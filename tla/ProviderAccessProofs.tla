-------------------------- MODULE ProviderAccessProofs --------------------------
(***************************************************************************)
(* Theorems about ProviderAccess, for any sign-ins, key changes and number *)
(* of catalog fetches: a sign-in that was cancelled never succeeds, close  *)
(* leaves no worker behind, and a change of credentials leaves no outdated *)
(* list in the cache.                                                      *)
(*                                                                         *)
(* What a sign-in may still report depends on where its coroutine is: one  *)
(* whose worker is starting has not finished, whatever cancel did to its   *)
(* status and to the slot meanwhile.                                       *)
(***************************************************************************)
EXTENDS ProviderAccess, TLAPS

Statuses == {"none", "pending", "cancelled", "succeeded", "failed"}
Stages == {"none", "starting", "asking", "release", "finally", "done"}

\* Every variable has the type its comment gives.
TypeOK ==
  /\ busy \in BOOLEAN /\ closed \in BOOLEAN
  /\ status \in [Logins -> Statuses] /\ stage \in [Jobs -> Stages]
  /\ workers \in SUBSET Jobs /\ closeP \in {"no", "releasing", "done"}
  /\ cached \in SUBSET Nat /\ fetch \in {"no", "starting", "read", "closing"}
  /\ seenBy \in Nat /\ fetches \in Nat /\ changes \in Nat

\* A sign-in reports nothing before it begins, and no result before its worker is up.
LoginOK(l) ==
  /\ stage[l] = "none" => status[l] = "none"
  /\ stage[l] = "starting" => status[l] \in {"pending", "cancelled"}
  /\ stage[l] = "release" => status[l] = "cancelled"

\* Workers are those of coroutines that will release them, and none comes up behind close.
WorkersOK ==
  /\ \A j \in workers : stage[j] \in {"asking", "release", "finally"}
  /\ closed => \A l \in Logins : status[l] # "pending"
  /\ closeP # "no" => closed
  /\ closeP = "done" => workers = {}

IInv == TypeOK /\ (\A l \in Logins : LoginOK(l)) /\ WorkersOK

----------------------------------------------------------------------------

LEMMA AccessStarts == Init => IInv
<1> SUFFICES ASSUME Init PROVE IInv
  OBVIOUS
<1>1. status \in [Logins -> Statuses] /\ stage \in [Jobs -> Stages]
  BY DEF Init, Statuses, Stages
<1>2. TypeOK
  BY <1>1 DEF Init, TypeOK
<1>3. (\A l \in Logins : LoginOK(l)) /\ WorkersOK
  BY DEF Init, LoginOK, WorkersOK, Jobs
<1> QED
  BY <1>2, <1>3 DEF IInv

\* A step of a job, which moves its coroutine and may settle its sign-in.
LEMMA JobKeeps ==
  ASSUME IInv, NEW j \in Jobs, NEW to \in Stages \ {"none", "starting"},
         stage[j] # "none", Go(j, to), busy' \in BOOLEAN,
         cached' \in SUBSET Nat, changes' \in Nat,
         UNCHANGED <<closed, closeP, fetch, seenBy, fetches>>,
         workers' \in SUBSET Jobs, closeP = "done" => workers' = {},
         \A k \in workers' : k \in workers \/ k = j,
         j \in workers' => to \in {"asking", "release", "finally"},
         \/ status' = status
         \/ \E st \in {"succeeded", "failed"} : j \in Logins /\ Mark(j, st) /\ to # "release",
         to = "release" => j \in Logins /\ status[j] = "cancelled"
  PROVE  IInv'
<1> USE DEF IInv
<1>1. /\ stage' \in [Jobs -> Stages] /\ stage'[j] = to
      /\ \A k \in Jobs : k # j => stage'[k] = stage[k]
  BY DEF Go, TypeOK
<1>2. /\ status' \in [Logins -> Statuses] /\ \A l \in Logins : l # j => status'[l] = status[l]
      /\ \A l \in Logins : status'[l] # status[l] => status'[l] # "pending"
      /\ j \in Logins /\ to = "release" => status'[j] = status[j]
  BY DEF Mark, TypeOK, Statuses
<1>3. TypeOK'
  BY <1>1, <1>2 DEF TypeOK
<1>4. ASSUME NEW l \in Logins PROVE LoginOK(l)'
  BY <1>1, <1>2 DEF LoginOK, Jobs
<1>5. WorkersOK'
  BY <1>1, <1>2 DEF WorkersOK, TypeOK
<1> QED
  BY <1>3, <1>4, <1>5

LEMMA JobStepKeeps == ASSUME IInv, NEW j \in Jobs, JobStep(j) PROVE IInv'
<1> USE DEF IInv, slotVars, catalogVars
<1>1. /\ busy \in BOOLEAN /\ cached \in SUBSET Nat /\ changes \in Nat /\ workers \in SUBSET Jobs
      /\ closeP = "done" => workers = {} /\ closed
  BY DEF TypeOK, WorkersOK
<1>2. CASE WorkerUp(j)
  <2>1. CASE closed
    BY <1>1, <1>2, <2>1, JobKeeps DEF WorkerUp, Stages, WorkersOK
  <2>2. CASE ~closed
    <3>1. j \in Logins => status[j] \in {"pending", "cancelled"}
      BY <1>2 DEF WorkerUp, LoginOK
    <3> QED
      BY <1>1, <1>2, <2>2, <3>1, JobKeeps DEF WorkerUp, Stages, WorkersOK
  <2> QED
    BY <2>1, <2>2
<1>3. CASE WorkerFails(j)
  BY <1>1, <1>3, JobKeeps DEF WorkerFails, Stages, WorkersOK
<1>4. CASE Acks(j)
  <2>1. /\ stage[j] = "asking" /\ Go(j, "finally")
        /\ UNCHANGED <<busy, closed, closeP, workers, fetch, seenBy, fetches>>
    BY <1>4 DEF Acks, Changed
  <2>2. CASE j \in Logins /\ status[j] # "pending"
    BY <1>1, <1>4, <2>1, <2>2, JobKeeps DEF Acks, Stages
  <2>3. CASE ~(j \in Logins /\ status[j] # "pending")
    <3>1. cached' = {} /\ changes' = changes + 1
      BY <1>4, <2>3 DEF Acks, Changed
    <3>2. status' = status \/ (j \in Logins /\ Mark(j, "succeeded"))
      BY <1>4, <2>3 DEF Acks
    <3> QED
      BY <1>1, <2>1, <3>1, <3>2, JobKeeps DEF Stages
  <2> QED
    BY <2>2, <2>3
<1>5. CASE Refuses(j)
  BY <1>1, <1>5, JobKeeps DEF Refuses, Stages, WorkersOK
<1>6. CASE Finally(j)
  BY <1>1, <1>6, JobKeeps DEF Finally, Stages, WorkersOK
<1>7. CASE ReleaseLate(j)
  BY <1>1, <1>7, JobKeeps DEF ReleaseLate, Stages, WorkersOK
<1> QED
  BY <1>2, <1>3, <1>4, <1>5, <1>6, <1>7 DEF JobStep

LEMMA SlotKeeps ==
  ASSUME IInv, \/ \E l \in Logins : Login(l) \/ Cancel(l)
               \/ \E m \in Mutations : Mutate(m)
               \/ Close \/ CloseReleases
  PROVE  IInv'
<1> USE DEF IInv, slotVars, catalogVars, Jobs
<1>1. ASSUME NEW l \in Logins, Login(l) PROVE IInv'
  <2>1. TypeOK'
    BY <1>1 DEF Login, Claim, Go, Mark, TypeOK, Statuses, Stages
  <2>2. ASSUME NEW k \in Logins PROVE LoginOK(k)'
    BY <1>1 DEF Login, Claim, Go, Mark, TypeOK, LoginOK
  <2>3. WorkersOK'
    BY <1>1 DEF Login, Claim, Go, Mark, TypeOK, WorkersOK
  <2> QED
    BY <2>1, <2>2, <2>3
<1>2. ASSUME NEW l \in Logins, Cancel(l) PROVE IInv'
  <2>1. TypeOK'
    BY <1>2 DEF Cancel, Mark, TypeOK, Statuses
  <2>2. ASSUME NEW k \in Logins PROVE LoginOK(k)'
    BY <1>2 DEF Cancel, Mark, TypeOK, LoginOK
  <2>3. WorkersOK'
    BY <1>2 DEF Cancel, Mark, TypeOK, WorkersOK
  <2> QED
    BY <2>1, <2>2, <2>3
<1>3. ASSUME NEW m \in Mutations, Mutate(m) PROVE IInv'
  <2>1. TypeOK'
    BY <1>3 DEF Mutate, Claim, Go, TypeOK, Stages
  <2>2. ASSUME NEW k \in Logins PROVE LoginOK(k)'
    BY <1>3, AccessAssumption DEF Mutate, Claim, Go, TypeOK, LoginOK
  <2>3. WorkersOK'
    BY <1>3 DEF Mutate, Claim, Go, TypeOK, WorkersOK
  <2> QED
    BY <2>1, <2>2, <2>3
<1>4. CASE Close
  <2>1. TypeOK'
    BY <1>4 DEF Close, TypeOK, Statuses
  <2>2. ASSUME NEW k \in Logins PROVE LoginOK(k)'
    BY <1>4 DEF Close, TypeOK, LoginOK
  <2>3. WorkersOK'
    BY <1>4 DEF Close, TypeOK, WorkersOK
  <2> QED
    BY <2>1, <2>2, <2>3
<1>5. CASE CloseReleases
  BY <1>5 DEF CloseReleases, TypeOK, LoginOK, WorkersOK
<1> QED
  BY <1>1, <1>2, <1>3, <1>4, <1>5

LEMMA CatalogKeeps == ASSUME IInv, CatalogStep \/ UNCHANGED vars PROVE IInv'
<1>1. UNCHANGED slotVars
  BY DEF CatalogStep, Fetch, FetchReads, FetchStores, FetchFails, FetchEnds, CacheExpires, vars
<1>2. /\ cached' \in SUBSET Nat /\ fetch' \in {"no", "starting", "read", "closing"}
      /\ seenBy' \in Nat /\ fetches' \in Nat /\ changes' \in Nat
  <2> USE DEF IInv, TypeOK, slotVars
  <2>1. CASE Fetch
    BY <2>1 DEF Fetch
  <2>2. CASE FetchReads
    BY <2>2 DEF FetchReads
  <2>3. CASE FetchStores
    BY <2>3 DEF FetchStores
  <2>4. CASE FetchFails \/ FetchEnds \/ CacheExpires
    BY <2>4 DEF FetchFails, FetchEnds, CacheExpires
  <2>5. CASE UNCHANGED vars
    BY <2>5 DEF vars, catalogVars
  <2> QED
    BY <2>1, <2>2, <2>3, <2>4, <2>5 DEF CatalogStep
<1>3. TypeOK'
  BY <1>1, <1>2 DEF IInv, TypeOK, slotVars
<1>4. WorkersOK' /\ \A l \in Logins : LoginOK(l)'
  BY <1>1 DEF IInv, WorkersOK, LoginOK, slotVars
<1> QED
  BY <1>3, <1>4 DEF IInv

LEMMA AccessInductive == IInv /\ [Next]_vars => IInv'
BY JobStepKeeps, SlotKeeps, CatalogKeeps DEF Next

----------------------------------------------------------------------------
\* The theorems.

\* The inductive invariant of the provider workers: a sign-in whose worker is
\* starting has no result, and a worker belongs to a coroutine that will release it.
THEOREM AccessInvariance == Spec => []IInv
BY AccessStarts, AccessInductive, PTL DEF Spec

\* What a step may do to the report of a sign-in.
FinalStep ==
  \A l \in Logins :
    /\ status[l] \in {"cancelled", "failed"} => status'[l] # "succeeded"
    /\ status[l] \in {"succeeded", "failed"} => status'[l] = status[l]

LEMMA StatusStep == IInv /\ [Next]_vars => FinalStep
<1> SUFFICES ASSUME IInv, [Next]_vars PROVE FinalStep
  OBVIOUS
<1> USE DEF FinalStep
<1>1. CASE status' = status
  BY <1>1
<1>2. ASSUME NEW l \in Logins, Login(l) \/ Cancel(l) PROVE FinalStep
  BY <1>2 DEF Login, Claim, Cancel, Mark, IInv, TypeOK, LoginOK, Jobs
<1>3. CASE Close
  BY <1>3 DEF Close, IInv, TypeOK
<1>4. ASSUME NEW j \in Jobs, JobStep(j), status' # status PROVE FinalStep
  <2>1. j \in Logins /\ status[j] \in {"pending", "cancelled"}
    BY <1>4 DEF JobStep, WorkerUp, WorkerFails, Acks, Refuses, Finally, ReleaseLate, IInv, LoginOK
  <2>2. \/ Mark(j, "failed")
        \/ status[j] = "pending" /\ Mark(j, "succeeded")
    BY <1>4 DEF JobStep, WorkerUp, WorkerFails, Acks, Refuses, Finally, ReleaseLate
  <2> QED
    BY <2>1, <2>2 DEF Mark, IInv, TypeOK
<1> QED
  BY <1>1, <1>2, <1>3, <1>4
     DEF Next, vars, slotVars, Mutate, CloseReleases, CatalogStep, Fetch, FetchReads, FetchStores,
         FetchFails, FetchEnds, CacheExpires

\* A sign-in that the user cancelled is never reported as succeeded, and what was
\* reported of a finished one stays (provider-auth.ts, cancel and login).  Cancelled
\* may still become failed, when the worker does not start.
THEOREM CancelledNeverSucceeds == Spec => CancelIsFinal
<1>1. Spec => [][FinalStep]_vars
  BY StatusStep, AccessInvariance, PTL DEF Spec
<1> QED
  BY <1>1 DEF CancelIsFinal, FinalStep

NoWorkerLeft == closeP = "done" => workers = {}

\* Once close() is over no OMP worker is registered, not even one whose start it
\* overtook.
THEOREM CloseLeavesNone == Spec => []NoWorkerLeft
<1>1. IInv => NoWorkerLeft
  BY DEF IInv, WorkersOK, NoWorkerLeft
<1> QED
  BY <1>1, AccessInvariance, PTL

LEMMA StaleStep == IInv /\ [Next]_vars => (Stale' /\ ~Stale => fetch = "read" /\ changes' = changes)
<1> SUFFICES ASSUME [Next]_vars, Stale', ~Stale PROVE fetch = "read" /\ changes' = changes
  OBVIOUS
<1>1. cached' # {} /\ ~(cached' = cached /\ changes' = changes)
  BY DEF Stale
<1>2. ASSUME NEW j \in Jobs, JobStep(j) PROVE FALSE
  BY <1>1, <1>2 DEF JobStep, WorkerUp, WorkerFails, Acks, Refuses, Finally, ReleaseLate, Changed, catalogVars
<1>3. CASE CatalogStep
  BY <1>1, <1>3 DEF CatalogStep, Fetch, FetchReads, FetchStores, FetchFails, FetchEnds, CacheExpires
<1> QED
  BY <1>1, <1>2, <1>3 DEF Next, vars, catalogVars, Login, Cancel, Mutate, Close, CloseReleases

\* A change of credentials leaves no list in the cache that it outdated: only a
\* fetch that was already reading can store one (provider-auth.ts, model-catalog.ts).
THEOREM CatalogIsDropped == Spec => CatalogFollowsChanges
<1>1. Spec => [][Stale' /\ ~Stale => fetch = "read" /\ changes' = changes]_vars
  BY StaleStep, AccessInvariance, PTL DEF Spec
<1> QED
  BY <1>1 DEF CatalogFollowsChanges

----------------------------------------------------------------------------
\* The slot.

\* A job that will give the slot back: all but a sign-in that was cancelled while
\* its worker was starting, which had it taken away then.
WillRelease(j) ==
  \/ stage[j] \in {"asking", "finally"}
  \/ stage[j] = "starting" /\ (closed \/ j \notin Logins \/ status[j] = "pending")

SlotIsInUse == busy => \E j \in Jobs : WillRelease(j)

\* A step that leaves the slot, and what will release it, as they are.
LEMMA SlotPasses ==
  ASSUME SlotIsInUse, busy' => busy, \A j \in Jobs : WillRelease(j) => WillRelease(j)'
  PROVE  SlotIsInUse'
BY DEF SlotIsInUse

\* A job that goes on keeps the slot, or gives it back.
LEMMA JobKeepsSlot ==
  ASSUME IInv, SlotIsInUse, NEW j \in Jobs, JobStep(j)
  PROVE  SlotIsInUse'
<1> USE DEF IInv, TypeOK, WillRelease
<1>1. CASE busy' = FALSE
  BY <1>1 DEF SlotIsInUse
<1>2. CASE WillRelease(j)' /\ busy' = busy /\ UNCHANGED closed
  BY <1>2 DEF SlotIsInUse
<1>3. ASSUME ~WillRelease(j), busy' = busy, UNCHANGED <<closed, status>>,
             NEW to \in Stages, Go(j, to)
      PROVE  SlotIsInUse'
  <2>1. \A k \in Jobs : k # j => stage'[k] = stage[k]
    BY <1>3 DEF Go
  <2> QED
    BY <1>3, <2>1 DEF SlotIsInUse
<1>4. CASE WorkerUp(j)
  <2>1. CASE closed
    BY <1>1, <1>4, <2>1 DEF WorkerUp
  <2>2. CASE ~closed /\ j \in Logins /\ status[j] # "pending"
    BY <1>3, <1>4, <2>2 DEF WorkerUp, Stages
  <2>3. CASE ~closed /\ ~(j \in Logins /\ status[j] # "pending")
    BY <1>2, <1>4, <2>3 DEF WorkerUp, Go
  <2> QED
    BY <2>1, <2>2, <2>3
<1>5. CASE WorkerFails(j) \/ Finally(j)
  BY <1>1, <1>5 DEF WorkerFails, Finally
<1>6. CASE Acks(j) \/ Refuses(j)
  BY <1>2, <1>6 DEF Acks, Refuses, Go
<1>7. CASE ReleaseLate(j)
  BY <1>3, <1>7 DEF ReleaseLate, Stages
<1> QED
  BY <1>4, <1>5, <1>6, <1>7 DEF JobStep

LEMMA SlotStep == ASSUME IInv, SlotIsInUse, [Next]_vars PROVE SlotIsInUse'
<1> USE DEF IInv, TypeOK, slotVars, vars
<1>1. ASSUME NEW j \in Jobs, Claim(j), UNCHANGED closed,
             j \in Logins => Mark(j, "pending")
      PROVE  SlotIsInUse'
  <2>1. stage'[j] = "starting" /\ (j \in Logins => status'[j] = "pending")
    BY <1>1 DEF Claim, Go, Mark
  <2> QED
    BY <2>1 DEF SlotIsInUse, WillRelease
<1>2. ASSUME NEW l \in Logins, Login(l) PROVE SlotIsInUse'
  BY <1>1, <1>2 DEF Login, Jobs
<1>3. ASSUME NEW m \in Mutations, Mutate(m) PROVE SlotIsInUse'
  BY <1>1, <1>3, AccessAssumption DEF Mutate, Jobs
<1>4. ASSUME NEW l \in Logins, Cancel(l) PROVE SlotIsInUse'
  <2>1. CASE stage[l] = "starting"
    BY <1>4, <2>1 DEF Cancel, SlotIsInUse
  <2>2. CASE stage[l] # "starting"
    <3>1. \A j \in Jobs : j # l => status'[j] = status[j] \/ j \notin Logins
      BY <1>4 DEF Cancel, Mark
    <3>2. \A j \in Jobs : WillRelease(j) => WillRelease(j)'
      BY <1>4, <2>2, <3>1 DEF Cancel, WillRelease
    <3> QED
      BY <1>4, <3>2, SlotPasses DEF Cancel
  <2> QED
    BY <2>1, <2>2
<1>5. CASE Close
  BY <1>5, SlotPasses DEF Close, WillRelease
<1>6. CASE CloseReleases
  BY <1>6, SlotPasses DEF CloseReleases, WillRelease
<1>7. CASE CatalogStep \/ UNCHANGED vars
  <2>1. UNCHANGED slotVars
    BY <1>7 DEF CatalogStep, Fetch, FetchReads, FetchStores, FetchFails, FetchEnds, CacheExpires
  <2> QED
    BY <2>1, SlotPasses DEF WillRelease
<1> QED
  BY <1>2, <1>3, <1>4, <1>5, <1>6, <1>7, JobKeepsSlot DEF Next

\* The slot is never lost: while it is taken there is a sign-in or key change under
\* way whose end will clear it, whatever was cancelled or closed (#busy).
THEOREM SlotIsNeverLost == Spec => []SlotIsInUse
<1>1. Init => SlotIsInUse
  BY DEF Init, SlotIsInUse
<1>2. IInv /\ SlotIsInUse /\ [Next]_vars => SlotIsInUse'
  BY SlotStep
<1> QED
  BY <1>1, <1>2, AccessInvariance, PTL DEF Spec

\* One sign-in or key change at a time, but for a cancellation that comes while a
\* worker starts: that one clears the slot of a job that goes on.
UnderWay(j) == stage[j] \in {"starting", "asking", "finally"}
OneJob == \A j, k \in Jobs : UnderWay(j) /\ UnderWay(k) => j = k
EarlyCancel == \E l \in Logins : stage[l] = "starting" /\ Cancel(l)

Orderly ==
  /\ OneJob
  /\ \A j \in Jobs : stage[j] # "release" /\ (UnderWay(j) => busy)
  /\ \A l \in Logins : stage[l] = "starting" /\ ~closed => status[l] = "pending"

LEMMA OrderlyJob ==
  ASSUME IInv, Orderly, NEW j \in Jobs, JobStep(j)
  PROVE  Orderly'
<1> USE DEF IInv, TypeOK
<1>1. PICK to \in {"asking", "finally", "done"} :
        /\ Go(j, to) /\ UnderWay(j) /\ UNCHANGED closed
        /\ IF to = "done" THEN busy' = FALSE ELSE busy' = busy
        /\ \A l \in Logins : l # j => status'[l] = status[l]
  <2>1. stage[j] # "release"
    BY DEF Orderly
  <2>2. CASE WorkerUp(j)
    BY <2>2 DEF WorkerUp, UnderWay, Orderly, Mark
  <2>3. CASE WorkerFails(j) \/ Finally(j)
    BY <2>3 DEF WorkerFails, Finally, UnderWay, Mark
  <2>4. CASE Acks(j) \/ Refuses(j)
    BY <2>4 DEF Acks, Refuses, UnderWay, Mark
  <2> QED
    BY <2>1, <2>2, <2>3, <2>4 DEF JobStep, ReleaseLate
<1>2. stage'[j] = to /\ \A k \in Jobs : k # j => stage'[k] = stage[k]
  BY <1>1 DEF Go
<1>3. \A k \in Jobs : UnderWay(k)' => k = j /\ to # "done"
  BY <1>1, <1>2 DEF UnderWay, Orderly, OneJob
<1>4. \A k \in Jobs : stage'[k] # "release" /\ (UnderWay(k)' => busy')
  BY <1>1, <1>2, <1>3 DEF Orderly
<1>5. ASSUME NEW l \in Logins
      PROVE  stage'[l] = "starting" /\ ~closed' => status'[l] = "pending"
  BY <1>1, <1>2 DEF Orderly, Jobs
<1> QED
  BY <1>3, <1>4, <1>5 DEF Orderly, OneJob

LEMMA OrderlyStep == ASSUME IInv, Orderly, [Next /\ ~EarlyCancel]_vars PROVE Orderly'
<1> USE DEF IInv, TypeOK, slotVars, vars
<1>1. ASSUME NEW j \in Jobs, Claim(j), UNCHANGED closed,
             j \in Logins => Mark(j, "pending"), j \notin Logins => UNCHANGED status
      PROVE  Orderly'
  <2>1. /\ stage'[j] = "starting" /\ \A k \in Jobs : k # j => stage'[k] = stage[k]
        /\ busy' /\ \A k \in Jobs : ~UnderWay(k)
    BY <1>1 DEF Claim, Go, Orderly
  <2>2. \A l \in Logins : status'[l] = IF l = j THEN "pending" ELSE status[l]
    BY <1>1 DEF Mark
  <2> QED
    BY <2>1, <2>2 DEF Orderly, OneJob, UnderWay, Jobs
<1>2. ASSUME NEW l \in Logins, Login(l) PROVE Orderly'
  BY <1>1, <1>2 DEF Login, Jobs
<1>3. ASSUME NEW m \in Mutations, Mutate(m) PROVE Orderly'
  BY <1>1, <1>3, AccessAssumption DEF Mutate, Jobs
<1>4. ASSUME NEW l \in Logins, Cancel(l), stage[l] # "starting" PROVE Orderly'
  <2>1. UNCHANGED <<stage, closed>> /\ busy' = busy
    BY <1>4 DEF Cancel
  <2>2. \A k \in Logins : k # l => status'[k] = status[k]
    BY <1>4 DEF Cancel, Mark
  <2> QED
    BY <1>4, <2>1, <2>2 DEF Orderly, OneJob, UnderWay
<1>5. CASE Close \/ CloseReleases
  BY <1>5 DEF Close, CloseReleases, Orderly, OneJob, UnderWay
<1>6. CASE CatalogStep \/ UNCHANGED vars
  <2>1. UNCHANGED slotVars
    BY <1>6 DEF CatalogStep, Fetch, FetchReads, FetchStores, FetchFails, FetchEnds, CacheExpires
  <2> QED
    BY <2>1 DEF Orderly, OneJob, UnderWay
<1> QED
  BY <1>2, <1>3, <1>4, <1>5, <1>6, OrderlyJob DEF Next, EarlyCancel

\* Where no sign-in is cancelled while its worker starts, one job at a time has a
\* worker at work (#busy): two at once take the cancellation of provider-auth.ts:276.
THEOREM OverlapNeedsEarlyCancel == Spec /\ [][~EarlyCancel]_vars => []OneJob
<1>1. Init => Orderly
  BY DEF Init, Orderly, OneJob, UnderWay, Jobs
<1>2. IInv /\ Orderly /\ [Next /\ ~EarlyCancel]_vars => Orderly'
  BY OrderlyStep
<1>3. [Next]_vars /\ [~EarlyCancel]_vars => [Next /\ ~EarlyCancel]_vars
  OBVIOUS
<1>4. Orderly => OneJob
  BY DEF Orderly
<1> QED
  BY <1>1, <1>2, <1>3, <1>4, AccessInvariance, PTL DEF Spec

=============================================================================
