---------------------------- MODULE ProviderAccess ----------------------------
(***************************************************************************)
(* Signing in to model providers (apps/host/src/provider-auth.ts,          *)
(* ProviderAuthManager) and the model catalog a change of credentials      *)
(* invalidates (model-catalog.ts).  Every sign-in, key change and fetch    *)
(* runs in an OMP worker process of its own; one slot (#busy) is meant to  *)
(* admit one change at a time.                                             *)
(*                                                                         *)
(* Actions are stretches of code between two awaits.  cancel() of a login  *)
(* whose request is under way closes its client, waits for the login's own *)
(* finally and returns with it; the rest of it is one step.                *)
(***************************************************************************)
EXTENDS Naturals, FiniteSets

CONSTANTS
  Logins,           \* sign-in attempts
  Mutations,        \* API key changes and logouts
  MaxFetches        \* bound: catalog fetches

ASSUME AccessAssumption ==
  /\ IsFiniteSet(Logins) /\ IsFiniteSet(Mutations)
  /\ Logins \cap Mutations = {}
  /\ MaxFetches \in Nat

VARIABLES
  busy, closed,     \* #busy, #closed
  status,           \* Login.state.status
  stage,            \* where the coroutine of a login or mutation is
  workers,          \* OMP clients in #clients
  closeP,           \* where close() is
  \* the catalog: the cached list and the fetch in flight, each with the number
  \* of credential changes it saw
  cached, fetch, seenBy, fetches,
  changes           \* history: calls of onChanged

slotVars == <<busy, closed, status, stage, workers, closeP>>
catalogVars == <<cached, fetch, seenBy, fetches>>
vars == <<slotVars, catalogVars, changes>>

Jobs == Logins \cup Mutations

Init ==
  /\ busy = FALSE /\ closed = FALSE /\ workers = {} /\ closeP = "no"
  /\ status = [l \in Logins |-> "none"]
  /\ stage = [j \in Jobs |-> "none"]
  /\ cached = {} /\ fetch = "no" /\ seenBy = 0 /\ fetches = 0
  /\ changes = 0

Go(j, to) == stage' = [stage EXCEPT ![j] = to]
Mark(l, st) == status' = [status EXCEPT ![l] = st]

----------------------------------------------------------------------------
\* The operators named Faulty... are not part of the system: each is a
\* plausible slip in the definition below it, and the project checks that the
\* properties notice it.

FaultyChanged == changes' = changes + 1 /\ UNCHANGED catalogVars

\* onChanged: the host drops the cached catalog, but not a fetch in flight.
Changed ==
  /\ changes' = changes + 1
  /\ cached' = {}
  /\ UNCHANGED <<fetch, seenBy, fetches>>

Claim(j) == ~closed /\ ~busy /\ stage[j] = "none" /\ busy' = TRUE /\ Go(j, "starting")

Login(l) ==
  /\ Claim(l) /\ Mark(l, "pending")
  /\ UNCHANGED <<closed, workers, closeP, catalogVars, changes>>

Mutate(m) ==
  /\ Claim(m)
  /\ UNCHANGED <<closed, status, workers, closeP, catalogVars, changes>>

\* The worker is up.  After close() it is closed again and the job fails; a
\* login that was cancelled meanwhile only releases it.
WorkerUp(j) ==
  /\ stage[j] = "starting"
  /\ IF closed
     THEN /\ Go(j, "done") /\ busy' = FALSE
          /\ IF j \in Logins THEN Mark(j, "failed") ELSE UNCHANGED status
          /\ UNCHANGED workers
     ELSE /\ workers' = workers \cup {j}
          /\ Go(j, IF j \in Logins /\ status[j] # "pending" THEN "release" ELSE "asking")
          /\ UNCHANGED <<busy, status>>
  /\ UNCHANGED <<closed, closeP, catalogVars, changes>>

\* The worker did not start: catch clears the slot and reports the failure.
WorkerFails(j) ==
  /\ stage[j] = "starting"
  /\ Go(j, "done") /\ busy' = FALSE
  /\ IF j \in Logins THEN Mark(j, "failed") ELSE UNCHANGED status
  /\ UNCHANGED <<closed, workers, closeP, catalogVars, changes>>

FaultyAcks(j) ==
  /\ stage[j] = "asking" /\ j \in workers
  /\ Go(j, "finally")
  /\ IF j \in Logins THEN Mark(j, "succeeded") ELSE UNCHANGED status
  /\ Changed
  /\ UNCHANGED <<busy, closed, workers, closeP>>

\* OMP did it.  What was cancelled meanwhile stays cancelled.
Acks(j) ==
  /\ stage[j] = "asking" /\ j \in workers
  /\ Go(j, "finally")
  /\ IF j \in Logins /\ status[j] # "pending"
     THEN UNCHANGED <<status, catalogVars, changes>>
     ELSE /\ IF j \in Logins THEN Mark(j, "succeeded") ELSE UNCHANGED status
          /\ Changed
  /\ UNCHANGED <<busy, closed, workers, closeP>>

\* OMP refused, the request timed out, or its client was closed.
Refuses(j) ==
  /\ stage[j] = "asking"
  /\ Go(j, "finally")
  /\ IF j \in Logins /\ status[j] = "pending" THEN Mark(j, "failed") ELSE UNCHANGED status
  /\ UNCHANGED <<busy, closed, workers, closeP, catalogVars, changes>>

FaultyFinally(j) ==
  /\ stage[j] = "finally"
  /\ Go(j, "done") /\ workers' = workers \ {j}
  /\ UNCHANGED <<busy, closed, status, closeP, catalogVars, changes>>

\* finally: release the worker, then the slot.
Finally(j) ==
  /\ stage[j] = "finally"
  /\ Go(j, "done") /\ workers' = workers \ {j} /\ busy' = FALSE
  /\ UNCHANGED <<closed, status, closeP, catalogVars, changes>>

\* The worker of a login that was cancelled before it was up.
ReleaseLate(j) ==
  /\ stage[j] = "release"
  /\ Go(j, "done") /\ workers' = workers \ {j}
  /\ UNCHANGED <<busy, closed, status, closeP, catalogVars, changes>>

\* cancel(): the worker is closed, which refuses the request, and Finally ends
\* the wait.  With no worker yet there is nothing to wait for, and the slot is
\* cleared although the worker is still starting.
Cancel(l) ==
  /\ status[l] = "pending"
  /\ Mark(l, "cancelled")
  /\ busy' = (busy /\ stage[l] # "starting")
  /\ UNCHANGED <<closed, stage, workers, closeP, catalogVars, changes>>

Close ==
  /\ ~closed
  /\ closed' = TRUE /\ closeP' = "releasing"
  /\ status' = [l \in Logins |-> IF status[l] = "pending" THEN "cancelled" ELSE status[l]]
  /\ UNCHANGED <<busy, stage, workers, catalogVars, changes>>

CloseReleases ==
  /\ closeP = "releasing"
  /\ closeP' = "done" /\ workers' = {}
  /\ UNCHANGED <<busy, closed, status, stage, catalogVars, changes>>

----------------------------------------------------------------------------
\* The catalog: list() serves the cache, joins the fetch in flight, or fetches.

Fetch ==
  /\ cached = {} /\ fetch = "no" /\ fetches < MaxFetches
  /\ fetch' = "starting" /\ fetches' = fetches + 1
  /\ UNCHANGED <<slotVars, cached, seenBy, changes>>

\* OMP reads the providers' models with the credentials it has now.
FetchReads ==
  /\ fetch = "starting"
  /\ fetch' = "read" /\ seenBy' = changes
  /\ UNCHANGED <<slotVars, cached, fetches, changes>>

FetchStores ==
  /\ fetch = "read"
  /\ fetch' = "closing" /\ cached' = {seenBy}
  /\ UNCHANGED <<slotVars, seenBy, fetches, changes>>

FetchFails ==
  /\ fetch \in {"starting", "read"}
  /\ fetch' = "closing"
  /\ UNCHANGED <<slotVars, cached, seenBy, fetches, changes>>

FetchEnds ==
  /\ fetch = "closing"
  /\ fetch' = "no"
  /\ UNCHANGED <<slotVars, cached, seenBy, fetches, changes>>

CacheExpires ==
  /\ cached # {}
  /\ cached' = {}
  /\ UNCHANGED <<slotVars, fetch, seenBy, fetches, changes>>

----------------------------------------------------------------------------

JobStep(j) ==
  WorkerUp(j) \/ WorkerFails(j) \/ Acks(j) \/ Refuses(j) \/ Finally(j) \/ ReleaseLate(j)
CatalogStep == Fetch \/ FetchReads \/ FetchStores \/ FetchFails \/ FetchEnds \/ CacheExpires

Next ==
  \/ \E l \in Logins : Login(l) \/ Cancel(l)
  \/ \E m \in Mutations : Mutate(m)
  \/ \E j \in Jobs : JobStep(j)
  \/ Close \/ CloseReleases
  \/ CatalogStep

\* A worker starts or fails within its ready timeout, a request ends within its
\* own, and closing a worker is bounded (OmpClient): every coroutine goes on.
Fairness ==
  /\ \A j \in Jobs : WF_vars(JobStep(j))
  /\ WF_vars(CloseReleases)

Spec == Init /\ [][Next]_vars /\ Fairness

----------------------------------------------------------------------------
\* Properties.

\* A sign-in the user cancelled is never reported as succeeded, and what the
\* user was told of a finished one does not change into success or cancellation.
CancelIsFinal ==
  [][\A l \in Logins :
       /\ status[l] \in {"cancelled", "failed"} => status'[l] # "succeeded"
       /\ status[l] \in {"succeeded", "failed"} => status'[l] = status[l]]_vars

\* Every sign-in and key change ends, the slot comes back, and after close()
\* no worker outlives the host, not even one that was still starting.
NothingHangs ==
  /\ \A j \in Jobs : stage[j] # "none" ~> stage[j] = "done"
  /\ busy ~> ~busy
  /\ closed ~> [](workers = {})

Stale == \E seen \in cached : seen < changes

\* A change of credentials never leaves a list it outdated in the cache: only a
\* fetch that the change overtook stores one the provider settings moved past.
CatalogFollowsChanges == [][Stale' /\ ~Stale => fetch = "read" /\ changes' = changes]_vars
=============================================================================
