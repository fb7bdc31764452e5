--------------------------- MODULE RelaySessionProofs ---------------------------
(***************************************************************************)
(* Theorems about RelaySession, for any channels, request ids and bounds:  *)
(* a request runs once on a channel, what a caller is told is true, and a  *)
(* revoked device hears nothing but the refusal.                           *)
(*                                                                         *)
(* The first holds because a channel that lives remembers every id it ran; *)
(* the second because every frame under way is true when it is sent, and   *)
(* what makes it true lasts: a run that has ended never starts again.      *)
(***************************************************************************)
EXTENDS RelaySession, FiniteSetTheorems, TLAPS

Frames == [id : Ids, status : Statuses] \cup {ReadyFrame}
HostStates == {"none", "waiting", "serving", "gone"}
RecordStates == {"none", "running", "ok", "failed"}

HostTypes ==
  /\ host \in [Channels -> HostStates]
  /\ records \in [Channels -> [Ids -> RecordStates]]
  /\ slots \in [Channels -> SUBSET Ids]
  /\ running \in SUBSET (Channels \X Ids)
  /\ revoked \in BOOLEAN
  /\ net \in [Channels -> {"unused", "opening", "up", "down"}]
  /\ down \in [Channels -> Seq(Frames)]
  /\ starts \in [Channels -> [Ids -> Nat]]

Settled(e, i) == starts[e][i] > 0 /\ <<e, i>> \notin running

\* A channel that lives remembers what it ran, and holds a slot for each run.
Remembers(e) ==
  host[e] # "gone" =>
    \A i \in Ids : /\ starts[e][i] > 0 => records[e][i] # "none"
                   /\ <<e, i>> \in running => i \in slots[e]

\* A recorded success, and a frame that tells of one or of a revoked device.
RecordsTrue(e) == \A i \in Ids : records[e][i] = "ok" => Settled(e, i)
IsTrue(e, f) ==
  /\ f.status = "ok" => Settled(e, f.id)
  /\ f.status = "unauthorized" => revoked
Sent(e) == {down[e][k] : k \in 1 .. Len(down[e])}

HostInv ==
  /\ HostTypes
  /\ \A e \in Channels :
       /\ \A i \in Ids : starts[e][i] <= 1 /\ (<<e, i>> \in running => starts[e][i] > 0)
       /\ Cardinality(slots[e]) <= MaxPending
       /\ Remembers(e) /\ RecordsTrue(e)
       /\ \A f \in Sent(e) : IsTrue(e, f)

\* A call that waits was made in its epoch, and an answer is true of it.
ClientInv ==
  /\ pend \in SUBSET (Ids \X Nat)
  /\ epoch \in Nat
  /\ result \in [Ids -> {"none", Waiting, "lost", "timeout"} \cup Statuses]
  /\ madeIn \in [Ids -> Nat]
  /\ \A p \in pend : madeIn[p[1]] = p[2]
  /\ \A i \in Ids :
       /\ result[i] = "ok" => madeIn[i] \in Channels /\ Settled(madeIn[i], i)
       /\ result[i] = "unauthorized" => revoked
       /\ result[i] = Waiting <=> i \in IdsOf(pend)

UpTypes == up \in [Channels -> Seq(Ids \cup {Hello})]

IInv == HostInv /\ ClientInv /\ UpTypes
----------------------------------------------------------------------------
\* What a step of the host owes.

\* What is true of a run that has ended stays true, and a revocation stays.
Lasts ==
  /\ revoked => revoked'
  /\ \A e \in Channels, i \in Ids : Settled(e, i) => Settled(e, i)'

\* A revoked device is sent the refusal, and the answer to its hello.
Silent(e) ==
  revoked /\ Len(down'[e]) > Len(down[e])
    => down'[e][Len(down'[e])].status \in {"unauthorized", "ready"}

SilentStep == (revoked => running' \subseteq running) /\ \A e \in Channels : Silent(e)

\* The frames added to the channels are true.
Speaks ==
  /\ down' \in [Channels -> Seq(Frames)]
  /\ \A e \in Channels :
       /\ \A f \in Sent(e)' : f \in Sent(e) \/ IsTrue(e, f)'
       /\ Silent(e)

HostGoes == HostInv' /\ Lasts /\ SilentStep

LEMMA FramesLast ==
  ASSUME HostInv, Lasts, Speaks
  PROVE  \A e \in Channels : \A f \in Sent(e)' : IsTrue(e, f)'
<1> SUFFICES ASSUME NEW e \in Channels, NEW f \in Sent(e)', f \in Sent(e)
             PROVE  IsTrue(e, f)'
  BY DEF Speaks
<1>1. IsTrue(e, f)
  BY DEF HostInv
<1>2. f \in Frames
  BY DEF HostInv, HostTypes, Sent
<1>3. f.status = "ok" => f.id \in Ids
  BY <1>2 DEF Frames, ReadyFrame
<1> QED
  BY <1>1, <1>3 DEF IsTrue, Lasts

\* Frames that are read or lost tell nothing new.
LEMMA ShrinkSpeaks ==
  ASSUME HostTypes, down' \in [Channels -> Seq(Frames)],
         \A e \in Channels : \/ down'[e] = down[e] \/ down'[e] = <<>>
                             \/ down[e] # <<>> /\ down'[e] = Tail(down[e])
  PROVE  Speaks
<1> SUFFICES ASSUME NEW e \in Channels PROVE Sent(e)' \subseteq Sent(e) /\ Len(down'[e]) <= Len(down[e])
  BY DEF Speaks, Silent, HostTypes
<1>1. down[e] \in Seq(Frames)
  BY DEF HostTypes
<1>2. CASE down'[e] = down[e]
  BY <1>1, <1>2 DEF Sent
<1>3. CASE down'[e] = <<>>
  BY <1>1, <1>3 DEF Sent
<1>4. CASE down[e] # <<>> /\ down'[e] = Tail(down[e])
  <2>1. Len(Tail(down[e])) = Len(down[e]) - 1 /\ Len(down[e]) \in Nat \ {0}
    BY <1>1, <1>4
  <2>2. \A k \in 1 .. Len(Tail(down[e])) : Tail(down[e])[k] = down[e][k + 1]
    BY <1>1, <1>4
  <2>3. Sent(e)' = {Tail(down[e])[k] : k \in 1 .. Len(Tail(down[e]))}
    BY <1>4 DEF Sent
  <2> QED
    BY <1>4, <2>1, <2>2, <2>3 DEF Sent
<1> QED
  BY <1>2, <1>3, <1>4

\* One frame that is sent.
LEMMA EmitSpeaks ==
  ASSUME HostTypes, NEW e \in Channels, NEW f \in Frames, Emit(e, f),
         IsTrue(e, f)', revoked => f.status \in {"unauthorized", "ready"}
  PROVE  Speaks
<1>1. CASE net[e] # "up"
  <2>1. down' = down
    BY <1>1 DEF Emit, HostTypes
  <2> QED
    BY <2>1, ShrinkSpeaks DEF HostTypes
<1>2. CASE net[e] = "up"
  <2>1. /\ down' \in [Channels -> Seq(Frames)]
        /\ down'[e] = Append(down[e], f)
        /\ \A d \in Channels \ {e} : down'[d] = down[d]
    BY <1>2 DEF Emit, HostTypes
  <2>2. down[e] \in Seq(Frames)
    BY DEF HostTypes
  <2>3. /\ Len(down'[e]) = Len(down[e]) + 1 /\ Len(down[e]) \in Nat
        /\ down'[e][Len(down[e]) + 1] = f
        /\ \A k \in 1 .. Len(down[e]) : down'[e][k] = down[e][k]
    BY <2>1, <2>2
  <2>4. \A g \in Sent(e)' : g \in Sent(e) \/ g = f
    BY <2>3 DEF Sent
  <2>5. \A d \in Channels \ {e} : Sent(d)' = Sent(d) /\ Len(down'[d]) = Len(down[d]) /\ Len(down[d]) \in Nat
    BY <2>1 DEF Sent, HostTypes
  <2> QED
    BY <2>1, <2>3, <2>4, <2>5 DEF Speaks, Silent
<1> QED
  BY <1>1, <1>2
LEMMA ReadySpeaks ==
  ASSUME HostTypes, NEW e \in Channels, Emit(e, ReadyFrame)
  PROVE  Speaks
<1>1. ReadyFrame \in Frames /\ ReadyFrame.status = "ready"
  BY DEF Frames, ReadyFrame
<1> QED
  BY <1>1, EmitSpeaks DEF IsTrue

LEMMA ResponseSpeaks ==
  ASSUME HostTypes, NEW e \in Channels, NEW i \in Ids, NEW s \in Statuses,
         SendResponse(e, i, s), UNCHANGED revoked,
         s = "ok" => Settled(e, i)', s = "unauthorized" => revoked
  PROVE  Speaks
<1>1. PICK t \in Statuses : t = IF revoked THEN "unauthorized" ELSE s
  BY DEF Statuses
<1>2. PICK f \in Frames : f = Response(i, t) /\ f.id = i /\ f.status = t
  <2>1. Response(i, t) \in Frames
    BY DEF Frames, Response
  <2> QED
    BY <2>1 DEF Response
<1>3. IsTrue(e, f)'
  BY <1>1, <1>2 DEF IsTrue
<1>4. Emit(e, f)
  BY <1>1, <1>2 DEF SendResponse
<1>5. revoked => f.status = "unauthorized"
  BY <1>1, <1>2
<1> QED
  BY <1>3, <1>4, <1>5, EmitSpeaks

----------------------------------------------------------------------------
\* The steps of the host.

\* A step that leaves the ledger alone, and revives no channel.
LEMMA LedgerKept ==
  ASSUME HostInv, Speaks, UNCHANGED <<records, slots, running, revoked, starts>>,
         net' \in [Channels -> {"unused", "opening", "up", "down"}],
         host' \in [Channels -> HostStates],
         \A e \in Channels : host'[e] # "gone" => host[e] # "gone"
  PROVE  HostGoes
<1>1. Lasts
  BY DEF Lasts, Settled
<1>2. HostTypes'
  BY DEF HostInv, HostTypes, Speaks
<1>3. \A e \in Channels : Remembers(e)' /\ RecordsTrue(e)'
  BY DEF HostInv, Remembers, RecordsTrue, Settled
<1> QED
  BY <1>1, <1>2, <1>3, FramesLast DEF HostInv, HostGoes, SilentStep, Speaks

\* A step that leaves the host alone, but for frames the client reads.
LEMMA HostKept ==
  ASSUME HostInv, UNCHANGED hostOnly,
         net' \in [Channels -> {"unused", "opening", "up", "down"}],
         down' \in [Channels -> Seq(Frames)],
         \A e \in Channels : \/ down'[e] = down[e] \/ down'[e] = <<>>
                             \/ down[e] # <<>> /\ down'[e] = Tail(down[e])
  PROVE  HostGoes
<1>1. Speaks
  BY ShrinkSpeaks DEF HostInv
<1> QED
  BY <1>1, LedgerKept DEF hostOnly, HostInv, HostTypes

LEMMA Disposes ==
  ASSUME HostInv, Speaks, NEW E \in SUBSET Channels, Dispose(E),
         UNCHANGED <<running, revoked, starts>>,
         net' \in [Channels -> {"unused", "opening", "up", "down"}]
  PROVE  HostGoes
<1>1. Lasts
  BY DEF Lasts, Settled
<1>2. HostTypes'
  BY DEF HostInv, HostTypes, Speaks, Dispose, NoRecords, HostStates, RecordStates
<1>3. \A e \in Channels : Remembers(e)' /\ RecordsTrue(e)'
  BY DEF HostInv, HostTypes, Remembers, RecordsTrue, Settled, Dispose, NoRecords
<1>4. \A e \in Channels : Cardinality(slots'[e]) <= MaxPending
  BY FS_EmptySet, HostAssumption DEF HostInv, HostTypes, Dispose
<1> QED
  BY <1>1, <1>2, <1>3, <1>4, FramesLast DEF HostInv, HostGoes, SilentStep, Speaks

\* The record of a run becomes a failure, or one is made without a run.
LEMMA RecordFails ==
  ASSUME HostInv, Speaks, NEW e \in Channels, NEW i \in Ids, Record(e, i, "failed"),
         UNCHANGED <<host, slots, running, revoked, net, starts>>
  PROVE  HostGoes
<1>1. Lasts
  BY DEF Lasts, Settled
<1>2. HostTypes'
  BY DEF HostInv, HostTypes, Speaks, Record, RecordStates
<1>3. \A d \in Channels : Remembers(d)' /\ RecordsTrue(d)'
  BY DEF HostInv, HostTypes, Remembers, RecordsTrue, Settled, Record
<1> QED
  BY <1>1, <1>2, <1>3, FramesLast DEF HostInv, HostGoes, SilentStep, Speaks

LEMMA Runs ==
  ASSUME HostInv, NEW e \in Channels, NEW i \in Ids, Serving(e), Run(e, i),
         UNCHANGED <<revoked, net>>
  PROVE  HostGoes
<1>1. starts[e][i] = 0 /\ ~revoked
  <2>1. ~revoked /\ records[e][i] = "none" /\ host[e] = "serving"
    BY DEF Run, Admitted, Fresh, Serving
  <2>2. Remembers(e) /\ starts[e][i] \in Nat
    BY DEF HostInv, HostTypes
  <2>3. ~(starts[e][i] > 0)
    BY <2>1, <2>2 DEF Remembers
  <2> QED
    BY <2>1, <2>2, <2>3
<1>2. Lasts
  BY <1>1 DEF Lasts, Settled, Run, HostInv, HostTypes
<1>3. Speaks
  BY ShrinkSpeaks DEF Run, HostInv, HostTypes
<1>4. HostTypes'
  BY DEF HostInv, HostTypes, Run, Record, RecordStates
<1>5. \A d \in Channels : Remembers(d)'
  BY DEF HostInv, HostTypes, Remembers, Run, Record
<1>6. \A d \in Channels : RecordsTrue(d)'
  BY <1>2 DEF HostInv, HostTypes, RecordsTrue, Run, Record, Lasts
<1>7. \A d \in Channels, j \in Ids :
        starts'[d][j] <= 1 /\ (<<d, j>> \in running' => starts'[d][j] > 0)
  <2>1. starts' = [starts EXCEPT ![e][i] = @ + 1] /\ running' = running \cup {<<e, i>>}
    BY DEF Run
  <2>2. starts \in [Channels -> [Ids -> Nat]]
    BY DEF HostInv, HostTypes
  <2>3. \A d \in Channels, j \in Ids :
          starts'[d][j] = IF d = e /\ j = i THEN 1 ELSE starts[d][j]
    BY <1>1, <2>1, <2>2
  <2>4. \A d \in Channels, j \in Ids :
          starts[d][j] <= 1 /\ (<<d, j>> \in running => starts[d][j] > 0)
    BY DEF HostInv
  <2> TAKE d \in Channels, j \in Ids
  <2>5. CASE d = e /\ j = i
    BY <2>3, <2>5
  <2>6. CASE ~(d = e /\ j = i)
    <3>1. starts'[d][j] = starts[d][j] /\ (<<d, j>> \in running' => <<d, j>> \in running)
      BY <2>1, <2>3, <2>6
    <3> QED
      BY <2>4, <3>1
  <2> QED
    BY <2>5, <2>6
<1>8. \A d \in Channels : Cardinality(slots'[d]) <= MaxPending
  <2>1. IsFiniteSet(slots[e]) /\ Cardinality(slots[e]) \in Nat
    BY FS_Subset, FS_CardinalityType, HostAssumption DEF HostInv, HostTypes
  <2>2. Cardinality(slots[e] \cup {i}) <= Cardinality(slots[e]) + 1
    <3>1. Cardinality(slots[e] \cup {i}) = IF i \in slots[e] THEN Cardinality(slots[e])
                                                            ELSE Cardinality(slots[e]) + 1
      BY <2>1, FS_AddElement, Zenon
    <3> QED
      BY <2>1, <3>1
  <2>3. Cardinality(slots[e]) < MaxPending /\ MaxPending \in Nat
    BY HostAssumption DEF Run, Admitted
  <2>4. slots'[e] = slots[e] \cup {i} /\ \A d \in Channels \ {e} : slots'[d] = slots[d]
    BY DEF Run, HostInv, HostTypes
  <2>5. Cardinality(slots[e] \cup {i}) \in Nat
    BY <2>1, FS_AddElement, FS_CardinalityType
  <2>6. Cardinality(slots'[e]) <= MaxPending
    BY <2>1, <2>2, <2>3, <2>4, <2>5
  <2> QED
    BY <2>4, <2>6 DEF HostInv
<1>9. SilentStep
  BY <1>1, <1>3 DEF SilentStep, Speaks
<1> QED
  BY <1>2, <1>3, <1>4, <1>5, <1>6, <1>7, <1>8, <1>9, FramesLast DEF HostInv, HostGoes

LEMMA Ends ==
  ASSUME HostInv, NEW e \in Channels, NEW i \in Ids, HandlerEnds(e, i)
  PROVE  HostGoes
<1>0. Record(e, i, "ok") \/ UNCHANGED records
  BY DEF HandlerEnds
<1>1. Settled(e, i)'
  BY DEF HostInv, HostTypes, HandlerEnds, Settled
<1>2. Lasts
  BY DEF Lasts, Settled, HandlerEnds
<1>3. Speaks
  <2>1. CASE Serving(e) /\ records[e][i] = "running"
    BY <1>1, <2>1, ResponseSpeaks DEF HandlerEnds, HostInv, Statuses
  <2>2. CASE ~(Serving(e) /\ records[e][i] = "running")
    BY <2>2, ShrinkSpeaks DEF HandlerEnds, HostInv, HostTypes
  <2> QED
    BY <2>1, <2>2
<1>4. HostTypes'
  <2>1. records' \in [Channels -> [Ids -> RecordStates]]
    <3>1. records \in [Channels -> [Ids -> RecordStates]] /\ "ok" \in RecordStates
      BY DEF HostInv, HostTypes, RecordStates
    <3>2. CASE UNCHANGED records
      BY <3>1, <3>2
    <3>3. CASE Record(e, i, "ok")
      BY <3>1, <3>3 DEF Record
    <3> QED
      BY <1>0, <3>2, <3>3
  <2>2. slots' \in [Channels -> SUBSET Ids] /\ running' \in SUBSET (Channels \X Ids)
    BY DEF HostInv, HostTypes, HandlerEnds
  <2> QED
    BY <1>3, <2>1, <2>2 DEF HostInv, HostTypes, Speaks, HandlerEnds
<1>5. \A d \in Channels : Remembers(d)'
  BY DEF HostInv, HostTypes, Remembers, HandlerEnds, Record
<1>6. \A d \in Channels : RecordsTrue(d)'
  <2>1. \A d \in Channels, j \in Ids :
          records'[d][j] = records[d][j] \/ (d = e /\ j = i)
    <3>1. records \in [Channels -> [Ids -> RecordStates]]
      BY DEF HostInv, HostTypes
    <3>2. CASE UNCHANGED records
      BY <3>2
    <3>3. CASE Record(e, i, "ok")
      BY <3>1, <3>3 DEF Record
    <3> QED
      BY <1>0, <3>2, <3>3
  <2>2. \A d \in Channels : RecordsTrue(d)
    BY DEF HostInv
  <2> QED
    BY <1>1, <1>2, <2>1, <2>2 DEF RecordsTrue, Lasts
<1>7. \A d \in Channels : Cardinality(slots'[d]) <= MaxPending
  <2>1. IsFiniteSet(slots[e])
    BY FS_Subset, HostAssumption DEF HostInv, HostTypes
  <2>2. Cardinality(slots[e] \ {i}) <= Cardinality(slots[e])
    BY <2>1, FS_Subset
  <2>3. Cardinality(slots[e]) \in Nat /\ Cardinality(slots[e] \ {i}) \in Nat
    BY <2>1, FS_RemoveElement, FS_CardinalityType
  <2>4. MaxPending \in Nat
    BY HostAssumption
  <2>5. slots'[e] = slots[e] \ {i} /\ \A d \in Channels \ {e} : slots'[d] = slots[d]
    BY DEF HandlerEnds, HostInv, HostTypes
  <2>6. \A d \in Channels : Cardinality(slots[d]) <= MaxPending
    BY DEF HostInv
  <2>7. Cardinality(slots'[e]) <= MaxPending
    BY <2>2, <2>3, <2>4, <2>5, <2>6
  <2> QED
    BY <2>5, <2>6, <2>7
<1>8. \A d \in Channels, j \in Ids :
        starts'[d][j] <= 1 /\ (<<d, j>> \in running' => starts'[d][j] > 0)
  BY DEF HostInv, HandlerEnds
<1>9. SilentStep
  BY <1>3 DEF SilentStep, Speaks, HandlerEnds
<1> QED
  BY <1>2, <1>3, <1>4, <1>5, <1>6, <1>7, <1>8, <1>9, FramesLast DEF HostInv, HostGoes

LEMMA Revokes == ASSUME HostInv, Revoke PROVE HostGoes
<1>1. Lasts
  BY DEF Lasts, Settled, Revoke
<1>2. Speaks
  BY ShrinkSpeaks DEF Revoke, HostInv, HostTypes
<1>3. \A d \in Channels : Remembers(d)' /\ RecordsTrue(d)'
  BY DEF HostInv, Remembers, RecordsTrue, Settled, Revoke
<1> QED
  BY <1>1, <1>2, <1>3, FramesLast DEF HostInv, HostTypes, HostGoes, SilentStep, Speaks, Revoke

\* #receive answers or runs; it closes the channel at most.
LEMMA Receives ==
  ASSUME HostInv, NEW e \in Channels, NEW i \in Ids, Serving(e), Receive(e, i),
         UNCHANGED revoked, net' \in [Channels -> {"unused", "opening", "up", "down"}],
         Serving(e)' => UNCHANGED net
  PROVE  HostGoes
<1>1. CASE Refuse(e, i)
  <2>1. Speaks
    BY <1>1, ResponseSpeaks DEF Refuse, HostInv, Statuses
  <2> QED
    BY <1>1, <2>1, LedgerKept DEF Refuse, HostInv, HostTypes
<1>2. CASE Repeat(e, i)
  <2>1. Speaks
    <3>1. CASE records[e][i] = "running"
      BY <1>2, <3>1, ShrinkSpeaks DEF Repeat, HostInv, HostTypes
    <3>2. CASE records[e][i] # "running"
      <4>1. records[e][i] \in {"ok", "failed"}
        BY <1>2, <3>2 DEF Repeat, HostInv, HostTypes, RecordStates
      <4>2. records[e][i] = "ok" => Settled(e, i)'
        BY <1>2 DEF Repeat, HostInv, RecordsTrue, Settled
      <4> QED
        BY <1>2, <3>2, <4>1, <4>2, ResponseSpeaks DEF Repeat, HostInv, Statuses
    <3> QED
      BY <3>1, <3>2
  <2> QED
    BY <1>2, <2>1, LedgerKept DEF Repeat, HostInv, HostTypes
<1>3. CASE LedgerFull(e, i)
  <2>1. Speaks
    BY <1>3, ResponseSpeaks DEF LedgerFull, HostInv, Statuses
  <2> QED
    BY <1>3, <2>1, Disposes DEF LedgerFull
<1>4. CASE SlotsFull(e, i)
  <2>1. Speaks
    BY <1>4, ResponseSpeaks DEF SlotsFull, HostInv, Statuses
  <2> QED
    BY <1>4, <2>1, LedgerKept DEF SlotsFull, HostInv, HostTypes
<1>5. CASE ServerFull(e, i)
  <2>1. Speaks
    BY <1>5, ResponseSpeaks DEF ServerFull, HostInv, Statuses
  <2>2. Serving(e)'
    BY <1>5 DEF ServerFull, Serving
  <2> QED
    BY <1>5, <2>1, <2>2, RecordFails DEF ServerFull
<1>6. CASE Run(e, i)
  <2>1. Serving(e)'
    BY <1>6 DEF Run, Serving
  <2> QED
    BY <1>6, <2>1, Runs
<1> QED
  BY <1>1, <1>2, <1>3, <1>4, <1>5, <1>6 DEF Receive

LEMMA TimesOut ==
  ASSUME HostInv, NEW e \in Channels, NEW i \in Ids, HandlerTimesOut(e, i)
  PROVE  HostGoes
<1>1. Speaks
  BY ResponseSpeaks DEF HandlerTimesOut, HostInv, Statuses
<1> QED
  BY <1>1, RecordFails DEF HandlerTimesOut
----------------------------------------------------------------------------
\* What a step of the client owes.

LEMMA ClientKept ==
  ASSUME ClientInv, Lasts, UNCHANGED <<pend, result, madeIn>>, epoch' \in Nat
  PROVE  ClientInv'
BY DEF ClientInv, Lasts, IdsOf

\* The callers in P leave the queue, and are told what is so.
LEMMA Told ==
  ASSUME ClientInv, Lasts, UNCHANGED <<madeIn, epoch>>,
         NEW P \in SUBSET pend, NEW what \in {"lost", "timeout"} \cup Statuses,
         pend' = pend \ P, Tell(P, what),
         what = "ok" => \A p \in P : p[2] \in Channels /\ Settled(p[2], p[1])',
         what = "unauthorized" => revoked'
  PROVE  ClientInv'
<1>1. what # Waiting /\ Waiting \notin Statuses
  BY DEF Waiting, Statuses
<1>2. result' = [i \in Ids |-> IF i \in IdsOf(P) THEN what ELSE result[i]]
  BY DEF Tell
<1>3. result' \in [Ids -> {"none", Waiting, "lost", "timeout"} \cup Statuses]
  BY <1>2 DEF ClientInv
<1>4. \A i \in Ids : i \in IdsOf(pend') <=> i \in IdsOf(pend) /\ i \notin IdsOf(P)
  <2> TAKE i \in Ids
  <2>1. ASSUME NEW p \in pend \ P, NEW q \in P, p[1] = i, q[1] = i PROVE FALSE
    <3>1. p[2] = madeIn[i] /\ q[2] = madeIn[i]
      BY <2>1 DEF ClientInv
    <3>2. p = <<p[1], p[2]>> /\ q = <<q[1], q[2]>>
      BY DEF ClientInv
    <3> QED
      BY <2>1, <3>1, <3>2
  <2> QED
    BY <2>1 DEF IdsOf
<1>5. ASSUME NEW i \in Ids
      PROVE  /\ result'[i] = "ok" => madeIn[i] \in Channels /\ Settled(madeIn[i], i)'
             /\ result'[i] = "unauthorized" => revoked'
             /\ result'[i] = Waiting <=> i \in IdsOf(pend')
  <2>1. CASE i \in IdsOf(P)
    <3>1. PICK p \in P : p[1] = i
      BY <2>1 DEF IdsOf
    <3>2. p[2] = madeIn[i]
      BY <3>1 DEF ClientInv
    <3>3. result'[i] = what
      BY <1>2, <2>1
    <3> QED
      BY <1>1, <1>4, <2>1, <3>1, <3>2, <3>3 DEF Settled
  <2>2. CASE i \notin IdsOf(P)
    <3>1. result'[i] = result[i]
      BY <1>2, <2>2
    <3>2. madeIn[i] \in Channels /\ Settled(madeIn[i], i) => Settled(madeIn[i], i)'
      BY DEF Lasts, Settled
    <3> QED
      BY <1>4, <2>2, <3>1, <3>2 DEF ClientInv, Lasts
  <2> QED
    BY <2>1, <2>2
<1> QED
  BY <1>3, <1>5 DEF ClientInv, Settled

LEMMA Requests ==
  ASSUME ClientInv, Lasts, NEW i \in Ids, Request(i)
  PROVE  ClientInv'
<1>1. /\ i \notin IdsOf(pend) /\ pend' = pend \cup {<<i, epoch>>} /\ epoch' = epoch
      /\ result' = [result EXCEPT ![i] = Waiting]
      /\ madeIn' = [madeIn EXCEPT ![i] = epoch]
  BY DEF Request
<1>2. \A p \in pend : p[1] \in Ids /\ p[1] # i
  BY <1>1 DEF ClientInv, IdsOf
<1>3. \A p \in pend' : madeIn'[p[1]] = p[2]
  BY <1>1, <1>2 DEF ClientInv
<1>4. \A j \in Ids : j \in IdsOf(pend') <=> (j = i \/ j \in IdsOf(pend))
  <2>1. <<i, epoch>> \in pend' /\ <<i, epoch>>[1] = i
    BY <1>1
  <2>2. \A p \in pend' : p \in pend \/ p[1] = i
    BY <1>1
  <2>3. pend \subseteq pend'
    BY <1>1
  <2> QED
    BY <2>1, <2>2, <2>3 DEF IdsOf
<1>5. Waiting \notin {"ok", "unauthorized"}
  BY DEF Waiting
<1>6. ASSUME NEW j \in Ids
      PROVE  /\ result'[j] = "ok" => madeIn'[j] \in Channels /\ Settled(madeIn[j], j)'
             /\ result'[j] = "unauthorized" => revoked'
             /\ result'[j] = Waiting <=> j \in IdsOf(pend')
  <2>1. CASE j = i
    BY <1>1, <1>4, <1>5, <2>1 DEF ClientInv
  <2>2. CASE j # i
    <3>1. result'[j] = result[j] /\ madeIn'[j] = madeIn[j]
      BY <1>1, <2>2 DEF ClientInv
    <3>2. PICK m \in Nat : m = madeIn[j]
      BY DEF ClientInv
    <3>3. /\ result[j] = "ok" => m \in Channels /\ Settled(m, j)
          /\ result[j] = "unauthorized" => revoked
          /\ result[j] = Waiting <=> j \in IdsOf(pend)
      BY <3>2 DEF ClientInv
    <3>4. /\ revoked => revoked'
          /\ m \in Channels /\ Settled(m, j) => Settled(m, j)'
      BY DEF Lasts
    <3> QED
      BY <1>4, <2>2, <3>1, <3>2, <3>3, <3>4 DEF Settled
  <2> QED
    BY <2>1, <2>2
<1>7. /\ pend' \in SUBSET (Ids \X Nat) /\ epoch' \in Nat
      /\ result' \in [Ids -> {"none", Waiting, "lost", "timeout"} \cup Statuses]
      /\ madeIn' \in [Ids -> Nat]
  BY <1>1 DEF ClientInv
<1> QED
  BY <1>3, <1>6, <1>7 DEF ClientInv, Settled

\* Whoever waits on a connection that is lost is told so.
LEMMA LoseTells == ASSUME IInv, Lose, Lasts PROVE ClientInv'
<1> DEFINE P == {p \in pend : p[2] = epoch}
<1>1. pend' = pend \ P /\ Tell(P, "lost") /\ UNCHANGED <<madeIn, epoch>>
  BY DEF Lose, RejectPending
<1> QED
  BY <1>1, Told DEF IInv

LEMMA LoseKeepsHost == ASSUME IInv, Lose PROVE HostGoes
<1>1. UNCHANGED hostOnly
  BY DEF Lose, hostOnly
<1>2. net' \in [Channels -> {"unused", "opening", "up", "down"}]
  BY DEF Lose, Net, IInv, HostInv, HostTypes
<1>3. /\ down' \in [Channels -> Seq(Frames)]
      /\ \A e \in Channels : down'[e] = down[e] \/ down'[e] = <<>>
  <2> DEFINE S == Seq(Frames)
  <2>1. <<>> \in S
    OBVIOUS
  <2>2. down \in [Channels -> S] /\ down' = [down EXCEPT ![epoch] = <<>>]
    BY DEF Lose, IInv, HostInv, HostTypes
  <2> HIDE DEF S
  <2>3. down' \in [Channels -> S] /\ \A e \in Channels : down'[e] = down[e] \/ down'[e] = <<>>
    BY <2>1, <2>2
  <2> QED
    BY <2>3 DEF S
<1> QED
  BY <1>1, <1>2, <1>3, HostKept DEF IInv

LEMMA AnswerTells ==
  ASSUME IInv, Lasts, NEW e \in Channels, AnswerArrives(e)
  PROVE  ClientInv'
<1> DEFINE f == Head(down[e])
<1>1. f \in Sent(e) /\ f \in Frames /\ f # ReadyFrame
  BY DEF AnswerArrives, Arrived, IInv, HostInv, HostTypes, Sent
<1>2. f \in [id : Ids, status : Statuses] /\ IsTrue(e, f)
  BY <1>1 DEF IInv, HostInv, Frames
<1>3. PICK i \in Ids, st \in Statuses : i = f.id /\ st = f.status
  BY <1>2
<1>4. /\ pend' = pend \ Answers(e) /\ Tell(Answers(e), st) /\ UNCHANGED <<madeIn, epoch>>
      /\ Answers(e) \subseteq pend /\ \A p \in Answers(e) : p[1] = i /\ p[2] = e
  BY <1>3 DEF AnswerArrives, Answers
<1>5. /\ st = "ok" => Settled(e, i)'
      /\ st = "unauthorized" => revoked'
  BY <1>2, <1>3 DEF IsTrue, Lasts
<1>6. PICK P \in SUBSET pend : P = Answers(e)
  BY <1>4
<1>7. st = "ok" => \A p \in P : p[2] \in Channels /\ Settled(p[2], p[1])'
  BY <1>4, <1>5, <1>6 DEF Settled
<1> HIDE DEF f
<1> QED
  BY <1>4, <1>5, <1>6, <1>7, Told DEF IInv
----------------------------------------------------------------------------
\* Every step.

Goes == HostGoes /\ ClientInv' /\ UpTypes'

\* Steps that leave the host alone, and what callers were told.
LEMMA PlainStep ==
  ASSUME IInv, UNCHANGED <<hostOnly, down, pend, result, madeIn>>, UpTypes', epoch' \in Nat,
         net' \in [Channels -> {"unused", "opening", "up", "down"}]
  PROVE  Goes
<1>1. HostGoes
  BY HostKept DEF IInv, HostInv, HostTypes
<1> QED
  BY <1>1, ClientKept DEF Goes, HostGoes, IInv

LEMMA LoseStep == ASSUME IInv, Lose PROVE Goes
<1>1. HostGoes
  BY LoseKeepsHost
<1>2. UpTypes'
  BY DEF Lose, IInv, UpTypes
<1> QED
  BY <1>1, <1>2, LoseTells DEF Goes, HostGoes

LEMMA ConnectStep == ASSUME IInv, Connect \/ SocketOpens \/ HelloAgain PROVE Goes
<1>1. UNCHANGED <<hostOnly, down, pend, result, madeIn>> /\ epoch' \in Nat
  BY HostAssumption DEF Connect, SocketOpens, HelloAgain, hostOnly, hostVars, clientVars, IInv, ClientInv
<1>2. net' \in [Channels -> {"unused", "opening", "up", "down"}]
  BY DEF Connect, SocketOpens, HelloAgain, Net, hostVars, IInv, HostInv, HostTypes
<1>3. UpTypes'
  BY DEF Connect, SocketOpens, HelloAgain, Hello, IInv, UpTypes
<1> QED
  BY <1>1, <1>2, <1>3, PlainStep

LEMMA RequestStep == ASSUME IInv, NEW i \in Ids, Request(i) PROVE Goes
<1>1. HostGoes
  BY HostKept DEF Request, hostVars, hostOnly, IInv, HostInv, HostTypes
<1>2. UpTypes'
  <2>1. up' = [up EXCEPT ![epoch] = IF net[epoch] = "up" THEN Append(@, i) ELSE @]
    BY DEF Request
  <2>2. \A e \in Channels : Append(up[e], i) \in Seq(Ids \cup {Hello})
    BY DEF IInv, UpTypes
  <2> QED
    BY <2>1, <2>2 DEF IInv, UpTypes
<1> QED
  BY <1>1, <1>2, Requests DEF Goes, HostGoes, IInv

LEMMA RequestTimesOutStep == ASSUME IInv, NEW i \in Ids, RequestTimesOut(i) PROVE Goes
<1>1. HostGoes
  BY HostKept DEF RequestTimesOut, hostVars, hostOnly, IInv, HostInv, HostTypes
<1>2. PICK p \in pend : pend' = pend \ {p} /\ Tell({p}, "timeout")
  BY DEF RequestTimesOut
<1>3. UNCHANGED <<madeIn, epoch>>
  BY DEF RequestTimesOut
<1>4. ClientInv'
  BY <1>1, <1>2, <1>3, Told DEF HostGoes, IInv
<1>5. UpTypes'
  BY DEF RequestTimesOut, IInv, UpTypes
<1> QED
  BY <1>1, <1>4, <1>5 DEF Goes

\* The client takes the frame at the head of its channel.
LEMMA TakenKeepsHost ==
  ASSUME IInv, NEW e \in Channels, Arrived(e), Taken(e)
  PROVE  HostGoes
<1> DEFINE S == Seq(Frames)
<1>1. down \in [Channels -> S] /\ down[e] # <<>> /\ down' = [down EXCEPT ![e] = Tail(@)]
  BY DEF Arrived, Taken, IInv, HostInv, HostTypes
<1>2. Tail(down[e]) \in S
  BY <1>1
<1> HIDE DEF S
<1>3. /\ down' \in [Channels -> S]
      /\ \A d \in Channels : \/ down'[d] = down[d]
                             \/ down[d] # <<>> /\ down'[d] = Tail(down[d])
  BY <1>1, <1>2
<1> USE DEF S
<1> QED
  BY <1>3, HostKept DEF Taken, IInv, HostInv, HostTypes

LEMMA ClientStepGoes == ASSUME IInv, NEW e \in Channels, ClientStep(e) PROVE Goes
<1>1. CASE ReadyArrives(e)
  <2>1. HostGoes
    BY <1>1, TakenKeepsHost DEF ReadyArrives
  <2>2. UNCHANGED <<pend, result, madeIn, epoch, up>>
    BY <1>1 DEF ReadyArrives
  <2> QED
    BY <2>1, <2>2, ClientKept DEF Goes, HostGoes, IInv, ClientInv, UpTypes
<1>2. CASE AnswerArrives(e)
  <2>1. HostGoes
    BY <1>2, TakenKeepsHost DEF AnswerArrives
  <2>2. UNCHANGED up
    BY <1>2 DEF AnswerArrives
  <2> QED
    BY <1>2, <2>1, <2>2, AnswerTells DEF Goes, HostGoes, IInv, UpTypes
<1>3. CASE StrayAnswer(e)
  BY <1>3, LoseStep DEF StrayAnswer
<1> QED
  BY <1>1, <1>2, <1>3 DEF ClientStep

\* The client does not move when the host does.
LEMMA HostMoves ==
  ASSUME IInv, HostGoes, UNCHANGED clientVars, UpTypes'
  PROVE  Goes
BY ClientKept DEF Goes, HostGoes, IInv, ClientInv, clientVars

LEMMA HostStepGoes == ASSUME IInv, NEW e \in Channels, HostStep(e) PROVE Goes
<1>1. CASE Announced(e)
  <2>1. /\ host' \in [Channels -> HostStates]
        /\ \A d \in Channels : host'[d] # "gone" => host[d] # "gone"
    BY <1>1 DEF Announced, IInv, HostInv, HostTypes, HostStates
  <2>2. Speaks
    BY <1>1, ShrinkSpeaks DEF Announced, IInv, HostInv, HostTypes
  <2>3. HostGoes
    BY <1>1, <2>1, <2>2, LedgerKept DEF Announced, IInv, HostInv, HostTypes
  <2> QED
    BY <1>1, <2>3, HostMoves DEF Announced, IInv, UpTypes
<1>2. CASE HelloArrives(e)
  <2>1. /\ host' \in [Channels -> HostStates]
        /\ \A d \in Channels : host'[d] # "gone" => host[d] # "gone"
    BY <1>2 DEF HelloArrives, Alive, IInv, HostInv, HostTypes, HostStates
  <2>2. Speaks
    BY <1>2, ReadySpeaks DEF HelloArrives, IInv, HostInv
  <2>3. HostGoes
    BY <1>2, <2>1, <2>2, LedgerKept DEF HelloArrives, IInv, HostInv, HostTypes
  <2>4. UpTypes'
    BY <1>2 DEF HelloArrives, NextUp, IInv, UpTypes
  <2> QED
    BY <1>2, <2>3, <2>4, HostMoves DEF HelloArrives, NextUp
<1>3. CASE RequestArrives(e)
  <2>1. Head(up[e]) \in Ids
    BY <1>3 DEF RequestArrives, IInv, UpTypes
  <2>2. /\ net' \in [Channels -> {"unused", "opening", "up", "down"}]
        /\ Serving(e)' => UNCHANGED net
    BY <1>3 DEF RequestArrives, Net, IInv, HostInv, HostTypes
  <2>3. HostGoes
    BY <1>3, <2>1, <2>2, Receives DEF RequestArrives, IInv
  <2>4. UNCHANGED clientVars
    BY <1>3 DEF RequestArrives, NextUp
  <2>5. \/ up' = [up EXCEPT ![e] = Tail(@)]
        \/ up' = [up EXCEPT ![e] = <<>>]
    BY <1>3 DEF RequestArrives, NextUp
  <2>6. Tail(up[e]) \in Seq(Ids \cup {Hello}) /\ <<>> \in Seq(Ids \cup {Hello})
    BY <1>3 DEF RequestArrives, IInv, UpTypes
  <2>7. UpTypes'
    BY <2>5, <2>6 DEF IInv, UpTypes
  <2> QED
    BY <2>3, <2>4, <2>7, HostMoves
<1>4. CASE DataSocketCloses(e)
  <2>1. Speaks
    BY <1>4, ShrinkSpeaks DEF DataSocketCloses, IInv, HostInv, HostTypes
  <2>2. net' \in [Channels -> {"unused", "opening", "up", "down"}]
    BY <1>4 DEF DataSocketCloses, Net, IInv, HostInv, HostTypes
  <2>3. HostGoes
    BY <1>4, <2>1, <2>2, Disposes DEF DataSocketCloses, IInv
  <2>4. UpTypes'
    BY <1>4 DEF DataSocketCloses, IInv, UpTypes
  <2> QED
    BY <1>4, <2>3, <2>4, HostMoves DEF DataSocketCloses
<1> QED
  BY <1>1, <1>2, <1>3, <1>4 DEF HostStep

LEMMA LostStep == ASSUME IInv, NEW e \in Channels, Lost(e) PROVE Goes
<1> DEFINE S == Seq(Frames)
<1>1. down \in [Channels -> S] /\ <<>> \in S /\ down' = [down EXCEPT ![e] = <<>>]
  BY DEF Lost, IInv, HostInv, HostTypes
<1> HIDE DEF S
<1>2. down' \in [Channels -> S] /\ \A d \in Channels : down'[d] = down[d] \/ down'[d] = <<>>
  BY <1>1
<1> USE DEF S
<1>3. net' \in [Channels -> {"unused", "opening", "up", "down"}]
  BY DEF Lost, Net, IInv, HostInv, HostTypes
<1>4. HostGoes
  BY <1>2, <1>3, HostKept DEF Lost, IInv
<1>5. UpTypes'
  BY DEF Lost, IInv, UpTypes
<1> QED
  BY <1>4, <1>5, HostMoves DEF Lost

LEMMA StopStep == ASSUME IInv, Stop PROVE Goes
<1>1. Speaks
  BY ShrinkSpeaks DEF Stop, IInv, HostInv, HostTypes
<1>2. net' \in [Channels -> {"unused", "opening", "up", "down"}]
  BY DEF Stop, IInv, HostInv, HostTypes
<1>3. HostGoes
  BY <1>1, <1>2, Disposes DEF Stop, IInv
<1>4. UpTypes'
  BY DEF Stop, IInv, UpTypes
<1> QED
  BY <1>3, <1>4, HostMoves DEF Stop

LEMMA StepGoes == ASSUME IInv, [Next]_vars PROVE Goes
<1>1. CASE UNCHANGED vars
  BY <1>1, PlainStep DEF vars, hostVars, clientVars, hostOnly, IInv, HostInv, HostTypes, ClientInv, UpTypes
<1>2. CASE Connect \/ SocketOpens \/ HelloAgain
  BY <1>2, ConnectStep
<1>3. CASE SocketFails \/ HandshakeTimesOut \/ SeesClose \/ Close
  BY <1>3, LoseStep DEF SocketFails, HandshakeTimesOut, SeesClose, Close
<1>4. ASSUME NEW i \in Ids, Request(i) \/ RequestTimesOut(i) PROVE Goes
  BY <1>4, RequestStep, RequestTimesOutStep
<1>5. ASSUME NEW e \in Channels, ClientStep(e) \/ HostStep(e) \/ Lost(e) PROVE Goes
  BY <1>5, ClientStepGoes, HostStepGoes, LostStep
<1>6. ASSUME NEW e \in Channels, NEW i \in Ids, HandlerTimesOut(e, i) \/ HandlerEnds(e, i), Untouched
      PROVE  Goes
  <2>1. HostGoes
    BY <1>6, TimesOut, Ends DEF IInv
  <2> QED
    BY <1>6, <2>1, HostMoves DEF Untouched, IInv, UpTypes
<1>7. CASE Revoke /\ Untouched
  <2>1. HostGoes
    BY <1>7, Revokes DEF IInv
  <2> QED
    BY <1>7, <2>1, HostMoves DEF Untouched, IInv, UpTypes
<1>8. CASE LinkStep /\ UNCHANGED <<hostVars, clientVars, up>>
  BY <1>8, PlainStep DEF hostVars, clientVars, hostOnly, IInv, HostInv, HostTypes, ClientInv, UpTypes
<1>9. CASE Stop
  BY <1>9, StopStep
<1> QED
  BY <1>1, <1>2, <1>3, <1>4, <1>5, <1>6, <1>7, <1>8, <1>9 DEF Next

----------------------------------------------------------------------------
\* The theorems.

LEMMA InitHolds == Init => IInv
<1> SUFFICES ASSUME Init PROVE IInv
  OBVIOUS
<1>1. HostTypes
  <2>1. <<>> \in Seq(Frames)
    OBVIOUS
  <2>2. /\ host \in [Channels -> HostStates]
        /\ records \in [Channels -> [Ids -> RecordStates]]
        /\ slots \in [Channels -> SUBSET Ids]
        /\ running \in SUBSET (Channels \X Ids)
        /\ revoked \in BOOLEAN
    BY DEF Init, HostInit, HostStates, RecordStates, NoRecords
  <2>3. /\ net \in [Channels -> {"unused", "opening", "up", "down"}]
        /\ starts \in [Channels -> [Ids -> Nat]]
        /\ down \in [Channels -> Seq(Frames)]
    BY <2>1 DEF Init, HostInit
  <2> QED
    BY <2>2, <2>3 DEF HostTypes
<1>2. \A e \in Channels : Sent(e) = {}
  BY DEF Init, HostInit, Sent
<1>3. \A e \in Channels : slots[e] = {} /\ Cardinality(slots[e]) <= MaxPending
  BY FS_EmptySet, HostAssumption DEF Init, HostInit
<1>4. HostInv
  BY <1>1, <1>2, <1>3 DEF HostInv, Init, HostInit, Remembers, RecordsTrue, NoRecords
<1>5. ClientInv /\ UpTypes
  BY DEF Init, ClientInv, UpTypes, IdsOf, Waiting
<1> QED
  BY <1>4, <1>5 DEF IInv

LEMMA StepHolds == IInv /\ [Next]_vars => IInv'
BY StepGoes DEF Goes, HostGoes, IInv

\* The inductive invariant: what a channel remembers, what is under way on it,
\* and how the calls that wait relate to both.
THEOREM RelayInvariance == Spec => []IInv
BY InitHolds, StepHolds, PTL DEF Spec

\* However often an id is repeated on a channel it is run once, and a channel
\* never has more runs under way than slots, timeouts and repeats included.
THEOREM RunOnce == Spec => []HandlerOnce
<1>1. IInv => HandlerOnce
  BY DEF IInv, HostInv, HostTypes, HandlerOnce, Remembers, Serving
<1> QED
  BY <1>1, RelayInvariance, PTL

\* A caller told of success had its request run to the end on the connection of
\* its call; one told of a revoked device had one; and only who waits is pending.
THEOREM TrueAnswers == Spec => []AnswersAreTrue
<1>1. IInv => AnswersAreTrue
  BY DEF IInv, ClientInv, AnswersAreTrue, Settled
<1> QED
  BY <1>1, RelayInvariance, PTL

\* After the revocation no handler starts, and only the refusal is sent.
THEOREM SilenceAfterRevocation == Spec => RevokedIsSilent
<1>1. IInv /\ [Next]_vars => [SilentStep]_vars
  BY StepGoes DEF Goes, HostGoes
<1>2. [SilentStep]_vars =>
        [revoked => /\ running' \subseteq running
                    /\ \A e \in Channels : Len(down'[e]) > Len(down[e]) =>
                         down'[e][Len(down'[e])].status \in {"unauthorized", "ready"}]_vars
  BY DEF SilentStep, Silent
<1> QED
  BY <1>1, <1>2, RelayInvariance, PTL DEF Spec, RevokedIsSilent

----------------------------------------------------------------------------
\* The control connection.  Each socket that is not unused is the current one;
\* a server that was started and has none has a timer that will try another.

OneControl ==
  /\ control = {s \in Sockets : ctl[s] # "unused"}
  /\ connecting = {s \in Sockets : ctl[s] = "opening"}
  /\ \A s, t \in control : s = t
  /\ timer => control = {} /\ life = "started"
  /\ life = "started" => control # {} \/ timer
  /\ life # "started" => control = {}

LinkTypes == ctl \in [Sockets -> {"unused", "opening", "open"}] /\ timer \in BOOLEAN

LinkInv == LinkTypes /\ OneControl

LEMMA LinkBegins ==
  ASSUME LinkInv, NEW s \in Sockets, Begin(s), control = {}, life' = "started", timer' = FALSE
  PROVE  LinkInv'
<1>1. /\ ctl' \in [Sockets -> {"unused", "opening", "open"}] /\ ctl'[s] = "opening"
      /\ \A t \in Sockets : t # s => ctl'[t] = "unused"
  BY DEF Begin, Becomes, LinkInv, LinkTypes, OneControl
<1>2. control' = {s} /\ connecting' = {s}
  BY DEF Begin
<1>3. {t \in Sockets : ctl'[t] # "unused"} = {s} /\ {t \in Sockets : ctl'[t] = "opening"} = {s}
  BY <1>1
<1> QED
  BY <1>1, <1>2, <1>3 DEF LinkInv, LinkTypes, OneControl

LEMMA LinkKeeps == ASSUME LinkInv, LinkStep \/ StopLink PROVE LinkInv'
<1> USE DEF LinkInv, LinkTypes, OneControl, Becomes, Begin, Schedule
<1>1. ASSUME NEW s \in Sockets, Start(s) PROVE LinkInv'
  BY <1>1, LinkBegins DEF Start
<1>2. ASSUME NEW s \in Sockets, TimerFires(s) PROVE LinkInv'
  BY <1>2, LinkBegins DEF TimerFires
<1>3. ASSUME NEW s \in Sockets, Opens(s) PROVE LinkInv'
  BY <1>3 DEF Opens
<1>4. ASSUME NEW s \in Sockets, Fails(s) PROVE LinkInv'
  BY <1>4 DEF Fails
<1>5. ASSUME NEW s \in Sockets, Drops(s) PROVE LinkInv'
  BY <1>5 DEF Drops
<1>6. CASE StopLink
  BY <1>6 DEF StopLink
<1> QED
  BY <1>1, <1>2, <1>3, <1>4, <1>5, <1>6 DEF LinkStep

\* Outside of its own steps and of stop() the link is left alone.
LEMMA LinkMoves == [Next]_vars => LinkStep \/ StopLink \/ UNCHANGED linkVars
<1> SUFFICES ASSUME [Next]_vars PROVE LinkStep \/ StopLink \/ UNCHANGED linkVars
  OBVIOUS
<1> USE DEF hostVars, clientVars, vars
<1>1. CASE Connect \/ SocketOpens \/ HelloAgain \/ SocketFails \/ HandshakeTimesOut \/ SeesClose \/ Close
  BY <1>1 DEF Connect, SocketOpens, HelloAgain, SocketFails, HandshakeTimesOut, SeesClose, Close, Lose
<1>2. ASSUME NEW i \in Ids, Request(i) \/ RequestTimesOut(i) PROVE UNCHANGED linkVars
  BY <1>2 DEF Request, RequestTimesOut
<1>3. ASSUME NEW e \in Channels, ClientStep(e) \/ HostStep(e) \/ Lost(e) PROVE UNCHANGED linkVars
  <2>1. CASE ClientStep(e)
    BY <2>1 DEF ClientStep, ReadyArrives, AnswerArrives, StrayAnswer, Lose
  <2>2. CASE HostStep(e)
    BY <2>2 DEF HostStep, Announced, HelloArrives, RequestArrives, DataSocketCloses, NextUp
  <2>3. CASE Lost(e)
    BY <2>3 DEF Lost
  <2> QED
    BY <1>3, <2>1, <2>2, <2>3
<1>4. CASE Stop
  BY <1>4 DEF Stop
<1> QED
  BY <1>1, <1>2, <1>3, <1>4 DEF Next, Untouched

\* The Mac never has two control connections at the relay, and while it is started
\* it has one, or a timer that tries again (#beginConnectControl, #scheduleReconnect):
\* no order of failures, drops and a stop leaves it without either.
THEOREM OneControlConnection == Spec => []OneControl
<1>1. Init => LinkInv
  <2> SUFFICES ASSUME Init PROVE LinkInv
    OBVIOUS
  <2>1. LinkTypes /\ \A s \in Sockets : ctl[s] = "unused"
    BY DEF Init, LinkInit, LinkTypes
  <2>2. control = {} /\ connecting = {} /\ ~timer /\ life = "new"
    BY DEF Init, LinkInit
  <2> QED
    BY <2>1, <2>2 DEF LinkInv, OneControl
<1>2. LinkInv /\ [Next]_vars => LinkInv'
  <2>1. LinkInv /\ UNCHANGED linkVars => LinkInv'
    BY DEF LinkInv, LinkTypes, OneControl, linkVars
  <2> QED
    BY <2>1, LinkKeeps, LinkMoves
<1> QED
  BY <1>1, <1>2, PTL DEF Spec, LinkInv

----------------------------------------------------------------------------
\* The callers of the device.

\* A call waits only on an open connection, the one it was made on.
NobodyLeftWaiting == \A p \in pend : p[2] = epoch /\ cState = "open"

ClientShape ==
  /\ cState \in {"idle", "connecting", "open"} /\ epoch \in Nat
  /\ net \in [Channels -> {"unused", "opening", "up", "down"}]
  /\ attached <=> cState # "idle"
  /\ attached => epoch \in Channels
  /\ cState = "open" <=> chan = "open"
  /\ attached /\ net[epoch] = "opening" => chan = "none"
  /\ NobodyLeftWaiting

LEMMA LoseLeavesNone == ASSUME ClientShape, attached, Lose PROVE ClientShape'
<1>1. pend' = {} /\ cState' = "idle" /\ chan' = "none" /\ attached' = FALSE /\ epoch' = epoch
  BY DEF Lose, RejectPending, ClientShape, NobodyLeftWaiting
<1>2. net' \in [Channels -> {"unused", "opening", "up", "down"}]
  BY DEF Lose, Net, ClientShape
<1> QED
  BY <1>1, <1>2 DEF ClientShape, NobodyLeftWaiting

\* What the host and the network do takes a connection from the client, at most.
LEMMA OthersLeaveClient ==
  ASSUME ClientShape, UNCHANGED clientVars,
         net' \in [Channels -> {"unused", "opening", "up", "down"}],
         \A e \in Channels : net'[e] = net[e] \/ net'[e] = "down"
  PROVE  ClientShape'
BY DEF ClientShape, NobodyLeftWaiting, clientVars

LEMMA ClientKeepsShape == ASSUME ClientShape, [Next]_vars PROVE ClientShape'
<1> USE DEF hostVars, hostOnly, clientVars, vars
<1>1. CASE Connect
  <2>1. /\ epoch' = epoch + 1 /\ epoch' \in Channels /\ epoch' \in Nat /\ pend' = pend
        /\ cState = "idle" /\ cState' = "connecting" /\ attached' /\ chan' = "none"
        /\ net' = [net EXCEPT ![epoch + 1] = "opening"]
    BY <1>1 DEF Connect, Net, ClientShape
  <2> QED
    BY <2>1 DEF ClientShape, NobodyLeftWaiting
<1>2. CASE SocketOpens
  <2>1. /\ attached /\ net[epoch] = "opening" /\ net' = [net EXCEPT ![epoch] = "up"]
        /\ chan' = "handshaking" /\ UNCHANGED <<cState, epoch, attached, pend>>
    BY <1>2 DEF SocketOpens, Net
  <2> QED
    BY <2>1 DEF ClientShape, NobodyLeftWaiting
<1>3. CASE HelloAgain
  BY <1>3, OthersLeaveClient DEF HelloAgain, ClientShape
<1>4. CASE SocketFails \/ HandshakeTimesOut \/ SeesClose \/ Close
  BY <1>4, LoseLeavesNone DEF SocketFails, HandshakeTimesOut, SeesClose, Close
<1>5. ASSUME NEW i \in Ids, Request(i) PROVE ClientShape'
  <2>1. /\ cState = "open" /\ pend' = pend \cup {<<i, epoch>>}
        /\ UNCHANGED <<net, cState, epoch, attached, chan>>
    BY <1>5 DEF Request
  <2> QED
    BY <2>1 DEF ClientShape, NobodyLeftWaiting
<1>6. ASSUME NEW i \in Ids, RequestTimesOut(i) PROVE ClientShape'
  <2>1. pend' \subseteq pend /\ UNCHANGED <<net, cState, epoch, attached, chan>>
    BY <1>6 DEF RequestTimesOut
  <2> QED
    BY <2>1 DEF ClientShape, NobodyLeftWaiting
<1>7. ASSUME NEW e \in Channels, ReadyArrives(e) PROVE ClientShape'
  <2>1. attached /\ UNCHANGED <<net, epoch, attached, pend>>
    BY <1>7 DEF ReadyArrives, Arrived, Taken
  <2>2. \/ chan = "handshaking" /\ chan' = "open" /\ cState' = "open"
        \/ UNCHANGED <<chan, cState>>
    BY <1>7 DEF ReadyArrives
  <2> QED
    BY <2>1, <2>2 DEF ClientShape, NobodyLeftWaiting
<1>8. ASSUME NEW e \in Channels, AnswerArrives(e) PROVE ClientShape'
  <2>1. pend' \subseteq pend /\ UNCHANGED <<net, cState, epoch, attached, chan>>
    BY <1>8 DEF AnswerArrives, Taken
  <2> QED
    BY <2>1 DEF ClientShape, NobodyLeftWaiting
<1>9. ASSUME NEW e \in Channels, StrayAnswer(e) PROVE ClientShape'
  BY <1>9, LoseLeavesNone DEF StrayAnswer, Arrived
<1>10. ASSUME NEW e \in Channels, HostStep(e) \/ Lost(e) PROVE ClientShape'
  <2>1. UNCHANGED clientVars /\ (net' = net \/ net' = [net EXCEPT ![e] = "down"])
    BY <1>10 DEF HostStep, Announced, HelloArrives, RequestArrives, DataSocketCloses, NextUp, Lost, Net
  <2> QED
    BY <2>1, OthersLeaveClient DEF ClientShape
<1>11. ASSUME NEW e \in Channels, NEW i \in Ids, HandlerTimesOut(e, i) \/ HandlerEnds(e, i), Untouched
       PROVE  ClientShape'
  BY <1>11, OthersLeaveClient DEF HandlerTimesOut, HandlerEnds, Untouched, ClientShape
<1>12. CASE (Revoke /\ Untouched) \/ (LinkStep /\ UNCHANGED <<hostVars, clientVars, up>>)
  BY <1>12, OthersLeaveClient DEF Revoke, Untouched, ClientShape
<1>13. CASE Stop
  <2>1. UNCHANGED clientVars /\ net' = [e \in Channels |-> IF Alive(e) THEN "down" ELSE net[e]]
    BY <1>13 DEF Stop
  <2> QED
    BY <2>1, OthersLeaveClient DEF ClientShape
<1>14. CASE UNCHANGED vars
  BY <1>14, OthersLeaveClient DEF ClientShape
<1> QED
  BY <1>1, <1>2, <1>3, <1>4, <1>5, <1>6, <1>7, <1>8, <1>9, <1>10, <1>11, <1>12, <1>13, <1>14
     DEF Next, ClientStep

\* Once a connection is lost or closed nobody waits for an answer on it:
\* #rejectPending tells all of its callers, though it looks at one epoch only.
THEOREM NobodyWaitsForTheLost == Spec => []NobodyLeftWaiting
<1>1. Init => ClientShape
  BY DEF Init, HostInit, ClientShape, NobodyLeftWaiting
<1>2. ClientShape /\ [Next]_vars => ClientShape'
  BY ClientKeepsShape
<1>3. ClientShape => NobodyLeftWaiting
  BY DEF ClientShape
<1> QED
  BY <1>1, <1>2, <1>3, PTL DEF Spec

=============================================================================
