--------------------------- MODULE EditorBridgeProofs ---------------------------
(***************************************************************************)
(* Theorems about EditorBridge, for any calls, texts and numbers of        *)
(* windows, edits and document handles: what the agent is told of its      *)
(* change is true, and a file that was a buffer is never a plain file      *)
(* again.                                                                  *)
(*                                                                         *)
(* Neither is inductive alone.  The outcome of an edit is true because a   *)
(* request is fetched once, because a buffer in the agent's hands is never *)
(* ahead of the document, and because an edit always makes a new version:  *)
(* so the postcondition of applyDocument can only hold when the edit found *)
(* the version the agent had read.                                         *)
(***************************************************************************)
EXTENDS EditorBridge, FiniteSetTheorems, WellFoundedInduction, TLAPS

Ops     == {"none", "snapshot", "apply", "remove", "create", "disk"}
Kinds   == {"read", "apply", "remove", "create", "fill"}
Replies == {"none", "doc", "missing", "refused", "removed", "unknown", "applied"}
Outs    == Replies \cup {"useDisk", "wrote"}
Phases  == {"rest", "registered", "working", "checking", "allowed", "invoked", "landed", "answering"}
AnyDisk == AnyText \cup {Absent}
Views   == [handle : Nat, version : Nat, text : AnyDisk]

Docs     == [open : BOOLEAN, text : AnyDisk, version : Nat, handle : Nat]
Requests == [kind : Kinds \cup {"none"}, window : Nat, sent : BOOLEAN, live : BOOLEAN]
CallRecs == [op : Ops, guard : Views, known : BOOLEAN, out : Outs]
Items    == [call : Calls, kind : Kinds]

\* Every variable has the type its comment gives.
TypeOK ==
  /\ disk \in AnyDisk /\ doc \in Docs /\ handles \in Nat
  /\ clients \in SUBSET Nat /\ fresh \in SUBSET Nat
  /\ registered \in BOOLEAN /\ known \in BOOLEAN
  /\ request \in [Calls -> Requests] /\ call \in [Calls -> CallRecs]
  /\ window \in Nat /\ opened \in Nat
  /\ batch \in Seq(Items) /\ phase \in Phases
  /\ answer \in [kind : Replies, guard : Views]
  /\ seen \in SUBSET Views /\ found \in [Calls -> Views]

\* What call c may have out, or be served for.
Fits(c, kind) ==
  /\ kind = "read" => call[c].op \in {"snapshot", "apply", "remove"}
  /\ kind \in {"apply", "remove", "create"} => call[c].op = kind
  /\ kind = "fill" => call[c].op = "create"

\* A call with a request has no outcome; a buffer was changed for it only after
\* its change was handed to a window, and what it was told of that is true.
CallOK(c) ==
  /\ request[c].kind = "none" => ~request[c].sent
  /\ request[c].kind # "none" => call[c].out = "none" /\ Fits(c, request[c].kind)
  /\ call[c].op \in {"apply", "remove"} => call[c].guard \in seen
  /\ call[c].op # "create" /\ found[c] # Nothing =>
       /\ call[c].op \in {"apply", "remove"} /\ call[c].out # "refused"
       /\ request[c].kind = "none" \/ (request[c].kind # "read" /\ request[c].sent)
  /\ call[c].op = "apply" /\ call[c].out = "applied" => found[c] = call[c].guard

\* A fetched request is still out, or its call gave up; only the one at work may
\* have changed the buffer.
ItemOK(i) ==
  LET c == batch[i].call  k == batch[i].kind
  IN /\ Fits(c, k) /\ call[c].out \in {"none", "unknown"}
     /\ request[c].kind # "none" => request[c].sent /\ (request[c].kind = k \/ k = "fill")
     /\ call[c].op # "create" /\ found[c] # Nothing =>
          i = 1 /\ k # "read" /\ phase \in {"landed", "answering"}

BatchOK ==
  /\ \A i \in 1 .. Len(batch) : ItemOK(i)
  /\ \A i, j \in 1 .. Len(batch) : batch[i].call = batch[j].call => i = j
  /\ batch = <<>> <=> phase \in {"rest", "registered"}

\* A view of the document the agent has, or is about to get, is not ahead of it.
Behind(g) ==
  /\ g.handle <= handles
  /\ doc.open /\ doc.handle = g.handle =>
       g.version <= doc.version /\ (g.version = doc.version => g.text = doc.text)

ViewsOK ==
  /\ doc.open => doc.handle \in 1 .. handles
  /\ \A g \in seen : Behind(g)
  /\ answer.kind \in {"doc", "applied"} => Behind(answer.guard)

\* The edit that landed found nothing older than what its caller had read.
LandedOK ==
  phase = "landed" =>
    LET f == found[Now]  g == call[Now].guard
    IN /\ Head(batch).kind = "apply"
       /\ doc.open => doc.handle = f.handle /\ f.version < doc.version
       /\ g.handle = f.handle => g.version <= f.version /\ (g.version = f.version => g.text = f.text)

\* The response the window is about to send is true.
AnswerOK ==
  phase = "answering" =>
    /\ answer.kind = "refused" /\ call[Now].op # "create" => found[Now] = Nothing
    /\ answer.kind = "applied" /\ Head(batch).kind = "apply" => found[Now] = call[Now].guard

RegisteredOK == phase # "rest" \/ seen # {} => registered

CallsOK == \A c \in Calls : CallOK(c)

IInv == TypeOK /\ CallsOK /\ BatchOK /\ ViewsOK /\ LandedOK /\ AnswerOK /\ RegisteredOK

----------------------------------------------------------------------------
\* The types.

\* The window a request goes to is one that was seen lately.
LEMMA FirstIsIn == ASSUME NEW S \in SUBSET Nat, S # {} PROVE First(S) \in S
<1> DEFINE R == OpToRel(<, Nat)
<1>1. \A v, w \in Nat : <<v, w>> \in R <=> v < w
  BY DEF OpToRel
<1>2. IsWellFoundedOn(R, Nat)
  BY NatLessThanWellFounded
<1> HIDE DEF R
<1>3. \E w \in S : \A v \in S : ~(<<v, w>> \in R)
  BY <1>2, WFMin
<1>4. PICK w \in S : \A v \in S : ~(<<v, w>> \in R)
  BY <1>3
<1>5. ASSUME NEW v \in S PROVE w <= v
  <2>1. v \in Nat /\ w \in Nat /\ ~(v < w)
    BY <1>1, <1>4
  <2> QED
    BY <2>1
<1> QED
  BY <1>5 DEF First

LEMMA AskedTyped ==
  ASSUME TypeOK, fresh # {}, NEW c \in Calls, NEW kind \in Kinds
  PROVE  /\ Asked(c, kind) \in [Calls -> Requests]
         /\ \A d \in Calls : d # c => Asked(c, kind)[d] = request[d]
         /\ Asked(c, kind)[c].kind = kind /\ ~Asked(c, kind)[c].sent
<1>1. First(fresh) \in Nat
  BY FirstIsIn DEF TypeOK
<1> QED
  BY <1>1 DEF TypeOK, Asked, Requests

LEMMA GuardTyped ==
  ASSUME NEW d \in Docs
  PROVE  /\ GuardOf(d) \in Views
         /\ GuardOf(d).handle = d.handle /\ GuardOf(d).version = d.version /\ GuardOf(d).text = d.text
BY DEF Docs, Views, GuardOf

Edited(d, t) == [d EXCEPT !.text = t, !.version = @ + 1]

LEMMA EditTyped ==
  ASSUME NEW d \in Docs, NEW t \in AnyDisk
  PROVE  /\ Edited(d, t) \in Docs
         /\ Edited(d, t).open = d.open /\ Edited(d, t).handle = d.handle
         /\ Edited(d, t).version = d.version + 1 /\ Edited(d, t).text = t
<1>1. d.version \in Nat /\ d.version + 1 \in Nat
  BY DEF Docs
<1> QED
  BY <1>1 DEF Docs, Edited

LEMMA Constants ==
  /\ Nothing \in Views /\ Closed \in Docs /\ ~Closed.open
  /\ NoRequest \in Requests /\ NoRequest.kind = "none" /\ ~NoRequest.sent
  /\ \A c \in Calls : Content(c) \in AnyText
BY DEF Nothing, Views, Closed, Docs, NoRequest, Requests, Content, AnyText, AnyDisk

LEMMA ItemTyped ==
  ASSUME TypeOK, NEW i \in 1 .. Len(batch)
  PROVE  batch[i] \in Items /\ batch[i].call \in Calls /\ batch[i].kind \in Kinds
<1>1. batch \in Seq(Items)
  BY DEF TypeOK
<1>2. batch[i] \in Items
  BY <1>1
<1> QED
  BY <1>2 DEF Items

\* The item the window works on.
LEMMA Serving ==
  ASSUME TypeOK, BatchOK, phase \notin {"rest", "registered"}
  PROVE  /\ batch # <<>> /\ 1 \in 1 .. Len(batch)
         /\ Head(batch) = batch[1] /\ Now = batch[1].call
         /\ Head(batch) \in Items /\ Now \in Calls /\ Head(batch).kind \in Kinds
         /\ ItemOK(1)
<1>1. batch # <<>> /\ batch \in Seq(Items)
  BY DEF TypeOK, BatchOK
<1>2. 1 \in 1 .. Len(batch) /\ Head(batch) = batch[1] /\ Head(batch) \in Items
  BY <1>1
<1> QED
  BY <1>1, <1>2 DEF BatchOK, Now, Items

----------------------------------------------------------------------------
\* What leaves a part of the invariant alone.

LEMMA CallsStay ==
  ASSUME CallsOK, UNCHANGED <<request, call, found>>, seen \subseteq seen'
  PROVE  CallsOK'
BY DEF CallsOK, CallOK, Fits

LEMMA BatchStays ==
  ASSUME BatchOK, UNCHANGED <<request, call, found, batch>>, phase' \in Phases,
         phase' \in {"rest", "registered"} <=> phase \in {"rest", "registered"},
         phase \in {"landed", "answering"} => phase' \in {"landed", "answering"}
  PROVE  BatchOK'
BY DEF BatchOK, ItemOK, Fits

\* The document goes on: it closes, or its version moves with its text.
GoesOn ==
  doc'.open => /\ doc.open /\ doc'.handle = doc.handle
               /\ doc' = doc \/ doc'.version > doc.version

LEMMA ViewsStay ==
  ASSUME TypeOK, ViewsOK, TypeOK', GoesOn, UNCHANGED handles,
         seen' = seen, answer' = answer \/ answer'.kind \notin {"doc", "applied"}
  PROVE  ViewsOK'
BY DEF ViewsOK, Behind, GoesOn, TypeOK, Docs, Views

LEMMA LandedStays ==
  ASSUME TypeOK, BatchOK, LandedOK, TypeOK', GoesOn, UNCHANGED <<batch, phase, call, found>>
  PROVE  LandedOK'
<1> SUFFICES ASSUME phase = "landed" PROVE LandedOK'
  BY DEF LandedOK
<1>1. Now \in Calls
  BY Serving
<1> QED
  BY <1>1 DEF LandedOK, GoesOn, TypeOK, Docs, Views, Now

LEMMA AnswerStays ==
  ASSUME AnswerOK, UNCHANGED <<batch, phase, call, found, answer>>
  PROVE  AnswerOK'
BY DEF AnswerOK, Now

----------------------------------------------------------------------------
\* Steps of the host.

\* A step on one call, which was not made before or gives up its request.
LEMMA HostKeeps ==
  ASSUME IInv, TypeOK', NEW c \in Calls, CallOK(c)',
         UNCHANGED <<doc, handles, registered, batch, phase, answer, seen, found>>,
         \A d \in Calls : d # c => request'[d] = request[d] /\ call'[d] = call[d],
         \/ call[c].op = "none"
         \/ /\ call'[c].op = call[c].op /\ call'[c].guard = call[c].guard
            /\ call'[c].out = call[c].out \/ call'[c].out = "unknown"
            /\ \/ request'[c].kind = "none"
               \/ request'[c].kind = request[c].kind /\ request'[c].sent = request[c].sent
  PROVE  IInv'
<1> USE DEF IInv
<1>1. CallsOK'
  BY DEF CallsOK, CallOK, Fits
<1>2. ASSUME NEW i \in 1 .. Len(batch) PROVE ItemOK(i)' /\ batch[i].call \in Calls
  <2>1. ItemOK(i) /\ batch[i].call \in Calls /\ batch[i].kind \in Kinds
    BY ItemTyped DEF BatchOK
  <2>2. CASE batch[i].call # c
    BY <2>1, <2>2 DEF ItemOK, Fits
  <2>3. CASE batch[i].call = c
    <3>1. call[c].op # "none"
      BY <2>1, <2>3 DEF ItemOK, Fits, Kinds
    <3> QED
      BY <2>1, <2>3, <3>1 DEF ItemOK, Fits
  <2> QED
    BY <2>1, <2>2, <2>3
<1>3. BatchOK'
  BY <1>2 DEF BatchOK
<1>4. ViewsOK' /\ RegisteredOK'
  BY DEF ViewsOK, Behind, RegisteredOK
<1>5. ASSUME phase \notin {"rest", "registered"}
      PROVE  call'[Now].op = call[Now].op /\ call'[Now].guard = call[Now].guard
  <2>1. Now \in Calls /\ call[Now].op # "none"
    BY <1>5, Serving DEF ItemOK, Fits, Kinds
  <2> QED
    BY <2>1
<1>6. LandedOK' /\ AnswerOK'
  BY <1>5 DEF LandedOK, AnswerOK, Now
<1> QED
  BY <1>1, <1>3, <1>4, <1>6

LEMMA NewCallKeeps ==
  ASSUME IInv, NEW c \in Calls, call[c].op = "none", NEW k \in CallRecs,
         call' = [call EXCEPT ![c] = k], disk' \in AnyDisk, known' \in BOOLEAN,
         k.op \in {"apply", "remove"} => k.guard \in seen,
         \/ k.op # "none" /\ k.out \in Outs \ {"none", "applied"} /\ request' = request
         \/ /\ k.out = "none" /\ fresh # {}
            /\ \/ k.op \in {"snapshot", "apply", "remove"} /\ request' = Asked(c, "read")
               \/ k.op = "create" /\ request' = Asked(c, "create"),
         UNCHANGED <<doc, handles, clients, fresh, registered, windowVars, seen, found>>
  PROVE  IInv'
<1> USE DEF IInv
<1>1. request[c].kind = "none" /\ ~request[c].sent /\ found[c] = Nothing
  BY DEF CallsOK, CallOK, Fits, TypeOK, Requests, Kinds
<1>2. call'[c] = k /\ \A d \in Calls : d # c => call'[d] = call[d]
  BY DEF TypeOK
<1>3. request' \in [Calls -> Requests] /\ \A d \in Calls : d # c => request'[d] = request[d]
  BY AskedTyped DEF TypeOK, Kinds
<1>4. \/ request'[c].kind = "none" /\ k.op # "none" /\ k.out \in Outs \ {"none", "applied"}
      \/ /\ k.out = "none" /\ ~request'[c].sent
         /\ \/ k.op \in {"snapshot", "apply", "remove"} /\ request'[c].kind = "read"
            \/ k.op = "create" /\ request'[c].kind = "create"
  <2>1. CASE k.op # "none" /\ k.out \in Outs \ {"none", "applied"} /\ request' = request
    BY <1>1, <2>1
  <2>2. CASE /\ k.out = "none" /\ fresh # {} /\ request' = Asked(c, "read")
             /\ k.op \in {"snapshot", "apply", "remove"}
    BY <2>2, AskedTyped DEF Kinds
  <2>3. CASE k.out = "none" /\ fresh # {} /\ k.op = "create" /\ request' = Asked(c, "create")
    BY <2>3, AskedTyped DEF Kinds
  <2> QED
    BY <2>1, <2>2, <2>3
<1>5. TypeOK'
  BY <1>3 DEF TypeOK, windowVars
<1>6. CallOK(c)'
  BY <1>1, <1>2, <1>4 DEF CallOK, Fits, CallsOK, Outs
<1> QED
  BY <1>2, <1>3, <1>5, <1>6, HostKeeps DEF windowVars

LEMMA SnapshotKeeps == ASSUME IInv, NEW c \in Calls, Snapshot(c) PROVE IInv'
<1> USE DEF Snapshot
<1>1. known \in BOOLEAN /\ disk \in AnyDisk
  BY DEF IInv, TypeOK
<1>2. CASE fresh # {}
  <2> DEFINE k == [NewCall EXCEPT !.op = "snapshot", !.known = known]
  <2>1. k \in CallRecs /\ k.op = "snapshot" /\ k.out = "none"
    BY <1>1, Constants DEF NewCall, CallRecs, Ops, Outs, Replies
  <2>2. call' = [call EXCEPT ![c] = k] /\ request' = Asked(c, "read") /\ known' \in BOOLEAN
    BY <1>2
  <2> HIDE DEF k
  <2> QED
    BY <1>1, <1>2, <2>1, <2>2, NewCallKeeps DEF fileVars
<1>3. CASE fresh = {}
  <2> DEFINE k == [NewCall EXCEPT !.op = "snapshot",
                     !.out = IF known THEN "refused" ELSE IF registered THEN "missing" ELSE "useDisk"]
  <2>1. k \in CallRecs /\ k.op = "snapshot" /\ k.out \in Outs \ {"none", "applied"}
    BY Constants DEF NewCall, CallRecs, Ops, Outs, Replies
  <2>2. call' = [call EXCEPT ![c] = k] /\ request' = request /\ known' \in BOOLEAN
    BY <1>1, <1>3
  <2> HIDE DEF k
  <2> QED
    BY <1>1, <2>1, <2>2, NewCallKeeps DEF fileVars
<1> QED
  BY <1>2, <1>3

LEMMA ChangeKeeps ==
  ASSUME IInv, NEW c \in Calls, NEW op \in {"apply", "remove"}, NEW g \in seen, Change(c, op, g)
  PROVE  IInv'
<1> USE DEF Change
<1>1. known \in BOOLEAN /\ disk \in AnyDisk /\ g \in Views
  BY DEF IInv, TypeOK
<1>2. CASE known /\ fresh # {}
  <2> DEFINE k == [NewCall EXCEPT !.op = op, !.guard = g]
  <2>1. k \in CallRecs /\ k.op = op /\ k.out = "none" /\ k.guard = g
    BY <1>1 DEF NewCall, CallRecs, Ops, Outs, Replies
  <2>2. call' = [call EXCEPT ![c] = k] /\ request' = Asked(c, "read")
    BY <1>2
  <2> HIDE DEF k
  <2> QED
    BY <1>1, <1>2, <2>1, <2>2, NewCallKeeps DEF fileVars
<1>3. CASE ~(known /\ fresh # {})
  <2> DEFINE k == [NewCall EXCEPT !.op = op, !.guard = g, !.out = "refused"]
  <2>1. k \in CallRecs /\ k.op = op /\ k.out \in Outs \ {"none", "applied"} /\ k.guard = g
    BY <1>1 DEF NewCall, CallRecs, Ops, Outs, Replies
  <2>2. call' = [call EXCEPT ![c] = k] /\ request' = request
    BY <1>3
  <2> HIDE DEF k
  <2> QED
    BY <1>1, <2>1, <2>2, NewCallKeeps DEF fileVars
<1> QED
  BY <1>2, <1>3

LEMMA CreateKeeps == ASSUME IInv, NEW c \in Calls, Create(c) PROVE IInv'
<1> USE DEF Create
<1>1. known \in BOOLEAN /\ disk \in AnyDisk
  BY DEF IInv, TypeOK
<1> DEFINE k == [NewCall EXCEPT !.op = "create", !.out = IF fresh = {} THEN "refused" ELSE "none"]
<1>2. k \in CallRecs /\ k.op = "create" /\ k.out = IF fresh = {} THEN "refused" ELSE "none"
  BY Constants DEF NewCall, CallRecs, Ops, Outs, Replies
<1>3. /\ call' = [call EXCEPT ![c] = k]
      /\ request' = IF fresh = {} THEN request ELSE Asked(c, "create")
  OBVIOUS
<1> HIDE DEF k
<1>4. CASE fresh = {}
  BY <1>1, <1>2, <1>3, <1>4, NewCallKeeps DEF fileVars, Outs, Replies
<1>5. CASE fresh # {}
  BY <1>1, <1>2, <1>3, <1>5, NewCallKeeps DEF fileVars
<1> QED
  BY <1>4, <1>5

LEMMA DiskApplyKeeps ==
  ASSUME IInv, NEW c \in Calls, NEW t \in AnyText, DiskApply(c, t) PROVE IInv'
<1> DEFINE ok == ~registered /\ ~known /\ disk = t
           k == [NewCall EXCEPT !.op = "disk", !.out = IF ok THEN "wrote" ELSE "refused"]
<1>1. known \in BOOLEAN /\ disk \in AnyDisk /\ Content(c) \in AnyDisk
  BY Constants DEF IInv, TypeOK, AnyDisk
<1>2. k \in CallRecs /\ k.op = "disk" /\ k.out \in Outs \ {"none", "applied"}
  BY Constants DEF NewCall, CallRecs, Ops, Outs, Replies
<1>3. call' = [call EXCEPT ![c] = k] /\ disk' \in AnyDisk
  BY <1>1 DEF DiskApply
<1> HIDE DEF k
<1> QED
  BY <1>1, <1>2, <1>3, NewCallKeeps DEF DiskApply

LEMMA GiveUpKeeps ==
  ASSUME IInv, NEW c \in Calls, request[c].kind # "none", GiveUp(c) PROVE IInv'
<1> USE DEF IInv, GiveUp, Return
<1>1. /\ call'[c] = [call[c] EXCEPT !.out = "unknown"] /\ request'[c] = NoRequest
      /\ \A d \in Calls : d # c => request'[d] = request[d] /\ call'[d] = call[d]
  BY DEF TypeOK
<1>2. call[c] \in CallRecs /\ call[c].out = "none"
  BY DEF TypeOK, CallsOK, CallOK
<1>3. /\ call'[c].op = call[c].op /\ call'[c].guard = call[c].guard /\ call'[c].out = "unknown"
      /\ call'[c] \in CallRecs
  BY <1>1, <1>2 DEF CallRecs, Outs, Replies
<1>4. TypeOK'
  BY <1>3, Constants DEF TypeOK, fileVars, windowVars
<1>5. CallOK(c)'
  BY <1>1, <1>2, <1>3, Constants DEF CallsOK, CallOK, Fits
<1> QED
  BY <1>1, <1>3, <1>4, <1>5, Constants, HostKeeps DEF fileVars, windowVars

LEMMA DeadlineKeeps ==
  ASSUME IInv, NEW c \in Calls, DeadlinePasses(c) PROVE IInv'
<1> USE DEF IInv, DeadlinePasses
<1>1. /\ request'[c] = [request[c] EXCEPT !.live = FALSE] /\ call' = call
      /\ \A d \in Calls : d # c => request'[d] = request[d]
  BY DEF TypeOK
<1>2. request[c] \in Requests
  BY DEF TypeOK
<1>3. /\ request'[c].kind = request[c].kind /\ request'[c].sent = request[c].sent
      /\ request'[c] \in Requests
  <2>1. ASSUME NEW r \in Requests
        PROVE  LET q == [r EXCEPT !.live = FALSE]
               IN q \in Requests /\ q.kind = r.kind /\ q.sent = r.sent
    BY DEF Requests
  <2> QED
    BY <1>1, <1>2, <2>1
<1>4. TypeOK'
  BY <1>3 DEF TypeOK, fileVars, windowVars
<1>5. CallOK(c)'
  BY <1>1, <1>3 DEF CallsOK, CallOK, Fits
<1> QED
  BY <1>1, <1>3, <1>4, <1>5, HostKeeps DEF fileVars, windowVars

----------------------------------------------------------------------------
\* Steps of the user, and of the window between its requests.

LEMMA QuietKeeps ==
  ASSUME IInv, TypeOK', GoesOn, registered' = registered,
         UNCHANGED <<handles, request, call, batch, phase, answer, seen, found>>
  PROVE  IInv'
<1> USE DEF IInv
<1>1. CallsOK' /\ BatchOK'
  BY CallsStay, BatchStays DEF TypeOK
<1>2. ViewsOK' /\ LandedOK' /\ AnswerOK'
  BY ViewsStay, LandedStays, AnswerStays
<1>3. RegisteredOK'
  BY DEF RegisteredOK
<1> QED
  BY <1>1, <1>2, <1>3

LEMMA UserKeeps ==
  ASSUME IInv, \/ \E t \in Texts : Type(t) \/ CreateFile(t)
               \/ Save \/ CloseFile
  PROVE  IInv'
<1>1. doc \in Docs /\ disk \in AnyDisk /\ TypeOK
  BY DEF IInv, TypeOK
<1>2. ASSUME doc' \in Docs, disk' \in AnyDisk, GoesOn, User PROVE IInv'
  <2>1. TypeOK'
    BY <1>1, <1>2 DEF TypeOK, User, hostVars, windowVars
  <2> QED
    BY <1>2, <2>1, QuietKeeps DEF User, hostVars, windowVars
<1>3. ASSUME NEW t \in Texts, Type(t) PROVE doc' \in Docs /\ disk' \in AnyDisk /\ GoesOn /\ User
  <2>1. t \in AnyDisk /\ doc.version \in Nat
    BY <1>1 DEF Docs, AnyDisk, AnyText
  <2>2. doc' = Edited(doc, t) /\ doc.open /\ UNCHANGED disk /\ User
    BY <1>3 DEF Type, Edited
  <2>3. /\ doc' \in Docs
        /\ doc'.open = doc.open /\ doc'.handle = doc.handle /\ doc'.version = doc.version + 1
    BY <1>1, <2>1, <2>2, EditTyped
  <2> QED
    BY <1>1, <2>1, <2>2, <2>3 DEF GoesOn
<1>4. ASSUME NEW t \in Texts, CreateFile(t)
      PROVE  doc' \in Docs /\ disk' \in AnyDisk /\ GoesOn /\ User
  BY <1>1, <1>4 DEF CreateFile, AnyDisk, AnyText, GoesOn
<1>5. CASE Save
  <2>1. doc' \in Docs /\ disk' \in AnyDisk /\ GoesOn /\ User
    BY <1>1, <1>5 DEF Save, Docs, GoesOn
  <2> QED
    BY <1>2, <2>1
<1>6. CASE CloseFile
  <2>1. doc' \in Docs /\ disk' \in AnyDisk /\ GoesOn /\ User
    BY <1>1, <1>6, Constants DEF CloseFile, GoesOn
  <2> QED
    BY <1>2, <2>1
<1> QED
  BY <1>2, <1>3, <1>4, <1>5, <1>6

LEMMA LapseKeeps == ASSUME IInv, NEW w, Lapse(w) PROVE IInv'
<1>1. TypeOK' /\ GoesOn
  BY DEF IInv, TypeOK, Lapse, fileVars, windowVars, GoesOn
<1> QED
  BY <1>1, QuietKeeps DEF Lapse, fileVars, windowVars

LEMMA OpenWindowKeeps == ASSUME IInv, OpenWindow PROVE IInv'
<1>1. TypeOK' /\ GoesOn
  BY DEF IInv, TypeOK, OpenWindow, fileVars, hostVars, GoesOn
<1> QED
  BY <1>1, QuietKeeps DEF OpenWindow, fileVars, hostVars

\* A window that has nothing in hand.
LEMMA IdleIsOK ==
  ASSUME IInv, TypeOK', GoesOn, batch' = <<>>, phase' \in {"rest", "registered"},
         answer' = answer \/ answer'.kind = "none",
         registered => registered', phase' # "rest" => registered',
         UNCHANGED <<handles, request, call, seen, found>>
  PROVE  IInv'
<1> USE DEF IInv
<1>1. CallsOK'
  BY CallsStay
<1>2. BatchOK'
  BY DEF BatchOK
<1>3. ViewsOK'
  BY ViewsStay
<1>4. LandedOK' /\ AnswerOK' /\ RegisteredOK'
  BY DEF LandedOK, AnswerOK, RegisteredOK
<1> QED
  BY <1>1, <1>2, <1>3, <1>4

LEMMA CloseWindowKeeps == ASSUME IInv, CloseWindow PROVE IInv'
<1>1. TypeOK' /\ GoesOn
  BY Constants DEF IInv, TypeOK, CloseWindow, hostVars, GoesOn, NoAnswer, Replies, Phases
<1>2. answer'.kind = "none" /\ UNCHANGED <<registered, request, call>>
  BY DEF CloseWindow, hostVars, NoAnswer
<1> QED
  BY <1>1, <1>2, IdleIsOK DEF CloseWindow

LEMMA RegisterKeeps == ASSUME IInv, Register PROVE IInv'
<1>1. batch = <<>>
  BY DEF Register, IInv, BatchOK
<1>2. clients' \in SUBSET Nat /\ fresh' \in SUBSET Nat
  BY DEF IInv, TypeOK, Register
<1>3. TypeOK'
  BY <1>2 DEF IInv, TypeOK, Register, fileVars, Phases
<1>4. GoesOn
  BY DEF Register, fileVars, GoesOn
<1> QED
  BY <1>1, <1>3, <1>4, IdleIsOK DEF Register, fileVars

\* A window fetches its requests, each of which is still untouched.
LEMMA PollKeeps == ASSUME IInv, Poll PROVE IInv'
<1> USE DEF IInv
<1> DEFINE due == {c \in Calls : request[c].kind # "none" /\ request[c].window = window /\ ~request[c].sent}
           n == Cardinality(due)
<1>1. PICK order \in SetToSeqs(due) :
        /\ batch' = [i \in DOMAIN order |-> [call |-> order[i], kind |-> request[order[i]].kind]]
        /\ request' = [c \in Calls |-> IF c \in due THEN [request[c] EXCEPT !.sent = TRUE] ELSE request[c]]
        /\ phase' = IF due = {} THEN "rest" ELSE "working"
  BY DEF Poll
<1>2. n \in Nat /\ (n = 0 <=> due = {})
  <2>1. IsFiniteSet(due)
    BY EditorAssumption, FS_Subset
  <2> QED
    BY <2>1, FS_CardinalityType, FS_EmptySet
<1>3. /\ order \in [1 .. n -> due]
      /\ \A i, j \in 1 .. n : i # j => order[i] # order[j]
  BY <1>1 DEF SetToSeqs
<1>4. UNCHANGED <<disk, doc, handles, clients, registered, known, call, window, opened, answer, seen, found>>
  BY DEF Poll, fileVars
<1> HIDE DEF n
<1>5. ASSUME NEW d \in due
      PROVE  /\ d \in Calls /\ request[d].kind \in Kinds /\ Fits(d, request[d].kind)
             /\ call[d].out = "none" /\ (call[d].op # "create" => found[d] = Nothing)
             /\ request'[d] = [request[d] EXCEPT !.sent = TRUE]
  BY <1>1 DEF TypeOK, Requests, CallsOK, CallOK
<1>6. \A r \in Requests : LET q == [r EXCEPT !.sent = TRUE] IN q \in Requests /\ q.kind = r.kind /\ q.sent
  BY DEF Requests
<1>7. \A d \in Calls : /\ request[d] \in Requests /\ request'[d] \in Requests
                       /\ request'[d].kind = request[d].kind
                       /\ request'[d].sent = (request[d].sent \/ d \in due)
  BY <1>1, <1>6 DEF TypeOK, Requests
<1> HIDE DEF due
<1>8. /\ batch' \in Seq(Items) /\ Len(batch') = n
      /\ \A i \in 1 .. n : batch'[i] = [call |-> order[i], kind |-> request[order[i]].kind]
  <2>1. DOMAIN order = 1 .. n
    BY <1>3
  <2>2. batch' = [i \in 1 .. n |-> [call |-> order[i], kind |-> request[order[i]].kind]]
    BY <1>1, <2>1
  <2>3. \A i \in 1 .. n : order[i] \in due
    BY <1>3
  <2>4. \A i \in 1 .. n : [call |-> order[i], kind |-> request[order[i]].kind] \in Items
    BY <1>5, <2>3 DEF Items
  <2> QED
    BY <1>2, <2>2, <2>4
<1>9. TypeOK'
  <2>1. request' \in [Calls -> Requests] /\ fresh' \in SUBSET Nat /\ phase' \in Phases
    BY <1>1, <1>7 DEF TypeOK, Poll, Phases
  <2> QED
    BY <1>4, <1>8, <2>1 DEF TypeOK
<1>10. CallsOK'
  <2>1. ASSUME NEW d \in Calls PROVE CallOK(d)'
    <3>1. CallOK(d) /\ (d \in due => request[d].kind # "none")
      BY <1>5 DEF CallsOK, Kinds
    <3> QED
      BY <1>4, <1>7, <3>1 DEF CallOK, Fits
  <2> QED
    BY <2>1 DEF CallsOK
<1>11. BatchOK'
  <2>1. ASSUME NEW i \in 1 .. n PROVE ItemOK(i)'
    <3> DEFINE d == order[i]
    <3>1. d \in due /\ batch'[i].call = d /\ batch'[i].kind = request[d].kind
      BY <1>3, <1>8
    <3>2. /\ Fits(d, request[d].kind) /\ call[d].out = "none"
          /\ call[d].op # "create" => found[d] = Nothing
          /\ request'[d].kind = request[d].kind /\ request'[d].sent
      BY <1>5, <1>7, <3>1
    <3> HIDE DEF d
    <3>3. Fits(d, request[d].kind)' /\ call' = call /\ found' = found
      BY <1>4, <3>2 DEF Fits
    <3> QED
      BY <3>1, <3>2, <3>3 DEF ItemOK, Fits
  <2>2. ASSUME NEW i \in 1 .. n, NEW j \in 1 .. n, batch'[i].call = batch'[j].call PROVE i = j
    BY <1>3, <1>8, <2>2
  <2>3. batch' = <<>> <=> phase' \in {"rest", "registered"}
    BY <1>1, <1>2, <1>8
  <2> QED
    BY <1>8, <2>1, <2>2, <2>3 DEF BatchOK
<1>12. ViewsOK' /\ LandedOK' /\ AnswerOK' /\ RegisteredOK'
  BY <1>1, <1>4 DEF ViewsOK, Behind, LandedOK, AnswerOK, RegisteredOK, Poll
<1> QED
  BY <1>9, <1>10, <1>11, <1>12

----------------------------------------------------------------------------
\* Steps of the window on the request it has in hand.

\* The change goes one stage on, or is not made.
LEMMA StageKeeps ==
  ASSUME IInv, phase \in {"working", "checking", "allowed", "invoked"},
         UNCHANGED <<fileVars, hostVars, window, opened, batch, seen, found>>,
         \/ phase' \in {"checking", "allowed", "invoked"} /\ answer' = answer
         \/ \E k \in {"refused", "unknown"} : Answer(k, Nothing)
  PROVE  IInv'
<1> USE DEF IInv
<1>1. TypeOK'
  BY Constants DEF TypeOK, Answer, fileVars, hostVars, Phases, Replies
<1>2. CallsOK' /\ BatchOK' /\ ViewsOK'
  <2>1. phase' \in Phases \ {"rest", "registered"}
    BY DEF Answer, Phases
  <2>2. answer' = answer \/ answer'.kind \notin {"doc", "applied"}
    BY DEF Answer
  <2> QED
    BY <1>1, <2>1, <2>2, CallsStay, BatchStays, ViewsStay DEF fileVars, hostVars, GoesOn
<1>3. call[Now].op # "create" => found[Now] = Nothing
  BY Serving DEF ItemOK
<1>4. AnswerOK'
  BY <1>3 DEF AnswerOK, Answer, Now, hostVars
<1>5. LandedOK' /\ RegisteredOK'
  BY DEF LandedOK, RegisteredOK, Answer, hostVars
<1> QED
  BY <1>1, <1>2, <1>4, <1>5

LEMMA StagesKeep ==
  ASSUME IInv, Preflight \/ Invoke \/ Decline \/ (\E reached \in BOOLEAN : BeforeApply(reached))
  PROVE  IInv'
<1>1. CASE Preflight
  BY <1>1, StageKeeps DEF Preflight, Working
<1>2. CASE Invoke
  BY <1>2, StageKeeps DEF Invoke, Working
<1>3. CASE Decline
  BY <1>3, StageKeeps DEF Decline, Working
<1>4. ASSUME NEW reached \in BOOLEAN, BeforeApply(reached) PROVE IInv'
  BY <1>4, StageKeeps DEF BeforeApply, Working
<1> QED
  BY <1>1, <1>2, <1>3, <1>4

LEMMA SettleKeeps == ASSUME IInv, Settle PROVE IInv'
<1> USE DEF IInv
<1>1. UNCHANGED <<fileVars, hostVars, window, opened, batch, seen, found>> /\ phase = "landed"
  BY DEF Settle, Working
<1>2. Now \in Calls /\ doc \in Docs /\ GuardOf(doc) \in Views /\ phase' = "answering"
  BY <1>1, Serving, GuardTyped DEF TypeOK, Settle, Answer
<1>3. TypeOK'
  BY <1>1, <1>2, Constants DEF Settle, TypeOK, Answer, fileVars, hostVars, Phases, Replies
<1>4. CallsOK' /\ BatchOK'
  BY <1>1, <1>2, CallsStay, BatchStays DEF Phases, hostVars
<1>5. ViewsOK'
  <2>1. CASE answer'.kind # "applied"
    BY <1>1, <1>3, <2>1, ViewsStay DEF Settle, Answer, fileVars, GoesOn
  <2>2. CASE answer'.kind = "applied"
    <3>1. doc.open /\ answer' = [kind |-> "applied", guard |-> GuardOf(doc)]
      BY <2>2 DEF Settle, Answer
    <3>2. Behind(GuardOf(doc))
      BY <1>2, <3>1, GuardTyped DEF Behind, ViewsOK, Docs, TypeOK
    <3> QED
      BY <1>1, <3>1, <3>2 DEF ViewsOK, Behind, fileVars
  <2> QED
    BY <2>1, <2>2
<1>6. AnswerOK'
  <2>1. CASE answer'.kind = "applied"
    <3> DEFINE f == found[Now]
               g == call[Now].guard
    <3>1. doc.open /\ doc.handle = g.handle /\ doc.version = g.version + 1
      BY <2>1 DEF Settle, Answer
    <3>2. f \in Views /\ g \in Views
      BY <1>2 DEF TypeOK, CallRecs
    <3>3. /\ doc.handle = f.handle /\ f.version < doc.version
          /\ g.handle = f.handle => g.version <= f.version /\ (g.version = f.version => g.text = f.text)
      BY <1>1, <3>1 DEF LandedOK
    <3>4. g.handle = f.handle /\ g.version = f.version /\ g.text = f.text
      BY <1>2, <3>1, <3>2, <3>3 DEF Views, Docs
    <3>5. f = g
      BY <3>2, <3>4 DEF Views
    <3> QED
      BY <1>1, <2>1, <3>5 DEF AnswerOK, Now, hostVars
  <2>2. CASE answer'.kind = "unknown"
    BY <2>2 DEF AnswerOK
  <2> QED
    BY <2>1, <2>2 DEF Settle, Answer
<1>7. LandedOK' /\ RegisteredOK'
  BY <1>1, <1>2 DEF LandedOK, RegisteredOK, hostVars
<1> QED
  BY <1>3, <1>4, <1>5, <1>6, <1>7

LEMMA ReadKeeps == ASSUME IInv, Read PROVE IInv'
<1> USE DEF IInv
<1>1. /\ UNCHANGED <<disk, hostVars, window, opened, batch, seen, found>>
      /\ phase = "working" /\ phase' = "answering" /\ answer'.kind \in {"doc", "missing"}
  BY DEF Read, Working, Answer
<1>2. /\ doc' \in Docs /\ handles' \in Nat /\ handles' >= handles
      /\ doc'.open => doc'.handle \in 1 .. handles'
      /\ answer'.guard \in Views
      /\ answer'.kind = "doc" => answer'.guard = GuardOf(doc')
      /\ \A g \in seen : Behind(g)'
  <2>1. doc \in Docs /\ disk \in AnyDisk /\ handles \in Nat /\ seen \in SUBSET Views
    BY DEF TypeOK
  <2>2. CASE disk = Absent
    <3>1. UNCHANGED <<doc, handles>> /\ answer' = [kind |-> "missing", guard |-> Nothing]
      BY <2>2 DEF Read, Answer
    <3> QED
      BY <1>1, <2>1, <3>1, Constants DEF ViewsOK, Behind
  <2>3. CASE disk # Absent /\ doc.open /\ doc.handle # 0
    <3>1. UNCHANGED handles /\ answer' = [kind |-> "doc", guard |-> GuardOf(doc')]
      BY <2>3 DEF Read, Answer
    <3>2. doc' = [doc EXCEPT !.handle = doc.handle]
      BY <2>3 DEF Read
    <3>3. doc' = doc
      BY <2>1, <3>2 DEF Docs
    <3> QED
      BY <1>1, <2>1, <3>1, <3>3, GuardTyped DEF ViewsOK, Behind
  <2>4. CASE disk # Absent /\ ~doc.open
    <3>1. handles' = handles + 1 /\ answer' = [kind |-> "doc", guard |-> GuardOf(doc')]
      BY <2>4 DEF Read, Answer
    <3>2. doc' = [open |-> TRUE, text |-> disk, version |-> 1, handle |-> handles + 1]
      BY <2>4 DEF Read
    <3>3. doc' \in Docs /\ doc'.handle = handles + 1
      BY <2>1, <3>2 DEF Docs
    <3>4. \A g \in seen : g.handle \in Nat /\ g.handle <= handles
      BY <2>1 DEF ViewsOK, Behind, Views
    <3> QED
      BY <1>1, <2>1, <3>1, <3>3, <3>4, GuardTyped DEF Behind
  <2> QED
    BY <2>1, <2>2, <2>3, <2>4 DEF ViewsOK
<1>3. TypeOK'
  BY <1>1, <1>2 DEF TypeOK, Read, Answer, hostVars, Phases, Replies
<1>4. CallsOK' /\ BatchOK'
  BY <1>1, CallsStay, BatchStays DEF Phases, hostVars
<1>5. ViewsOK'
  <2>1. ASSUME answer'.kind = "doc"
        PROVE  LET g == answer'.guard
               IN g.handle = doc'.handle /\ g.version = doc'.version /\ g.text = doc'.text
    BY <1>2, <2>1, GuardTyped
  <2>2. ASSUME answer'.kind = "doc" PROVE doc'.open
    BY <2>2 DEF Read, Answer, Docs, TypeOK
  <2>3. answer'.kind \in {"doc", "applied"} => Behind(answer.guard)'
    BY <1>1, <1>2, <2>1, <2>2 DEF Behind, Docs
  <2> QED
    BY <1>1, <1>2, <2>3 DEF ViewsOK
<1>6. LandedOK' /\ AnswerOK' /\ RegisteredOK'
  BY <1>1 DEF LandedOK, AnswerOK, RegisteredOK, hostVars
<1> QED
  BY <1>3, <1>4, <1>5, <1>6

\* The document in hand is changed: what is known of it stays true.
LEMMA ChangesCalls ==
  ASSUME IInv, phase = "invoked", Head(batch).kind \in {"apply", "remove", "create"},
         NEW f \in Views, found' = [found EXCEPT ![Now] = f],
         UNCHANGED <<request, call, seen>>
  PROVE  CallsOK'
<1> USE DEF IInv
<1>1. Now \in Calls /\ ItemOK(1) /\ Head(batch) = batch[1] /\ Now = batch[1].call
  BY Serving
<1>2. ASSUME NEW c \in Calls, c = Now PROVE CallOK(c)'
  <2>1. CallOK(c)
    BY DEF CallsOK
  <2>2. call[c].op # "create" =>
          /\ call[c].op \in {"apply", "remove"} /\ call[c].out \in {"none", "unknown"}
          /\ request[c].kind = "none" \/ (request[c].kind # "read" /\ request[c].sent)
    BY <1>1, <1>2 DEF ItemOK, Fits
  <2> QED
    BY <2>1, <2>2 DEF CallOK, Fits
<1>3. ASSUME NEW c \in Calls, c # Now PROVE CallOK(c)'
  <2>1. CallOK(c) /\ found'[c] = found[c]
    BY <1>3 DEF CallsOK, TypeOK
  <2> QED
    BY <2>1 DEF CallOK, Fits
<1> QED
  BY <1>2, <1>3 DEF CallsOK

LEMMA ChangesBatch ==
  ASSUME IInv, phase = "invoked", Head(batch).kind # "read", phase' \in {"landed", "answering"},
         \A c \in Calls : c # Now => found'[c] = found[c],
         UNCHANGED <<request, call, batch>>
  PROVE  BatchOK'
<1> USE DEF IInv
<1>1. Now = batch[1].call /\ Head(batch) = batch[1]
  BY Serving
<1>2. ASSUME NEW i \in 1 .. Len(batch), i # 1 PROVE ItemOK(i)'
  <2>1. ItemOK(i) /\ batch[i].call \in Calls /\ batch[i].call # Now /\ 1 \in 1 .. Len(batch)
    BY <1>1, <1>2, ItemTyped, Serving DEF BatchOK
  <2> QED
    BY <1>2, <2>1 DEF ItemOK, Fits
<1>3. ItemOK(1)'
  <2>1. ItemOK(1)
    BY Serving
  <2> QED
    BY <1>1, <2>1 DEF ItemOK, Fits
<1> QED
  BY <1>2, <1>3 DEF BatchOK

LEMMA LandEditKeeps == ASSUME IInv, LandEdit PROVE IInv'
<1> USE DEF IInv
<1>1. /\ UNCHANGED <<disk, handles, hostVars, window, opened, batch, answer, seen>>
      /\ phase = "invoked" /\ phase' = "landed" /\ Head(batch).kind = "apply" /\ doc.open
      /\ found' = [found EXCEPT ![Now] = GuardOf(doc)]
  BY DEF LandEdit, Working
<1>2. Now \in Calls /\ doc \in Docs /\ GuardOf(doc) \in Views /\ ItemOK(1) /\ Now = batch[1].call
  BY <1>1, Serving, GuardTyped DEF TypeOK
<1>3. /\ doc' = Edited(doc, Content(Now)) /\ doc' \in Docs
      /\ doc'.open /\ doc'.handle = doc.handle /\ doc'.version = doc.version + 1
  <2>1. Content(Now) \in AnyDisk /\ doc' = Edited(doc, Content(Now))
    BY <1>2, Constants DEF LandEdit, Edited, AnyDisk
  <2> QED
    BY <1>1, <1>2, <2>1, EditTyped
<1>4. TypeOK'
  BY <1>1, <1>2, <1>3 DEF TypeOK, hostVars, Phases
<1>5. CallsOK' /\ BatchOK'
  <2>1. CallsOK'
    BY <1>1, <1>2, ChangesCalls DEF hostVars
  <2>2. \A c \in Calls : c # Now => found'[c] = found[c]
    BY <1>1 DEF TypeOK
  <2> QED
    BY <1>1, <2>1, <2>2, ChangesBatch DEF hostVars
<1>6. GoesOn
  BY <1>1, <1>2, <1>3 DEF GoesOn, Docs
<1>7. ViewsOK'
  BY <1>1, <1>4, <1>6, ViewsStay
<1>8. LandedOK'
  <2>1. call[Now].op = "apply" /\ call[Now].guard \in seen
    BY <1>1, <1>2, Serving DEF ItemOK, Fits, CallsOK, CallOK
  <2>2. Behind(call[Now].guard)
    BY <2>1 DEF ViewsOK
  <2>3. found'[Now] = GuardOf(doc) /\ Now' = Now
    BY <1>1, <1>2 DEF TypeOK, Now
  <2>4. call[Now].guard \in Views
    BY <2>1 DEF TypeOK
  <2> QED
    BY <1>1, <1>2, <1>3, <2>2, <2>3, <2>4, GuardTyped DEF LandedOK, Behind, hostVars, Docs, Views
<1>9. AnswerOK' /\ RegisteredOK'
  BY <1>1 DEF AnswerOK, RegisteredOK, hostVars
<1> QED
  BY <1>4, <1>5, <1>7, <1>8, <1>9

LEMMA LandRemovalKeeps == ASSUME IInv, LandRemoval PROVE IInv'
<1> USE DEF IInv
<1> DEFINE f == IF doc.open THEN GuardOf(doc) ELSE [Nothing EXCEPT !.text = disk]
<1>1. /\ UNCHANGED <<handles, hostVars, window, opened, batch, seen>>
      /\ phase = "invoked" /\ phase' = "answering" /\ Head(batch).kind = "remove"
      /\ answer' = [kind |-> "removed", guard |-> Nothing]
      /\ disk' = Absent /\ doc' = Closed /\ found' = [found EXCEPT ![Now] = f]
  BY DEF LandRemoval, Working, Answer
<1>2. Now \in Calls /\ f \in Views
  BY <1>1, Serving, GuardTyped DEF TypeOK, Nothing, Views
<1> HIDE DEF f
<1>3. TypeOK'
  BY <1>1, <1>2, Constants DEF TypeOK, hostVars, Phases, Replies, AnyDisk
<1>4. CallsOK' /\ BatchOK'
  <2>1. CallsOK'
    BY <1>1, <1>2, ChangesCalls DEF hostVars
  <2>2. \A c \in Calls : c # Now => found'[c] = found[c]
    BY <1>1 DEF TypeOK
  <2> QED
    BY <1>1, <2>1, <2>2, ChangesBatch DEF hostVars
<1>5. ViewsOK'
  BY <1>1, <1>3, Constants, ViewsStay DEF GoesOn
<1>6. LandedOK' /\ AnswerOK' /\ RegisteredOK'
  BY <1>1 DEF LandedOK, AnswerOK, RegisteredOK, hostVars
<1> QED
  BY <1>3, <1>4, <1>5, <1>6

LEMMA LandFillKeeps == ASSUME IInv, LandFill PROVE IInv'
<1> USE DEF IInv
<1>1. /\ UNCHANGED <<disk, handles, hostVars, window, opened, batch, seen, found>>
      /\ phase = "invoked" /\ phase' = "answering" /\ Head(batch).kind = "fill" /\ doc.open
      /\ answer'.kind \in {"applied", "unknown"}
  BY DEF LandFill, Working, Answer
<1>2. Now \in Calls /\ doc \in Docs /\ call[Now].op = "create"
  BY <1>1, Serving DEF TypeOK, ItemOK, Fits
<1>3. /\ doc' \in Docs
      /\ doc'.open /\ doc'.handle = doc.handle /\ doc'.version = doc.version + 1
  <2> DEFINE t == IF doc.text = Empty THEN Content(Now) ELSE doc.text
  <2>1. t \in AnyDisk
    BY <1>2, Constants DEF Docs, AnyDisk
  <2>2. doc' = [doc EXCEPT !.version = doc.version + 1, !.text = t]
    BY <1>2 DEF LandFill, Docs
  <2> HIDE DEF t
  <2>3. doc' = Edited(doc, t)
    BY <1>2, <2>2 DEF Edited, Docs
  <2> QED
    BY <1>1, <1>2, <2>1, <2>3, EditTyped
<1>4. /\ answer'.guard \in Views
      /\ answer'.kind = "applied" => /\ answer'.guard.handle = doc'.handle
                                     /\ answer'.guard.version = doc'.version
                                     /\ answer'.guard.text = doc'.text
  <2>1. \/ answer' = [kind |-> "applied", guard |-> GuardOf(doc')]
        \/ answer' = [kind |-> "unknown", guard |-> Nothing]
    BY DEF LandFill, Answer
  <2> QED
    BY <1>3, <2>1, GuardTyped, Constants
<1>5. TypeOK'
  BY <1>1, <1>3, <1>4 DEF LandFill, Answer, TypeOK, hostVars, Phases, Replies
<1>6. CallsOK' /\ BatchOK'
  BY <1>1, CallsStay, BatchStays DEF Phases, hostVars
<1>7. ViewsOK'
  <2>1. \A g \in seen : g \in Views /\ Behind(g)
    BY DEF ViewsOK, TypeOK
  <2>2. \A g \in seen : Behind(g)'
    BY <1>1, <1>2, <1>3, <2>1 DEF Behind, Docs, Views
  <2>3. answer'.kind = "applied" => Behind(answer.guard)'
    BY <1>1, <1>2, <1>3, <1>4 DEF Behind, Docs, ViewsOK, TypeOK
  <2> QED
    BY <1>1, <1>3, <2>2, <2>3 DEF ViewsOK
<1>8. LandedOK' /\ RegisteredOK'
  BY <1>1 DEF LandedOK, RegisteredOK, hostVars
<1>9. AnswerOK'
  BY <1>1 DEF AnswerOK, Now
<1> QED
  BY <1>5, <1>6, <1>7, <1>8, <1>9

LEMMA LandCreateKeeps == ASSUME IInv, LandCreate PROVE IInv'
<1> USE DEF IInv
<1> DEFINE f == [Nothing EXCEPT !.text = Empty]
<1>1. /\ UNCHANGED <<hostVars, window, opened, seen>>
      /\ phase = "invoked" /\ Head(batch).kind = "create"
      /\ disk' = Empty /\ found' = [found EXCEPT ![Now] = f]
  BY DEF LandCreate, Working
<1>2. /\ Now \in Calls /\ ItemOK(1) /\ 1 \in 1 .. Len(batch) /\ Head(batch) = batch[1]
      /\ Now = batch[1].call /\ call[Now].op = "create" /\ batch \in Seq(Items)
  BY <1>1, Serving DEF TypeOK, ItemOK, Fits
<1>3. f \in Views /\ Empty \in AnyDisk
  BY DEF Nothing, Views, AnyDisk, AnyText
<1> HIDE DEF f
<1>4. CallsOK'
  BY <1>1, <1>3, ChangesCalls DEF hostVars
<1>5. \A c \in Calls : c # Now => found'[c] = found[c]
  BY <1>1 DEF TypeOK
<1>6. CASE Answer("unknown", Nothing) /\ UNCHANGED <<doc, handles, batch>>
  <2>1. phase' = "answering" /\ answer' = [kind |-> "unknown", guard |-> Nothing]
    BY <1>6 DEF Answer
  <2>2. TypeOK'
    BY <1>1, <1>3, <1>6, <2>1, Constants DEF TypeOK, hostVars, Phases, Replies
  <2>3. BatchOK'
    BY <1>1, <1>5, <1>6, <2>1, ChangesBatch DEF hostVars
  <2>4. ViewsOK'
    BY <1>1, <1>6, <2>1, <2>2, ViewsStay DEF GoesOn
  <2>5. LandedOK' /\ AnswerOK' /\ RegisteredOK'
    BY <1>1, <2>1 DEF LandedOK, AnswerOK, RegisteredOK, hostVars
  <2> QED
    BY <1>4, <2>2, <2>3, <2>4, <2>5
<1>7. CASE /\ doc' = [open |-> TRUE, text |-> Empty, version |-> 1, handle |-> handles + 1]
           /\ handles' = handles + 1
           /\ batch' = [batch EXCEPT ![1].kind = "fill"] /\ phase' = "checking" /\ UNCHANGED answer
  <2>1. /\ batch' \in Seq(Items) /\ Len(batch') = Len(batch)
        /\ batch'[1].call = Now /\ batch'[1].kind = "fill"
        /\ \A i \in 1 .. Len(batch) : i # 1 => batch'[i] = batch[i]
    <3>1. [batch[1] EXCEPT !.kind = "fill"] = [call |-> Now, kind |-> "fill"]
      <4>1. batch[1] \in Items /\ batch[1].call = Now
        BY <1>2
      <4> QED
        BY <4>1 DEF Items
    <3>2. [call |-> Now, kind |-> "fill"] \in Items
      BY <1>2 DEF Items, Kinds
    <3>3. batch' = [batch EXCEPT ![1] = [call |-> Now, kind |-> "fill"]]
      BY <1>7, <3>1
    <3> QED
      BY <1>2, <3>2, <3>3
  <2>2. handles \in Nat /\ doc' \in Docs /\ doc'.handle = handles + 1
    BY <1>3, <1>7 DEF TypeOK, Docs
  <2>3. TypeOK'
    <3>1. found' \in [Calls -> Views]
      BY <1>1, <1>3 DEF TypeOK
    <3>2. handles' \in Nat
      BY <1>7, <2>2
    <3> QED
      BY <1>1, <1>3, <1>7, <2>1, <2>2, <3>1, <3>2 DEF TypeOK, hostVars, Phases
  <2>4. ASSUME NEW i \in 1 .. Len(batch) PROVE ItemOK(i)' /\ batch'[i].call = batch[i].call
    <3>1. CASE i = 1
      BY <1>1, <1>2, <1>7, <2>1, <3>1 DEF ItemOK, Fits, hostVars
    <3>2. CASE i # 1
      <4>1. ItemOK(i) /\ batch[i].call \in Calls /\ batch[i].call # Now
        BY <1>2, <3>2, ItemTyped DEF BatchOK
      <4> QED
        BY <1>1, <1>5, <1>7, <2>1, <3>2, <4>1 DEF ItemOK, Fits, hostVars
    <3> QED
      BY <3>1, <3>2
  <2>5. BatchOK'
    BY <1>2, <1>7, <2>1, <2>4 DEF BatchOK
  <2>6. ViewsOK'
    <3>1. \A g \in seen : g \in Views /\ g.handle <= handles
      BY DEF ViewsOK, Behind, TypeOK
    <3>2. \A g \in seen : Behind(g)'
      BY <1>7, <2>2, <3>1 DEF Behind, Views
    <3>3. answer.kind \in {"doc", "applied"} => answer.guard \in Views /\ answer.guard.handle <= handles
      BY DEF ViewsOK, Behind, TypeOK
    <3>4. answer.kind \in {"doc", "applied"} => Behind(answer.guard)'
      BY <1>7, <2>2, <3>3 DEF Behind, Views
    <3> QED
      BY <1>1, <1>7, <2>2, <3>2, <3>4 DEF ViewsOK, Behind
  <2>7. LandedOK' /\ AnswerOK' /\ RegisteredOK'
    BY <1>1, <1>7 DEF LandedOK, AnswerOK, RegisteredOK, hostVars
  <2> QED
    BY <1>4, <2>3, <2>5, <2>6, <2>7
<1> QED
  BY <1>6, <1>7 DEF LandCreate

----------------------------------------------------------------------------
\* The response.

LEMMA LoseKeeps == ASSUME IInv, LoseResponse PROVE IInv'
<1>1. /\ batch' = <<>> /\ phase' = "rest" /\ answer' = NoAnswer
      /\ UNCHANGED <<fileVars, clients, fresh, registered, window, opened, found, request, known, call, seen>>
  BY DEF LoseResponse, Finish
<1>2. TypeOK' /\ GoesOn
  BY <1>1, Constants DEF IInv, TypeOK, fileVars, NoAnswer, Replies, Phases, GoesOn
<1> QED
  BY <1>1, <1>2, IdleIsOK DEF fileVars, NoAnswer

LEMMA TailOfBatch ==
  ASSUME TypeOK, batch # <<>>
  PROVE  /\ Tail(batch) \in Seq(Items) /\ Len(batch) \in Nat /\ Len(Tail(batch)) = Len(batch) - 1
         /\ \A i \in 1 .. Len(Tail(batch)) : i + 1 \in 1 .. Len(batch) /\ Tail(batch)[i] = batch[i + 1]
<1>1. batch \in Seq(Items)
  BY DEF TypeOK
<1> QED
  BY <1>1

\* What the host makes of a response changes the call it is for, and no other.
LEMMA TakenKeeps ==
  ASSUME IInv, phase = "answering", Finish(Tail(batch)), NEW c \in Calls, c = Now,
         known' \in BOOLEAN,
         NEW q \in Requests, request' = [request EXCEPT ![c] = q],
         NEW k \in CallRecs, call' = [call EXCEPT ![c] = k],
         k.op = call[c].op, k.guard = call[c].guard,
         seen' = seen \/ (seen' = seen \cup {answer.guard} /\ answer.kind \in {"doc", "applied"}),
         q.kind = "none" => ~q.sent,
         q.kind # "none" => ~q.sent /\ k.out = "none" /\ q.kind = k.op /\ k.op \in {"apply", "remove"},
         k.op # "create" /\ (k.out = "refused" \/ q.kind # "none") => found[c] = Nothing,
         k.op = "apply" /\ k.out = "applied" => found[c] = k.guard
  PROVE  IInv'
<1> USE DEF IInv
<1>1. /\ batch' = Tail(batch) /\ answer' = NoAnswer
      /\ phase' = IF Tail(batch) = <<>> THEN "rest" ELSE "working"
      /\ UNCHANGED <<disk, doc, handles, clients, fresh, registered, window, opened, found>>
  BY DEF Finish, fileVars
<1>2. batch # <<>> /\ ItemOK(1) /\ Now = batch[1].call /\ 1 \in 1 .. Len(batch)
  BY Serving
<1>3. /\ request' \in [Calls -> Requests] /\ call' \in [Calls -> CallRecs]
      /\ request'[c] = q /\ call'[c] = k
      /\ \A d \in Calls : d # c => request'[d] = request[d] /\ call'[d] = call[d]
  BY DEF TypeOK
<1>4. TypeOK'
  <2>1. seen' \in SUBSET Views
    BY DEF TypeOK
  <2>2. batch' \in Seq(Items)
    BY <1>1, <1>2, TailOfBatch
  <2> QED
    BY <1>1, <1>3, <2>1, <2>2, Constants DEF TypeOK, NoAnswer, Replies, Phases
<1>5. CallsOK'
  <2>1. CallOK(c)'
    <3>1. CallOK(c)
      BY DEF CallsOK
    <3>2. call[c].op # "create" /\ found[c] # Nothing => call[c].op \in {"apply", "remove"}
      BY <3>1 DEF CallOK
    <3> QED
      BY <1>1, <1>3, <3>1, <3>2 DEF CallOK, Fits
  <2>2. ASSUME NEW d \in Calls, d # c PROVE CallOK(d)'
    <3>1. CallOK(d)
      BY DEF CallsOK
    <3> QED
      BY <1>1, <1>3, <2>2, <3>1 DEF CallOK, Fits
  <2> QED
    BY <2>1, <2>2 DEF CallsOK
<1>6. BatchOK'
  <2>1. ASSUME NEW i \in 1 .. Len(Tail(batch))
        PROVE  ItemOK(i)'
    <3>1. i + 1 \in 1 .. Len(batch) /\ batch'[i] = batch[i + 1] /\ i + 1 # 1
      BY <1>1, <1>2, TailOfBatch
    <3>2. ItemOK(i + 1) /\ batch[i + 1].call \in Calls /\ batch[i + 1].call # c
      BY <1>2, <3>1, ItemTyped DEF BatchOK
    <3> QED
      BY <1>1, <1>3, <3>1, <3>2 DEF ItemOK, Fits
  <2>2. ASSUME NEW i \in 1 .. Len(Tail(batch)), NEW j \in 1 .. Len(Tail(batch)),
               Tail(batch)[i].call = Tail(batch)[j].call
        PROVE  i = j
    <3>1. /\ i + 1 \in 1 .. Len(batch) /\ j + 1 \in 1 .. Len(batch)
          /\ batch[i + 1].call = batch[j + 1].call
      BY <1>2, <2>2, TailOfBatch
    <3>2. i + 1 = j + 1
      BY <3>1 DEF BatchOK
    <3> QED
      BY <3>2
  <2> QED
    BY <1>1, <2>1, <2>2 DEF BatchOK
<1>7. ViewsOK'
  <2>1. \A g \in seen' : Behind(g)
    BY DEF ViewsOK
  <2>2. \A g \in seen' : Behind(g)'
    BY <1>1, <2>1 DEF Behind
  <2> QED
    BY <1>1, <2>2 DEF ViewsOK, NoAnswer
<1>8. LandedOK' /\ AnswerOK' /\ RegisteredOK'
  BY <1>1 DEF LandedOK, AnswerOK, RegisteredOK
<1> QED
  BY <1>4, <1>5, <1>6, <1>7, <1>8

LEMMA RespondKeeps == ASSUME IInv, Respond PROVE IInv'
<1> USE DEF IInv
<1> DEFINE c == Now
           Told(out) == [call[c] EXCEPT !.out = out]
<1>1. /\ phase = "answering" /\ Finish(Tail(batch)) /\ Take(c, answer)
      /\ request[c].sent
  BY DEF Respond, Valid
<1>2. /\ c \in Calls /\ ItemOK(1) /\ c = batch[1].call /\ Head(batch) = batch[1] /\ CallOK(c)
      /\ Head(batch).kind \in Kinds
  BY <1>1, Serving DEF CallsOK
<1>3. /\ request[c].kind # "none" /\ Fits(c, request[c].kind) /\ call[c].out = "none"
      /\ request[c].kind = Head(batch).kind \/ Head(batch).kind = "fill"
  BY <1>1, <1>2 DEF CallOK, ItemOK
<1>4. ASSUME NEW out \in Outs
      PROVE  /\ Told(out) \in CallRecs /\ Told(out).op = call[c].op
             /\ Told(out).guard = call[c].guard /\ Told(out).out = out
  <2>1. call[c] \in CallRecs
    BY <1>2 DEF TypeOK
  <2> QED
    BY <2>1 DEF CallRecs
<1>5. answer.kind \in Outs /\ known \in BOOLEAN /\ call[c].known \in BOOLEAN
  BY <1>2 DEF TypeOK, Outs, CallRecs
<1>9. c = Now /\ NoRequest \in Requests /\ NoRequest.kind = "none" /\ ~NoRequest.sent
  BY Constants DEF NoRequest
<1> HIDE DEF c
<1>6. CASE call[c].op = "snapshot"
  <2> DEFINE out == IF answer.kind = "doc" THEN "doc" ELSE IF call[c].known THEN "refused" ELSE "missing"
  <2>1. /\ request' = [request EXCEPT ![c] = NoRequest]
        /\ call' = [call EXCEPT ![c].out = out]
        /\ known' = (IF answer.kind = "doc" THEN TRUE ELSE known /\ call[c].known)
        /\ seen' = IF answer.kind = "doc" THEN seen \cup {answer.guard} ELSE seen
    BY <1>1, <1>6 DEF Take, Return
  <2>2. call' = [call EXCEPT ![c] = Told(out)] /\ out \in Outs /\ known' \in BOOLEAN
    BY <1>5, <2>1 DEF Outs, Replies
  <2>3. found[c] = Nothing
    BY <1>2, <1>6 DEF CallOK
  <2> HIDE DEF out
  <2> DEFINE k == Told(out)
  <2>4. /\ k \in CallRecs /\ k.op = call[c].op /\ k.guard = call[c].guard
        /\ k.op \notin {"create", "apply"} /\ call' = [call EXCEPT ![c] = k]
    BY <1>4, <1>6, <2>2
  <2>5. seen' = seen \/ (seen' = seen \cup {answer.guard} /\ answer.kind \in {"doc", "applied"})
    BY <2>1
  <2> HIDE DEF Told, k
  <2> QED
    BY <1>1, <1>2, <1>9, <2>1, <2>2, <2>3, <2>4, <2>5, TakenKeeps
<1>7. CASE call[c].op # "snapshot" /\ request[c].kind = "read"
  <2>1. found[c] = Nothing /\ call[c].op \in {"apply", "remove"}
    BY <1>2, <1>3, <1>7 DEF CallOK, Fits
  <2>2. CASE answer.kind = "doc" /\ answer.guard = call[c].guard /\ fresh # {}
    <3> DEFINE q == [kind |-> call[c].op, window |-> First(fresh), sent |-> FALSE, live |-> TRUE]
    <3>1. request' = [request EXCEPT ![c] = q] /\ call' = call /\ UNCHANGED <<known, seen>>
      BY <1>1, <1>7, <2>2 DEF Take, Asked
    <3>2. First(fresh) \in Nat
      BY <2>2, FirstIsIn DEF TypeOK
    <3>3. q \in Requests /\ q.kind = call[c].op /\ ~q.sent
      BY <2>1, <3>2 DEF Requests, Kinds
    <3>4. call' = [call EXCEPT ![c] = call[c]] /\ call[c] \in CallRecs
      BY <1>2, <3>1 DEF TypeOK
    <3> HIDE DEF q
    <3> QED
      BY <1>1, <1>2, <1>3, <1>5, <1>9, <2>1, <3>1, <3>3, <3>4, TakenKeeps
  <2>3. CASE ~(answer.kind = "doc" /\ answer.guard = call[c].guard /\ fresh # {})
    <3>1. /\ request' = [request EXCEPT ![c] = NoRequest]
          /\ call' = [call EXCEPT ![c].out = "refused"] /\ UNCHANGED <<known, seen>>
      BY <1>1, <1>7, <2>3 DEF Take, Return
    <3> DEFINE k == Told("refused")
    <3>2. /\ k \in CallRecs /\ k.op = call[c].op /\ k.guard = call[c].guard /\ k.out = "refused"
          /\ call' = [call EXCEPT ![c] = k]
      BY <1>4, <3>1 DEF Outs, Replies
    <3>3. known' \in BOOLEAN
      BY <1>5, <3>1
    <3> HIDE DEF Told, k
    <3> QED
      BY <1>1, <1>2, <1>9, <2>1, <3>1, <3>2, <3>3, TakenKeeps
  <2> QED
    BY <2>2, <2>3
<1>8. CASE call[c].op # "snapshot" /\ request[c].kind # "read"
  <2>1. /\ request' = [request EXCEPT ![c] = NoRequest]
        /\ call' = [call EXCEPT ![c].out = answer.kind]
        /\ known' = CASE answer.kind = "removed" -> FALSE
                      [] answer.kind = "applied" -> TRUE
                      [] OTHER -> known
        /\ seen' = IF answer.kind = "applied" THEN seen \cup {answer.guard} ELSE seen
    BY <1>1, <1>8 DEF Take, Return
  <2>2. call' = [call EXCEPT ![c] = Told(answer.kind)] /\ known' \in BOOLEAN
    BY <1>5, <2>1
  <2>3. /\ answer.kind = "refused" /\ call[c].op # "create" => found[c] = Nothing
        /\ answer.kind = "applied" /\ Head(batch).kind = "apply" => found[c] = call[c].guard
    BY <1>1 DEF AnswerOK, c
  <2>4. call[c].op = "apply" => Head(batch).kind = "apply"
    BY <1>2, <1>3, <1>8 DEF ItemOK, Fits, Kinds, TypeOK, Requests
  <2>5. seen' = seen \/ (seen' = seen \cup {answer.guard} /\ answer.kind \in {"doc", "applied"})
    BY <2>1
  <2> DEFINE k == Told(answer.kind)
  <2>6. /\ k \in CallRecs /\ k.op = call[c].op /\ k.guard = call[c].guard /\ k.out = answer.kind
        /\ call' = [call EXCEPT ![c] = k]
    BY <1>4, <1>5, <2>2
  <2>7. /\ k.op # "create" /\ k.out = "refused" => found[c] = Nothing
        /\ k.op = "apply" /\ k.out = "applied" => found[c] = k.guard
    BY <2>3, <2>4, <2>6
  <2>8. request' = [request EXCEPT ![c] = NoRequest]
    BY <2>1
  <2> HIDE DEF Told, k
  <2> QED
    BY <1>1, <1>2, <1>9, <2>2, <2>5, <2>6, <2>7, <2>8, TakenKeeps
<1> QED
  BY <1>6, <1>7, <1>8

----------------------------------------------------------------------------
\* The theorems.

LEMMA EditorStarts == Init => IInv
<1> SUFFICES ASSUME Init PROVE IInv
  OBVIOUS
<1> USE DEF Init
<1>1. NewCall \in CallRecs /\ NewCall.op = "none" /\ NewCall.out = "none"
  BY Constants DEF NewCall, CallRecs, Ops, Outs, Replies
<1>2. TypeOK
  <2>1. /\ disk \in AnyDisk /\ doc \in Docs
        /\ answer \in [kind : Replies, guard : Views] /\ phase \in Phases
    BY Constants DEF NoAnswer, Replies, Phases, AnyDisk, AnyText
  <2>2. /\ request \in [Calls -> Requests] /\ call \in [Calls -> CallRecs]
        /\ found \in [Calls -> Views] /\ batch \in Seq(Items)
    BY <1>1, Constants
  <2> QED
    BY <2>1, <2>2 DEF TypeOK
<1>3. CallsOK
  BY <1>1, Constants DEF CallsOK, CallOK, Fits
<1>4. BatchOK /\ ViewsOK /\ LandedOK /\ AnswerOK /\ RegisteredOK
  BY Constants DEF BatchOK, ViewsOK, LandedOK, AnswerOK, RegisteredOK, NoAnswer
<1> QED
  BY <1>2, <1>3, <1>4 DEF IInv

LEMMA EditorInductive == IInv /\ [Next]_vars => IInv'
<1> SUFFICES ASSUME IInv, [Next]_vars PROVE IInv'
  OBVIOUS
<1>1. CASE UNCHANGED vars
  <2>1. TypeOK' /\ GoesOn
    BY <1>1 DEF IInv, TypeOK, vars, fileVars, hostVars, windowVars, GoesOn
  <2> QED
    BY <1>1, <2>1, QuietKeeps DEF vars, fileVars, hostVars, windowVars
<1>2. ASSUME NEW c \in Calls, Snapshot(c) \/ Create(c) PROVE IInv'
  BY <1>2, SnapshotKeeps, CreateKeeps
<1>3. ASSUME NEW c \in Calls, NEW op \in {"apply", "remove"}, NEW g \in seen, Change(c, op, g)
      PROVE  IInv'
  BY <1>3, ChangeKeeps
<1>4. ASSUME NEW c \in Calls, NEW t \in AnyText, DiskApply(c, t) PROVE IInv'
  BY <1>4, DiskApplyKeeps
<1>5. ASSUME NEW c \in Calls, Cancel(c) \/ TimerFires(c) \/ DeadlinePasses(c) PROVE IInv'
  BY <1>5, GiveUpKeeps, DeadlineKeeps DEF Cancel, TimerFires
<1>6. ASSUME NEW w \in 1 .. MaxWindow, Lapse(w) PROVE IInv'
  BY <1>6, LapseKeeps
<1>7. CASE OpenWindow \/ CloseWindow \/ Register \/ Poll
  BY <1>7, OpenWindowKeeps, CloseWindowKeeps, RegisterKeeps, PollKeeps
<1>8. CASE Read \/ LandEdit \/ LandRemoval \/ LandCreate \/ LandFill \/ Settle
  BY <1>8, ReadKeeps, LandEditKeeps, LandRemovalKeeps, LandCreateKeeps, LandFillKeeps, SettleKeeps
<1>9. CASE Preflight \/ Invoke \/ Decline \/ \E reached \in BOOLEAN : BeforeApply(reached)
  BY <1>9, StagesKeep
<1>10. CASE Respond \/ LoseResponse
  BY <1>10, RespondKeeps, LoseKeeps
<1>11. CASE (\E t \in Texts : Type(t) \/ CreateFile(t)) \/ Save \/ CloseFile
  BY <1>11, UserKeeps
<1> QED
  BY <1>1, <1>2, <1>3, <1>4, <1>5, <1>6, <1>7, <1>8, <1>9, <1>10, <1>11 DEF Next

\* The inductive invariant of the guarded editor: a request is fetched once, what
\* the agent holds is never ahead of the document, and a buffer is changed only
\* for the request in hand.
THEOREM EditorInvariance == Spec => []IInv
BY EditorStarts, EditorInductive, PTL DEF Spec

\* Applied means that the edit replaced exactly what the agent had read, refused
\* that the buffer was not touched, however the user, windows, deadlines and
\* cancellations interleave (native-editor.ts, editors.ts, editor.ts).
THEOREM HonestOutcome == Spec => []OutcomeIsHonest
<1>1. IInv => OutcomeIsHonest
  BY DEF IInv, CallsOK, CallOK, OutcomeIsHonest
<1> QED
  BY <1>1, EditorInvariance, PTL

\* A step that gives a file to OMP's own disk access, or writes it behind the
\* editor, is one before any window registered the folder.
LEMMA DiskStep ==
  IInv /\ [Next]_vars =>
    \A c \in Calls : call'[c].out \in {"useDisk", "wrote"} /\ call[c].out = "none" => seen = {}
<1> SUFFICES ASSUME IInv, [Next]_vars, NEW c \in Calls,
                    call'[c].out \in {"useDisk", "wrote"}, call[c].out = "none"
             PROVE  ~registered
  BY DEF IInv, RegisteredOK
<1>1. \A d \in Calls : call[d] \in CallRecs
  BY DEF IInv, TypeOK
<1>2. call' # call
  OBVIOUS
<1>0. ASSUME NEW d \in Calls, NEW r, call' = [call EXCEPT ![d] = r]
      PROVE  r.out \in {"useDisk", "wrote"}
  <2>1. d = c \/ call'[c] = call[c]
    BY <1>0
  <2>2. call'[d] = r
    BY <1>0 DEF IInv, TypeOK
  <2> QED
    BY <2>1, <2>2
<1>3. ASSUME NEW d \in Calls, Snapshot(d) PROVE ~registered
  <2> DEFINE asked == [NewCall EXCEPT !.op = "snapshot", !.known = known]
             told  == [NewCall EXCEPT !.op = "snapshot",
                         !.out = IF known THEN "refused" ELSE IF registered THEN "missing" ELSE "useDisk"]
  <2>1. asked.out = "none" /\ (registered => told.out \in {"refused", "missing"})
    BY DEF NewCall
  <2>2. call' = [call EXCEPT ![d] = asked] \/ call' = [call EXCEPT ![d] = told]
    BY <1>3 DEF Snapshot
  <2> HIDE DEF asked, told
  <2> QED
    BY <1>0, <2>1, <2>2
<1>4. ASSUME NEW d \in Calls, NEW op \in {"apply", "remove"}, NEW g \in seen, Change(d, op, g) PROVE FALSE
  <2> DEFINE went    == [NewCall EXCEPT !.op = op, !.guard = g]
             refused == [NewCall EXCEPT !.op = op, !.guard = g, !.out = "refused"]
  <2>1. went.out = "none" /\ refused.out = "refused"
    BY DEF NewCall
  <2>2. call' = [call EXCEPT ![d] = went] \/ call' = [call EXCEPT ![d] = refused]
    BY <1>4 DEF Change
  <2> HIDE DEF went, refused
  <2> QED
    BY <1>0, <2>1, <2>2
<1>5. ASSUME NEW d \in Calls, Create(d) PROVE FALSE
  <2> DEFINE made == [NewCall EXCEPT !.op = "create", !.out = IF fresh = {} THEN "refused" ELSE "none"]
  <2>1. made.out \in {"refused", "none"}
    BY DEF NewCall
  <2>2. call' = [call EXCEPT ![d] = made]
    BY <1>5 DEF Create
  <2> HIDE DEF made
  <2> QED
    BY <1>0, <2>1, <2>2
<1>6. ASSUME NEW d \in Calls, NEW t \in AnyText, DiskApply(d, t) PROVE ~registered
  <2> DEFINE ok   == ~registered /\ ~known /\ disk = t
             told == [NewCall EXCEPT !.op = "disk", !.out = IF ok THEN "wrote" ELSE "refused"]
  <2>1. registered => told.out = "refused"
    BY DEF NewCall
  <2>2. call' = [call EXCEPT ![d] = told]
    BY <1>6 DEF DiskApply
  <2> HIDE DEF told
  <2> QED
    BY <1>0, <2>1, <2>2
<1>7. ASSUME NEW d \in Calls, Cancel(d) \/ TimerFires(d) PROVE FALSE
  BY <1>1, <1>7 DEF Cancel, TimerFires, GiveUp, Return, CallRecs, IInv, TypeOK
<1>8. CASE Respond
  <2>1. \/ call' = call
        \/ \E out \in Replies : call' = Return(Now, out)
    BY <1>8 DEF Respond, Take, Replies, IInv, TypeOK
  <2>2. PICK out \in Replies : call' = Return(Now, out)
    BY <1>2, <2>1
  <2>3. c = Now => call'[c].out = out
    BY <1>1, <2>2 DEF Return, CallRecs, IInv, TypeOK
  <2>4. c # Now => call'[c] = call[c]
    BY <2>2 DEF Return, IInv, TypeOK
  <2> QED
    BY <2>2, <2>3, <2>4 DEF Replies
<1> QED
  <2>1. call' = call \/ ~registered \/ \E d \in Calls : Cancel(d) \/ TimerFires(d)
    BY <1>3, <1>4, <1>5, <1>6, <1>8
       DEF Next, vars, hostVars, DeadlinePasses, Lapse, OpenWindow, CloseWindow, Register, Poll, Read,
           Preflight, BeforeApply, Invoke, LandEdit, LandRemoval, LandCreate, LandFill, Decline, Settle,
           LoseResponse, Type, Save, CloseFile, CreateFile, User
  <2> QED
    BY <1>2, <1>7, <2>1

\* Once the agent was given a buffer of the file, no step offers the file as a
\* plain one or writes it behind the editor, whatever became of the windows
\* (native-editor.ts:31, editors.ts:15-19).
THEOREM DiskStaysShut == Spec => NeverBackToDisk
<1>1. Spec => [][\A c \in Calls : call'[c].out \in {"useDisk", "wrote"} /\ call[c].out = "none" => seen = {}]_vars
  BY DiskStep, EditorInvariance, PTL DEF Spec
<1> QED
  BY <1>1 DEF NeverBackToDisk
=============================================================================
