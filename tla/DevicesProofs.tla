---------------------------- MODULE DevicesProofs ----------------------------
(***************************************************************************)
(* Theorems about the devices (Devices), for any ids, calls and bounds:    *)
(* what is sent once runs at most once, what a device says of a command is *)
(* so at the host, a transcript is in order with each event once, and the  *)
(* host the devices talk to keeps CommandPromise.                          *)
(*                                                                         *)
(* The first two rest on what may be on its way.  A row that was read      *)
(* stays true, because terminal rows are frozen and a delivery is not      *)
(* undone; a press of the user belongs to one command at a time, because a *)
(* second one is made only when the first has no row and no request under  *)
(* way.                                                                    *)
(***************************************************************************)
EXTENDS Devices, FiniteSetTheorems, WellFoundedInduction, TLAPS

Known  == {"none", "claimed", "acknowledged"} \cup P!Terminal
Places == {"idle", "asked", "record", "wire", "held", "answered"}
Press  == Nat \X Nat
Row    == [inc : Nat, text : Nat, press : Press]
Call   == [at : Places, open : BOOLEAN, id : Nat, inc : Nat, text : Nat, press : Press,
           answer : Known \cup {"refused", "conflict"}, attempt : Nat]
Words  == {"none", "queued", "sent", "unknown", "accepted", "error", "not_dispatched",
           "completed", "failed"}

Live(c) == call[c].at # "idle"
\* The call carries a request, or its answer.
Carried(c) == call[c].at \in {"wire", "held", "answered"}

DeskTypes ==
  /\ incarnation \in Nat
  /\ status \in [Ids -> Known] /\ delivered \in [Ids -> {0, 1}] /\ row \in [Ids -> Row]
  /\ call \in [Calls -> Call]
  /\ shown \in [Ids -> Words]

\* What a row says of the delivery.
RowsTrue ==
  \A i \in Ids : /\ delivered[i] = 1 => status[i] \notin {"none", "not_dispatched"}
                 /\ status[i] \in {"acknowledged", "completed", "failed"} => delivered[i] = 1

\* Command i had the row s some time ago: what that says is still so.
Holds(i, s) == /\ s \in P!Terminal => status[i] = s
               /\ s = "acknowledged" => delivered[i] = 1

\* The host works on commands that have a row, and answers with what it says.
AnswerTrue(c) ==
  /\ Carried(c) => call[c].id \in Ids
  /\ call[c].at = "held" => status[call[c].id] # "none"
  /\ call[c].at = "answered" => /\ call[c].answer \notin {"none", "claimed"}
                                /\ Holds(call[c].id, call[c].answer)
AnswersTrue == \A c \in Calls : AnswerTrue(c)

\* Command i was not delivered, and no request for it is on its way.
Dead(i) ==
  \/ status[i] = "not_dispatched"
  \/ status[i] = "none" /\ \A c \in Calls : call[c].at = "wire" => call[c].id # i

\* To show w of command i is true.
TrueWord(i, w) ==
  /\ w = "not_dispatched" => Dead(i)
  /\ w = "accepted" => delivered[i] = 1
  /\ w \in {"completed", "failed"} => status[i] = w
ShownTrue == \A i \in Ids : TrueWord(i, shown[i])
----------------------------------------------------------------------------
\* Whose a press of the user is: of the command whose row, or whose call, was
\* made for it.  Of the n presses so far each is of one command.

PressOfOneRow(n) ==
  /\ \A i \in Ids : status[i] # "none" => shown[i] # "none" /\ row[i].press[2] <= n
  /\ \A i, j \in Ids : /\ status[i] # "none" /\ status[j] # "none"
                       /\ row[i].press = row[j].press
                       => i = j

PressOfOneCall(n) ==
  /\ \A c \in Calls : Live(c) => /\ call[c].id \in Ids
                                 /\ shown[call[c].id] # "none" /\ call[c].press[2] <= n
  /\ \A c, d \in Calls : Live(c) /\ Live(d) /\ call[c].press = call[d].press
                           => call[c].id = call[d].id
  /\ \A c \in Calls, i \in Ids : Live(c) /\ status[i] # "none" /\ row[i].press = call[c].press
                                   => call[c].id = i

OneOwner(n) == n \in Nat /\ PressOfOneRow(n) /\ PressOfOneCall(n)

AgentInv ==
  /\ OneOwner(turns)
  /\ \A i \in Ids : shown[i] \in {"none", "queued", "accepted", "error"}

\* On the phone every command has a call of its own; one that was refused has no
\* row.
PhoneInv ==
  /\ OneOwner(prompts)
  /\ held \in [state : Nat, ref : Nat]
  /\ recall \in [at : {"idle", "rows"}, rows : [Ids -> Known]]
  /\ \A i \in Ids : Holds(i, recall.rows[i])
  /\ \A c, d \in Calls : Live(c) /\ Live(d) /\ call[c].id = call[d].id => c = d
  /\ \A c \in Calls : call[c].at = "record" \/ (call[c].at = "answered" /\ call[c].answer = "refused")
                        => status[call[c].id] = "none"

\* The dock's revision of a draft that was not edited, after n reloads.
Revision(n) == IF n = 0 THEN 1 ELSE 0

\* In the dock the id of a command tells the window it was sent from.
IdsByWindow ==
  /\ dock.rev = Revision(reloads)
  /\ \A c \in Calls : /\ Carried(c) => call[c].id = Revision(call[c].press[1])
                      /\ Live(c) /\ ~Carried(c) => call[c].press[1] = reloads
  /\ \A i \in Ids : status[i] # "none" => i = Revision(row[i].press[1])

DockInv ==
  /\ dock \in [rev : Nat, draft : Nat, edits : Nat \ {0}, touches : Nat, inFlight : SUBSET Nat]
  /\ dock.rev <= dock.touches + 1 /\ dock.touches <= MaxTouches /\ reloads \in Nat
  /\ poll \in [at : {"idle", "rows"}, rows : [Ids -> Known], online : BOOLEAN]
  /\ \A i \in Ids : Holds(i, poll.rows[i])
  /\ \A i \in Ids : shown[i] = "not_dispatched" => status[i] = "not_dispatched"
  /\ dock.edits <= 1 => IdsByWindow

\* Nobody sends.
Quiet == (\A c \in Calls : ~Live(c)) /\ \A i \in Ids : status[i] = "none" /\ shown[i] = "none"

SurfaceInv ==
  /\ device = "agent" => AgentInv
  /\ device = "composer" => PhoneInv
  /\ device = "dock" => DockInv
  /\ device \notin {"agent", "composer", "dock"} => Quiet

IInv == DeskTypes /\ RowsTrue /\ AnswersTrue /\ ShownTrue /\ SurfaceInv
----------------------------------------------------------------------------
\* The host.

surfaces == <<dockVars, turns, phoneSendVars, device>>

\* What happens to rows on their own.
RowsGoOn ==
  /\ incarnation' \in Nat
  /\ status' \in [Ids -> Known] /\ delivered' \in [Ids -> {0, 1}] /\ RowsTrue'
  /\ \A i \in Ids : /\ status'[i] = "none" <=> status[i] = "none"
                    /\ status[i] \in P!Terminal => status'[i] = status[i]
                    /\ delivered[i] = 1 => delivered'[i] = 1
  /\ UNCHANGED <<row, call, shown, surfaces>>

\* What was read of a row stays true.
LEMMA HoldsOn ==
  ASSUME RowsGoOn, NEW i \in Ids, NEW s, Holds(i, s)
  PROVE  Holds(i, s)'
  BY DEF RowsGoOn, Holds

\* Deliveries, settlements and the end of OMP keep the invariant.
LEMMA RowsGoOnKeeps ==
  ASSUME IInv, RowsGoOn
  PROVE  IInv'
  <1> USE DEF RowsGoOn
  <1>1. DeskTypes' /\ RowsTrue'
    BY DEF IInv, DeskTypes
  <1>2. AnswersTrue'
    BY HoldsOn DEF IInv, AnswersTrue, AnswerTrue, Carried
  <1>3. ShownTrue'
    BY DEF IInv, ShownTrue, TrueWord, Dead, P!Terminal
  <1>4. SurfaceInv'
    <2>1. CASE device = "agent"
      <3>1. AgentInv'
        BY <2>1
          DEF IInv, SurfaceInv, AgentInv, OneOwner, PressOfOneRow, PressOfOneCall, Live, surfaces
      <3> QED  BY <2>1, <3>1 DEF SurfaceInv, surfaces
    <2>2. CASE device = "composer"
      <3>1. \A i \in Ids : Holds(i, recall.rows[i])'
        BY <2>2, HoldsOn DEF IInv, SurfaceInv, PhoneInv, surfaces, phoneSendVars
      <3>2. \A c \in Calls : call[c].at = "record" \/ (call[c].at = "answered" /\ call[c].answer = "refused")
                               => status'[call[c].id] = "none"
        BY <2>2 DEF IInv, SurfaceInv, PhoneInv, OneOwner, PressOfOneCall, Live
      <3>3. PhoneInv'
        BY <2>2, <3>1, <3>2
          DEF IInv, SurfaceInv, PhoneInv, OneOwner, PressOfOneRow, PressOfOneCall, Live,
                         surfaces, phoneSendVars
      <3> QED  BY <2>2, <3>3 DEF SurfaceInv, surfaces
    <2>3. CASE device = "dock"
      <3>1. \A i \in Ids : Holds(i, poll.rows[i])'
        BY <2>3, HoldsOn DEF IInv, SurfaceInv, DockInv, surfaces, dockVars
      <3>2. DockInv'
        BY <2>3, <3>1
          DEF IInv, SurfaceInv, DockInv, IdsByWindow, Live, Carried, P!Terminal, surfaces, dockVars
      <3> QED  BY <2>3, <3>2 DEF SurfaceInv, surfaces
    <2>4. CASE device \notin {"agent", "composer", "dock"}
      BY <2>4 DEF IInv, SurfaceInv, Quiet, Live, surfaces
    <2> QED  BY <2>1, <2>2, <2>3, <2>4
  <1> QED  BY <1>1, <1>2, <1>3, <1>4 DEF IInv

\* The host takes up, or answers, the request of call c; it may make the row.
Serve(c) ==
  /\ incarnation' \in Nat
  /\ Carried(c) /\ UNCHANGED <<delivered, shown, surfaces>>
  /\ \E k \in Call :
       /\ call' = [call EXCEPT ![c] = k]
       /\ k.at \in {"idle", "held", "answered"}
       /\ k.at # "idle" => k.id = call[c].id /\ k.press = call[c].press
       /\ k.at = "held" => status'[call[c].id] # "none"
       /\ k.at = "answered" =>
            /\ \/ k.answer \in {"refused", "conflict"}
               \/ k.answer \notin {"none", "claimed"} /\ k.answer = status'[call[c].id]
            /\ k.answer = "refused" => status'[call[c].id] = "none"
  /\ \/ UNCHANGED <<status, row>>
     \/ /\ call[c].at = "wire" /\ call'[c].at # "wire" /\ status[call[c].id] = "none"
        /\ \E s \in {"claimed", "not_dispatched"}, r \in Row :
             /\ status' = [status EXCEPT ![call[c].id] = s]
             /\ row' = [row EXCEPT ![call[c].id] = r] /\ r.press = call[c].press

\* So does whatever the host does with a request.
LEMMA ServeKeeps ==
  ASSUME IInv, NEW c \in Calls, Serve(c)
  PROVE  IInv'
  <1> DEFINE i0 == call[c].id
  <1>1. i0 \in Ids  BY DEF IInv, AnswersTrue, AnswerTrue, Serve
  <1>2. DeskTypes'
    BY <1>1 DEF IInv, DeskTypes, Serve, Known, P!Terminal
  <1>3. RowsTrue'
    BY <1>1 DEF IInv, DeskTypes, RowsTrue, Serve
  <1>4. /\ \A i \in Ids : status[i] # "none" => status'[i] = status[i] /\ row'[i] = row[i]
        /\ \A i \in Ids : status'[i] # status[i] => status[i] = "none" /\ i = i0 /\ call[c].at = "wire"
                                                    /\ row'[i].press = call[c].press
        /\ \A d \in Calls \ {c} : call'[d] = call[d]
        /\ call'[c].at \in {"idle", "held", "answered"}
        /\ call'[c].at # "idle" => call'[c].id = i0 /\ call'[c].press = call[c].press
    BY <1>1 DEF IInv, DeskTypes, Serve
  <1>5. \A i \in Ids, s \in Known \cup {"refused", "conflict"} : Holds(i, s) => Holds(i, s)'
    BY <1>4 DEF Holds, Serve, P!Terminal
  <1>6. AnswersTrue'
    <2>1. ASSUME NEW d \in Calls \ {c}  PROVE AnswerTrue(d)'
      <3>1. AnswerTrue(d) /\ call[d] \in Call  BY DEF IInv, DeskTypes, AnswersTrue
      <3>2. call[d].at = "answered" => Holds(call[d].id, call[d].answer)'
        BY <1>4, <1>5, <3>1 DEF AnswerTrue, Carried, Call, Holds
      <3>3. call[d].at = "held" => status'[call[d].id] # "none"
        BY <1>4, <3>1 DEF AnswerTrue, Carried
      <3> QED  BY <1>4, <3>1, <3>2, <3>3 DEF AnswerTrue, Carried, Holds
    <2>2. AnswerTrue(c)'
      <3>1. call'[c].at = "answered" => Holds(call[c].id, call[c].answer)'
        BY <1>1, <1>3, <1>4 DEF IInv, DeskTypes, Serve, Holds, RowsTrue, P!Terminal
      <3> QED  BY <1>1, <1>4, <3>1 DEF IInv, DeskTypes, AnswerTrue, Carried, Serve
    <2> QED  BY <2>1, <2>2 DEF AnswersTrue
  <1>7. ShownTrue'
    <2>1. \A i \in Ids : Dead(i) => Dead(i)'
      BY <1>1, <1>4 DEF Dead
    <2> QED  BY <1>4, <2>1 DEF IInv, ShownTrue, TrueWord, Serve
  <1>8. ASSUME NEW n, OneOwner(n)
        PROVE  n \in Nat /\ PressOfOneRow(n)' /\ PressOfOneCall(n)'
    <2>1. /\ Live(c)
          /\ \A d \in Calls : Live(d)' => /\ Live(d) /\ call'[d].id = call[d].id
                                          /\ call'[d].press = call[d].press
      BY <1>4 DEF Serve, Live, Carried
    <2>2. \A i \in Ids : status'[i] # "none" => \/ status[i] # "none" /\ row'[i] = row[i]
                                                \/ i = i0 /\ row'[i].press = call[c].press
      BY <1>4
    <2>3. PressOfOneRow(n)'
      BY <1>8, <2>1, <2>2 DEF OneOwner, PressOfOneRow, PressOfOneCall, Serve
    <2>4. PressOfOneCall(n)'
      BY <1>8, <2>1, <2>2 DEF OneOwner, PressOfOneRow, PressOfOneCall, Serve
    <2> QED  BY <1>8, <2>3, <2>4 DEF OneOwner
  <1>9. SurfaceInv'
    <2>1. CASE device = "agent"
      <3>1. AgentInv'
        BY <1>8, <2>1 DEF IInv, SurfaceInv, AgentInv, OneOwner, Serve, surfaces
      <3> QED  BY <2>1, <3>1 DEF SurfaceInv, Serve, surfaces
    <2>2. CASE device = "composer"
      <3>1. PhoneInv /\ UNCHANGED phoneSendVars  BY <2>2 DEF IInv, SurfaceInv, Serve, surfaces
      <3>2. OneOwner(prompts)'
        BY <1>8, <3>1 DEF PhoneInv, OneOwner, phoneSendVars
      <3>3. \A i \in Ids : Holds(i, recall.rows[i])'
        BY <1>5, <3>1 DEF PhoneInv, phoneSendVars
      <3>4. \A d, e \in Calls : Live(d)' /\ Live(e)' /\ call'[d].id = call'[e].id => d = e
        BY <1>4, <3>1 DEF PhoneInv, Live, Serve, Carried
      <3>5. \A d \in Calls : call'[d].at = "record" \/ (call'[d].at = "answered" /\ call'[d].answer = "refused")
                               => status'[call'[d].id] = "none"
        <4>1. ASSUME NEW d \in Calls \ {c},
                     call'[d].at = "record" \/ (call'[d].at = "answered" /\ call'[d].answer = "refused")
              PROVE  status'[call'[d].id] = "none"
          <5>1. call[d].id \in Ids /\ call[d].id # i0 /\ status[call[d].id] = "none"
            BY <1>4, <3>1, <4>1 DEF PhoneInv, OneOwner, PressOfOneCall, Live, Serve, Carried
          <5> QED  BY <1>4, <5>1
        <4>2. call'[c].at = "answered" /\ call'[c].answer = "refused" => status'[call'[c].id] = "none"
          BY DEF Serve, IInv, DeskTypes
        <4> QED  BY <1>4, <4>1, <4>2
      <3>6. PhoneInv'
        BY <3>1, <3>2, <3>3, <3>4, <3>5 DEF PhoneInv, phoneSendVars
      <3> QED  BY <2>2, <3>6 DEF SurfaceInv, Serve, surfaces
    <2>3. CASE device = "dock"
      <3>1. DockInv /\ UNCHANGED dockVars  BY <2>3 DEF IInv, SurfaceInv, Serve, surfaces
      <3>2. \A i \in Ids : Holds(i, poll.rows[i])'
        BY <1>5, <3>1 DEF DockInv, dockVars
      <3>3. IdsByWindow => IdsByWindow'
        BY <1>4, <3>1 DEF IdsByWindow, Live, Carried, Serve, dockVars
      <3>4. DockInv'
        BY <1>4, <3>1, <3>2, <3>3 DEF DockInv, dockVars, Serve
      <3> QED  BY <2>3, <3>4 DEF SurfaceInv, Serve, surfaces
    <2>4. CASE device \notin {"agent", "composer", "dock"}
      BY <2>4 DEF IInv, SurfaceInv, Quiet, Live, Serve, Carried, surfaces
    <2> QED  BY <2>1, <2>2, <2>3, <2>4
  <1> QED  BY <1>2, <1>3, <1>6, <1>7, <1>9 DEF IInv

\* The types of a call, and of what the host claims for it.
LEMMA CallFacts ==
  ASSUME IInv, NEW c \in Calls
  PROVE  /\ call[c] \in Call /\ NoCall \in Call /\ NoCall.at = "idle"
         /\ Carried(c) => status[call[c].id] \in Known /\ call[c].id \in Ids
         /\ [inc |-> call[c].inc, text |-> call[c].text, press |-> call[c].press] \in Row
  BY DEF IInv, DeskTypes, AnswersTrue, AnswerTrue, Carried, Call, Row, NoCall, Places, Press, Known

\* An answer finds its call, or nobody.
LEMMA AnsweredCall ==
  ASSUME IInv, NEW c \in Calls, NEW s \in Known \cup {"refused", "conflict"}, Answered(c, s)
  PROVE  \E k \in Call : /\ call' = [call EXCEPT ![c] = k]
                         /\ k.at \in {"idle", "answered"}
                         /\ k.at = "answered" => k.id = call[c].id /\ k.press = call[c].press /\ k.answer = s
  <1>1. call[c] \in Call /\ NoCall \in Call /\ NoCall.at = "idle"  BY CallFacts
  <1> DEFINE k == IF call[c].open THEN [call[c] EXCEPT !.at = "answered", !.answer = s] ELSE NoCall
  <1>2. k \in Call /\ (k.at = "answered" => k.id = call[c].id /\ k.press = call[c].press /\ k.answer = s)
        /\ k.at \in {"idle", "answered"}
    BY <1>1 DEF Call, Places
  <1>3. call' = [call EXCEPT ![c] = k]  BY DEF Answered
  <1> QED  BY <1>2, <1>3

\* The host keeps a request until its command is settled.
LEMMA HeldCall ==
  ASSUME IInv, NEW c \in Calls, call' = [call EXCEPT ![c].at = "held"]
  PROVE  \E k \in Call : /\ call' = [call EXCEPT ![c] = k] /\ k.at = "held"
                         /\ k.id = call[c].id /\ k.press = call[c].press
  <1>1. call[c] \in Call  BY CallFacts
  <1> DEFINE k == [call[c] EXCEPT !.at = "held"]
  <1>2. k \in Call /\ k.at = "held" /\ k.id = call[c].id /\ k.press = call[c].press
    BY <1>1 DEF Call, Places
  <1>3. call' = [call EXCEPT ![c] = k]  OBVIOUS
  <1> QED  BY <1>2, <1>3

\* Every step of the host is one of the two.
LEMMA HostKeeps ==
  ASSUME IInv, DeskNext, UNCHANGED surfaces
  PROVE  IInv'
  <1> USE DEF hostVars, logVars
  <1>1. CASE Start \/ Launch \/ Started \/ StartFails \/ OtherTurn
    <2>1. RowsGoOn
      BY <1>1
        DEF Start, Launch, Started, StartFails, OtherTurn, Rotate, IInv, DeskTypes, RowsTrue,
            RowsGoOn
    <2> QED  BY <2>1, RowsGoOnKeeps
  <1>2. CASE TaskEnds
    <2>1. RowsGoOn
      BY <1>2 DEF TaskEnds, P!Abandon, P!Terminal, Known, IInv, DeskTypes, RowsTrue, RowsGoOn
    <2> QED  BY <2>1, RowsGoOnKeeps
  <1>3. CASE Advance
    <2>1. PICK i \in Ids : P!Deliver(i) \/ \E to \in P!Terminal \cup {"acknowledged"} : P!Settle(i, to)
      BY <1>3 DEF Advance
    <2>2. UNCHANGED <<incarnation, row, call, shown>>  BY <1>3 DEF Advance
    <2>3. RowsGoOn
      BY <2>1, <2>2
        DEF P!Deliver, P!Settle, P!MayBecome, P!Terminal, Known, IInv, DeskTypes, RowsTrue, RowsGoOn
    <2> QED  BY <2>3, RowsGoOnKeeps
  <1>4. ASSUME NEW c \in Calls, Refuse(c) \/ Replay(c) \/ Conclude(c) \/ Lost(c) \/ TurnAway(c) \/ Claim(c)
        PROVE  IInv'
    <2>1. /\ incarnation' \in Nat /\ Carried(c) /\ UNCHANGED <<delivered, shown, surfaces>>
      BY <1>4
        DEF Refuse, Replay, Conclude, Lost, TurnAway, Claim, P!Claim, Arrived, Carried, IInv,
            DeskTypes
    <2>2. /\ call[c] \in Call /\ NoCall \in Call /\ NoCall.at = "idle"
          /\ status[call[c].id] \in Known /\ call[c].id \in Ids /\ Claimed(c) \in Row
          /\ Claimed(c).press = call[c].press
      BY <2>1, CallFacts DEF Claimed
    <2>3. CASE Refuse(c)
      <3>1. Answered(c, "refused") /\ status[call[c].id] = "none" /\ UNCHANGED <<status, row>>
        BY <2>3 DEF Refuse, NewId
      <3>2. Serve(c)  BY <2>1, <3>1, AnsweredCall DEF Serve
      <3> QED  BY <3>2, ServeKeeps
    <2>4. CASE Replay(c)
      <3>1. UNCHANGED <<status, row>> /\ status[call[c].id] # "none"
        BY <2>4 DEF Replay, NewId
      <3>2. CASE Answered(c, "conflict")
        <4>1. Serve(c)  BY <2>1, <3>1, <3>2, AnsweredCall DEF Serve
        <4> QED  BY <4>1, ServeKeeps
      <3>3. CASE Answered(c, status[call[c].id]) /\ status[call[c].id] # "claimed"
        <4>1. PICK k \in Call : /\ call' = [call EXCEPT ![c] = k]
                                /\ k.at \in {"idle", "answered"}
                                /\ k.at = "answered" => /\ k.id = call[c].id /\ k.press = call[c].press
                                                        /\ k.answer = status[call[c].id]
          BY <2>2, <3>3, AnsweredCall
        <4>2. status'[call[c].id] = status[call[c].id]  BY <3>1
        <4>3. status[call[c].id] # "refused"  BY <2>2 DEF Known, P!Terminal
        <4>4. Serve(c)  BY <2>1, <3>1, <3>3, <4>1, <4>2, <4>3 DEF Serve
        <4> QED  BY <4>4, ServeKeeps
      <3>4. CASE call' = [call EXCEPT ![c].at = "held"]
        <4>1. Serve(c)  BY <2>1, <3>1, <3>4, HeldCall DEF Serve
        <4> QED  BY <4>1, ServeKeeps
      <3> QED  BY <2>4, <3>2, <3>3, <3>4 DEF Replay
    <2>5. CASE Conclude(c)
      <3>1. /\ UNCHANGED <<status, row>> /\ Answered(c, status[call[c].id])
            /\ status[call[c].id] \notin {"none", "claimed"}
        BY <2>5 DEF Conclude, IInv, AnswersTrue, AnswerTrue
      <3>2. PICK k \in Call : /\ call' = [call EXCEPT ![c] = k]
                              /\ k.at \in {"idle", "answered"}
                              /\ k.at = "answered" => /\ k.id = call[c].id /\ k.press = call[c].press
                                                      /\ k.answer = status[call[c].id]
        BY <2>2, <3>1, AnsweredCall
      <3>3. status'[call[c].id] = status[call[c].id]  BY <3>1
      <3>4. status[call[c].id] # "refused"  BY <2>2 DEF Known, P!Terminal
      <3>5. Serve(c)  BY <2>1, <3>1, <3>2, <3>3, <3>4 DEF Serve
      <3> QED  BY <3>5, ServeKeeps
    <2>6. CASE Lost(c)
      <3>1. Serve(c)  BY <2>1, <2>2, <2>6 DEF Serve, Lost
      <3> QED  BY <3>1, ServeKeeps
    <2>7. CASE TurnAway(c)
      <3>1. /\ Answered(c, "not_dispatched") /\ call[c].at = "wire" /\ status[call[c].id] = "none"
            /\ status' = [status EXCEPT ![call[c].id] = "not_dispatched"]
            /\ row' = [row EXCEPT ![call[c].id] = Claimed(c)]
        BY <2>7 DEF TurnAway, Arrived, NewId
      <3>2. status'[call[c].id] = "not_dispatched"  BY <2>2, <3>1 DEF IInv, DeskTypes
      <3>3. PICK k \in Call : /\ call' = [call EXCEPT ![c] = k]
                              /\ k.at \in {"idle", "answered"}
                              /\ k.at = "answered" => /\ k.id = call[c].id /\ k.press = call[c].press
                                                      /\ k.answer = "not_dispatched"
        BY <3>1, AnsweredCall DEF Known, P!Terminal
      <3>4. call'[c].at # "wire"  BY <3>3 DEF IInv, DeskTypes
      <3>5. Serve(c)  BY <2>1, <2>2, <3>1, <3>2, <3>3, <3>4 DEF Serve
      <3> QED  BY <3>5, ServeKeeps
    <2>8. CASE Claim(c)
      <3>1. /\ call' = [call EXCEPT ![c].at = "held"] /\ call[c].at = "wire" /\ status[call[c].id] = "none"
            /\ status' = [status EXCEPT ![call[c].id] = "claimed"]
            /\ row' = [row EXCEPT ![call[c].id] = Claimed(c)]
        BY <2>8 DEF Claim, P!Claim, Arrived
      <3>2. status'[call[c].id] = "claimed" /\ call'[c].at = "held"
        BY <2>2, <3>1 DEF IInv, DeskTypes, Call
      <3>3. PICK k \in Call : /\ call' = [call EXCEPT ![c] = k] /\ k.at = "held"
                              /\ k.id = call[c].id /\ k.press = call[c].press
        BY <3>1, HeldCall
      <3>4. Serve(c)  BY <2>1, <2>2, <3>1, <3>2, <3>3 DEF Serve
      <3> QED  BY <3>4, ServeKeeps
    <2> QED  BY <1>4, <2>3, <2>4, <2>5, <2>6, <2>7, <2>8
  <1> QED  BY <1>1, <1>2, <1>3, <1>4 DEF DeskNext
----------------------------------------------------------------------------
\* The surfaces.  A step of one leaves the host alone.

\* A call is put aside, starts or restarts, or is no longer listened to.
Sets(c, k) ==
  /\ call' = [call EXCEPT ![c] = k] /\ k \in Call
  /\ \/ k.at \in {"idle", "asked", "record"}
     \/ k.at = "wire" /\ k.id \in Ids
     \/ Carried(c) /\ k.at = call[c].at /\ k.id = call[c].id /\ k.answer = call[c].answer

Surface == incarnation' \in Nat /\ UNCHANGED <<hostVars, device>>

\* Setting one call keeps what is said of rows and answers.
LEMMA SetsKeeps ==
  ASSUME IInv, NEW c \in Calls, NEW k, Sets(c, k), Surface, shown' \in [Ids -> Words]
  PROVE  /\ DeskTypes' /\ RowsTrue' /\ AnswersTrue'
         /\ call'[c] = k /\ \A d \in Calls \ {c} : call'[d] = call[d]
  <1> USE DEF Surface, hostVars
  <1>1. call'[c] = k /\ \A d \in Calls \ {c} : call'[d] = call[d]
    BY DEF IInv, DeskTypes, Sets
  <1>2. DeskTypes' /\ RowsTrue'
    BY DEF IInv, DeskTypes, RowsTrue, Sets
  <1>3. ASSUME NEW d \in Calls \ {c}  PROVE AnswerTrue(d)'
    BY <1>1 DEF IInv, AnswersTrue, AnswerTrue, Carried, Holds
  <1>4. AnswerTrue(c)'
    BY <1>1 DEF IInv, AnswersTrue, AnswerTrue, Carried, Holds, Sets
  <1> QED  BY <1>1, <1>2, <1>3, <1>4 DEF AnswersTrue

\* The same rows as seen by a surface.
LEMMA HoldsStill ==
  ASSUME Surface, NEW i \in Ids, NEW s, Holds(i, s)
  PROVE  Holds(i, s)'
  BY DEF Surface, hostVars, Holds

\* Owners do not change while calls keep their ids and presses, or end.
LEMMA OwnersStay ==
  ASSUME IInv, NEW c \in Calls, NEW k, Sets(c, k), Surface, shown' \in [Ids -> Words],
         k.at # "idle" => Live(c) /\ k.id = call[c].id /\ k.press = call[c].press,
         \A i \in Ids : shown[i] # "none" => shown'[i] # "none",
         NEW n, OneOwner(n)
  PROVE  PressOfOneRow(n)' /\ PressOfOneCall(n)'
  <1>1. PressOfOneRow(n)'
    BY DEF OneOwner, PressOfOneRow, Surface, hostVars
  <1>2. \A d \in Calls : Live(d)' => Live(d) /\ call'[d].id = call[d].id /\ call'[d].press = call[d].press
    BY SetsKeeps DEF Live
  <1>3. PressOfOneCall(n)'
    BY <1>2 DEF OneOwner, PressOfOneCall, Surface, hostVars
  <1> QED  BY <1>1, <1>3

\* A new command gets an id that no command shown has.
LEMMA FreshIsUnused ==
  Unused # {} => FreshId \in Ids /\ shown[FreshId] = "none"
  <1>1. Unused # {} => \E i \in Unused : TRUE  OBVIOUS
  <1>2. Unused # {} => FreshId \in Unused  BY <1>1 DEF FreshId
  <1> QED  BY <1>2 DEF Unused

\* A new press gets an id nobody has.
LEMMA OwnerAdded ==
  ASSUME IInv, NEW c \in Calls, NEW k, Sets(c, k), Surface, ~Live(c), Unused # {},
         NEW w \in Words \ {"none"}, shown' = [shown EXCEPT ![FreshId] = w],
         NEW n, OneOwner(n), k.id = FreshId, k.press = <<0, n + 1>>
  PROVE  PressOfOneRow(n + 1)' /\ PressOfOneCall(n + 1)'
  <1>1. FreshId \in Ids /\ shown[FreshId] = "none"  BY FreshIsUnused
  <1>2. /\ shown' \in [Ids -> Words] /\ shown'[FreshId] # "none"
        /\ \A i \in Ids : shown[i] # "none" => i # FreshId /\ shown'[i] # "none"
    BY <1>1 DEF IInv, DeskTypes
  <1>3. \A i \in Ids : row[i].press \in Press
    BY DEF IInv, DeskTypes, Row
  <1>4. \A d \in Calls : call[d].press \in Press
    BY DEF IInv, DeskTypes, Call
  <1>5. PressOfOneRow(n + 1)'
    BY <1>2, <1>3 DEF OneOwner, PressOfOneRow, Surface, hostVars, Press
  <1>6. \A d \in Calls : Live(d)' =>
          \/ d = c /\ call'[d].id = FreshId /\ call'[d].press = <<0, n + 1>>
          \/ d # c /\ Live(d) /\ call'[d] = call[d]
    <2>1. call'[c] = k /\ \A d \in Calls \ {c} : call'[d] = call[d]
      BY <1>2, SetsKeeps
    <2> QED  BY <2>1 DEF Live
  <1>7. PressOfOneCall(n + 1)'
    <2>1. \A d \in Calls : Live(d)' => /\ call'[d].id \in Ids /\ shown'[call'[d].id] # "none"
                                       /\ call'[d].press[2] <= n + 1
      BY <1>1, <1>2, <1>4, <1>6 DEF OneOwner, PressOfOneCall, Press
    <2>2. \A d, e \in Calls : Live(d)' /\ Live(e)' /\ call'[d].press = call'[e].press
                                => call'[d].id = call'[e].id
      BY <1>4, <1>6 DEF OneOwner, PressOfOneCall, Press
    <2>3. \A d \in Calls, i \in Ids :
            Live(d)' /\ status'[i] # "none" /\ row'[i].press = call'[d].press => call'[d].id = i
      BY <1>3, <1>6 DEF OneOwner, PressOfOneRow, PressOfOneCall, Surface, hostVars, Press
    <2> QED  BY <2>1, <2>2, <2>3 DEF PressOfOneCall
  <1> QED  BY <1>5, <1>7

\* Every step of the Agents window keeps the invariant.
LEMMA AgentKeeps ==
  ASSUME IInv, device = "agent", AgentNext, UNCHANGED <<dockVars, phoneSendVars, device>>
  PROVE  IInv'
  <1> USE DEF logVars, Surface, hostVars
  <1>1. AgentInv  BY DEF IInv, SurfaceInv
  <1>2. \A c \in Calls : call[c] \in Call /\ NoCall \in Call /\ NoCall.at = "idle"  BY CallFacts
  <1>3. incarnation \in Nat /\ shown \in [Ids -> Words]  BY DEF IInv, DeskTypes
  <1>4. ASSUME NEW c \in Calls, Turn(c)  PROVE IInv'
    <2> DEFINE k == [NoCall EXCEPT !.at = "asked", !.open = TRUE, !.id = FreshId,
                                   !.text = turns', !.press = <<0, turns'>>]
    <2>1. /\ FreshId \in Ids /\ shown[FreshId] = "none" /\ Unused # {}
          /\ ~Live(c) /\ turns \in Nat /\ turns' = turns + 1
      BY <1>1, <1>2, <1>4, FreshIsUnused DEF Turn, Live, AgentInv, OneOwner
    <2>2. k \in Call /\ k.at = "asked" /\ k.id = FreshId /\ k.press = <<0, turns + 1>>
      <3>1. FreshId \in Nat /\ turns' \in Nat  BY <2>1, DeskAssumption
      <3> QED  BY <2>1, <3>1 DEF Call, NoCall, Places, Press, Known
    <2>3. Sets(c, k) /\ Surface
      BY <1>3, <1>4, <2>2 DEF Turn, Sets
    <2>4. shown' = [shown EXCEPT ![FreshId] = "queued"]
      BY <1>4 DEF Turn
    <2>5. /\ shown' \in [Ids -> Words]
          /\ \A i \in Ids : /\ shown'[i] \in {"none", "queued", "accepted", "error"}
                            /\ shown'[i] = "accepted" => shown[i] = "accepted"
      BY <1>1, <1>3, <2>1, <2>4 DEF AgentInv, Words
    <2>6. AgentInv'
      <3>1. ASSUME NEW n, n = turns  PROVE PressOfOneRow(n + 1)' /\ PressOfOneCall(n + 1)'
        BY <1>1, <2>1, <2>2, <2>3, <2>4, <3>1, OwnerAdded DEF AgentInv, Words
      <3>2. PressOfOneRow(turns)' /\ PressOfOneCall(turns)'
        BY <2>1, <3>1 DEF PressOfOneRow, PressOfOneCall
      <3> QED  BY <2>1, <2>5, <3>2 DEF AgentInv, OneOwner
    <2>7. ShownTrue'
      BY <2>3, <2>5 DEF IInv, ShownTrue, TrueWord
    <2>8. DeskTypes' /\ RowsTrue' /\ AnswersTrue'
      BY <2>3, <2>5, SetsKeeps
    <2> QED  BY <2>6, <2>7, <2>8 DEF IInv, SurfaceInv
  <1>5. ASSUME NEW c \in Calls, AgentEnsured(c) \/ Submit(c) \/ Retry(c) \/ FinishTurn(c) \/ TurnBreaks(c)
        PROVE IInv'
    <2>1. Live(c) /\ call[c].id \in Ids
      BY <1>1, <1>5
        DEF AgentEnsured, Ensured, Submit, Retry, FinishTurn, TurnBreaks, HangUp, Waiting,
            EnsureBreaks,
           Arrive, Live, AgentInv, OneOwner, PressOfOneCall
    <2>2. PICK k : Sets(c, k) /\ (k.at # "idle" => k.id = call[c].id /\ k.press = call[c].press)
      <3>1. CASE AgentEnsured(c)
        <4> DEFINE k == [call[c] EXCEPT !.at = "record", !.inc = incarnation]
        <4>1. Sets(c, k) /\ k.id = call[c].id /\ k.press = call[c].press
          BY <1>2, <1>3, <3>1 DEF AgentEnsured, Ensured, Sets, Call, Places
        <4> QED  BY <4>1
      <3>2. CASE Submit(c)
        <4> DEFINE k == [call[c] EXCEPT !.at = "wire"]
        <4>1. Sets(c, k) /\ k.id = call[c].id /\ k.press = call[c].press
          BY <1>2, <2>1, <3>2 DEF Submit, Sets, Call, Places
        <4> QED  BY <4>1
      <3>3. CASE Retry(c)
        <4> DEFINE k == [call[c] EXCEPT !.at = "asked", !.attempt = 2, !.answer = "none"]
        <4>1. Sets(c, k) /\ k.id = call[c].id /\ k.press = call[c].press
          BY <1>2, <3>3 DEF Retry, Sets, Call, Places, Known
        <4> QED  BY <4>1
      <3>4. CASE call' = [call EXCEPT ![c] = NoCall]
        BY <1>2, <3>4 DEF Sets
      <3>5. CASE call' = [call EXCEPT ![c] = [@ EXCEPT !.open = FALSE]] /\ Waiting(c)
        <4> DEFINE k == [call[c] EXCEPT !.open = FALSE]
        <4>1. Sets(c, k) /\ k.id = call[c].id /\ k.press = call[c].press
          BY <1>2, <3>5 DEF Waiting, Carried, Sets, Call, Places
        <4> QED  BY <4>1
      <3> QED
        BY <1>5, <3>1, <3>2, <3>3, <3>4, <3>5 DEF FinishTurn, Done, TurnBreaks, HangUp, EnsureBreaks
    <2>3. Surface /\ turns' = turns
      BY <1>3, <1>5
        DEF AgentEnsured, Ensured, Submit, Retry, FinishTurn, TurnBreaks, HangUp, EnsureBreaks,
            RequestFails
    <2>4. shown' = shown \/ \E w \in {"accepted", "error"} : /\ shown' = [shown EXCEPT ![call[c].id] = w]
                                                             /\ w = "accepted" => delivered[call[c].id] = 1
      <3>1. CASE FinishTurn(c)
        <4>1. call[c].answer \in Accepted => delivered[call[c].id] = 1
          BY <3>1
            DEF FinishTurn, Arrive, IInv, AnswersTrue, AnswerTrue, RowsTrue, Holds, Carried,
                Accepted, P!Terminal
        <4> QED  BY <3>1, <4>1 DEF FinishTurn
      <3> QED  BY <1>5, <3>1 DEF AgentEnsured, Ensured, Submit, Retry, TurnBreaks
    <2>5. /\ shown' \in [Ids -> Words]
          /\ \A i \in Ids : /\ shown'[i] \in {"none", "queued", "accepted", "error"}
                            /\ shown[i] # "none" => shown'[i] # "none"
                            /\ shown'[i] = "accepted" => delivered[i] = 1
      <3>1. CASE shown' = shown
        BY <1>1, <1>3, <3>1 DEF AgentInv, IInv, ShownTrue, TrueWord
      <3>2. ASSUME NEW w \in {"accepted", "error"}, shown' = [shown EXCEPT ![call[c].id] = w],
                   w = "accepted" => delivered[call[c].id] = 1
            PROVE  /\ shown' \in [Ids -> Words]
                   /\ \A i \in Ids : /\ shown'[i] \in {"none", "queued", "accepted", "error"}
                                     /\ shown[i] # "none" => shown'[i] # "none"
                                     /\ shown'[i] = "accepted" => delivered[i] = 1
        <4>1. \A i \in Ids : shown'[i] = IF i = call[c].id THEN w ELSE shown[i]
          BY <1>3, <3>2
        <4>2. shown' \in [Ids -> Words]  BY <1>3, <3>2 DEF Words
        <4>3. \A i \in Ids : /\ shown[i] \in {"none", "queued", "accepted", "error"}
                             /\ shown[i] = "accepted" => delivered[i] = 1
          BY <1>1 DEF AgentInv, IInv, ShownTrue, TrueWord
        <4> QED  BY <3>2, <4>1, <4>2, <4>3
      <3> QED  BY <2>4, <3>1, <3>2
    <2>6. AgentInv'
      BY <1>1, <2>1, <2>2, <2>3, <2>5, OwnersStay DEF AgentInv, OneOwner
    <2>7. ShownTrue'
      BY <2>3, <2>5 DEF ShownTrue, TrueWord
    <2>8. DeskTypes' /\ RowsTrue' /\ AnswersTrue'
      BY <2>2, <2>3, <2>5, SetsKeeps
    <2> QED  BY <2>6, <2>7, <2>8 DEF IInv, SurfaceInv
  <1> QED  BY <1>4, <1>5 DEF AgentNext

\* A row that was read gives a word that is true.
LEMMA WordedTrue ==
  ASSUME NEW i \in Ids, NEW s \in Known \ {"none"}, Holds(i, s)
  PROVE  Worded(s) \in Words \ {"none"} /\ TrueWord(i, Worded(s))
  BY DEF Known, Holds, Worded, Words, TrueWord, Dead, P!Terminal

\* A word stays true while no new request for the command is made.
LEMMA WordStays ==
  ASSUME IInv, NEW c \in Calls, NEW k, Sets(c, k), Surface, shown' \in [Ids -> Words],
         NEW i \in Ids, NEW w, TrueWord(i, w),
         k.at = "wire" => k.id # i \/ (call[c].at = "wire" /\ k.id = call[c].id)
  PROVE  TrueWord(i, w)'
  <1>1. Dead(i) => Dead(i)'
    BY SetsKeeps DEF Dead, Surface, hostVars
  <1> QED  BY <1>1 DEF TrueWord, Surface, hostVars

\* A refused command gives its press to the next.
LEMMA OwnerMoved ==
  ASSUME IInv, NEW c \in Calls, NEW k, Sets(c, k), Surface, Live(c), Unused # {},
         NEW w \in Words \ {"none"}, shown' = [shown EXCEPT ![FreshId] = w],
         NEW n, OneOwner(n), k.id = FreshId, k.press = call[c].press,
         status[call[c].id] = "none",
         \A d \in Calls : Live(d) /\ call[d].id = call[c].id => d = c
  PROVE  PressOfOneRow(n)' /\ PressOfOneCall(n)'
  <1>1. FreshId \in Ids /\ shown[FreshId] = "none"  BY FreshIsUnused
  <1>2. /\ shown' \in [Ids -> Words] /\ shown'[FreshId] # "none"
        /\ \A i \in Ids : shown[i] # "none" => i # FreshId /\ shown'[i] # "none"
    BY <1>1 DEF IInv, DeskTypes
  <1>3. PressOfOneRow(n)'
    BY <1>2 DEF OneOwner, PressOfOneRow, Surface, hostVars
  <1>4. \A d \in Calls : Live(d)' =>
          \/ d = c /\ call'[d].id = FreshId /\ call'[d].press = call[c].press
          \/ d # c /\ Live(d) /\ call'[d] = call[d] /\ call[d].press # call[c].press
    <2>1. call'[c] = k /\ \A d \in Calls \ {c} : call'[d] = call[d]
      BY <1>2, SetsKeeps
    <2> QED  BY <2>1 DEF Live, OneOwner, PressOfOneCall
  <1>5. PressOfOneCall(n)'
    <2>1. \A d \in Calls : Live(d)' => /\ call'[d].id \in Ids /\ shown'[call'[d].id] # "none"
                                       /\ call'[d].press[2] <= n
      BY <1>1, <1>2, <1>4 DEF OneOwner, PressOfOneCall
    <2>2. \A d, e \in Calls : Live(d)' /\ Live(e)' /\ call'[d].press = call'[e].press
                                => call'[d].id = call'[e].id
      BY <1>4 DEF OneOwner, PressOfOneCall
    <2>3. \A d \in Calls, i \in Ids :
            Live(d)' /\ status'[i] # "none" /\ row'[i].press = call'[d].press => call'[d].id = i
      BY <1>4 DEF OneOwner, PressOfOneCall, Surface, hostVars
    <2> QED  BY <2>1, <2>2, <2>3 DEF PressOfOneCall
  <1> QED  BY <1>3, <1>5

\* On the phone: a call goes on or ends, and its command is shown as w.
LEMMA PhoneCallKeeps ==
  ASSUME IInv, device = "composer", Surface, UNCHANGED phoneSendVars,
         NEW c \in Calls, Live(c), NEW k, Sets(c, k),
         \/ k.at = "idle"
         \/ /\ k.id = call[c].id /\ k.press = call[c].press
            /\ \/ k.at = "record" /\ status[call[c].id] = "none"
               \/ k.at = call[c].at /\ k.answer = call[c].answer,
         NEW w \in Words \ {"none"}, shown' = [shown EXCEPT ![call[c].id] = w], TrueWord(call[c].id, w)
  PROVE  IInv'
  <1>1. PhoneInv /\ call[c].id \in Ids /\ shown \in [Ids -> Words]
    BY DEF IInv, SurfaceInv, PhoneInv, OneOwner, PressOfOneCall, DeskTypes
  <1>2. /\ shown' \in [Ids -> Words] /\ \A i \in Ids : shown[i] # "none" => shown'[i] # "none"
        /\ \A i \in Ids : shown'[i] = IF i = call[c].id THEN w ELSE shown[i]
    BY <1>1
  <1>3. /\ DeskTypes' /\ RowsTrue' /\ AnswersTrue'
        /\ call'[c] = k /\ \A d \in Calls \ {c} : call'[d] = call[d]
    BY <1>2, SetsKeeps
  <1>4. ShownTrue'
    <2>1. ASSUME NEW i \in Ids  PROVE TrueWord(i, shown[i])'
      <3>1. TrueWord(i, shown'[i])
        BY <1>2 DEF IInv, ShownTrue
      <3>2. k.at = "wire" => call[c].at = "wire" /\ k.id = call[c].id
        BY DEF Sets
      <3> QED  BY <1>2, <3>1, <3>2, WordStays
    <2> QED  BY <2>1 DEF ShownTrue
  <1>5. PhoneInv'
    <2>1. ASSUME NEW n, n = prompts  PROVE PressOfOneRow(n)' /\ PressOfOneCall(n)'
      BY <1>1, <1>2, <2>1, OwnersStay DEF PhoneInv
    <2>2. OneOwner(prompts)'
      BY <1>1, <2>1 DEF PhoneInv, OneOwner, PressOfOneRow, PressOfOneCall, phoneSendVars
    <2>3. \A i \in Ids : Holds(i, recall.rows[i])'
      BY <1>1, HoldsStill DEF PhoneInv, phoneSendVars
    <2>4. \A d \in Calls : Live(d)' => Live(d) /\ call'[d].id = call[d].id
      BY <1>3 DEF Live
    <2>5. \A d, e \in Calls : Live(d)' /\ Live(e)' /\ call'[d].id = call'[e].id => d = e
      BY <1>1, <2>4 DEF PhoneInv
    <2>6. \A d \in Calls : call'[d].at = "record" \/ (call'[d].at = "answered" /\ call'[d].answer = "refused")
                             => status'[call'[d].id] = "none"
      BY <1>1, <1>3 DEF PhoneInv, Surface, hostVars
    <2> QED  BY <1>1, <2>2, <2>3, <2>5, <2>6 DEF PhoneInv, phoneSendVars
  <1> QED  BY <1>3, <1>4, <1>5 DEF IInv, SurfaceInv, Surface

\* On the phone: an attempt gets an unused id and is sent.
LEMMA PhoneAttemptKeeps ==
  ASSUME IInv, device = "composer", UNCHANGED <<hostVars, incarnation, recall, device>>,
         held' \in [state : Nat, ref : Nat],
         NEW c \in Calls, NEW m \in Nat, NEW text \in Nat, NEW press \in Press, Attempt(c, m, text, press),
         shown' = [shown EXCEPT ![FreshId] = "sent"],
         \/ ~Live(c) /\ prompts' = prompts + 1 /\ press = <<0, prompts + 1>>
         \/ Live(c) /\ prompts' = prompts /\ press = call[c].press /\ status[call[c].id] = "none"
  PROVE  IInv'
  <1> DEFINE k == [NoCall EXCEPT !.at = "wire", !.open = TRUE, !.id = FreshId, !.inc = held.ref,
                                 !.text = text, !.press = press, !.attempt = m]
  <1>1. PhoneInv /\ Unused # {} /\ FreshId \in Ids /\ shown[FreshId] = "none" /\ shown \in [Ids -> Words]
    BY FreshIsUnused DEF IInv, SurfaceInv, DeskTypes, Attempt
  <1>2. k \in Call /\ k.at = "wire" /\ k.id = FreshId /\ k.press = press /\ k.answer = "none"
    <2>1. FreshId \in Nat /\ held.ref \in Nat  BY <1>1, DeskAssumption DEF PhoneInv
    <2> QED  BY <2>1 DEF Call, NoCall, Places, Press, Known
  <1>3. Sets(c, k) /\ Surface
    BY <1>1, <1>2 DEF Attempt, Sets, Surface, IInv, DeskTypes
  <1>4. /\ shown' \in [Ids -> Words]
        /\ \A i \in Ids : shown'[i] = IF i = FreshId THEN "sent" ELSE shown[i]
    BY <1>1 DEF Words
  <1>5. /\ DeskTypes' /\ RowsTrue' /\ AnswersTrue'
        /\ call'[c] = k /\ \A d \in Calls \ {c} : call'[d] = call[d]
    BY <1>3, <1>4, SetsKeeps
  <1> HIDE DEF k
  <1>6. ShownTrue'
    <2>1. ASSUME NEW i \in Ids \ {FreshId}  PROVE TrueWord(i, shown[i])'
      <3>1. TrueWord(i, shown'[i])
        BY <1>4 DEF IInv, ShownTrue
      <3>2. k.id # i  BY <1>2
      <3>3. ASSUME NEW w, w = shown[i]  PROVE TrueWord(i, w)'
        <4>1. TrueWord(i, w)  BY <3>1, <3>3, <1>4
        <4> QED  BY <1>3, <1>4, <3>2, <4>1, WordStays
      <3>4. shown'[i] = shown[i]  BY <1>4
      <3> QED  BY <3>3, <3>4 DEF TrueWord, Dead
    <2>2. ASSUME NEW i \in Ids, i = FreshId  PROVE TrueWord(i, shown[i])'
      BY <1>4, <2>2 DEF TrueWord
    <2> QED  BY <2>1, <2>2 DEF ShownTrue
  <1>7. PhoneInv'
    <2>1. OneOwner(prompts)'
      <3>1. CASE ~Live(c) /\ prompts' = prompts + 1 /\ press = <<0, prompts + 1>>
        <4>1. ASSUME NEW n, n = prompts  PROVE PressOfOneRow(n + 1)' /\ PressOfOneCall(n + 1)'
          BY <1>1, <1>2, <1>3, <3>1, <4>1, OwnerAdded DEF PhoneInv, Words
        <4> QED  BY <1>1, <3>1, <4>1 DEF PhoneInv, OneOwner, PressOfOneRow, PressOfOneCall
      <3>2. CASE Live(c) /\ prompts' = prompts /\ press = call[c].press /\ status[call[c].id] = "none"
        <4>1. ASSUME NEW n, n = prompts  PROVE PressOfOneRow(n)' /\ PressOfOneCall(n)'
          <5>1. \A d \in Calls : Live(d) /\ call[d].id = call[c].id => d = c
            BY <1>1, <3>2 DEF PhoneInv
          <5>2. "sent" \in Words \ {"none"} /\ OneOwner(n)
            BY <1>1, <4>1 DEF Words, PhoneInv
          <5> QED  BY <1>1, <1>2, <1>3, <3>2, <5>1, <5>2, OwnerMoved
        <4> QED  BY <1>1, <3>2, <4>1 DEF PhoneInv, OneOwner, PressOfOneRow, PressOfOneCall
      <3> QED  BY <3>1, <3>2
    <2>2. \A i \in Ids : Holds(i, recall.rows[i])'
      BY <1>1, <1>3, HoldsStill DEF PhoneInv
    <2>3. \A d \in Calls : Live(d)' =>
            \/ d = c /\ call'[d].id = FreshId
            \/ d # c /\ Live(d) /\ call'[d] = call[d] /\ call[d].id # FreshId
      <3>1. \A d \in Calls : Live(d) => call[d].id # FreshId
        BY <1>1 DEF PhoneInv, OneOwner, PressOfOneCall
      <3> QED  BY <1>2, <1>5, <3>1 DEF Live
    <2>4. \A d, e \in Calls : Live(d)' /\ Live(e)' /\ call'[d].id = call'[e].id => d = e
      BY <1>1, <2>3 DEF PhoneInv
    <2>5. \A d \in Calls : call'[d].at = "record" \/ (call'[d].at = "answered" /\ call'[d].answer = "refused")
                             => status'[call'[d].id] = "none"
      <3>1. ASSUME NEW d \in Calls \ {c}  PROVE call'[d] = call[d]
        BY <1>5
      <3>2. call'[c].at = "wire"
        BY <1>2, <1>5
      <3> QED  BY <1>1, <3>1, <3>2 DEF PhoneInv, hostVars
    <2> QED  BY <1>1, <2>1, <2>2, <2>4, <2>5 DEF PhoneInv
  <1> QED  BY <1>5, <1>6, <1>7 DEF IInv, SurfaceInv

\* Every step of the phone keeps the invariant.
LEMMA PhoneKeeps ==
  ASSUME IInv, device = "composer", PhoneSendNext, UNCHANGED <<dockVars, turns, device>>
  PROVE  IInv'
  <1> USE DEF logVars
  <1>1. PhoneInv  BY DEF IInv, SurfaceInv
  <1>2. \A c \in Calls : call[c] \in Call /\ NoCall \in Call /\ NoCall.at = "idle"  BY CallFacts
  <1>3. incarnation \in Nat /\ shown \in [Ids -> Words]  BY DEF IInv, DeskTypes
  <1>4. ASSUME UNCHANGED <<incarnation, hostVars, call, device>>, shown' \in [Ids -> Words],
               \A i \in Ids : TrueWord(i, shown'[i]) /\ (shown[i] # "none" => shown'[i] # "none"),
               held' \in [state : Nat, ref : Nat],
               recall' \in [at : {"idle", "rows"}, rows : [Ids -> Known]],
               \A i \in Ids : Holds(i, recall'.rows[i]),
               prompts' \in {prompts, prompts + 1}
        PROVE  IInv'
    <2> USE DEF hostVars
    <2>1. DeskTypes' /\ RowsTrue' /\ AnswersTrue'
      BY <1>4 DEF IInv, DeskTypes, RowsTrue, AnswersTrue, AnswerTrue, Carried, Holds
    <2>2. ShownTrue'
      BY <1>4 DEF ShownTrue, TrueWord, Dead
    <2>3. OneOwner(prompts)'
      <3>1. \A i \in Ids : row[i].press[2] \in Nat  BY DEF IInv, DeskTypes, Row, Press
      <3>2. \A c \in Calls : call[c].press[2] \in Nat  BY <1>2 DEF Call, Press
      <3> QED  BY <1>1, <1>4, <3>1, <3>2 DEF PhoneInv, OneOwner, PressOfOneRow, PressOfOneCall, Live
    <2>4. PhoneInv'
      BY <1>1, <1>4, <2>3 DEF PhoneInv, Live, Holds
    <2> QED  BY <1>4, <2>1, <2>2, <2>4 DEF IInv, SurfaceInv
  <1>5. ASSUME Paint \/ \E i \in 1 .. incarnation : Refresh(i)  PROVE IInv'
    <2>1. /\ UNCHANGED <<incarnation, hostVars, call, shown, recall, prompts>>
          /\ held' \in [state : Nat, ref : Nat]
      BY <1>1, <1>3, <1>5 DEF Paint, Refresh, deskVars, PhoneInv
    <2> QED  BY <1>1, <1>3, <1>4, <2>1 DEF IInv, ShownTrue, PhoneInv
  <1>6. CASE Recall
    <2>1. \A i \in Ids : Holds(i, status[i])
      BY DEF IInv, RowsTrue, Holds
    <2>2. status \in [Ids -> Known]  BY DEF IInv, DeskTypes
    <2> QED  BY <1>1, <1>3, <1>4, <1>6, <2>1, <2>2 DEF Recall, deskVars, IInv, ShownTrue, PhoneInv
  <1>7. CASE AbsorbAll
    <2>1. \A i \in Ids : shown'[i] = IF "none" \in {recall.rows[i], shown[i]} THEN shown[i]
                                     ELSE Worded(recall.rows[i])
      BY <1>7 DEF AbsorbAll
    <2>2. \A i \in Ids : recall.rows[i] \in Known /\ Holds(i, recall.rows[i])
      BY <1>1 DEF PhoneInv
    <2>3. \A i \in Ids : /\ shown'[i] \in Words /\ TrueWord(i, shown'[i])
                         /\ shown[i] # "none" => shown'[i] # "none"
      BY <1>3, <2>1, <2>2, WordedTrue DEF IInv, ShownTrue
    <2>4. shown' \in [Ids -> Words]
      BY <1>7, <2>3 DEF AbsorbAll
    <2>5. recall' = NoRecall /\ \A i \in Ids : Holds(i, NoRecall.rows[i])
      BY <1>7 DEF AbsorbAll, NoRecall, Holds, P!Terminal
    <2>6. NoRecall \in [at : {"idle", "rows"}, rows : [Ids -> Known]]
      BY DEF NoRecall, Known
    <2> QED  BY <1>1, <1>4, <1>7, <2>3, <2>4, <2>5, <2>6 DEF AbsorbAll, PhoneInv
  <1>8. ASSUME NEW c \in Calls, SendPrompt(c)  PROVE IInv'
    <2>1. /\ ~Live(c) /\ Attempt(c, 1, prompts + 1, <<0, prompts + 1>>)
          /\ prompts' = prompts + 1 /\ prompts \in Nat
          /\ UNCHANGED <<hostVars, incarnation, held, recall>> /\ shown' = [shown EXCEPT ![FreshId] = "sent"]
      BY <1>1, <1>2, <1>8 DEF SendPrompt, Live, PhoneInv, OneOwner
    <2>2. <<0, prompts + 1>> \in Press /\ prompts + 1 \in Nat  BY <2>1 DEF Press
    <2> QED  BY <1>1, <2>1, <2>2, PhoneAttemptKeeps DEF PhoneInv
  <1>9. ASSUME NEW c \in Calls, Resend(c)  PROVE IInv'
    <2>1. /\ call[c].at = "record" /\ Attempt(c, 2, call[c].text, call[c].press)
          /\ UNCHANGED <<hostVars, incarnation, prompts, recall>> /\ shown' = [shown EXCEPT ![FreshId] = "sent"]
          /\ held' \in [state : Nat, ref : Nat]
      BY <1>1, <1>3, <1>9 DEF Resend, PhoneInv
    <2>2. Live(c) /\ status[call[c].id] = "none" /\ call[c].text \in Nat /\ call[c].press \in Press
      BY <1>1, <1>2, <2>1 DEF Live, PhoneInv, Call
    <2> QED  BY <2>1, <2>2, PhoneAttemptKeeps
  <1>10. ASSUME NEW c \in Calls, Absorb(c) \/ Refused(c) \/ RefreshBreaks(c) \/ MarkUnknown(c) \/ PromptBreaks(c)
         PROVE  IInv'
    <2>1. Surface /\ UNCHANGED phoneSendVars
      BY <1>3, <1>10
        DEF Absorb, Refused, RefreshBreaks, MarkUnknown, PromptBreaks, HangUp, RequestFails, Surface
    <2>2. Live(c) /\ call[c].id \in Ids
      BY <1>1, <1>10
        DEF Absorb, Refused, RefreshBreaks, MarkUnknown, PromptBreaks, HangUp, Waiting, Arrive,
            Live,
           PhoneInv, OneOwner, PressOfOneCall
    <2>3. PICK w \in Words \ {"none"} : shown' = [shown EXCEPT ![call[c].id] = w] /\ TrueWord(call[c].id, w)
      <3>1. CASE Absorb(c)
        <4>1. call[c].answer \in Known \ {"none"} /\ Holds(call[c].id, call[c].answer)
          BY <1>2, <3>1 DEF Absorb, Arrive, IsRow, IInv, AnswersTrue, AnswerTrue, Call
        <4> QED  BY <2>2, <3>1, <4>1, WordedTrue DEF Absorb
      <3>2. CASE Refused(c)
        <4>1. status[call[c].id] = "none" /\ call[c].at = "answered"
          BY <1>1, <3>2 DEF Refused, Arrive, Retryable, PhoneInv
        <4>2. \A d \in Calls : call[d].at = "wire" => call[d].id # call[c].id
          BY <1>1, <4>1 DEF PhoneInv, Live
        <4>3. Dead(call[c].id)  BY <4>1, <4>2 DEF Dead
        <4>4. TrueWord(call[c].id, "not_dispatched") /\ "not_dispatched" \in Words \ {"none"}
          BY <4>3 DEF TrueWord, Words
        <4> QED  BY <3>2, <4>4 DEF Refused
      <3> QED  BY <1>10, <3>1, <3>2 DEF RefreshBreaks, MarkUnknown, PromptBreaks, TrueWord, Words
    <2>4. PICK k : /\ Sets(c, k)
                   /\ \/ k.at = "idle"
                      \/ /\ k.id = call[c].id /\ k.press = call[c].press
                         /\ \/ k.at = "record" /\ status[call[c].id] = "none"
                            \/ k.at = call[c].at /\ k.answer = call[c].answer
      <3>1. CASE call' = [call EXCEPT ![c] = NoCall]
        BY <1>2, <3>1 DEF Sets
      <3>2. CASE Refused(c)
        <4> DEFINE k == [call[c] EXCEPT !.at = "record"]
        <4>1. Sets(c, k) /\ k.id = call[c].id /\ k.press = call[c].press /\ k.at = "record"
          BY <1>2, <3>2 DEF Refused, Sets, Call, Places
        <4>2. status[call[c].id] = "none"
          BY <1>1, <3>2 DEF Refused, Arrive, Retryable, PhoneInv
        <4> QED  BY <4>1, <4>2
      <3>3. CASE call' = [call EXCEPT ![c] = [@ EXCEPT !.open = FALSE]] /\ Waiting(c)
        <4> DEFINE k == [call[c] EXCEPT !.open = FALSE]
        <4>1. /\ Sets(c, k) /\ k.id = call[c].id /\ k.press = call[c].press
              /\ k.at = call[c].at /\ k.answer = call[c].answer
          BY <1>2, <3>3 DEF Waiting, Carried, Sets, Call, Places
        <4> QED  BY <4>1
      <3> QED
        BY <1>10, <3>1, <3>2, <3>3
          DEF Absorb, RefreshBreaks, MarkUnknown, PromptBreaks, HangUp, Done
    <2> QED  BY <2>1, <2>2, <2>3, <2>4, PhoneCallKeeps
  <1> QED  BY <1>5, <1>6, <1>7, <1>8, <1>9, <1>10 DEF PhoneSendNext
----------------------------------------------------------------------------
\* The task view of the macOS extension.

\* What the dock may show of command i: the id can be sent again, so "not
\* dispatched" is shown from the row only.
DockWord(i, w) == TrueWord(i, w) /\ (w = "not_dispatched" => status[i] = "not_dispatched")

DockRecord == [rev : Nat, draft : Nat, edits : Nat \ {0}, touches : Nat, inFlight : SUBSET Nat]
PollRecord == [at : {"idle", "rows"}, rows : [Ids -> Known], online : BOOLEAN]

LEMMA TextLeaves ==
  ASSUME NEW d \in DockRecord
  PROVE  LET e == [d EXCEPT !.draft = 0]
         IN  e \in DockRecord /\ e.rev = d.rev /\ e.edits = d.edits /\ e.touches = d.touches
  BY DEF DockRecord

\* An error puts words in doubt and adds none.
LEMMA DoubtTrue ==
  ASSUME NEW view \in [Ids -> Words], \A i \in Ids : DockWord(i, view[i])
  PROVE  Doubt(view) \in [Ids -> Words] /\ \A i \in Ids : DockWord(i, Doubt(view)[i])
  BY DEF Doubt, DockWord, TrueWord, Words

\* What the dock shows now, and a row that was read, may be shown.
LEMMA DockWords ==
  ASSUME IInv, device = "dock"
  PROVE  /\ shown \in [Ids -> Words] /\ \A i \in Ids : DockWord(i, shown[i])
         /\ \A i \in Ids, s \in Known \ {"none"} :
              Holds(i, s) => Worded(s) \in Words /\ DockWord(i, Worded(s))
  <1>1. shown \in [Ids -> Words] /\ \A i \in Ids : DockWord(i, shown[i])
    BY DEF IInv, DeskTypes, ShownTrue, SurfaceInv, DockInv, DockWord
  <1>2. ASSUME NEW i \in Ids, NEW s \in Known \ {"none"}, Holds(i, s)
        PROVE  Worded(s) \in Words /\ DockWord(i, Worded(s))
    BY <1>2 DEF Worded, Words, DockWord, TrueWord, Dead, Holds, Known, P!Terminal
  <1> QED  BY <1>1, <1>2

\* The revision of a draft is an id.
LEMMA EnvelopeIsId ==
  ASSUME DockInv
  PROVE  Envelope \in Ids
  BY DockAssumption DEF DockInv, Envelope

\* The dock changes what it shows, the draft or the poll.
LEMMA DockScreenKeeps ==
  ASSUME IInv, device = "dock", UNCHANGED <<incarnation, hostVars, call, device, reloads>>,
         shown' \in [Ids -> Words], \A i \in Ids : DockWord(i, shown'[i]),
         poll' \in PollRecord, \A i \in Ids : Holds(i, poll'.rows[i]),
         dock' \in DockRecord, dock'.rev <= dock'.touches + 1, dock'.touches <= MaxTouches,
         dock'.edits <= 1 => dock' = dock
  PROVE  IInv'
  <1> USE DEF hostVars
  <1>1. DockInv  BY DEF IInv, SurfaceInv
  <1>2. DeskTypes' /\ RowsTrue' /\ AnswersTrue'
    BY DEF IInv, DeskTypes, RowsTrue, AnswersTrue, AnswerTrue, Carried, Holds
  <1>3. ShownTrue'
    BY DEF DockWord, ShownTrue, TrueWord, Dead
  <1>4. dock'.edits <= 1 => IdsByWindow'
    BY <1>1 DEF DockInv, IdsByWindow, Carried, Live
  <1>5. DockInv'
    BY <1>1, <1>4 DEF DockInv, DockWord, DockRecord, PollRecord, Holds
  <1> QED  BY <1>2, <1>3, <1>5 DEF IInv, SurfaceInv

\* A call of the dock is made, goes on or ends.
LEMMA DockCallKeeps ==
  ASSUME IInv, device = "dock", Surface, UNCHANGED <<poll, reloads>>,
         NEW c \in Calls, NEW k, Sets(c, k),
         \/ k.at = "idle"
         \/ k.at \in {"asked", "record"} /\ (dock.edits <= 1 => k.press[1] = reloads)
         \/ k.at \in {"wire", "held", "answered"} /\ (dock.edits <= 1 => k.id = Revision(k.press[1])),
         shown' \in [Ids -> Words], \A i \in Ids : DockWord(i, shown'[i]),
         dock' \in DockRecord, dock'.rev = dock.rev, dock'.edits = dock.edits,
         dock'.touches \in {dock.touches, dock.touches + 1}, dock'.touches <= MaxTouches
  PROVE  IInv'
  <1>1. DockInv  BY DEF IInv, SurfaceInv
  <1>2. /\ DeskTypes' /\ RowsTrue' /\ AnswersTrue'
        /\ call'[c] = k /\ \A d \in Calls \ {c} : call'[d] = call[d]
    BY SetsKeeps
  <1>3. ShownTrue'
    <2>1. ASSUME NEW i \in Ids, NEW w, w = shown'[i]  PROVE TrueWord(i, w)'
      <3>1. DockWord(i, w)  BY <2>1
      <3> QED  BY <3>1 DEF DockWord, TrueWord, Dead, Surface, hostVars
    <2> QED  BY <2>1 DEF ShownTrue, TrueWord, Dead
  <1>4. dock'.edits <= 1 => IdsByWindow'
    <2> SUFFICES ASSUME dock'.edits <= 1  PROVE IdsByWindow'
      OBVIOUS
    <2>1. IdsByWindow  BY <1>1 DEF DockInv
    <2>2. ASSUME NEW d \in Calls \ {c}
          PROVE  /\ Carried(d)' => call'[d].id = Revision(call'[d].press[1])
                 /\ Live(d)' /\ ~Carried(d)' => call'[d].press[1] = reloads
      BY <1>2, <2>1 DEF IdsByWindow, Carried, Live
    <2>3. /\ Carried(c)' => call'[c].id = Revision(call'[c].press[1])
          /\ Live(c)' /\ ~Carried(c)' => call'[c].press[1] = reloads
      BY <1>2 DEF Carried, Live
    <2> QED  BY <2>1, <2>2, <2>3 DEF IdsByWindow, Surface, hostVars, Revision
  <1>5. \A i \in Ids : Holds(i, poll.rows[i])'
    BY <1>1, HoldsStill DEF DockInv
  <1>6. DockInv'
    BY <1>1, <1>4, <1>5 DEF DockInv, DockWord, DockRecord, Surface, hostVars
  <1> QED  BY <1>2, <1>3, <1>6 DEF IInv, SurfaceInv, Surface

\* Every step of the task view keeps the invariant.
LEMMA DockKeeps ==
  ASSUME IInv, device = "dock", DockNext, UNCHANGED <<turns, phoneSendVars, device>>
  PROVE  IInv'
  <1> USE DEF logVars
  <1>1. DockInv  BY DEF IInv, SurfaceInv
  <1>2. \A c \in Calls : call[c] \in Call /\ NoCall \in Call /\ NoCall.at = "idle"  BY CallFacts
  <1>3. incarnation \in Nat /\ dock \in DockRecord /\ dock.touches <= MaxTouches /\ poll \in PollRecord
    BY <1>1 DEF IInv, DeskTypes, DockInv, DockRecord, PollRecord
  <1>4. shown \in [Ids -> Words] /\ \A i \in Ids : DockWord(i, shown[i])
    BY DockWords
  <1>5. dock.rev <= dock.touches + 1 /\ MaxTouches \in Nat /\ \A i \in Ids : Holds(i, poll.rows[i])
    BY <1>1, DockAssumption DEF DockInv
  <1>6. \A i \in Ids : "unknown" \in Words /\ DockWord(i, "unknown")
    BY DEF Words, DockWord, TrueWord
  <1>7. RestPoll \in PollRecord /\ \A i \in Ids : Holds(i, RestPoll.rows[i])
    BY DEF RestPoll, PollRecord, Known, Holds, P!Terminal
  <1>8. CASE Edit
    <2>1. /\ UNCHANGED <<incarnation, hostVars, call, shown, poll, reloads>>
          /\ dock' = [dock EXCEPT !.rev = @ + 1, !.edits = @ + 1, !.draft = dock.edits + 1,
                                  !.touches = @ + 1]
          /\ dock.touches < MaxTouches
      BY <1>8 DEF Edit, deskVars
    <2>2. dock' \in DockRecord /\ dock'.rev <= dock'.touches + 1 /\ dock'.touches <= MaxTouches
      <3>1. /\ dock.rev \in Nat /\ dock.edits \in Nat \ {0} /\ dock.touches \in Nat
            /\ dock.inFlight \in SUBSET Nat
            /\ dock.rev + 1 \in Nat /\ dock.edits + 1 \in Nat \ {0} /\ dock.touches + 1 \in Nat
        BY <1>3 DEF DockRecord
      <3>2. dock' \in DockRecord  BY <1>3, <2>1, <3>1 DEF DockRecord
      <3>3. dock'.rev = dock.rev + 1 /\ dock'.touches = dock.touches + 1
        BY <1>3, <2>1 DEF DockRecord
      <3> QED  BY <1>5, <2>1, <3>1, <3>2, <3>3
    <2>3. ~(dock'.edits <= 1)
      BY <1>3, <2>1 DEF DockRecord
    <2> QED  BY <1>3, <1>4, <1>5, <2>1, <2>2, <2>3, DockScreenKeeps
  <1>9. CASE ReadRows
    <2>1. \A i \in Ids : Holds(i, status[i])  BY DEF IInv, RowsTrue, Holds
    <2>2. poll' \in PollRecord /\ poll'.rows = status
      BY <1>3, <1>9 DEF ReadRows, PollRecord, IInv, DeskTypes
    <2>3. UNCHANGED <<incarnation, hostVars, call, shown, dock, reloads>>
      BY <1>9 DEF ReadRows, deskVars
    <2> QED  BY <1>3, <1>4, <1>5, <2>1, <2>2, <2>3, DockScreenKeeps
  <1>10. CASE ShowRows
    <2>1. /\ UNCHANGED <<incarnation, hostVars, call, dock, reloads>> /\ poll' = RestPoll
          /\ shown' = [i \in Ids |-> ShowRow(shown[i], poll.rows[i])]
      BY <1>10 DEF ShowRows
    <2>2. ASSUME NEW i \in Ids  PROVE shown'[i] \in Words /\ DockWord(i, shown'[i])
      <3>1. poll.rows[i] \in Known /\ shown[i] \in Words  BY <1>3, <1>4 DEF PollRecord
      <3> QED  BY <1>4, <1>5, <2>1, <3>1, DockWords DEF ShowRow
    <2>3. shown' \in [Ids -> Words]  BY <2>1, <2>2
    <2> QED  BY <1>3, <1>5, <1>7, <2>1, <2>2, <2>3, DockScreenKeeps
  <1>11. CASE PollBreaks
    <2>1. /\ UNCHANGED <<incarnation, hostVars, call, dock, reloads>> /\ shown' = Doubt(shown)
          /\ poll' = [RestPoll EXCEPT !.online = FALSE]
      BY <1>11 DEF PollBreaks, RequestFails
    <2>2. poll' \in PollRecord /\ poll'.rows = RestPoll.rows
      BY <1>7, <2>1 DEF PollRecord
    <2> QED  BY <1>3, <1>4, <1>5, <1>7, <2>1, <2>2, DoubtTrue, DockScreenKeeps
  <1>12. CASE Redial
    <2>1. UNCHANGED <<incarnation, hostVars, call, shown, dock, reloads>> /\ poll' = RestPoll
      BY <1>12 DEF Redial, deskVars
    <2> QED  BY <1>3, <1>4, <1>5, <1>7, <2>1, DockScreenKeeps
  <1>13. ASSUME NEW c \in Calls, Click(c)  PROVE IInv'
    <2> DEFINE k == [NoCall EXCEPT !.at = "asked", !.open = TRUE, !.text = dock.draft,
                                   !.press = <<reloads, dock.draft>>]
    <2>1. /\ call' = [call EXCEPT ![c] = k]
          /\ dock' = [dock EXCEPT !.touches = @ + 1] /\ dock.touches < MaxTouches
          /\ UNCHANGED <<incarnation, hostVars, shown, poll, reloads>>
      BY <1>13 DEF Click
    <2>2. k \in Call /\ k.at = "asked" /\ k.press[1] = reloads
      <3>1. dock.draft \in Nat /\ reloads \in Nat  BY <1>1, <1>3 DEF DockRecord, DockInv
      <3> QED  BY <3>1 DEF NoCall, Call, Places, Press, Known
    <2>3. Sets(c, k) /\ Surface  BY <1>3, <2>1, <2>2 DEF Sets, Surface
    <2>4. /\ dock' \in DockRecord /\ dock'.rev = dock.rev /\ dock'.edits = dock.edits
          /\ dock'.touches = dock.touches + 1 /\ dock'.touches <= MaxTouches
      BY <1>3, <1>5, <2>1 DEF DockRecord
    <2> HIDE DEF k
    <2> QED  BY <1>4, <2>1, <2>2, <2>3, <2>4, DockCallKeeps
  <1>14. ASSUME NEW c \in Calls, call' = [call EXCEPT ![c] = NoCall], incarnation' \in Nat,
                UNCHANGED <<hostVars, poll, reloads>>,
                shown' \in [Ids -> Words], \A i \in Ids : DockWord(i, shown'[i]),
                dock' \in DockRecord, dock'.rev = dock.rev, dock'.edits = dock.edits, dock'.touches = dock.touches
         PROVE  IInv'
    <2>1. Sets(c, NoCall) /\ Surface  BY <1>2, <1>14 DEF Sets, Surface
    <2> QED  BY <1>2, <1>3, <1>14, <2>1, DockCallKeeps
  <1>15. ASSUME NEW c \in Calls, DockEnsured(c)  PROVE IInv'
    <2> DEFINE k == [call[c] EXCEPT !.at = "record", !.inc = incarnation]
    <2>1. /\ call' = [call EXCEPT ![c] = k] /\ call[c].at = "asked"
          /\ UNCHANGED <<incarnation, hostVars, shown, dockVars>>
      BY <1>15 DEF DockEnsured, Ensured
    <2>2. k \in Call /\ k.at = "record" /\ k.press = call[c].press
      BY <1>2, <1>3 DEF Call, Places
    <2>3. Sets(c, k) /\ Surface  BY <1>3, <2>1, <2>2 DEF Sets, Surface
    <2>4. dock.edits <= 1 => call[c].press[1] = reloads
      BY <1>1, <2>1 DEF DockInv, IdsByWindow, Live, Carried
    <2> HIDE DEF k
    <2> QED  BY <1>3, <1>4, <2>1, <2>2, <2>3, <2>4, DockCallKeeps DEF dockVars
  <1>16. ASSUME NEW c \in Calls, DockStartBreaks(c)  PROVE IInv'
    <2>1. /\ call' = [call EXCEPT ![c] = NoCall] /\ incarnation' = incarnation
          /\ UNCHANGED <<hostVars, shown, dock, poll, reloads>>
      BY <1>16 DEF DockStartBreaks, EnsureBreaks, RequestFails, dockVars
    <2> QED  BY <1>3, <1>4, <1>14, <2>1
  <1>17. ASSUME NEW c \in Calls, Dispatch(c)  PROVE IInv'
    <2>1. /\ call[c].at = "record" /\ UNCHANGED <<incarnation, hostVars, poll, reloads>>
          /\ Envelope \in Ids /\ Envelope \in Nat
      BY <1>1, <1>17, EnvelopeIsId, DeskAssumption DEF Dispatch
    <2>2. CASE call' = [call EXCEPT ![c] = NoCall] /\ UNCHANGED <<dock, shown>>
      BY <1>3, <1>4, <1>14, <2>1, <2>2
    <2>3. CASE /\ call' = [call EXCEPT ![c] = [@ EXCEPT !.at = "wire", !.id = Envelope]]
               /\ dock' = [dock EXCEPT !.inFlight = {Envelope}]
               /\ shown' = [shown EXCEPT ![Envelope] = IF @ = "none" THEN "queued" ELSE @]
      <3> DEFINE k == [call[c] EXCEPT !.at = "wire", !.id = Envelope]
      <3>1. k \in Call /\ k.at = "wire" /\ k.id = Envelope /\ k.press = call[c].press
        BY <1>2, <2>1 DEF Call, Places
      <3>2. Sets(c, k) /\ Surface  BY <1>3, <2>1, <2>3, <3>1 DEF Sets, Surface
      <3>3. dock.edits <= 1 => k.id = Revision(k.press[1])
        BY <1>1, <2>1, <3>1 DEF DockInv, IdsByWindow, Live, Carried, Envelope
      <3>4. /\ dock' \in DockRecord /\ dock'.rev = dock.rev
            /\ dock'.edits = dock.edits /\ dock'.touches = dock.touches
        BY <1>3, <2>1, <2>3 DEF DockRecord
      <3>5. shown' \in [Ids -> Words] /\ \A i \in Ids : DockWord(i, shown'[i])
        <4>1. "queued" \in Words /\ \A i \in Ids : DockWord(i, "queued")
          BY DEF Words, DockWord, TrueWord
        <4>2. \A i \in Ids : shown'[i] \in {shown[i], "queued"}
          BY <1>4, <2>1, <2>3
        <4> QED  BY <1>4, <2>1, <2>3, <4>1, <4>2
      <3> HIDE DEF k
      <3> QED  BY <1>3, <2>1, <3>1, <3>2, <3>3, <3>4, <3>5, DockCallKeeps
    <2> QED  BY <1>17, <2>2, <2>3 DEF Dispatch
  <1>18. ASSUME NEW i  PROVE /\ Settled(i) \in DockRecord /\ Settled(i).rev = dock.rev
                             /\ Settled(i).edits = dock.edits /\ Settled(i).touches = dock.touches
    BY <1>3 DEF Settled, DockRecord
  <1>19. ASSUME NEW c \in Calls, TakeRow(c)  PROVE IInv'
    <2> DEFINE w    == Worded(call[c].answer)
               view == [shown EXCEPT ![call[c].id] = w]
    <2>1. /\ call' = [call EXCEPT ![c] = NoCall] /\ UNCHANGED <<incarnation, hostVars, poll, reloads>>
          /\ shown' = view \/ shown' = Doubt(view)
          /\ dock' \in {Settled(call[c].id), [Settled(call[c].id) EXCEPT !.draft = 0]}
      BY <1>19 DEF TakeRow, Done
    <2>2. w \in Words /\ DockWord(call[c].id, w) /\ call[c].id \in Ids
      <3>1. call[c].answer \in Known \ {"none"} /\ Holds(call[c].id, call[c].answer) /\ call[c].id \in Ids
        BY <1>2, <1>19 DEF TakeRow, Arrive, IsRow, IInv, AnswersTrue, AnswerTrue, Carried, Call
      <3> QED  BY <3>1, DockWords
    <2> HIDE DEF w
    <2>3. view \in [Ids -> Words] /\ \A i \in Ids : DockWord(i, view[i])
      BY <1>4, <2>2
    <2> HIDE DEF view
    <2>4. shown' \in [Ids -> Words] /\ \A i \in Ids : DockWord(i, shown'[i])
      BY <2>1, <2>3, DoubtTrue
    <2>5. /\ dock' \in DockRecord /\ dock'.rev = dock.rev
          /\ dock'.edits = dock.edits /\ dock'.touches = dock.touches
      <3>1. Settled(call[c].id) \in DockRecord
        BY <1>18
      <3> QED  BY <1>18, <2>1, <3>1, TextLeaves, ZenonT(40)
    <2> QED  BY <1>3, <1>14, <2>1, <2>4, <2>5
  <1>20. ASSUME NEW c \in Calls, TakeError(c) \/ SendBreaks(c)  PROVE IInv'
    <2> DEFINE view == [shown EXCEPT ![call[c].id] = "unknown"]
    <2>1. /\ UNCHANGED <<incarnation, hostVars, poll, reloads>> /\ Carried(c)
          /\ shown' = Doubt(view) /\ dock' = Settled(call[c].id)
      BY <1>20 DEF TakeError, SendBreaks, HangUp, RequestFails, Waiting, Arrive, Carried
    <2>2. view \in [Ids -> Words] /\ \A i \in Ids : DockWord(i, view[i])
      BY <1>4, <1>6
    <2> HIDE DEF view
    <2>3. shown' \in [Ids -> Words] /\ \A i \in Ids : DockWord(i, shown'[i])
      BY <2>1, <2>2, DoubtTrue
    <2>4. /\ dock' \in DockRecord /\ dock'.rev = dock.rev
          /\ dock'.edits = dock.edits /\ dock'.touches = dock.touches
      BY <1>18, <2>1
    <2>5. CASE call' = [call EXCEPT ![c] = NoCall]
      BY <1>3, <1>14, <2>1, <2>3, <2>4, <2>5
    <2>6. CASE call' = [call EXCEPT ![c] = [@ EXCEPT !.open = FALSE]]
      <3> DEFINE k == [call[c] EXCEPT !.open = FALSE]
      <3>1. /\ k \in Call /\ k.at = call[c].at /\ k.id = call[c].id /\ k.answer = call[c].answer
            /\ k.press = call[c].press /\ call' = [call EXCEPT ![c] = k]
        BY <1>2, <2>6 DEF Call
      <3>2. dock.edits <= 1 => k.id = Revision(k.press[1])
        BY <1>1, <2>1, <3>1 DEF DockInv, IdsByWindow
      <3> HIDE DEF k
      <3>3. Sets(c, k) /\ Surface  BY <1>3, <2>1, <3>1 DEF Sets, Surface
      <3>4. k.at \in {"wire", "held", "answered"}  BY <2>1, <3>1 DEF Carried
      <3> QED  BY <1>3, <2>1, <2>3, <2>4, <3>2, <3>3, <3>4, DockCallKeeps
    <2> QED  BY <1>20, <2>5, <2>6 DEF TakeError, SendBreaks, HangUp, Done
  <1>21. CASE Reload
    <2>1. /\ UNCHANGED <<incarnation, hostVars>> /\ poll' = RestPoll /\ shown' = [i \in Ids |-> "none"]
          /\ call' = [c \in Calls |-> IF call[c].at \in {"wire", "held"}
                                        THEN [call[c] EXCEPT !.open = FALSE] ELSE NoCall]
      BY <1>21 DEF Reload
    <2>2. \A i \in Ids : shown'[i] = "none" /\ "none" \in Words  BY <2>1 DEF Words
    <2>3. ASSUME NEW c \in Calls
          PROVE  /\ call'[c] \in Call
                 /\ \/ call'[c].at = "idle"
                    \/ /\ call[c].at \in {"wire", "held"} /\ call'[c].at = call[c].at
                       /\ call'[c].id = call[c].id /\ call'[c].press = call[c].press
      BY <1>2, <2>1 DEF Call
    <2>4. DeskTypes' /\ RowsTrue'
      BY <2>1, <2>2, <2>3 DEF IInv, DeskTypes, RowsTrue, hostVars
    <2>5. AnswersTrue'
      BY <2>1, <2>3 DEF IInv, AnswersTrue, AnswerTrue, Carried, hostVars
    <2>6. ShownTrue'
      BY <2>2 DEF ShownTrue, TrueWord
    <2>7. /\ dock' = [NewWindow EXCEPT !.draft = dock.draft, !.edits = dock.edits,
                                       !.touches = dock.touches + 1]
          /\ reloads' = reloads + 1 /\ dock.touches < MaxTouches /\ reloads \in Nat
      BY <1>1, <1>21 DEF Reload, DockInv
    <2>8. /\ dock' \in DockRecord /\ dock'.rev = 0 /\ dock'.edits = dock.edits
          /\ dock'.rev <= dock'.touches + 1 /\ dock'.touches <= MaxTouches
      <3>1. dock.draft \in Nat /\ dock.edits \in Nat \ {0} /\ dock.touches \in Nat /\ dock.touches + 1 \in Nat
        BY <1>3 DEF DockRecord
      <3>2. dock' = [rev |-> 0, draft |-> dock.draft, edits |-> dock.edits, touches |-> dock.touches + 1,
                     inFlight |-> {}]
        BY <2>7 DEF NewWindow
      <3>3. dock' \in DockRecord  BY <3>1, <3>2 DEF DockRecord
      <3>4. dock'.rev = 0 /\ dock'.edits = dock.edits /\ dock'.touches = dock.touches + 1
        BY <3>2
      <3> QED  BY <1>5, <2>7, <3>1, <3>3, <3>4
    <2>9. dock'.edits <= 1 => IdsByWindow'
      <3> SUFFICES ASSUME dock'.edits <= 1  PROVE IdsByWindow'
        OBVIOUS
      <3>1. IdsByWindow  BY <1>1, <2>8 DEF DockInv
      <3>2. dock'.rev = Revision(reloads')  BY <2>7, <2>8 DEF Revision
      <3>3. ASSUME NEW c \in Calls
            PROVE  /\ Carried(c)' => call'[c].id = Revision(call'[c].press[1])
                   /\ Live(c)' => Carried(c)'
        BY <2>3, <3>1 DEF IdsByWindow, Carried, Live
      <3> QED  BY <2>1, <3>1, <3>2, <3>3 DEF IdsByWindow, Revision, hostVars
    <2>10. \A i \in Ids : Holds(i, poll.rows[i])'
      BY <1>7, <2>1 DEF Holds, hostVars
    <2>11. DockInv'
      BY <1>7, <2>1, <2>2, <2>7, <2>8, <2>9, <2>10 DEF DockInv, DockRecord, PollRecord
    <2> QED  BY <2>4, <2>5, <2>6, <2>11 DEF IInv, SurfaceInv
  <1> QED
    BY <1>8, <1>9, <1>10, <1>11, <1>12, <1>13, <1>15, <1>16, <1>17, <1>19, <1>20, <1>21 DEF DockNext
----------------------------------------------------------------------------
\* The task, and all surfaces.

\* A surface that follows the journal sends nothing.
LEMMA FollowingKeeps ==
  ASSUME IInv, device \in Followers, UNCHANGED <<sendVars, device>>, incarnation' \in Nat
  PROVE  IInv'
  <1> USE DEF sendVars, deskVars, hostVars
  <1>1. DeskTypes' /\ RowsTrue' /\ AnswersTrue' /\ ShownTrue'
    BY
      DEF IInv, DeskTypes, RowsTrue, AnswersTrue, AnswerTrue, Carried, Holds, ShownTrue, TrueWord,
          Dead
  <1>2. SurfaceInv'
    BY DEF IInv, SurfaceInv, Quiet, Live, Followers
  <1> QED  BY <1>1, <1>2 DEF IInv

\* The invariant holds at first, whatever surface is chosen.
THEOREM DeviceInitial == Init => IInv
  <1> SUFFICES ASSUME Init  PROVE IInv
    OBVIOUS
  <1> USE DEF Init
  <1>1. /\ incarnation = 1 /\ \A i \in Ids : status[i] = "none" /\ delivered[i] = 0 /\ shown[i] = "none"
        /\ \A c \in Calls : call[c] = NoCall
        /\ status \in [Ids -> {"none"}] /\ delivered \in [Ids -> {0}] /\ shown \in [Ids -> {"none"}]
    BY DEF LogInit, DeskInit, P!Init
  <1>2. NoCall \in Call /\ NoCall.at = "idle"
    BY DEF Call, NoCall, Places, Press, Known
  <1>3. row \in [Ids -> Row] /\ call \in [Calls -> Call]
    BY <1>2 DEF DeskInit, NoRow, Row, Press
  <1>4. DeskTypes /\ RowsTrue
    BY <1>1, <1>3 DEF DeskTypes, RowsTrue, Known, Words
  <1>5. AnswersTrue /\ ShownTrue
    BY <1>1, <1>2 DEF AnswersTrue, AnswerTrue, Carried, ShownTrue, TrueWord
  <1>6. \A c \in Calls : ~Live(c) /\ ~Carried(c) /\ call[c].at = "idle"
    BY <1>1, <1>2 DEF Live, Carried
  <1>7. \A n \in Nat : OneOwner(n)
    BY <1>1, <1>6 DEF OneOwner, PressOfOneRow, PressOfOneCall
  <1>8. AgentInv
    BY <1>1, <1>7 DEF AgentInv
  <1>9. PhoneInv
    BY <1>1, <1>6, <1>7 DEF PhoneInv, PhoneSendInit, NoRecall, Known, Holds, P!Terminal
  <1>10. DockInv
    <2>1. dock = [rev |-> 1, draft |-> 1, edits |-> 1, touches |-> 0, inFlight |-> {}] /\ reloads = 0
          /\ poll = RestPoll
      BY DEF DockInit, NewWindow
    <2>2. \A i \in Ids : Holds(i, poll.rows[i])
      BY <2>1 DEF RestPoll, Holds, P!Terminal
    <2>3. IdsByWindow
      BY <1>1, <1>6, <2>1 DEF IdsByWindow, Revision
    <2> QED  BY <1>1, <2>1, <2>2, <2>3, DockAssumption DEF DockInv, RestPoll, Known
  <1>11. Quiet
    BY <1>1, <1>6 DEF Quiet
  <1> QED  BY <1>4, <1>5, <1>8, <1>9, <1>10, <1>11 DEF IInv, SurfaceInv

\* Every step keeps the invariant.
LEMMA DevicesInductive == IInv /\ [Next]_vars => IInv'
  <1> SUFFICES ASSUME IInv, [Next]_vars  PROVE IInv'
    OBVIOUS
  <1>1. incarnation \in Nat  BY DEF IInv, DeskTypes
  <1>2. CASE Journal
    BY <1>1, <1>2, FollowingKeeps DEF Journal, Following, AppendEvent, Rotate
  <1>3. CASE Desktop
    <2>1. incarnation' \in Nat
      BY <1>1, <1>3
        DEF Desktop, MacNext, Pull, Record, ApplyPage, DropStale, PullFails, Reconnect, Navigate,
            Open, Adopt,
           RequestFails, logVars
    <2> QED  BY <1>3, <2>1, FollowingKeeps DEF Desktop, Following
  <1>4. CASE Phone
    <2>1. incarnation' \in Nat
      BY <1>1, <1>4
        DEF Phone, PhoneNext, CatchUp, TakePage, TakeRecord, Disown, CatchUpFails, Select,
           RequestFails, logVars
    <2> QED  BY <1>4, <2>1, FollowingKeeps, SMTT(30) DEF Phone, Following
  <1>5. CASE Host
    BY <1>5, HostKeeps DEF Host, Sending, surfaces
  <1>6. CASE Dock
    BY <1>6, DockKeeps DEF Dock, Sending
  <1>7. CASE Agent
    BY <1>7, AgentKeeps DEF Agent, Sending
  <1>8. CASE Composer
    BY <1>8, PhoneKeeps DEF Composer, Sending
  <1>9. CASE UNCHANGED vars
    <2>1. CASE device \in Followers
      BY <1>1, <1>9, <2>1, FollowingKeeps DEF vars, logVars
    <2>2. RowsGoOn
      BY <1>9
        DEF vars, logVars, sendVars, deskVars, hostVars, surfaces, RowsGoOn, IInv, DeskTypes,
            RowsTrue
    <2> QED  BY <2>2, RowsGoOnKeeps
  <1> QED  BY <1>2, <1>3, <1>4, <1>5, <1>6, <1>7, <1>8, <1>9 DEF Next

\* What may be on its way, at every moment and for every instance: the theorems
\* below follow from it.
THEOREM DevicesInvariance == Spec => []IInv
  BY DeviceInitial, DevicesInductive, PTL DEF Spec

\* Clicked twice, refused and sent again, answered late or never: what the user
\* sends once runs at most once (shouldDispatch, commandFailurePlan, the retry of
\* a turn).
THEOREM OncePerPress == Spec => []RunsOnce
  <1>1. ASSUME IInv  PROVE RunsOnce
    <2> SUFFICES ASSUME device = "dock" => dock.edits <= 1, NEW i \in Ids, NEW j \in Ids,
                        delivered[i] = 1, delivered[j] = 1, row[i].press = row[j].press
                 PROVE  i = j
      BY DEF RunsOnce
    <2>1. status[i] # "none" /\ status[j] # "none"
      BY <1>1 DEF IInv, RowsTrue
    <2>2. CASE device = "agent"
      BY <1>1, <2>1, <2>2 DEF IInv, SurfaceInv, AgentInv, OneOwner, PressOfOneRow
    <2>3. CASE device = "composer"
      BY <1>1, <2>1, <2>3 DEF IInv, SurfaceInv, PhoneInv, OneOwner, PressOfOneRow
    <2>4. CASE device = "dock"
      BY <1>1, <2>1, <2>4 DEF IInv, SurfaceInv, DockInv, IdsByWindow
    <2>5. CASE device \notin {"agent", "composer", "dock"}
      BY <1>1, <2>1, <2>5 DEF IInv, SurfaceInv, Quiet
    <2> QED  BY <2>2, <2>3, <2>4, <2>5
  <1> QED  BY <1>1, DevicesInvariance, PTL

\* "Not dispatched", "accepted" and an end are shown only when they are so at the
\* host, also while rows, refusals and errors arrive late.
THEOREM WordsAreTrue == Spec => []ShownIsTrue
  <1>1. ASSUME IInv  PROVE ShownIsTrue
    <2> SUFFICES ASSUME NEW i \in Ids
                 PROVE  /\ shown[i] = "not_dispatched" => delivered[i] = 0
                        /\ shown[i] = "accepted" => delivered[i] = 1
                        /\ shown[i] \in {"completed", "failed"} => status[i] = shown[i]
      BY DEF ShownIsTrue
    <2>1. TrueWord(i, shown[i]) /\ delivered[i] \in {0, 1}
      BY <1>1 DEF IInv, ShownTrue, DeskTypes
    <2>2. Dead(i) => delivered[i] = 0
      BY <1>1, <2>1 DEF IInv, RowsTrue, Dead
    <2> QED  BY <2>1, <2>2 DEF TrueWord
  <1> QED  BY <1>1, DevicesInvariance, PTL

----------------------------------------------------------------------------
\* The events a device takes of a page can be put in order.

Ordered(S, s) ==
  /\ s \in [1 .. Cardinality(S) -> S]
  /\ \A j, k \in 1 .. Cardinality(S) : j < k => s[j] < s[k]

CanOrder(n) == \A S \in SUBSET (1 .. n) : \E s : Ordered(S, s)

LEMMA BoundedIsFinite == ASSUME NEW n \in Nat, NEW S \in SUBSET (1 .. n)  PROVE IsFiniteSet(S)
  <1>1. 1 \in Int /\ n \in Int
    OBVIOUS
  <1>2. IsFiniteSet(1 .. n)
    BY <1>1, FS_Interval
  <1> QED  BY <1>2, FS_Subset

\* The greatest member is put behind the others.
LEMMA OrderOneMore ==
  ASSUME NEW m \in Nat \ {0}, CanOrder(m - 1)
  PROVE  CanOrder(m)
  <1> SUFFICES ASSUME NEW S \in SUBSET (1 .. m)  PROVE \E s : Ordered(S, s)
    BY DEF CanOrder
  <1>1. CASE m \notin S
    <2>1. S \in SUBSET (1 .. (m - 1))
      BY <1>1
    <2> QED  BY <2>1 DEF CanOrder
  <1>2. CASE m \in S
    <2> DEFINE U == S \ {m}
    <2>1. U \in SUBSET (1 .. (m - 1))
      OBVIOUS
    <2>2. IsFiniteSet(S)
      BY BoundedIsFinite
    <2>3. Cardinality(S) \in Nat /\ Cardinality(U) = Cardinality(S) - 1 /\ Cardinality(U) \in Nat
      BY <1>2, <2>2, FS_RemoveElement, FS_CardinalityType
    <2> HIDE DEF U
    <2>4. PICK s : Ordered(U, s)
      BY <2>1 DEF CanOrder
    <2> DEFINE t == [k \in 1 .. Cardinality(S) |-> IF k <= Cardinality(U) THEN s[k] ELSE m]
    <2>5. ASSUME NEW k \in 1 .. Cardinality(S)
          PROVE  /\ k <= Cardinality(U) => k \in 1 .. Cardinality(U) /\ t[k] = s[k] /\ s[k] \in U
                 /\ ~(k <= Cardinality(U)) => k = Cardinality(S) /\ t[k] = m
      BY <2>3, <2>4 DEF Ordered
    <2>6. t \in [1 .. Cardinality(S) -> S]
      BY <1>2, <2>5 DEF U
    <2>7. ASSUME NEW j \in 1 .. Cardinality(S), NEW k \in 1 .. Cardinality(S), j < k
          PROVE  t[j] < t[k]
      <3>1. j <= Cardinality(U)
        BY <2>3, <2>7
      <3>2. t[j] = s[j] /\ s[j] \in 1 .. (m - 1)
        BY <2>1, <2>5, <3>1
      <3>3. CASE k <= Cardinality(U)
        BY <2>4, <2>5, <2>7, <3>1, <3>2, <3>3 DEF Ordered
      <3>4. CASE ~(k <= Cardinality(U))
        BY <2>5, <3>2, <3>4
      <3> QED  BY <3>3, <3>4
    <2> HIDE DEF t
    <2> QED  BY <2>6, <2>7 DEF Ordered
  <1> QED  BY <1>1, <1>2

LEMMA EveryOrder == \A n \in Nat : CanOrder(n)
  <1> SUFFICES ASSUME {n \in Nat : ~CanOrder(n)} # {}  PROVE FALSE
    OBVIOUS
  <1> DEFINE R == OpToRel(<, Nat)
  <1>1. \A v, w \in Nat : <<v, w>> \in R <=> v < w
    BY DEF OpToRel
  <1>2. IsWellFoundedOn(R, Nat)
    BY NatLessThanWellFounded
  <1> HIDE DEF R
  <1>3. PICK m \in Nat : ~CanOrder(m) /\ \A v \in {n \in Nat : ~CanOrder(n)} : ~(<<v, m>> \in R)
    <2> DEFINE T == {n \in Nat : ~CanOrder(n)}
    <2>1. T # {} /\ T \in SUBSET Nat
      OBVIOUS
    <2>2. \E m \in T : \A v \in T : ~(<<v, m>> \in R)
      BY <1>2, <2>1, WFMin
    <2> QED  BY <2>2
  <1>4. CASE m = 0
    <2>1. \A S \in SUBSET (1 .. m) : S = {}
      BY <1>4
    <2>2. Ordered({}, [k \in 1 .. 0 |-> k])
      BY FS_EmptySet DEF Ordered
    <2> QED  BY <1>3, <2>1, <2>2 DEF CanOrder
  <1>5. CASE m # 0
    <2>1. m - 1 \in Nat /\ m - 1 < m
      BY <1>5
    <2>2. CanOrder(m - 1)
      BY <1>1, <1>3, <2>1
    <2> QED  BY <1>3, <1>5, <2>2, OrderOneMore
  <1> QED  BY <1>4, <1>5

\* InOrder gives the members of S in increasing order.
LEMMA InOrderFact ==
  ASSUME NEW n \in Nat, NEW S \in SUBSET (1 .. n)
  PROVE  /\ InOrder(S) \in Seq(S) /\ Increasing(InOrder(S))
         /\ \A k \in 1 .. Len(InOrder(S)) : InOrder(S)[k] \in S
  <1>1. \E s : Ordered(S, s)
    BY EveryOrder DEF CanOrder
  <1>2. Ordered(S, InOrder(S))
    BY <1>1 DEF Ordered, InOrder
  <1>3. Cardinality(S) \in Nat
    BY BoundedIsFinite, FS_CardinalityType
  <1>4. InOrder(S) \in Seq(S) /\ Len(InOrder(S)) = Cardinality(S)
    BY <1>2, <1>3 DEF Ordered
  <1> QED  BY <1>2, <1>3, <1>4 DEF Ordered, Increasing

----------------------------------------------------------------------------
\* What the followers show.  A page under way was cut from a journal that only
\* grows; the desktop's begins at or behind its cursor, because nothing moves
\* the cursor forward while it is under way.

Page == [from : Nat, last : Nat, more : BOOLEAN]
ShownView == [inc : Nat, cursor : Nat, shown : Seq(Nat)]

ViewOK(v) ==
  /\ v \in ShownView /\ Increasing(v.shown)
  /\ \A k \in 1 .. Len(v.shown) : v.shown[k] \in 1 .. v.cursor
  /\ v.cursor <= Len(log)

PageOK(p) == p \in Page /\ p.from <= p.last /\ p.last <= Len(log)

JournalOK == log \in Seq(Nat) /\ incarnation \in Nat

MacOK ==
  /\ ViewOK(mac) /\ PageOK(pull.page)
  /\ pull \in [at : {"idle", "record", "page"}, rec : Nat, page : Page, stale : BOOLEAN]
  /\ pull.at = "page" => mac.cursor <= pull.page.from

Fetch == [at : {"idle", "page", "record"}, inc : Nat, page : Page, pages : Nat, rec : Nat]

PhoneOK ==
  /\ ViewOK(phone)
  /\ fetch \in [Catchups -> Fetch]
  /\ \A f \in Catchups : PageOK(fetch[f].page)

FeedInv == JournalOK /\ MacOK /\ PhoneOK

\* What a sequence is with another one behind it.
LEMMA Joined ==
  ASSUME NEW a \in Seq(Nat), NEW b \in Seq(Nat)
  PROVE  /\ a \o b \in Seq(Nat) /\ Len(a \o b) = Len(a) + Len(b)
         /\ Len(a) \in Nat /\ Len(b) \in Nat
         /\ \A k \in 1 .. Len(a) : (a \o b)[k] = a[k]
         /\ \A k \in 1 .. Len(b) : (a \o b)[Len(a) + k] = b[k]
  OBVIOUS

\* Events beyond the cursor may be added behind the others.
LEMMA ShownGrows ==
  ASSUME NEW v, ViewOK(v), NEW page, PageOK(page), JournalOK,
         NEW S \in SUBSET Events(page), \A i \in S : i > v.cursor,
         NEW w, w = [v EXCEPT !.shown = @ \o InOrder(S),
                              !.cursor = IF @ > page.last THEN @ ELSE page.last]
  PROVE  ViewOK(w)
  <1> DEFINE new == InOrder(S)
  <1>1. page.last \in Nat /\ page.from \in Nat /\ v.cursor \in Nat /\ v.shown \in Seq(Nat)
    BY DEF PageOK, Page, ViewOK, ShownView
  <1>2. S \in SUBSET (1 .. page.last)
    BY <1>1 DEF Events
  <1>3. new \in Seq(S) /\ Increasing(new) /\ \A k \in 1 .. Len(new) : new[k] \in S
    BY <1>1, <1>2, InOrderFact
  <1> HIDE DEF new
  <1>4. new \in Seq(Nat)
    BY <1>2, <1>3
  <1>5. w.shown = v.shown \o new
    BY DEF ViewOK, ShownView, new
  <1> DEFINE n == Len(v.shown)
  <1>6. /\ w.shown \in Seq(Nat) /\ Len(w.shown) = n + Len(new) /\ n \in Nat /\ Len(new) \in Nat
        /\ \A k \in 1 .. n : w.shown[k] = v.shown[k]
        /\ \A k \in 1 .. Len(new) : w.shown[n + k] = new[k]
    <2> DEFINE a == v.shown
    <2>1. a \in Seq(Nat) /\ w.shown = a \o new /\ n = Len(a)
      BY <1>1, <1>5
    <2> HIDE DEF a, n
    <2>2. /\ a \o new \in Seq(Nat) /\ Len(a \o new) = Len(a) + Len(new)
          /\ Len(a) \in Nat /\ Len(new) \in Nat
          /\ \A k \in 1 .. Len(a) : (a \o new)[k] = a[k]
          /\ \A k \in 1 .. Len(new) : (a \o new)[Len(a) + k] = new[k]
      BY <1>4, <2>1, Joined
    <2> QED  BY <2>1, <2>2 DEF a
  <1> HIDE DEF n
  <1>7. w.cursor = IF v.cursor > page.last THEN v.cursor ELSE page.last
    BY DEF ViewOK, ShownView
  <1>8. w.cursor \in Nat /\ w.cursor >= v.cursor /\ w.cursor >= page.last
    BY <1>1, <1>7
  <1>9. w.cursor <= Len(log)
    BY <1>7 DEF ViewOK, PageOK
  <1>10. w \in ShownView
    <2>1. w.inc = v.inc /\ DOMAIN w = DOMAIN v
      BY DEF ViewOK, ShownView
    <2> QED  BY <1>6, <1>8, <2>1 DEF ViewOK, ShownView
  <1>11. \A k \in 1 .. n : w.shown[k] \in 1 .. v.cursor
    BY <1>6 DEF ViewOK, n
  <1>12. \A k \in 1 .. Len(new) : w.shown[n + k] \in S
    BY <1>3, <1>6
  <1>13. \A x \in 1 .. v.cursor, y \in S : x < y
    <2> SUFFICES ASSUME NEW x \in 1 .. v.cursor, NEW y \in S  PROVE x < y
      OBVIOUS
    <2>1. y > v.cursor /\ y \in Nat
      BY <1>1, <1>2
    <2> QED  BY <1>1, <2>1
  <1>14. ASSUME NEW k \in 1 .. Len(w.shown)
         PROVE  k \in 1 .. n \/ \E j \in 1 .. Len(new) : k = n + j
    <2>1. CASE k <= n
      BY <1>6, <2>1
    <2>2. CASE ~(k <= n)
      <3>1. k - n \in 1 .. Len(new) /\ k = n + (k - n)
        BY <1>6, <2>2
      <3> QED  BY <3>1
    <2> QED  BY <2>1, <2>2
  <1>15. \A k \in 1 .. Len(w.shown) : w.shown[k] \in 1 .. w.cursor
    <2>1. 1 .. v.cursor \subseteq 1 .. w.cursor /\ S \subseteq 1 .. w.cursor
      BY <1>1, <1>2, <1>8
    <2> QED  BY <1>11, <1>12, <1>14, <2>1
  <1>16. Increasing(w.shown)
    <2> SUFFICES ASSUME NEW k \in 1 .. (Len(w.shown) - 1)  PROVE w.shown[k] < w.shown[k + 1]
      BY DEF Increasing
    <2>1. CASE k \in 1 .. n /\ k # n
      <3>1. k \in 1 .. (n - 1) /\ k + 1 \in 1 .. n
        BY <1>6, <2>1
      <3>2. v.shown[k] < v.shown[k + 1]
        BY <3>1 DEF ViewOK, Increasing, n
      <3> QED  BY <1>6, <2>1, <3>1, <3>2
    <2>2. CASE k = n /\ n \in 1 .. n
      <3>1. 1 \in 1 .. Len(new)
        BY <1>6, <2>2
      <3>2. w.shown[k] \in 1 .. v.cursor /\ w.shown[k + 1] \in S
        BY <1>11, <1>12, <2>2, <3>1
      <3> QED  BY <1>13, <3>2
    <2>3. CASE k \notin 1 .. n
      <3>1. PICK j \in 1 .. (Len(new) - 1) : k = n + j
        <4>1. k - n \in 1 .. (Len(new) - 1) /\ k = n + (k - n)
          BY <1>6, <2>3
        <4> QED  BY <4>1
      <3>2. j \in 1 .. Len(new) /\ j + 1 \in 1 .. Len(new) /\ k + 1 = n + (j + 1)
        BY <1>6, <3>1
      <3>3. w.shown[k] = new[j] /\ w.shown[k + 1] = new[j + 1]
        BY <1>6, <3>1, <3>2
      <3> QED  BY <1>3, <3>1, <3>3 DEF Increasing
    <2> QED  BY <2>1, <2>2, <2>3
  <1> QED  BY <1>9, <1>10, <1>15, <1>16 DEF ViewOK

\* Nothing that was shown, and no page under way, is affected by a longer journal.
LEMMA LongerJournal ==
  ASSUME JournalOK, JournalOK', Len(log) <= Len(log')
  PROVE  /\ \A v : ViewOK(v) => v \in ShownView /\ Increasing(v.shown)
                   /\ (\A k \in 1 .. Len(v.shown) : v.shown[k] \in 1 .. v.cursor)
                   /\ v.cursor <= Len(log')
         /\ \A p : PageOK(p) => p \in Page /\ p.from <= p.last /\ p.last <= Len(log')
  <1>1. Len(log) \in Nat /\ Len(log') \in Nat
    BY DEF JournalOK
  <1> QED  BY <1>1 DEF ViewOK, PageOK, ShownView, Page

LEMMA JournalGrows ==
  ASSUME JournalOK, AppendEvent \/ Rotate \/ RequestFails \/ UNCHANGED logVars
  PROVE  JournalOK' /\ Len(log) <= Len(log')
  <1>1. CASE AppendEvent
    BY <1>1 DEF AppendEvent, JournalOK
  <1>2. CASE Rotate \/ RequestFails \/ UNCHANGED logVars
    <2>1. log' = log /\ incarnation' \in Nat
      BY <1>2 DEF Rotate, RequestFails, logVars, JournalOK
    <2> QED  BY <2>1 DEF JournalOK
  <1> QED  BY <1>1, <1>2

\* While nobody follows, and while the journal grows, the followers rest.
LEMMA FollowersRest ==
  ASSUME FeedInv, AppendEvent \/ Rotate \/ RequestFails \/ UNCHANGED logVars, UNCHANGED feedVars
  PROVE  FeedInv'
  <1>1. JournalOK' /\ Len(log) <= Len(log')
    BY JournalGrows DEF FeedInv
  <1>2. UNCHANGED <<mac, pull, phone, fetch>>
    BY DEF feedVars, macVars, phoneVars
  <1>3. ViewOK(mac)' /\ ViewOK(phone)' /\ PageOK(pull.page)' /\ \A f \in Catchups : PageOK(fetch[f].page)'
    BY <1>1, <1>2, LongerJournal DEF FeedInv, MacOK, PhoneOK, ViewOK, PageOK
  <1> QED  BY <1>1, <1>2, <1>3 DEF FeedInv, MacOK, PhoneOK

LEMMA PagesAreOK ==
  ASSUME JournalOK, NEW n \in Nat, n <= Len(log), NEW p \in Pages(n)
  PROVE  PageOK(p) /\ p.from = n
  <1>1. PICK m \in n .. (n + PageSize) : m <= Len(log) /\ p = [from |-> n, last |-> m, more |-> m < Len(log)]
    BY DEF Pages
  <1>2. Len(log) \in Nat /\ PageSize \in Nat
    BY LogAssumption DEF JournalOK
  <1> QED  BY <1>1, <1>2 DEF PageOK, Page

LEMMA ViewIsOK ==
  ASSUME JournalOK, NEW i \in Nat
  PROVE  ViewOK([inc |-> i, cursor |-> 0, shown |-> <<>>])
  <1>1. Len(log) \in Nat
    BY DEF JournalOK
  <1> QED  BY <1>1 DEF ViewOK, ShownView, Increasing

LEMMA DesktopFeedKeeps ==
  ASSUME FeedInv, MacNext, UNCHANGED <<phone, fetch>>
  PROVE  FeedInv'
  <1> USE DEF FeedInv
  <1>1. JournalOK' /\ Len(log) <= Len(log')
    BY JournalGrows
      DEF MacNext, Pull, Record, ApplyPage, DropStale, PullFails, Reconnect, Navigate, Open, Adopt
  <1>2. PhoneOK'
    <2>1. ViewOK(phone)' /\ \A f \in Catchups : PageOK(fetch[f].page)'
      BY <1>1, LongerJournal DEF PhoneOK, ViewOK, PageOK
    <2> QED  BY <2>1 DEF PhoneOK
  <1>3. PageOK(NoPage) /\ NoPull.page = NoPage
        /\ NoPull \in [at : {"idle", "record", "page"}, rec : Nat, page : Page, stale : BOOLEAN]
    BY DEF PageOK, Page, NoPage, NoPull, JournalOK
  <1>4. ASSUME NEW q, q = mac', ViewOK(q) PROVE ViewOK(mac)'
    BY <1>1, <1>4, LongerJournal DEF ViewOK
  <1>5. ASSUME NEW q, q = pull', PageOK(q.page) PROVE PageOK(pull.page)'
    BY <1>1, <1>5, LongerJournal DEF PageOK
  <1>6. CASE Pull
    <2>1. pull' = [NoPull EXCEPT !.at = "record", !.rec = incarnation] /\ mac' = mac
      BY <1>6 DEF Pull
    <2>2. /\ pull'.at = "record" /\ pull'.page = NoPage
          /\ pull' \in [at : {"idle", "record", "page"}, rec : Nat, page : Page, stale : BOOLEAN]
      BY <1>3, <2>1 DEF JournalOK, NoPull
    <2> QED  BY <1>1, <1>2, <1>3, <1>4, <1>5, <2>1, <2>2, ZenonT(40) DEF MacOK
  <1>7. CASE Record
    <2> DEFINE next == IF pull.rec # mac.inc THEN View(pull.rec) ELSE mac
    <2>1. PICK p \in Pages(next.cursor) : pull' = [pull EXCEPT !.at = "page", !.page = p] /\ mac' = next
      BY <1>7 DEF Record
    <2>2. ViewOK(next)
      BY ViewIsOK DEF MacOK, View
    <2> HIDE DEF next
    <2>3. next.cursor \in Nat /\ next.cursor <= Len(log)
      BY <2>2 DEF ViewOK, ShownView
    <2>4. PageOK(p) /\ p.from = next.cursor
      BY <2>1, <2>3, PagesAreOK
    <2>5. p \in Page
      BY <2>4 DEF PageOK
    <2>6. /\ pull'.page = p
          /\ pull' \in [at : {"idle", "record", "page"}, rec : Nat, page : Page, stale : BOOLEAN]
      BY <2>1, <2>5 DEF MacOK
    <2>7. ViewOK(mac)' /\ PageOK(pull.page)'
      BY <1>4, <1>5, <2>1, <2>2, <2>4, <2>6
    <2>8. mac'.cursor <= pull'.page.from
      BY <2>1, <2>3, <2>4, <2>6
    <2> QED  BY <1>1, <1>2, <2>6, <2>7, <2>8 DEF MacOK
  <1>8. CASE ApplyPage
    <2> DEFINE S == {i \in Events(pull.page) : Of(mac.inc, i)}
    <2>1. /\ mac' = [mac EXCEPT !.shown = @ \o InOrder(S),
                                !.cursor = IF @ > pull.page.last THEN @ ELSE pull.page.last]
          /\ pull' = NoPull
      BY <1>8 DEF ApplyPage
    <2>2. S \in SUBSET Events(pull.page)
      OBVIOUS
    <2>3. \A i \in S : i > mac.cursor
      BY <1>8 DEF ApplyPage, MacOK, Events, PageOK, Page, ViewOK, ShownView
    <2> HIDE DEF S
    <2>4. ASSUME NEW w, w = mac' PROVE ViewOK(w)
      BY <2>1, <2>2, <2>3, <2>4, ShownGrows DEF MacOK
    <2> QED  BY <1>1, <1>2, <1>3, <1>4, <1>5, <2>1, <2>4 DEF MacOK, NoPull
  <1>9. CASE DropStale \/ PullFails
    <2>1. pull' = NoPull /\ mac' = mac
      BY <1>9 DEF DropStale, PullFails
    <2> QED  BY <1>1, <1>2, <1>3, <1>4, <1>5, <2>1 DEF MacOK, NoPull
  <1>10. CASE Reconnect \/ Navigate
    <2>1. mac' = mac /\ pull' \in {pull, [pull EXCEPT !.stale = pull.at # "idle"]}
      BY <1>10 DEF Reconnect, Navigate
    <2> QED  BY <1>1, <1>2, <1>4, <1>5, <2>1 DEF MacOK
  <1>11. ASSUME NEW i \in 1 .. incarnation, Open(i) PROVE MacOK'
    <2>1. mac' = View(i) /\ pull' = pull /\ i \in Nat
      BY <1>11 DEF Open, JournalOK
    <2>2. ViewOK(View(i)) /\ View(i).cursor = 0
      BY <2>1, ViewIsOK DEF View
    <2> QED  BY <1>4, <1>5, <2>1, <2>2 DEF MacOK, PageOK, Page
  <1>12. ASSUME NEW i \in 1 .. incarnation, Adopt(i) PROVE MacOK'
    <2>1. mac' = [mac EXCEPT !.inc = i] /\ pull' = pull /\ i \in Nat
      BY <1>12 DEF Adopt, JournalOK
    <2>2. ASSUME NEW q, q = mac' PROVE ViewOK(q) /\ q.cursor = mac.cursor
      BY <2>1, <2>2 DEF MacOK, ViewOK, ShownView
    <2> QED  BY <1>4, <1>5, <2>1, <2>2 DEF MacOK
  <1> QED
    BY <1>1, <1>2, <1>6, <1>7, <1>8, <1>9, <1>10, <1>11, <1>12 DEF MacNext

LEMMA NextPageTyped ==
  ASSUME NEW q \in Fetch, NEW p \in Page
  PROVE  LET r == [q EXCEPT !.page = p, !.pages = @ + 1] IN r \in Fetch /\ r.page = p
  <1>1. q.pages + 1 \in Nat
    BY DEF Fetch
  <1> QED  BY <1>1 DEF Fetch

LEMMA PhoneFeedKeeps ==
  ASSUME FeedInv, PhoneNext, UNCHANGED <<mac, pull>>
  PROVE  FeedInv'
  <1> USE DEF FeedInv
  <1>1. JournalOK' /\ Len(log) <= Len(log')
    BY JournalGrows DEF PhoneNext, CatchUp, TakePage, TakeRecord, Disown, CatchUpFails, Select
  <1>2. MacOK'
    <2>1. ViewOK(mac)' /\ PageOK(pull.page)'
      BY <1>1, LongerJournal DEF MacOK, ViewOK, PageOK
    <2> QED  BY <2>1 DEF MacOK
  <1>3. ASSUME NEW v, v = phone', ViewOK(v),
               NEW f \in Catchups, NEW r \in Fetch, PageOK(r.page),
               fetch' = [fetch EXCEPT ![f] = r] \/ fetch' = fetch
        PROVE  FeedInv'
    <2>1. ViewOK(phone)'
      BY <1>1, <1>3, LongerJournal DEF ViewOK
    <2>2. fetch' \in [Catchups -> Fetch]
      BY <1>3 DEF PhoneOK
    <2>3. ASSUME NEW g \in Catchups PROVE PageOK(fetch[g].page)'
      <3>1. fetch'[g] = fetch[g] \/ fetch'[g] = r
        BY <1>3 DEF PhoneOK
      <3>2. ASSUME NEW p, p = fetch'[g].page PROVE PageOK(p)
        BY <1>3, <3>1, <3>2 DEF PhoneOK
      <3> QED  BY <1>1, <3>2, LongerJournal DEF PageOK
    <2> QED  BY <1>1, <1>2, <2>1, <2>2, <2>3 DEF PhoneOK
  <1>4. NoFetch \in Fetch /\ PageOK(NoFetch.page)
    BY DEF NoFetch, Fetch, Page, PageOK, JournalOK
  <1>5. ViewOK(phone) /\ phone.inc \in Nat /\ phone.cursor \in Nat /\ phone.cursor <= Len(log)
    BY DEF PhoneOK, ViewOK, ShownView
  <1>6. ASSUME NEW f \in Catchups, CatchUp(f) PROVE FeedInv'
    <2>1. PICK p \in Pages(phone.cursor) :
            fetch' = [fetch EXCEPT ![f] = [NoFetch EXCEPT !.at = "page", !.inc = phone.inc, !.page = p, !.pages = 1]]
      BY <1>6 DEF CatchUp, Set
    <2>2. PageOK(p) /\ p \in Page
      BY <1>5, PagesAreOK DEF PageOK
    <2> DEFINE r == [NoFetch EXCEPT !.at = "page", !.inc = phone.inc, !.page = p, !.pages = 1]
    <2>3. r \in Fetch /\ r.page = p
      BY <1>5, <2>2 DEF NoFetch, Fetch
    <2>4. fetch' = [fetch EXCEPT ![f] = r] /\ phone' = phone
      BY <1>6, <2>1 DEF CatchUp
    <2> HIDE DEF r
    <2> QED  BY <1>3, <1>5, <2>2, <2>3, <2>4
  <1>7. ASSUME NEW f \in Catchups, TakePage(f) PROVE FeedInv'
    <2>1. fetch[f] \in Fetch /\ PageOK(fetch[f].page) /\ fetch[f].pages \in Nat
      BY DEF PhoneOK, Fetch
    <2>2. ASSUME NEW v, v = phone' PROVE ViewOK(v)
      <3> DEFINE page == fetch[f].page
      <3> DEFINE S == {i \in Events(page) : Fresh(i, phone)}
      <3>1. \/ v = phone
            \/ v = [phone EXCEPT !.shown = @ \o InOrder(S),
                                 !.cursor = IF @ > page.last THEN @ ELSE page.last]
        BY <1>7, <2>2 DEF TakePage, Reduce
      <3>2. S \in SUBSET Events(page) /\ \A i \in S : i > phone.cursor
        BY DEF Fresh
      <3> HIDE DEF S, page
      <3>3. PageOK(page)
        BY <2>1 DEF page
      <3> QED  BY <1>5, <3>1, <3>2, <3>3, ShownGrows
    <2>3. CASE fetch[f].page.more /\ fetch[f].pages < PageCap
      <3>1. PICK p \in Pages(fetch[f].page.last) :
              fetch' = [fetch EXCEPT ![f] = [fetch[f] EXCEPT !.page = p, !.pages = @ + 1]]
        BY <1>7, <2>3 DEF TakePage, Set
      <3>2. PageOK(p) /\ p \in Page
        BY <2>1, PagesAreOK DEF PageOK, Page
      <3> DEFINE r == [fetch[f] EXCEPT !.page = p, !.pages = @ + 1]
      <3>3. r \in Fetch /\ r.page = p
        BY <2>1, <3>2, NextPageTyped
      <3>4. fetch' = [fetch EXCEPT ![f] = r]
        BY <3>1
      <3> HIDE DEF r
      <3> QED  BY <1>3, <2>2, <3>2, <3>3, <3>4
    <2>4. CASE ~(fetch[f].page.more /\ fetch[f].pages < PageCap)
      <3> DEFINE r == [fetch[f] EXCEPT !.at = "record", !.rec = incarnation]
      <3>1. r \in Fetch /\ r.page = fetch[f].page
        BY <2>1 DEF Fetch, JournalOK
      <3>2. fetch' = [fetch EXCEPT ![f] = r]
        BY <1>7, <2>4 DEF TakePage, Set
      <3> HIDE DEF r
      <3> QED  BY <1>3, <2>1, <2>2, <3>1, <3>2
    <2> QED  BY <2>3, <2>4
  <1>8. ASSUME NEW f \in Catchups, TakeRecord(f) PROVE FeedInv'
    <2>1. phone' = [phone EXCEPT !.inc = fetch[f].rec] /\ fetch' = [fetch EXCEPT ![f] = NoFetch]
          /\ fetch[f].rec \in Nat
      BY <1>8 DEF TakeRecord, Set, PhoneOK, Fetch
    <2>2. ASSUME NEW v, v = phone' PROVE ViewOK(v)
      BY <1>5, <2>1, <2>2 DEF ViewOK, ShownView
    <2> QED  BY <1>3, <1>4, <2>1, <2>2
  <1>9. ASSUME NEW f \in Catchups, Disown(f) \/ CatchUpFails(f) PROVE FeedInv'
    <2>1. phone' = phone /\ fetch' = [fetch EXCEPT ![f] = NoFetch]
      BY <1>9 DEF Disown, CatchUpFails, Set
    <2> QED  BY <1>3, <1>4, <1>5, <2>1
  <1>10. ASSUME NEW i \in 1 .. incarnation, Select(i) PROVE FeedInv'
    <2>1. phone' = Blank(i) /\ fetch' = fetch /\ i \in Nat
      BY <1>10 DEF Select, JournalOK
    <2>2. ViewOK(Blank(i))
      BY <2>1, ViewIsOK DEF Blank
    <2>3. ViewOK(phone)'
      BY <1>1, <2>1, <2>2, LongerJournal DEF ViewOK
    <2>4. \A f \in Catchups : PageOK(fetch[f].page)'
      BY <1>1, <2>1, LongerJournal DEF PhoneOK, PageOK
    <2> QED  BY <1>1, <1>2, <2>1, <2>3, <2>4 DEF PhoneOK
  <1> QED  BY <1>6, <1>7, <1>8, <1>9, <1>10, SMTT(30) DEF PhoneNext

\* A sending surface does not write the journal.
LEMMA SendersKeepLog ==
  ASSUME Host \/ Dock \/ Agent \/ Composer
  PROVE  (Rotate \/ RequestFails \/ UNCHANGED logVars) /\ UNCHANGED feedVars
  <1>1. UNCHANGED feedVars
    BY DEF Host, Dock, Agent, Composer, Sending
  <1>2. CASE Host
    <2>1. CASE Start \/ Launch \/ Started \/ StartFails
      BY <1>1, <2>1 DEF Start, Launch, Started, StartFails
    <2>2. CASE TaskEnds \/ OtherTurn \/ Advance
      BY <1>1, <2>2 DEF TaskEnds, OtherTurn, Advance
    <2>3. ASSUME NEW c \in Calls, Refuse(c) \/ Replay(c) \/ TurnAway(c) PROVE UNCHANGED logVars
      BY <2>3 DEF Refuse, Replay, TurnAway
    <2>4. ASSUME NEW c \in Calls, Claim(c) \/ Conclude(c) \/ Lost(c) PROVE UNCHANGED logVars
      BY <2>4 DEF Claim, Conclude, Lost
    <2> QED  BY <1>1, <1>2, <2>1, <2>2, <2>3, <2>4 DEF Host, DeskNext
  <1>3. CASE Dock
    <2>1. CASE Edit \/ ReadRows \/ ShowRows \/ PollBreaks \/ Redial \/ Reload
      BY <1>1, <2>1 DEF Edit, ReadRows, ShowRows, PollBreaks, Redial, Reload
    <2>2. ASSUME NEW c \in Calls, Click(c) \/ DockEnsured(c) \/ Dispatch(c) PROVE UNCHANGED logVars
      BY <2>2 DEF Click, DockEnsured, Ensured, Dispatch
    <2>3. ASSUME NEW c \in Calls, TakeRow(c) \/ TakeError(c) PROVE UNCHANGED logVars
      BY <2>3 DEF TakeRow, TakeError
    <2>4. ASSUME NEW c \in Calls, SendBreaks(c) \/ DockStartBreaks(c)
          PROVE  RequestFails \/ UNCHANGED logVars
      BY <2>4 DEF SendBreaks, HangUp, DockStartBreaks, EnsureBreaks
    <2> QED  BY <1>1, <1>3, <2>1, <2>2, <2>3, <2>4 DEF Dock, DockNext
  <1>4. CASE Agent
    <2>1. ASSUME NEW c \in Calls, Turn(c) \/ AgentEnsured(c) \/ Submit(c) \/ Retry(c) \/ FinishTurn(c)
          PROVE  UNCHANGED logVars
      BY <2>1 DEF Turn, AgentEnsured, Ensured, Submit, Retry, FinishTurn
    <2>2. ASSUME NEW c \in Calls, TurnBreaks(c) PROVE RequestFails \/ UNCHANGED logVars
      BY <2>2 DEF TurnBreaks, HangUp, EnsureBreaks
    <2> QED  BY <1>1, <1>4, <2>1, <2>2 DEF Agent, AgentNext
  <1>5. CASE Composer
    <2>1. CASE Paint \/ Recall \/ AbsorbAll
      BY <1>1, <2>1 DEF Paint, Recall, AbsorbAll
    <2>2. ASSUME NEW i \in 1 .. incarnation, Refresh(i) PROVE UNCHANGED logVars
      BY <2>2 DEF Refresh
    <2>3. ASSUME NEW c \in Calls, SendPrompt(c) \/ Absorb(c) \/ Refused(c) \/ Resend(c) \/ MarkUnknown(c)
          PROVE  UNCHANGED logVars
      BY <2>3 DEF SendPrompt, Absorb, Refused, Resend, MarkUnknown
    <2>4. ASSUME NEW c \in Calls, RefreshBreaks(c) \/ PromptBreaks(c) PROVE RequestFails
      BY <2>4 DEF RefreshBreaks, PromptBreaks, HangUp
    <2> QED  BY <1>1, <1>5, <2>1, <2>2, <2>3, <2>4 DEF Composer, PhoneSendNext
  <1> QED  BY <1>2, <1>3, <1>4, <1>5

\* What the followers hold, and the pages on their way to them, at every moment.
THEOREM FeedInvariance == Spec => []FeedInv
  <1>1. Init => FeedInv
    <2> SUFFICES ASSUME Init PROVE FeedInv
      OBVIOUS
    <2>1. log = <<>> /\ incarnation = 1 /\ JournalOK
      BY DEF Init, LogInit, JournalOK
    <2>2. ViewOK(mac) /\ ViewOK(phone)
      BY <2>1, ViewIsOK DEF Init, MacInit, PhoneInit, View, Blank
    <2>3. pull = NoPull /\ PageOK(NoPage) /\ \A f \in Catchups : fetch[f] = NoFetch
      BY <2>1 DEF Init, MacInit, PhoneInit, PageOK, Page, NoPage, JournalOK
    <2>4. MacOK
      BY <2>2, <2>3 DEF MacOK, NoPull, NoPage, Page
    <2>5. PhoneOK
      BY <2>2, <2>3 DEF PhoneOK, Init, PhoneInit, NoFetch, NoPage, Fetch, Page
    <2> QED  BY <2>1, <2>4, <2>5 DEF FeedInv
  <1>2. FeedInv /\ [Next]_vars => FeedInv'
    <2> SUFFICES ASSUME FeedInv, [Next]_vars PROVE FeedInv'
      OBVIOUS
    <2>1. CASE Journal
      BY <2>1, FollowersRest DEF Journal
    <2>2. CASE Desktop
      BY <2>2, DesktopFeedKeeps DEF Desktop, phoneVars
    <2>3. CASE Phone
      BY <2>3, PhoneFeedKeeps DEF Phone, macVars
    <2>4. CASE Host \/ Dock \/ Agent \/ Composer
      BY <2>4, SendersKeepLog, FollowersRest
    <2>5. CASE UNCHANGED vars
      BY <2>5, FollowersRest DEF vars
    <2> QED  BY <2>1, <2>2, <2>3, <2>4, <2>5 DEF Next
  <1> QED  BY <1>1, <1>2, PTL DEF Spec

\* Whatever pages overlap, come late or are started over, a follower shows events in
\* journal order, each once, and none beyond its cursor or the journal's end
\* (applyEventPage; reduceMobileState).
THEOREM OrderedOnce == Spec => []InOrderOnce
  <1>1. ASSUME NEW v, ViewOK(v)
        PROVE  /\ Increasing(v.shown) /\ v.cursor <= Len(log)
               /\ \A k \in DOMAIN v.shown : v.shown[k] \in 1 .. v.cursor
    <2>1. DOMAIN v.shown = 1 .. Len(v.shown)
      BY <1>1 DEF ViewOK, ShownView
    <2> QED  BY <1>1, <2>1 DEF ViewOK
  <1>2. FeedInv => InOrderOnce
    BY <1>1 DEF FeedInv, MacOK, PhoneOK, InOrderOnce
  <1> QED  BY <1>2, FeedInvariance, PTL

----------------------------------------------------------------------------
\* The host that the devices talk to is the one whose sessions CediaSession
\* models: its rows and deliveries keep CommandPromise as well.

\* The row of a command that is turned away is claimed and settled in one step
\* here: the device cannot look in between.
TurnedAway(i) ==
  /\ status[i] = "none" /\ delivered[i] = 0
  /\ status' = [status EXCEPT ![i] = "not_dispatched"] /\ UNCHANGED delivered

HostKeepsPromise == P!Init /\ [][P!Next \/ \E i \in Ids : TurnedAway(i)]_P!vars

LEMMA DeskStepKeepsPromise ==
  ASSUME IInv, DeskNext  PROVE P!Next \/ (\E i \in Ids : TurnedAway(i)) \/ UNCHANGED P!vars
  <1> USE DEF P!vars, hostVars
  <1>1. CASE Start \/ Launch \/ Started \/ StartFails \/ OtherTurn
    BY <1>1 DEF Start, Launch, Started, StartFails, OtherTurn
  <1>2. CASE TaskEnds
    BY <1>2 DEF TaskEnds, P!Next
  <1>3. CASE Advance
    <2>1. PICK i \in Ids : P!Deliver(i) \/ \E to \in P!Terminal \cup {"acknowledged"} : P!Settle(i, to)
      BY <1>3 DEF Advance
    <2> QED  BY <2>1 DEF P!Next
  <1>4. ASSUME NEW c \in Calls, Refuse(c) \/ Replay(c) \/ Conclude(c) \/ Lost(c)
        PROVE  UNCHANGED P!vars
    BY <1>4 DEF Refuse, Replay, Conclude, Lost
  <1>5. ASSUME NEW c \in Calls, Arrived(c)  PROVE call[c].id \in Ids
    BY <1>5 DEF Arrived, IInv, AnswersTrue, AnswerTrue, Carried
  <1>6. ASSUME NEW c \in Calls, Claim(c)  PROVE P!Next
    <2>1. P!Claim(call[c].id) /\ call[c].id \in Ids
      BY <1>5, <1>6 DEF Claim
    <2> QED  BY <2>1 DEF P!Next
  <1>7. ASSUME NEW c \in Calls, TurnAway(c)  PROVE \E i \in Ids : TurnedAway(i)
    <2> DEFINE i == call[c].id
    <2>1. i \in Ids /\ status[i] = "none"
      BY <1>5, <1>7 DEF TurnAway, NewId
    <2>2. delivered[i] = 0
      BY <2>1 DEF IInv, RowsTrue, DeskTypes
    <2>3. status' = [status EXCEPT ![i] = "not_dispatched"] /\ UNCHANGED delivered
      BY <1>7 DEF TurnAway
    <2> QED  BY <2>1, <2>2, <2>3 DEF TurnedAway
  <1> QED  BY <1>1, <1>2, <1>3, <1>4, <1>6, <1>7 DEF DeskNext

\* What a surface does by itself leaves the rows alone.
LEMMA SurfacesKeepRows ==
  ASSUME Journal \/ Desktop \/ Phone \/ Dock \/ Agent \/ Composer
  PROVE  UNCHANGED P!vars
  <1> USE DEF P!vars, hostVars, deskVars, sendVars
  <1>1. CASE Journal \/ Desktop \/ Phone
    BY <1>1 DEF Journal, Desktop, Phone, Following
  <1>2. CASE Dock
    <2>1. CASE Edit \/ ReadRows \/ ShowRows \/ PollBreaks \/ Redial \/ Reload
      BY <2>1 DEF Edit, ReadRows, ShowRows, PollBreaks, Redial, Reload
    <2>2. ASSUME NEW c \in Calls, Click(c) \/ DockEnsured(c) \/ Dispatch(c) PROVE UNCHANGED P!vars
      BY <2>2 DEF Click, DockEnsured, Ensured, Dispatch
    <2>3. ASSUME NEW c \in Calls, TakeRow(c) \/ TakeError(c) PROVE UNCHANGED P!vars
      BY <2>3 DEF TakeRow, TakeError
    <2>4. ASSUME NEW c \in Calls, SendBreaks(c) \/ DockStartBreaks(c) PROVE UNCHANGED P!vars
      BY <2>4 DEF SendBreaks, DockStartBreaks
    <2> QED  BY <1>2, <2>1, <2>2, <2>3, <2>4 DEF Dock, DockNext
  <1>3. CASE Agent
    <2>1. ASSUME NEW c \in Calls, Turn(c) \/ AgentEnsured(c) \/ Submit(c) \/ Retry(c) \/ FinishTurn(c)
          PROVE  UNCHANGED P!vars
      BY <2>1 DEF Turn, AgentEnsured, Ensured, Submit, Retry, FinishTurn
    <2>2. ASSUME NEW c \in Calls, TurnBreaks(c) PROVE UNCHANGED P!vars
      BY <2>2 DEF TurnBreaks
    <2> QED  BY <1>3, <2>1, <2>2 DEF Agent, AgentNext
  <1>4. CASE Composer
    <2>1. CASE Paint \/ Recall \/ AbsorbAll
      BY <2>1 DEF Paint, Recall, AbsorbAll
    <2>2. ASSUME NEW i \in 1 .. incarnation, Refresh(i) PROVE UNCHANGED P!vars
      BY <2>2 DEF Refresh
    <2>3. ASSUME NEW c \in Calls, SendPrompt(c) \/ Absorb(c) \/ Refused(c) \/ Resend(c) \/ MarkUnknown(c)
          PROVE  UNCHANGED P!vars
      BY <2>3 DEF SendPrompt, Absorb, Refused, Resend, MarkUnknown
    <2>4. ASSUME NEW c \in Calls, RefreshBreaks(c) \/ PromptBreaks(c) PROVE UNCHANGED P!vars
      BY <2>4 DEF RefreshBreaks, PromptBreaks
    <2> QED  BY <1>4, <2>1, <2>2, <2>3, <2>4 DEF Composer, PhoneSendNext
  <1> QED  BY <1>1, <1>2, <1>3, <1>4

\* The host of the devices promises no less than the sessions are proved to keep
\* (KeepsPromise): what the devices rely on is what CediaSession implements.
THEOREM DeskKeepsPromise == Spec => HostKeepsPromise
  <1>1. Init => P!Init
    BY DEF Init, DeskInit
  <1>2. IInv /\ [Next]_vars => [P!Next \/ \E i \in Ids : TurnedAway(i)]_P!vars
    <2> SUFFICES ASSUME IInv, [Next]_vars
                 PROVE  P!Next \/ (\E i \in Ids : TurnedAway(i)) \/ UNCHANGED P!vars
      OBVIOUS
    <2>1. CASE Host
      BY <2>1, DeskStepKeepsPromise DEF Host
    <2>2. CASE Journal \/ Desktop \/ Phone \/ Dock \/ Agent \/ Composer
      BY <2>2, SurfacesKeepRows
    <2>3. CASE UNCHANGED vars
      BY <2>3 DEF vars, sendVars, deskVars, hostVars, P!vars
    <2> QED  BY <2>1, <2>2, <2>3 DEF Next
  <1> QED  BY <1>1, <1>2, DevicesInvariance, PTL DEF Spec, HostKeepsPromise

----------------------------------------------------------------------------
\* The guard of the dock.

\* What the guard refuses to send again is on its way: a call of this window
\* carries it.
OnItsWay(i) == \E c \in Calls : call[c].open /\ Carried(c) /\ call[c].id = i

GuardIsFair == \A i \in dock.inFlight : OnItsWay(i)

\* Somebody waits for a call that is still being prepared.
Prepared == \A c \in Calls : call[c].at \in {"asked", "record"} => call[c].open

GuardInv ==
  /\ GuardIsFair
  /\ device # "dock" => dock.inFlight = {}
  /\ device = "dock" => Prepared

\* Where calls that carry something go on, the guard may stay as it is.
LEMMA GuardStays ==
  ASSUME GuardInv, device' = device, dock'.inFlight = dock.inFlight, device = "dock" => Prepared',
         \A c \in Calls : call[c].open /\ Carried(c)
                            => call'[c].open /\ Carried(c)' /\ call'[c].id = call[c].id
  PROVE  GuardInv'
  BY DEF GuardInv, GuardIsFair, OnItsWay

\* The host serves a call or answers it, as long as somebody waits for it.
LEMMA HostServesWaiting ==
  ASSUME DeskTypes, DeskNext, NEW d \in Calls, call[d].open, Carried(d)
  PROVE  call'[d].open /\ Carried(d)' /\ call'[d].id = call[d].id
  <1> USE DEF DeskTypes
  <1>1. CASE UNCHANGED call
    BY <1>1 DEF Carried
  <1>2. ASSUME NEW c \in Calls, NEW answer, Answered(c, answer), Arrived(c) \/ call[c].at = "held"
        PROVE  call'[d].open /\ Carried(d)' /\ call'[d].id = call[d].id
    BY <1>2 DEF Answered, Carried, Call
  <1>3. ASSUME NEW c \in Calls, call' = [call EXCEPT ![c].at = "held"]
        PROVE  call'[d].open /\ Carried(d)' /\ call'[d].id = call[d].id
    BY <1>3 DEF Carried, Call
  <1>4. ASSUME NEW c \in Calls, Refuse(c) \/ TurnAway(c) \/ Conclude(c)
        PROVE  call'[d].open /\ Carried(d)' /\ call'[d].id = call[d].id
    BY <1>2, <1>4 DEF Refuse, TurnAway, Conclude
  <1>5. ASSUME NEW c \in Calls, Replay(c) \/ Claim(c)
        PROVE  call'[d].open /\ Carried(d)' /\ call'[d].id = call[d].id
    BY <1>2, <1>3, <1>5 DEF Replay, Claim
  <1>6. ASSUME NEW c \in Calls, Lost(c)
        PROVE  call'[d].open /\ Carried(d)' /\ call'[d].id = call[d].id
    BY <1>6 DEF Lost, Carried, Call
  <1>7. CASE Start \/ Launch \/ Started \/ StartFails \/ TaskEnds \/ OtherTurn \/ Advance
    BY <1>1, <1>7 DEF Start, Launch, Started, StartFails, TaskEnds, OtherTurn, Advance
  <1> QED  BY <1>4, <1>5, <1>6, <1>7 DEF DeskNext

\* The end of a call takes its own command from the guard.
LEMMA GuardReleased ==
  ASSUME IInv, GuardInv, device = "dock", device' = device, NEW c \in Calls,
         dock'.inFlight = dock.inFlight \ {call[c].id}, Prepared',
         \A d \in Calls : d # c => call'[d] = call[d]
  PROVE  GuardInv'
  <1> SUFFICES ASSUME NEW i \in dock'.inFlight  PROVE OnItsWay(i)'
    BY DEF GuardInv, GuardIsFair
  <1>1. PICK d \in Calls : call[d].open /\ Carried(d) /\ call[d].id = i
    BY DEF GuardInv, GuardIsFair, OnItsWay
  <1>2. d # c
    BY <1>1
  <1> QED  BY <1>1, <1>2 DEF OnItsWay, Carried

LEMMA DockKeepsGuard ==
  ASSUME IInv, GuardInv, device = "dock", device' = device, DockNext
  PROVE  GuardInv'
  <1>1. /\ call \in [Calls -> Call]
        /\ dock \in [rev : Nat, draft : Nat, edits : Nat \ {0}, touches : Nat, inFlight : SUBSET Nat]
    BY DEF IInv, DeskTypes, SurfaceInv, DockInv
  <1>2. CASE Edit \/ ReadRows \/ ShowRows \/ PollBreaks \/ Redial
    <2>1. dock'.inFlight = dock.inFlight /\ UNCHANGED call
      BY <1>1, <1>2 DEF Edit, ReadRows, ShowRows, PollBreaks, Redial, deskVars
    <2> QED  BY <2>1, GuardStays DEF Carried, GuardInv, Prepared
  <1>3. CASE Reload
    <2>1. dock'.inFlight = {}
      BY <1>3 DEF Reload, NewWindow
    <2>2. Prepared'
      BY <1>1, <1>3 DEF Reload, NoCall, Prepared
    <2> QED  BY <2>1, <2>2 DEF GuardInv, GuardIsFair
  <1>4. ASSUME NEW c \in Calls, Click(c) \/ DockEnsured(c) \/ DockStartBreaks(c)  PROVE GuardInv'
    <2>1. dock'.inFlight = dock.inFlight
      BY <1>1, <1>4 DEF Click, DockEnsured, DockStartBreaks, dockVars
    <2>2. ~Carried(c) /\ \A d \in Calls : d # c => call'[d] = call[d]
      BY <1>1, <1>4 DEF Click, DockEnsured, Ensured, DockStartBreaks, EnsureBreaks, Carried, NoCall
    <2>3. \A d \in Calls : call[d].open /\ Carried(d)
                             => call'[d].open /\ Carried(d)' /\ call'[d].id = call[d].id
      BY <2>2 DEF Carried
    <2>4. call'[c].at \in {"asked", "record"} => call'[c].open
      <3>1. CASE Click(c)
        BY <1>1, <3>1 DEF Click, NoCall
      <3>2. CASE DockEnsured(c)
        <4>1. call[c].open /\ call' = [call EXCEPT ![c] = [@ EXCEPT !.at = "record", !.inc = incarnation]]
          BY <3>2 DEF DockEnsured, Ensured, GuardInv, Prepared
        <4> QED  BY <1>1, <4>1 DEF Call
      <3>3. CASE DockStartBreaks(c)
        BY <1>1, <3>3 DEF DockStartBreaks, EnsureBreaks, NoCall
      <3> QED  BY <1>4, <3>1, <3>2, <3>3
    <2>5. Prepared'
      BY <2>2, <2>4 DEF GuardInv, Prepared
    <2> QED  BY <2>1, <2>3, <2>5, GuardStays
  <1>5. ASSUME NEW c \in Calls, Dispatch(c)  PROVE GuardInv'
    <2>1. CASE dock.inFlight = {Envelope}
      <3>1. dock' = dock /\ call' = [call EXCEPT ![c] = NoCall] /\ call[c].at = "record"
        BY <1>5, <2>1 DEF Dispatch
      <3>2. \A d \in Calls : call[d].open /\ Carried(d)
                               => call'[d].open /\ Carried(d)' /\ call'[d].id = call[d].id
        BY <1>1, <3>1 DEF Carried
      <3>3. Prepared'
        BY <1>1, <3>1 DEF GuardInv, Prepared, NoCall
      <3> QED  BY <3>1, <3>2, <3>3, GuardStays
    <2>2. CASE dock.inFlight # {Envelope}
      <3>1. /\ call' = [call EXCEPT ![c] = [@ EXCEPT !.at = "wire", !.id = Envelope]]
            /\ dock' = [dock EXCEPT !.inFlight = {Envelope}] /\ call[c].at = "record"
        BY <1>5, <2>2 DEF Dispatch
      <3>2. dock'.inFlight = {Envelope} /\ call'[c].at = "wire" /\ call'[c].id = Envelope
            /\ call'[c].open = call[c].open
        BY <1>1, <3>1 DEF Call
      <3>3. call[c].open
        BY <3>1 DEF GuardInv, Prepared
      <3>4. Prepared'
        BY <1>1, <3>1 DEF GuardInv, Prepared, Call
      <3> QED  BY <3>2, <3>3, <3>4 DEF GuardInv, GuardIsFair, OnItsWay, Carried
    <2> QED  BY <2>1, <2>2
  <1>6. ASSUME NEW c \in Calls, TakeRow(c) \/ TakeError(c) \/ SendBreaks(c)  PROVE GuardInv'
    <2>1. dock'.inFlight = dock.inFlight \ {call[c].id}
      BY <1>1, <1>6 DEF TakeRow, TakeError, SendBreaks, Settled
    <2>2. \A d \in Calls : d # c => call'[d] = call[d]
      BY <1>1, <1>6 DEF TakeRow, TakeError, SendBreaks, HangUp, Done
    <2>3. Prepared'
      BY <1>1, <1>6 DEF TakeRow, TakeError, SendBreaks, HangUp, Waiting, Done, NoCall, GuardInv,
                        Prepared, Call
    <2> QED  BY <2>1, <2>2, <2>3, GuardReleased
  <1> QED  BY <1>2, <1>3, <1>4, <1>5, <1>6 DEF DockNext

LEMMA HostPrepares == ASSUME DeskTypes, DeskNext, Prepared  PROVE Prepared'
  <1> USE DEF DeskTypes, Prepared
  <1>1. CASE UNCHANGED call
    BY <1>1
  <1>2. ASSUME NEW c \in Calls, NEW k, call' = [call EXCEPT ![c] = k], k.at \notin {"asked", "record"}
        PROVE  Prepared'
    BY <1>2
  <1>3. ASSUME NEW c \in Calls, NEW answer, Answered(c, answer)  PROVE Prepared'
    <2>1. CASE call[c].open
      <3> DEFINE k == [call[c] EXCEPT !.at = "answered", !.answer = answer]
      <3>1. call' = [call EXCEPT ![c] = k]
        BY <1>3, <2>1 DEF Answered
      <3>2. k.at = "answered"
        BY DEF Call
      <3> HIDE DEF k
      <3> QED  BY <1>2, <3>1, <3>2
    <2>2. CASE ~call[c].open
      <3>1. call' = [call EXCEPT ![c] = NoCall] /\ NoCall.at = "idle"
        BY <1>3, <2>2 DEF Answered, NoCall
      <3> QED  BY <1>2, <3>1
    <2> QED  BY <2>1, <2>2
  <1>4. ASSUME NEW c \in Calls, Refuse(c) \/ TurnAway(c) \/ Conclude(c)  PROVE Prepared'
    BY <1>3, <1>4 DEF Refuse, TurnAway, Conclude
  <1>5. ASSUME NEW c \in Calls, call' = [call EXCEPT ![c].at = "held"]  PROVE Prepared'
    BY <1>5 DEF Call
  <1>6. ASSUME NEW c \in Calls, Replay(c) \/ Claim(c)  PROVE Prepared'
    BY <1>3, <1>5, <1>6 DEF Replay, Claim
  <1>7. ASSUME NEW c \in Calls, Lost(c)  PROVE Prepared'
    BY <1>7 DEF Lost, NoCall
  <1>8. CASE Start \/ Launch \/ Started \/ StartFails \/ TaskEnds \/ OtherTurn \/ Advance
    BY <1>1, <1>8 DEF Start, Launch, Started, StartFails, TaskEnds, OtherTurn, Advance
  <1> QED  BY <1>4, <1>6, <1>7, <1>8 DEF DeskNext

\* The guard of the dock holds back a prompt only while the command it is taken for
\* is on its way from this window: however calls end, are overtaken by another
\* draft or are cut off by a reload, none is left behind in it (shouldDispatch,
\* #inFlightCommandId).
THEOREM GuardHoldsNothingBack == Spec => []GuardIsFair
  <1>1. Init => GuardInv
    BY DEF Init, DockInit, NewWindow, DeskInit, NoCall, GuardInv, GuardIsFair, Prepared
  <1>2. IInv /\ GuardInv /\ [Next]_vars => GuardInv'
    <2> SUFFICES ASSUME IInv, GuardInv, [Next]_vars PROVE GuardInv'
      OBVIOUS
    <2>1. CASE UNCHANGED <<dock, call, device>>
      BY <2>1, GuardStays DEF GuardInv, Prepared, Carried
    <2>2. CASE Host
      <3>1. UNCHANGED <<dock, device>> /\ DeskNext /\ DeskTypes
        BY <2>2 DEF Host, Sending, dockVars, IInv
      <3>2. device = "dock" => Prepared'
        BY <3>1, HostPrepares DEF GuardInv
      <3>3. \A c \in Calls : call[c].open /\ Carried(c)
                               => call'[c].open /\ Carried(c)' /\ call'[c].id = call[c].id
        BY <3>1, HostServesWaiting
      <3> QED  BY <3>1, <3>2, <3>3, GuardStays
    <2>3. CASE Dock
      BY <2>3, DockKeepsGuard DEF Dock, Sending
    <2>4. CASE Agent \/ Composer
      <3>1. device # "dock" /\ UNCHANGED <<dock, device>>
        BY <2>4 DEF Agent, Composer, Sending, dockVars
      <3> QED  BY <3>1 DEF GuardInv, GuardIsFair
    <2>5. CASE Journal \/ Desktop \/ Phone \/ UNCHANGED vars
      BY <2>1, <2>5 DEF Journal, Desktop, Phone, Following, sendVars, deskVars, dockVars, vars
    <2> QED  BY <2>2, <2>3, <2>4, <2>5 DEF Next
  <1>3. GuardInv => GuardIsFair
    BY DEF GuardInv
  <1> QED  BY <1>1, <1>2, <1>3, DevicesInvariance, PTL DEF Spec

=============================================================================
