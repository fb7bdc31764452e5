---------------------------- MODULE EditorBridge ----------------------------
(***************************************************************************)
(* The guarded editor: an agent reads and changes a file of the task       *)
(* folder through the buffer the user has open.  Three parties share it:   *)
(*   - NativeEditorBridge (apps/host/src/native-editor.ts) serves the      *)
(*     calls of one OMP process and remembers which paths are buffers;     *)
(*   - EditorConnections (apps/host/src/editors.ts) hands a request to a   *)
(*     window once and takes its response until the deadline;              *)
(*   - CediaEditorService (apps/macos/src/editor.ts), polled by the        *)
(*     extension, works on the buffer while the user types, saves and      *)
(*     closes it.                                                          *)
(* One file is modelled.  The window serves its requests one at a time     *)
(* (pollEditor awaits each), so its per-document lock is never contended.  *)
(***************************************************************************)
EXTENDS Naturals, Sequences, FiniteSets, SequencesExt

CONSTANTS
  Calls,            \* calls of the agent to the native editor tool
  MaxWindow,        \* windows opened over time, each with an id of its own
  Texts,            \* texts a user may leave in the buffer
  MaxVersion,       \* bound on the edits of a document
  MaxHandle,        \* bound on the document handles issued
  Absent,           \* model value: no file
  Empty             \* model value: the text of a new file

ASSUME EditorAssumption ==
  /\ IsFiniteSet(Calls) /\ Cardinality({Absent, Empty}) = 2
  /\ {Absent, Empty} \cap (Calls \cup Texts) = {} /\ Calls \cap Texts = {}
  /\ MaxWindow \in Nat \ {0} /\ MaxVersion \in Nat \ {0} /\ MaxHandle \in Nat \ {0}

VARIABLES
  \* the file and its buffer
  disk,             \* text of the file, or Absent
  doc,              \* the text document: open, text, version, handle (0: unbound)
  handles,          \* handles issued so far
  \* EditorConnections
  clients,          \* #clients
  fresh,            \* clients seen in the last five seconds
  registered,       \* #registeredRoots holds the task folder
  request,          \* #pending: the request a call has out
  \* NativeEditorBridge
  known,            \* #knownPaths holds the file
  call,             \* the calls
  \* the window
  window,           \* the window that is open, 0: none
  opened,           \* windows opened so far
  batch,            \* requests the window fetched and has not finished
  phase,            \* where pollEditor is
  answer,           \* the response it is sending
  \* history
  seen,             \* the guards a snapshot or an edit gave the agent
  found             \* what a change of the agent replaced, per call

fileVars   == <<disk, doc, handles>>
hostVars   == <<clients, fresh, registered, request, known, call>>
windowVars == <<window, opened, batch, phase, answer>>
vars       == <<fileVars, hostVars, windowVars, seen, found>>

Content(c) == c                            \* the text call c writes, named by the call
AnyText    == Texts \cup Calls \cup {Empty}
Nothing    == [handle |-> 0, version |-> 0, text |-> Absent]
Changes    == {"apply", "remove", "create", "fill"}
Closed     == [open |-> FALSE, text |-> Absent, version |-> 0, handle |-> 0]
NoRequest  == [kind |-> "none", window |-> 0, sent |-> FALSE, live |-> FALSE]
NoAnswer   == [kind |-> "none", guard |-> Nothing]
NewCall    == [op |-> "none", guard |-> Nothing, known |-> FALSE, out |-> "none"]

Init ==
  /\ disk \in Texts \cup {Absent} /\ doc = Closed /\ handles = 0
  /\ clients = {} /\ fresh = {} /\ registered = FALSE /\ known = FALSE
  /\ request = [c \in Calls |-> NoRequest]
  /\ call = [c \in Calls |-> NewCall]
  /\ window = 0 /\ opened = 0 /\ batch = <<>> /\ phase = "rest" /\ answer = NoAnswer
  /\ seen = {} /\ found = [c \in Calls |-> Nothing]

-----------------------------------------------------------------------------
(* The host.                                                               *)

First(S) == CHOOSE w \in S : \A v \in S : w <= v      \* Map order is opening order

\* EditorConnections.request: the first window seen lately gets it.
Asked(c, kind) ==
  [request EXCEPT ![c] = [kind |-> kind, window |-> First(fresh), sent |-> FALSE, live |-> TRUE]]

Return(c, out) == [call EXCEPT ![c].out = out]

FaultySnapshot(c) ==
  /\ call[c].op = "none"
  /\ known' = (known \/ fresh # {})
  /\ call' = [call EXCEPT ![c] = [NewCall EXCEPT !.op = "snapshot", !.known = known,
                                                !.out = IF fresh = {} THEN "useDisk" ELSE "none"]]
  /\ request' = IF fresh = {} THEN request ELSE Asked(c, "read")
  /\ UNCHANGED <<fileVars, clients, fresh, registered, windowVars, seen, found>>

\* NativeEditorBridge.snapshot up to its read.  Without a window the file is
\* left to OMP's own disk access, unless it was a buffer before; the reply
\* tells OMP whether the folder belongs to the editor.
Snapshot(c) ==
  /\ call[c].op = "none"
  /\ IF fresh # {}
       THEN /\ call' = [call EXCEPT ![c] = [NewCall EXCEPT !.op = "snapshot", !.known = known]]
            /\ known' = TRUE
            /\ request' = Asked(c, "read")
       ELSE /\ call' = [call EXCEPT ![c] = [NewCall EXCEPT !.op = "snapshot",
                          !.out = IF known THEN "refused" ELSE IF registered THEN "missing" ELSE "useDisk"]]
            /\ UNCHANGED <<known, request>>
  /\ UNCHANGED <<fileVars, clients, fresh, registered, windowVars, seen, found>>

\* apply, delete and move up to the read that precedes the change.
Change(c, op, g) ==
  /\ call[c].op = "none" /\ g \in seen
  /\ IF known /\ fresh # {}
       THEN /\ call' = [call EXCEPT ![c] = [NewCall EXCEPT !.op = op, !.guard = g]]
            /\ request' = Asked(c, "read")
       ELSE /\ call' = [call EXCEPT ![c] = [NewCall EXCEPT !.op = op, !.guard = g, !.out = "refused"]]
            /\ UNCHANGED request
  /\ UNCHANGED <<fileVars, clients, fresh, registered, known, windowVars, seen, found>>

\* create: nothing is read first.
Create(c) ==
  /\ call[c].op = "none"
  /\ call' = [call EXCEPT ![c] = [NewCall EXCEPT !.op = "create", !.out = IF fresh = {} THEN "refused" ELSE "none"]]
  /\ request' = IF fresh = {} THEN request ELSE Asked(c, "create")
  /\ UNCHANGED <<fileVars, clients, fresh, registered, known, windowVars, seen, found>>

\* #applyDisk, synchronous: only in a folder no window ever registered, and only
\* over the text the agent expects.
DiskApply(c, expected) ==
  /\ call[c].op = "none"
  /\ LET ok == ~registered /\ ~known /\ disk = expected
     IN /\ disk' = IF ok THEN Content(c) ELSE disk
        /\ call' = [call EXCEPT ![c] = [NewCall EXCEPT !.op = "disk", !.out = IF ok THEN "wrote" ELSE "refused"]]
  /\ UNCHANGED <<doc, handles, clients, fresh, registered, request, known, windowVars, seen, found>>

\* The abort signal, or the timer of thirty seconds: the outcome may be unknown.
GiveUp(c) ==
  /\ request' = [request EXCEPT ![c] = NoRequest]
  /\ call' = Return(c, "unknown")
  /\ UNCHANGED <<fileVars, clients, fresh, registered, known, windowVars, seen, found>>
Cancel(c)     == request[c].kind # "none" /\ GiveUp(c)
TimerFires(c) == request[c].kind # "none" /\ ~request[c].live /\ GiveUp(c)

DeadlinePasses(c) ==
  /\ request[c].kind # "none" /\ request[c].live
  /\ request' = [request EXCEPT ![c].live = FALSE]
  /\ UNCHANGED <<fileVars, clients, fresh, registered, known, call, windowVars, seen, found>>

\* EditorConnections.valid, and what respond asks of a response.
Valid(c) == request[c].window = window /\ request[c].sent /\ request[c].live

Lapse(w) ==
  /\ w \in fresh
  /\ fresh' = fresh \ {w}
  /\ UNCHANGED <<fileVars, clients, registered, request, known, call, windowVars, seen, found>>

-----------------------------------------------------------------------------
(* What the host does with a response.                                     *)

Take(c, a) ==
  CASE call[c].op = "snapshot" ->
         \* A document that is not there is forgotten, unless it was known.
         /\ request' = [request EXCEPT ![c] = NoRequest]
         /\ call' = Return(c, IF a.kind = "doc" THEN "doc" ELSE IF call[c].known THEN "refused" ELSE "missing")
         /\ known' = (IF a.kind = "doc" THEN TRUE ELSE known /\ call[c].known)
         /\ seen' = IF a.kind = "doc" THEN seen \cup {a.guard} ELSE seen
    [] call[c].op # "snapshot" /\ request[c].kind = "read" ->
         \* The buffer must still be what the agent read; then the change is asked for.
         /\ IF a.kind = "doc" /\ a.guard = call[c].guard /\ fresh # {}
              THEN request' = Asked(c, call[c].op) /\ UNCHANGED call
              ELSE request' = [request EXCEPT ![c] = NoRequest] /\ call' = Return(c, "refused")
         /\ UNCHANGED <<known, seen>>
    [] OTHER ->
         /\ request' = [request EXCEPT ![c] = NoRequest]
         /\ call' = Return(c, a.kind)
         /\ known' = CASE a.kind = "removed" -> FALSE
                       [] a.kind = "applied" -> TRUE
                       [] OTHER -> known
         /\ seen' = IF a.kind = "applied" THEN seen \cup {a.guard} ELSE seen

-----------------------------------------------------------------------------
(* The window: pollEditor and CediaEditorService.                          *)

OpenWindow ==
  /\ window = 0 /\ opened < MaxWindow
  /\ window' = opened + 1 /\ opened' = opened + 1
  /\ UNCHANGED <<fileVars, hostVars, batch, phase, answer, seen, found>>

\* The window goes with its buffers, unsaved text included.
CloseWindow ==
  /\ window # 0
  /\ window' = 0 /\ batch' = <<>> /\ phase' = "rest" /\ answer' = NoAnswer
  /\ doc' = Closed
  /\ UNCHANGED <<disk, handles, hostVars, opened, seen, found>>

Busy == {request[c].window : c \in {d \in Calls : request[d].kind # "none"}}

\* registerEditor.  A folder stays registered when its windows are gone.
Register ==
  /\ window # 0 /\ phase = "rest"
  /\ clients' = {w \in clients : w \in fresh \/ w \in Busy} \cup {window}
  /\ fresh' = fresh \cup {window}
  /\ registered' = TRUE
  /\ phase' = "registered"
  /\ UNCHANGED <<fileVars, request, known, call, window, opened, batch, answer, seen, found>>

\* editorRequests: everything unsent for this window, once.
Poll ==
  /\ phase = "registered" /\ window \in clients
  /\ fresh' = fresh \cup {window}
  /\ LET due == {c \in Calls : request[c].kind # "none" /\ request[c].window = window /\ ~request[c].sent}
     IN \E order \in SetToSeqs(due) :
          /\ batch' = [i \in DOMAIN order |-> [call |-> order[i], kind |-> request[order[i]].kind]]
          /\ request' = [c \in Calls |-> IF c \in due THEN [request[c] EXCEPT !.sent = TRUE] ELSE request[c]]
          /\ phase' = IF due = {} THEN "rest" ELSE "working"
  /\ UNCHANGED <<fileVars, clients, registered, known, call, window, opened, answer, seen, found>>

Working(p, kinds) == phase = p /\ Head(batch).kind \in kinds
Now == Head(batch).call
Answer(kind, g) == answer' = [kind |-> kind, guard |-> g] /\ phase' = "answering"

GuardOf(d) == [handle |-> d.handle, version |-> d.version, text |-> d.text]

\* readDocument: the file is opened if it was not, and bound to a handle.
Read ==
  /\ Working("working", {"read"})
  /\ IF disk = Absent
       THEN Answer("missing", Nothing) /\ UNCHANGED <<doc, handles>>
       ELSE LET at == IF doc.open THEN doc ELSE [open |-> TRUE, text |-> disk, version |-> 1, handle |-> 0]
            IN /\ at.handle = 0 => handles < MaxHandle
               /\ doc' = [at EXCEPT !.handle = IF @ = 0 THEN handles + 1 ELSE @]
               /\ handles' = IF at.handle = 0 THEN handles + 1 ELSE handles
               /\ Answer("doc", GuardOf(doc'))
  /\ UNCHANGED <<disk, hostVars, window, opened, batch, seen, found>>

\* bindingFor: the handle is the current one, and the text is the one read.  A
\* file to be created must be neither on disk nor open.
Guarded(c) ==
  IF call[c].op = "create" THEN disk = Absent /\ ~doc.open
                           ELSE disk # Absent /\ doc.open /\ GuardOf(doc) = call[c].guard
Preflight ==
  /\ Working("working", Changes)
  /\ IF Guarded(Now) THEN phase' = "checking" /\ UNCHANGED answer ELSE Answer("refused", Nothing)
  /\ UNCHANGED <<fileVars, hostVars, window, opened, batch, seen, found>>

\* beforeApply: the host is asked whether the request still stands; a failed
\* call counts as no.
BeforeApply(reached) ==
  /\ Working("checking", Changes)
  /\ IF reached /\ Valid(Now)
       THEN phase' = "allowed" /\ UNCHANGED answer ELSE Answer("refused", Nothing)
  /\ UNCHANGED <<fileVars, hostVars, window, opened, batch, seen, found>>

\* applyEdit.  An edit is checked once more first; the others are not.
Invoke ==
  /\ Working("allowed", Changes)
  /\ IF Head(batch).kind # "apply" \/ (doc.open /\ GuardOf(doc) = call[Now].guard)
       THEN phase' = "invoked" /\ UNCHANGED answer ELSE Answer("refused", Nothing)
  /\ UNCHANGED <<fileVars, hostVars, window, opened, batch, seen, found>>

\* VS Code carries the change out some time later, or declines it.
LandEdit ==
  /\ Working("invoked", {"apply"}) /\ doc.open
  /\ doc' = [doc EXCEPT !.text = Content(Now), !.version = @ + 1]
  /\ found' = [found EXCEPT ![Now] = GuardOf(doc)]
  /\ phase' = "landed"
  /\ UNCHANGED <<disk, handles, hostVars, window, opened, batch, answer, seen>>

LandRemoval ==
  /\ Working("invoked", {"remove"}) /\ disk # Absent
  /\ disk' = Absent /\ doc' = Closed
  /\ found' = [found EXCEPT ![Now] = IF doc.open THEN GuardOf(doc) ELSE [Nothing EXCEPT !.text = disk]]
  /\ Answer("removed", Nothing)
  /\ UNCHANGED <<handles, hostVars, window, opened, batch, seen>>

\* createFile, which does not overwrite; the new document is opened and bound,
\* and its content is a second edit, asked of the host again.
LandCreate ==
  /\ Working("invoked", {"create"}) /\ disk = Absent
  /\ disk' = Empty
  /\ found' = [found EXCEPT ![Now] = [Nothing EXCEPT !.text = Empty]]
  /\ \/ /\ ~doc.open /\ handles < MaxHandle
        /\ doc' = [open |-> TRUE, text |-> Empty, version |-> 1, handle |-> handles + 1]
        /\ handles' = handles + 1
        /\ batch' = [batch EXCEPT ![1].kind = "fill"] /\ phase' = "checking" /\ UNCHANGED answer
     \/ Answer("unknown", Nothing) /\ UNCHANGED <<doc, handles, batch>>      \* it does not open
  /\ UNCHANGED <<hostVars, window, opened, seen>>

\* The content goes over the range the empty file had; it is compared at once.
LandFill ==
  /\ Working("invoked", {"fill"}) /\ doc.open
  /\ doc' = [doc EXCEPT !.version = @ + 1, !.text = IF @ = Empty THEN Content(Now) ELSE @]
  /\ IF doc.text = Empty THEN Answer("applied", GuardOf(doc')) ELSE Answer("unknown", Nothing)
  /\ UNCHANGED <<disk, handles, hostVars, window, opened, batch, seen, found>>

Decline ==
  /\ Working("invoked", Changes)
  /\ Answer(IF Head(batch).kind = "fill" THEN "unknown" ELSE "refused", Nothing)
  /\ UNCHANGED <<fileVars, hostVars, window, opened, batch, seen, found>>

FaultySettle ==
  /\ Working("landed", {"apply"})
  /\ IF doc.open /\ doc.text = Content(Now) THEN Answer("applied", GuardOf(doc)) ELSE Answer("unknown", Nothing)
  /\ UNCHANGED <<fileVars, hostVars, window, opened, batch, seen, found>>

\* The postcondition: the same document, one version on, with the edited text.
Settle ==
  /\ Working("landed", {"apply"})
  /\ IF /\ doc.open /\ doc.handle = call[Now].guard.handle
        /\ doc.version = call[Now].guard.version + 1 /\ doc.text = Content(Now)
       THEN Answer("applied", GuardOf(doc)) ELSE Answer("unknown", Nothing)
  /\ UNCHANGED <<fileVars, hostVars, window, opened, batch, seen, found>>

Finish(rest) ==
  /\ batch' = rest /\ answer' = NoAnswer
  /\ phase' = IF rest = <<>> THEN "rest" ELSE "working"
  /\ UNCHANGED <<fileVars, clients, fresh, registered, window, opened, found>>

\* editorResponse arrives: it is taken once, before the deadline.
Respond ==
  /\ phase = "answering" /\ Valid(Now)
  /\ Take(Now, answer)
  /\ Finish(Tail(batch))

\* It is refused as stale, or lost: the rest of the batch is given up with it.
LoseResponse ==
  /\ phase = "answering"
  /\ Finish(<<>>)
  /\ UNCHANGED <<request, known, call, seen>>

-----------------------------------------------------------------------------
(* The user.                                                               *)

User == UNCHANGED <<handles, hostVars, windowVars, seen, found>>

Type(t) ==
  /\ doc.open /\ doc.text # t /\ doc.version < MaxVersion
  /\ doc' = [doc EXCEPT !.text = t, !.version = @ + 1] /\ UNCHANGED disk /\ User
Save == doc.open /\ disk # doc.text /\ disk' = doc.text /\ UNCHANGED doc /\ User
CloseFile == doc.open /\ doc' = Closed /\ UNCHANGED disk /\ User
CreateFile(t) == disk = Absent /\ ~doc.open /\ disk' = t /\ UNCHANGED doc /\ User

Next ==
  \/ \E c \in Calls : Snapshot(c)
  \/ \E c \in Calls, op \in {"apply", "remove"} : \E g \in seen : Change(c, op, g)
  \/ \E c \in Calls : Create(c)
  \/ \E c \in Calls : \E t \in AnyText : DiskApply(c, t)
  \/ \E c \in Calls : Cancel(c)
  \/ \E c \in Calls : TimerFires(c)
  \/ \E c \in Calls : DeadlinePasses(c)
  \/ \E w \in 1..MaxWindow : Lapse(w)
  \/ OpenWindow \/ CloseWindow \/ Register \/ Poll
  \/ Read \/ Preflight \/ Invoke \/ LandEdit \/ LandRemoval \/ LandCreate \/ LandFill \/ Decline \/ Settle
  \/ \E reached \in BOOLEAN : BeforeApply(reached)
  \/ Respond \/ LoseResponse
  \/ \E t \in Texts : Type(t)
  \/ \E t \in Texts : CreateFile(t)
  \/ Save \/ CloseFile

Spec == Init /\ [][Next]_vars

-----------------------------------------------------------------------------

\* What the agent is told of a change is true (native-editor.ts:76-84): applied
\* means the edit replaced exactly the text the agent had read, so nothing the
\* user typed meanwhile was lost; refused means the buffer was not touched and
\* will not be, whatever windows, deadlines and cancellations do.
OutcomeIsHonest ==
  \A c \in Calls :
    /\ call[c].op = "apply" /\ call[c].out = "applied" => found[c] = call[c].guard
    /\ call[c].op # "create" /\ call[c].out = "refused" => found[c] = Nothing

\* Once the agent was given a buffer of this file, the file is never again
\* offered to it as a plain file, nor written behind the editor, though the
\* window be closed, reloaded or silent (native-editor.ts:31, editors.ts:15-19).
NeverBackToDisk ==
  [][\A c \in Calls : call'[c].out \in {"useDisk", "wrote"} /\ call[c].out = "none" => seen = {}]_vars

\* The guard is evaluated immediately before applyEdit (editor.ts:7-10): what a
\* change of a buffer is submitted for is then the text the agent read.
PreflightBeforeApply ==
  [][phase = "allowed" /\ phase' = "invoked" /\ Head(batch).kind \in {"apply", "remove"} => Guarded(Now)]_vars
=============================================================================
