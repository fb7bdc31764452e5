----------------------------- MODULE DesktopFeed -----------------------------
(***************************************************************************)
(* How the macOS extension follows a task (apps/macos/src/extension.ts,    *)
(* pullEvents, and the reducer apps/macos/src/state.ts): one pull at a     *)
(* time reads the session record, then a page from the cursor.  Events of  *)
(* another incarnation are skipped, and a new incarnation starts the       *)
(* transcript over.                                                        *)
(***************************************************************************)
EXTENDS EventLog

CONSTANTS
  MaxTaps           \* bound on what the user does

VARIABLES
  mac,              \* the task state: incarnation, cursor, transcript
  pull,             \* the pull in progress (#polling)
  online,           \* #client is set
  taps              \* bound

macVars == <<mac, pull, online, taps>>

NoPage == [from |-> 0, last |-> 0, more |-> FALSE]
NoPull == [at |-> "idle", rec |-> 0, page |-> NoPage, stale |-> FALSE]
View(i) == [inc |-> i, cursor |-> 0, shown |-> <<>>]

MacInit == mac = View(1) /\ pull = NoPull /\ online = TRUE /\ taps = 0

\* pullEvents up to its first reply: getSession as the host answers it.
Pull ==
  /\ online /\ pull.at = "idle"
  /\ pull' = [NoPull EXCEPT !.at = "record", !.rec = incarnation]
  /\ UNCHANGED <<logVars, mac, online, taps>>

\* The record arrives: a new incarnation resets the task.  The page is asked for
\* from the cursor, and the host reads it.
Record ==
  /\ pull.at = "record" /\ ~pull.stale
  /\ LET next == IF pull.rec # mac.inc THEN View(pull.rec) ELSE mac
     IN /\ mac' = next
        /\ \E p \in Pages(next.cursor) : pull' = [pull EXCEPT !.at = "page", !.page = p]
  /\ UNCHANGED <<logVars, online, taps>>

Of(inc, i) == log[i] = inc

\* applyEventPage: every event of this incarnation, and the cursor in any case.
ApplyPage ==
  /\ pull.at = "page" /\ ~pull.stale
  /\ mac' = [mac EXCEPT !.shown = @ \o InOrder({i \in Events(pull.page) : Of(mac.inc, i)}),
                        !.cursor = IF @ > pull.page.last THEN @ ELSE pull.page.last]
  /\ pull' = NoPull
  /\ UNCHANGED <<logVars, online, taps>>

FaultyDropStale ==
  /\ pull.at # "idle" /\ pull.stale
  /\ UNCHANGED <<logVars, mac, pull, online, taps>>

\* A reply for a task the user has left: the pull ends, and the next may begin.
DropStale ==
  /\ pull.at # "idle" /\ pull.stale
  /\ pull' = NoPull
  /\ UNCHANGED <<logVars, mac, online, taps>>

\* A request fails: the client is dropped, and the polls rest until something
\* the user does connects again (ensureClient).
PullFails ==
  /\ pull.at # "idle" /\ RequestFails
  /\ pull' = NoPull
  /\ online' = (online /\ pull.stale)
  /\ UNCHANGED <<mac, taps>>

Reconnect ==
  /\ ~online
  /\ online' = TRUE
  /\ UNCHANGED <<logVars, mac, pull, taps>>

\* selectSession: the pulls before it are disowned at once; its own read of the
\* record, which may be old by the time it is used, resets the task.
Navigate ==
  /\ taps < MaxTaps
  /\ pull' = [pull EXCEPT !.stale = pull.at # "idle"]
  /\ taps' = taps + 1
  /\ UNCHANGED <<logVars, mac, online>>
Open(i) ==
  /\ taps > 0 /\ taps < MaxTaps
  /\ mac' = View(i) /\ taps' = taps + 1
  /\ UNCHANGED <<logVars, pull, online>>

\* ensureSession: the reply to a start swaps the record, and nothing else.
Adopt(i) ==
  /\ taps < MaxTaps
  /\ mac' = [mac EXCEPT !.inc = i] /\ taps' = taps + 1
  /\ UNCHANGED <<logVars, pull, online>>

MacNext ==
  \/ Pull \/ Record \/ ApplyPage \/ DropStale \/ PullFails \/ Reconnect \/ Navigate
  \/ \E i \in 1..incarnation : Open(i)
  \/ \E i \in 1..incarnation : Adopt(i)

\* The timer of the polls, and the host, which answers.
MacStep == Pull \/ Record \/ ApplyPage \/ DropStale
=============================================================================
