------------------------------ MODULE PhoneFeed ------------------------------
(***************************************************************************)
(* How the phone follows a task (apps/ios/App.tsx, catchUp, and the        *)
(* reducer apps/ios/src/core/state.ts).  Catch-ups overlap: the timer, the *)
(* foreground and the user each start one.  A catch-up fetches pages until *)
(* there is no more, or the cap is reached, and then reads the session     *)
(* record.  The snapshot cache, which goes through the same reducer, is    *)
(* left out.                                                               *)
(***************************************************************************)
EXTENDS EventLog

CONSTANTS
  Catchups,         \* catch-ups that may be under way together
  PageCap,          \* EVENT_CATCHUP_PAGE_CAP
  MaxSeen,          \* MAX_SEEN_EVENT_KEYS
  MaxSelects        \* bound on what the user does

ASSUME PhoneAssumption == PageCap \in Nat \ {0} /\ MaxSeen \in Nat

VARIABLES
  phone,            \* the task state: incarnation, cursor, transcript
  fetch,            \* the catch-ups
  selects           \* bound

phoneVars == <<phone, fetch, selects>>

Blank(i) == [inc |-> i, cursor |-> 0, shown |-> <<>>]
NoFetch  == [at |-> "idle", inc |-> 0, page |-> [from |-> 0, last |-> 0, more |-> FALSE], pages |-> 0, rec |-> 0]

PhoneInit == phone = Blank(1) /\ fetch = [f \in Catchups |-> NoFetch] /\ selects = 0

Set(f, r) == fetch' = [fetch EXCEPT ![f] = r]

\* catchUp up to its first page.
CatchUp(f) ==
  /\ fetch[f].at = "idle"
  /\ \E p \in Pages(phone.cursor) :
       Set(f, [NoFetch EXCEPT !.at = "page", !.inc = phone.inc, !.page = p, !.pages = 1])
  /\ UNCHANGED <<logVars, phone, selects>>

\* seenEventKeys: the latest events shown.
Recent(shown) == {shown[k] : k \in {n \in DOMAIN shown : n + MaxSeen > Len(shown)}}

FaultyFresh(i, view) == i \notin Recent(view.shown)
\* applyOneEvent takes an event it has not seen, beyond the cursor.
Fresh(i, view) == i \notin Recent(view.shown) /\ i > view.cursor

\* The reducer's events action: a page with an event of another incarnation is
\* rejected whole, its cursor included.
Reduce(page) ==
  IF \E i \in Events(page) : log[i] # phone.inc THEN phone
  ELSE [phone EXCEPT !.shown = @ \o InOrder({i \in Events(page) : Fresh(i, phone)}),
                     !.cursor = IF @ > page.last THEN @ ELSE page.last]

Current(f) == fetch[f].inc = phone.inc

\* A page arrives.  The next one is asked for from the page's own cursor, taken
\* or not; after the last comes the session record.
TakePage(f) ==
  /\ fetch[f].at = "page" /\ Current(f)
  /\ phone' = Reduce(fetch[f].page)
  /\ IF fetch[f].page.more /\ fetch[f].pages < PageCap
       THEN \E p \in Pages(fetch[f].page.last) : Set(f, [fetch[f] EXCEPT !.page = p, !.pages = @ + 1])
       ELSE Set(f, [fetch[f] EXCEPT !.at = "record", !.rec = incarnation])
  /\ UNCHANGED <<logVars, selects>>

\* session_refresh swaps the record and keeps transcript and cursor.
TakeRecord(f) ==
  /\ fetch[f].at = "record" /\ Current(f)
  /\ phone' = [phone EXCEPT !.inc = fetch[f].rec]
  /\ Set(f, NoFetch)
  /\ UNCHANGED <<logVars, selects>>

\* The task was changed meanwhile.
Disown(f) ==
  /\ fetch[f].at # "idle" /\ ~Current(f)
  /\ Set(f, NoFetch)
  /\ UNCHANGED <<logVars, phone, selects>>

\* A request fails; the timer tries again.
CatchUpFails(f) ==
  /\ fetch[f].at # "idle" /\ RequestFails
  /\ Set(f, NoFetch)
  /\ UNCHANGED <<phone, selects>>

\* The session action of a selection, a start or a reconciliation, with the
\* record at hand: the task starts over.
Select(i) ==
  /\ selects < MaxSelects
  /\ phone' = Blank(i) /\ selects' = selects + 1
  /\ UNCHANGED <<logVars, fetch>>

PhoneStep(f) == CatchUp(f) \/ TakePage(f) \/ TakeRecord(f) \/ Disown(f)

PhoneNext ==
  \/ \E f \in Catchups : CatchUp(f)
  \/ \E f \in Catchups : TakePage(f)
  \/ \E f \in Catchups : TakeRecord(f)
  \/ \E f \in Catchups : Disown(f)
  \/ \E f \in Catchups : CatchUpFails(f)
  \/ \E i \in 1..incarnation : Select(i)

=============================================================================
