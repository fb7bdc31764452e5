------------------------------- MODULE Devices -------------------------------
(***************************************************************************)
(* One task and the surfaces that follow it and send to it.  Surfaces meet *)
(* only at the host, so an instance watches one of them: "desktop" and     *)
(* "phone" follow the journal; "dock", "agent" and "composer" send prompts *)
(* from the macOS task view, the Agents window and the phone.              *)
(***************************************************************************)
EXTENDS DesktopFeed, PhoneFeed, DockSends, AgentTurns, PhoneSends

CONSTANT Devices   \* the surfaces an instance chooses from

VARIABLE device

feedVars == <<macVars, phoneVars>>
sendVars == <<deskVars, dockVars, turns, phoneSendVars>>
vars     == <<logVars, feedVars, sendVars, device>>

Init ==
  /\ LogInit /\ MacInit /\ PhoneInit
  /\ DeskInit /\ DockInit /\ turns = 0 /\ PhoneSendInit
  /\ device \in Devices

Followers == {"desktop", "phone"}
Following == device \in Followers /\ UNCHANGED <<sendVars, device>>
Sending   == device \notin Followers /\ UNCHANGED <<feedVars, device>>

Journal  == (AppendEvent \/ Rotate) /\ Following /\ UNCHANGED feedVars
Desktop  == device = "desktop" /\ Following /\ MacNext /\ UNCHANGED phoneVars
Phone    == device = "phone" /\ Following /\ PhoneNext /\ UNCHANGED macVars

Host     == Sending /\ DeskNext /\ UNCHANGED <<dockVars, turns, phoneSendVars>>
Dock     == device = "dock" /\ Sending /\ DockNext /\ UNCHANGED <<turns, phoneSendVars>>
Agent    == device = "agent" /\ Sending /\ AgentNext /\ UNCHANGED <<dockVars, phoneSendVars>>
Composer == device = "composer" /\ Sending /\ PhoneSendNext /\ UNCHANGED <<dockVars, turns>>

Next == Journal \/ Desktop \/ Phone \/ Host \/ Dock \/ Agent \/ Composer

Spec == Init /\ [][Next]_vars
\* The timers run on, and a request is answered in the end.
Fairness ==
  /\ WF_vars(device = "desktop" /\ MacStep /\ Following /\ UNCHANGED phoneVars)
  /\ \A f \in Catchups : WF_vars(device = "phone" /\ PhoneStep(f) /\ Following /\ UNCHANGED macVars)
  /\ WF_vars(device = "dock" /\ PollStep /\ Sending /\ UNCHANGED <<turns, phoneSendVars>>)
FairSpec == Spec /\ Fairness

-----------------------------------------------------------------------------

Increasing(s) == \A k \in 1..(Len(s) - 1) : s[k] < s[k + 1]

\* What a device shows is in journal order, each event once, and none beyond its
\* cursor, whatever pages overlap, are late or are restarted (applyEvent,
\* applyOneEvent).
InOrderOnce ==
  \A v \in {mac, phone} :
    /\ Increasing(v.shown)
    /\ \A k \in DOMAIN v.shown : v.shown[k] \in 1..v.cursor
    /\ v.cursor <= Len(log)

\* What the user sends once runs at most once: clicked twice, refused and sent
\* again, answered late or never, under however many ids (shouldDispatch and
\* envelopeId; commandFailurePlan; the retry of a turn).  In the dock, of a draft
\* that was written once: one edited while a second click waits is sent again.
RunsOnce ==
  (device = "dock" => dock.edits <= 1) => \A i, j \in Ids :
    (i # j /\ delivered[i] = 1 /\ delivered[j] = 1) => row[i].press # row[j].press

\* A device says of a command that it was not sent, was accepted, or ended, only
\* if that is so at the host, also while rows and errors arrive late.
ShownIsTrue ==
  \A i \in Ids :
    /\ shown[i] = "not_dispatched" => delivered[i] = 0
    /\ shown[i] = "accepted" => delivered[i] = 1
    /\ shown[i] \in {"completed", "failed"} => status[i] = shown[i]

\* A desktop that is connected ends up with the task's present run and at the
\* end of its journal, whatever was opened, started or lost before (pullEvents).
DesktopFollows ==
  device = "desktop" => <>[](online => mac.inc = incarnation /\ mac.cursor = Len(log))

\* A connected desktop ends up showing what the host says of every command it
\* has, the ones in doubt included (pullEvents, command_result).
DockLearns ==
  device = "dock" =>
    <>[](poll.online => \A i \in Ids : status[i] # "none" => shown[i] = Worded(status[i]))

\* The phone recovers, when the task is started again elsewhere:
\* CEDIA-PLAN.md:1909, "The phone recovers from a rotated incarnation".
PhoneRecovers ==
  device = "phone" => <>[](phone.inc = incarnation /\ phone.cursor = Len(log))
=============================================================================
