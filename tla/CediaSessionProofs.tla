------------------------- MODULE CediaSessionProofs -------------------------
(***************************************************************************)
(* What holds of CediaSession for any set of command ids, any number of    *)
(* OMP processes and host crashes, and either setting of its switches.     *)
(*                                                                         *)
(* The first part is about the rows, the client and the suspended          *)
(* coroutines.  The second is about what the pipes carry: only what was    *)
(* written is answered, an agent_end completes the prompt it belongs to,   *)
(* and the rows keep CommandPromise.  The last names the circumstances     *)
(* without which the host does not freeze and no session is revived.       *)
(***************************************************************************)
EXTENDS CediaSession, TLAPS

----------------------------------------------------------------------------
\* The inductive invariant.

\* No command is in progress anywhere in the host.
Quiet == \A c \in Cmds : disp[c] = "none"

\* A start begins without commands and refuses new ones until it is over, and so
\* does a stop that waits for it; a finished stop has left none to its waiters.
QuietPhases ==
  /\ starting # "no" => Quiet
  /\ stopping = "waitStart" => Quiet
  /\ stopping = "no" /\ after # <<>> => Quiet
  /\ up = "down" => Quiet /\ client = "none" /\ starting = "no"
  /\ starting = "probe" => client = "none"
  /\ starting = "spawn" => client = "opening"

\* Requests are pending in a client only, and only while it can still settle them.
RequestsHaveClient ==
  \A c \in Cmds :
    /\ disp[c] \in {"queued", "written"} => client \in {"ready", "exiting"}
    /\ disp[c] \notin {"none", "claiming"} => client # "none"

\* The runtime that is registered is the one of the session's incarnation.
CurrentRuntime == client # "none" => rtInc = inc

\* What the progress of a command says about its row and its delivery.
DispatchOrder ==
  \A c \in Cmds :
    /\ status[c] = "none" => disp[c] = "none" /\ sent[c] = 0
    /\ disp[c] \in {"claiming", "queued", "notDispatched"} => sent[c] = 0
    /\ disp[c] = "claiming" => req[c].inc = inc
    /\ disp[c] = "queued" => req[c].inc = rtInc
    /\ status[c] = "not_dispatched" => disp[c] \notin {"claiming", "queued"}

\* Nothing is unfinished while OMP is being started.
NothingOpenAtStart == starting # "no" => \A c \in Cmds : status[c] \notin Pending

\* A runtime is marked closing by a failed start, by the stop under way, or by a stop
\* that failed over a held pipe; nothing holds the pipe of a live process.
ClosingHasReason ==
  /\ closing => client # "none" /\ (starting = "cleanup" \/ stopping = "closing" \/ held)
  /\ starting = "spawn" => ~closing
  /\ starting \in {"handshake", "subscribe"} => client # "none"
  /\ starting # "no" => stopping # "closing"
  /\ alive => ~held

IInv ==
  /\ TypeOK
  /\ QuietPhases
  /\ RequestsHaveClient
  /\ CurrentRuntime
  /\ DispatchOrder
  /\ NothingOpenAtStart
  /\ ClosingHasReason
  /\ DeliveredAtMostOnce
  /\ NotDispatchedIsTrue
  /\ NoWorkInDoubt
  /\ NoAbandonedCommand

----------------------------------------------------------------------------
\* Types.

LEMMA InitType == Init => TypeOK
<1> SUFFICES ASSUME Init PROVE TypeOK
  OBVIOUS
<1> USE BoundsAssumption DEF Init
<1>1. RowTypes
  BY DEF RowTypes, NoRequest, Kinds, Pending
<1>2. HostTypes
  BY DEF HostTypes
<1>3. OmpTypes
  BY DEF OmpTypes
<1>4. FlagTypes
  BY DEF FlagTypes
<1>5. QED
  BY <1>1, <1>2, <1>3, <1>4 DEF TypeOK

\* The flags of the runtime and of the OMP process stay Boolean.
LEMMA FlagStep == ASSUME TypeOK, [Next]_vars PROVE FlagTypes'
<1> USE CmdsAssumption, BoundsAssumption, SwitchAssumption
    DEF Kinds, Frames, Frame, FrameKinds, Pending, Terminal, NoRequest,
        vars, storeVars, runtimeVars, callVars, hostVars, ompVars, historyVars, TypeOK, FlagTypes
<1>1. CASE StartSession
  BY <1>1 DEF StartSession
<1>2. CASE StartAfterStop
  BY <1>2 DEF StartAfterStop
<1>3. CASE StartOverDead
  BY <1>3 DEF StartOverDead, Lost, Abandoned
<1>4. CASE StartHangs
  BY <1>4 DEF StartHangs
<1>5. CASE StopSession
  BY <1>5 DEF StopSession, WaitForStart, BeginStop, Closing, FailRequests
<1>6. CASE DeleteSession
  BY <1>6 DEF DeleteSession, WaitForStart, BeginStop, Closing, FailRequests, DropSession
<1>7. CASE Reconcile
  BY <1>7 DEF Reconcile
<1>8. CASE \E c \in Cmds, k \in Kinds, i \in 0 .. MaxInc : ClaimCommand(c, k, i)
  BY <1>8 DEF ClaimCommand, Claimable, Fresh
<1>9. CASE ProbeOk
  BY <1>9 DEF ProbeOk
<1>10. CASE ProbeFails
  BY <1>10 DEF ProbeFails
<1>11. CASE SpawnOk
  BY <1>11 DEF SpawnOk
<1>12. CASE SpawnFails
  BY <1>12 DEF SpawnFails
<1>13. CASE HandshakeOk
  BY <1>13 DEF HandshakeOk
<1>14. CASE SubscribeOk
  BY <1>14 DEF SubscribeOk
<1>15. CASE StartFails
  BY <1>15 DEF StartFails, Closing
<1>16. CASE CleanupDone
  BY <1>16 DEF CleanupDone
<1>17. CASE \E c \in Cmds : RefuseCommand(c)
  BY <1>17 DEF RefuseCommand, Transition
<1>18. CASE \E c \in Cmds : DispatchCommand(c)
  BY <1>18 DEF DispatchCommand
<1>19. CASE \E c \in Cmds : WriteCommand(c)
  BY <1>19 DEF WriteCommand
<1>20. CASE \E c \in Cmds : WriteFails(c)
  BY <1>20 DEF WriteFails
<1>21. CASE \E c \in Cmds : RequestTimeout(c)
  BY <1>21 DEF RequestTimeout, Expires, TimeoutOutcome
<1>22. CASE \E c \in Cmds : SettleCommand(c)
  BY <1>22 DEF SettleCommand, Transition, Answer
<1>23. CASE \E c \in Cmds : ReceiveAck(c)
  BY <1>23 DEF ReceiveAck, Receives, Resolve
<1>24. CASE \E c \in Cmds : ReceiveFailure(c)
  BY <1>24 DEF ReceiveFailure, Receives, Resolve, Transition
<1>25. CASE \E c \in Cmds : ReceiveResult(c)
  BY <1>25 DEF ReceiveResult, Receives, Complete, Transition
<1>26. CASE ReceiveStart
  BY <1>26 DEF ReceiveStart, Receives
<1>27. CASE ReceiveEnd
  BY <1>27 DEF ReceiveEnd, Receives, Complete, Transition
<1>28. CASE JournalFails
  BY <1>28 DEF JournalFails, FailRequests
<1>29. CASE IgnoreFrame
  BY <1>29 DEF IgnoreFrame
<1>30. CASE StrayFrame
  BY <1>30 DEF StrayFrame
<1>31. CASE ChildExit
  BY <1>31 DEF ChildExit
<1>32. CASE StdioEnds
  BY <1>32 DEF StdioEnds, FailRequests
<1>33. CASE Watchdog
  BY <1>33 DEF Watchdog, Lost, Abandoned
<1>34. CASE StopAfterStart
  BY <1>34 DEF StopAfterStart, BeginStop, Closing, FailRequests
<1>35. CASE StopDone
  BY <1>35 DEF StopDone, Abandoned
<1>36. CASE StopRejected
  BY <1>36 DEF StopRejected
<1>37. CASE Continue
  BY <1>37 DEF Continue, DropSession, Restarts
<1>38. CASE CloseHost
  BY <1>38 DEF CloseHost
<1>39. CASE CloseStopsSession
  BY <1>39 DEF CloseStopsSession, BeginStop, Closing, FailRequests
<1>40. CASE HostExit
  BY <1>40 DEF HostExit, HostDown
<1>41. CASE HostCrash
  BY <1>41 DEF HostCrash, HostDown
<1>42. CASE OpenHost
  BY <1>42 DEF OpenHost, Abandoned
<1>43. CASE \E c \in Cmds : OmpAnswers(c)
  BY <1>43 DEF OmpAnswers, OmpReads, Emit
<1>44. CASE \E c \in Cmds : OmpStartsTurn(c)
  BY <1>44 DEF OmpStartsTurn, OmpReads, Emit
<1>45. CASE OmpEndsTurn
  BY <1>45 DEF OmpEndsTurn, Emit
<1>46. CASE OmpExits
  BY <1>46 DEF OmpExits
<1>47. CASE OrphanExits
  BY <1>47 DEF OrphanExits
<1>48. CASE UNCHANGED vars
  BY <1>48
<1>49. QED
  BY <1>1, <1>2, <1>3, <1>4, <1>5, <1>6, <1>7, <1>8, <1>9, <1>10, <1>11, <1>12, <1>13, <1>14,
     <1>15, <1>16, <1>17, <1>18, <1>19, <1>20, <1>21, <1>22, <1>23, <1>24, <1>25, <1>26,
     <1>27, <1>28, <1>29, <1>30, <1>31, <1>32, <1>33, <1>34, <1>35, <1>36, <1>37, <1>38,
     <1>39, <1>40, <1>41, <1>42, <1>43, <1>44, <1>45, <1>46, <1>47, <1>48
     DEF Next, Requests, Start, CommandSteps, FrameSteps, EndSteps, HostSteps, OmpSteps

\* The durable rows keep their types.
LEMMA RowStep == ASSUME TypeOK, [Next]_vars PROVE RowTypes'
<1> USE CmdsAssumption, BoundsAssumption, SwitchAssumption
    DEF Kinds, Frames, Frame, FrameKinds, Pending, Terminal, NoRequest,
        vars, storeVars, runtimeVars, callVars, hostVars, ompVars, historyVars, TypeOK, RowTypes, HostTypes
<1>1. CASE StartSession
  BY <1>1 DEF StartSession
<1>2. CASE StartAfterStop
  BY <1>2 DEF StartAfterStop
<1>3. CASE StartOverDead
  BY <1>3 DEF StartOverDead, Lost, Abandoned
<1>4. CASE StartHangs
  BY <1>4 DEF StartHangs
<1>5. CASE StopSession
  BY <1>5 DEF StopSession, WaitForStart, BeginStop, Closing, FailRequests
<1>6. CASE DeleteSession
  BY <1>6 DEF DeleteSession, WaitForStart, BeginStop, Closing, FailRequests, DropSession
<1>7. CASE Reconcile
  BY <1>7 DEF Reconcile
<1>8. CASE \E c \in Cmds, k \in Kinds, i \in 0 .. MaxInc : ClaimCommand(c, k, i)
  BY <1>8 DEF ClaimCommand, Claimable, Fresh
<1>9. CASE ProbeOk
  BY <1>9 DEF ProbeOk
<1>10. CASE ProbeFails
  BY <1>10 DEF ProbeFails
<1>11. CASE SpawnOk
  BY <1>11 DEF SpawnOk
<1>12. CASE SpawnFails
  BY <1>12 DEF SpawnFails
<1>13. CASE HandshakeOk
  BY <1>13 DEF HandshakeOk
<1>14. CASE SubscribeOk
  BY <1>14 DEF SubscribeOk
<1>15. CASE StartFails
  BY <1>15 DEF StartFails, Closing
<1>16. CASE CleanupDone
  BY <1>16 DEF CleanupDone
<1>17. CASE \E c \in Cmds : RefuseCommand(c)
  BY <1>17 DEF RefuseCommand, Transition
<1>18. CASE \E c \in Cmds : DispatchCommand(c)
  BY <1>18 DEF DispatchCommand
<1>19. CASE \E c \in Cmds : WriteCommand(c)
  BY <1>19 DEF WriteCommand
<1>20. CASE \E c \in Cmds : WriteFails(c)
  BY <1>20 DEF WriteFails
<1>21. CASE \E c \in Cmds : RequestTimeout(c)
  BY <1>21 DEF RequestTimeout, Expires, TimeoutOutcome
<1>22. CASE \E c \in Cmds : SettleCommand(c)
  BY <1>22 DEF SettleCommand, Transition, Answer
<1>23. CASE \E c \in Cmds : ReceiveAck(c)
  BY <1>23 DEF ReceiveAck, Receives, Resolve
<1>24. CASE \E c \in Cmds : ReceiveFailure(c)
  BY <1>24 DEF ReceiveFailure, Receives, Resolve, Transition
<1>25. CASE \E c \in Cmds : ReceiveResult(c)
  BY <1>25 DEF ReceiveResult, Receives, Complete, Transition
<1>26. CASE ReceiveStart
  BY <1>26 DEF ReceiveStart, Receives
<1>27. CASE ReceiveEnd
  BY <1>27 DEF ReceiveEnd, Receives, Complete, Transition
<1>28. CASE JournalFails
  BY <1>28 DEF JournalFails, FailRequests
<1>29. CASE IgnoreFrame
  BY <1>29 DEF IgnoreFrame
<1>30. CASE StrayFrame
  BY <1>30 DEF StrayFrame
<1>31. CASE ChildExit
  BY <1>31 DEF ChildExit
<1>32. CASE StdioEnds
  BY <1>32 DEF StdioEnds, FailRequests
<1>33. CASE Watchdog
  BY <1>33 DEF Watchdog, Lost, Abandoned
<1>34. CASE StopAfterStart
  BY <1>34 DEF StopAfterStart, BeginStop, Closing, FailRequests
<1>35. CASE StopDone
  BY <1>35 DEF StopDone, Abandoned
<1>36. CASE StopRejected
  BY <1>36 DEF StopRejected
<1>37. CASE Continue
  BY <1>37 DEF Continue, DropSession, Restarts
<1>38. CASE CloseHost
  BY <1>38 DEF CloseHost
<1>39. CASE CloseStopsSession
  BY <1>39 DEF CloseStopsSession, BeginStop, Closing, FailRequests
<1>40. CASE HostExit
  BY <1>40 DEF HostExit, HostDown
<1>41. CASE HostCrash
  BY <1>41 DEF HostCrash, HostDown
<1>42. CASE OpenHost
  BY <1>42 DEF OpenHost, Abandoned
<1>43. CASE \E c \in Cmds : OmpAnswers(c)
  BY <1>43 DEF OmpAnswers, OmpReads, Emit
<1>44. CASE \E c \in Cmds : OmpStartsTurn(c)
  BY <1>44 DEF OmpStartsTurn, OmpReads, Emit
<1>45. CASE OmpEndsTurn
  BY <1>45 DEF OmpEndsTurn, Emit
<1>46. CASE OmpExits
  BY <1>46 DEF OmpExits
<1>47. CASE OrphanExits
  BY <1>47 DEF OrphanExits
<1>48. CASE UNCHANGED vars
  BY <1>48
<1>49. QED
  BY <1>1, <1>2, <1>3, <1>4, <1>5, <1>6, <1>7, <1>8, <1>9, <1>10, <1>11, <1>12, <1>13, <1>14,
     <1>15, <1>16, <1>17, <1>18, <1>19, <1>20, <1>21, <1>22, <1>23, <1>24, <1>25, <1>26,
     <1>27, <1>28, <1>29, <1>30, <1>31, <1>32, <1>33, <1>34, <1>35, <1>36, <1>37, <1>38,
     <1>39, <1>40, <1>41, <1>42, <1>43, <1>44, <1>45, <1>46, <1>47, <1>48
     DEF Next, Requests, Start, CommandSteps, FrameSteps, EndSteps, HostSteps, OmpSteps

\* What the host process holds in memory keeps its types.
LEMMA HostStep == ASSUME TypeOK, [Next]_vars PROVE HostTypes'
<1> USE CmdsAssumption, BoundsAssumption, SwitchAssumption
    DEF Kinds, Frames, Frame, FrameKinds, Pending, Terminal, NoRequest,
        vars, storeVars, runtimeVars, callVars, hostVars, ompVars, historyVars, TypeOK, RowTypes, HostTypes, OmpTypes
<1>1. CASE StartSession
  BY <1>1 DEF StartSession
<1>2. CASE StartAfterStop
  BY <1>2 DEF StartAfterStop
<1>3. CASE StartOverDead
  BY <1>3 DEF StartOverDead, Lost, Abandoned
<1>4. CASE StartHangs
  BY <1>4 DEF StartHangs
<1>5. CASE StopSession
  BY <1>5 DEF StopSession, WaitForStart, BeginStop, Closing, FailRequests
<1>6. CASE DeleteSession
  <2>1. after' \in Seq({"start", "delete"})
    <3>1. <<"delete">> \in Seq({"start", "delete"}) /\ Append(after, "delete") \in Seq({"start", "delete"})
      OBVIOUS
    <3>2. after' \in {after, Append(after, "delete"), <<"delete">>}
      BY <1>6 DEF DeleteSession
    <3>3. QED
      BY <3>1, <3>2
  <2>2. client' \in {client, Closing(client)} /\ disp' \in {disp, FailRequests(disp)}
    BY <1>6 DEF DeleteSession, WaitForStart, BeginStop
  <2>3. stopping' \in {stopping, "waitStart", "closing"}
    BY <1>6 DEF DeleteSession, WaitForStart, BeginStop
  <2>4. UNCHANGED <<rtInc, active, known, starting, up, stray, downs>>
    BY <1>6 DEF DeleteSession, WaitForStart, BeginStop
  <2>5. QED
    BY <2>1, <2>2, <2>3, <2>4 DEF Closing, FailRequests
<1>7. CASE Reconcile
  BY <1>7 DEF Reconcile
<1>8. CASE \E c \in Cmds, k \in Kinds, i \in 0 .. MaxInc : ClaimCommand(c, k, i)
  BY <1>8 DEF ClaimCommand, Claimable, Fresh
<1>9. CASE ProbeOk
  <2>1. CASE sess = "absent"
    BY <1>9, <2>1 DEF ProbeOk
  <2>2. CASE sess # "absent"
    BY <1>9, <2>2 DEF ProbeOk
  <2>3. QED
    BY <2>1, <2>2
<1>10. CASE ProbeFails
  BY <1>10 DEF ProbeFails
<1>11. CASE SpawnOk
  BY <1>11 DEF SpawnOk
<1>12. CASE SpawnFails
  BY <1>12 DEF SpawnFails
<1>13. CASE HandshakeOk
  BY <1>13 DEF HandshakeOk
<1>14. CASE SubscribeOk
  BY <1>14 DEF SubscribeOk
<1>15. CASE StartFails
  BY <1>15 DEF StartFails, Closing
<1>16. CASE CleanupDone
  BY <1>16 DEF CleanupDone
<1>17. CASE \E c \in Cmds : RefuseCommand(c)
  BY <1>17 DEF RefuseCommand, Transition
<1>18. CASE \E c \in Cmds : DispatchCommand(c)
  BY <1>18 DEF DispatchCommand
<1>19. CASE \E c \in Cmds : WriteCommand(c)
  BY <1>19, SMTT(30) DEF WriteCommand
<1>20. CASE \E c \in Cmds : WriteFails(c)
  BY <1>20 DEF WriteFails
<1>21. CASE \E c \in Cmds : RequestTimeout(c)
  BY <1>21 DEF RequestTimeout, Expires, TimeoutOutcome
<1>22. CASE \E c \in Cmds : SettleCommand(c)
  <2>1. PICK c \in Cmds : SettleCommand(c)
    BY <1>22
  <2>2. /\ active' \in {NoCmd, active} /\ known' \in {known, known \ {c}}
        /\ disp' = [disp EXCEPT ![c] = "none"]
    BY <2>1 DEF SettleCommand
  <2>3. UNCHANGED <<client, rtInc, starting, stopping, after, up, stray, downs>>
    BY <2>1 DEF SettleCommand
  <2>4. QED
    BY <2>2, <2>3
<1>23. CASE \E c \in Cmds : ReceiveAck(c)
  <2>1. PICK c \in Cmds : ReceiveAck(c)
    BY <1>23
  <2>2. disp' \in [Cmds -> {"none", "claiming", "queued", "written", "acked", "local",
                            "failed", "notDispatched", "unknown"}]
    BY <2>1 DEF ReceiveAck, Resolve
  <2>3. UNCHANGED <<client, rtInc, active, known, starting, stopping, after, up, stray, downs>>
    BY <2>1 DEF ReceiveAck, Receives
  <2>4. QED
    BY <2>2, <2>3
<1>24. CASE \E c \in Cmds : ReceiveFailure(c)
  BY <1>24, SMTT(30) DEF ReceiveFailure, Receives, Resolve, Transition
<1>25. CASE \E c \in Cmds : ReceiveResult(c)
  BY <1>25 DEF ReceiveResult, Receives, Complete, Transition
<1>26. CASE ReceiveStart
  BY <1>26 DEF ReceiveStart, Receives
<1>27. CASE ReceiveEnd
  BY <1>27 DEF ReceiveEnd, Receives, Complete, Transition
<1>28. CASE JournalFails
  BY <1>28 DEF JournalFails, FailRequests
<1>29. CASE IgnoreFrame
  BY <1>29 DEF IgnoreFrame
<1>30. CASE StrayFrame
  BY <1>30, SMTT(30) DEF StrayFrame
<1>31. CASE ChildExit
  BY <1>31 DEF ChildExit
<1>32. CASE StdioEnds
  BY <1>32 DEF StdioEnds, FailRequests
<1>33. CASE Watchdog
  BY <1>33 DEF Watchdog, Lost, Abandoned
<1>34. CASE StopAfterStart
  BY <1>34 DEF StopAfterStart, BeginStop, Closing, FailRequests
<1>35. CASE StopDone
  BY <1>35 DEF StopDone, Abandoned
<1>36. CASE StopRejected
  BY <1>36 DEF StopRejected
<1>37. CASE Continue
  <2>1. after' \in Seq({"start", "delete"})
    BY <1>37 DEF Continue
  <2>2. starting' \in {starting, "probe"}
    BY <1>37 DEF Continue
  <2>3. UNCHANGED <<client, rtInc, active, known, stopping, disp, up, stray, downs>>
    BY <1>37 DEF Continue
  <2>4. QED
    BY <2>1, <2>2, <2>3
<1>38. CASE CloseHost
  BY <1>38 DEF CloseHost
<1>39. CASE CloseStopsSession
  BY <1>39 DEF CloseStopsSession, BeginStop, Closing, FailRequests
<1>40. CASE HostExit
  BY <1>40 DEF HostExit, HostDown
<1>41. CASE HostCrash
  BY <1>41 DEF HostCrash, HostDown
<1>42. CASE OpenHost
  BY <1>42 DEF OpenHost, Abandoned
<1>43. CASE \E c \in Cmds : OmpAnswers(c)
  BY <1>43 DEF OmpAnswers, OmpReads, Emit
<1>44. CASE \E c \in Cmds : OmpStartsTurn(c)
  BY <1>44 DEF OmpStartsTurn, OmpReads, Emit
<1>45. CASE OmpEndsTurn
  BY <1>45 DEF OmpEndsTurn, Emit
<1>46. CASE OmpExits
  BY <1>46 DEF OmpExits
<1>47. CASE OrphanExits
  BY <1>47 DEF OrphanExits
<1>48. CASE UNCHANGED vars
  BY <1>48
<1>49. QED
  BY <1>1, <1>2, <1>3, <1>4, <1>5, <1>6, <1>7, <1>8, <1>9, <1>10, <1>11, <1>12, <1>13, <1>14,
     <1>15, <1>16, <1>17, <1>18, <1>19, <1>20, <1>21, <1>22, <1>23, <1>24, <1>25, <1>26,
     <1>27, <1>28, <1>29, <1>30, <1>31, <1>32, <1>33, <1>34, <1>35, <1>36, <1>37, <1>38,
     <1>39, <1>40, <1>41, <1>42, <1>43, <1>44, <1>45, <1>46, <1>47, <1>48
     DEF Next, Requests, Start, CommandSteps, FrameSteps, EndSteps, HostSteps, OmpSteps

\* The OMP process, its pipes and the history keep their types.
LEMMA OmpStep == ASSUME TypeOK, [Next]_vars PROVE OmpTypes'
<1> USE CmdsAssumption, BoundsAssumption, SwitchAssumption
    DEF Kinds, Frames, Frame, FrameKinds, Pending, Terminal, NoRequest,
        vars, storeVars, runtimeVars, callVars, hostVars, ompVars, historyVars, TypeOK, RowTypes, HostTypes, OmpTypes
<1>1. CASE StartSession
  BY <1>1 DEF StartSession
<1>2. CASE StartAfterStop
  BY <1>2 DEF StartAfterStop
<1>3. CASE StartOverDead
  BY <1>3 DEF StartOverDead, Lost, Abandoned
<1>4. CASE StartHangs
  BY <1>4 DEF StartHangs
<1>5. CASE StopSession
  BY <1>5 DEF StopSession, WaitForStart, BeginStop, Closing, FailRequests
<1>6. CASE DeleteSession
  <2>1. UNCHANGED <<inbox, turn, wire>>
    BY <1>6 DEF DeleteSession
  <2>2. CASE UNCHANGED <<sent, sentTo, done>>
    BY <2>1, <2>2
  <2>3. CASE DropSession
    BY <2>1, <2>3 DEF DropSession
  <2>4. QED
    BY <1>6, <2>2, <2>3 DEF DeleteSession
<1>7. CASE Reconcile
  BY <1>7 DEF Reconcile
<1>8. CASE \E c \in Cmds, k \in Kinds, i \in 0 .. MaxInc : ClaimCommand(c, k, i)
  BY <1>8 DEF ClaimCommand, Claimable, Fresh
<1>9. CASE ProbeOk
  BY <1>9 DEF ProbeOk
<1>10. CASE ProbeFails
  BY <1>10 DEF ProbeFails
<1>11. CASE SpawnOk
  BY <1>11 DEF SpawnOk
<1>12. CASE SpawnFails
  BY <1>12 DEF SpawnFails
<1>13. CASE HandshakeOk
  BY <1>13 DEF HandshakeOk
<1>14. CASE SubscribeOk
  BY <1>14 DEF SubscribeOk
<1>15. CASE StartFails
  BY <1>15 DEF StartFails, Closing
<1>16. CASE CleanupDone
  BY <1>16 DEF CleanupDone
<1>17. CASE \E c \in Cmds : RefuseCommand(c)
  BY <1>17 DEF RefuseCommand, Transition
<1>18. CASE \E c \in Cmds : DispatchCommand(c)
  BY <1>18 DEF DispatchCommand
<1>19. CASE \E c \in Cmds : WriteCommand(c)
  <2>1. PICK c \in Cmds : WriteCommand(c)
    BY <1>19
  <2>2. inbox' \in Seq(Cmds)
    BY <2>1 DEF WriteCommand
  <2>3. sent' \in [Cmds -> Nat] /\ sentTo' \in [Cmds -> 0 .. MaxInc]
    <3>1. sent' = [sent EXCEPT ![c] = @ + 1] /\ sentTo' = [sentTo EXCEPT ![c] = rtInc]
      BY <2>1 DEF WriteCommand
    <3>2. sent' \in [Cmds -> Nat]
      BY <3>1, SMTT(30)
    <3>3. sentTo' \in [Cmds -> 0 .. MaxInc]
      BY <3>1
    <3>4. QED
      BY <3>2, <3>3
  <2>4. turn' = turn /\ wire' = wire /\ done' = done
    BY <2>1 DEF WriteCommand
  <2>5. QED
    BY <2>2, <2>3, <2>4
<1>20. CASE \E c \in Cmds : WriteFails(c)
  BY <1>20 DEF WriteFails
<1>21. CASE \E c \in Cmds : RequestTimeout(c)
  BY <1>21 DEF RequestTimeout, Expires, TimeoutOutcome
<1>22. CASE \E c \in Cmds : SettleCommand(c)
  BY <1>22 DEF SettleCommand, Transition, Answer
<1>23. CASE \E c \in Cmds : ReceiveAck(c)
  <2>1. wire # <<>> /\ wire' = Tail(wire)
    BY <1>23 DEF ReceiveAck, Receives
  <2>2. UNCHANGED <<inbox, turn, sent, sentTo, done>>
    BY <1>23 DEF ReceiveAck, Receives
  <2>3. QED
    BY <2>1, <2>2, SMTT(30)
<1>24. CASE \E c \in Cmds : ReceiveFailure(c)
  BY <1>24 DEF ReceiveFailure, Receives, Resolve, Transition
<1>25. CASE \E c \in Cmds : ReceiveResult(c)
  BY <1>25 DEF ReceiveResult, Receives, Complete, Transition
<1>26. CASE ReceiveStart
  BY <1>26 DEF ReceiveStart, Receives
<1>27. CASE ReceiveEnd
  BY <1>27 DEF ReceiveEnd, Receives, Complete, Transition
<1>28. CASE JournalFails
  BY <1>28 DEF JournalFails, FailRequests
<1>29. CASE IgnoreFrame
  BY <1>29 DEF IgnoreFrame
<1>30. CASE StrayFrame
  BY <1>30 DEF StrayFrame
<1>31. CASE ChildExit
  BY <1>31 DEF ChildExit
<1>32. CASE StdioEnds
  BY <1>32 DEF StdioEnds, FailRequests
<1>33. CASE Watchdog
  BY <1>33 DEF Watchdog, Lost, Abandoned
<1>34. CASE StopAfterStart
  BY <1>34 DEF StopAfterStart, BeginStop, Closing, FailRequests
<1>35. CASE StopDone
  BY <1>35 DEF StopDone, Abandoned
<1>36. CASE StopRejected
  BY <1>36 DEF StopRejected
<1>37. CASE Continue
  <2>1. UNCHANGED <<inbox, turn, wire>>
    BY <1>37 DEF Continue
  <2>2. CASE UNCHANGED <<sent, sentTo, done>>
    BY <2>1, <2>2
  <2>3. CASE DropSession
    BY <2>1, <2>3 DEF DropSession
  <2>4. QED
    BY <1>37, <2>2, <2>3 DEF Continue
<1>38. CASE CloseHost
  BY <1>38 DEF CloseHost
<1>39. CASE CloseStopsSession
  BY <1>39 DEF CloseStopsSession, BeginStop, Closing, FailRequests
<1>40. CASE HostExit
  BY <1>40 DEF HostExit, HostDown
<1>41. CASE HostCrash
  BY <1>41 DEF HostCrash, HostDown
<1>42. CASE OpenHost
  BY <1>42 DEF OpenHost, Abandoned
<1>43. CASE \E c \in Cmds : OmpAnswers(c)
  <2>1. PICK c \in Cmds : OmpAnswers(c)
    BY <1>43
  <2>2. wire' \in Seq(Frames)
    <3>1. \E frames \in Seq(Frames) : wire' = wire \o frames
      <4>1. \A t \in FrameKinds : Frame(t, c) \in Frames
        BY <2>1
      <4>2. /\ <<Frame("ack", c)>> \in Seq(Frames)
            /\ <<Frame("local", c)>> \in Seq(Frames)
            /\ <<Frame("fail", c)>> \in Seq(Frames)
            /\ <<Frame("ack", c), Frame("result", c)>> \in Seq(Frames)
            /\ <<Frame("ack", c), Frame("fail", c)>> \in Seq(Frames)
        BY <4>1
      <4>3. QED
        BY <2>1, <4>2 DEF OmpAnswers, Emit
    <3>2. QED
      BY <3>1
  <2>3. inbox' \in Seq(Cmds)
    BY <2>1 DEF OmpAnswers, OmpReads
  <2>4. UNCHANGED <<turn, sent, sentTo>> /\ done' \in SUBSET Cmds
    BY <2>1 DEF OmpAnswers, OmpReads
  <2>5. QED
    BY <2>2, <2>3, <2>4
<1>44. CASE \E c \in Cmds : OmpStartsTurn(c)
  <2>1. PICK c \in Cmds : OmpStartsTurn(c)
    BY <1>44
  <2>2. wire' = wire \o <<Frame("ack", c), Frame("start", NoCmd)>>
    BY <2>1 DEF OmpStartsTurn, Emit
  <2>3. <<Frame("ack", c), Frame("start", NoCmd)>> \in Seq(Frames)
    OBVIOUS
  <2>4. wire' \in Seq(Frames)
    BY <2>2, <2>3
  <2>5. turn' = c /\ inbox' \in Seq(Cmds)
    BY <2>1 DEF OmpStartsTurn, OmpReads
  <2>6. UNCHANGED <<sent, sentTo, done>>
    BY <2>1 DEF OmpStartsTurn, OmpReads
  <2>7. QED
    BY <2>4, <2>5, <2>6
<1>45. CASE OmpEndsTurn
  BY <1>45 DEF OmpEndsTurn, Emit
<1>46. CASE OmpExits
  BY <1>46 DEF OmpExits
<1>47. CASE OrphanExits
  BY <1>47 DEF OrphanExits
<1>48. CASE UNCHANGED vars
  BY <1>48
<1>49. QED
  BY <1>1, <1>2, <1>3, <1>4, <1>5, <1>6, <1>7, <1>8, <1>9, <1>10, <1>11, <1>12, <1>13, <1>14,
     <1>15, <1>16, <1>17, <1>18, <1>19, <1>20, <1>21, <1>22, <1>23, <1>24, <1>25, <1>26,
     <1>27, <1>28, <1>29, <1>30, <1>31, <1>32, <1>33, <1>34, <1>35, <1>36, <1>37, <1>38,
     <1>39, <1>40, <1>41, <1>42, <1>43, <1>44, <1>45, <1>46, <1>47, <1>48
     DEF Next, Requests, Start, CommandSteps, FrameSteps, EndSteps, HostSteps, OmpSteps

\* Every state the session can reach is well typed.
THEOREM TypeCorrect == Spec => []TypeOK
<1>1. TypeOK /\ [Next]_vars => TypeOK'
  BY FlagStep, RowStep, HostStep, OmpStep DEF TypeOK
<1>2. QED
  BY <1>1, InitType, PTL DEF Spec

----------------------------------------------------------------------------
\* The invariant is inductive.

LEMMA InitIInv == Init => IInv
<1> SUFFICES ASSUME Init PROVE IInv
  OBVIOUS
<1>1. TypeOK
  BY InitType
<1>2. QuietPhases /\ RequestsHaveClient /\ CurrentRuntime /\ ClosingHasReason
  BY DEF Init, QuietPhases, Quiet, RequestsHaveClient, CurrentRuntime, ClosingHasReason
<1>3. DispatchOrder /\ NothingOpenAtStart
  BY DEF Init, DispatchOrder, NothingOpenAtStart, Pending
<1>4. DeliveredAtMostOnce /\ NotDispatchedIsTrue /\ NoWorkInDoubt /\ NoAbandonedCommand
  BY DEF Init, DeliveredAtMostOnce, NotDispatchedIsTrue, NoWorkInDoubt, NoAbandonedCommand,
         Pending
<1>5. QED
  BY <1>1, <1>2, <1>3, <1>4 DEF IInv

\* No request of a client survives its runtime, and none is made while one starts.
LEMMA ControlStep ==
  ASSUME IInv, [Next]_vars
  PROVE  (QuietPhases /\ RequestsHaveClient /\ CurrentRuntime)'
<1> USE CmdsAssumption, BoundsAssumption, SwitchAssumption
    DEF Pending, Terminal, vars, storeVars, runtimeVars, callVars, hostVars, ompVars,
        historyVars, Calm, Running, Synchronous, Quiet, IInv, TypeOK, RowTypes, HostTypes, QuietPhases, RequestsHaveClient, CurrentRuntime
<1>1. CASE StartSession
  BY <1>1 DEF StartSession
<1>2. CASE StartAfterStop
  BY <1>2 DEF StartAfterStop
<1>3. CASE StartOverDead
  BY <1>3 DEF StartOverDead, Lost, Abandoned
<1>4. CASE StartHangs
  BY <1>4 DEF StartHangs
<1>5. CASE StopSession
  BY <1>5 DEF StopSession, WaitForStart, BeginStop, Closing, FailRequests
<1>6. CASE DeleteSession
  BY <1>6 DEF DeleteSession, WaitForStart, BeginStop, Closing, FailRequests, DropSession
<1>7. CASE Reconcile
  BY <1>7 DEF Reconcile
<1>8. CASE \E c \in Cmds, k \in Kinds, i \in 0 .. MaxInc : ClaimCommand(c, k, i)
  BY <1>8 DEF ClaimCommand, Claimable, Fresh
<1>9. CASE ProbeOk
  BY <1>9 DEF ProbeOk
<1>10. CASE ProbeFails
  BY <1>10 DEF ProbeFails
<1>11. CASE SpawnOk
  BY <1>11 DEF SpawnOk
<1>12. CASE SpawnFails
  BY <1>12 DEF SpawnFails
<1>13. CASE HandshakeOk
  BY <1>13 DEF HandshakeOk
<1>14. CASE SubscribeOk
  BY <1>14 DEF SubscribeOk
<1>15. CASE StartFails
  BY <1>15 DEF StartFails, Closing
<1>16. CASE CleanupDone
  BY <1>16 DEF CleanupDone
<1>17. CASE \E c \in Cmds : RefuseCommand(c)
  BY <1>17 DEF RefuseCommand, Transition
<1>18. CASE \E c \in Cmds : DispatchCommand(c)
  BY <1>18 DEF DispatchCommand, CanDispatch, RuntimeReady
<1>19. CASE \E c \in Cmds : WriteCommand(c)
  BY <1>19 DEF WriteCommand
<1>20. CASE \E c \in Cmds : WriteFails(c)
  BY <1>20 DEF WriteFails
<1>21. CASE \E c \in Cmds : RequestTimeout(c)
  BY <1>21 DEF RequestTimeout, Expires, TimeoutOutcome
<1>22. CASE \E c \in Cmds : SettleCommand(c)
  BY <1>22 DEF SettleCommand, Transition, Answer
<1>23. CASE \E c \in Cmds : ReceiveAck(c)
  BY <1>23 DEF ReceiveAck, Receives, Resolve
<1>24. CASE \E c \in Cmds : ReceiveFailure(c)
  BY <1>24 DEF ReceiveFailure, Receives, Resolve, Transition
<1>25. CASE \E c \in Cmds : ReceiveResult(c)
  BY <1>25 DEF ReceiveResult, Receives, Complete, Transition
<1>26. CASE ReceiveStart
  BY <1>26 DEF ReceiveStart, Receives
<1>27. CASE ReceiveEnd
  BY <1>27 DEF ReceiveEnd, Receives, Complete, Transition
<1>28. CASE JournalFails
  BY <1>28 DEF JournalFails, FailRequests
<1>29. CASE IgnoreFrame
  BY <1>29 DEF IgnoreFrame
<1>30. CASE StrayFrame
  BY <1>30 DEF StrayFrame
<1>31. CASE ChildExit
  BY <1>31 DEF ChildExit
<1>32. CASE StdioEnds
  BY <1>32 DEF StdioEnds, FailRequests
<1>33. CASE Watchdog
  BY <1>33 DEF Watchdog, Lost, Abandoned
<1>34. CASE StopAfterStart
  BY <1>34 DEF StopAfterStart, BeginStop, Closing, FailRequests
<1>35. CASE StopDone
  BY <1>35 DEF StopDone, Abandoned
<1>36. CASE StopRejected
  BY <1>36 DEF StopRejected
<1>37. CASE Continue
  BY <1>37 DEF Continue, DropSession, Restarts
<1>38. CASE CloseHost
  BY <1>38 DEF CloseHost
<1>39. CASE CloseStopsSession
  BY <1>39 DEF CloseStopsSession, BeginStop, Closing, FailRequests
<1>40. CASE HostExit
  BY <1>40 DEF HostExit, HostDown
<1>41. CASE HostCrash
  BY <1>41 DEF HostCrash, HostDown
<1>42. CASE OpenHost
  BY <1>42 DEF OpenHost, Abandoned
<1>43. CASE \E c \in Cmds : OmpAnswers(c)
  BY <1>43 DEF OmpAnswers, OmpReads, Emit
<1>44. CASE \E c \in Cmds : OmpStartsTurn(c)
  BY <1>44 DEF OmpStartsTurn, OmpReads, Emit
<1>45. CASE OmpEndsTurn
  BY <1>45 DEF OmpEndsTurn, Emit
<1>46. CASE OmpExits
  BY <1>46 DEF OmpExits
<1>47. CASE OrphanExits
  BY <1>47 DEF OrphanExits
<1>48. CASE UNCHANGED vars
  BY <1>48
<1>49. QED
  BY <1>1, <1>2, <1>3, <1>4, <1>5, <1>6, <1>7, <1>8, <1>9, <1>10, <1>11, <1>12, <1>13, <1>14,
     <1>15, <1>16, <1>17, <1>18, <1>19, <1>20, <1>21, <1>22, <1>23, <1>24, <1>25, <1>26,
     <1>27, <1>28, <1>29, <1>30, <1>31, <1>32, <1>33, <1>34, <1>35, <1>36, <1>37, <1>38,
     <1>39, <1>40, <1>41, <1>42, <1>43, <1>44, <1>45, <1>46, <1>47, <1>48
     DEF Next, Requests, Start, CommandSteps, FrameSteps, EndSteps, HostSteps, OmpSteps

\* Nothing is open while OMP starts, doubt has no runtime.
LEMMA OpenStep ==
  ASSUME IInv, [Next]_vars
  PROVE  (NothingOpenAtStart /\ NoWorkInDoubt)'
<1> USE CmdsAssumption, BoundsAssumption, SwitchAssumption
    DEF Pending, Terminal, vars, storeVars, runtimeVars, callVars, hostVars, ompVars,
        historyVars, Calm, Running, Synchronous, Quiet, IInv, TypeOK, RowTypes, HostTypes, QuietPhases, RequestsHaveClient, NothingOpenAtStart,
        NoWorkInDoubt, NoAbandonedCommand, MayResume
<1>1. CASE StartSession
  BY <1>1 DEF StartSession, WillSettle, StopMustFail
<1>2. CASE StartAfterStop
  BY <1>2 DEF StartAfterStop
<1>3. CASE StartOverDead
  BY <1>3 DEF StartOverDead, Lost, Abandoned
<1>4. CASE StartHangs
  BY <1>4 DEF StartHangs
<1>5. CASE StopSession
  BY <1>5 DEF StopSession, WaitForStart, BeginStop, Closing, FailRequests
<1>6. CASE DeleteSession
  BY <1>6 DEF DeleteSession, WaitForStart, BeginStop, Closing, FailRequests, DropSession
<1>7. CASE Reconcile
  BY <1>7 DEF Reconcile
<1>8. CASE \E c \in Cmds, k \in Kinds, i \in 0 .. MaxInc : ClaimCommand(c, k, i)
  BY <1>8 DEF ClaimCommand, Claimable, Fresh
<1>9. CASE ProbeOk
  BY <1>9 DEF ProbeOk
<1>10. CASE ProbeFails
  BY <1>10 DEF ProbeFails
<1>11. CASE SpawnOk
  BY <1>11 DEF SpawnOk
<1>12. CASE SpawnFails
  BY <1>12 DEF SpawnFails
<1>13. CASE HandshakeOk
  BY <1>13 DEF HandshakeOk
<1>14. CASE SubscribeOk
  BY <1>14 DEF SubscribeOk
<1>15. CASE StartFails
  BY <1>15 DEF StartFails, Closing
<1>16. CASE CleanupDone
  BY <1>16 DEF CleanupDone
<1>17. CASE \E c \in Cmds : RefuseCommand(c)
  BY <1>17 DEF RefuseCommand, Transition
<1>18. CASE \E c \in Cmds : DispatchCommand(c)
  BY <1>18 DEF DispatchCommand
<1>19. CASE \E c \in Cmds : WriteCommand(c)
  BY <1>19 DEF WriteCommand
<1>20. CASE \E c \in Cmds : WriteFails(c)
  BY <1>20 DEF WriteFails
<1>21. CASE \E c \in Cmds : RequestTimeout(c)
  BY <1>21 DEF RequestTimeout, Expires, TimeoutOutcome
<1>22. CASE \E c \in Cmds : SettleCommand(c)
  BY <1>22 DEF SettleCommand, Transition, Answer
<1>23. CASE \E c \in Cmds : ReceiveAck(c)
  BY <1>23 DEF ReceiveAck, Receives, Resolve
<1>24. CASE \E c \in Cmds : ReceiveFailure(c)
  BY <1>24 DEF ReceiveFailure, Receives, Resolve, Transition
<1>25. CASE \E c \in Cmds : ReceiveResult(c)
  BY <1>25 DEF ReceiveResult, Receives, Complete, Transition
<1>26. CASE ReceiveStart
  BY <1>26 DEF ReceiveStart, Receives
<1>27. CASE ReceiveEnd
  BY <1>27 DEF ReceiveEnd, Receives, Complete, Transition
<1>28. CASE JournalFails
  BY <1>28 DEF JournalFails, FailRequests
<1>29. CASE IgnoreFrame
  BY <1>29 DEF IgnoreFrame
<1>30. CASE StrayFrame
  BY <1>30 DEF StrayFrame
<1>31. CASE ChildExit
  BY <1>31 DEF ChildExit
<1>32. CASE StdioEnds
  BY <1>32 DEF StdioEnds, FailRequests
<1>33. CASE Watchdog
  BY <1>33 DEF Watchdog, Lost, Abandoned
<1>34. CASE StopAfterStart
  BY <1>34 DEF StopAfterStart, BeginStop, Closing, FailRequests
<1>35. CASE StopDone
  BY <1>35 DEF StopDone, Abandoned
<1>36. CASE StopRejected
  BY <1>36 DEF StopRejected
<1>37. CASE Continue
  BY <1>37 DEF Continue, DropSession, Restarts, WillSettle, StopMustFail
<1>38. CASE CloseHost
  BY <1>38 DEF CloseHost
<1>39. CASE CloseStopsSession
  BY <1>39 DEF CloseStopsSession, BeginStop, Closing, FailRequests
<1>40. CASE HostExit
  BY <1>40 DEF HostExit, HostDown
<1>41. CASE HostCrash
  BY <1>41 DEF HostCrash, HostDown
<1>42. CASE OpenHost
  BY <1>42 DEF OpenHost, Abandoned
<1>43. CASE \E c \in Cmds : OmpAnswers(c)
  BY <1>43 DEF OmpAnswers, OmpReads, Emit
<1>44. CASE \E c \in Cmds : OmpStartsTurn(c)
  BY <1>44 DEF OmpStartsTurn, OmpReads, Emit
<1>45. CASE OmpEndsTurn
  BY <1>45 DEF OmpEndsTurn, Emit
<1>46. CASE OmpExits
  BY <1>46 DEF OmpExits
<1>47. CASE OrphanExits
  BY <1>47 DEF OrphanExits
<1>48. CASE UNCHANGED vars
  BY <1>48
<1>49. QED
  BY <1>1, <1>2, <1>3, <1>4, <1>5, <1>6, <1>7, <1>8, <1>9, <1>10, <1>11, <1>12, <1>13, <1>14,
     <1>15, <1>16, <1>17, <1>18, <1>19, <1>20, <1>21, <1>22, <1>23, <1>24, <1>25, <1>26,
     <1>27, <1>28, <1>29, <1>30, <1>31, <1>32, <1>33, <1>34, <1>35, <1>36, <1>37, <1>38,
     <1>39, <1>40, <1>41, <1>42, <1>43, <1>44, <1>45, <1>46, <1>47, <1>48
     DEF Next, Requests, Start, CommandSteps, FrameSteps, EndSteps, HostSteps, OmpSteps

\* Why a runtime is closing, and whose pipe is held.
LEMMA ClosingStep ==
  ASSUME IInv, [Next]_vars
  PROVE  ClosingHasReason'
<1> USE DEF IInv, ClosingHasReason, QuietPhases, vars, storeVars, runtimeVars, callVars, hostVars, ompVars, historyVars
<1>1. CASE StartSession \/ StartAfterStop \/ Reconcile
  BY <1>1 DEF StartSession, StartAfterStop, Reconcile
<1>2. CASE StartOverDead \/ Watchdog
  BY <1>2 DEF StartOverDead, Watchdog, WatchdogFires, Lost
<1>3. CASE StartHangs
  BY <1>3 DEF StartHangs
<1>4. CASE StopSession \/ DeleteSession
  BY <1>4 DEF StopSession, DeleteSession, WaitForStart, BeginStop, Closing
<1>5. ASSUME NEW c \in Cmds, NEW k \in Kinds, NEW i \in 0 .. MaxInc, ClaimCommand(c, k, i)
      PROVE  ClosingHasReason'
  BY <1>5 DEF ClaimCommand
<1>6. CASE ProbeOk \/ ProbeFails \/ SpawnOk \/ SpawnFails
  BY <1>6 DEF ProbeOk, ProbeFails, SpawnOk, SpawnFails
<1>7. CASE HandshakeOk \/ SubscribeOk \/ StartFails \/ CleanupDone
  BY <1>7 DEF HandshakeOk, SubscribeOk, StartFails, CleanupDone, Closing
<1>8. ASSUME NEW c \in Cmds, RefuseCommand(c) \/ DispatchCommand(c) \/ WriteCommand(c)
      PROVE  ClosingHasReason'
  BY <1>8 DEF RefuseCommand, DispatchCommand, WriteCommand
<1>9. ASSUME NEW c \in Cmds, WriteFails(c) \/ RequestTimeout(c) \/ SettleCommand(c)
      PROVE  ClosingHasReason'
  BY <1>9 DEF WriteFails, RequestTimeout, SettleCommand
<1>10. ASSUME NEW c \in Cmds, ReceiveAck(c) \/ ReceiveFailure(c) \/ ReceiveResult(c)
       PROVE  ClosingHasReason'
  BY <1>10 DEF ReceiveAck, ReceiveFailure, ReceiveResult, Receives
<1>11. CASE ReceiveStart \/ ReceiveEnd
  BY <1>11 DEF ReceiveStart, ReceiveEnd, Receives
<1>12. CASE JournalFails \/ IgnoreFrame \/ StrayFrame
  BY <1>12 DEF JournalFails, IgnoreFrame, StrayFrame
<1>13. CASE ChildExit \/ StdioEnds
  BY <1>13 DEF ChildExit, StdioEnds
<1>14. CASE StopAfterStart \/ StopDone \/ StopRejected
  BY <1>14 DEF StopAfterStart, BeginStop, StopDone, StopRejected, Closing
<1>15. CASE Continue
  BY <1>15 DEF Continue, Restarts, DropSession
<1>16. CASE CloseHost \/ CloseStopsSession \/ OpenHost
  BY <1>16 DEF CloseHost, CloseStopsSession, BeginStop, OpenHost, Closing
<1>17. CASE HostExit \/ HostCrash
  BY <1>17 DEF HostExit, HostCrash, HostDown
<1>18. ASSUME NEW c \in Cmds, OmpAnswers(c) \/ OmpStartsTurn(c) PROVE ClosingHasReason'
  BY <1>18 DEF OmpAnswers, OmpStartsTurn, OmpReads
<1>19. CASE OmpEndsTurn \/ OmpExits \/ OrphanExits
  <2>1. CASE OmpExits
    <3>1. ~held /\ ~alive' /\ UNCHANGED <<closing, client, starting, stopping>>
      BY <2>1 DEF OmpExits
    <3> QED
      BY <3>1
  <2>2. CASE OmpEndsTurn \/ OrphanExits
    BY <2>2 DEF OmpEndsTurn, OrphanExits
  <2> QED
    BY <1>19, <2>1, <2>2
<1>20. CASE UNCHANGED vars
  BY <1>20
<1> QED
  BY <1>1, <1>2, <1>3, <1>4, <1>5, <1>6, <1>7, <1>8, <1>9, <1>10, <1>11, <1>12, <1>13, <1>14,
     <1>15, <1>16, <1>17, <1>18, <1>19, <1>20
     DEF Next, Requests, Start, CommandSteps, FrameSteps, EndSteps, HostSteps, OmpSteps

\* Unfinished rows have someone to finish them.
LEMMA SettlerStep ==
  ASSUME IInv, [Next]_vars
  PROVE  NoAbandonedCommand'
<1> USE CmdsAssumption, BoundsAssumption, SwitchAssumption
    DEF Pending, Terminal, vars, storeVars, runtimeVars, callVars, hostVars, ompVars,
        historyVars, Calm, Running, Synchronous, Quiet, IInv, TypeOK, RowTypes, HostTypes, QuietPhases, RequestsHaveClient, NothingOpenAtStart,
        ClosingHasReason,
        NoAbandonedCommand, WillSettle, StopMustFail
<1>1. CASE StartSession
  BY <1>1 DEF StartSession
<1>2. CASE StartAfterStop
  BY <1>2 DEF StartAfterStop
<1>3. CASE StartOverDead
  BY <1>3 DEF StartOverDead, Lost, Abandoned
<1>4. CASE StartHangs
  BY <1>4 DEF StartHangs
<1>5. CASE StopSession
  BY <1>5 DEF StopSession, WaitForStart, BeginStop, Closing, FailRequests
<1>6. CASE DeleteSession
  BY <1>6 DEF DeleteSession, WaitForStart, BeginStop, Closing, FailRequests, DropSession
<1>7. CASE Reconcile
  BY <1>7 DEF Reconcile
<1>8. CASE \E c \in Cmds, k \in Kinds, i \in 0 .. MaxInc : ClaimCommand(c, k, i)
  BY <1>8 DEF ClaimCommand, Claimable, Fresh
<1>9. CASE ProbeOk
  BY <1>9 DEF ProbeOk
<1>10. CASE ProbeFails
  BY <1>10 DEF ProbeFails
<1>11. CASE SpawnOk
  BY <1>11 DEF SpawnOk
<1>12. CASE SpawnFails
  BY <1>12 DEF SpawnFails
<1>13. CASE HandshakeOk
  BY <1>13 DEF HandshakeOk
<1>14. CASE SubscribeOk
  BY <1>14 DEF SubscribeOk
<1>15. CASE StartFails
  BY <1>15 DEF StartFails, Closing
<1>16. CASE CleanupDone
  BY <1>16 DEF CleanupDone
<1>17. CASE \E c \in Cmds : RefuseCommand(c)
  BY <1>17 DEF RefuseCommand, Transition
<1>18. CASE \E c \in Cmds : DispatchCommand(c)
  BY <1>18 DEF DispatchCommand
<1>19. CASE \E c \in Cmds : WriteCommand(c)
  BY <1>19 DEF WriteCommand
<1>20. CASE \E c \in Cmds : WriteFails(c)
  BY <1>20 DEF WriteFails
<1>21. CASE \E c \in Cmds : RequestTimeout(c)
  BY <1>21 DEF RequestTimeout, Expires, TimeoutOutcome
<1>22. CASE \E c \in Cmds : SettleCommand(c)
  BY <1>22 DEF SettleCommand, Transition, Answer
<1>23. CASE \E c \in Cmds : ReceiveAck(c)
  BY <1>23 DEF ReceiveAck, Receives, Resolve
<1>24. CASE \E c \in Cmds : ReceiveFailure(c)
  BY <1>24 DEF ReceiveFailure, Receives, Resolve, Transition
<1>25. CASE \E c \in Cmds : ReceiveResult(c)
  BY <1>25 DEF ReceiveResult, Receives, Complete, Transition
<1>26. CASE ReceiveStart
  BY <1>26 DEF ReceiveStart, Receives
<1>27. CASE ReceiveEnd
  BY <1>27 DEF ReceiveEnd, Receives, Complete, Transition
<1>28. CASE JournalFails
  BY <1>28 DEF JournalFails, FailRequests
<1>29. CASE IgnoreFrame
  BY <1>29 DEF IgnoreFrame
<1>30. CASE StrayFrame
  BY <1>30 DEF StrayFrame
<1>31. CASE ChildExit
  BY <1>31 DEF ChildExit
<1>32. CASE StdioEnds
  BY <1>32 DEF StdioEnds, FailRequests
<1>33. CASE Watchdog
  BY <1>33 DEF Watchdog, Lost, Abandoned
<1>34. CASE StopAfterStart
  BY <1>34 DEF StopAfterStart, BeginStop, Closing, FailRequests
<1>35. CASE StopDone
  BY <1>35 DEF StopDone, Abandoned
<1>36. CASE StopRejected
  BY <1>36 DEF StopRejected
<1>37. CASE Continue
  BY <1>37 DEF Continue, DropSession, Restarts
<1>38. CASE CloseHost
  BY <1>38 DEF CloseHost
<1>39. CASE CloseStopsSession
  BY <1>39 DEF CloseStopsSession, BeginStop, Closing, FailRequests
<1>40. CASE HostExit
  BY <1>40 DEF HostExit, HostDown
<1>41. CASE HostCrash
  BY <1>41 DEF HostCrash, HostDown
<1>42. CASE OpenHost
  BY <1>42 DEF OpenHost, Abandoned
<1>43. CASE \E c \in Cmds : OmpAnswers(c)
  BY <1>43 DEF OmpAnswers, OmpReads, Emit
<1>44. CASE \E c \in Cmds : OmpStartsTurn(c)
  BY <1>44 DEF OmpStartsTurn, OmpReads, Emit
<1>45. CASE OmpEndsTurn
  BY <1>45 DEF OmpEndsTurn, Emit
<1>46. CASE OmpExits
  BY <1>46 DEF OmpExits
<1>47. CASE OrphanExits
  BY <1>47 DEF OrphanExits
<1>48. CASE UNCHANGED vars
  BY <1>48
<1>49. QED
  BY <1>1, <1>2, <1>3, <1>4, <1>5, <1>6, <1>7, <1>8, <1>9, <1>10, <1>11, <1>12, <1>13, <1>14,
     <1>15, <1>16, <1>17, <1>18, <1>19, <1>20, <1>21, <1>22, <1>23, <1>24, <1>25, <1>26,
     <1>27, <1>28, <1>29, <1>30, <1>31, <1>32, <1>33, <1>34, <1>35, <1>36, <1>37, <1>38,
     <1>39, <1>40, <1>41, <1>42, <1>43, <1>44, <1>45, <1>46, <1>47, <1>48
     DEF Next, Requests, Start, CommandSteps, FrameSteps, EndSteps, HostSteps, OmpSteps

\* A row is claimed, then written, in this order and once.
LEMMA DeliveryStep ==
  ASSUME IInv, [Next]_vars
  PROVE  (DispatchOrder /\ DeliveredAtMostOnce /\ NotDispatchedIsTrue)'
<1> USE CmdsAssumption, BoundsAssumption, SwitchAssumption
    DEF Pending, Terminal, vars, storeVars, runtimeVars, callVars, hostVars, ompVars,
        historyVars, Calm, Running, Synchronous, Quiet, IInv, TypeOK, RowTypes, HostTypes, OmpTypes, QuietPhases, RequestsHaveClient, CurrentRuntime,
        DispatchOrder, DeliveredAtMostOnce, NotDispatchedIsTrue
<1>1. CASE StartSession
  BY <1>1 DEF StartSession
<1>2. CASE StartAfterStop
  BY <1>2 DEF StartAfterStop
<1>3. CASE StartOverDead
  BY <1>3 DEF StartOverDead, Lost, Abandoned
<1>4. CASE StartHangs
  BY <1>4 DEF StartHangs
<1>5. CASE StopSession
  <2>1. DispatchOrder'
    BY <1>5 DEF StopSession, WaitForStart, BeginStop, Closing, FailRequests
  <2>2. DeliveredAtMostOnce'
    BY <1>5 DEF StopSession, WaitForStart, BeginStop, Closing, FailRequests
  <2>3. NotDispatchedIsTrue'
    BY <1>5 DEF StopSession, WaitForStart, BeginStop, Closing, FailRequests
  <2>4. QED
    BY <2>1, <2>2, <2>3
<1>6. CASE DeleteSession
  <2>1. disp' = disp \/ disp' = FailRequests(disp)
    BY <1>6 DEF DeleteSession, WaitForStart, BeginStop
  <2>2. UNCHANGED <<inc, rtInc>>
    BY <1>6 DEF DeleteSession, WaitForStart, BeginStop, DropSession
  <2>3. CASE UNCHANGED <<status, req, sent, sentTo>>
    BY <2>1, <2>2, <2>3 DEF FailRequests
  <2>4. CASE DropSession /\ disp' = disp /\ Quiet
    BY <2>2, <2>4 DEF DropSession
  <2>5. stopping = "no" /\ starting = "no" /\ client = "none" => Quiet
    BY <1>6 DEF DeleteSession
  <2>6. QED
    BY <1>6, <2>3, <2>4, <2>5 DEF DeleteSession
<1>7. CASE Reconcile
  BY <1>7 DEF Reconcile
<1>8. CASE \E c \in Cmds, k \in Kinds, i \in 0 .. MaxInc : ClaimCommand(c, k, i)
  BY <1>8 DEF ClaimCommand, Claimable, Fresh
<1>9. CASE ProbeOk
  BY <1>9 DEF ProbeOk
<1>10. CASE ProbeFails
  BY <1>10 DEF ProbeFails
<1>11. CASE SpawnOk
  BY <1>11 DEF SpawnOk
<1>12. CASE SpawnFails
  BY <1>12 DEF SpawnFails
<1>13. CASE HandshakeOk
  BY <1>13 DEF HandshakeOk
<1>14. CASE SubscribeOk
  BY <1>14 DEF SubscribeOk
<1>15. CASE StartFails
  BY <1>15 DEF StartFails, Closing
<1>16. CASE CleanupDone
  BY <1>16 DEF CleanupDone
<1>17. CASE \E c \in Cmds : RefuseCommand(c)
  BY <1>17, SMTT(30) DEF RefuseCommand, Transition
<1>18. CASE \E c \in Cmds : DispatchCommand(c)
  BY <1>18 DEF DispatchCommand, CanDispatch, RuntimeReady
<1>19. CASE \E c \in Cmds : WriteCommand(c)
  BY <1>19 DEF WriteCommand
<1>20. CASE \E c \in Cmds : WriteFails(c)
  BY <1>20 DEF WriteFails
<1>21. CASE \E c \in Cmds : RequestTimeout(c)
  BY <1>21 DEF RequestTimeout, Expires, TimeoutOutcome
<1>22. CASE \E c \in Cmds : SettleCommand(c)
  <2>1. DispatchOrder'
    BY <1>22, SMTT(30) DEF SettleCommand, Transition, Answer
  <2>2. DeliveredAtMostOnce'
    BY <1>22 DEF SettleCommand, Transition, Answer
  <2>3. NotDispatchedIsTrue'
    BY <1>22 DEF SettleCommand, Transition, Answer
  <2>4. QED
    BY <2>1, <2>2, <2>3
<1>23. CASE \E c \in Cmds : ReceiveAck(c)
  BY <1>23, SMTT(30) DEF ReceiveAck, Receives, Resolve
<1>24. CASE \E c \in Cmds : ReceiveFailure(c)
  BY <1>24, SMTT(30) DEF ReceiveFailure, Receives, Resolve, Transition
<1>25. CASE \E c \in Cmds : ReceiveResult(c)
  <2>1. DispatchOrder'
    BY <1>25, SMTT(30) DEF ReceiveResult, Receives, Complete, Transition
  <2>2. DeliveredAtMostOnce'
    BY <1>25 DEF ReceiveResult, Receives, Complete, Transition
  <2>3. NotDispatchedIsTrue'
    BY <1>25 DEF ReceiveResult, Receives, Complete, Transition
  <2>4. QED
    BY <2>1, <2>2, <2>3
<1>26. CASE ReceiveStart
  BY <1>26 DEF ReceiveStart, Receives
<1>27. CASE ReceiveEnd
  BY <1>27 DEF ReceiveEnd, Receives, Complete, Transition
<1>28. CASE JournalFails
  BY <1>28 DEF JournalFails, FailRequests
<1>29. CASE IgnoreFrame
  BY <1>29 DEF IgnoreFrame
<1>30. CASE StrayFrame
  BY <1>30 DEF StrayFrame
<1>31. CASE ChildExit
  BY <1>31 DEF ChildExit
<1>32. CASE StdioEnds
  BY <1>32 DEF StdioEnds, FailRequests
<1>33. CASE Watchdog
  BY <1>33 DEF Watchdog, Lost, Abandoned
<1>34. CASE StopAfterStart
  BY <1>34 DEF StopAfterStart, BeginStop, Closing, FailRequests
<1>35. CASE StopDone
  BY <1>35 DEF StopDone, Abandoned
<1>36. CASE StopRejected
  BY <1>36 DEF StopRejected
<1>37. CASE Continue
  <2>1. DispatchOrder'
    BY <1>37 DEF Continue, DropSession, Restarts
  <2>2. DeliveredAtMostOnce'
    BY <1>37 DEF Continue, DropSession, Restarts
  <2>3. NotDispatchedIsTrue'
    BY <1>37 DEF Continue, DropSession, Restarts
  <2>4. QED
    BY <2>1, <2>2, <2>3
<1>38. CASE CloseHost
  BY <1>38 DEF CloseHost
<1>39. CASE CloseStopsSession
  BY <1>39 DEF CloseStopsSession, BeginStop, Closing, FailRequests
<1>40. CASE HostExit
  BY <1>40 DEF HostExit, HostDown
<1>41. CASE HostCrash
  BY <1>41 DEF HostCrash, HostDown
<1>42. CASE OpenHost
  BY <1>42 DEF OpenHost, Abandoned
<1>43. CASE \E c \in Cmds : OmpAnswers(c)
  BY <1>43 DEF OmpAnswers, OmpReads, Emit
<1>44. CASE \E c \in Cmds : OmpStartsTurn(c)
  BY <1>44 DEF OmpStartsTurn, OmpReads, Emit
<1>45. CASE OmpEndsTurn
  BY <1>45 DEF OmpEndsTurn, Emit
<1>46. CASE OmpExits
  BY <1>46 DEF OmpExits
<1>47. CASE OrphanExits
  BY <1>47 DEF OrphanExits
<1>48. CASE UNCHANGED vars
  BY <1>48
<1>49. QED
  BY <1>1, <1>2, <1>3, <1>4, <1>5, <1>6, <1>7, <1>8, <1>9, <1>10, <1>11, <1>12, <1>13, <1>14,
     <1>15, <1>16, <1>17, <1>18, <1>19, <1>20, <1>21, <1>22, <1>23, <1>24, <1>25, <1>26,
     <1>27, <1>28, <1>29, <1>30, <1>31, <1>32, <1>33, <1>34, <1>35, <1>36, <1>37, <1>38,
     <1>39, <1>40, <1>41, <1>42, <1>43, <1>44, <1>45, <1>46, <1>47, <1>48
     DEF Next, Requests, Start, CommandSteps, FrameSteps, EndSteps, HostSteps, OmpSteps

LEMMA IInvStep == IInv /\ [Next]_vars => IInv'
<1> SUFFICES ASSUME IInv, [Next]_vars PROVE IInv'
  OBVIOUS
<1>1. TypeOK'
  BY FlagStep, RowStep, HostStep, OmpStep DEF TypeOK, IInv
<1>2. QED
  BY <1>1, ControlStep, OpenStep, ClosingStep, SettlerStep, DeliveryStep DEF IInv

\* The strengthened invariant holds in every reachable state.
THEOREM Invariance == Spec => []IInv
BY InitIInv, IInvStep, PTL DEF Spec

\* A command is written at most once, to the process it was composed for.
THEOREM AtMostOnce == Spec => []DeliveredAtMostOnce
BY Invariance, PTL DEF IInv

\* A row that says not_dispatched tells the truth, for ever.
THEOREM NotDispatched == Spec => []NotDispatchedIsTrue
BY Invariance, PTL DEF IInv

\* No runtime exists or starts for a session in doubt.
THEOREM WorkInDoubt == Spec => []NoWorkInDoubt
BY Invariance, PTL DEF IInv

\* A claimed row has its handler, and an acknowledged one has a runtime or a stop that
\* will settle it, unless the stop of its runtime must fail.
THEOREM NothingAbandoned == Spec => []NoAbandonedCommand
BY Invariance, PTL DEF IInv

----------------------------------------------------------------------------
(***************************************************************************)
(* What the pipes carry.                                                   *)
(*                                                                         *)
(* The host matches an agent_end with the active command by position alone.*)
(* That is right because a turn keeps the runtime's one slot from its      *)
(* dispatch to the end frame: nothing that settles its row frees the slot  *)
(* while OMP may still work on it.                                         *)
(***************************************************************************)

Wired == {wire[k] : k \in 1 .. Len(wire)}
Queued == {inbox[k] : k \in 1 .. Len(inbox)}
IsTurn(c) == req[c].kind = "turn"
Ending == \E f \in Wired : f.t = "end"

\* The end of one turn at most is under way, and OMP's input holds a command once.
OneEnd == \A j, k \in 1 .. Len(wire) : wire[j].t = "end" /\ wire[k].t = "end" => j = k
InputOnce == \A j, k \in 1 .. Len(inbox) : inbox[j] = inbox[k] => j = k

\* The pipes are those of a process the registered client reads.
PipesHaveClient ==
  /\ alive => client \in {"ready", "exiting"}
  /\ ~alive => inbox = <<>> /\ turn = NoCmd
  /\ client \notin {"ready", "exiting"} => wire = <<>>
  /\ client \in {"none", "opening"} => active = NoCmd
  /\ client = "exiting" /\ alive /\ ~closing => up # "up"
  /\ stopping = "no" /\ after # <<>> => client = "none"

\* What is under way, answered or finished was written.
WrittenFirst ==
  \A c \in Cmds :
    /\ c \in Queued \/ turn = c \/ c \in done \/ (\E f \in Wired : f.c = c) => sent[c] = 1
    /\ disp[c] \in {"written", "acked", "local", "failed"} => sent[c] = 1
    /\ status[c] \in {"acknowledged", "completed", "failed"} => sent[c] = 1
    /\ disp[c] \in {"claiming", "queued"} => status[c] = "claimed"
    /\ sent[c] > 0 => sentTo[c] <= inc
    /\ client = "opening" /\ sent[c] > 0 => sentTo[c] # rtInc

\* What a frame says of a command is so.
Closes(f) == f.t \in {"local", "result", "fail"}
FramesTrue ==
  \A c \in Cmds :
    /\ \A f \in Wired : f.c = c /\ (Closes(f) \/ (f.t = "ack" /\ ~IsTurn(c))) => c \in done
    /\ disp[c] \in {"local", "failed"} \/ (disp[c] = "acked" /\ ~IsTurn(c)) => c \in done
    /\ status[c] = "completed" => c \in done
    /\ c \in Queued => c \notin done /\ turn # c /\ \A f \in Wired : f.c # c
    /\ turn = c => c \notin done

\* From its write to its end frame a turn holds the slot, and its row is open.
InTurn(c) == turn = c \/ (c \in Queued /\ IsTurn(c)) \/ (Ending /\ active = c)
Held(c) ==
  /\ turn = c => active = c /\ ~Ending /\ IsTurn(c)
  /\ IsTurn(c) /\ (c \in Queued \/ disp[c] = "queued") => active = c /\ turn = NoCmd /\ ~Ending
  /\ InTurn(c) => /\ status[c] \in {"claimed", "acknowledged", "outcome_unknown"}
                  /\ disp[c] \in {"written", "acked", "unknown", "none"}
                  /\ \A f \in Wired : f.c = c => ~Closes(f)
  /\ alive /\ IsTurn(c) /\ sent[c] > 0 /\ sentTo[c] = rtInc
       => c \in done \/ c \in Queued \/ turn = c
SlotHeld == \A c \in Cmds : Held(c)
EndsOwnTurn == Ending => active \in done /\ IsTurn(active)

FrameInv == OneEnd /\ InputOnce /\ WrittenFirst /\ FramesTrue /\ SlotHeld /\ EndsOwnTurn
FInv == IInv /\ PipesHaveClient /\ FrameInv
----------------------------------------------------------------------------
\* The pipes.

LEMMA WireTaken ==
  ASSUME wire \in Seq(Frames), wire # <<>>, wire' = Tail(wire), OneEnd
  PROVE  /\ Head(wire) \in Wired /\ Wired' \subseteq Wired /\ OneEnd'
         /\ Head(wire).t = "end" => \A f \in Wired' : f.t # "end"
<1>1. /\ Len(wire') = Len(wire) - 1 /\ Len(wire) \in Nat \ {0}
      /\ \A k \in 1 .. Len(wire') : wire'[k] = wire[k + 1] /\ k + 1 \in 1 .. Len(wire)
      /\ Head(wire) = wire[1] /\ 1 \in 1 .. Len(wire)
  OBVIOUS
<1>2. OneEnd'
  <2> SUFFICES ASSUME NEW j \in 1 .. Len(wire'), NEW k \in 1 .. Len(wire'),
                      wire'[j].t = "end", wire'[k].t = "end"
               PROVE  j = k
    BY DEF OneEnd
  <2>1. j + 1 = k + 1
    BY <1>1 DEF OneEnd
  <2> QED
    BY <1>1, <2>1
<1>3. ASSUME Head(wire).t = "end", NEW k \in 1 .. Len(wire') PROVE wire'[k].t # "end"
  <2>1. k + 1 # 1 /\ k + 1 \in 1 .. Len(wire)
    BY <1>1
  <2> QED
    BY <1>1, <1>3, <2>1 DEF OneEnd
<1> QED
  BY <1>1, <1>2, <1>3 DEF Wired

LEMMA WireGrows ==
  ASSUME wire \in Seq(Frames), NEW f \in Frames,
         \/ wire' = wire \o <<f>>
         \/ \E g \in Frames : wire' = wire \o <<g, f>> /\ g.t # "end",
         OneEnd, f.t = "end" => ~Ending
  PROVE  OneEnd'
<1>1. CASE wire' = wire \o <<f>>
  <2>1. /\ Len(wire') = Len(wire) + 1 /\ Len(wire) \in Nat
        /\ \A k \in 1 .. Len(wire) : wire'[k] = wire[k]
        /\ wire'[Len(wire) + 1] = f
    BY <1>1
  <2>2. f.t = "end" => \A k \in 1 .. Len(wire) : wire[k].t # "end"
    BY DEF Ending, Wired
  <2>3. \A k \in 1 .. Len(wire') : k \in 1 .. Len(wire) \/ k = Len(wire) + 1
    BY <2>1
  <2> QED
    BY <2>1, <2>2, <2>3 DEF OneEnd
<1>2. ASSUME NEW g \in Frames, wire' = wire \o <<g, f>>, g.t # "end" PROVE OneEnd'
  <2>1. /\ Len(wire') = Len(wire) + 2 /\ Len(wire) \in Nat
        /\ \A k \in 1 .. Len(wire) : wire'[k] = wire[k]
        /\ wire'[Len(wire) + 1] = g /\ wire'[Len(wire) + 2] = f
    BY <1>2
  <2>2. f.t = "end" => \A k \in 1 .. Len(wire) : wire[k].t # "end"
    BY DEF Ending, Wired
  <2>3. \A k \in 1 .. Len(wire') : k \in 1 .. Len(wire) \/ k = Len(wire) + 1 \/ k = Len(wire) + 2
    BY <2>1
  <2> QED
    BY <1>2, <2>1, <2>2, <2>3 DEF OneEnd
<1> QED
  BY <1>1, <1>2

LEMMA WiredOne ==
  ASSUME wire \in Seq(Frames), NEW f \in Frames, wire' = wire \o <<f>>
  PROVE  Wired' = Wired \cup {f}
<1>1. /\ Len(wire') = Len(wire) + 1 /\ Len(wire) \in Nat
      /\ \A k \in 1 .. Len(wire) : wire'[k] = wire[k]
      /\ wire'[Len(wire) + 1] = f
  OBVIOUS
<1> QED
  BY <1>1 DEF Wired

LEMMA WiredTwo ==
  ASSUME wire \in Seq(Frames), NEW f \in Frames, NEW g \in Frames, wire' = wire \o <<f, g>>
  PROVE  Wired' = Wired \cup {f, g}
<1>1. /\ Len(wire') = Len(wire) + 2 /\ Len(wire) \in Nat
      /\ \A k \in 1 .. Len(wire) : wire'[k] = wire[k]
      /\ wire'[Len(wire) + 1] = f /\ wire'[Len(wire) + 2] = g
  OBVIOUS
<1>2. \A k \in 1 .. Len(wire') : k \in 1 .. Len(wire) \/ k = Len(wire) + 1 \/ k = Len(wire) + 2
  BY <1>1
<1>3. Wired' \subseteq Wired \cup {f, g}
  BY <1>1, <1>2 DEF Wired
<1>4. 1 .. Len(wire) \subseteq 1 .. Len(wire') /\ {Len(wire) + 1, Len(wire) + 2} \subseteq 1 .. Len(wire')
  BY <1>1
<1>5. Wired \subseteq Wired' /\ {f, g} \subseteq Wired'
  BY <1>1, <1>4 DEF Wired
<1> QED
  BY <1>3, <1>5

LEMMA InputTaken ==
  ASSUME inbox \in Seq(Cmds), inbox # <<>>, inbox' = Tail(inbox), InputOnce
  PROVE  Head(inbox) \in Queued /\ Queued' = Queued \ {Head(inbox)} /\ InputOnce'
<1>1. /\ Len(inbox') = Len(inbox) - 1 /\ Len(inbox) \in Nat \ {0}
      /\ \A k \in 1 .. Len(inbox') : inbox'[k] = inbox[k + 1] /\ k + 1 \in 1 .. Len(inbox)
      /\ Head(inbox) = inbox[1] /\ 1 \in 1 .. Len(inbox)
  OBVIOUS
<1>2. InputOnce'
  <2> SUFFICES ASSUME NEW j \in 1 .. Len(inbox'), NEW k \in 1 .. Len(inbox'), inbox'[j] = inbox'[k]
               PROVE  j = k
    BY DEF InputOnce
  <2>1. j + 1 = k + 1
    BY <1>1 DEF InputOnce
  <2> QED
    BY <1>1, <2>1
<1>3. \A k \in 1 .. Len(inbox) : k = 1 \/ (k - 1 \in 1 .. Len(inbox') /\ inbox'[k - 1] = inbox[k])
  BY <1>1
<1>4. \A k \in 1 .. Len(inbox') : inbox'[k] # inbox[1]
  <2> TAKE k \in 1 .. Len(inbox')
  <2>1. k + 1 # 1
    OBVIOUS
  <2> QED
    BY <1>1, <2>1 DEF InputOnce
<1>5. Head(inbox) \in Queued
  BY <1>1 DEF Queued
<1>6. Queued' \subseteq Queued \ {Head(inbox)}
  BY <1>1, <1>4 DEF Queued
<1>7. Queued \ {Head(inbox)} \subseteq Queued'
  <2> SUFFICES ASSUME NEW x \in Queued, x # inbox[1] PROVE x \in Queued'
    BY <1>1
  <2>1. PICK k \in 1 .. Len(inbox) : x = inbox[k]
    BY DEF Queued
  <2>2. k - 1 \in 1 .. Len(inbox') /\ inbox'[k - 1] = x
    BY <1>3, <2>1
  <2> QED
    BY <2>2 DEF Queued
<1> QED
  BY <1>2, <1>5, <1>6, <1>7

LEMMA InputGrows ==
  ASSUME inbox \in Seq(Cmds), NEW c \in Cmds, inbox' = Append(inbox, c), InputOnce, c \notin Queued
  PROVE  Queued' = Queued \cup {c} /\ InputOnce'
<1>1. /\ Len(inbox') = Len(inbox) + 1 /\ Len(inbox) \in Nat
      /\ \A k \in 1 .. Len(inbox) : inbox'[k] = inbox[k]
      /\ inbox'[Len(inbox) + 1] = c
  OBVIOUS
<1>2. \A k \in 1 .. Len(inbox) : inbox[k] # c
  BY DEF Queued
<1>3. \A k \in 1 .. Len(inbox') : k \in 1 .. Len(inbox) \/ k = Len(inbox) + 1
  BY <1>1
<1> QED
  BY <1>1, <1>2, <1>3 DEF Queued, InputOnce
----------------------------------------------------------------------------
\* Who holds the pipes.

LEMMA PipesStep ==
  ASSUME IInv, PipesHaveClient, [Next]_vars
  PROVE  PipesHaveClient'
<1> USE CmdsAssumption
    DEF vars, storeVars, runtimeVars, callVars, hostVars, ompVars, historyVars, Calm, Running,
        Synchronous, IInv, TypeOK, HostTypes, OmpTypes, FlagTypes, QuietPhases, PipesHaveClient
<1>1. CASE StartSession
  BY <1>1 DEF StartSession
<1>2. CASE StartAfterStop
  BY <1>2 DEF StartAfterStop
<1>3. CASE StartOverDead
  BY <1>3 DEF StartOverDead, Lost, Abandoned
<1>4. CASE StartHangs
  BY <1>4 DEF StartHangs
<1>5. CASE StopSession
  BY <1>5 DEF StopSession, WaitForStart, BeginStop, Closing, FailRequests
<1>6. CASE DeleteSession
  BY <1>6 DEF DeleteSession, WaitForStart, BeginStop, Closing, FailRequests, DropSession
<1>7. CASE Reconcile
  BY <1>7 DEF Reconcile
<1>8. CASE \E c \in Cmds, k \in Kinds, i \in 0 .. MaxInc : ClaimCommand(c, k, i)
  BY <1>8 DEF ClaimCommand, Claimable, Fresh
<1>9. CASE ProbeOk
  BY <1>9 DEF ProbeOk
<1>10. CASE ProbeFails
  BY <1>10 DEF ProbeFails
<1>11. CASE SpawnOk
  BY <1>11 DEF SpawnOk
<1>12. CASE SpawnFails
  BY <1>12 DEF SpawnFails
<1>13. CASE HandshakeOk
  BY <1>13 DEF HandshakeOk
<1>14. CASE SubscribeOk
  BY <1>14 DEF SubscribeOk
<1>15. CASE StartFails
  BY <1>15 DEF StartFails, Closing
<1>16. CASE CleanupDone
  BY <1>16 DEF CleanupDone
<1>17. CASE \E c \in Cmds : RefuseCommand(c)
  BY <1>17 DEF RefuseCommand, Transition
<1>18. CASE \E c \in Cmds : DispatchCommand(c)
  BY <1>18 DEF DispatchCommand, CanDispatch, RuntimeReady
<1>19. CASE \E c \in Cmds : WriteCommand(c)
  BY <1>19 DEF WriteCommand
<1>20. CASE \E c \in Cmds : WriteFails(c)
  BY <1>20 DEF WriteFails
<1>21. CASE \E c \in Cmds : RequestTimeout(c)
  BY <1>21 DEF RequestTimeout, Expires, TimeoutOutcome
<1>22. CASE \E c \in Cmds : SettleCommand(c)
  BY <1>22 DEF SettleCommand, Transition, Answer
<1>23. CASE \E c \in Cmds : ReceiveAck(c)
  <2>1. ASSUME NEW c \in Cmds, NEW t \in FrameKinds, Receives(t, c), UNCHANGED <<sess, status, active, known>>
        PROVE  PipesHaveClient'
    BY <2>1 DEF Receives
  <2> QED
    BY <1>23, <2>1 DEF ReceiveAck, FrameKinds
<1>24. CASE \E c \in Cmds : ReceiveFailure(c)
  BY <1>24 DEF ReceiveFailure, Receives, Resolve, Transition
<1>25. CASE \E c \in Cmds : ReceiveResult(c)
  BY <1>25 DEF ReceiveResult, Receives, Complete, Transition
<1>26. CASE ReceiveStart
  BY <1>26 DEF ReceiveStart, Receives
<1>27. CASE ReceiveEnd
  BY <1>27 DEF ReceiveEnd, Receives, Complete, Transition
<1>28. CASE JournalFails
  BY <1>28 DEF JournalFails, FailRequests
<1>29. CASE IgnoreFrame
  BY <1>29 DEF IgnoreFrame
<1>30. CASE StrayFrame
  BY <1>30 DEF StrayFrame
<1>31. CASE ChildExit
  BY <1>31 DEF ChildExit
<1>32. CASE StdioEnds
  BY <1>32 DEF StdioEnds, FailRequests
<1>33. CASE Watchdog
  BY <1>33 DEF Watchdog, WatchdogFires, Lost, Abandoned
<1>34. CASE StopAfterStart
  BY <1>34 DEF StopAfterStart, BeginStop, Closing, FailRequests
<1>35. CASE StopDone
  BY <1>35 DEF StopDone, Abandoned
<1>36. CASE StopRejected
  BY <1>36 DEF StopRejected
<1>37. CASE Continue
  BY <1>37 DEF Continue, DropSession, Restarts
<1>38. CASE CloseHost
  BY <1>38 DEF CloseHost
<1>39. CASE CloseStopsSession
  BY <1>39 DEF CloseStopsSession, BeginStop, Closing, FailRequests
<1>40. CASE HostExit
  BY <1>40 DEF HostExit, HostDown
<1>41. CASE HostCrash
  BY <1>41 DEF HostCrash, HostDown
<1>42. CASE OpenHost
  BY <1>42 DEF OpenHost, Abandoned
<1>43. CASE \E c \in Cmds : OmpAnswers(c)
  BY <1>43 DEF OmpAnswers, OmpReads, Emit
<1>44. CASE \E c \in Cmds : OmpStartsTurn(c)
  BY <1>44 DEF OmpStartsTurn, OmpReads, Emit
<1>45. CASE OmpEndsTurn
  BY <1>45 DEF OmpEndsTurn, Emit
<1>46. CASE OmpExits
  BY <1>46 DEF OmpExits
<1>47. CASE OrphanExits
  BY <1>47 DEF OrphanExits
<1>48. CASE UNCHANGED vars
  BY <1>48
<1>49. QED
  BY <1>1, <1>2, <1>3, <1>4, <1>5, <1>6, <1>7, <1>8, <1>9, <1>10, <1>11, <1>12, <1>13, <1>14,
     <1>15, <1>16, <1>17, <1>18, <1>19, <1>20, <1>21, <1>22, <1>23, <1>24, <1>25, <1>26,
     <1>27, <1>28, <1>29, <1>30, <1>31, <1>32, <1>33, <1>34, <1>35, <1>36, <1>37, <1>38,
     <1>39, <1>40, <1>41, <1>42, <1>43, <1>44, <1>45, <1>46, <1>47, <1>48
     DEF Next, Requests, Start, CommandSteps, FrameSteps, EndSteps, HostSteps, OmpSteps
----------------------------------------------------------------------------
\* Steps that take something away.

\* Frames and input are lost or ignored, requests fail, OMP goes: no row moves.
LEMMA Fades ==
  ASSUME IInv, FrameInv,
         UNCHANGED <<req, status, rtInc, inc, active, sent, sentTo, done>>,
         Wired' \subseteq Wired, OneEnd', Queued' \subseteq Queued, InputOnce',
         turn' \in {turn, NoCmd}, alive' => (alive /\ Queued' = Queued /\ turn' = turn),
         client' = "opening" => client = "opening",
         \A c \in Cmds : \/ disp'[c] = disp[c]
                         \/ disp[c] \in {"queued", "written"} /\ disp'[c] = "unknown"
                         \/ disp[c] = "queued" /\ disp'[c] = "notDispatched"
  PROVE  FrameInv'
<1>1. Ending' => Ending
  BY DEF Ending
<1>2. \A c \in Cmds : IsTurn(c)' <=> IsTurn(c)
  BY DEF IsTurn
<1>3. WrittenFirst'
  BY CmdsAssumption DEF FrameInv, WrittenFirst
<1>4. FramesTrue'
  BY <1>2, CmdsAssumption DEF FrameInv, FramesTrue
<1>5. EndsOwnTurn'
  <2>1. Ending' => active \in Cmds
    BY <1>1 DEF FrameInv, EndsOwnTurn, IInv, TypeOK, OmpTypes
  <2> QED
    BY <1>1, <1>2, <2>1 DEF FrameInv, EndsOwnTurn
<1>6. SlotHeld'
  <2> SUFFICES ASSUME NEW c \in Cmds PROVE Held(c)'
    BY DEF SlotHeld
  <2>1. c # NoCmd
    BY CmdsAssumption
  <2>2. turn' = c => turn = c
    BY <2>1
  <2>3. InTurn(c)' => InTurn(c)
    BY <1>1, <1>2, <2>2 DEF InTurn
  <2>4. InTurn(c) => sent[c] = 1
    BY DEF InTurn, FrameInv, WrittenFirst, EndsOwnTurn
  <2>5. disp[c] = "queued" => sent[c] = 0
    BY DEF IInv, DispatchOrder
  <2>6. turn' = c => active' = c /\ ~Ending' /\ IsTurn(c)'
    BY <1>1, <1>2, <2>2 DEF FrameInv, SlotHeld, Held
  <2>7. IsTurn(c)' /\ (c \in Queued' \/ disp'[c] = "queued") => active' = c /\ turn' = NoCmd /\ ~Ending'
    BY <1>1, <1>2 DEF FrameInv, SlotHeld, Held
  <2>8. InTurn(c)' => /\ status'[c] \in {"claimed", "acknowledged", "outcome_unknown"}
                      /\ disp'[c] \in {"written", "acked", "unknown", "none"}
                      /\ \A f \in Wired' : f.c = c => ~Closes(f)
    BY <2>3, <2>4, <2>5 DEF FrameInv, SlotHeld, Held
  <2>9. alive' /\ IsTurn(c)' /\ sent'[c] > 0 /\ sentTo'[c] = rtInc'
          => c \in done' \/ c \in Queued' \/ turn' = c
    BY <1>2 DEF FrameInv, SlotHeld, Held
  <2> QED
    BY <2>6, <2>7, <2>8, <2>9 DEF Held
<1> QED
  BY <1>3, <1>4, <1>5, <1>6 DEF FrameInv

EmptyPipes == wire = <<>> /\ inbox = <<>> /\ turn = NoCmd /\ ~alive

LEMMA EmptyIsEmpty ==
  ASSUME EmptyPipes PROVE Wired = {} /\ Queued = {} /\ ~Ending /\ OneEnd /\ InputOnce
BY DEF EmptyPipes, Wired, Queued, Ending, OneEnd, InputOnce

\* The runtime is given up, or none is there: open rows may turn unknown.
LEMMA Clears ==
  ASSUME IInv, FrameInv, EmptyPipes', UNCHANGED <<req, sent, sentTo, done>>,
         \A c \in Cmds : disp'[c] = "none",
         status' \in {status, Abandoned(status)},
         \/ UNCHANGED <<inc, rtInc>> /\ client' # "opening"
         \/ inc' = inc + 1 /\ rtInc' = inc + 1
  PROVE  FrameInv'
<1>1. Wired' = {} /\ Queued' = {} /\ ~Ending' /\ OneEnd' /\ InputOnce' /\ turn' = NoCmd /\ ~alive'
  <2>1. EmptyPipes' => (Wired = {} /\ Queued = {} /\ ~Ending /\ OneEnd /\ InputOnce)'
    BY EmptyIsEmpty, PTL
  <2> QED
    BY <2>1 DEF EmptyPipes
<1>2. \A c \in Cmds : IsTurn(c)' <=> IsTurn(c)
  BY DEF IsTurn
<1>3. \A c \in Cmds : c # NoCmd
  BY CmdsAssumption
<1>4. \A c \in Cmds : status'[c] \in {"acknowledged", "completed", "failed"} => status[c] = status'[c]
  BY DEF Abandoned, Pending
<1>5. inc \in Nat /\ \A c \in Cmds : sent[c] > 0 => (sentTo[c] \in Nat /\ sentTo[c] <= inc)
  BY BoundsAssumption DEF IInv, TypeOK, RowTypes, OmpTypes, FrameInv, WrittenFirst
<1>6. WrittenFirst'
  BY <1>1, <1>3, <1>4, <1>5 DEF FrameInv, WrittenFirst
<1>7. FramesTrue'
  BY <1>1, <1>2, <1>3, <1>4 DEF FrameInv, FramesTrue
<1>8. SlotHeld' /\ EndsOwnTurn'
  BY <1>1, <1>3 DEF SlotHeld, Held, EndsOwnTurn, InTurn
<1> QED
  BY <1>1, <1>6, <1>7, <1>8 DEF FrameInv
----------------------------------------------------------------------------
\* Steps of a process or a session as a whole.

LEMMA PipesAreEmpty ==
  ASSUME PipesHaveClient, client \notin {"ready", "exiting"}
  PROVE  EmptyPipes
BY DEF PipesHaveClient, EmptyPipes

\* A new process has been sent nothing.
LEMMA Spawns == ASSUME IInv, PipesHaveClient, FrameInv, SpawnOk PROVE FrameInv'
<1>1. client = "opening" /\ starting = "spawn" /\ active = NoCmd
  BY DEF SpawnOk, IInv, QuietPhases, PipesHaveClient
<1>2. \A c \in Cmds : disp[c] = "none" /\ c # NoCmd
  BY <1>1, CmdsAssumption DEF IInv, QuietPhases, Quiet
<1>3. /\ Wired' = {} /\ Queued' = {} /\ ~Ending' /\ OneEnd' /\ InputOnce'
  BY DEF SpawnOk, Wired, Queued, Ending, OneEnd, InputOnce
<1>4. /\ turn' = NoCmd /\ client' = "ready" /\ UNCHANGED <<active, disp, sent, sentTo, rtInc, inc>>
      /\ UNCHANGED <<status, req, done>>
  BY DEF SpawnOk, storeVars, historyVars
<1>5. \A c \in Cmds : sent[c] > 0 => sentTo[c] # rtInc
  BY <1>1 DEF FrameInv, WrittenFirst
<1>6. WrittenFirst'
  BY <1>2, <1>3, <1>4 DEF FrameInv, WrittenFirst
<1>7. FramesTrue'
  BY <1>2, <1>3, <1>4 DEF FrameInv, FramesTrue, IsTurn
<1>8. SlotHeld' /\ EndsOwnTurn'
  BY <1>2, <1>3, <1>4, <1>5 DEF SlotHeld, Held, EndsOwnTurn, InTurn
<1> QED
  BY <1>3, <1>6, <1>7, <1>8 DEF FrameInv

\* Deleting the session forgets every command, and there is no process.
LEMMA Drops ==
  ASSUME IInv, PipesHaveClient, FrameInv, DropSession, client = "none", Quiet,
         UNCHANGED <<runtimeVars, disp, ompVars>>
  PROVE  FrameInv'
<1>1. EmptyPipes
  BY PipesAreEmpty
<1>2. EmptyPipes'
  BY <1>1 DEF EmptyPipes, ompVars
<1>3. Wired' = {} /\ Queued' = {} /\ ~Ending' /\ OneEnd' /\ InputOnce' /\ turn' = NoCmd
  <2>1. EmptyPipes' => (Wired = {} /\ Queued = {} /\ ~Ending /\ OneEnd /\ InputOnce)'
    BY EmptyIsEmpty, PTL
  <2> QED
    BY <1>2, <2>1 DEF EmptyPipes
<1>4. \A c \in Cmds : /\ disp'[c] = "none" /\ sent'[c] = 0 /\ status'[c] = "none" /\ c # NoCmd
  BY CmdsAssumption DEF Quiet, DropSession
<1>5. done' = {} /\ client' = "none"
  BY DEF DropSession, runtimeVars
<1> QED
  BY <1>3, <1>4, <1>5 DEF FrameInv, WrittenFirst, FramesTrue, SlotHeld, Held, EndsOwnTurn, InTurn

----------------------------------------------------------------------------
\* Steps of one command.

\* The turn of another command, or none, is not disturbed.
LEMMA Claims ==
  ASSUME IInv, FrameInv, NEW c \in Cmds, NEW k \in Kinds, NEW i \in 0 .. MaxInc, ClaimCommand(c, k, i)
  PROVE  FrameInv'
<1>1. status[c] = "none" /\ disp[c] = "none" /\ sent[c] = 0
  BY DEF ClaimCommand, Claimable, IInv, DispatchOrder
<1>2. /\ c \notin Queued /\ turn # c /\ c \notin done /\ \A f \in Wired : f.c # c
  BY <1>1 DEF FrameInv, WrittenFirst
<1>3. Wired' = Wired /\ Queued' = Queued /\ (Ending' <=> Ending) /\ OneEnd' /\ InputOnce'
  BY DEF ClaimCommand, ompVars, Wired, Queued, Ending, FrameInv, OneEnd, InputOnce
<1>4. /\ UNCHANGED <<client, rtInc, inc, active, alive, turn, sent, sentTo, done>>
      /\ status'[c] = "claimed" /\ disp'[c] = "claiming"
      /\ \A d \in Cmds \ {c} : status'[d] = status[d] /\ disp'[d] = disp[d] /\ req'[d] = req[d]
  BY DEF ClaimCommand, runtimeVars, ompVars, historyVars, IInv, TypeOK, RowTypes, HostTypes
<1>5. Ending => active # c /\ active \in Cmds
  BY <1>2 DEF FrameInv, EndsOwnTurn, IInv, TypeOK, OmpTypes
<1>6. WrittenFirst'
  BY <1>1, <1>2, <1>3, <1>4 DEF FrameInv, WrittenFirst
<1>7. FramesTrue'
  BY <1>2, <1>3, <1>4 DEF FrameInv, FramesTrue, IsTurn
<1>8. SlotHeld'
  <2> SUFFICES ASSUME NEW d \in Cmds PROVE Held(d)'
    BY DEF SlotHeld
  <2>1. CASE d = c
    BY <1>1, <1>2, <1>3, <1>4, <1>5, <2>1 DEF Held, InTurn
  <2>2. CASE d # c
    BY <1>3, <1>4, <2>2 DEF FrameInv, SlotHeld, Held, InTurn, IsTurn
  <2> QED
    BY <2>1, <2>2
<1>9. EndsOwnTurn'
  BY <1>3, <1>4, <1>5 DEF FrameInv, EndsOwnTurn, IsTurn
<1> QED
  BY <1>3, <1>6, <1>7, <1>8, <1>9 DEF FrameInv
\* A row, a request and the slot move together, by what a frame or an answer says.
LEMMA RowMoves ==
  ASSUME IInv, FrameInv, NEW c \in Cmds,
         UNCHANGED <<req, rtInc, inc, client, alive, inbox, turn, sent, sentTo, done>>,
         Wired' \subseteq Wired, OneEnd',
         \A d \in Cmds \ {c} : status'[d] = status[d] /\ disp'[d] = disp[d],
         disp'[c] \notin {"claiming", "queued"},
         disp'[c] \in {"written", "acked", "local", "failed"} => sent[c] = 1,
         status'[c] \in {"acknowledged", "completed", "failed"} => sent[c] = 1,
         disp'[c] \in {"local", "failed"} \/ (disp'[c] = "acked" /\ ~IsTurn(c)) => c \in done,
         status'[c] = "completed" => c \in done,
         InTurn(c)' => /\ status'[c] \in {"claimed", "acknowledged", "outcome_unknown"}
                       /\ disp'[c] \in {"written", "acked", "unknown", "none"},
         \/ active' = active
         \/ /\ active = c /\ active' = NoCmd
            /\ turn # c /\ ~(IsTurn(c) /\ c \in Queued) /\ ~Ending'
  PROVE  FrameInv'
<1>1. Queued' = Queued /\ (Ending' => Ending) /\ InputOnce'
  BY DEF Queued, Ending, FrameInv, InputOnce
<1>2. \A d \in Cmds : (IsTurn(d)' <=> IsTurn(d)) /\ d # NoCmd
  BY CmdsAssumption DEF IsTurn
<1>3. WrittenFirst'
  <2> SUFFICES ASSUME NEW d \in Cmds
               PROVE  /\ d \in Queued' \/ turn' = d \/ d \in done' \/ (\E f \in Wired' : f.c = d) => sent'[d] = 1
                      /\ disp'[d] \in {"written", "acked", "local", "failed"} => sent'[d] = 1
                      /\ status'[d] \in {"acknowledged", "completed", "failed"} => sent'[d] = 1
                      /\ disp'[d] \in {"claiming", "queued"} => status'[d] = "claimed"
                      /\ sent'[d] > 0 => sentTo'[d] <= inc'
                      /\ client' = "opening" /\ sent'[d] > 0 => sentTo'[d] # rtInc'
    BY DEF WrittenFirst
  <2>1. CASE d = c
    BY <1>1, <2>1 DEF FrameInv, WrittenFirst
  <2>2. CASE d # c
    BY <1>1, <2>2 DEF FrameInv, WrittenFirst
  <2> QED
    BY <2>1, <2>2
<1>4. FramesTrue'
  BY <1>1, <1>2 DEF FrameInv, FramesTrue
<1>5. EndsOwnTurn'
  <2>1. Ending' => active \in Cmds /\ active' = active
    BY <1>1 DEF FrameInv, EndsOwnTurn, IInv, TypeOK, OmpTypes
  <2> QED
    BY <1>1, <1>2, <2>1 DEF FrameInv, EndsOwnTurn
<1>6. SlotHeld'
  <2> SUFFICES ASSUME NEW d \in Cmds PROVE Held(d)'
    BY DEF SlotHeld
  <2>1. Held(d)
    BY DEF FrameInv, SlotHeld
  <2>2. InTurn(d)' => InTurn(d)
    BY <1>1, <1>2 DEF InTurn
  <2>3. CASE d = c
    BY <1>1, <1>2, <2>1, <2>2, <2>3 DEF Held
  <2>4. CASE d # c
    BY <1>1, <1>2, <2>1, <2>2, <2>4 DEF Held
  <2> QED
    BY <2>3, <2>4
<1> QED
  BY <1>1, <1>3, <1>4, <1>5, <1>6 DEF FrameInv

\* Whoever is in a turn was written, and is a turn.
LEMMA TurnsWereSent ==
  ASSUME FrameInv, NEW c \in Cmds, InTurn(c)
  PROVE  sent[c] = 1 /\ IsTurn(c)
BY DEF FrameInv, WrittenFirst, SlotHeld, Held, EndsOwnTurn, InTurn

LEMMA PipesUntouched ==
  ASSUME FrameInv, UNCHANGED <<wire, inbox>>
  PROVE  Wired' = Wired /\ Queued' = Queued /\ (Ending' <=> Ending) /\ OneEnd' /\ InputOnce'
BY DEF FrameInv, Wired, Queued, Ending, OneEnd, InputOnce

LEMMA Refuses ==
  ASSUME IInv, FrameInv, NEW c \in Cmds, RefuseCommand(c) PROVE FrameInv'
<1>1. /\ UNCHANGED <<req, rtInc, inc, client, alive, inbox, turn, wire, sent, sentTo, done, active>>
      /\ disp'[c] = "none" /\ status'[c] \in {status[c], "not_dispatched"}
      /\ \A d \in Cmds \ {c} : status'[d] = status[d] /\ disp'[d] = disp[d]
  BY DEF RefuseCommand, Transition, runtimeVars, ompVars, historyVars, IInv, TypeOK, RowTypes, HostTypes
<1>2. sent[c] = 0
  BY DEF RefuseCommand, IInv, DispatchOrder
<1>3. Wired' = Wired /\ OneEnd' /\ Queued' = Queued /\ (Ending' <=> Ending)
  BY <1>1, PipesUntouched
<1>4. ~InTurn(c)
  BY <1>2, TurnsWereSent
<1>5. ~InTurn(c)'
  BY <1>1, <1>3, <1>4 DEF InTurn, IsTurn
<1>6. status'[c] \in {"acknowledged", "completed", "failed"} => status[c] = status'[c]
  BY <1>1
<1> QED
  BY <1>1, <1>3, <1>5, <1>6, RowMoves DEF FrameInv, WrittenFirst, FramesTrue
\* Nothing frees the slot of a turn OMP has: its answer is an acknowledgement,
\* and a lost answer leaves the row unknown.
LEMMA Settles ==
  ASSUME IInv, FrameInv, NEW c \in Cmds, SettleCommand(c) PROVE FrameInv'
<1>1. /\ UNCHANGED <<req, rtInc, inc, client, alive, inbox, turn, wire, sent, sentTo, done>>
      /\ disp[c] \in {"acked", "local", "failed", "notDispatched", "unknown"}
      /\ disp'[c] = "none"
      /\ status' = Transition(status, c, Answer(c))
      /\ active' = IF active = c /\ FreesTurn(c, status') THEN NoCmd ELSE active
      /\ \A d \in Cmds \ {c} : disp'[d] = disp[d]
  BY DEF SettleCommand, ompVars, historyVars, IInv, TypeOK, HostTypes
<1>2. /\ \A d \in Cmds \ {c} : status'[d] = status[d]
      /\ status'[c] = IF status[c] \in Pending THEN Answer(c) ELSE status[c]
  BY <1>1 DEF Transition, IInv, TypeOK, RowTypes
<1>3. Wired' = Wired /\ OneEnd' /\ Queued' = Queued /\ (Ending' <=> Ending)
  BY <1>1, PipesUntouched
<1>4. /\ Answer(c) \in {"acknowledged", "completed", "failed"} => sent[c] = 1
      /\ Answer(c) = "completed" => c \in done
  BY <1>1 DEF Answer, IsTurn, FrameInv, WrittenFirst, FramesTrue
<1>5. InTurn(c) => /\ status'[c] \in {"claimed", "acknowledged", "outcome_unknown"}
                   /\ ~FreesTurn(c, status')
  <2> SUFFICES ASSUME InTurn(c)
               PROVE  status'[c] \in {"claimed", "acknowledged", "outcome_unknown"} /\ ~FreesTurn(c, status')
    OBVIOUS
  <2>1. /\ IsTurn(c) /\ status[c] \in {"claimed", "acknowledged", "outcome_unknown"}
        /\ disp[c] \in {"acked", "unknown"}
    BY <1>1, TurnsWereSent DEF FrameInv, SlotHeld, Held
  <2>2. CASE disp[c] = "acked"
    BY <1>2, <2>1, <2>2 DEF Answer, IsTurn, FreesTurn
  <2>3. CASE disp[c] = "unknown"
    BY <1>2, <2>1, <2>3 DEF Answer, FreesTurn, Pending
  <2> QED
    BY <2>1, <2>2, <2>3
<1>6. InTurn(c)' => InTurn(c)
  <2>1. active' = c => active = c
    BY <1>1, CmdsAssumption
  <2> QED
    BY <1>1, <1>3, <2>1 DEF InTurn, IsTurn
<1>7. \/ active' = active
      \/ /\ active = c /\ active' = NoCmd
         /\ turn # c /\ ~(IsTurn(c) /\ c \in Queued) /\ ~Ending'
  BY <1>1, <1>3, <1>5 DEF InTurn
<1>8. /\ status'[c] \in {"acknowledged", "completed", "failed"} => sent[c] = 1
      /\ status'[c] = "completed" => c \in done
  BY <1>2, <1>4 DEF FrameInv, WrittenFirst, FramesTrue
<1> QED
  BY <1>1, <1>2, <1>3, <1>5, <1>6, <1>7, <1>8, RowMoves

\* What every frame does.
LEMMA Received ==
  ASSUME IInv, FrameInv, NEW t \in FrameKinds, NEW b \in Cmds \cup {NoCmd}, Receives(t, b)
  PROVE  /\ UNCHANGED <<req, rtInc, inc, client, alive, inbox, turn, sent, sentTo, done>>
         /\ Wired' \subseteq Wired /\ OneEnd' /\ Queued' = Queued /\ (Ending' => Ending)
         /\ Frame(t, b) \in Wired
         /\ t = "end" => ~Ending'
<1>1. wire \in Seq(Frames) /\ wire # <<>> /\ wire' = Tail(wire) /\ Head(wire) = Frame(t, b)
  BY DEF Receives, IInv, TypeOK, OmpTypes
<1>2. /\ Head(wire) \in Wired /\ Wired' \subseteq Wired /\ OneEnd'
      /\ Head(wire).t = "end" => \A f \in Wired' : f.t # "end"
  BY <1>1, WireTaken DEF FrameInv
<1>3. UNCHANGED <<req, rtInc, inc, client, alive, inbox, turn, sent, sentTo, done>>
  BY DEF Receives, historyVars
<1>4. Frame(t, b).t = t
  BY DEF Frame
<1> QED
  BY <1>1, <1>2, <1>3, <1>4 DEF Queued, Ending

LEMMA Acks == ASSUME IInv, FrameInv, NEW c \in Cmds, ReceiveAck(c) PROVE FrameInv'
<1> SUFFICES ASSUME NEW t \in {"ack", "local"}, NEW how \in {"acked", "local"},
                    Receives(t, c), Resolve(c, how), t = "ack" <=> how = "acked",
                    UNCHANGED <<sess, status, active, known>>
             PROVE  FrameInv'
  BY DEF ReceiveAck
<1>1. /\ UNCHANGED <<req, rtInc, inc, client, alive, inbox, turn, sent, sentTo, done>>
      /\ Wired' \subseteq Wired /\ OneEnd' /\ Queued' = Queued /\ (Ending' => Ending)
      /\ Frame(t, c) \in Wired
  BY Received DEF FrameKinds
<1>2. sent[c] = 1 /\ (t = "local" \/ ~IsTurn(c) => c \in done)
  BY <1>1 DEF Frame, FrameInv, WrittenFirst, FramesTrue, Closes
<1>3. /\ \A d \in Cmds \ {c} : disp'[d] = disp[d]
      /\ disp'[c] = IF disp[c] = "written" THEN how ELSE disp[c]
  BY DEF Resolve, IInv, TypeOK, HostTypes
<1>4. disp[c] \notin {"claiming", "queued"}
  BY <1>2 DEF IInv, DispatchOrder
<1>5. InTurn(c)' => InTurn(c)
  BY <1>1 DEF InTurn, IsTurn
<1>6. InTurn(c) => t # "local"
  BY <1>1 DEF FrameInv, SlotHeld, Held, Frame, Closes
<1>7. InTurn(c) => /\ status[c] \in {"claimed", "acknowledged", "outcome_unknown"}
                   /\ disp[c] \in {"written", "acked", "unknown", "none"}
  BY DEF FrameInv, SlotHeld, Held
<1>8. /\ disp[c] \in {"local", "failed"} \/ (disp[c] = "acked" /\ ~IsTurn(c)) => c \in done
      /\ status[c] = "completed" => c \in done
  BY DEF FrameInv, FramesTrue
<1> QED
  BY <1>1, <1>2, <1>3, <1>4, <1>5, <1>6, <1>7, <1>8, RowMoves

LEMMA Failures == ASSUME IInv, FrameInv, NEW c \in Cmds, ReceiveFailure(c) PROVE FrameInv'
<1>1. /\ UNCHANGED <<req, rtInc, inc, client, alive, inbox, turn, sent, sentTo, done>>
      /\ Wired' \subseteq Wired /\ OneEnd' /\ Queued' = Queued /\ (Ending' => Ending)
      /\ Frame("fail", c) \in Wired
  BY Received DEF ReceiveFailure, FrameKinds
<1>2. sent[c] = 1 /\ c \in done
  BY <1>1 DEF Frame, FrameInv, WrittenFirst, FramesTrue, Closes
<1>3. ~InTurn(c)
  BY <1>1 DEF FrameInv, SlotHeld, Held, Frame, Closes
<1>4. disp[c] \notin {"claiming", "queued"}
  BY <1>2 DEF IInv, DispatchOrder
<1>5. /\ \A d \in Cmds \ {c} : disp'[d] = disp[d] /\ status'[d] = status[d]
      /\ disp'[c] \in {disp[c], "failed"}
      /\ status'[c] \in {status[c], "failed"}
      /\ active' = active \/ (active = c /\ active' = NoCmd)
  BY DEF ReceiveFailure, Resolve, Transition, IInv, TypeOK, HostTypes, RowTypes
<1>6. ~InTurn(c)'
  <2>1. active' = c => active = c
    BY <1>5, CmdsAssumption
  <2> QED
    BY <1>1, <1>3, <2>1 DEF InTurn, IsTurn
<1>7. active = c => turn # c /\ ~(IsTurn(c) /\ c \in Queued) /\ ~Ending'
  BY <1>1, <1>3 DEF InTurn
<1> QED
  BY <1>1, <1>2, <1>4, <1>5, <1>6, <1>7, RowMoves

LEMMA Results == ASSUME IInv, FrameInv, NEW c \in Cmds, ReceiveResult(c) PROVE FrameInv'
<1>1. /\ UNCHANGED <<req, rtInc, inc, client, alive, inbox, turn, sent, sentTo, done>>
      /\ Wired' \subseteq Wired /\ OneEnd' /\ Queued' = Queued /\ (Ending' => Ending)
      /\ Frame("result", c) \in Wired
  BY Received DEF ReceiveResult, FrameKinds
<1>2. sent[c] = 1 /\ c \in done
  BY <1>1 DEF Frame, FrameInv, WrittenFirst, FramesTrue, Closes
<1>3. ~InTurn(c)
  BY <1>1 DEF FrameInv, SlotHeld, Held, Frame, Closes
<1>4. disp[c] \notin {"claiming", "queued"}
  BY <1>2 DEF IInv, DispatchOrder
<1>5. /\ \A d \in Cmds \ {c} : disp'[d] = disp[d] /\ status'[d] = status[d]
      /\ disp'[c] = disp[c]
      /\ active' = active \/ (active = c /\ active' = NoCmd)
  BY DEF ReceiveResult, Complete, Transition, IInv, TypeOK, RowTypes
<1>6. ~InTurn(c)'
  <2>1. active' = c => active = c
    BY <1>5, CmdsAssumption
  <2> QED
    BY <1>1, <1>3, <2>1 DEF InTurn, IsTurn
<1>7. active = c => turn # c /\ ~(IsTurn(c) /\ c \in Queued) /\ ~Ending'
  BY <1>1, <1>3 DEF InTurn
<1> QED
  BY <1>1, <1>2, <1>4, <1>5, <1>6, <1>7, RowMoves

LEMMA TurnEnds == ASSUME IInv, FrameInv, ReceiveEnd PROVE FrameInv'
<1>1. /\ UNCHANGED <<req, rtInc, inc, client, alive, inbox, turn, sent, sentTo, done>>
      /\ Wired' \subseteq Wired /\ OneEnd' /\ Queued' = Queued /\ ~Ending'
      /\ Frame("end", NoCmd) \in Wired
  BY Received DEF ReceiveEnd, FrameKinds
<1>2. Ending
  BY <1>1 DEF Ending, Frame
<1>3. PICK c \in Cmds : c = active
  BY <1>2 DEF FrameInv, EndsOwnTurn, IInv, TypeOK, OmpTypes
<1>4. c \in done /\ sent[c] = 1 /\ InTurn(c)
  BY <1>2, <1>3 DEF FrameInv, EndsOwnTurn, WrittenFirst, InTurn
<1>5. turn # c /\ ~(IsTurn(c) /\ c \in Queued)
  BY <1>2 DEF FrameInv, SlotHeld, Held
<1>6. disp[c] \in {"written", "acked", "unknown", "none"} /\ disp' = disp
  BY <1>4 DEF FrameInv, SlotHeld, Held, ReceiveEnd
<1>7. /\ \A d \in Cmds \ {c} : status'[d] = status[d]
      /\ active' = NoCmd
  BY <1>3, CmdsAssumption DEF ReceiveEnd, Complete, Transition, IInv, TypeOK, RowTypes
<1>8. ~InTurn(c)'
  BY <1>1, <1>5 DEF InTurn, IsTurn
<1>9. disp[c] \in {"local", "failed"} \/ (disp[c] = "acked" /\ ~IsTurn(c)) => c \in done
  BY <1>4
<1> QED
  BY <1>1, <1>3, <1>4, <1>5, <1>6, <1>7, <1>8, <1>9, RowMoves
\* A turn is dispatched when no other one is under way.
LEMMA Dispatches ==
  ASSUME IInv, FrameInv, NEW c \in Cmds, DispatchCommand(c) PROVE FrameInv'
<1>1. /\ UNCHANGED <<req, status, rtInc, inc, client, alive, inbox, turn, wire, sent, sentTo, done>>
      /\ disp[c] = "claiming" /\ disp'[c] = "queued"
      /\ \A d \in Cmds \ {c} : disp'[d] = disp[d]
      /\ active' = IF IsTurn(c) THEN c ELSE active
      /\ IsTurn(c) => active = NoCmd
  BY DEF DispatchCommand, CanDispatch, IsTurn, storeVars, ompVars, historyVars, IInv, TypeOK, HostTypes
<1>2. Wired' = Wired /\ Queued' = Queued /\ (Ending' <=> Ending) /\ OneEnd' /\ InputOnce'
  BY <1>1, PipesUntouched
<1>3. sent[c] = 0 /\ status[c] = "claimed" /\ \A d \in Cmds : d # NoCmd /\ (IsTurn(d)' <=> IsTurn(d))
  BY <1>1, CmdsAssumption DEF IInv, DispatchOrder, FrameInv, WrittenFirst, IsTurn
<1>4. ~InTurn(c)
  BY <1>3, TurnsWereSent
<1>5. active = NoCmd => turn = NoCmd /\ ~Ending
  BY CmdsAssumption DEF FrameInv, SlotHeld, Held, EndsOwnTurn, IInv, TypeOK, OmpTypes
<1>6. WrittenFirst' /\ FramesTrue'
  BY <1>1, <1>2, <1>3 DEF FrameInv, WrittenFirst, FramesTrue
<1>7. EndsOwnTurn'
  BY <1>1, <1>2, <1>5 DEF FrameInv, EndsOwnTurn, IsTurn
<1>8. SlotHeld'
  <2> SUFFICES ASSUME NEW d \in Cmds PROVE Held(d)'
    BY DEF SlotHeld
  <2>1. Held(d)
    BY DEF FrameInv, SlotHeld
  <2>2. CASE d = c
    <3>1. ~InTurn(c)'
      BY <1>1, <1>2, <1>3, <1>4, <1>5 DEF InTurn
    <3> QED
      BY <1>1, <1>2, <1>3, <1>4, <1>5, <2>2, <3>1 DEF Held, InTurn
  <2>3. CASE d # c
    <3>1. InTurn(d)' => InTurn(d)
      BY <1>1, <1>2, <1>3, <1>5 DEF InTurn
    <3> QED
      BY <1>1, <1>2, <1>3, <1>5, <2>1, <2>3, <3>1 DEF Held
  <2> QED
    BY <2>2, <2>3
<1> QED
  BY <1>2, <1>6, <1>7, <1>8 DEF FrameInv

LEMMA Writes ==
  ASSUME IInv, FrameInv, NEW c \in Cmds, WriteCommand(c) PROVE FrameInv'
<1>1. /\ UNCHANGED <<req, status, rtInc, inc, client, active, alive, turn, wire, done>>
      /\ disp[c] = "queued" /\ disp'[c] = "written"
      /\ sent'[c] = sent[c] + 1 /\ sentTo'[c] = rtInc
      /\ \A d \in Cmds \ {c} : disp'[d] = disp[d] /\ sent'[d] = sent[d] /\ sentTo'[d] = sentTo[d]
  BY DEF WriteCommand, storeVars, runtimeVars, IInv, TypeOK, HostTypes, OmpTypes
<1>2. sent[c] = 0 /\ status[c] = "claimed" /\ rtInc = inc /\ inc \in Nat /\ client # "opening"
  BY <1>1, BoundsAssumption DEF IInv, DispatchOrder, FrameInv, WrittenFirst, CurrentRuntime, RequestsHaveClient,
                                TypeOK, RowTypes
<1>3. c \notin Queued /\ turn # c /\ c \notin done /\ \A f \in Wired : f.c # c
  BY <1>2 DEF FrameInv, WrittenFirst
<1>4. Wired' = Wired /\ (Ending' <=> Ending) /\ OneEnd'
  BY <1>1 DEF Wired, Ending, FrameInv, OneEnd
<1>5. InputOnce' /\ Queued' = (IF alive THEN Queued \cup {c} ELSE Queued)
  <2>1. CASE alive
    BY <1>3, <2>1, InputGrows DEF WriteCommand, FrameInv, IInv, TypeOK, OmpTypes
  <2>2. CASE ~alive
    BY <2>2 DEF WriteCommand, FrameInv, Queued, InputOnce
  <2> QED
    BY <2>1, <2>2
<1>6. \A d \in Cmds : d # NoCmd /\ (IsTurn(d)' <=> IsTurn(d))
  BY <1>1, CmdsAssumption DEF IsTurn
<1>7. Ending => active # c
  BY <1>3 DEF FrameInv, EndsOwnTurn
<1>8. WrittenFirst'
  BY <1>1, <1>2, <1>3, <1>4, <1>5 DEF FrameInv, WrittenFirst
<1>9. FramesTrue'
  BY <1>1, <1>2, <1>3, <1>4, <1>5, <1>6 DEF FrameInv, FramesTrue
<1>10. EndsOwnTurn'
  BY <1>1, <1>4 DEF FrameInv, EndsOwnTurn, IsTurn
<1>11. SlotHeld'
  <2> SUFFICES ASSUME NEW d \in Cmds PROVE Held(d)'
    BY DEF SlotHeld
  <2>1. Held(d)
    BY DEF FrameInv, SlotHeld
  <2>2. CASE d = c
    BY <1>1, <1>2, <1>3, <1>4, <1>5, <1>6, <1>7, <2>1, <2>2 DEF Held, InTurn
  <2>3. CASE d # c
    <3>1. InTurn(d)' => InTurn(d)
      BY <1>1, <1>4, <1>5, <1>6, <2>3 DEF InTurn
    <3> QED
      BY <1>1, <1>4, <1>5, <1>6, <2>1, <2>3, <3>1 DEF Held
  <2> QED
    BY <2>2, <2>3
<1> QED
  BY <1>4, <1>5, <1>8, <1>9, <1>10, <1>11 DEF FrameInv

----------------------------------------------------------------------------
\* Steps of OMP.

\* OMP reads the command at the head of its input.
LEMMA Reads ==
  ASSUME IInv, FrameInv, NEW c \in Cmds, OmpReads(c)
  PROVE  /\ UNCHANGED <<req, status, rtInc, inc, client, active, disp, alive, sent, sentTo>>
         /\ alive /\ c \in Queued /\ Queued' = Queued \ {c} /\ InputOnce'
         /\ sent[c] = 1 /\ c \notin done /\ turn # c /\ \A f \in Wired : f.c # c
<1>1. inbox \in Seq(Cmds) /\ inbox # <<>> /\ inbox' = Tail(inbox) /\ Head(inbox) = c
  BY DEF OmpReads, IInv, TypeOK, OmpTypes
<1>2. c \in Queued /\ Queued' = Queued \ {c} /\ InputOnce'
  BY <1>1, InputTaken DEF FrameInv
<1>3. /\ UNCHANGED <<req, status, rtInc, inc, client, active, disp, alive, sent, sentTo>> /\ alive
  BY DEF OmpReads, storeVars, runtimeVars, callVars
<1> QED
  BY <1>2, <1>3 DEF FrameInv, WrittenFirst, FramesTrue

\* It answers at once; what it answered is not in a turn any more.
LEMMA Answers ==
  ASSUME IInv, FrameInv, NEW c \in Cmds, OmpAnswers(c) PROVE FrameInv'
<1>1. /\ UNCHANGED <<req, status, rtInc, inc, client, active, disp, alive, sent, sentTo>>
      /\ alive /\ c \in Queued /\ Queued' = Queued \ {c} /\ InputOnce'
      /\ sent[c] = 1 /\ c \notin done /\ turn # c /\ \A f \in Wired : f.c # c
  BY Reads DEF OmpAnswers
<1>2. done' = done \cup {c} /\ turn' = turn
  BY DEF OmpAnswers
<1>3. wire \in Seq(Frames)
  BY DEF IInv, TypeOK, OmpTypes
<1>4. \A t \in FrameKinds : Frame(t, c) \in Frames /\ Frame(t, c).t = t /\ Frame(t, c).c = c
  BY DEF Frame, Frames
<1>5. PICK t \in {"ack", "local", "result", "fail"} :
        \/ wire' = wire \o <<Frame(t, c)>>
        \/ wire' = wire \o <<Frame("ack", c), Frame(t, c)>>
  BY DEF OmpAnswers, Emit
<1>6. OneEnd' /\ \A f \in Wired' : f \in Wired \/ (f.c = c /\ f.t # "end")
  <2>1. t \in FrameKinds /\ "ack" \in FrameKinds
    BY DEF FrameKinds
  <2>2. CASE wire' = wire \o <<Frame(t, c)>>
    BY <1>3, <1>4, <2>1, <2>2, WireGrows, WiredOne, ZenonT(40) DEF FrameInv
  <2>3. CASE wire' = wire \o <<Frame("ack", c), Frame(t, c)>>
    <3>1. OneEnd'
      BY <1>3, <1>4, <2>1, <2>3, WireGrows DEF FrameInv
    <3>2. Wired' = Wired \cup {Frame("ack", c), Frame(t, c)}
      BY <1>3, <1>4, <2>1, <2>3, WiredTwo
    <3> QED
      BY <1>4, <2>1, <3>1, <3>2
  <2> QED
    BY <1>5, <2>2, <2>3
<1>7. Ending' => Ending
  BY <1>6 DEF Ending
<1>8. \A d \in Cmds : d # NoCmd /\ (IsTurn(d)' <=> IsTurn(d))
  BY <1>1, CmdsAssumption DEF IsTurn
<1>9. WrittenFirst'
  BY <1>1, <1>2, <1>6 DEF FrameInv, WrittenFirst
<1>10. FramesTrue'
  BY <1>1, <1>2, <1>6, <1>8 DEF FrameInv, FramesTrue
<1>11. EndsOwnTurn'
  BY <1>1, <1>2, <1>7 DEF FrameInv, EndsOwnTurn, IsTurn
<1>12. SlotHeld'
  <2> SUFFICES ASSUME NEW d \in Cmds PROVE Held(d)'
    BY DEF SlotHeld
  <2>1. Held(d)
    BY DEF FrameInv, SlotHeld
  <2>2. InTurn(d)' => InTurn(d) /\ d # c
    <3>1. IsTurn(c) => ~Ending
      BY <1>1 DEF FrameInv, SlotHeld, Held
    <3>2. Ending /\ active = c => FALSE
      BY <1>1 DEF FrameInv, EndsOwnTurn
    <3> QED
      BY <1>1, <1>2, <1>7, <1>8, <3>2 DEF InTurn
  <2>3. \A f \in Wired' : f.c = d /\ d # c => f \in Wired
    BY <1>6
  <2> QED
    BY <1>1, <1>2, <1>7, <1>8, <2>1, <2>2, <2>3 DEF Held
<1> QED
  BY <1>1, <1>6, <1>9, <1>10, <1>11, <1>12 DEF FrameInv

LEMMA TurnStarts ==
  ASSUME IInv, FrameInv, NEW c \in Cmds, OmpStartsTurn(c) PROVE FrameInv'
<1>1. /\ UNCHANGED <<req, status, rtInc, inc, client, active, disp, alive, sent, sentTo>>
      /\ alive /\ c \in Queued /\ Queued' = Queued \ {c} /\ InputOnce'
      /\ sent[c] = 1 /\ c \notin done /\ turn # c /\ \A f \in Wired : f.c # c
  BY Reads DEF OmpStartsTurn
<1>2. done' = done /\ turn = NoCmd /\ turn' = c /\ IsTurn(c)
  BY DEF OmpStartsTurn, IsTurn
<1>3. active = c /\ ~Ending
  BY <1>1, <1>2 DEF FrameInv, SlotHeld, Held
<1>4. wire \in Seq(Frames) /\ Frame("ack", c) \in Frames /\ Frame("start", NoCmd) \in Frames
  BY DEF IInv, TypeOK, OmpTypes, Frame, Frames, FrameKinds
<1>5. wire' = wire \o <<Frame("ack", c), Frame("start", NoCmd)>>
  BY DEF OmpStartsTurn, Emit
<1>6. Frame("ack", c).t = "ack" /\ Frame("ack", c).c = c
      /\ Frame("start", NoCmd).t = "start" /\ Frame("start", NoCmd).c = NoCmd
  BY DEF Frame
<1>7. OneEnd'
  BY <1>4, <1>5, <1>6, WireGrows DEF FrameInv
<1>8. Wired' = Wired \cup {Frame("ack", c), Frame("start", NoCmd)}
  BY <1>4, <1>5, WiredTwo
<1>9. ~Ending'
  BY <1>3, <1>6, <1>8 DEF Ending
<1>10. \A d \in Cmds : d # NoCmd /\ (IsTurn(d)' <=> IsTurn(d))
  BY <1>1, CmdsAssumption DEF IsTurn
<1>11. WrittenFirst'
  BY <1>1, <1>2, <1>6, <1>8, <1>10 DEF FrameInv, WrittenFirst
<1>12. FramesTrue'
  BY <1>1, <1>2, <1>6, <1>8, <1>10 DEF FrameInv, FramesTrue, Closes
<1>13. EndsOwnTurn'
  BY <1>9 DEF EndsOwnTurn
<1>14. SlotHeld'
  <2> SUFFICES ASSUME NEW d \in Cmds PROVE Held(d)'
    BY DEF SlotHeld
  <2>1. Held(d)
    BY DEF FrameInv, SlotHeld
  <2>2. CASE d = c
    <3>1. InTurn(c)
      BY <1>1, <1>2 DEF InTurn
    <3> QED
      BY <1>1, <1>2, <1>3, <1>6, <1>8, <1>9, <1>10, <2>1, <2>2, <3>1 DEF Held, Closes
  <2>3. CASE d # c
    BY <1>1, <1>2, <1>3, <1>6, <1>8, <1>9, <1>10, <2>1, <2>3 DEF Held, InTurn
  <2> QED
    BY <2>2, <2>3
<1> QED
  BY <1>1, <1>7, <1>11, <1>12, <1>13, <1>14 DEF FrameInv

LEMMA TurnFinishes ==
  ASSUME IInv, FrameInv, OmpEndsTurn PROVE FrameInv'
<1>1. /\ UNCHANGED <<req, status, rtInc, inc, client, active, disp, alive, inbox, sent, sentTo>>
      /\ alive /\ turn' = NoCmd /\ done' = done \cup {turn}
      /\ wire' = wire \o <<Frame("end", NoCmd)>>
  BY DEF OmpEndsTurn, Emit, storeVars, runtimeVars, callVars
<1>2. PICK c \in Cmds : c = turn
  BY DEF OmpEndsTurn, IInv, TypeOK, OmpTypes
<1>3. /\ active = c /\ ~Ending /\ IsTurn(c) /\ InTurn(c) /\ sent[c] = 1
      /\ c \notin Queued /\ c \notin done
  BY <1>2 DEF FrameInv, SlotHeld, Held, InTurn, WrittenFirst, FramesTrue
<1>4. wire \in Seq(Frames) /\ Frame("end", NoCmd) \in Frames
  BY DEF IInv, TypeOK, OmpTypes, Frame, Frames, FrameKinds
<1>5. Frame("end", NoCmd).t = "end" /\ Frame("end", NoCmd).c = NoCmd
  BY DEF Frame
<1>6. OneEnd' /\ Wired' = Wired \cup {Frame("end", NoCmd)}
  BY <1>1, <1>3, <1>4, WireGrows, WiredOne DEF FrameInv
<1>7. Queued' = Queued /\ InputOnce'
  BY <1>1 DEF Queued, FrameInv, InputOnce
<1>8. \A d \in Cmds : d # NoCmd /\ (IsTurn(d)' <=> IsTurn(d))
  BY <1>1, CmdsAssumption DEF IsTurn
<1>9. \A d \in Cmds : \A f \in Wired' : f.c = d => f \in Wired
  BY <1>5, <1>6, <1>8
<1>10. WrittenFirst'
  BY <1>1, <1>2, <1>3, <1>7, <1>8, <1>9 DEF FrameInv, WrittenFirst
<1>11. FramesTrue'
  BY <1>1, <1>2, <1>3, <1>7, <1>8, <1>9 DEF FrameInv, FramesTrue
<1>12. EndsOwnTurn'
  BY <1>1, <1>2, <1>3 DEF EndsOwnTurn, IsTurn
<1>13. SlotHeld'
  <2> SUFFICES ASSUME NEW d \in Cmds PROVE Held(d)'
    BY DEF SlotHeld
  <2>1. Held(d)
    BY DEF FrameInv, SlotHeld
  <2>2. IsTurn(d) => d \notin Queued /\ disp[d] # "queued"
    BY <1>2, <1>8, <2>1 DEF Held
  <2>3. InTurn(d)' => d = c
    BY <1>1, <1>3, <1>7, <1>8, <2>2 DEF InTurn
  <2>4. InTurn(d)' => InTurn(d)
    BY <1>3, <2>3
  <2> QED
    BY <1>1, <1>2, <1>7, <1>8, <1>9, <2>1, <2>2, <2>4 DEF Held
<1> QED
  BY <1>6, <1>7, <1>10, <1>11, <1>12, <1>13 DEF FrameInv
----------------------------------------------------------------------------
\* Every step.

\* The pipes and the rows are left alone; requests may fail.
LEMMA Passes ==
  ASSUME IInv, FrameInv,
         UNCHANGED <<req, status, rtInc, inc, active, sent, sentTo, done>>,
         UNCHANGED <<wire, inbox, turn, alive>>,
         client' = "opening" => client = "opening",
         disp' \in {disp, FailRequests(disp)}
  PROVE  FrameInv'
<1>1. Wired' = Wired /\ Queued' = Queued /\ OneEnd' /\ InputOnce'
  BY PipesUntouched
<1>2. \A c \in Cmds : disp'[c] = disp[c] \/ (disp[c] \in {"queued", "written"} /\ disp'[c] = "unknown")
  BY DEF FailRequests
<1> QED
  BY <1>1, <1>2, Fades

\* The process is gone for the host: #lost, a stop, or the end of the host itself.
LEMMA LostFrames ==
  ASSUME IInv, PipesHaveClient, FrameInv, Lost,
         client = "closed" \/ (client = "exiting" /\ ~closing /\ up = "up")
  PROVE  FrameInv'
<1>1. EmptyPipes'
  BY DEF PipesHaveClient, EmptyPipes, Lost
<1> QED
  BY <1>1, Clears DEF Lost, historyVars

LEMMA HostDownFrames ==
  ASSUME IInv, FrameInv, HostDown PROVE FrameInv'
BY Clears DEF HostDown, EmptyPipes, storeVars, historyVars

\* The request to stop, and what it does when a start is under way.
LEMMA StopFrames ==
  ASSUME IInv, FrameInv, BeginStop \/ WaitForStart, UNCHANGED <<storeVars, ompVars, historyVars>>
  PROVE  FrameInv'
<1>1. disp' \in {disp, FailRequests(disp)} /\ (client' = "opening" => client = "opening")
  BY DEF BeginStop, WaitForStart, runtimeVars, Closing
<1>2. UNCHANGED <<rtInc, active>>
  BY DEF BeginStop, WaitForStart, runtimeVars
<1> QED
  BY <1>1, <1>2, Passes DEF storeVars, ompVars, historyVars

\* OMP's output shrinks and nothing else that matters changes.
LEMMA OutputShrinks ==
  ASSUME IInv, FrameInv,
         UNCHANGED <<req, status, rtInc, inc, active, sent, sentTo, done>>,
         UNCHANGED <<inbox, turn, alive>>,
         wire' = <<>> \/ (wire # <<>> /\ wire' = Tail(wire)),
         client' = "opening" => client = "opening",
         disp' \in {disp, FailRequests(disp)}
  PROVE  FrameInv'
<1>1. Wired' \subseteq Wired /\ OneEnd'
  <2>1. CASE wire' = <<>>
    BY <2>1 DEF Wired, OneEnd
  <2>2. CASE wire # <<>> /\ wire' = Tail(wire)
    BY <2>2, WireTaken DEF FrameInv, IInv, TypeOK, OmpTypes
  <2> QED
    BY <2>1, <2>2
<1>2. Queued' = Queued /\ InputOnce'
  BY DEF Queued, FrameInv, InputOnce
<1>3. \A c \in Cmds : disp'[c] = disp[c] \/ (disp[c] \in {"queued", "written"} /\ disp'[c] = "unknown")
  BY DEF FailRequests
<1> QED
  BY <1>1, <1>2, <1>3, Fades

\* What the owner and other clients ask for.
LEMMA RequestFrames ==
  ASSUME IInv, PipesHaveClient, FrameInv, Requests PROVE FrameInv'
<1> USE DEF storeVars, runtimeVars, callVars, ompVars, historyVars
<1>1. CASE StartSession
  BY <1>1, Passes DEF StartSession
<1>2. CASE StartAfterStop
  BY <1>2, Passes DEF StartAfterStop
<1>3. CASE StartOverDead
  BY <1>3, LostFrames DEF StartOverDead
<1>4. CASE StartHangs
  BY <1>4, Passes DEF StartHangs
<1>5. CASE StopSession
  BY <1>5, StopFrames DEF StopSession
<1>6. CASE DeleteSession
  <2>1. CASE UNCHANGED <<storeVars, runtimeVars, starting, stopping, disp, historyVars, ompVars>>
    BY <2>1, Passes
  <2>2. CASE /\ stopping = "no" /\ starting = "no" /\ client = "none"
             /\ DropSession /\ UNCHANGED <<runtimeVars, callVars, ompVars>> /\ Calm
    <3>1. Quiet
      BY <2>2 DEF Quiet, Calm, IInv, RequestsHaveClient
    <3> QED
      BY <2>2, <3>1, Drops
  <2>3. CASE (BeginStop \/ WaitForStart) /\ UNCHANGED <<storeVars, ompVars, historyVars>>
    BY <2>3, StopFrames
  <2> QED
    BY <1>6, <2>1, <2>2, <2>3 DEF DeleteSession
<1>7. CASE Reconcile
  BY <1>7, Passes DEF Reconcile
<1>8. CASE \E c \in Cmds, k \in Kinds, i \in 0 .. MaxInc : ClaimCommand(c, k, i)
  BY <1>8, Claims
<1> QED
  BY <1>1, <1>2, <1>3, <1>4, <1>5, <1>6, <1>7, <1>8 DEF Requests

LEMMA StartFrames ==
  ASSUME IInv, PipesHaveClient, FrameInv, Start PROVE FrameInv'
<1> USE DEF storeVars, runtimeVars, callVars, ompVars, historyVars
<1>1. CASE ProbeOk
  <2>1. client = "none" /\ Quiet /\ EmptyPipes
    BY <1>1, PipesAreEmpty DEF ProbeOk, IInv, QuietPhases
  <2>2. EmptyPipes' /\ \A c \in Cmds : disp'[c] = "none"
    BY <1>1, <2>1 DEF ProbeOk, EmptyPipes, Quiet
  <2>3. CASE sess = "absent"
    BY <1>1, <2>3, Passes DEF ProbeOk
  <2>4. CASE sess # "absent"
    BY <1>1, <2>2, <2>4, Clears DEF ProbeOk
  <2> QED
    BY <2>3, <2>4
<1>2. CASE ProbeFails
  BY <1>2, Passes DEF ProbeFails
<1>3. CASE SpawnOk
  BY <1>3, Spawns
<1>4. CASE SpawnFails
  <2>1. Quiet /\ EmptyPipes
    BY <1>4, PipesAreEmpty DEF SpawnFails, IInv, QuietPhases
  <2>2. EmptyPipes' /\ \A c \in Cmds : disp'[c] = "none"
    BY <1>4, <2>1 DEF SpawnFails, EmptyPipes, Quiet
  <2> QED
    BY <1>4, <2>2, Clears DEF SpawnFails
<1>5. CASE HandshakeOk
  BY <1>5, Passes DEF HandshakeOk
<1>6. CASE SubscribeOk
  BY <1>6, Passes DEF SubscribeOk
<1>7. CASE StartFails
  BY <1>7, Passes DEF StartFails, Closing
<1>8. CASE CleanupDone
  <2>1. Quiet /\ EmptyPipes
    BY <1>8, PipesAreEmpty DEF CleanupDone, IInv, QuietPhases
  <2>2. EmptyPipes' /\ \A c \in Cmds : disp'[c] = "none"
    BY <1>8, <2>1 DEF CleanupDone, EmptyPipes, Quiet
  <2> QED
    BY <1>8, <2>2, Clears DEF CleanupDone
<1> QED
  BY <1>1, <1>2, <1>3, <1>4, <1>5, <1>6, <1>7, <1>8 DEF Start

LEMMA CommandFrames ==
  ASSUME IInv, PipesHaveClient, FrameInv, CommandSteps PROVE FrameInv'
<1> USE DEF storeVars, runtimeVars, callVars, ompVars, historyVars
<1>1. PICK c \in Cmds : \/ RefuseCommand(c) \/ DispatchCommand(c) \/ WriteCommand(c)
                        \/ WriteFails(c) \/ RequestTimeout(c) \/ SettleCommand(c)
  BY DEF CommandSteps
<1>2. CASE WriteFails(c) \/ RequestTimeout(c)
  <2>1. /\ UNCHANGED <<req, status, rtInc, inc, active, sent, sentTo, done, client>>
        /\ UNCHANGED <<wire, inbox, turn, alive>>
    BY <1>2 DEF WriteFails, RequestTimeout
  <2>2. \A d \in Cmds : \/ disp'[d] = disp[d]
                        \/ disp[d] \in {"queued", "written"} /\ disp'[d] = "unknown"
                        \/ disp[d] = "queued" /\ disp'[d] = "notDispatched"
    BY <1>2 DEF WriteFails, RequestTimeout, Expires, TimeoutOutcome, IInv, TypeOK, HostTypes
  <2>3. Wired' = Wired /\ Queued' = Queued /\ OneEnd' /\ InputOnce'
    BY <2>1, PipesUntouched
  <2> QED
    BY <2>1, <2>2, <2>3, Fades
<1> QED
  BY <1>1, <1>2, Refuses, Dispatches, Writes, Settles

LEMMA FrameFrames ==
  ASSUME IInv, PipesHaveClient, FrameInv, FrameSteps PROVE FrameInv'
<1> USE DEF storeVars, runtimeVars, callVars, hostVars, ompVars, historyVars
<1>1. CASE \E c \in Cmds : ReceiveAck(c) \/ ReceiveFailure(c) \/ ReceiveResult(c)
  BY <1>1, Acks, Failures, Results
<1>2. CASE ReceiveStart
  BY <1>2, OutputShrinks DEF ReceiveStart, Receives
<1>3. CASE ReceiveEnd
  BY <1>3, TurnEnds
<1>4. CASE JournalFails
  BY <1>4, OutputShrinks DEF JournalFails
<1>5. CASE IgnoreFrame
  BY <1>5, OutputShrinks DEF IgnoreFrame
<1>6. CASE StrayFrame
  BY <1>6, Passes DEF StrayFrame
<1> QED
  BY <1>1, <1>2, <1>3, <1>4, <1>5, <1>6 DEF FrameSteps

LEMMA EndFrames ==
  ASSUME IInv, PipesHaveClient, FrameInv, EndSteps PROVE FrameInv'
<1> USE DEF storeVars, runtimeVars, callVars, ompVars, historyVars
<1>1. CASE ChildExit
  BY <1>1, Passes DEF ChildExit
<1>2. CASE StdioEnds
  BY <1>2, OutputShrinks DEF StdioEnds
<1>3. CASE Watchdog
  BY <1>3, LostFrames DEF Watchdog, WatchdogFires
<1>4. CASE StopAfterStart
  <2>1. CASE client = "none"
    BY <1>4, <2>1, Passes DEF StopAfterStart
  <2>2. CASE client # "none"
    BY <1>4, <2>2, StopFrames DEF StopAfterStart
  <2> QED
    BY <2>1, <2>2
<1>5. CASE StopDone
  <2>1. EmptyPipes
    BY <1>5, PipesAreEmpty DEF StopDone
  <2>2. EmptyPipes' /\ \A c \in Cmds : disp'[c] = "none"
    BY <1>5, <2>1 DEF StopDone, EmptyPipes
  <2> QED
    BY <1>5, <2>2, Clears DEF StopDone
<1>6. CASE StopRejected
  BY <1>6, Passes DEF StopRejected
<1>7. CASE Continue
  <2>1. CASE Head(after) = "delete" /\ sess # "absent"
    <3>1. client = "none" /\ Quiet
      BY <1>7 DEF Continue, PipesHaveClient, IInv, QuietPhases
    <3> QED
      BY <1>7, <2>1, <3>1, Drops DEF Continue
  <2>2. CASE ~(Head(after) = "delete" /\ sess # "absent")
    BY <1>7, <2>2, Passes DEF Continue
  <2> QED
    BY <2>1, <2>2
<1> QED
  BY <1>1, <1>2, <1>3, <1>4, <1>5, <1>6, <1>7 DEF EndSteps

LEMMA ProcessFrames ==
  ASSUME IInv, PipesHaveClient, FrameInv, HostSteps \/ OmpSteps PROVE FrameInv'
<1> USE DEF storeVars, runtimeVars, callVars, hostVars, ompVars, historyVars
<1>1. CASE CloseHost
  BY <1>1, Passes DEF CloseHost
<1>2. CASE CloseStopsSession
  BY <1>2, StopFrames DEF CloseStopsSession
<1>3. CASE HostExit \/ HostCrash
  BY <1>3, HostDownFrames DEF HostExit, HostCrash
<1>4. CASE OpenHost
  <2>1. EmptyPipes /\ Quiet /\ client = "none"
    BY <1>4, PipesAreEmpty DEF OpenHost, IInv, QuietPhases
  <2>2. EmptyPipes' /\ \A c \in Cmds : disp'[c] = "none"
    BY <1>4, <2>1 DEF OpenHost, EmptyPipes, Quiet
  <2> QED
    BY <1>4, <2>1, <2>2, Clears DEF OpenHost
<1>5. CASE \E c \in Cmds : OmpAnswers(c) \/ OmpStartsTurn(c)
  BY <1>5, Answers, TurnStarts
<1>6. CASE OmpEndsTurn
  BY <1>6, TurnFinishes
<1>7. CASE OmpExits
  <2>1. /\ UNCHANGED <<req, status, rtInc, inc, active, disp, client, sent, sentTo, done, wire>>
        /\ ~alive' /\ turn' = NoCmd /\ inbox' = <<>>
    BY <1>7 DEF OmpExits
  <2>2. Wired' = Wired /\ OneEnd' /\ Queued' \subseteq Queued /\ InputOnce'
    BY <2>1 DEF Wired, OneEnd, Queued, InputOnce, FrameInv
  <2> QED
    BY <2>1, <2>2, Fades
<1>8. CASE OrphanExits
  BY <1>8, Passes DEF OrphanExits
<1> QED
  BY <1>1, <1>2, <1>3, <1>4, <1>5, <1>6, <1>7, <1>8 DEF HostSteps, OmpSteps

LEMMA FInvStep == FInv /\ [Next]_vars => FInv'
<1> SUFFICES ASSUME FInv, [Next]_vars PROVE FInv'
  OBVIOUS
<1>1. IInv' /\ PipesHaveClient'
  BY IInvStep, PipesStep DEF FInv
<1>2. ASSUME UNCHANGED vars PROVE FrameInv'
  BY <1>2, Passes DEF FInv, vars, storeVars, runtimeVars, callVars, ompVars, historyVars
<1>3. FrameInv'
  BY <1>2, RequestFrames, StartFrames, CommandFrames, FrameFrames, EndFrames, ProcessFrames DEF FInv, Next
<1> QED
  BY <1>1, <1>3 DEF FInv

LEMMA InitFInv == Init => FInv
<1> SUFFICES ASSUME Init PROVE FInv
  OBVIOUS
<1>1. EmptyPipes /\ Wired = {} /\ Queued = {} /\ ~Ending /\ OneEnd /\ InputOnce
  BY EmptyIsEmpty DEF Init, EmptyPipes
<1>2. PipesHaveClient
  BY DEF Init, PipesHaveClient
<1>3. FrameInv
  BY <1>1, CmdsAssumption
     DEF Init, FrameInv, WrittenFirst, FramesTrue, SlotHeld, Held, EndsOwnTurn, InTurn
<1> QED
  BY <1>2, <1>3, InitIInv DEF FInv

----------------------------------------------------------------------------
\* What the frames guarantee.

\* The invariant of the pipes holds in every reachable state.
THEOREM FrameInvariance == Spec => []FInv
BY InitFInv, FInvStep, PTL DEF Spec

\* Only a command that was written is ever acknowledged, completed or failed.
THEOREM OnlySentIsAnswered == Spec => []AnsweredWasSent
<1>1. FInv => AnsweredWasSent
  BY DEF FInv, FrameInv, WrittenFirst, AnsweredWasSent
<1> QED
  BY <1>1, FrameInvariance, PTL

\* A prompt reported complete is one OMP has finished.
THEOREM CompletionIsTrue == Spec => []NoFalseCompletion
<1>1. FInv => NoFalseCompletion
  BY DEF FInv, FrameInv, FramesTrue, NoFalseCompletion
<1> QED
  BY <1>1, FrameInvariance, PTL

\* The live OMP process has at most one unfinished turn.
THEOREM OneTurn == Spec => []OneTurnAtOmp
<1>1. FInv => OneTurnAtOmp
  <2> SUFFICES ASSUME FInv, NEW c \in Cmds, NEW d \in Cmds, alive,
                      {c, d} \subseteq {e \in Cmds : req[e].kind = "turn" /\ sent[e] > 0} \ done,
                      sentTo[c] = rtInc, sentTo[d] = rtInc
               PROVE  c = d
    BY DEF OneTurnAtOmp
  <2>1. (c \in Queued \/ turn = c) /\ (d \in Queued \/ turn = d) /\ IsTurn(c) /\ IsTurn(d)
    BY DEF FInv, FrameInv, SlotHeld, Held, IsTurn
  <2> QED
    BY <2>1 DEF FInv, FrameInv, SlotHeld, Held
<1> QED
  BY <1>1, FrameInvariance, PTL
----------------------------------------------------------------------------
\* The rows keep CommandPromise.

\* A row that is open moves as the promise allows, if what it says is so.
LEMMA RowSettles ==
  ASSUME IInv, FrameInv, NEW c \in Cmds, NEW to \in Terminal \cup {"acknowledged"},
         status' = Transition(status, c, to), sent' = sent,
         to \in {"acknowledged", "completed", "failed"} => sent[c] = 1,
         to = "not_dispatched" => sent[c] = 0
  PROVE  [Promise!Next]_Promise!vars
<1>1. CASE status[c] \in Pending \ {to}
  <2>1. Promise!Settle(c, to)
    BY <1>1 DEF Promise!Settle, Promise!MayBecome, Transition, Pending, Terminal
  <2> QED
    BY <2>1 DEF Promise!Next, Promise!Terminal, Terminal
<1>2. CASE status[c] \notin Pending \ {to}
  <2>1. status' = status
    BY <1>2 DEF Transition, IInv, TypeOK, RowTypes
  <2> QED
    BY <2>1 DEF Promise!vars
<1> QED
  BY <1>1, <1>2

\* Every step of a session is one of the promise, or none.
LEMMA PromiseStep == FInv /\ [Next]_vars => [Promise!Next]_Promise!vars
<1> SUFFICES ASSUME FInv, [Next]_vars PROVE [Promise!Next]_Promise!vars
  OBVIOUS
<1> USE DEF storeVars, runtimeVars, callVars, ompVars, historyVars
<1>i. IInv /\ FrameInv
  BY DEF FInv
<1>a. ASSUME UNCHANGED <<status, sent>> PROVE [Promise!Next]_Promise!vars
  BY <1>a DEF Promise!vars
<1>b. ASSUME status' = Abandoned(status), UNCHANGED sent PROVE [Promise!Next]_Promise!vars
  BY <1>b DEF Promise!Next, Promise!Abandon, Abandoned, Pending
<1>c. ASSUME DropSession PROVE [Promise!Next]_Promise!vars
  BY <1>c DEF Promise!Next, Promise!Forget, DropSession
<1>1. CASE Requests
  <2>1. CASE \E c \in Cmds, k \in Kinds, i \in 0 .. MaxInc : ClaimCommand(c, k, i)
    BY <2>1 DEF ClaimCommand, Claimable, Promise!Next, Promise!Claim
  <2>2. CASE StartOverDead
    BY <1>b, <2>2 DEF StartOverDead, Lost
  <2>3. CASE DeleteSession
    BY <1>a, <1>c, <2>3 DEF DeleteSession
  <2>4. CASE StartSession \/ StartAfterStop \/ StartHangs \/ StopSession \/ Reconcile
    BY <1>a, <2>4 DEF StartSession, StartAfterStop, StartHangs, StopSession, Reconcile
  <2> QED
    BY <1>1, <2>1, <2>2, <2>3, <2>4 DEF Requests
<1>2. CASE Start
  BY <1>2, <1>a DEF Start, ProbeOk, ProbeFails, SpawnOk, SpawnFails, HandshakeOk, SubscribeOk,
                    StartFails, CleanupDone
<1>3. CASE CommandSteps
  <2>1. PICK c \in Cmds : \/ RefuseCommand(c) \/ DispatchCommand(c) \/ WriteCommand(c)
                          \/ WriteFails(c) \/ RequestTimeout(c) \/ SettleCommand(c)
    BY <1>3 DEF CommandSteps
  <2>2. CASE RefuseCommand(c)
    <3>1. status' = Transition(status, c, "not_dispatched") /\ sent' = sent /\ sent[c] = 0
      BY <2>2, <1>i DEF RefuseCommand, IInv, DispatchOrder
    <3> QED
      BY <1>i, <3>1, RowSettles DEF Terminal
  <2>3. CASE WriteCommand(c)
    <3>1. disp[c] = "queued" /\ sent[c] = 0 /\ status[c] = "claimed" /\ sent \in [Cmds -> Nat]
      BY <1>i, <2>3 DEF WriteCommand, IInv, DispatchOrder, FrameInv, WrittenFirst, TypeOK, OmpTypes
    <3>2. sent' = [sent EXCEPT ![c] = 1] /\ status' = status
      BY <2>3, <3>1 DEF WriteCommand
    <3> QED
      BY <3>1, <3>2 DEF Promise!Next, Promise!Deliver
  <2>4. CASE SettleCommand(c)
    <3>1. /\ status' = Transition(status, c, Answer(c)) /\ sent' = sent
          /\ disp[c] \in {"acked", "local", "failed", "notDispatched", "unknown"}
      BY <2>4 DEF SettleCommand
    <3>2. /\ Answer(c) \in Terminal \cup {"acknowledged"}
          /\ Answer(c) \in {"acknowledged", "completed", "failed"} => sent[c] = 1
          /\ Answer(c) = "not_dispatched" => sent[c] = 0
      BY <1>i, <3>1 DEF Answer, Terminal, FrameInv, WrittenFirst, IInv, DispatchOrder
    <3> QED
      BY <1>i, <3>1, <3>2, RowSettles
  <2>5. CASE DispatchCommand(c) \/ WriteFails(c) \/ RequestTimeout(c)
    BY <1>a, <2>5 DEF DispatchCommand, WriteFails, RequestTimeout
  <2> QED
    BY <2>1, <2>2, <2>3, <2>4, <2>5
<1>4. CASE FrameSteps
  <2>1. ASSUME NEW c \in Cmds, ReceiveAck(c) PROVE [Promise!Next]_Promise!vars
    BY <1>a, <2>1 DEF ReceiveAck, Receives
  <2>2. ASSUME NEW c \in Cmds, ReceiveFailure(c) PROVE [Promise!Next]_Promise!vars
    <3>1. Frame("fail", c) \in Wired
      BY <1>i, <2>2, Received DEF ReceiveFailure, FrameKinds
    <3>2. sent[c] = 1 /\ sent' = sent
      BY <1>i, <2>2, <3>1 DEF Frame, FrameInv, WrittenFirst, ReceiveFailure, Receives
    <3> QED
      BY <1>a, <1>i, <2>2, <3>2, RowSettles DEF ReceiveFailure, Terminal
  <2>3. ASSUME NEW c \in Cmds, ReceiveResult(c) PROVE [Promise!Next]_Promise!vars
    <3>1. Frame("result", c) \in Wired
      BY <1>i, <2>3, Received DEF ReceiveResult, FrameKinds
    <3>2. sent[c] = 1 /\ sent' = sent
      BY <1>i, <2>3, <3>1 DEF Frame, FrameInv, WrittenFirst, ReceiveResult, Receives
    <3> QED
      BY <1>a, <1>i, <2>3, <3>2, RowSettles DEF ReceiveResult, Complete, Terminal
  <2>4. CASE ReceiveEnd
    <3>1. Frame("end", NoCmd) \in Wired
      BY <1>i, <2>4, Received DEF ReceiveEnd, FrameKinds
    <3>2. active \in Cmds /\ sent[active] = 1 /\ sent' = sent
      BY <1>i, <2>4, <3>1 DEF Frame, Ending, FrameInv, WrittenFirst, EndsOwnTurn, IInv, TypeOK, OmpTypes,
                              ReceiveEnd, Receives
    <3> QED
      BY <1>a, <1>i, <2>4, <3>2, RowSettles DEF ReceiveEnd, Complete, Terminal
  <2>5. CASE ReceiveStart \/ JournalFails \/ IgnoreFrame \/ StrayFrame
    BY <1>a, <2>5 DEF ReceiveStart, Receives, JournalFails, IgnoreFrame, StrayFrame
  <2> QED
    BY <1>4, <2>1, <2>2, <2>3, <2>4, <2>5 DEF FrameSteps
<1>5. CASE EndSteps
  <2>1. CASE Watchdog
    BY <1>b, <2>1 DEF Watchdog, Lost
  <2>2. CASE StopDone
    BY <1>b, <2>2 DEF StopDone
  <2>3. CASE Continue
    BY <1>a, <1>c, <2>3 DEF Continue
  <2>4. CASE ChildExit \/ StdioEnds \/ StopAfterStart \/ StopRejected
    BY <1>a, <2>4 DEF ChildExit, StdioEnds, StopAfterStart, StopRejected
  <2> QED
    BY <1>5, <2>1, <2>2, <2>3, <2>4 DEF EndSteps
<1>6. CASE HostSteps
  BY <1>6, <1>a, <1>b DEF HostSteps, CloseHost, CloseStopsSession, HostExit, HostCrash, HostDown, OpenHost
<1>7. CASE OmpSteps
  BY <1>7, <1>a DEF OmpSteps, OmpAnswers, OmpStartsTurn, OmpReads, OmpEndsTurn, OmpExits, OrphanExits
<1>8. CASE UNCHANGED vars
  BY <1>8, <1>a DEF vars
<1> QED
  BY <1>1, <1>2, <1>3, <1>4, <1>5, <1>6, <1>7, <1>8 DEF Next

\* CediaSession implements CommandPromise: whatever is interrupted, a row is claimed
\* before the one delivery, tells the truth about it and freezes once terminal.
THEOREM Refinement == Spec => KeepsPromise
<1>1. Init => Promise!Init
  BY DEF Init, Promise!Init
<1> QED
  BY <1>1, PromiseStep, FrameInvariance, PTL DEF Spec, KeepsPromise, Promise!Spec

----------------------------------------------------------------------------
\* What the two counterexamples rest on.  The runs zombie_stop and stray_frame
\* show that the host may freeze, and that a session in doubt may be revived; the
\* theorems below name the one circumstance behind each, and show that the first is
\* also what may leave an acknowledged row without anyone to settle it.

\* A runtime is marked closing by the failed start or the stop that is closing it.
Unfrozen ==
  /\ up # "hung" /\ ~held
  /\ closing => client # "none" /\ (starting = "cleanup" \/ stopping = "closing")
  /\ stopping = "closing" => starting = "no"
  /\ starting \in {"spawn", "handshake", "subscribe", "cleanup"} => client # "none"

LEMMA UnfrozenStep == ASSUME ~PipeMayLeak, Unfrozen, [Next]_vars PROVE Unfrozen'
<1> USE DEF Unfrozen, vars, storeVars, runtimeVars, callVars, hostVars, ompVars, historyVars
<1>1. CASE StartSession \/ StartAfterStop \/ Reconcile
  BY <1>1 DEF StartSession, StartAfterStop, Reconcile
<1>2. CASE StartOverDead \/ Watchdog
  BY <1>2 DEF StartOverDead, Watchdog, WatchdogFires, Lost
<1>3. CASE StartHangs
  BY <1>3 DEF StartHangs
<1>4. CASE StopSession \/ DeleteSession
  BY <1>4 DEF StopSession, DeleteSession, WaitForStart, BeginStop, Closing
<1>5. ASSUME NEW c \in Cmds, NEW k \in Kinds, NEW i \in 0 .. MaxInc, ClaimCommand(c, k, i)
      PROVE  Unfrozen'
  BY <1>5 DEF ClaimCommand
<1>6. CASE ProbeOk \/ ProbeFails \/ SpawnOk \/ SpawnFails
  BY <1>6 DEF ProbeOk, ProbeFails, SpawnOk, SpawnFails
<1>7. CASE HandshakeOk \/ SubscribeOk \/ StartFails \/ CleanupDone
  BY <1>7 DEF HandshakeOk, SubscribeOk, StartFails, CleanupDone, Closing
<1>8. ASSUME NEW c \in Cmds, RefuseCommand(c) \/ DispatchCommand(c) \/ WriteCommand(c)
      PROVE  Unfrozen'
  BY <1>8 DEF RefuseCommand, DispatchCommand, WriteCommand
<1>9. ASSUME NEW c \in Cmds, WriteFails(c) \/ RequestTimeout(c) \/ SettleCommand(c)
      PROVE  Unfrozen'
  BY <1>9 DEF WriteFails, RequestTimeout, SettleCommand
<1>10. ASSUME NEW c \in Cmds, ReceiveAck(c) \/ ReceiveFailure(c) \/ ReceiveResult(c)
       PROVE  Unfrozen'
  BY <1>10 DEF ReceiveAck, ReceiveFailure, ReceiveResult, Receives
<1>11. CASE ReceiveStart \/ ReceiveEnd
  BY <1>11 DEF ReceiveStart, ReceiveEnd, Receives
<1>12. CASE JournalFails \/ IgnoreFrame \/ StrayFrame
  BY <1>12 DEF JournalFails, IgnoreFrame, StrayFrame
<1>13. CASE ChildExit \/ StdioEnds
  BY <1>13 DEF ChildExit, StdioEnds
<1>14. CASE StopAfterStart \/ StopDone \/ StopRejected
  BY <1>14 DEF StopAfterStart, BeginStop, StopDone, StopRejected, Closing
<1>15. CASE Continue
  BY <1>15 DEF Continue, Restarts, DropSession
<1>16. CASE CloseHost \/ CloseStopsSession \/ OpenHost
  BY <1>16 DEF CloseHost, CloseStopsSession, BeginStop, OpenHost, Closing
<1>17. CASE HostExit \/ HostCrash
  BY <1>17 DEF HostExit, HostCrash, HostDown
<1>18. ASSUME NEW c \in Cmds, OmpAnswers(c) \/ OmpStartsTurn(c) PROVE Unfrozen'
  BY <1>18 DEF OmpAnswers, OmpStartsTurn, OmpReads
<1>19. CASE OmpEndsTurn \/ OmpExits \/ OrphanExits
  <2>1. held' = held \/ held' = FALSE
    BY <1>19 DEF OmpEndsTurn, OmpExits, OrphanExits
  <2>2. UNCHANGED <<up, closing, client, starting, stopping>>
    BY <1>19 DEF OmpEndsTurn, OmpExits, OrphanExits
  <2> QED
    BY <2>1, <2>2
<1>20. CASE UNCHANGED vars
  BY <1>20
<1> QED
  BY <1>1, <1>2, <1>3, <1>4, <1>5, <1>6, <1>7, <1>8, <1>9, <1>10, <1>11, <1>12, <1>13, <1>14,
     <1>15, <1>16, <1>17, <1>18, <1>19, <1>20
     DEF Next, Requests, Start, CommandSteps, FrameSteps, EndSteps, HostSteps, OmpSteps

\* The host freezes only where a child of OMP keeps OMP's stdout open: without one
\* no stop is rejected, and no runtime stays marked closing (#stopSession, #lost).
THEOREM FreezeNeedsLeak == ~PipeMayLeak => (Spec => []HostNeverFreezes)
<1>1. Init => Unfrozen
  BY DEF Init, Unfrozen
<1>2. ~PipeMayLeak /\ Unfrozen /\ [Next]_vars => Unfrozen'
  BY UnfrozenStep
<1>3. Unfrozen => HostNeverFreezes
  BY DEF Unfrozen, HostNeverFreezes
<1> SUFFICES ASSUME ~PipeMayLeak PROVE Spec => []HostNeverFreezes
  OBVIOUS
<1>4. Unfrozen /\ [Next]_vars => Unfrozen'
  BY <1>2
<1> QED
  BY <1>1, <1>3, <1>4, PTL DEF Spec

\* Every unfinished row of a running host has its request handler or someone who will
\* settle it.
AlwaysSettled ==
  Running => \A c \in Cmds :
    /\ status[c] = "claimed" => disp[c] # "none"
    /\ status[c] = "acknowledged" => WillSettle

\* The exception of NoAbandonedCommand needs such a child as well: where pipes do not
\* leak, every unfinished row has someone to finish it (#stopSession, #lost, #dispatch).
THEOREM AbandonNeedsLeak == ~PipeMayLeak => (Spec => []AlwaysSettled)
<1>1. Init => Unfrozen
  BY DEF Init, Unfrozen
<1>2. ~PipeMayLeak /\ Unfrozen /\ [Next]_vars => Unfrozen'
  BY UnfrozenStep
<1>3. Unfrozen /\ NoAbandonedCommand => AlwaysSettled
  BY DEF Unfrozen, NoAbandonedCommand, AlwaysSettled, StopMustFail
<1> SUFFICES ASSUME ~PipeMayLeak PROVE Spec => []AlwaysSettled
  OBVIOUS
<1>4. Unfrozen /\ [Next]_vars => Unfrozen'
  BY <1>2
<1> QED
  BY <1>1, <1>3, <1>4, NothingAbandoned, PTL DEF Spec

\* Frames of a runtime that #lost gave up on are still to be read.
StraysUnread == stray # <<>>

LEMMA DoubtStays ==
  ASSUME NoWorkInDoubt, sess = "recovery_required", ~StraysUnread, [Next]_vars
  PROVE  sess' \in {"recovery_required", "stopped", "absent"}
<1> USE DEF StraysUnread, NoWorkInDoubt, vars, storeVars, runtimeVars, callVars, hostVars, historyVars
<1>1. CASE StartSession \/ StartAfterStop \/ Reconcile \/ StartHangs
  BY <1>1 DEF StartSession, StartAfterStop, Reconcile, StartHangs
<1>2. CASE StartOverDead \/ Watchdog
  BY <1>2 DEF StartOverDead, Watchdog, Lost
<1>3. CASE StopSession \/ DeleteSession
  BY <1>3 DEF StopSession, DeleteSession, DropSession
<1>4. ASSUME NEW c \in Cmds, NEW k \in Kinds, NEW i \in 0 .. MaxInc, ClaimCommand(c, k, i)
      PROVE  sess' = sess
  BY <1>4 DEF ClaimCommand
<1>5. CASE Start
  BY <1>5
     DEF Start, ProbeOk, ProbeFails, SpawnOk, SpawnFails, HandshakeOk, SubscribeOk, StartFails,
         CleanupDone
<1>6. ASSUME NEW c \in Cmds, RefuseCommand(c) \/ DispatchCommand(c) \/ WriteCommand(c)
      PROVE  sess' = sess
  BY <1>6 DEF RefuseCommand, DispatchCommand, WriteCommand
<1>7. ASSUME NEW c \in Cmds, WriteFails(c) \/ RequestTimeout(c) \/ SettleCommand(c)
      PROVE  sess' = sess
  BY <1>7 DEF WriteFails, RequestTimeout, SettleCommand
<1>8. ASSUME NEW c \in Cmds, ReceiveAck(c) \/ ReceiveFailure(c) \/ ReceiveResult(c)
      PROVE  sess' = sess
  BY <1>8 DEF ReceiveAck, ReceiveFailure, ReceiveResult
<1>9. CASE ReceiveStart \/ ReceiveEnd
  BY <1>9 DEF ReceiveStart, ReceiveEnd, Receives
<1>10. CASE JournalFails \/ IgnoreFrame \/ StrayFrame
  BY <1>10 DEF JournalFails, IgnoreFrame, StrayFrame
<1>11. CASE ChildExit \/ StdioEnds \/ StopAfterStart \/ StopDone \/ StopRejected
  BY <1>11 DEF ChildExit, StdioEnds, StopAfterStart, StopDone, StopRejected
<1>12. CASE Continue
  BY <1>12 DEF Continue, DropSession
<1>13. CASE CloseHost \/ CloseStopsSession \/ OpenHost
  BY <1>13 DEF CloseHost, CloseStopsSession, OpenHost
<1>14. CASE HostExit \/ HostCrash
  BY <1>14 DEF HostExit, HostCrash, HostDown
<1>15. ASSUME NEW c \in Cmds, OmpAnswers(c) \/ OmpStartsTurn(c) PROVE sess' = sess
  BY <1>15 DEF OmpAnswers, OmpStartsTurn, OmpReads
<1>16. CASE OmpEndsTurn \/ OmpExits \/ OrphanExits
  BY <1>16 DEF OmpEndsTurn, OmpExits, OrphanExits
<1>17. CASE UNCHANGED vars
  BY <1>17
<1> QED
  BY <1>1, <1>2, <1>3, <1>4, <1>5, <1>6, <1>7, <1>8, <1>9, <1>10, <1>11, <1>12, <1>13, <1>14,
     <1>15, <1>16, <1>17 DEF Next, Requests, CommandSteps, FrameSteps, EndSteps, HostSteps, OmpSteps

\* Only a late frame of a runtime given up on revives a session whose work is in
\* doubt; every other step leaves that to the owner, or to the deletion
\* (#startSession, #onFrame).
OnlyStraysRevive ==
  [][sess = "recovery_required" /\ ~StraysUnread
       => sess' \in {"recovery_required", "stopped", "absent"}]_vars

\* In every run, a session in doubt is revived by such a frame or not at all.
THEOREM RevivalNeedsStray == Spec => OnlyStraysRevive
<1>1. IInv => NoWorkInDoubt
  BY DEF IInv
<1>2. NoWorkInDoubt /\ [Next]_vars
        => [sess = "recovery_required" /\ ~StraysUnread
              => sess' \in {"recovery_required", "stopped", "absent"}]_vars
  BY DoubtStays
<1> QED
  BY <1>1, <1>2, Invariance, PTL DEF Spec, OnlyStraysRevive
=============================================================================
