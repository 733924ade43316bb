-------------------------- MODULE HandControlProofs --------------------------
(***************************************************************************)
(* What HandControl guarantees for every mailbox capacity.                 *)
(*                                                                         *)
(* The inductive invariant IInv has four parts.  Phases says who may be    *)
(* where: one holder of _motionMutex, a control thread only while the      *)
(* session is open, a recovery only while the backend is connected.        *)
(* Latched says why a fault cannot go unnoticed: until a recovery          *)
(* succeeds, either _recoveryRequired is set or one of the other           *)
(* conditions of isMotionReady still fails.  Current follows a telemetry   *)
(* sample across a restart of the system, and Live follows a target from   *)
(* the mailbox to MoveServoJoint.                                          *)
(*                                                                         *)
(* The last part shows that the adapter implements HandSession, on which   *)
(* the bridge counts, and that a session HandSession calls silent is.      *)
(***************************************************************************)
EXTENDS HandControl, TLAPS

Recovering == {"connect", "reset", "discover", "starting", "mark",
               "telemetry", "seed", "finish", "verify"}
InIteration == {"locked", "checked", "decided", "moved"}
Connecting == {"connect", "discover", "starting", "mark", "telemetry", "seed"}

Phases ==
  /\ loop \in InIteration <=> motionMutex = "loop"
  /\ worker \in Recovering <=> motionMutex = "worker"
  /\ main \notin {"idle", "retry"} => worker = "idle"
  /\ main \notin {"idle", "retry", "join"} => loop = "none"
  /\ main \in Connecting \cup {"idle", "retry"} => sdkOpen
  /\ loop \notin {"none", "exited"} => sdkOpen
  /\ main = "closed" => ~sdkOpen
  /\ ~sdkOpen => cb = "idle"

Latched ==
  /\ cb = "lost" => ~connected
  /\ worker \in Recovering \ {"verify"} => recoveryRequired
  /\ loop = "moved" \/ (loop = "decided" /\ mayMove) => motionOk
  /\ faulted /\ ~recoveryRequired =>
       cb = "lost" \/ ~motionOk \/ worker = "verify"
  /\ ~faulted => lateMoves = 0
  /\ loop = "decided" /\ mayMove => lateMoves = 0
  /\ lateMoves \in {0, 1}

Current ==
  /\ cb # "oldData"
  /\ telemetry # "none" => sampleCurrent
  /\ \/ main \in {"connect", "discover", "starting", "mark"}
     \/ worker \in {"reset", "discover", "starting", "mark"}
     => ~systemStarted
  /\ main \in Connecting \ {"telemetry", "seed"} => cb # "data"
  /\ worker \in {"starting", "mark"} => cb # "data"
  /\ worker = "discover" /\ commHealthy => cb # "data" /\ discovered
  /\ main = "starting" \/ worker = "starting" => telemetry = "none"

Live ==
  /\ loop # "none" => \A i \in 1..Len(mailbox) : mailbox[i] = "live"
  /\ msgTarget # "revoked"
  /\ loop = "moved" => tempPos = "live"
  /\ latestCommandValid => tempPos = "live"
  /\ worker \in Recovering \/ main \in Connecting => ~latestCommandValid
  /\ loop \notin {"decided", "moved"} => msgTarget = "none"

IInv == TypeOK /\ Phases /\ Latched /\ Current /\ Live

-----------------------------------------------------------------------------
(* Types. *)

\* Marking the targets of a mailbox as revoked keeps it a mailbox.
LEMMA RevokeAllType ==
  ASSUME NEW box \in Seq(Target)
  PROVE  /\ RevokeAll(box) \in Seq(Target)
         /\ Len(RevokeAll(box)) = Len(box)
  BY DEF RevokeAll, Revoked, Target

\* The initial state is typed.
LEMMA InitTypes == Init => TypeOK
<1> SUFFICES ASSUME Init PROVE TypeOK
  OBVIOUS
<1>1. mailbox \in Seq(Target) /\ Len(mailbox) <= Capacity
  BY CapacityAssumption DEF Init
<1>2. cb \in CbState /\ loop \in LoopState /\ main \in MainState
  BY DEF Init, CbState, LoopState, MainState
<1>3. worker \in WorkerState /\ tempPos \in Pose
  BY DEF Init, WorkerState, Pose
<1>4. QED
  BY <1>1, <1>2, <1>3 DEF Init, TypeOK

\* Every step keeps the types: the mailbox never exceeds its capacity.
LEMMA TypeStep ==
  ASSUME TypeOK, [Next]_vars
  PROVE  TypeOK'
<1> USE DEF sdkVars, sessionVars, motionVars, lifeVars,
            targetVars, loopVars, faultVars, seenVars
<1>1. CASE ConnectedCallback
  BY <1>1
  DEF ConnectedCallback, TypeOK
<1>2. CASE DisconnectedCallback
  <2>1. /\ connected' \in BOOLEAN /\ faulted' \in BOOLEAN
    BY <1>2
    DEF DisconnectedCallback, Fault, TypeOK
  <2>2. cb' \in CbState
    BY <1>2
    DEF DisconnectedCallback, Fault, TypeOK, CbState
  <2>3. QED
    BY <1>2, <2>1, <2>2
    DEF DisconnectedCallback, Fault, TypeOK
<1>3. CASE DisconnectedLatch
  BY <1>3
  DEF DisconnectedLatch, TypeOK, CbState
<1>4. CASE DisconnectedUnstart
  <2>1. systemStarted' \in BOOLEAN
    BY <1>4
    DEF DisconnectedUnstart, TypeOK
  <2>2. cb' \in CbState
    BY <1>4
    DEF DisconnectedUnstart, TypeOK, CbState
  <2>3. QED
    BY <1>4, <2>1, <2>2
    DEF DisconnectedUnstart, TypeOK
<1>5. CASE DisconnectedClear
  <2>1. systemStartSet' \in BOOLEAN
    BY <1>5
    DEF DisconnectedClear, TypeOK
  <2>2. /\ cb' \in CbState
        /\ telemetry' \in {"none", "fresh", "stale"}
    BY <1>5
    DEF DisconnectedClear, TypeOK, CbState
  <2>3. QED
    BY <1>5, <2>1, <2>2
    DEF DisconnectedClear, TypeOK
<1>6. CASE DisconnectedForget
  <2>1. latestCommandValid' \in BOOLEAN
    BY <1>6
    DEF DisconnectedForget, TypeOK
  <2>2. cb' \in CbState
    BY <1>6
    DEF DisconnectedForget, TypeOK, CbState
  <2>3. QED
    BY <1>6, <2>1, <2>2
    DEF DisconnectedForget, TypeOK
<1>7. CASE ReceivedGripperData
  BY <1>7
  DEF ReceivedGripperData, TypeOK, CbState
<1>8. CASE StampGripperData
  BY <1>8
  DEF StampGripperData, TypeOK, CbState
<1>9. CASE CommunicationPeriod
  BY <1>9
  DEF CommunicationPeriod, TypeOK
<1>10. CASE TelemetryAges
  BY <1>10
  DEF TelemetryAges, TypeOK
<1>11. CASE LoopBoot
  BY <1>11
  DEF LoopBoot, TypeOK, LoopState
<1>12. CASE LoopExit
  <2>1. controlRunning' \in BOOLEAN
    BY <1>12
    DEF LoopExit, TypeOK
  <2>2. loop' \in LoopState
    BY <1>12
    DEF LoopExit, TypeOK, LoopState
  <2>3. QED
    BY <1>12, <2>1, <2>2
    DEF LoopExit, TypeOK
<1>13. CASE LoopLock
  BY <1>13
  DEF LoopLock, TypeOK, LoopState
<1>14. CASE LoopDisconnected
  <2>1. /\ mayMove' \in BOOLEAN /\ moveResult' \in BOOLEAN
    BY <1>14
    DEF LoopDisconnected, IterationEnds, Drained, TypeOK
  <2>2. /\ loop' \in LoopState
        /\ motionMutex' \in {"none", "loop", "worker"}
        /\ msgTarget' \in Target \cup {"none"}
    BY <1>14
    DEF LoopDisconnected, IterationEnds, Drained, TypeOK, LoopState, Target
  <2>3. mailbox' \in Seq(Target) /\ Len(mailbox') <= Capacity
    BY <1>14, CapacityAssumption
    DEF LoopDisconnected, IterationEnds, Drained, TypeOK, Target
  <2>4. QED
    BY <1>14, <2>1, <2>2, <2>3
    DEF LoopDisconnected, IterationEnds, Drained, TypeOK
<1>15. CASE LoopCheck
  <2>1. /\ recoveryRequired' \in BOOLEAN /\ faulted' \in BOOLEAN
    BY <1>15
    DEF LoopCheck, Fault, TypeOK
  <2>2. loop' \in LoopState
    BY <1>15
    DEF LoopCheck, Fault, TypeOK, LoopState
  <2>3. lateMoves' = lateMoves
    BY <1>15
    DEF LoopCheck, Fault
  <2>4. QED
    BY <1>15, <2>1, <2>2, <2>3
    DEF LoopCheck, TypeOK
<1>16. CASE LoopDecide
  <2>1. mayMove' \in BOOLEAN
    BY <1>16
    DEF LoopDecide, Drained, IsMotionReady, TypeOK
  <2>2. /\ loop' \in LoopState
        /\ msgTarget' \in Target \cup {"none"}
    BY <1>16
    DEF LoopDecide, Drained, IsMotionReady, TypeOK, LoopState, Target
  <2>3. mailbox' \in Seq(Target) /\ Len(mailbox') <= Capacity
    BY <1>16, CapacityAssumption
    DEF LoopDecide, Drained, IsMotionReady, TypeOK, Target
  <2>4. QED
    BY <1>16, <2>1, <2>2, <2>3
    DEF LoopDecide, Drained, IsMotionReady, TypeOK
<1>17. CASE LoopMove
  BY <1>17
  DEF LoopMove, TypeOK, LoopState, Pose, Target
<1>18. CASE LoopRest
  <2>1. /\ mayMove' \in BOOLEAN /\ moveResult' \in BOOLEAN
    BY <1>18
    DEF LoopRest, IterationEnds, TypeOK
  <2>2. /\ loop' \in LoopState
        /\ motionMutex' \in {"none", "loop", "worker"}
        /\ msgTarget' \in Target \cup {"none"}
    BY <1>18
    DEF LoopRest, IterationEnds, TypeOK, LoopState, Target
  <2>3. QED
    BY <1>18, <2>1, <2>2
    DEF LoopRest, IterationEnds, TypeOK
<1>19. CASE LoopRecord
  <2>1. /\ latestCommandValid' \in BOOLEAN /\ motionOk' \in BOOLEAN /\
           faulted' \in BOOLEAN /\ mayMove' \in BOOLEAN /\
           moveResult' \in BOOLEAN
    BY <1>19
    DEF LoopRecord, IterationEnds, Fault, TypeOK
  <2>2. /\ loop' \in LoopState
        /\ motionMutex' \in {"none", "loop", "worker"}
        /\ msgTarget' \in Target \cup {"none"}
    BY <1>19
    DEF LoopRecord, IterationEnds, Fault, TypeOK, LoopState, Target
  <2>3. QED
    BY <1>19, <2>1, <2>2
    DEF LoopRecord, IterationEnds, Fault, TypeOK
<1>20. CASE StartBegin
  <2>1. /\ sdkOpen' \in BOOLEAN /\ systemStarted' \in BOOLEAN /\
           systemStartSet' \in BOOLEAN /\ temperatureSafe' \in BOOLEAN /\
           recoveryRequired' \in BOOLEAN /\
           latestCommandValid' \in BOOLEAN /\ motionOk' \in BOOLEAN /\
           stopRequested' \in BOOLEAN /\ keepalive' \in BOOLEAN /\
           discovered' \in BOOLEAN /\ faulted' \in BOOLEAN
    BY <1>20
    DEF StartBegin, ClearFault, Revoked, TypeOK
  <2>2. /\ main' \in MainState
        /\ telemetry' \in {"none", "fresh", "stale"}
        /\ tempPos' \in Pose
        /\ lateMoves' \in Nat
    BY <1>20
    DEF StartBegin, ClearFault, Revoked, TypeOK, MainState, Pose, Target
  <2>3. mailbox' \in Seq(Target) /\ Len(mailbox') <= Capacity
    BY <1>20, RevokeAllType
    DEF StartBegin, ClearFault, Revoked, TypeOK, Target
  <2>4. QED
    BY <1>20, <2>1, <2>2, <2>3
    DEF StartBegin, ClearFault, Revoked, TypeOK
<1>21. CASE StartConnected
  BY <1>21
  DEF StartConnected, TypeOK, MainState
<1>22. CASE StartDiscovered
  <2>1. /\ systemStartSet' \in BOOLEAN /\ temperatureSafe' \in BOOLEAN
    BY <1>22
    DEF StartDiscovered, TypeOK
  <2>2. /\ main' \in MainState
        /\ telemetry' \in {"none", "fresh", "stale"}
    BY <1>22
    DEF StartDiscovered, TypeOK, MainState
  <2>3. QED
    BY <1>22, <2>1, <2>2
    DEF StartDiscovered, TypeOK
<1>23. CASE StartSystemStart
  <2>1. sampleCurrent' \in BOOLEAN
    BY <1>23
    DEF StartSystemStart, SystemStart, TypeOK
  <2>2. /\ main' \in MainState
        /\ cb' \in CbState
    BY <1>23
    DEF StartSystemStart, SystemStart, TypeOK, MainState, CbState
  <2>3. QED
    BY <1>23, <2>1, <2>2
    DEF StartSystemStart, SystemStart, TypeOK
<1>24. CASE StartMark
  BY <1>24
  DEF StartMark, TypeOK, MainState
<1>25. CASE StartTelemetry
  BY <1>25
  DEF StartTelemetry, TypeOK, MainState
<1>26. CASE StartLaunch
  BY <1>26, CapacityAssumption
  DEF StartLaunch, Drained, TypeOK, LoopState, MainState, Pose, Target
<1>27. CASE StartFails
  BY <1>27
  DEF StartFails, TypeOK, MainState
<1>28. CASE StopBegin
  BY <1>28
  DEF StopBegin, TypeOK, MainState
<1>29. CASE StopJoined
  <2>1. /\ systemStartSet' \in BOOLEAN /\ commHealthy' \in BOOLEAN /\
           latestCommandValid' \in BOOLEAN /\ controlRunning' \in BOOLEAN
    BY <1>29
    DEF StopJoined, TypeOK
  <2>2. /\ loop' \in LoopState
        /\ main' \in MainState
        /\ telemetry' \in {"none", "fresh", "stale"}
    BY <1>29
    DEF StopJoined, TypeOK, LoopState, MainState
  <2>3. QED
    BY <1>29, <2>1, <2>2
    DEF StopJoined, TypeOK
<1>30. CASE StopSystem
  <2>1. systemStarted' \in BOOLEAN
    BY <1>30
    DEF StopSystem, TypeOK
  <2>2. main' \in MainState
    BY <1>30
    DEF StopSystem, TypeOK, MainState
  <2>3. QED
    BY <1>30, <2>1, <2>2
    DEF StopSystem, TypeOK
<1>31. CASE StopDisconnect
  <2>1. /\ sdkOpen' \in BOOLEAN /\ connected' \in BOOLEAN
    BY <1>31
    DEF StopDisconnect, TypeOK
  <2>2. main' \in MainState
    BY <1>31
    DEF StopDisconnect, TypeOK, MainState
  <2>3. QED
    BY <1>31, <2>1, <2>2
    DEF StopDisconnect, TypeOK
<1>32. CASE SendPositions
  BY <1>32, CapacityAssumption
  DEF SendPositions, Accepts, TypeOK, MainState, Target
<1>33. CASE SuspendMotion
  <2>1. latestCommandValid' \in BOOLEAN
    BY <1>33
    DEF SuspendMotion, Drained, Revoked, TypeOK
  <2>2. tempPos' \in Pose
    BY <1>33
    DEF SuspendMotion, Drained, Revoked, TypeOK, Pose, Target
  <2>3. mailbox' \in Seq(Target) /\ Len(mailbox') <= Capacity
    BY <1>33, CapacityAssumption
    DEF SuspendMotion, Drained, Revoked, TypeOK, Target
  <2>4. QED
    BY <1>33, <2>1, <2>2, <2>3
    DEF SuspendMotion, Drained, Revoked, TypeOK
<1>34. CASE RecoverCall
  BY <1>34
  DEF RecoverCall, TypeOK, WorkerState
<1>35. CASE RecoverLock
  <2>1. /\ recoveryRequired' \in BOOLEAN /\
           latestCommandValid' \in BOOLEAN
    BY <1>35
    DEF RecoverLock, Drained, Revoked, RecoverReturns, TypeOK
  <2>2. /\ worker' \in WorkerState
        /\ motionMutex' \in {"none", "loop", "worker"}
        /\ tempPos' \in Pose
    BY <1>35
    DEF RecoverLock, Drained, Revoked, RecoverReturns, TypeOK, WorkerState,
        Pose, Target
  <2>3. mailbox' \in Seq(Target) /\ Len(mailbox') <= Capacity
    BY <1>35, CapacityAssumption
    DEF RecoverLock, Drained, Revoked, RecoverReturns, TypeOK, Target
  <2>4. QED
    BY <1>35, <2>1, <2>2, <2>3
    DEF RecoverLock, Drained, Revoked, RecoverReturns, TypeOK
<1>36. CASE RecoverConnected
  <2>1. systemStarted' \in BOOLEAN
    BY <1>36
    DEF RecoverConnected, RecoverReturns, TypeOK
  <2>2. /\ worker' \in WorkerState
        /\ motionMutex' \in {"none", "loop", "worker"}
    BY <1>36
    DEF RecoverConnected, RecoverReturns, TypeOK, WorkerState
  <2>3. QED
    BY <1>36, <2>1, <2>2
    DEF RecoverConnected, RecoverReturns, TypeOK
<1>37. CASE RecoverReset
  <2>1. /\ commHealthy' \in BOOLEAN /\ discovered' \in BOOLEAN
    BY <1>37
    DEF RecoverReset, RecoverReturns, TypeOK
  <2>2. /\ worker' \in WorkerState
        /\ motionMutex' \in {"none", "loop", "worker"}
    BY <1>37
    DEF RecoverReset, RecoverReturns, TypeOK, WorkerState
  <2>3. QED
    BY <1>37, <2>1, <2>2
    DEF RecoverReset, RecoverReturns, TypeOK
<1>38. CASE RecoverDiscovered
  <2>1. /\ systemStartSet' \in BOOLEAN /\ temperatureSafe' \in BOOLEAN /\
           motionOk' \in BOOLEAN
    BY <1>38
    DEF RecoverDiscovered, TypeOK
  <2>2. /\ worker' \in WorkerState
        /\ telemetry' \in {"none", "fresh", "stale"}
    BY <1>38
    DEF RecoverDiscovered, TypeOK, WorkerState
  <2>3. QED
    BY <1>38, <2>1, <2>2
    DEF RecoverDiscovered, TypeOK
<1>39. CASE RecoverSystemStart
  <2>1. /\ systemStartSet' \in BOOLEAN /\ sampleCurrent' \in BOOLEAN
    BY <1>39
    DEF RecoverSystemStart, SystemStart, RecoverReturns, TypeOK
  <2>2. /\ worker' \in WorkerState
        /\ motionMutex' \in {"none", "loop", "worker"}
        /\ cb' \in CbState
    BY <1>39
    DEF RecoverSystemStart, SystemStart, RecoverReturns, TypeOK, WorkerState,
        CbState
  <2>3. QED
    BY <1>39, <2>1, <2>2
    DEF RecoverSystemStart, SystemStart, RecoverReturns, TypeOK
<1>40. CASE RecoverMark
  BY <1>40
  DEF RecoverMark, TypeOK, WorkerState
<1>41. CASE RecoverTelemetry
  BY <1>41
  DEF RecoverTelemetry, TypeOK, WorkerState
<1>42. CASE RecoverSeed
  BY <1>42
  DEF RecoverSeed, TypeOK, WorkerState, Pose, Target
<1>43. CASE RecoverFinish
  <2>1. /\ recoveryRequired' \in BOOLEAN /\
           latestCommandValid' \in BOOLEAN
    BY <1>43
    DEF RecoverFinish, TypeOK
  <2>2. worker' \in WorkerState
    BY <1>43
    DEF RecoverFinish, TypeOK, WorkerState
  <2>3. QED
    BY <1>43, <2>1, <2>2
    DEF RecoverFinish, TypeOK
<1>44. CASE RecoverVerify
  <2>1. /\ recoveryRequired' \in BOOLEAN /\ faulted' \in BOOLEAN
    BY <1>44
    DEF RecoverVerify, RecoverReturns, ClearFault, TypeOK
  <2>2. /\ lateMoves' \in Nat
        /\ worker' \in WorkerState
        /\ motionMutex' \in {"none", "loop", "worker"}
    BY <1>44
    DEF RecoverVerify, RecoverReturns, ClearFault, TypeOK, WorkerState
  <2>3. QED
    BY <1>44, <2>1, <2>2
    DEF RecoverVerify, RecoverReturns, ClearFault, TypeOK
<1>45. CASE RecoverThrows
  BY <1>45
  DEF RecoverThrows, RecoverReturns, TypeOK, WorkerState
<1>46. CASE UNCHANGED vars
  BY <1>46 DEF vars, TypeOK
<1>47. QED
  BY <1>1, <1>2, <1>3, <1>4, <1>5, <1>6, <1>7, <1>8, <1>9, <1>10, <1>11,
     <1>12, <1>13, <1>14, <1>15, <1>16, <1>17, <1>18, <1>19, <1>20, <1>21,
     <1>22, <1>23, <1>24, <1>25, <1>26, <1>27, <1>28, <1>29, <1>30, <1>31,
     <1>32, <1>33, <1>34, <1>35, <1>36, <1>37, <1>38, <1>39, <1>40, <1>41,
     <1>42, <1>43, <1>44, <1>45, <1>46
  DEF Next, Callback, Loop, Start, Stop, Recover

\* The types of the adapter's state, in every reachable state.
THEOREM TypeCorrect == Spec => []TypeOK
<1>1. Init => TypeOK
  BY InitTypes
<1>2. TypeOK /\ [Next]_vars => TypeOK'
  BY TypeStep
<1>3. QED
  BY <1>1, <1>2, PTL DEF Spec

-----------------------------------------------------------------------------
(* The inductive invariant. *)

\* Each step leaves at most one holder of _motionMutex, and the control thread
\* and the recovery inside an open session.
LEMMA PhasesStep ==
  ASSUME Phases, [Next]_vars
  PROVE  Phases'
<1> USE DEF Phases, Recovering, InIteration, Connecting, sdkVars, sessionVars,
            motionVars, lifeVars, targetVars, loopVars, faultVars, seenVars
<1>1. CASE ConnectedCallback
  BY <1>1 DEF ConnectedCallback
<1>2. CASE DisconnectedCallback
  BY <1>2 DEF DisconnectedCallback, Fault
<1>3. CASE DisconnectedLatch
  BY <1>3 DEF DisconnectedLatch
<1>4. CASE DisconnectedUnstart
  BY <1>4 DEF DisconnectedUnstart
<1>5. CASE DisconnectedClear
  BY <1>5 DEF DisconnectedClear
<1>6. CASE DisconnectedForget
  BY <1>6 DEF DisconnectedForget
<1>7. CASE ReceivedGripperData
  BY <1>7 DEF ReceivedGripperData
<1>8. CASE StampGripperData
  BY <1>8 DEF StampGripperData
<1>9. CASE CommunicationPeriod
  BY <1>9 DEF CommunicationPeriod
<1>10. CASE TelemetryAges
  BY <1>10 DEF TelemetryAges
<1>11. CASE LoopBoot
  BY <1>11 DEF LoopBoot
<1>12. CASE LoopExit
  BY <1>12 DEF LoopExit
<1>13. CASE LoopLock
  BY <1>13 DEF LoopLock
<1>14. CASE LoopDisconnected
  BY <1>14 DEF LoopDisconnected, IterationEnds, Drained
<1>15. CASE LoopCheck
  BY <1>15 DEF LoopCheck, Fault
<1>16. CASE LoopDecide
  BY <1>16 DEF LoopDecide, Drained
<1>17. CASE LoopMove
  BY <1>17 DEF LoopMove
<1>18. CASE LoopRest
  BY <1>18 DEF LoopRest, IterationEnds
<1>19. CASE LoopRecord
  BY <1>19 DEF LoopRecord, IterationEnds, Fault
<1>20. CASE StartBegin
  BY <1>20 DEF StartBegin, ClearFault, Revoked
<1>21. CASE StartConnected
  BY <1>21 DEF StartConnected
<1>22. CASE StartDiscovered
  BY <1>22 DEF StartDiscovered
<1>23. CASE StartSystemStart
  BY <1>23 DEF StartSystemStart, SystemStart
<1>24. CASE StartMark
  BY <1>24 DEF StartMark
<1>25. CASE StartTelemetry
  BY <1>25 DEF StartTelemetry
<1>26. CASE StartLaunch
  BY <1>26 DEF StartLaunch, Drained
<1>27. CASE StartFails
  BY <1>27 DEF StartFails
<1>28. CASE StopBegin
  BY <1>28 DEF StopBegin
<1>29. CASE StopJoined
  BY <1>29 DEF StopJoined
<1>30. CASE StopSystem
  BY <1>30 DEF StopSystem
<1>31. CASE StopDisconnect
  BY <1>31 DEF StopDisconnect
<1>32. CASE SendPositions
  BY <1>32 DEF SendPositions, Accepts
<1>33. CASE SuspendMotion
  BY <1>33 DEF SuspendMotion, Drained, Revoked
<1>34. CASE RecoverCall
  BY <1>34 DEF RecoverCall
<1>35. CASE RecoverLock
  BY <1>35 DEF RecoverLock, Drained, Revoked, RecoverReturns
<1>36. CASE RecoverConnected
  BY <1>36 DEF RecoverConnected, RecoverReturns
<1>37. CASE RecoverReset
  BY <1>37 DEF RecoverReset, RecoverReturns
<1>38. CASE RecoverDiscovered
  BY <1>38 DEF RecoverDiscovered
<1>39. CASE RecoverSystemStart
  BY <1>39 DEF RecoverSystemStart, SystemStart, RecoverReturns
<1>40. CASE RecoverMark
  BY <1>40 DEF RecoverMark
<1>41. CASE RecoverTelemetry
  BY <1>41 DEF RecoverTelemetry
<1>42. CASE RecoverSeed
  BY <1>42 DEF RecoverSeed
<1>43. CASE RecoverFinish
  BY <1>43 DEF RecoverFinish
<1>44. CASE RecoverVerify
  BY <1>44 DEF RecoverVerify, RecoverReturns, ClearFault
<1>45. CASE RecoverThrows
  BY <1>45 DEF RecoverThrows, RecoverReturns
<1>46. CASE UNCHANGED vars
  BY <1>46 DEF vars
<1>47. QED
  BY <1>1, <1>2, <1>3, <1>4, <1>5, <1>6, <1>7, <1>8, <1>9, <1>10, <1>11,
     <1>12, <1>13, <1>14, <1>15, <1>16, <1>17, <1>18, <1>19, <1>20, <1>21,
     <1>22, <1>23, <1>24, <1>25, <1>26, <1>27, <1>28, <1>29, <1>30, <1>31,
     <1>32, <1>33, <1>34, <1>35, <1>36, <1>37, <1>38, <1>39, <1>40, <1>41,
     <1>42, <1>43, <1>44, <1>45, <1>46
  DEF Next, Callback, Loop, Start, Stop, Recover

\* Each step keeps every fault visible to isMotionReady until a recovery
\* succeeds.
LEMMA LatchedStep ==
  ASSUME TypeOK, Phases, Latched, [Next]_vars
  PROVE  Latched'
<1> USE DEF Latched, Recovering, InIteration, sdkVars, sessionVars,
            motionVars, lifeVars, targetVars, loopVars, faultVars, seenVars
<1>1. CASE ConnectedCallback
  BY <1>1 DEF ConnectedCallback
<1>2. CASE DisconnectedCallback
  BY <1>2 DEF DisconnectedCallback, Fault
<1>3. CASE DisconnectedLatch
  BY <1>3 DEF DisconnectedLatch
<1>4. CASE DisconnectedUnstart
  BY <1>4 DEF DisconnectedUnstart
<1>5. CASE DisconnectedClear
  BY <1>5 DEF DisconnectedClear
<1>6. CASE DisconnectedForget
  BY <1>6 DEF DisconnectedForget
<1>7. CASE ReceivedGripperData
  BY <1>7 DEF ReceivedGripperData
<1>8. CASE StampGripperData
  BY <1>8 DEF StampGripperData
<1>9. CASE CommunicationPeriod
  BY <1>9 DEF CommunicationPeriod
<1>10. CASE TelemetryAges
  BY <1>10 DEF TelemetryAges
<1>11. CASE LoopBoot
  BY <1>11 DEF LoopBoot
<1>12. CASE LoopExit
  BY <1>12 DEF LoopExit
<1>13. CASE LoopLock
  BY <1>13 DEF LoopLock
<1>14. CASE LoopDisconnected
  BY <1>14 DEF LoopDisconnected, IterationEnds, Drained
<1>15. CASE LoopCheck
  BY <1>15 DEF LoopCheck, Fault
<1>16. CASE LoopDecide
  BY <1>16 DEF LoopDecide, Drained, IsMotionReady, Phases
<1>17. CASE LoopMove
  BY <1>17 DEF LoopMove, Phases
<1>18. CASE LoopRest
  BY <1>18 DEF LoopRest, IterationEnds
<1>19. CASE LoopRecord
  BY <1>19 DEF LoopRecord, IterationEnds, Fault, Phases
<1>20. CASE StartBegin
  BY <1>20 DEF StartBegin, ClearFault, Revoked, Phases
<1>21. CASE StartConnected
  BY <1>21 DEF StartConnected
<1>22. CASE StartDiscovered
  BY <1>22 DEF StartDiscovered
<1>23. CASE StartSystemStart
  BY <1>23 DEF StartSystemStart, SystemStart
<1>24. CASE StartMark
  BY <1>24 DEF StartMark
<1>25. CASE StartTelemetry
  BY <1>25 DEF StartTelemetry
<1>26. CASE StartLaunch
  BY <1>26 DEF StartLaunch, Drained
<1>27. CASE StartFails
  BY <1>27 DEF StartFails
<1>28. CASE StopBegin
  BY <1>28 DEF StopBegin
<1>29. CASE StopJoined
  BY <1>29 DEF StopJoined
<1>30. CASE StopSystem
  BY <1>30 DEF StopSystem
<1>31. CASE StopDisconnect
  BY <1>31 DEF StopDisconnect
<1>32. CASE SendPositions
  BY <1>32 DEF SendPositions, Accepts
<1>33. CASE SuspendMotion
  BY <1>33 DEF SuspendMotion, Drained, Revoked
<1>34. CASE RecoverCall
  BY <1>34 DEF RecoverCall
<1>35. CASE RecoverLock
  BY <1>35 DEF RecoverLock, Drained, Revoked, RecoverReturns, Phases
<1>36. CASE RecoverConnected
  BY <1>36 DEF RecoverConnected, RecoverReturns
<1>37. CASE RecoverReset
  BY <1>37 DEF RecoverReset, RecoverReturns
<1>38. CASE RecoverDiscovered
  BY <1>38 DEF RecoverDiscovered, Phases
<1>39. CASE RecoverSystemStart
  BY <1>39 DEF RecoverSystemStart, SystemStart, RecoverReturns
<1>40. CASE RecoverMark
  BY <1>40 DEF RecoverMark
<1>41. CASE RecoverTelemetry
  BY <1>41 DEF RecoverTelemetry
<1>42. CASE RecoverSeed
  BY <1>42 DEF RecoverSeed
<1>43. CASE RecoverFinish
  BY <1>43 DEF RecoverFinish
<1>44. CASE RecoverVerify
  BY <1>44 DEF RecoverVerify, RecoverReturns, ClearFault, IsMotionReady
<1>45. CASE RecoverThrows
  BY <1>45 DEF RecoverThrows, RecoverReturns
<1>46. CASE UNCHANGED vars
  BY <1>46 DEF vars
<1>47. QED
  BY <1>1, <1>2, <1>3, <1>4, <1>5, <1>6, <1>7, <1>8, <1>9, <1>10, <1>11,
     <1>12, <1>13, <1>14, <1>15, <1>16, <1>17, <1>18, <1>19, <1>20, <1>21,
     <1>22, <1>23, <1>24, <1>25, <1>26, <1>27, <1>28, <1>29, <1>30, <1>31,
     <1>32, <1>33, <1>34, <1>35, <1>36, <1>37, <1>38, <1>39, <1>40, <1>41,
     <1>42, <1>43, <1>44, <1>45, <1>46
  DEF Next, Callback, Loop, Start, Stop, Recover

\* Each step keeps telemetry from before a SystemStart out of its stamp.
LEMMA CurrentStep ==
  ASSUME Phases, Current, [Next]_vars
  PROVE  Current'
<1> USE DEF Current, Phases, Recovering, Connecting, sdkVars, sessionVars,
            motionVars, lifeVars, targetVars, loopVars, faultVars, seenVars
<1>1. CASE ConnectedCallback
  BY <1>1 DEF ConnectedCallback
<1>2. CASE DisconnectedCallback
  BY <1>2 DEF DisconnectedCallback, Fault
<1>3. CASE DisconnectedLatch
  BY <1>3 DEF DisconnectedLatch
<1>4. CASE DisconnectedUnstart
  BY <1>4 DEF DisconnectedUnstart
<1>5. CASE DisconnectedClear
  BY <1>5 DEF DisconnectedClear
<1>6. CASE DisconnectedForget
  BY <1>6 DEF DisconnectedForget
<1>7. CASE ReceivedGripperData
  BY <1>7 DEF ReceivedGripperData
<1>8. CASE StampGripperData
  BY <1>8 DEF StampGripperData
<1>9. CASE CommunicationPeriod
  BY <1>9 DEF CommunicationPeriod
<1>10. CASE TelemetryAges
  BY <1>10 DEF TelemetryAges
<1>11. CASE LoopBoot
  BY <1>11 DEF LoopBoot
<1>12. CASE LoopExit
  BY <1>12 DEF LoopExit
<1>13. CASE LoopLock
  BY <1>13 DEF LoopLock
<1>14. CASE LoopDisconnected
  BY <1>14 DEF LoopDisconnected, IterationEnds, Drained
<1>15. CASE LoopCheck
  BY <1>15 DEF LoopCheck, Fault
<1>16. CASE LoopDecide
  BY <1>16 DEF LoopDecide, Drained
<1>17. CASE LoopMove
  BY <1>17 DEF LoopMove
<1>18. CASE LoopRest
  BY <1>18 DEF LoopRest, IterationEnds
<1>19. CASE LoopRecord
  BY <1>19 DEF LoopRecord, IterationEnds, Fault
<1>20. CASE StartBegin
  BY <1>20 DEF StartBegin, ClearFault, Revoked
<1>21. CASE StartConnected
  BY <1>21 DEF StartConnected
<1>22. CASE StartDiscovered
  BY <1>22 DEF StartDiscovered
<1>23. CASE StartSystemStart
  BY <1>23 DEF StartSystemStart, SystemStart
<1>24. CASE StartMark
  BY <1>24 DEF StartMark
<1>25. CASE StartTelemetry
  BY <1>25 DEF StartTelemetry
<1>26. CASE StartLaunch
  BY <1>26 DEF StartLaunch, Drained
<1>27. CASE StartFails
  BY <1>27 DEF StartFails
<1>28. CASE StopBegin
  BY <1>28 DEF StopBegin
<1>29. CASE StopJoined
  BY <1>29 DEF StopJoined
<1>30. CASE StopSystem
  BY <1>30 DEF StopSystem
<1>31. CASE StopDisconnect
  BY <1>31 DEF StopDisconnect
<1>32. CASE SendPositions
  BY <1>32 DEF SendPositions, Accepts
<1>33. CASE SuspendMotion
  BY <1>33 DEF SuspendMotion, Drained, Revoked
<1>34. CASE RecoverCall
  BY <1>34 DEF RecoverCall
<1>35. CASE RecoverLock
  BY <1>35 DEF RecoverLock, Drained, Revoked, RecoverReturns
<1>36. CASE RecoverConnected
  BY <1>36 DEF RecoverConnected, RecoverReturns
<1>37. CASE RecoverReset
  BY <1>37 DEF RecoverReset, RecoverReturns
<1>38. CASE RecoverDiscovered
  BY <1>38 DEF RecoverDiscovered
<1>39. CASE RecoverSystemStart
  BY <1>39 DEF RecoverSystemStart, SystemStart, RecoverReturns
<1>40. CASE RecoverMark
  BY <1>40 DEF RecoverMark
<1>41. CASE RecoverTelemetry
  BY <1>41 DEF RecoverTelemetry
<1>42. CASE RecoverSeed
  BY <1>42 DEF RecoverSeed
<1>43. CASE RecoverFinish
  BY <1>43 DEF RecoverFinish
<1>44. CASE RecoverVerify
  BY <1>44 DEF RecoverVerify, RecoverReturns, ClearFault
<1>45. CASE RecoverThrows
  BY <1>45 DEF RecoverThrows, RecoverReturns
<1>46. CASE UNCHANGED vars
  BY <1>46 DEF vars
<1>47. QED
  BY <1>1, <1>2, <1>3, <1>4, <1>5, <1>6, <1>7, <1>8, <1>9, <1>10, <1>11,
     <1>12, <1>13, <1>14, <1>15, <1>16, <1>17, <1>18, <1>19, <1>20, <1>21,
     <1>22, <1>23, <1>24, <1>25, <1>26, <1>27, <1>28, <1>29, <1>30, <1>31,
     <1>32, <1>33, <1>34, <1>35, <1>36, <1>37, <1>38, <1>39, <1>40, <1>41,
     <1>42, <1>43, <1>44, <1>45, <1>46
  DEF Next, Callback, Loop, Start, Stop, Recover

\* Each step keeps revoked targets and seeded poses away from MoveServoJoint.
LEMMA LiveStep ==
  ASSUME TypeOK, Phases, Live, [Next]_vars
  PROVE  Live'
<1> USE DEF Live, Recovering, Connecting, sdkVars, sessionVars, motionVars,
            lifeVars, targetVars, loopVars, faultVars, seenVars
<1>1. CASE ConnectedCallback
  BY <1>1 DEF ConnectedCallback
<1>2. CASE DisconnectedCallback
  BY <1>2 DEF DisconnectedCallback, Fault
<1>3. CASE DisconnectedLatch
  BY <1>3 DEF DisconnectedLatch
<1>4. CASE DisconnectedUnstart
  BY <1>4 DEF DisconnectedUnstart
<1>5. CASE DisconnectedClear
  BY <1>5 DEF DisconnectedClear
<1>6. CASE DisconnectedForget
  BY <1>6 DEF DisconnectedForget
<1>7. CASE ReceivedGripperData
  BY <1>7 DEF ReceivedGripperData
<1>8. CASE StampGripperData
  BY <1>8 DEF StampGripperData
<1>9. CASE CommunicationPeriod
  BY <1>9 DEF CommunicationPeriod
<1>10. CASE TelemetryAges
  BY <1>10 DEF TelemetryAges
<1>11. CASE LoopBoot
  BY <1>11 DEF LoopBoot
<1>12. CASE LoopExit
  BY <1>12 DEF LoopExit
<1>13. CASE LoopLock
  BY <1>13 DEF LoopLock
<1>14. CASE LoopDisconnected
  BY <1>14 DEF LoopDisconnected, IterationEnds, Drained
<1>15. CASE LoopCheck
  BY <1>15 DEF LoopCheck, Fault
<1>16. CASE LoopDecide
  BY <1>16 DEF LoopDecide, Drained, TypeOK, Target
<1>17. CASE LoopMove
  BY <1>17 DEF LoopMove, MoveWanted, TypeOK, Target
<1>18. CASE LoopRest
  BY <1>18 DEF LoopRest, IterationEnds
<1>19. CASE LoopRecord
  BY <1>19 DEF LoopRecord, IterationEnds, Fault, Phases, InIteration
<1>20. CASE StartBegin
  BY <1>20 DEF StartBegin, ClearFault, Revoked, Phases
<1>21. CASE StartConnected
  BY <1>21 DEF StartConnected
<1>22. CASE StartDiscovered
  BY <1>22 DEF StartDiscovered
<1>23. CASE StartSystemStart
  BY <1>23 DEF StartSystemStart, SystemStart
<1>24. CASE StartMark
  BY <1>24 DEF StartMark
<1>25. CASE StartTelemetry
  BY <1>25 DEF StartTelemetry
<1>26. CASE StartLaunch
  BY <1>26 DEF StartLaunch, Drained, Phases, Connecting
<1>27. CASE StartFails
  BY <1>27 DEF StartFails
<1>28. CASE StopBegin
  BY <1>28 DEF StopBegin
<1>29. CASE StopJoined
  BY <1>29 DEF StopJoined
<1>30. CASE StopSystem
  BY <1>30 DEF StopSystem
<1>31. CASE StopDisconnect
  BY <1>31 DEF StopDisconnect
<1>32. CASE SendPositions
  BY <1>32 DEF SendPositions, Accepts, TypeOK, Target
<1>33. CASE SuspendMotion
  BY <1>33 DEF SuspendMotion, Drained, Revoked, Phases, InIteration
<1>34. CASE RecoverCall
  BY <1>34 DEF RecoverCall
<1>35. CASE RecoverLock
  BY <1>35 DEF RecoverLock, Drained, Revoked, RecoverReturns, Phases,
     InIteration
<1>36. CASE RecoverConnected
  BY <1>36 DEF RecoverConnected, RecoverReturns
<1>37. CASE RecoverReset
  BY <1>37 DEF RecoverReset, RecoverReturns
<1>38. CASE RecoverDiscovered
  BY <1>38 DEF RecoverDiscovered
<1>39. CASE RecoverSystemStart
  BY <1>39 DEF RecoverSystemStart, SystemStart, RecoverReturns
<1>40. CASE RecoverMark
  BY <1>40 DEF RecoverMark
<1>41. CASE RecoverTelemetry
  BY <1>41 DEF RecoverTelemetry
<1>42. CASE RecoverSeed
  BY <1>42 DEF RecoverSeed, Phases, InIteration
<1>43. CASE RecoverFinish
  BY <1>43 DEF RecoverFinish
<1>44. CASE RecoverVerify
  BY <1>44 DEF RecoverVerify, RecoverReturns, ClearFault
<1>45. CASE RecoverThrows
  BY <1>45 DEF RecoverThrows, RecoverReturns
<1>46. CASE UNCHANGED vars
  BY <1>46 DEF vars
<1>47. QED
  BY <1>1, <1>2, <1>3, <1>4, <1>5, <1>6, <1>7, <1>8, <1>9, <1>10, <1>11,
     <1>12, <1>13, <1>14, <1>15, <1>16, <1>17, <1>18, <1>19, <1>20, <1>21,
     <1>22, <1>23, <1>24, <1>25, <1>26, <1>27, <1>28, <1>29, <1>30, <1>31,
     <1>32, <1>33, <1>34, <1>35, <1>36, <1>37, <1>38, <1>39, <1>40, <1>41,
     <1>42, <1>43, <1>44, <1>45, <1>46
  DEF Next, Callback, Loop, Start, Stop, Recover

\* IInv holds of the initial states and is kept by every step.
THEOREM InductiveInvariant == Spec => []IInv
<1>1. Init => IInv
  <2>1. Init => TypeOK
    BY InitTypes
  <2>2. Init => Phases /\ Latched
    BY DEF Init, Phases, Latched, InIteration, Recovering, Connecting
  <2>3. Init => Current /\ Live
    BY DEF Init, Current, Live, Recovering, Connecting
  <2>4. QED
    BY <2>1, <2>2, <2>3 DEF IInv
<1>2. IInv /\ [Next]_vars => IInv'
  BY TypeStep, PhasesStep, LatchedStep, CurrentStep, LiveStep DEF IInv
<1>3. QED
  BY <1>1, <1>2, PTL DEF Spec

-----------------------------------------------------------------------------
(* The properties. *)

\* isMotionReady never reports a session in which a fault awaits recovery.
THEOREM FaultsStayLatched == Spec => []ReadyMeansUnfaulted
<1>1. IInv => ReadyMeansUnfaulted
  BY DEF IInv, Latched, ReadyMeansUnfaulted, IsMotionReady
<1>2. QED
  BY <1>1, InductiveInvariant, PTL

\* At most one MoveServoJoint call leaves after a fault.
THEOREM LateMovesBounded == Spec => []AtMostOneLateMove
<1>1. IInv => AtMostOneLateMove
  BY DEF IInv, Latched, AtMostOneLateMove
<1>2. QED
  BY <1>1, InductiveInvariant, PTL

\* Valid telemetry was delivered after the current SystemStart.
THEOREM TelemetryIsCurrent == Spec => []ValidTelemetryIsCurrent
<1>1. IInv => ValidTelemetryIsCurrent
  BY DEF IInv, Current, ValidTelemetryIsCurrent, IsTelemetryValid
<1>2. QED
  BY <1>1, InductiveInvariant, PTL

\* No thread restarts or closes the session during a MoveServoJoint call.
THEOREM MovesExcludeRestarts == Spec => []MoveOwnsSession
<1>1. IInv => MoveOwnsSession
  BY DEF IInv, TypeOK, Phases, MoveOwnsSession, InIteration, Recovering,
         WorkerState
<1>2. QED
  BY <1>1, InductiveInvariant, PTL

\* Only targets accepted since the last suspend, recovery or start are moved.
THEOREM StaleTargetsNeverMove == Spec => OnlyLiveTargetsMove
<1>1. IInv' => (loop = "decided" /\ loop' = "moved" => tempPos' = "live")
  BY DEF IInv, Live
<1>2. QED
  BY <1>1, InductiveInvariant, PTL DEF OnlyLiveTargetsMove

\* No step but the one that saw a healthy rate leads recover() to SystemStart.
LEMMA RecoverDiscoversStep ==
  ASSUME Current, [Next]_vars
  PROVE  worker = "discover" /\ worker' = "starting" => discovered
<1> USE DEF RecoverReturns, sdkVars, sessionVars, motionVars, lifeVars,
            targetVars, loopVars, faultVars, seenVars
<1>1. CASE ConnectedCallback
  BY <1>1 DEF ConnectedCallback
<1>2. CASE DisconnectedCallback
  BY <1>2 DEF DisconnectedCallback, Fault
<1>3. CASE DisconnectedLatch
  BY <1>3 DEF DisconnectedLatch
<1>4. CASE DisconnectedUnstart
  BY <1>4 DEF DisconnectedUnstart
<1>5. CASE DisconnectedClear
  BY <1>5 DEF DisconnectedClear
<1>6. CASE DisconnectedForget
  BY <1>6 DEF DisconnectedForget
<1>7. CASE ReceivedGripperData
  BY <1>7 DEF ReceivedGripperData
<1>8. CASE StampGripperData
  BY <1>8 DEF StampGripperData
<1>9. CASE CommunicationPeriod
  BY <1>9 DEF CommunicationPeriod
<1>10. CASE TelemetryAges
  BY <1>10 DEF TelemetryAges
<1>11. CASE LoopBoot
  BY <1>11 DEF LoopBoot
<1>12. CASE LoopExit
  BY <1>12 DEF LoopExit
<1>13. CASE LoopLock
  BY <1>13 DEF LoopLock
<1>14. CASE LoopDisconnected
  BY <1>14 DEF LoopDisconnected, IterationEnds, Drained
<1>15. CASE LoopCheck
  BY <1>15 DEF LoopCheck, Fault
<1>16. CASE LoopDecide
  BY <1>16 DEF LoopDecide, Drained
<1>17. CASE LoopMove
  BY <1>17 DEF LoopMove
<1>18. CASE LoopRest
  BY <1>18 DEF LoopRest, IterationEnds
<1>19. CASE LoopRecord
  BY <1>19 DEF LoopRecord, IterationEnds, Fault
<1>20. CASE StartBegin
  BY <1>20 DEF StartBegin, ClearFault, Revoked
<1>21. CASE StartConnected
  BY <1>21 DEF StartConnected
<1>22. CASE StartDiscovered
  BY <1>22 DEF StartDiscovered
<1>23. CASE StartSystemStart
  BY <1>23 DEF StartSystemStart, SystemStart
<1>24. CASE StartMark
  BY <1>24 DEF StartMark
<1>25. CASE StartTelemetry
  BY <1>25 DEF StartTelemetry
<1>26. CASE StartLaunch
  BY <1>26 DEF StartLaunch, Drained
<1>27. CASE StartFails
  BY <1>27 DEF StartFails
<1>28. CASE StopBegin
  BY <1>28 DEF StopBegin
<1>29. CASE StopJoined
  BY <1>29 DEF StopJoined
<1>30. CASE StopSystem
  BY <1>30 DEF StopSystem
<1>31. CASE StopDisconnect
  BY <1>31 DEF StopDisconnect
<1>32. CASE SendPositions
  BY <1>32 DEF SendPositions, Accepts
<1>33. CASE SuspendMotion
  BY <1>33 DEF SuspendMotion, Drained, Revoked
<1>34. CASE RecoverCall
  BY <1>34 DEF RecoverCall
<1>35. CASE RecoverLock
  BY <1>35 DEF RecoverLock, Drained, Revoked, RecoverReturns
<1>36. CASE RecoverConnected
  BY <1>36 DEF RecoverConnected, RecoverReturns
<1>37. CASE RecoverReset
  BY <1>37 DEF RecoverReset, RecoverReturns
<1>38. CASE RecoverDiscovered
  BY <1>38 DEF RecoverDiscovered, Current
<1>39. CASE RecoverSystemStart
  BY <1>39 DEF RecoverSystemStart, SystemStart, RecoverReturns
<1>40. CASE RecoverMark
  BY <1>40 DEF RecoverMark
<1>41. CASE RecoverTelemetry
  BY <1>41 DEF RecoverTelemetry
<1>42. CASE RecoverSeed
  BY <1>42 DEF RecoverSeed
<1>43. CASE RecoverFinish
  BY <1>43 DEF RecoverFinish
<1>44. CASE RecoverVerify
  BY <1>44 DEF RecoverVerify, RecoverReturns, ClearFault
<1>45. CASE RecoverThrows
  BY <1>45 DEF RecoverThrows, RecoverReturns
<1>46. CASE UNCHANGED vars
  BY <1>46 DEF vars
<1>47. QED
  BY <1>1, <1>2, <1>3, <1>4, <1>5, <1>6, <1>7, <1>8, <1>9, <1>10, <1>11,
     <1>12, <1>13, <1>14, <1>15, <1>16, <1>17, <1>18, <1>19, <1>20, <1>21,
     <1>22, <1>23, <1>24, <1>25, <1>26, <1>27, <1>28, <1>29, <1>30, <1>31,
     <1>32, <1>33, <1>34, <1>35, <1>36, <1>37, <1>38, <1>39, <1>40, <1>41,
     <1>42, <1>43, <1>44, <1>45, <1>46
  DEF Next, Callback, Loop, Start, Stop, Recover

\* recover() restarts the system only after a rate reported in this recovery.
THEOREM RecoveryDiscovers == Spec => RecoverDiscoversAfresh
<1>1. IInv /\ [Next]_vars =>
        (worker = "discover" /\ worker' = "starting" => discovered)
  BY RecoverDiscoversStep DEF IInv
<1>2. QED
  BY <1>1, InductiveInvariant, PTL DEF RecoverDiscoversAfresh, Spec

-----------------------------------------------------------------------------
(* The refinement of HandSession. *)

Working == {"idle", "lock"}

\* What all steps but a few do to the session: the control thread and recover()
\* neither begin nor end, no setpoint appears and no fault heals.
Degrades ==
  /\ loop = "none" <=> loop' = "none"
  /\ worker \in Working <=> worker' \in Working
  /\ HasSetpoint' => HasSetpoint
  /\ loop # "none" /\ worker \in Working /\ (faulted \/ recoveryRequired)
       => faulted' \/ recoveryRequired'

\* The initial state is an initial state of HandSession.
LEMMA SessionInit == Init => Session!Init
  BY DEF Init, Session!Init, Session!Health, Health, HasSetpoint

\* A session whose fault is remembered is not ready (ReadyMeansUnfaulted), so a
\* step that degrades it is a Change, a Silence or nothing at all.
LEMMA SessionDegrades ==
  ASSUME Latched', Degrades
  PROVE  [Session!Next]_(Session!vars)
<1>1. CASE loop = "none"
  <2>1. UNCHANGED <<Health, HasSetpoint>>
    BY <1>1 DEF Degrades, Health, HasSetpoint
  <2> QED BY <2>1 DEF Session!vars
<1>2. CASE loop # "none" /\ Health' = Health
  <2>1. CASE HasSetpoint' = HasSetpoint
    BY <1>2, <2>1 DEF Session!vars
  <2>2. CASE HasSetpoint' # HasSetpoint
    <3>1. ~HasSetpoint'
      BY <2>2 DEF Degrades, HasSetpoint
    <3>2. Session!Silence
      BY <1>2, <3>1 DEF Session!Silence
    <3> QED BY <3>2 DEF Session!Next
  <2> QED BY <2>1, <2>2
<1>3. CASE loop # "none" /\ Health' # Health
  <2>1. worker \in Working /\ worker' \in Working /\ loop' # "none"
    BY <1>3 DEF Degrades, Health, Working
  <2>2. Health' = "faulted" \/ Health # "faulted"
    BY <1>3, <2>1
       DEF Degrades, Health, Latched, IsMotionReady, IsTelemetryValid, Working
  <2>3. /\ Health \in {"ready", "unready", "faulted"}
        /\ Health' \in {"ready", "unready", "faulted"}
    BY <1>3, <2>1 DEF Health, Working
  <2>4. HasSetpoint' => HasSetpoint
    BY DEF Degrades
  <2>5. Session!Change
    BY <1>3, <2>2, <2>3, <2>4 DEF Session!Change
  <2> QED BY <2>5 DEF Session!Next
<1> QED BY <1>1, <1>2, <1>3

\* recover() ends with a session that is either ready or faulted.
LEMMA SessionRecovered ==
  ASSUME worker \notin Working, HasSetpoint' = HasSetpoint, UNCHANGED loop,
         loop # "none" => Health' \in {"ready", "faulted"}
  PROVE  [Session!Next]_(Session!vars)
<1>1. CASE loop = "none"
  <2>1. UNCHANGED Health
    BY <1>1 DEF Health
  <2> QED BY <2>1 DEF Session!vars
<1>2. CASE loop # "none"
  <2>1. Health = "recovering"
    BY <1>2 DEF Health, Working
  <2>2. Session!EndRecovery
    BY <1>2, <2>1 DEF Session!EndRecovery
  <2> QED BY <2>2 DEF Session!Next
<1> QED BY <1>1, <1>2

\* A recover() that fails or throws leaves the fault behind.
LEMMA SessionAbandoned ==
  ASSUME Latched, worker \in Recovering \ {"verify"}, worker' = "idle",
         HasSetpoint' = HasSetpoint, UNCHANGED <<loop, recoveryRequired>>
  PROVE  [Session!Next]_(Session!vars)
<1>1. recoveryRequired'
  BY DEF Latched
<1>2. loop # "none" => Health' = "faulted"
  BY <1>1 DEF Health, IsMotionReady
<1>3. worker \notin Working
  BY DEF Recovering, Working
<1> QED BY <1>2, <1>3, SessionRecovered

\* Every step of the adapter is a step or a stutter of HandSession.
LEMMA SessionStep ==
  ASSUME TypeOK, Phases, Latched, Live, Latched', [Next]_vars
  PROVE  [Session!Next]_(Session!vars)
<1> USE DEF HasSetpoint, Working, sdkVars, sessionVars, motionVars, lifeVars,
            targetVars, loopVars, faultVars, seenVars
<1>1. CASE ConnectedCallback
  BY <1>1, SessionDegrades DEF ConnectedCallback, Degrades
<1>2. CASE DisconnectedCallback
  BY <1>2, SessionDegrades DEF DisconnectedCallback, Degrades, Fault
<1>3. CASE DisconnectedLatch
  BY <1>3, SessionDegrades DEF DisconnectedLatch, Degrades
<1>4. CASE DisconnectedUnstart
  BY <1>4, SessionDegrades DEF DisconnectedUnstart, Degrades
<1>5. CASE DisconnectedClear
  BY <1>5, SessionDegrades DEF DisconnectedClear, Degrades
<1>6. CASE DisconnectedForget
  BY <1>6, SessionDegrades DEF DisconnectedForget, Degrades
<1>7. CASE ReceivedGripperData
  BY <1>7, SessionDegrades DEF ReceivedGripperData, Degrades
<1>8. CASE StampGripperData
  BY <1>8, SessionDegrades DEF StampGripperData, Degrades
<1>9. CASE CommunicationPeriod
  BY <1>9, SessionDegrades DEF CommunicationPeriod, Degrades
<1>10. CASE TelemetryAges
  BY <1>10, SessionDegrades DEF TelemetryAges, Degrades
<1>11. CASE LoopBoot
  BY <1>11, SessionDegrades DEF LoopBoot, Degrades
<1>12. CASE LoopExit
  BY <1>12, SessionDegrades DEF LoopExit, Degrades
<1>13. CASE LoopLock
  BY <1>13, SessionDegrades DEF LoopLock, Degrades
<1>14. CASE LoopDisconnected
  BY <1>14, SessionDegrades
  DEF LoopDisconnected, Degrades, IterationEnds, Drained
<1>15. CASE LoopCheck
  BY <1>15, SessionDegrades DEF LoopCheck, Degrades, Fault
<1>16. CASE LoopDecide
  BY <1>16, SessionDegrades DEF LoopDecide, Degrades, Drained
<1>17. CASE LoopMove
  BY <1>17, SessionDegrades DEF LoopMove, Degrades, MoveWanted
<1>18. CASE LoopRest
  BY <1>18, SessionDegrades DEF LoopRest, Degrades, IterationEnds
<1>19. CASE LoopRecord
  BY <1>19, SessionDegrades DEF LoopRecord, Degrades, IterationEnds, Fault
<1>20. CASE StartBegin
  <2>1. loop = "none"
    BY <1>20 DEF StartBegin, Phases
  <2>2. Degrades
    BY <1>20, <2>1 DEF StartBegin, Degrades
  <2> QED BY <2>2, SessionDegrades
<1>21. CASE StartConnected
  BY <1>21, SessionDegrades DEF StartConnected, Degrades
<1>22. CASE StartDiscovered
  BY <1>22, SessionDegrades DEF StartDiscovered, Degrades
<1>23. CASE StartSystemStart
  BY <1>23, SessionDegrades DEF StartSystemStart, Degrades
<1>24. CASE StartMark
  BY <1>24, SessionDegrades DEF StartMark, Degrades
<1>25. CASE StartTelemetry
  BY <1>25, SessionDegrades DEF StartTelemetry, Degrades
<1>26. CASE StartLaunch
  <2>1. Health = "off" /\ worker = "idle"
    BY <1>26 DEF StartLaunch, Phases, Health
  <2>2. Health' \in {"ready", "unready", "faulted"}
    BY <1>26, <2>1 DEF StartLaunch, Health
  <2>3. ~HasSetpoint /\ ~HasSetpoint'
    BY <1>26, <2>1 DEF StartLaunch, Phases, Live, Drained, Connecting
  <2>4. Session!Connect
    BY <2>1, <2>2, <2>3 DEF Session!Connect
  <2> QED BY <2>4 DEF Session!Next
<1>27. CASE StartFails
  BY <1>27, SessionDegrades DEF StartFails, Degrades
<1>28. CASE StopBegin
  BY <1>28, SessionDegrades DEF StopBegin, Degrades
<1>29. CASE StopJoined
  <2>1. CASE loop = "none"
    <3>1. Degrades
      BY <1>29, <2>1 DEF StopJoined, Degrades
    <3> QED BY <3>1, SessionDegrades
  <2>2. CASE loop # "none"
    <3>1. Health # "off" /\ Health' = "off" /\ ~HasSetpoint'
      BY <1>29, <2>2 DEF StopJoined, Health
    <3>2. Session!Close
      BY <3>1 DEF Session!Close
    <3> QED BY <3>2 DEF Session!Next
  <2> QED BY <2>1, <2>2
<1>30. CASE StopSystem
  BY <1>30, SessionDegrades DEF StopSystem, Degrades
<1>31. CASE StopDisconnect
  BY <1>31, SessionDegrades DEF StopDisconnect, Degrades
<1>32. CASE SendPositions
  <2>1. CASE loop = "none" \/ ~Accepts
    <3>1. Degrades
      BY <1>32, <2>1 DEF SendPositions, Degrades
    <3> QED BY <3>1, SessionDegrades
  <2>2. CASE loop # "none" /\ Accepts
    <3>1. worker \in {"idle", "lock"}
      BY <1>32 DEF SendPositions, Phases, TypeOK, WorkerState, Recovering
    <3>2. Health = "ready" /\ UNCHANGED Health
      BY <1>32, <2>2, <3>1
         DEF SendPositions, Accepts, Health, IsMotionReady, IsTelemetryValid
    <3>3. mailbox' # <<>>
      BY <1>32, <2>2 DEF SendPositions, TypeOK
    <3>4. HasSetpoint'
      BY <1>32, <2>2, <3>3 DEF SendPositions
    <3>5. Session!Accept
      BY <3>2, <3>4 DEF Session!Accept
    <3> QED BY <3>5 DEF Session!Next
  <2> QED BY <2>1, <2>2
<1>33. CASE SuspendMotion
  BY <1>33, SessionDegrades DEF SuspendMotion, Degrades, Drained
<1>34. CASE RecoverCall
  BY <1>34, SessionDegrades DEF RecoverCall, Degrades
<1>35. CASE RecoverLock
  <2>1. ~HasSetpoint'
    BY <1>35 DEF RecoverLock, Drained, Phases, Live, InIteration
  <2>2. CASE loop # "none" /\ controlRunning
    <3>1. Health \in {"ready", "unready", "faulted"}
      BY <1>35, <2>2 DEF RecoverLock, Health
    <3>2. Health' = "recovering"
      BY <1>35, <2>2 DEF RecoverLock, Health
    <3>3. Session!BeginRecovery
      BY <2>1, <3>1, <3>2 DEF Session!BeginRecovery
    <3> QED BY <3>3 DEF Session!Next
  <2>3. CASE ~(loop # "none" /\ controlRunning)
    <3>1. CASE loop = "none"
      <4>1. Health = "off" /\ Health' = "off" /\ ~HasSetpoint
        BY <1>35, <3>1 DEF RecoverLock, Health
      <4> QED BY <2>1, <4>1 DEF Session!vars
    <3>2. CASE loop # "none"
      <4>1. Degrades
        BY <1>35, <2>1, <2>3, <3>2 DEF RecoverLock, RecoverReturns, Degrades
      <4> QED BY <4>1, SessionDegrades
    <3> QED BY <3>1, <3>2
  <2> QED BY <2>2, <2>3
<1>36. CASE RecoverConnected
  <2>1. worker \in Recovering \ {"verify"}
    BY <1>36 DEF RecoverConnected, Recovering
  <2>2. HasSetpoint' = HasSetpoint /\ UNCHANGED <<loop, recoveryRequired>>
    BY <1>36 DEF RecoverConnected
  <2>3. CASE worker' = "idle"
    BY <2>1, <2>2, <2>3, SessionAbandoned
  <2>4. CASE worker' # "idle"
    <3>1. worker' \notin {"idle", "lock"}
      BY <1>36, <2>4 DEF RecoverConnected, RecoverReturns
    <3>2. Degrades
      BY <2>1, <2>2, <3>1 DEF Degrades, Recovering
    <3> QED BY <3>2, SessionDegrades
  <2> QED BY <2>3, <2>4
<1>37. CASE RecoverReset
  <2>1. worker \in Recovering \ {"verify"}
    BY <1>37 DEF RecoverReset, Recovering
  <2>2. HasSetpoint' = HasSetpoint /\ UNCHANGED <<loop, recoveryRequired>>
    BY <1>37 DEF RecoverReset
  <2>3. CASE worker' = "idle"
    BY <2>1, <2>2, <2>3, SessionAbandoned
  <2>4. CASE worker' # "idle"
    <3>1. worker' \notin {"idle", "lock"}
      BY <1>37, <2>4 DEF RecoverReset, RecoverReturns
    <3>2. Degrades
      BY <2>1, <2>2, <3>1 DEF Degrades, Recovering
    <3> QED BY <3>2, SessionDegrades
  <2> QED BY <2>3, <2>4
<1>38. CASE RecoverDiscovered
  BY <1>38, SessionDegrades DEF RecoverDiscovered, Degrades
<1>39. CASE RecoverSystemStart
  <2>1. worker \in Recovering \ {"verify"}
    BY <1>39 DEF RecoverSystemStart, Recovering
  <2>2. HasSetpoint' = HasSetpoint /\ UNCHANGED <<loop, recoveryRequired>>
    BY <1>39 DEF RecoverSystemStart
  <2>3. CASE worker' = "idle"
    BY <2>1, <2>2, <2>3, SessionAbandoned
  <2>4. CASE worker' # "idle"
    <3>1. worker' \notin {"idle", "lock"}
      BY <1>39, <2>4 DEF RecoverSystemStart, RecoverReturns
    <3>2. Degrades
      BY <2>1, <2>2, <3>1 DEF Degrades, Recovering
    <3> QED BY <3>2, SessionDegrades
  <2> QED BY <2>3, <2>4
<1>40. CASE RecoverMark
  BY <1>40, SessionDegrades DEF RecoverMark, Degrades
<1>41. CASE RecoverTelemetry
  BY <1>41, SessionDegrades DEF RecoverTelemetry, Degrades
<1>42. CASE RecoverSeed
  BY <1>42, SessionDegrades DEF RecoverSeed, Degrades
<1>43. CASE RecoverFinish
  BY <1>43, SessionDegrades DEF RecoverFinish, Degrades
<1>44. CASE RecoverVerify
  <2>1. HasSetpoint' = HasSetpoint /\ UNCHANGED loop
    BY <1>44 DEF RecoverVerify
  <2>2. loop # "none" => Health' \in {"ready", "faulted"}
    BY <1>44
       DEF RecoverVerify, RecoverReturns, ClearFault, Health, IsMotionReady,
           IsTelemetryValid
  <2>3. worker = "verify"
    BY <1>44 DEF RecoverVerify
  <2> QED BY <2>1, <2>2, <2>3, SessionRecovered
<1>45. CASE RecoverThrows
  <2>1. HasSetpoint' = HasSetpoint /\ UNCHANGED loop
    BY <1>45 DEF RecoverThrows
  <2>2. worker \in Recovering \ {"verify"} /\ worker' = "idle"
    BY <1>45 DEF RecoverThrows, RecoverReturns, Recovering
  <2>3. UNCHANGED recoveryRequired
    BY <1>45 DEF RecoverThrows
  <2> QED BY <2>1, <2>2, <2>3, SessionAbandoned
<1>46. CASE UNCHANGED vars
  BY <1>46, SessionDegrades DEF vars, Degrades
<1>47. QED
  BY <1>1, <1>2, <1>3, <1>4, <1>5, <1>6, <1>7, <1>8, <1>9, <1>10, <1>11,
     <1>12, <1>13, <1>14, <1>15, <1>16, <1>17, <1>18, <1>19, <1>20, <1>21,
     <1>22, <1>23, <1>24, <1>25, <1>26, <1>27, <1>28, <1>29, <1>30, <1>31,
     <1>32, <1>33, <1>34, <1>35, <1>36, <1>37, <1>38, <1>39, <1>40, <1>41,
     <1>42, <1>43, <1>44, <1>45, <1>46
  DEF Next, Callback, Loop, Start, Stop, Recover

\* The adapter keeps what HandSession says of it: no fault heals by itself, a
\* setpoint is taken only while ready, and none survives recover() or stop().
THEOREM SessionIsKept == Spec => KeepsSession
<1>1. IInv /\ IInv' /\ [Next]_vars => [Session!Next]_(Session!vars)
  BY SessionStep DEF IInv
<1>2. QED
  BY <1>1, SessionInit, InductiveInvariant, PTL
     DEF Spec, KeepsSession, Session!Spec

\* MoveServoJoint is called by one action only.
LEMMA OnlyLoopMoveMoves ==
  ASSUME [Next]_vars, loop # "moved", loop' = "moved"
  PROVE  LoopMove
<1> USE DEF loopVars
<1>1. CASE UNCHANGED vars
  BY <1>1 DEF vars
<1>2. CASE Callback
  BY <1>2
  DEF Callback, ConnectedCallback, DisconnectedCallback, DisconnectedLatch,
      DisconnectedUnstart, DisconnectedClear, DisconnectedForget,
      ReceivedGripperData, StampGripperData, CommunicationPeriod, TelemetryAges
<1>3. CASE Loop
  BY <1>3
  DEF Loop, LoopBoot, LoopExit, LoopLock, LoopDisconnected, LoopCheck,
      LoopDecide, LoopRest, LoopRecord, IterationEnds
<1>4. CASE Start
  BY <1>4
  DEF Start, StartBegin, StartConnected, StartDiscovered, StartSystemStart,
      StartMark, StartTelemetry, StartLaunch, StartFails
<1>5. CASE Stop
  BY <1>5 DEF Stop, StopBegin, StopJoined, StopSystem, StopDisconnect
<1>6. CASE SendPositions \/ SuspendMotion
  BY <1>6 DEF SendPositions, SuspendMotion
<1>7. CASE Recover
  BY <1>7
  DEF Recover, RecoverCall, RecoverLock, RecoverConnected, RecoverReset,
      RecoverDiscovered, RecoverSystemStart, RecoverMark, RecoverTelemetry,
      RecoverSeed, RecoverFinish, RecoverVerify, RecoverThrows
<1>8. QED
  BY <1>1, <1>2, <1>3, <1>4, <1>5, <1>6, <1>7 DEF Next

\* What HandSession calls silent is silent: MoveServoJoint is only ever called
\* for a setpoint of a session that is neither closed nor being recovered.
THEOREM MovesSpendSetpoints ==
  Spec => [][loop # "moved" /\ loop' = "moved" =>
               HasSetpoint /\ Health \notin {"off", "recovering"}]_vars
<1>1. ASSUME IInv, [Next]_vars, loop # "moved", loop' = "moved"
      PROVE  HasSetpoint /\ Health \notin {"off", "recovering"}
  <2>1. LoopMove
    BY <1>1, OnlyLoopMoveMoves
  <2>2. loop = "decided" /\ MoveWanted
    BY <2>1 DEF LoopMove
  <2>3. HasSetpoint
    BY <2>2 DEF HasSetpoint, MoveWanted
  <2>4. worker \in Working
    BY <1>1, <2>2
    DEF IInv, TypeOK, Phases, InIteration, Recovering, WorkerState, Working
  <2>5. Health \notin {"off", "recovering"}
    BY <2>2, <2>4 DEF Health, Working
  <2>6. QED
    BY <2>3, <2>5
<1>2. IInv /\ [Next]_vars =>
        [loop # "moved" /\ loop' = "moved" =>
           HasSetpoint /\ Health \notin {"off", "recovering"}]_vars
  BY <1>1
<1>3. QED
  BY <1>2, InductiveInvariant, PTL DEF Spec

\* A session that is closed or being recovered has no setpoint.
Rests == Health \in {"off", "recovering"} => ~HasSetpoint

\* Nothing is left to send during a recovery or after stop(): HandSession says
\* so, and the adapter keeps it.
THEOREM RecoveriesRest == Spec => []Rests
<1>1. Session!Init => Rests
  BY DEF Session!Init, Rests
<1>2. Rests /\ [Session!Next]_(Session!vars) => Rests'
  BY DEF Rests, Session!Next, Session!vars, Session!Connect, Session!Change,
         Session!Accept, Session!Silence, Session!BeginRecovery,
         Session!EndRecovery, Session!Close
<1>3. KeepsSession => []Rests
  BY <1>1, <1>2, PTL DEF KeepsSession, Session!Spec
<1>4. QED
  BY <1>3, SessionIsKept

=============================================================================
