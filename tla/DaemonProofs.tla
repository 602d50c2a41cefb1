---------------------------- MODULE DaemonProofs ----------------------------
(***************************************************************************)
(* What the daemon guarantees for any number of iPods and mount points:    *)
(* each of its lanes is a Lane, so that what LaneProofs shows holds in     *)
(* both, and the process exits idle unless a poll was late.                *)
(***************************************************************************)
EXTENDS Daemon, LaneProofs

MassStorageFacts == INSTANCE LaneProofs WITH
  Devices <- MountPoints, PlugLimit <- MountLimit,
  present <- msPresent, plugs <- msPlugs, known <- msKnown,
  pending <- msPending, poll <- msPoll, seen <- msSeen, told <- msTold,
  isSyncing <- msIsSyncing, currentDevice <- msCurrentDevice,
  deviceDisconnected <- msDeviceDisconnected, queue <- msQueue,
  stage <- msStage, child <- msChild, served <- msServed

\* Every step of the daemon is one of the iPod lane's or leaves it alone.
LEMMA IpodLaneStep == [Next]_vars => [LaneNext]_laneVars
<1>. SUFFICES ASSUME [Next]_vars PROVE [LaneNext]_laneVars
  OBVIOUS
<1>. USE DEF LaneNext
<1>1. CASE UNCHANGED vars
  BY <1>1 DEF vars
<1>2. CASE Plugging
  BY <1>2 DEF Plugging
<1>3. CASE IpodPoll
  BY <1>3 DEF IpodPoll
<1>4. CASE IpodEvents
  BY <1>4 DEF IpodEvents
<1>5. CASE IpodCycle
  BY <1>5 DEF IpodCycle
<1>6. CASE MassStoragePoll \/ MassStorageCycle \/ IdleSeen
  BY <1>6 DEF MassStoragePoll, MassStorageCycle, IdleSeen
<1>7. CASE Shutdown
  BY <1>7 DEF Shutdown
<1>. QED BY <1>1, <1>2, <1>3, <1>4, <1>5, <1>6, <1>7 DEF Next

\* The same of the mass-storage lane.
LEMMA MassStorageLaneStep ==
  MassStorageFacts!LaneInv /\ [Next]_vars =>
    [MassStorageFacts!LaneNext]_(MassStorageFacts!laneVars)
<1>. SUFFICES ASSUME MassStorageFacts!LaneInv, [Next]_vars
              PROVE  [MassStorageFacts!LaneNext]_(MassStorageFacts!laneVars)
  OBVIOUS
<1>0. ASSUME UNCHANGED massStorageVars
      PROVE  UNCHANGED MassStorageFacts!laneVars
  BY <1>0 DEF massStorageVars, msPollerVars, msOrchestratorVars, MassStorageFacts!laneVars,
              MassStorageFacts!pollerVars, MassStorageFacts!orchestratorVars
<1>1. CASE UNCHANGED vars
  BY <1>0, <1>1 DEF vars
<1>3. CASE IpodPoll \/ IpodEvents \/ IpodCycle \/ IdleSeen
  BY <1>0, <1>3 DEF IpodPoll, IpodEvents, IpodCycle, IdleSeen
<1>. USE DEF MassStorageFacts!LaneNext
<1>2. CASE Plugging
  BY <1>0, <1>2
     DEF Plugging, MassStorage!User, MassStorageFacts!User,
         MassStorage!Plug, MassStorageFacts!Plug, MassStorage!Unplug, MassStorageFacts!Unplug,
         MassStorage!Quiet, MassStorageFacts!Quiet,
         MassStorage!orchestratorVars, MassStorageFacts!orchestratorVars
<1>4. CASE MassStoragePoll
  <2>1. CASE MassStorage!TimerFiresAtOnce
    BY <2>1 DEF MassStorage!TimerFiresAtOnce, MassStorageFacts!TimerFiresAtOnce,
         MassStorage!PollsAtOnce, MassStorageFacts!PollsAtOnce,
         MassStorage!orchestratorVars, MassStorageFacts!orchestratorVars
  <2>2. CASE MassStorage!PollCompletes
    <3>1. ASSUME NEW d \in MountPoints
          PROVE  /\ MassStorage!EmitAppeared(d) <=> MassStorageFacts!EmitAppeared(d)
                 /\ MassStorage!EmitDisappeared(d) <=> MassStorageFacts!EmitDisappeared(d)
      BY DEF MassStorage!EmitAppeared, MassStorageFacts!EmitAppeared,
             MassStorage!EmitDisappeared, MassStorageFacts!EmitDisappeared,
             MassStorage!Emit, MassStorageFacts!Emit,
             MassStorage!Appeared, MassStorageFacts!Appeared,
             MassStorage!Disappeared, MassStorageFacts!Disappeared
    <3>2. ASSUME NEW d \in MountPoints
          PROVE  MassStorage!HandleDeviceAppeared(d) <=> MassStorageFacts!HandleDeviceAppeared(d)
      BY Zenon DEF MassStorage!HandleDeviceAppeared, MassStorageFacts!HandleDeviceAppeared,
             MassStorage!Begin, MassStorageFacts!Begin,
             MassStorage!Forgets, MassStorageFacts!Forgets,
             MassStorage!ElementsOf, MassStorageFacts!ElementsOf
    <3>3. ASSUME NEW d \in MountPoints
          PROVE  MassStorage!HandleDeviceDisappeared(d) <=> MassStorageFacts!HandleDeviceDisappeared(d)
      BY Zenon DEF MassStorage!HandleDeviceDisappeared, MassStorageFacts!HandleDeviceDisappeared,
             MassStorage!Forgets, MassStorageFacts!Forgets,
             MassStorage!RemoveFirst, MassStorageFacts!RemoveFirst,
             MassStorage!RemoveAt, MassStorageFacts!RemoveAt,
             MassStorage!SelectInSeq, MassStorageFacts!SelectInSeq,
             MassStorage!Min, MassStorageFacts!Min
    <3>4. /\ MassStorage!PollEnds <=> MassStorageFacts!PollEnds
          /\ UNCHANGED MassStorage!orchestratorVars <=> UNCHANGED MassStorageFacts!orchestratorVars
      BY DEF MassStorage!PollEnds, MassStorageFacts!PollEnds,
             MassStorage!Appeared, MassStorageFacts!Appeared,
             MassStorage!Disappeared, MassStorageFacts!Disappeared,
             MassStorage!orchestratorVars, MassStorageFacts!orchestratorVars
    <3>. QED BY <2>2, <3>1, <3>2, <3>3, <3>4
             DEF MassStorage!PollCompletes, MassStorageFacts!PollCompletes
  <2>. QED BY <1>4, <2>1, <2>2 DEF MassStoragePoll
<1>5. CASE MassStorageCycle
  <2>1. PICK d \in MountPoints :
           /\ \/ MassStorage!MountOk(d) \/ MassStorage!DryRunEnds(d)
              \/ MassStorage!SyncExits(d) \/ MassStorage!EjectEnds(d)
           /\ UNCHANGED msPollerVars
    BY <1>5 DEF MassStorageCycle
  <2>2. MassStorageFacts!Cycle(d)
    BY <2>1
       DEF MassStorageFacts!Cycle, MassStorage!Goes, MassStorageFacts!Goes,
           MassStorage!MountOk, MassStorageFacts!MountOk,
           MassStorage!DryRunEnds, MassStorageFacts!DryRunEnds,
           MassStorage!SyncExits, MassStorageFacts!SyncExits,
           MassStorage!EjectEnds, MassStorageFacts!EjectEnds,
           MassStorage!EndCycle, MassStorageFacts!EndCycle,
           MassStorage!Begin, MassStorageFacts!Begin
  <2>3. MassStorageFacts!Quiet
    BY <1>5 DEF MassStorageCycle, Free, MassStorageFacts!Quiet, MassStorageFacts!LaneInv,
                MassStorageFacts!LaneTypeOK, MassStorageFacts!PollerTypeOK
  <2>. QED BY <2>1, <2>2, <2>3 DEF MassStorageFacts!RunCycle, msPollerVars, MassStorageFacts!pollerVars
<1>6. CASE Shutdown
  BY <1>0, <1>6
     DEF Shutdown, MassStorage!AbortSync, MassStorageFacts!AbortSync,
         MassStorage!Abort, MassStorageFacts!Abort,
         MassStorage!Quiet, MassStorageFacts!Quiet,
         MassStorage!pollerVars, MassStorageFacts!pollerVars
<1>. QED BY <1>1, <1>2, <1>3, <1>4, <1>5, <1>6 DEF Next

-----------------------------------------------------------------------------
\* The lane's invariant, in both lanes.
LEMMA BothLanes == Spec => [](LaneInv /\ MassStorageFacts!LaneInv)
<1>1. Init => LaneInv /\ MassStorageFacts!LaneInv
  <2>1. LaneInit => LaneInv
    BY LaneInvInit
  <2>2. MassStorageFacts!LaneInit => MassStorageFacts!LaneInv
    BY MassStorageFacts!LaneInvInit, MassStorageAssumption
  <2>3. MassStorage!LaneInit => MassStorageFacts!LaneInit
    BY DEF MassStorage!LaneInit, MassStorageFacts!LaneInit,
           MassStorage!PollerInit, MassStorageFacts!PollerInit,
           MassStorage!OrchestratorInit, MassStorageFacts!OrchestratorInit
  <2>. QED BY <2>1, <2>2, <2>3 DEF Init
<1>2. LaneInv /\ MassStorageFacts!LaneInv /\ [Next]_vars
        => LaneInv' /\ MassStorageFacts!LaneInv'
  BY IpodLaneStep, LaneInvStep, MassStorageLaneStep, MassStorageFacts!LaneInvStep,
     MassStorageAssumption
<1>. QED BY <1>1, <1>2, PTL DEF Spec

(***************************************************************************)
(* One cycle at a time in either lane, whatever the other lane, the users  *)
(* and a shutdown do.                                                      *)
(***************************************************************************)
THEOREM DaemonOneCyclePerLane == Spec => []OneCyclePerLane
<1>1. LaneInv /\ MassStorageFacts!LaneInv => OneCyclePerLane
  BY DEF LaneInv, OneCyclePerLane, MassStorageFacts!LaneInv,
         MassStorage!OneCycleAtATime, MassStorageFacts!OneCycleAtATime
<1>. QED BY BothLanes, <1>1, PTL

-----------------------------------------------------------------------------
\* A lane that the shutdown does not wait for is idle, unless a poll was late.
ExitInv ==
  /\ exited => shuttingDown /\ awaited = {}
  /\ shuttingDown => /\ "mass storage" \notin awaited => ~msIsSyncing
                     /\ "ipod" \notin awaited /\ isSyncing => late

\* A cycle ends or goes on; it does not start where none is.
LEMMA CycleWasSyncing ==
  /\ LaneInv /\ IpodCycle => isSyncing
  /\ MassStorageFacts!LaneInv /\ MassStorageCycle => msIsSyncing
<1>1. ASSUME LaneInv, IpodCycle PROVE isSyncing
  <2>1. PICK d \in Devices : Cycle(d)
    BY <1>1 DEF IpodCycle, RunCycle
  <2>2. stage[d] # "none"
    BY <2>1 DEF Cycle, MountOk, MountFails, DryRunEnds, SyncExits, EjectEnds, Goes
  <2>. QED BY <1>1, <2>2 DEF LaneInv, OneCycleAtATime
<1>2. ASSUME MassStorageFacts!LaneInv, MassStorageCycle PROVE msIsSyncing
  <2>1. PICK d \in MountPoints :
           \/ MassStorage!MountOk(d) \/ MassStorage!DryRunEnds(d)
           \/ MassStorage!SyncExits(d) \/ MassStorage!EjectEnds(d)
    BY <1>2 DEF MassStorageCycle
  <2>2. msStage[d] # "none"
    BY <2>1 DEF MassStorage!MountOk, MassStorage!DryRunEnds, MassStorage!SyncExits,
                MassStorage!EjectEnds, MassStorage!Goes
  <2>. QED BY <1>2, <2>2 DEF MassStorageFacts!LaneInv, MassStorageFacts!OneCycleAtATime
<1>. QED BY <1>1, <1>2

\* Every step preserves it.
LEMMA ExitInvStep ==
  LaneInv /\ MassStorageFacts!LaneInv /\ ExitInv /\ [Next]_vars => ExitInv'
<1>. SUFFICES ASSUME LaneInv, MassStorageFacts!LaneInv, ExitInv, [Next]_vars
              PROVE  ExitInv'
  OBVIOUS
<1>. USE DEF ExitInv, shutdownVars
<1>1. CASE UNCHANGED vars
  BY <1>1 DEF vars, laneVars, orchestratorVars, massStorageVars, msOrchestratorVars
<1>2. CASE Plugging
  <2>1. UNCHANGED isSyncing
    BY <1>2 DEF Plugging, User, laneVars, orchestratorVars
  <2>2. UNCHANGED msIsSyncing
    BY <1>2 DEF Plugging, MassStorage!User, MassStorage!orchestratorVars,
                massStorageVars, msOrchestratorVars
  <2>3. UNCHANGED <<shuttingDown, awaited, late, exited>>
    BY <1>2 DEF Plugging
  <2>. QED BY <2>1, <2>2, <2>3
<1>3. CASE IpodPoll
  <2>1. UNCHANGED isSyncing
    BY <1>3 DEF IpodPoll, TimerFires, Scan, orchestratorVars
  <2>2. UNCHANGED msIsSyncing
    BY <1>3 DEF IpodPoll, massStorageVars, msOrchestratorVars
  <2>3. UNCHANGED <<shuttingDown, awaited, late, exited>>
    BY <1>3 DEF IpodPoll
  <2>. QED BY <2>1, <2>2, <2>3
<1>4. CASE IpodEvents
  BY <1>4 DEF IpodEvents, massStorageVars, msOrchestratorVars
<1>5. CASE IpodCycle
  BY <1>5, CycleWasSyncing DEF IpodCycle, massStorageVars, msOrchestratorVars
<1>6. CASE MassStoragePoll
  BY <1>6 DEF MassStoragePoll, laneVars, orchestratorVars
<1>7. CASE MassStorageCycle
  BY <1>7, CycleWasSyncing DEF MassStorageCycle, laneVars, orchestratorVars
<1>8. CASE Shutdown
  BY <1>8 DEF Shutdown, Syncing, AbortSync, Abort, MassStorage!AbortSync,
              MassStorage!Abort, laneVars, orchestratorVars, massStorageVars,
              msOrchestratorVars
<1>9. CASE IdleSeen
  BY <1>9 DEF IdleSeen, Syncing, laneVars, orchestratorVars, massStorageVars,
              msOrchestratorVars
<1>. QED BY <1>1, <1>2, <1>3, <1>4, <1>5, <1>6, <1>7, <1>8, <1>9 DEF Next

(***************************************************************************)
(* The process never exits while a sync is under way that was there when   *)
(* it was told to stop: only a poll that ended after the signal can have   *)
(* started one, and only in the iPod lane.                                 *)
(***************************************************************************)
THEOREM DaemonExitsIdle == Spec => []ExitsIdle
<1>1. Init => ExitInv
  BY DEF Init, ExitInv
<1>2. ExitInv => ExitsIdle
  BY DEF ExitInv, ExitsIdle
<1>. QED BY BothLanes, <1>1, ExitInvStep, <1>2, PTL DEF Spec

(***************************************************************************)
(* The daemon's state always has its type.                                 *)
(***************************************************************************)
THEOREM DaemonTypeCorrect == Spec => []DaemonTypeOK
<1> DEFINE ShutdownTypeOK ==
  /\ shuttingDown \in BOOLEAN
  /\ awaited \subseteq {"ipod", "mass storage"}
  /\ awaited # {} => shuttingDown
  /\ late \in BOOLEAN
  /\ exited \in BOOLEAN
<1>1. Init => ShutdownTypeOK
  BY DEF Init
<1>2. ShutdownTypeOK /\ [Next]_vars => ShutdownTypeOK'
  <2>. SUFFICES ASSUME ShutdownTypeOK, [Next]_vars PROVE ShutdownTypeOK'
    OBVIOUS
  <2>. USE DEF shutdownVars
  <2>1. CASE UNCHANGED vars
    BY <2>1 DEF vars
  <2>2. CASE Plugging \/ IpodPoll \/ IpodEvents \/ IpodCycle
    BY <2>2 DEF Plugging, IpodPoll, IpodEvents, IpodCycle
  <2>3. CASE MassStoragePoll \/ MassStorageCycle
    BY <2>3 DEF MassStoragePoll, MassStorageCycle
  <2>4. CASE Shutdown \/ IdleSeen
    BY <2>4 DEF Shutdown, IdleSeen, Syncing
  <2>. QED BY <2>1, <2>2, <2>3, <2>4 DEF Next
<1>3. LaneInv /\ MassStorageFacts!LaneInv /\ ShutdownTypeOK => DaemonTypeOK
  <2>1. MassStorageFacts!LaneTypeOK => MassStorage!LaneTypeOK
    BY DEF MassStorage!LaneTypeOK, MassStorageFacts!LaneTypeOK,
           MassStorage!PollerTypeOK, MassStorageFacts!PollerTypeOK,
           MassStorage!OrchestratorTypeOK, MassStorageFacts!OrchestratorTypeOK
  <2>. QED BY <2>1 DEF DaemonTypeOK, LaneInv, MassStorageFacts!LaneInv
<1>. QED BY BothLanes, <1>1, <1>2, <1>3, PTL DEF Spec

=============================================================================
