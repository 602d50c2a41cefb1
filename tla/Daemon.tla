------------------------------- MODULE Daemon -------------------------------
(***************************************************************************)
(* packages/podkit-daemon/src/main.ts: the lane for iPods (the variables   *)
(* that this module has from Lane), the lane for mount points of players   *)
(* (MassStorage) and the shutdown on SIGTERM or SIGINT, which waits for    *)
(* both.                                                                   *)
(*                                                                         *)
(* Where the iPod lane waits for lsblk, the mass-storage lane looks at its *)
(* mount points in one go and never fails; and it has nothing to mount.    *)
(***************************************************************************)
EXTENDS Lane

CONSTANTS
  MountPoints,  \* of the mass-storage lane; none: there is no such lane
  MountLimit    \* bound: how often something is mounted there

ASSUME MassStorageAssumption == NoDevice \notin MountPoints /\ MountLimit \in Nat

VARIABLES
  msPresent, msPlugs, msKnown, msPending, msPoll, msSeen, msTold,
  msIsSyncing, msCurrentDevice, msDeviceDisconnected, msQueue, msStage, msChild, msServed,
  shuttingDown,
  awaited,      \* the lanes whose sync the shutdown waits for
  late,         \* history: a poll of the iPod lane ended after the signal
  exited

MassStorage == INSTANCE Lane WITH
  Devices <- MountPoints, PlugLimit <- MountLimit,
  present <- msPresent, plugs <- msPlugs, known <- msKnown,
  pending <- msPending, poll <- msPoll, seen <- msSeen, told <- msTold,
  isSyncing <- msIsSyncing, currentDevice <- msCurrentDevice,
  deviceDisconnected <- msDeviceDisconnected, queue <- msQueue,
  stage <- msStage, child <- msChild, served <- msServed

msPollerVars == <<msPresent, msPlugs, msKnown, msPending, msPoll, msSeen, msTold>>
msOrchestratorVars == <<msIsSyncing, msCurrentDevice, msDeviceDisconnected,
                        msQueue, msStage, msChild, msServed>>
massStorageVars == <<msPollerVars, msOrchestratorVars>>
shutdownVars == <<shuttingDown, awaited, late, exited>>
vars == <<laneVars, massStorageVars, shutdownVars>>

Init ==
  /\ LaneInit
  /\ MassStorage!LaneInit
  /\ shuttingDown = FALSE
  /\ awaited = {}
  /\ late = FALSE
  /\ exited = FALSE

-----------------------------------------------------------------------------
\* The process runs, and not in the midst of what a poller does in one go.
Free == ~exited /\ Quiet /\ msPoll = "no"

Plugging ==
  /\ Free
  /\ \/ User /\ UNCHANGED massStorageVars
     \/ MassStorage!User /\ UNCHANGED laneVars
  /\ UNCHANGED shutdownVars

\* stop() clears the timer: no poll starts, but one under way goes on.
IpodPoll ==
  /\ Free
  /\ (TimerFires /\ ~shuttingDown) \/ Scan
  /\ UNCHANGED <<massStorageVars, shutdownVars>>

IpodEvents ==
  /\ ~exited
  /\ msPoll = "no"
  /\ PollCompletes
  /\ late' = shuttingDown
  /\ UNCHANGED <<massStorageVars, shuttingDown, awaited, exited>>

IpodCycle ==
  /\ Free
  /\ \E d \in Devices : RunCycle(d)
  /\ UNCHANGED <<massStorageVars, shutdownVars>>

MassStoragePoll ==
  /\ ~exited
  /\ Quiet
  /\ ~shuttingDown
  /\ MassStorage!TimerFiresAtOnce \/ MassStorage!PollCompletes
  /\ UNCHANGED <<laneVars, shutdownVars>>

MassStorageCycle ==
  /\ Free
  /\ \E d \in MountPoints :
       /\ \/ MassStorage!MountOk(d) \/ MassStorage!DryRunEnds(d)
          \/ MassStorage!SyncExits(d) \/ MassStorage!EjectEnds(d)
       /\ UNCHANGED msPollerVars
  /\ UNCHANGED <<laneVars, shutdownVars>>

-----------------------------------------------------------------------------
Syncing ==
  (IF isSyncing THEN {"ipod"} ELSE {})
  \cup (IF msIsSyncing THEN {"mass storage"} ELSE {})

(***************************************************************************)
(* The signal handler: abort what is syncing now. If nothing is, the wait  *)
(* is over before any other code can run.                                  *)
(***************************************************************************)
Shutdown ==
  /\ Free
  /\ ~shuttingDown
  /\ shuttingDown' = TRUE
  /\ IF isSyncing THEN AbortSync ELSE UNCHANGED laneVars
  /\ IF msIsSyncing THEN MassStorage!AbortSync ELSE UNCHANGED massStorageVars
  /\ awaited' = Syncing
  /\ exited' = (Syncing = {})
  /\ UNCHANGED late

\* Faulty IdleSeen: the first lane that is idle ends the process.
AnyIdleSeen ==
  /\ Free
  /\ shuttingDown
  /\ \E lane \in awaited \ Syncing : awaited' = awaited \ {lane}
  /\ exited' = TRUE
  /\ UNCHANGED <<laneVars, massStorageVars, shuttingDown, late>>

\* waitForIdle looks twice a second whether its lane is syncing and does not
\* look again once it is not; when both lanes are idle the process exits.
IdleSeen ==
  /\ Free
  /\ shuttingDown
  /\ \E lane \in awaited \ Syncing : awaited' = awaited \ {lane}
  /\ exited' = (awaited' = {})
  /\ UNCHANGED <<laneVars, massStorageVars, shuttingDown, late>>

Next ==
  \/ Plugging
  \/ IpodPoll \/ IpodEvents \/ IpodCycle
  \/ MassStoragePoll \/ MassStorageCycle
  \/ Shutdown \/ IdleSeen

Spec == Init /\ [][Next]_vars

(***************************************************************************)
(* The timers fire, a scan answers or fails, and every subprocess ends: on *)
(* its own or killed after five minutes; the event loop gets to each of    *)
(* these, however often it is busy with another. A scan does not fail for  *)
(* ever. Nobody has to plug a device in, nor to stop the daemon.           *)
(***************************************************************************)
Fairness ==
  /\ SF_vars(IpodPoll \/ IpodEvents)
  /\ SF_vars(IpodPoll /\ ScanAnswers)
  /\ SF_vars(IpodCycle)
  /\ WF_vars(MassStoragePoll)
  /\ SF_vars(MassStorageCycle)
  /\ SF_vars(IdleSeen)

FairSpec == Spec /\ Fairness

-----------------------------------------------------------------------------
\* The type invariant: both lanes', and the shutdown waits only for lanes.
DaemonTypeOK ==
  /\ LaneTypeOK
  /\ MassStorage!LaneTypeOK
  /\ shuttingDown \in BOOLEAN
  /\ awaited \subseteq {"ipod", "mass storage"}
  /\ awaited # {} => shuttingDown
  /\ late \in BOOLEAN
  /\ exited \in BOOLEAN

(***************************************************************************)
(* At most one cycle in either lane.                                       *)
(***************************************************************************)
OneCyclePerLane == OneCycleAtATime /\ MassStorage!OneCycleAtATime

(***************************************************************************)
(* waitForIdle "ensures we don't kill a sync mid-transfer"                 *)
(* (sync-orchestrator.ts:136): the process exits while a lane is syncing   *)
(* only if that is the iPod lane and a poll which was under way at the     *)
(* signal has ended since. Such a poll can start a cycle in a lane that    *)
(* was already seen idle, while the other lane is waited for.              *)
(***************************************************************************)
ExitsIdle == exited => ~msIsSyncing /\ (isSyncing => late)

(***************************************************************************)
(* An iPod that stays plugged in gets its cycle, unless the daemon is      *)
(* stopped: neither a failing scan, the two scans it must be seen in, the  *)
(* queue, a failing device before it, a reconnection nor the other lane    *)
(* loses it. (One that is unplugged and plugged in again between two scans *)
(* is not new.) The mass-storage lane has the same orchestrator; here it   *)
(* is the other lane only, and nothing is claimed for its devices.         *)
(***************************************************************************)
PluggedDeviceServed ==
  \A d \in Devices : d \in present ~> (d \in served \/ d \notin present \/ shuttingDown)

(***************************************************************************)
(* A daemon that is told to stop does stop, whatever the cycles under way  *)
(* were doing and whatever devices come meanwhile.                         *)
(***************************************************************************)
ShutdownCompletes == shuttingDown ~> exited

=============================================================================
