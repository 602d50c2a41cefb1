-------------------------------- MODULE Lane --------------------------------
(***************************************************************************)
(* One lane of the daemon (packages/podkit-daemon/src/main.ts): a poller   *)
(* whose events go straight to an orchestrator, which the daemon may tell  *)
(* to abort. The daemon has a lane for iPods and, where mount points of    *)
(* players are configured, one for these.                                  *)
(***************************************************************************)
EXTENDS DevicePoller, SyncOrchestrator

laneVars == <<pollerVars, orchestratorVars>>

LaneInit == PollerInit /\ OrchestratorInit

\* The poller is not in the midst of telling what it saw.
Quiet == told = {}

\* The user.
User ==
  /\ Quiet
  /\ \E d \in Devices : Plug(d) \/ Unplug(d)
  /\ UNCHANGED orchestratorVars

TimerFires == PollStarts /\ UNCHANGED orchestratorVars

TimerFiresAtOnce == PollsAtOnce /\ UNCHANGED orchestratorVars

Scan == (ScanAnswers \/ ScanFails) /\ UNCHANGED orchestratorVars

PollCompletes ==
  \/ \E d \in Devices : \/ EmitAppeared(d) /\ HandleDeviceAppeared(d)
                        \/ EmitDisappeared(d) /\ HandleDeviceDisappeared(d)
  \/ PollEnds /\ UNCHANGED orchestratorVars

RunCycle(d) == Quiet /\ Cycle(d) /\ UNCHANGED pollerVars

AbortSync == Quiet /\ Abort /\ UNCHANGED pollerVars

LaneNext ==
  \/ User \/ TimerFires \/ TimerFiresAtOnce \/ Scan \/ PollCompletes \/ AbortSync
  \/ \E d \in Devices : RunCycle(d)

LaneSpec == LaneInit /\ [][LaneNext]_laneVars

-----------------------------------------------------------------------------
(***************************************************************************)
(* The lane's part of the type invariant: it includes that the poller      *)
(* never has a device both known and pending.                              *)
(***************************************************************************)
LaneTypeOK == PollerTypeOK /\ OrchestratorTypeOK

(***************************************************************************)
(* "Enforces one-at-a-time" (sync-orchestrator.ts:6): whatever devices do  *)
(* while cycles run, end and start each other, at most one device has a    *)
(* cycle, and the flags by which every handler decides describe it. A      *)
(* device waits only while a cycle runs whose end will start the next one, *)
(* and it waits only once, however often it is unplugged and plugged in.   *)
(***************************************************************************)
OneCycleAtATime ==
  /\ \A d \in Devices : stage[d] # "none" => isSyncing /\ currentDevice = d
  /\ isSyncing => currentDevice \in Devices /\ stage[currentDevice] # "none"
  /\ child # "none" => isSyncing /\ stage[currentDevice] = "sync"
  /\ queue # <<>> => isSyncing
  /\ \A i, j \in DOMAIN queue : queue[i] = queue[j] => i = j

=============================================================================
