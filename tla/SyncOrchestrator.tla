-------------------------- MODULE SyncOrchestrator --------------------------
(***************************************************************************)
(* packages/podkit-daemon/src/sync-orchestrator.ts: runs mount, dry run,   *)
(* sync and eject for one device at a time, each as a podkit subprocess    *)
(* (cli-runner.ts), and queues the devices that come meanwhile.            *)
(*                                                                         *)
(* A cycle is an async function: an action is the code between two awaits  *)
(* of a subprocess. Awaiting a notification or the look-up of the device's *)
(* registered name only delays the cycle and is part of the step it ends.  *)
(* The flags the other handlers look at (isSyncing, currentDevice) are     *)
(* kept apart from where each device's cycle really is (stage).            *)
(***************************************************************************)
EXTENDS DetectedDevices, Naturals, Sequences, SequencesExt

CONSTANT NoDevice  \* stands for null

ASSUME OrchestratorAssumption == NoDevice \notin Devices

VARIABLES
  isSyncing,
  currentDevice,
  deviceDisconnected,
  queue,        \* devices waiting, the next one first
  stage,        \* where each device's cycle is; "none": it has none
  child,        \* the sync subprocess abort() would signal, and whether it did
  served        \* history: who got a cycle since it last appeared or disappeared

orchestratorVars == <<isSyncing, currentDevice, deviceDisconnected, queue, stage,
                      child, served>>

OrchestratorInit ==
  /\ isSyncing = FALSE
  /\ currentDevice = NoDevice
  /\ deviceDisconnected = FALSE
  /\ queue = <<>>
  /\ stage = [d \in Devices |-> "none"]
  /\ child = "none"
  /\ served = {}

ElementsOf(s) == {s[k] : k \in DOMAIN s}

-----------------------------------------------------------------------------
(***************************************************************************)
(* The synchronous part of handleDeviceAppeared when nothing is running: d *)
(* is the current device and its mount has been asked for. `stages` is     *)
(* what stage was like just before.                                        *)
(***************************************************************************)
Begin(d, stages) ==
  /\ isSyncing' = TRUE
  /\ currentDevice' = d
  /\ deviceDisconnected' = FALSE
  /\ stage' = [stages EXCEPT ![d] = "mount"]

Forgets(d) == served' = served \ {d} /\ UNCHANGED child

\* Faulty HandleDeviceAppeared: a device that appears is served at once.
ServeAtOnce(d) ==
  /\ Begin(d, stage)
  /\ UNCHANGED <<queue, child>>
  /\ served' = served \cup {d}

\* Queued while a cycle runs, but not twice.
HandleDeviceAppeared(d) ==
  IF isSyncing
    THEN /\ queue' = IF d \in ElementsOf(queue) THEN queue ELSE Append(queue, d)
         /\ Forgets(d)
         /\ UNCHANGED <<isSyncing, currentDevice, deviceDisconnected, stage>>
    ELSE /\ Begin(d, stage)
         /\ served' = served \cup {d}
         /\ UNCHANGED <<queue, child>>

\* One that is being synced is marked, any other is taken off the queue.
HandleDeviceDisappeared(d) ==
  /\ IF currentDevice = d
       THEN deviceDisconnected' = TRUE /\ UNCHANGED queue
       ELSE queue' = RemoveFirst(queue, d) /\ UNCHANGED deviceDisconnected
  /\ Forgets(d)
  /\ UNCHANGED <<isSyncing, currentDevice, stage>>

-----------------------------------------------------------------------------

\* Faulty EndCycle: nobody processes the queue.
EndCycleOnly(d) ==
  /\ isSyncing' = FALSE
  /\ currentDevice' = NoDevice
  /\ deviceDisconnected' = FALSE
  /\ stage' = [stage EXCEPT ![d] = "none"]
  /\ UNCHANGED <<queue, served>>

(***************************************************************************)
(* The finally block: all flags reset, then processQueue, which starts the *)
(* next cycle before anything else can run.                                *)
(***************************************************************************)
EndCycle(d) ==
  LET over == [stage EXCEPT ![d] = "none"]
  IN  IF queue = <<>>
        THEN /\ isSyncing' = FALSE
             /\ currentDevice' = NoDevice
             /\ deviceDisconnected' = FALSE
             /\ stage' = over
             /\ UNCHANGED <<queue, served>>
        ELSE /\ Begin(Head(queue), over)
             /\ queue' = Tail(queue)
             /\ served' = served \cup {Head(queue)}

Goes(d, from, to) ==
  /\ stage[d] = from
  /\ stage' = [stage EXCEPT ![d] = to]
  /\ UNCHANGED <<isSyncing, currentDevice, deviceDisconnected, queue, served>>

MountOk(d) == Goes(d, "mount", "dryrun") /\ UNCHANGED child

\* Faulty MountFails: the early return skips the reset of the flags.
MountFailsReturns(d) ==
  /\ Goes(d, "mount", "none")
  /\ UNCHANGED child

\* The mount threw, timed out or reported an error: no sync and no eject.
MountFails(d) == stage[d] = "mount" /\ EndCycle(d) /\ UNCHANGED child

\* The dry run is over, well or badly: the sync starts.
DryRunEnds(d) ==
  /\ Goes(d, "dryrun", "sync")
  /\ child' = "running"

(***************************************************************************)
(* The sync ends: done, done in part, refused (4), failed, aborted (130)   *)
(* or killed after the five minutes of cli-runner.ts. The outcome chooses  *)
(* a log line and a notification; the device is ejected in every case.     *)
(***************************************************************************)
SyncExits(d) ==
  /\ Goes(d, "sync", "eject")
  /\ child' = "none"

\* Ejected, or not: the result is only reported.
EjectEnds(d) == stage[d] = "eject" /\ EndCycle(d) /\ UNCHANGED child

Cycle(d) ==
  \/ MountOk(d) \/ MountFails(d) \/ DryRunEnds(d)
  \/ SyncExits(d) \/ EjectEnds(d)

-----------------------------------------------------------------------------
\* abort(): forget the queue, interrupt the sync if there is one by now.
Abort ==
  /\ queue' = <<>>
  /\ child' = IF child = "none" THEN "none" ELSE "signalled"
  /\ UNCHANGED <<isSyncing, currentDevice, deviceDisconnected, stage, served>>

\* The orchestrator's part of the type invariant.
OrchestratorTypeOK ==
  /\ isSyncing \in BOOLEAN
  /\ currentDevice \in Devices \cup {NoDevice}
  /\ deviceDisconnected \in BOOLEAN
  /\ queue \in Seq(Devices)
  /\ stage \in [Devices -> {"none", "mount", "dryrun", "sync", "eject"}]
  /\ child \in {"none", "running", "signalled"}
  /\ served \subseteq Devices

=============================================================================
