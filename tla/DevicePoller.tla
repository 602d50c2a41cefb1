---------------------------- MODULE DevicePoller ----------------------------
(***************************************************************************)
(* packages/podkit-daemon/src/device-poller.ts: finds out which devices    *)
(* are plugged in by scanning every few seconds, and tells its listener    *)
(* who came and who went. A device is believed only when two scans in a    *)
(* row have seen it.                                                       *)
(*                                                                         *)
(* poll() awaits its scan, so devices come and go while it is under way.   *)
(* What follows the scan runs in one go, with the listener's handlers,     *)
(* which the module that composes the two adds to Emit...: nothing else    *)
(* happens while some devices have been told of and others not.            *)
(***************************************************************************)
EXTENDS DetectedDevices, Naturals

CONSTANT PlugLimit  \* bound: how often devices are plugged in

ASSUME PollerAssumption == PlugLimit \in Nat

VARIABLES
  present,   \* the devices that are plugged in
  plugs,     \* how often one was
  known,     \* knownDevices
  pending,   \* pendingDevices
  poll,      \* the poll under way: "no", "scanning" or "scanned"
  seen,      \* what its scan saw
  told       \* the devices that the listener has been told of since

pollerVars == <<present, plugs, known, pending, poll, seen, told>>

PollerInit ==
  /\ present = {}
  /\ plugs = 0
  /\ known = {}
  /\ pending = {}
  /\ poll = "no"
  /\ seen = {}
  /\ told = {}

-----------------------------------------------------------------------------
\* The user.
Plug(d) ==
  /\ d \notin present
  /\ plugs < PlugLimit
  /\ present' = present \cup {d}
  /\ plugs' = plugs + 1
  /\ UNCHANGED <<known, pending, poll, seen, told>>

Unplug(d) ==
  /\ d \in present
  /\ present' = present \ {d}
  /\ UNCHANGED <<plugs, known, pending, poll, seen, told>>

-----------------------------------------------------------------------------
\* The timer fires; a poll that is still under way makes this one return.
PollStarts ==
  /\ poll = "no"
  /\ poll' = "scanning"
  /\ UNCHANGED <<present, plugs, known, pending, seen, told>>

ScanAnswers ==
  /\ poll = "scanning"
  /\ poll' = "scanned"
  /\ seen' = present
  /\ UNCHANGED <<present, plugs, known, pending, told>>

\* A poll whose scan awaits nothing.
PollsAtOnce ==
  /\ poll = "no"
  /\ poll' = "scanned"
  /\ seen' = present
  /\ UNCHANGED <<present, plugs, known, pending, told>>

\* A scan that fails leaves everything as it was.
ScanFails ==
  /\ poll = "scanning"
  /\ poll' = "no"
  /\ UNCHANGED <<present, plugs, known, pending, seen, told>>

\* Confirmed by the scan: device-appeared is emitted for these,
Appeared == {d \in seen : d \notin known /\ d \in pending}

\* and then device-disappeared for these. A pending one just goes.
Disappeared == known \ seen

Emit(d) ==
  /\ poll = "scanned"
  /\ told' = told \cup {d}
  /\ UNCHANGED <<present, plugs, known, pending, poll, seen>>

EmitAppeared(d) == d \in Appeared \ told /\ Emit(d)

EmitDisappeared(d) ==
  /\ Appeared \subseteq told
  /\ d \in Disappeared \ told
  /\ Emit(d)

\* Faulty PollEnds: a confirmed device stays pending.
PollEndsPending ==
  /\ poll = "scanned"
  /\ Appeared \cup Disappeared \subseteq told
  /\ known' = seen \cap (known \cup pending)
  /\ pending' = seen \ known
  /\ poll' = "no"
  /\ seen' = {}
  /\ told' = {}
  /\ UNCHANGED <<present, plugs>>

PollEnds ==
  /\ poll = "scanned"
  /\ Appeared \cup Disappeared \subseteq told
  /\ known' = seen \cap (known \cup pending)
  /\ pending' = seen \ (known \cup pending)
  /\ poll' = "no"
  /\ seen' = {}
  /\ told' = {}
  /\ UNCHANGED <<present, plugs>>

\* The poller's part of the type invariant: pending devices are not known.
PollerTypeOK ==
  /\ present \subseteq Devices
  /\ plugs \in 0..PlugLimit
  /\ known \subseteq Devices
  /\ pending \subseteq Devices \ known
  /\ poll \in {"no", "scanning", "scanned"}
  /\ seen \subseteq Devices
  /\ told \subseteq Devices
  /\ told # {} => poll = "scanned"

=============================================================================
