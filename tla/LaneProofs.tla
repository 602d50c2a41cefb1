----------------------------- MODULE LaneProofs -----------------------------
(***************************************************************************)
(* What a lane of the daemon guarantees for any number of devices, plugged *)
(* in and out any number of times: one cycle at a time, described by the   *)
(* flags, and a queue without duplicates that a cycle will go on with.     *)
(***************************************************************************)
EXTENDS Lane, SequenceTheorems, TLAPS

Distinct(line) == \A i, j \in DOMAIN line : line[i] = line[j] => i = j

LaneInv == LaneTypeOK /\ OneCycleAtATime

-----------------------------------------------------------------------------
\* A device that goes to the end of a queue it is not in is there once.
LEMMA Queued ==
  ASSUME NEW line \in Seq(Devices), NEW d \in Devices, Distinct(line),
         d \notin ElementsOf(line)
  PROVE  Append(line, d) \in Seq(Devices) /\ Distinct(Append(line, d))
BY DEF Distinct, ElementsOf

\* Who is next has waited; the others still wait once each.
LEMMA Dequeued ==
  ASSUME NEW line \in Seq(Devices), line # <<>>, Distinct(line)
  PROVE  /\ Head(line) \in Devices
         /\ Tail(line) \in Seq(Devices)
         /\ Distinct(Tail(line))
BY DEF Distinct

\* Taking a device off a queue neither reorders it nor doubles another.
LEMMA Spliced ==
  ASSUME NEW line \in Seq(Devices), NEW d \in Devices, Distinct(line)
  PROVE  /\ RemoveFirst(line, d) \in Seq(Devices)
         /\ Distinct(RemoveFirst(line, d))
         /\ RemoveFirst(line, d) # <<>> => line # <<>>
<1>1. CASE ~\E k \in 1..Len(line) : line[k] = d
  BY <1>1, Zenon DEF RemoveFirst
<1>2. CASE \E k \in 1..Len(line) : line[k] = d
  <2> DEFINE I == {i \in 1..Len(line) : line[i] = d}
             k == SelectInSeq(line, LAMBDA v : v = d)
             front == SubSeq(line, 1, k - 1)
             back  == SubSeq(line, k + 1, Len(line))
  <2>1. k \in 1..Len(line)
    <3>1. I # {} /\ k = Min(I)
      BY <1>2, Zenon DEF SelectInSeq
    <3>2. PICK m \in 1..Len(line) : I = {m}
      BY <1>2 DEF Distinct
    <3>3. Min(I) = m
      BY <3>2 DEF Min
    <3>. QED BY <3>1, <3>3
  <2>2. RemoveFirst(line, d) = front \o back
    BY <1>2, Zenon DEF RemoveFirst, RemoveAt
  <2> HIDE DEF k
  <2>3. front \in Seq(Devices) /\ Len(front) = k - 1
         /\ \A i \in 1..(k - 1) : front[i] = line[i]
    BY <2>1
  <2>4. back \in Seq(Devices) /\ Len(back) = Len(line) - k
         /\ \A i \in 1..(Len(line) - k) : back[i] = line[k + i]
    BY <2>1
  <2> HIDE DEF front, back
  <2>5. front \o back \in Seq(Devices) /\ DOMAIN (front \o back) = 1..(Len(line) - 1)
    BY <2>1, <2>3, <2>4
  <2>6. \A i \in 1..(Len(line) - 1) :
          (front \o back)[i] = line[IF i < k THEN i ELSE i + 1]
    <3>. TAKE i \in 1..(Len(line) - 1)
    <3>1. (front \o back)[i] = IF i <= Len(front) THEN front[i] ELSE back[i - Len(front)]
      <4>1. i \in 1..(Len(front) + Len(back))
        BY <2>1, <2>3, <2>4
      <4>. QED BY <2>3, <2>4, <4>1, ConcatProperties, Zenon
    <3>2. CASE i < k
      BY <2>1, <2>3, <3>1, <3>2
    <3>3. CASE ~(i < k)
      <4>1. i - (k - 1) \in 1..(Len(line) - k) /\ k + (i - (k - 1)) = i + 1
        BY <2>1, <3>3
      <4>2. back[i - (k - 1)] = line[i + 1]
        BY <2>4, <4>1
      <4>. QED BY <2>1, <2>3, <3>1, <3>3, <4>2
    <3>. QED BY <3>2, <3>3
  <2>7. Distinct(front \o back)
    <3>1. SUFFICES ASSUME NEW i \in 1..(Len(line) - 1), NEW j \in 1..(Len(line) - 1),
                          (front \o back)[i] = (front \o back)[j]
                   PROVE  i = j
      BY <2>5, Zenon DEF Distinct
    <3>2. line[IF i < k THEN i ELSE i + 1] = line[IF j < k THEN j ELSE j + 1]
      BY <2>6, <3>1
    <3>. QED BY <2>1, <3>2 DEF Distinct
  <2>. QED BY <1>2, <2>2, <2>5, <2>7
<1>. QED BY <1>1, <1>2

-----------------------------------------------------------------------------
\* The invariant holds in the initial state.
LEMMA LaneInvInit == LaneInit => LaneInv
<1>. SUFFICES ASSUME LaneInit PROVE LaneInv
  OBVIOUS
<1>1. PollerTypeOK
  BY PollerAssumption DEF LaneInit, PollerInit, PollerTypeOK
<1>2. /\ isSyncing = FALSE /\ currentDevice = NoDevice /\ deviceDisconnected = FALSE
      /\ queue = <<>> /\ child = "none" /\ served = {}
      /\ stage \in [Devices -> {"none"}]
  BY DEF LaneInit, OrchestratorInit
<1>3. OrchestratorTypeOK
  <2>1. queue \in Seq(Devices)
    BY <1>2
  <2>2. stage \in [Devices -> {"none", "mount", "dryrun", "sync", "eject"}]
    BY <1>2
  <2>. QED BY <1>2, <2>1, <2>2 DEF OrchestratorTypeOK
<1>4. OneCycleAtATime
  BY <1>2 DEF OneCycleAtATime
<1>. QED BY <1>1, <1>3, <1>4 DEF LaneInv, LaneTypeOK

(***************************************************************************)
(* The poller keeps its books whatever the user does, and its own steps    *)
(* are none of the orchestrator's.                                         *)
(***************************************************************************)
LEMMA PollerStep ==
  ASSUME PollerTypeOK,
         \/ User \/ TimerFires \/ TimerFiresAtOnce \/ Scan \/ PollCompletes
  PROVE  PollerTypeOK'
<1>. USE PollerAssumption DEF PollerTypeOK
<1>1. CASE User
  BY <1>1 DEF User, Plug, Unplug
<1>2. CASE TimerFires
  BY <1>2 DEF TimerFires, PollStarts
<1>3. CASE TimerFiresAtOnce
  BY <1>3 DEF TimerFiresAtOnce, PollsAtOnce
<1>4. CASE Scan
  BY <1>4 DEF Scan, ScanAnswers, ScanFails
<1>5. ASSUME NEW d \in Devices, EmitAppeared(d) \/ EmitDisappeared(d)
      PROVE  PollerTypeOK'
  BY <1>5 DEF EmitAppeared, EmitDisappeared, Emit
<1>6. CASE PollEnds
  BY <1>6 DEF PollEnds
<1>. QED BY <1>1, <1>2, <1>3, <1>4, <1>5, <1>6 DEF PollCompletes

\* A cycle may begin where no other is under way.
LEMMA Begins ==
  ASSUME OrchestratorTypeOK, NEW d \in Devices, NEW stages \in [Devices -> {"none"}],
         child = "none", child' = "none", Begin(d, stages),
         queue' \in Seq(Devices), Distinct(queue'), served' \subseteq Devices
  PROVE  (OrchestratorTypeOK /\ OneCycleAtATime)'
<1>1. /\ isSyncing' = TRUE /\ currentDevice' = d /\ deviceDisconnected' = FALSE
      /\ stage' = [stages EXCEPT ![d] = "mount"]
  BY DEF Begin
<1>2. stage'[d] = "mount" /\ \A e \in Devices : e # d => stage'[e] = "none"
  BY <1>1
<1>3. stage' \in [Devices -> {"none", "mount", "dryrun", "sync", "eject"}]
  BY <1>1
<1>. QED BY <1>1, <1>2, <1>3 DEF OrchestratorTypeOK, OneCycleAtATime, Distinct

\* Telling of a device leaves the orchestrator in order.
LEMMA EventStep ==
  ASSUME LaneInv, NEW d \in Devices,
         HandleDeviceAppeared(d) \/ HandleDeviceDisappeared(d)
  PROVE  (OrchestratorTypeOK /\ OneCycleAtATime)'
<1>. USE DEF LaneInv, LaneTypeOK
<1>0. Distinct(queue) /\ queue \in Seq(Devices)
  BY DEF OneCycleAtATime, Distinct, OrchestratorTypeOK
<1>1. CASE HandleDeviceAppeared(d) /\ isSyncing
  <2>1. UNCHANGED <<isSyncing, currentDevice, deviceDisconnected, stage, child>>
    BY <1>1 DEF HandleDeviceAppeared, Forgets
  <2>2. queue' \in Seq(Devices) /\ Distinct(queue')
    BY <1>0, <1>1, Queued DEF HandleDeviceAppeared
  <2>3. served' \subseteq Devices
    BY <1>1 DEF HandleDeviceAppeared, Forgets, OrchestratorTypeOK
  <2>. QED BY <1>1, <2>1, <2>2, <2>3 DEF OrchestratorTypeOK, OneCycleAtATime, Distinct
<1>2. CASE HandleDeviceAppeared(d) /\ ~isSyncing
  <2>1. stage \in [Devices -> {"none"}] /\ child = "none"
    BY <1>2 DEF OrchestratorTypeOK, OneCycleAtATime
  <2>2. /\ Begin(d, stage)
        /\ UNCHANGED <<queue, child>>
        /\ served' \subseteq Devices
    BY <1>2 DEF HandleDeviceAppeared, OrchestratorTypeOK
  <2>. QED BY <1>0, <2>1, <2>2, Begins
<1>3. CASE HandleDeviceDisappeared(d)
  <2>1. UNCHANGED <<isSyncing, currentDevice, stage, child>>
    BY <1>3 DEF HandleDeviceDisappeared, Forgets
  <2>2. /\ queue' \in Seq(Devices) /\ Distinct(queue')
        /\ queue' # <<>> => queue # <<>>
    BY <1>0, <1>3, Spliced DEF HandleDeviceDisappeared
  <2>3. served' \subseteq Devices /\ deviceDisconnected' \in BOOLEAN
    BY <1>3 DEF HandleDeviceDisappeared, Forgets, OrchestratorTypeOK
  <2>. QED BY <2>1, <2>2, <2>3 DEF OrchestratorTypeOK, OneCycleAtATime, Distinct
<1>. QED BY <1>1, <1>2, <1>3

(***************************************************************************)
(* The end of a cycle that has no subprocess: the next one begins, or the  *)
(* orchestrator is idle.                                                   *)
(***************************************************************************)
LEMMA EndCycleStep ==
  ASSUME LaneInv, NEW d \in Devices, stage[d] \in {"mount", "eject"},
         EndCycle(d), child' = child
  PROVE  (OrchestratorTypeOK /\ OneCycleAtATime)'
<1>. USE DEF LaneInv, LaneTypeOK
<1> DEFINE over == [stage EXCEPT ![d] = "none"]
<1>0. Distinct(queue) /\ queue \in Seq(Devices)
  BY DEF OneCycleAtATime, Distinct, OrchestratorTypeOK
<1>1. currentDevice = d /\ isSyncing
  BY DEF OneCycleAtATime
<1>2. child = "none"
  BY <1>1 DEF OneCycleAtATime
<1>3. over \in [Devices -> {"none"}]
  BY <1>1 DEF OneCycleAtATime, OrchestratorTypeOK
<1>4. CASE queue = <<>>
  <2>1. /\ isSyncing' = FALSE /\ currentDevice' = NoDevice
        /\ deviceDisconnected' = FALSE /\ stage' = over
        /\ UNCHANGED <<queue, served>>
    BY <1>4 DEF EndCycle
  <2>. QED BY <1>2, <1>3, <1>4, <2>1 DEF OrchestratorTypeOK, OneCycleAtATime
<1>5. CASE queue # <<>>
  <2>1. /\ Begin(Head(queue), over)
        /\ queue' = Tail(queue)
        /\ served' = served \cup {Head(queue)}
    BY <1>5 DEF EndCycle
  <2>2. Head(queue) \in Devices /\ queue' \in Seq(Devices) /\ Distinct(queue')
    BY <1>0, <1>5, <2>1, Dequeued
  <2>3. served' \subseteq Devices
    BY <2>1, <2>2 DEF OrchestratorTypeOK
  <2>. HIDE DEF over
  <2>. QED BY <1>2, <1>3, <2>1, <2>2, <2>3, Begins
<1>. QED BY <1>4, <1>5

\* Every step of a cycle keeps it the only one, and the flags true.
LEMMA CycleStep ==
  ASSUME LaneInv, NEW d \in Devices, Cycle(d)
  PROVE  (OrchestratorTypeOK /\ OneCycleAtATime)'
<1>. USE DEF LaneInv, LaneTypeOK
<1>1. CASE MountOk(d)
  BY <1>1 DEF MountOk, Goes, OrchestratorTypeOK, OneCycleAtATime
<1>2. CASE MountFails(d)
  BY <1>2, EndCycleStep DEF MountFails
<1>3. CASE DryRunEnds(d)
  BY <1>3 DEF DryRunEnds, Goes, OrchestratorTypeOK, OneCycleAtATime
<1>4. CASE SyncExits(d)
  BY <1>4 DEF SyncExits, Goes, OrchestratorTypeOK, OneCycleAtATime
<1>5. CASE EjectEnds(d)
  BY <1>5, EndCycleStep DEF EjectEnds
<1>. QED BY <1>1, <1>2, <1>3, <1>4, <1>5 DEF Cycle

\* Every step of the lane preserves the invariant.
LEMMA LaneInvStep == LaneInv /\ [LaneNext]_laneVars => LaneInv'
<1>. SUFFICES ASSUME LaneInv, [LaneNext]_laneVars PROVE LaneInv'
  OBVIOUS
<1>. USE DEF LaneInv, LaneTypeOK
<1>0. ASSUME UNCHANGED orchestratorVars
      PROVE  (OrchestratorTypeOK /\ OneCycleAtATime)'
  BY <1>0 DEF orchestratorVars, OrchestratorTypeOK, OneCycleAtATime
<1>1. CASE UNCHANGED laneVars
  BY <1>0, <1>1 DEF laneVars, pollerVars, PollerTypeOK
<1>2. CASE User \/ TimerFires \/ TimerFiresAtOnce \/ Scan
  BY <1>0, <1>2, PollerStep DEF User, TimerFires, TimerFiresAtOnce, Scan
<1>3. CASE PollCompletes
  BY <1>0, <1>3, PollerStep, EventStep DEF PollCompletes
<1>4. CASE AbortSync
  BY <1>4 DEF AbortSync, Abort, pollerVars, PollerTypeOK, OrchestratorTypeOK,
              OneCycleAtATime
<1>5. ASSUME NEW d \in Devices, RunCycle(d)
      PROVE  LaneInv'
  BY <1>5, CycleStep DEF RunCycle, pollerVars, PollerTypeOK
<1>. QED BY <1>1, <1>2, <1>3, <1>4, <1>5 DEF LaneNext

(***************************************************************************)
(* One cycle at a time in a lane (sync-orchestrator.ts:6), for any devices *)
(* and however often they come and go.                                     *)
(***************************************************************************)
THEOREM LaneCorrect == LaneSpec => [](LaneTypeOK /\ OneCycleAtATime)
<1>1. LaneInv => LaneTypeOK /\ OneCycleAtATime
  BY DEF LaneInv
<1>. QED BY LaneInvInit, LaneInvStep, <1>1, PTL DEF LaneSpec

=============================================================================
