-------------------------- MODULE AsyncQueueProofs --------------------------
(***************************************************************************)
(* AsyncQueue for any producers, consumers, size and number of pushes:     *)
(* its types, that it implements BoundedChannel step by step, that nobody  *)
(* is parked without a reason, and, for one producer, that no push is left *)
(* parked on a queue with room.                                            *)
(***************************************************************************)
EXTENDS AsyncQueue, SequenceTheorems, TLAPS

(***************************************************************************)
(* What the queue holds is what was accepted and not yet delivered.        *)
(***************************************************************************)
HistoryOK ==
  /\ accepted = delivered \o queue
  /\ Len(queue) <= MaxSize

(***************************************************************************)
(* The list of parked consumers names each of them once.                   *)
(***************************************************************************)
ParkedOnce ==
  /\ \A i \in DOMAIN popWaiters : popState[popWaiters[i]] = "waiting"
  /\ \A i, j \in DOMAIN popWaiters : popWaiters[i] = popWaiters[j] => i = j

(***************************************************************************)
(* A producer that is parked or woken has started a push.                  *)
(***************************************************************************)
PushStarted ==
  /\ \A p \in Producers : pushState[p] # "idle" => sent[p] > 0
  /\ \A i \in DOMAIN pushWaiters : sent[pushWaiters[i]] > 0

IInv == TypeOK /\ HistoryOK /\ WaitersJustified /\ ParkedOnce /\ PushStarted

-----------------------------------------------------------------------------
(***************************************************************************)
(* pop: taking the head of the queue moves it to the delivered items.      *)
(***************************************************************************)
LEMMA HeadSplit ==
  ASSUME NEW S, NEW d \in Seq(S), NEW q \in Seq(S), q # <<>>
  PROVE  /\ Append(d, Head(q)) \in Seq(S)
         /\ Append(d, Head(q)) \o Tail(q) = d \o q
         /\ Head(q) = (d \o q)[Len(d) + 1]
<1> DEFINE h == Append(d, Head(q))
           l == h \o Tail(q)
           r == d \o q
<1>1. /\ Head(q) \in S /\ Head(q) = q[1] /\ Tail(q) \in Seq(S)
      /\ Len(q) \in Nat \ {0}
      /\ Len(Tail(q)) = Len(q) - 1
      /\ \A i \in 1..Len(q) - 1 : Tail(q)[i] = q[i + 1]
  BY HeadTailProperties, EmptySeq
<1>2. h \in Seq(S) /\ Len(h) = Len(d) + 1 /\ Len(d) \in Nat
      /\ \A i \in 1..Len(d) + 1 : h[i] = IF i <= Len(d) THEN d[i] ELSE Head(q)
  BY <1>1, AppendProperties, LenProperties
<1>3. l \in Seq(S) /\ r \in Seq(S)
  BY <1>1, <1>2, ConcatProperties
<1>4. Len(l) = Len(d) + Len(q) /\ Len(r) = Len(d) + Len(q)
  BY <1>1, <1>2, ConcatProperties
<1>5. ASSUME NEW i \in 1..Len(d) + Len(q)
      PROVE  l[i] = r[i]
  <2>1. l[i] = IF i <= Len(d) + 1 THEN h[i] ELSE Tail(q)[i - (Len(d) + 1)]
    BY <1>1, <1>2, ConcatProperties
  <2>2. r[i] = IF i <= Len(d) THEN d[i] ELSE q[i - Len(d)]
    BY ConcatProperties
  <2>3. CASE i <= Len(d) + 1
    BY <2>1, <2>2, <2>3, <1>1, <1>2
  <2>4. CASE i > Len(d) + 1
    <3>1. i - (Len(d) + 1) \in 1..Len(q) - 1
      BY <2>4, <1>1, <1>2
    <3>2. Tail(q)[i - (Len(d) + 1)] = q[i - (Len(d) + 1) + 1]
      BY <3>1, <1>1
    <3>3. i - (Len(d) + 1) + 1 = i - Len(d)
      BY <1>2
    <3> QED
      BY <3>2, <3>3, <2>1, <2>2, <2>4, <1>2
  <2> QED
    BY <2>3, <2>4, <1>2
<1>6. l = r
  BY <1>3, <1>4, <1>5, SeqEqual
<1>7. r[Len(d) + 1] = q[Len(d) + 1 - Len(d)]
  BY <1>1, <1>2, ConcatProperties
<1> QED
  BY <1>1, <1>2, <1>6, <1>7

-----------------------------------------------------------------------------
\* What one turn of push's loop reads and writes.
queueVars == <<queue, pushWaiters, popWaiters, pushState, popState,
               accepted, delivered>>

QueueTypes ==
  /\ queue \in Seq(Items)
  /\ pushWaiters \in Seq(Producers)
  /\ popWaiters \in Seq(Consumers)
  /\ pushState \in [Producers -> {"idle", "waiting", "woken"}]
  /\ popState \in [Consumers -> {"idle", "waiting", "ended"}]
  /\ accepted \in Seq(Items)
  /\ delivered \in Seq(Items)

(***************************************************************************)
(* Dropping the oldest parked consumer, and letting it go idle, leaves the *)
(* others parked once each.                                                *)
(***************************************************************************)
LEMMA UnparkOldest ==
  ASSUME TypeOK, ParkedOnce, popWaiters # <<>>,
         popState' = [popState EXCEPT ![Head(popWaiters)] = "idle"],
         popWaiters' = Tail(popWaiters)
  PROVE  /\ ParkedOnce'
         /\ popWaiters' \in Seq(Consumers)
         /\ popState' \in [Consumers -> {"idle", "waiting", "ended"}]
         /\ \A c \in Consumers : popState'[c] = "ended" <=> popState[c] = "ended"
<1>1. /\ popWaiters \in Seq(Consumers)
      /\ popState \in [Consumers -> {"idle", "waiting", "ended"}]
  BY DEF TypeOK
<1>2. /\ Head(popWaiters) \in Consumers /\ Head(popWaiters) = popWaiters[1]
      /\ popWaiters' \in Seq(Consumers)
      /\ Len(popWaiters) \in Nat \ {0}
      /\ Len(popWaiters') = Len(popWaiters) - 1
      /\ \A i \in 1..Len(popWaiters) - 1 : popWaiters'[i] = popWaiters[i + 1]
      /\ DOMAIN popWaiters = 1..Len(popWaiters)
      /\ DOMAIN popWaiters' = 1..Len(popWaiters) - 1
  <2>1. Head(popWaiters) \in Consumers /\ Tail(popWaiters) \in Seq(Consumers)
        /\ Len(Tail(popWaiters)) = Len(popWaiters) - 1
        /\ \A i \in 1..Len(Tail(popWaiters)) : Tail(popWaiters)[i] = popWaiters[i + 1]
    BY <1>1, HeadTailProperties
  <2>2. Len(popWaiters) \in Nat \ {0}
    BY <1>1, EmptySeq
  <2>3. DOMAIN Tail(popWaiters) = 1..Len(Tail(popWaiters))
        /\ DOMAIN popWaiters = 1..Len(popWaiters)
    BY <1>1, <2>1, LenProperties
  <2>4. Head(popWaiters) = popWaiters[1]
    BY <1>1
  <2> QED
    BY <2>1, <2>2, <2>3, <2>4
<1>3. popState[popWaiters[1]] = "waiting"
  BY <1>2 DEF ParkedOnce
<1>4. \A i \in DOMAIN popWaiters' : popState'[popWaiters'[i]] = "waiting"
  <2> SUFFICES ASSUME NEW i \in DOMAIN popWaiters'
               PROVE  popState'[popWaiters'[i]] = "waiting"
    OBVIOUS
  <2>1. i + 1 \in DOMAIN popWaiters /\ 1 \in DOMAIN popWaiters /\ i + 1 # 1
        /\ popWaiters'[i] = popWaiters[i + 1]
    BY <1>2
  <2>2. popWaiters[i + 1] # popWaiters[1] /\ popState[popWaiters[i + 1]] = "waiting"
    BY <2>1 DEF ParkedOnce
  <2>3. popWaiters[i + 1] \in Consumers
    BY <1>1, <1>2, <2>1, ElementOfSeq
  <2> QED
    BY <1>1, <1>2, <2>1, <2>2, <2>3
<1>5. \A i, j \in DOMAIN popWaiters' : popWaiters'[i] = popWaiters'[j] => i = j
  <2> SUFFICES ASSUME NEW i \in DOMAIN popWaiters', NEW j \in DOMAIN popWaiters',
                      popWaiters'[i] = popWaiters'[j]
               PROVE  i = j
    OBVIOUS
  <2>1. /\ i + 1 \in DOMAIN popWaiters /\ popWaiters'[i] = popWaiters[i + 1]
        /\ j + 1 \in DOMAIN popWaiters /\ popWaiters'[j] = popWaiters[j + 1]
    BY <1>2
  <2>2. i + 1 = j + 1
    BY <2>1 DEF ParkedOnce
  <2> QED
    BY <2>2, <1>2
<1> QED
  BY <1>1, <1>2, <1>3, <1>4, <1>5 DEF ParkedOnce

(***************************************************************************)
(* One turn of push's loop keeps the invariant's parts about the queue and *)
(* is, seen from the channel, Accept, HandOver or nothing.                 *)
(***************************************************************************)
LEMMA TryPushStep ==
  ASSUME IInv, NEW p \in Producers, NEW item \in Items, TryPush(p, item),
         UNCHANGED closed
  PROVE  /\ QueueTypes' /\ HistoryOK' /\ WaitersJustified' /\ ParkedOnce'
         /\ \A q \in Producers : q # p => pushState'[q] = pushState[q]
         /\ pushWaiters' \in {pushWaiters, Append(pushWaiters, p)}
         /\ Channel!Next \/ UNCHANGED Channel!vars
<1> DEFINE told(ps) == {c \in Consumers : ps[c] = "ended"}
<1>a. TypeOK /\ QueueTypes /\ HistoryOK /\ WaitersJustified /\ ParkedOnce
  BY DEF IInv, TypeOK, QueueTypes
<1>b. MaxSize \in Nat \ {0} /\ Len(queue) \in Nat /\ Len(delivered) \in Nat
  BY <1>a, QueueAssumption, LenProperties DEF QueueTypes
<1>c. Len(accepted) = Len(delivered) + Len(queue)
  BY <1>a, ConcatProperties DEF QueueTypes, HistoryOK
<1>1. CASE /\ closed
           /\ pushState' = [pushState EXCEPT ![p] = "idle"]
           /\ UNCHANGED <<queue, pushWaiters, popWaiters, popState, accepted, delivered>>
  <2>1. QueueTypes' /\ HistoryOK' /\ WaitersJustified' /\ ParkedOnce'
    BY <1>1, <1>a DEF QueueTypes, HistoryOK, WaitersJustified, ParkedOnce
  <2>2. UNCHANGED Channel!vars
    BY <1>1 DEF Channel!vars
  <2> QED
    BY <1>1, <2>1, <2>2, <1>a DEF QueueTypes
<1>2. CASE /\ ~closed
           /\ Len(queue) >= MaxSize
           /\ pushWaiters' = Append(pushWaiters, p)
           /\ pushState' = [pushState EXCEPT ![p] = "waiting"]
           /\ UNCHANGED <<queue, popWaiters, popState, accepted, delivered>>
  <2>1. Append(pushWaiters, p) \in Seq(Producers)
    BY <1>a, AppendProperties DEF QueueTypes
  <2>2. QueueTypes' /\ HistoryOK' /\ WaitersJustified' /\ ParkedOnce'
    BY <1>2, <1>a, <2>1 DEF QueueTypes, HistoryOK, WaitersJustified, ParkedOnce
  <2>3. UNCHANGED Channel!vars
    BY <1>2 DEF Channel!vars
  <2> QED
    BY <1>2, <2>2, <2>3, <1>a DEF QueueTypes
<1>3. CASE ~closed /\ Len(queue) < MaxSize /\ Enqueue(p, item) /\ popWaiters = <<>>
  <2>1. /\ accepted' = Append(accepted, item) /\ queue' = Append(queue, item)
        /\ pushState' = [pushState EXCEPT ![p] = "idle"]
        /\ UNCHANGED <<delivered, popState, popWaiters, pushWaiters>>
    BY <1>3 DEF Enqueue
  <2>2. /\ accepted' \in Seq(Items) /\ queue' \in Seq(Items)
        /\ Len(queue') = Len(queue) + 1
    BY <1>a, <2>1, AppendProperties DEF QueueTypes
  <2>3. accepted' = delivered' \o queue'
    <3>1. delivered \in Seq(Items) /\ queue \in Seq(Items) /\ item \in Items
      BY <1>a DEF QueueTypes
    <3>2. accepted = delivered \o queue
      BY <1>a DEF HistoryOK
    <3>3. queue' = queue \o <<item>> /\ <<item>> \in Seq(Items)
      BY <3>1, <2>1, AppendIsConcat
    <3>4. accepted' = (delivered \o queue) \o <<item>>
      BY <1>a, <3>1, <3>2, <2>1, AppendIsConcat DEF QueueTypes
    <3>5. (delivered \o queue) \o <<item>> = delivered \o (queue \o <<item>>)
      BY <3>1, <3>3, ConcatAssociative
    <3> QED
      BY <3>3, <3>4, <3>5, <2>1
  <2>4. QueueTypes' /\ HistoryOK' /\ WaitersJustified' /\ ParkedOnce'
    BY <1>3, <1>a, <1>b, <2>1, <2>2, <2>3
    DEF QueueTypes, HistoryOK, WaitersJustified, ParkedOnce
  <2>5. Channel!Accept(item)
    BY <1>3, <1>b, <1>c, <2>1 DEF Channel!Accept, Channel!InFlight
  <2> QED
    BY <2>1, <2>4, <2>5, <1>a DEF Channel!Next, QueueTypes
<1>4. CASE ~closed /\ Len(queue) < MaxSize /\ Enqueue(p, item) /\ popWaiters # <<>>
  <2>1. /\ accepted' = Append(accepted, item)
        /\ queue' = Tail(Append(queue, item))
        /\ delivered' = Append(delivered, Head(Append(queue, item)))
        /\ popState' = [popState EXCEPT ![Head(popWaiters)] = "idle"]
        /\ popWaiters' = Tail(popWaiters)
        /\ pushState' = [pushState EXCEPT ![p] = "idle"]
        /\ UNCHANGED pushWaiters
    BY <1>4 DEF Enqueue
  <2>2. queue = <<>>
    BY <1>4, <1>a DEF WaitersJustified
  <2>3. accepted = delivered /\ accepted \in Seq(Items)
    BY <1>a, <2>2, ConcatEmptySeq DEF QueueTypes, HistoryOK
  <2>4. Head(Append(queue, item)) = item /\ Tail(Append(queue, item)) = <<>>
    BY <2>2
  <2>5. /\ queue' = <<>> /\ queue' \in Seq(Items) /\ Len(queue') = 0
        /\ accepted' \in Seq(Items) /\ delivered' = accepted'
    BY <2>1, <2>3, <2>4, EmptySeq, AppendProperties
  <2>6. accepted' = delivered' \o queue'
    BY <2>5, ConcatEmptySeq
  <2>7. /\ ParkedOnce' /\ popWaiters' \in Seq(Consumers)
        /\ popState' \in [Consumers -> {"idle", "waiting", "ended"}]
        /\ \A c \in Consumers : popState'[c] = "ended" <=> popState[c] = "ended"
    BY <1>4, <1>a, <2>1, UnparkOldest
  <2>8. QueueTypes' /\ HistoryOK' /\ WaitersJustified'
    BY <1>4, <1>a, <1>b, <2>1, <2>5, <2>6, <2>7
    DEF QueueTypes, HistoryOK, WaitersJustified
  <2>9. told(popState') = told(popState)
    BY <2>7
  <2>10. Channel!HandOver(item)
    BY <1>4, <2>1, <2>3, <2>4, <2>9 DEF Channel!HandOver
  <2> QED
    BY <2>1, <2>7, <2>8, <2>10, <1>a DEF Channel!Next, QueueTypes
<1> QED
  BY <1>1, <1>2, <1>3, <1>4 DEF TryPush

-----------------------------------------------------------------------------
(***************************************************************************)
(* The actions, one by one: each keeps IInv and is a step of the channel   *)
(* or leaves it alone.                                                     *)
(***************************************************************************)
LEMMA StillStarted ==
  ASSUME NEW p \in Producers, pushWaiters \in Seq(Producers), PushStarted,
         pushWaiters' \in {pushWaiters, Append(pushWaiters, p)}, sent'[p] > 0,
         \A q \in Producers : q # p => pushState'[q] = pushState[q],
         \A q \in Producers : sent[q] > 0 => sent'[q] > 0
  PROVE  PushStarted'
<1>1. \A q \in Producers : pushState'[q] # "idle" => sent'[q] > 0
  BY DEF PushStarted
<1>2. \A i \in DOMAIN pushWaiters : pushWaiters[i] \in Producers
                                   /\ sent'[pushWaiters[i]] > 0
  BY ElementOfSeq, LenProperties DEF PushStarted
<1>3. ASSUME pushWaiters' = Append(pushWaiters, p), NEW i \in DOMAIN pushWaiters'
      PROVE  sent'[pushWaiters'[i]] > 0
  <2>1. /\ pushWaiters' \in Seq(Producers) /\ Len(pushWaiters') = Len(pushWaiters) + 1
        /\ \A k \in 1..Len(pushWaiters) + 1 :
             pushWaiters'[k] = IF k <= Len(pushWaiters) THEN pushWaiters[k] ELSE p
    BY <1>3, AppendProperties
  <2>2. i \in 1..Len(pushWaiters) + 1 /\ Len(pushWaiters) \in Nat
        /\ DOMAIN pushWaiters = 1..Len(pushWaiters)
    BY <2>1, <1>3, LenProperties
  <2>3. CASE i <= Len(pushWaiters)
    BY <2>1, <2>2, <2>3, <1>2
  <2>4. CASE i > Len(pushWaiters)
    BY <2>1, <2>2, <2>4
  <2> QED
    BY <2>2, <2>3, <2>4
<1> QED
  BY <1>1, <1>2, <1>3 DEF PushStarted

LEMMA PushCallStep ==
  ASSUME IInv, NEW p \in Producers, PushCall(p)
  PROVE  IInv' /\ (Channel!Next \/ UNCHANGED Channel!vars)
<1>1. /\ sent[p] < PushLimit /\ sent' = [sent EXCEPT ![p] = @ + 1]
      /\ TryPush(p, ItemOf(p, sent[p] + 1)) /\ UNCHANGED <<closed, behind>>
  BY DEF PushCall
<1>2. sent \in [Producers -> 0..PushLimit] /\ PushLimit \in Nat
  BY QueueAssumption DEF IInv, TypeOK
<1>3. ItemOf(p, sent[p] + 1) \in Items
  BY <1>1, <1>2 DEF ItemOf, Items
<1>4. /\ QueueTypes' /\ HistoryOK' /\ WaitersJustified' /\ ParkedOnce'
      /\ \A q \in Producers : q # p => pushState'[q] = pushState[q]
      /\ pushWaiters' \in {pushWaiters, Append(pushWaiters, p)}
      /\ Channel!Next \/ UNCHANGED Channel!vars
  BY <1>1, <1>3, TryPushStep
<1>5. sent' \in [Producers -> 0..PushLimit] /\ sent'[p] > 0
      /\ \A q \in Producers : q # p => sent'[q] = sent[q]
  BY <1>1, <1>2
<1>6. TypeOK'
  BY <1>1, <1>4, <1>5 DEF IInv, TypeOK, QueueTypes
<1>7. PushStarted'
  <2>1. \A q \in Producers : sent[q] > 0 => sent'[q] > 0
    BY <1>5
  <2> QED
    BY <1>4, <1>5, <2>1, StillStarted DEF IInv, TypeOK
<1> QED
  BY <1>4, <1>6, <1>7 DEF IInv

LEMMA PushResumeStep ==
  ASSUME IInv, NEW p \in Producers, PushResume(p)
  PROVE  IInv' /\ (Channel!Next \/ UNCHANGED Channel!vars)
<1>1. /\ pushState[p] = "woken" /\ TryPush(p, ItemOf(p, sent[p]))
      /\ behind' = [c \in Consumers |-> behind[c] \ {p}]
      /\ UNCHANGED <<closed, sent>>
  BY DEF PushResume
<1>2. sent \in [Producers -> 0..PushLimit] /\ PushLimit \in Nat /\ sent[p] > 0
  BY <1>1, QueueAssumption DEF IInv, TypeOK, PushStarted
<1>3. ItemOf(p, sent[p]) \in Items
  BY <1>2 DEF ItemOf, Items
<1>4. /\ QueueTypes' /\ HistoryOK' /\ WaitersJustified' /\ ParkedOnce'
      /\ \A q \in Producers : q # p => pushState'[q] = pushState[q]
      /\ pushWaiters' \in {pushWaiters, Append(pushWaiters, p)}
      /\ Channel!Next \/ UNCHANGED Channel!vars
  BY <1>1, <1>3, TryPushStep
<1>5. behind' \in [Consumers -> SUBSET Producers]
  BY <1>1 DEF IInv, TypeOK
<1>6. TypeOK'
  BY <1>1, <1>4, <1>5 DEF IInv, TypeOK, QueueTypes
<1>7. PushStarted'
  BY <1>1, <1>2, <1>4, StillStarted DEF IInv, TypeOK
<1> QED
  BY <1>4, <1>6, <1>7 DEF IInv

LEMMA PopTakeStep ==
  ASSUME IInv, NEW c \in Consumers, popState[c] = "idle", PopTake(c)
  PROVE  IInv' /\ Channel!Deliver
<1>1. /\ queue # <<>> /\ delivered' = Append(delivered, Head(queue))
      /\ queue' = Tail(queue)
      /\ UNCHANGED <<closed, popWaiters, popState, accepted, sent>>
  BY DEF PopTake
<1>2. /\ queue \in Seq(Items) /\ delivered \in Seq(Items)
      /\ accepted = delivered \o queue
  BY DEF IInv, TypeOK, HistoryOK
<1>3. /\ delivered' \in Seq(Items) /\ delivered' \o queue' = accepted
      /\ Head(queue) = accepted[Len(delivered) + 1]
  BY <1>1, <1>2, HeadSplit
<1>4. /\ queue' \in Seq(Items) /\ Len(queue) \in Nat \ {0}
      /\ Len(queue') = Len(queue) - 1
  BY <1>1, <1>2, HeadTailProperties, EmptySeq
<1>5. HistoryOK'
  BY <1>1, <1>3, <1>4, QueueAssumption DEF IInv, HistoryOK
<1>6. /\ pushState' \in [Producers -> {"idle", "waiting", "woken"}]
      /\ pushWaiters' \in Seq(Producers)
      /\ behind' \in [Consumers -> SUBSET Producers]
      /\ pushWaiters' # <<>> => pushWaiters # <<>>
  <2>1. CASE pushWaiters = <<>>
    BY <2>1 DEF PopTake, IInv, TypeOK
  <2>2. CASE pushWaiters # <<>>
    <3>1. Head(pushWaiters) \in Producers /\ Tail(pushWaiters) \in Seq(Producers)
      BY <2>2, HeadTailProperties DEF IInv, TypeOK
    <3>2. /\ pushState' = [pushState EXCEPT ![Head(pushWaiters)] = "woken"]
          /\ pushWaiters' = Tail(pushWaiters)
          /\ behind' = [behind EXCEPT ![c] = {Head(pushWaiters)}]
      BY <2>2 DEF PopTake
    <3>3. pushState' \in [Producers -> {"idle", "waiting", "woken"}]
      BY <3>1, <3>2 DEF IInv, TypeOK
    <3>4. behind' \in [Consumers -> SUBSET Producers]
      BY <3>1, <3>2 DEF IInv, TypeOK
    <3> QED
      BY <2>2, <3>1, <3>2, <3>3, <3>4
  <2> QED
    BY <2>1, <2>2
<1>7. TypeOK'
  BY <1>1, <1>3, <1>4, <1>6 DEF IInv, TypeOK
<1>8. WaitersJustified' /\ ParkedOnce'
  BY <1>1, <1>6 DEF IInv, WaitersJustified, ParkedOnce
<1>9. PushStarted'
  <2>1. CASE pushWaiters = <<>>
    BY <1>1, <2>1 DEF PopTake, IInv, PushStarted
  <2>2. CASE pushWaiters # <<>>
    \* The woken producer was parked, so it had started.
    <3>1. /\ pushWaiters \in Seq(Producers)
          /\ pushState \in [Producers -> {"idle", "waiting", "woken"}]
      BY DEF IInv, TypeOK
    <3>2. /\ pushState' = [pushState EXCEPT ![Head(pushWaiters)] = "woken"]
          /\ pushWaiters' = Tail(pushWaiters) /\ sent' = sent
      BY <1>1, <2>2 DEF PopTake
    <3>3. ASSUME NEW i \in DOMAIN pushWaiters'
          PROVE  i + 1 \in DOMAIN pushWaiters /\ pushWaiters'[i] = pushWaiters[i + 1]
      <4>1. Len(Tail(pushWaiters)) = Len(pushWaiters) - 1 /\ Len(pushWaiters) \in Nat
            /\ Tail(pushWaiters) \in Seq(Producers)
            /\ \A k \in 1..Len(Tail(pushWaiters)) : Tail(pushWaiters)[k] = pushWaiters[k + 1]
        BY <2>2, <3>1, HeadTailProperties, LenProperties
      <4>2. DOMAIN pushWaiters = 1..Len(pushWaiters)
            /\ DOMAIN Tail(pushWaiters) = 1..Len(Tail(pushWaiters))
        BY <3>1, <4>1, LenProperties
      <4> QED
        BY <3>2, <4>1, <4>2
    <3>4. 1 \in DOMAIN pushWaiters /\ Head(pushWaiters) = pushWaiters[1]
      BY <2>2, <3>1, EmptySeq, LenProperties
    <3>5. \A p \in Producers : pushState'[p] # "idle" => sent'[p] > 0
      BY <3>1, <3>2, <3>4 DEF IInv, PushStarted
    <3>6. \A i \in DOMAIN pushWaiters' : sent'[pushWaiters'[i]] > 0
      BY <3>2, <3>3 DEF IInv, PushStarted
    <3> QED
      BY <3>5, <3>6 DEF PushStarted
  <2> QED
    BY <2>1, <2>2
<1>10. Channel!Deliver
  <2>1. Len(accepted) = Len(delivered) + Len(queue)
    BY <1>2, ConcatProperties
  <2>2. Len(delivered) \in Nat
    BY <1>2, LenProperties
  <2> QED
    BY <1>1, <1>3, <1>4, <2>1, <2>2 DEF Channel!Deliver, Channel!InFlight
<1> QED
  BY <1>5, <1>7, <1>8, <1>9, <1>10 DEF IInv

LEMMA PopEndStep ==
  ASSUME IInv, NEW c \in Consumers, popState[c] = "idle", PopEnd(c)
  PROVE  IInv' /\ Channel!End(c)
<1>1. /\ queue = <<>> /\ closed
      /\ popState' = [popState EXCEPT ![c] = "ended"]
      /\ UNCHANGED <<queue, closed, pushWaiters, popWaiters, pushState, behind,
                     sent, accepted, delivered>>
  BY DEF PopEnd
<1>2. popState \in [Consumers -> {"idle", "waiting", "ended"}]
  BY DEF IInv, TypeOK
<1>3. TypeOK'
  BY <1>1, <1>2 DEF IInv, TypeOK
<1>4. popWaiters = <<>>
  BY <1>1 DEF IInv, WaitersJustified
<1>5. ParkedOnce'
  BY <1>1, <1>4 DEF ParkedOnce
<1>6. HistoryOK' /\ WaitersJustified' /\ PushStarted'
  BY <1>1 DEF IInv, HistoryOK, WaitersJustified, PushStarted
<1>7. delivered = accepted
  BY <1>1, ConcatEmptySeq DEF IInv, TypeOK, HistoryOK
<1>8. {d \in Consumers : popState'[d] = "ended"}
        = {d \in Consumers : popState[d] = "ended"} \union {c}
  BY <1>1, <1>2
<1> QED
  BY <1>1, <1>3, <1>5, <1>6, <1>7, <1>8 DEF IInv, Channel!End

LEMMA PopParkStep ==
  ASSUME IInv, NEW c \in Consumers, popState[c] = "idle", PopPark(c)
  PROVE  IInv' /\ UNCHANGED Channel!vars
<1>1. /\ queue = <<>> /\ ~closed
      /\ popWaiters' = Append(popWaiters, c)
      /\ popState' = [popState EXCEPT ![c] = "waiting"]
      /\ UNCHANGED <<queue, closed, pushWaiters, pushState, behind, sent,
                     accepted, delivered>>
  BY DEF PopPark
<1>2. /\ popState \in [Consumers -> {"idle", "waiting", "ended"}]
      /\ popWaiters \in Seq(Consumers)
  BY DEF IInv, TypeOK
<1>3. /\ popWaiters' \in Seq(Consumers) /\ Len(popWaiters) \in Nat
      /\ DOMAIN popWaiters = 1..Len(popWaiters)
      /\ DOMAIN popWaiters' = 1..Len(popWaiters) + 1
      /\ \A i \in 1..Len(popWaiters) + 1 :
           popWaiters'[i] = IF i <= Len(popWaiters) THEN popWaiters[i] ELSE c
  <2>1. /\ Append(popWaiters, c) \in Seq(Consumers)
        /\ Len(Append(popWaiters, c)) = Len(popWaiters) + 1
        /\ \A i \in 1..Len(popWaiters) + 1 :
             Append(popWaiters, c)[i] = IF i <= Len(popWaiters) THEN popWaiters[i] ELSE c
    BY <1>2, AppendProperties
  <2> QED
    BY <1>1, <1>2, <2>1, LenProperties
<1>4. TypeOK'
  BY <1>1, <1>2, <1>3 DEF IInv, TypeOK
<1>5. ASSUME NEW i \in DOMAIN popWaiters
      PROVE  popWaiters[i] \in Consumers /\ popWaiters[i] # c
             /\ popState'[popWaiters[i]] = "waiting"
  <2>1. popWaiters[i] \in Consumers
    BY <1>2, <1>3, ElementOfSeq
  <2>2. popState[popWaiters[i]] = "waiting"
    BY DEF IInv, ParkedOnce
  <2> QED
    BY <1>1, <1>2, <2>1, <2>2
<1>6. \A i \in DOMAIN popWaiters' : popState'[popWaiters'[i]] = "waiting"
  BY <1>1, <1>2, <1>3, <1>5
<1>7. \A i, j \in DOMAIN popWaiters' : popWaiters'[i] = popWaiters'[j] => i = j
  <2> SUFFICES ASSUME NEW i \in DOMAIN popWaiters', NEW j \in DOMAIN popWaiters',
                      popWaiters'[i] = popWaiters'[j]
               PROVE  i = j
    OBVIOUS
  <2>1. CASE i <= Len(popWaiters) /\ j <= Len(popWaiters)
    <3>1. i \in DOMAIN popWaiters /\ j \in DOMAIN popWaiters
          /\ popWaiters[i] = popWaiters[j]
      BY <1>3, <2>1
    <3> QED
      BY <3>1 DEF IInv, ParkedOnce
  <2>2. CASE i > Len(popWaiters) /\ j <= Len(popWaiters)
    BY <1>3, <1>5, <2>2
  <2>3. CASE i <= Len(popWaiters) /\ j > Len(popWaiters)
    BY <1>3, <1>5, <2>3
  <2>4. CASE i > Len(popWaiters) /\ j > Len(popWaiters)
    BY <1>3, <2>4
  <2> QED
    BY <1>3, <2>1, <2>2, <2>3, <2>4
<1>8. HistoryOK' /\ WaitersJustified' /\ PushStarted'
  BY <1>1 DEF IInv, HistoryOK, WaitersJustified, PushStarted
<1>9. {d \in Consumers : popState'[d] = "ended"}
        = {d \in Consumers : popState[d] = "ended"}
  BY <1>1, <1>2
<1> QED
  BY <1>1, <1>4, <1>6, <1>7, <1>8, <1>9 DEF IInv, ParkedOnce, Channel!vars

LEMMA CloseStep ==
  ASSUME IInv, Close
  PROVE  IInv' /\ Channel!Close
<1>1. /\ ~closed /\ closed' = TRUE
      /\ popState' = [c \in Consumers |->
                        IF c \in RangeOf(popWaiters) THEN "ended" ELSE popState[c]]
      /\ popWaiters' = <<>>
      /\ pushState' = [p \in Producers |->
                        IF p \in RangeOf(pushWaiters) THEN "woken" ELSE pushState[p]]
      /\ pushWaiters' = <<>>
      /\ UNCHANGED <<queue, behind, sent, accepted, delivered>>
  BY DEF Close
<1>2. TypeOK'
  <2>1. popState' \in [Consumers -> {"idle", "waiting", "ended"}]
    BY <1>1 DEF IInv, TypeOK
  <2>2. pushState' \in [Producers -> {"idle", "waiting", "woken"}]
    BY <1>1 DEF IInv, TypeOK
  <2> QED
    BY <1>1, <2>1, <2>2, EmptySeq DEF IInv, TypeOK
<1>3. HistoryOK' /\ WaitersJustified' /\ ParkedOnce'
  BY <1>1 DEF IInv, HistoryOK, WaitersJustified, ParkedOnce
<1>4. PushStarted'
  <2>1. \A p \in RangeOf(pushWaiters) : sent[p] > 0
    BY DEF IInv, PushStarted, RangeOf
  <2> QED
    BY <1>1, <2>1 DEF IInv, PushStarted
<1>5. \E told \in SUBSET Consumers :
         /\ told # {} => delivered = accepted
         /\ {d \in Consumers : popState'[d] = "ended"}
              = {d \in Consumers : popState[d] = "ended"} \union told
  <2>1. RangeOf(popWaiters) \in SUBSET Consumers
    BY ElementOfSeq, LenProperties DEF IInv, TypeOK, RangeOf
  <2>2. RangeOf(popWaiters) # {} => delivered = accepted
    <3>1. RangeOf(popWaiters) # {} => queue = <<>>
      BY DEF IInv, WaitersJustified, RangeOf
    <3>2. queue = <<>> => delivered = accepted
      BY ConcatEmptySeq DEF IInv, TypeOK, HistoryOK
    <3> QED
      BY <3>1, <3>2
  <2>3. {d \in Consumers : popState'[d] = "ended"}
          = {d \in Consumers : popState[d] = "ended"} \union RangeOf(popWaiters)
    BY <1>1, <2>1
  <2> WITNESS RangeOf(popWaiters) \in SUBSET Consumers
  <2> QED
    BY <2>2, <2>3
<1> QED
  BY <1>1, <1>2, <1>3, <1>4, <1>5 DEF IInv, Channel!Close

-----------------------------------------------------------------------------
LEMMA InitOK == Init => IInv /\ Channel!Init
<1> SUFFICES ASSUME Init PROVE IInv /\ Channel!Init
  OBVIOUS
<1>1. TypeOK
  <2>1. /\ pushState \in [Producers -> {"idle", "waiting", "woken"}]
        /\ popState \in [Consumers -> {"idle", "waiting", "ended"}]
        /\ behind \in [Consumers -> SUBSET Producers]
    BY DEF Init
  <2>2. sent \in [Producers -> 0..PushLimit]
    <3>1. 0 \in 0..PushLimit
      BY QueueAssumption
    <3> QED
      BY <3>1 DEF Init
  <2>3. /\ queue \in Seq(Items) /\ accepted \in Seq(Items) /\ delivered \in Seq(Items)
        /\ pushWaiters \in Seq(Producers) /\ popWaiters \in Seq(Consumers)
    BY EmptySeq DEF Init
  <2> QED
    BY <2>1, <2>2, <2>3 DEF Init, TypeOK
<1>2. HistoryOK
  BY QueueAssumption, EmptySeq, ConcatEmptySeq DEF Init, HistoryOK
<1>3. WaitersJustified /\ ParkedOnce /\ PushStarted
  BY DEF Init, WaitersJustified, ParkedOnce, PushStarted
<1>4. Channel!Init
  BY DEF Init, Channel!Init
<1> QED
  BY <1>1, <1>2, <1>3, <1>4 DEF IInv

LEMMA StepOK ==
  ASSUME IInv, [Next]_vars
  PROVE  IInv' /\ [Channel!Next]_Channel!vars
<1>1. CASE \E p \in Producers : PushCall(p) \/ PushResume(p)
  BY <1>1, PushCallStep, PushResumeStep
<1>2. ASSUME NEW c \in Consumers, PopCall(c)
      PROVE  IInv' /\ [Channel!Next]_Channel!vars
  <2>1. CASE PopTake(c)
    BY <1>2, <2>1, PopTakeStep DEF PopCall, Channel!Next
  <2>2. CASE PopEnd(c)
    BY <1>2, <2>2, PopEndStep DEF PopCall, Channel!Next
  <2>3. CASE PopPark(c)
    BY <1>2, <2>3, PopParkStep DEF PopCall
  <2> QED
    BY <1>2, <2>1, <2>2, <2>3 DEF PopCall
<1>3. CASE Close
  BY <1>3, CloseStep DEF Channel!Next
<1>4. CASE Finished \/ UNCHANGED vars
  <2>1. UNCHANGED <<queue, closed, pushWaiters, popWaiters, pushState, popState,
                    behind, sent, accepted, delivered>>
    BY <1>4 DEF Finished, vars
  <2>2. TypeOK'
    BY <2>1 DEF IInv, TypeOK
  <2>3. HistoryOK' /\ WaitersJustified'
    BY <2>1 DEF IInv, HistoryOK, WaitersJustified
  <2>4. ParkedOnce' /\ PushStarted'
    BY <2>1 DEF IInv, ParkedOnce, PushStarted
  <2> QED
    BY <2>1, <2>2, <2>3, <2>4 DEF IInv, Channel!vars
<1> QED
  BY <1>1, <1>2, <1>3, <1>4 DEF Next

(***************************************************************************)
(* Type correctness, for any constants.                                    *)
(***************************************************************************)
THEOREM QueueTypeCorrect == Spec => []TypeOK
<1>1. IInv => TypeOK
  BY DEF IInv
<1> QED
  BY <1>1, InitOK, StepOK, PTL DEF Spec

(***************************************************************************)
(* No producer is parked on a closed queue, and no consumer is parked      *)
(* while there is an item for it or after the end: for any number of       *)
(* producers and consumers.                                                *)
(***************************************************************************)
THEOREM QueueWaitersJustified == Spec => []WaitersJustified
<1>1. IInv => WaitersJustified
  BY DEF IInv
<1> QED
  BY <1>1, InitOK, StepOK, PTL DEF Spec

(***************************************************************************)
(* The queue implements the channel: nothing is lost, duplicated,          *)
(* reordered or taken after close, whatever the interleaving.              *)
(***************************************************************************)
THEOREM QueueImplementsChannel == Spec => ImplementsChannel
<1>1. Spec => Channel!Init /\ [][Channel!Next]_Channel!vars
  BY InitOK, StepOK, PTL DEF Spec
<1> QED
  BY <1>1 DEF ImplementsChannel, Channel!Spec

-----------------------------------------------------------------------------
(***************************************************************************)
(* Each queue of the pipeline has one producer. Then at most one push is   *)
(* parked, and it is parked only on a full queue: the producer cannot push *)
(* while it waits, and the pop that makes room wakes it.                   *)
(***************************************************************************)
OneProducer == \A p, q \in Producers : p = q

Solo ==
  /\ pushWaiters # <<>> => Len(pushWaiters) = 1 /\ Len(queue) = MaxSize
  /\ pushWaiters # <<>> => \A p \in Producers : pushState[p] = "waiting"

SoloInv == IInv /\ Solo

LEMMA SoloPush ==
  ASSUME OneProducer, SoloInv, NEW p \in Producers, NEW item,
         pushState[p] # "waiting", TryPush(p, item)
  PROVE  Solo'
<1>1. /\ pushWaiters = <<>> /\ Len(queue) <= MaxSize
      /\ pushState \in [Producers -> {"idle", "waiting", "woken"}]
      /\ queue \in Seq(Items)
  BY DEF SoloInv, Solo, IInv, HistoryOK, TypeOK
<1>2. CASE pushWaiters' = pushWaiters
  BY <1>1, <1>2 DEF Solo
<1>3. CASE /\ Len(queue) >= MaxSize
           /\ pushWaiters' = Append(pushWaiters, p)
           /\ pushState' = [pushState EXCEPT ![p] = "waiting"]
           /\ UNCHANGED queue
  <2>1. Len(pushWaiters') = 1
    BY <1>1, <1>3
  <2>2. Len(queue') = MaxSize
    BY <1>1, <1>3, QueueAssumption, LenProperties
  <2>3. \A q \in Producers : pushState'[q] = "waiting"
    BY <1>1, <1>3 DEF OneProducer
  <2> QED
    BY <2>1, <2>2, <2>3 DEF Solo
<1> QED
  BY <1>2, <1>3 DEF TryPush, Enqueue

LEMMA SoloStep ==
  ASSUME OneProducer, SoloInv, [Next]_vars
  PROVE  Solo'
<1>1. ASSUME NEW p \in Producers, PushCall(p) \/ PushResume(p)
      PROVE  Solo'
  <2>1. CASE PushCall(p)
    BY <2>1, SoloPush DEF PushCall
  <2>2. CASE PushResume(p)
    BY <2>2, SoloPush DEF PushResume
  <2> QED
    BY <1>1, <2>1, <2>2
<1>2. ASSUME NEW c \in Consumers, PopCall(c)
      PROVE  Solo'
  <2>1. CASE PopTake(c) /\ pushWaiters # <<>>
    <3>1. pushWaiters' = Tail(pushWaiters) /\ Len(pushWaiters) = 1
          /\ pushWaiters \in Seq(Producers)
      BY <2>1 DEF PopTake, SoloInv, Solo, IInv, TypeOK
    <3>2. pushWaiters' \in Seq(Producers) /\ Len(pushWaiters') = 0
      BY <2>1, <3>1, HeadTailProperties
    <3>3. pushWaiters' = <<>>
      BY <3>2, EmptySeq
    <3> QED
      BY <3>3 DEF Solo
  <2>2. CASE PopTake(c) /\ pushWaiters = <<>>
    BY <2>2 DEF PopTake, Solo
  <2>3. CASE PopEnd(c)
    BY <2>3 DEF PopEnd, SoloInv, Solo
  <2>4. CASE PopPark(c)
    BY <2>4 DEF PopPark, SoloInv, Solo
  <2> QED
    BY <1>2, <2>1, <2>2, <2>3, <2>4 DEF PopCall
<1>3. CASE Close
  BY <1>3 DEF Close, Solo
<1>4. CASE Finished \/ UNCHANGED vars
  BY <1>4 DEF Finished, vars, SoloInv, Solo
<1> QED
  BY <1>1, <1>2, <1>3, <1>4 DEF Next

(***************************************************************************)
(* With one producer, which is how the pipeline uses the queue, no push is *)
(* left parked while the queue has room. With two producers it is: see the *)
(* run async_queue_many.                                                   *)
(***************************************************************************)
THEOREM OneProducerNotStranded ==
  ASSUME OneProducer
  PROVE  Spec => []NoStrandedProducer
<1>1. Init => SoloInv
  BY InitOK DEF Init, SoloInv, Solo
<1>2. SoloInv /\ [Next]_vars => SoloInv'
  BY StepOK, SoloStep DEF SoloInv
<1>3. SoloInv => NoStrandedProducer
  BY DEF SoloInv, Solo, NoStrandedProducer
<1> QED
  BY <1>1, <1>2, <1>3, PTL DEF Spec

=============================================================================
