----------------------------- MODULE AsyncQueue -----------------------------
(***************************************************************************)
(* packages/podkit-core/src/utils/async-queue.ts: the bounded queue that   *)
(* synchronises the stages of the music pipeline.                          *)
(*                                                                         *)
(* JavaScript runs one synchronous stretch of code at a time, so every     *)
(* action is such a stretch: a push up to the await inside its loop, the   *)
(* continuation of a push that was woken, a whole pop, a whole close.      *)
(* Resolving a waiter's promise only schedules its continuation, and other *)
(* stretches may run first: a woken push is "woken" until it resumes. The  *)
(* one order the event loop guarantees is kept: a pop that wakes a push    *)
(* schedules that push before its own return, so its caller comes second.  *)
(*                                                                         *)
(* A producer is a caller that awaits each push before the next one; a     *)
(* consumer is a caller that iterates until it is told that the queue has  *)
(* ended. accepted and delivered are history variables.                    *)
(***************************************************************************)
EXTENDS Naturals, Sequences

CONSTANTS
  Producers,
  Consumers,
  MaxSize,    \* the constructor's maxSize
  PushLimit   \* bound: how many items each producer pushes

ASSUME QueueAssumption ==
  /\ MaxSize \in Nat \ {0}      \* the constructor throws if maxSize < 1
  /\ PushLimit \in Nat

VARIABLES
  queue,        \* items held, oldest first
  closed,
  pushWaiters,  \* producers parked on a full queue, oldest first
  popWaiters,   \* consumers parked on an empty queue, oldest first
  pushState,    \* where each producer is
  popState,     \* where each consumer is
  behind,       \* the woken producers whose turn comes before a consumer's
  sent,         \* how many pushes each producer has started
  accepted,     \* history: every item put in the queue, in order
  delivered     \* history: every item a consumer got, in order

vars == <<queue, closed, pushWaiters, popWaiters, pushState, popState,
          behind, sent, accepted, delivered>>

\* One producer's items are told apart by their number.
Items == Producers \X (1..PushLimit)

\* The item producer p is pushing, once it has started push number sent[p].
ItemOf(p, n) == <<p, n>>

Init ==
  /\ queue = <<>>
  /\ closed = FALSE
  /\ pushWaiters = <<>>
  /\ popWaiters = <<>>
  /\ pushState = [p \in Producers |-> "idle"]
  /\ popState = [c \in Consumers |-> "idle"]
  /\ behind = [c \in Consumers |-> {}]
  /\ sent = [p \in Producers |-> 0]
  /\ accepted = <<>>
  /\ delivered = <<>>

-----------------------------------------------------------------------------
(***************************************************************************)
(* push: the queue takes the item and, if a consumer is parked, hands it   *)
(* the oldest item at once. That removal wakes no parked producer.         *)
(***************************************************************************)
Enqueue(p, item) ==
  LET filled == Append(queue, item)
  IN  /\ accepted' = Append(accepted, item)
      /\ IF popWaiters # <<>>
           THEN /\ queue' = Tail(filled)
                /\ delivered' = Append(delivered, Head(filled))
                /\ popState' = [popState EXCEPT ![Head(popWaiters)] = "idle"]
                /\ popWaiters' = Tail(popWaiters)
           ELSE /\ queue' = filled
                /\ UNCHANGED <<delivered, popState, popWaiters>>
      /\ pushState' = [pushState EXCEPT ![p] = "idle"]
      /\ UNCHANGED pushWaiters

\* Faulty TryPush: the comparison with maxSize is off by one.
TryPushOneTooMany(p, item) ==
  \/ /\ closed
     /\ pushState' = [pushState EXCEPT ![p] = "idle"]
     /\ UNCHANGED <<queue, pushWaiters, popWaiters, popState, accepted, delivered>>
  \/ /\ ~closed
     /\ Len(queue) > MaxSize
     /\ pushWaiters' = Append(pushWaiters, p)
     /\ pushState' = [pushState EXCEPT ![p] = "waiting"]
     /\ UNCHANGED <<queue, popWaiters, popState, accepted, delivered>>
  \/ /\ ~closed
     /\ Len(queue) <= MaxSize
     /\ Enqueue(p, item)

(***************************************************************************)
(* One turn of push's loop. The first turn and every later one test the    *)
(* same two things in the same order: closed (throw), full (park).         *)
(***************************************************************************)
TryPush(p, item) ==
  \/ /\ closed
     /\ pushState' = [pushState EXCEPT ![p] = "idle"]     \* throws
     /\ UNCHANGED <<queue, pushWaiters, popWaiters, popState, accepted, delivered>>
  \/ /\ ~closed
     /\ Len(queue) >= MaxSize
     /\ pushWaiters' = Append(pushWaiters, p)
     /\ pushState' = [pushState EXCEPT ![p] = "waiting"]
     /\ UNCHANGED <<queue, popWaiters, popState, accepted, delivered>>
  \/ /\ ~closed
     /\ Len(queue) < MaxSize
     /\ Enqueue(p, item)

PushCall(p) ==
  /\ pushState[p] = "idle"
  /\ sent[p] < PushLimit
  /\ sent' = [sent EXCEPT ![p] = @ + 1]
  /\ TryPush(p, ItemOf(p, sent[p] + 1))
  /\ UNCHANGED <<closed, behind>>

\* Faulty PushResume: the woken push goes on with a new item.
PushResumeNext(p) ==
  /\ pushState[p] = "woken"
  /\ sent' = [sent EXCEPT ![p] = @ + 1]
  /\ TryPush(p, ItemOf(p, sent[p] + 1))
  /\ behind' = [c \in Consumers |-> behind[c] \ {p}]
  /\ UNCHANGED closed

PushResume(p) ==
  /\ pushState[p] = "woken"
  /\ TryPush(p, ItemOf(p, sent[p]))
  /\ behind' = [c \in Consumers |-> behind[c] \ {p}]
  /\ UNCHANGED <<closed, sent>>

-----------------------------------------------------------------------------

\* Faulty PopTake: it wakes nobody.
PopTakeSilently(c) ==
  /\ queue # <<>>
  /\ delivered' = Append(delivered, Head(queue))
  /\ queue' = Tail(queue)
  /\ UNCHANGED <<closed, pushWaiters, popWaiters, pushState, popState, behind, accepted, sent>>

(***************************************************************************)
(* pop: take the oldest item and wake one parked producer, or report the   *)
(* end, or park.                                                           *)
(***************************************************************************)
PopTake(c) ==
  /\ queue # <<>>
  /\ delivered' = Append(delivered, Head(queue))
  /\ queue' = Tail(queue)
  /\ IF pushWaiters # <<>>
       THEN /\ pushState' = [pushState EXCEPT ![Head(pushWaiters)] = "woken"]
            /\ pushWaiters' = Tail(pushWaiters)
            /\ behind' = [behind EXCEPT ![c] = {Head(pushWaiters)}]
       ELSE UNCHANGED <<pushState, pushWaiters, behind>>
  /\ UNCHANGED <<closed, popWaiters, popState, accepted, sent>>

PopEnd(c) ==
  /\ queue = <<>>
  /\ closed
  /\ popState' = [popState EXCEPT ![c] = "ended"]
  /\ UNCHANGED <<queue, closed, pushWaiters, popWaiters, pushState, behind, sent, accepted, delivered>>

PopPark(c) ==
  /\ queue = <<>>
  /\ ~closed
  /\ popWaiters' = Append(popWaiters, c)
  /\ popState' = [popState EXCEPT ![c] = "waiting"]
  /\ UNCHANGED <<queue, closed, pushWaiters, pushState, behind, sent, accepted, delivered>>

PopCall(c) ==
  /\ popState[c] = "idle"
  /\ behind[c] = {}
  /\ PopTake(c) \/ PopEnd(c) \/ PopPark(c)

-----------------------------------------------------------------------------
RangeOf(s) == {s[k] : k \in DOMAIN s}

\* Faulty Close: parked consumers are forgotten.
CloseForConsumersLater ==
  /\ ~closed
  /\ closed' = TRUE
  /\ pushState' = [p \in Producers |->
                    IF p \in RangeOf(pushWaiters) THEN "woken" ELSE pushState[p]]
  /\ pushWaiters' = <<>>
  /\ UNCHANGED <<queue, popWaiters, popState, behind, sent, accepted, delivered>>

(***************************************************************************)
(* close: parked consumers get undefined, parked producers wake up (and    *)
(* will throw when they resume).                                           *)
(***************************************************************************)
Close ==
  /\ ~closed
  /\ closed' = TRUE
  /\ popState' = [c \in Consumers |->
                    IF c \in RangeOf(popWaiters) THEN "ended" ELSE popState[c]]
  /\ popWaiters' = <<>>
  /\ pushState' = [p \in Producers |->
                    IF p \in RangeOf(pushWaiters) THEN "woken" ELSE pushState[p]]
  /\ pushWaiters' = <<>>
  /\ UNCHANGED <<queue, behind, sent, accepted, delivered>>

\* Everyone is through: the system rests.
Finished ==
  /\ \A p \in Producers : pushState[p] = "idle" /\ sent[p] = PushLimit
  /\ \A c \in Consumers : popState[c] = "ended"
  /\ UNCHANGED vars

Next ==
  \/ \E p \in Producers : PushCall(p) \/ PushResume(p)
  \/ \E c \in Consumers : PopCall(c)
  \/ Close
  \/ Finished

Spec == Init /\ [][Next]_vars

(***************************************************************************)
(* The event loop runs every continuation that has been scheduled, and a   *)
(* consumer that iterates calls pop again after each item. Nobody has to   *)
(* push, and nobody has to close.                                          *)
(***************************************************************************)
Fairness ==
  /\ \A p \in Producers : WF_vars(PushResume(p))
  /\ \A c \in Consumers : WF_vars(PopCall(c))

FairSpec == Spec /\ Fairness

-----------------------------------------------------------------------------
(***************************************************************************)
(* The type invariant: the fields of the class, the places of its callers  *)
(* and the histories hold what they may hold, and nobody pushes more than  *)
(* the bound.                                                              *)
(***************************************************************************)
TypeOK ==
  /\ queue \in Seq(Items)
  /\ closed \in BOOLEAN
  /\ pushWaiters \in Seq(Producers)
  /\ popWaiters \in Seq(Consumers)
  /\ pushState \in [Producers -> {"idle", "waiting", "woken"}]
  /\ popState \in [Consumers -> {"idle", "waiting", "ended"}]
  /\ behind \in [Consumers -> SUBSET Producers]
  /\ sent \in [Producers -> 0..PushLimit]
  /\ accepted \in Seq(Items)
  /\ delivered \in Seq(Items)

(***************************************************************************)
(* The queue implements the channel: whatever producers, consumers and     *)
(* close() do and in whatever order their continuations run, no item is    *)
(* lost, duplicated, reordered or taken after close, at most MaxSize are   *)
(* held, and a consumer hears the end only when nothing is left.           *)
(***************************************************************************)
Channel == INSTANCE BoundedChannel
             WITH ended <- {c \in Consumers : popState[c] = "ended"}

ImplementsChannel == Channel!Spec

(***************************************************************************)
(* Nobody stays parked on a closed queue, and a consumer is parked only    *)
(* while there is nothing to give it: neither pop's early return nor the   *)
(* two ways a parked pop is resolved (push, close) may leave one behind.   *)
(***************************************************************************)
WaitersJustified ==
  /\ pushWaiters # <<>> => ~closed
  /\ popWaiters # <<>> => ~closed /\ queue = <<>>

(***************************************************************************)
(* "Push an item to the queue. Blocks if the queue is full"                *)
(* (async-queue.ts:20): while a push is parked the queue is full, or a     *)
(* push that was woken for the free place has not resumed yet.             *)
(***************************************************************************)
NoStrandedProducer ==
  pushWaiters # <<>> =>
    \/ Len(queue) = MaxSize
    \/ \E p \in Producers : pushState[p] = "woken"

(***************************************************************************)
(* Nobody waits in vain. A parked push returns or throws: the consumers'   *)
(* pops, or close, wake it and it is not parked again for ever. After      *)
(* close() every consumer that keeps iterating gets what is left and then  *)
(* hears the end.                                                          *)
(***************************************************************************)
WaitsEnd ==
  /\ \A p \in Producers : pushState[p] = "waiting" ~> pushState[p] = "idle"
  /\ \A c \in Consumers : closed ~> popState[c] = "ended"

=============================================================================
