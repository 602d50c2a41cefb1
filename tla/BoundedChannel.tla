--------------------------- MODULE BoundedChannel ---------------------------
(***************************************************************************)
(* What a bounded queue between pipeline stages promises its clients,      *)
(* without saying how anyone waits: items come out once each, in the order *)
(* they went in, at most MaxSize of them are in flight, nothing is         *)
(* accepted after the channel is closed, and a consumer is told that the   *)
(* channel has ended only when nothing is left for it.                     *)
(***************************************************************************)
EXTENDS Naturals, Sequences

CONSTANTS
  Items,      \* what may be pushed
  Consumers,  \* who may be told that the channel has ended
  MaxSize     \* items in flight, at most

VARIABLES
  accepted,   \* every item the channel has taken, oldest first
  delivered,  \* every item it has handed out, oldest first
  closed,     \* close() has been called
  ended       \* the consumers that have been told the channel is over

vars == <<accepted, delivered, closed, ended>>

InFlight == Len(accepted) - Len(delivered)

Init ==
  /\ accepted = <<>>
  /\ delivered = <<>>
  /\ closed = FALSE
  /\ ended = {}

Accept(i) ==
  /\ ~closed
  /\ InFlight < MaxSize
  /\ accepted' = Append(accepted, i)
  /\ UNCHANGED <<delivered, closed, ended>>

Deliver ==
  /\ InFlight > 0
  /\ delivered' = Append(delivered, accepted[Len(delivered) + 1])
  /\ UNCHANGED <<accepted, closed, ended>>

(***************************************************************************)
(* An item goes straight to a consumer that was already waiting for it.    *)
(***************************************************************************)
HandOver(i) ==
  /\ ~closed
  /\ delivered = accepted
  /\ accepted' = Append(accepted, i)
  /\ delivered' = Append(delivered, i)
  /\ UNCHANGED <<closed, ended>>

(***************************************************************************)
(* Closing tells the consumers that wait, and there are such consumers     *)
(* only when everything has been delivered.                                *)
(***************************************************************************)
Close ==
  /\ ~closed
  /\ closed' = TRUE
  /\ \E told \in SUBSET Consumers :
       /\ told # {} => delivered = accepted
       /\ ended' = ended \union told
  /\ UNCHANGED <<accepted, delivered>>

End(c) ==
  /\ closed
  /\ delivered = accepted
  /\ ended' = ended \union {c}
  /\ UNCHANGED <<accepted, delivered, closed>>

Next ==
  \/ \E i \in Items : Accept(i) \/ HandOver(i)
  \/ Deliver
  \/ Close
  \/ \E c \in Consumers : End(c)

Spec == Init /\ [][Next]_vars

=============================================================================
