----------------------------- MODULE QueueProofs -----------------------------
(***************************************************************************)
(* Facts about the operations of Queue that the proofs of every module     *)
(* with a queue rest on.                                                   *)
(***************************************************************************)
EXTENDS Queue, TLAPS

USE QueueAssumption

(***************************************************************************)
(* A receive keeps the messages typed and answers with deliveries.         *)
(***************************************************************************)
LEMMA GetMessagesKeepsType ==
    ASSUME QueueTypeOK, NEW msgs \in SUBSET Msgs, GetMessages(msgs)
    PROVE  QueueTypeOK' /\ DeliveriesOf(msgs) \subseteq Delivery
<1>1. ASSUME NEW m \in msgs
      PROVE  queue[m].receives + 1 \in 1..MaxReceives
  <2>1. queue[m] \in Message /\ queue[m].receives < MaxReceives
    BY DEF QueueTypeOK, GetMessages, Receivable
  <2>2. QED
    BY <2>1 DEF Message
<1>2. ASSUME NEW m \in msgs
      PROVE  [queue[m] EXCEPT !.state = "inflight", !.receives = @ + 1] \in Message
  <2>1. ASSUME NEW r \in Message, NEW n \in 0..MaxReceives
        PROVE  [r EXCEPT !.state = "inflight", !.receives = n] \in Message
    BY <2>1 DEF Message
  <2>2. queue[m] \in Message /\ queue[m].receives + 1 \in 0..MaxReceives
    BY <1>1 DEF QueueTypeOK
  <2>3. QED
    BY <2>1, <2>2
<1>3. QueueTypeOK'
  BY <1>2 DEF QueueTypeOK, GetMessages
<1>4. DeliveriesOf(msgs) \subseteq Delivery
  BY <1>1 DEF DeliveriesOf, Delivery
<1>5. QED
  BY <1>3, <1>4

(***************************************************************************)
(* It gives every message it returns a count above all that were given     *)
(* before, and leaves the counts of the others.                            *)
(***************************************************************************)
LEMMA GetMessagesCounts ==
    ASSUME QueueTypeOK, NEW msgs \in SUBSET Msgs, GetMessages(msgs)
    PROVE  /\ \A m \in Msgs : queue'[m].receives >= queue[m].receives
           /\ \A d \in DeliveriesOf(msgs) :
                 /\ d.count = queue'[d.msg].receives
                 /\ d.count > queue[d.msg].receives
<1>1. \A m \in Msgs : queue[m] \in Message /\ queue[m].receives \in Nat
  BY DEF QueueTypeOK, Message
<1>2. \A m \in msgs : queue'[m].receives = queue[m].receives + 1
  BY <1>1 DEF GetMessages, Message
<1>3. \A m \in Msgs \ msgs : queue'[m] = queue[m]
  BY DEF GetMessages
<1>4. \A d \in DeliveriesOf(msgs) : d.msg \in msgs /\ d.count = queue[d.msg].receives + 1
  BY DEF DeliveriesOf
<1> QED BY <1>1, <1>2, <1>3, <1>4

(***************************************************************************)
(* A delete and the end of a visibility timeout touch no count.            *)
(***************************************************************************)
LEMMA StateMoves ==
    ASSUME QueueTypeOK,
           (\E d \in Delivery : DeleteMessage(d)) \/ (\E m \in Msgs : BecomeVisible(m))
    PROVE  QueueTypeOK' /\ \A m \in Msgs : queue'[m].receives = queue[m].receives
<1>1. PICK m \in Msgs : \E s \in {"deleted", "visible"} : queue' = [queue EXCEPT ![m].state = s]
  BY DEF DeleteMessage, BecomeVisible, Delivery
<1> QED BY <1>1 DEF QueueTypeOK, Message
=============================================================================
