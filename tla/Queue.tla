-------------------------------- MODULE Queue --------------------------------
(***************************************************************************)
(* The task queue: Amazon SQS (or ElasticMQ) as internal/queue/sqs.go uses *)
(* it.  The service itself is external: it is at-least-once, gives a       *)
(* received message a receive count and a receipt, hides it until its      *)
(* visibility timeout ends or it is deleted, and promises no order.        *)
(*                                                                         *)
(* A delivery is what ReceiveMessage returns for a message: which message, *)
(* and its ApproximateReceiveCount at that receive.  The count also tells  *)
(* one receipt handle of a message from another.                           *)
(***************************************************************************)
EXTENDS Naturals, FiniteSets

CONSTANTS
    Payloads,            \* the values a sender may encode as a message body
    Msgs,                \* the messages that can ever be in the queue
    ForeignMsgs,         \* those of them that the API server did not send
    MaxMessageAttempts,  \* SQSParams.MaxMessageAttempts
    Debug,               \* Config.Debug: no limit on receives
    MaxReceives,         \* bound of the model: receives of one message
    Undecodable          \* the body of a message that does not decode

ASSUME QueueAssumption ==
    /\ IsFiniteSet(Msgs) /\ ForeignMsgs \subseteq Msgs
    /\ MaxMessageAttempts \in Nat
    /\ MaxReceives \in Nat
    /\ Debug \in BOOLEAN
    /\ Undecodable \notin Payloads

VARIABLE queue    \* every message that was ever sent, deleted ones included

Bodies == Payloads \cup {Undecodable}

Message == [state    : {"none", "visible", "inflight", "deleted"},
            body     : Bodies,
            receives : 0..MaxReceives]

Unsent == [state |-> "none", body |-> Undecodable, receives |-> 0]

Delivery == [msg : Msgs, count : 1..MaxReceives]

IsSent(m) == queue[m].state # "none"

BodyOf(d) == queue[d.msg].body

QueueTypeOK == queue \in [Msgs -> Message]

QueueInit == queue = [m \in Msgs |-> Unsent]

-----------------------------------------------------------------------------

(***************************************************************************)
(* SendMessage(body) adds one message.  When the SDK repeats a request     *)
(* whose answer it lost, it adds more than one: copies is the set of       *)
(* messages the call created.                                              *)
(***************************************************************************)
SendMessage(body, copies) ==
    /\ \A m \in copies : ~IsSent(m)
    /\ queue' = [m \in Msgs |->
                    IF m \in copies
                    THEN [state |-> "visible", body |-> body, receives |-> 0]
                    ELSE queue[m]]

(***************************************************************************)
(* ReceiveMessage takes the visible messages of msgs, hides them and      *)
(* counts the receive.  MaxReceives bounds the count in the model.         *)
(***************************************************************************)
Receivable(m) == queue[m].state = "visible" /\ queue[m].receives < MaxReceives

GetMessages(msgs) ==
    /\ \A m \in msgs : Receivable(m)
    /\ queue' = [m \in Msgs |->
                    IF m \in msgs
                    THEN [queue[m] EXCEPT !.state = "inflight", !.receives = @ + 1]
                    ELSE queue[m]]

\* The deliveries a receive of msgs answers with.
DeliveriesOf(msgs) == {[msg |-> m, count |-> queue[m].receives + 1] : m \in msgs}

(***************************************************************************)
(* The visibility timeout of a received message ends.                      *)
(***************************************************************************)
BecomeVisible(m) ==
    /\ queue[m].state = "inflight"
    /\ queue' = [queue EXCEPT ![m].state = "visible"]

(***************************************************************************)
(* DeleteMessage removes the message when its receipt handle is the latest *)
(* one.  With an older handle the service may answer success and keep the  *)
(* message.                                                                *)
(***************************************************************************)
Stale(d) == d.count # queue[d.msg].receives

DeleteMessage(d) == queue' = [queue EXCEPT ![d.msg].state = "deleted"]

-----------------------------------------------------------------------------

\* Mutant: the limit is off by one.
OverLimitOffByOne(d) == ~Debug /\ d.count > MaxMessageAttempts + 1

(***************************************************************************)
(* The two checks of DecodeMessage: the attempts limit, which the Debug    *)
(* flag turns off, and whether the body decodes.                            *)
(***************************************************************************)
OverLimit(d) == ~Debug /\ d.count > MaxMessageAttempts

Decodes(d) == BodyOf(d) # Undecodable
=============================================================================
