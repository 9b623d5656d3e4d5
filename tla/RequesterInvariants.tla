------------------------ MODULE RequesterInvariants ------------------------
(***************************************************************************)
(* The inductive invariants behind the safety properties of Requester.     *)
(* They say what each process may rely on between two of its calls, while  *)
(* the others go on.                                                       *)
(***************************************************************************)
EXTENDS Requester

(***************************************************************************)
(* A delivery, once made, stays one of a message that was sent, and its    *)
(* count never exceeds the message's.                                      *)
(***************************************************************************)
DeliveryOK(d) ==
    /\ d \in Delivery
    /\ IsSent(d.msg)
    /\ d.count <= queue[d.msg].receives

(***************************************************************************)
(* What a CreateTask call has done, by where it is.                        *)
(***************************************************************************)
HandlerInv(t) ==
    /\ call[t] = "insert" => table[t] = NoRow
    /\ call[t] \in {"send", "compensate", "accepted"} => Exists(t)
    /\ call[t] = "accepted" => \E m \in Msgs : IsSent(m) /\ queue[m].body = t

RowInv(t) == table[t].status = "done" => table[t].response # NoResponse

(***************************************************************************)
(* What a listener knows of its message and its task, by where it is.      *)
(***************************************************************************)
ListenerInv(l) ==
    LET pc == listener[l].pc
        d  == listener[l].held
        t  == TaskOf(l)
    IN  /\ pc # "idle" => DeliveryOK(d)
        /\ pc \notin {"idle", "decode"} => ~OverLimit(d)
        /\ pc \in {"mark", "request", "finish", "deferred", "dead"} => t \in Tasks
        /\ pc \in {"mark", "request", "finish"} => listener[l].copy # "done"
        /\ pc = "finish" => listener[l].reply \in Responses
        /\ pc = "deferred" /\ listener[l].outcome = "ok" => table[t].response # NoResponse
        /\ pc = "delete" /\ t \in Tasks => table[t].response # NoResponse
        /\ pc = "deferred" /\ listener[l].outcome = "panic" => t \in Malformed
        /\ pc = "dead" => t \in Malformed

SafetyInv ==
    /\ TypeOK
    /\ \A t \in Tasks : HandlerInv(t) /\ RowInv(t)
    /\ \A l \in Listeners : ListenerInv(l)
    /\ \A i \in Instances : \A d \in batch[i] : DeliveryOK(d)
    /\ \A d \in requested : DeliveryOK(d) /\ ~OverLimit(d)
    /\ MessagesHaveRows
    /\ DeletedMeansAnswered

(***************************************************************************)
(* DeliveredOnce, with the deliveries that dead listeners once held: none  *)
(* of them is ever seen again, so each costs at most one listener.         *)
(***************************************************************************)
Holds(l) == listener[l].pc # "idle"

DeliveriesInv ==
    /\ \A i, j \in Instances : i # j => batch[i] \cap batch[j] = {}
    /\ \A i \in Instances : batch[i] \cap requested = {}
    /\ \A l \in Listeners : Holds(l) =>
          /\ \A i \in Instances : listener[l].held \notin batch[i]
          /\ \A k \in Listeners : Holds(k) /\ k # l => listener[k].held # listener[l].held
          /\ listener[l].pc \in {"decode", "get", "mark", "request"}
                => listener[l].held \notin requested

-----------------------------------------------------------------------------

(***************************************************************************)
(* What holds besides when a timeout is longer than any processing and a   *)
(* send adds one message or fails.                                         *)
(***************************************************************************)
Exclusive == Faults \cap {"late", "duplicate", "sendlost"} = {}

(***************************************************************************)
(* A task's message was sent by a call that answered its id, and there is  *)
(* one of it.                                                              *)
(***************************************************************************)
SentWasAccepted ==
    \A m \in Msgs : IsSent(m) /\ queue[m].body \in Tasks => call[queue[m].body] = "accepted"

OneMessagePerTask ==
    \A m, n \in Msgs :
        IsSent(m) /\ IsSent(n) /\ queue[m].body \in Tasks /\ queue[n].body = queue[m].body
            => m = n

(***************************************************************************)
(* A delivery that a live process has is the last one of its message,      *)
(* which is still hidden.                                                  *)
(***************************************************************************)
IsLatest(d) == queue[d.msg].state = "inflight" /\ ~Stale(d)

HeldIsLatest ==
    /\ \A i \in Instances : \A d \in batch[i] : IsLatest(d)
    /\ \A l \in Listeners : IsWorking(l) => IsLatest(listener[l].held)

(***************************************************************************)
(* A row shows a response exactly if it is done, and then its call was     *)
(* answered: the handler will not write to it any more.                    *)
(***************************************************************************)
RowIsWhole(t) ==
    /\ table[t].response # NoResponse => table[t].status = "done"
    /\ table[t].status = "done" => call[t] = "accepted"

(***************************************************************************)
(* What a listener knows of the row between its calls, since nobody else   *)
(* writes to it.                                                           *)
(***************************************************************************)
KnowsRow(l) ==
    LET pc     == listener[l].pc
        status == table[TaskOf(l)].status
    IN  /\ pc = "mark" => status # "done"
        /\ pc \in {"request", "finish"} => status = "in_process"
        /\ pc = "finish" => listener[l].held \in requested
        /\ pc = "deferred" =>
              /\ listener[l].copy # "done" => status # "done"
              /\ listener[l].outcome = "ok" => listener[l].copy = "done" /\ status = "done"
        /\ pc = "delete" /\ TaskOf(l) \in Tasks => status = "done"

ExclusiveInv ==
    /\ SafetyInv
    /\ DeliveriesInv
    /\ SentWasAccepted
    /\ OneMessagePerTask
    /\ HeldIsLatest
    /\ \A t \in Tasks : RowIsWhole(t)
    /\ \A l \in Listeners : KnowsRow(l)
    /\ DeletedMeansDone
=============================================================================
