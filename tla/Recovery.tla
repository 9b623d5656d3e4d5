------------------------------ MODULE Recovery ------------------------------
(***************************************************************************)
(* The composed system with faults that come to an end.  Everything may    *)
(* fail, any number of times, but at some receive of a message (here the   *)
(* last one the bound MaxReceives leaves room for) nothing does: the       *)
(* process lives until its listener is through with the message.           *)
(***************************************************************************)
EXTENDS Requester

\* The last delivery of m the bound leaves room for.
LastDelivery(m) == [msg |-> m, count |-> MaxReceives]

(***************************************************************************)
(* Who got the last delivery of a message deletes the message before it    *)
(* gives the delivery up.  This is the bound as a condition on steps: no   *)
(* behaviour ends at it because the model has no more receives.            *)
(***************************************************************************)
LastReceiveSucceeds ==
    \A m \in Msgs : queue[m].receives = MaxReceives =>
        \/ queue[m].state = "deleted"
        \/ \E i \in Instances : LastDelivery(m) \in batch[i]
        \/ \E l \in Listeners : IsWorking(l) /\ listener[l].held = LastDelivery(m)

RecoveryNext == Next /\ LastReceiveSucceeds'

(***************************************************************************)
(* The fairness of Requester, for the steps that are left.  Nothing makes  *)
(* a process that is down start again.                                     *)
(***************************************************************************)
RecoveryFairness ==
    /\ \A t \in Tasks : WF_vars(HandlerRuns(t) /\ LastReceiveSucceeds')
    /\ \A i \in Instances :
          /\ WF_vars(Polls(i) /\ LastReceiveSucceeds')
          /\ WF_vars(HandsOver(i) /\ LastReceiveSucceeds')
    /\ \A l \in Listeners : WF_vars(ListenerRuns(l) /\ LastReceiveSucceeds')
    /\ \A m \in Msgs : WF_vars(VisibilityTimeout(m) /\ LastReceiveSucceeds')

RecoverySpec == Init /\ [][RecoveryNext]_vars /\ RecoveryFairness

-----------------------------------------------------------------------------

StaysUp(i) == <>[](proc[i] = "up")

(***************************************************************************)
(* When one process stays up in the end, every message leaves the queue,   *)
(* whatever failed, crashed, was lost or delivered twice before: no fault  *)
(* leaves a message behind in a state that nothing takes it out of.        *)
(***************************************************************************)
RecoversAndDrains == (\E i \in Instances : StaysUp(i)) => QueueDrains
=============================================================================
