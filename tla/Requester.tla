------------------------------ MODULE Requester ------------------------------
(***************************************************************************)
(* The whole system: the API server's CreateTask calls (module Api), the   *)
(* requester processes (module Worker), and the two services they share,   *)
(* the database (module Repository) and the queue (module Queue).  The two *)
(* programs never talk to each other: all they share is the row of a task  *)
(* and the message that names it.                                          *)
(***************************************************************************)
EXTENDS Api, Worker

ASSUME RequesterAssumption == Tasks \subseteq Payloads

vars == <<table, queue, call, expired, proc, batch, listener, requested>>

TypeOK == RepositoryTypeOK /\ QueueTypeOK /\ ApiTypeOK /\ WorkerTypeOK

Init == RepositoryInit /\ QueueInit /\ ApiInit /\ WorkerInit

-----------------------------------------------------------------------------

(***************************************************************************)
(* A message becomes visible again.  When the timeout is longer than a     *)
(* worker may take, this happens only to messages nobody holds: the        *)
(* holder crashed, gave up, panicked, or never got the answer.  No bound   *)
(* in the code makes it so (a database call has no deadline, and a message *)
(* waits in the dispatcher for as long as every listener is busy): "late"  *)
(* is the case where it is not.                                            *)
(***************************************************************************)
VisibilityTimeout(m) ==
    /\ BecomeVisible(m)
    /\ "late" \in Faults \/ ~IsHeld(m)
    /\ UNCHANGED <<table, apiVars, workerVars>>

(***************************************************************************)
(* A message that no CreateTask call sent.  Its body does not decode, or   *)
(* it is the id of no row.                                                 *)
(***************************************************************************)
ForeignSend(m, body) ==
    /\ "foreign" \in Faults
    /\ SendMessage(body, {m})
    /\ UNCHANGED <<table, apiVars, workerVars>>

Next ==
    \/ ApiNext /\ UNCHANGED workerVars
    \/ WorkerNext /\ UNCHANGED apiVars
    \/ \E m \in Msgs : VisibilityTimeout(m)
    \/ \E m \in ForeignMsgs, body \in Bodies \ Tasks : ForeignSend(m, body)

Spec == Init /\ [][Next]_vars

(***************************************************************************)
(* Fairness.  A handler that started runs to its end; each polling         *)
(* goroutine goes on receiving and handing over, and each listener goes    *)
(* on, because every call they make returns; the service makes a hidden    *)
(* message visible when its time is over.  Nothing makes a client call the *)
(* API, and nothing makes a fault happen.                                  *)
(***************************************************************************)
HandlerRuns(t) == (CreateTaskSend(t) \/ CreateTaskCompensate(t)) /\ UNCHANGED workerVars

Polls(i) == (\E msgs \in SUBSET Msgs : Receive(i, msgs)) /\ UNCHANGED apiVars

HandsOver(i) ==
    /\ \E s \in Slots, d \in batch[i] : Dispatch(<<i, s>>, d)
    /\ UNCHANGED apiVars

ListenerRuns(l) == HandleMessage(l) /\ UNCHANGED apiVars

Fairness ==
    /\ \A t \in Tasks : WF_vars(HandlerRuns(t))
    /\ \A i \in Instances : WF_vars(Polls(i)) /\ WF_vars(HandsOver(i))
    /\ \A l \in Listeners : WF_vars(ListenerRuns(l))
    /\ \A m \in Msgs : WF_vars(VisibilityTimeout(m))

FairSpec == Spec /\ Fairness

-----------------------------------------------------------------------------
(* Properties that hold whatever goes wrong                                *)

(***************************************************************************)
(* A message that names a task is never in the queue before the task's row *)
(* is in the table: ProcessTask answers "task not found" with nil, and the *)
(* message would be deleted and the task never run.                        *)
(***************************************************************************)
MessagesHaveRows ==
    \A m \in Msgs : IsSent(m) /\ queue[m].body \in Tasks => Exists(queue[m].body)

\* The attempts limit may have removed m from the queue.
Exhausted(m) == ~Debug /\ queue[m].receives > MaxMessageAttempts

(***************************************************************************)
(* A task's message leaves the queue only when a response of the third     *)
(* party is stored in its row or the message was received more often than  *)
(* MaxMessageAttempts, whatever fails, crashes or is delivered twice.      *)
(***************************************************************************)
DeletedMeansAnswered ==
    \A m \in Msgs :
        queue[m].state = "deleted" /\ queue[m].body \in Tasks /\ ~Exhausted(m)
            => table[queue[m].body].response # NoResponse

(***************************************************************************)
(* A task whose id the client was given is not lost: it has a message that *)
(* is still in the queue, or ran out of attempts, or was answered.         *)
(***************************************************************************)
AcceptedNotLost ==
    \A t \in Tasks : call[t] = "accepted" =>
        \E m \in Msgs :
            /\ IsSent(m) /\ queue[m].body = t
            /\ \/ queue[m].state # "deleted"
               \/ Exhausted(m)
               \/ table[t].response # NoResponse

(***************************************************************************)
(* The third party gets at most MaxMessageAttempts requests for a message, *)
(* over all processes, restarts and repeated deliveries.                   *)
(***************************************************************************)
RequestsBounded ==
    ~Debug => \A m \in Msgs : Cardinality({d \in requested : d.msg = m}) <= MaxMessageAttempts

(***************************************************************************)
(* A delivery is in one place at a time: in the batch of one process or    *)
(* with one of its listeners; and no request has been made for it before   *)
(* the listener that has it makes one.  The hand-over loses and duplicates *)
(* nothing.                                                                *)
(***************************************************************************)
DeliveredOnce ==
    /\ \A i, j \in Instances : i # j => batch[i] \cap batch[j] = {}
    /\ \A l \in Listeners : IsWorking(l) =>
          /\ \A i \in Instances : listener[l].held \notin batch[i]
          /\ \A k \in Listeners : IsWorking(k) /\ k # l => listener[k].held # listener[l].held
          /\ listener[l].pc \in {"decode", "get", "mark", "request"}
                => listener[l].held \notin requested
    /\ \A i \in Instances : batch[i] \cap requested = {}

Dead(i) == {s \in Slots : listener[<<i, s>>].pc = "dead"}

(***************************************************************************)
(* Panics cost a process at most MaxMessageAttempts listeners for each     *)
(* message whose task no request can be built from, so that a process with *)
(* more listeners than that never stops working.                           *)
(***************************************************************************)
PoolLossBounded ==
    ~Debug => \A i \in Instances :
        Cardinality(Dead(i)) <=
            MaxMessageAttempts * Cardinality({m \in Msgs : queue[m].body \in Malformed})

(***************************************************************************)
(* The listeners of every process implement the abstract pool: whatever    *)
(* fails, a batch is taken when the last one was given out, each delivery  *)
(* of it goes to one listener, and as many run as there are left.          *)
(***************************************************************************)
PoolOfListeners == INSTANCE Pool WITH
    Pools   <- Instances,
    Items   <- Delivery,
    Size    <- [i \in Instances |-> Cardinality(Slots)],
    open    <- [i \in Instances |-> proc[i] # "down"],
    waiting <- batch,
    running <- [i \in Instances |->
                   {listener[l].held : l \in {k \in Listeners : k[1] = i /\ IsWorking(k)}}],
    lost    <- [i \in Instances |-> Cardinality(Dead(i))]

ImplementsPool == PoolOfListeners!Spec

-----------------------------------------------------------------------------
(* Properties that need a visibility timeout longer than any processing,   *)
(* and sends that add one message or fail: no "late", "duplicate" and      *)
(* "sendlost".                                                             *)

(***************************************************************************)
(* No two listeners, of any processes, work on a task at the same time.    *)
(***************************************************************************)
OneListenerPerTask ==
    \A k, l \in Listeners :
        IsWorking(k) /\ IsWorking(l) /\ k # l /\ TaskOf(k) \in Tasks => TaskOf(k) # TaskOf(l)

(***************************************************************************)
(* The row of a task that is done never changes again, although UpdateTask *)
(* writes whatever it is given, ProcessTask checks the status long before  *)
(* it writes, and its deferred update runs after every end.                *)
(***************************************************************************)
DoneIsFinal ==
    [][\A t \in Tasks : table[t].status = "done" => table'[t] = table[t]]_vars

(***************************************************************************)
(* A task whose message left the queue before its attempts were used up is *)
(* done: not in_process, not error.                                        *)
(***************************************************************************)
DeletedMeansDone ==
    \A m \in Msgs :
        queue[m].state = "deleted" /\ queue[m].body \in Tasks /\ ~Exhausted(m)
            => table[queue[m].body].status = "done"

(***************************************************************************)
(* A task whose CreateTask call answered an error is never run.            *)
(***************************************************************************)
RejectedNeverRuns ==
    \A t \in Tasks : call[t] = "rejected" =>
        /\ \A d \in requested : BodyOf(d) # t
        /\ \A l \in Listeners : IsWorking(l) => TaskOf(l) # t

(***************************************************************************)
(* The system implements the abstract lifecycle of a task, of which its    *)
(* clients and the third party see the row and the requests.               *)
(***************************************************************************)
RequestsOf(t) == {d \in requested : BodyOf(d) = t}

Lifecycle == INSTANCE TaskLifecycle WITH
    row       <- table,
    attempts  <- [t \in Tasks |-> Cardinality(RequestsOf(t))],
    Limit     <- MaxMessageAttempts,
    Unlimited <- Debug

ImplementsLifecycle == Lifecycle!Spec

-----------------------------------------------------------------------------
(* Liveness                                                                *)

(***************************************************************************)
(* Every message leaves the queue in the end: none is retried for ever,    *)
(* and none waits for ever for a listener.                                 *)
(***************************************************************************)
QueueDrains == \A m \in Msgs : IsSent(m) ~> queue[m].state = "deleted"

(***************************************************************************)
(* A task whose id the client was given shows done or error in the end,    *)
(* and from then on: it does not stay new or in_process.                   *)
(***************************************************************************)
AcceptedIsSettled ==
    \A t \in Tasks : call[t] = "accepted" ~> [](table[t].status \in {"done", "error"})

-----------------------------------------------------------------------------
(* What the code and its tests say, and the code does not keep             *)

(***************************************************************************)
(* The early return of updateTask, "Safe to call after task is done", goes *)
(* by the listener's own copy of the task: when the copy says done at the  *)
(* deferred update, so does the row.                                       *)
(***************************************************************************)
DoneCopyIsDone ==
    \A l \in Listeners :
        listener[l].pc = "deferred" /\ listener[l].copy = "done"
            => table[TaskOf(l)].status = "done"
=============================================================================
