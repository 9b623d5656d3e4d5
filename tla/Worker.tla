------------------------------- MODULE Worker -------------------------------
(***************************************************************************)
(* The requester processes (cmd/requester/main.go, internal/requester).    *)
(* Each process polls the queue from one goroutine (WatchMessages), which  *)
(* hands the received messages over an unbuffered channel to a pool of     *)
(* listener goroutines.  A listener decodes its message, runs ProcessTask  *)
(* and deletes the message when that returned no error.                    *)
(*                                                                         *)
(* Every call to the database, the queue and the third party is one        *)
(* action, so the listeners of all processes interleave between any two of *)
(* them.  A listener is at:                                                *)
(*   idle      waiting on the channel                                      *)
(*   decode    in DecodeMessage                                            *)
(*   get       ProcessTask, before GetTask                                 *)
(*   mark      before the update to in_process                             *)
(*   request   before client.Do                                            *)
(*   finish    before the update to done                                   *)
(*   deferred  in the deferred update to error, on the way out             *)
(*   delete    ProcessTask returned nil, before DeleteMessage              *)
(*   dead      the goroutine recovered from a panic and ended              *)
(***************************************************************************)
EXTENDS FaultModel, Repository, Queue

CONSTANTS
    Instances,    \* the requester processes
    Slots,        \* the listener goroutines of each: 0 .. w.workers - 1
    Malformed,    \* the tasks no http.Request can be built from
    NoDelivery    \* what a listener holds when it holds no message

ASSUME WorkerAssumption ==
    /\ IsFiniteSet(Slots) /\ Cardinality(Slots) <= 10
    /\ Malformed \subseteq Tasks
    /\ NoDelivery \notin Delivery

VARIABLES
    proc,         \* each process: up, closing (its database pool is closed) or down
    batch,        \* received by a process and not yet handed to a listener
    listener,     \* what each listener goroutine is doing
    requested     \* history: the deliveries a request to the third party was made for

workerVars == <<proc, batch, listener, requested>>

Listeners == Instances \X Slots

ListenerStates ==
    [pc      : {"idle", "decode", "get", "mark", "request", "finish",
                "deferred", "delete", "dead"},
     held    : Delivery \cup {NoDelivery},       \* the sqs.Message it was given
     copy    : TaskStatus \cup {"none"},         \* task.Status of its copy of the row
     outcome : {"none", "ok", "err", "panic"},   \* how ProcessTask is being left
     reply   : Responses \cup {NoResponse}]      \* the third party's answer

Idle == [pc |-> "idle", held |-> NoDelivery, copy |-> "none",
         outcome |-> "none", reply |-> NoResponse]

WorkerTypeOK ==
    /\ proc \in [Instances -> {"up", "closing", "down"}]
    /\ batch \in [Instances -> SUBSET Delivery]
    /\ listener \in [Listeners -> ListenerStates]
    /\ \A l \in Listeners : listener[l].pc # "idle" => listener[l].held \in Delivery
    /\ requested \in SUBSET Delivery

WorkerInit ==
    /\ proc = [i \in Instances |-> "up"]
    /\ batch = [i \in Instances |-> {}]
    /\ listener = [l \in Listeners |-> Idle]
    /\ requested = {}

TaskOf(l) == BodyOf(listener[l].held)

IsWorking(l) == listener[l].pc \notin {"idle", "dead"}

Become(l, record) == listener' = [listener EXCEPT ![l] = record]

\* A live process has message m: waiting in its batch, or with a listener.
IsHeld(m) ==
    \/ \E i \in Instances : \E d \in batch[i] : d.msg = m
    \/ \E l \in Listeners : IsWorking(l) /\ listener[l].held.msg = m

-----------------------------------------------------------------------------
(* The polling goroutine of WatchMessages                                  *)

\* Mutant: AttributeNames does not ask for the count of receives.
ReceiveWithoutCount(i, msgs) ==
    /\ proc[i] # "down"
    /\ batch[i] = {}
    /\ msgs # {} /\ Cardinality(msgs) <= Cardinality(Slots)
    /\ GetMessages(msgs)
    /\ batch' = [batch EXCEPT ![i] = {[msg |-> m, count |-> 0] : m \in msgs}]
    /\ UNCHANGED <<table, proc, listener, requested>>

(***************************************************************************)
(* receiveMessages, when every message of the last batch has been handed   *)
(* over: at most one message per listener goroutine.  An empty answer and  *)
(* an error leave everything as it is, except that an error may be an      *)
(* answer lost ("receive"), with the messages hidden and counted.          *)
(***************************************************************************)
Receive(i, msgs) ==
    /\ proc[i] # "down"
    /\ batch[i] = {}
    /\ msgs # {} /\ Cardinality(msgs) <= Cardinality(Slots)
    /\ GetMessages(msgs)
    /\ \/ batch' = [batch EXCEPT ![i] = DeliveriesOf(msgs)]
       \/ "receive" \in Faults /\ UNCHANGED batch
    /\ UNCHANGED <<table, proc, listener, requested>>

\* Mutant: the message stays in the batch after it was handed over.
DispatchKeepsMessage(l, d) ==
    /\ listener[l].pc = "idle"
    /\ d \in batch[l[1]]
    /\ Become(l, [Idle EXCEPT !.pc = "decode", !.held = d])
    /\ UNCHANGED <<table, queue, proc, batch, requested>>

(***************************************************************************)
(* messages <- message meets msg := <-messages: the channel is unbuffered, *)
(* so the poller waits, holding the rest of the batch, for a listener that *)
(* is neither busy nor dead.                                               *)
(***************************************************************************)
Dispatch(l, d) ==
    /\ listener[l].pc = "idle"
    /\ d \in batch[l[1]]
    /\ batch' = [batch EXCEPT ![l[1]] = @ \ {d}]
    /\ Become(l, [Idle EXCEPT !.pc = "decode", !.held = d])
    /\ UNCHANGED <<table, queue, proc, requested>>

-----------------------------------------------------------------------------
(* A listener: handleMessage around ProcessTask                            *)

Step(l, pc) == Become(l, [listener[l] EXCEPT !.pc = pc])

BecomeIdle(l) == Become(l, Idle)

Panic(l) == Become(l, [Idle EXCEPT !.pc = "dead", !.held = listener[l].held])

Leave(l, outcome) == Become(l, [listener[l] EXCEPT !.pc = "deferred", !.outcome = outcome])

\* A delete may fail, or be accepted for an old receipt handle, and do nothing.
TryDelete(d) ==
    \/ DeleteMessage(d)
    \/ ("delete" \in Faults \/ Stale(d)) /\ UNCHANGED queue

\* Mutant: a message over the attempts limit is skipped and not deleted.
HandleMessageDecodeSkips(l) ==
    LET d == listener[l].held IN
    /\ listener[l].pc = "decode"
    /\ \/ OverLimit(d) /\ UNCHANGED queue /\ BecomeIdle(l)
       \/ ~OverLimit(d) /\ ~Decodes(d) /\ TryDelete(d) /\ BecomeIdle(l)
       \/ ~OverLimit(d) /\ Decodes(d) /\ UNCHANGED queue /\ Step(l, "get")
    /\ UNCHANGED <<table, proc, batch, requested>>

(***************************************************************************)
(* DecodeMessage deletes, and always returns an error for, a message over  *)
(* the attempts limit and one whose body does not decode.                  *)
(***************************************************************************)
HandleMessageDecode(l) ==
    LET d == listener[l].held IN
    /\ listener[l].pc = "decode"
    /\ IF OverLimit(d) \/ ~Decodes(d)
       THEN TryDelete(d) /\ BecomeIdle(l)
       ELSE UNCHANGED queue /\ Step(l, "get")
    /\ UNCHANGED <<table, proc, batch, requested>>

\* The pool is open.  A closed pool fails every statement at once.
DbOpen(l) == proc[l[1]] = "up"

DbFails(l) == "db" \in Faults \/ ~DbOpen(l)

\* Mutant: a task that is done is processed again.
ProcessTaskGetIgnoresDone(l) ==
    /\ listener[l].pc = "get"
    /\ \/ DbFails(l) /\ BecomeIdle(l)
       \/ /\ DbOpen(l)
          /\ TaskOf(l) \in Tasks
          /\ Become(l, [listener[l] EXCEPT !.pc = "mark", !.copy = "new"])
    /\ UNCHANGED <<table, queue, proc, batch, requested>>

(***************************************************************************)
(* GetTask.  An error leaves the message undeleted; a task that does not   *)
(* exist or is done returns nil, and handleMessage deletes the message.    *)
(***************************************************************************)
ProcessTaskGet(l) ==
    LET t == TaskOf(l) IN
    /\ listener[l].pc = "get"
    /\ \/ DbFails(l) /\ BecomeIdle(l)
       \/ /\ DbOpen(l)
          /\ IF t \notin Tasks \/ ~Exists(t) \/ table[t].status = "done"
             THEN Step(l, "delete")
             ELSE Become(l, [listener[l] EXCEPT !.pc = "mark", !.copy = table[t].status])
    /\ UNCHANGED <<table, queue, proc, batch, requested>>

-----------------------------------------------------------------------------

\* The UPDATE of a listener: executed and answered, or failed after it was
\* executed, or failed and not executed.
TryUpdate(l, input, ok) ==
    \/ (ok \/ "db" \in Faults) /\ DbOpen(l) /\ UpdateTask(TaskOf(l), input)
    \/ ~ok /\ DbFails(l) /\ UNCHANGED table

\* Mutant: no early return, the deferred error overwrites a task that is done.
UpdateTaskUnlessDoneUnguarded(l, input, ok) == TryUpdate(l, input, ok)

(***************************************************************************)
(* processor.updateTask: it returns early, with nil, when the listener's   *)
(* own copy of the task says done; otherwise it sets the copy's status,    *)
(* and only then runs the UPDATE.                                          *)
(***************************************************************************)
UpdateTaskUnlessDone(l, input, ok) ==
    IF listener[l].copy = "done"
    THEN ok /\ UNCHANGED table
    ELSE TryUpdate(l, input, ok)

CopyAfter(l, status) == IF listener[l].copy = "done" THEN "done" ELSE status

(***************************************************************************)
(* The update to in_process; an error leaves ProcessTask.                  *)
(***************************************************************************)
ProcessTaskMark(l) ==
    /\ listener[l].pc = "mark"
    /\ \E ok \in BOOLEAN :
          /\ UpdateTaskUnlessDone(l, StatusOnly("in_process"), ok)
          /\ Become(l, [listener[l] EXCEPT
                !.pc      = IF ok THEN "request" ELSE "deferred",
                !.copy    = CopyAfter(l, "in_process"),
                !.outcome = IF ok THEN "none" ELSE "err"])
    /\ UNCHANGED <<queue, proc, batch, requested>>

(***************************************************************************)
(* The part of makeRequest before client.Do.  Method, URL and body are     *)
(* those of the row, so whether it works depends on the task alone.        *)
(***************************************************************************)
BuildsRequest(t) == t \notin Malformed

(***************************************************************************)
(* makeRequest.  When the http.Request cannot be built it returns no       *)
(* response and no error, and ProcessTask panics at resp.Body.  Otherwise  *)
(* the request goes out, and either a response or an error ("remote": no   *)
(* connection, the client's 10 s timeout, an unsupported scheme) comes     *)
(* back.                                                                   *)
(***************************************************************************)
ProcessTaskRequest(l) ==
    /\ listener[l].pc = "request"
    /\ \/ /\ ~BuildsRequest(TaskOf(l))
          /\ Leave(l, "panic")
          /\ UNCHANGED requested
       \/ /\ BuildsRequest(TaskOf(l))
          /\ requested' = requested \cup {listener[l].held}
          /\ \/ "remote" \in Faults /\ Leave(l, "err")
             \/ \E r \in Responses :
                   Become(l, [listener[l] EXCEPT !.pc = "finish", !.reply = r])
    /\ UNCHANGED <<table, queue, proc, batch>>

\* Mutant: the error of the last update is not returned.
ProcessTaskFinishUnchecked(l) ==
    /\ listener[l].pc = "finish"
    /\ \E ok \in BOOLEAN :
          UpdateTaskUnlessDone(l, [status |-> "done", response |-> listener[l].reply], ok)
    /\ Become(l, [listener[l] EXCEPT
          !.pc = "deferred", !.copy = "done", !.outcome = "ok", !.reply = NoResponse])
    /\ UNCHANGED <<queue, proc, batch, requested>>

(***************************************************************************)
(* The update to done, with the response.                                  *)
(***************************************************************************)
ProcessTaskFinish(l) ==
    /\ listener[l].pc = "finish"
    /\ \E ok \in BOOLEAN :
          /\ UpdateTaskUnlessDone(l, [status |-> "done", response |-> listener[l].reply], ok)
          /\ Become(l, [listener[l] EXCEPT
                !.pc      = "deferred",
                !.copy    = CopyAfter(l, "done"),
                !.outcome = IF ok THEN "ok" ELSE "err",
                !.reply   = NoResponse])
    /\ UNCHANGED <<queue, proc, batch, requested>>

(***************************************************************************)
(* What follows ProcessTask: handleMessage goes on to the delete, or       *)
(* returns to the channel and leaves the message to its visibility         *)
(* timeout.  A panic ends listenMessages; the goroutine's handlePanic logs *)
(* it and nothing starts another.  The dead listener's held is history.    *)
(***************************************************************************)
AfterProcessTask(l) ==
    \/ listener[l].outcome = "ok" /\ Step(l, "delete")
    \/ listener[l].outcome = "err" /\ BecomeIdle(l)
    \/ listener[l].outcome = "panic" /\ Panic(l)

\* Mutant: a failed ProcessTask leaves the status as it is.
ProcessTaskDeferredOmitted(l) ==
    /\ listener[l].pc = "deferred"
    /\ AfterProcessTask(l)
    /\ UNCHANGED <<table, queue, proc, batch, requested>>

(***************************************************************************)
(* ProcessTask's deferred update to error, run on every way out of it, a   *)
(* panic included.  Its own error is only logged.                          *)
(***************************************************************************)
ProcessTaskDeferred(l) ==
    /\ listener[l].pc = "deferred"
    /\ \E ok \in BOOLEAN : UpdateTaskUnlessDone(l, StatusOnly("error"), ok)
    /\ AfterProcessTask(l)
    /\ UNCHANGED <<queue, proc, batch, requested>>

HandleMessageDelete(l) ==
    /\ listener[l].pc = "delete"
    /\ TryDelete(listener[l].held)
    /\ BecomeIdle(l)
    /\ UNCHANGED <<table, proc, batch, requested>>

HandleMessage(l) ==
    \/ HandleMessageDecode(l)
    \/ ProcessTaskGet(l)
    \/ ProcessTaskMark(l)
    \/ ProcessTaskRequest(l)
    \/ ProcessTaskFinish(l)
    \/ ProcessTaskDeferred(l)
    \/ HandleMessageDelete(l)

-----------------------------------------------------------------------------
(* The process                                                             *)

(***************************************************************************)
(* SIGTERM: main returns, and of its deferred calls dbPool.Close runs      *)
(* first.  Nothing waits for WatchMessages, which goes on until the        *)
(* process is gone.                                                        *)
(***************************************************************************)
Stop(i) ==
    /\ "stop" \in Faults
    /\ proc[i] = "up"
    /\ proc' = [proc EXCEPT ![i] = "closing"]
    /\ UNCHANGED <<table, queue, batch, listener, requested>>

\* The process ends: main is done after Stop, or it is killed ("crash").
Exit(i) ==
    /\ proc[i] = "closing" \/ (proc[i] = "up" /\ "crash" \in Faults)
    /\ proc' = [proc EXCEPT ![i] = "down"]
    /\ batch' = [batch EXCEPT ![i] = {}]
    /\ listener' = [l \in Listeners |-> IF l[1] = i THEN Idle ELSE listener[l]]
    /\ UNCHANGED <<table, queue, requested>>

Start(i) ==
    /\ proc[i] = "down"
    /\ proc' = [proc EXCEPT ![i] = "up"]
    /\ UNCHANGED <<table, queue, batch, listener, requested>>

WorkerNext ==
    \/ \E i \in Instances : \E msgs \in SUBSET Msgs : Receive(i, msgs)
    \/ \E l \in Listeners : \E d \in batch[l[1]] : Dispatch(l, d)
    \/ \E l \in Listeners : HandleMessage(l)
    \/ \E i \in Instances : Stop(i) \/ Exit(i) \/ Start(i)
=============================================================================
