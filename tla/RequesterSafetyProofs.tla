------------------------ MODULE RequesterSafetyProofs ------------------------
(***************************************************************************)
(* Type correctness, and the safety properties that hold whatever goes     *)
(* wrong, proved from the inductive invariant SafetyInv, for any number of *)
(* tasks, messages, processes and listeners and every set of faults.       *)
(*                                                                         *)
(* The argument has two layers.  TableStep and QueueStep say what a step   *)
(* of anyone can do to a row and to a message, so that the invariants of   *)
(* rows and messages, and what a listener knows while others take steps,   *)
(* follow without going through the actions again.  Only what a listener   *)
(* knows after its own step needs a case for each action.                  *)
(***************************************************************************)
EXTENDS RequesterInvariants, QueueProofs

-----------------------------------------------------------------------------
(* Types                                                                   *)

USE QueueAssumption, RequesterAssumption

LEMMA UpdateKeepsType ==
    ASSUME RepositoryTypeOK, NEW t, NEW input \in UpdateTaskInput, UpdateTask(t, input)
    PROVE  RepositoryTypeOK'
BY DEF RepositoryTypeOK, UpdateTask, UpdateTaskInput, SetUpdateFields, Task, NoRow, TaskStatus

LEMMA SendKeepsType ==
    ASSUME QueueTypeOK, NEW body \in Bodies, NEW copies, SendMessage(body, copies)
    PROVE  QueueTypeOK'
BY DEF QueueTypeOK, SendMessage, Message, Bodies

LEMMA DeleteKeepsType ==
    ASSUME QueueTypeOK, NEW d, TryDelete(d)
    PROVE  QueueTypeOK'
BY DEF QueueTypeOK, TryDelete, DeleteMessage, Message

LEMMA TypeInit == Init => TypeOK
BY DEF Init, RepositoryInit, QueueInit, ApiInit, WorkerInit, TypeOK, RepositoryTypeOK,
       QueueTypeOK, ApiTypeOK, WorkerTypeOK, NoRow, Unsent, Message, Bodies, CallStates,
       ListenerStates, Idle

LEMMA ApiType ==
    ASSUME TypeOK, ApiNext, UNCHANGED workerVars
    PROVE  TypeOK'
<1>. USE DEF TypeOK, ApiTypeOK, workerVars, WorkerTypeOK
<1>1. ASSUME NEW t \in Tasks, CreateTaskRow(t) PROVE RepositoryTypeOK'
  BY <1>1 DEF CreateTaskRow, RepositoryTypeOK, Task, TaskStatus
<1>2. ASSUME NEW t \in Tasks, NEW s \in CallStates, Goto(t, s) PROVE call' \in [Tasks -> CallStates]
  BY <1>2 DEF Goto
<1>3. ASSUME NEW t \in Tasks, CreateTaskInsert(t) PROVE TypeOK'
  BY <1>1, <1>2, <1>3 DEF CreateTaskInsert, CallStates, RepositoryTypeOK, QueueTypeOK
<1>4. ASSUME NEW t \in Tasks, CreateTaskSend(t) PROVE TypeOK'
  <2>1. QueueTypeOK'
    BY <1>4, SendKeepsType DEF CreateTaskSend, Bodies, QueueTypeOK
  <2>2. QED
    BY <1>2, <1>4, <2>1 DEF CreateTaskSend, CallStates, RepositoryTypeOK
<1>5. ASSUME NEW t \in Tasks, CreateTaskCompensate(t) PROVE TypeOK'
  <2>1. RepositoryTypeOK'
    BY <1>5, UpdateKeepsType
    DEF CreateTaskCompensate, StatusOnly, UpdateTaskInput, TaskStatus, RepositoryTypeOK
  <2>2. QED
    BY <1>2, <1>5, <2>1 DEF CreateTaskCompensate, CallStates, QueueTypeOK
<1>6. ASSUME NEW t \in Tasks, ContextDone(t) PROVE TypeOK'
  BY <1>6 DEF ContextDone, RepositoryTypeOK, QueueTypeOK
<1>7. ASSUME NEW t \in Tasks, CallDies(t) PROVE TypeOK'
  BY <1>2, <1>7 DEF CallDies, CallStates, RepositoryTypeOK, QueueTypeOK
<1>8. QED
  BY <1>3, <1>4, <1>5, <1>6, <1>7 DEF ApiNext, CreateTask

(***************************************************************************)
(* The records listeners take, and the part of the type invariant about    *)
(* them.                                                                   *)
(***************************************************************************)
ListenersOK ==
    /\ listener \in [Listeners -> ListenerStates]
    /\ \A l \in Listeners : listener[l].pc # "idle" => listener[l].held \in Delivery

LEMMA BecomeKeepsType ==
    ASSUME WorkerTypeOK, NEW l \in Listeners, NEW r \in ListenerStates,
           r.pc # "idle" => r.held \in Delivery, Become(l, r)
    PROVE  ListenersOK'
BY DEF WorkerTypeOK, Become, ListenersOK

LEMMA MoveKeepsType ==
    ASSUME WorkerTypeOK, NEW l \in Listeners, listener[l].pc # "idle"
    PROVE  /\ BecomeIdle(l) => ListenersOK'
           /\ Panic(l) => ListenersOK'
           /\ \A pc \in {"get", "delete"} : Step(l, pc) => ListenersOK'
           /\ \A o \in {"err", "panic"} : Leave(l, o) => ListenersOK'
<1>1. listener[l] \in ListenerStates /\ listener[l].held \in Delivery
  BY DEF WorkerTypeOK
<1>2. BecomeIdle(l) => ListenersOK'
  <2>1. Idle \in ListenerStates /\ Idle.pc = "idle"
    BY DEF Idle, ListenerStates
  <2>2. QED
    BY <2>1, BecomeKeepsType DEF BecomeIdle
<1>3. Panic(l) => ListenersOK'
  <2> DEFINE r == [Idle EXCEPT !.pc = "dead", !.held = listener[l].held]
  <2>1. r \in ListenerStates /\ r.held \in Delivery
    BY <1>1 DEF Idle, ListenerStates
  <2>2. QED
    BY <2>1, BecomeKeepsType DEF Panic
<1>4. ASSUME NEW pc \in {"get", "delete"}, Step(l, pc) PROVE ListenersOK'
  <2> DEFINE r == [listener[l] EXCEPT !.pc = pc]
  <2>1. r \in ListenerStates /\ r.held \in Delivery
    BY <1>1 DEF ListenerStates
  <2>2. QED
    BY <1>4, <2>1, BecomeKeepsType DEF Step
<1>5. ASSUME NEW o \in {"err", "panic"}, Leave(l, o) PROVE ListenersOK'
  <2> DEFINE r == [listener[l] EXCEPT !.pc = "deferred", !.outcome = o]
  <2>1. r \in ListenerStates /\ r.held \in Delivery
    BY <1>1 DEF ListenerStates
  <2>2. QED
    BY <1>5, <2>1, BecomeKeepsType DEF Leave
<1>6. QED
  BY <1>2, <1>3, <1>4, <1>5

LEMMA UpdateUnlessDoneKeepsType ==
    ASSUME TypeOK, NEW l \in Listeners, NEW input \in UpdateTaskInput, NEW ok \in BOOLEAN,
           UpdateTaskUnlessDone(l, input, ok)
    PROVE  RepositoryTypeOK'
BY UpdateKeepsType DEF TypeOK, UpdateTaskUnlessDone, TryUpdate, RepositoryTypeOK

LEMMA WorkerType ==
    ASSUME TypeOK, WorkerNext, UNCHANGED apiVars
    PROVE  TypeOK'
<1>. USE DEF TypeOK, ApiTypeOK, apiVars
<1>1. ASSUME NEW i \in Instances, NEW msgs \in SUBSET Msgs, Receive(i, msgs)
      PROVE  TypeOK'
  <2>1. QueueTypeOK' /\ DeliveriesOf(msgs) \subseteq Delivery
    BY <1>1, GetMessagesKeepsType DEF Receive
  <2>2. QED
    BY <1>1, <2>1 DEF Receive, WorkerTypeOK, RepositoryTypeOK
<1>2. ASSUME NEW l \in Listeners, NEW d \in batch[l[1]], Dispatch(l, d)
      PROVE  TypeOK'
  <2>1. l[1] \in Instances /\ d \in Delivery
    BY DEF Listeners, WorkerTypeOK
  <2>2. [Idle EXCEPT !.pc = "decode", !.held = d] \in ListenerStates
    BY <2>1 DEF ListenerStates, Idle
  <2>3. ListenersOK'
    <3> DEFINE r == [Idle EXCEPT !.pc = "decode", !.held = d]
    <3>1. r \in ListenerStates /\ r.held \in Delivery
      BY <2>1, <2>2 DEF Idle
    <3>2. QED
      BY <1>2, <3>1, BecomeKeepsType DEF Dispatch
  <2>4. QED
    BY <1>2, <2>1, <2>3 DEF Dispatch, WorkerTypeOK, RepositoryTypeOK, QueueTypeOK, ListenersOK
<1>3. ASSUME NEW l \in Listeners, HandleMessage(l)
      PROVE  TypeOK'
  <2>1. listener[l] \in ListenerStates
    BY DEF WorkerTypeOK
  <2>2. listener[l].pc # "idle"
    BY <1>3 DEF HandleMessage, HandleMessageDecode, ProcessTaskGet, ProcessTaskMark,
       ProcessTaskRequest, ProcessTaskFinish, ProcessTaskDeferred, HandleMessageDelete
  <2>3. listener[l].held \in Delivery
    BY <2>2 DEF WorkerTypeOK
  <2>4. CASE HandleMessageDecode(l)
    <3>1. QueueTypeOK'
      BY <2>4, DeleteKeepsType DEF HandleMessageDecode, QueueTypeOK
    <3>2. ListenersOK'
      BY <2>2, <2>4, MoveKeepsType DEF HandleMessageDecode
    <3>3. QED
      BY <2>4, <3>1, <3>2 DEF HandleMessageDecode, WorkerTypeOK, RepositoryTypeOK, ListenersOK
  <2>5. CASE ProcessTaskGet(l)
    <3>1. ASSUME TaskOf(l) \in Tasks, Exists(TaskOf(l)),
                 Become(l, [listener[l] EXCEPT !.pc = "mark", !.copy = table[TaskOf(l)].status])
          PROVE  ListenersOK'
      <4> DEFINE r == [listener[l] EXCEPT !.pc = "mark", !.copy = table[TaskOf(l)].status]
      <4>1. table[TaskOf(l)].status \in TaskStatus
        BY <3>1 DEF RepositoryTypeOK, Task, Exists
      <4>2. r \in ListenerStates /\ r.held \in Delivery
        BY <2>1, <2>3, <4>1 DEF ListenerStates
      <4>3. QED
        BY <3>1, <4>2, BecomeKeepsType
    <3>2. ListenersOK'
      BY <2>2, <2>5, <3>1, MoveKeepsType DEF ProcessTaskGet
    <3>3. QED
      BY <2>5, <3>2 DEF ProcessTaskGet, WorkerTypeOK, RepositoryTypeOK, QueueTypeOK, ListenersOK
  <2>6. CASE ProcessTaskMark(l)
    <3>1. PICK ok \in BOOLEAN :
            /\ UpdateTaskUnlessDone(l, StatusOnly("in_process"), ok)
            /\ Become(l, [listener[l] EXCEPT
                  !.pc      = IF ok THEN "request" ELSE "deferred",
                  !.copy    = CopyAfter(l, "in_process"),
                  !.outcome = IF ok THEN "none" ELSE "err"])
      BY <2>6 DEF ProcessTaskMark
    <3> DEFINE r == [listener[l] EXCEPT
                  !.pc      = IF ok THEN "request" ELSE "deferred",
                  !.copy    = CopyAfter(l, "in_process"),
                  !.outcome = IF ok THEN "none" ELSE "err"]
    <3>2. StatusOnly("in_process") \in UpdateTaskInput
      BY DEF StatusOnly, UpdateTaskInput, TaskStatus
    <3>3. RepositoryTypeOK'
      BY <3>1, <3>2, UpdateUnlessDoneKeepsType
    <3>4. r \in ListenerStates /\ r.held \in Delivery
      BY <2>1, <2>3 DEF ListenerStates, CopyAfter, TaskStatus
    <3>5. ListenersOK'
      BY <3>1, <3>4, BecomeKeepsType
    <3>6. QED
      BY <2>6, <3>3, <3>5 DEF ProcessTaskMark, WorkerTypeOK, QueueTypeOK, ListenersOK
  <2>7. CASE ProcessTaskRequest(l)
    <3>1. ASSUME NEW a \in Responses, Become(l, [listener[l] EXCEPT !.pc = "finish", !.reply = a])
          PROVE  ListenersOK'
      <4> DEFINE r == [listener[l] EXCEPT !.pc = "finish", !.reply = a]
      <4>1. r \in ListenerStates /\ r.held \in Delivery
        BY <2>1, <2>3 DEF ListenerStates
      <4>2. QED
        BY <3>1, <4>1, BecomeKeepsType
    <3>2. ListenersOK'
      BY <2>2, <2>7, <3>1, MoveKeepsType DEF ProcessTaskRequest
    <3>3. requested' \in SUBSET Delivery
      BY <2>3, <2>7 DEF ProcessTaskRequest, WorkerTypeOK
    <3>4. QED
      BY <2>7, <3>2, <3>3
      DEF ProcessTaskRequest, WorkerTypeOK, RepositoryTypeOK, QueueTypeOK, ListenersOK
  <2>8. CASE ProcessTaskFinish(l)
    <3> DEFINE input == [status |-> "done", response |-> listener[l].reply]
    <3>1. PICK ok \in BOOLEAN :
            /\ UpdateTaskUnlessDone(l, input, ok)
            /\ Become(l, [listener[l] EXCEPT
                  !.pc      = "deferred",
                  !.copy    = CopyAfter(l, "done"),
                  !.outcome = IF ok THEN "ok" ELSE "err",
                  !.reply   = NoResponse])
      BY <2>8 DEF ProcessTaskFinish
    <3> DEFINE r == [listener[l] EXCEPT
                  !.pc      = "deferred",
                  !.copy    = CopyAfter(l, "done"),
                  !.outcome = IF ok THEN "ok" ELSE "err",
                  !.reply   = NoResponse]
    <3>2. input \in UpdateTaskInput
      BY <2>1 DEF UpdateTaskInput, TaskStatus, ListenerStates
    <3>3. RepositoryTypeOK'
      BY <3>1, <3>2, UpdateUnlessDoneKeepsType
    <3>4. r \in ListenerStates /\ r.held \in Delivery
      BY <2>1, <2>3 DEF ListenerStates, CopyAfter, TaskStatus
    <3>5. ListenersOK'
      BY <3>1, <3>4, BecomeKeepsType
    <3>6. QED
      BY <2>8, <3>3, <3>5 DEF ProcessTaskFinish, WorkerTypeOK, QueueTypeOK, ListenersOK
  <2>9. CASE ProcessTaskDeferred(l)
    <3>1. StatusOnly("error") \in UpdateTaskInput
      BY DEF StatusOnly, UpdateTaskInput, TaskStatus
    <3>2. RepositoryTypeOK'
      BY <2>9, <3>1, UpdateUnlessDoneKeepsType DEF ProcessTaskDeferred
    <3>3. ListenersOK'
      BY <2>2, <2>9, MoveKeepsType DEF ProcessTaskDeferred, AfterProcessTask
    <3>4. QED
      BY <2>9, <3>2, <3>3 DEF ProcessTaskDeferred, WorkerTypeOK, QueueTypeOK, ListenersOK
  <2>10. CASE HandleMessageDelete(l)
    <3>1. QueueTypeOK'
      BY <2>10, DeleteKeepsType DEF HandleMessageDelete
    <3>2. ListenersOK'
      BY <2>2, <2>10, MoveKeepsType DEF HandleMessageDelete
    <3>3. QED
      BY <2>10, <3>1, <3>2 DEF HandleMessageDelete, WorkerTypeOK, RepositoryTypeOK, ListenersOK
  <2>11. QED
    BY <1>3, <2>4, <2>5, <2>6, <2>7, <2>8, <2>9, <2>10 DEF HandleMessage
<1>4. ASSUME NEW i \in Instances, Stop(i) \/ Exit(i) \/ Start(i)
      PROVE  TypeOK'
  <2>1. Idle \in ListenerStates /\ Idle.pc = "idle"
    BY DEF Idle, ListenerStates
  <2>2. CASE Exit(i)
    BY <2>1, <2>2 DEF Exit, WorkerTypeOK, RepositoryTypeOK, QueueTypeOK
  <2>3. CASE Stop(i) \/ Start(i)
    BY <2>3 DEF Stop, Start, WorkerTypeOK, RepositoryTypeOK, QueueTypeOK
  <2>4. QED
    BY <1>4, <2>2, <2>3
<1>5. QED
  BY <1>1, <1>2, <1>3, <1>4 DEF WorkerNext

LEMMA TypeStep == TypeOK /\ [Next]_vars => TypeOK'
<1>. SUFFICES ASSUME TypeOK, [Next]_vars PROVE TypeOK'
  OBVIOUS
<1>1. CASE ApiNext /\ UNCHANGED workerVars
  BY <1>1, ApiType
<1>2. CASE WorkerNext /\ UNCHANGED apiVars
  BY <1>2, WorkerType
<1>3. ASSUME NEW m \in Msgs, VisibilityTimeout(m) PROVE TypeOK'
  <2>1. QueueTypeOK'
    BY <1>3 DEF VisibilityTimeout, BecomeVisible, TypeOK, QueueTypeOK, Message
  <2>2. QED
    BY <1>3, <2>1 DEF VisibilityTimeout, apiVars, workerVars, TypeOK, RepositoryTypeOK, ApiTypeOK,
       WorkerTypeOK
<1>4. ASSUME NEW m \in ForeignMsgs, NEW body \in Bodies \ Tasks, ForeignSend(m, body) PROVE TypeOK'
  <2>1. QueueTypeOK'
    BY <1>4, SendKeepsType DEF ForeignSend, TypeOK
  <2>2. QED
    BY <1>4, <2>1 DEF ForeignSend, apiVars, workerVars, TypeOK, RepositoryTypeOK, ApiTypeOK,
       WorkerTypeOK
<1>5. CASE UNCHANGED vars
  BY <1>5 DEF vars, TypeOK, RepositoryTypeOK, QueueTypeOK, ApiTypeOK, WorkerTypeOK
<1>6. QED
  BY <1>1, <1>2, <1>3, <1>4, <1>5 DEF Next

(***************************************************************************)
(* The variables keep their types; in particular a listener that is not    *)
(* idle always holds a message.                                            *)
(***************************************************************************)
THEOREM TypeCorrect == Spec => []TypeOK
BY TypeInit, TypeStep, PTL DEF Spec

-----------------------------------------------------------------------------
(* What a step of anyone can do                                            *)

(***************************************************************************)
(* The actions, one disjunct each.                                         *)
(***************************************************************************)
LEMMA NextCases ==
    ASSUME [Next]_vars
    PROVE  \/ \E t \in Tasks :
                /\ \/ CreateTaskInsert(t) \/ CreateTaskSend(t) \/ CreateTaskCompensate(t)
                   \/ ContextDone(t) \/ CallDies(t)
                /\ UNCHANGED workerVars
           \/ \E i \in Instances, msgs \in SUBSET Msgs : Receive(i, msgs) /\ UNCHANGED apiVars
           \/ \E l \in Listeners : \E d \in batch[l[1]] : Dispatch(l, d) /\ UNCHANGED apiVars
           \/ \E l \in Listeners : HandleMessage(l) /\ UNCHANGED apiVars
           \/ \E i \in Instances : (Stop(i) \/ Exit(i) \/ Start(i)) /\ UNCHANGED apiVars
           \/ \E m \in Msgs : VisibilityTimeout(m)
           \/ \E m \in ForeignMsgs, body \in Bodies \ Tasks : ForeignSend(m, body)
           \/ UNCHANGED vars
BY DEF Next, ApiNext, CreateTask, WorkerNext

(***************************************************************************)
(* What a step can do to the row of t.                                     *)
(***************************************************************************)
Inserts(t) ==
    /\ call[t] = "insert"
    /\ call'[t] # "insert"
    /\ table'[t] = [status |-> "new", response |-> NoResponse]

Updates(t) ==
    /\ Exists(t)
    /\ \E input \in UpdateTaskInput :
          /\ table'[t] = SetUpdateFields(table[t], input)
          /\ input.status = "done" =>
                \E l \in Listeners : /\ listener[l].pc = "finish"
                                     /\ input.response = listener[l].reply

LEMMA TryUpdateEffect ==
    ASSUME TypeOK, NEW l \in Listeners, NEW input \in UpdateTaskInput, NEW ok \in BOOLEAN,
           UpdateTaskUnlessDone(l, input, ok),
           input.status = "done" => listener[l].pc = "finish" /\ input.response = listener[l].reply,
           NEW t \in Tasks
    PROVE  table'[t] = table[t] \/ Updates(t)
BY DEF TypeOK, RepositoryTypeOK, UpdateTaskUnlessDone, TryUpdate, UpdateTask, Updates, Exists

LEMMA TableStep ==
    ASSUME TypeOK, [Next]_vars, NEW t \in Tasks
    PROVE  table'[t] = table[t] \/ Inserts(t) \/ Updates(t)
<1>1. ASSUME NEW u \in Tasks, CreateTaskInsert(u)
      PROVE  table'[t] = table[t] \/ Inserts(t)
  BY <1>1 DEF CreateTaskInsert, CreateTaskRow, Goto, Inserts, TypeOK, RepositoryTypeOK, ApiTypeOK
<1>2. ASSUME NEW u \in Tasks, CreateTaskCompensate(u)
      PROVE  table'[t] = table[t] \/ Updates(t)
  <2>1. StatusOnly("error") \in UpdateTaskInput /\ StatusOnly("error").status = "error"
    BY DEF StatusOnly, UpdateTaskInput, TaskStatus
  <2>2. QED
    BY <1>2, <2>1 DEF CreateTaskCompensate, UpdateTask, Updates, Exists, TypeOK, RepositoryTypeOK
<1>3. ASSUME NEW l \in Listeners, HandleMessage(l)
      PROVE  table'[t] = table[t] \/ Updates(t)
  <2>1. \A s \in TaskStatus : StatusOnly(s) \in UpdateTaskInput /\ StatusOnly(s).status = s
    BY DEF StatusOnly, UpdateTaskInput
  <2>2. CASE ProcessTaskMark(l)
    BY <2>1, <2>2, TryUpdateEffect DEF ProcessTaskMark, TaskStatus
  <2>3. CASE ProcessTaskFinish(l)
    <3>1. [status |-> "done", response |-> listener[l].reply] \in UpdateTaskInput
      BY DEF UpdateTaskInput, TaskStatus, TypeOK, WorkerTypeOK, ListenerStates
    <3>2. QED
      BY <2>3, <3>1, TryUpdateEffect DEF ProcessTaskFinish
  <2>4. CASE ProcessTaskDeferred(l)
    BY <2>1, <2>4, TryUpdateEffect DEF ProcessTaskDeferred, TaskStatus
  <2>5. CASE \/ HandleMessageDecode(l) \/ ProcessTaskGet(l) \/ ProcessTaskRequest(l)
             \/ HandleMessageDelete(l)
    BY <2>5 DEF HandleMessageDecode, ProcessTaskGet, ProcessTaskRequest, HandleMessageDelete
  <2>6. QED
    BY <1>3, <2>2, <2>3, <2>4, <2>5 DEF HandleMessage
<1>4. QED
  BY <1>1, <1>2, <1>3, NextCases
  DEF CreateTaskSend, ContextDone, CallDies, Receive, Dispatch, Stop, Exit, Start,
      VisibilityTimeout, ForeignSend, vars

(***************************************************************************)
(* What a step can do to message m.                                        *)
(***************************************************************************)
Sends(m) ==
    /\ ~IsSent(m)
    /\ \E body \in Bodies :
          /\ queue'[m] = [state |-> "visible", body |-> body, receives |-> 0]
          /\ body \in Tasks => call[body] = "send"

Hides(m) ==
    /\ queue[m].state = "visible"
    /\ queue'[m] = [queue[m] EXCEPT !.state = "inflight", !.receives = @ + 1]

Reappears(m) ==
    /\ queue[m].state = "inflight"
    /\ queue'[m] = [queue[m] EXCEPT !.state = "visible"]

DeleteCalled(l) ==
    \/ listener[l].pc = "delete"
    \/ /\ listener[l].pc = "decode"
       /\ OverLimit(listener[l].held) \/ ~Decodes(listener[l].held)

Deletes(m) ==
    /\ queue'[m] = [queue[m] EXCEPT !.state = "deleted"]
    /\ \E l \in Listeners : listener[l].held.msg = m /\ DeleteCalled(l)

LEMMA QueueStep ==
    ASSUME TypeOK, [Next]_vars, NEW m \in Msgs
    PROVE  queue'[m] = queue[m] \/ Sends(m) \/ Hides(m) \/ Reappears(m) \/ Deletes(m)
<1>1. ASSUME NEW t \in Tasks, CreateTaskSend(t)
      PROVE  queue'[m] = queue[m] \/ Sends(m)
  <2>1. t \in Bodies /\ call[t] = "send"
    BY <1>1, RequesterAssumption DEF CreateTaskSend, Bodies
  <2>2. ASSUME NEW copies, SendMessage(t, copies)
        PROVE  queue'[m] = queue[m] \/ Sends(m)
    BY <2>1, <2>2 DEF SendMessage, Sends
  <2>3. QED
    BY <1>1, <2>2 DEF CreateTaskSend
<1>2. ASSUME NEW n \in ForeignMsgs, NEW body \in Bodies \ Tasks, ForeignSend(n, body)
      PROVE  queue'[m] = queue[m] \/ Sends(m)
  BY <1>2 DEF ForeignSend, SendMessage, Sends
<1>3. ASSUME NEW i \in Instances, NEW msgs \in SUBSET Msgs, Receive(i, msgs)
      PROVE  queue'[m] = queue[m] \/ Hides(m)
  BY <1>3 DEF Receive, GetMessages, Receivable, Hides
<1>4. ASSUME NEW n \in Msgs, VisibilityTimeout(n)
      PROVE  queue'[m] = queue[m] \/ Reappears(m)
  BY <1>4 DEF VisibilityTimeout, BecomeVisible, Reappears, TypeOK, QueueTypeOK
<1>5. ASSUME NEW l \in Listeners, HandleMessage(l)
      PROVE  queue'[m] = queue[m] \/ Deletes(m)
  <2>1. ASSUME TryDelete(listener[l].held), DeleteCalled(l)
        PROVE  queue'[m] = queue[m] \/ Deletes(m)
    BY <2>1 DEF TryDelete, DeleteMessage, Deletes, TypeOK, QueueTypeOK
  <2>2. CASE HandleMessageDecode(l)
    BY <2>1, <2>2 DEF HandleMessageDecode, DeleteCalled
  <2>3. CASE HandleMessageDelete(l)
    BY <2>1, <2>3 DEF HandleMessageDelete, DeleteCalled
  <2>4. CASE \/ ProcessTaskGet(l) \/ ProcessTaskMark(l) \/ ProcessTaskRequest(l)
             \/ ProcessTaskFinish(l) \/ ProcessTaskDeferred(l)
    BY <2>4 DEF ProcessTaskGet, ProcessTaskMark, ProcessTaskRequest, ProcessTaskFinish,
                ProcessTaskDeferred
  <2>5. QED
    BY <1>5, <2>2, <2>3, <2>4 DEF HandleMessage
<1>6. ASSUME NEW t \in Tasks,
             \/ CreateTaskInsert(t) \/ CreateTaskCompensate(t) \/ ContextDone(t) \/ CallDies(t)
      PROVE  queue' = queue
  BY <1>6 DEF CreateTaskInsert, CreateTaskCompensate, ContextDone, CallDies
<1>7. ASSUME NEW i \in Instances, Stop(i) \/ Exit(i) \/ Start(i)
      PROVE  queue' = queue
  BY <1>7 DEF Stop, Exit, Start
<1>8. ASSUME NEW l \in Listeners, NEW d \in batch[l[1]], Dispatch(l, d)
      PROVE  queue' = queue
  BY <1>8 DEF Dispatch
<1>9. QED
  BY <1>1, <1>2, <1>3, <1>4, <1>5, <1>6, <1>7, <1>8, NextCases DEF vars

(***************************************************************************)
(* Rows and messages only grow: what was once seen of them stays true.     *)
(***************************************************************************)
TableGrows ==
    \A t \in Tasks :
        /\ Exists(t) => Exists(t)'
        /\ table[t].response # NoResponse => table'[t].response # NoResponse

QueueGrows ==
    \A m \in Msgs : IsSent(m) =>
        /\ IsSent(m)'
        /\ queue'[m].body = queue[m].body
        /\ queue'[m].receives >= queue[m].receives

LEMMA UpdatesEffect ==
    ASSUME TypeOK, NEW t \in Tasks, Updates(t)
    PROVE  /\ Exists(t)'
           /\ table[t].response # NoResponse => table'[t].response # NoResponse
<1>1. PICK input \in UpdateTaskInput : table'[t] = SetUpdateFields(table[t], input)
  BY DEF Updates
<1>2. table'[t].status \in TaskStatus
  BY <1>1 DEF SetUpdateFields, UpdateTaskInput
<1>3. Exists(t)'
  BY <1>2 DEF Exists, NoRow, TaskStatus
<1>4. table[t].response # NoResponse => table'[t].response # NoResponse
  BY <1>1 DEF SetUpdateFields
<1>5. QED
  BY <1>3, <1>4

LEMMA Grows ==
    ASSUME SafetyInv, [Next]_vars
    PROVE  TableGrows /\ QueueGrows
<1>1. TypeOK
  BY DEF SafetyInv
<1>2. ASSUME NEW t \in Tasks
      PROVE  /\ Exists(t) => Exists(t)'
             /\ table[t].response # NoResponse => table'[t].response # NoResponse
  <2>1. CASE table'[t] = table[t]
    BY <2>1 DEF Exists
  <2>2. CASE Inserts(t)
    <3>1. table[t] = NoRow
      BY <2>2 DEF Inserts, SafetyInv, HandlerInv
    <3>2. QED
      BY <3>1 DEF Exists, NoRow
  <2>3. CASE Updates(t)
    BY <1>1, <2>3, UpdatesEffect
  <2>4. QED
    BY <1>1, <2>1, <2>2, <2>3, TableStep
<1>3. ASSUME NEW m \in Msgs, IsSent(m)
      PROVE  /\ IsSent(m)'
             /\ queue'[m].body = queue[m].body
             /\ queue'[m].receives >= queue[m].receives
  <2>1. queue[m] \in Message /\ queue[m].receives \in Nat
    BY <1>1 DEF TypeOK, QueueTypeOK, Message
  <2>2. CASE queue'[m] = queue[m]
    BY <1>3, <2>1, <2>2 DEF IsSent
  <2>3. CASE Hides(m)
    BY <2>1, <2>3 DEF Hides, IsSent, Message
  <2>4. CASE Reappears(m)
    BY <2>1, <2>4 DEF Reappears, IsSent, Message
  <2>5. CASE Deletes(m)
    BY <2>1, <2>5 DEF Deletes, IsSent, Message
  <2>6. QED
    BY <1>1, <1>3, <2>2, <2>3, <2>4, <2>5, QueueStep DEF Sends
<1>4. QED
  BY <1>2, <1>3 DEF TableGrows, QueueGrows

LEMMA DeliveryStays ==
    ASSUME TypeOK, TypeOK', QueueGrows, NEW d, DeliveryOK(d)
    PROVE  DeliveryOK(d)' /\ BodyOf(d)' = BodyOf(d)
<1>1. d.msg \in Msgs /\ d.count \in Nat
  BY DEF DeliveryOK, Delivery
<1>2. queue[d.msg].receives \in Nat /\ queue'[d.msg].receives \in Nat
  BY <1>1 DEF TypeOK, QueueTypeOK, Message
<1>3. QED
  BY <1>1, <1>2 DEF DeliveryOK, QueueGrows, BodyOf

LEMMA ListenerStays ==
    ASSUME TypeOK, TypeOK', TableGrows, QueueGrows, NEW l \in Listeners, ListenerInv(l),
           listener'[l] = listener[l]
    PROVE  ListenerInv(l)'
<1>1. CASE listener[l].pc = "idle"
  BY <1>1 DEF ListenerInv
<1>2. CASE listener[l].pc # "idle"
  <2>1. DeliveryOK(listener[l].held)
    BY <1>2 DEF ListenerInv
  <2>2. DeliveryOK(listener[l].held)' /\ TaskOf(l)' = TaskOf(l)
    BY <2>1, DeliveryStays DEF TaskOf, DeliveryOK, BodyOf, QueueGrows
  <2>3. QED
    BY <2>2 DEF ListenerInv, TableGrows, OverLimit
<1>3. QED
  BY <1>1, <1>2

(***************************************************************************)
(* The parts of SafetyInv, one lemma each.                                 *)
(***************************************************************************)
LEMMA RowStep ==
    ASSUME SafetyInv, [Next]_vars, NEW t \in Tasks
    PROVE  RowInv(t)'
<1>1. TypeOK /\ RowInv(t)
  BY DEF SafetyInv
<1>2. CASE table'[t] = table[t]
  BY <1>1, <1>2 DEF RowInv
<1>3. CASE Inserts(t)
  BY <1>3 DEF Inserts, RowInv
<1>4. CASE Updates(t)
  <2>1. PICK input \in UpdateTaskInput :
          /\ table'[t] = SetUpdateFields(table[t], input)
          /\ input.status = "done" =>
                \E l \in Listeners : /\ listener[l].pc = "finish"
                                     /\ input.response = listener[l].reply
    BY <1>4 DEF Updates
  <2>2. table'[t].status = input.status
    BY <2>1 DEF SetUpdateFields
  <2>3. CASE input.status = "done"
    <3>1. input.response \in Responses
      BY <2>1, <2>3 DEF SafetyInv, ListenerInv
    <3>2. input.response # NoResponse
      BY <3>1, NoResponseAssumption
    <3>3. QED
      BY <2>1, <3>2 DEF SetUpdateFields, RowInv
  <2>4. QED
    BY <2>2, <2>3 DEF RowInv
<1>5. QED
  BY <1>1, <1>2, <1>3, <1>4, TableStep

LEMMA HandlerStep ==
    ASSUME SafetyInv, [Next]_vars, NEW t \in Tasks
    PROVE  HandlerInv(t)'
<1>. USE DEF SafetyInv
<1>1. TypeOK /\ HandlerInv(t) /\ TableGrows /\ QueueGrows
  BY Grows
<1>2. CASE call'[t] = call[t]
  <2>1. call[t] = "insert" => table'[t] = NoRow
    <3>1. SUFFICES ASSUME call[t] = "insert" PROVE table'[t] = NoRow
      OBVIOUS
    <3>2. table[t] = NoRow
      BY <1>1, <3>1 DEF HandlerInv
    <3>3. ~Inserts(t) /\ ~Updates(t)
      BY <1>2, <3>1, <3>2 DEF Inserts, Updates, Exists
    <3>4. QED
      BY <1>1, <3>2, <3>3, TableStep
  <2>2. call[t] \in {"send", "compensate", "accepted"} => Exists(t)'
    BY <1>1 DEF HandlerInv, TableGrows
  <2>3. call[t] = "accepted" => \E m \in Msgs : IsSent(m)' /\ queue'[m].body = t
    BY <1>1 DEF HandlerInv, QueueGrows
  <2>4. QED
    BY <1>2, <2>1, <2>2, <2>3 DEF HandlerInv
<1>3. CASE call'[t] # call[t]
  <2>1. \/ CreateTaskInsert(t) \/ CreateTaskSend(t) \/ CreateTaskCompensate(t) \/ CallDies(t)
    <3>1. call' # call
      BY <1>3
    <3>2. PICK u \in Tasks : \/ CreateTaskInsert(u) \/ CreateTaskSend(u)
                             \/ CreateTaskCompensate(u) \/ CallDies(u)
      BY <3>1, NextCases DEF ContextDone, apiVars, VisibilityTimeout, ForeignSend, vars
    <3>3. \E s \in CallStates : Goto(u, s)
      BY <3>2 DEF CreateTaskInsert, CreateTaskSend, CreateTaskCompensate, CallDies, CallStates
    <3>4. u = t
      BY <1>1, <1>3, <3>3 DEF Goto, TypeOK, ApiTypeOK
    <3>5. QED
      BY <3>2, <3>4
  <2>2. CASE CreateTaskInsert(t)
    <3>1. CASE call'[t] = "send"
      <4>1. CreateTaskRow(t)
        BY <1>1, <2>2, <3>1 DEF CreateTaskInsert, Goto, TypeOK, ApiTypeOK
      <4>2. Exists(t)'
        BY <1>1, <4>1 DEF CreateTaskRow, Exists, NoRow, TypeOK, RepositoryTypeOK
      <4>3. QED
        BY <3>1, <4>2 DEF HandlerInv
    <3>2. CASE call'[t] = "rejected"
      BY <3>2 DEF HandlerInv
    <3>3. QED
      BY <1>1, <2>2, <3>1, <3>2 DEF CreateTaskInsert, Goto, TypeOK, ApiTypeOK
  <2>3. CASE CreateTaskSend(t)
    <3>1. call'[t] \in {"accepted", "compensate"}
      BY <1>1, <2>3 DEF CreateTaskSend, Goto, TypeOK, ApiTypeOK
    <3>2. Exists(t)'
      BY <1>1, <2>3 DEF CreateTaskSend, HandlerInv, TableGrows
    <3>3. call'[t] = "accepted" => \E m \in Msgs : IsSent(m)' /\ queue'[m].body = t
      <4>1. SUFFICES ASSUME call'[t] = "accepted"
                     PROVE  \E m \in Msgs : IsSent(m)' /\ queue'[m].body = t
        OBVIOUS
      <4>2. PICK m \in Msgs, n \in Msgs : SendMessage(t, {m, n})
        BY <1>1, <2>3, <4>1 DEF CreateTaskSend, Goto, TypeOK, ApiTypeOK
      <4>3. queue'[m] = [state |-> "visible", body |-> t, receives |-> 0]
        BY <4>2 DEF SendMessage
      <4>4. QED
        BY <4>3 DEF IsSent
    <3>4. QED
      BY <3>1, <3>2, <3>3 DEF HandlerInv
  <2>4. CASE CreateTaskCompensate(t)
    BY <1>1, <2>4 DEF CreateTaskCompensate, Goto, TypeOK, ApiTypeOK, HandlerInv
  <2>5. CASE CallDies(t)
    BY <1>1, <2>5 DEF CallDies, Goto, TypeOK, ApiTypeOK, HandlerInv
  <2>6. QED
    BY <2>1, <2>2, <2>3, <2>4, <2>5
<1>4. QED
  BY <1>2, <1>3

LEMMA MessagesHaveRowsStep ==
    ASSUME SafetyInv, [Next]_vars
    PROVE  MessagesHaveRows'
<1>1. TypeOK /\ MessagesHaveRows /\ TableGrows
  BY Grows DEF SafetyInv
<1>2. SUFFICES ASSUME NEW m \in Msgs, IsSent(m)', queue'[m].body \in Tasks
               PROVE  Exists(queue[m].body)'
  BY DEF MessagesHaveRows
<1>3. CASE IsSent(m)
  <2>1. queue'[m].body = queue[m].body
    BY <1>3, Grows DEF QueueGrows
  <2>2. QED
    BY <1>1, <1>2, <1>3, <2>1 DEF MessagesHaveRows, TableGrows, Exists
<1>4. CASE ~IsSent(m)
  <2>1. Sends(m)
    <3>1. queue'[m] # queue[m] /\ ~Hides(m) /\ ~Reappears(m)
      BY <1>2, <1>4 DEF IsSent, Hides, Reappears
    <3>2. ~Deletes(m)
      <4>1. ASSUME NEW l \in Listeners, listener[l].held.msg = m, DeleteCalled(l) PROVE FALSE
        BY <1>4, <4>1 DEF DeleteCalled, SafetyInv, ListenerInv, DeliveryOK
      <4>2. QED
        BY <4>1 DEF Deletes
    <3>3. QED
      BY <1>1, <3>1, <3>2, QueueStep
  <2>2. call[queue'[m].body] = "send"
    BY <1>2, <2>1 DEF Sends
  <2>3. Exists(queue'[m].body)
    BY <1>2, <2>2 DEF SafetyInv, HandlerInv
  <2>4. QED
    BY <1>1, <1>2, <2>3 DEF TableGrows, Exists
<1>5. QED
  BY <1>3, <1>4

(***************************************************************************)
(* The message of a task whose attempts are not used up is deleted only by *)
(* a listener for which ProcessTask returned nil.                          *)
(***************************************************************************)
LEMMA DeletedByHolder ==
    ASSUME SafetyInv, [Next]_vars, NEW m \in Msgs,
           queue'[m].state = "deleted", queue'[m].body \in Tasks, ~Exhausted(m)'
    PROVE  \/ queue'[m] = queue[m]
           \/ \E l \in Listeners : listener[l].pc = "delete" /\ TaskOf(l) = queue'[m].body
<1>1. TypeOK
  BY DEF SafetyInv
<1>2. CASE Deletes(m)
  <2>1. PICK l \in Listeners : listener[l].held.msg = m /\ DeleteCalled(l)
    BY <1>2 DEF Deletes
  <2>2. queue'[m].body = queue[m].body /\ queue'[m].receives = queue[m].receives
    BY <1>1, <1>2 DEF Deletes, TypeOK, QueueTypeOK, Message
  <2>3. ListenerInv(l) /\ TaskOf(l) = queue[m].body
    BY <2>1 DEF SafetyInv, TaskOf, BodyOf
  <2>4. ASSUME listener[l].pc = "decode", OverLimit(listener[l].held)
        PROVE  FALSE
    <3>1. DeliveryOK(listener[l].held)
      BY <2>3, <2>4 DEF ListenerInv
    <3>2. listener[l].held.count \in Nat /\ queue[m].receives \in Nat
      BY <1>1, <3>1 DEF DeliveryOK, Delivery, TypeOK, QueueTypeOK, Message
    <3>3. Exhausted(m)
      BY <2>1, <2>4, <3>1, <3>2, QueueAssumption DEF OverLimit, DeliveryOK, Exhausted
    <3>4. QED
      BY <2>2, <3>3 DEF Exhausted
  <2>5. Decodes(listener[l].held)
    BY <2>1, <2>2, QueueAssumption, RequesterAssumption DEF Decodes, BodyOf
  <2>6. QED
    BY <2>1, <2>2, <2>3, <2>4, <2>5 DEF DeleteCalled
<1>3. queue[m] \in Message
  BY <1>1 DEF TypeOK, QueueTypeOK
<1>4. Sends(m) => queue'[m].state = "visible"
  BY DEF Sends
<1>5. ~Hides(m)
  BY <1>3 DEF Hides, Message
<1>6. ~Reappears(m)
  BY <1>3 DEF Reappears, Message
<1>7. QED
  BY <1>1, <1>2, <1>4, <1>5, <1>6, QueueStep

LEMMA DeletedMeansAnsweredStep ==
    ASSUME SafetyInv, [Next]_vars
    PROVE  DeletedMeansAnswered'
<1>1. DeletedMeansAnswered /\ TableGrows
  BY Grows DEF SafetyInv
<1>2. SUFFICES ASSUME NEW m \in Msgs, queue'[m].state = "deleted", queue'[m].body \in Tasks,
                      ~Exhausted(m)'
               PROVE  table'[queue'[m].body].response # NoResponse
  BY DEF DeletedMeansAnswered
<1>3. CASE queue'[m] = queue[m]
  BY <1>1, <1>2, <1>3 DEF DeletedMeansAnswered, Exhausted, TableGrows
<1>4. ASSUME NEW l \in Listeners, listener[l].pc = "delete", TaskOf(l) = queue'[m].body
      PROVE  table'[queue'[m].body].response # NoResponse
  BY <1>1, <1>2, <1>4 DEF SafetyInv, ListenerInv, TableGrows
<1>5. QED
  BY <1>2, <1>3, <1>4, DeletedByHolder

(***************************************************************************)
(* A delivery that comes into a batch was just received.                   *)
(***************************************************************************)
LEMMA BatchComesFrom ==
    ASSUME TypeOK, [Next]_vars, NEW i \in Instances, NEW d \in batch'[i], d \notin batch[i]
    PROVE  \E msgs \in SUBSET Msgs : GetMessages(msgs) /\ d \in DeliveriesOf(msgs)
<1>1. batch' # batch
  OBVIOUS
<1>2. ASSUME NEW l \in Listeners, HandleMessage(l) PROVE FALSE
  BY <1>1, <1>2 DEF HandleMessage, HandleMessageDecode, ProcessTaskGet, ProcessTaskMark,
     ProcessTaskRequest, ProcessTaskFinish, ProcessTaskDeferred, HandleMessageDelete
<1>3. ASSUME NEW l \in Listeners, NEW e \in batch[l[1]], Dispatch(l, e) PROVE FALSE
  BY <1>3 DEF Dispatch, TypeOK, WorkerTypeOK
<1>4. ASSUME NEW j \in Instances, Stop(j) \/ Exit(j) \/ Start(j) PROVE FALSE
  BY <1>1, <1>4 DEF Stop, Exit, Start, TypeOK, WorkerTypeOK
<1>5. PICK j \in Instances, msgs \in SUBSET Msgs : Receive(j, msgs)
  BY <1>1, <1>2, <1>3, <1>4, NextCases DEF VisibilityTimeout, ForeignSend, workerVars, vars
<1>6. QED
  BY <1>5 DEF Receive, TypeOK, WorkerTypeOK

(***************************************************************************)
(* It is the last delivery of its message, which is hidden.                *)
(***************************************************************************)
LEMMA ReceivedIsLatest ==
    ASSUME TypeOK, NEW msgs \in SUBSET Msgs, GetMessages(msgs), NEW d \in DeliveriesOf(msgs)
    PROVE  /\ d \in Delivery
           /\ queue'[d.msg].state = "inflight"
           /\ d.count = queue'[d.msg].receives
<1>1. PICK m \in msgs : d = [msg |-> m, count |-> queue[m].receives + 1]
  BY DEF DeliveriesOf
<1>2. queue[m] \in Message
  BY DEF TypeOK, QueueTypeOK
<1>3. queue'[m] = [queue[m] EXCEPT !.state = "inflight", !.receives = @ + 1]
  BY DEF GetMessages
<1>4. queue'[m].state = "inflight" /\ queue'[m].receives = queue[m].receives + 1
  BY <1>2, <1>3 DEF Message
<1>5. d \in Delivery
  BY GetMessagesKeepsType DEF TypeOK
<1>6. QED
  BY <1>1, <1>4, <1>5

LEMMA BatchStep ==
    ASSUME SafetyInv, [Next]_vars, NEW i \in Instances, NEW d \in batch'[i]
    PROVE  DeliveryOK(d)'
<1>1. TypeOK /\ TypeOK' /\ QueueGrows
  BY Grows, TypeStep DEF SafetyInv
<1>2. CASE d \in batch[i]
  BY <1>1, <1>2, DeliveryStays DEF SafetyInv
<1>3. CASE d \notin batch[i]
  <2>1. PICK msgs \in SUBSET Msgs : GetMessages(msgs) /\ d \in DeliveriesOf(msgs)
    BY <1>1, <1>3, BatchComesFrom
  <2>2. d \in Delivery /\ queue'[d.msg].state = "inflight" /\ d.count = queue'[d.msg].receives
    BY <1>1, <2>1, ReceivedIsLatest
  <2>3. d.count \in Nat
    BY <2>2, QueueAssumption DEF Delivery
  <2>4. QED
    BY <2>2, <2>3 DEF DeliveryOK, IsSent
<1>4. QED
  BY <1>2, <1>3

LEMMA RequestedStep ==
    ASSUME SafetyInv, [Next]_vars, NEW d \in requested'
    PROVE  DeliveryOK(d)' /\ ~OverLimit(d)
<1>1. TypeOK /\ TypeOK' /\ QueueGrows
  BY Grows, TypeStep DEF SafetyInv
<1>2. DeliveryOK(d) /\ ~OverLimit(d)
  <2>1. CASE d \in requested
    BY <2>1 DEF SafetyInv
  <2>2. CASE d \notin requested
    <3>1. PICK l \in Listeners : listener[l].pc = "request" /\ d = listener[l].held
      BY <2>2, NextCases
      DEF Receive, Dispatch, HandleMessage, HandleMessageDecode, ProcessTaskGet, ProcessTaskMark,
          ProcessTaskRequest, ProcessTaskFinish, ProcessTaskDeferred, HandleMessageDelete, Stop, Exit,
          Start, VisibilityTimeout, ForeignSend, workerVars, vars
    <3>2. QED
      BY <3>1 DEF SafetyInv, ListenerInv
  <2>3. QED
    BY <2>1, <2>2
<1>3. QED
  BY <1>1, <1>2, DeliveryStays

-----------------------------------------------------------------------------

(***************************************************************************)
(* What a listener knows after a step.  A step of someone else leaves it   *)
(* what it knows (ListenerStays); its own steps are a case each.           *)
(***************************************************************************)
LEMMA HeldStays ==
    ASSUME SafetyInv, [Next]_vars, NEW l \in Listeners, listener[l].pc # "idle",
           listener'[l].held = listener[l].held
    PROVE  DeliveryOK(listener[l].held)' /\ TaskOf(l)' = TaskOf(l)
<1>1. TypeOK /\ TypeOK' /\ QueueGrows
  BY Grows, TypeStep DEF SafetyInv
<1>2. DeliveryOK(listener[l].held)
  BY DEF SafetyInv, ListenerInv
<1>3. QED
  BY <1>1, <1>2, DeliveryStays DEF TaskOf, BodyOf, DeliveryOK, QueueGrows

LEMMA BecomeRecord ==
    ASSUME TypeOK, NEW l \in Listeners, NEW r, Become(l, r)
    PROVE  listener'[l] = r /\ \A k \in Listeners : k # l => listener'[k] = listener[k]
BY DEF Become, TypeOK, WorkerTypeOK

LEMMA DispatchStep ==
    ASSUME SafetyInv, [Next]_vars, NEW l \in Listeners, NEW d \in batch[l[1]], Dispatch(l, d)
    PROVE  ListenerInv(l)'
<1>1. TypeOK /\ TypeOK' /\ QueueGrows
  BY Grows, TypeStep DEF SafetyInv
<1> DEFINE r == [Idle EXCEPT !.pc = "decode", !.held = d]
<1>a. r.pc = "decode" /\ r.held = d
  BY DEF Idle
<1>2. listener'[l].pc = "decode" /\ listener'[l].held = d
  BY <1>1, <1>a, BecomeRecord DEF Dispatch
<1>3. l[1] \in Instances
  BY DEF Listeners
<1>4. DeliveryOK(d)'
  BY <1>1, <1>3, DeliveryStays DEF SafetyInv
<1>5. DeliveryOK(listener[l].held)'
  BY <1>2, <1>4 DEF DeliveryOK, IsSent
<1>6. QED
  BY <1>2, <1>5 DEF ListenerInv

LEMMA DecodeStep ==
    ASSUME SafetyInv, [Next]_vars, NEW l \in Listeners, HandleMessageDecode(l)
    PROVE  ListenerInv(l)'
<1>1. TypeOK /\ listener[l] \in ListenerStates /\ listener[l].pc = "decode"
  BY DEF SafetyInv, TypeOK, WorkerTypeOK, HandleMessageDecode
<1>2. CASE BecomeIdle(l)
  BY <1>1, <1>2, BecomeRecord DEF BecomeIdle, Idle, ListenerInv
<1>3. CASE ~OverLimit(listener[l].held) /\ Step(l, "get")
  <2>1. listener'[l].pc = "get" /\ listener'[l].held = listener[l].held
    BY <1>1, <1>3, BecomeRecord DEF Step, ListenerStates
  <2>2. DeliveryOK(listener[l].held)'
    BY <1>1, <2>1, HeldStays
  <2>3. QED
    BY <1>3, <2>1, <2>2 DEF ListenerInv, OverLimit
<1>4. QED
  BY <1>2, <1>3 DEF HandleMessageDecode

LEMMA GetStep ==
    ASSUME SafetyInv, [Next]_vars, NEW l \in Listeners, ProcessTaskGet(l)
    PROVE  ListenerInv(l)'
<1>1. TypeOK /\ listener[l] \in ListenerStates /\ listener[l].pc = "get" /\ ListenerInv(l)
  BY DEF SafetyInv, TypeOK, WorkerTypeOK, ProcessTaskGet
<1>2. CASE BecomeIdle(l)
  BY <1>1, <1>2, BecomeRecord DEF BecomeIdle, Idle, ListenerInv
<1>3. ~OverLimit(listener[l].held)
  BY <1>1 DEF ListenerInv
<1>4. CASE /\ TaskOf(l) \notin Tasks \/ ~Exists(TaskOf(l)) \/ table[TaskOf(l)].status = "done"
           /\ Step(l, "delete")
  <2>1. listener'[l].pc = "delete" /\ listener'[l].held = listener[l].held
    BY <1>1, <1>4, BecomeRecord DEF Step, ListenerStates
  <2>2. DeliveryOK(listener[l].held)' /\ TaskOf(l)' = TaskOf(l)
    BY <1>1, <2>1, HeldStays
  <2>3. TaskOf(l) \in Tasks => Exists(TaskOf(l))
    BY <1>1 DEF SafetyInv, ListenerInv, DeliveryOK, Delivery, MessagesHaveRows, TaskOf, BodyOf
  <2>4. TaskOf(l) \in Tasks => table[TaskOf(l)].response # NoResponse
    BY <1>4, <2>3 DEF SafetyInv, RowInv
  <2>5. TaskOf(l) \in Tasks => table'[TaskOf(l)].response # NoResponse
    BY <2>4, Grows DEF TableGrows
  <2>6. QED
    BY <1>3, <2>1, <2>2, <2>5 DEF ListenerInv, OverLimit
<1>5. CASE /\ TaskOf(l) \in Tasks /\ table[TaskOf(l)].status # "done"
           /\ Become(l, [listener[l] EXCEPT !.pc = "mark", !.copy = table[TaskOf(l)].status])
  <2> DEFINE r == [listener[l] EXCEPT !.pc = "mark", !.copy = table[TaskOf(l)].status]
  <2>a. r.pc = "mark" /\ r.held = listener[l].held /\ r.copy = table[TaskOf(l)].status
    BY <1>1 DEF ListenerStates
  <2>b. listener'[l] = r
    BY <1>1, <1>5, BecomeRecord
  <2>1. /\ listener'[l].pc = "mark"
        /\ listener'[l].held = listener[l].held
        /\ listener'[l].copy = table[TaskOf(l)].status
    BY <2>a, <2>b
  <2>2. DeliveryOK(listener[l].held)' /\ TaskOf(l)' = TaskOf(l)
    BY <1>1, <2>1, HeldStays
  <2>3. QED
    BY <1>3, <1>5, <2>1, <2>2 DEF ListenerInv, OverLimit
<1>6. QED
  BY <1>2, <1>4, <1>5 DEF ProcessTaskGet

LEMMA MarkStep ==
    ASSUME SafetyInv, [Next]_vars, NEW l \in Listeners, ProcessTaskMark(l)
    PROVE  ListenerInv(l)'
<1>1. TypeOK /\ listener[l] \in ListenerStates /\ listener[l].pc = "mark" /\ ListenerInv(l)
  BY DEF SafetyInv, TypeOK, WorkerTypeOK, ProcessTaskMark
<1>2. /\ ~OverLimit(listener[l].held)
      /\ TaskOf(l) \in Tasks
      /\ listener[l].copy # "done"
  BY <1>1 DEF ListenerInv
<1>3. PICK ok \in BOOLEAN :
        Become(l, [listener[l] EXCEPT
            !.pc      = IF ok THEN "request" ELSE "deferred",
            !.copy    = CopyAfter(l, "in_process"),
            !.outcome = IF ok THEN "none" ELSE "err"])
  BY DEF ProcessTaskMark
<1> DEFINE r == [listener[l] EXCEPT
            !.pc      = IF ok THEN "request" ELSE "deferred",
            !.copy    = CopyAfter(l, "in_process"),
            !.outcome = IF ok THEN "none" ELSE "err"]
<1>a. /\ r.held = listener[l].held
      /\ r.copy = "in_process"
      /\ \/ r.pc = "request"
         \/ r.pc = "deferred" /\ r.outcome = "err"
  BY <1>1, <1>2 DEF ListenerStates, CopyAfter
<1>b. listener'[l] = r
  BY <1>1, <1>3, BecomeRecord
<1>4. /\ listener'[l].held = listener[l].held
      /\ listener'[l].copy = "in_process"
      /\ \/ listener'[l].pc = "request"
         \/ listener'[l].pc = "deferred" /\ listener'[l].outcome = "err"
  BY <1>a, <1>b
<1>5. DeliveryOK(listener[l].held)' /\ TaskOf(l)' = TaskOf(l)
  BY <1>1, <1>4, HeldStays
<1>6. QED
  BY <1>2, <1>4, <1>5 DEF ListenerInv, OverLimit

LEMMA RequestStep ==
    ASSUME SafetyInv, [Next]_vars, NEW l \in Listeners, ProcessTaskRequest(l)
    PROVE  ListenerInv(l)'
<1>1. TypeOK /\ listener[l] \in ListenerStates /\ listener[l].pc = "request" /\ ListenerInv(l)
  BY DEF SafetyInv, TypeOK, WorkerTypeOK, ProcessTaskRequest
<1>2. /\ ~OverLimit(listener[l].held)
      /\ TaskOf(l) \in Tasks
      /\ listener[l].copy # "done"
  BY <1>1 DEF ListenerInv
<1>3. ASSUME NEW o \in {"err", "panic"}, Leave(l, o), o = "panic" => TaskOf(l) \in Malformed
      PROVE  ListenerInv(l)'
  <2> DEFINE r == [listener[l] EXCEPT !.pc = "deferred", !.outcome = o]
  <2>1. r.held = listener[l].held /\ r.pc = "deferred" /\ r.outcome = o
    BY <1>1 DEF ListenerStates
  <2>2. listener'[l] = r
    BY <1>1, <1>3, BecomeRecord DEF Leave
  <2>3. DeliveryOK(listener[l].held)' /\ TaskOf(l)' = TaskOf(l)
    BY <1>1, <2>1, <2>2, HeldStays
  <2>4. QED
    BY <1>2, <1>3, <2>1, <2>2, <2>3 DEF ListenerInv, OverLimit
<1>4. ASSUME NEW a \in Responses, Become(l, [listener[l] EXCEPT !.pc = "finish", !.reply = a])
      PROVE  ListenerInv(l)'
  <2> DEFINE r == [listener[l] EXCEPT !.pc = "finish", !.reply = a]
  <2>1. r.held = listener[l].held /\ r.pc = "finish" /\ r.copy = listener[l].copy /\ r.reply = a
    BY <1>1 DEF ListenerStates
  <2>2. listener'[l] = r
    BY <1>1, <1>4, BecomeRecord
  <2>3. DeliveryOK(listener[l].held)' /\ TaskOf(l)' = TaskOf(l)
    BY <1>1, <2>1, <2>2, HeldStays
  <2>4. QED
    BY <1>2, <2>1, <2>2, <2>3 DEF ListenerInv, OverLimit
<1>5. QED
  BY <1>3, <1>4 DEF ProcessTaskRequest, BuildsRequest

LEMMA FinishStep ==
    ASSUME SafetyInv, [Next]_vars, NEW l \in Listeners, ProcessTaskFinish(l)
    PROVE  ListenerInv(l)'
<1>1. TypeOK /\ listener[l] \in ListenerStates /\ listener[l].pc = "finish" /\ ListenerInv(l)
  BY DEF SafetyInv, TypeOK, WorkerTypeOK, ProcessTaskFinish
<1>2. /\ ~OverLimit(listener[l].held)
      /\ TaskOf(l) \in Tasks
      /\ listener[l].copy # "done"
      /\ listener[l].reply \in Responses
      /\ DeliveryOK(listener[l].held)
  BY <1>1 DEF ListenerInv
<1>3. PICK ok \in BOOLEAN :
        /\ UpdateTaskUnlessDone(l, [status |-> "done", response |-> listener[l].reply], ok)
        /\ Become(l, [listener[l] EXCEPT
                !.pc      = "deferred",
                !.copy    = CopyAfter(l, "done"),
                !.outcome = IF ok THEN "ok" ELSE "err",
                !.reply   = NoResponse])
  BY DEF ProcessTaskFinish
<1> DEFINE r == [listener[l] EXCEPT
                !.pc      = "deferred",
                !.copy    = CopyAfter(l, "done"),
                !.outcome = IF ok THEN "ok" ELSE "err",
                !.reply   = NoResponse]
<1>4. r.held = listener[l].held /\ r.pc = "deferred" /\ r.outcome = IF ok THEN "ok" ELSE "err"
  BY <1>1 DEF ListenerStates
<1>5. listener'[l] = r
  BY <1>1, <1>3, BecomeRecord
<1>6. DeliveryOK(listener[l].held)' /\ TaskOf(l)' = TaskOf(l)
  BY <1>1, <1>4, <1>5, HeldStays
<1>7. ok => table'[TaskOf(l)].response # NoResponse
  <2>1. SUFFICES ASSUME ok PROVE table'[TaskOf(l)].response # NoResponse
    OBVIOUS
  <2>2. UpdateTask(TaskOf(l), [status |-> "done", response |-> listener[l].reply])
    BY <1>2, <1>3, <2>1 DEF UpdateTaskUnlessDone, TryUpdate
  <2>3. Exists(TaskOf(l))
    BY <1>2 DEF SafetyInv, MessagesHaveRows, TaskOf, BodyOf, DeliveryOK, Delivery
  <2>4. table'[TaskOf(l)] =
          SetUpdateFields(table[TaskOf(l)], [status |-> "done", response |-> listener[l].reply])
    BY <1>1, <1>2, <2>2, <2>3 DEF UpdateTask, Exists, TypeOK, RepositoryTypeOK
  <2>5. QED
    BY <1>2, <2>4, NoResponseAssumption DEF SetUpdateFields
<1>8. QED
  BY <1>2, <1>4, <1>5, <1>6, <1>7 DEF ListenerInv, OverLimit

LEMMA DeferredStep ==
    ASSUME SafetyInv, [Next]_vars, NEW l \in Listeners, ProcessTaskDeferred(l)
    PROVE  ListenerInv(l)'
<1>1. TypeOK /\ listener[l] \in ListenerStates /\ listener[l].pc = "deferred" /\ ListenerInv(l)
  BY DEF SafetyInv, TypeOK, WorkerTypeOK, ProcessTaskDeferred
<1>2. ~OverLimit(listener[l].held) /\ TaskOf(l) \in Tasks
  BY <1>1 DEF ListenerInv
<1>3. CASE listener[l].outcome = "ok" /\ Step(l, "delete")
  <2> DEFINE r == [listener[l] EXCEPT !.pc = "delete"]
  <2>1. r.pc = "delete" /\ r.held = listener[l].held
    BY <1>1 DEF ListenerStates
  <2>2. listener'[l] = r
    BY <1>1, <1>3, BecomeRecord DEF Step
  <2>3. DeliveryOK(listener[l].held)' /\ TaskOf(l)' = TaskOf(l)
    BY <1>1, <2>1, <2>2, HeldStays
  <2>4. table[TaskOf(l)].response # NoResponse
    BY <1>1, <1>3 DEF ListenerInv
  <2>5. table'[TaskOf(l)].response # NoResponse
    BY <1>2, <2>4, Grows DEF TableGrows
  <2>6. QED
    BY <1>2, <2>1, <2>2, <2>3, <2>5 DEF ListenerInv, OverLimit
<1>4. CASE BecomeIdle(l)
  BY <1>1, <1>4, BecomeRecord DEF BecomeIdle, Idle, ListenerInv
<1>5. CASE listener[l].outcome = "panic" /\ Panic(l)
  <2> DEFINE r == [Idle EXCEPT !.pc = "dead", !.held = listener[l].held]
  <2>1. r.pc = "dead" /\ r.held = listener[l].held
    BY DEF Idle
  <2>2. listener'[l] = r
    BY <1>1, <1>5, BecomeRecord DEF Panic
  <2>3. DeliveryOK(listener[l].held)' /\ TaskOf(l)' = TaskOf(l)
    BY <1>1, <2>1, <2>2, HeldStays
  <2>4. TaskOf(l) \in Malformed
    BY <1>1, <1>5 DEF ListenerInv
  <2>5. QED
    BY <1>2, <2>1, <2>2, <2>3, <2>4 DEF ListenerInv, OverLimit
<1>6. QED
  BY <1>3, <1>4, <1>5 DEF ProcessTaskDeferred, AfterProcessTask

LEMMA ListenerStep ==
    ASSUME SafetyInv, [Next]_vars, NEW l \in Listeners
    PROVE  ListenerInv(l)'
<1>1. TypeOK /\ TypeOK' /\ TableGrows /\ QueueGrows /\ ListenerInv(l)
  BY Grows, TypeStep DEF SafetyInv
<1>2. CASE listener'[l] = listener[l]
  BY <1>1, <1>2, ListenerStays
<1>3. CASE HandleMessage(l)
  <2>1. CASE HandleMessageDelete(l)
    BY <1>1, <2>1, BecomeRecord DEF HandleMessageDelete, BecomeIdle, Idle, ListenerInv
  <2>2. QED
    BY <1>3, <2>1, DecodeStep, GetStep, MarkStep, RequestStep, FinishStep, DeferredStep
    DEF HandleMessage
<1>4. ASSUME NEW d \in batch[l[1]], Dispatch(l, d)
      PROVE  ListenerInv(l)'
  BY <1>4, DispatchStep
<1>5. ASSUME NEW i \in Instances, Stop(i) \/ Exit(i) \/ Start(i)
      PROVE  listener'[l] = listener[l] \/ ListenerInv(l)'
  BY <1>5 DEF Stop, Exit, Start, Idle, ListenerInv
<1>6. ASSUME NEW k \in Listeners, k # l, HandleMessage(k)
      PROVE  listener'[l] = listener[l]
  BY <1>1, <1>6, BecomeRecord
  DEF HandleMessage, HandleMessageDecode, ProcessTaskGet, ProcessTaskMark, ProcessTaskRequest,
      ProcessTaskFinish, ProcessTaskDeferred, HandleMessageDelete, AfterProcessTask, BecomeIdle,
      Panic, Step, Leave
<1>7. ASSUME NEW k \in Listeners, k # l, NEW d \in batch[k[1]], Dispatch(k, d)
      PROVE  listener'[l] = listener[l]
  BY <1>1, <1>7, BecomeRecord DEF Dispatch
<1>8. ASSUME UNCHANGED workerVars
      PROVE  listener'[l] = listener[l]
  BY <1>8 DEF workerVars
<1>9. ASSUME NEW i \in Instances, NEW msgs \in SUBSET Msgs, Receive(i, msgs)
      PROVE  listener'[l] = listener[l]
  BY <1>9 DEF Receive
<1>10. QED
  BY <1>2, <1>3, <1>4, <1>5, <1>6, <1>7, <1>8, <1>9, NextCases
  DEF VisibilityTimeout, ForeignSend, vars, workerVars

LEMMA SafetyInit == Init => SafetyInv
<1>. SUFFICES ASSUME Init PROVE SafetyInv
  OBVIOUS
<1>1. /\ table = [t \in Tasks |-> NoRow]
      /\ queue = [m \in Msgs |-> Unsent]
      /\ call = [t \in Tasks |-> "insert"]
      /\ batch = [i \in Instances |-> {}]
      /\ listener = [l \in Listeners |-> Idle]
      /\ requested = {}
  BY DEF Init, RepositoryInit, QueueInit, ApiInit, WorkerInit
<1>2. \A t \in Tasks : HandlerInv(t) /\ RowInv(t)
  BY <1>1 DEF HandlerInv, RowInv, NoRow
<1>3. \A l \in Listeners : ListenerInv(l)
  BY <1>1 DEF ListenerInv, Idle
<1>4. MessagesHaveRows /\ DeletedMeansAnswered
  BY <1>1 DEF MessagesHaveRows, DeletedMeansAnswered, IsSent, Unsent
<1>5. QED
  BY <1>1, <1>2, <1>3, <1>4, TypeInit DEF SafetyInv

LEMMA SafetyStep == SafetyInv /\ [Next]_vars => SafetyInv'
<1>. SUFFICES ASSUME SafetyInv, [Next]_vars PROVE SafetyInv'
  OBVIOUS
<1>1. TypeOK'
  BY TypeStep DEF SafetyInv
<1>2. \A t \in Tasks : HandlerInv(t)' /\ RowInv(t)'
  BY HandlerStep, RowStep
<1>3. \A l \in Listeners : ListenerInv(l)'
  BY ListenerStep
<1>4. \A i \in Instances : \A d \in batch'[i] : DeliveryOK(d)'
  BY BatchStep
<1>5. \A d \in requested' : DeliveryOK(d)' /\ ~OverLimit(d)'
  BY RequestedStep DEF OverLimit
<1>6. QED
  BY <1>1, <1>2, <1>3, <1>4, <1>5, MessagesHaveRowsStep, DeletedMeansAnsweredStep DEF SafetyInv

THEOREM SafetyInvariant == Spec => []SafetyInv
BY SafetyInit, SafetyStep, PTL DEF Spec

-----------------------------------------------------------------------------

(***************************************************************************)
(* A message never names a task without a row: however an insert or a send *)
(* fails, ProcessTask's "task not found" is never a task that is merely    *)
(* late in appearing.                                                      *)
(***************************************************************************)
THEOREM MessagesAlwaysHaveRows == Spec => []MessagesHaveRows
BY SafetyInvariant, PTL DEF SafetyInv

(***************************************************************************)
(* No message of a task is deleted before the task was answered or the     *)
(* message was received more often than allowed, with every fault.         *)
(***************************************************************************)
THEOREM DeletedAlwaysAnswered == Spec => []DeletedMeansAnswered
BY SafetyInvariant, PTL DEF SafetyInv

(***************************************************************************)
(* A task whose id the client has is in the queue, answered, or exhausted. *)
(***************************************************************************)
THEOREM AcceptedNeverLost == Spec => []AcceptedNotLost
<1>1. SafetyInv => AcceptedNotLost
  <2>. SUFFICES ASSUME SafetyInv, NEW t \in Tasks, call[t] = "accepted"
                PROVE  \E m \in Msgs :
                          /\ IsSent(m) /\ queue[m].body = t
                          /\ \/ queue[m].state # "deleted"
                             \/ Exhausted(m)
                             \/ table[t].response # NoResponse
    BY DEF AcceptedNotLost
  <2>1. PICK m \in Msgs : IsSent(m) /\ queue[m].body = t
    BY DEF SafetyInv, HandlerInv
  <2>2. \/ queue[m].state # "deleted"
        \/ Exhausted(m)
        \/ table[t].response # NoResponse
    BY <2>1 DEF SafetyInv, DeletedMeansAnswered
  <2>3. QED
    BY <2>1, <2>2
<1>2. QED
  BY <1>1, SafetyInvariant, PTL
=============================================================================
