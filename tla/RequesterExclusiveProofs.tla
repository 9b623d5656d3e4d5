----------------------- MODULE RequesterExclusiveProofs -----------------------
(***************************************************************************)
(* What holds of Requester when no message becomes visible while a worker  *)
(* has it and a send adds one message or none (Exclusive), proved from the *)
(* inductive invariant ExclusiveInv.                                       *)
(*                                                                         *)
(* The argument is about who may write to the row of a task.  Its handler  *)
(* does so only before the task's one message is sent; after that, only    *)
(* the one listener that has the last delivery of that message (OneHolder).*)
(* So nobody changes a row behind the back of a listener, and what it read *)
(* in its first call is still true in its last.                            *)
(***************************************************************************)
EXTENDS RequesterDeliveryProofs

(***************************************************************************)
(* A message is with one holder: two holders would have two deliveries of  *)
(* it, and only one is the latest.                                         *)
(***************************************************************************)
LEMMA LatestIsOne ==
    ASSUME NEW d, NEW e, DeliveryOK(d), DeliveryOK(e), IsLatest(d), IsLatest(e), d.msg = e.msg
    PROVE  d = e
BY DEF DeliveryOK, Delivery, IsLatest, Stale

LEMMA OneHolder ==
    ASSUME SafetyInv, DeliveriesInv, HeldIsLatest, NEW l \in Listeners, IsWorking(l)
    PROVE  /\ \A k \in Listeners : IsWorking(k) /\ k # l => listener[k].held.msg # listener[l].held.msg
           /\ \A i \in Instances : \A d \in batch[i] : d.msg # listener[l].held.msg
<1>1. DeliveryOK(listener[l].held) /\ IsLatest(listener[l].held) /\ Holds(l)
  BY DEF SafetyInv, ListenerInv, HeldIsLatest, IsWorking, Holds
<1>2. ASSUME NEW k \in Listeners, IsWorking(k), k # l
      PROVE  listener[k].held.msg # listener[l].held.msg
  <2>1. DeliveryOK(listener[k].held) /\ IsLatest(listener[k].held) /\ Holds(k)
    BY <1>2 DEF SafetyInv, ListenerInv, HeldIsLatest, IsWorking, Holds
  <2>2. listener[k].held # listener[l].held
    BY <1>1, <1>2, <2>1 DEF DeliveriesInv
  <2>3. QED
    BY <1>1, <2>1, <2>2, LatestIsOne
<1>3. ASSUME NEW i \in Instances, NEW d \in batch[i]
      PROVE  d.msg # listener[l].held.msg
  <2>1. DeliveryOK(d) /\ IsLatest(d) /\ d # listener[l].held
    BY <1>1 DEF SafetyInv, HeldIsLatest, DeliveriesInv
  <2>2. QED
    BY <1>1, <2>1, LatestIsOne
<1>4. QED
  BY <1>2, <1>3

(***************************************************************************)
(* So is a task.                                                           *)
(***************************************************************************)
LEMMA OneWorker ==
    ASSUME SafetyInv, DeliveriesInv, HeldIsLatest, OneMessagePerTask,
           NEW k \in Listeners, NEW l \in Listeners, IsWorking(k), IsWorking(l),
           TaskOf(k) \in Tasks, TaskOf(k) = TaskOf(l)
    PROVE  k = l
<1>1. DeliveryOK(listener[k].held) /\ DeliveryOK(listener[l].held)
  BY DEF SafetyInv, ListenerInv, IsWorking
<1>2. listener[k].held.msg = listener[l].held.msg
  BY <1>1 DEF OneMessagePerTask, TaskOf, BodyOf, DeliveryOK, Delivery
<1>3. QED
  BY <1>2, OneHolder

\* The row of t is written by t's handler, or by a listener that works on t.
HandlerWrites(t) ==
    /\ call[t] \in {"insert", "compensate"}
    /\ call'[t] # "accepted"
    /\ \/ table'[t] = [status |-> "new", response |-> NoResponse] /\ call[t] = "insert"
       \/ table'[t] = SetUpdateFields(table[t], StatusOnly("error")) /\ call[t] = "compensate"

ListenerWrites(l, t) ==
    /\ TaskOf(l) = t
    /\ listener[l].copy # "done"
    /\ \/ ProcessTaskMark(l) /\ table'[t] = SetUpdateFields(table[t], StatusOnly("in_process"))
       \/ /\ ProcessTaskFinish(l)
          /\ table'[t] = SetUpdateFields(table[t], [status |-> "done", response |-> listener[l].reply])
       \/ ProcessTaskDeferred(l) /\ table'[t] = SetUpdateFields(table[t], StatusOnly("error"))

LEMMA TryUpdateWrites ==
    ASSUME TypeOK, NEW l \in Listeners, NEW input, NEW ok \in BOOLEAN, NEW t \in Tasks,
           UpdateTaskUnlessDone(l, input, ok)
    PROVE  \/ table'[t] = table[t]
           \/ TaskOf(l) = t /\ listener[l].copy # "done" /\ table'[t] = SetUpdateFields(table[t], input)
BY DEF TypeOK, RepositoryTypeOK, UpdateTaskUnlessDone, TryUpdate, UpdateTask

(***************************************************************************)
(* Who changes a row.                                                      *)
(***************************************************************************)
LEMMA WhoWrites ==
    ASSUME SafetyInv, [Next]_vars, NEW t \in Tasks
    PROVE  \/ table'[t] = table[t]
           \/ HandlerWrites(t)
           \/ \E l \in Listeners : ListenerWrites(l, t)
<1>1. TypeOK
  BY DEF SafetyInv
<1>2. ASSUME NEW u \in Tasks, CreateTaskInsert(u)
      PROVE  table'[t] = table[t] \/ HandlerWrites(t)
  BY <1>1, <1>2
  DEF CreateTaskInsert, CreateTaskRow, Goto, HandlerWrites, TypeOK, RepositoryTypeOK, ApiTypeOK
<1>3. ASSUME NEW u \in Tasks, CreateTaskCompensate(u)
      PROVE  table'[t] = table[t] \/ HandlerWrites(t)
  BY <1>1, <1>3
  DEF CreateTaskCompensate, UpdateTask, Goto, HandlerWrites, TypeOK, RepositoryTypeOK, ApiTypeOK
<1>4. ASSUME NEW l \in Listeners, HandleMessage(l)
      PROVE  table'[t] = table[t] \/ ListenerWrites(l, t)
  <2>1. CASE ProcessTaskMark(l)
    <3>1. PICK ok \in BOOLEAN : UpdateTaskUnlessDone(l, StatusOnly("in_process"), ok)
      BY <2>1 DEF ProcessTaskMark
    <3>2. QED
      BY <1>1, <2>1, <3>1, TryUpdateWrites DEF ListenerWrites
  <2>2. CASE ProcessTaskFinish(l)
    <3>1. PICK ok \in BOOLEAN :
            UpdateTaskUnlessDone(l, [status |-> "done", response |-> listener[l].reply], ok)
      BY <2>2 DEF ProcessTaskFinish
    <3>2. QED
      BY <1>1, <2>2, <3>1, TryUpdateWrites DEF ListenerWrites
  <2>3. CASE ProcessTaskDeferred(l)
    <3>1. PICK ok \in BOOLEAN : UpdateTaskUnlessDone(l, StatusOnly("error"), ok)
      BY <2>3 DEF ProcessTaskDeferred
    <3>2. QED
      BY <1>1, <2>3, <3>1, TryUpdateWrites DEF ListenerWrites
  <2>4. CASE \/ HandleMessageDecode(l) \/ ProcessTaskGet(l) \/ ProcessTaskRequest(l)
             \/ HandleMessageDelete(l)
    BY <2>4 DEF HandleMessageDecode, ProcessTaskGet, ProcessTaskRequest, HandleMessageDelete
  <2>5. QED
    BY <1>4, <2>1, <2>2, <2>3, <2>4 DEF HandleMessage
<1>5. QED
  BY <1>2, <1>3, <1>4, NextCases
  DEF CreateTaskSend, ContextDone, CallDies, Receive, Dispatch, Stop, Exit, Start,
      VisibilityTimeout, ForeignSend, vars

-----------------------------------------------------------------------------
(* Messages                                                                *)

(***************************************************************************)
(* A call that answered is over.                                           *)
(***************************************************************************)
LEMMA AcceptedStays ==
    ASSUME TypeOK, [Next]_vars, NEW t \in Tasks, call[t] = "accepted"
    PROVE  call'[t] = "accepted"
<1>1. ASSUME NEW u \in Tasks,
             \/ CreateTaskInsert(u) \/ CreateTaskSend(u) \/ CreateTaskCompensate(u) \/ CallDies(u)
      PROVE  call'[t] = "accepted"
  <2>1. u # t /\ \E s \in CallStates : Goto(u, s)
    BY <1>1 DEF CreateTaskInsert, CreateTaskSend, CreateTaskCompensate, CallDies, CallStates
  <2>2. QED
    BY <2>1 DEF Goto, TypeOK, ApiTypeOK
<1>2. QED
  BY <1>1, NextCases DEF ContextDone, apiVars, VisibilityTimeout, ForeignSend, vars

(***************************************************************************)
(* A message of a task comes from one call, which answers the task's id,   *)
(* and it comes alone.                                                     *)
(***************************************************************************)
LEMMA SentByItsCall ==
    ASSUME SafetyInv, [Next]_vars, NEW m \in Msgs,
           ~IsSent(m), IsSent(m)', queue'[m].body \in Tasks
    PROVE  CreateTaskSend(queue'[m].body)
<1>1. TypeOK
  BY DEF SafetyInv
<1>2. ASSUME NEW t \in Tasks, CreateTaskSend(t)
      PROVE  queue'[m].body = t
  <2>1. queue' # queue
    BY DEF IsSent
  <2>2. \E copies \in SUBSET Msgs : SendMessage(t, copies)
    <3>1. \/ \E k, n \in Msgs : SendMessage(t, {k, n})
          \/ \E k \in Msgs : SendMessage(t, {k})
      BY <1>2, <2>1 DEF CreateTaskSend
    <3>2. QED
      BY <3>1
  <2>3. QED
    BY <2>2 DEF SendMessage, IsSent
<1>3. ASSUME NEW n \in ForeignMsgs, NEW body \in Bodies \ Tasks, ForeignSend(n, body)
      PROVE  FALSE
  BY <1>3 DEF ForeignSend, SendMessage, IsSent
<1>4. ASSUME NEW l \in Listeners, HandleMessage(l)
      PROVE  FALSE
  <2>1. listener[l].pc # "idle"
    BY <1>4 DEF HandleMessage, HandleMessageDecode, ProcessTaskGet, ProcessTaskMark,
       ProcessTaskRequest, ProcessTaskFinish, ProcessTaskDeferred, HandleMessageDelete
  <2>2. listener[l].held.msg # m
    BY <2>1 DEF SafetyInv, ListenerInv, DeliveryOK
  <2>3. queue'[m] = queue[m]
    BY <1>1, <1>4, <2>2
    DEF HandleMessage, HandleMessageDecode, ProcessTaskGet, ProcessTaskMark, ProcessTaskRequest,
        ProcessTaskFinish, ProcessTaskDeferred, HandleMessageDelete, TryDelete, DeleteMessage,
        TypeOK, QueueTypeOK
  <2>4. QED
    BY <2>3 DEF IsSent
<1>5. ASSUME NEW n \in Msgs, VisibilityTimeout(n)
      PROVE  FALSE
  BY <1>1, <1>5 DEF VisibilityTimeout, BecomeVisible, IsSent, TypeOK, QueueTypeOK, Message
<1>6. ASSUME NEW i \in Instances, NEW msgs \in SUBSET Msgs, Receive(i, msgs)
      PROVE  FALSE
  BY <1>6 DEF Receive, GetMessages, Receivable, IsSent
<1>7. PICK t \in Tasks : CreateTaskSend(t)
  BY <1>3, <1>4, <1>5, <1>6, NextCases
  DEF CreateTaskInsert, CreateTaskCompensate, ContextDone, CallDies, Dispatch, Stop, Exit, Start,
      vars, IsSent
<1>8. QED
  BY <1>2, <1>7

(***************************************************************************)
(* If no send fails that added its message, the call answered the id; and  *)
(* if none adds more than one, nothing else was sent.                      *)
(***************************************************************************)
LEMMA SentIsAccepted ==
    ASSUME "sendlost" \notin Faults, SafetyInv, [Next]_vars, NEW m \in Msgs,
           ~IsSent(m), IsSent(m)', queue'[m].body \in Tasks
    PROVE  call'[queue'[m].body] = "accepted"
<1>1. PICK t \in Tasks : t = queue'[m].body
  OBVIOUS
<1>2. CreateTaskSend(t)
  BY <1>1, SentByItsCall
<1>3. queue' # queue
  BY DEF IsSent
<1>4. Goto(t, "accepted")
  BY <1>2, <1>3 DEF CreateTaskSend
<1>5. QED
  BY <1>1, <1>4 DEF Goto, SafetyInv, TypeOK, ApiTypeOK

LEMMA SentAlone ==
    ASSUME Exclusive, SafetyInv, [Next]_vars, NEW m \in Msgs,
           ~IsSent(m), IsSent(m)', queue'[m].body \in Tasks
    PROVE  /\ call[queue'[m].body] = "send"
           /\ \A n \in Msgs \ {m} : queue'[n] = queue[n]
<1>1. PICK t \in Tasks : t = queue'[m].body
  OBVIOUS
<1>2. CreateTaskSend(t) /\ queue' # queue
  BY <1>1, SentByItsCall DEF IsSent
<1>3. PICK k \in Msgs : SendMessage(t, {k, k})
  BY <1>2 DEF CreateTaskSend, Exclusive
<1>4. k = m
  BY <1>3 DEF SendMessage, IsSent
<1>5. QED
  BY <1>1, <1>2, <1>3, <1>4 DEF SendMessage, CreateTaskSend

LEMMA SentWasAcceptedStep ==
    ASSUME "sendlost" \notin Faults, SafetyInv, SentWasAccepted, [Next]_vars
    PROVE  SentWasAccepted'
<1>1. SUFFICES ASSUME NEW m \in Msgs, IsSent(m)', queue'[m].body \in Tasks
               PROVE  call'[queue'[m].body] = "accepted"
  BY DEF SentWasAccepted
<1>2. CASE IsSent(m)
  <2>1. queue'[m].body = queue[m].body
    BY <1>2, Grows DEF QueueGrows
  <2>2. QED
    BY <1>1, <1>2, <2>1, AcceptedStays DEF SentWasAccepted, SafetyInv
<1>3. CASE ~IsSent(m)
  BY <1>1, <1>3, SentIsAccepted
<1>4. QED
  BY <1>2, <1>3

LEMMA OneMessagePerTaskStep ==
    ASSUME Exclusive, SafetyInv, SentWasAccepted, OneMessagePerTask, [Next]_vars
    PROVE  OneMessagePerTask'
<1>1. TypeOK /\ TypeOK'
  BY TypeStep DEF SafetyInv
<1>2. ASSUME NEW m \in Msgs, NEW n \in Msgs, IsSent(m)', IsSent(n)', ~IsSent(m),
             queue'[m].body \in Tasks, queue'[n].body = queue'[m].body
      PROVE  m = n
  <2>1. SUFFICES ASSUME m # n PROVE FALSE
    OBVIOUS
  <2>2. call[queue'[m].body] = "send" /\ queue'[n] = queue[n]
    BY <1>2, <2>1, SentAlone
  <2>3. QED
    BY <1>2, <2>2 DEF SentWasAccepted, IsSent
<1>3. ASSUME NEW m \in Msgs, NEW n \in Msgs, IsSent(m), IsSent(n),
             queue'[m].body \in Tasks, queue'[n].body = queue'[m].body
      PROVE  m = n
  BY <1>3, Grows DEF QueueGrows, OneMessagePerTask
<1>4. QED
  BY <1>2, <1>3 DEF OneMessagePerTask

-----------------------------------------------------------------------------
(* Holders                                                                 *)

LEMMA HandlesWorking ==
    ASSUME NEW l \in Listeners, HandleMessage(l)
    PROVE  IsWorking(l)
BY DEF HandleMessage, HandleMessageDecode, ProcessTaskGet, ProcessTaskMark, ProcessTaskRequest,
       ProcessTaskFinish, ProcessTaskDeferred, HandleMessageDelete, IsWorking

(***************************************************************************)
(* A listener that has a delivery had it before, or is just given it.      *)
(***************************************************************************)
LEMMA WorkingComesFrom ==
    ASSUME TypeOK, [Next]_vars, NEW l \in Listeners, IsWorking(l)'
    PROVE  \/ IsWorking(l) /\ listener'[l].held = listener[l].held
           \/ \E d \in batch[l[1]] : Dispatch(l, d) /\ listener'[l].held = d
<1>1. CASE HandleMessage(l)
  BY <1>1, HandlesWorking, HandleMessageDelivery DEF KeepsOrDrops, IsWorking
<1>2. CASE listener'[l] = listener[l]
  BY <1>2 DEF IsWorking
<1>3. ASSUME NEW d \in batch[l[1]], Dispatch(l, d)
      PROVE  listener'[l].held = d
  <2> DEFINE r == [Idle EXCEPT !.pc = "decode", !.held = d]
  <2>1. r.held = d
    BY DEF Idle
  <2>2. QED
    BY <1>3, <2>1, BecomeRecord DEF Dispatch
<1>4. ASSUME NEW k \in Listeners, k # l, HandleMessage(k)
      PROVE  listener'[l] = listener[l]
  BY <1>4, HandleMessageDelivery DEF KeepsOrDrops
<1>5. ASSUME NEW k \in Listeners, k # l, NEW d \in batch[k[1]], Dispatch(k, d)
      PROVE  listener'[l] = listener[l]
  BY <1>5, BecomeRecord DEF Dispatch
<1>6. ASSUME NEW i \in Instances, Stop(i) \/ Exit(i) \/ Start(i)
      PROVE  listener'[l] = listener[l]
  BY <1>6 DEF Stop, Exit, Start, Idle, IsWorking
<1>7. QED
  BY <1>1, <1>2, <1>3, <1>4, <1>5, <1>6, NextCases
  DEF Receive, VisibilityTimeout, ForeignSend, workerVars, vars

(***************************************************************************)
(* While somebody has a hidden message, nothing happens to it except that  *)
(* its holder deletes it, and then has it no more.                         *)
(***************************************************************************)
LEMMA HeldMessageStep ==
    ASSUME Exclusive, SafetyInv, [Next]_vars, NEW m \in Msgs, IsHeld(m), queue[m].state = "inflight"
    PROVE  \/ queue'[m] = queue[m]
           \/ \E l \in Listeners : /\ HandleMessage(l) /\ listener[l].held.msg = m
                                   /\ listener'[l].pc = "idle"
<1>1. TypeOK
  BY DEF SafetyInv
<1>2. ASSUME NEW t \in Tasks, CreateTaskSend(t)
      PROVE  queue'[m] = queue[m]
  BY <1>2 DEF CreateTaskSend, SendMessage, IsSent
<1>3. ASSUME NEW n \in ForeignMsgs, NEW body \in Bodies \ Tasks, ForeignSend(n, body)
      PROVE  queue'[m] = queue[m]
  BY <1>3 DEF ForeignSend, SendMessage, IsSent
<1>4. ASSUME NEW i \in Instances, NEW msgs \in SUBSET Msgs, Receive(i, msgs)
      PROVE  queue'[m] = queue[m]
  BY <1>4 DEF Receive, GetMessages, Receivable
<1>5. ASSUME NEW n \in Msgs, VisibilityTimeout(n)
      PROVE  queue'[m] = queue[m]
  <2>1. n # m
    BY <1>5 DEF VisibilityTimeout, Exclusive
  <2>2. QED
    BY <1>1, <1>5, <2>1 DEF VisibilityTimeout, BecomeVisible, TypeOK, QueueTypeOK
<1>6. ASSUME NEW l \in Listeners, HandleMessage(l)
      PROVE  \/ queue'[m] = queue[m]
             \/ listener[l].held.msg = m /\ listener'[l].pc = "idle"
  <2>1. ASSUME TryDelete(listener[l].held), BecomeIdle(l)
        PROVE  \/ queue'[m] = queue[m]
               \/ listener[l].held.msg = m /\ listener'[l].pc = "idle"
    <3>1. listener'[l].pc = "idle"
      BY <1>1, <2>1, BecomeRecord DEF BecomeIdle, Idle
    <3>2. QED
      BY <1>1, <2>1, <3>1 DEF TryDelete, DeleteMessage, TypeOK, QueueTypeOK
  <2>2. QED
    BY <1>6, <2>1
    DEF HandleMessage, HandleMessageDecode, ProcessTaskGet, ProcessTaskMark, ProcessTaskRequest,
        ProcessTaskFinish, ProcessTaskDeferred, HandleMessageDelete
<1>7. QED
  BY <1>2, <1>3, <1>4, <1>5, <1>6, NextCases
  DEF CreateTaskInsert, CreateTaskCompensate, ContextDone, CallDies, Dispatch, Stop, Exit, Start, vars

LEMMA HeldIsLatestStep ==
    ASSUME Exclusive, SafetyInv, DeliveriesInv, HeldIsLatest, [Next]_vars
    PROVE  HeldIsLatest'
<1>1. TypeOK
  BY DEF SafetyInv
<1>2. ASSUME NEW i \in Instances, NEW d \in batch'[i]
      PROVE  IsLatest(d)'
  <2>1. CASE d \in batch[i]
    <3>1. DeliveryOK(d) /\ IsLatest(d) /\ IsHeld(d.msg) /\ d.msg \in Msgs
      BY <2>1 DEF SafetyInv, HeldIsLatest, IsHeld, DeliveryOK, Delivery
    <3>2. ASSUME NEW l \in Listeners, HandleMessage(l) PROVE listener[l].held.msg # d.msg
      BY <2>1, <3>2, HandlesWorking, OneHolder
    <3>3. queue'[d.msg] = queue[d.msg]
      BY <3>1, <3>2, HeldMessageStep DEF IsLatest
    <3>4. QED
      BY <3>1, <3>3 DEF IsLatest, Stale
  <2>2. CASE d \notin batch[i]
    BY <1>1, <2>2, BatchComesFrom, ReceivedIsLatest DEF IsLatest, Stale
  <2>3. QED
    BY <2>1, <2>2
<1>3. ASSUME NEW l \in Listeners, IsWorking(l)'
      PROVE  IsLatest(listener[l].held)'
  <2>1. CASE IsWorking(l) /\ listener'[l].held = listener[l].held
    <3> DEFINE d == listener[l].held
    <3>1. DeliveryOK(d) /\ IsLatest(d) /\ IsHeld(d.msg) /\ d.msg \in Msgs
      BY <2>1 DEF SafetyInv, ListenerInv, IsWorking, HeldIsLatest, IsHeld, DeliveryOK, Delivery
    <3>2. ASSUME NEW k \in Listeners, HandleMessage(k), listener[k].held.msg = d.msg,
                 listener'[k].pc = "idle"
          PROVE  FALSE
      <4>1. k = l
        BY <2>1, <3>2, HandlesWorking, OneHolder
      <4>2. QED
        BY <1>3, <3>2, <4>1 DEF IsWorking
    <3>3. queue'[d.msg] = queue[d.msg]
      BY <3>1, <3>2, HeldMessageStep DEF IsLatest
    <3>4. QED
      BY <2>1, <3>1, <3>3 DEF IsLatest, Stale
  <2>2. ASSUME NEW d \in batch[l[1]], Dispatch(l, d), listener'[l].held = d
        PROVE  IsLatest(listener[l].held)'
    <3>1. IsLatest(d) /\ queue' = queue
      BY <2>2 DEF HeldIsLatest, Dispatch, Listeners
    <3>2. QED
      BY <2>2, <3>1 DEF IsLatest, Stale
  <2>3. QED
    BY <1>1, <1>3, <2>1, <2>2, WorkingComesFrom
<1>4. QED
  BY <1>2, <1>3 DEF HeldIsLatest

-----------------------------------------------------------------------------
(* Rows                                                                    *)

(***************************************************************************)
(* The row of a task that is done is not written: its handler is over, and *)
(* a listener that would write to it knows that it is not done.            *)
(***************************************************************************)
LEMMA DoneStays ==
    ASSUME ExclusiveInv, [Next]_vars, NEW t \in Tasks, table[t].status = "done"
    PROVE  table'[t] = table[t]
<1>1. ~HandlerWrites(t)
  BY DEF ExclusiveInv, RowIsWhole, HandlerWrites
<1>2. ASSUME NEW l \in Listeners, ListenerWrites(l, t)
      PROVE  FALSE
  BY <1>2 DEF ListenerWrites, ProcessTaskMark, ProcessTaskFinish, ProcessTaskDeferred,
     ExclusiveInv, KnowsRow
<1>3. QED
  BY <1>1, <1>2, WhoWrites DEF ExclusiveInv

(***************************************************************************)
(* A listener works on a task whose call was answered.                     *)
(***************************************************************************)
LEMMA WorkedWasAccepted ==
    ASSUME SafetyInv, SentWasAccepted, NEW l \in Listeners, IsWorking(l), TaskOf(l) \in Tasks
    PROVE  call[TaskOf(l)] = "accepted" /\ Exists(TaskOf(l))
<1>1. DeliveryOK(listener[l].held)
  BY DEF SafetyInv, ListenerInv, IsWorking
<1>2. QED
  BY <1>1 DEF SentWasAccepted, SafetyInv, MessagesHaveRows, TaskOf, BodyOf, DeliveryOK, Delivery

LEMMA WriterWorks ==
    ASSUME NEW l \in Listeners, NEW t \in Tasks, ListenerWrites(l, t)
    PROVE  HandleMessage(l) /\ IsWorking(l) /\ TaskOf(l) = t
BY DEF ListenerWrites, ProcessTaskMark, ProcessTaskFinish, ProcessTaskDeferred, HandleMessage,
       IsWorking

LEMMA RowIsWholeStep ==
    ASSUME ExclusiveInv, [Next]_vars, NEW t \in Tasks
    PROVE  RowIsWhole(t)'
<1>1. SafetyInv /\ TypeOK /\ SentWasAccepted /\ RowIsWhole(t)
  BY DEF ExclusiveInv, SafetyInv
<1>2. CASE table'[t] = table[t]
  BY <1>1, <1>2, AcceptedStays DEF RowIsWhole
<1>3. CASE HandlerWrites(t)
  BY <1>1, <1>3 DEF HandlerWrites, RowIsWhole, SetUpdateFields, StatusOnly
<1>4. ASSUME NEW l \in Listeners, ListenerWrites(l, t)
      PROVE  RowIsWhole(t)'
  <2>1. /\ KnowsRow(l) /\ TaskOf(l) = t /\ listener[l].copy # "done"
        /\ call'[t] = "accepted"
    BY <1>1, <1>4, WriterWorks, WorkedWasAccepted, AcceptedStays DEF ExclusiveInv, ListenerWrites
  <2>2. table[t].response = NoResponse
    BY <1>1, <1>4, <2>1
    DEF RowIsWhole, KnowsRow, ListenerWrites, ProcessTaskMark, ProcessTaskFinish, ProcessTaskDeferred
  <2>3. QED
    BY <1>4, <2>1, <2>2 DEF ListenerWrites, SetUpdateFields, StatusOnly, RowIsWhole
<1>5. QED
  BY <1>1, <1>2, <1>3, <1>4, WhoWrites

(***************************************************************************)
(* While a listener takes no step, nobody writes to the row it works on.   *)
(***************************************************************************)
LEMMA OthersLeaveRow ==
    ASSUME ExclusiveInv, [Next]_vars, NEW l \in Listeners, IsWorking(l), TaskOf(l) \in Tasks,
           ~HandleMessage(l)
    PROVE  table'[TaskOf(l)] = table[TaskOf(l)]
<1> DEFINE t == TaskOf(l)
<1>1. call[t] = "accepted"
  BY WorkedWasAccepted DEF ExclusiveInv
<1>2. ~HandlerWrites(t)
  BY <1>1 DEF HandlerWrites
<1>3. ASSUME NEW k \in Listeners, ListenerWrites(k, t)
      PROVE  FALSE
  <2>1. HandleMessage(k) /\ IsWorking(k) /\ TaskOf(k) = t
    BY <1>3, WriterWorks
  <2>2. k = l
    BY <2>1, OneWorker DEF ExclusiveInv
  <2>3. QED
    BY <2>1, <2>2
<1>4. QED
  BY <1>2, <1>3, WhoWrites DEF ExclusiveInv

LEMMA DeletedMeansDoneStep ==
    ASSUME ExclusiveInv, [Next]_vars
    PROVE  DeletedMeansDone'
<1>1. SafetyInv /\ DeletedMeansDone
  BY DEF ExclusiveInv
<1>2. SUFFICES ASSUME NEW m \in Msgs, queue'[m].state = "deleted", queue'[m].body \in Tasks,
                      ~Exhausted(m)'
               PROVE  table'[queue'[m].body].status = "done"
  BY DEF DeletedMeansDone
<1>3. SUFFICES table[queue'[m].body].status = "done"
  BY <1>2, <1>3, DoneStays
<1>4. CASE queue'[m] = queue[m]
  BY <1>1, <1>2, <1>4 DEF DeletedMeansDone, Exhausted
<1>5. ASSUME NEW l \in Listeners, listener[l].pc = "delete", TaskOf(l) = queue'[m].body
      PROVE  table[queue'[m].body].status = "done"
  BY <1>2, <1>5 DEF ExclusiveInv, KnowsRow
<1>6. QED
  BY <1>1, <1>2, <1>4, <1>5, DeletedByHolder

-----------------------------------------------------------------------------
(* What a listener knows of the row, after its own steps and those of      *)
(* others                                                                  *)

LEMMA TryUpdateAnswer ==
    ASSUME TypeOK, NEW l \in Listeners, NEW input, NEW ok \in BOOLEAN,
           UpdateTaskUnlessDone(l, input, ok), listener[l].copy # "done",
           TaskOf(l) \in Tasks, Exists(TaskOf(l))
    PROVE  \/ table'[TaskOf(l)] = SetUpdateFields(table[TaskOf(l)], input)
           \/ ~ok /\ table'[TaskOf(l)] = table[TaskOf(l)]
BY DEF TypeOK, RepositoryTypeOK, UpdateTaskUnlessDone, TryUpdate, UpdateTask, Exists

LEMMA KnowsAfterGet ==
    ASSUME ExclusiveInv, [Next]_vars, NEW l \in Listeners, ProcessTaskGet(l)
    PROVE  KnowsRow(l)'
<1>1. TypeOK /\ listener[l] \in ListenerStates /\ listener[l].pc = "get" /\ UNCHANGED table
  BY DEF ExclusiveInv, SafetyInv, TypeOK, WorkerTypeOK, ProcessTaskGet
<1>2. CASE BecomeIdle(l)
  BY <1>1, <1>2, BecomeRecord DEF BecomeIdle, Idle, KnowsRow
<1>3. CASE /\ TaskOf(l) \notin Tasks \/ ~Exists(TaskOf(l)) \/ table[TaskOf(l)].status = "done"
           /\ Step(l, "delete")
  <2>1. listener'[l].pc = "delete" /\ listener'[l].held = listener[l].held
    BY <1>1, <1>3, BecomeRecord DEF Step, ListenerStates
  <2>2. TaskOf(l)' = TaskOf(l)
    BY <1>1, <2>1, HeldStays DEF ExclusiveInv
  <2>3. TaskOf(l) \in Tasks => Exists(TaskOf(l))
    BY <1>1, WorkedWasAccepted DEF ExclusiveInv, IsWorking
  <2>4. QED
    BY <1>1, <1>3, <2>1, <2>2, <2>3 DEF KnowsRow
<1>4. CASE /\ table[TaskOf(l)].status # "done"
           /\ Become(l, [listener[l] EXCEPT !.pc = "mark", !.copy = table[TaskOf(l)].status])
  <2> DEFINE r == [listener[l] EXCEPT !.pc = "mark", !.copy = table[TaskOf(l)].status]
  <2>1. r.pc = "mark" /\ r.held = listener[l].held
    BY <1>1 DEF ListenerStates
  <2>2. listener'[l] = r
    BY <1>1, <1>4, BecomeRecord
  <2>3. TaskOf(l)' = TaskOf(l)
    BY <1>1, <2>1, <2>2, HeldStays DEF ExclusiveInv
  <2>4. QED
    BY <1>1, <1>4, <2>1, <2>2, <2>3 DEF KnowsRow
<1>5. QED
  BY <1>2, <1>3, <1>4 DEF ProcessTaskGet

LEMMA KnowsAfterMark ==
    ASSUME ExclusiveInv, [Next]_vars, NEW l \in Listeners, ProcessTaskMark(l)
    PROVE  KnowsRow(l)'
<1> DEFINE t == TaskOf(l)
<1>1. TypeOK /\ listener[l] \in ListenerStates /\ listener[l].pc = "mark"
  BY DEF ExclusiveInv, SafetyInv, TypeOK, WorkerTypeOK, ProcessTaskMark
<1>2. t \in Tasks /\ Exists(t) /\ listener[l].copy # "done" /\ table[t].status # "done"
  <2>1. t \in Tasks /\ listener[l].copy # "done" /\ table[t].status # "done"
    BY <1>1 DEF ExclusiveInv, SafetyInv, ListenerInv, KnowsRow
  <2>2. QED
    BY <1>1, <2>1, WorkedWasAccepted DEF ExclusiveInv, IsWorking
<1>3. PICK ok \in BOOLEAN :
        /\ UpdateTaskUnlessDone(l, StatusOnly("in_process"), ok)
        /\ Become(l, [listener[l] EXCEPT
            !.pc      = IF ok THEN "request" ELSE "deferred",
            !.copy    = CopyAfter(l, "in_process"),
            !.outcome = IF ok THEN "none" ELSE "err"])
  BY DEF ProcessTaskMark
<1> DEFINE r == [listener[l] EXCEPT
            !.pc      = IF ok THEN "request" ELSE "deferred",
            !.copy    = CopyAfter(l, "in_process"),
            !.outcome = IF ok THEN "none" ELSE "err"]
<1>4. /\ r.held = listener[l].held /\ r.copy = "in_process"
      /\ ok => r.pc = "request"
      /\ ~ok => r.pc = "deferred" /\ r.outcome = "err"
  BY <1>1, <1>2 DEF ListenerStates, CopyAfter
<1>5. listener'[l] = r
  BY <1>1, <1>3, BecomeRecord
<1>6. TaskOf(l)' = t
  BY <1>1, <1>4, <1>5, HeldStays DEF ExclusiveInv
<1>7. /\ table'[t].status # "done"
      /\ ok => table'[t].status = "in_process"
  <2>1. \/ table'[t] = SetUpdateFields(table[t], StatusOnly("in_process"))
        \/ ~ok /\ table'[t] = table[t]
    BY <1>1, <1>2, <1>3, TryUpdateAnswer
  <2>2. QED
    BY <1>2, <2>1 DEF SetUpdateFields, StatusOnly
<1>8. QED
  BY <1>4, <1>5, <1>6, <1>7 DEF KnowsRow

LEMMA KnowsAfterRequest ==
    ASSUME ExclusiveInv, [Next]_vars, NEW l \in Listeners, ProcessTaskRequest(l)
    PROVE  KnowsRow(l)'
<1> DEFINE t == TaskOf(l)
<1>1. /\ TypeOK /\ listener[l] \in ListenerStates /\ listener[l].pc = "request"
      /\ UNCHANGED table
  BY DEF ExclusiveInv, SafetyInv, TypeOK, WorkerTypeOK, ProcessTaskRequest
<1>2. table[t].status = "in_process"
  BY <1>1 DEF ExclusiveInv, KnowsRow
<1>3. ASSUME NEW o \in {"err", "panic"}, Leave(l, o)
      PROVE  KnowsRow(l)'
  <2> DEFINE r == [listener[l] EXCEPT !.pc = "deferred", !.outcome = o]
  <2>1. r.held = listener[l].held /\ r.pc = "deferred" /\ r.outcome = o
    BY <1>1 DEF ListenerStates
  <2>2. listener'[l] = r
    BY <1>1, <1>3, BecomeRecord DEF Leave
  <2>3. TaskOf(l)' = t
    BY <1>1, <2>1, <2>2, HeldStays DEF ExclusiveInv
  <2>4. QED
    BY <1>1, <1>2, <2>1, <2>2, <2>3 DEF KnowsRow
<1>4. ASSUME NEW a \in Responses, Become(l, [listener[l] EXCEPT !.pc = "finish", !.reply = a]),
             listener[l].held \in requested'
      PROVE  KnowsRow(l)'
  <2> DEFINE r == [listener[l] EXCEPT !.pc = "finish", !.reply = a]
  <2>1. r.held = listener[l].held /\ r.pc = "finish"
    BY <1>1 DEF ListenerStates
  <2>2. listener'[l] = r
    BY <1>1, <1>4, BecomeRecord
  <2>3. TaskOf(l)' = t
    BY <1>1, <2>1, <2>2, HeldStays DEF ExclusiveInv
  <2>4. QED
    BY <1>1, <1>2, <1>4, <2>1, <2>2, <2>3 DEF KnowsRow
<1>5. QED
  BY <1>3, <1>4 DEF ProcessTaskRequest

LEMMA KnowsAfterFinish ==
    ASSUME ExclusiveInv, [Next]_vars, NEW l \in Listeners, ProcessTaskFinish(l)
    PROVE  KnowsRow(l)'
<1> DEFINE t == TaskOf(l)
           input == [status |-> "done", response |-> listener[l].reply]
<1>1. TypeOK /\ listener[l] \in ListenerStates /\ listener[l].pc = "finish"
  BY DEF ExclusiveInv, SafetyInv, TypeOK, WorkerTypeOK, ProcessTaskFinish
<1>2. t \in Tasks /\ Exists(t) /\ listener[l].copy # "done"
  <2>1. t \in Tasks /\ listener[l].copy # "done"
    BY <1>1 DEF ExclusiveInv, SafetyInv, ListenerInv
  <2>2. QED
    BY <1>1, <2>1, WorkedWasAccepted DEF ExclusiveInv, IsWorking
<1>3. PICK ok \in BOOLEAN :
        /\ UpdateTaskUnlessDone(l, input, ok)
        /\ Become(l, [listener[l] EXCEPT
                !.pc      = "deferred",
                !.copy    = CopyAfter(l, "done"),
                !.outcome = IF ok THEN "ok" ELSE "err",
                !.reply   = NoResponse])
  BY DEF ProcessTaskFinish
<1> DEFINE r == [listener[l] EXCEPT
                !.pc      = "deferred",
                !.copy    = CopyAfter(l, "done"),
                !.outcome = IF ok THEN "ok" ELSE "err",
                !.reply   = NoResponse]
<1>4. /\ r.held = listener[l].held /\ r.pc = "deferred" /\ r.copy = "done"
      /\ r.outcome = IF ok THEN "ok" ELSE "err"
  BY <1>1 DEF ListenerStates, CopyAfter
<1>5. listener'[l] = r
  BY <1>1, <1>3, BecomeRecord
<1>6. TaskOf(l)' = t
  BY <1>1, <1>4, <1>5, HeldStays DEF ExclusiveInv
<1>7. ok => table'[t].status = "done"
  <2>1. ok => table'[t] = SetUpdateFields(table[t], input)
    BY <1>1, <1>2, <1>3, TryUpdateAnswer
  <2>2. QED
    BY <2>1 DEF SetUpdateFields
<1>8. QED
  BY <1>4, <1>5, <1>6, <1>7 DEF KnowsRow

LEMMA KnowsAfterDeferred ==
    ASSUME ExclusiveInv, [Next]_vars, NEW l \in Listeners, ProcessTaskDeferred(l)
    PROVE  KnowsRow(l)'
<1> DEFINE t == TaskOf(l)
<1>1. TypeOK /\ listener[l] \in ListenerStates /\ listener[l].pc = "deferred" /\ KnowsRow(l)
  BY DEF ExclusiveInv, SafetyInv, TypeOK, WorkerTypeOK, ProcessTaskDeferred
<1>2. CASE listener[l].outcome = "ok" /\ Step(l, "delete")
  <2> DEFINE r == [listener[l] EXCEPT !.pc = "delete"]
  <2>1. r.pc = "delete" /\ r.held = listener[l].held
    BY <1>1 DEF ListenerStates
  <2>2. listener'[l] = r
    BY <1>1, <1>2, BecomeRecord DEF Step
  <2>3. TaskOf(l)' = t
    BY <1>1, <2>1, <2>2, HeldStays DEF ExclusiveInv
  <2>4. listener[l].copy = "done" /\ table[t].status = "done"
    BY <1>1, <1>2 DEF KnowsRow
  <2>5. UNCHANGED table
    BY <2>4 DEF ProcessTaskDeferred, UpdateTaskUnlessDone
  <2>6. QED
    BY <2>1, <2>2, <2>3, <2>4, <2>5 DEF KnowsRow
<1>3. CASE BecomeIdle(l)
  BY <1>1, <1>3, BecomeRecord DEF BecomeIdle, Idle, KnowsRow
<1>4. CASE Panic(l)
  <2> DEFINE r == [Idle EXCEPT !.pc = "dead", !.held = listener[l].held]
  <2>1. r.pc = "dead"
    BY DEF Idle
  <2>2. QED
    BY <1>1, <1>4, <2>1, BecomeRecord DEF Panic, KnowsRow
<1>5. QED
  BY <1>2, <1>3, <1>4 DEF ProcessTaskDeferred, AfterProcessTask

LEMMA StepOfOthers ==
    ASSUME TypeOK, [Next]_vars, NEW l \in Listeners, ~HandleMessage(l)
    PROVE  listener'[l] = listener[l] \/ listener'[l].pc \in {"idle", "decode"}
<1>1. ASSUME NEW k \in Listeners, HandleMessage(k)
      PROVE  listener'[l] = listener[l]
  BY <1>1, HandleMessageDelivery DEF KeepsOrDrops
<1>2. ASSUME NEW k \in Listeners, NEW d \in batch[k[1]], Dispatch(k, d)
      PROVE  listener'[l] = listener[l] \/ listener'[l].pc = "decode"
  <2> DEFINE r == [Idle EXCEPT !.pc = "decode", !.held = d]
  <2>1. r.pc = "decode"
    BY DEF Idle
  <2>2. QED
    BY <1>2, <2>1, BecomeRecord DEF Dispatch
<1>3. ASSUME NEW i \in Instances, Stop(i) \/ Exit(i) \/ Start(i)
      PROVE  listener'[l] = listener[l] \/ listener'[l].pc = "idle"
  BY <1>3 DEF Stop, Exit, Start, Idle
<1>4. QED
  BY <1>1, <1>2, <1>3, NextCases DEF Receive, VisibilityTimeout, ForeignSend, workerVars, vars

LEMMA RequestedGrows ==
    ASSUME TypeOK, [Next]_vars
    PROVE  requested \subseteq requested'
<1>1. ASSUME NEW l \in Listeners, HandleMessage(l)
      PROVE  requested \subseteq requested'
  BY <1>1, HandleMessageDelivery DEF KeepsOrDrops
<1>2. QED
  BY <1>1, NextCases
  DEF Receive, Dispatch, Stop, Exit, Start, VisibilityTimeout, ForeignSend, workerVars, vars

LEMMA KnowsRowStep ==
    ASSUME ExclusiveInv, [Next]_vars, NEW l \in Listeners
    PROVE  KnowsRow(l)'
<1>1. SafetyInv /\ TypeOK /\ KnowsRow(l) /\ ListenerInv(l)
  BY DEF ExclusiveInv, SafetyInv
<1>2. CASE HandleMessage(l)
  <2>1. CASE HandleMessageDecode(l)
    <3>1. listener'[l].pc \in {"idle", "get"}
      BY <1>1, <2>1, BecomeRecord
      DEF HandleMessageDecode, BecomeIdle, Idle, Step, TypeOK, WorkerTypeOK, ListenerStates
    <3>2. QED
      BY <3>1 DEF KnowsRow
  <2>2. CASE HandleMessageDelete(l)
    BY <1>1, <2>2, BecomeRecord DEF HandleMessageDelete, BecomeIdle, Idle, KnowsRow
  <2>3. QED
    BY <1>2, <2>1, <2>2, KnowsAfterGet, KnowsAfterMark, KnowsAfterRequest, KnowsAfterFinish,
       KnowsAfterDeferred
    DEF HandleMessage
<1>3. CASE ~HandleMessage(l) /\ listener'[l] = listener[l]
  <2>1. SUFFICES ASSUME listener[l].pc \in {"mark", "request", "finish", "deferred", "delete"}
                 PROVE  KnowsRow(l)'
    BY <1>3 DEF KnowsRow
  <2>2. TaskOf(l)' = TaskOf(l)
    BY <1>1, <1>3, <2>1, HeldStays
  <2>3. TaskOf(l) \in Tasks => table'[TaskOf(l)] = table[TaskOf(l)]
    BY <1>3, <2>1, OthersLeaveRow DEF IsWorking
  <2>4. listener[l].pc # "delete" => TaskOf(l) \in Tasks
    BY <1>1, <2>1 DEF ListenerInv
  <2>5. requested \subseteq requested'
    BY <1>1, RequestedGrows
  <2>6. QED
    BY <1>1, <1>3, <2>1, <2>2, <2>3, <2>4, <2>5 DEF KnowsRow
<1>4. CASE listener'[l].pc \in {"idle", "decode"}
  BY <1>4 DEF KnowsRow
<1>5. QED
  BY <1>1, <1>2, <1>3, <1>4, StepOfOthers

-----------------------------------------------------------------------------

LEMMA SentWasAcceptedInit == Init => SentWasAccepted
<1>. SUFFICES ASSUME Init PROVE SentWasAccepted
  OBVIOUS
<1>1. queue = [m \in Msgs |-> Unsent]
  BY DEF Init, QueueInit
<1>2. QED
  BY <1>1 DEF SentWasAccepted, IsSent, Unsent

LEMMA ExclusiveInit == Init => ExclusiveInv
<1>. SUFFICES ASSUME Init PROVE ExclusiveInv
  OBVIOUS
<1>1. /\ table = [t \in Tasks |-> NoRow]
      /\ queue = [m \in Msgs |-> Unsent]
      /\ batch = [i \in Instances |-> {}]
      /\ listener = [l \in Listeners |-> Idle]
  BY DEF Init, RepositoryInit, QueueInit, WorkerInit
<1>2. SentWasAccepted /\ OneMessagePerTask /\ DeletedMeansDone
  BY <1>1, SentWasAcceptedInit DEF OneMessagePerTask, DeletedMeansDone, IsSent, Unsent
<1>3. HeldIsLatest
  BY <1>1 DEF HeldIsLatest, IsWorking, Idle
<1>4. \A t \in Tasks : RowIsWhole(t)
  BY <1>1 DEF RowIsWhole, NoRow
<1>5. \A l \in Listeners : KnowsRow(l)
  BY <1>1 DEF KnowsRow, Idle
<1>6. QED
  BY <1>2, <1>3, <1>4, <1>5, SafetyInit, DeliveriesInit DEF ExclusiveInv

LEMMA ExclusiveStep ==
    ASSUME Exclusive
    PROVE  ExclusiveInv /\ [Next]_vars => ExclusiveInv'
<1>. SUFFICES ASSUME ExclusiveInv, [Next]_vars PROVE ExclusiveInv'
  OBVIOUS
<1>1. SafetyInv' /\ DeliveriesInv'
  BY SafetyStep, DeliveriesStep DEF ExclusiveInv
<1>2. SentWasAccepted' /\ OneMessagePerTask' /\ HeldIsLatest'
  BY SentWasAcceptedStep, OneMessagePerTaskStep, HeldIsLatestStep DEF Exclusive, ExclusiveInv
<1>3. \A t \in Tasks : RowIsWhole(t)'
  BY RowIsWholeStep
<1>4. \A l \in Listeners : KnowsRow(l)'
  BY KnowsRowStep
<1>5. QED
  BY <1>1, <1>2, <1>3, <1>4, DeletedMeansDoneStep DEF ExclusiveInv

(***************************************************************************)
(* What a listener read of its task and what it knows of its message stay  *)
(* true until it is through with it, while every other process goes on.    *)
(***************************************************************************)
THEOREM ExclusiveInvariant == ASSUME Exclusive PROVE Spec => []ExclusiveInv
BY ExclusiveInit, ExclusiveStep, PTL DEF Spec

(***************************************************************************)
(* No two listeners of any processes work on one task at the same time,    *)
(* although nothing locks the row and processes know nothing of each other.*)
(***************************************************************************)
THEOREM AlwaysOneListenerPerTask == ASSUME Exclusive PROVE Spec => []OneListenerPerTask
<1>1. ExclusiveInv => OneListenerPerTask
  BY OneWorker DEF ExclusiveInv, OneListenerPerTask
<1>2. QED
  BY <1>1, ExclusiveInvariant, PTL

(***************************************************************************)
(* A task's message leaves the queue only when the task is done or its     *)
(* attempts are used up.                                                   *)
(***************************************************************************)
THEOREM DeletedIsAlwaysDone == ASSUME Exclusive PROVE Spec => []DeletedMeansDone
BY ExclusiveInvariant, PTL DEF ExclusiveInv

(***************************************************************************)
(* A task whose CreateTask call answered an error is never run: it has no  *)
(* message.  Messages may become visible early and be sent twice; only a   *)
(* send that fails may not have added its message.                         *)
(***************************************************************************)
THEOREM RejectedIsNeverRun ==
    ASSUME "sendlost" \notin Faults
    PROVE  Spec => []RejectedNeverRuns
<1>1. ASSUME SafetyInv, SentWasAccepted
      PROVE  RejectedNeverRuns
  <2>. SUFFICES ASSUME NEW t \in Tasks, call[t] = "rejected"
                PROVE  /\ \A d \in requested : BodyOf(d) # t
                       /\ \A l \in Listeners : IsWorking(l) => TaskOf(l) # t
    BY DEF RejectedNeverRuns
  <2>1. \A d \in requested : BodyOf(d) # t
    BY <1>1 DEF SafetyInv, SentWasAccepted, DeliveryOK, Delivery, BodyOf
  <2>2. \A l \in Listeners : IsWorking(l) => TaskOf(l) # t
    BY <1>1, WorkedWasAccepted
  <2>3. QED
    BY <2>1, <2>2
<1>2. Init => SafetyInv /\ SentWasAccepted
  BY SafetyInit, SentWasAcceptedInit
<1>3. SafetyInv /\ SentWasAccepted /\ [Next]_vars => (SafetyInv /\ SentWasAccepted)'
  BY SafetyStep, SentWasAcceptedStep
<1>4. QED
  BY <1>1, <1>2, <1>3, PTL DEF Spec

(***************************************************************************)
(* The row of a task that is done never changes, although no UPDATE has a  *)
(* condition on the status it replaces.                                    *)
(***************************************************************************)
THEOREM DoneIsAlwaysFinal == ASSUME Exclusive PROVE Spec => DoneIsFinal
<1>1. ExclusiveInv /\ [Next]_vars
        => [\A t \in Tasks : table[t].status = "done" => table'[t] = table[t]]_vars
  BY DoneStays
<1>2. QED
  BY <1>1, ExclusiveInvariant, PTL DEF DoneIsFinal, Spec

-----------------------------------------------------------------------------
(* The lifecycle of a task                                                 *)

Attempts == [t \in Tasks |-> Cardinality(RequestsOf(t))]

LEMMA DeliveryFinite == IsFiniteSet(Delivery)
<1> DEFINE f == [d \in Delivery |-> <<d.msg, d.count>>]
<1>1. IsFiniteSet(Msgs \X (1..MaxReceives))
  <2>1. IsFiniteSet(1..MaxReceives)
    BY QueueAssumption, FS_Interval
  <2>2. QED
    BY <2>1, QueueAssumption, FS_Product
<1>2. f \in Injection(Delivery, Msgs \X (1..MaxReceives))
  BY DEF Delivery, Injection, IsInjective
<1>3. QED
  BY <1>1, <1>2, FS_Injection

LEMMA RequestsFinite ==
    ASSUME TypeOK, NEW t
    PROVE  IsFiniteSet(RequestsOf(t)) /\ Cardinality(RequestsOf(t)) \in Nat
<1>1. RequestsOf(t) \subseteq Delivery
  BY DEF TypeOK, WorkerTypeOK, RequestsOf
<1>2. QED
  BY <1>1, DeliveryFinite, FS_Subset, FS_CardinalityType

(***************************************************************************)
(* A request is one for the task its message names, for ever.              *)
(***************************************************************************)
LEMMA BodyStays ==
    ASSUME SafetyInv, [Next]_vars, NEW d, DeliveryOK(d)
    PROVE  BodyOf(d)' = BodyOf(d)
BY Grows, TypeStep, DeliveryStays DEF SafetyInv, BodyOf, DeliveryOK, QueueGrows

LEMMA NoAttempt ==
    ASSUME SafetyInv, [Next]_vars, requested' = requested
    PROVE  Attempts' = Attempts
<1>1. ASSUME NEW t \in Tasks
      PROVE  RequestsOf(t)' = RequestsOf(t)
  BY BodyStays DEF RequestsOf, SafetyInv
<1>2. QED
  BY <1>1 DEF Attempts

(***************************************************************************)
(* A request for a delivery that none was made for counts as one attempt   *)
(* of the task, which was in_process and had attempts left.                *)
(***************************************************************************)
LEMMA OneAttempt ==
    ASSUME ExclusiveInv, [Next]_vars, NEW l \in Listeners, listener[l].pc = "request",
           NEW d, d = listener[l].held, requested' = requested \cup {d},
           NEW t \in Tasks, t = TaskOf(l)
    PROVE  /\ table[t].status = "in_process"
           /\ Debug \/ Attempts[t] < MaxMessageAttempts
           /\ Attempts' = [Attempts EXCEPT ![t] = @ + 1]
<1>1. SafetyInv /\ TypeOK /\ DeliveriesInv /\ KnowsRow(l) /\ OneMessagePerTask
  BY DEF ExclusiveInv, SafetyInv
<1>2. DeliveryOK(d) /\ ~OverLimit(d) /\ BodyOf(d) = t /\ d \notin requested
  BY <1>1 DEF SafetyInv, ListenerInv, DeliveriesInv, Holds, TaskOf
<1>3. \A e \in requested : DeliveryOK(e) /\ ~OverLimit(e) /\ BodyOf(e)' = BodyOf(e)
  BY <1>1, BodyStays DEF SafetyInv
<1>4. BodyOf(d)' = t
  BY <1>1, <1>2, BodyStays
<1>5. RequestsOf(t)' = RequestsOf(t) \cup {d}
  BY <1>3, <1>4 DEF RequestsOf
<1>6. \A u \in Tasks \ {t} : RequestsOf(u)' = RequestsOf(u)
  BY <1>3, <1>4 DEF RequestsOf
<1>7. d \notin RequestsOf(t)
  BY <1>2 DEF RequestsOf
<1>8. Cardinality(RequestsOf(t) \cup {d}) = Cardinality(RequestsOf(t)) + 1
  BY <1>1, <1>7, RequestsFinite, FS_AddElement
<1>9. Attempts' = [Attempts EXCEPT ![t] = @ + 1]
  BY <1>5, <1>6, <1>8 DEF Attempts
<1>10. Debug \/ Attempts[t] < MaxMessageAttempts
  <2>1. \A e \in RequestsOf(t) \cup {d} : e \in Delivery /\ e.msg = d.msg /\ ~OverLimit(e)
    BY <1>1, <1>2, <1>3 DEF RequestsOf, OneMessagePerTask, DeliveryOK, BodyOf, Delivery
  <2>2. ~Debug => Cardinality(RequestsOf(t) \cup {d}) <= MaxMessageAttempts
    BY <2>1, CountsBound
  <2>3. Cardinality(RequestsOf(t)) \in Nat /\ MaxMessageAttempts \in Nat
    BY <1>1, RequestsFinite, QueueAssumption
  <2>4. QED
    BY <1>8, <2>2, <2>3 DEF Attempts
<1>11. table[t].status = "in_process"
  BY <1>1 DEF KnowsRow
<1>12. QED
  BY <1>9, <1>10, <1>11

(***************************************************************************)
(* What the two kinds of UPDATE do to the table.                           *)
(***************************************************************************)
LEMMA UpdateMaps ==
    ASSUME TypeOK, NEW t \in Tasks, Exists(t)
    PROVE  /\ \A s \in TaskStatus : UpdateTask(t, StatusOnly(s)) => table' = [table EXCEPT ![t].status = s]
           /\ \A r \in Responses : UpdateTask(t, [status |-> "done", response |-> r])
                 => table' = [table EXCEPT ![t] = [status |-> "done", response |-> r]]
<1>1. table[t] \in Task /\ table[t] # NoRow
  BY DEF TypeOK, RepositoryTypeOK, Exists
<1>2. ASSUME NEW s \in TaskStatus, UpdateTask(t, StatusOnly(s))
      PROVE  table' = [table EXCEPT ![t].status = s]
  <2>1. SetUpdateFields(table[t], StatusOnly(s)) = [table[t] EXCEPT !.status = s]
    BY <1>1 DEF SetUpdateFields, StatusOnly, Task
  <2>2. QED
    BY <1>1, <1>2, <2>1 DEF UpdateTask
<1>3. ASSUME NEW r \in Responses, UpdateTask(t, [status |-> "done", response |-> r])
      PROVE  table' = [table EXCEPT ![t] = [status |-> "done", response |-> r]]
  <2>1. SetUpdateFields(table[t], [status |-> "done", response |-> r]) = [status |-> "done", response |-> r]
    BY NoResponseAssumption DEF SetUpdateFields
  <2>2. QED
    BY <1>1, <1>3, <2>1 DEF UpdateTask
<1>4. QED
  BY <1>2, <1>3

(***************************************************************************)
(* A step of a listener begins an attempt, is one, ends one, or shows      *)
(* nothing to the task's clients and the third party.                      *)
(***************************************************************************)
LEMMA ListenerLifecycle ==
    ASSUME ExclusiveInv, [Next]_vars, NEW l \in Listeners, HandleMessage(l)
    PROVE  (table' = table /\ Attempts' = Attempts) \/ Lifecycle!Next
<1>1. SafetyInv /\ TypeOK /\ KnowsRow(l) /\ ListenerInv(l)
  BY DEF ExclusiveInv, SafetyInv
<1>2. ASSUME ~ProcessTaskMark(l), ~ProcessTaskRequest(l),
             ~ProcessTaskFinish(l), ~ProcessTaskDeferred(l)
      PROVE  table' = table /\ Attempts' = Attempts
  <2>1. requested' = requested /\ table' = table
    BY <1>2 DEF HandleMessage, HandleMessageDecode, ProcessTaskGet, HandleMessageDelete
  <2>2. QED
    BY <1>1, <2>1, NoAttempt
<1>3. SUFFICES ASSUME listener[l].pc \in {"mark", "request", "finish", "deferred"},
                      table' # table \/ Attempts' # Attempts
               PROVE  Lifecycle!Next
  BY <1>2 DEF ProcessTaskMark, ProcessTaskRequest, ProcessTaskFinish, ProcessTaskDeferred
<1>4. PICK t \in Tasks : t = TaskOf(l)
  BY <1>1, <1>3 DEF ListenerInv
<1>5. Exists(t) /\ table[t].status \in TaskStatus
  <2>1. Exists(t)
    BY <1>3, <1>4, WorkedWasAccepted DEF ExclusiveInv, IsWorking
  <2>2. QED
    BY <1>1, <2>1 DEF Exists, TypeOK, RepositoryTypeOK, Task
<1>6. CASE ProcessTaskRequest(l)
  <2>1. UNCHANGED table /\ listener[l].pc = "request"
    BY <1>6 DEF ProcessTaskRequest
  <2>2. PICK d : d = listener[l].held
    OBVIOUS
  <2>3. requested' = requested \cup {d}
    BY <1>1, <1>3, <1>6, <2>1, <2>2, NoAttempt DEF ProcessTaskRequest
  <2>4. /\ table[t].status = "in_process"
        /\ Debug \/ Attempts[t] < MaxMessageAttempts
        /\ Attempts' = [Attempts EXCEPT ![t] = @ + 1]
    BY <1>4, <2>1, <2>2, <2>3, OneAttempt
  <2>5. Lifecycle!Attempt(t)
    BY <2>1, <2>4 DEF Lifecycle!Attempt, Attempts
  <2>6. QED
    BY <2>5 DEF Lifecycle!Next
<1>7. CASE ProcessTaskMark(l)
  <2>1. PICK ok \in BOOLEAN : UpdateTaskUnlessDone(l, StatusOnly("in_process"), ok)
    BY <1>7 DEF ProcessTaskMark
  <2>2. Attempts' = Attempts
    BY <1>1, <1>7, NoAttempt DEF ProcessTaskMark
  <2>3. UpdateTask(t, StatusOnly("in_process"))
    BY <1>3, <1>4, <2>1, <2>2 DEF UpdateTaskUnlessDone, TryUpdate
  <2>4. table' = [table EXCEPT ![t].status = "in_process"]
    BY <1>1, <1>5, <2>3, UpdateMaps DEF TaskStatus
  <2>5. table[t].status # "done"
    BY <1>1, <1>4, <1>7 DEF KnowsRow, ProcessTaskMark
  <2>6. Lifecycle!Begin(t)
    BY <1>5, <2>2, <2>4, <2>5 DEF Lifecycle!Begin, Lifecycle!Open, Attempts, TaskStatus
  <2>7. QED
    BY <2>6 DEF Lifecycle!Next
<1>8. CASE ProcessTaskFinish(l)
  <2>1. PICK r \in Responses : r = listener[l].reply
    BY <1>1, <1>8 DEF ListenerInv, ProcessTaskFinish
  <2>2. PICK ok \in BOOLEAN : UpdateTaskUnlessDone(l, [status |-> "done", response |-> r], ok)
    BY <1>8, <2>1 DEF ProcessTaskFinish
  <2>3. Attempts' = Attempts
    BY <1>1, <1>8, NoAttempt DEF ProcessTaskFinish
  <2>4. UpdateTask(t, [status |-> "done", response |-> r])
    BY <1>3, <1>4, <2>2, <2>3 DEF UpdateTaskUnlessDone, TryUpdate
  <2>5. table' = [table EXCEPT ![t] = [status |-> "done", response |-> r]]
    BY <1>1, <1>5, <2>4, UpdateMaps
  <2>6. table[t].status = "in_process" /\ listener[l].held \in RequestsOf(t)
    BY <1>1, <1>4, <1>8 DEF KnowsRow, ProcessTaskFinish, RequestsOf, TaskOf
  <2>7. Attempts[t] > 0
    <3>1. Cardinality(RequestsOf(t)) # 0
      BY <1>1, <2>6, RequestsFinite, FS_EmptySet
    <3>2. QED
      BY <1>1, <3>1, RequestsFinite DEF Attempts
  <2>8. Lifecycle!Finish(t)
    BY <2>3, <2>5, <2>6, <2>7 DEF Lifecycle!Finish, Attempts
  <2>9. QED
    BY <2>8 DEF Lifecycle!Next
<1>9. CASE ProcessTaskDeferred(l)
  <2>1. PICK ok \in BOOLEAN : UpdateTaskUnlessDone(l, StatusOnly("error"), ok)
    BY <1>9 DEF ProcessTaskDeferred
  <2>2. Attempts' = Attempts
    BY <1>1, <1>9, NoAttempt DEF ProcessTaskDeferred
  <2>3. UpdateTask(t, StatusOnly("error")) /\ listener[l].copy # "done"
    BY <1>3, <1>4, <2>1, <2>2 DEF UpdateTaskUnlessDone, TryUpdate
  <2>4. table' = [table EXCEPT ![t].status = "error"]
    BY <1>1, <1>5, <2>3, UpdateMaps DEF TaskStatus
  <2>5. table[t].status # "done"
    BY <1>1, <1>4, <1>9, <2>3 DEF KnowsRow, ProcessTaskDeferred
  <2>6. Lifecycle!Fail(t)
    BY <1>5, <2>2, <2>4, <2>5 DEF Lifecycle!Fail, Lifecycle!Open, Attempts, TaskStatus
  <2>7. QED
    BY <2>6 DEF Lifecycle!Next
<1>10. QED
  BY <1>2, <1>3, <1>6, <1>7, <1>8, <1>9

(***************************************************************************)
(* So does a step of a CreateTask call.                                    *)
(***************************************************************************)
LEMMA HandlerLifecycle ==
    ASSUME ExclusiveInv, [Next]_vars, NEW t \in Tasks, UNCHANGED workerVars,
           CreateTaskInsert(t) \/ CreateTaskCompensate(t)
    PROVE  (table' = table /\ Attempts' = Attempts) \/ Lifecycle!Next
<1>1. SafetyInv /\ TypeOK /\ HandlerInv(t) /\ RowIsWhole(t)
  BY DEF ExclusiveInv, SafetyInv
<1>2. Attempts' = Attempts
  BY <1>1, NoAttempt DEF workerVars
<1>3. CASE CreateTaskInsert(t) /\ CreateTaskRow(t)
  <2>1. table[t] = NoRow
    BY <1>1, <1>3 DEF CreateTaskInsert, HandlerInv
  <2>2. Lifecycle!Create(t)
    BY <1>2, <1>3, <2>1 DEF Lifecycle!Create, Lifecycle!Absent, NoRow, CreateTaskRow, Attempts
  <2>3. QED
    BY <2>2 DEF Lifecycle!Next
<1>4. CASE CreateTaskCompensate(t) /\ UpdateTask(t, StatusOnly("error"))
  <2>1. Exists(t) /\ table[t].status # "done"
    BY <1>1, <1>4 DEF CreateTaskCompensate, HandlerInv, RowIsWhole
  <2>2. table[t].status \in TaskStatus
    BY <1>1, <2>1 DEF Exists, TypeOK, RepositoryTypeOK, Task
  <2>3. table' = [table EXCEPT ![t].status = "error"]
    BY <1>1, <1>4, <2>1, UpdateMaps DEF TaskStatus
  <2>4. Lifecycle!Fail(t)
    BY <1>2, <2>1, <2>2, <2>3 DEF Lifecycle!Fail, Lifecycle!Open, Attempts, TaskStatus
  <2>5. QED
    BY <2>4 DEF Lifecycle!Next
<1>5. QED
  BY <1>2, <1>3, <1>4 DEF CreateTaskInsert, CreateTaskCompensate

(***************************************************************************)
(* The system keeps the promise of TaskLifecycle: whatever fails or is     *)
(* killed, a task is done after an attempt and for good, a response comes  *)
(* with the status done, and no task is attempted more often than allowed. *)
(***************************************************************************)
THEOREM RequesterIsLifecycle == ASSUME Exclusive PROVE Spec => ImplementsLifecycle
<1>1. Init => Lifecycle!Init
  <2>. SUFFICES ASSUME Init PROVE Lifecycle!Init
    OBVIOUS
  <2>1. requested = {} /\ table = [t \in Tasks |-> NoRow]
    BY DEF Init, WorkerInit, RepositoryInit
  <2>2. \A t \in Tasks : Cardinality(RequestsOf(t)) = 0
    BY <2>1, FS_EmptySet DEF RequestsOf
  <2>3. QED
    BY <2>1, <2>2 DEF Lifecycle!Init, Lifecycle!Absent, NoRow
<1>2. ExclusiveInv /\ [Next]_vars => [Lifecycle!Next]_<<table, Attempts>>
  <2>. SUFFICES ASSUME ExclusiveInv, [Next]_vars
                PROVE  (table' = table /\ Attempts' = Attempts) \/ Lifecycle!Next
    OBVIOUS
  <2>1. SafetyInv
    BY DEF ExclusiveInv
  <2>2. CASE \/ \E t \in Tasks : /\ CreateTaskSend(t) \/ ContextDone(t) \/ CallDies(t)
                                 /\ UNCHANGED workerVars
             \/ \E i \in Instances, msgs \in SUBSET Msgs : Receive(i, msgs)
             \/ \E l \in Listeners : \E d \in batch[l[1]] : Dispatch(l, d)
             \/ \E i \in Instances : Stop(i) \/ Exit(i) \/ Start(i)
             \/ \E m \in Msgs : VisibilityTimeout(m)
             \/ \E m \in ForeignMsgs, body \in Bodies \ Tasks : ForeignSend(m, body)
             \/ UNCHANGED vars
    <3>1. table' = table /\ requested' = requested
      BY <2>2 DEF CreateTaskSend, ContextDone, CallDies, Receive, Dispatch, Stop, Exit, Start,
         VisibilityTimeout, ForeignSend, workerVars, vars
    <3>2. QED
      BY <2>1, <3>1, NoAttempt
  <2>3. QED
    BY <2>2, NextCases, ListenerLifecycle, HandlerLifecycle
<1>3. QED
  BY <1>1, <1>2, ExclusiveInvariant, PTL DEF ImplementsLifecycle, Lifecycle!Spec, Spec, Attempts
=============================================================================
