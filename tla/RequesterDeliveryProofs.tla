----------------------- MODULE RequesterDeliveryProofs -----------------------
(***************************************************************************)
(* What becomes of a delivery: it is in one place at a time, at most one   *)
(* request is made for it, and it costs a process at most one listener.    *)
(* The bounds on requests and on lost listeners follow by counting         *)
(* deliveries, whose counts are at most MaxMessageAttempts.                *)
(* That the listeners of every process implement Pool follows as well.     *)
(***************************************************************************)
EXTENDS RequesterSafetyProofs, FiniteSetTheorems

Early == {"decode", "get", "mark", "request"}

(***************************************************************************)
(* What a step of listener l does with its delivery: it drops it, or keeps *)
(* it; and it asks the third party only on its behalf, and only once.      *)
(***************************************************************************)
KeepsOrDrops(l) ==
    /\ batch' = batch
    /\ Holds(l)
    /\ \A k \in Listeners : k # l => listener'[k] = listener[k]
    /\ \/ listener'[l].pc = "idle"
       \/ listener'[l].held = listener[l].held
    /\ \/ requested' = requested
       \/ /\ requested' = requested \cup {listener[l].held}
          /\ listener'[l].pc \notin Early
    /\ listener'[l].pc \in Early => listener[l].pc \in Early

LEMMA HandleMessageDelivery ==
    ASSUME TypeOK, NEW l \in Listeners, HandleMessage(l)
    PROVE  KeepsOrDrops(l)
<1>1. listener[l] \in ListenerStates
  BY DEF TypeOK, WorkerTypeOK
<1>2. ASSUME BecomeIdle(l)
      PROVE  listener'[l].pc = "idle" /\ \A k \in Listeners : k # l => listener'[k] = listener[k]
  BY <1>2, BecomeRecord DEF BecomeIdle, Idle
<1>3. ASSUME NEW pc \in {"get", "delete"}, Step(l, pc)
      PROVE  /\ listener'[l].pc = pc
             /\ listener'[l].held = listener[l].held
             /\ \A k \in Listeners : k # l => listener'[k] = listener[k]
  BY <1>1, <1>3, BecomeRecord DEF Step, ListenerStates
<1>4. ASSUME NEW o, Leave(l, o)
      PROVE  /\ listener'[l].pc = "deferred"
             /\ listener'[l].held = listener[l].held
             /\ \A k \in Listeners : k # l => listener'[k] = listener[k]
  <2> DEFINE r == [listener[l] EXCEPT !.pc = "deferred", !.outcome = o]
  <2>1. r.pc = "deferred" /\ r.held = listener[l].held
    BY <1>1 DEF ListenerStates
  <2>2. QED
    BY <1>4, <2>1, BecomeRecord DEF Leave
<1>5. ASSUME Panic(l)
      PROVE  /\ listener'[l].pc = "dead"
             /\ listener'[l].held = listener[l].held
             /\ \A k \in Listeners : k # l => listener'[k] = listener[k]
  <2> DEFINE r == [Idle EXCEPT !.pc = "dead", !.held = listener[l].held]
  <2>1. r.pc = "dead" /\ r.held = listener[l].held
    BY DEF Idle
  <2>2. QED
    BY <1>5, <2>1, BecomeRecord DEF Panic
<1>6. CASE HandleMessageDecode(l)
  BY <1>2, <1>3, <1>6 DEF HandleMessageDecode, KeepsOrDrops, Holds, Early
<1>7. CASE ProcessTaskGet(l)
  <2>1. ASSUME NEW c, Become(l, [listener[l] EXCEPT !.pc = "mark", !.copy = c])
        PROVE  /\ listener'[l].pc = "mark"
               /\ listener'[l].held = listener[l].held
               /\ \A k \in Listeners : k # l => listener'[k] = listener[k]
    <3> DEFINE r == [listener[l] EXCEPT !.pc = "mark", !.copy = c]
    <3>1. r.pc = "mark" /\ r.held = listener[l].held
      BY <1>1 DEF ListenerStates
    <3>2. QED
      BY <2>1, <3>1, BecomeRecord
  <2>2. QED
    BY <1>2, <1>3, <1>7, <2>1 DEF ProcessTaskGet, KeepsOrDrops, Holds, Early
<1>8. CASE ProcessTaskMark(l)
  <2>1. PICK ok \in BOOLEAN :
          Become(l, [listener[l] EXCEPT
            !.pc      = IF ok THEN "request" ELSE "deferred",
            !.copy    = CopyAfter(l, "in_process"),
            !.outcome = IF ok THEN "none" ELSE "err"])
    BY <1>8 DEF ProcessTaskMark
  <2> DEFINE r == [listener[l] EXCEPT
            !.pc      = IF ok THEN "request" ELSE "deferred",
            !.copy    = CopyAfter(l, "in_process"),
            !.outcome = IF ok THEN "none" ELSE "err"]
  <2>2. r.held = listener[l].held
    BY <1>1 DEF ListenerStates
  <2>3. listener'[l] = r /\ \A k \in Listeners : k # l => listener'[k] = listener[k]
    BY <2>1, BecomeRecord
  <2>4. QED
    BY <1>8, <2>2, <2>3 DEF ProcessTaskMark, KeepsOrDrops, Holds, Early
<1>9. CASE ProcessTaskRequest(l)
  <2>1. ASSUME NEW a, Become(l, [listener[l] EXCEPT !.pc = "finish", !.reply = a])
        PROVE  /\ listener'[l].pc = "finish"
               /\ listener'[l].held = listener[l].held
               /\ \A k \in Listeners : k # l => listener'[k] = listener[k]
    <3> DEFINE r == [listener[l] EXCEPT !.pc = "finish", !.reply = a]
    <3>1. r.pc = "finish" /\ r.held = listener[l].held
      BY <1>1 DEF ListenerStates
    <3>2. QED
      BY <2>1, <3>1, BecomeRecord
  <2>2. QED
    BY <1>4, <1>9, <2>1 DEF ProcessTaskRequest, KeepsOrDrops, Holds, Early
<1>10. CASE ProcessTaskFinish(l)
  <2>1. PICK ok \in BOOLEAN :
          Become(l, [listener[l] EXCEPT
                !.pc      = "deferred",
                !.copy    = CopyAfter(l, "done"),
                !.outcome = IF ok THEN "ok" ELSE "err",
                !.reply   = NoResponse])
    BY <1>10 DEF ProcessTaskFinish
  <2> DEFINE r == [listener[l] EXCEPT
                !.pc      = "deferred",
                !.copy    = CopyAfter(l, "done"),
                !.outcome = IF ok THEN "ok" ELSE "err",
                !.reply   = NoResponse]
  <2>2. r.held = listener[l].held /\ r.pc = "deferred"
    BY <1>1 DEF ListenerStates
  <2>3. listener'[l] = r /\ \A k \in Listeners : k # l => listener'[k] = listener[k]
    BY <2>1, BecomeRecord
  <2>4. QED
    BY <1>10, <2>2, <2>3 DEF ProcessTaskFinish, KeepsOrDrops, Holds, Early
<1>11. CASE ProcessTaskDeferred(l)
  BY <1>2, <1>3, <1>5, <1>11 DEF ProcessTaskDeferred, AfterProcessTask, KeepsOrDrops, Holds, Early
<1>12. CASE HandleMessageDelete(l)
  BY <1>2, <1>12 DEF HandleMessageDelete, KeepsOrDrops, Holds, Early
<1>13. QED
  BY <1>6, <1>7, <1>8, <1>9, <1>10, <1>11, <1>12 DEF HandleMessage

(***************************************************************************)
(* A delivery that a receive makes is not one that was made before.        *)
(***************************************************************************)
LEMMA ReceivedAreNew ==
    ASSUME TypeOK, NEW msgs \in SUBSET Msgs, GetMessages(msgs),
           NEW d \in DeliveriesOf(msgs), NEW e, DeliveryOK(e)
    PROVE  d # e
<1>1. PICK m \in msgs : d = [msg |-> m, count |-> queue[m].receives + 1]
  BY DEF DeliveriesOf
<1>2. queue[m].receives \in Nat
  BY DEF TypeOK, QueueTypeOK, Message
<1>3. SUFFICES ASSUME d = e PROVE FALSE
  OBVIOUS
<1>4. e.msg = m /\ e.count = queue[m].receives + 1
  BY <1>1, <1>3
<1>5. QED
  BY <1>2, <1>4 DEF DeliveryOK

LEMMA DeliveriesInit == Init => DeliveriesInv
BY DEF Init, WorkerInit, Idle, DeliveriesInv, Holds

(***************************************************************************)
(* The step of a listener: what the others hold is as before, and what it  *)
(* holds afterwards it held before.                                        *)
(***************************************************************************)
LEMMA HandleMessageDeliveries ==
    ASSUME SafetyInv, DeliveriesInv, NEW l \in Listeners, HandleMessage(l)
    PROVE  DeliveriesInv'
<1>1. KeepsOrDrops(l)
  BY HandleMessageDelivery DEF SafetyInv
<1>2. \A k \in Listeners : Holds(k)' => Holds(k) /\ listener'[k].held = listener[k].held
  BY <1>1 DEF KeepsOrDrops, Holds
<1>3. \A i, j \in Instances : i # j => batch'[i] \cap batch'[j] = {}
  BY <1>1 DEF KeepsOrDrops, DeliveriesInv
<1>4. \A i \in Instances : listener[l].held \notin batch[i]
  BY <1>1 DEF KeepsOrDrops, DeliveriesInv
<1>5. \A i \in Instances : batch'[i] \cap requested' = {}
  BY <1>1, <1>4 DEF KeepsOrDrops, DeliveriesInv
<1>6. ASSUME NEW k \in Listeners, Holds(k)'
      PROVE  /\ \A i \in Instances : listener'[k].held \notin batch'[i]
             /\ \A j \in Listeners : Holds(j)' /\ j # k => listener'[j].held # listener'[k].held
             /\ listener'[k].pc \in Early => listener'[k].held \notin requested'
  <2>1. \A i \in Instances : listener'[k].held \notin batch'[i]
    BY <1>1, <1>2, <1>6 DEF KeepsOrDrops, DeliveriesInv
  <2>2. \A j \in Listeners : Holds(j)' /\ j # k => listener'[j].held # listener'[k].held
    BY <1>2, <1>6 DEF DeliveriesInv
  <2>3. listener'[k].pc \in Early => listener'[k].held \notin requested'
    <3>1. SUFFICES ASSUME listener'[k].pc \in Early PROVE listener'[k].held \notin requested'
      OBVIOUS
    <3>2. listener[k].pc \in Early
      BY <1>1, <3>1 DEF KeepsOrDrops
    <3>3. listener[k].held \notin requested
      BY <1>2, <1>6, <3>2 DEF DeliveriesInv, Early
    <3>4. CASE k = l
      BY <1>1, <1>2, <1>6, <3>1, <3>3, <3>4 DEF KeepsOrDrops
    <3>5. CASE k # l
      <4>1. listener[k].held # listener[l].held
        BY <1>1, <1>2, <1>6, <3>5 DEF KeepsOrDrops, DeliveriesInv
      <4>2. QED
        BY <1>1, <1>2, <1>6, <3>3, <4>1 DEF KeepsOrDrops
    <3>6. QED
      BY <3>4, <3>5
  <2>4. QED
    BY <2>1, <2>2, <2>3
<1>7. QED
  BY <1>3, <1>5, <1>6 DEF DeliveriesInv, Early

LEMMA ReceiveDeliveries ==
    ASSUME SafetyInv, DeliveriesInv, NEW i \in Instances, NEW msgs \in SUBSET Msgs, Receive(i, msgs)
    PROVE  DeliveriesInv'
<1>1. TypeOK /\ GetMessages(msgs) /\ listener' = listener /\ requested' = requested
  BY DEF SafetyInv, Receive
<1>2. CASE batch' = batch
  BY <1>1, <1>2 DEF DeliveriesInv, Holds
<1>3. CASE batch' = [batch EXCEPT ![i] = DeliveriesOf(msgs)]
  <2>1. /\ batch'[i] = DeliveriesOf(msgs)
        /\ \A j \in Instances : j # i => batch'[j] = batch[j]
    BY <1>1, <1>3 DEF TypeOK, WorkerTypeOK
  <2>2. \A j \in Instances : DeliveriesOf(msgs) \cap batch[j] = {}
    BY <1>1, ReceivedAreNew DEF SafetyInv
  <2>3. DeliveriesOf(msgs) \cap requested = {}
    BY <1>1, ReceivedAreNew DEF SafetyInv
  <2>4. \A l \in Listeners : Holds(l) => listener[l].held \notin DeliveriesOf(msgs)
    BY <1>1, ReceivedAreNew DEF SafetyInv, ListenerInv, Holds
  <2>5. \A j, k \in Instances : j # k => batch'[j] \cap batch'[k] = {}
    BY <2>1, <2>2 DEF DeliveriesInv
  <2>6. \A j \in Instances : batch'[j] \cap requested' = {}
    BY <1>1, <2>1, <2>3 DEF DeliveriesInv
  <2>7. \A l \in Listeners : Holds(l)' => \A j \in Instances : listener'[l].held \notin batch'[j]
    BY <1>1, <2>1, <2>4 DEF DeliveriesInv, Holds
  <2>8. QED
    BY <1>1, <2>5, <2>6, <2>7 DEF DeliveriesInv, Holds
<1>4. QED
  BY <1>2, <1>3 DEF Receive

LEMMA DispatchDeliveries ==
    ASSUME SafetyInv, DeliveriesInv, NEW l \in Listeners, NEW d \in batch[l[1]], Dispatch(l, d)
    PROVE  DeliveriesInv'
<1>1. TypeOK /\ l[1] \in Instances /\ requested' = requested
  BY DEF SafetyInv, Listeners, Dispatch
<1>2. /\ batch'[l[1]] = batch[l[1]] \ {d}
      /\ \A j \in Instances : j # l[1] => batch'[j] = batch[j]
  BY <1>1 DEF Dispatch, TypeOK, WorkerTypeOK
<1> DEFINE r == [Idle EXCEPT !.pc = "decode", !.held = d]
<1>3. r.pc = "decode" /\ r.held = d
  BY DEF Idle
<1>4. /\ listener'[l].pc = "decode" /\ listener'[l].held = d
      /\ \A k \in Listeners : k # l => listener'[k] = listener[k]
  BY <1>1, <1>3, BecomeRecord DEF Dispatch
<1>5. \A i, j \in Instances : i # j => batch'[i] \cap batch'[j] = {}
  BY <1>1, <1>2 DEF DeliveriesInv
<1>6. d \notin requested /\ \A j \in Instances : d \notin batch'[j]
  BY <1>1, <1>2 DEF DeliveriesInv
<1>7. \A i \in Instances : batch'[i] \cap requested' = {}
  BY <1>1, <1>2 DEF DeliveriesInv
<1>8. \A k \in Listeners : k # l /\ Holds(k)' =>
          Holds(k) /\ listener'[k].held # d /\ \A i \in Instances : listener'[k].held \notin batch'[i]
  BY <1>1, <1>2, <1>4 DEF DeliveriesInv, Holds
<1>9. ASSUME NEW k \in Listeners, Holds(k)'
      PROVE  /\ \A i \in Instances : listener'[k].held \notin batch'[i]
             /\ \A j \in Listeners : Holds(j)' /\ j # k => listener'[j].held # listener'[k].held
             /\ listener'[k].pc \in Early => listener'[k].held \notin requested'
  <2>1. CASE k = l
    BY <1>1, <1>4, <1>6, <1>8, <2>1
  <2>2. CASE k # l
    <3>1. \A j \in Listeners : Holds(j)' /\ j # k => listener'[j].held # listener'[k].held
      BY <1>4, <1>8, <1>9, <2>2 DEF DeliveriesInv
    <3>2. listener'[k].pc \in Early => listener'[k].held \notin requested'
      BY <1>1, <1>4, <1>8, <1>9, <2>2 DEF DeliveriesInv, Early
    <3>3. QED
      BY <1>8, <1>9, <2>2, <3>1, <3>2
  <2>3. QED
    BY <2>1, <2>2
<1>10. QED
  BY <1>5, <1>7, <1>9 DEF DeliveriesInv, Early

LEMMA DeliveriesStep == SafetyInv /\ DeliveriesInv /\ [Next]_vars => DeliveriesInv'
<1>. SUFFICES ASSUME SafetyInv, DeliveriesInv, [Next]_vars PROVE DeliveriesInv'
  OBVIOUS
<1>1. ASSUME NEW i \in Instances, Exit(i) PROVE DeliveriesInv'
  <2>1. /\ requested' = requested
        /\ \A j \in Instances : batch'[j] \subseteq batch[j]
        /\ \A l \in Listeners : listener'[l] = listener[l] \/ listener'[l].pc = "idle"
    BY <1>1 DEF Exit, Idle, SafetyInv, TypeOK, WorkerTypeOK
  <2>2. QED
    BY <2>1 DEF DeliveriesInv, Holds
<1>2. ASSUME NEW i \in Instances, Stop(i) \/ Start(i) PROVE DeliveriesInv'
  BY <1>2 DEF Stop, Start, DeliveriesInv, Holds
<1>3. ASSUME UNCHANGED workerVars PROVE DeliveriesInv'
  BY <1>3 DEF workerVars, DeliveriesInv, Holds
<1>4. QED
  BY <1>1, <1>2, <1>3, HandleMessageDeliveries, ReceiveDeliveries, DispatchDeliveries, NextCases
  DEF VisibilityTimeout, ForeignSend, vars, workerVars

THEOREM DeliveriesInvariant == Spec => [](SafetyInv /\ DeliveriesInv)
BY SafetyInit, SafetyStep, DeliveriesInit, DeliveriesStep, PTL DEF Spec

(***************************************************************************)
(* The hand-over from the poller to the listeners, and from one receive to *)
(* the next, neither loses nor duplicates a delivery, and no delivery is   *)
(* the cause of two requests.                                              *)
(***************************************************************************)
THEOREM AlwaysDeliveredOnce == Spec => []DeliveredOnce
<1>1. DeliveriesInv => DeliveredOnce
  BY DEF DeliveriesInv, DeliveredOnce, Holds, IsWorking
<1>2. QED
  BY <1>1, DeliveriesInvariant, PTL

(***************************************************************************)
(* Deliveries of one message within the limit are told apart by their      *)
(* counts, so there are at most MaxMessageAttempts of them.                *)
(***************************************************************************)
LEMMA CountsBound ==
    ASSUME ~Debug, NEW m, NEW R, \A d \in R : d \in Delivery /\ d.msg = m /\ ~OverLimit(d)
    PROVE  Cardinality(R) <= MaxMessageAttempts
<1> DEFINE f == [d \in R |-> d.count]
<1>1. \A d \in R : d.count \in 1..MaxMessageAttempts
  BY QueueAssumption DEF OverLimit, Delivery
<1>2. \A d, e \in R : d.count = e.count => d = e
  BY DEF Delivery
<1>3. f \in Injection(R, 1..MaxMessageAttempts)
  BY <1>1, <1>2 DEF Injection, IsInjective
<1>4. /\ IsFiniteSet(1..MaxMessageAttempts)
      /\ Cardinality(1..MaxMessageAttempts) = MaxMessageAttempts
  BY QueueAssumption, FS_Interval
<1>5. QED
  BY <1>3, <1>4, FS_Injection

(***************************************************************************)
(* At most MaxMessageAttempts requests are made for a message: each is for *)
(* another delivery.                                                       *)
(***************************************************************************)
THEOREM RequestsAlwaysBounded == Spec => []RequestsBounded
<1>1. SafetyInv => RequestsBounded
  BY CountsBound DEF SafetyInv, DeliveryOK, RequestsBounded
<1>2. QED
  BY <1>1, SafetyInvariant, PTL

(***************************************************************************)
(* A process loses at most MaxMessageAttempts listeners for each message   *)
(* whose task no request can be built from: every dead listener held       *)
(* another delivery of such a message, with a count within the limit.      *)
(***************************************************************************)
THEOREM PoolLossAlwaysBounded == Spec => []PoolLossBounded
<1>1. SafetyInv /\ DeliveriesInv => PoolLossBounded
  <2>. SUFFICES ASSUME SafetyInv, DeliveriesInv, ~Debug, NEW i \in Instances
                PROVE  Cardinality(Dead(i)) <= MaxMessageAttempts
                           * Cardinality({m \in Msgs : queue[m].body \in Malformed})
    BY DEF PoolLossBounded
  <2> DEFINE D == Dead(i)
             M == {m \in Msgs : queue[m].body \in Malformed}
             C == 1..MaxMessageAttempts
             held(s) == listener[<<i, s>>].held
             f == [s \in D |-> <<held(s).msg, held(s).count>>]
  <2>1. ASSUME NEW s \in D
        PROVE  held(s) \in Delivery /\ held(s).msg \in M /\ held(s).count \in C
    <3>1. <<i, s>> \in Listeners /\ listener[<<i, s>>].pc = "dead"
      BY DEF Dead, Listeners
    <3>2. /\ held(s) \in Delivery
          /\ ~OverLimit(held(s))
          /\ TaskOf(<<i, s>>) \in Malformed
      BY <3>1 DEF SafetyInv, ListenerInv, DeliveryOK
    <3>3. QED
      BY <3>2, QueueAssumption DEF OverLimit, Delivery, TaskOf, BodyOf
  <2>2. ASSUME NEW r \in D, NEW s \in D, f[r] = f[s] PROVE r = s
    <3>1. held(r) = held(s)
      BY <2>1, <2>2 DEF Delivery
    <3>2. /\ <<i, r>> \in Listeners /\ Holds(<<i, r>>)
          /\ <<i, s>> \in Listeners /\ Holds(<<i, s>>)
      BY DEF Dead, Listeners, Holds
    <3>3. <<i, r>> = <<i, s>>
      BY <3>1, <3>2 DEF DeliveriesInv
    <3>4. QED
      BY <3>3
  <2>3. f \in Injection(D, M \X C)
    BY <2>1, <2>2 DEF Injection, IsInjective
  <2>4. IsFiniteSet(M) /\ Cardinality(M) \in Nat
    BY QueueAssumption, FS_Subset, FS_CardinalityType
  <2>5. IsFiniteSet(C) /\ Cardinality(C) = MaxMessageAttempts
    BY QueueAssumption, FS_Interval
  <2>6. IsFiniteSet(M \X C) /\ Cardinality(M \X C) = Cardinality(M) * MaxMessageAttempts
    BY <2>4, <2>5, FS_Product
  <2>7. Cardinality(D) <= Cardinality(M \X C)
    BY <2>3, <2>6, FS_Injection
  <2>8. Cardinality(M) * MaxMessageAttempts = MaxMessageAttempts * Cardinality(M)
    BY <2>4, QueueAssumption
  <2>9. QED
    BY <2>6, <2>7, <2>8
<1>2. QED
  BY <1>1, DeliveriesInvariant, PTL

-----------------------------------------------------------------------------
(* The listeners of every process implement Pool                           *)

\* The variables of Pool as the refinement mapping gives them.
OpenPools == [i \in Instances |-> proc[i] # "down"]

HeldIn(i) == {listener[l].held : l \in {k \in Listeners : k[1] = i /\ IsWorking(k)}}

Running == [i \in Instances |-> HeldIn(i)]

Lost == [i \in Instances |-> Cardinality(Dead(i))]

PoolSize == [i \in Instances |-> Cardinality(Slots)]

(***************************************************************************)
(* Pool counts with the Cardinality of its own instance.                   *)
(***************************************************************************)
LEMMA SameCardinality == \A S : PoolOfListeners!Cardinality(S) = Cardinality(S)
BY DEF PoolOfListeners!Cardinality, Cardinality

LEMMA PoolStutters ==
    ASSUME OpenPools' = OpenPools, batch' = batch, Running' = Running, Lost' = Lost
    PROVE  UNCHANGED PoolOfListeners!poolVars
BY DEF PoolOfListeners!poolVars, OpenPools, Running, HeldIn, Lost

(***************************************************************************)
(* A step of one listener, as the pool sees it.                            *)
(***************************************************************************)
LEMMA RunningMoves ==
    ASSUME DeliveriesInv, NEW l \in Listeners, listener[l].pc # "dead",
           \A k \in Listeners : k # l => listener'[k] = listener[k]
    PROVE  /\ ~IsWorking(l) /\ IsWorking(l)' =>
                 Running' = [Running EXCEPT ![l[1]] = @ \cup {listener'[l].held}]
           /\ IsWorking(l) /\ ~IsWorking(l)' =>
                 Running' = [Running EXCEPT ![l[1]] = @ \ {listener[l].held}]
           /\ IsWorking(l) /\ IsWorking(l)' /\ listener'[l].held = listener[l].held =>
                 Running' = Running
           /\ listener'[l].pc = "dead" => Lost' = [Lost EXCEPT ![l[1]] = @ + 1]
           /\ listener'[l].pc # "dead" => Lost' = Lost
<1>1. l[1] \in Instances /\ l[2] \in Slots /\ l = <<l[1], l[2]>>
  BY DEF Listeners
<1>2. \A k \in Listeners : IsWorking(k) /\ IsWorking(l) /\ k # l => listener[k].held # listener[l].held
  BY DEF DeliveriesInv, Holds, IsWorking
<1>3. \A i \in Instances \ {l[1]} : HeldIn(i)' = HeldIn(i)
  BY DEF HeldIn, IsWorking
<1>4. /\ ~IsWorking(l) /\ IsWorking(l)' => HeldIn(l[1])' = HeldIn(l[1]) \cup {listener'[l].held}
      /\ IsWorking(l) /\ ~IsWorking(l)' => HeldIn(l[1])' = HeldIn(l[1]) \ {listener[l].held}
      /\ IsWorking(l) /\ IsWorking(l)' /\ listener'[l].held = listener[l].held =>
            HeldIn(l[1])' = HeldIn(l[1])
  BY <1>2 DEF HeldIn, IsWorking
<1>5. /\ \A i \in Instances \ {l[1]} : Dead(i)' = Dead(i)
      /\ listener'[l].pc = "dead" => Dead(l[1])' = Dead(l[1]) \cup {l[2]}
      /\ listener'[l].pc # "dead" => Dead(l[1])' = Dead(l[1])
      /\ l[2] \notin Dead(l[1])
  BY <1>1 DEF Dead, Listeners
<1>6. listener'[l].pc = "dead" => Cardinality(Dead(l[1])') = Cardinality(Dead(l[1])) + 1
  <2>1. IsFiniteSet(Dead(l[1]))
    BY WorkerAssumption, FS_Subset DEF Dead
  <2>2. QED
    BY <1>5, <2>1, FS_AddElement
<1>7. /\ ~IsWorking(l) /\ IsWorking(l)' =>
            Running' = [Running EXCEPT ![l[1]] = @ \cup {listener'[l].held}]
      /\ IsWorking(l) /\ ~IsWorking(l)' =>
            Running' = [Running EXCEPT ![l[1]] = @ \ {listener[l].held}]
      /\ IsWorking(l) /\ IsWorking(l)' /\ listener'[l].held = listener[l].held =>
            Running' = Running
  BY <1>1, <1>3, <1>4 DEF Running
<1>8. /\ listener'[l].pc = "dead" => Lost' = [Lost EXCEPT ![l[1]] = @ + 1]
      /\ listener'[l].pc # "dead" => Lost' = Lost
  BY <1>1, <1>5, <1>6 DEF Lost
<1>9. QED
  BY <1>7, <1>8

(***************************************************************************)
(* While a listener waits, fewer than all of them run or were lost.        *)
(***************************************************************************)
LEMMA RoomForOne ==
    ASSUME NEW l \in Listeners, listener[l].pc = "idle"
    PROVE  Cardinality(Running[l[1]]) + Lost[l[1]] < Cardinality(Slots)
<1> DEFINE i == l[1]
           W == {s \in Slots : IsWorking(<<i, s>>)}
           D == Dead(i)
<1>1. i \in Instances /\ l[2] \in Slots /\ l = <<i, l[2]>> /\ IsFiniteSet(Slots)
  BY WorkerAssumption DEF Listeners
<1>2. IsFiniteSet(W) /\ IsFiniteSet(D) /\ W \cap D = {}
  BY <1>1, FS_Subset DEF Dead, IsWorking
<1>3. W \cup D \subseteq Slots \ {l[2]}
  BY <1>1 DEF Dead, IsWorking
<1>4. Cardinality(W \cup D) = Cardinality(W) + Cardinality(D)
  <2>1. Cardinality(W \cup D) = Cardinality(W) + Cardinality(D) - Cardinality(W \cap D)
    BY <1>2, FS_Union
  <2>2. Cardinality(W) \in Nat /\ Cardinality(D) \in Nat /\ Cardinality(W \cap D) = 0
    BY <1>2, FS_CardinalityType, FS_EmptySet
  <2>3. QED
    BY <2>1, <2>2
<1>5. Cardinality(W \cup D) <= Cardinality(Slots) - 1
  <2>1. IsFiniteSet(Slots \ {l[2]}) /\ Cardinality(Slots \ {l[2]}) = Cardinality(Slots) - 1
    BY <1>1, FS_RemoveElement
  <2>2. \A S \in SUBSET (Slots \ {l[2]}) : Cardinality(S) <= Cardinality(Slots \ {l[2]})
    BY <2>1, FS_Subset
  <2>3. QED
    BY <1>3, <2>1, <2>2
<1>6. Cardinality(Running[i]) <= Cardinality(W) /\ Cardinality(Running[i]) \in Nat
  <2> DEFINE f == [s \in W |-> listener[<<i, s>>].held]
  <2>1. Running[i] = HeldIn(i)
    BY <1>1 DEF Running
  <2>2. \A s \in W : f[s] \in HeldIn(i)
    BY <1>1 DEF HeldIn, Listeners
  <2>3. \A d \in HeldIn(i) : \E s \in W : f[s] = d
    <3>1. SUFFICES ASSUME NEW k \in Listeners, k[1] = i, IsWorking(k)
                   PROVE  \E s \in W : f[s] = listener[k].held
      BY DEF HeldIn
    <3>2. k = <<i, k[2]>> /\ k[2] \in Slots
      BY <3>1 DEF Listeners
    <3>3. k[2] \in W /\ f[k[2]] = listener[k].held
      BY <3>1, <3>2
    <3>4. QED
      BY <3>3
  <2>4. f \in Surjection(W, Running[i])
    BY <2>1, <2>2, <2>3 DEF Surjection
  <2>5. QED
    BY <1>2, <2>4, FS_Surjection, FS_CardinalityType
<1>7. Lost[i] = Cardinality(D) /\ Cardinality(D) \in Nat /\ Cardinality(W) \in Nat
      /\ Cardinality(Slots) \in Nat
  BY <1>1, <1>2, FS_CardinalityType DEF Lost
<1>8. QED
  BY <1>4, <1>5, <1>6, <1>7

(***************************************************************************)
(* A receive takes at most one delivery for each listener, none of which   *)
(* is in a pool; when its answer is lost, it takes nothing.                *)
(***************************************************************************)
LEMMA ReceiveTakes ==
    ASSUME SafetyInv, NEW i \in Instances, NEW msgs \in SUBSET Msgs, Receive(i, msgs)
    PROVE  PoolOfListeners!Next \/ UNCHANGED PoolOfListeners!poolVars
<1>1. /\ TypeOK /\ GetMessages(msgs)
      /\ OpenPools' = OpenPools /\ Running' = Running /\ Lost' = Lost
      /\ OpenPools[i] /\ batch[i] = {}
  BY DEF SafetyInv, Receive, OpenPools, Running, HeldIn, IsWorking, Lost, Dead
<1>2. CASE batch' = batch
  BY <1>1, <1>2, PoolStutters
<1>3. CASE batch' = [batch EXCEPT ![i] = DeliveriesOf(msgs)]
  <2>1. Cardinality(DeliveriesOf(msgs)) <= Cardinality(Slots)
    <3> DEFINE f == [m \in msgs |-> [msg |-> m, count |-> queue[m].receives + 1]]
    <3>1. f \in Surjection(msgs, DeliveriesOf(msgs))
      BY DEF DeliveriesOf, Surjection
    <3>2. IsFiniteSet(msgs) /\ Cardinality(msgs) \in Nat /\ Cardinality(Slots) \in Nat
      BY QueueAssumption, WorkerAssumption, FS_Subset, FS_CardinalityType
    <3>3. /\ Cardinality(DeliveriesOf(msgs)) <= Cardinality(msgs)
          /\ Cardinality(DeliveriesOf(msgs)) \in Nat
      BY <3>1, <3>2, FS_Surjection, FS_CardinalityType
    <3>4. QED
      BY <3>2, <3>3 DEF Receive
  <2>2. ASSUME NEW d \in DeliveriesOf(msgs)
        PROVE  d \in Delivery /\ ~PoolOfListeners!IsInPool(d)
    <3>1. d \in Delivery
      BY <1>1, ReceivedIsLatest
    <3>2. \A j \in Instances : d \notin batch[j]
      BY <1>1, ReceivedAreNew DEF SafetyInv
    <3>3. \A l \in Listeners : IsWorking(l) => d # listener[l].held
      BY <1>1, ReceivedAreNew DEF SafetyInv, ListenerInv, IsWorking
    <3>4. QED
      BY <3>1, <3>2, <3>3 DEF PoolOfListeners!IsInPool
  <2>3. PoolOfListeners!Take(i, DeliveriesOf(msgs))
    BY <1>1, <1>3, <2>1, <2>2, SameCardinality
    DEF PoolOfListeners!Take, OpenPools, Running, HeldIn, Lost
  <2>4. QED
    BY <2>2, <2>3 DEF PoolOfListeners!Next
<1>4. QED
  BY <1>2, <1>3 DEF Receive

LEMMA DispatchGives ==
    ASSUME SafetyInv, DeliveriesInv, NEW l \in Listeners, NEW d \in batch[l[1]], Dispatch(l, d)
    PROVE  PoolOfListeners!Next
<1> DEFINE r == [Idle EXCEPT !.pc = "decode", !.held = d]
<1>1. r.pc = "decode" /\ r.held = d
  BY DEF Idle
<1>2. listener'[l] = r /\ \A k \in Listeners : k # l => listener'[k] = listener[k]
  BY BecomeRecord DEF Dispatch, SafetyInv
<1>3. ~IsWorking(l) /\ IsWorking(l)' /\ listener'[l].held = d /\ listener'[l].pc = "decode"
  BY <1>1, <1>2 DEF Dispatch, IsWorking
<1>4. Running' = [Running EXCEPT ![l[1]] = @ \cup {d}] /\ Lost' = Lost
  BY <1>2, <1>3, RunningMoves DEF Dispatch
<1>5. Cardinality(Running[l[1]]) + Lost[l[1]] < PoolSize[l[1]]
  BY RoomForOne DEF Dispatch, PoolSize, Listeners
<1>6. batch' = [batch EXCEPT ![l[1]] = @ \ {d}] /\ OpenPools' = OpenPools
  BY DEF Dispatch, OpenPools
<1>7. PoolOfListeners!Give(l[1], d)
  BY <1>4, <1>5, <1>6, SameCardinality
  DEF PoolOfListeners!Give, OpenPools, Running, HeldIn, Lost, PoolSize
<1>8. QED
  BY <1>7 DEF PoolOfListeners!Next, Listeners

LEMMA ListenerCompletes ==
    ASSUME SafetyInv, DeliveriesInv, NEW l \in Listeners, HandleMessage(l)
    PROVE  PoolOfListeners!Next \/ UNCHANGED PoolOfListeners!poolVars
<1>1. KeepsOrDrops(l)
  BY HandleMessageDelivery DEF SafetyInv
<1>2. IsWorking(l) /\ listener[l].pc # "dead" /\ l[1] \in Instances
  BY DEF HandleMessage, HandleMessageDecode, ProcessTaskGet, ProcessTaskMark, ProcessTaskRequest,
     ProcessTaskFinish, ProcessTaskDeferred, HandleMessageDelete, IsWorking, Listeners
<1>3. /\ batch' = batch
      /\ \A k \in Listeners : k # l => listener'[k] = listener[k]
  BY <1>1 DEF KeepsOrDrops
<1>4. OpenPools' = OpenPools
  BY DEF HandleMessage, HandleMessageDecode, ProcessTaskGet, ProcessTaskMark, ProcessTaskRequest,
     ProcessTaskFinish, ProcessTaskDeferred, HandleMessageDelete, OpenPools
<1>5. PICK d \in Running[l[1]] : d = listener[l].held
  BY <1>2 DEF Running, HeldIn
<1>6. CASE IsWorking(l)'
  <2>1. listener'[l].held = listener[l].held /\ listener'[l].pc # "dead"
    BY <1>1, <1>6 DEF KeepsOrDrops, IsWorking
  <2>2. QED
    BY <1>2, <1>3, <1>4, <1>6, <2>1, RunningMoves, PoolStutters
<1>7. CASE listener'[l].pc = "idle"
  <2>1. Running' = [Running EXCEPT ![l[1]] = @ \ {d}] /\ Lost' = Lost
    BY <1>2, <1>3, <1>5, <1>7, RunningMoves DEF IsWorking
  <2>2. PoolOfListeners!Complete(l[1], d)
    BY <1>3, <1>4, <1>5, <2>1 DEF PoolOfListeners!Complete, OpenPools, Running, HeldIn, Lost
  <2>3. QED
    BY <1>2, <1>5, <2>2 DEF PoolOfListeners!Next, Running, HeldIn
<1>8. CASE listener'[l].pc = "dead"
  <2>1. /\ Running' = [Running EXCEPT ![l[1]] = @ \ {d}]
        /\ Lost' = [Lost EXCEPT ![l[1]] = @ + 1]
    BY <1>2, <1>3, <1>5, <1>8, RunningMoves DEF IsWorking
  <2>2. PoolOfListeners!LoseListener(l[1], d)
    BY <1>3, <1>4, <1>5, <2>1 DEF PoolOfListeners!LoseListener, OpenPools, Running, HeldIn, Lost
  <2>3. QED
    BY <1>2, <1>5, <2>2 DEF PoolOfListeners!Next, Running, HeldIn
<1>9. QED
  BY <1>6, <1>7, <1>8 DEF IsWorking

LEMMA ExitKills ==
    ASSUME SafetyInv, NEW i \in Instances, Exit(i)
    PROVE  PoolOfListeners!Next
<1>1. /\ OpenPools' = [OpenPools EXCEPT ![i] = FALSE]
      /\ batch' = [batch EXCEPT ![i] = {}]
  BY DEF Exit, OpenPools, SafetyInv, TypeOK, WorkerTypeOK
<1>2. \A l \in Listeners : listener'[l] = IF l[1] = i THEN Idle ELSE listener[l]
  BY DEF Exit
<1>3. /\ HeldIn(i)' = {}
      /\ \A j \in Instances \ {i} : HeldIn(j)' = HeldIn(j)
  BY <1>2 DEF HeldIn, IsWorking, Idle
<1>4. /\ Dead(i)' = {}
      /\ \A j \in Instances \ {i} : Dead(j)' = Dead(j)
  BY <1>2 DEF Dead, Idle, Listeners
<1>5. Running' = [Running EXCEPT ![i] = {}]
  BY <1>3 DEF Running
<1>6. Lost' = [Lost EXCEPT ![i] = 0]
  BY <1>4, FS_EmptySet DEF Lost
<1>7. PoolOfListeners!Kill(i)
  BY <1>1, <1>5, <1>6 DEF PoolOfListeners!Kill, OpenPools, Running, HeldIn, Lost
<1>8. QED
  BY <1>7 DEF PoolOfListeners!Next

(***************************************************************************)
(* The listeners of the processes are pools as Pool promises them: no      *)
(* delivery is in two pools or with two listeners, a batch fits the        *)
(* listeners, and those that died are missed, whatever fails or is killed. *)
(***************************************************************************)
THEOREM RequesterIsPool == Spec => ImplementsPool
<1>1. Init => PoolOfListeners!Init
  <2>. SUFFICES ASSUME Init PROVE PoolOfListeners!Init
    OBVIOUS
  <2>1. \A l \in Listeners : listener[l].pc = "idle"
    BY DEF Init, WorkerInit, Idle
  <2>2. \A i \in Instances : HeldIn(i) = {} /\ Dead(i) = {}
    BY <2>1 DEF HeldIn, IsWorking, Dead, Listeners
  <2>3. Running = [i \in Instances |-> {}] /\ Lost = [i \in Instances |-> 0]
    BY <2>2, FS_EmptySet DEF Running, Lost
  <2>4. OpenPools = [i \in Instances |-> TRUE] /\ batch = [i \in Instances |-> {}]
    BY DEF Init, WorkerInit, OpenPools
  <2>5. QED
    BY <2>3, <2>4 DEF PoolOfListeners!Init, OpenPools, Running, HeldIn, Lost
<1>2. SafetyInv /\ DeliveriesInv /\ [Next]_vars => [PoolOfListeners!Next]_(PoolOfListeners!poolVars)
  <2>. SUFFICES ASSUME SafetyInv, DeliveriesInv, [Next]_vars
                PROVE  PoolOfListeners!Next \/ UNCHANGED PoolOfListeners!poolVars
    OBVIOUS
  <2>1. ASSUME NEW i \in Instances, Stop(i)
        PROVE  UNCHANGED PoolOfListeners!poolVars
    <3>1. OpenPools' = OpenPools /\ batch' = batch /\ Running' = Running /\ Lost' = Lost
      BY <2>1 DEF Stop, OpenPools, Running, HeldIn, IsWorking, Lost, Dead,
         SafetyInv, TypeOK, WorkerTypeOK
    <3>2. QED
      BY <3>1, PoolStutters
  <2>2. ASSUME NEW i \in Instances, Start(i)
        PROVE  PoolOfListeners!Next
    <3>1. /\ OpenPools' = [OpenPools EXCEPT ![i] = TRUE] /\ ~OpenPools[i]
          /\ batch' = batch /\ Running' = Running /\ Lost' = Lost
      BY <2>2 DEF Start, OpenPools, Running, HeldIn, IsWorking, Lost, Dead,
         SafetyInv, TypeOK, WorkerTypeOK
    <3>2. PoolOfListeners!Reopen(i)
      BY <3>1 DEF PoolOfListeners!Reopen, OpenPools, Running, HeldIn, Lost
    <3>3. QED
      BY <3>2 DEF PoolOfListeners!Next
  <2>3. ASSUME UNCHANGED workerVars
        PROVE  UNCHANGED PoolOfListeners!poolVars
    <3>1. OpenPools' = OpenPools /\ batch' = batch /\ Running' = Running /\ Lost' = Lost
      BY <2>3 DEF workerVars, OpenPools, Running, HeldIn, IsWorking, Lost, Dead
    <3>2. QED
      BY <3>1, PoolStutters
  <2>4. QED
    BY <2>1, <2>2, <2>3, ReceiveTakes, DispatchGives, ListenerCompletes, ExitKills, NextCases
    DEF VisibilityTimeout, ForeignSend, vars, workerVars
<1>3. QED
  BY <1>1, <1>2, DeliveriesInvariant, PTL DEF Spec, ImplementsPool, PoolOfListeners!Spec
=============================================================================
