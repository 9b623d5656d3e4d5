------------------------- MODULE WatchMessagesProofs -------------------------
(***************************************************************************)
(* Proofs about WatchMessages: WatchInv is inductive, and WatchMessages    *)
(* implements the abstract Pool, for any number of processes and messages  *)
(* and any number of workers NewWorker accepts, zero and fewer included.   *)
(***************************************************************************)
EXTENDS WatchMessages, QueueProofs, FiniteSetTheorems

Ours(p) == {g \in Goroutines : g[1] = p}

(***************************************************************************)
(* The goroutines of a process are as many as its Workers says.            *)
(***************************************************************************)
LEMMA OursFinite ==
    ASSUME NEW p \in Processes
    PROVE  /\ IsFiniteSet(Ours(p))
           /\ Cardinality(Ours(p)) = IF Workers[p] < 0 THEN 0 ELSE Workers[p]
<1> DEFINE S == 0..(Workers[p] - 1)
           f == [n \in S |-> <<p, n>>]
<1>1. Workers[p] \in Int /\ Workers[p] <= 10
  BY WatchAssumption
<1>2. IsFiniteSet(S) /\ Cardinality(S) = IF Workers[p] < 0 THEN 0 ELSE Workers[p]
  <2>1. 0 \in Int /\ Workers[p] - 1 \in Int
    BY <1>1
  <2>2. /\ IsFiniteSet(S)
        /\ Cardinality(S) = IF 0 > Workers[p] - 1 THEN 0 ELSE Workers[p] - 1 - 0 + 1
    BY <2>1, FS_Interval
  <2> QED BY <1>1, <2>2
<1>3. \A n \in S : <<p, n>> \in Ours(p)
  BY <1>1 DEF Ours, Goroutines
<1>4. \A g \in Ours(p) : g[2] \in S /\ g = <<p, g[2]>>
  BY <1>1 DEF Ours, Goroutines
<1>5. f \in Injection(S, Ours(p))
  BY <1>3 DEF Injection, IsInjective
<1>6. f \in Surjection(S, Ours(p))
  BY <1>3, <1>4 DEF Surjection
<1> QED BY <1>2, <1>5, <1>6, FS_Surjection

(***************************************************************************)
(* So are the sets of them that the properties count.                      *)
(***************************************************************************)
LEMMA AliveFinite ==
    ASSUME NEW p \in Processes
    PROVE  IsFiniteSet(Alive(p)) /\ Cardinality(Alive(p)) \in Nat
BY OursFinite, FS_Subset, FS_CardinalityType DEF Ours, Alive

(***************************************************************************)
(* A step of one listener, and what it does to the sets of listeners.      *)
(***************************************************************************)
LEMMA ListenerMoves ==
    ASSUME WatchTypeOK, NEW g \in Goroutines,
           NEW r \in [pc : ListenerPCs, held : Delivery \cup {NoDelivery}], Become(g, r)
    PROVE  /\ listener' \in [Goroutines ->
                                [pc : ListenerPCs, held : Delivery \cup {NoDelivery}]]
           /\ listener'[g] = r
           /\ \A h \in Goroutines \ {g} : listener'[h] = listener[h]
           /\ \A p \in Processes \ {g[1]} : Alive(p)' = Alive(p)
           /\ r.pc \in {"select", "handle"} => Alive(g[1])' = Alive(g[1]) \cup {g}
           /\ r.pc \notin {"select", "handle"} => Alive(g[1])' = Alive(g[1]) \ {g}
<1>1. /\ listener' \in [Goroutines -> [pc : ListenerPCs, held : Delivery \cup {NoDelivery}]]
      /\ listener'[g] = r
      /\ \A h \in Goroutines \ {g} : listener'[h] = listener[h]
  BY DEF Become, WatchTypeOK
<1> QED BY <1>1 DEF Alive

-----------------------------------------------------------------------------

(***************************************************************************)
(* At the start nothing was received and no listener was started.          *)
(***************************************************************************)
LEMMA InitEstablishes == WatchInit => WatchInv
<1> SUFFICES ASSUME WatchInit PROVE WatchInv
  OBVIOUS
<1>1. WatchTypeOK
  BY QueueAssumption
     DEF WatchInit, WatchTypeOK, QueueTypeOK, Message, Unsent, Bodies, At, ListenerPCs, PollerStates
<1>2. ASSUME NEW p \in Processes PROVE Alive(p) = {}
  BY DEF WatchInit, Alive, At
<1>3. ReturnedIsQuiet
  BY <1>2, FS_EmptySet DEF ReturnedIsQuiet, WatchInit
<1>4. ASSUME NEW p \in Processes PROVE PollerInv(p)
  BY DEF WatchInit, PollerInv
<1>5. ASSUME NEW g \in Goroutines PROVE GoroutineInv(g)
  BY DEF WatchInit, GoroutineInv, IsHandling, At
<1> QED BY <1>1, <1>3, <1>4, <1>5 DEF WatchInv

\* IsMade in the next state.
StaysMade(d) == d.count <= queue'[d.msg].receives

(***************************************************************************)
(* Whatever becomes of the messages, a delivery stays made.                *)
(***************************************************************************)
LEMMA QueueMoves ==
    ASSUME QueueTypeOK,
           \/ UNCHANGED queue
           \/ \E msgs \in SUBSET Msgs : GetMessages(msgs)
           \/ \E d \in Delivery : DeleteMessage(d)
           \/ \E m \in Msgs : BecomeVisible(m)
    PROVE  QueueTypeOK' /\ \A d \in Delivery : IsMade(d) => StaysMade(d)
<1>1. QueueTypeOK' /\ \A m \in Msgs : queue'[m].receives >= queue[m].receives
  <2>1. \A m \in Msgs : queue[m].receives \in Nat
    BY DEF QueueTypeOK, Message
  <2> QED BY <2>1, GetMessagesKeepsType, GetMessagesCounts, StateMoves DEF QueueTypeOK
<1>2. \A m \in Msgs : queue[m].receives \in Nat /\ queue'[m].receives \in Nat
  BY <1>1 DEF QueueTypeOK, Message
<1> QED BY <1>1, <1>2 DEF IsMade, StaysMade, Delivery

(***************************************************************************)
(* A poller goes from one of its places to another, dropping its output or *)
(* not.  What the other goroutines rely on is not touched.                 *)
(***************************************************************************)
LEMMA PollerMoves ==
    ASSUME WatchInv, NEW p \in Processes, NEW pc \in PollerStates \ {"spawn"}, GoTo(p, pc),
           UNCHANGED <<queue, cancelled, listener, wg>>,
           output' = output \/ output' = [output EXCEPT ![p] = {}],
           poller[p] = "spawn" => \A g \in Goroutines : g[1] = p => listener[g].pc # "none",
           pc \notin {"received", "send"} => output'[p] = {},
           pc = "returned" => Alive(p) = {}
    PROVE  WatchInv'
<1>1. /\ poller' \in [Processes -> PollerStates]
      /\ poller'[p] = pc
      /\ \A q \in Processes \ {p} : poller'[q] = poller[q]
  BY DEF WatchInv, WatchTypeOK, GoTo
<1>2. /\ output' \in [Processes -> SUBSET Delivery]
      /\ \A q \in Processes : output'[q] = output[q] \/ (q = p /\ output'[q] = {})
  BY DEF WatchInv, WatchTypeOK
<1>3. WatchTypeOK'
  BY <1>1, <1>2 DEF WatchInv, WatchTypeOK, QueueTypeOK
<1>4. ReturnedIsQuiet'
  <2>1. \A q \in Processes : Alive(q)' = Alive(q)
    BY DEF Alive
  <2> QED BY <1>1, <1>2, <2>1 DEF WatchInv, ReturnedIsQuiet
<1>5. ASSUME NEW q \in Processes PROVE PollerInv(q)'
  BY <1>1, <1>2 DEF WatchInv, PollerInv, IsMade
<1>6. ASSUME NEW g \in Goroutines PROVE GoroutineInv(g)'
  BY <1>2 DEF WatchInv, GoroutineInv, IsHandling, IsMade
<1> QED BY <1>3, <1>4, <1>5, <1>6 DEF WatchInv

(***************************************************************************)
(* The steps of the poller that are moves and nothing else.                *)
(***************************************************************************)
LEMMA PollerKeeps ==
    ASSUME WatchInv, NEW p \in Processes,
           Spawned(p) \/ Check(p) \/ SentAll(p) \/ StopSending(p) \/ Return(p)
    PROVE  WatchInv'
<1>1. CASE Spawned(p)
  BY <1>1, PollerMoves DEF Spawned, PollerStates, WatchInv, PollerInv
<1>2. CASE Check(p)
  <2>1. [output EXCEPT ![p] = {}][p] = {} /\ (poller[p] = "failed" => output[p] = {})
    BY DEF WatchInv, WatchTypeOK, PollerInv
  <2>2. CASE p \in cancelled
    BY <1>2, <2>1, <2>2, PollerMoves DEF Check, PollerStates
  <2>3. CASE p \notin cancelled
    <3>1. PICK pc \in {"receive", "send"} :
             GoTo(p, pc) /\ (pc = "receive" => poller[p] = "failed")
      BY <1>2, <2>3 DEF Check
    <3> QED BY <1>2, <2>1, <2>3, <3>1, PollerMoves DEF Check, PollerStates
  <2> QED BY <2>2, <2>3
<1>3. CASE SentAll(p)
  BY <1>3, PollerMoves DEF SentAll, PollerStates
<1>4. CASE StopSending(p)
  BY <1>4, PollerMoves DEF StopSending, PollerStates, WatchInv, WatchTypeOK
<1>5. CASE Return(p)
  <2>1. Alive(p) = {}
    BY <1>5, AliveFinite, FS_EmptySet DEF Return, WatchInv, ReturnedIsQuiet
  <2>2. output[p] = {}
    BY <1>5 DEF Return, WatchInv, PollerInv
  <2> QED BY <1>5, <2>1, <2>2, PollerMoves DEF Return, PollerStates
<1> QED BY <1>1, <1>2, <1>3, <1>4, <1>5

(***************************************************************************)
(* A receive.  What it answers with was never delivered before, since its  *)
(* counts are above those of every delivery that was made.                 *)
(***************************************************************************)
LEMMA ReceivedAreNew ==
    ASSUME WatchInv, NEW msgs \in SUBSET Msgs, GetMessages(msgs), NEW d \in DeliveriesOf(msgs)
    PROVE  /\ d \in Delivery /\ StaysMade(d) /\ ~IsMade(d)
           /\ \A q \in Processes : d \notin output[q]
           /\ \A g \in Goroutines : IsHandling(g) => listener[g].held # d
<1>1. QueueTypeOK /\ d \in Delivery
  BY GetMessagesKeepsType DEF WatchInv, WatchTypeOK
<1>2. StaysMade(d) /\ ~IsMade(d)
  <2>1. queue[d.msg].receives \in Nat /\ d.count \in Nat
    BY <1>1 DEF QueueTypeOK, Message, Delivery
  <2> QED BY <1>1, <2>1, GetMessagesCounts DEF IsMade, StaysMade
<1> QED BY <1>1, <1>2 DEF WatchInv, PollerInv, GoroutineInv

LEMMA ReceiveKeeps ==
    ASSUME WatchInv, NEW p \in Processes, NEW msgs \in SUBSET Msgs, ReceiveMessages(p, msgs)
    PROVE  WatchInv'
<1>1. PICK ok \in BOOLEAN :
         /\ GoTo(p, IF ok THEN "received" ELSE "failed")
         /\ output' = [output EXCEPT ![p] = IF ok THEN DeliveriesOf(msgs) ELSE {}]
  BY DEF ReceiveMessages
<1>2. /\ poller[p] = "receive" /\ GetMessages(msgs) /\ UNCHANGED <<cancelled, listener, wg>>
      /\ QueueTypeOK
  BY DEF ReceiveMessages, WatchInv, WatchTypeOK
<1>3. QueueTypeOK' /\ \A d \in Delivery : IsMade(d) => StaysMade(d)
  BY <1>2, QueueMoves
<1>4. /\ poller' \in [Processes -> PollerStates]
      /\ poller'[p] \in {"received", "failed"} /\ (poller'[p] = "failed" => output'[p] = {})
      /\ \A q \in Processes \ {p} : poller'[q] = poller[q]
  BY <1>1 DEF WatchInv, WatchTypeOK, GoTo, PollerStates
<1>5. \A d \in DeliveriesOf(msgs) :
         /\ d \in Delivery /\ StaysMade(d) /\ ~IsMade(d)
         /\ \A q \in Processes : d \notin output[q]
         /\ \A g \in Goroutines : IsHandling(g) => listener[g].held # d
  BY <1>2, ReceivedAreNew
<1>6. /\ output' \in [Processes -> SUBSET Delivery]
      /\ output'[p] \subseteq DeliveriesOf(msgs)
      /\ \A q \in Processes \ {p} : output'[q] = output[q]
  BY <1>1, <1>5 DEF WatchInv, WatchTypeOK
<1>7. WatchTypeOK'
  BY <1>2, <1>3, <1>4, <1>6 DEF WatchInv, WatchTypeOK
<1>8. ReturnedIsQuiet'
  <2>1. \A q \in Processes : Alive(q)' = Alive(q)
    BY <1>2 DEF Alive
  <2> QED BY <1>2, <1>4, <1>6, <2>1 DEF WatchInv, ReturnedIsQuiet
<1>9. ASSUME NEW q \in Processes PROVE PollerInv(q)'
  <2>1. \A d \in output'[q] : StaysMade(d)
    BY <1>3, <1>5, <1>6 DEF WatchInv, WatchTypeOK, PollerInv
  <2>2. \A r \in Processes : r # q => output'[q] \cap output'[r] = {}
    BY <1>5, <1>6 DEF WatchInv, PollerInv
  <2>3. poller'[q] # "spawn" => \A g \in Goroutines : g[1] = q => listener'[g].pc # "none"
    BY <1>2, <1>4 DEF WatchInv, PollerInv
  <2>4. poller'[q] \notin {"received", "send"} => output'[q] = {}
    BY <1>4, <1>6 DEF WatchInv, PollerInv
  <2> QED BY <2>1, <2>2, <2>3, <2>4 DEF PollerInv, IsMade, StaysMade
<1>10. ASSUME NEW g \in Goroutines PROVE GoroutineInv(g)'
  <2>1. IsHandling(g) => StaysMade(listener[g].held)
    BY <1>2, <1>3 DEF WatchInv, WatchTypeOK, GoroutineInv
  <2>2. IsHandling(g) => \A q \in Processes : listener[g].held \notin output'[q]
    BY <1>5, <1>6 DEF WatchInv, GoroutineInv
  <2> QED BY <1>2, <2>1, <2>2 DEF WatchInv, GoroutineInv, IsHandling, IsMade, StaysMade
<1> QED BY <1>7, <1>8, <1>9, <1>10 DEF WatchInv

(***************************************************************************)
(* The wait group follows a listener that starts, goes on or ends.         *)
(***************************************************************************)
LEMMA WaitGroupCounts ==
    ASSUME WatchInv, NEW g \in Goroutines,
           NEW r \in [pc : ListenerPCs, held : Delivery \cup {NoDelivery}], Become(g, r),
           UNCHANGED poller, \A p \in Processes : output'[p] \subseteq output[p],
           LET before == g \in Alive(g[1])
               after  == r.pc \in {"select", "handle"}
           IN  \/ before /\ after /\ UNCHANGED wg
               \/ ~before /\ after /\ poller[g[1]] = "spawn" /\ wg' = [wg EXCEPT ![g[1]] = @ + 1]
               \/ before /\ ~after /\ wg' = [wg EXCEPT ![g[1]] = @ - 1]
    PROVE  ReturnedIsQuiet' /\ wg' \in [Processes -> Nat]
<1>1. g[1] \in Processes
  BY DEF Goroutines
<1>2. ASSUME NEW p \in Processes
      PROVE  /\ wg[p] = Cardinality(Alive(p)) /\ IsFiniteSet(Alive(p)) /\ wg[p] \in Nat
             /\ poller[p] = "returned" => Alive(p) = {} /\ output[p] = {}
  BY AliveFinite DEF WatchInv, ReturnedIsQuiet
<1>3. /\ \A p \in Processes \ {g[1]} : Alive(p)' = Alive(p)
      /\ r.pc \in {"select", "handle"} => Alive(g[1])' = Alive(g[1]) \cup {g}
      /\ r.pc \notin {"select", "handle"} => Alive(g[1])' = Alive(g[1]) \ {g}
  BY ListenerMoves DEF WatchInv
<1>4. wg \in [Processes -> Nat]
  BY DEF WatchInv, WatchTypeOK
<1>5. wg'[g[1]] = Cardinality(Alive(g[1])') /\ wg'[g[1]] \in Nat
  <2>1. CASE g \in Alive(g[1]) /\ r.pc \in {"select", "handle"} /\ UNCHANGED wg
    <3>1. Alive(g[1])' = Alive(g[1])
      BY <1>3, <2>1
    <3> QED BY <1>1, <1>2, <2>1, <3>1
  <2>2. CASE /\ g \notin Alive(g[1]) /\ r.pc \in {"select", "handle"}
             /\ wg' = [wg EXCEPT ![g[1]] = @ + 1]
    <3>1. Cardinality(Alive(g[1])') = Cardinality(Alive(g[1])) + 1
      BY <1>1, <1>2, <1>3, <2>2, FS_AddElement
    <3> QED BY <1>1, <1>2, <1>4, <2>2, <3>1
  <2>3. CASE /\ g \in Alive(g[1]) /\ r.pc \notin {"select", "handle"}
             /\ wg' = [wg EXCEPT ![g[1]] = @ - 1]
    <3>1. /\ IsFiniteSet(Alive(g[1])')
          /\ Cardinality(Alive(g[1])') = Cardinality(Alive(g[1])) - 1
      BY <1>1, <1>2, <1>3, <2>3, FS_RemoveElement
    <3>2. Cardinality(Alive(g[1])') \in Nat
      BY <3>1, FS_CardinalityType
    <3> QED BY <1>1, <1>2, <1>4, <2>3, <3>1, <3>2
  <2> QED BY <2>1, <2>2, <2>3
<1>6. \A p \in Processes \ {g[1]} : wg'[p] = wg[p]
  BY <1>1, <1>4
<1>7. wg' \in [Processes -> Nat]
  <2>1. DOMAIN wg' = Processes /\ wg' = [p \in Processes |-> wg'[p]]
    BY <1>4
  <2> QED BY <1>4, <1>5, <1>6, <2>1
<1>8. ASSUME NEW p \in Processes
      PROVE  /\ wg'[p] = Cardinality(Alive(p)')
             /\ poller'[p] = "returned" => Alive(p)' = {} /\ output'[p] = {}
  <2>1. CASE p = g[1]
    BY <1>2, <1>3, <1>5, <2>1
  <2>2. CASE p # g[1]
    BY <1>2, <1>3, <1>6, <2>2
  <2> QED BY <2>1, <2>2
<1> QED BY <1>7, <1>8 DEF ReturnedIsQuiet

(***************************************************************************)
(* A listener takes a delivery out of the output, or holds none after the  *)
(* step: either way no two have the same one.                              *)
(***************************************************************************)
LEMMA ListenerKeeps ==
    ASSUME WatchInv, NEW g \in Goroutines,
           NEW r \in [pc : ListenerPCs \ {"none"}, held : Delivery \cup {NoDelivery}],
           Become(g, r), UNCHANGED <<poller, cancelled>>,
           ReturnedIsQuiet', wg' \in [Processes -> Nat],
           QueueTypeOK', \A d \in Delivery : IsMade(d) => StaysMade(d),
           \/ r.pc # "handle" /\ r.held = NoDelivery /\ UNCHANGED output
           \/ /\ r.pc = "handle" /\ r.held \in output[g[1]]
              /\ output' = [output EXCEPT ![g[1]] = @ \ {r.held}]
    PROVE  WatchInv'
<1>1. g[1] \in Processes /\ output \in [Processes -> SUBSET Delivery]
  BY DEF Goroutines, WatchInv, WatchTypeOK
<1>2. /\ listener' \in [Goroutines -> [pc : ListenerPCs, held : Delivery \cup {NoDelivery}]]
      /\ listener'[g] = r
      /\ \A h \in Goroutines \ {g} : listener'[h] = listener[h]
  BY ListenerMoves DEF WatchInv
<1>3. /\ output' \in [Processes -> SUBSET Delivery]
      /\ \A p \in Processes : output'[p] \subseteq output[p] /\ r.held \notin output'[p]
  <2>1. CASE r.held = NoDelivery /\ UNCHANGED output
    BY <1>1, <2>1, WatchAssumption
  <2>2. CASE r.held \in output[g[1]] /\ output' = [output EXCEPT ![g[1]] = @ \ {r.held}]
    <3>1. \A p \in Processes \ {g[1]} : output'[p] = output[p] /\ r.held \notin output[p]
      BY <1>1, <2>2 DEF WatchInv, PollerInv
    <3>2. output'[g[1]] = output[g[1]] \ {r.held}
      BY <1>1, <2>2
    <3> QED BY <1>1, <2>2, <3>1, <3>2
  <2> QED BY <2>1, <2>2
<1>4. WatchTypeOK'
  BY <1>2, <1>3 DEF WatchInv, WatchTypeOK
<1>5. ASSUME NEW p \in Processes PROVE PollerInv(p)'
  <2>1. \A d \in output'[p] : StaysMade(d)
    BY <1>1, <1>3 DEF WatchInv, PollerInv
  <2>2. poller'[p] # "spawn" => \A h \in Goroutines : h[1] = p => listener'[h].pc # "none"
    BY <1>2 DEF WatchInv, PollerInv
  <2>3. poller'[p] \notin {"received", "send"} => output'[p] = {}
    BY <1>3 DEF WatchInv, PollerInv
  <2>4. \A q \in Processes : q # p => output'[p] \cap output'[q] = {}
    BY <1>3 DEF WatchInv, PollerInv
  <2> QED BY <2>1, <2>2, <2>3, <2>4 DEF PollerInv, IsMade, StaysMade
<1>6. ASSUME NEW h \in Goroutines, h # g, IsHandling(h)
      PROVE  /\ listener[h].held \in Delivery /\ StaysMade(listener[h].held)
             /\ \A p \in Processes : listener[h].held \notin output'[p]
             /\ r.pc = "handle" => listener[h].held # r.held
  <2>1. /\ listener[h].held \in Delivery /\ IsMade(listener[h].held)
        /\ \A p \in Processes : listener[h].held \notin output[p]
    BY <1>6 DEF WatchInv, WatchTypeOK, GoroutineInv
  <2> QED BY <1>1, <1>3, <2>1
<1>7. r.pc = "handle" => r.held \in Delivery /\ StaysMade(r.held)
  BY <1>1 DEF WatchInv, PollerInv
<1>8. ASSUME NEW h \in Goroutines PROVE GoroutineInv(h)'
  <2>1. CASE h = g
    <3>1. IsHandling(h)' <=> listener'[h].held # NoDelivery
      BY <1>2, <1>7, <2>1, WatchAssumption DEF IsHandling
    <3>2. ASSUME IsHandling(h)'
          PROVE  /\ StaysMade(listener'[h].held)
                 /\ \A p \in Processes : listener'[h].held \notin output'[p]
                 /\ \A k \in Goroutines :
                       IsHandling(k)' /\ k # h => listener'[k].held # listener'[h].held
      BY <1>2, <1>3, <1>6, <1>7, <2>1, <3>2 DEF IsHandling
    <3> QED BY <3>1, <3>2 DEF GoroutineInv, IsMade, StaysMade
  <2>2. CASE h # g
    <3>1. listener'[h] = listener[h] /\ IsHandling(h)' = IsHandling(h)
      BY <1>2, <2>2 DEF IsHandling
    <3>2. ASSUME IsHandling(h)
          PROVE  /\ StaysMade(listener'[h].held)
                 /\ \A p \in Processes : listener'[h].held \notin output'[p]
                 /\ \A k \in Goroutines :
                       IsHandling(k)' /\ k # h => listener'[k].held # listener'[h].held
      <4>1. ASSUME NEW k \in Goroutines, IsHandling(k)', k # h
            PROVE  listener'[k].held # listener'[h].held
        <5>1. CASE k = g
          BY <1>2, <1>6, <2>2, <3>1, <3>2, <4>1, <5>1 DEF IsHandling
        <5>2. CASE k # g
          <6>1. listener'[k] = listener[k] /\ IsHandling(k)
            BY <1>2, <4>1, <5>2 DEF IsHandling
          <6> QED BY <3>1, <3>2, <4>1, <6>1 DEF WatchInv, GoroutineInv
        <5> QED BY <5>1, <5>2
      <4> QED BY <1>6, <2>2, <3>1, <3>2, <4>1
    <3> QED BY <3>1, <3>2 DEF WatchInv, GoroutineInv, IsMade, StaysMade
  <2> QED BY <2>1, <2>2
<1> QED BY <1>4, <1>5, <1>8 DEF WatchInv

LEMMA ListenerStepKeeps ==
    ASSUME WatchInv, NEW g \in Goroutines,
           Spawn(g) \/ (\E d \in output[g[1]] : HandOver(g, d)) \/ ListenerRuns(g)
    PROVE  WatchInv'
<1> DEFINE Records == [pc : ListenerPCs \ {"none"}, held : Delivery \cup {NoDelivery}]
<1>1. /\ g[1] \in Processes /\ QueueTypeOK
      /\ output \in [Processes -> SUBSET Delivery]
      /\ \A pc \in ListenerPCs \ {"none"} : At(pc) \in Records
      /\ \A d \in Delivery : [pc |-> "handle", held |-> d] \in Records
      /\ \A r \in Records : r \in [pc : ListenerPCs, held : Delivery \cup {NoDelivery}]
  BY DEF Goroutines, WatchInv, WatchTypeOK, At, ListenerPCs
<1>2. g \in Alive(g[1]) <=> listener[g].pc \in {"select", "handle"}
  BY DEF Alive
<1>3. CASE Spawn(g)
  BY <1>1, <1>2, <1>3, WaitGroupCounts, QueueMoves, ListenerKeeps
     DEF Spawn, IsNext, At, ListenerPCs
<1>4. CASE \E d \in output[g[1]] : HandOver(g, d)
  <2>1. PICK d \in output[g[1]] : HandOver(g, d)
    BY <1>4
  <2>2. d \in Delivery
    BY <1>1
  <2>3. \A p \in Processes : output'[p] \subseteq output[p]
    BY <1>1, <2>1 DEF HandOver
  <2> QED BY <1>1, <1>2, <2>1, <2>2, <2>3, WaitGroupCounts, QueueMoves, ListenerKeeps DEF HandOver
<1>5. CASE Handled(g)
  <2>1. listener[g].held \in Delivery
    BY <1>5 DEF Handled, WatchInv, WatchTypeOK, GoroutineInv, IsHandling
  <2> QED BY <1>1, <1>2, <1>5, <2>1, WaitGroupCounts, QueueMoves, ListenerKeeps
         DEF Handled, At, ListenerPCs
<1>6. CASE Panics(g)
  BY <1>1, <1>2, <1>6, WaitGroupCounts, QueueMoves, ListenerKeeps DEF Panics, At, ListenerPCs
<1>7. CASE Stops(g)
  BY <1>1, <1>2, <1>7, WaitGroupCounts, QueueMoves, ListenerKeeps DEF Stops, At, ListenerPCs
<1> QED BY <1>3, <1>4, <1>5, <1>6, <1>7 DEF ListenerRuns

(***************************************************************************)
(* The end of a context and of a visibility timeout, at any point.         *)
(***************************************************************************)
LEMMA OthersKeep ==
    ASSUME WatchInv,
           (\E p \in Processes : Cancel(p)) \/ \E m \in Msgs : VisibilityTimeout(m)
    PROVE  WatchInv'
<1>1. UNCHANGED <<poller, output, listener, wg>> /\ cancelled' \in SUBSET Processes
  BY DEF Cancel, VisibilityTimeout, WatchInv, WatchTypeOK
<1>2. QueueTypeOK' /\ \A d \in Delivery : IsMade(d) => StaysMade(d)
  <2>1. QueueTypeOK
    BY DEF WatchInv, WatchTypeOK
  <2>2. UNCHANGED queue \/ \E m \in Msgs : BecomeVisible(m)
    BY DEF Cancel, VisibilityTimeout
  <2> QED BY <2>1, <2>2, QueueMoves
<1>3. WatchTypeOK' /\ ReturnedIsQuiet'
  BY <1>1, <1>2 DEF WatchInv, WatchTypeOK, ReturnedIsQuiet, Alive
<1>4. ASSUME NEW p \in Processes PROVE PollerInv(p)'
  BY <1>1, <1>2 DEF WatchInv, WatchTypeOK, PollerInv, IsMade, StaysMade
<1>5. ASSUME NEW g \in Goroutines PROVE GoroutineInv(g)'
  <2>1. IsHandling(g) => listener[g].held \in Delivery
    BY DEF WatchInv, WatchTypeOK, GoroutineInv
  <2> QED BY <1>1, <1>2, <2>1 DEF WatchInv, GoroutineInv, IsHandling, IsMade, StaysMade
<1> QED BY <1>3, <1>4, <1>5 DEF WatchInv

(***************************************************************************)
(* The invariant of the goroutines of WatchMessages holds at all times.    *)
(***************************************************************************)
THEOREM WatchInvariant == Spec => []WatchInv
<1>1. WatchInv /\ [Next]_vars => WatchInv'
  <2> SUFFICES ASSUME WatchInv, [Next]_vars PROVE WatchInv'
    OBVIOUS
  <2>1. CASE UNCHANGED vars
    <3>1. WatchTypeOK' /\ ReturnedIsQuiet'
      BY <2>1 DEF vars, WatchInv, WatchTypeOK, QueueTypeOK, ReturnedIsQuiet, Alive
    <3>2. \A p \in Processes : PollerInv(p)'
      BY <2>1 DEF vars, WatchInv, PollerInv, IsMade
    <3>3. \A g \in Goroutines : GoroutineInv(g)'
      BY <2>1 DEF vars, WatchInv, GoroutineInv, IsHandling, IsMade
    <3> QED BY <3>1, <3>2, <3>3 DEF WatchInv
  <2>2. CASE Next
    BY <2>2, PollerKeeps, ReceiveKeeps, ListenerStepKeeps, OthersKeep
       DEF Next, PollerRuns, Goroutines
  <2> QED BY <2>1, <2>2
<1> QED BY InitEstablishes, <1>1, PTL DEF Spec

(***************************************************************************)
(* When WatchMessages has returned, none of its goroutines runs; the wait  *)
(* group counts them exactly.                                              *)
(***************************************************************************)
THEOREM ReturnedIsAlwaysQuiet == Spec => []ReturnedIsQuiet
<1>1. WatchInv => ReturnedIsQuiet
  BY DEF WatchInv
<1> QED BY WatchInvariant, <1>1, PTL

-----------------------------------------------------------------------------
(* WatchMessages implements Pool                                           *)

\* The variables of Pool as the refinement mapping gives them.
Open == [p \in Processes |-> poller[p] # "returned"]

Running ==
    [p \in Processes |-> {listener[g].held : g \in {h \in Alive(p) : listener[h].pc = "handle"}}]

Lost == [p \in Processes |-> Cardinality(LostListeners(p))]

SizeOf == [p \in Processes |-> IF Workers[p] < 0 THEN 0 ELSE Workers[p]]

(***************************************************************************)
(* Pool counts with the Cardinality of its own instance.                   *)
(***************************************************************************)
LEMMA SameCardinality == \A S : PoolOfListeners!Cardinality(S) = Cardinality(S)
BY DEF PoolOfListeners!Cardinality, Cardinality

(***************************************************************************)
(* A step of one listener, as the pool sees it.                            *)
(***************************************************************************)
LEMMA RunningMoves ==
    ASSUME WatchInv, NEW g \in Goroutines,
           NEW r \in [pc : ListenerPCs, held : Delivery \cup {NoDelivery}], Become(g, r)
    PROVE  /\ r.pc = "handle" /\ ~IsHandling(g) =>
                 Running' = [Running EXCEPT ![g[1]] = @ \cup {r.held}]
           /\ r.pc # "handle" /\ IsHandling(g) =>
                 Running' = [Running EXCEPT ![g[1]] = @ \ {listener[g].held}]
           /\ r.pc # "handle" /\ ~IsHandling(g) => Running' = Running
           /\ r.pc = "panicked" /\ listener[g].pc # "panicked" =>
                 Lost' = [Lost EXCEPT ![g[1]] = @ + 1]
           /\ r.pc # "panicked" /\ listener[g].pc # "panicked" => Lost' = Lost
<1>1. /\ g[1] \in Processes
      /\ listener'[g] = r
      /\ \A h \in Goroutines \ {g} : listener'[h] = listener[h]
  BY ListenerMoves DEF WatchInv, Goroutines
<1>2. \A h \in Goroutines : IsHandling(h) /\ IsHandling(g) /\ h # g =>
          listener[h].held # listener[g].held
  BY DEF WatchInv, GoroutineInv
<1> DEFINE of(p) == {listener[h].held : h \in {k \in Ours(p) : IsHandling(k)}}
<1>3. \A p \in Processes : Running[p] = of(p)
  BY DEF Running, Alive, Ours, IsHandling
<1>4. \A p \in Processes : Running'[p] = of(p)'
  BY DEF Running, Alive, Ours, IsHandling
<1>5. \A p \in Processes \ {g[1]} : of(p)' = of(p)
  BY <1>1 DEF Ours, IsHandling
<1>6. /\ r.pc = "handle" /\ ~IsHandling(g) => of(g[1])' = of(g[1]) \cup {r.held}
      /\ r.pc # "handle" /\ IsHandling(g) => of(g[1])' = of(g[1]) \ {listener[g].held}
      /\ r.pc # "handle" /\ ~IsHandling(g) => of(g[1])' = of(g[1])
  BY <1>1, <1>2 DEF Ours, IsHandling
<1>7. /\ Running = [p \in Processes |-> Running[p]]
      /\ Running' = [p \in Processes |-> Running'[p]]
  BY DEF Running
<1>8. /\ \A p \in Processes \ {g[1]} : LostListeners(p)' = LostListeners(p)
      /\ r.pc = "panicked" => LostListeners(g[1])' = LostListeners(g[1]) \cup {g}
      /\ r.pc # "panicked" => LostListeners(g[1])' = LostListeners(g[1]) \ {g}
      /\ g \in LostListeners(g[1]) <=> listener[g].pc = "panicked"
  BY <1>1 DEF LostListeners
<1>9. IsFiniteSet(LostListeners(g[1]))
  <2>1. LostListeners(g[1]) \in SUBSET Ours(g[1])
    BY DEF LostListeners, Ours
  <2> QED BY <1>1, <2>1, OursFinite, FS_Subset
<1>10. r.pc = "panicked" /\ listener[g].pc # "panicked" =>
           Cardinality(LostListeners(g[1])') = Cardinality(LostListeners(g[1])) + 1
  BY <1>8, <1>9, FS_AddElement
<1>11. r.pc # "panicked" /\ listener[g].pc # "panicked" =>
           LostListeners(g[1])' = LostListeners(g[1])
  BY <1>8
<1> HIDE DEF of
<1>12. /\ r.pc = "handle" /\ ~IsHandling(g) =>
             Running' = [Running EXCEPT ![g[1]] = @ \cup {r.held}]
       /\ r.pc # "handle" /\ IsHandling(g) =>
             Running' = [Running EXCEPT ![g[1]] = @ \ {listener[g].held}]
       /\ r.pc # "handle" /\ ~IsHandling(g) => Running' = Running
  BY <1>1, <1>3, <1>4, <1>5, <1>6, <1>7
<1>13. /\ r.pc = "panicked" /\ listener[g].pc # "panicked" =>
             Lost' = [Lost EXCEPT ![g[1]] = @ + 1]
       /\ r.pc # "panicked" /\ listener[g].pc # "panicked" => Lost' = Lost
  BY <1>1, <1>8, <1>10, <1>11 DEF Lost
<1> QED BY <1>12, <1>13

(***************************************************************************)
(* While a listener waits, fewer than all of them run or were lost.        *)
(***************************************************************************)
LEMMA RoomForOne ==
    ASSUME WatchInv, NEW g \in Goroutines, listener[g].pc = "select"
    PROVE  Cardinality(Running[g[1]]) + Lost[g[1]] < SizeOf[g[1]]
<1> DEFINE p == g[1]
           H == {h \in Alive(p) : listener[h].pc = "handle"}
           L == LostListeners(p)
<1>1. p \in Processes /\ IsFiniteSet(Ours(p)) /\ Cardinality(Ours(p)) = SizeOf[p]
  BY OursFinite DEF Goroutines, SizeOf
<1>2. IsFiniteSet(H) /\ IsFiniteSet(L) /\ H \cap L = {}
  BY <1>1, FS_Subset DEF Alive, LostListeners, Ours
<1>3. H \cup L \subseteq Ours(p) \ {g} /\ g \in Ours(p)
  BY DEF Alive, LostListeners, Ours
<1>4. Cardinality(H \cup L) = Cardinality(H) + Cardinality(L)
  <2>1. Cardinality(H \cup L) = Cardinality(H) + Cardinality(L) - Cardinality(H \cap L)
    BY <1>2, FS_Union
  <2>2. Cardinality(H) \in Nat /\ Cardinality(L) \in Nat /\ Cardinality(H \cap L) = 0
    BY <1>2, FS_CardinalityType, FS_EmptySet
  <2> QED BY <2>1, <2>2
<1>5. Cardinality(H \cup L) <= Cardinality(Ours(p)) - 1
  <2>1. IsFiniteSet(Ours(p) \ {g}) /\ Cardinality(Ours(p) \ {g}) = Cardinality(Ours(p)) - 1
    BY <1>1, <1>3, FS_RemoveElement
  <2> QED BY <1>3, <2>1, FS_Subset
<1>6. Cardinality(Running[p]) <= Cardinality(H) /\ Cardinality(Running[p]) \in Nat
  <2> DEFINE f == [h \in H |-> listener[h].held]
  <2>1. f \in Surjection(H, Running[p])
    BY <1>1 DEF Running, Surjection
  <2> QED BY <1>2, <2>1, FS_Surjection, FS_CardinalityType
<1>7. Lost[p] = Cardinality(L) /\ Cardinality(L) \in Nat /\ Cardinality(H) \in Nat
      /\ Cardinality(Ours(p)) \in Nat
  BY <1>1, <1>2, FS_CardinalityType DEF Lost
<1> QED BY <1>1, <1>4, <1>5, <1>6, <1>7

(***************************************************************************)
(* A receive takes at most one delivery for each listener, none of which   *)
(* is in a pool.                                                           *)
(***************************************************************************)
LEMMA ReceiveTakes ==
    ASSUME WatchInv, NEW p \in Processes, NEW msgs \in SUBSET Msgs, ReceiveMessages(p, msgs)
    PROVE  PoolOfListeners!Next \/ UNCHANGED PoolOfListeners!poolVars
<1>1. /\ poller[p] = "receive" /\ output[p] = {} /\ GetMessages(msgs)
      /\ Cardinality(msgs) <= IF msgs = {} THEN 0 ELSE Workers[p]
      /\ output \in [Processes -> SUBSET Delivery] /\ QueueTypeOK
  BY DEF ReceiveMessages, MaxNumberOfMessages, WatchInv, WatchTypeOK, PollerInv
<1>2. PICK ok \in BOOLEAN :
         /\ GoTo(p, IF ok THEN "received" ELSE "failed")
         /\ output' = [output EXCEPT ![p] = IF ok THEN DeliveriesOf(msgs) ELSE {}]
  BY DEF ReceiveMessages
<1>3. Open' = Open /\ Open[p]
  BY <1>1, <1>2 DEF Open, GoTo, WatchInv, WatchTypeOK
<1>4. Running' = Running /\ Lost' = Lost
  BY DEF ReceiveMessages, Running, Lost, Alive, LostListeners
<1>5. CASE ~ok
  <2>1. output' = output
    BY <1>1, <1>2, <1>5
  <2> QED BY <1>3, <1>4, <2>1 DEF PoolOfListeners!poolVars, Open, Running, Lost
<1>6. CASE ok
  <2>1. Cardinality(DeliveriesOf(msgs)) <= SizeOf[p]
    <3> DEFINE f == [m \in msgs |-> [msg |-> m, count |-> queue[m].receives + 1]]
    <3>1. f \in Surjection(msgs, DeliveriesOf(msgs))
      BY DEF DeliveriesOf, Surjection
    <3>2. IsFiniteSet(msgs) /\ Cardinality(msgs) \in Nat
      BY QueueAssumption, FS_Subset, FS_CardinalityType
    <3>3. /\ Cardinality(DeliveriesOf(msgs)) <= Cardinality(msgs)
          /\ Cardinality(DeliveriesOf(msgs)) \in Nat
      BY <3>1, <3>2, FS_Surjection, FS_CardinalityType
    <3>4. Workers[p] \in Int
      BY WatchAssumption
    <3> QED BY <1>1, <3>2, <3>3, <3>4 DEF SizeOf
  <2>2. \A d \in DeliveriesOf(msgs) : d \in Delivery /\ ~PoolOfListeners!IsInPool(d)
    BY <1>1, ReceivedAreNew DEF PoolOfListeners!IsInPool, Alive, IsHandling
  <2>3. output' = [output EXCEPT ![p] = DeliveriesOf(msgs)]
    BY <1>2, <1>6
  <2>4. PoolOfListeners!Take(p, DeliveriesOf(msgs))
    <3>1. output[p] = {} /\ Open[p]
      BY <1>1, <1>3
    <3> QED BY <1>3, <1>4, <2>1, <2>2, <2>3, <3>1, SameCardinality
            DEF PoolOfListeners!Take, Open, Running, Lost, SizeOf
  <2>5. DeliveriesOf(msgs) \in SUBSET Delivery
    BY <2>2
  <2> QED BY <2>4, <2>5 DEF PoolOfListeners!Next
<1> QED BY <1>5, <1>6

(***************************************************************************)
(* The other steps of the poller drop a batch, close the pool, or nothing. *)
(***************************************************************************)
LEMMA PollerImplements ==
    ASSUME WatchInv, NEW p \in Processes,
           Spawned(p) \/ Check(p) \/ SentAll(p) \/ StopSending(p) \/ Return(p)
    PROVE  PoolOfListeners!Next \/ UNCHANGED PoolOfListeners!poolVars
<1>1. Running' = Running /\ Lost' = Lost
  BY DEF Spawned, Check, SentAll, StopSending, Return, Running, Lost, Alive, LostListeners
<1>2. CASE Return(p)
  <2>1. Open' = [Open EXCEPT ![p] = FALSE] /\ output' = output
    BY <1>2 DEF Return, GoTo, Open, WatchInv, WatchTypeOK
  <2>2. Alive(p) = {} /\ output[p] = {}
    BY <1>2, AliveFinite, FS_EmptySet DEF Return, WatchInv, ReturnedIsQuiet, PollerInv
  <2>3. PoolOfListeners!Close(p)
    BY <1>1, <2>1, <2>2 DEF PoolOfListeners!Close, Open, Running, Lost
  <2> QED BY <2>3 DEF PoolOfListeners!Next
<1>3. CASE ~Return(p)
  <2>1. Open' = Open
    BY <1>3 DEF Spawned, Check, SentAll, StopSending, GoTo, Open, WatchInv, WatchTypeOK
  <2>2. CASE output' = output
    BY <1>1, <2>1, <2>2 DEF PoolOfListeners!poolVars, Open, Running, Lost
  <2>3. CASE output' = [output EXCEPT ![p] = {}]
    <3>1. PoolOfListeners!Drop(p)
      BY <1>1, <2>1, <2>3 DEF PoolOfListeners!Drop, Open, Running, Lost
    <3> QED BY <3>1 DEF PoolOfListeners!Next
  <2> QED BY <1>3, <2>2, <2>3 DEF Spawned, Check, SentAll, StopSending
<1> QED BY <1>2, <1>3

(***************************************************************************)
(* A listener is given a delivery, is through with it, or is lost with it. *)
(***************************************************************************)
LEMMA ListenerImplements ==
    ASSUME WatchInv, NEW g \in Goroutines,
           Spawn(g) \/ (\E d \in output[g[1]] : HandOver(g, d)) \/ ListenerRuns(g)
    PROVE  PoolOfListeners!Next \/ UNCHANGED PoolOfListeners!poolVars
<1> DEFINE Records == [pc : ListenerPCs, held : Delivery \cup {NoDelivery}]
<1>1. /\ g[1] \in Processes
      /\ \A pc \in ListenerPCs : At(pc) \in Records /\ At(pc).pc = pc
      /\ \A d \in output[g[1]] : [pc |-> "handle", held |-> d] \in Records
  BY DEF Goroutines, WatchInv, WatchTypeOK, At, ListenerPCs
<1>2. Open' = Open
  BY DEF Spawn, HandOver, ListenerRuns, Handled, Panics, Stops, Open
<1>3. CASE Spawn(g) \/ Stops(g)
  <2>1. /\ listener[g].pc \in {"none", "select"} /\ output' = output
        /\ Become(g, At("select")) \/ Become(g, At("ended"))
    BY <1>3 DEF Spawn, IsNext, Stops
  <2>2. Running' = Running /\ Lost' = Lost
    BY <1>1, <2>1, RunningMoves DEF ListenerPCs, IsHandling
  <2> QED BY <1>2, <2>1, <2>2 DEF PoolOfListeners!poolVars, Open, Running, Lost
<1>4. CASE \E d \in output[g[1]] : HandOver(g, d)
  <2>1. PICK d \in output[g[1]] : HandOver(g, d)
    BY <1>4
  <2>2. Running' = [Running EXCEPT ![g[1]] = @ \cup {d}] /\ Lost' = Lost
    BY <1>1, <2>1, RunningMoves DEF HandOver, IsHandling
  <2>3. Cardinality(Running[g[1]]) + Lost[g[1]] < SizeOf[g[1]]
    BY <2>1, RoomForOne DEF HandOver
  <2>4. d \in output[g[1]] /\ output' = [output EXCEPT ![g[1]] = @ \ {d}]
    BY <2>1 DEF HandOver
  <2>5. PoolOfListeners!Give(g[1], d)
    BY <1>2, <2>2, <2>3, <2>4, SameCardinality
       DEF PoolOfListeners!Give, Open, Running, Lost, SizeOf
  <2> QED BY <1>1, <2>5 DEF PoolOfListeners!Next
<1>5. CASE Handled(g)
  <2>1. /\ IsHandling(g) /\ output' = output /\ Become(g, At("select"))
    BY <1>5 DEF Handled, IsHandling
  <2>2. Running' = [Running EXCEPT ![g[1]] = @ \ {listener[g].held}] /\ Lost' = Lost
    BY <1>1, <2>1, RunningMoves DEF ListenerPCs, IsHandling
  <2>3. PICK d \in Running[g[1]] : d = listener[g].held
    BY <1>1, <2>1 DEF Running, Alive, IsHandling
  <2>4. PoolOfListeners!Complete(g[1], d)
    BY <1>2, <2>1, <2>2, <2>3 DEF PoolOfListeners!Complete, Open, Running, Lost
  <2> QED BY <1>1, <2>4 DEF PoolOfListeners!Next, Running
<1>6. CASE Panics(g)
  <2>1. /\ IsHandling(g) /\ output' = output /\ Become(g, At("panicked"))
    BY <1>6 DEF Panics, IsHandling
  <2>2. /\ Running' = [Running EXCEPT ![g[1]] = @ \ {listener[g].held}]
        /\ Lost' = [Lost EXCEPT ![g[1]] = @ + 1]
    BY <1>1, <2>1, RunningMoves DEF ListenerPCs, IsHandling
  <2>3. PICK d \in Running[g[1]] : d = listener[g].held
    BY <1>1, <2>1 DEF Running, Alive, IsHandling
  <2>4. PoolOfListeners!LoseListener(g[1], d)
    BY <1>2, <2>1, <2>2, <2>3 DEF PoolOfListeners!LoseListener, Open, Running, Lost
  <2> QED BY <1>1, <2>4 DEF PoolOfListeners!Next, Running
<1> QED BY <1>3, <1>4, <1>5, <1>6 DEF ListenerRuns

(***************************************************************************)
(* WatchMessages is a pool of listeners as Pool promises it: batches that  *)
(* the listeners can take, each delivery to one of them, nothing running   *)
(* when it has returned, wherever the context is cancelled.                *)
(***************************************************************************)
THEOREM WatchMessagesIsPool == Spec => ImplementsPool
<1>1. WatchInit => PoolOfListeners!Init
  <2> SUFFICES ASSUME WatchInit PROVE PoolOfListeners!Init
    OBVIOUS
  <2>1. \A p \in Processes : Alive(p) = {} /\ LostListeners(p) = {}
    BY DEF WatchInit, Alive, LostListeners, At
  <2>2. Open = [p \in Processes |-> TRUE] /\ output = [p \in Processes |-> {}]
    BY DEF WatchInit, Open
  <2>3. Running = [p \in Processes |-> {}] /\ Lost = [p \in Processes |-> 0]
    BY <2>1, FS_EmptySet DEF Running, Lost
  <2> QED BY <2>2, <2>3 DEF PoolOfListeners!Init, Open, Running, Lost
<1>2. WatchInv /\ [Next]_vars => [PoolOfListeners!Next]_(PoolOfListeners!poolVars)
  <2> SUFFICES ASSUME WatchInv, [Next]_vars
               PROVE  PoolOfListeners!Next \/ UNCHANGED PoolOfListeners!poolVars
    OBVIOUS
  <2>1. CASE \/ UNCHANGED vars
             \/ \E p \in Processes : Cancel(p)
             \/ \E m \in Msgs : VisibilityTimeout(m)
    BY <2>1 DEF vars, Cancel, VisibilityTimeout, PoolOfListeners!poolVars, Alive, LostListeners
  <2>2. CASE Next
    BY <2>1, <2>2, PollerImplements, ReceiveTakes, ListenerImplements
       DEF Next, PollerRuns, Goroutines
  <2> QED BY <2>1, <2>2
<1> QED BY <1>1, <1>2, WatchInvariant, PTL DEF Spec, ImplementsPool, PoolOfListeners!Spec
=============================================================================
