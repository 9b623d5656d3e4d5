---------------------------- MODULE WatchMessages ----------------------------
(***************************************************************************)
(* Worker.WatchMessages (internal/requester/worker.go) in detail: the      *)
(* polling goroutine, the listener goroutines it starts, the unbuffered    *)
(* channel between them, the wait group it ends with, and the context that *)
(* may be cancelled between any two steps.  What a listener does with a    *)
(* message is module Worker's; here a call of handleMessage ends with the  *)
(* message deleted, with the message left, or with a panic.                *)
(*                                                                         *)
(* Several processes poll one queue, each with its own number of workers.  *)
(* The poller of a process is at:                                          *)
(*   spawn     starting the listener goroutines                            *)
(*   receive   in receiveMessages                                          *)
(*   received  receiveMessages returned messages; before ctx.Err() is read *)
(*   failed    it returned an error; before ctx.Err() is read              *)
(*   send      in the select that hands a message over                     *)
(*   wait      out of the loop, in wg.Wait()                               *)
(*   returned  WatchMessages has returned                                  *)
(* and a listener goroutine is at:                                         *)
(*   none      not started                                                 *)
(*   select    in listenMessages' select                                   *)
(*   handle    in handleMessage                                            *)
(*   ended     returned because the context was done                       *)
(*   panicked  ended by a panic, which handlePanic recovered               *)
(***************************************************************************)
EXTENDS Queue, Integers

CONSTANTS
    Processes,
    Workers,      \* Config.Workers of each process
    Panicking,    \* the messages whose handling panics
    NoDelivery    \* what a listener holds when it holds no message

\* NewWorker refuses more than 10 workers, and nothing else about the number.
ASSUME WatchAssumption ==
    /\ Workers \in [Processes -> Int]
    /\ \A p \in Processes : Workers[p] <= 10
    /\ Panicking \subseteq Msgs
    /\ NoDelivery \notin Delivery

VARIABLES
    cancelled,    \* the processes whose context is done
    poller,       \* where WatchMessages is
    output,       \* received and not yet handed over
    listener,     \* the listener goroutines
    wg            \* the counter of the wait group

vars == <<queue, cancelled, poller, output, listener, wg>>

\* for i := 0; i < w.workers; i++: none when Workers[p] is 0 or negative.
Goroutines == {g \in Processes \X (0..9) : g[2] < Workers[g[1]]}

At(pc) == [pc |-> pc, held |-> NoDelivery]

PollerStates == {"spawn", "receive", "received", "failed", "send", "wait", "returned"}

ListenerPCs == {"none", "select", "handle", "ended", "panicked"}

WatchTypeOK ==
    /\ QueueTypeOK
    /\ cancelled \in SUBSET Processes
    /\ poller \in [Processes -> PollerStates]
    /\ output \in [Processes -> SUBSET Delivery]
    /\ listener \in [Goroutines -> [pc : ListenerPCs, held : Delivery \cup {NoDelivery}]]
    /\ wg \in [Processes -> Nat]

\* The queue holds every message, sent by the API server.
WatchInit ==
    /\ queue = [m \in Msgs |-> [Unsent EXCEPT !.state = "visible"]]
    /\ cancelled = {}
    /\ poller = [p \in Processes |-> "spawn"]
    /\ output = [p \in Processes |-> {}]
    /\ listener = [g \in Goroutines |-> At("none")]
    /\ wg = [p \in Processes |-> 0]

\* The goroutines of p that were started and have not ended.
Alive(p) == {g \in Goroutines : g[1] = p /\ listener[g].pc \in {"select", "handle"}}

Become(g, record) == listener' = [listener EXCEPT ![g] = record]

-----------------------------------------------------------------------------
(* The poller: the goroutine that runs WatchMessages                       *)

GoTo(p, pc) == poller' = [poller EXCEPT ![p] = pc]

\* The next listener the loop of WatchMessages starts.
IsNext(g) ==
    /\ listener[g].pc = "none"
    /\ \A h \in Goroutines : h[1] = g[1] /\ h[2] < g[2] => listener[h].pc # "none"

(***************************************************************************)
(* One turn of the loop that starts the listeners.                         *)
(***************************************************************************)
Spawn(g) ==
    /\ poller[g[1]] = "spawn" /\ IsNext(g)
    /\ wg' = [wg EXCEPT ![g[1]] = @ + 1]
    /\ Become(g, At("select"))
    /\ UNCHANGED <<queue, cancelled, poller, output>>

Spawned(p) ==
    /\ poller[p] = "spawn"
    /\ \A g \in Goroutines : g[1] = p => listener[g].pc # "none"
    /\ GoTo(p, "receive")
    /\ UNCHANGED <<queue, cancelled, output, listener, wg>>

\* Mutant: a poller asks for as many messages as the service allows.
AlwaysTen(p) == 10

MaxNumberOfMessages(p) == Workers[p]

\* The service refuses a request for fewer than one or more than ten messages.
IsAccepted(max) == max \in 1..10

(***************************************************************************)
(* receiveMessages.  It returns at most MaxNumberOfMessages messages,      *)
(* perhaps none, or an error: the service refused the request, failed, or  *)
(* hid messages in an answer that was lost; or the context was done.       *)
(***************************************************************************)
ReceiveMessages(p, msgs) ==
    /\ poller[p] = "receive"
    /\ msgs # {} => IsAccepted(MaxNumberOfMessages(p))
    /\ Cardinality(msgs) <= IF msgs = {} THEN 0 ELSE MaxNumberOfMessages(p)
    /\ GetMessages(msgs)
    /\ \E ok \in BOOLEAN :
          /\ ok => p \notin cancelled /\ IsAccepted(MaxNumberOfMessages(p))
          /\ GoTo(p, IF ok THEN "received" ELSE "failed")
          /\ output' = [output EXCEPT ![p] = IF ok THEN DeliveriesOf(msgs) ELSE {}]
    /\ UNCHANGED <<cancelled, listener, wg>>

\* Mutant: an error of receiveMessages ends the loop.
CheckReturnsOnError(p) ==
    /\ poller[p] \in {"received", "failed"}
    /\ IF p \in cancelled \/ poller[p] = "failed"
       THEN GoTo(p, "wait") /\ output' = [output EXCEPT ![p] = {}]
       ELSE GoTo(p, "send") /\ UNCHANGED output
    /\ UNCHANGED <<queue, cancelled, listener, wg>>

(***************************************************************************)
(* After receiveMessages the context is looked at first, and when it is    *)
(* done what was received is dropped; then the error, and the loop goes on.*)
(***************************************************************************)
Check(p) ==
    /\ poller[p] \in {"received", "failed"}
    /\ IF p \in cancelled
       THEN GoTo(p, "wait") /\ output' = [output EXCEPT ![p] = {}]
       ELSE GoTo(p, IF poller[p] = "failed" THEN "receive" ELSE "send") /\ UNCHANGED output
    /\ UNCHANGED <<queue, cancelled, listener, wg>>

\* Mutant: the message stays in the output after it was handed over.
HandOverKeeps(g, d) ==
    /\ poller[g[1]] = "send" /\ d \in output[g[1]]
    /\ listener[g].pc = "select"
    /\ Become(g, [pc |-> "handle", held |-> d])
    /\ UNCHANGED <<queue, cancelled, poller, output, wg>>

(***************************************************************************)
(* messages <- message in the poller's select meets msg := <-messages in a *)
(* listener's.  Both selects may take this case although the context is    *)
(* done.                                                                   *)
(***************************************************************************)
HandOver(g, d) ==
    /\ poller[g[1]] = "send" /\ d \in output[g[1]]
    /\ listener[g].pc = "select"
    /\ output' = [output EXCEPT ![g[1]] = @ \ {d}]
    /\ Become(g, [pc |-> "handle", held |-> d])
    /\ UNCHANGED <<queue, cancelled, poller, wg>>

\* The range over the output is over.
SentAll(p) ==
    /\ poller[p] = "send" /\ output[p] = {}
    /\ GoTo(p, "receive")
    /\ UNCHANGED <<queue, cancelled, output, listener, wg>>

\* Mutant: the poller waits for a listener without looking at the context.
StopSendingOnlyWhenDone(p) ==
    /\ poller[p] = "send" /\ p \in cancelled /\ output[p] = {}
    /\ GoTo(p, "wait")
    /\ UNCHANGED <<queue, cancelled, output, listener, wg>>

(***************************************************************************)
(* The poller's select takes ctx.Done(): the rest of the output is         *)
(* dropped.                                                                *)
(***************************************************************************)
StopSending(p) ==
    /\ poller[p] = "send" /\ p \in cancelled /\ output[p] # {}
    /\ output' = [output EXCEPT ![p] = {}]
    /\ GoTo(p, "wait")
    /\ UNCHANGED <<queue, cancelled, listener, wg>>

\* wg.Wait() returns, and with it WatchMessages.
Return(p) ==
    /\ poller[p] = "wait" /\ wg[p] = 0
    /\ GoTo(p, "returned")
    /\ UNCHANGED <<queue, cancelled, output, listener, wg>>

PollerRuns(p) ==
    \/ \E g \in Goroutines : g[1] = p /\ Spawn(g)
    \/ Spawned(p)
    \/ \E msgs \in SUBSET Msgs : ReceiveMessages(p, msgs)
    \/ Check(p)
    \/ \E g \in Goroutines : g[1] = p /\ \E d \in output[p] : HandOver(g, d)
    \/ SentAll(p)
    \/ StopSending(p)
    \/ Return(p)

-----------------------------------------------------------------------------
(* A listener: the goroutine that runs listenMessages                      *)

(***************************************************************************)
(* handleMessage returns: the message was deleted, or it is left to its    *)
(* visibility timeout.                                                     *)
(***************************************************************************)
Handled(g) ==
    /\ listener[g].pc = "handle"
    /\ \/ DeleteMessage(listener[g].held)
       \/ UNCHANGED queue
    /\ Become(g, At("select"))
    /\ UNCHANGED <<cancelled, poller, output, wg>>

\* Mutant: a panic skips wg.Done.
PanicsWithoutDone(g) ==
    /\ listener[g].pc = "handle" /\ listener[g].held.msg \in Panicking
    /\ Become(g, At("panicked"))
    /\ UNCHANGED <<queue, cancelled, poller, output, wg>>

(***************************************************************************)
(* handleMessage panics: the deferred handlePanic recovers, the deferred   *)
(* wg.Done runs, and the goroutine is over.                                *)
(***************************************************************************)
Panics(g) ==
    /\ listener[g].pc = "handle" /\ listener[g].held.msg \in Panicking
    /\ wg' = [wg EXCEPT ![g[1]] = @ - 1]
    /\ Become(g, At("panicked"))
    /\ UNCHANGED <<queue, cancelled, poller, output>>

\* The listener's select takes ctx.Done().
Stops(g) ==
    /\ listener[g].pc = "select" /\ g[1] \in cancelled
    /\ wg' = [wg EXCEPT ![g[1]] = @ - 1]
    /\ Become(g, At("ended"))
    /\ UNCHANGED <<queue, cancelled, poller, output>>

ListenerRuns(g) == Handled(g) \/ Panics(g) \/ Stops(g)

-----------------------------------------------------------------------------

\* The caller of WatchMessages cancels its context.
Cancel(p) ==
    /\ p \notin cancelled
    /\ cancelled' = cancelled \cup {p}
    /\ UNCHANGED <<queue, poller, output, listener, wg>>

\* A message becomes visible again, also while it is held.
VisibilityTimeout(m) ==
    /\ BecomeVisible(m)
    /\ UNCHANGED <<cancelled, poller, output, listener, wg>>

Next ==
    \/ \E p \in Processes : PollerRuns(p) \/ Cancel(p)
    \/ \E g \in Goroutines : ListenerRuns(g)
    \/ \E m \in Msgs : VisibilityTimeout(m)

Spec == WatchInit /\ [][Next]_vars

(***************************************************************************)
(* Fairness: a goroutine that can go on does.  Every call a listener makes *)
(* returns, and so does receiveMessages, which has a timeout of 20 s.      *)
(* Nothing makes anybody cancel a context.                                 *)
(***************************************************************************)
FairSpec ==
    /\ Spec
    /\ \A p \in Processes : WF_vars(PollerRuns(p))
    /\ \A g \in Goroutines : WF_vars(ListenerRuns(g))

-----------------------------------------------------------------------------
(* Properties                                                              *)

LostListeners(p) == {g \in Goroutines : g[1] = p /\ listener[g].pc = "panicked"}

\* Every listener that p started with was lost to a panic.
IsDeserted(p) ==
    LostListeners(p) # {} /\ \A g \in Goroutines : g[1] = p => g \in LostListeners(p)

(***************************************************************************)
(* When WatchMessages has returned, none of its goroutines runs: whoever   *)
(* waited for it may close what they use.  The wait group counts exactly   *)
(* the goroutines that run, also those that a panic ends.                  *)
(***************************************************************************)
ReturnedIsQuiet ==
    \A p \in Processes :
        /\ wg[p] = Cardinality(Alive(p))
        /\ poller[p] = "returned" => Alive(p) = {} /\ output[p] = {}

(***************************************************************************)
(* A delivery was made by a receive that the message's count includes.     *)
(***************************************************************************)
IsMade(d) == d.count <= queue[d.msg].receives

IsHandling(g) == listener[g].pc = "handle"

PollerInv(p) ==
    /\ poller[p] # "spawn" => \A g \in Goroutines : g[1] = p => listener[g].pc # "none"
    /\ poller[p] \notin {"received", "send"} => output[p] = {}
    /\ \A d \in output[p] : IsMade(d)
    /\ \A q \in Processes : q # p => output[p] \cap output[q] = {}

GoroutineInv(g) ==
    /\ IsHandling(g) <=> listener[g].held # NoDelivery
    /\ IsHandling(g) => IsMade(listener[g].held)
    /\ IsHandling(g) => \A p \in Processes : listener[g].held \notin output[p]
    /\ \A h \in Goroutines :
          IsHandling(g) /\ IsHandling(h) /\ h # g => listener[h].held # listener[g].held

(***************************************************************************)
(* What the goroutines may rely on, the inductive form of what the pool    *)
(* promises: a delivery is in one output or with one listener, although    *)
(* its message may be received again meanwhile; a poller that has left     *)
(* the loop for wg.Wait, or not yet received, has dropped what it had.     *)
(***************************************************************************)
WatchInv ==
    /\ WatchTypeOK
    /\ ReturnedIsQuiet
    /\ \A p \in Processes : PollerInv(p)
    /\ \A g \in Goroutines : GoroutineInv(g)

(***************************************************************************)
(* WatchMessages returns when its context is cancelled, wherever the       *)
(* poller and the listeners are, listeners that panicked included.         *)
(***************************************************************************)
CancelReturns == \A p \in Processes : p \in cancelled ~> poller[p] = "returned"

(***************************************************************************)
(* Whatever fails, a poller goes on asking for messages until its context  *)
(* is done, unless it has lost every listener to a panic.                  *)
(***************************************************************************)
KeepsPolling ==
    \A p \in Processes :
        \/ []<>(poller[p] = "receive")
        \/ <>(p \in cancelled \/ IsDeserted(p))

(***************************************************************************)
(* A message does not stay with a poller that has nobody to give it to,    *)
(* unless it has lost every listener to a panic: in particular a process   *)
(* with no workers takes no message away from the others.                  *)
(***************************************************************************)
NoneIsStranded ==
    \A p \in Processes, m \in Msgs :
        (\E d \in output[p] : d.msg = m) ~>
            \/ \A d \in output[p] : d.msg # m
            \/ IsDeserted(p)

(***************************************************************************)
(* WatchMessages implements the abstract pool of listeners.                *)
(***************************************************************************)
PoolOfListeners == INSTANCE Pool WITH
    Pools   <- Processes,
    Items   <- Delivery,
    Size    <- [p \in Processes |-> IF Workers[p] < 0 THEN 0 ELSE Workers[p]],
    open    <- [p \in Processes |-> poller[p] # "returned"],
    waiting <- output,
    running <- [p \in Processes |->
                   {listener[g].held : g \in {h \in Alive(p) : listener[h].pc = "handle"}}],
    lost    <- [p \in Processes |-> Cardinality(LostListeners(p))]

ImplementsPool == PoolOfListeners!Spec
=============================================================================
