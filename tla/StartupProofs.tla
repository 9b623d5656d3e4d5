---------------------------- MODULE StartupProofs ----------------------------
(***************************************************************************)
(* Proofs about the start and the end of the two programs: StartupInv is   *)
(* inductive, and the promises of Startup follow from it, for any number   *)
(* of processes, whatever their environments refuse, and any bounds.       *)
(***************************************************************************)
EXTENDS Startup, TLAPS

(***************************************************************************)
(* In the initial state no process runs and nothing is open.               *)
(***************************************************************************)
LEMMA InitEstablishes == Init => StartupInv
<1> SUFFICES ASSUME Init PROVE StartupInv
  OBVIOUS
<1>1. 0 \in 0..MaxCalls /\ 0 \in 0..MaxFaults
  BY StartupAssumption
<1>2. StartupTypeOK
  BY <1>1 DEF Init, StartupTypeOK
<1>3. ASSUME NEW p \in Procs PROVE StageInv(p)
  BY DEF Init, StageInv
<1> QED BY <1>2, <1>3 DEF StartupInv

(***************************************************************************)
(* A process that is gone leaves nothing behind: the invariant holds of it *)
(* and, since the queue stays, of the others.                              *)
(***************************************************************************)
LEMMA GoneKeeps ==
    ASSUME StartupInv, NEW p \in Procs, Gone(p),
           queueExists' \in {queueExists, TRUE}, faults' \in 0..MaxFaults
    PROVE  StartupInv'
<1>0. 0 \in 0..MaxCalls
  BY StartupAssumption
<1>1. StartupTypeOK'
  BY <1>0 DEF StartupInv, StartupTypeOK, Gone, Go
<1>2. ASSUME NEW q \in Procs PROVE StageInv(q)'
  BY DEF StartupInv, StartupTypeOK, StageInv, Gone, Go
<1> QED BY <1>1, <1>2 DEF StartupInv

(***************************************************************************)
(* A fault is counted, up to the bound.                                    *)
(***************************************************************************)
LEMMA FaultBounded == ASSUME StartupTypeOK, Fault PROVE faults' \in 0..MaxFaults
BY StartupAssumption DEF StartupTypeOK, Fault

(***************************************************************************)
(* Main on its way up: the process is gone, or got further with what the   *)
(* next stage relies on.                                                   *)
(***************************************************************************)
LEMMA ComingUpKeeps ==
    ASSUME StartupInv, NEW p \in Procs,
           \/ Launch(p) \/ ConfigureDatabase(p) \/ Connect(p) \/ ConfigureQueue(p)
           \/ GetQueueURL(p) \/ CreateQueue(p) \/ Build(p)
    PROVE  StartupInv'
<1> USE DEF StartupInv
<1>1. CASE Gone(p)
  <2>1. faults' \in 0..MaxFaults
    BY FaultBounded DEF StartupTypeOK, Launch, ConfigureDatabase, Connect, ConfigureQueue,
                        Configure, GetQueueURL, CreateQueue, Build, HasUrl
  <2>2. queueExists' \in {queueExists, TRUE}
    BY DEF Launch, ConfigureDatabase, Connect, ConfigureQueue, Configure, GetQueueURL,
           CreateQueue, Build
  <2> QED BY <1>1, <2>1, <2>2, GoneKeeps
<1>2. CASE ~Gone(p) /\ (Launch(p) \/ ConfigureDatabase(p) \/ Connect(p) \/ ConfigureQueue(p))
  <2> USE <1>2 DEF Launch, ConfigureDatabase, Connect, ConfigureQueue, Configure, Go
  <2>1. StartupTypeOK'
    BY DEF StartupTypeOK
  <2>2. ASSUME NEW q \in Procs PROVE StageInv(q)'
    BY DEF StartupTypeOK, StageInv
  <2> QED BY <2>1, <2>2
<1>3. CASE ~Gone(p) /\ (GetQueueURL(p) \/ CreateQueue(p))
  <2>1. StartupTypeOK'
    BY <1>3 DEF StartupTypeOK, GetQueueURL, CreateQueue, HasUrl, Go
  <2>2. \/ UNCHANGED <<queueExists, url>> /\ main' = [main EXCEPT ![p] = "create"]
        \/ /\ queueExists' /\ url' = [url EXCEPT ![p] = TRUE]
           /\ main' = [main EXCEPT ![p] = "build"]
    <3>1. CASE GetQueueURL(p)
      BY <1>3, <3>1 DEF GetQueueURL, HasUrl, Go
    <3>2. CASE CreateQueue(p)
      BY <1>3, <3>2 DEF CreateQueue, HasUrl, Go
    <3> QED BY <1>3, <3>1, <3>2
  <2>3. main[p] \in {"url", "create"} /\ UNCHANGED <<pool, service, calls>>
    BY <1>3 DEF GetQueueURL, CreateQueue, HasUrl
  <2>4. ASSUME NEW q \in Procs PROVE StageInv(q)'
    BY <2>2, <2>3 DEF StartupTypeOK, StageInv
  <2> QED BY <2>1, <2>4
<1>4. CASE ~Gone(p) /\ Build(p)
  <2> USE <1>4 DEF Build, Go
  <2>1. StartupTypeOK'
    BY DEF StartupTypeOK
  <2>2. ASSUME NEW q \in Procs PROVE StageInv(q)'
    BY DEF StartupTypeOK, StageInv
  <2> QED BY <2>1, <2>2
<1> QED BY <1>1, <1>2, <1>3, <1>4

(***************************************************************************)
(* The second goroutine, its calls and a signal at main: no stage is       *)
(* entered or left but that of serve.                                      *)
(***************************************************************************)
LEMMA ServingKeeps ==
    ASSUME StartupInv, NEW p \in Procs,
           ListenAndServe(p) \/ WatchMessages(p) \/ CallBegins(p) \/ CallEnds(p)
    PROVE  StartupInv'
<1> USE DEF StartupInv
<1>1. CASE Gone(p)
  <2>1. faults' \in 0..MaxFaults /\ queueExists' \in {queueExists, TRUE}
    BY FaultBounded
       DEF StartupTypeOK, ListenAndServe, WatchMessages, CallBegins, CallEnds
  <2> QED BY <1>1, <2>1, GoneKeeps
<1>2. CASE ~Gone(p) /\ (ListenAndServe(p) \/ WatchMessages(p))
  <2> USE <1>2 DEF ListenAndServe, WatchMessages, ShuttingDown
  <2>1. StartupTypeOK'
    BY DEF StartupTypeOK
  <2>2. ASSUME NEW q \in Procs PROVE StageInv(q)'
    BY DEF StartupTypeOK, StageInv
  <2> QED BY <2>1, <2>2
<1>3. CASE CallBegins(p) \/ CallEnds(p)
  <2> USE <1>3 DEF CallBegins, CallEnds
  <2>1. calls'[p] \in 0..MaxCalls /\ calls' = [calls EXCEPT ![p] = calls'[p]]
    BY StartupAssumption DEF StartupTypeOK
  <2>2. StartupTypeOK'
    BY <2>1 DEF StartupTypeOK
  <2>3. ASSUME NEW q \in Procs PROVE StageInv(q)'
    BY StartupAssumption DEF StartupTypeOK, StageInv
  <2> QED BY <2>2, <2>3
<1> QED BY <1>1, <1>2, <1>3

(***************************************************************************)
(* Main on its way down.  Shutdown waits for the calls, so behind it no    *)
(* handler is left.                                                        *)
(***************************************************************************)
LEMMA GoingDownKeeps ==
    ASSUME StartupInv, NEW p \in Procs,
           Signal(p) \/ Shutdown(p) \/ ClosePool(p) \/ Return(p) \/ Killed(p)
    PROVE  StartupInv'
<1> USE DEF StartupInv
<1>1. CASE Gone(p)
  <2>1. faults' \in 0..MaxFaults /\ queueExists' \in {queueExists, TRUE}
    BY FaultBounded DEF StartupTypeOK, Signal, Shutdown, ClosePool, Return, Killed
  <2> QED BY <1>1, <2>1, GoneKeeps
<1>2. CASE ~Gone(p) /\ (Signal(p) \/ Shutdown(p) \/ ClosePool(p))
  <2> USE <1>2 DEF Signal, Shutdown, ClosePool, Go
  <2>1. StartupTypeOK'
    BY DEF StartupTypeOK
  <2>2. ASSUME NEW q \in Procs PROVE StageInv(q)'
    BY StartupAssumption DEF StartupTypeOK, StageInv, Procs
  <2> QED BY <2>1, <2>2
<1> QED BY <1>1, <1>2 DEF Return, Killed

(***************************************************************************)
(* What main may rely on where it is, at all times, for any processes.     *)
(***************************************************************************)
THEOREM StartupInvariant == Spec => []StartupInv
<1>1. StartupInv /\ [Next]_vars => StartupInv'
  <2> SUFFICES ASSUME StartupInv, [Next]_vars PROVE StartupInv'
    OBVIOUS
  <2>1. CASE UNCHANGED vars
    BY <2>1 DEF vars, StartupInv, StartupTypeOK, StageInv
  <2>2. CASE Next
    BY <2>2, ComingUpKeeps, ServingKeeps, GoingDownKeeps DEF Next, MainRuns, ServiceRuns
  <2> QED BY <2>1, <2>2
<1> QED BY InitEstablishes, <1>1, PTL DEF Spec

(***************************************************************************)
(* Whatever serves has the URL of a queue that exists.                     *)
(***************************************************************************)
THEOREM AlwaysServesTheQueue == Spec => []ServesTheQueue
<1>1. StartupInv => ServesTheQueue
  BY DEF StartupInv, StartupTypeOK, StageInv, ServesTheQueue
<1> QED BY StartupInvariant, <1>1, PTL

(***************************************************************************)
(* A handler of the API server never finds the database pool closed.       *)
(***************************************************************************)
THEOREM PoolAlwaysOutlivesHandlers == Spec => []PoolOutlivesHandlers
<1>1. StartupInv => PoolOutlivesHandlers
  BY StartupAssumption
     DEF StartupInv, StartupTypeOK, StageInv, PoolOutlivesHandlers, Procs
<1> QED BY StartupInvariant, <1>1, PTL

(***************************************************************************)
(* A server that was told to stop ends under a handler by a fault only:    *)
(* of the steps that end a process, main takes none in Shutdown, and that  *)
(* ListenAndServe takes is for a server that does not listen yet.          *)
(***************************************************************************)
THEOREM AlwaysGracefulStop == Spec => GracefulStop
<1>1. StartupInv /\ [Next]_vars =>
        [\A p \in Servers :
            main[p] = "shutdown" /\ calls[p] > 0 /\ faults' = faults => main'[p] # "down"]_vars
  <2> SUFFICES ASSUME StartupInv, Next, NEW p \in Servers,
                      main[p] = "shutdown", calls[p] > 0, faults' = faults
               PROVE  main'[p] # "down"
    BY DEF vars
  <2>1. ~Fault
    BY StartupAssumption DEF Fault, StartupInv, StartupTypeOK
  <2>2. PICK q \in Procs :
           \/ Launch(q) \/ MainRuns(q) \/ ServiceRuns(q)
           \/ CallBegins(q) \/ CallEnds(q)
           \/ Signal(q) \/ Killed(q)
    BY DEF Next
  <2> QED
    BY <2>1, <2>2, StartupAssumption
       DEF StartupInv, StartupTypeOK, StageInv, Procs, Launch, MainRuns, ServiceRuns, Signal,
           Killed, CallBegins, CallEnds, ConfigureDatabase, Connect, ConfigureQueue, Configure,
           GetQueueURL, CreateQueue, Build, HasUrl, Shutdown, ClosePool, Return,
           ListenAndServe, WatchMessages, ShuttingDown, Gone, Go
<1> QED BY StartupInvariant, <1>1, PTL DEF Spec, GracefulStop
=============================================================================
