------------------------------- MODULE Startup -------------------------------
(***************************************************************************)
(* The life of the two programs (cmd/api/main.go, cmd/requester/main.go):  *)
(* how each comes up, finds or creates the task queue, serves, and goes    *)
(* down on SIGTERM.  Several processes start, race for the queue, fail and *)
(* are started again at any time.  The main goroutine of a process is at:  *)
(*   down      there is no process                                         *)
(*   db        reading the database's configuration                        *)
(*   connect   in repository.SetupPool                                     *)
(*   config    reading the queue's and the program's own configuration     *)
(*   url       in GetQueueUrl                                              *)
(*   create    in CreateQueue                                              *)
(*   build     building the handler, or the processor and the worker       *)
(*   serve     waiting for a signal                                        *)
(*   shutdown  in httpServer.Shutdown (API server only)                    *)
(*   close     in the deferred dbPool.Close, the first of its defers       *)
(*   exit      behind it                                                   *)
(* and beside it runs one goroutine, ListenAndServe or WatchMessages:      *)
(*   none, pending (not yet run), running, ended                           *)
(* with the calls it made: handlers of requests, listeners with a message. *)
(***************************************************************************)
EXTENDS Integers, FiniteSets

CONSTANTS
    Servers,       \* the processes of cmd/api
    Requesters,    \* the processes of cmd/requester
    Refused,       \* the pairs <<process, step>> that its environment makes fail
    MaxCalls,      \* bound of the model: calls at a time of one process
    MaxFaults      \* bound of the model: faults in a behaviour

Procs == Servers \cup Requesters

ASSUME StartupAssumption ==
    /\ Servers \cap Requesters = {}
    /\ Refused \subseteq (Procs \X {"db", "config"}) \cup (Requesters \X {"build"})
    /\ MaxCalls \in Nat /\ MaxFaults \in Nat

VARIABLES
    queueExists,   \* the task queue exists in the service
    main,          \* where each process is
    pool,          \* its database pool
    url,           \* it has the URL of the queue, and not nil
    service,       \* its second goroutine
    calls,         \* how many calls of that are in progress
    faults         \* how often something went wrong so far

vars == <<queueExists, main, pool, url, service, calls, faults>>

StartupTypeOK ==
    /\ queueExists \in BOOLEAN
    /\ main \in [Procs -> {"down", "db", "connect", "config", "url", "create", "build",
                           "serve", "shutdown", "close", "exit"}]
    /\ pool \in [Procs -> {"none", "open", "closed"}]
    /\ url \in [Procs -> BOOLEAN]
    /\ service \in [Procs -> {"none", "pending", "running", "ended"}]
    /\ calls \in [Procs -> 0..MaxCalls]
    /\ faults \in 0..MaxFaults

Init ==
    /\ queueExists = FALSE
    /\ main = [p \in Procs |-> "down"]
    /\ pool = [p \in Procs |-> "none"]
    /\ url = [p \in Procs |-> FALSE]
    /\ service = [p \in Procs |-> "none"]
    /\ calls = [p \in Procs |-> 0]
    /\ faults = 0

-----------------------------------------------------------------------------

Go(p, step) == main' = [main EXCEPT ![p] = step]

\* The process is gone: main returned or panicked, logg.Fatal, or a signal.
Gone(p) ==
    /\ Go(p, "down")
    /\ pool' = [pool EXCEPT ![p] = "none"]
    /\ url' = [url EXCEPT ![p] = FALSE]
    /\ service' = [service EXCEPT ![p] = "none"]
    /\ calls' = [calls EXCEPT ![p] = 0]

Fault == faults < MaxFaults /\ faults' = faults + 1

Launch(p) ==
    /\ main[p] = "down"
    /\ Go(p, "db")
    /\ UNCHANGED <<queueExists, pool, url, service, calls, faults>>

(***************************************************************************)
(* LoadConfig and MustConfig: a variable that is missing or does not parse *)
(* panics.                                                                 *)
(***************************************************************************)
Configure(p, step, next) ==
    /\ main[p] = step
    /\ IF <<p, step>> \in Refused
       THEN Gone(p)
       ELSE Go(p, next) /\ UNCHANGED <<pool, url, service, calls>>
    /\ UNCHANGED <<queueExists, faults>>

\* Every variable of the database has a default, and one must be a number.
ConfigureDatabase(p) == Configure(p, "db", "connect")

\* Three variables of the queue have no default; then the program's own.
ConfigureQueue(p) == Configure(p, "config", "url")

\* MustPool: a database that cannot be reached panics.
Connect(p) ==
    /\ main[p] = "connect"
    /\ \/ Fault /\ Gone(p)
       \/ /\ pool' = [pool EXCEPT ![p] = "open"]
          /\ Go(p, "config")
          /\ UNCHANGED <<url, service, calls, faults>>
    /\ UNCHANGED queueExists

HasUrl(p) ==
    /\ url' = [url EXCEPT ![p] = TRUE]
    /\ Go(p, "build")
    /\ UNCHANGED <<pool, service, calls>>

\* Mutant: a queue that does not exist is an error as any other.
GetQueueURLNeverCreates(p) ==
    /\ main[p] = "url"
    /\ \/ Fault /\ Gone(p)
       \/ UNCHANGED faults /\ IF queueExists THEN HasUrl(p) ELSE Gone(p)
    /\ UNCHANGED queueExists

(***************************************************************************)
(* GetQueueURL: the error that says the queue does not exist goes on to    *)
(* CreateQueue; any other is returned, and main ends with logg.Fatal.      *)
(***************************************************************************)
GetQueueURL(p) ==
    /\ main[p] = "url"
    /\ \/ Fault /\ Gone(p)
       \/ /\ queueExists
          /\ HasUrl(p) /\ UNCHANGED faults
       \/ /\ ~queueExists
          /\ Go(p, "create") /\ UNCHANGED <<pool, url, service, calls, faults>>
    /\ UNCHANGED queueExists

\* Mutant: the error of CreateQueue is dropped, and the URL is nil.
CreateQueueUnchecked(p) ==
    /\ main[p] = "create"
    /\ \/ /\ Fault /\ queueExists' \in {queueExists, TRUE}
          /\ Go(p, "build") /\ UNCHANGED <<pool, url, service, calls>>
       \/ queueExists' = TRUE /\ HasUrl(p) /\ UNCHANGED faults

(***************************************************************************)
(* CreateQueue.  The service answers with the URL also when another        *)
(* process has created the queue meanwhile.  An error may mean that it was *)
(* created and the answer was lost.                                        *)
(***************************************************************************)
CreateQueue(p) ==
    /\ main[p] = "create"
    /\ \/ Fault /\ Gone(p) /\ queueExists' \in {queueExists, TRUE}
       \/ queueExists' = TRUE /\ HasUrl(p) /\ UNCHANGED faults

\* NewWorker refuses a nil URL and more than 10 workers.
NewWorkerRefuses(p) == p \in Requesters /\ (<<p, "build">> \in Refused \/ ~url[p])

(***************************************************************************)
(* api.NewHandler, which looks at no value of the environment, or          *)
(* requester.New and NewWorker; then the goroutine is started and main     *)
(* waits for a signal.                                                     *)
(***************************************************************************)
Build(p) ==
    /\ main[p] = "build"
    /\ IF NewWorkerRefuses(p)
       THEN Gone(p)
       ELSE /\ service' = [service EXCEPT ![p] = "pending"]
            /\ Go(p, "serve")
            /\ UNCHANGED <<pool, url, calls>>
    /\ UNCHANGED <<queueExists, faults>>

-----------------------------------------------------------------------------
(* The second goroutine                                                    *)

\* Shutdown was called.
ShuttingDown(p) == main[p] \in {"shutdown", "close", "exit"}

\* Mutant: the error that Shutdown makes ListenAndServe return is fatal too.
ListenAndServeAlwaysFatal(p) ==
    /\ p \in Servers
    /\ \/ /\ service[p] = "pending" /\ main[p] = "serve"
          /\ \/ service' = [service EXCEPT ![p] = "running"]
                /\ UNCHANGED <<main, pool, url, calls, faults>>
             \/ Fault /\ Gone(p)
       \/ /\ service[p] \in {"pending", "running"} /\ ShuttingDown(p)
          /\ Gone(p) /\ UNCHANGED faults
    /\ UNCHANGED queueExists

(***************************************************************************)
(* ListenAndServe listens, or fails and ends the process with logg.Fatal.  *)
(* When Shutdown was called, also before it began to listen, it returns    *)
(* ErrServerClosed, and only its goroutine ends.                           *)
(***************************************************************************)
ListenAndServe(p) ==
    /\ p \in Servers
    /\ \/ /\ service[p] = "pending" /\ main[p] = "serve"
          /\ \/ service' = [service EXCEPT ![p] = "running"]
                /\ UNCHANGED <<main, pool, url, calls, faults>>
             \/ Fault /\ Gone(p)
       \/ /\ service[p] \in {"pending", "running"} /\ ShuttingDown(p)
          /\ service' = [service EXCEPT ![p] = "ended"]
          /\ UNCHANGED <<main, pool, url, calls, faults>>
    /\ UNCHANGED queueExists

\* go instance.WatchMessages(ctx).  Nothing stops it but the process's end.
WatchMessages(p) ==
    /\ p \in Requesters /\ service[p] = "pending"
    /\ service' = [service EXCEPT ![p] = "running"]
    /\ UNCHANGED <<queueExists, main, pool, url, calls, faults>>

\* A request is accepted, before Shutdown; or a listener is given a message.
CallBegins(p) ==
    /\ service[p] = "running" /\ calls[p] < MaxCalls
    /\ p \in Servers => main[p] = "serve"
    /\ calls' = [calls EXCEPT ![p] = @ + 1]
    /\ UNCHANGED <<queueExists, main, pool, url, service, faults>>

CallEnds(p) ==
    /\ calls[p] > 0
    /\ calls' = [calls EXCEPT ![p] = @ - 1]
    /\ UNCHANGED <<queueExists, main, pool, url, service, faults>>

-----------------------------------------------------------------------------
(* The end                                                                 *)

(***************************************************************************)
(* SIGTERM or SIGINT.  While main waits for it, the API server goes on to  *)
(* Shutdown and the requester returns from main; later ones are stored in  *)
(* a channel nobody reads.  Before signal.Notify the process just ends.    *)
(***************************************************************************)
Signal(p) ==
    \/ /\ main[p] = "serve"
       /\ Go(p, IF p \in Servers THEN "shutdown" ELSE "close")
       /\ UNCHANGED <<queueExists, pool, url, service, calls, faults>>
    \/ /\ main[p] \notin {"down", "serve", "shutdown", "close", "exit"}
       /\ Fault /\ Gone(p)
       /\ UNCHANGED queueExists

\* Mutant: the server is closed without waiting for its handlers.
ShutdownDoesNotWait(p) ==
    /\ main[p] = "shutdown"
    /\ Go(p, "close")
    /\ UNCHANGED <<queueExists, pool, url, service, calls, faults>>

(***************************************************************************)
(* Shutdown returns when no request is being handled.  Its context is done *)
(* only after main has returned, so it waits for as long as that takes.    *)
(***************************************************************************)
Shutdown(p) ==
    /\ main[p] = "shutdown" /\ calls[p] = 0
    /\ Go(p, "close")
    /\ UNCHANGED <<queueExists, pool, url, service, calls, faults>>

\* Mutant: main waits for WatchMessages, whose context is cancelled later.
ClosePoolAfterService(p) ==
    /\ main[p] = "close" /\ service[p] = "ended"
    /\ pool' = [pool EXCEPT ![p] = "closed"]
    /\ Go(p, "exit")
    /\ UNCHANGED <<queueExists, url, service, calls, faults>>

(***************************************************************************)
(* dbPool.Close.  Statements that run are waited for; the listeners of a   *)
(* requester go on all the same.                                           *)
(***************************************************************************)
ClosePool(p) ==
    /\ main[p] = "close"
    /\ pool' = [pool EXCEPT ![p] = "closed"]
    /\ Go(p, "exit")
    /\ UNCHANGED <<queueExists, url, service, calls, faults>>

\* The rest of the defers, and main returns.
Return(p) ==
    /\ main[p] = "exit"
    /\ Gone(p)
    /\ UNCHANGED <<queueExists, faults>>

\* SIGKILL, or a panic outside the handlers.
Killed(p) ==
    /\ main[p] # "down"
    /\ Fault /\ Gone(p)
    /\ UNCHANGED queueExists

MainRuns(p) ==
    \/ ConfigureDatabase(p) \/ Connect(p) \/ ConfigureQueue(p)
    \/ GetQueueURL(p) \/ CreateQueue(p) \/ Build(p)
    \/ Shutdown(p) \/ ClosePool(p) \/ Return(p)

ServiceRuns(p) == ListenAndServe(p) \/ WatchMessages(p)

Next ==
    \E p \in Procs :
        \/ Launch(p) \/ MainRuns(p) \/ ServiceRuns(p)
        \/ CallBegins(p) \/ CallEnds(p)
        \/ Signal(p) \/ Killed(p)

Spec == Init /\ [][Next]_vars

(***************************************************************************)
(* Fairness: a goroutine that can go on does, and every call comes to an   *)
(* end, since its database and queue calls do.  Nothing starts a process,  *)
(* sends it a request, a message or a signal.                              *)
(***************************************************************************)
FairSpec ==
    /\ Spec
    /\ \A p \in Procs :
          WF_vars(MainRuns(p)) /\ WF_vars(ServiceRuns(p)) /\ WF_vars(CallEnds(p))

-----------------------------------------------------------------------------
(* Properties                                                              *)

(***************************************************************************)
(* What main may rely on where it is: the pool it passes on is open, the   *)
(* URL is not nil, and behind Shutdown no handler runs.                    *)
(***************************************************************************)
StageInv(p) ==
    /\ main[p] \in {"down", "db", "connect"} => pool[p] = "none"
    /\ main[p] \in {"config", "url", "create", "build", "serve", "shutdown", "close"}
          => pool[p] = "open"
    /\ main[p] \in {"build", "serve", "shutdown", "close", "exit"} => url[p]
    /\ url[p] => queueExists
    /\ service[p] # "none" => main[p] \in {"serve", "shutdown", "close", "exit"}
    /\ service[p] = "none" => calls[p] = 0
    /\ p \in Servers /\ main[p] \in {"close", "exit"} => calls[p] = 0

StartupInv == StartupTypeOK /\ \A p \in Procs : StageInv(p)

(***************************************************************************)
(* Whatever serves has the URL of a queue that exists: whichever process   *)
(* came first, and whatever was lost when the queue was created.           *)
(***************************************************************************)
ServesTheQueue == \A p \in Procs : service[p] # "none" => url[p] /\ queueExists

(***************************************************************************)
(* A handler of the API server never finds the database pool closed, on    *)
(* any way down: Shutdown comes before the deferred Close.                 *)
(***************************************************************************)
PoolOutlivesHandlers == \A p \in Servers : calls[p] > 0 => pool[p] = "open"

(***************************************************************************)
(* A server that was told to stop does not leave a request it accepted     *)
(* unanswered, although ListenAndServe returns an error as soon as         *)
(* Shutdown begins: only a fault ends the process while a handler runs.    *)
(***************************************************************************)
GracefulStop ==
    [][\A p \in Servers :
          main[p] = "shutdown" /\ calls[p] > 0 /\ faults' = faults => main'[p] # "down"]_vars

(***************************************************************************)
(* A process that was told to stop ends.                                   *)
(***************************************************************************)
StopEnds == \A p \in Procs : main[p] \in {"shutdown", "close"} ~> main[p] = "down"

(***************************************************************************)
(* A process whose environment is in order serves again and again, if only *)
(* somebody starts it whenever it is down: no fault and no other process   *)
(* leaves it a queue it cannot use.                                        *)
(***************************************************************************)
RestartServes ==
    \A p \in {q \in Procs : \A step \in {"db", "config", "build"} : <<q, step>> \notin Refused} :
        (main[p] = "down" ~> main[p] = "db") => []<>(main[p] = "serve")
=============================================================================
