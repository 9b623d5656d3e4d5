------------------------------- MODULE HttpApi -------------------------------
(***************************************************************************)
(* The API server as its clients see it: the generated server of           *)
(* internal/api/oas around the handlers of internal/api, composed with the *)
(* rest of the system.                                                     *)
(*                                                                         *)
(* Routing, decoding and validating a request are functions of the request *)
(* and happen in one step, which answers a refused request at once.  What  *)
(* takes time is modelled call by call: CreateTask (module Api), the read  *)
(* of GetTaskStatus, and the answer, which is written after the read and   *)
(* may be out of date, or never arrive.                                    *)
(*                                                                         *)
(* A client sends one request at a time; clients are concurrent.           *)
(***************************************************************************)
EXTENDS Requester

CONSTANTS
    Clients,
    OtherId,      \* a UUID that is the id of no task
    NoTask

VARIABLES
    web,          \* the request of each client: where its goroutine is in the server
    reply,        \* the last answer to each client: status sent, status logged, task
    known,        \* the ids each client was given
    seen          \* what each client was last answered about each task

httpVars == <<web, reply, known, seen>>

-----------------------------------------------------------------------------
(* Routing                                                                 *)

(***************************************************************************)
(* Server.ServeHTTP: each path has one operation, for one method.          *)
(***************************************************************************)
Paths == {"/health", "/tasks", "/tasks/{taskID}", "other"}

Methods == {"GET", "POST", "other"}

Operation(path, method) ==
    CASE path = "other" -> "notFound"
      [] path = "/health" /\ method = "GET" -> "getHealthStatus"
      [] path = "/tasks" /\ method = "POST" -> "createTask"
      [] path = "/tasks/{taskID}" /\ method = "GET" -> "getTaskStatus"
      [] OTHER -> "notAllowed"

ASSUME HttpAssumption == OtherId \notin Tasks /\ NoTask \notin Tasks \cup {OtherId}

-----------------------------------------------------------------------------
(* Requests and answers                                                    *)

Quiet == [pc |-> "idle", task |-> NoTask, view |-> NoRow]

NoReply == [sent |-> 0, logged |-> 0, task |-> NoTask]

Codes == {200, 400, 404, 405, 415, 500}

Ids == Tasks \cup {OtherId}

HttpTypeOK ==
    /\ web \in [Clients -> [pc   : {"idle", "create", "read", "encode"},
                            task : Ids \cup {NoTask},
                            view : Task \cup {NoRow}]]
    /\ reply \in [Clients -> [sent   : Codes \cup {0},
                              logged : Codes \cup {0},
                              task   : Ids \cup {NoTask}]]
    /\ known \in [Clients -> SUBSET Tasks]
    /\ seen \in [Clients -> [Tasks -> Task \cup {NoRow}]]

HttpInit ==
    /\ web = [c \in Clients |-> Quiet]
    /\ reply = [c \in Clients |-> NoReply]
    /\ known = [c \in Clients |-> {}]
    /\ seen = [c \in Clients |-> [t \in Tasks |-> NoRow]]

\* The request of c ends: sent went out, and loggingMiddleware logs the last
\* status that was passed to WriteHeader.
Answer(c, sent, logged) ==
    /\ reply' = [reply EXCEPT ![c] = [sent |-> sent, logged |-> logged, task |-> web[c].task]]
    /\ web' = [web EXCEPT ![c] = Quiet]

Enter(c, pc, id) ==
    /\ web' = [web EXCEPT ![c] = [Quiet EXCEPT !.pc = pc, !.task = id]]
    /\ reply' = [reply EXCEPT ![c] = NoReply]

Unclaimed(t) == call[t] = "insert" /\ \A c \in Clients : web[c].task # t \/ web[c].pc # "create"

(***************************************************************************)
(* POST /tasks: the body is refused, or reaches handler.CreateTask, which  *)
(* has a task to itself.  Module Payload says which body does.             *)
(***************************************************************************)
ReceivePost(c) ==
    \/ \E code \in {400, 415} : Answer(c, code, code)
    \/ \E t \in Tasks : Unclaimed(t) /\ Enter(c, "create", t)

(***************************************************************************)
(* GET /tasks/{taskID}: 400 when the parameter is empty or not a UUID.     *)
(***************************************************************************)
ReceiveGet(c) == Answer(c, 400, 400) \/ \E id \in Ids : Enter(c, "read", id)

Receives(c) ==
    /\ web[c].pc = "idle"
    /\ \E operation \in {Operation(path, method) : path \in Paths, method \in Methods} :
          \/ operation = "notFound" /\ Answer(c, 404, 404)
          \/ operation = "notAllowed" /\ Answer(c, 405, 405)
          \/ operation = "getHealthStatus" /\ Answer(c, 200, 200)
          \/ operation = "createTask" /\ ReceivePost(c)
          \/ operation = "getTaskStatus" /\ ReceiveGet(c)
    /\ UNCHANGED <<vars, known, seen>>

(***************************************************************************)
(* A step of the handler CreateTask that c waits for, or the end of its    *)
(* context.                                                                *)
(***************************************************************************)
RunCreate(c) ==
    /\ web[c].pc = "create"
    /\ CreateTask(web[c].task) \/ ContextDone(web[c].task)
    /\ UNCHANGED <<workerVars, httpVars>>

\* Mutant: the error of CreateTask is dropped, and the client is given the zero UUID.
AnswerCreateUnchecked(c) ==
    LET t == web[c].task IN
    /\ web[c].pc = "create"
    /\ call[t] \in {"accepted", "rejected"}
    /\ Answer(c, 200, 200)
    /\ known' = [known EXCEPT ![c] = @ \cup {IF call[t] = "accepted" THEN t ELSE OtherId}]
    /\ UNCHANGED <<vars, seen>>

(***************************************************************************)
(* The handler returned: its output is encoded, or the error handler       *)
(* answers.  The answer is short and is buffered, so that writing it does  *)
(* not fail, but it may not reach the client ("answer": the connection is  *)
(* gone, or the server's WriteTimeout of 6 s is over).                     *)
(***************************************************************************)
AnswerCreate(c) ==
    LET t == web[c].task IN
    /\ web[c].pc = "create"
    /\ \/ /\ call[t] = "accepted"
          /\ Answer(c, 200, 200)
          /\ \/ known' = [known EXCEPT ![c] = @ \cup {t}]
             \/ "answer" \in Faults /\ UNCHANGED known
       \/ /\ call[t] = "rejected"
          /\ Answer(c, 500, 500)
          /\ UNCHANGED known
    /\ UNCHANGED <<vars, seen>>

\* The process of the handler is killed: the connection closes with no answer.
Killed(c) ==
    /\ "apicrash" \in Faults
    /\ \/ web[c].pc = "create" /\ CallDies(web[c].task)
       \/ web[c].pc \in {"read", "encode"} /\ UNCHANGED <<table, queue, apiVars>>
    /\ Answer(c, 0, 0)
    /\ UNCHANGED <<workerVars, known, seen>>

Found(id) == id \in Tasks /\ Exists(id)

(***************************************************************************)
(* handler.GetTaskStatus: one read of the row.                             *)
(***************************************************************************)
GetTaskStatus(c) ==
    LET t == web[c].task IN
    /\ web[c].pc = "read"
    /\ \/ "db" \in Faults /\ Answer(c, 500, 500)
       \/ ~Found(t) /\ Answer(c, 404, 404)
       \/ /\ Found(t)
          /\ web' = [web EXCEPT ![c] = [pc |-> "encode", task |-> t, view |-> table[t]]]
          /\ UNCHANGED reply
    /\ UNCHANGED <<vars, known, seen>>

(***************************************************************************)
(* encodeGetTaskStatusResponse.  Only the stored headers can be long enough*)
(* for the write to fail, after WriteHeader(200); the error handler then   *)
(* calls WriteHeader(500), which sends nothing any more.                   *)
(***************************************************************************)
AnswerStatus(c) ==
    LET view == web[c].view IN
    /\ web[c].pc = "encode"
    /\ \/ /\ Answer(c, 200, 200)
          /\ \/ seen' = [seen EXCEPT ![c] = [seen[c] EXCEPT ![web[c].task] = view]]
             \/ "answer" \in Faults /\ UNCHANGED seen
       \/ /\ "answer" \in Faults /\ view.response # NoResponse
          /\ Answer(c, 200, 500)
          /\ UNCHANGED seen
    /\ UNCHANGED <<vars, known>>

(***************************************************************************)
(* The composition.  Only the API server sends to this queue.              *)
(***************************************************************************)
HttpNext ==
    \/ \E c \in Clients :
          \/ Receives(c)
          \/ RunCreate(c)
          \/ AnswerCreate(c)
          \/ Killed(c)
          \/ GetTaskStatus(c)
          \/ AnswerStatus(c)
    \/ WorkerNext /\ UNCHANGED <<apiVars, httpVars>>
    \/ (\E m \in Msgs : VisibilityTimeout(m)) /\ UNCHANGED httpVars

HttpSpec == Init /\ HttpInit /\ [][HttpNext]_<<vars, httpVars>>

-----------------------------------------------------------------------------

(***************************************************************************)
(* A client is never told "not found" of an id it was given.               *)
(***************************************************************************)
KnownIsFound ==
    \A c \in Clients : reply[c].sent = 404 => reply[c].task \notin known[c]

(***************************************************************************)
(* Once a client was answered that a task is done, every later answer to   *)
(* it about the task is the same, however the reads and the answers of     *)
(* several requests interleave with the workers.                           *)
(***************************************************************************)
DoneStaysDone ==
    [][\A c \in Clients, t \in Tasks :
          seen[c][t].status = "done" => seen'[c][t] = seen[c][t]]_<<vars, httpVars>>

(***************************************************************************)
(* An answer shows a response exactly if it shows the status done: never a *)
(* response next to error or in_process, of an attempt that is over.       *)
(***************************************************************************)
AnswersAreWhole ==
    \A c \in Clients, t \in Tasks :
        seen[c][t].status = "done" <=> seen[c][t].response # NoResponse

(***************************************************************************)
(* The status loggingMiddleware logs is the status that was sent.          *)
(***************************************************************************)
LoggedIsSent == \A c \in Clients : reply[c].logged = reply[c].sent
=============================================================================
