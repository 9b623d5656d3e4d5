---------------------------- MODULE HttpApiProofs ----------------------------
(***************************************************************************)
(* The server adds nothing to what may happen to tasks and messages:       *)
(* HttpSpec implements Spec, so that what is proved of Spec holds with     *)
(* clients that read while the system runs.  What is proved of Spec while  *)
(* nobody else works on a message (RequesterExclusiveProofs) then gives    *)
(* what a client may conclude from an answer, which is written some time   *)
(* after the row was read.                                                 *)
(***************************************************************************)
EXTENDS HttpApi, RequesterExclusiveProofs

(***************************************************************************)
(* What makes HttpSpec implement Spec, and what a client may rely on.      *)
(***************************************************************************)
WebInv ==
    \A c \in Clients :
       /\ web[c].pc = "idle" => web[c].task = NoTask
       /\ web[c].pc = "create" => web[c].task \in Tasks
       /\ web[c].pc = "encode" => web[c].task \in Tasks /\ web[c].view \in Task

ClientInv ==
    \A c \in Clients :
       /\ \A t \in known[c] : Exists(t)
       /\ reply[c].sent = 404 => web[c].pc = "idle" /\ reply[c].task \notin known[c]

HttpInv == HttpTypeOK /\ WebInv /\ ClientInv

(***************************************************************************)
(* What was read of a task that is done, and what a client was told of it, *)
(* is what the row says now.                                               *)
(***************************************************************************)
Whole(row) == row.status = "done" <=> row.response # NoResponse

SeenIsTrue(c) ==
    \A t \in Tasks :
       /\ Whole(seen[c][t])
       /\ seen[c][t].status = "done" => table[t] = seen[c][t]

ViewIsTrue(c) ==
    LET t    == web[c].task
        view == web[c].view
    IN  web[c].pc = "encode" =>
          /\ Whole(view)
          /\ view.status = "done" => table[t] = view
          /\ seen[c][t].status = "done" => view = seen[c][t]

SeenInv == \A c \in Clients : SeenIsTrue(c) /\ ViewIsTrue(c)

LEMMA HttpInvInit == HttpInit => HttpInv
BY DEF HttpInit, HttpInv, HttpTypeOK, WebInv, ClientInv, Quiet, NoReply

(***************************************************************************)
(* Every step of the server is a step of the system, or changes only what  *)
(* the clients see.                                                        *)
(***************************************************************************)
LEMMA HttpStepSimulates ==
    ASSUME WebInv, [HttpNext]_<<vars, httpVars>>
    PROVE  [Next]_vars
<1>1. ASSUME NEW c \in Clients, RunCreate(c)
      PROVE  Next
  BY <1>1 DEF RunCreate, WebInv, Next, ApiNext
<1>2. ASSUME NEW c \in Clients, Killed(c)
      PROVE  [Next]_vars
  BY <1>2 DEF Killed, WebInv, Next, ApiNext, vars, apiVars, workerVars
<1>3. ASSUME NEW c \in Clients, Receives(c) \/ AnswerCreate(c) \/ GetTaskStatus(c) \/ AnswerStatus(c)
      PROVE  UNCHANGED vars
  BY <1>3 DEF Receives, AnswerCreate, GetTaskStatus, AnswerStatus
<1>4. ASSUME WorkerNext /\ UNCHANGED <<apiVars, httpVars>>
      PROVE  Next
  BY <1>4 DEF Next
<1>5. ASSUME NEW m \in Msgs, VisibilityTimeout(m)
      PROVE  Next
  BY <1>5 DEF Next
<1>6. QED
  BY <1>1, <1>2, <1>3, <1>4, <1>5 DEF HttpNext

-----------------------------------------------------------------------------
(* What a client's request changes                                         *)

LEMMA EnterStep ==
    ASSUME HttpInv, NEW c \in Clients, NEW pc \in {"create", "read"}, NEW id \in Ids,
           pc = "create" => id \in Tasks,
           Enter(c, pc, id), UNCHANGED <<table, known, seen>>
    PROVE  HttpInv'
<1>1. HttpTypeOK'
  BY DEF Enter, HttpInv, HttpTypeOK, Quiet, NoReply
<1>2. WebInv'
  BY DEF Enter, HttpInv, HttpTypeOK, WebInv, Quiet
<1>3. ClientInv'
  BY DEF Enter, HttpInv, HttpTypeOK, ClientInv, NoReply, Exists
<1>4. QED
  BY <1>1, <1>2, <1>3 DEF HttpInv

LEMMA AnswerStep ==
    ASSUME HttpInv, HttpTypeOK', NEW c \in Clients,
           NEW sent \in Codes \cup {0}, NEW logged, Answer(c, sent, logged),
           \A t \in Tasks : Exists(t) => Exists(t)',
           \A k \in Clients : k # c => known'[k] = known[k],
           \A t \in known'[c] : Exists(t)',
           sent = 404 => web[c].task \notin known'[c]
    PROVE  HttpInv'
<1>1. WebInv'
  BY DEF Answer, HttpInv, HttpTypeOK, WebInv, Quiet
<1>2. ASSUME NEW k \in Clients
      PROVE  /\ \A t \in known'[k] : Exists(t)'
             /\ reply'[k].sent = 404 => web'[k].pc = "idle" /\ reply'[k].task \notin known'[k]
  <2>1. CASE k = c
    BY <2>1 DEF Answer, HttpInv, HttpTypeOK, Quiet
  <2>2. CASE k # c
    BY <2>2 DEF Answer, HttpInv, HttpTypeOK, ClientInv
  <2>3. QED
    BY <2>1, <2>2
<1>3. QED
  BY <1>1, <1>2 DEF HttpInv, ClientInv

LEMMA ReceivesStep ==
    ASSUME HttpInv, NEW c \in Clients, Receives(c)
    PROVE  HttpInv'
<1>1. UNCHANGED <<table, known, seen>>
  BY DEF Receives, vars
<1>2. ASSUME NEW code \in {200, 400, 404, 405, 415}, Answer(c, code, code),
             code = 404 => web[c].task \notin known[c]
      PROVE  HttpInv'
  <2>1. HttpTypeOK'
    BY <1>1, <1>2 DEF Answer, HttpInv, HttpTypeOK, Quiet, Codes
  <2>2. QED
    BY <1>1, <1>2, <2>1, AnswerStep DEF HttpInv, ClientInv, Codes, Exists
<1>3. web[c].task \notin known[c]
  <2>1. web[c].task = NoTask
    BY DEF Receives, HttpInv, WebInv
  <2>2. known[c] \subseteq Tasks
    BY DEF HttpInv, HttpTypeOK
  <2>3. QED
    BY <2>1, <2>2, HttpAssumption
<1>4. PICK operation \in {Operation(path, method) : path \in Paths, method \in Methods} :
         \/ operation = "notFound" /\ Answer(c, 404, 404)
         \/ operation = "notAllowed" /\ Answer(c, 405, 405)
         \/ operation = "getHealthStatus" /\ Answer(c, 200, 200)
         \/ operation = "createTask" /\ ReceivePost(c)
         \/ operation = "getTaskStatus" /\ ReceiveGet(c)
  BY DEF Receives
<1>5. ASSUME ReceivePost(c)
      PROVE  HttpInv'
  <2>1. ASSUME NEW t \in Tasks, Enter(c, "create", t)
        PROVE  HttpInv'
    BY <1>1, <2>1, EnterStep DEF Ids
  <2>2. QED
    BY <1>2, <1>5, <2>1 DEF ReceivePost
<1>6. ASSUME NEW id \in Ids, Enter(c, "read", id)
      PROVE  HttpInv'
  BY <1>1, <1>6, EnterStep
<1>7. QED
  BY <1>2, <1>3, <1>4, <1>5, <1>6 DEF ReceiveGet

LEMMA HttpStep ==
    ASSUME SafetyInv, HttpInv, [HttpNext]_<<vars, httpVars>>
    PROVE  HttpInv'
<1>1. [Next]_vars
  BY HttpStepSimulates DEF HttpInv
<1>2. TypeOK /\ TypeOK'
  BY <1>1, TypeStep DEF SafetyInv
<1>3. \A t \in Tasks : Exists(t) => Exists(t)'
  BY <1>1, Grows DEF TableGrows
<1>4. ASSUME UNCHANGED httpVars
      PROVE  HttpInv'
  BY <1>3, <1>4 DEF HttpInv, HttpTypeOK, WebInv, ClientInv, httpVars
<1>5. ASSUME NEW c \in Clients, RunCreate(c)
      PROVE  HttpInv'
  BY <1>4, <1>5 DEF RunCreate
<1>6. ASSUME NEW c \in Clients, AnswerCreate(c)
      PROVE  HttpInv'
  <2>. DEFINE t == web[c].task
  <2>1. t \in Tasks /\ UNCHANGED table
    BY <1>6 DEF AnswerCreate, HttpInv, WebInv, vars
  <2>2. PICK code \in {200, 500} : Answer(c, code, code)
    BY <1>6 DEF AnswerCreate
  <2>3. /\ \/ known' = [known EXCEPT ![c] = @ \cup {t}]
           \/ known' = known
        /\ known' # known => Exists(t)
    BY <1>6, <2>1 DEF AnswerCreate, SafetyInv, HandlerInv
  <2>4. HttpTypeOK'
    <3>1. /\ web' = [web EXCEPT ![c] = Quiet]
          /\ reply' = [reply EXCEPT ![c] = [sent |-> code, logged |-> code, task |-> t]]
          /\ seen' = seen
      BY <1>6, <2>2 DEF Answer, AnswerCreate
    <3>2. known' \in [Clients -> SUBSET Tasks]
      <4>1. known \in [Clients -> SUBSET Tasks]
        BY DEF HttpInv, HttpTypeOK
      <4>2. c \in Clients
        BY <1>6
      <4>3. known[c] \cup {t} \in SUBSET Tasks
        BY <2>1, <4>1, <4>2
      <4>4. QED
        BY <2>3, <4>1, <4>3
    <3>3. /\ Quiet \in [pc : {"idle", "create", "read", "encode"},
                       task : Ids \cup {NoTask}, view : Task \cup {NoRow}]
          /\ [sent |-> code, logged |-> code, task |-> t] \in
                [sent : Codes \cup {0}, logged : Codes \cup {0}, task : Ids \cup {NoTask}]
      BY <2>1, <2>2 DEF Quiet, Codes, Ids
    <3>4. QED
      BY <3>1, <3>2, <3>3 DEF HttpInv, HttpTypeOK
  <2>5. \A k \in Clients : k # c => known'[k] = known[k]
    BY <2>3 DEF HttpInv, HttpTypeOK
  <2>6. \A u \in known'[c] : Exists(u)'
    BY <2>1, <2>3 DEF HttpInv, HttpTypeOK, ClientInv, Exists
  <2>7. QED
    BY <1>3, <2>2, <2>4, <2>5, <2>6, AnswerStep DEF Codes
<1>7. ASSUME NEW c \in Clients, Killed(c)
      PROVE  HttpInv'
  <2>1. Answer(c, 0, 0) /\ UNCHANGED <<known, seen>>
    BY <1>7 DEF Killed
  <2>2. HttpTypeOK'
    BY <2>1 DEF Answer, HttpInv, HttpTypeOK, Quiet
  <2>3. \A t \in known'[c] : Exists(t)'
    BY <1>3, <2>1 DEF HttpInv, HttpTypeOK, ClientInv
  <2>4. QED
    BY <1>3, <2>1, <2>2, <2>3, AnswerStep
<1>8. ASSUME NEW c \in Clients, GetTaskStatus(c)
      PROVE  HttpInv'
  <2>. DEFINE t == web[c].task
  <2>1. UNCHANGED <<table, known, seen>>
    BY <1>8 DEF GetTaskStatus, vars
  <2>2. ASSUME NEW code \in {404, 500}, Answer(c, code, code), code = 404 => t \notin known[c]
        PROVE  HttpInv'
    <3>1. HttpTypeOK'
      BY <2>1, <2>2 DEF Answer, HttpInv, HttpTypeOK, Quiet, Codes
    <3>2. QED
      BY <2>1, <2>2, <3>1, AnswerStep DEF HttpInv, ClientInv, Codes, Exists
  <2>3. ASSUME Found(t), web' = [web EXCEPT ![c] = [pc |-> "encode", task |-> t, view |-> table[t]]],
               UNCHANGED reply
        PROVE  HttpInv'
    <3>1. t \in Tasks /\ table[t] \in Task
      BY <1>2, <2>3 DEF Found, Exists, TypeOK, RepositoryTypeOK
    <3>2. HttpTypeOK'
      BY <2>1, <2>3, <3>1 DEF HttpInv, HttpTypeOK, Ids
    <3>3. WebInv'
      BY <2>1, <2>3, <3>1 DEF HttpInv, HttpTypeOK, WebInv
    <3>4. ClientInv'
      BY <1>8, <2>1, <2>3, <3>1 DEF GetTaskStatus, HttpInv, HttpTypeOK, ClientInv, Exists
    <3>5. QED
      BY <3>2, <3>3, <3>4 DEF HttpInv
  <2>4. ~Found(t) => t \notin known[c]
    BY DEF Found, HttpInv, HttpTypeOK, ClientInv
  <2>5. QED
    BY <1>8, <2>2, <2>3, <2>4 DEF GetTaskStatus
<1>9. ASSUME NEW c \in Clients, AnswerStatus(c)
      PROVE  HttpInv'
  <2>1. UNCHANGED <<table, known>>
    BY <1>9 DEF AnswerStatus, vars
  <2>2. PICK logged \in {200, 500} : Answer(c, 200, logged)
    BY <1>9 DEF AnswerStatus
  <2>3. web[c].task \in Tasks /\ web[c].view \in Task
    BY <1>9 DEF AnswerStatus, HttpInv, WebInv
  <2>4. seen' \in [Clients -> [Tasks -> Task \cup {NoRow}]]
    <3>. DEFINE Row == Task \cup {NoRow}
                answered == [seen[c] EXCEPT ![web[c].task] = web[c].view]
    <3>1. seen \in [Clients -> [Tasks -> Row]] /\ web[c].view \in Row
      BY <2>3 DEF HttpInv, HttpTypeOK
    <3>2. seen' = [seen EXCEPT ![c] = answered] \/ seen' = seen
      BY <1>9 DEF AnswerStatus
    <3>. HIDE DEF Row
    <3>3. answered \in [Tasks -> Row]
      <4>1. seen[c] \in [Tasks -> Row]
        BY <3>1
      <4>2. QED
        BY <3>1, <4>1, Zenon
    <3>. HIDE DEF answered
    <3>4. seen' \in [Clients -> [Tasks -> Row]]
      BY <3>1, <3>2, <3>3
    <3>5. QED
      BY <3>4 DEF Row
  <2>5. web' \in [Clients -> [pc   : {"idle", "create", "read", "encode"},
                             task : Ids \cup {NoTask},
                             view : Task \cup {NoRow}]]
    BY <2>2 DEF Answer, HttpInv, HttpTypeOK, Quiet
  <2>6. reply' \in [Clients -> [sent   : Codes \cup {0},
                               logged : Codes \cup {0},
                               task   : Ids \cup {NoTask}]]
    BY <2>2 DEF Answer, HttpInv, HttpTypeOK, Codes
  <2>7. HttpTypeOK'
    BY <2>1, <2>4, <2>5, <2>6 DEF HttpInv, HttpTypeOK
  <2>8. QED
    BY <2>1, <2>2, <2>7, AnswerStep DEF HttpInv, ClientInv, Codes, Exists
<1>10. QED
  BY <1>4, <1>5, <1>6, <1>7, <1>8, <1>9, ReceivesStep DEF HttpNext, VisibilityTimeout

-----------------------------------------------------------------------------

(***************************************************************************)
(* Whatever clients do and however their requests interleave with the      *)
(* workers, tasks and messages behave as Spec says: a reader changes       *)
(* nothing, and CreateTask runs only for requests that were decoded.       *)
(***************************************************************************)
THEOREM HttpImplementsRequester == HttpSpec => Spec
<1>1. HttpInit => HttpInv
  BY HttpInvInit
<1>2. Init => SafetyInv
  BY SafetyInit
<1>3. SafetyInv /\ HttpInv /\ [HttpNext]_<<vars, httpVars>>
        => SafetyInv' /\ HttpInv' /\ [Next]_vars
  BY HttpStep, HttpStepSimulates, SafetyStep DEF HttpInv
<1>4. QED
  BY <1>1, <1>2, <1>3, PTL DEF HttpSpec, Spec

LEMMA HttpInvariant == HttpSpec => []HttpInv
<1>1. SafetyInv /\ HttpInv /\ [HttpNext]_<<vars, httpVars>> => HttpInv'
  BY HttpStep
<1>2. QED
  BY <1>1, HttpInvInit, HttpImplementsRequester, SafetyInvariant, PTL DEF HttpSpec

(***************************************************************************)
(* Type correctness of what clients see: an answer with a row in it is one *)
(* about a row that exists.                                                *)
(***************************************************************************)
THEOREM HttpTypeCorrect == HttpSpec => []HttpTypeOK
BY HttpInvariant, PTL DEF HttpInv

(***************************************************************************)
(* An id that a client was given is never answered with "not found".       *)
(***************************************************************************)
THEOREM KnownAlwaysFound == HttpSpec => []KnownIsFound
<1>1. HttpInv => KnownIsFound
  BY DEF HttpInv, ClientInv, KnownIsFound
<1>2. QED
  BY <1>1, HttpInvariant, PTL

-----------------------------------------------------------------------------
(* What a client may conclude from an answer                               *)

LEMMA SeenInvInit == HttpInit => SeenInv
BY DEF HttpInit, SeenInv, SeenIsTrue, ViewIsTrue, Whole, NoRow, Quiet

(***************************************************************************)
(* A step of somebody else, or the end of a request, leaves what a client  *)
(* knows as it was.                                                        *)
(***************************************************************************)
LEMMA SeenStays ==
    ASSUME ExclusiveInv, HttpInv, SeenInv, [Next]_vars, NEW c \in Clients,
           seen'[c] = seen[c], web'[c] = web[c] \/ web'[c].pc # "encode"
    PROVE  SeenIsTrue(c)' /\ ViewIsTrue(c)'
<1>1. SeenIsTrue(c)'
  BY DoneStays DEF SeenInv, SeenIsTrue
<1>2. web'[c].pc = "encode" => web'[c] = web[c] /\ web[c].task \in Tasks
  BY DEF HttpInv, WebInv
<1>3. ViewIsTrue(c)'
  BY <1>2, DoneStays DEF SeenInv, ViewIsTrue
<1>4. QED
  BY <1>1, <1>3

(***************************************************************************)
(* Reading the row: if the client already knows that the task is done, the *)
(* row still says what the client was told.                                *)
(***************************************************************************)
LEMMA ReadIsTrue ==
    ASSUME ExclusiveInv, HttpInv, SeenInv, NEW c \in Clients, GetTaskStatus(c)
    PROVE  SeenIsTrue(c)' /\ ViewIsTrue(c)'
<1>1. UNCHANGED <<table, seen>>
  BY DEF GetTaskStatus, vars
<1>2. SeenIsTrue(c)'
  BY <1>1 DEF SeenInv, SeenIsTrue
<1>3. ASSUME web'[c].pc = "encode"
      PROVE  /\ web[c].task \in Tasks
             /\ web'[c].task = web[c].task
             /\ web'[c].view = table[web[c].task]
  BY <1>3 DEF GetTaskStatus, Answer, Quiet, Found, HttpInv, HttpTypeOK
<1>4. \A t \in Tasks : Whole(table[t])
  BY DEF Whole, ExclusiveInv, SafetyInv, RowIsWhole, RowInv
<1>5. ViewIsTrue(c)'
  BY <1>1, <1>2, <1>3, <1>4 DEF ViewIsTrue, SeenIsTrue, Whole
<1>6. QED
  BY <1>2, <1>5

(***************************************************************************)
(* Answering: the row may have changed since it was read, but not if it    *)
(* said that the task is done.                                             *)
(***************************************************************************)
LEMMA AnswerIsTrue ==
    ASSUME HttpInv, SeenInv, NEW c \in Clients, AnswerStatus(c)
    PROVE  /\ SeenIsTrue(c)' /\ ViewIsTrue(c)'
           /\ \A t \in Tasks : seen[c][t].status = "done" => seen'[c][t] = seen[c][t]
<1>1. UNCHANGED table /\ web[c].pc = "encode" /\ web'[c].pc = "idle"
  BY DEF AnswerStatus, vars, Answer, Quiet, HttpInv, HttpTypeOK
<1>2. PICK u \in Tasks : u = web[c].task
  BY <1>1 DEF HttpInv, WebInv
<1>3. PICK view : view = web[c].view
  OBVIOUS
<1>4. \A t \in Tasks : seen'[c][t] = seen[c][t] \/ (t = u /\ seen'[c][t] = view)
  <2>1. seen' = [seen EXCEPT ![c] = [seen[c] EXCEPT ![u] = view]] \/ seen' = seen
    BY <1>2, <1>3 DEF AnswerStatus
  <2>2. seen \in [Clients -> [Tasks -> Task \cup {NoRow}]]
    BY DEF HttpInv, HttpTypeOK
  <2>3. DOMAIN seen = Clients /\ DOMAIN seen[c] = Tasks
    BY <2>2
  <2>4. QED
    BY <2>1, <2>3
<1>5. /\ Whole(view)
      /\ view.status = "done" => table[u] = view
      /\ seen[c][u].status = "done" => view = seen[c][u]
  BY <1>1, <1>2, <1>3 DEF SeenInv, ViewIsTrue
<1>6. SeenIsTrue(c)'
  BY <1>1, <1>4, <1>5 DEF SeenInv, SeenIsTrue, Whole
<1>7. ViewIsTrue(c)'
  BY <1>1 DEF ViewIsTrue
<1>8. QED
  BY <1>4, <1>5, <1>6, <1>7

LEMMA SeenStep ==
    ASSUME ExclusiveInv, HttpInv, SeenInv, [HttpNext]_<<vars, httpVars>>
    PROVE  /\ SeenInv'
           /\ \A c \in Clients, t \in Tasks :
                 seen[c][t].status = "done" => seen'[c][t] = seen[c][t]
<1>1. [Next]_vars
  BY HttpStepSimulates DEF HttpInv
<1>2. SUFFICES ASSUME NEW c \in Clients
               PROVE  /\ SeenIsTrue(c)' /\ ViewIsTrue(c)'
                      /\ \A t \in Tasks : seen[c][t].status = "done" => seen'[c][t] = seen[c][t]
  BY DEF SeenInv
<1>3. CASE GetTaskStatus(c)
  BY <1>2, <1>3, ReadIsTrue DEF GetTaskStatus
<1>4. CASE AnswerStatus(c)
  BY <1>2, <1>4, AnswerIsTrue
<1>5. CASE ~GetTaskStatus(c) /\ ~AnswerStatus(c)
  <2>1. ASSUME NEW k \in Clients, GetTaskStatus(k) \/ AnswerStatus(k), k # c
        PROVE  seen'[c] = seen[c] /\ web'[c] = web[c]
    BY <2>1 DEF GetTaskStatus, AnswerStatus, Answer, HttpInv, HttpTypeOK
  <2>2. ASSUME NEW k \in Clients, Receives(k) \/ RunCreate(k) \/ AnswerCreate(k) \/ Killed(k)
        PROVE  UNCHANGED seen /\ (web'[c] = web[c] \/ web'[c].pc # "encode")
    <3>1. UNCHANGED seen
      BY <2>2 DEF Receives, RunCreate, AnswerCreate, Killed, httpVars
    <3>2. \E request : web' = [web EXCEPT ![k] = request] /\ request.pc # "encode"
      <4>1. ASSUME RunCreate(k)
            PROVE  web' = [web EXCEPT ![k] = web[k]] /\ web[k].pc # "encode"
        BY <4>1 DEF RunCreate, httpVars, HttpInv, HttpTypeOK
      <4>2. ASSUME NEW sent, NEW logged, Answer(k, sent, logged)
            PROVE  web' = [web EXCEPT ![k] = Quiet] /\ Quiet.pc # "encode"
        BY <4>2 DEF Answer, Quiet
      <4>3. ASSUME NEW pc \in {"create", "read"}, NEW id \in Ids, Enter(k, pc, id)
            PROVE  \E request : web' = [web EXCEPT ![k] = request] /\ request.pc # "encode"
        <5>1. [Quiet EXCEPT !.pc = pc, !.task = id].pc # "encode"
          BY DEF Quiet
        <5>2. QED
          BY <4>3, <5>1 DEF Enter
      <4>4. ASSUME ReceivePost(k) \/ ReceiveGet(k)
            PROVE  \E request : web' = [web EXCEPT ![k] = request] /\ request.pc # "encode"
        BY <4>2, <4>3, <4>4 DEF ReceivePost, ReceiveGet, Ids
      <4>5. QED
        BY <2>2, <4>1, <4>2, <4>4 DEF Receives, AnswerCreate, Killed
    <3>3. QED
      BY <3>1, <3>2 DEF HttpInv, HttpTypeOK
  <2>3. seen'[c] = seen[c] /\ (web'[c] = web[c] \/ web'[c].pc # "encode")
    BY <1>5, <2>1, <2>2 DEF HttpNext, httpVars
  <2>4. QED
    BY <1>1, <1>2, <2>3, SeenStays
<1>6. QED
  BY <1>2, <1>3, <1>4, <1>5

LEMMA SeenInvariant == ASSUME Exclusive PROVE HttpSpec => []SeenInv
<1>1. ExclusiveInv /\ HttpInv /\ SeenInv /\ [HttpNext]_<<vars, httpVars>> => SeenInv'
  BY SeenStep
<1>2. QED
  BY <1>1, SeenInvInit, HttpInvariant, HttpImplementsRequester, ExclusiveInvariant, PTL DEF HttpSpec

(***************************************************************************)
(* An answer shows a response exactly if it shows the status done,         *)
(* although the row may have changed between the read and the answer.      *)
(***************************************************************************)
THEOREM AnswersAreAlwaysWhole == ASSUME Exclusive PROVE HttpSpec => []AnswersAreWhole
<1>1. SeenInv => AnswersAreWhole
  BY DEF SeenInv, SeenIsTrue, Whole, AnswersAreWhole
<1>2. QED
  BY <1>1, SeenInvariant, PTL

(***************************************************************************)
(* A client that was told that a task is done is told the same ever after. *)
(***************************************************************************)
THEOREM DoneAlwaysStaysDone == ASSUME Exclusive PROVE HttpSpec => DoneStaysDone
<1>1. ExclusiveInv /\ HttpInv /\ SeenInv /\ [HttpNext]_<<vars, httpVars>>
        => [\A c \in Clients, t \in Tasks :
               seen[c][t].status = "done" => seen'[c][t] = seen[c][t]]_<<vars, httpVars>>
  BY SeenStep
<1>2. QED
  BY <1>1, SeenInvariant, HttpInvariant, HttpImplementsRequester, ExclusiveInvariant, PTL
     DEF HttpSpec, DoneStaysDone
=============================================================================
