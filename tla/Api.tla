--------------------------------- MODULE Api ---------------------------------
(***************************************************************************)
(* The API server's write path: the CreateTask handler                     *)
(* (internal/api/tasks.go), one concurrent call per task.  A call does     *)
(* three things against two services and no transaction spans them: it     *)
(* inserts the row, sends the row's id to the queue and, when the send     *)
(* failed, marks the row with status error.                                *)
(*                                                                         *)
(* GetTaskStatus and GetHealthStatus change no state; what they can answer *)
(* is the value of table.                                                  *)
(***************************************************************************)
EXTENDS FaultModel, Repository, Queue

VARIABLES
    call,         \* the handler of each task: the call it makes next, or its end
    expired       \* the calls whose context is done: timeout or client gone

apiVars == <<call, expired>>

(***************************************************************************)
(* "insert", "send" and "compensate" are the three calls in the handler,   *)
(* "accepted" and "rejected" its two ends, and "died" is the end of a      *)
(* handler whose process was killed before it answered.                    *)
(***************************************************************************)
CallStates == {"insert", "send", "compensate", "accepted", "rejected", "died"}

ApiTypeOK ==
    /\ call \in [Tasks -> CallStates]
    /\ expired \in SUBSET Tasks

ApiInit ==
    /\ call = [t \in Tasks |-> "insert"]
    /\ expired = {}

Goto(t, s) == call' = [call EXCEPT ![t] = s]

\* Once its context is done, every further call a handler makes fails at once.
CanSucceed(t) == t \notin expired

\* A statement that was sent fails with no answer, and may have been executed.
DbAnswerLost(t) == CanSucceed(t) /\ "db" \in Faults

-----------------------------------------------------------------------------

\* Mutant: the send does not wait for the insert's error.
CreateTaskInsertUnchecked(t) ==
    /\ call[t] = "insert"
    /\ \/ CanSucceed(t) /\ CreateTaskRow(t)
       \/ "db" \in Faults /\ UNCHANGED table
    /\ Goto(t, "send")
    /\ UNCHANGED <<queue, expired>>

(***************************************************************************)
(* taskRepository.CreateTask: on any error the handler answers an error    *)
(* and sends nothing, although the row may have been inserted.             *)
(***************************************************************************)
CreateTaskInsert(t) ==
    /\ call[t] = "insert"
    /\ \/ CanSucceed(t) /\ CreateTaskRow(t) /\ Goto(t, "send")
       \/ DbAnswerLost(t) /\ CreateTaskRow(t) /\ Goto(t, "rejected")
       \/ ("db" \in Faults \/ ~CanSucceed(t)) /\ UNCHANGED table /\ Goto(t, "rejected")
    /\ UNCHANGED <<queue, expired>>

\* Mutant: an error of SendMessage is not looked at.
CreateTaskSendUnchecked(t) ==
    /\ call[t] = "send"
    /\ \/ CanSucceed(t) /\ \E m \in Msgs \ ForeignMsgs : SendMessage(t, {m})
       \/ "send" \in Faults /\ UNCHANGED queue
    /\ Goto(t, "accepted")
    /\ UNCHANGED <<table, expired>>

\* Mutant: the context is checked after the send, and its end taken for an error.
CreateTaskSendChecksContext(t) ==
    /\ call[t] = "send"
    /\ \/ \E m \in Msgs \ ForeignMsgs : SendMessage(t, {m})
       \/ ("send" \in Faults \/ ~CanSucceed(t)) /\ UNCHANGED queue
    /\ Goto(t, IF CanSucceed(t) THEN "accepted" ELSE "compensate")
    /\ UNCHANGED <<table, expired>>

(***************************************************************************)
(* taskSender.SendMessage(task.ID).  It succeeds with one message, or with *)
(* two when the SDK repeated the request ("duplicate"); or it fails, with  *)
(* the message sent ("sendlost") or not ("send", or the context is done).  *)
(***************************************************************************)
CreateTaskSend(t) ==
    /\ call[t] = "send"
    /\ \/ /\ CanSucceed(t)
          /\ \E m, n \in Msgs \ ForeignMsgs :
                /\ m = n \/ "duplicate" \in Faults
                /\ SendMessage(t, {m, n})
          /\ Goto(t, "accepted")
       \/ /\ CanSucceed(t)
          /\ "sendlost" \in Faults
          /\ \E m \in Msgs \ ForeignMsgs : SendMessage(t, {m})
          /\ Goto(t, "compensate")
       \/ /\ "send" \in Faults \/ ~CanSucceed(t)
          /\ UNCHANGED queue
          /\ Goto(t, "compensate")
    /\ UNCHANGED <<table, expired>>

(***************************************************************************)
(* The failed send's UpdateTask(status error), on the same context as the  *)
(* send: when that context is what failed the send, this fails too.        *)
(* Whatever it returns, the handler answers an error.                      *)
(***************************************************************************)
CreateTaskCompensate(t) ==
    /\ call[t] = "compensate"
    /\ \/ CanSucceed(t) /\ UpdateTask(t, StatusOnly("error"))
       \/ ("db" \in Faults \/ ~CanSucceed(t)) /\ UNCHANGED table
    /\ Goto(t, "rejected")
    /\ UNCHANGED <<queue, expired>>

(***************************************************************************)
(* The 10 s timeout of the handler, or the client closing its connection,  *)
(* ends the context ("timeout").                                           *)
(***************************************************************************)
ContextDone(t) ==
    /\ "timeout" \in Faults
    /\ call[t] \in {"insert", "send", "compensate"}
    /\ expired' = expired \cup {t}
    /\ UNCHANGED <<table, queue, call>>

(***************************************************************************)
(* The API process is killed between two calls of the handler ("apicrash").*)
(* Handlers share no memory, so they are killed one at a time.             *)
(***************************************************************************)
CallDies(t) ==
    /\ "apicrash" \in Faults
    /\ call[t] \in {"send", "compensate"}
    /\ Goto(t, "died")
    /\ UNCHANGED <<table, queue, expired>>

CreateTask(t) == CreateTaskInsert(t) \/ CreateTaskSend(t) \/ CreateTaskCompensate(t)

ApiNext == \E t \in Tasks : CreateTask(t) \/ ContextDone(t) \/ CallDies(t)
=============================================================================
