---------------------------- MODULE TaskLifecycle ----------------------------
(***************************************************************************)
(* What the service promises about a task, seen through GetTaskStatus and  *)
(* by the third party, and nothing of how: no queue, no messages, no       *)
(* processes.  A task that was created is attempted a limited number of    *)
(* times; an attempt may fail, and the task then shows error until it is   *)
(* attempted again; a response is stored together with the status done,    *)
(* only after an attempt, and then nothing about the task changes again.   *)
(***************************************************************************)
EXTENDS Naturals

CONSTANTS
    Tasks,
    Responses,
    NoResponse,
    Limit,        \* how often a task may be attempted ...
    Unlimited     \* ... unless this is TRUE

VARIABLES
    row,          \* what GetTaskStatus answers
    attempts      \* how many requests the third party may have received

Absent == [status |-> "absent", response |-> NoResponse]

Open(t) == row[t].status \in {"new", "in_process", "error"}

Init ==
    /\ row = [t \in Tasks |-> Absent]
    /\ attempts = [t \in Tasks |-> 0]

Create(t) ==
    /\ row[t] = Absent
    /\ row' = [row EXCEPT ![t] = [status |-> "new", response |-> NoResponse]]
    /\ UNCHANGED attempts

Begin(t) ==
    /\ Open(t)
    /\ row' = [row EXCEPT ![t].status = "in_process"]
    /\ UNCHANGED attempts

Attempt(t) ==
    /\ row[t].status = "in_process"
    /\ Unlimited \/ attempts[t] < Limit
    /\ attempts' = [attempts EXCEPT ![t] = @ + 1]
    /\ UNCHANGED row

Fail(t) ==
    /\ Open(t)
    /\ row' = [row EXCEPT ![t].status = "error"]
    /\ UNCHANGED attempts

Finish(t) ==
    /\ row[t].status = "in_process"
    /\ attempts[t] > 0
    /\ \E r \in Responses : row' = [row EXCEPT ![t] = [status |-> "done", response |-> r]]
    /\ UNCHANGED attempts

Next == \E t \in Tasks : Create(t) \/ Begin(t) \/ Attempt(t) \/ Fail(t) \/ Finish(t)

Spec == Init /\ [][Next]_<<row, attempts>>
=============================================================================
