----------------------------- MODULE Repository -----------------------------
(***************************************************************************)
(* The tasks table and the statements the code runs on it                  *)
(* (internal/repository/tasks.go, internal/models/tasks.go,                *)
(* migrations/00001_initial.sql).                                          *)
(*                                                                         *)
(* A row is abstracted to the two things the rest of the system tells      *)
(* apart: its status and its three response columns, which the code always *)
(* writes together and which are therefore one value here.  Method, URL,   *)
(* headers and body never change after the insert; what matters of them,   *)
(* whether an http.Request can be built from them, is the constant         *)
(* Malformed of module Worker.                                             *)
(***************************************************************************)

CONSTANTS
    Tasks,        \* the ids gen_random_uuid() can give to rows
    Responses,    \* what a third-party service can answer (code, headers, length)
    NoResponse    \* the response columns are NULL; the input fields are nil

ASSUME NoResponseAssumption == NoResponse \notin Responses

VARIABLE table    \* the tasks table: a row for every id, NoRow while there is none

TaskStatus == {"new", "in_process", "done", "error"}

Task == [status : TaskStatus, response : Responses \cup {NoResponse}]

NoRow == [status |-> "absent", response |-> NoResponse]

Exists(t) == table[t] # NoRow

RepositoryTypeOK == table \in [Tasks -> Task \cup {NoRow}]

RepositoryInit == table = [t \in Tasks |-> NoRow]

-----------------------------------------------------------------------------

(***************************************************************************)
(* INSERT ... RETURNING id.  Only status, method, url, headers and body    *)
(* are set, so the response columns are NULL.                              *)
(***************************************************************************)
CreateTaskRow(t) ==
    table' = [table EXCEPT ![t] = [status |-> "new", response |-> NoResponse]]

(***************************************************************************)
(* UpdateTaskInput.  The code never leaves Status nil, and gives the three *)
(* response fields either all or none.                                     *)
(***************************************************************************)
UpdateTaskInput == [status : TaskStatus, response : Responses \cup {NoResponse}]

StatusOnly(s) == [status |-> s, response |-> NoResponse]

\* Mutant: a nil response field is written too, and clears the column.
SetUpdateFieldsWritesNil(row, input) == input

(***************************************************************************)
(* setUpdateFields: a nil field of the input is not part of the SET        *)
(* clause, so a response that was once stored is never cleared.            *)
(***************************************************************************)
SetUpdateFields(row, input) ==
    [status   |-> input.status,
     response |-> IF input.response = NoResponse THEN row.response ELSE input.response]

(***************************************************************************)
(* UPDATE tasks SET ... WHERE id = t.  The statement has no condition on   *)
(* the status it replaces, and matching no row is not an error.            *)
(***************************************************************************)
UpdateTask(t, input) ==
    table' = [table EXCEPT ![t] = IF @ = NoRow THEN NoRow ELSE SetUpdateFields(@, input)]
=============================================================================
