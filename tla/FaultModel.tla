---- MODULE FaultModel ----
\* Who may fail the two programs, and how.  A configuration chooses from these
\* faults; each of them enables a disjunct of the action named beside it.

CONSTANT Faults

DatabaseFaults ==
    {"db"}          \* every statement: it fails, executed or not

QueueFaults ==
    {"send",        \* CreateTaskSend: SendMessage fails and sends nothing
     "sendlost",    \* CreateTaskSend: SendMessage fails, and yet it has sent the message
     "duplicate",   \* CreateTaskSend: SendMessage sends the message twice
     "receive",     \* Receive: the answer of ReceiveMessage is lost
     "delete",      \* TryDelete: DeleteMessage fails
     "late",        \* VisibilityTimeout: a message becomes visible while it is held
     "foreign"}     \* ForeignSend: someone else sends to the queue

ProcessFaults ==
    {"apicrash",    \* CallDies: the API server is killed
     "crash",       \* Exit: a requester is killed
     "stop"}        \* Stop: a requester gets SIGTERM

NetworkFaults ==
    {"timeout",     \* ContextDone: the context of an API call is done
     "answer",      \* AnswerCreate, AnswerStatus: a client does not get the answer
     "remote"}      \* ProcessTaskRequest: the request to the third party fails

AllFaults == DatabaseFaults \cup QueueFaults \cup ProcessFaults \cup NetworkFaults

ASSUME FaultsAssumption == Faults \subseteq AllFaults
====
