# A TLA+ model of requester

`requester` accepts descriptions of HTTP requests ("tasks") over an API, stores
them in PostgreSQL, sends their ids through an SQS queue, and makes the requests
from separate worker processes, which store what the third party answered.
This directory models the path of a task through the two programs, the pool of
goroutines that works on tasks, the data of a task on its way, and how the
programs start and stop; it checks the models with TLC on small instances and
proves the main safety properties with TLAPS.

## 1. Inventory

| Component | Source | State | Operations |
|---|---|---|---|
| API task handlers | `internal/api/tasks.go` | the context of each call | `CreateTask`, `GetTaskStatus` |
| HTTP layer | `internal/api/handler.go`, `health.go`, `internal/api/oas/` (generated) | none between requests | routing, decoding, validation, encoding, error handler, logging and panic middleware, `GetHealthStatus` |
| Task repository | `internal/repository/tasks.go`, `internal/models/tasks.go`, `migrations/` | the table `tasks` | `CreateTask` (insert), `GetTask`, `UpdateTask` (partial, unconditional) |
| Queue client | `internal/queue/sqs.go` | none; the service keeps messages, receive counts, visibility | `SendMessage`, `GetMessages`, `DecodeMessage` (limit, delete), `DeleteMessage`, `GetQueueURL`, `CreateQueue` |
| Worker pool | `internal/requester/worker.go` | one poller, its batch, an unbuffered channel, `w.workers` listener goroutines | `WatchMessages`, `receiveMessages`, `listenMessages`, `handleMessage`, `handlePanic` |
| Task processor | `internal/requester/processor.go` | its copy of the row | `ProcessTask`, `updateTask`, `makeRequest` |
| Task payload | `internal/api/oas/` (decoder, schemas, encoder), `setInsertValues`, `makeRequest`, `GetTaskStatus` | the columns of a row, a request, a response | decode, store, build a request, store a response, answer |
| Programs | `cmd/api`, `cmd/requester` | the database pool, the queue's URL, the second goroutine, signals | configuration, connection, `GetQueueURL`/`CreateQueue`, construction, SIGTERM, `Shutdown`, the deferred calls |
| Migration tool | `cmd/migrate` | none | runs goose by hand |
| Configuration | `internal/*/config.go`, `internal/repository/db.go` | none | read the environment, build clients |
| Logging | `internal/logger` | none | build a logger |

How they interact. The two programs never call each other. `CreateTask` inserts a
row, sends the row's id to the queue and, if the send failed, sets the row to
`error`. Each requester process has one goroutine that receives up to `workers`
messages and hands them one by one over the channel to its listeners. A listener
decodes the message (dropping it above `MaxMessageAttempts` receives), reads the
row, sets it to `in_process`, makes the request, sets it to `done` with the
response and deletes the message. On any error it leaves the message, which the
queue shows again after the visibility timeout. A deferred update sets `error`
on every way out of `ProcessTask` unless the listener's copy says `done`.

What is hard about it: no transaction spans the row and the message, every call
can fail with or without having had its effect, the queue delivers at least
once, `UpdateTask` has no condition on the status it replaces, the guard against
overwriting `done` looks at a copy in memory, a panic costs a goroutine, the
processes can stop between any two calls, several of them start at once and race
for the queue, and a context may be cancelled while goroutines wait for each
other. `PROJECT.json` lists each of these
hazards at the line where it bites.

What makes each component correct:

* handlers: a message never exists without its row; a task whose id the client
  was given is never lost; a task that was refused is never run;
* repository: a stored response is never cleared; `done` is final;
* queue client: at most `MaxMessageAttempts` requests per message; a message is
  removed only when it was answered or used up;
* worker pool: a delivery reaches exactly one listener; panics cost a bounded
  number of listeners; every message leaves the queue, also after crashes; when
  the context is cancelled, `WatchMessages` returns and leaves nothing running;
* processor: one listener per task; a task whose message is gone is settled;
* payload: what conforms to `openapi.yml` is accepted and nothing else; the third
  party gets the request that was posted (of the body: what `json.Marshal` makes of it); a client is shown the whole response;
* programs: what serves has a queue and an open pool; a server that stops leaves
  no request behind; a process that is told to stop ends, and one that is
  started again serves.

## 2. Modules

| Module | Models |
|---|---|
| `FaultModel` | the faults that may happen (`Faults`), by who fails: the database, the queue, a process, the network; each one switches on a disjunct of one action |
| `Repository` | the table: status and response of each row; `CreateTaskRow`, `SetUpdateFields`, `UpdateTask` |
| `Queue` | the queue service and the checks of `DecodeMessage` |
| `Api` | `CreateTask`, one action per call it makes, its context, the death of its process |
| `Worker` | processes, pollers, listeners; one action per call of `handleMessage` and `ProcessTask` |
| `TaskLifecycle` | abstract: what a client and the third party see of a task |
| `Requester` | the composition, fairness, every property, the refinement mapping to `TaskLifecycle` |
| `Recovery` | the composition when failures end at one receive of each message; extends `Requester` |
| `Pool` | abstract: what a process's listeners promise about the messages it receives |
| `WatchMessages` | the worker pool in detail and in isolation: goroutines, the channel's two `select`s, the `WaitGroup`, the context, any number of workers; extends `Queue` |
| `HttpApi` | the server around the handlers: routing, `GetTaskStatus`, the answers and the logged status, for concurrent clients; extends `Requester` |
| `Payload` | one task's data: decoder, validation, columns, request, response, status |
| `Startup` | the life of the processes: configuration, connection, queue URL, construction, serving, shutdown |
| `RequesterInvariants` | the inductive invariants of the proofs about `Requester`: `SafetyInv`, `DeliveriesInv`, `ExclusiveInv` |
| `MCRequester`, `MCHttpApi`, `MCRecovery`, `MCWatchMessages`, `MCPayload`, `MCStartup` | the sets of faults, the values and the symmetry for TLC |
| `QueueProofs` | facts about the queue that the other proofs share |
| `RequesterSafetyProofs` | type correctness, the inductive safety invariant and what follows from it |
| `RequesterDeliveryProofs` | single delivery, the bounds on requests and on lost listeners; `Requester` implements `Pool` |
| `RequesterExclusiveProofs` | what holds while a message is with one worker at a time; `Requester` implements `TaskLifecycle` |
| `HttpApiProofs` | `HttpApi` implements `Requester`; what clients may rely on |
| `PayloadProofs` | the invariant of `Payload` and what follows from it |
| `WatchMessagesProofs` | the invariant of `WatchMessages`; it implements `Pool` |
| `StartupProofs` | the invariant of `Startup` and what follows from it |

State and code:

| Variable | Code |
|---|---|
| `table[t]` | the row of task `t`: its `status`, and its three response columns as one value (`updateTask`'s callers set all three or none) |
| `queue[m]` | a message of the service: `none`, `visible`, `inflight` or `deleted`, its body, its `ApproximateReceiveCount` |
| `call[t]` | the program counter of the `CreateTask` handler that creates `t` |
| `expired` | handlers whose context is done |
| `proc[i]` | a requester process: `up`, `closing` (between `dbPool.Close` and the end of `main`), `down` |
| `batch[i]` | what the poller received and has not handed over |
| `listener[l]` | a listener goroutine: its program counter, the message it holds, `task.Status` in its copy, how `ProcessTask` is being left, the response |
| `requested` | history: the deliveries for which `client.Do` was called |
| `web[c]` | the goroutine that serves client `c`: where it is, the task, and, in `GetTaskStatus`, the row it read |
| `reply[c]` | the status last sent to `c`, the one `loggingMiddleware` logs for it, and the task it was about |
| `known[c]`, `seen[c][t]` | history: the ids `c` was given; what `c` was last answered about `t` |

`WatchMessages`:

| Variable | Code |
|---|---|
| `cancelled` | the processes whose context is done |
| `poller[p]` | where the goroutine in `WatchMessages` is, from the loop that starts the listeners to `wg.Wait()` and the return |
| `output[p]` | what `receiveMessages` returned and the loop has not sent |
| `listener[<<p, n>>]` | the n-th goroutine of `listenMessages`: not started, in its `select`, in `handleMessage`, returned, or ended by a panic; and its message |
| `wg[p]` | the counter of the `sync.WaitGroup` |

`Payload`:

| Variable | Code |
|---|---|
| `media`, `frame`, `posted` | the request: its media type, what is wrong with its body, the members decoded so far, in order |
| `input` | `CreateTaskInput` and the bits of the required fields |
| `row` | the row, with `NULL` told apart from empty |
| `request`, `response`, `status` | what `client.Do` is given, what comes back, what `GetTaskStatus` answers |
| `stage` | how far the task is, or the status it was refused with |

`Startup`:

| Variable | Code |
|---|---|
| `main[p]` | where the main goroutine is, by the call it makes |
| `pool[p]`, `url[p]` | its database pool; whether it has the queue's URL |
| `service[p]` | the goroutine of `ListenAndServe` or of `WatchMessages` |
| `calls[p]` | requests being handled, or messages being processed |
| `queueExists` | the service has the queue |
| `faults` | how often something went wrong |

One action is one call to the database, the queue or the third party, together
with the local code up to the next call. Two goroutines share no memory but the
channel, so every interleaving that can be told apart is one of these actions.
A call that fails has up to two disjuncts: it failed and had no effect, or it
failed and had its effect. The deferred update of `ProcessTask` and what
`handleMessage` does with the returned error are one action
(`ProcessTaskDeferred`), because nothing but the update itself lies between them.

A delivery is a record of a message and its receive count. The count doubles as
the receipt handle: a delete with an older count may be accepted and do nothing.

In `HttpApi` everything the server does with the request alone (routing,
decoding, validation) is one step, which answers a refused request; the calls of
`CreateTask`, the read of `GetTaskStatus`, and the answer are steps of their own.
Which bodies are refused is the subject of `Payload`: there the decoder reads one
member at a time, in any order, with repeated, unknown and ill-typed ones, and
the required fields are the bit mask of the generated code. A client has one
request at a time; any number of requests in a row. Nobody but the API sends to
the queue in `HttpNext`.

`WatchMessages` and `Worker` model the same goroutines at two grains. `Worker`
needs the calls of `handleMessage` and leaves out what only the end of a context
would show; `WatchMessages` has the goroutines, the channel and the wait group in
full and reduces `handleMessage` to its outcome (deleted, left, panicked). Both are
shown to implement `Pool`: in `Requester`, where processes crash and restart, and
in `WatchMessages`, where nothing but the context ends a pool.

In `Startup`, `Refused` names what the environment of a process makes fail: a
variable that is missing or does not parse, or `WORKERS` above 10. `ListenAndServe`
runs beside main, and may begin only after `Shutdown` was called.

Abstractions: ids, messages, processes and listeners are model values; outside `Payload`,
method, URL, headers and body of a task are abstracted to whether `http.NewRequest`
accepts them (`Malformed`); logging, durations and metrics are left out; time is
left out, so a timeout may happen at any point at which the code waits.

## 3. What the runs check

The deadlock check is on in `startup`, where there is always something to start.
It is off elsewhere: a system whose messages are all gone with no client
calling, a pool that has returned and a task whose client asked for it have
nothing left to do.

| Run | Module | Instance | Faults | Shows |
|---|---|---|---|---|
| `faults` | `MCRequester` | 1 task, 2 messages, 2 processes of 1 listener, 1 attempt, 3 receives | all | `TypeOK`, `SafetyInv`, `MessagesHaveRows`, `DeletedMeansAnswered`, `AcceptedNotLost`, `RequestsBounded`, `DeliveredOnce` |
| `exclusive` | `MCRequester` | 2 tasks, 2 messages, 2 processes of 2 listeners, 2 attempts, 3 receives | all but `late`, `duplicate`, `sendlost` | `OneListenerPerTask`, `DeletedMeansDone`, `RejectedNeverRuns`, `DoneIsFinal`, `ImplementsLifecycle` |
| `settles` | `MCRequester` | 2 tasks, one malformed, 3 messages, one foreign, 3 listeners, 2 attempts, 3 receives | failing requests and sends, timeouts, API crashes, foreign messages | `PoolLossBounded`, `AcceptedIsSettled`, `QueueDrains` |
| `drains` | `MCRecovery` | 1 task, its message and a foreign one, 2 listeners, 1 attempt, 3 receives | failing calls, crashes and stops of the requester, messages visible too early, foreign messages | `RecoversAndDrains`, `ImplementsPool` |
| `watch` | `MCWatchMessages` | 2 messages, one of which panics, 2 receives of each, a process of 2 workers and one of 0 | failing receives, lost answers, panics, cancellation | `WatchInv`, `ReturnedIsQuiet`, `CancelReturns`, `KeepsPolling`, `NoneIsStranded`, `ImplementsPool` |
| `http` | `MCHttpApi` | 1 task, 1 message, 1 listener, 2 attempts, 2 receives, 2 clients | `db`, `timeout`, `answer`, crashes of both programs | `HttpTypeOK`, `KnownIsFound`, `AnswersAreWhole`, `DoneStaysDone` |
| `payload` | `MCPayload` | objects of up to 4 members, two good methods and URLs and a bad one of each, every frame and media type | a task no request can be built from | `SchemaDecides`, `RequestIsPosted`, `StatusIsResponse` |
| `startup` | `MCStartup` | an API server, a requester, one with too many workers, one without the queue's configuration; 2 calls at a time | 2 faults: failing database, queue, listen; lost answers; signals and kills at any point | `StartupInv`, `ServesTheQueue`, `PoolOutlivesHandlers`, `GracefulStop`, `StopEnds`, `RestartServes` |
| `overlap` | `MCRequester` | 1 task, 2 messages, 3 listeners, 3 attempts | `duplicate` | `DoneIsFinal` is violated |
| `pool` | `MCRequester` | 2 tasks, one malformed, 3 listeners, 3 attempts (the defaults) | none | `AcceptedIsSettled` is violated |
| `stale_copy` | `MCRequester` | 1 task, 1 listener | `db` | `DoneCopyIsDone` is violated |
| `http_log` | `MCHttpApi` | 1 task, 1 client | `answer` | `LoggedIsSent` is violated |

Bounds. `MaxReceives` bounds how often one message is received. In `settles` it
is one more than `MaxMessageAttempts`, and there no fault can make a message
survive the receive that is over the limit, so the bound cuts nothing off. In
`faults` it is two more, so that both a redelivery of a message that is over the
limit and a failed delete of it happen. In `drains` faults could go on for ever;
there the last receive the bound leaves room for is one that succeeds
(`LastReceiveSucceeds`), so that a behaviour does not end at the bound but at the
end of the faults, after two receives that went wrong in every way. Two messages
per task are what one repeated send makes. Two processes, or two listeners, are
enough for every pair of steps that interferes; three listeners are the default
of `WORKERS` and what the findings about the pool need. One task is enough where
tasks do not share anything but listeners; `exclusive` and `settles` have two.

In `watch` two listeners and two messages make a batch that is half handed over,
a listener that waits while the other works, and one that panics while the other
goes on; the second receive brings a message back while it is still held. The
process without listeners is there because only a second process can show that
it takes nothing away. In `payload` four members are the two required ones and
two more, which may repeat any; the values are two methods and two URLs, of
which the last one posted has to count, two spellings of one header, an
empty and two full objects, and a length that is negative, zero and positive. In
`startup` two faults are one in the middle of another process's start and one
more while the first is repaired; two calls are one that ends and one that is
still there when `Shutdown` looks.

In `http` two receives of the message are enough: the second attempt is what
can take a row back from `error` to `in_process` and to `done`, and what could
take it back from `done`. Two clients read and create at the same time. A
client's `POST` waits for a task that nobody has claimed, so the number of
tasks bounds the accepted requests, not the refused ones or the reads.

Symmetry is used in the runs that check safety only (`faults`, `exclusive`,
`http`), over tasks, messages, processes, listeners and clients, none of
which any definition tells apart; never with liveness.

Which faults which property tolerates:

* every fault: `KnownIsFound`, `MessagesHaveRows`, `DeletedMeansAnswered`, `AcceptedNotLost`,
  `RequestsBounded`, `DeliveredOnce`, `PoolLossBounded`;
* every fault but `sendlost` (a send that fails has added its message all the same):
  `RejectedNeverRuns`, as its proof shows. `exclusive` checks it without `late` and `duplicate`;
* every fault but `late` (a message becomes visible while a live process holds
  it), `duplicate` and `sendlost` (more messages than the handler knows of):
  `OneListenerPerTask`, `DeletedMeansDone`, `DoneIsFinal`, `ImplementsLifecycle`,
  and with them `DoneStaysDone` and `AnswersAreWhole`, which are what `DoneIsFinal` means to a client. The code has no lock, no transaction and no condition
  in its UPDATE; these properties rest on the visibility timeout alone, and
  `overlap` shows `DoneIsFinal` failing without it;
* liveness in `settles`: failing requests and sends, and crashes of the API
  server; in `drains`, everything that can happen to a requester, as long as it
  ends and one process stays up; in `watch`, everything that can happen to a
  poller, except that a pool may lose all its listeners to panics; in `startup`,
  any fault and any number of restarts.

## 4. Fairness

`FairSpec` of `Requester` assumes weak fairness of the steps the code and the
services take without being asked:

* `HandlerRuns`: a `CreateTask` handler past its insert goes on; its calls return, at
  the latest when its 10 s context ends;
* `Polls`, `HandsOver`: `WatchMessages` is a loop without an exit as long as its
  context lives, and the channel hands a message over once a listener waits;
* `ListenerRuns`: each listener goroutine is scheduled and its calls return;
* `VisibilityTimeout`: the service shows a hidden message again.

Nothing is fair about a client calling the API, about a fault, or about a
process being started again. A database call has no deadline in the requester,
so `ListenerRuns` is an assumption on the database: it answers or fails.

`RecoverySpec` has the same fairness, without the steps that would make the last
receive of a message fail; `RecoversAndDrains` itself assumes that one process
stays up in the end, which is the operator's part. `WatchMessages` has weak
fairness of each goroutine as a whole, which is what the scheduler gives: the
choice between the ready cases of a `select` stays free, and nothing cancels a
context. `receiveMessages` returns since its context ends after 20 s. `Startup`
has weak fairness of the main goroutine, of the second one and of the end of a
call; nothing starts, signals or kills a process. `RestartServes` assumes of the
operator that a process that is down is started again.

## 5. Findings

* `overlap`: `updateTask` is documented as "Safe to call after task is done."
  That is true of one copy of the task. A listener that read the row before
  another one finished it overwrites `done` with `in_process`.
* `pool`: a task with a URL that `http.NewRequest` refuses makes `ProcessTask`
  panic on a nil response at every attempt. Each panic ends one listener for
  good; three attempts end the three listeners of a default process, and it
  stops processing anything while it looks alive.
* `stale_copy`: when the update to `done` fails, the copy in memory says `done`
  already and the deferred update to `error` is skipped: the row stays
  `in_process` until the message is delivered again.
* `http_log`: the wrapper that records the status of an answer keeps the last
  code passed to `WriteHeader`, while the client gets the first. When the body
  of an answer cannot be written, the log says 500 for an answer sent as 200.

## 6. What is proved

The theorems are for every finite set of messages and any tasks, processes,
listeners (at most ten per process, which `NewWorker` enforces), clients,
`MaxMessageAttempts` and `Debug`; those about `WatchMessages` and `Startup` are for
any processes, numbers of workers and environments, those about `Payload` for any
values and objects of any length. Nothing is assumed but the named assumptions
of the modules (`FaultsAssumption`, `NoResponseAssumption`, `QueueAssumption`,
`WorkerAssumption`, `RequesterAssumption`, `HttpAssumption`, `WatchAssumption`,
`PayloadAssumption`, `StartupAssumption`), which TLC evaluates in the runs, and, where it is said,
`Exclusive`. `MaxReceives`, `MaxCalls`, `MaxFaults` and `MaxMembers` are any numbers: a proof
does not depend on the bounds of the runs.

With every fault allowed:

* `TypeCorrect`: `[]TypeOK`, one step per action.
* `SafetyInvariant`: `[]SafetyInv`. The safety properties are not inductive. To
  see that a message is deleted only when its task was answered one has to know
  what a listener at `delete` knows: it came there over `outcome = "ok"`, hence
  over a successful update with a response, or it read `done` in the row, and
  rows that are done have a response (`RowInv`), because nothing ever clears
  one (`SetUpdateFields`). `ListenerInv` says this for every program counter,
  `HandlerInv` the same for the handlers, `DeliveryOK` that deliveries stay
  those of sent messages with counts not above the message's. `Grows` collects
  what no step ever undoes: rows exist, responses stay, messages keep their
  body, counts do not fall.
* `MessagesAlwaysHaveRows`, `DeletedAlwaysAnswered`, `AcceptedNeverLost`: from it.
* `DeliveriesInvariant`: `[](SafetyInv /\ DeliveriesInv)`. A receive creates deliveries with a
  count above every older one of the message (`ReceivedAreNew`), so they are
  held by nobody; every other step moves a delivery or drops it.
* `AlwaysDeliveredOnce`: from it.
* `RequestsAlwaysBounded`: the deliveries for which a request was made inject
  into `1..MaxMessageAttempts` by their counts.
* `PoolLossAlwaysBounded`: the dead listeners of a process inject into the
  malformed messages times `1..MaxMessageAttempts` by the delivery each one held.
* `RequesterIsPool`: `Spec => ImplementsPool`, from `SafetyInv /\ DeliveriesInv`. A receive maps to `Take`, or
  to a stutter when its answer is lost; the hand-over to `Give`; a listener's step to `Complete`,
  to `LoseListener` when it panics, or to a stutter; the end of a process to `Kill`. A
  message is handed over only to a listener that waits, so fewer than all run or
  are dead (`RoomForOne`).

Under `Exclusive` (`Faults \cap {"late", "duplicate", "sendlost"} = {}`: no visibility
timeout ends while a process has the message, and a send adds one message or
fails; all other faults are allowed):

* `ExclusiveInvariant`: `[]ExclusiveInv`. The properties below say that nobody writes to a
  row behind the back of the one who works on it, and no lock sees to that. What
  does is a chain: a send happens once, so a task has one message
  (`OneMessagePerTask`), sent by a call that is over (`SentWasAccepted`) and will
  not write any more; a delivery that a process has is the last one of its
  message, which is hidden (`HeldIsLatest`), so at most one listener works on a
  task (`OneHolder`, `OneWorker`). Every write to a row is therefore that listener's or
  that of a handler whose task has no message (`WhoWrites`), and what a listener read in its
  first call holds until its last (`KnowsRow`): at the update to `done` the row is
  `in_process`, at the delete it is `done`. Each conjunct needs the others, which is
  why they are one invariant. TLC checked it as an invariant with the constants
  of `exclusive` (107,593 states), and with a malformed task and a foreign message
  (1,754,168 states), before it was proved.
* `AlwaysOneListenerPerTask`, `DeletedIsAlwaysDone`: from it.
* `RejectedIsNeverRun`: from `SafetyInv` and `SentWasAccepted` alone, which are inductive
  together as soon as a send that fails adds nothing: `late` and `duplicate` may happen.
  With `sendlost` it is false, as the code is: the client was told of an error, and the task runs.
* `DoneIsAlwaysFinal`: an action property, from `DoneStays`: of a row that is done the handler
  is through, and no listener is at an update that its copy does not stop.
* `RequesterIsLifecycle`: `Spec => ImplementsLifecycle`. The update to `in_process` maps to
  `Begin`, the request to `Attempt`, the update to `done` to `Finish`, the updates to `error` to `Fail`; all
  else shows nothing. That an attempt is left (`OneAttempt`) is the injection of
  `RequestsAlwaysBounded` with the delivery at hand added: it is not among those a
  request was made for.

About the server and its clients:

* `HttpImplementsRequester`: `HttpSpec => Spec`. Every step of the server is a
  step of the system or leaves its variables alone (`HttpStepSimulates`), which
  needs to know that a request in `CreateTask` has a task (`WebInv`). So every
  theorem above holds with clients that repeat, read and give up.
* `HttpTypeCorrect`, `KnownAlwaysFound`: from `HttpInv`. The ids a client was given
  are those of rows that exist (`ClientInv`), which rests on `HandlerInv` at the
  time of the answer and on `Grows` ever after.
* `AnswersAreAlwaysWhole`, `DoneAlwaysStaysDone`, under `Exclusive`: an answer is written some time after
  the row was read, when the row may be another. `SeenInv` says what stays true:
  a row that was read as done, and a row that the client was told is done, are what
  the table says now (`DoneStays`), so a later read finds the same (`ReadIsTrue`). TLC
  checked `SeenInv` with the constants of `http` (596,080 states). It needs `ExclusiveInv`
  of the system below, which `HttpImplementsRequester` carries over.

About the worker pool, the data of a task and the programs:

* `WatchInvariant`: `[]WatchInv`. That a delivery is with one goroutine only rests on
  the counts: what a receive answers with is above every delivery made before
  (`ReceivedAreNew`), so it is in no output and with no listener, also when its
  message was visible too early. The wait group is compared with the set of
  goroutines that run, one goroutine at a time (`WaitGroupCounts`).
* `ReturnedIsAlwaysQuiet`: from it.
* `WatchMessagesIsPool`: `Spec => ImplementsPool`. Each step maps to one of `Pool`'s or to a
  stutter. A batch fits the pool because a receive asks for as many messages as
  there are workers; a delivery is handed over only while fewer than all
  listeners run or were lost (`RoomForOne`); a listener that is through takes its own
  delivery out of the pool because no other has the same.
* `SchemaAlwaysDecides`, `RequestIsAlwaysPosted`, `StatusIsAlwaysResponse`: from
  `PayloadInv`, which gives each record as a function of the members posted
  (`PostedInput`, `PostedRow`). That this is what decoding member by member comes to rests on
  `AppendMember`: a member changes the last one of its name and no other. From there the
  checks are the schema's (`ChecksAreConforms`), a body that was encoded, stored,
  decoded and encoded again is encoded once (`BodyIsSent`, by `PayloadAssumption`: encoding is
  injective), and no header is lost or added in whatever order they are set
  (`HeadersAreSent`). TLC checked `PayloadInv` with the constants of `payload` (472,008 states).
* `StartupInvariant`: `[]StartupInv`. The promises say less than what is inductive: that
  no handler finds the pool closed needs that none is left behind `Shutdown`
  (`StageInv`), and that what serves has a queue needs that each stage hands its
  result on.
* `AlwaysServesTheQueue`, `PoolAlwaysOutlivesHandlers`: from it.
* `AlwaysGracefulStop`: an action property; of the steps that end a process, only
  those that count a fault can be taken in `Shutdown` while a handler runs.

Every invariant, action property and refinement of the passing runs is stated by
a theorem. Only model-checked is liveness, in `settles`, `drains`, `watch` and
`startup`: it rests on fairness, hence on `ENABLED`, which is out of the prover's reach. The
four findings are counterexamples of TLC. `drains` checks `ImplementsPool` of `RecoverySpec`, whose
steps are a part of those of `Spec`, of which it is proved; listeners that panic are in the
theorem and in `watch`, not in `drains`, which has no malformed task.

## 7. What is not modelled

* Of the HTTP layer: the panic middleware (the modelled handlers do not panic;
  its log shows the request, not the recovered value, because it formats `r`
  instead of `rec`), the file server under `/docs`, telemetry, the escaping of
  paths, the generated accessors, and the text of errors.
* Of the data: the syntax of JSON and of URLs, which headers `net/http` adds
  (`Host`, `Content-Length`), and what `encoding/json` makes of the values of a body,
  which the code hands it as `jx.Raw`: `Payload` takes from it only that decoding
  gives back what was encoded.
* Of the configuration: the values, which are constants of the modules; only
  whether it is accepted is modelled.
* Time: a timeout may happen wherever the code waits, and how long the visibility
  timeout is compared with the processing is the fault `late`.
* `cmd/migrate` and logging: they keep no state that the programs use.
* Transactions (`BeginTx`, `WithTx`): only tests use them.

## 8. Plan

Done, in this order: `Repository`, `Queue`, `Api`, `Worker`, `Requester` (the path of a
task, which is what the service is for), `TaskLifecycle`, the proofs of type
correctness, of the safety invariant, of single delivery and its two bounds;
`HttpApi` and the proof that it implements `Requester`; `Pool`, `WatchMessages`,
`Recovery`, `Payload` and `Startup`; the proofs about `WatchMessages` and `Startup`; the
proofs about exclusive work on a task, of the refinements of `TaskLifecycle` and `Pool`, of what
clients may conclude from answers, and about `Payload`.

Next:

1. The safety part of the liveness arguments as invariants: what keeps a message
   from leaving the queue (`QueueDrains`) is never lost, so that only fairness is left to TLC.
2. Which of `late`, `duplicate` and `sendlost` each property under `Exclusive` tolerates by itself,
   as done for `RejectedNeverRuns`.
