# wings-control in TLA+

`wings-control` is the control container that runs beside an inference engine
(vLLM, SGLang, MindIE) in one pod. It decides what the engine shall be started
with, writes the start script to a volume shared with the engine container,
starts and watches a proxy and a health service, and brings the pods of a
distributed engine together. This directory holds a model of it: TLA+ modules,
TLC configurations and TLAPS proofs. Paths below are relative to
`wings_control/` in the repository.

    tlc  -config gate.cfg MCQueueGate.tla       # one run; see the table of runs
    tlapm GateProofs.tla                        # one module of proofs

## 1. The system

| Part | Code | State it keeps | Operations | Talks to |
|---|---|---|---|---|
| Launcher | `wings_control.py`, `utils/process_utils.py` | its child processes with crash counts and backoff times, the stop event, the exit code | launch (two attempts in standalone mode), `_daemon_loop`, signals, `_stop_all` | child processes; the shared volume |
| Admission gate | `proxy/queueing.py` | two semaphores, an `asyncio.Queue` of Waiters, `_holders` | `acquire`, `release` | called by the handlers |
| Forwarding handlers | `proxy/gateway.py`, `proxy/http_client.py` | one coroutine for each request, one task for each streamed body | acquire, send with retries, relay, release | gate, engine, client |
| Anthropic conversion | `proxy/anthropic_converter.py` | byte buffer, active block, index, known tool calls | one handler for each kind of fragment | between the engine's stream and the client |
| Health state machine | `proxy/health_router.py` | the dictionary `h` | one observation per poll; the HTTP code on request | engine, `/health` |
| Membership | `distributed/monitor.py`, `distributed/master.py`, `distributed/worker.py` | the master's table of nodes; the worker's counters | register, heartbeat, `_check_nodes` | HTTP |
| Distributed start-up | `wings_control.py`, `distributed/worker.py`, `utils/file_utils.py` | the dispatch loop's counters; the script on each shared volume | wait, probe, dispatch, write, run | master's thread, workers, engine containers |
| Start script, status report | `core/wings_entry.py` | the script, `advanced_features.json` | patches, first start, wait, second start without the features | written by the launcher, run by the engine container |
| Log analysis, progress | `log_analyzer/*`, `utils/progress_utils.py` | unread lines, phase and progress, the progress file, the manager's copy | read, match, time out, probe; poll and count up | engine log, progress file, status page |
| Launch plan, configuration | `core/*` | `engine_config`, shared by the steps of a plan; `ENABLE_KV_OFFLOAD` | merge defaults, hardware, model and arguments; the verdict on features | files, environment |
| vLLM adapters | `engines/vllm_adapter.py`, `engines/vllm_distributed.py` | the same `engine_config` | model recipes, topology, offloading, two commands | launch plan |
| Task scheduler, master's start API | `distributed/scheduler.py`, `distributed/master.py` | round-robin position, task table | not called by the launcher here | |
| Worker quotas | `proxy/proxy_config.py` | none | split of the totals over proxy workers | environment |
| MindIE, SGLang adapters | `engines/mindie_adapter.py`, `engines/sglang_adapter.py` | none | text of start scripts | |
| RAG acceleration | `rag_acc/*` | a queue, a collector | chunked requests | engine |

What is hard to test in it, part by part (`hazards` in `PROJECT.json` has each
at its line):

* **Gate.** A slot is handed to a Future whose task may be timed out, cancelled
  or pushed out before it runs again; `put()` is not atomic with the test before
  it; arrivals race the queue. Correct means: no slot lost or doubled, slots handed
  over in the order of the queue, and, where `put()` cannot suspend, first come first
  served, nobody waiting beside a free slot, and an end to every wait.
* **Handlers.** A streamed body runs in another task than the handler that
  acquired; a generator may be abandoned; a handler may be cancelled at any of its
  awaits. Correct means: never more requests at the engine than slots, and every
  slot comes back.
* **Launcher.** Exits, failing `Popen`s, signals and the end of a backoff fall
  between any two looks of the loop. Correct means: what exits is brought back,
  after a backoff that counts crashes and nothing else, giving up only when all is
  down, and nothing left running.
* **Membership.** Two clocks and two backoffs. Correct means: a dead worker
  leaves the list in bounded time, a live one with few losses does not.
* **Start-up.** Requests are lost, late, doubled; launchers restart; a host may go
  by several names. Correct means: one rank each, nothing sent before all are there,
  failures are reported, the dispatch ends.
* **Health.** Counters that freeze in some states and are forgiven in others, in
  rounds whose length varies by jitter and slow probes while the code counts rounds
  for time. Correct means: an outage shows in bounded time, not before its grace has
  passed, and the two answers of `/health` agree.
* **Conversion.** Any order of fragments, errors in the middle, and cuts
  anywhere in the bytes. Correct means: a well-formed message with every piece.
* **Start script and progress.** Two commands built from one mutable
  `engine_config`; a report written by the launcher and corrected by the script;
  an analyzer that may be behind, end, or begin again; a manager that counts up by
  itself. Correct means: the page shows no feature that was not turned on or not
  installed and no completion that was not reached, and a ready engine is shown as
  ready.
* **Launch plan.** A chain of defaults that each overwrite the one before, run on
  every node by itself and run again in an environment the last plan changed.
  Correct means: the nodes' commands fit each other, the cards, the memory and
  the report, and a plan made again is the same plan.

## 2. The modules and the code

**QueueGate** (`proxy/queueing.py`). A step is what one asyncio task runs
between two awaits that really suspend it. `Call` is `acquire()` up to its first
suspension: a free slot (`TryDirectGate`), the queue disabled or full under each
overflow policy, or the queue. `Wait` is everything that can happen to a
suspended caller: its put goes on (`ResumePut`), it inherits a slot, is told
that it was dropped, times out, is cancelled. `Release` is `release()` with its
search for a live Waiter (`FirstLive`) and the hand-over. `ticket`, `holders`,
`q`, `putters` are the semaphores' values, `_holders`, the queue and
`Queue._putters`; the last and `woken` model the part of asyncio the code uses.
**AdmissionPool** is the abstract specification: a pool of slots and a line, which
is who stands in it and who is ahead of whom. `QueueGate!Pool` is the refinement
mapping: in line are the live Waiters, and ahead of one those placed before it. A slot is the Waiter's from the moment its
Future is completed.

**Gateway** (`proxy/gateway.py`) EXTENDS QueueGate and composes it with its
callers: `kind` is the forwarding function, `at` how far the task is, `body` the
task that Starlette runs a response's body in, `orphans` the generators that were
left suspended and whose `finally` runs later in a task of its own. `early` is
`GATE_EARLY_RELEASE`. A send (`_send_with_fixed_retries`) is up to `RETRY_TRIES`
attempts with pauses between, during which the slot is kept: `RetryStatus`,
`RetryException`, `SendAgain`, counted in `attempt` and `refused`.
`HandlerCancelled` is `CancelledError` at an await of the handler: only
`_forward_anthropic_nonstream` has a `finally`, the others catch `Exception` and keep
the slot.

**AnthropicStream** (`_StreamConverter`): the engine's fragments come one by one,
`out` is what the generator has yielded and the client not yet taken. The
client's variables take each event at its word, so that a wrong index or a
missing end shows in them. **AnthropicMessage** is what the Messages API
promises; `Protocol` is the mapping (by name). **SseLines** is the layer below: bytes, decoding
piece by piece, lines.

**Supervisor** (`wings_control.py`): `pc` follows the launcher's thread through
`launch` / `settle` / the loop (`check`, `restart`, `poll`, `sleep`) / `stop`;
`Exit(p)` and `Signal` interleave anywhere. `os` is the process behind a
`ManagedProc`; `leaked` are processes nothing refers to any more: those of a failed
attempt, and those that survive SIGTERM and SIGKILL in `StopAll`. `stamped` are the
processes whose `last_start_ts` is set; `early`, the early exits in a row, is history.

**Membership**: `Registered`, `RegistrationFails`, `Heartbeat`, `HeartbeatFails`
are the worker's loops, `CheckNodes` is `_check_nodes`; `Tick` lets a unit of 5
seconds pass, and no further than the next wait that ends.

**Startup**: `node_ips` has names, `Address` says which host each stands for:
repetitions are removed by name (`Workers`), the list is compared by host
(`WorkerHosts`). `Dispatch` is the master's thread (`_wait_for_worker_registration`,
`_wait_for_worker_api_ready`, `_try_dispatch_to_worker` with its retries); on a host
`StartWorker`, `Register`, `Listen`, then `PlanFails` or `OpenScript` and
`ScriptWritten` are the launcher, the endpoint and `safe_write_file`;
`RunScript` is the engine container (external), which polls for the file. `together`
is history: all workers have been listed at one moment since the master's launcher
was started.

**HealthMonitor**: `ObserveSuccess` and `ObserveFailure(o)` are one whole round of
the monitor loop, with the pause and its jitter (`NextPauses`), the TCP probe of the
port and the HTTP probe with its two time-outs, one for the connection and one for
the answer; how long each takes is any value of a constant set. `CodeAfter(t)` is the
HTTP code derived from `h` by somebody who asks `t` after the last observation.

**LogStages** has the plugins' tables: which lines stand for which phase and
progress. **StartupProgress** is the chain from the log to the page: `ReadLine`,
`ErrorLine` and `Silence` are the analyzer's loop in its two modes, `Poll` the
manager's round; the analyzer's probe may miss an engine that is ready
(`MayAnswer`), since it asks 127.0.0.1 while the engine may listen on the pod's
address. **FeaturePlan** is the launcher's account of the two commands as sets of
features, of the patches they need and of the field of the report each patch stands
for (`StatusKey`). **EngineScript** EXTENDS both and is the script:
`pc` follows it line by line through patches, the first start, the wait, and the
second start; `unpatched` are the patches this run did not get installed, and
`Unrecorded` those whose failure the script does not write into the report; the engine logs, fails or exits at any point; `RunAgain` is the
container's restart and `PlanAgain` the launcher planning again meanwhile.

**LaunchConfig** is the merge (`core/config_loader.py`): one operator for each
function that decides something, over a record `Request` of what is asked for.
**VllmCommand** is what the vLLM adapters make of it, in their order: the model
recipes, the topology of Ray, data parallel and PD roles, offloading, and the
command. **Launch** EXTENDS it and runs `build_launcher_plan` on every node, a
step for each step of the code that changes the shared parameters: `Gate`
(features and `ENABLE_KV_OFFLOAD`), `Merge`, `Prepare` (or `PrepareRefused`),
`Report`, `BuildAgain`, `BuildMain`; `PlanAgain` and `Restart` begin anew, with
the environment kept or fresh. Launch and EngineScript meet in FeaturePlan:
`AsTheScriptExpects` says that what EngineScript takes for granted of a plan is
what the pipeline makes.

Modules that start with `MC` only name instances for TLC. Operators called
`Something_Variant` directly before the definition they resemble are plausible
slips of that definition; they are used to see that each property notices. Those
that end in `Proofs` hold theorems and nothing else.

## 3. The runs

| Run | States | Shows |
|---|---|---|
| `gate` | 177,060 | every combination of the policies with queues of 0, 1 and 2: slots are conserved, no waiter or wake-up is lost, the queue is bounded; slots are handed over, and the queue is joined, in order; where `put()` cannot suspend the gate also implements AdmissionPool (nobody is overtaken) and every wait ends |
| `gateway` | 1,062,597 | from whichever task they release and however often they send, `ConcurrencyBounded`, `NoSlotFromNowhere`, and a request answered by its own task returns its slot, unless its handler is cancelled where only `Exception` is caught |
| `messages` | 61,854 | the converter implements AnthropicMessage; nothing lost and one block per call if the engine does not interleave calls |
| `supervisor` | 108,375 | all modes: giving up only when all is down, restarts, and a crash counter that is wrong by the first exit at most |
| `membership` | 1,097,042 | with the code's intervals: removal after 315 to 345 seconds of silence, and two lost heartbeats in a row are survived |
| `startup` | 778,288 | one rank for each host that has one name, nothing sent before all workers are listed together, failures reported, the dispatch ends, in a bounded number of steps |
| `health` | 898,378 | with the code's thresholds, time-outs and jitter, how late and how early an outage shows; status and code agree for engines other than sglang |
| `engine_script` | 1,648,350 | for every combination of features and ways to install patches, and for two kinds of log: what the page shows is on and patched but for failures the script does not record, nothing is complete before an engine was ready, the second start is the plain one, and a start that is seen to succeed is reported |
| `launch` | 1,171,105 | on one and two nodes, for every model, card and role the code tells apart: ranks cover the deployment, commands fit cards and memory, nodes agree, plans are stable, the report is what the commands turn on |
| `gateway_stream_slot` | stops | finding 1 |
| `messages_split` | stops | finding 2 |
| `progress_unwritten` | stops | finding 3 |

Ten more configurations end in counterexamples that section 4 describes:
`gate_blocking_put` (MCQueueGate), `gateway_ordinary_retry` and `gateway_cancelled`
(MCGateway), `supervisor_worker`, `supervisor_first_exit` and `supervisor_retry`
(Supervisor), `startup_truncated` and `startup_two_names` (MCStartup),
`engine_script_override` (MCEngineScript) and `launch_explicit_tp` (MCLaunch).
The type invariant of Launch is run, since it bounds the sizes; those of the other
modules are theorems, or the other invariants make them redundant, and are not run
again.

**Bounds.** *gate*: one slot in each layer and five tasks; two own the slots,
which leaves three for a queue of two and a suspended `put()`, a woken one and a
newcomer that takes its room; the proofs lift it to all sizes. *gateway*: four ids, symmetric (no id
is distinguished), a queue of one, one orphan at a time; enough for a slot owned
under an id that another task has by now. Two attempts for each send, so that there
is a first and a last one; the code's three were checked as well (1,612,057 states). *messages*: two calls and seven pieces
are enough to leave a call, come back to it and have text between. *supervisor*: a
threshold of 2 turns and a backoff of at most 4, so that both sides of each
comparison occur; `crash_count` stops at the value from which the wait is
constant. *membership*: real intervals in units of 5 seconds; a request takes up to
two units; three of the 30 registrations, which only repeat. One node is enough:
nodes do not interact in the monitor. *startup*: no workers, or two, the address of
one repeated and the other under a DNS name (`startup_two_names` has a host under
two names); loops cut to one or two turns; two starts of each launcher. *health*: in
units of 500 ms, pauses of 5 and 9 seconds with 10 % of jitter (`{9, 11}`,
`{16, 20}`), the TCP probe at once or after 2 seconds (`{0, 4}`), the HTTP probe at
once or after both time-outs (`{0, 20}`), FAIL_THRESHOLD, FAIL_GRACE_MS,
SGLANG_SILENCE_MAX_MS and SGLANG_PID_GRACE_MS as in the code; scaled down are
`STARTUP_GRACE_MS`, 10 seconds for an hour, since only "before" and "after" differ,
and sglang's budget and count of time-outs, both 2. `fail_score` and `accum_fail_ms`
stop above their thresholds. *engine_script*: the script runs twice, the log is one line ahead, the
manager one increment, the analyzer gives up after two time-outs; every
combination of features (the sparse cache that comes to nothing included) with the
acceleration off, automatic and by the user's list (a missing installer is no
different from "off") and without following the progress; and a start without
features with a whole log and with one the analyzer does not know.
It is checked with the import of the plugins repaired (`PluginsImport`), since as
it is nothing is ever reported: finding 3. *launch*: the requests vary one part at
a time (topologies, features, memory sizes on both sides of each threshold,
explicit values, PD roles) over every model and card, two plans for each node.
The operators were also compared with the real `build_launcher_plan`: for each of
the 5,233 pairs of a request and a node, both commands and the report agreed.

**Fairness.** *gate*: the event loop runs what it has scheduled, and whoever owns
a slot releases it (the handlers do so at their end; where they fail to, that is
finding 1 and `gateway_cancelled`). Timers, cancellations and new requests are not assumed to
happen. *supervisor*: the launcher's thread runs; a `Popen` that is tried again
and again does not fail each time (strong fairness: the restart is enabled again
and again rather than continuously). Exits and signals are not assumed.
*startup*: only the dispatching thread runs, each of its waits has a timeout.
Workers may do nothing. *engine_script*: the shell runs the next command, the
analyzer, which waits with time-outs only, goes on, and a starting engine logs its
next line; failures, signals, restarts and the status page are not assumed. The
other runs check safety and assume no fairness.

**Deadlock** is checked in `gate`, `membership`, `health` and `launch` (which has a
step for being finished). Start-up, the launcher, the start script and an answer
come to an end; in `gateway` all callers may end up suspended in `put()` once
finding 1 has used up the slots.

## 4. What disagrees with its documentation

Three runs are findings:

1. `gateway_stream_slot`: in holding mode a streamed response releases from
   the task of its body, `release()` does not find that task's id and returns:
   the slot is gone. The shipped setting releases early and is not affected.
2. `messages_split`: each network piece is decoded by itself, and a character
   cut in two is lost.
3. `progress_unwritten`: `log_analyzer/plugins/__init__.py` is empty, so the
   analyzer's constructor raises ImportError before it writes anything; the
   script does not look at it, and no start has any progress.

Ten configurations show behaviour a reader of the code should know. Each violates an
invariant that one would expect, in most of them from a comment or docstring:

* `gate_blocking_put`: with `QUEUE_OVERFLOW_MODE=block` and another reject
  policy, `release()` finds the queue empty although a task is suspended in
  `put()` and frees the semaphore; the request then waits beside free slots.
  `NoIdleSlotUnlessBlocking` and its proof show that nothing else can cause it.
  A newcomer may then take the free slot past live Waiters, and newcomers may join the
  queue before suspended `put()`s.
* `gateway_ordinary_retry`: ordinary requests are sent with `stream=True`
  (`proxy/gateway.py:536`), and so a 502, 503 or 504 is retried for them too, which
  the comment at `proxy/gateway.py:194-196` rules out. The same call's docstring
  promises HTTPException(502) when such answers go on; after the last attempt the
  answer itself is handed on.
* `gateway_cancelled`: a handler that is cancelled while it sends, pauses or reads
  keeps its slot (`proxy/gateway.py:674`, `760` and `1097` catch `Exception`), although
  line 675 says that an exception must release "to avoid a leak" and lines 798 and 821
  that the `finally` for CancelledError is in line with `_forward_nonstream`.
* `supervisor_worker`: a process waiting for its restart counts as dead, so that a
  launcher with one managed process ends on the first crash instead of backing off.
* `supervisor_first_exit`: a process the launch started has no `last_start_ts`, so that
  its first exit is counted as a crash however long it ran; `wings_control.py:371` says
  that a stable run resets the counter.
* `supervisor_retry`: when a launch attempt fails, `_stop_processes` gets the caller's
  list, still empty: what the attempt has started runs on beside the next.
* `startup_truncated`: the worker writes its script in place while the engine
  container polls for it; the master's own is written atomically.
* `startup_two_names`: a host that NODE_IPS has under an address and a DNS name is told
  two ranks; `wings_control.py:905` says that no worker is dispatched to twice.
* `engine_script_override`: where a user lists the patches himself, one that does not
  install stays reported; `core/wings_entry.py:987` says that the shell writes it off.
  (So does one where the installer is missing or the acceleration is off.)
* `launch_explicit_tp`: an explicit `TENSOR_PARALLEL_SIZE` (and `DATA_PARALLEL_SIZE`)
  replaces only a value that the defaults have put there. Where the adapter is to
  choose, it is lost, against the order given in `core/config_loader.py:2441`.

Seen while reading and modelling, without a run of its own.

Requests and processes:

* `proxy/queueing.py:109-112` describes `QUEUE_OVERFLOW_MODE=drop_oldest`; the
  code drops for `QUEUE_REJECT_POLICY`.
* `proxy/gateway.py:1033` calls `GATE_EARLY_RELEASE=false` the default;
  `proxy/proxy_config.py` has true.
* With sglang the score collected during start-up makes the first failed probe
  after readiness answer 503, while the status in the body is still "ready"
  (`SglangCodeAndStatusAgree` is defined and does not hold: `proxy/health_router.py:361`
  and `438` are two computations).
* `FAIL_GRACE_MS` is counted in probes of `HEALTH_TIMEOUT_MS` each, which last as long
  as they last: of an engine other than sglang an outage shows after 22.5 seconds of
  quick failures, or only after 87.5 seconds of slow ones, for a grace of 25.
* A process that survives SIGKILL for five seconds runs on after the launcher
  (`wings_control.py:329-333`, which says so).
* `nnodes` is the length of `NODE_IPS` with its repetitions
  (`wings_control.py:917`), while repeated workers are dispatched to once.
* A heartbeat of a node that is not listed is answered with success
  (`distributed/master.py:350`), so that its worker never registers again.
* `anthropic_converter.py` documents the block's end at `finish_reason`; the code
  ends it with the usage line.

Start script and progress:

* SIGTERM while the script waits starts a second engine in a container that is
  to end (`SecondStartAfterCrash` is defined and does not hold).
* A second start that fails reports nothing; a "failed" line may be overwritten by
  the analyzer before it is told to quit; once an engine has been ready, the page may
  show 100 while another one loads.
* An engine whose log has no plugin of its own never has a ready line: its start
  is found complete by the probe or not at all. The probe asks 127.0.0.1
  (`log_analyzer/log_analyzer.py:434`), where an engine that listens on the pod's
  address (`core/wings_entry.py:143-157`) does not answer.

Launch plan:

* The GLM-4.7 recipe takes 16 cards, the DeepSeek V4 Flash recipe for Ascend 8 or
  4, whatever cards there are (`RecipeCards` keeps them apart); the latter refuses
  several nodes when given an explicit width.
* `advanced_features.json` and the offloading the engine does can differ
  (`OffloadReportIsTrue` is defined and does not hold): with native offloading on
  several nodes, with `CONFIG_FORCE`, with `ENABLE_KV_OFFLOAD` alone for Flash on
  Ascend, and where the automatic size is close to the floor, which is tested with a
  width the command does not have in the end.
* Sparse attention that comes to nothing is reported as on (`"noop"`).
* Some architectures speculate in PD roles through `pd_config.json`, in the second
  command as well, with nothing in the report.

## 5. What is proved

Every theorem holds for all values of the constants that the module's named
assumption admits; where more is assumed it is said here. Each invariant was
checked by TLC before it was proved. *Inductive* below means what had to be added
to make the property so.

**GateProofs**, any finite set of tasks, any capacities, configurations and number
of attempts. Of the gate:
`TypeCorrect`, `SlotsConserved`, `NoIdleSlotCorrect`, `NobodyIsLost`,
`QueueNeverTooLong`, `RoomAlwaysAnnounced`, and `InvCorrect`, the invariant.

Conservation is not inductive as it stands. When `release()` hands a slot to the
Waiter at `q[i]`, the sum only stays right if that task is really waiting and
owns nothing; when a wait times out, only if a granted Future is seen. So
`Inv == Shape /\ Conserved`, where `Shape` has five parts: `TypeOK`;
`CallersOwnNothing` (a task inside `acquire()` has no slot in `_holders`);
`QueueMatchesWaiters` (a pending Waiter in the queue belongs to a waiting task,
and every waiting task whose Future is pending has one there); `PuttersMatch` (a
task in `_putters` or just woken is suspended in `put()`, once, with its Future
untouched); and `TicketsOnlyWithoutWaiters` (where `put()` cannot suspend nobody
is in it, and a free ticket means that nobody live is queued). The step lemmas go
action by action; the cardinality argument is stated once, for one owner added,
removed or replaced. `NobodyIsLost` adds `EverybodyPlaced`. The bound of the queue and the
announcement of room are inductive only together: a woken `put()` finds its room
because every room has one.

Of the order: `ServedInOrder` is the refinement, every step of the gate a step of
AdmissionPool or none (`PoolInit`, `PoolStep`, one lemma for each action).
`HandOversAlwaysInOrder` holds in the blocking configurations too, where the refinement
does not, and `OrderKeptAllTheSame` with the code's handlers as callers: a handed
slot goes to one with nobody ahead, nobody's set of tasks ahead grows while it
waits, and every hand-over shrinks the sets of all who stay. So a task with n
others ahead is past after n hand-overs, which is what the safety half of
`WaitEnds` comes to. Neither says that nobody is overtaken: where `put()` may suspend,
a slot can be free beside live Waiters, and a newcomer takes it without a hand-over. The pool has the sets and not a sequence because the sequence
would be a filtered queue, and a filter is recursive.

Of the handlers over it: `GatewayTypeCorrect`, `NoSlotMadeUp`,
`ConcurrencyAlwaysBounded`, `OwnAnswerAlwaysReturnsSlot`, `WaitersServedAllTheSame`.
They break `CallersOwnNothing`: an id under which a streamed response has lost a slot
is used again, and what it owned is overwritten. So the gate's lemmas are stated for
`AnyStep`, whoever calls, and need only `Sound`, the four other parts of `Shape`;
conservation weakens to `NoSlotFromNowhere`. `HandlersInv` adds who may release:
only tasks outside the gate do, and the body of every response has a task of its own,
so that no request under way loses its slot to another's end (`SlotsOwned`).
`OwnAnswerAlwaysReturnsSlot` leaves out the cancellation of the three handlers that
catch `Exception` only, after which the slot is kept (`gateway_cancelled`).

**AnthropicStreamProofs**, any set of tool calls and any length of the answer:
`Implements` (AnthropicStream implements AnthropicMessage), `InvCorrect`,
`EveryPieceArrives`, `OneBlockForEachCall`. The client lags behind the converter;
`Sync` lists the ten sequences of events that may be under way, and what each says
of the distance. Every step of the converter starts from "caught up" and leaves
one of them; every step of the client shortens one, and is a step of the protocol.
`Delivery` adds what is missing at the client meanwhile: the piece and the start of
the active block, if they are under way, and nothing else, as long as the block
that is active is what the engine's last piece was for.

**HealthMonitorProofs**, any thresholds, pauses and durations of the probes:
`TypeCorrect`, `CodeAgreesWithStatus` (engines other than sglang),
`GraceKeptButForJitter` (the same; as many of the shortest rounds as failures are
needed), and `DeadEngineReported`, which assumes `SglangRoundsFit` (no round is as long
as `SGLANG_SILENCE_MAX_MS`; the code's are at most 21.9 seconds of 60). The number of
failures counted is related to the time since the last good look, from below by the
shortest round and from above by the longest (`FailuresTakeTime`).

**MembershipProofs**, any workers and intervals: `SilentNodeAlwaysDropped`,
`RemovedOnlyAfterLongSilence`, and `TwoLossesSurvived`, which assumes `WaitsFit`
(the wait after two losses and a request fit in the master's patience). What is
added relates the master's count of misses to the worker's clock.

**SupervisorProofs**, any modes, thresholds and backoffs: `MiscountsOneExitAtMost`
(with it goes `UnstampedIsUncounted`: nothing has been counted against a process of
the launch while it runs, so that its first exit adds one to nothing) and
`GaveUpWhenAllDown`.

**StartupProofs**, any hosts, names and lists with repetitions: `OneRankForEachName`,
`NothingSentBefore`, `FailuresAlwaysReported`, `DispatchAlwaysAdvances`. A request that
is late or sent twice carries a rank of its host's names. The last theorem
gives the safety half of `DispatchEnds`: a dispatch to n workers takes at most
`MaxPolls + n * (MaxProbes + 2 * MaxTries)` steps; that the thread takes them is the
fairness.

**EngineScriptProofs**, any launches, plugins and bounds: `SecondStartAlwaysPlain`,
`NeverCompleteBeforeFirstReady` (until something was ready no line, file or view has a
100: `Unserved`, from the facts about the tables in `LineFacts`), `TypeCorrect`,
and `MisreportedOnlyIfUnrecorded` (the exceptions are in its statement: patches in
`Unrecorded`, a sparse cache that comes to nothing, and a report the launcher wrote
again meanwhile).

**LaunchProofs**, any set of launches the assumption admits (engines in a PD role
are vLLM's), any number of nodes and of plans: `SamePlanAgain` (what a plan hands
from step to step depends on the request alone, because a feature that was granted
is granted again) and `ClusterAlwaysSame` (the parameters of two nodes are `Twins`:
they differ in one rank, through every definition of the pipeline). Then
`LaunchTypes`, `RanksAlwaysCover`, `StrategyAlwaysFits`, `ScriptGetsWhatItExpects`,
`CommandsAlwaysFit` and `MemoryAlwaysFits`. These rest on `LaunchInv`: at each step of
a plan the parameters are what the operators up to there make of some request of the
constant, each node's in the type of its step, and the second build is refused only
if the first was. What one operator does to the shape and the sizes of the parameters
is one lemma, one for each function of the merge and the adapters, and the theorems
follow them down the pipeline. `CommandsAlwaysFit` leaves out widths the user gives, PD
roles, and the GLM-4.7 and Flash recipes on fewer cards than they take (`RecipeCards`),
where the code asks for too many; `ScriptGetsWhatItExpects` is about vLLM's engines, and
leaves out `CONFIG_FORCE` and native offloading on several nodes (section 4).
`MemoryAlwaysFits` is about up to 100 cards
(`request.count <= 100`): each is given at least 1 GB, and below 100 GB nothing is
offloaded, so that with more cards the floor can be more than the machine has.

Only model-checked:

* liveness (`WaitEnds`, `RestartedOrGivenUp`, `DispatchEnds`, `ReadyIsReported`),
  which is out of the prover's reach (what bounds the steps of the first and the
  third is proved);
* the types of Membership and Supervisor, whose waits are powers of two: a fact by
  induction over the exponent;
* SseLines, whose property does not hold.

## 6. Abstractions, and what is not modelled

* A task id (`id(task)`) may be used again once no Waiter in the queue is named
  by it.
* The engine of `AnthropicStream` sends a line without content first, names a
  tool call in its first fragment, and ends with a line without choices (the
  converted request asks for the usage) or an error. `NothingLost` and
  `OneBlockPerCall` are about engines that finish a call before the next, which
  `interleaved` records.
* Header copies, flush heuristics and log records are left out of Gateway.
* HealthMonitor leaves out a probe that waits for a connection of the pool or is
  answered piece by piece, which have no time limit, and exceptions other than httpx's.
* Membership serves a heartbeat within its timeout or not at all. Startup
  keeps the shared volume across restarts: the replacement of a pod is outside. What a
  name in NODE_IPS stands for does not change; a name that is not resolved is a look at
  the list that finds a worker missing (`PollAgain`).
* StartupProgress counts the analyzer's waits in whole time-outs; a line of the log
  is a phase, an error or nothing; of the progress file only the last line is kept.
* EngineScript runs on one host. The features of a command are sets; the text of the
  script around its commands is not modelled.
* Launch has sizes in whole GB and a record of what the code asks about a model,
  card or role. Options no decision looks at (parsers, lengths, ports, tracing), the
  choice of an engine and the checks on VRAM are left out.

Not modelled:

* the health service's endpoints, which read the state of HealthMonitor;
* the task scheduler and the master's start API, which nothing here calls;
* the quotas of the proxy workers: arithmetic, done once at import;
* RAG acceleration: its queue is used by nothing and its collector reads one stream
  after the other;
* the MindIE and SGLang adapters beyond their parallelism: field by field into a
  file or a command. MindIE's rank table is copied from a file; the exchange over
  TCP that would make one is called by nothing;
* hardware detection, environment and logging helpers: I/O and strings.

## 7. Plan

Done, in this order: gate and pool; handlers over the gate; launcher; membership;
start-up; health; conversion; log analysis and start script; merge, adapters and
launch plan; proofs over nine of the modules.

What could follow, the most control first:

| What | To be stated |
|---|---|
| Membership composed with Startup | "listed" in the second is the first's list, removal included |
| the SGLang and MindIE commands in Launch | `RanksCover` and `FitsCards` for them |
