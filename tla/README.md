# Vibe: TLA+ models of agent tasks, workflows, leases, runs and the relay

This directory holds TLA+ modules that model the parts of `vibe` whose
correctness depends on interleavings, crashes, lost messages and retries, TLC
configurations that check them on small instances, and TLAPS proofs of most of
their safety properties. Paths below are relative to the repository root;
file names without a directory are under `src/`.

## 1. The system

`vibe` runs coding agents. A *node* (a developer's machine) runs a daemon that
starts agent processes under a supervisor and reports their events through a
*relay*; a *gateway* (`vibe api serve`) offers "Agent Tasks" over HTTP on top
of local runs or relayed runs; a *workflow runtime* in the same process drives
a graph of steps, each step one Agent Task, with all its state in a SQLite
*control store*.

| Component | State | Operations | Talks to |
|---|---|---|---|
| Workflow runtime (`workflow/runtime.ts`) | in memory: pumps, abort controllers, timers; durable: the control store | create, start, cancel, answer, approve/reject, resume, await, recover, shutdown; one *pump* per workflow; leases, revision gate, releases | control store (synchronous), task client (HTTP), lease client (relay) |
| Control store (`control/sqlite-store.ts`) | workflows, step executions, events, human requests, stall rounds, evidence, lease projections, tasks, drafts, builder sessions | one transaction per composite, each idempotent | runtime, gateway, builder |
| Policies (`workflow/routing.ts`, `stall-policy.ts`, `completion-policy.ts`, `conditions.ts`) | none | pure functions | runtime |
| Task client and contract (`workflow/task-client.ts`, `lib/agent-task-contract.ts`) | none | createTask, getTask, waitForTerminal, cancelTask; validation, fingerprint, error classification | gateway |
| Agent gateway (`lib/agent-gateway.ts`) | task cache, active slots, subscribers; durable tasks and events | create (idempotent), read, events, cancel, recover | control store, relay, local runs |
| Relay (`relay/server.ts`) | connected nodes, pairings, run owners, pending requests, subscribers | route, fan out, reconnect, restart | nodes, clients, terminals |
| Node daemon (`relay/client.ts`) | active tailers, replay subscriptions, terminal pumps, journal | run start/stop/status/result, leases, tailing, replay, approvals, terminals | relay, supervisors, tmux |
| Node journal (`node-journal/`) | runs, events, leases | append, subscribe, replay, retention, lease table | daemon |
| Local runs (`lib/run-actions.ts`, `runtime/supervisor.ts`, `runtime/adapters/`) | run record, event file, agent processes | start, run, gate, fall back, verify, stop | file system |
| Builder, compiler, validator (`workflow/builder`, `workflow/compiler`, `workflow/validator.ts`) | drafts, sessions, messages | send message, compile, validate, approve, archive | control store, task client |
| Terminals (`lib/terminal-web.ts`, `terminal-remote.ts`, `tmux.ts`) | pages, bridges, tmux sessions | open, type, close, kill | relay, daemon, tmux |
| Workflow API, MCP server, monitor, web pages, crypto | clients and I/O | | gateway, relay |

What is hard in it:

- **Concurrency.** A cancel, an API request and a pump share durable rows; each
  reads before an `await` and writes after it. The daemon, detached supervisors,
  tailers and a stop from another process act on one run at once. Two requests
  with one idempotency key meet between a pre-check and an insert.
- **Crashes.** The process dies between any two transactions; pumps are rebuilt
  from the rows, an already sent create is sent again, a cursor is guessed.
- **Lost answers, timeouts, retries.** A reply is lost after the node has acted; a
  socket closes after its node has registered on another one; a result may
  arrive after the run; a deadline passes in any wait.
- **Limits.** Active slots, bounded queues, retention, rounds, tasks.
- **Something must happen.** A running workflow settles, a task leaves the active
  set, a lease in use becomes free, the end of a run reaches its followers.

`PROJECT.json` lists each such hazard at its line with the properties that
would catch it going wrong.

### What makes each component correct

- *Runtime.* A step execution starts at most one run, whatever is retried; the
  executions form the path that routing selects; nothing starts after a
  cancellation is durable; loops stop at their limits; nothing completes without
  the evidence its policy requires; a running workflow settles.
- *Leases.* One workflow per workspace; no release under an open run; an agent
  works only under a lease its Node holds; a foreign write that git shows stops
  the workflow; a lease is not forgotten.
- *Gateway.* One run per idempotency key through races and restarts, and its
  callers agree on the task; the durable log is exact and ends once, as what the
  run really came to; slots are neither lost nor oversold; a result is not lost to
  a transient outage.
- *Journal and stream.* The journal is ordered and ends once; a subscriber gets
  consecutive events or is told that its history is incomplete.
- *Relay.* A request reaches the node that holds the run; an answer is true.
- *Local runs.* An agent writes only under a lease checked for its own turn, and
  only in its repository; a run has one verdict.
- *Builder and validator.* Turns do not overtake each other; what was approved is
  what was inspected; an accepted specification routes and renders.

## 2. Modules

| Module | Models | Checked by |
|---|---|---|
| `NodeLease` | the Node's lease table, run admission, stop, tailing, daemon crashes | `lease`, `NodeLease_proof` |
| `WorkflowRuntime` | the runtime: API, pump, cancellation, recovery, shutdown, over the store's composites and the task client | `runtime_loop`, `runtime_stall`, `WorkflowRuntime_proof` |
| `WorkflowLeases` | the runtime's lease work, revision gate and releases against the Node, with lost replies and crashes | `workflow_leases`, `WorkflowLeases_proof` |
| `AgentTask` | abstract specification: what the Agent Task API promises about one task's record | refined by `GatewayTask` (run and proof) |
| `GatewayTask` | one task of the gateway: row, memory, pump, calls, result fetches, recovery | `gateway_task`, `GatewayTask_proof` |
| `TaskContract` | the create request, its validation and fingerprint, and how an error travels to the caller's decision to retry | extended by `GatewayAdmission` |
| `GatewayAdmission` | concurrent creates: pre-check, slots, preflight, start, compensation, eviction, recovery | `gateway_admission`, `GatewayAdmission_proof` |
| `RelayRouting` | relay, daemons and one-shot clients: registration, routing, acks, timeouts, restarts | `relay_routing`, `RelayRouting_proof` |
| `RunStream` | a run's events: file, tailer, journal, subscription, relay, client | `run_stream`, `RunStream_proof` |
| `RunContract` | what a run promises about its leases, its repository and its verdict, over the part of its state they are about | extended by `LocalRun` and `NodeLease_proof` |
| `LocalRun` | start, supervisor, gates, agents, fallback, stop, followers of one run | `local_run`, `NodeLease_proof` |
| `WorkflowBuilder` | one builder session, its drafts, compile tasks and approvals | `builder`, `WorkflowBuilder_proof` |
| `WorkflowValidator` | the validator, and the execution of what it accepts | `validator` |
| `PaneContract` | what a terminal page promises about its pump, over the part of the state it is about | extended by `RemoteTerminal` and `RelayRouting_proof` |
| `RemoteTerminal` | browser pages, bridges, relay, daemon pumps, tmux | `terminal`, `RelayRouting_proof` |
| `MC*` | values of the constants for TLC | |
| `*_proof` (eight modules, one per component named above) | inductive invariants, theorems and their proofs | TLAPS |

Definitions whose comment says "Mutant of X" are deliberately broken variants
of X: replacing X by one must make TLC violate the property `PROJECT.json`
names beside it. No specification uses them.

How the modules fit together: `WorkflowRuntime` sees the gateway as a task per
idempotency key that starts at most one run and ends once; `GatewayAdmission`
checks the first half of that (`OneRunPerKey`, `RepliesAgree`) and `GatewayTask`
the second (it implements `AgentTask`). `GatewayTask` reads a journal by
sequence number and calls the node for status, stop and result; `RunStream` and
`RelayRouting` check those. `WorkflowLeases` composes the runtime's lease work
with the lease table that `NodeLease` proves exclusive. `RunStream` and
`NodeLease` start from an event file; `LocalRun` is its writer. `WorkflowBuilder`
materialises what `WorkflowValidator` accepts.

### NodeLease

`lease` is the `workspace_leases` table, keyed by the deterministic lease id
(workflow, workspace); `bound` and `recorded` are columns of `runs`; `evlog` is
what a run's event file says, `proc` whether its processes live, `tail` the
runs this daemon process tails. Each handler of the daemon is synchronous up to
its reply and is one action: `AcquireWorkspaceLease`, `ReleaseWorkspaceLease`,
`RunStart` (lease gate, record, binding, spawn, tailer). The binding is best
effort: it may fail (fault "bind") and the run goes on unbound. `RunStartCrash` is
the daemon dying inside `handleRunStart` after the binding.
`SupervisorEnd`, `RunStop`, `ProcessExit`, `TailTerminal`, `TailDrop` (a
terminal event the journal refuses or the tailer reads torn) and `TailIdle` are the
detached supervisor, `run stop`, the operating system and the tailer's timer.
`Crash` loses the tailers, and `Restart` does not start them again, as
`relayNodeDaemon` does not. Requests that only produce an error or an idempotent
reply are stuttering steps. A run in an operator-allowed directory (`cwd`) takes
no part in leases.

### WorkflowRuntime

One workflow. The row is `status`, `cur`, `round`, the two counters and
`cancelRequested`; `step`, `bound` and `output` are its step executions, keyed
by (step, round) since the attempt is always 1; `request`, `stall`, `evidence`
and `log` are the other tables. `task` is the gateway's task for the idempotency
key of a step execution, and `launched` counts the runs that key started. The
process is `pc` (where the pump and a `cancelWorkflow` call are), `tgt` (the
step a cancellation looked up), `aborted` (the pump's abort signal), `stopped`
(`shutdown()` was called), `expired` (`max_runtime_seconds` has passed).

The store's composites (`EnsureStepStarted`, `BindStepTaskOnce`,
`CompleteStepAndCheckpoint`, `FailStepAndWorkflow`, `AdvanceWorkflow`,
`TerminalizeWorkflow`, `RecordCancellationIntent`, `CancelStepAndWorkflow`,
`RejectHumanRequest`, `ResumeWorkflowRunning`) are operators of their own with
the code's "already happened" cases; an action performs at most one of them, so
that a crash can fall between any two.

**Scheduling.** better-sqlite3 is synchronous, so a chain of `await`s on the
store is a chain of microtasks that runs before the next macrotask. API requests
and answers from the network are macrotasks. The model says so with `Quiet`: a
request or an answer is taken only when no actor is inside a chain (its `pc` is
one of `IOPoints`). An abort signal resolves the pump's wait inside the
canceller's macrotask, so from there the two chains interleave freely. Without
this distinction the model would have races the program cannot have; with
request handlers atomic it would miss those it has.

**Abstractions.** A prompt, a result text and a fingerprint are model values. A
parsed output is a member of `Outputs`; an edge's condition is the set of
(output, round) pairs that satisfy it; a stall fingerprint is any member of
`Fingerprints`, since it hashes a result or a workspace revision. The evidence of
a completing step is what its task and its result say: `facts` holds "missing"
when something the policy requires is not there and "conflict" when the result
contradicts completion, and `Required` says of which of the two the policy
requires anything. `gateCompletion` reads both again on every evaluation, and
either read may fail (fault "store") and count as absent; the record is the first
one written, and its failure is swallowed. The deadline is
the flag `expired`, which may rise at any time after the start. Backoff delays
have no duration.

### WorkflowLeases

The workflow's targets are visited in order by the coalesced lease work (`acq`);
`step` is the pump around one step (gate, create, bind, await, observe), `rel`
the releases. Each worker waits for at most one call to the Node, which the Node
serves at any time and which may time out before or after that. `proj` is the
store's projection, `lease` the Node's row for this workflow, `rival` its row for
any other. A revision is the fingerprint that `observeWorkspaceRevision` takes
(HEAD and the porcelain status): `rev` is what a working git would report, and a
write of the agent, an outsider or a rival may change it, restore an earlier one
or leave it alone. Outside `Repos` it is always `Unavailable`. A failing git
command (`GitFails`) makes the Node report some other fingerprint: `status` failing
passes for a clean tree, `rev-parse` for no work tree. The gate passes when nothing
is expected yet (`runtime.ts` 853). A request that its caller gave up on is not carried out later by the Node: the
relay drops a request whose node is away, and late execution after a timeout is
left out.

### GatewayTask, AgentTask

A task after its start was bound, local or remote (`cap`). `node` is the run with
its journal, whether it left an output that can be recorded (`output`: there is
none when the agent printed none, or one too large or invalid) and how the Node's
store of results fares (`store`: a Node that cannot store or read a result answers
"missing", `NodeResult`), `row` the durable task with its log, cursor and result, `mem` the
in-memory task, `pump` the source (replay, live stream, poll of a local file),
`calls`, `fin` and `post` what is in flight. Every finisher (stream, GET, cancel,
reconciliation, recovery) runs through `FinishRemoteWithResult` and
`FinishWithTerminal` as in the code, so that they race. `Abs` maps the row to
`AgentTask`: the run's outcome, the status shown, the log's types, the result.

### TaskContract, GatewayAdmission

A create request is a record of fields, each absent, a value or ill-formed;
`TaskContract` validates it, says when two requests are the same, and translates
node, relay and transport errors up to the task client's transient/fatal
classification. `GatewayAdmission` lets several requests run their handlers
concurrently, each `await` a separate step, over slots (`activeCount`,
`pendingCreates`), durable rows and runs. A store fault is a failing statement of
the control database or a prompt file that cannot be written; two of them in one
handler reach the paths on which the code loses a reservation (`*PromptFails`) or
frees one twice (`CreateLocalLosesTwice`). A stop of a losing duplicate may fail.

### RelayRouting

Each daemon connection is a pair of FIFO channels whose two ends close
separately. What the daemon sent before its end closed may still reach the relay, in
order, until the relay notices the close, also when the node has registered on
another socket meanwhile; `latest` remembers whose `node_register` was accepted
last. Each request has a client socket of its own. The relay's pending maps
are one set, as no code reads two of them. One definition per message type of the
relay (`Route*`, `*Ack`), per daemon handler (`Handle*`, `*Throws`) and per
client function (`Remote*`, `OneShotLease`, `RelayNodePair`). The encrypted
variants differ in what the relay may see and in their error paths; ciphertexts
are opaque.

### RunStream

`file` is the run's event file, `tail` the tailer with the connection it was
started on, `jr` the journal with its oldest row and its retention column, `sub`
the subscription at the node, `wire` what is on its way, `cli` the client with
its cursor and what it got. Events are "out" or "end"; each journaled one carries
the line of the file it came from (`jr.line`) and `tail.lost` the lines whose append
failed, so that order, loss and repetition can be told apart. A prune may keep any
number of events, none included.

### LocalRun

The starting process, the supervisor and a stopper share the record and the event
file; `updateRun` is a read and a write. A turn of the chain has its gates
(repository, lease, sandbox), its child process, its timer and its classification;
a fallback starts another turn. Scenarios fix the agent asked for, what is
installed, the fallbacks, repository, lease, verifier and settings.

### WorkflowBuilder, WorkflowValidator

`WorkflowBuilder` has one session with several turn keys; handlers and approvers
interleave at every `await`; a crash loses them and keeps the store and the
compiler tasks. The answer of a compiler task is chosen once.

`WorkflowValidator` builds specifications from a menu of edges and of parts,
validates each as the code does (shape, reachability, iterative dominators,
references, routing, limits, compiler policy, inputs) and then walks every
accepted one, with any schema-valid output: the static checks are compared with
the dynamic behaviour they promise.

### RemoteTerminal

`page` is a browser's socket with the bridge behind it, `subs` the relay's
terminal subscribers, `bridge` the daemon's pumps, `tmux` the sessions. `Resolve`
is tmux's own target lookup: an exact name, or the one session it is a prefix of.
A bridge sends `terminal_close` only from the browser's close handler while its
relay socket is open: a browser error (`BrowserErrors`) and a relay socket that
breaks (`RelayBreaks`) skip it, and `orphans` remembers those pages.
The hop from relay to bridge is one step, `tmuxKillOwnedSession` is atomic, and
resize messages are left out.

## 3. Runs

Deadlock checking is off: each system may stop (the workflow ended, the bound on
requests or events is used up, clients need not ask again). Together the runs
take about ten minutes.

| Run | Instance | Properties |
|---|---|---|
| `lease` | 2 workflows, 2 workspaces, 2 runs, 1 daemon crash, silent supervisor deaths, refused bindings, dropped terminal events, idle tailers; fairness | `OneActiveLeasePerWorkspace`, `OpenRunHoldsItsLease`, `InUseEventuallyClears` |
| `runtime_loop` | planner -> executor (approval gate) -> planner, 2 rounds, 3 tasks, a policy that requires nothing of the result, 1 crash or shutdown, every fault but "store" | `RunsWithinLimits`, `PathFollowsRouting`, `NoStepAfterCancelIntent` |
| `runtime_stall` | one step (input gate) looping 3 rounds, stall policy of 2, a policy that requires something of the result, unreadable or unrecorded evidence, 1 crash or shutdown; fairness | `LoopsMakeProgress`, `VerifiedCompletion`, `RunningSettles` |
| `workflow_leases` | 2 workspaces, one outside Git, 2 fingerprints, 2 faults (timeouts, git failures or crashes), a rival, outside writers | `WorkIsLeased`, `SoleWriter`, `ForeignWriteStops`, `NoLeaseForgotten` |
| `gateway_task` | 1 journaled event before the end, 1 cancel, 2 result fetches, 2 faults (a failing result store included); all capabilities, with and without an output; fairness | `PublishedIsDurable`, `SourceLogExact`, `OutputKept`, `ImplementsAgentTask`, `TaskSettles` |
| `gateway_admission` | 3 requests over bodies of every kind, 2 slots, 1 retained task, 1 crash, 2 failures of the store or the prompt file | `OneRunPerKey`, `RepliesAgree`, `SlotsAccounted`, `FinalAnswerHasNoRun` |
| `relay_routing` | 2 nodes, 2 connections, 1 start and 1 other request of each kind, 1 relay restart, late frames, pairing required | `RegisteredIsReachable`, `OwnershipTrue`, `AnswersTrue` |
| `run_stream` | 4 events, queue of 2, any number of rows kept, 1 reconnect, 3 faults; fairness | `JournalInOrder`, `StreamExact`, `CompleteIsTrue`, `EndArrives` |
| `local_run` | 25 scenarios, 1 stop; fairness | `WriteNeedsLease`, `OneVerdict`, `LaunchedInItsRepo`, `FollowerEnds` |
| `builder` | 2 turn keys, 2 handlers, 1 approver, 4 requests, crashes | `TurnsAreSerial`, `CurrentIsLatestValid`, `ApprovedIsInspected` |
| `validator` | graphs of 3 steps and up to 4 edges of a menu of 38, routing of up to 3 of 36 branches, the other parts of a specification one by one | `AcceptedSpecsRoute`, `RefsResolved` |
| `terminal` | 2 pages, 2 session names one of which is a prefix of the other, 1 user action, 1 fault (a cut, a broken socket, a restart or a death); fairness | `ShownIsPumped`, `PumpsStop` |

`ImplementsAgentTask` is the refinement: `GatewayTask` implements `AgentTask`
under the mapping `Abs`.

Why the bounds are enough to meet the interesting cases. Two workflows and two
workspaces are what exclusion is about. In `runtime_loop` two rounds make the loop
edge and `max_rounds` both bite, three tasks of the four the path could use make
`max_tasks` bite, and one crash at every point covers each gap between two
transactions; a second crash replays the same recovery from the same rows.
`runtime_stall` needs a third round so that a round after a stalled one would
exist. `Rounds` holds one round more than the limit so that exceeding it is a
state and not an evaluation error. Two faults in `workflow_leases` and
`gateway_task` let a recovery itself be disturbed, or an ambiguous call be
followed by a crash; two fingerprints let a write be undone by another. Three requests in `gateway_admission` are a creator, a
competitor and a retry, on two slots, and two store failures are what a handler
needs to free its slot twice. In `relay_routing` the two connections may
belong to one node, which is a reconnect with a stale socket and the late frames
on it, or to two. Four
events and a queue of two let a queue overflow between replay and live delivery
while events are pruned. The mutants confirm that each property can be
violated within its bounds.

### Fairness

- `NodeLease!FairSpec`: supervised agents end (they have a timeout and a
  supervisor that writes the terminal event), the tailer's interval timer
  fires, a crashed daemon is restarted by its service manager. Nothing is
  assumed of lease requests. `RunStop` and faults are never forced;
  `InUseEventuallyClears` excepts a run that a fault has abandoned.
- `WorkflowRuntime!Fairness`: weak fairness of the pump and of each
  cancellation (Node's event loop), weak fairness of `Restart` and of a run's
  end; strong fairness of `GatewayAccepts` and `CreateReturns`, which says that
  a *transient* failure does not recur forever, which is the meaning the code
  gives to `TransientAgentTaskError` by retrying without a limit; strong
  fairness of `Exit`, since a pump that a late request starts comes and goes
  while `shutdown()` waits only for the ones it saw. No API call is fair: a
  client may never answer, resume or cancel. `RunningSettles` is checked without
  the faults `deadline` and `fatal_wait`, under which it fails (section 6).
- `GatewayTask!Fairness`: a client polls the task (the workflow runtime polls GET
  until it is terminal), a status call or a result fetch that is not lost is
  answered, the timers of a local task fire, a gateway that went down is started
  again. Nothing is assumed of the run, of the event stream or of cancels.
- `RunStream!FairSpec`: the tailer's timer fires, the node serves a subscription
  and drains its queue, an open socket delivers, a client that is to reconnect
  does.
- `LocalRun!Fairness`: the processes run, an agent exits (its timer sends
  SIGTERM), and a follower polls every 250 ms. An agent that ignores SIGTERM is
  excluded.
- `RemoteTerminal!FairSpec`: the relay handles what a bridge sent and the daemon
  handles what the relay sent.

## 4. Proofs

Every theorem is proved by TLAPS for all values of the constants that satisfy
the assumptions of its module, and so for any number of workflows, requests,
runs, connections, crashes and faults. The assumptions (`NodeLeaseAssumption`,
`RuntimeAssumption`, `LeasesAssumption`, `AdmissionAssumption`,
`BoundsAssumption`, `RelayAssumption`, `StreamAssumption`, `BuilderAssumption`,
`ScenariosAssumption`) say what kind of value each constant is and that the
markers for "nothing here" are not themselves values; TLC evaluates each in its
run. `WorkflowRuntime` has a second one, `AcyclicAssumption`: its normal edges have
no cycle, which `validateWorkflowSpec` makes sure of (`workflow/validator.ts` 428,
`findCycle` 463) before `createWorkflow` stores a specification. Without it two
executions of one round could lead to each other and the path would not be one.

Each proof module states an inductive invariant `IInv`, proves that `Init`
implies it and that every action preserves it (one step per action), and derives
the properties from it. TLC has checked each `IInv` on the instance of the
component's run. Few of the properties are inductive as they stand; the added
conjuncts say what an actor between two of its steps may rely on, and are the
argument why the code is right.

| Module | Theorems | Property |
|---|---|---|
| `NodeLease_proof` | `TypeCorrect`, `MutualExclusion`, `NoReleaseUnderOpenRun`, `ExclusiveWorkspaces` | `OneActiveLeasePerWorkspace`, `OpenRunHoldsItsLease`, `NoTwoWorkflowsInOneWorkspace` |
| `NodeLease_proof`, of `LocalRun` | `LeasedWrites`, `SingleVerdict`, `OwnRepo` | `WriteNeedsLease`, `OneVerdict`, `LaunchedInItsRepo` |
| `WorkflowRuntime_proof` | `TypeCorrect`, `DeadSteps`, `NoStepAfterCancel`, `RunLimits`, `OnePath`, `LoopsProgress`, `CompletionsVerified` | `DeadStepEndsWorkflow`, `NoStepAfterCancelIntent`, `RunsWithinLimits`, `PathFollowsRouting`, `LoopsMakeProgress`, `VerifiedCompletion` |
| `WorkflowLeases_proof` | `TypeCorrect`, `LeasedWork`, `OneWriter`, `GateStopsForeignWrites`, `LeasesRemembered` | `WorkIsLeased`, `SoleWriter`, `ForeignWriteStops`, `NoLeaseForgotten` |
| `GatewayAdmission_proof` | `TypeCorrect`, `AtMostOneRun`, `IdempotentReplies`, `NoSlotLost`, `FinalIsFinal` | `OneRunPerKey`, `RepliesAgree`, `SlotsAccounted`, `FinalAnswerHasNoRun` |
| `GatewayTask_proof` | `TypeCorrect`, `Implementation`, `PublishedDurable`, `OutputIsKept`, `SourceExact` | `ImplementsAgentTask`, `PublishedIsDurable`, `OutputKept`, `SourceLogExact` |
| `RunStream_proof` | `TypeCorrect`, `JournalOrdered`, `StreamIsExact`, `CompleteHistory` | `JournalInOrder`, `StreamExact`, `CompleteIsTrue` |
| `RelayRouting_proof` | `TypeCorrect`, `Reachability`, `Ownership`, `TrueAnswers` | `RegisteredIsReachable`, `OwnershipTrue`, `AnswersTrue` |
| `RelayRouting_proof`, of `RemoteTerminal` | `PanesAreLive` | `ShownIsPumped` |
| `WorkflowBuilder_proof` | `TypeCorrect`, `SerialTurns`, `LatestIsCurrent`, `ApprovalsHold` | `TurnsAreSerial`, `CurrentIsLatestValid`, `ApprovedIsInspected` |

**NodeLease.** Exclusion alone is inductive with typing: acquiring needs
that no other lease on the workspace is active. That an open run's lease is
active needs both guards: admission requires the lease active, release requires
no open run. `ExclusiveWorkspaces` combines them with `BoundInOwnWorkspace` (a run
is bound to a lease on the workspace it was admitted to): two open leased runs in
a workspace sit under two active leases on it, which are one lease.

**LocalRun** is proved about in `NodeLease_proof`, as `Run == INSTANCE LocalRun`:
the node's leases and the runs that present one belong together. Module and run
share the variables and the properties of `RunContract`, so that the theorems are
about the properties the run checks. The theorems have
`LocalRun`'s own `ScenariosAssumption` as their hypothesis. `RInv` has four parts
beside `WriteNeedsLease`: `Shape` (types); `GateKnows` (the permission that the
supervisor holds was decided in this turn, under a lease that was active when the
turn began, and nothing of a later turn has been launched), which is why a fallback
cannot inherit a permission; `SpawnKnows` (one agent lives at a time, and between
the workspace check and the spawn nobody is left who could repoint the origin);
`VerdictKnows` (until a stop writes its event, a terminal event is the last one and
its writer is done). The interleavings are those of the starting process, the
supervisor, the agents, the timer, the verifier and a stop.

**WorkflowRuntime.** `TypeOK` alone is not inductive: `CancelTask` indexes `task`
with the looked-up step and the pump stores the output of a result it believes
available. `IInv` adds `ActorsKnow` (what an actor at a program point may rely on),
`ResultsSound` (a run that is not over has no result yet, and a completed step has
an available one) and `DeadStepEndsWorkflow`
(a failed or cancelled step implies a terminal workflow, the comment on which
`driveWorkflow` relies when it returns on such a step). `NoStepAfterCancel` is an
action property, from `IInv` and one step lemma per group of actions. What carries
it is that an actor between the top-of-loop check and its write runs in the same
macrotask as the check, so the intent cannot become durable in between, and the
waits re-check before they route; for the same reason the workflow cannot come to
wait for a human after the intent.

The other four come from a second invariant, `IInv2`, inductive relative to the
first. `PumpKnows` says what the pump relies on after an await: it creates a task
only for an unbound execution with room under `max_tasks`, waits only for a bound
one, and decides "complete" only for a step that meets the policy (`Met`): a read
that fails can only take required evidence away. `RunsTrue` is the gap
that idempotency keys close: a run that is not bound to its execution, because a
crash or a lost answer came in between, is the current execution's, so the next
create finds it by its key. `Counted` ties `total_tasks` to the bound executions.
`OnPath` says that every execution but the current one is completed and was left
for one that was visited, and that every one but the entry's was entered from
exactly one; that an advance never reaches an execution that was visited before
needs the loop edge's new round and, within a round, `AcyclicAssumption`.
`EvidenceTrue` says that evidence is recorded for completed steps only, and that a
recorded conflict is one of the result's. TLC has
checked `IInv2` on both runtime instances.

**WorkflowLeases.** `Phases` says which worker may be where; `CallsTrue` ties each
call under way to the worker that waits for it, across lost replies and crashes.
`Prefix` (the targets the lease work has passed are active in the projection)
becomes `Held` when the workflow starts, which is the first half of
`WorkIsLeased`; `Leased` is the second: the Node does not release under a live
run. With the Node's `Exclusive` it gives `SoleWriter`. `ForeignWriteStops` needs
`Tainted` (a workspace that somebody else has left with another fingerprint than
the projection's differs from it now) and `GateTrue` (so does the gate's
observation of it, however late it is answered, unless git failed); both speak of
inequality only, as fingerprints may return to an earlier value. `NoLeaseForgotten` needs `Kept`: after the
start, a projection says "released" only of a lease the Node has let go, which
`ReleaseTrue` carries through an answer on its way.

**GatewayAdmission.** `Phases` says what a handler knows at each point (nothing is
sent before the row is written, only a start that reached the Node made a run);
`OneRowPerKey` is the unique index on the idempotency key; `RepliesTrue` makes an
answer name a durable row of the request's own key, so that two answers for one
key name one row; `FinalSettled` gives a final error only where no start was sent
or it was refused. `SlotsAccounted` is inductive with these: a slot and the
handler or task that owns it change together, except in the two places the
property names: a handler that leaves its reservation behind, and one that frees it
twice. Its proof counts, from the library's
theorems on cardinalities.

**GatewayTask.** `Implementation` is the refinement of `AgentTask`: initial states
map to initial states, and every step maps to one of the abstract task's or to a
stutter (`NextStep`). The settle of a task passes through states of the gateway
that no client sees, between the durable end and the end in memory; the invariant
therefore has two levels, `Sound` (what holds even there: row, pending result,
finishers and calls in flight carry the outcome the run really has) and `Good`
(`Sound`, and what is terminal on disk is terminal in memory). `Attended` is
what `OutputKept` needs: while the Node has an output and its store has never
failed, neither the row nor the pending result says "missing".

`SourceExact` adds `Exact`, the property by indices: the cursor is inside the
journal, each entry with a source carries the mapped event of its position, each
mapped position up to the cursor has an entry, and positions grow along the log.
`SourceStep` is what every action does to row and journal: it notes an event that
has no source, takes the one event behind the cursor (`Taken`), or leaves the row
alone while the journal grows. That a resent prefix, a late stream or a truncated
replay can do no more is the comparison of the position with the cursor, in the
transaction that writes both.

For a local task it adds `Polled`: such a task has no call, fetch or cursor; while
it is polled its next sequence number is the one behind the log, and the log has
the mapped events up to the position of the poll (`ReadTo`); while its run goes on,
polled or not, the log has no more of them than the journal (`Within`). The last is
what a recovery needs: `SeedExact` shows that `seedRecoveredLocalCursor` then finds
the position at which exactly the events of the log are read, since the count of
mapped events rises by at most one per event. The counting lemmas (`CountStep`,
`CountGrows`, `CountSame`) rest on the library's theorems on cardinalities.

**RunStream.** `JournalInOrder` is inductive with `JournalSound`: the lines of the
journal are increasing, and are those the tailer has read without the lost ones.
`PipeExact` is the heart: what the client has, what is on the wire
and what is queued at the node, in this order, are the journal from the
subscription's starting point on, with nothing left out between replay and live
delivery. `GotExact` keeps what was delivered when the pipe is cut. `ColumnTrue`
(the boundary column is the oldest row, unless the latest prune has emptied the
run) carries `CompleteHistory`, which needs no hypothesis about how much is kept.

**RelayRouting.** `Wired` relates daemon, socket and registry: what a daemon was
told, or will be told next on its open socket, about its registration is what the
registry says, as long as no other socket's `node_register` was accepted after its
own; a stale socket's close must not remove a newer registration.
`Channels` says that no request is under way twice, `Requests` that one still
under way was not carried out, and `Verdicted` that a verdict on the wire is true
and stays true, so that it is true when the relay hands it on. `Owned` is
ownership.

**RemoteTerminal** is proved about in `RelayRouting_proof`, as
`Web == INSTANCE RemoteTerminal` over the variables of `PaneContract`, without a hypothesis. `TInv` is `Sane` (types) and,
for each page: `Unopened` (before its relay socket opens, a page has nothing under
way anywhere), `Subscribed` (an open page is a subscriber before its
`terminal_open` reaches the node, and no close of it is under way), `FramesFed`
(behind a frame on its way the pump runs, or the message that it ended follows the
frame) and `ShownFed`, the property itself. The order of the two messages on the
one connection is what it rests on.

**WorkflowBuilder.** `Conversation` is the alternation of questions and answers
with the pending marker; `HandlersTrue` says that what a handler read is still so
as long as the revision it read is current, which is why a compare-and-set on the
revision is enough; `Answered` makes the current draft the latest validated one;
`Approved` says that a draft an approval holds stays ready and valid.

Only model-checked:

- Liveness under fairness is out of the prover's reach: `InUseEventuallyClears`,
  `RunningSettles`, `TaskSettles`, `EndArrives`, `FollowerEnds`, `PumpsStop`.
- `AcceptedSpecsRoute` and `RefsResolved`: what the recursive definitions of
  `WorkflowValidator` compute for every graph needs induction over data, which the
  provers do not do.

## 5. Plan

Done: the twelve runs and the theorems above. What would come next:

1. An abstract workflow life cycle that `WorkflowRuntime` implements.
2. The workflow event stream's cursor, and pruning in the control store.

## 6. Where the code differs from what its documents and comments say

The models follow the code. These behaviours are possible in it; no property
above forbids them, and the ones about the same matter say what they except.

Workflow runtime:

- `performCancellation` (`workflow/runtime.ts` 623) finds no task while
  `createTask` is in flight; the task is bound afterwards and runs on, although
  `docs/workflow-runtime.md` says that a cancelled workflow's task is cancelled.
- A failing `cancelTask` (633) is swallowed; the workflow is cancelled, its task is
  not. Recovery (179) lists running workflows only, so a cancellation recorded on
  another one is not resumed.
- A deadline noticed in the create loop (345) and a fatal error of the wait (374)
  end the pump and leave the workflow running until the next restart.
- A wait that fails transiently after `shutdown()` (373) is taken for a cancellation.
- A lost rollback release (833) leaks a Node lease when the workflow is cancelled
  before it ever started; a crash inside the rollback leaves an active projection
  that a later start trusts (762).
- If observing the revision after a step is given up, or the process dies between
  `createTask` and bind, the agent's own changes block the workflow at the next
  gate; the comment at 862-863 says that recovery observes again.
- The completion gate takes evidence it cannot read for absent (537-538). When the
  policy requires nothing of the result, a result that contradicts completion but
  cannot be read lets the workflow complete, although the comment at 508 says
  "conflicting → fail closed". A workflow may be completed with no recorded
  evidence (517), or with an earlier record that says "blocked" when the evidence
  could be read only after a crash.
- The revision gate compares HEAD and the porcelain status: another change of a
  file that is already dirty, and any write outside Git, leave the fingerprint as it
  was; a failing `git status` passes for a clean tree, and a workspace without an
  expected revision passes (853). `docs/workflow-workspace-leases.md` 183-185 says
  that the check degrades outside Git.

Leases: a lease is granted over a workspace in which an unleased run is live
(`node-journal/sqlite-journal.ts` 286); `run stop` records the end before the
signalled processes are gone (`relay/client.ts` 926); a run abandoned by its
tailer keeps its lease in use for ever; a run whose binding failed (217) is not
counted, so its lease can be released under it and taken by another workflow.

Gateway:

- A result is lost when the fetch after a terminal event fails or the gateway dies
  before it; a terminal event may be published that the store refused.
- A Node whose journal cannot store or read a result answers "missing" for an output
  that exists (`relay/client.ts` 329-335), and the gateway records it.
- A prompt file that cannot be written (`lib/agent-gateway.ts` 857) fails outside
  every `try` of `handleCreate`: the reservation of 817 is kept until the process
  ends. A failing look-up of the winner (986) frees a slot that 985 has freed
  already; it takes a first `stopRun` that failed, since otherwise the second one
  finds the run stopped and exits the process (`lib/run-actions.ts` 141-147). A
  duplicate whose stop failed works on.
- A cancel of a task whose remote start is in flight meets the case that the
  comment in `handleCancel` (1095-1097) excludes.
- A local task whose run ended while the gateway was down loses the events of the
  downtime; a cancel of a recovered local task before its reconciliation timer
  drains the file from the start and records events twice (`SourceLogExact` is
  about tasks that are replayed or polled).
- A start "definitely failed" (899) may have started: on an ack timeout, or when
  the Node throws after its backend started. Lease refusals by the Node become
  `internal_error` and are retried; an answer without an encryption key is not
  retryable and is classified as transient.
- `lib/request-fingerprint.ts` 27-30 says that every field that changes the
  execution is included; `verify` is not.

Relay and streams: a replay subscriber past the end, refused by the journal,
without the key, overflowed, or whose node reconnects is never told and waits; the
daemon never closes the replay subscriptions of an old relay connection; a failed
approval is answered without its request id, so the client times out; retention
with nothing kept (`node-journal/retention.ts` 27) leaves the boundary column as
it was, so that the first event after it is announced as a complete history; a
`node_register` that arrives on a dropped socket after the node has registered on a
new one (`relay/server.ts` 277-315) takes the entry, and the old socket's close
then leaves a connected node without one.

Local runs: a late `updateRun` of the supervisor can overwrite a stop; a stop that
races the supervisor's end writes a second terminal event (`OneVerdict` is about
runs nobody stops); a stop between spawn and the record of the child's pid leaves
the child; the daemon cannot kill a supervisor inside tmux; a child that ignores
SIGTERM keeps its run open; the automatic choice of an agent without an adapter
leaves the record queued; the fallback for a missing binary is never taken, since
an empty output tail is not `undefined` (`runtime/supervisor.ts` 357).

Validator: a loop edge that goes forward defeats the dominator check
(`workflow/validator.ts` 519-521; `RefsResolved` excepts it), and a step without
outgoing edges is accepted.

Builder: of two concurrent creates of one draft the second is answered with the
first, whose context may differ, without comparing fingerprints
(`workflow/compiler/compiler.ts` 90), so an accepted turn may have been compiled
from an older draft than the one it follows; the losing turn keeps its pending
marker and its retry fails.

Terminals: tmux resolves a name by prefix although `lib/tmux.ts` 18 says exact, so
keys, frames and kills of "a" reach "ab" once "a" is gone; a dead terminal server,
a browser socket error (`lib/terminal-remote.ts` 109) and a relay socket that breaks
while open (77-78) send no `terminal_close` and leave pumps running until the
session ends or the node's connection closes; a page whose node
connection was cut is never told.

## 7. Not modelled

- The workflow HTTP API and its event stream, the MCP server and the monitor:
  translations of requests, or readers that change nothing.
- HTML pages, command-line parsing and output, configuration.
- Cryptography and identity; prompt rendering and output parsing as text (their
  failures are faults of `WorkflowRuntime`).
- Of the gateway: the agent inventory, the workflow routes, the HTTP server, replay
  to subscribers of tasks no longer in memory, and local runs whose record cannot
  be read at recovery (`recovery_run_missing`). An append that the store refuses for
  size or storage (303) is modelled as the sequence mismatch it resembles.
- Of the relay: heartbeats, the node list (a node's view is one field of
  `TaskContract`), authentication by token, the error answer of a result request
  whose handler throws (`relay/client.ts` 702-703).
- Of the store and the journal: migrations, pruning of tasks and workflows,
  listings, `appendAt`; the Node's table of results is a store that answers or fails.
- The content of the workflow's context bundle.
- Multiple runtime processes over one store are excluded by
  `docs/workflow-runtime.md`, "Single-runtime-process limitation".
