---------------------------- MODULE WorkflowRuntime ----------------------------
(***************************************************************************)
(* One durable workflow driven by WorkflowRuntime (src/src/workflow/       *)
(* runtime.ts) over the composites of the SQLite control store             *)
(* (src/src/control/sqlite-store.ts) and an AgentTaskClient.               *)
(*                                                                         *)
(* Scheduling.  The store is synchronous, so a chain of awaits on the      *)
(* store runs to completion before the next macrotask: a request of the    *)
(* API and an answer of the task client arrive only when no actor is       *)
(* inside such a chain (Quiet).  An abort signal wakes the pump inside the *)
(* canceller's macrotask, so from there on the two interleave.  The        *)
(* process can die between any two store transactions: an action below     *)
(* performs at most one of them.                                           *)
(*                                                                         *)
(* The workflow has no workspace-bound step, so the runtime takes no       *)
(* lease: the paths behind leaseClient are left to another module.         *)
(***************************************************************************)
EXTENDS Integers, Sequences, FiniteSets

CONSTANTS
  Steps, Entry,       \* spec.steps, spec.entry_step
  Outputs,            \* what a parsed and validated step output can say
  Edges,              \* spec.edges; cond: conditional, when: the <<output, round>> it matches
  Gates,              \* Gates[s]: kind of the pause_before gate of step s, or "none"
  HasPolicy,          \* spec.completion_policy is declared
  Required,           \* the sources of the evidence the policy requires
  MaxStalled,         \* spec.stall_policy.max_stalled_rounds, 0 without a policy
  Fingerprints,       \* values of a round's stall fingerprint
  MaxRounds, MaxTasks,\* spec.limits
  MaxCrashes,         \* bound on process crashes
  Faults,             \* the environment's faults that may happen
  NoStep, NoExec, NoOutput, NoPrint

Rounds == 1..(MaxRounds + 1)   \* one more than the limit, so that exceeding it is a state
Execs == Steps \X Rounds       \* a step execution id: step and round (attempt is always 1)
Targets == {"$complete", "$failed", "$blocked"}
TerminalStatus == {"completed", "failed", "cancelled"}
Waiting == {"waiting_input", "waiting_approval"}
Actors == {"pump", "cancel"}   \* the pump, and a cancelWorkflow call

Edge == [from: Steps, to: Steps \cup Targets, kind: {"normal", "loop"},
         cond: BOOLEAN, when: SUBSET (Outputs \X Rounds)]

ASSUME RuntimeAssumption ==
  /\ Entry \in Steps
  /\ Edges \subseteq Edge
  /\ Gates \in [Steps -> {"none", "input", "approval"}]
  /\ HasPolicy \in BOOLEAN /\ Required \subseteq {"task", "result"}
  /\ MaxStalled \in Nat /\ MaxRounds \in Nat \ {0} /\ MaxTasks \in Nat /\ MaxCrashes \in Nat
  /\ Faults \subseteq {"transient", "fatal_create", "render", "fatal_wait",
                       "unreachable", "deadline", "bad_result", "shutdown", "store"}
  /\ NoStep \notin Steps /\ NoExec \notin Execs
  /\ NoOutput \notin Outputs /\ NoPrint \notin Fingerprints

\* findCycle, which validateWorkflowSpec runs on every specification before createWorkflow stores it:
\* wherever one stands among some of the steps, a normal edge leads out of them sooner or later.
ASSUME AcyclicAssumption ==
  \A S \in SUBSET Steps : S # {} => \E s \in S : \A g \in Edges : g.from = s /\ g.kind = "normal" => g.to \notin S

VARIABLES
  \* the workflow row
  status, cur, round, totalTasks, totalFailures, cancelRequested,
  \* the rows of its step executions: status, task_id set, output
  step, bound, output,
  \* human requests, stall fingerprints, completion evidence, workflow events
  request, stall, evidence, log,
  \* the Agent Tasks by idempotency key, and how many runs each key started
  task, launched,
  \* the process: where each actor is, the step a cancellation looked up, the
  \* pump's abort signal, whether shutdown() was called and whether
  \* max_runtime_seconds has passed
  up, pc, tgt, aborted, stopped, expired, crashes

wfRow == <<status, cur, round, totalTasks, totalFailures, cancelRequested>>
stepRows == <<step, bound, output>>
otherRows == <<request, stall, evidence>>
gateway == <<task, launched>>
process == <<up, tgt, aborted, stopped, expired, crashes>>
vars == <<wfRow, stepRows, otherRows, log, gateway, process, pc>>

\* What a durable result holds against completion: required evidence that is missing from
\* it (or from the step's row), and evidence that contradicts (a non-zero exit, failed tests).
Facts == {"missing", "conflict"}
NoTask == [st |-> "none", result |-> "pending", out |-> NoOutput, facts |-> {}]
Task == [st: {"none", "running", "completed", "failed", "cancelled"},
         result: {"pending", "available", "unparsable", "invalid", "missing"},
         out: Outputs \cup {NoOutput},
         facts: SUBSET Facts]

Decisions == {"complete", "blocked", "failed"}   \* CompletionDecision

ChainPoints == {"loop", "task", "create", "bind", "stalled", "lookup", "finish"} \cup Decisions
IOPoints == {"off", "backoff", "sent", "wait", "result", "call"}

EventTypes == {"workflow.created", "workflow.validated", "workflow.started", "workflow.paused",
               "workflow.resumed", "workflow.round_advanced", "workflow.completed",
               "workflow.failed", "workflow.blocked", "workflow.cancelled", "edge.selected",
               "step.started", "step.task_created", "step.completed", "step.failed"}
Event == [type: EventTypes, exec: Execs \cup {NoExec}]
WfEvent(t) == [type |-> t, exec |-> NoExec]
StepEvent(t, e) == [type |-> t, exec |-> e]

\* The current step execution: current_step_id, or the entry step before any step started.
CurStep == IF cur = NoStep THEN Entry ELSE cur
CurExec == <<CurStep, round>>

TypeOK ==
  /\ status \in {"absent", "ready", "running", "blocked"} \cup Waiting \cup TerminalStatus
  /\ cur \in Steps \cup {NoStep}
  /\ round \in Rounds
  /\ totalTasks \in Nat /\ totalFailures \in Nat
  /\ cancelRequested \in BOOLEAN
  /\ step \in [Execs -> {"none", "pending", "completed", "failed", "cancelled"}]
  /\ bound \in [Execs -> BOOLEAN]
  /\ output \in [Execs -> Outputs \cup {NoOutput}]
  /\ request \in [Execs -> {"none", "pending", "answered", "approved", "rejected"}]
  /\ stall \in [Rounds -> Fingerprints \cup {NoPrint}]
  /\ evidence \in [Execs -> Decisions \cup {"none"}]
  /\ log \in Seq(Event)
  /\ task \in [Execs -> Task]
  /\ launched \in [Execs -> Nat]
  /\ up \in BOOLEAN
  /\ pc \in [Actors -> ChainPoints \cup IOPoints]
  /\ tgt \in [Actors -> Execs \cup {NoExec}]
  /\ aborted \in BOOLEAN /\ stopped \in BOOLEAN /\ expired \in BOOLEAN
  /\ crashes \in 0..MaxCrashes

Init ==
  /\ status = "absent" /\ cur = NoStep /\ round = 1
  /\ totalTasks = 0 /\ totalFailures = 0 /\ cancelRequested = FALSE
  /\ step = [e \in Execs |-> "none"]
  /\ bound = [e \in Execs |-> FALSE]
  /\ output = [e \in Execs |-> NoOutput]
  /\ request = [e \in Execs |-> "none"]
  /\ stall = [r \in Rounds |-> NoPrint]
  /\ evidence = [e \in Execs |-> "none"]
  /\ log = <<>>
  /\ task = [e \in Execs |-> NoTask]
  /\ launched = [e \in Execs |-> 0]
  /\ up = TRUE
  /\ pc = [a \in Actors |-> "off"]
  /\ tgt = [a \in Actors |-> NoExec]
  /\ aborted = FALSE /\ stopped = FALSE /\ expired = FALSE
  /\ crashes = 0

Goto(a, l) == pc' = [pc EXCEPT ![a] = l]
Pump(l) == up /\ pc["pump"] = l
Quiet == up /\ \A a \in Actors : pc[a] \in IOPoints
Answered(l) == Quiet /\ pc["pump"] = l   \* an answer to the pump's call arrives

\* ensurePump: start a pump with a fresh AbortController, or keep the one there is.
EnsurePump ==
  IF pc["pump"] = "off" THEN Goto("pump", "loop") /\ aborted' = FALSE
                        ELSE UNCHANGED <<pc, aborted>>

(***************************************************************************)
(* Store composites: each is one transaction, a no-op when it already      *)
(* happened.                                                               *)
(***************************************************************************)

TerminalEvent == [completed |-> "workflow.completed", failed |-> "workflow.failed",
                  blocked |-> "workflow.blocked"]

TerminalizeWorkflow(s, edgeEvents) ==
  IF status = s \/ status \in TerminalStatus
  THEN UNCHANGED <<status, log>>
  ELSE /\ status' = s
       /\ log' = log \o Append(edgeEvents, WfEvent(TerminalEvent[s]))

EnsureStepStarted(e) ==
  IF step[e] # "none"
  THEN UNCHANGED <<step, cur, log>>
  ELSE /\ step' = [step EXCEPT ![e] = "pending"]
       /\ cur' = e[1]
       /\ log' = Append(log, StepEvent("step.started", e))

BindStepTaskOnce(e) ==
  IF bound[e]
  THEN UNCHANGED <<bound, totalTasks, log>>
  ELSE /\ bound' = [bound EXCEPT ![e] = TRUE]
       /\ totalTasks' = totalTasks + 1
       /\ log' = Append(log, StepEvent("step.task_created", e))

\* Throws on a step that was cancelled meanwhile: nothing is written and the pump ends.
CompleteStepAndCheckpoint(e, out) ==
  IF step[e] = "pending"
  THEN /\ step' = [step EXCEPT ![e] = "completed"]
       /\ output' = [output EXCEPT ![e] = out]
       /\ log' = Append(log, StepEvent("step.completed", e))
       /\ Goto("pump", "loop")
  ELSE /\ UNCHANGED <<step, output, log>>
       /\ Goto("pump", IF step[e] = "completed" THEN "loop" ELSE "off")

FailStepOnly(e) ==
  LET fails == step[e] = "pending"
  IN /\ step' = IF fails THEN [step EXCEPT ![e] = "failed"] ELSE step
     /\ totalFailures' = IF fails THEN totalFailures + 1 ELSE totalFailures
     /\ log' = log \o (IF fails THEN <<StepEvent("step.failed", e)>> ELSE <<>>)
     /\ UNCHANGED status

FailStepAndWorkflow(e) ==
  LET fails == step[e] = "pending"
      ends == status \notin TerminalStatus
  IN /\ step' = IF fails THEN [step EXCEPT ![e] = "failed"] ELSE step
     /\ totalFailures' = IF fails THEN totalFailures + 1 ELSE totalFailures
     /\ status' = IF ends THEN "failed" ELSE status
     /\ log' = log \o (IF fails THEN <<StepEvent("step.failed", e)>> ELSE <<>>)
                   \o (IF ends THEN <<WfEvent("workflow.failed")>> ELSE <<>>)

\* Mutant of AdvanceWorkflow: the round is not recomputed from the edge's kind.
AdvanceWorkflowEveryEdge(target, loop) ==
  /\ step' = [step EXCEPT ![<<target, round + 1>>] = "pending"]
  /\ cur' = target
  /\ round' = round + 1
  /\ log' = Append(log, StepEvent("step.started", <<target, round + 1>>))

AdvanceWorkflow(target, loop) ==
  LET nextRound == IF loop THEN round + 1 ELSE round
      next == <<target, nextRound>>
  IN IF step[next] # "none"
     THEN UNCHANGED <<step, cur, round, log>>
     ELSE /\ step' = [step EXCEPT ![next] = "pending"]
          /\ cur' = target
          /\ round' = nextRound
          /\ log' = log \o <<WfEvent("edge.selected")>>
                        \o (IF loop THEN <<WfEvent("workflow.round_advanced")>> ELSE <<>>)
                        \o <<StepEvent("step.started", next)>>

CancelStepAndWorkflow(e) ==
  IF status \in TerminalStatus
  THEN UNCHANGED <<status, step, log>>
  ELSE /\ status' = "cancelled"
       /\ step' = IF e # NoExec /\ step[e] = "pending"
                  THEN [step EXCEPT ![e] = "cancelled"] ELSE step
       /\ log' = Append(log, WfEvent("workflow.cancelled"))

\* Intent is monotonic, and a terminal workflow takes none.
RecordCancellationIntent == cancelRequested' = (cancelRequested \/ status \notin TerminalStatus)

\* rejectHumanRequestAndFailWorkflow: both in one transaction.
RejectHumanRequest(e) ==
  /\ request' = [request EXCEPT ![e] = "rejected"]
  /\ TerminalizeWorkflow("failed", <<>>)

ResumeWorkflowRunning ==
  /\ status' = "running"
  /\ log' = IF status = "running" THEN log ELSE Append(log, WfEvent("workflow.resumed"))

(***************************************************************************)
(* The client API.                                                         *)
(***************************************************************************)

CreateWorkflow ==
  /\ Quiet /\ status = "absent"
  /\ status' = "ready"
  /\ log' = <<WfEvent("workflow.created"), WfEvent("workflow.validated")>>
  /\ UNCHANGED <<cur, round, totalTasks, totalFailures, cancelRequested>>
  /\ UNCHANGED <<stepRows, otherRows, gateway, process, pc>>

StartWorkflow ==
  /\ Quiet /\ status \in {"ready", "running"}
  /\ status' = "running"
  /\ log' = IF status = "ready" THEN Append(log, WfEvent("workflow.started")) ELSE log
  /\ EnsurePump
  /\ UNCHANGED <<cur, round, totalTasks, totalFailures, cancelRequested>>
  /\ UNCHANGED <<stepRows, otherRows, gateway, up, tgt, stopped, expired, crashes>>

\* cancelWorkflow up to performCancellation: durable intent, then the abort signal.
CancelWorkflow ==
  /\ Quiet /\ pc["cancel"] = "off"
  /\ status \notin TerminalStatus \cup {"absent"}
  /\ RecordCancellationIntent
  /\ aborted' = (pc["pump"] # "off")
  /\ Goto("cancel", "lookup")
  /\ UNCHANGED <<status, cur, round, totalTasks, totalFailures>>
  /\ UNCHANGED <<stepRows, otherRows, log, gateway, up, tgt, stopped, expired, crashes>>

AnswerInput(e) ==
  /\ Quiet /\ Gates[e[1]] = "input" /\ request[e] = "pending"
  /\ request' = [request EXCEPT ![e] = "answered"]
  /\ UNCHANGED <<wfRow, stepRows, stall, evidence, log, gateway, process, pc>>

ApproveRequest(e) ==
  /\ Quiet /\ Gates[e[1]] = "approval" /\ request[e] = "pending"
  /\ request' = [request EXCEPT ![e] = "approved"]
  /\ UNCHANGED <<wfRow, stepRows, stall, evidence, log, gateway, process, pc>>

\* decideApproval with a rejection: the workflow fails and its pump is woken.
RejectRequest(e) ==
  /\ Quiet /\ Gates[e[1]] = "approval" /\ request[e] = "pending"
  /\ RejectHumanRequest(e)
  /\ aborted' = (pc["pump"] # "off")
  /\ UNCHANGED <<cur, round, totalTasks, totalFailures, cancelRequested>>
  /\ UNCHANGED <<stepRows, stall, evidence, gateway, up, tgt, stopped, expired, crashes, pc>>

\* The active request is the most recent one, which is the current step's.
ResumeWorkflow ==
  /\ Quiet
  /\ \/ status \in Waiting /\ request[CurExec] \in {"answered", "approved"}
     \/ status = "running"
  /\ ResumeWorkflowRunning
  /\ EnsurePump
  /\ UNCHANGED <<cur, round, totalTasks, totalFailures, cancelRequested>>
  /\ UNCHANGED <<stepRows, otherRows, gateway, up, tgt, stopped, expired, crashes>>

\* awaitWorkflow drives a pump whatever the status is.
AwaitWorkflow ==
  /\ Quiet /\ status # "absent" /\ pc["pump"] = "off"
  /\ EnsurePump
  /\ UNCHANGED <<wfRow, stepRows, otherRows, log, gateway, up, tgt, stopped, expired, crashes>>

(***************************************************************************)
(* performCancellation, run by a cancelWorkflow call and by the pump.      *)
(***************************************************************************)

PerformCancellation(a) ==
  /\ up /\ pc[a] = "lookup"
  /\ IF status \in TerminalStatus
     THEN Goto(a, "off") /\ UNCHANGED <<tgt, cancelRequested>>
     ELSE LET e == IF cur # NoStep /\ step[<<cur, round>>] # "none"
                   THEN <<cur, round>> ELSE NoExec
          IN /\ RecordCancellationIntent
             /\ tgt' = [tgt EXCEPT ![a] = e]
             /\ Goto(a, IF e # NoExec /\ bound[e] THEN "call" ELSE "finish")
  /\ UNCHANGED <<status, cur, round, totalTasks, totalFailures>>
  /\ UNCHANGED <<stepRows, otherRows, log, gateway, up, aborted, stopped, expired, crashes>>

\* cancelTask: a terminal task keeps its status; a failure of the call is swallowed.
CancelTask(a) ==
  /\ Quiet /\ pc[a] = "call"
  /\ \/ task' = IF task[tgt[a]].st = "running"
                THEN [task EXCEPT ![tgt[a]].st = "cancelled"] ELSE task
     \/ "unreachable" \in Faults /\ UNCHANGED task
  /\ Goto(a, "finish")
  /\ UNCHANGED <<wfRow, stepRows, otherRows, log, launched, process>>

FinishCancellation(a) ==
  /\ up /\ pc[a] = "finish"
  /\ CancelStepAndWorkflow(tgt[a])
  /\ Goto(a, "off")
  /\ UNCHANGED <<cur, round, totalTasks, totalFailures, cancelRequested>>
  /\ UNCHANGED <<bound, output, otherRows, gateway, process>>

(***************************************************************************)
(* driveWorkflow: the pump.  Each pass re-reads the durable state.         *)
(***************************************************************************)

\* failLimit, failWorkflow, blockWorkflow: terminalize and end the pump.
EndPump(s, edgeEvents) ==
  /\ TerminalizeWorkflow(s, edgeEvents)
  /\ Goto("pump", "off")
  /\ UNCHANGED <<cur, round, totalTasks, totalFailures, cancelRequested>>
  /\ UNCHANGED <<stepRows, otherRows, gateway, process>>

MovePump(l) ==
  /\ Goto("pump", l)
  /\ UNCHANGED <<wfRow, stepRows, otherRows, log, gateway, process>>

\* The checks at the top of the loop, in their order.
LoopEnds == Pump("loop") /\ (stopped \/ status # "running") /\ MovePump("off")

LoopCancels ==
  /\ Pump("loop") /\ ~stopped /\ status = "running" /\ cancelRequested
  /\ MovePump("lookup")

LoopExpires ==
  /\ Pump("loop") /\ ~stopped /\ status = "running" /\ ~cancelRequested /\ expired
  /\ EndPump("failed", <<>>)

\* Mutant of Driving: the pump does not look at cancel_requested.
DrivingOn == Pump("loop") /\ ~stopped /\ status = "running" /\ ~expired

Driving == Pump("loop") /\ ~stopped /\ status = "running" /\ ~cancelRequested /\ ~expired

\* The current step's execution, started if need be.  A failed or cancelled one ends the
\* pump: the workflow is taken to be terminal already.
StartStep ==
  /\ Driving /\ step[CurExec] # "completed"
  /\ EnsureStepStarted(CurExec)
  /\ Goto("pump", IF step[CurExec] \in {"failed", "cancelled"} THEN "off" ELSE "task")
  /\ UNCHANGED <<status, round, totalTasks, totalFailures, cancelRequested>>
  /\ UNCHANGED <<bound, output, otherRows, gateway, process>>

\* task_id is set: await that task.
ResumeTask == Pump("task") /\ bound[CurExec] /\ MovePump("wait")

\* max_tasks, the pause gate, then rendering stand before the task is created.
NeedsTask == Pump("task") /\ ~bound[CurExec]

TasksExhausted == NeedsTask /\ totalTasks >= MaxTasks /\ EndPump("failed", <<>>)

GatePassed(e) == Gates[e[1]] = "none" \/ request[e] \in {"answered", "approved"}

\* evaluatePauseGate with no response yet: createHumanRequestAndPause.
PauseForHuman ==
  /\ NeedsTask /\ totalTasks < MaxTasks /\ ~GatePassed(CurExec)
  /\ IF request[CurExec] = "rejected"
     THEN TerminalizeWorkflow("failed", <<>>) /\ UNCHANGED request
     ELSE /\ request' = [request EXCEPT ![CurExec] = "pending"]
          /\ IF status = "running"
             THEN /\ status' = IF Gates[CurStep] = "input" THEN "waiting_input"
                                                          ELSE "waiting_approval"
                  /\ log' = Append(log, WfEvent("workflow.paused"))
             ELSE UNCHANGED <<status, log>>
  /\ Goto("pump", "off")
  /\ UNCHANGED <<cur, round, totalTasks, totalFailures, cancelRequested>>
  /\ UNCHANGED <<stepRows, stall, evidence, gateway, process>>

RenderFails ==
  /\ NeedsTask /\ totalTasks < MaxTasks /\ GatePassed(CurExec)
  /\ "render" \in Faults
  /\ EndPump("failed", <<>>)

RenderPrompt ==
  /\ NeedsTask /\ totalTasks < MaxTasks /\ GatePassed(CurExec)
  /\ MovePump("create")

(***************************************************************************)
(* createAndBindTask: send, back off on a transient failure, bind.         *)
(***************************************************************************)

\* The head of the retry loop.  Past the deadline it returns 'stop', and the caller
\* returns on anything that is not 'ok'.
CreateTask ==
  /\ Pump("create")
  /\ MovePump(IF stopped \/ aborted \/ expired THEN "off" ELSE "sent")

BackoffEnds == Pump("backoff") /\ MovePump("create")

\* Mutant of GatewayAccepts: the idempotency key is not looked up.
GatewayAcceptsAgain ==
  /\ Answered("sent") /\ launched[CurExec] < 2
  /\ task' = [task EXCEPT ![CurExec].st = "running"]
  /\ launched' = [launched EXCEPT ![CurExec] = @ + 1]
  /\ UNCHANGED <<wfRow, stepRows, otherRows, log, process, pc>>

\* The gateway takes the request: the idempotency key finds the task or makes one.
GatewayAccepts ==
  /\ Answered("sent") /\ task[CurExec].st = "none"
  /\ task' = [task EXCEPT ![CurExec].st = "running"]
  /\ launched' = [launched EXCEPT ![CurExec] = @ + 1]
  /\ UNCHANGED <<wfRow, stepRows, otherRows, log, process, pc>>

CreateReturns == Answered("sent") /\ task[CurExec].st # "none" /\ MovePump("bind")

\* A lost answer or an unreachable gateway: the request may or may not have arrived.
CreateTransient == Answered("sent") /\ "transient" \in Faults /\ MovePump("backoff")

CreateFails == Answered("sent") /\ "fatal_create" \in Faults /\ EndPump("failed", <<>>)

BindTask ==
  /\ Pump("bind")
  /\ BindStepTaskOnce(CurExec)
  /\ Goto("pump", "wait")
  /\ UNCHANGED <<status, cur, round, totalFailures, cancelRequested>>
  /\ UNCHANGED <<step, output, otherRows, gateway, process>>

(***************************************************************************)
(* awaitTask and handleTaskTerminal.                                       *)
(***************************************************************************)

WaitInterrupted == Pump("wait") /\ ~stopped /\ aborted /\ MovePump("lookup")

WaitExpires == Pump("wait") /\ ~stopped /\ ~aborted /\ expired /\ EndPump("failed", <<>>)

\* After shutdown() the wait ends; but a wait that fails transiently looks at the abort
\* signal alone, which shutdown() raises as cancelWorkflow does.
WaitStops == Pump("wait") /\ stopped /\ MovePump("off")

WaitDropped ==
  /\ Answered("wait") /\ stopped /\ aborted /\ "transient" \in Faults
  /\ MovePump("lookup")

\* A fatal error of the task client: the pump's promise rejects and is dropped.
WaitFails == (Answered("wait") \/ Answered("result")) /\ "fatal_wait" \in Faults /\ MovePump("off")

FailStep(e) ==
  /\ FailStepAndWorkflow(e)
  /\ Goto("pump", "off")
  /\ UNCHANGED <<cur, round, totalTasks, cancelRequested>>
  /\ UNCHANGED <<bound, output, otherRows, gateway, process>>

\* What resolveTerminalResult and parseResultOutput make of a result that is there.
UseResult(e) ==
  \/ /\ task[e].result = "available"
     /\ CompleteStepAndCheckpoint(e, task[e].out)
     /\ UNCHANGED <<wfRow, bound, otherRows, gateway, process>>
  \/ task[e].result \in {"unparsable", "invalid"} /\ FailStep(e)
  \/ task[e].result = "missing" /\ EndPump("blocked", <<>>)

\* A terminal read, even one that comes back after an abort or the deadline.  A pending
\* result is awaited from here on, until its own deadline (result_awaited_since).
TaskTerminal ==
  LET e == CurExec IN
  /\ Answered("wait") /\ task[e].st \in {"completed", "failed", "cancelled"}
  /\ \/ cancelRequested /\ MovePump("lookup")
     \/ ~cancelRequested /\ task[e].st # "completed" /\ FailStep(e)
     \/ ~cancelRequested /\ task[e].st = "completed" /\ UseResult(e)
     \/ /\ ~cancelRequested /\ task[e].st = "completed" /\ task[e].result = "pending"
        /\ MovePump(IF aborted THEN "off" ELSE "result")

\* A re-read of the awaited result; cancel_requested is not looked at again.
ResultRead ==
  /\ Pump("result")
  /\ \/ Quiet /\ UseResult(CurExec)
     \/ task[CurExec].result = "pending" /\ aborted /\ MovePump("off")

\* resultIngestionDeadlineMs has passed since the durable marker.
ResultTimeout ==
  /\ Answered("result") /\ ~aborted /\ task[CurExec].result = "pending"
  /\ EndPump("blocked", <<>>)

(***************************************************************************)
(* routeAndAdvance: a completed step's output selects the next edge.       *)
(***************************************************************************)

\* selectEdge: a matching conditional edge, else a fallback; it must be the only one.
SelectEdge(e) ==
  LET outgoing == {g \in Edges : g.from = e[1]}
      matched == {g \in outgoing : g.cond /\ <<output[e], e[2]>> \in g.when}
      fallbacks == {g \in outgoing : ~g.cond}
  IN IF matched # {} THEN matched ELSE fallbacks

CanTakeLoopEdge(r) == r < MaxRounds

\* consecutiveUnchanged of the rounds up to r: the run of equal fingerprints that ends at r.
ConsecutiveUnchanged(r) ==
  Cardinality({i \in 1..r : \A j \in i..r : stall[j] = stall[r]})

\* Mutant of IsStalled: one more unchanged round is let pass.
IsStalledLate(r) == ConsecutiveUnchanged(r) > MaxStalled

IsStalled(r) == ConsecutiveUnchanged(r) >= MaxStalled

Routing == Driving /\ step[CurExec] = "completed"

RouteFails ==
  /\ Routing /\ Cardinality(SelectEdge(CurExec)) # 1
  /\ EndPump("failed", <<>>)

StatusOf == [t \in Targets |-> IF t = "$complete" THEN "completed"
                               ELSE IF t = "$failed" THEN "failed" ELSE "blocked"]

RouteTerminal ==
  /\ Routing
  /\ \E g \in Edges :
       /\ SelectEdge(CurExec) = {g} /\ g.to \in Targets
       /\ ~(g.to = "$complete" /\ HasPolicy)
       /\ EndPump(StatusOf[g.to], <<WfEvent("edge.selected")>>)

\* Mutant of EvaluateCompletion: evidence that could not be read is not asked for.
EvaluateCompletionUnread(e, read) ==
  IF "result" \in read /\ "conflict" \in task[e].facts THEN "failed"
  ELSE IF "result" \in read /\ "missing" \in task[e].facts THEN "blocked"
  ELSE "complete"

\* evaluateCompletion on what could be read of the step's task row and of its result: a
\* contradiction fails it, and whatever is required and not seen blocks it.
EvaluateCompletion(e, read) ==
  IF "result" \in read /\ "conflict" \in task[e].facts THEN "failed"
  ELSE IF "missing" \in task[e].facts \/ ~(Required \subseteq read) THEN "blocked"
  ELSE "complete"

\* assembleStepEvidence: a read of the store that throws leaves null in its place.
EvidenceReads == IF "store" \in Faults THEN SUBSET {"task", "result"} ELSE {{"task", "result"}}

\* recordCompletionEvidence: first write wins, and a write that fails is swallowed.
EvidenceRecords(d) == IF evidence[CurExec] # "none" THEN {evidence[CurExec]}
                      ELSE {d} \cup (IF "store" \in Faults THEN {"none"} ELSE {})

\* gateCompletion: the evidence as this pump reads it now, evaluated and recorded ...
RecordCompletionEvidence ==
  /\ Routing /\ HasPolicy
  /\ \E g \in Edges : SelectEdge(CurExec) = {g} /\ g.to = "$complete"
  /\ \E read \in EvidenceReads :
       LET d == EvaluateCompletion(CurExec, read) IN
       /\ \E rec \in EvidenceRecords(d) : evidence' = [evidence EXCEPT ![CurExec] = rec]
       /\ Goto("pump", d)
  /\ UNCHANGED <<wfRow, stepRows, request, stall, log, gateway, process>>

\* ... and the status that this evaluation, not the one recorded, allows.
GateStatus(d) == IF d = "complete" THEN "completed" ELSE d

GateCompletion ==
  \E d \in Decisions : Pump(d) /\ EndPump(GateStatus(d), <<WfEvent("edge.selected")>>)

RouteMaxRounds ==
  /\ Routing /\ ~CanTakeLoopEdge(round)
  /\ \E g \in Edges : SelectEdge(CurExec) = {g} /\ g.to \in Steps /\ g.kind = "loop"
  /\ EndPump("failed", <<>>)

\* checkStall: this round's fingerprint, first write wins.
RecordStallRound ==
  /\ Routing /\ CanTakeLoopEdge(round) /\ MaxStalled > 0
  /\ \E g \in Edges : SelectEdge(CurExec) = {g} /\ g.to \in Steps /\ g.kind = "loop"
  /\ \E f \in Fingerprints :
       stall' = [stall EXCEPT ![round] = IF @ = NoPrint THEN f ELSE @]
  /\ Goto("pump", "stalled")
  /\ UNCHANGED <<wfRow, stepRows, request, evidence, log, gateway, process>>

BlockNoProgress == Pump("stalled") /\ IsStalled(round) /\ EndPump("blocked", <<>>)

Advance ==
  /\ \/ Routing
     \/ Pump("stalled") /\ ~IsStalled(round)
  /\ \E g \in Edges :
       LET loop == g.kind = "loop" IN
       /\ SelectEdge(CurExec) = {g} /\ g.to \in Steps
       /\ loop => CanTakeLoopEdge(round)
       /\ pc["pump"] = "loop" => ~(loop /\ MaxStalled > 0)
       /\ AdvanceWorkflow(g.to, loop)
  /\ Goto("pump", "loop")
  /\ UNCHANGED <<status, totalTasks, totalFailures, cancelRequested>>
  /\ UNCHANGED <<bound, output, otherRows, gateway, process>>

(***************************************************************************)
(* The agents, the clock, and the process.                                 *)
(***************************************************************************)

\* A run ends.  A completed run's result is there at once or still on its way; outcomes
\* the runtime does not accept are a fault of the agent or of the node.
Results == {"pending", "available"} \cup
           (IF "bad_result" \in Faults THEN {"unparsable", "invalid", "missing"} ELSE {})

Deliver(e, res, out, facts) ==
  task' = [task EXCEPT ![e] = [st |-> "completed", result |-> res, out |-> out,
                               facts |-> facts]]

TaskCompletes(e) ==
  /\ up => Quiet
  /\ task[e].st = "running"
  /\ \E res \in Results, out \in Outputs, facts \in SUBSET Facts :
       IF res = "available" THEN Deliver(e, res, out, facts) ELSE Deliver(e, res, NoOutput, {})
  /\ UNCHANGED <<wfRow, stepRows, otherRows, log, launched, process, pc>>

ResultArrives(e) ==
  /\ up => Quiet
  /\ task[e].st = "completed" /\ task[e].result = "pending"
  /\ \E res \in Results \ {"pending"}, out \in Outputs, facts \in SUBSET Facts :
       IF res = "available" THEN Deliver(e, res, out, facts) ELSE Deliver(e, res, NoOutput, {})
  /\ UNCHANGED <<wfRow, stepRows, otherRows, log, launched, process, pc>>

\* The run fails, or is stopped by someone else.
TaskBreaks(e) ==
  /\ up => Quiet
  /\ "bad_result" \in Faults /\ task[e].st = "running"
  /\ \E s \in {"failed", "cancelled"} : task' = [task EXCEPT ![e].st = s]
  /\ UNCHANGED <<wfRow, stepRows, otherRows, log, launched, process, pc>>

\* max_runtime_seconds since started_at.
DeadlinePasses ==
  /\ "deadline" \in Faults /\ ~expired /\ status \notin {"absent", "ready"}
  /\ expired' = TRUE
  /\ UNCHANGED <<wfRow, stepRows, otherRows, log, gateway, up, tgt, aborted, stopped, crashes, pc>>

Crash ==
  /\ up /\ crashes < MaxCrashes
  /\ up' = FALSE
  /\ pc' = [a \in Actors |-> "off"]
  /\ tgt' = [a \in Actors |-> NoExec]
  /\ aborted' = FALSE /\ stopped' = FALSE
  /\ crashes' = crashes + 1
  /\ UNCHANGED <<wfRow, stepRows, otherRows, log, gateway, expired>>

\* shutdown(): raise the flag and every abort signal, then wait for the pump ...
Shutdown ==
  /\ "shutdown" \in Faults /\ Quiet /\ ~stopped /\ crashes < MaxCrashes
  /\ stopped' = TRUE
  /\ aborted' = (pc["pump"] # "off")
  /\ UNCHANGED <<wfRow, stepRows, otherRows, log, gateway, up, tgt, expired, crashes, pc>>

\* ... and leave the process.  A stop counts as one of MaxCrashes.
Exit ==
  /\ Quiet /\ stopped /\ pc["pump"] = "off" /\ crashes < MaxCrashes
  /\ up' = FALSE
  /\ pc' = [a \in Actors |-> "off"]
  /\ tgt' = [a \in Actors |-> NoExec]
  /\ aborted' = FALSE /\ stopped' = FALSE
  /\ crashes' = crashes + 1
  /\ UNCHANGED <<wfRow, stepRows, otherRows, log, gateway, expired>>

\* Mutant of Restart: no recovery.
RestartIdle ==
  /\ ~up /\ up' = TRUE
  /\ UNCHANGED <<wfRow, stepRows, otherRows, log, gateway, tgt, aborted, stopped, expired, crashes, pc>>

\* recoverWorkflows: a pump for a workflow that is `running`, and for no other.
Restart ==
  /\ ~up
  /\ up' = TRUE
  /\ pc' = [pc EXCEPT !["pump"] = IF status = "running" THEN "loop" ELSE "off"]
  /\ UNCHANGED <<wfRow, stepRows, otherRows, log, gateway, tgt, aborted, stopped, expired, crashes>>

(***************************************************************************)
(* The specification.                                                      *)
(***************************************************************************)

Api == \/ CreateWorkflow \/ StartWorkflow \/ CancelWorkflow \/ ResumeWorkflow \/ AwaitWorkflow
       \/ \E e \in Execs : AnswerInput(e) \/ ApproveRequest(e) \/ RejectRequest(e)

Cancellation(a) == PerformCancellation(a) \/ CancelTask(a) \/ FinishCancellation(a)

PumpSteps ==
  \/ LoopEnds \/ LoopCancels \/ LoopExpires \/ StartStep
  \/ ResumeTask \/ TasksExhausted \/ PauseForHuman \/ RenderFails \/ RenderPrompt
  \/ CreateTask \/ BackoffEnds \/ CreateTransient \/ CreateFails \/ BindTask
  \/ WaitInterrupted \/ WaitExpires \/ WaitStops \/ WaitDropped \/ WaitFails \/ TaskTerminal
  \/ ResultRead \/ ResultTimeout
  \/ RouteFails \/ RouteTerminal \/ RecordCompletionEvidence \/ GateCompletion
  \/ RouteMaxRounds \/ RecordStallRound \/ BlockNoProgress \/ Advance

Agents == \E e \in Execs : TaskCompletes(e) \/ ResultArrives(e) \/ TaskBreaks(e)

Next == \/ Api \/ PumpSteps \/ GatewayAccepts \/ CreateReturns \/ Agents
        \/ (\E a \in Actors : Cancellation(a))
        \/ DeadlinePasses \/ Crash \/ Shutdown \/ Exit \/ Restart

Spec == Init /\ [][Next]_vars

\* The event loop serves the pump and a cancellation in turn, a supervised process is
\* restarted, an agent's run ends, and a transient failure of the gateway is transient.
\* shutdown() waits for the pumps it saw, so one that a late request starts does not
\* keep the process from exiting.
Fairness ==
  /\ WF_vars(PumpSteps)
  /\ SF_vars(GatewayAccepts) /\ SF_vars(CreateReturns)
  /\ \A a \in Actors : WF_vars(Cancellation(a))
  /\ \A e \in Execs : WF_vars(TaskCompletes(e))
  /\ WF_vars(Restart) /\ SF_vars(Exit)

FairSpec == Spec /\ Fairness

(***************************************************************************)
(* Properties.                                                             *)
(***************************************************************************)

\* However often the process dies between createTask and bindStepTaskOnce, and however
\* often an answer is lost, a step execution starts one run; the runs started, bound or
\* not, never exceed max_tasks.
RunsWithinLimits ==
  /\ \A e \in Execs : launched[e] <= 1
  /\ Cardinality({e \in Execs : launched[e] > 0}) <= MaxTasks

\* The executions form one path through the spec: every one but the entry's was reached
\* by the one edge that a completed predecessor's stored output selects, and no output
\* was routed twice to different steps.
Reaches(e, f) ==
  \E g \in Edges :
    /\ step[e] = "completed" /\ SelectEdge(e) = {g}
    /\ f = <<g.to, IF g.kind = "loop" THEN e[2] + 1 ELSE e[2]>>
PathFollowsRouting ==
  \A f \in Execs : step[f] # "none" /\ f # <<Entry, 1>> =>
    Cardinality({e \in Execs : Reaches(e, f)}) = 1

\* Once the intent to cancel is durable no step starts, the round does not move, and the
\* workflow neither completes nor comes to wait for a human, whichever of pump and
\* cancelWorkflow is first.  (One that waits already stays so until the cancellation ends.)
NoStepAfterCancelIntent ==
  [][cancelRequested =>
       /\ \A e \in Execs : step[e] = "none" => step'[e] = "none"
       /\ round' = round
       /\ status' = "completed" => status = "completed"
       /\ status' \in Waiting => status \in Waiting]_vars

\* "failed/cancelled step -> workflow already terminal" (driveWorkflow): the pump may end
\* on such a step without looking at the workflow again.
DeadStepEndsWorkflow ==
  (\E e \in Execs : step[e] \in {"failed", "cancelled"}) => status \in TerminalStatus

\* A completed workflow that has a completion policy was completed by a bound step whose
\* run completed and misses nothing of what the policy requires, however many reads and
\* writes of the evidence failed and whichever crash made the gate evaluate it again.
\* When the policy requires anything of the result, nothing in the result contradicts
\* either, and no earlier evaluation recorded a contradiction.  (When it requires nothing
\* of the result, one that cannot be read hides its contradiction: the gate is open then.)
VerifiedCompletion ==
  status = "completed" /\ HasPolicy =>
    /\ step[CurExec] = "completed" /\ bound[CurExec]
    /\ task[CurExec].st = "completed"
    /\ "missing" \notin task[CurExec].facts
    /\ "result" \in Required => task[CurExec].facts = {} /\ evidence[CurExec] # "failed"

\* No round beyond a stalled one, nor beyond max_rounds: a loop edge is taken only while
\* the last max_stalled_rounds fingerprints are not all equal.
LoopsMakeProgress ==
  /\ round <= MaxRounds
  /\ MaxStalled > 0 =>
       \A r \in 1..(round - 1) :
         r >= MaxStalled => \E i \in (r - MaxStalled + 1)..r : stall[i] # stall[r]

\* A running workflow does not stay running: it completes, fails, blocks, pauses or is
\* cancelled, through crashes and transient gateway failures.
RunningSettles == (status = "running") ~> (status # "running")

================================================================================
