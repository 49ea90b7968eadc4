------------------------- MODULE WorkflowRuntime_proof -------------------------
(***************************************************************************)
(* Proofs about WorkflowRuntime, for every workflow specification (steps,  *)
(* edges, gates, limits), every set of faults and any number of crashes.   *)
(***************************************************************************)
EXTENDS WorkflowRuntime, FiniteSetTheorems, TLAPS

\* Where the actors can be, and what they know there: a cancelWorkflow call is inside
\* performCancellation only after the intent is durable, and inside a chain that began
\* with cancel_requested read as false no cancellation can arrive.
ActorsKnow ==
  /\ pc["cancel"] \in {"off", "lookup", "call", "finish"}
  /\ pc["cancel"] # "off" => cancelRequested
  /\ pc["pump"] \in {"task", "stalled"} \cup Decisions => ~cancelRequested

\* A step completed from a result that was there.
ResultsSound ==
  \A e \in Execs :
    /\ task[e].st \in {"none", "running"} => task[e].result = "pending"
    /\ step[e] = "completed" => task[e].result = "available"

\* The first invariant: types, where the actors can be, and what a step's end rests on.
IInv == TypeOK /\ ActorsKnow /\ ResultsSound /\ DeadStepEndsWorkflow

StatusValues == {"absent", "ready", "running", "blocked"} \cup Waiting \cup TerminalStatus

\* The current step execution is one of the specification's.
LEMMA CurExecType == TypeOK => CurExec \in Execs /\ CurExec = <<CurStep, round>> /\ CurStep \in Steps
BY RuntimeAssumption DEF TypeOK, CurExec, CurStep, Execs

\* What the actions append is an event.
LEMMA EventTypesOK ==
  /\ \A t \in EventTypes : WfEvent(t) \in Event
  /\ \A t \in EventTypes, e \in Execs : StepEvent(t, e) \in Event
  /\ \A s \in {"completed", "failed", "blocked"} : TerminalEvent[s] \in EventTypes
BY DEF Event, WfEvent, StepEvent, TerminalEvent, EventTypes

\* The events that precede a terminal one: none, or the edge that was selected.
LEMMA NoEdge == <<>> \in Seq(Event) /\ <<WfEvent("edge.selected")>> \in Seq(Event)
<1>1. WfEvent("edge.selected") \in Event
  BY EventTypesOK DEF EventTypes
<1> QED BY <1>1

\* Before the workflow is created nobody is at work and there is no task.
LEMMA InitIInv == Init => IInv
<1> SUFFICES ASSUME Init PROVE IInv
  OBVIOUS
<1>1. NoTask \in Task
  BY DEF NoTask, Task
<1>2. 1 \in Rounds /\ 0 \in 0..MaxCrashes
  BY RuntimeAssumption DEF Rounds
<1>3. pc \in [Actors -> ChainPoints \cup IOPoints] /\ tgt \in [Actors -> Execs \cup {NoExec}]
  BY DEF Init, IOPoints
<1>4. TypeOK
  <2>1. log \in Seq(Event)
    BY DEF Init
  <2>2. task \in [Execs -> Task] /\ launched \in [Execs -> Nat]
    BY <1>1 DEF Init
  <2>3. stall \in [Rounds -> Fingerprints \cup {NoPrint}] /\ output \in [Execs -> Outputs \cup {NoOutput}]
    BY DEF Init
  <2> QED BY <1>2, <1>3, <2>1, <2>2, <2>3 DEF Init, TypeOK
<1>5. ActorsKnow
  BY DEF Init, ActorsKnow, Decisions, Actors
<1>6. ResultsSound /\ DeadStepEndsWorkflow
  BY DEF Init, ResultsSound, DeadStepEndsWorkflow, NoTask
<1> QED BY <1>4, <1>5, <1>6 DEF IInv

\* terminalizeWorkflow writes a status and events of the log's type, and never takes a
\* workflow out of a terminal status.
LEMMA TerminalizeType ==
  ASSUME TypeOK, NEW s \in {"completed", "failed", "blocked"}, NEW ev \in Seq(Event),
         TerminalizeWorkflow(s, ev)
  PROVE  /\ status' \in StatusValues
         /\ log' \in Seq(Event)
         /\ status \in TerminalStatus => status' = status
<1>1. WfEvent(TerminalEvent[s]) \in Event
  BY EventTypesOK
<1>2. Append(ev, WfEvent(TerminalEvent[s])) \in Seq(Event)
  BY <1>1
<1>3. log \o Append(ev, WfEvent(TerminalEvent[s])) \in Seq(Event)
  BY <1>2 DEF TypeOK
<1> QED BY <1>3 DEF TerminalizeWorkflow, TypeOK, StatusValues, TerminalStatus

\* What moves the pump and nothing else preserves the invariant.
LEMMA MovePumpPreserves ==
  ASSUME IInv, NEW l \in {"off", "lookup", "wait", "create", "sent", "bind", "backoff", "result"},
         MovePump(l)
  PROVE  IInv'
<1>1. pc' \in [Actors -> ChainPoints \cup IOPoints] /\ pc'["cancel"] = pc["cancel"]
      /\ (pc'["pump"] = l)
  BY DEF IInv, TypeOK, MovePump, Goto, Actors, ChainPoints, IOPoints
<1>2. TypeOK'
  BY <1>1 DEF IInv, TypeOK, MovePump, wfRow, stepRows, otherRows, gateway, process
<1>3. ActorsKnow'
  BY <1>1 DEF IInv, ActorsKnow, Decisions, MovePump, wfRow, stepRows
<1>4. ResultsSound' /\ DeadStepEndsWorkflow'
  BY DEF IInv, ResultsSound, DeadStepEndsWorkflow, MovePump, wfRow, stepRows, gateway
<1> QED BY <1>2, <1>3, <1>4 DEF IInv

\* So does a pump that ends the workflow.
LEMMA EndPumpPreserves ==
  ASSUME IInv, NEW s \in {"completed", "failed", "blocked"}, NEW ev \in Seq(Event),
         EndPump(s, ev)
  PROVE  IInv'
<1>1. pc' \in [Actors -> ChainPoints \cup IOPoints] /\ pc'["cancel"] = pc["cancel"]
      /\ pc'["pump"] = "off"
  BY DEF IInv, TypeOK, EndPump, Goto, Actors, ChainPoints, IOPoints
<1>2. /\ status' \in StatusValues /\ log' \in Seq(Event)
      /\ status \in TerminalStatus => status' = status
  BY TerminalizeType DEF IInv, EndPump
<1>3. TypeOK'
  BY <1>1, <1>2 DEF IInv, TypeOK, StatusValues, EndPump, stepRows, otherRows, gateway, process
<1>4. ActorsKnow'
  BY <1>1 DEF IInv, ActorsKnow, Decisions, EndPump, stepRows
<1>5. ResultsSound' /\ DeadStepEndsWorkflow'
  BY <1>2 DEF IInv, ResultsSound, DeadStepEndsWorkflow, EndPump, stepRows, gateway
<1> QED BY <1>3, <1>4, <1>5 DEF IInv

\* failStepAndWorkflow fails the step and the workflow together.
LEMMA FailStepPreserves ==
  ASSUME IInv, NEW e \in Execs, FailStep(e)
  PROVE  IInv'
<1>1. pc' \in [Actors -> ChainPoints \cup IOPoints] /\ pc'["cancel"] = pc["cancel"]
      /\ pc'["pump"] = "off"
  BY DEF IInv, TypeOK, FailStep, Goto, Actors, ChainPoints, IOPoints
<1>2. log' \in Seq(Event)
  <2>1. StepEvent("step.failed", e) \in Event /\ WfEvent("workflow.failed") \in Event
    BY EventTypesOK DEF EventTypes
  <2>2. /\ <<StepEvent("step.failed", e)>> \in Seq(Event)
        /\ <<WfEvent("workflow.failed")>> \in Seq(Event)
        /\ <<>> \in Seq(Event)
    BY <2>1
  <2> DEFINE a == IF step[e] = "pending" THEN <<StepEvent("step.failed", e)>> ELSE <<>>
             b == IF status \notin TerminalStatus THEN <<WfEvent("workflow.failed")>> ELSE <<>>
  <2>3. a \in Seq(Event) /\ b \in Seq(Event)
    BY <2>2
  <2>4. log' = log \o a \o b
    BY DEF FailStep, FailStepAndWorkflow
  <2> HIDE DEF a, b
  <2> QED BY <2>3, <2>4 DEF IInv, TypeOK
<1>3. /\ step' \in [Execs -> {"none", "pending", "completed", "failed", "cancelled"}]
      /\ \A f \in Execs : step'[f] = "completed" => step[f] = "completed"
      /\ totalFailures' \in Nat
      /\ status' \in TerminalStatus /\ status' \in StatusValues
  BY DEF IInv, TypeOK, FailStep, FailStepAndWorkflow, TerminalStatus, StatusValues
<1>4. TypeOK'
  BY <1>1, <1>2, <1>3 DEF IInv, TypeOK, StatusValues, FailStep, otherRows, gateway, process
<1>5. ActorsKnow' /\ ResultsSound' /\ DeadStepEndsWorkflow'
  BY <1>1, <1>3 DEF IInv, ActorsKnow, Decisions, ResultsSound, DeadStepEndsWorkflow, FailStep, gateway
<1> QED BY <1>4, <1>5 DEF IInv

\* A step completes from the available result of its task.
LEMMA UseResultPreserves ==
  ASSUME IInv, NEW e \in Execs, UseResult(e)
  PROVE  IInv'
<1>1. CASE /\ task[e].result = "available"
           /\ CompleteStepAndCheckpoint(e, task[e].out)
           /\ UNCHANGED <<wfRow, bound, otherRows, gateway, process>>
  <2>1. pc' \in [Actors -> ChainPoints \cup IOPoints] /\ pc'["cancel"] = pc["cancel"]
        /\ pc'["pump"] \in {"loop", "off"}
    BY <1>1 DEF IInv, TypeOK, CompleteStepAndCheckpoint, Goto, Actors, ChainPoints, IOPoints
  <2>2. StepEvent("step.completed", e) \in Event
    BY EventTypesOK DEF EventTypes
  <2>3. log' \in Seq(Event)
    <3>1. log \in Seq(Event) /\ Append(log, StepEvent("step.completed", e)) \in Seq(Event)
      BY <2>2 DEF IInv, TypeOK
    <3>2. log' = log \/ log' = Append(log, StepEvent("step.completed", e))
      BY <1>1 DEF CompleteStepAndCheckpoint
    <3> QED BY <3>1, <3>2
  <2>4. task[e].out \in Outputs \cup {NoOutput}
    BY DEF IInv, TypeOK, Task
  <2>5. /\ step' \in [Execs -> {"none", "pending", "completed", "failed", "cancelled"}]
        /\ output' \in [Execs -> Outputs \cup {NoOutput}]
        /\ \A f \in Execs : step'[f] = "completed" => step[f] = "completed" \/ f = e
        /\ \A f \in Execs : step'[f] \in {"failed", "cancelled"} => step'[f] = step[f]
    BY <1>1, <2>4 DEF IInv, TypeOK, CompleteStepAndCheckpoint
  <2>6. TypeOK'
    BY <1>1, <2>1, <2>3, <2>5 DEF IInv, TypeOK, wfRow, otherRows, gateway, process
  <2>7. ActorsKnow' /\ ResultsSound' /\ DeadStepEndsWorkflow'
    BY <1>1, <2>1, <2>5 DEF IInv, ActorsKnow, Decisions, ResultsSound, DeadStepEndsWorkflow, wfRow, gateway
  <2> QED BY <2>6, <2>7 DEF IInv
<1>2. CASE FailStep(e)
  BY <1>2, FailStepPreserves
<1>3. CASE EndPump("blocked", <<>>)
  BY <1>3, NoEdge, EndPumpPreserves
<1> QED BY <1>1, <1>2, <1>3 DEF UseResult

\* Starting a pump, or keeping one, puts no actor at a point with knowledge.
LEMMA EnsurePumpType ==
  ASSUME IInv, EnsurePump
  PROVE  /\ pc' \in [Actors -> ChainPoints \cup IOPoints] /\ pc'["cancel"] = pc["cancel"]
         /\ pc'["pump"] \in {"loop", pc["pump"]}
         /\ aborted' \in BOOLEAN
BY ZenonT(40) DEF IInv, TypeOK, EnsurePump, Goto, Actors, ChainPoints, IOPoints

\* The client API.
LEMMA ApiPreserves ==
  ASSUME IInv, Api
  PROVE  IInv'
<1>1. CASE CreateWorkflow
  <2>1. WfEvent("workflow.created") \in Event /\ WfEvent("workflow.validated") \in Event
    BY EventTypesOK DEF EventTypes
  <2>2. log' \in Seq(Event)
    BY <1>1, <2>1 DEF CreateWorkflow
  <2>3. TypeOK'
    BY <1>1, <2>2 DEF IInv, TypeOK, CreateWorkflow, stepRows, otherRows, gateway, process
  <2>4. ActorsKnow' /\ ResultsSound' /\ DeadStepEndsWorkflow'
    BY <1>1 DEF IInv, ActorsKnow, Decisions, ResultsSound, DeadStepEndsWorkflow, TerminalStatus, CreateWorkflow,
                CurExec, CurStep, stepRows, gateway
  <2> QED BY <2>3, <2>4 DEF IInv
<1>2. CASE StartWorkflow
  <2>1. Append(log, WfEvent("workflow.started")) \in Seq(Event)
    BY EventTypesOK DEF EventTypes, IInv, TypeOK
  <2>2. log' \in Seq(Event)
    BY <1>2, <2>1 DEF StartWorkflow, IInv, TypeOK
  <2>3. TypeOK'
    BY <1>2, <2>2, EnsurePumpType DEF IInv, TypeOK, StartWorkflow, stepRows, otherRows, gateway
  <2>4. ActorsKnow'
    BY <1>2, EnsurePumpType DEF IInv, ActorsKnow, Decisions, StartWorkflow, CurExec, CurStep, stepRows
  <2>5. ResultsSound' /\ DeadStepEndsWorkflow'
    BY <1>2 DEF IInv, ResultsSound, DeadStepEndsWorkflow, TerminalStatus, StartWorkflow, stepRows, gateway
  <2> QED BY <2>3, <2>4, <2>5 DEF IInv
<1>3. CASE CancelWorkflow
  <2>1. /\ pc' \in [Actors -> ChainPoints \cup IOPoints]
        /\ pc'["cancel"] = "lookup" /\ pc'["pump"] = pc["pump"] /\ pc["pump"] \in IOPoints
    BY <1>3 DEF RecordCancellationIntent, IInv, TypeOK, CancelWorkflow, Goto, Quiet, Actors, ChainPoints, IOPoints
  <2>2. TypeOK'
    BY <1>3, <2>1 DEF RecordCancellationIntent, IInv, TypeOK, CancelWorkflow, stepRows, otherRows, gateway
  <2>3. ActorsKnow'
    BY <1>3, <2>1 DEF RecordCancellationIntent, IInv, ActorsKnow, Decisions, CancelWorkflow, IOPoints
  <2>4. ResultsSound' /\ DeadStepEndsWorkflow'
    BY <1>3 DEF RecordCancellationIntent, IInv, ResultsSound, DeadStepEndsWorkflow, CancelWorkflow, stepRows, gateway
  <2> QED BY <2>2, <2>3, <2>4 DEF IInv
<1>4. CASE ResumeWorkflow
  <2>1. Append(log, WfEvent("workflow.resumed")) \in Seq(Event)
    BY EventTypesOK DEF EventTypes, IInv, TypeOK
  <2>2. log' \in Seq(Event)
    BY <1>4, <2>1 DEF ResumeWorkflow, ResumeWorkflowRunning, IInv, TypeOK
  <2>3. TypeOK'
    BY <1>4, <2>2, EnsurePumpType DEF IInv, TypeOK, ResumeWorkflow, ResumeWorkflowRunning, stepRows, otherRows, gateway
  <2>4. ActorsKnow'
    BY <1>4, EnsurePumpType DEF IInv, ActorsKnow, Decisions, ResumeWorkflow, ResumeWorkflowRunning, CurExec, CurStep, stepRows
  <2>5. ResultsSound' /\ DeadStepEndsWorkflow'
    BY <1>4 DEF IInv, ResultsSound, DeadStepEndsWorkflow, TerminalStatus, Waiting, ResumeWorkflow, ResumeWorkflowRunning,
                stepRows, gateway
  <2> QED BY <2>3, <2>4, <2>5 DEF IInv
<1>5. CASE AwaitWorkflow
  <2>1. TypeOK'
    BY <1>5, EnsurePumpType
    DEF IInv, TypeOK, AwaitWorkflow, wfRow, stepRows, otherRows, gateway
  <2>2. ActorsKnow'
    BY <1>5, EnsurePumpType DEF IInv, ActorsKnow, Decisions, AwaitWorkflow, CurExec, CurStep, wfRow, stepRows
  <2>3. ResultsSound' /\ DeadStepEndsWorkflow'
    BY <1>5 DEF IInv, ResultsSound, DeadStepEndsWorkflow, AwaitWorkflow, wfRow, stepRows, gateway
  <2> QED BY <2>1, <2>2, <2>3 DEF IInv
<1>6. ASSUME NEW e \in Execs, AnswerInput(e) \/ ApproveRequest(e)
      PROVE  IInv'
  <2>1. TypeOK'
    BY <1>6, ZenonT(40) DEF IInv, TypeOK, AnswerInput, ApproveRequest, wfRow, stepRows, gateway, process
  <2>2. ActorsKnow' /\ ResultsSound' /\ DeadStepEndsWorkflow'
    BY <1>6 DEF IInv, ActorsKnow, Decisions, ResultsSound, DeadStepEndsWorkflow, AnswerInput, ApproveRequest,
                CurExec, CurStep, wfRow, stepRows, gateway
  <2> QED BY <2>1, <2>2 DEF IInv
<1>7. ASSUME NEW e \in Execs, RejectRequest(e)
      PROVE  IInv'
  <2>1. /\ status' \in StatusValues /\ log' \in Seq(Event)
        /\ status \in TerminalStatus => status' = status
    BY <1>7, NoEdge, TerminalizeType DEF IInv, RejectRequest, RejectHumanRequest
  <2>2. TypeOK'
    BY <1>7, <2>1 DEF IInv, TypeOK, StatusValues, RejectRequest, RejectHumanRequest, stepRows, gateway
  <2>3. ActorsKnow' /\ ResultsSound' /\ DeadStepEndsWorkflow'
    BY <1>7, <2>1 DEF IInv, ActorsKnow, Decisions, ResultsSound, DeadStepEndsWorkflow, RejectRequest, RejectHumanRequest,
                      CurExec, CurStep, stepRows, gateway
  <2> QED BY <2>2, <2>3 DEF IInv
<1> QED BY <1>1, <1>2, <1>3, <1>4, <1>5, <1>6, <1>7 DEF Api

\* performCancellation, by either actor: what a cancelled step leaves is a cancelled workflow.
LEMMA CancellationPreserves ==
  ASSUME IInv, NEW a \in Actors, Cancellation(a)
  PROVE  IInv'
<1>0. /\ a \in {"pump", "cancel"}
      /\ pc["pump"] \in {"task", "stalled"} \cup Decisions => pc["cancel"] = "off"
  BY DEF Actors, IInv, ActorsKnow, Decisions
<1>1. CASE PerformCancellation(a)
  <2>1. /\ pc' \in [Actors -> ChainPoints \cup IOPoints]
        /\ pc'[a] \in {"off", "call", "finish"}
        /\ \A b \in Actors : b # a => pc'[b] = pc[b]
    <3>1. Goto(a, "off") \/ Goto(a, "call") \/ Goto(a, "finish")
      BY <1>1, Zenon DEF PerformCancellation
    <3>2. pc \in [Actors -> ChainPoints \cup IOPoints]
      BY DEF IInv, TypeOK
    <3> QED BY <3>1, <3>2 DEF Goto, ChainPoints, IOPoints
  <2>2. /\ tgt' \in [Actors -> Execs \cup {NoExec}]
        /\ cancelRequested' \in BOOLEAN
        /\ cancelRequested => cancelRequested'
        /\ cancelRequested' # cancelRequested => pc[a] = "lookup"
    <3>1. CASE status \in TerminalStatus
      BY <1>1, <3>1 DEF IInv, TypeOK, PerformCancellation, RecordCancellationIntent
    <3>2. CASE status \notin TerminalStatus
      <4> DEFINE e == IF cur # NoStep /\ step[<<cur, round>>] # "none" THEN <<cur, round>> ELSE NoExec
      <4>1. e \in Execs \cup {NoExec}
        BY DEF IInv, TypeOK, Execs
      <4>2. tgt' = [tgt EXCEPT ![a] = e] /\ cancelRequested' = TRUE /\ pc[a] = "lookup"
        BY <1>1, <3>2 DEF PerformCancellation, RecordCancellationIntent
      <4> HIDE DEF e
      <4> QED BY <4>1, <4>2 DEF IInv, TypeOK
    <3> QED BY <3>1, <3>2
  <2>3. TypeOK'
    BY <1>1, <2>1, <2>2 DEF IInv, TypeOK, PerformCancellation, RecordCancellationIntent, stepRows, otherRows, gateway
  <2>4. ActorsKnow'
    <3>1. CASE a = "cancel"
      BY <1>0, <1>1, <2>1, <2>2, <3>1
      DEF IInv, ActorsKnow, Decisions, PerformCancellation, RecordCancellationIntent, CurExec, CurStep, stepRows, Actors
    <3>2. CASE a = "pump"
      BY <1>0, <1>1, <2>1, <2>2, <3>2
      DEF IInv, ActorsKnow, Decisions, PerformCancellation, RecordCancellationIntent, CurExec, CurStep, stepRows, Actors
    <3> QED BY <1>0, <3>1, <3>2
  <2>5. ResultsSound' /\ DeadStepEndsWorkflow'
    BY <1>1 DEF IInv, ResultsSound, DeadStepEndsWorkflow, PerformCancellation, RecordCancellationIntent, stepRows, gateway
  <2> QED BY <2>3, <2>4, <2>5 DEF IInv
<1>2. CASE CancelTask(a)
  <2>1. /\ pc' \in [Actors -> ChainPoints \cup IOPoints]
        /\ pc'[a] = "finish" /\ pc[a] = "call"
        /\ \A b \in Actors : b # a => pc'[b] = pc[b]
    BY <1>2 DEF IInv, TypeOK, CancelTask, Goto, ChainPoints, IOPoints
  <2>2. /\ task' \in [Execs -> Task]
        /\ \A e \in Execs : /\ task'[e].result = task[e].result
                            /\ task'[e].facts = task[e].facts
                            /\ task'[e].st = task[e].st \/ (task[e].st = "running" /\ task'[e].st = "cancelled")
    <3>1. \A t \in Task : /\ [t EXCEPT !.st = "cancelled"] \in Task
                          /\ [t EXCEPT !.st = "cancelled"].st = "cancelled"
                          /\ [t EXCEPT !.st = "cancelled"].result = t.result
                          /\ [t EXCEPT !.st = "cancelled"].facts = t.facts
      BY DEF Task
    <3>2. task \in [Execs -> Task]
      BY DEF IInv, TypeOK
    <3>3. CASE task' = task
      BY <3>2, <3>3 DEF Task
    <3>4. CASE task[tgt[a]].st = "running" /\ task' = [task EXCEPT ![tgt[a]].st = "cancelled"]
      <4>1. \A e \in Execs : task'[e] = IF e = tgt[a] THEN [task[e] EXCEPT !.st = "cancelled"]
                                                     ELSE task[e]
        BY <3>2, <3>4
      <4>2. task' \in [Execs -> Task]
        <5>1. \A e \in Execs : task'[e] \in Task
          BY <3>1, <3>2, <4>1
        <5> QED BY <3>2, <3>4, <5>1
      <4>3. ASSUME NEW e \in Execs
            PROVE  /\ task'[e].result = task[e].result
                   /\ task'[e].facts = task[e].facts
                   /\ task'[e].st = task[e].st \/ (task[e].st = "running" /\ task'[e].st = "cancelled")
        <5>1. task[e] \in Task
          BY <3>2
        <5>2. CASE e = tgt[a]
          BY <3>1, <3>4, <4>1, <5>1, <5>2
        <5>3. CASE e # tgt[a]
          BY <4>1, <5>1, <5>3
        <5> QED BY <5>2, <5>3
      <4> QED BY <4>2, <4>3
    <3> QED BY <1>2, <3>3, <3>4 DEF CancelTask
  <2>3. TypeOK'
    BY <1>2, <2>1, <2>2 DEF IInv, TypeOK, CancelTask, wfRow, stepRows, otherRows, process
  <2>4. ActorsKnow'
    BY <1>0, <1>2, <2>1 DEF IInv, ActorsKnow, Decisions, CancelTask, CurExec, CurStep, wfRow, stepRows, Actors
  <2>5. ResultsSound' /\ DeadStepEndsWorkflow'
    BY <1>2, <2>2 DEF IInv, ResultsSound, DeadStepEndsWorkflow, CancelTask, wfRow, stepRows
  <2> QED BY <2>3, <2>4, <2>5 DEF IInv
<1>3. CASE FinishCancellation(a)
  <2>1. /\ pc' \in [Actors -> ChainPoints \cup IOPoints]
        /\ pc'[a] = "off" /\ pc[a] = "finish"
        /\ \A b \in Actors : b # a => pc'[b] = pc[b]
    BY <1>3 DEF IInv, TypeOK, FinishCancellation, Goto, ChainPoints, IOPoints
  <2>2. log' \in Seq(Event)
    <3>1. Append(log, WfEvent("workflow.cancelled")) \in Seq(Event) /\ log \in Seq(Event)
      BY EventTypesOK DEF EventTypes, IInv, TypeOK
    <3> QED BY <1>3, <3>1 DEF FinishCancellation, CancelStepAndWorkflow
  <2>3. /\ step' \in [Execs -> {"none", "pending", "completed", "failed", "cancelled"}]
        /\ \A e \in Execs : step'[e] # step[e] => step[e] = "pending" /\ step'[e] = "cancelled"
        /\ status' \in TerminalStatus /\ status' \in StatusValues
    BY <1>3 DEF IInv, TypeOK, FinishCancellation, CancelStepAndWorkflow, TerminalStatus, StatusValues
  <2>4. TypeOK'
    BY <1>3, <2>1, <2>2, <2>3
    DEF IInv, TypeOK, StatusValues, FinishCancellation, otherRows, gateway, process
  <2>5. ActorsKnow'
    <3>1. CurExec' = CurExec
      BY <1>3 DEF FinishCancellation, CurExec, CurStep
    <3> QED BY <1>0, <1>3, <2>1, <3>1 DEF IInv, ActorsKnow, Decisions, FinishCancellation, Actors
  <2>6. ResultsSound' /\ DeadStepEndsWorkflow'
    BY <1>3, <2>3 DEF IInv, ResultsSound, DeadStepEndsWorkflow, FinishCancellation, gateway
  <2> QED BY <2>4, <2>5, <2>6 DEF IInv
<1> QED BY <1>1, <1>2, <1>3 DEF Cancellation

\* Starting the current step, under ~cancelRequested.
LEMMA StartStepPreserves ==
  ASSUME IInv, StartStep
  PROVE  IInv'
<1>1. /\ pc' \in [Actors -> ChainPoints \cup IOPoints] /\ pc'["cancel"] = pc["cancel"]
      /\ pc'["pump"] \in {"off", "task"}
  BY DEF IInv, TypeOK, StartStep, Goto, Actors, ChainPoints, IOPoints
<1>2. log' \in Seq(Event)
  <2>1. Append(log, StepEvent("step.started", CurExec)) \in Seq(Event)
    BY EventTypesOK, CurExecType DEF EventTypes, IInv, TypeOK
  <2> QED BY <2>1 DEF StartStep, EnsureStepStarted, IInv, TypeOK
<1>3. /\ step' \in [Execs -> {"none", "pending", "completed", "failed", "cancelled"}]
      /\ \A e \in Execs : step'[e] # step[e] => step'[e] = "pending"
      /\ cur' \in Steps \cup {NoStep}
  <2>1. CurExec \in Execs /\ CurExec[1] \in Steps
    BY CurExecType DEF IInv
  <2> DEFINE e == CurExec
  <2>2. \/ step' = step /\ cur' = cur
        \/ step' = [step EXCEPT ![e] = "pending"] /\ cur' = e[1]
    BY DEF StartStep, EnsureStepStarted
  <2> HIDE DEF e
  <2> QED BY <2>1, <2>2 DEF IInv, TypeOK, e
<1>4. TypeOK'
  BY <1>1, <1>2, <1>3 DEF IInv, TypeOK, StartStep, otherRows, gateway, process
<1>5. ActorsKnow'
  BY <1>1 DEF IInv, ActorsKnow, Decisions, StartStep, Driving
<1>6. ResultsSound' /\ DeadStepEndsWorkflow'
  BY <1>3 DEF IInv, ResultsSound, DeadStepEndsWorkflow, StartStep, gateway
<1> QED BY <1>4, <1>5, <1>6 DEF IInv

\* The pause gate: a workflow that pauses was running, so it has no failed step.
LEMMA PausePreserves ==
  ASSUME IInv, PauseForHuman
  PROVE  IInv'
<1>1. /\ pc' \in [Actors -> ChainPoints \cup IOPoints] /\ pc'["cancel"] = pc["cancel"]
      /\ pc'["pump"] = "off"
  BY DEF IInv, TypeOK, PauseForHuman, Goto, Actors, ChainPoints, IOPoints
<1>2. /\ status' \in StatusValues /\ log' \in Seq(Event)
      /\ status \in TerminalStatus => status' = status
      /\ request' \in [Execs -> {"none", "pending", "answered", "approved", "rejected"}]
  <2>1. CASE request[CurExec] = "rejected"
    <3>1. TerminalizeWorkflow("failed", <<>>) /\ UNCHANGED request
      BY <2>1 DEF PauseForHuman
    <3>2. /\ status' \in StatusValues /\ log' \in Seq(Event)
          /\ status \in TerminalStatus => status' = status
      BY <3>1, NoEdge, TerminalizeType DEF IInv
    <3> QED BY <3>1, <3>2 DEF IInv, TypeOK
  <2>2. CASE request[CurExec] # "rejected"
    <3>1. Append(log, WfEvent("workflow.paused")) \in Seq(Event) /\ log \in Seq(Event)
      BY EventTypesOK DEF EventTypes, IInv, TypeOK
    <3>2. log' \in Seq(Event)
      BY <2>2, <3>1 DEF PauseForHuman
    <3>3. /\ status' \in StatusValues /\ (status \in TerminalStatus => status' = status)
      BY <2>2 DEF PauseForHuman, IInv, TypeOK, StatusValues, Waiting, TerminalStatus
    <3>4. request' \in [Execs -> {"none", "pending", "answered", "approved", "rejected"}]
      BY <2>2 DEF PauseForHuman, IInv, TypeOK
    <3> QED BY <3>2, <3>3, <3>4
  <2> QED BY <2>1, <2>2
<1>3. TypeOK'
  BY <1>1, <1>2 DEF IInv, TypeOK, StatusValues, PauseForHuman, stepRows, gateway, process
<1>4. ActorsKnow' /\ ResultsSound' /\ DeadStepEndsWorkflow'
  BY <1>1, <1>2 DEF IInv, ActorsKnow, Decisions, ResultsSound, DeadStepEndsWorkflow, PauseForHuman, stepRows, gateway
<1> QED BY <1>3, <1>4 DEF IInv

\* Binding the task, once.
LEMMA BindPreserves ==
  ASSUME IInv, BindTask
  PROVE  IInv'
<1>1. /\ pc' \in [Actors -> ChainPoints \cup IOPoints] /\ pc'["cancel"] = pc["cancel"]
      /\ pc'["pump"] = "wait"
  BY DEF IInv, TypeOK, BindTask, Goto, Actors, ChainPoints, IOPoints
<1>2. log' \in Seq(Event)
  <2>1. Append(log, StepEvent("step.task_created", CurExec)) \in Seq(Event)
    BY EventTypesOK, CurExecType DEF EventTypes, IInv, TypeOK
  <2> QED BY <2>1 DEF BindTask, BindStepTaskOnce, IInv, TypeOK
<1>3. bound' \in [Execs -> BOOLEAN] /\ totalTasks' \in Nat
  <2>1. bound \in [Execs -> BOOLEAN] /\ (bound' = bound \/ bound' = [bound EXCEPT ![CurExec] = TRUE])
    BY DEF BindTask, BindStepTaskOnce, IInv, TypeOK
  <2>2. bound' \in [Execs -> BOOLEAN]
    <3>1. CASE bound' = bound
      BY <2>1, <3>1
    <3>2. CASE bound' = [bound EXCEPT ![CurExec] = TRUE]
      BY <2>1, <3>2
    <3> QED BY <2>1, <3>1, <3>2
  <2>3. totalTasks' \in Nat
    <3>1. totalTasks \in Nat /\ (totalTasks' = totalTasks \/ totalTasks' = totalTasks + 1)
      BY DEF BindTask, BindStepTaskOnce, IInv, TypeOK
    <3> QED BY <3>1
  <2> QED BY <2>2, <2>3
<1>4. TypeOK'
  BY <1>1, <1>2, <1>3 DEF IInv, TypeOK, BindTask, otherRows, gateway, process
<1>5. ActorsKnow' /\ ResultsSound' /\ DeadStepEndsWorkflow'
  BY <1>1 DEF IInv, ActorsKnow, Decisions, ResultsSound, DeadStepEndsWorkflow, BindTask, gateway
<1> QED BY <1>4, <1>5 DEF IInv

\* gateCompletion records and carries on with the decision of one evaluation.
LEMMA DecisionMade ==
  ASSUME RecordCompletionEvidence
  PROVE  \E d \in Decisions :
           /\ \E read \in EvidenceReads : d = EvaluateCompletion(CurExec, read)
           /\ \E rec \in EvidenceRecords(d) : evidence' = [evidence EXCEPT ![CurExec] = rec]
           /\ Goto("pump", d)
<1>1. PICK read \in EvidenceReads :
        /\ \E rec \in EvidenceRecords(EvaluateCompletion(CurExec, read)) : evidence' = [evidence EXCEPT ![CurExec] = rec]
        /\ Goto("pump", EvaluateCompletion(CurExec, read))
  BY Zenon DEF RecordCompletionEvidence
<1>2. EvaluateCompletion(CurExec, read) \in Decisions
  BY DEF EvaluateCompletion, Decisions
<1> QED BY <1>1, <1>2, Zenon

\* The completion gate and the stall check are entered under ~cancelRequested.
LEMMA GateAndStallPreserve ==
  ASSUME IInv, RecordCompletionEvidence \/ RecordStallRound
  PROVE  IInv'
<1>1. CASE RecordCompletionEvidence
  <2>0. PICK d \in Decisions : /\ \E rec \in EvidenceRecords(d) : evidence' = [evidence EXCEPT ![CurExec] = rec]
                               /\ Goto("pump", d)
    BY <1>1, DecisionMade
  <2>1. /\ pc' \in [Actors -> ChainPoints \cup IOPoints] /\ pc'["cancel"] = pc["cancel"]
        /\ pc'["pump"] = d
    BY <2>0 DEF IInv, TypeOK, Goto, Actors, ChainPoints
  <2>2. evidence' \in [Execs -> Decisions \cup {"none"}]
    <3>1. PICK rec \in EvidenceRecords(d) : evidence' = [evidence EXCEPT ![CurExec] = rec]
      BY <2>0
    <3>2. CurExec \in Execs /\ evidence \in [Execs -> Decisions \cup {"none"}]
      BY CurExecType DEF IInv, TypeOK
    <3>3. rec \in Decisions \cup {"none"}
      BY <3>1, <3>2 DEF EvidenceRecords
    <3> QED BY <3>1, <3>2, <3>3
  <2>3. TypeOK'
    BY <1>1, <2>1, <2>2 DEF IInv, TypeOK, RecordCompletionEvidence, wfRow, stepRows, gateway, process
  <2>4. CurExec' = CurExec /\ step' = step /\ step[CurExec] = "completed" /\ ~cancelRequested'
    BY <1>1 DEF RecordCompletionEvidence, Routing, Driving, CurExec, CurStep, wfRow, stepRows
  <2>5. ActorsKnow'
    BY <1>1, <2>1, <2>4 DEF IInv, ActorsKnow, Decisions, RecordCompletionEvidence, Routing, Driving
  <2>6. ResultsSound' /\ DeadStepEndsWorkflow'
    BY <1>1 DEF IInv, ResultsSound, DeadStepEndsWorkflow, RecordCompletionEvidence, wfRow, stepRows, gateway
  <2> QED BY <2>3, <2>5, <2>6 DEF IInv
<1>2. CASE RecordStallRound
  <2>1. /\ pc' \in [Actors -> ChainPoints \cup IOPoints] /\ pc'["cancel"] = pc["cancel"]
        /\ pc'["pump"] = "stalled"
    BY <1>2 DEF IInv, TypeOK, RecordStallRound, Goto, Actors, ChainPoints, IOPoints
  <2>2. stall' \in [Rounds -> Fingerprints \cup {NoPrint}]
    BY <1>2 DEF IInv, TypeOK, RecordStallRound
  <2>3. TypeOK'
    BY <1>2, <2>1, <2>2 DEF IInv, TypeOK, RecordStallRound, wfRow, stepRows, gateway, process
  <2>4. ActorsKnow'
    BY <1>2, <2>1 DEF IInv, ActorsKnow, Decisions, RecordStallRound, Routing, Driving, wfRow
  <2>5. ResultsSound' /\ DeadStepEndsWorkflow'
    BY <1>2 DEF IInv, ResultsSound, DeadStepEndsWorkflow, RecordStallRound, wfRow, stepRows, gateway
  <2> QED BY <2>3, <2>4, <2>5 DEF IInv
<1> QED BY <1>1, <1>2

\* The status the completion gate writes is the one of its decision.
LEMMA GateCompletionPreserves ==
  ASSUME IInv, GateCompletion
  PROVE  IInv'
<1>1. PICK d \in Decisions : EndPump(GateStatus(d), <<WfEvent("edge.selected")>>)
  BY DEF GateCompletion
<1>2. GateStatus(d) \in {"completed", "blocked", "failed"}
  BY DEF GateStatus, Decisions
<1> QED BY <1>1, <1>2, NoEdge, EndPumpPreserves

\* advanceWorkflow starts one step of the specification, in this round or, along a loop
\* edge below max_rounds, in the next: the round is one of Rounds.
LEMMA AdvanceType ==
  ASSUME IInv, NEW target \in Steps, NEW loop \in BOOLEAN, loop => CanTakeLoopEdge(round),
         AdvanceWorkflow(target, loop)
  PROVE  /\ step' \in [Execs -> {"none", "pending", "completed", "failed", "cancelled"}]
         /\ \A e \in Execs : step'[e] # step[e] => step'[e] = "pending"
         /\ cur' \in Steps \cup {NoStep} /\ round' \in Rounds /\ log' \in Seq(Event)
<1> DEFINE nextRound == IF loop THEN round + 1 ELSE round
           next == <<target, nextRound>>
           a == IF loop THEN <<WfEvent("workflow.round_advanced")>> ELSE <<>>
           b == <<StepEvent("step.started", next)>>
<1>1. nextRound \in Rounds
  <2>1. round \in Rounds /\ (loop => round < MaxRounds)
    BY DEF IInv, TypeOK, CanTakeLoopEdge
  <2> QED BY <2>1, RuntimeAssumption DEF Rounds
<1>2. next \in Execs
  BY <1>1 DEF Execs
<1>3. CASE step[next] # "none"
  <2>1. UNCHANGED <<step, cur, round, log>>
    BY <1>3 DEF AdvanceWorkflow
  <2> QED BY <2>1 DEF IInv, TypeOK
<1>4. CASE step[next] = "none"
  <2>1. /\ step' = [step EXCEPT ![next] = "pending"]
        /\ cur' = target /\ round' = nextRound
        /\ log' = log \o <<WfEvent("edge.selected")>> \o a \o b
    BY <1>4 DEF AdvanceWorkflow
  <2>2. a \in Seq(Event) /\ b \in Seq(Event)
    <3>1. WfEvent("workflow.round_advanced") \in Event /\ StepEvent("step.started", next) \in Event
      BY <1>2, EventTypesOK DEF EventTypes
    <3> HIDE DEF next
    <3> QED BY <3>1, NoEdge
  <2> HIDE DEF a, b, next, nextRound
  <2>3. log' \in Seq(Event)
    BY <2>1, <2>2, NoEdge DEF IInv, TypeOK
  <2> QED BY <1>1, <1>2, <2>1, <2>3 DEF IInv, TypeOK
<1> QED BY <1>3, <1>4

\* Advancing to the next step.
LEMMA AdvancePreserves ==
  ASSUME IInv, Advance
  PROVE  IInv'
<1>1. PICK g \in Edges : /\ g.to \in Steps
                         /\ g.kind = "loop" => CanTakeLoopEdge(round)
                         /\ AdvanceWorkflow(g.to, g.kind = "loop")
  BY Zenon DEF Advance
<1>2. \E loop \in BOOLEAN : (loop => CanTakeLoopEdge(round)) /\ AdvanceWorkflow(g.to, loop)
  <2> WITNESS (g.kind = "loop") \in BOOLEAN
  <2> QED BY <1>1
<1>3. /\ step' \in [Execs -> {"none", "pending", "completed", "failed", "cancelled"}]
      /\ \A e \in Execs : step'[e] # step[e] => step'[e] = "pending"
      /\ cur' \in Steps \cup {NoStep} /\ round' \in Rounds /\ log' \in Seq(Event)
  BY <1>1, <1>2, AdvanceType
<1>4. /\ pc' \in [Actors -> ChainPoints \cup IOPoints] /\ pc'["cancel"] = pc["cancel"]
      /\ pc'["pump"] = "loop"
  BY DEF IInv, TypeOK, Advance, Goto, Actors, ChainPoints, IOPoints
<1>5. TypeOK'
  BY <1>3, <1>4 DEF IInv, TypeOK, Advance, otherRows, gateway, process
<1>6. ActorsKnow' /\ ResultsSound' /\ DeadStepEndsWorkflow'
  BY <1>3, <1>4 DEF IInv, ActorsKnow, Decisions, ResultsSound, DeadStepEndsWorkflow, Advance, gateway
<1> QED BY <1>5, <1>6 DEF IInv

\* Every step of the pump.
LEMMA PumpPreserves ==
  ASSUME IInv, PumpSteps
  PROVE  IInv'
<1>0. CurExec \in Execs
  BY CurExecType DEF IInv
<1>1. CASE \/ LoopEnds \/ LoopCancels \/ ResumeTask \/ RenderPrompt \/ CreateTask \/ BackoffEnds
           \/ CreateTransient \/ WaitInterrupted \/ WaitStops \/ WaitDropped \/ WaitFails
  <2>1. \E l \in {"off", "lookup", "wait", "create", "sent", "bind", "backoff", "result"} : MovePump(l)
    BY <1>1 DEF LoopEnds, LoopCancels, ResumeTask, RenderPrompt, CreateTask, BackoffEnds,
                CreateTransient, WaitInterrupted, WaitStops, WaitDropped, WaitFails
  <2> QED BY <2>1, MovePumpPreserves
<1>2. CASE \/ LoopExpires \/ TasksExhausted \/ RenderFails \/ CreateFails \/ WaitExpires
           \/ ResultTimeout \/ RouteFails \/ RouteMaxRounds \/ BlockNoProgress
  <2>1. \E s \in {"completed", "failed", "blocked"} : EndPump(s, <<>>)
    BY <1>2 DEF LoopExpires, TasksExhausted, RenderFails, CreateFails, WaitExpires,
                ResultTimeout, RouteFails, RouteMaxRounds, BlockNoProgress
  <2> QED BY <2>1, NoEdge, EndPumpPreserves
<1>3. CASE RouteTerminal
  <2>1. PICK g \in Edges : g.to \in Targets /\ EndPump(StatusOf[g.to], <<WfEvent("edge.selected")>>)
    BY <1>3 DEF RouteTerminal
  <2>2. StatusOf[g.to] \in {"completed", "failed", "blocked"}
    BY <2>1 DEF StatusOf, Targets
  <2> QED BY <2>1, <2>2, NoEdge, EndPumpPreserves
<1>4. CASE TaskTerminal
  <2>1. \/ \E l \in {"off", "lookup", "wait", "create", "sent", "bind", "backoff", "result"} : MovePump(l)
        \/ FailStep(CurExec) \/ UseResult(CurExec)
    BY <1>4 DEF TaskTerminal
  <2> QED BY <1>0, <2>1, MovePumpPreserves, FailStepPreserves, UseResultPreserves
<1>5. CASE ResultRead
  BY <1>0, <1>5, MovePumpPreserves, UseResultPreserves DEF ResultRead
<1>6. CASE StartStep \/ PauseForHuman \/ BindTask \/ GateCompletion \/ Advance
           \/ RecordCompletionEvidence \/ RecordStallRound
  BY <1>6, StartStepPreserves, PausePreserves, BindPreserves, GateCompletionPreserves,
     AdvancePreserves, GateAndStallPreserve
<1> QED BY <1>1, <1>2, <1>3, <1>4, <1>5, <1>6 DEF PumpSteps

\* What only the tasks' rows see: a task starts, ends, or its result arrives.
LEMMA TaskRowPreserves ==
  ASSUME IInv, NEW e \in Execs, NEW t \in Task, task' = [task EXCEPT ![e] = t],
         task[e].result = "pending", launched' \in [Execs -> Nat],
         t.st \in {"none", "running"} => t.result = "pending",
         UNCHANGED <<wfRow, stepRows, otherRows, log, process, pc>>
  PROVE  IInv'
<1>1. step[e] # "completed"
  BY DEF IInv, ResultsSound
<1>2. task' \in [Execs -> Task]
  BY DEF IInv, TypeOK
<1>3. TypeOK'
  BY <1>2 DEF IInv, TypeOK, wfRow, stepRows, otherRows, process
<1>4. ActorsKnow' /\ DeadStepEndsWorkflow'
  BY DEF IInv, ActorsKnow, Decisions, DeadStepEndsWorkflow, CurExec, CurStep, wfRow, stepRows
<1>5. ResultsSound'
  <2>1. \A f \in Execs : task'[f] = IF f = e THEN t ELSE task[f]
    BY DEF IInv, TypeOK
  <2> QED BY <1>1, <2>1 DEF IInv, ResultsSound, stepRows
<1> QED BY <1>3, <1>4, <1>5 DEF IInv

\* A task starts under its idempotency key, or it ends, or its result arrives.
LEMMA TasksPreserve ==
  ASSUME IInv, GatewayAccepts \/ Agents
  PROVE  IInv'
<1>0. CurExec \in Execs /\ launched \in [Execs -> Nat] /\ task \in [Execs -> Task]
  BY CurExecType DEF IInv, TypeOK
<1>1. CASE GatewayAccepts
  <2> DEFINE e == CurExec
             t == [task[e] EXCEPT !.st = "running"]
  <2>1. task[e] \in Task /\ task[e].st = "none" /\ task[e].result = "pending"
    BY <1>0, <1>1 DEF GatewayAccepts, IInv, ResultsSound
  <2>2. t \in Task /\ t.result = "pending"
    BY <2>1 DEF Task
  <2>3. task' = [task EXCEPT ![e] = t]
    BY <1>0, <1>1 DEF GatewayAccepts
  <2>4. launched' \in [Execs -> Nat]
    BY <1>0, <1>1 DEF GatewayAccepts
  <2>5. UNCHANGED <<wfRow, stepRows, otherRows, log, process, pc>>
    BY <1>1 DEF GatewayAccepts
  <2> HIDE DEF t, e
  <2> QED BY <1>0, <2>1, <2>2, <2>3, <2>4, <2>5, TaskRowPreserves DEF e
<1>2. ASSUME NEW e \in Execs, TaskCompletes(e) \/ ResultArrives(e)
      PROVE  IInv'
  <2>1. task[e].result = "pending"
    BY <1>2 DEF TaskCompletes, ResultArrives, IInv, ResultsSound
  <2>2. PICK res \in {"pending", "available", "unparsable", "invalid", "missing"},
             out \in Outputs \cup {NoOutput}, v \in SUBSET Facts : Deliver(e, res, out, v)
    BY <1>2 DEF TaskCompletes, ResultArrives, Results
  <2> DEFINE t == [st |-> "completed", result |-> res, out |-> out, facts |-> v]
  <2>3. t \in Task /\ t.st = "completed"
    BY <2>2 DEF Task
  <2>4. task' = [task EXCEPT ![e] = t]
    BY <2>2 DEF Deliver
  <2>5. UNCHANGED <<wfRow, stepRows, otherRows, log, process, pc>> /\ launched' = launched
    BY <1>2 DEF TaskCompletes, ResultArrives
  <2> HIDE DEF t
  <2> QED BY <1>0, <1>2, <2>1, <2>3, <2>4, <2>5, TaskRowPreserves
<1>3. ASSUME NEW e \in Execs, TaskBreaks(e)
      PROVE  IInv'
  <2>1. task[e].result = "pending" /\ task[e] \in Task
    BY <1>0, <1>3 DEF TaskBreaks, IInv, ResultsSound
  <2>2. PICK s \in {"failed", "cancelled"} : task' = [task EXCEPT ![e].st = s]
    BY <1>3 DEF TaskBreaks
  <2> DEFINE t == [task[e] EXCEPT !.st = s]
  <2>3. t \in Task /\ t.result = "pending"
    BY <2>1 DEF Task
  <2>4. task' = [task EXCEPT ![e] = t]
    BY <1>0, <2>2
  <2>5. UNCHANGED <<wfRow, stepRows, otherRows, log, process, pc>> /\ launched' = launched
    BY <1>3 DEF TaskBreaks
  <2> HIDE DEF t
  <2> QED BY <1>0, <1>3, <2>1, <2>3, <2>4, <2>5, TaskRowPreserves
<1> QED BY <1>1, <1>2, <1>3 DEF Agents

\* The clock, a crash and a recovery leave no actor at a point with knowledge.
LEMMA ProcessPreserves ==
  ASSUME IInv, DeadlinePasses \/ Crash \/ Shutdown \/ Exit \/ Restart
  PROVE  IInv'
<1>1. /\ pc' \in [Actors -> ChainPoints \cup IOPoints]
      /\ pc' = pc \/ (pc'["cancel"] \in {"off", pc["cancel"]} /\ pc'["pump"] \in {"off", "loop"})
  BY DEF IInv, TypeOK, DeadlinePasses, Crash, Shutdown, Exit, Restart, Actors, ChainPoints, IOPoints
<1>2. crashes' \in 0..MaxCrashes
  BY RuntimeAssumption DEF IInv, TypeOK, DeadlinePasses, Crash, Shutdown, Exit, Restart
<1>3. tgt' \in [Actors -> Execs \cup {NoExec}] /\ up' \in BOOLEAN /\ aborted' \in BOOLEAN
      /\ stopped' \in BOOLEAN /\ expired' \in BOOLEAN
  BY DEF IInv, TypeOK, DeadlinePasses, Crash, Shutdown, Exit, Restart
<1>4. UNCHANGED <<wfRow, stepRows, otherRows, log, gateway>>
  BY DEF DeadlinePasses, Crash, Shutdown, Exit, Restart
<1>5. TypeOK'
  BY <1>1, <1>2, <1>3, <1>4 DEF IInv, TypeOK, wfRow, stepRows, otherRows, gateway
<1>6. ActorsKnow'
  BY <1>1, <1>4 DEF IInv, ActorsKnow, Decisions, CurExec, CurStep, wfRow, stepRows
<1>7. ResultsSound' /\ DeadStepEndsWorkflow'
  BY <1>4 DEF IInv, ResultsSound, DeadStepEndsWorkflow, wfRow, stepRows, gateway
<1> QED BY <1>5, <1>6, <1>7 DEF IInv

\* IInv is inductive.
LEMMA NextIInv == IInv /\ [Next]_vars => IInv'
<1> SUFFICES ASSUME IInv, [Next]_vars PROVE IInv'
  OBVIOUS
<1>1. CASE Next
  <2>1. CASE CreateReturns
    <3>1. MovePump("bind")
      BY <2>1 DEF CreateReturns
    <3> QED BY <3>1, MovePumpPreserves
  <2> QED BY <1>1, <2>1, ApiPreserves, PumpPreserves, TasksPreserve, CancellationPreserves,
             ProcessPreserves DEF Next
<1>2. CASE UNCHANGED vars
  <2>1. TypeOK'
    BY <1>2 DEF IInv, TypeOK, vars, wfRow, stepRows, otherRows, gateway, process
  <2>2. ActorsKnow' /\ ResultsSound' /\ DeadStepEndsWorkflow'
    BY <1>2 DEF IInv, ActorsKnow, Decisions, ResultsSound, DeadStepEndsWorkflow, CurExec, CurStep,
                vars, wfRow, stepRows, gateway
  <2> QED BY <2>1, <2>2 DEF IInv
<1> QED BY <1>1, <1>2

\* The rows of the store, the tasks and the actors have their types in every reachable
\* state, for any workflow: in particular the status the completion gate writes is a
\* workflow status, and no loop edge takes the round out of its range.
THEOREM TypeCorrect == Spec => []TypeOK
<1>1. IInv => TypeOK
  BY DEF IInv
<1> QED BY <1>1, InitIInv, NextIInv, PTL DEF Spec

\* driveWorkflow ends its pump on a failed or cancelled step without looking at the
\* workflow: every transaction that fails or cancels a step makes the workflow terminal.
THEOREM DeadSteps == Spec => []DeadStepEndsWorkflow
<1>1. IInv => DeadStepEndsWorkflow
  BY DEF IInv
<1> QED BY <1>1, InitIInv, NextIInv, PTL DEF Spec

\* One step under a durable intent to cancel, as NoStepAfterCancelIntent states it.
CancelBars ==
  cancelRequested =>
    /\ \A e \in Execs : step[e] = "none" => step'[e] = "none"
    /\ round' = round
    /\ status' = "completed" => status = "completed"
    /\ status' \in Waiting => status \in Waiting

\* Of the composites, those the pump can still reach complete or end a step, or fail or
\* block the workflow.
LEMMA EndingsBar ==
  ASSUME IInv, NEW e \in Execs,
         \/ \E s \in {"failed", "blocked"} : EndPump(s, <<>>)
         \/ FailStep(e) \/ UseResult(e)
         \/ UNCHANGED <<status, step, round>>
  PROVE  CancelBars
<1>1. CASE \E s \in {"failed", "blocked"} : EndPump(s, <<>>)
  BY <1>1 DEF EndPump, TerminalizeWorkflow, CancelBars, Waiting, stepRows
<1>2. CASE FailStep(e)
  BY <1>2 DEF FailStep, FailStepAndWorkflow, CancelBars, Waiting, IInv, TypeOK
<1>3. CASE UseResult(e)
  <2>1. CASE CompleteStepAndCheckpoint(e, task[e].out) /\ UNCHANGED wfRow
    BY <2>1 DEF CompleteStepAndCheckpoint, CancelBars, IInv, TypeOK, wfRow
  <2>2. CASE EndPump("blocked", <<>>)
    BY <1>1, <2>2
  <2> QED BY <1>2, <1>3, <2>1, <2>2 DEF UseResult
<1>4. CASE UNCHANGED <<status, step, round>>
  BY <1>4 DEF CancelBars
<1> QED BY <1>1, <1>2, <1>3, <1>4

\* The actions that start a step or complete the workflow run in a chain that read
\* cancel_requested as false, and ActorsKnow says that it still is.
LEMMA NextBars == IInv /\ [Next]_vars => CancelBars
<1> SUFFICES ASSUME IInv, [Next]_vars, cancelRequested PROVE CancelBars
  BY DEF CancelBars
<1>0. CurExec \in Execs
  BY CurExecType DEF IInv
<1>1. ~Driving /\ ~Pump("task") /\ ~Pump("stalled") /\ \A d \in Decisions : ~Pump(d)
  BY DEF Driving, Pump, IInv, ActorsKnow, Decisions
<1>2. CASE Api
  <2>1. UNCHANGED <<step, round>> /\ (status' = status \/ (status' # "completed" /\ status' \notin Waiting))
    BY <1>2 DEF Waiting, RecordCancellationIntent, Api, CreateWorkflow, StartWorkflow, CancelWorkflow, ResumeWorkflow, ResumeWorkflowRunning, AwaitWorkflow,
                AnswerInput, ApproveRequest, RejectRequest, RejectHumanRequest, TerminalizeWorkflow, wfRow, stepRows
  <2> QED BY <2>1 DEF CancelBars
<1>3. CASE PumpSteps
  <2>1. CASE \/ StartStep \/ RouteFails \/ RouteTerminal \/ RecordCompletionEvidence
             \/ RouteMaxRounds \/ RecordStallRound \/ Advance \/ GateCompletion
             \/ BlockNoProgress \/ ResumeTask \/ TasksExhausted \/ PauseForHuman
             \/ RenderFails \/ RenderPrompt
    BY <1>1, <2>1 DEF StartStep, RouteFails, RouteTerminal, RecordCompletionEvidence,
             RouteMaxRounds, RecordStallRound, Advance, GateCompletion, BlockNoProgress,
             ResumeTask, TasksExhausted, PauseForHuman, RenderFails, RenderPrompt,
             Routing, NeedsTask
  <2>2. CASE \/ LoopEnds \/ LoopCancels \/ CreateTask \/ BackoffEnds \/ CreateTransient
             \/ WaitInterrupted \/ WaitStops \/ WaitDropped \/ WaitFails \/ BindTask
    <3>1. UNCHANGED <<status, step, round>>
      BY <2>2 DEF LoopEnds, LoopCancels, CreateTask, BackoffEnds, CreateTransient,
             WaitInterrupted, WaitStops, WaitDropped, WaitFails, BindTask, MovePump, wfRow, stepRows
    <3> QED BY <1>0, <3>1, EndingsBar
  <2>3. CASE LoopExpires \/ CreateFails \/ WaitExpires \/ ResultTimeout
    BY <1>0, <2>3, EndingsBar DEF LoopExpires, CreateFails, WaitExpires, ResultTimeout
  <2>4. CASE TaskTerminal \/ ResultRead
    <3>1. UNCHANGED <<status, step, round>> \/ FailStep(CurExec) \/ UseResult(CurExec)
      BY <2>4 DEF TaskTerminal, ResultRead, MovePump, wfRow, stepRows
    <3> QED BY <1>0, <3>1, EndingsBar
  <2> QED BY <1>3, <2>1, <2>2, <2>3, <2>4 DEF PumpSteps
<1>4. ASSUME NEW a \in Actors, Cancellation(a)
      PROVE  CancelBars
  <2>1. CASE FinishCancellation(a)
    BY <2>1 DEF FinishCancellation, CancelStepAndWorkflow, CancelBars, Waiting, IInv, TypeOK
  <2>2. CASE PerformCancellation(a) \/ CancelTask(a)
    BY <2>2 DEF PerformCancellation, RecordCancellationIntent, CancelTask, CancelBars, wfRow, stepRows
  <2> QED BY <1>4, <2>1, <2>2 DEF Cancellation
<1>5. CASE \/ GatewayAccepts \/ CreateReturns \/ Agents
           \/ DeadlinePasses \/ Crash \/ Shutdown \/ Exit \/ Restart
  BY <1>5 DEF GatewayAccepts, CreateReturns, MovePump, Agents, TaskCompletes, ResultArrives,
         TaskBreaks, DeadlinePasses, Crash, Shutdown, Exit, Restart, CancelBars, wfRow, stepRows
<1>6. CASE UNCHANGED vars
  BY <1>6 DEF CancelBars, vars, wfRow, stepRows
<1> QED BY <1>2, <1>3, <1>4, <1>5, <1>6 DEF Next

\* Once recordCancellationIntent is durable, neither the pump nor a recovery after a crash
\* starts a step, advances the round, completes the workflow or makes it wait for a human.
THEOREM NoStepAfterCancel == Spec => NoStepAfterCancelIntent
<1>1. IInv /\ [Next]_vars => [CancelBars]_vars
  BY NextBars
<1>2. Spec => [][CancelBars]_vars
  BY <1>1, InitIInv, NextIInv, PTL DEF Spec
<1> QED BY <1>2, PTL DEF NoStepAfterCancelIntent, CancelBars

-----------------------------------------------------------------------------
(* Runs, path, rounds and evidence *)

\* What the pump knows at each of its points: the step it works on has started; it creates a task
\* only for a step without one and below max_tasks, binds only what the gateway has accepted and
\* awaits only what is bound; it loops and completes from a completed step, and completes one that meets the policy.
TaskPoints == {"task", "create", "backoff", "sent", "bind", "wait", "result"}
CreatePoints == {"create", "backoff", "sent", "bind"}
Met(e) == "missing" \notin task[e].facts /\ ("result" \in Required => task[e].facts = {})
PumpKnows ==
  /\ pc["pump"] \in TaskPoints => step[CurExec] # "none"
  /\ pc["pump"] \in CreatePoints => ~bound[CurExec] /\ totalTasks < MaxTasks
  /\ pc["pump"] = "bind" => task[CurExec].st # "none"
  /\ pc["pump"] \in {"wait", "result"} => bound[CurExec]
  /\ pc["pump"] \in {"stalled"} \cup Decisions => step[CurExec] = "completed"
  /\ pc["pump"] = "complete" => Met(CurExec)
  /\ status = "completed" => pc["pump"] \in {"off", "loop"}

\* A run is bound to its step execution, but for the one that a crash or a lost answer has kept from
\* it: that is the current one, and it has room under max_tasks.
RunTrue(e) ==
  /\ launched[e] = IF task[e].st = "none" THEN 0 ELSE 1
  /\ task[e].st # "none" => step[e] # "none" /\ (bound[e] \/ (e = CurExec /\ totalTasks < MaxTasks))
  /\ bound[e] => task[e].st # "none"
  /\ step[e] = "completed" => bound[e]
  /\ task[e].result = "available" => task[e].st = "completed"
RunsTrue == \A e \in Execs : RunTrue(e)

\* total_tasks counts the bound executions.
BoundExecs == {e \in Execs : bound[e]}
Counted == IsFiniteSet(BoundExecs) /\ Cardinality(BoundExecs) = totalTasks /\ totalTasks <= MaxTasks

\* The executions so far: all but the current one are completed and were left for another, none is
\* of a later round, and each but the entry's was entered from exactly one.
Visited(e) == step[e] # "none"
Left == \A e \in Execs : Visited(e) =>
          /\ e[2] <= round
          /\ e # CurExec => step[e] = "completed" /\ \E f \in Execs : Visited(f) /\ Reaches(e, f)
Entered == \A f \in Execs : Visited(f) /\ f # <<Entry, 1>> => \E e \in Execs : e # CurExec /\ Reaches(e, f)
EnteredOnce == \A d, e, f \in Execs : d # CurExec /\ e # CurExec /\ Visited(f) /\ Reaches(d, f) /\ Reaches(e, f) => d = e
Begun == IF cur = NoStep THEN round = 1 /\ \A e \in Execs : ~Visited(e) ELSE Visited(CurExec)
OnPath == Left /\ Entered /\ EnteredOnce /\ Begun

\* Evidence is recorded for completed steps, and a recorded contradiction is one of the result's.
EvidenceTrue == \A e \in Execs : evidence[e] # "none" =>
                  step[e] = "completed" /\ (evidence[e] = "failed" => "conflict" \in task[e].facts)

Ledger == RunsTrue /\ Counted /\ OnPath /\ LoopsMakeProgress /\ EvidenceTrue /\ VerifiedCompletion

\* The second invariant, inductive relative to the first.
IInv2 == PumpKnows /\ Ledger

\* Rounds are numbers, and the current one is below its bound.
LEMMA RoundsAreNumbers ==
  ASSUME TypeOK
  PROVE  /\ round \in Nat /\ round >= 1 /\ MaxRounds \in Nat /\ MaxRounds >= 1
         /\ MaxTasks \in Nat /\ totalTasks \in Nat /\ MaxStalled \in Nat
         /\ \A e \in Execs : e[1] \in Steps /\ e[2] \in Nat /\ e[2] >= 1 /\ e = <<e[1], e[2]>>
BY RuntimeAssumption DEF TypeOK, Rounds, Execs

\* What a completed execution reaches is fixed by its output.
LEMMA ReachesStable ==
  ASSUME NEW e, NEW f, step'[e] = step[e], output'[e] = output[e]
  PROVE  Reaches(e, f)' <=> Reaches(e, f)
BY DEF Reaches, SelectEdge

\* Only a visited execution reaches another, and each reaches one.
LEMMA ReachesOne ==
  ASSUME NEW e, NEW f, NEW h, Reaches(e, f), Reaches(e, h)
  PROVE  f = h /\ Visited(e)
<1>1. PICK g \in Edges : /\ step[e] = "completed" /\ SelectEdge(e) = {g}
                         /\ f = <<g.to, IF g.kind = "loop" THEN e[2] + 1 ELSE e[2]>>
  BY DEF Reaches
<1>2. PICK k \in Edges : /\ step[e] = "completed" /\ SelectEdge(e) = {k}
                         /\ h = <<k.to, IF k.kind = "loop" THEN e[2] + 1 ELSE e[2]>>
  BY DEF Reaches
<1>3. g = k
  BY <1>1, <1>2
<1> QED BY <1>1, <1>2, <1>3 DEF Visited

\* What is done to the current execution alone leaves the path as it is, unless it starts it.
LEMMA PathFrame ==
  ASSUME TypeOK, OnPath, UNCHANGED <<cur, round>>,
         \A e \in Execs : (step'[e] # "none") <=> (step[e] # "none"),
         \A e \in Execs : e # CurExec => step'[e] = step[e] /\ output'[e] = output[e]
  PROVE  OnPath'
<1>0. CurExec' = CurExec
  BY DEF CurExec, CurStep
<1>1. \A e, f \in Execs : e # CurExec => (Reaches(e, f)' <=> Reaches(e, f))
  BY ReachesStable
<1>2. \A e \in Execs : Visited(e)' <=> Visited(e)
  BY DEF Visited
<1>3. Left'
  BY <1>0, <1>1, <1>2 DEF OnPath, Left
<1>4. Entered'
  BY <1>0, <1>1, <1>2 DEF OnPath, Entered
<1>5. EnteredOnce'
  BY <1>0, <1>1, <1>2 DEF OnPath, EnteredOnce
<1>6. Begun'
  <2>1. CASE cur = NoStep
    BY <1>2, <2>1 DEF OnPath, Begun
  <2>2. CASE cur # NoStep
    BY <1>0, <2>2, CurExecType DEF OnPath, Begun, Visited
  <2> QED BY <2>1, <2>2
<1> QED BY <1>3, <1>4, <1>5, <1>6 DEF OnPath

\* What neither the rows of the executions nor the tasks see.
rows == <<cur, round, totalTasks, step, bound, output, stall, evidence, task, launched>>

LEMMA Frame ==
  ASSUME TypeOK, Ledger, UNCHANGED rows, status' = "completed" => status = "completed"
  PROVE  Ledger'
<1>0. CurExec' = CurExec
  BY DEF rows, CurExec, CurStep
<1>1. RunsTrue'
  BY <1>0 DEF Ledger, RunsTrue, RunTrue, rows
<1>2. Counted'
  BY DEF Ledger, Counted, BoundExecs, rows
<1>3. OnPath'
  BY PathFrame DEF Ledger, rows
<1>4. LoopsMakeProgress'
  BY DEF Ledger, LoopsMakeProgress, rows
<1>5. EvidenceTrue'
  BY DEF Ledger, EvidenceTrue, rows
<1>6. VerifiedCompletion'
  BY <1>0 DEF Ledger, VerifiedCompletion, rows
<1> QED BY <1>1, <1>2, <1>3, <1>4, <1>5, <1>6 DEF Ledger

\* Before anything starts, the second invariant holds.
LEMMA InitIInv2 == Init => IInv2
<1> SUFFICES ASSUME Init PROVE IInv2
  OBVIOUS
<1>0. TypeOK
  BY InitIInv DEF IInv
<1>1. PumpKnows
  BY DEF Init, PumpKnows, TaskPoints, CreatePoints, Decisions, Actors
<1>2. RunsTrue
  BY DEF Init, RunsTrue, RunTrue, NoTask
<1>3. Counted
  <2>1. BoundExecs = {}
    BY DEF Init, BoundExecs
  <2> QED BY <2>1, FS_EmptySet, RuntimeAssumption DEF Init, Counted
<1>4. OnPath
  <2>1. \A e \in Execs : ~Visited(e)
    BY DEF Init, Visited
  <2>2. Left /\ Entered /\ EnteredOnce
    BY <2>1 DEF Left, Entered, EnteredOnce
  <2>3. Begun
    BY <2>1 DEF Init, Begun
  <2> QED BY <2>2, <2>3 DEF OnPath
<1>5. LoopsMakeProgress
  <2>1. round = 1
    BY DEF Init
  <2> QED BY <2>1, RuntimeAssumption DEF LoopsMakeProgress
<1>6. EvidenceTrue /\ VerifiedCompletion
  BY DEF Init, EvidenceTrue, VerifiedCompletion
<1> QED BY <1>1, <1>2, <1>3, <1>4, <1>5, <1>6 DEF IInv2, Ledger

\* The current step execution leads somewhere new: to a later round, or along a normal edge, and the
\* executions of this round would close a cycle of normal edges if it had been visited.
LEMMA NotAhead ==
  ASSUME TypeOK, OnPath, NEW f \in Execs, Reaches(CurExec, f)
  PROVE  ~Visited(f)
<1> SUFFICES ASSUME Visited(f) PROVE FALSE
  OBVIOUS
<1>0. CurExec \in Execs /\ CurExec = <<CurStep, round>> /\ CurStep \in Steps
  BY CurExecType
<1>1. PICK g \in Edges : /\ SelectEdge(CurExec) = {g}
                         /\ f = <<g.to, IF g.kind = "loop" THEN CurExec[2] + 1 ELSE CurExec[2]>>
  BY DEF Reaches
<1>2. CurExec[2] = round /\ CurExec[1] = CurStep
  BY <1>0
<1>3. f[2] <= round /\ f[1] = g.to /\ f[2] = IF g.kind = "loop" THEN round + 1 ELSE round
  BY <1>1, <1>2 DEF OnPath, Left
<1>4. g.kind # "loop" /\ f = <<g.to, round>>
  BY <1>1, <1>2, <1>3, RoundsAreNumbers
<1>5. \A h \in Edges : h.kind # "loop" => h.kind = "normal"
  BY RuntimeAssumption DEF Edge
<1> DEFINE S == {s \in Steps : Visited(<<s, round>>)}
<1>6. S \in SUBSET Steps /\ g.to \in S
  BY <1>3, <1>4, RoundsAreNumbers
<1>7. PICK s \in S : \A h \in Edges : h.from = s /\ h.kind = "normal" => h.to \notin S
  BY <1>6, AcyclicAssumption
<1>8. CASE s = CurStep
  <2>1. g.from = CurStep
    BY <1>1, <1>2 DEF SelectEdge
  <2> QED BY <1>4, <1>5, <1>6, <1>7, <1>8, <2>1
<1>9. CASE s # CurStep
  <2> DEFINE e == <<s, round>>
  <2>1. e \in Execs /\ Visited(e) /\ e # CurExec /\ e[1] = s /\ e[2] = round
    BY <1>0, <1>9 DEF Execs, TypeOK
  <2>2. PICK k \in Execs : Visited(k) /\ Reaches(e, k)
    BY <2>1 DEF OnPath, Left
  <2>3. PICK h \in Edges : SelectEdge(e) = {h} /\ k = <<h.to, IF h.kind = "loop" THEN e[2] + 1 ELSE e[2]>>
    BY <2>2 DEF Reaches
  <2>4. k[2] <= round /\ k[1] = h.to /\ k[2] = IF h.kind = "loop" THEN round + 1 ELSE round
    BY <2>1, <2>2, <2>3 DEF OnPath, Left
  <2>5. h.kind # "loop" /\ k = <<h.to, round>>
    BY <2>1, <2>3, <2>4, RoundsAreNumbers
  <2>6. h.to \in S
    BY <2>2, <2>4, <2>5, RoundsAreNumbers
  <2>7. h.from = s
    <3> HIDE DEF e
    <3> QED BY <2>1, <2>3 DEF SelectEdge
  <2> QED BY <1>5, <1>7, <2>5, <2>6, <2>7
<1> QED BY <1>8, <1>9

\* The step fails or is cancelled.
LEMMA StepDies ==
  ASSUME TypeOK, Ledger, NEW s \in {"failed", "cancelled"}, step[CurExec] = "pending",
         step' = [step EXCEPT ![CurExec] = s],
         UNCHANGED <<cur, round, totalTasks, bound, output, stall, evidence, task, launched>>,
         status' = "completed" => status = "completed"
  PROVE  Ledger'
<1>0. CurExec' = CurExec /\ CurExec \in Execs
  BY CurExecType DEF CurExec, CurStep
<1>1. PICK c \in Execs : c = CurExec
  BY <1>0
<1>2. \A e \in Execs : step'[e] = IF e = c THEN s ELSE step[e]
  BY <1>1 DEF TypeOK
<1>3. RunsTrue'
  BY <1>0, <1>1, <1>2 DEF Ledger, RunsTrue, RunTrue
<1>4. Counted'
  BY DEF Ledger, Counted, BoundExecs
<1>5. OnPath'
  BY <1>1, <1>2, PathFrame DEF Ledger
<1>6. LoopsMakeProgress'
  BY DEF Ledger, LoopsMakeProgress
<1>7. EvidenceTrue'
  BY <1>1, <1>2 DEF Ledger, EvidenceTrue
<1>8. VerifiedCompletion'
  BY DEF Ledger, VerifiedCompletion
<1> QED BY <1>3, <1>4, <1>5, <1>6, <1>7, <1>8 DEF Ledger

\* The step completes: its task is bound and its evidence not yet recorded.
LEMMA StepCompletes ==
  ASSUME TypeOK, Ledger, bound[CurExec], step[CurExec] = "pending",
         step' = [step EXCEPT ![CurExec] = "completed"],
         \A e \in Execs : e # CurExec => output'[e] = output[e],
         UNCHANGED <<cur, round, totalTasks, bound, stall, evidence, task, launched>>,
         status' = status
  PROVE  Ledger'
<1>0. CurExec' = CurExec /\ CurExec \in Execs
  BY CurExecType DEF CurExec, CurStep
<1>1. PICK c \in Execs : c = CurExec
  BY <1>0
<1>2. \A e \in Execs : step'[e] = IF e = c THEN "completed" ELSE step[e]
  BY <1>1 DEF TypeOK
<1>3. RunsTrue'
  BY <1>0, <1>1, <1>2 DEF Ledger, RunsTrue, RunTrue
<1>4. Counted'
  BY DEF Ledger, Counted, BoundExecs
<1>5. OnPath'
  BY <1>1, <1>2, PathFrame DEF Ledger
<1>6. LoopsMakeProgress'
  BY DEF Ledger, LoopsMakeProgress
<1>7. EvidenceTrue'
  BY <1>1, <1>2 DEF Ledger, EvidenceTrue
<1>8. VerifiedCompletion'
  BY DEF Ledger, VerifiedCompletion
<1> QED BY <1>3, <1>4, <1>5, <1>6, <1>7, <1>8 DEF Ledger

\* The first step starts: nothing has been visited, and the path begins at the entry.
LEMMA StepStarts ==
  ASSUME TypeOK, Ledger, step[CurExec] = "none", status' = status, status # "completed",
         step' = [step EXCEPT ![CurExec] = "pending"], cur' = CurExec[1],
         UNCHANGED <<round, totalTasks, bound, output, stall, evidence, task, launched>>
  PROVE  Ledger' /\ CurExec' = CurExec
<1>0. CurExec \in Execs /\ CurExec = <<CurStep, round>> /\ CurStep \in Steps
  BY CurExecType
<1>1. cur = NoStep /\ round = 1 /\ CurExec = <<Entry, 1>> /\ \A e \in Execs : step[e] = "none"
  BY DEF Ledger, OnPath, Begun, Visited, CurExec, CurStep
<1>2. cur' = Entry /\ Entry # NoStep /\ round' = 1
  BY <1>1, RuntimeAssumption
<1>3. CurExec' = <<Entry, 1>>
  BY <1>2 DEF CurExec, CurStep
<1>4. PICK c \in Execs : c = CurExec /\ c = <<Entry, 1>>
  BY <1>0, <1>1
<1>5. \A e \in Execs : step'[e] = IF e = c THEN "pending" ELSE "none"
  BY <1>1, <1>4 DEF TypeOK
<1>6. RunsTrue'
  BY <1>1, <1>3, <1>4, <1>5 DEF Ledger, RunsTrue, RunTrue
<1>7. Counted'
  BY DEF Ledger, Counted, BoundExecs
<1>8. OnPath'
  <2>1. \A e, f \in Execs : ~Reaches(e, f)'
    BY <1>5 DEF Reaches
  <2>2. \A e \in Execs : Visited(e)' <=> e = c
    BY <1>5 DEF Visited
  <2>3. Left'
    <3>1. c[2] <= round'
      BY <1>2, <1>4
    <3> QED BY <1>3, <1>4, <2>2, <3>1 DEF Left
  <2>4. Entered' /\ EnteredOnce'
    BY <1>4, <2>1, <2>2 DEF Entered, EnteredOnce
  <2>5. Begun'
    BY <1>2, <1>3, <1>4, <1>5 DEF Begun, Visited
  <2> QED BY <2>3, <2>4, <2>5 DEF OnPath
<1>9. LoopsMakeProgress'
  BY DEF Ledger, LoopsMakeProgress
<1>10. EvidenceTrue' /\ VerifiedCompletion'
  BY <1>1 DEF Ledger, EvidenceTrue, VerifiedCompletion
<1> QED BY <1>1, <1>3, <1>6, <1>7, <1>8, <1>9, <1>10 DEF Ledger

\* bindStepTaskOnce counts the task it binds.
LEMMA TaskBinds ==
  ASSUME TypeOK, Ledger, ~bound[CurExec], totalTasks < MaxTasks, task[CurExec].st # "none",
         bound' = [bound EXCEPT ![CurExec] = TRUE], totalTasks' = totalTasks + 1,
         UNCHANGED <<status, cur, round, step, output, stall, evidence, task, launched>>
  PROVE  Ledger'
<1>0. CurExec' = CurExec /\ CurExec \in Execs
  BY CurExecType DEF CurExec, CurStep
<1>1. PICK c \in Execs : c = CurExec
  BY <1>0
<1>2. \A e \in Execs : bound'[e] <=> (e = c \/ bound[e])
  <2>1. bound \in [Execs -> BOOLEAN] /\ bound' = [bound EXCEPT ![c] = TRUE]
    BY <1>1 DEF TypeOK
  <2> QED BY <2>1, Zenon
<1>3. RunsTrue'
  <2>1. ASSUME NEW e \in Execs PROVE RunTrue(e)'
    <3>1. RunTrue(e)
      BY DEF Ledger, RunsTrue
    <3>2. CASE e = c
      BY <1>1, <1>2, <3>1, <3>2 DEF RunTrue
    <3>3. CASE e # c
      BY <1>1, <1>2, <3>1, <3>3 DEF RunTrue
    <3> QED BY <3>2, <3>3
  <2> QED BY <2>1 DEF RunsTrue
<1>4. Counted'
  <2>1. BoundExecs' = BoundExecs \cup {c} /\ c \notin BoundExecs
    BY <1>1, <1>2 DEF BoundExecs
  <2>2. IsFiniteSet(BoundExecs') /\ Cardinality(BoundExecs') = Cardinality(BoundExecs) + 1
    BY <2>1, FS_AddElement DEF Ledger, Counted
  <2>3. totalTasks + 1 <= MaxTasks
    BY RoundsAreNumbers
  <2> QED BY <2>2, <2>3 DEF Ledger, Counted
<1>5. OnPath'
  BY PathFrame DEF Ledger
<1>6. LoopsMakeProgress' /\ EvidenceTrue'
  BY DEF Ledger, LoopsMakeProgress, EvidenceTrue
<1>7. VerifiedCompletion'
  BY <1>0, <1>1, <1>2 DEF Ledger, VerifiedCompletion
<1> QED BY <1>3, <1>4, <1>5, <1>6, <1>7 DEF Ledger

\* The gateway starts the run of the current step execution, which has none.
LEMMA RunStarts ==
  ASSUME IInv, Ledger, step[CurExec] # "none", totalTasks < MaxTasks, task[CurExec].st = "none",
         task' = [task EXCEPT ![CurExec].st = "running"],
         launched' = [launched EXCEPT ![CurExec] = @ + 1],
         UNCHANGED <<status, cur, round, totalTasks, step, bound, output, stall, evidence>>
  PROVE  Ledger'
<1>0. CurExec' = CurExec /\ CurExec \in Execs
  BY CurExecType DEF IInv, CurExec, CurStep
<1>1. PICK c \in Execs : c = CurExec
  BY <1>0
<1>2. /\ task'[c] = [task[c] EXCEPT !.st = "running"] /\ launched'[c] = launched[c] + 1
      /\ \A e \in Execs : e # c => task'[e] = task[e] /\ launched'[e] = launched[e]
  BY <1>1 DEF IInv, TypeOK
<1>3. task'[c].st = "running" /\ task'[c].result = "pending" /\ task'[c].facts = task[c].facts
  <2>1. task[c] \in Task /\ task[c].result = "pending"
    BY <1>1 DEF IInv, TypeOK, ResultsSound
  <2> QED BY <1>2, <2>1 DEF Task
<1>4. step[c] # "completed"
  BY <1>1 DEF Ledger, RunsTrue, RunTrue
<1>5. RunsTrue'
  <2>1. ASSUME NEW e \in Execs PROVE RunTrue(e)'
    <3>1. RunTrue(e)
      BY DEF Ledger, RunsTrue
    <3>2. CASE e = c
      <4>1. launched'[c] = 1
        BY <1>1, <1>2, <3>1, <3>2 DEF RunTrue
      <4> QED BY <1>0, <1>1, <1>3, <3>1, <3>2, <4>1 DEF RunTrue
    <3>3. CASE e # c
      BY <1>0, <1>1, <1>2, <3>1, <3>3 DEF RunTrue
    <3> QED BY <3>2, <3>3
  <2> QED BY <2>1 DEF RunsTrue
<1>6. Counted'
  BY DEF Ledger, Counted, BoundExecs
<1>7. OnPath'
  BY PathFrame DEF Ledger, IInv
<1>8. LoopsMakeProgress'
  BY DEF Ledger, LoopsMakeProgress
<1>9. EvidenceTrue'
  BY <1>2, <1>3 DEF Ledger, EvidenceTrue
<1>10. VerifiedCompletion'
  BY <1>1, <1>4 DEF Ledger, VerifiedCompletion
<1> QED BY <1>5, <1>6, <1>7, <1>8, <1>9, <1>10 DEF Ledger

\* A run ends, or its result arrives: a task whose result is there stays as it is.
LEMMA RunsMove ==
  ASSUME IInv, Ledger, UNCHANGED <<status, cur, round, totalTasks, step, bound, output, stall, evidence, launched>>,
         \A e \in Execs : /\ (task'[e].st = "none") <=> (task[e].st = "none")
                          /\ task[e].result = "available" =>
                               task'[e].st = task[e].st /\ task'[e].facts = task[e].facts
                          /\ task'[e].result = "available" => task'[e].st = "completed"
  PROVE  Ledger'
<1>0. CurExec' = CurExec /\ CurExec \in Execs
  BY CurExecType DEF IInv, CurExec, CurStep
<1>1. RunsTrue'
  BY <1>0 DEF Ledger, RunsTrue, RunTrue
<1>2. Counted'
  BY DEF Ledger, Counted, BoundExecs
<1>3. OnPath'
  BY PathFrame DEF Ledger, IInv
<1>4. LoopsMakeProgress'
  BY DEF Ledger, LoopsMakeProgress
<1>5. EvidenceTrue'
  BY DEF Ledger, EvidenceTrue, IInv, ResultsSound
<1>6. VerifiedCompletion'
  BY <1>0 DEF Ledger, VerifiedCompletion, IInv, ResultsSound
<1> QED BY <1>1, <1>2, <1>3, <1>4, <1>5, <1>6 DEF Ledger

\* evaluateCompletion completes what meets the policy, and fails what contradicts it.
LEMMA Evaluated ==
  ASSUME TypeOK, NEW e \in Execs, NEW read
  PROVE  /\ EvaluateCompletion(e, read) = "complete" => Met(e)
         /\ EvaluateCompletion(e, read) = "failed" => "conflict" \in task[e].facts
<1>1. task[e].facts \subseteq {"missing", "conflict"}
  <2>1. task[e] \in Task
    BY DEF TypeOK
  <2> QED BY <2>1 DEF Task, Facts
<1> QED BY <1>1 DEF EvaluateCompletion, Met

\* recordCompletionEvidence: the first write wins, or it fails; a contradiction is never made up.
LEMMA EvidenceRecorded ==
  ASSUME TypeOK, Ledger, step[CurExec] = "completed", status # "completed",
         NEW d \in Decisions, d = "failed" => "conflict" \in task[CurExec].facts,
         NEW rec \in EvidenceRecords(d), evidence' = [evidence EXCEPT ![CurExec] = rec],
         UNCHANGED <<status, cur, round, totalTasks, step, bound, output, stall, task, launched>>
  PROVE  Ledger'
<1>0. CurExec' = CurExec /\ CurExec \in Execs
  BY CurExecType DEF CurExec, CurStep
<1>1. PICK c \in Execs : c = CurExec
  BY <1>0
<1>2. \A e \in Execs : evidence'[e] = IF e = c THEN rec ELSE evidence[e]
  BY <1>1 DEF TypeOK
<1>3. EvidenceTrue'
  <2>1. rec \in {evidence[c], d, "none"}
    BY <1>1 DEF EvidenceRecords
  <2> QED BY <1>1, <1>2, <2>1 DEF Ledger, EvidenceTrue
<1>4. RunsTrue'
  BY <1>0 DEF Ledger, RunsTrue, RunTrue
<1>5. Counted'
  BY DEF Ledger, Counted, BoundExecs
<1>6. OnPath'
  BY PathFrame DEF Ledger
<1>7. LoopsMakeProgress' /\ VerifiedCompletion'
  BY DEF Ledger, LoopsMakeProgress, VerifiedCompletion
<1> QED BY <1>3, <1>4, <1>5, <1>6, <1>7 DEF Ledger

\* recordStallRound writes the fingerprint of the current round only.
LEMMA StallRecorded ==
  ASSUME TypeOK, Ledger, NEW p, stall' = [stall EXCEPT ![round] = p],
         UNCHANGED <<status, cur, round, totalTasks, step, bound, output, evidence, task, launched>>
  PROVE  Ledger'
<1>0. CurExec' = CurExec /\ CurExec \in Execs
  BY CurExecType DEF CurExec, CurStep
<1>1. RunsTrue'
  BY <1>0 DEF Ledger, RunsTrue, RunTrue
<1>2. Counted'
  BY DEF Ledger, Counted, BoundExecs
<1>3. OnPath'
  BY PathFrame DEF Ledger
<1>4. EvidenceTrue' /\ VerifiedCompletion'
  BY <1>0 DEF Ledger, EvidenceTrue, VerifiedCompletion
<1>5. LoopsMakeProgress'
  <2>1. \A r \in Rounds : r # round => stall'[r] = stall[r]
    BY DEF TypeOK
  <2>2. ASSUME MaxStalled > 0, NEW r \in 1 .. (round - 1), r >= MaxStalled
        PROVE  \E i \in (r - MaxStalled + 1) .. r : stall'[i] # stall'[r]
    <3>1. PICK i \in (r - MaxStalled + 1) .. r : stall[i] # stall[r]
      BY <2>2 DEF Ledger, LoopsMakeProgress
    <3>2. round <= MaxRounds
      BY DEF Ledger, LoopsMakeProgress
    <3>3. i \in Rounds /\ r \in Rounds /\ i # round /\ r # round
      BY <2>2, <3>1, <3>2, RoundsAreNumbers DEF Rounds
    <3> QED BY <2>1, <3>1, <3>3
  <2> QED BY <2>2 DEF Ledger, LoopsMakeProgress
<1> QED BY <1>1, <1>2, <1>3, <1>4, <1>5 DEF Ledger

\* consecutiveUnchanged counts at least max_stalled_rounds where the last so many fingerprints agree.
LEMMA NotStalled ==
  ASSUME TypeOK, ~IsStalled(round), MaxStalled > 0, round >= MaxStalled
  PROVE  \E i \in (round - MaxStalled + 1) .. round : stall[i] # stall[round]
<1> SUFFICES ASSUME \A i \in (round - MaxStalled + 1) .. round : stall[i] = stall[round] PROVE FALSE
  OBVIOUS
<1> DEFINE T == {i \in 1 .. round : \A j \in i .. round : stall[j] = stall[round]}
           I == (round - MaxStalled + 1) .. round
<1>1. round \in Nat /\ MaxStalled \in Nat /\ round - MaxStalled + 1 \in Int /\ round - MaxStalled + 1 >= 1
  BY RoundsAreNumbers
<1>2. I \subseteq T
  BY <1>1
<1>3. Cardinality(I) = MaxStalled
  BY <1>1, FS_Interval
<1>4. IsFiniteSet(T) /\ Cardinality(T) \in Nat
  <2>1. IsFiniteSet(1 .. round)
    BY <1>1, FS_Interval
  <2>2. IsFiniteSet(T)
    BY <2>1, FS_Subset
  <2> QED BY <2>2, FS_CardinalityType
<1>5. Cardinality(I) <= Cardinality(T)
  BY <1>2, <1>4, FS_Subset
<1>6. Cardinality(T) < MaxStalled
  BY <1>1, <1>4 DEF IsStalled, ConsecutiveUnchanged
<1> QED BY <1>1, <1>3, <1>4, <1>5, <1>6

\* advanceWorkflow along the selected edge enters an execution that is new.
LEMMA PathAdvances ==
  ASSUME IInv, Ledger, step[CurExec] = "completed", status # "completed",
         NEW g \in Edges, SelectEdge(CurExec) = {g}, g.to \in Steps,
         g.kind = "loop" => round < MaxRounds /\ (MaxStalled > 0 => ~IsStalled(round)),
         AdvanceWorkflow(g.to, g.kind = "loop"),
         UNCHANGED <<status, totalTasks, bound, output, stall, evidence, task, launched>>
  PROVE  Ledger'
<1> DEFINE nextRound == IF g.kind = "loop" THEN round + 1 ELSE round
           next == <<g.to, nextRound>>
<1>0. CurExec \in Execs /\ CurExec = <<CurStep, round>> /\ CurExec[2] = round /\ CurStep \in Steps
  BY CurExecType DEF IInv
<1>1. nextRound \in Rounds /\ nextRound \in Nat /\ nextRound >= round /\ round \in Nat
  <2>1. round \in Rounds /\ MaxRounds \in Nat /\ round \in Nat /\ round >= 1
    BY RoundsAreNumbers DEF IInv, TypeOK
  <2> QED BY <2>1 DEF Rounds
<1>2. next \in Execs
  BY <1>1 DEF Execs
<1>3. Reaches(CurExec, next)
  BY <1>0 DEF Reaches
<1>4. step[next] = "none"
  BY <1>2, <1>3, NotAhead DEF IInv, Ledger, Visited
<1>5. step' = [step EXCEPT ![next] = "pending"] /\ cur' = g.to /\ round' = nextRound
  BY <1>4 DEF AdvanceWorkflow
<1>6. CurExec' = next /\ cur' # NoStep
  BY <1>5, RuntimeAssumption DEF CurExec, CurStep
<1>7. PICK c \in Execs : c = CurExec
  BY <1>0
<1>8. PICK n \in Execs : n = next
  BY <1>2
<1> HIDE DEF next
<1>9. \A e \in Execs : step'[e] = IF e = n THEN "pending" ELSE step[e]
  BY <1>5, <1>8 DEF IInv, TypeOK
<1>10. step[n] = "none" /\ step[c] = "completed" /\ n # c /\ n[2] = nextRound /\ Reaches(c, n)
  BY <1>3, <1>4, <1>7, <1>8 DEF next
<1>11. RunsTrue'
  <2>1. ASSUME NEW e \in Execs PROVE RunTrue(e)'
    <3>1. RunTrue(e) /\ RunTrue(c)
      BY DEF Ledger, RunsTrue
    <3>2. CASE e = n
      BY <1>6, <1>8, <1>9, <1>10, <3>1, <3>2 DEF RunTrue
    <3>3. CASE e # n
      BY <1>7, <1>9, <1>10, <3>1, <3>3 DEF RunTrue
    <3> QED BY <3>2, <3>3
  <2> QED BY <2>1 DEF RunsTrue
<1>12. Counted'
  BY DEF Ledger, Counted, BoundExecs
<1>13. OnPath'
  <2>1. \A e, f \in Execs : Reaches(e, f)' <=> Reaches(e, f)
    <3>1. ASSUME NEW e \in Execs, NEW f \in Execs PROVE Reaches(e, f)' <=> Reaches(e, f)
      <4>1. CASE e = n
        BY <1>9, <1>10, <4>1 DEF Reaches
      <4>2. CASE e # n
        BY <1>9, <4>2, ReachesStable
      <4> QED BY <4>1, <4>2
    <3> QED BY <3>1
  <2>2. \A e \in Execs : Visited(e)' <=> (e = n \/ Visited(e))
    BY <1>9 DEF Visited
  <2>3. \A e \in Execs : Visited(e) => step[e] = "completed" /\ \E f \in Execs : (f = n \/ Visited(f)) /\ Reaches(e, f)
    BY <1>7, <1>10 DEF Ledger, OnPath, Left
  <2>4. Left'
    <3>1. ASSUME NEW e \in Execs, Visited(e)'
          PROVE  e[2] <= round'
      <4>1. CASE e = n
        BY <1>1, <1>5, <1>10, <4>1
      <4>2. CASE e # n
        <5>1. e[2] <= round /\ e[2] \in Nat
          BY <2>2, <3>1, <4>2, RoundsAreNumbers DEF IInv, Ledger, OnPath, Left
        <5> QED BY <1>1, <1>5, <5>1
      <4> QED BY <4>1, <4>2
    <3>2. ASSUME NEW e \in Execs, Visited(e)', e # n
          PROVE  step'[e] = "completed" /\ \E f \in Execs : Visited(f)' /\ Reaches(e, f)'
      BY <1>9, <2>1, <2>2, <2>3, <3>2
    <3> QED BY <1>6, <1>8, <3>1, <3>2 DEF Left
  <2>5. Entered'
    <3>1. ASSUME NEW f \in Execs, Visited(f), f # <<Entry, 1>>
          PROVE  \E e \in Execs : e # n /\ Reaches(e, f)
      <4>1. PICK e \in Execs : Reaches(e, f)
        BY <3>1 DEF Ledger, OnPath, Entered
      <4> QED BY <1>10, <4>1 DEF Reaches
    <3> QED BY <1>6, <1>8, <1>10, <2>1, <2>2, <3>1 DEF Entered
  <2>6. EnteredOnce'
    <3>1. ASSUME NEW d \in Execs, NEW e \in Execs, NEW f \in Execs, f = n \/ Visited(f), Reaches(d, f), Reaches(e, f)
          PROVE  d = e
      <4>1. Visited(d) /\ Visited(e)
        BY <3>1, ReachesOne
      <4>2. CASE f = n
        <5>1. \A k \in Execs : k # c => ~Reaches(k, n)
          <6>1. ASSUME NEW k \in Execs, k # c, Reaches(k, n) PROVE FALSE
            <7>1. Visited(k)
              BY <6>1, ReachesOne
            <7>2. PICK h \in Execs : Visited(h) /\ Reaches(k, h)
              BY <1>7, <6>1, <7>1 DEF Ledger, OnPath, Left
            <7>3. h = n
              BY <6>1, <7>2, ReachesOne
            <7> QED BY <1>10, <7>2, <7>3 DEF Visited
          <6> QED BY <6>1
        <5> QED BY <3>1, <4>2, <5>1
      <4>3. CASE f # n
        <5>1. ~Reaches(c, f)
          BY <1>10, <4>3, ReachesOne
        <5> QED BY <1>7, <3>1, <4>3, <5>1 DEF Ledger, OnPath, EnteredOnce
      <4> QED BY <4>2, <4>3
    <3> QED BY <2>1, <2>2, <3>1 DEF EnteredOnce
  <2>7. Begun'
    BY <1>6, <1>8, <2>2 DEF Begun, Visited
  <2> QED BY <2>4, <2>5, <2>6, <2>7 DEF OnPath
<1>14. LoopsMakeProgress'
  <2>0. MaxRounds \in Nat /\ round \in Nat /\ round >= 1 /\ MaxStalled \in Nat /\ round <= MaxRounds
    BY RoundsAreNumbers DEF IInv, Ledger, LoopsMakeProgress
  <2>1. round' <= MaxRounds
    BY <1>5, <2>0
  <2>2. ASSUME MaxStalled > 0, NEW r \in 1 .. (round' - 1), r >= MaxStalled
        PROVE  \E i \in (r - MaxStalled + 1) .. r : stall[i] # stall[r]
    <3>1. CASE r \in 1 .. (round - 1)
      BY <2>2, <3>1 DEF Ledger, LoopsMakeProgress
    <3>2. CASE r \notin 1 .. (round - 1)
      <4>1. r = round /\ g.kind = "loop"
        BY <1>5, <2>0, <2>2, <3>2
      <4> QED BY <2>2, <4>1, NotStalled DEF IInv
    <3> QED BY <3>1, <3>2
  <2> QED BY <2>1, <2>2 DEF LoopsMakeProgress
<1>15. EvidenceTrue'
  BY <1>9, <1>10 DEF Ledger, EvidenceTrue
<1>16. VerifiedCompletion'
  BY DEF VerifiedCompletion
<1> QED BY <1>11, <1>12, <1>13, <1>14, <1>15, <1>16 DEF Ledger

\* Where a pump is that has gone to a point.
LEMMA PumpAt ==
  ASSUME TypeOK, NEW l, Goto("pump", l)
  PROVE  pc'["pump"] = l
BY DEF TypeOK, Goto, Actors

\* A pump that has ended, starts its pass again or is about to cancel knows nothing.
LEMMA PumpIdle ==
  ASSUME pc'["pump"] \in {"off", "loop", "lookup", "call", "finish"},
         status' = "completed" => pc'["pump"] \in {"off", "loop"}
  PROVE  PumpKnows'
BY DEF PumpKnows, TaskPoints, CreatePoints, Decisions

\* Others do not disturb what the pump knows: they keep the current step's completion, binding,
\* evidence and the facts of its result.
LEMMA PumpUndisturbed ==
  ASSUME PumpKnows, pc'["pump"] = pc["pump"], CurExec' = CurExec,
         UNCHANGED <<totalTasks, bound, evidence>>,
         step[CurExec] # "none" => step'[CurExec] # "none",
         step[CurExec] = "completed" =>
           step'[CurExec] = "completed" /\ task'[CurExec].facts = task[CurExec].facts,
         task[CurExec].st # "none" => task'[CurExec].st # "none",
         status' = "completed" => status = "completed"
  PROVE  PumpKnows'
<1>1. pc["pump"] = "complete" => step[CurExec] = "completed"
  BY DEF PumpKnows, Decisions
<1>2. pc'["pump"] = "complete" => Met(CurExec)'
  BY <1>1 DEF PumpKnows, Met
<1> QED BY <1>2 DEF PumpKnows

\* A move of the pump to a point whose knowledge it has.
LEMMA Moves ==
  ASSUME IInv, IInv2, NEW l, MovePump(l),
         l \in {"off", "lookup"} \cup TaskPoints,
         status = "completed" => l = "off",
         l \in TaskPoints => step[CurExec] # "none",
         l \in CreatePoints => ~bound[CurExec] /\ totalTasks < MaxTasks,
         l = "bind" => task[CurExec].st # "none",
         l \in {"wait", "result"} => bound[CurExec]
  PROVE  IInv2'
<1>1. pc'["pump"] = l
  BY PumpAt DEF IInv, MovePump
<1>2. UNCHANGED rows /\ status' = status /\ CurExec' = CurExec
  BY DEF MovePump, rows, wfRow, stepRows, otherRows, gateway, CurExec, CurStep
<1>3. Ledger'
  BY <1>2, Frame DEF IInv, IInv2
<1>4. PumpKnows'
  BY <1>1, <1>2 DEF PumpKnows, rows, TaskPoints, CreatePoints, Decisions
<1> QED BY <1>3, <1>4 DEF IInv2

\* The pump ends the workflow; it completes only what meets the policy.
LEMMA Ends ==
  ASSUME IInv, IInv2, NEW s \in {"completed", "failed", "blocked"}, NEW ev, EndPump(s, ev),
         s = "completed" /\ HasPolicy => step[CurExec] = "completed" /\ Met(CurExec)
  PROVE  IInv2'
<1>1. pc'["pump"] = "off"
  BY PumpAt DEF IInv, EndPump
<1>2. PumpKnows'
  BY <1>1, PumpIdle
<1>3. UNCHANGED rows /\ status' \in {s, status} /\ CurExec' = CurExec
  BY DEF EndPump, TerminalizeWorkflow, rows, stepRows, otherRows, gateway, CurExec, CurStep
<1>4. CASE status' = "completed" => status = "completed"
  BY <1>2, <1>3, <1>4, Frame DEF IInv, IInv2
<1>5. CASE status' = "completed" /\ status # "completed"
  <2>0. CurExec \in Execs
    BY CurExecType DEF IInv
  <2>1. s = "completed"
    BY <1>3, <1>5
  <2>2. HasPolicy => /\ step[CurExec] = "completed" /\ bound[CurExec]
                     /\ task[CurExec].st = "completed" /\ Met(CurExec)
    BY <2>0, <2>1 DEF IInv, ResultsSound, IInv2, Ledger, RunsTrue, RunTrue
  <2>5. HasPolicy /\ "result" \in Required => evidence[CurExec] # "failed"
    BY <2>0, <2>2 DEF IInv2, Ledger, EvidenceTrue, Met
  <2>3. VerifiedCompletion'
    BY <1>3, <2>2, <2>5 DEF Met, VerifiedCompletion, rows
  <2>4. RunsTrue'
    BY <1>3 DEF IInv2, Ledger, RunsTrue, RunTrue, rows
  <2>6. Counted' /\ LoopsMakeProgress' /\ EvidenceTrue'
    BY <1>3 DEF IInv2, Ledger, Counted, BoundExecs, LoopsMakeProgress, EvidenceTrue, rows
  <2>7. OnPath'
    BY <1>3, PathFrame DEF IInv, IInv2, Ledger, rows
  <2> QED BY <1>2, <2>3, <2>4, <2>6, <2>7 DEF IInv2, Ledger
<1> QED BY <1>4, <1>5

\* failStepAndWorkflow, of the step the pump works on.
LEMMA StepFails ==
  ASSUME IInv, IInv2, FailStep(CurExec)
  PROVE  IInv2'
<1>0. CurExec \in Execs
  BY CurExecType DEF IInv
<1>1. PumpKnows'
  <2>1. pc'["pump"] = "off"
    BY PumpAt DEF IInv, FailStep
  <2> QED BY <2>1, PumpIdle
<1>2. UNCHANGED <<cur, round, totalTasks, bound, output, stall, evidence, task, launched>>
      /\ (status' = "completed" => status = "completed")
  BY DEF FailStep, FailStepAndWorkflow, otherRows, gateway
<1>3. CASE step[CurExec] = "pending"
  <2>1. step' = [step EXCEPT ![CurExec] = "failed"]
    BY <1>3 DEF FailStep, FailStepAndWorkflow
  <2> QED BY <1>1, <1>2, <1>3, <2>1, StepDies DEF IInv, IInv2
<1>4. CASE step[CurExec] # "pending"
  <2>1. UNCHANGED rows
    BY <1>2, <1>4 DEF FailStep, FailStepAndWorkflow, rows
  <2> QED BY <1>1, <1>2, <2>1, Frame DEF IInv, IInv2
<1> QED BY <1>3, <1>4

\* What the pump makes of a result: the step completes, fails, or blocks the workflow.
LEMMA ResultUsed ==
  ASSUME IInv, IInv2, bound[CurExec], UseResult(CurExec)
  PROVE  IInv2'
<1>0. CurExec \in Execs
  BY CurExecType DEF IInv
<1>1. CASE CompleteStepAndCheckpoint(CurExec, task[CurExec].out) /\ UNCHANGED <<wfRow, bound, otherRows, gateway, process>>
  <2>1. pc'["pump"] \in {"loop", "off"}
    BY <1>1 DEF CompleteStepAndCheckpoint, Goto, IInv, TypeOK, Actors
  <2>2. PumpKnows'
    BY <2>1, PumpIdle
  <2>3. UNCHANGED <<status, cur, round, totalTasks, bound, stall, evidence, task, launched>>
    BY <1>1 DEF wfRow, otherRows, gateway
  <2>4. CASE step[CurExec] = "pending"
    <3>1. step' = [step EXCEPT ![CurExec] = "completed"] /\ output' = [output EXCEPT ![CurExec] = task[CurExec].out]
      BY <1>1, <2>4 DEF CompleteStepAndCheckpoint
    <3>2. \A e \in Execs : e # CurExec => output'[e] = output[e]
      BY <3>1 DEF IInv, TypeOK
    <3> QED BY <2>2, <2>3, <2>4, <3>1, <3>2, StepCompletes DEF IInv, IInv2
  <2>5. CASE step[CurExec] # "pending"
    <3>1. UNCHANGED rows
      BY <1>1, <2>3, <2>5 DEF CompleteStepAndCheckpoint, rows
    <3> QED BY <2>2, <2>3, <3>1, Frame DEF IInv, IInv2
  <2> QED BY <2>4, <2>5
<1>2. CASE FailStep(CurExec)
  BY <1>2, StepFails
<1>3. CASE EndPump("blocked", <<>>)
  BY <1>3, Ends
<1> QED BY <1>1, <1>2, <1>3 DEF UseResult

\* ensureStepStarted: the first pass starts the entry step, a later one finds its step there.
LEMMA StartStepLedger ==
  ASSUME IInv, IInv2, StartStep
  PROVE  IInv2'
<1>0. CurExec \in Execs /\ status = "running"
  BY CurExecType DEF IInv, StartStep, Driving
<1>1. pc'["pump"] \in {"off", "task"}
  BY DEF StartStep, Goto, IInv, TypeOK, Actors
<1>2. UNCHANGED <<status, round, totalTasks, bound, output, stall, evidence, task, launched>>
  BY DEF StartStep, otherRows, gateway
<1>3. CASE step[CurExec] = "none"
  <2>1. step' = [step EXCEPT ![CurExec] = "pending"] /\ cur' = CurExec[1]
    BY <1>3 DEF StartStep, EnsureStepStarted
  <2>2. Ledger' /\ CurExec' = CurExec
    BY <1>0, <1>2, <1>3, <2>1, StepStarts DEF IInv, IInv2
  <2>3. step'[CurExec'] = "pending"
    BY <1>0, <2>1, <2>2 DEF IInv, TypeOK
  <2>4. PumpKnows'
    BY <1>0, <1>1, <1>2, <2>3 DEF PumpKnows, TaskPoints, CreatePoints, Decisions
  <2> QED BY <2>2, <2>4 DEF IInv2
<1>4. CASE step[CurExec] # "none"
  <2>1. UNCHANGED rows
    BY <1>2, <1>4 DEF StartStep, EnsureStepStarted, rows
  <2>2. CurExec' = CurExec
    BY <2>1 DEF rows, CurExec, CurStep
  <2>3. PumpKnows'
    BY <1>0, <1>1, <1>2, <1>4, <2>1, <2>2 DEF PumpKnows, TaskPoints, CreatePoints, Decisions, rows
  <2> QED BY <1>2, <2>1, <2>3, Frame DEF IInv, IInv2
<1> QED BY <1>3, <1>4

\* A pause, and the failure of a workflow whose request was rejected, touch no row of a step.
LEMMA PauseLedger ==
  ASSUME IInv, IInv2, PauseForHuman
  PROVE  IInv2'
<1>1. pc'["pump"] = "off"
  BY PumpAt DEF IInv, PauseForHuman
<1>2. UNCHANGED rows
  BY DEF PauseForHuman, rows, stepRows, gateway
<1>3. status' = "completed" => status = "completed"
  BY DEF PauseForHuman, TerminalizeWorkflow
<1> QED BY <1>1, <1>2, <1>3, Frame, PumpIdle DEF IInv, IInv2

\* bindStepTaskOnce, at the point where the gateway has the task and the row has not.
LEMMA BindLedger ==
  ASSUME IInv, IInv2, BindTask
  PROVE  IInv2'
<1>0. CurExec \in Execs
  BY CurExecType DEF IInv
<1>1. /\ ~bound[CurExec] /\ totalTasks < MaxTasks
      /\ task[CurExec].st # "none" /\ step[CurExec] # "none" /\ status # "completed"
  BY DEF BindTask, Pump, IInv2, PumpKnows, TaskPoints, CreatePoints, Decisions
<1>2. /\ bound' = [bound EXCEPT ![CurExec] = TRUE] /\ totalTasks' = totalTasks + 1
      /\ UNCHANGED <<status, cur, round, step, output, stall, evidence, task, launched>>
  BY <1>1 DEF BindTask, BindStepTaskOnce, otherRows, gateway
<1>3. Ledger'
  BY <1>1, <1>2, TaskBinds DEF IInv, IInv2
<1>4. pc'["pump"] = "wait" /\ CurExec' = CurExec
  BY <1>2, PumpAt DEF IInv, BindTask, CurExec, CurStep
<1>5. bound'[CurExec]
  BY <1>0, <1>2 DEF IInv, TypeOK
<1>6. PumpKnows'
  BY <1>1, <1>2, <1>4, <1>5 DEF PumpKnows, TaskPoints, CreatePoints, Decisions
<1> QED BY <1>3, <1>6 DEF IInv2

\* recordCompletionEvidence and recordStallRound, of the completed step that is routed.
LEMMA RecordLedger ==
  ASSUME IInv, IInv2, RecordCompletionEvidence \/ RecordStallRound
  PROVE  IInv2'
<1>0. CurExec \in Execs /\ status = "running" /\ step[CurExec] = "completed"
  BY CurExecType DEF IInv, RecordCompletionEvidence, RecordStallRound, Routing, Driving
<1>1. UNCHANGED <<status, cur, round, totalTasks, step, bound, output, task, launched>> /\ CurExec' = CurExec
  BY DEF RecordCompletionEvidence, RecordStallRound, wfRow, stepRows, gateway, CurExec, CurStep
<1>2. CASE RecordCompletionEvidence
  <2>1. PICK d \in Decisions, read \in EvidenceReads :
          /\ d = EvaluateCompletion(CurExec, read)
          /\ \E rec \in EvidenceRecords(d) : evidence' = [evidence EXCEPT ![CurExec] = rec]
          /\ Goto("pump", d)
    BY <1>2, DecisionMade, Zenon
  <2>2. pc'["pump"] = d /\ stall' = stall
    BY <1>2, <2>1, PumpAt DEF IInv, RecordCompletionEvidence
  <2>3. /\ d = "complete" => Met(CurExec)
        /\ d = "failed" => "conflict" \in task[CurExec].facts
    BY <1>0, <2>1, Evaluated DEF IInv
  <2>4. Ledger'
    BY <1>0, <1>1, <2>1, <2>2, <2>3, EvidenceRecorded DEF IInv, IInv2
  <2>5. PumpKnows'
    BY <1>0, <1>1, <2>2, <2>3 DEF PumpKnows, Met, TaskPoints, CreatePoints, Decisions
  <2> QED BY <2>4, <2>5 DEF IInv2
<1>3. CASE RecordStallRound
  <2>1. pc'["pump"] = "stalled"
    BY <1>3, PumpAt DEF IInv, RecordStallRound
  <2>2. PICK f \in Fingerprints : stall' = [stall EXCEPT ![round] = IF @ = NoPrint THEN f ELSE @]
    BY <1>3 DEF RecordStallRound
  <2>3. evidence' = evidence
    BY <1>3 DEF RecordStallRound
  <2> DEFINE p == IF stall[round] = NoPrint THEN f ELSE stall[round]
  <2>4. stall' = [stall EXCEPT ![round] = p]
    BY <2>2
  <2>5. Ledger'
    <3> HIDE DEF p
    <3> QED BY <1>1, <2>3, <2>4, StallRecorded DEF IInv, IInv2
  <2>6. PumpKnows'
    BY <1>0, <1>1, <2>1 DEF PumpKnows, TaskPoints, CreatePoints, Decisions
  <2> QED BY <2>5, <2>6 DEF IInv2
<1> QED BY <1>2, <1>3

\* gateCompletion acts on the decision it has made.
LEMMA GateLedger ==
  ASSUME IInv, IInv2, GateCompletion
  PROVE  IInv2'
<1>1. PICK d \in Decisions : Pump(d) /\ EndPump(GateStatus(d), <<WfEvent("edge.selected")>>)
  BY DEF GateCompletion
<1>2. step[CurExec] = "completed" /\ (d = "complete" => Met(CurExec))
  BY <1>1 DEF Pump, IInv2, PumpKnows
<1>3. GateStatus(d) \in {"completed", "failed", "blocked"} /\ (GateStatus(d) = "completed" => d = "complete")
  BY DEF GateStatus, Decisions
<1> QED BY <1>1, <1>2, <1>3, Ends

\* advanceWorkflow: from a completed step of a running workflow, past the stall check on a loop edge.
LEMMA AdvanceLedger ==
  ASSUME IInv, IInv2, Advance
  PROVE  IInv2'
<1>1. step[CurExec] = "completed" /\ status # "completed" /\ (pc["pump"] = "loop" \/ ~IsStalled(round))
  BY DEF Advance, Routing, Driving, Pump, IInv2, PumpKnows
<1>2. PICK g \in Edges : /\ SelectEdge(CurExec) = {g} /\ g.to \in Steps
                         /\ g.kind = "loop" => CanTakeLoopEdge(round)
                         /\ pc["pump"] = "loop" => ~(g.kind = "loop" /\ MaxStalled > 0)
                         /\ AdvanceWorkflow(g.to, g.kind = "loop")
  BY DEF Advance
<1>3. g.kind = "loop" => round < MaxRounds /\ (MaxStalled > 0 => ~IsStalled(round))
  BY <1>1, <1>2 DEF CanTakeLoopEdge
<1>4. UNCHANGED <<status, totalTasks, bound, output, stall, evidence, task, launched>>
  BY DEF Advance, otherRows, gateway
<1>5. Ledger'
  BY <1>1, <1>2, <1>3, <1>4, PathAdvances DEF IInv2
<1>6. pc'["pump"] = "loop"
  BY PumpAt DEF IInv, Advance
<1> QED BY <1>5, <1>6, PumpIdle DEF IInv2

\* Every step of the pump, and the answer that brings it a task.
LEMMA PumpLedger ==
  ASSUME IInv, IInv2, PumpSteps \/ CreateReturns
  PROVE  IInv2'
<1>0. PumpKnows
  BY DEF IInv2
<1>1. CASE LoopEnds \/ WaitStops \/ WaitFails
  <2>1. MovePump("off")
    BY <1>1 DEF LoopEnds, WaitStops, WaitFails
  <2> QED BY <2>1, Moves DEF TaskPoints, CreatePoints
<1>2. CASE LoopCancels \/ WaitInterrupted \/ WaitDropped
  <2>1. MovePump("lookup") /\ status # "completed"
    BY <1>0, <1>2 DEF LoopCancels, WaitInterrupted, WaitDropped, Pump, Answered, PumpKnows
  <2> QED BY <2>1, Moves DEF TaskPoints, CreatePoints
<1>3. CASE ResumeTask
  <2>1. MovePump("wait") /\ bound[CurExec] /\ step[CurExec] # "none" /\ status # "completed"
    BY <1>0, <1>3 DEF ResumeTask, Pump, PumpKnows, TaskPoints
  <2> QED BY <2>1, Moves DEF TaskPoints, CreatePoints
<1>4. CASE RenderPrompt \/ BackoffEnds \/ CreateTransient \/ CreateTask
  <2>1. ~bound[CurExec] /\ totalTasks < MaxTasks /\ step[CurExec] # "none" /\ status # "completed"
    BY <1>0, <1>4 DEF RenderPrompt, NeedsTask, BackoffEnds, CreateTransient, CreateTask, Pump, Answered,
                      PumpKnows, TaskPoints, CreatePoints
  <2>2. PICK l \in {"off", "create", "backoff", "sent"} : MovePump(l)
    BY <1>4 DEF RenderPrompt, BackoffEnds, CreateTransient, CreateTask
  <2> QED BY <2>1, <2>2, Moves DEF TaskPoints, CreatePoints
<1>5. CASE CreateReturns
  <2>1. /\ ~bound[CurExec] /\ totalTasks < MaxTasks /\ step[CurExec] # "none" /\ status # "completed"
        /\ task[CurExec].st # "none" /\ MovePump("bind")
    BY <1>0, <1>5 DEF CreateReturns, Answered, PumpKnows, TaskPoints, CreatePoints, Decisions
  <2> QED BY <2>1, Moves DEF TaskPoints, CreatePoints
<1>6. CASE \/ LoopExpires \/ TasksExhausted \/ RenderFails \/ CreateFails \/ WaitExpires
           \/ ResultTimeout \/ RouteFails \/ RouteMaxRounds \/ BlockNoProgress
  <2>1. PICK s \in {"failed", "blocked"} : EndPump(s, <<>>)
    BY <1>6 DEF LoopExpires, TasksExhausted, RenderFails, CreateFails, WaitExpires,
                ResultTimeout, RouteFails, RouteMaxRounds, BlockNoProgress
  <2> QED BY <2>1, Ends
<1>7. CASE RouteTerminal
  <2>1. PICK g \in Edges : /\ g.to \in Targets /\ ~(g.to = "$complete" /\ HasPolicy)
                           /\ EndPump(StatusOf[g.to], <<WfEvent("edge.selected")>>)
    BY <1>7 DEF RouteTerminal
  <2>2. StatusOf[g.to] \in {"completed", "failed", "blocked"} /\ (StatusOf[g.to] = "completed" => ~HasPolicy)
    BY <2>1 DEF StatusOf, Targets
  <2> QED BY <2>1, <2>2, Ends
<1>8. CASE TaskTerminal
  <2>1. bound[CurExec] /\ step[CurExec] # "none" /\ status # "completed"
    BY <1>0, <1>8 DEF TaskTerminal, Answered, PumpKnows, TaskPoints
  <2>2. \/ \E l \in {"off", "lookup", "result"} : MovePump(l)
        \/ FailStep(CurExec) \/ UseResult(CurExec)
    BY <1>8 DEF TaskTerminal
  <2>3. ASSUME NEW l \in {"off", "lookup", "result"}, MovePump(l) PROVE IInv2'
    BY <2>1, <2>3, Moves DEF TaskPoints, CreatePoints
  <2> QED BY <2>1, <2>2, <2>3, StepFails, ResultUsed
<1>9. CASE ResultRead
  <2>1. bound[CurExec]
    BY <1>0, <1>9 DEF ResultRead, Pump, PumpKnows
  <2>2. CASE MovePump("off")
    BY <2>2, Moves DEF TaskPoints, CreatePoints
  <2> QED BY <1>9, <2>1, <2>2, ResultUsed DEF ResultRead
<1>10. CASE \/ StartStep \/ PauseForHuman \/ BindTask \/ GateCompletion \/ Advance
            \/ RecordCompletionEvidence \/ RecordStallRound
  BY <1>10, StartStepLedger, PauseLedger, BindLedger, GateLedger, AdvanceLedger, RecordLedger
<1> QED BY <1>1, <1>2, <1>3, <1>4, <1>5, <1>6, <1>7, <1>8, <1>9, <1>10 DEF PumpSteps

\* A request of the API starts a pump at most.
LEMMA ApiLedger ==
  ASSUME IInv, IInv2, Api
  PROVE  IInv2'
<1>1. UNCHANGED rows
  BY DEF Api, CreateWorkflow, StartWorkflow, CancelWorkflow, ResumeWorkflow, AwaitWorkflow,
         AnswerInput, ApproveRequest, RejectRequest, RejectHumanRequest, wfRow, stepRows, otherRows, gateway, rows
<1>2. status' = "completed" => status = "completed"
  BY DEF Api, CreateWorkflow, StartWorkflow, CancelWorkflow, ResumeWorkflow, ResumeWorkflowRunning, AwaitWorkflow,
         AnswerInput, ApproveRequest, RejectRequest, RejectHumanRequest, TerminalizeWorkflow, wfRow
<1>3. pc'["pump"] \in {"loop", pc["pump"]}
  <2>1. CASE EnsurePump
    BY <2>1, EnsurePumpType
  <2>2. CASE Goto("cancel", "lookup")
    BY <2>2 DEF Goto, IInv, TypeOK, Actors
  <2>3. CASE pc' = pc
    BY <2>3
  <2>4. EnsurePump \/ Goto("cancel", "lookup") \/ pc' = pc
    BY DEF Api, CreateWorkflow, StartWorkflow, CancelWorkflow, ResumeWorkflow, AwaitWorkflow,
           AnswerInput, ApproveRequest, RejectRequest
  <2> QED BY <2>1, <2>2, <2>3, <2>4
<1>4. PumpKnows'
  <2>1. CASE pc'["pump"] = "loop"
    BY <2>1, PumpIdle
  <2>2. CASE pc'["pump"] = pc["pump"]
    <3>1. CurExec' = CurExec
      BY <1>1 DEF rows, CurExec, CurStep
    <3> QED BY <1>1, <1>2, <2>2, <3>1, PumpUndisturbed DEF rows, IInv2
  <2> QED BY <1>3, <2>1, <2>2
<1> QED BY <1>1, <1>2, <1>4, Frame DEF IInv, IInv2

\* performCancellation, by either actor: the step it cancels is the current one.
LEMMA CancellationLedger ==
  ASSUME IInv, IInv2, NEW a \in Actors, Cancellation(a)
  PROVE  IInv2'
<1>0. CurExec \in Execs /\ a \in {"pump", "cancel"}
  BY CurExecType DEF IInv, Actors
<1>1. /\ pc'["pump"] = pc["pump"] \/ pc'["pump"] \in {"off", "call", "finish"}
      /\ pc'["pump"] # pc["pump"] => pc["pump"] \in {"lookup", "call", "finish"}
  <2>1. CASE a = "pump"
    BY <2>1 DEF Cancellation, PerformCancellation, CancelTask, FinishCancellation, Goto, IInv, TypeOK, Actors
  <2>2. CASE a = "cancel"
    <3>1. \E l : Goto("cancel", l)
      BY <2>2 DEF Cancellation, PerformCancellation, CancelTask, FinishCancellation
    <3> QED BY <3>1 DEF Goto, IInv, TypeOK, Actors
  <2> QED BY <1>0, <2>1, <2>2
<1>2. UNCHANGED <<cur, round, totalTasks, bound, output, stall, evidence, launched>> /\ CurExec' = CurExec
      /\ (status' = "completed" => status = "completed")
  BY DEF Cancellation, PerformCancellation, CancelTask, FinishCancellation, CancelStepAndWorkflow,
         wfRow, stepRows, otherRows, gateway, CurExec, CurStep
<1>3. ASSUME step[CurExec] # "none" => step'[CurExec] # "none",
             step[CurExec] = "completed" =>
               step'[CurExec] = "completed" /\ task'[CurExec].facts = task[CurExec].facts,
             task[CurExec].st # "none" => task'[CurExec].st # "none"
      PROVE  PumpKnows'
  <2>1. CASE pc'["pump"] = pc["pump"]
    BY <1>2, <1>3, <2>1, PumpUndisturbed DEF IInv2
  <2>2. CASE pc'["pump"] # pc["pump"]
    <3>1. status # "completed"
      BY <1>1, <2>2 DEF IInv2, PumpKnows
    <3> QED BY <1>1, <1>2, <2>2, <3>1, PumpIdle
  <2> QED BY <2>1, <2>2
<1>4. CASE PerformCancellation(a)
  <2>1. UNCHANGED rows
    BY <1>4 DEF PerformCancellation, stepRows, otherRows, gateway, rows
  <2>2. PumpKnows'
    BY <1>3, <2>1 DEF rows
  <2> QED BY <1>2, <2>1, <2>2, Frame DEF IInv, IInv2
<1>5. CASE CancelTask(a)
  <2>0. UNCHANGED <<status, step>>
    BY <1>5 DEF CancelTask, wfRow, stepRows
  <2>1. task' = task \/ (task[tgt[a]].st = "running" /\ task' = [task EXCEPT ![tgt[a]].st = "cancelled"])
    BY <1>5 DEF CancelTask
  <2>2. ASSUME NEW e \in Execs
        PROVE  /\ (task'[e].st = "none") <=> (task[e].st = "none")
               /\ task[e].result = "available" => task'[e].st = task[e].st
               /\ task'[e].facts = task[e].facts
               /\ task'[e].result = "available" => task'[e].st = "completed"
    <3>0. task[e] \in Task /\ (task[e].result = "available" => task[e].st = "completed")
      BY DEF IInv, TypeOK, IInv2, Ledger, RunsTrue, RunTrue
    <3>1. CASE task'[e] = task[e]
      BY <3>0, <3>1
    <3>2. CASE task'[e] # task[e]
      <4>1. e = tgt[a] /\ task[e].st = "running" /\ task'[e] = [task[e] EXCEPT !.st = "cancelled"]
        BY <2>1, <3>2, ZenonT(40) DEF IInv, TypeOK
      <4>2. /\ task'[e].st = "cancelled" /\ task'[e].result = task[e].result
            /\ task'[e].facts = task[e].facts
        BY <3>0, <4>1 DEF Task
      <4> QED BY <3>0, <4>1, <4>2
    <3> QED BY <3>1, <3>2
  <2>3. Ledger'
    BY <1>2, <2>0, <2>2, RunsMove DEF IInv2
  <2>4. PumpKnows'
    BY <1>0, <1>3, <2>0, <2>2
  <2> QED BY <2>3, <2>4 DEF IInv2
<1>6. CASE FinishCancellation(a)
  <2>0. task' = task
    BY <1>6 DEF FinishCancellation, gateway
  <2>1. CASE step' = step
    <3>1. UNCHANGED rows
      BY <1>2, <2>0, <2>1 DEF rows
    <3>2. PumpKnows'
      BY <1>3, <2>0, <2>1
    <3> QED BY <1>2, <3>1, <3>2, Frame DEF IInv, IInv2
  <2>2. CASE step' # step
    <3>1. tgt[a] # NoExec /\ step[tgt[a]] = "pending" /\ step' = [step EXCEPT ![tgt[a]] = "cancelled"]
      BY <1>6, <2>2 DEF FinishCancellation, CancelStepAndWorkflow
    <3>2. tgt[a] \in Execs
      BY <3>1 DEF IInv, TypeOK
    <3>3. tgt[a] = CurExec
      BY <3>1, <3>2 DEF IInv2, Ledger, OnPath, Left, Visited
    <3>4. step[CurExec] = "pending" /\ step' = [step EXCEPT ![CurExec] = "cancelled"]
      BY <3>1, <3>3
    <3>5. Ledger'
      BY <1>2, <2>0, <3>4, StepDies DEF IInv, IInv2
    <3>6. step'[CurExec] = "cancelled"
      BY <1>0, <3>4 DEF IInv, TypeOK
    <3>7. PumpKnows'
      BY <1>3, <2>0, <3>4, <3>6
    <3> QED BY <3>5, <3>7 DEF IInv2
  <2> QED BY <2>1, <2>2
<1> QED BY <1>4, <1>5, <1>6 DEF Cancellation

\* The gateway starts the run that the pump asked for, and the runs go their way.
LEMMA TasksLedger ==
  ASSUME IInv, IInv2, GatewayAccepts \/ Agents
  PROVE  IInv2'
<1>0. CurExec \in Execs /\ task \in [Execs -> Task]
  BY CurExecType DEF IInv, TypeOK
<1>1. /\ UNCHANGED <<status, cur, round, totalTasks, step, bound, output, stall, evidence>>
      /\ pc' = pc /\ CurExec' = CurExec
  BY DEF GatewayAccepts, Agents, TaskCompletes, ResultArrives, TaskBreaks, wfRow, stepRows, otherRows, CurExec, CurStep
<1>2. CASE GatewayAccepts
  <2>1. /\ step[CurExec] # "none" /\ totalTasks < MaxTasks /\ task[CurExec].st = "none"
        /\ pc["pump"] = "sent"
    BY <1>2 DEF GatewayAccepts, Answered, IInv2, PumpKnows, TaskPoints, CreatePoints, Decisions
  <2>2. /\ task' = [task EXCEPT ![CurExec].st = "running"]
        /\ launched' = [launched EXCEPT ![CurExec] = @ + 1]
    BY <1>2 DEF GatewayAccepts
  <2>3. Ledger'
    BY <1>1, <2>1, <2>2, RunStarts DEF IInv2
  <2>4. PumpKnows'
    BY <1>1, <2>1 DEF IInv2, PumpKnows
  <2> QED BY <2>3, <2>4 DEF IInv2
<1>3. CASE Agents
  <2>1. launched' = launched
    BY <1>3 DEF Agents, TaskCompletes, ResultArrives, TaskBreaks
  <2>2. PICK x \in Execs : TaskCompletes(x) \/ ResultArrives(x) \/ TaskBreaks(x)
    BY <1>3 DEF Agents
  <2>3. /\ task[x].st \in {"running", "completed"} /\ task[x].result = "pending"
        /\ task[x] \in Task
    BY <1>0, <2>2 DEF TaskCompletes, ResultArrives, TaskBreaks, IInv, ResultsSound
  <2>4. /\ task'[x].st # "none" /\ (task'[x].result = "available" => task'[x].st = "completed")
        /\ \A e \in Execs : e # x => task'[e] = task[e]
    <3>1. CASE TaskCompletes(x) \/ ResultArrives(x)
      <4>1. PICK res, out, v : Deliver(x, res, out, v)
        BY <3>1 DEF TaskCompletes, ResultArrives
      <4> QED BY <1>0, <4>1 DEF Deliver
    <3>2. CASE TaskBreaks(x)
      <4>1. PICK s \in {"failed", "cancelled"} : task' = [task EXCEPT ![x].st = s]
        BY <3>2 DEF TaskBreaks
      <4>2. task'[x] = [task[x] EXCEPT !.st = s] /\ \A e \in Execs : e # x => task'[e] = task[e]
        BY <1>0, <4>1
      <4>3. task'[x].st = s /\ task'[x].result = "pending"
        BY <2>3, <4>2 DEF Task
      <4> QED BY <4>2, <4>3
    <3> QED BY <2>2, <3>1, <3>2
  <2>5. ASSUME NEW e \in Execs
        PROVE  /\ (task'[e].st = "none") <=> (task[e].st = "none")
               /\ task[e].result = "available" =>
                    task'[e].st = task[e].st /\ task'[e].facts = task[e].facts
               /\ task'[e].result = "available" => task'[e].st = "completed"
    <3>1. CASE e = x
      BY <2>3, <2>4, <3>1
    <3>2. CASE e # x
      <4>1. task[e].result = "available" => task[e].st = "completed"
        BY DEF IInv2, Ledger, RunsTrue, RunTrue
      <4> QED BY <2>4, <3>2, <4>1
    <3> QED BY <3>1, <3>2
  <2>6. Ledger'
    BY <1>1, <2>1, <2>5, RunsMove DEF IInv2
  <2>7. step[CurExec] = "completed" => task[CurExec].result = "available"
    BY <1>0 DEF IInv, ResultsSound
  <2>8. PumpKnows'
    BY <1>0, <1>1, <2>5, <2>7, PumpUndisturbed DEF IInv2
  <2> QED BY <2>6, <2>8 DEF IInv2
<1> QED BY <1>2, <1>3

\* The clock, a crash and a recovery: the rows are durable and the pump starts anew.
LEMMA ProcessLedger ==
  ASSUME IInv, IInv2, DeadlinePasses \/ Crash \/ Shutdown \/ Exit \/ Restart \/ UNCHANGED vars
  PROVE  IInv2'
<1>1. UNCHANGED rows /\ status' = status
  BY DEF DeadlinePasses, Crash, Shutdown, Exit, Restart, vars, wfRow, stepRows, otherRows, gateway, rows
<1>2. CurExec' = CurExec
  BY <1>1 DEF rows, CurExec, CurStep
<1>3. pc'["pump"] = pc["pump"] \/ pc'["pump"] \in {"off", "loop"}
  BY DEF DeadlinePasses, Crash, Shutdown, Exit, Restart, vars, IInv, TypeOK, Actors
<1>4. PumpKnows'
  <2>1. CASE pc'["pump"] = pc["pump"]
    BY <1>1, <1>2, <2>1, PumpUndisturbed DEF rows, IInv2
  <2>2. CASE pc'["pump"] \in {"off", "loop"}
    BY <2>2, PumpIdle
  <2> QED BY <1>3, <2>1, <2>2
<1> QED BY <1>1, <1>4, Frame DEF IInv, IInv2

\* IInv2 is inductive relative to IInv.
LEMMA NextIInv2 == IInv /\ IInv2 /\ [Next]_vars => IInv2'
<1> SUFFICES ASSUME IInv, IInv2, [Next]_vars PROVE IInv2'
  OBVIOUS
<1>1. CASE UNCHANGED vars
  BY <1>1, ProcessLedger
<1>2. CASE Next
  BY <1>2, ApiLedger, PumpLedger, TasksLedger, CancellationLedger, ProcessLedger DEF Next
<1> QED BY <1>1, <1>2

\* Both invariants hold in every reachable state.
LEMMA LedgerInvariant == Spec => [](IInv /\ IInv2)
<1>1. Init => IInv /\ IInv2
  BY InitIInv, InitIInv2
<1>2. IInv /\ IInv2 /\ [Next]_vars => IInv' /\ IInv2'
  BY NextIInv, NextIInv2
<1> QED BY <1>1, <1>2, PTL DEF Spec

\* However often createAndBindTask is cut off between the gateway's task and bindStepTaskOnce, by a
\* crash or a lost answer, a step execution starts one run, and the runs started never exceed
\* max_tasks: the one that is not bound yet is the current step's and has its place left.
THEOREM RunLimits == Spec => []RunsWithinLimits
<1>1. IInv /\ IInv2 => RunsWithinLimits
  <2> SUFFICES ASSUME IInv, IInv2 PROVE RunsWithinLimits
    OBVIOUS
  <2>0. totalTasks \in Nat /\ MaxTasks \in Nat /\ CurExec \in Execs
    BY RoundsAreNumbers, CurExecType DEF IInv
  <2>1. \A e \in Execs : RunTrue(e)
    BY DEF IInv2, Ledger, RunsTrue
  <2>2. IsFiniteSet(BoundExecs) /\ Cardinality(BoundExecs) = totalTasks /\ totalTasks <= MaxTasks
    BY DEF IInv2, Ledger, Counted
  <2> DEFINE L == {e \in Execs : launched[e] > 0}
  <2>3. \A e \in L : e \in BoundExecs \/ (e = CurExec /\ totalTasks < MaxTasks)
    BY <2>1 DEF RunTrue, BoundExecs
  <2>4. Cardinality(L) <= MaxTasks
    <3>1. CASE L \subseteq BoundExecs
      <4>1. Cardinality(L) <= Cardinality(BoundExecs) /\ Cardinality(L) \in Nat
        BY <2>2, <3>1, FS_Subset, FS_CardinalityType
      <4> QED BY <2>0, <2>2, <4>1
    <3>2. CASE ~(L \subseteq BoundExecs)
      <4>1. totalTasks < MaxTasks /\ CurExec \notin BoundExecs
        BY <2>3, <3>2
      <4> DEFINE B == BoundExecs \cup {CurExec}
      <4>2. IsFiniteSet(B) /\ Cardinality(B) = totalTasks + 1
        BY <2>2, <4>1, FS_AddElement
      <4>3. L \subseteq B
        BY <2>3
      <4>4. Cardinality(L) <= Cardinality(B) /\ Cardinality(L) \in Nat
        <5> HIDE DEF L, B
        <5> QED BY <4>2, <4>3, FS_Subset, FS_CardinalityType
      <4> QED BY <2>0, <4>1, <4>2, <4>4
    <3> QED BY <3>1, <3>2
  <2>5. \A e \in Execs : launched[e] <= 1
    BY <2>1 DEF RunTrue
  <2> QED BY <2>4, <2>5 DEF RunsWithinLimits
<1> QED BY <1>1, LedgerInvariant, PTL

\* advanceWorkflow makes one path of the executions: whatever crash comes between a step's checkpoint
\* and the transaction that advances, no stored output is routed twice to different steps, and no
\* execution is entered from two.
THEOREM OnePath == Spec => []PathFollowsRouting
<1>1. IInv /\ IInv2 => PathFollowsRouting
  <2> SUFFICES ASSUME IInv, IInv2, NEW f \in Execs, step[f] # "none", f # <<Entry, 1>>
               PROVE  Cardinality({e \in Execs : Reaches(e, f)}) = 1
    BY DEF PathFollowsRouting
  <2>1. PICK d \in Execs : d # CurExec /\ Reaches(d, f)
    BY DEF IInv2, Ledger, OnPath, Entered, Visited
  <2>2. ~Reaches(CurExec, f)
    BY NotAhead DEF IInv, IInv2, Ledger, Visited
  <2>3. \A e \in Execs : Reaches(e, f) => e = d
    BY <2>1, <2>2 DEF IInv2, Ledger, OnPath, EnteredOnce, Visited
  <2>4. {e \in Execs : Reaches(e, f)} = {d}
    BY <2>1, <2>3
  <2> QED BY <2>4, FS_Singleton
<1> QED BY <1>1, LedgerInvariant, PTL

\* routeAndAdvance takes a loop edge only below max_rounds and past checkStall: no round follows one
\* that ended max_stalled_rounds equal fingerprints, even when a crash separates recordStallRound from
\* the advance.
THEOREM LoopsProgress == Spec => []LoopsMakeProgress
<1>1. IInv2 => LoopsMakeProgress
  BY DEF IInv2, Ledger
<1> QED BY <1>1, LedgerInvariant, PTL

\* gateCompletion completes a workflow with a completion policy only from a completed step whose task
\* is bound and completed and has what the policy requires, through reads of the evidence that fail,
\* records of it that are lost and gates evaluated again after a crash; and, when the policy requires
\* anything of the result, only if nothing in the result contradicts and no record says so.
THEOREM CompletionsVerified == Spec => []VerifiedCompletion
<1>1. IInv2 => VerifiedCompletion
  BY DEF IInv2, Ledger
<1> QED BY <1>1, LedgerInvariant, PTL
================================================================================
