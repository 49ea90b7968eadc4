------------------------- MODULE WorkflowValidator -------------------------
(***************************************************************************)
(* The one gate every workflow spec passes (src/src/workflow/validator.ts, *)
(* conditions.ts) and what the runtime then does with an accepted spec:    *)
(* normalise the inputs, render each prompt, check the agent's output,     *)
(* choose one outgoing edge (input-values.ts, prompt-renderer.ts,          *)
(* output-parser.ts, output-validator.ts, routing.ts).  An author adds     *)
(* edges to a draft, the draft is validated, and a walker runs what the    *)
(* validator let through: the static checks are compared with the dynamic  *)
(* behaviour they promise.                                                 *)
(*                                                                         *)
(* A JSON object is a TLA+ record whose DOMAIN holds the keys present, so  *)
(* an absent optional key and an unknown key are what they are in the      *)
(* code.  A scalar is [t |-> its type, v |-> its value].  A name is safe   *)
(* when it is in SafeIds, credential-like when it is in SecretNames.       *)
(* Retries, pauses that wait and limits other than max_rounds belong to    *)
(* WorkflowRuntime.                                                        *)
(***************************************************************************)
EXTENDS Naturals, FiniteSets, Graphs

CONSTANTS
    Drafts,       \* what authors start from: [spec, menu, size, given, compiled]
    OutValues,    \* scalars an agent may put in an output field
    SafeIds,      \* names matching SAFE_ID_RE, and safe opaque keys
    SecretNames,  \* credential-like key names
    Inventory,    \* placements [agent, node, modes, workspace, profiles] the compiler may use
    Profiles      \* verifier profiles a Node may advertise

ASSUME DraftsAssumption == \A d \in Drafts : d.size \in Nat /\ IsFiniteSet(d.menu)

VARIABLES
    draft,    \* the chosen draft
    edges,    \* the edges of the spec so far
    phase,    \* "drafting", "running" or "ended"
    values,   \* normalised input values of the workflow
    cur,      \* the step being run
    round,    \* its round
    done,     \* steps with a completed, schema-valid output
    verdict,  \* how the workflow, or its submission, ended
    missing   \* the reference a failed render missed

vars == <<draft, edges, phase, values, cur, round, done, verdict, missing>>

None == [kind |-> "none"]
Has(r, k) == k \in DOMAIN r
Terminals == {"$complete", "$failed", "$blocked"}
KnownSpecFields ==
    {"version", "name", "description", "entry_step", "inputs", "agents", "output_schemas",
     "limits", "steps", "edges", "completion_policy", "stall_policy"}
EvidenceTypes ==
    {"task_status", "exit_code", "content_hash", "workspace_revision", "changed_files",
     "tests_passed"}
StallSignals ==
    {"planner_next_step", "remaining_work", "workspace_revision", "verified_evidence"}
ContextFields ==
    [latest_planner_decision |-> {"status", "summary", "next_step", "acceptance_criteria",
                                 "open_questions"},
     latest_executor_handoff |-> {"status", "summary", "changed_files", "tests_run",
                                  "remaining_work", "risks"}]
MaxOf == [max_rounds |-> 100, max_tasks |-> 1000, max_runtime_seconds |-> 86400,
          max_step_attempts |-> 20, max_failures |-> 100]

Spec0 == draft.spec
StepIds == DOMAIN Spec0.steps
SchemaOf(s) == Spec0.output_schemas[Spec0.steps[s].output_schema]
Outgoing(s) == {e \in edges : e.from = s}
Conditional(s) == {e \in Outgoing(s) : Has(e, "condition")}
Fallbacks(s) == {e \in Outgoing(s) : ~Has(e, "condition")}

-----------------------------------------------------------------------------
(* Agents, inputs, output schemas, policies and limits. *)

\* scanSecretFields, on the objects whose keys an author chooses
NoSecretFields ==
    /\ SecretNames \cap (DOMAIN Spec0 \union DOMAIN Spec0.inputs) = {}
    /\ \A n \in DOMAIN Spec0.output_schemas :
         SecretNames \cap DOMAIN Spec0.output_schemas[n] = {}

AgentsOk ==
    /\ DOMAIN Spec0.agents # {}
    /\ \A r \in DOMAIN Spec0.agents :
         /\ r \in SafeIds
         /\ DOMAIN Spec0.agents[r] \subseteq {"agent", "node_id", "description"}
         /\ Spec0.agents[r].agent # ""

InputsOk ==
    \A n \in DOMAIN Spec0.inputs :
      LET def == Spec0.inputs[n] IN
      /\ n \in SafeIds
      /\ DOMAIN def \subseteq {"type", "required", "description", "default"}
      /\ def.type \in {"string", "number", "boolean", "string[]"}
      /\ Has(def, "default") => def.default.t = def.type

\* A JSON array of enum values is the set of them: their uniqueness is not told apart.
EnumOk(def) ==
    IF def.type = "enum" THEN Has(def, "enum") /\ def.enum # {} ELSE ~Has(def, "enum")

OutputSchemasOk ==
    /\ DOMAIN Spec0.output_schemas # {}
    /\ \A n \in DOMAIN Spec0.output_schemas :
         /\ n \in SafeIds
         /\ DOMAIN Spec0.output_schemas[n] # {}
         /\ \A f \in DOMAIN Spec0.output_schemas[n] :
              LET def == Spec0.output_schemas[n][f] IN
              /\ DOMAIN def \subseteq {"type", "required", "enum", "description"}
              /\ def.type \in {"string", "number", "boolean", "string[]", "enum"}
              /\ EnumOk(def)

Required(def) == Has(def, "required") /\ def.required

\* checkContextBindingCompat: the bound output fits the context slot and always fills its core
ContextBindingOk(group, schema) ==
    /\ DOMAIN schema \subseteq ContextFields[group]
    /\ \A core \in {"status", "summary"} :
         core \in DOMAIN schema /\ Required(schema[core])

PauseGateOk(gate) ==
    /\ DOMAIN gate \subseteq {"kind", "prompt", "choices"}
    /\ gate.kind \in {"input", "approval"}
    /\ gate.prompt # ""

VerifyConfigOk(v) == DOMAIN v = {"profile"} /\ v.profile \in Profiles

StepOk(s) ==
    LET st == Spec0.steps[s] IN
    /\ s \in SafeIds
    /\ DOMAIN st \subseteq
         {"agent_role", "output_schema", "refs", "permission_mode", "workspace_key",
          "workspace_write", "context_binding", "pause_before", "verify"}
    /\ st.agent_role \in DOMAIN Spec0.agents
    /\ st.output_schema \in DOMAIN Spec0.output_schemas
    /\ Has(st, "permission_mode") => st.permission_mode \in {"default", "unsafe-skip"}
    /\ (Has(st, "workspace_write") /\ st.workspace_write) => Has(st, "workspace_key")
    /\ Has(st, "verify") => VerifyConfigOk(st.verify) /\ Has(st, "workspace_key")
    /\ Has(st, "context_binding") =>
         st.context_binding \in DOMAIN ContextFields
           /\ ContextBindingOk(st.context_binding, SchemaOf(s))
    /\ Has(st, "pause_before") => PauseGateOk(st.pause_before)

HasLoopEdge == \E e \in edges : e.kind = "loop"

LimitsOk ==
    LET lim == Spec0.limits IN
    /\ DOMAIN lim \subseteq DOMAIN MaxOf
    /\ {"max_tasks", "max_runtime_seconds", "max_step_attempts", "max_failures"}
         \subseteq DOMAIN lim
    /\ \A k \in DOMAIN lim : lim[k] \in 1..MaxOf[k]
    /\ HasLoopEdge => Has(lim, "max_rounds")

CompletionPolicyOk ==
    Has(Spec0, "completion_policy") =>
      /\ DOMAIN Spec0.completion_policy \subseteq
           {"required_evidence", "require_repository_change", "require_no_remaining_work",
            "require_tests_passed"}
      /\ Has(Spec0.completion_policy, "required_evidence") =>
           Spec0.completion_policy.required_evidence \subseteq EvidenceTypes

StallPolicyOk ==
    Has(Spec0, "stall_policy") =>
      /\ HasLoopEdge
      /\ DOMAIN Spec0.stall_policy \subseteq {"max_stalled_rounds", "signals"}
      /\ Spec0.stall_policy.max_stalled_rounds \in 1..100
      /\ Spec0.stall_policy.signals # {}
      /\ Spec0.stall_policy.signals \subseteq StallSignals

-----------------------------------------------------------------------------
(* Edges, reachability, cycles and dominators. *)

\* parseConditionPath: output.<field> or workflow.round
PathOk(c) == c.ns \in {"output", "workflow"} /\ (c.ns = "workflow" => c.key = "round")

\* Operands of eq and in are held as sets of scalars; exists takes none.
ConditionShapeOk(c) ==
    /\ DOMAIN c \subseteq {"ns", "key", "op", "value"}
    /\ PathOk(c)
    /\ c.op \in {"eq", "neq", "exists", "in"}
    /\ CASE c.op = "exists" -> ~Has(c, "value")
         [] c.op = "in" -> Has(c, "value") /\ c.value # {}
         [] OTHER -> Has(c, "value") /\ Cardinality(c.value) = 1

\* A set of edges holds no two equal ones: the duplicate_edge check has nothing to find.
EdgeOk(e) ==
    /\ e.from \in StepIds
    /\ e.to \in StepIds \union Terminals
    /\ e.kind \in {"normal", "loop"}
    /\ DOMAIN e \subseteq {"from", "to", "condition", "kind"}
    /\ Has(e, "condition") =>
         /\ ConditionShapeOk(e.condition)
         /\ e.condition.ns = "output" => e.condition.key \in DOMAIN SchemaOf(e.from)

StepGraph(E) ==
    [node |-> StepIds, edge |-> {<<e.from, e.to>> : e \in {x \in E : x.to \in StepIds}}]
NormalEdges == {e \in edges : e.kind # "loop"}

Reachable ==
    LET G == StepGraph(edges)
        From[n \in 0..Cardinality(StepIds)] ==
          IF n = 0 THEN {Spec0.entry_step} ELSE From[n - 1] \union AllSuccessors(G, From[n - 1])
    IN  From[Cardinality(StepIds)]

\* findCycle: some step reaches itself over the edges not marked as loops
Acyclic ==
    LET G == StepGraph(NormalEdges)
        After[n \in 1..Cardinality(StepIds), s \in StepIds] ==
          IF n = 1 THEN Successors(G, s) ELSE AllSuccessors(G, After[n - 1, s])
    IN  \A s \in StepIds : \A n \in 1..Cardinality(StepIds) : s \notin After[n, s]

\* Mutant of MeetOfPreds: the dominators of the predecessors are united, not intersected.
MeetOfPredsUnion(dom, preds) == UNION {dom[p] : p \in preds}

\* What every predecessor has among its dominators; nothing when there is none.
MeetOfPreds(dom, preds) ==
    {x \in UNION {dom[p] : p \in preds} : \A p \in preds : x \in dom[p]}

\* computeDominators: the iteration to a fixpoint over the loop-removed graph.  Its result
\* is used only for a spec whose normal edges are acyclic, where as many passes as there
\* are steps reach the fixpoint the code's in-place sweep reaches.
Dominators ==
    LET G == StepGraph(NormalEdges)
        Pass[n \in 0..Cardinality(StepIds)] ==
          IF n = 0
            THEN [s \in Reachable |-> IF s = Spec0.entry_step THEN {s} ELSE Reachable]
            ELSE [s \in Reachable |->
                    IF s = Spec0.entry_step THEN {s}
                    ELSE {s} \union MeetOfPreds(Pass[n - 1], Predecessors(G, s) \cap Reachable)]
    IN  Pass[Cardinality(StepIds)]

GraphOk ==
    /\ \E e \in edges : e.to \in Terminals
    /\ Reachable = StepIds
    /\ Acyclic

-----------------------------------------------------------------------------
(* Template references and workspace keys. *)

RefOk(ref, s) ==
    CASE ref.kind = "pause" ->
           Has(Spec0.steps[s], "pause_before") /\ Spec0.steps[s].pause_before.kind = "input"
      [] ref.kind = "input" -> ref.name \in DOMAIN Spec0.inputs
      [] ref.kind = "workflow" -> TRUE
      [] ref.kind = "context" ->
           ref.group \in DOMAIN ContextFields /\ ref.field \in ContextFields[ref.group]
      [] ref.kind = "step_output" ->
           /\ ref.step \in StepIds
           /\ ref.field \in DOMAIN SchemaOf(ref.step)
           /\ s \in Reachable => ref.step # s /\ ref.step \in Dominators[s]
      [] OTHER -> FALSE    \* parseTemplateReferences: malformed or unknown namespace

WorkspaceKeyOk(key) ==
    CASE key.kind = "literal" -> key.name \in SafeIds
      [] key.kind = "input" ->
           key.name \in DOMAIN Spec0.inputs /\ Spec0.inputs[key.name].type = "string"
      [] OTHER -> FALSE

TemplatesOk ==
    \A s \in StepIds :
      /\ \A ref \in Spec0.steps[s].refs : RefOk(ref, s)
      /\ Has(Spec0.steps[s], "workspace_key") => WorkspaceKeyOk(Spec0.steps[s].workspace_key)

-----------------------------------------------------------------------------
(* Deterministic and exhaustive routing. *)

\* selectorOf, for a condition of a step whose shape has been checked
FieldDef(s, c) == SchemaOf(s)[c.key]
OnField(c) == c.ns = "output"

ValueTypesOk(s, c) ==
    c.op # "exists" =>
      IF ~OnField(c) THEN \A v \in c.value : v.t = "number"
      ELSE /\ FieldDef(s, c).type # "string[]"
           /\ \A v \in c.value :
                IF FieldDef(s, c).type = "enum"
                  THEN v.t = "string" /\ v.v \in FieldDef(s, c).enum
                  ELSE v.t = FieldDef(s, c).type

\* Mutant of BranchesDisjoint: only equal conditions of two branches are noticed.
BranchesDisjointLoose(s) ==
    Cardinality(Conditional(s)) >= 2 =>
      /\ Cardinality({<<e.condition.ns, e.condition.key>> : e \in Conditional(s)}) = 1
      /\ \A e \in Conditional(s) : e.condition.op \in {"eq", "in"}
      /\ \A e, g \in Conditional(s) : e # g => e.condition.value # g.condition.value

\* Two or more branches share one selector, use eq or in only, and name disjoint values.
BranchesDisjoint(s) ==
    Cardinality(Conditional(s)) >= 2 =>
      /\ Cardinality({<<e.condition.ns, e.condition.key>> : e \in Conditional(s)}) = 1
      /\ \A e \in Conditional(s) : e.condition.op \in {"eq", "in"}
      /\ \A e, g \in Conditional(s) :
           e # g => e.condition.value \cap g.condition.value = {}

Covered(s) ==
    UNION {e.condition.value : e \in {x \in Conditional(s) : x.condition.op \in {"eq", "in"}}}

\* A required enum selector is routed for every value, or one fallback takes the rest.
EnumExhaustive(s) ==
    \A c \in {e.condition : e \in Conditional(s)} :
      /\ \A e \in Conditional(s) : OnField(e.condition) /\ e.condition.key = c.key
      /\ FieldDef(s, c).type = "enum"
      /\ Required(FieldDef(s, c))
      /\ Fallbacks(s) = {}
      => \A v \in FieldDef(s, c).enum : [t |-> "string", v |-> v] \in Covered(s)

RoutingOk ==
    \A s \in StepIds :
      /\ Cardinality(Fallbacks(s)) <= 1
      /\ \A e \in Conditional(s) : ValueTypesOk(s, e.condition)
      /\ BranchesDisjoint(s)
      /\ EnumExhaustive(s)

\* The code reports every issue; what the callers act on is whether there is one.  The
\* conjuncts are ordered so that each may rely on the ones before it.
ValidateWorkflowSpec ==
    /\ DOMAIN Spec0 \subseteq KnownSpecFields
    /\ Spec0.version = "1" /\ Spec0.name \in SafeIds
    /\ NoSecretFields
    /\ AgentsOk /\ InputsOk /\ OutputSchemasOk
    /\ StepIds # {} /\ \A s \in StepIds : StepOk(s)
    /\ Spec0.entry_step \in StepIds
    /\ LimitsOk /\ CompletionPolicyOk /\ StallPolicyOk
    /\ \A e \in edges : EdgeOk(e)
    /\ GraphOk
    /\ TemplatesOk
    /\ RoutingOk

-----------------------------------------------------------------------------
(* Creating a workflow from the spec. *)

Completable == \E e \in edges : e.to = "$complete"

\* normalizeInputValues: the names and types of the given values
GivenOk ==
    \A n \in DOMAIN draft.given :
      /\ n \notin SecretNames
      /\ n \in DOMAIN Spec0.inputs
      /\ draft.given[n].t = Spec0.inputs[n].type

Supplied(n) == Has(draft.given, n) \/ Has(Spec0.inputs[n], "default")
InputsComplete ==
    \A n \in DOMAIN Spec0.inputs : Supplied(n) \/ ~Required(Spec0.inputs[n])
NormalizeInputValues ==
    [n \in {x \in DOMAIN Spec0.inputs : Supplied(x)} |->
       IF Has(draft.given, n) THEN draft.given[n] ELSE Spec0.inputs[n].default]

FindPlacement(role) ==
    {p \in Inventory : p.agent = role.agent
                       /\ p.node = (IF Has(role, "node_id") THEN role.node_id ELSE "any")}

\* The placement of a role can enforce what the steps of the role ask for.
PlacementOk(r) ==
    \E p \in FindPlacement(Spec0.agents[r]) :
      \A s \in {x \in StepIds : Spec0.steps[x].agent_role = r} :
        LET st == Spec0.steps[s] IN
        /\ Has(st, "permission_mode") => st.permission_mode \in p.modes \cap {"default"}
        /\ Has(st, "workspace_key") => p.workspace
        /\ Has(st, "verify") => st.verify.profile \in p.profiles

PolicyCapsOk ==
    /\ Spec0.limits.max_tasks <= 200
    /\ Spec0.limits.max_runtime_seconds <= 21600
    /\ Has(Spec0.limits, "max_rounds") => Spec0.limits.max_rounds <= 50

\* What a compiled draft must pass on top of the validator.
ValidateReady ==
    /\ ValidateWorkflowSpec
    /\ GivenOk /\ InputsComplete
    /\ \A r \in DOMAIN Spec0.agents : PlacementOk(r)
    /\ PolicyCapsOk
    /\ Completable => Has(Spec0, "completion_policy")

Init ==
    /\ draft \in Drafts
    /\ edges = {} /\ phase = "drafting" /\ values = <<>>
    /\ cur = "none" /\ round = 1 /\ done = {}
    /\ verdict = "none" /\ missing = None

\* The author adds an edge (authoring itself is outside the program).
AddEdge(e) ==
    /\ phase = "drafting" /\ Cardinality(edges) < draft.size
    /\ edges' = edges \union {e}
    /\ UNCHANGED <<draft, phase, values, cur, round, done, verdict, missing>>

End(v) ==
    /\ phase' = "ended" /\ verdict' = v
    /\ UNCHANGED <<draft, edges, values, cur, round, done>>

\* The spec is submitted and refused: by the validator, or as a compiled draft.
Reject ==
    /\ phase = "drafting"
    /\ ~(IF draft.compiled THEN ValidateReady ELSE ValidateWorkflowSpec)
    /\ End("rejected") /\ UNCHANGED missing

\* createWorkflow: completable specs carry a completion policy and the inputs normalise.
CreateWorkflow ==
    /\ phase = "drafting"
    /\ IF draft.compiled THEN ValidateReady ELSE ValidateWorkflowSpec
    /\ Completable => Has(Spec0, "completion_policy")
    /\ GivenOk /\ InputsComplete
    /\ phase' = "running" /\ values' = NormalizeInputValues /\ cur' = Spec0.entry_step
    /\ UNCHANGED <<draft, edges, round, done, verdict, missing>>

CreateRefused ==
    /\ phase = "drafting" /\ ~draft.compiled
    /\ ValidateWorkflowSpec
    /\ ~(Completable => Has(Spec0, "completion_policy")) \/ ~(GivenOk /\ InputsComplete)
    /\ End("create_refused") /\ UNCHANGED missing

-----------------------------------------------------------------------------
(* Running a step: render, output, route. *)

\* resolveRef: a reference whose required value the scope does not hold
Missing(ref) ==
    CASE ref.kind = "input" -> ref.name \notin DOMAIN values
      [] ref.kind = "step_output" -> ref.step \notin done
      [] ref.kind = "pause" ->
           ~(Has(Spec0.steps[cur], "pause_before") /\ Spec0.steps[cur].pause_before.kind = "input")
      [] OTHER -> FALSE

Misses == {ref \in Spec0.steps[cur].refs : Missing(ref)}

\* renderWorkspaceKey: an omitted input means no explicit key
KeyOk ==
    Has(Spec0.steps[cur], "workspace_key") =>
      LET key == Spec0.steps[cur].workspace_key IN
      (key.kind = "input" /\ key.name \in DOMAIN values) => values[key.name].v \in SafeIds

RenderFails(ref) ==
    /\ phase = "running" /\ ref \in Misses
    /\ missing' = ref
    /\ End("render_missing")

KeyFails ==
    /\ phase = "running" /\ Misses = {} /\ ~KeyOk
    /\ End("render_bad_key") /\ UNCHANGED missing

\* parseSingleJsonObject: exactly one object, bare or in one fence.
ParsedForms == {"bare", "fenced"}

\* validateAgainstSchema: no unknown field, required ones present, each of its type
OutputValid(out, schema) ==
    /\ DOMAIN out \subseteq DOMAIN schema
    /\ \A f \in DOMAIN schema : Required(schema[f]) => f \in DOMAIN out
    /\ \A f \in DOMAIN out :
         IF schema[f].type = "enum"
           THEN out[f].t = "string" /\ out[f].v \in schema[f].enum
           ELSE out[f].t = schema[f].type

\* What the agent may answer: some fields of the schema, each with some scalar.
Answers(s) == UNION {[F -> OutValues] : F \in SUBSET DOMAIN SchemaOf(s)}

Evaluate(c, out, r) ==
    LET found == c.ns = "workflow" \/ c.key \in DOMAIN out
        value == IF c.ns = "workflow" THEN [t |-> "number", v |-> r] ELSE out[c.key]
    IN  CASE c.op = "exists" -> found
          [] c.op = "neq" -> ~(found /\ value \in c.value)
          [] OTHER -> found /\ value \in c.value

Matched(s, out, r) == {e \in Conditional(s) : Evaluate(e.condition, out, r)}

\* selectEdge: the one conditional match, else the one fallback
Selected(s, out, r) == IF Matched(s, out, r) # {} THEN Matched(s, out, r) ELSE Fallbacks(s)

\* The output does not parse or does not satisfy the schema: the attempt fails.
StepFails(form, out) ==
    /\ phase = "running" /\ Misses = {} /\ KeyOk
    /\ form \notin ParsedForms \/ ~OutputValid(out, SchemaOf(cur))
    /\ End("output_invalid") /\ UNCHANGED missing

StepOutput(out) ==
    /\ phase = "running" /\ Misses = {} /\ KeyOk
    /\ OutputValid(out, SchemaOf(cur))

RouteFails(out) ==
    /\ StepOutput(out)
    /\ Cardinality(Selected(cur, out, round)) # 1
    /\ End(IF Selected(cur, out, round) = {} THEN "routing_no_edge" ELSE "routing_ambiguous")
    /\ UNCHANGED missing

\* The edge is taken; a loop edge starts the next round while the limit allows it.
Advance(out) ==
    /\ StepOutput(out)
    /\ \E e \in Selected(cur, out, round) :
         /\ Selected(cur, out, round) = {e} /\ e.to \in StepIds
         /\ e.kind = "loop" => round < Spec0.limits.max_rounds
         /\ cur' = e.to /\ done' = done \union {cur}
         /\ round' = IF e.kind = "loop" THEN round + 1 ELSE round
    /\ UNCHANGED <<draft, edges, phase, values, verdict, missing>>

Finish(out) ==
    /\ StepOutput(out)
    /\ \E e \in Selected(cur, out, round) :
         /\ Selected(cur, out, round) = {e}
         /\ \/ e.to \in Terminals /\ End(e.to)
            \/ /\ e.to \in StepIds /\ e.kind = "loop" /\ round >= Spec0.limits.max_rounds
               /\ End("max_rounds")
    /\ UNCHANGED missing

Next ==
    \/ \E e \in draft.menu \ edges : AddEdge(e)
    \/ Reject
    \/ CreateWorkflow
    \/ CreateRefused
    \/ phase = "running" /\ \E ref \in Spec0.steps[cur].refs : RenderFails(ref)
    \/ KeyFails
    \/ phase = "running" /\ \E form \in {"bare", "fenced", "prose"} :
         \E out \in Answers(cur) : StepFails(form, out)
    \/ phase = "running" /\ \E out \in Answers(cur) : RouteFails(out)
    \/ phase = "running" /\ \E out \in Answers(cur) : Advance(out)
    \/ phase = "running" /\ \E out \in Answers(cur) : Finish(out)

Spec == Init /\ [][Next]_vars

-----------------------------------------------------------------------------
(* Properties. *)

\* A spec the validator accepts routes every schema-valid output: two edges never match
\* (routing_ambiguous), and no edge matches only at a step without a fallback whose
\* conditions do not all select one required enum field (validateRouting against
\* selectEdge and evaluateCondition).
AcceptedSpecsRoute ==
    /\ verdict # "routing_ambiguous"
    /\ verdict = "routing_no_edge" =>
         /\ Fallbacks(cur) = {}
         /\ ~\E f \in DOMAIN SchemaOf(cur) :
               /\ Conditional(cur) # {}
               /\ SchemaOf(cur)[f].type = "enum" /\ Required(SchemaOf(cur)[f])
               /\ \A e \in Conditional(cur) :
                    OnField(e.condition) /\ e.condition.key = f

LoopsGoBack ==
    \A e \in edges : (e.kind = "loop" /\ e.to \in StepIds) => e.to \in Dominators[e.from]

\* When every loop edge goes back to a step that dominates its source, rendering a prompt
\* of an accepted spec misses nothing but an optional input nobody supplied: a referenced
\* step has completed on every path the walk can take, whatever rounds it went through
\* (checkPromptRef against resolveRef and buildRenderScope).
RefsResolved ==
    verdict = "render_missing" =>
      \/ missing.kind = "input" /\ ~Required(Spec0.inputs[missing.name])
      \/ missing.kind = "step_output" /\ ~LoopsGoBack

=============================================================================
