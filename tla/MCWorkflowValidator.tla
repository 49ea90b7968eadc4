------------------------ MODULE MCWorkflowValidator ------------------------
EXTENDS WorkflowValidator

Str(x) == [t |-> "string", v |-> x]
Num(n) == [t |-> "number", v |-> n]
MCOutValues == {Str("x"), Str("y"), Str("z")}
MCSafeIds == {"wf", "a", "b", "c", "r", "dev", "o", "in", "ws"}
MCSecretNames == {"api_token"}
MCInventory ==
    {[agent |-> "codex", node |-> "any", modes |-> {"default"}, workspace |-> TRUE,
      profiles |-> {"node-test"}]}
MCProfiles == {"node-test"}

Enum(req) == [type |-> "enum", enum |-> {"x", "y"}, required |-> req]
Step(refs) == [agent_role |-> "dev", output_schema |-> "o", refs |-> refs]
Out(s, f) == [kind |-> "step_output", step |-> s, field |-> f]
Limits == [max_tasks |-> 9, max_runtime_seconds |-> 60, max_step_attempts |-> 2,
           max_failures |-> 2, max_rounds |-> 2]
NoInputs == [n \in {} |-> Str("x")]
Base(steps, entry, fields) ==
    [version |-> "1", name |-> "wf", entry_step |-> entry, inputs |-> NoInputs,
     agents |-> [dev |-> [agent |-> "codex"]], output_schemas |-> [o |-> fields],
     limits |-> Limits, steps |-> steps,
     completion_policy |-> [required_evidence |-> {"task_status"}]]
Draft(spec, menu, size) ==
    [spec |-> spec, menu |-> menu, size |-> size, given |-> NoInputs, compiled |-> FALSE]

\* Graphs: three steps, a prompt that references an earlier output, any four edges.
EqX == [ns |-> "output", key |-> "s", op |-> "eq", value |-> {Str("x")}]
Plain(f, t, k) == [from |-> f, to |-> t, kind |-> k]
Cond(f, t, k, c) == [from |-> f, to |-> t, kind |-> k, condition |-> c]
GraphMenu ==
    UNION {{Plain(f, t, k), Cond(f, t, k, EqX)} :
             f \in {"a", "b", "c"}, t \in {"a", "b", "c"}, k \in {"normal", "loop"}}
      \union {Plain(f, "$complete", "normal") : f \in {"b", "c"}}
GraphDraft ==
    Draft(Base([a |-> Step({}), b |-> Step({Out("a", "s")}), c |-> Step({Out("b", "s")})],
               "a", [s |-> Enum(TRUE)]), GraphMenu, 4)

\* Routing: one step, every kind of condition on a required and an optional field.
Conditions ==
    {[ns |-> "output", key |-> "s", op |-> op, value |-> v] :
        op \in {"eq", "in", "neq"}, v \in {{Str("x")}, {Str("y")}, {Str("x"), Str("y")}}}
    \union {[ns |-> "output", key |-> k, op |-> "exists"] : k \in {"s", "t"}}
    \union {[ns |-> "output", key |-> "t", op |-> "eq", value |-> {Str(v)}] : v \in {"x", "z"}}
    \union {[ns |-> "workflow", key |-> "round", op |-> "in", value |-> v] :
              v \in {{Num(1)}, {Num(1), Num(2)}, {Str("x")}}}
    \union {[ns |-> "inputs", key |-> "s", op |-> "eq", value |-> {Str("x")}]}
RouteMenu ==
    {Cond("r", "$complete", "normal", c) : c \in Conditions}
    \union {Cond("r", "r", "loop", c) : c \in Conditions}
    \union {Plain("r", "$failed", "normal"), Plain("r", "r", "loop")}
RouteDraft == Draft(Base([r |-> Step({})], "r", [s |-> Enum(TRUE), t |-> Enum(FALSE)]),
                    RouteMenu, 3)

\* The other parts of a spec, one draft for each way they may be.
Finish1 == {Plain("r", "$complete", "normal"), Plain("r", "r", "loop")}
One(st) == Base([r |-> st], "r", [s |-> Enum(TRUE)])
WithInput(spec, def) == [spec EXCEPT !.inputs = [in |-> def]]
Input == [kind |-> "input", name |-> "in"]
Ask == [kind |-> "input", prompt |-> "p"]
StepParts(p) == p @@ Step({})
Parts ==
    {One(Step({[kind |-> "pause"]})),
     One(StepParts([refs |-> {[kind |-> "pause"]}, pause_before |-> Ask])),
     One(StepParts([workspace_write |-> TRUE])),
     One(StepParts([verify |-> [profile |-> "node-test"]])),
     One(StepParts([verify |-> [profile |-> "node-test"],
                    workspace_key |-> [kind |-> "literal", name |-> "ws"]])),
     One(StepParts([context_binding |-> "latest_planner_decision"])),
     One(StepParts([agent_role |-> "nobody"])),
     One(StepParts([permission_mode |-> "unsafe-skip"])),
     One(Step({[kind |-> "context", group |-> "latest_planner_decision",
                field |-> "summary"]})),
     One(Step({Out("r", "s")})),
     One(Step({Input})),
     [One(Step({})) EXCEPT !.limits.max_tasks = 0],
     [One(Step({})) EXCEPT !.limits.max_tasks = 500],
     [One(Step({})) EXCEPT !.completion_policy = [required_evidence |-> {"prose"}]],
     [One(Step({})) EXCEPT !.output_schemas = [o |-> [api_token |-> Enum(TRUE)]]],
     [One(Step({})) EXCEPT !.agents = [dev |-> [agent |-> "other"]]],
     [stall_policy |-> [max_stalled_rounds |-> 1, signals |-> {"remaining_work"}]]
        @@ One(Step({}))}
    \union {WithInput(One(StepParts([refs |-> {Input},
                                     workspace_key |-> [kind |-> "input", name |-> "in"]])), d) :
              d \in {[type |-> "string"], [type |-> "string", required |-> TRUE],
                     [type |-> "string", default |-> Str("ws")], [type |-> "number"]}}
PartDrafts ==
    {[Draft(spec, Finish1, 2) EXCEPT !.given = g, !.compiled = c] :
        spec \in Parts, c \in BOOLEAN, g \in {NoInputs, [in |-> Str("ws")], [in |-> Str("../")]}}

MCDrafts == {GraphDraft, RouteDraft} \union PartDrafts
=============================================================================
