--------------------------- MODULE MCWorkflowRuntime ---------------------------
(* Instances of WorkflowRuntime for TLC: a planner/executor loop and a
   one-step loop. *)
EXTENDS WorkflowRuntime

\* plan -> exec (normal), exec -> plan (loop), plan -> $complete; "odd" matches nothing at
\* plan and blocks at exec.
LoopEdges ==
  LET on(o) == {o} \X Rounds IN
  {[from |-> "plan", to |-> "exec", kind |-> "normal", cond |-> TRUE, when |-> on("go")],
   [from |-> "plan", to |-> "$complete", kind |-> "normal", cond |-> TRUE, when |-> on("done")],
   [from |-> "exec", to |-> "$blocked", kind |-> "normal", cond |-> TRUE, when |-> on("odd")],
   [from |-> "exec", to |-> "plan", kind |-> "loop", cond |-> FALSE, when |-> {}]}

\* work loops on itself until it says "done".
SoloEdges ==
  {[from |-> "work", to |-> "$complete", kind |-> "normal", cond |-> TRUE,
    when |-> {"done"} \X Rounds],
   [from |-> "work", to |-> "work", kind |-> "loop", cond |-> FALSE, when |-> {}]}

\* No gate; what the planner decides needs an approval; every round needs an input.
NoGates == [s \in Steps |-> "none"]
ApprovalGates == [s \in Steps |-> IF s = "exec" THEN "approval" ELSE "none"]
InputGates == [s \in Steps |-> "input"]
================================================================================
