----------------------------- MODULE TaskContract -----------------------------
(***************************************************************************)
(* The contract between a caller of the Agent Gateway and the gateway: the *)
(* body of POST /tasks and its validation (lib/agent-task-contract.ts),    *)
(* what makes two requests the same (lib/request-fingerprint.ts), what a   *)
(* node must offer, and how a failure travels from the Node's ack through  *)
(* the relay client's error, the run error code and the API error to the   *)
(* caller's decision to retry. A field of a body is "absent", a value, or  *)
(* "bad": of the wrong type or shape.                                      *)
(***************************************************************************)
EXTENDS Integers

CONSTANTS LocalAgents,   \* GATEWAY_LOCAL_AGENTS
          RemoteEnabled  \* the gateway has a relay

Optional(values) == values \cup {"absent", "bad"}

CreateTaskRequest ==
  [agent : {"mock", "codex", "bad"}, node_id : Optional({"local", "auto", "n1"}),
   text : {"t1", "t2", "bad"}, execution : Optional({"object"}), timeout : Optional({}),
   permission_mode : Optional({"default", "unsafe-skip"}), workspace_write : Optional({"true", "false"}),
   workspace : Optional({"object"}), repo : Optional({}), workspace_key : Optional({"w1"}),
   path : Optional({"/d"}), metadata : Optional({"m1"}), idempotency_key : Optional({"k1"}),
   workspace_lease_id : Optional({"l1"}), verify : Optional({"npm-test", "go-test"})]

-----------------------------------------------------------------------------
(* validateCreateTaskRequest *)

\* `execution`: an object without deferred fields, with known values.
ValidExecution(b) ==
  /\ b.execution # "bad" /\ b.timeout = "absent"
  /\ b.permission_mode # "bad" /\ b.workspace_write # "bad"

\* `workspace`: an object without deferred fields; a directory excludes every managed workspace.
ValidWorkspace(b) ==
  /\ b.workspace # "bad" /\ b.repo = "absent" /\ b.workspace_key # "bad" /\ b.path # "bad"
  /\ b.path # "absent" => /\ b.workspace_key = "absent" /\ b.workspace_write # "true"
                          /\ b.workspace_lease_id = "absent"

ValidIdentifiers(b) ==
  b.metadata # "bad" /\ b.idempotency_key # "bad" /\ b.workspace_lease_id # "bad"

\* validateTaskVerifyConfig: only the id of an advertised profile.
ValidVerify(b) == b.verify # "bad"

ValidateCreateTaskRequest(b) ==
  /\ b.agent # "bad" /\ b.node_id # "bad" /\ b.text # "bad"
  /\ ValidExecution(b) /\ ValidWorkspace(b) /\ ValidIdentifiers(b) /\ ValidVerify(b)

\* computeRequestFingerprint: what must agree between two requests with one key. `verify` is not
\* part of it.
Fingerprint(b) ==
  <<b.agent, b.node_id, b.text, b.workspace_key, b.path, b.permission_mode, b.workspace_write,
    b.workspace_lease_id, b.metadata>>

-----------------------------------------------------------------------------
(* Where a task runs *)

IsRemote(b) == b.node_id \notin {"absent", "local", "auto"}

\* What handleCreate refuses before it looks at the key: the code, or "ok".
PlacementRefusal(b) ==
  IF IsRemote(b) /\ ~RemoteEnabled THEN "invalid_request"
  ELSE IF ~IsRemote(b) /\ b.agent \notin LocalAgents THEN "agent_unavailable"
  ELSE IF b.workspace_lease_id # "absent" /\ ~IsRemote(b) THEN "workspace_lease_unsupported"
  ELSE IF b.path # "absent" /\ ~IsRemote(b) THEN "agent_unavailable" ELSE "ok"

\* What the registry says of a node.
NodeViews == [online : BOOLEAN, agents : SUBSET {"mock", "codex"}, key : BOOLEAN, caps : SUBSET {"lease", "cwd"}]

\* The remote preflight: the code it answers, or "ok".
Preflight(b, n) ==
  IF ~n.online THEN "node_offline"
  ELSE IF b.agent \notin n.agents THEN "agent_unavailable"
  ELSE IF ~n.key THEN "service_unavailable"
  ELSE IF b.workspace_lease_id # "absent" /\ "lease" \notin n.caps THEN "workspace_lease_unsupported"
  ELSE IF b.path # "absent" /\ "cwd" \notin n.caps THEN "agent_unavailable" ELSE "ok"

\* handleRunStart on the Node, before a run record exists: the codes it may refuse the start with.
NodeRefusals(b) ==
  {"agent_not_supported", "no_identity", "decrypt_failed"}
    \cup (IF b.path # "absent" THEN {"cwd_not_allowed"} ELSE {"invalid_workspace_key"})
    \cup {"workspace_lease_required"}
    \cup (IF b.workspace_lease_id # "absent"
          THEN {"workspace_lease_unsupported", "workspace_lease_invalid", "workspace_lease_released"} ELSE {})

\* The relay's own refusal of a start, and of the connection.
RelayRefusals == {"node_not_found", "http_401"}

\* remoteRunStart and fetchRemoteNodes: what the caller sees when no answer comes.
TransportErrors == {"timeout_waiting", "closed_before", "econnrefused"}

-----------------------------------------------------------------------------
(* The way of an error to the caller *)

CODE_MAP == [run_not_found |-> "run_not_found", already_terminal |-> "already_terminal",
             node_offline |-> "node_offline", node_not_found |-> "node_offline",
             agent_not_supported |-> "agent_not_supported"]

\* classifyRunError: a known ack code, an authorization signal, a transport signal, another code.
ClassifyRunError(e) ==
  IF e \in DOMAIN CODE_MAP THEN CODE_MAP[e]
  ELSE IF e = "http_401" THEN "unauthorized"
  ELSE IF e \in TransportErrors THEN "relay_unavailable" ELSE "remote_error"

RUN_ERROR_MAP ==
  [relay_unavailable |-> "service_unavailable", node_offline |-> "node_offline",
   unauthorized |-> "unauthorized", run_not_found |-> "task_not_found",
   agent_not_supported |-> "agent_unavailable", already_terminal |-> "cancellation_conflict",
   remote_error |-> "internal_error", unknown_error |-> "internal_error"]

\* remoteApiError: the Node's refusal of a directory is a request problem, not an internal one.
RemoteApiError(e) == IF e = "cwd_not_allowed" THEN e ELSE RUN_ERROR_MAP[ClassifyRunError(e)]

RETRYABLE == {"node_offline", "service_unavailable", "internal_error"}

RETRYABLE_CODES == {"gateway_unreachable", "gateway_error", "service_unavailable", "node_offline", "internal_error"}

\* Mutant of Classify: only failures to reach the service or the node are worth a retry.
ClassifyReachability(code) ==
  IF code \in {"gateway_unreachable", "service_unavailable", "node_offline"} THEN "transient" ELSE "fatal"

\* classify of the task client: what a gateway error is for the workflow runtime.
Classify(code) == IF code \in RETRYABLE \cup RETRYABLE_CODES THEN "transient" ELSE "fatal"

=============================================================================
