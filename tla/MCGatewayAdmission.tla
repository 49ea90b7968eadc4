-------------------------- MODULE MCGatewayAdmission --------------------------
EXTENDS GatewayAdmission, TLC

\* A local task without a key, and the requests that carry the key: on a lease, in a directory of the
\* Node, and local.
Local == [agent |-> "mock", node_id |-> "local", text |-> "t1", execution |-> "absent", timeout |-> "absent",
          permission_mode |-> "absent", workspace_write |-> "absent", workspace |-> "absent",
          repo |-> "absent", workspace_key |-> "absent", path |-> "absent", metadata |-> "absent",
          idempotency_key |-> "absent", workspace_lease_id |-> "absent", verify |-> "absent"]
Leased == [Local EXCEPT !.agent = "codex", !.node_id = "n1", !.execution = "object", !.workspace = "object",
             !.workspace_write = "true", !.workspace_key = "w1", !.workspace_lease_id = "l1",
             !.verify = "npm-test", !.idempotency_key = "k1"]
InCwd == [Local EXCEPT !.agent = "codex", !.node_id = "n1", !.workspace = "object", !.path = "/d",
             !.idempotency_key = "k1"]

\* What the gateway must turn down: each field malformed, and combinations it cannot place.
Refused ==
  UNION {{[Leased EXCEPT ![f] = "bad"]} : f \in DOMAIN Leased}
    \cup {[InCwd EXCEPT !.workspace_key = "w1"], [InCwd EXCEPT !.workspace_lease_id = "l1"],
          [InCwd EXCEPT !.workspace_write = "true"], [Leased EXCEPT !.node_id = "auto"],
          [Local EXCEPT !.workspace_lease_id = "l1"], [Local EXCEPT !.path = "/d"]}

AllBodies == {Local, Leased, InCwd, [Local EXCEPT !.idempotency_key = "k1"]} \cup Refused

\* Requests are interchangeable.
Symmetry == Permutations(Reqs)
=============================================================================
