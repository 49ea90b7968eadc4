---------------------------- MODULE RunContract ----------------------------
(***************************************************************************)
(* What a run on a node promises to whoever started it, and the part of    *)
(* its state the promises are about. LocalRun is the run.                  *)
(***************************************************************************)
EXTENDS Naturals, Sequences, FiniteSets

VARIABLES
    scn,       \* the scenario of this run
    log,       \* the event file
    pc,        \* where each process is
    child,     \* the agent process of each turn
    launched,  \* what the agent of each turn was allowed on its command line
    origin,    \* what the workspace holds now
    turnLease  \* history: the lease's state when each turn began

Terminal == {"completed", "failed", "stopped"}
TerminalEvents == {i \in DOMAIN log : log[i] \in Terminal}

\* An agent writes under a lease that was still active when its own turn began: the
\* gate in front of every turn (supervisor.ts 271-292) must not let a fallback inherit
\* the permission of an earlier turn whose lease has been released meanwhile.
WriteNeedsLease ==
    \A i \in DOMAIN launched :
        /\ launched[i] = "workspace-write" => scn.write /\ turnLease[i] = "active_match"
        /\ launched[i] = "bypass" => scn.bypass

\* No agent is spawned in a checkout of another repository than the one requested, not
\* even a fallback after the first agent has repointed the origin (exec.ts 103-117 runs
\* the workspace check again in front of every spawn).
LaunchedInItsRepo ==
    [][\A i \in DOMAIN child :
          (child[i] = "none" /\ child'[i] = "live" /\ scn.repo # "none") => origin = "same"]_child

\* As long as nobody stops the run, at most one terminal status is written and no event
\* follows it, whichever gate, agent, fallback, timer or verifier ends the run
\* (supervisor.ts 294-296).
OneVerdict ==
    (pc.stop = "idle" /\ "stopped" \notin {log[i] : i \in DOMAIN log}) =>
        /\ Cardinality(TerminalEvents) <= 1
        /\ \A i \in TerminalEvents : i = Len(log)
=============================================================================
