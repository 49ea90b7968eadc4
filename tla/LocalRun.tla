---------------------------- MODULE LocalRun ----------------------------
(***************************************************************************)
(* One run on the machine that executes it: the process that starts it     *)
(* (lib/run-actions.ts startRun), the detached supervisor it launches      *)
(* (runtime/supervisor.ts), the agent processes the supervisor spawns in   *)
(* turn (runtime/adapters/exec.ts), and a stop from another process.       *)
(* They share two files and nothing else: the run record, which every      *)
(* process changes by reading it whole and writing it back (store.ts       *)
(* updateRun, two steps here), and the append-only event log.              *)
(*                                                                         *)
(* Kept of the record: status, session, child and result; final_agent,     *)
(* switch_reason, error and the other fields only a reader looks at are    *)
(* left out.  Kept of the log: the status events, without errors, notices  *)
(* and output.  One file write is a step.                                  *)
(***************************************************************************)
EXTENDS RunContract, TLC

CONSTANTS
    Scenarios,   \* the runs to start, each a record of Scenario
    MaxStops     \* bound on the stops requested of the run

Agents    == {"mock", "claude", "codex", "opencode"}
Repos     == {"none", "local", "credentials", "foreign", "allowed"}
Origins   == {"empty", "plain", "no_origin", "same", "other"}
Leases    == {"none", "invalid", "inactive", "mismatch", "active_match"}
Texts     == {"", "limit", "auth"}
Procs     == {"start", "sup", "stop"}

\* What is fixed before the run starts: the agent asked for ("auto" leaves the choice to
\* the router), the agents installed, the fallbacks and the reasons to switch to them, the
\* repository and what the workspace holds, whether the task may write and under which
\* lease, whether a verifier is declared and the sandbox on this node confines, the
\* permission mode, the node's settings, and whether the daemon starts the run (it leaves
\* the clone to the supervisor).
Scenario(fallbacks) ==
    [agent : Agents \union {"auto"}, installed : SUBSET Agents, fallbacks : {fallbacks},
     switchOn : SUBSET Texts, repo : Repos, origin : Origins, write : BOOLEAN,
     lease : Leases, verify : BOOLEAN, confines : BOOLEAN, bypass : BOOLEAN,
     tmux : BOOLEAN, preauth : BOOLEAN, enforce : BOOLEAN, viaNode : BOOLEAN]

ASSUME ScenariosAssumption ==
    /\ Scenarios # {}
    /\ \A s \in Scenarios : s \in Scenario(s.fallbacks) /\ s.fallbacks \in Seq(Agents)
ASSUME MaxStopsAssumption == MaxStops \in Nat

VARIABLES
    rec,       \* the record file, or the record NoRecord before it exists
    pend,      \* what a process that is inside updateRun will write, and its next place
    turn,      \* the supervisor's position in the chain
    sandbox,   \* ctx.codexSandbox of this turn
    timedOut,  \* the turn's timer fired
    seen,      \* read earlier: the status by the close handler, the pids by the stopper
    outcome,   \* what the adapter resolved with: result, tail of the output, message
    switched,  \* the supervisor's local flag
    doomed,    \* the turns, and 0 for the supervisor, sent SIGTERM and not dead yet
    lease,     \* the lease the task presents, in the Node's journal
    stops,     \* stops requested so far
    follow     \* whether a client following the log is still polling it

vars == <<scn, rec, log, pc, pend, turn, sandbox, timedOut, seen, outcome, switched,
          child, launched, doomed, lease, origin, stops, follow, turnLease>>

files   == <<rec, log>>
supvars == <<turn, sandbox, timedOut, outcome, switched, turnLease>>
procs   == <<child, launched, doomed>>
world   == <<lease, origin>>

NoRecord == [status |-> "absent", session |-> FALSE, child |-> 0, result |-> "none"]
NoPend   == [rec |-> NoRecord, then |-> "none"]
NoOutcome == [result |-> "none", tail |-> ""]

\* selectRunner: an agent asked for by name is taken as it is; "auto" takes the first
\* installed one by priority, and the mock is always available.
RunnerPriority == <<"claude", "codex", "opencode", "mock">>
SelectRunner(s) ==
    LET available == {i \in DOMAIN RunnerPriority :
                        RunnerPriority[i] \in s.installed \union {"mock"}}
    IN  IF s.agent # "auto" THEN s.agent
        ELSE RunnerPriority[CHOOSE i \in available : \A j \in available : i <= j]

\* resolveAgentPolicy: the agents to try in order, and the reasons to try the next one;
\* a policy that names no reason gets the default ones.
Chain(s) == <<SelectRunner(s)>> \o s.fallbacks
SwitchOn(s) == IF s.switchOn = {} THEN {"limit"} ELSE s.switchOn

Turns    == 1 .. Len(Chain(scn))
Agent    == Chain(scn)[turn]

Init ==
    /\ scn \in Scenarios
    /\ rec = NoRecord
    /\ log = <<>>
    /\ pc = [start |-> "write_queued", sup |-> "off", stop |-> "idle"]
    /\ pend = [p \in Procs |-> NoPend]
    /\ turn = 1 /\ sandbox = "unset" /\ timedOut = FALSE
    /\ seen = [close |-> "none", sup |-> FALSE, child |-> 0]
    /\ outcome = NoOutcome /\ switched = FALSE
    /\ child = [i \in Turns |-> "none"]
    /\ launched = [i \in Turns |-> "none"]
    /\ doomed = {}
    /\ lease = scn.lease /\ origin = scn.origin
    /\ stops = 0
    /\ follow = TRUE
    /\ turnLease = [i \in Turns |-> "none"]

(***************************************************************************)
(* store.ts and events.ts.                                                 *)
(***************************************************************************)
\* updateRun reads the whole record and patches the copy ...
UpdateRun(p, patch, then) ==
    /\ pend' = [pend EXCEPT ![p] = [rec |-> patch @@ rec, then |-> then]]
    /\ pc' = [pc EXCEPT ![p] = "writing"]

\* ... and writes the copy over whatever the file holds by then.
WriteRun(p) ==
    /\ pc[p] = "writing"
    /\ rec' = pend[p].rec
    /\ pc' = [pc EXCEPT ![p] = pend[p].then]
    /\ pend' = [pend EXCEPT ![p] = NoPend]
    /\ UNCHANGED <<scn, log, supvars, seen, procs, world, stops, follow>>

AppendEvents(es) == log' = log \o es

Goto(p, place) == pc' = [pc EXCEPT ![p] = place]

\* streamEvents: print what the file has gained, and stop at the first terminal event.
StreamFlush ==
    /\ follow
    /\ \E i \in DOMAIN log : log[i] \in Terminal
    /\ follow' = FALSE
    /\ UNCHANGED <<scn, files, pc, pend, supvars, seen, procs, world, stops>>

(***************************************************************************)
(* Repository policy: repo-policy.ts and workspace.ts.                     *)
(***************************************************************************)
AssertCleanRepoUrl(repo) == repo # "credentials"
IsRepoAllowed(repo)      == repo \in {"local", "allowed"}
EnforceRepoAllowlist(repo) == scn.enforce => IsRepoAllowed(repo)

\* checkWorkspaceRepoMatch: an empty directory, or a checkout of the requested repository.
CheckWorkspaceRepoMatch(repo, at) ==
    /\ AssertCleanRepoUrl(repo)
    /\ EnforceRepoAllowlist(repo)
    /\ at \in {"empty", "same"}

\* cloneIfEmpty accepts the workspace; the clone itself may still fail.
CloneIfEmpty(repo, at) ==
    /\ AssertCleanRepoUrl(repo)
    /\ EnforceRepoAllowlist(repo)
    /\ CheckWorkspaceRepoMatch(repo, at)

\* Only a github.com remote with an agent that pushes is gated.
Pushes(chain) == \E i \in DOMAIN chain : chain[i] \in {"claude", "codex"}
ShouldPreauth  == scn.preauth /\ scn.repo \notin {"none", "local"} /\ Pushes(Chain(scn))
ShouldRepoGate == scn.enforce /\ scn.repo \notin {"none", "local"} /\ Pushes(Chain(scn))

RunRepoGate ==
    /\ AssertCleanRepoUrl(scn.repo)
    /\ IsRepoAllowed(scn.repo)
    /\ CheckWorkspaceRepoMatch(scn.repo, origin)

(***************************************************************************)
(* startRun.                                                               *)
(***************************************************************************)
StartWrites ==
    /\ pc.start = "write_queued"
    /\ rec' = [NoRecord EXCEPT !.status = "queued"]
    /\ Goto("start", "clone")
    /\ UNCHANGED <<scn, log, pend, supvars, seen, procs, world, stops, follow>>

ClonesFirst == scn.repo # "none" /\ ~scn.viaNode

StartClones ==
    /\ pc.start = "clone"
    /\ ClonesFirst => CloneIfEmpty(scn.repo, origin)
    /\ origin' = IF ClonesFirst /\ origin = "empty" THEN "same" ELSE origin
    /\ Goto("start", "launch")
    /\ UNCHANGED <<scn, files, pend, supvars, seen, procs, lease, stops, follow>>

StartCloneFails ==
    /\ pc.start = "clone"
    /\ ClonesFirst
    /\ ~CloneIfEmpty(scn.repo, origin) \/ origin = "empty"
    /\ AppendEvents(<<"failed">>)
    /\ UpdateRun("start", [status |-> "failed"], "end")
    /\ UNCHANGED <<scn, rec, supvars, seen, procs, world, stops, follow>>

\* getBackend knows no backend for this agent and the process exits: the record stays queued.
StartNoBackend ==
    /\ pc.start = "launch"
    /\ SelectRunner(scn) = "opencode"
    /\ Goto("start", "end")
    /\ UNCHANGED <<scn, files, pend, supvars, seen, procs, world, stops, follow>>

\* launchSupervisor: detached, or inside a tmux session.
LaunchSupervisor ==
    /\ pc.start = "launch"
    /\ SelectRunner(scn) # "opencode"
    /\ pc' = [pc EXCEPT !.start = "mark_running", !.sup = "boot"]
    /\ UNCHANGED <<scn, files, pend, supvars, seen, procs, world, stops, follow>>

StartMarksRunning ==
    /\ pc.start = "mark_running"
    /\ UpdateRun("start", [session |-> TRUE, status |-> "running"], "end")
    /\ UNCHANGED <<scn, files, supvars, seen, procs, world, stops, follow>>

(***************************************************************************)
(* The supervisor: gates before any agent.                                 *)
(***************************************************************************)
SupBoot ==
    /\ pc.sup = "boot"
    /\ UpdateRun("sup", [status |-> rec.status], "announce")
    /\ UNCHANGED <<scn, files, supvars, seen, procs, world, stops, follow>>

SupAnnounces ==
    /\ pc.sup = "announce"
    /\ AppendEvents(<<"running">>)
    /\ Goto("sup", "preauth")
    /\ UNCHANGED <<scn, rec, pend, supvars, seen, procs, world, stops, follow>>

\* A failing gate: the record, then the terminal event.
SupFails ==
    /\ UpdateRun("sup", [status |-> "failed", child |-> 0], "emit_failed")
    /\ UNCHANGED <<scn, files, supvars, seen, procs, world, stops, follow>>

SupPasses(place) ==
    /\ Goto("sup", place)
    /\ UNCHANGED <<scn, files, pend, supvars, seen, procs, world, stops, follow>>

\* preflightGithubAuth asks the credential helper: it may name an allowed account or not.
PreauthGate     == pc.sup = "preauth" /\ SupPasses("repo_gate")
PreauthRefuses  == pc.sup = "preauth" /\ ShouldPreauth /\ SupFails

RepoGate        == pc.sup = "repo_gate" /\ (ShouldRepoGate => RunRepoGate) /\ SupPasses("verifier")
RepoGateRefuses == pc.sup = "repo_gate" /\ ShouldRepoGate /\ ~RunRepoGate /\ SupFails

\* detectEnforcingSandbox: a probe must see both an outside write and a connect blocked;
\* its answer is kept for the life of the process.
DetectEnforcingSandbox == scn.confines

\* verifierPreflight: the profile's program, which may be gone, then the sandbox.
VerifierPreflight(program) == program /\ DetectEnforcingSandbox

VerifierGate    == /\ pc.sup = "verifier"
                   /\ scn.verify => \E program \in BOOLEAN : VerifierPreflight(program)
                   /\ SupPasses("turn")
VerifierRefuses == /\ pc.sup = "verifier" /\ scn.verify
                   /\ \E program \in BOOLEAN : ~VerifierPreflight(program)
                   /\ SupFails

(***************************************************************************)
(* The supervisor: one turn of the chain.                                  *)
(***************************************************************************)
\* The turn reads the record again; an agent nobody adapted ends the run.
BeginTurn ==
    /\ pc.sup = "turn"
    /\ Agent # "opencode"
    /\ turnLease' = [turnLease EXCEPT ![turn] = lease]
    /\ Goto("sup", IF Agent = "codex" /\ ~scn.bypass THEN "codex_gate" ELSE "adapter")
    /\ UNCHANGED <<scn, files, pend, turn, sandbox, timedOut, outcome, switched, seen,
                   procs, world, stops, follow>>

NoAdapter ==
    /\ pc.sup = "turn"
    /\ Agent = "opencode"
    /\ SupFails

\* deriveLeaseState against the Node journal, read at this moment.
LeaseState == IF scn.write THEN lease ELSE "none"

\* resolveCodexSandbox: read-only unless a write was asked for and its lease is active here.
ResolveCodexSandbox ==
    CASE ~scn.write                     -> "read-only"
      [] LeaseState = "active_match"    -> "workspace-write"
      [] OTHER                          -> "denied"

\* Mutant of CodexGate: the decision of the first turn is kept for the fallbacks.
CodexGateOnce ==
    /\ pc.sup = "codex_gate"
    /\ ResolveCodexSandbox # "denied" \/ turn > 1
    /\ sandbox' = IF turn > 1 /\ scn.write THEN "workspace-write" ELSE ResolveCodexSandbox
    /\ Goto("sup", "adapter")
    /\ UNCHANGED <<scn, files, pend, turn, timedOut, outcome, switched, turnLease, seen,
                   procs, world, stops, follow>>

CodexGate ==
    /\ pc.sup = "codex_gate"
    /\ ResolveCodexSandbox # "denied"
    /\ sandbox' = ResolveCodexSandbox
    /\ Goto("sup", "adapter")
    /\ UNCHANGED <<scn, files, pend, turn, timedOut, outcome, switched, turnLease, seen,
                   procs, world, stops, follow>>

CodexGateDenies ==
    /\ pc.sup = "codex_gate"
    /\ ResolveCodexSandbox = "denied"
    /\ SupFails

\* How an adapter resolves.
Resolve(o) ==
    /\ outcome' = o
    /\ Goto("sup", "check_stopped")
Failed(tail) == [result |-> "failed", tail |-> tail]
Completed    == [result |-> "completed", tail |-> ""]

\* The mock adapter spawns nothing.
MockCompletes ==
    /\ pc.sup = "adapter" /\ Agent = "mock"
    /\ Resolve(Completed)
    /\ UNCHANGED <<scn, files, pend, turn, sandbox, timedOut, switched, turnLease, seen,
                   procs, world, stops, follow>>
MockFails ==
    /\ pc.sup = "adapter" /\ Agent = "mock"
    /\ \E t \in Texts \ {""} : Resolve(Failed(t))
    /\ UNCHANGED <<scn, files, pend, turn, sandbox, timedOut, switched, turnLease, seen,
                   procs, world, stops, follow>>

\* Mutant of ExecClones: a populated workspace is taken as it is.
ExecClonesAny ==
    /\ pc.sup = "adapter" /\ Agent \in {"claude", "codex"}
    /\ origin' = IF scn.repo # "none" /\ origin = "empty" THEN "same" ELSE origin
    /\ Goto("sup", "spawn")
    /\ UNCHANGED <<scn, files, pend, supvars, seen, procs, lease, stops, follow>>

\* execAgent: the prompt, then the workspace, which an earlier agent may have changed.
ExecClones ==
    /\ pc.sup = "adapter" /\ Agent \in {"claude", "codex"}
    /\ scn.repo # "none" => CloneIfEmpty(scn.repo, origin)
    /\ origin' = IF scn.repo # "none" /\ origin = "empty" THEN "same" ELSE origin
    /\ Goto("sup", "spawn")
    /\ UNCHANGED <<scn, files, pend, supvars, seen, procs, lease, stops, follow>>

\* A missing prompt, a refused workspace or a failed clone: diagnosticError, no process.
ExecRefused ==
    /\ pc.sup = "adapter" /\ Agent \in {"claude", "codex"}
    /\ Resolve(Failed(""))
    /\ UNCHANGED <<scn, files, pend, turn, sandbox, timedOut, switched, turnLease, seen,
                   procs, world, stops, follow>>

\* An adapter that throws is a failed outcome whose only text is the exception's.
AdapterThrows ==
    /\ pc.sup = "adapter"
    /\ \E t \in Texts : Resolve(Failed(t))
    /\ UNCHANGED <<scn, files, pend, turn, sandbox, timedOut, switched, turnLease, seen,
                   procs, world, stops, follow>>

\* buildArgs of the two adapters: the sandbox flag comes from the turn's context, and a
\* bypass only from the record's permission mode.
CodexArgs  == IF scn.bypass THEN "bypass"
              ELSE IF sandbox = "workspace-write" THEN "workspace-write" ELSE "read-only"
ClaudeArgs == IF scn.bypass THEN "bypass" ELSE "ask"

Spawn ==
    /\ pc.sup = "spawn"
    /\ child' = [child EXCEPT ![turn] = "live"]
    /\ launched' = [launched EXCEPT ![turn] = IF Agent = "codex" THEN CodexArgs ELSE ClaudeArgs]
    /\ timedOut' = FALSE
    /\ UpdateRun("sup", [child |-> turn], "await")
    /\ UNCHANGED <<scn, files, turn, sandbox, outcome, switched, turnLease, seen, doomed,
                   world, stops, follow>>

\* The binary is missing: no pid, and a diagnosticError without any output to classify.
SpawnFails ==
    /\ pc.sup = "spawn"
    /\ Resolve(Failed(""))
    /\ UNCHANGED <<scn, files, pend, turn, sandbox, timedOut, switched, turnLease, seen,
                   procs, world, stops, follow>>

\* The timer signals the process group and leaves the rest to the close handler.
ExecTimeout ==
    /\ pc.sup = "await" /\ ~timedOut
    /\ child[turn] = "live"
    /\ timedOut' = TRUE
    /\ doomed' = doomed \union {turn}
    /\ UNCHANGED <<scn, files, pc, pend, turn, sandbox, outcome, switched, turnLease, seen,
                   child, launched, world, stops, follow>>

\* child.on('close'): read the status, then updateRun (which reads it again).
ExecClose ==
    /\ pc.sup = "await"
    /\ child[turn] \in {"ok", "bad"}
    /\ seen' = [seen EXCEPT !.close = rec.status]
    /\ Goto("sup", "closing")
    /\ UNCHANGED <<scn, files, pend, supvars, procs, world, stops, follow>>
ExecClearsChild ==
    /\ pc.sup = "closing"
    /\ UpdateRun("sup", [child |-> 0], "closed")
    /\ UNCHANGED <<scn, files, supvars, seen, procs, world, stops, follow>>

ExecResolves ==
    /\ pc.sup = "closed"
    /\ \/ /\ seen.close = "stopped"
          /\ Resolve(Failed(""))
       \/ /\ seen.close # "stopped" /\ ~timedOut /\ child[turn] = "ok"
          /\ Resolve(Completed)
       \/ /\ seen.close # "stopped"
          /\ timedOut \/ child[turn] = "bad"
          /\ \E tail \in Texts : Resolve(Failed(tail))
    /\ timedOut' = FALSE
    /\ seen' = [seen EXCEPT !.close = "none"]
    /\ UNCHANGED <<scn, files, pend, turn, sandbox, switched, turnLease,
                   procs, world, stops, follow>>

\* A stop that wrote its status already has the last word.
SupYieldsToStop ==
    /\ pc.sup = "check_stopped"
    /\ rec.status = "stopped"
    /\ SupPasses("end")

SupCompletes ==
    /\ pc.sup = "check_stopped"
    /\ rec.status # "stopped" /\ outcome.result = "completed"
    /\ SupPasses(IF scn.verify THEN "verify" ELSE "finalize")

\* wrapVerifierCommand: no command outside the sandbox.  The program may have gone while
\* the agent ran; a suite that fails is a result, not a failure of the run.
VerifierLost == pc.sup = "verify" /\ (\E program \in BOOLEAN : ~VerifierPreflight(program)) /\ SupFails
VerifierRuns == pc.sup = "verify" /\ (\E program \in BOOLEAN : VerifierPreflight(program)) /\ SupPasses("finalize")

\* finalizeResult: the adapter's own final output, or none.
Finalize ==
    /\ pc.sup = "finalize"
    /\ \E r \in {"available", "missing"} :
           UpdateRun("sup", [status |-> "completed", result |-> r, child |-> 0], "emit_completed")
    /\ UNCHANGED <<scn, files, supvars, seen, procs, world, stops, follow>>

\* classifyFailure(outcome.tailOutput ?? outcome.failureMessage): execAgent's tail is a
\* string even when nothing was printed, so its message is never looked at.
ClassifyFailure == outcome.tail
Recoverable(text) == text \in {"limit", "auth"}
WillSwitch == /\ Recoverable(ClassifyFailure)
              /\ ClassifyFailure \in SwitchOn(scn)
              /\ turn < Len(Chain(scn))

SupFailsForGood ==
    /\ pc.sup = "check_stopped"
    /\ rec.status # "stopped" /\ outcome.result = "failed"
    /\ ~WillSwitch
    /\ UpdateRun("sup", [status |-> "failed", child |-> 0], "emit_failed")
    /\ UNCHANGED <<scn, files, supvars, seen, procs, world, stops, follow>>

\* Mutant of SupSwitches: a terminal status is written before the next agent is tried.
SupSwitchesFailed ==
    /\ pc.sup = "check_stopped"
    /\ rec.status # "stopped" /\ outcome.result = "failed"
    /\ WillSwitch
    /\ AppendEvents(<<"failed">>)
    /\ switched' = TRUE
    /\ sandbox' = "unset" /\ turn' = turn + 1 /\ outcome' = NoOutcome
    /\ UpdateRun("sup", [status |-> rec.status], "turn")
    /\ UNCHANGED <<scn, rec, timedOut, turnLease, seen, procs, world, stops, follow>>

\* A handoff if it can be written, the record, and the next agent with a fresh context.
SupSwitches ==
    /\ pc.sup = "check_stopped"
    /\ rec.status # "stopped" /\ outcome.result = "failed"
    /\ WillSwitch
    /\ switched' = TRUE
    /\ sandbox' = "unset" /\ turn' = turn + 1 /\ outcome' = NoOutcome
    /\ UpdateRun("sup", [status |-> rec.status], "turn")
    /\ UNCHANGED <<scn, files, timedOut, turnLease, seen, procs, world, stops, follow>>

\* Mutant of SupEmits: the terminal event is skipped once the run has switched agents.
SupEmitsUnlessSwitched ==
    /\ pc.sup \in {"emit_failed", "emit_completed"}
    /\ AppendEvents(IF switched THEN <<>>
                    ELSE <<IF pc.sup = "emit_failed" THEN "failed" ELSE "completed">>)
    /\ Goto("sup", "end")
    /\ UNCHANGED <<scn, rec, pend, supvars, seen, procs, world, stops, follow>>

\* The terminal event follows the record.
SupEmits ==
    /\ pc.sup \in {"emit_failed", "emit_completed"}
    /\ AppendEvents(<<IF pc.sup = "emit_failed" THEN "failed" ELSE "completed">>)
    /\ Goto("sup", "end")
    /\ UNCHANGED <<scn, rec, pend, supvars, seen, procs, world, stops, follow>>

(***************************************************************************)
(* stopRun, and the daemon's runStopLogic, which knows no tmux sessions.   *)
(***************************************************************************)
StopReads(remote) ==
    /\ pc.stop = "idle" /\ stops < MaxStops
    /\ rec.status # "absent"
    /\ stops' = stops + 1
    /\ IF rec.status \in Terminal
       THEN UNCHANGED <<seen, pc>>
       ELSE /\ seen' = [seen EXCEPT !.sup = rec.session /\ ~(scn.tmux /\ remote),
                                    !.child = rec.child]
            /\ Goto("stop", "kill")
    /\ UNCHANGED <<scn, files, pend, supvars, procs, world, follow>>

StopKills ==
    /\ pc.stop = "kill"
    /\ doomed' = doomed
          \union {p \in {0} : seen.sup /\ pc.sup \notin {"off", "end", "dead"}}
          \union {i \in Turns : seen.child = i /\ child[i] = "live"}
    /\ seen' = [seen EXCEPT !.sup = FALSE, !.child = 0]
    /\ Goto("stop", "emit")
    /\ UNCHANGED <<scn, files, pend, supvars, child, launched, world, stops, follow>>

StopEmits ==
    /\ pc.stop = "emit"
    /\ AppendEvents(<<"stopped">>)
    /\ Goto("stop", "record")
    /\ UNCHANGED <<scn, rec, pend, supvars, seen, procs, world, stops, follow>>

StopRecords ==
    /\ pc.stop = "record"
    /\ UpdateRun("stop", [status |-> "stopped"], "idle")
    /\ UNCHANGED <<scn, files, supvars, seen, procs, world, stops, follow>>

(***************************************************************************)
(* The operating system and the agents.                                    *)
(***************************************************************************)
\* The supervisor installs no handler: SIGTERM ends it wherever it is.
SupDies ==
    /\ 0 \in doomed
    /\ doomed' = doomed \ {0}
    /\ Goto("sup", IF pc.sup = "end" THEN "end" ELSE "dead")
    /\ pend' = [pend EXCEPT !.sup = NoPend]
    /\ UNCHANGED <<scn, files, supvars, seen, child, launched, world, stops, follow>>

ChildExits(i) ==
    /\ child[i] = "live"
    /\ \E code \in {"ok", "bad"} : child' = [child EXCEPT ![i] = code]
    /\ doomed' = doomed \ {i}
    /\ UNCHANGED <<scn, files, pc, pend, supvars, seen, launched, world, stops, follow>>

\* An agent repoints the checkout it works in.
ChildRetargets(i) ==
    /\ child[i] = "live"
    /\ origin = "same"
    /\ origin' = "other"
    /\ UNCHANGED <<scn, files, pc, pend, supvars, seen, procs, lease, stops, follow>>

\* A released lease never becomes active again.
LeaseReleased ==
    /\ lease = "active_match"
    /\ lease' = "inactive"
    /\ UNCHANGED <<scn, files, pc, pend, supvars, seen, procs, origin, stops, follow>>

SupSteps ==
    \/ SupBoot \/ SupAnnounces
    \/ PreauthGate \/ PreauthRefuses
    \/ RepoGate \/ RepoGateRefuses
    \/ VerifierGate \/ VerifierRefuses
    \/ BeginTurn \/ NoAdapter
    \/ CodexGate \/ CodexGateDenies
    \/ MockCompletes \/ MockFails
    \/ ExecClones \/ ExecRefused \/ AdapterThrows
    \/ Spawn \/ SpawnFails
    \/ ExecClose \/ ExecClearsChild \/ ExecResolves
    \/ SupYieldsToStop \/ SupCompletes
    \/ VerifierLost \/ VerifierRuns \/ Finalize
    \/ SupFailsForGood \/ SupSwitches \/ SupEmits
    \/ WriteRun("sup")

StartSteps ==
    \/ StartWrites \/ StartClones \/ StartCloneFails
    \/ StartNoBackend \/ LaunchSupervisor \/ StartMarksRunning
    \/ WriteRun("start")

StopSteps == StopKills \/ StopEmits \/ StopRecords \/ WriteRun("stop")

Next ==
    \/ StartSteps
    \/ SupSteps
    \/ ExecTimeout
    \/ \E remote \in BOOLEAN : StopReads(remote)
    \/ StopSteps
    \/ SupDies
    \/ \E i \in Turns : ChildExits(i)
    \/ \E i \in Turns : ChildRetargets(i)
    \/ LeaseReleased
    \/ StreamFlush

Spec == Init /\ [][Next]_vars

\* The processes run, an agent ends (by itself, or at the latest after the timer's
\* SIGTERM) and the follower polls every 250 ms.
Fairness ==
    /\ WF_vars(StartSteps)
    /\ WF_vars(SupSteps \/ SupDies)
    /\ WF_vars(StopSteps)
    /\ WF_vars(\E i \in Turns : ChildExits(i))
    /\ WF_vars(StreamFlush)

FairSpec == Spec /\ Fairness

(***************************************************************************)
(* Properties.                                                             *)
(***************************************************************************)
\* A follower of a launched run sees it end (events.ts streamEvents): the supervisor
\* always reaches a terminal event, or was killed by a stop, which writes one.
FollowerEnds == (pc.sup # "off") ~> ~follow
=============================================================================
