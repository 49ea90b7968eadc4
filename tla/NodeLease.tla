------------------------------ MODULE NodeLease ------------------------------
(***************************************************************************)
(* The Node as the authority over exclusive workspace leases.              *)
(*                                                                         *)
(* One Node daemon owns a SQLite journal with two tables that matter here: *)
(* `workspace_leases` (variable lease) and `runs` (variables bound and     *)
(* recorded).  The daemon serves lease requests from the relay, admits     *)
(* runs through the lease gate of handleRunStart, spawns a detached        *)
(* supervisor process per run (variable proc), and tails the run's event   *)
(* file (variable evlog) into the journal (variable tail is the set of     *)
(* runs this daemon process is tailing).  The journal learns that a run is *)
(* over only through the tailer, and a lease may be released only when no  *)
(* run bound to it is open in the journal.                                 *)
(*                                                                         *)
(* Every handler of the daemon is synchronous JavaScript up to its reply,  *)
(* so each is one action; supervisor processes, the tailer's timer, the    *)
(* operator's `stop` and daemon crashes interleave between them.  Requests *)
(* that only produce an error or an idempotent reply leave the state       *)
(* unchanged and are stuttering steps.                                     *)
(***************************************************************************)
EXTENDS Naturals, FiniteSets

CONSTANTS Workflows,     \* ids of the workflows that may ask for a lease
          Workspaces,    \* workspace keys of this node
          Runs,          \* remote run ids (generateRunId never repeats one)
          NoLease,       \* "no lease": an unleased run, or a null column
          Faults,        \* which faults may happen: see FaultKinds
          MaxRestarts    \* bound on the number of daemon crashes

FaultKinds == {"crash",    \* the daemon dies (and later restarts)
               "kill",     \* a supervisor dies without writing a terminal event
               "bind",     \* the journal does not take a run's binding to its lease
               "drop",     \* a terminal event that the tailer reads is not journaled
               "idle"}     \* a run writes nothing for IDLE_TIMEOUT_MS

\* workspaceLeaseId: deterministic in (workflow, node, workspace key).
Leases == Workflows \X Workspaces

ASSUME NodeLeaseAssumption ==
    /\ NoLease \notin Leases
    /\ NoLease \notin Workspaces
    /\ Faults \subseteq FaultKinds
    /\ MaxRestarts \in Nat

VARIABLES
    lease,      \* lease row status: "absent", "active" or "released"
    key,        \* the workspace a run was admitted to, NoLease before that
    bound,      \* runs.workspace_lease_id
    recorded,   \* runs.terminal_event_recorded
    evlog,      \* the run's event file: "none", "open", "ended" (a terminal event
                \* is there to be read), or "lost" (the tailer is past it)
    proc,       \* its supervisor and agent processes: "none", "live", "dead"
    tail,       \* the runs this daemon process is tailing
    up,         \* whether the daemon is running
    restarts    \* daemon crashes so far

vars == <<lease, key, bound, recorded, evlog, proc, tail, up, restarts>>

Init ==
    /\ lease = [l \in Leases |-> "absent"]
    /\ key = [r \in Runs |-> NoLease]
    /\ bound = [r \in Runs |-> NoLease]
    /\ recorded = [r \in Runs |-> FALSE]
    /\ evlog = [r \in Runs |-> "none"]
    /\ proc = [r \in Runs |-> "none"]
    /\ tail = {}
    /\ up = TRUE
    /\ restarts = 0

-----------------------------------------------------------------------------
(* Lease table *)

\* activeLeaseRow: the Node only ever writes 'active' and 'released'.
ActiveLeases(k) == {l \in Leases : l[2] = k /\ lease[l] = "active"}

\* isLeaseInUse: some run bound to the lease has no terminal event recorded.
InUse(l) == \E r \in Runs : bound[r] = l /\ ~recorded[r]

\* Mutant of MayAcquire: the conflict check forgets the other workflows.
MayAcquireUnchecked(w, k) == lease[<<w, k>>] # "active"

\* No other workflow holds the workspace: the conflict check and the partial
\* unique index behind it.
MayAcquire(w, k) == ActiveLeases(k) \subseteq {<<w, k>>}

\* Create the lease, or re-activate the workflow's own released one.  A retry
\* on an active own lease replies with it; another holder is a conflict.
AcquireWorkspaceLease(w, k) ==
    /\ up
    /\ lease[<<w, k>>] # "active"
    /\ MayAcquire(w, k)
    /\ lease' = [lease EXCEPT ![<<w, k>>] = "active"]
    /\ UNCHANGED <<key, bound, recorded, evlog, proc, tail, up, restarts>>

\* Mutant of ReleaseWorkspaceLease: releases whatever is still bound.
ReleaseWorkspaceLeaseInUse(l) ==
    /\ up
    /\ lease[l] = "active"
    /\ lease' = [lease EXCEPT ![l] = "released"]
    /\ UNCHANGED <<key, bound, recorded, evlog, proc, tail, up, restarts>>

\* Release: an unknown lease is an error, a released one is returned, a lease
\* in use is refused with workspace_lease_in_use.
ReleaseWorkspaceLease(l) ==
    /\ up
    /\ lease[l] = "active"
    /\ ~InUse(l)
    /\ lease' = [lease EXCEPT ![l] = "released"]
    /\ UNCHANGED <<key, bound, recorded, evlog, proc, tail, up, restarts>>

-----------------------------------------------------------------------------
(* Run start *)

\* validateWorkspaceLeaseForRun: a presented lease must be the active one of
\* the workspace; with none presented the workspace must be unleased.
ValidateForRun(k, p) ==
    IF p = NoLease THEN ActiveLeases(k) = {} ELSE p \in ActiveLeases(k)

\* bindRunToLease is best effort: a journal that fails leaves the run unbound, and the
\* run starts all the same.
Bindings(p) == {p} \cup (IF "bind" \in Faults THEN {NoLease} ELSE {})

\* The part of handleRunStart before the backend is spawned: the lease gate,
\* the run record, and the durable binding of the run to its lease.
Admit(r, k, p) ==
    /\ up
    /\ key[r] = NoLease
    /\ ValidateForRun(k, p)
    /\ key' = [key EXCEPT ![r] = k]
    /\ \E b \in Bindings(p) : bound' = [bound EXCEPT ![r] = b]
    /\ UNCHANGED <<lease, recorded>>

\* The run is admitted, its supervisor spawned, and its event file tailed.
RunStart(r, k, p) ==
    /\ Admit(r, k, p)
    /\ proc' = [proc EXCEPT ![r] = "live"]
    /\ evlog' = [evlog EXCEPT ![r] = "open"]
    /\ tail' = tail \cup {r}
    /\ UNCHANGED <<up, restarts>>

\* The daemon dies inside handleRunStart, after the binding is durable and
\* before or after the detached supervisor was spawned; nobody tails the run.
RunStartCrash(r, k, p) ==
    /\ "crash" \in Faults /\ restarts < MaxRestarts
    /\ Admit(r, k, p)
    /\ \/ UNCHANGED <<proc, evlog>>
       \/ /\ proc' = [proc EXCEPT ![r] = "live"]
          /\ evlog' = [evlog EXCEPT ![r] = "open"]
    /\ tail' = {}
    /\ up' = FALSE
    /\ restarts' = restarts + 1

-----------------------------------------------------------------------------
(* Supervisor processes, `run stop`, and the tailer *)

\* The supervisor writes its one terminal status once its agent has exited.
SupervisorEnd(r) ==
    /\ proc[r] = "live" /\ evlog[r] = "open"
    /\ proc' = [proc EXCEPT ![r] = "dead"]
    /\ evlog' = [evlog EXCEPT ![r] = "ended"]
    /\ UNCHANGED <<lease, key, bound, recorded, tail, up, restarts>>

\* runStopLogic: SIGTERM the processes, then append the terminal `stopped`
\* status at once, whether or not they are gone.  A run that was recorded and
\* never spawned can be stopped too.
RunStop(r) ==
    /\ up
    /\ key[r] # NoLease /\ evlog[r] \in {"none", "open"}
    /\ evlog' = [evlog EXCEPT ![r] = "ended"]
    /\ UNCHANGED <<lease, key, bound, recorded, proc, tail, up, restarts>>

\* Signalled processes exit; with fault "kill" a supervisor may also die by
\* itself, leaving its event file without a terminal status.
ProcessExit(r) ==
    /\ proc[r] = "live"
    /\ evlog[r] \in {"ended", "lost"} \/ "kill" \in Faults
    /\ proc' = [proc EXCEPT ![r] = "dead"]
    /\ UNCHANGED <<lease, key, bound, recorded, evlog, tail, up, restarts>>

\* Mutant of TailTerminal: the tailer waits for the supervisor's process to be gone.
TailTerminalOnExit(r) ==
    /\ up /\ r \in tail
    /\ evlog[r] = "ended" /\ proc[r] = "dead"
    /\ recorded' = [recorded EXCEPT ![r] = TRUE]
    /\ tail' = tail \ {r}
    /\ UNCHANGED <<lease, key, bound, evlog, proc, up, restarts>>

\* tailRunEvents reads the terminal event: journal append, then finish.
TailTerminal(r) ==
    /\ up /\ r \in tail
    /\ evlog[r] = "ended"
    /\ recorded' = [recorded EXCEPT ![r] = TRUE]
    /\ tail' = tail \ {r}
    /\ UNCHANGED <<lease, key, bound, evlog, proc, up, restarts>>

\* The append of the terminal event fails (events_per_run), or the line was
\* read half-written: the offset is past it, and nothing reads it again.
TailDrop(r) ==
    /\ "drop" \in Faults
    /\ up /\ r \in tail
    /\ evlog[r] = "ended"
    /\ evlog' = [evlog EXCEPT ![r] = "lost"]
    /\ UNCHANGED <<lease, key, bound, recorded, proc, tail, up, restarts>>

\* tailRunEvents gives up after IDLE_TIMEOUT_MS without a new event.
TailIdle(r) ==
    /\ "idle" \in Faults
    /\ up /\ r \in tail
    /\ evlog[r] # "ended"
    /\ tail' = tail \ {r}
    /\ UNCHANGED <<lease, key, bound, recorded, evlog, proc, up, restarts>>

\* The daemon dies: its tailers are lost, the journal and the detached
\* supervisors are not.
Crash ==
    /\ "crash" \in Faults /\ restarts < MaxRestarts
    /\ up
    /\ up' = FALSE
    /\ tail' = {}
    /\ restarts' = restarts + 1
    /\ UNCHANGED <<lease, key, bound, recorded, evlog, proc>>

\* relayNodeDaemon opens the journal again; no run of an earlier process is
\* tailed again.
Restart ==
    /\ ~up
    /\ up' = TRUE
    /\ UNCHANGED <<lease, key, bound, recorded, evlog, proc, tail, restarts>>

-----------------------------------------------------------------------------

RunStep(r) ==
    \/ SupervisorEnd(r) \/ RunStop(r) \/ ProcessExit(r)
    \/ TailTerminal(r) \/ TailDrop(r) \/ TailIdle(r)

Next ==
    \/ \E w \in Workflows, k \in Workspaces : AcquireWorkspaceLease(w, k)
    \/ \E l \in Leases : ReleaseWorkspaceLease(l)
    \/ \E r \in Runs, k \in Workspaces, p \in Leases \cup {NoLease} :
          RunStart(r, k, p) \/ RunStartCrash(r, k, p)
    \/ \E r \in Runs : RunStep(r)
    \/ Crash
    \/ Restart

Spec == Init /\ [][Next]_vars

\* Fairness: agents terminate, the tailer's interval timer fires, and a
\* crashed daemon is restarted.  Nothing is assumed of lease requests.
FairSpec ==
    /\ Spec
    /\ \A r \in Runs : WF_vars(SupervisorEnd(r)) /\ WF_vars(TailTerminal(r))
    /\ WF_vars(Restart)

-----------------------------------------------------------------------------
(* Properties *)

\* Type correctness of the journal rows and of the daemon's state.
TypeOK ==
    /\ lease \in [Leases -> {"absent", "active", "released"}]
    /\ key \in [Runs -> Workspaces \cup {NoLease}]
    /\ bound \in [Runs -> Leases \cup {NoLease}]
    /\ recorded \in [Runs -> BOOLEAN]
    /\ evlog \in [Runs -> {"none", "open", "ended", "lost"}]
    /\ proc \in [Runs -> {"none", "live", "dead"}]
    /\ tail \subseteq Runs
    /\ up \in BOOLEAN
    /\ restarts \in 0..MaxRestarts

\* A run is bound only to a lease on the workspace it was admitted to.
BoundInOwnWorkspace ==
    \A r \in Runs : bound[r] # NoLease => key[r] = bound[r][2]

\* acquireWorkspaceLease: at most one workflow holds a workspace at any time,
\* through releases, re-activations and daemon restarts.
OneActiveLeasePerWorkspace ==
    \A l1, l2 \in Leases :
        lease[l1] = "active" /\ lease[l2] = "active" /\ l1[2] = l2[2] => l1 = l2

\* releaseWorkspaceLease against handleRunStart: whenever a run bound to a
\* lease is still open in the journal, that lease is active -- so neither a
\* late release nor a start with a stale lease id strands an open run.  (A run whose
\* binding the journal refused holds nothing: its lease can be released under it.)
OpenRunHoldsItsLease ==
    \A r \in Runs : bound[r] # NoLease /\ ~recorded[r] => lease[bound[r]] = "active"

\* What the lease is for, as the journal sees it: two runs admitted under
\* leases to one workspace and both still open belong to the same workflow.
NoTwoWorkflowsInOneWorkspace ==
    \A r1, r2 \in Runs :
        /\ bound[r1] # NoLease /\ ~recorded[r1]
        /\ bound[r2] # NoLease /\ ~recorded[r2]
        /\ key[r1] = key[r2]
        => bound[r1] = bound[r2]

\* Nobody will read the run's terminal event: its tailer is gone (a daemon crash, the
\* idle timeout) or is past the event, or its supervisor was killed before writing one.
Abandoned(r) ==
    r \notin tail \/ evlog[r] = "lost" \/ (proc[r] = "dead" /\ evlog[r] = "open")

\* tailRunEvents: a run that holds up a release (workspace_lease_in_use) is eventually
\* recorded terminal, so that a retried release succeeds, unless a fault abandoned it.
InUseEventuallyClears ==
    \A r \in Runs : (bound[r] # NoLease /\ ~recorded[r]) ~> (recorded[r] \/ Abandoned(r))

=============================================================================
