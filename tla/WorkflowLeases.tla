--------------------------- MODULE WorkflowLeases ---------------------------
(***************************************************************************)
(* Workspace leases seen from the workflow runtime: the lease work of a    *)
(* Start, the revision gate around every step, and the releases, each      *)
(* talking to the Node's lease authority over calls that can time out      *)
(* before or after the Node has acted.  The store's lease projection is    *)
(* proj; the Node's own rows are lease for this workflow and rival for any *)
(* other.  The workflow has three workers: the coalesced lease work (acq), *)
(* the pump's current step (step) and the releases (rel).  A revision is a *)
(* fingerprint of a workspace (HEAD and the output of git status): a       *)
(* number that a write may leave alone, change or restore; outside Git it  *)
(* is always Unavailable.                                                  *)
(***************************************************************************)
EXTENDS Integers, Sequences, FiniteSets, SequencesExt

CONSTANTS Workspaces,
          Repos,               \* the workspaces inside a Git work tree
          Targets,             \* resolveWorkspaceTargets of the workflow: sorted, without repetition
          MaxReleaseAttempts,  \* maxReleaseAttempts, of releases and of observations after a step
          MaxRev,              \* bound: fingerprints of a workspace
          MaxFaults            \* bound: timeouts, failing git commands and crashes

ASSUME LeasesAssumption ==
  /\ Targets \in Seq(Workspaces) /\ "none" \notin Workspaces /\ Repos \subseteq Workspaces
  /\ MaxReleaseAttempts \in Nat \ {0} /\ MaxRev \in Nat /\ MaxFaults \in Nat

VARIABLES
  wf,       \* workflow status; "done" is completed, failed or cancelled
  started,  \* history: workflow.started was written
  proj,     \* the store's projection: [st, cur, reason]
  lease,    \* the Node's row: [st, rev] (rev is current_revision)
  rev,      \* the fingerprint a working git would report of the workspace
  run,      \* the run of the workflow's current step: [st, k, bound]
  acq,      \* lease work: [pc, i, n, out]
  timer,    \* a lease reconcile is scheduled
  step,     \* the pump: [pc, tries, sound]; sound is FALSE after a gate that git misled
  rel,      \* releases: [pc, todo, tries]
  call,     \* the call each worker waits for: [st, op, k, res, rev, sound]; sound is FALSE if git failed
  rival,    \* the Node's lease for another workflow: "none", "held", or "working" with an agent in it
  up,       \* the runtime's process is up
  tainted,  \* history: workspaces that somebody else, between two steps, has left with another
            \* fingerprint than the workflow expects, until that one is back or a new one recorded
  faults

node == <<lease, rev, rival>>
hist == <<started, tainted>>
vars == <<wf, started, proj, lease, rev, rival, run, acq, timer, step, rel, call, up, tainted, faults>>

Roles == {"acq", "step", "rel"}
TargetSet == ToSet(Targets)
NoRev == -1  \* no revision recorded
Unavailable == MaxRev + 1  \* what observeWorkspaceRevision reports of a workspace outside Git
NoCall == [st |-> "none", op |-> "none", k |-> "none", res |-> "none", rev |-> NoRev, sound |-> TRUE]
NoRun == [st |-> "none", k |-> "none", bound |-> FALSE]
IdleAcq == [pc |-> "idle", i |-> 0, n |-> 0, out |-> "none"]
IdleStep == [pc |-> "none", tries |-> 0, sound |-> TRUE]
IdleRel == [pc |-> "idle", todo |-> {}, tries |-> 0]

OrNone == Workspaces \cup {"none"}
Prints == 0 .. MaxRev + 1
Revs == Prints \cup {NoRev}
Projections == [st : {"none", "acquiring", "active", "release_requested", "released"}, cur : Revs,
                reason : {"none", "conflict", "acquire_unconfirmed", "lease_outcome_unknown"}]
LeaseRows == [st : {"absent", "active", "released"}, rev : Revs]
RunStates == [st : {"none", "live", "ended"}, k : OrNone, bound : BOOLEAN]
AcqStates == [pc : {"idle", "next", "acquiring", "probing", "rollback", "undoing"},
              i : 0 .. Len(Targets) + 1, n : 0 .. Len(Targets), out : {"none", "pending", "blocked"}]
StepStates == [pc : {"none", "gate", "create", "bind", "await", "after"}, tries : 0 .. MaxReleaseAttempts - 1,
               sound : BOOLEAN]
RelStates == [pc : {"idle", "next", "releasing"}, todo : SUBSET TargetSet, tries : 0 .. MaxReleaseAttempts - 1]
Calls == [st : {"none", "sent", "served"}, op : {"none", "acquire", "get", "release", "observe"}, k : OrNone,
          res : {"none", "ok", "conflict", "invalid", "in_use", "absent", "active", "released"}, rev : Revs,
          sound : BOOLEAN]

TypeOK ==
  /\ wf \in {"ready", "running", "blocked", "done"} /\ started \in BOOLEAN /\ timer \in BOOLEAN
  /\ proj \in [Workspaces -> Projections] /\ lease \in [Workspaces -> LeaseRows]
  /\ rev \in [Workspaces -> Prints] /\ run \in RunStates
  /\ acq \in AcqStates /\ step \in StepStates /\ rel \in RelStates /\ call \in [Roles -> Calls]
  /\ rival \in [Workspaces -> {"none", "held", "working"}] /\ up \in BOOLEAN
  /\ tainted \subseteq Workspaces /\ faults \in 0 .. MaxFaults

Init ==
  /\ wf = "ready" /\ started = FALSE
  /\ proj = [k \in Workspaces |-> [st |-> "none", cur |-> NoRev, reason |-> "none"]]
  /\ lease = [k \in Workspaces |-> [st |-> "absent", rev |-> NoRev]]
  /\ rev = [k \in Workspaces |-> IF k \in Repos THEN 0 ELSE Unavailable] /\ run = NoRun
  /\ acq = IdleAcq /\ timer = FALSE
  /\ step = IdleStep /\ rel = IdleRel
  /\ call = [r \in Roles |-> NoCall]
  /\ rival = [k \in Workspaces |-> "none"] /\ up = TRUE /\ tainted = {} /\ faults = 0

Fault == faults < MaxFaults /\ faults' = faults + 1

-----------------------------------------------------------------------------
(* The store's lease rows *)

\* recordWorkspaceLeaseIntent: a row that exists stays as it is, a released one too.
Intended(row) == IF row.st = "none" THEN [row EXCEPT !.st = "acquiring"] ELSE row

\* markWorkspaceLeaseActive: also what re-activates a released row; the reason is cleared.
Activated(row, cur) == [st |-> "active", cur |-> cur, reason |-> "none"]

\* setWorkspaceLeaseAcquireReason
Reasoned(row, reason) == [row EXCEPT !.reason = reason]

\* setWorkspaceLeaseRevision
Revised(row, cur) == [row EXCEPT !.cur = cur]

\* requestWorkspaceLeaseRelease
ReleaseRequested(row) == IF row.st = "released" THEN row ELSE [row EXCEPT !.st = "release_requested"]

\* markWorkspaceLeaseReleased
Released(row) == [row EXCEPT !.st = "released"]

SetProj(k, row) == proj' = [proj EXCEPT ![k] = row]

-----------------------------------------------------------------------------
(* Calls to the Node *)

Send(r, op, k) == call' = [call EXCEPT ![r] = [NoCall EXCEPT !.st = "sent", !.op = op, !.k = k]]
Done(r) == call' = [call EXCEPT ![r] = NoCall]
Served(r, op) == up /\ call[r].st = "served" /\ call[r].op = op

InUse(k) == run.st = "live" /\ run.k = k

\* Mutant of NodeAcquire: the conflict check is dropped.
NodeAcquireShared(k, seen) ==
  IF lease[k].st = "active" THEN [res |-> "ok", rev |-> lease[k].rev, row |-> lease[k]]
  ELSE [res |-> "ok", rev |-> seen, row |-> [st |-> "active", rev |-> seen]]

\* acquireWorkspaceLease: an own active lease is returned as it is, another holder is a conflict.
NodeAcquire(k, seen) ==
  IF lease[k].st = "active" THEN [res |-> "ok", rev |-> lease[k].rev, row |-> lease[k]]
  ELSE IF rival[k] # "none" THEN [res |-> "conflict", rev |-> NoRev, row |-> lease[k]]
  ELSE [res |-> "ok", rev |-> seen, row |-> [st |-> "active", rev |-> seen]]

\* getWorkspaceLease; only an active lease is adopted by the caller.
NodeGet(k) == [res |-> lease[k].st, rev |-> lease[k].rev, row |-> lease[k]]

\* releaseWorkspaceLease
NodeRelease(k) ==
  CASE lease[k].st = "absent" -> [res |-> "invalid", rev |-> NoRev, row |-> lease[k]]
    [] lease[k].st = "released" -> [res |-> "ok", rev |-> NoRev, row |-> lease[k]]
    [] InUse(k) -> [res |-> "in_use", rev |-> NoRev, row |-> lease[k]]
    [] OTHER -> [res |-> "ok", rev |-> NoRev, row |-> [lease[k] EXCEPT !.st = "released"]]

\* handleWorkspaceRevisionRequest
NodeObserve(k, seen) == [res |-> "ok", rev |-> seen, row |-> lease[k]]

\* handleWorkspaceLeaseRequest: exactly one reply per request.
Answer(op, k, seen) == CASE op = "acquire" -> NodeAcquire(k, seen)
                         [] op = "get" -> NodeGet(k)
                         [] op = "release" -> NodeRelease(k)
                         [] op = "observe" -> NodeObserve(k, seen)

Replies(r, seen, sound) ==
  /\ call[r].st = "sent"
  /\ LET c == call[r]
         a == Answer(c.op, c.k, seen) IN
     /\ lease' = [lease EXCEPT ![c.k] = a.row]
     /\ call' = [call EXCEPT ![r] = [c EXCEPT !.st = "served", !.res = a.res, !.rev = a.rev, !.sound = sound]]
  /\ UNCHANGED <<wf, proj, rev, rival, run, acq, timer, step, rel, up, hist>>

\* The Node answers, with the fingerprint of the workspace where the request asks for it.
Serve(r) == Replies(r, rev[call[r].k], TRUE) /\ UNCHANGED faults

\* observeWorkspaceRevision when a git command fails or takes longer than GIT_TIMEOUT_MS: without
\* rev-parse the workspace is Unavailable, without status the tree passes for clean, which is
\* some fingerprint.
GitFails(r, seen) ==
  /\ call[r].op \in {"acquire", "observe"} /\ call[r].k \in Repos /\ Fault
  /\ Replies(r, seen, FALSE)

\* TransientWorkspaceLeaseError: no reply in time, whether or not the Node has acted.
TimesOut(r, op) == up /\ call[r].st # "none" /\ call[r].op = op /\ Fault

-----------------------------------------------------------------------------
(* Lease work: acquireOrReconcileLeases, at most one at a time per workflow *)

Tgt == Targets[acq.i]
NextTarget == acq' = [acq EXCEPT !.pc = "next", !.i = @ + 1]

\* The current target's outcome is not `active`: the ones before it are to be rolled back.
FallBack(out) == acq' = [pc |-> "rollback", i |-> 1, n |-> acq.i - 1, out |-> out]

\* acquireOrReconcileLeases: lease work already under way is joined, never doubled.
AcquireOrReconcileLeases ==
  acq' = IF acq.pc = "idle" THEN [IdleAcq EXCEPT !.pc = "next", !.i = 1] ELSE acq

\* startWorkflow, for a ready workflow; a Start during lease work joins it.
StartWorkflow ==
  /\ up /\ wf = "ready" /\ AcquireOrReconcileLeases
  /\ UNCHANGED <<wf, proj, node, run, timer, step, rel, call, up, faults, hist>>

\* scheduleLeaseReconcile's timer: reconcileAndMaybeStart, which does nothing unless the workflow
\* is still ready.
LeaseReconcile ==
  /\ up /\ timer /\ timer' = FALSE
  /\ IF wf = "ready" THEN AcquireOrReconcileLeases ELSE UNCHANGED acq
  /\ UNCHANGED <<wf, proj, node, run, step, rel, call, up, faults, hist>>

\* reconcileOneLease: a lease the projection holds is not asked for again.
ReconcileHeld ==
  /\ up /\ acq.pc = "next" /\ acq.i <= Len(Targets) /\ proj[Tgt].st = "active"
  /\ NextTarget
  /\ UNCHANGED <<wf, proj, node, run, timer, step, rel, call, up, faults, hist>>

\* reconcileOneLease: the intent is durable before the Node is asked.
ReconcileOneLease ==
  /\ up /\ acq.pc = "next" /\ acq.i <= Len(Targets) /\ proj[Tgt].st # "active"
  /\ SetProj(Tgt, Intended(proj[Tgt]))
  /\ Send("acq", "acquire", Tgt) /\ acq' = [acq EXCEPT !.pc = "acquiring"]
  /\ UNCHANGED <<wf, node, run, timer, step, rel, up, faults, hist>>

\* A baseline for the workspace is recorded: what happened to it before no longer matters.
Rebased(k) == tainted' = tainted \ {k} /\ UNCHANGED started

Acquired ==
  /\ Served("acq", "acquire") /\ call["acq"].res = "ok"
  /\ SetProj(Tgt, Activated(proj[Tgt], call["acq"].rev))
  /\ NextTarget /\ Done("acq") /\ Rebased(Tgt)
  /\ UNCHANGED <<wf, node, run, timer, step, rel, up, faults>>

\* A verdict of the Node: blocked, with its reason.
AcquireConflict ==
  /\ Served("acq", "acquire") /\ call["acq"].res = "conflict"
  /\ SetProj(Tgt, Reasoned(proj[Tgt], "conflict"))
  /\ FallBack("blocked") /\ Done("acq")
  /\ UNCHANGED <<wf, node, run, timer, step, rel, up, faults, hist>>

\* reconcileAmbiguousAcquire asks what became of the request.
AcquireTimesOut ==
  /\ TimesOut("acq", "acquire")
  /\ Send("acq", "get", Tgt) /\ acq' = [acq EXCEPT !.pc = "probing"]
  /\ UNCHANGED <<wf, proj, node, run, timer, step, rel, up, hist>>

ProbeAdopts ==
  /\ Served("acq", "get") /\ call["acq"].res = "active"
  /\ SetProj(Tgt, Activated(proj[Tgt], call["acq"].rev))
  /\ NextTarget /\ Done("acq") /\ Rebased(Tgt)
  /\ UNCHANGED <<wf, node, run, timer, step, rel, up, faults>>

ProbeDenies ==
  /\ Served("acq", "get") /\ call["acq"].res # "active"
  /\ SetProj(Tgt, Reasoned(proj[Tgt], IF call["acq"].res = "absent" THEN "acquire_unconfirmed"
                                                  ELSE "lease_outcome_unknown"))
  /\ FallBack("pending") /\ Done("acq")
  /\ UNCHANGED <<wf, node, run, timer, step, rel, up, faults, hist>>

ProbeTimesOut ==
  /\ TimesOut("acq", "get")
  /\ SetProj(Tgt, Reasoned(proj[Tgt], "lease_outcome_unknown"))
  /\ FallBack("pending") /\ Done("acq")
  /\ UNCHANGED <<wf, node, run, timer, step, rel, up, hist>>

\* rollbackAcquired: one release after the other.
Rollback ==
  /\ up /\ acq.pc = "rollback" /\ acq.i <= acq.n
  /\ Send("acq", "release", Tgt) /\ acq' = [acq EXCEPT !.pc = "undoing"]
  /\ UNCHANGED <<wf, proj, node, run, timer, step, rel, up, faults, hist>>

\* Whatever became of the release, the projection says released.
Undone ==
  /\ SetProj(Tgt, Released(proj[Tgt]))
  /\ acq' = [acq EXCEPT !.pc = "rollback", !.i = @ + 1] /\ Done("acq")
  /\ UNCHANGED <<wf, node, run, timer, step, rel, up, hist>>
RollbackReleased == Served("acq", "release") /\ Undone /\ UNCHANGED faults
RollbackTimesOut == TimesOut("acq", "release") /\ Undone

\* The outcome reaches the caller: pending schedules a reconcile, blocked waits for another Start.
RollbackEnds ==
  /\ up /\ acq.pc = "rollback" /\ acq.i > acq.n
  /\ acq' = IdleAcq
  /\ timer' = (timer \/ acq.out = "pending")
  /\ UNCHANGED <<wf, proj, node, run, step, rel, call, up, faults, hist>>

\* Mutant of StartDurably: a pump starts whatever the workflow's status is.
StartDurablyAnyway ==
  /\ up /\ acq.pc = "next" /\ acq.i > Len(Targets)
  /\ acq' = IdleAcq
  /\ wf' = "running" /\ started' = TRUE
  /\ UNCHANGED <<proj, node, run, timer, step, rel, call, up, tainted, faults>>

\* startWorkflowDurably: all leases are active; a workflow cancelled meanwhile is not started.
StartDurably ==
  /\ up /\ acq.pc = "next" /\ acq.i > Len(Targets)
  /\ acq' = IdleAcq
  /\ IF wf = "ready"
     THEN wf' = "running" /\ started' = TRUE
     ELSE UNCHANGED <<wf, started>>
  /\ UNCHANGED <<proj, node, run, timer, step, rel, call, up, tainted, faults>>

-----------------------------------------------------------------------------
(* The pump's step, between its two observations *)

Pumping == up /\ wf = "running"
SetStep(pc) == step' = [IdleStep EXCEPT !.pc = pc]

\* revisionGateBefore of the next step on one of the workflow's workspaces, or of the step whose
\* task was not bound.
GateBefore(k) ==
  /\ Pumping /\ step.pc = "none" /\ ~run.bound
  /\ run.k \in {"none", k} /\ run' = [run EXCEPT !.k = k]
  /\ SetStep("gate") /\ Send("step", "observe", k)
  /\ UNCHANGED <<wf, proj, node, acq, timer, rel, up, faults, hist>>

GateRetries ==
  /\ Pumping /\ step.pc = "gate" /\ TimesOut("step", "observe")
  /\ Send("step", "observe", run.k)
  /\ UNCHANGED <<wf, proj, node, run, acq, timer, step, rel, up, hist>>

\* Mutant of GatePasses: the observation is not compared.
GatePassesAlways ==
  /\ Pumping /\ step.pc = "gate" /\ Served("step", "observe")
  /\ step' = [IdleStep EXCEPT !.pc = "create", !.sound = call["step"].sound] /\ Done("step")
  /\ UNCHANGED <<wf, proj, node, run, acq, timer, rel, up, faults, hist>>

\* revisionsMatch, or nothing is expected.
Matches == proj[run.k].cur \in {NoRev, call["step"].rev}

GatePasses ==
  /\ Pumping /\ step.pc = "gate" /\ Served("step", "observe") /\ Matches
  /\ step' = [IdleStep EXCEPT !.pc = "create", !.sound = call["step"].sound] /\ Done("step")
  /\ UNCHANGED <<wf, proj, node, run, acq, timer, rel, up, faults, hist>>

\* An observation other than expected blocks the workflow, which keeps its leases.
GateBlocks ==
  /\ Pumping /\ step.pc = "gate" /\ Served("step", "observe") /\ ~Matches
  /\ wf' = "blocked" /\ SetStep("none") /\ Done("step")
  /\ UNCHANGED <<proj, node, run, acq, timer, rel, up, faults, hist>>

\* listReleasableWorkspaceLeases: the rows not yet released.
Releasable == {k \in TargetSet : proj[k].st \in {"acquiring", "active", "release_requested"}}

\* settleLeaseReleases, called when the workflow has ended.
Settle == rel' = [pc |-> "next", todo |-> Releasable, tries |-> 0]

\* createTask: the step's one run starts if the Node finds its lease active; a retry after a crash
\* finds the run it had started.
CreateTask ==
  /\ Pumping /\ step.pc = "create"
  /\ run.st # "none" \/ lease[run.k].st = "active"
  /\ run' = [run EXCEPT !.st = IF @ = "none" THEN "live" ELSE @] /\ step' = [step EXCEPT !.pc = "bind"]
  /\ UNCHANGED <<wf, proj, node, acq, timer, rel, call, up, faults, hist>>

\* The Node refuses the run: the task, its step and the workflow fail.
CreateRefused ==
  /\ Pumping /\ step.pc = "create" /\ run.st = "none" /\ lease[run.k].st # "active"
  /\ wf' = "done" /\ SetStep("none") /\ Settle
  /\ UNCHANGED <<proj, node, run, acq, timer, call, up, faults, hist>>

\* bindStepTaskOnce
BindTask ==
  /\ Pumping /\ step.pc = "bind"
  /\ run' = [run EXCEPT !.bound = TRUE] /\ SetStep("await")
  /\ UNCHANGED <<wf, proj, node, acq, timer, rel, call, up, faults, hist>>

\* awaitTask of a bound task: also where a pump resumes after a restart.
AwaitTask ==
  /\ Pumping /\ step.pc \in {"none", "await"} /\ run.bound /\ run.st = "ended"
  /\ SetStep("after") /\ Send("step", "observe", run.k)
  /\ UNCHANGED <<wf, proj, node, run, acq, timer, rel, up, faults, hist>>

\* The step is over; the next one starts, or the workflow ends and its leases are settled.
StepOver ==
  /\ run' = NoRun /\ SetStep("none") /\ Done("step")
  /\ \/ UNCHANGED <<wf, rel>>
     \/ wf' = "done" /\ Settle

\* observeRevisionAfter: the observation becomes what the next step expects.
ObserveAfter ==
  /\ Pumping /\ step.pc = "after" /\ Served("step", "observe")
  /\ SetProj(run.k, Revised(proj[run.k], call["step"].rev))
  /\ StepOver /\ Rebased(run.k)
  /\ UNCHANGED <<node, acq, timer, up, faults>>

ObserveAfterRetries ==
  /\ Pumping /\ step.pc = "after" /\ TimesOut("step", "observe")
  /\ step.tries + 1 < MaxReleaseAttempts
  /\ step' = [step EXCEPT !.tries = @ + 1] /\ Send("step", "observe", run.k)
  /\ UNCHANGED <<wf, proj, node, run, acq, timer, rel, up, hist>>

\* The attempts are used up: the workflow goes on with the old expectation.
ObserveAfterGivesUp ==
  /\ Pumping /\ step.pc = "after" /\ TimesOut("step", "observe")
  /\ step.tries + 1 = MaxReleaseAttempts
  /\ StepOver
  /\ UNCHANGED <<proj, node, acq, timer, up, hist>>

\* cancelWorkflow: the wait is interrupted, the workflow cancelled (its run too), the leases settled.
CancelWorkflow ==
  /\ up /\ wf # "done" /\ wf' = "done"
  /\ SetStep("none") /\ Done("step") /\ Settle
  /\ UNCHANGED <<proj, node, run, acq, timer, up, faults, hist>>

-----------------------------------------------------------------------------
(* Releases *)

\* releaseLeaseWithRetry: the intent is durable before the Node is asked.
ReleaseLease(k) ==
  /\ up /\ rel.pc = "next" /\ k \in rel.todo
  /\ SetProj(k, ReleaseRequested(proj[k]))
  /\ rel' = [rel EXCEPT !.pc = "releasing", !.tries = 0] /\ Send("rel", "release", k)
  /\ UNCHANGED <<wf, node, run, acq, timer, step, up, faults, hist>>

NextRelease(k) == rel' = [pc |-> "next", todo |-> rel.todo \ {k}, tries |-> 0]

ReleaseAcked ==
  /\ Served("rel", "release") /\ call["rel"].res = "ok"
  /\ LET k == call["rel"].k IN SetProj(k, Released(proj[k])) /\ NextRelease(k)
  /\ Done("rel")
  /\ UNCHANGED <<wf, node, run, acq, timer, step, up, faults, hist>>

\* Mutant of Unreleased: an unresolved release is recorded as released.
UnreleasedForgotten ==
  /\ IF rel.tries + 1 < MaxReleaseAttempts /\ call["rel"].res # "invalid"
     THEN /\ rel' = [rel EXCEPT !.tries = @ + 1]
          /\ Send("rel", "release", call["rel"].k) /\ UNCHANGED proj
     ELSE /\ NextRelease(call["rel"].k) /\ Done("rel")
          /\ SetProj(call["rel"].k, Released(proj[call["rel"].k]))
  /\ UNCHANGED <<wf, node, run, acq, timer, step, up, hist>>

\* In use or no answer: tried again a bounded number of times. No such lease: given up at once.
\* The row stays release_requested for the next recovery.
Unreleased ==
  /\ IF rel.tries + 1 < MaxReleaseAttempts /\ call["rel"].res # "invalid"
     THEN /\ rel' = [rel EXCEPT !.tries = @ + 1]
          /\ Send("rel", "release", call["rel"].k)
     ELSE NextRelease(call["rel"].k) /\ Done("rel")
  /\ UNCHANGED <<wf, proj, node, run, acq, timer, step, up, hist>>

ReleaseRefused ==
  /\ Served("rel", "release") /\ call["rel"].res \in {"in_use", "invalid"}
  /\ Unreleased /\ UNCHANGED faults
ReleaseTimesOut == TimesOut("rel", "release") /\ Unreleased

ReleasesEnd ==
  /\ up /\ rel.pc = "next" /\ rel.todo = {} /\ rel' = IdleRel
  /\ UNCHANGED <<wf, proj, node, run, acq, timer, step, call, up, faults, hist>>

-----------------------------------------------------------------------------
(* Runs, other writers, crashes *)

\* The workspace is left with the fingerprint v: the old one (an edit of a file that git status
\* already lists), a new one, or an earlier one again. Outside Git nothing shows.
Fingerprint(k, v) == (k \notin Repos => v = Unavailable) /\ rev' = [rev EXCEPT ![k] = v]

\* The agent changes the workspace.
RunWrites(v) ==
  /\ run.st = "live" /\ Fingerprint(run.k, v)
  /\ tainted' = IF v = proj[run.k].cur THEN tainted \ {run.k} ELSE tainted
  /\ UNCHANGED <<wf, started, proj, lease, rival, run, acq, timer, step, rel, call, up, faults>>

RunEnds ==
  /\ run.st = "live" /\ run' = [run EXCEPT !.st = "ended"]
  /\ UNCHANGED <<wf, proj, node, acq, timer, step, rel, call, up, faults, hist>>

BetweenSteps == wf = "running" /\ step.pc = "none" /\ run.st = "none"

\* Somebody who does not ask for leases changes the workspace.
OutsiderWrites(k, v) ==
  /\ Fingerprint(k, v)
  /\ tainted' = IF v = proj[k].cur THEN tainted \ {k}
                 ELSE IF BetweenSteps /\ proj[k].cur # NoRev THEN tainted \cup {k} ELSE tainted
  /\ UNCHANGED <<wf, started, proj, lease, rival, run, acq, timer, step, rel, call, up, faults>>

\* Another workflow gets its lease, puts an agent to work, and releases the lease, under the same
\* rules of the Node.
RivalMoves(k, to) ==
  /\ \/ rival[k] = "none" /\ lease[k].st # "active" /\ to = "held"
     \/ rival[k] = "held" /\ to \in {"working", "none"}
     \/ rival[k] = "working" /\ to = "held"
  /\ rival' = [rival EXCEPT ![k] = to]
  /\ UNCHANGED <<wf, proj, lease, rev, run, acq, timer, step, rel, call, up, faults, hist>>

Crash ==
  /\ up /\ Fault /\ up' = FALSE
  /\ acq' = IdleAcq /\ timer' = FALSE
  /\ step' = IdleStep /\ rel' = IdleRel
  /\ call' = [r \in Roles |-> NoCall]
  /\ UNCHANGED <<wf, proj, node, run, hist>>

\* recoverWorkflows: pumps of running workflows, releases of ended ones (listReleasableWorkspaceLeases),
\* reconciles of ready ones with an acquisition under way.
RecoverWorkflows ==
  /\ ~up /\ up' = TRUE
  /\ IF wf = "done" THEN Settle ELSE rel' = IdleRel
  /\ timer' = (wf = "ready" /\ \E k \in TargetSet : proj[k].st = "acquiring")
  /\ UNCHANGED <<wf, proj, node, run, acq, step, call, faults, hist>>

Next ==
  \/ \E r \in Roles : Serve(r)
  \/ \E r \in Roles, seen \in Prints : GitFails(r, seen)
  \/ StartWorkflow
  \/ LeaseReconcile
  \/ ReconcileHeld
  \/ ReconcileOneLease
  \/ Acquired
  \/ AcquireConflict
  \/ AcquireTimesOut
  \/ ProbeAdopts
  \/ ProbeDenies
  \/ ProbeTimesOut
  \/ Rollback
  \/ RollbackReleased
  \/ RollbackTimesOut
  \/ RollbackEnds
  \/ StartDurably
  \/ \E k \in TargetSet : GateBefore(k)
  \/ GateRetries
  \/ GatePasses
  \/ GateBlocks
  \/ CreateTask
  \/ CreateRefused
  \/ BindTask
  \/ AwaitTask
  \/ ObserveAfter
  \/ ObserveAfterRetries
  \/ ObserveAfterGivesUp
  \/ CancelWorkflow
  \/ \E k \in TargetSet : ReleaseLease(k)
  \/ ReleaseAcked
  \/ ReleaseRefused
  \/ ReleaseTimesOut
  \/ ReleasesEnd
  \/ \E v \in Prints : RunWrites(v)
  \/ RunEnds
  \/ \E k \in Workspaces, v \in Prints : OutsiderWrites(k, v)
  \/ \E k \in Workspaces, to \in {"none", "held", "working"} : RivalMoves(k, to)
  \/ Crash
  \/ RecoverWorkflows

Spec == Init /\ [][Next]_vars

-----------------------------------------------------------------------------
(* Properties *)

\* The projection and the Node together: a running workflow has every lease in its projection, and
\* an agent is at work only under a lease the Node holds, through lost replies, rollbacks, crashes
\* and cancels.
WorkIsLeased ==
  /\ wf = "running" => \A k \in TargetSet : proj[k].st = "active"
  /\ run.st = "live" => lease[run.k].st = "active"

\* What leases are for: the agents of two workflows are never in one workspace.
SoleWriter == run.st = "live" => rival[run.k] # "working"

\* revisionGateBefore: if somebody else has left the workspace of the next step with another
\* fingerprint than the one recorded after the last step, no agent starts on it, however often the
\* gate is retried or the runtime restarted, as long as git answers. A write that leaves HEAD and
\* git status as they were, or in a workspace outside Git, is not seen, and none is claimed to be.
ForeignWriteStops == step.pc \in {"create", "bind"} /\ step.sound => run.k \notin tainted

\* settleLeaseReleases: of a workflow that had been started, no lease is forgotten: one the Node
\* still holds after the end is in a state that the next recovery releases.
NoLeaseForgotten ==
  wf = "done" /\ started => \A k \in TargetSet : lease[k].st = "active" => proj[k].st \notin {"none", "released"}

=============================================================================
