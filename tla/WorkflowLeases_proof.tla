------------------------- MODULE WorkflowLeases_proof -------------------------
(***************************************************************************)
(* Proofs about WorkflowLeases, for any workspaces and targets, any number *)
(* of retries, fingerprints, timeouts, failing git commands and crashes.   *)
(***************************************************************************)
EXTENDS WorkflowLeases, SequenceTheorems, TLAPS

\* Where each worker may be.  Lease work is of a workflow that never started, the pump's of a running
\* one, the releases' of one that ended; a crash leaves none at work.
Phases ==
  /\ acq.pc # "idle" => acq.i >= 1 /\ wf \in {"ready", "done"} /\ ~started
  /\ acq.pc \in {"acquiring", "probing"} => acq.i <= Len(Targets)
  /\ acq.pc = "undoing" => acq.i <= acq.n
  /\ wf = "ready" => ~started
  /\ step.pc # "none" => wf = "running" /\ run.k \in TargetSet
  /\ rel.pc # "idle" => wf = "done"
  /\ run.st # "none" => run.k \in TargetSet
  /\ ~up => acq.pc = "idle" /\ step.pc = "none" /\ rel.pc = "idle"

\* Each call under way is the one its worker waits for.
CallOf(r) ==
  /\ r = "acq" => /\ acq.pc \in {"acquiring", "probing", "undoing"} /\ call[r].k = Targets[acq.i]
                  /\ acq.pc = "acquiring" <=> call[r].op = "acquire"
                  /\ acq.pc = "probing" <=> call[r].op = "get"
                  /\ acq.pc = "undoing" <=> call[r].op = "release"
  /\ r = "step" => step.pc \in {"gate", "after"} /\ call[r].op = "observe" /\ call[r].k = run.k
  /\ r = "rel" => rel.pc = "releasing" /\ call[r].op = "release" /\ call[r].k \in TargetSet

CallsTrue ==
  \A r \in Roles : call[r].st # "none" => CallOf(r)

\* The Node: a run under way has its lease, and a lease excludes the rival's.
Leased == run.st = "live" => lease[run.k].st = "active"
Exclusive == \A k \in Workspaces : lease[k].st = "active" => rival[k] = "none"

\* The targets that the lease work has passed are active in the projection, and stay so while the
\* workflow runs.
Prefix ==
  wf # "done" /\ acq.pc \in {"next", "acquiring", "probing"} =>
    \A j \in 1 .. Len(Targets) : j < acq.i => proj[Targets[j]].st = "active"
Held == wf = "running" => \A k \in TargetSet : proj[k].st = "active"

\* After the start a projection says released only of a lease that the Node has let go.
Kept ==
  started => \A k \in TargetSet : proj[k].st # "none" /\ (proj[k].st = "released" => lease[k].st # "active")
ReleaseTrue ==
  started /\ call["rel"].st = "served" /\ call["rel"].res = "ok" => lease[call["rel"].k].st # "active"

\* A tainted workspace has another fingerprint than the one expected of it, and an observation that
\* git did not spoil says so: it may be old, but the taint is older.
Tainted == \A k \in tainted : proj[k].cur \notin {NoRev, rev[k]}
GateTrue ==
  step.pc = "gate" /\ run.k \in tainted /\ call["step"].st = "served" /\ call["step"].sound
    => proj[run.k].cur \notin {NoRev, call["step"].rev}

IInv ==
  /\ TypeOK /\ Phases /\ CallsTrue /\ Leased /\ Exclusive /\ Prefix /\ Held /\ Kept /\ ReleaseTrue
  /\ Tainted /\ GateTrue /\ ForeignWriteStops

-----------------------------------------------------------------------------
(* Frames *)

\* The types of the parts of the state.
LEMMA Now ==
  ASSUME IInv
  PROVE  /\ wf \in {"ready", "running", "blocked", "done"} /\ started \in BOOLEAN /\ up \in BOOLEAN
         /\ proj \in [Workspaces -> Projections] /\ lease \in [Workspaces -> LeaseRows]
         /\ rev \in [Workspaces -> Prints] /\ run \in RunStates
         /\ acq \in AcqStates /\ step \in StepStates /\ rel \in RelStates /\ call \in [Roles -> Calls]
         /\ rival \in [Workspaces -> {"none", "held", "working"}]
         /\ tainted \subseteq Workspaces /\ faults \in 0 .. MaxFaults
         /\ Phases /\ CallsTrue /\ Leased /\ Exclusive /\ Prefix /\ Held /\ Kept /\ ReleaseTrue
         /\ Tainted /\ GateTrue /\ ForeignWriteStops
BY DEF IInv, TypeOK

\* The constants.
LEMMA Constants ==
  /\ Len(Targets) \in Nat /\ (\A i \in 1 .. Len(Targets) : Targets[i] \in TargetSet)
  /\ TargetSet \subseteq Workspaces /\ "none" \notin TargetSet /\ MaxRev \in Nat /\ MaxFaults \in Nat
  /\ MaxReleaseAttempts \in Nat \ {0} /\ 0 \in 0 .. MaxReleaseAttempts - 1
<1>1. Targets \in Seq(Workspaces) /\ "none" \notin Workspaces
  BY LeasesAssumption
<1>2. Len(Targets) \in Nat /\ DOMAIN Targets = 1 .. Len(Targets) /\ \A i \in 1 .. Len(Targets) : Targets[i] \in Workspaces
  BY <1>1, LenProperties, ElementOfSeq
<1>3. TargetSet = {Targets[i] : i \in 1 .. Len(Targets)}
  BY <1>2 DEF TargetSet, ToSet
<1> QED BY <1>1, <1>2, <1>3, LeasesAssumption

\* Lease work moves on: the workflow has not started, and no other worker looks at the projection.
LEMMA AcqMoves ==
  ASSUME IInv, NEW a \in AcqStates, acq' = a, NEW c \in Calls, call' = [call EXCEPT !["acq"] = c],
         proj' \in [Workspaces -> Projections], timer' \in BOOLEAN, faults' \in 0 .. MaxFaults,
         UNCHANGED <<wf, started, lease, rev, rival, run, step, rel, up>>, up, ~started, wf \in {"ready", "done"},
         tainted' \subseteq tainted, \A k \in tainted' : proj'[k].cur = proj[k].cur,
         a.pc # "idle" => a.i >= 1, a.pc \in {"acquiring", "probing"} => a.i <= Len(Targets), a.pc = "undoing" => a.i <= a.n,
         c.st # "none" => /\ c.st = "sent" /\ a.pc \in {"acquiring", "probing", "undoing"} /\ c.k = Targets[a.i]
                          /\ a.pc = "acquiring" <=> c.op = "acquire"
                          /\ a.pc = "probing" <=> c.op = "get"
                          /\ a.pc = "undoing" <=> c.op = "release",
         wf # "done" /\ a.pc \in {"next", "acquiring", "probing"} =>
           \A j \in 1 .. Len(Targets) : j < a.i => proj'[Targets[j]].st = "active"
  PROVE  IInv'
<1>1. call' \in [Roles -> Calls] /\ call'["acq"] = c /\ call'["step"] = call["step"] /\ call'["rel"] = call["rel"]
  BY Now DEF Roles
<1>2. TypeOK'
  BY <1>1, Now DEF IInv, TypeOK
<1>3. Phases'
  BY Now DEF Phases
<1>4. CallsTrue'
  <2>1. \A r \in {"step", "rel"} : (call[r].st # "none" => CallOf(r))'
    BY <1>1, Now DEF CallsTrue, CallOf, Roles
  <2>2. (call["acq"].st # "none" => CallOf("acq"))'
    BY <1>1 DEF CallOf
  <2> QED BY <2>1, <2>2 DEF CallsTrue, Roles
<1>5. Leased' /\ Exclusive'
  BY Now DEF Leased, Exclusive
<1>6. Prefix' /\ Held' /\ Kept' /\ ReleaseTrue'
  BY DEF Prefix, Held, Kept, ReleaseTrue
<1>8. Tainted'
  BY Now DEF Tainted
<1>9. step.pc = "none"
  BY Now DEF Phases
<1>10. GateTrue' /\ ForeignWriteStops'
  BY <1>9 DEF GateTrue, ForeignWriteStops
<1> QED BY <1>2, <1>3, <1>4, <1>5, <1>6, <1>8, <1>10 DEF IInv

\* The pump moves on, or the workflow ends: only revisions change in the projection.
LEMMA StepMoves ==
  ASSUME IInv, NEW s \in StepStates, step' = s, NEW c \in Calls, call' = [call EXCEPT !["step"] = c],
         run' \in RunStates, wf' \in {"ready", "running", "blocked", "done"}, rel' \in RelStates,
         proj' \in [Workspaces -> Projections], faults' \in 0 .. MaxFaults,
         UNCHANGED <<started, lease, rev, rival, acq, timer, up>>, up, wf # "done",
         wf' \in {wf, "done"} \/ (wf = "running" /\ wf' = "blocked"),
         rel'.pc # "idle" => wf' = "done",
         tainted' \subseteq tainted, \A k \in tainted' : proj'[k].cur = proj[k].cur,
         \A k \in Workspaces : proj'[k].st = proj[k].st,
         s.pc # "none" => wf' = "running" /\ run'.k \in TargetSet,
         run'.st # "none" => run'.k \in TargetSet, run'.st = "live" => lease[run'.k].st = "active",
         c.st # "none" => c.st = "sent" /\ s.pc \in {"gate", "after"} /\ c.op = "observe" /\ c.k = run'.k,
         s.pc \in {"create", "bind"} /\ s.sound => run'.k \notin tainted
  PROVE  IInv'
<1>1. call' \in [Roles -> Calls] /\ call'["step"] = c /\ call'["acq"] = call["acq"] /\ call'["rel"] = call["rel"]
  BY Now DEF Roles
<1>2. TypeOK'
  BY <1>1, Now DEF IInv, TypeOK
<1>3. Phases'
  BY Now DEF Phases
<1>4. CallsTrue'
  <2>1. rel.pc = "idle" /\ call["rel"].st = "none"
    BY Now DEF Phases, CallsTrue, CallOf, Roles
  <2>2. (call["acq"].st # "none" => CallOf("acq"))'
    BY <1>1, Now DEF CallsTrue, CallOf, Roles
  <2>3. (call["step"].st # "none" => CallOf("step"))'
    BY <1>1 DEF CallOf
  <2> QED BY <1>1, <2>1, <2>2, <2>3 DEF CallsTrue, Roles
<1>5. Leased' /\ Exclusive'
  BY Now DEF Leased, Exclusive
<1>6. Prefix'
  BY Constants, Now DEF Prefix
<1>7. Held'
  BY Constants, Now DEF Held
<1>8. Kept' /\ ReleaseTrue'
  BY <1>1, Constants, Now DEF Kept, ReleaseTrue
<1>10. Tainted'
  BY Now DEF Tainted
<1>11. GateTrue' /\ ForeignWriteStops'
  BY <1>1 DEF GateTrue, ForeignWriteStops
<1> QED BY <1>2, <1>3, <1>4, <1>5, <1>6, <1>7, <1>8, <1>10, <1>11 DEF IInv

\* The releases of an ended workflow move on.
LEMMA RelMoves ==
  ASSUME IInv, NEW r \in RelStates, rel' = r, NEW c \in Calls, call' = [call EXCEPT !["rel"] = c],
         proj' \in [Workspaces -> Projections], faults' \in 0 .. MaxFaults,
         UNCHANGED <<wf, started, lease, rev, rival, run, acq, timer, step, up, tainted>>, up, wf = "done",
         \A k \in Workspaces : proj'[k].cur = proj[k].cur,
         started => \A k \in TargetSet : proj'[k].st # "none" /\ (proj'[k].st = "released" => lease[k].st # "active"),
         c.st # "none" => c.st = "sent" /\ r.pc = "releasing" /\ c.op = "release" /\ c.k \in TargetSet
  PROVE  IInv'
<1>1. call' \in [Roles -> Calls] /\ call'["rel"] = c /\ call'["acq"] = call["acq"] /\ call'["step"] = call["step"]
  BY Now DEF Roles
<1>2. TypeOK'
  BY <1>1, Now DEF IInv, TypeOK
<1>3. Phases'
  BY Now DEF Phases
<1>4. CallsTrue'
  <2>1. \A q \in {"acq", "step"} : (call[q].st # "none" => CallOf(q))'
    BY <1>1, Now DEF CallsTrue, CallOf, Roles
  <2>2. (call["rel"].st # "none" => CallOf("rel"))'
    BY <1>1 DEF CallOf
  <2> QED BY <2>1, <2>2 DEF CallsTrue, Roles
<1>5. Leased' /\ Exclusive'
  BY Now DEF Leased, Exclusive
<1>6. Prefix' /\ Held' /\ Kept' /\ ReleaseTrue'
  BY <1>1 DEF Prefix, Held, Kept, ReleaseTrue
<1>8. Tainted'
  BY Now DEF Tainted
<1>9. step.pc = "none"
  BY Now DEF Phases
<1>10. GateTrue' /\ ForeignWriteStops'
  BY <1>9 DEF GateTrue, ForeignWriteStops
<1> QED BY <1>2, <1>3, <1>4, <1>5, <1>6, <1>8, <1>10 DEF IInv

\* A projection with one row replaced.
LEMMA RowSet ==
  ASSUME IInv, NEW k \in TargetSet, NEW row \in Projections, SetProj(k, row)
  PROVE  proj' \in [Workspaces -> Projections] /\ \A j \in Workspaces : proj'[j] = IF j = k THEN row ELSE proj[j]
BY Now, Constants DEF SetProj

\* The rows that the store's operations make.
LEMMA Rows ==
  ASSUME IInv, NEW k \in TargetSet
  PROVE  LET p == proj[k] IN
         /\ p \in Projections /\ p.cur \in Revs
         /\ Intended(p) \in Projections /\ Intended(p).cur = p.cur
         /\ \A v \in Revs : Activated(p, v) \in Projections /\ Activated(p, v).st = "active" /\ Activated(p, v).cur = v
         /\ \A s \in {"conflict", "acquire_unconfirmed", "lease_outcome_unknown"} :
              Reasoned(p, s) \in Projections /\ Reasoned(p, s).st = p.st /\ Reasoned(p, s).cur = p.cur
         /\ \A v \in Revs : Revised(p, v) \in Projections /\ Revised(p, v).st = p.st /\ Revised(p, v).cur = v
         /\ Released(p) \in Projections /\ Released(p).st = "released" /\ Released(p).cur = p.cur
         /\ ReleaseRequested(p) \in Projections /\ ReleaseRequested(p).cur = p.cur
         /\ ReleaseRequested(p).st \in {"released", "release_requested"}
         /\ ReleaseRequested(p).st = "released" => p.st = "released"
<1>1. PICK p : p = proj[k]
  OBVIOUS
<1>2. p \in Projections /\ p.cur \in Revs
  BY <1>1, Now, Constants DEF Projections
<1>3. Intended(p) \in Projections /\ Intended(p).cur = p.cur
  BY <1>2 DEF Intended, Projections
<1>4. \A v \in Revs : Activated(p, v) \in Projections /\ Activated(p, v).st = "active" /\ Activated(p, v).cur = v
  BY DEF Activated, Projections
<1>5. \A s \in {"conflict", "acquire_unconfirmed", "lease_outcome_unknown"} :
        Reasoned(p, s) \in Projections /\ Reasoned(p, s).st = p.st /\ Reasoned(p, s).cur = p.cur
  BY <1>2 DEF Reasoned, Projections
<1>6. \A v \in Revs : Revised(p, v) \in Projections /\ Revised(p, v).st = p.st /\ Revised(p, v).cur = v
  BY <1>2 DEF Revised, Projections
<1>7. Released(p) \in Projections /\ Released(p).st = "released" /\ Released(p).cur = p.cur
  BY <1>2 DEF Released, Projections
<1>8. /\ ReleaseRequested(p) \in Projections /\ ReleaseRequested(p).cur = p.cur
      /\ ReleaseRequested(p).st \in {"released", "release_requested"}
      /\ ReleaseRequested(p).st = "released" => p.st = "released"
  BY <1>2 DEF ReleaseRequested, Projections
<1> QED BY <1>1, <1>2, <1>3, <1>4, <1>5, <1>6, <1>7, <1>8

\* The call that Send makes, and none.
Asked(op, k) == [NoCall EXCEPT !.st = "sent", !.op = op, !.k = k]

LEMMA CallFields ==
  /\ NoCall \in Calls /\ NoCall.st = "none"
  /\ \A op \in {"acquire", "get", "release", "observe"}, k \in TargetSet :
       /\ Asked(op, k) \in Calls /\ Asked(op, k).st = "sent" /\ Asked(op, k).op = op /\ Asked(op, k).k = k
<1>1. NoRev \in Revs
  BY DEF Revs
<1>2. NoCall \in Calls /\ NoCall.st = "none"
  BY <1>1 DEF NoCall, Calls, OrNone
<1>3. ASSUME NEW op \in {"acquire", "get", "release", "observe"}, NEW k \in TargetSet
      PROVE  /\ Asked(op, k) \in Calls /\ Asked(op, k).st = "sent" /\ Asked(op, k).op = op /\ Asked(op, k).k = k
  <2>1. k \in OrNone
    BY Constants DEF OrNone
  <2> QED BY <1>2, <2>1 DEF Asked, Calls
<1> QED BY <1>2, <1>3

\* A served call's answer.
LEMMA ServedFields ==
  ASSUME IInv, NEW r \in Roles, call[r].st # "none"
  PROVE  call[r] \in Calls /\ call[r].rev \in Revs /\ CallOf(r) /\ call[r].k \in TargetSet
<1>1. call[r] \in Calls /\ CallOf(r)
  BY Now DEF CallsTrue
<1>2. call[r].rev \in Revs
  BY <1>1 DEF Calls
<1>3. call[r].k \in TargetSet
  <2>1. CASE r = "acq"
    <3>1. acq.i \in 1 .. Len(Targets)
      BY <1>1, <2>1, Now, Constants DEF CallOf, Phases, AcqStates
    <3> QED BY <1>1, <2>1, <3>1, Constants DEF CallOf
  <2>2. CASE r = "step"
    BY <1>1, <2>2, Now DEF CallOf, Phases
  <2>3. CASE r = "rel"
    BY <1>1, <2>3 DEF CallOf
  <2> QED BY <2>1, <2>2, <2>3 DEF Roles
<1> QED BY <1>1, <1>2, <1>3

\* Time-outs are counted within the bound.
LEMMA FaultCounts ==
  ASSUME IInv
  PROVE  /\ Fault => faults' \in 0 .. MaxFaults
         /\ UNCHANGED faults => faults' \in 0 .. MaxFaults
BY Now, Constants DEF Fault

\* The record of the lease work.
LEMMA AcqFields ==
  ASSUME IInv
  PROVE  /\ acq.i \in 0 .. Len(Targets) + 1 /\ acq.n \in 0 .. Len(Targets)
         /\ acq.pc \in {"idle", "next", "acquiring", "probing", "rollback", "undoing"}
         /\ acq.pc # "idle" => acq.i >= 1 /\ wf \in {"ready", "done"} /\ ~started
         /\ acq.pc \in {"acquiring", "probing", "undoing"} => acq.i \in 1 .. Len(Targets) /\ Tgt \in TargetSet
         /\ acq.pc = "next" /\ acq.i <= Len(Targets) => acq.i \in 1 .. Len(Targets) /\ Tgt \in TargetSet
         /\ acq.pc = "rollback" /\ acq.i <= acq.n => acq.i \in 1 .. Len(Targets) /\ Tgt \in TargetSet
<1>1. /\ acq.i \in 0 .. Len(Targets) + 1 /\ acq.n \in 0 .. Len(Targets) /\ Len(Targets) \in Nat
      /\ acq.pc \in {"idle", "next", "acquiring", "probing", "rollback", "undoing"}
  BY Now, Constants DEF AcqStates
<1>2. acq.pc # "idle" => acq.i >= 1 /\ wf \in {"ready", "done"} /\ ~started
  BY Now DEF Phases
<1>3. acq.pc \in {"acquiring", "probing", "undoing"} => acq.i \in 1 .. Len(Targets)
  BY <1>1, <1>2, Now DEF Phases
<1>4. acq.i \in 1 .. Len(Targets) => Tgt \in TargetSet
  BY Constants DEF Tgt
<1> QED BY <1>1, <1>2, <1>3, <1>4

-----------------------------------------------------------------------------
(* Lease work *)

\* Nothing but the timer and the fault counter changes.
LEMMA Quiet ==
  ASSUME IInv, UNCHANGED <<wf, started, proj, lease, rev, rival, run, acq, step, rel, call, up, tainted>>,
         timer' \in BOOLEAN, faults' \in 0 .. MaxFaults
  PROVE  IInv'
<1>1. TypeOK'
  BY Now DEF TypeOK
<1>2. Phases' /\ CallsTrue'
  BY Now DEF Phases, CallsTrue, CallOf
<1>3. Leased' /\ Exclusive' /\ Prefix' /\ Held' /\ Kept' /\ ReleaseTrue'
  BY Now DEF Leased, Exclusive, Prefix, Held, Kept, ReleaseTrue
<1>4. Tainted' /\ GateTrue' /\ ForeignWriteStops'
  BY Now DEF Tainted, GateTrue, ForeignWriteStops
<1> QED BY <1>1, <1>2, <1>3, <1>4 DEF IInv

\* A lease work that waits for no call has none under way.
LEMMA NoCallOf ==
  ASSUME IInv
  PROVE  /\ acq.pc \in {"idle", "next", "rollback"} => call["acq"].st = "none"
         /\ step.pc \notin {"gate", "after"} => call["step"].st = "none"
         /\ rel.pc # "releasing" => call["rel"].st = "none"
         /\ \A r \in Roles : call[r] \in Calls /\ call = [call EXCEPT ![r] = call[r]]
BY Now DEF CallsTrue, CallOf, Roles

\* What holds of the projection when no row changes.
LEMMA SameRows ==
  ASSUME IInv, proj' = proj
  PROVE  /\ proj' \in [Workspaces -> Projections]
         /\ \A k \in Workspaces : proj'[k].cur = proj[k].cur
BY Now

\* A Start or a scheduled reconcile begins the lease work, or joins it.
LEMMA BeginStep ==
  ASSUME IInv, StartWorkflow \/ LeaseReconcile
  PROVE  IInv'
<1>1. /\ UNCHANGED <<wf, proj, lease, rev, rival, run, step, rel, call, up, faults, started, tainted>>
      /\ timer' \in BOOLEAN /\ up
  BY DEF StartWorkflow, LeaseReconcile, node, hist, IInv, TypeOK
<1>2. faults' \in 0 .. MaxFaults
  BY <1>1, FaultCounts
<1>3. CASE acq' = acq
  BY <1>1, <1>2, <1>3, Quiet
<1>4. CASE acq' # acq
  <2>1. acq.pc = "idle" /\ wf = "ready" /\ acq' = [IdleAcq EXCEPT !.pc = "next", !.i = 1]
    BY <1>4 DEF StartWorkflow, LeaseReconcile, AcquireOrReconcileLeases
  <2>2. PICK a : a = acq' /\ a = [IdleAcq EXCEPT !.pc = "next", !.i = 1]
    BY <2>1
  <2>3. a \in AcqStates /\ a.pc = "next" /\ a.i = 1 /\ a.i >= 1
    <3>1. 1 \in 0 .. Len(Targets) + 1 /\ 0 \in 0 .. Len(Targets)
      BY Constants
    <3>2. a = [pc |-> "next", i |-> 1, n |-> 0, out |-> "none"]
      BY <2>2 DEF IdleAcq
    <3> QED BY <3>1, <3>2 DEF AcqStates
  <2>4. ~started
    BY <2>1, Now DEF Phases
  <2>5. call["acq"] \in Calls /\ call["acq"].st = "none" /\ call' = [call EXCEPT !["acq"] = call["acq"]]
    BY <1>1, <2>1, NoCallOf DEF Roles
  <2>6. \A j \in 1 .. Len(Targets) : ~(j < a.i)
    BY <2>3
  <2>7. /\ proj' \in [Workspaces -> Projections]
        /\ tainted' \subseteq tainted /\ \A k \in tainted' : proj'[k].cur = proj[k].cur
    BY <1>1, SameRows
  <2> QED BY <1>1, <1>2, <2>1, <2>2, <2>3, <2>4, <2>5, <2>6, <2>7, AcqMoves
<1> QED BY <1>3, <1>4

\* The next target: held already, or asked for.
LEMMA NextTargetStep ==
  ASSUME IInv, ReconcileHeld \/ ReconcileOneLease
  PROVE  IInv'
<1>1. /\ UNCHANGED <<wf, lease, rev, rival, run, timer, step, rel, up, faults, started, tainted>>
      /\ up /\ acq.pc = "next" /\ acq.i <= Len(Targets) /\ timer' \in BOOLEAN
  BY DEF ReconcileHeld, ReconcileOneLease, node, hist, IInv, TypeOK
<1>2. faults' \in 0 .. MaxFaults
  BY <1>1, FaultCounts
<1>3. acq \in AcqStates /\ acq.i \in 1 .. Len(Targets) /\ Tgt \in TargetSet /\ wf \in {"ready", "done"} /\ ~started
  BY <1>1, AcqFields, Now
<1>4. wf # "done" => \A j \in 1 .. Len(Targets) : j < acq.i => proj[Targets[j]].st = "active"
  BY <1>1, Now DEF Prefix
<1>5. CASE ReconcileHeld
  <2>1. proj[Tgt].st = "active" /\ NextTarget /\ proj' = proj /\ call' = call
    BY <1>5 DEF ReconcileHeld
  <2>2. PICK a : a = acq' /\ a = [acq EXCEPT !.pc = "next", !.i = acq.i + 1]
    BY <2>1 DEF NextTarget
  <2>3. a \in AcqStates /\ a.pc = "next" /\ a.i = acq.i + 1
    <3>1. acq.i + 1 \in 0 .. Len(Targets) + 1
      BY <1>3, Constants
    <3> QED BY <1>3, <2>2, <3>1 DEF AcqStates
  <2>4. call["acq"] \in Calls /\ call["acq"].st = "none" /\ call' = [call EXCEPT !["acq"] = call["acq"]]
    BY <1>1, <2>1, NoCallOf DEF Roles
  <2>5. wf # "done" => \A j \in 1 .. Len(Targets) : j < a.i => proj'[Targets[j]].st = "active"
    BY <1>3, <1>4, <2>1, <2>3 DEF Tgt
  <2>6. /\ proj' \in [Workspaces -> Projections]
        /\ tainted' \subseteq tainted /\ \A k \in tainted' : proj'[k].cur = proj[k].cur
    BY <1>1, <2>1, SameRows
  <2>7. a.i >= 1
    BY <1>3, <2>3
  <2> QED BY <1>1, <1>2, <1>3, <2>2, <2>3, <2>4, <2>5, <2>6, <2>7, AcqMoves
<1>6. CASE ReconcileOneLease
  <2>1. /\ proj[Tgt].st # "active" /\ SetProj(Tgt, Intended(proj[Tgt]))
        /\ acq' = [acq EXCEPT !.pc = "acquiring"] /\ call' = [call EXCEPT !["acq"] = Asked("acquire", Tgt)]
    BY <1>6 DEF ReconcileOneLease, Send, Asked
  <2>2. PICK a : a = acq' /\ a = [acq EXCEPT !.pc = "acquiring"]
    BY <2>1
  <2>3. a \in AcqStates /\ a.pc = "acquiring" /\ a.i = acq.i /\ a.i >= 1 /\ a.i <= Len(Targets)
    <3>1. acq.i >= 1 /\ acq.i <= Len(Targets)
      BY <1>3
    <3> QED BY <1>3, <2>2, <3>1 DEF AcqStates
  <2>4. /\ proj' \in [Workspaces -> Projections]
        /\ \A j \in Workspaces : proj'[j] = IF j = Tgt THEN Intended(proj[Tgt]) ELSE proj[j]
    BY <1>3, <2>1, Rows, RowSet
  <2>5. \A j \in Workspaces : proj'[j].cur = proj[j].cur
    BY <1>3, <2>4, Rows
  <2>6. wf # "done" => \A j \in 1 .. Len(Targets) : j < a.i => proj'[Targets[j]].st = "active"
    BY <1>4, <2>1, <2>3, <2>4, Constants
  <2>7. PICK c : c = Asked("acquire", Tgt)
    OBVIOUS
  <2>8. c \in Calls /\ c.st = "sent" /\ c.op = "acquire" /\ c.k = Targets[a.i]
    BY <1>3, <2>3, <2>7, CallFields DEF Tgt
  <2>9. call' = [call EXCEPT !["acq"] = c]
    BY <2>1, <2>7
  <2>10. tainted' \subseteq tainted /\ \A k \in tainted' : proj'[k].cur = proj[k].cur
    BY <1>1, <2>5, Now
  <2> QED BY <1>1, <1>2, <1>3, <2>2, <2>3, <2>4, <2>6, <2>8, <2>9, <2>10, AcqMoves
<1> QED BY <1>5, <1>6

\* The Node grants the lease, or a probe finds it granted.
LEMMA AdoptStep ==
  ASSUME IInv, Acquired \/ ProbeAdopts
  PROVE  IInv'
<1> DEFINE v == call["acq"].rev
<1>1. /\ UNCHANGED <<wf, lease, rev, rival, run, timer, step, rel, up, faults, started>>
      /\ up /\ call["acq"].st = "served" /\ call["acq"].op \in {"acquire", "get"} /\ timer' \in BOOLEAN
      /\ SetProj(Tgt, Activated(proj[Tgt], v)) /\ NextTarget /\ Done("acq") /\ tainted' = tainted \ {Tgt}
  BY DEF Acquired, ProbeAdopts, Served, Rebased, node, IInv, TypeOK
<1>2. faults' \in 0 .. MaxFaults
  BY <1>1, FaultCounts
<1>3. v \in Revs /\ CallOf("acq") /\ call["acq"].st # "none"
  BY <1>1, ServedFields DEF Roles
<1>4. acq.pc \in {"acquiring", "probing"} /\ call["acq"].k = Tgt
  BY <1>1, <1>3 DEF CallOf, Tgt
<1>5. acq \in AcqStates /\ acq.i \in 1 .. Len(Targets) /\ Tgt \in TargetSet /\ wf \in {"ready", "done"} /\ ~started
  BY <1>4, AcqFields, Now
<1>6. wf # "done" => \A j \in 1 .. Len(Targets) : j < acq.i => proj[Targets[j]].st = "active"
  BY <1>4, Now DEF Prefix
<1>7. PICK a : a = acq' /\ a = [acq EXCEPT !.pc = "next", !.i = acq.i + 1]
  BY <1>1 DEF NextTarget
<1>8. a \in AcqStates /\ a.pc = "next" /\ a.i = acq.i + 1 /\ a.i >= 1
  <2>1. acq.i + 1 \in 0 .. Len(Targets) + 1 /\ acq.i + 1 >= 1
    BY <1>5, Constants
  <2> QED BY <1>5, <1>7, <2>1 DEF AcqStates
<1>9. PICK row : row = Activated(proj[Tgt], v)
  OBVIOUS
<1>10. row \in Projections /\ row.st = "active" /\ row.cur = v
  BY <1>3, <1>5, <1>9, Rows
<1>11. proj' \in [Workspaces -> Projections] /\ \A j \in Workspaces : proj'[j] = IF j = Tgt THEN row ELSE proj[j]
  BY <1>1, <1>5, <1>9, <1>10, RowSet
<1>12. wf # "done" => \A j \in 1 .. Len(Targets) : j < a.i => proj'[Targets[j]].st = "active"
  <2> SUFFICES ASSUME wf # "done", NEW j \in 1 .. Len(Targets), j < a.i
               PROVE  proj'[Targets[j]].st = "active"
    OBVIOUS
  <2>1. j < acq.i \/ j = acq.i
    BY <1>5, <1>8, Constants
  <2>2. Targets[j] \in Workspaces
    BY Constants
  <2>3. CASE Targets[j] = Tgt
    BY <1>10, <1>11, <2>2, <2>3
  <2>4. CASE Targets[j] # Tgt
    <3>1. j < acq.i
      BY <2>1, <2>4 DEF Tgt
    <3> QED BY <1>6, <1>11, <2>2, <2>4, <3>1
  <2> QED BY <2>3, <2>4
<1>14. tainted' \subseteq tainted /\ \A k \in tainted' : proj'[k].cur = proj[k].cur
  BY <1>1, <1>11, Now
<1>15. NoCall \in Calls /\ NoCall.st = "none" /\ call' = [call EXCEPT !["acq"] = NoCall]
  BY <1>1, CallFields DEF Done
<1> QED BY <1>1, <1>2, <1>5, <1>7, <1>8, <1>11, <1>12, <1>14, <1>15, AcqMoves

\* A lease that is not granted: the reason is noted and the targets before it are rolled back.
LEMMA FallBackStep ==
  ASSUME IInv, AcquireConflict \/ ProbeDenies \/ ProbeTimesOut
  PROVE  IInv'
<1>1. /\ UNCHANGED <<wf, lease, rev, rival, run, timer, step, rel, up, started, tainted>>
      /\ up /\ call["acq"].st # "none" /\ call["acq"].op \in {"acquire", "get"} /\ timer' \in BOOLEAN /\ Done("acq")
  BY DEF AcquireConflict, ProbeDenies, ProbeTimesOut, Served, TimesOut, node, hist, IInv, TypeOK
<1>2. faults' \in 0 .. MaxFaults
  BY FaultCounts DEF AcquireConflict, ProbeDenies, ProbeTimesOut, TimesOut
<1>3. PICK s \in {"conflict", "acquire_unconfirmed", "lease_outcome_unknown"} : SetProj(Tgt, Reasoned(proj[Tgt], s))
  BY DEF AcquireConflict, ProbeDenies, ProbeTimesOut
<1>4. PICK out \in {"blocked", "pending"} : FallBack(out)
  BY DEF AcquireConflict, ProbeDenies, ProbeTimesOut
<1>5. CallOf("acq")
  BY <1>1, ServedFields DEF Roles
<1>6. acq.pc \in {"acquiring", "probing"}
  BY <1>1, <1>5 DEF CallOf
<1>7. acq \in AcqStates /\ acq.i \in 1 .. Len(Targets) /\ Tgt \in TargetSet /\ wf \in {"ready", "done"} /\ ~started
  BY <1>6, AcqFields, Now
<1>8. PICK a : a = acq' /\ a = [pc |-> "rollback", i |-> 1, n |-> acq.i - 1, out |-> out]
  BY <1>4 DEF FallBack
<1>9. a \in AcqStates /\ a.pc = "rollback" /\ a.i >= 1
  <2>1. 1 \in 0 .. Len(Targets) + 1 /\ acq.i - 1 \in 0 .. Len(Targets)
    BY <1>7, Constants
  <2> QED BY <1>8, <2>1 DEF AcqStates
<1>10. PICK row : row = Reasoned(proj[Tgt], s)
  OBVIOUS
<1>11. row \in Projections /\ row.cur = proj[Tgt].cur
  BY <1>3, <1>7, <1>10, Rows
<1>12. proj' \in [Workspaces -> Projections] /\ \A j \in Workspaces : proj'[j] = IF j = Tgt THEN row ELSE proj[j]
  BY <1>3, <1>7, <1>10, <1>11, RowSet
<1>13. \A k \in Workspaces : proj'[k].cur = proj[k].cur
  BY <1>11, <1>12
<1>14. tainted' \subseteq tainted /\ \A k \in tainted' : proj'[k].cur = proj[k].cur
  BY <1>1, <1>13, Now
<1>15. NoCall \in Calls /\ NoCall.st = "none" /\ call' = [call EXCEPT !["acq"] = NoCall]
  BY <1>1, CallFields DEF Done
<1> QED BY <1>1, <1>2, <1>7, <1>8, <1>9, <1>12, <1>14, <1>15, AcqMoves

\* Calls of the lease work that are followed by another: a probe, a rollback's release.
LEMMA AskStep ==
  ASSUME IInv, AcquireTimesOut \/ Rollback
  PROVE  IInv'
<1>1. /\ UNCHANGED <<wf, proj, lease, rev, rival, run, timer, step, rel, up, started, tainted>>
      /\ up /\ timer' \in BOOLEAN
  BY DEF AcquireTimesOut, Rollback, TimesOut, node, hist, IInv, TypeOK
<1>2. faults' \in 0 .. MaxFaults
  BY FaultCounts DEF AcquireTimesOut, Rollback, TimesOut
<1>3. /\ proj' \in [Workspaces -> Projections]
      /\ tainted' \subseteq tainted /\ \A k \in tainted' : proj'[k].cur = proj[k].cur
  BY <1>1, SameRows, Now
<1>4. CASE AcquireTimesOut
  <2>1. /\ call["acq"].st # "none" /\ call["acq"].op = "acquire" /\ acq' = [acq EXCEPT !.pc = "probing"]
        /\ call' = [call EXCEPT !["acq"] = Asked("get", Tgt)]
    BY <1>4 DEF AcquireTimesOut, TimesOut, Send, Asked
  <2>2. acq.pc = "acquiring"
    BY <2>1, ServedFields DEF Roles, CallOf
  <2>3. acq \in AcqStates /\ acq.i \in 1 .. Len(Targets) /\ Tgt \in TargetSet /\ wf \in {"ready", "done"} /\ ~started
    BY <2>2, AcqFields, Now
  <2>4. PICK a : a = acq' /\ a = [acq EXCEPT !.pc = "probing"]
    BY <2>1
  <2>5. a \in AcqStates /\ a.pc = "probing" /\ a.i = acq.i /\ a.i >= 1 /\ a.i <= Len(Targets)
    <3>1. acq.i >= 1 /\ acq.i <= Len(Targets)
      BY <2>3
    <3> QED BY <2>3, <2>4, <3>1 DEF AcqStates
  <2>6. wf # "done" => \A j \in 1 .. Len(Targets) : j < a.i => proj'[Targets[j]].st = "active"
    BY <1>1, <2>2, <2>5, Now DEF Prefix
  <2>7. PICK c : c = Asked("get", Tgt)
    OBVIOUS
  <2>8. c \in Calls /\ c.st = "sent" /\ c.op = "get" /\ c.k = Targets[a.i]
    BY <2>3, <2>5, <2>7, CallFields DEF Tgt
  <2>9. call' = [call EXCEPT !["acq"] = c]
    BY <2>1, <2>7
  <2> QED BY <1>1, <1>2, <1>3, <2>3, <2>4, <2>5, <2>6, <2>8, <2>9, AcqMoves
<1>5. CASE Rollback
  <2>1. /\ acq.pc = "rollback" /\ acq.i <= acq.n /\ acq' = [acq EXCEPT !.pc = "undoing"]
        /\ call' = [call EXCEPT !["acq"] = Asked("release", Tgt)]
    BY <1>5 DEF Rollback, Send, Asked
  <2>2. acq \in AcqStates /\ acq.i \in 1 .. Len(Targets) /\ Tgt \in TargetSet /\ wf \in {"ready", "done"} /\ ~started
    BY <2>1, AcqFields, Now
  <2>3. PICK a : a = acq' /\ a = [acq EXCEPT !.pc = "undoing"]
    BY <2>1
  <2>4. a \in AcqStates /\ a.pc = "undoing" /\ a.i = acq.i /\ a.i >= 1 /\ a.i <= a.n
    <3>1. acq.i >= 1
      BY <2>2
    <3> QED BY <2>1, <2>2, <2>3, <3>1 DEF AcqStates
  <2>5. PICK c : c = Asked("release", Tgt)
    OBVIOUS
  <2>6. c \in Calls /\ c.st = "sent" /\ c.op = "release" /\ c.k = Targets[a.i]
    BY <2>2, <2>4, <2>5, CallFields DEF Tgt
  <2>7. call' = [call EXCEPT !["acq"] = c]
    BY <2>1, <2>5
  <2> QED BY <1>1, <1>2, <1>3, <2>2, <2>3, <2>4, <2>6, <2>7, AcqMoves
<1> QED BY <1>4, <1>5

\* A target is rolled back, whatever became of its release.
LEMMA UndoStep ==
  ASSUME IInv, RollbackReleased \/ RollbackTimesOut
  PROVE  IInv'
<1>1. /\ UNCHANGED <<wf, lease, rev, rival, run, timer, step, rel, up, started, tainted>>
      /\ up /\ timer' \in BOOLEAN /\ call["acq"].st # "none" /\ call["acq"].op = "release" /\ Done("acq")
      /\ SetProj(Tgt, Released(proj[Tgt])) /\ acq' = [acq EXCEPT !.pc = "rollback", !.i = acq.i + 1]
  BY DEF RollbackReleased, RollbackTimesOut, Undone, Served, TimesOut, node, hist, IInv, TypeOK
<1>2. faults' \in 0 .. MaxFaults
  BY FaultCounts DEF RollbackReleased, RollbackTimesOut, TimesOut
<1>3. acq.pc = "undoing"
  BY <1>1, ServedFields DEF Roles, CallOf
<1>4. acq \in AcqStates /\ acq.i \in 1 .. Len(Targets) /\ Tgt \in TargetSet /\ wf \in {"ready", "done"} /\ ~started
  BY <1>3, AcqFields, Now
<1>5. PICK a : a = acq' /\ a = [acq EXCEPT !.pc = "rollback", !.i = acq.i + 1]
  BY <1>1
<1>6. a \in AcqStates /\ a.pc = "rollback" /\ a.i >= 1
  <2>1. acq.i + 1 \in 0 .. Len(Targets) + 1 /\ acq.i + 1 >= 1
    BY <1>4, Constants
  <2> QED BY <1>4, <1>5, <2>1 DEF AcqStates
<1>7. PICK row : row = Released(proj[Tgt])
  OBVIOUS
<1>8. row \in Projections /\ row.cur = proj[Tgt].cur
  BY <1>4, <1>7, Rows
<1>9. proj' \in [Workspaces -> Projections] /\ \A j \in Workspaces : proj'[j] = IF j = Tgt THEN row ELSE proj[j]
  BY <1>1, <1>4, <1>7, <1>8, RowSet
<1>10. \A k \in Workspaces : proj'[k].cur = proj[k].cur
  BY <1>8, <1>9
<1>11. tainted' \subseteq tainted /\ \A k \in tainted' : proj'[k].cur = proj[k].cur
  BY <1>1, <1>10, Now
<1>12. NoCall \in Calls /\ NoCall.st = "none" /\ call' = [call EXCEPT !["acq"] = NoCall]
  BY <1>1, CallFields DEF Done
<1> QED BY <1>1, <1>2, <1>4, <1>5, <1>6, <1>9, <1>11, <1>12, AcqMoves

\* The lease work ends without a start: rolled back, or the workflow was cancelled meanwhile.
LEMMA EndStep ==
  ASSUME IInv, RollbackEnds \/ (StartDurably /\ wf # "ready")
  PROVE  IInv'
<1>1. /\ UNCHANGED <<wf, proj, lease, rev, rival, run, step, rel, call, up, faults, started, tainted>>
      /\ up /\ timer' \in BOOLEAN /\ acq' = IdleAcq /\ acq.pc \in {"next", "rollback"}
  BY DEF RollbackEnds, StartDurably, node, hist, IInv, TypeOK
<1>2. faults' \in 0 .. MaxFaults
  BY <1>1, FaultCounts
<1>3. wf \in {"ready", "done"} /\ ~started
  BY <1>1, AcqFields
<1>4. IdleAcq \in AcqStates /\ IdleAcq.pc = "idle"
  <2>1. 0 \in 0 .. Len(Targets) + 1 /\ 0 \in 0 .. Len(Targets)
    BY Constants
  <2> QED BY <2>1 DEF IdleAcq, AcqStates
<1>5. call["acq"] \in Calls /\ call["acq"].st = "none" /\ call' = [call EXCEPT !["acq"] = call["acq"]]
  BY <1>1, NoCallOf DEF Roles
<1>6. /\ proj' \in [Workspaces -> Projections]
      /\ tainted' \subseteq tainted /\ \A k \in tainted' : proj'[k].cur = proj[k].cur
  BY <1>1, SameRows, Now
<1> QED BY <1>1, <1>2, <1>3, <1>4, <1>5, <1>6, AcqMoves

\* The workflow starts with all its leases.
LEMMA StartStep ==
  ASSUME IInv, StartDurably, wf = "ready"
  PROVE  IInv'
<1>1. /\ UNCHANGED <<proj, lease, rev, rival, run, timer, step, rel, call, up, tainted, faults>>
      /\ up /\ acq.pc = "next" /\ acq.i > Len(Targets) /\ acq' = IdleAcq /\ wf' = "running" /\ started' = TRUE
  BY DEF StartDurably, node
<1>2. step.pc = "none" /\ rel.pc = "idle" /\ Phases
  BY Now DEF Phases
<1>3. call["acq"].st = "none" /\ call["step"].st = "none" /\ call["rel"].st = "none"
  BY <1>1, <1>2, NoCallOf
<1>4. IdleAcq \in AcqStates /\ IdleAcq.pc = "idle"
  <2>1. 0 \in 0 .. Len(Targets) + 1 /\ 0 \in 0 .. Len(Targets)
    BY Constants
  <2> QED BY <2>1 DEF IdleAcq, AcqStates
<1>5. \A k \in TargetSet : proj[k].st = "active"
  <2>1. \A j \in 1 .. Len(Targets) : proj[Targets[j]].st = "active"
    BY <1>1, AcqFields, Constants, Now DEF Prefix
  <2>2. \A k \in TargetSet : \E j \in 1 .. Len(Targets) : k = Targets[j]
    BY LeasesAssumption, LenProperties DEF TargetSet, ToSet
  <2> QED BY <2>1, <2>2
<1>6. TypeOK'
  BY <1>1, <1>4, Now DEF IInv, TypeOK
<1>7. Phases'
  BY <1>1, <1>2, <1>4 DEF Phases
<1>8. CallsTrue'
  BY <1>1, <1>3 DEF CallsTrue, Roles
<1>9. Leased' /\ Exclusive' /\ Tainted'
  BY <1>1, Now DEF Leased, Exclusive, Tainted
<1>10. Prefix' /\ Held' /\ Kept'
  BY <1>1, <1>4, <1>5 DEF Prefix, Held, Kept
<1>11. ReleaseTrue' /\ GateTrue' /\ ForeignWriteStops'
  BY <1>1, <1>2, <1>3 DEF ReleaseTrue, GateTrue, ForeignWriteStops
<1> QED BY <1>6, <1>7, <1>8, <1>9, <1>10, <1>11 DEF IInv

-----------------------------------------------------------------------------
(* The pump *)

\* The pump's record after SetStep, and the releases after Settle.
LEMMA StepFields ==
  /\ \A pc \in {"none", "gate", "create", "bind", "await", "after"} :
       [IdleStep EXCEPT !.pc = pc] \in StepStates /\ [IdleStep EXCEPT !.pc = pc].pc = pc
  /\ [pc |-> "next", todo |-> Releasable, tries |-> 0] \in RelStates
<1>1. 0 \in 0 .. MaxReleaseAttempts - 1
  BY Constants
<1>2. Releasable \subseteq TargetSet
  BY DEF Releasable
<1> QED BY <1>1, <1>2 DEF IdleStep, StepStates, RelStates

\* What the pump's steps keep.
PumpFrame ==
  /\ UNCHANGED <<started, lease, rev, rival, acq, timer, up, tainted, proj>>
  /\ up /\ wf = "running" /\ faults' \in 0 .. MaxFaults

\* The pump goes on with the step: the workflow runs on.
LEMMA PumpMoves ==
  ASSUME IInv, PumpFrame, UNCHANGED <<wf, rel>>, NEW s \in StepStates, step' = s,
         NEW c \in Calls, call' = [call EXCEPT !["step"] = c],
         run' \in RunStates, s.pc # "none" => run'.k \in TargetSet,
         run'.st # "none" => run'.k \in TargetSet, run'.st = "live" => lease[run'.k].st = "active",
         c.st # "none" => c.st = "sent" /\ s.pc \in {"gate", "after"} /\ c.op = "observe" /\ c.k = run'.k,
         s.pc \in {"create", "bind"} /\ s.sound => run'.k \notin tainted
  PROVE  IInv'
<1>1. /\ UNCHANGED <<started, lease, rev, rival, acq, timer, up>> /\ up /\ wf # "done" /\ wf' = wf /\ wf = "running"
      /\ faults' \in 0 .. MaxFaults /\ tainted' \subseteq tainted
  BY DEF PumpFrame
<1>2. rel'.pc = "idle" /\ rel' \in RelStates /\ wf' \in {"ready", "running", "blocked", "done"}
  BY <1>1, Now DEF Phases
<1>3. /\ proj' \in [Workspaces -> Projections] /\ (\A k \in tainted' : proj'[k].cur = proj[k].cur)
      /\ \A k \in Workspaces : proj'[k].st = proj[k].st
  BY SameRows DEF PumpFrame
<1> QED BY <1>1, <1>2, <1>3, StepMoves

\* The run's fields.
LEMMA RunFields ==
  ASSUME IInv
  PROVE  /\ run \in RunStates /\ run.st \in {"none", "live", "ended"} /\ run.bound \in BOOLEAN
         /\ run.st # "none" => run.k \in TargetSet
         /\ run.st = "live" => lease[run.k].st = "active"
         /\ step.pc # "none" => run.k \in TargetSet /\ wf = "running"
BY Now DEF RunStates, Phases, Leased

\* The gate is asked, and asked again.
LEMMA GateAsks ==
  ASSUME IInv, (\E k \in TargetSet : GateBefore(k)) \/ GateRetries
  PROVE  IInv'
<1>1. PumpFrame /\ UNCHANGED <<wf, rel>>
  BY FaultCounts DEF GateBefore, GateRetries, Pumping, TimesOut, PumpFrame, node, hist
<1>2. ASSUME NEW k \in TargetSet, GateBefore(k)
      PROVE  IInv'
  <2>1. /\ run.k \in {"none", k} /\ run' = [run EXCEPT !.k = k] /\ SetStep("gate")
        /\ call' = [call EXCEPT !["step"] = Asked("observe", k)]
    BY <1>2 DEF GateBefore, Send, Asked
  <2>2. run' \in RunStates /\ run'.k = k /\ run'.st = run.st
    <3>1. k \in OrNone
      BY Constants DEF OrNone
    <3> QED BY <2>1, <3>1, RunFields DEF RunStates
  <2>3. run'.st = "live" => lease[run'.k].st = "active"
    BY <2>1, <2>2, RunFields, Constants
  <2>4. PICK s : s = step' /\ s = [IdleStep EXCEPT !.pc = "gate"]
    BY <2>1 DEF SetStep
  <2>5. s \in StepStates /\ s.pc = "gate"
    BY <2>4, StepFields
  <2>6. PICK c : c = Asked("observe", k)
    OBVIOUS
  <2>7. c \in Calls /\ c.st = "sent" /\ c.op = "observe" /\ c.k = k
    BY <2>6, CallFields
  <2>8. call' = [call EXCEPT !["step"] = c]
    BY <2>1, <2>6
  <2> QED BY <1>1, <2>2, <2>3, <2>4, <2>5, <2>7, <2>8, PumpMoves
<1>3. CASE GateRetries
  <2>1. step.pc = "gate" /\ UNCHANGED <<run, step>> /\ call' = [call EXCEPT !["step"] = Asked("observe", run.k)]
    BY <1>3 DEF GateRetries, Send, Asked
  <2>2. run.k \in TargetSet
    BY <2>1, RunFields
  <2>3. PICK c : c = Asked("observe", run.k)
    OBVIOUS
  <2>4. c \in Calls /\ c.st = "sent" /\ c.op = "observe" /\ c.k = run.k
    BY <2>2, <2>3, CallFields
  <2>5. call' = [call EXCEPT !["step"] = c] /\ step \in StepStates
    BY <2>1, <2>3, Now
  <2> QED BY <1>1, <2>1, <2>2, <2>4, <2>5, RunFields, PumpMoves
<1> QED BY <1>2, <1>3

\* The gate passes no tainted workspace, unless git misled it.
LEMMA GatePassesStep ==
  ASSUME IInv, GatePasses
  PROVE  IInv'
<1>1. /\ PumpFrame /\ UNCHANGED <<wf, rel, run>> /\ step.pc = "gate" /\ call["step"].st = "served"
      /\ proj[run.k].cur \in {NoRev, call["step"].rev} /\ Done("step")
      /\ step' = [IdleStep EXCEPT !.pc = "create", !.sound = call["step"].sound]
  BY FaultCounts DEF GatePasses, Matches, Pumping, Served, PumpFrame, node, hist
<1>2. run.k \in TargetSet
  BY <1>1, RunFields
<1>3. PICK b : b = call["step"].sound
  OBVIOUS
<1>4. b \in BOOLEAN
  BY <1>3, Now DEF Calls, Roles
<1>5. b => run.k \notin tainted
  BY <1>1, <1>3, Now DEF GateTrue
<1>6. PICK s : s = step' /\ s = [IdleStep EXCEPT !.pc = "create", !.sound = b]
  BY <1>1, <1>3
<1>7. s \in StepStates /\ s.pc = "create" /\ s.sound = b
  <2>1. s = [pc |-> "create", tries |-> 0, sound |-> b]
    BY <1>6 DEF IdleStep
  <2> QED BY <1>4, <2>1, Constants DEF StepStates
<1>8. NoCall \in Calls /\ NoCall.st = "none" /\ call' = [call EXCEPT !["step"] = NoCall]
  BY <1>1, CallFields DEF Done
<1> QED BY <1>1, <1>2, <1>5, <1>6, <1>7, <1>8, RunFields, PumpMoves

\* The run is started under its lease, bound and awaited.
LEMMA RunStarts ==
  ASSUME IInv, CreateTask \/ BindTask \/ AwaitTask
  PROVE  IInv'
<1>1. PumpFrame /\ UNCHANGED <<wf, rel>>
  BY FaultCounts DEF CreateTask, BindTask, AwaitTask, Pumping, PumpFrame, node, hist
<1>2. CASE CreateTask \/ BindTask
  <2>1. step.pc \in {"create", "bind"} /\ call' = call
    BY <1>2 DEF CreateTask, BindTask
  <2>2. call["step"] \in Calls /\ call["step"].st = "none" /\ call' = [call EXCEPT !["step"] = call["step"]]
    BY <2>1, NoCallOf DEF Roles
  <2>3. run.k \in TargetSet /\ step \in StepStates /\ (step.sound => run.k \notin tainted)
    BY <2>1, RunFields, Now DEF ForeignWriteStops
  <2>4. PICK s : s = step' /\ (s = [step EXCEPT !.pc = "bind"] \/ s = [IdleStep EXCEPT !.pc = "await"])
    BY <1>2 DEF CreateTask, BindTask, SetStep
  <2>5. s \in StepStates /\ s.pc \in {"bind", "await"} /\ (s.pc = "bind" => s.sound = step.sound)
    <3>1. CASE s = [step EXCEPT !.pc = "bind"]
      BY <2>3, <3>1 DEF StepStates
    <3>2. CASE s = [IdleStep EXCEPT !.pc = "await"]
      BY <3>2, StepFields
    <3> QED BY <2>4, <3>1, <3>2
  <2>6. run' \in RunStates /\ run'.k = run.k /\ (run'.st = "live" => lease[run.k].st = "active")
    <3>1. CASE CreateTask
      <4>1. run' = [run EXCEPT !.st = IF run.st = "none" THEN "live" ELSE run.st] /\ (run.st # "none" \/ lease[run.k].st = "active")
        BY <3>1 DEF CreateTask
      <4> QED BY <4>1, RunFields DEF RunStates
    <3>2. CASE BindTask
      <4>1. run' = [run EXCEPT !.bound = TRUE]
        BY <3>2 DEF BindTask
      <4> QED BY <4>1, RunFields DEF RunStates
    <3> QED BY <1>2, <3>1, <3>2
  <2> QED BY <1>1, <2>2, <2>3, <2>4, <2>5, <2>6, PumpMoves
<1>3. CASE AwaitTask
  <2>1. run.st = "ended" /\ run' = run /\ SetStep("after") /\ call' = [call EXCEPT !["step"] = Asked("observe", run.k)]
    BY <1>3 DEF AwaitTask, Send, Asked
  <2>2. run.k \in TargetSet /\ run' \in RunStates
    BY <2>1, RunFields
  <2>3. PICK s : s = step' /\ s = [IdleStep EXCEPT !.pc = "after"]
    BY <2>1 DEF SetStep
  <2>4. s \in StepStates /\ s.pc = "after"
    BY <2>3, StepFields
  <2>5. PICK c : c = Asked("observe", run.k)
    OBVIOUS
  <2>6. c \in Calls /\ c.st = "sent" /\ c.op = "observe" /\ c.k = run.k
    BY <2>2, <2>5, CallFields
  <2>7. call' = [call EXCEPT !["step"] = c]
    BY <2>1, <2>5
  <2> QED BY <1>1, <2>1, <2>2, <2>3, <2>4, <2>6, <2>7, PumpMoves
<1> QED BY <1>2, <1>3

\* The observation after a step is asked for again.
LEMMA ObserveAgain ==
  ASSUME IInv, ObserveAfterRetries
  PROVE  IInv'
<1>1. /\ PumpFrame /\ UNCHANGED <<wf, rel, run>> /\ step.pc = "after" /\ step.tries + 1 < MaxReleaseAttempts
      /\ step' = [step EXCEPT !.tries = step.tries + 1] /\ call' = [call EXCEPT !["step"] = Asked("observe", run.k)]
  BY FaultCounts DEF ObserveAfterRetries, Pumping, TimesOut, PumpFrame, node, hist, Send, Asked
<1>2. run.k \in TargetSet
  BY <1>1, RunFields
<1>3. step \in StepStates /\ step.tries + 1 \in 0 .. MaxReleaseAttempts - 1
  <2>1. step \in StepStates /\ step.tries \in 0 .. MaxReleaseAttempts - 1 /\ MaxReleaseAttempts \in Nat
    BY Now, Constants DEF StepStates
  <2> QED BY <1>1, <2>1
<1>4. PICK s : s = step' /\ s = [step EXCEPT !.tries = step.tries + 1]
  BY <1>1
<1>5. s \in StepStates /\ s.pc = "after"
  BY <1>1, <1>3, <1>4 DEF StepStates
<1>6. PICK c : c = Asked("observe", run.k)
  OBVIOUS
<1>7. c \in Calls /\ c.st = "sent" /\ c.op = "observe" /\ c.k = run.k
  BY <1>2, <1>6, CallFields
<1>8. call' = [call EXCEPT !["step"] = c]
  BY <1>1, <1>6
<1> QED BY <1>1, <1>2, <1>4, <1>5, <1>7, <1>8, RunFields, PumpMoves

\* The steps with which the pump leaves a step: blocked, refused, over, or the workflow cancelled.
LEMMA StepLeft ==
  ASSUME IInv, GateBlocks \/ CreateRefused \/ ObserveAfter \/ ObserveAfterGivesUp \/ CancelWorkflow
  PROVE  IInv'
<1>1. /\ UNCHANGED <<started, lease, rev, rival, acq, timer, up>> /\ up /\ wf # "done"
      /\ SetStep("none") /\ wf' \in {"running", "blocked", "done"}
      /\ (wf' \in {wf, "done"} \/ (wf = "running" /\ wf' = "blocked"))
      /\ (rel' = rel \/ (rel' = [pc |-> "next", todo |-> Releasable, tries |-> 0] /\ wf' = "done"))
  BY Now DEF GateBlocks, CreateRefused, ObserveAfter, ObserveAfterGivesUp, CancelWorkflow, StepOver, Settle, Pumping, Rebased,
             node, hist
<1>2. faults' \in 0 .. MaxFaults
  BY FaultCounts DEF GateBlocks, CreateRefused, ObserveAfter, ObserveAfterGivesUp, CancelWorkflow, TimesOut
<1>3. rel.pc = "idle" /\ rel \in RelStates
  BY <1>1, Now DEF Phases
<1>4. rel' \in RelStates /\ (rel'.pc # "idle" => wf' = "done")
  BY <1>1, <1>3, StepFields
<1>5. PICK s : s = step' /\ s = [IdleStep EXCEPT !.pc = "none"]
  BY <1>1 DEF SetStep
<1>6. s \in StepStates /\ s.pc = "none"
  BY <1>5, StepFields
<1>7. PICK c \in Calls : call' = [call EXCEPT !["step"] = c] /\ c.st = "none"
  <2>1. NoCall \in Calls /\ NoCall.st = "none"
    BY CallFields
  <2>2. CASE Done("step")
    BY <2>1, <2>2 DEF Done
  <2>3. CASE CreateRefused
    <3>1. step.pc = "create" /\ call' = call
      BY <2>3 DEF CreateRefused
    <3> QED BY <3>1, NoCallOf DEF Roles
  <2> QED BY <2>2, <2>3 DEF GateBlocks, ObserveAfter, ObserveAfterGivesUp, StepOver, CancelWorkflow
<1>8. run' \in RunStates /\ (run'.st # "none" => run'.k \in TargetSet) /\ (run'.st = "live" => lease[run'.k].st = "active")
  <2>1. run' \in {run, NoRun}
    BY DEF GateBlocks, CreateRefused, ObserveAfter, ObserveAfterGivesUp, StepOver, CancelWorkflow
  <2>2. NoRun \in RunStates /\ NoRun.st = "none"
    BY DEF NoRun, RunStates, OrNone
  <2> QED BY <2>1, <2>2, RunFields
<1>9. /\ proj' \in [Workspaces -> Projections] /\ tainted' \subseteq tainted /\ (\A k \in tainted' : proj'[k].cur = proj[k].cur)
      /\ \A k \in Workspaces : proj'[k].st = proj[k].st
  <2>1. CASE ObserveAfter
    <3> DEFINE v == call["step"].rev
    <3>1. /\ step.pc = "after" /\ call["step"].st = "served" /\ SetProj(run.k, Revised(proj[run.k], v))
          /\ tainted' = tainted \ {run.k}
      BY <2>1 DEF ObserveAfter, Served, Rebased
    <3>2. run.k \in TargetSet /\ v \in Revs
      BY <3>1, RunFields, ServedFields DEF Roles, CallOf
    <3>3. PICK row : row = Revised(proj[run.k], v)
      OBVIOUS
    <3>4. row \in Projections /\ row.st = proj[run.k].st /\ row.cur = v
      BY <3>2, <3>3, Rows
    <3>5. proj' \in [Workspaces -> Projections] /\ \A j \in Workspaces : proj'[j] = IF j = run.k THEN row ELSE proj[j]
      BY <3>1, <3>2, <3>3, <3>4, RowSet
    <3> QED BY <3>1, <3>2, <3>4, <3>5, Now
  <2>2. CASE ~ObserveAfter
    <3>1. proj' = proj /\ tainted' = tainted
      BY <2>2 DEF GateBlocks, CreateRefused, ObserveAfterGivesUp, CancelWorkflow, hist
    <3> QED BY <3>1, SameRows, Now
  <2> QED BY <2>1, <2>2
<1>10. wf' \in {"ready", "running", "blocked", "done"}
  BY <1>1
<1> QED BY <1>1, <1>2, <1>4, <1>5, <1>6, <1>7, <1>8, <1>9, <1>10, StepMoves

-----------------------------------------------------------------------------
(* Releases *)

\* A release is asked for.
LEMMA ReleaseAsked ==
  ASSUME IInv, NEW k \in TargetSet, ReleaseLease(k)
  PROVE  IInv'
<1>1. /\ UNCHANGED <<wf, started, lease, rev, rival, run, acq, timer, step, up, tainted>> /\ up
      /\ rel.pc = "next" /\ SetProj(k, ReleaseRequested(proj[k]))
      /\ rel' = [rel EXCEPT !.pc = "releasing", !.tries = 0] /\ call' = [call EXCEPT !["rel"] = Asked("release", k)]
  BY DEF ReleaseLease, Send, Asked, node, hist
<1>2. faults' \in 0 .. MaxFaults
  BY FaultCounts DEF ReleaseLease
<1>3. wf = "done" /\ rel \in RelStates
  BY <1>1, Now DEF Phases
<1>4. PICK r : r = rel' /\ r = [rel EXCEPT !.pc = "releasing", !.tries = 0]
  BY <1>1
<1>5. r \in RelStates /\ r.pc = "releasing"
  BY <1>3, <1>4, Constants DEF RelStates
<1>6. PICK row : row = ReleaseRequested(proj[k])
  OBVIOUS
<1>7. /\ row \in Projections /\ row.cur = proj[k].cur /\ row.st \in {"released", "release_requested"}
      /\ row.st = "released" => proj[k].st = "released"
  BY <1>6, Rows
<1>8. proj' \in [Workspaces -> Projections] /\ \A j \in Workspaces : proj'[j] = IF j = k THEN row ELSE proj[j]
  BY <1>1, <1>6, <1>7, RowSet
<1>9. \A j \in Workspaces : proj'[j].cur = proj[j].cur
  BY <1>7, <1>8
<1>10. started => \A j \in TargetSet : proj'[j].st # "none" /\ (proj'[j].st = "released" => lease[j].st # "active")
  BY <1>7, <1>8, Constants, Now DEF Kept
<1>11. PICK c : c = Asked("release", k)
  OBVIOUS
<1>12. c \in Calls /\ c.st = "sent" /\ c.op = "release" /\ c.k = k
  BY <1>11, CallFields
<1>13. call' = [call EXCEPT !["rel"] = c]
  BY <1>1, <1>11
<1> QED BY <1>1, <1>2, <1>3, <1>4, <1>5, <1>8, <1>9, <1>10, <1>12, <1>13, RelMoves

\* A release is over: confirmed, refused, without an answer; tried again or left to the next recovery.
LEMMA ReleaseOver ==
  ASSUME IInv, ReleaseAcked \/ ReleaseRefused \/ ReleaseTimesOut
  PROVE  IInv'
<1>0. PICK k : k = call["rel"].k
  OBVIOUS
<1>1. /\ UNCHANGED <<wf, started, lease, rev, rival, run, acq, timer, step, up, tainted>> /\ up
      /\ call["rel"].st # "none"
  BY DEF ReleaseAcked, ReleaseRefused, ReleaseTimesOut, Unreleased, Served, TimesOut, node, hist
<1>2. faults' \in 0 .. MaxFaults
  BY FaultCounts DEF ReleaseAcked, ReleaseRefused, ReleaseTimesOut, TimesOut
<1>3. k \in TargetSet /\ CallOf("rel")
  BY <1>0, <1>1, ServedFields DEF Roles
<1>4. wf = "done" /\ rel \in RelStates /\ rel.pc = "releasing"
  BY <1>3, Now DEF CallOf, Phases
<1>5. rel.todo \subseteq TargetSet /\ rel.tries \in 0 .. MaxReleaseAttempts - 1
  BY <1>4 DEF RelStates
<1>6. NoCall \in Calls /\ NoCall.st = "none"
  BY CallFields
<1>7. [pc |-> "next", todo |-> rel.todo \ {k}, tries |-> 0] \in RelStates
  <2>1. rel.todo \ {k} \subseteq TargetSet
    BY <1>5
  <2> QED BY <2>1, Constants DEF RelStates
<1>8. PICK nx : nx = [pc |-> "next", todo |-> rel.todo \ {k}, tries |-> 0]
  OBVIOUS
<1>9. CASE ReleaseAcked
  <2>1. /\ call["rel"].st = "served" /\ call["rel"].res = "ok" /\ SetProj(k, Released(proj[k])) /\ rel' = nx /\ Done("rel")
    BY <1>0, <1>8, <1>9 DEF ReleaseAcked, Served, NextRelease
  <2>2. PICK row : row = Released(proj[k])
    OBVIOUS
  <2>3. row \in Projections /\ row.cur = proj[k].cur /\ row.st = "released"
    BY <1>3, <2>2, Rows
  <2>4. proj' \in [Workspaces -> Projections] /\ \A j \in Workspaces : proj'[j] = IF j = k THEN row ELSE proj[j]
    BY <1>3, <2>1, <2>2, <2>3, RowSet
  <2>5. \A j \in Workspaces : proj'[j].cur = proj[j].cur
    BY <2>3, <2>4
  <2>6. started => lease[k].st # "active"
    BY <1>0, <2>1, Now DEF ReleaseTrue
  <2>7. started => \A j \in TargetSet : proj'[j].st # "none" /\ (proj'[j].st = "released" => lease[j].st # "active")
    BY <2>3, <2>4, <2>6, Constants, Now DEF Kept
  <2>8. call' = [call EXCEPT !["rel"] = NoCall]
    BY <2>1 DEF Done
  <2> QED BY <1>1, <1>2, <1>4, <1>6, <1>7, <1>8, <2>1, <2>4, <2>5, <2>7, <2>8, RelMoves
<1>10. CASE Unreleased
  <2>1. /\ proj' = proj
        /\ \/ rel.tries + 1 < MaxReleaseAttempts /\ rel' = [rel EXCEPT !.tries = rel.tries + 1]
              /\ call' = [call EXCEPT !["rel"] = Asked("release", k)]
           \/ rel' = nx /\ call' = [call EXCEPT !["rel"] = NoCall]
    BY <1>0, <1>8, <1>10 DEF Unreleased, Send, Asked, NextRelease, Done
  <2>2. proj' \in [Workspaces -> Projections] /\ \A j \in Workspaces : proj'[j].cur = proj[j].cur
    BY <2>1, SameRows
  <2>3. started => \A j \in TargetSet : proj'[j].st # "none" /\ (proj'[j].st = "released" => lease[j].st # "active")
    BY <2>1, Now DEF Kept
  <2>4. CASE rel' = nx /\ call' = [call EXCEPT !["rel"] = NoCall]
    BY <1>1, <1>2, <1>4, <1>6, <1>7, <1>8, <2>2, <2>3, <2>4, RelMoves
  <2>5. CASE /\ rel.tries + 1 < MaxReleaseAttempts /\ rel' = [rel EXCEPT !.tries = rel.tries + 1]
             /\ call' = [call EXCEPT !["rel"] = Asked("release", k)]
    <3>1. rel.tries + 1 \in 0 .. MaxReleaseAttempts - 1
      BY <1>5, <2>5, Constants
    <3>2. PICK r : r = rel' /\ r = [rel EXCEPT !.tries = rel.tries + 1]
      BY <2>5
    <3>3. r \in RelStates /\ r.pc = "releasing"
      BY <1>4, <3>1, <3>2 DEF RelStates
    <3>4. PICK c : c = Asked("release", k)
      OBVIOUS
    <3>5. c \in Calls /\ c.st = "sent" /\ c.op = "release" /\ c.k = k
      BY <1>3, <3>4, CallFields
    <3>6. call' = [call EXCEPT !["rel"] = c]
      BY <2>5, <3>4
    <3> QED BY <1>1, <1>2, <1>3, <1>4, <2>2, <2>3, <3>2, <3>3, <3>5, <3>6, RelMoves
  <2> QED BY <2>1, <2>4, <2>5
<1> QED BY <1>9, <1>10 DEF ReleaseRefused, ReleaseTimesOut

LEMMA ReleasesEndStep ==
  ASSUME IInv, ReleasesEnd
  PROVE  IInv'
<1>1. /\ UNCHANGED <<wf, started, proj, lease, rev, rival, run, acq, timer, step, call, up, tainted>> /\ up
      /\ rel.pc = "next" /\ rel' = IdleRel
  BY DEF ReleasesEnd, node, hist
<1>2. faults' \in 0 .. MaxFaults
  BY FaultCounts DEF ReleasesEnd
<1>3. IdleRel \in RelStates
  BY Constants DEF IdleRel, RelStates
<1>4. wf = "done"
  BY <1>1, Now DEF Phases
<1>5. call["rel"] \in Calls /\ call["rel"].st = "none" /\ call' = [call EXCEPT !["rel"] = call["rel"]]
  BY <1>1, NoCallOf DEF Roles
<1>6. proj' \in [Workspaces -> Projections] /\ \A j \in Workspaces : proj'[j].cur = proj[j].cur
  BY <1>1, SameRows
<1>7. started => \A j \in TargetSet : proj'[j].st # "none" /\ (proj'[j].st = "released" => lease[j].st # "active")
  BY <1>1, Now DEF Kept
<1> QED BY <1>1, <1>2, <1>3, <1>4, <1>5, <1>6, <1>7, RelMoves

-----------------------------------------------------------------------------
(* The Node and the world *)

\* What the Node answers, and the row it leaves.
LEMMA AnswerFields ==
  ASSUME IInv, NEW k \in TargetSet, NEW op \in {"acquire", "get", "release", "observe"},
         NEW seen \in Prints, NEW a, a = Answer(op, k, seen)
  PROVE  /\ a.row \in LeaseRows /\ a.rev \in Revs
         /\ a.res \in {"none", "ok", "conflict", "invalid", "in_use", "absent", "active", "released"}
         /\ a.row.st = "active" => rival[k] = "none"
         /\ op # "acquire" /\ a.row.st = "active" => lease[k].st = "active"
         /\ lease[k].st = "active" /\ InUse(k) => a.row.st = "active"
         /\ op = "release" /\ a.res = "ok" => a.row.st # "active"
         /\ op = "observe" => a.rev = seen
<1>1. /\ lease[k] \in LeaseRows /\ lease[k].st \in {"absent", "active", "released"} /\ lease[k].rev \in Revs
      /\ seen \in Revs /\ NoRev \in Revs /\ (lease[k].st = "active" => rival[k] = "none")
  <2>1. lease[k] \in LeaseRows /\ (lease[k].st = "active" => rival[k] = "none")
    BY Now, Constants DEF Exclusive
  <2> QED BY <2>1 DEF LeaseRows, Revs
<1>3. CASE op = "acquire"
  <2>1. a = NodeAcquire(k, seen)
    BY <1>3 DEF Answer
  <2>2. [st |-> "active", rev |-> seen] \in LeaseRows
    BY <1>1 DEF LeaseRows
  <2> QED BY <1>1, <1>3, <2>1, <2>2 DEF NodeAcquire
<1>4. CASE op = "get"
  <2>1. a = NodeGet(k)
    BY <1>4 DEF Answer
  <2> QED BY <1>1, <1>4, <2>1 DEF NodeGet
<1>5. CASE op = "release"
  <2>1. a = NodeRelease(k)
    BY <1>5 DEF Answer
  <2>2. PICK gone : gone = [lease[k] EXCEPT !.st = "released"]
    OBVIOUS
  <2>3. gone \in LeaseRows /\ gone.st = "released" /\ gone.rev = lease[k].rev
    BY <1>1, <2>2 DEF LeaseRows
  <2>4. CASE lease[k].st = "absent"
    BY <1>1, <1>5, <2>1, <2>4 DEF NodeRelease
  <2>5. CASE lease[k].st = "released"
    BY <1>1, <1>5, <2>1, <2>5 DEF NodeRelease
  <2>6. CASE lease[k].st = "active" /\ InUse(k)
    <3>1. a = [res |-> "in_use", rev |-> NoRev, row |-> lease[k]]
      BY <2>1, <2>6 DEF NodeRelease
    <3> QED BY <1>1, <1>5, <2>6, <3>1
  <2>7. CASE lease[k].st = "active" /\ ~InUse(k)
    <3>1. a = [res |-> "ok", rev |-> NoRev, row |-> gone]
      BY <2>1, <2>2, <2>7 DEF NodeRelease
    <3> QED BY <1>1, <1>5, <2>3, <2>7, <3>1
  <2> QED BY <1>1, <2>4, <2>5, <2>6, <2>7
<1>6. CASE op = "observe"
  <2>1. a = NodeObserve(k, seen)
    BY <1>6 DEF Answer
  <2> QED BY <1>1, <1>6, <2>1 DEF NodeObserve
<1> QED BY <1>3, <1>4, <1>5, <1>6

\* The Node carries out a request and answers, with what git reports or with what it made up.
LEMMA ReplyStep ==
  ASSUME IInv, NEW r \in Roles, NEW seen \in Prints, NEW sound \in BOOLEAN, Replies(r, seen, sound),
         faults' \in 0 .. MaxFaults, sound => seen = rev[call[r].k]
  PROVE  IInv'
<1>1. PICK k, op : k = call[r].k /\ op = call[r].op
  OBVIOUS
<1>2. PICK a : a = Answer(op, k, seen)
  OBVIOUS
<1>3. PICK d : d = [call[r] EXCEPT !.st = "served", !.res = a.res, !.rev = a.rev, !.sound = sound]
  OBVIOUS
<1>4. /\ UNCHANGED <<wf, proj, rev, rival, run, acq, timer, step, rel, up, started, tainted>>
      /\ call[r].st = "sent" /\ lease' = [lease EXCEPT ![k] = a.row] /\ call' = [call EXCEPT ![r] = d]
  BY <1>1, <1>2, <1>3 DEF Replies, hist
<1>5. call[r] \in Calls /\ CallOf(r) /\ k \in TargetSet /\ k \in Workspaces
  BY <1>1, <1>4, ServedFields, Constants
<1>6. op \in {"acquire", "get", "release", "observe"}
  BY <1>1, <1>5 DEF CallOf, Roles
<1>7. /\ a.row \in LeaseRows /\ a.rev \in Revs
      /\ a.res \in {"none", "ok", "conflict", "invalid", "in_use", "absent", "active", "released"}
      /\ a.row.st = "active" => rival[k] = "none"
      /\ op # "acquire" /\ a.row.st = "active" => lease[k].st = "active"
      /\ lease[k].st = "active" /\ InUse(k) => a.row.st = "active"
      /\ op = "release" /\ a.res = "ok" => a.row.st # "active"
      /\ op = "observe" => a.rev = seen
  BY <1>2, <1>5, <1>6, AnswerFields
<1>8. d \in Calls /\ d.st = "served" /\ d.res = a.res /\ d.rev = a.rev /\ d.sound = sound /\ d.op = op /\ d.k = k
  BY <1>1, <1>3, <1>5, <1>7 DEF Calls
<1>9. /\ lease' \in [Workspaces -> LeaseRows] /\ \A j \in Workspaces : lease'[j] = IF j = k THEN a.row ELSE lease[j]
      /\ call' \in [Roles -> Calls] /\ \A q \in Roles : call'[q] = IF q = r THEN d ELSE call[q]
  BY <1>4, <1>5, <1>7, <1>8, Now
<1>10. started => op # "acquire"
  BY <1>1, <1>5, Now DEF CallOf, Roles, Phases
<1>11. started => \A j \in Workspaces : lease'[j].st = "active" => lease[j].st = "active"
  BY <1>7, <1>9, <1>10
<1>12. TypeOK'
  BY <1>4, <1>9, Now DEF IInv, TypeOK
<1>13. Phases' /\ Prefix' /\ Held' /\ Tainted' /\ ForeignWriteStops'
  BY <1>4, Now DEF Phases, Prefix, Held, Tainted, ForeignWriteStops
<1>14. CallsTrue'
  <2>1. ASSUME NEW q \in Roles, call'[q].st # "none"
        PROVE  CallOf(q)'
    <3>1. CASE q = r
      <4>1. call'[q].op = call[q].op /\ call'[q].k = call[q].k /\ CallOf(q)
        BY <1>1, <1>5, <1>8, <1>9, <3>1
      <4> QED BY <1>1, <1>4, <3>1, <4>1 DEF CallOf
    <3>2. CASE q # r
      <4>1. call'[q] = call[q]
        BY <1>9, <3>2
      <4>2. CallOf(q)
        BY <2>1, <4>1, Now DEF CallsTrue
      <4> QED BY <1>4, <4>1, <4>2 DEF CallOf
    <3> QED BY <3>1, <3>2
  <2> QED BY <2>1 DEF CallsTrue
<1>15. Leased'
  <2> SUFFICES ASSUME run.st = "live" PROVE lease'[run.k].st = "active"
    BY <1>4 DEF Leased
  <2>1. run.k \in Workspaces /\ lease[run.k].st = "active"
    BY RunFields, Constants
  <2> QED BY <1>7, <1>9, <2>1 DEF InUse
<1>16. Exclusive'
  BY <1>4, <1>7, <1>9, Now DEF Exclusive
<1>17. Kept'
  BY <1>4, <1>11, Constants, Now DEF Kept
<1>18. ReleaseTrue'
  <2> SUFFICES ASSUME started, call'["rel"].st = "served", call'["rel"].res = "ok"
               PROVE  lease'[call'["rel"].k].st # "active"
    BY <1>4 DEF ReleaseTrue
  <2>1. CASE r = "rel"
    <3>1. op = "release"
      BY <1>1, <1>5, <2>1 DEF CallOf
    <3> QED BY <1>5, <1>7, <1>8, <1>9, <2>1, <3>1 DEF Roles
  <2>2. CASE r # "rel"
    <3>1. call'["rel"] = call["rel"]
      BY <1>9, <2>2 DEF Roles
    <3>2. call["rel"].k \in Workspaces /\ lease[call["rel"].k].st # "active"
      BY <3>1, ServedFields, Constants, Now DEF ReleaseTrue, Roles
    <3> QED BY <1>11, <3>1, <3>2
  <2> QED BY <2>1, <2>2
<1>20. GateTrue'
  <2> SUFFICES ASSUME step.pc = "gate", run.k \in tainted, call'["step"].st = "served", call'["step"].sound
               PROVE  proj[run.k].cur \notin {NoRev, call'["step"].rev}
    BY <1>4 DEF GateTrue
  <2>1. CASE r = "step"
    <3>1. op = "observe" /\ k = run.k
      BY <1>1, <1>5, <2>1 DEF CallOf
    <3>2. sound /\ call'["step"].rev = rev[run.k]
      BY <1>1, <1>7, <1>8, <1>9, <2>1, <3>1 DEF Roles
    <3> QED BY <3>2, Now DEF Tainted
  <2>2. CASE r # "step"
    BY <1>9, <2>2, Now DEF GateTrue, Roles
  <2> QED BY <2>1, <2>2
<1> QED BY <1>12, <1>13, <1>14, <1>15, <1>16, <1>17, <1>18, <1>20 DEF IInv

LEMMA ServeStep ==
  ASSUME IInv, (\E r \in Roles : Serve(r)) \/ \E r \in Roles, seen \in Prints : GitFails(r, seen)
  PROVE  IInv'
<1>1. ASSUME NEW r \in Roles, Serve(r)
      PROVE  IInv'
  <2>1. Replies(r, rev[call[r].k], TRUE) /\ UNCHANGED faults /\ call[r].st = "sent"
    BY <1>1 DEF Serve, Replies
  <2>2. call[r].k \in Workspaces
    BY <2>1, ServedFields, Constants
  <2>3. rev[call[r].k] \in Prints /\ faults' \in 0 .. MaxFaults
    BY <2>1, <2>2, Now
  <2> QED BY <2>1, <2>3, ReplyStep
<1>2. ASSUME NEW r \in Roles, NEW seen \in Prints, GitFails(r, seen)
      PROVE  IInv'
  <2>1. Replies(r, seen, FALSE) /\ Fault
    BY <1>2 DEF GitFails
  <2> QED BY <2>1, FaultCounts, ReplyStep
<1> QED BY <1>1, <1>2

\* The agent, or somebody else, writes to a workspace: a taint appears only between two steps.
LEMMA WriteStep ==
  ASSUME IInv, (\E v \in Prints : RunWrites(v)) \/ \E k \in Workspaces, v \in Prints : OutsiderWrites(k, v)
  PROVE  IInv'
<1>1. PICK k \in Workspaces, v \in Prints :
        /\ rev' = [rev EXCEPT ![k] = v]
        /\ \/ tainted' = tainted \ {k}
           \/ v # proj[k].cur /\ tainted' = tainted
           \/ BetweenSteps /\ v # proj[k].cur /\ proj[k].cur # NoRev /\ tainted' = tainted \cup {k}
  <2>1. CASE \E v \in Prints : RunWrites(v)
    <3>1. PICK v \in Prints : RunWrites(v)
      BY <2>1
    <3>2. run.k \in Workspaces
      BY <3>1, RunFields, Constants DEF RunWrites
    <3>3. /\ rev' = [rev EXCEPT ![run.k] = v]
          /\ tainted' = tainted \ {run.k} \/ (v # proj[run.k].cur /\ tainted' = tainted)
      BY <3>1 DEF RunWrites, Fingerprint
    <3> QED BY <3>2, <3>3
  <2>2. CASE \E k \in Workspaces, v \in Prints : OutsiderWrites(k, v)
    BY <2>2 DEF OutsiderWrites, Fingerprint
  <2> QED BY <2>1, <2>2
<1>2. UNCHANGED <<wf, started, proj, lease, rival, run, acq, timer, step, rel, call, up, faults>>
  BY DEF RunWrites, OutsiderWrites
<1>3. rev' \in [Workspaces -> Prints] /\ \A j \in Workspaces : rev'[j] = IF j = k THEN v ELSE rev[j]
  BY <1>1, Now
<1>4. tainted' \subseteq Workspaces
  BY <1>1, Now
<1>5. TypeOK'
  BY <1>2, <1>3, <1>4, Now DEF IInv, TypeOK
<1>6. Phases' /\ Leased' /\ Exclusive' /\ Prefix' /\ Held' /\ Kept' /\ ReleaseTrue'
  BY <1>2, Now DEF Phases, Leased, Exclusive, Prefix, Held, Kept, ReleaseTrue
<1>7. CallsTrue'
  BY <1>2, Now DEF CallsTrue, CallOf
<1>8. Tainted'
  <2> SUFFICES ASSUME NEW j \in tainted' PROVE proj[j].cur \notin {NoRev, rev'[j]}
    BY <1>2 DEF Tainted
  <2>1. CASE j = k
    <3>1. v # proj[k].cur /\ proj[k].cur # NoRev
      BY <1>1, <2>1, Now DEF Tainted
    <3> QED BY <1>3, <2>1, <3>1
  <2>2. CASE j # k
    BY <1>1, <1>3, <1>4, <2>2, Now DEF Tainted
  <2> QED BY <2>1, <2>2
<1>9. step.pc # "none" => tainted' \subseteq tainted
  BY <1>1 DEF BetweenSteps
<1>10. GateTrue' /\ ForeignWriteStops'
  BY <1>2, <1>9, Now DEF GateTrue, ForeignWriteStops
<1> QED BY <1>5, <1>6, <1>7, <1>8, <1>10 DEF IInv

\* The run ends; a rival acquires, works, releases.
LEMMA WorldStep ==
  ASSUME IInv, RunEnds \/ \E k \in Workspaces, to \in {"none", "held", "working"} : RivalMoves(k, to)
  PROVE  IInv'
<1>1. UNCHANGED <<wf, started, proj, lease, rev, acq, timer, step, rel, call, up, tainted, faults>>
  BY DEF RunEnds, RivalMoves, node, hist
<1>2. /\ run' \in RunStates /\ run'.k = run.k /\ (run.st = "none" => run'.st = "none") /\ (run'.st # "live" \/ run' = run)
      /\ rival' \in [Workspaces -> {"none", "held", "working"}]
      /\ \A j \in Workspaces : lease[j].st = "active" => rival'[j] = "none"
  <2>1. CASE RunEnds
    <3>1. run.st = "live" /\ run' = [run EXCEPT !.st = "ended"] /\ rival' = rival
      BY <2>1 DEF RunEnds, node
    <3>2. run' \in RunStates /\ run'.k = run.k /\ run'.st = "ended"
      BY <3>1, Now DEF RunStates
    <3> QED BY <3>1, <3>2, Now DEF Exclusive
  <2>2. CASE \E k \in Workspaces, to \in {"none", "held", "working"} : RivalMoves(k, to)
    <3>1. PICK k \in Workspaces, to \in {"none", "held", "working"} : RivalMoves(k, to)
      BY <2>2
    <3>2. rival' = [rival EXCEPT ![k] = to] /\ run' = run
      BY <3>1 DEF RivalMoves
    <3>3. rival' \in [Workspaces -> {"none", "held", "working"}] /\ \A j \in Workspaces : rival'[j] = IF j = k THEN to ELSE rival[j]
      BY <3>2, Now
    <3>4. lease[k].st # "active"
      BY <3>1, Now DEF RivalMoves, Exclusive
    <3> QED BY <3>2, <3>3, <3>4, Now DEF Exclusive
  <2> QED BY <2>1, <2>2
<1>3. TypeOK'
  BY <1>1, <1>2, Now DEF IInv, TypeOK
<1>4. Phases'
  BY <1>1, <1>2, Now DEF Phases
<1>5. CallsTrue'
  BY <1>1, <1>2, Now DEF CallsTrue, CallOf
<1>6. Leased' /\ Exclusive'
  BY <1>1, <1>2, Now DEF Leased, Exclusive
<1>7. Prefix' /\ Held' /\ Kept' /\ ReleaseTrue' /\ Tainted'
  BY <1>1, Now DEF Prefix, Held, Kept, ReleaseTrue, Tainted
<1>8. GateTrue' /\ ForeignWriteStops'
  BY <1>1, <1>2, Now DEF GateTrue, ForeignWriteStops
<1> QED BY <1>3, <1>4, <1>5, <1>6, <1>7, <1>8 DEF IInv

\* A crash leaves no worker and no call; a recovery starts the releases of an ended workflow.
LEMMA CrashStep ==
  ASSUME IInv, Crash \/ RecoverWorkflows
  PROVE  IInv'
<1>1. UNCHANGED <<wf, started, proj, lease, rev, rival, run, tainted>>
  BY DEF Crash, RecoverWorkflows, node, hist
<1>2. faults' \in 0 .. MaxFaults /\ timer' \in BOOLEAN /\ up' \in BOOLEAN
  BY FaultCounts DEF Crash, RecoverWorkflows
<1>3. /\ NoCall \in Calls /\ NoCall.st = "none" /\ IdleAcq \in AcqStates /\ IdleAcq.pc = "idle"
      /\ IdleStep \in StepStates /\ IdleStep.pc = "none" /\ IdleRel \in RelStates /\ IdleRel.pc = "idle"
  <2>1. 0 \in 0 .. Len(Targets) + 1 /\ 0 \in 0 .. Len(Targets) /\ 0 \in 0 .. MaxReleaseAttempts - 1
    BY Constants
  <2> QED BY <2>1, CallFields DEF IdleAcq, AcqStates, IdleStep, StepStates, IdleRel, RelStates
<1>4. /\ acq' \in AcqStates /\ acq'.pc = "idle" /\ step' \in StepStates /\ step'.pc = "none"
      /\ call' \in [Roles -> Calls] /\ \A r \in Roles : call'[r].st = "none"
  <2>1. CASE Crash
    BY <1>3, <2>1 DEF Crash
  <2>2. CASE RecoverWorkflows
    <3>1. UNCHANGED <<acq, step, call>> /\ ~up
      BY <2>2 DEF RecoverWorkflows
    <3>2. acq.pc = "idle" /\ step.pc = "none" /\ rel.pc = "idle"
      BY <3>1, Now DEF Phases
    <3>3. \A r \in Roles : call[r].st = "none"
      BY <3>2, NoCallOf DEF Roles
    <3> QED BY <3>1, <3>2, <3>3, Now
  <2> QED BY <2>1, <2>2
<1>5. rel' \in RelStates /\ (rel'.pc # "idle" => wf = "done" /\ up')
  <2>1. CASE Crash
    BY <1>3, <2>1 DEF Crash
  <2>2. CASE RecoverWorkflows
    BY <1>3, <2>2, StepFields DEF RecoverWorkflows, Settle
  <2> QED BY <2>1, <2>2
<1>6. TypeOK'
  BY <1>1, <1>2, <1>4, <1>5, Now DEF TypeOK
<1>7. Phases'
  BY <1>1, <1>4, <1>5, Now DEF Phases
<1>8. CallsTrue'
  BY <1>4 DEF CallsTrue
<1>9. Leased' /\ Exclusive' /\ Held' /\ Kept' /\ Tainted'
  BY <1>1, Now DEF Leased, Exclusive, Held, Kept, Tainted
<1>10. Prefix' /\ ReleaseTrue' /\ GateTrue' /\ ForeignWriteStops'
  BY <1>4 DEF Prefix, ReleaseTrue, GateTrue, ForeignWriteStops, Roles
<1> QED BY <1>6, <1>7, <1>8, <1>9, <1>10 DEF IInv

-----------------------------------------------------------------------------
(* The invariant *)

LEMMA InitInv ==
  ASSUME Init
  PROVE  IInv
<1>1. NoRev \in Revs /\ 0 \in Prints /\ Unavailable \in Prints /\ 0 \in 0 .. MaxFaults
  BY Constants DEF Revs, Prints, Unavailable
<1>2. /\ NoCall \in Calls /\ NoCall.st = "none" /\ IdleAcq \in AcqStates /\ IdleAcq.pc = "idle"
      /\ IdleStep \in StepStates /\ IdleStep.pc = "none" /\ IdleRel \in RelStates /\ IdleRel.pc = "idle"
      /\ NoRun \in RunStates /\ NoRun.st = "none"
  <2>1. 0 \in 0 .. Len(Targets) + 1 /\ 0 \in 0 .. Len(Targets) /\ 0 \in 0 .. MaxReleaseAttempts - 1
    BY Constants
  <2> QED BY <2>1, CallFields DEF IdleAcq, AcqStates, IdleStep, StepStates, IdleRel, RelStates, NoRun, RunStates, OrNone
<1>3. /\ proj \in [Workspaces -> Projections] /\ lease \in [Workspaces -> LeaseRows]
      /\ rev \in [Workspaces -> Prints]
  BY <1>1 DEF Init, Projections, LeaseRows
<1>4. TypeOK
  BY <1>1, <1>2, <1>3 DEF Init, TypeOK
<1>5. Phases /\ CallsTrue
  BY <1>2 DEF Init, Phases, CallsTrue
<1>6. Leased /\ Exclusive /\ Prefix /\ Held /\ Kept /\ ReleaseTrue
  BY <1>2 DEF Init, Leased, Exclusive, Prefix, Held, Kept, ReleaseTrue
<1>8. Tainted /\ GateTrue /\ ForeignWriteStops
  BY <1>2 DEF Init, Tainted, GateTrue, ForeignWriteStops
<1> QED BY <1>4, <1>5, <1>6, <1>8 DEF IInv

LEMMA NextInv ==
  ASSUME IInv, [Next]_vars
  PROVE  IInv'
<1>1. CASE (\E r \in Roles : Serve(r)) \/ \E r \in Roles, seen \in Prints : GitFails(r, seen)
  BY <1>1, ServeStep
<1>2. CASE StartWorkflow \/ LeaseReconcile
  BY <1>2, BeginStep
<1>3. CASE ReconcileHeld \/ ReconcileOneLease
  BY <1>3, NextTargetStep
<1>4. CASE Acquired \/ ProbeAdopts
  BY <1>4, AdoptStep
<1>5. CASE AcquireConflict \/ ProbeDenies \/ ProbeTimesOut
  BY <1>5, FallBackStep
<1>6. CASE AcquireTimesOut \/ Rollback
  BY <1>6, AskStep
<1>7. CASE RollbackReleased \/ RollbackTimesOut
  BY <1>7, UndoStep
<1>8. CASE RollbackEnds
  BY <1>8, EndStep
<1>9. CASE StartDurably
  BY <1>9, EndStep, StartStep
<1>10. CASE (\E k \in TargetSet : GateBefore(k)) \/ GateRetries
  BY <1>10, GateAsks
<1>11. CASE GatePasses
  BY <1>11, GatePassesStep
<1>12. CASE CreateTask \/ BindTask \/ AwaitTask
  BY <1>12, RunStarts
<1>13. CASE ObserveAfterRetries
  BY <1>13, ObserveAgain
<1>14. CASE GateBlocks \/ CreateRefused \/ ObserveAfter \/ ObserveAfterGivesUp \/ CancelWorkflow
  BY <1>14, StepLeft
<1>15. CASE \E k \in TargetSet : ReleaseLease(k)
  BY <1>15, ReleaseAsked
<1>16. CASE ReleaseAcked \/ ReleaseRefused \/ ReleaseTimesOut
  BY <1>16, ReleaseOver
<1>17. CASE ReleasesEnd
  BY <1>17, ReleasesEndStep
<1>18. CASE (\E v \in Prints : RunWrites(v)) \/ \E k \in Workspaces, v \in Prints : OutsiderWrites(k, v)
  BY <1>18, WriteStep
<1>19. CASE RunEnds \/ \E k \in Workspaces, to \in {"none", "held", "working"} : RivalMoves(k, to)
  BY <1>19, WorldStep
<1>20. CASE Crash \/ RecoverWorkflows
  BY <1>20, CrashStep
<1>21. CASE UNCHANGED vars
  <2>1. timer' \in BOOLEAN /\ faults' \in 0 .. MaxFaults
    BY <1>21 DEF vars, IInv, TypeOK
  <2> QED BY <1>21, <2>1, Quiet DEF vars
<1> QED BY <1>1, <1>2, <1>3, <1>4, <1>5, <1>6, <1>7, <1>8, <1>9, <1>10, <1>11, <1>12, <1>13, <1>14, <1>15, <1>16,
           <1>17, <1>18, <1>19, <1>20, <1>21 DEF Next

\* The invariant holds of every behaviour: lost replies before and after the Node has acted,
\* rollbacks, cancels, crashes and restarts at any point, rivals and outside writers.
THEOREM Invariance == Spec => []IInv
<1>1. Init => IInv
  BY InitInv
<1>2. IInv /\ [Next]_vars => IInv'
  BY NextInv
<1> QED BY <1>1, <1>2, PTL DEF Spec

-----------------------------------------------------------------------------
(* The properties *)

\* Rows, workers and calls are always of their types.
THEOREM TypeCorrect == Spec => []TypeOK
<1>1. IInv => TypeOK
  BY DEF IInv
<1> QED BY <1>1, Invariance, PTL

\* A running workflow holds every lease in its projection, and an agent works only under a lease
\* that the Node holds (acquireOrReconcileLeases, rollbackAcquired, releaseWorkspaceLease).
THEOREM LeasedWork == Spec => []WorkIsLeased
<1>1. IInv => WorkIsLeased
  BY DEF IInv, Held, Leased, WorkIsLeased
<1> QED BY <1>1, Invariance, PTL

\* The agents of two workflows are never in one workspace: the run's lease is active, and an active
\* lease leaves no other workflow one (acquireWorkspaceLease).
THEOREM OneWriter == Spec => []SoleWriter
<1>1. IInv => SoleWriter
  <2> SUFFICES ASSUME IInv, run.st = "live" PROVE rival[run.k] # "working"
    BY DEF SoleWriter
  <2>1. run.k \in Workspaces /\ lease[run.k].st = "active"
    BY RunFields, Constants
  <2> QED BY <2>1, Now DEF Exclusive
<1> QED BY <1>1, Invariance, PTL

\* No agent starts on a workspace that somebody else has left, since the last step, with another
\* fingerprint than the one expected, however often the gate is retried or the runtime restarted
\* (revisionGateBefore, revisionsMatch), as long as git answers the gate.
THEOREM GateStopsForeignWrites == Spec => []ForeignWriteStops
<1>1. IInv => ForeignWriteStops
  BY DEF IInv
<1> QED BY <1>1, Invariance, PTL

\* A lease that the Node still holds after the end of a started workflow is in a state that the next
\* recovery releases (settleLeaseReleases, listReleasableWorkspaceLeases).
THEOREM LeasesRemembered == Spec => []NoLeaseForgotten
<1>1. IInv => NoLeaseForgotten
  BY DEF IInv, Kept, NoLeaseForgotten
<1> QED BY <1>1, Invariance, PTL
=============================================================================
