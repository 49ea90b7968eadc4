-------------------------- MODULE NodeLease_proof --------------------------
(***************************************************************************)
(* Proofs about what a node runs: NodeLease, for every number of           *)
(* workflows, workspaces and runs, every set of faults and every number of *)
(* daemon restarts; and, in the second half, LocalRun, the run that a      *)
(* lease admits.                                                           *)
(***************************************************************************)
EXTENDS NodeLease, RunContract, Integers, Sequences, FiniteSetTheorems, TLAPS

\* OneActiveLeasePerWorkspace is inductive by itself; OpenRunHoldsItsLease is
\* inductive because a run is bound in the same step in which its lease is
\* found active.  NoTwoWorkflowsInOneWorkspace needs both, and the fact that
\* a binding names the run's own workspace.
IInv ==
    /\ TypeOK
    /\ BoundInOwnWorkspace
    /\ OneActiveLeasePerWorkspace
    /\ OpenRunHoldsItsLease

\* No run is admitted before the daemon's first step.
LEMMA InitIInv == Init => IInv
BY NodeLeaseAssumption
DEF Init, IInv, TypeOK, BoundInOwnWorkspace, OneActiveLeasePerWorkspace,
    OpenRunHoldsItsLease

\* A lease changes only its own row, and only towards "active" while no other
\* workflow holds the workspace.
LEMMA AcquirePreserves ==
    ASSUME IInv, NEW w \in Workflows, NEW k \in Workspaces,
           AcquireWorkspaceLease(w, k)
    PROVE  IInv'
<1> DEFINE l0 == <<w, k>>
<1>1. l0 \in Leases /\ l0[2] = k
  BY DEF Leases
<1>2. lease' = [lease EXCEPT ![l0] = "active"]
      /\ \A l \in Leases : l[2] = k /\ lease[l] = "active" => l = l0
  BY <1>1 DEF AcquireWorkspaceLease, MayAcquire, ActiveLeases
<1>3. TypeOK' /\ BoundInOwnWorkspace'
  BY <1>1, <1>2 DEF IInv, TypeOK, BoundInOwnWorkspace, AcquireWorkspaceLease
<1>4. OneActiveLeasePerWorkspace'
  <2> SUFFICES ASSUME NEW l1 \in Leases, NEW l2 \in Leases,
                      lease'[l1] = "active", lease'[l2] = "active", l1[2] = l2[2]
               PROVE  l1 = l2
    BY DEF OneActiveLeasePerWorkspace
  <2>1. CASE l1 = l0
    BY <1>1, <1>2, <2>1 DEF IInv, TypeOK
  <2>2. CASE l2 = l0
    BY <1>1, <1>2, <2>2 DEF IInv, TypeOK
  <2>3. CASE l1 # l0 /\ l2 # l0
    BY <1>2, <2>3 DEF IInv, TypeOK, OneActiveLeasePerWorkspace
  <2> QED BY <2>1, <2>2, <2>3
<1>5. OpenRunHoldsItsLease'
  BY <1>1, <1>2 DEF IInv, TypeOK, OpenRunHoldsItsLease, AcquireWorkspaceLease
<1> QED BY <1>3, <1>4, <1>5 DEF IInv

\* A released lease has no open run: InUse is exactly that condition.
LEMMA ReleasePreserves ==
    ASSUME IInv, NEW l \in Leases, ReleaseWorkspaceLease(l)
    PROVE  IInv'
<1>1. lease' = [lease EXCEPT ![l] = "released"]
      /\ \A r \in Runs : bound[r] = l => recorded[r]
  BY DEF ReleaseWorkspaceLease, InUse
<1>2. TypeOK' /\ BoundInOwnWorkspace' /\ OneActiveLeasePerWorkspace'
  BY <1>1 DEF IInv, TypeOK, BoundInOwnWorkspace, OneActiveLeasePerWorkspace,
              ReleaseWorkspaceLease
<1>3. OpenRunHoldsItsLease'
  BY <1>1 DEF IInv, TypeOK, OpenRunHoldsItsLease, ReleaseWorkspaceLease
<1> QED BY <1>2, <1>3 DEF IInv

\* The gate and the binding are one step: the new run's lease, when the journal
\* takes the binding, is active and on the run's workspace.
LEMMA AdmitPreserves ==
    ASSUME IInv, NEW r \in Runs, NEW k \in Workspaces,
           NEW p \in Leases \cup {NoLease}, Admit(r, k, p)
    PROVE  /\ key' \in [Runs -> Workspaces \cup {NoLease}]
           /\ bound' \in [Runs -> Leases \cup {NoLease}]
           /\ BoundInOwnWorkspace'
           /\ OneActiveLeasePerWorkspace'
           /\ OpenRunHoldsItsLease'
<1>1. p # NoLease => p[2] = k /\ lease[p] = "active"
  BY DEF Admit, ValidateForRun, ActiveLeases
<1>2. PICK b \in Bindings(p) :
        /\ key' = [key EXCEPT ![r] = k]
        /\ bound' = [bound EXCEPT ![r] = b]
        /\ lease' = lease /\ recorded' = recorded
  BY DEF Admit
<1>3. b = p \/ b = NoLease
  BY DEF Bindings
<1> QED
  BY <1>1, <1>2, <1>3 DEF IInv, TypeOK, BoundInOwnWorkspace,
     OneActiveLeasePerWorkspace, OpenRunHoldsItsLease

\* Processes, the tailer and restarts never reopen a run or touch a lease.
LEMMA RunStepPreserves ==
    ASSUME IInv,
           \/ \E r \in Runs : RunStep(r)
           \/ Crash
           \/ Restart
           \/ UNCHANGED vars
    PROVE  IInv'
<1> USE DEF TypeOK
<1>1. ASSUME NEW r \in Runs, RunStep(r)
      PROVE  /\ TypeOK'
             /\ UNCHANGED <<lease, key, bound>>
             /\ \A s \in Runs : recorded[s] => recorded'[s]
  <2>1. CASE SupervisorEnd(r)
    BY <2>1 DEF IInv, SupervisorEnd
  <2>2. CASE RunStop(r)
    BY <2>2 DEF IInv, RunStop
  <2>3. CASE ProcessExit(r)
    BY <2>3 DEF IInv, ProcessExit
  <2>4. CASE TailTerminal(r)
    BY <2>4 DEF IInv, TailTerminal
  <2>5. CASE TailIdle(r)
    BY <2>5 DEF IInv, TailIdle
  <2>6. CASE TailDrop(r)
    BY <2>6 DEF IInv, TailDrop
  <2> QED BY <1>1, <2>1, <2>2, <2>3, <2>4, <2>5, <2>6 DEF RunStep
<1>2. CASE Crash
  <2>1. restarts' \in 0..MaxRestarts
    BY <1>2, NodeLeaseAssumption DEF Crash, IInv
  <2>2. TypeOK'
    BY <1>2, <2>1 DEF Crash, IInv
  <2> QED
    BY <1>2, <2>2
       DEF Crash, IInv, BoundInOwnWorkspace, OneActiveLeasePerWorkspace, OpenRunHoldsItsLease
<1>3. CASE Restart
  BY <1>3 DEF Restart, IInv, BoundInOwnWorkspace, OneActiveLeasePerWorkspace, OpenRunHoldsItsLease
<1>4. CASE UNCHANGED vars
  BY <1>4 DEF vars, IInv, BoundInOwnWorkspace, OneActiveLeasePerWorkspace, OpenRunHoldsItsLease
<1>5. ASSUME NEW r \in Runs, RunStep(r) PROVE IInv'
  BY <1>1, <1>5 DEF IInv, BoundInOwnWorkspace, OneActiveLeasePerWorkspace, OpenRunHoldsItsLease
<1> QED BY <1>2, <1>3, <1>4, <1>5

\* Every step of the Node preserves the inductive invariant.
LEMMA NextIInv == IInv /\ [Next]_vars => IInv'
<1> SUFFICES ASSUME IInv, [Next]_vars PROVE IInv'
  OBVIOUS
<1>1. ASSUME NEW w \in Workflows, NEW k \in Workspaces,
             AcquireWorkspaceLease(w, k)
      PROVE  IInv'
  BY <1>1, AcquirePreserves
<1>2. ASSUME NEW l \in Leases, ReleaseWorkspaceLease(l) PROVE IInv'
  BY <1>2, ReleasePreserves
<1>3. ASSUME NEW r \in Runs, NEW k \in Workspaces,
             NEW p \in Leases \cup {NoLease},
             RunStart(r, k, p) \/ RunStartCrash(r, k, p)
      PROVE  IInv'
  <2>1. Admit(r, k, p)
    BY <1>3 DEF RunStart, RunStartCrash
  <2>2. /\ lease' \in [Leases -> {"absent", "active", "released"}]
        /\ recorded' \in [Runs -> BOOLEAN]
        /\ evlog' \in [Runs -> {"none", "open", "ended", "lost"}]
        /\ proc' \in [Runs -> {"none", "live", "dead"}]
        /\ tail' \subseteq Runs
        /\ up' \in BOOLEAN
        /\ restarts' \in 0..MaxRestarts
    <3>1. CASE RunStart(r, k, p)
      BY <2>1, <3>1 DEF IInv, TypeOK, RunStart, Admit
    <3>2. CASE RunStartCrash(r, k, p)
      <4>1. restarts' \in 0..MaxRestarts
        BY <3>2, NodeLeaseAssumption DEF IInv, TypeOK, RunStartCrash
      <4>2. /\ evlog' \in [Runs -> {"none", "open", "ended", "lost"}]
            /\ proc' \in [Runs -> {"none", "live", "dead"}]
        BY <3>2 DEF IInv, TypeOK, RunStartCrash
      <4> QED BY <2>1, <3>2, <4>1, <4>2, ZenonT(40) DEF IInv, TypeOK, RunStartCrash, Admit
    <3> QED BY <1>3, <3>1, <3>2
  <2> QED BY <2>1, <2>2, AdmitPreserves DEF IInv, TypeOK
<1>4. CASE \/ \E r \in Runs : RunStep(r)
           \/ Crash
           \/ Restart
           \/ UNCHANGED vars
  BY <1>4, RunStepPreserves
<1> QED BY <1>1, <1>2, <1>3, <1>4 DEF Next

\* The journal's rows keep their types.
THEOREM TypeCorrect == Spec => []TypeOK
<1>1. Spec => []IInv
  BY InitIInv, NextIInv, PTL DEF Spec
<1>2. IInv => TypeOK
  BY DEF IInv
<1> QED BY <1>1, <1>2, PTL

\* At most one active lease per workspace.
THEOREM MutualExclusion == Spec => []OneActiveLeasePerWorkspace
<1>1. Spec => []IInv
  BY InitIInv, NextIInv, PTL DEF Spec
<1>2. IInv => OneActiveLeasePerWorkspace
  BY DEF IInv
<1> QED BY <1>1, <1>2, PTL

\* No lease is released under a run the journal still holds open.
THEOREM NoReleaseUnderOpenRun == Spec => []OpenRunHoldsItsLease
<1>1. Spec => []IInv
  BY InitIInv, NextIInv, PTL DEF Spec
<1>2. IInv => OpenRunHoldsItsLease
  BY DEF IInv
<1> QED BY <1>1, <1>2, PTL

\* Two open leased runs in one workspace are of one workflow: each holds its
\* lease, both leases are on that workspace, and only one can be active.
THEOREM ExclusiveWorkspaces == Spec => []NoTwoWorkflowsInOneWorkspace
<1>1. Spec => []IInv
  BY InitIInv, NextIInv, PTL DEF Spec
<1>2. IInv => NoTwoWorkflowsInOneWorkspace
  <2> SUFFICES ASSUME IInv, NEW r1 \in Runs, NEW r2 \in Runs,
                      bound[r1] # NoLease, ~recorded[r1],
                      bound[r2] # NoLease, ~recorded[r2],
                      key[r1] = key[r2]
               PROVE  bound[r1] = bound[r2]
    BY DEF NoTwoWorkflowsInOneWorkspace
  <2>1. bound[r1] \in Leases /\ bound[r2] \in Leases
    BY DEF IInv, TypeOK
  <2>2. lease[bound[r1]] = "active" /\ lease[bound[r2]] = "active"
    BY DEF IInv, OpenRunHoldsItsLease
  <2>3. bound[r1][2] = bound[r2][2]
    BY DEF IInv, BoundInOwnWorkspace
  <2> QED BY <2>1, <2>2, <2>3 DEF IInv, OneActiveLeasePerWorkspace
<1> QED BY <1>1, <1>2, PTL

-----------------------------------------------------------------------------
(***************************************************************************)
(* A run on the node (LocalRun), which writes under the lease it presents: *)
(* for every set of scenarios that satisfies LocalRun's assumption, chains *)
(* of any length, and any number of stops.                                 *)
(***************************************************************************)
CONSTANTS Scenarios, MaxStops
VARIABLES rec, pend, turn, sandbox, timedOut, seen, outcome, switched, doomed, presented, stops, follow

Run == INSTANCE LocalRun WITH lease <- presented

\* Where a process is, or goes on once it has written the record.
Heading(p) == IF pc[p] = "writing" THEN pend[p].then ELSE pc[p]
Sup == Heading("sup")

\* Before the gate of a turn has decided; a supervisor that is done.
Early == {"off", "boot", "announce", "preauth", "repo_gate", "verifier", "turn", "codex_gate"}
Done == {"end", "dead"}

\* The places and the events there are.
Places == Early \cup Done \cup
  {"none", "writing", "write_queued", "clone", "launch", "mark_running", "idle", "kill", "emit", "record",
    "adapter", "spawn",
   "await", "closing", "closed", "check_stopped", "verify", "finalize", "emit_failed", "emit_completed"}
Events == Run!Terminal \cup {"running"}

\* The types the proof needs.
Shape ==
  /\ Len(Run!Chain(scn)) \in Nat /\ turn \in Run!Turns
  /\ pc \in [Run!Procs -> Places]
  /\ pend = [p \in Run!Procs |-> pend[p]] /\ \A p \in Run!Procs : pend[p].then \in Places
     /\ pend[p].then \notin {"writing", "off"}
  /\ log \in Seq(Events)
  /\ child \in [Run!Turns -> {"none", "live", "ok", "bad"}]
  /\ launched \in [Run!Turns -> {"none", "bypass", "workspace-write", "read-only", "ask"}]
  /\ presented \in Run!Leases /\ turnLease \in [Run!Turns -> Run!Leases]

\* The write permission of a turn is decided in it, under a lease that was active when it began.
GateKnows ==
  /\ sandbox = "workspace-write" => scn.write /\ turnLease[turn] = "active_match"
  /\ Sup \in Early => sandbox = "unset"
  /\ Sup = "codex_gate" /\ presented = "active_match" => turnLease[turn] = "active_match"
  /\ \A i \in Run!Turns : i > turn \/ (i = turn /\ Sup \in Early) => launched[i] = "none"

\* One agent at a time, and nothing between the workspace check and the spawn.
SpawnKnows ==
  /\ \A i \in Run!Turns : child[i] = "live" => i = turn /\ Sup \in {"await", "dead"}
  /\ Sup = "spawn" /\ scn.repo # "none" => origin = "same"

\* Until a stop writes its event, a terminal event is the last one of a process that is done.
VerdictKnows ==
  /\ Heading("start") \in {"write_queued", "clone", "launch"} => Sup = "off"
  /\ Sup = "off" => 0 \notin doomed
  /\ (\A i \in DOMAIN log : log[i] # "stopped") =>
       \A i \in DOMAIN log : log[i] \in Run!Terminal =>
         i = Len(log) /\ (Sup \in Done \/ (Sup = "off" /\ Heading("start") = "end"))

\* WriteNeedsLease, of the turns.
Permitted ==
  \A i \in Run!Turns :
    /\ launched[i] = "workspace-write" => scn.write /\ turnLease[i] = "active_match"
    /\ launched[i] = "bypass" => scn.bypass

\* The inductive invariant of a local run.
RInv == Shape /\ GateKnows /\ SpawnKnows /\ VerdictKnows /\ Permitted

\* Before the run is recorded no process but the starting one is there.
LEMMA InitRInv == ASSUME Run!ScenariosAssumption, Run!Init PROVE RInv
<1>1. /\ scn \in Scenarios /\ scn.fallbacks \in Seq(Run!Agents)
      /\ scn \in Run!Scenario(scn.fallbacks)
  BY DEF Run!ScenariosAssumption, Run!Init
<1>2. scn.lease \in Run!Leases
  BY <1>1 DEF Run!Scenario
<1>3. Len(Run!Chain(scn)) \in Nat /\ turn \in Run!Turns
  BY <1>1 DEF Run!Chain, Run!Turns, Run!Init
<1>4. pc["start"] = "write_queued" /\ pc["sup"] = "off" /\ pc["stop"] = "idle" /\ pc \in [Run!Procs -> Places]
  BY DEF Run!Init, Run!Procs, Places, Early
<1>5. pend = [p \in Run!Procs |-> pend[p]] /\ \A p \in Run!Procs : pend[p].then = "none" /\ pend[p].then \in Places
  BY DEF Run!Init, Run!NoPend, Places
<1>6. log = <<>> /\ log \in Seq(Events)
  BY DEF Run!Init
<1>7. presented \in Run!Leases /\ turnLease \in [Run!Turns -> Run!Leases]
  BY <1>2 DEF Run!Init, Run!Leases
<1>8. child = [i \in Run!Turns |-> "none"] /\ launched = [i \in Run!Turns |-> "none"]
  BY DEF Run!Init
<1>9. Shape
  BY <1>3, <1>4, <1>5, <1>6, <1>7, <1>8 DEF Shape
<1>10. Sup = "off" /\ sandbox = "unset" /\ doomed = {}
  BY <1>4 DEF Run!Init, Sup, Heading
<1>11. GateKnows
  BY <1>8, <1>10 DEF GateKnows
<1>12. SpawnKnows /\ Permitted
  BY <1>8, <1>10 DEF SpawnKnows, Permitted
<1>13. VerdictKnows
  BY <1>6, <1>10 DEF VerdictKnows
<1> QED BY <1>9, <1>11, <1>12, <1>13 DEF RInv

\* updateRun, a change of place and the write of the record, as seen by where the processes head.
LEMMA Heads ==
  ASSUME Shape, NEW p \in Run!Procs, NEW l \in Places \ {"writing", "off"},
         \/ \E patch : Run!UpdateRun(p, patch, l)
         \/ Run!Goto(p, l) /\ UNCHANGED pend
  PROVE  /\ pc' \in [Run!Procs -> Places] /\ pend' = [q \in Run!Procs |-> pend'[q]]
         /\ \A q \in Run!Procs : pend'[q].then \in Places /\ pend'[q].then \notin {"writing", "off"}
         /\ Heading(p)' = l
         /\ \A q \in Run!Procs : q # p => Heading(q)' = Heading(q)
<1>1. pc \in [Run!Procs -> Places] /\ "writing" \in Places /\ pend = [q \in Run!Procs |-> pend[q]]
      /\ \A q \in Run!Procs : pend[q].then \in Places /\ pend[q].then \notin {"writing", "off"}
  BY DEF Shape, Places
<1>2. CASE \E patch : Run!UpdateRun(p, patch, l)
  <2>1. PICK patch : Run!UpdateRun(p, patch, l)
    BY <1>2
  <2>2. /\ \E r : pend' = [pend EXCEPT ![p] = [rec |-> r, then |-> l]]
        /\ pc' = [pc EXCEPT ![p] = "writing"]
    BY <2>1, Zenon DEF Run!UpdateRun
  <2>3. PICK r : pend' = [pend EXCEPT ![p] = [rec |-> r, then |-> l]]
    BY <2>2
  <2>4. pend'[p].then = l /\ pc'[p] = "writing" /\ \A q \in Run!Procs : q # p => pend'[q] = pend[q] /\ pc'[q] = pc[q]
    BY <1>1, <2>2, <2>3
  <2>5. pc' \in [Run!Procs -> Places] /\ pend' = [q \in Run!Procs |-> pend'[q]]
    BY <1>1, <2>2, <2>3
  <2> QED BY <1>1, <2>4, <2>5 DEF Heading
<1>3. CASE Run!Goto(p, l) /\ UNCHANGED pend
  <2>1. pc'[p] = l /\ pc' \in [Run!Procs -> Places] /\ \A q \in Run!Procs : q # p => pc'[q] = pc[q]
    BY <1>1, <1>3 DEF Run!Goto
  <2> QED BY <1>1, <1>3, <2>1 DEF Heading
<1> QED BY <1>2, <1>3

\* The write of the record leaves every process where it was heading.
LEMMA WriteKeeps ==
  ASSUME Shape, NEW p \in Run!Procs, Run!WriteRun(p)
  PROVE  /\ pc' \in [Run!Procs -> Places] /\ pend' = [q \in Run!Procs |-> pend'[q]]
         /\ \A q \in Run!Procs : pend'[q].then \in Places /\ pend'[q].then \notin {"writing", "off"}
         /\ \A q \in Run!Procs : Heading(q)' = Heading(q)
<1>1. pc \in [Run!Procs -> Places] /\ pend = [q \in Run!Procs |-> pend[q]]
      /\ \A q \in Run!Procs : pend[q].then \in Places /\ pend[q].then \notin {"writing", "off"}
  BY DEF Shape
<1>2. pc' = [pc EXCEPT ![p] = pend[p].then] /\ pend' = [pend EXCEPT ![p] = Run!NoPend] /\ pc[p] = "writing"
  BY DEF Run!WriteRun
<1>3. pc'[p] = Heading(p) /\ pend'[p].then = "none" /\ \A q \in Run!Procs : q # p => pc'[q] = pc[q]
        /\ pend'[q] = pend[q]
  BY <1>1, <1>2 DEF Run!NoPend, Heading
<1>4. pc' \in [Run!Procs -> Places] /\ pend' = [q \in Run!Procs |-> pend'[q]] /\ "none" \in Places
  BY <1>1, <1>2 DEF Places
<1>5. Heading(p)' = Heading(p)
  BY <1>1, <1>2, <1>3 DEF Heading
<1> QED BY <1>1, <1>3, <1>4, <1>5 DEF Heading

\* What a change of place leaves alone.
still == <<scn, log, turn, sandbox, child, launched, doomed, presented, origin, turnLease>>

\* A supervisor that is at work goes on, with nothing else changed.
LEMMA SupMoves ==
  ASSUME RInv, NEW l \in Places \ {"writing", "off", "codex_gate", "spawn"},
         (\E patch : Run!UpdateRun("sup", patch, l)) \/ (Run!Goto("sup", l) /\ UNCHANGED pend),
         UNCHANGED still, Sup \notin {"off"} \cup Done,
         l \in Early => Sup \in Early, Sup = "await" => child[turn] # "live"
  PROVE  RInv'
<1>0. "sup" \in Run!Procs /\ "start" \in Run!Procs /\ Shape
  BY DEF Run!Procs, RInv
<1>1. /\ pc' \in [Run!Procs -> Places] /\ pend' = [q \in Run!Procs |-> pend'[q]]
      /\ \A q \in Run!Procs : pend'[q].then \in Places /\ pend'[q].then \notin {"writing", "off"}
      /\ Heading("sup")' = l
      /\ Heading("start")' = Heading("start")
  BY <1>0, Heads
<1>2. Sup' = l /\ Run!Turns' = Run!Turns /\ Run!Chain(scn)' = Run!Chain(scn)
  BY <1>1 DEF Sup, Run!Turns, still, Run!Chain, Run!SelectRunner
<1>3. Shape'
  BY <1>1, <1>2 DEF RInv, Shape, still
<1>4. GateKnows'
  BY <1>2 DEF RInv, GateKnows, still
<1>5. SpawnKnows' /\ Permitted'
  BY <1>2 DEF RInv, SpawnKnows, Permitted, still, Done
<1>6. VerdictKnows'
  BY <1>1, <1>2 DEF RInv, VerdictKnows, still
<1> QED BY <1>3, <1>4, <1>5, <1>6 DEF RInv

\* The supervisor's steps that only go on.
LEMMA SupGoesOn ==
  ASSUME RInv,
         \/ Run!SupBoot \/ Run!PreauthGate \/ Run!PreauthRefuses \/ Run!RepoGate \/ Run!RepoGateRefuses
         \/ Run!VerifierGate \/ Run!VerifierRefuses \/ Run!NoAdapter \/ Run!CodexGateDenies
         \/ Run!MockCompletes \/ Run!MockFails \/ Run!ExecRefused \/ Run!AdapterThrows \/ Run!SpawnFails
         \/ Run!ExecClose \/ Run!ExecClearsChild \/ Run!ExecResolves \/ Run!SupYieldsToStop \/ Run!SupCompletes
         \/ Run!VerifierLost \/ Run!VerifierRuns \/ Run!Finalize \/ Run!SupFailsForGood
  PROVE  RInv'
<1> USE DEF Sup, Heading, Places, Early, Done
<1>1. CASE Run!SupBoot
  BY <1>1, SupMoves DEF Run!SupBoot, still, Run!files, Run!supvars, Run!procs, Run!world
<1>2. CASE Run!PreauthRefuses \/ Run!RepoGateRefuses \/ Run!VerifierRefuses \/ Run!NoAdapter
             \/ Run!CodexGateDenies \/ Run!VerifierLost
  <2>1. Run!SupFails /\ pc["sup"] \in {"preauth", "repo_gate", "verifier", "turn", "codex_gate", "verify"}
    BY <1>2 DEF Run!PreauthRefuses, Run!RepoGateRefuses, Run!VerifierRefuses, Run!NoAdapter, Run!CodexGateDenies,
                Run!VerifierLost
  <2>2. UNCHANGED still /\ \E patch : Run!UpdateRun("sup", patch, "emit_failed")
    BY <2>1 DEF Run!SupFails, still, Run!files, Run!supvars, Run!procs, Run!world
  <2> QED BY <2>1, <2>2, SupMoves
<1>3. CASE Run!PreauthGate \/ Run!RepoGate \/ Run!VerifierGate \/ Run!SupYieldsToStop \/ Run!SupCompletes
             \/ Run!VerifierRuns
  <2>1. PICK l \in {"repo_gate", "verifier", "turn", "end", "verify", "finalize"} :
          /\ Run!SupPasses(l)
          /\ pc["sup"] \in {"preauth", "repo_gate", "verifier", "check_stopped", "verify"}
          /\ l \in Early => pc["sup"] \in Early
    BY <1>3 DEF Run!PreauthGate, Run!RepoGate, Run!VerifierGate, Run!SupYieldsToStop, Run!SupCompletes,
                Run!VerifierRuns
  <2>2. UNCHANGED still /\ Run!Goto("sup", l) /\ UNCHANGED pend
    BY <2>1 DEF Run!SupPasses, still, Run!files, Run!supvars, Run!procs, Run!world
  <2> QED BY <2>1, <2>2, SupMoves
<1>4. CASE Run!MockCompletes \/ Run!MockFails \/ Run!ExecRefused \/ Run!AdapterThrows \/ Run!SpawnFails
             \/ Run!ExecResolves
  <2>1. pc["sup"] \in {"adapter", "spawn", "closed"} /\ UNCHANGED still /\ Run!Goto("sup", "check_stopped")
          /\ UNCHANGED pend
    BY <1>4 DEF Run!MockCompletes, Run!MockFails, Run!ExecRefused, Run!AdapterThrows, Run!SpawnFails,
                Run!ExecResolves, Run!Resolve,
                still, Run!files, Run!procs, Run!world
  <2> QED BY <2>1, SupMoves
<1>5. CASE Run!ExecClose
  <2>1. pc["sup"] = "await" /\ child[turn] # "live" /\ UNCHANGED still /\ Run!Goto("sup", "closing") /\ UNCHANGED pend
    BY <1>5 DEF Run!ExecClose, still, Run!files, Run!supvars, Run!procs, Run!world
  <2> QED BY <2>1, SupMoves
<1>6. CASE Run!ExecClearsChild \/ Run!Finalize \/ Run!SupFailsForGood
  <2>1. PICK l \in {"closed", "emit_completed", "emit_failed"} : \E patch : Run!UpdateRun("sup", patch, l)
    BY <1>6, Zenon DEF Run!ExecClearsChild, Run!Finalize, Run!SupFailsForGood
  <2>2. pc["sup"] \in {"closing", "finalize", "check_stopped"} /\ UNCHANGED still
    BY <1>6, Zenon DEF Run!ExecClearsChild, Run!Finalize, Run!SupFailsForGood, still, Run!files, Run!supvars,
                       Run!procs, Run!world
  <2> QED BY <2>1, <2>2, SupMoves
<1> QED BY <1>1, <1>2, <1>3, <1>4, <1>5, <1>6

\* So the write that ends an updateRun preserves the invariant.
LEMMA RecordWritten ==
  ASSUME RInv, NEW p \in Run!Procs, Run!WriteRun(p)
  PROVE  RInv'
<1>0. "sup" \in Run!Procs /\ "start" \in Run!Procs /\ Shape
  BY DEF Run!Procs, RInv
<1>1. /\ pc' \in [Run!Procs -> Places] /\ pend' = [q \in Run!Procs |-> pend'[q]]
      /\ \A q \in Run!Procs : pend'[q].then \in Places /\ pend'[q].then \notin {"writing", "off"}
      /\ \A q \in Run!Procs : Heading(q)' = Heading(q)
  BY <1>0, WriteKeeps
<1>2. UNCHANGED still
  BY DEF Run!WriteRun, Run!supvars, Run!procs, Run!world, still
<1>3. Sup' = Sup /\ Heading("start")' = Heading("start") /\ Run!Turns' = Run!Turns /\ Run!Chain(scn)' = Run!Chain(scn)
  BY <1>0, <1>1, <1>2 DEF Sup, Run!Turns, still, Run!Chain, Run!SelectRunner
<1>4. Shape'
  BY <1>1, <1>2, <1>3 DEF RInv, Shape, still
<1>5. GateKnows' /\ SpawnKnows' /\ Permitted'
  BY <1>2, <1>3 DEF RInv, GateKnows, SpawnKnows, Permitted, still
<1>6. VerdictKnows'
  BY <1>2, <1>3 DEF RInv, VerdictKnows, still
<1> QED BY <1>4, <1>5, <1>6 DEF RInv

\* The starting process: the supervisor is not there yet, or is launched.
LEMMA StartGoesOn ==
  ASSUME RInv, Run!StartWrites \/ Run!StartClones \/ Run!StartCloneFails \/ Run!StartNoBackend
         \/ Run!LaunchSupervisor \/ Run!StartMarksRunning
  PROVE  RInv'
<1>0. "sup" \in Run!Procs /\ "start" \in Run!Procs /\ Shape /\ "sup" # "start"
  BY DEF Run!Procs, RInv
<1>1. UNCHANGED <<scn, turn, sandbox, child, launched, doomed, presented, turnLease>>
  BY Zenon DEF Run!StartWrites, Run!StartClones, Run!StartCloneFails, Run!StartNoBackend, Run!LaunchSupervisor,
               Run!StartMarksRunning,
         Run!supvars, Run!procs, Run!world
<1>2. Run!Turns' = Run!Turns /\ Run!Chain(scn)' = Run!Chain(scn)
  BY <1>1 DEF Run!Turns, Run!Chain, Run!SelectRunner
<1>3. CASE Run!LaunchSupervisor
  <2>1. pc["start"] = "launch" /\ pc' = [pc EXCEPT !["start"] = "mark_running", !["sup"] = "boot"]
          /\ UNCHANGED <<pend, log, origin>>
    BY <1>3 DEF Run!LaunchSupervisor, Run!files, Run!world
  <2>2. pc' \in [Run!Procs -> Places] /\ pc'["start"] = "mark_running" /\ pc'["sup"] = "boot"
    BY <1>0, <2>1 DEF Shape, Places, Early
  <2>3. Sup = "off" /\ Heading("start") = "launch"
    BY <2>1 DEF RInv, VerdictKnows, Heading
  <2>4. Sup' = "boot" /\ Heading("start")' = "mark_running"
    BY <2>2 DEF Sup, Heading
  <2>5. Shape'
    BY <1>1, <1>2, <2>1, <2>2 DEF RInv, Shape
  <2>6. GateKnows'
    BY <1>1, <1>2, <2>3, <2>4 DEF RInv, GateKnows, Early
  <2>7. SpawnKnows' /\ Permitted'
    BY <1>1, <1>2, <2>3, <2>4 DEF RInv, SpawnKnows, Permitted
  <2>8. VerdictKnows'
    BY <2>1, <2>3, <2>4 DEF RInv, VerdictKnows, Done
  <2> QED BY <2>5, <2>6, <2>7, <2>8 DEF RInv
<1>4. CASE Run!StartWrites \/ Run!StartClones \/ Run!StartCloneFails \/ Run!StartNoBackend \/ Run!StartMarksRunning
  <2>1. pc["start"] \in {"write_queued", "clone", "launch", "mark_running"}
    BY <1>4, Zenon DEF Run!StartWrites, Run!StartClones, Run!StartCloneFails, Run!StartNoBackend,
                       Run!StartMarksRunning
  <2>2. PICK l \in {"clone", "launch", "end"} :
          /\ (\E patch : Run!UpdateRun("start", patch, l)) \/ (Run!Goto("start", l) /\ UNCHANGED pend)
          /\ pc["start"] = "mark_running" => l = "end"
          /\ pc["start"] = "write_queued" => l = "clone"
    BY <1>4, Zenon DEF Run!StartWrites, Run!StartClones, Run!StartCloneFails, Run!StartNoBackend,
                       Run!StartMarksRunning, Run!files
  <2>3. /\ pc' \in [Run!Procs -> Places] /\ pend' = [q \in Run!Procs |-> pend'[q]]
        /\ \A q \in Run!Procs : pend'[q].then \in Places /\ pend'[q].then \notin {"writing", "off"}
        /\ Heading("start")' = l /\ Heading("sup")' = Heading("sup")
    <3>1. l \in Places \ {"writing", "off"}
      BY DEF Places, Done
    <3> QED BY <1>0, <2>2, <3>1, Heads
  <2>4. Sup' = Sup /\ Heading("start") = pc["start"]
    BY <2>1, <2>3 DEF Sup, Heading
  <2>5. /\ log' = log \/ (log' = log \o <<"failed">> /\ pc["start"] = "clone" /\ l = "end")
        /\ origin' = origin \/ origin' = "same"
    <3>1. CASE Run!StartWrites \/ Run!StartNoBackend \/ Run!StartMarksRunning
      BY <3>1, Zenon DEF Run!StartWrites, Run!StartNoBackend, Run!StartMarksRunning, Run!files, Run!world
    <3>2. CASE Run!StartClones
      BY <3>2 DEF Run!StartClones, Run!files
    <3>3. CASE Run!StartCloneFails
      <4>1. log' = log \o <<"failed">> /\ pc["start"] = "clone" /\ origin' = origin /\ Run!UpdateRun("start",
              [status |-> "failed"], "end")
        BY <3>3, Zenon DEF Run!StartCloneFails, Run!AppendEvents, Run!world
      <4>2. Heading("start")' = "end"
        <5>1. "end" \in Places \ {"writing", "off"}
          BY DEF Places, Done
        <5>2. \E patch : Run!UpdateRun("start", patch, "end")
          BY <4>1, Zenon
        <5> QED BY <1>0, <5>1, <5>2, Heads
      <4> QED BY <2>3, <4>1, <4>2
    <3> QED BY <1>4, <3>1, <3>2, <3>3
  <2>6. "failed" \in Events /\ log \in Seq(Events)
    BY <1>0 DEF Shape, Events, Run!Terminal
  <2>7. log' \in Seq(Events)
    BY <2>5, <2>6
  <2>8. Shape'
    BY <1>1, <1>2, <2>3, <2>7 DEF RInv, Shape
  <2>9. GateKnows'
    BY <1>1, <1>2, <2>4 DEF RInv, GateKnows
  <2>10. SpawnKnows' /\ Permitted'
    BY <1>1, <1>2, <2>4, <2>5 DEF RInv, SpawnKnows, Permitted
  <2>11. VerdictKnows'
    <3>1. (l # "end" => Sup = "off") /\ (pc["start"] = "clone" => Sup = "off")
      BY <2>1, <2>2, <2>4 DEF RInv, VerdictKnows
    <3>2. CASE log' = log
      BY <1>1, <2>1, <2>3, <2>4, <3>1, <3>2 DEF RInv, VerdictKnows
    <3>3. CASE log' = log \o <<"failed">> /\ pc["start"] = "clone" /\ l = "end"
      <4>1. /\ Len(log') = Len(log) + 1 /\ DOMAIN log' = 1 .. Len(log) + 1 /\ DOMAIN log = 1 .. Len(log)
               /\ Len(log) \in Nat
            /\ \A i \in DOMAIN log : log'[i] = log[i]
        BY <2>6, <3>3
      <4>2. (\A i \in DOMAIN log : log[i] # "stopped") => \A i \in DOMAIN log : log[i] \notin Run!Terminal
        BY <2>4, <3>1, <3>3 DEF RInv, VerdictKnows, Done
      <4> QED BY <1>1, <2>3, <2>4, <3>1, <3>3, <4>1, <4>2 DEF RInv, VerdictKnows
    <3> QED BY <2>5, <3>2, <3>3
  <2> QED BY <2>8, <2>9, <2>10, <2>11 DEF RInv
<1> QED BY <1>3, <1>4

\* The supervisor's events: it announces itself, and it gives its verdict when it is done.
LEMMA SupSpeaks ==
  ASSUME RInv, Run!SupAnnounces \/ Run!SupEmits
  PROVE  RInv'
<1>0. "sup" \in Run!Procs /\ "start" \in Run!Procs /\ Shape /\ "sup" # "start"
  BY DEF Run!Procs, RInv
<1>1. PICK l \in {"preauth", "end"}, x \in Events :
        /\ Run!Goto("sup", l) /\ log' = log \o <<x>>
        /\ l = "preauth" => pc["sup"] = "announce" /\ x \notin Run!Terminal
        /\ l = "end" => pc["sup"] \in {"emit_failed", "emit_completed"}
  BY DEF Run!SupAnnounces, Run!SupEmits, Run!AppendEvents, Events, Run!Terminal
<1>2. UNCHANGED <<scn, pend, turn, sandbox, child, launched, doomed, presented, origin, turnLease>>
  BY DEF Run!SupAnnounces, Run!SupEmits, Run!supvars, Run!procs, Run!world
<1>3. l \in Places \ {"writing", "off"}
  BY DEF Places, Done, Early
<1>4. /\ pc' \in [Run!Procs -> Places] /\ pend' = [q \in Run!Procs |-> pend'[q]]
      /\ \A q \in Run!Procs : pend'[q].then \in Places /\ pend'[q].then \notin {"writing", "off"}
      /\ Heading("sup")' = l /\ Heading("start")' = Heading("start")
  BY <1>0, <1>1, <1>2, <1>3, Heads
<1>5. Sup' = l /\ Run!Turns' = Run!Turns /\ Run!Chain(scn)' = Run!Chain(scn)
  BY <1>2, <1>4 DEF Sup, Run!Turns, Run!Chain, Run!SelectRunner
<1>6. Sup = pc["sup"]
  BY <1>1 DEF Sup, Heading
<1>7. log \in Seq(Events) /\ log' \in Seq(Events)
  BY <1>0, <1>1 DEF Shape
<1>8. Shape'
  BY <1>2, <1>4, <1>5, <1>7 DEF RInv, Shape
<1>9. GateKnows'
  BY <1>1, <1>2, <1>5, <1>6 DEF RInv, GateKnows, Early
<1>10. SpawnKnows' /\ Permitted'
  BY <1>1, <1>2, <1>5, <1>6 DEF RInv, SpawnKnows, Permitted
<1>11. VerdictKnows'
  <2>1. Sup \notin {"off"} \cup Done
    BY <1>1, <1>6 DEF Done
  <2>2. (\A i \in DOMAIN log : log[i] # "stopped") => \A i \in DOMAIN log : log[i] \notin Run!Terminal
    BY <2>1 DEF RInv, VerdictKnows
  <2>3. /\ Len(log') = Len(log) + 1 /\ DOMAIN log' = 1 .. Len(log) + 1 /\ DOMAIN log = 1 .. Len(log)
           /\ Len(log) \in Nat
        /\ \A i \in DOMAIN log : log'[i] = log[i]
        /\ log'[Len(log) + 1] = x
    BY <1>1, <1>7
  <2>4. (\A i \in DOMAIN log' : log'[i] # "stopped") =>
          \A i \in DOMAIN log' : log'[i] \in Run!Terminal => i = Len(log') /\ l = "end"
    <3> SUFFICES ASSUME \A i \in DOMAIN log' : log'[i] # "stopped", NEW i \in DOMAIN log', log'[i] \in Run!Terminal
                 PROVE  i = Len(log') /\ l = "end"
      OBVIOUS
    <3>1. \A k \in DOMAIN log : log[k] # "stopped"
      BY <2>3
    <3>2. i \notin DOMAIN log
      BY <2>2, <2>3, <3>1
    <3> QED BY <1>1, <2>3, <3>2
  <2> QED BY <1>2, <1>4, <1>5, <2>1, <2>4 DEF RInv, VerdictKnows, Done
<1> QED BY <1>8, <1>9, <1>10, <1>11 DEF RInv

\* The steps of a turn that decide something: its lease, its permission, its workspace, its process,
\* and the switch to the next agent.
LEMMA TurnGoesOn ==
  ASSUME RInv, Run!BeginTurn \/ Run!CodexGate \/ Run!ExecClones \/ Run!Spawn \/ Run!SupSwitches
  PROVE  RInv'
<1>0. "sup" \in Run!Procs /\ "start" \in Run!Procs /\ Shape /\ "sup" # "start"
  BY DEF Run!Procs, RInv
<1>1. UNCHANGED <<scn, log, doomed, presented>> /\ Run!Turns' = Run!Turns /\ Run!Chain(scn)' = Run!Chain(scn)
  <2>1. UNCHANGED <<scn, log, doomed, presented>>
    BY Zenon DEF Run!BeginTurn, Run!CodexGate, Run!ExecClones, Run!Spawn, Run!SupSwitches, Run!files, Run!procs,
                 Run!world
  <2> QED BY <2>1 DEF Run!Turns, Run!Chain, Run!SelectRunner
<1>2. PICK l \in {"codex_gate", "adapter", "spawn", "await", "turn"} :
          /\ (\E patch : Run!UpdateRun("sup", patch, l)) \/ (Run!Goto("sup", l) /\ UNCHANGED pend)
          /\ Run!BeginTurn => l \in {"codex_gate", "adapter"}
          /\ Run!CodexGate => l = "adapter"
          /\ Run!ExecClones => l = "spawn"
          /\ Run!Spawn => l = "await"
          /\ Run!SupSwitches => l = "turn"
  <2>1. CASE Run!BeginTurn
    BY <2>1, Zenon DEF Run!BeginTurn, Run!CodexGate, Run!ExecClones, Run!Spawn, Run!SupSwitches
  <2>2. CASE Run!CodexGate
    BY <2>2, Zenon DEF Run!BeginTurn, Run!CodexGate, Run!ExecClones, Run!Spawn, Run!SupSwitches
  <2>3. CASE Run!ExecClones
    BY <2>3, Zenon DEF Run!BeginTurn, Run!CodexGate, Run!ExecClones, Run!Spawn, Run!SupSwitches
  <2>4. CASE Run!Spawn
    BY <2>4, Zenon DEF Run!BeginTurn, Run!CodexGate, Run!ExecClones, Run!Spawn, Run!SupSwitches
  <2>5. CASE Run!SupSwitches
    BY <2>5, Zenon DEF Run!BeginTurn, Run!CodexGate, Run!ExecClones, Run!Spawn, Run!SupSwitches
  <2> QED BY <2>1, <2>2, <2>3, <2>4, <2>5
<1>3. l \in Places \ {"writing", "off"}
  BY DEF Places, Early
<1>4. /\ pc' \in [Run!Procs -> Places] /\ pend' = [q \in Run!Procs |-> pend'[q]]
      /\ \A q \in Run!Procs : pend'[q].then \in Places /\ pend'[q].then \notin {"writing", "off"}
      /\ Heading("sup")' = l /\ Heading("start")' = Heading("start")
  BY <1>0, <1>2, <1>3, Heads
<1>5. Sup' = l
  BY <1>4 DEF Sup
<1>6. /\ Run!BeginTurn => Sup = "turn"
      /\ Run!CodexGate => Sup = "codex_gate"
      /\ Run!ExecClones => Sup = "adapter"
      /\ Run!Spawn => Sup = "spawn"
      /\ Run!SupSwitches => Sup = "check_stopped"
  BY Zenon DEF Run!BeginTurn, Run!CodexGate, Run!ExecClones, Run!Spawn, Run!SupSwitches, Sup, Heading
<1>7. ASSUME Shape', GateKnows', SpawnKnows', Permitted' PROVE RInv'
  <2>1. Sup \notin {"off"} \cup Done /\ l \notin {"off"} \cup Done
    BY <1>6 DEF Done
  <2>2. VerdictKnows'
    BY <1>1, <1>4, <1>5, <2>1 DEF RInv, VerdictKnows
  <2> QED BY <1>7, <2>2 DEF RInv
<1>8. CASE Run!BeginTurn
  <2>1. turnLease' = [turnLease EXCEPT ![turn] = presented] /\ UNCHANGED <<turn, sandbox, child, launched, origin>>
    BY <1>8 DEF Run!BeginTurn, Run!procs, Run!world
  <2>2. turnLease'[turn] = presented /\ turnLease' \in [Run!Turns -> Run!Leases]
          /\ \A i \in Run!Turns : i # turn => turnLease'[i] = turnLease[i]
    BY <1>0, <2>1 DEF Shape
  <2>3. Shape'
    BY <1>1, <1>4, <2>1, <2>2 DEF RInv, Shape
  <2>4. GateKnows'
    BY <1>1, <1>2, <1>5, <1>6, <1>8, <2>1, <2>2 DEF RInv, GateKnows, Early
  <2>5. SpawnKnows'
    BY <1>1, <1>2, <1>5, <1>6, <1>8, <2>1 DEF RInv, SpawnKnows
  <2>6. Permitted'
    BY <1>1, <1>6, <1>8, <2>1, <2>2 DEF RInv, Permitted, GateKnows, Early
  <2> QED BY <1>7, <2>3, <2>4, <2>5, <2>6
<1>9. CASE Run!CodexGate
  <2>1. sandbox' = Run!ResolveCodexSandbox /\ UNCHANGED <<turn, child, launched, origin, turnLease>>
    BY <1>9 DEF Run!CodexGate, Run!procs, Run!world
  <2>2. sandbox' = "workspace-write" => scn.write /\ presented = "active_match"
    BY <2>1 DEF Run!ResolveCodexSandbox, Run!LeaseState
  <2>3. Shape'
    BY <1>1, <1>4, <2>1 DEF RInv, Shape
  <2>4. GateKnows'
    BY <1>1, <1>2, <1>5, <1>6, <1>9, <2>1, <2>2 DEF RInv, GateKnows, Early
  <2>5. SpawnKnows' /\ Permitted'
    BY <1>1, <1>2, <1>5, <1>6, <1>9, <2>1 DEF RInv, SpawnKnows, Permitted
  <2> QED BY <1>7, <2>3, <2>4, <2>5
<1>10. CASE Run!ExecClones
  <2>1. /\ UNCHANGED <<turn, sandbox, child, launched, turnLease>>
        /\ scn.repo # "none" => origin' = "same"
    BY <1>10 DEF Run!ExecClones, Run!supvars, Run!procs, Run!CloneIfEmpty, Run!CheckWorkspaceRepoMatch
  <2>2. Shape'
    BY <1>1, <1>4, <2>1 DEF RInv, Shape
  <2>3. GateKnows'
    BY <1>1, <1>2, <1>5, <1>6, <1>10, <2>1 DEF RInv, GateKnows, Early
  <2>4. SpawnKnows' /\ Permitted'
    BY <1>1, <1>2, <1>5, <1>6, <1>10, <2>1 DEF RInv, SpawnKnows, Permitted
  <2> QED BY <1>7, <2>2, <2>3, <2>4
<1>11. CASE Run!Spawn
  <2>1. PICK how \in {"bypass", "workspace-write", "read-only", "ask"} :
          /\ launched' = [launched EXCEPT ![turn] = how]
          /\ how = "workspace-write" => sandbox = "workspace-write"
          /\ how = "bypass" => scn.bypass
    <3>1. launched' = [launched EXCEPT ![turn] = IF Run!Agent = "codex" THEN Run!CodexArgs ELSE Run!ClaudeArgs]
      BY <1>11, Zenon DEF Run!Spawn
    <3> QED BY <3>1 DEF Run!CodexArgs, Run!ClaudeArgs
  <2>2. child' = [child EXCEPT ![turn] = "live"] /\ UNCHANGED <<turn, sandbox, origin, turnLease>>
    BY <1>11, Zenon DEF Run!Spawn, Run!world
  <2>3. /\ \A i \in Run!Turns : launched'[i] = IF i = turn THEN how ELSE launched[i]
        /\ \A i \in Run!Turns : child'[i] = IF i = turn THEN "live" ELSE child[i]
        /\ turn \in Run!Turns /\ Run!Turns \subseteq Nat
    BY <1>0, <2>1, <2>2 DEF Shape, Run!Turns
  <2>4. Shape'
    BY <1>1, <1>4, <2>1, <2>2 DEF RInv, Shape
  <2>5. GateKnows'
    <3>1. l = "await" /\ l \notin Early
      BY <1>2, <1>11 DEF Early
    <3> QED BY <1>1, <1>5, <2>2, <2>3, <3>1 DEF RInv, GateKnows
  <2>6. SpawnKnows'
    BY <1>1, <1>2, <1>5, <1>6, <1>11, <2>2, <2>3 DEF RInv, SpawnKnows
  <2>7. Permitted'
    BY <1>1, <2>1, <2>2, <2>3 DEF RInv, Permitted, GateKnows
  <2> QED BY <1>7, <2>4, <2>5, <2>6, <2>7
<1>12. CASE Run!SupSwitches
  <2>1. /\ sandbox' = "unset" /\ turn' = turn + 1 /\ turn < Len(Run!Chain(scn))
        /\ UNCHANGED <<child, launched, origin, turnLease>>
    BY <1>12, Zenon DEF Run!SupSwitches, Run!WillSwitch, Run!files, Run!procs, Run!world
  <2>2. turn' \in Run!Turns /\ turn \in Nat /\ Run!Turns \subseteq Nat
    BY <1>0, <2>1 DEF Shape, Run!Turns
  <2>3. Shape'
    BY <1>1, <1>4, <2>1, <2>2 DEF RInv, Shape
  <2>4. GateKnows'
    BY <1>1, <1>2, <1>5, <1>12, <2>1, <2>2 DEF RInv, GateKnows
  <2>5. SpawnKnows' /\ Permitted'
    BY <1>1, <1>2, <1>5, <1>6, <1>12, <2>1 DEF RInv, SpawnKnows, Permitted
  <2> QED BY <1>7, <2>3, <2>4, <2>5
<1> QED BY <1>8, <1>9, <1>10, <1>11, <1>12

\* A stop, the operating system, the agents and a client that follows: none of them moves the
\* supervisor, except by ending it.
LEMMA OthersGoOn ==
  ASSUME RInv,
         \/ Run!ExecTimeout \/ (\E remote \in BOOLEAN : Run!StopReads(remote)) \/ Run!StopKills
            \/ Run!StopEmits \/ Run!StopRecords \/ Run!SupDies
         \/ (\E i \in Run!Turns : Run!ChildExits(i)) \/ (\E i \in Run!Turns : Run!ChildRetargets(i))
         \/ Run!LeaseReleased \/ Run!StreamFlush \/ UNCHANGED Run!vars
  PROVE  RInv'
<1>0. "sup" \in Run!Procs /\ "start" \in Run!Procs /\ "stop" \in Run!Procs /\ Shape /\ "sup" # "start"
        /\ "sup" # "stop" /\ "start" # "stop"
  BY DEF Run!Procs, RInv
<1>1. UNCHANGED <<scn, turn, sandbox, launched, turnLease>>
  BY Zenon DEF Run!ExecTimeout, Run!StopReads, Run!StopKills, Run!StopEmits, Run!StopRecords, Run!SupDies,
               Run!ChildExits, Run!ChildRetargets,
               Run!LeaseReleased, Run!StreamFlush, Run!vars, Run!supvars, Run!procs
<1>2. Run!Turns' = Run!Turns /\ Run!Chain(scn)' = Run!Chain(scn)
  BY <1>1 DEF Run!Turns, Run!Chain, Run!SelectRunner
<1>3. CASE Run!SupDies
  <2>1. PICK l \in Done : Run!Goto("sup", l) /\ (pc["sup"] = "end" <=> l = "end")
    BY <1>3 DEF Run!SupDies, Done
  <2>2. pend' = [pend EXCEPT !["sup"] = Run!NoPend] /\ UNCHANGED <<log, child, presented, origin>>
          /\ doomed' = doomed \ {0} /\ 0 \in doomed
    BY <1>3 DEF Run!SupDies, Run!files, Run!world
  <2>3. /\ pc' \in [Run!Procs -> Places] /\ pc'["sup"] = l /\ pc'["start"] = pc["start"]
        /\ l \in Places /\ l # "writing"
    BY <1>0, <2>1 DEF Run!Goto, Shape, Places, Done
  <2>4. /\ pend' = [q \in Run!Procs |-> pend'[q]] /\ pend'["start"] = pend["start"]
        /\ \A q \in Run!Procs : pend'[q].then \in Places /\ pend'[q].then \notin {"writing", "off"}
    BY <1>0, <2>2 DEF Shape, Run!NoPend, Places
  <2>5. Sup' = l /\ Heading("start")' = Heading("start") /\ Sup # "off"
    BY <2>2, <2>3, <2>4 DEF Sup, Heading, RInv, VerdictKnows
  <2>6. Shape'
    BY <1>1, <1>2, <2>2, <2>3, <2>4 DEF RInv, Shape
  <2>7. GateKnows' /\ Permitted'
    BY <1>1, <1>2, <2>2, <2>5 DEF RInv, GateKnows, Permitted, Early, Done
  <2>8. SpawnKnows'
    <3>1. l = "end" => Sup = "end"
      BY <2>1 DEF Sup, Heading
    <3> QED BY <1>1, <1>2, <2>2, <2>5, <3>1 DEF RInv, SpawnKnows, Done
  <2>9. VerdictKnows'
    BY <2>2, <2>5 DEF RInv, VerdictKnows, Done
  <2> QED BY <2>6, <2>7, <2>8, <2>9 DEF RInv
<1>4. ASSUME pc' \in [Run!Procs -> Places], pend' = [q \in Run!Procs |-> pend'[q]],
             \A q \in Run!Procs : pend'[q].then \in Places /\ pend'[q].then \notin {"writing", "off"},
             Heading("sup")' = Heading("sup"), Heading("start")' = Heading("start"),
             log' \in Seq(Events), child' \in [Run!Turns -> {"none", "live", "ok", "bad"}],
               presented' \in {presented, "inactive"},
             \A i \in Run!Turns : child'[i] = "live" => child[i] = "live",
             origin' = origin \/ Sup # "spawn",
             0 \in doomed' => 0 \in doomed \/ Sup # "off",
             log' = log \/ \E i \in DOMAIN log' : log'[i] = "stopped"
      PROVE  RInv'
  <2>1. Sup' = Sup
    BY <1>4 DEF Sup
  <2>2. Shape'
    BY <1>0, <1>1, <1>2, <1>4 DEF Shape, Run!Leases
  <2>3. GateKnows' /\ Permitted'
    BY <1>1, <1>2, <1>4, <2>1 DEF RInv, GateKnows, Permitted
  <2>4. SpawnKnows'
    BY <1>1, <1>2, <1>4, <2>1 DEF RInv, SpawnKnows
  <2>5. VerdictKnows'
    <3>1. CASE log' = log
      BY <1>4, <2>1, <3>1 DEF RInv, VerdictKnows
    <3>2. CASE \E i \in DOMAIN log' : log'[i] = "stopped"
      BY <1>4, <2>1, <3>2 DEF RInv, VerdictKnows
    <3> QED BY <1>4, <3>1, <3>2
  <2> QED BY <2>2, <2>3, <2>4, <2>5 DEF RInv
<1>5. CASE Run!StopEmits \/ Run!StopRecords \/ Run!StopKills \/ \E remote \in BOOLEAN : Run!StopReads(remote)
  <2>1. \/ UNCHANGED <<pc, pend>>
        \/ \E l \in {"kill", "emit", "record", "idle"} :
             (\E patch : Run!UpdateRun("stop", patch, l)) \/ (Run!Goto("stop", l) /\ UNCHANGED pend)
    BY <1>5, Zenon DEF Run!StopReads, Run!StopKills, Run!StopEmits, Run!StopRecords
  <2>2. /\ pc' \in [Run!Procs -> Places] /\ pend' = [q \in Run!Procs |-> pend'[q]]
        /\ \A q \in Run!Procs : pend'[q].then \in Places /\ pend'[q].then \notin {"writing", "off"}
        /\ Heading("sup")' = Heading("sup") /\ Heading("start")' = Heading("start")
    <3>1. CASE UNCHANGED <<pc, pend>>
      BY <1>0, <3>1 DEF Shape, Heading
    <3>2. ASSUME NEW l \in {"kill", "emit", "record", "idle"},
                 (\E patch : Run!UpdateRun("stop", patch, l)) \/ (Run!Goto("stop", l) /\ UNCHANGED pend)
          PROVE  <2>2
      <4>1. l \in Places \ {"writing", "off"}
        BY DEF Places
      <4> QED BY <1>0, <3>2, <4>1, Heads
    <3> QED BY <2>1, <3>1, <3>2
  <2>3. UNCHANGED <<child, presented, origin>>
    BY <1>5, Zenon DEF Run!StopReads, Run!StopKills, Run!StopEmits, Run!StopRecords, Run!procs, Run!world
  <2>4. 0 \in doomed' => 0 \in doomed \/ Sup # "off"
    <3>1. CASE Run!StopKills
      <4>1. doomed' = doomed \union {p \in {0} : seen.sup /\ pc["sup"] \notin {"off", "end", "dead"}}
                             \union {i \in Run!Turns : seen.child = i /\ child[i] = "live"}
        BY <3>1 DEF Run!StopKills
      <4>2. 0 \notin Run!Turns
        BY DEF Run!Turns
      <4>3. CASE pc["sup"] \notin {"off", "end", "dead"}
        BY <1>0, <4>3 DEF Sup, Heading, Shape
      <4> QED BY <4>1, <4>2, <4>3
    <3>2. CASE doomed' = doomed
      BY <3>2
    <3> QED BY <1>5, <3>1, <3>2, Zenon DEF Run!StopReads, Run!StopEmits, Run!StopRecords, Run!procs
  <2>5. log' \in Seq(Events) /\ (log' = log \/ \E i \in DOMAIN log' : log'[i] = "stopped")
    <3>1. CASE log' = log
      BY <1>0, <3>1 DEF Shape
    <3>2. CASE log' = log \o <<"stopped">>
      <4>1. "stopped" \in Events /\ log \in Seq(Events)
        BY <1>0 DEF Shape, Events, Run!Terminal
      <4>2. log' \in Seq(Events) /\ Len(log') = Len(log) + 1 /\ log'[Len(log) + 1] = "stopped"
              /\ Len(log) + 1 \in DOMAIN log'
        BY <3>2, <4>1
      <4> QED BY <4>2
    <3> QED BY <1>5, <3>1, <3>2, Zenon DEF Run!StopReads, Run!StopKills, Run!StopEmits, Run!StopRecords,
                                           Run!AppendEvents, Run!files
  <2> QED BY <1>0, <1>4, <2>2, <2>3, <2>4, <2>5 DEF Shape
<1>6. CASE \/ Run!ExecTimeout \/ (\E i \in Run!Turns : Run!ChildExits(i))
              \/ (\E i \in Run!Turns : Run!ChildRetargets(i))
           \/ Run!LeaseReleased \/ Run!StreamFlush \/ UNCHANGED Run!vars
  <2>1. UNCHANGED <<pc, pend, log>>
    BY <1>6, Zenon DEF Run!ExecTimeout, Run!ChildExits, Run!ChildRetargets, Run!LeaseReleased, Run!StreamFlush,
                       Run!vars, Run!files
  <2>2. /\ pc' \in [Run!Procs -> Places] /\ pend' = [q \in Run!Procs |-> pend'[q]]
        /\ \A q \in Run!Procs : pend'[q].then \in Places /\ pend'[q].then \notin {"writing", "off"}
        /\ Heading("sup")' = Heading("sup") /\ Heading("start")' = Heading("start")
        /\ log' \in Seq(Events)
    BY <1>0, <2>1 DEF Shape, Heading
  <2>3. /\ child' \in [Run!Turns -> {"none", "live", "ok", "bad"}]
        /\ \A i \in Run!Turns : child'[i] = "live" => child[i] = "live"
    BY <1>0, <1>6 DEF Shape, Run!ExecTimeout, Run!ChildExits, Run!ChildRetargets, Run!LeaseReleased,
                      Run!StreamFlush, Run!vars, Run!procs
  <2>4. presented' \in {presented, "inactive"}
    BY <1>6 DEF Run!ExecTimeout, Run!ChildExits, Run!ChildRetargets, Run!LeaseReleased, Run!StreamFlush, Run!vars,
                Run!world
  <2>5. origin' = origin \/ Sup # "spawn"
    BY <1>6 DEF Run!ExecTimeout, Run!ChildExits, Run!ChildRetargets, Run!LeaseReleased, Run!StreamFlush, Run!vars,
                Run!world, RInv, SpawnKnows
  <2>6. 0 \in doomed' => 0 \in doomed
    <3>1. turn # 0
      BY <1>0 DEF Shape, Run!Turns
    <3> QED BY <1>6, <3>1 DEF Run!ExecTimeout, Run!ChildExits, Run!ChildRetargets, Run!LeaseReleased,
                              Run!StreamFlush, Run!vars, Run!procs
  <2> QED BY <1>4, <2>1, <2>2, <2>3, <2>4, <2>5, <2>6
<1> QED BY <1>3, <1>5, <1>6

\* RInv is inductive.
LEMMA NextRInv == RInv /\ [Run!Next]_(Run!vars) => RInv'
<1> SUFFICES ASSUME RInv, [Run!Next]_(Run!vars) PROVE RInv'
  OBVIOUS
<1>0. "sup" \in Run!Procs /\ "start" \in Run!Procs /\ "stop" \in Run!Procs
  BY DEF Run!Procs
<1>1. CASE Run!StartSteps
  BY <1>0, <1>1, StartGoesOn, RecordWritten DEF Run!StartSteps
<1>2. CASE Run!SupSteps
  BY <1>0, <1>2, SupGoesOn, SupSpeaks, TurnGoesOn, RecordWritten DEF Run!SupSteps
<1>3. CASE Run!StopSteps
  BY <1>0, <1>3, OthersGoOn, RecordWritten DEF Run!StopSteps
<1> QED BY <1>1, <1>2, <1>3, OthersGoOn DEF Run!Next

\* In every reachable state of a run, whatever its scenario.
LEMMA RunInvariance == ASSUME Run!ScenariosAssumption PROVE Run!Spec => []RInv
<1>1. Run!Init => RInv
  BY InitRInv
<1> QED BY <1>1, NextRInv, PTL DEF Run!Spec

\* The gate in front of every turn (supervisor.ts resolveCodexSandbox): an agent is launched with write
\* access only in a turn that began under an active lease, so that no fallback inherits the permission of
\* an earlier turn, and with the bypass only if the run asked for it; for every chain of agents.
THEOREM LeasedWrites == ASSUME Run!ScenariosAssumption PROVE Run!Spec => []WriteNeedsLease
<1>1. RInv => WriteNeedsLease
  BY DEF RInv, Shape, Permitted, WriteNeedsLease
<1> QED BY <1>1, RunInvariance, PTL

\* Until somebody stops the run, startRun and the supervisor between them write at most one terminal
\* event, and none follows it: whichever gate, agent, fallback, timer or verifier ends the run.
THEOREM SingleVerdict == ASSUME Run!ScenariosAssumption PROVE Run!Spec => []OneVerdict
<1>1. RInv => OneVerdict
  <2> SUFFICES ASSUME RInv, "stopped" \notin {log[i] : i \in DOMAIN log}
               PROVE  /\ Cardinality(TerminalEvents) <= 1
                      /\ \A i \in TerminalEvents : i = Len(log)
    BY DEF OneVerdict
  <2>1. \A i \in TerminalEvents : i = Len(log)
    BY DEF RInv, VerdictKnows, TerminalEvents, Terminal, Run!Terminal
  <2>2. TerminalEvents = {} \/ TerminalEvents = {Len(log)}
    BY <2>1
  <2>3. Cardinality(TerminalEvents) <= 1
    <3>1. CASE TerminalEvents = {}
      BY <3>1, FS_EmptySet
    <3>2. CASE TerminalEvents = {Len(log)}
      <4>1. Cardinality({Len(log)}) = 1
        BY FS_Singleton
      <4> QED BY <3>2, <4>1
    <3> QED BY <2>2, <3>1, <3>2
  <2> QED BY <2>1, <2>3
<1> QED BY <1>1, RunInvariance, PTL

\* One step, as LaunchedInItsRepo states it.
SpawnsInRepo ==
  \A i \in Run!Turns : (child[i] = "none" /\ child'[i] = "live" /\ scn.repo # "none") => origin = "same"

\* Only Spawn brings a process to life, and it stands behind the workspace check.
LEMMA NextSpawns == RInv /\ [Run!Next]_(Run!vars) => SpawnsInRepo
<1> SUFFICES ASSUME RInv, [Run!Next]_(Run!vars), NEW i \in Run!Turns, child[i] = "none", child'[i] = "live",
                    scn.repo # "none"
             PROVE  origin = "same"
  BY DEF SpawnsInRepo
<1>1. CASE Run!Spawn
  <2>1. Sup = "spawn"
    BY <1>1, Zenon DEF Run!Spawn, Sup, Heading
  <2> QED BY <2>1 DEF RInv, SpawnKnows
<1>2. CASE \E j \in Run!Turns : Run!ChildExits(j)
  <2>1. PICK j \in Run!Turns, code \in {"ok", "bad"} : child' = [child EXCEPT ![j] = code]
    BY <1>2 DEF Run!ChildExits
  <2> QED BY <2>1 DEF RInv, Shape
<1>3. CASE child' = child
  BY <1>3
<1>4. Run!Spawn \/ (\E j \in Run!Turns : Run!ChildExits(j)) \/ child' = child
  <2>1. CASE Run!StartSteps \/ Run!StopSteps
    BY <2>1, Zenon DEF Run!StartSteps, Run!StartWrites, Run!StartClones, Run!StartCloneFails, Run!StartNoBackend,
                       Run!LaunchSupervisor,
           Run!StartMarksRunning, Run!StopSteps, Run!StopKills, Run!StopEmits, Run!StopRecords, Run!WriteRun,
           Run!procs
  <2>2. CASE Run!SupSteps /\ ~Run!Spawn
    BY <2>2, Zenon DEF Run!SupSteps, Run!SupBoot, Run!SupAnnounces, Run!PreauthGate, Run!PreauthRefuses,
                       Run!RepoGate, Run!RepoGateRefuses,
           Run!VerifierGate, Run!VerifierRefuses, Run!BeginTurn, Run!NoAdapter, Run!CodexGate, Run!CodexGateDenies,
           Run!MockCompletes, Run!MockFails,
           Run!ExecClones, Run!ExecRefused, Run!AdapterThrows, Run!SpawnFails, Run!ExecClose, Run!ExecClearsChild,
           Run!ExecResolves,
           Run!SupYieldsToStop, Run!SupCompletes, Run!VerifierLost, Run!VerifierRuns, Run!Finalize,
           Run!SupFailsForGood, Run!SupSwitches, Run!SupEmits,
           Run!WriteRun, Run!SupFails, Run!SupPasses, Run!procs
  <2>3. CASE \/ Run!ExecTimeout \/ (\E remote \in BOOLEAN : Run!StopReads(remote)) \/ Run!SupDies
             \/ (\E j \in Run!Turns : Run!ChildRetargets(j)) \/ Run!LeaseReleased \/ Run!StreamFlush
                \/ UNCHANGED Run!vars
    BY <2>3, Zenon DEF Run!ExecTimeout, Run!StopReads, Run!SupDies, Run!ChildRetargets, Run!LeaseReleased,
                       Run!StreamFlush, Run!vars, Run!procs
  <2> QED BY <2>1, <2>2, <2>3 DEF Run!Next
<1> QED BY <1>1, <1>2, <1>3, <1>4

\* execAgent checks the workspace in front of every spawn, and no agent of an earlier turn is alive
\* between the check and the spawn: none is launched in a checkout of another repository.
THEOREM OwnRepo == ASSUME Run!ScenariosAssumption PROVE Run!Spec => LaunchedInItsRepo
<1>1. ASSUME RInv, [Run!Next]_(Run!vars)
      PROVE  [\A i \in DOMAIN child : (child[i] = "none" /\ child'[i] = "live" /\ scn.repo # "none")
                                         => origin = "same"]_child
  <2>1. DOMAIN child = Run!Turns
    BY <1>1 DEF RInv, Shape
  <2>2. SpawnsInRepo
    BY <1>1, NextSpawns
  <2> QED BY <2>1, <2>2 DEF SpawnsInRepo
<1> QED BY <1>1, RunInvariance, PTL DEF Run!Spec, LaunchedInItsRepo
=============================================================================
