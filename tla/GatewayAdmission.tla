--------------------------- MODULE GatewayAdmission ---------------------------
(***************************************************************************)
(* Creation of agent tasks by the gateway (src/lib/agent-gateway.ts,       *)
(* handleCreate) with a durable store: the idempotency pre-check, the      *)
(* active-task cap, the remote preflight and start with their timeouts,    *)
(* the local start with its compensation, eviction, and recovery of a      *)
(* gateway that died. A task carries the name of the request that made it. *)
(***************************************************************************)
EXTENDS TaskContract, Integers, Sequences, FiniteSets, SequencesExt

CONSTANTS Reqs,        \* bound: POST /tasks requests
          Bodies,      \* bound: what the requests ask
          MaxActive,   \* maxActive
          MaxRetained, \* maxRetained
          MaxCrashes,  \* bound: deaths of the gateway process
          MaxStoreFaults \* bound: failing statements of the control database and writes of the prompt file

ASSUME AdmissionAssumption ==
  /\ Bodies \subseteq CreateTaskRequest /\ \E b \in Bodies : b.idempotency_key = "absent"
  /\ IsFiniteSet(Reqs) /\ Reqs \cap {"none", "conflict", "transient", "fatal"} = {}
  /\ MaxActive \in Nat \ {0} /\ MaxRetained \in Nat
  /\ MaxCrashes \in Nat /\ MaxStoreFaults \in Nat

VARIABLES
  up,             \* "up", "closing" or "down"
  req,            \* req[r]: what the request asks and where its handler is: [body, pc]
  reply,          \* reply[r]: the task a 200 or 202 names, or what the error is for the caller
  row,            \* row[r]: the durable task created by r: [status, bound]
  mem,            \* mem[r]: the in-memory task created by r
  activeCount, pendingCreates, completedOrder,
  start,          \* start[r]: the run_start message and its ack
  run,            \* run[r]: the run started for r, on the Node or on this machine
  crashes, storeFaults

vars == <<up, req, reply, row, mem, activeCount, pendingCreates, completedOrder, start, run,
          crashes, storeFaults>>

\* An answered handler that kept its slot is "leaked"; one that freed it twice is "refreed".
PCs == {"idle", "preflight", "starting", "answered", "leaked", "refreed", "lost"}
Errors == {"none", "conflict", "transient", "fatal"}
NoRow == [status |-> "none", bound |-> FALSE]
Statuses == {"queued", "running", "completed", "failed"}
IdleReq == [body |-> CHOOSE b \in Bodies : b.idempotency_key = "absent", pc |-> "idle"]

TypeOK ==
  /\ up \in {"up", "closing", "down"}
  /\ req \in [Reqs -> [body : Bodies, pc : PCs]]
  /\ reply \in [Reqs -> Reqs \cup Errors]
  /\ row \in [Reqs -> [status : {"none"} \cup Statuses, bound : BOOLEAN]]
  /\ mem \in [Reqs -> {"absent", "active", "terminal"}]
  /\ activeCount \in Nat /\ pendingCreates \in Int /\ completedOrder \in Seq(Reqs)
  /\ start \in [Reqs -> {"unsent", "sent", "lost", "acked", "refused", "threw"}]
  /\ run \in [Reqs -> {"none", "live", "ended", "stopped", "unstopped"}]
  /\ crashes \in 0 .. MaxCrashes /\ storeFaults \in 0 .. MaxStoreFaults

Init ==
  /\ up = "up"
  /\ req = [r \in Reqs |-> IdleReq]
  /\ reply = [r \in Reqs |-> "none"]
  /\ row = [r \in Reqs |-> NoRow] /\ mem = [r \in Reqs |-> "absent"]
  /\ activeCount = 0 /\ pendingCreates = 0 /\ completedOrder = <<>>
  /\ start = [r \in Reqs |-> "unsent"] /\ run = [r \in Reqs |-> "none"]
  /\ crashes = 0 /\ storeFaults = 0

Terminal(s) == s \in {"completed", "failed"}

-----------------------------------------------------------------------------
(* The durable store *)

\* getTaskByIdempotencyKey: the tasks whose row carries key k (at most one).
TasksOfKey(k) ==
  {t \in Reqs : k # "absent" /\ row[t].status # "none" /\ req[t].body.idempotency_key = k}

Key(r) == req[r].body.idempotency_key
SameRequest(b, c) == Fingerprint(b) = Fingerprint(c)

\* persistCreate with createTaskIdempotently: what the insert of r's task answers.
PersistCreate(r) ==
  LET rivals == TasksOfKey(Key(r)) IN
  IF rivals = {} THEN "created"
  ELSE IF \A t \in rivals : SameRequest(req[t].body, req[r].body) THEN "replay" ELSE "conflict"

\* A statement of the store may fail; the handlers go on.
Faults(n) == storeFaults + n <= MaxStoreFaults /\ storeFaults' = storeFaults + n
StoreFails == Faults(1)
StoreWorks == storeFaults' = storeFaults

-----------------------------------------------------------------------------
(* handleCreate *)

Answer(r, a) == reply' = [reply EXCEPT ![r] = a]
At(r, b, pc) == req' = [req EXCEPT ![r] = [body |-> b, pc |-> pc]]
Goto(r, pc) == req' = [req EXCEPT ![r].pc = pc]

\* The bodies that get past validation and placement.
Placed == {b \in Bodies : ValidateCreateTaskRequest(b) /\ PlacementRefusal(b) = "ok"}

Fresh(r) == up = "up" /\ req[r].pc = "idle"

\* The body is malformed, or names a place that cannot run it.
CreateInvalid(r, b) ==
  /\ Fresh(r) /\ b \notin Placed /\ Goto(r, "answered")
  /\ Answer(r, Classify(IF ValidateCreateTaskRequest(b) THEN PlacementRefusal(b) ELSE "invalid_request"))
  /\ UNCHANGED <<up, row, mem, activeCount, pendingCreates, completedOrder, start, run, crashes, storeFaults>>

\* The pre-check finds the key: the same request is replayed, another one is a conflict.
CreateReplayed(r, b) ==
  /\ Fresh(r) /\ TasksOfKey(b.idempotency_key) # {}
  /\ At(r, b, "answered")
  /\ \E t \in TasksOfKey(b.idempotency_key) : Answer(r, IF SameRequest(req[t].body, b) THEN t ELSE "conflict")
  /\ UNCHANGED <<up, row, mem, activeCount, pendingCreates, completedOrder, start, run, crashes, storeFaults>>

\* The pre-check finds nothing, or its read fails and counts as nothing.
PreCheckPasses(b) == (TasksOfKey(b.idempotency_key) = {} /\ StoreWorks) \/ (b.idempotency_key # "absent" /\ StoreFails)

HasSlot == activeCount + pendingCreates < MaxActive

CreateRefused(r, b) ==
  /\ Fresh(r) /\ PreCheckPasses(b) /\ ~HasSlot
  /\ At(r, b, "answered") /\ Answer(r, Classify("service_unavailable"))
  /\ UNCHANGED <<up, row, mem, activeCount, pendingCreates, completedOrder, start, run, crashes>>

\* A remote request reserves its slot and asks the relay for the nodes.
CreateRemote(r, b) ==
  /\ Fresh(r) /\ IsRemote(b) /\ PreCheckPasses(b) /\ HasSlot
  /\ At(r, b, "preflight") /\ pendingCreates' = pendingCreates + 1
  /\ UNCHANGED <<up, reply, row, mem, activeCount, completedOrder, start, run, crashes>>

\* What the preflight may answer: the registry call fails, or what it says of the node does not do.
PreflightErrors(b) ==
  {RemoteApiError(e) : e \in TransportErrors \cup {"http_401"}}
    \cup ({Preflight(b, n) : n \in NodeViews} \ {"ok"})

\* Mutant of PreflightFails: the reservation is kept.
PreflightFailsHeld(r) ==
  /\ up # "down" /\ req[r].pc = "preflight" /\ Goto(r, "answered")
  /\ \E c \in PreflightErrors(req[r].body) : Answer(r, Classify(c))
  /\ UNCHANGED <<up, row, mem, activeCount, pendingCreates, completedOrder, start, run, crashes, storeFaults>>

\* The node does not qualify; the caller learns whether another attempt may help.
PreflightFails(r) ==
  /\ up # "down" /\ req[r].pc = "preflight" /\ Goto(r, "answered")
  /\ \E c \in PreflightErrors(req[r].body) : Answer(r, Classify(c))
  /\ pendingCreates' = pendingCreates - 1
  /\ UNCHANGED <<up, row, mem, activeCount, completedOrder, start, run, crashes, storeFaults>>

\* The node qualifies. The task is durable, unbound, before the start is sent.
PreflightOk(r) ==
  /\ up # "down" /\ req[r].pc = "preflight" /\ PersistCreate(r) = "created" /\ StoreWorks
  /\ Goto(r, "starting")
  /\ row' = [row EXCEPT ![r] = [status |-> "queued", bound |-> FALSE]]
  /\ start' = [start EXCEPT ![r] = "sent"]
  /\ UNCHANGED <<up, reply, mem, activeCount, pendingCreates, completedOrder, run, crashes>>

\* Mutant of PreflightLoses: the loser starts its run all the same.
PreflightLosesStarts(r) ==
  /\ up # "down" /\ req[r].pc = "preflight" /\ PersistCreate(r) # "created"
  /\ Goto(r, "answered") /\ pendingCreates' = pendingCreates - 1
  /\ \E t \in TasksOfKey(Key(r)) : Answer(r, IF PersistCreate(r) = "replay" THEN t ELSE "conflict")
  /\ start' = [start EXCEPT ![r] = "sent"]
  /\ UNCHANGED <<up, row, mem, activeCount, completedOrder, run, crashes, storeFaults>>

\* Mutant of PreflightLoses: the loser is answered with its own task.
PreflightLosesOwn(r) ==
  /\ up # "down" /\ req[r].pc = "preflight" /\ PersistCreate(r) # "created"
  /\ Goto(r, "answered") /\ pendingCreates' = pendingCreates - 1
  /\ Answer(r, IF PersistCreate(r) = "replay" THEN r ELSE "conflict")
  /\ UNCHANGED <<up, row, mem, activeCount, completedOrder, start, run, crashes, storeFaults>>

\* A request with the same key won between the pre-check and the insert.
PreflightLoses(r) ==
  /\ up # "down" /\ req[r].pc = "preflight" /\ PersistCreate(r) # "created"
  /\ Goto(r, "answered") /\ pendingCreates' = pendingCreates - 1
  /\ \E t \in TasksOfKey(Key(r)) : Answer(r, IF PersistCreate(r) = "replay" THEN t ELSE "conflict")
  /\ UNCHANGED <<up, row, mem, activeCount, completedOrder, start, run, crashes, storeFaults>>

PreflightStoreFails(r) ==
  /\ up # "down" /\ req[r].pc = "preflight" /\ StoreFails
  /\ Goto(r, "answered") /\ Answer(r, Classify("internal_error")) /\ pendingCreates' = pendingCreates - 1
  /\ UNCHANGED <<up, row, mem, activeCount, completedOrder, start, run, crashes>>

\* The ack arrives: bind the run durably (a failure is ignored), register the task.
StartAcked(r) ==
  /\ up # "down" /\ req[r].pc = "starting" /\ start[r] = "acked"
  /\ Goto(r, "answered") /\ Answer(r, r)
  /\ \/ StoreWorks /\ row' = [row EXCEPT ![r] = [status |-> "running", bound |-> TRUE]]
     \/ StoreFails /\ UNCHANGED row
  /\ mem' = [mem EXCEPT ![r] = "active"]
  /\ pendingCreates' = pendingCreates - 1 /\ activeCount' = activeCount + 1
  /\ UNCHANGED <<up, completedOrder, start, run, crashes>>

\* The prompt file cannot be written: the outer catch answers, and nobody frees the reservation.
PreflightPromptFails(r) ==
  /\ up # "down" /\ req[r].pc = "preflight" /\ StoreFails
  /\ Goto(r, "leaked") /\ Answer(r, Classify("internal_error"))
  /\ UNCHANGED <<up, row, mem, activeCount, pendingCreates, completedOrder, start, run, crashes>>

\* How remoteRunStart may fail: no ack in time, or what the Node or the relay answered.
StartErrors(r) ==
  TransportErrors \cup (IF start[r] = "refused" THEN NodeRefusals(req[r].body) \cup RelayRefusals
                         ELSE IF start[r] = "threw" THEN {"internal_error"} ELSE {})

\* terminalizeTaskDurable: the row and its terminal event in one transaction.
TerminalizeTask(r) == row' = [row EXCEPT ![r].status = "failed"]

\* The node refuses, the relay connection closes, or 10 s pass without an ack: the task fails.
StartFails(r) ==
  /\ up # "down" /\ req[r].pc = "starting"
  /\ Goto(r, "answered") /\ \E e \in StartErrors(r) : Answer(r, Classify(RemoteApiError(e)))
  /\ \/ StoreWorks /\ TerminalizeTask(r)
     \/ StoreFails /\ UNCHANGED row
  /\ pendingCreates' = pendingCreates - 1
  /\ UNCHANGED <<up, mem, activeCount, completedOrder, start, run, crashes>>

\* A local request starts its run, then persists and registers the task, in one macrotask.
CreateLocal(r, b) ==
  /\ Fresh(r) /\ ~IsRemote(b) /\ TasksOfKey(b.idempotency_key) = {} /\ StoreWorks /\ HasSlot
  /\ At(r, b, "answered") /\ Answer(r, r)
  /\ row' = [row EXCEPT ![r] = [status |-> "running", bound |-> FALSE]]
  /\ run' = [run EXCEPT ![r] = "live"] /\ mem' = [mem EXCEPT ![r] = "active"]
  /\ activeCount' = activeCount + 1
  /\ UNCHANGED <<up, pendingCreates, completedOrder, start, crashes>>

\* The local start fails before a run exists.
CreateLocalFails(r, b) ==
  /\ Fresh(r) /\ ~IsRemote(b) /\ PreCheckPasses(b) /\ HasSlot
  /\ At(r, b, "answered") /\ Answer(r, Classify("internal_error"))
  /\ UNCHANGED <<up, row, mem, activeCount, pendingCreates, completedOrder, start, run, crashes>>

\* The prompt file of a local request cannot be written: its slot stays reserved.
CreateLocalPromptFails(r, b) ==
  /\ Fresh(r) /\ ~IsRemote(b) /\ HasSlot
  /\ (TasksOfKey(b.idempotency_key) = {} /\ Faults(1)) \/ (b.idempotency_key # "absent" /\ Faults(2))
  /\ At(r, b, "leaked") /\ Answer(r, Classify("internal_error"))
  /\ pendingCreates' = pendingCreates + 1
  /\ UNCHANGED <<up, row, mem, activeCount, completedOrder, start, run, crashes>>

\* The process ends: its handlers in flight are lost, and its slots are gone.
Dropped(pc) == IF pc \in {"preflight", "starting"} THEN "lost"
               ELSE IF pc \in {"leaked", "refreed"} THEN "answered" ELSE pc
DropAll == [t \in Reqs |-> [req[t] EXCEPT !.pc = Dropped(@)]]

\* stopRun of the duplicate: it stops, or the stop fails and is swallowed, or the run had already
\* ended, when stopRun exits the process.
CompensateLocal(r) ==
  \/ \E s \in {"stopped", "unstopped"} : run' = [run EXCEPT ![r] = s] /\ UNCHANGED <<mem, up, crashes>>
  \/ /\ crashes < MaxCrashes /\ crashes' = crashes + 1 /\ up' = "down"
     /\ run' = [run EXCEPT ![r] = "ended"] /\ mem' = [t \in Reqs |-> "absent"]

\* The insert fails, or finds the key after the failed pre-check: the run is compensated and the
\* winner, a conflict or an error is answered.
CreateLocalLoses(r, b) ==
  /\ Fresh(r) /\ ~IsRemote(b) /\ HasSlot /\ StoreFails
  /\ CompensateLocal(r)
  /\ IF up' = "up"
     THEN /\ At(r, b, "answered") /\ UNCHANGED <<activeCount, pendingCreates, completedOrder>>
          /\ Answer(r, IF TasksOfKey(b.idempotency_key) = {} THEN Classify("internal_error")
                       ELSE LET t == CHOOSE t \in TasksOfKey(b.idempotency_key) : TRUE IN
                            IF SameRequest(req[t].body, b) THEN t ELSE "conflict")
     ELSE /\ req' = [DropAll EXCEPT ![r] = [body |-> b, pc |-> "lost"]]
          /\ activeCount' = 0 /\ pendingCreates' = 0 /\ completedOrder' = <<>> /\ UNCHANGED reply
  /\ UNCHANGED <<row, start>>

\* The pre-check and then the insert fail, or the pre-check and then the look-up of the winner: the
\* latter frees the slot a second time, and stops the run a second time, which exits the process
\* unless the first stop had failed.
CreateLocalLosesTwice(r, b) ==
  /\ Fresh(r) /\ ~IsRemote(b) /\ HasSlot /\ TasksOfKey(b.idempotency_key) # {}
  /\ Faults(2) /\ CompensateLocal(r)
  /\ IF up' = "up"
     THEN /\ \/ At(r, b, "answered") /\ UNCHANGED pendingCreates
             \/ /\ \A t \in TasksOfKey(b.idempotency_key) : SameRequest(req[t].body, b)
                /\ At(r, b, "refreed") /\ pendingCreates' = pendingCreates - 1
          /\ Answer(r, Classify("internal_error")) /\ UNCHANGED <<activeCount, completedOrder>>
     ELSE /\ req' = [DropAll EXCEPT ![r] = [body |-> b, pc |-> "lost"]]
          /\ activeCount' = 0 /\ pendingCreates' = 0 /\ completedOrder' = <<>> /\ UNCHANGED reply
  /\ UNCHANGED <<row, start>>

-----------------------------------------------------------------------------
(* The relay and the Node *)

\* The Node acts on the start, perhaps long after the gateway gave up; its ack may be lost, and
\* the handler may throw between backend.start and the ack.
NodeStarts(r) ==
  /\ start[r] = "sent" /\ run' = [run EXCEPT ![r] = "live"]
  /\ \E s \in {"acked", "lost", "threw"} : start' = [start EXCEPT ![r] = s]
  /\ UNCHANGED <<up, req, reply, row, mem, activeCount, pendingCreates, completedOrder, crashes, storeFaults>>

\* The Node refuses the start, or the message never reaches it.
NodeRefuses(r) ==
  /\ start[r] = "sent" /\ \E s \in {"refused", "lost"} : start' = [start EXCEPT ![r] = s]
  /\ UNCHANGED <<up, req, reply, row, mem, activeCount, pendingCreates, completedOrder, run, crashes, storeFaults>>

RunEnds(r) ==
  /\ run[r] \in {"live", "unstopped"} /\ run' = [run EXCEPT ![r] = "ended"]
  /\ UNCHANGED <<up, req, reply, row, mem, activeCount, pendingCreates, completedOrder, start, crashes, storeFaults>>

-----------------------------------------------------------------------------
(* Completion, eviction, shutdown and recovery *)

\* evictIfNeeded: the oldest completed tasks leave the cache.
EvictIfNeeded(order, m) ==
  LET out == IF Len(order) > MaxRetained THEN Len(order) - MaxRetained ELSE 0 IN
  <<SubSeq(order, out + 1, Len(order)),
    [t \in Reqs |-> IF m[t] = "terminal" /\ \E i \in 1 .. out : order[i] = t THEN "absent" ELSE m[t]]>>

\* finishTask: once per task, frees the slot.
FinishTask(r) ==
  LET e == EvictIfNeeded(Append(completedOrder, r), [mem EXCEPT ![r] = "terminal"]) IN
  completedOrder' = e[1] /\ mem' = e[2] /\ activeCount' = activeCount - 1

\* The task's terminal status becomes known; its durable write may fail.
Complete(r) ==
  /\ up = "up" /\ mem[r] = "active" /\ run[r] \in {"ended", "stopped"}
  /\ FinishTask(r)
  /\ \/ StoreWorks /\ row' = [row EXCEPT ![r].status = "completed"]
     \/ StoreFails /\ UNCHANGED row
  /\ UNCHANGED <<up, req, reply, pendingCreates, start, run, crashes>>

\* close(): no new request; the handlers in flight still finish.
Close ==
  /\ up = "up" /\ crashes < MaxCrashes /\ up' = "closing"
  /\ UNCHANGED <<req, reply, row, mem, activeCount, pendingCreates, completedOrder, start, run, crashes, storeFaults>>

\* The process ends: its memory and its handlers are gone.
Crash ==
  /\ up # "down" /\ crashes < MaxCrashes /\ crashes' = crashes + 1 /\ up' = "down"
  /\ req' = DropAll
  /\ mem' = [r \in Reqs |-> "absent"]
  /\ activeCount' = 0 /\ pendingCreates' = 0 /\ completedOrder' = <<>>
  /\ UNCHANGED <<reply, row, start, run, storeFaults>>

\* The process ends inside a local create, after startRun and before the insert.
CrashInLocal(r, b) ==
  /\ Fresh(r) /\ ~IsRemote(b) /\ PreCheckPasses(b) /\ HasSlot
  /\ crashes < MaxCrashes /\ crashes' = crashes + 1 /\ up' = "down"
  /\ run' = [run EXCEPT ![r] = "live"]
  /\ req' = [DropAll EXCEPT ![r] = [body |-> b, pc |-> "lost"]]
  /\ mem' = [t \in Reqs |-> "absent"]
  /\ activeCount' = 0 /\ pendingCreates' = 0 /\ completedOrder' = <<>>
  /\ UNCHANGED <<reply, row, start>>

NonTerminalRows == {r \in Reqs : row[r].status \in {"queued", "running"}}
Ambiguous(r) == IsRemote(req[r].body) /\ ~row[r].bound

\* recoverTasks: every non-terminal row is registered; an unbound remote start fails at once.
Recover ==
  /\ up = "down" /\ up' = "up"
  /\ LET unknown == {r \in NonTerminalRows : Ambiguous(r)} IN
     \E order \in {s \in [1 .. Cardinality(unknown) -> unknown] : IsInjective(s)} :
     LET e == EvictIfNeeded(order,
                [r \in Reqs |-> IF r \in unknown THEN "terminal"
                                ELSE IF r \in NonTerminalRows THEN "active" ELSE "absent"])
     IN /\ row' = [r \in Reqs |-> IF r \in unknown THEN [row[r] EXCEPT !.status = "failed"] ELSE row[r]]
        /\ completedOrder' = e[1] /\ mem' = e[2]
        /\ activeCount' = Cardinality(NonTerminalRows \ unknown)
  /\ UNCHANGED <<req, reply, pendingCreates, start, run, crashes, storeFaults>>

Next ==
  \/ \E r \in Reqs, b \in Bodies : CreateInvalid(r, b)
  \/ \E r \in Reqs, b \in Placed : CreateReplayed(r, b)
  \/ \E r \in Reqs, b \in Placed : CreateRefused(r, b)
  \/ \E r \in Reqs, b \in Placed : CreateRemote(r, b)
  \/ \E r \in Reqs, b \in Placed : CreateLocal(r, b)
  \/ \E r \in Reqs, b \in Placed : CreateLocalFails(r, b)
  \/ \E r \in Reqs, b \in Placed : CreateLocalLoses(r, b)
  \/ \E r \in Reqs, b \in Placed : CreateLocalLosesTwice(r, b)
  \/ \E r \in Reqs, b \in Placed : CreateLocalPromptFails(r, b)
  \/ \E r \in Reqs, b \in Placed : CrashInLocal(r, b)
  \/ \E r \in Reqs : PreflightFails(r)
  \/ \E r \in Reqs : PreflightOk(r)
  \/ \E r \in Reqs : PreflightLoses(r)
  \/ \E r \in Reqs : PreflightStoreFails(r)
  \/ \E r \in Reqs : PreflightPromptFails(r)
  \/ \E r \in Reqs : StartAcked(r)
  \/ \E r \in Reqs : StartFails(r)
  \/ \E r \in Reqs : NodeStarts(r)
  \/ \E r \in Reqs : NodeRefuses(r)
  \/ \E r \in Reqs : RunEnds(r)
  \/ \E r \in Reqs : Complete(r)
  \/ Close
  \/ Crash
  \/ Recover

Spec == Init /\ [][Next]_vars

-----------------------------------------------------------------------------
(* Properties *)

\* handleCreate with createTaskIdempotently: however requests with one idempotency key race, time
\* out, are retried or meet a restart, at most one run is ever started on a Node for the key.
OneRunPerKey ==
  \A r, t \in Reqs :
    /\ r # t /\ Key(r) = Key(t) /\ Key(r) # "absent"
    /\ IsRemote(req[r].body) /\ IsRemote(req[t].body)
    => run[r] = "none" \/ run[t] = "none"

\* The idempotent replay of handleCreate: all requests with one key that are answered with a task
\* are answered with the same one, and only a request of another meaning is told of a conflict.
RepliesAgree ==
  \A r, t \in Reqs :
    Key(r) = Key(t) /\ Key(r) # "absent" /\ reply[r] \in Reqs =>
      /\ reply[t] \in Reqs => reply[r] = reply[t]
      /\ reply[t] = "conflict" => ~SameRequest(req[reply[r]].body, req[t].body)

\* activeCount and pendingCreates: through every create, completion, eviction and restart each live
\* task and each create in flight holds one slot and no other does, but for the two errors of
\* handleCreate: a prompt file that cannot be written (857) leaves the reservation held until the
\* process ends, and a failed look-up of the winner (986) frees it twice.
SlotsAccounted ==
  /\ pendingCreates = Cardinality({r \in Reqs : req[r].pc \in {"preflight", "starting", "leaked"}})
                        - Cardinality({r \in Reqs : req[r].pc = "refreed"})
  /\ activeCount = Cardinality({r \in Reqs : mem[r] = "active"})

\* remoteApiError with the task client's classify: an error that the workflow runtime takes for
\* final, and so fails the step for, never leaves behind a run that is still working, unless it is
\* the local duplicate of a lost race that could not be stopped.
FinalAnswerHasNoRun ==
  \A r \in Reqs : reply[r] \in {"fatal", "conflict"} => run[r] # "live"

=============================================================================
