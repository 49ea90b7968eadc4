----------------------------- MODULE GatewayTask -----------------------------
(***************************************************************************)
(* One task of the agent gateway (src/lib/agent-gateway.ts) after its      *)
(* start was bound: the durable row, the in-memory task, the event pump    *)
(* (live or journaled replay of a remote run, polling of a local one), the *)
(* status and stop calls in flight, the asynchronous result fetch that     *)
(* precedes terminalization, and crash and recovery of the gateway.        *)
(***************************************************************************)
EXTENDS Integers, Sequences, FiniteSets, SequencesExt

CONSTANTS MaxJournal,   \* bound: events a run may journal before its end
          MaxCancels,   \* bound: cancel requests in flight at once
          MaxFinishers, \* bound: result fetches in flight at once
          MaxFaults,    \* bound: lost replies, dropped streams and crashes
          MaxResumes,   \* REMOTE_MAX_RESUMES
          Attempts      \* REMOTE_RESULT_ATTEMPTS and REMOTE_RECONCILE_ATTEMPTS

ASSUME BoundsAssumption == /\ MaxJournal \in Nat /\ MaxCancels \in Nat /\ MaxFinishers \in Nat
                           /\ MaxFaults \in Nat /\ MaxResumes \in Nat
                           /\ Attempts \in Nat \ {0}

VARIABLES
  node,    \* the run on its Node: its status and journal, first = the oldest retained event,
           \* output = it has a final output to record, store = how the store of results fared
  cap,     \* [local, replay, result]: a run of this machine, or what the Node advertised
  row,     \* the durable task: [status, log, cursor, hist, result]
  mem,     \* the in-memory task of the live gateway process
  pump,    \* [mode, pos, after]: the remoteStream consumer
  calls,   \* status and stop requests in flight
  fin,     \* finishRemoteWithResult invocations in flight: [seq, type, tries]
  post,    \* fetchAndPersistRemoteResult is in flight
  pub,     \* <<sequence, type>> pairs ever written to SSE subscribers
  faults   \* faults left to inject

vars == <<node, cap, row, mem, pump, calls, fin, post, pub, faults>>

NoCursor == -2
RunStatuses == {"running", "completed", "failed", "stopped"}
TerminalRun == RunStatuses \ {"running"}
TerminalTypes == {"completed", "failed", "cancelled"}
EventKinds == {"delta", "skip"}
NoPump == [mode |-> "none", pos |-> 0, after |-> NoCursor]
Null == "none"

(* runStatusToTaskStatus: a stopped run is a cancelled task. *)
TaskStatus(s) == IF s = "stopped" THEN "cancelled" ELSE s

(* runEventToTaskEvent: terminal statuses and output map, everything else is *)
(* null.                                                                     *)
TaskEvent(k) == IF k \in TerminalRun THEN TaskStatus(k) ELSE IF k = "delta" THEN "delta" ELSE Null

(* resolveNodeRunResult, and the run record of a local task: what is answered for the result. A run *)
(* may have no output, or one too large or invalid; and a result that the journal cannot take, or a *)
(* record that cannot be read, is answered as if there were none. ("invalid" counts as "missing".)  *)
NodeResult == IF node.output /\ node.store # "failing" THEN "available" ELSE "missing"

IsTerminal(r) == r.status # "running"

FreshMem == [up |-> TRUE, terminal |-> FALSE, nextSeq |-> 1, recovered |-> FALSE, complete |-> FALSE,
             cutoff |-> NoCursor, cleared |-> FALSE, resumes |-> 0, reconciling |-> FALSE,
             cancelling |-> FALSE, pending |-> Null]

Caps == {c \in [local : BOOLEAN, replay : BOOLEAN, result : BOOLEAN] : c.local => ~c.replay /\ c.result}

(* The sets the state's parts are drawn from. *)
Cursors == Nat \cup {-1, NoCursor}
Results == {Null, "available", "missing"}
LogTypes == {"created", "delta"} \cup TerminalTypes
Nodes == [status : RunStatuses, journal : Seq(EventKinds \cup TerminalRun), first : Nat,
          output : BOOLEAN, store : {"sound", "failing", "healed"}]
Rows == [status : {"running"} \cup TerminalTypes, log : Seq([type : LogTypes, src : Int]), cursor : Cursors,
         hist : BOOLEAN, result : Results]
Mems == [up : BOOLEAN, terminal : BOOLEAN, nextSeq : Nat, recovered : BOOLEAN, complete : BOOLEAN,
         cutoff : Int, cleared : BOOLEAN, resumes : 0 .. MaxResumes, reconciling : BOOLEAN,
         cancelling : BOOLEAN, pending : Results]
Pumps == [mode : {"none", "live", "replay", "poll", "drain"}, pos : Nat, after : Cursors]
Calls == [kind : {"get", "cancel", "stop", "reconcile", "recover"},
          reply : RunStatuses \cup {"unsent", "already_terminal"}, tries : 0 .. Attempts - 1]
Finishers == [seq : Nat, type : TerminalTypes, tries : 0 .. Attempts - 1]

TypeOK ==
  /\ node \in Nodes /\ cap \in Caps /\ row \in Rows /\ mem \in Mems /\ pump \in Pumps
  /\ calls \in SUBSET Calls /\ fin \in SUBSET Finishers /\ post \in BOOLEAN
  /\ pub \in SUBSET (Nat \X LogTypes) /\ faults \in 0 .. MaxFaults

Init ==
  /\ node = [status |-> "running", journal |-> <<>>, first |-> 0, output |-> FALSE, store |-> "sound"]
  /\ cap \in Caps
  /\ row = [status |-> "running", log |-> <<[type |-> "created", src |-> -1]>>,
            cursor |-> IF cap.replay THEN -1 ELSE NoCursor, hist |-> FALSE, result |-> Null]
  /\ mem = FreshMem
  /\ pump = [mode |-> IF cap.local THEN "poll" ELSE IF cap.replay THEN "replay" ELSE "live", pos |-> 0,
             after |-> IF cap.replay THEN -1 ELSE NoCursor]
  /\ calls = {} /\ fin = {} /\ post = FALSE
  /\ pub = {<<0, "created">>} /\ faults = MaxFaults
-----------------------------------------------------------------------------
(* The durable store *)

\* appendTaskEventSync: only the next sequence is accepted (sequences count from 0).
AppendTaskEvent(r, seq, type, src) ==
  IF seq = Len(r.log) THEN [r EXCEPT !.log = Append(@, [type |-> type, src |-> src])] ELSE r

\* terminalizeTaskWithResultDurable: one transaction. A conflicting result or a sequence that is
\* not the next one rolls everything back; an already recorded terminal event is kept.
TerminalizeWithResult(r, ev, res) ==
  IF r.result \notin {Null, res} THEN r
  ELSE IF IsTerminal(r) THEN [r EXCEPT !.result = res]
  ELSE IF ev.seq # Len(r.log) THEN r
  ELSE [AppendTaskEvent(r, ev.seq, ev.type, -1) EXCEPT !.status = ev.type, !.result = res]

\* Mutant of IngestSourceEvent: an event below the cursor is mapped a second time.
IngestSourceEventTwice(r, s, type) ==
  IF s > r.cursor + 1 THEN r
  ELSE [AppendTaskEvent(r, Len(r.log), type, s) EXCEPT
          !.cursor = s, !.status = IF type \in TerminalTypes THEN type ELSE @]

\* ingestSourceEventDurable: below the cursor the existing mapping is confirmed, above it the
\* gap is refused, at it the event, the cursor and a terminal status are written together.
IngestSourceEvent(r, s, type) ==
  IF s # r.cursor + 1 THEN r
  ELSE [AppendTaskEvent(r, Len(r.log), type, s) EXCEPT
          !.cursor = s, !.status = IF type \in TerminalTypes THEN type ELSE @]

\* advanceSourceCursor: an event with no public mapping still moves the cursor.
AdvanceSourceCursor(r, s) == IF s = r.cursor + 1 THEN [r EXCEPT !.cursor = s] ELSE r

\* The marker of an incomplete history, the first marking wins, and its removal.
MarkTaskHistoryIncomplete(r) == [r EXCEPT !.hist = TRUE]
ClearTaskHistoryIncomplete(r) == [r EXCEPT !.hist = FALSE]

\* persistTaskResultDurable: the first result stays, a different one is a conflict.
PersistTaskResult(r, res) == IF r.result = Null THEN [r EXCEPT !.result = res] ELSE r

-----------------------------------------------------------------------------
(* The functions of the gateway, as functions of its state g for this task *)

G == [row |-> row, mem |-> mem, pump |-> pump, fin |-> fin, post |-> post, pub |-> pub]

Becomes(g) ==
  /\ row' = g.row /\ mem' = g.mem /\ pump' = g.pump /\ post' = g.post /\ pub' = g.pub
  /\ fin' = g.fin /\ Cardinality(g.fin) <= MaxFinishers

PushEvent(g, seq, type) == [g EXCEPT !.pub = @ \cup {<<seq, type>>}]

FinishTask(g) == IF g.mem.terminal THEN g ELSE [g EXCEPT !.mem.terminal = TRUE, !.pump = NoPump]

\* finishWithTerminal: guarded by terminal; a durable write that fails is swallowed and the task
\* still finishes in memory.
FinishWithTerminal(g, ev, res) ==
  LET h == [g EXCEPT !.mem.pending = res]
  IN  IF g.mem.terminal THEN h
      ELSE FinishTask(PushEvent([h EXCEPT !.row = TerminalizeWithResult(@, ev, res)], ev.seq, ev.type))

\* resultCapable === false: the Node was seen not to offer the result protocol. A recovered task
\* does not know.
KnownIncapable(g) == ~cap.result /\ ~g.mem.recovered

\* finishRemoteWithResult up to its first await: the result is fetched before terminalization.
FinishRemoteWithResult(g, ev) ==
  IF g.mem.terminal THEN g
  ELSE IF KnownIncapable(g) THEN FinishWithTerminal(g, ev, "missing")
  ELSE [g EXCEPT !.fin = @ \cup {[seq |-> ev.seq, type |-> ev.type, tries |-> 0]}]

\* Mutant of ReconcileRemoteRecord: a record that is not terminal is taken for a stopped run.
ReconcileRemoteRecordStopped(g, s) ==
  IF g.mem.terminal THEN g
  ELSE FinishRemoteWithResult([g EXCEPT !.mem.nextSeq = @ + 1],
         [seq |-> g.mem.nextSeq, type |-> IF s \in TerminalRun THEN TaskStatus(s) ELSE "cancelled"])

\* reconcileRemoteRecord: the first terminal record takes a sequence number and finishes the task.
ReconcileRemoteRecord(g, s) ==
  IF g.mem.terminal \/ s \notin TerminalRun THEN g
  ELSE FinishRemoteWithResult([g EXCEPT !.mem.nextSeq = @ + 1],
                              [seq |-> g.mem.nextSeq, type |-> TaskStatus(s)])

\* Mutant of PersistThenPush: the event is published whatever the append said.
PersistThenPushAnyway(g, seq, type) ==
  PushEvent([g EXCEPT !.row = AppendTaskEvent(@, seq, type, -1)], seq, type)

\* persistThenPush: published only if the durable append took it.
PersistThenPush(g, seq, type) ==
  LET r == AppendTaskEvent(g.row, seq, type, -1)
  IN  IF r = g.row THEN g ELSE PushEvent([g EXCEPT !.row = r], seq, type)

\* resolveTerminalResult of a local task: a completed run's own record has it.
ResolveTerminalResult(type) == IF type = "completed" THEN NodeResult ELSE "missing"

\* ingest, for an event of a live stream or of a local run: a remote end fetches its result first.
Ingest(g, k) ==
  LET type == TaskEvent(k)
      h == [g EXCEPT !.mem.nextSeq = @ + 1]
  IN  IF g.mem.terminal \/ type = Null THEN g
      ELSE IF type \in TerminalTypes
      THEN LET ev == [seq |-> g.mem.nextSeq, type |-> type]
           IN  IF cap.local THEN FinishWithTerminal(h, ev, ResolveTerminalResult(type))
               ELSE FinishRemoteWithResult(h, ev)
      ELSE PersistThenPush(h, g.mem.nextSeq, type)

\* startPoll: drain now and at every timer tick.
StartPoll(g, pos) == [g EXCEPT !.pump = [mode |-> "poll", pos |-> pos, after |-> NoCursor]]

\* The events among the first i of a journal that map to an event of the task.
MappedEvents(journal, i) == {j \in 1 .. i : TaskEvent(journal[j]) # Null}

\* seedRecoveredLocalCursor: skips as many mapped events as the durable log holds.
SeedRecoveredLocalCursor(g) ==
  LET enough == {i \in 0 .. Len(node.journal) - 1 : Cardinality(MappedEvents(node.journal, i)) >= g.mem.nextSeq - 1}
  IN  IF enough = {} THEN Len(node.journal) ELSE Min(enough)

\* maybeClearCatchUp: the incompleteness marker goes, once, when the cursor has reached the
\* cutoff of a replay the Node declared complete.
MaybeClearCatchUp(g) ==
  IF g.mem.cleared \/ ~g.mem.complete \/ g.row.cursor < g.mem.cutoff THEN g
  ELSE [g EXCEPT !.mem.cleared = TRUE, !.row = ClearTaskHistoryIncomplete(@)]

\* ingestSource, for an event of a replay stream: durable first, published only when applied; a
\* terminal event finishes the task and fetches its result afterwards.
IngestSource(g, k, s) ==
  LET type == TaskEvent(k)
      r == IF type = Null THEN AdvanceSourceCursor(g.row, s) ELSE IngestSourceEvent(g.row, s, type)
      seq == Len(g.row.log)
      applied == Len(r.log) > seq
      h == [g EXCEPT !.row = r,
                     !.mem.nextSeq = IF applied /\ @ <= seq THEN seq + 1 ELSE @]
      p == IF applied THEN PushEvent(h, seq, type) ELSE h
  IN  IF g.mem.terminal THEN g
      ELSE MaybeClearCatchUp(
             IF applied /\ type \in TerminalTypes THEN [FinishTask(p) EXCEPT !.post = TRUE] ELSE p)

\* handleReplayMeta: the Node says what it will replay; a truncated prefix marks the history.
HandleReplayMeta(g, complete) ==
  LET h == [g EXCEPT !.mem.complete = complete, !.mem.cutoff = Len(node.journal) - 1]
  IN  IF complete THEN MaybeClearCatchUp(h) ELSE [h EXCEPT !.row = MarkTaskHistoryIncomplete(@)]

\* startReplayPump: the subscription carries the cursor a; the Node answers with its metadata and
\* replays from the cursor, or from the oldest event it still has.
StartReplayPump(g, a) ==
  IF g.mem.terminal THEN g
  ELSE LET complete == node.first <= a + 1
       IN  HandleReplayMeta(
             [g EXCEPT !.pump = [mode |-> "replay", after |-> a,
                                 pos |-> IF complete THEN a + 1 ELSE node.first]], complete)

\* startRemotePump: a live subscription sees the events emitted after it.
StartRemotePump(g) ==
  IF g.mem.terminal THEN g
  ELSE [g EXCEPT !.pump = [mode |-> "live", pos |-> Len(node.journal), after |-> NoCursor]]

\* resumePump: replay from the persisted cursor when the task has one, otherwise live.
ResumePump(g) ==
  IF g.pump.mode # "none" THEN g
  ELSE IF g.row.cursor # NoCursor THEN StartReplayPump(g, g.row.cursor) ELSE StartRemotePump(g)
-----------------------------------------------------------------------------
(* The run on its Node *)

NodeEmit(k) ==
  /\ node.status = "running" /\ Len(node.journal) < MaxJournal
  /\ node' = [node EXCEPT !.journal = Append(@, k)]
  /\ UNCHANGED <<cap, row, mem, pump, calls, fin, post, pub, faults>>

\* runSupervisor at the end of the run; finalizeResult may find an output when it completed.
NodeFinish(s) ==
  /\ node.status = "running"
  /\ \E o \in {FALSE, s = "completed"} :
       node' = [node EXCEPT !.journal = Append(@, s), !.status = s, !.output = o]
  /\ UNCHANGED <<cap, row, mem, pump, calls, fin, post, pub, faults>>

\* The retention of the Node's journal drops its oldest event.
NodePrune ==
  /\ ~cap.local /\ faults > 0 /\ node.first < Len(node.journal) - 1
  /\ node' = [node EXCEPT !.first = @ + 1] /\ faults' = faults - 1
  /\ UNCHANGED <<cap, row, mem, pump, calls, fin, post, pub>>

\* persistRunResult, or the read of the run record, fails for a while.
ResultStoreFails ==
  /\ faults > 0 /\ node.store # "failing"
  /\ node' = [node EXCEPT !.store = "failing"] /\ faults' = faults - 1
  /\ UNCHANGED <<cap, row, mem, pump, calls, fin, post, pub>>

ResultStoreHeals ==
  /\ node.store = "failing" /\ node' = [node EXCEPT !.store = "healed"]
  /\ UNCHANGED <<cap, row, mem, pump, calls, fin, post, pub, faults>>
-----------------------------------------------------------------------------
(* The event pump: remoteStream and its callbacks *)

\* onRunEvent and onSourceEvent: the next event arrives; a terminal one ends the stream.
PumpEvent ==
  /\ mem.up /\ pump.mode \in {"live", "replay"} /\ pump.pos < Len(node.journal)
  /\ LET k == node.journal[pump.pos + 1]
         g == IF pump.mode = "live" THEN Ingest(G, k) ELSE IngestSource(G, k, pump.pos)
         p == IF k \in TerminalRun THEN NoPump ELSE [g.pump EXCEPT !.pos = @ + 1]
     IN  Becomes([g EXCEPT !.pump = p])
  /\ UNCHANGED <<node, cap, calls, faults>>

\* connectOnce: the socket closed before a terminal event; the same subscription, with the cursor
\* it was first opened with, is sent again.
Reconnect ==
  /\ mem.up /\ pump.mode \in {"live", "replay"} /\ faults > 0 /\ faults' = faults - 1
  /\ Becomes(IF pump.mode = "replay" THEN StartReplayPump(G, pump.after) ELSE StartRemotePump(G))
  /\ UNCHANGED <<node, cap, calls>>

\* The reconnect attempts are exhausted, or the stream was refused: onGiveUp starts
\* reconcileViaStatus unless one is running.
GiveUp ==
  /\ mem.up /\ pump.mode \in {"live", "replay"} /\ faults > 0 /\ faults' = faults - 1
  /\ Becomes([G EXCEPT !.pump = NoPump, !.mem.reconciling = TRUE])
  /\ calls' = IF mem.reconciling THEN calls
              ELSE calls \cup {[kind |-> "reconcile", reply |-> node.status, tries |-> 0]}
  /\ UNCHANGED <<node, cap>>

\* drain, of the poll timer or of a cancel: the next event of a local run, whose durable append is
\* a transaction of its own; an end stops the timer.
Drain ==
  /\ mem.up /\ pump.mode \in {"poll", "drain"} /\ pump.pos < Len(node.journal)
  /\ LET g == Ingest(G, node.journal[pump.pos + 1])
     IN  Becomes(IF g.mem.terminal THEN g ELSE [g EXCEPT !.pump.pos = @ + 1])
  /\ UNCHANGED <<node, cap, calls, faults>>

\* handleEvents: a new subscriber restarts the pump of a remote task that has none.
HandleEvents ==
  /\ ~cap.local /\ mem.up /\ ~mem.terminal /\ pump.mode = "none" /\ faults > 0 /\ faults' = faults - 1
  /\ Becomes(ResumePump(G))
  /\ UNCHANGED <<node, cap, calls>>
-----------------------------------------------------------------------------
(* The result fetch that precedes terminalization *)

\* remoteRunResult answered: the result is authoritative and the task finishes with it.
FetchOk(f) ==
  /\ mem.up /\ f \in fin
  /\ Becomes([FinishWithTerminal(G, f, NodeResult) EXCEPT !.fin = @ \ {f}])
  /\ UNCHANGED <<node, cap, calls, faults>>

\* Mutant of FetchFail: exhausted retries always fall back to a missing result.
FetchFailMissing(f) ==
  /\ mem.up /\ f \in fin /\ faults > 0 /\ faults' = faults - 1
  /\ Becomes([FinishWithTerminal(G, f, "missing") EXCEPT !.fin = @ \ {f}])
  /\ UNCHANGED <<node, cap, calls>>

\* remoteRunResult failed: while the task is not terminal there are Attempts attempts; then a
\* recovered task settles for a missing result and a fresh one is left non-terminal.
FetchFail(f) ==
  /\ mem.up /\ f \in fin /\ faults > 0 /\ faults' = faults - 1
  /\ LET g == [G EXCEPT !.fin = @ \ {f}]
     IN  Becomes(IF ~mem.terminal /\ f.tries + 1 < Attempts THEN [g EXCEPT !.fin = @ \cup {[f EXCEPT !.tries = @ + 1]}]
                 ELSE IF ~mem.terminal /\ mem.recovered THEN FinishWithTerminal(g, f, "missing")
                 ELSE g)
  /\ UNCHANGED <<node, cap, calls>>

\* fetchAndPersistRemoteResult after a replayed terminal event: one attempt.
PostFetchOk ==
  /\ mem.up /\ post
  /\ LET res == IF mem.pending # Null THEN mem.pending
                ELSE IF KnownIncapable(G) THEN "missing" ELSE NodeResult
     IN  Becomes([G EXCEPT !.post = FALSE, !.mem.pending = res, !.row = PersistTaskResult(@, res)])
  /\ UNCHANGED <<node, cap, calls, faults>>

PostFetchFail ==
  /\ mem.up /\ post /\ ~KnownIncapable(G) /\ faults > 0 /\ faults' = faults - 1
  /\ Becomes([G EXCEPT !.post = FALSE])
  /\ UNCHANGED <<node, cap, calls>>
-----------------------------------------------------------------------------
(* Status and stop calls *)

\* A request in flight, and the state its answer reports.
Call(kind, reply) == [kind |-> kind, reply |-> reply, tries |-> 0]

\* remoteStop: the Node has not seen the request yet. It settles once: by the Node's ack
\* (CancelDone), or by an error, a close or the timeout (CallFail).
RemoteStop == Call("stop", "unsent")

\* handleGet and handleCancel up to their status call, which a task terminal in memory skips.
\* The Node answers from its run record. (A GET of a local task only reads.)
StatusCall(kind) ==
  /\ ~cap.local /\ mem.up /\ ~mem.terminal
  /\ Cardinality({c \in calls : c.kind \in IF kind = "get" THEN {"get"} ELSE {"cancel", "stop"}})
       < IF kind = "get" THEN 1 ELSE MaxCancels
  /\ calls' = calls \cup {Call(kind, node.status)}
  /\ UNCHANGED <<node, cap, row, mem, pump, fin, post, pub, faults>>

\* Mutant of HandleGet: the record is returned but not folded in.
HandleGetOnly(c) ==
  /\ mem.up /\ c \in calls /\ c.kind = "get"
  /\ calls' = calls \ {c}
  /\ UNCHANGED <<node, cap, row, mem, pump, fin, post, pub, faults>>

\* handleGet: the reply is folded in.
HandleGet(c) ==
  /\ mem.up /\ c \in calls /\ c.kind = "get"
  /\ Becomes(ReconcileRemoteRecord(G, c.reply))
  /\ calls' = calls \ {c}
  /\ UNCHANGED <<node, cap, faults>>

\* handleCancel after its status call: a terminal record or a stop in flight ends the request,
\* otherwise the stop is sent.
HandleCancel(c) ==
  /\ mem.up /\ c \in calls /\ c.kind = "cancel"
  /\ LET send == c.reply \notin TerminalRun /\ ~mem.cancelling
     IN  /\ calls' = (calls \ {c}) \cup (IF send THEN {RemoteStop} ELSE {})
         /\ Becomes(IF send THEN [G EXCEPT !.mem.cancelling = TRUE] ELSE G)
  /\ UNCHANGED <<node, cap, faults>>

\* handleCancel of a local task: a run that has not ended is stopped, and its events drained from
\* the position the task is at. A recovered task that was not reconciled yet is at the start.
CancelLocal ==
  /\ mem.up /\ cap.local /\ node.status = "running"
  /\ node' = [node EXCEPT !.status = "stopped", !.journal = Append(@, "stopped")]
  /\ pump' = IF pump.mode = "none" /\ ~mem.terminal THEN [pump EXCEPT !.mode = "drain"] ELSE pump
  /\ UNCHANGED <<cap, row, mem, calls, fin, post, pub, faults>>

\* runStopLogic on the Node: a running run is stopped, a terminal one refuses.
NodeStop(c) ==
  /\ c \in calls /\ c.reply = "unsent"
  /\ LET s == IF node.status = "running" THEN "stopped" ELSE "already_terminal"
     IN  /\ calls' = (calls \ {c}) \cup {Call("stop", s)}
         /\ node' = IF s = "stopped"
                    THEN [node EXCEPT !.status = s, !.journal = Append(@, s)] ELSE node
  /\ UNCHANGED <<cap, row, mem, pump, fin, post, pub, faults>>

\* handleCancel after remoteStop: the stopped record is reconciled at once; a refused stop only
\* re-reads the record for its answer. cancelInFlight is cleared either way.
CancelDone(c) ==
  /\ mem.up /\ c \in calls /\ c.kind = "stop" /\ c.reply # "unsent"
  /\ Becomes([ReconcileRemoteRecord(G, c.reply) EXCEPT !.mem.cancelling = FALSE])
  /\ calls' = calls \ {c}
  /\ UNCHANGED <<node, cap, faults>>

\* reconcileViaStatus: the record is folded in; unless that made the task terminal, the pump is
\* resumed a bounded number of times, result fetch running or not.
ReconcileViaStatus(c) ==
  /\ mem.up /\ c \in calls /\ c.kind = "reconcile"
  /\ LET g == [ReconcileRemoteRecord(G, c.reply) EXCEPT !.mem.reconciling = FALSE]
     IN  Becomes(IF g.mem.terminal \/ g.mem.resumes >= MaxResumes THEN g
                 ELSE ResumePump([g EXCEPT !.mem.resumes = @ + 1]))
  /\ calls' = calls \ {c}
  /\ UNCHANGED <<node, cap, faults>>

\* reconcileRecovered, live-only: the record is folded in; a task that is still not terminal has
\* lost what was emitted during the downtime, which marks its history.
ReconcileRecovered(c) ==
  /\ mem.up /\ c \in calls /\ c.kind = "recover"
  /\ LET g == ReconcileRemoteRecord(G, c.reply)
     IN  Becomes(IF g.mem.terminal \/ g.pump.mode # "none" THEN g
                 ELSE StartRemotePump([g EXCEPT !.row = MarkTaskHistoryIncomplete(@)]))
  /\ calls' = calls \ {c}
  /\ UNCHANGED <<node, cap, faults>>

\* reconcileRecovered of a local task: the record of an ended run finishes the task, without the
\* events of the downtime; a running one is polled from the seeded position.
ReconcileLocal ==
  /\ mem.up /\ cap.local /\ mem.recovered /\ ~mem.terminal /\ pump.mode = "none"
  /\ LET type == TaskStatus(node.status)
     IN  Becomes(IF node.status = "running" THEN StartPoll(G, SeedRecoveredLocalCursor(G))
                 ELSE FinishWithTerminal([G EXCEPT !.mem.nextSeq = @ + 1],
                        [seq |-> mem.nextSeq, type |-> type], ResolveTerminalResult(type)))
  /\ UNCHANGED <<node, cap, calls, faults>>

\* A status or stop reply is lost, late or an error. reconcileViaStatus and reconcileRecovered try
\* Attempts times; the handlers of a client's request give up. A lost stop may have been executed.
CallFail(c) ==
  /\ mem.up /\ c \in calls /\ faults > 0 /\ faults' = faults - 1
  /\ IF c.kind \in {"reconcile", "recover"} /\ c.tries + 1 < Attempts
     THEN /\ calls' = (calls \ {c}) \cup {[c EXCEPT !.tries = @ + 1, !.reply = node.status]}
          /\ UNCHANGED mem
     ELSE /\ calls' = calls \ {c}
          /\ mem' = [mem EXCEPT !.cancelling = (@ /\ c.kind # "stop"),
                                !.reconciling = (@ /\ c.kind # "reconcile")]
  /\ UNCHANGED <<node, cap, row, pump, fin, post, pub>>
-----------------------------------------------------------------------------
(* Crash and recovery of the gateway process *)

Crash ==
  /\ mem.up /\ faults > 0 /\ faults' = faults - 1
  /\ mem' = [FreshMem EXCEPT !.up = FALSE]
  /\ pump' = NoPump /\ calls' = {} /\ fin' = {} /\ post' = FALSE
  /\ UNCHANGED <<node, cap, row, pub>>

\* recoverTasks: a non-terminal row is registered again, numbered from its durable log, and its
\* source is replayed or its status asked; a terminal row stays on disk.
Recover ==
  /\ ~mem.up
  /\ LET m == [FreshMem EXCEPT !.nextSeq = Len(row.log), !.recovered = TRUE,
                               !.terminal = IsTerminal(row)]
         g == [G EXCEPT !.mem = m]
         replay == row.cursor # NoCursor
     IN  /\ Becomes(IF replay THEN StartReplayPump(g, row.cursor) ELSE g)
         /\ calls' = IF replay \/ cap.local \/ IsTerminal(row) THEN {} ELSE {Call("recover", node.status)}
  /\ UNCHANGED <<node, cap, faults>>
-----------------------------------------------------------------------------
Next ==
  \/ \E k \in EventKinds : NodeEmit(k)
  \/ \E s \in {"completed", "failed"} : NodeFinish(s)
  \/ NodePrune \/ ResultStoreFails \/ ResultStoreHeals
  \/ PumpEvent \/ Drain \/ Reconnect \/ GiveUp \/ HandleEvents
  \/ \E f \in fin : FetchOk(f)
  \/ \E f \in fin : FetchFail(f)
  \/ PostFetchOk \/ PostFetchFail
  \/ \E kind \in {"get", "cancel"} : StatusCall(kind)
  \/ \E c \in calls : HandleGet(c)
  \/ \E c \in calls : HandleCancel(c)
  \/ \E c \in calls : NodeStop(c)
  \/ \E c \in calls : CancelDone(c)
  \/ \E c \in calls : ReconcileViaStatus(c)
  \/ \E c \in calls : ReconcileRecovered(c)
  \/ \E c \in calls : CallFail(c)
  \/ CancelLocal \/ ReconcileLocal
  \/ Crash \/ Recover

Spec == Init /\ [][Next]_vars

\* Fairness. A client polls the task (the workflow runtime polls GET until the task is terminal),
\* a status call and a result fetch that are not lost are answered, the timers of a local task
\* fire, and a gateway that went down is started again. Nothing is assumed of the run, of the event stream or of cancels.
Fairness ==
  /\ WF_vars(StatusCall("get"))
  /\ WF_vars(\E c \in calls : HandleGet(c))
  /\ WF_vars(\E f \in fin : FetchOk(f))
  /\ WF_vars(Drain \/ ReconcileLocal)
  /\ WF_vars(Recover)

FairSpec == Spec /\ Fairness
-----------------------------------------------------------------------------
(* Properties *)

Abs == INSTANCE AgentTask WITH
         outcome <- IF node.status = "running" THEN "none" ELSE TaskStatus(node.status),
         status <- row.status,
         log <- [i \in 1 .. Len(row.log) |-> row.log[i].type],
         result <- row.result,
         Outcomes <- TerminalTypes, Output <- "completed", EventTypes <- {"delta"}

\* The durable task behaves as the abstract task of the API: whatever interleaving of replay,
\* live events, GET, cancel, retries and restarts produced it, its log only grows, nothing
\* follows the one terminal event, the recorded status is the outcome the Node's run had, and
\* the result is written once (the once-only guards of finishWithTerminal,
\* terminalizeTaskWithResultDurable and ingestSourceEventDurable).
ImplementsAgentTask == Abs!AbsSpec

\* The durable log is exactly its source. The replayed part is the mapped events of the Node's
\* journal up to the persisted cursor, in order, each once: reconnects that resend the prefix,
\* restarts and journal truncation neither duplicate nor skip one (ingestSourceEventDurable). The
\* log of a local task that is polled is the mapped events of the run up to the position of the
\* poll, in order, each once, restarts included (seedRecoveredLocalCursor).
SourceLogExact ==
  LET replayed == {i \in DOMAIN row.log : row.log[i].src >= 0}
      mapped(i) == MappedEvents(node.journal, i)
  IN  /\ {row.log[i].src : i \in replayed} = {k \in 0 .. row.cursor : TaskEvent(node.journal[k + 1]) # Null}
      /\ \A i \in replayed : row.log[i].type = TaskEvent(node.journal[row.log[i].src + 1])
      /\ \A i, j \in replayed : i < j => row.log[i].src < row.log[j].src
      /\ cap.local /\ pump.mode = "poll" =>
           /\ Len(row.log) = Cardinality(mapped(pump.pos)) + 1
           /\ \A j \in mapped(pump.pos) : row.log[Cardinality(mapped(j)) + 1].type = TaskEvent(node.journal[j])

\* The output of a completed run on a Node that offers the result protocol is never recorded as
\* missing while the gateway that created the task lives, unless the Node itself could not store or
\* read it: an outage between the gateway and the Node, or answers lost at every attempt, leave the
\* task open instead (finishRemoteWithResult).
OutputKept ==
  cap.result /\ ~mem.recovered /\ mem.up /\ node.output /\ node.store = "sound" => row.result # "missing"

\* Once the run has ended the task eventually leaves the active set, through the stream, a GET, a
\* cancel or recovery, so its slot is freed (finishTask).
TaskSettles == (node.status # "running") ~> mem.terminal

\* Everything but a terminal event that a subscriber was sent is in the durable log at the same
\* sequence, through sequence races of the stream, GETs and recovery: persistThenPush and
\* ingestSource write "events durably BEFORE SSE publish". (finishWithTerminal does not.)
PublishedIsDurable ==
  \A p \in pub : p[2] \notin TerminalTypes =>
    p[1] < Len(row.log) /\ row.log[p[1] + 1].type = p[2]

=============================================================================
