-------------------------- MODULE GatewayTask_proof --------------------------
(***************************************************************************)
(* Proofs about GatewayTask: the durable task implements the abstract task *)
(* of module AgentTask, what subscribers were sent is durable, the output  *)
(* of a completed run is kept, and the log is exactly its source,          *)
(* for journals, cancels, result fetches, faults, resumes and attempts     *)
(* without bound.                                                          *)
(***************************************************************************)
EXTENDS GatewayTask, FiniteSetTheorems, SequenceTheorems, WellFoundedInduction, TLAPS

\* The states of the gateway for this task.
Gs == [row : Rows, mem : Mems, pump : Pumps, fin : SUBSET Finishers, post : BOOLEAN,
       pub : SUBSET (Nat \X LogTypes)]

\* The run's journal is true to its status: an end in it is the end of the run; and only a completed
\* run has an output.
OutputTrue == node.output => node.status = "completed"
NodeTrue == OutputTrue /\ \A i \in 1 .. Len(node.journal) : node.journal[i] \in TerminalRun => node.status = node.journal[i]

\* A terminal status on its way to the gateway is the one the run has.
CallsTrue == \A c \in calls : c.reply \in TerminalRun => node.status = c.reply

\* A result that somebody may have of this run.
ResultTrue(res) == /\ res # Null => node.status # "running"
                   /\ res = "available" => node.status = "completed"

\* The durable row shows the outcome of the run, and a result only once it is terminal.
RowTrue(r) ==
  /\ r.status # "running" => node.status # "running" /\ r.status = TaskStatus(node.status)
  /\ r.result # Null => r.status # "running"
  /\ ResultTrue(r.result)

\* The finishers in flight carry the outcome of the run.
FinTrue(fs) == \A f \in fs : node.status # "running" /\ f.type = TaskStatus(node.status)

\* What was published, terminal events aside, is in the log.
PubTrue(log, ps) ==
  \A p \in ps : p[2] \notin TerminalTypes => p[1] < Len(log) /\ log[p[1] + 1].type = p[2]

\* Where the output cannot be lost: the run has one, the Node could always store it, and the gateway
\* that created the task, and knows that the Node offers the result protocol, is the one that runs.
Attended(m) == cap.result /\ ~m.recovered /\ m.up /\ node.output /\ node.store = "sound"

\* What holds of the gateway's state even between the durable end of a task and its end in memory.
Sound(g) ==
  /\ g \in Gs
  /\ RowTrue(g.row) /\ FinTrue(g.fin) /\ ResultTrue(g.mem.pending) /\ PubTrue(g.row.log, g.pub)
  /\ g.post => g.row.status # "running"
  /\ Attended(g.mem) => g.row.result # "missing" /\ g.mem.pending # "missing"
  /\ g.pump.mode = "replay" => g.pump.after # NoCursor

\* A task that is terminal on disk is terminal in memory.
Good(g) == Sound(g) /\ (g.mem.up /\ g.row.status # "running" => g.mem.terminal)

IInv ==
  /\ node \in Nodes /\ cap \in Caps /\ calls \in SUBSET Calls /\ faults \in 0 .. MaxFaults
  /\ NodeTrue /\ CallsTrue /\ Good(G)

\* Two rows that tell a client the same.
SameTask(r, s) == s.status = r.status /\ s.log = r.log /\ s.result = r.result

\* What a step may do to the row a client sees: nothing, record an event, settle, attach a result.
RowStep(r, s) ==
  \/ SameTask(r, s)
  \/ /\ r.status = "running" /\ s.status = r.status /\ s.result = r.result
     /\ \E src \in Int : s.log = Append(r.log, [type |-> "delta", src |-> src])
  \/ /\ r.status = "running" /\ node.status # "running" /\ s.status = TaskStatus(node.status)
     /\ s.result = "available" => node.status = "completed"
     /\ \E src \in Int : s.log = Append(r.log, [type |-> s.status, src |-> src])
  \/ /\ r.status # "running" /\ r.result = Null /\ s.result \in {"available", "missing"}
     /\ s.result = "available" => node.status = "completed"
     /\ s.status = r.status /\ s.log = r.log

-----------------------------------------------------------------------------
(* Operators *)

\* The order of the naturals, as a relation.
Less == {ss \in Nat \X Nat : ss[1] < ss[2]}

\* The least of a nonempty set of naturals exists.
LEMMA LeastNatural ==
  ASSUME NEW T \in SUBSET Nat, T # {}
  PROVE  Min(T) \in T /\ \A y \in T : Min(T) <= y
<1>1. IsWellFoundedOn(Less, Nat)
  BY NatLessThanWellFounded, Zenon DEF OpToRel, Less
<1>2. \E x \in T : \A y \in T : ~ (<<y, x>> \in Less)
  BY <1>1, WFMin
<1>3. \A x, y \in Nat : y < x => <<y, x>> \in Less
  BY DEF Less
<1>4. \E x \in T : \A y \in T : x <= y
  <2>1. PICK x \in T : \A y \in T : ~ (<<y, x>> \in Less)
    BY <1>2
  <2>2. \A y \in T : ~(y < x)
    BY <1>3, <2>1
  <2> QED BY <2>2
<1> QED BY <1>4 DEF Min

\* The outcome of an ended run is a terminal type, and "completed" only of a completed run.
LEMMA TaskStatusType ==
  ASSUME NEW s \in RunStatuses, s # "running"
  PROVE  /\ TaskStatus(s) \in TerminalTypes /\ TaskStatus(s) # "running"
         /\ (TaskStatus(s) = "completed" <=> s = "completed")
BY DEF TaskStatus, RunStatuses, TerminalTypes

\* What the mapping of a journaled event can be.
LEMMA TaskEventType ==
  ASSUME NEW k \in EventKinds \cup TerminalRun
  PROVE  /\ TaskEvent(k) = Null => k = "skip"
         /\ TaskEvent(k) # Null /\ TaskEvent(k) \notin TerminalTypes => TaskEvent(k) = "delta"
         /\ TaskEvent(k) \in TerminalTypes => k \in TerminalRun /\ TaskEvent(k) = TaskStatus(k)
BY DEF TaskEvent, TaskStatus, EventKinds, TerminalRun, RunStatuses, TerminalTypes, Null

\* The in-memory task is replaced.
LEMMA SetMem ==
  ASSUME NEW g \in Gs, NEW m \in Mems
  PROVE  LET h == [g EXCEPT !.mem = m]
         IN  /\ h \in Gs /\ h.row = g.row /\ h.mem = m /\ h.pump = g.pump /\ h.fin = g.fin
             /\ h.post = g.post /\ h.pub = g.pub
BY DEF Gs

\* The row of the gateway's state is replaced.
LEMMA SetRow ==
  ASSUME NEW g \in Gs, NEW r \in Rows
  PROVE  LET h == [g EXCEPT !.row = r]
         IN  /\ h \in Gs /\ h.row = r /\ h.mem = g.mem /\ h.pump = g.pump /\ h.fin = g.fin
             /\ h.post = g.post /\ h.pub = g.pub
BY DEF Gs

\* The pump is replaced.
LEMMA SetPump ==
  ASSUME NEW g \in Gs, NEW p \in Pumps
  PROVE  LET h == [g EXCEPT !.pump = p]
         IN  /\ h \in Gs /\ h.row = g.row /\ h.mem = g.mem /\ h.pump = p /\ h.fin = g.fin
             /\ h.post = g.post /\ h.pub = g.pub
BY DEF Gs

\* The finishers are replaced.
LEMMA SetFin ==
  ASSUME NEW g \in Gs, NEW f \in SUBSET Finishers
  PROVE  LET h == [g EXCEPT !.fin = f]
         IN  /\ h \in Gs /\ h.row = g.row /\ h.mem = g.mem /\ h.pump = g.pump /\ h.fin = f
             /\ h.post = g.post /\ h.pub = g.pub
BY DEF Gs

\* What was published is replaced.
LEMMA SetPub ==
  ASSUME NEW g \in Gs, NEW p \in SUBSET (Nat \X LogTypes)
  PROVE  LET h == [g EXCEPT !.pub = p]
         IN  /\ h \in Gs /\ h.row = g.row /\ h.mem = g.mem /\ h.pump = g.pump /\ h.fin = g.fin
             /\ h.post = g.post /\ h.pub = p
BY DEF Gs

\* The marker of a result fetch after the end is replaced.
LEMMA SetPost ==
  ASSUME NEW g \in Gs, NEW b \in BOOLEAN
  PROVE  LET h == [g EXCEPT !.post = b]
         IN  /\ h \in Gs /\ h.row = g.row /\ h.mem = g.mem /\ h.pump = g.pump /\ h.fin = g.fin
             /\ h.post = b /\ h.pub = g.pub
BY DEF Gs

\* What a client sees, and what the facts about it depend on, is left alone.
LEMMA Touch ==
  ASSUME NEW g, Good(g), NEW h \in Gs, SameTask(g.row, h.row),
         h.mem.up = g.mem.up, h.mem.terminal = g.mem.terminal, h.mem.recovered = g.mem.recovered,
         h.mem.pending = g.mem.pending, h.fin \subseteq g.fin, h.post => g.post, h.pub = g.pub,
         h.pump.mode = "replay" => h.pump.after # NoCursor
  PROVE  Good(h) /\ RowStep(g.row, h.row)
<1>1. RowTrue(h.row) /\ FinTrue(h.fin) /\ ResultTrue(h.mem.pending) /\ PubTrue(h.row.log, h.pub)
  BY DEF Good, Sound, SameTask, RowTrue, FinTrue, PubTrue
<1>2. Attended(h.mem) => h.row.result # "missing" /\ h.mem.pending # "missing"
  BY DEF Good, Sound, SameTask, Attended
<1> QED BY <1>1, <1>2 DEF Good, Sound, SameTask, RowStep

\* The log is extended by one entry.
LEMMA LogGrows ==
  ASSUME NEW r \in Rows, NEW type \in LogTypes, NEW src \in Int
  PROVE  LET log == Append(r.log, [type |-> type, src |-> src])
         IN  /\ log \in Seq([type : LogTypes, src : Int]) /\ Len(log) = Len(r.log) + 1
             /\ Len(r.log) \in Nat /\ log[Len(r.log) + 1].type = type
             /\ \A i \in 1 .. Len(r.log) : log[i] = r.log[i]
<1>1. r.log \in Seq([type : LogTypes, src : Int]) /\ [type |-> type, src |-> src] \in [type : LogTypes, src : Int]
  BY DEF Rows
<1> QED BY <1>1, AppendProperties, LenProperties

\* What was published stays in a log that grows.
LEMMA PubGrows ==
  ASSUME NEW r \in Rows, NEW type \in LogTypes, NEW src \in Int, NEW ps \in SUBSET (Nat \X LogTypes),
         PubTrue(r.log, ps)
  PROVE  /\ PubTrue(Append(r.log, [type |-> type, src |-> src]), ps)
         /\ PubTrue(Append(r.log, [type |-> type, src |-> src]), ps \cup {<<Len(r.log), type>>})
<1> DEFINE log == Append(r.log, [type |-> type, src |-> src])
<1>1. /\ Len(log) = Len(r.log) + 1 /\ Len(r.log) \in Nat /\ log[Len(r.log) + 1].type = type
      /\ \A i \in 1 .. Len(r.log) : log[i] = r.log[i]
  BY LogGrows
<1> HIDE DEF log
<1>2. ASSUME NEW p \in ps, p[2] \notin TerminalTypes
      PROVE  p[1] < Len(log) /\ log[p[1] + 1].type = p[2]
  <2>1. p[1] \in Nat /\ p[1] < Len(r.log) /\ r.log[p[1] + 1].type = p[2]
    BY <1>2 DEF PubTrue
  <2> QED BY <1>1, <2>1
<1>3. Len(r.log) < Len(log)
  BY <1>1
<1> QED BY <1>1, <1>2, <1>3 DEF PubTrue, log

\* Publishing a terminal event says nothing about the log.
LEMMA PubTerminal ==
  ASSUME NEW log, NEW ps, PubTrue(log, ps), NEW seq, NEW type \in TerminalTypes
  PROVE  PubTrue(log, ps \cup {<<seq, type>>})
BY DEF PubTrue

-----------------------------------------------------------------------------
(* The functions that leave the task as a client sees it *)

\* The parts of a step's state that the quiet functions do not touch.
Quiet(g, h) ==
  /\ Good(h) /\ SameTask(g.row, h.row) /\ h.mem.up = g.mem.up /\ h.mem.terminal = g.mem.terminal
  /\ h.mem.recovered = g.mem.recovered /\ h.mem.pending = g.mem.pending

\* FinishTask ends the task in memory.
LEMMA FinishTaskGood ==
  ASSUME NEW g, Sound(g)
  PROVE  /\ Good(FinishTask(g)) /\ FinishTask(g).row = g.row /\ FinishTask(g).mem.up = g.mem.up
         /\ FinishTask(g).mem.terminal /\ FinishTask(g).mem.recovered = g.mem.recovered
         /\ FinishTask(g).fin = g.fin /\ FinishTask(g).pub = g.pub /\ FinishTask(g).post = g.post
<1>1. CASE g.mem.terminal
  BY <1>1 DEF FinishTask, Good
<1>2. CASE ~g.mem.terminal
  <2> DEFINE m == [g.mem EXCEPT !.terminal = TRUE]
             h == [[g EXCEPT !.mem = m] EXCEPT !.pump = NoPump]
  <2>1. g \in Gs /\ g.mem \in Mems /\ NoPump \in Pumps
    BY DEF Good, Sound, Gs, NoPump, Pumps, Cursors
  <2>2. /\ m \in Mems /\ m.up = g.mem.up /\ m.terminal = TRUE /\ m.recovered = g.mem.recovered
        /\ m.pending = g.mem.pending
    BY <2>1 DEF Mems
  <2>3. FinishTask(g) = h
    BY <1>2, <2>1 DEF FinishTask, Gs
  <2> HIDE DEF m
  <2>4. /\ h \in Gs /\ h.row = g.row /\ h.mem = m /\ h.pump = NoPump /\ h.fin = g.fin /\ h.post = g.post
        /\ h.pub = g.pub
    BY <2>1, <2>2 DEF Gs
  <2> HIDE DEF h
  <2>5. Attended(h.mem) = Attended(g.mem)
    BY <2>2, <2>4 DEF Attended
  <2>6. Good(h)
    BY <2>2, <2>4, <2>5 DEF Good, Sound, NoPump
  <2> QED BY <2>2, <2>3, <2>4, <2>6
<1> QED BY <1>1, <1>2

\* MaybeClearCatchUp removes the marker of an incomplete history.
LEMMA MaybeClearGood ==
  ASSUME NEW g, Good(g)
  PROVE  Quiet(g, MaybeClearCatchUp(g))
<1>1. CASE MaybeClearCatchUp(g) = g
  BY <1>1 DEF Quiet, SameTask
<1>2. CASE MaybeClearCatchUp(g) # g
  <2> DEFINE m == [g.mem EXCEPT !.cleared = TRUE]
             r == [g.row EXCEPT !.hist = FALSE]
             h == [[g EXCEPT !.mem = m] EXCEPT !.row = r]
  <2>1. g \in Gs /\ g.mem \in Mems /\ g.row \in Rows
    BY DEF Good, Sound, Gs
  <2>2. /\ m \in Mems /\ m.up = g.mem.up /\ m.terminal = g.mem.terminal
        /\ m.recovered = g.mem.recovered /\ m.pending = g.mem.pending
    BY <2>1 DEF Mems
  <2>3. r \in Rows /\ SameTask(g.row, r)
    BY <2>1 DEF Rows, SameTask
  <2>4. MaybeClearCatchUp(g) = h
    BY <1>2, <2>1 DEF MaybeClearCatchUp, ClearTaskHistoryIncomplete, Gs
  <2> HIDE DEF m, r
  <2>5. /\ h \in Gs /\ h.row = r /\ h.mem = m /\ h.pump = g.pump /\ h.fin = g.fin /\ h.post = g.post
        /\ h.pub = g.pub
    BY <2>1, <2>2, <2>3 DEF Gs
  <2> HIDE DEF h
  <2>6. Good(h)
    BY <2>2, <2>3, <2>5, Touch DEF Good, Sound
  <2> QED BY <2>2, <2>3, <2>4, <2>5, <2>6 DEF Quiet
<1> QED BY <1>1, <1>2

\* HandleReplayMeta takes note of what the Node will replay.
LEMMA HandleReplayMetaGood ==
  ASSUME NEW g, Good(g), NEW complete \in BOOLEAN, node \in Nodes
  PROVE  Quiet(g, HandleReplayMeta(g, complete))
<1> DEFINE cutoff == Len(node.journal) - 1
           m == [g.mem EXCEPT !.complete = complete, !.cutoff = cutoff]
           h == [g EXCEPT !.mem = m]
           r == [g.row EXCEPT !.hist = TRUE]
<1>1. g \in Gs /\ g.mem \in Mems /\ g.row \in Rows /\ cutoff \in Int
  BY DEF Good, Sound, Gs, Nodes
<1>2. h = [g EXCEPT !.mem.complete = complete, !.mem.cutoff = Len(node.journal) - 1]
  BY <1>1 DEF Gs
<1>3. HandleReplayMeta(g, complete) = IF complete THEN MaybeClearCatchUp(h) ELSE [h EXCEPT !.row = r]
  <2>1. h.row = g.row /\ h \in [row : {g.row}, mem : {m}, pump : {g.pump}, fin : {g.fin}, post : {g.post},
                               pub : {g.pub}]
    BY <1>1 DEF Gs
  <2> QED BY <1>2, <2>1 DEF HandleReplayMeta, MarkTaskHistoryIncomplete
<1> HIDE DEF cutoff
<1>4. /\ m \in Mems /\ m.up = g.mem.up /\ m.terminal = g.mem.terminal
      /\ m.recovered = g.mem.recovered /\ m.pending = g.mem.pending
  BY <1>1 DEF Mems
<1> HIDE DEF m
<1>5. /\ h \in Gs /\ h.row = g.row /\ h.mem = m /\ h.pump = g.pump /\ h.fin = g.fin /\ h.post = g.post
      /\ h.pub = g.pub
  BY <1>1, <1>4, SetMem
<1> HIDE DEF h
<1>6. Good(h) /\ SameTask(g.row, h.row)
  BY <1>4, <1>5, Touch DEF Good, Sound, SameTask
<1>7. CASE complete
  BY <1>3, <1>4, <1>5, <1>6, <1>7, MaybeClearGood DEF Quiet, SameTask
<1>8. CASE ~complete
  <2> DEFINE i == [h EXCEPT !.row = r]
  <2>1. r \in Rows /\ SameTask(g.row, r)
    BY <1>1 DEF Rows, SameTask
  <2> HIDE DEF r
  <2>2. /\ i \in Gs /\ i.row = r /\ i.mem = m /\ i.pump = g.pump /\ i.fin = g.fin /\ i.post = g.post
        /\ i.pub = g.pub
    BY <1>5, <2>1, SetRow
  <2> HIDE DEF i
  <2>3. Good(i)
    BY <1>4, <2>1, <2>2, Touch DEF Good, Sound
  <2>4. HandleReplayMeta(g, complete) = i
    BY <1>3, <1>8 DEF i
  <2> QED BY <1>4, <2>1, <2>2, <2>3, <2>4 DEF Quiet
<1> QED BY <1>7, <1>8

\* A pump is started: by polling, live, or by a replay from a cursor.
LEMMA SetPumpGood ==
  ASSUME NEW g, Good(g), NEW p \in Pumps, p.mode = "replay" => p.after # NoCursor
  PROVE  Quiet(g, [g EXCEPT !.pump = p])
<1> DEFINE h == [g EXCEPT !.pump = p]
<1>1. /\ h \in Gs /\ h.row = g.row /\ h.mem = g.mem /\ h.pump = p /\ h.fin = g.fin /\ h.post = g.post
      /\ h.pub = g.pub
  BY SetPump DEF Good, Sound
<1> HIDE DEF h
<1>2. Good(h)
  BY <1>1, Touch DEF SameTask
<1>3. Quiet(g, h)
  BY <1>1, <1>2 DEF Quiet, SameTask
<1> QED BY <1>3 DEF h

\* StartReplayPump subscribes with a cursor.
LEMMA StartReplayPumpGood ==
  ASSUME NEW g, Good(g), NEW a \in Cursors, a # NoCursor, node \in Nodes
  PROVE  Quiet(g, StartReplayPump(g, a))
<1> DEFINE complete == node.first <= a + 1
           p == [mode |-> "replay", after |-> a, pos |-> IF complete THEN a + 1 ELSE node.first]
           h == [g EXCEPT !.pump = p]
<1>1. StartReplayPump(g, a) = IF g.mem.terminal THEN g ELSE HandleReplayMeta(h, complete)
  BY DEF StartReplayPump
<1>2. complete \in BOOLEAN
  OBVIOUS
<1>3. p \in Pumps /\ p.mode = "replay" /\ p.after = a
  <2>1. a + 1 \in Nat /\ node.first \in Nat
    BY DEF Cursors, NoCursor, Nodes
  <2>2. (IF complete THEN a + 1 ELSE node.first) \in Nat
    BY <2>1
  <2> QED BY <2>2 DEF Pumps
<1> HIDE DEF p, complete
<1>4. Quiet(g, h)
  BY <1>3, SetPumpGood
<1> HIDE DEF h
<1>5. Quiet(h, HandleReplayMeta(h, complete))
  BY <1>2, <1>4, HandleReplayMetaGood DEF Quiet
<1> QED BY <1>1, <1>4, <1>5 DEF Quiet, SameTask

\* StartRemotePump subscribes to the events to come.
LEMMA StartRemotePumpGood ==
  ASSUME NEW g, Good(g), node \in Nodes
  PROVE  Quiet(g, StartRemotePump(g))
<1> DEFINE p == [mode |-> "live", pos |-> Len(node.journal), after |-> NoCursor]
<1>1. p \in Pumps /\ p.mode = "live"
  BY DEF Pumps, Cursors, Nodes
<1>2. StartRemotePump(g) = IF g.mem.terminal THEN g ELSE [g EXCEPT !.pump = p]
  BY DEF StartRemotePump
<1> HIDE DEF p
<1> QED BY <1>1, <1>2, SetPumpGood DEF Quiet, SameTask

\* ResumePump starts the one the row has a cursor for.
LEMMA ResumePumpGood ==
  ASSUME NEW g, Good(g), node \in Nodes
  PROVE  Quiet(g, ResumePump(g))
<1>1. g.row.cursor \in Cursors
  BY DEF Good, Sound, Gs, Rows
<1> QED BY <1>1, StartReplayPumpGood, StartRemotePumpGood DEF ResumePump, Quiet, SameTask

-----------------------------------------------------------------------------
(* The functions that record, settle and attach *)

\* A terminal type is a type of the log.
LEMMA TerminalLogType == \A t \in TerminalTypes : t \in LogTypes
BY DEF LogTypes

\* FinishWithTerminal settles an open task with the outcome of its run and a result it may have.
LEMMA FinishWithTerminalGood ==
  ASSUME NEW g, Good(g), g.mem.up, node \in Nodes, node.status # "running",
         NEW ev, ev.seq \in Nat, ev.type = TaskStatus(node.status),
         NEW res \in {"available", "missing"}, res = "available" => node.status = "completed",
         Attended(g.mem) => res # "missing"
  PROVE  LET h == FinishWithTerminal(g, ev, res)
         IN  Good(h) /\ RowStep(g.row, h.row) /\ h.mem.up /\ h.fin = g.fin
<1> DEFINE m == [g.mem EXCEPT !.pending = res]
           h == [g EXCEPT !.mem = m]
           r == TerminalizeWithResult(g.row, ev, res)
           i == [h EXCEPT !.row = r]
           pubs == g.pub \cup {<<ev.seq, ev.type>>}
           j == [i EXCEPT !.pub = pubs]
<1>1. g \in Gs /\ g.mem \in Mems /\ g.row \in Rows /\ g.pub \in SUBSET (Nat \X LogTypes) /\ res \in Results
  BY DEF Good, Sound, Gs, Results
<1>2. /\ ev.type \in TerminalTypes /\ ev.type \in LogTypes /\ node.status \in RunStatuses
      /\ ev.type # "running"
  BY TaskStatusType, TerminalLogType DEF Nodes
<1>3. h = [g EXCEPT !.mem.pending = res]
  BY <1>1 DEF Gs
<1>4. /\ m \in Mems /\ m.up = g.mem.up /\ m.terminal = g.mem.terminal
      /\ m.recovered = g.mem.recovered /\ m.pending = res
  BY <1>1 DEF Mems
<1>5. /\ h \in Gs /\ h.row = g.row /\ h.mem = m /\ h.pump = g.pump /\ h.fin = g.fin /\ h.post = g.post
      /\ h.pub = g.pub
  BY <1>1, <1>4, SetMem
<1>6. FinishWithTerminal(g, ev, res) = IF g.mem.terminal THEN h ELSE FinishTask(j)
  <2>1. i.pub = g.pub
    BY <1>5 DEF Gs
  <2> QED BY <1>3, <1>5, <2>1 DEF FinishWithTerminal, PushEvent
<1> HIDE DEF m
<1>7. ResultTrue(res) /\ (Attended(m) => res # "missing") /\ (Attended(m) <=> Attended(g.mem))
  BY <1>4 DEF ResultTrue, Attended, Null
<1> HIDE DEF h
<1>8. CASE g.mem.terminal
  <2>1. Good(h)
    BY <1>4, <1>5, <1>7, <1>8 DEF Good, Sound
  <2> QED BY <1>4, <1>5, <1>6, <1>8, <2>1 DEF RowStep, SameTask
<1>9. CASE ~g.mem.terminal
  <2>1. g.row.status = "running" /\ g.row.result = Null /\ ~g.post
    BY <1>9 DEF Good, Sound, RowTrue
  <2> DEFINE log == Append(g.row.log, [type |-> ev.type, src |-> -1])
             e == [g.row EXCEPT !.log = log, !.status = ev.type, !.result = res]
  <2>2. r = g.row \/ r = e
    <3>1. Append(g.row.log, [type |-> ev.type, src |-> -1]) = log
      OBVIOUS
    <3> QED BY <1>1, <2>1 DEF TerminalizeWithResult, AppendTaskEvent, IsTerminal, Rows
  <2>3. log \in Seq([type : LogTypes, src : Int]) /\ PubTrue(log, g.pub)
    <3>1. -1 \in Int /\ PubTrue(g.row.log, g.pub)
      BY DEF Good, Sound
    <3>2. log \in Seq([type : LogTypes, src : Int])
      BY <1>1, <1>2, <3>1, LogGrows
    <3>3. PubTrue(log, g.pub)
      BY <1>1, <1>2, <3>1, PubGrows
    <3> QED BY <3>2, <3>3
  <2>4. e \in Rows /\ e.log = log /\ e.status = ev.type /\ e.result = res
    <3> HIDE DEF log
    <3> QED BY <1>1, <1>2, <2>3 DEF Rows
  <2>5. r \in Rows /\ PubTrue(r.log, g.pub)
    BY <1>1, <2>2, <2>3, <2>4 DEF Good, Sound
  <2>6. RowStep(g.row, r)
    <3>1. CASE r = g.row
      BY <3>1 DEF RowStep, SameTask
    <3>2. CASE r = e
      <4>1. -1 \in Int /\ r.log = Append(g.row.log, [type |-> r.status, src |-> -1])
        BY <2>4, <3>2
      <4>2. \E src \in Int : r.log = Append(g.row.log, [type |-> r.status, src |-> src])
        BY <4>1
      <4> QED BY <2>1, <2>4, <3>2, <4>2 DEF RowStep
    <3> QED BY <2>2, <3>1, <3>2
  <2>7. RowTrue(r)
    BY <1>7, <2>2, <2>4, TaskStatusType DEF Good, Sound, RowTrue, Nodes
  <2>8. r.result \in {Null, res}
    BY <2>1, <2>2, <2>4
  <2> HIDE DEF r, e, log
  <2>9. /\ i \in Gs /\ i.row = r /\ i.mem = m /\ i.pump = g.pump /\ i.fin = g.fin /\ i.post = g.post
        /\ i.pub = g.pub
    BY <1>5, <2>5, SetRow
  <2> HIDE DEF i
  <2>10. pubs \in SUBSET (Nat \X LogTypes) /\ PubTrue(r.log, pubs)
    <3>1. PubTrue(r.log, pubs)
      BY <1>2, <2>5, PubTerminal
    <3>2. <<ev.seq, ev.type>> \in Nat \X LogTypes
      BY <1>2
    <3> QED BY <1>1, <3>1, <3>2
  <2> HIDE DEF pubs
  <2>11. /\ j \in Gs /\ j.row = r /\ j.mem = m /\ j.pump = g.pump /\ j.fin = g.fin /\ j.post = g.post
         /\ j.pub = pubs
    BY <2>9, <2>10, SetPub
  <2> HIDE DEF j
  <2>12. Sound(j)
    BY <1>4, <1>7, <2>1, <2>7, <2>8, <2>10, <2>11 DEF Good, Sound, Null
  <2> QED BY <1>4, <1>6, <1>9, <2>6, <2>11, <2>12, FinishTaskGood, ZenonT(40)
<1> QED BY <1>8, <1>9

\* FinishRemoteWithResult settles at once, or leaves a finisher behind.
LEMMA FinishRemoteGood ==
  ASSUME NEW g, Good(g), g.mem.up, node \in Nodes, node.status # "running",
         NEW ev, ev.seq \in Nat, ev.type = TaskStatus(node.status)
  PROVE  LET h == FinishRemoteWithResult(g, ev)
         IN  Good(h) /\ RowStep(g.row, h.row) /\ h.mem.up
<1>1. CASE g.mem.terminal
  BY <1>1 DEF FinishRemoteWithResult, RowStep, SameTask
<1>2. CASE ~g.mem.terminal /\ KnownIncapable(g)
  <2>1. ~Attended(g.mem)
    BY <1>2 DEF Attended, KnownIncapable
  <2>2. FinishRemoteWithResult(g, ev) = FinishWithTerminal(g, ev, "missing")
    BY <1>2 DEF FinishRemoteWithResult
  <2> QED BY <2>1, <2>2, FinishWithTerminalGood
<1>3. CASE ~g.mem.terminal /\ ~KnownIncapable(g)
  <2> DEFINE f == [seq |-> ev.seq, type |-> ev.type, tries |-> 0]
             fs == g.fin \cup {f}
             h == [g EXCEPT !.fin = fs]
  <2>1. FinishRemoteWithResult(g, ev) = h
    BY <1>3 DEF FinishRemoteWithResult
  <2>2. f \in Finishers /\ f.type = ev.type
    <3>1. ev.type \in TerminalTypes
      BY TaskStatusType DEF Nodes
    <3> QED BY <3>1, BoundsAssumption DEF Finishers
  <2> HIDE DEF f
  <2>3. fs \in SUBSET Finishers /\ FinTrue(fs) /\ g \in Gs
    BY <2>2 DEF Good, Sound, Gs, FinTrue
  <2> HIDE DEF fs
  <2>4. /\ h \in Gs /\ h.row = g.row /\ h.mem = g.mem /\ h.pump = g.pump /\ h.fin = fs /\ h.post = g.post
        /\ h.pub = g.pub
    BY <2>3, SetFin
  <2> HIDE DEF h
  <2>5. Good(h)
    BY <2>3, <2>4 DEF Good, Sound
  <2> QED BY <2>1, <2>4, <2>5 DEF RowStep, SameTask
<1> QED BY <1>1, <1>2, <1>3

\* A sequence number is taken.
LEMMA TakeSequence ==
  ASSUME NEW g, Good(g)
  PROVE  LET h == [g EXCEPT !.mem.nextSeq = @ + 1]
         IN  Quiet(g, h) /\ h.row = g.row /\ g.mem.nextSeq \in Nat /\ h.fin = g.fin
<1> DEFINE m == [g.mem EXCEPT !.nextSeq = g.mem.nextSeq + 1]
           h == [g EXCEPT !.mem = m]
<1>1. g \in Gs /\ g.mem \in Mems /\ g.mem.nextSeq \in Nat
  BY DEF Good, Sound, Gs, Mems
<1>2. h = [g EXCEPT !.mem.nextSeq = @ + 1]
  BY <1>1 DEF Gs
<1>3. /\ m \in Mems /\ m.up = g.mem.up /\ m.terminal = g.mem.terminal
      /\ m.recovered = g.mem.recovered /\ m.pending = g.mem.pending
  BY <1>1 DEF Mems
<1> HIDE DEF m
<1>4. /\ h \in Gs /\ h.row = g.row /\ h.mem = m /\ h.pump = g.pump /\ h.fin = g.fin /\ h.post = g.post
      /\ h.pub = g.pub
  BY <1>1, <1>3, SetMem
<1> HIDE DEF h
<1>5. Good(h)
  BY <1>3, <1>4, Touch DEF Good, Sound, SameTask
<1>6. Quiet(g, h)
  BY <1>3, <1>4, <1>5 DEF Quiet, SameTask
<1> QED BY <1>1, <1>2, <1>4, <1>6

\* ReconcileRemoteRecord settles the task with the status that a call brought.
LEMMA ReconcileGood ==
  ASSUME NEW g, Good(g), g.mem.up, node \in Nodes, NEW s, s \in TerminalRun => node.status = s
  PROVE  LET h == ReconcileRemoteRecord(g, s)
         IN  Good(h) /\ RowStep(g.row, h.row) /\ h.mem.up
<1>1. CASE g.mem.terminal \/ s \notin TerminalRun
  BY <1>1 DEF ReconcileRemoteRecord, RowStep, SameTask
<1>2. CASE ~g.mem.terminal /\ s \in TerminalRun
  <2> DEFINE h == [g EXCEPT !.mem.nextSeq = @ + 1]
             ev == [seq |-> g.mem.nextSeq, type |-> TaskStatus(s)]
  <2>1. ReconcileRemoteRecord(g, s) = FinishRemoteWithResult(h, ev)
    BY <1>2 DEF ReconcileRemoteRecord
  <2>2. Good(h) /\ h.mem.up /\ h.row = g.row /\ g.mem.nextSeq \in Nat
    BY TakeSequence DEF Quiet
  <2>3. node.status # "running" /\ ev.seq \in Nat /\ ev.type = TaskStatus(node.status)
    BY <1>2, <2>2 DEF TerminalRun
  <2> HIDE DEF h, ev
  <2> QED BY <2>1, <2>2, <2>3, FinishRemoteGood
<1> QED BY <1>1, <1>2

\* PersistThenPush records an event if its sequence is the next one, and only then publishes it.
LEMMA PersistThenPushGood ==
  ASSUME NEW g, Good(g), g.mem.up, ~g.mem.terminal, NEW seq \in Nat
  PROVE  LET h == PersistThenPush(g, seq, "delta")
         IN  Good(h) /\ RowStep(g.row, h.row) /\ h.mem.up
<1> DEFINE log == Append(g.row.log, [type |-> "delta", src |-> -1])
           r == [g.row EXCEPT !.log = log]
           h == [g EXCEPT !.row = r]
           pubs == g.pub \cup {<<Len(g.row.log), "delta">>}
           i == [h EXCEPT !.pub = pubs]
<1>1. /\ g \in Gs /\ g.row \in Rows /\ g.pub \in SUBSET (Nat \X LogTypes) /\ -1 \in Int
      /\ "delta" \in LogTypes /\ g.row.status = "running" /\ PubTrue(g.row.log, g.pub)
  BY DEF Good, Sound, Gs, LogTypes
<1>2. log \in Seq([type : LogTypes, src : Int]) /\ Len(g.row.log) \in Nat
  BY <1>1, LogGrows
<1>3. PubTrue(log, pubs)
  BY <1>1, PubGrows
<1>4. PersistThenPush(g, seq, "delta") = g \/ PersistThenPush(g, seq, "delta") = i
  <2>1. CASE seq = Len(g.row.log)
    <3>1. AppendTaskEvent(g.row, seq, "delta", -1) = r
      BY <2>1 DEF AppendTaskEvent
    <3>2. h.pub = g.pub
      BY <1>1 DEF Gs
    <3> QED BY <2>1, <3>1, <3>2 DEF PersistThenPush, PushEvent
  <2>2. CASE seq # Len(g.row.log)
    BY <2>2 DEF PersistThenPush, AppendTaskEvent
  <2> QED BY <2>1, <2>2
<1>5. RowStep(g.row, r)
  <2>1. r.log = log /\ r.status = g.row.status /\ r.result = g.row.result
    BY <1>1 DEF Rows
  <2>2. \E src \in Int : r.log = Append(g.row.log, [type |-> "delta", src |-> src])
    BY <1>1, <2>1
  <2> QED BY <1>1, <2>1, <2>2 DEF RowStep
<1> HIDE DEF log
<1>6. r \in Rows /\ r.log = log /\ r.status = g.row.status /\ r.result = g.row.result
  BY <1>1, <1>2 DEF Rows
<1> HIDE DEF r
<1>7. /\ h \in Gs /\ h.row = r /\ h.mem = g.mem /\ h.pump = g.pump /\ h.fin = g.fin /\ h.post = g.post
      /\ h.pub = g.pub
  BY <1>1, <1>6, SetRow
<1> HIDE DEF h
<1>8. pubs \in SUBSET (Nat \X LogTypes)
  BY <1>1, <1>2
<1> HIDE DEF pubs
<1>9. /\ i \in Gs /\ i.row = r /\ i.mem = g.mem /\ i.pump = g.pump /\ i.fin = g.fin /\ i.post = g.post
      /\ i.pub = pubs
  BY <1>7, <1>8, SetPub
<1> HIDE DEF i
<1>10. Good(i)
  BY <1>3, <1>6, <1>9 DEF Good, Sound, RowTrue
<1>11. RowStep(g.row, g.row)
  BY DEF RowStep, SameTask
<1> QED BY <1>4, <1>5, <1>9, <1>10, <1>11

\* ResolveTerminalResult and the result protocol give a result the run may have.
LEMMA NodeResultTrue ==
  ASSUME node \in Nodes, node.status # "running", OutputTrue
  PROVE  /\ NodeResult \in {"available", "missing"}
         /\ NodeResult = "available" => node.status = "completed"
         /\ node.output /\ node.store = "sound" => NodeResult # "missing"
         /\ ResolveTerminalResult(TaskStatus(node.status)) = NodeResult
<1>1. node.status \in RunStatuses
  BY DEF Nodes
<1>2. NodeResult = "available" => node.status = "completed"
  BY DEF NodeResult, OutputTrue
<1>3. NodeResult \in {"available", "missing"} /\ (node.output /\ node.store = "sound" => NodeResult # "missing")
  BY DEF NodeResult
<1>4. ResolveTerminalResult(TaskStatus(node.status)) = NodeResult
  BY <1>1, <1>2, <1>3, TaskStatusType DEF ResolveTerminalResult, TaskStatus
<1> QED BY <1>2, <1>3, <1>4

\* Ingest records an event of a live stream, or finishes the task with an end.
LEMMA IngestGood ==
  ASSUME NEW g, Good(g), g.mem.up, node \in Nodes, OutputTrue,
         NEW k \in EventKinds \cup TerminalRun, k \in TerminalRun => node.status = k
  PROVE  LET h == Ingest(g, k)
         IN  Good(h) /\ RowStep(g.row, h.row) /\ h.mem.up
<1> DEFINE h == [g EXCEPT !.mem.nextSeq = @ + 1]
           ev == [seq |-> g.mem.nextSeq, type |-> TaskEvent(k)]
<1>1. Quiet(g, h) /\ Good(h) /\ h.mem.up /\ h.row = g.row /\ g.mem.nextSeq \in Nat
  BY TakeSequence DEF Quiet
<1>2. CASE g.mem.terminal \/ TaskEvent(k) = Null
  BY <1>2 DEF Ingest, RowStep, SameTask
<1>3. CASE ~g.mem.terminal /\ TaskEvent(k) \in TerminalTypes
  <2>1. k \in TerminalRun /\ TaskEvent(k) = TaskStatus(k) /\ node.status = k /\ node.status # "running"
    BY <1>3, TaskEventType DEF TerminalRun
  <2>2. TaskEvent(k) # Null
    BY <1>3 DEF TerminalTypes, Null
  <2>3. Ingest(g, k) = IF cap.local THEN FinishWithTerminal(h, ev, ResolveTerminalResult(TaskEvent(k)))
                       ELSE FinishRemoteWithResult(h, ev)
    BY <1>3, <2>2 DEF Ingest
  <2>4. ev.seq \in Nat /\ ev.type = TaskStatus(node.status)
    BY <1>1, <2>1
  <2>5. /\ ResolveTerminalResult(TaskEvent(k)) \in {"available", "missing"}
        /\ ResolveTerminalResult(TaskEvent(k)) = "available" => node.status = "completed"
        /\ node.output /\ node.store = "sound" => ResolveTerminalResult(TaskEvent(k)) # "missing"
    BY <2>1, NodeResultTrue
  <2>6. Attended(h.mem) => ResolveTerminalResult(TaskEvent(k)) # "missing"
    BY <2>5 DEF Attended
  <2> HIDE DEF h, ev
  <2> QED BY <1>1, <2>1, <2>3, <2>4, <2>5, <2>6, FinishWithTerminalGood, FinishRemoteGood
<1>4. CASE ~g.mem.terminal /\ TaskEvent(k) # Null /\ TaskEvent(k) \notin TerminalTypes
  <2>1. TaskEvent(k) = "delta"
    BY <1>4, TaskEventType
  <2>2. Ingest(g, k) = PersistThenPush(h, g.mem.nextSeq, "delta")
    BY <1>4, <2>1 DEF Ingest
  <2>3. ~h.mem.terminal
    BY <1>1, <1>4 DEF Quiet
  <2> HIDE DEF h
  <2> QED BY <1>1, <2>2, <2>3, PersistThenPushGood
<1> QED BY <1>2, <1>3, <1>4

\* IngestSource records an event of a replay at its cursor; an end finishes the task.
LEMMA IngestSourceGood ==
  ASSUME NEW g, Good(g), g.mem.up, node \in Nodes, NEW k \in EventKinds \cup TerminalRun,
         k \in TerminalRun => node.status = k, NEW s \in Nat
  PROVE  LET h == IngestSource(g, k, s)
         IN  Good(h) /\ RowStep(g.row, h.row) /\ h.mem.up
<1> DEFINE type == TaskEvent(k)
           r == IF type = Null THEN AdvanceSourceCursor(g.row, s) ELSE IngestSourceEvent(g.row, s, type)
           seq == Len(g.row.log)
           applied == Len(r.log) > seq
           n == IF applied /\ g.mem.nextSeq <= seq THEN seq + 1 ELSE g.mem.nextSeq
           m == [g.mem EXCEPT !.nextSeq = n]
           h == [[g EXCEPT !.row = r] EXCEPT !.mem = m]
           pubs == g.pub \cup {<<seq, type>>}
           p == IF applied THEN [h EXCEPT !.pub = pubs] ELSE h
           q == IF applied /\ type \in TerminalTypes THEN [FinishTask(p) EXCEPT !.post = TRUE] ELSE p
<1>1. CASE g.mem.terminal
  BY <1>1 DEF IngestSource, RowStep, SameTask
<1>2. CASE ~g.mem.terminal
  <2>1. /\ g \in Gs /\ g.row \in Rows /\ g.mem \in Mems /\ g.pub \in SUBSET (Nat \X LogTypes)
        /\ g.row.status = "running" /\ g.row.result = Null /\ PubTrue(g.row.log, g.pub)
        /\ seq \in Nat /\ g.mem.nextSeq \in Nat /\ s \in Cursors
    BY <1>2 DEF Good, Sound, RowTrue, Gs, Rows, Mems, Cursors
  <2>2. IngestSource(g, k, s) = MaybeClearCatchUp(q)
    <3>1. h = [g EXCEPT !.row = r, !.mem.nextSeq = IF applied /\ @ <= seq THEN seq + 1 ELSE @]
      BY <2>1 DEF Gs
    <3>2. h.pub = g.pub
      BY <2>1 DEF Gs
    <3> QED BY <1>2, <3>1, <3>2 DEF IngestSource, PushEvent
  <2>3. n \in Nat
    BY <2>1
  \* What becomes of the row.
  <2>4. /\ r \in Rows /\ RowTrue(r) /\ r.result = g.row.result /\ RowStep(g.row, r)
        /\ \/ ~applied /\ SameTask(g.row, r) /\ PubTrue(r.log, g.pub)
           \/ /\ applied /\ type \in LogTypes /\ PubTrue(r.log, pubs)
              /\ r.status = IF type \in TerminalTypes THEN type ELSE "running"
    <3>1. CASE r = g.row \/ r = [g.row EXCEPT !.cursor = s]
      <4>1. r \in Rows /\ SameTask(g.row, r)
        BY <2>1, <3>1 DEF Rows, SameTask
      <4>2. ~applied
        BY <2>1, <4>1 DEF SameTask
      <4> HIDE DEF r
      <4> QED BY <2>1, <4>1, <4>2 DEF Good, Sound, RowTrue, RowStep, SameTask
    <3>2. CASE r # g.row /\ r # [g.row EXCEPT !.cursor = s]
      <4> DEFINE log == Append(g.row.log, [type |-> type, src |-> s])
                 st == IF type \in TerminalTypes THEN type ELSE g.row.status
                 e == [g.row EXCEPT !.log = log, !.cursor = s, !.status = st]
      <4>1. type # Null /\ r = e
        <5>1. type # Null
          BY <3>2 DEF AdvanceSourceCursor
        <5>2. r = IngestSourceEvent(g.row, s, type) /\ s = g.row.cursor + 1
          BY <3>2, <5>1 DEF IngestSourceEvent
        <5> QED BY <2>1, <5>1, <5>2 DEF IngestSourceEvent, AppendTaskEvent, Rows
      <4>2. type = "delta" \/ (type \in TerminalTypes /\ type = TaskStatus(node.status) /\ node.status # "running")
        BY <4>1, TaskEventType DEF TerminalRun
      <4>3. type \in LogTypes /\ s \in Int
        BY <4>2, TerminalLogType DEF LogTypes
      <4>4. log \in Seq([type : LogTypes, src : Int]) /\ Len(log) = seq + 1
        BY <2>1, <4>3, LogGrows, ZenonT(40)
      <4>5. PubTrue(log, pubs)
        BY <2>1, <4>3, PubGrows
      <4>6. \E src \in Int : log = Append(g.row.log, [type |-> type, src |-> src])
        BY <4>3
      <4>7. "delta" \notin TerminalTypes /\ "running" \notin TerminalTypes
        BY DEF TerminalTypes
      <4>8. st \in {"running"} \cup TerminalTypes
        BY <2>1
      <4> HIDE DEF type, log
      <4>9. r \in Rows /\ r.log = log /\ r.status = st /\ r.result = g.row.result
        BY <2>1, <4>1, <4>4, <4>8 DEF Rows
      <4>10. applied
        BY <2>1, <4>4, <4>9
      <4>11. RowTrue(r)
        BY <2>1, <4>2, <4>7, <4>9 DEF Good, Sound, RowTrue
      <4>12. RowStep(g.row, r)
        BY <2>1, <4>2, <4>6, <4>7, <4>9 DEF RowStep, Null
      <4> QED BY <2>1, <4>3, <4>5, <4>9, <4>10, <4>11, <4>12
    <3> QED BY <3>1, <3>2
  <2>5. /\ m \in Mems /\ m.up = g.mem.up /\ m.terminal = g.mem.terminal
        /\ m.recovered = g.mem.recovered /\ m.pending = g.mem.pending
    <3> HIDE DEF n
    <3> QED BY <2>1, <2>3 DEF Mems
  <2> HIDE DEF m, r, n, type
  <2>6. /\ h \in Gs /\ h.row = r /\ h.mem = m /\ h.pump = g.pump /\ h.fin = g.fin /\ h.post = g.post
        /\ h.pub = g.pub
    BY <2>1, <2>4, <2>5 DEF Gs
  <2> HIDE DEF h
  <2>7. ~g.post /\ (Attended(m) <=> Attended(g.mem))
    BY <2>1, <2>5 DEF Good, Sound, Attended
  <2>8. CASE ~applied
    <3>1. q = h
      BY <2>8
    <3>2. Good(h)
      BY <2>1, <2>4, <2>5, <2>6, <2>8, Touch DEF Good, Sound
    <3> HIDE DEF q
    <3>3. Quiet(h, MaybeClearCatchUp(h))
      BY <3>2, MaybeClearGood
    <3>4. RowStep(g.row, MaybeClearCatchUp(h).row)
      BY <2>4, <2>6, <2>8, <3>3 DEF Quiet, SameTask, RowStep
    <3> QED BY <2>2, <2>5, <2>6, <3>1, <3>3, <3>4 DEF Quiet
  <2>9. CASE applied
    <3> DEFINE i == [h EXCEPT !.pub = pubs]
    <3>1. pubs \in SUBSET (Nat \X LogTypes)
      BY <2>1, <2>4, <2>9
    <3> HIDE DEF pubs
    <3>2. /\ i \in Gs /\ i.row = r /\ i.mem = m /\ i.pump = g.pump /\ i.fin = g.fin /\ i.post = g.post
          /\ i.pub = pubs
      BY <2>6, <3>1, SetPub
    <3>3. p = i
      BY <2>9
    <3> HIDE DEF i, p
    <3>4. Sound(i)
      BY <2>1, <2>4, <2>5, <2>7, <2>9, <3>2 DEF Good, Sound, Null
    <3>5. Good(q) /\ q.row = r /\ q.mem.up
      <4>1. CASE type \in TerminalTypes
        <5> DEFINE j == FinishTask(i)
        <5>1. Good(j) /\ j.row = r /\ j.mem.up /\ j \in Gs
          BY <2>5, <3>2, <3>4, FinishTaskGood DEF Good, Sound
        <5>2. q = [j EXCEPT !.post = TRUE]
          BY <2>9, <3>3, <4>1
        <5> HIDE DEF j, q
        <5>3. /\ q \in Gs /\ q.row = j.row /\ q.mem = j.mem /\ q.pump = j.pump /\ q.fin = j.fin
              /\ q.post = TRUE /\ q.pub = j.pub
          BY <5>1, <5>2, SetPost
        <5>4. r.status # "running"
          BY <2>4, <2>9, <4>1 DEF TerminalTypes
        <5> QED BY <5>1, <5>3, <5>4 DEF Good, Sound
      <4>2. CASE type \notin TerminalTypes
        <5>1. q = i
          BY <2>9, <3>3, <4>2
        <5>2. r.status = "running"
          BY <2>4, <2>9, <4>2
        <5> QED BY <2>5, <3>2, <3>4, <5>1, <5>2 DEF Good
      <4> QED BY <4>1, <4>2
    <3> HIDE DEF q
    <3>6. Quiet(q, MaybeClearCatchUp(q))
      BY <3>5, MaybeClearGood
    <3>7. RowStep(g.row, MaybeClearCatchUp(q).row)
      BY <2>4, <3>5, <3>6 DEF Quiet, SameTask, RowStep
    <3> QED BY <2>2, <3>5, <3>6, <3>7 DEF Quiet
  <2> QED BY <2>8, <2>9
<1> QED BY <1>1, <1>2

\* Two rows that look the same to a client, and a step before them.
LEMMA RowStepSame ==
  ASSUME NEW r, NEW s, NEW t, RowStep(r, s), SameTask(s, t)
  PROVE  RowStep(r, t)
BY DEF RowStep, SameTask

\* A field of the in-memory task that no fact depends on changes.
LEMMA SetMemGood ==
  ASSUME NEW g, Good(g), NEW m \in Mems, m.up = g.mem.up, m.terminal = g.mem.terminal,
         m.recovered = g.mem.recovered, m.pending = g.mem.pending
  PROVE  LET h == [g EXCEPT !.mem = m]
         IN  Quiet(g, h) /\ h.mem = m /\ h.pump = g.pump /\ h.fin = g.fin /\ h.row = g.row
<1> DEFINE h == [g EXCEPT !.mem = m]
<1>1. /\ h \in Gs /\ h.row = g.row /\ h.mem = m /\ h.pump = g.pump /\ h.fin = g.fin /\ h.post = g.post
      /\ h.pub = g.pub
  BY SetMem DEF Good, Sound
<1> HIDE DEF h
<1>2. Good(h)
  BY <1>1, Touch DEF Good, Sound, SameTask
<1>3. Quiet(g, h)
  BY <1>1, <1>2 DEF Quiet, SameTask
<1> QED BY <1>1, <1>3 DEF h

\* Finishers come and go.
LEMMA SetFinGood ==
  ASSUME NEW g, Good(g), NEW fs \in SUBSET Finishers, FinTrue(fs)
  PROVE  LET h == [g EXCEPT !.fin = fs]
         IN  Quiet(g, h) /\ h.mem = g.mem /\ h.row = g.row /\ h.fin = fs
<1> DEFINE h == [g EXCEPT !.fin = fs]
<1>1. /\ h \in Gs /\ h.row = g.row /\ h.mem = g.mem /\ h.pump = g.pump /\ h.fin = fs /\ h.post = g.post
      /\ h.pub = g.pub
  BY SetFin DEF Good, Sound
<1> HIDE DEF h
<1>2. Good(h)
  BY <1>1 DEF Good, Sound
<1>3. Quiet(g, h)
  BY <1>1, <1>2 DEF Quiet, SameTask
<1> QED BY <1>1, <1>3 DEF h

-----------------------------------------------------------------------------
(* Steps of the abstract task *)

\* A step of the abstract task, or none.
AbsStep == [Abs!AbsNext]_(Abs!absVars)

\* The log that a client sees.
TypesOf(log) == [i \in 1 .. Len(log) |-> log[i].type]

\* It grows with the log.
LEMMA TypesOfAppend ==
  ASSUME NEW r \in Rows, NEW type \in LogTypes, NEW src \in Int
  PROVE  TypesOf(Append(r.log, [type |-> type, src |-> src])) = Append(TypesOf(r.log), type)
<1> DEFINE log == Append(r.log, [type |-> type, src |-> src])
           n == Len(r.log)
<1>1. /\ Len(log) = n + 1 /\ n \in Nat /\ log[n + 1].type = type
      /\ \A i \in 1 .. n : log[i] = r.log[i]
  BY LogGrows
<1>2. TypesOf(r.log) \in Seq(LogTypes) /\ Len(TypesOf(r.log)) = n
  <2>0. r.log \in Seq([type : LogTypes, src : Int])
    BY DEF Rows
  <2>1. \A i \in 1 .. n : r.log[i].type \in LogTypes
    <3> SUFFICES ASSUME NEW i \in 1 .. n PROVE r.log[i] \in [type : LogTypes, src : Int]
      OBVIOUS
    <3> QED BY <2>0, ElementOfSeq
  <2>2. TypesOf(r.log) \in [1 .. n -> LogTypes]
    BY <2>1 DEF TypesOf
  <2> QED BY <1>1, <2>2
<1>3. /\ Append(TypesOf(r.log), type) \in Seq(LogTypes) /\ Len(Append(TypesOf(r.log), type)) = n + 1
      /\ Append(TypesOf(r.log), type)[n + 1] = type
      /\ \A i \in 1 .. n : Append(TypesOf(r.log), type)[i] = TypesOf(r.log)[i]
  BY <1>2, AppendProperties
<1> HIDE DEF log
<1>4. TypesOf(log) = [i \in 1 .. n + 1 |-> log[i].type]
  BY <1>1 DEF TypesOf
<1>5. Append(TypesOf(r.log), type) = [i \in 1 .. n + 1 |-> Append(TypesOf(r.log), type)[i]]
  BY <1>1, <1>3
<1>6. \A i \in 1 .. n + 1 : log[i].type = Append(TypesOf(r.log), type)[i]
  <2>1. \A i \in 1 .. n : TypesOf(r.log)[i] = r.log[i].type
    BY DEF TypesOf
  <2> QED BY <1>1, <1>3, <2>1
<1> QED BY <1>4, <1>5, <1>6 DEF log

\* What a step of the gateway does to the row is a step of the abstract task.
LEMMA RowStepIsAbstract ==
  ASSUME IInv, UNCHANGED node, row' \in Rows, RowStep(row, row')
  PROVE  AbsStep
<1>1. row \in Rows /\ node.status \in RunStatuses
  BY DEF IInv, Good, Sound, Gs, G, Nodes
<1>2. CASE SameTask(row, row')
  BY <1>2 DEF SameTask, AbsStep, Abs!absVars
<1>3. CASE /\ row.status = "running" /\ row'.status = row.status /\ row'.result = row.result
           /\ \E src \in Int : row'.log = Append(row.log, [type |-> "delta", src |-> src])
  <2>1. "delta" \in LogTypes
    BY DEF LogTypes
  <2>2. TypesOf(row'.log) = Append(TypesOf(row.log), "delta")
    BY <1>1, <1>3, <2>1, TypesOfAppend
  <2>3. Abs!Record("delta")
    BY <1>3, <2>2 DEF Abs!Record, TypesOf
  <2>4. \E e \in {"delta"} : Abs!Record(e)
    BY <2>3
  <2>5. Abs!AbsNext
    BY <2>4, Zenon DEF Abs!AbsNext
  <2> QED BY <2>5, Zenon DEF AbsStep
<1>4. CASE /\ row.status = "running" /\ node.status # "running" /\ row'.status = TaskStatus(node.status)
           /\ row'.result = "available" => node.status = "completed"
           /\ \E src \in Int : row'.log = Append(row.log, [type |-> row'.status, src |-> src])
  <2>1. /\ row'.status \in LogTypes /\ row'.result \in {"none", "available", "missing"}
        /\ TaskStatus(node.status) # "none"
        /\ (row'.result = "available" => TaskStatus(node.status) = "completed")
    BY <1>1, <1>4, TaskStatusType, TerminalLogType DEF Rows, Results, Null, TerminalTypes
  <2>2. TypesOf(row'.log) = Append(TypesOf(row.log), row'.status)
    BY <1>1, <1>4, <2>1, TypesOfAppend
  <2>3. \E r \in {"none", "available", "missing"} : Abs!Settle(r)
    <3>1. row'.result \in {"none", "available", "missing"}
      BY <2>1
    <3>2. \A r \in {"none", "available", "missing"} : r = row'.result => Abs!Settle(r)
      BY <1>4, <2>1, <2>2 DEF Abs!Settle, TypesOf
    <3> QED BY <3>1, <3>2, Zenon
  <2>4. Abs!AbsNext
    BY <2>3, Zenon DEF Abs!AbsNext
  <2> QED BY <2>4, Zenon DEF AbsStep
<1>5. CASE /\ row.status # "running" /\ row.result = Null /\ row'.result \in {"available", "missing"}
           /\ row'.result = "available" => node.status = "completed"
           /\ row'.status = row.status /\ row'.log = row.log
  <2>1. row'.result = "available" => node.status # "running" /\ TaskStatus(node.status) = "completed"
    BY <1>5 DEF TaskStatus
  <2>2. Abs!Attach(row'.result)
    BY <1>5, <2>1 DEF Abs!Attach, Null
  <2>3. \E r \in {"available", "missing"} : Abs!Attach(r)
    BY <1>5, <2>2
  <2>4. Abs!AbsNext
    BY <2>3, Zenon DEF Abs!AbsNext
  <2> QED BY <2>4, Zenon DEF AbsStep
<1> QED BY <1>2, <1>3, <1>4, <1>5 DEF RowStep

\* The gateway takes the state a handler computed.
LEMMA BecomesStep ==
  ASSUME IInv, NEW h, Good(h), RowStep(row, h.row), Becomes(h), UNCHANGED <<node, cap>>,
         calls' \in SUBSET Calls, CallsTrue', faults' \in 0 .. MaxFaults
  PROVE  IInv' /\ AbsStep
<1>1. /\ row' = h.row /\ mem' = h.mem /\ pump' = h.pump /\ post' = h.post /\ pub' = h.pub /\ fin' = h.fin
      /\ row' \in Rows
  BY DEF Becomes, Good, Sound, Gs
<1>2. G' = h
  BY <1>1 DEF G, Good, Sound, Gs
<1>3. Good(G)'
  BY <1>2 DEF Good, Sound, RowTrue, FinTrue, ResultTrue, PubTrue, Attended
<1>4. NodeTrue'
  BY DEF IInv, NodeTrue, OutputTrue
<1>5. AbsStep
  BY <1>1, RowStepIsAbstract
<1> QED BY <1>3, <1>4, <1>5 DEF IInv

\* The facts about the current state, in its own variables.
LEMMA Now ==
  ASSUME IInv
  PROVE  /\ Good(G) /\ G \in Gs /\ G.row = row /\ G.mem = mem /\ G.pump = pump /\ G.fin = fin
         /\ G.post = post /\ G.pub = pub
         /\ row \in Rows /\ mem \in Mems /\ pump \in Pumps /\ fin \in SUBSET Finishers
         /\ node \in Nodes /\ calls \in SUBSET Calls /\ faults \in 0 .. MaxFaults
         /\ node.status \in RunStatuses /\ NodeTrue /\ OutputTrue /\ CallsTrue
BY DEF IInv, Good, Sound, Gs, G, Nodes, NodeTrue

\* A quiet function of the current state.
LEMMA QuietStep ==
  ASSUME IInv, NEW h, Quiet(G, h), Becomes(h), UNCHANGED <<node, cap>>,
         calls' \in SUBSET Calls, CallsTrue', faults' \in 0 .. MaxFaults
  PROVE  IInv' /\ AbsStep
<1>1. Good(h) /\ RowStep(row, h.row)
  BY Now DEF Quiet, RowStep
<1> QED BY <1>1, BecomesStep

\* Requests end.
LEMMA FewerCalls ==
  ASSUME IInv, UNCHANGED node, calls' \subseteq calls
  PROVE  calls' \in SUBSET Calls /\ CallsTrue'
BY DEF IInv, CallsTrue

\* A fault is used up.
LEMMA FaultUsed ==
  ASSUME IInv, faults > 0, faults' = faults - 1
  PROVE  faults' \in 0 .. MaxFaults
BY BoundsAssumption DEF IInv

-----------------------------------------------------------------------------
(* The event pump *)

\* The next event of the journal is an event of the run.
LEMMA NextEvent ==
  ASSUME IInv, pump.pos < Len(node.journal)
  PROVE  /\ pump.pos \in Nat /\ node.journal[pump.pos + 1] \in EventKinds \cup TerminalRun
         /\ node.journal[pump.pos + 1] \in TerminalRun => node.status = node.journal[pump.pos + 1]
<1>1. pump.pos \in Nat /\ node.journal \in Seq(EventKinds \cup TerminalRun) /\ Len(node.journal) \in Nat
  BY Now DEF Pumps, Nodes
<1>2. pump.pos + 1 \in 1 .. Len(node.journal)
  BY <1>1
<1> QED BY <1>1, <1>2, Now, ElementOfSeq DEF NodeTrue

\* The position of a pump moves on.
LEMMA PumpMoves ==
  ASSUME NEW p \in Pumps
  PROVE  /\ [p EXCEPT !.pos = @ + 1] \in Pumps /\ [p EXCEPT !.pos = @ + 1].mode = p.mode
         /\ [p EXCEPT !.pos = @ + 1].after = p.after
BY DEF Pumps

\* PumpEvent: an event of the stream.
LEMMA PumpEventStep ==
  ASSUME IInv, PumpEvent
  PROVE  IInv' /\ AbsStep
<1> DEFINE k == node.journal[pump.pos + 1]
           g == IF pump.mode = "live" THEN Ingest(G, k) ELSE IngestSource(G, k, pump.pos)
           p == IF k \in TerminalRun THEN NoPump ELSE [g.pump EXCEPT !.pos = @ + 1]
           h == [g EXCEPT !.pump = p]
<1>1. Becomes(h) /\ UNCHANGED <<node, cap, calls, faults>> /\ mem.up /\ pump.pos < Len(node.journal)
  BY DEF PumpEvent
<1>2. Good(g) /\ RowStep(row, g.row)
  BY <1>1, Now, NextEvent, IngestGood, IngestSourceGood
<1> HIDE DEF g
<1>3. p \in Pumps /\ (p.mode = "replay" => p.after # NoCursor)
  <2>1. g.pump \in Pumps /\ (g.pump.mode = "replay" => g.pump.after # NoCursor)
    BY <1>2 DEF Good, Sound, Gs
  <2>2. NoPump \in Pumps /\ NoPump.mode = "none"
    BY DEF NoPump, Pumps, Cursors
  <2> QED BY <2>1, <2>2, PumpMoves
<1> HIDE DEF p
<1>4. Good(h) /\ SameTask(g.row, h.row)
  BY <1>2, <1>3, SetPumpGood DEF Quiet
<1> HIDE DEF h
<1>5. RowStep(row, h.row)
  BY <1>2, <1>4, RowStepSame
<1>6. calls' \in SUBSET Calls /\ CallsTrue' /\ faults' \in 0 .. MaxFaults
  BY <1>1, Now, FewerCalls
<1> QED BY <1>1, <1>4, <1>5, <1>6, BecomesStep

\* Drain: an event of a local run.
LEMMA DrainStep ==
  ASSUME IInv, Drain
  PROVE  IInv' /\ AbsStep
<1> DEFINE g == Ingest(G, node.journal[pump.pos + 1])
           p == [g.pump EXCEPT !.pos = @ + 1]
           h == IF g.mem.terminal THEN g ELSE [g EXCEPT !.pump = p]
<1>1. Good(g) /\ RowStep(row, g.row)
  BY Now, NextEvent, IngestGood DEF Drain
<1>2. Becomes(h) /\ UNCHANGED <<node, cap, calls, faults>>
  <2>1. [g EXCEPT !.pump = p] = [g EXCEPT !.pump.pos = @ + 1]
    BY <1>1 DEF Good, Sound, Gs
  <2> QED BY <2>1 DEF Drain
<1> HIDE DEF g
<1>3. g.pump \in Pumps /\ (g.pump.mode = "replay" => g.pump.after # NoCursor)
  BY <1>1 DEF Good, Sound, Gs
<1>4. p \in Pumps /\ (p.mode = "replay" => p.after # NoCursor)
  BY <1>3, PumpMoves
<1> HIDE DEF p
<1>5. Good(h) /\ SameTask(g.row, h.row)
  BY <1>1, <1>4, SetPumpGood DEF Quiet, SameTask
<1> HIDE DEF h
<1>6. RowStep(row, h.row)
  BY <1>1, <1>5, RowStepSame
<1>7. calls' \in SUBSET Calls /\ CallsTrue' /\ faults' \in 0 .. MaxFaults
  BY <1>2, Now, FewerCalls
<1> QED BY <1>2, <1>5, <1>6, <1>7, BecomesStep

\* Reconnect and HandleEvents subscribe again.
LEMMA ResubscribeStep ==
  ASSUME IInv, Reconnect \/ HandleEvents
  PROVE  IInv' /\ AbsStep
<1>1. UNCHANGED <<node, cap, calls>> /\ faults' \in 0 .. MaxFaults
  BY FaultUsed DEF Reconnect, HandleEvents
<1>2. calls' \in SUBSET Calls /\ CallsTrue'
  BY <1>1, FewerCalls
<1>3. CASE Reconnect
  <2>1. pump.after \in Cursors /\ (pump.mode = "replay" => pump.after # NoCursor)
    BY Now DEF Pumps, Good, Sound
  <2>2. PICK h : Becomes(h) /\ ((pump.mode = "replay" /\ h = StartReplayPump(G, pump.after)) \/ h = StartRemotePump(G))
    BY <1>3 DEF Reconnect
  <2>3. Quiet(G, h)
    BY <2>1, <2>2, Now, StartReplayPumpGood, StartRemotePumpGood
  <2> QED BY <1>1, <1>2, <2>2, <2>3, QuietStep
<1>4. CASE HandleEvents
  BY <1>1, <1>2, <1>4, Now, ResumePumpGood, QuietStep DEF HandleEvents
<1> QED BY <1>3, <1>4

\* GiveUp ends the pump and starts reconcileViaStatus.
LEMMA GiveUpStep ==
  ASSUME IInv, GiveUp
  PROVE  IInv' /\ AbsStep
<1> DEFINE m == [mem EXCEPT !.reconciling = TRUE]
           i == [G EXCEPT !.mem = m]
           h == [i EXCEPT !.pump = NoPump]
           c == [kind |-> "reconcile", reply |-> node.status, tries |-> 0]
<1>1. h = [G EXCEPT !.pump = NoPump, !.mem.reconciling = TRUE]
  BY Now DEF Gs
<1>2. Becomes(h) /\ UNCHANGED <<node, cap>> /\ faults' \in 0 .. MaxFaults
  BY <1>1, FaultUsed DEF GiveUp
<1>3. /\ m \in Mems /\ m.up = mem.up /\ m.terminal = mem.terminal
      /\ m.recovered = mem.recovered /\ m.pending = mem.pending
  BY Now DEF Mems
<1> HIDE DEF m
<1>4. Quiet(G, i)
  BY <1>3, Now, SetMemGood
<1> HIDE DEF i
<1>5. NoPump \in Pumps /\ NoPump.mode = "none"
  BY DEF NoPump, Pumps, Cursors
<1>6. Quiet(i, h)
  BY <1>4, <1>5, SetPumpGood DEF Quiet
<1> HIDE DEF h
<1>7. Quiet(G, h)
  BY <1>4, <1>6 DEF Quiet, SameTask
<1>8. c \in Calls /\ c.reply = node.status
  BY Now, BoundsAssumption DEF Calls
<1>9. calls' = calls \/ calls' = calls \cup {c}
  BY DEF GiveUp
<1> HIDE DEF c
<1>10. calls' \in SUBSET Calls /\ CallsTrue'
  BY <1>2, <1>8, <1>9, Now DEF CallsTrue
<1> QED BY <1>2, <1>7, <1>10, QuietStep

-----------------------------------------------------------------------------
(* Result fetches *)

\* The finishers without one.
LEMMA FewerFinishers ==
  ASSUME NEW g, Good(g), NEW f
  PROVE  g.fin \ {f} \in SUBSET Finishers /\ FinTrue(g.fin \ {f})
BY DEF Good, Sound, Gs, FinTrue

\* FetchOk finishes the task with the authoritative result.
LEMMA FetchOkStep ==
  ASSUME IInv, NEW f \in fin, FetchOk(f)
  PROVE  IInv' /\ AbsStep
<1> DEFINE g == FinishWithTerminal(G, f, NodeResult)
           h == [g EXCEPT !.fin = g.fin \ {f}]
<1>1. Becomes(h) /\ UNCHANGED <<node, cap, calls, faults>> /\ mem.up
  BY DEF FetchOk
<1>2. f.seq \in Nat /\ f.type = TaskStatus(node.status) /\ node.status # "running"
  BY Now DEF Good, Sound, FinTrue, Finishers
<1>3. /\ NodeResult \in {"available", "missing"} /\ (NodeResult = "available" => node.status = "completed")
      /\ (Attended(mem) => NodeResult # "missing")
  BY <1>2, Now, NodeResultTrue DEF Attended
<1>4. Good(g) /\ RowStep(row, g.row)
  BY <1>1, <1>2, <1>3, Now, FinishWithTerminalGood
<1> HIDE DEF g
<1>5. Quiet(g, h)
  BY <1>4, FewerFinishers, SetFinGood
<1> HIDE DEF h
<1>6. Good(h) /\ RowStep(row, h.row)
  BY <1>4, <1>5, RowStepSame DEF Quiet
<1>7. calls' \in SUBSET Calls /\ CallsTrue' /\ faults' \in 0 .. MaxFaults
  BY <1>1, Now, FewerCalls
<1> QED BY <1>1, <1>6, <1>7, BecomesStep

\* FetchFail tries again, settles for a missing result, or leaves the task open.
LEMMA FetchFailStep ==
  ASSUME IInv, NEW f \in fin, FetchFail(f)
  PROVE  IInv' /\ AbsStep
<1> DEFINE g == [G EXCEPT !.fin = G.fin \ {f}]
           e == [f EXCEPT !.tries = @ + 1]
           i == [g EXCEPT !.fin = g.fin \cup {e}]
           j == FinishWithTerminal(g, f, "missing")
<1>1. UNCHANGED <<node, cap, calls>> /\ faults' \in 0 .. MaxFaults /\ mem.up
  BY FaultUsed DEF FetchFail
<1>2. calls' \in SUBSET Calls /\ CallsTrue'
  BY <1>1, FewerCalls
<1>3. /\ f \in Finishers /\ f.seq \in Nat /\ f.type = TaskStatus(node.status) /\ node.status # "running"
      /\ f.tries \in 0 .. Attempts - 1
  BY Now DEF Good, Sound, FinTrue, Finishers
<1>4. Quiet(G, g) /\ g.mem = mem /\ g.row = row /\ Good(g)
  BY Now, FewerFinishers, SetFinGood, ZenonT(40) DEF Quiet
<1>5. \/ Becomes(i) /\ f.tries + 1 < Attempts
      \/ Becomes(j) /\ mem.recovered
      \/ Becomes(g)
  BY DEF FetchFail
<1> HIDE DEF g
<1>6. CASE Becomes(i) /\ f.tries + 1 < Attempts
  <2>1. e \in Finishers /\ e.type = f.type
    <3>1. f.tries + 1 \in 0 .. Attempts - 1
      BY <1>3, <1>6, BoundsAssumption
    <3> QED BY <1>3, <3>1 DEF Finishers
  <2> HIDE DEF e
  <2>2. g.fin \cup {e} \in SUBSET Finishers /\ FinTrue(g.fin \cup {e})
    BY <1>3, <1>4, <2>1 DEF Good, Sound, Gs, FinTrue
  <2>3. Quiet(g, i)
    BY <1>4, <2>2, SetFinGood
  <2>4. Quiet(G, i)
    BY <1>4, <2>3, Now DEF Quiet, SameTask
  <2> HIDE DEF i
  <2> QED BY <1>1, <1>2, <1>6, <2>4, QuietStep
<1>7. CASE Becomes(j) /\ mem.recovered
  <2>1. ~Attended(g.mem)
    BY <1>4, <1>7 DEF Attended
  <2>2. Good(j) /\ RowStep(row, j.row)
    BY <1>1, <1>3, <1>4, <2>1, Now, FinishWithTerminalGood
  <2> HIDE DEF j
  <2> QED BY <1>1, <1>2, <1>7, <2>2, BecomesStep
<1>8. CASE Becomes(g)
  BY <1>1, <1>2, <1>4, <1>8, QuietStep
<1> QED BY <1>5, <1>6, <1>7, <1>8

\* PostFetchOk attaches the result of a run whose end was replayed; PostFetchFail gives up.
LEMMA PostFetchStep ==
  ASSUME IInv, PostFetchOk \/ PostFetchFail
  PROVE  IInv' /\ AbsStep
<1>1. UNCHANGED <<node, cap, calls>> /\ faults' \in 0 .. MaxFaults /\ mem.up /\ post
  BY FaultUsed, Now DEF PostFetchOk, PostFetchFail
<1>2. calls' \in SUBSET Calls /\ CallsTrue'
  BY <1>1, FewerCalls
<1>3. row.status # "running" /\ node.status # "running"
  BY <1>1, Now DEF Good, Sound, RowTrue
<1>4. CASE PostFetchFail
  <2> DEFINE h == [G EXCEPT !.post = FALSE]
  <2>1. /\ h \in Gs /\ h.row = row /\ h.mem = mem /\ h.pump = pump /\ h.fin = fin /\ h.post = FALSE
        /\ h.pub = pub
    BY Now, SetPost
  <2>2. Becomes(h)
    BY <1>4 DEF PostFetchFail
  <2> HIDE DEF h
  <2>3. Good(h) /\ RowStep(row, h.row)
    BY <2>1, Now, Touch DEF Good, Sound, SameTask
  <2> QED BY <1>1, <1>2, <2>2, <2>3, BecomesStep
<1>5. CASE PostFetchOk
  <2> DEFINE res == IF mem.pending # Null THEN mem.pending
                    ELSE IF KnownIncapable(G) THEN "missing" ELSE NodeResult
             m == [mem EXCEPT !.pending = res]
             r == PersistTaskResult(row, res)
             h == [[[G EXCEPT !.post = FALSE] EXCEPT !.mem = m] EXCEPT !.row = r]
  <2>1. h = [G EXCEPT !.post = FALSE, !.mem.pending = res, !.row = PersistTaskResult(@, res)]
    BY Now DEF Gs
  <2>2. Becomes(h)
    BY <1>5, <2>1 DEF PostFetchOk
  <2>3. /\ NodeResult \in {"available", "missing"} /\ (NodeResult = "available" => node.status = "completed")
        /\ (Attended(mem) => NodeResult # "missing")
    BY <1>3, Now, NodeResultTrue DEF Attended
  <2>4. /\ res \in {"available", "missing"} /\ (res = "available" => node.status = "completed")
        /\ (Attended(mem) => res # "missing")
    <3>1. mem.pending \in Results /\ ResultTrue(mem.pending) /\ (Attended(mem) => mem.pending # "missing")
      BY Now DEF Mems, Good, Sound
    <3>2. KnownIncapable(G) => ~Attended(mem)
      BY Now DEF KnownIncapable, Attended
    <3>3. CASE mem.pending # Null
      BY <3>1, <3>3 DEF Results, ResultTrue
    <3>4. CASE mem.pending = Null
      BY <2>3, <3>2, <3>4 DEF Attended
    <3> QED BY <3>3, <3>4
  <2> HIDE DEF res
  <2>5. /\ m \in Mems /\ m.up = mem.up /\ m.terminal = mem.terminal
        /\ m.recovered = mem.recovered /\ m.pending = res
    BY <2>4, Now DEF Mems, Results
  <2>6. /\ r \in Rows /\ r.status = row.status /\ r.log = row.log
        /\ r.result = IF row.result = Null THEN res ELSE row.result
    BY <2>4, Now DEF Rows, PersistTaskResult, Results
  <2> HIDE DEF m, r
  <2>7. /\ h \in Gs /\ h.row = r /\ h.mem = m /\ h.pump = pump /\ h.fin = fin /\ h.post = FALSE
        /\ h.pub = pub
    BY <2>5, <2>6, Now DEF Gs
  <2> HIDE DEF h
  <2>8. ResultTrue(res) /\ (Attended(m) <=> Attended(mem))
    BY <1>3, <2>4, <2>5 DEF ResultTrue, Attended
  <2>9. Good(h)
    <3>1. RowTrue(r)
      BY <1>3, <2>6, <2>8, Now DEF Good, Sound, RowTrue
    <3>2. Attended(m) => r.result # "missing"
      BY <2>4, <2>6, <2>8, Now DEF Good, Sound
    <3> QED BY <2>4, <2>5, <2>6, <2>7, <2>8, <3>1, <3>2, Now DEF Good, Sound
  <2>10. RowStep(row, h.row)
    BY <1>3, <2>4, <2>6, <2>7 DEF RowStep, SameTask
  <2> QED BY <1>1, <1>2, <2>2, <2>9, <2>10, BecomesStep
<1> QED BY <1>4, <1>5

-----------------------------------------------------------------------------
(* Status and stop calls *)

\* A fresh request is a request.
LEMMA CallType ==
  ASSUME NEW kind \in {"get", "cancel", "stop", "reconcile", "recover"},
         NEW reply \in RunStatuses \cup {"unsent", "already_terminal"}
  PROVE  Call(kind, reply) \in Calls /\ Call(kind, reply).reply = reply
BY BoundsAssumption DEF Call, Calls

\* Nothing of the task itself changes.
LEMMA TaskAlone ==
  ASSUME IInv, UNCHANGED <<node, cap, row, pump, fin, post, pub>>, calls' \in SUBSET Calls, CallsTrue',
         faults' \in 0 .. MaxFaults, mem' \in Mems, mem'.up = mem.up, mem'.terminal = mem.terminal,
         mem'.recovered = mem.recovered, mem'.pending = mem.pending
  PROVE  IInv' /\ AbsStep
<1>1. G' = [G EXCEPT !.mem = mem']
  BY DEF G
<1>2. Quiet(G, G')
  BY <1>1, Now, SetMemGood
<1>3. Good(G)'
  BY <1>2 DEF Quiet, Good, Sound, RowTrue, FinTrue, ResultTrue, PubTrue, Attended
<1>4. NodeTrue'
  BY DEF IInv, NodeTrue, OutputTrue
<1>5. AbsStep
  BY Now, RowStepIsAbstract DEF RowStep, SameTask
<1> QED BY <1>3, <1>4, <1>5 DEF IInv

\* StatusCall asks the Node, which answers from its record.
LEMMA StatusCallStep ==
  ASSUME IInv, NEW kind \in {"get", "cancel"}, StatusCall(kind)
  PROVE  IInv' /\ AbsStep
<1> DEFINE c == Call(kind, node.status)
<1>1. c \in Calls /\ c.reply = node.status
  BY Now, CallType
<1>2. UNCHANGED <<node, cap, row, mem, pump, fin, post, pub, faults>> /\ calls' = calls \cup {c}
  BY DEF StatusCall
<1> HIDE DEF c
<1>3. calls' \in SUBSET Calls /\ CallsTrue'
  BY <1>1, <1>2, Now DEF CallsTrue
<1> QED BY <1>2, <1>3, Now, TaskAlone

\* CallFail ends a request, or has it asked again.
LEMMA CallFailStep ==
  ASSUME IInv, NEW c \in calls, CallFail(c)
  PROVE  IInv' /\ AbsStep
<1>1. UNCHANGED <<node, cap, row, pump, fin, post, pub>> /\ faults' \in 0 .. MaxFaults
  BY FaultUsed DEF CallFail
<1>2. CASE c.kind \in {"reconcile", "recover"} /\ c.tries + 1 < Attempts
  <2> DEFINE d == [c EXCEPT !.tries = @ + 1, !.reply = node.status]
  <2>1. calls' = (calls \ {c}) \cup {d} /\ UNCHANGED mem
    BY <1>2 DEF CallFail
  <2>2. d \in Calls /\ d.reply = node.status
    <3>1. c \in Calls /\ c.tries \in 0 .. Attempts - 1
      BY Now DEF Calls
    <3>2. c.tries + 1 \in 0 .. Attempts - 1
      BY <1>2, <3>1, BoundsAssumption
    <3> QED BY <3>1, <3>2, Now DEF Calls
  <2> HIDE DEF d
  <2>3. calls' \in SUBSET Calls /\ CallsTrue'
    BY <1>1, <2>1, <2>2, Now DEF CallsTrue
  <2> QED BY <1>1, <2>1, <2>3, Now, TaskAlone
<1>3. CASE ~(c.kind \in {"reconcile", "recover"} /\ c.tries + 1 < Attempts)
  <2> DEFINE a == mem.cancelling /\ c.kind # "stop"
             b == mem.reconciling /\ c.kind # "reconcile"
  <2>1. calls' = calls \ {c} /\ mem' = [mem EXCEPT !.cancelling = a, !.reconciling = b]
    BY <1>3 DEF CallFail
  <2>2. a \in BOOLEAN /\ b \in BOOLEAN
    OBVIOUS
  <2> HIDE DEF a, b
  <2>3. /\ mem' \in Mems /\ mem'.up = mem.up /\ mem'.terminal = mem.terminal
        /\ mem'.recovered = mem.recovered /\ mem'.pending = mem.pending
    BY <2>1, <2>2, Now DEF Mems
  <2>4. calls' \in SUBSET Calls /\ CallsTrue'
    BY <1>1, <2>1, FewerCalls
  <2> QED BY <1>1, <2>3, <2>4, TaskAlone
<1> QED BY <1>2, <1>3

\* HandleGet folds the record in.
LEMMA HandleGetStep ==
  ASSUME IInv, NEW c \in calls, HandleGet(c)
  PROVE  IInv' /\ AbsStep
<1> DEFINE h == ReconcileRemoteRecord(G, c.reply)
<1>1. Becomes(h) /\ UNCHANGED <<node, cap, faults>> /\ mem.up /\ calls' = calls \ {c}
  BY DEF HandleGet
<1>2. c.reply \in TerminalRun => node.status = c.reply
  BY Now DEF CallsTrue
<1>3. Good(h) /\ RowStep(row, h.row)
  BY <1>1, <1>2, Now, ReconcileGood
<1>4. calls' \in SUBSET Calls /\ CallsTrue' /\ faults' \in 0 .. MaxFaults
  BY <1>1, Now, FewerCalls
<1> HIDE DEF h
<1> QED BY <1>1, <1>3, <1>4, BecomesStep

\* HandleCancel sends a stop unless one is in flight.
LEMMA HandleCancelStep ==
  ASSUME IInv, NEW c \in calls, HandleCancel(c)
  PROVE  IInv' /\ AbsStep
<1> DEFINE m == [mem EXCEPT !.cancelling = TRUE]
           h == [G EXCEPT !.mem = m]
<1>1. UNCHANGED <<node, cap, faults>> /\ (Becomes(h) \/ Becomes(G))
  <2>1. h = [G EXCEPT !.mem.cancelling = TRUE]
    BY Now DEF Gs
  <2> QED BY <2>1 DEF HandleCancel
<1>2. /\ m \in Mems /\ m.up = mem.up /\ m.terminal = mem.terminal
      /\ m.recovered = mem.recovered /\ m.pending = mem.pending
  BY Now DEF Mems
<1> HIDE DEF m
<1>3. Quiet(G, h) /\ Quiet(G, G)
  BY <1>2, Now, SetMemGood DEF Quiet, SameTask
<1>4. RemoteStop \in Calls /\ RemoteStop.reply = "unsent" /\ "unsent" \notin TerminalRun
  BY CallType DEF RemoteStop, TerminalRun, RunStatuses
<1>5. calls' \in SUBSET (calls \cup {RemoteStop})
  BY DEF HandleCancel
<1>6. calls' \in SUBSET Calls /\ CallsTrue' /\ faults' \in 0 .. MaxFaults
  BY <1>1, <1>4, <1>5, Now DEF CallsTrue
<1> HIDE DEF h
<1> QED BY <1>1, <1>3, <1>6, QuietStep

\* CancelDone folds the answer of a stop in.
LEMMA CancelDoneStep ==
  ASSUME IInv, NEW c \in calls, CancelDone(c)
  PROVE  IInv' /\ AbsStep
<1> DEFINE g == ReconcileRemoteRecord(G, c.reply)
           m == [g.mem EXCEPT !.cancelling = FALSE]
           h == [g EXCEPT !.mem = m]
<1>1. UNCHANGED <<node, cap, faults>> /\ mem.up /\ calls' = calls \ {c}
  BY DEF CancelDone
<1>2. c.reply \in TerminalRun => node.status = c.reply
  BY Now DEF CallsTrue
<1>3. Good(g) /\ RowStep(row, g.row) /\ g \in Gs /\ g.mem \in Mems
  BY <1>1, <1>2, Now, ReconcileGood DEF Good, Sound, Gs
<1>4. Becomes(h)
  <2>1. h = [g EXCEPT !.mem.cancelling = FALSE]
    BY <1>3 DEF Gs
  <2> QED BY <2>1 DEF CancelDone
<1> HIDE DEF g
<1>5. /\ m \in Mems /\ m.up = g.mem.up /\ m.terminal = g.mem.terminal
      /\ m.recovered = g.mem.recovered /\ m.pending = g.mem.pending
  BY <1>3 DEF Mems
<1> HIDE DEF m
<1>6. Quiet(g, h)
  BY <1>3, <1>5, SetMemGood
<1> HIDE DEF h
<1>7. Good(h) /\ RowStep(row, h.row)
  BY <1>3, <1>6, RowStepSame DEF Quiet
<1>8. calls' \in SUBSET Calls /\ CallsTrue' /\ faults' \in 0 .. MaxFaults
  BY <1>1, Now, FewerCalls
<1> QED BY <1>1, <1>4, <1>7, <1>8, BecomesStep

\* ReconcileViaStatus folds the record in and resumes the pump.
LEMMA ReconcileViaStatusStep ==
  ASSUME IInv, NEW c \in calls, ReconcileViaStatus(c)
  PROVE  IInv' /\ AbsStep
<1> DEFINE f == ReconcileRemoteRecord(G, c.reply)
           m == [f.mem EXCEPT !.reconciling = FALSE]
           g == [f EXCEPT !.mem = m]
           n == [g.mem EXCEPT !.resumes = @ + 1]
           h == [g EXCEPT !.mem = n]
<1>1. UNCHANGED <<node, cap, faults>> /\ mem.up /\ calls' = calls \ {c}
  BY DEF ReconcileViaStatus
<1>2. c.reply \in TerminalRun => node.status = c.reply
  BY Now DEF CallsTrue
<1>3. Good(f) /\ RowStep(row, f.row) /\ f \in Gs /\ f.mem \in Mems
  BY <1>1, <1>2, Now, ReconcileGood DEF Good, Sound, Gs
<1>4. \/ Becomes(g)
      \/ ~(g.mem.resumes >= MaxResumes) /\ Becomes(ResumePump(h))
  <2>1. g = [f EXCEPT !.mem.reconciling = FALSE]
    BY <1>3 DEF Gs
  <2>2. h = [g EXCEPT !.mem.resumes = @ + 1]
    BY <1>3 DEF Gs
  <2> QED BY <2>1, <2>2 DEF ReconcileViaStatus
<1> HIDE DEF f
<1>5. /\ m \in Mems /\ m.up = f.mem.up /\ m.terminal = f.mem.terminal
      /\ m.recovered = f.mem.recovered /\ m.pending = f.mem.pending
  BY <1>3 DEF Mems
<1> HIDE DEF m
<1>6. Quiet(f, g) /\ g.mem = m
  BY <1>3, <1>5, SetMemGood
<1> HIDE DEF g
<1>7. Good(g) /\ RowStep(row, g.row) /\ g.mem \in Mems
  BY <1>3, <1>5, <1>6, RowStepSame DEF Quiet
<1>8. calls' \in SUBSET Calls /\ CallsTrue' /\ faults' \in 0 .. MaxFaults
  BY <1>1, Now, FewerCalls
<1>9. CASE Becomes(g)
  BY <1>1, <1>7, <1>8, <1>9, BecomesStep
<1>10. CASE ~(g.mem.resumes >= MaxResumes) /\ Becomes(ResumePump(h))
  <2>1. g.mem.resumes \in 0 .. MaxResumes
    BY <1>7 DEF Mems
  <2>2. g.mem.resumes + 1 \in 0 .. MaxResumes
    BY <1>10, <2>1, BoundsAssumption
  <2>3. /\ n \in Mems /\ n.up = g.mem.up /\ n.terminal = g.mem.terminal
        /\ n.recovered = g.mem.recovered /\ n.pending = g.mem.pending
    BY <1>7, <2>2 DEF Mems
  <2> HIDE DEF n
  <2>4. Quiet(g, h)
    BY <1>7, <2>3, SetMemGood
  <2> HIDE DEF h
  <2> DEFINE i == ResumePump(h)
  <2>5. Quiet(h, i)
    BY <2>4, Now, ResumePumpGood DEF Quiet
  <2> HIDE DEF i
  <2>6. Good(i) /\ RowStep(row, i.row)
    BY <1>7, <2>4, <2>5, RowStepSame DEF Quiet
  <2>7. Becomes(i)
    BY <1>10 DEF i
  <2> QED BY <1>1, <1>8, <2>6, <2>7, BecomesStep
<1> QED BY <1>4, <1>9, <1>10

\* ReconcileRecovered folds the record in, or marks the history and subscribes.
LEMMA ReconcileRecoveredStep ==
  ASSUME IInv, NEW c \in calls, ReconcileRecovered(c)
  PROVE  IInv' /\ AbsStep
<1> DEFINE g == ReconcileRemoteRecord(G, c.reply)
           r == [g.row EXCEPT !.hist = TRUE]
           h == [g EXCEPT !.row = r]
           i == StartRemotePump(h)
<1>1. UNCHANGED <<node, cap, faults>> /\ mem.up /\ calls' = calls \ {c}
  BY DEF ReconcileRecovered
<1>2. c.reply \in TerminalRun => node.status = c.reply
  BY Now DEF CallsTrue
<1>3. Good(g) /\ RowStep(row, g.row) /\ g \in Gs /\ g.row \in Rows
  BY <1>1, <1>2, Now, ReconcileGood DEF Good, Sound, Gs
<1>4. Becomes(g) \/ Becomes(i)
  BY DEF ReconcileRecovered, MarkTaskHistoryIncomplete
<1> HIDE DEF g
<1>5. r \in Rows /\ SameTask(g.row, r)
  BY <1>3 DEF Rows, SameTask
<1> HIDE DEF r
<1>6. /\ h \in Gs /\ h.row = r /\ h.mem = g.mem /\ h.pump = g.pump /\ h.fin = g.fin /\ h.post = g.post
      /\ h.pub = g.pub
  BY <1>3, <1>5, SetRow
<1> HIDE DEF h
<1>7. Good(h)
  BY <1>3, <1>5, <1>6, Touch DEF Good, Sound
<1>8. Quiet(h, i)
  BY <1>7, Now, StartRemotePumpGood
<1> HIDE DEF i
<1>9. Good(i) /\ RowStep(row, i.row)
  BY <1>3, <1>5, <1>6, <1>8, RowStepSame DEF Quiet
<1>10. calls' \in SUBSET Calls /\ CallsTrue' /\ faults' \in 0 .. MaxFaults
  BY <1>1, Now, FewerCalls
<1> QED BY <1>1, <1>3, <1>4, <1>9, <1>10, BecomesStep

\* ReconcileLocal polls a local run from the seeded position, or finishes its task.
LEMMA ReconcileLocalStep ==
  ASSUME IInv, ReconcileLocal
  PROVE  IInv' /\ AbsStep
<1>1. UNCHANGED <<node, cap, calls, faults>> /\ mem.up
  BY DEF ReconcileLocal
<1>2. calls' \in SUBSET Calls /\ CallsTrue' /\ faults' \in 0 .. MaxFaults
  BY <1>1, Now, FewerCalls
<1>3. CASE node.status = "running"
  <2> DEFINE pos == SeedRecoveredLocalCursor(G)
             p == [mode |-> "poll", pos |-> pos, after |-> NoCursor]
             h == [G EXCEPT !.pump = p]
  <2>1. Becomes(h)
    BY <1>3 DEF ReconcileLocal, StartPoll
  <2>2. pos \in Nat
    <3> DEFINE enough == {i \in 0 .. Len(node.journal) - 1 :
                            Cardinality(MappedEvents(node.journal, i)) >= G.mem.nextSeq - 1}
    <3>1. pos = IF enough = {} THEN Len(node.journal) ELSE Min(enough)
      BY DEF SeedRecoveredLocalCursor
    <3>2. enough \in SUBSET Nat /\ Len(node.journal) \in Nat
      BY Now DEF Nodes
    <3> HIDE DEF enough
    <3> QED BY <3>1, <3>2, LeastNatural
  <2> HIDE DEF pos
  <2>3. p \in Pumps /\ p.mode = "poll"
    BY <2>2 DEF Pumps, Cursors
  <2> HIDE DEF p
  <2>4. Quiet(G, h)
    BY <2>3, Now, SetPumpGood
  <2> HIDE DEF h
  <2> QED BY <1>1, <1>2, <2>1, <2>4, QuietStep
<1>4. CASE node.status # "running"
  <2> DEFINE g == [G EXCEPT !.mem.nextSeq = @ + 1]
             ev == [seq |-> mem.nextSeq, type |-> TaskStatus(node.status)]
             res == ResolveTerminalResult(TaskStatus(node.status))
             h == FinishWithTerminal(g, ev, res)
  <2>1. Becomes(h)
    BY <1>4 DEF ReconcileLocal
  <2>2. Quiet(G, g) /\ g.row = row /\ ev.seq \in Nat /\ ev.type = TaskStatus(node.status)
    BY Now, TakeSequence
  <2>3. /\ res \in {"available", "missing"} /\ (res = "available" => node.status = "completed")
        /\ (Attended(g.mem) => res # "missing")
    BY <1>4, Now, NodeResultTrue DEF Attended
  <2> HIDE DEF g, ev, res
  <2>4. Good(h) /\ RowStep(row, h.row)
    BY <1>1, <1>4, <2>2, <2>3, Now, FinishWithTerminalGood DEF Quiet
  <2> HIDE DEF h
  <2> QED BY <1>1, <1>2, <2>1, <2>4, BecomesStep
<1> QED BY <1>3, <1>4

-----------------------------------------------------------------------------
(* The run on its Node *)

\* The outcome that a client sees does not depend on the rest of the Node's state.
LEMMA SameOutcome ==
  ASSUME IInv, node'.status = node.status, row' = row
  PROVE  AbsStep
BY DEF AbsStep, Abs!absVars

\* The Node's record changes and the run goes on, or stays ended.
LEMMA NodeKeepsStatus ==
  ASSUME IInv, node' \in Nodes, node'.status = node.status, NodeTrue',
         node'.output = node.output, node'.store = "sound" => node.store = "sound",
         UNCHANGED <<cap, row, mem, pump, fin, post, pub>>,
         calls' \in SUBSET Calls, CallsTrue', faults' \in 0 .. MaxFaults
  PROVE  IInv' /\ AbsStep
<1>1. G' = G
  BY DEF G
<1>2. Good(G)'
  BY <1>1 DEF IInv, Good, Sound, RowTrue, FinTrue, ResultTrue, PubTrue, Attended
<1> QED BY <1>2, SameOutcome DEF IInv

\* The run ends: nothing was settled, fetched or known of its outcome before.
LEMMA NodeDecides ==
  ASSUME IInv, node.status = "running", node' \in Nodes, node'.status # "running", NodeTrue',
         UNCHANGED <<cap, row, mem, fin, post, pub>>, pump' \in Pumps,
         pump'.mode = "replay" => pump'.after # NoCursor,
         calls' \in SUBSET Calls, CallsTrue', faults' \in 0 .. MaxFaults
  PROVE  IInv' /\ AbsStep
<1>1. row.status = "running" /\ row.result = Null /\ mem.pending = Null /\ ~post /\ \A f \in fin : FALSE
  BY Now DEF Good, Sound, RowTrue, ResultTrue, FinTrue
<1>2. /\ G' \in Gs /\ G'.row = row /\ G'.mem = mem /\ G'.pump = pump' /\ G'.fin = fin /\ G'.post = post
      /\ G'.pub = pub
  BY Now DEF G, Gs
<1>3. Good(G)'
  BY <1>1, <1>2, Now DEF Good, Sound, RowTrue, FinTrue, ResultTrue, PubTrue, Attended, Null
<1>4. AbsStep
  <2>1. node'.status \in RunStatuses
    BY DEF Nodes
  <2>2. TaskStatus(node'.status) \in TerminalTypes
    BY <2>1, TaskStatusType
  <2>3. \A o \in TerminalTypes : o = TaskStatus(node'.status) => Abs!Decide(o)
    BY <2>1 DEF Abs!Decide
  <2>4. \E o \in TerminalTypes : Abs!Decide(o)
    BY <2>2, <2>3, Zenon
  <2>5. Abs!AbsNext
    BY <2>4, Zenon DEF Abs!AbsNext
  <2> QED BY <2>5, Zenon DEF AbsStep
<1> QED BY <1>3, <1>4 DEF IInv

\* An event is journaled; an end is one only of a run that ends with it, perhaps with an output.
LEMMA JournalEnds ==
  ASSUME IInv, node.status = "running", NEW k \in EventKinds \cup TerminalRun, NEW s \in RunStatuses,
         NEW o \in BOOLEAN, o => s = "completed",
         node' = [node EXCEPT !.journal = Append(node.journal, k), !.status = s, !.output = o],
         k \in TerminalRun => s = k
  PROVE  node' \in Nodes /\ node'.status = s /\ node'.output = o /\ node'.store = node.store /\ NodeTrue'
<1> DEFINE j == Append(node.journal, k)
<1>1. node.journal \in Seq(EventKinds \cup TerminalRun)
  BY Now DEF Nodes
<1>2. /\ j \in Seq(EventKinds \cup TerminalRun) /\ Len(j) = Len(node.journal) + 1
      /\ j[Len(node.journal) + 1] = k /\ \A i \in 1 .. Len(node.journal) : j[i] = node.journal[i]
  BY <1>1, AppendProperties
<1>3. \A i \in 1 .. Len(node.journal) : node.journal[i] \notin TerminalRun
  BY Now DEF NodeTrue, TerminalRun
<1> HIDE DEF j
<1>4. node' = [node EXCEPT !.journal = j, !.status = s, !.output = o]
  BY DEF j
<1>5. node' \in Nodes /\ node'.status = s /\ node'.journal = j /\ node'.output = o /\ node'.store = node.store
  BY <1>2, <1>4, Now DEF Nodes
<1>6. \A i \in 1 .. Len(j) : j[i] \in TerminalRun => s = j[i]
  <2> SUFFICES ASSUME NEW i \in 1 .. Len(j), j[i] \in TerminalRun PROVE s = j[i]
    OBVIOUS
  <2>1. i \in 1 .. Len(node.journal) \/ i = Len(node.journal) + 1
    BY <1>1, <1>2
  <2> QED BY <1>2, <1>3, <2>1
<1> QED BY <1>5, <1>6 DEF NodeTrue, OutputTrue

\* An event, or the end of a stopped run, brings no output.
LEMMA JournalGrows ==
  ASSUME IInv, node.status = "running", NEW k \in EventKinds \cup TerminalRun, NEW s \in RunStatuses,
         node' = [node EXCEPT !.journal = Append(node.journal, k), !.status = s],
         k \in TerminalRun => s = k
  PROVE  node' \in Nodes /\ node'.status = s /\ node'.output = node.output /\ node'.store = node.store /\ NodeTrue'
<1>1. node.output = FALSE
  BY Now DEF Nodes, OutputTrue
<1> DEFINE j == Append(node.journal, k)
<1>2. [node EXCEPT !.journal = j, !.status = s] = [node EXCEPT !.journal = j, !.status = s, !.output = FALSE]
  <2> HIDE DEF j
  <2> QED BY <1>1, Now DEF Nodes
<1>3. node' = [node EXCEPT !.journal = Append(node.journal, k), !.status = s, !.output = FALSE]
  BY <1>2
<1> QED BY <1>1, <1>3, JournalEnds

\* NodeEmit, NodeFinish, NodePrune and the store of results.
LEMMA NodeStep ==
  ASSUME IInv,
         \/ \E k \in EventKinds : NodeEmit(k)
         \/ \E s \in {"completed", "failed"} : NodeFinish(s)
         \/ NodePrune \/ ResultStoreFails \/ ResultStoreHeals
  PROVE  IInv' /\ AbsStep
<1>1. ASSUME NEW k \in EventKinds, NodeEmit(k)
      PROVE  IInv' /\ AbsStep
  <2>1. node' = [node EXCEPT !.journal = Append(node.journal, k), !.status = "running"]
    BY <1>1, Now DEF NodeEmit, Nodes
  <2>2. k \notin TerminalRun /\ "running" \in RunStatuses /\ node.status = "running"
    BY <1>1 DEF EventKinds, TerminalRun, RunStatuses, NodeEmit
  <2>3. /\ node' \in Nodes /\ node'.status = node.status /\ NodeTrue'
        /\ node'.output = node.output /\ node'.store = node.store
    BY <2>1, <2>2, JournalGrows
  <2>4. UNCHANGED <<cap, row, mem, pump, calls, fin, post, pub, faults>>
    BY <1>1 DEF NodeEmit
  <2>5. CallsTrue'
    BY <2>3, <2>4, Now DEF CallsTrue
  <2> QED BY <2>3, <2>4, <2>5, Now, NodeKeepsStatus
<1>2. ASSUME NEW s \in {"completed", "failed"}, NodeFinish(s)
      PROVE  IInv' /\ AbsStep
  <2>1. s \in TerminalRun /\ s \in RunStatuses /\ s # "running" /\ node.status = "running"
    BY <1>2 DEF TerminalRun, RunStatuses, NodeFinish
  <2>2. node' \in Nodes /\ node'.status = s /\ NodeTrue'
    <3>1. PICK o \in {FALSE, s = "completed"} :
            node' = [node EXCEPT !.journal = Append(node.journal, s), !.status = s, !.output = o]
      BY <1>2 DEF NodeFinish
    <3>2. o \in BOOLEAN /\ (o => s = "completed")
      OBVIOUS
    <3> QED BY <2>1, <3>1, <3>2, JournalEnds
  <2>3. UNCHANGED <<cap, row, mem, pump, calls, fin, post, pub, faults>>
    BY <1>2 DEF NodeFinish
  <2>4. CallsTrue'
    BY <2>1, <2>3, Now DEF CallsTrue, TerminalRun
  <2>5. pump.mode = "replay" => pump.after # NoCursor
    BY Now DEF Good, Sound
  <2> QED BY <2>1, <2>2, <2>3, <2>4, <2>5, Now, NodeDecides
<1>3. CASE NodePrune \/ ResultStoreFails \/ ResultStoreHeals
  <2>1. UNCHANGED <<cap, row, mem, pump, calls, fin, post, pub>> /\ faults' \in 0 .. MaxFaults
    BY <1>3, Now, FaultUsed DEF NodePrune, ResultStoreFails, ResultStoreHeals
  <2>2. /\ node' \in Nodes /\ node'.status = node.status /\ node'.journal = node.journal
        /\ node'.output = node.output /\ (node'.store = "sound" => node.store = "sound")
    BY <1>3, Now DEF NodePrune, ResultStoreFails, ResultStoreHeals, Nodes
  <2>3. NodeTrue' /\ CallsTrue'
    BY <2>1, <2>2, Now DEF NodeTrue, OutputTrue, CallsTrue
  <2> QED BY <2>1, <2>2, <2>3, Now, NodeKeepsStatus
<1> QED BY <1>1, <1>2, <1>3

\* NodeStop: a stop reaches the Node.
LEMMA NodeStopStep ==
  ASSUME IInv, NEW c \in calls, NodeStop(c)
  PROVE  IInv' /\ AbsStep
<1> DEFINE s == IF node.status = "running" THEN "stopped" ELSE "already_terminal"
           d == Call("stop", s)
<1>1. /\ calls' = (calls \ {c}) \cup {d} /\ UNCHANGED <<cap, row, mem, pump, fin, post, pub, faults>>
      /\ node' = IF s = "stopped" THEN [node EXCEPT !.status = s, !.journal = Append(@, s)] ELSE node
  BY DEF NodeStop
<1>2. d \in Calls /\ d.reply = s
  BY CallType DEF RunStatuses
<1> HIDE DEF d
<1>3. CASE node.status = "running"
  <2>1. node' = [node EXCEPT !.journal = Append(node.journal, "stopped"), !.status = "stopped"]
    BY <1>1, <1>3, Now DEF Nodes
  <2>2. "stopped" \in TerminalRun /\ "stopped" \in RunStatuses
    BY DEF TerminalRun, RunStatuses
  <2>3. node' \in Nodes /\ node'.status = "stopped" /\ NodeTrue'
    BY <1>3, <2>1, <2>2, JournalGrows
  <2>4. calls' \in SUBSET Calls /\ CallsTrue'
    BY <1>1, <1>2, <1>3, <2>3, Now DEF CallsTrue, TerminalRun
  <2>5. pump.mode = "replay" => pump.after # NoCursor
    BY Now DEF Good, Sound
  <2> QED BY <1>1, <1>3, <2>3, <2>4, <2>5, Now, NodeDecides
<1>4. CASE node.status # "running"
  <2>1. s = "already_terminal" /\ node' = node /\ s \notin TerminalRun
    BY <1>1, <1>4 DEF TerminalRun, RunStatuses
  <2>2. calls' \in SUBSET Calls /\ CallsTrue'
    BY <1>1, <1>2, <2>1, Now DEF CallsTrue
  <2>3. NodeTrue'
    BY <2>1, Now DEF NodeTrue, OutputTrue
  <2> QED BY <1>1, <2>1, <2>2, <2>3, Now, NodeKeepsStatus
<1> QED BY <1>3, <1>4

\* CancelLocal: a local run is stopped.
LEMMA CancelLocalStep ==
  ASSUME IInv, CancelLocal
  PROVE  IInv' /\ AbsStep
<1>1. /\ UNCHANGED <<cap, row, mem, calls, fin, post, pub, faults>> /\ node.status = "running"
      /\ (pump' = pump \/ pump' = [pump EXCEPT !.mode = "drain"])
  BY DEF CancelLocal
<1>2. node' = [node EXCEPT !.journal = Append(node.journal, "stopped"), !.status = "stopped"]
  BY Now DEF CancelLocal, Nodes
<1>3. "stopped" \in TerminalRun /\ "stopped" \in RunStatuses
  BY DEF TerminalRun, RunStatuses
<1>4. node' \in Nodes /\ node'.status = "stopped" /\ NodeTrue'
  BY <1>1, <1>2, <1>3, JournalGrows
<1>5. calls' \in SUBSET Calls /\ CallsTrue'
  BY <1>1, Now DEF CallsTrue, TerminalRun
<1>6. pump' \in Pumps /\ (pump'.mode = "replay" => pump'.after # NoCursor)
  BY <1>1, Now DEF Good, Sound, Pumps
<1> QED BY <1>1, <1>4, <1>5, <1>6, Now, NodeDecides

-----------------------------------------------------------------------------
(* Crash and recovery *)

\* The in-memory task of a new process.
LEMMA FreshMemType == FreshMem \in Mems /\ FreshMem.up = TRUE /\ FreshMem.pending = Null
<1>1. 0 \in 0 .. MaxResumes /\ NoCursor \in Int
  BY BoundsAssumption DEF NoCursor
<1> QED BY <1>1 DEF FreshMem, Mems, Results

\* The in-memory task is lost, or built anew from the durable row.
LEMMA MemoryStep ==
  ASSUME IInv, Crash \/ Recover
  PROVE  IInv' /\ AbsStep
<1>1. CASE Crash
  <2> DEFINE m == [FreshMem EXCEPT !.up = FALSE]
  <2>1. m \in Mems /\ m.up = FALSE /\ m.pending = Null
    BY FreshMemType DEF Mems
  <2>2. /\ UNCHANGED <<node, cap, row, pub>> /\ mem' = m /\ pump' = NoPump /\ calls' = {} /\ fin' = {}
        /\ post' = FALSE /\ faults' \in 0 .. MaxFaults
    BY <1>1, FaultUsed DEF Crash
  <2> HIDE DEF m
  <2>3. NoPump \in Pumps /\ NoPump.mode = "none"
    BY DEF NoPump, Pumps, Cursors
  <2>4. /\ G' \in Gs /\ G'.row = row /\ G'.mem = m /\ G'.pump = NoPump /\ G'.fin = {} /\ G'.post = FALSE
        /\ G'.pub = pub
    BY <2>1, <2>2, <2>3, Now DEF G, Gs
  <2>5. Good(G)'
    <3>1. ResultTrue(m.pending) /\ ~Attended(m) /\ ~m.up /\ FinTrue({})
      BY <2>1 DEF ResultTrue, Attended, FinTrue, Null
    <3>2. Sound(G')
      BY <2>3, <2>4, <3>1, Now DEF Good, Sound
    <3>3. Good(G')
      BY <2>4, <3>1, <3>2 DEF Good
    <3> QED BY <2>2, <3>3 DEF Good, Sound, RowTrue, FinTrue, ResultTrue, PubTrue, Attended
  <2>6. NodeTrue' /\ CallsTrue' /\ calls' \in SUBSET Calls
    BY <2>2, Now DEF NodeTrue, OutputTrue, CallsTrue
  <2> QED BY <2>2, <2>5, <2>6, SameOutcome DEF IInv
<1>2. CASE Recover
  <2> DEFINE m == [FreshMem EXCEPT !.nextSeq = Len(row.log), !.recovered = TRUE, !.terminal = IsTerminal(row)]
             g == [G EXCEPT !.mem = m]
             h == IF row.cursor # NoCursor THEN StartReplayPump(g, row.cursor) ELSE g
             c == Call("recover", node.status)
  <2>1. Becomes(h) /\ UNCHANGED <<node, cap, faults>> /\ (calls' = {} \/ calls' = {c})
    BY <1>2 DEF Recover
  <2>2. c \in Calls /\ c.reply = node.status
    BY Now, CallType
  <2> HIDE DEF c
  <2>3. calls' \in SUBSET Calls /\ CallsTrue' /\ faults' \in 0 .. MaxFaults
    BY <2>1, <2>2, Now DEF CallsTrue
  <2>4. /\ m \in Mems /\ m.up = TRUE /\ m.recovered = TRUE /\ m.pending = Null
        /\ m.terminal = (row.status # "running")
    <3>2. Len(row.log) \in Nat /\ IsTerminal(row) \in BOOLEAN /\ IsTerminal(row) = (row.status # "running")
      BY Now DEF Rows, IsTerminal
    <3> QED BY <3>2, FreshMemType DEF Mems
  <2> HIDE DEF m
  <2>5. /\ g \in Gs /\ g.row = row /\ g.mem = m /\ g.pump = pump /\ g.fin = fin /\ g.post = post
        /\ g.pub = pub
    BY <2>4, Now, SetMem
  <2> HIDE DEF g
  <2>6. Good(g)
    <3>1. ResultTrue(m.pending)
      BY <2>4 DEF ResultTrue, Null
    <3>2. ~Attended(m)
      BY <2>4 DEF Attended
    <3>3. row.status # "running" => m.terminal
      BY <2>4
    <3>4. Sound(g)
      BY <2>5, <3>1, <3>2, Now DEF Good, Sound
    <3> QED BY <2>5, <3>3, <3>4 DEF Good
  <2>7. Quiet(g, h)
    BY <2>6, Now, StartReplayPumpGood DEF Rows, Quiet, SameTask
  <2> HIDE DEF h
  <2>8. Good(h) /\ RowStep(row, h.row)
    BY <2>5, <2>7 DEF Quiet, RowStep
  <2> QED BY <2>1, <2>3, <2>8, BecomesStep
<1> QED BY <1>1, <1>2

-----------------------------------------------------------------------------
(* The theorems *)

\* A task that was just bound.
LEMMA InitIInv == Init => IInv
<1> SUFFICES ASSUME Init PROVE IInv
  OBVIOUS
<1> DEFINE entry == [type |-> "created", src |-> -1]
<1>1. node \in Nodes /\ node.status = "running" /\ node.journal = <<>> /\ node.output = FALSE
  BY DEF Init, Nodes, RunStatuses
<1>2. mem \in Mems /\ mem.pending = Null
  BY FreshMemType DEF Init
<1>3. /\ row \in Rows /\ row.status = "running" /\ row.result = Null /\ row.log = <<entry>>
  <2>1. <<entry>> \in Seq([type : LogTypes, src : Int])
    BY DEF LogTypes
  <2>2. (IF cap.replay THEN -1 ELSE NoCursor) \in Cursors
    BY DEF Cursors
  <2> QED BY <2>1, <2>2 DEF Init, Rows, Results
<1>4. pump \in Pumps /\ (pump.mode = "replay" => pump.after # NoCursor)
  BY DEF Init, Pumps, Cursors, NoCursor
<1>5. pub = {<<0, "created">>} /\ fin = {} /\ post = FALSE /\ calls = {} /\ faults = MaxFaults /\ cap \in Caps
  BY DEF Init
<1>6. <<0, "created">> \in Nat \X LogTypes
  BY DEF LogTypes
<1>7. PubTrue(row.log, pub)
  <2>1. Len(row.log) = 1 /\ row.log[1] = entry
    BY <1>3
  <2> QED BY <1>5, <2>1 DEF PubTrue
<1> HIDE DEF entry
<1>8. /\ G \in Gs /\ G.row = row /\ G.mem = mem /\ G.pump = pump /\ G.fin = fin /\ G.post = post
      /\ G.pub = pub
  BY <1>2, <1>3, <1>4, <1>5, <1>6 DEF G, Gs
<1>9. Good(G)
  BY <1>1, <1>2, <1>3, <1>4, <1>5, <1>7, <1>8
  DEF Good, Sound, RowTrue, FinTrue, ResultTrue, Attended, Null
<1>10. NodeTrue /\ CallsTrue
  BY <1>1, <1>5 DEF NodeTrue, OutputTrue, CallsTrue
<1> QED BY <1>1, <1>5, <1>9, <1>10, BoundsAssumption DEF IInv

\* Every step preserves the invariant and is a step of the abstract task, or none.
LEMMA NextStep ==
  ASSUME IInv, [Next]_vars
  PROVE  IInv' /\ AbsStep
<1>1. CASE UNCHANGED vars
  <2>1. UNCHANGED <<node, cap, row, pump, fin, post, pub, mem, calls, faults>>
    BY <1>1 DEF vars
  <2>2. calls' \in SUBSET Calls /\ CallsTrue'
    BY <2>1, FewerCalls
  <2> QED BY <2>1, <2>2, Now, TaskAlone
<1>2. CASE Next
  BY <1>2, NodeStep, PumpEventStep, DrainStep, ResubscribeStep, GiveUpStep, FetchOkStep, FetchFailStep,
     PostFetchStep, StatusCallStep, HandleGetStep, HandleCancelStep, NodeStopStep, CancelDoneStep,
     ReconcileViaStatusStep, ReconcileRecoveredStep, CallFailStep, CancelLocalStep, ReconcileLocalStep,
     MemoryStep DEF Next
<1> QED BY <1>1, <1>2

\* The inductive invariant: status, result, finishers, replies and journal all tell the one outcome
\* that the run has.
THEOREM Invariance == Spec => []IInv
<1>1. IInv /\ [Next]_vars => IInv'
  BY NextStep
<1> QED BY <1>1, InitIInv, PTL DEF Spec

\* Every variable keeps its type.
THEOREM TypeCorrect == Spec => []TypeOK
<1>1. IInv => TypeOK
  BY DEF IInv, Good, Sound, Gs, G, TypeOK
<1> QED BY <1>1, Invariance, PTL

\* The durable task implements the abstract task of the API: one outcome, a log that only grows and
\* ends with it, a result written once.
THEOREM Implementation == Spec => ImplementsAgentTask
<1>1. Init => Abs!AbsInit
  <2> SUFFICES ASSUME Init PROVE Abs!AbsInit
    OBVIOUS
  <2>1. node.status = "running" /\ row.status = "running" /\ row.result = "none"
        /\ row.log = <<[type |-> "created", src |-> -1]>>
    BY DEF Init, Null
  <2>2. Len(row.log) = 1 /\ row.log[1].type = "created"
    BY <2>1
  <2>3. [i \in 1 .. Len(row.log) |-> row.log[i].type] = <<"created">>
    BY <2>2
  <2> QED BY <2>1, <2>3 DEF Abs!AbsInit
<1>2. IInv /\ [Next]_vars => [Abs!AbsNext]_(Abs!absVars)
  BY NextStep DEF AbsStep
<1> QED BY <1>1, <1>2, Invariance, PTL DEF Spec, ImplementsAgentTask, Abs!AbsSpec

\* persistThenPush and ingestSource: what a subscriber was sent, terminal events aside, is in the
\* durable log at the same sequence.
THEOREM PublishedDurable == Spec => []PublishedIsDurable
<1>1. IInv => PublishedIsDurable
  BY DEF IInv, Good, Sound, G, PubTrue, PublishedIsDurable
<1> QED BY <1>1, Invariance, PTL

\* finishRemoteWithResult: the gateway that created the task never records an output as missing when
\* the Node offers the result protocol and could store the output, whatever messages are lost.
THEOREM OutputIsKept == Spec => []OutputKept
<1>1. IInv => OutputKept
  BY DEF IInv, Good, Sound, G, Attended, OutputKept
<1> QED BY <1>1, Invariance, PTL

-----------------------------------------------------------------------------
(* The log and the source it was read from *)

\* The row has exactly the mapped events of the journal up to its cursor, in order, each once.
Exact(r, journal) ==
  /\ r.cursor < Len(journal)
  /\ \A i \in 1 .. Len(r.log) : r.log[i].src >= 0 =>
       /\ r.log[i].src <= r.cursor /\ r.log[i].type # Null
       /\ r.log[i].type = TaskEvent(journal[r.log[i].src + 1])
  /\ \A k \in 0 .. r.cursor : TaskEvent(journal[k + 1]) # Null =>
       \E i \in 1 .. Len(r.log) : r.log[i].src = k
  /\ \A i, j \in 1 .. Len(r.log) :
       i < j /\ r.log[i].src >= 0 /\ r.log[j].src >= 0 => r.log[i].src < r.log[j].src

\* Two rows with the same events from the source.
SameSource(r, s) == s.log = r.log /\ s.cursor = r.cursor

\* At most an event that is not from the source is recorded.
Noted(r, s) ==
  /\ s.cursor = r.cursor
  /\ s.log = r.log \/ \E type \in LogTypes : s.log = Append(r.log, [type |-> type, src |-> -1])

\* The event behind the cursor is taken from the source.
Taken(r, s) ==
  LET c == r.cursor + 1
      type == TaskEvent(node.journal[c + 1])
  IN  /\ s.cursor = c /\ c \in 0 .. Len(node.journal) - 1
      /\ s.log = IF type = Null THEN r.log ELSE Append(r.log, [type |-> type, src |-> c])

\* A row of the same source and one that was noted.
LEMMA NotedSame ==
  ASSUME NEW r, NEW s, NEW t
  PROVE  /\ SameSource(r, s) => Noted(r, s)
         /\ Noted(r, s) /\ SameSource(s, t) => Noted(r, t)
         /\ SameSource(r, s) /\ Noted(s, t) => Noted(r, t)
         /\ Taken(r, s) /\ SameSource(s, t) => Taken(r, t)
BY DEF SameSource, Noted, Taken

\* appendTaskEventSync records without a source.
LEMMA AppendNoted ==
  ASSUME NEW r \in Rows, NEW seq, NEW type \in LogTypes
  PROVE  Noted(r, AppendTaskEvent(r, seq, type, -1))
BY DEF Rows, AppendTaskEvent, Noted

\* terminalizeTaskWithResultDurable records at most its own terminal event.
LEMMA TerminalizeNoted ==
  ASSUME NEW r \in Rows, NEW ev, ev.type \in LogTypes, NEW res
  PROVE  Noted(r, TerminalizeWithResult(r, ev, res))
<1>1. CASE TerminalizeWithResult(r, ev, res) = r
  BY <1>1 DEF Noted
<1>2. CASE TerminalizeWithResult(r, ev, res) = [r EXCEPT !.result = res]
  BY <1>2 DEF Noted, Rows
<1>3. CASE TerminalizeWithResult(r, ev, res) = [AppendTaskEvent(r, ev.seq, ev.type, -1) EXCEPT !.status = ev.type, !.result = res]
  <2> DEFINE a == AppendTaskEvent(r, ev.seq, ev.type, -1)
  <2>1. Noted(r, a)
    BY AppendNoted
  <2>2. a.log = [a EXCEPT !.status = ev.type, !.result = res].log /\ a.cursor = [a EXCEPT !.status = ev.type, !.result = res].cursor
    BY DEF AppendTaskEvent, Rows
  <2> QED BY <1>3, <2>1, <2>2 DEF Noted
<1> QED BY <1>1, <1>2, <1>3 DEF TerminalizeWithResult

\* finishTask leaves the row alone.
LEMMA FinishTaskSource ==
  ASSUME NEW g, "row" \in DOMAIN g
  PROVE  FinishTask(g).row = g.row
BY DEF FinishTask

\* finishWithTerminal records at most the terminal event of the gateway.
LEMMA FinishWithTerminalNoted ==
  ASSUME NEW g \in Gs, NEW ev, ev.type \in LogTypes, NEW res
  PROVE  Noted(g.row, FinishWithTerminal(g, ev, res).row)
<1> DEFINE m == [g.mem EXCEPT !.pending = res]
           h == [g EXCEPT !.mem = m]
           r == TerminalizeWithResult(g.row, ev, res)
           j == [[h EXCEPT !.row = r] EXCEPT !.pub = g.pub \cup {<<ev.seq, ev.type>>}]
<1>1. h.row = g.row /\ j.row = r /\ Noted(g.row, r)
  BY TerminalizeNoted DEF Gs
<1>2. FinishWithTerminal(g, ev, res) = IF g.mem.terminal THEN h ELSE FinishTask(j)
  <2>1. h = [g EXCEPT !.mem.pending = res] /\ [h EXCEPT !.row = r].pub = g.pub
    BY DEF Gs
  <2> QED BY <1>1, <2>1 DEF FinishWithTerminal, PushEvent
<1>3. FinishTask(j).row = r
  <2>1. "row" \in DOMAIN j
    BY DEF Gs
  <2> QED BY <1>1, <2>1, FinishTaskSource
<1> QED BY <1>1, <1>2, <1>3 DEF Noted

\* finishRemoteWithResult, up to its first await.
LEMMA FinishRemoteNoted ==
  ASSUME NEW g \in Gs, NEW ev, ev.type \in LogTypes
  PROVE  Noted(g.row, FinishRemoteWithResult(g, ev).row)
<1>1. CASE g.mem.terminal
  BY <1>1 DEF FinishRemoteWithResult, Noted
<1>2. CASE ~g.mem.terminal /\ KnownIncapable(g)
  BY <1>2, FinishWithTerminalNoted DEF FinishRemoteWithResult
<1>3. CASE ~g.mem.terminal /\ ~KnownIncapable(g)
  BY <1>3 DEF FinishRemoteWithResult, Noted, Gs
<1> QED BY <1>1, <1>2, <1>3

\* A sequence number is taken.
LEMMA NextSeqSource ==
  ASSUME NEW g \in Gs
  PROVE  [g EXCEPT !.mem.nextSeq = @ + 1] \in Gs /\ [g EXCEPT !.mem.nextSeq = @ + 1].row = g.row
<1> DEFINE m == [g.mem EXCEPT !.nextSeq = g.mem.nextSeq + 1]
<1>1. m \in Mems
  BY DEF Gs, Mems
<1>2. [g EXCEPT !.mem.nextSeq = @ + 1] = [g EXCEPT !.mem = m]
  BY DEF Gs
<1> HIDE DEF m
<1> QED BY <1>1, <1>2, SetMem

\* reconcileRemoteRecord.
LEMMA ReconcileNoted ==
  ASSUME NEW g \in Gs, NEW s
  PROVE  Noted(g.row, ReconcileRemoteRecord(g, s).row)
<1>1. CASE g.mem.terminal \/ s \notin TerminalRun
  BY <1>1 DEF ReconcileRemoteRecord, Noted
<1>2. CASE ~g.mem.terminal /\ s \in TerminalRun
  <2> DEFINE h == [g EXCEPT !.mem.nextSeq = @ + 1]
             ev == [seq |-> g.mem.nextSeq, type |-> TaskStatus(s)]
  <2>1. ev.type \in LogTypes
    BY <1>2 DEF TaskStatus, TerminalRun, RunStatuses, LogTypes, TerminalTypes
  <2>2. ReconcileRemoteRecord(g, s) = FinishRemoteWithResult(h, ev)
    BY <1>2 DEF ReconcileRemoteRecord
  <2>3. h \in Gs /\ h.row = g.row
    BY NextSeqSource
  <2> HIDE DEF h, ev
  <2> QED BY <2>1, <2>2, <2>3, FinishRemoteNoted
<1> QED BY <1>1, <1>2

\* persistThenPush appends without a source.
LEMMA PersistThenPushNoted ==
  ASSUME NEW g \in Gs, NEW seq, NEW type \in LogTypes
  PROVE  Noted(g.row, PersistThenPush(g, seq, type).row)
<1> DEFINE r == AppendTaskEvent(g.row, seq, type, -1)
<1>1. Noted(g.row, r)
  BY AppendNoted DEF Gs
<1>2. PersistThenPush(g, seq, type).row = g.row \/ PersistThenPush(g, seq, type).row = r
  <2> HIDE DEF r
  <2>1. PersistThenPush(g, seq, type) = IF r = g.row THEN g ELSE PushEvent([g EXCEPT !.row = r], seq, type)
    BY DEF PersistThenPush, r
  <2> QED BY <2>1 DEF PushEvent, Gs
<1> QED BY <1>1, <1>2 DEF Noted

\* ingest: live and polled events carry no position in a journal.
LEMMA IngestNoted ==
  ASSUME NEW g \in Gs, NEW k
  PROVE  Noted(g.row, Ingest(g, k).row)
<1> DEFINE h == [g EXCEPT !.mem.nextSeq = @ + 1]
           ev == [seq |-> g.mem.nextSeq, type |-> TaskEvent(k)]
<1>1. h \in Gs /\ h.row = g.row
  BY NextSeqSource
<1>2. TaskEvent(k) # Null => TaskEvent(k) \in LogTypes
  BY DEF TaskEvent, TaskStatus, TerminalRun, RunStatuses, LogTypes, TerminalTypes
<1>3. \/ Ingest(g, k) = g
      \/ TaskEvent(k) # Null /\ \/ Ingest(g, k) = FinishWithTerminal(h, ev, ResolveTerminalResult(TaskEvent(k)))
                                \/ Ingest(g, k) = FinishRemoteWithResult(h, ev)
                                \/ Ingest(g, k) = PersistThenPush(h, g.mem.nextSeq, TaskEvent(k))
  BY DEF Ingest
<1>4. ev.type = TaskEvent(k)
  OBVIOUS
<1> HIDE DEF h, ev
<1>5. CASE Ingest(g, k) = g
  BY <1>5 DEF Noted
<1> QED BY <1>1, <1>2, <1>3, <1>4, <1>5, FinishWithTerminalNoted, FinishRemoteNoted, PersistThenPushNoted

\* maybeClearCatchUp only removes the mark of an incomplete history.
LEMMA MaybeClearSource ==
  ASSUME NEW g, "row" \in DOMAIN g, g.row \in Rows
  PROVE  SameSource(g.row, MaybeClearCatchUp(g).row)
<1>1. CASE MaybeClearCatchUp(g) = g
  BY <1>1 DEF SameSource
<1>2. CASE MaybeClearCatchUp(g) # g
  <2> DEFINE r == [g.row EXCEPT !.hist = FALSE]
  <2>1. MaybeClearCatchUp(g).row = r
    <3> HIDE DEF r
    <3>1. MaybeClearCatchUp(g) = [g EXCEPT !.mem.cleared = TRUE, !.row = r]
      BY <1>2 DEF MaybeClearCatchUp, ClearTaskHistoryIncomplete, r
    <3> QED BY <3>1
  <2> QED BY <2>1 DEF Rows, SameSource
<1> QED BY <1>1, <1>2

\* handleReplayMeta marks the history, or clears the mark.
LEMMA HandleReplayMetaSource ==
  ASSUME NEW g \in Gs, NEW complete \in BOOLEAN
  PROVE  SameSource(g.row, HandleReplayMeta(g, complete).row)
<1> DEFINE h == [g EXCEPT !.mem.complete = complete, !.mem.cutoff = Len(node.journal) - 1]
           r == [g.row EXCEPT !.hist = TRUE]
<1>1. h.row = g.row /\ "row" \in DOMAIN h /\ g.row \in Rows
  BY DEF Gs
<1>2. HandleReplayMeta(g, complete) = IF complete THEN MaybeClearCatchUp(h)
                                                  ELSE [h EXCEPT !.row = MarkTaskHistoryIncomplete(h.row)]
  BY DEF HandleReplayMeta
<1> HIDE DEF h
<1>3. CASE complete
  BY <1>1, <1>2, <1>3, MaybeClearSource
<1>4. CASE ~complete
  <2>1. SameSource(g.row, r) /\ MarkTaskHistoryIncomplete(h.row) = r
    BY <1>1 DEF Rows, SameSource, MarkTaskHistoryIncomplete
  <2> HIDE DEF r
  <2>2. [h EXCEPT !.row = r].row = r
    BY <1>1
  <2> QED BY <1>2, <1>4, <2>1, <2>2
<1> QED BY <1>3, <1>4

\* startReplayPump subscribes with a cursor.
LEMMA StartReplayPumpSource ==
  ASSUME NEW g \in Gs, NEW a \in Cursors, a # NoCursor, node \in Nodes
  PROVE  SameSource(g.row, StartReplayPump(g, a).row)
<1> DEFINE complete == node.first <= a + 1
           p == [mode |-> "replay", after |-> a, pos |-> IF complete THEN a + 1 ELSE node.first]
           h == [g EXCEPT !.pump = p]
<1>1. StartReplayPump(g, a) = IF g.mem.terminal THEN g ELSE HandleReplayMeta(h, complete)
  BY DEF StartReplayPump
<1>2. complete \in BOOLEAN
  OBVIOUS
<1>3. p \in Pumps
  <2>1. a + 1 \in Nat /\ node.first \in Nat
    BY DEF Cursors, NoCursor, Nodes
  <2>2. (IF complete THEN a + 1 ELSE node.first) \in Nat
    BY <2>1
  <2> QED BY <2>2 DEF Pumps
<1> HIDE DEF p, complete
<1>4. h \in Gs /\ h.row = g.row
  BY <1>3, SetPump
<1> HIDE DEF h
<1>5. SameSource(h.row, HandleReplayMeta(h, complete).row)
  BY <1>2, <1>4, HandleReplayMetaSource
<1> QED BY <1>1, <1>4, <1>5 DEF SameSource

\* startRemotePump subscribes to what comes.
LEMMA StartRemotePumpSource ==
  ASSUME NEW g \in Gs
  PROVE  StartRemotePump(g).row = g.row
BY DEF StartRemotePump, Gs

\* resumePump does either.
LEMMA ResumePumpSource ==
  ASSUME NEW g \in Gs, node \in Nodes
  PROVE  SameSource(g.row, ResumePump(g).row)
<1>1. g.row.cursor \in Cursors
  BY DEF Gs, Rows
<1> QED BY <1>1, StartReplayPumpSource, StartRemotePumpSource DEF ResumePump, SameSource

\* ingestSource: the event at the position the cursor waits for is taken, any other is not.
LEMMA IngestSourceTaken ==
  ASSUME NEW g \in Gs, node \in Nodes, NEW s \in Nat, s < Len(node.journal)
  PROVE  LET h == IngestSource(g, node.journal[s + 1], s)
         IN  SameSource(g.row, h.row) \/ Taken(g.row, h.row)
<1> DEFINE k == node.journal[s + 1]
           type == TaskEvent(k)
           r == IF type = Null THEN AdvanceSourceCursor(g.row, s) ELSE IngestSourceEvent(g.row, s, type)
           seq == Len(g.row.log)
           applied == Len(r.log) > seq
           h == [g EXCEPT !.row = r, !.mem.nextSeq = IF applied /\ @ <= seq THEN seq + 1 ELSE @]
           p == IF applied THEN PushEvent(h, seq, type) ELSE h
           q == IF applied /\ type \in TerminalTypes THEN [FinishTask(p) EXCEPT !.post = TRUE] ELSE p
<1>1. g.row \in Rows /\ g.row.cursor \in Cursors /\ Len(node.journal) \in Nat
  BY DEF Gs, Rows, Nodes
<1>2. IngestSource(g, k, s) = IF g.mem.terminal THEN g ELSE MaybeClearCatchUp(q)
  BY DEF IngestSource
<1>3. r \in Rows /\ (SameSource(g.row, r) \/ Taken(g.row, r))
  <2>1. CASE s # g.row.cursor + 1
    BY <1>1, <2>1 DEF AdvanceSourceCursor, IngestSourceEvent, SameSource
  <2>2. CASE s = g.row.cursor + 1 /\ type = Null
    <3>1. r = [g.row EXCEPT !.cursor = s]
      BY <2>2 DEF AdvanceSourceCursor
    <3>2. r \in Rows /\ r.cursor = s /\ r.log = g.row.log
      BY <1>1, <3>1 DEF Rows, Cursors
    <3> HIDE DEF r
    <3> QED BY <1>1, <2>2, <3>2 DEF Taken
  <2>3. CASE s = g.row.cursor + 1 /\ type # Null
    <3> DEFINE log == Append(g.row.log, [type |-> type, src |-> s])
               st == IF type \in TerminalTypes THEN type ELSE g.row.status
    <3>1. r = [g.row EXCEPT !.log = log, !.cursor = s, !.status = st]
      BY <1>1, <2>3 DEF IngestSourceEvent, AppendTaskEvent, Rows
    <3>2. type \in LogTypes /\ s \in Int
      BY <2>3 DEF TaskEvent, TaskStatus, TerminalRun, RunStatuses, LogTypes, TerminalTypes
    <3>3. log \in Seq([type : LogTypes, src : Int])
      BY <1>1, <3>2, LogGrows, ZenonT(40)
    <3>4. st \in {"running"} \cup TerminalTypes
      BY <1>1 DEF Rows
    <3> HIDE DEF type, st
    <3>5. r \in Rows /\ r.cursor = s /\ r.log = log
      <4> HIDE DEF log
      <4> QED BY <1>1, <3>1, <3>3, <3>4 DEF Rows, Cursors
    <3>6. s \in 0 .. Len(node.journal) - 1
      BY <1>1
    <3>7. type = TaskEvent(node.journal[g.row.cursor + 1 + 1])
      BY <2>3 DEF type
    <3> HIDE DEF r
    <3>8. Taken(g.row, r)
      BY <2>3, <3>5, <3>6, <3>7 DEF Taken
    <3> QED BY <3>5, <3>8
  <2> QED BY <2>1, <2>2, <2>3
<1> HIDE DEF r, type, applied, seq
<1>4. h.row = r /\ "row" \in DOMAIN h
  BY DEF Gs
<1> HIDE DEF h
<1>5. p.row = r /\ "row" \in DOMAIN p
  BY <1>4 DEF PushEvent
<1> HIDE DEF p
<1>6. q.row = r /\ "row" \in DOMAIN q
  <2>1. FinishTask(p).row = r /\ "row" \in DOMAIN FinishTask(p)
    BY <1>5 DEF FinishTask
  <2> QED BY <1>5, <2>1
<1> HIDE DEF q
<1>7. SameSource(r, MaybeClearCatchUp(q).row)
  BY <1>3, <1>6, MaybeClearSource
<1>8. SameSource(g.row, IngestSource(g, k, s).row) \/ Taken(g.row, IngestSource(g, k, s).row)
  BY <1>2, <1>3, <1>7, NotedSame DEF SameSource
<1> QED BY <1>8

-----------------------------------------------------------------------------
(* What a step does to the log and to its source *)

\* The journal only grows.
JournalKept ==
  /\ Len(node.journal) <= Len(node'.journal)
  /\ \A i \in 1 .. Len(node.journal) : node'.journal[i] = node.journal[i]

\* A step leaves the log to its source: it notes an event of the gateway or takes the next one of
\* the journal, or it leaves the row alone while the journal grows.
SourceStep ==
  \/ UNCHANGED node /\ (Noted(row, row') \/ Taken(row, row'))
  \/ UNCHANGED row /\ JournalKept

\* Neither the row nor the Node changes.
LEMMA SourceIdle ==
  ASSUME UNCHANGED <<node, row>>
  PROVE  SourceStep
BY DEF SourceStep, Noted

\* The Node journals an event.
LEMMA JournalAppend ==
  ASSUME IInv, UNCHANGED row, NEW k, k \in EventKinds \cup TerminalRun,
         node'.journal = Append(node.journal, k)
  PROVE  SourceStep
<1>1. node.journal \in Seq(EventKinds \cup TerminalRun)
  BY Now DEF Nodes
<1>2. /\ Len(Append(node.journal, k)) = Len(node.journal) + 1 /\ Len(node.journal) \in Nat
      /\ \A i \in 1 .. Len(node.journal) : Append(node.journal, k)[i] = node.journal[i]
  BY <1>1, AppendProperties, LenProperties
<1> QED BY <1>2 DEF SourceStep, JournalKept

\* The steps of the Node.
LEMMA NodeSource ==
  ASSUME IInv,
         \/ \E k \in EventKinds : NodeEmit(k)
         \/ \E s \in {"completed", "failed"} : NodeFinish(s)
         \/ NodePrune \/ ResultStoreFails \/ ResultStoreHeals
         \/ \E c \in calls : NodeStop(c)
         \/ CancelLocal
  PROVE  SourceStep
<1>1. UNCHANGED row
  BY DEF NodeEmit, NodeFinish, NodePrune, ResultStoreFails, ResultStoreHeals, NodeStop, CancelLocal
<1>2. "stopped" \in TerminalRun /\ \A s \in {"completed", "failed"} : s \in TerminalRun
  BY DEF TerminalRun, RunStatuses
<1>3. CASE \E k \in EventKinds \cup TerminalRun : node'.journal = Append(node.journal, k)
  BY <1>1, <1>3, JournalAppend
<1>4. CASE node'.journal = node.journal
  <2>1. Len(node.journal) <= Len(node.journal)
    BY Now DEF Nodes
  <2> QED BY <1>1, <1>4, <2>1 DEF SourceStep, JournalKept
<1>5. ASSUME NEW k \in EventKinds, NodeEmit(k)
      PROVE  node'.journal = Append(node.journal, k)
  BY <1>5, Now DEF NodeEmit, Nodes
<1>6. ASSUME NEW s \in {"completed", "failed"}, NodeFinish(s)
      PROVE  node'.journal = Append(node.journal, s)
  BY <1>6, Now DEF NodeFinish, Nodes
<1>7. NodePrune \/ ResultStoreFails \/ ResultStoreHeals => node'.journal = node.journal
  BY Now DEF NodePrune, ResultStoreFails, ResultStoreHeals, Nodes
<1>8. ASSUME NEW c \in calls, NodeStop(c)
      PROVE  node'.journal = Append(node.journal, "stopped") \/ node'.journal = node.journal
  <2>1. node' = [node EXCEPT !.status = "stopped", !.journal = Append(@, "stopped")] \/ node' = node
    BY <1>8 DEF NodeStop
  <2> QED BY <2>1, Now DEF Nodes
<1>9. CancelLocal => node'.journal = Append(node.journal, "stopped")
  BY Now DEF CancelLocal, Nodes
<1> QED BY <1>2, <1>3, <1>4, <1>5, <1>6, <1>7, <1>8, <1>9

\* The steps of the event pump.
LEMMA PumpSource ==
  ASSUME IInv, PumpEvent \/ Drain \/ Reconnect \/ GiveUp \/ HandleEvents
  PROVE  SourceStep
<1>1. UNCHANGED node
  BY DEF PumpEvent, Drain, Reconnect, GiveUp, HandleEvents
<1>2. CASE PumpEvent
  <2> DEFINE k == node.journal[pump.pos + 1]
             g == IF pump.mode = "live" THEN Ingest(G, k) ELSE IngestSource(G, k, pump.pos)
             p == IF k \in TerminalRun THEN NoPump ELSE [g.pump EXCEPT !.pos = @ + 1]
  <2>1. row' = [g EXCEPT !.pump = p].row /\ mem.up /\ pump.pos < Len(node.journal)
    BY <1>2 DEF PumpEvent, Becomes
  <2>2. pump.pos \in Nat /\ g \in Gs
    BY <2>1, Now, NextEvent, IngestGood, IngestSourceGood DEF Good, Sound
  <2>3. Noted(row, g.row) \/ Taken(row, g.row)
    <3>1. Noted(row, Ingest(G, k).row)
      BY Now, IngestNoted
    <3>2. SameSource(row, IngestSource(G, k, pump.pos).row) \/ Taken(row, IngestSource(G, k, pump.pos).row)
      BY <2>1, <2>2, Now, IngestSourceTaken
    <3> QED BY <3>1, <3>2, NotedSame
  <2> HIDE DEF g, p
  <2>4. row' = g.row
    BY <2>1, <2>2 DEF Gs
  <2> QED BY <1>1, <2>3, <2>4 DEF SourceStep
<1>3. CASE Drain
  <2> DEFINE g == Ingest(G, node.journal[pump.pos + 1])
  <2>1. row' = g.row \/ row' = [g EXCEPT !.pump.pos = @ + 1].row
    BY <1>3 DEF Drain, Becomes
  <2>2. g \in Gs
    BY <1>3, Now, NextEvent, IngestGood DEF Drain, Good, Sound
  <2>3. Noted(row, g.row)
    BY Now, IngestNoted
  <2> HIDE DEF g
  <2>4. row' = g.row
    BY <2>1, <2>2 DEF Gs
  <2> QED BY <1>1, <2>3, <2>4 DEF SourceStep
<1>4. CASE Reconnect
  <2>1. pump.after \in Cursors /\ (pump.mode = "replay" => pump.after # NoCursor)
    BY Now DEF Pumps, Good, Sound
  <2>2. SameSource(row, row')
    BY <1>4, <2>1, Now, StartReplayPumpSource, StartRemotePumpSource DEF Reconnect, Becomes, SameSource
  <2> QED BY <1>1, <2>2, NotedSame DEF SourceStep
<1>5. CASE GiveUp
  <2>1. row' = [G EXCEPT !.pump = NoPump, !.mem.reconciling = TRUE].row
    BY <1>5 DEF GiveUp, Becomes
  <2>2. row' = row
    BY <2>1, Now DEF Gs
  <2> QED BY <1>1, <2>2, SourceIdle
<1>6. CASE HandleEvents
  <2>1. SameSource(row, row')
    BY <1>6, Now, ResumePumpSource DEF HandleEvents, Becomes
  <2> QED BY <1>1, <2>1, NotedSame DEF SourceStep
<1> QED BY <1>2, <1>3, <1>4, <1>5, <1>6

\* The result fetches.
LEMMA FetchSource ==
  ASSUME IInv, (\E f \in fin : FetchOk(f) \/ FetchFail(f)) \/ PostFetchOk \/ PostFetchFail
  PROVE  SourceStep
<1>1. UNCHANGED node
  BY DEF FetchOk, FetchFail, PostFetchOk, PostFetchFail
<1>2. \A f \in fin : f.type \in LogTypes
  BY Now, TerminalLogType DEF Finishers
<1>3. ASSUME NEW f \in fin, FetchOk(f)
      PROVE  SourceStep
  <2> DEFINE g == FinishWithTerminal(G, f, NodeResult)
  <2>1. row' = [g EXCEPT !.fin = @ \ {f}].row
    BY <1>3 DEF FetchOk, Becomes
  <2>2. Noted(row, g.row)
    BY <1>2, Now, FinishWithTerminalNoted
  <2>3. "row" \in DOMAIN g
    <3>1. f.seq \in Nat /\ f.type = TaskStatus(node.status) /\ node.status # "running" /\ mem.up
      BY <1>3, Now DEF Good, Sound, FinTrue, Finishers, FetchOk
    <3>2. /\ NodeResult \in {"available", "missing"} /\ (NodeResult = "available" => node.status = "completed")
          /\ (Attended(mem) => NodeResult # "missing")
      BY <3>1, Now, NodeResultTrue DEF Attended
    <3>3. Good(g)
      BY <3>1, <3>2, Now, FinishWithTerminalGood
    <3> HIDE DEF g
    <3> QED BY <3>3 DEF Good, Sound, Gs
  <2> HIDE DEF g
  <2>4. row' = g.row
    BY <2>1, <2>3
  <2> QED BY <1>1, <2>2, <2>4 DEF SourceStep
<1>4. ASSUME NEW f \in fin, FetchFail(f)
      PROVE  SourceStep
  <2> DEFINE g == [G EXCEPT !.fin = G.fin \ {f}]
             e == [f EXCEPT !.tries = @ + 1]
  <2>1. g \in Gs /\ g.row = row
    BY Now, SetFin
  <2>2. \/ row' = [g EXCEPT !.fin = g.fin \cup {e}].row
        \/ row' = FinishWithTerminal(g, f, "missing").row
        \/ row' = g.row
    BY <1>4 DEF FetchFail, Becomes
  <2> HIDE DEF g, e
  <2>3. [g EXCEPT !.fin = g.fin \cup {e}].row = row
    BY <2>1 DEF Gs
  <2>4. Noted(row, FinishWithTerminal(g, f, "missing").row)
    BY <1>2, <2>1, FinishWithTerminalNoted
  <2> QED BY <1>1, <2>1, <2>2, <2>3, <2>4, SourceIdle DEF SourceStep
<1>5. CASE PostFetchOk
  <2>1. PICK res : row' = [G EXCEPT !.post = FALSE, !.mem.pending = res, !.row = PersistTaskResult(@, res)].row
    BY <1>5 DEF PostFetchOk, Becomes
  <2>2. row' = PersistTaskResult(row, res)
    BY <2>1, Now DEF Gs
  <2>3. SameSource(row, row')
    BY <2>2, Now DEF PersistTaskResult, SameSource, Rows
  <2> QED BY <1>1, <2>3, NotedSame DEF SourceStep
<1>6. CASE PostFetchFail
  <2>1. row' = row
    BY <1>6, Now DEF PostFetchFail, Becomes, Gs
  <2> QED BY <1>1, <2>1, SourceIdle
<1> QED BY <1>3, <1>4, <1>5, <1>6

\* Answers of the Node are folded in.
LEMMA AnswerSource ==
  ASSUME IInv, NEW c \in calls,
         HandleGet(c) \/ HandleCancel(c) \/ CancelDone(c) \/ ReconcileViaStatus(c) \/ ReconcileRecovered(c)
  PROVE  SourceStep
<1> DEFINE g == ReconcileRemoteRecord(G, c.reply)
<1>1. UNCHANGED node /\ mem.up
  BY DEF HandleGet, HandleCancel, CancelDone, ReconcileViaStatus, ReconcileRecovered
<1>2. Noted(row, g.row)
  BY Now, ReconcileNoted
<1>3. g \in Gs /\ g.mem \in Mems /\ g.row \in Rows
  <2>1. c.reply \in TerminalRun => node.status = c.reply
    BY Now DEF CallsTrue
  <2>2. Good(g)
    BY <1>1, <2>1, Now, ReconcileGood
  <2> QED BY <2>2 DEF Good, Sound, Gs
<1>4. CASE HandleGet(c)
  BY <1>1, <1>2, <1>4 DEF HandleGet, Becomes, SourceStep
<1>5. CASE HandleCancel(c)
  <2>1. row' = G.row \/ row' = [G EXCEPT !.mem.cancelling = TRUE].row
    BY <1>5 DEF HandleCancel, Becomes
  <2>2. row' = row
    BY <2>1, Now DEF Gs
  <2> QED BY <1>1, <2>2, SourceIdle
<1>6. CASE CancelDone(c)
  <2>1. row' = [g EXCEPT !.mem.cancelling = FALSE].row
    BY <1>6 DEF CancelDone, Becomes
  <2> HIDE DEF g
  <2>2. row' = g.row
    BY <1>3, <2>1 DEF Gs
  <2> QED BY <1>1, <1>2, <2>2 DEF SourceStep
<1>7. CASE ReconcileViaStatus(c)
  <2> DEFINE m == [g.mem EXCEPT !.reconciling = FALSE]
             h == [g EXCEPT !.mem = m]
             n == [m EXCEPT !.resumes = @ + 1]
             i == [h EXCEPT !.mem = n]
  <2>1. h = [g EXCEPT !.mem.reconciling = FALSE] /\ h.mem = m
    BY <1>3 DEF Gs
  <2>2. i = [h EXCEPT !.mem.resumes = @ + 1]
    BY <1>3 DEF Gs
  <2>3. row' = h.row \/ (~(m.resumes >= MaxResumes) /\ row' = ResumePump(i).row)
    BY <1>7, <2>1, <2>2 DEF ReconcileViaStatus, Becomes
  <2> HIDE DEF g
  <2>4. m \in Mems
    BY <1>3 DEF Mems
  <2>5. ~(m.resumes >= MaxResumes) => n \in Mems
    <3> HIDE DEF m
    <3>1. m.resumes \in 0 .. MaxResumes
      BY <2>4 DEF Mems
    <3>2. ~(m.resumes >= MaxResumes) => m.resumes + 1 \in 0 .. MaxResumes
      BY <3>1, BoundsAssumption
    <3> QED BY <2>4, <3>2 DEF Mems
  <2> HIDE DEF m, n
  <2>6. h \in Gs /\ h.row = g.row
    BY <1>3, <2>4, SetMem
  <2> HIDE DEF h
  <2>7. n \in Mems => i \in Gs /\ i.row = g.row
    BY <2>6, SetMem
  <2> HIDE DEF i
  <2>8. SameSource(g.row, row')
    BY <2>3, <2>5, <2>6, <2>7, Now, ResumePumpSource DEF SameSource
  <2> QED BY <1>1, <1>2, <2>8, NotedSame DEF SourceStep
<1>8. CASE ReconcileRecovered(c)
  <2> DEFINE r == [g.row EXCEPT !.hist = TRUE]
             h == [g EXCEPT !.row = r]
  <2>1. row' = g.row \/ row' = StartRemotePump(h).row
    BY <1>8 DEF ReconcileRecovered, MarkTaskHistoryIncomplete, Becomes
  <2> HIDE DEF g
  <2>2. r \in Rows /\ SameSource(g.row, r)
    BY <1>3 DEF Rows, SameSource
  <2> HIDE DEF r
  <2>3. h \in Gs /\ h.row = r
    BY <1>3, <2>2, SetRow
  <2> HIDE DEF h
  <2>4. SameSource(g.row, row')
    BY <2>1, <2>2, <2>3, StartRemotePumpSource DEF SameSource
  <2> QED BY <1>1, <1>2, <2>4, NotedSame DEF SourceStep
<1> QED BY <1>4, <1>5, <1>6, <1>7, <1>8

\* A local task and the gateway's process, and the requests that are only sent or lost.
LEMMA ProcessSource ==
  ASSUME IInv,
         \/ \E kind \in {"get", "cancel"} : StatusCall(kind)
         \/ \E c \in calls : CallFail(c)
         \/ ReconcileLocal \/ Crash \/ Recover
  PROVE  SourceStep
<1>1. UNCHANGED node
  BY DEF StatusCall, CallFail, ReconcileLocal, Crash, Recover
<1>2. CASE (\E kind \in {"get", "cancel"} : StatusCall(kind)) \/ (\E c \in calls : CallFail(c)) \/ Crash
  BY <1>1, <1>2, SourceIdle DEF StatusCall, CallFail, Crash
<1>3. CASE ReconcileLocal
  <2>1. CASE node.status = "running"
    <3>1. row' = StartPoll(G, SeedRecoveredLocalCursor(G)).row
      BY <1>3, <2>1 DEF ReconcileLocal, Becomes
    <3>2. row' = row
      BY <3>1, Now DEF StartPoll, Gs
    <3> QED BY <1>1, <3>2, SourceIdle
  <2>2. CASE node.status # "running"
    <3> DEFINE h == [G EXCEPT !.mem.nextSeq = @ + 1]
               ev == [seq |-> mem.nextSeq, type |-> TaskStatus(node.status)]
    <3>1. row' = FinishWithTerminal(h, ev, ResolveTerminalResult(TaskStatus(node.status))).row
      BY <1>3, <2>2 DEF ReconcileLocal, Becomes
    <3>2. h \in Gs /\ h.row = row /\ ev.type \in LogTypes
      BY <2>2, Now, NextSeqSource, TaskStatusType, TerminalLogType
    <3> HIDE DEF h, ev
    <3>3. Noted(row, row')
      BY <3>1, <3>2, FinishWithTerminalNoted
    <3> QED BY <1>1, <3>3 DEF SourceStep
  <2> QED BY <2>1, <2>2
<1>4. CASE Recover
  <2> DEFINE m == [FreshMem EXCEPT !.nextSeq = Len(row.log), !.recovered = TRUE, !.terminal = IsTerminal(row)]
             g == [G EXCEPT !.mem = m]
  <2>1. (row.cursor # NoCursor /\ row' = StartReplayPump(g, row.cursor).row) \/ row' = g.row
    BY <1>4 DEF Recover, Becomes
  <2>2. m \in Mems
    <3>1. Len(row.log) \in Nat /\ IsTerminal(row) \in BOOLEAN
      BY Now DEF Rows, IsTerminal
    <3> QED BY <3>1, FreshMemType DEF Mems
  <2> HIDE DEF m
  <2>3. g \in Gs /\ g.row = row
    BY <2>2, Now, SetMem
  <2> HIDE DEF g
  <2>4. row.cursor \in Cursors
    BY Now DEF Rows
  <2>5. SameSource(row, row')
    BY <2>1, <2>3, <2>4, Now, StartReplayPumpSource DEF SameSource
  <2> QED BY <1>1, <2>5, NotedSame DEF SourceStep
<1> QED BY <1>2, <1>3, <1>4

\* Every step.
LEMMA NextSource ==
  ASSUME IInv, [Next]_vars
  PROVE  SourceStep
<1>1. CASE UNCHANGED vars
  BY <1>1, SourceIdle DEF vars
<1>2. CASE Next
  BY <1>2, NodeSource, PumpSource, FetchSource, AnswerSource, ProcessSource DEF Next
<1> QED BY <1>1, <1>2

-----------------------------------------------------------------------------
(* The log stays exact *)

\* The entries of a row.
LEMMA LogEntries ==
  ASSUME NEW r \in Rows
  PROVE  /\ Len(r.log) \in Nat /\ r.cursor \in Int /\ DOMAIN r.log = 1 .. Len(r.log)
         /\ \A i \in 1 .. Len(r.log) : r.log[i].src \in Int
<1>1. r.log \in Seq([type : LogTypes, src : Int]) /\ r.cursor \in Int
  BY DEF Rows, Cursors, NoCursor
<1>2. Len(r.log) \in Nat /\ DOMAIN r.log = 1 .. Len(r.log)
  BY <1>1, LenProperties
<1>3. \A i \in 1 .. Len(r.log) : r.log[i] \in [type : LogTypes, src : Int]
  BY <1>1, <1>2, ElementOfSeq
<1> QED BY <1>1, <1>2, <1>3

\* An entry behind the others.
LEMMA LogAppend ==
  ASSUME NEW r \in Rows, NEW type \in LogTypes, NEW src \in Int
  PROVE  LET log == Append(r.log, [type |-> type, src |-> src])
         IN  /\ Len(log) = Len(r.log) + 1
             /\ log[Len(r.log) + 1].type = type /\ log[Len(r.log) + 1].src = src
             /\ \A i \in 1 .. Len(r.log) : log[i] = r.log[i]
<1>1. r.log \in Seq([type : LogTypes, src : Int]) /\ [type |-> type, src |-> src] \in [type : LogTypes, src : Int]
  BY DEF Rows
<1>2. LET log == Append(r.log, [type |-> type, src |-> src])
      IN  /\ Len(log) = Len(r.log) + 1 /\ log[Len(r.log) + 1] = [type |-> type, src |-> src]
          /\ \A i \in 1 .. Len(r.log) : log[i] = r.log[i]
  BY <1>1, AppendProperties
<1> QED BY <1>2

\* An event that is not from the source changes nothing.
LEMMA NotedExact ==
  ASSUME NEW r \in Rows, NEW s, NEW journal, Exact(r, journal), Noted(r, s)
  PROVE  Exact(s, journal)
<1>1. CASE s.log = r.log
  BY <1>1 DEF Noted, Exact
<1>2. CASE s.log # r.log
  <2>1. PICK type \in LogTypes : s.log = Append(r.log, [type |-> type, src |-> -1])
    BY <1>2 DEF Noted
  <2>2. /\ Len(s.log) = Len(r.log) + 1 /\ s.log[Len(r.log) + 1].src = -1
        /\ \A i \in 1 .. Len(r.log) : s.log[i] = r.log[i]
    BY <2>1, LogAppend
  <2>3. s.cursor = r.cursor /\ Len(r.log) \in Nat
    BY LogEntries DEF Noted
  <2>4. \A i \in 1 .. Len(s.log) : s.log[i].src >= 0 => i \in 1 .. Len(r.log) /\ s.log[i] = r.log[i]
    BY <2>2, <2>3
  <2>5. \A i \in 1 .. Len(r.log) : i \in 1 .. Len(s.log)
    BY <2>2, <2>3
  <2>6. \A i \in 1 .. Len(s.log) : s.log[i].src >= 0 =>
          /\ s.log[i].src <= s.cursor /\ s.log[i].type # Null
          /\ s.log[i].type = TaskEvent(journal[s.log[i].src + 1])
    BY <2>3, <2>4 DEF Exact
  <2>7. \A k \in 0 .. s.cursor : TaskEvent(journal[k + 1]) # Null => \E i \in 1 .. Len(s.log) : s.log[i].src = k
    BY <2>2, <2>3, <2>5 DEF Exact
  <2>8. \A i, j \in 1 .. Len(s.log) :
          i < j /\ s.log[i].src >= 0 /\ s.log[j].src >= 0 => s.log[i].src < s.log[j].src
    BY <2>4 DEF Exact
  <2> QED BY <2>3, <2>6, <2>7, <2>8 DEF Exact
<1> QED BY <1>1, <1>2

\* The event behind the cursor is taken.
LEMMA TakenExact ==
  ASSUME NEW r \in Rows, NEW s, node \in Nodes, Exact(r, node.journal), Taken(r, s)
  PROVE  Exact(s, node.journal)
<1>1. PICK journal, c, type : journal = node.journal /\ c = r.cursor + 1 /\ type = TaskEvent(node.journal[c + 1])
  OBVIOUS
<1>2. /\ s.cursor = c /\ c \in 0 .. Len(journal) - 1 /\ type = TaskEvent(journal[c + 1])
      /\ s.log = IF type = Null THEN r.log ELSE Append(r.log, [type |-> type, src |-> c])
  BY <1>1 DEF Taken
<1>3. Len(journal) \in Nat /\ r.cursor \in Int /\ Len(r.log) \in Nat /\ c \in Int /\ c = r.cursor + 1
      /\ Exact(r, journal) /\ \A i \in 1 .. Len(r.log) : r.log[i].src \in Int
  BY <1>1, LogEntries DEF Nodes
<1>4. s.cursor < Len(journal)
  BY <1>2, <1>3
<1>5. \A k \in 0 .. c : k \in 0 .. r.cursor \/ k = c
  BY <1>3
<1>6. \A i \in 1 .. Len(r.log) : r.log[i].src >= 0 => r.log[i].src <= c /\ r.log[i].src < c
  BY <1>3 DEF Exact
<1>7. CASE type = Null
  <2>1. s.log = r.log
    BY <1>2, <1>7
  <2>2. \A k \in 0 .. c : TaskEvent(journal[k + 1]) # Null => \E i \in 1 .. Len(r.log) : r.log[i].src = k
    BY <1>2, <1>3, <1>5, <1>7 DEF Exact
  <2>3. Exact(s, journal)
    BY <1>2, <1>3, <1>4, <1>6, <2>1, <2>2 DEF Exact
  <2> QED BY <1>1, <2>3
<1>8. CASE type # Null
  <2>1. type \in LogTypes
    BY <1>2, <1>8 DEF TaskEvent, TaskStatus, TerminalRun, RunStatuses, LogTypes, TerminalTypes
  <2>2. /\ Len(s.log) = Len(r.log) + 1 /\ s.log[Len(r.log) + 1].type = type
        /\ s.log[Len(r.log) + 1].src = c /\ \A i \in 1 .. Len(r.log) : s.log[i] = r.log[i]
    BY <1>2, <1>3, <1>8, <2>1, LogAppend
  <2>3. \A i \in 1 .. Len(s.log) : i = Len(r.log) + 1 \/ (i \in 1 .. Len(r.log) /\ s.log[i] = r.log[i])
    BY <1>3, <2>2
  <2>4. Len(r.log) + 1 \in 1 .. Len(s.log) /\ \A i \in 1 .. Len(r.log) : i \in 1 .. Len(s.log)
    BY <1>3, <2>2
  <2>5. \A i \in 1 .. Len(s.log) : s.log[i].src >= 0 =>
          /\ s.log[i].src <= s.cursor /\ s.log[i].type # Null
          /\ s.log[i].type = TaskEvent(journal[s.log[i].src + 1])
    <3> SUFFICES ASSUME NEW i \in 1 .. Len(s.log), s.log[i].src >= 0
                 PROVE  /\ s.log[i].src <= s.cursor /\ s.log[i].type # Null
                        /\ s.log[i].type = TaskEvent(journal[s.log[i].src + 1])
      OBVIOUS
    <3>1. CASE i = Len(r.log) + 1
      BY <1>2, <1>3, <1>8, <2>2, <3>1
    <3>2. CASE i \in 1 .. Len(r.log) /\ s.log[i] = r.log[i]
      BY <1>2, <1>3, <1>6, <3>2 DEF Exact
    <3> QED BY <2>3, <3>1, <3>2
  <2>6. \A k \in 0 .. s.cursor : TaskEvent(journal[k + 1]) # Null => \E i \in 1 .. Len(s.log) : s.log[i].src = k
    <3> SUFFICES ASSUME NEW k \in 0 .. s.cursor, TaskEvent(journal[k + 1]) # Null
                 PROVE  \E i \in 1 .. Len(s.log) : s.log[i].src = k
      OBVIOUS
    <3>1. CASE k = c
      BY <2>2, <2>4, <3>1
    <3>2. CASE k \in 0 .. r.cursor
      <4>1. PICK i \in 1 .. Len(r.log) : r.log[i].src = k
        BY <1>3, <3>2 DEF Exact
      <4> QED BY <2>2, <2>4, <4>1
    <3> QED BY <1>2, <1>5, <3>1, <3>2
  <2>7. \A i, j \in 1 .. Len(s.log) :
          i < j /\ s.log[i].src >= 0 /\ s.log[j].src >= 0 => s.log[i].src < s.log[j].src
    <3> SUFFICES ASSUME NEW i \in 1 .. Len(s.log), NEW j \in 1 .. Len(s.log),
                        i < j, s.log[i].src >= 0, s.log[j].src >= 0
                 PROVE  s.log[i].src < s.log[j].src
      OBVIOUS
    <3>1. i \in 1 .. Len(r.log) /\ s.log[i] = r.log[i]
      BY <1>3, <2>2
    <3>2. CASE j = Len(r.log) + 1
      BY <1>6, <2>2, <3>1, <3>2
    <3>3. CASE j \in 1 .. Len(r.log) /\ s.log[j] = r.log[j]
      BY <1>3, <3>1, <3>3 DEF Exact
    <3> QED BY <2>3, <3>2, <3>3
  <2>8. Exact(s, journal)
    BY <1>4, <2>5, <2>6, <2>7 DEF Exact
  <2> QED BY <1>1, <2>8
<1> QED BY <1>7, <1>8

\* What was read of the journal stays in it.
LEMMA GrownExact ==
  ASSUME NEW r \in Rows, NEW old, NEW new, Len(old) \in Nat, Len(new) \in Nat, Len(old) <= Len(new),
         \A i \in 1 .. Len(old) : new[i] = old[i], Exact(r, old)
  PROVE  Exact(r, new)
<1>1. /\ r.cursor \in Int /\ \A i \in 1 .. Len(r.log) : r.log[i].src \in Int
      /\ r.cursor < Len(old)
  BY LogEntries DEF Exact
<1>2. \A k \in 0 .. r.cursor : new[k + 1] = old[k + 1]
  BY <1>1
<1>3. \A i \in 1 .. Len(r.log) : r.log[i].src >= 0 => r.log[i].src \in 0 .. r.cursor
  BY <1>1 DEF Exact
<1>4. r.cursor < Len(new)
  BY <1>1
<1> QED BY <1>2, <1>3, <1>4 DEF Exact

\* Every step keeps the log exact.
LEMMA ExactStep ==
  ASSUME IInv, Exact(row, node.journal), [Next]_vars
  PROVE  Exact(row', node'.journal)
<1>1. SourceStep /\ row \in Rows /\ node \in Nodes
  BY NextSource, Now
<1>2. CASE UNCHANGED node /\ Noted(row, row')
  BY <1>1, <1>2, NotedExact
<1>3. CASE UNCHANGED node /\ Taken(row, row')
  BY <1>1, <1>3, TakenExact
<1>4. CASE UNCHANGED row /\ JournalKept
  <2>1. node' \in Nodes
    BY NextStep DEF IInv
  <2>2. Len(node.journal) \in Nat /\ Len(node'.journal) \in Nat
    BY <1>1, <2>1 DEF Nodes
  <2> QED BY <1>1, <1>4, <2>2, GrownExact DEF JournalKept
<1> QED BY <1>1, <1>2, <1>3, <1>4 DEF SourceStep

\* A fresh row has nothing of its source.
LEMMA InitExact == Init => Exact(row, node.journal)
<1> SUFFICES ASSUME Init PROVE Exact(row, node.journal)
  OBVIOUS
<1>1. /\ node.journal = <<>> /\ row.log = <<[type |-> "created", src |-> -1]>>
      /\ row.cursor \in {-1, -2}
  BY DEF Init, NoCursor
<1>2. Len(node.journal) = 0 /\ Len(row.log) = 1 /\ row.log[1].src = -1
  BY <1>1
<1> QED BY <1>1, <1>2 DEF Exact

-----------------------------------------------------------------------------
(* Counting the mapped events of a journal *)

Count(journal, i) == Cardinality(MappedEvents(journal, i))

\* The events of a prefix are finitely many.
LEMMA CountType ==
  ASSUME NEW journal, NEW i \in Nat
  PROVE  IsFiniteSet(MappedEvents(journal, i)) /\ Count(journal, i) \in Nat
<1>1. IsFiniteSet(1 .. i) /\ MappedEvents(journal, i) \in SUBSET (1 .. i)
  BY FS_Interval DEF MappedEvents
<1> QED BY <1>1, FS_Subset, FS_CardinalityType DEF Count

\* The count starts at zero, and a further event raises it by one if it is mapped.
LEMMA CountStep ==
  ASSUME NEW journal, NEW i \in Nat
  PROVE  /\ Count(journal, 0) = 0
         /\ Count(journal, i + 1) = IF TaskEvent(journal[i + 1]) # Null THEN Count(journal, i) + 1
                                                                       ELSE Count(journal, i)
<1>1. MappedEvents(journal, 0) = {}
  BY DEF MappedEvents
<1>2. CASE TaskEvent(journal[i + 1]) # Null
  <2>1. MappedEvents(journal, i + 1) = MappedEvents(journal, i) \cup {i + 1} /\ i + 1 \notin MappedEvents(journal, i)
    BY <1>2 DEF MappedEvents
  <2> QED BY <1>1, <1>2, <2>1, CountType, FS_AddElement, FS_EmptySet DEF Count
<1>3. CASE TaskEvent(journal[i + 1]) = Null
  <2>1. MappedEvents(journal, i + 1) = MappedEvents(journal, i)
    BY <1>3 DEF MappedEvents
  <2> QED BY <1>1, <1>3, <2>1, FS_EmptySet DEF Count
<1> QED BY <1>2, <1>3

\* A longer prefix has no fewer mapped events, and more if its last one is mapped.
LEMMA CountGrows ==
  ASSUME NEW journal, NEW i \in Nat, NEW j \in Nat, i <= j
  PROVE  /\ Count(journal, i) <= Count(journal, j)
         /\ i < j /\ TaskEvent(journal[j]) # Null => Count(journal, i) < Count(journal, j)
<1>1. \A k \in Nat : i <= k => Count(journal, i) <= Count(journal, k)
  <2> SUFFICES ASSUME NEW k \in Nat, i <= k PROVE Count(journal, i) <= Count(journal, k)
    OBVIOUS
  <2>1. MappedEvents(journal, i) \in SUBSET MappedEvents(journal, k)
    BY DEF MappedEvents
  <2> QED BY <2>1, CountType, FS_Subset DEF Count
<1>2. ASSUME i < j, TaskEvent(journal[j]) # Null
      PROVE  Count(journal, i) < Count(journal, j)
  <2>1. PICK k \in Nat : j = k + 1 /\ i <= k
    <3>1. j - 1 \in Nat /\ j = (j - 1) + 1 /\ i <= j - 1
      BY <1>2
    <3> QED BY <3>1
  <2>2. Count(journal, j) = Count(journal, k) + 1 /\ Count(journal, i) <= Count(journal, k)
    BY <1>1, <1>2, <2>1, CountStep
  <2> QED BY <2>2, CountType
<1> QED BY <1>1, <1>2

\* The count depends on the prefix only.
LEMMA CountSame ==
  ASSUME NEW old, NEW new, NEW n \in Nat, \A i \in 1 .. n : new[i] = old[i], NEW i \in Nat, i <= n
  PROVE  Count(new, i) = Count(old, i)
<1>1. MappedEvents(new, i) = MappedEvents(old, i)
  BY DEF MappedEvents
<1> QED BY <1>1 DEF Count

\* seedRecoveredLocalCursor finds the position at which exactly the events of the log are read.
LEMMA SeedExact ==
  ASSUME NEW g, g.mem.nextSeq \in Nat \ {0}, Len(node.journal) \in Nat,
         g.mem.nextSeq - 1 <= Count(node.journal, Len(node.journal))
  PROVE  LET pos == SeedRecoveredLocalCursor(g)
         IN  pos \in 0 .. Len(node.journal) /\ Count(node.journal, pos) = g.mem.nextSeq - 1
<1>1. PICK journal, n, len, pos : /\ journal = node.journal /\ n = g.mem.nextSeq - 1 /\ len = Len(node.journal)
                                  /\ pos = SeedRecoveredLocalCursor(g)
  OBVIOUS
<1> DEFINE enough == {i \in 0 .. len - 1 : Count(journal, i) >= n}
<1>2. pos = IF enough = {} THEN len ELSE Min(enough)
  BY <1>1 DEF SeedRecoveredLocalCursor, Count
<1>3. n \in Nat /\ len \in Nat /\ n <= Count(journal, len)
  BY <1>1
<1>4. pos \in 0 .. len /\ Count(journal, pos) >= n /\ \A i \in 0 .. len - 1 : i < pos => Count(journal, i) < n
  <2>1. \A i \in 0 .. len : Count(journal, i) \in Nat
    BY <1>3, CountType
  <2>2. CASE enough = {}
    <3>1. \A i \in 0 .. len - 1 : ~(Count(journal, i) >= n)
      BY <2>2
    <3>2. pos = len
      BY <1>2, <2>2
    <3> QED BY <1>3, <2>1, <3>1, <3>2
  <2>3. CASE enough # {}
    <3>1. enough \in SUBSET Nat
      BY <1>3
    <3>2. pos \in enough /\ \A y \in enough : pos <= y
      BY <1>2, <2>3, <3>1, LeastNatural
    <3> QED BY <1>3, <2>1, <3>2
  <2> QED BY <2>2, <2>3
<1>5. Count(journal, pos) = n
  <2>1. CASE pos = 0
    <3>1. Count(journal, 0) = 0
      BY CountStep
    <3> QED BY <1>3, <1>4, <2>1, <3>1
  <2>2. CASE pos # 0
    <3>1. PICK k \in Nat : pos = k + 1 /\ k \in 0 .. len - 1 /\ k < pos
      <4>1. pos - 1 \in Nat /\ pos = (pos - 1) + 1 /\ pos - 1 \in 0 .. len - 1 /\ pos - 1 < pos
        BY <1>3, <1>4, <2>2
      <4> QED BY <4>1
    <3>2. Count(journal, k) < n /\ Count(journal, k) \in Nat
      BY <1>4, <3>1, CountType
    <3>3. Count(journal, pos) <= Count(journal, k) + 1 /\ Count(journal, pos) \in Nat
      <4>1. Count(journal, k + 1) = Count(journal, k) + 1 \/ Count(journal, k + 1) = Count(journal, k)
        BY CountStep
      <4> QED BY <3>1, <3>2, <4>1
    <3> QED BY <1>3, <1>4, <3>2, <3>3
  <2> QED BY <2>1, <2>2
<1> QED BY <1>1, <1>4, <1>5

-----------------------------------------------------------------------------
(* The log of a local task *)

\* Behind its first entry the log has the mapped events of the journal, as far as both go.
Agrees(log, journal) ==
  \A j \in 1 .. Len(journal) :
    TaskEvent(journal[j]) # Null /\ Count(journal, j) < Len(log) =>
      log[Count(journal, j) + 1].type = TaskEvent(journal[j])

\* It has them up to a position.
ReadTo(log, journal, pos) ==
  pos \in 0 .. Len(journal) /\ Len(log) = Count(journal, pos) + 1 /\ Agrees(log, journal)

\* It has that entry and no more of them than there are.
Within(log, journal) == Len(log) \in 1 .. Count(journal, Len(journal)) + 1 /\ Agrees(log, journal)

\* A local task has no call, fetch or cursor. While it is polled, the next sequence number is the
\* one behind its log and the log has the run's events up to the position of the poll; while the
\* run goes on, a restarted gateway can find that position again.
Polled ==
  cap.local =>
    /\ calls = {} /\ fin = {} /\ post = FALSE /\ row.cursor = NoCursor
    /\ pump.mode \in {"none", "poll", "drain"}
    /\ pump.mode = "drain" => node.status # "running"
    /\ pump.mode = "poll" => /\ mem.up /\ ~mem.terminal /\ mem.nextSeq = Len(row.log)
                             /\ ReadTo(row.log, node.journal, pump.pos)
    /\ node.status = "running" => /\ mem.up => mem.nextSeq = Len(row.log)
                                  /\ Within(row.log, node.journal)

\* A log that is read to a position is within the journal.
LEMMA ReadWithin ==
  ASSUME NEW log, NEW journal, Len(journal) \in Nat, NEW pos, ReadTo(log, journal, pos)
  PROVE  Within(log, journal)
<1>1. pos \in Nat /\ pos <= Len(journal) /\ Len(log) = Count(journal, pos) + 1 /\ Agrees(log, journal)
  BY DEF ReadTo
<1>2. Count(journal, pos) <= Count(journal, Len(journal)) /\ Count(journal, pos) \in Nat
      /\ Count(journal, Len(journal)) \in Nat
  BY <1>1, CountGrows, CountType
<1> QED BY <1>1, <1>2 DEF Within

\* The journal grows behind what was read.
LEMMA JournalBehind ==
  ASSUME NEW log, Len(log) \in Nat, NEW K, NEW old \in Seq(K), NEW k \in K, Within(log, old)
  PROVE  /\ Within(log, Append(old, k))
         /\ \A pos : ReadTo(log, old, pos) => ReadTo(log, Append(old, k), pos)
<1>1. PICK new, n : new = Append(old, k) /\ n = Len(old)
  OBVIOUS
<1>2. n \in Nat /\ Len(new) = n + 1 /\ \A i \in 1 .. n : new[i] = old[i]
  BY <1>1, AppendProperties, LenProperties
<1>3. \A i \in Nat : i <= n => Count(new, i) = Count(old, i)
  BY <1>2, CountSame
<1>4. /\ Count(new, n + 1) = IF TaskEvent(new[n + 1]) # Null THEN Count(old, n) + 1 ELSE Count(old, n)
      /\ Count(old, n) \in Nat /\ Len(log) <= Count(old, n) + 1
  <2>1. Count(new, n + 1) = IF TaskEvent(new[n + 1]) # Null THEN Count(new, n) + 1 ELSE Count(new, n)
    BY <1>2, CountStep
  <2>2. Count(new, n) = Count(old, n)
    BY <1>2, <1>3
  <2>3. Count(old, n) \in Nat /\ Len(log) <= Count(old, n) + 1
    BY <1>1, <1>2, CountType DEF Within
  <2> QED BY <2>1, <2>2, <2>3
<1>5. Agrees(log, new)
  <2> SUFFICES ASSUME NEW j \in 1 .. n + 1, TaskEvent(new[j]) # Null, Count(new, j) < Len(log)
               PROVE  log[Count(new, j) + 1].type = TaskEvent(new[j])
    BY <1>2 DEF Agrees
  <2>1. CASE j \in 1 .. n
    <3>1. Count(new, j) = Count(old, j) /\ new[j] = old[j]
      BY <1>2, <1>3, <2>1
    <3> QED BY <1>1, <2>1, <3>1 DEF Within, Agrees
  <2>2. CASE j = n + 1
    <3>1. Count(new, j) = Count(old, n) + 1
      BY <1>4, <2>2
    <3> QED BY <1>4, <3>1
  <2> QED BY <1>2, <2>1, <2>2
<1>6. Within(log, new)
  BY <1>2, <1>4, <1>5 DEF Within
<1>7. ASSUME NEW pos, ReadTo(log, old, pos)
      PROVE  ReadTo(log, new, pos)
  <2>1. pos \in 0 .. n /\ Len(log) = Count(old, pos) + 1
    BY <1>1, <1>7 DEF ReadTo
  <2>2. Count(new, pos) = Count(old, pos) /\ pos \in 0 .. n + 1
    BY <1>2, <1>3, <2>1
  <2> QED BY <1>2, <1>5, <2>1, <2>2 DEF ReadTo
<1> QED BY <1>1, <1>6, <1>7

\* The next event is read: a mapped one is appended to the log.
LEMMA ReadNext ==
  ASSUME NEW log, Len(log) \in Nat, NEW journal, Len(journal) \in Nat, NEW pos, ReadTo(log, journal, pos),
         pos < Len(journal), NEW new,
         IF TaskEvent(journal[pos + 1]) = Null THEN new = log
         ELSE /\ Len(new) = Len(log) + 1 /\ new[Len(log) + 1].type = TaskEvent(journal[pos + 1])
              /\ \A i \in 1 .. Len(log) : new[i] = log[i]
  PROVE  ReadTo(new, journal, pos + 1)
<1>1. pos \in Nat /\ pos + 1 \in 0 .. Len(journal) /\ Len(log) = Count(journal, pos) + 1 /\ Agrees(log, journal)
  BY DEF ReadTo
<1>2. /\ Count(journal, pos + 1) = IF TaskEvent(journal[pos + 1]) # Null THEN Count(journal, pos) + 1
                                                                       ELSE Count(journal, pos)
      /\ Count(journal, pos) \in Nat
  BY <1>1, CountStep, CountType
<1>3. CASE TaskEvent(journal[pos + 1]) = Null
  BY <1>1, <1>2, <1>3 DEF ReadTo
<1>4. CASE TaskEvent(journal[pos + 1]) # Null
  <2>1. /\ Len(new) = Len(log) + 1 /\ new[Len(log) + 1].type = TaskEvent(journal[pos + 1])
        /\ \A i \in 1 .. Len(log) : new[i] = log[i]
    BY <1>4
  <2>2. Agrees(new, journal)
    <3> SUFFICES ASSUME NEW j \in 1 .. Len(journal), TaskEvent(journal[j]) # Null, Count(journal, j) < Len(new)
                 PROVE  new[Count(journal, j) + 1].type = TaskEvent(journal[j])
      BY DEF Agrees
    <3>1. j \in Nat /\ Count(journal, j) \in Nat /\ Count(journal, j) <= Len(log)
      BY <2>1, CountType
    <3>2. CASE Count(journal, j) < Len(log)
      <4>1. Count(journal, j) + 1 \in 1 .. Len(log)
        BY <3>1, <3>2
      <4> QED BY <1>1, <2>1, <3>2, <4>1 DEF Agrees
    <3>3. CASE Count(journal, j) = Len(log)
      <4>1. Count(journal, j) = Count(journal, pos) + 1 /\ Count(journal, pos + 1) = Count(journal, pos) + 1
        BY <1>1, <1>2, <1>4, <3>3
      <4>2. j <= pos => Count(journal, j) <= Count(journal, pos)
        BY <1>1, <3>1, CountGrows
      <4>3. pos + 1 < j => Count(journal, pos + 1) < Count(journal, j)
        BY <1>1, <3>1, CountGrows
      <4>4. j = pos + 1
        BY <1>1, <1>2, <3>1, <4>1, <4>2, <4>3
      <4> QED BY <2>1, <3>3, <4>4
    <3> QED BY <3>1, <3>2, <3>3
  <2> QED BY <1>1, <1>2, <1>4, <2>1, <2>2 DEF ReadTo
<1> QED BY <1>3, <1>4

\* finishWithTerminal stops the pump of an open task.
LEMMA FinishWithTerminalStops ==
  ASSUME NEW g \in Gs, ~g.mem.terminal, NEW ev, NEW res
  PROVE  LET h == FinishWithTerminal(g, ev, res)
         IN  h.pump = NoPump /\ h.fin = g.fin /\ h.post = g.post /\ h.mem.terminal
<1> DEFINE m == [g.mem EXCEPT !.pending = res]
           r == TerminalizeWithResult(g.row, ev, res)
           pubs == g.pub \cup {<<ev.seq, ev.type>>}
           j == [[[g EXCEPT !.mem = m] EXCEPT !.row = r] EXCEPT !.pub = pubs]
           n == [m EXCEPT !.terminal = TRUE]
           h == [[j EXCEPT !.mem = n] EXCEPT !.pump = NoPump]
<1>1. m.terminal = g.mem.terminal /\ n.terminal = TRUE
  BY DEF Gs, Mems
<1>2. FinishWithTerminal(g, ev, res) = FinishTask(j)
  <2>1. [g EXCEPT !.mem = m] = [g EXCEPT !.mem.pending = res]
    BY DEF Gs
  <2>2. [g EXCEPT !.mem = m].row = g.row /\ [[g EXCEPT !.mem = m] EXCEPT !.row = r].pub = g.pub
    BY DEF Gs
  <2> HIDE DEF m
  <2> QED BY <2>1, <2>2 DEF FinishWithTerminal, PushEvent
<1>3. j.mem = m /\ j.fin = g.fin /\ j.post = g.post /\ DOMAIN j = {"row", "mem", "pump", "fin", "post", "pub"}
  <2> HIDE DEF m, r, pubs
  <2> QED BY DEF Gs
<1> HIDE DEF j, n, m
<1>4. FinishTask(j) = h
  <2>1. ~j.mem.terminal
    BY <1>1, <1>3
  <2> QED BY <1>3, <2>1 DEF FinishTask, n
<1>5. h.pump = NoPump /\ h.fin = g.fin /\ h.post = g.post /\ h.mem = n
  BY <1>3
<1> QED BY <1>1, <1>2, <1>4, <1>5

\* ingest, of an event of a local run.
LEMMA IngestLocal ==
  ASSUME NEW g \in Gs, cap.local, ~g.mem.terminal, NEW k \in EventKinds \cup TerminalRun
  PROVE  LET h == Ingest(g, k)
             type == TaskEvent(k)
         IN  /\ h.fin = g.fin /\ h.post = g.post
             /\ type = Null => h = g
             /\ type \in TerminalTypes => h.pump = NoPump /\ h.mem.terminal
             /\ type # Null /\ type \notin TerminalTypes =>
                  /\ h.pump = g.pump /\ h.mem.up = g.mem.up /\ ~h.mem.terminal
                  /\ h.mem.nextSeq = g.mem.nextSeq + 1
                  /\ g.mem.nextSeq = Len(g.row.log) => h.row.log = Append(g.row.log, [type |-> type, src |-> -1])
<1> DEFINE type == TaskEvent(k)
           m == [g.mem EXCEPT !.nextSeq = g.mem.nextSeq + 1]
           h == [g EXCEPT !.mem = m]
           ev == [seq |-> g.mem.nextSeq, type |-> type]
<1>1. /\ m \in Mems /\ m.up = g.mem.up /\ m.terminal = g.mem.terminal /\ m.nextSeq = g.mem.nextSeq + 1
      /\ h = [g EXCEPT !.mem.nextSeq = @ + 1]
  BY DEF Gs, Mems
<1>2. Ingest(g, k) = IF type = Null THEN g
                     ELSE IF type \in TerminalTypes THEN FinishWithTerminal(h, ev, ResolveTerminalResult(type))
                     ELSE PersistThenPush(h, g.mem.nextSeq, type)
  BY <1>1 DEF Ingest
<1>3. Null \notin TerminalTypes
  BY DEF Null, TerminalTypes
<1> HIDE DEF m, type, ev
<1>4. h \in Gs /\ h.mem = m /\ h.row = g.row /\ h.pump = g.pump /\ h.fin = g.fin /\ h.post = g.post
  BY <1>1, SetMem
<1> HIDE DEF h
<1>5. CASE type = Null
  BY <1>2, <1>3, <1>5 DEF type
<1>6. CASE type \in TerminalTypes
  <2>1. Ingest(g, k) = FinishWithTerminal(h, ev, ResolveTerminalResult(type)) /\ ~h.mem.terminal
    BY <1>1, <1>2, <1>3, <1>4, <1>6
  <2> QED BY <1>3, <1>4, <1>6, <2>1, FinishWithTerminalStops DEF type
<1>7. CASE type # Null /\ type \notin TerminalTypes
  <2> DEFINE r == AppendTaskEvent(h.row, g.mem.nextSeq, type, -1)
             p == [[h EXCEPT !.row = r] EXCEPT !.pub = @ \cup {<<g.mem.nextSeq, type>>}]
  <2>1. Ingest(g, k) = IF r = h.row THEN h ELSE p
    BY <1>2, <1>7 DEF PersistThenPush, PushEvent
  <2>2. g.mem.nextSeq = Len(g.row.log) => r.log = Append(g.row.log, [type |-> type, src |-> -1])
    BY <1>4 DEF AppendTaskEvent, Gs, Rows
  <2> HIDE DEF r
  <2>3. p.row = r /\ p.mem = m /\ p.pump = g.pump /\ p.fin = g.fin /\ p.post = g.post
    BY <1>4 DEF Gs
  <2> HIDE DEF p
  <2>4. Ingest(g, k).row = r /\ Ingest(g, k).mem = m /\ Ingest(g, k).pump = g.pump
        /\ Ingest(g, k).fin = g.fin /\ Ingest(g, k).post = g.post
    BY <1>4, <2>1, <2>3
  <2> QED BY <1>1, <1>7, <2>2, <2>4 DEF type
<1> QED BY <1>5, <1>6, <1>7

\* A step of a local task is one of these.
LEMMA LocalSteps ==
  ASSUME Polled, cap.local, Next
  PROVE  \/ \E k \in EventKinds : NodeEmit(k)
         \/ \E s \in {"completed", "failed"} : NodeFinish(s)
         \/ Drain \/ CancelLocal \/ ReconcileLocal \/ Crash \/ Recover
         \/ ResultStoreFails \/ ResultStoreHeals
<1>1. calls = {} /\ fin = {} /\ ~post /\ pump.mode \notin {"live", "replay"}
  BY DEF Polled
<1>2. ~PumpEvent /\ ~Reconnect /\ ~GiveUp /\ ~HandleEvents /\ ~NodePrune /\ ~PostFetchOk /\ ~PostFetchFail
      /\ ~(\E kind \in {"get", "cancel"} : StatusCall(kind))
  BY <1>1, Zenon DEF PumpEvent, Reconnect, GiveUp, HandleEvents, NodePrune, PostFetchOk, PostFetchFail, StatusCall
<1> QED BY <1>1, <1>2, Zenon DEF Next

\* No step changes what the task is.
LEMMA SameCap ==
  ASSUME [Next]_vars
  PROVE  cap' = cap
BY Zenon DEF Next, vars, NodeEmit, NodeFinish, NodePrune, ResultStoreFails, ResultStoreHeals, PumpEvent, Drain, Reconnect, GiveUp, HandleEvents, FetchOk,
             FetchFail, PostFetchOk, PostFetchFail, StatusCall, HandleGet, HandleCancel, NodeStop, CancelDone,
             ReconcileViaStatus, ReconcileRecovered, CallFail, CancelLocal, ReconcileLocal, Crash, Recover

\* What becomes of the store of results does not matter to the poll.
LEMMA StorePolled ==
  ASSUME IInv, Polled, cap.local, ResultStoreFails \/ ResultStoreHeals
  PROVE  Polled'
<1>1. UNCHANGED <<cap, row, mem, pump, calls, fin, post>>
  BY DEF ResultStoreFails, ResultStoreHeals
<1>2. node'.journal = node.journal /\ node'.status = node.status
  BY Now DEF ResultStoreFails, ResultStoreHeals, Nodes
<1> QED BY <1>1, <1>2 DEF Polled

\* The run goes on or ends.
LEMMA NodePolled ==
  ASSUME IInv, Polled, cap.local,
         \/ \E k \in EventKinds : NodeEmit(k)
         \/ \E s \in {"completed", "failed"} : NodeFinish(s)
         \/ CancelLocal
  PROVE  Polled'
<1>1. /\ node.status = "running" /\ UNCHANGED <<cap, row, mem, calls, fin, post>>
      /\ \/ pump' = pump
         \/ pump.mode = "none" /\ pump' = [pump EXCEPT !.mode = "drain"] /\ node'.status = "stopped"
  BY Now DEF NodeEmit, NodeFinish, CancelLocal, Nodes
<1>2. PICK k \in EventKinds \cup TerminalRun : node'.journal = Append(node.journal, k)
  BY Now DEF NodeEmit, NodeFinish, CancelLocal, Nodes, TerminalRun, RunStatuses
<1>3. /\ node.journal \in Seq(EventKinds \cup TerminalRun) /\ Len(row.log) \in Nat
      /\ Within(row.log, node.journal)
  BY <1>1, Now, LogEntries DEF Nodes, Polled
<1>4. /\ Within(row.log, Append(node.journal, k))
      /\ \A pos : ReadTo(row.log, node.journal, pos) => ReadTo(row.log, Append(node.journal, k), pos)
  BY <1>3, JournalBehind
<1>5. CASE pump' = pump
  BY <1>1, <1>2, <1>4, <1>5 DEF Polled
<1>6. CASE pump.mode = "none" /\ pump' = [pump EXCEPT !.mode = "drain"] /\ node'.status = "stopped"
  <2>1. pump'.mode = "drain"
    BY <1>6, Now DEF Pumps
  <2> QED BY <1>1, <1>6, <2>1 DEF Polled
<1> QED BY <1>1, <1>5, <1>6

\* drain.
LEMMA DrainPolled ==
  ASSUME IInv, Polled, cap.local, Drain
  PROVE  Polled'
<1> DEFINE k == node.journal[pump.pos + 1]
           g == Ingest(G, k)
           p == [g.pump EXCEPT !.pos = @ + 1]
           h == IF g.mem.terminal THEN g ELSE [g EXCEPT !.pump = p]
<1>1. /\ UNCHANGED <<node, cap, calls, faults>> /\ mem.up /\ pump.pos < Len(node.journal)
      /\ pump.mode \in {"poll", "drain"}
  BY DEF Drain
<1>2. Good(g)
  BY Now, NextEvent, IngestGood DEF Drain
<1>3. Becomes(h)
  <2>1. [g EXCEPT !.pump = p] = [g EXCEPT !.pump.pos = @ + 1]
    BY <1>2 DEF Good, Sound, Gs
  <2> QED BY <2>1 DEF Drain
<1>4. /\ k \in EventKinds \cup TerminalRun /\ (k \in TerminalRun => node.status = k) /\ pump.pos \in Nat
      /\ Len(row.log) \in Nat /\ Len(node.journal) \in Nat
  BY <1>1, NextEvent, Now, LogEntries DEF Nodes
<1>5. row'.cursor = NoCursor
  <2>1. Noted(row, g.row)
    BY Now, IngestNoted
  <2>2. h.row = g.row
    BY <1>2 DEF Good, Sound, Gs
  <2> QED BY <1>3, <2>1, <2>2 DEF Becomes, Noted, Polled
<1>6. CASE mem.terminal
  <2>1. g = G
    BY <1>6, Now DEF Ingest
  <2>2. h = G
    BY <1>6, <2>1, Now
  <2>3. fin' = fin /\ post' = post /\ pump' = pump /\ pump.mode = "drain" /\ node.status # "running"
    BY <1>1, <1>3, <1>6, <2>2, Now DEF Becomes, Polled
  <2> QED BY <1>1, <1>5, <2>3 DEF Polled
<1>7. CASE ~mem.terminal
  <2> DEFINE type == TaskEvent(k)
  <2>1. /\ g.fin = fin /\ g.post = post
        /\ type = Null => g = G
        /\ type \in TerminalTypes => g.pump = NoPump /\ g.mem.terminal
        /\ type # Null /\ type \notin TerminalTypes =>
             /\ g.pump = pump /\ g.mem.up = mem.up /\ ~g.mem.terminal
             /\ g.mem.nextSeq = mem.nextSeq + 1
             /\ mem.nextSeq = Len(row.log) => g.row.log = Append(row.log, [type |-> type, src |-> -1])
    BY <1>4, <1>7, Now, IngestLocal
  <2> HIDE DEF g
  <2>2. h.fin = fin /\ h.post = post /\ h.row = g.row /\ h.mem = g.mem
    BY <1>2, <2>1 DEF Good, Sound, Gs
  <2>3. fin' = fin /\ post' = post /\ row' = g.row /\ mem' = g.mem /\ pump' = h.pump
    BY <1>3, <2>2 DEF Becomes
  <2>4. CASE type \in TerminalTypes
    <3>1. node.status # "running"
      BY <1>4, <2>4, TaskEventType DEF TerminalRun
    <3>2. pump'.mode = "none"
      BY <2>1, <2>3, <2>4 DEF NoPump
    <3> QED BY <1>1, <1>5, <2>3, <3>1, <3>2 DEF Polled
  <2>5. CASE type \notin TerminalTypes
    <3>1. g.pump = pump /\ g.mem.up = mem.up /\ ~g.mem.terminal
      BY <1>7, <2>1, <2>5, Now
    <3>2. pump' = [pump EXCEPT !.pos = pump.pos + 1]
      <4>1. h = [g EXCEPT !.pump = p]
        BY <3>1
      <4>2. h.pump = p
        BY <1>2, <4>1 DEF Good, Sound, Gs
      <4> QED BY <2>3, <3>1, <4>2
    <3>3. pump'.mode = pump.mode /\ pump'.pos = pump.pos + 1
      BY <3>2, Now DEF Pumps
    <3>4. CASE pump.mode = "drain"
      BY <1>1, <1>5, <2>3, <3>3, <3>4 DEF Polled
    <3>5. CASE pump.mode = "poll"
      <4>1. mem.nextSeq = Len(row.log) /\ ReadTo(row.log, node.journal, pump.pos)
        BY <3>5 DEF Polled
      <4>2. CASE type = Null
        <5>1. row' = row /\ mem' = mem
          BY <2>1, <2>3, <4>2, Now
        <5>2. ReadTo(row.log, node.journal, pump.pos + 1)
          BY <1>1, <1>4, <4>1, <4>2, ReadNext
        <5> QED BY <1>1, <1>5, <2>3, <3>3, <4>1, <5>1, <5>2 DEF Polled
      <4>3. CASE type # Null
        <5>1. /\ row'.log = Append(row.log, [type |-> type, src |-> -1]) /\ mem'.up = mem.up /\ ~mem'.terminal
              /\ mem'.nextSeq = Len(row.log) + 1
          BY <2>1, <2>3, <2>5, <4>1, <4>3
        <5>2. type \in LogTypes
          BY <1>4, <2>5, <4>3, TaskEventType DEF LogTypes
        <5>3. /\ Len(row'.log) = Len(row.log) + 1 /\ row'.log[Len(row.log) + 1].type = type
              /\ \A i \in 1 .. Len(row.log) : row'.log[i] = row.log[i]
          BY <5>1, <5>2, Now, LogAppend
        <5>4. ReadTo(row'.log, node.journal, pump.pos + 1)
          BY <1>1, <1>4, <4>1, <4>3, <5>3, ReadNext
        <5>5. Within(row'.log, node.journal)
          BY <1>4, <5>4, ReadWithin
        <5> QED BY <1>1, <1>5, <2>3, <3>3, <5>1, <5>3, <5>4, <5>5 DEF Polled
      <4> QED BY <4>2, <4>3
    <3> QED BY <1>1, <3>4, <3>5
  <2> QED BY <2>4, <2>5
<1> QED BY <1>6, <1>7

\* reconcileRecovered of a local task.
LEMMA ReconcileLocalPolled ==
  ASSUME IInv, Polled, cap.local, ReconcileLocal
  PROVE  Polled'
<1>1. UNCHANGED <<node, cap, calls, faults>> /\ mem.up /\ ~mem.terminal /\ pump.mode = "none"
  BY DEF ReconcileLocal
<1>2. CASE node.status = "running"
  <2> DEFINE pos == SeedRecoveredLocalCursor(G)
             p == [mode |-> "poll", pos |-> pos, after |-> NoCursor]
             h == [G EXCEPT !.pump = p]
  <2>1. Becomes(h)
    BY <1>2 DEF ReconcileLocal, StartPoll
  <2>2. /\ mem.nextSeq = Len(row.log) /\ Within(row.log, node.journal) /\ Len(row.log) \in Nat
        /\ Len(node.journal) \in Nat
    BY <1>1, <1>2, Now, LogEntries DEF Polled, Nodes
  <2>3. Len(row.log) # 0
    BY <2>2 DEF Within
  <2>4. pos \in 0 .. Len(node.journal) /\ Count(node.journal, pos) = Len(row.log) - 1
    <3>1. Count(node.journal, Len(node.journal)) \in Nat /\ Len(row.log) <= Count(node.journal, Len(node.journal)) + 1
      BY <2>2, CountType DEF Within
    <3>2. Len(row.log) - 1 <= Count(node.journal, Len(node.journal))
      BY <2>2, <3>1
    <3> QED BY <2>2, <2>3, <3>2, Now, SeedExact
  <2> HIDE DEF pos
  <2>5. row' = row /\ mem' = mem /\ fin' = fin /\ post' = post /\ pump' = p
    BY <2>1, Now DEF Becomes, Gs
  <2>6. pump'.mode = "poll" /\ pump'.pos = pos
    BY <2>5
  <2>7. ReadTo(row.log, node.journal, pos)
    <3>1. Len(row.log) = Count(node.journal, pos) + 1
      BY <2>2, <2>4
    <3> QED BY <2>2, <2>4, <3>1 DEF ReadTo, Within
  <2> QED BY <1>1, <2>2, <2>5, <2>6, <2>7 DEF Polled
<1>3. CASE node.status # "running"
  <2> DEFINE g == [G EXCEPT !.mem.nextSeq = @ + 1]
             m == [mem EXCEPT !.nextSeq = mem.nextSeq + 1]
             ev == [seq |-> mem.nextSeq, type |-> TaskStatus(node.status)]
             h == FinishWithTerminal(g, ev, ResolveTerminalResult(TaskStatus(node.status)))
  <2>1. Becomes(h)
    BY <1>3 DEF ReconcileLocal
  <2>2. m \in Mems /\ m.terminal = mem.terminal /\ g = [G EXCEPT !.mem = m]
    BY Now DEF Mems, Gs
  <2>3. ev.type \in LogTypes
    BY <1>3, Now, TaskStatusType, TerminalLogType
  <2> HIDE DEF ev, m, g
  <2>4. g \in Gs /\ g.row = row /\ g.fin = fin /\ g.post = post /\ ~g.mem.terminal
    <3>1. G \in Gs
      BY Now
    <3>2. g \in Gs /\ g.row = G.row /\ g.fin = G.fin /\ g.post = G.post /\ g.mem = m
      BY <2>2, <3>1, SetMem
    <3> QED BY <1>1, <2>2, <3>2, Now
  <2>5. h.pump = NoPump /\ h.fin = fin /\ h.post = post /\ h.row.cursor = row.cursor
    BY <2>3, <2>4, FinishWithTerminalStops, FinishWithTerminalNoted DEF Noted
  <2>6. pump'.mode = "none" /\ fin' = fin /\ post' = post /\ row'.cursor = row.cursor
    BY <2>1, <2>5 DEF Becomes, NoPump
  <2> QED BY <1>1, <1>3, <2>6 DEF Polled
<1> QED BY <1>2, <1>3

\* The gateway goes down, and comes back numbered from the durable log.
LEMMA ProcessPolled ==
  ASSUME IInv, Polled, cap.local, Crash \/ Recover
  PROVE  Polled'
<1>1. CASE Crash
  <2>1. /\ UNCHANGED <<node, cap, row>> /\ calls' = {} /\ fin' = {} /\ post' = FALSE /\ pump'.mode = "none"
        /\ mem'.up = FALSE
    BY <1>1 DEF Crash, FreshMem, NoPump
  <2> QED BY <2>1 DEF Polled
<1>2. CASE Recover
  <2> DEFINE m == [FreshMem EXCEPT !.nextSeq = Len(row.log), !.recovered = TRUE, !.terminal = IsTerminal(row)]
             g == [G EXCEPT !.mem = m]
  <2>1. UNCHANGED <<node, cap>> /\ ~mem.up /\ Becomes(g) /\ calls' = {}
    BY <1>2 DEF Recover, Polled
  <2>2. m.nextSeq = Len(row.log)
    BY DEF FreshMem
  <2> HIDE DEF m
  <2>3. row' = row /\ pump' = pump /\ fin' = fin /\ post' = post /\ mem' = m
    BY <2>1, Now DEF Becomes, Gs
  <2> QED BY <2>1, <2>2, <2>3 DEF Polled
<1> QED BY <1>1, <1>2

\* Every step.
LEMMA PolledStep ==
  ASSUME IInv, Polled, [Next]_vars
  PROVE  Polled'
<1>1. CASE UNCHANGED vars
  BY <1>1 DEF vars, Polled
<1>2. CASE Next /\ ~cap.local
  BY <1>2, SameCap DEF Polled
<1>3. CASE Next /\ cap.local
  BY <1>3, LocalSteps, NodePolled, StorePolled, DrainPolled, ReconcileLocalPolled, ProcessPolled
<1> QED BY <1>1, <1>2, <1>3

\* A fresh task has read nothing.
LEMMA InitPolled == Init => Polled
<1> SUFFICES ASSUME Init, cap.local PROVE Polled
  BY DEF Polled
<1>1. /\ node.journal = <<>> /\ row.log = <<[type |-> "created", src |-> -1]>> /\ mem.nextSeq = 1 /\ mem.up = TRUE
      /\ mem.terminal = FALSE /\ pump.mode = "poll" /\ pump.pos = 0 /\ calls = {} /\ fin = {} /\ post = FALSE
      /\ node.status = "running"
  BY DEF Init, FreshMem
<1>2. row.cursor = NoCursor
  BY DEF Init, Caps
<1>3. Len(node.journal) = 0 /\ Len(row.log) = 1 /\ Count(node.journal, 0) = 0
  BY <1>1, CountStep
<1>4. ReadTo(row.log, node.journal, 0) /\ Within(row.log, node.journal)
  BY <1>3 DEF ReadTo, Within, Agrees
<1> QED BY <1>1, <1>2, <1>3, <1>4 DEF Polled

\* The index form that is preserved gives the property.
LEMMA ExactImplies ==
  ASSUME IInv, Exact(row, node.journal), Polled
  PROVE  SourceLogExact
<1> DEFINE replayed == {i \in DOMAIN row.log : row.log[i].src >= 0}
<1>1. /\ row.cursor \in Int /\ DOMAIN row.log = 1 .. Len(row.log)
      /\ \A i \in 1 .. Len(row.log) : row.log[i].src \in Int
  BY Now, LogEntries
<1>2. \A i \in replayed : /\ row.log[i].src \in 0 .. row.cursor /\ row.log[i].type # Null
                         /\ row.log[i].type = TaskEvent(node.journal[row.log[i].src + 1])
  BY <1>1 DEF Exact
<1>3. \A k \in 0 .. row.cursor : TaskEvent(node.journal[k + 1]) # Null => \E i \in replayed : row.log[i].src = k
  <2> SUFFICES ASSUME NEW k \in 0 .. row.cursor, TaskEvent(node.journal[k + 1]) # Null
               PROVE  \E i \in replayed : row.log[i].src = k
    OBVIOUS
  <2>1. PICK i \in 1 .. Len(row.log) : row.log[i].src = k
    BY DEF Exact
  <2>2. row.log[i].src >= 0 /\ i \in DOMAIN row.log
    BY <1>1, <2>1
  <2> QED BY <2>1, <2>2
<1>4. \A i, j \in replayed : i < j => row.log[i].src < row.log[j].src
  BY <1>1 DEF Exact
<1> HIDE DEF replayed
<1>5. {row.log[i].src : i \in replayed} = {k \in 0 .. row.cursor : TaskEvent(node.journal[k + 1]) # Null}
  BY <1>2, <1>3
<1>6. ASSUME cap.local, pump.mode = "poll"
      PROVE  /\ Len(row.log) = Count(node.journal, pump.pos) + 1
             /\ \A j \in MappedEvents(node.journal, pump.pos) :
                  row.log[Count(node.journal, j) + 1].type = TaskEvent(node.journal[j])
  <2>1. ReadTo(row.log, node.journal, pump.pos)
    BY <1>6 DEF Polled
  <2>2. pump.pos \in 0 .. Len(node.journal) /\ Len(node.journal) \in Nat /\ pump.pos \in Nat
    BY <2>1, Now DEF ReadTo, Nodes, Pumps
  <2>3. ASSUME NEW j \in MappedEvents(node.journal, pump.pos)
        PROVE  row.log[Count(node.journal, j) + 1].type = TaskEvent(node.journal[j])
    <3>1. j \in Nat /\ j \in 1 .. Len(node.journal) /\ j <= pump.pos /\ TaskEvent(node.journal[j]) # Null
      BY <2>2 DEF MappedEvents
    <3>2. /\ Count(node.journal, j) <= Count(node.journal, pump.pos)
          /\ Count(node.journal, j) \in Nat /\ Count(node.journal, pump.pos) \in Nat
      BY <2>2, <3>1, CountGrows, CountType
    <3>3. Count(node.journal, j) < Len(row.log)
      BY <2>1, <3>2 DEF ReadTo
    <3> QED BY <2>1, <3>1, <3>3 DEF ReadTo, Agrees
  <2> QED BY <2>1, <2>3 DEF ReadTo
<1> QED BY <1>2, <1>4, <1>5, <1>6 DEF SourceLogExact, replayed, Count

\* ingestSourceEventDurable and seedRecoveredLocalCursor: the replayed part of the durable log is
\* exactly the mapped events of the Node's journal up to the persisted cursor, and the log of a
\* polled task those of its run up to the position of the poll, in order, each once, through
\* reconnects that resend a prefix, restarts of the gateway and truncation of the journal.
THEOREM SourceExact == Spec => []SourceLogExact
<1> DEFINE Inv == IInv /\ Exact(row, node.journal) /\ Polled
<1>1. Init => Inv
  BY InitIInv, InitExact, InitPolled
<1>2. Inv /\ [Next]_vars => Inv'
  BY NextStep, ExactStep, PolledStep
<1>3. Inv => SourceLogExact
  BY ExactImplies
<1> QED BY <1>1, <1>2, <1>3, PTL DEF Spec
=============================================================================
