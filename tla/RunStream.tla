------------------------------ MODULE RunStream ------------------------------
(***************************************************************************)
(* The events of one run on their way from the event file to a client:     *)
(* the daemon's tailer (tailRunEvents), the Node journal with its          *)
(* replay-to-live subscriptions, bounded queues and retention              *)
(* (src/node-journal), the relay's two ways of serving a subscriber, and   *)
(* the reconnecting client (remoteStream). Event number i of the journal   *)
(* has sequence i; sequences count from 0.                                 *)
(***************************************************************************)
EXTENDS Integers, Sequences, FiniteSets, SequencesExt

CONSTANTS MaxEvents,  \* bound: events the supervisor writes
          MaxQueue,   \* maxQueue of a subscription
          MaxTries,   \* maxReconnects of the client
          MaxFaults   \* bound: dropped connections, failed appends, relay restarts

ASSUME StreamAssumption ==
  /\ MaxEvents \in Nat \ {0} /\ MaxQueue \in Nat \ {0}
  /\ MaxTries \in Nat /\ MaxFaults \in Nat

VARIABLES
  file,    \* the run's event file: a sequence of "out" and "end"
  tail,    \* [on, offset, conn, lost]: the tailer, the connection it was started on, and (history)
           \* the lines it read and failed to journal
  jr,      \* [ev, line, kept, earliest, emptied]: journaled events, each with the line of the file it
           \* came from (history); kept is the oldest row, earliest the column, emptied (history) the
           \* sequences that were next when retention had removed every row
  conn,    \* the daemon's current relay connection
  known,   \* the relay knows which node owns the run
  sub,     \* the subscription: [st, mode, conn, cutoff, queue]
  cli,     \* the client: [st, reads, after, tries, complete, base, got]
  wire,    \* messages from the relay side to the client
  faults

vars == <<file, tail, jr, conn, known, sub, cli, wire, faults>>

NoSub == [st |-> "none", mode |-> "none", conn |-> 0, cutoff |-> -1, queue |-> <<>>]
NoCursor == -2  \* a client without after_sequence
Meta == -1  \* on the wire: the replay metadata; every other message is an event's sequence

\* remoteStream before it connects. reads: the run is not encrypted, or its key is in the client's
\* run record.
NewClient(reads) ==
  [st |-> "new", reads |-> reads, after |-> NoCursor, tries |-> 0,
   complete |-> "unknown", base |-> -1, got |-> <<>>]

LastSeq == Len(jr.ev) - 1
\* terminal_event_recorded: the row of the run says its last event was terminal.
Recorded == jr.ev # <<>> /\ jr.ev[Len(jr.ev)] = "end"
Seqs(a, b) == [i \in 1 .. (IF b >= a THEN b - a + 1 ELSE 0) |-> a + i - 1]

EventKinds == {"out", "end"}

Tails == [on : BOOLEAN, offset : 0 .. MaxEvents, conn : Nat, lost : SUBSET (1 .. MaxEvents)]
Journals == [ev : Seq(EventKinds), line : Seq(Nat), kept : 0 .. MaxEvents, earliest : 0 .. MaxEvents,
             emptied : SUBSET (0 .. MaxEvents)]
Subs == [st : {"none", "asked", "refused", "open", "overflowed"}, mode : {"none", "replay", "live"},
         conn : Nat, cutoff : -1 .. MaxEvents, queue : Seq(Nat)]
Clients == [st : {"new", "idle", "streaming", "ended", "stopped", "gaveup"}, reads : BOOLEAN,
            after : NoCursor .. MaxEvents, tries : 0 .. MaxTries, complete : {"unknown", "yes", "no"},
            base : -1 .. MaxEvents, got : Seq(Nat)]

TypeOK ==
  /\ file \in Seq(EventKinds) /\ Len(file) <= MaxEvents
  /\ tail \in Tails /\ tail.offset <= Len(file)
  /\ jr \in Journals /\ jr.earliest <= jr.kept /\ jr.kept <= Len(jr.ev) /\ Len(jr.ev) <= MaxEvents
  /\ Len(jr.line) = Len(jr.ev)
  /\ conn \in Nat /\ known \in BOOLEAN
  /\ sub \in Subs /\ Len(sub.queue) <= MaxQueue
  /\ cli \in Clients
  /\ wire \in Seq(Nat \cup {Meta}) /\ faults \in 0 .. MaxFaults

Init ==
  /\ file = <<>> /\ tail = [on |-> TRUE, offset |-> 0, conn |-> 1, lost |-> {}]
  /\ jr = [ev |-> <<>>, line |-> <<>>, kept |-> 0, earliest |-> 0, emptied |-> {}]
  /\ conn = 1 /\ known = TRUE /\ sub = NoSub /\ wire = <<>> /\ faults = 0
  /\ \E reads \in BOOLEAN : cli = NewClient(reads)

Fault == faults < MaxFaults /\ faults' = faults + 1

-----------------------------------------------------------------------------
(* The run and its tailer *)

\* The supervisor, or a stop, writes an event; nothing but a racing stop follows an end.
Emit(k) ==
  /\ Len(file) < MaxEvents
  /\ file # <<>> /\ file[Len(file)] = "end" => k = "end"
  /\ file' = Append(file, k)
  /\ UNCHANGED <<tail, jr, conn, known, sub, cli, wire, faults>>

\* Mutant of Fanout: an overflowing queue forgets its backlog and the subscription goes on.
FanoutDropsOldest(s, seq) ==
  IF s.mode # "replay" \/ s.st # "open" \/ seq <= s.cutoff THEN s
  ELSE IF Len(s.queue) = MaxQueue THEN [s EXCEPT !.queue = <<seq>>]
  ELSE [s EXCEPT !.queue = Append(@, seq)]

\* fanout: queued for an open subscription unless its replay covered it; a full queue is dropped
\* together with the subscription (overflow), and nobody tells the client.
Fanout(s, seq) ==
  IF s.mode # "replay" \/ s.st # "open" \/ seq <= s.cutoff THEN s
  ELSE IF Len(s.queue) = MaxQueue THEN [s EXCEPT !.st = "overflowed", !.queue = <<>>]
  ELSE [s EXCEPT !.queue = Append(@, seq)]

\* append: refused once a terminal event is recorded; the event of the line takes the next sequence
\* and is fanned out.
JournalAppend(line) ==
  /\ ~Recorded
  /\ jr' = [jr EXCEPT !.ev = Append(@, file[line]), !.line = Append(@, line)]
  /\ sub' = Fanout(sub, Len(jr.ev))

Unread == tail.on /\ tail.offset < Len(file)
Event == file[tail.offset + 1]

\* Mutant of TailEvent: the offset moves only with an event that could be sent, so that a line is
\* read again after the daemon has reconnected.
TailEventTwice ==
  /\ Unread /\ JournalAppend(tail.offset + 1)
  /\ wire' = IF sub.mode = "live" /\ tail.conn = conn THEN Append(wire, Len(jr.ev)) ELSE wire
  /\ tail' = [tail EXCEPT !.offset = IF tail.conn = conn THEN @ + 1 ELSE @, !.on = Event # "end"]
  /\ UNCHANGED <<file, conn, known, cli, faults>>

\* One line of flush: journaled first (append), fanned out to the subscription, then sent to live
\* subscribers if the connection the tailer was started on is still the daemon's. An end stops
\* the tailer.
TailEvent ==
  /\ Unread /\ JournalAppend(tail.offset + 1)
  /\ wire' = IF sub.mode = "live" /\ tail.conn = conn THEN Append(wire, Len(jr.ev)) ELSE wire
  /\ tail' = [tail EXCEPT !.offset = @ + 1, !.on = Event # "end"]
  /\ UNCHANGED <<file, conn, known, cli, faults>>

\* An append that fails, or a line that does not parse: the event is skipped, not published, and an
\* end does not stop the tailer.
TailSkip ==
  /\ Unread /\ Fault
  /\ tail' = [tail EXCEPT !.offset = @ + 1, !.lost = @ \cup {tail.offset + 1}]
  /\ UNCHANGED <<file, jr, conn, known, sub, cli, wire>>

\* Ten idle minutes end the tailer.
TailIdle ==
  /\ tail.on /\ ~Unread /\ Fault /\ tail' = [tail EXCEPT !.on = FALSE]
  /\ UNCHANGED <<file, jr, conn, known, sub, cli, wire>>

\* Mutant of PruneRunEvents: the column lags one event behind.
PruneRunEventsLate(keepLast) ==
  LET rows == Len(jr.ev) - jr.kept IN
  /\ rows > keepLast
  /\ jr' = [jr EXCEPT !.kept = Len(jr.ev) - keepLast, !.earliest = IF keepLast = 0 THEN @ ELSE jr.kept,
                      !.emptied = IF keepLast = 0 THEN @ \cup {Len(jr.ev)} ELSE @]
  /\ UNCHANGED <<file, tail, conn, known, sub, cli, wire, faults>>

\* pruneRunEvents: all but the newest keepLast rows go; the column follows the oldest row that is
\* left, and is not written when none is.
PruneRunEvents(keepLast) ==
  LET rows == Len(jr.ev) - jr.kept IN
  /\ rows > keepLast
  /\ jr' = [jr EXCEPT !.kept = Len(jr.ev) - keepLast,
                      !.earliest = IF keepLast = 0 THEN @ ELSE Len(jr.ev) - keepLast,
                      !.emptied = IF keepLast = 0 THEN @ \cup {Len(jr.ev)} ELSE @]
  /\ UNCHANGED <<file, tail, conn, known, sub, cli, wire, faults>>

-----------------------------------------------------------------------------
(* The relay and the subscription *)

\* run_stream_subscribe: a cursor and a known owner get the client a replay by the node; otherwise
\* it joins the live subscribers, and is not told which.
Subscribed(after) ==
  /\ cli' = [cli EXCEPT !.st = "streaming", !.after = after, !.got = <<>>, !.complete = "unknown", !.base = -1]
  /\ sub' = IF known /\ after # NoCursor THEN [NoSub EXCEPT !.st = "asked", !.mode = "replay", !.conn = conn]
            ELSE [NoSub EXCEPT !.st = "open", !.mode = "live"]
  /\ wire' = <<>>
  /\ UNCHANGED <<file, tail, jr, conn, known, faults>>

\* The client's first connection, with no cursor or with that of an event it has seen.
Subscribe(after) == cli.st = "new" /\ (after = NoCursor \/ after <= LastSeq) /\ Subscribed(after)

\* Every later connection of the client asks from the same cursor.
Resubscribe == cli.st = "idle" /\ Subscribed(cli.after)

\* replayMetadata and subscribe: the metadata if the journal has the run, the retained events after
\* the cursor, and registration for the later ones, in one synchronous step. (base is the first
\* sequence the stream is to deliver.)
ReplayOpen ==
  /\ sub.st = "asked" /\ sub.conn = conn
  /\ LET from == Max({cli.after + 1, jr.kept}) IN
     IF jr.ev = <<>>
     THEN /\ sub' = [sub EXCEPT !.st = "open", !.cutoff = cli.after]
          /\ cli' = [cli EXCEPT !.base = from] /\ UNCHANGED wire
     ELSE /\ sub' = [sub EXCEPT !.st = "open", !.cutoff = LastSeq]
          /\ wire' = wire \o <<Meta>> \o Seqs(from, LastSeq)
          /\ cli' = [cli EXCEPT !.base = from,
                                !.complete = IF cli.after + 1 >= jr.earliest THEN "yes" ELSE "no"]
  /\ UNCHANGED <<file, tail, jr, conn, known, faults>>

\* run_replay_open when there is no journal or it throws: the client is told that there is no
\* metadata, and nothing else will come.
ReplayRefused ==
  /\ sub.st = "asked" /\ sub.conn = conn /\ Fault
  /\ sub' = [sub EXCEPT !.st = "refused"] /\ wire' = Append(wire, Meta)
  /\ UNCHANGED <<file, tail, jr, conn, known, cli>>

\* scheduleDrain: the queue is sent on the connection the subscription was opened on.
Drain ==
  /\ sub.st = "open" /\ sub.queue # <<>>
  /\ wire' = IF sub.conn = conn THEN wire \o sub.queue ELSE wire
  /\ sub' = [sub EXCEPT !.queue = <<>>]
  /\ UNCHANGED <<file, tail, jr, conn, known, cli, faults>>

-----------------------------------------------------------------------------
(* The client, and the connections *)

\* run_replay_close: the node forgets the subscription.
ReplayClose == NoSub

\* The client's socket is gone: the relay drops it from the live subscribers, or has the node close
\* its subscription; the run goes on.
SocketGone(client) == cli' = client /\ sub' = ReplayClose /\ wire' = <<>>

\* Mutant of Deliver: an end does not finish the stream.
DeliverOpen ==
  /\ cli.st = "streaming" /\ wire # <<>>
  /\ cli' = IF Head(wire) = Meta THEN cli ELSE [cli EXCEPT !.got = Append(@, Head(wire))]
  /\ wire' = Tail(wire)
  /\ UNCHANGED <<file, tail, jr, conn, known, sub, faults>>

\* A message arrives; what the client cannot decrypt it ignores, and an end closes its socket.
Deliver ==
  /\ cli.st = "streaming" /\ wire # <<>>
  /\ LET m == Head(wire) IN
     IF m = Meta \/ ~cli.reads THEN UNCHANGED <<cli, sub>> /\ wire' = Tail(wire)
     ELSE IF jr.ev[m + 1] = "end" THEN SocketGone([cli EXCEPT !.got = Append(@, m), !.st = "ended"])
     ELSE cli' = [cli EXCEPT !.got = Append(@, m)] /\ UNCHANGED sub /\ wire' = Tail(wire)
  /\ UNCHANGED <<file, tail, jr, conn, known, faults>>

\* The client's socket closes before an end: it subscribes again from the same cursor, or gives up.
AfterClose == [cli EXCEPT !.st = IF cli.tries = MaxTries THEN "gaveup" ELSE "idle",
                          !.tries = IF cli.tries = MaxTries THEN @ ELSE @ + 1]
ClientDrops ==
  /\ cli.st = "streaming" /\ Fault
  /\ SocketGone(AfterClose)
  /\ UNCHANGED <<file, tail, jr, conn, known>>

\* The relay refuses the connection (401): the client does not try again.
ClientRefused ==
  /\ cli.st \in {"new", "idle"} /\ Fault
  /\ cli' = [cli EXCEPT !.st = "gaveup"]
  /\ UNCHANGED <<file, tail, jr, conn, known, sub, wire>>

\* The reader of the client's output is gone (EPIPE), or the caller aborts: it closes its socket
\* and ends without reporting an end.
ClientStops ==
  /\ cli.st \in {"new", "idle", "streaming"} /\ Fault
  /\ SocketGone([cli EXCEPT !.st = "stopped"])
  /\ UNCHANGED <<file, tail, jr, conn, known>>

\* The daemon's connection is replaced; what it had sent may still arrive.
NodeReconnects ==
  /\ Fault /\ conn' = conn + 1
  /\ UNCHANGED <<file, tail, jr, known, sub, cli, wire>>

\* The relay restarts: it forgets the owner and everyone reconnects.
RelayRestarts ==
  /\ Fault /\ conn' = conn + 1 /\ known' = FALSE
  /\ SocketGone(IF cli.st = "streaming" THEN AfterClose ELSE cli)
  /\ UNCHANGED <<file, tail, jr>>

Next ==
  \/ \E k \in EventKinds : Emit(k)
  \/ TailEvent
  \/ TailSkip
  \/ TailIdle
  \/ \E keepLast \in 0 .. MaxEvents : PruneRunEvents(keepLast)
  \/ \E after \in NoCursor .. MaxEvents : Subscribe(after)
  \/ Resubscribe
  \/ ReplayOpen
  \/ ReplayRefused
  \/ Drain
  \/ Deliver
  \/ ClientDrops
  \/ ClientRefused
  \/ ClientStops
  \/ NodeReconnects
  \/ RelayRestarts

Spec == Init /\ [][Next]_vars

\* Timers and the event loop keep running: the tailer polls, a queued subscription drains, an open
\* socket delivers, a client that is not connected connects.
FairSpec == Spec /\ WF_vars(TailEvent) /\ WF_vars(Resubscribe) /\ WF_vars(ReplayOpen)
                 /\ WF_vars(Drain) /\ WF_vars(Deliver)

-----------------------------------------------------------------------------
(* Properties *)

\* append and tailRunEvents: every line the tailer has read is in the journal exactly once, with the
\* event the file has there and in the order of the file, unless its own append failed; the
\* sequence a failed append leaves free never makes two later events change places. The end, if
\* any, is the last event of the journal.
JournalInOrder ==
  /\ \A i \in 1 .. Len(jr.ev) : jr.ev[i] = file[jr.line[i]]
  /\ \A i, j \in 1 .. Len(jr.ev) : i < j => jr.line[i] < jr.line[j]
  /\ ToSet(jr.line) = (1 .. tail.offset) \ tail.lost
  /\ \A i \in 1 .. Len(jr.ev) : jr.ev[i] = "end" => i = Len(jr.ev)

\* subscribe and fanout: a replayed stream delivers consecutive journal events from its starting
\* point, across the change from replay to live, prunes, reconnects and overflow: no gap, no
\* event twice.
StreamExact ==
  cli.base # -1 /\ cli.got # <<>> =>
    /\ cli.got[1] = cli.base
    /\ \A i \in 1 .. Len(cli.got) - 1 : cli.got[i + 1] = cli.got[i] + 1

\* history_complete_for_request: a client told that its history is complete gets the event right
\* after its cursor first, or the first event appended after a prune had removed every row of the
\* run: such a prune leaves the column where it was, and the missing events stay unannounced.
CompleteIsTrue ==
  cli.complete = "yes" /\ cli.got # <<>> => cli.got[1] = cli.after + 1 \/ cli.got[1] \in jr.emptied

\* The stream delivers: once the journal holds an end the client has not seen, a client that can
\* read it and whose subscription is open on the daemon's connection gets it, unless a connection
\* breaks, the journal refuses, the queue overflows or retention removes the end first.
EndArrives ==
  (Recorded /\ jr.kept <= LastSeq /\ cli.reads /\ cli.after < LastSeq /\ cli.st = "streaming" /\ sub.mode = "replay" /\ sub.st \in {"asked", "open"} /\ sub.conn = conn)
    ~> (cli.st # "streaming" \/ sub.st \in {"refused", "overflowed"} \/ sub.conn # conn \/ jr.kept > LastSeq)
=============================================================================
