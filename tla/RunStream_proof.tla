--------------------------- MODULE RunStream_proof ---------------------------
(***************************************************************************)
(* Proofs about RunStream, for any number of events, any queue length, any *)
(* number of reconnects and faults.                                        *)
(***************************************************************************)
EXTENDS RunStream, SequenceTheorems, TLAPS

\* The journal is in order, and the tailer has read at least as many lines as are journaled, among
\* them the ones it lost.
JournalSound == JournalInOrder /\ Len(jr.ev) <= tail.offset /\ tail.lost \subseteq 1 .. tail.offset

\* The column follows the oldest row, unless the latest prune has emptied the run.
ColumnTrue == jr.earliest = jr.kept \/ jr.kept \in jr.emptied

\* Where a subscription stands: a cursor names a journaled event, a request that the node has not
\* answered has brought nothing, and only an answered replay has a starting point.
Subscription ==
  /\ cli.after < Len(jr.ev)
  /\ cli.st = "streaming" => sub.mode # "none"
  /\ sub.conn <= conn
  /\ sub.st = "none" <=> sub.mode = "none"
  /\ sub.mode = "live" => sub.st = "open" /\ cli.base = -1
  /\ sub.st \in {"asked", "refused"} => cli.base = -1
  /\ sub.st = "asked" => wire = <<>> /\ cli.got = <<>> /\ sub.queue = <<>> /\ cli.after # NoCursor
  /\ sub.mode = "replay" /\ sub.st = "open" => sub.cutoff < Len(jr.ev)
  /\ cli.base = -1 => cli.complete = "unknown"
  /\ cli.complete = "yes" => cli.base = cli.after + 1 \/ cli.base \in jr.emptied

\* What the client has got is consecutive from the starting point.
GotExact == cli.base # -1 => \A i \in 1 .. Len(cli.got) : cli.got[i] = cli.base + i - 1

\* 1 while the metadata is still at the head of the wire.
MetaAhead == IF wire # <<>> /\ wire[1] = Meta THEN 1 ELSE 0

\* The first sequence that is neither delivered nor on the wire.
NextSent == cli.base + Len(cli.got) + Len(wire) - MetaAhead

\* What the client has, what is on the wire, and (while the node's connection is the one it was
\* opened on) what is queued, together are the journal from the starting point on.
PipeExact ==
  sub.mode = "replay" /\ sub.st \in {"open", "overflowed"} /\ cli.reads =>
    /\ cli.base # -1
    /\ MetaAhead = 1 => cli.got = <<>>
    /\ \A j \in 1 .. Len(wire) : j > MetaAhead => wire[j] = cli.base + Len(cli.got) + j - MetaAhead - 1
    /\ sub.st = "open" /\ sub.conn = conn =>
         /\ \A j \in 1 .. Len(sub.queue) : sub.queue[j] = NextSent + j - 1
         /\ NextSent + Len(sub.queue) = Len(jr.ev)

IInv == TypeOK /\ JournalSound /\ ColumnTrue /\ Subscription /\ GotExact /\ PipeExact

-----------------------------------------------------------------------------
(* Operators *)

\* The later of two positions.
LEMMA MaxOfTwo ==
  ASSUME NEW a \in Int, NEW b \in Int
  PROVE  Max({a, b}) = IF a >= b THEN a ELSE b
<1>1. \E x \in {a, b} : \A y \in {a, b} : x >= y
  OBVIOUS
<1> QED BY <1>1 DEF Max

\* Seqs enumerates an interval.
LEMMA SeqsProperties ==
  ASSUME NEW a \in Nat, NEW b \in Int, b >= a - 1
  PROVE  /\ Seqs(a, b) \in Seq(Nat) /\ Len(Seqs(a, b)) = b - a + 1
         /\ \A j \in 1 .. b - a + 1 : Seqs(a, b)[j] = a + j - 1
<1>1. Seqs(a, b) = [i \in 1 .. b - a + 1 |-> a + i - 1]
  BY DEF Seqs
<1>2. [i \in 1 .. b - a + 1 |-> a + i - 1] \in [1 .. b - a + 1 -> Nat]
  OBVIOUS
<1>3. [i \in 1 .. b - a + 1 |-> a + i - 1] \in Seq(Nat)
  BY <1>2
<1> QED BY <1>1, <1>3

\* Sequence numbers are messages.
LEMMA SequencesAreMessages ==
  ASSUME NEW s \in Seq(Nat)
  PROVE  s \in Seq(Nat \cup {Meta})
<1>1. Len(s) \in Nat /\ s \in [1 .. Len(s) -> Nat]
  BY LenProperties
<1>2. s \in [1 .. Len(s) -> Nat \cup {Meta}]
  BY <1>1
<1> QED BY <1>1, <1>2

-----------------------------------------------------------------------------
(* Steps that leave the stream alone *)

\* The stream's own state does not change, the journal and the connection may move on only if the
\* subscription is not open on the connection.
LEMMA StreamAlone ==
  ASSUME IInv, TypeOK', UNCHANGED <<sub, wire>>, jr'.ev = jr.ev, jr.emptied \subseteq jr'.emptied,
         cli' = cli \/ (\E s \in {"gaveup"} : cli' = [cli EXCEPT !.st = s]),
         conn' = conn \/ conn' = conn + 1
  PROVE  Subscription' /\ GotExact' /\ PipeExact'
<1>1. /\ cli'.base = cli.base /\ cli'.got = cli.got /\ cli'.after = cli.after
      /\ cli'.complete = cli.complete /\ cli'.reads = cli.reads
      /\ cli'.st = "streaming" => cli.st = "streaming"
  BY DEF IInv, TypeOK, Clients
<1>2. sub.conn <= conn /\ sub.conn \in Nat /\ conn \in Nat
  BY DEF IInv, TypeOK, Subs, Subscription
<1>3. sub.conn <= conn' /\ (sub.conn = conn' => conn' = conn)
  BY <1>2
<1>4. Subscription'
  BY <1>1, <1>3 DEF IInv, Subscription
<1>5. GotExact'
  BY <1>1 DEF IInv, GotExact
<1>6. PipeExact'
  BY <1>1, <1>3 DEF IInv, PipeExact, MetaAhead, NextSent
<1> QED BY <1>4, <1>5, <1>6

\* Every journaled event came from a line the tailer has read.
LEMMA JournaledLines ==
  ASSUME TypeOK, JournalSound
  PROVE  \A i \in 1 .. Len(jr.ev) : jr.line[i] \in 1 .. tail.offset
<1>1. DOMAIN jr.line = 1 .. Len(jr.ev)
  BY DEF TypeOK, Journals
<1>2. \A i \in 1 .. Len(jr.ev) : jr.line[i] \in ToSet(jr.line)
  BY <1>1 DEF ToSet
<1> QED BY <1>2 DEF JournalSound, JournalInOrder

\* The supervisor writes to the file only.
LEMMA EmitPreserves ==
  ASSUME IInv, NEW k \in EventKinds, Emit(k)
  PROVE  IInv'
<1>1. file' \in Seq(EventKinds) /\ Len(file') = Len(file) + 1
  BY AppendProperties DEF IInv, TypeOK, Emit
<1>2. UNCHANGED <<tail, jr, conn, known, sub, cli, wire, faults>>
  BY DEF Emit
<1>3. Len(file) \in Nat /\ Len(file) < MaxEvents /\ tail.offset \in Nat
  BY StreamAssumption DEF IInv, TypeOK, Tails, Emit
<1>4. Len(file') <= MaxEvents /\ tail.offset <= Len(file')
  BY <1>1, <1>3, StreamAssumption DEF IInv, TypeOK
<1>5. TypeOK'
  BY <1>1, <1>2, <1>4 DEF IInv, TypeOK
<1>6. \A i \in 1 .. Len(jr.ev) : jr.line[i] \in 1 .. Len(file) /\ file'[jr.line[i]] = file[jr.line[i]]
  <2> SUFFICES ASSUME NEW i \in 1 .. Len(jr.ev)
               PROVE  jr.line[i] \in 1 .. Len(file) /\ file'[jr.line[i]] = file[jr.line[i]]
    OBVIOUS
  <2>1. jr.line[i] \in 1 .. tail.offset
    BY JournaledLines DEF IInv
  <2>2. jr.line[i] \in 1 .. Len(file)
    BY <1>3, <2>1 DEF IInv, TypeOK
  <2> QED BY <2>2, AppendProperties DEF IInv, TypeOK, Emit
<1>7. JournalSound' /\ ColumnTrue'
  BY <1>2, <1>6 DEF IInv, JournalSound, JournalInOrder, ColumnTrue
<1> QED BY <1>2, <1>5, <1>7, StreamAlone DEF IInv

\* A fault is counted.
LEMMA FaultCounted ==
  ASSUME TypeOK, Fault
  PROVE  faults' \in 0 .. MaxFaults
BY StreamAssumption DEF TypeOK, Fault

\* A skipped event moves the tailer; an idle tailer stops.
LEMMA TailSkipPreserves ==
  ASSUME IInv, TailSkip \/ TailIdle
  PROVE  IInv'
<1>1. UNCHANGED <<file, jr, conn, known, sub, cli, wire>> /\ faults' \in 0 .. MaxFaults
  BY FaultCounted DEF IInv, TailSkip, TailIdle
<1>2. tail \in Tails /\ Len(file) \in Nat /\ Len(file) <= MaxEvents /\ Len(jr.ev) \in Nat
  BY DEF IInv, TypeOK, Journals
<1>3. /\ tail' \in Tails /\ tail'.offset <= Len(file)
      /\ \/ tail'.offset = tail.offset /\ tail'.lost = tail.lost
         \/ tail'.offset = tail.offset + 1 /\ tail'.lost = tail.lost \cup {tail.offset + 1}
  <2>1. CASE TailSkip
    <3>1. tail' = [tail EXCEPT !.offset = tail.offset + 1, !.lost = tail.lost \cup {tail.offset + 1}]
      BY <2>1 DEF TailSkip
    <3>2. tail.offset \in Nat /\ tail.offset < Len(file)
      BY <1>2, <2>1, StreamAssumption DEF TailSkip, Unread, Tails
    <3>3. tail.offset + 1 \in 0 .. MaxEvents /\ tail.offset + 1 \in 1 .. MaxEvents
      BY <1>2, <3>2, StreamAssumption
    <3>4. /\ tail' \in Tails /\ tail'.offset = tail.offset + 1
          /\ tail'.lost = tail.lost \cup {tail.offset + 1}
      BY <1>2, <3>1, <3>3 DEF Tails
    <3> QED BY <1>2, <3>2, <3>4
  <2>2. CASE TailIdle
    <3>1. tail' = [tail EXCEPT !.on = FALSE] /\ tail.offset <= Len(file)
      BY <2>2 DEF IInv, TypeOK, TailIdle
    <3>2. tail' \in Tails /\ tail'.lost = tail.lost /\ tail'.offset = tail.offset
      BY <1>2, <3>1 DEF Tails
    <3>3. tail.offset \in Int
      BY <1>2, StreamAssumption DEF Tails
    <3> QED BY <3>1, <3>2, <3>3
  <2> QED BY <2>1, <2>2
<1>4. TypeOK'
  BY <1>1, <1>3 DEF IInv, TypeOK
<1>5. tail.offset \in Int /\ tail'.offset \in Int
  BY <1>2, <1>3, StreamAssumption DEF Tails
<1>6. JournalSound' /\ ColumnTrue'
  BY <1>1, <1>2, <1>3, <1>5 DEF IInv, JournalSound, JournalInOrder, ColumnTrue
<1> QED BY <1>1, <1>4, <1>6, StreamAlone DEF IInv

\* Retention moves the oldest row and, unless it empties the run, the column with it.
LEMMA PrunePreserves ==
  ASSUME IInv, NEW keepLast \in 0 .. MaxEvents, PruneRunEvents(keepLast)
  PROVE  IInv'
<1>1. /\ keepLast \in Nat /\ MaxEvents \in Nat /\ jr.kept \in Nat /\ jr.earliest \in Nat
      /\ Len(jr.ev) \in Nat /\ jr \in Journals
      /\ jr.earliest <= jr.kept /\ jr.kept <= Len(jr.ev) /\ Len(jr.ev) <= MaxEvents
  BY StreamAssumption DEF IInv, TypeOK, Journals
<1>2. Len(jr.ev) - keepLast > jr.kept /\ Len(jr.ev) - keepLast \in 0 .. MaxEvents
  BY <1>1 DEF PruneRunEvents
<1>3. /\ jr'.ev = jr.ev /\ jr'.line = jr.line /\ jr'.kept = Len(jr.ev) - keepLast
      /\ jr'.emptied = IF keepLast = 0 THEN jr.emptied \cup {Len(jr.ev)} ELSE jr.emptied
      /\ jr'.earliest = IF keepLast = 0 THEN jr.earliest ELSE Len(jr.ev) - keepLast
      /\ jr' \in Journals
  <2> DEFINE column == IF keepLast = 0 THEN jr.earliest ELSE Len(jr.ev) - keepLast
  <2> DEFINE gone == IF keepLast = 0 THEN jr.emptied \cup {Len(jr.ev)} ELSE jr.emptied
  <2>1. jr' = [jr EXCEPT !.kept = Len(jr.ev) - keepLast, !.earliest = column, !.emptied = gone]
    BY DEF PruneRunEvents
  <2>2. column \in 0 .. MaxEvents /\ gone \in SUBSET (0 .. MaxEvents)
    BY <1>1, <1>2 DEF Journals
  <2> HIDE DEF column, gone
  <2>3. /\ jr'.ev = jr.ev /\ jr'.line = jr.line /\ jr'.kept = Len(jr.ev) - keepLast
        /\ jr'.earliest = column /\ jr'.emptied = gone /\ jr' \in Journals
    BY <1>1, <1>2, <2>1, <2>2 DEF Journals
  <2> QED BY <2>3 DEF column, gone
<1>4. UNCHANGED <<file, tail, conn, known, sub, cli, wire, faults>>
  BY DEF PruneRunEvents
<1>5. jr'.earliest <= jr'.kept /\ jr'.kept <= Len(jr'.ev) /\ Len(jr'.ev) <= MaxEvents
  BY <1>1, <1>2, <1>3
<1>6. TypeOK'
  BY <1>3, <1>4, <1>5 DEF IInv, TypeOK
<1>7. JournalSound'
  BY <1>3, <1>4 DEF IInv, JournalSound, JournalInOrder
<1>8. ColumnTrue'
  BY <1>1, <1>3 DEF ColumnTrue
<1> QED BY <1>3, <1>4, <1>6, <1>7, <1>8, StreamAlone DEF IInv

\* A refused client gives up; a new connection of the daemon leaves older subscriptions behind.
LEMMA OutsidePreserves ==
  ASSUME IInv, ClientRefused \/ NodeReconnects
  PROVE  IInv'
<1>1. /\ UNCHANGED <<file, tail, jr, known, sub, wire>> /\ faults' \in 0 .. MaxFaults
      /\ conn' \in Nat /\ (conn' = conn \/ conn' = conn + 1)
  BY FaultCounted DEF IInv, TypeOK, ClientRefused, NodeReconnects
<1>2. (cli' = cli \/ cli' = [cli EXCEPT !.st = "gaveup"]) /\ cli' \in Clients
  BY DEF IInv, TypeOK, Clients, ClientRefused, NodeReconnects
<1>3. TypeOK'
  BY <1>1, <1>2 DEF IInv, TypeOK
<1>4. JournalSound' /\ ColumnTrue'
  BY <1>1 DEF IInv, JournalSound, JournalInOrder, ColumnTrue, Recorded
<1> QED BY <1>1, <1>2, <1>3, <1>4, StreamAlone DEF IInv

-----------------------------------------------------------------------------
(* Steps of the client and of the connections *)

\* The client's socket is gone: nothing is subscribed or on the wire, and the client keeps what it
\* got (with the end that closed the socket, if that is why).
LEMMA SocketGonePreserves ==
  ASSUME IInv, NEW client \in Clients, SocketGone(client), UNCHANGED <<file, tail, jr>>,
         conn' \in Nat, known' \in BOOLEAN, faults' \in 0 .. MaxFaults, client.st # "streaming",
         client.base = cli.base, client.after = cli.after, client.complete = cli.complete,
         client.base # -1 => \A i \in 1 .. Len(client.got) : client.got[i] = client.base + i - 1
  PROVE  IInv'
<1>1. sub' = NoSub /\ cli' = client /\ wire' = <<>>
  BY DEF SocketGone, ReplayClose
<1>2. NoSub \in Subs /\ Len(NoSub.queue) <= MaxQueue
  BY StreamAssumption DEF Subs, NoSub
<1>3. TypeOK'
  BY <1>1, <1>2 DEF IInv, TypeOK
<1>4. JournalSound' /\ ColumnTrue'
  BY DEF IInv, JournalSound, JournalInOrder, ColumnTrue, Recorded
<1>5. Subscription'
  BY <1>1 DEF IInv, Subscription, NoSub
<1>6. GotExact'
  BY <1>1 DEF GotExact
<1>7. PipeExact'
  BY <1>1 DEF PipeExact, NoSub
<1> QED BY <1>3, <1>4, <1>5, <1>6, <1>7 DEF IInv

\* After a closed socket the client is idle or has given up.
LEMMA AfterCloseType ==
  ASSUME TypeOK
  PROVE  /\ AfterClose \in Clients /\ AfterClose.st # "streaming"
         /\ AfterClose.base = cli.base /\ AfterClose.after = cli.after
         /\ AfterClose.complete = cli.complete /\ AfterClose.got = cli.got
<1>1. cli \in Clients /\ cli.tries \in 0 .. MaxTries
  BY DEF TypeOK, Clients
<1>2. (IF cli.tries = MaxTries THEN cli.tries ELSE cli.tries + 1) \in 0 .. MaxTries
  BY <1>1, StreamAssumption
<1> QED BY <1>1, <1>2 DEF AfterClose, Clients

\* The client's connection breaks, its caller stops it, or the relay restarts.
LEMMA ConnectionLostPreserves ==
  ASSUME IInv, ClientDrops \/ ClientStops \/ RelayRestarts
  PROVE  IInv'
<1>1. UNCHANGED <<file, tail, jr>> /\ faults' \in 0 .. MaxFaults
  BY FaultCounted DEF IInv, ClientDrops, ClientStops, RelayRestarts
<1>2. conn' \in Nat /\ known' \in BOOLEAN
  <2>1. (conn' = conn \/ conn' = conn + 1) /\ (known' = known \/ known' = FALSE)
    BY DEF ClientDrops, ClientStops, RelayRestarts
  <2>2. conn \in Nat /\ known \in BOOLEAN
    BY DEF IInv, TypeOK
  <2>3. conn' \in Nat
    BY <2>1, <2>2
  <2>4. known' \in BOOLEAN
    BY <2>1, <2>2, Zenon
  <2> QED BY <2>3, <2>4
<1>3. cli.base # -1 => \A i \in 1 .. Len(cli.got) : cli.got[i] = cli.base + i - 1
  BY DEF IInv, GotExact
<1>4. CASE SocketGone(AfterClose)
  BY <1>1, <1>2, <1>3, <1>4, AfterCloseType, SocketGonePreserves DEF IInv
<1>5. CASE SocketGone([cli EXCEPT !.st = "stopped"])
  <2> DEFINE stopped == [cli EXCEPT !.st = "stopped"]
  <2>1. /\ stopped \in Clients /\ stopped.st # "streaming" /\ stopped.base = cli.base
        /\ stopped.after = cli.after /\ stopped.complete = cli.complete /\ stopped.got = cli.got
    BY DEF IInv, TypeOK, Clients
  <2> HIDE DEF stopped
  <2>2. SocketGone(stopped)
    BY <1>5 DEF stopped
  <2> QED BY <1>1, <1>2, <1>3, <2>1, <2>2, SocketGonePreserves
<1>6. CASE SocketGone(cli) /\ cli.st # "streaming"
  BY <1>1, <1>2, <1>3, <1>6, SocketGonePreserves DEF IInv, TypeOK
<1>7. SocketGone(AfterClose) \/ SocketGone([cli EXCEPT !.st = "stopped"])
        \/ (SocketGone(cli) /\ cli.st # "streaming")
  BY DEF ClientDrops, ClientStops, RelayRestarts
<1> QED BY <1>4, <1>5, <1>6, <1>7

\* A subscription starts afresh, at a cursor that names a journaled event or at none.
LEMMA SubscribedPreserves ==
  ASSUME IInv, NEW after \in NoCursor .. MaxEvents, after < Len(jr.ev), Subscribed(after)
  PROVE  IInv'
<1>1. UNCHANGED <<file, tail, jr, conn, known, faults>> /\ wire' = <<>>
  BY DEF Subscribed
<1>2. /\ cli' \in Clients /\ cli'.after = after /\ cli'.got = <<>> /\ cli'.complete = "unknown"
      /\ cli'.base = -1 /\ cli'.st = "streaming"
  <2>1. cli' = [cli EXCEPT !.st = "streaming", !.after = after, !.got = <<>>, !.complete = "unknown",
                           !.base = -1]
    BY DEF Subscribed
  <2>2. cli \in Clients /\ -1 \in -1 .. MaxEvents /\ <<>> \in Seq(Nat)
    BY StreamAssumption DEF IInv, TypeOK
  <2>3. cli' \in Clients
    BY <2>1, <2>2 DEF Clients
  <2> QED BY <2>1, <2>2, <2>3 DEF Clients
<1>3. /\ sub' \in Subs /\ sub'.queue = <<>> /\ sub'.conn \in {0, conn}
      /\ \/ sub'.st = "asked" /\ sub'.mode = "replay" /\ after # NoCursor
         \/ sub'.st = "open" /\ sub'.mode = "live"
  <2>1. NoSub \in Subs /\ conn \in Nat
    BY StreamAssumption DEF IInv, TypeOK, Subs, NoSub
  <2>2. \/ after # NoCursor /\ sub' = [NoSub EXCEPT !.st = "asked", !.mode = "replay", !.conn = conn]
        \/ sub' = [NoSub EXCEPT !.st = "open", !.mode = "live"]
    BY DEF Subscribed
  <2>3. sub' \in Subs
    BY <2>1, <2>2 DEF Subs
  <2> QED BY <2>2, <2>3 DEF NoSub
<1>4. TypeOK'
  BY <1>1, <1>2, <1>3, StreamAssumption DEF IInv, TypeOK
<1>5. JournalSound' /\ ColumnTrue'
  BY <1>1 DEF IInv, JournalSound, JournalInOrder, ColumnTrue, Recorded
<1>6. sub'.conn <= conn'
  BY <1>1, <1>3 DEF IInv, TypeOK
<1>7. Subscription'
  BY <1>1, <1>2, <1>3, <1>6 DEF IInv, Subscription
<1>8. GotExact'
  BY <1>2 DEF GotExact
<1>9. PipeExact'
  BY <1>3 DEF PipeExact
<1> QED BY <1>4, <1>5, <1>7, <1>8, <1>9 DEF IInv

\* A first and a later subscription.
LEMMA SubscribePreserves ==
  ASSUME IInv, Resubscribe \/ \E after \in NoCursor .. MaxEvents : Subscribe(after)
  PROVE  IInv'
<1>1. Len(jr.ev) \in Nat /\ cli.after \in NoCursor .. MaxEvents /\ NoCursor = -2
  BY DEF IInv, TypeOK, Journals, Clients, NoCursor
<1>2. CASE Resubscribe
  BY <1>1, <1>2, SubscribedPreserves DEF IInv, Subscription, Resubscribe
<1>3. CASE \E after \in NoCursor .. MaxEvents : Subscribe(after)
  <2>1. PICK after \in NoCursor .. MaxEvents : Subscribe(after)
    BY <1>3
  <2>2. after < Len(jr.ev)
    BY <1>1, <2>1, StreamAssumption DEF Subscribe, LastSeq
  <2> QED BY <2>1, <2>2, SubscribedPreserves DEF Subscribe
<1> QED BY <1>2, <1>3

\* The journal cannot serve the replay.
LEMMA ReplayRefusedPreserves ==
  ASSUME IInv, ReplayRefused
  PROVE  IInv'
<1>1. UNCHANGED <<file, tail, jr, conn, known, cli>> /\ faults' \in 0 .. MaxFaults
  BY FaultCounted DEF IInv, ReplayRefused
<1>2. /\ sub' \in Subs /\ sub'.st = "refused" /\ sub'.mode = sub.mode /\ sub'.conn = sub.conn
      /\ sub'.queue = sub.queue
  BY DEF IInv, TypeOK, Subs, ReplayRefused
<1>3. wire' \in Seq(Nat \cup {Meta})
  BY AppendProperties DEF IInv, TypeOK, ReplayRefused
<1>4. TypeOK'
  BY <1>1, <1>2, <1>3 DEF IInv, TypeOK
<1>5. JournalSound' /\ ColumnTrue' /\ GotExact'
  BY <1>1 DEF IInv, JournalSound, JournalInOrder, ColumnTrue, Recorded, GotExact
<1>6. Subscription'
  BY <1>1, <1>2 DEF IInv, Subscription, ReplayRefused
<1>7. PipeExact'
  BY <1>2 DEF PipeExact
<1> QED BY <1>4, <1>5, <1>6, <1>7 DEF IInv

-----------------------------------------------------------------------------
(* Steps that move events towards the client *)

\* The replay: the retained events after the cursor, and registration for what follows them.
LEMMA ReplayOpenPreserves ==
  ASSUME IInv, ReplayOpen
  PROVE  IInv'
<1> DEFINE from == Max({cli.after + 1, jr.kept})
<1>1. UNCHANGED <<file, tail, jr, conn, known, faults>>
  BY DEF ReplayOpen
<1>2. /\ wire = <<>> /\ cli.got = <<>> /\ sub.queue = <<>> /\ cli.base = -1 /\ sub.st = "asked"
      /\ cli.complete = "unknown" /\ cli.after < Len(jr.ev) /\ cli.after # NoCursor
  BY DEF IInv, Subscription, ReplayOpen
<1>3. /\ cli \in Clients /\ sub \in Subs /\ Len(jr.ev) \in Nat /\ Len(jr.ev) <= MaxEvents
      /\ cli.after \in -1 .. MaxEvents /\ jr.kept \in Nat /\ jr.kept <= Len(jr.ev)
      /\ jr.earliest \in Nat
  BY <1>2, StreamAssumption DEF IInv, TypeOK, Journals, Clients, NoCursor
<1>4. /\ from = IF cli.after + 1 >= jr.kept THEN cli.after + 1 ELSE jr.kept
      /\ from \in Nat /\ from <= Len(jr.ev) /\ from \in -1 .. MaxEvents
  BY <1>2, <1>3, MaxOfTwo, StreamAssumption
<1>5. sub.mode = "replay"
  BY <1>2 DEF IInv, TypeOK, Subs, Subscription
<1>6. JournalSound' /\ ColumnTrue'
  BY <1>1 DEF IInv, JournalSound, JournalInOrder, ColumnTrue, Recorded
<1>7. CASE jr.ev = <<>>
  <2>1. /\ sub' = [sub EXCEPT !.st = "open", !.cutoff = cli.after]
        /\ cli' = [cli EXCEPT !.base = from] /\ wire' = wire
    BY <1>7 DEF ReplayOpen
  <2> HIDE DEF from
  <2>2. /\ sub' \in Subs /\ sub'.st = "open" /\ sub'.cutoff = cli.after /\ sub'.queue = <<>>
        /\ sub'.mode = "replay" /\ sub'.conn = sub.conn
    BY <1>2, <1>3, <1>5, <2>1 DEF Subs
  <2>3. /\ cli' \in Clients /\ cli'.base = from /\ cli'.got = <<>> /\ cli'.after = cli.after
        /\ cli'.complete = "unknown"
    BY <1>2, <1>3, <1>4, <2>1 DEF Clients
  <2>4. TypeOK'
    BY <1>1, <2>1, <2>2, <2>3, StreamAssumption DEF IInv, TypeOK
  <2>5. Subscription'
    BY <1>1, <1>2, <2>2, <2>3 DEF IInv, Subscription
  <2>6. GotExact'
    BY <2>3 DEF GotExact
  <2>7. from = 0
    BY <1>2, <1>3, <1>4, <1>7
  <2>8. PipeExact'
    <3>1. wire' = <<>> /\ MetaAhead' = 0 /\ Len(wire') = 0
      BY <1>2, <2>1 DEF MetaAhead
    <3>2. NextSent' = 0
      BY <2>3, <2>7, <3>1 DEF NextSent
    <3>3. Len(jr'.ev) = 0 /\ Len(sub'.queue) = 0
      BY <1>1, <1>7, <2>2
    <3> QED BY <2>2, <2>3, <2>7, <3>1, <3>2, <3>3 DEF PipeExact
  <2> QED BY <1>6, <2>4, <2>5, <2>6, <2>8 DEF IInv
<1>8. CASE jr.ev # <<>>
  <2> DEFINE told == IF cli.after + 1 >= jr.earliest THEN "yes" ELSE "no"
  <2> DEFINE events == Seqs(from, LastSeq)
  <2>1. /\ sub' = [sub EXCEPT !.st = "open", !.cutoff = LastSeq]
        /\ wire' = wire \o <<Meta>> \o events
        /\ cli' = [cli EXCEPT !.base = from, !.complete = told]
    BY <1>8 DEF ReplayOpen
  <2>2. LastSeq = Len(jr.ev) - 1 /\ LastSeq \in Int
    BY <1>3 DEF LastSeq
  <2> HIDE DEF from
  <2>3. /\ events \in Seq(Nat) /\ Len(events) = Len(jr.ev) - from
        /\ \A j \in 1 .. Len(jr.ev) - from : events[j] = from + j - 1
    <3>1. LastSeq >= from - 1 /\ LastSeq - from + 1 = Len(jr.ev) - from
      <4>1. from \in Int /\ from <= Len(jr.ev) /\ Len(jr.ev) \in Int
        BY <1>3, <1>4
      <4> QED BY <2>2, <4>1
    <3> QED BY <1>4, <2>2, <3>1, SeqsProperties
  <2>4. told \in {"yes", "no"}
    OBVIOUS
  <2>5. told = "yes" => from = cli.after + 1 \/ from \in jr.emptied
    BY <1>3, <1>4 DEF IInv, ColumnTrue
  <2> HIDE DEF told, events
  <2>6. wire \o <<Meta>> = <<Meta>>
    BY <1>2
  <2>7. /\ wire' \in Seq(Nat \cup {Meta}) /\ Len(wire') = 1 + Len(jr.ev) - from /\ wire'[1] = Meta
        /\ \A j \in 2 .. Len(wire') : wire'[j] = from + j - 2
    <3>1. wire' = <<Meta>> \o events /\ events \in Seq(Nat \cup {Meta})
      BY <2>1, <2>3, <2>6, SequencesAreMessages
    <3>2. <<Meta>> \in Seq(Nat \cup {Meta}) /\ Len(<<Meta>>) = 1 /\ <<Meta>>[1] = Meta
      OBVIOUS
    <3>3. wire' \in Seq(Nat \cup {Meta}) /\ Len(wire') = 1 + Len(events)
      BY <3>1, <3>2, ConcatProperties
    <3>4. \A j \in 1 .. 1 + Len(events) : wire'[j] = IF j <= 1 THEN <<Meta>>[j] ELSE events[j - 1]
      BY <3>1, <3>2, ConcatProperties
    <3>5. Len(wire') = 1 + Len(jr.ev) - from
      BY <1>3, <1>4, <2>3, <3>3
    <3>6. 1 \in 1 .. 1 + Len(events)
      BY <1>3, <1>4, <2>3
    <3>7. wire'[1] = Meta
      BY <3>2, <3>4, <3>6
    <3>8. ASSUME NEW j \in 2 .. Len(wire')
          PROVE  wire'[j] = from + j - 2
      <4>1. j \in 1 .. 1 + Len(events) /\ ~(j <= 1) /\ j - 1 \in 1 .. Len(jr.ev) - from
        BY <1>3, <1>4, <2>3, <3>5, <3>8
      <4>2. wire'[j] = events[j - 1] /\ events[j - 1] = from + (j - 1) - 1
        BY <2>3, <3>4, <4>1
      <4> QED BY <1>4, <4>2
    <3> QED BY <3>3, <3>5, <3>7, <3>8
  <2>8. /\ sub' \in Subs /\ sub'.st = "open" /\ sub'.cutoff = Len(jr.ev) - 1 /\ sub'.queue = <<>>
        /\ sub'.mode = "replay" /\ sub'.conn = sub.conn
    <3>1. LastSeq \in -1 .. MaxEvents
      BY <1>3, <2>2, StreamAssumption
    <3> QED BY <1>2, <1>3, <1>5, <2>1, <2>2, <3>1 DEF Subs
  <2>9. /\ cli' \in Clients /\ cli'.base = from /\ cli'.got = <<>> /\ cli'.after = cli.after
        /\ cli'.complete = told
    BY <1>2, <1>3, <1>4, <2>1, <2>4 DEF Clients
  <2>10. TypeOK'
    BY <1>1, <2>7, <2>8, <2>9, StreamAssumption DEF IInv, TypeOK
  <2>11. Subscription'
    BY <1>1, <1>2, <1>3, <1>4, <2>5, <2>8, <2>9 DEF IInv, Subscription
  <2>12. GotExact'
    BY <2>9 DEF GotExact
  <2>13. MetaAhead' = 1 /\ NextSent' = Len(jr.ev)
    BY <1>3, <1>4, <2>7, <2>9, SMTT(30) DEF MetaAhead, NextSent
  <2>14. PipeExact'
    <3>1. Len(cli'.got) = 0 /\ Len(sub'.queue) = 0
      BY <2>8, <2>9
    <3>2. Len(wire') \in Nat /\ from # -1
      BY <1>4, <2>7
    <3>3. ASSUME NEW j \in 1 .. Len(wire'), j > 1
          PROVE  wire'[j] = from + 0 + j - 1 - 1
      <4>1. j \in 2 .. Len(wire')
        BY <3>2, <3>3
      <4>2. wire'[j] = from + j - 2
        BY <2>7, <4>1
      <4> QED BY <1>4, <4>1, <4>2
    <3>4. NextSent' + 0 = Len(jr'.ev)
      BY <1>1, <1>3, <2>13
    <3> QED BY <2>9, <2>13, <3>1, <3>2, <3>3, <3>4 DEF PipeExact
  <2> QED BY <1>6, <2>10, <2>11, <2>12, <2>14 DEF IInv
<1> QED BY <1>7, <1>8

\* A queue is sent, or lost with the connection it was for.
LEMMA DrainPreserves ==
  ASSUME IInv, Drain
  PROVE  IInv'
<1>1. UNCHANGED <<file, tail, jr, conn, known, cli, faults>>
  BY DEF Drain
<1>2. /\ sub \in Subs /\ sub.queue \in Seq(Nat) /\ wire \in Seq(Nat \cup {Meta}) /\ sub.queue # <<>>
      /\ sub.queue \in Seq(Nat \cup {Meta}) /\ cli \in Clients /\ cli.got \in Seq(Nat)
      /\ cli.base \in Int /\ Len(cli.got) \in Nat
  <2>1. /\ sub \in Subs /\ sub.queue \in Seq(Nat) /\ wire \in Seq(Nat \cup {Meta}) /\ sub.queue # <<>>
        /\ cli \in Clients /\ cli.got \in Seq(Nat) /\ cli.base \in Int
    BY StreamAssumption DEF IInv, TypeOK, Subs, Clients, Drain
  <2> QED BY <2>1, SequencesAreMessages
<1>3. /\ sub' \in Subs /\ sub'.queue = <<>> /\ sub'.st = "open" /\ sub.st = "open"
      /\ sub'.mode = sub.mode /\ sub'.conn = sub.conn /\ sub'.cutoff = sub.cutoff
  <2>1. sub' = [sub EXCEPT !.queue = <<>>] /\ sub.st = "open" /\ <<>> \in Seq(Nat)
    BY DEF Drain
  <2> QED BY <1>2, <2>1 DEF Subs
<1>4. wire' = IF sub.conn = conn THEN wire \o sub.queue ELSE wire
  BY DEF Drain
<1>5. wire' \in Seq(Nat \cup {Meta})
  BY <1>2, <1>4, ConcatProperties
<1>6. TypeOK'
  BY <1>1, <1>3, <1>5, StreamAssumption DEF IInv, TypeOK
<1>7. JournalSound' /\ ColumnTrue' /\ GotExact'
  BY <1>1 DEF IInv, JournalSound, JournalInOrder, ColumnTrue, Recorded, GotExact
<1>8. Subscription'
  BY <1>1, <1>3 DEF IInv, Subscription
<1>9. PipeExact'
  <2>1. CASE sub.conn # conn
    BY <1>1, <1>3, <1>4, <2>1 DEF IInv, PipeExact, MetaAhead
  <2>2. CASE sub.conn = conn /\ sub.mode = "replay" /\ cli.reads
    <3>1. /\ wire' = wire \o sub.queue /\ Len(wire') = Len(wire) + Len(sub.queue)
          /\ Len(wire) \in Nat /\ Len(sub.queue) \in Nat \ {0}
      BY <1>2, <1>4, <2>2, ConcatProperties, EmptySeq
    <3>2. \A j \in 1 .. Len(wire) : wire'[j] = wire[j]
      BY <1>2, <3>1, ConcatProperties
    <3>3. \A j \in Len(wire) + 1 .. Len(wire') : wire'[j] = sub.queue[j - Len(wire)]
      BY <1>2, <3>1, ConcatProperties
    <3>4. sub.queue[1] \in Nat
      BY <1>2, <3>1
    <3>5. MetaAhead' = MetaAhead /\ MetaAhead \in {0, 1} /\ MetaAhead <= Len(wire)
      <4>1. CASE Len(wire) = 0
        BY <1>2, <3>1, <3>3, <3>4, <4>1 DEF MetaAhead, Meta
      <4>2. CASE Len(wire) > 0
        BY <1>2, <3>1, <3>2, <4>2 DEF MetaAhead
      <4> QED BY <3>1, <4>1, <4>2
    <3>6. /\ cli.base # -1 /\ (MetaAhead = 1 => cli.got = <<>>)
          /\ \A j \in 1 .. Len(wire) : j > MetaAhead => wire[j] = cli.base + Len(cli.got) + j - MetaAhead - 1
          /\ \A j \in 1 .. Len(sub.queue) : sub.queue[j] = NextSent + j - 1
          /\ NextSent + Len(sub.queue) = Len(jr.ev)
      BY <1>3, <2>2 DEF IInv, PipeExact
    <3>7. NextSent' = NextSent + Len(sub.queue) /\ NextSent = cli.base + Len(cli.got) + Len(wire) - MetaAhead
      <4>1. NextSent' = cli.base + Len(cli.got) + Len(wire') - MetaAhead
        BY <1>1, <3>5 DEF NextSent
      <4>2. NextSent = cli.base + Len(cli.got) + Len(wire) - MetaAhead
        BY DEF NextSent
      <4>3. cli.base \in Int /\ Len(cli.got) \in Int /\ MetaAhead \in Int
        BY <1>2, <3>5
      <4> QED BY <3>1, <4>1, <4>2, <4>3, SMTT(30)
    <3>8. \A j \in 1 .. Len(wire') : j > MetaAhead' =>
             wire'[j] = cli.base + Len(cli.got) + j - MetaAhead' - 1
      <4> SUFFICES ASSUME NEW j \in 1 .. Len(wire'), j > MetaAhead
                   PROVE  wire'[j] = cli.base + Len(cli.got) + j - MetaAhead - 1
        BY <3>5
      <4>1. CASE j \in 1 .. Len(wire)
        BY <3>2, <3>6, <4>1
      <4>2. CASE j \in Len(wire) + 1 .. Len(wire')
        <5>1. j - Len(wire) \in 1 .. Len(sub.queue)
          BY <3>1, <4>2
        <5>2. wire'[j] = NextSent + (j - Len(wire)) - 1
          BY <3>3, <3>6, <4>2, <5>1
        <5>3. cli.base \in Int /\ Len(cli.got) \in Int /\ MetaAhead \in Int /\ Len(wire) \in Int /\ j \in Int
          BY <1>2, <3>1, <3>5
        <5> QED BY <3>7, <5>2, <5>3
      <4> QED BY <3>1, <4>1, <4>2
    <3> QED BY <1>1, <1>2, <1>3, <3>5, <3>6, <3>7, <3>8 DEF PipeExact
  <2>3. CASE ~(sub.mode = "replay" /\ cli.reads)
    BY <1>1, <1>3, <2>3 DEF PipeExact
  <2> QED BY <2>1, <2>2, <2>3
<1> QED BY <1>6, <1>7, <1>8, <1>9 DEF IInv

\* A message reaches the client: the metadata is dropped, an event is the next one of the stream,
\* and an end closes the socket.
LEMMA DeliverPreserves ==
  ASSUME IInv, Deliver
  PROVE  IInv'
<1> DEFINE m == Head(wire)
<1>1. UNCHANGED <<file, tail, jr, conn, known, faults>> /\ wire # <<>> /\ cli.st = "streaming"
  BY DEF Deliver
<1>2. /\ cli \in Clients /\ cli.got \in Seq(Nat) /\ Len(cli.got) \in Nat /\ cli.base \in Int
      /\ cli.base >= -1 /\ wire \in Seq(Nat \cup {Meta}) /\ Len(wire) \in Nat \ {0}
  <2>1. cli \in Clients /\ cli.got \in Seq(Nat) /\ cli.base \in -1 .. MaxEvents
    BY DEF IInv, TypeOK, Clients
  <2>2. wire \in Seq(Nat \cup {Meta}) /\ Len(wire) \in Nat \ {0}
    BY <1>1, EmptySeq DEF IInv, TypeOK
  <2> QED BY <2>1, <2>2, StreamAssumption
<1>3. /\ m = wire[1] /\ m \in Nat \cup {Meta} /\ Tail(wire) \in Seq(Nat \cup {Meta})
      /\ Len(Tail(wire)) = Len(wire) - 1 /\ \A j \in 1 .. Len(wire) - 1 : Tail(wire)[j] = wire[j + 1]
  BY <1>1, <1>2, HeadTailProperties
<1>4. sub.mode # "none" /\ sub.st # "none" /\ sub.st # "asked"
  BY <1>1, <1>2 DEF IInv, Subscription
<1>5. JournalSound' /\ ColumnTrue'
  BY <1>1 DEF IInv, JournalSound, JournalInOrder, ColumnTrue, Recorded
<1> DEFINE piped == sub.mode = "replay" /\ sub.st \in {"open", "overflowed"} /\ cli.reads
<1>6. cli.base # -1 /\ cli.reads => piped
  BY <1>4 DEF IInv, TypeOK, Subs, Subscription
<1>7. piped => /\ cli.base # -1 /\ (MetaAhead = 1 => cli.got = <<>>)
               /\ \A j \in 1 .. Len(wire) : j > MetaAhead =>
                     wire[j] = cli.base + Len(cli.got) + j - MetaAhead - 1
               /\ sub.st = "open" /\ sub.conn = conn =>
                    /\ \A j \in 1 .. Len(sub.queue) : sub.queue[j] = NextSent + j - 1
                    /\ NextSent + Len(sub.queue) = Len(jr.ev)
  BY DEF IInv, PipeExact
<1>8. MetaAhead = IF m = Meta THEN 1 ELSE 0
  BY <1>1, <1>3 DEF MetaAhead
<1>9. NextSent = cli.base + Len(cli.got) + Len(wire) - MetaAhead
  BY DEF NextSent
<1> HIDE DEF m
\* The message after this one is an event.
<1>10. piped /\ wire' = Tail(wire) => MetaAhead' = 0
  <2> SUFFICES ASSUME piped, wire' = Tail(wire), wire' # <<>>
               PROVE  wire'[1] # Meta
    BY DEF MetaAhead
  <2>1. Len(wire) - 1 >= 1
    BY <1>2, <1>3, EmptySeq
  <2>2. 2 \in 1 .. Len(wire) /\ wire'[1] = wire[2]
    BY <1>2, <1>3, <2>1
  <2>3. wire[2] = cli.base + Len(cli.got) + 2 - MetaAhead - 1 /\ cli.base # -1
    BY <1>7, <1>8, <2>2
  <2>4. wire[2] >= 0
    BY <1>2, <1>8, <2>3
  <2> QED BY <2>2, <2>4 DEF Meta
<1>11. CASE m = Meta \/ ~cli.reads
  <2>1. UNCHANGED <<cli, sub>> /\ wire' = Tail(wire)
    BY <1>11 DEF Deliver, m
  <2>2. TypeOK'
    BY <1>1, <1>3, <2>1 DEF IInv, TypeOK
  <2>3. Subscription' /\ GotExact'
    BY <1>1, <1>4, <2>1 DEF IInv, Subscription, GotExact
  <2>4. CASE piped
    <3>1. MetaAhead = 1 /\ MetaAhead' = 0
      BY <1>8, <1>10, <1>11, <2>1, <2>4
    <3>2. NextSent' = NextSent
      <4>1. NextSent' = cli.base + Len(cli.got) + Len(wire') - 0
        BY <2>1, <3>1 DEF NextSent
      <4> QED BY <1>2, <1>3, <1>9, <2>1, <3>1, <4>1
    <3>3. ASSUME NEW j \in 1 .. Len(wire')
          PROVE  wire'[j] = cli.base + Len(cli.got) + j - 0 - 1
      <4>1. j \in 1 .. Len(wire) - 1 /\ j + 1 \in 1 .. Len(wire) /\ j + 1 > 1
        BY <1>2, <1>3, <2>1
      <4>2. wire'[j] = cli.base + Len(cli.got) + (j + 1) - 1 - 1
        BY <1>3, <1>7, <2>1, <2>4, <3>1, <4>1
      <4> QED BY <1>2, <4>1, <4>2
    <3>4. PipeExact'
      BY <1>1, <1>7, <2>1, <2>4, <3>1, <3>2, <3>3 DEF PipeExact
    <3> QED BY <1>5, <2>2, <2>3, <3>4 DEF IInv
  <2>5. CASE ~piped
    <3>1. PipeExact'
      BY <2>1, <2>5 DEF PipeExact
    <3> QED BY <1>5, <2>2, <2>3, <3>1 DEF IInv
  <2> QED BY <2>4, <2>5
<1>12. CASE m # Meta /\ cli.reads
  <2> DEFINE got == Append(cli.got, m)
  <2>1. m \in Nat /\ MetaAhead = 0
    BY <1>3, <1>8, <1>12
  <2>2. /\ got \in Seq(Nat) /\ Len(got) = Len(cli.got) + 1 /\ got[Len(cli.got) + 1] = m
        /\ \A i \in 1 .. Len(cli.got) : got[i] = cli.got[i]
    BY <1>2, <2>1, AppendProperties
  <2>3. cli.base # -1 => m = cli.base + Len(cli.got)
    <3>1. 1 \in 1 .. Len(wire)
      BY <1>2
    <3> QED BY <1>2, <1>3, <1>6, <1>7, <1>12, <2>1, <3>1
  <2> HIDE DEF got
  <2>4. cli.base # -1 => \A i \in 1 .. Len(got) : got[i] = cli.base + i - 1
    <3> SUFFICES ASSUME cli.base # -1, NEW i \in 1 .. Len(got)
                 PROVE  got[i] = cli.base + i - 1
      OBVIOUS
    <3>1. CASE i \in 1 .. Len(cli.got)
      BY <2>2, <3>1 DEF IInv, GotExact
    <3>2. CASE i = Len(cli.got) + 1
      BY <1>2, <2>2, <2>3, <3>2
    <3> QED BY <1>2, <2>2, <3>1, <3>2
  <2>5. CASE jr.ev[m + 1] = "end"
    <3> DEFINE client == [cli EXCEPT !.got = got, !.st = "ended"]
    <3>1. SocketGone(client)
      BY <1>12, <2>5 DEF Deliver, m, got
    <3>2. /\ client \in Clients /\ client.st # "streaming" /\ client.base = cli.base
          /\ client.after = cli.after /\ client.complete = cli.complete /\ client.got = got
      BY <1>2, <2>2 DEF Clients
    <3>3. conn' \in Nat /\ known' \in BOOLEAN /\ faults' \in 0 .. MaxFaults
      BY <1>1 DEF IInv, TypeOK
    <3> HIDE DEF client
    <3> QED BY <1>1, <2>4, <3>1, <3>2, <3>3, SocketGonePreserves
  <2>6. CASE jr.ev[m + 1] # "end"
    <3>1. cli' = [cli EXCEPT !.got = got] /\ UNCHANGED sub /\ wire' = Tail(wire)
      BY <1>12, <2>6 DEF Deliver, m, got
    <3>2. /\ cli' \in Clients /\ cli'.st = cli.st /\ cli'.base = cli.base /\ cli'.reads = cli.reads
          /\ cli'.after = cli.after /\ cli'.complete = cli.complete /\ cli'.got = got
      BY <1>2, <2>2, <3>1 DEF Clients
    <3>3. TypeOK'
      BY <1>1, <1>3, <3>1, <3>2 DEF IInv, TypeOK
    <3>4. Subscription' /\ GotExact'
      BY <1>1, <1>4, <2>4, <3>1, <3>2 DEF IInv, Subscription, GotExact
    <3>5. CASE piped
      <4>0. /\ Len(got) = Len(cli.got) + 1 /\ Len(cli.got) \in Int /\ cli.base \in Int
            /\ Len(wire) \in Int
        BY <1>2, <2>2
      <4>1. MetaAhead' = 0
        BY <1>10, <3>1, <3>5
      <4>2. NextSent' = NextSent
        <5>1. NextSent' = cli.base + Len(got) + Len(wire') - 0
          BY <3>2, <4>1 DEF NextSent
        <5>2. NextSent = cli.base + Len(cli.got) + Len(wire) - 0 /\ Len(wire') = Len(wire) - 1
          BY <1>3, <1>9, <2>1, <3>1
        <5> QED BY <4>0, <5>1, <5>2
      <4>3. ASSUME NEW j \in 1 .. Len(wire')
            PROVE  wire'[j] = cli.base + Len(got) + j - 0 - 1
        <5>1. j \in 1 .. Len(wire) - 1 /\ j + 1 \in 1 .. Len(wire) /\ j + 1 > 0
          BY <1>2, <1>3, <3>1
        <5>2. wire'[j] = cli.base + Len(cli.got) + (j + 1) - 0 - 1
          BY <1>3, <1>7, <2>1, <3>1, <3>5, <5>1
        <5> QED BY <4>0, <5>2, SMTT(30)
      <4>4. PipeExact'
        BY <1>1, <1>7, <3>1, <3>2, <3>5, <4>1, <4>2, <4>3 DEF PipeExact
      <4> QED BY <1>5, <3>3, <3>4, <4>4 DEF IInv
    <3>6. CASE ~piped
      <4>1. PipeExact'
        BY <3>1, <3>2, <3>6 DEF PipeExact
      <4> QED BY <1>5, <3>3, <3>4, <4>1 DEF IInv
    <3> QED BY <3>5, <3>6
  <2> QED BY <2>5, <2>6
<1> QED BY <1>11, <1>12

\* The tailer journals an event and fans it out.
LEMMA TailEventPreserves ==
  ASSUME IInv, TailEvent
  PROVE  IInv'
<1> DEFINE n == Len(jr.ev)
<1>1. UNCHANGED <<file, conn, known, cli, faults>> /\ ~Recorded /\ Unread
  BY DEF TailEvent, JournalAppend
<1>2. /\ jr \in Journals /\ jr.ev \in Seq(EventKinds) /\ n \in Nat /\ jr.kept \in Nat
      /\ jr.earliest \in Nat /\ jr.earliest <= jr.kept /\ jr.kept <= n
      /\ tail \in Tails /\ tail.offset \in Nat /\ tail.offset < Len(file) /\ n <= tail.offset
      /\ Len(file) \in Nat /\ Len(file) <= MaxEvents /\ MaxEvents \in Nat
      /\ file \in Seq(EventKinds)
  BY <1>1, StreamAssumption DEF IInv, TypeOK, Journals, Tails, JournalSound, Unread
<1>3. Event \in EventKinds
  BY <1>2 DEF Event
<1>4. jr' = [jr EXCEPT !.ev = Append(jr.ev, Event), !.line = Append(jr.line, tail.offset + 1)]
  BY DEF TailEvent, JournalAppend, Event
<1>5. /\ Append(jr.ev, Event) \in Seq(EventKinds) /\ Len(Append(jr.ev, Event)) = n + 1
      /\ Append(jr.ev, Event)[n + 1] = Event
      /\ \A i \in 1 .. n : Append(jr.ev, Event)[i] = jr.ev[i]
  BY <1>2, <1>3, AppendProperties
<1>6. /\ jr' \in Journals /\ jr'.ev = Append(jr.ev, Event) /\ jr'.kept = jr.kept
      /\ jr'.earliest = jr.earliest /\ jr'.emptied = jr.emptied
      /\ jr'.line = Append(jr.line, tail.offset + 1)
      /\ Len(jr'.line) = n + 1 /\ jr'.line[n + 1] = tail.offset + 1
      /\ \A i \in 1 .. n : jr'.line[i] = jr.line[i]
  <2>1. jr.line \in Seq(Nat) /\ Len(jr.line) = n /\ tail.offset + 1 \in Nat
    BY <1>2 DEF IInv, TypeOK, Journals
  <2>2. /\ Append(jr.line, tail.offset + 1) \in Seq(Nat)
        /\ Len(Append(jr.line, tail.offset + 1)) = n + 1
        /\ Append(jr.line, tail.offset + 1)[n + 1] = tail.offset + 1
        /\ \A i \in 1 .. n : Append(jr.line, tail.offset + 1)[i] = jr.line[i]
    BY <2>1, AppendProperties
  <2>3. /\ jr' \in Journals /\ jr'.ev = Append(jr.ev, Event) /\ jr'.kept = jr.kept
        /\ jr'.earliest = jr.earliest /\ jr'.emptied = jr.emptied
        /\ jr'.line = Append(jr.line, tail.offset + 1)
    BY <1>2, <1>4, <1>5, <2>2 DEF Journals
  <2> QED BY <2>2, <2>3
<1>7. tail' \in Tails /\ tail'.offset = tail.offset + 1 /\ tail'.lost = tail.lost
  <2>1. tail' = [tail EXCEPT !.offset = tail.offset + 1, !.on = Event # "end"]
    BY DEF TailEvent
  <2>2. tail.offset + 1 \in 0 .. MaxEvents /\ (Event # "end") \in BOOLEAN
    BY <1>2
  <2> QED BY <1>2, <2>1, <2>2 DEF Tails
<1>8. /\ sub' = Fanout(sub, n)
      /\ wire' = IF sub.mode = "live" /\ tail.conn = conn THEN Append(wire, n) ELSE wire
  BY DEF TailEvent, JournalAppend
<1>9. wire \in Seq(Nat \cup {Meta}) /\ sub \in Subs /\ sub.queue \in Seq(Nat) /\ Len(sub.queue) \in Nat
      /\ Len(sub.queue) <= MaxQueue /\ MaxQueue \in Nat
  BY StreamAssumption DEF IInv, TypeOK, Subs
<1>10. wire' \in Seq(Nat \cup {Meta})
  BY <1>2, <1>8, <1>9, AppendProperties
<1>11. /\ Append(sub.queue, n) \in Seq(Nat) /\ Len(Append(sub.queue, n)) = Len(sub.queue) + 1
       /\ Append(sub.queue, n)[Len(sub.queue) + 1] = n
       /\ \A j \in 1 .. Len(sub.queue) : Append(sub.queue, n)[j] = sub.queue[j]
  BY <1>2, <1>9, AppendProperties
<1> HIDE DEF n
\* What fanout makes of the subscription.
<1>12. /\ sub' \in Subs /\ Len(sub'.queue) <= MaxQueue
       /\ sub'.mode = sub.mode /\ sub'.conn = sub.conn /\ sub'.cutoff = sub.cutoff
       /\ \/ sub' = sub /\ ~(sub.mode = "replay" /\ sub.st = "open")
          \/ sub.mode = "replay" /\ sub.st = "open" /\ sub'.st = "overflowed"
          \/ /\ sub.mode = "replay" /\ sub.st = "open" /\ sub'.st = "open"
             /\ sub'.queue = Append(sub.queue, n)
  <2>1. CASE ~(sub.mode = "replay" /\ sub.st = "open")
    BY <1>8, <1>9, <2>1 DEF Fanout
  <2>2. CASE sub.mode = "replay" /\ sub.st = "open"
    <3>1. ~(n <= sub.cutoff)
      BY <1>2, <1>9, <2>2 DEF IInv, Subscription, n, Subs
    <3>2. CASE Len(sub.queue) = MaxQueue
      <4>1. sub' = [sub EXCEPT !.st = "overflowed", !.queue = <<>>] /\ <<>> \in Seq(Nat)
        BY <1>8, <2>2, <3>1, <3>2 DEF Fanout
      <4>2. /\ sub' \in Subs /\ sub'.queue = <<>> /\ sub'.st = "overflowed"
            /\ sub'.mode = sub.mode /\ sub'.conn = sub.conn /\ sub'.cutoff = sub.cutoff
        BY <1>9, <4>1 DEF Subs
      <4> QED BY <1>9, <2>2, <4>2
    <3>3. CASE Len(sub.queue) # MaxQueue
      <4>1. sub' = [sub EXCEPT !.queue = Append(sub.queue, n)]
        BY <1>8, <2>2, <3>1, <3>3 DEF Fanout
      <4>2. /\ sub' \in Subs /\ sub'.queue = Append(sub.queue, n) /\ sub'.st = "open"
            /\ sub'.mode = sub.mode /\ sub'.conn = sub.conn /\ sub'.cutoff = sub.cutoff
        BY <1>9, <1>11, <2>2, <4>1 DEF Subs
      <4> QED BY <1>9, <1>11, <2>2, <3>3, <4>2
    <3> QED BY <3>2, <3>3
  <2> QED BY <2>1, <2>2
<1>13. Len(jr'.ev) = n + 1 /\ n + 1 <= MaxEvents /\ jr.kept <= n + 1 /\ tail'.offset <= Len(file)
  BY <1>2, <1>5, <1>6, <1>7
<1>14. TypeOK'
  BY <1>1, <1>2, <1>6, <1>7, <1>10, <1>12, <1>13 DEF IInv, TypeOK
<1>15. JournalSound'
  <2>1. Len(jr'.ev) <= tail'.offset /\ tail'.lost \subseteq 1 .. tail'.offset
    BY <1>2, <1>7, <1>13 DEF IInv, JournalSound
  <2>2. ASSUME NEW i \in 1 .. n
        PROVE  jr.ev[i] # "end"
    BY <1>1, <1>2, EmptySeq DEF IInv, JournalSound, JournalInOrder, Recorded, n
  <2>3. \A i \in 1 .. Len(jr'.ev) : jr'.ev[i] = "end" => i = Len(jr'.ev)
    BY <1>2, <1>5, <1>6, <1>13, <2>2
  <2>4. \A i \in 1 .. n : jr.line[i] \in 1 .. tail.offset
    BY JournaledLines DEF IInv, n
  <2>5. \A i \in 1 .. n : jr.ev[i] = file[jr.line[i]]
    BY DEF IInv, JournalSound, JournalInOrder, n
  <2>6. \A i \in 1 .. Len(jr'.ev) : jr'.ev[i] = file'[jr'.line[i]]
    BY <1>1, <1>2, <1>5, <1>6, <1>13, <2>5 DEF Event
  <2>7. \A i, j \in 1 .. n : i < j => jr.line[i] < jr.line[j]
    BY DEF IInv, JournalSound, JournalInOrder, n
  <2>8. \A i, j \in 1 .. Len(jr'.ev) : i < j => jr'.line[i] < jr'.line[j]
    <3> SUFFICES ASSUME NEW i \in 1 .. n + 1, NEW j \in 1 .. n + 1, i < j
                 PROVE  jr'.line[i] < jr'.line[j]
      BY <1>13
    <3>1. i \in 1 .. n /\ jr'.line[i] = jr.line[i]
      BY <1>2, <1>6
    <3>2. CASE j \in 1 .. n
      BY <1>6, <2>7, <3>1, <3>2
    <3>3. CASE j = n + 1
      BY <1>2, <1>6, <2>4, <3>1, <3>3
    <3> QED BY <1>2, <3>2, <3>3
  <2>9. ToSet(jr'.line) = (1 .. tail'.offset) \ tail'.lost
    <3>1. DOMAIN jr.line = 1 .. n /\ DOMAIN jr'.line = 1 .. n + 1
      BY <1>2, <1>6 DEF IInv, TypeOK, Journals, n
    <3>2. ToSet(jr'.line) = ToSet(jr.line) \cup {tail.offset + 1}
      <4>1. \A i \in 1 .. n + 1 : i \in 1 .. n \/ i = n + 1
        BY <1>2
      <4>2. 1 .. n \subseteq 1 .. n + 1 /\ n + 1 \in 1 .. n + 1
        BY <1>2
      <4> QED BY <1>6, <3>1, <4>1, <4>2 DEF ToSet
    <3>3. ToSet(jr.line) = (1 .. tail.offset) \ tail.lost
      BY DEF IInv, JournalSound, JournalInOrder
    <3>4. tail.offset + 1 \notin tail.lost
      BY <1>2 DEF IInv, JournalSound
    <3>5. 1 .. tail.offset + 1 = (1 .. tail.offset) \cup {tail.offset + 1}
      BY <1>2
    <3> QED BY <1>7, <3>2, <3>3, <3>4, <3>5
  <2> QED BY <2>1, <2>3, <2>6, <2>8, <2>9 DEF JournalSound, JournalInOrder
<1>16. ColumnTrue'
  BY <1>6 DEF IInv, ColumnTrue
<1>17. n < n + 1 /\ (cli.after < n => cli.after < n + 1) /\ (sub.cutoff < n => sub.cutoff < n + 1)
  <2>1. cli.after \in Int /\ sub.cutoff \in Int
    BY <1>9, StreamAssumption DEF IInv, TypeOK, Clients, Subs, NoCursor
  <2> QED BY <1>2, <2>1
<1>18. Subscription'
  BY <1>1, <1>6, <1>8, <1>12, <1>13, <1>17 DEF IInv, Subscription, n
<1>19. GotExact'
  BY <1>1 DEF IInv, GotExact
<1>20. PipeExact'
  <2>1. CASE ~(sub.mode = "replay" /\ sub.st \in {"open", "overflowed"})
    BY <1>12, <2>1 DEF PipeExact
  <2>2. CASE sub.mode = "replay" /\ sub.st \in {"open", "overflowed"}
    <3>1. wire' = wire /\ MetaAhead' = MetaAhead /\ NextSent' = NextSent
      BY <1>1, <1>8, <2>2 DEF MetaAhead, NextSent
    <3>2. CASE sub'.st = "overflowed"
      BY <1>1, <2>2, <3>1, <3>2 DEF IInv, PipeExact
    <3>3. CASE sub'.st = "open"
      <4>1. sub.st = "open" /\ sub'.queue = Append(sub.queue, n)
        BY <1>12, <2>2, <3>3
      <4>2. ASSUME cli.reads, sub.conn = conn
            PROVE  /\ \A j \in 1 .. Len(sub'.queue) : sub'.queue[j] = NextSent + j - 1
                   /\ NextSent + Len(sub'.queue) = n + 1
        <5>1. /\ \A j \in 1 .. Len(sub.queue) : sub.queue[j] = NextSent + j - 1
              /\ NextSent + Len(sub.queue) = n
          BY <2>2, <4>1, <4>2 DEF IInv, PipeExact, n
        <5>2. NextSent \in Int
          <6>1. cli.base \in Int /\ Len(cli.got) \in Int /\ Len(wire) \in Int /\ MetaAhead \in Int
            BY <1>9, StreamAssumption DEF IInv, TypeOK, Clients, MetaAhead
          <6> QED BY <6>1 DEF NextSent
        <5>3. Len(sub'.queue) = Len(sub.queue) + 1 /\ Len(sub.queue) \in Int
          BY <1>9, <1>11, <4>1
        <5>4. NextSent + Len(sub'.queue) = n + 1
          BY <5>1, <5>2, <5>3
        <5>5. sub'.queue[Len(sub.queue) + 1] = NextSent + (Len(sub.queue) + 1) - 1
          BY <1>11, <4>1, <5>1, <5>2, <5>3
        <5>6. \A j \in 1 .. Len(sub.queue) : sub'.queue[j] = NextSent + j - 1
          BY <1>11, <4>1, <5>1
        <5> QED BY <5>3, <5>4, <5>5, <5>6
      <4> QED BY <1>1, <1>12, <1>13, <2>2, <3>1, <4>1, <4>2 DEF IInv, PipeExact
    <3> QED BY <1>12, <2>2, <3>2, <3>3
  <2> QED BY <2>1, <2>2
<1> QED BY <1>14, <1>15, <1>16, <1>18, <1>19, <1>20 DEF IInv

-----------------------------------------------------------------------------
(* The theorems *)

\* A run that has written nothing, and nobody subscribed to it.
LEMMA InitIInv == Init => IInv
<1> SUFFICES ASSUME Init PROVE IInv
  OBVIOUS
<1>1. PICK reads \in BOOLEAN : cli = NewClient(reads)
  BY DEF Init
<1>2. /\ cli \in Clients /\ cli.st = "new" /\ cli.base = -1 /\ cli.complete = "unknown" /\ cli.got = <<>>
      /\ cli.after = -2
  BY <1>1, StreamAssumption DEF NewClient, Clients, NoCursor
<1>3. file = <<>> /\ wire = <<>> /\ conn = 1 /\ known = TRUE /\ faults = 0 /\ sub = NoSub
  BY DEF Init
<1>4. /\ tail \in Tails /\ tail.offset = 0 /\ tail.lost = {}
      /\ jr \in Journals /\ jr.ev = <<>> /\ jr.line = <<>> /\ jr.kept = 0 /\ jr.earliest = 0
  BY StreamAssumption DEF Init, Tails, Journals
<1>5. NoSub \in Subs /\ Len(NoSub.queue) <= MaxQueue
  BY StreamAssumption DEF Subs, NoSub
<1>6. TypeOK
  BY <1>2, <1>3, <1>4, <1>5, StreamAssumption DEF TypeOK
<1>7. JournalSound /\ ColumnTrue
  <2>1. ToSet(jr.line) = {} /\ 1 .. tail.offset = {}
    BY <1>4 DEF ToSet
  <2> QED BY <1>4, <2>1 DEF JournalSound, JournalInOrder, ColumnTrue
<1>8. Subscription /\ GotExact /\ PipeExact
  BY <1>2, <1>3, <1>4 DEF Subscription, GotExact, PipeExact, NoSub
<1> QED BY <1>6, <1>7, <1>8 DEF IInv

\* Every step preserves the invariant.
LEMMA NextIInv == IInv /\ [Next]_vars => IInv'
<1> SUFFICES ASSUME IInv, [Next]_vars PROVE IInv'
  OBVIOUS
<1>1. CASE UNCHANGED vars
  BY <1>1 DEF vars, IInv, TypeOK, JournalSound, JournalInOrder, ColumnTrue, Subscription, GotExact, PipeExact,
     NextSent, MetaAhead, Recorded
<1>2. CASE Next
  BY <1>2, EmitPreserves, TailEventPreserves, TailSkipPreserves, PrunePreserves, SubscribePreserves,
     ReplayOpenPreserves, ReplayRefusedPreserves, DrainPreserves, DeliverPreserves, OutsidePreserves,
     ConnectionLostPreserves DEF Next
<1> QED BY <1>1, <1>2

\* The inductive invariant holds throughout, whatever is skipped, pruned, overflowed, dropped or
\* restarted.
THEOREM Invariance == Spec => []IInv
BY InitIInv, NextIInv, PTL DEF Spec

\* Every variable keeps its type: in particular no queue grows beyond MaxQueue and the column never
\* runs ahead of the oldest row.
THEOREM TypeCorrect == Spec => []TypeOK
<1>1. IInv => TypeOK
  BY DEF IInv
<1> QED BY <1>1, Invariance, PTL

\* append and tailRunEvents: every line read is journaled once, in the order of the file, unless its
\* own append failed, and nothing follows an end.
THEOREM JournalOrdered == Spec => []JournalInOrder
<1>1. IInv => JournalInOrder
  BY DEF IInv, JournalSound
<1> QED BY <1>1, Invariance, PTL

\* subscribe and fanout: a replayed stream is consecutive from its starting point, with no gap and
\* no event twice.
THEOREM StreamIsExact == Spec => []StreamExact
<1>1. IInv => StreamExact
  <2> SUFFICES ASSUME IInv, cli.base # -1, cli.got # <<>>
               PROVE  /\ cli.got[1] = cli.base
                      /\ \A i \in 1 .. Len(cli.got) - 1 : cli.got[i + 1] = cli.got[i] + 1
    BY DEF StreamExact
  <2>1. cli.got \in Seq(Nat) /\ Len(cli.got) \in Nat \ {0} /\ cli.base \in Int
    BY EmptySeq, StreamAssumption DEF IInv, TypeOK, Clients
  <2>2. \A i \in 1 .. Len(cli.got) : cli.got[i] = cli.base + i - 1
    BY DEF IInv, GotExact
  <2>3. cli.got[1] = cli.base
    BY <2>1, <2>2
  <2>4. ASSUME NEW i \in 1 .. Len(cli.got) - 1
        PROVE  cli.got[i + 1] = cli.got[i] + 1
    <3>1. i \in 1 .. Len(cli.got) /\ i + 1 \in 1 .. Len(cli.got)
      BY <2>1
    <3>2. cli.got[i] = cli.base + i - 1 /\ cli.got[i + 1] = cli.base + (i + 1) - 1
      BY <2>2, <3>1
    <3> QED BY <2>1, <3>1, <3>2
  <2> QED BY <2>3, <2>4
<1> QED BY <1>1, Invariance, PTL

\* history_complete_for_request: whatever retention keeps, nothing included, a client told that its
\* history is complete gets the event after its cursor first, or the first one appended after a
\* prune that emptied the run.
THEOREM CompleteHistory == Spec => []CompleteIsTrue
<1>1. IInv => CompleteIsTrue
  <2> SUFFICES ASSUME IInv, cli.complete = "yes", cli.got # <<>>
               PROVE  cli.got[1] = cli.after + 1 \/ cli.got[1] \in jr.emptied
    BY DEF CompleteIsTrue
  <2>1. cli.got \in Seq(Nat) /\ Len(cli.got) \in Nat \ {0} /\ cli.base \in Int
    BY EmptySeq, StreamAssumption DEF IInv, TypeOK, Clients
  <2>2. cli.base # -1 /\ (cli.base = cli.after + 1 \/ cli.base \in jr.emptied)
    BY DEF IInv, Subscription
  <2>3. \A i \in 1 .. Len(cli.got) : cli.got[i] = cli.base + i - 1
    BY <2>2 DEF IInv, GotExact
  <2>4. cli.got[1] = cli.base
    BY <2>1, <2>3
  <2> QED BY <2>2, <2>4
<1> QED BY <1>1, Invariance, PTL
=============================================================================
