-------------------------- MODULE RelayRouting_proof --------------------------
(***************************************************************************)
(* Proofs about RelayRouting, for any number of nodes, connections,        *)
(* requests and restarts of the relay; and, in the second half, about      *)
(* RemoteTerminal, the terminals that are bridged through a relay.         *)
(***************************************************************************)
EXTENDS RelayRouting, PaneContract, SequenceTheorems, TLAPS

\* The requests under way to a node, in the sockets S.
Asked(S) == {q \in Reqs : \E c \in Conns : \E i \in 1 .. Len(S[c].toNode) : S[c].toNode[i] = M("request", q)}

\* The messages under way to the relay on connection c.
Told(S, c) == {S[c].toRelay[i] : i \in 1 .. Len(S[c].toRelay)}

\* What may be under way, and that no request is under way twice.
Channels(S) ==
  /\ \A c \in Conns : \A i \in 1 .. Len(S[c].toNode) : S[c].toNode[i].type = "request" => S[c].toNode[i].req \in Reqs
  /\ \A c \in Conns : \A m \in Told(S, c) : m.type \in Verdicts => m.req \in Reqs
  /\ \A c, d \in Conns : \A i \in 1 .. Len(S[c].toNode), j \in 1 .. Len(S[d].toNode) :
       S[c].toNode[i].type = "request" /\ S[c].toNode[i] = S[d].toNode[j] => c = d /\ i = j

\* A daemon and its open socket belong together, and what the daemon was told, or will be told next
\* on that socket, about its registration is what the registry says, unless the node_register of
\* another socket was accepted after its own.
Wired ==
  /\ \A n \in Nodes : /\ daemon[n].conn # None <=> daemon[n].st \in {"open", "registered"}
                      /\ daemon[n].conn # None => /\ sock[daemon[n].conn].st = "open"
                                                  /\ sock[daemon[n].conn].node = n
                      /\ registry[n] # None => sock[registry[n]].st # "new" /\ sock[registry[n]].node = n
                      /\ daemon[n].st = "registered" /\ latest[n] = daemon[n].conn => registry[n] = daemon[n].conn
  /\ \A c \in Conns :
       /\ sock[c].st # "new" => sock[c].node \in Nodes
       /\ sock[c].st = "new" => sock[c].toNode = <<>> /\ sock[c].toRelay = <<>>
       /\ sock[c].st = "open" =>
            /\ daemon[sock[c].node].conn = c
            /\ \A i \in 1 .. Len(sock[c].toNode) :
                 sock[c].toNode[i].type = "registered" /\ latest[sock[c].node] = c => registry[sock[c].node] = c

Stops == {"run_stop", "encrypted_run_stop"}

\* A run that was started and is over: it never runs again.
Ended(s) == runs[s].node # None /\ ~runs[s].live

\* What kind of request q is, and whom it names.
Shape(q) ==
  /\ cli[q].st = "idle" <=> cli[q].kind = "none"
  /\ q \in Starts => cli[q].kind \in StartKinds \cup {"none"}
  /\ q \in Calls => cli[q].kind \notin StartKinds
  /\ cli[q].kind \in RunKinds => cli[q].run \in Starts
  /\ cli[q].kind \notin RunKinds => cli[q].run = None
  /\ cli[q].kind \in NodeKinds \cup StartKinds \cup {"node_pair"} => cli[q].node \in Nodes

\* How far request q is.
Stage(q) ==
  /\ cli[q].st \in {"idle", "sent", "routed"} => cli[q].answer = "none"
  /\ cli[q].st \in {"idle", "sent"} => acted[q] = 0 /\ q \notin Asked(sock) /\ (q \in Starts => runs[q].node = None)
  /\ q \in pending => cli[q].st \in {"routed", "settled"} /\ cli[q].answer \in {"none", "timeout"}
  /\ acted[q] \in {0, 1}

\* A request that is still under way to a node was not carried out and has no answer.
Unserved(q) ==
  /\ acted[q] = 0 /\ cli[q].answer \in {"none", "timeout"} /\ cli[q].kind \notin {"node_pair", "none"}
  /\ q \in Starts => runs[q].node = None

\* A verdict for q, said by node n, is true and stays true.
VerdictTrue(q, v, n) ==
  /\ cli[q].st \notin {"idle", "sent"} /\ cli[q].kind # "node_pair" /\ q \notin Asked(sock)
  /\ v = "ok" => /\ acted[q] = 1
                 /\ q \in Starts => runs[q].node = n
                 /\ cli[q].kind \in Stops => Ended(cli[q].run)
  /\ v = "refused" => acted[q] = 0

\* The answer the client of q got is true and stays true.
AnswerTrue(q) ==
  /\ cli[q].answer = "ok" => /\ acted[q] = 1
                             /\ q \in Starts /\ restarts = 0 => owner[q] # None
                             /\ cli[q].kind \in Stops => Ended(cli[q].run)
                             /\ cli[q].kind = "node_pair" => cli[q].node \in paired
  /\ cli[q].answer \in {"refused", "unroutable"} => acted[q] = 0

Requests == \A q \in Reqs : Shape(q) /\ Stage(q) /\ AnswerTrue(q) /\ (q \in Asked(sock) => Unserved(q))

Verdicted ==
  \A c \in Conns : \A m \in Told(sock, c) : m.type \in Verdicts => VerdictTrue(m.req, m.type, sock[c].node)

Owned == \A s \in Starts : owner[s] # None => runs[s].node = owner[s]

IInv == TypeOK /\ Wired /\ Channels(sock) /\ Requests /\ Verdicted /\ Owned

-----------------------------------------------------------------------------
(* Channels *)

\* A message is its type and its request.
LEMMA MsgFields ==
  ASSUME NEW t \in {"register", "registered", "rejected", "request"} \cup Verdicts, NEW q \in Reqs \cup {None}
  PROVE  M(t, q) \in Msg /\ M(t, q).type = t /\ M(t, q).req = q
BY DEF M, Msg

\* A request message is determined by its request.
LEMMA RequestMsg ==
  ASSUME NEW m \in Msg, m.type = "request"
  PROVE  m = M("request", m.req)
BY DEF M, Msg

\* The fields of a socket.
LEMMA SocketFields ==
  ASSUME NEW S \in [Conns -> Sockets], NEW c \in Conns
  PROVE  /\ S[c] \in Sockets /\ S[c].st \in {"new", "open", "gone", "closed"} /\ S[c].node \in Nodes \cup {None}
         /\ S[c].toRelay \in Seq(Msg) /\ S[c].toNode \in Seq(Msg)
BY DEF Sockets

\* sendMsg to the node changes that queue only.
LEMMA ToNodeFields ==
  ASSUME NEW S \in [Conns -> Sockets], NEW c \in Conns, NEW m \in Msg
  PROVE  /\ ToNode(S, c, m) \in [Conns -> Sockets]
         /\ \A d \in Conns : /\ ToNode(S, c, m)[d].st = S[d].st /\ ToNode(S, c, m)[d].node = S[d].node
                             /\ ToNode(S, c, m)[d].toRelay = S[d].toRelay
                             /\ d # c => ToNode(S, c, m)[d].toNode = S[d].toNode
         /\ ToNode(S, c, m)[c].toNode = IF S[c].st = "open" THEN Append(S[c].toNode, m) ELSE S[c].toNode
<1>1. \A d \in Conns : S[d] \in Sockets /\ S[d].toNode \in Seq(Msg)
  BY SocketFields
<1>2. Append(S[c].toNode, m) \in Seq(Msg)
  BY <1>1, AppendProperties
<1> QED BY <1>1, <1>2 DEF ToNode, Sockets

\* sendMsg to the relay changes that queue only.
LEMMA ToRelayFields ==
  ASSUME NEW S \in [Conns -> Sockets], NEW c \in Conns, NEW m \in Msg
  PROVE  /\ ToRelay(S, c, m) \in [Conns -> Sockets]
         /\ \A d \in Conns : /\ ToRelay(S, c, m)[d].st = S[d].st /\ ToRelay(S, c, m)[d].node = S[d].node
                             /\ ToRelay(S, c, m)[d].toNode = S[d].toNode
                             /\ d # c => ToRelay(S, c, m)[d].toRelay = S[d].toRelay
         /\ ToRelay(S, c, m)[c].toRelay = IF S[c].st = "open" THEN Append(S[c].toRelay, m) ELSE S[c].toRelay
<1>1. \A d \in Conns : S[d] \in Sockets /\ S[d].toRelay \in Seq(Msg)
  BY SocketFields
<1>2. Append(S[c].toRelay, m) \in Seq(Msg)
  BY <1>1, AppendProperties
<1> QED BY <1>1, <1>2 DEF ToRelay, Sockets

\* The head is taken off a queue: to the node, to the relay.
Popped(S, c) == [S EXCEPT ![c].toNode = Tail(@)]
Read(S, c) == [S EXCEPT ![c].toRelay = Tail(@)]

\* Taking the head off the queue to the node.
LEMMA TakeFields ==
  ASSUME NEW S \in [Conns -> Sockets], NEW c \in Conns, S[c].toNode # <<>>, NEW T, T = Popped(S, c)
  PROVE  /\ T \in [Conns -> Sockets]
         /\ \A d \in Conns : /\ T[d].st = S[d].st /\ T[d].node = S[d].node
                             /\ T[d].toRelay = S[d].toRelay
                             /\ d # c => T[d].toNode = S[d].toNode
         /\ T[c].toNode = Tail(S[c].toNode)
<1>1. \A d \in Conns : S[d] \in Sockets /\ S[d].toNode \in Seq(Msg)
  BY SocketFields
<1>2. Tail(S[c].toNode) \in Seq(Msg)
  BY <1>1, HeadTailProperties
<1> QED BY <1>1, <1>2 DEF Sockets, Popped

\* Taking the head off the queue to the relay.
LEMMA ReadFields ==
  ASSUME NEW S \in [Conns -> Sockets], NEW c \in Conns, S[c].toRelay # <<>>, NEW T, T = Read(S, c)
  PROVE  /\ T \in [Conns -> Sockets]
         /\ \A d \in Conns : /\ T[d].st = S[d].st /\ T[d].node = S[d].node
                             /\ T[d].toNode = S[d].toNode
                             /\ d # c => T[d].toRelay = S[d].toRelay
         /\ T[c].toRelay = Tail(S[c].toRelay)
<1>1. \A d \in Conns : S[d] \in Sockets /\ S[d].toRelay \in Seq(Msg)
  BY SocketFields
<1>2. Tail(S[c].toRelay) \in Seq(Msg)
  BY <1>1, HeadTailProperties
<1> QED BY <1>1, <1>2 DEF Sockets, Read

\* The elements of a tail, at their positions.
LEMMA TailElements ==
  ASSUME NEW s \in Seq(Msg), s # <<>>
  PROVE  /\ Len(s) >= 1 /\ Head(s) = s[1]
         /\ \A i \in 1 .. Len(Tail(s)) : i + 1 \in 1 .. Len(s) /\ Tail(s)[i] = s[i + 1]
<1>1. Len(s) \in Nat \ {0} /\ Len(Tail(s)) = Len(s) - 1
  BY HeadTailProperties, LenProperties, EmptySeq
<1>2. \A i \in 1 .. Len(Tail(s)) : Tail(s)[i] = s[i + 1]
  BY HeadTailProperties
<1> QED BY <1>1, <1>2, HeadTailProperties

\* The elements of a queue after an append.
LEMMA AppendElements ==
  ASSUME NEW s \in Seq(Msg), NEW m \in Msg
  PROVE  /\ Len(s) \in Nat /\ Len(Append(s, m)) = Len(s) + 1
         /\ \A i \in 1 .. Len(s) : i \in 1 .. Len(Append(s, m)) /\ Append(s, m)[i] = s[i]
         /\ \A i \in 1 .. Len(Append(s, m)) : i \in 1 .. Len(s) \/ (i = Len(s) + 1 /\ Append(s, m)[i] = m)
<1>1. Len(s) \in Nat /\ Len(Append(s, m)) = Len(s) + 1
  BY AppendProperties, LenProperties
<1>2. \A i \in 1 .. Len(s) : Append(s, m)[i] = s[i]
  BY AppendProperties
<1>3. Append(s, m)[Len(s) + 1] = m
  BY AppendProperties
<1> QED BY <1>1, <1>2, <1>3

\* What is under way to the relay: an empty queue, a shorter one, a longer one.
LEMMA ToldCases ==
  ASSUME NEW S \in [Conns -> Sockets], NEW T \in [Conns -> Sockets], NEW c \in Conns
  PROVE  /\ T[c].toRelay = <<>> => Told(T, c) = {}
         /\ T[c].toRelay = S[c].toRelay => Told(T, c) = Told(S, c)
         /\ S[c].toRelay # <<>> => Head(S[c].toRelay) \in Told(S, c)
         /\ S[c].toRelay # <<>> /\ T[c].toRelay = Tail(S[c].toRelay) => Told(T, c) \subseteq Told(S, c)
         /\ \A m \in Msg : T[c].toRelay = Append(S[c].toRelay, m) => Told(T, c) \subseteq Told(S, c) \cup {m}
<1>1. S[c].toRelay \in Seq(Msg) /\ T[c].toRelay \in Seq(Msg)
  BY SocketFields
<1>2. T[c].toRelay = <<>> => Told(T, c) = {}
  BY EmptySeq DEF Told
<1>3. T[c].toRelay = S[c].toRelay => Told(T, c) = Told(S, c)
  BY DEF Told
<1>4. ASSUME S[c].toRelay # <<>>
      PROVE  /\ Head(S[c].toRelay) \in Told(S, c)
             /\ T[c].toRelay = Tail(S[c].toRelay) => Told(T, c) \subseteq Told(S, c)
  <2>1. /\ 1 \in 1 .. Len(S[c].toRelay) /\ Head(S[c].toRelay) = S[c].toRelay[1]
        /\ \A i \in 1 .. Len(Tail(S[c].toRelay)) :
             i + 1 \in 1 .. Len(S[c].toRelay) /\ Tail(S[c].toRelay)[i] = S[c].toRelay[i + 1]
    BY <1>1, <1>4, TailElements, LenProperties
  <2>2. Head(S[c].toRelay) \in Told(S, c)
    BY <2>1 DEF Told
  <2>3. ASSUME T[c].toRelay = Tail(S[c].toRelay), NEW i \in 1 .. Len(T[c].toRelay)
        PROVE  T[c].toRelay[i] \in Told(S, c)
    <3>1. i + 1 \in 1 .. Len(S[c].toRelay) /\ T[c].toRelay[i] = S[c].toRelay[i + 1]
      BY <2>1, <2>3
    <3> QED BY <3>1 DEF Told
  <2> QED BY <2>2, <2>3 DEF Told
<1>5. ASSUME NEW m \in Msg, T[c].toRelay = Append(S[c].toRelay, m)
      PROVE  Told(T, c) \subseteq Told(S, c) \cup {m}
  BY <1>1, <1>5, AppendElements DEF Told
<1> QED BY <1>2, <1>3, <1>4, <1>5

\* Queues that only lose messages, or get others than requests: k[c] messages were taken off c.
Fewer(S, T, k) ==
  \A c \in Conns : \A i \in 1 .. Len(T[c].toNode) :
    T[c].toNode[i].type = "request" => i + k[c] \in 1 .. Len(S[c].toNode) /\ T[c].toNode[i] = S[c].toNode[i + k[c]]

\* Every message to the relay is an old one or one about a request.
FewerTold(S, T) ==
  \A c \in Conns : \A m \in Told(T, c) : m.type \in Verdicts => m \in Told(S, c) \/ m.req \in Reqs

\* Then no request gets under way, and none is under way twice.
LEMMA FewerChannels ==
  ASSUME NEW S \in [Conns -> Sockets], NEW T \in [Conns -> Sockets], NEW k \in [Conns -> {0, 1}],
         Channels(S), Fewer(S, T, k), FewerTold(S, T)
  PROVE  Channels(T) /\ Asked(T) \subseteq Asked(S)
<1>0. \A c \in Conns : k[c] \in {0, 1} /\ Len(S[c].toNode) \in Nat /\ Len(T[c].toNode) \in Nat
  BY SocketFields, LenProperties
<1>1. \A c \in Conns : \A i \in 1 .. Len(T[c].toNode) : T[c].toNode[i].type = "request" => T[c].toNode[i].req \in Reqs
  BY DEF Channels, Fewer
<1>2. \A c \in Conns : \A m \in Told(T, c) : m.type \in Verdicts => m.req \in Reqs
  BY DEF Channels, FewerTold
<1>3. ASSUME NEW c \in Conns, NEW d \in Conns, NEW i \in 1 .. Len(T[c].toNode), NEW j \in 1 .. Len(T[d].toNode),
             T[c].toNode[i].type = "request", T[c].toNode[i] = T[d].toNode[j]
      PROVE  c = d /\ i = j
  <2>1. /\ i + k[c] \in 1 .. Len(S[c].toNode) /\ T[c].toNode[i] = S[c].toNode[i + k[c]]
        /\ j + k[d] \in 1 .. Len(S[d].toNode) /\ T[d].toNode[j] = S[d].toNode[j + k[d]]
    BY <1>3 DEF Fewer
  <2>2. c = d /\ i + k[c] = j + k[d]
    BY <1>3, <2>1 DEF Channels
  <2>3. i \in Int /\ j \in Int /\ k[c] \in Int
    BY <1>0
  <2> QED BY <2>2, <2>3
<1>4. ASSUME NEW q \in Asked(T)
      PROVE  q \in Asked(S)
  <2>1. PICK c \in Conns : \E i \in 1 .. Len(T[c].toNode) : T[c].toNode[i] = M("request", q)
    BY DEF Asked
  <2>2. PICK i \in 1 .. Len(T[c].toNode) : T[c].toNode[i] = M("request", q)
    BY <2>1
  <2>3. M("request", q).type = "request"
    BY DEF M
  <2>4. i + k[c] \in 1 .. Len(S[c].toNode) /\ S[c].toNode[i + k[c]] = M("request", q)
    BY <2>2, <2>3 DEF Fewer
  <2> QED BY <2>4 DEF Asked
<1> QED BY <1>1, <1>2, <1>3, <1>4 DEF Channels

\* The request at the head of a queue is under way, and not any more once it is taken off.
LEMMA HeadTaken ==
  ASSUME NEW S \in [Conns -> Sockets], NEW T \in [Conns -> Sockets], NEW c \in Conns, Channels(S),
         S[c].toNode # <<>>, Head(S[c].toNode).type = "request", FewerTold(S, T),
         T[c].toNode = Tail(S[c].toNode), \A d \in Conns : d # c => T[d].toNode = S[d].toNode,
         NEW q, q = Head(S[c].toNode).req
  PROVE  q \in Reqs /\ q \in Asked(S) /\ q \notin Asked(T) /\ Channels(T) /\ Asked(T) \subseteq Asked(S)
<1> DEFINE k == [d \in Conns |-> IF d = c THEN 1 ELSE 0]
<1>0. S[c].toNode \in Seq(Msg)
  BY SocketFields
<1>1. Len(S[c].toNode) >= 1 /\ Head(S[c].toNode) = S[c].toNode[1] /\ Len(S[c].toNode) \in Nat
  BY <1>0, TailElements, LenProperties
<1>2. 1 \in 1 .. Len(S[c].toNode)
  BY <1>1
<1>3. q \in Reqs
  BY <1>1, <1>2 DEF Channels
<1>4. S[c].toNode[1] = M("request", q)
  BY <1>0, <1>1, <1>2, RequestMsg, ElementOfSeq
<1>5. q \in Asked(S)
  BY <1>2, <1>3, <1>4 DEF Asked
<1>6. k \in [Conns -> {0, 1}]
  OBVIOUS
<1>7. \A i \in 1 .. Len(T[c].toNode) : i + 1 \in 1 .. Len(S[c].toNode) /\ T[c].toNode[i] = S[c].toNode[i + 1]
  BY <1>0, TailElements
<1>8. \A d \in Conns : d # c => \A i \in 1 .. Len(T[d].toNode) :
        i + 0 \in 1 .. Len(S[d].toNode) /\ T[d].toNode[i] = S[d].toNode[i + 0]
  OBVIOUS
<1>9. Fewer(S, T, k)
  BY <1>7, <1>8 DEF Fewer
<1>10. Channels(T) /\ Asked(T) \subseteq Asked(S)
  BY <1>6, <1>9, FewerChannels
<1>11. ASSUME q \in Asked(T)
       PROVE  FALSE
  <2>1. PICK d \in Conns : \E i \in 1 .. Len(T[d].toNode) : T[d].toNode[i] = M("request", q)
    BY <1>11 DEF Asked
  <2>2. PICK i \in 1 .. Len(T[d].toNode) : T[d].toNode[i] = M("request", q)
    BY <2>1
  <2>3. M("request", q).type = "request"
    BY DEF M
  <2>4. CASE d = c
    <3>1. i + 1 \in 1 .. Len(S[c].toNode) /\ S[c].toNode[i + 1] = S[c].toNode[1]
      BY <1>4, <1>7, <2>2, <2>4
    <3>2. i + 1 = 1
      BY <1>2, <1>4, <2>3, <3>1 DEF Channels
    <3> QED BY <3>2
  <2>5. CASE d # c
    BY <1>2, <1>4, <2>2, <2>3, <2>5 DEF Channels
  <2> QED BY <2>4, <2>5
<1> QED BY <1>3, <1>5, <1>10, <1>11

\* A request that is not under way yet is sent.
LEMMA RequestSent ==
  ASSUME NEW S \in [Conns -> Sockets], NEW c \in Conns, Channels(S), NEW q \in Reqs, q \notin Asked(S)
  PROVE  LET T == ToNode(S, c, M("request", q)) IN Channels(T) /\ Asked(T) \subseteq Asked(S) \cup {q}
<1> DEFINE m == M("request", q)
           T == ToNode(S, c, m)
<1>0. m \in Msg /\ m.type = "request" /\ m.req = q
  BY MsgFields
<1>m. m = M("request", q)
  OBVIOUS
<1> HIDE DEF m
<1>1. T \in [Conns -> Sockets]
  BY <1>0, ToNodeFields
<1>2. \A d \in Conns : Told(T, d) = Told(S, d)
  BY <1>0, <1>1, ToNodeFields, ToldCases, SMTT(30)
<1>3. S[c].toNode \in Seq(Msg)
  BY SocketFields
<1>4. \A d \in Conns : \A i \in 1 .. Len(T[d].toNode) :
        \/ i \in 1 .. Len(S[d].toNode) /\ T[d].toNode[i] = S[d].toNode[i]
        \/ d = c /\ i = Len(S[c].toNode) + 1 /\ T[d].toNode[i] = m
  <2>1. \A i \in 1 .. Len(Append(S[c].toNode, m)) :
          \/ i \in 1 .. Len(S[c].toNode) /\ Append(S[c].toNode, m)[i] = S[c].toNode[i]
          \/ i = Len(S[c].toNode) + 1 /\ Append(S[c].toNode, m)[i] = m
    BY <1>0, <1>3, AppendElements
  <2>2. \A d \in Conns : \/ T[d].toNode = S[d].toNode
                         \/ d = c /\ T[d].toNode = Append(S[c].toNode, m)
    <3>1. /\ \A d \in Conns : d # c => T[d].toNode = S[d].toNode
          /\ T[c].toNode = IF S[c].st = "open" THEN Append(S[c].toNode, m) ELSE S[c].toNode
      BY <1>0, ToNodeFields, SMTT(30)
    <3> HIDE DEF T
    <3> QED BY <3>1, Zenon
  <2> HIDE DEF T
  <2> TAKE d \in Conns
  <2>3. CASE T[d].toNode = S[d].toNode
    BY <2>3
  <2>4. CASE d = c /\ T[d].toNode = Append(S[c].toNode, m)
    BY <2>1, <2>4
  <2> QED BY <2>2, <2>3, <2>4
<1>5. \A d \in Conns : \A i \in 1 .. Len(S[d].toNode) : S[d].toNode[i] # m
  BY <1>m DEF Asked
<1> HIDE DEF T
<1>6. \A d \in Conns : \A i \in 1 .. Len(T[d].toNode) : T[d].toNode[i].type = "request" => T[d].toNode[i].req \in Reqs
  BY <1>0, <1>4 DEF Channels
<1>7. ASSUME NEW d \in Conns, NEW e \in Conns, NEW i \in 1 .. Len(T[d].toNode), NEW j \in 1 .. Len(T[e].toNode),
             T[d].toNode[i].type = "request", T[d].toNode[i] = T[e].toNode[j]
      PROVE  d = e /\ i = j
  <2>1. CASE i \in 1 .. Len(S[d].toNode) /\ T[d].toNode[i] = S[d].toNode[i]
    <3>1. j \in 1 .. Len(S[e].toNode) /\ T[e].toNode[j] = S[e].toNode[j]
      BY <1>4, <1>5, <1>7, <2>1
    <3>2. S[d].toNode[i].type = "request" /\ S[d].toNode[i] = S[e].toNode[j]
      BY <1>7, <2>1, <3>1
    <3> QED BY <2>1, <3>1, <3>2 DEF Channels
  <2>2. CASE d = c /\ i = Len(S[c].toNode) + 1 /\ T[d].toNode[i] = m
    <3>1. e = c /\ j = Len(S[c].toNode) + 1
      BY <1>4, <1>5, <1>7, <2>2, SMTT(30)
    <3> QED BY <2>2, <3>1
  <2> QED BY <1>4, <2>1, <2>2
<1>8. Channels(T)
  BY <1>2, <1>6, <1>7 DEF Channels
<1>9. Asked(T) \subseteq Asked(S) \cup {q}
  <2> SUFFICES ASSUME NEW p \in Asked(T), p # q PROVE p \in Asked(S)
    OBVIOUS
  <2>1. PICK d \in Conns : \E i \in 1 .. Len(T[d].toNode) : T[d].toNode[i] = M("request", p)
    BY DEF Asked
  <2>2. PICK i \in 1 .. Len(T[d].toNode) : T[d].toNode[i] = M("request", p)
    BY <2>1
  <2>3. M("request", p).req = p
    BY DEF M
  <2>4. i \in 1 .. Len(S[d].toNode) /\ S[d].toNode[i] = M("request", p)
    BY <1>0, <1>4, <2>2, <2>3
  <2> QED BY <2>4 DEF Asked
<1> QED BY <1>8, <1>9 DEF m, T

-----------------------------------------------------------------------------
(* Frames *)

\* The types of the parts of the state.
LEMMA Now ==
  ASSUME IInv
  PROVE  /\ sock \in [Conns -> Sockets] /\ daemon \in [Nodes -> Daemons] /\ cli \in [Reqs -> Clients]
         /\ \A n \in Nodes : daemon[n].st \in {"off", "open", "registered", "exited"} /\ daemon[n].conn \in Conns \cup {None}
         /\ \A s \in Starts : runs[s].node \in Nodes \cup {None} /\ runs[s].live \in BOOLEAN
         /\ Wired /\ Channels(sock) /\ Requests /\ Verdicted /\ Owned /\ restarts \in 0 .. MaxRestarts
BY DEF IInv, TypeOK, Daemons, Runs

\* A step on queues that brings no registration keeps the wiring.
LEMMA WiredFrame ==
  ASSUME IInv, UNCHANGED <<daemon, registry, latest>>,
         \A c \in Conns : /\ sock'[c].st = sock[c].st /\ sock'[c].node = sock[c].node
                          /\ sock[c].st = "new" => sock'[c].toNode = <<>> /\ sock'[c].toRelay = <<>>,
         \A c \in Conns : \A i \in 1 .. Len(sock'[c].toNode) :
           sock'[c].toNode[i].type = "registered" =>
             \E j \in 1 .. Len(sock[c].toNode) : sock[c].toNode[j].type = "registered"
  PROVE  Wired'
<1>1. \A n \in Nodes : (daemon[n].conn # None => daemon[n].conn \in Conns) /\ (registry[n] # None => registry[n] \in Conns)
  BY Now DEF IInv, TypeOK
<1> QED BY <1>1, Now DEF Wired

\* Started runs keep their nodes, ended runs stay ended.
RunsKept ==
  \A s \in Starts : (Ended(s) => Ended(s)') /\ (s \notin Asked(sock) => runs'[s].node = runs[s].node)

\* A request that a step does not concern stays as true as it was.
LEMMA RequestKept ==
  ASSUME IInv, NEW q \in Reqs, cli'[q] = cli[q], acted'[q] = acted[q], q \in pending' => q \in pending,
         q \in Asked(sock') => q \in Asked(sock), q \in Starts => runs'[q].node = runs[q].node,
         paired \subseteq paired', restarts' = 0 => restarts = 0,
         \A s \in Starts : restarts' = 0 /\ owner[s] # None => owner'[s] # None,
         \A s \in Starts : Ended(s) => Ended(s)'
  PROVE  /\ Shape(q)' /\ Stage(q)' /\ AnswerTrue(q)' /\ (q \in Asked(sock') => Unserved(q)')
<1>1. Shape(q) /\ Stage(q) /\ AnswerTrue(q) /\ (q \in Asked(sock) => Unserved(q))
  BY DEF IInv, Requests
<1>2. Shape(q)'
  BY <1>1 DEF Shape
<1>3. Stage(q)'
  BY <1>1 DEF Stage
<1>4. AnswerTrue(q)'
  BY <1>1 DEF AnswerTrue, Shape, Stops, RunKinds
<1>5. q \in Asked(sock') => Unserved(q)'
  BY <1>1 DEF Unserved
<1> QED BY <1>2, <1>3, <1>4, <1>5

\* A verdict under way that a step does not concern stays as true as it was.
LEMMA VerdictKept ==
  ASSUME IInv, NEW q \in Reqs, NEW v, NEW n, VerdictTrue(q, v, n), acted'[q] = acted[q],
         cli'[q].st \notin {"idle", "sent"}, cli'[q].kind = cli[q].kind, cli'[q].run = cli[q].run,
         q \notin Asked(sock'), q \in Starts => runs'[q].node = runs[q].node,
         \A s \in Starts : Ended(s) => Ended(s)'
  PROVE  VerdictTrue(q, v, n)'
<1>1. Shape(q)
  BY DEF IInv, Requests
<1> QED BY <1>1 DEF VerdictTrue, Shape, Stops, RunKinds

\* A step on queues only: no new request, no new verdict.
LEMMA QuietChannels ==
  ASSUME IInv, UNCHANGED <<owner, pending, paired, cli, runs, acted, restarts>>,
         Asked(sock') \subseteq Asked(sock),
         \A c \in Conns : \A m \in Told(sock', c) :
           m.type \in Verdicts => m \in Told(sock, c) /\ sock'[c].node = sock[c].node
  PROVE  Requests' /\ Verdicted' /\ Owned'
<1>0. \A s \in Starts : Ended(s) => Ended(s)'
  BY DEF Ended
<1>1. Requests'
  BY <1>0, RequestKept DEF Requests
<1>2. ASSUME NEW c \in Conns, NEW m \in Told(sock', c), m.type \in Verdicts
      PROVE  VerdictTrue(m.req, m.type, sock[c].node)'
  <2>1. m \in Told(sock, c) /\ sock'[c].node = sock[c].node
    BY <1>2
  <2>2. VerdictTrue(m.req, m.type, sock[c].node) /\ m.req \in Reqs
    BY <1>2, <2>1 DEF IInv, Verdicted, Channels
  <2>3. cli[m.req].st \notin {"idle", "sent"} /\ m.req \notin Asked(sock')
    BY <2>2 DEF VerdictTrue
  <2> QED BY <2>1, <2>2, <2>3, <1>0, VerdictKept DEF VerdictTrue
<1>3. Owned'
  BY DEF IInv, Owned
<1>4. Verdicted'
  BY <1>2 DEF Verdicted
<1> QED BY <1>1, <1>3, <1>4

-----------------------------------------------------------------------------
(* Steps of the daemon's connection *)

\* A new socket carries nothing but the registration.
LEMMA DaemonConnectStep ==
  ASSUME IInv, NEW n \in Nodes, NEW c \in Conns, DaemonConnect(n, c)
  PROVE  IInv'
<1> DEFINE r == [st |-> "open", node |-> n, toRelay |-> <<M("register", None)>>, toNode |-> <<>>]
<1>1. M("register", None) \in Msg /\ M("register", None).type = "register"
  BY MsgFields
<1>2. r \in Sockets
  BY <1>1 DEF Sockets
<1>3. sock' = [sock EXCEPT ![c] = r] /\ daemon' = [daemon EXCEPT ![n] = [st |-> "open", conn |-> c]]
  BY DEF DaemonConnect
<1>4. r.st = "open" /\ r.node = n /\ r.toNode = <<>> /\ r.toRelay = <<M("register", None)>>
  OBVIOUS
<1> HIDE DEF r
<1>5. sock' \in [Conns -> Sockets] /\ sock'[c] = r /\ \A d \in Conns : d # c => sock'[d] = sock[d]
  BY <1>2, <1>3, Now
<1>6. daemon' \in [Nodes -> Daemons] /\ daemon'[n].st = "open" /\ daemon'[n].conn = c
      /\ \A k \in Nodes : k # n => daemon'[k] = daemon[k]
  BY <1>3, Now DEF Daemons
<1>7. TypeOK'
  BY <1>5, <1>6 DEF IInv, TypeOK, DaemonConnect
<1>8. Told(sock', c) = {M("register", None)} /\ \A d \in Conns : d # c => Told(sock', d) = Told(sock, d)
  <2>0. sock'[c].toRelay = <<M("register", None)>>
    BY <1>4, <1>5
  <2>1. Len(sock'[c].toRelay) = 1 /\ sock'[c].toRelay[1] = M("register", None)
    BY <2>0
  <2>2. Told(sock', c) = {M("register", None)}
    BY <2>1 DEF Told
  <2> QED BY <1>5, <2>2 DEF Told
<1>9. Channels(sock') /\ Asked(sock') \subseteq Asked(sock)
  <2> DEFINE k == [d \in Conns |-> 0]
  <2>1. k \in [Conns -> {0, 1}]
    OBVIOUS
  <2>2. Fewer(sock, sock', k)
    BY <1>4, <1>5, EmptySeq DEF Fewer
  <2>3. FewerTold(sock, sock')
    BY <1>1, <1>8 DEF FewerTold, Verdicts
  <2> QED BY <2>1, <2>2, <2>3, <1>5, Now, FewerChannels
<1>10. Requests' /\ Verdicted' /\ Owned'
  <2>1. \A d \in Conns : \A m \in Told(sock', d) :
          m.type \in Verdicts => m \in Told(sock, d) /\ sock'[d].node = sock[d].node
    BY <1>1, <1>5, <1>8 DEF Verdicts
  <2> QED BY <1>9, <2>1, QuietChannels DEF DaemonConnect
<1>11. Wired'
  <2>1. sock[c].st = "new" /\ daemon[n].st = "off" /\ registry' = registry /\ latest' = latest /\ None \notin Conns /\ None \notin Nodes
    BY RelayAssumption DEF DaemonConnect
  <2>2. \A k \in Nodes : daemon[k].conn # c /\ registry[k] # c /\ (daemon[k].conn # None => daemon[k].conn \in Conns)
    BY <2>1, Now DEF Wired
  <2>3. \A k \in Nodes : registry[k] # None => registry[k] \in Conns
    BY DEF IInv, TypeOK
  <2>4. \A k \in Nodes :
          /\ daemon'[k].conn # None <=> daemon'[k].st \in {"open", "registered"}
          /\ daemon'[k].conn # None => sock'[daemon'[k].conn].st = "open" /\ sock'[daemon'[k].conn].node = k
          /\ registry'[k] # None => sock'[registry'[k]].st # "new" /\ sock'[registry'[k]].node = k
          /\ daemon'[k].st = "registered" /\ latest'[k] = daemon'[k].conn => registry'[k] = daemon'[k].conn
    BY <1>4, <1>5, <1>6, <2>1, <2>2, <2>3, Now DEF Wired
  <2>5. sock[c].st = "new" /\ \A d \in Conns : d # c /\ sock[d].st = "open" => sock[d].node # n
    BY <2>1, Now DEF Wired
  <2>6. \A d \in Conns : d # c =>
          /\ sock'[d].st # "new" => sock'[d].node \in Nodes
          /\ sock'[d].st = "new" => sock'[d].toNode = <<>> /\ sock'[d].toRelay = <<>>
          /\ sock'[d].st = "open" =>
               /\ daemon'[sock'[d].node].conn = d
               /\ \A i \in 1 .. Len(sock'[d].toNode) :
                    sock'[d].toNode[i].type = "registered" /\ latest'[sock'[d].node] = d => registry'[sock'[d].node] = d
    BY <1>5, <1>6, <2>1, <2>5, Now DEF Wired
  <2> QED BY <1>4, <1>5, <1>6, <2>4, <2>6, EmptySeq DEF Wired
<1> QED BY <1>7, <1>9, <1>10, <1>11 DEF IInv

\* The connection that a daemon has is open and its own.
LEMMA Connected ==
  ASSUME IInv, NEW n \in Nodes, daemon[n].conn # None
  PROVE  /\ daemon[n].conn \in Conns /\ sock[daemon[n].conn].st = "open" /\ sock[daemon[n].conn].node = n
         /\ daemon[n].st \in {"open", "registered"}
         /\ \A k \in Nodes : k # n => daemon[k].conn # daemon[n].conn
BY Now DEF Wired

\* Queues to the nodes that stay, and queues to the relay that stay or are dropped.
LEMMA SameQueues ==
  ASSUME IInv, sock' \in [Conns -> Sockets], UNCHANGED <<owner, pending, paired, cli, runs, acted, restarts>>,
         \A c \in Conns : \/ sock'[c].node = sock[c].node /\ sock'[c].toNode = sock[c].toNode /\ sock'[c].toRelay = sock[c].toRelay
                          \/ sock'[c].toNode = <<>> /\ sock'[c].toRelay = <<>>
  PROVE  Channels(sock') /\ Requests' /\ Verdicted' /\ Owned'
<1> DEFINE k == [d \in Conns |-> 0]
<1>1. k \in [Conns -> {0, 1}]
  OBVIOUS
<1>2. Fewer(sock, sock', k)
  BY EmptySeq DEF Fewer
<1>3. \A c \in Conns : \A m \in Told(sock', c) : m \in Told(sock, c) /\ sock'[c].node = sock[c].node
  BY EmptySeq DEF Told
<1>4. FewerTold(sock, sock')
  BY <1>3 DEF FewerTold
<1>5. Channels(sock') /\ Asked(sock') \subseteq Asked(sock)
  BY <1>1, <1>2, <1>4, Now, FewerChannels
<1> QED BY <1>3, <1>5, QuietChannels

\* The daemon's side of a connection goes.
LEMMA DaemonGone ==
  ASSUME IInv, NEW n \in Nodes, daemon[n].conn # None, NEW x \in {"off", "exited"},
         sock' = [sock EXCEPT ![daemon[n].conn].st = "gone"],
         daemon' = [daemon EXCEPT ![n] = [st |-> x, conn |-> None]],
         UNCHANGED <<registry, latest, owner, pending, paired, cli, runs, acted, restarts>>
  PROVE  IInv'
<1> DEFINE c == daemon[n].conn
<1>1. c \in Conns /\ sock[c].st = "open" /\ sock[c].node = n /\ \A k \in Nodes : k # n => daemon[k].conn # c
  BY Connected
<1>c. c = daemon[n].conn
  OBVIOUS
<1> HIDE DEF c
<1>2. /\ sock' \in [Conns -> Sockets] /\ sock'[c].st = "gone"
      /\ \A d \in Conns : /\ sock'[d].node = sock[d].node /\ sock'[d].toNode = sock[d].toNode
                          /\ sock'[d].toRelay = sock[d].toRelay
                          /\ d # c => sock'[d].st = sock[d].st
  BY <1>1, <1>c, Now DEF Sockets
<1>3. /\ daemon' \in [Nodes -> Daemons] /\ daemon'[n].st = x /\ daemon'[n].conn = None
      /\ \A k \in Nodes : k # n => daemon'[k] = daemon[k]
  BY Now DEF Daemons
<1>4. TypeOK'
  BY <1>2, <1>3 DEF IInv, TypeOK
<1>5. Channels(sock') /\ Requests' /\ Verdicted' /\ Owned'
  BY <1>2, SameQueues
<1>6. Wired'
  <2>1. \A k \in Nodes : (registry[k] # None => registry[k] \in Conns) /\ (daemon[k].conn # None => daemon[k].conn \in Conns)
    BY Now DEF IInv, TypeOK
  <2>2. \A k \in Nodes :
          /\ daemon'[k].conn # None <=> daemon'[k].st \in {"open", "registered"}
          /\ daemon'[k].conn # None => sock'[daemon'[k].conn].st = "open" /\ sock'[daemon'[k].conn].node = k
          /\ registry'[k] # None => sock'[registry'[k]].st # "new" /\ sock'[registry'[k]].node = k
          /\ daemon'[k].st = "registered" /\ latest'[k] = daemon'[k].conn => registry'[k] = daemon'[k].conn
    BY <1>1, <1>2, <1>3, <2>1, Now DEF Wired
  <2>3. \A d \in Conns :
          /\ sock'[d].st # "new" => sock'[d].node \in Nodes
          /\ sock'[d].st = "new" => sock'[d].toNode = <<>> /\ sock'[d].toRelay = <<>>
          /\ sock'[d].st = "open" =>
               /\ daemon'[sock'[d].node].conn = d
               /\ \A i \in 1 .. Len(sock'[d].toNode) :
                    sock'[d].toNode[i].type = "registered" /\ latest'[sock'[d].node] = d => registry'[sock'[d].node] = d
    BY <1>1, <1>2, <1>3, <1>c, Now DEF Wired
  <2> QED BY <2>2, <2>3 DEF Wired
<1> QED BY <1>4, <1>5, <1>6 DEF IInv

\* The daemon drops its connection, or gives up after a rejected registration.
LEMMA DaemonLeavesStep ==
  ASSUME IInv, NEW n \in Nodes, DaemonDrops(n) \/ DaemonRejected(n)
  PROVE  IInv'
<1>1. CASE DaemonDrops(n)
  <2>1. daemon[n].conn # None
    BY <1>1, Now DEF Wired, DaemonDrops
  <2> QED BY <1>1, <2>1, DaemonGone DEF DaemonDrops
<1>2. CASE DaemonRejected(n)
  BY <1>2, DaemonGone DEF DaemonRejected, NextForNode
<1> QED BY <1>1, <1>2

\* What a queue to a node holds once its head is taken off.
LEMMA Taken ==
  ASSUME IInv, NEW n \in Nodes, NEW type, NextForNode(n, type), NEW c, c = daemon[n].conn, NEW T,
         T = Popped(sock, c)
  PROVE  /\ c \in Conns /\ sock[c].st = "open" /\ sock[c].node = n
         /\ sock[c].toNode # <<>> /\ Head(sock[c].toNode).type = type
         /\ T \in [Conns -> Sockets]
         /\ \A d \in Conns : /\ T[d].st = sock[d].st /\ T[d].node = sock[d].node /\ T[d].toRelay = sock[d].toRelay
                             /\ d # c => T[d].toNode = sock[d].toNode
         /\ T[c].toNode = Tail(sock[c].toNode)
         /\ \A i \in 1 .. Len(T[c].toNode) : i + 1 \in 1 .. Len(sock[c].toNode) /\ T[c].toNode[i] = sock[c].toNode[i + 1]
         /\ Head(sock[c].toNode) = sock[c].toNode[1] /\ 1 \in 1 .. Len(sock[c].toNode)
<1>1. c # None /\ sock[c].toNode # <<>> /\ Head(sock[c].toNode).type = type
  BY DEF NextForNode
<1>2. c \in Conns /\ sock[c].st = "open" /\ sock[c].node = n
  BY <1>1, Connected
<1>3. sock \in [Conns -> Sockets]
  BY Now
<1>4. /\ T \in [Conns -> Sockets]
      /\ \A d \in Conns : /\ T[d].st = sock[d].st /\ T[d].node = sock[d].node /\ T[d].toRelay = sock[d].toRelay
                          /\ d # c => T[d].toNode = sock[d].toNode
      /\ T[c].toNode = Tail(sock[c].toNode)
  BY <1>1, <1>2, <1>3, TakeFields
<1>5. sock[c].toNode \in Seq(Msg)
  BY <1>2, <1>3, SocketFields
<1>6. /\ \A i \in 1 .. Len(T[c].toNode) : i + 1 \in 1 .. Len(sock[c].toNode) /\ T[c].toNode[i] = sock[c].toNode[i + 1]
      /\ Head(sock[c].toNode) = sock[c].toNode[1] /\ 1 \in 1 .. Len(sock[c].toNode)
  <2>1. /\ Len(sock[c].toNode) >= 1 /\ Head(sock[c].toNode) = sock[c].toNode[1]
        /\ \A i \in 1 .. Len(Tail(sock[c].toNode)) :
             i + 1 \in 1 .. Len(sock[c].toNode) /\ Tail(sock[c].toNode)[i] = sock[c].toNode[i + 1]
    BY <1>1, <1>5, TailElements, Zenon
  <2>2. 1 \in 1 .. Len(sock[c].toNode)
    BY <1>5, <2>1, LenProperties
  <2> QED BY <1>4, <2>1, <2>2
<1> QED BY <1>1, <1>2, <1>4, <1>6

\* The sockets after a daemon took a message from its own.
LEMMA TakenFrom ==
  ASSUME IInv, NEW n \in Nodes, NEW type, NextForNode(n, type), sock' = Popped(sock, daemon[n].conn)
  PROVE  \E c \in Conns :
           /\ sock[c].st = "open" /\ sock' \in [Conns -> Sockets]
           /\ \A d \in Conns : /\ sock'[d].st = sock[d].st /\ sock'[d].node = sock[d].node /\ sock'[d].toRelay = sock[d].toRelay
                               /\ d # c => sock'[d].toNode = sock[d].toNode
           /\ \A i \in 1 .. Len(sock'[c].toNode) : i + 1 \in 1 .. Len(sock[c].toNode) /\ sock'[c].toNode[i] = sock[c].toNode[i + 1]
<1>1. PICK c : c = daemon[n].conn
  OBVIOUS
<1>2. sock' = Popped(sock, c)
  BY <1>1
<1>3. /\ c \in Conns /\ sock[c].st = "open" /\ sock' \in [Conns -> Sockets]
      /\ \A d \in Conns : /\ sock'[d].st = sock[d].st /\ sock'[d].node = sock[d].node /\ sock'[d].toRelay = sock[d].toRelay
                          /\ d # c => sock'[d].toNode = sock[d].toNode
      /\ \A i \in 1 .. Len(sock'[c].toNode) : i + 1 \in 1 .. Len(sock[c].toNode) /\ sock'[c].toNode[i] = sock[c].toNode[i + 1]
  BY <1>1, <1>2, Taken
<1> QED BY <1>3

\* A message that is not a request is taken off: no request or verdict gets under way.
LEMMA TakenQuietly ==
  ASSUME IInv, NEW n \in Nodes, NEW type, NextForNode(n, type), Take(n)
  PROVE  Channels(sock') /\ Asked(sock') \subseteq Asked(sock) /\ \A c \in Conns : Told(sock', c) = Told(sock, c)
<1> DEFINE c == daemon[n].conn
           k == [d \in Conns |-> IF d = c THEN 1 ELSE 0]
<1>1. k \in [Conns -> {0, 1}]
  OBVIOUS
<1>2. /\ c \in Conns /\ sock' \in [Conns -> Sockets]
      /\ \A d \in Conns : sock'[d].toRelay = sock[d].toRelay /\ (d # c => sock'[d].toNode = sock[d].toNode)
      /\ \A i \in 1 .. Len(sock'[c].toNode) : i + 1 \in 1 .. Len(sock[c].toNode) /\ sock'[c].toNode[i] = sock[c].toNode[i + 1]
  <2>1. sock' = Popped(sock, daemon[n].conn)
    BY DEF Take, Popped
  <2> QED BY <2>1, Taken
<1> HIDE DEF c
<1>3. \A d \in Conns : d # c => \A i \in 1 .. Len(sock'[d].toNode) :
        i + 0 \in 1 .. Len(sock[d].toNode) /\ sock'[d].toNode[i] = sock[d].toNode[i + 0]
  BY <1>2
<1>4. Fewer(sock, sock', k)
  BY <1>2, <1>3 DEF Fewer
<1>5. \A d \in Conns : Told(sock', d) = Told(sock, d)
  BY <1>2 DEF Told
<1>6. FewerTold(sock, sock')
  BY <1>5 DEF FewerTold
<1> QED BY <1>1, <1>2, <1>4, <1>5, <1>6, Now, FewerChannels

\* The daemon learns that it is registered.
LEMMA DaemonRegisteredStep ==
  ASSUME IInv, NEW n \in Nodes, DaemonRegistered(n)
  PROVE  IInv'
<1> DEFINE c == daemon[n].conn
<1>1. /\ c \in Conns /\ sock[c].st = "open" /\ sock[c].node = n /\ sock' \in [Conns -> Sockets]
      /\ \A d \in Conns : /\ sock'[d].st = sock[d].st /\ sock'[d].node = sock[d].node /\ sock'[d].toRelay = sock[d].toRelay
                          /\ d # c => sock'[d].toNode = sock[d].toNode
      /\ \A i \in 1 .. Len(sock'[c].toNode) : i + 1 \in 1 .. Len(sock[c].toNode) /\ sock'[c].toNode[i] = sock[c].toNode[i + 1]
      /\ sock[c].toNode[1].type = "registered" /\ 1 \in 1 .. Len(sock[c].toNode)
  <2>1. sock' = Popped(sock, daemon[n].conn) /\ NextForNode(n, "registered")
    BY DEF DaemonRegistered, Take, Popped
  <2> QED BY <2>1, Taken
<1>2. latest[n] = c => registry[n] = c
  BY <1>1, Now DEF Wired
<1>3. /\ daemon' \in [Nodes -> Daemons] /\ daemon'[n].st = "registered" /\ daemon'[n].conn = c
      /\ \A k \in Nodes : k # n => daemon'[k] = daemon[k]
  BY Now DEF Daemons, DaemonRegistered
<1>4. TypeOK'
  BY <1>1, <1>3 DEF IInv, TypeOK, DaemonRegistered
<1>5. Channels(sock') /\ Asked(sock') \subseteq Asked(sock) /\ \A d \in Conns : Told(sock', d) = Told(sock, d)
  BY TakenQuietly DEF DaemonRegistered
<1>6. Requests' /\ Verdicted' /\ Owned'
  BY <1>1, <1>5, QuietChannels DEF DaemonRegistered
<1>7. Wired'
  <2>1. \A k \in Nodes : (registry[k] # None => registry[k] \in Conns) /\ (daemon[k].conn # None => daemon[k].conn \in Conns)
    BY Now DEF IInv, TypeOK
  <2>2. registry' = registry /\ latest' = latest /\ c # None /\ \A k \in Nodes : daemon'[k].conn = daemon[k].conn
    BY <1>1, <1>3, RelayAssumption DEF DaemonRegistered
  <2> HIDE DEF c
  <2>3. \A k \in Nodes :
          /\ daemon'[k].conn # None <=> daemon'[k].st \in {"open", "registered"}
          /\ daemon'[k].conn # None => sock'[daemon'[k].conn].st = "open" /\ sock'[daemon'[k].conn].node = k
          /\ registry'[k] # None => sock'[registry'[k]].st # "new" /\ sock'[registry'[k]].node = k
          /\ daemon'[k].st = "registered" /\ latest'[k] = daemon'[k].conn => registry'[k] = daemon'[k].conn
    BY <1>1, <1>2, <1>3, <2>1, <2>2, Now DEF Wired
  <2>4. \A d \in Conns : \A i \in 1 .. Len(sock'[d].toNode) : sock'[d].toNode[i].type = "registered" =>
          \E j \in 1 .. Len(sock[d].toNode) : sock[d].toNode[j].type = "registered"
    BY <1>1
  <2>5. \A d \in Conns :
          /\ sock'[d].st # "new" => sock'[d].node \in Nodes
          /\ sock'[d].st = "new" => sock'[d].toNode = <<>> /\ sock'[d].toRelay = <<>>
          /\ sock'[d].st = "open" =>
               /\ daemon'[sock'[d].node].conn = d
               /\ \A i \in 1 .. Len(sock'[d].toNode) :
                    sock'[d].toNode[i].type = "registered" /\ latest'[sock'[d].node] = d => registry'[sock'[d].node] = d
    <3> SUFFICES ASSUME NEW d \in Conns
                 PROVE  /\ sock'[d].st # "new" => sock'[d].node \in Nodes
                        /\ sock'[d].st = "new" => sock'[d].toNode = <<>> /\ sock'[d].toRelay = <<>>
                        /\ sock'[d].st = "open" =>
                             /\ daemon'[sock'[d].node].conn = d
                             /\ \A i \in 1 .. Len(sock'[d].toNode) :
                                  sock'[d].toNode[i].type = "registered" /\ latest'[sock'[d].node] = d
                                    => registry'[sock'[d].node] = d
      OBVIOUS
    <3>1. /\ sock[d].st # "new" => sock[d].node \in Nodes
          /\ sock[d].st = "new" => sock[d].toNode = <<>> /\ sock[d].toRelay = <<>>
          /\ sock[d].st = "open" =>
               /\ daemon[sock[d].node].conn = d
               /\ \A i \in 1 .. Len(sock[d].toNode) :
                    sock[d].toNode[i].type = "registered" /\ latest[sock[d].node] = d => registry[sock[d].node] = d
      BY Now DEF Wired
    <3>2. /\ sock'[d].st = sock[d].st /\ sock'[d].node = sock[d].node /\ sock'[d].toRelay = sock[d].toRelay
          /\ sock[d].st = "new" => sock'[d].toNode = sock[d].toNode
      BY <1>1
    <3>3. ASSUME sock[d].st = "open", NEW i \in 1 .. Len(sock'[d].toNode),
                 sock'[d].toNode[i].type = "registered", latest[sock[d].node] = d
          PROVE  registry[sock[d].node] = d
      <4>1. PICK j \in 1 .. Len(sock[d].toNode) : sock[d].toNode[j].type = "registered"
        BY <2>4, <3>3
      <4> QED BY <3>1, <3>3, <4>1
    <3> QED BY <2>2, <3>1, <3>2, <3>3
  <2> QED BY <2>3, <2>5 DEF Wired
<1> QED BY <1>4, <1>5, <1>6, <1>7 DEF IInv

\* What the sockets hold once the relay has taken the head off a queue.
LEMMA RelayReads ==
  ASSUME IInv, NEW c \in Conns, NEW types, NextForRelay(c, types), NEW T, T = Read(sock, c)
  PROVE  /\ sock[c].st \in {"open", "gone"} /\ sock[c].node \in Nodes
         /\ sock[c].st = "open" => daemon[sock[c].node].conn = c
         /\ Head(sock[c].toRelay) \in Msg /\ Head(sock[c].toRelay).type \in types
         /\ Head(sock[c].toRelay) \in Told(sock, c)
         /\ T \in [Conns -> Sockets]
         /\ \A d \in Conns : /\ T[d].st = sock[d].st /\ T[d].node = sock[d].node /\ T[d].toNode = sock[d].toNode
                             /\ Told(T, d) \subseteq Told(sock, d)
                             /\ d # c => T[d].toRelay = sock[d].toRelay
<1>1. sock[c].st \in {"open", "gone"} /\ sock[c].toRelay # <<>> /\ Head(sock[c].toRelay).type \in types
  BY DEF NextForRelay
<1>2. sock \in [Conns -> Sockets] /\ sock[c].toRelay \in Seq(Msg)
  BY Now, SocketFields
<1>3. Head(sock[c].toRelay) \in Msg
  BY <1>1, <1>2, HeadTailProperties
<1>4. sock[c].node \in Nodes /\ (sock[c].st = "open" => daemon[sock[c].node].conn = c)
  BY <1>1, Now DEF Wired
<1>5. /\ T \in [Conns -> Sockets]
      /\ \A d \in Conns : /\ T[d].st = sock[d].st /\ T[d].node = sock[d].node /\ T[d].toNode = sock[d].toNode
                          /\ d # c => T[d].toRelay = sock[d].toRelay
      /\ T[c].toRelay = Tail(sock[c].toRelay)
  BY <1>1, <1>2, ReadFields
<1>6. Head(sock[c].toRelay) \in Told(sock, c) /\ \A d \in Conns : Told(T, d) \subseteq Told(sock, d)
  BY <1>1, <1>2, <1>5, ToldCases
<1> QED BY <1>1, <1>3, <1>4, <1>5, <1>6

\* node_register: the newest socket replaces the entry, an unpaired node is told so.
LEMMA RelayRegisterStep ==
  ASSUME IInv, NEW c \in Conns, RelayRegister(c)
  PROVE  IInv'
<1> DEFINE n == sock[c].node
           S == Read(sock, c)
<1>1. /\ sock[c].st \in {"open", "gone"} /\ n \in Nodes /\ (sock[c].st = "open" => daemon[n].conn = c)
      /\ S \in [Conns -> Sockets]
      /\ \A d \in Conns : /\ S[d].st = sock[d].st /\ S[d].node = sock[d].node /\ S[d].toNode = sock[d].toNode
                          /\ Told(S, d) \subseteq Told(sock, d)
                          /\ d # c => S[d].toRelay = sock[d].toRelay
  BY RelayReads DEF RelayRegister
<1>2. PICK type \in {"registered", "rejected"} :
        /\ sock' = ToNode(S, c, M(type, None))
        /\ IF type = "rejected" THEN UNCHANGED <<registry, latest>>
           ELSE registry' = [registry EXCEPT ![n] = c] /\ latest' = [latest EXCEPT ![n] = c]
  BY DEF RelayRegister, Read
<1> DEFINE m == M(type, None)
<1>3. m \in Msg /\ m.type = type
  BY MsgFields
<1> HIDE DEF S, m
<1>4. /\ sock' \in [Conns -> Sockets]
      /\ \A d \in Conns : /\ sock'[d].st = S[d].st /\ sock'[d].node = S[d].node /\ sock'[d].toRelay = S[d].toRelay
                          /\ d # c => sock'[d].toNode = S[d].toNode
      /\ sock'[c].toNode = IF S[c].st = "open" THEN Append(S[c].toNode, m) ELSE S[c].toNode
  <2>1. sock' = ToNode(S, c, m)
    BY <1>2 DEF m
  <2>2. /\ sock' \in [Conns -> Sockets]
        /\ \A d \in Conns : /\ sock'[d].st = S[d].st /\ sock'[d].node = S[d].node
                            /\ sock'[d].toRelay = S[d].toRelay
                            /\ d # c => sock'[d].toNode = S[d].toNode
        /\ sock'[c].toNode = IF S[c].st = "open" THEN Append(S[c].toNode, m) ELSE S[c].toNode
    BY <1>1, <1>3, <2>1, ToNodeFields, SMTT(30)
  <2> QED BY <1>1, <2>2
<1>5. /\ \A d \in Conns : /\ sock'[d].st = sock[d].st /\ sock'[d].node = sock[d].node
                          /\ d # c => sock'[d].toNode = sock[d].toNode /\ sock'[d].toRelay = sock[d].toRelay
      /\ sock'[c].toNode = Append(sock[c].toNode, m) \/ sock'[c].toNode = sock[c].toNode
  BY <1>1, <1>4
<1>6. sock[c].toNode \in Seq(Msg)
  BY Now, SocketFields
<1>7. \A i \in 1 .. Len(sock'[c].toNode) :
        \/ i \in 1 .. Len(sock[c].toNode) /\ sock'[c].toNode[i] = sock[c].toNode[i]
        \/ sock'[c].toNode[i] = m
  <2>1. CASE sock'[c].toNode = Append(sock[c].toNode, m)
    BY <1>3, <1>6, <2>1, AppendElements
  <2>2. CASE sock'[c].toNode = sock[c].toNode
    BY <2>2
  <2> QED BY <1>5, <2>1, <2>2
<1>8. \A d \in Conns : Told(sock', d) \subseteq Told(sock, d)
  BY <1>1, <1>4, ToldCases
<1>9. Channels(sock') /\ Asked(sock') \subseteq Asked(sock)
  <2> DEFINE k == [d \in Conns |-> 0]
  <2>1. k \in [Conns -> {0, 1}]
    OBVIOUS
  <2>2. ASSUME NEW d \in Conns, NEW i \in 1 .. Len(sock'[d].toNode), sock'[d].toNode[i].type = "request"
        PROVE  i + 0 \in 1 .. Len(sock[d].toNode) /\ sock'[d].toNode[i] = sock[d].toNode[i + 0]
    <3>1. i \in 1 .. Len(sock[d].toNode) /\ sock'[d].toNode[i] = sock[d].toNode[i]
      BY <1>3, <1>5, <1>7, <2>2
    <3> QED BY <3>1
  <2>3. Fewer(sock, sock', k)
    BY <2>2 DEF Fewer
  <2>4. FewerTold(sock, sock')
    BY <1>8 DEF FewerTold
  <2> QED BY <2>1, <2>3, <2>4, <1>4, Now, FewerChannels
<1>10. Requests' /\ Verdicted' /\ Owned'
  BY <1>5, <1>8, <1>9, QuietChannels DEF RelayRegister
<1>11. /\ registry' \in [Nodes -> Conns \cup {None}] /\ latest' \in [Nodes -> Conns \cup {None}]
       /\ \A k \in Nodes : k # n => registry'[k] = registry[k] /\ latest'[k] = latest[k]
       /\ type = "registered" => registry'[n] = c /\ latest'[n] = c
       /\ type # "registered" => registry'[n] = registry[n] /\ latest'[n] = latest[n]
  BY <1>1, <1>2 DEF IInv, TypeOK
<1>12. TypeOK'
  BY <1>4, <1>11 DEF IInv, TypeOK, RelayRegister
<1>13. Wired'
  <2>1. \A k \in Nodes : (registry[k] # None => registry[k] \in Conns) /\ (daemon[k].conn # None => daemon[k].conn \in Conns)
    BY Now DEF IInv, TypeOK
  <2>2. daemon' = daemon
    BY DEF RelayRegister
  <2> HIDE DEF n
  <2>3. sock[c].node = n
    BY DEF n
  <2>4. \A k \in Nodes :
          /\ daemon'[k].conn # None <=> daemon'[k].st \in {"open", "registered"}
          /\ daemon'[k].conn # None => sock'[daemon'[k].conn].st = "open" /\ sock'[daemon'[k].conn].node = k
          /\ registry'[k] # None => sock'[registry'[k]].st # "new" /\ sock'[registry'[k]].node = k
          /\ daemon'[k].st = "registered" /\ latest'[k] = daemon'[k].conn => registry'[k] = daemon'[k].conn
    BY <1>1, <1>5, <1>11, <2>1, <2>2, <2>3, Now DEF Wired
  <2>5. ASSUME NEW d \in Conns, sock'[d].st = "open", NEW i \in 1 .. Len(sock'[d].toNode),
               sock'[d].toNode[i].type = "registered", latest'[sock'[d].node] = d
        PROVE  registry'[sock'[d].node] = d
    <3>0. sock[d].st = "open" /\ sock[d].node \in Nodes /\ sock'[d].node = sock[d].node
      BY <1>5, <2>5, Now DEF Wired
    <3>1. CASE type = "registered" /\ sock[d].node = n
      <4>1. latest'[n] = c /\ registry'[n] = c
        BY <1>11, <3>1
      <4> QED BY <2>5, <3>0, <3>1, <4>1
    <3>2. CASE ~(type = "registered" /\ sock[d].node = n)
      <4>1. registry'[sock[d].node] = registry[sock[d].node] /\ latest'[sock[d].node] = latest[sock[d].node]
        BY <1>11, <3>0, <3>2
      <4>2. \E j \in 1 .. Len(sock[d].toNode) : sock[d].toNode[j].type = "registered"
        <5>1. CASE d # c
          BY <1>5, <2>5, <5>1
        <5>2. CASE d = c
          <6>1. type # "registered"
            BY <2>3, <3>2, <5>2
          <6> QED BY <1>3, <1>7, <2>5, <5>2, <6>1
        <5> QED BY <5>1, <5>2
      <4>3. latest[sock[d].node] = d
        BY <2>5, <3>0, <4>1
      <4>4. registry[sock[d].node] = d
        BY <3>0, <4>2, <4>3, Now, SMTT(30) DEF Wired
      <4> QED BY <3>0, <4>1, <4>4
    <3> QED BY <3>1, <3>2
  <2>6. \A d \in Conns :
          /\ sock'[d].st # "new" => sock'[d].node \in Nodes
          /\ sock'[d].st = "new" => sock'[d].toNode = <<>> /\ sock'[d].toRelay = <<>>
          /\ sock'[d].st = "open" => daemon'[sock'[d].node].conn = d
    BY <1>1, <1>5, <2>2, Now DEF Wired
  <2> QED BY <2>4, <2>5, <2>6 DEF Wired
<1> QED BY <1>9, <1>10, <1>12, <1>13 DEF IInv

\* A closing socket deregisters the node only when it is the registered one.
LEMMA RelayNodeCloseStep ==
  ASSUME IInv, NEW c \in Conns, RelayNodeClose(c)
  PROVE  IInv'
<1> DEFINE n == sock[c].node
<1>1. sock[c].st = "gone" /\ n \in Nodes /\ <<>> \in Seq(Msg)
  BY Now, EmptySeq DEF Wired, RelayNodeClose
<1>2. /\ sock' \in [Conns -> Sockets] /\ sock'[c].st = "closed" /\ sock'[c].toRelay = <<>> /\ sock'[c].toNode = <<>>
      /\ sock'[c].node = n /\ \A d \in Conns : d # c => sock'[d] = sock[d]
  BY <1>1, Now DEF Sockets, RelayNodeClose
<1>3. /\ registry' \in [Nodes -> Conns \cup {None}] /\ \A k \in Nodes : k # n => registry'[k] = registry[k]
      /\ registry'[n] = IF registry[n] = c THEN None ELSE registry[n]
  BY <1>1 DEF IInv, TypeOK, RelayNodeClose
<1>4. TypeOK'
  BY <1>2, <1>3 DEF IInv, TypeOK, RelayNodeClose
<1>5. Channels(sock') /\ Requests' /\ Verdicted' /\ Owned'
  BY <1>2, SameQueues DEF RelayNodeClose
<1>6. Wired'
  <2>1. \A k \in Nodes : (registry[k] # None => registry[k] \in Conns) /\ (daemon[k].conn # None => daemon[k].conn \in Conns)
    BY Now DEF IInv, TypeOK
  <2>2. daemon' = daemon /\ latest' = latest
    BY DEF RelayNodeClose
  <2>3. \A k \in Nodes : registry'[k] # None => registry'[k] = registry[k] /\ registry[k] # c
    BY <1>1, <1>3, <2>1, Now DEF Wired
  <2>4. \A k \in Nodes : daemon[k].conn # c
    BY <1>1, <2>1, RelayAssumption, Now DEF Wired
  <2>5. \A d \in Conns : d # c => \A k \in Nodes : registry[k] = d => registry'[k] = d
    BY <1>3
  <2> HIDE DEF n
  <2>6. \A k \in Nodes :
          /\ daemon'[k].conn # None <=> daemon'[k].st \in {"open", "registered"}
          /\ daemon'[k].conn # None => sock'[daemon'[k].conn].st = "open" /\ sock'[daemon'[k].conn].node = k
          /\ registry'[k] # None => sock'[registry'[k]].st # "new" /\ sock'[registry'[k]].node = k
          /\ daemon'[k].st = "registered" /\ latest'[k] = daemon'[k].conn => registry'[k] = daemon'[k].conn
    BY <1>2, <2>1, <2>2, <2>3, <2>4, <2>5, Now DEF Wired
  <2>7. \A d \in Conns :
          /\ sock'[d].st # "new" => sock'[d].node \in Nodes
          /\ sock'[d].st = "new" => sock'[d].toNode = <<>> /\ sock'[d].toRelay = <<>>
          /\ sock'[d].st = "open" =>
               /\ daemon'[sock'[d].node].conn = d
               /\ \A i \in 1 .. Len(sock'[d].toNode) :
                    sock'[d].toNode[i].type = "registered" /\ latest'[sock'[d].node] = d => registry'[sock'[d].node] = d
    BY <1>1, <1>2, <2>2, <2>5, Now DEF Wired
  <2> QED BY <2>6, <2>7 DEF Wired
<1> QED BY <1>4, <1>5, <1>6 DEF IInv

-----------------------------------------------------------------------------
(* Requests at the node *)

\* The request at the head of a node's queue: it was routed, not carried out, and has no answer.
LEMMA Served ==
  ASSUME IInv, NEW n \in Nodes, NextForNode(n, "request"), NEW q, q = Req(n)
  PROVE  /\ q \in Reqs /\ q \in Asked(sock) /\ Shape(q) /\ Stage(q) /\ Unserved(q)
         /\ cli[q].st \notin {"idle", "sent"}
<1> DEFINE c == daemon[n].conn
<1>1. /\ c \in Conns /\ sock[c].toNode # <<>> /\ Head(sock[c].toNode).type = "request"
      /\ Head(sock[c].toNode) = sock[c].toNode[1] /\ 1 \in 1 .. Len(sock[c].toNode)
  BY Taken
<1>2. q = Head(sock[c].toNode).req
  BY DEF Req
<1> HIDE DEF c
<1>3. q \in Reqs
  BY <1>1, <1>2, Now DEF Channels
<1>4. sock[c].toNode \in Seq(Msg)
  BY <1>1, Now, SocketFields
<1>5. sock[c].toNode[1] \in Msg
  BY <1>1, <1>4, ElementOfSeq
<1>6. sock[c].toNode[1] = M("request", q)
  BY <1>1, <1>2, <1>5, RequestMsg
<1>7. q \in Asked(sock)
  BY <1>1, <1>3, <1>6 DEF Asked
<1>8. Shape(q) /\ Stage(q) /\ Unserved(q)
  BY <1>3, <1>7, Now DEF Requests
<1> QED BY <1>3, <1>7, <1>8 DEF Stage

\* An ack takes the request off and puts the verdict under way on the same socket.
LEMMA Acked ==
  ASSUME IInv, NEW n \in Nodes, NextForNode(n, "request"), NEW v \in Verdicts, Ack(n, v), NEW q, q = Req(n),
         UNCHANGED <<daemon, registry, latest>>
  PROVE  /\ q \notin Asked(sock') /\ Channels(sock') /\ Asked(sock') \subseteq Asked(sock)
         /\ sock' \in [Conns -> Sockets] /\ Wired'
         /\ \A d \in Conns : /\ sock'[d].node = sock[d].node
                             /\ \A m \in Told(sock', d) : m \in Told(sock, d) \/ (m = M(v, q) /\ sock[d].node = n)
         /\ acted' \in [Reqs -> Nat] /\ \A p \in Reqs : acted'[p] = IF p = q /\ v = "ok" THEN acted[p] + 1 ELSE acted[p]
<1> DEFINE c == daemon[n].conn
           T == Popped(sock, c)
           m == M(v, q)
<1>0. q \in Reqs
  BY Served
<1>1. m \in Msg /\ m.type = v /\ m.req = q
  BY <1>0, MsgFields
<1>2. sock' = ToRelay(T, c, m)
  BY DEF Ack, Popped
<1>3. /\ c \in Conns /\ sock[c].st = "open" /\ sock[c].node = n
      /\ sock[c].toNode # <<>> /\ Head(sock[c].toNode).type = "request"
      /\ T \in [Conns -> Sockets]
      /\ \A d \in Conns : /\ T[d].st = sock[d].st /\ T[d].node = sock[d].node /\ T[d].toRelay = sock[d].toRelay
                          /\ d # c => T[d].toNode = sock[d].toNode
      /\ T[c].toNode = Tail(sock[c].toNode)
      /\ \A i \in 1 .. Len(T[c].toNode) : i + 1 \in 1 .. Len(sock[c].toNode) /\ T[c].toNode[i] = sock[c].toNode[i + 1]
  BY Taken
<1>4. q = Head(sock[c].toNode).req
  BY DEF Req
<1> HIDE DEF c, T, m
<1>5. /\ sock' \in [Conns -> Sockets]
      /\ \A d \in Conns : /\ sock'[d].st = T[d].st /\ sock'[d].node = T[d].node /\ sock'[d].toNode = T[d].toNode
                          /\ d # c => sock'[d].toRelay = T[d].toRelay
      /\ sock'[c].toRelay = IF T[c].st = "open" THEN Append(T[c].toRelay, m) ELSE T[c].toRelay
  BY <1>1, <1>2, <1>3, ToRelayFields, SMTT(30)
<1>6. /\ \A d \in Conns : /\ sock'[d].st = sock[d].st /\ sock'[d].node = sock[d].node
                          /\ d # c => sock'[d].toRelay = sock[d].toRelay /\ sock'[d].toNode = sock[d].toNode
      /\ sock'[c].toRelay = Append(sock[c].toRelay, m) /\ sock'[c].toNode = Tail(sock[c].toNode)
  BY <1>3, <1>5
<1>7. /\ \A d \in Conns : d # c => Told(sock', d) = Told(sock, d)
      /\ Told(sock', c) \subseteq Told(sock, c) \cup {m}
  BY <1>1, <1>3, <1>5, <1>6, Now, ToldCases, ZenonT(40)
<1>8. FewerTold(sock, sock')
  BY <1>0, <1>1, <1>7 DEF FewerTold
<1>9. q \notin Asked(sock') /\ Channels(sock') /\ Asked(sock') \subseteq Asked(sock)
  <2>1. sock \in [Conns -> Sockets] /\ Channels(sock)
    BY Now
  <2>2. sock'[c].toNode = Tail(sock[c].toNode) /\ \A d \in Conns : d # c => sock'[d].toNode = sock[d].toNode
    BY <1>6
  <2>3. c \in Conns /\ sock[c].toNode # <<>> /\ Head(sock[c].toNode).type = "request" /\ sock' \in [Conns -> Sockets]
    BY <1>3, <1>5
  <2> QED BY <1>4, <1>8, <2>1, <2>2, <2>3, HeadTaken
<1>10. \A d \in Conns : /\ sock'[d].node = sock[d].node
                        /\ \A x \in Told(sock', d) : x \in Told(sock, d) \/ (x = M(v, q) /\ sock[d].node = n)
  BY <1>3, <1>6, <1>7 DEF m
<1>11. Wired'
  <2>1. \A d \in Conns : \A i \in 1 .. Len(sock'[d].toNode) : sock'[d].toNode[i].type = "registered" =>
          \E j \in 1 .. Len(sock[d].toNode) : sock[d].toNode[j].type = "registered"
    <3> SUFFICES ASSUME NEW d \in Conns, NEW i \in 1 .. Len(sock'[d].toNode), sock'[d].toNode[i].type = "registered"
                 PROVE  \E j \in 1 .. Len(sock[d].toNode) : sock[d].toNode[j].type = "registered"
      OBVIOUS
    <3>1. CASE d = c
      <4>1. i + 1 \in 1 .. Len(sock[d].toNode) /\ sock[d].toNode[i + 1].type = "registered"
        BY <1>3, <1>5, <3>1, ZenonT(40)
      <4> QED BY <4>1
    <3>2. CASE d # c
      BY <1>6, <3>2
    <3> QED BY <3>1, <3>2
  <2>2. \A d \in Conns : sock[d].st = "new" => d # c /\ sock[d].toNode = <<>> /\ sock[d].toRelay = <<>>
    BY <1>3, Now DEF Wired
  <2> QED BY <1>6, <2>1, <2>2, WiredFrame
<1>12. acted' \in [Reqs -> Nat] /\ \A p \in Reqs : acted'[p] = IF p = q /\ v = "ok" THEN acted[p] + 1 ELSE acted[p]
  <2>1. acted' = IF v = "ok" THEN [acted EXCEPT ![q] = @ + 1] ELSE acted
    BY DEF Ack
  <2> QED BY <1>0, <2>1 DEF IInv, TypeOK
<1> QED BY <1>5, <1>9, <1>10, <1>11, <1>12

\* A verdict that says what happened keeps everything true.
LEMMA ReplyStep ==
  ASSUME IInv, NEW n \in Nodes, NextForNode(n, "request"), NEW v \in Verdicts, Ack(n, v), NEW q, q = Req(n),
         UNCHANGED <<daemon, registry, latest, owner, pending, paired, cli, restarts>>,
         runs' \in [Starts -> Runs],
         \A s \in Starts : (Ended(s) => Ended(s)') /\ (s # q => runs'[s].node = runs[s].node),
         v = "ok" /\ q \in Starts => runs'[q].node = n,
         v = "ok" /\ cli[q].kind \in Stops => runs'[cli[q].run].node # None /\ ~runs'[cli[q].run].live
  PROVE  IInv'
<1>1. /\ q \notin Asked(sock') /\ Channels(sock') /\ Asked(sock') \subseteq Asked(sock)
      /\ sock' \in [Conns -> Sockets] /\ Wired'
      /\ \A d \in Conns : /\ sock'[d].node = sock[d].node
                          /\ \A m \in Told(sock', d) : m \in Told(sock, d) \/ (m = M(v, q) /\ sock[d].node = n)
      /\ acted' \in [Reqs -> Nat] /\ \A p \in Reqs : acted'[p] = IF p = q /\ v = "ok" THEN acted[p] + 1 ELSE acted[p]
  BY Acked
<1>2. /\ q \in Reqs /\ q \in Asked(sock) /\ Shape(q) /\ Stage(q) /\ Unserved(q)
      /\ cli[q].st \notin {"idle", "sent"}
  BY Served
<1>3. TypeOK'
  BY <1>1 DEF IInv, TypeOK
<1>4. acted[q] = 0 /\ acted'[q] = IF v = "ok" THEN 1 ELSE 0
  BY <1>1, <1>2 DEF Unserved
<1>5. Requests'
  <2>1. ASSUME NEW p \in Reqs, p # q
        PROVE  Shape(p)' /\ Stage(p)' /\ AnswerTrue(p)' /\ (p \in Asked(sock') => Unserved(p)')
    <3>1. cli'[p] = cli[p] /\ acted'[p] = acted[p] /\ pending' = pending /\ paired' = paired /\ restarts' = restarts
          /\ owner' = owner
      BY <1>1, <2>1
    <3>2. (p \in Asked(sock') => p \in Asked(sock)) /\ (p \in Starts => runs'[p].node = runs[p].node)
      BY <1>1, <2>1
    <3> QED BY <3>1, <3>2, RequestKept
  <2>2. Shape(q)' /\ Stage(q)' /\ AnswerTrue(q)' /\ q \notin Asked(sock')
    <3>1. Shape(q)'
      BY <1>2 DEF Shape
    <3>2. Stage(q)'
      BY <1>2, <1>4 DEF Stage
    <3>3. AnswerTrue(q)'
      BY <1>2 DEF Unserved, AnswerTrue
    <3> QED BY <1>1, <3>1, <3>2, <3>3
  <2> QED BY <2>1, <2>2 DEF Requests
<1>6. Verdicted'
  <2>1. ASSUME NEW d \in Conns, NEW m \in Told(sock', d), m.type \in Verdicts
        PROVE  VerdictTrue(m.req, m.type, sock[d].node)'
    <3>1. CASE m \in Told(sock, d)
      <4>1. VerdictTrue(m.req, m.type, sock[d].node) /\ m.req \in Reqs
        BY <2>1, <3>1 DEF IInv, Verdicted, Channels
      <4>2. m.req # q /\ cli[m.req].st \notin {"idle", "sent"} /\ m.req \notin Asked(sock')
        BY <1>1, <1>2, <4>1 DEF VerdictTrue
      <4>3. acted'[m.req] = acted[m.req] /\ (m.req \in Starts => runs'[m.req].node = runs[m.req].node) /\ sock'[d].node = sock[d].node
        BY <1>1, <4>1, <4>2
      <4> QED BY <4>1, <4>2, <4>3, VerdictKept DEF VerdictTrue
    <3>2. CASE m = M(v, q) /\ sock[d].node = n
      <4>0. M(v, q).req = q /\ M(v, q).type = v
        BY DEF M
      <4>1. m.req = q /\ m.type = v /\ sock'[d].node = n
        BY <1>1, <3>2, <4>0
      <4>2. VerdictTrue(q, v, n)'
        BY <1>1, <1>2, <1>4 DEF VerdictTrue, Unserved, Ended
      <4> QED BY <4>1, <4>2 DEF VerdictTrue
    <3> QED BY <1>1, <3>1, <3>2
  <2> QED BY <2>1 DEF Verdicted
<1>7. Owned'
  BY <1>2 DEF IInv, Owned, Unserved
<1> QED BY <1>1, <1>3, <1>5, <1>6, <1>7 DEF IInv

\* Started and Stopped change one run, and never wake an ended one.
LEMMA StartedRuns ==
  ASSUME IInv, NEW n \in Nodes, NEW q \in Starts, q = Req(n), runs[q].node = None
  PROVE  /\ Started(n) \in [Starts -> Runs] /\ Started(n)[q].node = n
         /\ \A s \in Starts : s # q => Started(n)[s] = runs[s]
BY DEF IInv, TypeOK, Runs, Started

\* The same for a stop.
LEMMA StoppedRuns ==
  ASSUME IInv, NEW n \in Nodes, NEW q, q = Req(n), cli[q].run \in Starts
  PROVE  /\ Stopped(n) \in [Starts -> Runs] /\ \A s \in Starts : Stopped(n)[s].node = runs[s].node
         /\ \A s \in Starts : Stopped(n)[s].live => runs[s].live
         /\ ~Stopped(n)[cli[q].run].live
BY DEF IInv, TypeOK, Runs, Stopped

\* The handlers of a node leave these alone.
Apart == <<daemon, registry, latest, owner, pending, paired, cli, restarts>>

\* A handler that leaves the runs alone: a verdict of "ok" is about neither a start nor a stop.
LEMMA PlainReply ==
  ASSUME IInv, NEW n \in Nodes, NEW kinds, Handling(n, kinds), NEW v \in Verdicts, Ack(n, v),
         UNCHANGED Apart, UNCHANGED runs, v = "ok" => kinds \cap (StartKinds \cup Stops) = {}
  PROVE  IInv'
<1> DEFINE q == Req(n)
<1>1. NextForNode(n, "request") /\ cli[q].kind \in kinds
  BY DEF Handling, Req
<1>2. q \in Reqs /\ Shape(q) /\ Unserved(q)
  BY <1>1, Served
<1>3. v = "ok" => q \notin Starts /\ cli[q].kind \notin Stops
  BY <1>1, <1>2 DEF Shape, Unserved
<1>4. runs' \in [Starts -> Runs]
  BY DEF IInv, TypeOK
<1>5. \A s \in Starts : (Ended(s) => Ended(s)') /\ (s # q => runs'[s].node = runs[s].node)
  BY DEF Ended
<1> HIDE DEF q
<1>6. q = Req(n)
  BY DEF q
<1> QED BY <1>1, <1>3, <1>4, <1>5, <1>6, ReplyStep DEF Apart

\* A handler that started the run.
LEMMA StartReply ==
  ASSUME IInv, NEW n \in Nodes, Handling(n, StartKinds), NEW v \in Verdicts, Ack(n, v),
         UNCHANGED Apart, runs' = Started(n)
  PROVE  IInv'
<1> DEFINE q == Req(n)
<1>1. NextForNode(n, "request") /\ cli[q].kind \in StartKinds
  BY DEF Handling, Req
<1>2. q \in Reqs /\ Shape(q) /\ Unserved(q)
  BY <1>1, Served
<1>3. q \in Starts /\ runs[q].node = None /\ cli[q].kind \notin Stops
  BY <1>1, <1>2 DEF Shape, Unserved, Reqs, StartKinds, Stops
<1> HIDE DEF q
<1>4. q = Req(n)
  BY DEF q
<1>5. /\ runs' \in [Starts -> Runs] /\ runs'[q].node = n
      /\ \A s \in Starts : s # q => runs'[s] = runs[s]
  BY <1>3, <1>4, StartedRuns
<1>6. \A s \in Starts : (Ended(s) => Ended(s)') /\ (s # q => runs'[s].node = runs[s].node)
  BY <1>3, <1>5 DEF Ended
<1> QED BY <1>1, <1>3, <1>4, <1>5, <1>6, ReplyStep DEF Apart

\* A handler that stopped the run it was asked to stop.
LEMMA StopReply ==
  ASSUME IInv, NEW n \in Nodes, Handling(n, Stops), NEW v \in Verdicts, Ack(n, v),
         UNCHANGED Apart, RunHere(n, Req(n)), runs' = Stopped(n)
  PROVE  IInv'
<1> DEFINE q == Req(n)
<1>1. NextForNode(n, "request") /\ cli[q].kind \in Stops /\ runs[cli[q].run].node = n
  BY DEF Handling, Req, RunHere
<1>2. q \in Reqs /\ Shape(q) /\ Unserved(q)
  BY <1>1, Served
<1>3. q \notin Starts /\ cli[q].run \in Starts
  BY <1>1, <1>2 DEF Shape, Reqs, StartKinds, RunKinds, Stops
<1> HIDE DEF q
<1>4. q = Req(n)
  BY DEF q
<1>5. /\ runs' \in [Starts -> Runs] /\ \A s \in Starts : runs'[s].node = runs[s].node
      /\ \A s \in Starts : runs'[s].live => runs[s].live
      /\ ~runs'[cli[q].run].live
  BY <1>3, <1>4, StoppedRuns
<1>6. \A s \in Starts : (Ended(s) => Ended(s)') /\ (s # q => runs'[s].node = runs[s].node)
  BY <1>5 DEF Ended
<1>7. runs'[cli[q].run].node # None
  BY <1>1, <1>3, <1>5, RelayAssumption
<1> QED BY <1>1, <1>3, <1>4, <1>5, <1>6, <1>7, ReplyStep DEF Apart

\* The handlers of starts and stops.
LEMMA RunHandlerStep ==
  ASSUME IInv, NEW n \in Nodes,
         \/ HandleRunStart(n) \/ RunStartThrows(n) \/ HandleEncryptedRunStart(n)
         \/ HandleRunStop(n) \/ RunStopThrows(n) \/ HandleEncryptedRunStop(n)
  PROVE  IInv'
<1>1. "ok" \in Verdicts /\ "refused" \in Verdicts /\ "failed" \in Verdicts
  BY DEF Verdicts
<1>2. CASE HandleRunStart(n)
  <2>1. Handling(n, StartKinds) /\ UNCHANGED Apart
    BY <1>2 DEF HandleRunStart, Apart
  <2>2. \/ Ack(n, "ok") /\ runs' = Started(n)
        \/ Ack(n, "refused") /\ UNCHANGED runs
    BY <1>2 DEF HandleRunStart
  <2> QED BY <1>1, <2>1, <2>2, StartReply, PlainReply
<1>3. CASE RunStartThrows(n)
  <2>1. Handling(n, StartKinds) /\ Ack(n, "failed") /\ UNCHANGED Apart /\ (UNCHANGED runs \/ runs' = Started(n))
    BY <1>3 DEF RunStartThrows, Apart
  <2> QED BY <1>1, <2>1, StartReply, PlainReply
<1>4. CASE HandleEncryptedRunStart(n)
  <2>1. Handling(n, {"encrypted_run_start"}) /\ Ack(n, "refused") /\ UNCHANGED Apart /\ UNCHANGED runs
    BY <1>4 DEF HandleEncryptedRunStart, Apart
  <2> QED BY <1>1, <2>1, PlainReply
<1>5. CASE HandleRunStop(n)
  <2>1. Handling(n, Stops) /\ UNCHANGED Apart
    BY <1>5 DEF HandleRunStop, Apart, Stops
  <2>2. \/ RunHere(n, Req(n)) /\ Ack(n, "ok") /\ runs' = Stopped(n)
        \/ Ack(n, "refused") /\ UNCHANGED runs
    BY <1>5 DEF HandleRunStop
  <2> QED BY <1>1, <2>1, <2>2, StopReply, PlainReply
<1>6. CASE RunStopThrows(n)
  <2>1. Handling(n, Stops) /\ Ack(n, "failed") /\ UNCHANGED Apart
        /\ (UNCHANGED runs \/ (RunHere(n, Req(n)) /\ runs' = Stopped(n)))
    BY <1>6 DEF RunStopThrows, Apart, Stops
  <2> QED BY <1>1, <2>1, StopReply, PlainReply
<1>7. CASE HandleEncryptedRunStop(n)
  <2>1. Handling(n, {"encrypted_run_stop"}) /\ Ack(n, "refused") /\ UNCHANGED Apart /\ UNCHANGED runs
    BY <1>7 DEF HandleEncryptedRunStop, Apart
  <2> QED BY <1>1, <2>1, PlainReply
<1> QED BY <1>2, <1>3, <1>4, <1>5, <1>6, <1>7

\* The handlers that leave the runs alone.
LEMMA OtherHandlerStep ==
  ASSUME IInv, NEW n \in Nodes,
         \/ RunStatusThrows(n) \/ HandleRunStatus(n) \/ HandleRunResult(n)
         \/ HandleApproval(n) \/ HandleLease(n) \/ HandleTerminalSession(n)
  PROVE  IInv'
<1>1. "ok" \in Verdicts /\ "refused" \in Verdicts /\ "failed" \in Verdicts
  BY DEF Verdicts
<1> DEFINE Plain(kinds) == \E v \in Verdicts : Handling(n, kinds) /\ Ack(n, v) /\ UNCHANGED Apart /\ UNCHANGED runs
<1>2. ASSUME NEW kinds, Plain(kinds), kinds \cap (StartKinds \cup Stops) = {}
      PROVE  IInv'
  BY <1>2, PlainReply
<1>3. CASE RunStatusThrows(n)
  <2>1. Plain({"run_status"})
    BY <1>1, <1>3 DEF RunStatusThrows, Apart
  <2> HIDE DEF Plain
  <2> QED BY <1>2, <2>1 DEF StartKinds, Stops
<1>4. CASE HandleRunStatus(n)
  <2>1. Plain({"run_status"})
    BY <1>1, <1>4 DEF HandleRunStatus, ReadRun, Apart
  <2> HIDE DEF Plain
  <2> QED BY <1>2, <2>1 DEF StartKinds, Stops
<1>5. CASE HandleRunResult(n)
  <2>1. Plain({"run_result"})
    BY <1>1, <1>5 DEF HandleRunResult, ReadRun, Apart
  <2> HIDE DEF Plain
  <2> QED BY <1>2, <2>1 DEF StartKinds, Stops
<1>6. CASE HandleLease(n)
  <2>1. Plain({"workspace_lease", "workspace_revision"})
    BY <1>1, <1>6 DEF HandleLease, Apart
  <2> HIDE DEF Plain
  <2> QED BY <1>2, <2>1 DEF StartKinds, Stops
<1>7. CASE HandleTerminalSession(n)
  <2>1. Plain({"terminal_list", "terminal_kill"})
    BY <1>1, <1>7 DEF HandleTerminalSession, Apart
  <2> HIDE DEF Plain
  <2> QED BY <1>2, <2>1 DEF StartKinds, Stops
<1>8. CASE HandleApproval(n)
  <2>1. CASE Ack(n, "ok")
    <3>1. Plain({"approval_response"})
      BY <1>1, <1>8, <2>1 DEF HandleApproval, Apart
    <3> HIDE DEF Plain
    <3> QED BY <1>2, <3>1 DEF StartKinds, Stops
  <2>2. CASE Take(n) /\ UNCHANGED acted
    <3>1. NextForNode(n, "request") /\ sock' = Popped(sock, daemon[n].conn) /\ UNCHANGED Apart /\ UNCHANGED runs
      BY <1>8, <2>2 DEF HandleApproval, Handling, Take, Popped, Apart
    <3>2. Channels(sock') /\ Asked(sock') \subseteq Asked(sock) /\ \A c \in Conns : Told(sock', c) = Told(sock, c)
      BY <2>2, <3>1, TakenQuietly
    <3>3. PICK c \in Conns :
            /\ sock[c].st = "open" /\ sock' \in [Conns -> Sockets]
            /\ \A d \in Conns : /\ sock'[d].st = sock[d].st /\ sock'[d].node = sock[d].node /\ sock'[d].toRelay = sock[d].toRelay
                                /\ d # c => sock'[d].toNode = sock[d].toNode
            /\ \A i \in 1 .. Len(sock'[c].toNode) : i + 1 \in 1 .. Len(sock[c].toNode) /\ sock'[c].toNode[i] = sock[c].toNode[i + 1]
      <4> HIDE DEF Plain
      <4> QED BY <3>1, TakenFrom
    <3>4. Requests' /\ Verdicted' /\ Owned'
      BY <2>2, <3>1, <3>2, <3>3, QuietChannels DEF Apart
    <3>5. \A d \in Conns : \A i \in 1 .. Len(sock'[d].toNode) : sock'[d].toNode[i].type = "registered" =>
            \E j \in 1 .. Len(sock[d].toNode) : sock[d].toNode[j].type = "registered"
      BY <3>3
    <3>6. \A d \in Conns : sock[d].st = "new" => sock'[d].toNode = <<>> /\ sock'[d].toRelay = <<>>
      BY <3>3, Now DEF Wired
    <3>7. Wired'
      BY <3>1, <3>3, <3>5, <3>6, WiredFrame DEF Apart
    <3>8. TypeOK'
      BY <2>2, <3>1, <3>3 DEF IInv, TypeOK, Apart
    <3> QED BY <3>2, <3>4, <3>7, <3>8 DEF IInv
  <2> QED BY <1>8, <2>1, <2>2 DEF HandleApproval
<1> QED BY <1>3, <1>4, <1>5, <1>6, <1>7, <1>8

-----------------------------------------------------------------------------
(* Requests at the relay and at the clients *)

\* Verdicts under way stay true when a step leaves what they are about alone.
LEMMA VerdictsKept ==
  ASSUME IInv,
         \A c \in Conns : Told(sock', c) \subseteq Told(sock, c) /\ sock'[c].node = sock[c].node,
         \A s \in Starts : Ended(s) => Ended(s)',
         \A p \in Reqs : cli[p].st \notin {"idle", "sent"} =>
           /\ acted'[p] = acted[p] /\ cli'[p].st \notin {"idle", "sent"}
           /\ cli'[p].kind = cli[p].kind /\ cli'[p].run = cli[p].run
           /\ p \notin Asked(sock) => p \notin Asked(sock')
           /\ p \in Starts => runs'[p].node = runs[p].node
  PROVE  Verdicted'
<1>1. ASSUME NEW c \in Conns, NEW m \in Told(sock', c), m.type \in Verdicts
      PROVE  VerdictTrue(m.req, m.type, sock[c].node)'
  <2>1. m \in Told(sock, c) /\ sock'[c].node = sock[c].node
    OBVIOUS
  <2>2. VerdictTrue(m.req, m.type, sock[c].node) /\ m.req \in Reqs
    BY <1>1, <2>1 DEF IInv, Verdicted, Channels
  <2>3. cli[m.req].st \notin {"idle", "sent"} /\ m.req \notin Asked(sock)
    BY <2>2 DEF VerdictTrue
  <2> QED BY <2>1, <2>2, <2>3, VerdictKept DEF VerdictTrue
<1> QED BY <1>1 DEF Verdicted

\* Steps that leave the connections alone.
LEMMA SameSockets ==
  ASSUME IInv, UNCHANGED <<sock, daemon, registry, latest>>
  PROVE  /\ Wired' /\ Channels(sock') /\ Asked(sock') = Asked(sock)
         /\ \A c \in Conns : Told(sock', c) \subseteq Told(sock, c) /\ sock'[c].node = sock[c].node
BY Now DEF Wired

\* Changing the stage and the answer of one request.
LEMMA Settled ==
  ASSUME IInv, NEW q \in Reqs, NEW st \in {"routed", "settled", "closed"}, NEW a \in Answers,
         cli' = [cli EXCEPT ![q].st = st, ![q].answer = a]
  PROVE  /\ cli' \in [Reqs -> Clients] /\ \A p \in Reqs : p # q => cli'[p] = cli[p]
         /\ cli'[q].st = st /\ cli'[q].answer = a
         /\ cli'[q].kind = cli[q].kind /\ cli'[q].run = cli[q].run /\ cli'[q].node = cli[q].node
BY Now, ZenonT(40) DEF Clients

\* Changing the stage alone.
LEMMA Staged ==
  ASSUME IInv, NEW q \in Reqs, NEW st \in {"routed", "settled", "closed"}, cli' = [cli EXCEPT ![q].st = st]
  PROVE  /\ cli' \in [Reqs -> Clients] /\ \A p \in Reqs : p # q => cli'[p] = cli[p]
         /\ cli'[q].st = st /\ cli'[q].answer = cli[q].answer
         /\ cli'[q].kind = cli[q].kind /\ cli'[q].run = cli[q].run /\ cli'[q].node = cli[q].node
BY Now DEF Clients

\* A route is a connection.
LEMMA RouteType ==
  ASSUME IInv, NEW q \in Reqs, cli[q].kind \notin {"node_pair", "none"}, Route(q) # None
  PROVE  Route(q) \in Conns
<1>1. Shape(q) /\ cli[q] \in Clients
  BY Now DEF Requests
<1>2. cli[q].kind \in RunKinds \cup NodeKinds \cup StartKinds /\ cli[q].run \in Starts \cup {None}
  BY <1>1 DEF Clients, Kinds
<1>3. cli[q].run = None => cli[q].node \in Nodes
  BY <1>1, <1>2, RelayAssumption DEF Shape
<1>4. registry \in [Nodes -> Conns \cup {None}] /\ owner \in [Starts -> Nodes \cup {None}]
  BY DEF IInv, TypeOK
<1> QED BY <1>2, <1>3, <1>4 DEF Route

\* A request is routed once, or answered that it has no route.
LEMMA RelayRequestStep ==
  ASSUME IInv, NEW q \in Reqs, cli[q].kind \notin {"node_pair", "none"}, RelayRequest(q)
  PROVE  IInv'
<1>1. /\ cli[q].st = "sent" /\ Shape(q) /\ Stage(q) /\ acted[q] = 0 /\ q \notin Asked(sock) /\ q \notin pending
      /\ cli[q].answer = "none"
  BY Now DEF Requests, Stage, RelayRequest
<1>2. UNCHANGED <<daemon, registry, latest, owner, paired, runs, acted, restarts>>
  BY DEF RelayRequest
<1>3. \A s \in Starts : Ended(s) => Ended(s)'
  BY <1>2 DEF Ended
<1>4. ASSUME cli' \in [Reqs -> Clients], \A p \in Reqs : p # q => cli'[p] = cli[p],
             cli'[q].kind = cli[q].kind, cli'[q].run = cli[q].run, cli'[q].node = cli[q].node,
             pending' \subseteq pending \cup {q}, Asked(sock') \subseteq Asked(sock) \cup {q},
             \/ cli'[q].st = "settled" /\ cli'[q].answer = "unroutable" /\ q \notin pending' /\ q \notin Asked(sock')
             \/ cli'[q].st = "routed" /\ cli'[q].answer = "none"
      PROVE  Requests'
  <2>1. ASSUME NEW p \in Reqs, p # q
        PROVE  Shape(p)' /\ Stage(p)' /\ AnswerTrue(p)' /\ (p \in Asked(sock') => Unserved(p)')
    BY <1>2, <1>3, <1>4, <2>1, RequestKept
  <2>2. Shape(q)'
    BY <1>1, <1>4 DEF Shape
  <2>3. Stage(q)'
    BY <1>1, <1>2, <1>4 DEF Stage
  <2>4. AnswerTrue(q)'
    BY <1>1, <1>2, <1>4 DEF AnswerTrue
  <2>5. q \in Starts => runs[q].node = None
    BY Now, <1>1 DEF Requests, Stage
  <2>6. q \in Asked(sock') => Unserved(q)'
    BY <1>1, <1>2, <1>4, <2>5 DEF Unserved
  <2> QED BY <2>1, <2>2, <2>3, <2>4, <2>6 DEF Requests
<1>5. CASE Route(q) = None
  <2>1. cli' = [cli EXCEPT ![q].st = "settled", ![q].answer = "unroutable"] /\ UNCHANGED <<sock, pending>>
    BY <1>5 DEF RelayRequest, Settle
  <2>2. /\ cli' \in [Reqs -> Clients] /\ \A p \in Reqs : p # q => cli'[p] = cli[p]
        /\ cli'[q].st = "settled" /\ cli'[q].answer = "unroutable"
        /\ cli'[q].kind = cli[q].kind /\ cli'[q].run = cli[q].run /\ cli'[q].node = cli[q].node
    BY <2>1, Settled DEF Answers
  <2>3. Requests'
    BY <1>1, <1>4, <2>1, <2>2
  <2>4. Wired' /\ Channels(sock') /\ Asked(sock') = Asked(sock)
        /\ \A c \in Conns : Told(sock', c) \subseteq Told(sock, c) /\ sock'[c].node = sock[c].node
    BY <1>2, <2>1, SameSockets
  <2>5. Verdicted'
    BY <1>1, <1>2, <1>3, <2>2, <2>4, VerdictsKept
  <2>6. Owned' /\ TypeOK'
    BY <1>2, <2>1, <2>2 DEF IInv, TypeOK, Owned
  <2> QED BY <2>3, <2>4, <2>5, <2>6 DEF IInv
<1>6. CASE Route(q) # None
  <2> DEFINE c == Route(q)
             m == M("request", q)
  <2>0. c \in Conns
    BY <1>6, RouteType
  <2>1. cli' = [cli EXCEPT ![q].st = "routed"] /\ pending' = pending \cup {q} /\ sock' = ToNode(sock, c, m)
    BY <1>6 DEF RelayRequest
  <2>2. /\ cli' \in [Reqs -> Clients] /\ \A p \in Reqs : p # q => cli'[p] = cli[p]
        /\ cli'[q].st = "routed" /\ cli'[q].answer = cli[q].answer
        /\ cli'[q].kind = cli[q].kind /\ cli'[q].run = cli[q].run /\ cli'[q].node = cli[q].node
    BY <2>1, Staged
  <2>3. sock \in [Conns -> Sockets] /\ Channels(sock)
    BY Now
  <2>4. Channels(sock') /\ Asked(sock') \subseteq Asked(sock) \cup {q}
    BY <1>1, <2>0, <2>1, <2>3, RequestSent
  <2>5. m \in Msg /\ m.type = "request"
    BY MsgFields
  <2> HIDE DEF c, m
  <2>6. /\ sock' \in [Conns -> Sockets]
        /\ \A d \in Conns : /\ sock'[d].st = sock[d].st /\ sock'[d].node = sock[d].node
                            /\ sock'[d].toRelay = sock[d].toRelay
                            /\ d # c => sock'[d].toNode = sock[d].toNode
        /\ sock'[c].toNode = IF sock[c].st = "open" THEN Append(sock[c].toNode, m) ELSE sock[c].toNode
    <3>1. sock' = ToNode(sock, c, m)
      BY <2>1 DEF c, m
    <3> QED BY <2>0, <2>3, <2>5, <3>1, ToNodeFields
  <2>7. \A d \in Conns : Told(sock', d) \subseteq Told(sock, d) /\ sock'[d].node = sock[d].node
    BY <2>6 DEF Told
  <2>8. Requests'
    BY <1>1, <1>4, <2>1, <2>2, <2>4
  <2>9. Verdicted'
    BY <1>1, <1>2, <1>3, <2>2, <2>4, <2>7, VerdictsKept
  <2>10. Wired'
    <3>1. sock[c].toNode \in Seq(Msg)
      BY <2>0, <2>3, SocketFields
    <3>2. \A i \in 1 .. Len(Append(sock[c].toNode, m)) :
            \/ i \in 1 .. Len(sock[c].toNode) /\ Append(sock[c].toNode, m)[i] = sock[c].toNode[i]
            \/ Append(sock[c].toNode, m)[i] = m
      BY <2>5, <3>1, AppendElements
    <3>3. ASSUME NEW d \in Conns, NEW i \in 1 .. Len(sock'[d].toNode), sock'[d].toNode[i].type = "registered"
          PROVE  \E j \in 1 .. Len(sock[d].toNode) : sock[d].toNode[j].type = "registered"
      <4>1. CASE d = c /\ sock[c].st = "open"
        <5>1. sock'[d].toNode = Append(sock[c].toNode, m)
          BY <2>6, <4>1
        <5> QED BY <2>5, <3>2, <3>3, <4>1, <5>1
      <4>2. CASE ~(d = c /\ sock[c].st = "open")
        <5>1. sock'[d].toNode = sock[d].toNode
          BY <2>6, <4>2
        <5> QED BY <3>3, <5>1
      <4> QED BY <4>1, <4>2
    <3>4. \A d \in Conns : sock[d].st = "new" => sock'[d].toNode = <<>> /\ sock'[d].toRelay = <<>>
      <4>1. \A d \in Conns : sock[d].st = "new" => sock'[d].toNode = sock[d].toNode
        BY <2>6
      <4> QED BY <2>6, <4>1, Now DEF Wired
    <3> QED BY <1>2, <2>6, <3>3, <3>4, WiredFrame
  <2>11. Owned' /\ TypeOK'
    BY <1>2, <2>1, <2>2, <2>6 DEF IInv, TypeOK, Owned
  <2> QED BY <2>4, <2>8, <2>9, <2>10, <2>11 DEF IInv
<1> QED BY <1>5, <1>6

\* A verdict reaches the relay: the requester is told if it still waits, a started run gets its owner.
LEMMA RelayAckStep ==
  ASSUME IInv, NEW c \in Conns, RelayAck(c)
  PROVE  IInv'
<1> DEFINE m == Head(sock[c].toRelay)
<1>q. PICK q, v : q = m.req /\ v = m.type
  OBVIOUS
<1>0. NextForRelay(c, Verdicts) /\ sock' = Read(sock, c)
  BY DEF RelayAck, Read
<1>1. /\ sock[c].st \in {"open", "gone"} /\ sock[c].node \in Nodes /\ v \in Verdicts /\ m \in Told(sock, c)
      /\ sock' \in [Conns -> Sockets]
      /\ \A d \in Conns : /\ sock'[d].st = sock[d].st /\ sock'[d].node = sock[d].node /\ sock'[d].toNode = sock[d].toNode
                          /\ Told(sock', d) \subseteq Told(sock, d)
                          /\ d # c => sock'[d].toRelay = sock[d].toRelay
  BY <1>0, <1>q, RelayReads
<1>2. q \in Reqs /\ VerdictTrue(q, v, sock[c].node)
  BY <1>1, <1>q DEF IInv, Verdicted, Channels
<1>3. UNCHANGED <<daemon, registry, latest, paired, runs, acted, restarts>>
  BY DEF RelayAck
<1>4. /\ pending' = pending \ {q}
      /\ IF q \in pending THEN cli' = [cli EXCEPT ![q].st = "settled", ![q].answer = v] ELSE cli' = cli
      /\ owner' = IF q \in Starts /\ v = "ok" THEN [owner EXCEPT ![q] = sock[c].node] ELSE owner
  BY <1>q DEF RelayAck, Settle
<1> HIDE DEF m
<1>5. /\ owner' \in [Starts -> Nodes \cup {None}]
      /\ \A s \in Starts : owner'[s] = IF s = q /\ v = "ok" THEN sock[c].node ELSE owner[s]
  BY <1>1, <1>4 DEF IInv, TypeOK
<1>6. sock[c].node # None
  BY <1>1, RelayAssumption
<1>7. /\ cli' \in [Reqs -> Clients] /\ \A p \in Reqs : p # q \/ q \notin pending => cli'[p] = cli[p]
      /\ q \in pending => cli'[q].st = "settled" /\ cli'[q].answer = v
      /\ cli'[q].kind = cli[q].kind /\ cli'[q].run = cli[q].run /\ cli'[q].node = cli[q].node
  <2>1. CASE q \in pending
    <3>1. v \in Answers /\ "settled" \in {"routed", "settled", "closed"}
      BY <1>1 DEF Answers
    <3>2. cli' = [cli EXCEPT ![q].st = "settled", ![q].answer = v]
      BY <1>4, <2>1
    <3> QED BY <1>2, <2>1, <3>1, <3>2, Settled
  <2>2. CASE q \notin pending
    BY <1>4, <2>2, Now
  <2> QED BY <2>1, <2>2
<1>8. TypeOK'
  BY <1>1, <1>3, <1>4, <1>5, <1>7 DEF IInv, TypeOK
<1>9. Channels(sock') /\ Asked(sock') \subseteq Asked(sock)
  <2> DEFINE k == [d \in Conns |-> 0]
  <2>1. k \in [Conns -> {0, 1}]
    OBVIOUS
  <2>2. Fewer(sock, sock', k)
    BY <1>1 DEF Fewer
  <2>3. FewerTold(sock, sock')
    BY <1>1 DEF FewerTold
  <2> QED BY <1>1, <2>1, <2>2, <2>3, Now, FewerChannels
<1>10. Wired'
  <2>1. \A d \in Conns : \A i \in 1 .. Len(sock'[d].toNode) : sock'[d].toNode[i].type = "registered" =>
          \E j \in 1 .. Len(sock[d].toNode) : sock[d].toNode[j].type = "registered"
    BY <1>1
  <2>2. \A d \in Conns : sock[d].st = "new" => sock'[d].toNode = <<>> /\ sock'[d].toRelay = <<>>
    BY <1>1, Now DEF Wired
  <2> QED BY <1>1, <1>3, <2>1, <2>2, WiredFrame
<1>11. \A s \in Starts : Ended(s) => Ended(s)'
  BY <1>3 DEF Ended
<1>12. Requests'
  <2>1. ASSUME NEW p \in Reqs, p # q \/ q \notin pending
        PROVE  Shape(p)' /\ Stage(p)' /\ AnswerTrue(p)' /\ (p \in Asked(sock') => Unserved(p)')
    <3>1. cli'[p] = cli[p] /\ acted'[p] = acted[p] /\ (p \in pending' => p \in pending)
      BY <1>3, <1>4, <1>7, <2>1
    <3>2. \A s \in Starts : owner[s] # None => owner'[s] # None
      BY <1>5, <1>6
    <3> QED BY <1>3, <1>9, <1>11, <3>1, <3>2, RequestKept
  <2>2. ASSUME q \in pending
        PROVE  Shape(q)' /\ Stage(q)' /\ AnswerTrue(q)' /\ (q \in Asked(sock') => Unserved(q)')
    <3>1. Shape(q) /\ Stage(q)
      BY <1>2, Now DEF Requests
    <3>2. cli[q].st # "idle" /\ q \notin pending' /\ q \notin Asked(sock')
      BY <1>2, <1>4, <1>9, <3>1 DEF VerdictTrue
    <3>3. Shape(q)'
      BY <1>7, <2>2, <3>1, <3>2 DEF Shape
    <3>4. Stage(q)'
      BY <1>3, <1>7, <2>2, <3>1, <3>2 DEF Stage
    <3>5. AnswerTrue(q)'
      <4>1. cli'[q].answer = "ok" => /\ acted'[q] = 1
                                     /\ q \in Starts /\ restarts' = 0 => owner'[q] # None
                                     /\ cli'[q].kind \in Stops => Ended(cli[q].run)
                                     /\ cli'[q].kind # "node_pair"
        BY <1>2, <1>3, <1>5, <1>6, <1>7, <2>2 DEF VerdictTrue
      <4>2. cli'[q].answer \in {"refused", "unroutable"} => acted'[q] = 0
        BY <1>1, <1>2, <1>3, <1>7, <2>2 DEF VerdictTrue, Verdicts
      <4>3. cli'[q].kind \in Stops /\ Ended(cli[q].run) => Ended(cli[q].run)'
        BY <1>3, <1>7 DEF Ended
      <4> QED BY <4>1, <4>2, <4>3 DEF AnswerTrue
    <3> QED BY <3>2, <3>3, <3>4, <3>5
  <2> QED BY <1>2, <2>1, <2>2 DEF Requests
<1>13. Verdicted'
  <2>1. \A p \in Reqs : cli[p].st \notin {"idle", "sent"} =>
           /\ cli'[p].st \notin {"idle", "sent"} /\ cli'[p].kind = cli[p].kind /\ cli'[p].run = cli[p].run
    BY <1>7
  <2> QED BY <1>1, <1>3, <1>9, <1>11, <2>1, VerdictsKept
<1>14. Owned'
  <2>1. q \in Starts /\ v = "ok" => runs[q].node = sock[c].node
    BY <1>2 DEF VerdictTrue
  <2> QED BY <1>3, <1>5, <2>1, Now DEF Owned
<1> QED BY <1>8, <1>9, <1>10, <1>12, <1>13, <1>14 DEF IInv

\* A run ends by itself.
LEMMA RunEndsStep ==
  ASSUME IInv, NEW s \in Starts, RunEnds(s)
  PROVE  IInv'
<1>1. UNCHANGED <<daemon, sock, registry, latest, owner, pending, paired, cli, acted, restarts>>
  BY DEF RunEnds
<1>2. /\ runs' \in [Starts -> Runs] /\ \A t \in Starts : runs'[t].node = runs[t].node
      /\ \A t \in Starts : runs'[t].live => runs[t].live
  BY DEF IInv, TypeOK, Runs, RunEnds
<1>3. \A t \in Starts : Ended(t) => Ended(t)'
  BY <1>2 DEF Ended
<1>4. Wired' /\ Channels(sock') /\ Asked(sock') = Asked(sock)
      /\ \A c \in Conns : Told(sock', c) \subseteq Told(sock, c) /\ sock'[c].node = sock[c].node
  BY <1>1, SameSockets
<1>5. Requests'
  BY <1>1, <1>2, <1>3, <1>4, RequestKept DEF Requests
<1>6. Verdicted'
  BY <1>1, <1>2, <1>3, <1>4, VerdictsKept
<1>7. Owned' /\ TypeOK'
  BY <1>1, <1>2 DEF IInv, TypeOK, Owned
<1> QED BY <1>4, <1>5, <1>6, <1>7 DEF IInv

\* A step of one client: what it needs of its own request.
LEMMA ClientStep ==
  ASSUME IInv, NEW q \in Reqs, UNCHANGED <<daemon, sock, registry, latest, owner, runs, restarts>>,
         cli' \in [Reqs -> Clients], acted' \in [Reqs -> Nat], pending' \subseteq pending,
         paired \subseteq paired', paired' \subseteq Nodes,
         \A p \in Reqs : p # q => cli'[p] = cli[p] /\ acted'[p] = acted[p],
         Shape(q)', Stage(q)', AnswerTrue(q)', q \in Asked(sock) => Unserved(q)',
         cli[q].st \notin {"idle", "sent"} =>
           /\ acted'[q] = acted[q] /\ cli'[q].st \notin {"idle", "sent"}
           /\ cli'[q].kind = cli[q].kind /\ cli'[q].run = cli[q].run
  PROVE  IInv'
<1>1. \A t \in Starts : Ended(t) => Ended(t)'
  BY DEF Ended
<1>2. Wired' /\ Channels(sock') /\ Asked(sock') = Asked(sock)
      /\ \A c \in Conns : Told(sock', c) \subseteq Told(sock, c) /\ sock'[c].node = sock[c].node
  BY SameSockets
<1>3. ASSUME NEW p \in Reqs, p # q
      PROVE  Shape(p)' /\ Stage(p)' /\ AnswerTrue(p)' /\ (p \in Asked(sock') => Unserved(p)')
  BY <1>1, <1>2, <1>3, RequestKept
<1>4. Requests'
  BY <1>2, <1>3 DEF Requests
<1>5. Verdicted'
  BY <1>1, <1>2, VerdictsKept
<1>6. Owned' /\ TypeOK'
  BY DEF IInv, TypeOK, Owned
<1> QED BY <1>2, <1>4, <1>5, <1>6 DEF IInv

\* A client asks.
LEMMA AskStep ==
  ASSUME IInv, NEW q \in Reqs, NEW kind \in Kinds \ {"none"}, NEW n \in Nodes \cup {None}, NEW s \in Starts \cup {None},
         Ask(q, kind, n, s), q \in Starts <=> kind \in StartKinds,
         IF kind \in RunKinds THEN s \in Starts ELSE s = None /\ n \in Nodes
  PROVE  IInv'
<1>1. cli[q].st = "idle" /\ Stage(q) /\ UNCHANGED <<daemon, sock, registry, latest, owner, pending, paired, runs, acted, restarts>>
  BY Now DEF Ask, Requests
<1>2. /\ cli' \in [Reqs -> Clients] /\ \A p \in Reqs : p # q => cli'[p] = cli[p]
      /\ cli'[q].st = "sent" /\ cli'[q].kind = kind /\ cli'[q].node = n /\ cli'[q].run = s /\ cli'[q].answer = "none"
  <2>1. [st |-> "sent", kind |-> kind, node |-> n, run |-> s, answer |-> "none"] \in Clients
    BY DEF Clients, Answers
  <2> QED BY <2>1, Now DEF Ask
<1>3. Shape(q)'
  <2>1. q \in Calls => q \notin Starts
    BY RelayAssumption
  <2>2. kind \in RunKinds => kind \notin NodeKinds \cup StartKinds \cup {"node_pair"}
    BY DEF RunKinds, NodeKinds, StartKinds
  <2> QED BY <1>2, <2>1, <2>2 DEF Shape
<1>4. Stage(q)' /\ q \notin Asked(sock)
  BY <1>1, <1>2 DEF Stage
<1>5. AnswerTrue(q)'
  BY <1>2 DEF AnswerTrue
<1>6. acted' \in [Reqs -> Nat] /\ paired' \subseteq Nodes /\ paired' = paired /\ pending' = pending
  BY <1>1 DEF IInv, TypeOK
<1> QED BY <1>1, <1>2, <1>3, <1>4, <1>5, <1>6, ClientStep

\* The kinds of requests are what their names say.
LEMMA KindFacts ==
  /\ \A kind \in StartKinds : kind \in Kinds \ {"none"} /\ kind \notin RunKinds
  /\ \A kind \in RunKinds \cup NodeKinds \cup {"node_pair"} : kind \in Kinds \ {"none"} /\ kind \notin StartKinds
  /\ \A kind \in NodeKinds \cup {"node_pair"} : kind \notin RunKinds
  /\ \A q \in Calls : q \notin Starts
BY RelayAssumption DEF Kinds, StartKinds, RunKinds, NodeKinds

\* The requests a client sends.
LEMMA ClientAsksStep ==
  ASSUME IInv, NEW q \in Reqs,
         \/ \E n \in Nodes, kind \in StartKinds : RemoteRunStart(q, n, kind)
         \/ \E n \in Nodes : \/ OneShotLease(q, n) \/ RemoteWorkspaceRevisionObserve(q, n) \/ RelayNodePair(q, n)
                             \/ RemoteTerminalList(q, n) \/ RemoteTerminalKill(q, n)
         \/ \E s \in Starts, kind \in {"run_stop", "encrypted_run_stop"} : RemoteStop(q, s, kind)
         \/ \E s \in Starts : RemoteRunStatus(q, s) \/ RemoteRunResult(q, s) \/ RemoteApprovalRespond(q, s)
  PROVE  IInv'
<1>1. CASE \E n \in Nodes, kind \in StartKinds : RemoteRunStart(q, n, kind)
  <2>1. PICK n \in Nodes, kind \in StartKinds : q \in Starts /\ Ask(q, kind, n, None)
    BY <1>1 DEF RemoteRunStart
  <2> QED BY <2>1, KindFacts, AskStep
<1>2. ASSUME NEW n \in Nodes, NEW kind \in NodeKinds \cup {"node_pair"}, q \in Calls, Ask(q, kind, n, None)
      PROVE  IInv'
  BY <1>2, KindFacts, AskStep
<1>3. ASSUME NEW s \in Starts, NEW kind \in RunKinds, q \in Calls, Ask(q, kind, None, s)
      PROVE  IInv'
  BY <1>3, KindFacts, AskStep
<1>4. CASE \E n \in Nodes : \/ OneShotLease(q, n) \/ RemoteWorkspaceRevisionObserve(q, n) \/ RelayNodePair(q, n)
                            \/ RemoteTerminalList(q, n) \/ RemoteTerminalKill(q, n)
  <2>1. \E n \in Nodes, kind \in NodeKinds \cup {"node_pair"} : q \in Calls /\ Ask(q, kind, n, None)
    BY <1>4, Zenon DEF OneShotLease, RemoteWorkspaceRevisionObserve, RelayNodePair, RemoteTerminalList, RemoteTerminalKill,
         NodeKinds
  <2> QED BY <1>2, <2>1
<1>5. CASE \E s \in Starts, kind \in {"run_stop", "encrypted_run_stop"} : RemoteStop(q, s, kind)
  <2>1. \E s \in Starts, kind \in RunKinds : q \in Calls /\ Ask(q, kind, None, s)
    BY <1>5, Zenon DEF RemoteStop, Known, RunKinds
  <2> QED BY <1>3, <2>1
<1>6. CASE \E s \in Starts : RemoteRunStatus(q, s) \/ RemoteRunResult(q, s) \/ RemoteApprovalRespond(q, s)
  <2>1. \E s \in Starts, kind \in RunKinds : q \in Calls /\ Ask(q, kind, None, s)
    BY <1>6, Zenon DEF RemoteRunStatus, RemoteRunResult, RemoteApprovalRespond, Known, RunKinds
  <2> QED BY <1>3, <2>1
<1> QED BY <1>1, <1>4, <1>5, <1>6

\* The relay answers a pairing itself.
LEMMA PairStep ==
  ASSUME IInv, NEW q \in Calls, Pair(q)
  PROVE  IInv'
<1>1. /\ q \in Reqs /\ q \notin Starts /\ cli[q].st = "sent" /\ cli[q].kind = "node_pair" /\ Shape(q) /\ Stage(q)
      /\ acted[q] = 0 /\ q \notin Asked(sock) /\ q \notin pending /\ cli[q].node \in Nodes
  BY Now, KindFacts DEF Pair, Requests, Stage, Shape, Reqs
<1>2. UNCHANGED <<daemon, sock, registry, latest, owner, pending, runs, restarts>> /\ paired' = paired \cup {cli[q].node}
      /\ cli' = [cli EXCEPT ![q].st = "settled", ![q].answer = "ok"] /\ acted' = [acted EXCEPT ![q] = @ + 1]
  BY DEF Pair, Settle
<1>3. /\ cli' \in [Reqs -> Clients] /\ \A p \in Reqs : p # q => cli'[p] = cli[p]
      /\ cli'[q].st = "settled" /\ cli'[q].answer = "ok"
      /\ cli'[q].kind = cli[q].kind /\ cli'[q].run = cli[q].run /\ cli'[q].node = cli[q].node
  BY <1>1, <1>2, Settled DEF Answers, Verdicts
<1>4. acted' \in [Reqs -> Nat] /\ acted'[q] = 1 /\ \A p \in Reqs : p # q => acted'[p] = acted[p]
  BY <1>1, <1>2 DEF IInv, TypeOK
<1>5. paired' \subseteq Nodes /\ paired \subseteq paired' /\ cli'[q].node \in paired'
  BY <1>1, <1>2, <1>3 DEF IInv, TypeOK
<1>6. Shape(q)'
  BY <1>1, <1>3 DEF Shape
<1>7. Stage(q)'
  BY <1>1, <1>2, <1>3, <1>4 DEF Stage
<1>8. AnswerTrue(q)'
  BY <1>1, <1>3, <1>4, <1>5 DEF AnswerTrue, Stops
<1> QED BY <1>1, <1>2, <1>3, <1>4, <1>5, <1>6, <1>7, <1>8, ClientStep

\* A client gives up, or its socket closes.
LEMMA ClientLeavesStep ==
  ASSUME IInv, NEW q \in Reqs, ClientTimeout(q) \/ RelayClientClose(q)
  PROVE  IInv'
<1>1. Shape(q) /\ Stage(q) /\ AnswerTrue(q) /\ (q \in Asked(sock) => Unserved(q))
  BY Now DEF Requests
<1>2. acted \in [Reqs -> Nat] /\ paired \subseteq Nodes
  BY DEF IInv, TypeOK
<1>3. CASE ClientTimeout(q)
  <2>1. cli[q].st \in {"sent", "routed"} /\ UNCHANGED <<daemon, sock, registry, latest, owner, pending, paired, runs, acted, restarts>>
        /\ cli' = [cli EXCEPT ![q].st = "settled", ![q].answer = "timeout"]
    BY <1>3 DEF ClientTimeout
  <2>2. /\ cli' \in [Reqs -> Clients] /\ \A p \in Reqs : p # q => cli'[p] = cli[p]
        /\ cli'[q].st = "settled" /\ cli'[q].answer = "timeout"
        /\ cli'[q].kind = cli[q].kind /\ cli'[q].run = cli[q].run /\ cli'[q].node = cli[q].node
    BY <2>1, Settled DEF Answers
  <2>3. Shape(q)'
    BY <1>1, <2>1, <2>2 DEF Shape
  <2>4. Stage(q)'
    BY <1>1, <2>1, <2>2 DEF Stage
  <2>5. AnswerTrue(q)'
    BY <2>2 DEF AnswerTrue
  <2>6. q \in Asked(sock) => Unserved(q)'
    BY <1>1, <2>1, <2>2 DEF Unserved
  <2> QED BY <1>2, <2>1, <2>2, <2>3, <2>4, <2>5, <2>6, ClientStep
<1>4. CASE RelayClientClose(q)
  <2>1. cli[q].st = "settled" /\ UNCHANGED <<daemon, sock, registry, latest, owner, paired, runs, acted, restarts>>
        /\ cli' = [cli EXCEPT ![q].st = "closed"] /\ pending' = pending \ {q}
    BY <1>4 DEF RelayClientClose
  <2>2. /\ cli' \in [Reqs -> Clients] /\ \A p \in Reqs : p # q => cli'[p] = cli[p]
        /\ cli'[q].st = "closed" /\ cli'[q].answer = cli[q].answer
        /\ cli'[q].kind = cli[q].kind /\ cli'[q].run = cli[q].run /\ cli'[q].node = cli[q].node
    BY <2>1, Staged
  <2>3. Shape(q)'
    BY <1>1, <2>1, <2>2 DEF Shape
  <2>4. Stage(q)'
    BY <1>1, <2>1, <2>2 DEF Stage
  <2>5. AnswerTrue(q)'
    BY <1>1, <2>1, <2>2 DEF AnswerTrue, Ended
  <2>6. q \in Asked(sock) => Unserved(q)'
    BY <1>1, <2>1, <2>2 DEF Unserved
  <2>7. pending' \subseteq pending
    BY <2>1
  <2> QED BY <1>2, <2>1, <2>2, <2>3, <2>4, <2>5, <2>6, <2>7, ClientStep
<1> QED BY <1>3, <1>4

\* The relay restarts: everything under way is lost.
LEMMA RelayRestartStep ==
  ASSUME IInv, RelayRestart
  PROVE  IInv'
<1>1. UNCHANGED <<paired, runs, acted>> /\ restarts' = restarts + 1 /\ restarts' \in 1 .. MaxRestarts /\ pending' = {}
      /\ registry' = [n \in Nodes |-> None] /\ latest' = [n \in Nodes |-> None] /\ owner' = [s \in Starts |-> None]
  <2>1. restarts \in 0 .. MaxRestarts /\ MaxRestarts \in Nat
    BY Now, RelayAssumption
  <2>2. restarts < MaxRestarts /\ restarts' = restarts + 1
    BY DEF RelayRestart
  <2>3. restarts' \in 1 .. MaxRestarts
    BY <2>1, <2>2
  <2> QED BY <2>2, <2>3 DEF RelayRestart
<1>2. \A c \in Conns : sock[c] \in Sockets
  BY Now
<1>3. /\ sock' \in [Conns -> Sockets]
      /\ \A c \in Conns : /\ sock'[c].st = IF sock[c].st = "new" THEN "new" ELSE "closed"
                          /\ sock'[c].node = sock[c].node /\ sock'[c].toNode = <<>> /\ sock'[c].toRelay = <<>>
  <2>1. <<>> \in Seq(Msg)
    BY EmptySeq
  <2>2. \A c \in Conns : sock[c].st = "new" => sock[c].toNode = <<>> /\ sock[c].toRelay = <<>>
    BY Now DEF Wired
  <2>3. sock' = [c \in Conns |-> IF sock[c].st = "new" THEN sock[c]
                                 ELSE [sock[c] EXCEPT !.st = "closed", !.toRelay = <<>>, !.toNode = <<>>]]
    BY DEF RelayRestart
  <2> QED BY <1>2, <2>1, <2>2, <2>3 DEF Sockets
<1>4. /\ daemon' \in [Nodes -> Daemons]
      /\ \A n \in Nodes : daemon'[n].conn = None /\ daemon'[n].st \in {"off", "exited"}
  <2>1. \A n \in Nodes : daemon[n] \in Daemons
    BY Now
  <2>2. \A n \in Nodes : daemon[n].st = "exited" => daemon[n].conn = None
    BY Now DEF Wired
  <2>3. daemon' = [n \in Nodes |-> IF daemon[n].st = "exited" THEN daemon[n] ELSE [st |-> "off", conn |-> None]]
    BY DEF RelayRestart
  <2> QED BY <2>1, <2>2, <2>3 DEF Daemons
<1>5. /\ cli' \in [Reqs -> Clients]
      /\ \A q \in Reqs : IF cli[q].st \in {"sent", "routed"}
                         THEN /\ cli'[q].st = "closed" /\ cli'[q].answer = "timeout" /\ cli'[q].kind = cli[q].kind
                              /\ cli'[q].run = cli[q].run /\ cli'[q].node = cli[q].node
                         ELSE cli'[q] = cli[q]
  <2>1. \A q \in Reqs : cli[q] \in Clients
    BY Now
  <2>2. cli' = [q \in Reqs |-> IF cli[q].st \in {"sent", "routed"}
                               THEN [cli[q] EXCEPT !.st = "closed", !.answer = "timeout"] ELSE cli[q]]
    BY DEF RelayRestart
  <2> QED BY <2>1, <2>2 DEF Clients, Answers
<1>6. TypeOK'
  BY <1>1, <1>3, <1>4, <1>5 DEF IInv, TypeOK
<1>7. Asked(sock') = {} /\ \A c \in Conns : Told(sock', c) = {}
  BY <1>3, EmptySeq DEF Asked, Told
<1>8. Channels(sock')
  BY <1>3, <1>7, EmptySeq DEF Channels
<1>9. Wired'
  BY <1>1, <1>3, <1>4, EmptySeq, Now DEF Wired
<1>10. ASSUME NEW q \in Reqs
       PROVE  Shape(q)' /\ Stage(q)' /\ AnswerTrue(q)' /\ (q \in Asked(sock') => Unserved(q)')
  <2>1. Shape(q) /\ Stage(q) /\ AnswerTrue(q)
    BY Now DEF Requests
  <2>2. CASE cli[q].st \in {"sent", "routed"}
    <3>1. /\ cli'[q].st = "closed" /\ cli'[q].answer = "timeout" /\ cli'[q].kind = cli[q].kind
          /\ cli'[q].run = cli[q].run /\ cli'[q].node = cli[q].node
      BY <1>5, <2>2
    <3>2. Shape(q)'
      BY <2>1, <2>2, <3>1 DEF Shape
    <3>3. Stage(q)'
      BY <1>1, <2>1, <3>1 DEF Stage
    <3>4. AnswerTrue(q)'
      BY <3>1 DEF AnswerTrue
    <3> QED BY <1>7, <3>2, <3>3, <3>4
  <2>3. CASE cli[q].st \notin {"sent", "routed"}
    <3>1. cli'[q] = cli[q] /\ restarts' # 0 /\ acted'[q] = acted[q]
      BY <1>1, <1>5, <2>3
    <3>2. Shape(q)'
      BY <2>1, <3>1 DEF Shape
    <3>3. Stage(q)'
      BY <1>1, <1>7, <2>1, <3>1 DEF Stage
    <3>4. AnswerTrue(q)'
      BY <1>1, <2>1, <3>1 DEF AnswerTrue, Ended
    <3> QED BY <1>7, <3>2, <3>3, <3>4
  <2> QED BY <2>2, <2>3
<1>11. Requests' /\ Verdicted' /\ Owned'
  BY <1>1, <1>7, <1>10 DEF Requests, Verdicted, Owned
<1> QED BY <1>6, <1>8, <1>9, <1>11 DEF IInv

-----------------------------------------------------------------------------
(* Theorems *)

\* The initial states satisfy the invariant.
LEMMA InitInv ==
  ASSUME Init
  PROVE  IInv
<1>1. TypeOK
  <2>1. [st |-> "new", node |-> None, toRelay |-> <<>>, toNode |-> <<>>] \in Sockets
    BY EmptySeq DEF Sockets
  <2>2. [st |-> "idle", kind |-> "none", node |-> None, run |-> None, answer |-> "none"] \in Clients
    BY DEF Clients, Kinds, Answers
  <2>3. [st |-> "off", conn |-> None] \in Daemons /\ [node |-> None, live |-> FALSE] \in Runs
    BY DEF Daemons, Runs
  <2> QED BY <2>1, <2>2, <2>3, RelayAssumption DEF Init, TypeOK
<1>2. Asked(sock) = {} /\ \A c \in Conns : Told(sock, c) = {}
  BY EmptySeq DEF Init, Asked, Told
<1>3. Channels(sock)
  BY <1>2, EmptySeq DEF Init, Channels
<1>4. Wired
  BY DEF Init, Wired
<1>5. Requests
  <2> SUFFICES ASSUME NEW q \in Reqs PROVE Shape(q) /\ Stage(q) /\ AnswerTrue(q) /\ (q \in Asked(sock) => Unserved(q))
    BY DEF Requests
  <2>1. Shape(q)
    BY DEF Init, Shape, StartKinds, RunKinds, NodeKinds
  <2>2. Stage(q)
    BY <1>2 DEF Init, Stage
  <2>3. AnswerTrue(q)
    BY DEF Init, AnswerTrue
  <2> QED BY <1>2, <2>1, <2>2, <2>3
<1>6. Verdicted /\ Owned
  BY <1>2 DEF Init, Verdicted, Owned
<1> QED BY <1>1, <1>3, <1>4, <1>5, <1>6 DEF IInv

\* Nothing moves, nothing changes.
LEMMA Stutter ==
  ASSUME IInv, UNCHANGED vars
  PROVE  IInv'
<1>1. \A s \in Starts : Ended(s) => Ended(s)'
  BY DEF Ended, vars
<1>2. Wired' /\ Channels(sock') /\ Asked(sock') = Asked(sock)
      /\ \A c \in Conns : Told(sock', c) \subseteq Told(sock, c) /\ sock'[c].node = sock[c].node
  BY SameSockets DEF vars
<1>3. Requests'
  BY <1>1, <1>2, RequestKept DEF Requests, vars
<1>4. Verdicted'
  BY <1>1, <1>2, VerdictsKept DEF vars
<1>5. Owned' /\ TypeOK'
  BY DEF IInv, TypeOK, Owned, vars
<1> QED BY <1>2, <1>3, <1>4, <1>5 DEF IInv

\* A request goes through one case of the relay's switch, none of which is node_pair.
LEMMA RoutesStep ==
  ASSUME IInv, NEW q \in Reqs,
         \/ RouteRunStart(q) \/ RouteEncryptedRunStart(q) \/ RouteTerminalList(q) \/ RouteTerminalKill(q)
         \/ RouteLease(q) \/ RouteRevision(q) \/ RouteRunStop(q) \/ RouteEncryptedRunStop(q)
         \/ RouteRunStatus(q) \/ RouteRunResult(q) \/ RouteApproval(q)
  PROVE  IInv'
<1>1. RelayRequest(q) /\ cli[q].kind \notin {"node_pair", "none"}
  BY DEF RouteRunStart, RouteEncryptedRunStart, RouteTerminalList, RouteTerminalKill, RouteLease, RouteRevision,
         RouteRunStop, RouteEncryptedRunStop, RouteRunStatus, RouteRunResult, RouteApproval
<1> QED BY <1>1, RelayRequestStep

\* An ack goes through one case of the relay's switch.
LEMMA AcksStep ==
  ASSUME IInv, NEW c \in Conns,
         \/ RunStartAck(c) \/ RunStopAck(c) \/ EncryptedRunStopAck(c) \/ RunStatusAck(c)
         \/ RunResultAck(c) \/ ApprovalAck(c) \/ LeaseAck(c) \/ TerminalSessionAck(c)
  PROVE  IInv'
<1>1. RelayAck(c)
  BY DEF RunStartAck, RunStopAck, EncryptedRunStopAck, RunStatusAck, RunResultAck, ApprovalAck, LeaseAck,
         TerminalSessionAck, AckOf
<1> QED BY <1>1, RelayAckStep

\* Every step preserves the invariant.
LEMMA NextInv ==
  ASSUME IInv, Next
  PROVE  IInv'
<1>1. CASE \E n \in Nodes : (\E c \in Conns : DaemonConnect(n, c)) \/ DaemonRegistered(n) \/ DaemonRejected(n) \/ DaemonDrops(n)
  BY <1>1, DaemonConnectStep, DaemonRegisteredStep, DaemonLeavesStep
<1>2. CASE \E n \in Nodes : \/ HandleRunStart(n) \/ RunStartThrows(n) \/ HandleEncryptedRunStart(n)
                            \/ HandleRunStop(n) \/ RunStopThrows(n) \/ HandleEncryptedRunStop(n)
  BY <1>2, RunHandlerStep
<1>3. CASE \E n \in Nodes : \/ RunStatusThrows(n) \/ HandleRunStatus(n) \/ HandleRunResult(n)
                            \/ HandleApproval(n) \/ HandleLease(n) \/ HandleTerminalSession(n)
  BY <1>3, OtherHandlerStep
<1>4. CASE (\E s \in Starts : RunEnds(s)) \/ (\E q \in Calls : Pair(q))
  BY <1>4, RunEndsStep, PairStep
<1>5. CASE \E c \in Conns : RelayRegister(c) \/ RelayNodeClose(c)
  BY <1>5, RelayRegisterStep, RelayNodeCloseStep
<1>6. CASE \E q \in Reqs : \/ RouteRunStart(q) \/ RouteEncryptedRunStart(q) \/ RouteTerminalList(q) \/ RouteTerminalKill(q)
                           \/ RouteLease(q) \/ RouteRevision(q) \/ RouteRunStop(q) \/ RouteEncryptedRunStop(q)
                           \/ RouteRunStatus(q) \/ RouteRunResult(q) \/ RouteApproval(q)
  BY <1>6, RoutesStep
<1>7. CASE \E c \in Conns : \/ RunStartAck(c) \/ RunStopAck(c) \/ EncryptedRunStopAck(c) \/ RunStatusAck(c)
                            \/ RunResultAck(c) \/ ApprovalAck(c) \/ LeaseAck(c) \/ TerminalSessionAck(c)
  BY <1>7, AcksStep
<1>8. CASE \E q \in Reqs :
             \/ \E n \in Nodes, kind \in StartKinds : RemoteRunStart(q, n, kind)
             \/ \E n \in Nodes : \/ OneShotLease(q, n) \/ RemoteWorkspaceRevisionObserve(q, n) \/ RelayNodePair(q, n)
                                 \/ RemoteTerminalList(q, n) \/ RemoteTerminalKill(q, n)
             \/ \E s \in Starts, kind \in {"run_stop", "encrypted_run_stop"} : RemoteStop(q, s, kind)
             \/ \E s \in Starts : RemoteRunStatus(q, s) \/ RemoteRunResult(q, s) \/ RemoteApprovalRespond(q, s)
  BY <1>8, ClientAsksStep
<1>9. CASE \E q \in Reqs : ClientTimeout(q) \/ RelayClientClose(q)
  BY <1>9, ClientLeavesStep
<1>10. CASE RelayRestart
  BY <1>10, RelayRestartStep
<1> QED BY <1>1, <1>2, <1>3, <1>4, <1>5, <1>6, <1>7, <1>8, <1>9, <1>10, Zenon DEF Next

\* The invariant holds in every reachable state.
THEOREM Invariance == Spec => []IInv
<1>1. Init => IInv
  BY InitInv
<1>2. IInv /\ [Next]_vars => IInv'
  BY NextInv, Stutter
<1> QED BY <1>1, <1>2, PTL DEF Spec

\* The model is type correct.
THEOREM TypeCorrect == Spec => []TypeOK
<1>1. IInv => TypeOK
  BY DEF IInv
<1> QED BY <1>1, Invariance, PTL

\* The close handler's identity guard: a registered daemon whose node_register is the last the relay
\* accepted for its node is reachable through its open socket, for any number of nodes, reconnects,
\* late closes and frames read late from a dropped socket.
THEOREM Reachability == Spec => []RegisteredIsReachable
<1>1. IInv => RegisteredIsReachable
  BY DEF IInv, Wired, RegisteredIsReachable
<1> QED BY <1>1, Invariance, PTL

\* runOwnership names the node that holds the run, and an acked start is routable until a restart.
THEOREM Ownership == Spec => []OwnershipTrue
<1>1. IInv => OwnershipTrue
  <2> SUFFICES ASSUME IInv, NEW s \in Starts
               PROVE  /\ owner[s] # None => runs[s].node = owner[s]
                      /\ cli[s].answer = "ok" /\ restarts = 0 => owner[s] # None
    BY DEF OwnershipTrue
  <2>1. AnswerTrue(s)
    BY Now DEF Requests, Reqs
  <2> QED BY <2>1, Now DEF Owned, AnswerTrue
<1> QED BY <1>1, Invariance, PTL

\* A node's answer is true, a request without a route is never carried out, none is carried out
\* twice, and a run reported stopped stays stopped.
THEOREM TrueAnswers == Spec => []AnswersTrue
<1>1. IInv => AnswersTrue
  <2> SUFFICES ASSUME IInv, NEW q \in Reqs
               PROVE  /\ cli[q].answer = "ok" => acted[q] = 1
                      /\ cli[q].answer \in {"refused", "unroutable"} => acted[q] = 0
                      /\ acted[q] <= 1
                      /\ cli[q].kind \in {"run_stop", "encrypted_run_stop"} /\ cli[q].answer = "ok" => ~runs[cli[q].run].live
                      /\ cli[q].kind = "node_pair" /\ cli[q].answer = "ok" => cli[q].node \in paired
    BY DEF AnswersTrue
  <2>1. AnswerTrue(q) /\ acted[q] \in {0, 1}
    BY Now DEF Requests, Stage
  <2>2. acted[q] <= 1
    BY <2>1
  <2> QED BY <2>1, <2>2 DEF AnswerTrue, Ended, Stops
<1> QED BY <1>1, Invariance, PTL

-----------------------------------------------------------------------------
(***************************************************************************)
(* The web terminals (RemoteTerminal), which reach their node through the  *)
(* relay: for any number of pages and tmux sessions, and any number of     *)
(* lost connections and restarts.                                          *)
(***************************************************************************)
CONSTANTS Names, SafeNames, Wants, Longer, AllowCreate, MaxChurn, MaxFaults
VARIABLES want, up, subs, link, toNode, tmux, orphans, faults, churn

Web == INSTANCE RemoteTerminal

\* The types the proof needs.
Sane ==
  /\ page \in [Browsers -> {"idle", "local", "connecting", "open", "closed"}]
  /\ up \in [Browsers -> Seq(Web!Msg)] /\ toNode \in Seq(Web!Msg) /\ fromNode \in Seq(Web!Msg)
  /\ bridge \in [Browsers -> {"off", "same", "changed"}]
  /\ shows = [b \in Browsers |-> shows[b]]

\* Nothing of page b has come as far as the node.
Silent(b) ==
  /\ bridge[b] = "off"
  /\ \A i \in 1 .. Len(toNode) : toNode[i].of # b
  /\ \A i \in 1 .. Len(fromNode) : fromNode[i].of # b

\* A bridge writes about its own page only, and nothing before its relay socket opens.
Unopened(b) ==
  /\ \A i \in 1 .. Len(up[b]) : up[b][i].of = b
  /\ page[b] \in {"idle", "connecting"} => up[b] = <<>> /\ shows[b] # "frame" /\ Silent(b)

\* An open page is subscribed before its terminal_open reaches the node, and no close of it is under way.
Subscribed(b) == page[b] = "open" =>
  /\ \A i \in 1 .. Len(up[b]) : up[b][i].type \notin {"close", "bye"}
  /\ \A i \in 1 .. Len(toNode) : toNode[i].of = b => toNode[i].type # "close"
  /\ b \notin subs => Silent(b) /\ shows[b] # "frame" /\ up[b] # <<>> /\ up[b][1].type = "open"

\* The pump of page b runs, or was cut off with the node's connection.
Fed(b) == bridge[b] # "off" \/ b \in cut

\* Behind a frame on its way the pump runs, or the message that it ended follows.
FramesFed(b) == page[b] = "open" =>
  \A i \in 1 .. Len(fromNode) : fromNode[i].of = b /\ fromNode[i].type = "frame" =>
    Fed(b) \/ \E j \in 1 .. Len(fromNode) : j > i /\ fromNode[j] = Web!M("ended", b)

\* ShownIsPumped, of page b.
ShownFed(b) == page[b] = "open" /\ shows[b] = "frame" =>
  Fed(b) \/ \E i \in 1 .. Len(fromNode) : fromNode[i] = Web!M("ended", b)

Kept(b) == Unopened(b) /\ Subscribed(b) /\ FramesFed(b) /\ ShownFed(b)

\* The inductive invariant of the web terminals.
TInv == Sane /\ \A b \in Browsers : Kept(b)

\* Messages about other pages come and go on the node's connection; k of them left the queue to the relay.
LEMMA OtherPages ==
  ASSUME NEW b \in Browsers, Sane, Sane', Kept(b), NEW k \in {0, 1},
         page'[b] = page[b], up'[b] = up[b], shows'[b] = shows[b], b \in subs' <=> b \in subs, cut \subseteq cut',
         bridge'[b] = "off" <=> bridge[b] = "off",
         \A i \in 1 .. Len(toNode') : toNode'[i].of = b => \E j \in 1 .. Len(toNode) : toNode[j] = toNode'[i],
         \A i \in 1 .. Len(fromNode') : fromNode'[i].of = b =>
           i + k \in 1 .. Len(fromNode) /\ fromNode'[i] = fromNode[i + k],
         \A i \in 1 .. Len(fromNode) : fromNode[i].of = b =>
           i - k \in 1 .. Len(fromNode') /\ fromNode'[i - k] = fromNode[i]
  PROVE  Kept(b)'
<1>1. Silent(b) => Silent(b)'
  <2> SUFFICES ASSUME Silent(b) PROVE Silent(b)'
    OBVIOUS
  <2>1. bridge'[b] = "off"
    BY DEF Silent
  <2>2. ASSUME NEW i \in 1 .. Len(toNode') PROVE toNode'[i].of # b
    BY DEF Silent
  <2>3. ASSUME NEW i \in 1 .. Len(fromNode') PROVE fromNode'[i].of # b
    BY DEF Silent
  <2> QED BY <2>1, <2>2, <2>3 DEF Silent
<1>2. Unopened(b)'
  BY <1>1 DEF Kept, Unopened
<1>3. Subscribed(b)'
  BY <1>1 DEF Kept, Subscribed
<1>4. Fed(b) => Fed(b)'
  BY DEF Fed
<1>5. Web!M("ended", b).of = b
  BY DEF Web!M
<1>6. FramesFed(b)'
  <2> SUFFICES ASSUME page[b] = "open", NEW i \in 1 .. Len(fromNode'), fromNode'[i].of = b,
                      fromNode'[i].type = "frame", ~Fed(b)
               PROVE  \E j \in 1 .. Len(fromNode') : j > i /\ fromNode'[j] = Web!M("ended", b)
    BY <1>4, <1>5 DEF FramesFed, Web!M
  <2>1. i + k \in 1 .. Len(fromNode) /\ fromNode'[i] = fromNode[i + k]
    OBVIOUS
  <2>2. PICK j \in 1 .. Len(fromNode) : j > i + k /\ fromNode[j] = Web!M("ended", b)
    BY <2>1 DEF Kept, FramesFed
  <2>3. j - k \in 1 .. Len(fromNode') /\ fromNode'[j - k] = fromNode[j]
    BY <2>2, <1>5
  <2>4. j - k > i
    BY <2>2
  <2> QED BY <2>2, <2>3, <2>4
<1>7. ShownFed(b)'
  <2> SUFFICES ASSUME page[b] = "open", shows[b] = "frame", ~Fed(b)
               PROVE  \E j \in 1 .. Len(fromNode') : fromNode'[j] = Web!M("ended", b)
    BY <1>4 DEF ShownFed, Web!M
  <2>1. PICK j \in 1 .. Len(fromNode) : fromNode[j] = Web!M("ended", b)
    BY DEF Kept, ShownFed
  <2> QED BY <2>1, <1>5
<1> QED BY <1>2, <1>3, <1>6, <1>7 DEF Kept

\* A page that is left has no promise to keep.
LEMMA LeftPage ==
  ASSUME NEW b \in Browsers, page'[b] \in {"local", "closed"}, \A i \in 1 .. Len(up'[b]) : up'[b][i].of = b
  PROVE  Kept(b)'
BY DEF Kept, Unopened, Subscribed, FramesFed, ShownFed

\* Nobody is subscribed or served before the first page.
LEMMA InitTInv == Web!Init => TInv
<1> SUFFICES ASSUME Web!Init PROVE TInv
  OBVIOUS
<1>1. Sane
  BY DEF Web!Init, Sane
<1>2. ASSUME NEW b \in Browsers PROVE Kept(b)
  <2>1. page[b] = "idle" /\ up[b] = <<>> /\ shows[b] = "nothing" /\ Silent(b)
    BY DEF Web!Init, Silent
  <2> QED BY <2>1 DEF Kept, Unopened, Subscribed, FramesFed, ShownFed
<1> QED BY <1>1, <1>2 DEF TInv

\* What every step but the ones on the node's connection leaves alone.
LEMMA QuietStep ==
  ASSUME NEW b \in Browsers, Sane, Sane', Kept(b),
         page'[b] = page[b], up'[b] = up[b], shows'[b] = shows[b], b \in subs' <=> b \in subs, cut \subseteq cut',
         bridge'[b] = "off" <=> bridge[b] = "off", UNCHANGED <<toNode, fromNode>>
  PROVE  Kept(b)'
<1>1. Len(fromNode) \in Nat /\ \A i \in 1 .. Len(fromNode) : i + 0 = i /\ i - 0 = i
  BY DEF Sane
<1>2. /\ \A i \in 1 .. Len(fromNode') : fromNode'[i].of = b =>
           i + 0 \in 1 .. Len(fromNode) /\ fromNode'[i] = fromNode[i + 0]
      /\ \A i \in 1 .. Len(fromNode) : fromNode[i].of = b =>
           i - 0 \in 1 .. Len(fromNode') /\ fromNode'[i - 0] = fromNode[i]
  BY <1>1
<1>3. \A i \in 1 .. Len(toNode') : toNode'[i].of = b => \E j \in 1 .. Len(toNode) : toNode[j] = toNode'[i]
  OBVIOUS
<1> QED BY <1>2, <1>3, OtherPages

\* Sessions come and go, the relay loses and finds the node: no pump starts or stops.
LEMMA SessionsKeep ==
  ASSUME TInv,
         \/ \E T : Web!Sessions(T) /\ bridge' \in [Browsers -> {"off", "same", "changed"}]
         \/ Web!RelayNoticesNode \/ Web!DaemonReconnects \/ UNCHANGED Web!vars
  PROVE  TInv'
<1>1. /\ UNCHANGED <<page, up, subs, toNode, fromNode, shows, cut>>
      /\ bridge' \in [Browsers -> {"off", "same", "changed"}]
      /\ \A b \in Browsers : bridge'[b] = "off" <=> bridge[b] = "off"
  <2>1. CASE \E T : Web!Sessions(T) /\ bridge' \in [Browsers -> {"off", "same", "changed"}]
    BY <2>1 DEF Web!Sessions, Web!Repaint, Web!relayVars, TInv, Sane
  <2>2. CASE Web!RelayNoticesNode \/ Web!DaemonReconnects \/ UNCHANGED Web!vars
    BY <2>2 DEF Web!RelayNoticesNode, Web!DaemonReconnects, Web!vars, Web!relayVars, Web!ghosts, TInv, Sane
  <2> QED BY <2>1, <2>2
<1>2. Sane'
  BY <1>1 DEF TInv, Sane
<1>3. ASSUME NEW b \in Browsers PROVE Kept(b)'
  BY <1>1, <1>2, QuietStep DEF TInv
<1> QED BY <1>2, <1>3 DEF TInv

\* Two queues of messages about one page, joined.
LEMMA OwnJoined ==
  ASSUME NEW s \in Seq(Web!Msg), NEW t \in Seq(Web!Msg), NEW b,
         \A i \in 1 .. Len(s) : s[i].of = b, \A i \in 1 .. Len(t) : t[i].of = b
  PROVE  \A i \in 1 .. Len(s \o t) : (s \o t)[i].of = b
<1> SUFFICES ASSUME NEW i \in 1 .. Len(s \o t) PROVE (s \o t)[i].of = b
  OBVIOUS
<1>1. Len(s) \in Nat /\ Len(t) \in Nat /\ Len(s \o t) = Len(s) + Len(t)
  OBVIOUS
<1>2. CASE i \in 1 .. Len(s)
  <2>1. (s \o t)[i] = s[i]
    BY <1>1, <1>2
  <2> QED BY <1>2, <2>1
<1>3. CASE i - Len(s) \in 1 .. Len(t)
  <2>1. (s \o t)[i] = t[i - Len(s)]
    BY <1>1, <1>3
  <2> QED BY <1>3, <2>1
<1> QED BY <1>1, <1>2, <1>3

\* A page is refused, starts a bridge or a local terminal, or is left.
LEMMA PageKeeps ==
  ASSUME TInv, NEW b \in Browsers,
         \/ Web!UpgradeRefused(b) \/ Web!StartRemoteTerminal(b) \/ Web!RelayError(b) \/ Web!BrowserCloses(b)
         \/ Web!StartLocalTerminal(b) \/ Web!LocalPollEnds(b) \/ Web!LocalCloses(b)
  PROVE  TInv'
<1>1. /\ UNCHANGED <<subs, toNode, fromNode, bridge, cut>>
      /\ page' = [page EXCEPT ![b] = page'[b]] /\ page'[b] \in {"connecting", "local", "closed"}
      /\ shows' = [shows EXCEPT ![b] = shows'[b]]
      /\ up' = up \/ (page'[b] = "closed" /\ up' = [up EXCEPT ![b] = @ \o <<Web!M("close", b), Web!M("bye", b)>>])
      /\ page'[b] = "connecting" => page[b] = "idle" /\ shows' = shows /\ up' = up
  BY Zenon DEF Web!UpgradeRefused, Web!StartRemoteTerminal, Web!RelayError, Web!BrowserCloses,
               Web!StartLocalTerminal, Web!LocalPollEnds,
               Web!LocalCloses, Web!relayVars, Web!nodeVars, Web!ghosts, TInv, Sane
<1>2. Web!M("close", b) \in Web!Msg /\ Web!M("bye", b) \in Web!Msg /\ Web!M("close", b).of = b
        /\ Web!M("bye", b).of = b
  BY DEF Web!M, Web!Msg
<1>3. /\ \A c \in Browsers : c # b => page'[c] = page[c] /\ shows'[c] = shows[c] /\ up'[c] = up[c]
      /\ \A i \in 1 .. Len(up'[b]) : up'[b][i].of = b
      /\ up' \in [Browsers -> Seq(Web!Msg)]
  <2>1. up[b] \in Seq(Web!Msg) /\ \A i \in 1 .. Len(up[b]) : up[b][i].of = b
    BY DEF TInv, Sane, Kept, Unopened
  <2>2. CASE up' = up
    BY <1>1, <2>1, <2>2 DEF TInv, Sane
  <2>3. CASE up' = [up EXCEPT ![b] = @ \o <<Web!M("close", b), Web!M("bye", b)>>]
    <3> DEFINE two == <<Web!M("close", b), Web!M("bye", b)>>
    <3>1. two \in Seq(Web!Msg) /\ Len(two) = 2 /\ two[1].of = b /\ two[2].of = b
      BY <1>2
    <3>2. up'[b] = up[b] \o two /\ up'[b] \in Seq(Web!Msg)
      BY <2>1, <2>3, <3>1 DEF TInv, Sane
    <3>3. \A i \in 1 .. Len(up'[b]) : up'[b][i].of = b
      <4>1. \A i \in 1 .. Len(two) : two[i].of = b
        BY <3>1
      <4> QED BY <2>1, <3>1, <3>2, <4>1, OwnJoined
    <3> QED BY <1>1, <2>3, <3>2, <3>3 DEF TInv, Sane
  <2> QED BY <1>1, <2>2, <2>3
<1>4. Sane'
  <2>1. PICK p \in {"connecting", "local", "closed"} : page' = [page EXCEPT ![b] = p]
    BY <1>1
  <2>2. PICK w : shows' = [shows EXCEPT ![b] = w]
    BY <1>1
  <2>3. page' \in [Browsers -> {"idle", "local", "connecting", "open", "closed"}]
    BY <2>1 DEF TInv, Sane
  <2>4. shows' = [c \in Browsers |-> shows'[c]]
    BY <2>2 DEF TInv, Sane
  <2> QED BY <1>1, <1>3, <2>3, <2>4 DEF TInv, Sane
<1>5. ASSUME NEW c \in Browsers, c # b PROVE Kept(c)'
  BY <1>1, <1>3, <1>4, <1>5, QuietStep DEF TInv
<1>6. Kept(b)'
  <2>1. CASE page'[b] = "connecting"
    <3>1. Unopened(b) /\ page[b] = "idle" /\ UNCHANGED <<toNode, fromNode, bridge, up, shows>>
      BY <1>1, <2>1 DEF TInv, Kept
    <3> QED BY <2>1, <3>1 DEF Kept, Unopened, Silent, Subscribed, FramesFed, ShownFed
  <2>2. CASE page'[b] \in {"local", "closed"}
    BY <1>3, <2>2, LeftPage
  <2> QED BY <1>1, <2>1, <2>2
<1> QED BY <1>4, <1>5, <1>6 DEF TInv

\* A page's socket, or the one of its bridge, breaks.
LEMMA BrokenPageKeeps ==
  ASSUME TInv, NEW b \in Browsers, Web!RelayBreaks(b) \/ Web!BrowserErrors(b)
  PROVE  TInv'
<1>1. UNCHANGED <<subs, toNode, fromNode, bridge, cut>> /\ page' = [page EXCEPT ![b] = "closed"]
  BY Zenon DEF Web!RelayBreaks, Web!BrowserErrors, Web!nodeVars
<1>2. shows' \in {shows, [shows EXCEPT ![b] = "failed"]}
  BY DEF Web!RelayBreaks, Web!BrowserErrors
<1>3. up' \in {up, [up EXCEPT ![b] = <<Web!M("bye", b)>>], [up EXCEPT ![b] = Append(@, Web!M("bye", b))]}
  <2>1. CASE Web!RelayBreaks(b)
    BY <2>1, Zenon DEF Web!RelayBreaks
  <2>2. CASE Web!BrowserErrors(b)
    BY <2>2, Zenon DEF Web!BrowserErrors
  <2> QED BY <2>1, <2>2
<1>4. PICK m \in Web!Msg : m = Web!M("bye", b) /\ m.of = b
  <2>1. Web!M("bye", b) \in Web!Msg /\ Web!M("bye", b).of = b
    BY DEF Web!M, Web!Msg
  <2> QED BY <2>1
<1>5. up[b] \in Seq(Web!Msg) /\ \A i \in 1 .. Len(up[b]) : up[b][i].of = b
  BY DEF TInv, Sane, Kept, Unopened
<1>6. /\ up' \in [Browsers -> Seq(Web!Msg)] /\ \A c \in Browsers : c # b => up'[c] = up[c]
      /\ up'[b] \in {up[b], <<m>>, Append(up[b], m)}
  <2>1. Append(up[b], m) \in Seq(Web!Msg) /\ <<m>> \in Seq(Web!Msg)
    BY <1>5
  <2> QED BY <1>3, <1>4, <1>5, <2>1 DEF TInv, Sane
<1>7. \A i \in 1 .. Len(up'[b]) : up'[b][i].of = b
  <2>1. CASE up'[b] = up[b]
    BY <1>5, <2>1
  <2>2. CASE up'[b] = <<m>>
    BY <1>4, <2>2
  <2>3. CASE up'[b] = Append(up[b], m)
    <3>1. /\ Len(up'[b]) = Len(up[b]) + 1 /\ up'[b][Len(up[b]) + 1] = m /\ Len(up[b]) \in Nat
          /\ \A i \in 1 .. Len(up[b]) : up'[b][i] = up[b][i]
      BY <1>5, <2>3
    <3> QED BY <1>4, <1>5, <3>1
  <2> QED BY <1>6, <2>1, <2>2, <2>3
<1>8. Sane'
  BY <1>1, <1>2, <1>6 DEF TInv, Sane
<1>9. ASSUME NEW c \in Browsers, c # b PROVE Kept(c)'
  <2>1. page'[c] = page[c] /\ up'[c] = up[c] /\ shows'[c] = shows[c]
    BY <1>1, <1>2, <1>6, <1>9 DEF TInv, Sane
  <2> QED BY <1>1, <1>8, <2>1, QuietStep DEF TInv
<1>10. Kept(b)'
  <2>1. page'[b] = "closed"
    BY <1>1 DEF TInv, Sane
  <2> QED BY <1>7, <2>1, LeftPage
<1> QED BY <1>8, <1>9, <1>10 DEF TInv

\* An open socket sends its terminal_open first, then keys.
LEMMA BridgeKeeps ==
  ASSUME TInv, NEW b \in Browsers, Web!RelayOpens(b) \/ Web!BrowserTypes(b)
  PROVE  TInv'
<1>1. UNCHANGED <<subs, toNode, fromNode, bridge, shows, cut>>
  BY Zenon DEF Web!RelayOpens, Web!BrowserTypes, Web!nodeVars, Web!ghosts
<1>2. PICK m \in Web!Msg : /\ up' = [up EXCEPT ![b] = Append(@, m)] /\ m.of = b
                       /\ \/ m.type = "open" /\ page[b] = "connecting"
                          \/ m.type = "input" /\ page[b] = "open"
  <2>1. /\ Web!M("open", b) \in Web!Msg /\ Web!M("input", b) \in Web!Msg /\ Web!M("open", b).of = b
           /\ Web!M("input", b).of = b
        /\ Web!M("open", b).type = "open" /\ Web!M("input", b).type = "input"
    BY DEF Web!M, Web!Msg
  <2>2. CASE Web!RelayOpens(b)
    BY <2>1, <2>2, Zenon DEF Web!RelayOpens
  <2>3. CASE Web!BrowserTypes(b)
    BY <2>1, <2>3, Zenon DEF Web!BrowserTypes
  <2> QED BY <2>2, <2>3
<1>3. page' = [page EXCEPT ![b] = "open"]
  BY DEF Web!RelayOpens, Web!BrowserTypes, TInv, Sane
<1>4. up[b] \in Seq(Web!Msg) /\ up'[b] = Append(up[b], m) /\ up'[b] \in Seq(Web!Msg)
  BY <1>2 DEF TInv, Sane
<1>5. Sane'
  BY <1>1, <1>2, <1>3, <1>4 DEF TInv, Sane
<1>6. ASSUME NEW c \in Browsers, c # b PROVE Kept(c)'
  <2>1. page'[c] = page[c] /\ up'[c] = up[c]
    BY <1>2, <1>3, <1>6 DEF TInv, Sane
  <2> QED BY <1>1, <1>5, <2>1, QuietStep DEF TInv
<1>7. Kept(b)'
  <2>1. /\ Len(up'[b]) = Len(up[b]) + 1 /\ up'[b][Len(up[b]) + 1] = m /\ Len(up[b]) \in Nat
        /\ \A i \in 1 .. Len(up[b]) : up'[b][i] = up[b][i]
    BY <1>4
  <2>2. page'[b] = "open" /\ (Silent(b) => Silent(b)')
    BY <1>1, <1>3 DEF Silent, TInv, Sane
  <2>3. Unopened(b)'
    <3>1. \A i \in 1 .. Len(up[b]) : up[b][i].of = b
      BY DEF TInv, Kept, Unopened
    <3>2. \A i \in 1 .. Len(up'[b]) : up'[b][i].of = b
      BY <1>2, <2>1, <3>1
    <3> QED BY <2>2, <3>2 DEF Unopened
  <2>4. CASE m.type = "open" /\ page[b] = "connecting"
    <3>1. up[b] = <<>> /\ shows[b] # "frame" /\ Silent(b)
      BY <2>4 DEF TInv, Kept, Unopened
    <3>2. up'[b] = <<m>> /\ Len(up'[b]) = 1 /\ up'[b][1] = m
      BY <1>4, <3>1
    <3> QED BY <1>1, <2>2, <2>3, <2>4, <3>1, <3>2 DEF Kept, Subscribed, FramesFed, ShownFed, Silent
  <2>5. CASE m.type = "input" /\ page[b] = "open"
    <3>1. Subscribed(b) /\ FramesFed(b) /\ ShownFed(b)
      BY DEF TInv, Kept
    <3>2. \A i \in 1 .. Len(up'[b]) : up'[b][i].type \notin {"close", "bye"}
      <4>1. \A i \in 1 .. Len(up[b]) : up[b][i].type \notin {"close", "bye"}
        BY <2>5, <3>1 DEF Subscribed
      <4>2. \A i \in 1 .. Len(up'[b]) : i \in 1 .. Len(up[b]) \/ i = Len(up[b]) + 1
        BY <2>1
      <4> QED BY <2>1, <2>5, <4>1, <4>2
    <3>3. up[b] # <<>> => up'[b] # <<>> /\ up'[b][1] = up[b][1]
      BY <1>4, <2>1
    <3>4. Subscribed(b)'
      BY <1>1, <2>2, <2>5, <3>1, <3>2, <3>3 DEF Subscribed
    <3> QED BY <1>1, <2>3, <2>5, <3>1, <3>4 DEF Kept, FramesFed, ShownFed, Fed
  <2> QED BY <1>2, <2>4, <2>5
<1> QED BY <1>5, <1>6, <1>7 DEF TInv

\* A connection that is cut takes its messages along: what a page is shown is accounted for in cut.
LEMMA CutKeeps ==
  ASSUME TInv, Web!NodeGone, NEW b \in Browsers, page'[b] = page[b], up'[b] = up[b], shows'[b] = shows[b],
         b \in subs' <=> b \in subs
  PROVE  Kept(b)'
<1>1. /\ bridge'[b] = "off" /\ toNode' = <<>> /\ fromNode' = <<>>
      /\ Len(toNode') = 0 /\ Len(fromNode') = 0
  BY DEF Web!NodeGone
<1>2. Silent(b)'
  BY <1>1 DEF Silent
<1>3. Kept(b)
  BY DEF TInv
<1>4. Unopened(b)' /\ FramesFed(b)'
  BY <1>1, <1>2, <1>3 DEF Kept, Unopened, FramesFed
<1>5. Subscribed(b)'
  BY <1>1, <1>2, <1>3 DEF Kept, Subscribed
<1>6. ShownFed(b)'
  <2> SUFFICES ASSUME page[b] = "open", shows[b] = "frame" PROVE b \in cut'
    BY DEF ShownFed, Fed
  <2>1. CASE Fed(b)
    BY <2>1 DEF Fed, Web!NodeGone
  <2>2. CASE \E i \in 1 .. Len(fromNode) : fromNode[i] = Web!M("ended", b)
    <3>1. Web!M("ended", b).of = b
      BY DEF Web!M
    <3>2. \E i \in 1 .. Len(fromNode) : fromNode[i].of = b
      BY <2>2, <3>1
    <3> QED BY <3>2 DEF Web!NodeGone
  <2> QED BY <1>3, <2>1, <2>2 DEF Kept, ShownFed
<1> QED BY <1>4, <1>5, <1>6 DEF Kept

\* Each of the three processes may die.
LEMMA FaultsKeep ==
  ASSUME TInv, Web!DaemonDrops \/ Web!RelayRestarts \/ Web!TerminalServerDies
  PROVE  TInv'
<1>1. CASE Web!DaemonDrops
  <2>1. Web!NodeGone /\ UNCHANGED <<page, up, subs, shows>>
    BY <1>1 DEF Web!DaemonDrops, Web!relayVars
  <2>2. Sane'
    BY <2>1 DEF TInv, Sane, Web!NodeGone
  <2>3. ASSUME NEW b \in Browsers PROVE Kept(b)'
    BY <2>1, CutKeeps
  <2> QED BY <2>2, <2>3 DEF TInv
<1>2. CASE Web!RelayRestarts
  <2>1. /\ Web!NodeGone /\ UNCHANGED shows /\ up' = [b \in Browsers |-> <<>>] /\ subs' = {}
        /\ page' = [b \in Browsers |-> IF page[b] \in {"connecting", "open"} THEN "closed" ELSE page[b]]
    BY <1>2 DEF Web!RelayRestarts
  <2>2. Sane'
    BY <2>1 DEF TInv, Sane, Web!NodeGone
  <2>3. ASSUME NEW b \in Browsers PROVE Kept(b)'
    <3>1. CASE page'[b] \in {"local", "closed"}
      BY <2>1, <3>1, LeftPage
    <3>2. CASE page'[b] \notin {"local", "closed"}
      <4>1. page[b] = "idle" /\ page'[b] = "idle" /\ up'[b] = <<>> /\ shows'[b] = shows[b] /\ shows[b] # "frame"
        BY <2>1, <3>2 DEF TInv, Sane, Kept, Unopened
      <4>2. Silent(b)'
        BY <2>1 DEF Web!NodeGone, Silent
      <4> QED BY <4>1, <4>2 DEF Kept, Unopened, Subscribed, FramesFed, ShownFed
    <3> QED BY <3>1, <3>2
  <2> QED BY <2>2, <2>3 DEF TInv
<1>3. CASE Web!TerminalServerDies
  <2>1. /\ UNCHANGED <<subs, toNode, fromNode, bridge, shows, cut>>
        /\ page' = [b \in Browsers |-> IF page[b] = "idle" THEN "idle" ELSE "closed"]
        /\ up' = [b \in Browsers |-> IF page[b] = "open" THEN <<Web!M("bye", b)>> ELSE up[b]]
    BY <1>3 DEF Web!TerminalServerDies, Web!nodeVars
  <2>2. \A b \in Browsers : Web!M("bye", b) \in Web!Msg /\ Web!M("bye", b).of = b
    BY DEF Web!M, Web!Msg
  <2>3. Sane'
    BY <2>1, <2>2 DEF TInv, Sane
  <2>4. ASSUME NEW b \in Browsers PROVE Kept(b)'
    <3>1. CASE page[b] = "idle"
      BY <2>1, <2>3, <3>1, QuietStep DEF TInv
    <3>2. CASE page[b] # "idle"
      <4>1. page'[b] = "closed" /\ \A i \in 1 .. Len(up'[b]) : up'[b][i].of = b
        BY <2>1, <2>2, <3>2 DEF TInv, Kept, Unopened
      <4> QED BY <4>1, LeftPage
    <3> QED BY <3>1, <3>2
  <2> QED BY <2>3, <2>4 DEF TInv
<1> QED BY <1>1, <1>2, <1>3

\* The relay takes the first message of a bridge.
LEMMA HeadGone ==
  ASSUME NEW s \in Seq(Web!Msg), s # <<>>
  PROVE  /\ Head(s) = s[1] /\ Head(s) \in Web!Msg /\ Tail(s) \in Seq(Web!Msg) /\ Len(Tail(s)) = Len(s) - 1
         /\ 1 \in 1 .. Len(s) /\ Len(s) \in Nat
         /\ \A i \in 1 .. Len(Tail(s)) : i + 1 \in 1 .. Len(s) /\ Tail(s)[i] = s[i + 1]
         /\ \A i \in 1 .. Len(s) : i = 1 \/ (i - 1 \in 1 .. Len(Tail(s)) /\ Tail(s)[i - 1] = s[i])
<1>1. Head(s) = s[1] /\ Tail(s) \in Seq(Web!Msg) /\ Len(Tail(s)) = Len(s) - 1 /\ Len(s) \in Nat /\ Len(s) > 0
  OBVIOUS
<1>2. Head(s) \in Web!Msg
  BY <1>1
<1>3. \A i \in 1 .. Len(Tail(s)) : i + 1 \in 1 .. Len(s) /\ Tail(s)[i] = s[i + 1]
  BY <1>1
<1>4. \A i \in 1 .. Len(s) : i = 1 \/ (i - 1 \in 1 .. Len(Tail(s)) /\ Tail(s)[i - 1] = s[i])
  BY <1>1, <1>3
<1> QED BY <1>1, <1>2, <1>3, <1>4

\* A message about another page goes to the node.
LEMMA OtherForwarded ==
  ASSUME NEW b \in Browsers, Sane, Sane', Kept(b), NEW m \in Web!Msg, m.of # b,
         page'[b] = page[b], up'[b] = up[b], shows'[b] = shows[b], b \in subs' <=> b \in subs,
         UNCHANGED <<fromNode, bridge, cut>>, toNode' = toNode \/ toNode' = Append(toNode, m)
  PROVE  Kept(b)'
<1>1. \A i \in 1 .. Len(toNode') : toNode'[i].of = b => \E j \in 1 .. Len(toNode) : toNode[j] = toNode'[i]
  <2>1. CASE toNode' = toNode
    BY <2>1
  <2>2. CASE toNode' = Append(toNode, m)
    <3> SUFFICES ASSUME NEW i \in 1 .. Len(toNode'), toNode'[i].of = b
                 PROVE  i \in 1 .. Len(toNode) /\ toNode[i] = toNode'[i]
      OBVIOUS
    <3>1. /\ Len(toNode') = Len(toNode) + 1 /\ Len(toNode) \in Nat /\ toNode'[Len(toNode) + 1] = m
          /\ \A j \in 1 .. Len(toNode) : toNode'[j] = toNode[j]
      BY <2>2 DEF Sane
    <3> QED BY <3>1
  <2> QED BY <2>1, <2>2
<1>2. Len(fromNode) \in Nat /\ \A i \in 1 .. Len(fromNode) : i + 0 = i /\ i - 0 = i
  BY DEF Sane
<1>3. /\ \A i \in 1 .. Len(fromNode') : fromNode'[i].of = b =>
           i + 0 \in 1 .. Len(fromNode) /\ fromNode'[i] = fromNode[i + 0]
      /\ \A i \in 1 .. Len(fromNode) : fromNode[i].of = b =>
           i - 0 \in 1 .. Len(fromNode') /\ fromNode'[i - 0] = fromNode[i]
  BY <1>2
<1> QED BY <1>1, <1>3, OtherPages

\* The relay subscribes a page before its terminal_open goes on, and forgets it only once it has left.
LEMMA RelayKeeps ==
  ASSUME TInv, NEW b \in Browsers,
         Web!RelayTerminalOpen(b) \/ Web!RelayTerminalForward(b) \/ Web!RelayTerminalBye(b)
  PROVE  TInv'
<1> DEFINE h == Head(up[b])
<1>1. up[b] # <<>> /\ up[b] \in Seq(Web!Msg) /\ UNCHANGED <<fromNode, bridge, cut>>
  BY DEF Web!RelayTerminalOpen, Web!RelayTerminalForward, Web!RelayTerminalBye, Web!nodeVars, Web!ghosts, TInv, Sane
<1>2. /\ h = up[b][1] /\ h \in Web!Msg /\ Tail(up[b]) \in Seq(Web!Msg) /\ 1 \in 1 .. Len(up[b])
      /\ \A i \in 1 .. Len(Tail(up[b])) : i + 1 \in 1 .. Len(up[b]) /\ Tail(up[b])[i] = up[b][i + 1]
  BY <1>1, HeadGone
<1>3. h.of = b /\ \A i \in 1 .. Len(Tail(up[b])) : Tail(up[b])[i].of = b
  BY <1>2 DEF TInv, Kept, Unopened
<1>4. Web!M("open", b) \in Web!Msg /\ Web!M("bye", b) \in Web!Msg /\ Web!M("open", b).of = b
        /\ Web!M("bye", b).of = b /\ Web!M("open", b).type = "open"
  BY DEF Web!M, Web!Msg
<1>5. toNode' = toNode \/ \E m \in Web!Msg : m.of = b /\ toNode' = Append(toNode, m)
  BY <1>2, <1>3, <1>4, Zenon DEF Web!RelayTerminalOpen, Web!RelayTerminalForward, Web!RelayTerminalBye,
                                 Web!Forward, Web!nodeVars
<1>6. \/ UNCHANGED <<page, shows>> /\ up' = [up EXCEPT ![b] = Tail(@)]
      \/ /\ page' = [page EXCEPT ![b] = "closed"] /\ shows' = [shows EXCEPT ![b] = "failed"]
         /\ up' = [up EXCEPT ![b] = Append(Tail(@), Web!M("bye", b))]
  BY Zenon DEF Web!RelayTerminalOpen, Web!RelayTerminalForward, Web!RelayTerminalBye
<1>7. \A c \in Browsers : c # b => page'[c] = page[c] /\ shows'[c] = shows[c] /\ up'[c] = up[c]
        /\ (c \in subs' <=> c \in subs)
  <2>1. \A c \in Browsers : c # b => page'[c] = page[c] /\ shows'[c] = shows[c] /\ up'[c] = up[c]
    BY <1>6 DEF TInv, Sane
  <2>2. subs' = subs \/ subs' = subs \cup {b} \/ subs' = subs \ {b}
    BY Zenon DEF Web!RelayTerminalOpen, Web!RelayTerminalForward, Web!RelayTerminalBye
  <2> QED BY <2>1, <2>2
<1>8. Sane'
  <2>1. toNode' \in Seq(Web!Msg)
    <3>1. CASE toNode' = toNode
      BY <3>1 DEF TInv, Sane
    <3>2. ASSUME NEW m \in Web!Msg, toNode' = Append(toNode, m) PROVE toNode' \in Seq(Web!Msg)
      BY <3>2 DEF TInv, Sane
    <3> QED BY <1>5, <3>1, <3>2
  <2>2. up' \in [Browsers -> Seq(Web!Msg)]
    <3>1. Append(Tail(up[b]), Web!M("bye", b)) \in Seq(Web!Msg)
      BY <1>2, <1>4
    <3>2. PICK q \in Seq(Web!Msg) : up' = [up EXCEPT ![b] = q]
      BY <1>2, <1>6, <3>1
    <3> QED BY <3>2 DEF TInv, Sane
  <2>3. page' \in [Browsers -> {"idle", "local", "connecting", "open", "closed"}]
    BY <1>6 DEF TInv, Sane
  <2>4. shows' = [c \in Browsers |-> shows'[c]]
    BY <1>6 DEF TInv, Sane
  <2> QED BY <1>1, <2>1, <2>2, <2>3, <2>4 DEF TInv, Sane
<1>9. ASSUME NEW c \in Browsers, c # b PROVE Kept(c)'
  <2>1. PICK m \in Web!Msg : m.of = b /\ (toNode' = toNode \/ toNode' = Append(toNode, m))
    BY <1>4, <1>5
  <2>2. m.of # c /\ Sane /\ Kept(c)
    BY <1>9, <2>1 DEF TInv
  <2> QED BY <1>1, <1>7, <1>8, <1>9, <2>1, <2>2, OtherForwarded
<1>10. Kept(b)'
  <2>1. page[b] \notin {"idle", "connecting"}
    BY <1>1 DEF TInv, Kept, Unopened
  <2>2. \A i \in 1 .. Len(up'[b]) : up'[b][i].of = b
    <3>1. CASE up' = [up EXCEPT ![b] = Tail(@)]
      BY <1>3, <3>1 DEF TInv, Sane
    <3>2. CASE up' = [up EXCEPT ![b] = Append(Tail(@), Web!M("bye", b))]
      BY <1>2, <1>3, <1>4, <3>2 DEF TInv, Sane
    <3> QED BY <1>6, <3>1, <3>2
  <2>3. CASE page'[b] \in {"local", "closed"}
    BY <2>2, <2>3, LeftPage
  <2>4. CASE page'[b] \notin {"local", "closed"}
    <3>1. /\ page[b] = "open" /\ page'[b] = "open" /\ UNCHANGED <<page, shows>> /\ up'[b] = Tail(up[b])
      BY <1>6, <2>1, <2>4 DEF TInv, Sane
    <3>2. Subscribed(b) /\ FramesFed(b) /\ ShownFed(b) /\ Unopened(b)
      BY DEF TInv, Kept
    <3>3. h.type \notin {"close", "bye"} /\ (b \notin subs => h.type = "open")
      BY <1>2, <3>1, <3>2 DEF Subscribed
    <3>4. b \in subs'
      <4>1. CASE Web!RelayTerminalOpen(b)
        BY <4>1 DEF Web!RelayTerminalOpen
      <4>2. CASE Web!RelayTerminalForward(b)
        BY <3>3, <4>2 DEF Web!RelayTerminalForward
      <4>3. CASE Web!RelayTerminalBye(b)
        BY <3>3, <4>3 DEF Web!RelayTerminalBye
      <4> QED BY <4>1, <4>2, <4>3
    <3>5. toNode' = toNode \/ \E m \in Web!Msg : m.type # "close" /\ toNode' = Append(toNode, m)
      <4>1. CASE Web!RelayTerminalOpen(b)
        BY <1>4, <4>1 DEF Web!RelayTerminalOpen, Web!Forward
      <4>2. CASE Web!RelayTerminalForward(b)
        BY <1>2, <3>3, <4>2 DEF Web!RelayTerminalForward, Web!Forward
      <4>3. CASE Web!RelayTerminalBye(b)
        BY <4>3 DEF Web!RelayTerminalBye, Web!nodeVars
      <4> QED BY <4>1, <4>2, <4>3
    <3>6. \A i \in 1 .. Len(toNode') : toNode'[i].of = b => toNode'[i].type # "close"
      <4>1. \A i \in 1 .. Len(toNode) : toNode[i].of = b => toNode[i].type # "close"
        BY <3>1, <3>2 DEF Subscribed
      <4> QED BY <3>5, <4>1 DEF TInv, Sane
    <3>7. \A i \in 1 .. Len(up'[b]) : up'[b][i].type \notin {"close", "bye"}
      BY <1>2, <3>1, <3>2 DEF Subscribed
    <3>8. Subscribed(b)'
      BY <3>4, <3>6, <3>7 DEF Subscribed
    <3>9. FramesFed(b)' /\ ShownFed(b)'
      BY <1>1, <3>1, <3>2 DEF FramesFed, ShownFed, Fed
    <3>10. Unopened(b)'
      BY <2>2, <3>1 DEF Unopened
    <3> QED BY <3>8, <3>9, <3>10 DEF Kept
  <2> QED BY <2>3, <2>4
<1> QED BY <1>8, <1>9, <1>10 DEF TInv

\* What the node said first reaches the page: a frame while its pump runs or its end follows.
LEMMA FanoutKeeps == ASSUME TInv, Web!RelayTerminalFanout PROVE TInv'
<1>1. /\ fromNode # <<>> /\ fromNode \in Seq(Web!Msg) /\ fromNode' = Tail(fromNode)
      /\ UNCHANGED <<subs, toNode, bridge, cut>>
  BY DEF Web!RelayTerminalFanout, Web!ghosts, TInv, Sane
<1>m. PICK m \in Web!Msg : m = Head(fromNode)
  BY <1>1, HeadGone
<1>b. PICK b \in Browsers : b = m.of
  BY DEF Web!Msg
<1>2. /\ m = fromNode[1] /\ 1 \in 1 .. Len(fromNode) /\ fromNode' \in Seq(Web!Msg)
      /\ \A i \in 1 .. Len(fromNode') : i + 1 \in 1 .. Len(fromNode) /\ fromNode'[i] = fromNode[i + 1]
      /\ \A i \in 1 .. Len(fromNode) : i = 1 \/ (i - 1 \in 1 .. Len(fromNode') /\ fromNode'[i - 1] = fromNode[i])
  BY <1>1, <1>m, HeadGone
<1>3. \/ Web!BridgeMessage(m) /\ b \in subs /\ page[b] = "open"
      \/ UNCHANGED <<page, up, shows>> /\ ~(b \in subs /\ page[b] = "open")
  BY <1>m, <1>b, Zenon DEF Web!RelayTerminalFanout
<1>4. /\ Web!M("bye", b) \in Web!Msg /\ Web!M("bye", b).of = b
  BY <1>2 DEF Web!M, Web!Msg
<1>5. /\ \/ page' = page /\ up' = up
         \/ page' = [page EXCEPT ![b] = "closed"] /\ up' = [up EXCEPT ![b] = Append(@, Web!M("bye", b))]
      /\ \E w : shows' = [shows EXCEPT ![b] = w]
  <2>1. CASE Web!BridgeMessage(m)
    BY <1>b, <2>1, Zenon DEF Web!BridgeMessage
  <2>2. CASE UNCHANGED <<page, up, shows>>
    <3>1. shows' = [shows EXCEPT ![b] = shows[b]]
      BY <1>2, <2>2 DEF TInv, Sane
    <3> QED BY <2>2, <3>1
  <2> QED BY <1>3, <2>1, <2>2
<1>6. Sane'
  <2>1. page' \in [Browsers -> {"idle", "local", "connecting", "open", "closed"}]
    BY <1>5 DEF TInv, Sane
  <2>2. up' \in [Browsers -> Seq(Web!Msg)]
    <3>1. up[b] \in Seq(Web!Msg) /\ Append(up[b], Web!M("bye", b)) \in Seq(Web!Msg)
      BY <1>2, <1>4 DEF TInv, Sane
    <3> QED BY <1>5, <3>1 DEF TInv, Sane
  <2>3. shows' = [c \in Browsers |-> shows'[c]]
    BY <1>5 DEF TInv, Sane
  <2> QED BY <1>1, <1>2, <2>1, <2>2, <2>3 DEF TInv, Sane
<1>7. ASSUME NEW c \in Browsers, c # b PROVE Kept(c)'
  <2>1. page'[c] = page[c] /\ up'[c] = up[c] /\ shows'[c] = shows[c]
    BY <1>5, <1>7 DEF TInv, Sane
  <2>2. \A i \in 1 .. Len(fromNode) : fromNode[i].of = c => i # 1
    BY <1>b, <1>2, <1>7
  <2>3. /\ \A i \in 1 .. Len(fromNode') : fromNode'[i].of = c =>
             i + 1 \in 1 .. Len(fromNode) /\ fromNode'[i] = fromNode[i + 1]
        /\ \A i \in 1 .. Len(fromNode) : fromNode[i].of = c =>
             i - 1 \in 1 .. Len(fromNode') /\ fromNode'[i - 1] = fromNode[i]
    BY <1>2, <2>2
  <2>4. \A i \in 1 .. Len(toNode') : toNode'[i].of = c => \E j \in 1 .. Len(toNode) : toNode[j] = toNode'[i]
    BY <1>1
  <2>5. Sane /\ Kept(c) /\ cut \subseteq cut' /\ (c \in subs' <=> c \in subs)
          /\ (bridge'[c] = "off" <=> bridge[c] = "off")
    BY <1>1 DEF TInv
  <2> QED BY <1>6, <2>1, <2>3, <2>4, <2>5, OtherPages
<1>8. Kept(b)'
  <2>1. Kept(b) /\ fromNode[1].of = b
    BY <1>b, <1>2 DEF TInv
  <2>2. \A i \in 1 .. Len(up'[b]) : up'[b][i].of = b
    <3>1. up[b] \in Seq(Web!Msg) /\ \A i \in 1 .. Len(up[b]) : up[b][i].of = b
      BY <1>2, <2>1 DEF TInv, Sane, Kept, Unopened
    <3>2. up'[b] = up[b] \/ up'[b] = Append(up[b], Web!M("bye", b))
      BY <1>2, <1>5 DEF TInv, Sane
    <3>3. CASE up'[b] = Append(up[b], Web!M("bye", b))
      <4>1. /\ Len(up'[b]) = Len(up[b]) + 1 /\ Len(up[b]) \in Nat /\ up'[b][Len(up[b]) + 1] = Web!M("bye", b)
            /\ \A i \in 1 .. Len(up[b]) : up'[b][i] = up[b][i]
        BY <1>4, <3>1, <3>3, AppendProperties
      <4>2. \A i \in 1 .. Len(up'[b]) : i \in 1 .. Len(up[b]) \/ i = Len(up[b]) + 1
        BY <4>1
      <4> QED BY <1>4, <3>1, <4>1, <4>2
    <3> QED BY <3>1, <3>2, <3>3
  <2>3. CASE page'[b] \in {"local", "closed"}
    BY <1>2, <2>2, <2>3, LeftPage
  <2>4. CASE page'[b] \notin {"local", "closed"}
    <3>1. page[b] = "open" /\ page'[b] = "open" /\ b \in subs /\ Web!BridgeMessage(m)
      <4>1. page' = page
        BY <1>2, <1>5, <2>4 DEF TInv, Sane
      <4>2. ~Silent(b)
        BY <1>2, <2>1 DEF Silent
      <4>3. page[b] \notin {"idle", "connecting", "local", "closed"}
        BY <2>1, <2>4, <4>1, <4>2 DEF Kept, Unopened
      <4>4. page[b] = "open"
        BY <1>2, <4>3 DEF TInv, Sane
      <4>5. b \in subs
        BY <2>1, <4>2, <4>4 DEF Kept, Subscribed
      <4> QED BY <1>3, <4>1, <4>4, <4>5
    <3>2. m.type \notin {"failed", "error"}
      <4> SUFFICES ASSUME m.type \in {"failed", "error"} PROVE FALSE
        OBVIOUS
      <4>1. page' = [page EXCEPT ![b] = "closed"]
        BY <1>b, <3>1, Zenon DEF Web!BridgeMessage
      <4> QED BY <1>2, <3>1, <4>1 DEF TInv, Sane
    <3>3. page' = page /\ up' = up /\ shows'[b] = (IF m.type = "ok" THEN shows[b] ELSE m.type)
      BY <1>b, <3>1, <3>2 DEF Web!BridgeMessage, TInv, Sane
    <3>4. Unopened(b)'
      BY <2>2, <3>1 DEF Unopened
    <3>5. Subscribed(b)'
      BY <1>1, <2>1, <3>1, <3>3 DEF Kept, Subscribed
    <3>6. FramesFed(b)'
      <4> SUFFICES ASSUME NEW i \in 1 .. Len(fromNode'), fromNode'[i].of = b, fromNode'[i].type = "frame", ~Fed(b)
                   PROVE  \E j \in 1 .. Len(fromNode') : j > i /\ fromNode'[j] = Web!M("ended", b)
        BY <1>1 DEF FramesFed, Fed
      <4>1. i + 1 \in 1 .. Len(fromNode) /\ fromNode'[i] = fromNode[i + 1]
        BY <1>2
      <4>2. PICK j \in 1 .. Len(fromNode) : j > i + 1 /\ fromNode[j] = Web!M("ended", b)
        BY <2>1, <3>1, <4>1 DEF Kept, FramesFed
      <4>3. j # 1 /\ j - 1 > i
        BY <4>2
      <4>4. j - 1 \in 1 .. Len(fromNode') /\ fromNode'[j - 1] = fromNode[j]
        BY <1>2, <4>2, <4>3
      <4> QED BY <4>2, <4>3, <4>4
    <3>7. ShownFed(b)'
      <4> SUFFICES ASSUME shows'[b] = "frame", ~Fed(b)
                   PROVE  \E j \in 1 .. Len(fromNode') : fromNode'[j] = Web!M("ended", b)
        BY <1>1 DEF ShownFed, Fed
      <4>1. CASE m.type = "ok"
        <5>1. PICK j \in 1 .. Len(fromNode) : fromNode[j] = Web!M("ended", b)
          BY <2>1, <3>1, <3>3, <4>1 DEF Kept, ShownFed
        <5>2. j # 1
          BY <1>2, <4>1, <5>1 DEF Web!M
        <5> QED BY <1>2, <5>1, <5>2
      <4>2. CASE m.type = "frame"
        <5>1. PICK j \in 1 .. Len(fromNode) : j > 1 /\ fromNode[j] = Web!M("ended", b)
          BY <1>2, <2>1, <3>1, <4>2 DEF Kept, FramesFed
        <5>2. j # 1
          BY <5>1
        <5> QED BY <1>2, <5>1, <5>2
      <4> QED BY <3>3, <4>1, <4>2
    <3> QED BY <3>4, <3>5, <3>6, <3>7 DEF Kept
  <2> QED BY <2>3, <2>4
<1> QED BY <1>6, <1>7, <1>8 DEF TInv

\* The node takes a message, or says something about page b: no other page notices.
LEMMA OthersUntold ==
  ASSUME TInv, Sane', NEW b \in Browsers, NEW c \in Browsers, c # b, UNCHANGED <<page, up, shows, subs, cut>>,
         bridge'[c] = "off" <=> bridge[c] = "off", NEW ms \in Seq(Web!Msg), \A i \in 1 .. Len(ms) : ms[i].of = b,
         fromNode' = fromNode \o ms, toNode' = toNode \/ (toNode # <<>> /\ toNode' = Tail(toNode))
  PROVE  Kept(c)'
<1>1. Sane /\ Kept(c) /\ Len(fromNode) \in Nat /\ Len(ms) \in Nat /\ fromNode \in Seq(Web!Msg)
  BY DEF TInv, Sane
<1>2. /\ Len(fromNode') = Len(fromNode) + Len(ms)
      /\ \A i \in 1 .. Len(fromNode) : fromNode'[i] = fromNode[i]
      /\ \A i \in 1 .. Len(ms) : fromNode'[Len(fromNode) + i] = ms[i]
  BY <1>1
<1>3. ASSUME NEW i \in 1 .. Len(fromNode'), fromNode'[i].of = c
      PROVE  i + 0 \in 1 .. Len(fromNode) /\ fromNode'[i] = fromNode[i + 0]
  <2>1. CASE i \in 1 .. Len(fromNode)
    BY <1>1, <1>2, <2>1
  <2>2. CASE i - Len(fromNode) \in 1 .. Len(ms)
    <3>1. fromNode'[Len(fromNode) + (i - Len(fromNode))] = ms[i - Len(fromNode)]
      BY <1>2, <2>2
    <3>2. Len(fromNode) + (i - Len(fromNode)) = i
      BY <1>1
    <3> QED BY <1>3, <2>2, <3>1, <3>2
  <2> QED BY <1>1, <1>2, <2>1, <2>2
<1>4. ASSUME NEW i \in 1 .. Len(fromNode)
      PROVE  i - 0 \in 1 .. Len(fromNode') /\ fromNode'[i - 0] = fromNode[i]
  BY <1>1, <1>2
<1>5. \A i \in 1 .. Len(toNode') : toNode'[i].of = c => \E j \in 1 .. Len(toNode) : toNode[j] = toNode'[i]
  <2>1. CASE toNode' = toNode
    BY <2>1
  <2>2. CASE toNode # <<>> /\ toNode' = Tail(toNode)
    <3>1. \A i \in 1 .. Len(toNode') : i + 1 \in 1 .. Len(toNode) /\ toNode'[i] = toNode[i + 1]
      BY <2>2, HeadGone DEF TInv, Sane
    <3> QED BY <3>1
  <2> QED BY <2>1, <2>2
<1>6. page'[c] = page[c] /\ up'[c] = up[c] /\ shows'[c] = shows[c] /\ (c \in subs' <=> c \in subs)
        /\ cut \subseteq cut'
  OBVIOUS
<1> QED BY <1>1, <1>3, <1>4, <1>5, <1>6, OtherPages

\* The same for page b itself, once its messages have come as far as the node: it is open and subscribed.
LEMMA OwnTold ==
  ASSUME TInv, Sane', NEW b \in Browsers, ~Silent(b), UNCHANGED <<page, up, shows, subs, cut>>,
         toNode' = toNode \/ (toNode # <<>> /\ toNode' = Tail(toNode)),
         page[b] = "open" /\ b \in subs => FramesFed(b)' /\ ShownFed(b)'
  PROVE  Kept(b)'
<1>1. Kept(b)
  BY DEF TInv
<1>2. CASE page[b] \in {"local", "closed"}
  BY <1>1, <1>2, LeftPage DEF Kept, Unopened
<1>3. CASE page[b] = "open"
  <2>1. b \in subs
    BY <1>1, <1>3 DEF Kept, Subscribed
  <2>2. \A i \in 1 .. Len(toNode') : \E j \in 1 .. Len(toNode) : toNode[j] = toNode'[i]
    <3>1. CASE toNode' = toNode
      BY <3>1
    <3>2. CASE toNode # <<>> /\ toNode' = Tail(toNode)
      <4>1. \A i \in 1 .. Len(toNode') : i + 1 \in 1 .. Len(toNode) /\ toNode'[i] = toNode[i + 1]
        BY <3>2, HeadGone DEF TInv, Sane
      <4> QED BY <4>1
    <3> QED BY <3>1, <3>2
  <2>3. Subscribed(b)'
    BY <1>1, <1>3, <2>1, <2>2 DEF Kept, Subscribed
  <2>4. Unopened(b)'
    BY <1>1, <1>3 DEF Kept, Unopened
  <2> QED BY <1>3, <2>1, <2>3, <2>4 DEF Kept
<1>4. page[b] \in {"local", "closed", "open"}
  <2>1. page[b] \notin {"idle", "connecting"}
    BY <1>1 DEF Kept, Unopened
  <2> QED BY <2>1 DEF TInv, Sane
<1> QED BY <1>2, <1>3, <1>4

\* A pump starts, goes on or ends, or an open is refused: ms says so to page b. Other pumps may see
\* another pane (B).
LEMMA PumpKeeps ==
  ASSUME TInv, NEW b \in Browsers, NEW ms \in Seq(Web!Msg), NEW p \in {"off", "same", "changed"},
         \A i \in 1 .. Len(ms) : ms[i].of = b,
         ~Silent(b), UNCHANGED <<page, up, shows, subs, cut>>, fromNode' = fromNode \o ms,
         NEW B \in [Browsers -> {"off", "same", "changed"}],
         \A c \in Browsers : B[c] = "off" <=> bridge[c] = "off",
         bridge' = [B EXCEPT ![b] = p], toNode' = toNode \/ (toNode # <<>> /\ toNode' = Tail(toNode)),
         \/ p # "off"
         \/ p = bridge[b] /\ ms = <<Web!M("failed", b)>>
         \/ ms = <<Web!M("ended", b)>>
  PROVE  TInv'
<1>1. Sane'
  <2>1. toNode' \in Seq(Web!Msg)
    <3>1. toNode \in Seq(Web!Msg)
      BY DEF TInv, Sane
    <3>2. toNode # <<>> => Tail(toNode) \in Seq(Web!Msg)
      BY <3>1
    <3> QED BY <3>1, <3>2
  <2>2. fromNode' \in Seq(Web!Msg)
    BY DEF TInv, Sane
  <2> QED BY <2>1, <2>2 DEF TInv, Sane
<1>2. ASSUME NEW c \in Browsers, c # b PROVE Kept(c)'
  <2>1. bridge'[c] = "off" <=> bridge[c] = "off"
    BY <1>2 DEF TInv, Sane
  <2> QED BY <1>1, <1>2, <2>1, OthersUntold
<1>3. ASSUME page[b] = "open" PROVE FramesFed(b)' /\ ShownFed(b)'
  <2>1. CASE p # "off"
    <3>1. Fed(b)'
      BY <2>1 DEF Fed, TInv, Sane
    <3> QED BY <3>1 DEF FramesFed, ShownFed
  <2>2. CASE p = "off"
    <3>1. PICK m \in Web!Msg : ms = <<m>> /\ m.type # "frame" /\ (m = Web!M("ended", b) \/ p = bridge[b])
      <4>1. /\ Web!M("failed", b) \in Web!Msg /\ Web!M("failed", b).type # "frame"
            /\ Web!M("ended", b) \in Web!Msg /\ Web!M("ended", b).type # "frame"
        BY DEF Web!M, Web!Msg
      <4> QED BY <2>2, <4>1
    <3>2. /\ Len(fromNode') = Len(fromNode) + 1 /\ fromNode'[Len(fromNode) + 1] = m /\ Len(fromNode) \in Nat
          /\ \A i \in 1 .. Len(fromNode) : fromNode'[i] = fromNode[i]
      BY <3>1 DEF TInv, Sane
    <3>3. CASE m = Web!M("ended", b)
      <4>1. FramesFed(b)'
        <5> SUFFICES ASSUME NEW i \in 1 .. Len(fromNode'), fromNode'[i].type = "frame"
                     PROVE  Len(fromNode) + 1 \in 1 .. Len(fromNode') /\ Len(fromNode) + 1 > i
          BY <3>2, <3>3 DEF FramesFed, Web!M
        <5>1. i # Len(fromNode) + 1
          BY <3>1, <3>2
        <5> QED BY <3>2, <5>1
      <4>2. Len(fromNode) + 1 \in 1 .. Len(fromNode')
        BY <3>2
      <4>3. ShownFed(b)'
        BY <3>2, <3>3, <4>2 DEF ShownFed, Web!M
      <4> QED BY <4>1, <4>3
    <3>4. CASE p = bridge[b]
      <4>1. Kept(b) /\ (Fed(b) => Fed(b)')
        BY <3>4 DEF TInv, Sane, Fed
      <4>2. FramesFed(b)'
        <5> SUFFICES ASSUME NEW i \in 1 .. Len(fromNode'), fromNode'[i].of = b, fromNode'[i].type = "frame", ~Fed(b)
                     PROVE  \E j \in 1 .. Len(fromNode') : j > i /\ fromNode'[j] = Web!M("ended", b)
          BY <4>1 DEF FramesFed, Web!M
        <5>1. i \in 1 .. Len(fromNode) /\ fromNode'[i] = fromNode[i]
          BY <3>1, <3>2
        <5>2. PICK j \in 1 .. Len(fromNode) : j > i /\ fromNode[j] = Web!M("ended", b)
          BY <1>3, <4>1, <5>1 DEF Kept, FramesFed
        <5> QED BY <3>2, <5>2
      <4>3. ShownFed(b)'
        <5> SUFFICES ASSUME shows[b] = "frame", ~Fed(b)
                     PROVE  \E j \in 1 .. Len(fromNode') : fromNode'[j] = Web!M("ended", b)
          BY <4>1 DEF ShownFed, Web!M
        <5>1. PICK j \in 1 .. Len(fromNode) : fromNode[j] = Web!M("ended", b)
          BY <1>3, <4>1 DEF Kept, ShownFed
        <5> QED BY <3>2, <5>1
      <4> QED BY <4>2, <4>3
    <3> QED BY <3>1, <3>3, <3>4
  <2> QED BY <2>1, <2>2
<1>4. Kept(b)'
  BY <1>1, <1>3, OwnTold
<1> QED BY <1>1, <1>2, <1>4 DEF TInv

\* The node's answers and its pumps.
LEMMA NodeSays ==
  ASSUME TInv,
         \/ Web!NodeOpenRefused \/ Web!NodeOpenAttaches \/ Web!NodeOpenCreates
         \/ \E b \in Browsers : Web!PumpEnds(b) \/ Web!PumpFrame(b)
  PROVE  TInv'
<1>1. ASSUME NEW type \in {"ok", "failed", "frame", "ended"}, NEW b \in Browsers
      PROVE  Web!M(type, b) \in Web!Msg /\ Web!M(type, b).of = b
  BY DEF Web!M, Web!Msg
<1>2. ASSUME NEW type \in {"failed", "frame", "ended"}, NEW b \in Browsers
      PROVE  /\ <<Web!M(type, b)>> \in Seq(Web!Msg)
             /\ \A i \in 1 .. Len(<<Web!M(type, b)>>) : <<Web!M(type, b)>>[i].of = b
  BY <1>1
<1>3. ASSUME NEW b \in Browsers
      PROVE  /\ <<Web!M("ok", b), Web!M("frame", b)>> \in Seq(Web!Msg)
             /\ \A i \in 1 .. Len(<<Web!M("ok", b), Web!M("frame", b)>>) : <<Web!M("ok", b), Web!M("frame",
                b)>>[i].of = b
  BY <1>1
<1>6. bridge \in [Browsers -> {"off", "same", "changed"}]
  BY DEF TInv, Sane
<1>4. CASE Web!NodeOpenRefused \/ Web!NodeOpenAttaches \/ Web!NodeOpenCreates
  <2>1. /\ toNode # <<>> /\ toNode' = Tail(toNode) /\ UNCHANGED <<page, up, shows, subs, cut>>
    BY <1>4, Zenon DEF Web!NodeOpenRefused, Web!NodeOpenAttaches, Web!NodeOpenCreates, Web!NodeTakes,
                       Web!relayVars, Web!ghosts
  <2>2. PICK b \in Browsers : b = Web!Who
    BY <2>1, HeadGone DEF Web!Who, Web!Msg, TInv, Sane
  <2>3. ~Silent(b)
    <3>1. toNode[1].of = b /\ 1 \in 1 .. Len(toNode)
      BY <2>1, <2>2, HeadGone DEF Web!Who, TInv, Sane
    <3> QED BY <3>1 DEF Silent
  <2>4. CASE Web!NodeOpenRefused
    <3>1. fromNode' = fromNode \o <<Web!M("failed", b)>> /\ bridge' = bridge
      BY <2>2, <2>4, Zenon DEF Web!NodeOpenRefused, Web!Send
    <3>2. bridge[b] \in {"off", "same", "changed"} /\ bridge' = [bridge EXCEPT ![b] = bridge[b]]
      BY <3>1 DEF TInv, Sane
    <3>3. <<Web!M("failed", b)>> \in Seq(Web!Msg) /\ \A i \in 1 .. Len(<<Web!M("failed", b)>>) : <<Web!M("failed", b)>>[i].of = b
      BY <1>2
    <3>4. toNode' = toNode \/ (toNode # <<>> /\ toNode' = Tail(toNode))
      BY <2>1
    <3>5. \A c \in Browsers : bridge[c] = "off" <=> bridge[c] = "off"
      OBVIOUS
    <3>6. PICK p \in {"off", "same", "changed"}, ms \in Seq(Web!Msg) : p = bridge[b] /\ ms = <<Web!M("failed", b)>>
      BY <3>2, <3>3
    <3>7. /\ fromNode' = fromNode \o ms /\ bridge' = [bridge EXCEPT ![b] = p]
          /\ \A i \in 1 .. Len(ms) : ms[i].of = b
      BY <3>1, <3>2, <3>3, <3>6
    <3> QED BY <1>6, <2>1, <2>3, <3>4, <3>5, <3>6, <3>7, PumpKeeps, Zenon
  <2>5. CASE Web!NodeOpenAttaches \/ Web!NodeOpenCreates
    <3>1. PICK B \in {bridge, Web!Repaint(tmux')} :
            fromNode' = fromNode \o <<Web!M("ok", b), Web!M("frame", b)>> /\ bridge' = [B EXCEPT ![b] = "same"]
      BY <2>2, <2>5, Zenon DEF Web!NodeOpenAttaches, Web!NodeOpenCreates, Web!AttachAndPump, Web!Send
    <3>2. /\ B \in [Browsers -> {"off", "same", "changed"}]
          /\ \A c \in Browsers : B[c] = "off" <=> bridge[c] = "off"
      BY <1>6, <3>1 DEF Web!Repaint
    <3> QED BY <1>3, <2>1, <2>3, <3>1, <3>2, PumpKeeps
  <2> QED BY <1>4, <2>4, <2>5
<1>5. ASSUME NEW b \in Browsers, Web!PumpEnds(b) \/ Web!PumpFrame(b) PROVE TInv'
  <2>1. UNCHANGED <<page, up, shows, subs, cut, toNode>>
    BY <1>5, Zenon DEF Web!PumpEnds, Web!PumpFrame, Web!relayVars, Web!ghosts
  <2>2. ~Silent(b)
    BY <1>5 DEF Web!PumpEnds, Web!PumpFrame, Silent
  <2>3. CASE Web!PumpEnds(b)
    <3>1. fromNode' = fromNode \o <<Web!M("ended", b)>> /\ bridge' = [bridge EXCEPT ![b] = "off"]
      BY <2>3, Zenon DEF Web!PumpEnds, Web!Send
    <3> QED BY <1>2, <1>6, <2>1, <2>2, <3>1, PumpKeeps
  <2>4. CASE Web!PumpFrame(b)
    <3>1. fromNode' = fromNode \o <<Web!M("frame", b)>> /\ bridge' = [bridge EXCEPT ![b] = "same"]
      BY <2>4, Zenon DEF Web!PumpFrame, Web!Send
    <3> QED BY <1>2, <1>6, <2>1, <2>2, <3>1, PumpKeeps
  <2> QED BY <1>5, <2>3, <2>4
<1> QED BY <1>4, <1>5

\* Keys paint panes; a close stops the pump of the page it names, which has left.
LEMMA NodeHears == ASSUME TInv, Web!NodeInput \/ Web!NodeClose PROVE TInv'
<1>1. toNode # <<>> /\ toNode' = Tail(toNode) /\ UNCHANGED <<page, up, shows, subs, cut, fromNode>>
  BY Zenon DEF Web!NodeInput, Web!NodeClose, Web!NodeTakes, Web!relayVars, Web!ghosts
<1>2. PICK b \in Browsers : b = Web!Who
  BY <1>1, HeadGone DEF Web!Who, Web!Msg, TInv, Sane
<1>3. toNode[1] = Head(toNode) /\ toNode[1].of = b /\ 1 \in 1 .. Len(toNode) /\ toNode' \in Seq(Web!Msg)
  BY <1>1, <1>2, HeadGone DEF Web!Who, TInv, Sane
<1>4. ~Silent(b)
  BY <1>3 DEF Silent
<1>5. PICK ms \in Seq(Web!Msg) : (\A i \in 1 .. Len(ms) : ms[i].of = b) /\ fromNode' = fromNode \o ms
  <2>1. <<>> \in Seq(Web!Msg) /\ fromNode' = fromNode \o <<>>
    BY <1>1 DEF TInv, Sane
  <2>2. \A i \in 1 .. Len(<<>>) : <<>>[i].of = b
    OBVIOUS
  <2> QED BY <2>1, <2>2, Zenon
<1>6. CASE Web!NodeInput
  <2>1. /\ bridge' \in [Browsers -> {"off", "same", "changed"}]
        /\ \A c \in Browsers : bridge'[c] = "off" <=> bridge[c] = "off"
    BY <1>6 DEF Web!NodeInput, TInv, Sane
  <2>2. Sane'
    BY <1>1, <1>3, <2>1 DEF TInv, Sane
  <2>3. ASSUME NEW c \in Browsers, c # b PROVE Kept(c)'
    BY <1>1, <1>5, <2>1, <2>2, <2>3, OthersUntold
  <2>4. Kept(b)'
    <3>1. FramesFed(b)' /\ ShownFed(b)'
      BY <1>1, <2>1 DEF TInv, Kept, FramesFed, ShownFed, Fed
    <3> QED BY <1>1, <1>4, <2>2, <3>1, OwnTold
  <2> QED BY <2>2, <2>3, <2>4 DEF TInv
<1>7. CASE Web!NodeClose
  <2>1. bridge' = [bridge EXCEPT ![b] = "off"] /\ toNode[1].type = "close"
    BY <1>2, <1>3, <1>7 DEF Web!NodeClose, Web!NodeTakes, Web!StopTerminalBridge
  <2>2. Sane'
    BY <1>1, <1>3, <2>1 DEF TInv, Sane
  <2>3. ASSUME NEW c \in Browsers, c # b PROVE Kept(c)'
    <3>1. bridge'[c] = "off" <=> bridge[c] = "off"
      BY <2>1, <2>3 DEF TInv, Sane
    <3> QED BY <1>1, <1>5, <2>2, <2>3, <3>1, OthersUntold
  <2>4. Kept(b)'
    <3>1. page[b] # "open"
      BY <1>3, <2>1 DEF TInv, Kept, Subscribed
    <3> QED BY <1>1, <1>4, <2>2, <3>1, OwnTold
  <2> QED BY <2>2, <2>3, <2>4 DEF TInv
<1> QED BY <1>6, <1>7

\* Every step keeps the invariant.
LEMMA NextTInv == TInv /\ [Web!Next]_(Web!vars) => TInv'
<1> SUFFICES ASSUME TInv, [Web!Next]_(Web!vars) PROVE TInv'
  OBVIOUS
<1>1. CASE \E s \in Names : Web!UserCreates(s) \/ Web!SessionEnds(s) \/ Web!TmuxKillOwnedSession(s)
  <2>1. PICK T : Web!Sessions(T)
    BY <1>1, Zenon DEF Web!UserCreates, Web!SessionEnds, Web!TmuxKillOwnedSession
  <2>2. bridge' \in [Browsers -> {"off", "same", "changed"}]
    BY <2>1 DEF Web!Sessions, Web!Repaint, TInv, Sane
  <2> QED BY <2>1, <2>2, SessionsKeep
<1>2. CASE Web!RelayNoticesNode \/ Web!DaemonReconnects \/ UNCHANGED Web!vars
  BY <1>2, SessionsKeep
<1>3. CASE \E b \in Browsers : \/ Web!UpgradeRefused(b) \/ Web!StartRemoteTerminal(b) \/ Web!RelayError(b)
             \/ Web!BrowserCloses(b)
                               \/ Web!StartLocalTerminal(b) \/ Web!LocalPollEnds(b) \/ Web!LocalCloses(b)
  BY <1>3, PageKeeps
<1>4. CASE \E b \in Browsers : Web!RelayOpens(b) \/ Web!BrowserTypes(b)
  BY <1>4, BridgeKeeps
<1>10. CASE \E b \in Browsers : Web!RelayBreaks(b) \/ Web!BrowserErrors(b)
  BY <1>10, BrokenPageKeeps
<1>5. CASE \E b \in Browsers : Web!RelayTerminalOpen(b) \/ Web!RelayTerminalForward(b) \/ Web!RelayTerminalBye(b)
  BY <1>5, RelayKeeps
<1>6. CASE Web!RelayTerminalFanout
  BY <1>6, FanoutKeeps
<1>7. CASE \/ Web!NodeOpenRefused \/ Web!NodeOpenAttaches \/ Web!NodeOpenCreates
           \/ \E b \in Browsers : Web!PumpEnds(b) \/ Web!PumpFrame(b)
  BY <1>7, NodeSays
<1>8. CASE Web!NodeInput \/ Web!NodeClose
  BY <1>8, NodeHears
<1>9. CASE Web!DaemonDrops \/ Web!RelayRestarts \/ Web!TerminalServerDies
  BY <1>9, FaultsKeep
<1> QED BY <1>1, <1>2, <1>3, <1>4, <1>5, <1>6, <1>7, <1>8, <1>9, <1>10, Zenon DEF Web!Next

\* A page that shows a live pane has a live pump, or the message that its session ended is on its way, or
\* the connection of its node was cut: however many pages of one session come and go, whatever users do to
\* tmux's sessions, and through any number of lost connections and deaths of the relay and the server.
THEOREM PanesAreLive == Web!Spec => []ShownIsPumped
<1>1. TInv => ShownIsPumped
  BY DEF TInv, Kept, ShownFed, Fed, Web!M, ShownIsPumped
<1> QED BY <1>1, InitTInv, NextTInv, PTL DEF Web!Spec
===============================================================================
