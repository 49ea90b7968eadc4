----------------------------- MODULE RelayRouting -----------------------------
(***************************************************************************)
(* The relay (src/relay/server.ts) between node daemons and one-shot       *)
(* clients (src/relay/client.ts): pairing, registration, reconnection with *)
(* stale sockets, routing of requests by node or by run ownership, acks,   *)
(* client timeouts and relay restarts. Each daemon connection is a pair of *)
(* FIFO channels; each request has a client socket of its own.             *)
(***************************************************************************)
EXTENDS Integers, Sequences, FiniteSets, SequencesExt

CONSTANTS Nodes,          \* node ids, one daemon each
          Conns,          \* bound: daemon connections ever opened
          Starts,         \* bound: run_start requests; a run is named after its request
          Calls,          \* bound: other requests, about a run or to a node
          None,
          RequirePairing, \* --require-pairing
          MaxRestarts     \* bound: restarts of the relay

ASSUME RelayAssumption ==
  /\ Starts \cap Calls = {} /\ None \notin Nodes \cup Conns \cup Starts
  /\ RequirePairing \in BOOLEAN /\ MaxRestarts \in Nat

VARIABLES
  daemon,   \* daemon[n]: [st, conn], the loop of relayNodeDaemon
  sock,     \* sock[c]: [st, node, toRelay, toNode], one daemon connection
  registry, \* registry[n]: the connection registered for n
  latest,   \* history: the connection whose node_register the relay last accepted for n
  owner,    \* owner[s]: runOwnership
  pending,  \* requests waiting for a node's ack (the pending maps)
  paired,   \* pairedIdentities, kept in the pairings file
  cli,      \* cli[q]: [st, kind, node, run, answer], the client of a request
  runs,     \* runs[s]: [node, live], the run started by s and the node that holds it
  acted,    \* acted[q]: how often a node carried out q
  restarts

vars == <<daemon, sock, registry, latest, owner, pending, paired, cli, runs, acted, restarts>>

Reqs == Starts \cup Calls
RunKinds == {"run_stop", "encrypted_run_stop", "run_status", "run_result", "approval_response"}
NodeKinds == {"workspace_lease", "workspace_revision", "terminal_list", "terminal_kill"}
StartKinds == {"run_start", "encrypted_run_start"}
Kinds == RunKinds \cup NodeKinds \cup StartKinds \cup {"node_pair", "none"}
Verdicts == {"ok", "refused", "failed"}  \* of a node: failed is internal_error, the handler threw
Answers == {"none", "unroutable", "timeout"} \cup Verdicts
Msg == [type : {"register", "registered", "rejected", "request"} \cup Verdicts, req : Reqs \cup {None}]
M(type, q) == [type |-> type, req |-> q]

Daemons == [st : {"off", "open", "registered", "exited"}, conn : Conns \cup {None}]
Sockets == [st : {"new", "open", "gone", "closed"}, node : Nodes \cup {None}, toRelay : Seq(Msg), toNode : Seq(Msg)]
Clients == [st : {"idle", "sent", "routed", "settled", "closed"}, kind : Kinds,
            node : Nodes \cup {None}, run : Starts \cup {None}, answer : Answers]
Runs == [node : Nodes \cup {None}, live : BOOLEAN]

TypeOK ==
  /\ daemon \in [Nodes -> Daemons] /\ sock \in [Conns -> Sockets]
  /\ registry \in [Nodes -> Conns \cup {None}] /\ latest \in [Nodes -> Conns \cup {None}]
  /\ owner \in [Starts -> Nodes \cup {None}]
  /\ pending \subseteq Reqs /\ paired \subseteq Nodes
  /\ cli \in [Reqs -> Clients] /\ runs \in [Starts -> Runs]
  /\ acted \in [Reqs -> Nat] /\ restarts \in 0 .. MaxRestarts

Init ==
  /\ daemon = [n \in Nodes |-> [st |-> "off", conn |-> None]]
  /\ sock = [c \in Conns |-> [st |-> "new", node |-> None, toRelay |-> <<>>, toNode |-> <<>>]]
  /\ registry = [n \in Nodes |-> None] /\ latest = [n \in Nodes |-> None] /\ owner = [s \in Starts |-> None]
  /\ pending = {} /\ paired \in SUBSET Nodes
  /\ cli = [q \in Reqs |-> [st |-> "idle", kind |-> "none", node |-> None, run |-> None, answer |-> "none"]]
  /\ runs = [s \in Starts |-> [node |-> None, live |-> FALSE]] /\ acted = [q \in Reqs |-> 0] /\ restarts = 0

\* sendMsg: a socket that is not open swallows the message.
ToNode(S, c, m) == [S EXCEPT ![c].toNode = IF S[c].st = "open" THEN Append(@, m) ELSE @]
ToRelay(S, c, m) == [S EXCEPT ![c].toRelay = IF S[c].st = "open" THEN Append(@, m) ELSE @]

-----------------------------------------------------------------------------
(* The daemon *)

\* connectOnce: a new socket, with node_register as its first message.
DaemonConnect(n, c) ==
  /\ daemon[n].st = "off" /\ sock[c].st = "new"
  /\ daemon' = [daemon EXCEPT ![n] = [st |-> "open", conn |-> c]]
  /\ sock' = [sock EXCEPT ![c] = [st |-> "open", node |-> n, toRelay |-> <<M("register", None)>>, toNode |-> <<>>]]
  /\ UNCHANGED <<registry, latest, owner, pending, paired, cli, runs, acted, restarts>>

NextForNode(n, type) ==
  LET c == daemon[n].conn IN
  c # None /\ sock[c].toNode # <<>> /\ Head(sock[c].toNode).type = type

Take(n) == sock' = [sock EXCEPT ![daemon[n].conn].toNode = Tail(@)]

DaemonRegistered(n) ==
  /\ NextForNode(n, "registered") /\ Take(n)
  /\ daemon' = [daemon EXCEPT ![n].st = "registered"]
  /\ UNCHANGED <<registry, latest, owner, pending, paired, cli, runs, acted, restarts>>

\* A rejected registration is fatal: the daemon closes its socket and exits.
DaemonRejected(n) ==
  /\ NextForNode(n, "rejected")
  /\ sock' = [sock EXCEPT ![daemon[n].conn].st = "gone"]
  /\ daemon' = [daemon EXCEPT ![n] = [st |-> "exited", conn |-> None]]
  /\ UNCHANGED <<registry, latest, owner, pending, paired, cli, runs, acted, restarts>>

\* The connection drops on the node's side; the relay notices later. The loop backs off.
DaemonDrops(n) ==
  /\ daemon[n].st \in {"open", "registered"}
  /\ sock' = [sock EXCEPT ![daemon[n].conn].st = "gone"]
  /\ daemon' = [daemon EXCEPT ![n] = [st |-> "off", conn |-> None]]
  /\ UNCHANGED <<registry, latest, owner, pending, paired, cli, runs, acted, restarts>>

\* The request at the head of n's channel is of one of these kinds.
Handling(n, kinds) == NextForNode(n, "request") /\ cli[Head(sock[daemon[n].conn].toNode).req].kind \in kinds
Req(n) == Head(sock[daemon[n].conn].toNode).req
RunHere(n, q) == runs[cli[q].run].node = n

\* The ack goes out on the socket the request came from.
Ack(n, verdict) ==
  LET c == daemon[n].conn  q == Req(n) IN
  /\ sock' = ToRelay([sock EXCEPT ![c].toNode = Tail(@)], c, M(verdict, q))
  /\ acted' = IF verdict = "ok" THEN [acted EXCEPT ![q] = @ + 1] ELSE acted

Started(n) == [runs EXCEPT ![Req(n)] = [node |-> n, live |-> TRUE]]
Stopped(n) == [runs EXCEPT ![cli[Req(n)].run].live = FALSE]

\* handleRunStart: the run exists before the ack; a start the node does not admit is refused.
HandleRunStart(n) ==
  /\ Handling(n, StartKinds)
  /\ \/ Ack(n, "ok") /\ runs' = Started(n)
     \/ Ack(n, "refused") /\ UNCHANGED runs
  /\ UNCHANGED <<daemon, registry, latest, owner, pending, paired, cli, restarts>>

\* The handler of a start throws, before or after the backend started the run: the ack is an error.
RunStartThrows(n) ==
  /\ Handling(n, StartKinds) /\ Ack(n, "failed")
  /\ runs' \in {runs, Started(n)}
  /\ UNCHANGED <<daemon, registry, latest, owner, pending, paired, cli, restarts>>

\* The handler of a stop throws, before or after the run was stopped.
RunStopThrows(n) ==
  /\ Handling(n, {"run_stop", "encrypted_run_stop"}) /\ Ack(n, "failed")
  /\ runs' \in {runs, IF RunHere(n, Req(n)) THEN Stopped(n) ELSE runs}
  /\ UNCHANGED <<daemon, registry, latest, owner, pending, paired, cli, restarts>>

\* The handler of a status request throws.
RunStatusThrows(n) ==
  /\ Handling(n, {"run_status"}) /\ Ack(n, "failed")
  /\ UNCHANGED <<daemon, registry, latest, owner, pending, paired, cli, runs, restarts>>

\* handleEncryptedRunStart: without a node key, or when the payload does not decrypt, the start is
\* refused; otherwise handleRunStart goes on with the payload.
HandleEncryptedRunStart(n) ==
  /\ Handling(n, {"encrypted_run_start"}) /\ Ack(n, "refused")
  /\ UNCHANGED <<daemon, registry, latest, owner, pending, paired, cli, runs, restarts>>

\* runStopLogic: an unknown or ended run is an error ack; otherwise its processes are signalled and
\* the run is stopped.
HandleRunStop(n) ==
  /\ Handling(n, {"run_stop", "encrypted_run_stop"})
  /\ IF RunHere(n, Req(n)) /\ runs[cli[Req(n)].run].live
     THEN Ack(n, "ok") /\ runs' = Stopped(n)
     ELSE Ack(n, "refused") /\ UNCHANGED runs
  /\ UNCHANGED <<daemon, registry, latest, owner, pending, paired, cli, restarts>>

\* handleEncryptedRunStop: without a stop key, or when the payload does not decrypt, an error ack.
HandleEncryptedRunStop(n) ==
  /\ Handling(n, {"encrypted_run_stop"}) /\ Ack(n, "refused")
  /\ UNCHANGED <<daemon, registry, latest, owner, pending, paired, cli, runs, restarts>>

\* handleRunStatus and run_result_request: reads of the run's record.
ReadRun(n, kind) ==
  /\ Handling(n, {kind}) /\ Ack(n, IF RunHere(n, Req(n)) THEN "ok" ELSE "refused")
  /\ UNCHANGED <<daemon, registry, latest, owner, pending, paired, cli, runs, restarts>>
HandleRunStatus(n) == ReadRun(n, "run_status")
HandleRunResult(n) == ReadRun(n, "run_result")

\* handleEncryptedApprovalResponse: the decision is logged and acked. A missing key or a payload
\* that does not decrypt yields an error without a request id, which the relay drops.
HandleApproval(n) ==
  /\ Handling(n, {"approval_response"})
  /\ \/ RunHere(n, Req(n)) /\ Ack(n, "ok")
     \/ Take(n) /\ UNCHANGED acted
  /\ UNCHANGED <<daemon, registry, latest, owner, pending, paired, cli, runs, restarts>>

\* Lease and revision requests: a total handler, always one ack.
HandleLease(n) ==
  /\ Handling(n, {"workspace_lease", "workspace_revision"})
  /\ \E verdict \in {"ok", "refused"} : Ack(n, verdict)
  /\ UNCHANGED <<daemon, registry, latest, owner, pending, paired, cli, runs, restarts>>

\* terminal_session_list and terminal_session_kill.
HandleTerminalSession(n) ==
  /\ Handling(n, {"terminal_list", "terminal_kill"})
  /\ \E verdict \in {"ok", "refused"} : Ack(n, verdict)
  /\ UNCHANGED <<daemon, registry, latest, owner, pending, paired, cli, runs, restarts>>

\* The run ends by itself.
RunEnds(s) ==
  /\ runs[s].live /\ runs' = [runs EXCEPT ![s].live = FALSE]
  /\ UNCHANGED <<daemon, sock, registry, latest, owner, pending, paired, cli, acted, restarts>>

-----------------------------------------------------------------------------
(* The relay *)

\* What a daemon sent before its connection dropped may still be read, until the relay handles the
\* close of the socket.
NextForRelay(c, types) ==
  sock[c].st \in {"open", "gone"} /\ sock[c].toRelay # <<>> /\ Head(sock[c].toRelay).type \in types

\* node_register: an unpaired node is rejected; otherwise the socket it came on replaces the
\* entry, even one that its daemon already left for a newer one.
RelayRegister(c) ==
  /\ NextForRelay(c, {"register"})
  /\ LET n == sock[c].node  S == [sock EXCEPT ![c].toRelay = Tail(@)] IN
     IF RequirePairing /\ n \notin paired
     THEN sock' = ToNode(S, c, M("rejected", None)) /\ UNCHANGED <<registry, latest>>
     ELSE /\ sock' = ToNode(S, c, M("registered", None))
          /\ registry' = [registry EXCEPT ![n] = c] /\ latest' = [latest EXCEPT ![n] = c]
  /\ UNCHANGED <<daemon, owner, pending, paired, cli, runs, acted, restarts>>

\* Mutant of RelayNodeClose: any closing socket deregisters its node.
RelayNodeCloseAny(c) ==
  /\ sock[c].st = "gone" /\ sock' = [sock EXCEPT ![c].st = "closed", ![c].toRelay = <<>>, ![c].toNode = <<>>]
  /\ registry' = [registry EXCEPT ![sock[c].node] = None]
  /\ UNCHANGED <<daemon, latest, owner, pending, paired, cli, runs, acted, restarts>>

\* The close handler for a daemon's socket: only the current socket deregisters the node.
RelayNodeClose(c) ==
  /\ sock[c].st = "gone" /\ sock' = [sock EXCEPT ![c].st = "closed", ![c].toRelay = <<>>, ![c].toNode = <<>>]
  /\ registry' = [registry EXCEPT ![sock[c].node] = IF @ = c THEN None ELSE @]
  /\ UNCHANGED <<daemon, latest, owner, pending, paired, cli, runs, acted, restarts>>

\* Where a request goes: to the node it names, or to the owner of the run it names.
Route(q) ==
  LET n == IF cli[q].run = None THEN cli[q].node ELSE owner[cli[q].run] IN
  IF n = None THEN None ELSE registry[n]

Settle(q, a) == cli' = [cli EXCEPT ![q].st = "settled", ![q].answer = a]

\* node_pair_request, which the relay answers itself: stored and saved before the ack.
Pair(q) ==
  /\ cli[q].st = "sent" /\ cli[q].kind = "node_pair"
  /\ paired' = paired \cup {cli[q].node} /\ Settle(q, "ok")
  /\ acted' = [acted EXCEPT ![q] = @ + 1]
  /\ UNCHANGED <<daemon, sock, registry, latest, owner, pending, runs, restarts>>

\* Mutant of RelayRequest: a request that finds no route is still sent to any node.
RelayRequestGuess(q) ==
  /\ cli[q].st = "sent"
  /\ IF Route(q) = None
     THEN /\ Settle(q, "unroutable") /\ UNCHANGED pending
          /\ \E c \in Conns : sock' = ToNode(sock, c, M("request", q))
     ELSE /\ cli' = [cli EXCEPT ![q].st = "routed"] /\ pending' = pending \cup {q}
          /\ sock' = ToNode(sock, Route(q), M("request", q))
  /\ UNCHANGED <<daemon, registry, latest, owner, paired, runs, acted, restarts>>

\* A request arrives: forwarded verbatim, or answered at once that it has no route.
RelayRequest(q) ==
  /\ cli[q].st = "sent"
  /\ IF Route(q) = None
     THEN Settle(q, "unroutable") /\ UNCHANGED <<sock, pending>>
     ELSE /\ cli' = [cli EXCEPT ![q].st = "routed"] /\ pending' = pending \cup {q}
          /\ sock' = ToNode(sock, Route(q), M("request", q))
  /\ UNCHANGED <<daemon, registry, latest, owner, paired, runs, acted, restarts>>

\* Mutant of RelayAck: a refused start also gets an owner.
RelayAckAny(c) ==
  /\ NextForRelay(c, Verdicts)
  /\ LET m == Head(sock[c].toRelay)  q == m.req IN
     /\ sock' = [sock EXCEPT ![c].toRelay = Tail(@)]
     /\ pending' = pending \ {q}
     /\ IF q \in pending THEN Settle(q, m.type) ELSE UNCHANGED cli
     /\ owner' = IF q \in Starts THEN [owner EXCEPT ![q] = sock[c].node] ELSE owner
  /\ UNCHANGED <<daemon, registry, latest, paired, runs, acted, restarts>>

\* A node's ack: to the requester if it still waits; a started run gets its owner either way.
RelayAck(c) ==
  /\ NextForRelay(c, Verdicts)
  /\ LET m == Head(sock[c].toRelay)  q == m.req IN
     /\ sock' = [sock EXCEPT ![c].toRelay = Tail(@)]
     /\ pending' = pending \ {q}
     /\ IF q \in pending THEN Settle(q, m.type) ELSE UNCHANGED cli
     /\ owner' = IF q \in Starts /\ m.type = "ok" THEN [owner EXCEPT ![q] = sock[c].node] ELSE owner
  /\ UNCHANGED <<daemon, registry, latest, paired, runs, acted, restarts>>

\* One case of the relay's switch per request: by the node it names ...
RouteRunStart(q) == cli[q].kind = "run_start" /\ RelayRequest(q)
RouteEncryptedRunStart(q) == cli[q].kind = "encrypted_run_start" /\ RelayRequest(q)
RouteTerminalList(q) == cli[q].kind = "terminal_list" /\ RelayRequest(q)
RouteTerminalKill(q) == cli[q].kind = "terminal_kill" /\ RelayRequest(q)
RouteLease(q) == cli[q].kind = "workspace_lease" /\ RelayRequest(q)
RouteRevision(q) == cli[q].kind = "workspace_revision" /\ RelayRequest(q)
\* ... or by the owner of its run.
RouteRunStop(q) == cli[q].kind = "run_stop" /\ RelayRequest(q)
RouteEncryptedRunStop(q) == cli[q].kind = "encrypted_run_stop" /\ RelayRequest(q)
RouteRunStatus(q) == cli[q].kind = "run_status" /\ RelayRequest(q)
RouteRunResult(q) == cli[q].kind = "run_result" /\ RelayRequest(q)
RouteApproval(q) == cli[q].kind = "approval_response" /\ RelayRequest(q)

\* One case per ack.
AckOf(c, kinds) == RelayAck(c) /\ cli[Head(sock[c].toRelay).req].kind \in kinds
RunStartAck(c) == AckOf(c, StartKinds)
RunStopAck(c) == AckOf(c, {"run_stop"})
EncryptedRunStopAck(c) == AckOf(c, {"encrypted_run_stop"})
RunStatusAck(c) == AckOf(c, {"run_status"})
RunResultAck(c) == AckOf(c, {"run_result"})
ApprovalAck(c) == AckOf(c, {"approval_response"})
LeaseAck(c) == AckOf(c, {"workspace_lease", "workspace_revision"})
TerminalSessionAck(c) == AckOf(c, {"terminal_list", "terminal_kill"})

\* The relay process restarts: only the pairings file survives.
RelayRestart ==
  /\ restarts < MaxRestarts /\ restarts' = restarts + 1
  /\ sock' = [c \in Conns |-> IF sock[c].st = "new" THEN sock[c]
                              ELSE [sock[c] EXCEPT !.st = "closed", !.toRelay = <<>>, !.toNode = <<>>]]
  /\ daemon' = [n \in Nodes |-> IF daemon[n].st = "exited" THEN daemon[n] ELSE [st |-> "off", conn |-> None]]
  /\ registry' = [n \in Nodes |-> None] /\ latest' = [n \in Nodes |-> None]
  /\ owner' = [s \in Starts |-> None] /\ pending' = {}
  /\ cli' = [q \in Reqs |-> IF cli[q].st \in {"sent", "routed"}
                            THEN [cli[q] EXCEPT !.st = "closed", !.answer = "timeout"] ELSE cli[q]]
  /\ UNCHANGED <<paired, runs, acted>>

-----------------------------------------------------------------------------
(* Clients *)

Ask(q, kind, n, s) ==
  /\ cli[q].st = "idle"
  /\ cli' = [cli EXCEPT ![q] = [st |-> "sent", kind |-> kind, node |-> n, run |-> s, answer |-> "none"]]
  /\ UNCHANGED <<daemon, sock, registry, latest, owner, pending, paired, runs, acted, restarts>>

\* remoteRunStart encrypts when the node published a key.
RemoteRunStart(q, n, kind) == q \in Starts /\ Ask(q, kind, n, None)
OneShotLease(q, n) == q \in Calls /\ Ask(q, "workspace_lease", n, None)
RemoteWorkspaceRevisionObserve(q, n) == q \in Calls /\ Ask(q, "workspace_revision", n, None)
\* relayNodePair: its record in paired_relays.json is written when the ack arrives.
RelayNodePair(q, n) == q \in Calls /\ Ask(q, "node_pair", n, None)
RemoteTerminalList(q, n) == q \in Calls /\ Ask(q, "terminal_list", n, None)
RemoteTerminalKill(q, n) == q \in Calls /\ Ask(q, "terminal_kill", n, None)

\* The other requests name a run the client was told of.
Known(q, s) == q \in Calls /\ cli[s].answer = "ok"
\* remoteStop encrypts when this machine kept the stop key of an encrypted start.
RemoteStop(q, s, kind) ==
  /\ Known(q, s) /\ (kind = "encrypted_run_stop" => cli[s].kind = "encrypted_run_start")
  /\ Ask(q, kind, None, s)
RemoteRunStatus(q, s) == Known(q, s) /\ Ask(q, "run_status", None, s)
RemoteRunResult(q, s) == Known(q, s) /\ Ask(q, "run_result", None, s)
RemoteApprovalRespond(q, s) == Known(q, s) /\ Ask(q, "approval_response", None, s)

\* Ten seconds without an ack: the client gives up and terminates its socket.
ClientTimeout(q) ==
  /\ cli[q].st \in {"sent", "routed"}
  /\ cli' = [cli EXCEPT ![q].st = "settled", ![q].answer = "timeout"]
  /\ UNCHANGED <<daemon, sock, registry, latest, owner, pending, paired, runs, acted, restarts>>

\* The close handler for a client's socket: its pending entry goes.
RelayClientClose(q) ==
  /\ cli[q].st = "settled" /\ cli' = [cli EXCEPT ![q].st = "closed"] /\ pending' = pending \ {q}
  /\ UNCHANGED <<daemon, sock, registry, latest, owner, paired, runs, acted, restarts>>

Next ==
  \/ \E n \in Nodes, c \in Conns : DaemonConnect(n, c)
  \/ \E n \in Nodes : DaemonRegistered(n)
  \/ \E n \in Nodes : DaemonRejected(n)
  \/ \E n \in Nodes : DaemonDrops(n)
  \/ \E n \in Nodes : HandleRunStart(n)
  \/ \E n \in Nodes : RunStartThrows(n)
  \/ \E n \in Nodes : RunStopThrows(n)
  \/ \E n \in Nodes : RunStatusThrows(n)
  \/ \E n \in Nodes : HandleRunStop(n)
  \/ \E n \in Nodes : HandleEncryptedRunStart(n)
  \/ \E n \in Nodes : HandleEncryptedRunStop(n)
  \/ \E n \in Nodes : HandleRunStatus(n)
  \/ \E n \in Nodes : HandleRunResult(n)
  \/ \E n \in Nodes : HandleApproval(n)
  \/ \E n \in Nodes : HandleLease(n)
  \/ \E n \in Nodes : HandleTerminalSession(n)
  \/ \E s \in Starts : RunEnds(s)
  \/ \E q \in Calls : Pair(q)
  \/ \E c \in Conns : RelayRegister(c)
  \/ \E c \in Conns : RelayNodeClose(c)
  \/ \E q \in Reqs : RouteRunStart(q)
  \/ \E q \in Reqs : RouteEncryptedRunStart(q)
  \/ \E q \in Reqs : RouteTerminalList(q)
  \/ \E q \in Reqs : RouteTerminalKill(q)
  \/ \E q \in Reqs : RouteLease(q)
  \/ \E q \in Reqs : RouteRevision(q)
  \/ \E q \in Reqs : RouteRunStop(q)
  \/ \E q \in Reqs : RouteEncryptedRunStop(q)
  \/ \E q \in Reqs : RouteRunStatus(q)
  \/ \E q \in Reqs : RouteRunResult(q)
  \/ \E q \in Reqs : RouteApproval(q)
  \/ \E c \in Conns : RunStartAck(c)
  \/ \E c \in Conns : RunStopAck(c)
  \/ \E c \in Conns : EncryptedRunStopAck(c)
  \/ \E c \in Conns : RunStatusAck(c)
  \/ \E c \in Conns : RunResultAck(c)
  \/ \E c \in Conns : ApprovalAck(c)
  \/ \E c \in Conns : LeaseAck(c)
  \/ \E c \in Conns : TerminalSessionAck(c)
  \/ \E q \in Reqs, n \in Nodes, kind \in StartKinds : RemoteRunStart(q, n, kind)
  \/ \E q \in Reqs, n \in Nodes : OneShotLease(q, n)
  \/ \E q \in Reqs, n \in Nodes : RemoteWorkspaceRevisionObserve(q, n)
  \/ \E q \in Reqs, n \in Nodes : RelayNodePair(q, n)
  \/ \E q \in Reqs, n \in Nodes : RemoteTerminalList(q, n)
  \/ \E q \in Reqs, n \in Nodes : RemoteTerminalKill(q, n)
  \/ \E q \in Reqs, s \in Starts, kind \in {"run_stop", "encrypted_run_stop"} : RemoteStop(q, s, kind)
  \/ \E q \in Reqs, s \in Starts : RemoteRunStatus(q, s)
  \/ \E q \in Reqs, s \in Starts : RemoteRunResult(q, s)
  \/ \E q \in Reqs, s \in Starts : RemoteApprovalRespond(q, s)
  \/ \E q \in Reqs : ClientTimeout(q)
  \/ \E q \in Reqs : RelayClientClose(q)
  \/ RelayRestart

Spec == Init /\ [][Next]_vars

-----------------------------------------------------------------------------
(* Properties *)

\* The identity guard of the close handler: a daemon that was told it is registered, and whose
\* node_register is the last one the relay accepted for the node, is reachable through exactly its
\* socket while that is open, however late older sockets of the node close. (A node_register of an
\* older socket that the relay reads after the newer one's takes the entry over, and the close of
\* that socket then removes it: the node stays online but unreachable until it connects again.)
RegisteredIsReachable ==
  \A n \in Nodes :
    daemon[n].st = "registered" /\ sock[daemon[n].conn].st = "open" /\ latest[n] = daemon[n].conn
      => registry[n] = daemon[n].conn

\* runOwnership: a run is routed only to the node that holds it, and the ack that told a client of
\* the run made it routable, until the relay restarts.
OwnershipTrue ==
  \A s \in Starts :
    /\ owner[s] # None => runs[s].node = owner[s]
    /\ cli[s].answer = "ok" /\ restarts = 0 => owner[s] # None

\* Request routing: an answer of a node is true, an answer of the relay that there is no route is
\* definite; no node carries out such a request later, none carries one out twice, and a stopped run stays
\* stopped.
AnswersTrue ==
  \A q \in Reqs :
    /\ cli[q].answer = "ok" => acted[q] = 1
    /\ cli[q].answer \in {"refused", "unroutable"} => acted[q] = 0
    /\ acted[q] <= 1
    /\ cli[q].kind \in {"run_stop", "encrypted_run_stop"} /\ cli[q].answer = "ok" => ~runs[cli[q].run].live
    /\ cli[q].kind = "node_pair" /\ cli[q].answer = "ok" => cli[q].node \in paired

=============================================================================
