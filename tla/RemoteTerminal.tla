---------------------------- MODULE RemoteTerminal ----------------------------
(***************************************************************************)
(* Web terminals: a browser page, the terminal server's bridge             *)
(* (src/lib/terminal-web.ts, terminal-remote.ts), the relay's terminal_*   *)
(* routing, the Node daemon's capture-pane pumps (src/relay/client.ts) and *)
(* tmux, which finds a session by its exact name or by a prefix of it. The *)
(* control token and the payloads are left out: a page is authorized or    *)
(* not, and a frame is what the pane shows.                                *)
(***************************************************************************)
EXTENDS PaneContract, FiniteSets

CONSTANTS Names,        \* tmux session names
          SafeNames,    \* isSafeSessionName
          Wants,        \* bound: what pages ask for, [session, create]
          Longer,       \* Longer[s]: the names that s is a proper prefix of
          AllowCreate,  \* --allow-terminal-create
          MaxChurn,     \* bound: sessions made and ended by users, and keystrokes
          MaxFaults     \* bound: lost node connections, broken sockets, relay restarts, deaths of the
                        \* terminal server

ASSUME TerminalAssumption ==
  /\ SafeNames \subseteq Names /\ Wants \subseteq [session : SafeNames, create : BOOLEAN]
  /\ Longer \in [Names -> SUBSET Names]
  /\ AllowCreate \in BOOLEAN /\ MaxChurn \in Nat /\ MaxFaults \in Nat

VARIABLES
  want,     \* want[b]: [session, create], from the URL
  up,       \* up[b]: bridge -> relay
  subs,     \* terminalSubscribers: the bridges that get a session id's output
  link,     \* the daemon's relay connection, and whether the relay's registry has it
  toNode,   \* relay -> node
  tmux,     \* tmux[s]: "none", or who created the session
  orphans,  \* history: the pages whose open relay socket went without a terminal_close
  faults, churn

vars == <<page, want, up, subs, link, toNode, fromNode, bridge, tmux, shows, cut, orphans, faults, churn>>

Msg == [type : {"open", "input", "close", "bye", "ok", "failed", "error", "frame", "ended"}, of : Browsers]
M(type, b) == [type |-> type, of |-> b]

TypeOK ==
  /\ page \in [Browsers -> {"idle", "local", "connecting", "open", "closed"}]
  /\ want \in [Browsers -> Wants]
  /\ up \in [Browsers -> Seq(Msg)] /\ subs \subseteq Browsers
  /\ link \in [up : BOOLEAN, registered : BOOLEAN]
  /\ toNode \in Seq(Msg) /\ fromNode \in Seq(Msg)
  /\ bridge \in [Browsers -> {"off", "same", "changed"}]
  /\ tmux \in [Names -> {"none", "user", "vibe"}]
  /\ shows \in [Browsers -> {"nothing", "frame", "failed", "ended"}]
  /\ cut \subseteq Browsers /\ orphans \subseteq Browsers /\ faults \in 0 .. MaxFaults /\ churn \in 0 .. MaxChurn

Init ==
  /\ page = [b \in Browsers |-> "idle"]
  /\ want \in [Browsers -> Wants]
  /\ up = [b \in Browsers |-> <<>>] /\ subs = {}
  /\ link = [up |-> TRUE, registered |-> TRUE] /\ toNode = <<>> /\ fromNode = <<>>
  /\ bridge = [b \in Browsers |-> "off"]
  /\ tmux = [s \in Names |-> "none"]
  /\ shows = [b \in Browsers |-> "nothing"] /\ cut = {} /\ orphans = {} /\ faults = 0 /\ churn = 0

relayVars == <<up, subs>>
nodeVars == <<link, toNode, fromNode, bridge>>
ghosts == <<cut, orphans, faults, churn>>
Churn == churn < MaxChurn /\ churn' = churn + 1

-----------------------------------------------------------------------------
(* tmux *)

\* The sessions `-t s` can mean: s itself, else the only one that starts with s.
Resolve(T, s) ==
  IF T[s] # "none" THEN {s}
  ELSE LET longer == {l \in Longer[s] : T[l] # "none"} IN IF Cardinality(longer) = 1 THEN longer ELSE {}

TmuxHasSession(s) == Resolve(tmux, s) # {}
TmuxIsOwned(s) == \E t \in Resolve(tmux, s) : tmux[t] = "vibe"

\* What the pumps see after the sessions become T: another pane where the name means another session.
Repaint(T) ==
  [b \in Browsers |-> IF bridge[b] # "off" /\ Resolve(T, want[b].session) # Resolve(tmux, want[b].session)
                    THEN "changed" ELSE bridge[b]]

Sessions(T) ==
  /\ tmux' = T /\ bridge' = Repaint(T)
  /\ UNCHANGED <<page, want, relayVars, link, toNode, fromNode, shows, cut, orphans, faults>>

UserCreates(s) == tmux[s] = "none" /\ Churn /\ Sessions([tmux EXCEPT ![s] = "user"])
SessionEnds(s) == tmux[s] # "none" /\ Churn /\ Sessions([tmux EXCEPT ![s] = "none"])

\* tmuxKillOwnedSession, for DELETE /api/sessions/<s> of the dashboard.
TmuxKillOwnedSession(s) ==
  /\ link.up /\ s \in SafeNames /\ TmuxHasSession(s) /\ TmuxIsOwned(s) /\ UNCHANGED churn
  /\ \E t \in Resolve(tmux, s) : Sessions([tmux EXCEPT ![t] = "none"])

-----------------------------------------------------------------------------
(* The terminal server *)

\* serveTerminal's upgrade: without the control token, or without a usable session name, no bridge.
UpgradeRefused(b) ==
  /\ page[b] = "idle" /\ page' = [page EXCEPT ![b] = "closed"]
  /\ UNCHANGED <<want, relayVars, nodeVars, tmux, shows, ghosts>>

\* bridgeRemoteTerminal: a relay socket of its own for each browser.
StartRemoteTerminal(b) ==
  /\ page[b] = "idle" /\ page' = [page EXCEPT ![b] = "connecting"]
  /\ UNCHANGED <<want, relayVars, nodeVars, tmux, shows, ghosts>>

RelayOpens(b) ==
  /\ page[b] = "connecting" /\ page' = [page EXCEPT ![b] = "open"]
  /\ up' = [up EXCEPT ![b] = Append(@, M("open", b))]
  /\ UNCHANGED <<want, subs, nodeVars, tmux, shows, ghosts>>

\* The relay refuses the connection: the page is told and closed.
RelayError(b) ==
  /\ page[b] = "connecting" /\ page' = [page EXCEPT ![b] = "closed"]
  /\ shows' = [shows EXCEPT ![b] = "failed"]
  /\ UNCHANGED <<want, relayVars, nodeVars, tmux, ghosts>>

\* The relay socket of an open page closes or fails: the page closes, told of a failure only. There is
\* no socket left for a terminal_close; what was sent before is still read, or lost.
RelayBreaks(b) ==
  /\ page[b] = "open" /\ faults < MaxFaults /\ faults' = faults + 1
  /\ page' = [page EXCEPT ![b] = "closed"] /\ shows' \in {shows, [shows EXCEPT ![b] = "failed"]}
  /\ up' \in {[up EXCEPT ![b] = <<M("bye", b)>>], [up EXCEPT ![b] = Append(@, M("bye", b))]}
  /\ orphans' = orphans \cup {b}
  /\ UNCHANGED <<want, subs, nodeVars, tmux, cut, churn>>

\* The bridge gets m from the relay: closeBoth on a failed open or an error. The relay socket is
\* closing by then, so the browser's close handler sends no terminal_close.
BridgeMessage(m) ==
  LET b == m.of  over == m.type \in {"failed", "error"} IN
  /\ shows' = [shows EXCEPT ![b] = IF over THEN "failed" ELSE IF m.type = "ok" THEN @ ELSE m.type]
  /\ page' = IF over THEN [page EXCEPT ![b] = "closed"] ELSE page
  /\ up' = IF over THEN [up EXCEPT ![b] = Append(@, M("bye", b))] ELSE up

\* Keystrokes, while the relay socket is open.
BrowserTypes(b) ==
  /\ page[b] = "open" /\ Churn
  /\ up' = [up EXCEPT ![b] = Append(@, M("input", b))]
  /\ UNCHANGED <<page, want, subs, nodeVars, tmux, shows, cut, orphans, faults>>

\* Mutant of BrowserCloses: the bridge only closes its relay socket.
BrowserClosesSilently(b) ==
  /\ page[b] \in {"connecting", "open"} /\ page' = [page EXCEPT ![b] = "closed"]
  /\ up' = IF page[b] = "open" THEN [up EXCEPT ![b] = Append(@, M("bye", b))] ELSE up
  /\ UNCHANGED <<want, subs, nodeVars, tmux, shows, ghosts>>

\* The browser leaves: terminal_close if the relay socket is open, then that socket closes.
BrowserCloses(b) ==
  /\ page[b] \in {"connecting", "open"} /\ page' = [page EXCEPT ![b] = "closed"]
  /\ up' = IF page[b] = "open" THEN [up EXCEPT ![b] = @ \o <<M("close", b), M("bye", b)>>] ELSE up
  /\ UNCHANGED <<want, subs, nodeVars, tmux, shows, ghosts>>

\* The browser's socket fails: closeBoth closes the relay socket first, so that the close handler
\* finds it closing and sends no terminal_close.
BrowserErrors(b) ==
  /\ page[b] \in {"connecting", "open"} /\ faults < MaxFaults /\ faults' = faults + 1
  /\ page' = [page EXCEPT ![b] = "closed"]
  /\ up' = IF page[b] = "open" THEN [up EXCEPT ![b] = Append(@, M("bye", b))] ELSE up
  /\ orphans' = IF page[b] = "open" THEN orphans \cup {b} ELSE orphans
  /\ UNCHANGED <<want, subs, nodeVars, tmux, shows, cut, churn>>

\* The process dies: its sockets close without terminal_close.
TerminalServerDies ==
  /\ faults < MaxFaults /\ faults' = faults + 1
  /\ orphans' = orphans \cup {b \in Browsers : page[b] = "open"}
  /\ page' = [b \in Browsers |-> IF page[b] = "idle" THEN "idle" ELSE "closed"]
  /\ up' = [b \in Browsers |-> IF page[b] = "open" THEN <<M("bye", b)>> ELSE up[b]]
  /\ UNCHANGED <<want, subs, nodeVars, tmux, shows, cut, churn>>

-----------------------------------------------------------------------------
(* A local terminal: bridgeSession, without a relay *)

StartLocalTerminal(b) ==
  /\ page[b] = "idle" /\ TmuxHasSession(want[b].session)
  /\ page' = [page EXCEPT ![b] = "local"] /\ shows' = [shows EXCEPT ![b] = "frame"]
  /\ UNCHANGED <<want, relayVars, nodeVars, tmux, ghosts>>

\* The poll finds no session: the page is told and closed.
LocalPollEnds(b) ==
  /\ page[b] = "local" /\ ~TmuxHasSession(want[b].session)
  /\ page' = [page EXCEPT ![b] = "closed"] /\ shows' = [shows EXCEPT ![b] = "ended"]
  /\ UNCHANGED <<want, relayVars, nodeVars, tmux, ghosts>>

LocalCloses(b) ==
  /\ page[b] = "local" /\ page' = [page EXCEPT ![b] = "closed"]
  /\ UNCHANGED <<want, relayVars, nodeVars, tmux, shows, ghosts>>

-----------------------------------------------------------------------------
(* The relay *)

\* sendMsg to the registered socket, which swallows the message once it is gone.
Forward(m) == toNode' = IF link.registered /\ link.up THEN Append(toNode, m) ELSE toNode

\* terminal_open: subscribe first, then forward; without a node the answer is node_offline.
RelayTerminalOpen(b) ==
  /\ up[b] # <<>> /\ Head(up[b]).type = "open" /\ subs' = subs \cup {b}
  /\ IF link.registered \/ page[b] # "open"
     THEN up' = [up EXCEPT ![b] = Tail(@)] /\ Forward(M("open", b)) /\ UNCHANGED <<page, shows>>
     ELSE /\ page' = [page EXCEPT ![b] = "closed"] /\ shows' = [shows EXCEPT ![b] = "failed"]
          /\ up' = [up EXCEPT ![b] = Append(Tail(@), M("bye", b))] /\ UNCHANGED toNode
  /\ UNCHANGED <<want, link, fromNode, bridge, tmux, ghosts>>

\* terminal_input and terminal_close go to the node, if there is one.
RelayTerminalForward(b) ==
  /\ up[b] # <<>> /\ Head(up[b]).type \in {"input", "close"}
  /\ up' = [up EXCEPT ![b] = Tail(@)] /\ Forward(Head(up[b]))
  /\ UNCHANGED <<page, want, subs, link, fromNode, bridge, tmux, shows, ghosts>>

\* The close handler of the bridge's socket.
RelayTerminalBye(b) ==
  /\ up[b] # <<>> /\ Head(up[b]).type = "bye"
  /\ up' = [up EXCEPT ![b] = Tail(@)] /\ subs' = subs \ {b}
  /\ UNCHANGED <<page, want, nodeVars, tmux, shows, ghosts>>

\* terminal_open_ack and terminal_output: to the subscribers of the session id.
RelayTerminalFanout ==
  /\ fromNode # <<>> /\ fromNode' = Tail(fromNode)
  /\ LET m == Head(fromNode) IN
     IF m.of \in subs /\ page[m.of] = "open" THEN BridgeMessage(m) ELSE UNCHANGED <<page, up, shows>>
  /\ UNCHANGED <<want, subs, link, toNode, bridge, tmux, ghosts>>

\* The relay learns that the node's socket is gone.
RelayNoticesNode ==
  /\ ~link.up /\ link.registered /\ link' = [link EXCEPT !.registered = FALSE]
  /\ UNCHANGED <<page, want, relayVars, toNode, fromNode, bridge, tmux, shows, ghosts>>

-----------------------------------------------------------------------------
(* The Node daemon *)

NodeTakes(type) == toNode # <<>> /\ Head(toNode).type = type /\ toNode' = Tail(toNode)
Who == Head(toNode).of
Send(ms) == fromNode' = fromNode \o ms

\* attachAndPump, the pumps being B: the ack, the first frame at once, then a poll that schedules
\* itself.
AttachAndPump(B, b) ==
  /\ bridge' = [B EXCEPT ![b] = "same"]
  /\ Send(<<M("ok", b), M("frame", b)>>)

\* There is no session, and none is made: not asked for, not allowed, or tmux fails.
NodeOpenRefused ==
  /\ NodeTakes("open") /\ ~TmuxHasSession(want[Who].session)
  /\ Send(<<M("failed", Who)>>)
  /\ UNCHANGED <<page, want, relayVars, link, bridge, tmux, shows, ghosts>>

NodeOpenAttaches ==
  /\ NodeTakes("open") /\ TmuxHasSession(want[Who].session) /\ AttachAndPump(bridge, Who)
  /\ UNCHANGED <<page, want, relayVars, link, tmux, shows, ghosts>>

\* tmuxCreateOwnedSession: created, and stamped as Vibe's.
NodeOpenCreates ==
  /\ NodeTakes("open") /\ ~TmuxHasSession(want[Who].session) /\ want[Who].create /\ AllowCreate
  /\ tmux' = [tmux EXCEPT ![want[Who].session] = "vibe"] /\ AttachAndPump(Repaint(tmux'), Who)
  /\ UNCHANGED <<page, want, relayVars, link, shows, ghosts>>

\* The pump finds no session: it says so and stops.
PumpEnds(b) ==
  /\ bridge[b] # "off" /\ ~TmuxHasSession(want[b].session)
  /\ bridge' = [bridge EXCEPT ![b] = "off"] /\ Send(<<M("ended", b)>>)
  /\ UNCHANGED <<page, want, relayVars, link, toNode, tmux, shows, ghosts>>

\* The pane changed since the last frame.
PumpFrame(b) ==
  /\ bridge[b] = "changed" /\ TmuxHasSession(want[b].session)
  /\ bridge' = [bridge EXCEPT ![b] = "same"] /\ Send(<<M("frame", b)>>)
  /\ UNCHANGED <<page, want, relayVars, link, toNode, tmux, shows, ghosts>>

\* Keys go to what the name means now; every pump of that session sees them.
NodeInput ==
  /\ NodeTakes("input")
  /\ bridge' = [b \in Browsers |->
       IF bridge[Who] # "off" /\ bridge[b] # "off"
          /\ Resolve(tmux, want[b].session) = Resolve(tmux, want[Who].session) THEN "changed" ELSE bridge[b]]
  /\ UNCHANGED <<page, want, relayVars, link, fromNode, tmux, shows, ghosts>>

\* Mutant of StopTerminalBridge: the pumps of the tmux session stop, not the one of the session id.
StopTerminalBridgeNamed(b) ==
  bridge' = [c \in Browsers |-> IF want[c].session = want[b].session THEN "off" ELSE bridge[c]]

StopTerminalBridge(b) == bridge' = [bridge EXCEPT ![b] = "off"]

NodeClose ==
  /\ NodeTakes("close") /\ StopTerminalBridge(Who)
  /\ UNCHANGED <<page, want, relayVars, link, fromNode, tmux, shows, ghosts>>

\* The daemon's connection ends: every pump of it stops, and what was on the way is lost.
NodeGone ==
  /\ bridge' = [b \in Browsers |-> "off"] /\ toNode' = <<>> /\ fromNode' = <<>>
  /\ cut' = cut \cup {b \in Browsers : bridge[b] # "off" \/ \E i \in 1 .. Len(fromNode) : fromNode[i].of = b}

DaemonDrops ==
  /\ link.up /\ faults < MaxFaults /\ faults' = faults + 1
  /\ link' = [link EXCEPT !.up = FALSE] /\ NodeGone
  /\ UNCHANGED <<page, want, relayVars, tmux, shows, orphans, churn>>

DaemonReconnects ==
  /\ ~link.up /\ link' = [up |-> TRUE, registered |-> TRUE]
  /\ UNCHANGED <<page, want, relayVars, toNode, fromNode, bridge, tmux, shows, ghosts>>

\* The relay restarts: every socket closes, and with its relay socket each page.
RelayRestarts ==
  /\ faults < MaxFaults /\ faults' = faults + 1
  /\ link' = [up |-> FALSE, registered |-> FALSE] /\ NodeGone
  /\ page' = [b \in Browsers |-> IF page[b] \in {"connecting", "open"} THEN "closed" ELSE page[b]]
  /\ up' = [b \in Browsers |-> <<>>] /\ subs' = {}
  /\ UNCHANGED <<want, tmux, shows, orphans, churn>>

Next ==
  \/ \E s \in Names : UserCreates(s)
  \/ \E s \in Names : SessionEnds(s)
  \/ \E s \in Names : TmuxKillOwnedSession(s)
  \/ \E b \in Browsers : UpgradeRefused(b)
  \/ \E b \in Browsers : StartRemoteTerminal(b)
  \/ \E b \in Browsers : RelayOpens(b)
  \/ \E b \in Browsers : RelayError(b)
  \/ \E b \in Browsers : RelayBreaks(b)
  \/ \E b \in Browsers : BrowserTypes(b)
  \/ \E b \in Browsers : BrowserCloses(b)
  \/ \E b \in Browsers : BrowserErrors(b)
  \/ \E b \in Browsers : StartLocalTerminal(b)
  \/ \E b \in Browsers : LocalPollEnds(b)
  \/ \E b \in Browsers : LocalCloses(b)
  \/ \E b \in Browsers : RelayTerminalOpen(b)
  \/ \E b \in Browsers : RelayTerminalForward(b)
  \/ \E b \in Browsers : RelayTerminalBye(b)
  \/ RelayTerminalFanout
  \/ RelayNoticesNode
  \/ NodeOpenRefused
  \/ NodeOpenAttaches
  \/ NodeOpenCreates
  \/ \E b \in Browsers : PumpEnds(b)
  \/ \E b \in Browsers : PumpFrame(b)
  \/ NodeInput
  \/ NodeClose
  \/ DaemonDrops
  \/ DaemonReconnects
  \/ TerminalServerDies
  \/ RelayRestarts

Spec == Init /\ [][Next]_vars

\* The relay and the daemon serve their sockets; browsers, users and faults owe nothing.
FairSpec ==
  /\ Spec
  /\ \A b \in Browsers : WF_vars(RelayTerminalOpen(b) \/ RelayTerminalForward(b) \/ RelayTerminalBye(b))
  /\ WF_vars(NodeOpenRefused \/ NodeOpenAttaches \/ NodeOpenCreates \/ NodeInput \/ NodeClose)

-----------------------------------------------------------------------------
(* Properties *)

\* terminal_close and the daemon's close handler: the pump of a page that was closed stops, through
\* lost node connections, restarts and failed opens. The exception is what the bridge does not tell
\* the node: a page whose open relay socket went without a terminal_close (a socket of either side
\* broke, or the terminal server died) leaves its pump running until the session ends or the node's
\* connection does.
PumpsStop ==
  \A b \in Browsers : (page[b] = "closed" /\ bridge[b] # "off") ~> (bridge[b] = "off" \/ b \in orphans)

=============================================================================
