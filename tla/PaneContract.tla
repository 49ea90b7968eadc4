---------------------------- MODULE PaneContract ----------------------------
(***************************************************************************)
(* What a terminal page promises to its user, and the part of the state it *)
(* is about: the page, its pump on the node, and the messages from the     *)
(* node to the relay. RemoteTerminal is the system.                        *)
(***************************************************************************)
EXTENDS Integers, Sequences

CONSTANT Browsers  \* bound: browser sockets ever opened

VARIABLES
  page,     \* page[b]: the browser's socket and the bridge behind it
  shows,    \* shows[b]: what the page shows
  bridge,   \* terminalBridges: bridge[b] is "off", or whether the pane differs from the last frame
  fromNode, \* node -> relay
  cut       \* the pages whose pump went down with the node's connection

\* stopTerminalBridge by session id: a page that shows a live pane has a live pump, whatever other
\* pages of the session do, unless it is being told that the session ended or its node's connection
\* was cut.
ShownIsPumped ==
  \A b \in Browsers :
    page[b] = "open" /\ shows[b] = "frame" =>
      \/ bridge[b] # "off" \/ b \in cut
      \/ \E i \in 1 .. Len(fromNode) : fromNode[i] = [type |-> "ended", of |-> b]
=============================================================================
