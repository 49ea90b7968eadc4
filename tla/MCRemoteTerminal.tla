--------------------------- MODULE MCRemoteTerminal ---------------------------
EXTENDS RemoteTerminal

\* "a" also means "ab" to tmux when there is no "a".
PrefixOfOther == [s \in Names |-> IF s = "a" THEN {"ab"} ELSE {}]

\* Every page asks for "a", to be made when it is missing.
CreateA == {[session |-> "a", create |-> TRUE]}
=============================================================================
