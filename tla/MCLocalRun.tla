---------------------------- MODULE MCLocalRun ----------------------------
EXTENDS LocalRun
Base == [agent |-> "codex", installed |-> {"codex"}, fallbacks |-> <<>>, switchOn |-> {},
         repo |-> "none", origin |-> "empty", write |-> FALSE, lease |-> "none",
         verify |-> FALSE, confines |-> TRUE, bypass |-> FALSE, tmux |-> FALSE,
         preauth |-> FALSE, enforce |-> TRUE, viaNode |-> FALSE]
MCScenarios ==
    {[Base EXCEPT !.fallbacks = <<"codex">>, !.write = TRUE, !.lease = "active_match",
                  !.viaNode = TRUE],
     [Base EXCEPT !.agent = "auto", !.installed = {"claude", "codex"}, !.fallbacks = <<"codex">>,
                  !.repo = "allowed", !.preauth = TRUE],
     [Base EXCEPT !.agent = "auto", !.fallbacks = <<"opencode">>, !.bypass = TRUE, !.tmux = TRUE],
     [Base EXCEPT !.agent = "mock", !.fallbacks = <<"claude">>, !.verify = TRUE, !.tmux = TRUE,
                  !.switchOn = {"auth"}],
     [Base EXCEPT !.agent = "auto", !.installed = {}, !.verify = TRUE, !.confines = FALSE],
     [Base EXCEPT !.agent = "auto", !.installed = {"opencode"}],
     [Base EXCEPT !.write = TRUE, !.lease = "mismatch", !.repo = "foreign", !.enforce = FALSE]}
    \union {[Base EXCEPT !.repo = r, !.origin = o, !.viaNode = v] :
              r \in {"credentials", "foreign", "local"}, o \in {"plain", "other", "empty"},
              v \in BOOLEAN}
=============================================================================
