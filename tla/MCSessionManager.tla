---------------------- MODULE MCSessionManager ----------------------
(* Model checking of SessionManager: the scenarios of the .cfg files.      *)
EXTENDS SessionManager

Quiet == [kinds |-> {}, entries |-> 0, failures |-> 0, crashes |-> 0,
          tears |-> FALSE, forks |-> FALSE, navigates |-> FALSE]

\* Branches and forks, with a write that fails and a process that dies.
Files == [Quiet EXCEPT !.kinds = {"user", "assistant", "summary"}, !.entries = 4,
                       !.failures = 1, !.crashes = 1, !.forks = TRUE, !.navigates = TRUE]
\* Labels set and cleared on all branches, forked and opened again.
Labelled == [Quiet EXCEPT !.kinds = {"user", "assistant", "label", "unlabel"}, !.entries = 4,
                          !.crashes = 1, !.forks = TRUE, !.navigates = TRUE]
\* Turns with tools on all branches, compacted again and again.
Contexts == [Quiet EXCEPT !.kinds = {"user", "call", "toolResult", "compaction", "setting"},
                          !.entries = 5, !.navigates = TRUE]
Sessions == {Files, Labelled, Contexts}

Glued == {[Quiet EXCEPT !.kinds = {"user", "assistant"}, !.entries = 3, !.crashes = 2,
                        !.tears = TRUE]}
Hole == {[Quiet EXCEPT !.kinds = {"user", "assistant"}, !.entries = 3, !.failures = 1,
                       !.crashes = 1]}
Wedged == {[Quiet EXCEPT !.kinds = {"user", "assistant"}, !.entries = 3, !.failures = 1]}
LabelFork == {[Quiet EXCEPT !.kinds = {"user", "assistant", "label", "compaction"},
                            !.entries = 5, !.forks = TRUE]}
LabelForkTools == {[Quiet EXCEPT !.kinds = {"call", "toolResult", "assistant", "label", "compaction"},
                                 !.entries = 6, !.forks = TRUE]}
HoleCompacted == {[Quiet EXCEPT !.kinds = {"user", "assistant", "compaction"}, !.entries = 5,
                                !.failures = 1, !.crashes = 1]}
HoleForked == {[Quiet EXCEPT !.kinds = {"user", "assistant"}, !.entries = 5, !.failures = 1,
                             !.forks = TRUE]}
SplitAgain == {[Quiet EXCEPT !.kinds = {"user", "call", "compaction"}, !.entries = 5]}
SettingBefore == {[Quiet EXCEPT !.kinds = {"user", "setting", "compaction"}, !.entries = 6]}
HoleTools == {[Quiet EXCEPT !.kinds = {"call", "toolResult"}, !.entries = 3, !.failures = 1,
                            !.crashes = 1]}
=============================================================================
