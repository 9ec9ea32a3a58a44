----------------------------- MODULE MCTuiRender -----------------------------
EXTENDS TuiRender

AScenario(h, n) ==
    [heights |-> h, lines |-> n, cursor |-> FALSE, unseen |-> FALSE, short |-> FALSE,
     clearOnShrink |-> FALSE, resizes |-> 0, bounces |-> FALSE, stops |-> 0, repeats |-> 0, forces |-> TRUE,
     counts |-> FALSE]

\* Frames longer than the screen by some lines; the cursor in every line; sizes
\* that change; the UI stopped and started.
TuiScenarios ==
    {AScenario({4}, 6),
     [AScenario({3}, 5) EXCEPT !.cursor = TRUE],
     [AScenario({2}, 4) EXCEPT !.clearOnShrink = TRUE],
     [AScenario({1, 2}, 3) EXCEPT !.resizes = 2],
     [AScenario({1, 2}, 2) EXCEPT !.resizes = 1, !.stops = 2, !.repeats = 1, !.cursor = TRUE]}

ShortScenarios == {[AScenario({5}, 6) EXCEPT !.short = TRUE]}
UnseenScenarios == {[AScenario({3}, 5) EXCEPT !.cursor = TRUE, !.unseen = TRUE]}
BounceScenarios == {[AScenario({1, 2}, 2) EXCEPT !.resizes = 2, !.bounces = TRUE]}
StuckScenarios == {[AScenario({2}, 2) EXCEPT !.stops = 2, !.forces = FALSE]}
HistoryScenarios == {[AScenario({3}, 5) EXCEPT !.counts = TRUE]}
=============================================================================
