----------------------------- MODULE MCSettings -----------------------------
EXTENDS Settings

AScenario(scopes, procs, sets) ==
    [scopes |-> scopes, procs |-> procs, present |-> TRUE, awaits |-> TRUE, sets |-> sets,
     edits |-> 0, reloads |-> 0, trusts |-> 0, failures |-> 0]

\* Two processes and the user; trust of a project; a first file.
SettingsScenarios ==
    {[AScenario({"global"}, 2, 4) EXCEPT !.edits = 1, !.reloads = 1],
     [AScenario({"global"}, 2, 3) EXCEPT !.edits = 2, !.failures = 1],
     [AScenario(Scopes, 1, 3) EXCEPT !.trusts = 2, !.edits = 1, !.reloads = 1],
     [AScenario({"global"}, 1, 3) EXCEPT !.present = FALSE, !.edits = 1]}

\* Two processes that write the first file.
FirstScenarios == {[AScenario({"global"}, 2, 2) EXCEPT !.present = FALSE]}

\* A setter during a reload.
ReloadScenarios == {[AScenario({"global"}, 1, 1) EXCEPT !.reloads = 1, !.awaits = FALSE]}
=============================================================================
