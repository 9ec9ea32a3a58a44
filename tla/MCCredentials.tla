---------------------------- MODULE MCCredentials ----------------------------
EXTENDS Credentials

AScenario(kinds, n) == [kinds |-> kinds, calls |-> n, sessions |-> 0, expiries |-> 1, failures |-> 0,
                        crashes |-> 0, torn |-> 0, stalls |-> 0, slow |-> 0, absent |-> FALSE]

\* Refreshes that meet, a login and a logout among them, failures, and a crash;
\* and, for the calls that must return all the same, a process that dies while it
\* writes, one that is suspended, one that begins a session during a slow refresh,
\* and the start without a file.
CredentialsScenarios ==
    {AScenario({"resolve", "login"}, 3),
     [AScenario({"resolve", "login", "logout"}, 2) EXCEPT !.failures = 1],
     [AScenario({"resolve"}, 2) EXCEPT !.crashes = 1, !.sessions = 1],
     [AScenario({"resolve", "login"}, 2) EXCEPT !.torn = 1],
     [AScenario({"resolve", "login"}, 2) EXCEPT !.stalls = 1],
     [AScenario({"resolve", "login"}, 2) EXCEPT !.slow = 1, !.sessions = 1],
     [AScenario({"login"}, 1) EXCEPT !.absent = TRUE]}

\* Two processes that start without a file.
FirstScenarios == {[AScenario({"login"}, 2) EXCEPT !.absent = TRUE]}

\* A process that is suspended while it has the lock.
StallScenarios == {[AScenario({"resolve", "login"}, 3) EXCEPT !.stalls = 1]}

\* A process that begins a session while another waits for the server.
SlowScenarios == {[AScenario({"resolve", "login"}, 3) EXCEPT !.slow = 1, !.sessions = 1]}

\* A process that dies in the middle of a write.
TornScenarios == {[AScenario({"login"}, 1) EXCEPT !.torn = 1]}
=============================================================================
