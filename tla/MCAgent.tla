---------------------------- MODULE MCAgent ----------------------------
(* Model checking of Agent: a behaviour either runs tools, with little     *)
(* queued, or has its queues full; the other constants are given in the    *)
(* .cfg files.                                                             *)
EXTENDS Agent

OneMode == {"one-at-a-time"}
BothModes == {"all", "one-at-a-time"}

Batches == {[users |-> 1, calls |-> 3, failures |-> 1, modes |-> OneMode]}
Queues == {[users |-> 3, calls |-> 0, failures |-> 0, modes |-> OneMode],
           [users |-> 2, calls |-> 0, failures |-> 0, modes |-> BothModes]}
BatchesOrQueues == Batches \union Queues
FewCalls == {[users |-> 1, calls |-> 2, failures |-> 1, modes |-> OneMode]}
NoCalls == {[users |-> 1, calls |-> 0, failures |-> 0, modes |-> OneMode]}
=============================================================================
