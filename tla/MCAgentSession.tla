-------------------------- MODULE MCAgentSession --------------------------
(* Model checking of AgentSession: the scenarios of the .cfg files.        *)
EXTENDS AgentSession

Sending(ways, kinds, n, replies_) ==
    [ways |-> ways, kinds |-> kinds, inputs |-> n, replies |-> replies_,
     compacts |-> 0, aborts |-> 0]

Queues == {[Sending({"prompt", "steer", "followUp", "nextTurn", "custom", "bash"},
              {"calls", "error"}, 3, 2)
             EXCEPT !.aborts = 1]}
Recovery == {Sending({"prompt", "steer"},
              {"error", "overflow", "full", "length"}, 3, 3)}
Live == {[Sending({"prompt", "turn"}, {"error"}, 2, 1)
             EXCEPT !.compacts = 1, !.aborts = 1],
         [Sending({"prompt", "turn"}, {"full"}, 2, 1)
             EXCEPT !.compacts = 1],
         [Sending({"prompt", "steer", "clear"}, {"error"}, 2, 1)
             EXCEPT !.aborts = 1]}
Idle == {Sending({"prompt", "steer"}, {"full"}, 3, 1)}
Length == {Sending({"prompt"}, {"length"}, 2, 1)}
Clear == {Sending({"prompt", "steer", "clear"}, {"calls"}, 2, 1)}
CompactMeetsRun == {[Sending({"prompt", "steer"}, {"calls"}, 2, 1)
             EXCEPT !.compacts = 1]}
Texts == {Sending({"prompt", "steer"}, {"calls"}, 2, 1)}
Race == {Sending({"prompt", "nextTurn"}, {"calls"}, 3, 1)}
RaceBash == {Sending({"prompt", "bash"}, {"calls"}, 3, 1)}
Cancel == {[Sending({"prompt", "followUp"}, {"error"}, 2, 3)
             EXCEPT !.aborts = 1]}
Retried == {Sending({"prompt"}, {"error", "overflow"}, 1, 2)}
Orphan == {[Sending({"prompt"}, {"calls"}, 1, 1)
             EXCEPT !.compacts = 1]}
BashRetry == {Sending({"prompt", "followUp", "bash"}, {"full", "error"}, 5, 3)}
BashMeetsRun == {Sending({"prompt", "followUp", "bash"}, {"full", "calls"}, 5, 2)}
CustomRetry == {Sending({"prompt", "followUp", "custom"}, {"full", "error"}, 5, 3)}
CompactRetry == {[Sending({"prompt", "followUp"}, {"error"}, 3, 3)
             EXCEPT !.compacts = 1]}
QueuesAndRecovery == Queues \union Recovery
=============================================================================
