------------------------------ MODULE MCMQTTAgent ------------------------------
(* Instances of MQTTAgent for TLC. *)
EXTENDS MQTTAgent, TLC

CONSTANTS m1, m2, c1, c2

\* Commands and clients are interchangeable; only the safety runs use this.
Symmetry == Permutations(Commands) \cup Permutations(Clients)

\* What a free command structure still contains is cleared by createCommand
\* before anybody reads it: states that differ only there are the same.
View == <<pool, [m \in Commands \ pool |-> <<kind[m], owner[m]>>], queue, notify,
          callerVars, agentVars, mqttVars, owed>>
=============================================================================
