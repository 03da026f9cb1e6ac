----------------------------- MODULE MCMomQueue -----------------------------
(* A small instance of MomQueue.tla for TLC. *)
EXTENDS MomQueue

CalmConfig   == [messages |-> 5, restarts |-> 0, timedWait |-> FALSE, slowWakeup |-> FALSE]
FaultyConfig == [messages |-> 3, restarts |-> 2, timedWait |-> TRUE, slowWakeup |-> TRUE]
BothConfigs  == {CalmConfig, FaultyConfig}
=============================================================================
