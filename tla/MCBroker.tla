------------------------------ MODULE MCBroker ------------------------------
EXTENDS Broker
(* Two writes, of two messages and of one.                                   *)
MCWrites == {"w1", "w2"}
MCBatch == [w \in MCWrites |-> IF w = "w1" THEN {"a", "b"} ELSE {"c"}]
=============================================================================
