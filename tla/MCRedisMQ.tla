------------------------------ MODULE MCRedisMQ ------------------------------
(* TLC instances of RedisMQ. *)
EXTENDS RedisMQ, TLC

CONSTANTS c1, c2, c3

OneConsumer == {c1}
TwoConsumers == {c1, c2}
ThreeConsumers == {c1, c2, c3}

NoFaults == {}
Outage == {"reject"}
Failover == {"reject", "crash"}
LostClaim == {"crash", "lostClaim"}
AllFaults == FaultKinds

(* Consumers are interchangeable. *)
Names == Permutations(Consumers)
=============================================================================
