--------------------------- MODULE MCThreatIntel ---------------------------
(* Instances of ThreatIntel: one address, and a network it is in. *)
EXTENDS ThreatIntel

CONSTANTS host, net, comment, worker1, worker2

MCCovered == [n \in Networks |-> Ips]
============================================================================
