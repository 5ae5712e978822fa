-------------------------- MODULE MCProxyRequests --------------------------
(* Three requests, about three targets or about the same ones.             *)
EXTENDS ProxyRequests
CONSTANTS colony, fleet, tech
Three == {colony, fleet, tech}
One == {colony}

\* Targets differ in name only, so one order of them stands for all.
InOrder == \A i \in DOMAIN targets : targets[i] = <<colony, fleet, tech>>[i]
=============================================================================
