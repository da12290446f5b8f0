---------------------------- MODULE MCDiscovery -----------------------------
(* Model-checking instance of Discovery. *)
EXTENDS Discovery

\* Two datagrams in flight, one when the mDNS service runs as well.
MCMaxInFlight == [m \in Modes |-> IF m = "both" THEN 1 ELSE 2]
=============================================================================
