------------------------------- MODULE MCTrust -------------------------------
(* Instance of Trust: two stripes of one capability on two hosts, which have *)
(* their aliases in common, and a container of another.                      *)
EXTENDS Trust

CONSTANTS www, api

TwoHosts == [www1 |-> "c1", www2 |-> "c2", api1 |-> "c2"]
TwoCerts == [www1 |-> www, www2 |-> www, api1 |-> api]
=============================================================================
