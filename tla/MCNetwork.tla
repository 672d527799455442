----------------------------- MODULE MCNetwork -----------------------------
(* An instance of Network: a site with a bastion and two compute hosts, which *)
(* nothing tells apart.                                                       *)
EXTENDS Network, TLC

CONSTANTS b1, c1, c2

MCSiteOf == [h \in HostNames |-> 1]
Symmetry == Permutations({c1, c2})
=============================================================================
