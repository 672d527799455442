---------------------------- MODULE MCPlacement ----------------------------
(* Instances of Placement: three of four hosts, of a site with a bastion and  *)
(* of one whose compute host comes without. Two hosts have room for one       *)
(* container each, the third for two.                                         *)
EXTENDS Placement

MCSiteOf   == [b1 |-> 1, c1 |-> 1, c2 |-> 1, c3 |-> 2]
MCOneSite  == [b1 |-> 1, c1 |-> 1]
MCOneSlots == [b1 |-> 5, c1 |-> 5]
MCSlots    == [b1 |-> 5, c1 |-> 3, c2 |-> 3, c3 |-> 5]
MCFactor   == [web |-> 2, dhclient |-> 1]
MCRequests ==
    {[service |-> "web", stripes |-> 2, stripe_group |-> "web", max_stripes |-> 0, affinity |-> 0],
     [service |-> "web", stripes |-> 1, stripe_group |-> "www", max_stripes |-> 1, affinity |-> 0]}
=============================================================================
