---------------------------- MODULE MCSubnetPool ----------------------------
(* An instance of SubnetPool. The callers in src/ ask for 254 hosts          *)
(* (set_domain, _core.py:1929) and 1000 (the bastion's internal network,     *)
(* 1122) of the shared root, and for 1 or 14 of a deployment's (1126-1131);  *)
(* here the shared root is small, and asked for every host count at the edge *)
(* of a prefix.                                                              *)
EXTENDS SubnetPool

MCRequests ==
    {[type |-> "SITE", hosts |-> h, dynamic |-> 0] :
        h \in {2, 6, 7, 14, 30, 31}}
       \cup {[type |-> "DEPLOYMENT", hosts |-> h, dynamic |-> 0] : h \in {1, 14}}
=============================================================================
