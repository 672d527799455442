----------------------------- MODULE MCProvision -----------------------------
(* Instances of Provision.                                                   *)
EXTENDS Provision, TLC

\* One site. v1 has a bastion and a compute host, whose container has a block;
\* in v2 the compute host is gone, its container has moved to the bastion, and
\* another with a block of its own has come there.
OneSiteHosts  == [v1 |-> {"bastion", "c1"}, v2 |-> {"bastion"}]
OneSiteMounts == [v1 |-> "disk" :> "c1",
                  v2 |-> "disk" :> "bastion" @@ "log" :> "bastion"]
OneSiteOf     == [h \in {"bastion", "c1"} |-> 1]
OneBastion    == <<"bastion">>

\* Two sites of one bastion each.
TwoSiteHosts  == [v1 |-> {"bastion", "bastion2"}]
TwoSiteMounts == [v1 |-> << >>]
TwoSiteOf     == [bastion |-> 1, bastion2 |-> 2]
TwoBastions   == <<"bastion", "bastion2">>
=============================================================================
