----------------------------- MODULE Placement -----------------------------
(* Capabilities of deployments (OAG_Deployment.add_capability) and where they *)
(* run: OAG_Domain.containers computes, from the rows of module Network, the  *)
(* host and the sequence number of every container, and OAG_Container.ip4 its *)
(* address. Nothing of it is stored: a change of the rows may move what runs. *)
(*                                                                            *)
(* Abstraction: a capability's needs are its slot factor, cores times memory; *)
(* the capabilities that are passed over are not collected for the warning.   *)
EXTENDS Network

CONSTANTS
    Requests,    \* the calls of add_capability: service, stripes, group, ...
    SlotFactor,  \* the slot factor of each service
    Slots,       \* the slot factor of each host
    MaxCaps      \* bound on the capability rows of deployments

ASSUME RequestsAssumption ==
    Requests \subseteq [service : Services, stripes : Nat \ {0},
                        stripe_group : StripeGroups, max_stripes : Nat,
                        affinity : 0..NSites]
ASSUME SlotsAssumption ==
    SlotFactor \in [Services -> Nat] /\ Slots \in [HostNames -> Nat]
-----------------------------------------------------------------------------
CapIds == DOMAIN caps
Of(d, service) == {i \in CapIds : caps[i].depl = d /\ caps[i].service = service}
InGroup(d, service, group) == {i \in Of(d, service) : caps[i].stripe_group = group}

\* A mutant: stripes are numbered within their group.
stripe_base_Group(d, r) ==
    LET group == InGroup(d, r.service, r.stripe_group)
    IN  IF group = {} THEN 0 ELSE caps[Nth(group, Cardinality(group) - 1)].stripe + 1

\* Stripes are numbered on from the newest of the service, of any group.
stripe_base(d, r) ==
    LET cap == Of(d, r.service)
    IN  IF cap = {} THEN 0 ELSE caps[Nth(cap, Cardinality(cap) - 1)].stripe + 1

NewCaps(d, r) ==
    [i \in 1..r.stripes |->
        [service |-> r.service, stripe |-> stripe_base(d, r) + i - 1,
         stripe_group |-> r.stripe_group, host |-> NoHost, depl |-> d,
         affinity |-> r.affinity, iface |-> Nothing]]

\* One transaction; it does nothing when the group has its stripes. A
\* max_stripes of 0 is None.
add_capability(d, r) ==
    /\ calls = << >>
    /\ r.affinity <= sites
    /\ Cardinality({i \in CapIds : caps[i].host = NoHost}) + r.stripes <= MaxCaps
    /\ r.max_stripes > 0 =>
          Cardinality(InGroup(d, r.service, r.stripe_group)) < r.max_stripes
    /\ caps' = caps \o NewCaps(d, r)
    /\ UNCHANGED <<sites, hosts, deployments, ifaces, subnets, dhcpd, calls, step>>

PlacementNext ==
    \/ Next
    \/ \E d \in 1..deployments, r \in Requests : add_capability(d, r)

PlacementSpec == Init /\ [][PlacementNext]_vars
-----------------------------------------------------------------------------
\* What follows is a function of the capability and host rows, cs and hs.
\* Deployment by deployment, those with an affinity before the others.
Pass(c) == IF c.affinity # Nothing THEN 0 ELSE 1

\* A mutant: the newest deployment comes first.
Earlier_Newest(cs, i, j) ==
    \/ cs[i].depl > cs[j].depl
    \/ cs[i].depl = cs[j].depl /\ Pass(cs[i]) < Pass(cs[j])
    \/ cs[i].depl = cs[j].depl /\ Pass(cs[i]) = Pass(cs[j]) /\ i <= j

Earlier(cs, i, j) ==
    \/ cs[i].depl < cs[j].depl
    \/ cs[i].depl = cs[j].depl /\ Pass(cs[i]) < Pass(cs[j])
    \/ cs[i].depl = cs[j].depl /\ Pass(cs[i]) = Pass(cs[j]) /\ i <= j

FirstCap(cs, left) == CHOOSE i \in left : \A j \in left : Earlier(cs, i, j)

\* The rows of compute hosts, and the first among some of them: site by site.
Compute(hs) == {n \in DOMAIN hs : ~is_bastion(hs[n])}
FirstRow(hs, S) ==
    CHOOSE n \in S : \A k \in S :
        \/ SiteOf[hs[n]] < SiteOf[hs[k]]
        \/ SiteOf[hs[n]] = SiteOf[hs[k]] /\ n <= k

\* A mutant: a host that is not full is taken.
Room_NotFull(hs, free, c) ==
    {n \in Compute(hs) : /\ c.affinity \in {Nothing, SiteOf[hs[n]]}
                         /\ free[hs[n]] > 0}

\* The hosts with enough of their slots left.
Room(hs, free, c) ==
    {n \in Compute(hs) : /\ c.affinity \in {Nothing, SiteOf[hs[n]]}
                         /\ free[hs[n]] >= SlotFactor[c.service]}

\* A mutant: the number is taken before the container is counted.
seqnum_Before(cs, placed, i, h) ==
    Cardinality({c \in placed : c.host = h /\ cs[c.cap].depl = cs[i].depl})

\* The position among the containers of the same deployment on the host.
seqnum(cs, placed, i, h) ==
    Cardinality({c \in placed : c.host = h /\ cs[c.cap].depl = cs[i].depl}) + 1

\* The first host with room takes the next capability; one that no host has
\* room for is passed over. With an affinity, the row of the container is built
\* from a variable that holds no site, and this raises.
Place(cs, hs, m) ==
    LET i    == FirstCap(cs, m.left)
        room == Room(hs, m.free, cs[i])
        h    == hs[FirstRow(hs, room)]
    IN  IF m.raised \/ m.left = {} THEN m
        ELSE IF room = {} THEN [m EXCEPT !.left = @ \ {i}]
        ELSE IF cs[i].affinity # Nothing THEN [m EXCEPT !.raised = TRUE]
        ELSE [m EXCEPT !.left = @ \ {i},
                       !.free[h] = @ - SlotFactor[cs[i].service],
                       !.placed = @ \cup {[cap |-> i, host |-> h,
                                           seqnum |-> seqnum(cs, m.placed, i, h)]}]

\* A site without compute hosts, or a domain without sites, raises at once.
Unplaced(cs, hs) ==
    [left |-> {i \in DOMAIN cs : cs[i].depl # Nothing}, free |-> Slots, placed |-> {},
     raised |-> \/ sites = 0
                \/ \E s \in 1..sites : \A n \in Compute(hs) : SiteOf[hs[n]] # s]

containersOf(cs, hs) ==
    LET m[n \in 0..Len(cs)] ==
            IF n = 0 THEN Unplaced(cs, hs) ELSE Place(cs, hs, m[n - 1])
    IN  m[Len(cs)]

containers == containersOf(caps, hosts)

\* OAG_Container.ip4: an offset in the subnet of the host's VLAN.
VlanOf(h, d) == {f \in IfacesOf(h) : ifaces[f].depl = d}
ContainerAddress(c) ==
    LET vlan == VlanOf(c.host, caps[c.cap].depl)
    IN  IF vlan = {} THEN NoAddress
        ELSE LET n == OwnSubnet(Nth(vlan, 0))
             IN  IF n = Nothing THEN NoAddress ELSE <<n, c.seqnum + 1>>
-----------------------------------------------------------------------------
\* The three properties of containers speak of the moments between two calls,
\* when deploy asks for them. A call that stops leads to such a moment with the
\* rows written so far.

\* What is placed on a host never needs more than the host has, whatever order
\* capabilities, deployments and hosts came in.
SlotsTaken(m, h) ==
    UNION {{c} \X (1..SlotFactor[caps[c.cap].service]) : c \in {c \in m.placed : c.host = h}}
NoOvercommit ==
    LET m == containers
    IN  calls = << >> => \A h \in HostTable : Cardinality(SlotsTaken(m, h)) <= Slots[h]

\* No container shares an address with another or with an interface, although
\* addresses are computed from positions in lists that grow in any order.
ContainerAddressesDistinct ==
    LET m == containers
    IN  calls = << >> =>
          \A c \in m.placed :
            ContainerAddress(c) # NoAddress =>
                /\ \A d \in m.placed : ContainerAddress(c) = ContainerAddress(d) => c = d
                /\ \A f \in IfaceIds : ContainerAddress(c) # ip4(f)

\* A name (service, stripe and deployment) is one capability's.
StripesDistinct ==
    \A d \in 1..deployments : \A service \in Services \ {"dhclient"} :
        \A i, j \in Of(d, service) : caps[i].stripe = caps[j].stripe => i = j

\* Adding a host to a site moves no container of that site or of an earlier one,
\* and adding a capability to a deployment none of that deployment or of an
\* earlier one: each keeps its host, with the storage attached there, and its
\* address. Those of later sites and deployments may move; that they do not is
\* promised nowhere.
KeptInPlace ==
    LET now == containers
        Keeps(later, c) == ~later.raised => c \in later.placed
    IN  calls = << >> /\ ~now.raised =>
          /\ \A h \in {h \in HostNames \ HostTable : SiteOf[h] <= sites} :
                LET later == containersOf(caps, Append(hosts, h))
                IN  \A c \in now.placed : SiteOf[h] >= SiteOf[c.host] => Keeps(later, c)
          /\ \A d \in 1..deployments, r \in {r \in Requests : r.affinity <= sites} :
                LET later == containersOf(caps \o NewCaps(d, r), hosts)
                IN  \A c \in now.placed : caps[c.cap].depl <= d => Keeps(later, c)
-----------------------------------------------------------------------------
\* "Find appropriate VLAN and dynamically generate this container's IP address"
\* (_core.py:468-469): a container on a host that has its interfaces has one.
ContainersAddressed ==
    calls = << >> =>
        \A c \in containers.placed :
            InternalOf(c.host) # {} => ContainerAddress(c) # NoAddress
=============================================================================
