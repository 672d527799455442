------------------------------ MODULE Network ------------------------------
(* The layout of a domain as the operator's script builds it (frieze/_core.py,*)
(* OAG_Domain.add_site and add_deployment, OAG_Site.add_host,                 *)
(* OAG_Host.add_iface): rows of hosts, interfaces, subnets and DHCP clients,  *)
(* from which OAG_NetIface computes every address. The calls write row by row,*)
(* outside a transaction, and any of them may stop on the way; the script is  *)
(* then run again, and finds what is there by name.                           *)
(*                                                                            *)
(* Abstraction: a site is its number, in order of creation; a host is its     *)
(* name within a site; the template is HostTemplate's; the subnet that        *)
(* assign_subnet picks is fresh (module SubnetPool), so that an address is    *)
(* the number of a subnet and an offset in it. Host capabilities other than   *)
(* dhclient and dhcpd, and the sysctls, are rows nothing here reads.          *)
EXTENDS Integers, Sequences, FiniteSets

CONSTANTS
    NSites,        \* the sites are 1..NSites
    HostNames,     \* the hosts that may be added
    Bastions,      \* those whose role is SITEBASTION
    SiteOf,        \* the site of each
    Services,      \* the services of capability rows
    StripeGroups,  \* the names of their stripe groups
    MaxHosts,      \* bound on the hosts
    ExtraIfaces,   \* internal interfaces that may be added beyond the template's
    MaxDeployments \* bound on the deployments

ASSUME SitesAssumption == NSites \in Nat /\ SiteOf \in [HostNames -> 1..NSites]
\* "There is precisely one sitebastion per site" (README.md:53).
ASSUME BastionAssumption ==
    /\ "none" \notin HostNames
    /\ Bastions \subseteq HostNames
    /\ \A b, c \in Bastions : SiteOf[b] = SiteOf[c] => b = c
ASSUME ServicesAssumption == "dhclient" \in Services /\ "dhclient" \in StripeGroups
ASSUME ExtraAssumption == {"vtnet0", "vtnet1", "vlan"} \cap ExtraIfaces = {}
ASSUME BoundAssumption == MaxHosts \in Nat /\ MaxDeployments \in Nat

VARIABLES
    sites,         \* how many sites there are
    hosts,         \* OAG_Host rows, in order of creation
    deployments,   \* how many deployments there are
    ifaces,        \* OAG_NetIface rows: host, name, deployment, routed_by
    subnets,       \* the interface each OAG_Subnet row is routed by, or 0
    caps,          \* OAG_Capability rows
    dhcpd,         \* the knob 'ifaces' of each bastion's dhcpd
    calls,         \* the add_iface calls left of the call in progress
    step           \* where in the first of them it is

rows == <<sites, hosts, deployments, ifaces, subnets, caps, dhcpd>>
vars == <<rows, calls, step>>
-----------------------------------------------------------------------------
Nothing   == 0
NoHost    == "none"
NoAddress == <<Nothing, Nothing>>

HostTable    == {hosts[i] : i \in DOMAIN hosts}
RowOf(h)     == CHOOSE i \in DOMAIN hosts : hosts[i] = h
is_bastion(h) == h \in Bastions

\* OAG_Site.bastion: the bastion of the site, when it has been added.
BastionIn(s) == {b \in HostTable \cap Bastions : SiteOf[b] = s}
ComputeHosts(s) == {h \in HostTable \ Bastions : SiteOf[h] = s}

\* Rows are listed in the order they were created in.
Before(S, x) == Cardinality({y \in S : y < x})
Nth(S, n)    == CHOOSE x \in S : Before(S, x) = n

IfaceIds    == DOMAIN ifaces
External(f) == ifaces[f].name = "vtnet0"
Physical(f) == ifaces[f].depl = Nothing
IfacesOf(h)   == {f \in IfaceIds : ifaces[f].host = h}
InternalOf(h) == {f \in IfacesOf(h) : ~External(f)}
PhysicalOf(h) == {f \in IfacesOf(h) : Physical(f)}

\* The subnets whose router is the host.
routed_subnets(h) ==
    {n \in DOMAIN subnets : subnets[n] # Nothing /\ ifaces[subnets[n]].host = h}

routingstyle(f) ==
    LET h == ifaces[f].host
    IN  IF External(f) THEN "DHCP"
        ELSE IF BastionIn(SiteOf[h]) = {} THEN "UNROUTED"
        ELSE IF ~is_bastion(h) /\ Physical(f) THEN "DHCP" ELSE "STATIC"

\* The subnet created for the interface.
OwnSubnet(f) ==
    LET own == {n \in DOMAIN subnets : subnets[n] = f}
    IN  IF own = {} THEN Nothing ELSE Nth(own, Cardinality(own) - 1)

routed_subnet(f) ==
    IF ifaces[f].routed_by # Nothing THEN OwnSubnet(ifaces[f].routed_by)
    ELSE IF routingstyle(f) = "STATIC" THEN OwnSubnet(f) ELSE Nothing

\* A mutant: offsets are counted from the gateway's.
connected_Gateway(f) ==
    <<routed_subnet(f), [g \in {h \in IfaceIds : ifaces[h].routed_by = f} |->
        Before({h \in IfaceIds : ifaces[h].routed_by = f}, g) + 1]>>

\* connected_ifaces: the offsets an interface hands out in its subnet.
connected_ifaces(f) ==
    LET connected == {g \in IfaceIds : ifaces[g].routed_by = f}
    IN  <<routed_subnet(f), [g \in connected |-> Before(connected, g) + 2]>>

\* The address of an internal interface; the external one's is the provider's.
ip4(f) ==
    IF External(f) THEN NoAddress
    ELSE IF routingstyle(f) = "STATIC"
         THEN IF routed_subnet(f) = Nothing THEN NoAddress ELSE <<routed_subnet(f), 1>>
    ELSE IF ifaces[f].routed_by = Nothing THEN NoAddress
    ELSE LET connected == connected_ifaces(ifaces[f].routed_by)
         IN  <<connected[1], connected[2][f]>>
-----------------------------------------------------------------------------
\* set_domain has given the domain a subnet of its own, routed by nobody.
Init ==
    /\ sites = 0 /\ hosts = << >> /\ deployments = 0
    /\ ifaces = << >> /\ subnets = <<Nothing>> /\ caps = << >>
    /\ dhcpd = [b \in Bastions |-> {}]
    /\ calls = << >> /\ step = "row"

add_site ==
    /\ calls = << >> /\ sites < NSites
    /\ sites' = sites + 1
    /\ UNCHANGED <<hosts, deployments, ifaces, subnets, caps, dhcpd, calls, step>>

IfaceCall(h, name, depl) == [host |-> h, name |-> name, depl |-> depl]

\* A new host: its row, then its interfaces, then the rest of its rows. One
\* that is found by name is returned as it is.
add_host(h) ==
    /\ calls = << >> /\ SiteOf[h] <= sites /\ h \notin HostTable
    /\ Len(hosts) < MaxHosts
    /\ hosts' = Append(hosts, h)
    /\ calls' = <<IfaceCall(h, "vtnet0", Nothing), IfaceCall(h, "vtnet1", Nothing)>>
    /\ step' = "row"
    /\ UNCHANGED <<sites, deployments, ifaces, subnets, caps, dhcpd>>

\* The hosts there are, site by site.
InSiteOrder(order) ==
    \A i, j \in DOMAIN order : i < j =>
        \/ SiteOf[order[i]] < SiteOf[order[j]]
        \/ SiteOf[order[i]] = SiteOf[order[j]] /\ RowOf(order[i]) < RowOf(order[j])

\* A new deployment: its row, then a VLAN on every one of them.
add_deployment ==
    /\ calls = << >> /\ deployments < MaxDeployments
    /\ deployments' = deployments + 1
    /\ \E order \in [1..Len(hosts) -> HostTable] :
          /\ InSiteOrder(order)
          /\ calls' = [i \in 1..Len(hosts) |-> IfaceCall(order[i], "vlan", deployments')]
    /\ step' = "row"
    /\ UNCHANGED <<sites, hosts, ifaces, subnets, caps, dhcpd>>

\* add_iface called by the operator.
add_iface(h, name) ==
    /\ calls = << >> /\ h \in HostTable
    /\ \A f \in IfacesOf(h) : ifaces[f].name # name
    /\ calls' = <<IfaceCall(h, name, Nothing)>>
    /\ step' = "row"
    /\ UNCHANGED rows

Call == calls[1]

\* A call stops: the process is killed, a row cannot be written, the subnets
\* are exhausted, or the step's own condition does not hold and it raises.
Stop ==
    /\ calls # << >>
    /\ calls' = << >> /\ step' = "row"
    /\ UNCHANGED rows

At(label) == calls # << >> /\ step = label
-----------------------------------------------------------------------------
\* A bastion's subnets are handed to the internal interfaces of its site in
\* order: the n-th interface of a host is routed by the n-th subnet.
HasRouter(s, n) == \E b \in BastionIn(s) : n < Cardinality(routed_subnets(b))
Router(s, n) ==
    LET b == CHOOSE b \in BastionIn(s) : TRUE IN subnets[Nth(routed_subnets(b), n)]

Routed(c) == c.depl = Nothing /\ c.name # "vtnet0" /\ ~is_bastion(c.host)

\* The interface's row. A VLAN needs an internal interface to sit on, and an
\* internal interface of a compute host a subnet to be routed by.
CreateIface ==
    LET s == SiteOf[Call.host]
        n == Cardinality(InternalOf(Call.host))
    IN  /\ At("row")
        /\ Call.depl # Nothing => n > 0
        /\ Routed(Call) => HasRouter(s, n)
        /\ ifaces' = Append(ifaces, [host |-> Call.host, name |-> Call.name,
                                     depl |-> Call.depl,
                                     routed_by |-> IF Routed(Call) THEN Router(s, n)
                                                                   ELSE Nothing])
        /\ step' = "reroute"
        /\ UNCHANGED <<sites, hosts, deployments, subnets, caps, dhcpd, calls>>

\* The interface in question is the newest row.
Iface == Len(ifaces)
NewInternal == ~External(Iface) /\ Physical(Iface) /\ is_bastion(Call.host)

\* 1. A new internal interface on the bastion: the internal interfaces of the
\* site's compute hosts are gone through host by host, and given the subnets
\* the bastion has so far.
ToReroute ==
    IF NewInternal THEN UNION {InternalOf(h) : h \in ComputeHosts(SiteOf[Call.host])}
                   ELSE {}
Precedes(f, g) ==
    \/ RowOf(ifaces[f].host) < RowOf(ifaces[g].host)
    \/ ifaces[f].host = ifaces[g].host /\ f < g
Index(f) == Before(InternalOf(ifaces[f].host), f)

Rerouted(S) ==
    /\ \A f \in S : HasRouter(SiteOf[Call.host], Index(f))
    /\ ifaces' = [f \in IfaceIds |->
                     IF f \in S THEN [ifaces[f] EXCEPT
                                         !.routed_by = Router(SiteOf[Call.host], Index(f))]
                                ELSE ifaces[f]]
    /\ UNCHANGED <<sites, hosts, deployments, subnets, caps, dhcpd>>

Reroute ==
    /\ At("reroute")
    /\ Rerouted(ToReroute)
    /\ step' = "subnet" /\ UNCHANGED calls

\* "Unable to find corresponding internal routing interface", or a stop.
RerouteStops ==
    /\ At("reroute")
    /\ \E g \in ToReroute : Rerouted({f \in ToReroute : Precedes(f, g)})
    /\ calls' = << >> /\ step' = "row"

\* A mutant: the subnet is assigned before the interface is stored.
AssignSubnet_Before ==
    /\ At("subnet")
    /\ subnets' = IF NewInternal \/ ~Physical(Iface) THEN Append(subnets, Iface + 1)
                                                     ELSE subnets
    /\ step' = "dhclient"
    /\ UNCHANGED <<sites, hosts, deployments, ifaces, caps, dhcpd, calls>>

\* The bastion's internal networks and every VLAN get a subnet, 2. in the code.
AssignSubnet ==
    /\ At("subnet")
    /\ subnets' = IF NewInternal \/ ~Physical(Iface) THEN Append(subnets, Iface)
                                                     ELSE subnets
    /\ step' = "dhclient"
    /\ UNCHANGED <<sites, hosts, deployments, ifaces, caps, dhcpd, calls>>

\* 3. A compute host with several interfaces on DHCP runs a dhclient for each.
DhcpOf(h)  == {f \in PhysicalOf(h) : routingstyle(f) = "DHCP"}
Dhclients(h) == {i \in DOMAIN caps : caps[i].host = h /\ caps[i].service = "dhclient"}
Wanted(h) ==
    IF is_bastion(h) \/ Cardinality(DhcpOf(h)) < 2 THEN 0 ELSE Cardinality(PhysicalOf(h))

Dhclient(h, n, depl) ==
    [service |-> "dhclient", stripe |-> 0, stripe_group |-> "dhclient", host |-> h,
     depl |-> depl, affinity |-> Nothing, iface |-> Nth(DhcpOf(h), n)]

\* A mutant: the rows there are not counted.
DhclientRows_All(upto) ==
    LET h == Call.host
    IN  /\ caps' = caps \o [i \in 1..upto |-> Dhclient(h, i - 1, Call.depl)]
        /\ UNCHANGED <<sites, hosts, deployments, ifaces, subnets, dhcpd>>

\* The rows there are get their interface again, and those missing are created.
DhclientRows(upto) ==
    LET h == Call.host
        n == Cardinality(Dhclients(h))
    IN  /\ caps' = [i \in DOMAIN caps |->
                       IF Wanted(h) > 0 /\ i \in Dhclients(h)
                       THEN [caps[i] EXCEPT
                                !.iface = Nth(DhcpOf(h), Before(Dhclients(h), i))]
                       ELSE caps[i]]
                    \o [i \in 1..(upto - n) |-> Dhclient(h, n + i - 1, Call.depl)]
        /\ UNCHANGED <<sites, hosts, deployments, ifaces, subnets, dhcpd>>

CreateDhclients ==
    /\ At("dhclient")
    /\ DhclientRows(Wanted(Call.host))
    /\ step' = "dhcpd" /\ UNCHANGED calls

CreateDhclientsStops ==
    /\ At("dhclient")
    /\ \E upto \in 1..(Wanted(Call.host) - 1) : DhclientRows(upto)
    /\ calls' = << >> /\ step' = "row"

Served(b) == {ifaces[f].name : f \in InternalOf(b) \cap PhysicalOf(b)}

\* A mutant: only the bastion's own interfaces bring its dhcpd up to date.
ConfigureDhcpd_Own ==
    /\ At("dhcpd")
    /\ dhcpd' = [b \in Bastions |-> IF b = Call.host THEN Served(b) ELSE dhcpd[b]]
    /\ calls' = Tail(calls) /\ step' = "row"
    /\ UNCHANGED <<sites, hosts, deployments, ifaces, subnets, caps>>

\* 4. Every interface of the site brings the bastion's dhcpd up to date.
ConfigureDhcpd ==
    /\ At("dhcpd")
    /\ \A b \in BastionIn(SiteOf[Call.host]) : IfacesOf(b) # {}
    /\ dhcpd' = [b \in Bastions |-> IF b \in BastionIn(SiteOf[Call.host])
                                    THEN Served(b) ELSE dhcpd[b]]
    /\ calls' = Tail(calls) /\ step' = "row"
    /\ UNCHANGED <<sites, hosts, deployments, ifaces, subnets, caps>>

CallStep ==
    \/ CreateIface
    \/ Reroute \/ RerouteStops
    \/ AssignSubnet
    \/ CreateDhclients \/ CreateDhclientsStops
    \/ ConfigureDhcpd
    \/ Stop

Next ==
    \/ add_site \/ add_deployment
    \/ \E h \in HostNames : add_host(h)
    \/ \E h \in HostNames, name \in ExtraIfaces : add_iface(h, name)
    \/ CallStep

Spec == Init /\ [][Next]_vars
-----------------------------------------------------------------------------
IfaceNames == {"vtnet0", "vtnet1", "vlan"} \cup ExtraIfaces
IfaceRow   == [host : HostNames, name : IfaceNames, depl : 0..MaxDeployments,
               routed_by : Nat]
CapRow(services, groups) ==
    [service : services, stripe : Nat, stripe_group : groups,
     host : HostNames \cup {NoHost}, depl : 0..MaxDeployments,
     affinity : 0..NSites, iface : Nat]

\* Type correctness; in particular every reference is to a row that exists.
TypeOK ==
    /\ sites \in 0..NSites /\ hosts \in Seq(HostNames)
    /\ deployments \in 0..MaxDeployments
    /\ ifaces \in Seq(IfaceRow)
    /\ \A f \in IfaceIds : ifaces[f].routed_by <= Len(ifaces) /\ ifaces[f].host \in HostTable
    /\ subnets \in Seq(0..Len(ifaces))
    /\ caps \in Seq(CapRow(Services, StripeGroups))
    /\ \A i \in DOMAIN caps : caps[i].iface <= Len(ifaces)
    /\ dhcpd \in [Bastions -> SUBSET IfaceNames]
    /\ calls \in Seq([host : HostTable, name : IfaceNames, depl : 0..deployments])
    /\ step \in {"row", "reroute", "subnet", "dhclient", "dhcpd"}

\* A VLAN of a compute host that a new interface of the bastion has rerouted.
ReroutedVlan(f) == ~Physical(f) /\ ifaces[f].routed_by # Nothing

\* Wherever calls stopped and in whatever order hosts and deployments came, no
\* two interfaces of the domain are given the same address, rerouted VLANs
\* excepted: these get one of an interface of the bastion (OwnGateway).
IfaceAddressesDistinct ==
    LET address == [f \in {f \in IfaceIds : ~ReroutedVlan(f)} |-> ip4(f)]
    IN  \A f, g \in DOMAIN address :
            address[f] = address[g] => f = g \/ address[f] = NoAddress

\* "each newly added interface can potentially trigger a dhcpd requirement"
\* (_core.py:1171-1172): an internal interface of a compute host that is there at
\* all has an address, from the bastion of its own site; and if it came with its
\* host, the dhcpd there listens on the physical interface it has it from. (A
\* further one may be stored, and the call stop, before that is brought up to date.)
ServedByBastion ==
    \A f \in IfaceIds :
        Physical(f) /\ ~External(f) /\ ~is_bastion(ifaces[f].host) =>
            LET r == ifaces[f].routed_by
                b == ifaces[r].host
            IN  /\ ip4(f) # NoAddress
                /\ b \in BastionIn(SiteOf[ifaces[f].host])
                /\ Physical(r) /\ ifaces[f].name = "vtnet1" =>
                      ifaces[r].name \in dhcpd[b]

\* "This is an interface responsible for assigning IP addresses to other
\* interfaces on the subnet so its IP address is that of the subnet it is
\* routing" (_core.py:1383-1385).
OwnGateway ==
    \A f \in IfaceIds :
        routingstyle(f) = "STATIC" /\ OwnSubnet(f) # Nothing => ip4(f) = <<OwnSubnet(f), 1>>

\* However often the DHCP clients of a host are gone through, and wherever that
\* stopped, no interface gets a second one.
DhclientPerIface ==
    \A h \in HostTable : \A i, j \in Dhclients(h) : caps[i].iface = caps[j].iface => i = j
=============================================================================
