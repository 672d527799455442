--------------------------- MODULE PlacementProofs ---------------------------
(* Proofs about the capabilities of deployments: what module NetworkProofs    *)
(* proves of the layout holds with them, the stripes of a service, and where  *)
(* the containers run that are computed from these rows.                      *)
EXTENDS Placement, NetworkProofs, Extrema

-----------------------------------------------------------------------------
\* The stripes of a service go up with the rows, through all of its groups.
StripesInOrder ==
    \A d \in 0..MaxDeployments : \A service \in Services \ {"dhclient"} :
        \A i, j \in Of(d, service) : i < j => caps[i].stripe < caps[j].stripe

PlacementInv == NetworkInv /\ StripesInOrder

\* Rows of a service are a finite set of numbers.
LEMMA OfIs ==
    ASSUME TypeOK, NEW d, NEW service
    PROVE  /\ Of(d, service) \subseteq DOMAIN caps /\ Of(d, service) \subseteq Nat
           /\ IsFiniteSet(Of(d, service))
<1>1. Tables
  BY Shape
<1>2. Of(d, service) \subseteq 1..Len(caps) /\ Len(caps) \in Nat
  BY <1>1 DEF Of, CapIds, Tables
<1>3. Of(d, service) \subseteq DOMAIN caps
  BY DEF Of, CapIds
<1>. QED  BY <1>2, <1>3, FiniteIds

\* The next stripe is above every one there is.
LEMMA StripeBase ==
    ASSUME TypeOK, NEW d, NEW r
    PROVE  /\ stripe_base(d, r) \in Nat
           /\ StripesInOrder /\ d \in 0..MaxDeployments /\ r.service \in Services \ {"dhclient"} =>
                 \A i \in Of(d, r.service) : caps[i].stripe < stripe_base(d, r)
<1>. PICK S : S = Of(d, r.service)
  OBVIOUS
<1>1. S \subseteq DOMAIN caps /\ S \subseteq Nat /\ IsFiniteSet(S)
  BY OfIs
<1>2. \A i \in S : caps[i].stripe \in Nat
  BY <1>1, CapsTyped DEF CapRow
<1>3. CASE S = {}
  BY <1>3 DEF stripe_base
<1>4. CASE S # {}
  <2>1. Cardinality(S) \in Nat /\ Cardinality(S) # 0
    BY <1>1, <1>4, FS_CardinalityType, FS_EmptySet
  <2>2. Cardinality(S) - 1 \in Nat /\ Cardinality(S) - 1 < Cardinality(S)
    BY <2>1
  <2>3. PICK last : last = Nth(S, Cardinality(S) - 1)
    OBVIOUS
  <2>4. last \in S /\ Before(S, last) = Cardinality(S) - 1
    BY <1>1, <2>2, <2>3, NthIn
  <2>5. stripe_base(d, r) = caps[last].stripe + 1
    BY <1>4, <2>3 DEF stripe_base
  <2>6. ASSUME NEW i \in S  PROVE i < last \/ i = last
    <3>1. Before(S, i) \in Nat /\ Before(S, i) < Cardinality(S)
      BY <1>1, BeforeType, BeforeLess
    <3>2. last < i => Before(S, last) < Before(S, i)
      BY <1>1, <2>4, BeforeStrict
    <3>3. ~(last < i)
      BY <2>1, <2>4, <3>1, <3>2
    <3>4. i \in Nat /\ last \in Nat
      BY <1>1, <2>4
    <3>. QED  BY <3>3, <3>4
  <2>7. ASSUME StripesInOrder, d \in 0..MaxDeployments, r.service \in Services \ {"dhclient"},
               NEW i \in S
        PROVE  caps[i].stripe < stripe_base(d, r)
    <3>1. i < last => caps[i].stripe < caps[last].stripe
      BY <2>4, <2>7 DEF StripesInOrder
    <3>2. caps[i].stripe \in Nat /\ caps[last].stripe \in Nat
      BY <1>2, <2>4
    <3>. QED  BY <2>5, <2>6, <3>1, <3>2
  <2>8. stripe_base(d, r) \in Nat
    BY <1>2, <2>4, <2>5
  <2>. QED  BY <2>7, <2>8
<1>. QED  BY <1>3, <1>4

\* What add_capability writes: rows after those there are, on from the newest.
LEMMA NewCapsAre ==
    ASSUME TypeOK, NEW d \in 0..MaxDeployments, NEW r \in Requests
    PROVE  /\ r.stripes \in Nat /\ stripe_base(d, r) \in Nat /\ r.service \in Services
           /\ NewCaps(d, r) \in Seq(CapRow(Services, StripeGroups))
           /\ Len(NewCaps(d, r)) = r.stripes
           /\ \A k \in 1..r.stripes :
                 /\ NewCaps(d, r)[k].service = r.service
                 /\ NewCaps(d, r)[k].depl = d
                 /\ NewCaps(d, r)[k].host = NoHost
                 /\ NewCaps(d, r)[k].iface = Nothing
                 /\ NewCaps(d, r)[k].stripe = stripe_base(d, r) + k - 1
<1>1. /\ r.stripes \in Nat /\ r.service \in Services /\ r.stripe_group \in StripeGroups
      /\ r.affinity \in 0..NSites
  BY RequestsAssumption
<1>2. PICK base \in Nat : base = stripe_base(d, r)
  BY StripeBase
<1>3. NewCaps(d, r) =
        [k \in 1..r.stripes |->
            [service |-> r.service, stripe |-> base + k - 1,
             stripe_group |-> r.stripe_group, host |-> NoHost, depl |-> d,
             affinity |-> r.affinity, iface |-> Nothing]]
  BY <1>2 DEF NewCaps
<1>4. ASSUME NEW k \in 1..r.stripes
      PROVE  /\ NewCaps(d, r)[k] \in CapRow(Services, StripeGroups)
             /\ NewCaps(d, r)[k].service = r.service
             /\ NewCaps(d, r)[k].depl = d
             /\ NewCaps(d, r)[k].host = NoHost
             /\ NewCaps(d, r)[k].iface = Nothing
             /\ NewCaps(d, r)[k].stripe = stripe_base(d, r) + k - 1
  <2>1. PICK row : row = NewCaps(d, r)[k]
    OBVIOUS
  <2>2. row = [service |-> r.service, stripe |-> base + k - 1,
               stripe_group |-> r.stripe_group, host |-> NoHost, depl |-> d,
               affinity |-> r.affinity, iface |-> Nothing]
    BY <1>3, <2>1
  <2>3. base + k - 1 \in Nat
    BY <1>1, <1>2
  <2>4. row \in CapRow(Services, StripeGroups)
    BY <1>1, <2>2, <2>3 DEF CapRow, Nothing
  <2>. QED  BY <1>2, <2>1, <2>2, <2>4
<1>5. NewCaps(d, r) \in Seq(CapRow(Services, StripeGroups)) /\ Len(NewCaps(d, r)) = r.stripes
  <2>1. PICK new, n : new = NewCaps(d, r) /\ n = r.stripes
    OBVIOUS
  <2>2. DOMAIN new = 1..n /\ new = [k \in 1..n |-> new[k]] /\ n \in Nat
    BY <1>1, <1>3, <2>1
  <2>3. \A k \in 1..n : new[k] \in CapRow(Services, StripeGroups)
    BY <1>4, <2>1
  <2>4. new \in Seq(CapRow(Services, StripeGroups)) /\ Len(new) = n
    <3>. HIDE DEF CapRow
    <3>. QED  BY <2>2, <2>3
  <2>. QED  BY <2>1, <2>4
<1>. QED  BY <1>1, <1>2, <1>4, <1>5

\* Where the rows are afterwards.
LEMMA AddedRows ==
    ASSUME TypeOK, NEW d \in 1..deployments, NEW r \in Requests, add_capability(d, r)
    PROVE  /\ d \in 0..MaxDeployments
           /\ caps' \in Seq(CapRow(Services, StripeGroups))
           /\ DOMAIN caps \subseteq DOMAIN caps'
           /\ \A i \in DOMAIN caps : caps'[i] = caps[i]
           /\ \A i \in DOMAIN caps' \ DOMAIN caps :
                 /\ caps'[i].service = r.service /\ caps'[i].depl = d
                 /\ caps'[i].host = NoHost /\ caps'[i].iface = Nothing
                 /\ caps'[i].stripe = stripe_base(d, r) + (i - Len(caps)) - 1
                 /\ i - Len(caps) \in 1..r.stripes
<1>0. Tables
  BY Shape
<1>1. d \in 0..MaxDeployments
  BY BoundAssumption DEF TypeOK
<1>. PICK L, m, new : L = Len(caps) /\ m = r.stripes /\ new = NewCaps(d, r)
  OBVIOUS
<1>2. /\ m \in Nat /\ stripe_base(d, r) \in Nat
      /\ new \in Seq(CapRow(Services, StripeGroups)) /\ Len(new) = m
  BY <1>1, NewCapsAre
<1>3. caps \in Seq(CapRow(Services, StripeGroups)) /\ L \in Nat /\ DOMAIN caps = 1..L
  BY <1>0 DEF TypeOK, Tables
<1>4. caps' = caps \o new
  BY DEF add_capability
<1>5. /\ caps' \in Seq(CapRow(Services, StripeGroups))
      /\ DOMAIN caps' = 1..(L + m)
      /\ \A i \in 1..L : caps'[i] = caps[i]
      /\ \A k \in 1..m : caps'[L + k] = new[k]
  <2>. HIDE DEF CapRow
  <2>. QED  BY <1>2, <1>3, <1>4
<1>6. ASSUME NEW i \in DOMAIN caps' \ DOMAIN caps
      PROVE  i - L \in 1..m /\ caps'[i] = new[i - L]
  <2>1. i \in Nat /\ L < i /\ i <= L + m
    BY <1>2, <1>3, <1>5
  <2>2. PICK k \in 1..m : i = L + k /\ k = i - L
    <3>1. i - L \in 1..m /\ i = L + (i - L)
      BY <1>2, <1>3, <2>1
    <3>. QED  BY <3>1
  <2>. QED  BY <1>5, <2>2
<1>7. \A k \in 1..m :
         /\ new[k].service = r.service
         /\ new[k].depl = d
         /\ new[k].host = NoHost
         /\ new[k].iface = Nothing
         /\ new[k].stripe = stripe_base(d, r) + k - 1
  <2>1. \A k \in 1..r.stripes :
           /\ NewCaps(d, r)[k].service = r.service
           /\ NewCaps(d, r)[k].depl = d
           /\ NewCaps(d, r)[k].host = NoHost
           /\ NewCaps(d, r)[k].iface = Nothing
           /\ NewCaps(d, r)[k].stripe = stripe_base(d, r) + k - 1
    BY <1>1, NewCapsAre
  <2>. QED  BY <2>1
<1>8. ASSUME NEW i \in DOMAIN caps' \ DOMAIN caps
      PROVE  /\ caps'[i].service = r.service /\ caps'[i].depl = d
             /\ caps'[i].host = NoHost /\ caps'[i].iface = Nothing
             /\ caps'[i].stripe = stripe_base(d, r) + (i - L) - 1
             /\ i - L \in 1..m
  <2>1. PICK k \in 1..m : k = i - L /\ caps'[i] = new[k]
    BY <1>6
  <2>. QED  BY <1>7, <2>1
<1>9. DOMAIN caps \subseteq DOMAIN caps'
  BY <1>2, <1>3, <1>5
<1>10. \A i \in DOMAIN caps : caps'[i] = caps[i]
  BY <1>3, <1>5
<1>. QED  BY <1>1, <1>5, <1>8, <1>9, <1>10

-----------------------------------------------------------------------------
\* A capability of a deployment is no row of the layout.
LEMMA AddedKeepsLayout ==
    ASSUME NetworkInv, NEW d \in 1..deployments, NEW r \in Requests, add_capability(d, r)
    PROVE  NetworkInv'
<1>1. TypeOK
  BY DEF NetworkInv
<1>2. UNCHANGED <<sites, hosts, deployments, ifaces, subnets, dhcpd, calls, step>>
  BY DEF add_capability
<1>3. /\ caps' \in Seq(CapRow(Services, StripeGroups))
      /\ DOMAIN caps \subseteq DOMAIN caps'
      /\ \A i \in DOMAIN caps : caps'[i] = caps[i]
      /\ \A i \in DOMAIN caps' \ DOMAIN caps :
            caps'[i].host = NoHost /\ caps'[i].iface = Nothing
  BY <1>1, AddedRows
<1>4. TypeOK'
  <2>1. \A i \in DOMAIN caps' : caps'[i].iface <= Len(ifaces)
    <3>1. \A i \in DOMAIN caps : caps[i].iface <= Len(ifaces)
      BY <1>1 DEF TypeOK
    <3>2. Nothing <= Len(ifaces)
      BY <1>1, Shape DEF Tables, Nothing
    <3>. QED  BY <1>3, <3>1, <3>2
  <2>. QED  BY <1>1, <1>2, <1>3, <2>1 DEF TypeOK, IfaceIds, HostTable
<1>5. RowsGrow
  BY <1>1, <1>2, Shape DEF RowsGrow, Tables, HostTable
<1>6. CallKinds' /\ InCall' /\ IfaceKinds'
  BY <1>2 DEF NetworkInv, CallKinds, InCall, Iface, Call, IfaceKinds, IfaceIds,
             Physical, External
<1>7. RoutedByBastion' /\ RoutedInOrder'
  BY <1>1, <1>2, <1>4, <1>5, RoutingUntouched DEF NetworkInv
<1>8. Listening'
  BY <1>2 DEF NetworkInv, Listening, InternalPhysical, IfaceIds, Physical, External, is_bastion,
             Call, BastionIn, HostTable, Served, InternalOf, PhysicalOf, IfacesOf
<1>9. ClientsInOrder'
  <2>1. ASSUME NEW h \in HostNames
        PROVE  /\ Dhclients(h)' = Dhclients(h)
               /\ \A i \in Dhclients(h) : caps'[i].iface = caps[i].iface
    <3>1. h # NoHost
      BY BastionAssumption DEF NoHost
    <3>. QED  BY <1>3, <3>1 DEF Dhclients
  <2>. QED  BY <1>1, <1>4, <1>5, <2>1, ClientsKept DEF NetworkInv
<1>. QED  BY <1>4, <1>6, <1>7, <1>8, <1>9 DEF NetworkInv

\* The stripes that are added go on from those there are.
LEMMA AddedInOrder ==
    ASSUME TypeOK, StripesInOrder,
           NEW d \in 1..deployments, NEW r \in Requests, add_capability(d, r)
    PROVE  StripesInOrder'
<1>0. Tables
  BY Shape
<1>1. /\ d \in 0..MaxDeployments
      /\ caps' \in Seq(CapRow(Services, StripeGroups))
      /\ DOMAIN caps \subseteq DOMAIN caps'
      /\ \A i \in DOMAIN caps : caps'[i] = caps[i]
      /\ \A i \in DOMAIN caps' \ DOMAIN caps :
            /\ caps'[i].service = r.service /\ caps'[i].depl = d
            /\ caps'[i].stripe = stripe_base(d, r) + (i - Len(caps)) - 1
            /\ i - Len(caps) \in 1..r.stripes
  BY AddedRows
<1>2. r.stripes \in Nat /\ stripe_base(d, r) \in Nat
  BY <1>1, NewCapsAre
<1>3. Len(caps) \in Nat /\ DOMAIN caps = 1..Len(caps)
  BY <1>0 DEF Tables
<1>. SUFFICES ASSUME NEW e \in 0..MaxDeployments, NEW service \in Services \ {"dhclient"},
                     NEW i \in Of(e, service)', NEW j \in Of(e, service)', i < j
              PROVE  caps'[i].stripe < caps'[j].stripe
  BY DEF StripesInOrder
<1>4. /\ i \in DOMAIN caps' /\ caps'[i].depl = e /\ caps'[i].service = service
      /\ j \in DOMAIN caps' /\ caps'[j].depl = e /\ caps'[j].service = service
  BY DEF Of, CapIds
<1>5. CASE i \in DOMAIN caps /\ j \in DOMAIN caps
  <2>1. i \in Of(e, service) /\ j \in Of(e, service)
    BY <1>1, <1>4, <1>5 DEF Of, CapIds
  <2>. QED  BY <1>1, <1>5, <2>1 DEF StripesInOrder
<1>6. CASE i \in DOMAIN caps /\ j \notin DOMAIN caps
  <2>1. /\ r.service = service /\ e = d
        /\ caps'[j].stripe = stripe_base(d, r) + (j - Len(caps)) - 1
        /\ j - Len(caps) \in 1..r.stripes
    BY <1>1, <1>4, <1>6
  <2>2. i \in Of(d, r.service)
    BY <1>1, <1>4, <1>6, <2>1 DEF Of, CapIds
  <2>3. caps[i].stripe < stripe_base(d, r)
    BY <1>1, <2>1, <2>2, StripeBase
  <2>4. caps[i].stripe \in Nat
    BY <1>6, CapsTyped DEF CapRow
  <2>5. caps'[i].stripe = caps[i].stripe
    BY <1>1, <1>6
  <2>. QED  BY <1>2, <2>1, <2>3, <2>4, <2>5
<1>7. CASE i \notin DOMAIN caps
  <2>1. i \in Nat /\ j \in Nat /\ 1 <= i
    <3>1. DOMAIN caps' = 1..Len(caps') /\ Len(caps') \in Nat
      BY <1>1
    <3>. QED  BY <1>4, <3>1
  <2>2. j \notin DOMAIN caps
    BY <1>3, <1>7, <2>1
  <2>3. /\ caps'[i].stripe = stripe_base(d, r) + (i - Len(caps)) - 1
        /\ caps'[j].stripe = stripe_base(d, r) + (j - Len(caps)) - 1
    BY <1>1, <1>4, <1>7, <2>2
  <2>. QED  BY <1>2, <1>3, <2>1, <2>3
<1>. QED  BY <1>5, <1>6, <1>7

-----------------------------------------------------------------------------
\* A step of the layout adds rows of DHCP clients, and changes no other field of
\* those there are than the interface.
OnlyClients ==
    /\ DOMAIN caps \subseteq DOMAIN caps'
    /\ \A i \in DOMAIN caps :
          /\ caps'[i].service = caps[i].service
          /\ caps'[i].depl = caps[i].depl
          /\ caps'[i].stripe = caps[i].stripe
    /\ \A i \in DOMAIN caps' \ DOMAIN caps : caps'[i].service = "dhclient"

LEMMA ClientsOnly ==
    ASSUME TypeOK, NEW upto \in Nat, DhclientRows(upto)
    PROVE  OnlyClients
<1>0. Tables
  BY Shape
<1>. PICK h, c, L : h = Call.host /\ c = Cardinality(Dhclients(h)) /\ L = Len(caps)
  OBVIOUS
<1>1. c \in Nat /\ L \in Nat /\ DOMAIN caps = 1..L
  BY <1>0, ClientSets DEF Tables
<1>. DEFINE old == [i \in DOMAIN caps |->
                       IF Wanted(h) > 0 /\ i \in Dhclients(h)
                       THEN [caps[i] EXCEPT !.iface = Nth(DhcpOf(h), Before(Dhclients(h), i))]
                       ELSE caps[i]]
            new == [i \in 1..(upto - c) |-> Dhclient(h, c + i - 1, Call.depl)]
<1>2. caps' = old \o new
  BY DEF DhclientRows
<1>3. \A i \in DOMAIN caps :
         /\ old[i].service = caps[i].service
         /\ old[i].depl = caps[i].depl
         /\ old[i].stripe = caps[i].stripe
  <2>. TAKE i \in DOMAIN caps
  <2>1. caps[i] \in CapRow(Services, StripeGroups)
    BY CapsTyped
  <2>2. PICK x : x = Nth(DhcpOf(h), Before(Dhclients(h), i))
    OBVIOUS
  <2>3. old[i] = caps[i] \/ old[i] = [caps[i] EXCEPT !.iface = x]
    BY <2>2
  <2>. HIDE DEF old
  <2>. QED  BY <2>1, <2>3 DEF CapRow
<1>4. \A i \in DOMAIN new : new[i].service = "dhclient"
  BY DEF Dhclient
<1>5. DOMAIN old = 1..L /\ old = [i \in 1..L |-> old[i]]
  BY <1>1
<1>6. PICK m \in Nat : DOMAIN new = 1..m /\ new = [i \in 1..m |-> new[i]]
  <2>1. CASE upto > c
    <3>1. upto - c \in Nat
      BY <1>1, <2>1
    <3>. QED  BY <3>1
  <2>2. CASE ~(upto > c)
    <3>1. 1..(upto - c) = 1..0
      BY <1>1, <2>2
    <3>. QED  BY <3>1
  <2>. QED  BY <2>1, <2>2
<1>7. /\ DOMAIN caps' = 1..(L + m)
      /\ \A i \in 1..L : caps'[i] = old[i]
      /\ \A i \in (L + 1)..(L + m) : caps'[i] = new[i - L] /\ i - L \in 1..m
  <2>. HIDE DEF old, new
  <2>1. Len(old) = L /\ Len(new) = m
    BY <1>1, <1>5, <1>6
  <2>. QED  BY <1>1, <1>2, <1>6, <2>1
<1>. QED
  <2>. HIDE DEF old, new
  <2>1. \A i \in DOMAIN caps' \ DOMAIN caps : i \in (L + 1)..(L + m)
    BY <1>1, <1>6, <1>7
  <2>2. \A i \in (L + 1)..(L + m) : caps'[i].service = "dhclient"
    <3>. TAKE i \in (L + 1)..(L + m)
    <3>1. PICK k \in 1..m : k = i - L /\ caps'[i] = new[k]
      BY <1>7
    <3>. QED  BY <1>4, <1>6, <3>1
  <2>3. DOMAIN caps \subseteq DOMAIN caps'
    BY <1>1, <1>6, <1>7
  <2>. QED  BY <1>1, <1>3, <1>7, <2>1, <2>2, <2>3 DEF OnlyClients

LEMMA LayoutClients ==
    ASSUME TypeOK, [Next]_vars
    PROVE  OnlyClients
<1>1. UNCHANGED caps => OnlyClients
  BY DEF OnlyClients
<1>2. ASSUME NEW h \in HostNames, add_host(h)  PROVE UNCHANGED caps
  BY <1>2 DEF add_host
<1>3. ASSUME NEW h \in HostNames, NEW name \in ExtraIfaces, add_iface(h, name)
      PROVE  UNCHANGED caps
  BY <1>3 DEF add_iface, rows
<1>4. Wanted(Call.host) \in Nat
  BY ClientSets DEF Wanted
<1>5. CASE CreateDhclients
  BY <1>4, <1>5, ClientsOnly DEF CreateDhclients
<1>6. CASE CreateDhclientsStops
  <2>1. PICK upto \in 1..(Wanted(Call.host) - 1) : DhclientRows(upto)
    BY <1>6 DEF CreateDhclientsStops
  <2>2. upto \in Nat
    BY <1>4, <2>1
  <2>. QED  BY <2>1, <2>2, ClientsOnly
<1>7. CASE Reroute \/ RerouteStops
  <2>1. UNCHANGED caps
    BY <1>7 DEF Reroute, RerouteStops, Rerouted
  <2>. QED  BY <1>1, <2>1
<1>8. CASE add_site \/ add_deployment \/ CreateIface \/ AssignSubnet \/ ConfigureDhcpd \/ Stop
  <2>1. UNCHANGED caps
    BY <1>8 DEF add_site, add_deployment, CreateIface, AssignSubnet, ConfigureDhcpd, Stop, rows
  <2>. QED  BY <1>1, <2>1
<1>9. CASE UNCHANGED vars
  BY <1>1, <1>9 DEF vars, rows
<1>. QED  BY <1>1, <1>2, <1>3, <1>5, <1>6, <1>7, <1>8, <1>9 DEF Next, CallStep

LEMMA LayoutKeepsStripes ==
    ASSUME StripesInOrder, OnlyClients
    PROVE  StripesInOrder'
<1>1. \A d \in 0..MaxDeployments : \A service \in Services \ {"dhclient"} :
         \A i \in Of(d, service)' : i \in Of(d, service) /\ caps'[i].stripe = caps[i].stripe
  BY DEF OnlyClients, Of, CapIds
<1>. QED  BY <1>1 DEF StripesInOrder

THEOREM PlacementInductive == PlacementInv /\ [PlacementNext]_vars => PlacementInv'
<1>. SUFFICES ASSUME PlacementInv, [PlacementNext]_vars  PROVE PlacementInv'
  OBVIOUS
<1>1. NetworkInv /\ TypeOK /\ StripesInOrder
  BY DEF PlacementInv, NetworkInv
<1>2. CASE [Next]_vars
  BY <1>1, <1>2, LayoutInductive, LayoutClients, LayoutKeepsStripes DEF PlacementInv
<1>3. ASSUME NEW d \in 1..deployments, NEW r \in Requests, add_capability(d, r)
      PROVE  PlacementInv'
  BY <1>1, <1>3, AddedKeepsLayout, AddedInOrder DEF PlacementInv
<1>. QED  BY <1>2, <1>3 DEF PlacementNext

LEMMA PlacementInit == Init => PlacementInv
<1>1. Init => StripesInOrder
  BY DEF Init, StripesInOrder, Of, CapIds
<1>. QED  BY <1>1, InitTypes DEF PlacementInv

\* Type correctness of the rows when capabilities are added to deployments
\* (OAG_Deployment.add_capability) between the calls that lay out the domain.
THEOREM PlacementTypes == PlacementSpec => []TypeOK
<1>1. PlacementInv => TypeOK
  BY DEF PlacementInv, NetworkInv
<1>. QED  BY <1>1, PlacementInit, PlacementInductive, PTL DEF PlacementSpec

\* In a deployment no two capabilities have the same service and stripe, of
\* which their name is made, through whatever groups they were asked for and
\* however often (add_capability numbers on from the newest row of the service).
THEOREM StripesAreDistinct == PlacementSpec => []StripesDistinct
<1>1. ASSUME PlacementInv  PROVE StripesDistinct
  <2>0. TypeOK /\ StripesInOrder
    BY <1>1 DEF PlacementInv, NetworkInv
  <2>. SUFFICES ASSUME NEW d \in 1..deployments, NEW service \in Services \ {"dhclient"},
                       NEW i \in Of(d, service), NEW j \in Of(d, service),
                       caps[i].stripe = caps[j].stripe
                PROVE  i = j
    BY DEF StripesDistinct
  <2>1. d \in 0..MaxDeployments
    BY <2>0, BoundAssumption DEF TypeOK
  <2>2. (i < j => caps[i].stripe < caps[j].stripe) /\ (j < i => caps[j].stripe < caps[i].stripe)
    BY <2>0, <2>1 DEF StripesInOrder
  <2>3. i \in DOMAIN caps /\ i \in Nat /\ j \in Nat
    BY <2>0, OfIs
  <2>4. caps[i].stripe \in Nat
    BY <2>0, <2>3, CapsTyped DEF CapRow
  <2>. QED  BY <2>2, <2>3, <2>4
<1>. QED  BY <1>1, PlacementInit, PlacementInductive, PTL DEF PlacementSpec

-----------------------------------------------------------------------------
\* Containers: every choice that containers makes is a choice of something.
CapRows == CapRow(Services, StripeGroups)

LEMMA FirstCapIn ==
    ASSUME NEW cs \in Seq(CapRows), NEW left, left \subseteq DOMAIN cs, left # {}
    PROVE  FirstCap(cs, left) \in left /\ \A j \in left : Earlier(cs, FirstCap(cs, left), j)
<1>1. \A i \in left : i \in Nat /\ cs[i].depl \in Nat /\ Pass(cs[i]) \in Nat
  <2>. TAKE i \in left
  <2>1. i \in Nat /\ cs[i] \in CapRows
    <3>. HIDE DEF CapRows
    <3>. QED  OBVIOUS
  <2>2. cs[i].depl \in 0..MaxDeployments
    BY <2>1 DEF CapRows, CapRow
  <2>. QED  BY <2>1, <2>2, BoundAssumption DEF Pass
<1>2. PICK F : F = [i \in left |-> <<cs[i].depl, Pass(cs[i]), i>>]
  OBVIOUS
<1>3. F \in [left -> Nat \X Nat \X Nat]
  BY <1>1, <1>2
<1>4. PICK i \in left : \A j \in left :
         \/ F[i][1] < F[j][1]
         \/ F[i][1] = F[j][1] /\ F[i][2] < F[j][2]
         \/ F[i][1] = F[j][1] /\ F[i][2] = F[j][2] /\ F[i][3] <= F[j][3]
  BY <1>3, LeastByThree
<1>5. \A j \in left : Earlier(cs, i, j)
  BY <1>2, <1>4 DEF Earlier
<1>. QED  BY <1>5 DEF FirstCap

LEMMA FirstRowIn ==
    ASSUME NEW hs \in Seq(HostNames), NEW S, S \subseteq DOMAIN hs, S # {}
    PROVE  /\ FirstRow(hs, S) \in S
           /\ \A k \in S :
                 \/ SiteOf[hs[FirstRow(hs, S)]] < SiteOf[hs[k]]
                 \/ SiteOf[hs[FirstRow(hs, S)]] = SiteOf[hs[k]] /\ FirstRow(hs, S) <= k
<1>1. \A n \in S : n \in Nat /\ SiteOf[hs[n]] \in Nat
  BY SitesAssumption
<1>2. PICK F : F = [n \in S |-> <<SiteOf[hs[n]], n, 0>>]
  OBVIOUS
<1>3. F \in [S -> Nat \X Nat \X Nat]
  BY <1>1, <1>2
<1>4. PICK n \in S : \A k \in S :
         \/ F[n][1] < F[k][1]
         \/ F[n][1] = F[k][1] /\ F[n][2] < F[k][2]
         \/ F[n][1] = F[k][1] /\ F[n][2] = F[k][2] /\ F[n][3] <= F[k][3]
  BY <1>3, LeastByThree
<1>5. \A k \in S :
         \/ SiteOf[hs[n]] < SiteOf[hs[k]]
         \/ SiteOf[hs[n]] = SiteOf[hs[k]] /\ n <= k
  BY <1>1, <1>2, <1>4
<1>. QED  BY <1>5 DEF FirstRow

\* One state of the loop: what it has left to place, what the hosts have left.
Placing(cs, m) ==
    /\ m = [left |-> m.left, free |-> m.free, placed |-> m.placed, raised |-> m.raised]
    /\ m.left \subseteq {i \in DOMAIN cs : cs[i].depl # Nothing}
    /\ m.free \in [HostNames -> Nat]

\* The cases of a step of it.
Rooms(cs, hs, m) == Room(hs, m.free, cs[FirstCap(cs, m.left)])
GoesOn(m) == ~m.raised /\ m.left # {}
PassesOver(cs, hs, m, p) ==
    /\ GoesOn(m) /\ Rooms(cs, hs, m) = {}
    /\ p.left = m.left \ {FirstCap(cs, m.left)}
    /\ p.free = m.free /\ p.placed = m.placed /\ p.raised = m.raised
Raises(cs, hs, m, p) ==
    /\ GoesOn(m) /\ Rooms(cs, hs, m) # {}
    /\ cs[FirstCap(cs, m.left)].affinity # Nothing
    /\ p.left = m.left /\ p.free = m.free /\ p.placed = m.placed /\ p.raised
Takes(cs, hs, m, p, i, n) ==
    /\ GoesOn(m) /\ i = FirstCap(cs, m.left) /\ n = FirstRow(hs, Rooms(cs, hs, m))
    /\ Rooms(cs, hs, m) # {} /\ cs[i].affinity = Nothing
    /\ p.left = m.left \ {i} /\ p.raised = m.raised
    /\ p.free = [m.free EXCEPT ![hs[n]] = @ - SlotFactor[cs[i].service]]
    /\ p.placed = m.placed \cup {[cap |-> i, host |-> hs[n],
                                  seqnum |-> seqnum(cs, m.placed, i, hs[n])]}

LEMMA PlaceIs ==
    ASSUME NEW cs \in Seq(CapRows), NEW hs \in Seq(HostNames), NEW m, Placing(cs, m),
           NEW p, p = Place(cs, hs, m)
    PROVE  /\ Placing(cs, p)
           /\ \/ ~GoesOn(m) /\ p = m
              \/ PassesOver(cs, hs, m, p)
              \/ Raises(cs, hs, m, p)
              \/ \E i, n : Takes(cs, hs, m, p, i, n)
<1>. PICK i, n, h, need :
        /\ i = FirstCap(cs, m.left) /\ n = FirstRow(hs, Rooms(cs, hs, m))
        /\ h = hs[n] /\ need = SlotFactor[cs[i].service]
  OBVIOUS
<1>. DEFINE c == [cap |-> i, host |-> h, seqnum |-> seqnum(cs, m.placed, i, h)]
<1>1. p = IF ~GoesOn(m) THEN m
          ELSE IF Rooms(cs, hs, m) = {} THEN [m EXCEPT !.left = @ \ {i}]
          ELSE IF cs[i].affinity # Nothing THEN [m EXCEPT !.raised = TRUE]
          ELSE [m EXCEPT !.left = @ \ {i}, !.free[h] = @ - need, !.placed = @ \cup {c}]
  BY Zenon DEF Place, GoesOn, Rooms
<1>2. CASE ~GoesOn(m)
  BY <1>1, <1>2
<1>3. CASE GoesOn(m) /\ Rooms(cs, hs, m) = {}
  <2>1. p = [m EXCEPT !.left = @ \ {i}]
    BY <1>1, <1>3
  <2>2. /\ p = [left |-> p.left, free |-> p.free, placed |-> p.placed, raised |-> p.raised]
        /\ p.left = m.left \ {i} /\ p.free = m.free
        /\ p.placed = m.placed /\ p.raised = m.raised
    BY <2>1 DEF Placing
  <2>. QED  BY <1>3, <2>2 DEF Placing, PassesOver
<1>4. CASE GoesOn(m) /\ Rooms(cs, hs, m) # {} /\ cs[i].affinity # Nothing
  <2>1. p = [m EXCEPT !.raised = TRUE]
    BY <1>1, <1>4
  <2>2. /\ p = [left |-> p.left, free |-> p.free, placed |-> p.placed, raised |-> p.raised]
        /\ p.left = m.left /\ p.free = m.free
        /\ p.placed = m.placed /\ p.raised = TRUE
    BY <2>1 DEF Placing
  <2>. QED  BY <1>4, <2>2 DEF Placing, Raises
<1>5. CASE GoesOn(m) /\ Rooms(cs, hs, m) # {} /\ cs[i].affinity = Nothing
  <2>1. p = [m EXCEPT !.left = @ \ {i}, !.free[h] = @ - need, !.placed = @ \cup {c}]
    BY <1>1, <1>5
  <2>2. PICK f : f = [m.free EXCEPT ![h] = @ - need]
    OBVIOUS
  <2>3. p = [m EXCEPT !.left = @ \ {i}, !.free = f, !.placed = @ \cup {c}]
    BY <2>1, <2>2
  <2>4. /\ p = [left |-> p.left, free |-> p.free, placed |-> p.placed, raised |-> p.raised]
        /\ p.left = m.left \ {i} /\ p.free = f
        /\ p.placed = m.placed \cup {c} /\ p.raised = m.raised
    <3>. HIDE DEF c
    <3>. QED  BY <2>3 DEF Placing
  <2>5. Takes(cs, hs, m, p, i, n)
    BY <1>5, <2>2, <2>4 DEF Takes
  <2>6. f \in [HostNames -> Nat]
    <3>1. n \in Rooms(cs, hs, m)
      <4>1. Rooms(cs, hs, m) \subseteq DOMAIN hs
        BY DEF Rooms, Room, Compute
      <4>. QED  BY <1>5, <4>1, FirstRowIn
    <3>2. h \in HostNames /\ m.free[h] >= need
      <4>1. n \in DOMAIN hs /\ m.free[hs[n]] >= SlotFactor[cs[i].service]
        BY <3>1 DEF Rooms, Room, Compute
      <4>. QED  BY <4>1
    <3>3. need \in Nat
      <4>1. i \in m.left
        BY <1>5, FirstCapIn DEF Placing, GoesOn
      <4>2. cs[i] \in CapRows
        <5>. HIDE DEF CapRows
        <5>. QED  BY <4>1 DEF Placing
      <4>. QED  BY <4>2, SlotsAssumption DEF CapRows, CapRow
    <3>4. m.free[h] - need \in Nat
      BY <3>2, <3>3 DEF Placing
    <3>. QED  BY <2>2, <3>2, <3>4 DEF Placing
  <2>. QED  BY <2>4, <2>5, <2>6 DEF Placing
<1>. QED  BY <1>2, <1>3, <1>4, <1>5

\* The states that the loop goes through, as a function of how many steps it has
\* made: there is one.
Loop(cs, hs, n, g) ==
    g = [k \in 0..n |-> IF k = 0 THEN Unplaced(cs, hs) ELSE Place(cs, hs, g[k - 1])]

LEMMA LoopExists ==
    ASSUME NEW cs, NEW hs, NEW n \in Nat
    PROVE  \E g : Loop(cs, hs, n, g)
<1>. DEFINE G == {k \in Nat : \E g : Loop(cs, hs, k, g)}
<1>1. 0 \in G
  <2>1. PICK g : g = [k \in 0..0 |-> Unplaced(cs, hs)]
    OBVIOUS
  <2>2. Loop(cs, hs, 0, g)
    BY <2>1 DEF Loop
  <2>. QED  BY <2>2
<1>2. ASSUME NEW k \in Nat, k \in G  PROVE k + 1 \in G
  <2>1. PICK g : Loop(cs, hs, k, g)
    BY <1>2
  <2>2. PICK f : f = [j \in 0..(k + 1) |-> IF j <= k THEN g[j] ELSE Place(cs, hs, g[k])]
    OBVIOUS
  <2>3. \A j \in 0..k : f[j] = g[j] /\ g[j] = IF j = 0 THEN Unplaced(cs, hs) ELSE Place(cs, hs, g[j - 1])
    BY <2>1, <2>2 DEF Loop
  <2>4. ASSUME NEW j \in 0..(k + 1)
        PROVE  f[j] = IF j = 0 THEN Unplaced(cs, hs) ELSE Place(cs, hs, f[j - 1])
    <3>1. CASE j = k + 1
      <4>1. ~(j <= k) /\ j # 0 /\ j - 1 = k /\ k \in 0..k
        BY <3>1
      <4>2. f[j] = Place(cs, hs, g[k]) /\ f[j - 1] = g[k]
        BY <2>2, <2>3, <4>1
      <4>. QED  BY <4>1, <4>2
    <3>2. CASE j # k + 1
      <4>1. j \in 0..k /\ (j # 0 => j - 1 \in 0..k)
        BY <3>2
      <4>. QED  BY <2>3, <4>1
    <3>. QED  BY <3>1, <3>2
  <2>5. f = [j \in 0..(k + 1) |-> IF j = 0 THEN Unplaced(cs, hs) ELSE Place(cs, hs, f[j - 1])]
    BY <2>2, <2>4
  <2>. QED  BY <2>5 DEF Loop
<1>. QED
  <2>. HIDE DEF G
  <2>1. Nat \subseteq G
    BY <1>1, <1>2, Induction
  <2>. QED  BY <2>1 DEF G

LEMMA ContainersLoop ==
    ASSUME NEW cs, NEW hs, Len(cs) \in Nat
    PROVE  \E g : /\ g[0] = Unplaced(cs, hs)
                  /\ \A k \in Nat : k < Len(cs) => g[k + 1] = Place(cs, hs, g[k])
                  /\ containersOf(cs, hs) = g[Len(cs)]
<1>. PICK n \in Nat : n = Len(cs)
  OBVIOUS
<1>1. PICK g : g = CHOOSE m : Loop(cs, hs, n, m)
  OBVIOUS
<1>2. Loop(cs, hs, n, g)
  BY <1>1, LoopExists
<1>3. containersOf(cs, hs) = g[n]
  BY <1>1 DEF containersOf, Loop
<1>4. \A k \in 0..n : g[k] = IF k = 0 THEN Unplaced(cs, hs) ELSE Place(cs, hs, g[k - 1])
  BY <1>2 DEF Loop
<1>5. ASSUME NEW k \in Nat, k < n  PROVE g[k + 1] = Place(cs, hs, g[k])
  <2>1. k + 1 \in 0..n /\ k + 1 # 0 /\ (k + 1) - 1 = k
    BY <1>5
  <2>. QED  BY <1>4, <2>1
<1>6. g[0] = Unplaced(cs, hs)
  BY <1>4
<1>. QED  BY <1>3, <1>5, <1>6

-----------------------------------------------------------------------------
\* What is placed so far: capabilities that are not left any more, on compute
\* hosts, numbered from 1 on for every host and deployment.
Mates(m, h, d) == {c \in m.placed : c.host = h /\ caps[c.cap].depl = d}
Numbered(m) ==
    /\ IsFiniteSet(m.placed)
    /\ \A c \in m.placed :
          /\ c.cap \in CapIds \ m.left /\ caps[c.cap].depl # Nothing
          /\ c.host \in HostTable \ Bastions
          /\ c.seqnum \in Nat /\ 1 <= c.seqnum
          /\ c.seqnum <= Cardinality(Mates(m, c.host, caps[c.cap].depl))
    /\ \A c, d \in m.placed :
          /\ c.host = d.host /\ caps[c.cap].depl = caps[d.cap].depl /\ c.seqnum = d.seqnum
          => c = d

\* The slots that a host started with are those taken and those left.
Balanced(m) ==
    \A h \in HostNames :
        /\ IsFiniteSet(SlotsTaken(m, h))
        /\ Cardinality(SlotsTaken(m, h)) + m.free[h] = Slots[h]

\* A container comes to those there are.
Comes(m, p, c) ==
    /\ c \notin m.placed /\ p.placed = m.placed \cup {c}

LEMMA TakenGrow ==
    ASSUME NEW m, NEW p, NEW c, Comes(m, p, c), NEW need \in Nat,
           need = SlotFactor[caps[c.cap].service], NEW h, IsFiniteSet(SlotsTaken(m, h))
    PROVE  /\ IsFiniteSet(SlotsTaken(p, h))
           /\ Cardinality(SlotsTaken(p, h)) =
                 Cardinality(SlotsTaken(m, h)) + IF h = c.host THEN need ELSE 0
<1>. PICK old, new, now : /\ old = SlotsTaken(m, h) /\ now = SlotsTaken(p, h)
                          /\ new = {c} \X (1..need)
  OBVIOUS
<1>1. /\ old = UNION {{x} \X (1..SlotFactor[caps[x.cap].service]) : x \in {x \in m.placed : x.host = h}}
      /\ now = UNION {{x} \X (1..SlotFactor[caps[x.cap].service]) : x \in {x \in p.placed : x.host = h}}
  BY DEF SlotsTaken
<1>2. CASE h # c.host
  <2>1. {x \in p.placed : x.host = h} = {x \in m.placed : x.host = h}
    BY <1>2 DEF Comes
  <2>2. now = old
    BY <1>1, <2>1
  <2>3. Cardinality(old) \in Nat
    BY FS_CardinalityType
  <2>. QED  BY <1>2, <2>2, <2>3
<1>3. CASE h = c.host
  <2>1. {x \in p.placed : x.host = h} = {x \in m.placed : x.host = h} \cup {c}
    BY <1>3 DEF Comes
  <2>2. now = old \cup new
    BY <1>1, <2>1
  <2>3. old \cap new = {}
    <3>1. \A y \in old : \E x \in m.placed : y[1] = x
      BY <1>1
    <3>2. \A y \in new : y[1] = c
      OBVIOUS
    <3>. QED  BY <3>1, <3>2 DEF Comes
  <2>4. IsFiniteSet(new) /\ Cardinality(new) = need
    <3>1. IsFiniteSet(1..need) /\ Cardinality(1..need) = need
      <4>1. 1 \in Int /\ need \in Int
        OBVIOUS
      <4>2. IsFiniteSet(1..need) /\ Cardinality(1..need) = IF 1 > need THEN 0 ELSE need - 1 + 1
        BY ONLY <4>1, FS_Interval
      <4>3. (IF 1 > need THEN 0 ELSE need - 1 + 1) = need
        OBVIOUS
      <4>. QED  BY <4>2, <4>3
    <3>2. IsFiniteSet({c}) /\ Cardinality({c}) = 1
      BY FS_Singleton
    <3>3. IsFiniteSet(new) /\ Cardinality(new) = Cardinality({c}) * Cardinality(1..need)
      BY <3>1, <3>2, FS_Product
    <3>4. 1 * need = need
      OBVIOUS
    <3>. QED  BY <3>1, <3>2, <3>3, <3>4
  <2>5. IsFiniteSet(now) /\ Cardinality(now) = Cardinality(old) + Cardinality(new) - Cardinality({})
    <3>1. /\ IsFiniteSet(old \cup new)
          /\ Cardinality(old \cup new) =
                Cardinality(old) + Cardinality(new) - Cardinality(old \cap new)
      BY <2>4, FS_Union
    <3>. QED  BY <2>2, <2>3, <3>1
  <2>6. Cardinality({}) = 0 /\ Cardinality(old) \in Nat
    BY FS_EmptySet, FS_CardinalityType
  <2>. QED  BY <1>3, <2>4, <2>5, <2>6
<1>. QED  BY <1>2, <1>3

LEMMA MatesGrow ==
    ASSUME NEW m, NEW p, NEW c, Comes(m, p, c), IsFiniteSet(m.placed), NEW h, NEW d
    PROVE  /\ IsFiniteSet(p.placed)
           /\ Cardinality(Mates(m, h, d)) \in Nat /\ Cardinality(Mates(p, h, d)) \in Nat
           /\ Cardinality(Mates(m, h, d)) <= Cardinality(Mates(p, h, d))
           /\ h = c.host /\ d = caps[c.cap].depl =>
                 Cardinality(Mates(p, h, d)) = Cardinality(Mates(m, h, d)) + 1
<1>1. IsFiniteSet(p.placed)
  BY FS_AddElement DEF Comes
<1>2. Mates(p, h, d) \in SUBSET p.placed /\ Mates(m, h, d) \in SUBSET Mates(p, h, d)
  BY DEF Mates, Comes
<1>3. IsFiniteSet(Mates(p, h, d))
  BY <1>1, <1>2, FS_Subset
<1>4. IsFiniteSet(Mates(m, h, d)) /\ Cardinality(Mates(m, h, d)) <= Cardinality(Mates(p, h, d))
  BY <1>2, <1>3, FS_Subset
<1>5. ASSUME h = c.host, d = caps[c.cap].depl
      PROVE  Cardinality(Mates(p, h, d)) = Cardinality(Mates(m, h, d)) + 1
  <2>1. Mates(p, h, d) = Mates(m, h, d) \cup {c} /\ c \notin Mates(m, h, d)
    BY <1>5 DEF Mates, Comes
  <2>. QED  BY <1>4, <2>1, FS_AddElement
<1>. QED  BY <1>1, <1>3, <1>4, <1>5, FS_CardinalityType

LEMMA StepNumbers ==
    ASSUME TypeOK, NEW m, Placing(caps, m), Numbered(m), Balanced(m),
           NEW p, NEW i, NEW n, Takes(caps, hosts, m, p, i, n)
    PROVE  Numbered(p) /\ Balanced(p)
<1>0. Tables /\ caps \in Seq(CapRows) /\ hosts \in Seq(HostNames)
  BY Shape DEF TypeOK, CapRows
<1>. PICK h, s, need, d, c :
        /\ h = hosts[n] /\ s = seqnum(caps, m.placed, i, h)
        /\ need = SlotFactor[caps[i].service] /\ d = caps[i].depl
        /\ c = [cap |-> i, host |-> h, seqnum |-> s]
  OBVIOUS
<1>1. i \in m.left /\ i \in CapIds /\ d # Nothing
  <2>1. i \in m.left
    BY <1>0, FirstCapIn DEF Placing, Takes, GoesOn
  <2>. QED  BY <2>1 DEF Placing, CapIds
<1>2. h \in HostTable \ Bastions
  <2>1. Rooms(caps, hosts, m) \subseteq DOMAIN hosts
    BY DEF Rooms, Room, Compute
  <2>2. n \in Rooms(caps, hosts, m)
    BY <1>0, <2>1, FirstRowIn DEF Takes
  <2>3. n \in DOMAIN hosts /\ ~is_bastion(hosts[n])
    BY <2>2 DEF Rooms, Room, Compute
  <2>. QED  BY <2>3 DEF HostTable, is_bastion
<1>3. /\ p.placed = m.placed \cup {c} /\ p.left = m.left \ {i}
      /\ p.free = [m.free EXCEPT ![h] = @ - need]
  BY DEF Takes
<1>4. c.cap = i /\ c.host = h /\ c.seqnum = s
  OBVIOUS
<1>5. c \notin m.placed
  BY <1>1, <1>4 DEF Numbered
<1>6. Comes(m, p, c)
  BY <1>3, <1>5 DEF Comes
<1>7. s = Cardinality(Mates(m, h, d)) + 1
  BY DEF seqnum, Mates
<1>8. need \in Nat
  <2>1. caps[i] \in CapRow(Services, StripeGroups)
    BY <1>1, CapsTyped DEF CapIds
  <2>. QED  BY <2>1, SlotsAssumption DEF CapRow
<1>9. \A g, e :
         /\ IsFiniteSet(p.placed)
         /\ Cardinality(Mates(m, g, e)) \in Nat /\ Cardinality(Mates(p, g, e)) \in Nat
         /\ Cardinality(Mates(m, g, e)) <= Cardinality(Mates(p, g, e))
         /\ g = c.host /\ e = caps[c.cap].depl =>
               Cardinality(Mates(p, g, e)) = Cardinality(Mates(m, g, e)) + 1
  BY <1>6, MatesGrow DEF Numbered
<1>10. s \in Nat /\ 1 <= s /\ s = Cardinality(Mates(p, h, d))
  BY <1>4, <1>7, <1>9
<1>11. ASSUME NEW x \in p.placed
       PROVE  /\ x.cap \in CapIds \ p.left /\ caps[x.cap].depl # Nothing
              /\ x.host \in HostTable \ Bastions
              /\ x.seqnum \in Nat /\ 1 <= x.seqnum
              /\ x.seqnum <= Cardinality(Mates(p, x.host, caps[x.cap].depl))
  <2>1. CASE x = c
    <3>1. x.cap = i /\ x.host = h /\ x.seqnum = s /\ caps[x.cap].depl = d
      BY <1>4, <2>1
    <3>2. i \notin p.left
      BY <1>3
    <3>3. s <= Cardinality(Mates(p, h, d))
      BY <1>9, <1>10
    <3>. QED  BY <1>1, <1>2, <1>10, <3>1, <3>2, <3>3
  <2>2. CASE x \in m.placed
    <3>1. /\ x.cap \in CapIds \ m.left /\ caps[x.cap].depl # Nothing
          /\ x.host \in HostTable \ Bastions
          /\ x.seqnum \in Nat /\ 1 <= x.seqnum
          /\ x.seqnum <= Cardinality(Mates(m, x.host, caps[x.cap].depl))
      BY <2>2 DEF Numbered
    <3>2. PICK a \in Nat, b \in Nat :
             /\ a = Cardinality(Mates(m, x.host, caps[x.cap].depl))
             /\ b = Cardinality(Mates(p, x.host, caps[x.cap].depl)) /\ a <= b
      BY <1>9
    <3>. QED  BY <1>3, <3>1, <3>2
  <2>. QED  BY <1>3, <2>1, <2>2
<1>12. ASSUME NEW x \in m.placed, x.host = h, caps[x.cap].depl = d
       PROVE  x.seqnum # s
  <2>1. x.seqnum \in Nat /\ x.seqnum <= Cardinality(Mates(m, h, d))
    BY <1>12 DEF Numbered
  <2>. QED  BY <1>7, <1>9, <2>1
<1>13. ASSUME NEW x \in p.placed, NEW y \in p.placed,
              x.host = y.host, caps[x.cap].depl = caps[y.cap].depl, x.seqnum = y.seqnum
       PROVE  x = y
  <2>1. CASE x \in m.placed /\ y \in m.placed
    BY <1>13, <2>1 DEF Numbered
  <2>2. CASE x = c \/ y = c
    BY <1>3, <1>4, <1>12, <1>13, <2>2
  <2>. QED  BY <1>3, <2>1, <2>2
<1>14. Numbered(p)
  BY <1>9, <1>11, <1>13 DEF Numbered
<1>15. ASSUME NEW g \in HostNames
       PROVE  /\ IsFiniteSet(SlotsTaken(p, g))
              /\ Cardinality(SlotsTaken(p, g)) + p.free[g] = Slots[g]
  <2>1. /\ IsFiniteSet(SlotsTaken(m, g))
        /\ Cardinality(SlotsTaken(m, g)) + m.free[g] = Slots[g]
    BY DEF Balanced
  <2>2. /\ IsFiniteSet(SlotsTaken(p, g))
        /\ Cardinality(SlotsTaken(p, g)) =
              Cardinality(SlotsTaken(m, g)) + IF g = h THEN need ELSE 0
    BY <1>4, <1>6, <1>8, <2>1, TakenGrow
  <2>3. Cardinality(SlotsTaken(m, g)) \in Nat
    BY <2>1, FS_CardinalityType
  <2>4. m.free[g] \in Nat /\ p.free[g] = m.free[g] - IF g = h THEN need ELSE 0
    BY <1>3, <1>8 DEF Placing
  <2>. QED  BY <1>8, <2>1, <2>2, <2>3, <2>4
<1>. QED  BY <1>14, <1>15 DEF Balanced

\* Neither changes when nothing is placed.
LEMMA NothingPlaced ==
    ASSUME NEW m, Numbered(m), Balanced(m),
           NEW p, p.placed = m.placed, p.free = m.free, p.left \subseteq m.left
    PROVE  Numbered(p) /\ Balanced(p)
<1>1. \A h, d : Mates(p, h, d) = Mates(m, h, d) /\ SlotsTaken(p, h) = SlotsTaken(m, h)
  BY DEF Mates, SlotsTaken
<1>2. Numbered(p)
  BY <1>1 DEF Numbered
<1>3. Balanced(p)
  BY <1>1 DEF Balanced
<1>. QED  BY <1>2, <1>3

LEMMA StepPlaces ==
    ASSUME TypeOK, NEW m, Placing(caps, m), Numbered(m), Balanced(m),
           NEW p, p = Place(caps, hosts, m)
    PROVE  Placing(caps, p) /\ Numbered(p) /\ Balanced(p)
<1>1. caps \in Seq(CapRows) /\ hosts \in Seq(HostNames)
  BY DEF TypeOK, CapRows
<1>2. /\ Placing(caps, p)
      /\ \/ ~GoesOn(m) /\ p = m
         \/ PassesOver(caps, hosts, m, p)
         \/ Raises(caps, hosts, m, p)
         \/ \E i, n : Takes(caps, hosts, m, p, i, n)
  BY <1>1, PlaceIs
<1>3. CASE \E i, n : Takes(caps, hosts, m, p, i, n)
  BY <1>2, <1>3, StepNumbers
<1>4. CASE \/ ~GoesOn(m) /\ p = m
           \/ PassesOver(caps, hosts, m, p)
           \/ Raises(caps, hosts, m, p)
  <2>1. p.placed = m.placed /\ p.free = m.free /\ p.left \subseteq m.left
    BY <1>4 DEF PassesOver, Raises
  <2>. QED  BY <1>2, <2>1, NothingPlaced
<1>. QED  BY <1>2, <1>3, <1>4

\* At the end of the loop too.
LEMMA ContainersAre ==
    ASSUME TypeOK
    PROVE  Placing(caps, containers) /\ Numbered(containers) /\ Balanced(containers)
<1>1. Len(caps) \in Nat
  BY Shape DEF Tables
<1>2. PICK g : /\ g[0] = Unplaced(caps, hosts)
               /\ \A k \in Nat : k < Len(caps) => g[k + 1] = Place(caps, hosts, g[k])
               /\ containersOf(caps, hosts) = g[Len(caps)]
  BY <1>1, ContainersLoop
<1>. DEFINE G == {k \in Nat : k <= Len(caps) =>
                    Placing(caps, g[k]) /\ Numbered(g[k]) /\ Balanced(g[k])}
<1>3. 0 \in G
  <2>1. PICK m : m = Unplaced(caps, hosts)
    OBVIOUS
  <2>2. /\ m = [left |-> m.left, free |-> m.free, placed |-> m.placed, raised |-> m.raised]
        /\ m.left = {i \in DOMAIN caps : caps[i].depl # Nothing}
        /\ m.free = Slots /\ m.placed = {}
    BY <2>1 DEF Unplaced
  <2>3. Placing(caps, m)
    BY <2>2, SlotsAssumption DEF Placing
  <2>4. Numbered(m)
    BY <2>2, FS_EmptySet DEF Numbered
  <2>5. \A h : SlotsTaken(m, h) = {}
    BY <2>2 DEF SlotsTaken
  <2>6. Balanced(m)
    BY <2>2, <2>5, FS_EmptySet, SlotsAssumption DEF Balanced
  <2>. QED  BY <1>2, <2>1, <2>3, <2>4, <2>6
<1>4. ASSUME NEW k \in Nat, k \in G  PROVE k + 1 \in G
  <2>. SUFFICES ASSUME k + 1 <= Len(caps)
                PROVE  Placing(caps, g[k + 1]) /\ Numbered(g[k + 1]) /\ Balanced(g[k + 1])
    OBVIOUS
  <2>1. k < Len(caps) /\ k <= Len(caps)
    BY <1>1
  <2>2. Placing(caps, g[k]) /\ Numbered(g[k]) /\ Balanced(g[k])
    BY <1>4, <2>1
  <2>3. g[k + 1] = Place(caps, hosts, g[k])
    BY <1>2, <2>1
  <2>. QED  BY <2>2, <2>3, StepPlaces
<1>5. Len(caps) \in G
  <2>. HIDE DEF G
  <2>. QED  BY <1>1, <1>3, <1>4, Induction
<1>. QED  BY <1>1, <1>2, <1>5 DEF containers

\* What is placed on a host (OAG_Domain.containers) never needs more than the
\* host has, for every order that capabilities, deployments and hosts came in.
THEOREM NeverOvercommitted == PlacementSpec => []NoOvercommit
<1>1. ASSUME PlacementInv  PROVE NoOvercommit
  <2>1. TypeOK
    BY <1>1 DEF PlacementInv, NetworkInv
  <2>2. ASSUME NEW h \in HostTable
        PROVE  Cardinality(SlotsTaken(containers, h)) <= Slots[h]
    <3>1. h \in HostNames
      BY <2>1, Shape DEF Tables
    <3>2. PICK n, m : n = Cardinality(SlotsTaken(containers, h)) /\ m = containers.free[h]
      OBVIOUS
    <3>3. n \in Nat /\ n + m = Slots[h]
      BY <2>1, <3>1, <3>2, ContainersAre, FS_CardinalityType DEF Balanced
    <3>4. m \in Nat
      BY <2>1, <3>1, <3>2, ContainersAre DEF Placing
    <3>. QED  BY <3>2, <3>3, <3>4
  <2>. QED  BY <2>2 DEF NoOvercommit
<1>. QED  BY <1>1, PlacementInit, PlacementInductive, PTL DEF PlacementSpec

\* The address of a container is beyond the first of a subnet that was made for
\* a VLAN of its host.
LEMMA AddressOfContainer ==
    ASSUME NetworkInv, NEW c \in containers.placed, ContainerAddress(c) # NoAddress
    PROVE  \E v \in VlanOf(c.host, caps[c.cap].depl) :
              /\ OwnSubnet(v) # Nothing /\ subnets[OwnSubnet(v)] = v
              /\ ContainerAddress(c) = <<OwnSubnet(v), c.seqnum + 1>>
<1>0. TypeOK /\ Tables
  BY Shape DEF NetworkInv
<1>. PICK V, v : V = VlanOf(c.host, caps[c.cap].depl) /\ v = Nth(V, 0)
  OBVIOUS
<1>1. V \subseteq 1..Len(ifaces) /\ Len(ifaces) \in Nat
  BY <1>0 DEF VlanOf, IfacesOf, Tables
<1>2. V # {}
  BY DEF ContainerAddress
<1>3. v \in V
  <2>1. IsFiniteSet(V) /\ V \subseteq Nat
    BY <1>1, FiniteIds
  <2>2. Cardinality(V) \in Nat /\ Cardinality(V) # 0
    BY <1>2, <2>1, FS_CardinalityType, FS_EmptySet
  <2>3. 0 \in Nat /\ 0 < Cardinality(V)
    BY <2>2
  <2>. QED  BY <2>1, <2>3, NthIn
<1>4. ContainerAddress(c) =
        IF OwnSubnet(v) = Nothing THEN NoAddress ELSE <<OwnSubnet(v), c.seqnum + 1>>
  BY <1>2 DEF ContainerAddress
<1>5. OwnSubnet(v) # Nothing /\ ContainerAddress(c) = <<OwnSubnet(v), c.seqnum + 1>>
  BY <1>4
<1>6. subnets[OwnSubnet(v)] = v
  BY <1>0, <1>5, SubnetOwner
<1>. QED  BY <1>3, <1>5, <1>6

\* Addresses of interfaces are none, first of a subnet, or in the subnet of an
\* interface of a bastion.
LEMMA AddressOfIface ==
    ASSUME NetworkInv, NEW f \in IfaceIds
    PROVE  \/ ip4(f) = NoAddress
           \/ \E n : ip4(f) = <<n, 1>>
           \/ \E r \in IfaceIds : \E k :
                 /\ is_bastion(ifaces[r].host)
                 /\ OwnSubnet(r) # Nothing /\ subnets[OwnSubnet(r)] = r
                 /\ ip4(f) = <<OwnSubnet(r), k>>
<1>0. TypeOK /\ Tables
  BY Shape DEF NetworkInv
<1>1. CASE External(f) \/ routingstyle(f) = "STATIC"
  BY <1>1 DEF ip4
<1>2. CASE ifaces[f].routed_by = Nothing /\ ~External(f) /\ routingstyle(f) # "STATIC"
  BY <1>2 DEF ip4
<1>3. CASE ifaces[f].routed_by # Nothing /\ ~External(f) /\ routingstyle(f) # "STATIC"
  <2>. PICK r, s : r = ifaces[f].routed_by /\ s = SiteOf[ifaces[f].host]
    OBVIOUS
  <2>1. IsRouter(r, s)
    BY <1>3 DEF NetworkInv, RoutedByBastion, RoutedBy
  <2>2. /\ r \in IfaceIds /\ ~External(r) /\ is_bastion(ifaces[r].host)
        /\ SiteOf[ifaces[r].host] = s
    BY <2>1 DEF IsRouter
  <2>3. ifaces[r].host \in BastionIn(s)
    BY <1>0, <2>1, RouterServed
  <2>4. ifaces[r].routed_by = Nothing
    BY <2>2 DEF NetworkInv, RoutedByBastion, RoutedBy
  <2>5. routingstyle(r) = "STATIC"
    BY <2>2, <2>3 DEF routingstyle
  <2>6. routed_subnet(r) = OwnSubnet(r)
    BY <2>4, <2>5 DEF routed_subnet
  <2>7. OwnSubnet(r) # Nothing /\ subnets[OwnSubnet(r)] = r
    <3>1. OwnSubnet(r) # Nothing
      BY <1>0, <2>1, SubnetOwner DEF IsRouter
    <3>. QED  BY <1>0, <3>1, SubnetOwner
  <2>8. ip4(f) = <<connected_ifaces(r)[1], connected_ifaces(r)[2][f]>>
    BY <1>3 DEF ip4
  <2>9. connected_ifaces(r)[1] = OwnSubnet(r)
    BY <2>6 DEF connected_ifaces
  <2>. QED  BY <2>2, <2>7, <2>8, <2>9
<1>. QED  BY <1>1, <1>2, <1>3

\* A container (OAG_Container.ip4) shares its address with no other container of
\* the domain and with no interface, although no address is stored: they are
\* computed from positions among the containers of a host, the connected
\* interfaces of a router and the subnets.
THEOREM ContainersApart == PlacementSpec => []ContainerAddressesDistinct
<1>1. ASSUME PlacementInv  PROVE ContainerAddressesDistinct
  <2>0. NetworkInv /\ TypeOK /\ Numbered(containers)
    BY <1>1, ContainersAre DEF PlacementInv, NetworkInv
  <2>1. ASSUME NEW c \in containers.placed, ContainerAddress(c) # NoAddress,
               NEW d \in containers.placed, ContainerAddress(c) = ContainerAddress(d)
        PROVE  c = d
    <3>1. PICK v \in VlanOf(c.host, caps[c.cap].depl) :
             /\ OwnSubnet(v) # Nothing /\ subnets[OwnSubnet(v)] = v
             /\ ContainerAddress(c) = <<OwnSubnet(v), c.seqnum + 1>>
      BY <2>0, <2>1, AddressOfContainer
    <3>2. PICK w \in VlanOf(d.host, caps[d.cap].depl) :
             /\ OwnSubnet(w) # Nothing /\ subnets[OwnSubnet(w)] = w
             /\ ContainerAddress(d) = <<OwnSubnet(w), d.seqnum + 1>>
      <4>1. ContainerAddress(d) # NoAddress
        BY <2>1
      <4>. QED  BY <2>0, <4>1, AddressOfContainer
    <3>3. OwnSubnet(v) = OwnSubnet(w) /\ c.seqnum + 1 = d.seqnum + 1
      <4>1. <<OwnSubnet(v), c.seqnum + 1>> = <<OwnSubnet(w), d.seqnum + 1>>
        BY <2>1, <3>1, <3>2
      <4>. QED  BY <4>1, SamePair
    <3>4. v = w
      BY <3>1, <3>2, <3>3
    <3>5. c.host = d.host /\ caps[c.cap].depl = caps[d.cap].depl
      <4>1. ifaces[v].host = c.host /\ ifaces[v].depl = caps[c.cap].depl
        BY <3>1 DEF VlanOf, IfacesOf
      <4>2. ifaces[w].host = d.host /\ ifaces[w].depl = caps[d.cap].depl
        BY <3>2 DEF VlanOf, IfacesOf
      <4>. QED  BY <3>4, <4>1, <4>2
    <3>6. c.seqnum = d.seqnum
      <4>1. c.seqnum \in Nat /\ d.seqnum \in Nat
        BY <2>0 DEF Numbered
      <4>. QED  BY <3>3, <4>1
    <3>. QED  BY <2>0, <3>5, <3>6 DEF Numbered
  <2>2. ASSUME NEW c \in containers.placed, ContainerAddress(c) # NoAddress,
               NEW f \in IfaceIds, ContainerAddress(c) = ip4(f)
        PROVE  FALSE
    <3>1. PICK v \in VlanOf(c.host, caps[c.cap].depl) :
             /\ OwnSubnet(v) # Nothing /\ subnets[OwnSubnet(v)] = v
             /\ ContainerAddress(c) = <<OwnSubnet(v), c.seqnum + 1>>
      BY <2>0, <2>2, AddressOfContainer
    <3>2. c.host \notin Bastions /\ c.seqnum \in Nat /\ 1 <= c.seqnum
      BY <2>0 DEF Numbered
    <3>3. ifaces[v].host = c.host
      BY <3>1 DEF VlanOf, IfacesOf
    <3>4. ASSUME NEW n, ip4(f) = <<n, 1>>  PROVE FALSE
      <4>1. <<OwnSubnet(v), c.seqnum + 1>> = <<n, 1>>
        BY <2>2, <3>1, <3>4
      <4>2. c.seqnum + 1 = 1
        BY <4>1, SamePair
      <4>. QED  BY <3>2, <4>2
    <3>5. ASSUME NEW r \in IfaceIds, NEW k, is_bastion(ifaces[r].host),
                 OwnSubnet(r) # Nothing, subnets[OwnSubnet(r)] = r,
                 ip4(f) = <<OwnSubnet(r), k>>
          PROVE  FALSE
      <4>1. <<OwnSubnet(v), c.seqnum + 1>> = <<OwnSubnet(r), k>>
        BY <2>2, <3>1, <3>5
      <4>2. OwnSubnet(v) = OwnSubnet(r)
        BY <4>1, SamePair
      <4>3. v = r
        BY <3>1, <3>5, <4>2
      <4>. QED  BY <3>2, <3>3, <3>5, <4>3 DEF is_bastion
    <3>. QED  BY <2>0, <2>2, <3>4, <3>5, AddressOfIface
  <2>. QED  BY <2>1, <2>2 DEF ContainerAddressesDistinct
<1>. QED  BY <1>1, PlacementInit, PlacementInductive, PTL DEF PlacementSpec

-----------------------------------------------------------------------------
\* What stays where it is when rows are added: the loop before the addition and
\* the one after it, side by side.
Run(cs, hs, g) ==
    /\ g[0] = Unplaced(cs, hs)
    /\ \A k \in Nat : k < Len(cs) => g[k + 1] = Place(cs, hs, g[k])

\* Neither of them raises: a step passes a capability over or takes it.
Moves(cs, hs, m, p) ==
    \/ m.left = {} /\ p = m
    \/ PassesOver(cs, hs, m, p)
    \/ \E i, n : Takes(cs, hs, m, p, i, n)

Sound(cs, hs, m) ==
    /\ Placing(cs, m)
    /\ \A c \in m.placed : c.cap \in DOMAIN cs /\ \E n \in DOMAIN hs : c.host = hs[n]

LEMMA RunSound ==
    ASSUME NEW cs \in Seq(CapRows), NEW hs \in Seq(HostNames), NEW g, Run(cs, hs, g)
    PROVE  \A k \in Nat : k <= Len(cs) => Sound(cs, hs, g[k])
<1>0. Len(cs) \in Nat
  <2>. HIDE DEF CapRows
  <2>. QED  OBVIOUS
<1>. DEFINE G == {k \in Nat : k <= Len(cs) => Sound(cs, hs, g[k])}
<1>1. 0 \in G
  <2>1. PICK m : m = Unplaced(cs, hs)
    OBVIOUS
  <2>2. /\ m = [left |-> m.left, free |-> m.free, placed |-> m.placed, raised |-> m.raised]
        /\ m.left = {i \in DOMAIN cs : cs[i].depl # Nothing}
        /\ m.free = Slots /\ m.placed = {}
    BY <2>1 DEF Unplaced
  <2>3. Sound(cs, hs, m)
    BY <2>2, SlotsAssumption DEF Placing, Sound
  <2>. QED  BY <2>1, <2>3 DEF Run
<1>2. ASSUME NEW k \in Nat, k \in G  PROVE k + 1 \in G
  <2>. SUFFICES ASSUME k + 1 <= Len(cs)  PROVE Sound(cs, hs, g[k + 1])
    OBVIOUS
  <2>1. PICK m, p : m = g[k] /\ p = g[k + 1]
    OBVIOUS
  <2>2. k < Len(cs) /\ k <= Len(cs)
    BY <1>0
  <2>3. Sound(cs, hs, m) /\ p = Place(cs, hs, m)
    BY <1>2, <2>1, <2>2 DEF Run
  <2>4. /\ Placing(cs, p)
        /\ \/ ~GoesOn(m) /\ p = m
           \/ PassesOver(cs, hs, m, p)
           \/ Raises(cs, hs, m, p)
           \/ \E i, n : Takes(cs, hs, m, p, i, n)
    BY <2>3, PlaceIs DEF Sound
  <2>5. CASE p.placed = m.placed
    BY <2>1, <2>3, <2>4, <2>5 DEF Sound
  <2>6. ASSUME NEW i, NEW n, Takes(cs, hs, m, p, i, n)
        PROVE  \A c \in p.placed : c.cap \in DOMAIN cs /\ \E row \in DOMAIN hs : c.host = hs[row]
    <3>1. i \in DOMAIN cs
      <4>1. i \in m.left
        BY <2>3, <2>6, FirstCapIn DEF Sound, Placing, Takes, GoesOn
      <4>. QED  BY <2>3, <4>1 DEF Sound, Placing
    <3>2. n \in DOMAIN hs
      <4>1. Rooms(cs, hs, m) \subseteq DOMAIN hs
        BY DEF Rooms, Room, Compute
      <4>. QED  BY <2>6, <4>1, FirstRowIn DEF Takes
    <3>3. PICK c : /\ c = [cap |-> i, host |-> hs[n], seqnum |-> seqnum(cs, m.placed, i, hs[n])]
                   /\ p.placed = m.placed \cup {c}
      BY <2>6 DEF Takes
    <3>4. c.cap = i /\ c.host = hs[n]
      BY <3>3
    <3>. QED  BY <2>3, <3>1, <3>2, <3>3, <3>4 DEF Sound
  <2>. QED  BY <2>1, <2>4, <2>5, <2>6 DEF Sound, PassesOver, Raises
<1>. QED
  <2>. HIDE DEF G
  <2>1. Nat \subseteq G
    BY <1>1, <1>2, Induction
  <2>. QED  BY <2>1 DEF G

\* A loop that has not raised has not raised on the way, and left nothing.
LEMMA RunMoves ==
    ASSUME NEW cs \in Seq(CapRows), NEW hs \in Seq(HostNames), NEW g, Run(cs, hs, g),
           ~g[Len(cs)].raised
    PROVE  /\ \A k \in Nat : k < Len(cs) => Moves(cs, hs, g[k], g[k + 1])
           /\ g[Len(cs)].left = {}
<1>. PICK n : n = Len(cs)
  OBVIOUS
<1>0. n \in Nat /\ DOMAIN cs = 1..n
  <2>. HIDE DEF CapRows
  <2>. QED  OBVIOUS
<1>1. ASSUME NEW k \in Nat, k < n
      PROVE  /\ Placing(cs, g[k])
             /\ \/ ~GoesOn(g[k]) /\ g[k + 1] = g[k]
                \/ PassesOver(cs, hs, g[k], g[k + 1])
                \/ Raises(cs, hs, g[k], g[k + 1])
                \/ \E i, row : Takes(cs, hs, g[k], g[k + 1], i, row)
  <2>1. g[k + 1] = Place(cs, hs, g[k])
    BY <1>1 DEF Run
  <2>2. Placing(cs, g[k])
    BY <1>0, <1>1, RunSound DEF Sound
  <2>. QED  BY <2>1, <2>2, PlaceIs
<1>. DEFINE U == {t \in Nat : t <= n => ~g[n - t].raised}
<1>2. 0 \in U
  BY <1>0
<1>3. ASSUME NEW t \in Nat, t \in U  PROVE t + 1 \in U
  <2>. SUFFICES ASSUME t + 1 <= n  PROVE ~g[n - (t + 1)].raised
    OBVIOUS
  <2>1. PICK k \in Nat : k = n - (t + 1) /\ k < n /\ k + 1 = n - t /\ t <= n
    <3>1. /\ n - (t + 1) \in Nat /\ n - (t + 1) < n /\ (n - (t + 1)) + 1 = n - t
          /\ t <= n
      BY <1>0
    <3>. QED  BY <3>1
  <2>2. ~g[k + 1].raised
    BY <1>3, <2>1
  <2>3. ~g[k].raised
    BY <1>1, <2>1, <2>2 DEF GoesOn, PassesOver, Raises, Takes
  <2>. QED  BY <2>1, <2>3
<1>4. ASSUME NEW k \in Nat, k <= n  PROVE ~g[k].raised
  <2>. HIDE DEF U
  <2>1. n - k \in Nat /\ n - k <= n /\ n - (n - k) = k
    BY <1>0, <1>4
  <2>2. n - k \in U
    BY <1>2, <1>3, <2>1, Induction
  <2>. QED  BY <2>1, <2>2 DEF U
<1>5. ASSUME NEW k \in Nat, k < n  PROVE Moves(cs, hs, g[k], g[k + 1])
  <2>1. ~g[k].raised /\ ~g[k + 1].raised
    <3>1. k + 1 \in Nat /\ k + 1 <= n /\ k <= n
      BY <1>0, <1>5
    <3>. QED  BY <1>4, <3>1
  <2>. QED  BY <1>1, <1>5, <2>1 DEF Moves, GoesOn, Raises
<1>. DEFINE V == {k \in Nat : k <= n => Cardinality(g[k].left) + k <= n}
<1>6. ASSUME NEW k \in Nat, k <= n
      PROVE  /\ IsFiniteSet(g[k].left) /\ Cardinality(g[k].left) \in Nat
             /\ g[k].left \subseteq 1..n
  <2>1. g[k].left \subseteq 1..n
    BY <1>0, <1>6, RunSound DEF Sound, Placing
  <2>. QED  BY <1>0, <2>1, FiniteIds, FS_CardinalityType
<1>7. 0 \in V
  <2>1. g[0].left \in SUBSET (1..n)
    BY <1>0, <1>6
  <2>2. IsFiniteSet(1..n) /\ Cardinality(1..n) = n
    <3>1. 1 \in Int /\ n \in Int
      BY <1>0
    <3>2. IsFiniteSet(1..n) /\ Cardinality(1..n) = IF 1 > n THEN 0 ELSE n - 1 + 1
      BY ONLY <3>1, FS_Interval
    <3>3. (IF 1 > n THEN 0 ELSE n - 1 + 1) = n
      BY <1>0
    <3>. QED  BY <3>2, <3>3
  <2>3. Cardinality(g[0].left) <= n
    BY <2>1, <2>2, FS_Subset
  <2>4. Cardinality(g[0].left) \in Nat
    BY <1>0, <1>6
  <2>. QED  BY <2>3, <2>4
<1>8. ASSUME NEW k \in Nat, k \in V  PROVE k + 1 \in V
  <2>. SUFFICES ASSUME k + 1 <= n  PROVE Cardinality(g[k + 1].left) + (k + 1) <= n
    OBVIOUS
  <2>1. k < n /\ k <= n
    BY <1>0
  <2>2. PICK a, b : a = g[k].left /\ b = g[k + 1].left
    OBVIOUS
  <2>3. IsFiniteSet(a) /\ Cardinality(a) \in Nat /\ Cardinality(a) + k <= n
    BY <1>6, <1>8, <2>1, <2>2
  <2>4. CASE a = {}
    <3>1. b = {}
      BY <1>5, <2>1, <2>2, <2>4 DEF Moves, PassesOver, Takes, GoesOn
    <3>. QED  BY <1>0, <2>2, <3>1, FS_EmptySet
  <2>5. CASE a # {}
    <3>1. PICK i : i = FirstCap(cs, a)
      OBVIOUS
    <3>2. i \in a
      <4>1. a \subseteq DOMAIN cs
        BY <1>0, <1>6, <2>1, <2>2
      <4>. QED  BY <2>5, <3>1, <4>1, FirstCapIn
    <3>3. b = a \ {i}
      BY <1>5, <2>1, <2>2, <2>5, <3>1 DEF Moves, PassesOver, Takes
    <3>4. Cardinality(b) = Cardinality(a) - 1
      BY <2>3, <3>2, <3>3, FS_RemoveElement
    <3>. QED  BY <1>0, <2>2, <2>3, <3>4
  <2>. QED  BY <2>4, <2>5
<1>9. g[n].left = {}
  <2>1. Cardinality(g[n].left) + n <= n
    <3>. HIDE DEF V
    <3>1. n \in V
      BY <1>0, <1>7, <1>8, Induction
    <3>. QED  BY <1>0, <3>1 DEF V
  <2>2. IsFiniteSet(g[n].left) /\ Cardinality(g[n].left) \in Nat
    BY <1>0, <1>6
  <2>3. Cardinality(g[n].left) = 0
    BY <1>0, <2>1, <2>2
  <2>. QED  BY <2>2, <2>3, FS_EmptySet
<1>. QED  BY <1>5, <1>9

\* 1. A host is added. Of what is placed ahead of it, nothing changes: what there
\* is no room for ahead of it goes to it or beyond, in both loops.
OneMore(hs, h, more) ==
    /\ hs \in Seq(HostNames) /\ h \in HostNames /\ \A n \in DOMAIN hs : hs[n] # h
    /\ more \in Seq(HostNames) /\ DOMAIN more = 1..(Len(hs) + 1)
    /\ \A n \in DOMAIN hs : more[n] = hs[n]
    /\ more[Len(hs) + 1] = h
Ahead(h, other) == other # h /\ SiteOf[other] <= SiteOf[h]
SameAhead(h, m, m2) ==
    /\ m.left = m2.left
    /\ \A other \in HostNames : Ahead(h, other) => m.free[other] = m2.free[other]
    /\ \A c : Ahead(h, c.host) => (c \in m.placed <=> c \in m2.placed)

LEMMA RoomAhead ==
    ASSUME NEW cs, NEW hs, NEW h, NEW more, OneMore(hs, h, more),
           NEW m, NEW m2, SameAhead(h, m, m2),
           NEW n \in DOMAIN hs, Ahead(h, hs[n])
    PROVE  n \in Rooms(cs, hs, m) <=> n \in Rooms(cs, more, m2)
<1>1. n \in DOMAIN more /\ more[n] = hs[n] /\ hs[n] \in HostNames
  BY DEF OneMore
<1>2. m.free[hs[n]] = m2.free[hs[n]] /\ m.left = m2.left
  BY <1>1 DEF SameAhead
<1>. QED  BY <1>1, <1>2 DEF Rooms, Room, Compute

LEMMA FirstAhead ==
    ASSUME NEW cs, NEW hs, NEW h, NEW more, OneMore(hs, h, more),
           NEW m, NEW m2, SameAhead(h, m, m2)
    PROVE  LET S == Rooms(cs, hs, m)
               T == Rooms(cs, more, m2)
           IN  \/ /\ S # {} /\ T # {} /\ FirstRow(hs, S) = FirstRow(more, T)
                  /\ FirstRow(hs, S) \in DOMAIN hs /\ Ahead(h, hs[FirstRow(hs, S)])
               \/ /\ S # {} => ~Ahead(h, hs[FirstRow(hs, S)])
                  /\ T # {} => ~Ahead(h, more[FirstRow(more, T)])
<1>. PICK S, T, a, b, L : /\ S = Rooms(cs, hs, m) /\ T = Rooms(cs, more, m2)
                          /\ a = FirstRow(hs, S) /\ b = FirstRow(more, T) /\ L = Len(hs)
  OBVIOUS
<1>0. /\ hs \in Seq(HostNames) /\ DOMAIN hs = 1..L /\ L \in Nat /\ h \in HostNames
      /\ more \in Seq(HostNames) /\ DOMAIN more = 1..(L + 1)
      /\ \A n \in 1..L : more[n] = hs[n] /\ hs[n] # h
      /\ more[L + 1] = h
  BY DEF OneMore
<1>1. S \subseteq 1..L /\ T \subseteq 1..(L + 1)
  BY <1>0 DEF Rooms, Room, Compute
<1>2. \A n \in 1..L : Ahead(h, hs[n]) => (n \in S <=> n \in T)
  BY <1>0, RoomAhead
<1>3. \A n \in 1..(L + 1) : SiteOf[more[n]] \in Nat /\ n \in Nat
  BY <1>0, SitesAssumption
<1>4. \A n \in T : n \in 1..L \/ n = L + 1
  BY <1>0, <1>1
<1>5. S # {} => /\ a \in S
                /\ \A k \in S : \/ SiteOf[hs[a]] < SiteOf[hs[k]]
                                \/ SiteOf[hs[a]] = SiteOf[hs[k]] /\ a <= k
  BY <1>0, <1>1, FirstRowIn
<1>6. T # {} => /\ b \in T
                /\ \A k \in T : \/ SiteOf[more[b]] < SiteOf[more[k]]
                                \/ SiteOf[more[b]] = SiteOf[more[k]] /\ b <= k
  BY <1>0, <1>1, FirstRowIn
<1>7. ASSUME S # {}, Ahead(h, hs[a])
      PROVE  T # {} /\ a = b /\ a \in DOMAIN hs
  <2>1. a \in S /\ a \in 1..L /\ a \in T /\ more[a] = hs[a]
    BY <1>0, <1>1, <1>2, <1>5, <1>7
  <2>2. \/ SiteOf[more[b]] < SiteOf[hs[a]]
        \/ SiteOf[more[b]] = SiteOf[hs[a]] /\ b <= a
    BY <1>6, <2>1
  <2>3. b \in T /\ b \in 1..(L + 1)
    BY <1>1, <1>6, <2>1
  <2>4. b \in 1..L
    <3>1. SUFFICES ASSUME b = L + 1  PROVE FALSE
      BY <1>4, <2>3
    <3>2. SiteOf[h] \in Nat /\ SiteOf[hs[a]] \in Nat /\ SiteOf[hs[a]] <= SiteOf[h]
      BY <1>0, <1>3, <1>7, <2>1, <3>1 DEF Ahead
    <3>3. more[b] = h
      BY <1>0, <3>1
    <3>4. ~(L + 1 <= a)
      BY <1>0, <2>1
    <3>. QED  BY <2>2, <3>1, <3>2, <3>3, <3>4
  <2>5. more[b] = hs[b] /\ hs[b] # h
    BY <1>0, <2>4
  <2>6. Ahead(h, hs[b])
    <3>1. SiteOf[h] \in Nat /\ SiteOf[hs[a]] \in Nat /\ SiteOf[hs[b]] \in Nat
      BY <1>0, <1>3, <2>1, <2>3, <2>5, SitesAssumption
    <3>. QED  BY <1>7, <2>2, <2>5, <3>1 DEF Ahead
  <2>7. b \in S
    BY <1>2, <2>3, <2>4, <2>6
  <2>8. \/ SiteOf[hs[a]] < SiteOf[hs[b]]
        \/ SiteOf[hs[a]] = SiteOf[hs[b]] /\ a <= b
    BY <1>5, <2>7
  <2>9. a = b
    <3>1. SiteOf[hs[a]] \in Nat /\ SiteOf[hs[b]] \in Nat /\ a \in Nat /\ b \in Nat
      BY <1>0, <1>3, <2>1, <2>3, <2>5
    <3>. QED  BY <2>2, <2>5, <2>8, <3>1
  <2>. QED  BY <1>0, <2>1, <2>9
<1>8. ASSUME T # {}, Ahead(h, more[b])
      PROVE  S # {} /\ Ahead(h, hs[a])
  <2>1. b \in T /\ b \in 1..L /\ more[b] = hs[b]
    BY <1>0, <1>4, <1>6, <1>8 DEF Ahead
  <2>2. b \in S
    BY <1>2, <1>8, <2>1
  <2>3. a \in S /\ a \in 1..L
    BY <1>1, <1>5, <2>2
  <2>4. \/ SiteOf[hs[a]] < SiteOf[hs[b]]
        \/ SiteOf[hs[a]] = SiteOf[hs[b]] /\ a <= b
    BY <1>5, <2>2
  <2>5. SiteOf[h] \in Nat /\ SiteOf[hs[a]] \in Nat /\ SiteOf[hs[b]] \in Nat
    BY <1>0, <2>1, <2>3, SitesAssumption
  <2>6. hs[a] # h
    BY <1>0, <2>3
  <2>. QED  BY <1>8, <2>1, <2>2, <2>4, <2>5, <2>6 DEF Ahead
<1>. QED  BY <1>7, <1>8

\* A step that takes nothing ahead of the host, and what it changes there.
TakesBehind(cs, hs, h, m) ==
    /\ m.left # {}
    /\ Rooms(cs, hs, m) # {} => ~Ahead(h, hs[FirstRow(hs, Rooms(cs, hs, m))])
SameOf(cs, h, m, p) ==
    /\ p.left = m.left \ {FirstCap(cs, m.left)}
    /\ \A other \in HostNames : Ahead(h, other) => p.free[other] = m.free[other]
    /\ \A c : Ahead(h, c.host) => (c \in p.placed <=> c \in m.placed)

LEMMA BehindOnly ==
    ASSUME NEW cs, NEW hs, NEW h, NEW m, NEW p, Sound(cs, hs, m),
           Moves(cs, hs, m, p), TakesBehind(cs, hs, h, m)
    PROVE  SameOf(cs, h, m, p)
<1>. USE DEF SameOf, TakesBehind
<1>1. CASE PassesOver(cs, hs, m, p)
  BY <1>1 DEF PassesOver
<1>2. ASSUME NEW i, NEW n, Takes(cs, hs, m, p, i, n)
      PROVE  /\ p.left = m.left \ {FirstCap(cs, m.left)}
             /\ \A other \in HostNames : Ahead(h, other) => p.free[other] = m.free[other]
             /\ \A c : Ahead(h, c.host) => (c \in p.placed <=> c \in m.placed)
  <2>1. PICK c, need, there : /\ c = [cap |-> i, host |-> there,
                                      seqnum |-> seqnum(cs, m.placed, i, there)]
                              /\ need = SlotFactor[cs[i].service] /\ there = hs[n]
    OBVIOUS
  <2>2. /\ p.placed = m.placed \cup {c} /\ p.free = [m.free EXCEPT ![there] = @ - need]
        /\ p.left = m.left \ {FirstCap(cs, m.left)}
    BY <1>2, <2>1 DEF Takes
  <2>3. ~Ahead(h, there)
    BY <1>2, <2>1 DEF Takes
  <2>4. c.host = there
    BY <2>1
  <2>5. \A other \in HostNames : Ahead(h, other) => p.free[other] = m.free[other]
    BY <2>2, <2>3 DEF Sound, Placing
  <2>. QED  BY <2>2, <2>3, <2>4, <2>5
<1>. QED  BY <1>1, <1>2 DEF Moves

LEMMA StepAhead ==
    ASSUME NEW cs, NEW hs, NEW h, NEW more, OneMore(hs, h, more),
           NEW m, NEW p, Sound(cs, hs, m), Moves(cs, hs, m, p),
           NEW m2, NEW p2, Sound(cs, more, m2), Moves(cs, more, m2, p2),
           SameAhead(h, m, m2)
    PROVE  SameAhead(h, p, p2)
<1>0. hs \in Seq(HostNames) /\ more \in Seq(HostNames) /\ m.left = m2.left
  BY DEF OneMore, SameAhead
<1>1. CASE m.left = {}
  <2>1. p = m /\ p2 = m2
    BY <1>0, <1>1 DEF Moves, PassesOver, Takes, GoesOn
  <2>. QED  BY <2>1
<1>. PICK S, T, a, b : /\ S = Rooms(cs, hs, m) /\ T = Rooms(cs, more, m2)
                       /\ a = FirstRow(hs, S) /\ b = FirstRow(more, T)
  OBVIOUS
<1>2. \/ S # {} /\ T # {} /\ a = b /\ a \in DOMAIN hs /\ Ahead(h, hs[a])
      \/ (S # {} => ~Ahead(h, hs[a])) /\ (T # {} => ~Ahead(h, more[b]))
  BY FirstAhead
<1>3. CASE m.left # {} /\ (S # {} => ~Ahead(h, hs[a])) /\ (T # {} => ~Ahead(h, more[b]))
  <2>1. TakesBehind(cs, hs, h, m)
    BY <1>3 DEF TakesBehind
  <2>2. TakesBehind(cs, more, h, m2)
    BY <1>0, <1>3 DEF TakesBehind
  <2>3. SameOf(cs, h, m, p) /\ SameOf(cs, h, m2, p2)
    BY <2>1, <2>2, BehindOnly
  <2>. QED  BY <1>0, <2>3 DEF SameAhead, SameOf
<1>4. CASE /\ m.left # {} /\ S # {} /\ T # {} /\ a = b
           /\ a \in DOMAIN hs /\ Ahead(h, hs[a])
  <2>. PICK i, there : i = FirstCap(cs, m.left) /\ there = hs[a]
    OBVIOUS
  <2>1. more[a] = there
    BY <1>4 DEF OneMore
  <2>2. Takes(cs, hs, m, p, i, a)
    BY <1>4 DEF Moves, PassesOver, Takes
  <2>3. Takes(cs, more, m2, p2, i, a)
    BY <1>0, <1>4 DEF Moves, PassesOver, Takes
  <2>4. seqnum(cs, m.placed, i, there) = seqnum(cs, m2.placed, i, there)
    <3>1. {c \in m.placed : c.host = there /\ cs[c.cap].depl = cs[i].depl}
             = {c \in m2.placed : c.host = there /\ cs[c.cap].depl = cs[i].depl}
      BY <1>4 DEF SameAhead
    <3>. QED  BY <3>1 DEF seqnum
  <2>. PICK c, need : /\ c = [cap |-> i, host |-> there, seqnum |-> seqnum(cs, m.placed, i, there)]
                      /\ need = SlotFactor[cs[i].service]
    OBVIOUS
  <2>5. /\ p.left = m.left \ {i} /\ p.placed = m.placed \cup {c}
        /\ p.free = [m.free EXCEPT ![there] = @ - need]
    BY <2>2 DEF Takes
  <2>6. /\ p2.left = m2.left \ {i} /\ p2.placed = m2.placed \cup {c}
        /\ p2.free = [m2.free EXCEPT ![there] = @ - need]
    BY <2>1, <2>3, <2>4 DEF Takes
  <2>7. ASSUME NEW other \in HostNames, Ahead(h, other)
        PROVE  p.free[other] = p2.free[other]
    <3>1. m.free[other] = m2.free[other]
      BY <2>7 DEF SameAhead
    <3>. QED  BY <2>5, <2>6, <3>1 DEF Sound, Placing
  <2>8. \A x : Ahead(h, x.host) => (x \in p.placed <=> x \in p2.placed)
    BY <2>5, <2>6 DEF SameAhead
  <2>. QED  BY <1>0, <2>5, <2>6, <2>7, <2>8 DEF SameAhead
<1>. QED  BY <1>1, <1>2, <1>3, <1>4

LEMMA HostAddedKeeps ==
    ASSUME NEW cs \in Seq(CapRows), NEW hs, NEW h, NEW more, OneMore(hs, h, more),
           ~containersOf(cs, hs).raised, ~containersOf(cs, more).raised,
           NEW c \in containersOf(cs, hs).placed, SiteOf[h] >= SiteOf[c.host]
    PROVE  c \in containersOf(cs, more).placed
<1>0. /\ hs \in Seq(HostNames) /\ more \in Seq(HostNames)
      /\ h \in HostNames /\ \A n \in DOMAIN hs : hs[n] # h
  BY DEF OneMore
<1>1. Len(cs) \in Nat
  <2>. HIDE DEF CapRows
  <2>. QED  OBVIOUS
<1>2. PICK g : Run(cs, hs, g) /\ containersOf(cs, hs) = g[Len(cs)]
  BY <1>1, ContainersLoop DEF Run
<1>3. PICK f : Run(cs, more, f) /\ containersOf(cs, more) = f[Len(cs)]
  BY <1>1, ContainersLoop DEF Run
<1>. DEFINE G == {k \in Nat : k <= Len(cs) => SameAhead(h, g[k], f[k])}
<1>4. 0 \in G
  <2>1. PICK m, m2 : m = Unplaced(cs, hs) /\ m2 = Unplaced(cs, more)
    OBVIOUS
  <2>2. m.left = m2.left /\ m.free = m2.free /\ m.placed = m2.placed
    BY <2>1 DEF Unplaced
  <2>. QED  BY <1>2, <1>3, <2>1, <2>2 DEF Run, SameAhead
<1>5. ASSUME NEW k \in Nat, k \in G  PROVE k + 1 \in G
  <2>. SUFFICES ASSUME k + 1 <= Len(cs)  PROVE SameAhead(h, g[k + 1], f[k + 1])
    OBVIOUS
  <2>1. k < Len(cs) /\ k <= Len(cs)
    BY <1>1
  <2>2. Sound(cs, hs, g[k]) /\ Moves(cs, hs, g[k], g[k + 1])
    BY <1>0, <1>2, <2>1, RunSound, RunMoves
  <2>3. Sound(cs, more, f[k]) /\ Moves(cs, more, f[k], f[k + 1])
    BY <1>0, <1>3, <2>1, RunSound, RunMoves
  <2>4. SameAhead(h, g[k], f[k])
    BY <1>5, <2>1
  <2>. QED  BY <2>2, <2>3, <2>4, StepAhead
<1>6. SameAhead(h, g[Len(cs)], f[Len(cs)])
  <2>. HIDE DEF G
  <2>1. Len(cs) \in G
    BY <1>1, <1>4, <1>5, Induction
  <2>. QED  BY <1>1, <2>1 DEF G
<1>7. Ahead(h, c.host)
  <2>1. \E n \in DOMAIN hs : c.host = hs[n]
    BY <1>0, <1>1, <1>2, RunSound DEF Sound
  <2>2. c.host # h /\ c.host \in HostNames
    BY <1>0, <2>1
  <2>3. SiteOf[h] \in Nat /\ SiteOf[c.host] \in Nat
    BY <1>0, <2>2, SitesAssumption
  <2>. QED  BY <2>2, <2>3 DEF Ahead
<1>. QED  BY <1>2, <1>3, <1>6, <1>7 DEF SameAhead

\* 2. Capabilities are added to deployment d. The loop with them goes through the
\* same states until it takes the first of them, which is after all that is
\* older in d and in earlier deployments.
Longer(cs, d, more) ==
    /\ cs \in Seq(CapRows) /\ more \in Seq(CapRows) /\ d \in Nat \ {Nothing}
    /\ DOMAIN cs = 1..Len(cs) /\ Len(cs) \in Nat /\ DOMAIN cs \subseteq DOMAIN more
    /\ \A i \in DOMAIN cs : more[i] = cs[i]
    /\ \A i \in DOMAIN more \ DOMAIN cs : more[i].depl = d /\ i \in Nat /\ i > Len(cs)
Alike(cs, m, m2) ==
    /\ m.left = m2.left \cap DOMAIN cs
    /\ m.free = m2.free /\ m.placed = m2.placed
Past(cs, d, m2) == \A i \in m2.left \cap DOMAIN cs : cs[i].depl > d

LEMMA MovesOn ==
    ASSUME NEW cs, NEW hs, NEW m, NEW p, Moves(cs, hs, m, p)
    PROVE  p.left \subseteq m.left /\ m.placed \subseteq p.placed
BY DEF Moves, PassesOver, Takes

\* What is placed later was left before.
LEMMA RunLater ==
    ASSUME NEW cs \in Seq(CapRows), NEW hs \in Seq(HostNames), NEW g, Run(cs, hs, g),
           ~g[Len(cs)].raised, NEW j \in Nat, j <= Len(cs)
    PROVE  \A c \in g[Len(cs)].placed : c \in g[j].placed \/ c.cap \in g[j].left
<1>. PICK n : n = Len(cs)
  OBVIOUS
<1>0. n \in Nat
  <2>. HIDE DEF CapRows
  <2>. QED  OBVIOUS
<1>. DEFINE G == {t \in Nat : j + t <= n =>
                    /\ g[j + t].left \subseteq g[j].left
                    /\ \A c \in g[j + t].placed : c \in g[j].placed \/ c.cap \in g[j].left}
<1>1. 0 \in G
  <2>1. j + 0 = j
    OBVIOUS
  <2>. QED  BY <2>1
<1>2. ASSUME NEW t \in Nat, t \in G  PROVE t + 1 \in G
  <2>. SUFFICES ASSUME j + (t + 1) <= n
                PROVE  /\ g[j + (t + 1)].left \subseteq g[j].left
                       /\ \A c \in g[j + (t + 1)].placed : c \in g[j].placed \/ c.cap \in g[j].left
    OBVIOUS
  <2>1. PICK k \in Nat : k = j + t /\ k + 1 = j + (t + 1) /\ k < n /\ k <= n
    <3>1. j + t \in Nat /\ (j + t) + 1 = j + (t + 1) /\ j + t < n /\ j + t <= n
      BY <1>0
    <3>. QED  BY <3>1
  <2>2. PICK m, p : m = g[k] /\ p = g[k + 1]
    OBVIOUS
  <2>3. /\ m.left \subseteq g[j].left
        /\ \A c \in m.placed : c \in g[j].placed \/ c.cap \in g[j].left
    BY <1>2, <2>1, <2>2
  <2>4. Moves(cs, hs, m, p) /\ Sound(cs, hs, m)
    BY <2>1, <2>2, RunMoves, RunSound
  <2>5. p.left \subseteq m.left
    BY <2>4, MovesOn
  <2>6. \A c \in p.placed : c \in m.placed \/ c.cap \in m.left
    <3>1. CASE p.placed = m.placed
      BY <3>1
    <3>2. ASSUME NEW i, NEW row, Takes(cs, hs, m, p, i, row)
          PROVE  \A c \in p.placed : c \in m.placed \/ c.cap \in m.left
      <4>1. i \in m.left
        BY <2>4, <3>2, FirstCapIn DEF Sound, Placing, Takes, GoesOn
      <4>2. PICK c : /\ c = [cap |-> i, host |-> hs[row],
                             seqnum |-> seqnum(cs, m.placed, i, hs[row])]
                     /\ p.placed = m.placed \cup {c}
        BY <3>2 DEF Takes
      <4>3. c.cap = i
        BY <4>2
      <4>. QED  BY <4>1, <4>2, <4>3
    <3>. QED  BY <2>4, <3>1, <3>2 DEF Moves, PassesOver
  <2>. QED  BY <2>1, <2>2, <2>3, <2>5, <2>6
<1>3. n - j \in Nat /\ j + (n - j) = n
  BY <1>0
<1>4. n - j \in G
  <2>. HIDE DEF G
  <2>. QED  BY <1>1, <1>2, <1>3, Induction
<1>. QED  BY <1>0, <1>3, <1>4

LEMMA CapOrder ==
    ASSUME NEW cs \in Seq(CapRows), NEW i \in DOMAIN cs
    PROVE  cs[i].depl \in Nat /\ Pass(cs[i]) \in {0, 1} /\ i \in Nat
<1>1. cs[i] \in CapRows /\ i \in Nat
  <2>. HIDE DEF CapRows
  <2>. QED  OBVIOUS
<1>2. cs[i].depl \in 0..MaxDeployments
  BY <1>1 DEF CapRows, CapRow
<1>. QED  BY <1>1, <1>2, BoundAssumption DEF Pass

\* The first capability of both loops is the same, when it is one of the old.
LEMMA FirstOfBoth ==
    ASSUME NEW cs, NEW d, NEW more, Longer(cs, d, more),
           NEW hs, NEW m, NEW m2, Sound(cs, hs, m), Sound(more, hs, m2), Alike(cs, m, m2),
           m2.left # {}, FirstCap(more, m2.left) \in DOMAIN cs
    PROVE  m.left # {} /\ FirstCap(cs, m.left) = FirstCap(more, m2.left)
<1>. PICK i : i = FirstCap(more, m2.left)
  OBVIOUS
<1>1. i \in m2.left /\ \A x \in m2.left : Earlier(more, i, x)
  BY FirstCapIn DEF Longer, Sound, Placing
<1>2. i \in m.left
  BY <1>1 DEF Alike
<1>. PICK e : e = FirstCap(cs, m.left)
  OBVIOUS
<1>3. e \in m.left /\ Earlier(cs, e, i)
  BY <1>2, FirstCapIn DEF Longer, Sound, Placing
<1>4. e \in DOMAIN cs /\ e \in m2.left /\ i \in DOMAIN cs
  BY <1>2, <1>3 DEF Alike
<1>5. Earlier(cs, i, e)
  <2>1. more[i] = cs[i] /\ more[e] = cs[e]
    BY <1>4 DEF Longer
  <2>2. Earlier(more, i, e)
    BY <1>1, <1>4
  <2>. QED  BY <2>1, <2>2 DEF Earlier
<1>6. /\ cs[i].depl \in Nat /\ Pass(cs[i]) \in {0, 1} /\ i \in Nat
      /\ cs[e].depl \in Nat /\ Pass(cs[e]) \in {0, 1} /\ e \in Nat
  BY <1>4, CapOrder DEF Longer
<1>7. e = i
  BY <1>3, <1>5, <1>6 DEF Earlier
<1>. QED  BY <1>2, <1>7

\* A new one is taken after all of the old up to its deployment.
LEMMA NewIsLast ==
    ASSUME NEW cs, NEW d, NEW more, Longer(cs, d, more),
           NEW hs, NEW m2, Sound(more, hs, m2), m2.left # {},
           NEW i, i = FirstCap(more, m2.left), i \notin DOMAIN cs, more[i].affinity = Nothing
    PROVE  Past(cs, d, m2)
<1>1. i \in m2.left /\ \A x \in m2.left : Earlier(more, i, x)
  BY FirstCapIn DEF Longer, Sound, Placing
<1>2. more[i].depl = d /\ i > Len(cs) /\ Pass(more[i]) = 1 /\ i \in Nat
  BY <1>1 DEF Longer, Sound, Placing, Pass
<1>. SUFFICES ASSUME NEW x \in m2.left \cap DOMAIN cs  PROVE cs[x].depl > d
  BY DEF Past
<1>3. cs[x].depl \in Nat /\ Pass(cs[x]) \in {0, 1} /\ x \in Nat /\ x <= Len(cs)
  BY CapOrder DEF Longer
<1>4. more[x] = cs[x]
  BY DEF Longer
<1>5. Earlier(more, i, x)
  BY <1>1
<1>6. d \in Nat /\ Len(cs) \in Nat
  BY DEF Longer
<1>. QED  BY <1>2, <1>3, <1>4, <1>5, <1>6 DEF Earlier

LEMMA SameNumber ==
    ASSUME NEW cs, NEW d, NEW more, Longer(cs, d, more),
           NEW hs, NEW m, Sound(cs, hs, m), NEW i \in DOMAIN cs, NEW h
    PROVE  seqnum(cs, m.placed, i, h) = seqnum(more, m.placed, i, h)
<1>1. \A c \in m.placed : more[c.cap] = cs[c.cap]
  BY DEF Sound, Longer
<1>2. more[i] = cs[i]
  BY DEF Longer
<1>3. {c \in m.placed : c.host = h /\ cs[c.cap].depl = cs[i].depl}
         = {c \in m.placed : c.host = h /\ more[c.cap].depl = more[i].depl}
  BY <1>1, <1>2
<1>. QED  BY <1>3 DEF seqnum

\* An old one is treated alike.
LEMMA OldAlike ==
    ASSUME NEW cs, NEW d, NEW more, Longer(cs, d, more),
           NEW hs, NEW m, NEW m2, Sound(cs, hs, m), Sound(more, hs, m2), Alike(cs, m, m2),
           m2.left # {}, FirstCap(more, m2.left) \in DOMAIN cs,
           NEW p, Moves(cs, hs, m, p), NEW p2, Moves(more, hs, m2, p2)
    PROVE  Alike(cs, p, p2)
<1>. PICK i, S, n : /\ i = FirstCap(more, m2.left) /\ S = Room(hs, m2.free, more[i])
                    /\ n = FirstRow(hs, S)
  OBVIOUS
<1>1. m.left # {} /\ FirstCap(cs, m.left) = i /\ i \in DOMAIN cs
  BY FirstOfBoth
<1>2. more[i] = cs[i] /\ m.free = m2.free /\ m.placed = m2.placed
  BY <1>1 DEF Longer, Alike
<1>3. Rooms(cs, hs, m) = S /\ Rooms(more, hs, m2) = S
  BY <1>1, <1>2 DEF Rooms
<1>4. m.left = m2.left \cap DOMAIN cs
  BY DEF Alike
<1>5. CASE S = {}
  <2>1. PassesOver(cs, hs, m, p) /\ PassesOver(more, hs, m2, p2)
    BY <1>1, <1>3, <1>5 DEF Moves, Takes
  <2>2. p.left = m.left \ {i} /\ p2.left = m2.left \ {i}
    BY <1>1, <2>1 DEF PassesOver
  <2>3. p.free = m.free /\ p2.free = m2.free /\ p.placed = m.placed /\ p2.placed = m2.placed
    BY <2>1 DEF PassesOver
  <2>. QED  BY <1>2, <1>4, <2>2, <2>3 DEF Alike
<1>6. CASE S # {}
  <2>1. Takes(cs, hs, m, p, i, n)
    BY <1>1, <1>3, <1>6 DEF Moves, PassesOver, Takes
  <2>2. Takes(more, hs, m2, p2, i, n)
    BY <1>1, <1>3, <1>6 DEF Moves, PassesOver, Takes
  <2>3. p.left = m.left \ {i} /\ p2.left = m2.left \ {i}
    BY <2>1, <2>2 DEF Takes
  <2>4. p.free = p2.free
    BY <1>2, <2>1, <2>2 DEF Takes
  <2>5. seqnum(cs, m.placed, i, hs[n]) = seqnum(more, m.placed, i, hs[n])
    BY <1>1, SameNumber
  <2>6. p.placed = p2.placed
    BY <1>2, <2>1, <2>2, <2>5 DEF Takes
  <2>. QED  BY <1>4, <2>3, <2>4, <2>6 DEF Alike
<1>. QED  BY <1>5, <1>6

\* A new one is passed over, or taken when all that is older is past.
LEMMA NewAlike ==
    ASSUME NEW cs, NEW d, NEW more, Longer(cs, d, more),
           NEW hs, NEW m, NEW m2, Sound(more, hs, m2), Alike(cs, m, m2),
           m2.left # {} => FirstCap(more, m2.left) \notin DOMAIN cs,
           NEW p2, Moves(more, hs, m2, p2)
    PROVE  Alike(cs, m, p2) \/ Past(cs, d, m2)
<1>1. CASE m2.left = {}
  BY <1>1 DEF Moves, PassesOver, Takes, GoesOn
<1>2. CASE m2.left # {} /\ PassesOver(more, hs, m2, p2)
  BY <1>2 DEF PassesOver, Alike
<1>3. ASSUME NEW i, NEW n, Takes(more, hs, m2, p2, i, n), m2.left # {}  PROVE Past(cs, d, m2)
  <2>1. i = FirstCap(more, m2.left) /\ more[i].affinity = Nothing
    BY <1>3 DEF Takes
  <2>2. i \notin DOMAIN cs
    BY <1>3, <2>1
  <2>. QED  BY <1>3, <2>1, <2>2, NewIsLast
<1>. QED  BY <1>1, <1>2, <1>3 DEF Moves

LEMMA CapsAddedKeep ==
    ASSUME NEW cs, NEW d, NEW more, Longer(cs, d, more), NEW hs \in Seq(HostNames),
           ~containersOf(cs, hs).raised, ~containersOf(more, hs).raised,
           NEW c \in containersOf(cs, hs).placed, cs[c.cap].depl <= d
    PROVE  c \in containersOf(more, hs).placed
<1>0. cs \in Seq(CapRows) /\ more \in Seq(CapRows)
  BY DEF Longer
<1>. PICK n, l : n = Len(cs) /\ l = Len(more)
  OBVIOUS
<1>1. n \in Nat /\ l \in Nat
  <2>. HIDE DEF CapRows
  <2>. QED  BY <1>0
<1>2. PICK g : Run(cs, hs, g) /\ containersOf(cs, hs) = g[n]
  BY <1>1, ContainersLoop DEF Run
<1>3. PICK f : Run(more, hs, f) /\ containersOf(more, hs) = f[l]
  BY <1>1, ContainersLoop DEF Run
<1>4. ASSUME NEW j \in Nat, j <= n
      PROVE  /\ Sound(cs, hs, g[j])
             /\ j < n => Moves(cs, hs, g[j], g[j + 1])
             /\ c \in g[j].placed \/ c.cap \in g[j].left
  <2>1. Sound(cs, hs, g[j])
    BY <1>0, <1>2, <1>4, RunSound
  <2>2. ASSUME j < n  PROVE Moves(cs, hs, g[j], g[j + 1])
    BY <1>0, <1>2, <2>2, RunMoves
  <2>3. c \in g[j].placed \/ c.cap \in g[j].left
    BY <1>0, <1>2, <1>4, RunLater
  <2>. QED  BY <2>1, <2>2, <2>3
<1>5. ASSUME NEW k \in Nat, k < l
      PROVE  Sound(more, hs, f[k]) /\ Moves(more, hs, f[k], f[k + 1])
  <2>1. k <= l
    BY <1>1, <1>5
  <2>. QED  BY <1>0, <1>3, <1>5, <2>1, RunSound, RunMoves
<1>6. g[n].left = {} /\ f[l].left = {}
  BY <1>0, <1>2, <1>3, RunMoves
<1>7. c.cap \in DOMAIN cs
  BY <1>1, <1>2, <1>4 DEF Sound
<1>. DEFINE G == {k \in Nat : k <= l =>
                    \/ c \in f[k].placed
                    \/ \E j \in Nat : j <= n /\ Alike(cs, g[j], f[k])}
<1>8. 0 \in G
  <2>1. PICK m, m2 : m = Unplaced(cs, hs) /\ m2 = Unplaced(more, hs)
    OBVIOUS
  <2>2. /\ m.left = {i \in DOMAIN cs : cs[i].depl # Nothing}
        /\ m2.left = {i \in DOMAIN more : more[i].depl # Nothing}
        /\ m.free = m2.free /\ m.placed = m2.placed
    BY <2>1 DEF Unplaced
  <2>3. m.left = m2.left \cap DOMAIN cs
    BY <2>2 DEF Longer
  <2>4. Alike(cs, m, m2)
    BY <2>2, <2>3 DEF Alike
  <2>. QED  BY <1>1, <1>2, <1>3, <2>1, <2>4 DEF Run
<1>9. ASSUME NEW k \in Nat, k \in G  PROVE k + 1 \in G
  <2>. SUFFICES ASSUME k + 1 <= l
                PROVE  \/ c \in f[k + 1].placed
                       \/ \E j \in Nat : j <= n /\ Alike(cs, g[j], f[k + 1])
    OBVIOUS
  <2>. PICK m2, p2 : m2 = f[k] /\ p2 = f[k + 1]
    OBVIOUS
  <2>1. k < l /\ k <= l
    BY <1>1
  <2>2. Sound(more, hs, m2) /\ Moves(more, hs, m2, p2)
    BY <1>5, <2>1
  <2>3. CASE c \in m2.placed
    BY <2>2, <2>3, MovesOn
  <2>4. ASSUME NEW j \in Nat, j <= n, Alike(cs, g[j], m2)
        PROVE  c \in p2.placed \/ \E i \in Nat : i <= n /\ Alike(cs, g[i], p2)
    <3>. PICK m : m = g[j]
      OBVIOUS
    <3>1. Sound(cs, hs, m) /\ (c \in m.placed \/ c.cap \in m.left)
      BY <1>4, <2>4
    <3>2. CASE m2.left # {} /\ FirstCap(more, m2.left) \in DOMAIN cs
      <4>1. m.left # {}
        BY <2>2, <2>4, <3>1, <3>2, FirstOfBoth
      <4>2. j < n /\ j + 1 \in Nat /\ j + 1 <= n
        <5>1. j # n
          BY <1>6, <4>1
        <5>. QED  BY <1>1, <2>4, <5>1
      <4>3. Moves(cs, hs, m, g[j + 1])
        BY <1>4, <2>4, <4>2
      <4>4. Alike(cs, g[j + 1], p2)
        BY <2>2, <2>4, <3>1, <3>2, <4>3, OldAlike
      <4>. QED  BY <4>2, <4>4
    <3>3. CASE m2.left # {} => FirstCap(more, m2.left) \notin DOMAIN cs
      <4>1. Alike(cs, m, p2) \/ Past(cs, d, m2)
        BY <2>2, <2>4, <3>3, NewAlike
      <4>2. CASE Past(cs, d, m2)
        <5>1. c.cap \notin m.left
          <6>1. cs[c.cap].depl \in Nat /\ d \in Nat /\ ~(cs[c.cap].depl > d)
            BY <1>0, <1>7, CapOrder DEF Longer
          <6>2. c.cap \notin m2.left
            BY <1>7, <4>2, <6>1 DEF Past
          <6>. QED  BY <2>4, <6>2 DEF Alike
        <5>2. c \in m2.placed
          BY <2>4, <3>1, <5>1 DEF Alike
        <5>. QED  BY <2>2, <5>2, MovesOn
      <4>. QED  BY <2>4, <4>1, <4>2
    <3>. QED  BY <3>2, <3>3
  <2>. QED  BY <1>9, <2>1, <2>3, <2>4
<1>10. l \in G
  <2>. HIDE DEF G
  <2>. QED  BY <1>1, <1>8, <1>9, Induction
<1>11. ASSUME NEW j \in Nat, j <= n, Alike(cs, g[j], f[l])  PROVE c \in f[l].placed
  <2>1. g[j].left = {} /\ g[j].placed = f[l].placed
    BY <1>6, <1>11 DEF Alike
  <2>. QED  BY <1>4, <1>11, <2>1
<1>12. c \in f[l].placed
  BY <1>1, <1>10, <1>11
<1>. QED  BY <1>3, <1>12

LEMMA AppendIsOneMore ==
    ASSUME TypeOK, NEW h \in HostNames \ HostTable
    PROVE  OneMore(hosts, h, Append(hosts, h))
<1>1. hosts \in Seq(HostNames)
  BY DEF TypeOK
<1>2. \A n \in DOMAIN hosts : hosts[n] # h
  BY DEF HostTable
<1>. PICK more : more = Append(hosts, h)
  OBVIOUS
<1>3. /\ more \in Seq(HostNames) /\ DOMAIN more = 1..(Len(hosts) + 1)
      /\ \A n \in DOMAIN hosts : more[n] = hosts[n]
      /\ more[Len(hosts) + 1] = h
  BY <1>1
<1>. QED  BY <1>1, <1>2, <1>3 DEF OneMore

LEMMA NewCapsAreLonger ==
    ASSUME TypeOK, NEW d \in 1..deployments, NEW r \in Requests
    PROVE  Longer(caps, d, caps \o NewCaps(d, r))
<1>0. Tables /\ caps \in Seq(CapRows)
  BY Shape DEF TypeOK, CapRows
<1>1. d \in 0..MaxDeployments /\ d \in Nat \ {Nothing}
  BY BoundAssumption DEF TypeOK, Nothing
<1>. PICK L, m, new, more : /\ L = Len(caps) /\ m = r.stripes /\ new = NewCaps(d, r)
                            /\ more = caps \o new
  OBVIOUS
<1>2. m \in Nat /\ new \in Seq(CapRows) /\ Len(new) = m /\ \A k \in 1..m : new[k].depl = d
  <2>1. /\ r.stripes \in Nat /\ NewCaps(d, r) \in Seq(CapRow(Services, StripeGroups))
        /\ Len(NewCaps(d, r)) = r.stripes
        /\ \A k \in 1..r.stripes : NewCaps(d, r)[k].depl = d
    BY <1>1, NewCapsAre
  <2>. QED  BY <2>1 DEF CapRows
<1>3. L \in Nat /\ DOMAIN caps = 1..L
  BY <1>0 DEF Tables
<1>4. /\ more \in Seq(CapRows) /\ DOMAIN more = 1..(L + m)
      /\ \A i \in 1..L : more[i] = caps[i]
      /\ \A k \in 1..m : more[L + k] = new[k]
  <2>. HIDE DEF CapRows
  <2>. QED  BY <1>0, <1>2, <1>3
<1>5. ASSUME NEW i \in DOMAIN more \ DOMAIN caps
      PROVE  more[i].depl = d /\ i \in Nat /\ i > L
  <2>1. i \in Nat /\ i > L /\ i <= L + m
    BY <1>2, <1>3, <1>4
  <2>2. PICK k \in 1..m : i = L + k
    <3>1. i - L \in 1..m /\ i = L + (i - L)
      BY <1>2, <1>3, <2>1
    <3>. QED  BY <3>1
  <2>. QED  BY <1>2, <1>4, <2>1, <2>2
<1>6. DOMAIN caps \subseteq DOMAIN more
  BY <1>2, <1>3, <1>4
<1>. QED  BY <1>0, <1>1, <1>3, <1>4, <1>5, <1>6 DEF Longer

\* Where containers run is computed anew at every deployment
\* (OAG_Domain.containers). A host that is added to a site moves no container of
\* that site or of an earlier one, and a capability that is added to a deployment
\* none of that deployment or of an earlier one (if containers returns): each
\* keeps its host and its number, and with it its address. Of the containers of
\* later sites and deployments nothing is said; they may move.
THEOREM ContainersStay == PlacementSpec => []KeptInPlace
<1>1. ASSUME PlacementInv  PROVE KeptInPlace
  <2>1. TypeOK /\ caps \in Seq(CapRows) /\ hosts \in Seq(HostNames)
    BY <1>1 DEF PlacementInv, NetworkInv, TypeOK, CapRows
  <2>. SUFFICES ASSUME ~containers.raised
                PROVE  /\ \A h \in HostNames \ HostTable, c \in containers.placed :
                             /\ SiteOf[h] >= SiteOf[c.host]
                             /\ ~containersOf(caps, Append(hosts, h)).raised
                             => c \in containersOf(caps, Append(hosts, h)).placed
                       /\ \A d \in 1..deployments, r \in Requests, c \in containers.placed :
                             /\ caps[c.cap].depl <= d
                             /\ ~containersOf(caps \o NewCaps(d, r), hosts).raised
                             => c \in containersOf(caps \o NewCaps(d, r), hosts).placed
    BY DEF KeptInPlace
  <2>2. containers = containersOf(caps, hosts)
    BY DEF containers
  <2>3. ASSUME NEW h \in HostNames \ HostTable, NEW c \in containers.placed,
               SiteOf[h] >= SiteOf[c.host],
               ~containersOf(caps, Append(hosts, h)).raised
        PROVE  c \in containersOf(caps, Append(hosts, h)).placed
    <3>. PICK more : more = Append(hosts, h)
      OBVIOUS
    <3>1. OneMore(hosts, h, more)
      BY <2>1, AppendIsOneMore
    <3>. QED  BY <2>1, <2>2, <2>3, <3>1, HostAddedKeeps
  <2>4. ASSUME NEW d \in 1..deployments, NEW r \in Requests, NEW c \in containers.placed,
               caps[c.cap].depl <= d,
               ~containersOf(caps \o NewCaps(d, r), hosts).raised
        PROVE  c \in containersOf(caps \o NewCaps(d, r), hosts).placed
    <3>. PICK more : more = caps \o NewCaps(d, r)
      OBVIOUS
    <3>1. Longer(caps, d, more)
      BY <2>1, NewCapsAreLonger
    <3>. QED  BY <2>1, <2>2, <2>4, <3>1, CapsAddedKeep
  <2>. QED  BY <2>3, <2>4
<1>. QED  BY <1>1, PlacementInit, PlacementInductive, PTL DEF PlacementSpec
=============================================================================
