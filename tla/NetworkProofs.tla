---------------------------- MODULE NetworkProofs ----------------------------
(* Proofs about the layout of a domain.                                      *)
EXTENDS Network, FiniteSetTheorems, TLAPS

-----------------------------------------------------------------------------
\* Positions in a finite set of numbers.

\* The elements below x are as many as there are at most.
LEMMA BeforeType ==
    ASSUME NEW S, S \subseteq Nat, IsFiniteSet(S), NEW x
    PROVE  /\ Cardinality(S) \in Nat
           /\ Before(S, x) \in Nat
           /\ Before(S, x) <= Cardinality(S)
<1>1. {y \in S : y < x} \in SUBSET S
  OBVIOUS
<1>2. /\ IsFiniteSet({y \in S : y < x})
      /\ Cardinality({y \in S : y < x}) <= Cardinality(S)
  BY <1>1, FS_Subset
<1>. QED  BY <1>2, FS_CardinalityType DEF Before

\* An element is below the end.
LEMMA BeforeLess ==
    ASSUME NEW S, S \subseteq Nat, IsFiniteSet(S), NEW x \in S
    PROVE  Before(S, x) < Cardinality(S)
<1>1. {y \in S : y < x} \in SUBSET (S \ {x})
  OBVIOUS
<1>2. IsFiniteSet(S \ {x}) /\ Cardinality(S \ {x}) = Cardinality(S) - 1
  BY FS_RemoveElement
<1>3. Before(S, x) <= Cardinality(S) - 1
  BY <1>1, <1>2, FS_Subset DEF Before
<1>4. Before(S, x) \in Nat /\ Cardinality(S) \in Nat
  BY BeforeType
<1>. QED  BY <1>3, <1>4

\* Positions follow the order.
LEMMA BeforeStrict ==
    ASSUME NEW S, S \subseteq Nat, IsFiniteSet(S), NEW x \in S, NEW y \in S, x < y
    PROVE  Before(S, x) < Before(S, y)
<1>. DEFINE T == {z \in S : z < y}
<1>1. T \in SUBSET S
  OBVIOUS
<1>2. IsFiniteSet(T) /\ T \subseteq Nat /\ x \in T
  BY <1>1, FS_Subset
<1>3. {z \in T : z < x} = {z \in S : z < x}
  <2>1. \A z \in S : z \in Nat /\ (z < x => z < y)
    OBVIOUS
  <2>. QED  BY <2>1
<1>4. Before(T, x) < Cardinality(T)
  <2>. HIDE DEF T
  <2>. QED  BY <1>2, BeforeLess
<1>. QED  BY <1>3, <1>4 DEF Before

LEMMA BeforeInjective ==
    ASSUME NEW S, S \subseteq Nat, IsFiniteSet(S), NEW x \in S, NEW y \in S,
           Before(S, x) = Before(S, y)
    PROVE  x = y
<1>1. Before(S, x) \in Nat /\ Before(S, y) \in Nat
  BY BeforeType
<1>2. ~(x < y)
  <2>1. x < y => Before(S, x) < Before(S, y)
    BY BeforeStrict
  <2>. QED  BY <1>1, <2>1
<1>3. ~(y < x)
  <2>1. y < x => Before(S, y) < Before(S, x)
    BY BeforeStrict
  <2>. QED  BY <1>1, <2>1
<1>4. x \in Nat /\ y \in Nat
  OBVIOUS
<1>. QED  BY <1>2, <1>3, <1>4

\* Every position below the end is that of an element.
LEMMA NthIn ==
    ASSUME NEW S, S \subseteq Nat, IsFiniteSet(S), NEW n \in Nat, n < Cardinality(S)
    PROVE  Nth(S, n) \in S /\ Before(S, Nth(S, n)) = n
<1>. DEFINE f == [x \in S |-> Before(S, x)]
            T == 0..(Cardinality(S) - 1)
<1>1. Cardinality(S) \in Nat
  BY FS_CardinalityType
<1>2. IsFiniteSet(T) /\ Cardinality(T) = Cardinality(S)
  <2>1. Cardinality(S) - 1 \in Int /\ 0 \in Int
    BY <1>1
  <2>2. /\ IsFiniteSet(T)
        /\ Cardinality(T) = IF 0 > Cardinality(S) - 1 THEN 0
                            ELSE (Cardinality(S) - 1) - 0 + 1
    BY <2>1, FS_Interval
  <2>. QED  BY <1>1, <2>2
<1>3. f \in [S -> T]
  <2>1. ASSUME NEW x \in S  PROVE Before(S, x) \in T
    <3>1. Before(S, x) \in Nat /\ Before(S, x) < Cardinality(S)
      BY BeforeLess, BeforeType
    <3>. QED  BY <1>1, <3>1
  <2>. QED  BY <2>1
<1>4. \A x, y \in S : f[x] = f[y] => x = y
  BY BeforeInjective
<1>5. f \in Injection(S, T)
  BY <1>3, <1>4 DEF Injection, IsInjective
<1>6. f \in Surjection(S, T)
  <2>. HIDE DEF f, T
  <2>. QED  BY <1>2, <1>5, FS_Injection
<1>7. \E x \in S : f[x] = n
  <2>1. n \in T
    BY <1>1
  <2>2. \A t \in T : \E x \in S : f[x] = t
    <3>. HIDE DEF f, T
    <3>. QED  BY <1>6 DEF Surjection
  <2>. QED  BY <2>1, <2>2
<1>8. \E x \in S : Before(S, x) = n
  BY <1>7
<1>. QED  BY <1>8 DEF Nth

LEMMA NthBefore ==
    ASSUME NEW S, S \subseteq Nat, IsFiniteSet(S), NEW x \in S
    PROVE  Nth(S, Before(S, x)) = x
<1>1. Before(S, x) \in Nat /\ Before(S, x) < Cardinality(S)
  BY BeforeLess, BeforeType
<1>2. Nth(S, Before(S, x)) \in S /\ Before(S, Nth(S, Before(S, x))) = Before(S, x)
  BY <1>1, NthIn
<1>. QED  BY <1>2, BeforeInjective

\* What is added at the end changes no position.
LEMMA BeforeGrows ==
    ASSUME NEW S, NEW T, S \subseteq T, T \subseteq Nat, IsFiniteSet(T),
           \A x \in S : \A y \in T \ S : x < y
    PROVE  /\ IsFiniteSet(S) /\ S \subseteq Nat
           /\ Cardinality(S) <= Cardinality(T)
           /\ \A x \in S : Before(T, x) = Before(S, x)
           /\ \A n \in Nat : n < Cardinality(S) => Nth(T, n) = Nth(S, n)
<1>1. IsFiniteSet(S) /\ Cardinality(S) <= Cardinality(T) /\ S \subseteq Nat
  BY FS_Subset
<1>2. ASSUME NEW x \in S  PROVE Before(T, x) = Before(S, x)
  <2>1. {y \in T : y < x} = {y \in S : y < x}
    <3>1. \A y \in T \ S : ~(y < x)
      BY <1>1
    <3>. QED  BY <3>1
  <2>. QED  BY <2>1 DEF Before
<1>3. ASSUME NEW n \in Nat, n < Cardinality(S)  PROVE Nth(T, n) = Nth(S, n)
  <2>1. Nth(S, n) \in S /\ Before(S, Nth(S, n)) = n
    BY <1>1, <1>3, NthIn
  <2>2. Before(T, Nth(S, n)) = n /\ Nth(S, n) \in T
    BY <1>2, <2>1
  <2>3. Nth(T, Before(T, Nth(S, n))) = Nth(S, n)
    BY <2>2, NthBefore
  <2>. QED  BY <2>2, <2>3
<1>. QED  BY <1>1, <1>2, <1>3

\* The next element is where the others ended.
LEMMA BeforeEnd ==
    ASSUME NEW S, NEW x, \A y \in S : y < x, ~(x < x)
    PROVE  Before(S \cup {x}, x) = Cardinality(S)
<1>1. {y \in S \cup {x} : y < x} = S
  OBVIOUS
<1>. QED  BY <1>1 DEF Before

-----------------------------------------------------------------------------
\* The calls that are left: what is a VLAN is of a deployment, and the second
\* interface of a new host comes right after its first.
CallKinds ==
    /\ \A i \in DOMAIN calls : calls[i].name = "vlan" <=> calls[i].depl # Nothing
    /\ \A i \in 2..Len(calls) :
          calls[i].name = "vtnet1" => calls[i - 1].host = calls[i].host

\* Past its first step, a call is about the newest interface.
InCall ==
    /\ calls = << >> => step = "row"
    /\ step # "row" =>
          /\ Len(ifaces) > 0
          /\ ifaces[Iface].host = Call.host
          /\ ifaces[Iface].name = Call.name
          /\ ifaces[Iface].depl = Call.depl

IfaceKinds ==
    /\ \A f \in IfaceIds : ifaces[f].name = "vlan" <=> ~Physical(f)
    /\ \A n \in DOMAIN subnets : subnets[n] # Nothing => ~External(subnets[n])

\* An internal interface of a bastion, with a subnet to route.
IsRouter(r, s) ==
    /\ r \in IfaceIds /\ ~External(r)
    /\ is_bastion(ifaces[r].host) /\ SiteOf[ifaces[r].host] = s
    /\ \E n \in DOMAIN subnets : subnets[n] = r

\* Interfaces of compute hosts are routed by the bastion of their site, and
\* those of bastions by nobody.
RoutedBy(f) ==
    /\ is_bastion(ifaces[f].host) => ifaces[f].routed_by = Nothing
    /\ ifaces[f].routed_by # Nothing =>
          IsRouter(ifaces[f].routed_by, SiteOf[ifaces[f].host])
RoutedByBastion == \A f \in IfaceIds : RoutedBy(f)

\* A physical one of them goes on being routed by the subnet of its position.
InternalPhysical(f) == ~External(f) /\ Physical(f) /\ ~is_bastion(ifaces[f].host)
InPosition(f) ==
    InternalPhysical(f) =>
        /\ HasRouter(SiteOf[ifaces[f].host], Index(f))
        /\ ifaces[f].routed_by = Router(SiteOf[ifaces[f].host], Index(f))
RoutedInOrder == \A f \in IfaceIds : InPosition(f)

\* The dhcpd of a bastion listens for the hosts as they came, and is up to date
\* when the second interface of a host is about to be created.
Listening ==
    /\ \A f \in IfaceIds :
          LET r == ifaces[f].routed_by
          IN  InternalPhysical(f) /\ ifaces[f].name = "vtnet1" /\ Physical(r) =>
                  ifaces[r].name \in dhcpd[ifaces[r].host]
    /\ calls # << >> /\ step = "row" /\ Call.name = "vtnet1" =>
          \A b \in BastionIn(SiteOf[Call.host]) : Served(b) \subseteq dhcpd[b]

\* The n-th DHCP client of a host is the one of its n-th physical interface.
ClientsInOrder ==
    \A h \in HostNames :
        /\ Cardinality(Dhclients(h)) <= Cardinality(PhysicalOf(h))
        /\ \A i \in Dhclients(h) :
              caps[i].iface = Nth(PhysicalOf(h), Before(Dhclients(h), i))

NetworkInv ==
    /\ TypeOK
    /\ CallKinds /\ InCall
    /\ IfaceKinds /\ RoutedByBastion /\ RoutedInOrder
    /\ Listening /\ ClientsInOrder
-----------------------------------------------------------------------------
\* What the types say of the tables.
Tables ==
    /\ Len(ifaces) \in Nat /\ IfaceIds = 1..Len(ifaces)
    /\ \A f \in IfaceIds :
          /\ ifaces[f] \in IfaceRow
          /\ ifaces[f].routed_by \in 0..Len(ifaces)
          /\ ifaces[f].host \in HostTable
    /\ Len(subnets) \in Nat /\ DOMAIN subnets = 1..Len(subnets)
    /\ \A n \in DOMAIN subnets : subnets[n] = Nothing \/ subnets[n] \in IfaceIds
    /\ Len(caps) \in Nat /\ DOMAIN caps = 1..Len(caps)
    /\ Len(hosts) \in Nat /\ DOMAIN hosts = 1..Len(hosts)
    /\ HostTable \subseteq HostNames

LEMMA Shape == TypeOK => Tables
<1>. SUFFICES ASSUME TypeOK  PROVE Tables
  OBVIOUS
<1>. USE DEF TypeOK, IfaceIds
<1>1. Len(ifaces) \in Nat /\ IfaceIds = 1..Len(ifaces)
  OBVIOUS
<1>2. \A f \in IfaceIds : ifaces[f] \in IfaceRow /\ ifaces[f].host \in HostTable
  OBVIOUS
<1>3. \A f \in IfaceIds : ifaces[f].routed_by \in 0..Len(ifaces)
  <2>1. \A f \in IfaceIds : ifaces[f].routed_by \in Nat
    BY <1>2 DEF IfaceRow
  <2>2. \A f \in IfaceIds : ifaces[f].routed_by <= Len(ifaces)
    OBVIOUS
  <2>. QED  BY <1>1, <2>1, <2>2
<1>4. Len(subnets) \in Nat /\ DOMAIN subnets = 1..Len(subnets)
  OBVIOUS
<1>5. \A n \in DOMAIN subnets : subnets[n] \in 0..Len(ifaces)
  OBVIOUS
<1>6. \A n \in DOMAIN subnets : subnets[n] = Nothing \/ subnets[n] \in IfaceIds
  BY <1>1, <1>5 DEF Nothing
<1>7. Len(caps) \in Nat /\ DOMAIN caps = 1..Len(caps)
  OBVIOUS
<1>8. /\ Len(hosts) \in Nat /\ DOMAIN hosts = 1..Len(hosts)
      /\ HostTable \subseteq HostNames
  BY DEF HostTable
<1>. QED  BY <1>1, <1>2, <1>3, <1>4, <1>6, <1>7, <1>8 DEF Tables

LEMMA FiniteIds ==
    ASSUME NEW n \in Nat, NEW S, S \subseteq 1..n
    PROVE  S \subseteq Nat /\ IsFiniteSet(S)
<1>1. IsFiniteSet(1..n) /\ 1..n \subseteq Nat
  BY FS_Interval
<1>. QED  BY <1>1, FS_Subset

-----------------------------------------------------------------------------
\* No step removes a row, moves one, or changes what is not routing.
RowsGrow ==
    /\ Len(ifaces) <= Len(ifaces')
    /\ \A f \in IfaceIds :
          /\ ifaces'[f].host = ifaces[f].host
          /\ ifaces'[f].name = ifaces[f].name
          /\ ifaces'[f].depl = ifaces[f].depl
    /\ HostTable \subseteq HostTable'
    /\ Len(subnets) <= Len(subnets')
    /\ \A n \in DOMAIN subnets : subnets'[n] = subnets[n]

\* So the interfaces and the subnets of a host are added to at their end.
AtEnd(S, T) == S \subseteq T /\ \A x \in S : \A y \in T \ S : x < y

LEMMA SetsGrow ==
    ASSUME TypeOK, TypeOK', RowsGrow, NEW h
    PROVE  /\ AtEnd(IfacesOf(h), IfacesOf(h)')
           /\ AtEnd(InternalOf(h), InternalOf(h)')
           /\ AtEnd(PhysicalOf(h), PhysicalOf(h)')
           /\ AtEnd(routed_subnets(h), routed_subnets(h)')
<1>1. /\ Len(ifaces) \in Nat /\ IfaceIds = 1..Len(ifaces)
      /\ Len(subnets) \in Nat /\ DOMAIN subnets = 1..Len(subnets)
      /\ \A n \in DOMAIN subnets : subnets[n] = Nothing \/ subnets[n] \in IfaceIds
  BY Shape DEF Tables
<1>2. /\ Len(ifaces') \in Nat /\ IfaceIds' = 1..Len(ifaces')
      /\ Len(subnets') \in Nat /\ DOMAIN subnets' = 1..Len(subnets')
  <2>1. Tables'
    BY Shape, PTL
  <2>. QED  BY <2>1 DEF Tables
<1>3. IfaceIds \subseteq IfaceIds' /\ DOMAIN subnets \subseteq DOMAIN subnets'
  BY <1>1, <1>2 DEF RowsGrow
<1>4. \A x \in IfaceIds : \A y \in IfaceIds' \ IfaceIds : x < y
  BY <1>1, <1>2
<1>5. \A x \in DOMAIN subnets : \A y \in DOMAIN subnets' \ DOMAIN subnets : x < y
  BY <1>1, <1>2
<1>6. AtEnd(IfacesOf(h), IfacesOf(h)')
  BY <1>3, <1>4 DEF RowsGrow, IfacesOf, AtEnd
<1>7. AtEnd(InternalOf(h), InternalOf(h)')
  BY <1>3, <1>4 DEF RowsGrow, IfacesOf, InternalOf, External, AtEnd
<1>8. AtEnd(PhysicalOf(h), PhysicalOf(h)')
  BY <1>3, <1>4 DEF RowsGrow, IfacesOf, PhysicalOf, Physical, AtEnd
<1>9. AtEnd(routed_subnets(h), routed_subnets(h)')
  <2>1. \A n \in DOMAIN subnets : n \in routed_subnets(h)' <=> n \in routed_subnets(h)
    BY <1>1, <1>3 DEF RowsGrow, routed_subnets
  <2>2. routed_subnets(h) \subseteq DOMAIN subnets /\ routed_subnets(h)' \subseteq DOMAIN subnets'
    BY DEF routed_subnets
  <2>. QED  BY <1>3, <1>5, <2>1, <2>2 DEF AtEnd
<1>. QED  BY <1>6, <1>7, <1>8, <1>9

\* What that leaves as it was: positions and the elements at them.
LEMMA PositionsKept ==
    ASSUME NEW m \in Nat, NEW S, NEW T, T \subseteq 1..m, AtEnd(S, T)
    PROVE  /\ IsFiniteSet(S) /\ S \subseteq Nat /\ IsFiniteSet(T) /\ T \subseteq Nat
           /\ Cardinality(S) \in Nat /\ Cardinality(T) \in Nat
           /\ Cardinality(S) <= Cardinality(T)
           /\ \A x \in S : Before(T, x) = Before(S, x)
           /\ \A n \in Nat : n < Cardinality(S) => Nth(T, n) = Nth(S, n)
<1>1. IsFiniteSet(T) /\ T \subseteq Nat
  BY FiniteIds
<1>2. S \subseteq T /\ \A x \in S : \A y \in T \ S : x < y
  BY DEF AtEnd
<1>3. IsFiniteSet(S)
  BY <1>1, <1>2, FS_Subset
<1>. QED  BY <1>1, <1>2, <1>3, BeforeGrows, FS_CardinalityType

-----------------------------------------------------------------------------
\* Routers.

LEMMA OneBastion ==
    ASSUME NEW s, NEW b \in BastionIn(s)
    PROVE  BastionIn(s) = {b} /\ (CHOOSE c \in BastionIn(s) : TRUE) = b
BY BastionAssumption DEF BastionIn

\* The router of a position is an internal interface of the bastion.
LEMMA RouterIs ==
    ASSUME TypeOK, IfaceKinds, NEW s, NEW n \in Nat, HasRouter(s, n)
    PROVE  /\ Router(s, n) \in IfaceIds
           /\ IsRouter(Router(s, n), s)
<1>1. PICK b \in BastionIn(s) : n < Cardinality(routed_subnets(b))
  BY DEF HasRouter
<1>2. Tables
  BY Shape
<1>3. Router(s, n) = subnets[Nth(routed_subnets(b), n)]
  BY OneBastion DEF Router
<1>4. routed_subnets(b) \subseteq 1..Len(subnets) /\ Len(subnets) \in Nat
  BY <1>2 DEF routed_subnets, Tables
<1>5. Nth(routed_subnets(b), n) \in routed_subnets(b)
  BY <1>1, <1>4, FiniteIds, NthIn
<1>. DEFINE m == Nth(routed_subnets(b), n)
<1>6. m \in DOMAIN subnets /\ subnets[m] # Nothing /\ ifaces[subnets[m]].host = b
  BY <1>5 DEF routed_subnets
<1>7. subnets[m] \in IfaceIds /\ ~External(subnets[m])
  BY <1>2, <1>6 DEF Tables, IfaceKinds
<1>8. is_bastion(b) /\ SiteOf[b] = s
  BY DEF BastionIn, is_bastion
<1>. QED  BY <1>3, <1>6, <1>7, <1>8 DEF IsRouter

\* Nobody's router changes when rows are added.
LEMMA RoutersKept ==
    ASSUME TypeOK, TypeOK', RowsGrow, NEW s
    PROVE  /\ BastionIn(s) \subseteq BastionIn(s)'
           /\ \A n \in Nat : HasRouter(s, n) =>
                 HasRouter(s, n)' /\ Router(s, n)' = Router(s, n)
           /\ \A r : IsRouter(r, s) => IsRouter(r, s)'
<1>0. Tables /\ Tables'
  BY Shape, PTL
<1>1. BastionIn(s) \subseteq BastionIn(s)'
  BY DEF BastionIn, RowsGrow
<1>2. ASSUME NEW n \in Nat, HasRouter(s, n)
      PROVE  HasRouter(s, n)' /\ Router(s, n)' = Router(s, n)
  <2>1. PICK b \in BastionIn(s) : n < Cardinality(routed_subnets(b))
    BY <1>2 DEF HasRouter
  <2>2. Router(s, n) = subnets[Nth(routed_subnets(b), n)]
    BY OneBastion DEF Router
  <2>3. b \in BastionIn(s)' /\ BastionIn(s)' = {b}
    BY <1>1, BastionAssumption DEF BastionIn
  <2>4. Router(s, n)' = subnets'[Nth(routed_subnets(b)', n)]
    BY <2>3 DEF Router
  <2>5. AtEnd(routed_subnets(b), routed_subnets(b)')
    BY SetsGrow
  <2>6. /\ routed_subnets(b) \subseteq DOMAIN subnets
        /\ routed_subnets(b)' \subseteq 1..Len(subnets') /\ Len(subnets') \in Nat
    BY <1>0 DEF routed_subnets, Tables
  <2>7. /\ IsFiniteSet(routed_subnets(b)) /\ routed_subnets(b) \subseteq Nat
        /\ Cardinality(routed_subnets(b)) \in Nat
        /\ Cardinality(routed_subnets(b)') \in Nat
        /\ Cardinality(routed_subnets(b)) <= Cardinality(routed_subnets(b)')
        /\ Nth(routed_subnets(b)', n) = Nth(routed_subnets(b), n)
    BY <2>1, <2>5, <2>6, PositionsKept
  <2>8. Nth(routed_subnets(b), n) \in DOMAIN subnets
    BY <2>1, <2>6, <2>7, NthIn
  <2>9. n < Cardinality(routed_subnets(b)')
    BY <2>1, <2>7
  <2>10. HasRouter(s, n)'
    BY <2>3, <2>9 DEF HasRouter
  <2>. QED  BY <2>2, <2>4, <2>7, <2>8, <2>10 DEF RowsGrow
<1>3. ASSUME NEW r, IsRouter(r, s)  PROVE IsRouter(r, s)'
  BY <1>0, <1>3 DEF IsRouter, RowsGrow, Tables, External, is_bastion
<1>. QED  BY <1>1, <1>2, <1>3

\* Nor its position.
LEMMA IndexKept ==
    ASSUME TypeOK, TypeOK', RowsGrow, NEW f \in IfaceIds, ~External(f)
    PROVE  /\ f \in IfaceIds' /\ ~External(f)' /\ Index(f) \in Nat
           /\ Index(f)' = Index(f)
<1>. PICK h : h = ifaces[f].host
  OBVIOUS
<1>1. Tables /\ Tables'
  BY Shape, PTL
<1>2. f \in IfaceIds' /\ ifaces'[f].host = h /\ ~External(f)'
  BY <1>1 DEF Tables, RowsGrow, External
<1>3. f \in InternalOf(h)
  BY DEF InternalOf, IfacesOf
<1>4. AtEnd(InternalOf(h), InternalOf(h)')
  BY SetsGrow
<1>5. InternalOf(h)' \subseteq 1..Len(ifaces') /\ Len(ifaces') \in Nat
  BY <1>1 DEF InternalOf, IfacesOf, Tables
<1>6. /\ Before(InternalOf(h)', f) = Before(InternalOf(h), f)
      /\ IsFiniteSet(InternalOf(h)) /\ InternalOf(h) \subseteq Nat
  BY <1>3, <1>4, <1>5, PositionsKept
<1>7. Before(InternalOf(h), f) \in Nat
  BY <1>6, BeforeType
<1>8. Index(f) = Before(InternalOf(h), f) /\ Index(f)' = Before(InternalOf(h)', f)
  BY <1>2 DEF Index
<1>. QED  BY <1>2, <1>6, <1>7, <1>8

\* An interface whose routing is not touched stays as it is to be.
LEMMA RoutingKept ==
    ASSUME TypeOK, TypeOK', RowsGrow, NEW f \in IfaceIds, RoutedBy(f), InPosition(f),
           ifaces'[f].routed_by = ifaces[f].routed_by
    PROVE  RoutedBy(f)' /\ InPosition(f)'
<1>1. /\ ifaces'[f].host = ifaces[f].host
      /\ External(f)' <=> External(f)
      /\ InternalPhysical(f)' <=> InternalPhysical(f)
  BY DEF RowsGrow, External, InternalPhysical, Physical, is_bastion
<1>2. RoutedBy(f)'
  BY <1>1, RoutersKept DEF RoutedBy, is_bastion
<1>3. ASSUME InternalPhysical(f)  PROVE InPosition(f)'
  <2>1. Index(f) \in Nat /\ Index(f)' = Index(f)
    BY <1>3, IndexKept DEF InternalPhysical
  <2>2. /\ HasRouter(SiteOf[ifaces[f].host], Index(f))
        /\ ifaces[f].routed_by = Router(SiteOf[ifaces[f].host], Index(f))
    BY <1>3 DEF InPosition
  <2>3. PICK k, n : k = SiteOf[ifaces[f].host] /\ n = Index(f)
    OBVIOUS
  <2>4. HasRouter(k, n)' /\ Router(k, n)' = ifaces[f].routed_by
    BY <2>1, <2>2, <2>3, RoutersKept
  <2>5. SiteOf[ifaces[f].host]' = k /\ Index(f)' = n
    BY <1>1, <2>1, <2>3
  <2>. QED  BY <1>1, <2>4, <2>5 DEF InPosition
<1>4. ASSUME ~InternalPhysical(f)  PROVE InPosition(f)'
  BY <1>1, <1>4 DEF InPosition
<1>. QED  BY <1>2, <1>3, <1>4

-----------------------------------------------------------------------------
\* Types, one step after the other.

CallRow == [host : HostTable, name : IfaceNames, depl : 0..deployments]

LEMMA InitTypes == Init => NetworkInv
<1>. SUFFICES ASSUME Init  PROVE NetworkInv
  OBVIOUS
<1>. USE DEF Init
<1>1. IfaceIds = {} /\ DOMAIN calls = {} /\ DOMAIN caps = {} /\ HostTable = {}
  BY DEF IfaceIds, HostTable
<1>2. TypeOK
  BY <1>1, SitesAssumption, BoundAssumption DEF TypeOK, Nothing
<1>3. CallKinds /\ InCall
  BY <1>1 DEF CallKinds, InCall
<1>4. IfaceKinds /\ RoutedByBastion /\ RoutedInOrder
  BY <1>1 DEF IfaceKinds, RoutedByBastion, RoutedInOrder, Nothing
<1>5. Listening
  BY <1>1 DEF Listening
<1>6. ClientsInOrder
  <2>1. \A h : Dhclients(h) = {} /\ PhysicalOf(h) = {}
    BY <1>1 DEF Dhclients, PhysicalOf, IfacesOf
  <2>2. Cardinality({}) <= Cardinality({})
    <3>1. Cardinality({}) = 0
      BY FS_EmptySet
    <3>. QED  BY <3>1
  <2>. QED  BY <2>1, <2>2 DEF ClientsInOrder
<1>. QED  BY <1>2, <1>3, <1>4, <1>5, <1>6 DEF NetworkInv

\* A step that begins a call.
LEMMA BeginTypes ==
    ASSUME TypeOK,
           \/ add_site
           \/ add_deployment
           \/ \E h \in HostNames : add_host(h)
           \/ \E h \in HostNames, name \in ExtraIfaces : add_iface(h, name)
    PROVE  TypeOK' /\ RowsGrow /\ UNCHANGED <<ifaces, subnets, caps, dhcpd>>
<1>0. Tables
  BY Shape
<1>1. ASSUME hosts' \in Seq(HostNames), HostTable \subseteq HostTable',
             sites' \in 0..NSites, deployments' \in 0..MaxDeployments,
             UNCHANGED <<ifaces, subnets, caps, dhcpd>>,
             calls' \in Seq(CallRow'), step' = "row"
      PROVE  TypeOK' /\ RowsGrow /\ UNCHANGED <<ifaces, subnets, caps, dhcpd>>
  <2>1. TypeOK'
    BY <1>1 DEF TypeOK, CallRow, IfaceIds
  <2>2. RowsGrow
    BY <1>0, <1>1 DEF RowsGrow, Tables
  <2>. QED  BY <1>1, <2>1, <2>2
<1>2. CASE add_site
  <2>1. sites' \in 0..NSites
    BY <1>2, SitesAssumption DEF TypeOK, add_site
  <2>2. calls' = << >> /\ step' \in {"row", "reroute", "subnet", "dhclient", "dhcpd"}
    BY <1>2 DEF TypeOK, add_site
  <2>3. TypeOK'
    BY <1>2, <2>1, <2>2 DEF TypeOK, add_site, IfaceIds, HostTable
  <2>4. RowsGrow
    BY <1>0, <1>2 DEF RowsGrow, Tables, add_site, HostTable
  <2>. QED  BY <1>2, <2>3, <2>4 DEF add_site
<1>3. CASE add_deployment
  <2>1. PICK order \in [1..Len(hosts) -> HostTable] :
            calls' = [i \in 1..Len(hosts) |-> IfaceCall(order[i], "vlan", deployments')]
    BY <1>3 DEF add_deployment
  <2>2. deployments' \in 0..MaxDeployments /\ deployments' \in 0..deployments'
    BY <1>3, BoundAssumption DEF add_deployment, TypeOK
  <2>3. \A i \in 1..Len(hosts) : IfaceCall(order[i], "vlan", deployments') \in CallRow'
    BY <1>3, <2>2 DEF IfaceCall, CallRow, IfaceNames, add_deployment, HostTable
  <2>4. calls' \in Seq(CallRow')
    BY <1>0, <2>1, <2>3 DEF Tables
  <2>5. UNCHANGED <<sites, hosts, ifaces, subnets, caps, dhcpd>> /\ step' = "row"
    BY <1>3 DEF add_deployment
  <2>. QED  BY <1>1, <2>2, <2>4, <2>5 DEF TypeOK, HostTable
<1>4. ASSUME NEW h \in HostNames, add_host(h)
      PROVE  TypeOK' /\ RowsGrow /\ UNCHANGED <<ifaces, subnets, caps, dhcpd>>
  <2>1. hosts' = Append(hosts, h) /\ hosts \in Seq(HostNames)
    BY <1>4 DEF add_host, TypeOK
  <2>2. hosts' \in Seq(HostNames)
    BY <2>1
  <2>3. HostTable' = HostTable \cup {h}
    <3>1. DOMAIN hosts' = 1..(Len(hosts) + 1)
      BY <2>1, <2>2
    <3>2. \A i \in DOMAIN hosts' : hosts'[i] = IF i = Len(hosts) + 1 THEN h ELSE hosts[i]
      BY <2>1, <2>2, <3>1
    <3>3. DOMAIN hosts = 1..Len(hosts) /\ Len(hosts) \in Nat
      BY <1>0 DEF Tables
    <3>4. \A i \in DOMAIN hosts : i \in DOMAIN hosts' /\ hosts'[i] = hosts[i]
      BY <3>1, <3>2, <3>3
    <3>5. Len(hosts) + 1 \in DOMAIN hosts' /\ hosts'[Len(hosts) + 1] = h
      BY <3>1, <3>2, <3>3
    <3>6. \A i \in DOMAIN hosts' : i \in DOMAIN hosts \/ hosts'[i] = h
      BY <3>1, <3>2, <3>3
    <3>. QED  BY <3>4, <3>5, <3>6 DEF HostTable
  <2>4. /\ IfaceCall(h, "vtnet0", Nothing) \in CallRow'
        /\ IfaceCall(h, "vtnet1", Nothing) \in CallRow'
    BY <1>4, <2>3 DEF IfaceCall, CallRow, IfaceNames, Nothing, add_host, TypeOK
  <2>5. calls' \in Seq(CallRow')
    BY <1>4, <2>4 DEF add_host
  <2>6. UNCHANGED <<sites, deployments, ifaces, subnets, caps, dhcpd>> /\ step' = "row"
    BY <1>4 DEF add_host
  <2>. QED  BY <1>1, <2>2, <2>3, <2>5, <2>6 DEF TypeOK
<1>5. ASSUME NEW h \in HostNames, NEW name \in ExtraIfaces, add_iface(h, name)
      PROVE  TypeOK' /\ RowsGrow /\ UNCHANGED <<ifaces, subnets, caps, dhcpd>>
  <2>1. UNCHANGED <<sites, hosts, deployments, ifaces, subnets, caps, dhcpd>> /\ step' = "row"
    BY <1>5 DEF add_iface, rows
  <2>2. IfaceCall(h, name, Nothing) \in CallRow'
    BY <1>5, <2>1 DEF IfaceCall, CallRow, IfaceNames, Nothing, add_iface, TypeOK, HostTable
  <2>3. calls' \in Seq(CallRow')
    BY <1>5, <2>2 DEF add_iface
  <2>. QED  BY <1>1, <2>1, <2>3 DEF TypeOK, HostTable
<1>. QED  BY <1>2, <1>3, <1>4, <1>5

\* The call in progress, and what is left after it.
LEMMA CallIs ==
    ASSUME TypeOK, calls # << >>
    PROVE  /\ Call \in CallRow /\ Tail(calls) \in Seq(CallRow)
           /\ Len(calls) \in Nat /\ Len(calls) >= 1 /\ DOMAIN calls = 1..Len(calls)
           /\ Len(Tail(calls)) = Len(calls) - 1
           /\ \A i \in 1..(Len(calls) - 1) : Tail(calls)[i] = calls[i + 1]
<1>1. calls \in Seq(CallRow)
  BY DEF TypeOK, CallRow
<1>. HIDE DEF CallRow
<1>. QED  BY <1>1 DEF Call

LEMMA StopTypes ==
    ASSUME TypeOK, Stop
    PROVE  TypeOK' /\ RowsGrow
<1>1. TypeOK'
  BY DEF TypeOK, Stop, rows, IfaceIds, HostTable
<1>2. RowsGrow
  BY Shape DEF RowsGrow, Stop, rows, Tables, HostTable
<1>. QED  BY <1>1, <1>2

LEMMA WiderSeq ==
    ASSUME NEW A, NEW B, A \subseteq B, NEW s \in Seq(A)
    PROVE  s \in Seq(B)
OBVIOUS

LEMMA CapsTyped ==
    ASSUME TypeOK, NEW i \in DOMAIN caps
    PROVE  caps[i] \in CapRow(Services, StripeGroups) /\ caps[i].iface \in Nat
<1>1. caps \in Seq(CapRow(Services, StripeGroups))
  BY DEF TypeOK
<1>2. caps[i] \in CapRow(Services, StripeGroups)
  BY <1>1
<1>. QED  BY <1>2 DEF CapRow

\* A new interface is the last, and is routed as the call says.
NewRow(routed) ==
    [host |-> Call.host, name |-> Call.name, depl |-> Call.depl, routed_by |-> routed]
NewRouter ==
    IF Routed(Call) THEN Router(SiteOf[Call.host], Cardinality(InternalOf(Call.host)))
                    ELSE Nothing

LEMMA CreateTypes ==
    ASSUME TypeOK, IfaceKinds, CreateIface
    PROVE  /\ TypeOK' /\ RowsGrow
           /\ Len(ifaces') = Len(ifaces) + 1
           /\ \A f \in IfaceIds : ifaces'[f] = ifaces[f]
           /\ ifaces'[Len(ifaces) + 1] = NewRow(NewRouter)
           /\ Routed(Call) => IsRouter(NewRouter, SiteOf[Call.host])
<1>0. Tables
  BY Shape
<1>1. calls # << >> /\ Call \in CallRow
  BY CallIs DEF CreateIface, At
<1>2. Cardinality(InternalOf(Call.host)) \in Nat
  <2>1. InternalOf(Call.host) \subseteq 1..Len(ifaces) /\ Len(ifaces) \in Nat
    BY <1>0 DEF InternalOf, IfacesOf, Tables
  <2>. HIDE DEF InternalOf
  <2>2. IsFiniteSet(InternalOf(Call.host))
    BY <2>1, FiniteIds
  <2>. QED  BY <2>2, FS_CardinalityType
<1>3. Routed(Call) => NewRouter \in IfaceIds /\ IsRouter(NewRouter, SiteOf[Call.host])
  <2>1. Routed(Call) => HasRouter(SiteOf[Call.host], Cardinality(InternalOf(Call.host)))
    BY DEF CreateIface
  <2>. QED  BY <1>2, <2>1, RouterIs DEF NewRouter
<1>4. NewRouter \in 0..Len(ifaces)
  BY <1>0, <1>3 DEF NewRouter, Nothing, Tables
<1>5. NewRow(NewRouter) \in IfaceRow
  <2>1. NewRouter \in Nat
    BY <1>0, <1>4 DEF Tables
  <2>2. Call.host \in HostNames /\ Call.name \in IfaceNames /\ Call.depl \in 0..MaxDeployments
    BY <1>0, <1>1, BoundAssumption DEF CallRow, Tables, TypeOK
  <2>. QED  BY <2>1, <2>2 DEF NewRow, IfaceRow
<1>6. ifaces' = Append(ifaces, NewRow(NewRouter)) /\ ifaces \in Seq(IfaceRow)
  BY DEF CreateIface, NewRow, NewRouter, TypeOK
<1>7. /\ ifaces' \in Seq(IfaceRow)
      /\ Len(ifaces') = Len(ifaces) + 1
      /\ \A f \in 1..Len(ifaces) : ifaces'[f] = ifaces[f]
      /\ ifaces'[Len(ifaces) + 1] = NewRow(NewRouter)
  BY <1>5, <1>6
<1>8. /\ UNCHANGED <<sites, hosts, deployments, subnets, caps, dhcpd, calls>>
      /\ step' = "reroute"
  BY DEF CreateIface
<1>9. /\ IfaceIds' = 1..(Len(ifaces) + 1) /\ IfaceIds = 1..Len(ifaces)
      /\ Len(ifaces) \in Nat /\ HostTable' = HostTable
  BY <1>0, <1>7, <1>8 DEF Tables, IfaceIds, HostTable
<1>10. \A f \in IfaceIds' :
          ifaces'[f].routed_by <= Len(ifaces') /\ ifaces'[f].host \in HostTable'
  <2>1. ASSUME NEW f \in IfaceIds
        PROVE  ifaces'[f].routed_by <= Len(ifaces') /\ ifaces'[f].host \in HostTable'
    <3>1. ifaces[f].routed_by \in 0..Len(ifaces) /\ ifaces[f].host \in HostTable
      BY <1>0 DEF Tables
    <3>. QED  BY <1>7, <1>9, <3>1
  <2>2. /\ ifaces'[Len(ifaces) + 1].routed_by = NewRouter
        /\ ifaces'[Len(ifaces) + 1].host = Call.host
    BY <1>7 DEF NewRow
  <2>3. Call.host \in HostTable
    BY <1>1 DEF CallRow
  <2>4. \A f \in IfaceIds' : f \in IfaceIds \/ f = Len(ifaces) + 1
    BY <1>9
  <2>. QED  BY <1>4, <1>7, <1>9, <2>1, <2>2, <2>3, <2>4
<1>11. subnets' \in Seq(0..Len(ifaces'))
  <2>1. 0..Len(ifaces) \subseteq 0..Len(ifaces')
    BY <1>7, <1>9
  <2>2. subnets \in Seq(0..Len(ifaces))
    BY DEF TypeOK
  <2>. QED  BY <1>8, <2>1, <2>2, WiderSeq
<1>12. \A i \in DOMAIN caps : caps[i].iface <= Len(ifaces')
  <2>1. \A i \in DOMAIN caps : caps[i].iface <= Len(ifaces) /\ caps[i].iface \in Nat
    BY <1>0, CapsTyped DEF TypeOK
  <2>. QED  BY <1>7, <1>9, <2>1
<1>13. TypeOK'
  BY <1>7, <1>8, <1>9, <1>10, <1>11, <1>12 DEF TypeOK
<1>14. RowsGrow
  BY <1>0, <1>7, <1>8, <1>9 DEF RowsGrow, Tables
<1>. QED  BY <1>3, <1>7, <1>9, <1>13, <1>14

\* Rerouting changes the routers of a set of interfaces, and no more.
LEMMA RerouteTypes ==
    ASSUME TypeOK, IfaceKinds, calls # << >>,
           NEW S, S \subseteq ToReroute, Rerouted(S), calls' \in {calls, << >>},
           step' \in {"row", "subnet"}
    PROVE  /\ TypeOK' /\ RowsGrow
           /\ Len(ifaces') = Len(ifaces)
           /\ \A f \in IfaceIds \ S : ifaces'[f] = ifaces[f]
           /\ \A f \in S :
                 /\ f \in IfaceIds /\ ~External(f)
                 /\ ~is_bastion(ifaces[f].host)
                 /\ SiteOf[ifaces[f].host] = SiteOf[Call.host]
                 /\ Index(f) \in Nat
                 /\ HasRouter(SiteOf[Call.host], Index(f))
                 /\ ifaces'[f].routed_by = Router(SiteOf[Call.host], Index(f))
           /\ S # {} => NewInternal
<1>0. Tables
  BY Shape
<1>1. ASSUME NEW f \in S
      PROVE  /\ f \in IfaceIds /\ ~External(f)
             /\ ~is_bastion(ifaces[f].host)
             /\ SiteOf[ifaces[f].host] = SiteOf[Call.host]
             /\ Index(f) \in Nat
             /\ HasRouter(SiteOf[Call.host], Index(f))
             /\ NewInternal
  <2>1. f \in ToReroute /\ NewInternal
    BY DEF ToReroute
  <2>2. PICK h \in ComputeHosts(SiteOf[Call.host]) : f \in InternalOf(h)
    BY <2>1 DEF ToReroute
  <2>3. f \in IfaceIds /\ ~External(f) /\ ifaces[f].host = h
    BY <2>2 DEF InternalOf, IfacesOf
  <2>4. ~is_bastion(h) /\ SiteOf[h] = SiteOf[Call.host]
    BY <2>2 DEF ComputeHosts, is_bastion
  <2>5. Index(f) \in Nat
    <3>1. InternalOf(h) \subseteq 1..Len(ifaces) /\ Len(ifaces) \in Nat
      BY <1>0 DEF InternalOf, IfacesOf, Tables
    <3>2. IsFiniteSet(InternalOf(h)) /\ InternalOf(h) \subseteq Nat
      BY <3>1, FiniteIds
    <3>. QED  BY <2>3, <3>2, BeforeType DEF Index
  <2>6. HasRouter(SiteOf[Call.host], Index(f))
    BY DEF Rerouted
  <2>. QED  BY <2>1, <2>3, <2>4, <2>5, <2>6
<1>2. \A f \in S : Router(SiteOf[Call.host], Index(f)) \in IfaceIds
  BY <1>1, RouterIs
<1>3. ifaces' = [f \in IfaceIds |->
                    IF f \in S THEN [ifaces[f] EXCEPT
                                        !.routed_by = Router(SiteOf[Call.host], Index(f))]
                               ELSE ifaces[f]]
  BY DEF Rerouted
<1>4. ASSUME NEW f \in S
      PROVE  /\ ifaces'[f] \in IfaceRow
             /\ ifaces'[f].host = ifaces[f].host
             /\ ifaces'[f].name = ifaces[f].name
             /\ ifaces'[f].depl = ifaces[f].depl
             /\ ifaces'[f].routed_by = Router(SiteOf[Call.host], Index(f))
             /\ ifaces'[f].routed_by <= Len(ifaces)
  <2>1. PICK r \in IfaceIds : r = Router(SiteOf[Call.host], Index(f))
    BY <1>2
  <2>2. ifaces'[f] = [ifaces[f] EXCEPT !.routed_by = r]
    BY <1>1, <1>3, <2>1
  <2>3. ifaces[f] \in IfaceRow /\ r \in Nat /\ r <= Len(ifaces)
    BY <1>0, <1>1, <2>1 DEF Tables
  <2>. HIDE DEF Rerouted, Router, Index
  <2>. QED  BY <2>1, <2>2, <2>3 DEF IfaceRow
<1>5. \A f \in IfaceIds \ S : ifaces'[f] = ifaces[f]
  BY <1>3
<1>6. \A f \in IfaceIds : ifaces'[f] \in IfaceRow
  BY <1>0, <1>4, <1>5 DEF Tables
<1>7. ifaces' \in Seq(IfaceRow) /\ Len(ifaces') = Len(ifaces)
  <2>1. DOMAIN ifaces' = 1..Len(ifaces) /\ ifaces' = [f \in 1..Len(ifaces) |-> ifaces'[f]]
    BY <1>0, <1>3 DEF Tables
  <2>2. \A f \in 1..Len(ifaces) : ifaces'[f] \in IfaceRow
    BY <1>0, <1>6 DEF Tables
  <2>3. Len(ifaces) \in Nat
    BY <1>0 DEF Tables
  <2>. QED  BY <2>1, <2>2, <2>3
<1>8. UNCHANGED <<sites, hosts, deployments, subnets, caps, dhcpd>>
  BY DEF Rerouted
<1>9. IfaceIds' = IfaceIds /\ HostTable' = HostTable
  BY <1>0, <1>3, <1>8 DEF IfaceIds, HostTable
<1>10. \A f \in IfaceIds :
          ifaces'[f].routed_by <= Len(ifaces) /\ ifaces'[f].host \in HostTable
  <2>1. \A f \in IfaceIds :
           ifaces[f].routed_by <= Len(ifaces) /\ ifaces[f].host \in HostTable
    BY DEF TypeOK
  <2>. QED  BY <1>4, <1>5, <2>1
<1>11. calls' \in Seq(CallRow')
  <2>1. calls \in Seq(CallRow) /\ CallRow' = CallRow
    BY <1>8, <1>9 DEF TypeOK, CallRow
  <2>2. << >> \in Seq(CallRow)
    OBVIOUS
  <2>. QED  BY <2>1, <2>2
<1>12. TypeOK'
  BY <1>7, <1>8, <1>9, <1>10, <1>11 DEF TypeOK, CallRow
<1>13. RowsGrow
  BY <1>0, <1>4, <1>5, <1>7, <1>8, <1>9 DEF RowsGrow, Tables
<1>. QED  BY <1>1, <1>4, <1>5, <1>7, <1>12, <1>13

\* A new subnet is the last, and its router the newest interface.
LEMMA AssignTypes ==
    ASSUME TypeOK, AssignSubnet
    PROVE  /\ TypeOK' /\ RowsGrow
           /\ UNCHANGED <<ifaces, hosts>>
           /\ \A n \in DOMAIN subnets' :
                 \/ n \in DOMAIN subnets /\ subnets'[n] = subnets[n]
                 \/ subnets'[n] = Iface /\ (NewInternal \/ ~Physical(Iface))
<1>0. Tables
  BY Shape
<1>1. subnets \in Seq(0..Len(ifaces)) /\ Iface \in 0..Len(ifaces)
  BY <1>0 DEF TypeOK, Iface, Tables
<1>2. UNCHANGED <<sites, hosts, deployments, ifaces, caps, dhcpd, calls>> /\ step' = "dhclient"
  BY DEF AssignSubnet
<1>3. /\ subnets' \in Seq(0..Len(ifaces)) /\ Len(subnets) <= Len(subnets')
      /\ \A n \in DOMAIN subnets : subnets'[n] = subnets[n]
      /\ \A n \in DOMAIN subnets' :
            \/ n \in DOMAIN subnets /\ subnets'[n] = subnets[n]
            \/ subnets'[n] = Iface /\ (NewInternal \/ ~Physical(Iface))
  <2>1. CASE NewInternal \/ ~Physical(Iface)
    <3>1. subnets' = Append(subnets, Iface)
      BY <2>1 DEF AssignSubnet
    <3>. QED  BY <1>1, <2>1, <3>1
  <2>2. CASE ~(NewInternal \/ ~Physical(Iface))
    <3>1. subnets' = subnets
      BY <2>2 DEF AssignSubnet
    <3>. QED  BY <1>1, <3>1
  <2>. QED  BY <2>1, <2>2
<1>4. TypeOK'
  BY <1>2, <1>3 DEF TypeOK, IfaceIds, HostTable
<1>5. RowsGrow
  BY <1>0, <1>2, <1>3 DEF RowsGrow, Tables, HostTable
<1>. QED  BY <1>2, <1>3, <1>4, <1>5

LEMMA ConfigureTypes ==
    ASSUME TypeOK, ConfigureDhcpd
    PROVE  TypeOK' /\ RowsGrow /\ UNCHANGED <<ifaces, hosts, subnets, caps>>
<1>0. Tables
  BY Shape
<1>1. calls' = Tail(calls) /\ calls # << >> /\ step' = "row"
  BY DEF ConfigureDhcpd, At
<1>2. UNCHANGED <<sites, hosts, deployments, ifaces, subnets, caps>>
  BY DEF ConfigureDhcpd
<1>3. \A b : Served(b) \in SUBSET IfaceNames
  <2>1. \A f \in IfaceIds : ifaces[f].name \in IfaceNames
    BY <1>0 DEF Tables, IfaceRow
  <2>. QED  BY <2>1 DEF Served, InternalOf, IfacesOf
<1>4. dhcpd' \in [Bastions -> SUBSET IfaceNames]
  BY <1>3 DEF TypeOK, ConfigureDhcpd
<1>5. calls' \in Seq(CallRow)
  BY <1>1, CallIs
<1>6. TypeOK'
  BY <1>1, <1>2, <1>4, <1>5 DEF TypeOK, IfaceIds, HostTable, CallRow
<1>7. RowsGrow
  BY <1>0, <1>2 DEF RowsGrow, Tables, HostTable
<1>. QED  BY <1>2, <1>6, <1>7

-----------------------------------------------------------------------------
\* DHCP clients.

\* On a compute host every physical interface is on DHCP: an internal one has a
\* router, so its site has a bastion.
LEMMA DhcpIsPhysical ==
    ASSUME TypeOK, RoutedInOrder, NEW h, ~is_bastion(h)
    PROVE  DhcpOf(h) = PhysicalOf(h)
<1>1. SUFFICES ASSUME NEW f \in PhysicalOf(h)  PROVE routingstyle(f) = "DHCP"
  BY DEF DhcpOf
<1>2. f \in IfaceIds /\ ifaces[f].host = h /\ Physical(f)
  BY DEF PhysicalOf, IfacesOf
<1>3. CASE External(f)
  BY <1>3 DEF routingstyle
<1>4. CASE ~External(f)
  <2>1. HasRouter(SiteOf[h], Index(f))
    BY <1>2, <1>4 DEF RoutedInOrder, InPosition, InternalPhysical
  <2>2. BastionIn(SiteOf[h]) # {}
    BY <2>1 DEF HasRouter
  <2>. QED  BY <1>2, <1>4, <2>2 DEF routingstyle
<1>. QED  BY <1>3, <1>4

\* Positions in the rows of a host and in its physical interfaces.
LEMMA ClientSets ==
    ASSUME TypeOK, NEW h
    PROVE  /\ PhysicalOf(h) \subseteq IfaceIds /\ PhysicalOf(h) \subseteq Nat
           /\ IsFiniteSet(PhysicalOf(h)) /\ Cardinality(PhysicalOf(h)) \in Nat
           /\ Dhclients(h) \subseteq DOMAIN caps /\ Dhclients(h) \subseteq Nat
           /\ IsFiniteSet(Dhclients(h)) /\ Cardinality(Dhclients(h)) \in Nat
<1>0. Tables
  BY Shape
<1>1. PhysicalOf(h) \subseteq 1..Len(ifaces) /\ Dhclients(h) \subseteq 1..Len(caps)
  BY <1>0 DEF PhysicalOf, IfacesOf, Dhclients, Tables
<1>2. Len(ifaces) \in Nat /\ Len(caps) \in Nat
  BY <1>0 DEF Tables
<1>3. /\ PhysicalOf(h) \subseteq Nat /\ IsFiniteSet(PhysicalOf(h))
      /\ Dhclients(h) \subseteq Nat /\ IsFiniteSet(Dhclients(h))
  BY <1>1, <1>2, FiniteIds
<1>4. PhysicalOf(h) \subseteq IfaceIds /\ Dhclients(h) \subseteq DOMAIN caps
  BY DEF PhysicalOf, IfacesOf, Dhclients
<1>. QED  BY <1>3, <1>4, FS_CardinalityType

\* As interfaces only come at the end, clients stay with theirs.
LEMMA ClientsKept ==
    ASSUME TypeOK, TypeOK', RowsGrow, ClientsInOrder,
           \A h \in HostNames :
              /\ Dhclients(h)' = Dhclients(h)
              /\ \A i \in Dhclients(h) : caps'[i].iface = caps[i].iface
    PROVE  ClientsInOrder'
<1>. SUFFICES ASSUME NEW h \in HostNames
              PROVE  /\ Cardinality(Dhclients(h)') <= Cardinality(PhysicalOf(h)')
                     /\ \A i \in Dhclients(h)' :
                           caps'[i].iface = Nth(PhysicalOf(h)', Before(Dhclients(h)', i))
  BY DEF ClientsInOrder
<1>1. AtEnd(PhysicalOf(h), PhysicalOf(h)')
  BY SetsGrow
<1>2. PhysicalOf(h)' \subseteq 1..Len(ifaces') /\ Len(ifaces') \in Nat
  <2>1. Tables'
    BY Shape, PTL
  <2>. QED  BY <2>1 DEF PhysicalOf, IfacesOf, Tables
<1>3. /\ Cardinality(PhysicalOf(h)) \in Nat /\ Cardinality(PhysicalOf(h)') \in Nat
      /\ Cardinality(PhysicalOf(h)) <= Cardinality(PhysicalOf(h)')
      /\ \A n \in Nat : n < Cardinality(PhysicalOf(h)) =>
            Nth(PhysicalOf(h)', n) = Nth(PhysicalOf(h), n)
  BY <1>1, <1>2, PositionsKept
<1>4. /\ IsFiniteSet(Dhclients(h)) /\ Dhclients(h) \subseteq Nat
      /\ Cardinality(Dhclients(h)) \in Nat
  BY ClientSets
<1>5. /\ Cardinality(Dhclients(h)) <= Cardinality(PhysicalOf(h))
      /\ \A i \in Dhclients(h) :
            caps[i].iface = Nth(PhysicalOf(h), Before(Dhclients(h), i))
  BY DEF ClientsInOrder
<1>6. ASSUME NEW i \in Dhclients(h)
      PROVE  caps'[i].iface = Nth(PhysicalOf(h)', Before(Dhclients(h), i))
  <2>1. Before(Dhclients(h), i) \in Nat /\ Before(Dhclients(h), i) < Cardinality(Dhclients(h))
    BY <1>4, BeforeType, BeforeLess
  <2>2. Before(Dhclients(h), i) < Cardinality(PhysicalOf(h))
    BY <1>3, <1>4, <1>5, <2>1
  <2>. QED  BY <1>3, <1>5, <2>1, <2>2
<1>. QED  BY <1>3, <1>4, <1>5, <1>6

\* Some of L rows, and m more after them.
Extended(D, L, m) == D \cup (L + 1)..(L + m)

LEMMA WithRange ==
    ASSUME NEW L \in Nat, NEW D, D \subseteq 1..L, NEW k \in Nat
    PROVE  Cardinality(Extended(D, L, k)) = Cardinality(D) + k
<1>. USE DEF Extended
<1>1. IsFiniteSet(D) /\ Cardinality(D) \in Nat
  BY FiniteIds, FS_CardinalityType
<1>2. IsFiniteSet((L + 1)..(L + k)) /\ Cardinality((L + 1)..(L + k)) = k
  <2>1. L + 1 \in Int /\ L + k \in Int
    OBVIOUS
  <2>2. /\ IsFiniteSet((L + 1)..(L + k))
        /\ Cardinality((L + 1)..(L + k))
              = IF L + 1 > L + k THEN 0 ELSE (L + k) - (L + 1) + 1
    BY <2>1, FS_Interval
  <2>. QED  BY <2>2
<1>3. D \cap ((L + 1)..(L + k)) = {}
  OBVIOUS
<1>4. Cardinality(D \cap ((L + 1)..(L + k))) = 0
  BY <1>3, FS_EmptySet
<1>5. Cardinality(D \cup (L + 1)..(L + k))
        = Cardinality(D) + Cardinality((L + 1)..(L + k))
            - Cardinality(D \cap ((L + 1)..(L + k)))
  BY <1>1, <1>2, FS_Union
<1>. QED  BY <1>1, <1>2, <1>4, <1>5

\* The rows there are keep their interfaces, and the new ones get the next.
LEMMA DhclientRowsAre ==
    ASSUME TypeOK, RoutedInOrder, ClientsInOrder, NEW h \in HostNames, h = Call.host,
           Call.depl \in 0..MaxDeployments,
           NEW upto \in Nat, upto <= Wanted(h), DhclientRows(upto)
    PROVE  \E m \in Nat :
              /\ m > 0 => Cardinality(Dhclients(h)) + m = upto
              /\ \A k \in 1..m :
                    LET n == Cardinality(Dhclients(h)) + k - 1
                    IN  /\ n \in Nat /\ n < Cardinality(PhysicalOf(h))
                        /\ Nth(DhcpOf(h), n) = Nth(PhysicalOf(h), n)
                        /\ Nth(PhysicalOf(h), n) \in IfaceIds
              /\ caps' = caps \o
                    [k \in 1..m |->
                        Dhclient(h, Cardinality(Dhclients(h)) + k - 1, Call.depl)]
<1>0. Tables
  BY Shape
<1>. DEFINE c == Cardinality(Dhclients(h))
            w == Cardinality(PhysicalOf(h))
            m == IF upto > c THEN upto - c ELSE 0
            A == [i \in DOMAIN caps |->
                     IF Wanted(h) > 0 /\ i \in Dhclients(h)
                     THEN [caps[i] EXCEPT !.iface = Nth(DhcpOf(h), Before(Dhclients(h), i))]
                     ELSE caps[i]]
<1>1. c \in Nat /\ w \in Nat /\ m \in Nat /\ (m > 0 => c + m = upto)
  <2>1. c \in Nat /\ w \in Nat
    BY ClientSets
  <2>. QED  BY <2>1
<1>2. Wanted(h) > 0 => ~is_bastion(h) /\ Wanted(h) = w
  BY DEF Wanted
<1>3. Wanted(h) > 0 => DhcpOf(h) = PhysicalOf(h)
  BY <1>2, DhcpIsPhysical
<1>4. A = caps
  <2>1. ASSUME NEW i \in DOMAIN caps  PROVE A[i] = caps[i]
    <3>1. CASE Wanted(h) > 0 /\ i \in Dhclients(h)
      <4>1. caps[i].iface = Nth(DhcpOf(h), Before(Dhclients(h), i))
        BY <1>3, <3>1 DEF ClientsInOrder
      <4>2. caps[i] \in CapRow(Services, StripeGroups)
        BY CapsTyped
      <4>3. [caps[i] EXCEPT !.iface = caps[i].iface] = caps[i]
        BY <4>2 DEF CapRow
      <4>. QED  BY <3>1, <4>1, <4>3
    <3>2. CASE ~(Wanted(h) > 0 /\ i \in Dhclients(h))
      BY <3>2
    <3>. QED  BY <3>1, <3>2
  <2>2. caps = [i \in DOMAIN caps |-> caps[i]]
    BY DEF TypeOK
  <2>3. A = [i \in DOMAIN caps |-> A[i]]
    OBVIOUS
  <2>. HIDE DEF A
  <2>. QED  BY <2>1, <2>2, <2>3
<1>5. 1..(upto - c) = 1..m
  BY <1>1
<1>6. caps' = A \o [k \in 1..(upto - c) |-> Dhclient(h, c + k - 1, Call.depl)]
  BY DEF DhclientRows
<1>7. caps' = caps \o [k \in 1..m |-> Dhclient(h, c + k - 1, Call.depl)]
  <2>. HIDE DEF A, m, c
  <2>. QED  BY <1>4, <1>5, <1>6
<1>8. ASSUME NEW k \in 1..m
      PROVE  /\ c + k - 1 \in Nat /\ c + k - 1 < w
             /\ Nth(DhcpOf(h), c + k - 1) = Nth(PhysicalOf(h), c + k - 1)
             /\ Nth(PhysicalOf(h), c + k - 1) \in IfaceIds
  <2>1. upto > c /\ m = upto - c /\ upto > 0
    BY <1>1
  <2>2. Wanted(h) \in Nat
    BY <1>1 DEF Wanted
  <2>3. Wanted(h) > 0
    BY <2>1, <2>2
  <2>4. upto <= w
    BY <1>2, <2>3
  <2>5. c + k - 1 \in Nat /\ c + k - 1 < w
    BY <1>1, <2>1, <2>4
  <2>6. Nth(PhysicalOf(h), c + k - 1) \in PhysicalOf(h)
    <3>. HIDE DEF c, m
    <3>. QED  BY <2>5, ClientSets, NthIn
  <2>7. PhysicalOf(h) \subseteq IfaceIds
    BY ClientSets
  <2>8. DhcpOf(h) = PhysicalOf(h)
    BY <1>3, <2>3
  <2>. HIDE DEF c, m, w
  <2>. QED  BY <2>5, <2>6, <2>7, <2>8
<1>. QED
  <2>. HIDE DEF c, m, w
  <2>1. c = Cardinality(Dhclients(h)) /\ w = Cardinality(PhysicalOf(h))
    BY DEF c, w
  <2>. QED  BY <1>1, <1>7, <1>8, <2>1

\* Rows added at the end for a host are its last clients: how many it has then,
\* and the positions of those it had and of the new ones.
LEMMA ClientsCounted ==
    ASSUME NEW L \in Nat, NEW m \in Nat, NEW D \in SUBSET (1..L)
    PROVE  Cardinality(Extended(D, L, m)) = Cardinality(D) + m
BY FiniteIds, FS_CardinalityType, WithRange

LEMMA OldClients ==
    ASSUME NEW L \in Nat, NEW m \in Nat, NEW D \in SUBSET (1..L), NEW i \in D
    PROVE  Before(Extended(D, L, m), i) = Before(D, i)
<1>1. {y \in Extended(D, L, m) : y < i} = {y \in D : y < i}
  BY DEF Extended
<1>. QED  BY <1>1 DEF Before

LEMMA NewClients ==
    ASSUME NEW L \in Nat, NEW m \in Nat, NEW D \in SUBSET (1..L), NEW k \in 1..m
    PROVE  Before(Extended(D, L, m), L + k) = Cardinality(D) + k - 1
<1>. PICK c \in Nat : c = Cardinality(D)
  BY FiniteIds, FS_CardinalityType
<1>. PICK j \in Nat : k = j + 1
  <2>1. k - 1 \in Nat /\ k = (k - 1) + 1
    OBVIOUS
  <2>. QED  BY <2>1
<1>1. \A y \in (L + 1)..(L + m) : y < L + k <=> y \in (L + 1)..(L + j)
  OBVIOUS
<1>2. \A y \in (L + 1)..(L + j) : y \in (L + 1)..(L + m)
  OBVIOUS
<1>3. \A y \in D : y < L + k
  OBVIOUS
<1>4. {y \in Extended(D, L, m) : y < L + k} = Extended(D, L, j)
  BY <1>1, <1>2, <1>3 DEF Extended
<1>5. Cardinality(Extended(D, L, j)) = c + j
  BY ClientsCounted
<1>6. c + j = c + k - 1
  OBVIOUS
<1>. QED  BY <1>4, <1>5, <1>6 DEF Before

LEMMA DhclientTypes ==
    ASSUME TypeOK, RoutedInOrder, ClientsInOrder, calls # << >>,
           NEW upto \in Nat, upto <= Wanted(Call.host), DhclientRows(upto),
           calls' \in {calls, << >>}, step' \in {"row", "dhcpd"}
    PROVE  /\ TypeOK' /\ RowsGrow /\ ClientsInOrder'
           /\ UNCHANGED <<ifaces, hosts, subnets, dhcpd>>
<1>0. Tables
  BY Shape
<1>. PICK h : h = Call.host
  OBVIOUS
<1>1. h \in HostNames /\ Call.depl \in 0..MaxDeployments
  <2>1. Call \in CallRow
    BY CallIs
  <2>. QED  BY <1>0, <2>1, BoundAssumption DEF CallRow, Tables, TypeOK
<1>2. UNCHANGED <<sites, hosts, deployments, ifaces, subnets, dhcpd>>
  BY DEF DhclientRows
<1>3. PICK m \in Nat :
              /\ m > 0 => Cardinality(Dhclients(h)) + m = upto
              /\ \A k \in 1..m :
                    LET n == Cardinality(Dhclients(h)) + k - 1
                    IN  /\ n \in Nat /\ n < Cardinality(PhysicalOf(h))
                        /\ Nth(DhcpOf(h), n) = Nth(PhysicalOf(h), n)
                        /\ Nth(PhysicalOf(h), n) \in IfaceIds
              /\ caps' = caps \o
                    [k \in 1..m |->
                        Dhclient(h, Cardinality(Dhclients(h)) + k - 1, Call.depl)]
  BY <1>1, DhclientRowsAre
<1>. PICK c \in Nat, w \in Nat, L \in Nat :
         c = Cardinality(Dhclients(h)) /\ w = Cardinality(PhysicalOf(h)) /\ L = Len(caps)
  BY <1>0, ClientSets DEF Tables
<1>. PICK new : new = [k \in 1..m |-> Dhclient(h, c + k - 1, Call.depl)]
  OBVIOUS
<1>4. \A k \in 1..m : /\ new[k].service = "dhclient" /\ new[k].host = h
                      /\ new[k].iface = Nth(PhysicalOf(h), c + k - 1)
                      /\ new[k].iface \in IfaceIds
                      /\ new[k] \in CapRow(Services, StripeGroups)
  <2>. TAKE k \in 1..m
  <2>1. new[k] = Dhclient(h, c + k - 1, Call.depl)
    OBVIOUS
  <2>2. Nth(DhcpOf(h), c + k - 1) = Nth(PhysicalOf(h), c + k - 1)
        /\ Nth(PhysicalOf(h), c + k - 1) \in IfaceIds
    BY <1>3
  <2>3. Nth(PhysicalOf(h), c + k - 1) \in Nat
    BY <1>0, <2>2 DEF Tables
  <2>. HIDE DEF Nth, DhcpOf, PhysicalOf
  <2>4. /\ new[k].service = "dhclient" /\ new[k].host = h
        /\ new[k].iface = Nth(PhysicalOf(h), c + k - 1)
    BY <2>1, <2>2 DEF Dhclient
  <2>5. new[k] \in CapRow(Services, StripeGroups)
    BY <1>1, <2>1, <2>2, <2>3, ServicesAssumption, SitesAssumption
       DEF Dhclient, CapRow, Nothing
  <2>. QED  BY <2>2, <2>4, <2>5
<1>5. caps' = caps \o new
  BY <1>3
<1>6. /\ new \in Seq(CapRow(Services, StripeGroups)) /\ Len(new) = m
      /\ caps \in Seq(CapRow(Services, StripeGroups)) /\ L \in Nat
  <2>1. m \in Nat /\ \A k \in 1..m : new[k] \in CapRow(Services, StripeGroups)
    BY <1>3, <1>4
  <2>2. new \in Seq(CapRow(Services, StripeGroups)) /\ Len(new) = m
    <3>. HIDE DEF CapRow, Dhclient
    <3>. QED  BY <2>1
  <2>. QED  BY <1>0, <2>2 DEF TypeOK, Tables
<1>7. /\ caps' \in Seq(CapRow(Services, StripeGroups))
      /\ DOMAIN caps' = 1..(L + m) /\ DOMAIN caps = 1..L
      /\ \A i \in 1..L : caps'[i] = caps[i]
      /\ \A k \in 1..m : caps'[L + k] = new[k]
  <2>. HIDE DEF CapRow
  <2>. QED  BY <1>5, <1>6
<1>8. \A i \in DOMAIN caps' : i \in DOMAIN caps \/ \E k \in 1..m : i = L + k
  <2>. SUFFICES ASSUME NEW i \in DOMAIN caps', i \notin DOMAIN caps
                PROVE  \E k \in 1..m : i = L + k
    OBVIOUS
  <2>1. i - L \in 1..m /\ i = L + (i - L)
    BY <1>6, <1>7
  <2>. QED  BY <2>1
<1>9. TypeOK'
  <2>1. \A i \in DOMAIN caps' : caps'[i].iface <= Len(ifaces)
    <3>1. \A i \in DOMAIN caps : caps[i].iface <= Len(ifaces)
      BY DEF TypeOK
    <3>2. \A k \in 1..m : new[k].iface <= Len(ifaces)
      <4>1. \A f \in IfaceIds : f <= Len(ifaces)
        BY <1>0 DEF Tables
      <4>2. \A k \in 1..m : new[k].iface \in IfaceIds
        BY <1>4
      <4>. QED  BY <4>1, <4>2
    <3>3. \A i \in DOMAIN caps : caps'[i] = caps[i]
      BY <1>7
    <3>4. \A k \in 1..m : caps'[L + k] = new[k]
      BY <1>7
    <3>. TAKE i \in DOMAIN caps'
    <3>5. CASE i \in DOMAIN caps
      BY <3>1, <3>3, <3>5
    <3>6. ASSUME NEW k \in 1..m, i = L + k
          PROVE  caps'[i].iface <= Len(ifaces)
      BY <3>2, <3>4, <3>6
    <3>. QED  BY <1>8, <3>5, <3>6
  <2>2. calls' \in Seq(CallRow)
    <3>1. calls \in Seq(CallRow) /\ << >> \in Seq(CallRow)
      BY DEF TypeOK, CallRow
    <3>. QED  BY <3>1
  <2>3. step' \in {"row", "reroute", "subnet", "dhclient", "dhcpd"}
    OBVIOUS
  <2>. QED  BY <1>2, <1>7, <2>1, <2>2, <2>3 DEF TypeOK, IfaceIds, HostTable, CallRow
<1>10. RowsGrow
  BY <1>0, <1>2 DEF RowsGrow, Tables, HostTable
<1>11. \A g : PhysicalOf(g)' = PhysicalOf(g)
  BY <1>2 DEF PhysicalOf, IfacesOf, IfaceIds, Physical
<1>19. \A k \in 1..m : /\ caps'[L + k].host = h
                       /\ caps'[L + k].service = "dhclient"
                       /\ caps'[L + k].iface = Nth(PhysicalOf(h), c + k - 1)
  <2>. TAKE k \in 1..m
  <2>1. caps'[L + k] = new[k]
    BY <1>7
  <2>2. /\ new[k].service = "dhclient" /\ new[k].host = h
        /\ new[k].iface = Nth(PhysicalOf(h), c + k - 1)
    BY <1>4
  <2>. QED  BY <2>1, <2>2
<1>12. ASSUME NEW g \in HostNames, g # h
       PROVE  /\ Dhclients(g)' = Dhclients(g)
              /\ \A i \in Dhclients(g) : caps'[i].iface = caps[i].iface
  <2>1. \A k \in 1..m : caps'[L + k].host = h
    BY <1>19
  <2>2. \A i \in DOMAIN caps : i \in DOMAIN caps' /\ caps'[i] = caps[i]
    BY <1>6, <1>7
  <2>. QED  BY <1>8, <1>12, <2>1, <2>2 DEF Dhclients
<1>13. Dhclients(h) \subseteq 1..L /\ Dhclients(h)' = Dhclients(h) \cup (L + 1)..(L + m)
  <2>1. \A k \in 1..m : caps'[L + k].host = h /\ caps'[L + k].service = "dhclient"
    BY <1>19
  <2>2. \A i \in DOMAIN caps : i \in DOMAIN caps' /\ caps'[i] = caps[i]
    BY <1>6, <1>7
  <2>3. \A i \in (L + 1)..(L + m) : i \in DOMAIN caps' /\ \E k \in 1..m : i = L + k
    <3>1. \A i \in (L + 1)..(L + m) : i \in DOMAIN caps' /\ i \notin DOMAIN caps
      BY <1>6, <1>7
    <3>. QED  BY <1>8, <3>1
  <2>4. \A k \in 1..m : L + k \in (L + 1)..(L + m)
    BY <1>6
  <2>5. \A i \in (L + 1)..(L + m) : i \in Dhclients(h)'
    BY <2>1, <2>3 DEF Dhclients
  <2>6. \A i \in Dhclients(h) : i \in Dhclients(h)'
    BY <2>2 DEF Dhclients
  <2>7. \A i \in Dhclients(h)' : i \in Dhclients(h) \/ i \in (L + 1)..(L + m)
    BY <1>8, <2>2, <2>4 DEF Dhclients
  <2>. QED  BY <1>7, <2>5, <2>6, <2>7 DEF Dhclients
<1>14. /\ Cardinality(Dhclients(h)') = c + m
       /\ \A i \in Dhclients(h) : Before(Dhclients(h)', i) = Before(Dhclients(h), i)
       /\ \A k \in 1..m : Before(Dhclients(h)', L + k) = c + k - 1
  <2>1. L \in Nat /\ m \in Nat
    BY <1>3, <1>6
  <2>2. PICK D : D = Dhclients(h)
    OBVIOUS
  <2>3. D \subseteq 1..L /\ Dhclients(h)' = Extended(D, L, m)
    BY <1>13, <2>2 DEF Extended
  <2>31. D \in SUBSET (1..L)
    BY <2>3
  <2>4. Cardinality(Extended(D, L, m)) = Cardinality(D) + m
    BY <2>1, <2>31, ClientsCounted
  <2>5. \A i \in D : Before(Extended(D, L, m), i) = Before(D, i)
    <3>. TAKE i \in D
    <3>. QED  BY <2>1, <2>31, OldClients
  <2>6. \A k \in 1..m : Before(Extended(D, L, m), L + k) = Cardinality(D) + k - 1
    <3>. TAKE k \in 1..m
    <3>. QED  BY <2>1, <2>31, NewClients
  <2>7. Cardinality(D) = c
    BY <2>2
  <2>. QED  BY <2>2, <2>3, <2>4, <2>5, <2>6, <2>7
<1>15. c \in Nat /\ w \in Nat /\ c + m <= w
  <2>1. c \in Nat /\ w \in Nat
    BY ClientSets
  <2>2. c <= w
    BY <1>1 DEF ClientsInOrder
  <2>3. m > 0 => c + m - 1 < w
    BY <1>3
  <2>. QED  BY <2>1, <2>2, <2>3
<1>16. \A i \in Dhclients(h)' :
          caps'[i].iface = Nth(PhysicalOf(h), Before(Dhclients(h)', i))
  <2>1. ASSUME NEW i \in Dhclients(h)
        PROVE  caps'[i].iface = Nth(PhysicalOf(h), Before(Dhclients(h)', i))
    <3>1. caps'[i] = caps[i]
      BY <1>7, <1>13
    <3>2. caps[i].iface = Nth(PhysicalOf(h), Before(Dhclients(h), i))
      BY <1>1 DEF ClientsInOrder
    <3>. QED  BY <1>14, <3>1, <3>2
  <2>2. ASSUME NEW k \in 1..m
        PROVE  caps'[L + k].iface = Nth(PhysicalOf(h), Before(Dhclients(h)', L + k))
    BY <1>14, <1>19
  <2>3. Dhclients(h)' \subseteq DOMAIN caps'
    BY DEF Dhclients
  <2>4. \A i \in Dhclients(h)' : i \in Dhclients(h) \/ \E k \in 1..m : i = L + k
    <3>1. \A i \in (L + 1)..(L + m) : i \notin DOMAIN caps
      BY <1>6, <1>7
    <3>. QED  BY <1>8, <1>13, <2>3, <3>1
  <2>. QED  BY <2>1, <2>2, <2>4
<1>17. ClientsInOrder'
  <2>1. ASSUME NEW g \in HostNames
        PROVE  /\ Cardinality(Dhclients(g)') <= Cardinality(PhysicalOf(g)')
               /\ \A i \in Dhclients(g)' :
                     caps'[i].iface = Nth(PhysicalOf(g)', Before(Dhclients(g)', i))
    <3>1. CASE g = h
      BY <1>11, <1>14, <1>15, <1>16, <3>1
    <3>2. CASE g # h
      <4>1. /\ Cardinality(Dhclients(g)) <= Cardinality(PhysicalOf(g))
            /\ \A i \in Dhclients(g) :
                  caps[i].iface = Nth(PhysicalOf(g), Before(Dhclients(g), i))
        BY DEF ClientsInOrder
      <4>. QED  BY <1>11, <1>12, <3>2, <4>1
    <3>. QED  BY <3>1, <3>2
  <2>. QED  BY <2>1 DEF ClientsInOrder
<1>. QED  BY <1>2, <1>9, <1>10, <1>17

-----------------------------------------------------------------------------
\* The calls in progress, one step after the other.

LEMMA BeginCalls ==
    ASSUME TypeOK, InCall,
           \/ add_site
           \/ add_deployment
           \/ \E h \in HostNames : add_host(h)
           \/ \E h \in HostNames, name \in ExtraIfaces : add_iface(h, name)
    PROVE  /\ CallKinds' /\ InCall'
           /\ calls' # << >> => Call'.name # "vtnet1"
<1>0. Tables
  BY Shape
<1>1. CASE add_site
  BY <1>1 DEF CallKinds, InCall, add_site
<1>2. CASE add_deployment
  <2>1. PICK order \in [1..Len(hosts) -> HostTable] :
            calls' = [i \in 1..Len(hosts) |-> IfaceCall(order[i], "vlan", deployments')]
    BY <1>2 DEF add_deployment
  <2>2. deployments' # Nothing /\ step' = "row"
    BY <1>2 DEF add_deployment, TypeOK, Nothing
  <2>3. \A i \in DOMAIN calls' : calls'[i].name = "vlan" /\ calls'[i].depl = deployments'
    BY <2>1 DEF IfaceCall
  <2>4. Len(calls') = Len(hosts) /\ DOMAIN calls' = 1..Len(hosts)
    BY <1>0, <2>1 DEF Tables
  <2>5. \A i \in 2..Len(calls') : i \in DOMAIN calls'
    BY <1>0, <2>4 DEF Tables
  <2>6. CallKinds'
    BY <2>2, <2>3, <2>5 DEF CallKinds
  <2>7. calls' # << >> => 1 \in DOMAIN calls'
    BY <1>0, <2>1, <2>4 DEF Tables
  <2>. QED  BY <2>2, <2>3, <2>6, <2>7 DEF InCall, Call
<1>3. ASSUME NEW h \in HostNames, add_host(h)
      PROVE  CallKinds' /\ InCall' /\ (calls' # << >> => Call'.name # "vtnet1")
  <2>1. calls' = <<IfaceCall(h, "vtnet0", Nothing), IfaceCall(h, "vtnet1", Nothing)>>
    BY <1>3 DEF add_host
  <2>2. step' = "row"
    BY <1>3 DEF add_host
  <2>3. /\ DOMAIN calls' = 1..2 /\ Len(calls') = 2
        /\ calls'[1].name = "vtnet0" /\ calls'[1].depl = Nothing /\ calls'[1].host = h
        /\ calls'[2].name = "vtnet1" /\ calls'[2].depl = Nothing /\ calls'[2].host = h
    BY <2>1 DEF IfaceCall
  <2>4. \A i \in DOMAIN calls' : calls'[i].name # "vlan" /\ calls'[i].depl = Nothing
    <3>1. \A i \in DOMAIN calls' : i = 1 \/ i = 2
      BY <2>3
    <3>. QED  BY <2>3, <3>1
  <2>5. \A i \in 2..Len(calls') : i = 2 /\ calls'[i - 1].host = calls'[i].host
    <3>1. \A i \in 2..Len(calls') : i = 2 /\ i - 1 = 1
      BY <2>3
    <3>. QED  BY <2>3, <3>1
  <2>. QED  BY <2>2, <2>3, <2>4, <2>5 DEF CallKinds, InCall, Call
<1>4. ASSUME NEW h \in HostNames, NEW name \in ExtraIfaces, add_iface(h, name)
      PROVE  CallKinds' /\ InCall' /\ (calls' # << >> => Call'.name # "vtnet1")
  <2>1. calls' = <<IfaceCall(h, name, Nothing)>> /\ step' = "row"
    BY <1>4 DEF add_iface
  <2>2. name # "vlan" /\ name # "vtnet1"
    BY ExtraAssumption
  <2>3. DOMAIN calls' = 1..1 /\ Len(calls') = 1 /\ calls'[1].name = name /\ calls'[1].depl = Nothing
    BY <2>1 DEF IfaceCall
  <2>4. \A i \in DOMAIN calls' : calls'[i].name # "vlan" /\ calls'[i].depl = Nothing
    <3>1. \A i \in DOMAIN calls' : i = 1
      BY <2>3
    <3>. QED  BY <2>2, <2>3, <3>1
  <2>5. 2..Len(calls') = {}
    BY <2>3
  <2>. QED  BY <2>1, <2>2, <2>3, <2>4, <2>5 DEF CallKinds, InCall, Call
<1>. QED  BY <1>1, <1>2, <1>3, <1>4

\* A step within a call, and one that ends it early.
LEMMA CallsKept ==
    ASSUME TypeOK, CallKinds, InCall, RowsGrow, Len(ifaces') = Len(ifaces),
           \/ calls' = calls /\ calls # << >> /\ step # "row"
           \/ calls' = << >> /\ step' = "row"
    PROVE  CallKinds' /\ InCall'
<1>0. Tables
  BY Shape
<1>1. CASE calls' = << >> /\ step' = "row"
  BY <1>1 DEF CallKinds, InCall
<1>2. CASE calls' = calls /\ calls # << >> /\ step # "row"
  <2>1. CallKinds'
    BY <1>2 DEF CallKinds
  <2>2. Iface \in IfaceIds /\ Iface' = Iface
    BY <1>0, <1>2 DEF InCall, Iface, Tables
  <2>. QED  BY <1>2, <2>1, <2>2 DEF InCall, Call, RowsGrow
<1>. QED  BY <1>1, <1>2

\* The next call of those that are left.
LEMMA CallsGoOn ==
    ASSUME TypeOK, CallKinds, ConfigureDhcpd
    PROVE  /\ CallKinds' /\ InCall'
           /\ calls' # << >> /\ Call'.name = "vtnet1" => Call'.host = Call.host
<1>1. calls # << >> /\ calls' = Tail(calls) /\ step' = "row"
  BY DEF ConfigureDhcpd, At
<1>. PICK n \in Nat : n = Len(calls) - 1
  <2>1. Len(calls) \in Nat /\ Len(calls) >= 1
    BY <1>1, CallIs
  <2>2. Len(calls) - 1 \in Nat
    BY <2>1
  <2>. QED  BY <2>2
<1>2. /\ DOMAIN calls = 1..(n + 1) /\ Len(calls) = n + 1
      /\ DOMAIN calls' = 1..n /\ Len(calls') = n
      /\ \A i \in 1..n : calls'[i] = calls[i + 1]
  <2>1. calls' \in Seq(CallRow) /\ Len(calls') = n
    BY <1>1, CallIs
  <2>2. DOMAIN calls' = 1..n
    <3>. HIDE DEF CallRow
    <3>. QED  BY <2>1
  <2>. QED  BY <1>1, <2>1, <2>2, CallIs
<1>3. \A i \in DOMAIN calls' : calls'[i].name = "vlan" <=> calls'[i].depl # Nothing
  <2>. TAKE i \in DOMAIN calls'
  <2>1. i + 1 \in DOMAIN calls /\ calls'[i] = calls[i + 1]
    BY <1>2
  <2>. QED  BY <2>1 DEF CallKinds
<1>4. \A i \in 2..Len(calls') : calls'[i].name = "vtnet1" => calls'[i - 1].host = calls'[i].host
  <2>. TAKE i \in 2..Len(calls')
  <2>1. i + 1 \in 2..Len(calls) /\ i \in 1..n /\ i - 1 \in 1..n
    BY <1>2
  <2>2. calls'[i] = calls[i + 1] /\ calls'[i - 1] = calls[(i - 1) + 1]
    BY <1>2, <2>1
  <2>3. (i - 1) + 1 = i /\ (i + 1) - 1 = i
    BY <1>2
  <2>4. calls[i + 1].name = "vtnet1" => calls[(i + 1) - 1].host = calls[i + 1].host
    BY <2>1 DEF CallKinds
  <2>. QED  BY <2>2, <2>3, <2>4
<1>5. ASSUME calls' # << >>, Call'.name = "vtnet1"  PROVE Call'.host = Call.host
  <2>1. n >= 1
    <3>1. n = 0 => calls' = << >>
      BY <1>1, <1>2, CallIs
    <3>. QED  BY <1>5, <3>1
  <2>2. 1 \in 1..n /\ 2 \in 2..Len(calls) /\ calls'[1] = calls[2]
    BY <1>2, <2>1
  <2>3. calls[2].name = "vtnet1" => calls[2 - 1].host = calls[2].host
    BY <2>2 DEF CallKinds
  <2>. QED  BY <1>5, <2>2, <2>3 DEF Call
<1>. QED  BY <1>1, <1>3, <1>4, <1>5 DEF CallKinds, InCall

\* The kinds of interfaces, when none is added.
LEMMA KindsKept ==
    ASSUME TypeOK, TypeOK', RowsGrow, IfaceKinds, Len(ifaces') = Len(ifaces),
           \A n \in DOMAIN subnets' :
              \/ n \in DOMAIN subnets /\ subnets'[n] = subnets[n]
              \/ subnets'[n] \in IfaceIds /\ ~External(subnets'[n])
    PROVE  IfaceKinds'
<1>0. Tables
  BY Shape
<1>1. IfaceIds' = IfaceIds
  <2>1. Tables'
    BY Shape, PTL
  <2>. QED  BY <1>0, <2>1 DEF Tables
<1>2. \A f \in IfaceIds : (External(f)' <=> External(f)) /\ (Physical(f)' <=> Physical(f))
  BY DEF RowsGrow, External, Physical
<1>3. \A f \in IfaceIds : ifaces'[f].name = "vlan" <=> ~Physical(f)'
  BY <1>2 DEF IfaceKinds, RowsGrow
<1>4. ASSUME NEW n \in DOMAIN subnets', subnets'[n] # Nothing
      PROVE  ifaces'[subnets'[n]].name # "vtnet0"
  <2>. PICK f : f = subnets'[n]
    OBVIOUS
  <2>1. f \in IfaceIds /\ ~External(f)
    BY <1>0, <1>4 DEF IfaceKinds, Tables
  <2>. QED  BY <2>1 DEF External, RowsGrow
<1>. QED  BY <1>1, <1>3, <1>4 DEF IfaceKinds, External

-----------------------------------------------------------------------------
\* Routing, one step after the other.

LEMMA RoutingUntouched ==
    ASSUME TypeOK, TypeOK', RowsGrow, RoutedByBastion, RoutedInOrder, UNCHANGED ifaces
    PROVE  RoutedByBastion' /\ RoutedInOrder'
<1>1. \A f \in IfaceIds : RoutedBy(f)' /\ InPosition(f)'
  BY RoutingKept DEF RoutedByBastion, RoutedInOrder
<1>2. IfaceIds' = IfaceIds
  BY DEF IfaceIds
<1>. QED  BY <1>1, <1>2 DEF RoutedByBastion, RoutedInOrder

\* The new interface of a compute host is the next of its internal ones.
LEMMA CreateRouting ==
    ASSUME TypeOK, InCall, CallKinds, IfaceKinds, RoutedByBastion, RoutedInOrder, CreateIface
    PROVE  RoutedByBastion' /\ RoutedInOrder' /\ IfaceKinds'
<1>0. Tables
  BY Shape
<1>. PICK new, h, s : new = Len(ifaces) + 1 /\ h = Call.host /\ s = SiteOf[h]
  OBVIOUS
<1>1. /\ TypeOK' /\ RowsGrow
      /\ Len(ifaces') = Len(ifaces) + 1
      /\ \A f \in IfaceIds : ifaces'[f] = ifaces[f]
      /\ ifaces'[new] = NewRow(NewRouter)
      /\ Routed(Call) => IsRouter(NewRouter, s)
  BY CreateTypes
<1>2. IfaceIds' = IfaceIds \cup {new} /\ new \notin IfaceIds /\ (\A f \in IfaceIds : f < new)
  <2>1. Tables'
    BY <1>1, Shape, PTL
  <2>2. /\ IfaceIds' = 1..(Len(ifaces) + 1) /\ IfaceIds = 1..Len(ifaces) /\ Len(ifaces) \in Nat
        /\ new = Len(ifaces) + 1
    BY <1>0, <1>1, <2>1 DEF Tables
  <2>. QED  BY <2>2
<1>3. /\ ifaces'[new].host = h /\ ifaces'[new].name = Call.name
      /\ ifaces'[new].depl = Call.depl /\ ifaces'[new].routed_by = NewRouter
  BY <1>1 DEF NewRow
<1>4. \A f \in IfaceIds : RoutedBy(f)' /\ InPosition(f)'
  BY <1>1, RoutingKept DEF RoutedByBastion, RoutedInOrder
<1>5. RoutedBy(new)'
  <2>1. CASE Routed(Call)
    <3>1. PICK r : r = NewRouter
      OBVIOUS
    <3>2. IsRouter(r, s)'
      BY <1>1, <2>1, <3>1, RoutersKept
    <3>3. ~is_bastion(h)
      BY <2>1 DEF Routed
    <3>. QED  BY <1>3, <3>1, <3>2, <3>3 DEF RoutedBy, is_bastion
  <2>2. CASE ~Routed(Call)
    BY <1>3, <2>2 DEF RoutedBy, NewRouter
  <2>. QED  BY <2>1, <2>2
<1>6. InPosition(new)'
  <2>. SUFFICES ASSUME InternalPhysical(new)'  PROVE InPosition(new)'
    BY DEF InPosition
  <2>1. Routed(Call)
    BY <1>3 DEF InternalPhysical, External, Physical, Routed, is_bastion
  <2>2. PICK n : n = Cardinality(InternalOf(h))
    OBVIOUS
  <2>3. InternalOf(h) \subseteq IfaceIds /\ n \in Nat
    <3>1. InternalOf(h) \subseteq IfaceIds
      BY DEF InternalOf, IfacesOf
    <3>2. InternalOf(h) \subseteq 1..Len(ifaces) /\ Len(ifaces) \in Nat
      BY <1>0, <3>1 DEF Tables
    <3>. QED  BY <2>2, <3>1, <3>2, FiniteIds, FS_CardinalityType
  <2>4. HasRouter(s, n) /\ NewRouter = Router(s, n)
    BY <2>1, <2>2 DEF CreateIface, NewRouter
  <2>5. HasRouter(s, n)' /\ Router(s, n)' = NewRouter
    BY <1>1, <2>3, <2>4, RoutersKept
  <2>6. InternalOf(h)' = InternalOf(h) \cup {new}
    <3>1. \A f \in IfaceIds : f \in InternalOf(h)' <=> f \in InternalOf(h)
      BY <1>1, <1>2 DEF InternalOf, IfacesOf, External
    <3>2. new \in InternalOf(h)'
      BY <1>2, <1>3 DEF InternalPhysical, InternalOf, IfacesOf
    <3>3. InternalOf(h)' \subseteq IfaceIds'
      BY DEF InternalOf, IfacesOf
    <3>. QED  BY <1>2, <2>3, <3>1, <3>2, <3>3
  <2>7. Index(new)' = n
    <3>1. Before(InternalOf(h) \cup {new}, new) = n
      <4>1. \A y \in InternalOf(h) : y < new
        BY <1>2, <2>3
      <4>2. ~(new < new)
        BY <1>0 DEF Tables
      <4>. QED  BY <2>2, <4>1, <4>2, BeforeEnd
    <3>2. Index(new)' = Before(InternalOf(h)', new)
      BY <1>3 DEF Index
    <3>. QED  BY <2>6, <3>1, <3>2
  <2>8. SiteOf[ifaces[new].host]' = s
    BY <1>3
  <2>. QED  BY <1>3, <2>5, <2>7, <2>8 DEF InPosition
<1>7. IfaceKinds'
  <2>1. \A f \in IfaceIds : ifaces'[f].name = "vlan" <=> ~Physical(f)'
    BY <1>1 DEF IfaceKinds, Physical
  <2>2. ifaces'[new].name = "vlan" <=> ~Physical(new)'
    <3>1. 1 \in DOMAIN calls
      <4>1. calls # << >>
        BY DEF CreateIface, At
      <4>. QED  BY <4>1, CallIs
    <3>2. Call.name = "vlan" <=> Call.depl # Nothing
      BY <3>1 DEF CallKinds, Call
    <3>. QED  BY <1>3, <3>2 DEF Physical
  <2>3. subnets' = subnets
    BY DEF CreateIface
  <2>4. \A n \in DOMAIN subnets : subnets[n] # Nothing => ifaces'[subnets[n]].name # "vtnet0"
    BY <1>0, <1>1 DEF IfaceKinds, External, Tables
  <2>. QED  BY <1>2, <2>1, <2>2, <2>3, <2>4 DEF IfaceKinds, External
<1>. QED  BY <1>2, <1>4, <1>5, <1>6, <1>7 DEF RoutedByBastion, RoutedInOrder

\* What a new interface of the bastion reroutes gets the router of its position.
LEMMA RerouteRouting ==
    ASSUME TypeOK, IfaceKinds, RoutedByBastion, RoutedInOrder, calls # << >>,
           NEW S, S \subseteq ToReroute, Rerouted(S), calls' \in {calls, << >>},
           step' \in {"row", "subnet"}
    PROVE  RoutedByBastion' /\ RoutedInOrder'
<1>0. Tables
  BY Shape
<1>. PICK s : s = SiteOf[Call.host]
  OBVIOUS
<1>1. /\ TypeOK' /\ RowsGrow
      /\ Len(ifaces') = Len(ifaces)
      /\ \A f \in IfaceIds \ S : ifaces'[f] = ifaces[f]
      /\ \A f \in S :
            /\ f \in IfaceIds /\ ~External(f)
            /\ ~is_bastion(ifaces[f].host)
            /\ SiteOf[ifaces[f].host] = s
            /\ Index(f) \in Nat
            /\ HasRouter(s, Index(f))
            /\ ifaces'[f].routed_by = Router(s, Index(f))
  BY RerouteTypes
<1>2. IfaceIds' = IfaceIds
  <2>1. Tables'
    BY <1>1, Shape, PTL
  <2>. QED  BY <1>0, <1>1, <2>1 DEF Tables
<1>3. \A f \in IfaceIds \ S : RoutedBy(f)' /\ InPosition(f)'
  BY <1>1, RoutingKept DEF RoutedByBastion, RoutedInOrder
<1>4. ASSUME NEW f \in S  PROVE RoutedBy(f)' /\ InPosition(f)'
  <2>1. PICK n, r : n = Index(f) /\ r = Router(s, n)
    OBVIOUS
  <2>2. n \in Nat /\ HasRouter(s, n) /\ ifaces'[f].routed_by = r /\ f \in IfaceIds
    BY <1>1, <2>1
  <2>3. ifaces'[f].host = ifaces[f].host /\ ~is_bastion(ifaces[f].host) /\ SiteOf[ifaces[f].host] = s
    BY <1>1, <2>2 DEF RowsGrow
  <2>4. IsRouter(r, s)
    BY <2>1, <2>2, RouterIs
  <2>5. IsRouter(r, s)' /\ HasRouter(s, n)' /\ Router(s, n)' = r
    BY <1>1, <2>1, <2>2, <2>4, RoutersKept
  <2>6. Index(f)' = n
    BY <1>1, <2>1, IndexKept
  <2>7. SiteOf[ifaces[f].host]' = s
    BY <2>3
  <2>8. RoutedBy(f)'
    BY <2>2, <2>3, <2>5 DEF RoutedBy, is_bastion
  <2>9. InPosition(f)'
    BY <2>2, <2>5, <2>6, <2>7 DEF InPosition
  <2>. QED  BY <2>8, <2>9
<1>. QED  BY <1>2, <1>3, <1>4 DEF RoutedByBastion, RoutedInOrder

-----------------------------------------------------------------------------
\* What the dhcpd of a bastion listens on, one step after the other.

LEMMA RouterServed ==
    ASSUME TypeOK, NEW r, NEW s, IsRouter(r, s)
    PROVE  /\ r \in IfaceIds /\ ifaces[r].host \in BastionIn(s)
           /\ Physical(r) => ifaces[r].name \in Served(ifaces[r].host)
<1>1. r \in IfaceIds /\ ~External(r) /\ ifaces[r].host \in HostTable
  BY Shape DEF IsRouter, Tables
<1>2. ifaces[r].host \in BastionIn(s)
  BY <1>1 DEF IsRouter, BastionIn, is_bastion
<1>. QED  BY <1>1, <1>2 DEF Served, InternalOf, PhysicalOf, IfacesOf

LEMMA RouterOfIface ==
    ASSUME TypeOK, IfaceKinds, RoutedInOrder, NEW f \in IfaceIds, InternalPhysical(f)
    PROVE  IsRouter(ifaces[f].routed_by, SiteOf[ifaces[f].host])
<1>1. Index(f) \in Nat
  <2>1. Tables
    BY Shape
  <2>2. InternalOf(ifaces[f].host) \subseteq 1..Len(ifaces) /\ Len(ifaces) \in Nat
    BY <2>1 DEF InternalOf, IfacesOf, Tables
  <2>. QED  BY <2>2, FiniteIds, BeforeType DEF Index
<1>2. /\ HasRouter(SiteOf[ifaces[f].host], Index(f))
      /\ ifaces[f].routed_by = Router(SiteOf[ifaces[f].host], Index(f))
  BY DEF RoutedInOrder, InPosition
<1>. QED  BY <1>1, <1>2, RouterIs

LEMMA ListeningKept ==
    ASSUME TypeOK, TypeOK', RowsGrow, IfaceKinds, RoutedInOrder, Listening,
           Len(ifaces') = Len(ifaces), dhcpd' = dhcpd,
           \A f \in IfaceIds :
              InternalPhysical(f) => ifaces'[f].routed_by = ifaces[f].routed_by,
           calls' # << >> /\ step' = "row" => Call'.name # "vtnet1"
    PROVE  Listening'
<1>1. IfaceIds' = IfaceIds
  <2>1. Tables /\ Tables'
    BY Shape, PTL
  <2>. QED  BY <2>1 DEF Tables
<1>2. ASSUME NEW f \in IfaceIds, InternalPhysical(f)', ifaces'[f].name = "vtnet1",
             NEW r, r = ifaces'[f].routed_by, ifaces'[r].depl = Nothing
      PROVE  ifaces'[r].name \in dhcpd'[ifaces'[r].host]
  <2>1. InternalPhysical(f) /\ ifaces[f].name = "vtnet1"
    BY <1>2 DEF RowsGrow, InternalPhysical, External, Physical, is_bastion
  <2>2. r = ifaces[f].routed_by
    BY <1>2, <2>1
  <2>3. r \in IfaceIds
    BY <2>1, <2>2, RouterOfIface DEF IsRouter
  <2>4. Physical(r)
    BY <1>2, <2>3 DEF RowsGrow, Physical
  <2>5. ifaces[r].name \in dhcpd[ifaces[r].host]
    BY <2>1, <2>2, <2>4 DEF Listening
  <2>. QED  BY <2>3, <2>5 DEF RowsGrow
<1>3. \A f \in IfaceIds' :
          InternalPhysical(f)' /\ ifaces'[f].name = "vtnet1"
             /\ ifaces'[ifaces'[f].routed_by].depl = Nothing =>
                  ifaces'[ifaces'[f].routed_by].name
                     \in dhcpd'[ifaces'[ifaces'[f].routed_by].host]
  BY <1>1, <1>2
<1>. QED  BY <1>3 DEF Listening, Physical

\* The second interface of a host is created when the dhcpd is up to date.
LEMMA CreateListening ==
    ASSUME TypeOK, InCall, CallKinds, IfaceKinds, RoutedByBastion, RoutedInOrder, Listening,
           CreateIface
    PROVE  Listening'
<1>0. Tables
  BY Shape
<1>. PICK new : new = Len(ifaces) + 1
  OBVIOUS
<1>1. /\ TypeOK' /\ RowsGrow
      /\ Len(ifaces') = Len(ifaces) + 1
      /\ \A f \in IfaceIds : ifaces'[f] = ifaces[f]
      /\ ifaces'[new] = NewRow(NewRouter)
      /\ Routed(Call) => IsRouter(NewRouter, SiteOf[Call.host])
  BY CreateTypes
<1>2. \A f \in IfaceIds' : f \in IfaceIds \/ f = new
  <2>1. Tables'
    BY <1>1, Shape, PTL
  <2>2. IfaceIds' = 1..(Len(ifaces) + 1) /\ IfaceIds = 1..Len(ifaces) /\ Len(ifaces) \in Nat
    BY <1>0, <1>1, <2>1 DEF Tables
  <2>. QED  BY <2>2
<1>3. dhcpd' = dhcpd /\ step' = "reroute" /\ At("row")
  BY DEF CreateIface
<1>4. ASSUME NEW f \in IfaceIds', InternalPhysical(f)', ifaces'[f].name = "vtnet1",
             NEW r, r = ifaces'[f].routed_by, ifaces'[r].depl = Nothing
      PROVE  ifaces'[r].name \in dhcpd'[ifaces'[r].host]
  <2>1. CASE f \in IfaceIds
    <3>1. InternalPhysical(f) /\ ifaces[f].name = "vtnet1" /\ r = ifaces[f].routed_by
      BY <1>1, <1>4, <2>1 DEF InternalPhysical, External, Physical, is_bastion
    <3>2. r \in IfaceIds
      BY <2>1, <3>1, RouterOfIface DEF IsRouter
    <3>3. Physical(r)
      BY <1>1, <1>4, <3>2 DEF Physical
    <3>4. ifaces[r].name \in dhcpd[ifaces[r].host]
      BY <2>1, <3>1, <3>3 DEF Listening
    <3>. QED  BY <1>1, <1>3, <3>2, <3>4
  <2>2. CASE f = new
    <3>1. /\ ifaces'[new].host = Call.host /\ ifaces'[new].name = Call.name
          /\ ifaces'[new].depl = Call.depl /\ r = NewRouter
      BY <1>1, <1>4, <2>2 DEF NewRow
    <3>2. Routed(Call) /\ Call.name = "vtnet1"
      BY <1>4, <2>2, <3>1 DEF InternalPhysical, External, Physical, Routed, is_bastion
    <3>3. IsRouter(r, SiteOf[Call.host])
      BY <1>1, <3>1, <3>2
    <3>4. r \in IfaceIds /\ ifaces[r].host \in BastionIn(SiteOf[Call.host])
      BY <3>3, RouterServed
    <3>5. Physical(r)
      BY <1>1, <1>4, <3>4 DEF Physical
    <3>6. ifaces[r].name \in Served(ifaces[r].host)
      BY <3>3, <3>5, RouterServed
    <3>7. Served(ifaces[r].host) \subseteq dhcpd[ifaces[r].host]
      BY <1>3, <3>2, <3>4 DEF Listening, At
    <3>. QED  BY <1>1, <1>3, <3>4, <3>6, <3>7
  <2>. QED  BY <1>2, <2>1, <2>2
<1>. QED  BY <1>3, <1>4 DEF Listening, Physical

\* Every interface brings it up to date.
LEMMA ConfigureListening ==
    ASSUME TypeOK, CallKinds, IfaceKinds, RoutedInOrder, Listening, ConfigureDhcpd
    PROVE  Listening'
<1>. PICK s : s = SiteOf[Call.host]
  OBVIOUS
<1>1. /\ dhcpd' = [b \in Bastions |-> IF b \in BastionIn(s) THEN Served(b) ELSE dhcpd[b]]
      /\ UNCHANGED <<ifaces, hosts>>
  BY DEF ConfigureDhcpd
<1>2. /\ IfaceIds' = IfaceIds
      /\ \A b : Served(b)' = Served(b) /\ BastionIn(b)' = BastionIn(b)
  BY <1>1 DEF IfaceIds, Served, InternalOf, PhysicalOf, IfacesOf, External, Physical,
             BastionIn, HostTable
<1>3. \A b \in BastionIn(s) : dhcpd'[b] = Served(b)
  BY <1>1 DEF BastionIn
<1>4. ASSUME NEW f \in IfaceIds, InternalPhysical(f), ifaces[f].name = "vtnet1",
             NEW r, r = ifaces[f].routed_by, Physical(r)
      PROVE  ifaces[r].name \in dhcpd'[ifaces[r].host]
  <2>1. IsRouter(r, SiteOf[ifaces[f].host])
    BY <1>4, RouterOfIface
  <2>2. ifaces[r].name \in Served(ifaces[r].host) /\ ifaces[r].host \in Bastions
    BY <1>4, <2>1, RouterServed DEF BastionIn
  <2>3. ifaces[r].name \in dhcpd[ifaces[r].host]
    BY <1>4 DEF Listening
  <2>. QED  BY <1>1, <2>2, <2>3
<1>5. \A f \in IfaceIds' :
          InternalPhysical(f)' /\ ifaces'[f].name = "vtnet1"
             /\ Physical(ifaces[f].routed_by)' =>
                  ifaces'[ifaces'[f].routed_by].name
                     \in dhcpd'[ifaces'[ifaces'[f].routed_by].host]
  BY <1>1, <1>2, <1>4 DEF InternalPhysical, External, Physical, is_bastion
<1>6. calls' # << >> /\ Call'.name = "vtnet1" =>
          \A b \in BastionIn(SiteOf[Call.host])' : Served(b)' \subseteq dhcpd'[b]
  <2>. SUFFICES ASSUME calls' # << >>, Call'.name = "vtnet1"
                PROVE  \A b \in BastionIn(SiteOf[Call.host])' : Served(b)' \subseteq dhcpd'[b]
    OBVIOUS
  <2>1. Call'.host = Call.host
    BY CallsGoOn
  <2>2. BastionIn(SiteOf[Call.host])' = BastionIn(s)
    BY <1>1, <2>1 DEF BastionIn, HostTable
  <2>. QED  BY <1>2, <1>3, <2>2
<1>. QED  BY <1>5, <1>6 DEF Listening

-----------------------------------------------------------------------------
\* The layout stays what it is to be.

LEMMA SameClients ==
    ASSUME TypeOK, TypeOK', RowsGrow, ClientsInOrder, UNCHANGED caps
    PROVE  ClientsInOrder'
<1>1. \A h : Dhclients(h)' = Dhclients(h)
  BY DEF Dhclients
<1>. QED  BY <1>1, ClientsKept

LEMMA BeginInductive ==
    ASSUME NetworkInv,
           \/ add_site
           \/ add_deployment
           \/ \E h \in HostNames : add_host(h)
           \/ \E h \in HostNames, name \in ExtraIfaces : add_iface(h, name)
    PROVE  NetworkInv'
<1>. USE DEF NetworkInv
<1>1. TypeOK' /\ RowsGrow /\ UNCHANGED <<ifaces, subnets, caps, dhcpd>>
  BY BeginTypes
<1>2. CallKinds' /\ InCall' /\ (calls' # << >> => Call'.name # "vtnet1")
  BY BeginCalls
<1>3. IfaceKinds'
  BY <1>1 DEF IfaceKinds, IfaceIds, Physical, External
<1>4. RoutedByBastion' /\ RoutedInOrder'
  BY <1>1, RoutingUntouched
<1>5. Listening'
  <2>1. \A f \in IfaceIds : ifaces'[f].routed_by = ifaces[f].routed_by
    BY <1>1
  <2>. QED  BY <1>1, <1>2, <2>1, ListeningKept
<1>6. ClientsInOrder'
  BY <1>1, SameClients
<1>. QED  BY <1>1, <1>2, <1>3, <1>4, <1>5, <1>6

LEMMA CreateInductive ==
    ASSUME NetworkInv, CreateIface
    PROVE  NetworkInv'
<1>. USE DEF NetworkInv
<1>0. Tables
  BY Shape
<1>1. /\ TypeOK' /\ RowsGrow
      /\ Len(ifaces') = Len(ifaces) + 1
      /\ ifaces'[Len(ifaces) + 1] = NewRow(NewRouter)
  BY CreateTypes
<1>2. calls' = calls /\ calls # << >> /\ caps' = caps
  BY DEF CreateIface, At
<1>3. CallKinds'
  BY <1>2 DEF CallKinds
<1>4. InCall'
  BY <1>0, <1>1, <1>2 DEF InCall, Iface, Call, NewRow, Tables
<1>5. IfaceKinds' /\ RoutedByBastion' /\ RoutedInOrder'
  BY CreateRouting
<1>6. Listening'
  BY CreateListening
<1>7. ClientsInOrder'
  BY <1>1, <1>2, SameClients
<1>. QED  BY <1>1, <1>3, <1>4, <1>5, <1>6, <1>7

LEMMA RerouteInductive ==
    ASSUME NetworkInv, At("reroute"), NEW S, S \subseteq ToReroute, Rerouted(S),
           \/ calls' = calls /\ step' = "subnet"
           \/ calls' = << >> /\ step' = "row"
    PROVE  NetworkInv'
<1>. USE DEF NetworkInv
<1>0. Tables
  BY Shape
<1>1. calls # << >> /\ step # "row" /\ calls' \in {calls, << >>} /\ step' \in {"row", "subnet"}
  BY DEF At
<1>2. /\ TypeOK' /\ RowsGrow
      /\ Len(ifaces') = Len(ifaces)
      /\ \A f \in IfaceIds \ S : ifaces'[f] = ifaces[f]
      /\ \A f \in S :
            /\ f \in IfaceIds
            /\ SiteOf[ifaces[f].host] = SiteOf[Call.host]
            /\ ifaces'[f].routed_by = Router(SiteOf[Call.host], Index(f))
  BY <1>1, RerouteTypes
<1>3. UNCHANGED <<subnets, caps, dhcpd>>
  BY DEF Rerouted
<1>4. CallKinds' /\ InCall'
  BY <1>1, <1>2, CallsKept
<1>5. IfaceKinds'
  BY <1>2, <1>3, KindsKept
<1>6. RoutedByBastion' /\ RoutedInOrder'
  BY <1>1, RerouteRouting
<1>7. Listening'
  <2>1. ASSUME NEW f \in IfaceIds, InternalPhysical(f)
        PROVE  ifaces'[f].routed_by = ifaces[f].routed_by
    <3>1. CASE f \in S
      BY <1>2, <2>1, <3>1 DEF RoutedInOrder, InPosition
    <3>2. CASE f \notin S
      BY <1>2, <3>2
    <3>. QED  BY <3>1, <3>2
  <2>2. calls' # << >> /\ step' = "row" => Call'.name # "vtnet1"
    OBVIOUS
  <2>. QED  BY <1>2, <1>3, <2>1, <2>2, ListeningKept
<1>8. ClientsInOrder'
  BY <1>2, <1>3, SameClients
<1>. QED  BY <1>2, <1>4, <1>5, <1>6, <1>7, <1>8

LEMMA AssignInductive ==
    ASSUME NetworkInv, AssignSubnet
    PROVE  NetworkInv'
<1>. USE DEF NetworkInv
<1>0. Tables
  BY Shape
<1>1. /\ TypeOK' /\ RowsGrow
      /\ UNCHANGED <<ifaces, hosts>>
      /\ \A n \in DOMAIN subnets' :
            \/ n \in DOMAIN subnets /\ subnets'[n] = subnets[n]
            \/ subnets'[n] = Iface /\ (NewInternal \/ ~Physical(Iface))
  BY AssignTypes
<1>2. /\ calls' = calls /\ calls # << >> /\ step # "row" /\ step' = "dhclient"
      /\ caps' = caps /\ dhcpd' = dhcpd
  BY DEF AssignSubnet, At
<1>3. CallKinds' /\ InCall'
  BY <1>1, <1>2, CallsKept
<1>4. IfaceKinds'
  <2>1. Iface \in IfaceIds
    BY <1>0, <1>2 DEF InCall, Iface, Tables
  <2>2. NewInternal \/ ~Physical(Iface) => ~External(Iface)
    BY <2>1 DEF NewInternal, IfaceKinds, External
  <2>3. \A n \in DOMAIN subnets' :
           \/ n \in DOMAIN subnets /\ subnets'[n] = subnets[n]
           \/ subnets'[n] \in IfaceIds /\ ~External(subnets'[n])
    BY <1>1, <2>1, <2>2
  <2>. QED  BY <1>1, <2>3, KindsKept
<1>5. RoutedByBastion' /\ RoutedInOrder'
  BY <1>1, RoutingUntouched
<1>6. Listening'
  <2>1. \A f \in IfaceIds : ifaces'[f].routed_by = ifaces[f].routed_by
    BY <1>1
  <2>. QED  BY <1>1, <1>2, <2>1, ListeningKept
<1>7. ClientsInOrder'
  BY <1>1, <1>2, SameClients
<1>. QED  BY <1>1, <1>3, <1>4, <1>5, <1>6, <1>7

LEMMA DhclientInductive ==
    ASSUME NetworkInv, At("dhclient"),
           NEW upto \in Nat, upto <= Wanted(Call.host), DhclientRows(upto),
           \/ calls' = calls /\ step' = "dhcpd"
           \/ calls' = << >> /\ step' = "row"
    PROVE  NetworkInv'
<1>. USE DEF NetworkInv
<1>1. calls # << >> /\ step # "row" /\ calls' \in {calls, << >>} /\ step' \in {"row", "dhcpd"}
  BY DEF At
<1>2. TypeOK' /\ RowsGrow /\ ClientsInOrder' /\ UNCHANGED <<ifaces, hosts, subnets, dhcpd>>
  BY <1>1, DhclientTypes
<1>3. CallKinds' /\ InCall'
  BY <1>1, <1>2, CallsKept
<1>4. IfaceKinds'
  BY <1>2, KindsKept
<1>5. RoutedByBastion' /\ RoutedInOrder'
  BY <1>2, RoutingUntouched
<1>6. Listening'
  <2>1. \A f \in IfaceIds : ifaces'[f].routed_by = ifaces[f].routed_by
    BY <1>2
  <2>. QED  BY <1>1, <1>2, <2>1, ListeningKept
<1>. QED  BY <1>2, <1>3, <1>4, <1>5, <1>6

LEMMA ConfigureInductive ==
    ASSUME NetworkInv, ConfigureDhcpd
    PROVE  NetworkInv'
<1>. USE DEF NetworkInv
<1>1. TypeOK' /\ RowsGrow /\ UNCHANGED <<ifaces, hosts, subnets, caps>>
  BY ConfigureTypes
<1>2. CallKinds' /\ InCall'
  BY CallsGoOn
<1>3. IfaceKinds'
  BY <1>1, KindsKept
<1>4. RoutedByBastion' /\ RoutedInOrder'
  BY <1>1, RoutingUntouched
<1>5. Listening'
  BY ConfigureListening
<1>6. ClientsInOrder'
  BY <1>1, SameClients
<1>. QED  BY <1>1, <1>2, <1>3, <1>4, <1>5, <1>6

LEMMA StopInductive ==
    ASSUME NetworkInv, Stop
    PROVE  NetworkInv'
<1>. USE DEF NetworkInv
<1>1. TypeOK' /\ RowsGrow
  BY StopTypes
<1>2. UNCHANGED <<ifaces, hosts, subnets, caps, dhcpd>> /\ calls' = << >> /\ step' = "row"
  BY DEF Stop, rows
<1>3. CallKinds' /\ InCall'
  BY <1>1, <1>2, CallsKept
<1>4. IfaceKinds'
  BY <1>1, <1>2, KindsKept
<1>5. RoutedByBastion' /\ RoutedInOrder'
  BY <1>1, <1>2, RoutingUntouched
<1>6. Listening'
  <2>1. \A f \in IfaceIds : ifaces'[f].routed_by = ifaces[f].routed_by
    BY <1>2
  <2>. QED  BY <1>1, <1>2, <2>1, ListeningKept
<1>7. ClientsInOrder'
  BY <1>1, <1>2, SameClients
<1>. QED  BY <1>1, <1>3, <1>4, <1>5, <1>6, <1>7

LEMMA CallInductive ==
    ASSUME NetworkInv, CallStep
    PROVE  NetworkInv'
<1>1. CASE CreateIface
  BY <1>1, CreateInductive
<1>2. CASE Reroute
  <2>1. ToReroute \subseteq ToReroute /\ Rerouted(ToReroute) /\ At("reroute")
    BY <1>2 DEF Reroute
  <2>2. calls' = calls /\ step' = "subnet"
    BY <1>2 DEF Reroute
  <2>. QED  BY <2>1, <2>2, RerouteInductive
<1>3. CASE RerouteStops
  <2>1. At("reroute") /\ calls' = << >> /\ step' = "row"
    BY <1>3 DEF RerouteStops
  <2>2. PICK g \in ToReroute : Rerouted({f \in ToReroute : Precedes(f, g)})
    BY <1>3 DEF RerouteStops
  <2>. PICK S : S = {f \in ToReroute : Precedes(f, g)}
    OBVIOUS
  <2>3. S \subseteq ToReroute /\ Rerouted(S)
    BY <2>2
  <2>. QED  BY <2>1, <2>3, RerouteInductive
<1>4. CASE AssignSubnet
  BY <1>4, AssignInductive
<1>5. Wanted(Call.host) \in Nat
  <2>1. TypeOK
    BY DEF NetworkInv
  <2>. QED  BY <2>1, ClientSets DEF Wanted
<1>6. CASE CreateDhclients
  <2>1. DhclientRows(Wanted(Call.host)) /\ At("dhclient") /\ calls' = calls /\ step' = "dhcpd"
    BY <1>6 DEF CreateDhclients
  <2>2. Wanted(Call.host) <= Wanted(Call.host)
    BY <1>5
  <2>. QED  BY <1>5, <2>1, <2>2, DhclientInductive
<1>7. CASE CreateDhclientsStops
  <2>1. PICK upto \in 1..(Wanted(Call.host) - 1) : DhclientRows(upto)
    BY <1>7 DEF CreateDhclientsStops
  <2>2. At("dhclient") /\ calls' = << >> /\ step' = "row"
    BY <1>7 DEF CreateDhclientsStops
  <2>3. upto \in Nat /\ upto <= Wanted(Call.host)
    BY <1>5, <2>1
  <2>. QED  BY <2>1, <2>2, <2>3, DhclientInductive
<1>8. CASE ConfigureDhcpd
  BY <1>8, ConfigureInductive
<1>9. CASE Stop
  BY <1>9, StopInductive
<1>. QED  BY <1>1, <1>2, <1>3, <1>4, <1>6, <1>7, <1>8, <1>9 DEF CallStep

LEMMA StutterInductive ==
    ASSUME NetworkInv, UNCHANGED vars
    PROVE  NetworkInv'
<1>1. TypeOK
  BY DEF NetworkInv
<1>2. UNCHANGED <<sites, hosts, deployments, ifaces, subnets, caps, dhcpd, calls, step>>
  BY DEF vars, rows
<1>3. TypeOK'
  BY <1>1, <1>2 DEF TypeOK, IfaceIds, HostTable
<1>4. RowsGrow
  BY <1>1, <1>2, Shape DEF RowsGrow, Tables, HostTable
<1>5. CallKinds' /\ InCall' /\ IfaceKinds'
  BY <1>2 DEF NetworkInv, CallKinds, InCall, Iface, Call, IfaceKinds, IfaceIds,
             Physical, External
<1>6. RoutedByBastion' /\ RoutedInOrder'
  BY <1>1, <1>2, <1>3, <1>4, RoutingUntouched DEF NetworkInv
<1>7. Listening'
  BY <1>2 DEF NetworkInv, Listening, InternalPhysical, IfaceIds, Physical, External, is_bastion,
             Call, BastionIn, HostTable, Served, InternalOf, PhysicalOf, IfacesOf
<1>8. ClientsInOrder'
  BY <1>1, <1>2, <1>3, <1>4, SameClients DEF NetworkInv
<1>. QED  BY <1>3, <1>5, <1>6, <1>7, <1>8 DEF NetworkInv

\* Every step of the layout keeps what it rests on.
THEOREM LayoutInductive == NetworkInv /\ [Next]_vars => NetworkInv'
<1>. SUFFICES ASSUME NetworkInv, [Next]_vars  PROVE NetworkInv'
  OBVIOUS
<1>1. CASE add_site
  BY <1>1, BeginInductive
<1>2. CASE add_deployment
  BY <1>2, BeginInductive
<1>3. ASSUME NEW h \in HostNames, add_host(h)  PROVE NetworkInv'
  BY <1>3, BeginInductive
<1>4. ASSUME NEW h \in HostNames, NEW name \in ExtraIfaces, add_iface(h, name)
      PROVE  NetworkInv'
  BY <1>4, BeginInductive
<1>5. CASE CallStep
  BY <1>5, CallInductive
<1>6. CASE UNCHANGED vars
  BY <1>6, StutterInductive
<1>. QED  BY <1>1, <1>2, <1>3, <1>4, <1>5, <1>6 DEF Next

\* Type correctness of the layout (the rows that add_site, add_host, add_iface
\* and add_deployment write): in particular no row refers to one that does not
\* exist, wherever the calls that write them row by row have stopped.
THEOREM NetworkTypes == Spec => []TypeOK
<1>1. NetworkInv => TypeOK
  BY DEF NetworkInv
<1>. QED  BY <1>1, InitTypes, LayoutInductive, PTL DEF Spec

-----------------------------------------------------------------------------
\* Addresses.

\* A subnet is created for one interface.
LEMMA SubnetOwner ==
    ASSUME TypeOK, NEW f
    PROVE  /\ OwnSubnet(f) # Nothing =>
                 OwnSubnet(f) \in DOMAIN subnets /\ subnets[OwnSubnet(f)] = f
           /\ (\E n \in DOMAIN subnets : subnets[n] = f) => OwnSubnet(f) # Nothing
<1>0. Tables
  BY Shape
<1>. DEFINE own == {n \in DOMAIN subnets : subnets[n] = f}
<1>1. own \subseteq 1..Len(subnets) /\ Len(subnets) \in Nat
  BY <1>0 DEF Tables
<1>2. ASSUME own # {}
      PROVE  OwnSubnet(f) \in own
  <2>1. IsFiniteSet(own) /\ own \subseteq Nat
    <3>. HIDE DEF own
    <3>. QED  BY <1>1, FiniteIds
  <2>2. Cardinality(own) \in Nat /\ Cardinality(own) # 0
    <3>. HIDE DEF own
    <3>. QED  BY <1>2, <2>1, FS_CardinalityType, FS_EmptySet
  <2>3. Cardinality(own) - 1 \in Nat /\ Cardinality(own) - 1 < Cardinality(own)
    BY <2>2
  <2>4. Nth(own, Cardinality(own) - 1) \in own
    <3>. HIDE DEF own
    <3>. QED  BY <2>1, <2>3, NthIn
  <2>. QED  BY <1>2, <2>4 DEF OwnSubnet
<1>3. 0 \notin own
  BY <1>1
<1>4. own = {} => OwnSubnet(f) = Nothing
  BY DEF OwnSubnet
<1>. QED  BY <1>2, <1>3, <1>4 DEF Nothing

\* What an interface of a compute host is given: an offset in the subnet of its
\* router.
Connected(r) == {g \in IfaceIds : ifaces[g].routed_by = r}

LEMMA ConnectedAddress ==
    ASSUME NetworkInv, NEW f \in IfaceIds, InternalPhysical(f),
           NEW r, r = ifaces[f].routed_by
    PROVE  /\ ip4(f) = <<OwnSubnet(r), Before(Connected(r), f) + 2>>
           /\ OwnSubnet(r) # Nothing
           /\ f \in Connected(r) /\ Connected(r) \subseteq Nat /\ IsFiniteSet(Connected(r))
           /\ Before(Connected(r), f) \in Nat
<1>0. Tables /\ TypeOK
  BY Shape DEF NetworkInv
<1>. PICK s : s = SiteOf[ifaces[f].host]
  OBVIOUS
<1>1. IsRouter(r, s)
  BY <1>0, RouterOfIface DEF NetworkInv
<1>2. r \in IfaceIds /\ ifaces[r].host \in BastionIn(s) /\ ~External(r)
  BY <1>0, <1>1, RouterServed DEF IsRouter
<1>3. r # Nothing /\ ifaces[r].routed_by = Nothing
  <2>1. r # Nothing
    BY <1>0, <1>2 DEF Tables, Nothing
  <2>2. RoutedBy(r)
    BY <1>2 DEF NetworkInv, RoutedByBastion
  <2>. QED  BY <1>2, <2>1, <2>2 DEF RoutedBy, BastionIn, is_bastion
<1>4. routingstyle(r) = "STATIC"
  <2>1. SiteOf[ifaces[r].host] = s /\ is_bastion(ifaces[r].host)
    BY <1>2 DEF BastionIn, is_bastion
  <2>2. BastionIn(SiteOf[ifaces[r].host]) # {}
    BY <1>2, <2>1
  <2>. QED  BY <1>2, <2>1, <2>2 DEF routingstyle
<1>5. routed_subnet(r) = OwnSubnet(r)
  BY <1>3, <1>4 DEF routed_subnet
<1>6. OwnSubnet(r) # Nothing
  BY <1>0, <1>1, SubnetOwner DEF IsRouter
<1>7. routingstyle(f) = "DHCP" /\ ~External(f)
  BY <1>2 DEF InternalPhysical, routingstyle
<1>8. f \in Connected(r)
  BY DEF Connected
<1>9. Connected(r) \subseteq Nat /\ IsFiniteSet(Connected(r))
  <2>1. Connected(r) \subseteq 1..Len(ifaces) /\ Len(ifaces) \in Nat
    BY <1>0 DEF Connected, Tables
  <2>. QED  BY <2>1, FiniteIds
<1>10. connected_ifaces(r) =
           <<OwnSubnet(r), [g \in Connected(r) |-> Before(Connected(r), g) + 2]>>
  BY <1>5 DEF connected_ifaces, Connected
<1>11. ip4(f) = <<connected_ifaces(r)[1], connected_ifaces(r)[2][f]>>
  BY <1>3, <1>7 DEF ip4
<1>12. ip4(f) = <<OwnSubnet(r), Before(Connected(r), f) + 2>>
  BY <1>8, <1>10, <1>11
<1>. QED  BY <1>6, <1>8, <1>9, <1>12, BeforeType

\* What any other is given that has not been rerouted: the first address of a
\* subnet of its own, or none.
LEMMA OwnAddress ==
    ASSUME NetworkInv, NEW f \in IfaceIds, ~InternalPhysical(f), ~ReroutedVlan(f)
    PROVE  \/ ip4(f) = NoAddress
           \/ OwnSubnet(f) # Nothing /\ ip4(f) = <<OwnSubnet(f), 1>>
<1>1. CASE External(f)
  BY <1>1 DEF ip4
<1>2. CASE ~External(f)
  <2>1. ifaces[f].routed_by = Nothing
    <3>1. CASE is_bastion(ifaces[f].host)
      BY <3>1 DEF NetworkInv, RoutedByBastion, RoutedBy
    <3>2. CASE ~is_bastion(ifaces[f].host)
      BY <1>2, <3>2 DEF InternalPhysical, ReroutedVlan
    <3>. QED  BY <3>1, <3>2
  <2>2. CASE routingstyle(f) = "STATIC"
    <3>1. routed_subnet(f) = OwnSubnet(f)
      BY <2>1, <2>2 DEF routed_subnet
    <3>. QED  BY <1>2, <2>2, <3>1 DEF ip4
  <2>3. CASE routingstyle(f) # "STATIC"
    BY <1>2, <2>1, <2>3 DEF ip4
  <2>. QED  BY <2>2, <2>3
<1>. QED  BY <1>1, <1>2

LEMMA SamePair ==
    ASSUME NEW a, NEW b, NEW c, NEW d, <<a, b>> = <<c, d>>
    PROVE  a = c /\ b = d
OBVIOUS

\* No two interfaces of a domain (OAG_NetIface.ip4) are given the same address,
\* whatever was added in whatever order and wherever a call stopped, as long as
\* their VLAN has not been rerouted.
THEOREM AddressesAreDistinct == Spec => []IfaceAddressesDistinct
<1>1. ASSUME NetworkInv  PROVE IfaceAddressesDistinct
  <2>. DEFINE Kept == {f \in IfaceIds : ~ReroutedVlan(f)}
  <2>0. TypeOK /\ Tables
    BY <1>1, Shape DEF NetworkInv
  <2>1. ASSUME NEW f \in Kept, NEW g \in Kept, ip4(f) = ip4(g), ip4(f) # NoAddress
        PROVE  f = g
    <3>1. CASE InternalPhysical(f) /\ InternalPhysical(g)
      <4>1. PICK q, r : q = ifaces[f].routed_by /\ r = ifaces[g].routed_by
        OBVIOUS
      <4>2. /\ ip4(f) = <<OwnSubnet(q), Before(Connected(q), f) + 2>>
            /\ OwnSubnet(q) # Nothing /\ Before(Connected(q), f) \in Nat
            /\ f \in Connected(q) /\ Connected(q) \subseteq Nat /\ IsFiniteSet(Connected(q))
        BY <1>1, <3>1, <4>1, ConnectedAddress
      <4>3. /\ ip4(g) = <<OwnSubnet(r), Before(Connected(r), g) + 2>>
            /\ Before(Connected(r), g) \in Nat /\ g \in Connected(r)
        BY <1>1, <3>1, <4>1, ConnectedAddress
      <4>4. /\ OwnSubnet(q) = OwnSubnet(r)
            /\ Before(Connected(q), f) + 2 = Before(Connected(r), g) + 2
        <5>1. <<OwnSubnet(q), Before(Connected(q), f) + 2>>
                 = <<OwnSubnet(r), Before(Connected(r), g) + 2>>
          BY <2>1, <4>2, <4>3
        <5>. QED  BY <5>1, SamePair
      <4>5. subnets[OwnSubnet(q)] = q /\ subnets[OwnSubnet(r)] = r
        BY <2>0, <4>2, <4>4, SubnetOwner
      <4>6. q = r
        BY <4>4, <4>5
      <4>8. Before(Connected(q), f) = Before(Connected(q), g)
        BY <4>2, <4>3, <4>4, <4>6
      <4>. QED  BY <4>2, <4>3, <4>6, <4>8, BeforeInjective
    <3>2. CASE ~InternalPhysical(f) /\ ~InternalPhysical(g)
      <4>1. OwnSubnet(f) # Nothing /\ ip4(f) = <<OwnSubnet(f), 1>>
        BY <1>1, <2>1, <3>2, OwnAddress
      <4>2. OwnSubnet(g) # Nothing /\ ip4(g) = <<OwnSubnet(g), 1>>
        BY <1>1, <2>1, <3>2, OwnAddress
      <4>3. OwnSubnet(f) = OwnSubnet(g)
        <5>1. <<OwnSubnet(f), 1>> = <<OwnSubnet(g), 1>>
          BY <2>1, <4>1, <4>2
        <5>. QED  BY <5>1, SamePair
      <4>4. subnets[OwnSubnet(f)] = f /\ subnets[OwnSubnet(g)] = g
        BY <2>0, <4>1, <4>2, SubnetOwner
      <4>. QED  BY <4>3, <4>4
    <3>3. ASSUME NEW x \in Kept, NEW y \in Kept, InternalPhysical(x), ~InternalPhysical(y),
                 ip4(x) = ip4(y), ip4(x) # NoAddress
          PROVE  FALSE
      <4>1. PICK r : r = ifaces[x].routed_by
        OBVIOUS
      <4>2. /\ ip4(x) = <<OwnSubnet(r), Before(Connected(r), x) + 2>>
            /\ Before(Connected(r), x) \in Nat
        BY <1>1, <3>3, <4>1, ConnectedAddress
      <4>3. ip4(y) = <<OwnSubnet(y), 1>>
        BY <1>1, <3>3, OwnAddress
      <4>4. Before(Connected(r), x) + 2 = 1
        <5>1. <<OwnSubnet(r), Before(Connected(r), x) + 2>> = <<OwnSubnet(y), 1>>
          BY <3>3, <4>2, <4>3
        <5>. QED  BY <5>1, SamePair
      <4>. QED  BY <4>2, <4>4
    <3>. QED  BY <2>1, <3>1, <3>2, <3>3
  <2>2. ASSUME NEW address, address = [f \in Kept |-> ip4(f)],
               NEW f \in DOMAIN address, NEW g \in DOMAIN address, address[f] = address[g]
        PROVE  f = g \/ address[f] = NoAddress
    <3>1. f \in Kept /\ g \in Kept /\ address[f] = ip4(f) /\ address[g] = ip4(g)
      BY <2>2
    <3>. QED  BY <2>1, <2>2, <3>1
  <2>. QED  BY <2>2 DEF IfaceAddressesDistinct
<1>. QED  BY <1>1, InitTypes, LayoutInductive, PTL DEF Spec

\* An internal interface of a compute host has an address from the bastion of
\* its own site as soon as it is there (OAG_Host.add_iface), and the one that
\* came with the host has it from an interface that the dhcpd there listens on.
THEOREM AlwaysServed == Spec => []ServedByBastion
<1>1. ASSUME NetworkInv  PROVE ServedByBastion
  <2>0. TypeOK
    BY <1>1 DEF NetworkInv
  <2>. SUFFICES ASSUME NEW f \in IfaceIds, Physical(f), ~External(f), ~is_bastion(ifaces[f].host),
                       NEW r, r = ifaces[f].routed_by
                PROVE  /\ ip4(f) # NoAddress
                       /\ ifaces[r].host \in BastionIn(SiteOf[ifaces[f].host])
                       /\ Physical(r) /\ ifaces[f].name = "vtnet1" =>
                             ifaces[r].name \in dhcpd[ifaces[r].host]
    BY DEF ServedByBastion
  <2>1. InternalPhysical(f)
    BY DEF InternalPhysical
  <2>2. ip4(f) = <<OwnSubnet(r), Before(Connected(r), f) + 2>> /\ OwnSubnet(r) # Nothing
    BY <1>1, <2>1, ConnectedAddress
  <2>3. ip4(f) # NoAddress
    BY <2>2 DEF NoAddress
  <2>4. IsRouter(r, SiteOf[ifaces[f].host])
    BY <1>1, <2>0, <2>1, RouterOfIface DEF NetworkInv
  <2>5. ifaces[r].host \in BastionIn(SiteOf[ifaces[f].host])
    BY <2>0, <2>4, RouterServed
  <2>6. Physical(r) /\ ifaces[f].name = "vtnet1" => ifaces[r].name \in dhcpd[ifaces[r].host]
    BY <1>1, <2>1 DEF NetworkInv, Listening
  <2>. QED  BY <2>3, <2>5, <2>6
<1>. QED  BY <1>1, InitTypes, LayoutInductive, PTL DEF Spec

\* However often the DHCP clients of a host are gone through (add_iface, 3.), and
\* wherever that stopped, no interface has two.
THEOREM OneDhclientEach == Spec => []DhclientPerIface
<1>1. ASSUME NetworkInv  PROVE DhclientPerIface
  <2>0. TypeOK /\ Tables
    BY <1>1, Shape DEF NetworkInv
  <2>. SUFFICES ASSUME NEW h \in HostTable, NEW i \in Dhclients(h), NEW j \in Dhclients(h),
                       caps[i].iface = caps[j].iface
                PROVE  i = j
    BY DEF DhclientPerIface
  <2>1. /\ IsFiniteSet(PhysicalOf(h)) /\ PhysicalOf(h) \subseteq Nat
        /\ Cardinality(PhysicalOf(h)) \in Nat
        /\ IsFiniteSet(Dhclients(h)) /\ Dhclients(h) \subseteq Nat
        /\ Cardinality(Dhclients(h)) \in Nat
    BY <2>0, ClientSets
  <2>2. /\ Cardinality(Dhclients(h)) <= Cardinality(PhysicalOf(h))
        /\ \A k \in Dhclients(h) :
              caps[k].iface = Nth(PhysicalOf(h), Before(Dhclients(h), k))
    BY <1>1, <2>0 DEF NetworkInv, ClientsInOrder, Tables
  <2>3. ASSUME NEW k \in Dhclients(h)
        PROVE  Before(PhysicalOf(h), caps[k].iface) = Before(Dhclients(h), k)
    <3>1. Before(Dhclients(h), k) \in Nat /\ Before(Dhclients(h), k) < Cardinality(Dhclients(h))
      BY <2>1, BeforeType, BeforeLess
    <3>2. Before(Dhclients(h), k) < Cardinality(PhysicalOf(h))
      BY <2>1, <2>2, <3>1
    <3>. QED  BY <2>1, <2>2, <3>1, <3>2, NthIn
  <2>4. Before(Dhclients(h), i) = Before(Dhclients(h), j)
    BY <2>3
  <2>. QED  BY <2>1, <2>4, BeforeInjective
<1>. QED  BY <1>1, InitTypes, LayoutInductive, PTL DEF Spec
=============================================================================
