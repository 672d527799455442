----------------------------- MODULE SubnetPool -----------------------------
(* OAG_Domain.assign_subnet (src/frieze/_core.py): every subnet a domain     *)
(* uses is cut out of two private roots, 172.16.0.0/12 for the sites and     *)
(* 10.<seqnum>.0.0/16 for each deployment, by first fit over the aligned     *)
(* blocks that do not overlap the rows of the same type already stored.      *)
(*                                                                           *)
(* Abstraction: an address is an offset from the base of its root, so a      *)
(* stored network is the pair (root, first); labels, router and routing      *)
(* interface of the row are left out.                                        *)
EXTENDS Integers, Sequences, FiniteSets

CONSTANTS
    Requests,            \* the (type, hosts_expected, dynamic_hosts) callers ask for
    Seqnums,             \* deployment sequence numbers in use
    SharedPrefixLen,     \* prefix length of the ROUTING/SITE root; 12 in the code
    DeploymentPrefixLen, \* prefix length of a deployment's root; 16 in the code
    MaxSubnets           \* bound on the rows stored

SubnetType == {"ROUTING", "SITE", "DEPLOYMENT"}
RootTypes  == {"ROUTING", "SITE"}     \* the types cut from 172.16.0.0/12

ASSUME RequestsAssumption ==
    Requests \subseteq [type : SubnetType, hosts : Nat, dynamic : Nat]
ASSUME SeqnumsAssumption == Seqnums \subseteq Nat
ASSUME PrefixAssumption ==
    SharedPrefixLen \in 8..32 /\ DeploymentPrefixLen \in 8..32
\* No caller in src/ passes ROUTING: one type is ever cut from the shared root.
ASSUME OneSharedType ==
    \A q, r \in Requests : {q.type, r.type} \subseteq RootTypes => q.type = r.type

VARIABLES
    subnets,   \* the OAG_Subnet rows of the domain, in creation order
    outcome    \* what the last call returned or raised

vars == <<subnets, outcome>>
-----------------------------------------------------------------------------
Shared == -1     \* the root 172.16.0.0; a deployment's root is its seqnum

\* Number of addresses of a /prefixlen network.
Size(prefixlen) == 2 ^ (32 - prefixlen)

UsableHosts(prefixlen) == Size(prefixlen) - 2

\* A mutant: the network and broadcast addresses are not set aside.
hosts_to_prefix_NoReserve(hosts) ==
    7 + Cardinality({p \in 8..31 : hosts <= Size(p)})

\* The loop starts at 8, counts one prefix for each that still has room for the
\* hosts (longer prefixes have less) and steps back from the first that has not.
hosts_to_prefix(hosts) ==
    7 + Cardinality({p \in 8..31 : hosts <= UsableHosts(p)})

RootOf(type, seqnum) == IF type \in RootTypes THEN Shared ELSE seqnum
RootPrefixLen(type)  == IF type \in RootTypes THEN SharedPrefixLen
                                              ELSE DeploymentPrefixLen

\* IPv4Network.network_address and broadcast_address, as offsets in the root.
First(s) == s.first
Last(s)  == s.first + Size(s.prefixlen) - 1

Contains(s, addr) == First(s) <= addr /\ addr <= Last(s)

\* A mutant: a candidate strictly inside a stored subnet goes unnoticed.
Overlaps_LargerOnly(s, t) ==
    /\ s.root = t.root
    /\ Contains(s, First(t)) \/ Contains(s, Last(t))

\* IPv4Network.overlaps, the four tests of the standard library.
Overlaps(s, t) ==
    /\ s.root = t.root
    /\ \/ Contains(s, First(t)) \/ Contains(s, Last(t))
       \/ Contains(t, First(s)) \/ Contains(t, Last(s))

Candidate(r, seqnum, k) ==
    LET p == hosts_to_prefix(r.hosts)
    IN  [type      |-> r.type,
         root      |-> RootOf(r.type, seqnum),
         first     |-> k * Size(p),
         prefixlen |-> p,
         dynamic   |-> r.dynamic]

\* A mutant: the range of blocks includes the one after the root.
LastCandidate_OneTooMany(r) ==
    Size(RootPrefixLen(r.type)) \div Size(hosts_to_prefix(r.hosts))

LastCandidate(r) ==
    Size(RootPrefixLen(r.type)) \div Size(hosts_to_prefix(r.hosts)) - 1

\* root_subnet.subnets(prefixlen_diff): the aligned blocks of the root.
CandidateIndices(r) == 0..LastCandidate(r)

\* The rows the filter on type keeps.
existing_subnets(type) == {i \in DOMAIN subnets : subnets[i].type = type}

\* A mutant: only blocks above the stored ones are tried, holes are lost.
IsFree_AboveOnly(r, seqnum, k) ==
    \A i \in existing_subnets(r.type) :
        subnets[i].root = RootOf(r.type, seqnum) =>
            First(Candidate(r, seqnum, k)) > Last(subnets[i])

IsFree(r, seqnum, k) ==
    \A i \in existing_subnets(r.type) :
        ~Overlaps(Candidate(r, seqnum, k), subnets[i])

\* A mutant: the second octet is not checked.
IsInvalid_AnySeqnum(r, seqnum) == hosts_to_prefix(r.hosts) < RootPrefixLen(r.type)

\* ip_network() and subnets() raise ValueError: 10.256.0.0 is no address, and
\* a block cannot be larger than its root.
IsInvalid(r, seqnum) ==
    \/ r.type \notin RootTypes /\ seqnum > 255
    \/ hosts_to_prefix(r.hosts) < RootPrefixLen(r.type)

\* The block at which the loop over the candidates stops: the first free one,
\* or the last of all, whose overlap_found is then still set.
LoopExit(r, seqnum) ==
    CHOOSE k \in CandidateIndices(r) :
        /\ IsFree(r, seqnum, k) \/ k = LastCandidate(r)
        /\ \A j \in 0..(k - 1) : ~IsFree(r, seqnum, j)
-----------------------------------------------------------------------------
Outcome(result, r, seqnum) == [result |-> result, request |-> r, seqnum |-> seqnum]

NoRequest == [type |-> "SITE", hosts |-> 0, dynamic |-> 0]

Init == /\ subnets = << >>
        /\ outcome = Outcome("none", NoRequest, 0)

RaiseInvalid(r, seqnum) ==
    /\ IsInvalid(r, seqnum)
    /\ outcome' = Outcome("ValueError", r, seqnum)
    /\ UNCHANGED subnets

\* overlap_found after the loop.
RaiseExhausted(r, seqnum) ==
    /\ ~IsInvalid(r, seqnum)
    /\ ~IsFree(r, seqnum, LoopExit(r, seqnum))
    /\ outcome' = Outcome("Subnet exhaustion", r, seqnum)
    /\ UNCHANGED subnets

Assign(r, seqnum) ==
    /\ ~IsInvalid(r, seqnum)
    /\ IsFree(r, seqnum, LoopExit(r, seqnum))
    /\ Len(subnets) < MaxSubnets
    /\ subnets' = Append(subnets, Candidate(r, seqnum, LoopExit(r, seqnum)))
    /\ outcome' = Outcome("assigned", r, seqnum)

assign_subnet(r, seqnum) ==
    \/ RaiseInvalid(r, seqnum)
    \/ RaiseExhausted(r, seqnum)
    \/ Assign(r, seqnum)

Next == \E r \in Requests, seqnum \in Seqnums : assign_subnet(r, seqnum)

Spec == Init /\ [][Next]_vars
-----------------------------------------------------------------------------
Subnet == [type : SubnetType, root : (Seqnums \cap 0..255) \cup {Shared},
           first : Nat, prefixlen : 7..31, dynamic : Nat]

Outcomes == [result  : {"none", "assigned", "Subnet exhaustion", "ValueError"},
             request : Requests \cup {NoRequest},
             seqnum  : Nat]

\* Type correctness of the stored rows and of the answer: a network whose second
\* octet does not exist is never stored.
TypeOK == subnets \in Seq(Subnet) /\ outcome \in Outcomes

\* No address belongs to two subnets of the domain, whatever their types, sizes
\* and the order they were asked for in (assign_subnet compares a candidate
\* with the rows of its own type only).
AddressesDisjoint ==
    \A i, j \in DOMAIN subnets :
        i # j => \/ subnets[i].root # subnets[j].root
                 \/ (First(subnets[i])..Last(subnets[i]))
                      \cap (First(subnets[j])..Last(subnets[j])) = {}

\* Every subnet lies inside the private root its type is cut from: a site or a
\* deployment never reaches into the addresses after its own root.
WithinRoot ==
    \A i \in DOMAIN subnets :
        Last(subnets[i]) < Size(RootPrefixLen(subnets[i].type))

\* "Smallest possible prefix that can accommodate number of hosts expected"
\* (_core.py:737): the subnet just stored has an address for every host asked
\* for beside its network and broadcast addresses, and half of it has not.
TightestFit ==
    outcome.result = "assigned" =>
        LET s    == subnets[Len(subnets)]
            half == Size(s.prefixlen) \div 2
        IN  /\ outcome.request.hosts <= Cardinality((First(s) + 1)..(Last(s) - 1))
            /\ outcome.request.hosts > half - 2

\* "Subnet exhaustion" is raised only when the root really has no aligned block
\* left: every block of the size asked for shares an address with a stored row.
ExhaustedMeansFull ==
    outcome.result = "Subnet exhaustion" =>
        LET r     == outcome.request
            size  == Size(hosts_to_prefix(r.hosts))
            inUse == UNION {First(subnets[i])..Last(subnets[i]) :
                              i \in {j \in DOMAIN subnets :
                                       subnets[j].root = RootOf(r.type, outcome.seqnum)}}
        IN  \A b \in 0..(Size(RootPrefixLen(r.type)) - 1) :
               b % size = 0 => (b..(b + size - 1)) \cap inUse # {}
=============================================================================
