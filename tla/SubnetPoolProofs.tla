-------------------------- MODULE SubnetPoolProofs --------------------------
(* Theorems about SubnetPool, for every set of requests, every root length   *)
(* and every bound. The inductive invariant adds to the property that a row  *)
(* lies under the root of its type and that some caller asks for its type;   *)
(* for the two properties of the answer, PoolInv adds what the last answer   *)
(* says of the rows.                                                         *)
EXTENDS SubnetPool, Extrema, FiniteSetTheorems, TLAPS

\* The sizes of the networks the pool handles, one by one.
LEMMA Sizes ==
      /\ Size(7) = 33554432 /\ Size(8) = 16777216 /\ Size(9) = 8388608 /\ Size(10) = 4194304
      /\ Size(11) = 2097152 /\ Size(12) = 1048576 /\ Size(13) = 524288 /\ Size(14) = 262144
      /\ Size(15) = 131072 /\ Size(16) = 65536 /\ Size(17) = 32768 /\ Size(18) = 16384
      /\ Size(19) = 8192 /\ Size(20) = 4096 /\ Size(21) = 2048 /\ Size(22) = 1024
      /\ Size(23) = 512 /\ Size(24) = 256 /\ Size(25) = 128 /\ Size(26) = 64
      /\ Size(27) = 32 /\ Size(28) = 16 /\ Size(29) = 8 /\ Size(30) = 4
      /\ Size(31) = 2 /\ Size(32) = 1
BY DEF Size

LEMMA Prefixes ==
    \A p \in 7..32 : p \in {7, 8, 9, 10, 11, 12, 13, 14, 15, 16, 17, 18, 19,
                       20, 21, 22, 23, 24, 25, 26, 27, 28, 29, 30, 31, 32}
OBVIOUS

\* Every network the pool handles has at least one address.
LEMMA SizePositive == \A p \in 7..32 : Size(p) \in Nat /\ Size(p) >= 1
<1>. QED  BY Sizes, Prefixes

\* A longer prefix never has more addresses.
LEMMA SizeMonotone == \A p, q \in 7..32 : p <= q => Size(q) <= Size(p)
<1>. QED  BY Sizes, Prefixes

\* hosts_to_prefix stays between 7 (more hosts than a /8 holds) and 31.
LEMMA PrefixRange == \A h \in Nat : hosts_to_prefix(h) \in 7..31
<1>. SUFFICES ASSUME NEW h \in Nat  PROVE hosts_to_prefix(h) \in 7..31
  OBVIOUS
<1>. DEFINE T == {p \in 8..31 : h <= UsableHosts(p)}
<1>1. IsFiniteSet(8..31) /\ Cardinality(8..31) = 24
  <2>1. 8 \in Int /\ 31 \in Int /\ ~(8 > 31) /\ (31 - 8) + 1 = 24
    OBVIOUS
  <2>. QED  BY <2>1, FS_Interval, Zenon
<1>2. IsFiniteSet(T) /\ Cardinality(T) <= 24
  BY <1>1, FS_Subset
<1>3. Cardinality(T) \in Nat
  BY <1>2, FS_CardinalityType
<1>. QED  BY <1>2, <1>3 DEF hosts_to_prefix

-----------------------------------------------------------------------------
\* A row's type is one some caller asks for, and its root the one of that type.
RowsRequested ==
    \A i \in DOMAIN subnets :
        /\ \E r \in Requests : subnets[i].type = r.type
        /\ subnets[i].root \in (IF subnets[i].type \in RootTypes
                                THEN {Shared} ELSE Seqnums)

IInv == TypeOK /\ RowsRequested /\ AddressesDisjoint /\ WithinRoot

\* A candidate block is a well-formed row, and it ends inside the root.
LEMMA CandidateInRoot ==
    ASSUME NEW r \in Requests, NEW q \in Seqnums, NEW k \in CandidateIndices(r),
           ~IsInvalid(r, q)
    PROVE  /\ Candidate(r, q, k) \in Subnet
           /\ Last(Candidate(r, q, k)) < Size(RootPrefixLen(r.type))
<1>. DEFINE p == hosts_to_prefix(r.hosts)
            R == Size(RootPrefixLen(r.type))
            s == Size(p)
<1>1. r.type \in SubnetType /\ r.hosts \in Nat /\ r.dynamic \in Nat
  BY RequestsAssumption
<1>2. p \in 7..31
  BY <1>1, PrefixRange
<1>3. RootPrefixLen(r.type) \in 7..32
  BY PrefixAssumption DEF RootPrefixLen
<1>4. R \in Nat /\ s \in Nat /\ s >= 1
  BY <1>2, <1>3, SizePositive
<1>. HIDE DEF p, R, s
<1>5. k \in 0..(R \div s - 1)
  BY DEF CandidateIndices, LastCandidate, R, s, p
<1>6. (R \div s) \in Nat /\ (R \div s) * s <= R
  BY <1>4
<1>7. k \in Nat /\ k + 1 <= R \div s
  BY <1>5, <1>6
<1>8. k * s \in Nat /\ k * s + s <= R
  <2>. DEFINE d == R \div s
  <2>. HIDE DEF d
  <2>1. d \in Nat /\ d * s <= R /\ k + 1 <= d
    BY <1>6, <1>7 DEF d
  <2>2. (k + 1) * s <= d * s
    BY <2>1, <1>4, <1>7
  <2>3. (k + 1) * s = k * s + s /\ k * s \in Nat
    BY <1>4, <1>7
  <2>. QED  BY <2>1, <2>2, <2>3, <1>4
<1>9. Candidate(r, q, k) = [type |-> r.type, root |-> RootOf(r.type, q),
                            first |-> k * s, prefixlen |-> p,
                            dynamic |-> r.dynamic]
  BY DEF Candidate, p, s
<1>10. RootOf(r.type, q) \in (Seqnums \cap 0..255) \cup {Shared}
  BY SeqnumsAssumption DEF RootOf, IsInvalid
<1>11. Candidate(r, q, k) \in Subnet
  BY <1>1, <1>2, <1>8, <1>9, <1>10 DEF Subnet
<1>12. Last(Candidate(r, q, k)) = k * s + s - 1
  BY <1>9 DEF Last, s
<1>13. Last(Candidate(r, q, k)) < R
  BY <1>4, <1>8, <1>12
<1>. QED  BY <1>11, <1>13 DEF R

\* The library's overlap test, on two well-formed rows of one root, decides
\* whether they share an address.
LEMMA NoOverlapNoSharedAddress ==
    ASSUME NEW s \in Subnet, NEW t \in Subnet, s.root = t.root, ~Overlaps(s, t)
    PROVE  (First(s)..Last(s)) \cap (First(t)..Last(t)) = {}
<1>1. First(s) \in Int /\ First(t) \in Int
  BY DEF First, Subnet
<1>2. Size(s.prefixlen) \in Nat /\ Size(s.prefixlen) >= 1
  BY SizePositive DEF Subnet
<1>3. Size(t.prefixlen) \in Nat /\ Size(t.prefixlen) >= 1
  BY SizePositive DEF Subnet
<1>4. Last(s) \in Int /\ First(s) <= Last(s)
  BY <1>1, <1>2 DEF First, Last
<1>5. Last(t) \in Int /\ First(t) <= Last(t)
  BY <1>1, <1>3 DEF First, Last
<1>6. ~(First(s) <= First(t) /\ First(t) <= Last(s))
  BY DEF Overlaps, Contains
<1>7. ~(First(t) <= First(s) /\ First(s) <= Last(t))
  BY DEF Overlaps, Contains
<1>. QED  BY <1>1, <1>4, <1>5, <1>6, <1>7

LEMMA InitIInv == Init => IInv
<1>. SUFFICES ASSUME Init  PROVE IInv
  OBVIOUS
<1>1. subnets = << >> /\ DOMAIN subnets = {} /\ subnets \in Seq(Subnet)
  BY DEF Init
<1>2. outcome \in Outcomes
  BY DEF Init, Outcome, Outcomes
<1>. QED  BY <1>1, <1>2 DEF IInv, TypeOK, RowsRequested, AddressesDisjoint, WithinRoot

\* The loop over the candidates stops at one of them: the first that is free, or
\* the last of all when none is.
LEMMA LoopExits ==
    ASSUME NEW r \in Requests, NEW q \in Seqnums, ~IsInvalid(r, q)
    PROVE  /\ LoopExit(r, q) \in CandidateIndices(r)
           /\ IsFree(r, q, LoopExit(r, q)) \/ LoopExit(r, q) = LastCandidate(r)
           /\ \A j \in 0..(LoopExit(r, q) - 1) : ~IsFree(r, q, j)
<1>. DEFINE p == hosts_to_prefix(r.hosts)
            R == Size(RootPrefixLen(r.type))
            n == LastCandidate(r)
            S == {k \in 0..n : IsFree(r, q, k) \/ k = n}
<1>1. n \in Nat
  <2>1. p \in 7..31 /\ RootPrefixLen(r.type) \in 8..32
    BY RequestsAssumption, PrefixAssumption, PrefixRange DEF RootPrefixLen
  <2>2. RootPrefixLen(r.type) <= p
    BY <2>1 DEF IsInvalid
  <2>. HIDE DEF p
  <2>3. R \in Nat /\ Size(p) \in Nat /\ Size(p) >= 1 /\ Size(p) <= R
    BY <2>1, <2>2, SizePositive, SizeMonotone
  <2>. HIDE DEF R
  <2>4. (R \div Size(p)) \in Nat /\ R \div Size(p) >= 1
    BY <2>3
  <2>. QED  BY <2>4 DEF LastCandidate, R, p
<1>2. n \in S /\ S \subseteq Nat
  BY <1>1
<1>3. PICK m \in S : \A y \in S : m <= y
  BY <1>2, Least
<1>4. \A j \in 0..(m - 1) : ~IsFree(r, q, j)
  BY <1>1, <1>3
<1>. QED  BY <1>3, <1>4 DEF LoopExit, CandidateIndices

\* Storing the first free block keeps every part of the invariant.
LEMMA AssignIInv ==
    ASSUME IInv, NEW r \in Requests, NEW q \in Seqnums, Assign(r, q)
    PROVE  IInv'
<1>. DEFINE n == Len(subnets)
            k == LoopExit(r, q)
            c == Candidate(r, q, k)
<1>1. k \in CandidateIndices(r) /\ IsFree(r, q, k)
  BY LoopExits DEF Assign
<1>2. c \in Subnet /\ Last(c) < Size(RootPrefixLen(r.type))
  BY <1>1, CandidateInRoot DEF Assign
<1>3. c.type = r.type /\ c.root = RootOf(r.type, q)
  BY DEF Candidate
<1>. HIDE DEF k, c
<1>4. subnets' = Append(subnets, c) /\ outcome' = Outcome("assigned", r, q)
  BY DEF Assign, k, c
<1>5. subnets \in Seq(Subnet) /\ n \in Nat /\ DOMAIN subnets = 1..n
  BY DEF IInv, TypeOK
<1>6. /\ subnets' \in Seq(Subnet) /\ DOMAIN subnets' = 1..(n + 1)
      /\ \A i \in 1..n : subnets'[i] = subnets[i]
      /\ subnets'[n + 1] = c
  BY <1>2, <1>4, <1>5
<1>. HIDE DEF n
<1>7. TypeOK'
  BY <1>4, <1>6, SeqnumsAssumption DEF TypeOK, Outcomes, Outcome
<1>8. RowsRequested'
  <2>1. r.type \in SubnetType /\ c.root \in (IF c.type \in RootTypes THEN {Shared} ELSE Seqnums)
    BY <1>3, RequestsAssumption DEF RootOf
  <2>2. ASSUME NEW i \in 1..(n + 1)
        PROVE  /\ \E t \in Requests : subnets'[i].type = t.type
               /\ subnets'[i].root \in (IF subnets'[i].type \in RootTypes
                                        THEN {Shared} ELSE Seqnums)
    <3>1. CASE i = n + 1
      BY <1>3, <1>6, <2>1, <3>1
    <3>2. CASE i \in 1..n
      BY <1>5, <1>6, <3>2 DEF IInv, RowsRequested
    <3>. QED  BY <1>5, <3>1, <3>2
  <2>. QED  BY <1>6, <2>2 DEF RowsRequested
<1>9. AddressesDisjoint'
  <2>1. ASSUME NEW i \in 1..n, subnets[i].root = c.root
        PROVE  (First(c)..Last(c)) \cap (First(subnets[i])..Last(subnets[i])) = {}
    <3>1. subnets[i] \in Subnet
      BY <1>5
    <3>2. PICK t \in Requests : subnets[i].type = t.type
      BY <1>5 DEF IInv, RowsRequested
    <3>3. subnets[i].root \in (IF subnets[i].type \in RootTypes
                               THEN {Shared} ELSE Seqnums)
      BY <1>5 DEF IInv, RowsRequested
    <3>4. subnets[i].type = c.type
      <4>1. r.type \in RootTypes <=> t.type \in RootTypes
        BY <1>3, <2>1, <3>2, <3>3, SeqnumsAssumption DEF RootOf, Shared
      <4>2. CASE r.type \in RootTypes
        BY <1>3, <3>2, <4>1, <4>2, OneSharedType
      <4>3. CASE r.type \notin RootTypes
        BY <1>3, <3>2, <4>1, <4>3, RequestsAssumption DEF SubnetType, RootTypes
      <4>. QED  BY <4>2, <4>3
    <3>5. ~Overlaps(c, subnets[i])
      BY <1>1, <1>3, <1>5, <3>4 DEF IsFree, existing_subnets, c
    <3>. QED  BY <1>2, <2>1, <3>1, <3>5, NoOverlapNoSharedAddress
  <2>2. ASSUME NEW i \in 1..(n + 1), NEW j \in 1..(n + 1), i # j,
               subnets'[i].root = subnets'[j].root
        PROVE  (First(subnets'[i])..Last(subnets'[i]))
                  \cap (First(subnets'[j])..Last(subnets'[j])) = {}
    <3>1. CASE i \in 1..n /\ j \in 1..n
      BY <1>5, <1>6, <2>2, <3>1 DEF IInv, AddressesDisjoint
    <3>2. CASE i = n + 1 /\ j \in 1..n
      BY <1>6, <2>1, <2>2, <3>2
    <3>3. CASE i \in 1..n /\ j = n + 1
      <4>1. (First(c)..Last(c)) \cap (First(subnets[i])..Last(subnets[i])) = {}
        BY <1>6, <2>1, <2>2, <3>3
      <4>2. subnets'[i] = subnets[i] /\ subnets'[j] = c
        BY <1>6, <3>3
      <4>. QED  BY <4>1, <4>2
    <3>. QED  BY <1>5, <2>2, <3>1, <3>2, <3>3
  <2>. QED  BY <1>6, <2>2, Zenon DEF AddressesDisjoint, First, Last
<1>10. WithinRoot'
  <2>1. ASSUME NEW i \in 1..(n + 1)
        PROVE  Last(subnets'[i]) < Size(RootPrefixLen(subnets'[i].type))
    <3>1. CASE i = n + 1
      BY <1>2, <1>3, <1>6, <3>1
    <3>2. CASE i \in 1..n
      BY <1>5, <1>6, <3>2 DEF IInv, WithinRoot
    <3>. QED  BY <1>5, <3>1, <3>2
  <2>. QED  BY <1>6, <2>1, Zenon DEF WithinRoot, Last
<1>. QED  BY <1>7, <1>8, <1>9, <1>10 DEF IInv

\* A call that raises, and a stuttering step, leave the rows alone.
LEMMA UnchangedIInv ==
    ASSUME IInv, UNCHANGED subnets, outcome' \in Outcomes
    PROVE  IInv'
BY DEF IInv, TypeOK, RowsRequested, AddressesDisjoint, WithinRoot, First, Last

LEMMA NextIInv == IInv /\ [Next]_vars => IInv'
<1>. SUFFICES ASSUME IInv, [Next]_vars  PROVE IInv'
  OBVIOUS
<1>1. ASSUME NEW r \in Requests, NEW q \in Seqnums, RaiseInvalid(r, q)
      PROVE  IInv'
  BY <1>1, UnchangedIInv, SeqnumsAssumption DEF RaiseInvalid, Outcomes, Outcome
<1>2. ASSUME NEW r \in Requests, NEW q \in Seqnums, RaiseExhausted(r, q)
      PROVE  IInv'
  BY <1>2, UnchangedIInv, SeqnumsAssumption DEF RaiseExhausted, Outcomes, Outcome
<1>3. ASSUME NEW r \in Requests, NEW q \in Seqnums, Assign(r, q)
      PROVE  IInv'
  BY <1>3, AssignIInv
<1>4. CASE UNCHANGED vars
  BY <1>4, UnchangedIInv DEF vars, IInv, TypeOK
<1>. QED  BY <1>1, <1>2, <1>3, <1>4 DEF Next, assign_subnet

\* The stored rows are well formed in every reachable state.
THEOREM TypeCorrect == Spec => []TypeOK
<1>1. IInv => TypeOK
  BY DEF IInv
<1>. QED  BY <1>1, InitIInv, NextIInv, PTL DEF Spec

\* However many subnets of whatever sizes are asked for, in any order, no two
\* share an address, although assign_subnet only ever compares a candidate with
\* the rows of its own type.
THEOREM NoSharedAddress == Spec => []AddressesDisjoint
<1>1. IInv => AddressesDisjoint
  BY DEF IInv
<1>. QED  BY <1>1, InitIInv, NextIInv, PTL DEF Spec

\* No subnet reaches past the private root it is cut from.
THEOREM StaysWithinRoot == Spec => []WithinRoot
<1>1. IInv => WithinRoot
  BY DEF IInv
<1>. QED  BY <1>1, InitIInv, NextIInv, PTL DEF Spec

-----------------------------------------------------------------------------
\* A network has twice the addresses of one with the next longer prefix.
LEMMA SizeHalves == \A p \in 7..31 : Size(p) = 2 * Size(p + 1)
<1>. SUFFICES ASSUME NEW p \in 7..31  PROVE Size(p) = 2 * Size(p + 1)
  OBVIOUS
<1>1. p \in {7, 8, 9, 10, 11, 12, 13, 14, 15, 16, 17, 18, 19,
             20, 21, 22, 23, 24, 25, 26, 27, 28, 29, 30, 31}
  OBVIOUS
<1>. QED  BY <1>1, Sizes

\* So a smaller one fits a whole number of times.
LEMMA SizeDivides ==
    ASSUME NEW p \in 7..32, NEW q \in 7..32, p <= q
    PROVE  \E n \in Nat : Size(p) = n * Size(q)
<1>. DEFINE G == {t \in Nat : p + t <= 32 => \E n \in Nat : Size(p) = n * Size(p + t)}
<1>1. 0 \in G
  <2>1. p + 0 = p /\ Size(p) \in Nat /\ Size(p) = 1 * Size(p)
    BY SizePositive
  <2>. QED  BY <2>1
<1>2. ASSUME NEW t \in Nat, t \in G  PROVE t + 1 \in G
  <2>. SUFFICES ASSUME p + (t + 1) <= 32  PROVE \E n \in Nat : Size(p) = n * Size(p + (t + 1))
    OBVIOUS
  <2>1. PICK n \in Nat : Size(p) = n * Size(p + t)
    BY <1>2
  <2>2. p + t \in 7..31 /\ (p + t) + 1 = p + (t + 1)
    OBVIOUS
  <2>3. PICK s \in Nat : s = Size(p + (t + 1)) /\ Size(p + t) = 2 * s
    <3>1. p + (t + 1) \in 7..32
      BY <2>2
    <3>. QED  BY <2>2, <3>1, SizeHalves, SizePositive
  <2>4. n * (2 * s) = (2 * n) * s /\ 2 * n \in Nat
    OBVIOUS
  <2>. QED  BY <2>1, <2>3, <2>4
<1>3. q - p \in Nat /\ p + (q - p) = q /\ p + (q - p) <= 32
  OBVIOUS
<1>4. q - p \in G
  <2>. HIDE DEF G
  <2>. QED  BY <1>1, <1>2, <1>3, Induction
<1>. QED  BY <1>3, <1>4

\* hosts_to_prefix finds the longest prefix with room for the hosts.
LEMMA LongestPrefix ==
    ASSUME NEW h \in Nat, NEW p, p = hosts_to_prefix(h), p >= 8
    PROVE  h <= UsableHosts(p) /\ h > Size(p) \div 2 - 2
<1>. DEFINE T == {q \in 8..31 : h <= UsableHosts(q)}
<1>0. p \in 8..31
  <2>1. hosts_to_prefix(h) \in 7..31
    BY PrefixRange
  <2>. QED  BY <2>1
<1>1. p = 7 + Cardinality(T)
  BY DEF hosts_to_prefix
<1>. HIDE DEF T
<1>2. T # {} /\ T \subseteq 0..31
  <2>1. T # {}
    <3>1. Cardinality({}) = 0
      BY FS_EmptySet
    <3>. QED  BY <1>0, <1>1, <3>1
  <2>. QED  BY <2>1 DEF T
<1>3. PICK m \in T : \A y \in T : y <= m
  BY <1>2, Greatest
<1>4. m \in 8..31 /\ h <= UsableHosts(m)
  BY <1>3 DEF T
<1>5. T = 8..m
  <2>1. ASSUME NEW q \in 8..m  PROVE q \in T
    <3>1. q \in 7..32 /\ m \in 7..32 /\ q <= m /\ q \in 8..31
      BY <1>4
    <3>2. Size(q) \in Nat /\ Size(m) \in Nat /\ Size(m) <= Size(q)
      BY <3>1, SizeMonotone, SizePositive
    <3>3. h <= UsableHosts(q)
      BY <1>4, <3>2 DEF UsableHosts
    <3>. QED  BY <3>1, <3>3 DEF T
  <2>2. ASSUME NEW q \in T  PROVE q \in 8..m
    <3>1. q \in 8..31 /\ q <= m
      BY <1>3, <2>2 DEF T
    <3>. QED  BY <1>4, <3>1
  <2>. QED  BY <2>1, <2>2
<1>6. Cardinality(T) = m - 7
  <2>1. 8 \in Int /\ m \in Int /\ ~(8 > m) /\ m - 8 + 1 = m - 7
    BY <1>4
  <2>2. Cardinality(8..m) = IF 8 > m THEN 0 ELSE m - 8 + 1
    BY ONLY <2>1, FS_Interval
  <2>. QED  BY <1>5, <2>1, <2>2
<1>7. p = m
  BY <1>1, <1>4, <1>6
<1>8. h > Size(m) \div 2 - 2
  <2>1. PICK s \in Nat : s = Size(m + 1) /\ Size(m) = 2 * s
    <3>1. m \in 7..31 /\ m + 1 \in 7..32
      BY <1>4
    <3>. QED  BY <3>1, SizeHalves, SizePositive
  <2>2. Size(m) \div 2 = s
    BY <2>1
  <2>3. CASE m = 31
    <3>1. s = 1
      BY <2>1, <2>3, Sizes
    <3>. QED  BY <2>2, <3>1
  <2>4. CASE m # 31
    <3>1. m + 1 \in 8..31
      BY <1>4, <2>4
    <3>2. m + 1 \notin T
      BY <1>3, <1>4
    <3>3. ~(h <= UsableHosts(m + 1))
      BY <3>1, <3>2 DEF T
    <3>4. UsableHosts(m + 1) = s - 2
      BY <2>1 DEF UsableHosts
    <3>. QED  BY <2>2, <3>3, <3>4
  <2>. QED  BY <2>3, <2>4
<1>. QED  BY <1>4, <1>7, <1>8

-----------------------------------------------------------------------------
\* No candidate of a request is free.
NoneFree(r, seqnum) == \A k \in CandidateIndices(r) : ~IsFree(r, seqnum, k)

\* What the last answer says of the rows: after "assigned", the last row has the
\* prefix of the request; after "Subnet exhaustion", no candidate is free.
Answered ==
    /\ outcome.result = "assigned" =>
          /\ outcome.request \in Requests
          /\ Len(subnets) > 0
          /\ subnets[Len(subnets)].prefixlen = hosts_to_prefix(outcome.request.hosts)
          /\ subnets[Len(subnets)].prefixlen >= 8
    /\ outcome.result = "Subnet exhaustion" =>
          /\ outcome.request \in Requests
          /\ outcome.seqnum \in Seqnums
          /\ ~IsInvalid(outcome.request, outcome.seqnum)
          /\ NoneFree(outcome.request, outcome.seqnum)

PoolInv == IInv /\ Answered

\* A row just stored has the prefix of its request.
LEMMA AssignAnswered ==
    ASSUME IInv, NEW r \in Requests, NEW q \in Seqnums, Assign(r, q)
    PROVE  Answered'
<1>. DEFINE n == Len(subnets)
            c == Candidate(r, q, LoopExit(r, q))
<1>1. c.prefixlen = hosts_to_prefix(r.hosts)
  BY DEF Candidate
<1>2. c \in Subnet
  BY LoopExits, CandidateInRoot DEF Assign
<1>. HIDE DEF c
<1>3. subnets' = Append(subnets, c) /\ outcome' = Outcome("assigned", r, q)
  BY DEF Assign, c
<1>4. subnets \in Seq(Subnet) /\ n \in Nat
  BY DEF IInv, TypeOK
<1>5. Len(subnets') = n + 1 /\ subnets'[n + 1] = c
  BY <1>2, <1>3, <1>4
<1>6. hosts_to_prefix(r.hosts) >= 8
  <2>1. RootPrefixLen(r.type) \in 8..32 /\ hosts_to_prefix(r.hosts) \in 7..31
    BY RequestsAssumption, PrefixAssumption, PrefixRange DEF RootPrefixLen
  <2>2. ~(hosts_to_prefix(r.hosts) < RootPrefixLen(r.type))
    BY DEF Assign, IsInvalid
  <2>. QED  BY <2>1, <2>2
<1>. QED  BY <1>1, <1>3, <1>4, <1>5, <1>6 DEF Answered, Outcome

\* When the loop ends on a block that is not free, none was.
LEMMA ExhaustedAnswered ==
    ASSUME IInv, NEW r \in Requests, NEW q \in Seqnums, RaiseExhausted(r, q)
    PROVE  Answered'
<1>1. /\ LoopExit(r, q) \in CandidateIndices(r)
      /\ IsFree(r, q, LoopExit(r, q)) \/ LoopExit(r, q) = LastCandidate(r)
      /\ \A j \in 0..(LoopExit(r, q) - 1) : ~IsFree(r, q, j)
  BY LoopExits DEF RaiseExhausted
<1>2. NoneFree(r, q)
  <2>1. SUFFICES ASSUME NEW k \in CandidateIndices(r)  PROVE ~IsFree(r, q, k)
    BY DEF NoneFree
  <2>2. LoopExit(r, q) = LastCandidate(r) /\ ~IsFree(r, q, LoopExit(r, q))
    BY <1>1 DEF RaiseExhausted
  <2>3. LoopExit(r, q) \in 0..LastCandidate(r) /\ k \in 0..LastCandidate(r)
    BY <1>1 DEF CandidateIndices
  <2>4. CASE k = LoopExit(r, q)
    BY <2>2, <2>4
  <2>5. CASE k # LoopExit(r, q)
    <3>1. k \in 0..(LoopExit(r, q) - 1)
      BY <2>2, <2>3, <2>5
    <3>. QED  BY <1>1, <3>1
  <2>. QED  BY <2>4, <2>5
<1>3. NoneFree(r, q)'
  BY <1>2 DEF RaiseExhausted, NoneFree, IsFree, existing_subnets, Overlaps, Contains, First, Last
<1>4. outcome' = Outcome("Subnet exhaustion", r, q) /\ ~IsInvalid(r, q)
  BY DEF RaiseExhausted
<1>. QED  BY <1>3, <1>4 DEF Answered, Outcome, NoneFree, IsFree

LEMMA PoolInductive == Spec => []PoolInv
<1>1. Init => PoolInv
  BY InitIInv DEF PoolInv, Answered, Init, Outcome
<1>2. PoolInv /\ [Next]_vars => PoolInv'
  <2>. SUFFICES ASSUME PoolInv, [Next]_vars  PROVE Answered'
    BY NextIInv DEF PoolInv
  <2>1. ASSUME NEW r \in Requests, NEW q \in Seqnums, RaiseInvalid(r, q)
        PROVE  Answered'
    BY <2>1 DEF RaiseInvalid, Answered, Outcome
  <2>2. ASSUME NEW r \in Requests, NEW q \in Seqnums, RaiseExhausted(r, q)
        PROVE  Answered'
    BY <2>2, ExhaustedAnswered DEF PoolInv
  <2>3. ASSUME NEW r \in Requests, NEW q \in Seqnums, Assign(r, q)
        PROVE  Answered'
    BY <2>3, AssignAnswered DEF PoolInv
  <2>4. CASE UNCHANGED vars
    <3>1. subnets' = subnets /\ outcome' = outcome
      BY <2>4 DEF vars
    <3>. QED
      BY <3>1 DEF PoolInv, Answered, NoneFree, IsFree, existing_subnets,
                  Overlaps, Contains, First, Last
  <2>. QED  BY <2>1, <2>2, <2>3, <2>4 DEF Next, assign_subnet
<1>. QED  BY <1>1, <1>2, PTL DEF Spec

\* Two well-formed rows that overlap share an address.
LEMMA OverlapSharesAddress ==
    ASSUME NEW s \in Subnet, NEW t \in Subnet, Overlaps(s, t)
    PROVE  \E a \in First(s)..Last(s) : a \in First(t)..Last(t)
<1>1. First(s) \in Int /\ First(t) \in Int
  BY DEF First, Subnet
<1>2. Size(s.prefixlen) \in Nat /\ Size(s.prefixlen) >= 1
  BY SizePositive DEF Subnet
<1>3. Size(t.prefixlen) \in Nat /\ Size(t.prefixlen) >= 1
  BY SizePositive DEF Subnet
<1>4. Last(s) \in Int /\ First(s) <= Last(s)
  BY <1>1, <1>2 DEF First, Last
<1>5. Last(t) \in Int /\ First(t) <= Last(t)
  BY <1>1, <1>3 DEF First, Last
<1>6. \/ First(s) <= First(t) /\ First(t) <= Last(s)
      \/ First(s) <= Last(t) /\ Last(t) <= Last(s)
      \/ First(t) <= First(s) /\ First(s) <= Last(t)
      \/ First(t) <= Last(s) /\ Last(s) <= Last(t)
  BY DEF Overlaps, Contains
<1>7. First(s) \in First(s)..Last(s) /\ Last(s) \in First(s)..Last(s)
  BY <1>1, <1>4
<1>8. First(t) \in First(t)..Last(t) /\ Last(t) \in First(t)..Last(t)
  BY <1>1, <1>5
<1>. HIDE DEF First, Last
<1>. QED  BY <1>1, <1>4, <1>5, <1>6, <1>7, <1>8

\* The usable addresses of a row are all but its first and its last.
LEMMA UsableAddresses ==
    ASSUME NEW f \in Nat, NEW n \in Nat, n >= 2
    PROVE  Cardinality((f + 1)..(f + n - 1 - 1)) = n - 2
<1>1. f + 1 \in Int /\ f + n - 1 - 1 \in Int
  OBVIOUS
<1>2. Cardinality((f + 1)..(f + n - 1 - 1))
        = IF f + 1 > f + n - 1 - 1 THEN 0 ELSE (f + n - 1 - 1) - (f + 1) + 1
  BY ONLY <1>1, FS_Interval
<1>. QED  BY <1>2

\* The subnet just stored has an address for every host asked for, beside its
\* network and broadcast addresses, and half of it has not: the comment of
\* hosts_to_prefix holds for every number of hosts up to what a /8 takes.
THEOREM SmallestFit == Spec => []TightestFit
<1>1. ASSUME PoolInv  PROVE TightestFit
  <2>. SUFFICES ASSUME outcome.result = "assigned"
                PROVE  LET s    == subnets[Len(subnets)]
                           half == Size(s.prefixlen) \div 2
                       IN  /\ outcome.request.hosts <= Cardinality((First(s) + 1)..(Last(s) - 1))
                           /\ outcome.request.hosts > half - 2
    BY DEF TightestFit
  <2>. DEFINE s == subnets[Len(subnets)]
              h == outcome.request.hosts
  <2>1. s \in Subnet /\ s.prefixlen = hosts_to_prefix(h) /\ s.prefixlen >= 8
    <3>1. Len(subnets) \in DOMAIN subnets /\ subnets \in Seq(Subnet)
      BY <1>1 DEF PoolInv, IInv, TypeOK, Answered
    <3>. QED  BY <1>1, <3>1 DEF PoolInv, Answered
  <2>2. h \in Nat
    BY <1>1, RequestsAssumption DEF PoolInv, Answered
  <2>. HIDE DEF s, h
  <2>3. s.first \in Nat /\ s.prefixlen \in 8..31
    <3>1. s.first \in Nat /\ s.prefixlen \in 7..31
      BY <2>1 DEF Subnet
    <3>. QED  BY <2>1, <3>1
  <2>4. h <= UsableHosts(s.prefixlen) /\ h > Size(s.prefixlen) \div 2 - 2
    BY <2>1, <2>2, LongestPrefix
  <2>5. Size(s.prefixlen) \in Nat /\ Size(s.prefixlen) >= 2
    <3>1. s.prefixlen \in 7..32 /\ 31 \in 7..32 /\ s.prefixlen <= 31
      BY <2>3
    <3>. QED  BY <3>1, SizeMonotone, SizePositive, Sizes
  <2>6. Cardinality((First(s) + 1)..(Last(s) - 1)) = Size(s.prefixlen) - 2
    <3>. DEFINE f == s.first
                n == Size(s.prefixlen)
    <3>1. First(s) = f /\ Last(s) = f + n - 1 /\ f \in Nat /\ n \in Nat /\ n >= 2
      BY <2>3, <2>5 DEF First, Last
    <3>. HIDE DEF f, n
    <3>2. Cardinality((f + 1)..(f + n - 1 - 1)) = n - 2
      BY <3>1, UsableAddresses
    <3>. QED  BY <3>1, <3>2 DEF n
  <2>. QED  BY <2>4, <2>6 DEF UsableHosts, s, h
<1>. QED  BY <1>1, PoolInductive, PTL

\* A stored row that a candidate overlaps shares an address with it.
LEMMA TakenCandidate ==
    ASSUME IInv, NEW r \in Requests, NEW q \in Seqnums, ~IsInvalid(r, q),
           NEW k \in CandidateIndices(r), ~IsFree(r, q, k)
    PROVE  \E i \in DOMAIN subnets :
             /\ subnets[i].root = RootOf(r.type, q)
             /\ \E a \in First(Candidate(r, q, k))..Last(Candidate(r, q, k)) :
                   a \in First(subnets[i])..Last(subnets[i])
<1>. DEFINE c == Candidate(r, q, k)
<1>1. c \in Subnet
  BY CandidateInRoot
<1>2. c.root = RootOf(r.type, q)
  BY DEF Candidate
<1>3. PICK i \in DOMAIN subnets : Overlaps(c, subnets[i])
  BY DEF IsFree, existing_subnets
<1>. HIDE DEF c
<1>4. subnets[i] \in Subnet
  BY DEF IInv, TypeOK
<1>5. subnets[i].root = RootOf(r.type, q)
  BY <1>2, <1>3 DEF Overlaps
<1>6. \E a \in First(c)..Last(c) : a \in First(subnets[i])..Last(subnets[i])
  BY <1>1, <1>3, <1>4, OverlapSharesAddress
<1>. QED  BY <1>5, <1>6 DEF c

\* An aligned block of the root is one of the candidates.
LEMMA AlignedIsCandidate ==
    ASSUME NEW r \in Requests, NEW q \in Seqnums, ~IsInvalid(r, q),
           NEW b \in 0..(Size(RootPrefixLen(r.type)) - 1),
           b % Size(hosts_to_prefix(r.hosts)) = 0
    PROVE  \E k \in CandidateIndices(r) :
             /\ b = First(Candidate(r, q, k))
             /\ Last(Candidate(r, q, k)) = b + Size(hosts_to_prefix(r.hosts)) - 1
<1>. DEFINE p == hosts_to_prefix(r.hosts)
            R == Size(RootPrefixLen(r.type))
            s == Size(p)
            k == b \div s
<1>1. p \in 7..32 /\ RootPrefixLen(r.type) \in 7..32 /\ RootPrefixLen(r.type) <= p
  <2>1. p \in 7..31 /\ RootPrefixLen(r.type) \in 8..32
    BY RequestsAssumption, PrefixAssumption, PrefixRange DEF RootPrefixLen
  <2>2. ~(p < RootPrefixLen(r.type))
    BY DEF IsInvalid
  <2>. QED  BY <2>1, <2>2
<1>2. \E n \in Nat : R = n * s
  BY <1>1, SizeDivides
<1>3. R \in Nat /\ s \in Nat /\ s >= 1
  BY <1>1, SizePositive
<1>4. /\ First(Candidate(r, q, k)) = k * s
      /\ Last(Candidate(r, q, k)) = k * s + s - 1
  BY DEF Candidate, First, Last
<1>5. CandidateIndices(r) = 0..(R \div s - 1)
  BY DEF CandidateIndices, LastCandidate
<1>6. b \in 0..(R - 1) /\ b % s = 0
  OBVIOUS
<1>. HIDE DEF p, R, s
<1>7. b = k * s /\ k \in Nat
  <2>1. b \in Nat /\ s \in Nat /\ s >= 1
    BY <1>3, <1>6
  <2>2. b = s * (b \div s) + (b % s) /\ (b \div s) \in Nat
    BY <2>1
  <2>3. s * (b \div s) = (b \div s) * s
    BY <2>1, <2>2
  <2>. QED  BY <1>6, <2>1, <2>2, <2>3
<1>. HIDE DEF k
<1>8. k < R \div s
  <2>1. PICK n \in Nat : R = n * s
    BY <1>2
  <2>2. (n * s) \div s = n
    BY <1>3
  <2>3. k * s < n * s
    BY <1>3, <1>6, <1>7, <2>1
  <2>4. k < n
    <3>1. SUFFICES ASSUME n <= k  PROVE FALSE
      BY <1>7
    <3>2. n * s <= k * s
      BY <1>3, <1>7, <3>1
    <3>3. n * s \in Nat /\ k * s \in Nat
      BY <1>3, <1>7
    <3>. QED  BY <2>3, <3>2, <3>3
  <2>. QED  BY <2>1, <2>2, <2>4
<1>9. k \in CandidateIndices(r)
  <2>1. R \div s \in Int
    BY <1>3
  <2>. QED  BY <1>5, <1>7, <1>8, <2>1
<1>. QED  BY <1>4, <1>7, <1>9 DEF s, p

\* "Subnet exhaustion" is the truth: every aligned block of the size asked for
\* shares an address with a row stored under that root, whatever order and
\* sizes the rows were asked for in.
THEOREM ExhaustionIsReal == Spec => []ExhaustedMeansFull
<1>1. ASSUME PoolInv  PROVE ExhaustedMeansFull
  <2>. DEFINE r == outcome.request
              q == outcome.seqnum
              size == Size(hosts_to_prefix(r.hosts))
              inUse == UNION {First(subnets[i])..Last(subnets[i]) :
                                i \in {j \in DOMAIN subnets :
                                         subnets[j].root = RootOf(r.type, q)}}
  <2>. SUFFICES ASSUME outcome.result = "Subnet exhaustion",
                       NEW b \in 0..(Size(RootPrefixLen(r.type)) - 1),
                       b % size = 0
                PROVE  (b..(b + size - 1)) \cap inUse # {}
    BY DEF ExhaustedMeansFull
  <2>1. IInv /\ r \in Requests /\ q \in Seqnums /\ ~IsInvalid(r, q) /\ NoneFree(r, q)
    BY <1>1 DEF PoolInv, Answered
  <2>2. PICK k \in CandidateIndices(r) : 
             /\ b = First(Candidate(r, q, k))
             /\ Last(Candidate(r, q, k)) = b + size - 1
    <3>. HIDE DEF r, q
    <3>. QED  BY <2>1, AlignedIsCandidate
  <2>3. PICK i \in DOMAIN subnets :
             /\ subnets[i].root = RootOf(r.type, q)
             /\ \E a \in First(Candidate(r, q, k))..Last(Candidate(r, q, k)) :
                   a \in First(subnets[i])..Last(subnets[i])
    <3>1. ~IsFree(r, q, k)
      BY <2>1 DEF NoneFree
    <3>. HIDE DEF r, q
    <3>. QED  BY <2>1, <3>1, TakenCandidate
  <2>4. PICK a \in b..(b + size - 1) : a \in First(subnets[i])..Last(subnets[i])
    <3>. HIDE DEF size
    <3>. QED  BY <2>2, <2>3
  <2>5. a \in inUse
    <3>1. First(subnets[i])..Last(subnets[i])
            \in {First(subnets[t])..Last(subnets[t]) :
                   t \in {j \in DOMAIN subnets : subnets[j].root = RootOf(r.type, q)}}
      BY <2>3
    <3>. QED  BY <2>4, <3>1
  <2>. QED  BY <2>4, <2>5
<1>. QED  BY <1>1, PoolInductive, PTL
=============================================================================
