------------------------- MODULE DomainVersionsProofs -------------------------
(* Theorems about DomainVersions, for every set of domains, of version names *)
(* and of tables, and every number of versions.                              *)
EXTENDS DomainVersions, Extrema, FiniteSetTheorems, SequenceTheorems, TLAPS

IInv == TypeOK /\ DraftIsNewest /\ SessionOnNewest /\ SelfContained

\* The newest row of a domain that has one is a row of it, after all others.
LEMMA NewestRow ==
    ASSUME TypeOK, NEW d, RowsOf(d) # {}
    PROVE  Newest(d) \in RowsOf(d) /\ \A j \in RowsOf(d) : j <= Newest(d)
<1>1. Len(rows) \in Nat /\ RowsOf(d) \subseteq 0..Len(rows)
  BY DEF TypeOK, RowsOf, RowIds
<1>2. \E i \in RowsOf(d) : \A j \in RowsOf(d) : j <= i
  BY <1>1, Greatest
<1>. QED  BY <1>2 DEF Newest

\* A new row is the last, and the others stay as they are.
LEMMA RowAdded ==
    ASSUME TypeOK, NEW row, AddRow(row)
    PROVE  LET n == Len(rows) + 1
           IN  /\ n \notin RowIds /\ RowIds' = RowIds \cup {n}
               /\ \A i \in RowIds' : i <= n
               /\ \A i \in RowIds : rows'[i] = rows[i]
               /\ rows'[n] = row
BY DEF TypeOK, AddRow, RowIds

LEMMA RowAddedType ==
    ASSUME TypeOK, NEW row \in Row, AddRow(row),
           NEW d \in Domains, p_domain' = [domain |-> d, row |-> Len(rows) + 1],
           UNCHANGED stale
    PROVE  TypeOK'
<1>1. /\ rows' \in Seq(Row) /\ Len(rows') = Len(rows) + 1
      /\ Len(rows) < MaxVersions
  BY DEF TypeOK, AddRow
<1>2. p_domain' \in [domain : Domains, row : 0..Len(rows')]
  BY <1>1 DEF TypeOK
<1>3. stale' \subseteq {i \in RowIds' : rows'[i].version # ""}
  BY RowAdded DEF TypeOK, is_frozen
<1>4. Len(rows') <= MaxVersions
  BY <1>1, BoundAssumption DEF TypeOK
<1>. QED  BY <1>1, <1>2, <1>3, <1>4 DEF TypeOK, is_frozen

\* What add, rc_enable, rc_disable, snapshot and deploy do to the one row. Only
\* snapshot, which names it, leaves an object without the name behind.
Changed(i, e) ==
    /\ i \in RowIds
    /\ rows' = [rows EXCEPT ![i] = e]
    /\ UNCHANGED p_domain
    /\ stale' \in {stale \ {i}, stale \cup {i}}
    /\ (UNCHANGED stale /\ e.version = rows[i].version) \/ e.version # ""

LEMMA RowChanged ==
    ASSUME TypeOK, NEW i, NEW e, Changed(i, e)
    PROVE  /\ RowIds' = RowIds
           /\ \A j \in RowIds : rows'[j] = IF j = i THEN e ELSE rows[j]
           /\ e \in Row => TypeOK'
<1>0. rows \in Seq(Row) /\ i \in DOMAIN rows /\ rows' = [rows EXCEPT ![i] = e]
  BY DEF TypeOK, Changed, RowIds
<1>1. /\ RowIds' = RowIds
      /\ \A j \in RowIds : rows'[j] = IF j = i THEN e ELSE rows[j]
  BY <1>0 DEF RowIds
<1>1a. e \in Row => rows' \in Seq(Row) /\ Len(rows') = Len(rows)
  BY <1>0
<1>2. ASSUME NEW j \in stale'  PROVE j \in RowIds /\ rows'[j].version # ""
  <2>1. CASE j # i
    <3>1. j \in stale
      BY <1>2, <2>1 DEF Changed
    <3>. QED  BY <1>1, <2>1, <3>1 DEF TypeOK, is_frozen
  <2>2. CASE j = i
    <3>1. i \in RowIds /\ rows'[i] = e
      BY <1>1 DEF Changed
    <3>2. UNCHANGED stale => rows[i].version # ""
      BY <1>2, <2>2 DEF TypeOK, is_frozen
    <3>3. e.version # ""
      BY <3>2 DEF Changed
    <3>. QED  BY <2>2, <3>1, <3>3
  <2>. QED  BY <2>1, <2>2
<1>3. stale' \subseteq {j \in RowIds' : rows'[j].version # ""}
  BY <1>1, <1>2
<1>4. UNCHANGED p_domain
  BY DEF Changed
<1>5. e \in Row => TypeOK'
  BY <1>1a, <1>3, <1>4 DEF TypeOK, is_frozen
<1>. QED  BY <1>1, <1>5

\* The row after each of those steps.
LEMMA RowAfter ==
    ASSUME TypeOK, NEW i \in RowIds
    PROVE  /\ \A part \in Parts : add(i, part) =>
                 \E e \in Row : /\ Changed(i, e) /\ e.domain = rows[i].domain
                                /\ e.version = rows[i].version /\ e.deployed = rows[i].deployed
                                /\ e.parts = rows[i].parts \cup {part}
           /\ \A cap : rc_enable(i, cap) \/ rc_disable(i, cap) =>
                 \E e \in Row : /\ Changed(i, e) /\ e.domain = rows[i].domain
                                /\ e.version = rows[i].version /\ e.deployed = rows[i].deployed
                                /\ e.parts = rows[i].parts
           /\ \A name \in Names : snapshot(i, name) =>
                 \E e \in Row : /\ Changed(i, e) /\ e.domain = rows[i].domain
                                /\ e.version = name /\ e.deployed = rows[i].deployed
                                /\ e.parts = rows[i].parts
           /\ deploy(i) =>
                 \E e \in Row : /\ Changed(i, e) /\ e.domain = rows[i].domain
                                /\ e.version = rows[i].version /\ e.deployed = TRUE
                                /\ e.parts = rows[i].parts
<1>1. rows[i] \in Row
  BY DEF TypeOK, RowIds
<1>2. ASSUME NEW part \in Parts, add(i, part)
      PROVE  \E e \in Row : /\ Changed(i, e) /\ e.domain = rows[i].domain
                            /\ e.version = rows[i].version /\ e.deployed = rows[i].deployed
                            /\ e.parts = rows[i].parts \cup {part}
  <2>. DEFINE e == [rows[i] EXCEPT !.parts = @ \cup {part}]
  <2>1. /\ e \in Row /\ e.domain = rows[i].domain /\ e.version = rows[i].version
        /\ e.deployed = rows[i].deployed /\ e.parts = rows[i].parts \cup {part}
    BY <1>1 DEF Row
  <2>2. rows' = [rows EXCEPT ![i] = e] /\ UNCHANGED <<p_domain, stale>>
    BY <1>2, Zenon DEF add
  <2>3. stale \in {stale \ {i}, stale \cup {i}}
    OBVIOUS
  <2>. HIDE DEF e
  <2>4. Changed(i, e)
    BY <2>1, <2>2, <2>3 DEF Changed
  <2>. QED  BY <2>1, <2>4
<1>3. ASSUME NEW cap, rc_enable(i, cap) \/ rc_disable(i, cap)
      PROVE  \E e \in Row : /\ Changed(i, e) /\ e.domain = rows[i].domain
                            /\ e.version = rows[i].version /\ e.deployed = rows[i].deployed
                            /\ e.parts = rows[i].parts
  <2>1. PICK S \in SUBSET Capabilities :
               /\ rows' = [rows EXCEPT ![i] = [rows[i] EXCEPT !.enabled = S]]
               /\ UNCHANGED <<p_domain, stale>>
    <3>1. CASE rc_enable(i, cap)
      <4>1. rows[i].enabled \cup {cap} \in SUBSET Capabilities
        BY <1>1, <3>1 DEF Row, rc_enable
      <4>2. rows' = [rows EXCEPT ![i] = [rows[i] EXCEPT !.enabled = rows[i].enabled \cup {cap}]]
        BY <3>1, Zenon DEF rc_enable
      <4>. QED  BY <3>1, <4>1, <4>2 DEF rc_enable
    <3>2. CASE rc_disable(i, cap)
      <4>1. rows[i].enabled \ {cap} \in SUBSET Capabilities
        BY <1>1 DEF Row
      <4>2. rows' = [rows EXCEPT ![i] = [rows[i] EXCEPT !.enabled = rows[i].enabled \ {cap}]]
        BY <3>2, Zenon DEF rc_disable
      <4>. QED  BY <3>2, <4>1, <4>2 DEF rc_disable
    <3>. QED  BY <1>3, <3>1, <3>2
  <2>. DEFINE e == [rows[i] EXCEPT !.enabled = S]
  <2>2. /\ e \in Row /\ e.domain = rows[i].domain /\ e.version = rows[i].version
        /\ e.parts = rows[i].parts /\ e.deployed = rows[i].deployed
    BY <1>1 DEF Row
  <2>3. rows' = [rows EXCEPT ![i] = e]
    BY <2>1
  <2>. HIDE DEF e
  <2>. QED  BY <2>1, <2>2, <2>3 DEF Changed
<1>4. ASSUME NEW name \in Names, snapshot(i, name)
      PROVE  \E e \in Row : /\ Changed(i, e) /\ e.domain = rows[i].domain
                            /\ e.version = name /\ e.deployed = rows[i].deployed
                            /\ e.parts = rows[i].parts
  <2>. DEFINE e == [rows[i] EXCEPT !.version = name]
  <2>1. /\ e \in Row /\ e.domain = rows[i].domain /\ e.version = name
        /\ e.deployed = rows[i].deployed /\ e.parts = rows[i].parts
    BY <1>1 DEF Row
  <2>2. /\ rows' = [rows EXCEPT ![i] = e] /\ UNCHANGED p_domain
        /\ stale' \in {stale \ {i}, stale \cup {i}}
    BY <1>4, Zenon DEF snapshot
  <2>3. name # ""
    BY NamesAssumption
  <2>. HIDE DEF e
  <2>. QED  BY <2>1, <2>2, <2>3 DEF Changed
<1>5. ASSUME deploy(i)
      PROVE  \E e \in Row : /\ Changed(i, e) /\ e.domain = rows[i].domain
                            /\ e.version = rows[i].version /\ e.deployed = TRUE
                            /\ e.parts = rows[i].parts
  <2>. DEFINE e == [rows[i] EXCEPT !.deployed = TRUE]
  <2>1. /\ e \in Row /\ e.domain = rows[i].domain /\ e.version = rows[i].version
        /\ e.parts = rows[i].parts /\ e.deployed = TRUE
    BY <1>1 DEF Row
  <2>2. rows' = [rows EXCEPT ![i] = e] /\ UNCHANGED <<p_domain, stale>>
    BY <1>5, Zenon DEF deploy
  <2>. HIDE DEF e
  <2>. QED  BY <2>1, <2>2 DEF Changed
<1>. QED  BY <1>2, <1>3, <1>4, <1>5

\* What they have in common.
LEMMA RowSteps ==
    ASSUME TypeOK, NEW i \in RowIds,
           \/ \E part \in Parts : add(i, part)
           \/ \E cap \in Capabilities : rc_enable(i, cap) \/ rc_disable(i, cap)
           \/ \E name \in Names : snapshot(i, name)
           \/ deploy(i)
    PROVE  \E e \in Row :
              /\ Changed(i, e)
              /\ e.domain = rows[i].domain
              /\ e.version = "" => rows[i].version = ""
              /\ \/ e.parts = rows[i].parts
                 \/ \E part : /\ Parent(part) \cap Parts \subseteq rows[i].parts
                              /\ e.parts = rows[i].parts \cup {part}
<1>1. ASSUME NEW part \in Parts, add(i, part)
      PROVE  \E e \in Row :
                /\ Changed(i, e) /\ e.domain = rows[i].domain
                /\ e.version = rows[i].version
                /\ Parent(part) \cap Parts \subseteq rows[i].parts
                /\ e.parts = rows[i].parts \cup {part}
  <2>1. Parent(part) \cap Parts \subseteq rows[i].parts
    BY <1>1 DEF add
  <2>. QED  BY <1>1, <2>1, RowAfter
<1>2. ASSUME NEW name \in Names, snapshot(i, name)
      PROVE  \E e \in Row :
                /\ Changed(i, e) /\ e.domain = rows[i].domain
                /\ e.version # "" /\ e.parts = rows[i].parts
  <2>1. name # ""
    BY NamesAssumption
  <2>2. \E e \in Row : /\ Changed(i, e) /\ e.domain = rows[i].domain
                       /\ e.version = name /\ e.parts = rows[i].parts
    BY <1>2, RowAfter
  <2>. QED  BY <2>1, <2>2
<1>3. ASSUME \/ \E cap \in Capabilities : rc_enable(i, cap) \/ rc_disable(i, cap)
             \/ deploy(i)
      PROVE  \E e \in Row :
                /\ Changed(i, e) /\ e.domain = rows[i].domain
                /\ e.version = rows[i].version /\ e.parts = rows[i].parts
  <2>1. CASE deploy(i)
    BY <2>1, RowAfter
  <2>2. CASE \E cap \in Capabilities : rc_enable(i, cap) \/ rc_disable(i, cap)
    BY <2>2, RowAfter
  <2>. QED  BY <1>3, <2>1, <2>2
<1>4. CASE \E part \in Parts : add(i, part)
  BY <1>1, <1>4
<1>5. CASE \E name \in Names : snapshot(i, name)
  BY <1>2, <1>5
<1>6. CASE \/ \E cap \in Capabilities : rc_enable(i, cap) \/ rc_disable(i, cap)
           \/ deploy(i)
  BY <1>3, <1>6
<1>. QED  BY <1>4, <1>5, <1>6
-----------------------------------------------------------------------------
LEMMA InitIInv == Init => IInv
BY BoundAssumption
DEF Init, IInv, TypeOK, DraftIsNewest, SessionOnNewest, SelfContained, RowIds, NoSession

\* The steps on one row keep the invariant: none moves it to another domain,
\* unfreezes it or adds a part without what the part refers to.
LEMMA RowStepsIInv ==
    ASSUME IInv, NEW i \in RowIds,
           \/ \E part \in Parts : add(i, part)
           \/ \E cap \in Capabilities : rc_enable(i, cap) \/ rc_disable(i, cap)
           \/ \E name \in Names : snapshot(i, name)
           \/ deploy(i)
    PROVE  IInv'
<1>1. PICK e \in Row :
         /\ Changed(i, e)
         /\ e.domain = rows[i].domain
         /\ e.version = "" => rows[i].version = ""
         /\ \/ e.parts = rows[i].parts
            \/ \E part : /\ Parent(part) \cap Parts \subseteq rows[i].parts
                         /\ e.parts = rows[i].parts \cup {part}
  BY RowSteps DEF IInv
<1>2. /\ TypeOK' /\ RowIds' = RowIds /\ UNCHANGED p_domain
      /\ \A j \in RowIds : rows'[j] = IF j = i THEN e ELSE rows[j]
  <2>1. Changed(i, e) /\ TypeOK
    BY <1>1 DEF IInv
  <2>2. UNCHANGED p_domain
    BY <2>1 DEF Changed
  <2>. QED  BY <2>1, <2>2, RowChanged
<1>3. \A j \in RowIds : /\ rows'[j].domain = rows[j].domain
                        /\ rows'[j].version = "" => rows[j].version = ""
  BY <1>1, <1>2 DEF is_frozen
<1>4. DraftIsNewest'
  BY <1>2, <1>3 DEF IInv, DraftIsNewest, is_frozen
<1>5. SessionOnNewest'
  <2>1. \A d : RowsOf(d)' = RowsOf(d)
    BY <1>2, <1>3 DEF RowsOf
  <2>2. p_domain.row > 0 => p_domain.row \in RowIds
    BY DEF IInv, TypeOK, NoSession, RowIds
  <2>. QED  BY <1>2, <1>3, <2>1, <2>2 DEF IInv, SessionOnNewest
<1>6. SelfContained'
  <2>1. \A part \in e.parts : Parent(part) \cap Parts \subseteq e.parts
    BY <1>1 DEF IInv, SelfContained
  <2>. QED  BY <1>2, <2>1 DEF IInv, SelfContained
<1>. QED  BY <1>2, <1>4, <1>5, <1>6 DEF IInv

\* A new draft of a domain without one, which becomes the session's, keeps it.
LEMMA AddRowIInv ==
    ASSUME IInv, NEW d \in Domains, NEW parts \in SUBSET Parts,
           NEW enabled \in SUBSET Capabilities,
           AddRow(NewRow(d, parts, enabled)),
           p_domain' = [domain |-> d, row |-> Len(rows) + 1],
           UNCHANGED stale,
           ~Taken(d, ""),
           \A part \in parts : Parent(part) \cap Parts \subseteq parts
    PROVE  IInv'
<1>. DEFINE n == Len(rows) + 1
            r == NewRow(d, parts, enabled)
<1>1. r \in Row /\ r.domain = d /\ r.version = "" /\ r.parts = parts
  BY DEF NewRow, Row
<1>2. TypeOK'
  BY <1>1, RowAddedType DEF IInv
<1>3. /\ n \notin RowIds /\ RowIds' = RowIds \cup {n}
      /\ \A i \in RowIds' : i <= n
      /\ \A i \in RowIds : rows'[i] = rows[i]
      /\ rows'[n] = r
  BY RowAdded DEF IInv
<1>4. p_domain'.row = n /\ p_domain'.domain = d
  OBVIOUS
<1>. HIDE DEF n, r
<1>6. \A i \in RowIds : rows[i].domain = d => rows[i].version # ""
  BY DEF Taken, RowsOf
<1>7. DraftIsNewest'
  <2>1. SUFFICES ASSUME NEW i \in RowIds', NEW j \in RowIds',
                        rows'[i].domain = rows'[j].domain, rows'[i].version = ""
                 PROVE  j <= i
    BY DEF DraftIsNewest, is_frozen
  <2>2. CASE i = n
    BY <1>3, <2>1, <2>2
  <2>3. CASE i \in RowIds /\ j \in RowIds
    BY <1>3, <2>1, <2>3 DEF IInv, DraftIsNewest, is_frozen
  <2>4. CASE i \in RowIds /\ j = n
    BY <1>1, <1>3, <1>6, <2>1, <2>4
  <2>. QED  BY <1>3, <2>1, <2>2, <2>3, <2>4
<1>8. SessionOnNewest'
  <2>2. rows'[p_domain'.row].domain = p_domain'.domain
    BY <1>1, <1>3, <1>4
  <2>. QED  BY <1>4, <1>3, <2>2 DEF SessionOnNewest, RowsOf
<1>9. SelfContained'
  BY <1>1, <1>3 DEF IInv, SelfContained
<1>. QED  BY <1>2, <1>7, <1>8, <1>9 DEF IInv

\* A clone has every row its rows refer to: what the loops do not walk over and
\* something they reach refers to is descended into.
LEMMA CloneClosed ==
    ASSUME NEW parts \in SUBSET Parts,
           \A part \in parts : Parent(part) \cap Parts \subseteq parts
    PROVE  /\ CloneOf(parts) \in SUBSET Parts
           /\ \A part \in CloneOf(parts) : Parent(part) \cap Parts \subseteq CloneOf(parts)
<1>1. CloneOf(parts) \subseteq parts
  BY DEF CloneOf
<1>2. ASSUME NEW part \in CloneOf(parts), part \in Walked
      PROVE  Parent(part) \cap Parts \subseteq CloneOf(parts)
  BY <1>1, <1>2 DEF CloneOf
<1>3. ASSUME NEW part \in CloneOf(parts), part \notin Walked  PROVE Parent(part) = {}
  <2>1. PICK w \in Walked : part \in Parent(w)
    BY <1>3 DEF CloneOf
  <2>2. part = "role"
    BY <1>3, <2>1 DEF Walked, AllParts, Parent
  <2>. QED  BY <2>2 DEF Parent
<1>. QED  BY <1>1, <1>2, <1>3

LEMMA NextIInv == IInv /\ [Next]_vars => IInv'
<1>. SUFFICES ASSUME IInv, [Next]_vars  PROVE IInv'
  OBVIOUS
<1>0. TypeOK /\ DraftIsNewest /\ SelfContained
  BY DEF IInv
<1>1. ASSUME NEW d \in Domains, set_domain_Found(d)  PROVE IInv'
  <2>1. Newest(d) \in RowsOf(d) /\ \A j \in RowsOf(d) : j <= Newest(d)
    BY <1>0, <1>1, NewestRow DEF set_domain_Found
  <2>2. UNCHANGED <<rows, stale>> /\ p_domain' = [domain |-> d, row |-> Newest(d)]
    BY <1>1 DEF set_domain_Found
  <2>3. p_domain'.row = Newest(d) /\ p_domain'.domain = d
    BY <2>2
  <2>4. Newest(d) \in 1..Len(rows) /\ rows[Newest(d)].domain = d
    BY <1>0, <2>1 DEF TypeOK, RowsOf, RowIds
  <2>5. TypeOK'
    <3>1. p_domain' \in [domain : Domains, row : 0..Len(rows)]
      BY <1>0, <2>2, <2>4 DEF TypeOK
    <3>. QED  BY <1>0, <2>2, <3>1 DEF TypeOK, RowIds, is_frozen
  <2>6. SessionOnNewest'
    BY <2>1, <2>2, <2>3, <2>4 DEF SessionOnNewest, RowsOf, RowIds
  <2>. QED  BY <1>0, <2>2, <2>5, <2>6
            DEF IInv, DraftIsNewest, SelfContained, RowIds, is_frozen
<1>2. ASSUME NEW d \in Domains, set_domain_Create(d)  PROVE IInv'
  <2>. DEFINE parts == {"subnet"} \cap Parts
  <2>1. parts \in SUBSET Parts /\ \A part \in parts : Parent(part) \cap Parts \subseteq parts
    BY DEF Parent
  <2>2. ~Taken(d, "")
    BY <1>2 DEF set_domain_Create, Taken
  <2>3. /\ AddRow(NewRow(d, parts, {}))
        /\ p_domain' = [domain |-> d, row |-> Len(rows) + 1]
        /\ UNCHANGED stale
    BY <1>2 DEF set_domain_Create
  <2>. HIDE DEF parts
  <2>4. {} \in SUBSET Capabilities /\ 0 \in Nat
    OBVIOUS
  <2>. QED  BY <2>1, <2>2, <2>3, <2>4, AddRowIInv
<1>3. ASSUME \/ \E d \in Domains : set_domain_Fails(d)
             \/ \E i \in RowIds : Refresh(i)
             \/ Restart
             \/ UNCHANGED vars
      PROVE  IInv'
  <2>1. UNCHANGED rows /\ stale' \subseteq stale
    BY <1>3 DEF set_domain_Fails, Refresh, Restart, vars
  <2>2. \/ UNCHANGED p_domain
        \/ p_domain' = NoSession
        \/ \E d \in Domains : p_domain' = [domain |-> d, row |-> 0]
    BY <1>3 DEF set_domain_Fails, Phantom, Refresh, Restart, vars
  <2>3. UNCHANGED p_domain \/ p_domain'.row = 0
    BY <2>2 DEF NoSession
  <2>4. TypeOK'
    <3>1. stale' \subseteq {i \in RowIds' : rows'[i].version # ""}
      BY <1>0, <2>1 DEF TypeOK, RowIds, is_frozen
    <3>2. p_domain' = NoSession \/ p_domain' \in [domain : Domains, row : 0..Len(rows)]
      BY <1>0, <2>2 DEF TypeOK
    <3>. QED  BY <1>0, <2>1, <3>1, <3>2 DEF TypeOK, is_frozen
  <2>5. SessionOnNewest'
    BY <2>1, <2>3 DEF IInv, SessionOnNewest, RowsOf, RowIds
  <2>. QED  BY <1>0, <2>1, <2>4, <2>5
            DEF IInv, DraftIsNewest, SelfContained, RowIds, is_frozen
<1>4. ASSUME NEW i \in RowIds, txnclone(i)  PROVE IInv'
  <2>0. rows \in Seq(Row) /\ i \in Nat
    <3>1. rows \in Seq(Row)
      BY <1>0 DEF TypeOK
    <3>. QED  BY <3>1 DEF RowIds
  <2>1. rows[i] \in Row
    BY <1>0 DEF TypeOK, RowIds
  <2>2. /\ rows[i].domain \in Domains /\ rows[i].parts \in SUBSET Parts
        /\ rows[i].enabled \in SUBSET Capabilities /\ i \in Nat
    BY <2>1, <2>0 DEF Row
  <2>3. /\ CloneOf(rows[i].parts) \in SUBSET Parts
        /\ \A part \in CloneOf(rows[i].parts) :
              Parent(part) \cap Parts \subseteq CloneOf(rows[i].parts)
    BY <1>0, <2>2, CloneClosed DEF SelfContained
  <2>. QED  BY <1>4, <2>2, <2>3, AddRowIInv DEF txnclone
<1>. QED  BY <1>1, <1>2, <1>3, <1>4, RowStepsIInv DEF Next

LEMMA IInvAlways == Spec => []IInv
BY InitIInv, NextIInv, PTL DEF Spec

\* The rows and the session stay well formed.
THEOREM VersionTypes == Spec => []TypeOK
<1>1. IInv => TypeOK
  BY DEF IInv
<1>. QED  BY <1>1, IInvAlways, PTL

\* A version that is not frozen is the newest of its domain, so that there is
\* one at most, whatever is cloned, snapshotted and rolled back.
THEOREM DraftAlwaysNewest == Spec => []DraftIsNewest
<1>1. IInv => DraftIsNewest
  BY DEF IInv
<1>. QED  BY <1>1, IInvAlways, PTL

\* The session never hands out a version that has a successor.
THEOREM SessionAlwaysNewest == Spec => []SessionOnNewest
<1>1. IInv => SessionOnNewest
  BY DEF IInv
<1>. QED  BY <1>1, IInvAlways, PTL

\* No clone, and nothing done to a clone, leaves a row that refers into another
\* version of the domain.
THEOREM AlwaysSelfContained == Spec => []SelfContained
<1>1. IInv => SelfContained
  BY DEF IInv
<1>. QED  BY <1>1, IInvAlways, PTL

-----------------------------------------------------------------------------
\* The element of each rank, and the rank of each element.
LEMMA RankGrows ==
    ASSUME NEW S, S \subseteq Nat, IsFiniteSet(S), NEW i \in S, NEW j \in S, i < j
    PROVE  Rank(S, i) < Rank(S, j)
<1>. DEFINE A == {k \in S : k <= i}
            B == {k \in S : k <= j}
<1>1. IsFiniteSet(A) /\ IsFiniteSet(B)
  BY FS_Subset
<1>2. j \notin A /\ A \cup {j} \subseteq B
  <2>1. ASSUME NEW k \in S, k <= i  PROVE k <= j
    <3>1. i \in Nat /\ j \in Nat /\ k \in Nat
      OBVIOUS
    <3>. QED  BY <2>1, <3>1
  <2>2. i \in Nat /\ j \in Nat /\ ~(j <= i) /\ j <= j
    OBVIOUS
  <2>. QED  BY <2>1, <2>2
<1>. HIDE DEF A, B
<1>3. IsFiniteSet(A \cup {j}) /\ Cardinality(A \cup {j}) = Cardinality(A) + 1
  BY <1>1, <1>2, FS_AddElement
<1>4. Cardinality(A \cup {j}) <= Cardinality(B)
  BY <1>1, <1>2, FS_Subset
<1>5. Cardinality(A) \in Nat /\ Cardinality(B) \in Nat
  BY <1>1, FS_CardinalityType
<1>6. Cardinality(A) < Cardinality(B)
  BY <1>3, <1>4, <1>5
<1>. QED  BY <1>6 DEF Rank, A, B

LEMMA RankRange ==
    ASSUME NEW S, S \subseteq Nat, IsFiniteSet(S), NEW i \in S
    PROVE  Rank(S, i) \in 1..Cardinality(S)
<1>. DEFINE A == {k \in S : k <= i}
<1>1. IsFiniteSet(A) /\ Cardinality(A) <= Cardinality(S)
  BY FS_Subset
<1>2. i \in A
  OBVIOUS
<1>. HIDE DEF A
<1>3. Cardinality(A) \in Nat /\ Cardinality(A) # 0 /\ Cardinality(S) \in Nat
  BY <1>1, <1>2, FS_CardinalityType, FS_EmptySet
<1>4. Cardinality(A) \in 1..Cardinality(S)
  BY <1>1, <1>3
<1>. QED  BY <1>4 DEF Rank, A

\* From the greatest element, which has the highest rank, down.
LEMMA RankReached ==
    ASSUME NEW m \in Nat, NEW S, S \subseteq 0..m, IsFiniteSet(S), NEW n \in 1..Cardinality(S)
    PROVE  \E i \in S : Rank(S, i) = n
<1>. DEFINE c == Cardinality(S)
            G == {t \in Nat : t < c => \E i \in S : Rank(S, i) = c - t}
<1>0. c \in Nat /\ S \subseteq Nat
  BY FS_CardinalityType
<1>1. 0 \in G
  <2>. SUFFICES ASSUME 0 < c  PROVE \E i \in S : Rank(S, i) = c - 0
    OBVIOUS
  <2>1. S # {}
    BY FS_EmptySet
  <2>2. PICK i \in S : \A j \in S : j <= i
    BY <2>1, Greatest
  <2>3. {j \in S : j <= i} = S
    BY <2>2
  <2>4. Rank(S, i) = c
    BY <2>3 DEF Rank
  <2>. HIDE DEF c
  <2>. QED  BY <1>0, <2>4
<1>2. ASSUME NEW t \in Nat, t \in G  PROVE t + 1 \in G
  <2>. SUFFICES ASSUME t + 1 < c  PROVE \E i \in S : Rank(S, i) = c - (t + 1)
    BY DEF G
  <2>. HIDE DEF c
  <2>1. t < c
    BY <1>0
  <2>2. PICK i \in S : Rank(S, i) = c - t
    BY <1>2, <2>1
  <2>. DEFINE B == {j \in S : j < i}
              A == {j \in S : j <= i}
  <2>3. A = B \cup {i} /\ i \notin B /\ IsFiniteSet(B)
    <3>1. \A j \in S : j \in Nat
      BY <1>0
    <3>2. ASSUME NEW j \in S  PROVE j <= i <=> j < i \/ j = i
      <4>1. i \in Nat /\ j \in Nat
        BY <3>1
      <4>. QED  BY <4>1
    <3>3. i \in Nat /\ ~(i < i)
      BY <3>1
    <3>4. A = B \cup {i} /\ i \notin B
      BY <3>2, <3>3
    <3>. QED  BY <3>4, FS_Subset
  <2>4. Cardinality(A) = c - t
    BY <2>2 DEF Rank
  <2>5. B \subseteq S /\ \A j \in S : j < i => j \in B
    OBVIOUS
  <2>5a. \A j \in B : j < i
    OBVIOUS
  <2>. HIDE DEF A, B
  <2>6. Cardinality(A) = Cardinality(B) + 1 /\ Cardinality(B) \in Nat
    BY <2>3, FS_AddElement, FS_CardinalityType
  <2>7. Cardinality(B) = c - (t + 1)
    BY <1>0, <2>4, <2>6
  <2>8. B # {}
    BY <1>0, <2>3, <2>7, FS_EmptySet
  <2>9. B \subseteq 0..m
    BY <2>5
  <2>10. PICK k \in B : \A j \in B : j <= k
    BY <2>8, <2>9, Greatest
  <2>11. {j \in S : j <= k} = B
    <3>1. ASSUME NEW j \in S, j <= k  PROVE j \in B
      <4>1. k < i /\ k \in Nat /\ j \in Nat /\ i \in Nat
        BY <1>0, <2>5, <2>5a, <2>10
      <4>2. j < i
        BY <3>1, <4>1
      <4>. QED  BY <2>5, <4>2
    <3>. QED  BY <2>5, <2>10, <3>1
  <2>12. k \in S /\ Rank(S, k) = c - (t + 1)
    BY <2>5, <2>7, <2>11 DEF Rank
  <2>. QED  BY <2>12
<1>3. c - n \in Nat /\ c - n < c /\ c - (c - n) = n
  BY <1>0
<1>4. c - n \in G
  <2>. HIDE DEF G
  <2>. QED  BY <1>1, <1>2, <1>3, Induction
<1>. QED  BY <1>3, <1>4

LEMMA NthIs ==
    ASSUME NEW m \in Nat, NEW S, S \subseteq 0..m, IsFiniteSet(S)
    PROVE  /\ \A n \in 1..Cardinality(S) : Nth(S, n) \in S /\ Rank(S, Nth(S, n)) = n
           /\ \A i \in S : Rank(S, i) \in 1..Cardinality(S) /\ Nth(S, Rank(S, i)) = i
<1>1. ASSUME NEW n \in 1..Cardinality(S)
      PROVE  Nth(S, n) \in S /\ Rank(S, Nth(S, n)) = n
  <2>1. \E i \in S : Rank(S, i) = n
    BY RankReached
  <2>. QED  BY <2>1 DEF Nth
<1>2. ASSUME NEW i \in S
      PROVE  Rank(S, i) \in 1..Cardinality(S) /\ Nth(S, Rank(S, i)) = i
  <2>1. S \subseteq Nat
    OBVIOUS
  <2>2. Rank(S, i) \in 1..Cardinality(S)
    BY <2>1, RankRange
  <2>. DEFINE j == Nth(S, Rank(S, i))
  <2>3. j \in S /\ Rank(S, j) = Rank(S, i)
    BY <1>1, <2>2
  <2>. HIDE DEF j
  <2>4. i \in Nat /\ j \in Nat
    BY <2>1, <2>3
  <2>4a. Rank(S, i) \in Nat
    BY <2>2
  <2>5. i < j => Rank(S, i) < Rank(S, j)
    BY <2>1, <2>3, RankGrows
  <2>6. j < i => Rank(S, j) < Rank(S, i)
    BY <2>1, <2>3, RankGrows
  <2>7. i = j
    BY <2>3, <2>4, <2>4a, <2>5, <2>6
  <2>. QED  BY <2>2, <2>7 DEF j
<1>. QED  BY <1>1, <1>2

\* An element after all the others comes last.
LEMMA NthAdded ==
    ASSUME NEW m \in Nat, NEW S, S \subseteq 0..m, IsFiniteSet(S),
           NEW i \in 0..m, i \notin S, \A j \in S : j < i
    PROVE  /\ Cardinality(S \cup {i}) = Cardinality(S) + 1
           /\ Nth(S \cup {i}, Cardinality(S) + 1) = i
<1>. DEFINE T == S \cup {i}
            c == Cardinality(S)
<1>1. IsFiniteSet(T) /\ Cardinality(T) = c + 1 /\ c \in Nat
  BY FS_AddElement, FS_CardinalityType
<1>2. T \subseteq 0..m /\ i \in T /\ S \subseteq T
  OBVIOUS
<1>3. {j \in T : j <= i} = T
  <2>1. ASSUME NEW j \in T  PROVE j <= i
    <3>1. j \in Nat /\ i \in Nat
      OBVIOUS
    <3>2. j = i \/ j < i
      OBVIOUS
    <3>. QED  BY <3>1, <3>2
  <2>. QED  BY <2>1
<1>. HIDE DEF T, c
<1>4. Rank(T, i) = c + 1
  BY <1>1, <1>3 DEF Rank
<1>5. Nth(T, Rank(T, i)) = i
  BY <1>1, <1>2, NthIs
<1>. QED  BY <1>1, <1>4, <1>5 DEF T, c

LEMMA RankAdded ==
    ASSUME NEW m \in Nat, NEW S, S \subseteq 0..m, IsFiniteSet(S),
           NEW i \in 0..m, i \notin S, \A j \in S : j < i
    PROVE  /\ Rank(S \cup {i}, i) = Cardinality(S) + 1
           /\ \A j \in S : Rank(S \cup {i}, j) = Rank(S, j)
<1>1. {j \in S \cup {i} : j <= i} = S \cup {i}
  <2>1. ASSUME NEW j \in S \cup {i}  PROVE j <= i
    <3>1. j \in Nat /\ i \in Nat
      OBVIOUS
    <3>2. j = i \/ j < i
      OBVIOUS
    <3>. QED  BY <3>1, <3>2
  <2>. QED  BY <2>1
<1>2. Cardinality(S \cup {i}) = Cardinality(S) + 1
  BY FS_AddElement
<1>3. \A j \in S : {k \in S \cup {i} : k <= j} = {k \in S : k <= j}
  OBVIOUS
<1>. QED  BY <1>1, <1>2, <1>3 DEF Rank

\* The others keep their place.
LEMMA NthKept ==
    ASSUME NEW m \in Nat, NEW S, S \subseteq 0..m, IsFiniteSet(S),
           NEW i \in 0..m, i \notin S, \A j \in S : j < i,
           NEW n \in 1..Cardinality(S)
    PROVE  Nth(S \cup {i}, n) = Nth(S, n)
<1>. DEFINE T == S \cup {i}
<1>1. T \subseteq 0..m /\ S \subseteq T /\ IsFiniteSet(T)
  BY FS_AddElement
<1>2. \A j \in S : {k \in T : k <= j} = {k \in S : k <= j}
  OBVIOUS
<1>. HIDE DEF T
<1>3. \A j \in S : Rank(T, j) = Rank(S, j)
  BY <1>2 DEF Rank
<1>4. \A j \in T : Nth(T, Rank(T, j)) = j
  BY <1>1, NthIs
<1>5. Nth(S, n) \in S /\ Rank(S, Nth(S, n)) = n
  BY NthIs
<1>6. Nth(T, n) = Nth(S, n)
  BY <1>1, <1>3, <1>4, <1>5
<1>. QED  BY <1>6 DEF T

-----------------------------------------------------------------------------
\* The frozen rows of a domain are finitely many row numbers, and a draft is
\* its only row that is not one of them.
LEMMA FrozenRowsAre ==
    ASSUME TypeOK, NEW d
    PROVE  /\ Len(rows) \in Nat /\ FrozenRows(d) \subseteq 0..Len(rows)
           /\ IsFiniteSet(FrozenRows(d)) /\ Cardinality(FrozenRows(d)) \in Nat
<1>1. Len(rows) \in Nat /\ RowIds = 1..Len(rows)
  BY DEF TypeOK, RowIds
<1>2. FrozenRows(d) \subseteq 0..Len(rows)
  BY <1>1 DEF FrozenRows, RowsOf
<1>3. IsFiniteSet(0..Len(rows))
  <2>1. 0 \in Int /\ Len(rows) \in Int
    BY <1>1
  <2>. QED  BY <2>1, FS_Interval
<1>4. IsFiniteSet(FrozenRows(d))
  BY <1>2, <1>3, FS_Subset
<1>. QED  BY <1>1, <1>2, <1>4, FS_CardinalityType

LEMMA DraftsApart ==
    ASSUME IInv, NEW i \in RowIds, ~is_frozen(i)
    PROVE  /\ RowsOf(rows[i].domain) \ FrozenRows(rows[i].domain) = {i}
           /\ \A j \in FrozenRows(rows[i].domain) : j < i
<1>1. \A j \in RowsOf(rows[i].domain) : j \in RowIds /\ rows[j].domain = rows[i].domain
  BY DEF RowsOf
<1>2. \A j \in RowIds : j \in Nat
  BY DEF IInv, TypeOK, RowIds
<1>3. \A j \in RowsOf(rows[i].domain) : j <= i
  BY <1>1 DEF IInv, DraftIsNewest
<1>4. \A j \in RowsOf(rows[i].domain) : ~is_frozen(j) => i <= j
  BY <1>1 DEF IInv, DraftIsNewest
<1>5. \A j \in RowsOf(rows[i].domain) : ~is_frozen(j) => j = i
  BY <1>1, <1>2, <1>3, <1>4
<1>6. i \in RowsOf(rows[i].domain)
  BY DEF RowsOf
<1>7. ASSUME NEW j \in FrozenRows(rows[i].domain)  PROVE j < i
  <2>1. j # i /\ j \in RowsOf(rows[i].domain)
    BY <1>7 DEF FrozenRows
  <2>. QED  BY <1>1, <1>2, <1>3, <2>1
<1>. QED  BY <1>5, <1>6, <1>7 DEF FrozenRows

\* The log has the entry of each frozen row at the row's rank.
LEMMA LogIs ==
    ASSUME TypeOK, NEW d
    PROVE  /\ DOMAIN LogOf(d) = 1..Cardinality(FrozenRows(d))
           /\ LogOf(d) \in Seq({LogEntry(rows[i]) : i \in FrozenRows(d)})
           /\ Len(LogOf(d)) = Cardinality(FrozenRows(d))
           /\ \A n \in DOMAIN LogOf(d) :
                 /\ Nth(FrozenRows(d), n) \in FrozenRows(d)
                 /\ LogOf(d)[n] = LogEntry(rows[Nth(FrozenRows(d), n)])
           /\ \A i \in FrozenRows(d) :
                 /\ Rank(FrozenRows(d), i) \in DOMAIN LogOf(d)
                 /\ Nth(FrozenRows(d), Rank(FrozenRows(d), i)) = i
<1>. DEFINE F == FrozenRows(d)
            E == {LogEntry(rows[i]) : i \in F}
            c == Cardinality(F)
<1>1. F \subseteq 0..Len(rows) /\ Len(rows) \in Nat /\ IsFiniteSet(F) /\ c \in Nat
  BY FrozenRowsAre
<1>2. LogOf(d) = [n \in 1..c |-> LogEntry(rows[Nth(F, n)])]
  BY DEF LogOf
<1>. HIDE DEF F, c
<1>3. /\ \A n \in 1..c : Nth(F, n) \in F
      /\ \A i \in F : Rank(F, i) \in 1..c /\ Nth(F, Rank(F, i)) = i
  BY <1>1, NthIs DEF c
<1>4. \A n \in 1..c : LogEntry(rows[Nth(F, n)]) \in E
  BY <1>3
<1>. HIDE DEF E
<1>5. LogOf(d) \in [1..c -> E]
  BY <1>2, <1>4
<1>6. LogOf(d) \in Seq(E)
  <2>. HIDE DEF LogOf
  <2>. QED  BY <1>1, <1>5, SeqDef
<1>7. Len(LogOf(d)) = c
  BY <1>1, <1>5, <1>6
<1>. QED  BY <1>2, <1>3, <1>5, <1>6, <1>7 DEF F, c, E

LEMMA SeqExtended ==
    ASSUME NEW S, NEW q \in Seq(S), NEW e, NEW n \in Nat, n = Len(q) + 1,
           NEW f, f = [k \in 1..n |-> f[k]],
           \A k \in 1..Len(q) : f[k] = q[k], f[n] = e
    PROVE  f = Append(q, e)
<1>. DEFINE g == Append(q, e)
<1>1. q \in Seq(S \cup {e}) /\ e \in S \cup {e}
  <2>1. S \subseteq S \cup {e}
    OBVIOUS
  <2>. QED  BY <2>1, SeqMonotonic
<1>2. /\ g \in Seq(S \cup {e}) /\ Len(g) = n
      /\ \A k \in 1..Len(q) : g[k] = q[k]
      /\ g[n] = e
  BY <1>1, AppendProperties
<1>3. ASSUME NEW k \in 1..n  PROVE f[k] = g[k]
  <2>1. Len(q) \in Nat
    OBVIOUS
  <2>2. k = n \/ k \in 1..Len(q)
    BY <2>1
  <2>. QED  BY <1>2, <2>2
<1>. HIDE DEF g
<1>4. g = [k \in 1..n |-> g[k]]
  BY <1>2
<1>. QED  BY <1>3, <1>4 DEF g

-----------------------------------------------------------------------------
\* What a version log sees of a domain whose rows stay, but for their switches.
LEMMA DomainSame ==
    ASSUME TypeOK, NEW d, RowsOf(d)' = RowsOf(d),
           \A i \in RowsOf(d) : LogEntry(rows'[i]) = LogEntry(rows[i])
    PROVE  /\ LogOf(d)' = LogOf(d) /\ DraftOf(d)' = DraftOf(d)
           /\ FrozenRows(d)' = FrozenRows(d)
<1>1. ASSUME NEW i \in RowsOf(d)
      PROVE  rows'[i].version = rows[i].version /\ rows'[i].parts = rows[i].parts
  <2>1. LogEntry(rows'[i]) = LogEntry(rows[i])
    OBVIOUS
  <2>. QED  BY <2>1 DEF LogEntry
<1>2. FrozenRows(d)' = FrozenRows(d)
  BY <1>1 DEF FrozenRows, is_frozen
<1>3. \A n \in 1..Cardinality(FrozenRows(d)) : Nth(FrozenRows(d), n) \in RowsOf(d)
  <2>1. FrozenRows(d) \subseteq RowsOf(d)
    BY DEF FrozenRows
  <2>. QED  BY <2>1, LogIs
<1>4. LogOf(d)' = LogOf(d)
  BY <1>2, <1>3 DEF LogOf
<1>5. DraftOf(d)' = DraftOf(d)
  BY <1>1, <1>2 DEF DraftOf
<1>. QED  BY <1>2, <1>4, <1>5

LEMMA LooseSame ==
    ASSUME NEW d, FrozenRows(d)' = FrozenRows(d), RowsOf(d)' = RowsOf(d),
           stale' \cap RowsOf(d) = stale \cap RowsOf(d)
    PROVE  LooseOf(d)' = LooseOf(d)
BY DEF LooseOf

\* A step on one row, and one that adds a row, leave the other domains alone.
LEMMA RowChangedElsewhere ==
    ASSUME TypeOK, NEW i, NEW e, Changed(i, e), e.domain = rows[i].domain, NEW d
    PROVE  /\ RowsOf(d)' = RowsOf(d)
           /\ d # rows[i].domain => /\ LogOf(d)' = LogOf(d) /\ DraftOf(d)' = DraftOf(d)
                                    /\ LooseOf(d)' = LooseOf(d)
<1>1. /\ RowIds' = RowIds
      /\ \A j \in RowIds : rows'[j] = IF j = i THEN e ELSE rows[j]
  BY RowChanged
<1>2. RowsOf(d)' = RowsOf(d)
  BY <1>1 DEF RowsOf
<1>3. ASSUME d # rows[i].domain
      PROVE  /\ LogOf(d)' = LogOf(d) /\ DraftOf(d)' = DraftOf(d)
             /\ LooseOf(d)' = LooseOf(d)
  <2>1. \A j \in RowsOf(d) : rows'[j] = rows[j]
    BY <1>1, <1>3 DEF RowsOf
  <2>2. \A j \in RowsOf(d) : LogEntry(rows'[j]) = LogEntry(rows[j])
    BY <2>1
  <2>3. /\ LogOf(d)' = LogOf(d) /\ DraftOf(d)' = DraftOf(d)
        /\ FrozenRows(d)' = FrozenRows(d)
    BY <1>2, <2>2, DomainSame
  <2>4. i \notin RowsOf(d)
    BY <1>3 DEF RowsOf
  <2>5. stale' \cap RowsOf(d) = stale \cap RowsOf(d)
    BY <2>4 DEF Changed
  <2>. QED  BY <1>2, <2>3, <2>5, LooseSame
<1>. QED  BY <1>2, <1>3

LEMMA RowAddedElsewhere ==
    ASSUME TypeOK, NEW r, AddRow(r), UNCHANGED stale, NEW d, d # r.domain
    PROVE  LogOf(d)' = LogOf(d) /\ DraftOf(d)' = DraftOf(d) /\ LooseOf(d)' = LooseOf(d)
<1>. DEFINE n == Len(rows) + 1
<1>1. /\ n \notin RowIds /\ RowIds' = RowIds \cup {n}
      /\ \A i \in RowIds : rows'[i] = rows[i]
      /\ rows'[n] = r
  BY RowAdded
<1>. HIDE DEF n
<1>2. RowsOf(d)' = RowsOf(d) /\ \A i \in RowsOf(d) : rows'[i] = rows[i]
  BY <1>1 DEF RowsOf
<1>3. \A i \in RowsOf(d) : LogEntry(rows'[i]) = LogEntry(rows[i])
  BY <1>2
<1>4. /\ LogOf(d)' = LogOf(d) /\ DraftOf(d)' = DraftOf(d)
      /\ FrozenRows(d)' = FrozenRows(d)
  BY <1>2, <1>3, DomainSame
<1>. QED  BY <1>2, <1>4, LooseSame

\* The log of logs then changes at most at one domain.
LEMMA OneDomainMoves ==
    ASSUME NEW d \in Domains,
           \A o \in Domains : o # d => /\ LogOf(o)' = LogOf(o) /\ DraftOf(o)' = DraftOf(o)
                                        /\ LooseOf(o)' = LooseOf(o)
    PROVE  /\ Logs' = [Logs EXCEPT ![d] = LogOf(d)']
           /\ Drafts' = [Drafts EXCEPT ![d] = DraftOf(d)']
           /\ Loose' = [Loose EXCEPT ![d] = LooseOf(d)']
           /\ Logs[d] = LogOf(d) /\ Drafts[d] = DraftOf(d) /\ Loose[d] = LooseOf(d)
BY DEF Logs, Drafts, Loose

\* A new draft of a domain without one.
LEMMA DraftAdded ==
    ASSUME TypeOK, NEW r, AddRow(r), UNCHANGED stale,
           r.version = "", ~Taken(r.domain, "")
    PROVE  /\ LogOf(r.domain)' = LogOf(r.domain)
           /\ LooseOf(r.domain)' = LooseOf(r.domain)
           /\ DraftOf(r.domain) = {} /\ DraftOf(r.domain)' = {r.parts}
<1>. DEFINE n == Len(rows) + 1
            d == r.domain
<1>1. /\ n \notin RowIds /\ RowIds' = RowIds \cup {n}
      /\ \A i \in RowIds : rows'[i] = rows[i]
      /\ rows'[n] = r
  BY RowAdded
<1>. HIDE DEF n
<1>2. RowsOf(d)' = RowsOf(d) \cup {n} /\ n \notin RowsOf(d)
  BY <1>1 DEF RowsOf
<1>3. \A i \in RowsOf(d) : rows'[i] = rows[i] /\ is_frozen(i)
  BY <1>1 DEF RowsOf, Taken, is_frozen
<1>4. FrozenRows(d) = RowsOf(d) /\ FrozenRows(d)' = FrozenRows(d)
  BY <1>1, <1>2, <1>3 DEF FrozenRows, is_frozen
<1>5. DraftOf(d) = {} /\ DraftOf(d)' = {r.parts}
  <2>1. RowsOf(d) \ FrozenRows(d) = {} /\ RowsOf(d)' \ FrozenRows(d)' = {n}
    BY <1>2, <1>4
  <2>. HIDE DEF d
  <2>2. DraftOf(d) = {}
    BY <2>1 DEF DraftOf
  <2>3. DraftOf(d)' = {rows'[n].parts}
    BY <2>1 DEF DraftOf
  <2>. QED  BY <1>1, <2>2, <2>3
<1>6. LogOf(d)' = LogOf(d)
  <2>. HIDE DEF d
  <2>1. \A k \in 1..Cardinality(FrozenRows(d)) : Nth(FrozenRows(d), k) \in FrozenRows(d)
    BY LogIs
  <2>2. \A k \in 1..Cardinality(FrozenRows(d)) : Nth(FrozenRows(d), k) \in RowsOf(d)
    BY <1>4, <2>1
  <2>. QED  BY <1>3, <1>4, <2>2 DEF LogOf
<1>7. LooseOf(d)' = LooseOf(d)
  <2>. HIDE DEF d
  <2>1. stale \subseteq RowIds
    BY DEF TypeOK
  <2>2. stale' \cap RowsOf(d)' = stale \cap RowsOf(d)
    BY <1>1, <1>2, <2>1
  <2>. QED  BY <1>4, <2>2 DEF LooseOf
<1>. QED  BY <1>5, <1>6, <1>7

\* A step on a frozen row, after which it has a name, keeps the frozen rows, ...
LEMMA FrozenSame ==
    ASSUME TypeOK, NEW i \in RowIds, NEW e, Changed(i, e), is_frozen(i),
           e.domain = rows[i].domain, e.version # "", NEW d
    PROVE  FrozenRows(d)' = FrozenRows(d) /\ RowsOf(d)' = RowsOf(d)
<1>1. \A j \in RowIds : rows'[j] = IF j = i THEN e ELSE rows[j]
  BY RowChanged
<1>2. RowsOf(d)' = RowsOf(d)
  BY RowChangedElsewhere
<1>3. \A j \in RowsOf(d) : j \in RowIds /\ (rows'[j].version # "" <=> rows[j].version # "")
  BY <1>1 DEF RowsOf, is_frozen
<1>. QED  BY <1>2, <1>3 DEF FrozenRows, is_frozen

\* ... and changes the row's entry, at its place.
EntryChanged(d, i, e) ==
    Logs' = [Logs EXCEPT ![d] = [Logs[d] EXCEPT ![Rank(FrozenRows(d), i)] = LogEntry(e)]]

LEMMA LogChanged ==
    ASSUME TypeOK, NEW i \in RowIds, NEW e \in Row, Changed(i, e), is_frozen(i),
           NEW d \in Domains, rows[i].domain = d, e.domain = d, e.version # ""
    PROVE  /\ Rank(FrozenRows(d), i) \in DOMAIN Logs[d] /\ Logs[d] = LogOf(d)
           /\ Logs[d][Rank(FrozenRows(d), i)] = LogEntry(rows[i])
           /\ EntryChanged(d, i, e)
           /\ Drafts' = Drafts
<1>4. \A j \in RowIds : rows'[j] = IF j = i THEN e ELSE rows[j]
  BY RowChanged
<1>5. \A o : /\ RowsOf(o)' = RowsOf(o)
             /\ o # d => /\ LogOf(o)' = LogOf(o) /\ DraftOf(o)' = DraftOf(o)
                         /\ LooseOf(o)' = LooseOf(o)
  BY RowChangedElsewhere
<1>6. FrozenRows(d)' = FrozenRows(d) /\ i \in FrozenRows(d)
  <2>1. i \in FrozenRows(d)
    BY DEF FrozenRows, RowsOf
  <2>. QED  BY <2>1, FrozenSame
<1>7. DraftOf(d)' = DraftOf(d)
  <2>1. \A j \in RowsOf(d) \ FrozenRows(d) : rows'[j].parts = rows[j].parts
    BY <1>4, <1>6 DEF RowsOf
  <2>. QED  BY <1>5, <1>6, <2>1 DEF DraftOf
<1>. DEFINE n == Rank(FrozenRows(d), i)
            c == Cardinality(FrozenRows(d))
            F == FrozenRows(d)
<1>8. /\ n \in 1..c /\ Nth(F, n) = i /\ DOMAIN LogOf(d) = 1..c
      /\ \A k \in 1..c : Nth(F, k) \in F /\ LogOf(d)[k] = LogEntry(rows[Nth(F, k)])
      /\ \A k \in 1..c : k # n => Nth(F, k) # i
  <2>1. \A k \in 1..c : k # n => Nth(F, k) # i
    <3>1. \A k \in 1..c : Rank(F, Nth(F, k)) = k
      BY FrozenRowsAre, NthIs
    <3>. QED  BY <3>1
  <2>. QED  BY <1>6, <2>1, LogIs
<1>9. LogOf(d)' = [k \in 1..c |-> LogEntry(rows'[Nth(F, k)])]
  BY <1>6 DEF LogOf
<1>10. LogOf(d) = [k \in 1..c |-> LogEntry(rows[Nth(F, k)])]
  BY DEF LogOf
<1>11. F \subseteq RowIds
  BY DEF FrozenRows, RowsOf
<1>. HIDE DEF n, c, F
<1>13. LogOf(d)' = [LogOf(d) EXCEPT ![n] = LogEntry(e)]
  <2>. HIDE DEF LogOf, LogEntry
  <2>1. \A k \in 1..c : LogEntry(rows'[Nth(F, k)]) =
                          IF k = n THEN LogEntry(e) ELSE LogEntry(rows[Nth(F, k)])
    BY <1>4, <1>8, <1>11
  <2>2. LogOf(d)' = [k \in 1..c |-> IF k = n THEN LogEntry(e) ELSE LogEntry(rows[Nth(F, k)])]
    BY <1>9, <2>1
  <2>3. [LogOf(d) EXCEPT ![n] = LogEntry(e)] =
           [k \in 1..c |-> IF k = n THEN LogEntry(e) ELSE LogEntry(rows[Nth(F, k)])]
    BY <1>8, <1>10
  <2>. QED  BY <2>2, <2>3
<1>14. /\ Logs' = [Logs EXCEPT ![d] = LogOf(d)']
       /\ Drafts' = [Drafts EXCEPT ![d] = DraftOf(d)']
       /\ Loose' = [Loose EXCEPT ![d] = LooseOf(d)']
       /\ Logs[d] = LogOf(d) /\ Drafts[d] = DraftOf(d) /\ Loose[d] = LooseOf(d)
  BY <1>5, OneDomainMoves
<1>15. Drafts' = Drafts
  BY <1>7, <1>14 DEF Drafts
<1>16. Logs' = [Logs EXCEPT ![d] = [Logs[d] EXCEPT ![n] = LogEntry(e)]]
  BY <1>13, <1>14
<1>17. n \in DOMAIN Logs[d] /\ Logs[d][n] = LogEntry(rows[i])
  BY <1>8, <1>14
<1>. QED  BY <1>14, <1>15, <1>16, <1>17 DEF n, EntryChanged

\* If no object comes or goes with it, the loose entries are the same.
LEMMA LooseKept ==
    ASSUME TypeOK, NEW i \in RowIds, NEW e, Changed(i, e), is_frozen(i),
           e.domain = rows[i].domain, e.version # "", UNCHANGED stale
    PROVE  Loose' = Loose
<1>1. ASSUME NEW d \in Domains  PROVE LooseOf(d)' = LooseOf(d)
  <2>1. FrozenRows(d)' = FrozenRows(d) /\ RowsOf(d)' = RowsOf(d)
    BY FrozenSame
  <2>. QED  BY <2>1, LooseSame
<1>. QED  BY <1>1 DEF Loose
-----------------------------------------------------------------------------
\* Nothing is deployed that is not frozen.
DeployedFrozen == \A i \in RowIds : rows[i].deployed => is_frozen(i)

LogInv == IInv /\ DeployedFrozen

LEMMA InitLogInv == Init => LogInv
BY InitIInv DEF Init, LogInv, DeployedFrozen, RowIds

LEMMA NextLogInv == LogInv /\ [Next]_vars => LogInv'
<1>. SUFFICES ASSUME LogInv, [Next]_vars  PROVE DeployedFrozen'
  BY NextIInv DEF LogInv
<1>0. IInv /\ TypeOK /\ \A j \in RowIds : rows[j].deployed => rows[j].version # ""
  BY DEF LogInv, DeployedFrozen, IInv, is_frozen
<1>1. CASE UNCHANGED rows
  BY <1>0, <1>1 DEF DeployedFrozen, RowIds, is_frozen
<1>2. ASSUME NEW d, NEW parts, NEW enabled, AddRow(NewRow(d, parts, enabled))
      PROVE  DeployedFrozen'
  <2>1. NewRow(d, parts, enabled).deployed = FALSE
    BY DEF NewRow
  <2>. DEFINE r == NewRow(d, parts, enabled)
              n == Len(rows) + 1
  <2>2. /\ RowIds' = RowIds \cup {n}
        /\ \A j \in RowIds : rows'[j] = rows[j]
        /\ rows'[n] = r
    BY <1>0, <1>2, RowAdded
  <2>3. r.deployed = FALSE
    BY <2>1
  <2>. HIDE DEF r, n
  <2>. QED  BY <1>0, <2>2, <2>3 DEF DeployedFrozen, is_frozen
<1>3. ASSUME NEW i \in RowIds, NEW e \in Row, Changed(i, e), e.deployed => e.version # ""
      PROVE  DeployedFrozen'
  <2>1. /\ RowIds' = RowIds
        /\ \A j \in RowIds : rows'[j] = IF j = i THEN e ELSE rows[j]
    BY <1>0, <1>3, RowChanged
  <2>2. \A j \in RowIds' : rows'[j].deployed => rows'[j].version # ""
    BY <1>0, <1>3, <2>1
  <2>. QED  BY <2>2 DEF DeployedFrozen, is_frozen
<1>4. ASSUME NEW i \in RowIds,
             \/ \E part \in Parts : add(i, part)
             \/ \E cap \in Capabilities : rc_enable(i, cap) \/ rc_disable(i, cap)
      PROVE  DeployedFrozen'
  <2>1. PICK e \in Row : /\ Changed(i, e) /\ e.version = rows[i].version
                         /\ e.deployed = rows[i].deployed
    <3>1. CASE \E part \in Parts : add(i, part)
      BY <1>0, <3>1, RowAfter
    <3>2. CASE \E cap \in Capabilities : rc_enable(i, cap) \/ rc_disable(i, cap)
      BY <1>0, <3>2, RowAfter
    <3>. QED  BY <1>4, <3>1, <3>2
  <2>. QED  BY <1>0, <1>3, <2>1
<1>5. ASSUME NEW i \in RowIds, NEW name \in Names, snapshot(i, name)  PROVE DeployedFrozen'
  <2>1. \E e \in Row : Changed(i, e) /\ e.version = name
    BY <1>0, <1>5, RowAfter
  <2>2. name # ""
    BY NamesAssumption
  <2>. QED  BY <1>3, <2>1, <2>2
<1>6. ASSUME NEW i \in RowIds, deploy(i)  PROVE DeployedFrozen'
  <2>1. \E e \in Row : Changed(i, e) /\ e.version = rows[i].version
    BY <1>0, <1>6, RowAfter
  <2>2. rows[i].version # ""
    BY <1>6 DEF deploy, is_frozen
  <2>. QED  BY <1>3, <2>1, <2>2
<1>7. CASE \E i \in RowIds : \/ \E part \in Parts : add(i, part)
                             \/ \E cap \in Capabilities : rc_enable(i, cap) \/ rc_disable(i, cap)
                             \/ \E name \in Names : snapshot(i, name)
                             \/ deploy(i)
  BY <1>4, <1>5, <1>6, <1>7
<1>8. CASE \E i \in RowIds : txnclone(i)
  BY <1>2, <1>8 DEF txnclone
<1>9. CASE \E d \in Domains : set_domain_Create(d)
  BY <1>2, <1>9 DEF set_domain_Create
<1>10. CASE \/ \E d \in Domains : set_domain_Found(d) \/ set_domain_Fails(d)
            \/ \E i \in RowIds : Refresh(i)
            \/ Restart
            \/ UNCHANGED vars
  <2>1. UNCHANGED rows
    BY <1>10 DEF set_domain_Found, set_domain_Fails, Refresh, Restart, vars
  <2>. QED  BY <1>1, <2>1
<1>. QED  BY <1>7, <1>8, <1>9, <1>10 DEF Next

LEMMA LogInvAlways == Spec => []LogInv
BY InitLogInv, NextLogInv, PTL DEF Spec

-----------------------------------------------------------------------------
(* Every step is a step of the version log of the row's domain, or none.     *)

\* The steps that leave the rows as they are, ...
LEMMA RowsStay ==
    ASSUME UNCHANGED rows
    PROVE  UNCHANGED <<Logs, Drafts>> /\ (UNCHANGED stale => UNCHANGED Loose)
BY DEF Logs, Drafts, Loose, LogOf, DraftOf, LooseOf, FrozenRows, RowsOf, RowIds, is_frozen

\* ... and those by which objects go: the entries they could change settle.
LEMMA ObjectsGo ==
    ASSUME LogInv, UNCHANGED rows, stale' \subseteq stale
    PROVE  History!Settle
<1>0. TypeOK
  BY DEF LogInv, IInv
<1>1. UNCHANGED <<Logs, Drafts>>
  BY RowsStay
<1>2. ASSUME NEW d \in Domains
      PROVE  LooseOf(d)' \subseteq LooseOf(d) /\ LooseOf(d) \subseteq Nat
  <2>1. RowsOf(d)' = RowsOf(d) /\ FrozenRows(d)' = FrozenRows(d)
    BY DEF FrozenRows, RowsOf, RowIds, is_frozen
  <2>2. LooseOf(d)' \subseteq LooseOf(d)
    BY <2>1 DEF LooseOf
  <2>3. \A i \in stale \cap RowsOf(d) : i \in FrozenRows(d)
    BY <1>0 DEF TypeOK, FrozenRows
  <2>4. \A i \in FrozenRows(d) : Rank(FrozenRows(d), i) \in 1..Cardinality(FrozenRows(d))
    BY <1>0, LogIs
  <2>. QED  BY <2>2, <2>3, <2>4 DEF LooseOf
<1>3. /\ Loose' = [d \in Domains |-> LooseOf(d)'] /\ Loose = [d \in Domains |-> LooseOf(d)]
  BY DEF Loose
<1>. QED  BY <1>1, <1>2, <1>3 DEF History!Settle

\* set_domain of a new name begins a history.
LEMMA CreateBegins ==
    ASSUME LogInv, NEW d \in Domains, set_domain_Create(d)
    PROVE  History!Begin(d)
<1>. DEFINE r == NewRow(d, {"subnet"} \cap Parts, {})
<1>1. TypeOK /\ AddRow(r) /\ UNCHANGED stale /\ RowsOf(d) = {}
  BY DEF LogInv, IInv, set_domain_Create
<1>2. r.domain = d /\ r.version = "" /\ r.parts \in SUBSET Parts
  BY DEF NewRow
<1>. HIDE DEF r
<1>3. ~Taken(d, "")
  BY <1>1 DEF Taken
<1>4. /\ LogOf(d)' = LogOf(d) /\ LooseOf(d)' = LooseOf(d)
      /\ DraftOf(d) = {} /\ DraftOf(d)' = {r.parts}
  BY <1>1, <1>2, <1>3, DraftAdded
<1>5. \A o \in Domains : o # d => /\ LogOf(o)' = LogOf(o) /\ DraftOf(o)' = DraftOf(o)
                                  /\ LooseOf(o)' = LooseOf(o)
  BY <1>1, <1>2, RowAddedElsewhere
<1>6. /\ Logs' = [Logs EXCEPT ![d] = LogOf(d)']
      /\ Drafts' = [Drafts EXCEPT ![d] = DraftOf(d)']
      /\ Loose' = [Loose EXCEPT ![d] = LooseOf(d)']
      /\ Logs[d] = LogOf(d) /\ Drafts[d] = DraftOf(d) /\ Loose[d] = LooseOf(d)
  BY <1>5, OneDomainMoves
<1>7. LogOf(d) = << >>
  <2>1. FrozenRows(d) = {}
    BY <1>1 DEF FrozenRows
  <2>2. Len(LogOf(d)) = 0 /\ \E S : LogOf(d) \in Seq(S)
    BY <1>1, <2>1, LogIs, FS_EmptySet
  <2>. HIDE DEF LogOf
  <2>. QED  BY <2>2, EmptySeq
<1>8. Logs' = Logs /\ Loose' = Loose
  BY <1>4, <1>6 DEF Logs, Loose
<1>. QED  BY <1>2, <1>4, <1>6, <1>7, <1>8 DEF History!Begin

\* A mutator edits the draft, ...
LEMMA AddEdits ==
    ASSUME LogInv, NEW i \in RowIds, NEW part \in Parts, add(i, part), ~is_frozen(i)
    PROVE  \E d \in Domains : History!Edit(d)
<1>1. IInv /\ TypeOK /\ UNCHANGED stale
  BY DEF LogInv, IInv, add
<1>2. rows[i] \in Row
  BY <1>1 DEF TypeOK, RowIds
<1>3. rows[i].domain \in Domains /\ rows[i].parts \in SUBSET Parts
  BY <1>2 DEF Row
<1>. PICK d \in Domains : rows[i].domain = d
  BY <1>3
<1>4. PICK e \in Row :
         /\ Changed(i, e) /\ e.domain = d
         /\ e.version = rows[i].version
         /\ e.parts = rows[i].parts \cup {part}
  BY <1>1, RowAfter
<1>5. /\ RowIds' = RowIds
      /\ \A j \in RowIds : rows'[j] = IF j = i THEN e ELSE rows[j]
  BY <1>1, <1>4, RowChanged
<1>6. \A o : /\ RowsOf(o)' = RowsOf(o)
             /\ o # d => /\ LogOf(o)' = LogOf(o) /\ DraftOf(o)' = DraftOf(o)
                         /\ LooseOf(o)' = LooseOf(o)
  BY <1>1, <1>4, RowChangedElsewhere
<1>7. RowsOf(d) \ FrozenRows(d) = {i}
  BY <1>1, DraftsApart
<1>8. FrozenRows(d)' = FrozenRows(d)
  <2>1. \A j \in RowsOf(d) : rows'[j].version = rows[j].version /\ j \in RowIds
    BY <1>4, <1>5 DEF RowsOf
  <2>. QED  BY <1>6, <2>1 DEF FrozenRows, is_frozen
<1>9. DraftOf(d) = {rows[i].parts} /\ DraftOf(d)' = {rows[i].parts \cup {part}}
  <2>1. DraftOf(d) = {rows[i].parts}
    BY <1>7 DEF DraftOf
  <2>2. DraftOf(d)' = {rows'[j].parts : j \in {i}}
    <3>1. RowsOf(d)' \ FrozenRows(d)' = {i}
      BY <1>6, <1>7, <1>8
    <3>. QED  BY <3>1 DEF DraftOf
  <2>. QED  BY <1>4, <1>5, <2>1, <2>2
<1>10. LogOf(d)' = LogOf(d)
  <2>1. \A n \in 1..Cardinality(FrozenRows(d)) : Nth(FrozenRows(d), n) \in FrozenRows(d)
    BY <1>1, LogIs
  <2>2. \A j \in FrozenRows(d) : rows'[j] = rows[j]
    BY <1>1, <1>5 DEF FrozenRows, RowsOf
  <2>. QED  BY <1>8, <2>1, <2>2 DEF LogOf
<1>11. /\ Logs' = [Logs EXCEPT ![d] = LogOf(d)']
       /\ Drafts' = [Drafts EXCEPT ![d] = DraftOf(d)']
       /\ Loose' = [Loose EXCEPT ![d] = LooseOf(d)']
       /\ Logs[d] = LogOf(d) /\ Drafts[d] = DraftOf(d) /\ Loose[d] = LooseOf(d)
  BY <1>3, <1>6, OneDomainMoves
<1>12. Logs' = Logs /\ Loose' = Loose
  <2>1. LooseOf(d)' = LooseOf(d)
    BY <1>1, <1>6, <1>8, LooseSame
  <2>. QED  BY <1>10, <1>11, <2>1 DEF Logs, Loose
<1>13. /\ rows[i].parts \in Drafts[d] /\ rows[i].parts \cup {part} \in SUBSET Parts
       /\ rows[i].parts \subseteq rows[i].parts \cup {part}
       /\ Drafts' = [Drafts EXCEPT ![d] = {rows[i].parts \cup {part}}]
  BY <1>3, <1>9, <1>11
<1>14. History!Edit(d)
  BY <1>12, <1>13 DEF History!Edit
<1>. QED  BY <1>3, <1>14

\* ... or, on an object older than its snapshot, a version in the log.
LEMMA AddAmends ==
    ASSUME LogInv, NEW i \in RowIds, NEW part \in Parts, add(i, part), is_frozen(i)
    PROVE  \E d \in Domains : \E n \in DOMAIN Logs[d] : History!Amend(d, n)
<1>1. TypeOK /\ UNCHANGED stale /\ i \in stale
  BY DEF LogInv, IInv, add, SeenAsDraft
<1>2. rows[i] \in Row
  BY <1>1 DEF TypeOK, RowIds
<1>3. rows[i].domain \in Domains /\ rows[i].parts \in SUBSET Parts
  BY <1>2 DEF Row
<1>. PICK d \in Domains : rows[i].domain = d
  BY <1>3
<1>4. PICK e \in Row :
         /\ Changed(i, e) /\ e.domain = d
         /\ e.version = rows[i].version /\ e.deployed = rows[i].deployed
         /\ e.parts = rows[i].parts \cup {part}
  BY <1>1, RowAfter
<1>5. e.version # ""
  BY <1>4 DEF is_frozen
<1>. DEFINE n == Rank(FrozenRows(d), i)
            parts == rows[i].parts \cup {part}
<1>6. /\ n \in DOMAIN Logs[d] /\ Logs[d][n] = LogEntry(rows[i])
      /\ Logs' = [Logs EXCEPT ![d] = [Logs[d] EXCEPT ![n] = LogEntry(e)]]
      /\ Drafts' = Drafts
  <2>1. n \in DOMAIN Logs[d] /\ Logs[d] = LogOf(d)
    BY <1>1, <1>4, <1>5, LogChanged
  <2>2. Logs[d][n] = LogEntry(rows[i])
    BY <1>1, <1>4, <1>5, LogChanged
  <2>3. Logs' = [Logs EXCEPT ![d] = [Logs[d] EXCEPT ![n] = LogEntry(e)]]
    <3>1. EntryChanged(d, i, e)
      BY <1>1, <1>4, <1>5, LogChanged
    <3>. QED  BY <3>1 DEF EntryChanged
  <2>4. Drafts' = Drafts
    BY <1>1, <1>4, <1>5, LogChanged
  <2>. QED  BY <2>1, <2>2, <2>3, <2>4
<1>7. n \in Loose[d]
  BY <1>1 DEF Loose, LooseOf, RowsOf
<1>8. Loose' = Loose
  BY <1>1, <1>4, <1>5, LooseKept
<1>. HIDE DEF n
<1>9. parts \in SUBSET Parts /\ Logs[d][n].parts \subseteq parts
  BY <1>3, <1>6 DEF LogEntry
<1>10. LogEntry(e) = [LogEntry(rows[i]) EXCEPT !.parts = parts]
  BY <1>4 DEF LogEntry
<1>. HIDE DEF parts
<1>11. Logs' = [Logs EXCEPT ![d][n].parts = parts]
  BY <1>6, <1>10, Zenon
<1>12. History!Amend(d, n)
  BY <1>6, <1>7, <1>8, <1>9, <1>11 DEF History!Amend
<1>. QED  BY <1>6, <1>12

\* rc_enable and rc_disable move nothing a version log sees.
LEMMA SwitchesStutter ==
    ASSUME LogInv, NEW i \in RowIds, NEW cap, rc_enable(i, cap) \/ rc_disable(i, cap)
    PROVE  UNCHANGED <<Logs, Drafts, Loose>>
<1>1. TypeOK /\ UNCHANGED stale
  BY DEF LogInv, IInv, rc_enable, rc_disable
<1>2. PICK e \in Row : /\ Changed(i, e) /\ e.domain = rows[i].domain
                       /\ e.version = rows[i].version /\ e.deployed = rows[i].deployed
                       /\ e.parts = rows[i].parts
  BY <1>1, RowAfter
<1>3. \A j \in RowIds : rows'[j] = IF j = i THEN e ELSE rows[j]
  BY <1>1, <1>2, RowChanged
<1>4. ASSUME NEW d
      PROVE  LogOf(d)' = LogOf(d) /\ DraftOf(d)' = DraftOf(d) /\ LooseOf(d)' = LooseOf(d)
  <2>1. RowsOf(d)' = RowsOf(d)
    BY <1>1, <1>2, RowChangedElsewhere
  <2>2. \A j \in RowsOf(d) : LogEntry(rows'[j]) = LogEntry(rows[j])
    BY <1>2, <1>3 DEF RowsOf, LogEntry
  <2>3. /\ LogOf(d)' = LogOf(d) /\ DraftOf(d)' = DraftOf(d)
        /\ FrozenRows(d)' = FrozenRows(d)
    BY <1>1, <2>1, <2>2, DomainSame
  <2>. QED  BY <1>1, <2>1, <2>3, LooseSame
<1>. QED  BY <1>4 DEF Logs, Drafts, Loose

\* txnclone branches from the version it is called on, which is in the log: a
\* domain with a draft refuses, and a frozen row has a place there.
LEMMA CloneBranches ==
    ASSUME LogInv, NEW i \in RowIds, txnclone(i)
    PROVE  \E d \in Domains : \E n \in DOMAIN Logs[d] : History!Branch(d, n)
<1>1. IInv /\ TypeOK /\ rows[i] \in Row
  BY DEF LogInv, IInv, TypeOK, RowIds
<1>2. rows[i].domain \in Domains /\ rows[i].parts \in SUBSET Parts
  BY <1>1 DEF Row
<1>. PICK d \in Domains : rows[i].domain = d
  BY <1>2
<1>. DEFINE r == NewRow(d, CloneOf(rows[i].parts), rows[i].enabled)
<1>3. AddRow(r) /\ UNCHANGED stale /\ ~Taken(d, "")
  BY DEF txnclone
<1>4. r.domain = d /\ r.version = "" /\ r.parts = CloneOf(rows[i].parts)
  BY DEF NewRow
<1>. HIDE DEF r
<1>5. /\ LogOf(d)' = LogOf(d) /\ LooseOf(d)' = LooseOf(d)
      /\ DraftOf(d) = {} /\ DraftOf(d)' = {r.parts}
  BY <1>1, <1>3, <1>4, DraftAdded
<1>6. \A o \in Domains : o # d => /\ LogOf(o)' = LogOf(o) /\ DraftOf(o)' = DraftOf(o)
                                  /\ LooseOf(o)' = LooseOf(o)
  BY <1>1, <1>3, <1>4, RowAddedElsewhere
<1>7. /\ Logs' = [Logs EXCEPT ![d] = LogOf(d)']
      /\ Drafts' = [Drafts EXCEPT ![d] = DraftOf(d)']
      /\ Loose' = [Loose EXCEPT ![d] = LooseOf(d)']
      /\ Logs[d] = LogOf(d) /\ Drafts[d] = DraftOf(d) /\ Loose[d] = LooseOf(d)
  BY <1>6, OneDomainMoves
<1>8. Logs' = Logs /\ Loose' = Loose
  BY <1>5, <1>7 DEF Logs, Loose
<1>9. PICK n \in DOMAIN Logs[d] : Logs[d][n].parts = rows[i].parts
  <2>1. i \in FrozenRows(d)
    BY <1>3 DEF FrozenRows, RowsOf, Taken, is_frozen
  <2>. DEFINE n == Rank(FrozenRows(d), i)
  <2>2. n \in DOMAIN LogOf(d) /\ Nth(FrozenRows(d), n) = i
    BY <1>1, <2>1, LogIs
  <2>. HIDE DEF n
  <2>3. LogOf(d)[n] = LogEntry(rows[i])
    BY <1>1, <2>2, LogIs
  <2>. QED  BY <1>7, <2>2, <2>3 DEF LogEntry
<1>10. CloneOf(rows[i].parts) \in SUBSET rows[i].parts
  BY DEF CloneOf
<1>11. rows[i].parts \ Lost \subseteq CloneOf(rows[i].parts)
  BY <1>2, PartsAssumption DEF CloneOf, Lost, Walked
<1>12. Drafts[d] = {} /\ Drafts' = [Drafts EXCEPT ![d] = {CloneOf(rows[i].parts)}]
  BY <1>4, <1>5, <1>7
<1>13. History!Branch(d, n)
  BY <1>8, <1>9, <1>10, <1>11, <1>12 DEF History!Branch
<1>. QED  BY <1>9, <1>13

\* deploy marks the version, which is in the log.
LEMMA DeployMarks ==
    ASSUME LogInv, NEW i \in RowIds, deploy(i)
    PROVE  \E d \in Domains : \E n \in DOMAIN Logs[d] : History!MarkDeployed(d, n)
<1>1. TypeOK /\ rows[i] \in Row /\ is_frozen(i) /\ UNCHANGED stale
  BY DEF LogInv, IInv, TypeOK, RowIds, deploy
<1>2. rows[i].domain \in Domains
  BY <1>1 DEF Row
<1>. PICK d \in Domains : rows[i].domain = d
  BY <1>2
<1>3. PICK e \in Row : /\ Changed(i, e) /\ e.domain = d
                       /\ e.version = rows[i].version /\ e.deployed = TRUE
                       /\ e.parts = rows[i].parts
  BY <1>1, RowAfter
<1>4. e.version # ""
  BY <1>1, <1>3 DEF is_frozen
<1>. DEFINE n == Rank(FrozenRows(d), i)
<1>5. /\ n \in DOMAIN Logs[d] /\ Logs[d][n] = LogEntry(rows[i])
      /\ Logs' = [Logs EXCEPT ![d] = [Logs[d] EXCEPT ![n] = LogEntry(e)]]
      /\ Drafts' = Drafts
  <2>1. n \in DOMAIN Logs[d] /\ Logs[d] = LogOf(d)
    BY <1>1, <1>3, <1>4, LogChanged
  <2>2. Logs[d][n] = LogEntry(rows[i])
    BY <1>1, <1>3, <1>4, LogChanged
  <2>3. Logs' = [Logs EXCEPT ![d] = [Logs[d] EXCEPT ![n] = LogEntry(e)]]
    <3>1. EntryChanged(d, i, e)
      BY <1>1, <1>3, <1>4, LogChanged
    <3>. QED  BY <3>1 DEF EntryChanged
  <2>4. Drafts' = Drafts
    BY <1>1, <1>3, <1>4, LogChanged
  <2>. QED  BY <2>1, <2>2, <2>3, <2>4
<1>6. Loose' = Loose
  BY <1>1, <1>3, <1>4, LooseKept
<1>. HIDE DEF n
<1>7. LogEntry(e) = [LogEntry(rows[i]) EXCEPT !.deployed = TRUE]
  <2>. DEFINE Entry == [name : Names \cup {""}, parts : SUBSET Parts, deployed : BOOLEAN]
  <2>1. /\ LogEntry(e) \in Entry /\ LogEntry(e).deployed = TRUE
        /\ LogEntry(e).name = rows[i].version /\ LogEntry(e).parts = rows[i].parts
    BY <1>3 DEF LogEntry, Row
  <2>2. /\ LogEntry(rows[i]) \in Entry
        /\ LogEntry(rows[i]).name = rows[i].version /\ LogEntry(rows[i]).parts = rows[i].parts
    BY <1>1 DEF LogEntry, Row
  <2>. HIDE DEF LogEntry
  <2>. QED  BY <2>1, <2>2
<1>8. Logs' = [Logs EXCEPT ![d][n].deployed = TRUE]
  BY <1>5, <1>7, Zenon
<1>9. History!MarkDeployed(d, n)
  BY <1>5, <1>6, <1>8 DEF History!MarkDeployed
<1>. QED  BY <1>5, <1>9

\* snapshot through an object older than the last names a logged version anew.
LEMMA SnapshotRenames ==
    ASSUME LogInv, NEW i \in RowIds, NEW name \in Names, snapshot(i, name), is_frozen(i)
    PROVE  \E d \in Domains : \E n \in DOMAIN Logs[d] : History!Rename(d, n, name)
<1>1. /\ TypeOK /\ rows[i] \in Row /\ i \in stale /\ ~Taken(rows[i].domain, name)
      /\ stale' \in {stale \ {i}, stale \cup {i}}
  BY DEF LogInv, IInv, TypeOK, RowIds, snapshot, SeenAsDraft
<1>2. rows[i].domain \in Domains
  BY <1>1 DEF Row
<1>. PICK d \in Domains : rows[i].domain = d
  BY <1>2
<1>3. PICK e \in Row : /\ Changed(i, e) /\ e.domain = d
                       /\ e.version = name /\ e.deployed = rows[i].deployed
                       /\ e.parts = rows[i].parts
  BY <1>1, RowAfter
<1>4. e.version # ""
  BY <1>3, NamesAssumption
<1>. DEFINE F == FrozenRows(d)
            n == Rank(F, i)
<1>5. /\ n \in DOMAIN Logs[d] /\ Logs[d] = LogOf(d) /\ Logs[d][n] = LogEntry(rows[i])
      /\ Logs' = [Logs EXCEPT ![d] = [Logs[d] EXCEPT ![n] = LogEntry(e)]]
      /\ Drafts' = Drafts
  <2>1. n \in DOMAIN Logs[d] /\ Logs[d] = LogOf(d)
    BY <1>1, <1>3, <1>4, LogChanged
  <2>2. Logs[d][n] = LogEntry(rows[i])
    BY <1>1, <1>3, <1>4, LogChanged
  <2>3. Logs' = [Logs EXCEPT ![d] = [Logs[d] EXCEPT ![n] = LogEntry(e)]]
    <3>1. EntryChanged(d, i, e)
      BY <1>1, <1>3, <1>4, LogChanged
    <3>. QED  BY <3>1 DEF EntryChanged
  <2>4. Drafts' = Drafts
    BY <1>1, <1>3, <1>4, LogChanged
  <2>. QED  BY <2>1, <2>2, <2>3, <2>4
<1>6. FrozenRows(d)' = FrozenRows(d) /\ RowsOf(d)' = RowsOf(d)
  BY <1>1, <1>3, <1>4, FrozenSame
<1>6a. i \in RowsOf(d) /\ stale \cap RowsOf(d) \subseteq F
  BY <1>1 DEF RowsOf, FrozenRows, TypeOK
<1>6b. \A o \in Domains : o # d => LooseOf(o)' = LooseOf(o)
  BY <1>1, <1>3, RowChangedElsewhere
<1>7. \A j \in F : Nth(F, Rank(F, j)) = j
  BY <1>1, LogIs
<1>8. LooseOf(d)' = {Rank(F, j) : j \in stale' \cap RowsOf(d)}
  BY <1>6 DEF LooseOf
<1>8a. LooseOf(d) = {Rank(F, j) : j \in stale \cap RowsOf(d)}
  BY DEF LooseOf
<1>9. \A k \in DOMAIN Logs[d] : Nth(F, k) \in F /\ Logs[d][k] = LogEntry(rows[Nth(F, k)])
  <2>1. \A k \in DOMAIN LogOf(d) : Nth(F, k) \in F /\ LogOf(d)[k] = LogEntry(rows[Nth(F, k)])
    BY <1>1, LogIs
  <2>. HIDE DEF F, n
  <2>. QED  BY <1>5, <2>1
<1>10. \A k \in DOMAIN Logs[d] : Logs[d][k].name # name
  <2>1. \A j \in F : rows[j].version # name
    BY <1>1 DEF FrozenRows, Taken
  <2>2. \A j \in F : LogEntry(rows[j]).name # name
    BY <2>1 DEF LogEntry
  <2>. HIDE DEF F
  <2>. QED  BY <1>9, <2>2
<1>. HIDE DEF F
<1>11. n \in Loose[d]
  BY <1>1, <1>6a, <1>8a DEF Loose
<1>12. LooseOf(d)' = LooseOf(d) \/ LooseOf(d)' = LooseOf(d) \ {n}
  <2>1. CASE stale' = stale \cup {i}
    <3>1. stale' = stale
      BY <1>1, <2>1
    <3>. QED  BY <1>8, <1>8a, <3>1
  <2>2. CASE stale' = stale \ {i}
    <3>1. ASSUME NEW j \in stale \cap RowsOf(d), j # i  PROVE Rank(F, j) # n
      BY <1>1, <1>6a, <1>7, <3>1
    <3>2. LooseOf(d) \ {n} \subseteq LooseOf(d)'
      BY <1>8, <1>8a, <2>2
    <3>3. LooseOf(d)' \subseteq LooseOf(d) \ {n}
      BY <1>8, <1>8a, <2>2, <3>1
    <3>. QED  BY <3>2, <3>3
  <2>. QED  BY <1>1, <2>1, <2>2
<1>13. Loose' = Loose \/ Loose' = [Loose EXCEPT ![d] = @ \ {n}]
  <2>1. CASE LooseOf(d)' = LooseOf(d)
    BY <1>6b, <2>1 DEF Loose
  <2>2. CASE LooseOf(d)' = LooseOf(d) \ {n}
    BY <1>6b, <2>2 DEF Loose
  <2>. QED  BY <1>12, <2>1, <2>2
<1>14. LogEntry(e) = [LogEntry(rows[i]) EXCEPT !.name = name]
  BY <1>3 DEF LogEntry
<1>. HIDE DEF n
<1>15. Logs' = [Logs EXCEPT ![d][n].name = name]
  BY <1>5, <1>14, Zenon
<1>16. History!Unused(d, name)
  BY <1>10 DEF History!Unused
<1>17. History!Rename(d, n, name)
  BY <1>5, <1>11, <1>13, <1>15, <1>16 DEF History!Rename
<1>. QED  BY <1>5, <1>17

\* snapshot freezes the draft: its row comes after every frozen one, under a
\* name none of them has, and nothing has deployed it.
LEMMA SnapshotFreezes ==
    ASSUME LogInv, NEW i \in RowIds, NEW name \in Names, snapshot(i, name), ~is_frozen(i)
    PROVE  \E d \in Domains : History!Freeze(d, name)
<1>1. /\ IInv /\ TypeOK /\ rows[i] \in Row /\ ~Taken(rows[i].domain, name)
      /\ stale' \in {stale \ {i}, stale \cup {i}} /\ i \notin stale
  BY DEF LogInv, IInv, TypeOK, RowIds, snapshot
<1>2. rows[i].domain \in Domains
  BY <1>1 DEF Row
<1>. PICK d \in Domains : rows[i].domain = d
  BY <1>2
<1>3. PICK e \in Row : /\ Changed(i, e) /\ e.domain = d
                       /\ e.version = name /\ e.deployed = rows[i].deployed
                       /\ e.parts = rows[i].parts
  BY <1>1, RowAfter
<1>4. /\ RowIds' = RowIds
      /\ \A j \in RowIds : rows'[j] = IF j = i THEN e ELSE rows[j]
  BY <1>1, <1>3, RowChanged
<1>5. \A o : /\ RowsOf(o)' = RowsOf(o)
             /\ o # d => /\ LogOf(o)' = LogOf(o) /\ DraftOf(o)' = DraftOf(o)
                         /\ LooseOf(o)' = LooseOf(o)
  BY <1>1, <1>3, RowChangedElsewhere
<1>6. RowsOf(d) \ FrozenRows(d) = {i} /\ \A j \in FrozenRows(d) : j < i
  BY <1>1, DraftsApart
<1>. DEFINE F == FrozenRows(d)
            c == Cardinality(F)
<1>7. name # "" /\ e.deployed = FALSE
  <2>1. rows[i].deployed \in BOOLEAN
    BY <1>1 DEF Row
  <2>2. ~rows[i].deployed
    BY <1>1 DEF LogInv, DeployedFrozen
  <2>. QED  BY <1>3, <2>1, <2>2, NamesAssumption
<1>8. FrozenRows(d)' = F \cup {i} /\ F \subseteq RowIds /\ i \notin F
  <2>1. \A j \in RowsOf(d) : /\ j \in RowIds
                             /\ rows'[j].version = IF j = i THEN name ELSE rows[j].version
    BY <1>3, <1>4 DEF RowsOf
  <2>2. i \in RowsOf(d) /\ i \notin F
    BY <1>6
  <2>. QED  BY <1>5, <1>7, <2>1, <2>2 DEF FrozenRows, is_frozen
<1>9. DraftOf(d) = {rows[i].parts} /\ DraftOf(d)' = {}
  <2>1. DraftOf(d) = {rows[i].parts}
    BY <1>6 DEF DraftOf
  <2>2. RowsOf(d)' \ FrozenRows(d)' = {}
    BY <1>5, <1>6, <1>8
  <2>. QED  BY <2>1, <2>2 DEF DraftOf
<1>10. /\ Cardinality(F \cup {i}) = c + 1 /\ c \in Nat
       /\ Nth(F \cup {i}, c + 1) = i
       /\ \A k \in 1..c : Nth(F \cup {i}, k) = Nth(F, k)
       /\ Rank(F \cup {i}, i) = c + 1
       /\ \A j \in F : Rank(F \cup {i}, j) = Rank(F, j)
  <2>1. i \in 0..Len(rows)
    BY <1>1 DEF TypeOK, RowIds
  <2>2. Len(rows) \in Nat /\ F \subseteq 0..Len(rows) /\ IsFiniteSet(F) /\ c \in Nat
    BY <1>1, FrozenRowsAre
  <2>3. i \notin F /\ \A j \in F : j < i
    BY <1>6, <1>8
  <2>. HIDE DEF F
  <2>4. /\ Cardinality(F \cup {i}) = Cardinality(F) + 1
        /\ Nth(F \cup {i}, Cardinality(F) + 1) = i
    BY <2>1, <2>2, <2>3, NthAdded
  <2>5. ASSUME NEW k \in 1..Cardinality(F)  PROVE Nth(F \cup {i}, k) = Nth(F, k)
    BY <2>1, <2>2, <2>3, NthKept
  <2>6. /\ Rank(F \cup {i}, i) = Cardinality(F) + 1
        /\ \A j \in F : Rank(F \cup {i}, j) = Rank(F, j)
    BY <2>1, <2>2, <2>3, RankAdded
  <2>. QED  BY <2>2, <2>4, <2>5, <2>6
<1>11. /\ DOMAIN LogOf(d) = 1..c /\ Len(LogOf(d)) = c
       /\ LogOf(d) \in Seq({LogEntry(rows[j]) : j \in F})
       /\ \A k \in 1..c : Nth(F, k) \in F /\ LogOf(d)[k] = LogEntry(rows[Nth(F, k)])
  BY <1>1, LogIs
<1>12. LogOf(d)' = [k \in 1..(c + 1) |-> LogEntry(rows'[Nth(F \cup {i}, k)])]
  BY <1>8, <1>10 DEF LogOf
<1>13. LogEntry(e) = [name |-> name, parts |-> rows[i].parts, deployed |-> FALSE]
  BY <1>3, <1>7 DEF LogEntry
<1>. HIDE DEF F, c
<1>14. LogOf(d)' = Append(LogOf(d), LogEntry(e))
  <2>. DEFINE q == LogOf(d)
              f == [k \in 1..(c + 1) |-> LogEntry(rows'[Nth(F \cup {i}, k)])]
              S == {LogEntry(rows[j]) : j \in F}
              n == c + 1
  <2>1. ASSUME NEW k \in 1..c  PROVE f[k] = q[k]
    <3>1. Nth(F \cup {i}, k) = Nth(F, k) /\ Nth(F, k) \in F
      BY <1>10, <1>11
    <3>1a. k \in 1..(c + 1)
      BY <1>10
    <3>2. rows'[Nth(F, k)] = rows[Nth(F, k)]
      BY <1>4, <1>8, <3>1
    <3>. QED  BY <1>11, <3>1, <3>1a, <3>2
  <2>2. f[n] = LogEntry(e)
    <3>1. n \in 1..(c + 1) /\ Nth(F \cup {i}, n) = i
      BY <1>10
    <3>. QED  BY <1>4, <3>1
  <2>3. q \in Seq(S) /\ Len(q) = c /\ n \in Nat /\ n = Len(q) + 1
    BY <1>10, <1>11
  <2>4. f = [k \in 1..n |-> f[k]] /\ \A k \in 1..Len(q) : f[k] = q[k]
    BY <2>1, <2>3
  <2>. HIDE DEF q, f, S, n
  <2>5. f = Append(q, LogEntry(e))
    BY <2>2, <2>3, <2>4, SeqExtended
  <2>. QED  BY <1>12, <2>5 DEF q, f
<1>15. /\ Logs' = [Logs EXCEPT ![d] = LogOf(d)']
       /\ Drafts' = [Drafts EXCEPT ![d] = DraftOf(d)']
       /\ Loose' = [Loose EXCEPT ![d] = LooseOf(d)']
       /\ Logs[d] = LogOf(d) /\ Drafts[d] = DraftOf(d) /\ Loose[d] = LooseOf(d)
  BY <1>5, OneDomainMoves
<1>15a. LooseOf(d)' = LooseOf(d) \/ LooseOf(d)' = LooseOf(d) \cup {c + 1}
  <2>1. stale \cap RowsOf(d) \subseteq F /\ i \in RowsOf(d)
    BY <1>1, <1>6 DEF TypeOK, FrozenRows, F
  <2>2. LooseOf(d)' = {Rank(F \cup {i}, j) : j \in stale' \cap RowsOf(d)}
    BY <1>5, <1>8 DEF LooseOf
  <2>3. LooseOf(d) = {Rank(F, j) : j \in stale \cap RowsOf(d)}
    BY DEF LooseOf, F
  <2>4. {Rank(F \cup {i}, j) : j \in stale \cap RowsOf(d)} = LooseOf(d)
    BY <1>10, <2>1, <2>3
  <2>5. CASE stale' = stale \ {i}
    <3>1. stale' = stale
      BY <1>1, <2>5
    <3>. QED  BY <2>2, <2>4, <3>1
  <2>6. CASE stale' = stale \cup {i}
    <3>1. stale' \cap RowsOf(d) = (stale \cap RowsOf(d)) \cup {i}
      BY <2>1, <2>6
    <3>2. LooseOf(d)' = {Rank(F \cup {i}, j) : j \in stale \cap RowsOf(d)}
                           \cup {Rank(F \cup {i}, i)}
      BY <2>2, <3>1
    <3>. QED  BY <1>10, <2>4, <3>2
  <2>. QED  BY <1>1, <2>5, <2>6
<1>15b. Loose' = Loose \/ Loose' = [Loose EXCEPT ![d] = @ \cup {Len(Logs[d]) + 1}]
  <2>1. CASE LooseOf(d)' = LooseOf(d)
    BY <1>15, <2>1 DEF Loose
  <2>2. CASE LooseOf(d)' = LooseOf(d) \cup {c + 1}
    <3>1. Loose' = [Loose EXCEPT ![d] = Loose[d] \cup {Len(Logs[d]) + 1}]
      BY <1>11, <1>15, <2>2
    <3>. QED  BY <3>1, Zenon
  <2>. QED  BY <1>15a, <2>1, <2>2
<1>16. History!Unused(d, name)
  <2>1. \A j \in F : rows[j].version # name
    BY <1>1 DEF F, FrozenRows, Taken
  <2>2. \A j \in F : LogEntry(rows[j]).name # name
    BY <2>1 DEF LogEntry
  <2>. QED  BY <1>11, <1>15, <2>2 DEF History!Unused
<1>17. /\ rows[i].parts \in Drafts[d]
       /\ Logs' = [Logs EXCEPT ![d] = Append(Logs[d], LogEntry(e))]
       /\ Drafts' = [Drafts EXCEPT ![d] = {}]
  BY <1>9, <1>14, <1>15
<1>18. Logs' = [Logs EXCEPT ![d] = Append(@, [name |-> name, parts |-> rows[i].parts,
                                              deployed |-> FALSE])]
  BY <1>13, <1>17, Zenon
<1>19. History!Freeze(d, name)
  BY <1>15b, <1>16, <1>17, <1>18 DEF History!Freeze
<1>. QED  BY <1>19
-----------------------------------------------------------------------------
LEMMA InitRefines == Init => History!Init
<1>. SUFFICES ASSUME Init  PROVE History!Init
  OBVIOUS
<1>1. TypeOK /\ RowIds = {}
  BY InitIInv DEF IInv, Init, RowIds
<1>2. ASSUME NEW d \in Domains  PROVE LogOf(d) = << >> /\ DraftOf(d) = {} /\ LooseOf(d) = {}
  <2>1. RowsOf(d) = {} /\ FrozenRows(d) = {}
    BY <1>1 DEF FrozenRows, RowsOf
  <2>2. Len(LogOf(d)) = 0 /\ \E S : LogOf(d) \in Seq(S)
    BY <1>1, <2>1, LogIs, FS_EmptySet
  <2>3. LogOf(d) = << >>
    <3>. HIDE DEF LogOf
    <3>. QED  BY <2>2, EmptySeq
  <2>. QED  BY <2>1, <2>3 DEF DraftOf, LooseOf
<1>. QED  BY <1>2 DEF Logs, Drafts, Loose, History!Init

LEMMA NextRefines ==
    ASSUME LogInv, [Next]_vars
    PROVE  History!Next \/ UNCHANGED History!vars
<1>1. CASE \/ \E d \in Domains : set_domain_Found(d) \/ set_domain_Fails(d)
           \/ UNCHANGED vars
  <2>1. UNCHANGED <<rows, stale>>
    BY <1>1 DEF set_domain_Found, set_domain_Fails, vars
  <2>. QED  BY <2>1, RowsStay DEF History!vars
<1>2. CASE (\E i \in RowIds : Refresh(i)) \/ Restart
  <2>1. UNCHANGED rows /\ stale' \subseteq stale
    BY <1>2 DEF Refresh, Restart
  <2>. QED  BY <2>1, ObjectsGo DEF History!Next
<1>3. CASE \E d \in Domains : set_domain_Create(d)
  BY <1>3, CreateBegins DEF History!Next
<1>4. ASSUME NEW i \in RowIds, NEW part \in Parts, add(i, part)  PROVE History!Next
  <2>1. CASE is_frozen(i)
    <3>1. PICK d \in Domains : \E n \in DOMAIN Logs[d] : History!Amend(d, n)
      BY <1>4, <2>1, AddAmends
    <3>. QED  BY <3>1 DEF History!Next
  <2>2. CASE ~is_frozen(i)
    BY <1>4, <2>2, AddEdits DEF History!Next
  <2>. QED  BY <2>1, <2>2
<1>5. CASE \E i \in RowIds : \E cap \in Capabilities : rc_enable(i, cap) \/ rc_disable(i, cap)
  BY <1>5, SwitchesStutter DEF History!vars
<1>6. ASSUME NEW i \in RowIds, NEW name \in Names, snapshot(i, name)  PROVE History!Next
  <2>1. CASE is_frozen(i)
    <3>1. PICK d \in Domains : \E n \in DOMAIN Logs[d] : History!Rename(d, n, name)
      BY <1>6, <2>1, SnapshotRenames
    <3>. QED  BY <3>1 DEF History!Next
  <2>2. CASE ~is_frozen(i)
    BY <1>6, <2>2, SnapshotFreezes DEF History!Next
  <2>. QED  BY <2>1, <2>2
<1>7. CASE \E i \in RowIds : txnclone(i)
  BY <1>7, CloneBranches DEF History!Next
<1>8. CASE \E i \in RowIds : deploy(i)
  BY <1>8, DeployMarks DEF History!Next
<1>. QED  BY <1>1, <1>2, <1>3, <1>4, <1>5, <1>6, <1>7, <1>8 DEF Next

\* The rows of a domain implement its history: each step of the session is a
\* step of the version log, or none. Frozen versions enter a log that only ever
\* grows, under names of their own and in the order they were made in; an entry
\* is added to or renamed only through an object that was there before it was
\* frozen, and by nobody once the last such object is gone; there is at most one
\* draft, taken from a logged version but for what a clone loses; and only what
\* is logged is deployed.
THEOREM RowsAreALog == Spec => ImplementsVersionLog
<1>1. Init => History!Init
  BY InitRefines
<1>2. LogInv /\ [Next]_vars => [History!Next]_(History!vars)
  BY NextRefines
<1>. QED  BY <1>1, <1>2, LogInvAlways, PTL DEF Spec, ImplementsVersionLog, History!Spec
=============================================================================
