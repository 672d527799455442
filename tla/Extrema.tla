------------------------------- MODULE Extrema -------------------------------
(* The least and the greatest element of a set of natural numbers, which the *)
(* loops and the listings of the other modules choose, and the induction that *)
(* they allow.                                                               *)
EXTENDS Integers, WellFoundedInduction, TLAPS

\* A set of natural numbers that is not empty has a least element.
LEMMA Least ==
    ASSUME NEW S, S \subseteq Nat, S # {}
    PROVE  \E m \in S : \A y \in S : m <= y
<1>1. IsWellFoundedOn(OpToRel(<, Nat), Nat)
  BY NatLessThanWellFounded, Zenon
<1>2. \E x \in S : \A y \in S : <<y, x>> \notin OpToRel(<, Nat)
  BY <1>1, WFMin, Zenon
<1>3. \A x, y \in Nat : <<y, x>> \notin OpToRel(<, Nat) => x <= y
  BY DEF OpToRel
<1>. QED  BY <1>2, <1>3

\* One that is bounded has a greatest: its least upper bound.
LEMMA Greatest ==
    ASSUME NEW n \in Nat, NEW S, S \subseteq 0..n, S # {}
    PROVE  \E m \in S : \A y \in S : y <= m
<1>. DEFINE U == {u \in Nat : \A y \in S : y <= u}
<1>1. n \in U
  OBVIOUS
<1>2. PICK m \in U : \A u \in U : m <= u
  <2>. U \subseteq Nat /\ U # {}
    BY <1>1
  <2>. HIDE DEF U
  <2>. QED  BY Least
<1>3. m \in S
  <2>1. SUFFICES ASSUME m \notin S  PROVE FALSE
    OBVIOUS
  <2>2. \A y \in S : y \in Nat /\ y < m
    BY <1>2, <2>1
  <2>3. m \in Nat /\ m >= 1
    <3>1. PICK y \in S : y \in Nat /\ y < m
      BY <2>2
    <3>2. m \in Nat
      BY <1>2
    <3>. QED  BY <3>1, <3>2
  <2>4. m - 1 \in Nat /\ \A y \in S : y <= m - 1
    BY <2>2, <2>3
  <2>. QED  BY <1>2, <2>3, <2>4
<1>. QED  BY <1>2, <1>3

\* Induction, for the set of the numbers that have a property.
LEMMA Induction ==
    ASSUME NEW G, 0 \in G, \A k \in Nat : k \in G => k + 1 \in G
    PROVE  Nat \subseteq G
<1>. SUFFICES ASSUME Nat \ G # {}  PROVE FALSE
  OBVIOUS
<1>1. PICK m \in Nat \ G : \A y \in Nat \ G : m <= y
  BY Least
<1>2. m # 0 /\ m - 1 \in Nat
  BY <1>1
<1>3. m - 1 \in G
  BY <1>1, <1>2
<1>4. (m - 1) + 1 \in G
  BY <1>2, <1>3
<1>. QED  BY <1>1, <1>4

\* The least element by a measure.
LEMMA LeastBy ==
    ASSUME NEW S, S # {}, NEW f \in [S -> Nat]
    PROVE  \E x \in S : \A y \in S : f[x] <= f[y]
<1>. DEFINE V == {f[x] : x \in S}
<1>1. V \subseteq Nat /\ V # {}
  OBVIOUS
<1>2. PICK v \in V : \A w \in V : v <= w
  <2>. HIDE DEF V
  <2>. QED  BY <1>1, Least
<1>3. PICK x \in S : f[x] = v
  BY <1>2
<1>. QED  BY <1>2, <1>3

\* The least by three measures, one after the other.
LEMMA LeastByThree ==
    ASSUME NEW S, S # {}, NEW F \in [S -> Nat \X Nat \X Nat]
    PROVE  \E x \in S : \A y \in S :
              \/ F[x][1] < F[y][1]
              \/ F[x][1] = F[y][1] /\ F[x][2] < F[y][2]
              \/ F[x][1] = F[y][1] /\ F[x][2] = F[y][2] /\ F[x][3] <= F[y][3]
<1>. PICK f, g, h :
        /\ f = [x \in S |-> F[x][1]] /\ g = [x \in S |-> F[x][2]] /\ h = [x \in S |-> F[x][3]]
  OBVIOUS
<1>0. f \in [S -> Nat] /\ g \in [S -> Nat] /\ h \in [S -> Nat]
  OBVIOUS
<1>1. PICK a \in S : \A y \in S : f[a] <= f[y]
  BY <1>0, LeastBy
<1>2. PICK T : T = {x \in S : f[x] = f[a]}
  OBVIOUS
<1>3. PICK b \in T : \A y \in T : g[b] <= g[y]
  <2>1. T # {} /\ [x \in T |-> g[x]] \in [T -> Nat]
    BY <1>0, <1>1, <1>2
  <2>2. PICK b \in T : \A y \in T : [x \in T |-> g[x]][b] <= [x \in T |-> g[x]][y]
    BY <2>1, LeastBy
  <2>. QED  BY <2>2
<1>4. PICK U : U = {x \in T : g[x] = g[b]}
  OBVIOUS
<1>5. PICK c \in U : \A y \in U : h[c] <= h[y]
  <2>1. U # {} /\ [x \in U |-> h[x]] \in [U -> Nat]
    BY <1>0, <1>2, <1>3, <1>4
  <2>2. PICK c \in U : \A y \in U : [x \in U |-> h[x]][c] <= [x \in U |-> h[x]][y]
    BY <2>1, LeastBy
  <2>. QED  BY <2>2
<1>6. c \in S /\ f[c] = f[a] /\ g[c] = g[b] /\ b \in S /\ f[b] = f[a]
  BY <1>2, <1>3, <1>4, <1>5
<1>7. \A y \in S : f[y] \in Nat /\ g[y] \in Nat /\ h[y] \in Nat
  BY <1>0
<1>8. ASSUME NEW y \in S
      PROVE  \/ f[c] < f[y]
             \/ f[c] = f[y] /\ g[c] < g[y]
             \/ f[c] = f[y] /\ g[c] = g[y] /\ h[c] <= h[y]
  <2>1. f[a] <= f[y] /\ (f[y] = f[a] => y \in T)
    BY <1>1, <1>2
  <2>2. y \in T => g[b] <= g[y] /\ (g[y] = g[b] => y \in U)
    BY <1>3, <1>4
  <2>3. y \in U => h[c] <= h[y]
    BY <1>5
  <2>4. y \in S /\ c \in S /\ a \in S /\ b \in S
    BY <1>6
  <2>. QED  BY ONLY <1>6, <1>7, <2>1, <2>2, <2>3, <2>4
<1>. QED  BY <1>6, <1>8
=============================================================================
