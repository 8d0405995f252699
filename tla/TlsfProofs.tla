----------------------------- MODULE TlsfProofs -----------------------------
(***************************************************************************)
(* Proofs about the memory allocator, for callers that are careful: each   *)
(* theorem has the hypothesis ~ KnownFaults, for Tiled fails without it.   *)
(*                                                                         *)
(* The inductive invariant compares the heap with a ghost g of three parts:*)
(* the set g.hs of the headers, their sizes g.sz and the set g.fr of the   *)
(* free blocks.  Layout is about g alone: headers lie one behind the other *)
(* in the areas, none free next to a free one.  Tags says that memory tells*)
(* what g is, Chains that the lists do.  Inside a call this holds but for  *)
(* three sets of exceptions: Sound(h, g, X, Y, Z).                         *)
(*                                                                         *)
(* Each step of a call changes g (Taken, Freed, Merged, Cut, Widened) and  *)
(* has a lemma ...Sound that gives the new exceptions and says what blocks *)
(* it leaves alone (Keeps).  A lemma with several conclusions gives them as*)
(* one operator, for the prover to take as a whole.                        *)
(***************************************************************************)
EXTENDS Tlsf, SetInduction, FiniteSetTheorems, SequenceTheorems, TLAPS

-----------------------------------------------------------------------------
(* Classes of sizes *)

\* Division with remainder.
LEMMA Quotient ==
  ASSUME NEW n \in Nat, NEW d \in Nat \ {0}
  PROVE  /\ n \div d \in Nat /\ n % d \in 0 .. d - 1
         /\ n = d * (n \div d) + (n % d)
OBVIOUS

\* Quotient and remainder are known by what they add up to.
LEMMA QuotientUnique ==
  ASSUME NEW d \in Nat \ {0}, NEW q \in Nat, NEW r \in 0 .. d - 1
  PROVE  (d * q + r) \div d = q /\ (d * q + r) % d = r
OBVIOUS

\* Grain on 0 .. n.
Grains(n, f) ==
  /\ f \in [0 .. n -> Nat \ {0}]
  /\ \A u \in 0 .. n : f[u] = IF u < 2 * MaxSli THEN 1 ELSE 2 * f[u \div 2]

\* Grain is what its recursion says.
LEMMA GrainDef ==
  /\ Grain \in [Nat -> Nat \ {0}]
  /\ \A u \in Nat : Grain[u] = IF u < 2 * MaxSli THEN 1 ELSE 2 * Grain[u \div 2]
<1> USE TlsfAssumption
<1>1. \A u \in Nat : u \div 2 \in Nat /\ u \div 2 <= u /\ (u > 0 => u \div 2 < u)
  OBVIOUS
<1>2. ASSUME NEW n \in Nat
      PROVE  \E f : Grains(n, f)
  <2> DEFINE U == {m \in Nat : \E f : Grains(m, f)}
  <2>1. 0 \in U
    <3>1. Grains(0, [u \in 0 .. 0 |-> 1])
      BY DEF Grains
    <3> QED
      BY <3>1
  <2>2. ASSUME NEW m \in Nat, m \in U
        PROVE  m + 1 \in U
    <3>1. PICK f : Grains(m, f)
      BY <2>2
    <3> DEFINE k == m + 1
               last == IF k < 2 * MaxSli THEN 1 ELSE 2 * f[k \div 2]
               h == [u \in 0 .. k |-> IF u = k THEN last ELSE f[u]]
    <3>2. k \in Nat /\ k > 0 /\ k \div 2 \in 0 .. m
      BY <1>1
    <3>3. last \in Nat \ {0}
      <4>1. f[k \div 2] \in Nat \ {0}
        BY <3>1, <3>2 DEF Grains
      <4> QED
        BY <4>1
    <3>4. \A u \in 0 .. m : h[u] = f[u] /\ f[u] \in Nat \ {0}
      BY <3>1 DEF Grains
    <3>5. h[k] = last
      BY <3>2
    <3>6. h \in [0 .. k -> Nat \ {0}]
      <4>1. \A u \in 0 .. k : u = k \/ u \in 0 .. m
        OBVIOUS
      <4>2. \A u \in 0 .. k : h[u] \in Nat \ {0}
        BY <3>3, <3>4, <3>5, <4>1
      <4> QED
        BY <4>2
    <3>7. ASSUME NEW u \in 0 .. k
          PROVE  h[u] = IF u < 2 * MaxSli THEN 1 ELSE 2 * h[u \div 2]
      <4>1. u \div 2 \in 0 .. m
        BY <1>1, <3>2
      <4>2. h[u \div 2] = f[u \div 2]
        BY <3>4, <4>1
      <4> HIDE DEF h
      <4>3. CASE u = k
        BY <3>5, <4>2, <4>3
      <4>4. CASE u # k
        <5>1. u \in 0 .. m
          BY <4>4
        <5> QED
          BY <3>1, <3>4, <4>2, <5>1 DEF Grains
      <4> QED
        BY <4>3, <4>4
    <3> HIDE DEF h, last
    <3>8. Grains(k, h)
      BY <3>6, <3>7 DEF Grains
    <3> QED
      BY <3>2, <3>8
  <2>3. Nat \subseteq U
    <3> HIDE DEF U
    <3> QED
      BY <2>1, <2>2, NatSetInduction
  <2> QED
    BY <2>3
<1>3. ASSUME NEW n \in Nat, NEW m \in Nat, NEW f, NEW g, Grains(n, f), Grains(m, g),
             n <= m
      PROVE  \A u \in 0 .. n : f[u] = g[u]
  <2> DEFINE U == {u \in Nat : u <= n => f[u] = g[u]}
  <2>1. ASSUME NEW u \in Nat, \A v \in 0 .. u - 1 : v \in U
        PROVE  u \in U
    <3>1. CASE u < 2 * MaxSli
      BY <1>3, <3>1 DEF Grains
    <3>2. CASE ~ (u < 2 * MaxSli) /\ u <= n
      <4>1. u \div 2 \in 0 .. u - 1 /\ u \div 2 <= n
        BY <1>1, <3>2
      <4>2. f[u \div 2] = g[u \div 2]
        BY <2>1, <4>1
      <4> QED
        BY <1>3, <3>2, <4>2 DEF Grains
    <3> QED
      BY <3>1, <3>2
  <2>2. Nat \subseteq U
    <3> HIDE DEF U
    <3> QED
      BY <2>1, StrongSetInduction
  <2> QED
    BY <2>2
<1> DEFINE some(n) == CHOOSE f : Grains(n, f)
           F == [u \in Nat |-> some(u)[u]]
<1>4. \A n \in Nat : Grains(n, some(n))
  BY <1>2
<1>5. \A u \in Nat : F[u] = some(u)[u] /\ F[u] \in Nat \ {0}
  <2>1. \A u \in Nat : some(u)[u] \in Nat \ {0}
    <3> HIDE DEF some
    <3>1. \A u \in Nat : u \in 0 .. u
      OBVIOUS
    <3> QED
      BY <1>4, <3>1 DEF Grains
  <2>2. \A u \in Nat : F[u] = some(u)[u]
    BY Zenon
  <2> QED
    BY <2>1, <2>2
<1>6. ASSUME NEW u \in Nat
      PROVE  F[u] = IF u < 2 * MaxSli THEN 1 ELSE 2 * F[u \div 2]
  <2> HIDE DEF F, some
  <2>1. u \div 2 \in 0 .. u /\ u \div 2 \in Nat
    BY <1>1
  <2>2. some(u)[u \div 2] = some(u \div 2)[u \div 2]
    BY <1>1, <1>3, <1>4, <2>1
  <2>3. some(u)[u] = IF u < 2 * MaxSli THEN 1 ELSE 2 * some(u)[u \div 2]
    BY <1>4 DEF Grains
  <2> QED
    BY <1>5, <2>1, <2>2, <2>3
<1>7. F = [u \in Nat |-> F[u]]
  OBVIOUS
<1>8. F \in [Nat -> Nat \ {0}]
  BY <1>5
<1> HIDE DEF F
<1>9. F = [u \in Nat |-> IF u < 2 * MaxSli THEN 1 ELSE 2 * F[u \div 2]]
  <2>1. [u \in Nat |-> F[u]] = [u \in Nat |-> IF u < 2 * MaxSli THEN 1 ELSE 2 * F[u \div 2]]
    BY <1>6, Zenon
  <2> QED
    BY <1>7, <2>1, Zenon
<1>10. Grain = [u \in Nat |-> IF u < 2 * MaxSli THEN 1 ELSE 2 * Grain[u \div 2]]
  BY <1>9, Zenon DEF Grain
<1> DEFINE G == Grain
<1> HIDE DEF G
<1>11. \A u \in Nat : G[u] = IF u < 2 * MaxSli THEN 1 ELSE 2 * G[u \div 2]
  BY <1>10, Zenon DEF G
<1>12. DOMAIN G = Nat /\ G = [u \in Nat |-> G[u]]
  BY <1>10, Zenon DEF G
<1>13. \A u \in Nat : G[u] \in Nat \ {0}
  <2> DEFINE U == {u \in Nat : G[u] \in Nat \ {0}}
  <2>1. ASSUME NEW u \in Nat, \A v \in 0 .. u - 1 : v \in U
        PROVE  u \in U
    <3>1. CASE u < 2 * MaxSli
      BY <1>11, <3>1
    <3>2. CASE ~ (u < 2 * MaxSli)
      <4>1. u \div 2 \in 0 .. u - 1
        BY <1>1, <3>2
      <4>2. G[u \div 2] \in Nat \ {0}
        BY <2>1, <4>1
      <4>3. G[u] = 2 * G[u \div 2]
        BY <1>11, <3>2
      <4> QED
        BY <4>2, <4>3
    <3> QED
      BY <3>1, <3>2
  <2>2. Nat \subseteq U
    <3> HIDE DEF U
    <3> QED
      BY <2>1, StrongSetInduction
  <2> QED
    BY <2>2
<1> QED
  BY <1>11, <1>12, <1>13 DEF G

\* Half a size has half the grain, half the class.
LEMMA ClassHalf ==
  ASSUME NEW u \in Nat
  PROVE  IF u < 2 * MaxSli THEN MappingInsert(u) = u
         ELSE MappingInsert(u) = 2 * MappingInsert(u \div 2)
<1> USE TlsfAssumption
<1>1. CASE u < 2 * MaxSli
  <2>1. Grain[u] = 1
    BY <1>1, GrainDef
  <2> QED
    BY <1>1, <2>1 DEF MappingInsert
<1>2. CASE ~ (u < 2 * MaxSli)
  <2> DEFINE v == u \div 2
             g == Grain[v]
             q == v \div g
             t == v % g
             r == u % 2
  <2>1. v \in Nat /\ r \in 0 .. 1 /\ u = 2 * v + r
    BY Quotient
  <2>2. g \in Nat \ {0}
    BY <2>1, GrainDef
  <2>3. q \in Nat /\ t \in 0 .. g - 1 /\ v = g * q + t
    BY <2>1, <2>2, Quotient
  <2>4. Grain[u] = 2 * g
    BY <1>2, GrainDef
  <2> HIDE DEF v, g, q, t, r
  <2>5. 2 * g \in Nat \ {0} /\ 2 * t + r \in 0 .. 2 * g - 1
    BY <2>1, <2>2, <2>3
  <2>6. u = (2 * g) * q + (2 * t + r)
    <3>1. (2 * g) * q = 2 * (g * q)
      BY <2>2, <2>3
    <3> QED
      BY <2>1, <2>2, <2>3, <3>1
  <2>7. u % (2 * g) = 2 * t + r
    BY <2>3, <2>5, <2>6, QuotientUnique
  <2>8. MappingInsert(u) = u - (2 * t + r)
    BY <2>4, <2>7 DEF MappingInsert
  <2>9. MappingInsert(v) = v - t
    BY DEF MappingInsert, g, t
  <2> QED
    BY <1>2, <2>1, <2>3, <2>8, <2>9 DEF v
<1> QED
  BY <1>1, <1>2

\* A class is known by one of its sizes, not 0 but for size 0.
LEMMA ClassBounds ==
  ASSUME NEW u \in Nat
  PROVE  /\ MappingInsert(u) \in 0 .. u
         /\ u >= 2 * MaxSli => MappingInsert(u) >= 2 * MaxSli
         /\ u > 0 => MappingInsert(u) > 0
<1> USE TlsfAssumption
<1>1. ASSUME NEW n \in Nat
      PROVE  MappingInsert(n) \in 0 .. n
  <2>1. Grain[n] \in Nat \ {0}
    BY GrainDef
  <2>2. n % Grain[n] \in 0 .. Grain[n] - 1 /\ n = Grain[n] * (n \div Grain[n]) + (n % Grain[n])
        /\ n \div Grain[n] \in Nat
    BY <2>1, Quotient
  <2> DEFINE g == Grain[n]
             q == n \div g
  <2>3. MappingInsert(n) = n - (n % g)
    BY DEF MappingInsert
  <2>4. g * q \in Nat
    <3>1. g \in Nat /\ q \in Nat
      BY <2>1, <2>2
    <3> HIDE DEF g, q
    <3> QED
      BY <3>1
  <2> QED
    BY <2>2, <2>3, <2>4
<1> DEFINE U == {n \in Nat : n >= 2 * MaxSli => MappingInsert(n) >= 2 * MaxSli}
<1>2. ASSUME NEW n \in Nat, \A m \in 0 .. n - 1 : m \in U
      PROVE  n \in U
  <2> SUFFICES ASSUME n >= 2 * MaxSli PROVE MappingInsert(n) >= 2 * MaxSli
    OBVIOUS
  <2> DEFINE m == n \div 2
  <2>1. m \in 0 .. n - 1 /\ m >= MaxSli
    OBVIOUS
  <2>2. MappingInsert(n) = 2 * MappingInsert(m)
    BY ClassHalf
  <2>3. MappingInsert(m) \in Nat
    BY <1>1, <2>1
  <2> HIDE DEF m
  <2>4. CASE m < 2 * MaxSli
    <3>1. MappingInsert(m) = m
      BY <2>1, <2>4, ClassHalf
    <3> QED
      BY <2>1, <2>2, <3>1
  <2>5. CASE m >= 2 * MaxSli
    BY <1>2, <2>1, <2>2, <2>3, <2>5
  <2> QED
    BY <2>1, <2>4, <2>5
<1>3. Nat \subseteq U
  <2> HIDE DEF U
  <2> QED
    BY <1>2, StrongSetInduction
<1>4. u >= 2 * MaxSli => MappingInsert(u) >= 2 * MaxSli
  BY <1>3
<1>5. u < 2 * MaxSli => MappingInsert(u) = u
  BY ClassHalf
<1> QED
  BY <1>1, <1>4, <1>5

\* Larger sizes are in higher classes.
LEMMA ClassMonotone ==
  ASSUME NEW u \in Nat, NEW w \in Nat, u <= w
  PROVE  MappingInsert(u) <= MappingInsert(w)
<1> USE TlsfAssumption
<1> DEFINE U == {n \in Nat : \A m \in 0 .. n : MappingInsert(m) <= MappingInsert(n)}
<1>1. ASSUME NEW n \in Nat, \A k \in 0 .. n - 1 : k \in U
      PROVE  n \in U
  <2> SUFFICES ASSUME NEW m \in 0 .. n PROVE MappingInsert(m) <= MappingInsert(n)
    OBVIOUS
  <2>1. MappingInsert(m) \in 0 .. m /\ MappingInsert(n) \in 0 .. n /\ m \in Nat
    BY ClassBounds
  <2>2. CASE n < 2 * MaxSli
    <3>1. MappingInsert(m) = m /\ MappingInsert(n) = n
      BY <2>2, ClassHalf
    <3> QED
      BY <3>1
  <2>3. CASE ~ (n < 2 * MaxSli) /\ m < 2 * MaxSli
    BY <2>1, <2>3, ClassBounds
  <2>4. CASE ~ (n < 2 * MaxSli) /\ ~ (m < 2 * MaxSli)
    <3>1. MappingInsert(m) = 2 * MappingInsert(m \div 2)
          /\ MappingInsert(n) = 2 * MappingInsert(n \div 2)
      BY <2>1, <2>4, ClassHalf
    <3>2. n \div 2 \in 0 .. n - 1 /\ m \div 2 \in 0 .. (n \div 2)
      BY <2>4
    <3>3. MappingInsert(m \div 2) <= MappingInsert(n \div 2)
      BY <1>1, <3>2
    <3>4. MappingInsert(m \div 2) \in Nat /\ MappingInsert(n \div 2) \in Nat
      BY <3>2, ClassBounds
    <3> QED
      BY <3>1, <3>3, <3>4
  <2> QED
    BY <2>2, <2>3, <2>4
<1>2. Nat \subseteq U
  <2> HIDE DEF U
  <2> QED
    BY <1>1, StrongSetInduction
<1>3. w \in U
  BY <1>2
<1> QED
  BY <1>3

\* Sizes of a grain are less than twice MAX_SLI of it.
LEMMA GrainBound ==
  ASSUME NEW u \in Nat
  PROVE  u < 2 * MaxSli * Grain[u]
<1> USE TlsfAssumption
<1> DEFINE U == {n \in Nat : n < 2 * MaxSli * Grain[n]}
<1>1. ASSUME NEW n \in Nat, \A m \in 0 .. n - 1 : m \in U
      PROVE  n \in U
  <2>1. CASE n < 2 * MaxSli
    BY <2>1, GrainDef
  <2>2. CASE ~ (n < 2 * MaxSli)
    <3> DEFINE m == n \div 2
               top == 2 * MaxSli * Grain[m]
    <3>1. m \in 0 .. n - 1 /\ n <= 2 * m + 1
      BY <2>2
    <3>2. Grain[n] = 2 * Grain[m] /\ Grain[m] \in Nat \ {0}
      BY <2>2, <3>1, GrainDef
    <3>3. m < top
      BY <1>1, <3>1
    <3>4. top \in Nat /\ 2 * MaxSli * Grain[n] = 2 * top
      BY <3>2
    <3> HIDE DEF m, top
    <3> QED
      BY <3>1, <3>3, <3>4
  <2> QED
    BY <2>1, <2>2
<1>2. Nat \subseteq U
  <2> HIDE DEF U
  <2> QED
    BY <1>1, StrongSetInduction
<1> QED
  BY <1>2

\* A size above u that is a multiple of the grain of u is one of its own.
LEMMA GrainDivides ==
  ASSUME NEW u \in Nat, NEW q \in 0 .. 2 * MaxSli, u <= q * Grain[u]
  PROVE  \E p \in Nat : q * Grain[u] = p * Grain[q * Grain[u]]
<1> USE TlsfAssumption
<1> DEFINE Whole(n, k) ==
             n <= k * Grain[n] => \E p \in Nat : k * Grain[n] = p * Grain[k * Grain[n]]
           U == {n \in Nat : \A k \in 0 .. 2 * MaxSli : Whole(n, k)}
<1>1. ASSUME NEW n \in Nat, \A m \in 0 .. n - 1 : m \in U
      PROVE  n \in U
  <2> SUFFICES ASSUME NEW k \in 0 .. 2 * MaxSli, n <= k * Grain[n]
               PROVE  \E p \in Nat : k * Grain[n] = p * Grain[k * Grain[n]]
    OBVIOUS
  <2>1. CASE n < 2 * MaxSli
    <3>1. Grain[n] = 1 /\ k * Grain[n] = k
      BY <2>1, GrainDef
    <3>2. CASE k < 2 * MaxSli
      <4>1. Grain[k] = 1
        BY <3>2, GrainDef
      <4> QED
        BY <3>1, <4>1
    <3>3. CASE k = 2 * MaxSli
      <4>1. k \div 2 = MaxSli
        BY <3>3
      <4>2. Grain[MaxSli] = 1
        BY GrainDef
      <4>3. Grain[k] = 2
        BY <3>3, <4>1, <4>2, GrainDef
      <4>4. k * Grain[n] = MaxSli * Grain[k] /\ MaxSli \in Nat
        BY <3>1, <3>3, <4>3
      <4> QED
        BY <3>1, <4>4
    <3> QED
      BY <3>2, <3>3
  <2>2. CASE ~ (n < 2 * MaxSli)
    <3> DEFINE m == n \div 2
               w == k * Grain[m]
    <3>1. m \in 0 .. n - 1 /\ n <= 2 * m + 1 /\ 2 * m <= n
      BY <2>2
    <3>2. Grain[n] = 2 * Grain[m] /\ Grain[m] \in Nat \ {0}
      BY <2>2, <3>1, GrainDef
    <3>3. w \in Nat /\ k * Grain[n] = 2 * w
      BY <3>2
    <3>4. m <= w
      <4> HIDE DEF m, w
      <4> QED
        BY <3>1, <3>3
    <3>5. PICK p \in Nat : w = p * Grain[w]
      BY <1>1, <3>1, <3>4
    <3>6. Grain[w] \in Nat
      BY <3>3, GrainDef
    <3>7. (2 * w) \div 2 = w /\ ~ (2 * w < 2 * MaxSli) /\ 2 * w \in Nat
      <4> HIDE DEF w
      <4> QED
        BY <2>2, <3>3
    <3>8. Grain[2 * w] = 2 * Grain[w]
      BY <3>7, GrainDef
    <3>9. 2 * w = p * Grain[2 * w]
      <4> HIDE DEF w
      <4>1. p * (2 * Grain[w]) = 2 * (p * Grain[w])
        BY <3>6
      <4> QED
        BY <3>5, <3>8, <4>1
    <3> HIDE DEF w
    <3> QED
      BY <3>3, <3>9
  <2> QED
    BY <2>1, <2>2
<1>2. Nat \subseteq U
  <2> HIDE DEF U
  <2> QED
    BY <1>1, StrongSetInduction
<1>3. Whole(u, q)
  BY <1>2
<1> QED
  BY <1>3

\* A request is rounded up to the least size of a class.
LEMMA RequestClass ==
  ASSUME NEW u \in Nat
  PROVE  /\ MappingSearch(u) \in Nat /\ MappingSearch(u) >= u
         /\ MappingInsert(MappingSearch(u)) = MappingSearch(u)
<1> USE TlsfAssumption
<1> DEFINE g == Grain[u]
           q == (u + g - 1) \div g
           r == (u + g - 1) % g
           w == q * g
<1>1. g \in Nat \ {0}
  BY GrainDef
<1>2. u + g - 1 \in Nat /\ u + g - 1 >= u
  BY <1>1
<1>3. q \in Nat /\ r \in 0 .. g - 1 /\ u + g - 1 = g * q + r
  BY <1>1, <1>2, Quotient
<1>4. MappingSearch(u) = w
  BY DEF MappingSearch
<1>5. u < 2 * MaxSli * g
  BY GrainBound
<1> HIDE DEF g, q, r
<1>6. w \in Nat /\ w = g * q
  BY <1>1, <1>3
<1>7. u <= w /\ w <= u + g - 1
  <2> HIDE DEF w
  <2> QED
    BY <1>1, <1>3, <1>6
<1>8. q <= 2 * MaxSli
  <2> DEFINE k == 2 * MaxSli
  <2> SUFFICES ASSUME q >= k + 1 PROVE FALSE
    BY <1>3
  <2>1. g * q >= g * (k + 1)
    BY <1>1, <1>3
  <2>2. g * (k + 1) = k * g + g
    BY <1>1
  <2> DEFINE kg == k * g
             qg == g * q
  <2>3. kg \in Nat /\ qg \in Nat /\ u < kg /\ qg >= kg + g
    BY <1>1, <1>3, <1>5, <2>1, <2>2
  <2> HIDE DEF kg, w
  <2>4. w = qg
    BY <1>6
  <2> HIDE DEF qg
  <2> QED
    BY <1>1, <1>7, <2>3, <2>4
<1>9. PICK p \in Nat : w = p * Grain[w]
  <2>1. q \in 0 .. 2 * MaxSli
    BY <1>3, <1>8
  <2> QED
    BY <1>7, <2>1, GrainDivides DEF g
<1>10. Grain[w] \in Nat \ {0}
  BY <1>6, GrainDef
<1> HIDE DEF w
<1>11. w % Grain[w] = 0
  <2>1. 0 \in 0 .. Grain[w] - 1 /\ Grain[w] * p + 0 = w
    BY <1>6, <1>9, <1>10
  <2>2. (Grain[w] * p + 0) % Grain[w] = 0
    BY <1>10, <2>1, QuotientUnique
  <2> QED
    BY <2>1, <2>2
<1>12. MappingInsert(w) = w
  BY <1>6, <1>11 DEF MappingInsert
<1> QED
  BY <1>4, <1>6, <1>7, <1>12

-----------------------------------------------------------------------------
(* What the heap stands for *)

Cell == [prev : Nat, len : Nat]

HeapType(h) ==
  h \in [mem : [1 .. MemTop -> Cell], matrix : [Classes -> Nat],
         areas : Seq([at : Nat, end : Nat]), brk : Nat \ {0}]

Areas(h) == {h.areas[i] : i \in DOMAIN h.areas}
AtsOf(R)  == {r.at : r \in R}
EndsOf(R) == {r.end : r \in R}

\* g.hs are the addresses of all headers, g.sz[b] is the size of block b, and
\* g.fr are the free blocks that are in their list.
Nx(g, b) == b + 1 + g.sz[b]
Busy(g)  == g.hs \ g.fr

\* The headers lie one behind the other in the areas R.
Ordered(g) ==
  /\ g.hs \subseteq 1 .. MemTop /\ g.sz \in [g.hs -> Nat] /\ g.fr \subseteq g.hs
  /\ \A b, c \in g.hs : b < c => b + g.sz[b] < c

Joined(R, g) ==
  /\ \A b \in g.hs \ EndsOf(R) : Nx(g, b) \in g.hs \ AtsOf(R)
  /\ \A b \in g.hs \ AtsOf(R) : \E p \in g.hs \ EndsOf(R) : Nx(g, p) = b

Bounded(R, g) ==
  /\ \A r \in R : /\ r.at \in Busy(g) /\ g.sz[r.at] = 1
                  /\ r.end \in Busy(g) /\ g.sz[r.end] = 0
                  /\ r.at < r.end
  /\ \A b \in g.hs : \E r \in R : r.at <= b /\ b <= r.end
  /\ \A r, q \in R : r = q \/ r.end < q.at \/ q.end < r.at

\* No two free blocks are neighbours; the node of a free block is inside it.
Apart(g) == \A b \in g.fr : g.sz[b] > 0 /\ Nx(g, b) \notin g.fr

Layout(R, g) == Ordered(g) /\ Joined(R, g) /\ Bounded(R, g) /\ Apart(g)

\* What the headers say is so, but for whether the blocks of X are free,
\* whether the one before is where it is a block of Y, and the sizes in Z.
Tags(h, g, X, Y, Z) ==
  /\ \A b \in g.hs \ Z : Size(h, b) = g.sz[b]
  /\ \A b \in g.hs \ X : IsFree(h, b) <=> b \in g.fr
  /\ \A b \in g.hs \ (Y \cup EndsOf(Areas(h))) : PrevFree(h, Nx(g, b)) <=> b \in g.fr
  /\ \A b \in g.fr : Nx(g, b) \notin EndsOf(Areas(h)) => h.mem[Nx(g, b)].prev = b

\* pos[b] is the place of a free block in its list.
Linked(h, g, pos) ==
  /\ pos \in [g.fr -> Nat]
  /\ \A b \in g.fr :
       pos[b] = 0 => FPrev(h, b) = 0 /\ h.matrix[MappingInsert(g.sz[b])] = b
  /\ \A b \in g.fr :
       pos[b] # 0 => /\ FPrev(h, b) \in g.fr
                     /\ MappingInsert(g.sz[FPrev(h, b)]) = MappingInsert(g.sz[b])
                     /\ pos[FPrev(h, b)] = pos[b] - 1
                     /\ FNext(h, FPrev(h, b)) = b
  /\ \A b \in g.fr :
       FNext(h, b) # 0 => /\ FNext(h, b) \in g.fr
                          /\ MappingInsert(g.sz[FNext(h, b)]) = MappingInsert(g.sz[b])
                          /\ FPrev(h, FNext(h, b)) = b
  /\ \A c \in Classes :
       h.matrix[c] # 0 => /\ h.matrix[c] \in g.fr
                          /\ MappingInsert(g.sz[h.matrix[c]]) = c
                          /\ pos[h.matrix[c]] = 0
  /\ \A b, c \in g.fr :
       MappingInsert(g.sz[b]) = MappingInsert(g.sz[c]) /\ pos[b] = pos[c] => b = c

Chains(h, g) == \E pos : Linked(h, g, pos)

Below(h) == \A r \in Areas(h) : r.end < h.brk

Sound(h, g, X, Y, Z) ==
  HeapType(h) /\ Layout(Areas(h), g) /\ Tags(h, g, X, Y, Z) /\ Chains(h, g) /\ Below(h)

Whole(h, g) == Sound(h, g, {}, {}, {})

\* The blocks of C stay where they are, and what is in them.
Keeps(h, g, h2, g2, C) ==
  \A c \in C : /\ c \in Busy(g2) /\ g2.sz[c] = g.sz[c]
               /\ \A a \in c + 1 .. c + g.sz[c] : h2.mem[a] = h.mem[a]

\* h2 is h but for the memory at A.
But(h, h2, A) ==
  /\ HeapType(h2)
  /\ h2.areas = h.areas /\ h2.brk = h.brk
  /\ \A a \in (1 .. MemTop) \ A : h2.mem[a] = h.mem[a]

-----------------------------------------------------------------------------
(* Headers *)

\* The parts of the length of a header.
LEMMA LenParts ==
  ASSUME NEW size \in Nat, NEW flags \in 0 .. 3
  PROVE  /\ (4 * size + flags) \div 4 = size
         /\ (4 * size + flags) % 4 = flags
         /\ (4 * size + flags) % 2 = flags % 2
         /\ ((4 * size + flags) \div 2) % 2 = flags \div 2
OBVIOUS

\* What is seen of header a.
Says(h, a, prev, size, free, prevFree) ==
  /\ h.mem[a].prev = prev /\ Size(h, a) = size
  /\ IsFree(h, a) <=> free
  /\ PrevFree(h, a) <=> prevFree

\* A header that is written is read back, no other memory changes.
LEMMA HeaderDone ==
  ASSUME NEW h, HeapType(h), NEW b \in 1 .. MemTop, NEW prev \in Nat, NEW size \in Nat,
         NEW flags \in 0 .. 3
  PROVE  LET h2 == Header(h, b, prev, size, flags)
         IN  /\ But(h, h2, {b}) /\ h2.matrix = h.matrix
             /\ Says(h2, b, prev, size, flags % 2 = 1, flags >= 2)
<1> DEFINE h2 == Header(h, b, prev, size, flags)
<1>1. 4 * size + flags \in Nat
  OBVIOUS
<1>2. HeapType(h2)
  BY <1>1 DEF HeapType, Header, Cell
<1>3. h2.matrix = h.matrix /\ h2.areas = h.areas /\ h2.brk = h.brk
  BY DEF HeapType, Header
<1>4. \A a \in (1 .. MemTop) \ {b} : h2.mem[a] = h.mem[a]
  BY DEF HeapType, Header
<1>5. h2.mem[b] = [prev |-> prev, len |-> 4 * size + flags]
  BY DEF HeapType, Header
<1>6. flags \div 2 = 1 <=> flags >= 2
  OBVIOUS
<1> HIDE DEF h2
<1>7. h2.mem[b].prev = prev /\ h2.mem[b].len = 4 * size + flags
  BY <1>5
<1>8. Size(h2, b) = size /\ (IsFree(h2, b) <=> flags % 2 = 1) /\ (PrevFree(h2, b) <=> flags >= 2)
  BY <1>6, <1>7, LenParts DEF Size, IsFree, PrevFree
<1>9. But(h, h2, {b})
  BY <1>2, <1>3, <1>4 DEF But
<1> QED
  BY <1>3, <1>7, <1>8, <1>9 DEF h2, Says

\* A length, put together again.
LEMMA LenSplit ==
  ASSUME NEW n \in Nat
  PROVE  /\ n \div 4 \in Nat /\ n % 4 \in 0 .. 3 /\ n % 2 \in 0 .. 1
         /\ (n % 4) % 2 = n % 2
         /\ (n % 4) \div 2 = (n \div 2) % 2
         /\ n = 4 * (n \div 4) + (n % 4)
         /\ (n \div 2) % 2 \in 0 .. 1
         /\ n % 4 = 2 * ((n \div 2) % 2) + (n % 2)
OBVIOUS

\* SET_SIZE changes the size and keeps the flags.
LEMMA SetSizeDone ==
  ASSUME NEW h, HeapType(h), NEW b \in 1 .. MemTop, NEW size \in Nat
  PROVE  LET h2 == SetSize(h, b, size)
         IN  /\ But(h, h2, {b}) /\ h2.matrix = h.matrix
             /\ h2.mem[b].prev = h.mem[b].prev /\ Size(h2, b) = size
             /\ IsFree(h2, b) <=> IsFree(h, b)
             /\ PrevFree(h2, b) <=> PrevFree(h, b)
<1> DEFINE h2 == SetSize(h, b, size)
           n == h.mem[b].len
           flags == n % 4
<1>1. n \in Nat /\ h.mem[b].prev \in Nat
  BY DEF HeapType, Cell
<1>2. flags \in 0 .. 3 /\ flags % 2 = n % 2 /\ flags \div 2 = (n \div 2) % 2
  BY <1>1, LenSplit
<1>3. 4 * size + flags \in Nat
  BY <1>2
<1>4. HeapType(h2)
  BY <1>3 DEF HeapType, SetSize, Cell
<1>5. h2.matrix = h.matrix /\ h2.areas = h.areas /\ h2.brk = h.brk
  BY DEF HeapType, SetSize
<1>6. \A a \in (1 .. MemTop) \ {b} : h2.mem[a] = h.mem[a]
  BY DEF HeapType, SetSize
<1>7. h2.mem[b].prev = h.mem[b].prev /\ h2.mem[b].len = 4 * size + flags
  BY DEF HeapType, SetSize, Cell
<1> HIDE DEF h2, flags
<1>8. Size(h2, b) = size /\ h2.mem[b].len % 2 = n % 2
      /\ (h2.mem[b].len \div 2) % 2 = (n \div 2) % 2
  BY <1>2, <1>7, LenParts DEF Size
<1>9. But(h, h2, {b})
  BY <1>4, <1>5, <1>6 DEF But
<1> QED
  BY <1>5, <1>7, <1>8, <1>9 DEF h2, IsFree, PrevFree

\* SET_FREE_BLOCK and SET_BUSY_BLOCK change that flag alone.
LEMMA SetFreeDone ==
  ASSUME NEW h, HeapType(h), NEW b \in 1 .. MemTop, NEW on \in BOOLEAN
  PROVE  LET h2 == SetFree(h, b, on)
         IN  /\ But(h, h2, {b}) /\ h2.matrix = h.matrix
             /\ h2.mem[b].prev = h.mem[b].prev /\ Size(h2, b) = Size(h, b)
             /\ IsFree(h2, b) <=> on
             /\ PrevFree(h2, b) <=> PrevFree(h, b)
<1> DEFINE h2 == SetFree(h, b, on)
           n == h.mem[b].len
           size == n \div 4
           p == (n \div 2) % 2
           f == IF on THEN 1 ELSE 0
           flags == 2 * p + f
<1>1. n \in Nat /\ h.mem[b].prev \in Nat
  BY DEF HeapType, Cell
<1>2. /\ size \in Nat /\ p \in 0 .. 1 /\ f \in 0 .. 1 /\ (f = 1 <=> on)
      /\ n = 4 * size + (2 * p + (n % 2)) /\ n % 2 \in 0 .. 1
  BY <1>1, LenSplit
<1>3. n - (n % 2) + f = 4 * size + flags
  BY <1>2
<1>4. flags \in 0 .. 3 /\ flags % 2 = f /\ flags \div 2 = p
  BY <1>2
<1>5. n - (n % 2) + f \in Nat
  BY <1>2, <1>3, <1>4
<1>6. h2 = [h EXCEPT !.mem[b].len = n - (n % 2) + f]
  BY DEF SetFree, THIS_FREE
<1> HIDE DEF h2, f
<1>7. HeapType(h2)
  BY <1>5, <1>6 DEF HeapType, Cell
<1>8. h2.matrix = h.matrix /\ h2.areas = h.areas /\ h2.brk = h.brk
  BY <1>6 DEF HeapType
<1>9. \A a \in (1 .. MemTop) \ {b} : h2.mem[a] = h.mem[a]
  BY <1>6 DEF HeapType
<1>10. h2.mem[b].prev = h.mem[b].prev /\ h2.mem[b].len = n - (n % 2) + f
  BY <1>6 DEF HeapType, Cell
<1> HIDE DEF flags, size, p
<1>11. /\ h2.mem[b].len \div 4 = size /\ h2.mem[b].len % 2 = f
       /\ (h2.mem[b].len \div 2) % 2 = p
  <2>1. h2.mem[b].len = 4 * size + flags
    BY <1>3, <1>10
  <2>2. /\ (4 * size + flags) \div 4 = size
        /\ (4 * size + flags) % 2 = flags % 2
        /\ ((4 * size + flags) \div 2) % 2 = flags \div 2
    <3> HIDE DEF flags
    <3> QED
      BY <1>2, <1>4, LenParts
  <2> QED
    BY <1>4, <2>1, <2>2
<1>12. But(h, h2, {b})
  BY <1>7, <1>8, <1>9 DEF But
<1> QED
  BY <1>2, <1>8, <1>10, <1>11, <1>12 DEF h2, Size, IsFree, PrevFree, size, p

\* SET_FREE_PREV_BLOCK and SET_BUSY_PREV_BLOCK change that flag alone.
LEMMA SetPrevFreeDone ==
  ASSUME NEW h, HeapType(h), NEW b \in 1 .. MemTop, NEW on \in BOOLEAN
  PROVE  LET h2 == SetPrevFree(h, b, on)
         IN  /\ But(h, h2, {b}) /\ h2.matrix = h.matrix
             /\ h2.mem[b].prev = h.mem[b].prev /\ Size(h2, b) = Size(h, b)
             /\ IsFree(h2, b) <=> IsFree(h, b)
             /\ PrevFree(h2, b) <=> on
<1> DEFINE h2 == SetPrevFree(h, b, on)
           n == h.mem[b].len
           size == n \div 4
           p == IF on THEN 2 ELSE 0
           f == n % 2
           flags == f + p
<1>1. n \in Nat /\ h.mem[b].prev \in Nat
  BY DEF HeapType, Cell
<1>2. size \in Nat /\ f \in 0 .. 1 /\ p \in {0, 2} /\ (p = 2 <=> on)
  BY <1>1, LenSplit
<1>3. 4 * size + f + p = 4 * size + flags /\ 4 * size + f + p \in Nat
  BY <1>2
<1>4. flags \in 0 .. 3 /\ flags % 2 = f /\ (flags \div 2 = 1 <=> on)
  BY <1>2
<1>5. h2 = [h EXCEPT !.mem[b].len = 4 * size + f + p]
  BY DEF SetPrevFree, PREV_FREE
<1> HIDE DEF h2, f, p, size
<1>6. HeapType(h2)
  BY <1>3, <1>5 DEF HeapType, Cell
<1>7. h2.matrix = h.matrix /\ h2.areas = h.areas /\ h2.brk = h.brk
  BY <1>5 DEF HeapType
<1>8. \A a \in (1 .. MemTop) \ {b} : h2.mem[a] = h.mem[a]
  BY <1>5 DEF HeapType
<1>9. h2.mem[b].prev = h.mem[b].prev /\ h2.mem[b].len = 4 * size + f + p
  BY <1>5 DEF HeapType, Cell
<1> HIDE DEF flags
<1>10. /\ h2.mem[b].len \div 4 = size /\ h2.mem[b].len % 2 = f
       /\ (h2.mem[b].len \div 2) % 2 = 1 <=> on
  <2>1. h2.mem[b].len = 4 * size + flags
    BY <1>3, <1>9
  <2>2. /\ h2.mem[b].len \div 4 = size /\ h2.mem[b].len % 2 = flags % 2
        /\ (h2.mem[b].len \div 2) % 2 = flags \div 2
    BY <1>2, <1>4, <2>1, LenParts
  <2> QED
    BY <1>4, <2>2
<1>11. But(h, h2, {b})
  BY <1>6, <1>7, <1>8 DEF But
<1> QED
  BY <1>7, <1>9, <1>10, <1>11 DEF h2, Size, IsFree, PrevFree, size, f

\* Writing header.prev leaves the length.
LEMMA SetPrevDone ==
  ASSUME NEW h, HeapType(h), NEW b \in 1 .. MemTop, NEW prev \in Nat
  PROVE  LET h2 == SetPrev(h, b, prev)
         IN  /\ But(h, h2, {b}) /\ h2.matrix = h.matrix
             /\ h2.mem[b].prev = prev /\ h2.mem[b].len = h.mem[b].len
<1> DEFINE h2 == SetPrev(h, b, prev)
<1>1. h.mem[b].len \in Nat /\ h.mem[b].prev \in Nat
  BY DEF HeapType, Cell
<1>2. HeapType(h2)
  BY DEF HeapType, SetPrev, Cell
<1>3. h2.matrix = h.matrix /\ h2.areas = h.areas /\ h2.brk = h.brk
  BY DEF HeapType, SetPrev
<1>4. \A a \in (1 .. MemTop) \ {b} : h2.mem[a] = h.mem[a]
  BY DEF HeapType, SetPrev
<1>5. h2.mem[b].prev = prev /\ h2.mem[b].len = h.mem[b].len
  BY DEF HeapType, SetPrev, Cell
<1> HIDE DEF h2
<1> QED
  BY <1>2, <1>3, <1>4, <1>5 DEF But, h2

-----------------------------------------------------------------------------
(* Where blocks are *)

\* Blocks do not overlap, and a free block has busy neighbours in its area.
LEMMA Neighbours ==
  ASSUME NEW R, NEW g, Layout(R, g)
  PROVE  /\ \A b \in g.hs : b \in Nat /\ b > 0 /\ b <= MemTop /\ g.sz[b] \in Nat
         /\ \A b, c \in g.hs : b < c => Nx(g, b) <= c
         /\ \A b, c \in g.hs : Nx(g, b) = Nx(g, c) => b = c
         /\ \A b \in g.hs : Nx(g, b) \in Nat /\ Nx(g, b) > b
         /\ \A b \in g.fr : /\ b \in g.hs /\ b \notin AtsOf(R) /\ b \notin EndsOf(R)
                            /\ g.sz[b] > 0
                            /\ Nx(g, b) \in Busy(g) /\ Nx(g, b) \notin AtsOf(R)
         /\ \A b \in g.hs \ EndsOf(R) : Nx(g, b) \in g.hs \ AtsOf(R)
<1> USE TlsfAssumption
<1>1. \A b \in g.hs : b \in Nat /\ b > 0 /\ b <= MemTop /\ g.sz[b] \in Nat
  BY DEF Layout, Ordered
<1>2. \A b, c \in g.hs : b < c => Nx(g, b) <= c
  BY <1>1 DEF Layout, Ordered, Nx
<1>3. \A b \in g.hs : Nx(g, b) \in Nat /\ Nx(g, b) > b
  BY <1>1 DEF Nx
<1>4. ASSUME NEW b \in g.hs, NEW c \in g.hs, Nx(g, b) = Nx(g, c)
      PROVE  b = c
  BY <1>1, <1>2, <1>3, <1>4
<1>5. \A b \in g.hs \ EndsOf(R) : Nx(g, b) \in g.hs \ AtsOf(R)
  BY DEF Layout, Joined
<1>6. ASSUME NEW b \in g.fr
      PROVE  /\ b \in g.hs /\ b \notin AtsOf(R) /\ b \notin EndsOf(R)
             /\ g.sz[b] > 0
             /\ Nx(g, b) \in Busy(g) /\ Nx(g, b) \notin AtsOf(R)
  <2>1. b \in g.hs /\ b \notin AtsOf(R) /\ b \notin EndsOf(R)
    BY DEF Layout, Ordered, Bounded, Busy, AtsOf, EndsOf
  <2>2. g.sz[b] > 0 /\ Nx(g, b) \notin g.fr
    BY DEF Layout, Apart
  <2> QED
    BY <1>5, <2>1, <2>2 DEF Busy
<1> QED
  BY <1>1, <1>2, <1>3, <1>4, <1>5, <1>6

\* What is in a block is neither a header nor a free block's node.
LEMMA Inside ==
  ASSUME NEW R, NEW g, Layout(R, g), NEW b \in g.hs,
         NEW a \in b + 1 .. b + g.sz[b]
  PROVE  /\ a \in 1 .. MemTop /\ a \notin g.hs
         /\ b \in Busy(g) => \A x \in g.fr : a # x + 1
         /\ \A x \in g.hs : x # b => a \notin x .. x + g.sz[x]
<1>1. /\ b \in Nat /\ b > 0 /\ g.sz[b] \in Nat /\ a \in Nat /\ a > b /\ a < Nx(g, b)
  BY Neighbours DEF Nx
<1>2. a <= MemTop
  <2>1. CASE b \in EndsOf(R)
    <3>1. g.sz[b] = 0
      BY <2>1 DEF Layout, Bounded, EndsOf
    <3> QED
      BY <1>1, <3>1
  <2>2. CASE b \notin EndsOf(R)
    <3>1. Nx(g, b) \in g.hs
      BY <2>2, Neighbours
    <3>2. Nx(g, b) \in Nat /\ Nx(g, b) <= MemTop
      BY <3>1, Neighbours
    <3> QED
      BY <1>1, <3>2, TlsfAssumption
  <2> QED
    BY <2>1, <2>2
<1>3. ASSUME NEW x \in g.hs, x # b
      PROVE  a \notin x .. x + g.sz[x]
  <2>1. x \in Nat /\ g.sz[x] \in Nat
    BY Neighbours
  <2>2. CASE x < b
    <3>1. x + g.sz[x] < b
      BY <2>2 DEF Layout, Ordered
    <3> QED
      BY <1>1, <2>1, <3>1
  <2>3. CASE b < x
    <3>1. Nx(g, b) <= x
      BY <2>3, Neighbours
    <3> QED
      BY <1>1, <2>1, <3>1 DEF Nx
  <2> QED
    BY <1>1, <1>3, <2>1, <2>2, <2>3
<1>4. a \notin g.hs
  <2> SUFFICES ASSUME a \in g.hs PROVE FALSE
    OBVIOUS
  <2>1. g.sz[a] \in Nat /\ a # b
    BY <1>1, Neighbours
  <2>2. a \in a .. a + g.sz[a]
    BY <1>1, <2>1
  <2> QED
    BY <1>3, <2>1, <2>2
<1>5. ASSUME b \in Busy(g), NEW x \in g.fr
      PROVE  a # x + 1
  <2>1. x \in g.hs /\ x # b /\ x \in Nat /\ g.sz[x] \in Nat /\ g.sz[x] > 0
    BY <1>5, Neighbours DEF Busy
  <2>2. x + 1 \in x .. x + g.sz[x]
    BY <2>1
  <2> QED
    BY <1>3, <2>1, <2>2
<1> QED
  BY <1>1, <1>2, <1>3, <1>4, <1>5

\* Free blocks have their nodes apart from headers and from each other.
LEMMA Nodes ==
  ASSUME NEW R, NEW g, Layout(R, g), NEW b \in g.fr
  PROVE  b + 1 \in 1 .. MemTop /\ b + 1 \notin g.hs /\ b \in g.hs /\ b \in 1 .. MemTop
<1>1. b \in g.hs /\ b \in Nat /\ b > 0 /\ b <= MemTop /\ g.sz[b] \in Nat /\ g.sz[b] > 0
  BY Neighbours
<1>2. b + 1 \in b + 1 .. b + g.sz[b]
  BY <1>1
<1>3. b + 1 \in 1 .. MemTop /\ b + 1 \notin g.hs
  BY <1>1, <1>2, Inside
<1> QED
  BY <1>1, <1>3, TlsfAssumption

-----------------------------------------------------------------------------
(* The changes of the layout *)

Taken(g, b) == [hs |-> g.hs, sz |-> g.sz, fr |-> g.fr \ {b}]
Freed(g, b) == [hs |-> g.hs, sz |-> g.sz, fr |-> g.fr \cup {b}]

\* Block b and the one behind are one.
Merged(g, b) ==
  [hs |-> g.hs \ {Nx(g, b)},
   sz |-> [c \in g.hs \ {Nx(g, b)} |->
             IF c = b THEN g.sz[b] + g.sz[Nx(g, b)] + 1 ELSE g.sz[c]],
   fr |-> g.fr]

\* Block b has that size, the rest is a block.
Cut(g, b, size) ==
  [hs |-> g.hs \cup {b + 1 + size},
   sz |-> [c \in g.hs \cup {b + 1 + size} |->
             IF c = b THEN size
             ELSE IF c = b + 1 + size THEN g.sz[b] - size - 1 ELSE g.sz[c]],
   fr |-> g.fr]

\* A free block can be counted as busy.
LEMMA TakenLayout ==
  ASSUME NEW R, NEW g, Layout(R, g), NEW b \in g.fr
  PROVE  /\ Layout(R, Taken(g, b)) /\ \A c : Nx(Taken(g, b), c) = Nx(g, c)
         /\ Busy(Taken(g, b)) = Busy(g) \cup {b}
<1> DEFINE g2 == Taken(g, b)
<1>1. g2.hs = g.hs /\ g2.sz = g.sz /\ g2.fr = g.fr \ {b}
  BY DEF Taken
<1> HIDE DEF g2
<1>2. b \in g.hs
  BY Neighbours
<1>3. \A c : Nx(g2, c) = Nx(g, c)
  BY <1>1 DEF Nx
<1>4. Busy(g2) = Busy(g) \cup {b}
  BY <1>1, <1>2 DEF Busy
<1>5. Ordered(g2)
  BY <1>1 DEF Layout, Ordered
<1>6. Joined(R, g2)
  BY <1>1, <1>3 DEF Layout, Joined
<1>7. Bounded(R, g2)
  BY <1>1, <1>4 DEF Layout, Bounded
<1>8. Apart(g2)
  BY <1>1, <1>3 DEF Layout, Apart
<1> QED
  BY <1>3, <1>4, <1>5, <1>6, <1>7, <1>8 DEF Layout, g2

\* A busy block with busy neighbours can be counted as free.
LEMMA FreedLayout ==
  ASSUME NEW R, NEW g, Layout(R, g), NEW b \in Busy(g),
         b \notin AtsOf(R), b \notin EndsOf(R), g.sz[b] > 0, Nx(g, b) \notin g.fr,
         \A p \in g.fr : Nx(g, p) # b
  PROVE  /\ Layout(R, Freed(g, b)) /\ \A c : Nx(Freed(g, b), c) = Nx(g, c)
         /\ Busy(Freed(g, b)) = Busy(g) \ {b}
<1> DEFINE g2 == Freed(g, b)
<1>1. g2.hs = g.hs /\ g2.sz = g.sz /\ g2.fr = g.fr \cup {b}
  BY DEF Freed
<1> HIDE DEF g2
<1>2. b \in g.hs /\ Nx(g, b) # b
  BY Neighbours DEF Busy
<1>3. \A c : Nx(g2, c) = Nx(g, c)
  BY <1>1 DEF Nx
<1>4. Busy(g2) = Busy(g) \ {b}
  BY <1>1 DEF Busy
<1>5. Ordered(g2)
  BY <1>1, <1>2 DEF Layout, Ordered
<1>6. Joined(R, g2)
  BY <1>1, <1>3 DEF Layout, Joined
<1>7. Bounded(R, g2)
  BY <1>1, <1>4 DEF Layout, Bounded, AtsOf, EndsOf
<1>8. Apart(g2)
  BY <1>1, <1>2, <1>3 DEF Layout, Apart
<1> QED
  BY <1>3, <1>4, <1>5, <1>6, <1>7, <1>8 DEF Layout, g2

\* A busy block can take in a busy one behind it.
LEMMA MergedLayout ==
  ASSUME NEW R, NEW g, Layout(R, g), NEW b \in Busy(g),
         b \notin AtsOf(R), b \notin EndsOf(R),
         Nx(g, b) \in Busy(g), Nx(g, b) \notin EndsOf(R)
  PROVE  LET g2 == Merged(g, b)
         IN  /\ Layout(R, g2) /\ Nx(g2, b) = Nx(g, Nx(g, b))
             /\ \A c \in g2.hs \ {b} : g2.sz[c] = g.sz[c] /\ Nx(g2, c) = Nx(g, c)
             /\ g2.hs = g.hs \ {Nx(g, b)} /\ g2.fr = g.fr /\ b \in g2.hs
             /\ g2.sz[b] = g.sz[b] + g.sz[Nx(g, b)] + 1
<1> DEFINE n == Nx(g, b)
           g2 == Merged(g, b)
<1>1. /\ b \in g.hs /\ n \in g.hs /\ b \in Nat /\ n \in Nat /\ n > b /\ n \notin AtsOf(R)
      /\ g.sz[b] \in Nat /\ g.sz[n] \in Nat /\ n = b + 1 + g.sz[b]
  BY Neighbours DEF Busy, Nx
<1>2. g2.hs = g.hs \ {n} /\ g2.fr = g.fr /\ b \in g2.hs
  BY <1>1 DEF Merged
<1>3. g2.sz[b] = g.sz[b] + g.sz[n] + 1
  BY <1>1 DEF Merged
<1>4. \A c \in g2.hs \ {b} : g2.sz[c] = g.sz[c] /\ Nx(g2, c) = Nx(g, c)
  BY <1>1 DEF Merged, Nx
<1>5. g2.sz \in [g2.hs -> Nat]
  <2>1. \A c \in g2.hs : g2.sz[c] \in Nat
    <3>1. \A c \in g2.hs \ {b} : g2.sz[c] \in Nat
      BY <1>2, <1>4, Neighbours
    <3> QED
      BY <1>1, <1>3, <3>1
  <2>2. g2.sz = [c \in g2.hs |-> g2.sz[c]]
    BY DEF Merged
  <2> QED
    BY <2>1, <2>2
<1>6. Nx(g2, b) = Nx(g, n)
  BY <1>1, <1>3 DEF Nx
<1> HIDE DEF g2
<1>7. Ordered(g2)
  <2>1. g2.hs \subseteq 1 .. MemTop
    BY <1>2 DEF Layout, Ordered
  <2>2. g2.fr \subseteq g2.hs
    BY <1>2 DEF Layout, Ordered, Busy
  <2>3. ASSUME NEW x \in g2.hs, NEW y \in g2.hs, x < y
        PROVE  x + g2.sz[x] < y
    <3>1. x \in g.hs /\ y \in g.hs /\ y # n /\ x \in Nat /\ y \in Nat
      BY <1>2, Neighbours
    <3>2. CASE x # b
      <4>1. g2.sz[x] = g.sz[x]
        BY <1>4, <3>2
      <4> QED
        BY <2>3, <3>1, <4>1 DEF Layout, Ordered
    <3>3. CASE x = b
      <4>1. n <= y
        BY <2>3, <3>1, <3>3, Neighbours
      <4>2. n < y
        BY <1>1, <3>1, <4>1
      <4>3. n + g.sz[n] < y
        BY <1>1, <3>1, <4>2 DEF Layout, Ordered
      <4> QED
        BY <1>1, <1>3, <3>1, <3>3, <4>3
    <3> QED
      BY <3>2, <3>3
  <2> QED
    BY <1>5, <2>1, <2>2, <2>3 DEF Ordered
<1>8. Joined(R, g2)
  <2>1. ASSUME NEW c \in g2.hs \ EndsOf(R)
        PROVE  Nx(g2, c) \in g2.hs \ AtsOf(R)
    <3>1. CASE c = b
      <4>1. Nx(g, n) \in g.hs \ AtsOf(R) /\ Nx(g, n) # n
        BY <1>1, Neighbours
      <4> QED
        BY <1>2, <1>6, <3>1, <4>1
    <3>2. CASE c # b
      <4>1. Nx(g2, c) = Nx(g, c) /\ c \in g.hs \ EndsOf(R)
        BY <1>2, <1>4, <3>2
      <4>2. Nx(g, c) \in g.hs \ AtsOf(R) /\ Nx(g, c) # n
        BY <1>1, <3>2, <4>1, Neighbours
      <4> QED
        BY <1>2, <4>1, <4>2
    <3> QED
      BY <3>1, <3>2
  <2>2. ASSUME NEW c \in g2.hs \ AtsOf(R)
        PROVE  \E p \in g2.hs \ EndsOf(R) : Nx(g2, p) = c
    <3>1. PICK p \in g.hs \ EndsOf(R) : Nx(g, p) = c
      BY <1>2 DEF Layout, Joined
    <3>2. p # b
      BY <1>2, <3>1
    <3>3. CASE p = n
      BY <1>2, <1>6, <3>1, <3>3
    <3>4. CASE p # n
      BY <1>2, <1>4, <3>1, <3>2, <3>4
    <3> QED
      BY <3>3, <3>4
  <2> QED
    BY <2>1, <2>2 DEF Joined
<1>9. Bounded(R, g2)
  <2>1. ASSUME NEW r \in R
        PROVE  /\ r.at \in Busy(g2) /\ g2.sz[r.at] = 1
               /\ r.end \in Busy(g2) /\ g2.sz[r.end] = 0
               /\ r.at < r.end
    <3>1. /\ r.at \in Busy(g) /\ g.sz[r.at] = 1
          /\ r.end \in Busy(g) /\ g.sz[r.end] = 0
          /\ r.at < r.end
      BY DEF Layout, Bounded
    <3>2. r.at # b /\ r.at # n /\ r.end # b /\ r.end # n
      BY <1>1 DEF AtsOf, EndsOf
    <3>3. r.at \in Busy(g2) /\ r.end \in Busy(g2) /\ r.at \in g2.hs \ {b} /\ r.end \in g2.hs \ {b}
      BY <1>2, <3>1, <3>2 DEF Busy
    <3> QED
      BY <1>4, <3>1, <3>3
  <2>2. \A c \in g2.hs : \E r \in R : r.at <= c /\ c <= r.end
    BY <1>2 DEF Layout, Bounded
  <2>3. \A r, q \in R : r = q \/ r.end < q.at \/ q.end < r.at
    BY DEF Layout, Bounded
  <2> QED
    BY <2>1, <2>2, <2>3 DEF Bounded
<1>10. Apart(g2)
  <2>1. \A c \in g.fr : c \in g2.hs \ {b}
    BY <1>1, <1>2 DEF Layout, Ordered, Busy
  <2> QED
    BY <1>2, <1>4, <2>1 DEF Layout, Apart
<1> QED
  BY <1>2, <1>3, <1>4, <1>6, <1>7, <1>8, <1>9, <1>10 DEF Layout, g2

\* A busy block can be cut in two.
LEMMA CutLayout ==
  ASSUME NEW R, NEW g, Layout(R, g), NEW b \in Busy(g),
         b \notin AtsOf(R), b \notin EndsOf(R),
         NEW size \in Nat, size + 1 <= g.sz[b]
  PROVE  LET g2 == Cut(g, b, size)
             c  == b + 1 + size
         IN  /\ Layout(R, g2) /\ Nx(g2, b) = c /\ Nx(g2, c) = Nx(g, b)
             /\ c \notin g.hs /\ c \in 1 .. MemTop /\ c \in b + 1 .. b + g.sz[b]
             /\ \A d \in g.hs \ {b} : g2.sz[d] = g.sz[d] /\ Nx(g2, d) = Nx(g, d)
             /\ g2.hs = g.hs \cup {c} /\ g2.fr = g.fr
             /\ g2.sz[b] = size /\ g2.sz[c] = g.sz[b] - size - 1
             /\ c \in Busy(g2) /\ c \notin AtsOf(R) /\ c \notin EndsOf(R)
             /\ b \in Busy(g2)
<1> DEFINE c == b + 1 + size
           g2 == Cut(g, b, size)
<1>1. /\ b \in g.hs /\ b \in Nat /\ g.sz[b] \in Nat /\ Nx(g, b) = b + 1 + g.sz[b]
      /\ Nx(g, b) \in g.hs \ AtsOf(R) /\ Nx(g, b) \in Nat
  BY Neighbours DEF Busy, Nx
<1>2. c \in b + 1 .. b + g.sz[b] /\ c \in Nat /\ c # b /\ c > b /\ c < Nx(g, b)
  BY <1>1
<1>3. c \notin g.hs /\ c \in 1 .. MemTop /\ \A x \in g.hs : x # b => c \notin x .. x + g.sz[x]
  BY <1>1, <1>2, Inside
<1>4. g2.hs = g.hs \cup {c} /\ g2.fr = g.fr
  BY DEF Cut
<1>5. g2.sz[b] = size /\ g2.sz[c] = g.sz[b] - size - 1 /\ g2.sz[c] \in Nat
  BY <1>1, <1>2 DEF Cut
<1>6. \A d \in g.hs \ {b} : g2.sz[d] = g.sz[d] /\ Nx(g2, d) = Nx(g, d)
  BY <1>3 DEF Cut, Nx
<1>7. g2.sz \in [g2.hs -> Nat]
  <2>1. \A d \in g2.hs : g2.sz[d] \in Nat
    <3>1. \A d \in g.hs \ {b} : g2.sz[d] \in Nat
      BY <1>6, Neighbours
    <3> QED
      BY <1>4, <1>5, <3>1
  <2>2. g2.sz = [d \in g2.hs |-> g2.sz[d]]
    BY DEF Cut
  <2> QED
    BY <2>1, <2>2
<1>8. Nx(g2, b) = c
  BY <1>5 DEF Nx
<1>9. Nx(g2, c) = Nx(g, b)
  BY <1>1, <1>5 DEF Nx
<1> HIDE DEF g2, c
<1>10. Ordered(g2)
  <2>1. g2.hs \subseteq 1 .. MemTop /\ g2.fr \subseteq g2.hs
    BY <1>3, <1>4 DEF Layout, Ordered
  <2>2. ASSUME NEW x \in g2.hs, NEW y \in g2.hs, x < y
        PROVE  x + g2.sz[x] < y
    <3>1. x \in Nat /\ y \in Nat
      BY <1>2, <1>4, Neighbours
    <3>2. CASE x = c
      <4>1. y \in g.hs /\ b < y
        BY <1>1, <1>2, <1>4, <2>2, <3>1, <3>2
      <4>2. Nx(g, b) <= y
        BY <1>1, <4>1, Neighbours
      <4>3. c + g2.sz[c] < Nx(g, b)
        BY <1>1, <1>2, <1>5, <1>9 DEF Nx
      <4> QED
        BY <1>1, <1>2, <1>5, <3>1, <3>2, <4>2, <4>3
    <3>3. CASE x = b
      <4>1. b + size < c
        BY <1>1 DEF c
      <4>2. c <= y
        <5>1. CASE y = c
          BY <1>2, <5>1
        <5>2. CASE y # c
          <6>1. y \in g.hs
            BY <1>4, <5>2
          <6>2. Nx(g, b) <= y
            BY <1>1, <2>2, <3>3, <6>1, Neighbours
          <6> QED
            BY <1>1, <1>2, <3>1, <6>2
        <5> QED
          BY <5>1, <5>2
      <4> QED
        BY <1>1, <1>2, <1>5, <3>1, <3>3, <4>1, <4>2
    <3>4. CASE x # b /\ x # c
      <4>1. x \in g.hs /\ g2.sz[x] = g.sz[x] /\ g.sz[x] \in Nat
        BY <1>4, <1>6, <3>4, Neighbours
      <4>2. CASE y = c
        <5>1. c \notin x .. x + g.sz[x]
          BY <1>3, <3>4, <4>1
        <5> QED
          BY <1>2, <2>2, <3>1, <4>1, <4>2, <5>1
      <4>3. CASE y # c
        <5>1. y \in g.hs
          BY <1>4, <4>3
        <5> QED
          BY <2>2, <4>1, <5>1 DEF Layout, Ordered
      <4> QED
        BY <4>2, <4>3
    <3> QED
      BY <3>2, <3>3, <3>4
  <2> QED
    BY <1>7, <2>1, <2>2 DEF Ordered
<1>11. c \notin AtsOf(R) /\ c \notin EndsOf(R)
  BY <1>3 DEF Layout, Bounded, AtsOf, EndsOf, Busy
<1>12. Joined(R, g2)
  <2>1. ASSUME NEW d \in g2.hs \ EndsOf(R)
        PROVE  Nx(g2, d) \in g2.hs \ AtsOf(R)
    <3>1. CASE d = b
      BY <1>4, <1>8, <1>11, <3>1
    <3>2. CASE d = c
      BY <1>1, <1>4, <1>9, <3>2
    <3>3. CASE d # b /\ d # c
      <4>1. d \in g.hs \ EndsOf(R) /\ Nx(g2, d) = Nx(g, d)
        BY <1>4, <1>6, <3>3
      <4> QED
        BY <1>4, <4>1, Neighbours
    <3> QED
      BY <3>1, <3>2, <3>3
  <2>2. ASSUME NEW d \in g2.hs \ AtsOf(R)
        PROVE  \E p \in g2.hs \ EndsOf(R) : Nx(g2, p) = d
    <3>1. CASE d = c
      BY <1>1, <1>4, <1>8, <3>1
    <3>2. CASE d # c
      <4>1. PICK p \in g.hs \ EndsOf(R) : Nx(g, p) = d
        BY <1>4, <3>2 DEF Layout, Joined
      <4>2. CASE p = b
        BY <1>4, <1>9, <1>11, <4>1, <4>2
      <4>3. CASE p # b
        BY <1>4, <1>6, <4>1, <4>3
      <4> QED
        BY <4>2, <4>3
    <3> QED
      BY <3>1, <3>2
  <2> QED
    BY <2>1, <2>2 DEF Joined
<1>13. Bounded(R, g2)
  <2>1. ASSUME NEW r \in R
        PROVE  /\ r.at \in Busy(g2) /\ g2.sz[r.at] = 1
               /\ r.end \in Busy(g2) /\ g2.sz[r.end] = 0
               /\ r.at < r.end
    <3>1. /\ r.at \in Busy(g) /\ g.sz[r.at] = 1
          /\ r.end \in Busy(g) /\ g.sz[r.end] = 0
          /\ r.at < r.end
      BY DEF Layout, Bounded
    <3>2. r.at # b /\ r.end # b
      BY DEF AtsOf, EndsOf
    <3>3. r.at \in Busy(g2) /\ r.end \in Busy(g2) /\ r.at \in g.hs \ {b} /\ r.end \in g.hs \ {b}
      BY <1>4, <3>1, <3>2 DEF Busy
    <3> QED
      BY <1>6, <3>1, <3>3
  <2>2. ASSUME NEW d \in g2.hs
        PROVE  \E r \in R : r.at <= d /\ d <= r.end
    <3>1. CASE d # c
      BY <1>4, <3>1 DEF Layout, Bounded
    <3>2. CASE d = c
      <4>1. PICK r \in R : r.at <= b /\ b <= r.end
        BY <1>1 DEF Layout, Bounded
      <4>2. r.at \in g.hs /\ r.end \in g.hs /\ r.end # b /\ r.at \in Nat /\ r.end \in Nat
        BY Neighbours DEF Layout, Bounded, EndsOf, Busy
      <4>3. b < r.end
        BY <1>1, <4>1, <4>2
      <4>4. Nx(g, b) <= r.end
        BY <1>1, <4>2, <4>3, Neighbours
      <4> QED
        BY <1>1, <1>2, <3>2, <4>1, <4>2, <4>4
    <3> QED
      BY <3>1, <3>2
  <2>3. \A r, q \in R : r = q \/ r.end < q.at \/ q.end < r.at
    BY DEF Layout, Bounded
  <2> QED
    BY <2>1, <2>2, <2>3 DEF Bounded
<1>14. Apart(g2)
  <2>1. \A d \in g.fr : d \in g.hs \ {b}
    BY DEF Layout, Ordered, Busy
  <2> QED
    BY <1>4, <1>6, <2>1 DEF Layout, Apart
<1>15. c \notin g.fr /\ b \notin g.fr
  BY <1>3 DEF Layout, Ordered, Busy
<1>16. Layout(R, g2)
  BY <1>10, <1>12, <1>13, <1>14 DEF Layout
<1>17. c \in Busy(g2) /\ b \in Busy(g2)
  BY <1>1, <1>4, <1>15 DEF Busy
<1> QED
  BY <1>2, <1>3, <1>4, <1>5, <1>6, <1>8, <1>9, <1>11, <1>16, <1>17 DEF g2, c

-----------------------------------------------------------------------------
(* Changes of headers *)

\* Nodes that are left alone keep the lists.
LEMMA ChainsKept ==
  ASSUME NEW h, NEW h2, NEW g, NEW g2, Chains(h, g), h2.matrix = h.matrix, g2.fr = g.fr,
         \A b \in g.fr : h2.mem[b + 1] = h.mem[b + 1] /\ g2.sz[b] = g.sz[b]
  PROVE  Chains(h2, g2)
<1>1. PICK pos : Linked(h, g, pos)
  BY DEF Chains
<1>2. \A b \in g.fr : FNext(h2, b) = FNext(h, b) /\ FPrev(h2, b) = FPrev(h, b)
  BY DEF FNext, FPrev
<1>3. \A b \in g.fr : MappingInsert(g2.sz[b]) = MappingInsert(g.sz[b])
  OBVIOUS
<1>4. Linked(h2, g2, pos)
  <2>1. /\ pos \in [g2.fr -> Nat]
        /\ \A b \in g2.fr :
             pos[b] = 0 => FPrev(h2, b) = 0 /\ h2.matrix[MappingInsert(g2.sz[b])] = b
    BY <1>1, <1>2, <1>3 DEF Linked
  <2>2. \A b \in g2.fr :
          pos[b] # 0 => /\ FPrev(h2, b) \in g2.fr
                        /\ MappingInsert(g2.sz[FPrev(h2, b)]) = MappingInsert(g2.sz[b])
                        /\ pos[FPrev(h2, b)] = pos[b] - 1
                        /\ FNext(h2, FPrev(h2, b)) = b
    BY <1>1, <1>2, <1>3 DEF Linked
  <2>3. \A b \in g2.fr :
          FNext(h2, b) # 0 => /\ FNext(h2, b) \in g2.fr
                              /\ MappingInsert(g2.sz[FNext(h2, b)]) = MappingInsert(g2.sz[b])
                              /\ FPrev(h2, FNext(h2, b)) = b
    BY <1>1, <1>2, <1>3 DEF Linked
  <2>4. \A c \in Classes :
          h2.matrix[c] # 0 => /\ h2.matrix[c] \in g2.fr
                              /\ MappingInsert(g2.sz[h2.matrix[c]]) = c
                              /\ pos[h2.matrix[c]] = 0
    BY <1>1, <1>3 DEF Linked
  <2>5. \A b, c \in g2.fr :
          MappingInsert(g2.sz[b]) = MappingInsert(g2.sz[c]) /\ pos[b] = pos[c] => b = c
    BY <1>1, <1>3 DEF Linked
  <2> QED
    BY <2>1, <2>2, <2>3, <2>4, <2>5 DEF Linked
<1> QED
  BY <1>4 DEF Chains

\* What two steps leave alone, both together leave alone.
LEMMA KeepsTransitive ==
  ASSUME NEW C, NEW D, C \subseteq D, NEW h, NEW g, NEW h1, NEW g1, NEW h2, NEW g2,
         Keeps(h, g, h1, g1, C), Keeps(h1, g1, h2, g2, D)
  PROVE  Keeps(h, g, h2, g2, C)
BY DEF Keeps

\* What is kept of many blocks is kept of fewer.
LEMMA KeepsFewer ==
  ASSUME NEW C, NEW D, D \subseteq C, NEW h, NEW g, NEW h2, NEW g2, Keeps(h, g, h2, g2, C)
  PROVE  Keeps(h, g, h2, g2, D)
BY DEF Keeps

\* A header is no part of what is in a block.
LEMMA HeadersKeep ==
  ASSUME NEW R, NEW g, Layout(R, g), NEW h, NEW h2, NEW A, A \subseteq g.hs, But(h, h2, A),
         NEW C, C \subseteq Busy(g)
  PROVE  Keeps(h, g, h2, g, C)
<1>1. ASSUME NEW c \in C
      PROVE  c \in Busy(g) /\ \A a \in c + 1 .. c + g.sz[c] : h2.mem[a] = h.mem[a]
  BY Inside DEF But, Busy
<1> QED
  BY <1>1 DEF Keeps

\* Fewer exceptions will do when they are none.
LEMMA Fewer ==
  ASSUME NEW h, NEW g, NEW X, NEW Y, NEW Z, NEW X2, NEW Y2, NEW Z2, Sound(h, g, X, Y, Z),
         \A b \in X \cap g.hs : b \in X2 \/ (IsFree(h, b) <=> b \in g.fr),
         \A b \in Y \cap g.hs : \/ b \in Y2 \/ b \in EndsOf(Areas(h))
                                \/ PrevFree(h, Nx(g, b)) <=> b \in g.fr,
         \A b \in Z \cap g.hs : b \in Z2 \/ Size(h, b) = g.sz[b]
  PROVE  Sound(h, g, X2, Y2, Z2)
<1>1. \A b \in g.hs \ Z2 : Size(h, b) = g.sz[b]
  BY DEF Sound, Tags
<1>2. \A b \in g.hs \ X2 : IsFree(h, b) <=> b \in g.fr
  BY DEF Sound, Tags
<1>3. \A b \in g.hs \ (Y2 \cup EndsOf(Areas(h))) : PrevFree(h, Nx(g, b)) <=> b \in g.fr
  BY DEF Sound, Tags
<1> QED
  BY <1>1, <1>2, <1>3 DEF Sound, Tags

\* What is seen of a header does not change with the memory elsewhere.
LEMMA SameHeader ==
  ASSUME NEW h, NEW h2, NEW b, h2.mem[b] = h.mem[b]
  PROVE  /\ Size(h2, b) = Size(h, b) /\ h2.mem[b].prev = h.mem[b].prev
         /\ IsFree(h2, b) <=> IsFree(h, b)
         /\ PrevFree(h2, b) <=> PrevFree(h, b)
BY DEF Size, IsFree, PrevFree

\* Areas stay when only memory is written.
LEMMA SameAreas ==
  ASSUME NEW h, NEW h2, NEW A, But(h, h2, A)
  PROVE  Areas(h2) = Areas(h) /\ (Below(h) => Below(h2)) /\ HeapType(h2)
BY DEF But, Areas, Below

\* One header changes.
LEMMA HeaderChanged ==
  ASSUME NEW h, NEW g, NEW X, NEW Y, NEW Z, Sound(h, g, X, Y, Z),
         NEW a \in g.hs, NEW h2, But(h, h2, {a}), h2.matrix = h.matrix,
         NEW X2, NEW Y2, NEW Z2,
         X \subseteq X2 \cup {a}, a \in X2 \/ (IsFree(h2, a) <=> a \in g.fr),
         Z \subseteq Z2 \cup {a}, a \in Z2 \/ Size(h2, a) = g.sz[a],
         \A p \in Y \cap g.hs : p \in Y2 \/ Nx(g, p) = a,
         \A p \in g.hs \ EndsOf(Areas(h)) :
           Nx(g, p) = a => p \in Y2 \/ (PrevFree(h2, a) <=> p \in g.fr),
         a \notin EndsOf(Areas(h)) =>
           \A p \in g.fr : Nx(g, p) = a => h2.mem[a].prev = p
  PROVE  /\ Sound(h2, g, X2, Y2, Z2)
         /\ Areas(h2) = Areas(h)
         /\ Keeps(h, g, h2, g, Busy(g))
<1> DEFINE R == Areas(h)
<1>1. HeapType(h2) /\ Areas(h2) = R /\ Below(h2)
  BY SameAreas DEF Sound
<1>2. Layout(R, g)
  BY DEF Sound
<1>3. g.hs \subseteq 1 .. MemTop
  BY <1>2 DEF Layout, Ordered
<1>4. \A b \in g.hs \ {a} : h2.mem[b] = h.mem[b]
  BY <1>3 DEF But
<1>5. \A b \in g.hs \ {a} : /\ Size(h2, b) = Size(h, b) /\ h2.mem[b].prev = h.mem[b].prev
                            /\ IsFree(h2, b) <=> IsFree(h, b)
                            /\ PrevFree(h2, b) <=> PrevFree(h, b)
  BY <1>4, SameHeader
<1>6. Chains(h2, g)
  <2>1. \A b \in g.fr : h2.mem[b + 1] = h.mem[b + 1]
    BY <1>2, Nodes DEF But
  <2> QED
    BY <2>1, ChainsKept DEF Sound
<1>8. \A b \in g.hs \ Z2 : Size(h2, b) = g.sz[b]
  BY <1>5 DEF Sound, Tags
<1>9. \A b \in g.hs \ X2 : IsFree(h2, b) <=> b \in g.fr
  BY <1>5 DEF Sound, Tags
<1>10. ASSUME NEW b \in g.hs \ (Y2 \cup EndsOf(R))
       PROVE  PrevFree(h2, Nx(g, b)) <=> b \in g.fr
  <2>1. CASE Nx(g, b) = a
    BY <2>1
  <2>2. CASE Nx(g, b) # a
    <3>1. Nx(g, b) \in g.hs \ {a}
      BY <1>2, <2>2, Neighbours
    <3>2. b \notin Y
      BY <2>2
    <3>3. PrevFree(h, Nx(g, b)) <=> b \in g.fr
      BY <3>2 DEF Sound, Tags
    <3> QED
      BY <1>5, <3>1, <3>3
  <2> QED
    BY <2>1, <2>2
<1>11. ASSUME NEW b \in g.fr, Nx(g, b) \notin EndsOf(R)
       PROVE  h2.mem[Nx(g, b)].prev = b
  <2>1. CASE Nx(g, b) = a
    BY <1>11, <2>1
  <2>2. CASE Nx(g, b) # a
    <3>1. Nx(g, b) \in g.hs \ {a}
      BY <1>2, <2>2, Neighbours DEF Busy
    <3> QED
      BY <1>5, <1>11, <3>1 DEF Sound, Tags
  <2> QED
    BY <2>1, <2>2
<1>12. Sound(h2, g, X2, Y2, Z2)
  BY <1>1, <1>2, <1>6, <1>8, <1>9, <1>10, <1>11 DEF Sound, Tags
<1>13. Keeps(h, g, h2, g, Busy(g))
  BY <1>2, HeadersKeep
<1> QED
  BY <1>1, <1>12, <1>13

\* h2 is h with a header written inside of block b, size behind it.
Added(h, g, X, Y, Z, b, size, h2) ==
  LET g2 == Cut(g, b, size)
      c  == b + 1 + size
  IN  /\ Sound(h2, g2, X \cup {c}, Y \cup {b, c}, Z \cup {b, c})
      /\ Areas(h2) = Areas(h)
      /\ Keeps(h, g, h2, g2, Busy(g) \ {b})
      /\ \A d \in g.hs : h2.mem[d] = h.mem[d]

\* A header written into a block makes two blocks of it.
LEMMA HeaderAdded ==
  ASSUME NEW h, NEW g, NEW X, NEW Y, NEW Z, Sound(h, g, X, Y, Z),
         NEW b \in Busy(g), b \notin AtsOf(Areas(h)), b \notin EndsOf(Areas(h)),
         NEW size \in Nat, size + 1 <= g.sz[b],
         NEW h2, But(h, h2, {b + 1 + size}), h2.matrix = h.matrix
  PROVE  Added(h, g, X, Y, Z, b, size, h2)
<1> DEFINE R == Areas(h)
           g2 == Cut(g, b, size)
           c == b + 1 + size
<1>1. HeapType(h2) /\ Areas(h2) = R /\ Below(h2)
  BY SameAreas DEF Sound
<1>2. Layout(R, g)
  BY DEF Sound
<1>3. /\ Layout(R, g2) /\ Nx(g2, b) = c /\ Nx(g2, c) = Nx(g, b)
      /\ c \notin g.hs /\ c \in b + 1 .. b + g.sz[b]
      /\ \A d \in g.hs \ {b} : g2.sz[d] = g.sz[d] /\ Nx(g2, d) = Nx(g, d)
      /\ g2.hs = g.hs \cup {c} /\ g2.fr = g.fr
      /\ c \in Busy(g2) /\ c \notin EndsOf(R)
  BY <1>2, CutLayout
<1> HIDE DEF g2, c
<1>4. \A d \in g.hs : h2.mem[d] = h.mem[d]
  BY <1>2, <1>3 DEF But, Layout, Ordered, c
<1>5. \A d \in g.hs : /\ Size(h2, d) = Size(h, d) /\ h2.mem[d].prev = h.mem[d].prev
                      /\ IsFree(h2, d) <=> IsFree(h, d)
                      /\ PrevFree(h2, d) <=> PrevFree(h, d)
  BY <1>4, SameHeader
<1>6. Chains(h2, g2)
  <2>1. \A x \in g.fr : x + 1 \in 1 .. MemTop /\ x + 1 # c
    BY <1>2, <1>3, Nodes, Inside DEF Busy
  <2>2. \A x \in g.fr : h2.mem[x + 1] = h.mem[x + 1]
    BY <2>1 DEF But, c
  <2>3. \A x \in g.fr : g2.sz[x] = g.sz[x]
    BY <1>2, <1>3 DEF Layout, Ordered, Busy
  <2> QED
    BY <1>3, <2>2, <2>3, ChainsKept DEF Sound
<1>7. \A d \in g2.hs \ (Z \cup {b, c}) : Size(h2, d) = g2.sz[d]
  BY <1>3, <1>5 DEF Sound, Tags
<1>8. \A d \in g2.hs \ (X \cup {c}) : IsFree(h2, d) <=> d \in g2.fr
  BY <1>3, <1>5 DEF Sound, Tags
<1>9. ASSUME NEW d \in g2.hs \ ((Y \cup {b, c}) \cup EndsOf(R))
      PROVE  PrevFree(h2, Nx(g2, d)) <=> d \in g2.fr
  <2>1. d \in g.hs \ {b} /\ Nx(g2, d) = Nx(g, d)
    BY <1>3
  <2>2. Nx(g, d) \in g.hs
    BY <1>2, <2>1, Neighbours
  <2> QED
    BY <1>3, <1>5, <2>1, <2>2 DEF Sound, Tags
<1>10. ASSUME NEW d \in g2.fr, Nx(g2, d) \notin EndsOf(R)
       PROVE  h2.mem[Nx(g2, d)].prev = d
  <2>1. d \in g.hs \ {b} /\ Nx(g2, d) = Nx(g, d) /\ Nx(g, d) \in g.hs
    BY <1>2, <1>3, Neighbours DEF Busy
  <2> QED
    BY <1>3, <1>5, <1>10, <2>1 DEF Sound, Tags
<1>11. Sound(h2, g2, X \cup {c}, Y \cup {b, c}, Z \cup {b, c})
  BY <1>1, <1>3, <1>6, <1>7, <1>8, <1>9, <1>10 DEF Sound, Tags
<1>12. ASSUME NEW d \in Busy(g) \ {b}
       PROVE  /\ d \in Busy(g2) /\ g2.sz[d] = g.sz[d]
              /\ \A a \in d + 1 .. d + g.sz[d] : h2.mem[a] = h.mem[a]
  <2>1. d \in g.hs /\ d # b /\ d \notin g.fr
    BY <1>12 DEF Busy
  <2>2. d \in Busy(g2) /\ g2.sz[d] = g.sz[d]
    BY <1>3, <2>1 DEF Busy
  <2>3. \A a \in d + 1 .. d + g.sz[d] : a \in 1 .. MemTop /\ a # c
    <3>1. b \in g.hs /\ c \notin d .. d + g.sz[d]
      BY <1>2, <1>3, <2>1, Inside DEF Busy
    <3>2. d \in Nat /\ g.sz[d] \in Nat
      BY <1>2, <2>1, Neighbours
    <3>3. \A a \in d + 1 .. d + g.sz[d] : a \in d .. d + g.sz[d]
      BY <3>2
    <3> QED
      BY <1>2, <2>1, <3>1, <3>3, Inside
  <2>4. \A a \in d + 1 .. d + g.sz[d] : h2.mem[a] = h.mem[a]
    BY <2>3 DEF But, c
  <2> QED
    BY <2>2, <2>4
<1>13. Keeps(h, g, h2, g2, Busy(g) \ {b})
  BY <1>12 DEF Keeps
<1> QED
  BY <1>1, <1>4, <1>11, <1>13 DEF g2, c, Added

\* Block b takes in the one behind it.
LEMMA HeadersJoined ==
  ASSUME NEW h, NEW g, NEW X, NEW Y, NEW Z, Sound(h, g, X, Y, Z),
         NEW b \in Busy(g), b \notin AtsOf(Areas(h)), b \notin EndsOf(Areas(h)),
         Nx(g, b) \in Busy(g), Nx(g, b) \notin EndsOf(Areas(h)),
         NEW h2, But(h, h2, {b, Nx(g, b)}), h2.matrix = h.matrix,
         Size(h2, b) = g.sz[b] + g.sz[Nx(g, b)] + 1,
         IsFree(h2, b) <=> IsFree(h, b), PrevFree(h2, b) <=> PrevFree(h, b),
         h2.mem[b].prev = h.mem[b].prev
  PROVE  LET g2 == Merged(g, b)
         IN  /\ Sound(h2, g2, X, Y \cup {b}, Z \ {b})
             /\ Areas(h2) = Areas(h)
             /\ Keeps(h, g, h2, g2, Busy(g) \ {b, Nx(g, b)})
             /\ \A d \in g2.hs \ {b} : h2.mem[d] = h.mem[d]
<1> DEFINE R == Areas(h)
           n == Nx(g, b)
           g2 == Merged(g, b)
<1>1. HeapType(h2) /\ Areas(h2) = R /\ Below(h2)
  BY SameAreas DEF Sound
<1>2. Layout(R, g)
  BY DEF Sound
<1>3. /\ Layout(R, g2) /\ Nx(g2, b) = Nx(g, n)
      /\ \A d \in g2.hs \ {b} : g2.sz[d] = g.sz[d] /\ Nx(g2, d) = Nx(g, d)
      /\ g2.hs = g.hs \ {n} /\ g2.fr = g.fr /\ b \in g2.hs
      /\ g2.sz[b] = g.sz[b] + g.sz[n] + 1
  BY <1>2, MergedLayout
<1> HIDE DEF g2
<1>4. \A d \in g2.hs \ {b} : h2.mem[d] = h.mem[d]
  BY <1>2, <1>3 DEF But, Layout, Ordered
<1>5. \A d \in g2.hs : /\ d # b => Size(h2, d) = Size(h, d)
                       /\ h2.mem[d].prev = h.mem[d].prev
                       /\ IsFree(h2, d) <=> IsFree(h, d)
                       /\ PrevFree(h2, d) <=> PrevFree(h, d)
  BY <1>4, SameHeader
<1>6. Chains(h2, g2)
  <2>1. \A x \in g.fr : x + 1 \in 1 .. MemTop /\ x + 1 \notin g.hs
    BY <1>2, Nodes
  <2>2. \A x \in g.fr : h2.mem[x + 1] = h.mem[x + 1]
    BY <2>1 DEF But, Busy
  <2>3. \A x \in g.fr : g2.sz[x] = g.sz[x]
    BY <1>2, <1>3 DEF Layout, Ordered, Busy
  <2> QED
    BY <1>3, <2>2, <2>3, ChainsKept DEF Sound
<1>7. \A d \in g2.hs \ (Z \ {b}) : Size(h2, d) = g2.sz[d]
  BY <1>3, <1>5 DEF Sound, Tags
<1>8. \A d \in g2.hs \ X : IsFree(h2, d) <=> d \in g2.fr
  BY <1>3, <1>5 DEF Sound, Tags
<1>9. ASSUME NEW d \in g2.hs \ ((Y \cup {b}) \cup EndsOf(R))
      PROVE  PrevFree(h2, Nx(g2, d)) <=> d \in g2.fr
  <2>1. d \in g.hs \ {b} /\ Nx(g2, d) = Nx(g, d) /\ Nx(g2, d) \in g2.hs
    BY <1>3, Neighbours
  <2> QED
    BY <1>3, <1>5, <2>1 DEF Sound, Tags
<1>10. ASSUME NEW d \in g2.fr, Nx(g2, d) \notin EndsOf(R)
       PROVE  h2.mem[Nx(g2, d)].prev = d
  <2>1. d \in g2.hs \ {b} /\ Nx(g2, d) = Nx(g, d) /\ Nx(g2, d) \in g2.hs
    BY <1>3, Neighbours DEF Busy
  <2> QED
    BY <1>3, <1>5, <1>10, <2>1 DEF Sound, Tags
<1>11. Sound(h2, g2, X, Y \cup {b}, Z \ {b})
  BY <1>1, <1>3, <1>6, <1>7, <1>8, <1>9, <1>10 DEF Sound, Tags
<1>12. ASSUME NEW d \in Busy(g) \ {b, n}
       PROVE  /\ d \in Busy(g2) /\ g2.sz[d] = g.sz[d]
              /\ \A a \in d + 1 .. d + g.sz[d] : h2.mem[a] = h.mem[a]
  <2>1. d \in g.hs /\ d # b /\ d # n /\ d \notin g.fr
    BY <1>12 DEF Busy
  <2>2. d \in Busy(g2) /\ g2.sz[d] = g.sz[d]
    BY <1>3, <2>1 DEF Busy
  <2>3. \A a \in d + 1 .. d + g.sz[d] : a \in 1 .. MemTop /\ a \notin g.hs
    BY <1>2, <2>1, Inside
  <2>4. \A a \in d + 1 .. d + g.sz[d] : h2.mem[a] = h.mem[a]
    BY <2>3 DEF But, Busy
  <2> QED
    BY <2>2, <2>4
<1>13. Keeps(h, g, h2, g2, Busy(g) \ {b, n})
  BY <1>12 DEF Keeps
<1> QED
  BY <1>1, <1>4, <1>11, <1>13 DEF g2

-----------------------------------------------------------------------------
(* The lists *)

\* A block leaves its list.
LEMMA Unlinked ==
  ASSUME NEW h, NEW g, NEW h2, NEW b \in g.fr, NEW pos, Linked(h, g, pos),
         \A x \in g.fr : x \in Nat /\ x > 0 /\ MappingInsert(g.sz[x]) \in Classes,
         h.matrix \in [Classes -> Nat],
         h2.matrix = IF h.matrix[MappingInsert(g.sz[b])] = b
                     THEN [h.matrix EXCEPT ![MappingInsert(g.sz[b])] = FNext(h, b)]
                     ELSE h.matrix,
         \A x \in g.fr \ {b} :
           /\ FPrev(h2, x) = IF x = FNext(h, b) THEN FPrev(h, b) ELSE FPrev(h, x)
           /\ FNext(h2, x) = IF x = FPrev(h, b) THEN FNext(h, b) ELSE FNext(h, x)
  PROVE  Chains(h2, Taken(g, b))
<1> DEFINE F == g.fr \ {b}
           Cl(x) == MappingInsert(g.sz[x])
           next == FNext(h, b)
           prev == FPrev(h, b)
           pos2 == [x \in F |-> IF Cl(x) = Cl(b) /\ pos[x] > pos[b] THEN pos[x] - 1
                                ELSE pos[x]]
           g2 == Taken(g, b)
<1>1. \A x \in g.fr : x \in Nat /\ x > 0 /\ Cl(x) \in Classes
  OBVIOUS
<1>2. \A x \in g.fr : pos[x] \in Nat
  BY DEF Linked
<1>3. \A x \in g.fr : pos[x] = 0 => FPrev(h, x) = 0 /\ h.matrix[Cl(x)] = x
  BY DEF Linked
<1>4. \A x \in g.fr :
        pos[x] # 0 => /\ FPrev(h, x) \in g.fr /\ Cl(FPrev(h, x)) = Cl(x)
                      /\ pos[FPrev(h, x)] = pos[x] - 1 /\ FNext(h, FPrev(h, x)) = x
  BY DEF Linked
<1>5. \A x \in g.fr :
        FNext(h, x) # 0 => /\ FNext(h, x) \in g.fr /\ Cl(FNext(h, x)) = Cl(x)
                           /\ FPrev(h, FNext(h, x)) = x
  BY DEF Linked
<1>6. \A c \in Classes :
        h.matrix[c] # 0 => /\ h.matrix[c] \in g.fr /\ Cl(h.matrix[c]) = c
                           /\ pos[h.matrix[c]] = 0
  BY DEF Linked
<1>7. \A x, y \in g.fr : Cl(x) = Cl(y) /\ pos[x] = pos[y] => x = y
  BY DEF Linked
<1>8. \A x \in F : /\ FPrev(h2, x) = IF x = next THEN prev ELSE FPrev(h, x)
                   /\ FNext(h2, x) = IF x = prev THEN next ELSE FNext(h, x)
  OBVIOUS
<1>9. /\ h.matrix[Cl(b)] = b => h2.matrix = [h.matrix EXCEPT ![Cl(b)] = next]
      /\ h.matrix[Cl(b)] # b => h2.matrix = h.matrix
  OBVIOUS
<1>10. \A x \in F : /\ Cl(x) = Cl(b) /\ pos[x] > pos[b] => pos2[x] = pos[x] - 1
                    /\ ~ (Cl(x) = Cl(b) /\ pos[x] > pos[b]) => pos2[x] = pos[x]
  OBVIOUS
<1>11. g2.fr = F /\ g2.sz = g.sz
  BY DEF Taken
<1>12. pos2 \in [F -> Nat]
  BY <1>2
<1> HIDE DEF Cl, pos2, g2, next, prev
<1>13. b \in Nat /\ b > 0 /\ pos[b] \in Nat /\ Cl(b) \in Classes
  BY <1>1, <1>2
<1>14. next # 0 => /\ next \in F /\ Cl(next) = Cl(b) /\ FPrev(h, next) = b
                   /\ pos[next] = pos[b] + 1
  <2> SUFFICES ASSUME next # 0
               PROVE  /\ next \in F /\ Cl(next) = Cl(b) /\ FPrev(h, next) = b
                      /\ pos[next] = pos[b] + 1
    OBVIOUS
  <2>1. next \in g.fr /\ Cl(next) = Cl(b) /\ FPrev(h, next) = b
    BY <1>5 DEF next
  <2>2. pos[next] # 0
    BY <1>3, <1>13, <2>1
  <2>3. pos[b] = pos[next] - 1
    BY <1>4, <2>1, <2>2
  <2> QED
    BY <1>2, <1>13, <2>1, <2>3
<1>15. prev # 0 => /\ prev \in F /\ Cl(prev) = Cl(b) /\ FNext(h, prev) = b
                   /\ pos[b] # 0 /\ pos[prev] = pos[b] - 1
  <2> SUFFICES ASSUME prev # 0
               PROVE  /\ prev \in F /\ Cl(prev) = Cl(b) /\ FNext(h, prev) = b
                      /\ pos[b] # 0 /\ pos[prev] = pos[b] - 1
    OBVIOUS
  <2>1. pos[b] # 0
    BY <1>3 DEF prev
  <2>2. prev \in g.fr /\ Cl(prev) = Cl(b) /\ FNext(h, prev) = b /\ pos[prev] = pos[b] - 1
    BY <1>4, <2>1 DEF prev
  <2> QED
    BY <1>2, <1>13, <2>1, <2>2
<1>16. pos[b] = 0 => prev = 0
  BY <1>3 DEF prev
<1>17. ASSUME NEW x \in F, pos2[x] = 0
       PROVE  FPrev(h2, x) = 0 /\ h2.matrix[Cl(x)] = x
  <2>1. x \in g.fr /\ x # b /\ pos[x] \in Nat /\ x > 0 /\ Cl(x) \in Classes
    BY <1>1, <1>2
  <2>2. CASE pos[x] = 0
    <3>1. FPrev(h, x) = 0 /\ h.matrix[Cl(x)] = x
      BY <1>3, <2>1, <2>2
    <3>2. x # next
      BY <1>13, <1>14, <2>1, <3>1
    <3>3. FPrev(h2, x) = 0
      BY <1>8, <3>1, <3>2
    <3>4. h.matrix[Cl(b)] = b => Cl(x) # Cl(b)
      BY <2>1, <3>1
    <3> QED
      BY <1>9, <2>1, <3>1, <3>3, <3>4
  <2>3. CASE pos[x] # 0
    <3>1. Cl(x) = Cl(b) /\ pos[x] > pos[b] /\ pos[x] = 1 /\ pos[b] = 0
      BY <1>10, <1>13, <1>17, <2>1, <2>3
    <3>2. FPrev(h, x) = b /\ FNext(h, b) = x
      <4>1. /\ FPrev(h, x) \in g.fr /\ Cl(FPrev(h, x)) = Cl(x)
            /\ pos[FPrev(h, x)] = 0 /\ FNext(h, FPrev(h, x)) = x
        BY <1>4, <2>1, <3>1
      <4> QED
        BY <1>7, <3>1, <4>1
    <3>3. x = next
      BY <3>2 DEF next
    <3>4. FPrev(h2, x) = 0
      BY <1>8, <1>16, <3>1, <3>3
    <3>5. h.matrix[Cl(b)] = b
      BY <1>3, <3>1
    <3> QED
      BY <1>9, <1>13, <3>1, <3>3, <3>4, <3>5
  <2> QED
    BY <2>2, <2>3
<1>18. ASSUME NEW x \in F, pos2[x] # 0
       PROVE  /\ FPrev(h2, x) \in F /\ Cl(FPrev(h2, x)) = Cl(x)
              /\ pos2[FPrev(h2, x)] = pos2[x] - 1 /\ FNext(h2, FPrev(h2, x)) = x
  <2>1. x \in g.fr /\ x # b /\ pos[x] \in Nat /\ x > 0
    BY <1>1, <1>2
  <2>2. pos[x] # 0
    BY <1>10, <1>13, <1>18, <2>1
  <2>3. /\ FPrev(h, x) \in g.fr /\ Cl(FPrev(h, x)) = Cl(x)
        /\ pos[FPrev(h, x)] = pos[x] - 1 /\ FNext(h, FPrev(h, x)) = x
    BY <1>4, <2>1, <2>2
  <2>4. CASE x = next
    <3>1. Cl(x) = Cl(b) /\ pos[x] = pos[b] + 1
      BY <1>1, <1>14, <2>1, <2>4
    <3>2. pos2[x] = pos[b]
      BY <1>10, <1>13, <3>1
    <3>3. pos[b] # 0
      BY <1>18, <3>2
    <3>4. prev \in g.fr /\ prev # 0
      BY <1>1, <1>4, <3>3 DEF prev
    <3>5. prev \in F /\ Cl(prev) = Cl(b) /\ pos[prev] = pos[b] - 1
      BY <1>15, <3>4
    <3>6. pos2[prev] = pos[b] - 1
      BY <1>10, <1>13, <3>5
    <3>7. FPrev(h2, x) = prev /\ FNext(h2, prev) = x
      BY <1>8, <2>4, <3>5
    <3> QED
      BY <3>1, <3>2, <3>5, <3>6, <3>7
  <2>5. CASE x # next
    <3> DEFINE p == FPrev(h, x)
    <3>1. FPrev(h2, x) = p
      BY <1>8, <2>5
    <3>2. p # b
      BY <2>3, <2>5 DEF next
    <3>3. p \in F /\ Cl(p) = Cl(x) /\ pos[p] = pos[x] - 1 /\ p # 0 /\ FNext(h, p) = x
      BY <1>1, <2>3, <3>2
    <3> HIDE DEF p
    <3>4. p # prev
      BY <1>15, <2>1, <3>3
    <3>5. FNext(h2, p) = x
      BY <1>8, <3>3, <3>4
    <3>6. pos2[p] = pos2[x] - 1
      <4>1. CASE Cl(x) = Cl(b)
        <5>1. pos[p] # pos[b]
          BY <1>7, <3>2, <3>3, <4>1
        <5> QED
          BY <1>10, <1>13, <2>1, <3>3, <4>1, <5>1
      <4>2. CASE Cl(x) # Cl(b)
        BY <1>10, <3>3, <4>2
      <4> QED
        BY <4>1, <4>2
    <3> QED
      BY <3>1, <3>3, <3>5, <3>6
  <2> QED
    BY <2>4, <2>5
<1>19. ASSUME NEW x \in F, FNext(h2, x) # 0
       PROVE  /\ FNext(h2, x) \in F /\ Cl(FNext(h2, x)) = Cl(x)
              /\ FPrev(h2, FNext(h2, x)) = x
  <2>1. x \in g.fr /\ x # b /\ x > 0
    BY <1>1
  <2>2. CASE x = prev
    <3>1. FNext(h2, x) = next /\ next # 0 /\ prev # 0
      BY <1>1, <1>8, <1>19, <2>1, <2>2
    <3>2. FPrev(h2, next) = prev
      BY <1>8, <1>14, <3>1
    <3> QED
      BY <1>14, <1>15, <2>2, <3>1, <3>2
  <2>3. CASE x # prev
    <3>1. FNext(h2, x) = FNext(h, x)
      BY <1>8, <2>3
    <3> DEFINE y == FNext(h, x)
    <3>2. y \in g.fr /\ Cl(y) = Cl(x) /\ FPrev(h, y) = x
      BY <1>5, <1>19, <2>1, <3>1
    <3> HIDE DEF y
    <3>3. y # b
      BY <2>3, <3>2 DEF prev
    <3>4. y # next
      BY <1>1, <1>14, <2>1, <3>2
    <3>5. FPrev(h2, y) = x
      BY <1>8, <3>2, <3>3, <3>4
    <3> QED
      BY <3>1, <3>2, <3>3, <3>5 DEF y
  <2> QED
    BY <2>2, <2>3
<1>20. ASSUME NEW c \in Classes, h2.matrix[c] # 0
       PROVE  /\ h2.matrix[c] \in F /\ Cl(h2.matrix[c]) = c /\ pos2[h2.matrix[c]] = 0
  <2>1. CASE h.matrix[Cl(b)] = b /\ c = Cl(b)
    <3>1. h2.matrix[c] = next /\ next # 0
      BY <1>9, <1>13, <1>20, <2>1
    <3>2. pos[b] = 0
      BY <1>6, <1>13, <2>1
    <3>3. pos[next] = 1 /\ next \in F /\ Cl(next) = Cl(b)
      BY <1>14, <3>1, <3>2
    <3>4. pos2[next] = 0
      BY <1>10, <3>2, <3>3
    <3> QED
      BY <2>1, <3>1, <3>3, <3>4
  <2>2. CASE ~ (h.matrix[Cl(b)] = b /\ c = Cl(b))
    <3>1. h2.matrix[c] = h.matrix[c]
      BY <1>9, <1>13, <2>2
    <3>2. h.matrix[c] \in g.fr /\ Cl(h.matrix[c]) = c /\ pos[h.matrix[c]] = 0
      BY <1>6, <1>20, <3>1
    <3>3. h.matrix[c] # b
      BY <2>2, <3>2
    <3>4. pos2[h.matrix[c]] = 0
      BY <1>10, <1>13, <3>2, <3>3
    <3> QED
      BY <3>1, <3>2, <3>3, <3>4
  <2> QED
    BY <2>1, <2>2
<1>21. ASSUME NEW x \in F, NEW y \in F, Cl(x) = Cl(y), pos2[x] = pos2[y]
       PROVE  x = y
  <2>1. x # b /\ y # b /\ pos[x] \in Nat /\ pos[y] \in Nat /\ x \in g.fr /\ y \in g.fr
    BY <1>2
  <2>2. Cl(x) = Cl(b) => pos[x] # pos[b] /\ pos[y] # pos[b]
    BY <1>7, <1>21, <2>1
  <2>3. pos[x] = pos[y]
    BY <1>10, <1>13, <1>21, <2>1, <2>2
  <2> QED
    BY <1>7, <1>21, <2>1, <2>3
<1>22. Linked(h2, g2, pos2)
  BY SMTT(30), <1>11, <1>12, <1>17, <1>18, <1>19, <1>20, <1>21 DEF Linked, Cl
<1> QED
  BY <1>22 DEF Chains, g2

\* A block comes to the front of its list.
LEMMA FrontLinked ==
  ASSUME NEW h, NEW g, NEW h2, NEW b \in Busy(g), NEW pos, Linked(h, g, pos),
         b \in Nat, b > 0, MappingInsert(g.sz[b]) \in Classes,
         \A x \in g.fr : x \in Nat /\ x > 0 /\ MappingInsert(g.sz[x]) \in Classes,
         h.matrix \in [Classes -> Nat],
         h2.matrix = [h.matrix EXCEPT ![MappingInsert(g.sz[b])] = b],
         FPrev(h2, b) = 0, FNext(h2, b) = h.matrix[MappingInsert(g.sz[b])],
         \A x \in g.fr :
           /\ FPrev(h2, x) = IF x = h.matrix[MappingInsert(g.sz[b])] THEN b ELSE FPrev(h, x)
           /\ FNext(h2, x) = FNext(h, x)
  PROVE  Chains(h2, Freed(g, b))
<1> DEFINE F == g.fr \cup {b}
           Cl(x) == MappingInsert(g.sz[x])
           first == h.matrix[Cl(b)]
           pos2 == [x \in F |-> IF x = b THEN 0
                                ELSE IF Cl(x) = Cl(b) THEN pos[x] + 1 ELSE pos[x]]
           g2 == Freed(g, b)
<1>1. /\ \A x \in g.fr : x \in Nat /\ x > 0 /\ Cl(x) \in Classes /\ x # b
      /\ b \notin g.fr /\ Cl(b) \in Classes
  BY DEF Busy
<1>2. \A x \in g.fr : pos[x] \in Nat
  BY DEF Linked
<1>3. \A x \in g.fr : pos[x] = 0 => FPrev(h, x) = 0 /\ h.matrix[Cl(x)] = x
  BY DEF Linked
<1>4. \A x \in g.fr :
        pos[x] # 0 => /\ FPrev(h, x) \in g.fr /\ Cl(FPrev(h, x)) = Cl(x)
                      /\ pos[FPrev(h, x)] = pos[x] - 1 /\ FNext(h, FPrev(h, x)) = x
  BY DEF Linked
<1>5. \A x \in g.fr :
        FNext(h, x) # 0 => /\ FNext(h, x) \in g.fr /\ Cl(FNext(h, x)) = Cl(x)
                           /\ FPrev(h, FNext(h, x)) = x
  BY DEF Linked
<1>6. \A c \in Classes :
        h.matrix[c] # 0 => /\ h.matrix[c] \in g.fr /\ Cl(h.matrix[c]) = c
                           /\ pos[h.matrix[c]] = 0
  BY DEF Linked
<1>7. \A x, y \in g.fr : Cl(x) = Cl(y) /\ pos[x] = pos[y] => x = y
  BY DEF Linked
<1>8. /\ \A x \in g.fr : /\ FPrev(h2, x) = IF x = first THEN b ELSE FPrev(h, x)
                         /\ FNext(h2, x) = FNext(h, x)
      /\ FPrev(h2, b) = 0 /\ FNext(h2, b) = first
  OBVIOUS
<1>9. h2.matrix = [h.matrix EXCEPT ![Cl(b)] = b]
  OBVIOUS
<1>10. /\ pos2[b] = 0
       /\ \A x \in g.fr : /\ Cl(x) = Cl(b) => pos2[x] = pos[x] + 1
                          /\ Cl(x) # Cl(b) => pos2[x] = pos[x]
  BY <1>1
<1>11. g2.fr = F /\ g2.sz = g.sz
  BY DEF Freed
<1>12. pos2 \in [F -> Nat]
  BY <1>2
<1> HIDE DEF Cl, pos2, g2, first
<1>13. first # 0 => first \in g.fr /\ Cl(first) = Cl(b) /\ pos[first] = 0 /\ FPrev(h, first) = 0
  BY <1>1, <1>3, <1>6 DEF first
<1>14. ASSUME NEW x \in F, pos2[x] = 0
       PROVE  FPrev(h2, x) = 0 /\ h2.matrix[Cl(x)] = x
  <2>1. CASE x = b
    BY <1>1, <1>8, <1>9, <2>1
  <2>2. CASE x \in g.fr
    <3>1. Cl(x) # Cl(b) /\ pos[x] = 0
      BY <1>2, <1>10, <1>14, <2>2
    <3>2. x # first
      BY <1>1, <1>13, <2>2, <3>1
    <3> QED
      BY <1>1, <1>3, <1>8, <1>9, <2>2, <3>1, <3>2
  <2> QED
    BY <2>1, <2>2
<1>15. ASSUME NEW x \in F, pos2[x] # 0
       PROVE  /\ FPrev(h2, x) \in F /\ Cl(FPrev(h2, x)) = Cl(x)
              /\ pos2[FPrev(h2, x)] = pos2[x] - 1 /\ FNext(h2, FPrev(h2, x)) = x
  <2>1. x \in g.fr /\ pos[x] \in Nat /\ x > 0
    BY <1>1, <1>2, <1>10, <1>15
  <2>2. CASE x = first
    <3>1. Cl(x) = Cl(b) /\ pos[x] = 0 /\ FPrev(h2, x) = b
      BY <1>8, <1>13, <2>1, <2>2
    <3>2. pos2[x] = 1
      BY <1>10, <2>1, <3>1
    <3> QED
      BY <1>8, <1>10, <2>2, <3>1, <3>2
  <2>3. CASE x # first
    <3>1. pos[x] # 0
      <4> SUFFICES ASSUME pos[x] = 0 PROVE FALSE
        OBVIOUS
      <4>1. Cl(x) = Cl(b)
        BY <1>10, <1>15, <2>1
      <4>2. h.matrix[Cl(b)] = x
        BY <1>3, <2>1, <4>1
      <4> QED
        BY <2>3, <4>2 DEF first
    <3> DEFINE p == FPrev(h, x)
    <3>2. p \in g.fr /\ Cl(p) = Cl(x) /\ pos[p] = pos[x] - 1 /\ FNext(h, p) = x
      BY <1>4, <2>1, <3>1
    <3>3. FPrev(h2, x) = p
      BY <1>8, <2>1, <2>3
    <3> HIDE DEF p
    <3>4. FNext(h2, p) = x
      BY <1>8, <3>2
    <3>5. pos2[p] = pos2[x] - 1
      BY <1>10, <2>1, <3>2
    <3> QED
      BY <3>2, <3>3, <3>4, <3>5
  <2> QED
    BY <2>2, <2>3
<1>16. ASSUME NEW x \in F, FNext(h2, x) # 0
       PROVE  /\ FNext(h2, x) \in F /\ Cl(FNext(h2, x)) = Cl(x)
              /\ FPrev(h2, FNext(h2, x)) = x
  <2>1. CASE x = b
    <3>1. FNext(h2, x) = first /\ first # 0
      BY <1>8, <1>16, <2>1
    <3> QED
      BY <1>8, <1>13, <2>1, <3>1
  <2>2. CASE x \in g.fr
    <3> DEFINE y == FNext(h, x)
    <3>1. FNext(h2, x) = y
      BY <1>8, <2>2
    <3>2. y \in g.fr /\ Cl(y) = Cl(x) /\ FPrev(h, y) = x /\ x > 0 /\ y > 0
      BY <1>1, <1>5, <1>16, <2>2, <3>1
    <3> HIDE DEF y
    <3>3. y # first
      BY <1>1, <1>13, <3>2
    <3>4. FPrev(h2, y) = x
      BY <1>8, <3>2, <3>3
    <3> QED
      BY <3>1, <3>2, <3>4
  <2> QED
    BY <2>1, <2>2
<1>17. ASSUME NEW c \in Classes, h2.matrix[c] # 0
       PROVE  /\ h2.matrix[c] \in F /\ Cl(h2.matrix[c]) = c /\ pos2[h2.matrix[c]] = 0
  <2>1. CASE c = Cl(b)
    BY <1>1, <1>9, <1>10, <2>1
  <2>2. CASE c # Cl(b)
    <3>1. h2.matrix[c] = h.matrix[c]
      BY <1>1, <1>9, <2>2
    <3>2. h.matrix[c] \in g.fr /\ Cl(h.matrix[c]) = c /\ pos[h.matrix[c]] = 0
      BY <1>6, <1>17, <3>1
    <3> QED
      BY <1>10, <2>2, <3>1, <3>2
  <2> QED
    BY <2>1, <2>2
<1>18. ASSUME NEW x \in F, NEW y \in F, Cl(x) = Cl(y), pos2[x] = pos2[y]
       PROVE  x = y
  <2>1. CASE x = b \/ y = b
    BY <1>2, <1>10, <1>18, <2>1
  <2>2. CASE x \in g.fr /\ y \in g.fr
    BY <1>2, <1>7, <1>10, <1>18, <2>2
  <2> QED
    BY <2>1, <2>2
<1>19. Linked(h2, g2, pos2)
  BY <1>11, <1>12, <1>14, <1>15, <1>16, <1>17, <1>18 DEF Linked, Cl
<1> QED
  BY <1>19 DEF Chains, g2

\* Every block has a class of its size.
LEMMA ClassOf ==
  ASSUME NEW R, NEW g, Layout(R, g), NEW b \in g.hs
  PROVE  MappingInsert(g.sz[b]) \in Classes /\ g.sz[b] \in 0 .. MemTop
<1>1. b \in Nat /\ b > 0 /\ g.sz[b] \in Nat
  BY Neighbours
<1>2. g.sz[b] <= MemTop
  <2>1. CASE b \in EndsOf(R)
    BY <2>1, TlsfAssumption DEF Layout, Bounded, EndsOf
  <2>2. CASE b \notin EndsOf(R)
    <3>1. Nx(g, b) \in g.hs
      BY <2>2, Neighbours
    <3>2. Nx(g, b) <= MemTop
      BY <3>1, Neighbours
    <3> QED
      BY <1>1, <3>2, TlsfAssumption DEF Nx
  <2> QED
    BY <2>1, <2>2
<1> QED
  BY <1>1, <1>2, TlsfAssumption DEF Classes

NodesOf(F) == {x + 1 : x \in F}

\* h2 has the headers of h, and what is in the busy blocks that are not in F.
Alike(h, g, h2, F) ==
  /\ \A d \in g.hs : h2.mem[d] = h.mem[d]
  /\ \A c \in Busy(g) \ F : \A a \in c + 1 .. c + g.sz[c] : h2.mem[a] = h.mem[a]

\* Block b is out of its list, the nodes before and behind are linked.
Unlinks(h, g, h2, b) ==
  /\ h2.matrix = IF h.matrix[MappingInsert(g.sz[b])] = b
                 THEN [h.matrix EXCEPT ![MappingInsert(g.sz[b])] = FNext(h, b)]
                 ELSE h.matrix
  /\ \A x \in g.fr \ {b} :
       /\ FPrev(h2, x) = IF x = FNext(h, b) THEN FPrev(h, b) ELSE FPrev(h, x)
       /\ FNext(h2, x) = IF x = FPrev(h, b) THEN FNext(h, b) ELSE FNext(h, x)

\* Memory that is no header changes only in nodes.
LEMMA NodesTags ==
  ASSUME NEW h, NEW g, NEW h2, NEW F, F \subseteq g.hs, Layout(Areas(h), g),
         \A x \in F : g.sz[x] > 0,
         But(h, h2, NodesOf(F))
  PROVE  Alike(h, g, h2, F)
<1> DEFINE R == Areas(h)
<1>1. ASSUME NEW x \in F
      PROVE  x + 1 \in x + 1 .. x + g.sz[x] /\ x \in Nat
  BY Neighbours
<1>2. \A x \in F : x + 1 \notin g.hs
  BY <1>1, Inside
<1>3. \A d \in g.hs : d \in 1 .. MemTop
  BY DEF Layout, Ordered
<1>4. \A d \in g.hs : h2.mem[d] = h.mem[d]
  BY <1>2, <1>3 DEF But, NodesOf
<1>5. ASSUME NEW c \in Busy(g) \ F, NEW a \in c + 1 .. c + g.sz[c]
      PROVE  h2.mem[a] = h.mem[a]
  <2>1. c \in g.hs
    BY DEF Busy
  <2>2. a \in 1 .. MemTop /\ \A x \in g.hs : x # c => a \notin x .. x + g.sz[x]
    BY <2>1, Inside
  <2>3. \A x \in F : x + 1 \in x .. x + g.sz[x]
    BY <1>1, Neighbours
  <2>4. \A x \in F : a # x + 1
    BY <2>2, <2>3
  <2> QED
    BY <2>2, <2>4 DEF But, NodesOf
<1> QED
  BY <1>4, <1>5 DEF Alike

\* What RemoveHeader writes: nodes of free blocks, and the first of the list.
LEMMA RemoveView ==
  ASSUME NEW h, NEW g, HeapType(h), Layout(Areas(h), g), NEW pos, Linked(h, g, pos),
         NEW b \in g.fr
  PROVE  LET h2 == RemoveHeader(h, b, MappingInsert(g.sz[b]))
         IN  But(h, h2, NodesOf(g.fr)) /\ Unlinks(h, g, h2, b)
<1> DEFINE class == MappingInsert(g.sz[b])
           next == FNext(h, b)
           prev == FPrev(h, b)
           h1 == IF next = 0 THEN h ELSE [h EXCEPT !.mem[next + 1].prev = prev]
           h2 == IF prev = 0 THEN h1 ELSE [h1 EXCEPT !.mem[prev + 1].len = 4 * next]
           h3 == [h2 EXCEPT !.mem[b + 1] = Zeros]
           h4 == IF h.matrix[class] = b THEN [h3 EXCEPT !.matrix[class] = next] ELSE h3
           N == NodesOf(g.fr)
<1>1. \A x \in g.fr : x \in Nat /\ x > 0 /\ x + 1 \in 1 .. MemTop /\ x + 1 \in N
  BY Nodes, Neighbours DEF NodesOf
<1>2. next \in Nat /\ prev \in Nat
  <2>1. b + 1 \in 1 .. MemTop
    BY <1>1
  <2>2. h.mem[b + 1].prev \in Nat /\ h.mem[b + 1].len \in Nat
    BY <2>1 DEF HeapType, Cell
  <2> QED
    BY <2>2, LenSplit DEF FNext, FPrev
<1>3. next # 0 => next \in g.fr
  BY DEF Linked
<1>4. prev # 0 => prev \in g.fr
  BY DEF Linked
<1>5. class \in Classes
  BY ClassOf, Neighbours
<1> HIDE DEF next, prev, N, class
<1>6. /\ But(h, h1, N) /\ h1.matrix = h.matrix
      /\ \A x \in g.fr : /\ h1.mem[x + 1].len = h.mem[x + 1].len
                         /\ h1.mem[x + 1].prev = IF x = next THEN prev ELSE h.mem[x + 1].prev
  <2>1. CASE next = 0
    BY <1>1, <2>1 DEF But
  <2>2. CASE next # 0
    <3>1. next \in g.fr /\ next + 1 \in 1 .. MemTop /\ next + 1 \in N
      BY <1>1, <1>3, <2>2
    <3>2. h1 = [h EXCEPT !.mem[next + 1].prev = prev]
      BY <2>2
    <3> HIDE DEF h1
    <3>3. HeapType(h1)
      BY <1>2, <3>1, <3>2 DEF HeapType, Cell
    <3>4. h1.matrix = h.matrix /\ h1.areas = h.areas /\ h1.brk = h.brk
      BY <3>2 DEF HeapType
    <3>5. \A a \in (1 .. MemTop) \ {next + 1} : h1.mem[a] = h.mem[a]
      BY <3>2 DEF HeapType
    <3>6. h1.mem[next + 1].prev = prev /\ h1.mem[next + 1].len = h.mem[next + 1].len
      BY <3>1, <3>2 DEF HeapType, Cell
    <3>7. But(h, h1, N)
      BY <3>1, <3>3, <3>4, <3>5 DEF But
    <3>8. \A x \in g.fr : x # next => x + 1 \in (1 .. MemTop) \ {next + 1}
      BY <1>1, <1>2
    <3> QED
      BY <3>4, <3>5, <3>6, <3>7, <3>8
  <2> QED
    BY <2>1, <2>2
<1> HIDE DEF h1
<1>7. /\ But(h, h2, N) /\ h2.matrix = h.matrix
      /\ \A x \in g.fr : /\ h2.mem[x + 1].prev = h1.mem[x + 1].prev
                         /\ h2.mem[x + 1].len = IF x = prev THEN 4 * next ELSE h.mem[x + 1].len
  <2>1. CASE prev = 0
    BY <1>1, <1>6, <2>1
  <2>2. CASE prev # 0
    <3>1. prev \in g.fr /\ prev + 1 \in 1 .. MemTop /\ prev + 1 \in N
      BY <1>1, <1>4, <2>2
    <3>2. h2 = [h1 EXCEPT !.mem[prev + 1].len = 4 * next]
      BY <2>2
    <3> HIDE DEF h2
    <3>3. HeapType(h1) /\ 4 * next \in Nat
      BY <1>2, <1>6 DEF But
    <3>4. HeapType(h2)
      <4> DEFINE node == [h1.mem[prev + 1] EXCEPT !.len = 4 * next]
      <4>1. h1.mem[prev + 1] \in Cell
        BY <3>1, <3>3 DEF HeapType
      <4>2. node \in Cell
        BY <3>3, <4>1 DEF Cell
      <4>3. h2 = [h1 EXCEPT !.mem[prev + 1] = node]
        BY <3>2
      <4> HIDE DEF node
      <4> QED
        BY <3>1, <3>3, <4>2, <4>3 DEF HeapType
    <3>5. h2.matrix = h1.matrix /\ h2.areas = h1.areas /\ h2.brk = h1.brk
      BY <3>2, <3>3 DEF HeapType
    <3>6. \A a \in (1 .. MemTop) \ {prev + 1} : h2.mem[a] = h1.mem[a]
      BY <3>2, <3>3 DEF HeapType
    <3>7. h2.mem[prev + 1].len = 4 * next /\ h2.mem[prev + 1].prev = h1.mem[prev + 1].prev
      BY <3>1, <3>2, <3>3 DEF HeapType, Cell
    <3>8. But(h, h2, N)
      BY <1>6, <3>1, <3>4, <3>5, <3>6 DEF But
    <3>9. \A x \in g.fr : x # prev => x + 1 \in (1 .. MemTop) \ {prev + 1}
      BY <1>1, <1>2
    <3> QED
      BY <1>6, <3>5, <3>6, <3>7, <3>8, <3>9
  <2> QED
    BY <2>1, <2>2
<1> HIDE DEF h2
<1>8. /\ But(h, h3, N) /\ h3.matrix = h.matrix
      /\ \A x \in g.fr \ {b} : h3.mem[x + 1] = h2.mem[x + 1]
  <2>1. b + 1 \in 1 .. MemTop /\ b + 1 \in N /\ HeapType(h2)
    BY <1>1, <1>7 DEF But
  <2>2. HeapType(h3)
    BY <2>1 DEF HeapType, Cell, Zeros
  <2>3. h3.matrix = h2.matrix /\ h3.areas = h2.areas /\ h3.brk = h2.brk
    BY <2>1 DEF HeapType
  <2>4. \A a \in (1 .. MemTop) \ {b + 1} : h3.mem[a] = h2.mem[a]
    BY <2>1 DEF HeapType
  <2> HIDE DEF h3
  <2>5. But(h, h3, N)
    BY <1>7, <2>1, <2>2, <2>3, <2>4 DEF But
  <2>6. \A x \in g.fr \ {b} : x + 1 \in (1 .. MemTop) \ {b + 1}
    BY <1>1
  <2> QED
    BY <1>7, <2>3, <2>4, <2>5, <2>6
<1> HIDE DEF h3
<1>9. /\ But(h, h4, N) /\ h4.mem = h3.mem
      /\ h4.matrix = IF h.matrix[class] = b THEN [h.matrix EXCEPT ![class] = next]
                     ELSE h.matrix
  <2>1. HeapType(h3)
    BY <1>8 DEF But
  <2>2. CASE h.matrix[class] # b
    BY <1>8, <2>2
  <2>3. CASE h.matrix[class] = b
    <3>1. h4 = [h3 EXCEPT !.matrix[class] = next]
      BY <2>3
    <3> HIDE DEF h4
    <3>2. HeapType(h4)
      BY <1>2, <1>5, <2>1, <3>1 DEF HeapType
    <3>3. h4.mem = h3.mem /\ h4.areas = h3.areas /\ h4.brk = h3.brk
          /\ h4.matrix = [h3.matrix EXCEPT ![class] = next]
      BY <2>1, <3>1 DEF HeapType
    <3> QED
      BY <1>8, <2>3, <3>2, <3>3 DEF But
  <2> QED
    BY <2>2, <2>3
<1>10. h4 = RemoveHeader(h, b, class)
  BY DEF RemoveHeader, h4, h3, h2, h1, next, prev
<1> HIDE DEF h4
<1>11. ASSUME NEW x \in g.fr \ {b}
       PROVE  /\ FPrev(h4, x) = IF x = next THEN prev ELSE FPrev(h, x)
              /\ FNext(h4, x) = IF x = prev THEN next ELSE FNext(h, x)
  <2>1. h4.mem[x + 1] = h2.mem[x + 1]
    BY <1>8, <1>9
  <2>2. FPrev(h4, x) = IF x = next THEN prev ELSE FPrev(h, x)
    BY <1>6, <1>7, <2>1 DEF FPrev
  <2>3. (4 * next) \div 4 = next
    BY <1>2
  <2>4. FNext(h4, x) = IF x = prev THEN next ELSE FNext(h, x)
    BY <1>7, <2>1, <2>3 DEF FNext
  <2> QED
    BY <2>2, <2>4
<1> QED
  <2>1. Unlinks(h, g, h4, b)
    BY <1>9, <1>11 DEF Unlinks, next, prev, class
  <2> QED
    BY <1>9, <1>10, <2>1 DEF N, class

\* What is left when free block b is no longer in its list.
Removed(h, g, h2, b, X, Y, Z) ==
  LET g2 == Taken(g, b)
  IN  /\ Sound(h2, g2, X \cup {b}, Y \cup {b}, Z)
      /\ Areas(h2) = Areas(h) /\ h2.brk = h.brk
      /\ Keeps(h, g, h2, g2, Busy(g))
      /\ \A d \in g.hs : h2.mem[d] = h.mem[d]

\* REMOVE_HEADER takes a block from its list and leaves all else as it was.
LEMMA RemoveSound ==
  ASSUME NEW h, NEW g, NEW X, NEW Y, NEW Z, Sound(h, g, X, Y, Z), NEW b \in g.fr
  PROVE  Removed(h, g, RemoveHeader(h, b, MappingInsert(g.sz[b])), b, X, Y, Z)
<1> DEFINE R == Areas(h)
           h2 == RemoveHeader(h, b, MappingInsert(g.sz[b]))
           g2 == Taken(g, b)
<1>1. Layout(R, g) /\ HeapType(h)
  BY DEF Sound
<1>2. PICK pos : Linked(h, g, pos)
  BY DEF Sound, Chains
<1>3. But(h, h2, NodesOf(g.fr)) /\ Unlinks(h, g, h2, b)
  BY <1>1, <1>2, RemoveView
<1>4. g2.hs = g.hs /\ g2.sz = g.sz /\ g2.fr = g.fr \ {b}
  BY DEF Taken
<1> HIDE DEF h2, g2
<1>5. Layout(R, g2) /\ (\A c : Nx(g2, c) = Nx(g, c)) /\ Busy(g2) = Busy(g) \cup {b}
  BY <1>1, TakenLayout DEF g2
<1>6. Chains(h2, g2)
  <2>1. \A x \in g.fr : x \in Nat /\ x > 0 /\ MappingInsert(g.sz[x]) \in Classes
    BY <1>1, ClassOf, Neighbours
  <2>2. h.matrix \in [Classes -> Nat]
    BY <1>1 DEF HeapType
  <2> QED
    BY <1>2, <1>3, <2>1, <2>2, Unlinked DEF g2, Unlinks
<1>7. HeapType(h2) /\ Areas(h2) = R /\ Below(h2) /\ h2.brk = h.brk
  BY <1>3, SameAreas DEF Sound, But
<1>8. Alike(h, g, h2, g.fr)
  <2>1. g.fr \subseteq g.hs /\ \A x \in g.fr : g.sz[x] > 0
    BY <1>1, Neighbours
  <2> QED
    BY <1>1, <1>3, <2>1, NodesTags
<1>9. \A d \in g.hs : /\ Size(h2, d) = Size(h, d) /\ h2.mem[d].prev = h.mem[d].prev
                      /\ IsFree(h2, d) <=> IsFree(h, d)
                      /\ PrevFree(h2, d) <=> PrevFree(h, d)
  BY <1>8, SameHeader DEF Alike
<1>10. \A d \in g2.hs \ Z : Size(h2, d) = g2.sz[d]
  BY <1>4, <1>9 DEF Sound, Tags
<1>11. \A d \in g2.hs \ (X \cup {b}) : IsFree(h2, d) <=> d \in g2.fr
  BY <1>4, <1>9 DEF Sound, Tags
<1>12. ASSUME NEW d \in g2.hs \ ((Y \cup {b}) \cup EndsOf(R))
       PROVE  PrevFree(h2, Nx(g2, d)) <=> d \in g2.fr
  <2>1. Nx(g, d) \in g.hs /\ d \in g.hs
    BY <1>1, <1>4, Neighbours
  <2> QED
    BY <1>4, <1>5, <1>9, <2>1 DEF Sound, Tags
<1>13. ASSUME NEW d \in g2.fr, Nx(g2, d) \notin EndsOf(R)
       PROVE  h2.mem[Nx(g2, d)].prev = d
  <2>1. Nx(g, d) \in g.hs /\ d \in g.fr
    BY <1>1, <1>4, Neighbours DEF Busy
  <2> QED
    BY <1>4, <1>5, <1>9, <1>13, <2>1 DEF Sound, Tags
<1>14. Sound(h2, g2, X \cup {b}, Y \cup {b}, Z)
  BY <1>5, <1>6, <1>7, <1>10, <1>11, <1>12, <1>13 DEF Sound, Tags
<1>15. Keeps(h, g, h2, g2, Busy(g))
  <2>1. Busy(g) = Busy(g) \ g.fr
    BY DEF Busy
  <2> QED
    BY <1>4, <1>5, <1>8, <2>1 DEF Keeps, Alike
<1> QED
  BY <1>7, <1>8, <1>14, <1>15 DEF h2, g2, Alike, Removed

\* Block b is in front of its list.
Fronts(h, g, h2, b) ==
  /\ h2.matrix = [h.matrix EXCEPT ![MappingInsert(g.sz[b])] = b]
  /\ FPrev(h2, b) = 0 /\ FNext(h2, b) = h.matrix[MappingInsert(g.sz[b])]
  /\ \A x \in g.fr :
       /\ FPrev(h2, x) = IF x = h.matrix[MappingInsert(g.sz[b])] THEN b ELSE FPrev(h, x)
       /\ FNext(h2, x) = FNext(h, x)

\* What InsertFreeBlock writes: nodes of free blocks, and the first of the list.
LEMMA InsertView ==
  ASSUME NEW h, NEW g, HeapType(h), Layout(Areas(h), g), NEW pos, Linked(h, g, pos),
         NEW b \in Busy(g), g.sz[b] > 0, Size(h, b) = g.sz[b]
  PROVE  LET h2 == InsertFreeBlock(h, b)
         IN  But(h, h2, NodesOf(g.fr \cup {b})) /\ Fronts(h, g, h2, b)
<1> DEFINE class == MappingInsert(g.sz[b])
           first == h.matrix[class]
           h1 == [h EXCEPT !.mem[b + 1] = [prev |-> 0, len |-> 4 * first]]
           h2 == IF first = 0 THEN h1 ELSE [h1 EXCEPT !.mem[first + 1].prev = b]
           h3 == [h2 EXCEPT !.matrix[class] = b]
           N == NodesOf(g.fr \cup {b})
<1>1. \A x \in g.fr : x \in Nat /\ x > 0 /\ x + 1 \in 1 .. MemTop /\ x + 1 \in N
  BY Nodes, Neighbours DEF NodesOf
<1>2. b \in Nat /\ b > 0 /\ b + 1 \in 1 .. MemTop /\ b + 1 \in N /\ b \in g.hs
  <2>1. b \in g.hs /\ b \in Nat /\ b > 0 /\ g.sz[b] \in Nat
    BY Neighbours DEF Busy
  <2>2. b + 1 \in b + 1 .. b + g.sz[b]
    BY <2>1
  <2>3. b + 1 \in 1 .. MemTop
    BY <2>1, <2>2, Inside
  <2> QED
    BY <2>1, <2>3 DEF NodesOf
<1>3. \A x \in g.fr : x # b /\ x + 1 # b + 1
  BY <1>1, <1>2 DEF Busy
<1>4. class \in Classes /\ first \in Nat
  BY <1>2, ClassOf DEF HeapType
<1>5. first # 0 => first \in g.fr
  BY <1>4 DEF Linked
<1> HIDE DEF first, N, class
<1>6. /\ But(h, h1, N) /\ h1.matrix = h.matrix
      /\ \A x \in g.fr : h1.mem[x + 1] = h.mem[x + 1]
      /\ h1.mem[b + 1].prev = 0 /\ h1.mem[b + 1].len = 4 * first
  <2>1. HeapType(h1)
    <3>1. 4 * first \in Nat /\ b + 1 \in 1 .. MemTop
      BY <1>2, <1>4
    <3>2. [prev |-> 0, len |-> 4 * first] \in Cell
      BY <3>1 DEF Cell
    <3> QED
      BY <3>1, <3>2 DEF HeapType
  <2>2. h1.matrix = h.matrix /\ h1.areas = h.areas /\ h1.brk = h.brk
    BY DEF HeapType
  <2>3. \A a \in (1 .. MemTop) \ {b + 1} : h1.mem[a] = h.mem[a]
    BY DEF HeapType
  <2>4. h1.mem[b + 1] = [prev |-> 0, len |-> 4 * first]
    BY <1>2 DEF HeapType
  <2> HIDE DEF h1
  <2>5. But(h, h1, N)
    BY <1>2, <2>1, <2>2, <2>3 DEF But
  <2>6. \A x \in g.fr : x + 1 \in (1 .. MemTop) \ {b + 1}
    BY <1>1, <1>3
  <2> QED
    BY <2>2, <2>3, <2>4, <2>5, <2>6
<1> HIDE DEF h1
<1>7. /\ But(h, h2, N) /\ h2.matrix = h.matrix /\ h2.mem[b + 1] = h1.mem[b + 1]
      /\ \A x \in g.fr : /\ h2.mem[x + 1].len = h.mem[x + 1].len
                         /\ h2.mem[x + 1].prev = IF x = first THEN b ELSE h.mem[x + 1].prev
  <2>1. CASE first = 0
    BY <1>1, <1>6, <2>1
  <2>2. CASE first # 0
    <3>1. first \in g.fr /\ first + 1 \in 1 .. MemTop /\ first + 1 \in N
      BY <1>1, <1>5, <2>2
    <3>2. h2 = [h1 EXCEPT !.mem[first + 1].prev = b]
      BY <2>2
    <3> HIDE DEF h2
    <3>3. HeapType(h1)
      BY <1>6 DEF But
    <3>4. HeapType(h2)
      <4>1. b \in Nat
        BY <1>2
      <4>2. [h1.mem[first + 1] EXCEPT !.prev = b] \in Cell
        BY <3>1, <3>3, <4>1 DEF HeapType, Cell
      <4> QED
        BY <3>1, <3>2, <3>3, <4>2 DEF HeapType
    <3>5. h2.matrix = h1.matrix /\ h2.areas = h1.areas /\ h2.brk = h1.brk
      BY <3>2, <3>3 DEF HeapType
    <3>6. \A a \in (1 .. MemTop) \ {first + 1} : h2.mem[a] = h1.mem[a]
      BY <3>2, <3>3 DEF HeapType
    <3>7. h2.mem[first + 1].prev = b /\ h2.mem[first + 1].len = h1.mem[first + 1].len
      BY <3>1, <3>2, <3>3 DEF HeapType, Cell
    <3>8. But(h, h2, N)
      BY <1>6, <3>1, <3>4, <3>5, <3>6 DEF But
    <3>9. \A x \in g.fr : x # first => x + 1 \in (1 .. MemTop) \ {first + 1}
      BY <1>1, <1>4
    <3>10. b + 1 \in (1 .. MemTop) \ {first + 1}
      BY <1>2, <1>3, <3>1
    <3> QED
      BY <1>6, <3>5, <3>6, <3>7, <3>8, <3>9, <3>10
  <2> QED
    BY <2>1, <2>2
<1> HIDE DEF h2
<1>8. /\ But(h, h3, N) /\ h3.mem = h2.mem /\ h3.matrix = [h.matrix EXCEPT ![class] = b]
  <2>1. HeapType(h2)
    BY <1>7 DEF But
  <2>2. HeapType(h3)
    BY <1>2, <1>4, <2>1 DEF HeapType
  <2>3. h3.mem = h2.mem /\ h3.areas = h2.areas /\ h3.brk = h2.brk
        /\ h3.matrix = [h2.matrix EXCEPT ![class] = b]
    BY <2>1 DEF HeapType
  <2> HIDE DEF h3
  <2> QED
    BY <1>7, <2>2, <2>3 DEF But
<1>9. h3 = InsertFreeBlock(h, b)
  BY DEF InsertFreeBlock, h3, h2, h1, first, class
<1> HIDE DEF h3
<1>10. FPrev(h3, b) = 0 /\ FNext(h3, b) = first
  <2>1. h3.mem[b + 1].prev = 0 /\ h3.mem[b + 1].len = 4 * first
    BY <1>6, <1>7, <1>8
  <2>2. (4 * first) \div 4 = first
    BY <1>4
  <2> QED
    BY <2>1, <2>2 DEF FPrev, FNext
<1>11. ASSUME NEW x \in g.fr
       PROVE  /\ FPrev(h3, x) = IF x = first THEN b ELSE FPrev(h, x)
              /\ FNext(h3, x) = FNext(h, x)
  BY <1>7, <1>8 DEF FPrev, FNext
<1>12. Fronts(h, g, h3, b)
  BY <1>8, <1>10, <1>11 DEF Fronts, first, class
<1> QED
  BY <1>8, <1>9, <1>12 DEF N

\* What is left when block b is in a list.
Inserted(h, g, h2, b, X, Y, Z) ==
  LET g2 == Freed(g, b)
  IN  /\ Sound(h2, g2, X \ {b}, Y \ {b}, Z)
      /\ Areas(h2) = Areas(h) /\ h2.brk = h.brk
      /\ Keeps(h, g, h2, g2, Busy(g) \ {b})
      /\ \A d \in g.hs \ {Nx(g, b)} : h2.mem[d] = h.mem[d]

\* INSERT_FREE_BLOCK brings a block whose neighbours are busy to its list.
LEMMA InsertSound ==
  ASSUME NEW h, NEW g, NEW X, NEW Y, NEW Z, Sound(h, g, X, Y, Z),
         NEW b \in Busy(g), b \notin AtsOf(Areas(h)), b \notin EndsOf(Areas(h)),
         b \notin Z, g.sz[b] > 0, IsFree(h, b), PrevFree(h, Nx(g, b)),
         Nx(g, b) \notin EndsOf(Areas(h)) => h.mem[Nx(g, b)].prev = b,
         Nx(g, b) \notin g.fr, \A p \in g.fr : Nx(g, p) # b
  PROVE  LET h2 == InsertFreeBlock(h, b)
         IN  Inserted(h, g, h2, b, X, Y, Z) /\ h2.mem[Nx(g, b)] = h.mem[Nx(g, b)]
<1> DEFINE R == Areas(h)
           h2 == InsertFreeBlock(h, b)
           g2 == Freed(g, b)
<1>1. Layout(R, g) /\ HeapType(h)
  BY DEF Sound
<1>2. PICK pos : Linked(h, g, pos)
  BY DEF Sound, Chains
<1>3. But(h, h2, NodesOf(g.fr \cup {b})) /\ Fronts(h, g, h2, b)
  <2>1. Size(h, b) = g.sz[b]
    BY DEF Sound, Tags, Busy
  <2> QED
    BY <1>1, <1>2, <2>1, InsertView
<1>4. g2.hs = g.hs /\ g2.sz = g.sz /\ g2.fr = g.fr \cup {b}
  BY DEF Freed
<1> HIDE DEF h2, g2
<1>5. Layout(R, g2) /\ (\A c : Nx(g2, c) = Nx(g, c)) /\ Busy(g2) = Busy(g) \ {b}
  BY <1>1, FreedLayout DEF g2
<1>6. Chains(h2, g2)
  <2>1. \A x \in g.fr : x \in Nat /\ x > 0 /\ MappingInsert(g.sz[x]) \in Classes
    BY <1>1, ClassOf, Neighbours
  <2>2. h.matrix \in [Classes -> Nat]
    BY <1>1 DEF HeapType
  <2>3. b \in Nat /\ b > 0 /\ MappingInsert(g.sz[b]) \in Classes
    BY <1>1, ClassOf, Neighbours DEF Busy
  <2> QED
    BY <1>2, <1>3, <2>1, <2>2, <2>3, FrontLinked DEF g2, Fronts
<1>7. HeapType(h2) /\ Areas(h2) = R /\ Below(h2) /\ h2.brk = h.brk
  BY <1>3, SameAreas DEF Sound, But
<1>8. Alike(h, g, h2, g.fr \cup {b})
  <2>1. g.fr \cup {b} \subseteq g.hs /\ \A x \in g.fr \cup {b} : g.sz[x] > 0
    BY <1>1, Neighbours DEF Busy
  <2> QED
    BY <1>1, <1>3, <2>1, NodesTags
<1>9. \A d \in g.hs : /\ Size(h2, d) = Size(h, d) /\ h2.mem[d].prev = h.mem[d].prev
                      /\ IsFree(h2, d) <=> IsFree(h, d)
                      /\ PrevFree(h2, d) <=> PrevFree(h, d)
  BY <1>8, SameHeader DEF Alike
<1>10. \A d \in g2.hs \ Z : Size(h2, d) = g2.sz[d]
  BY <1>4, <1>9 DEF Sound, Tags
<1>11. \A d \in g2.hs \ (X \ {b}) : IsFree(h2, d) <=> d \in g2.fr
  BY <1>4, <1>9 DEF Sound, Tags
<1>12. ASSUME NEW d \in g2.hs \ ((Y \ {b}) \cup EndsOf(R))
       PROVE  PrevFree(h2, Nx(g2, d)) <=> d \in g2.fr
  <2>1. Nx(g, d) \in g.hs /\ d \in g.hs
    BY <1>1, <1>4, Neighbours
  <2> QED
    BY <1>4, <1>5, <1>9, <2>1 DEF Sound, Tags
<1>13. ASSUME NEW d \in g2.fr, Nx(g2, d) \notin EndsOf(R)
       PROVE  h2.mem[Nx(g2, d)].prev = d
  <2>1. Nx(g, d) \in g.hs
    BY <1>1, <1>4, Neighbours DEF Busy
  <2> QED
    BY <1>4, <1>5, <1>9, <1>13, <2>1 DEF Sound, Tags
<1>14. Sound(h2, g2, X \ {b}, Y \ {b}, Z)
  BY <1>5, <1>6, <1>7, <1>10, <1>11, <1>12, <1>13 DEF Sound, Tags
<1>15. Keeps(h, g, h2, g2, Busy(g) \ {b})
  <2>1. Busy(g) \ {b} = Busy(g) \ (g.fr \cup {b})
    BY DEF Busy
  <2> QED
    BY <1>4, <1>5, <1>8, <2>1 DEF Keeps, Alike
<1>16. h2.mem[Nx(g, b)] = h.mem[Nx(g, b)]
  BY <1>1, <1>8, Neighbours DEF Alike, Busy
<1> QED
  BY <1>7, <1>8, <1>14, <1>15, <1>16 DEF h2, g2, Alike, Inserted

-----------------------------------------------------------------------------
(* Single headers of a sound heap *)

\* What is left when header a has changed.
After(h, g, h2, a, X, Y, Z) ==
  /\ Sound(h2, g, X, Y, Z)
  /\ But(h, h2, {a}) /\ Areas(h2) = Areas(h)
  /\ Keeps(h, g, h2, g, Busy(g))

\* The flag of one block is set, to what it is or as an exception.
LEMMA SetFreeSound ==
  ASSUME NEW h, NEW g, NEW X, NEW Y, NEW Z, Sound(h, g, X, Y, Z),
         NEW a \in g.hs, NEW on \in BOOLEAN, NEW X2, X \subseteq X2 \cup {a},
         a \in X2 \/ (on <=> a \in g.fr)
  PROVE  LET h2 == SetFree(h, a, on)
         IN  /\ After(h, g, h2, a, X2, Y, Z)
             /\ Says(h2, a, h.mem[a].prev, Size(h, a), on, PrevFree(h, a))
<1> DEFINE h2 == SetFree(h, a, on)
<1>1. Layout(Areas(h), g) /\ HeapType(h) /\ a \in 1 .. MemTop
  BY DEF Sound, Layout, Ordered
<1>2. /\ But(h, h2, {a}) /\ h2.matrix = h.matrix
      /\ h2.mem[a].prev = h.mem[a].prev /\ Size(h2, a) = Size(h, a)
      /\ IsFree(h2, a) <=> on
      /\ PrevFree(h2, a) <=> PrevFree(h, a)
  BY <1>1, SetFreeDone
<1> HIDE DEF h2
<1>3. a \in Z \/ Size(h2, a) = g.sz[a]
  BY <1>2 DEF Sound, Tags
<1>4. \A p \in g.hs \ EndsOf(Areas(h)) :
        Nx(g, p) = a => p \in Y \/ (PrevFree(h2, a) <=> p \in g.fr)
  BY <1>2 DEF Sound, Tags
<1>5. a \notin EndsOf(Areas(h)) => \A p \in g.fr : Nx(g, p) = a => h2.mem[a].prev = p
  BY <1>2 DEF Sound, Tags
<1>6. /\ Sound(h2, g, X2, Y, Z) /\ Areas(h2) = Areas(h) /\ Keeps(h, g, h2, g, Busy(g))
  <2>1. a \in X2 \/ (IsFree(h2, a) <=> a \in g.fr)
    BY <1>2
  <2>2. Z \subseteq Z \cup {a} /\ \A p \in Y \cap g.hs : p \in Y \/ Nx(g, p) = a
    OBVIOUS
  <2>3. But(h, h2, {a}) /\ h2.matrix = h.matrix
    BY <1>2
  <2> QED
    BY <1>3, <1>4, <1>5, <2>1, <2>2, <2>3, HeaderChanged
<1> QED
  BY <1>2, <1>6 DEF h2, After, Says

\* The block behind b learns whether b is free.
LEMMA SetPrevFreeSound ==
  ASSUME NEW h, NEW g, NEW X, NEW Y, NEW Z, Sound(h, g, X, Y, Z),
         NEW b \in g.hs, b \notin EndsOf(Areas(h)), NEW on \in BOOLEAN,
         NEW Y2, Y \subseteq Y2 \cup {b}, b \in Y2 \/ (on <=> b \in g.fr)
  PROVE  LET h2 == SetPrevFree(h, Nx(g, b), on)
             a  == Nx(g, b)
         IN  /\ After(h, g, h2, a, X, Y2, Z)
             /\ Says(h2, a, h.mem[a].prev, Size(h, a), IsFree(h, a), on)
<1> DEFINE h2 == SetPrevFree(h, Nx(g, b), on)
           a == Nx(g, b)
<1>1. Layout(Areas(h), g) /\ HeapType(h)
  BY DEF Sound
<1>2. a \in g.hs /\ a \in 1 .. MemTop /\ \A p \in g.hs : Nx(g, p) = a => p = b
  BY <1>1, Neighbours DEF Layout, Ordered
<1> HIDE DEF a
<1>3. /\ But(h, h2, {a}) /\ h2.matrix = h.matrix
      /\ h2.mem[a].prev = h.mem[a].prev /\ Size(h2, a) = Size(h, a)
      /\ IsFree(h2, a) <=> IsFree(h, a)
      /\ PrevFree(h2, a) <=> on
  BY <1>1, <1>2, SetPrevFreeDone DEF a
<1> HIDE DEF h2
<1>4. a \in Z \/ Size(h2, a) = g.sz[a]
  BY <1>2, <1>3 DEF Sound, Tags
<1>5. a \in X \/ (IsFree(h2, a) <=> a \in g.fr)
  BY <1>2, <1>3 DEF Sound, Tags
<1>6. \A p \in g.hs \ EndsOf(Areas(h)) :
        Nx(g, p) = a => p \in Y2 \/ (PrevFree(h2, a) <=> p \in g.fr)
  BY <1>2, <1>3
<1>7. a \notin EndsOf(Areas(h)) => \A p \in g.fr : Nx(g, p) = a => h2.mem[a].prev = p
  BY <1>3 DEF Sound, Tags
<1>8. \A p \in Y \cap g.hs : p \in Y2 \/ Nx(g, p) = a
  BY DEF a
<1>9. /\ Sound(h2, g, X, Y2, Z) /\ Areas(h2) = Areas(h) /\ Keeps(h, g, h2, g, Busy(g))
  <2>1. X \subseteq X \cup {a} /\ Z \subseteq Z \cup {a}
    OBVIOUS
  <2> QED
    BY <1>2, <1>3, <1>4, <1>5, <1>6, <1>7, <1>8, <2>1, HeaderChanged
<1> QED
  BY <1>3, <1>9 DEF h2, a, After, Says

\* Only the block behind a free one is told where that is.
LEMMA SetPrevSound ==
  ASSUME NEW h, NEW g, NEW X, NEW Y, NEW Z, Sound(h, g, X, Y, Z),
         NEW b \in Busy(g), b \notin EndsOf(Areas(h)), NEW prev \in Nat
  PROVE  LET h2 == SetPrev(h, Nx(g, b), prev)
             a  == Nx(g, b)
         IN  /\ After(h, g, h2, a, X, Y, Z)
             /\ Says(h2, a, prev, Size(h, a), IsFree(h, a), PrevFree(h, a))
<1> DEFINE h2 == SetPrev(h, Nx(g, b), prev)
           a == Nx(g, b)
<1>1. Layout(Areas(h), g) /\ HeapType(h)
  BY DEF Sound
<1>2. b \in g.hs /\ b \notin g.fr
  BY DEF Busy
<1>3. a \in g.hs /\ a \in 1 .. MemTop /\ \A p \in g.hs : Nx(g, p) = a => p = b
  BY <1>1, <1>2, Neighbours DEF Layout, Ordered
<1> HIDE DEF a
<1>4. /\ But(h, h2, {a}) /\ h2.matrix = h.matrix
      /\ h2.mem[a].prev = prev /\ h2.mem[a].len = h.mem[a].len
  BY <1>1, <1>3, SetPrevDone DEF a
<1> HIDE DEF h2
<1>5. /\ Size(h2, a) = Size(h, a)
      /\ IsFree(h2, a) <=> IsFree(h, a)
      /\ PrevFree(h2, a) <=> PrevFree(h, a)
  BY <1>4 DEF Size, IsFree, PrevFree
<1>6. a \in Z \/ Size(h2, a) = g.sz[a]
  BY <1>3, <1>5 DEF Sound, Tags
<1>7. a \in X \/ (IsFree(h2, a) <=> a \in g.fr)
  BY <1>3, <1>5 DEF Sound, Tags
<1>8. \A p \in g.hs \ EndsOf(Areas(h)) :
        Nx(g, p) = a => p \in Y \/ (PrevFree(h2, a) <=> p \in g.fr)
  BY <1>5 DEF Sound, Tags
<1>9. a \notin EndsOf(Areas(h)) => \A p \in g.fr : Nx(g, p) = a => h2.mem[a].prev = p
  <2>1. g.fr \subseteq g.hs
    BY <1>1 DEF Layout, Ordered
  <2> QED
    BY <1>2, <1>3, <2>1
<1>10. /\ Sound(h2, g, X, Y, Z) /\ Areas(h2) = Areas(h) /\ Keeps(h, g, h2, g, Busy(g))
  BY <1>3, <1>4, <1>6, <1>7, <1>8, <1>9, HeaderChanged
<1> QED
  BY <1>4, <1>5, <1>10 DEF h2, a, After, Says

\* The block behind b learns that b is free and where it is.
LEMMA TellNextSound ==
  ASSUME NEW h, NEW g, NEW X, NEW Y, NEW Z, Sound(h, g, X, Y, Z),
         NEW b \in Busy(g), b \notin EndsOf(Areas(h)), b \notin Z
  PROVE  LET h2 == TellNext(h, b)
             n  == Nx(g, b)
         IN  /\ After(h, g, h2, n, X, Y \cup {b}, Z)
             /\ Says(h2, n, b, Size(h, n), IsFree(h, n), TRUE)
<1> DEFINE n == Nx(g, b)
           h1 == SetPrevFree(h, n, TRUE)
           h2 == SetPrev(h1, n, b)
<1>1. Layout(Areas(h), g) /\ b \in g.hs
  BY DEF Sound, Busy
<1>2. Behind(h, b) = n
  BY <1>1 DEF Behind, Nx, Sound, Tags
<1>3. TellNext(h, b) = h2
  BY <1>2 DEF TellNext
<1>4. b \in Nat
  BY <1>1, Neighbours
<1>5. After(h, g, h1, n, X, Y \cup {b}, Z)
      /\ Says(h1, n, h.mem[n].prev, Size(h, n), IsFree(h, n), TRUE)
  <2>1. b \in Y \cup {b} /\ Y \subseteq (Y \cup {b}) \cup {b} /\ TRUE \in BOOLEAN
    OBVIOUS
  <2> QED
    BY <1>1, <2>1, SetPrevFreeSound
<1> HIDE DEF h1
<1>6. After(h1, g, h2, n, X, Y \cup {b}, Z)
      /\ Says(h2, n, b, Size(h1, n), IsFree(h1, n), PrevFree(h1, n))
  <2>1. Sound(h1, g, X, Y \cup {b}, Z) /\ Areas(h1) = Areas(h)
    BY <1>5 DEF After
  <2> QED
    BY <1>4, <2>1, SetPrevSound
<1> HIDE DEF h2
<1>7. But(h, h2, {n})
  BY <1>5, <1>6 DEF But, After
<1>8. Keeps(h, g, h2, g, Busy(g))
  BY <1>5, <1>6, KeepsTransitive DEF After
<1>9. Says(h2, n, b, Size(h, n), IsFree(h, n), TRUE)
  BY <1>5, <1>6 DEF Says
<1>10. After(h, g, h2, n, X, Y \cup {b}, Z)
  BY <1>5, <1>6, <1>7, <1>8 DEF After
<1> QED
  BY <1>3, <1>9, <1>10 DEF n

\* A block marked as free, with busy neighbours, comes to its list.
LEMMA ReleaseSound ==
  ASSUME NEW h, NEW g, NEW X, NEW Y, NEW Z, Sound(h, g, X, Y, Z),
         NEW b \in Busy(g), b \notin AtsOf(Areas(h)), b \notin EndsOf(Areas(h)),
         b \notin Z, g.sz[b] > 0, IsFree(h, b),
         Nx(g, b) \notin g.fr, \A p \in g.fr : Nx(g, p) # b
  PROVE  Inserted(h, g, Release(h, b), b, X, Y, Z)
<1> DEFINE n == Nx(g, b)
           h1 == TellNext(h, b)
           h2 == InsertFreeBlock(h1, b)
           g2 == Freed(g, b)
<1>1. Layout(Areas(h), g) /\ b \in g.hs /\ g.hs \subseteq 1 .. MemTop /\ n # b
  <2>1. Layout(Areas(h), g) /\ b \in g.hs
    BY DEF Sound, Busy
  <2> QED
    BY <2>1, Neighbours DEF Layout, Ordered
<1>2. /\ Sound(h1, g, X, Y \cup {b}, Z)
      /\ But(h, h1, {n}) /\ Areas(h1) = Areas(h)
      /\ Keeps(h, g, h1, g, Busy(g))
      /\ h1.mem[n].prev = b
      /\ PrevFree(h1, n)
  <2>1. /\ After(h, g, h1, n, X, Y \cup {b}, Z)
        /\ Says(h1, n, b, Size(h, n), IsFree(h, n), TRUE)
    BY TellNextSound
  <2> HIDE DEF h1, n
  <2> QED
    BY <2>1 DEF After, Says
<1> HIDE DEF h1
<1>3. h1.mem[b] = h.mem[b]
  BY <1>1, <1>2 DEF But
<1>4. IsFree(h1, b)
  BY <1>3, SameHeader
<1>5. Inserted(h1, g, h2, b, X, Y \cup {b}, Z)
  BY <1>2, <1>4, InsertSound
<1> HIDE DEF h2, g2
<1>6. (Y \cup {b}) \ {b} = Y \ {b}
  OBVIOUS
<1>7. Keeps(h, g, h2, g2, Busy(g) \ {b})
  <2>1. Keeps(h, g, h1, g, Busy(g) \ {b})
    BY <1>2, KeepsFewer
  <2> QED
    BY <1>5, <2>1, KeepsTransitive DEF Inserted, g2
<1>8. \A d \in g.hs \ {n} : h2.mem[d] = h.mem[d]
  BY <1>1, <1>2, <1>5 DEF But, Inserted
<1>9. Areas(h2) = Areas(h) /\ h2.brk = h.brk
  BY <1>2, <1>5 DEF But, Inserted
<1>10. Sound(h2, g2, X \ {b}, Y \ {b}, Z)
  BY <1>5, <1>6 DEF Inserted, g2
<1> QED
  BY <1>7, <1>8, <1>9, <1>10 DEF h2, h1, g2, Release, Inserted

-----------------------------------------------------------------------------
(* Blocks that are cut and joined *)

\* The size of one block is set, to what it is or as an exception.
LEMMA SetSizeSound ==
  ASSUME NEW h, NEW g, NEW X, NEW Y, NEW Z, Sound(h, g, X, Y, Z),
         NEW a \in g.hs, NEW size \in Nat, NEW Z2, Z \subseteq Z2 \cup {a},
         a \in Z2 \/ size = g.sz[a]
  PROVE  LET h2 == SetSize(h, a, size)
         IN  /\ After(h, g, h2, a, X, Y, Z2)
             /\ Says(h2, a, h.mem[a].prev, size, IsFree(h, a), PrevFree(h, a))
<1> DEFINE h2 == SetSize(h, a, size)
<1>1. Layout(Areas(h), g) /\ HeapType(h) /\ a \in 1 .. MemTop
  BY DEF Sound, Layout, Ordered
<1>2. /\ But(h, h2, {a}) /\ h2.matrix = h.matrix
      /\ h2.mem[a].prev = h.mem[a].prev /\ Size(h2, a) = size
      /\ IsFree(h2, a) <=> IsFree(h, a)
      /\ PrevFree(h2, a) <=> PrevFree(h, a)
  BY <1>1, SetSizeDone
<1> HIDE DEF h2
<1>3. a \in X \/ (IsFree(h2, a) <=> a \in g.fr)
  BY <1>2 DEF Sound, Tags
<1>4. \A p \in g.hs \ EndsOf(Areas(h)) :
        Nx(g, p) = a => p \in Y \/ (PrevFree(h2, a) <=> p \in g.fr)
  BY <1>2 DEF Sound, Tags
<1>5. a \notin EndsOf(Areas(h)) => \A p \in g.fr : Nx(g, p) = a => h2.mem[a].prev = p
  BY <1>2 DEF Sound, Tags
<1>6. /\ Sound(h2, g, X, Y, Z2) /\ Areas(h2) = Areas(h) /\ Keeps(h, g, h2, g, Busy(g))
  <2>1. a \in Z2 \/ Size(h2, a) = g.sz[a]
    BY <1>2
  <2>2. X \subseteq X \cup {a} /\ \A p \in Y \cap g.hs : p \in Y \/ Nx(g, p) = a
    OBVIOUS
  <2> QED
    BY <1>2, <1>3, <1>4, <1>5, <2>1, <2>2, HeaderChanged
<1> QED
  BY <1>2, <1>6 DEF h2, After, Says

\* What is left when block b has been split, or has taken in the one behind.
IsSplit(h, g, h2, b, size, X, Y, Z) ==
  LET g2 == Cut(g, b, size)
      c  == b + 1 + size
  IN  /\ Sound(h2, g2, X \cup {c}, (Y \ {b}) \cup {c}, Z \ {b})
      /\ But(h, h2, {b, c}) /\ Areas(h2) = Areas(h)
      /\ Keeps(h, g, h2, g2, Busy(g) \ {b})
      /\ IsFree(h2, c) /\ ~ PrevFree(h2, c)
      /\ Says(h2, b, h.mem[b].prev, size, IsFree(h, b), PrevFree(h, b))

IsMerged(h, g, h2, b, X, Y, Z) ==
  LET g2 == Merged(g, b)
      n  == Nx(g, b)
  IN  /\ Sound(h2, g2, X, Y \cup {b}, Z \ {b})
      /\ But(h, h2, {b, n}) /\ Areas(h2) = Areas(h)
      /\ Keeps(h, g, h2, g2, Busy(g) \ {b, n})
      /\ Says(h2, b, h.mem[b].prev, g2.sz[b], IsFree(h, b), PrevFree(h, b))

\* Split makes two blocks of one.
LEMMA SplitSound ==
  ASSUME NEW h, NEW g, NEW X, NEW Y, NEW Z, Sound(h, g, X, Y, Z),
         NEW b \in Busy(g), b \notin AtsOf(Areas(h)), b \notin EndsOf(Areas(h)),
         NEW size \in Nat, size + 1 <= g.sz[b], Size(h, b) = g.sz[b]
  PROVE  IsSplit(h, g, Split(h, b, size), b, size, X, Y, Z)
<1> DEFINE R == Areas(h)
           c == b + 1 + size
           rest == Size(h, b) - size - 1
           h1 == Header(h, c, b, rest, THIS_FREE)
           h2 == SetSize(h1, b, size)
           g2 == Cut(g, b, size)
<1>1. Layout(R, g) /\ HeapType(h)
  BY DEF Sound
<1>2. b \in g.hs /\ b \in Nat /\ g.sz[b] \in Nat /\ rest \in Nat /\ rest = g.sz[b] - size - 1
  <2>1. b \in g.hs /\ b \in Nat /\ g.sz[b] \in Nat
    BY <1>1, Neighbours DEF Busy
  <2> QED
    BY <2>1
<1>3. /\ Layout(R, g2) /\ Nx(g2, b) = c
      /\ c \notin g.hs /\ c \in 1 .. MemTop
      /\ g2.hs = g.hs \cup {c} /\ g2.fr = g.fr
      /\ g2.sz[b] = size /\ g2.sz[c] = g.sz[b] - size - 1
      /\ c \in Busy(g2)
  BY <1>1, CutLayout
<1> HIDE DEF c, g2, rest
<1>4. /\ But(h, h1, {c}) /\ h1.matrix = h.matrix /\ h1.mem[c].prev = b /\ Size(h1, c) = rest
      /\ IsFree(h1, c) <=> THIS_FREE % 2 = 1
      /\ PrevFree(h1, c) <=> THIS_FREE >= 2
  <2>1. THIS_FREE \in 0 .. 3
    BY DEF THIS_FREE
  <2>2. HeapType(h) /\ c \in 1 .. MemTop /\ rest \in Nat /\ b \in Nat
    BY <1>1, <1>2, <1>3
  <2>3. /\ But(h, h1, {c}) /\ h1.matrix = h.matrix
        /\ Says(h1, c, b, rest, THIS_FREE % 2 = 1, THIS_FREE >= 2)
    BY <2>1, <2>2, HeaderDone
  <2> QED
    BY <2>3 DEF Says
<1>5. IsFree(h1, c) /\ ~ PrevFree(h1, c)
  BY <1>4 DEF THIS_FREE
<1> HIDE DEF h1
<1>6. /\ Sound(h1, g2, X \cup {c}, Y \cup {b, c}, Z \cup {b, c})
      /\ Areas(h1) = Areas(h)
      /\ Keeps(h, g, h1, g2, Busy(g) \ {b})
      /\ \A d \in g.hs : h1.mem[d] = h.mem[d]
  <2>1. But(h, h1, {b + 1 + size}) /\ h1.matrix = h.matrix
    BY <1>4 DEF c
  <2>2. Added(h, g, X, Y, Z, b, size, h1)
    BY <2>1, HeaderAdded
  <2> QED
    BY <2>2 DEF Added, c, g2
<1>7. /\ Sound(h2, g2, X \cup {c}, Y \cup {b, c}, (Z \ {b}) \cup {c})
      /\ But(h1, h2, {b}) /\ Areas(h2) = Areas(h1)
      /\ Keeps(h1, g2, h2, g2, Busy(g2))
      /\ Says(h2, b, h1.mem[b].prev, size, IsFree(h1, b), PrevFree(h1, b))
  <2>1. Z \cup {b, c} \subseteq ((Z \ {b}) \cup {c}) \cup {b}
    OBVIOUS
  <2>2. b \in g2.hs /\ size = g2.sz[b]
    BY <1>2, <1>3
  <2>3. Sound(h1, g2, X \cup {c}, Y \cup {b, c}, Z \cup {b, c})
    BY <1>6
  <2>4. /\ After(h1, g2, h2, b, X \cup {c}, Y \cup {b, c}, (Z \ {b}) \cup {c})
        /\ Says(h2, b, h1.mem[b].prev, size, IsFree(h1, b), PrevFree(h1, b))
    BY <2>1, <2>2, <2>3, SetSizeSound
  <2> QED
    BY <2>4 DEF After
<1> HIDE DEF h2
<1>8. h2.mem[c] = h1.mem[c]
  BY <1>2, <1>3, <1>7 DEF But
<1>9. IsFree(h2, c) /\ ~ PrevFree(h2, c) /\ Size(h2, c) = g2.sz[c]
  BY <1>2, <1>3, <1>4, <1>5, <1>8, SameHeader
<1>10. Sound(h2, g2, X \cup {c}, (Y \ {b}) \cup {c}, Z \ {b})
  <2>1. b \notin g2.fr
    BY <1>3 DEF Busy
  <2>2. \A d \in (Y \cup {b, c}) \cap g2.hs :
          \/ d \in (Y \ {b}) \cup {c} \/ d \in EndsOf(Areas(h2))
          \/ PrevFree(h2, Nx(g2, d)) <=> d \in g2.fr
    BY <1>3, <1>9, <2>1
  <2>3. \A d \in ((Z \ {b}) \cup {c}) \cap g2.hs : d \in Z \ {b} \/ Size(h2, d) = g2.sz[d]
    BY <1>9
  <2> QED
    BY <1>7, <2>2, <2>3, Fewer
<1>11. But(h, h2, {b, c})
  BY <1>4, <1>7 DEF But
<1>12. Keeps(h, g, h2, g2, Busy(g) \ {b})
  <2>1. Busy(g) \ {b} \subseteq Busy(g2)
    BY <1>3 DEF Busy
  <2> QED
    BY <1>6, <1>7, <2>1, KeepsTransitive
<1>13. Says(h2, b, h.mem[b].prev, size, IsFree(h, b), PrevFree(h, b))
  BY <1>2, <1>6, <1>7, SameHeader DEF Says
<1>14. h2 = Split(h, b, size)
  BY DEF h2, h1, c, rest, Split
<1> QED
  BY <1>6, <1>7, <1>9, <1>10, <1>11, <1>12, <1>13, <1>14 DEF g2, c, IsSplit

\* MERGE makes one block of two.
LEMMA MergeSound ==
  ASSUME NEW h, NEW g, NEW X, NEW Y, NEW Z, Sound(h, g, X, Y, Z),
         NEW b \in Busy(g), b \notin AtsOf(Areas(h)), b \notin EndsOf(Areas(h)),
         Nx(g, b) \in Busy(g), Nx(g, b) \notin EndsOf(Areas(h)),
         Size(h, b) = g.sz[b], Size(h, Nx(g, b)) = g.sz[Nx(g, b)]
  PROVE  IsMerged(h, g, Merge(h, b, Nx(g, b)), b, X, Y, Z)
<1> DEFINE n == Nx(g, b)
           size == Size(h, b) + Size(h, n) + 1
           h1 == SetSize(h, b, size)
           h2 == [h1 EXCEPT !.mem[n] = Zeros]
<1>1. Layout(Areas(h), g) /\ HeapType(h)
  BY DEF Sound
<1>2. /\ b \in g.hs /\ n \in g.hs /\ b \in 1 .. MemTop /\ n \in 1 .. MemTop /\ b # n
      /\ size \in Nat /\ size = g.sz[b] + g.sz[n] + 1
  <2>1. /\ b \in g.hs /\ n \in g.hs /\ g.sz[b] \in Nat /\ g.sz[n] \in Nat /\ b # n
    BY <1>1, Neighbours DEF Busy
  <2> QED
    BY <1>1, <2>1 DEF Layout, Ordered
<1>3. h2 = Merge(h, b, n)
  BY DEF Merge
<1> HIDE DEF n, size
<1>4. /\ But(h, h1, {b}) /\ h1.matrix = h.matrix
      /\ h1.mem[b].prev = h.mem[b].prev /\ Size(h1, b) = size
      /\ IsFree(h1, b) <=> IsFree(h, b)
      /\ PrevFree(h1, b) <=> PrevFree(h, b)
  <2>1. HeapType(h) /\ b \in 1 .. MemTop /\ size \in Nat
    BY <1>1, <1>2
  <2> QED
    BY <2>1, SetSizeDone
<1> HIDE DEF h1
<1>5. But(h, h2, {b, n}) /\ h2.matrix = h.matrix /\ h2.mem[b] = h1.mem[b]
  <2>1. HeapType(h1)
    BY <1>4 DEF But
  <2>2. HeapType(h2)
    BY <2>1 DEF HeapType, Cell, Zeros
  <2>3. h2.matrix = h1.matrix /\ h2.areas = h1.areas /\ h2.brk = h1.brk
    BY <2>1 DEF HeapType
  <2>4. \A a \in (1 .. MemTop) \ {n} : h2.mem[a] = h1.mem[a]
    BY <2>1 DEF HeapType
  <2> HIDE DEF h2
  <2> QED
    BY <1>2, <1>4, <2>2, <2>3, <2>4 DEF But
<1> HIDE DEF h2
<1>6. /\ Size(h2, b) = g.sz[b] + g.sz[n] + 1
      /\ IsFree(h2, b) <=> IsFree(h, b)
      /\ PrevFree(h2, b) <=> PrevFree(h, b)
      /\ h2.mem[b].prev = h.mem[b].prev
  BY <1>2, <1>4, <1>5, SameHeader
<1>7. /\ Sound(h2, Merged(g, b), X, Y \cup {b}, Z \ {b}) /\ Areas(h2) = Areas(h)
      /\ Keeps(h, g, h2, Merged(g, b), Busy(g) \ {b, n})
  BY <1>5, <1>6, HeadersJoined DEF n
<1>8. Merged(g, b).sz[b] = g.sz[b] + g.sz[n] + 1
  BY <1>1, MergedLayout DEF n
<1> QED
  BY <1>3, <1>5, <1>6, <1>7, <1>8 DEF n, IsMerged, Says

\* Block b with the free one that may be behind it.
Absorbed(g, b) == IF Nx(g, b) \in g.fr THEN Merged(Taken(g, Nx(g, b)), b) ELSE g

\* What becomes of block b.
Grown(g, g2, b) ==
  /\ b \in Busy(g2) /\ Busy(g2) = Busy(g) /\ g2.fr = g.fr \ {Nx(g, b)}
  /\ Nx(g2, b) \notin g2.fr /\ g2.sz[b] >= g.sz[b]
  /\ Nx(g, b) \in g.fr => g2.sz[b] > 0 /\ Nx(g2, b) = Nx(g, Nx(g, b))
  /\ (\A p \in g.fr : Nx(g, p) # b) => \A p \in g2.fr : Nx(g2, p) # b

\* The blocks stay in order when a free one behind b becomes part of b.
LEMMA AbsorbedLayout ==
  ASSUME NEW R, NEW g, Layout(R, g), NEW b \in Busy(g),
         b \notin AtsOf(R), b \notin EndsOf(R)
  PROVE  Grown(g, Absorbed(g, b), b) /\ Layout(R, Absorbed(g, b))
<1> DEFINE n == Nx(g, b)
           g1 == Taken(g, n)
           g2 == Merged(g1, b)
<1>1. /\ b \in g.hs /\ b \notin g.fr /\ n \in g.hs /\ g.sz[b] \in Nat /\ g.sz[n] \in Nat
      /\ n # b
  BY Neighbours DEF Busy
<1>2. CASE n \notin g.fr
  <2>1. Absorbed(g, b) = g
    BY <1>2 DEF Absorbed
  <2>2. g.fr = g.fr \ {n}
    BY <1>2
  <2> QED
    BY <1>1, <1>2, <2>1, <2>2 DEF Grown
<1>3. CASE n \in g.fr
  <2>1. /\ Layout(R, g1) /\ (\A c : Nx(g1, c) = Nx(g, c)) /\ Busy(g1) = Busy(g) \cup {n}
        /\ g1.hs = g.hs /\ g1.sz = g.sz /\ g1.fr = g.fr \ {n}
    BY <1>3, TakenLayout DEF Taken
  <2>2. n \notin EndsOf(R) /\ Nx(g, n) \notin g.fr
    BY <1>3, Neighbours DEF Busy
  <2> HIDE DEF g1
  <2>3. /\ Layout(R, g2) /\ Nx(g2, b) = Nx(g, n)
        /\ \A c \in g2.hs \ {b} : g2.sz[c] = g.sz[c] /\ Nx(g2, c) = Nx(g, c)
        /\ g2.hs = g.hs \ {n} /\ g2.fr = g1.fr /\ b \in g2.hs
        /\ g2.sz[b] = g.sz[b] + g.sz[n] + 1
    <3>1. /\ Nx(g1, b) = n /\ n \in Busy(g1) /\ b \in Busy(g1) /\ Nx(g1, n) = Nx(g, n)
      BY <2>1
    <3> QED
      BY <2>1, <2>2, <3>1, MergedLayout
  <2> HIDE DEF g2
  <2>4. Busy(g2) = Busy(g) /\ b \in Busy(g2)
    BY <1>1, <1>3, <2>1, <2>3 DEF Busy
  <2>5. ASSUME NEW p \in g2.fr, \A q \in g.fr : Nx(g, q) # b
        PROVE  Nx(g2, p) # b
    <3>1. p \in g.fr /\ p # b /\ p # n /\ p \in g.hs
      BY <1>1, <2>1, <2>3, <2>5, Neighbours
    <3> QED
      BY <2>3, <2>5, <3>1
  <2>6. g2.sz[b] >= g.sz[b] /\ g2.sz[b] > 0
    BY <1>1, <2>3
  <2>7. Absorbed(g, b) = g2
    BY <1>3 DEF Absorbed, g1, g2
  <2> QED
    BY <2>1, <2>2, <2>3, <2>4, <2>5, <2>6, <2>7 DEF Grown
<1> QED
  BY <1>2, <1>3

\* What MergeNext leaves.
NextIn(h, g, h2, b, X, Y, Z) ==
  LET g2 == Absorbed(g, b)
  IN  /\ Sound(h2, g2, X, Y \cup {b}, Z)
      /\ Areas(h2) = Areas(h) /\ h2.brk = h.brk
      /\ Keeps(h, g, h2, g2, Busy(g) \ {b})
      /\ h2.mem[b].prev = h.mem[b].prev
      /\ IsFree(h2, b) <=> IsFree(h, b)
      /\ PrevFree(h2, b) <=> PrevFree(h, b)
      /\ Nx(g, b) \in g.fr \ Y => PrevFree(h2, Nx(g2, b))
      /\ Nx(g, b) \notin g.fr => h2 = h

\* MERGE_NEXT takes in the block behind when it is free, else changes nothing.
LEMMA MergeNextSound ==
  ASSUME NEW h, NEW g, NEW X, NEW Y, NEW Z, Sound(h, g, X, Y, Z),
         NEW b \in Busy(g), b \notin AtsOf(Areas(h)), b \notin EndsOf(Areas(h)), b \notin Z,
         Nx(g, b) \notin X, Nx(g, b) \notin Z
  PROVE  NextIn(h, g, MergeNext(h, b), b, X, Y, Z)
<1> DEFINE n == Nx(g, b)
           R == Areas(h)
<1>1. Layout(R, g) /\ b \in g.hs /\ n \in g.hs /\ b \notin g.fr
  <2>1. Layout(R, g) /\ b \in g.hs /\ b \notin g.fr
    BY DEF Sound, Busy
  <2> QED
    BY <2>1, Neighbours
<1>2. Size(h, b) = g.sz[b] /\ Size(h, n) = g.sz[n] /\ (IsFree(h, n) <=> n \in g.fr)
  BY <1>1 DEF Sound, Tags
<1>3. Behind(h, b) = n
  BY <1>2 DEF Behind, Nx
<1>4. CASE n \notin g.fr
  <2>1. MergeNext(h, b) = h /\ Absorbed(g, b) = g
    BY <1>2, <1>3, <1>4 DEF MergeNext, Absorbed
  <2>2. Sound(h, g, X, Y \cup {b}, Z)
    BY Fewer
  <2>3. Keeps(h, g, h, g, Busy(g) \ {b})
    BY DEF Keeps
  <2> QED
    BY <1>4, <2>1, <2>2, <2>3 DEF NextIn
<1>5. CASE n \in g.fr
  <2> DEFINE g1 == Taken(g, n)
             g2 == Merged(g1, b)
             h1 == RemoveHeader(h, n, MappingInsert(g.sz[n]))
             h2 == Merge(h1, b, n)
  <2>1. MergeNext(h, b) = h2 /\ Absorbed(g, b) = g2
    BY <1>2, <1>3, <1>5 DEF MergeNext, Absorbed
  <2>2. Removed(h, g, h1, n, X, Y, Z)
    BY <1>5, RemoveSound
  <2>3. /\ (\A c : Nx(g1, c) = Nx(g, c)) /\ Busy(g1) = Busy(g) \cup {n}
        /\ g1.hs = g.hs /\ g1.sz = g.sz /\ g1.fr = g.fr \ {n}
    BY <1>1, <1>5, TakenLayout DEF Taken
  <2>4. n \notin EndsOf(R) /\ Nx(g, n) \in g.hs /\ n # b /\ Nx(g, n) # n /\ Nx(g, n) # b
    BY <1>1, <1>5, Neighbours DEF Busy
  <2> HIDE DEF g1, h1
  <2>5. /\ Sound(h1, g1, X \cup {n}, Y \cup {n}, Z) /\ Areas(h1) = R /\ h1.brk = h.brk
        /\ Keeps(h, g, h1, g1, Busy(g)) /\ \A d \in g.hs : h1.mem[d] = h.mem[d]
    BY <2>2 DEF Removed, g1
  <2>6. \A d \in g.hs : /\ Size(h1, d) = Size(h, d) /\ h1.mem[d].prev = h.mem[d].prev
                        /\ IsFree(h1, d) <=> IsFree(h, d)
                        /\ PrevFree(h1, d) <=> PrevFree(h, d)
    BY <2>5, SameHeader
  <2>7. IsMerged(h1, g1, h2, b, X \cup {n}, Y \cup {n}, Z)
    <3>1. Nx(g1, b) = n /\ n \in Busy(g1) /\ b \in Busy(g1)
      BY <2>3
    <3>2. Size(h1, b) = g1.sz[b] /\ Size(h1, n) = g1.sz[n]
      BY <1>1, <1>2, <2>3, <2>6
    <3> QED
      BY <2>4, <2>5, <3>1, <3>2, MergeSound
  <2> HIDE DEF h2, g2
  <2>8. /\ Sound(h2, g2, X \cup {n}, (Y \cup {n}) \cup {b}, Z \ {b})
        /\ But(h1, h2, {b, n}) /\ Areas(h2) = R
        /\ Keeps(h1, g1, h2, g2, Busy(g1) \ {b, n})
        /\ Says(h2, b, h1.mem[b].prev, g2.sz[b], IsFree(h1, b), PrevFree(h1, b))
    BY <2>3, <2>5, <2>7 DEF IsMerged, g2
  <2>9. n \notin g2.hs
    BY <2>3 DEF g2, Merged
  <2>10. Sound(h2, g2, X, Y \cup {b}, Z)
    <3>1. \A d \in (X \cup {n}) \cap g2.hs : d \in X
      BY <2>9
    <3>2. \A d \in ((Y \cup {n}) \cup {b}) \cap g2.hs : d \in Y \cup {b}
      BY <2>9
    <3>3. \A d \in (Z \ {b}) \cap g2.hs : d \in Z
      OBVIOUS
    <3> QED
      BY <2>8, <3>1, <3>2, <3>3, Fewer
  <2>11. Keeps(h, g, h2, g2, Busy(g) \ {b})
    <3>1. Keeps(h, g, h1, g1, Busy(g) \ {b})
      BY <2>5, KeepsFewer
    <3>2. Busy(g) \ {b} \subseteq Busy(g1) \ {b, n}
      BY <1>5, <2>3 DEF Busy
    <3> QED
      BY <2>8, <3>1, <3>2, KeepsTransitive
  <2>12. ASSUME n \notin Y
         PROVE  PrevFree(h2, Nx(g2, b))
    <3>1. Nx(g2, b) = Nx(g, n)
      BY <1>1, <1>5, <2>1, AbsorbedLayout DEF Grown
    <3>2. PrevFree(h, Nx(g, n))
      BY <1>1, <1>5, <2>4, <2>12 DEF Sound, Tags
    <3>3. h2.mem[Nx(g, n)] = h1.mem[Nx(g, n)]
      BY <1>1, <2>4, <2>8 DEF But, Layout, Ordered
    <3> QED
      BY <2>4, <2>6, <3>1, <3>2, <3>3, SameHeader
  <2>13. h2.brk = h.brk
    BY <2>5, <2>8 DEF But
  <2>14. /\ h2.mem[b].prev = h.mem[b].prev
         /\ IsFree(h2, b) <=> IsFree(h, b)
         /\ PrevFree(h2, b) <=> PrevFree(h, b)
    BY <1>1, <2>6, <2>8 DEF Says
  <2> QED
    BY <1>5, <2>1, <2>8, <2>10, <2>11, <2>12, <2>13, <2>14 DEF NextIn
<1> QED
  BY <1>4, <1>5

-----------------------------------------------------------------------------
(* tlsf_freevec *)

\* What MergePrev leaves of block b: q, at the end of a busy block or itself.
PrevIn(h, g, b, h2, g2, q) ==
  /\ Sound(h2, g2, {q}, {q}, {})
  /\ Areas(h2) = Areas(h) /\ h2.brk = h.brk
  /\ q \in Busy(g2) /\ q \notin AtsOf(Areas(h)) /\ q \notin EndsOf(Areas(h))
  /\ Busy(g2) \ {q} = Busy(g) \ {b}
  /\ g2.sz[q] > 0 /\ IsFree(h2, q)
  /\ \A p \in g2.fr : Nx(g2, p) # q
  /\ Keeps(h, g, h2, g2, Busy(g) \ {b})

\* MERGE_PREV finds the free block before by the flag and prev of the header.
LEMMA MergePrevSound ==
  ASSUME NEW h, NEW g, NEW b \in Busy(g), Sound(h, g, {b}, {}, {}),
         b \notin AtsOf(Areas(h)), b \notin EndsOf(Areas(h)), g.sz[b] > 0, IsFree(h, b)
  PROVE  LET m == MergePrev(h, b)
         IN  \E g2 : PrevIn(h, g, b, m.heap, g2, m.block)
<1> DEFINE R == Areas(h)
           m == MergePrev(h, b)
<1>1. Layout(R, g) /\ b \in g.hs /\ b \notin g.fr /\ g.sz[b] \in Nat
  <2>1. Layout(R, g) /\ b \in g.hs /\ b \notin g.fr
    BY DEF Sound, Busy
  <2> QED
    BY <2>1, Neighbours
<1>2. PICK p0 \in g.hs \ EndsOf(R) : Nx(g, p0) = b
  BY <1>1 DEF Layout, Joined
<1>3. PrevFree(h, b) <=> p0 \in g.fr
  BY <1>2 DEF Sound, Tags
<1>4. \A p \in g.fr : Nx(g, p) = b => p = p0
  BY <1>1, <1>2, Neighbours
<1>5. CASE p0 \notin g.fr
  <2>1. m.heap = h /\ m.block = b
    BY <1>3, <1>5 DEF MergePrev
  <2>2. Sound(h, g, {b}, {b}, {})
    BY Fewer
  <2>3. Keeps(h, g, h, g, Busy(g) \ {b})
    BY DEF Keeps
  <2>4. PrevIn(h, g, b, h, g, b)
    BY <1>4, <1>5, <2>2, <2>3 DEF PrevIn
  <2> QED
    BY <2>1, <2>4
<1>6. CASE p0 \in g.fr
  <2> DEFINE g1 == Taken(g, p0)
             g2 == Merged(g1, p0)
             h1 == RemoveHeader(h, p0, MappingInsert(g.sz[p0]))
             h2 == Merge(h1, p0, b)
  <2>1. p0 \notin AtsOf(R) /\ p0 \notin EndsOf(R) /\ p0 # b /\ g.sz[p0] \in Nat
        /\ \A p \in g.fr : Nx(g, p) # p0
    BY <1>1, <1>2, <1>6, Neighbours DEF Layout, Apart
  <2>2. Size(h, p0) = g.sz[p0] /\ (IsFree(h, p0) <=> p0 \in g.fr) /\ h.mem[b].prev = p0
        /\ Size(h, b) = g.sz[b]
    BY <1>1, <1>2, <1>6, <2>1 DEF Sound, Tags
  <2>3. m.heap = h2 /\ m.block = p0
    BY <1>3, <1>6, <2>2 DEF MergePrev
  <2>4. Removed(h, g, h1, p0, {b}, {}, {})
    BY <1>6, RemoveSound
  <2>5. /\ Layout(R, g1) /\ (\A c : Nx(g1, c) = Nx(g, c)) /\ Busy(g1) = Busy(g) \cup {p0}
        /\ g1.hs = g.hs /\ g1.sz = g.sz /\ g1.fr = g.fr \ {p0}
    <3>1. g1.hs = g.hs /\ g1.sz = g.sz /\ g1.fr = g.fr \ {p0}
      BY DEF Taken
    <3> QED
      BY <1>1, <1>6, <3>1, TakenLayout
  <2> HIDE DEF g1, h1, m
  <2>6. /\ Sound(h1, g1, {b} \cup {p0}, {} \cup {p0}, {}) /\ Areas(h1) = R /\ h1.brk = h.brk
        /\ Keeps(h, g, h1, g1, Busy(g)) /\ \A d \in g.hs : h1.mem[d] = h.mem[d]
    BY <2>4 DEF Removed, g1
  <2>7. /\ Nx(g1, p0) = b /\ b \in Busy(g1) /\ p0 \in Busy(g1)
        /\ Size(h1, p0) = g1.sz[p0] /\ Size(h1, b) = g1.sz[b]
        /\ IsFree(h1, p0)
    BY <1>1, <1>2, <1>6, <2>2, <2>5, <2>6, SameHeader
  <2>8. IsMerged(h1, g1, h2, p0, {b} \cup {p0}, {} \cup {p0}, {})
    <3>1. /\ p0 \notin AtsOf(Areas(h1)) /\ p0 \notin EndsOf(Areas(h1))
          /\ Nx(g1, p0) \in Busy(g1) /\ Nx(g1, p0) \notin EndsOf(Areas(h1))
          /\ Size(h1, Nx(g1, p0)) = g1.sz[Nx(g1, p0)]
      BY <2>1, <2>6, <2>7
    <3>2. IsMerged(h1, g1, Merge(h1, p0, Nx(g1, p0)), p0, {b} \cup {p0}, {} \cup {p0}, {})
      BY <2>6, <2>7, <3>1, MergeSound
    <3> QED
      BY <2>7, <3>2
  <2> HIDE DEF h2
  <2>9. /\ Sound(h2, g2, {b} \cup {p0}, ({} \cup {p0}) \cup {p0}, {} \ {p0})
        /\ But(h1, h2, {p0, b}) /\ Areas(h2) = R
        /\ Keeps(h1, g1, h2, g2, Busy(g1) \ {p0, b})
        /\ IsFree(h2, p0) <=> IsFree(h1, p0)
    BY <2>6, <2>7, <2>8 DEF IsMerged, Says
  <2>10. /\ \A c \in g2.hs \ {p0} : Nx(g2, c) = Nx(g, c)
         /\ g2.hs = g.hs \ {b} /\ g2.fr = g.fr \ {p0} /\ p0 \in g2.hs
         /\ g2.sz[p0] = g.sz[p0] + g.sz[b] + 1
    BY <2>1, <2>5, <2>7, MergedLayout
  <2> HIDE DEF g2
  <2>11. Sound(h2, g2, {p0}, {p0}, {})
    <3>1. \A d \in ({b} \cup {p0}) \cap g2.hs : d \in {p0}
      BY <2>10
    <3>2. \A d \in (({} \cup {p0}) \cup {p0}) \cap g2.hs : d \in {p0}
      OBVIOUS
    <3>3. \A d \in ({} \ {p0}) \cap g2.hs : d \in {}
      OBVIOUS
    <3> QED
      BY <2>9, <3>1, <3>2, <3>3, Fewer
  <2>12. Keeps(h, g, h2, g2, Busy(g) \ {b})
    <3>1. Keeps(h, g, h1, g1, Busy(g) \ {b})
      BY <2>6, KeepsFewer
    <3>2. Busy(g) \ {b} \subseteq Busy(g1) \ {p0, b}
      BY <1>6, <2>5 DEF Busy
    <3> QED
      BY <2>9, <3>1, <3>2, KeepsTransitive
  <2>13. ASSUME NEW p \in g2.fr
         PROVE  Nx(g2, p) # p0
    <3>1. p \in g.fr /\ p # p0 /\ p \in g2.hs
      BY <1>1, <2>10 DEF Layout, Ordered
    <3> QED
      BY <2>1, <2>10, <3>1
  <2>14. p0 \in Busy(g2) /\ Busy(g2) \ {p0} = Busy(g) \ {b} /\ g2.sz[p0] > 0
    BY <1>1, <1>6, <2>1, <2>10 DEF Busy
  <2>15. h2.brk = h.brk
    BY <2>6, <2>9 DEF But
  <2>16. PrevIn(h, g, b, h2, g2, p0)
    BY <2>1, <2>7, <2>9, <2>11, <2>12, <2>13, <2>14, <2>15 DEF PrevIn
  <2> QED
    BY <2>3, <2>16 DEF m
<1> QED
  BY <1>5, <1>6

\* What a call leaves whole; the blocks of C are as they were.
Served(h, g, h2, g2, C) ==
  Whole(h2, g2) /\ Areas(h2) = Areas(h) /\ h2.brk = h.brk /\ Keeps(h, g, h2, g2, C)

\* tlsf_freevec frees the block and leaves all other busy blocks alone.
LEMMA FreeVecSound ==
  ASSUME NEW h, NEW g, Whole(h, g), NEW b \in Busy(g),
         b \notin AtsOf(Areas(h)), b \notin EndsOf(Areas(h)), g.sz[b] > 0
  PROVE  \E g2 : /\ Served(h, g, FreeVec(h, b), g2, Busy(g) \ {b})
                 /\ Busy(g2) = Busy(g) \ {b}
<1> DEFINE R == Areas(h)
           h0 == SetFree(h, b, TRUE)
           m  == MergePrev(h0, b)
           q  == m.block
           h2 == MergeNext(m.heap, q)
           h3 == Release(h2, q)
<1>1. After(h, g, h0, b, {b}, {}, {}) /\ IsFree(h0, b)
  <2> DEFINE N == {}
             B == {b}
  <2>1. b \in g.hs /\ TRUE \in BOOLEAN /\ N \subseteq B \cup {b} /\ b \in B
    BY DEF Busy
  <2>2. Sound(h, g, N, N, N)
    BY DEF Whole
  <2> HIDE DEF N, B
  <2>3. /\ After(h, g, h0, b, B, N, N)
        /\ Says(h0, b, h.mem[b].prev, Size(h, b), TRUE, PrevFree(h, b))
    BY <2>1, <2>2, SetFreeSound
  <2> QED
    BY <2>3 DEF Says, B, N
<1> HIDE DEF h0
<1>2. PICK g1 : PrevIn(h0, g, b, m.heap, g1, q)
  <2>1. Sound(h0, g, {b}, {}, {}) /\ Areas(h0) = R
    BY <1>1 DEF After
  <2> QED
    BY <1>1, <2>1, MergePrevSound
<1> HIDE DEF m, q
<1>3. /\ Sound(m.heap, g1, {q}, {q}, {}) /\ Areas(m.heap) = R /\ m.heap.brk = h.brk
      /\ q \in Busy(g1) /\ q \notin AtsOf(R) /\ q \notin EndsOf(R)
      /\ Busy(g1) \ {q} = Busy(g) \ {b} /\ g1.sz[q] > 0 /\ IsFree(m.heap, q)
      /\ \A p \in g1.fr : Nx(g1, p) # q
      /\ Keeps(h0, g, m.heap, g1, Busy(g) \ {b})
  BY <1>1, <1>2 DEF PrevIn, After, But
<1> DEFINE g2 == Absorbed(g1, q)
           g3 == Freed(g2, q)
<1>4. NextIn(m.heap, g1, h2, q, {q}, {q}, {})
  <2>1. Nx(g1, q) \notin {q} /\ Nx(g1, q) \notin {} /\ q \notin {}
    BY <1>3, Neighbours DEF Sound, Busy
  <2> QED
    BY <1>3, <2>1, MergeNextSound
<1> HIDE DEF h2
<1>5. Grown(g1, g2, q)
  BY <1>3, AbsorbedLayout DEF Sound
<1>6. /\ Sound(h2, g2, {q}, {q} \cup {q}, {}) /\ Areas(h2) = R /\ h2.brk = h.brk
      /\ Keeps(m.heap, g1, h2, g2, Busy(g1) \ {q}) /\ IsFree(h2, q)
  BY <1>3, <1>4 DEF NextIn
<1> HIDE DEF g2
<1>7. g2.sz[q] > 0
  <2>1. g1.sz[q] \in Nat /\ g2.sz[q] \in Nat
    BY <1>3, <1>5, <1>6, Neighbours DEF Sound, Busy, Grown
  <2> QED
    BY <1>3, <1>5, <2>1 DEF Grown
<1>8. Inserted(h2, g2, h3, q, {q}, {q} \cup {q}, {})
  <2>1. /\ q \in Busy(g2) /\ Nx(g2, q) \notin g2.fr /\ q \notin {}
        /\ \A p \in g2.fr : Nx(g2, p) # q
    BY <1>3, <1>5 DEF Grown
  <2> QED
    BY <1>3, <1>6, <1>7, <2>1, ReleaseSound
<1> HIDE DEF h3
<1>9. /\ Whole(h3, g3) /\ Areas(h3) = R /\ h3.brk = h.brk
      /\ Keeps(h2, g2, h3, g3, Busy(g2) \ {q})
  <2>1. {q} \ {q} = {} /\ ({q} \cup {q}) \ {q} = {}
    OBVIOUS
  <2> QED
    BY <1>6, <1>8, <2>1 DEF Inserted, Whole
<1>10. Busy(g3) = Busy(g) \ {b}
  <2>1. Busy(g2) \ {q} = Busy(g) \ {b}
    BY <1>3, <1>5 DEF Grown
  <2> QED
    BY <2>1 DEF g3, Freed, Busy
<1> HIDE DEF g3
<1>11. Keeps(h, g, h3, g3, Busy(g) \ {b})
  <2>1. Keeps(h, g, h0, g, Busy(g) \ {b})
    BY <1>1, KeepsFewer DEF After
  <2>2. Keeps(h, g, m.heap, g1, Busy(g) \ {b})
    BY <1>3, <2>1, KeepsTransitive
  <2>3. Keeps(h, g, h2, g2, Busy(g) \ {b})
    BY <1>3, <1>6, <2>2, KeepsTransitive
  <2>4. Busy(g) \ {b} \subseteq Busy(g2) \ {q}
    BY <1>3, <1>5 DEF Grown
  <2> QED
    BY <1>9, <2>3, <2>4, KeepsTransitive
<1>12. FreeVec(h, b) = h3
  BY DEF FreeVec, h0, m, q, h2, h3
<1> QED
  BY <1>9, <1>10, <1>11, <1>12 DEF Served

-----------------------------------------------------------------------------
(* New areas *)

\* The blocks that callers may have.
Used(h, g) == Busy(g) \ (AtsOf(Areas(h)) \cup EndsOf(Areas(h)))

\* The blocks of a new area at a, above all others.
Widened(g, a, size) ==
  [hs |-> g.hs \cup {a, a + 2, a + size - 1},
   sz |-> [c \in g.hs \cup {a, a + 2, a + size - 1} |->
             IF c = a THEN 1 ELSE IF c = a + 2 THEN size - 4
             ELSE IF c = a + size - 1 THEN 0 ELSE g.sz[c]],
   fr |-> g.fr]

IsWidened(R, g, a, size) ==
  LET g2 == Widened(g, a, size)
      e  == a + size - 1
      R2 == R \cup {[at |-> a, end |-> e]}
  IN  /\ Layout(R2, g2)
      /\ AtsOf(R2) = AtsOf(R) \cup {a} /\ EndsOf(R2) = EndsOf(R) \cup {e}
      /\ \A c \in g.hs : /\ c < a /\ c + g.sz[c] < a
                         /\ g2.sz[c] = g.sz[c] /\ Nx(g2, c) = Nx(g, c)
      /\ g2.hs = g.hs \cup {a, a + 2, e} /\ g2.fr = g.fr
      /\ g2.sz[a] = 1 /\ g2.sz[a + 2] = size - 4 /\ g2.sz[e] = 0
      /\ Nx(g2, a) = a + 2 /\ Nx(g2, a + 2) = e

\* A new area above all others adds its three blocks.
LEMMA WidenedLayout ==
  ASSUME NEW R, NEW g, Layout(R, g), NEW a \in Nat \ {0}, NEW size \in Nat, size > 4,
         a + size - 1 <= MemTop, \A r \in R : r.end < a,
         \A r \in R : r.end \in Nat
  PROVE  IsWidened(R, g, a, size)
<1> DEFINE m  == a + 2
           e  == a + size - 1
           r  == [at |-> a, end |-> e]
           R2 == R \cup {r}
           g2 == Widened(g, a, size)
<1>1. a \in Nat /\ m \in Nat /\ e \in Nat /\ m = a + 2 /\ e = a + size - 1
      /\ a < m /\ m < e /\ e <= MemTop /\ a > 0
  OBVIOUS
<1>2. \A c \in g.hs : c \in Nat /\ g.sz[c] \in Nat /\ c < a /\ c + g.sz[c] < a
  <2> SUFFICES ASSUME NEW c \in g.hs
               PROVE  c \in Nat /\ g.sz[c] \in Nat /\ c < a /\ c + g.sz[c] < a
    OBVIOUS
  <2>1. c \in Nat /\ g.sz[c] \in Nat
    BY Neighbours
  <2>2. PICK q \in R : q.at <= c /\ c <= q.end
    BY DEF Layout, Bounded
  <2>3. q.end \in g.hs /\ g.sz[q.end] = 0 /\ q.end \in Nat /\ q.end < a
    BY DEF Layout, Bounded, Busy
  <2>4. CASE c = q.end
    BY <2>1, <2>3, <2>4
  <2>5. CASE c < q.end
    <3>1. c + g.sz[c] < q.end
      BY <2>3, <2>5 DEF Layout, Ordered
    <3> QED
      BY <2>1, <2>3, <2>5, <3>1
  <2> QED
    BY <2>1, <2>2, <2>3, <2>4, <2>5
<1>3. a \notin g.hs /\ m \notin g.hs /\ e \notin g.hs
  BY <1>1, <1>2
<1>4. r.at = a /\ r.end = e
  OBVIOUS
<1>5. AtsOf(R2) = AtsOf(R) \cup {a} /\ EndsOf(R2) = EndsOf(R) \cup {e}
  BY <1>4 DEF AtsOf, EndsOf
<1>6. g2.hs = g.hs \cup {a, m, e} /\ g2.fr = g.fr
  BY DEF Widened
<1>7. g2.sz[a] = 1 /\ g2.sz[m] = size - 4 /\ g2.sz[e] = 0
  BY <1>1 DEF Widened
<1>8. \A c \in g.hs : g2.sz[c] = g.sz[c]
  BY <1>3 DEF Widened
<1>9. g2.sz \in [g2.hs -> Nat]
  <2>1. \A c \in g2.hs : g2.sz[c] \in Nat
    BY <1>2, <1>6, <1>7, <1>8
  <2>2. g2.sz = [c \in g2.hs |-> g2.sz[c]]
    BY DEF Widened
  <2> QED
    BY <2>1, <2>2
<1> HIDE DEF g2, r
<1>10. Nx(g2, a) = m /\ Nx(g2, m) = e /\ \A c \in g.hs : Nx(g2, c) = Nx(g, c)
  BY <1>1, <1>7, <1>8 DEF Nx
<1> HIDE DEF m, e
<1>11. Busy(g2) = Busy(g) \cup {a, m, e}
  BY <1>3, <1>6 DEF Busy, Layout, Ordered
<1>12. Ordered(g2)
  <2>1. g2.hs \subseteq 1 .. MemTop
    BY <1>1, <1>6, TlsfAssumption DEF Layout, Ordered
  <2>2. g2.fr \subseteq g2.hs
    BY <1>6 DEF Layout, Ordered
  <2>3. ASSUME NEW b \in g2.hs, NEW c \in g2.hs, b < c
        PROVE  b + g2.sz[b] < c
    <3>1. CASE b \in g.hs /\ c \in g.hs
      BY <1>8, <2>3, <3>1 DEF Layout, Ordered
    <3>2. CASE b \in g.hs /\ c \in {a, m, e}
      BY <1>1, <1>2, <1>8, <3>2
    <3>3. CASE b \in {a, m, e} /\ c \in g.hs
      BY <1>1, <1>2, <2>3, <3>3
    <3>4. CASE b \in {a, m, e} /\ c \in {a, m, e}
      BY <1>1, <1>7, <2>3, <3>4
    <3> QED
      BY <1>6, <3>1, <3>2, <3>3, <3>4
  <2> QED
    BY <1>9, <2>1, <2>2, <2>3 DEF Ordered
<1>13. \A q \in R : q.at \in g.hs /\ q.end \in g.hs
  BY DEF Layout, Bounded, Busy
<1>14. /\ \A b \in AtsOf(R) \cup EndsOf(R) : b \in g.hs
       /\ a \notin EndsOf(R2) /\ m \notin EndsOf(R2) /\ m \notin AtsOf(R2) /\ e \notin AtsOf(R2)
  <2>1. \A b \in AtsOf(R) \cup EndsOf(R) : b \in g.hs
    BY <1>13 DEF AtsOf, EndsOf
  <2>2. /\ a \notin EndsOf(R) /\ m \notin EndsOf(R) /\ m \notin AtsOf(R) /\ e \notin AtsOf(R)
    BY <1>3, <2>1
  <2>3. a # e /\ m # e /\ m # a
    BY <1>1
  <2> HIDE DEF R2
  <2> QED
    BY <1>5, <2>1, <2>2, <2>3
<1>15. Joined(R2, g2)
  <2>1. ASSUME NEW b \in g2.hs \ EndsOf(R2)
        PROVE  Nx(g2, b) \in g2.hs \ AtsOf(R2)
    <3>1. CASE b \in g.hs
      <4>1. Nx(g, b) \in g.hs \ AtsOf(R)
        BY <1>5, <2>1, <3>1, Neighbours
      <4> QED
        BY <1>3, <1>5, <1>6, <1>10, <3>1, <4>1
    <3>2. CASE b \in {a, m}
      BY <1>6, <1>10, <1>14, <3>2
    <3> QED
      BY <1>5, <1>6, <2>1, <3>1, <3>2
  <2>2. ASSUME NEW b \in g2.hs \ AtsOf(R2)
        PROVE  \E p \in g2.hs \ EndsOf(R2) : Nx(g2, p) = b
    <3>1. CASE b \in g.hs
      <4>1. PICK p \in g.hs \ EndsOf(R) : Nx(g, p) = b
        BY <1>5, <2>2, <3>1 DEF Layout, Joined
      <4>2. p \in g2.hs \ EndsOf(R2) /\ Nx(g2, p) = b
        BY <1>3, <1>5, <1>6, <1>10, <4>1
      <4> QED
        BY <4>2
    <3>2. CASE b = m
      BY <1>6, <1>10, <1>14, <3>2
    <3>3. CASE b = e
      BY <1>6, <1>10, <1>14, <3>3
    <3> QED
      BY <1>5, <1>6, <2>2, <3>1, <3>2, <3>3
  <2> QED
    BY <2>1, <2>2 DEF Joined
<1>16. Bounded(R2, g2)
  <2>1. ASSUME NEW q \in R2
        PROVE  /\ q.at \in Busy(g2) /\ g2.sz[q.at] = 1
               /\ q.end \in Busy(g2) /\ g2.sz[q.end] = 0
               /\ q.at < q.end
    <3>1. CASE q = r
      BY <1>1, <1>4, <1>7, <1>11, <3>1
    <3>2. CASE q \in R
      <4>1. /\ q.at \in Busy(g) /\ g.sz[q.at] = 1
            /\ q.end \in Busy(g) /\ g.sz[q.end] = 0
            /\ q.at < q.end
        BY <3>2 DEF Layout, Bounded
      <4> QED
        BY <1>8, <1>11, <1>13, <3>2, <4>1
    <3> QED
      BY <3>1, <3>2
  <2>2. ASSUME NEW b \in g2.hs
        PROVE  \E q \in R2 : q.at <= b /\ b <= q.end
    <3>1. CASE b \in g.hs
      BY <3>1 DEF Layout, Bounded
    <3>2. CASE b \in {a, m, e}
      <4>1. r.at <= b /\ b <= r.end /\ r \in R2
        BY <1>1, <1>4, <3>2
      <4> QED
        BY <4>1
    <3> QED
      BY <1>6, <3>1, <3>2
  <2>3. ASSUME NEW p \in R2, NEW q \in R2
        PROVE  p = q \/ p.end < q.at \/ q.end < p.at
    <3>1. CASE p \in R /\ q \in R
      BY <3>1 DEF Layout, Bounded
    <3>2. CASE p = r \/ q = r
      BY <1>4, <3>2
    <3> QED
      BY <3>1, <3>2
  <2> QED
    BY <2>1, <2>2, <2>3 DEF Bounded
<1>17. Apart(g2)
  <2>1. \A b \in g.fr : b \in g.hs
    BY DEF Layout, Ordered
  <2> QED
    BY <1>6, <1>8, <1>10, <2>1 DEF Layout, Apart
<1>18. Layout(R2, g2)
  BY <1>12, <1>15, <1>16, <1>17 DEF Layout
<1> QED
  BY <1>2, <1>5, <1>6, <1>7, <1>8, <1>10, <1>18 DEF g2, r, m, e, IsWidened

\* tlsf_add_memory of a new area leaves the callers' blocks alone.
LEMMA AddMemorySound ==
  ASSUME NEW h, NEW g, Whole(h, g), NEW a \in Nat \ {0}, NEW size \in Nat,
         \A r \in Areas(h) : r.end < a, a + size - 1 <= MemTop, a + size - 1 < h.brk
  PROVE  \E g2 : LET h2 == AddMemory(h, a, size)
                 IN  /\ Whole(h2, g2) /\ h2.brk = h.brk
                     /\ Used(h2, g2) = Used(h, g)
                     /\ Keeps(h, g, h2, g2, Busy(g))
<1> DEFINE R == Areas(h)
           m  == a + 2
           e  == a + size - 1
           r  == [at |-> a, end |-> e]
           R2 == R \cup {r}
           g1 == Widened(g, a, size)
           h1 == Header(h, a, 0, 1, 0)
           h2 == Header(h1, m, a, size - HEADERS_SIZE, 0)
           h3 == Header(h2, e, m, 0, 0)
           h4 == [h3 EXCEPT !.areas = <<r>> \o @]
<1>1. HeapType(h) /\ Layout(R, g) /\ Tags(h, g, {}, {}, {}) /\ Chains(h, g) /\ Below(h)
  BY DEF Whole, Sound
<1>2. \A q \in R : q.end \in Nat
  BY <1>1, Neighbours DEF Layout, Bounded, Busy
<1>3. CASE size <= HEADERS_SIZE
  <2>1. AddMemory(h, a, size) = h
    BY <1>3 DEF AddMemory
  <2>2. Keeps(h, g, h, g, Busy(g))
    BY DEF Keeps
  <2> QED
    BY <2>1, <2>2
<1>4. CASE size > HEADERS_SIZE
  <2>1. size > 4 /\ size - HEADERS_SIZE \in Nat /\ size - HEADERS_SIZE = size - 4
    BY <1>4 DEF HEADERS_SIZE
  <2>2. /\ Layout(R2, g1)
        /\ AtsOf(R2) = AtsOf(R) \cup {a} /\ EndsOf(R2) = EndsOf(R) \cup {e}
        /\ \A c \in g.hs : /\ c < a /\ c + g.sz[c] < a
                           /\ g1.sz[c] = g.sz[c] /\ Nx(g1, c) = Nx(g, c)
        /\ g1.hs = g.hs \cup {a, m, e} /\ g1.fr = g.fr
        /\ g1.sz[a] = 1 /\ g1.sz[m] = size - 4 /\ g1.sz[e] = 0
        /\ Nx(g1, a) = m /\ Nx(g1, m) = e
    <3>1. IsWidened(R, g, a, size)
      BY <1>1, <1>2, <2>1, WidenedLayout
    <3> QED
      BY <3>1 DEF IsWidened
  <2>3. /\ a \in 1 .. MemTop /\ m \in 1 .. MemTop /\ e \in 1 .. MemTop
        /\ a < m /\ m < e
    BY <2>1, TlsfAssumption
  <2> HIDE DEF g1
  <2>4. /\ But(h, h1, {a}) /\ h1.matrix = h.matrix /\ Says(h1, a, 0, 1, FALSE, FALSE)
    <3>1. 0 \in 0 .. 3 /\ HeapType(h) /\ a \in 1 .. MemTop /\ 0 \in Nat /\ 1 \in Nat
      BY <1>1, <2>3
    <3>2. But(h, h1, {a}) /\ h1.matrix = h.matrix /\ Says(h1, a, 0, 1, 0 % 2 = 1, 0 >= 2)
      BY <3>1, HeaderDone
    <3> QED
      BY <3>2 DEF Says
  <2> HIDE DEF h1
  <2>5. /\ But(h1, h2, {m}) /\ h2.matrix = h1.matrix /\ Says(h2, m, a, size - 4, FALSE, FALSE)
    <3> DEFINE k == size - HEADERS_SIZE
    <3>1. 0 \in 0 .. 3 /\ HeapType(h1) /\ m \in 1 .. MemTop /\ a \in Nat /\ k \in Nat
      BY <2>1, <2>3, <2>4 DEF But
    <3>2. But(h1, h2, {m}) /\ h2.matrix = h1.matrix /\ Says(h2, m, a, k, 0 % 2 = 1, 0 >= 2)
      <4> HIDE DEF k, m
      <4> QED
        BY <3>1, HeaderDone DEF k
    <3> QED
      BY <2>1, <3>2 DEF Says
  <2> HIDE DEF h2
  <2>6. /\ But(h2, h3, {e}) /\ h3.matrix = h2.matrix /\ Says(h3, e, m, 0, FALSE, FALSE)
    <3>1. 0 \in 0 .. 3 /\ HeapType(h2) /\ e \in 1 .. MemTop /\ m \in Nat /\ 0 \in Nat
      BY <2>3, <2>5 DEF But
    <3>2. But(h2, h3, {e}) /\ h3.matrix = h2.matrix /\ Says(h3, e, m, 0, 0 % 2 = 1, 0 >= 2)
      <4> HIDE DEF m, e
      <4> QED
        BY <3>1, HeaderDone
    <3> QED
      BY <3>2 DEF Says
  <2> HIDE DEF h3
  <2>7. HeapType(h3) /\ h3.areas = h.areas /\ h3.brk = h.brk /\ h3.matrix = h.matrix
    BY <2>4, <2>5, <2>6 DEF But
  <2>8. r \in [at : Nat, end : Nat] /\ h.areas \in Seq([at : Nat, end : Nat])
    BY <1>1, <2>3 DEF HeapType
  <2>9. /\ HeapType(h4) /\ h4.mem = h3.mem /\ h4.brk = h.brk /\ h4.matrix = h.matrix
        /\ h4.areas = <<r>> \o h.areas
    <3>1. <<r>> \o h.areas \in Seq([at : Nat, end : Nat])
      BY <2>8
    <3> QED
      BY <2>7, <3>1 DEF HeapType
  <2> HIDE DEF h4, r
  <2>10. Areas(h4) = R2
    <3> DEFINE s == h.areas
    <3>1. /\ DOMAIN (<<r>> \o s) = 1 .. Len(s) + 1 /\ DOMAIN s = 1 .. Len(s) /\ Len(s) \in Nat
          /\ (<<r>> \o s)[1] = r /\ \A i \in 1 .. Len(s) : (<<r>> \o s)[i + 1] = s[i]
      BY <2>8
    <3>2. \A i \in 1 .. Len(s) + 1 : i = 1 \/ \E j \in 1 .. Len(s) : i = j + 1
      BY <3>1
    <3> HIDE DEF s
    <3>3. \A x \in R2 : x \in Areas(h4)
      <4>1. 1 \in 1 .. Len(s) + 1 /\ \A i \in 1 .. Len(s) : i + 1 \in 1 .. Len(s) + 1
        BY <3>1
      <4> SUFFICES ASSUME NEW x \in R2 PROVE x \in Areas(h4)
        OBVIOUS
      <4>2. CASE x = r
        BY <2>9, <3>1, <4>1, <4>2 DEF Areas, s
      <4>3. CASE x \in R
        <5>1. PICK i \in 1 .. Len(s) : x = s[i]
          BY <3>1, <4>3 DEF Areas, s
        <5>2. x = (<<r>> \o s)[i + 1] /\ i + 1 \in DOMAIN (<<r>> \o s)
          BY <3>1, <4>1, <5>1
        <5> QED
          BY <2>9, <5>2 DEF Areas, s
      <4> QED
        BY <4>2, <4>3
    <3>4. \A x \in Areas(h4) : x \in R2
      BY <2>9, <3>1, <3>2 DEF Areas, s
    <3> QED
      BY <3>3, <3>4
  <2> HIDE DEF R2
  <2>11. \A c \in (1 .. MemTop) \ {a, m, e} : h4.mem[c] = h.mem[c]
    BY <2>4, <2>5, <2>6, <2>9 DEF But
  <2>12. /\ h4.mem[a] = h1.mem[a] /\ h4.mem[m] = h2.mem[m] /\ h4.mem[e] = h3.mem[e]
    BY <2>3, <2>5, <2>6, <2>9 DEF But
  <2>13. /\ Says(h4, a, 0, 1, FALSE, FALSE) /\ Says(h4, m, a, size - 4, FALSE, FALSE)
         /\ Says(h4, e, m, 0, FALSE, FALSE)
    BY <2>4, <2>5, <2>6, <2>12, SameHeader DEF Says
  <2>14. \A c \in g.hs : c \in (1 .. MemTop) \ {a, m, e} /\ h4.mem[c] = h.mem[c]
    <3>1. \A c \in g.hs : c \in 1 .. MemTop
      BY <1>1 DEF Layout, Ordered
    <3> QED
      BY <2>2, <2>3, <2>11, <3>1
  <2>15. \A c \in g.hs : /\ Size(h4, c) = Size(h, c) /\ h4.mem[c].prev = h.mem[c].prev
                         /\ IsFree(h4, c) <=> IsFree(h, c)
                         /\ PrevFree(h4, c) <=> PrevFree(h, c)
    BY <2>14, SameHeader
  <2>16. a \notin g.fr /\ m \notin g.fr /\ e \notin g.fr /\ g.fr \subseteq g.hs
    BY <1>1, <2>14 DEF Layout, Ordered
  <2>17. Tags(h4, g1, {}, {}, {})
    <3>1. \A b \in g1.hs : Size(h4, b) = g1.sz[b]
      BY <1>1, <2>2, <2>13, <2>15 DEF Says, Tags
    <3>2. \A b \in g1.hs : IsFree(h4, b) <=> b \in g1.fr
      BY <1>1, <2>2, <2>13, <2>15, <2>16 DEF Says, Tags
    <3>3. ASSUME NEW b \in g1.hs, b \notin EndsOf(R2)
          PROVE  PrevFree(h4, Nx(g1, b)) <=> b \in g1.fr
      <4>1. CASE b \in g.hs
        <5>1. b \notin EndsOf(R) /\ Nx(g1, b) = Nx(g, b)
          BY <2>2, <3>3, <4>1
        <5>2. Nx(g, b) \in g.hs
          BY <1>1, <4>1, <5>1, Neighbours
        <5> QED
          BY <1>1, <2>2, <2>15, <4>1, <5>1, <5>2 DEF Tags
      <4>2. CASE b = a \/ b = m
        BY <2>2, <2>13, <2>16, <4>2 DEF Says
      <4> QED
        BY <2>2, <3>3, <4>1, <4>2
    <3>4. ASSUME NEW b \in g1.fr, Nx(g1, b) \notin EndsOf(R2)
          PROVE  h4.mem[Nx(g1, b)].prev = b
      <4>1. b \in g.fr /\ b \in g.hs /\ Nx(g1, b) = Nx(g, b) /\ Nx(g, b) \notin EndsOf(R)
        BY <2>2, <2>16, <3>4
      <4>2. Nx(g, b) \in g.hs
        BY <1>1, <4>1, Neighbours DEF Busy
      <4> QED
        BY <1>1, <2>15, <4>1, <4>2 DEF Tags
    <3> QED
      BY <2>10, <3>1, <3>2, <3>3, <3>4 DEF Tags
  <2>18. \A c \in g.hs : \A x \in c + 1 .. c + g.sz[c] : h4.mem[x] = h.mem[x]
    <3> SUFFICES ASSUME NEW c \in g.hs, NEW x \in c + 1 .. c + g.sz[c]
                 PROVE  h4.mem[x] = h.mem[x]
      OBVIOUS
    <3>1. x \in 1 .. MemTop
      BY <1>1, Inside
    <3>2. c \in Nat /\ g.sz[c] \in Nat
      BY <1>1, Neighbours
    <3>3. x < a
      BY <2>2, <3>2
    <3> QED
      BY <2>3, <2>11, <3>1, <3>3
  <2>19. Chains(h4, g1)
    <3>1. \A b \in g.fr : b + 1 \in b + 1 .. b + g.sz[b]
      BY <1>1, Neighbours
    <3>2. \A b \in g.fr : h4.mem[b + 1] = h.mem[b + 1] /\ g1.sz[b] = g.sz[b]
      BY <2>2, <2>16, <2>18, <3>1
    <3> QED
      BY <1>1, <2>2, <2>9, <3>2, ChainsKept
  <2>20. Below(h4)
    <3>1. \A q \in R2 : q.end < h.brk
      BY <1>1 DEF Below, R2, r
    <3> QED
      BY <2>9, <2>10, <3>1 DEF Below
  <2>21. Whole(h4, g1)
    BY <2>2, <2>9, <2>10, <2>17, <2>19, <2>20 DEF Whole, Sound
  <2>22. Keeps(h, g, h4, g1, Busy(g)) /\ Busy(g1) = Busy(g) \cup {a, m, e}
    <3>1. Busy(g1) = Busy(g) \cup {a, m, e}
      BY <2>2, <2>16 DEF Busy
    <3> QED
      BY <2>2, <2>18, <3>1 DEF Keeps, Busy
  <2>23. m \in Busy(g1) /\ m \notin AtsOf(R2) /\ m \notin EndsOf(R2) /\ g1.sz[m] > 0
    <3>1. m \notin AtsOf(R) /\ m \notin EndsOf(R) /\ m # a /\ m # e
      BY <1>1, <2>3, <2>14 DEF Layout, Bounded, Busy, AtsOf, EndsOf
    <3> QED
      BY <2>1, <2>2, <2>22, <3>1
  <2>24. PICK g2 : /\ Served(h4, g1, FreeVec(h4, m), g2, Busy(g1) \ {m})
                   /\ Busy(g2) = Busy(g1) \ {m}
    BY <2>10, <2>21, <2>23, FreeVecSound
  <2>25. AddMemory(h, a, size) = FreeVec(h4, m)
    <3>1. ~ (size <= HEADERS_SIZE)
      BY <1>4 DEF HEADERS_SIZE
    <3> QED
      BY <3>1 DEF AddMemory, h4, h3, h2, h1, r
  <2> DEFINE h5 == FreeVec(h4, m)
  <2> HIDE DEF h5
  <2>26. Whole(h5, g2) /\ h5.brk = h.brk /\ Areas(h5) = R2
    BY <2>9, <2>10, <2>24 DEF Served, h5
  <2>27. Used(h5, g2) = Used(h, g)
    <3>1. Busy(g2) = (Busy(g) \cup {a, m, e}) \ {m}
      BY <2>22, <2>24
    <3>2. a \notin Busy(g) /\ m \notin Busy(g) /\ e \notin Busy(g)
      BY <2>14 DEF Busy
    <3> QED
      BY <2>2, <2>26, <3>1, <3>2 DEF Used
  <2>28. Keeps(h, g, h5, g2, Busy(g))
    <3>1. Busy(g) \subseteq Busy(g1) \ {m}
      BY <2>14, <2>22 DEF Busy
    <3>2. Keeps(h4, g1, h5, g2, Busy(g1) \ {m})
      BY <2>24 DEF Served, h5
    <3> QED
      BY <2>22, <3>1, <3>2, KeepsTransitive
  <2> QED
    BY <2>25, <2>26, <2>27, <2>28 DEF h5
<1> QED
  BY <1>3, <1>4 DEF HEADERS_SIZE

\* fetch_more_ram leaves the callers' blocks alone, with or without memory.
LEMMA GrowSound ==
  ASSUME NEW h, NEW g, Whole(h, g), NEW size \in Nat
  PROVE  \E g2 : LET h2 == Grow(h, size)
                 IN  /\ Whole(h2, g2)
                     /\ Used(h2, g2) = Used(h, g)
                     /\ Keeps(h, g, h2, g2, Busy(g))
<1> DEFINE want  == IF size + HEADERS_SIZE < Puddle THEN Puddle ELSE size + HEADERS_SIZE
           pages == (want + Page - 1) \div Page
           bytes == pages * Page
           h1    == [h EXCEPT !.brk = @ + bytes]
<1>1. HeapType(h) /\ h.brk \in Nat \ {0} /\ Below(h)
  BY DEF Whole, Sound, HeapType
<1>2. bytes \in Nat
  <2>1. want \in Nat /\ Page \in Nat /\ Page > 0
    BY TlsfAssumption DEF HEADERS_SIZE
  <2> HIDE DEF want
  <2>2. want + Page - 1 \in Nat
    BY <2>1
  <2>3. pages \in Nat
    BY <2>1, <2>2, Quotient
  <2> HIDE DEF pages
  <2> QED
    BY <2>1, <2>3
<1> HIDE DEF bytes
<1>3. CASE h.brk + bytes - 1 > MemTop
  <2>1. Grow(h, size) = h
    BY <1>3 DEF Grow, bytes
  <2>2. Keeps(h, g, h, g, Busy(g))
    BY DEF Keeps
  <2> QED
    BY <2>1, <2>2
<1>4. CASE ~ (h.brk + bytes - 1 > MemTop)
  <2>1. Grow(h, size) = AddMemory(h1, h.brk, bytes)
    BY <1>4 DEF Grow, bytes
  <2>2. /\ HeapType(h1) /\ h1.mem = h.mem /\ h1.matrix = h.matrix /\ h1.areas = h.areas
        /\ h1.brk = h.brk + bytes
    <3>1. h.brk + bytes \in Nat \ {0}
      BY <1>1, <1>2
    <3> QED
      BY <1>1, <3>1 DEF HeapType
  <2> HIDE DEF h1
  <2>3. Areas(h1) = Areas(h) /\ \A d : h1.mem[d] = h.mem[d]
    BY <2>2 DEF Areas
  <2>4. \A d : /\ Size(h1, d) = Size(h, d)
               /\ IsFree(h1, d) <=> IsFree(h, d)
               /\ PrevFree(h1, d) <=> PrevFree(h, d)
    BY <2>3, SameHeader
  <2>5. Below(h1)
    <3>1. \A r \in Areas(h) : r.end \in Nat
      BY Neighbours DEF Whole, Sound, Layout, Bounded, Busy
    <3> QED
      BY <1>1, <1>2, <2>2, <2>3, <3>1 DEF Below
  <2>6. Tags(h1, g, {}, {}, {})
    BY <2>3, <2>4 DEF Whole, Sound, Tags
  <2>7. Chains(h1, g)
    <3>1. Chains(h, g) /\ \A b \in g.fr : h1.mem[b + 1] = h.mem[b + 1] /\ g.sz[b] = g.sz[b]
      BY <2>3 DEF Whole, Sound
    <3> QED
      BY <2>2, <3>1, ChainsKept
  <2>8. Whole(h1, g)
    BY <2>2, <2>3, <2>5, <2>6, <2>7 DEF Whole, Sound
  <2>9. Keeps(h, g, h1, g, Busy(g)) /\ Used(h1, g) = Used(h, g)
    BY <2>3 DEF Keeps, Used
  <2>10. /\ \A r \in Areas(h1) : r.end < h.brk
         /\ h.brk + bytes - 1 <= MemTop /\ h.brk + bytes - 1 < h1.brk
    BY <1>1, <1>2, <1>4, <2>2, <2>3, TlsfAssumption DEF Below
  <2> DEFINE h2 == AddMemory(h1, h.brk, bytes)
  <2>11. PICK g2 : /\ Whole(h2, g2) /\ h2.brk = h1.brk
                   /\ Used(h2, g2) = Used(h1, g)
                   /\ Keeps(h1, g, h2, g2, Busy(g))
    BY <1>1, <1>2, <2>8, <2>10, AddMemorySound
  <2> HIDE DEF h2
  <2>12. Keeps(h, g, h2, g2, Busy(g))
    BY <2>9, <2>11, KeepsTransitive
  <2> QED
    BY <2>1, <2>9, <2>11, <2>12 DEF h2
<1> QED
  BY <1>3, <1>4

\* Block b has been taken for a request of that size.
Got(h, g, h2, g2, b, size) ==
  /\ Whole(h2, g2) /\ Busy(g2) = Busy(g) \cup {b} /\ b \notin Busy(g)
  /\ b \notin AtsOf(Areas(h)) /\ b \notin EndsOf(Areas(h))
  /\ g2.sz[b] >= size /\ \A p \in g2.fr : Nx(g2, p) # b
  /\ Keeps(h, g, h2, g2, Busy(g))

\* Taking a free block that is large enough hands it out and nothing else.
LEMMA TakeSound ==
  ASSUME NEW h, NEW g, Whole(h, g), NEW b \in g.fr, NEW size \in Nat, size <= g.sz[b]
  PROVE  LET h2 == Take(h, b, MappingInsert(g.sz[b]), size)
         IN  /\ \E g2 : Got(h, g, h2, g2, b, size)
             /\ Areas(h2) = Areas(h) /\ h2.brk = h.brk
<1> DEFINE R == Areas(h)
           n == Nx(g, b)
           c == b + 1 + size
           g1 == Taken(g, b)
           h1 == RemoveHeader(h, b, MappingInsert(g.sz[b]))
<1>1. /\ Layout(R, g) /\ Sound(h, g, {}, {}, {}) /\ b \in g.hs /\ g.sz[b] \in Nat /\ b \in Nat
      /\ b \notin AtsOf(R) /\ b \notin EndsOf(R) /\ n \in g.hs /\ n \notin g.fr
      /\ \A p \in g.fr : Nx(g, p) # b
  <2>1. Layout(R, g) /\ Sound(h, g, {}, {}, {})
    BY DEF Whole, Sound
  <2>2. \A p \in g.fr : Nx(g, p) # b
    BY <2>1 DEF Layout, Apart
  <2> QED
    BY <2>1, <2>2, Neighbours DEF Busy
<1>2. Size(h, b) = g.sz[b] /\ Behind(h, b) = n
  BY <1>1 DEF Sound, Tags, Behind, Nx
<1>3. Removed(h, g, h1, b, {}, {}, {})
  BY <1>1, RemoveSound
<1>4. g1.hs = g.hs /\ g1.sz = g.sz /\ g1.fr = g.fr \ {b}
  BY DEF Taken
<1>5. Layout(R, g1) /\ (\A d : Nx(g1, d) = Nx(g, d)) /\ Busy(g1) = Busy(g) \cup {b}
  BY <1>1, TakenLayout
<1> HIDE DEF g1, h1
<1>6. /\ Sound(h1, g1, {b}, {b}, {}) /\ Areas(h1) = R /\ h1.brk = h.brk
      /\ Keeps(h, g, h1, g1, Busy(g)) /\ \A d \in g.hs : h1.mem[d] = h.mem[d]
  <2>1. {} \cup {b} = {b}
    OBVIOUS
  <2> QED
    BY <1>3, <2>1 DEF Removed, g1
<1>7. Size(h1, b) = g.sz[b]
  BY <1>1, <1>2, <1>6, SameHeader
\* In both cases b is left busy, but for its own flag.
<1> DEFINE h2 == IF g.sz[b] > size + 1 THEN Release(Split(h1, b, size), c)
                 ELSE SetPrevFree(h1, n, FALSE)
           Left(g2) == /\ Sound(h2, g2, {b}, {}, {}) /\ Areas(h2) = R /\ h2.brk = h.brk
                       /\ Busy(g2) = Busy(g) \cup {b} /\ g2.sz[b] >= size
                       /\ \A p \in g2.fr : Nx(g2, p) # b
                       /\ Keeps(h, g, h2, g2, Busy(g))
<1>8. \E g2 : Left(g2)
  <2>1. CASE ~ (g.sz[b] > size + 1)
    <3>1. h2 = SetPrevFree(h1, n, FALSE)
      BY <2>1
    <3> HIDE DEF h2
    <3> DEFINE B == {b}
               N == {}
    <3>2. /\ b \in g1.hs /\ Nx(g1, b) = n /\ b \notin EndsOf(Areas(h1)) /\ FALSE \in BOOLEAN
          /\ B \subseteq N \cup {b} /\ (b \in N \/ (FALSE <=> b \in g1.fr))
      BY <1>1, <1>4, <1>5, <1>6
    <3>3. Sound(h1, g1, B, B, N)
      BY <1>6
    <3> HIDE DEF B, N
    <3>4. After(h1, g1, SetPrevFree(h1, Nx(g1, b), FALSE), Nx(g1, b), B, N, N)
      BY <3>2, <3>3, SetPrevFreeSound
    <3>5. /\ Sound(h2, g1, {b}, {}, {}) /\ But(h1, h2, {n}) /\ Areas(h2) = R
          /\ Keeps(h1, g1, h2, g1, Busy(g1))
      BY <1>6, <3>1, <3>2, <3>4 DEF After, B, N
    <3>6. Keeps(h, g, h2, g1, Busy(g))
      BY <1>5, <1>6, <3>5, KeepsTransitive
    <3>7. /\ h2.brk = h.brk /\ Busy(g1) = Busy(g) \cup {b} /\ g1.sz[b] >= size
          /\ \A p \in g1.fr : Nx(g1, p) # b
      BY <1>1, <1>4, <1>5, <1>6, <3>5 DEF But
    <3>8. Left(g1)
      BY <3>5, <3>6, <3>7
    <3> QED
      BY <3>8
  <2>2. CASE g.sz[b] > size + 1
    <3> DEFINE hs == Split(h1, b, size)
               g2 == Cut(g1, b, size)
               g3 == Freed(g2, c)
    <3>1. h2 = Release(hs, c)
      BY <2>2
    <3> HIDE DEF h2
    <3>2. IsSplit(h1, g1, hs, b, size, {b}, {b}, {})
      <4>1. /\ b \in Busy(g1) /\ b \notin AtsOf(Areas(h1)) /\ b \notin EndsOf(Areas(h1))
            /\ size + 1 <= g1.sz[b] /\ Size(h1, b) = g1.sz[b]
        BY <1>1, <1>4, <1>5, <1>6, <1>7, <2>2
      <4> QED
        BY <1>6, <4>1, SplitSound
    <3>3. /\ Layout(R, g2) /\ Nx(g2, b) = c /\ Nx(g2, c) = n
          /\ c \notin g.hs /\ c \in b + 1 .. b + g.sz[b]
          /\ \A d \in g.hs \ {b} : Nx(g2, d) = Nx(g, d)
          /\ g2.hs = g.hs \cup {c} /\ g2.fr = g.fr \ {b}
          /\ g2.sz[b] = size /\ g2.sz[c] = g.sz[b] - size - 1
          /\ c \in Busy(g2) /\ c \notin AtsOf(R) /\ c \notin EndsOf(R)
      <4>1. b \in Busy(g1) /\ size + 1 <= g1.sz[b]
        BY <1>1, <1>4, <1>5, <2>2
      <4>2. \A d \in g1.hs \ {b} : Nx(g2, d) = Nx(g1, d)
        BY <1>1, <1>5, <4>1, CutLayout
      <4>3. /\ Layout(R, g2) /\ Nx(g2, b) = c /\ Nx(g2, c) = Nx(g1, b)
            /\ c \notin g1.hs /\ c \in b + 1 .. b + g1.sz[b]
            /\ g2.hs = g1.hs \cup {c} /\ g2.fr = g1.fr
            /\ g2.sz[b] = size /\ g2.sz[c] = g1.sz[b] - size - 1
            /\ c \in Busy(g2) /\ c \notin AtsOf(R) /\ c \notin EndsOf(R)
        BY <1>1, <1>5, <4>1, CutLayout
      <4> QED
        BY <1>4, <1>5, <4>2, <4>3
    <3>4. /\ Sound(hs, g2, {b} \cup {c}, ({b} \ {b}) \cup {c}, {} \ {b})
          /\ But(h1, hs, {b, c}) /\ Areas(hs) = R
          /\ Keeps(h1, g1, hs, g2, Busy(g1) \ {b}) /\ IsFree(hs, c)
      BY <1>6, <3>2 DEF IsSplit
    <3> HIDE DEF hs, g2, c
    <3>5. Sound(hs, g2, {b, c}, {c}, {})
      <4>1. {b} \cup {c} = {b, c} /\ ({b} \ {b}) \cup {c} = {c} /\ {} \ {b} = {}
        OBVIOUS
      <4> QED
        BY <3>4, <4>1
    <3>6. Inserted(hs, g2, h2, c, {b, c}, {c}, {})
      <4>1. g2.sz[c] > 0
        BY <1>1, <2>2, <3>3
      <4>2. Nx(g2, c) \notin g2.fr /\ c \notin {}
        BY <1>1, <3>3
      <4>3. ASSUME NEW p \in g2.fr PROVE Nx(g2, p) # c
        <5>1. p \in g.hs \ {b} /\ p \in g.fr
          BY <1>1, <3>3 DEF Layout, Ordered
        <5>2. Nx(g2, p) = Nx(g, p) /\ Nx(g, p) \in g.hs
          BY <1>1, <3>3, <5>1, Neighbours DEF Busy
        <5> QED
          BY <3>3, <5>2
      <4> QED
        BY <3>1, <3>3, <3>4, <3>5, <4>1, <4>2, <4>3, ReleaseSound
    <3>7. /\ Sound(h2, g3, {b}, {}, {}) /\ Areas(h2) = R /\ h2.brk = h.brk
          /\ Keeps(hs, g2, h2, g3, Busy(g2) \ {c})
      <4>1. {b, c} \ {c} = {b} /\ {c} \ {c} = {}
        BY <1>1, <3>3
      <4> QED
        BY <1>6, <3>4, <3>6, <4>1 DEF Inserted, But
    <3>8. g3.hs = g2.hs /\ g3.sz = g2.sz /\ g3.fr = g2.fr \cup {c}
      BY DEF Freed
    <3> HIDE DEF g3
    <3>9. Busy(g3) = Busy(g) \cup {b}
      BY <1>1, <1>4, <1>5, <3>3, <3>8 DEF Busy
    <3>10. ASSUME NEW p \in g3.fr PROVE Nx(g3, p) # b
      <4>1. Nx(g3, p) = Nx(g2, p)
        BY <3>8 DEF Nx
      <4>2. CASE p = c
        BY <1>1, <3>3, <4>1, <4>2, Neighbours
      <4>3. CASE p \in g2.fr
        <5>1. p \in g.hs \ {b} /\ p \in g.fr
          BY <1>1, <3>3, <4>3 DEF Layout, Ordered
        <5> QED
          BY <1>1, <3>3, <4>1, <5>1
      <4> QED
        BY <3>8, <4>2, <4>3
    <3>11. Keeps(h, g, h2, g3, Busy(g))
      <4>1. Busy(g) \subseteq Busy(g1) \ {b}
        BY <1>5 DEF Busy
      <4>2. Keeps(h, g, hs, g2, Busy(g))
        BY <1>6, <3>4, <4>1, KeepsTransitive
      <4>3. Busy(g) \subseteq Busy(g2) \ {c}
        BY <3>3, <4>2 DEF Keeps, Busy
      <4> QED
        BY <3>7, <4>2, <4>3, KeepsTransitive
    <3>12. Left(g3)
      BY <1>1, <3>3, <3>7, <3>8, <3>9, <3>10, <3>11
    <3> QED
      BY <3>12
  <2> QED
    BY <2>1, <2>2
<1>9. PICK g2 : Left(g2)
  BY <1>8
<1> HIDE DEF h2
<1> DEFINE h3 == SetFree(h2, b, FALSE)
<1>10. /\ Whole(h3, g2) /\ Areas(h3) = R /\ But(h2, h3, {b})
       /\ Keeps(h2, g2, h3, g2, Busy(g2))
  <2> DEFINE B == {b}
             N == {}
  <2>1. /\ b \in g2.hs /\ FALSE \in BOOLEAN /\ B \subseteq N \cup {b}
        /\ (b \in N \/ (FALSE <=> b \in g2.fr))
    BY <1>9 DEF Busy
  <2>2. Sound(h2, g2, B, N, N)
    BY <1>9
  <2> HIDE DEF B, N
  <2>3. After(h2, g2, h3, b, N, N, N)
    BY <2>1, <2>2, SetFreeSound
  <2> QED
    BY <1>9, <2>3 DEF After, N, Whole
<1>11. Take(h, b, MappingInsert(g.sz[b]), size) = h3
  BY <1>2 DEF Take, h3, h2, h1
<1> HIDE DEF h3
<1>12. Got(h, g, h3, g2, b, size)
  <2>1. Keeps(h, g, h3, g2, Busy(g))
    BY <1>9, <1>10, KeepsTransitive
  <2>2. b \notin Busy(g)
    BY DEF Busy
  <2> QED
    BY <1>1, <1>9, <1>10, <2>1, <2>2 DEF Got
<1>13. h3.brk = h.brk
  BY <1>9, <1>10 DEF But
<1> QED
  BY <1>10, <1>11, <1>12, <1>13

-----------------------------------------------------------------------------
(* tlsf_malloc *)

\* A list with a block in it has a first one.
LEMMA FirstOf ==
  ASSUME NEW h, NEW g, NEW pos, Linked(h, g, pos), NEW b \in g.fr
  PROVE  \E x \in g.fr : /\ pos[x] = 0 /\ MappingInsert(g.sz[x]) = MappingInsert(g.sz[b])
                         /\ h.matrix[MappingInsert(g.sz[b])] = x
<1> DEFINE c == MappingInsert(g.sz[b])
           F == {x \in g.fr : MappingInsert(g.sz[x]) = c}
           T == {pos[x] : x \in F}
<1>1. T \in SUBSET Nat /\ T # {}
  BY DEF Linked
<1>2. PICK n \in T : \A m \in T : n <= m
  BY <1>1, LeastElement
<1>3. PICK x \in F : n = pos[x]
  BY <1>2
<1>4. x \in g.fr /\ MappingInsert(g.sz[x]) = c /\ pos[x] \in Nat
  BY <1>3 DEF Linked
<1>5. pos[x] = 0
  <2> SUFFICES ASSUME pos[x] # 0 PROVE FALSE
    OBVIOUS
  <2>1. /\ FPrev(h, x) \in g.fr
        /\ MappingInsert(g.sz[FPrev(h, x)]) = MappingInsert(g.sz[x])
        /\ pos[FPrev(h, x)] = pos[x] - 1
    BY <1>4 DEF Linked
  <2>2. FPrev(h, x) \in F
    BY <1>4, <2>1
  <2>3. pos[x] - 1 \in T
    BY <2>1, <2>2
  <2> HIDE DEF T
  <2> QED
    BY <1>1, <1>2, <1>3, <1>4, <2>3
<1> QED
  BY <1>4, <1>5 DEF Linked

\* The class that is found is that of a block which is large enough, if any is.
Finds(h, g, size, class) ==
  /\ class = 0 => \A b \in g.fr : g.sz[b] < size
  /\ class # 0 => /\ h.matrix[class] \in g.fr
                  /\ class = MappingInsert(g.sz[h.matrix[class]])
                  /\ size <= g.sz[h.matrix[class]]

\* FIND_SUITABLE_BLOCK finds a block that is large enough if there is one.
LEMMA FindSound ==
  ASSUME NEW h, NEW g, Whole(h, g), NEW size \in Nat, size > 0,
         MappingInsert(size) = size
  PROVE  Finds(h, g, size, FindSuitableBlock(h, size))
<1> DEFINE good  == {c \in Classes : c >= MappingInsert(size) /\ h.matrix[c] # 0}
           class == FindSuitableBlock(h, size)
<1>1. PICK pos : Linked(h, g, pos)
  BY DEF Whole, Sound, Chains
<1>2. Layout(Areas(h), g) /\ HeapType(h)
  BY DEF Whole, Sound
<1>3. Classes \subseteq Nat
  BY ClassBounds, TlsfAssumption DEF Classes
<1>4. CASE good = {}
  <2>1. class = 0
    BY <1>4 DEF FindSuitableBlock
  <2>2. ASSUME NEW b \in g.fr PROVE g.sz[b] < size
    <3>1. MappingInsert(g.sz[b]) \in Classes /\ g.sz[b] \in Nat
      BY <1>2, ClassOf, Neighbours
    <3>2. h.matrix[MappingInsert(g.sz[b])] \in g.fr
      BY <1>1, FirstOf
    <3>3. h.matrix[MappingInsert(g.sz[b])] # 0
      BY <1>2, <3>2, Neighbours
    <3>4. ~ (MappingInsert(g.sz[b]) >= MappingInsert(size))
      BY <1>4, <3>1, <3>3
    <3>5. CASE size <= g.sz[b]
      <4>1. MappingInsert(size) <= MappingInsert(g.sz[b])
        BY <3>1, <3>5, ClassMonotone
      <4> QED
        BY <3>1, <3>4, <4>1, <1>3
    <3> QED
      BY <3>1, <3>5
  <2> QED
    BY <2>1, <2>2 DEF Finds
<1>5. CASE good # {}
  <2>1. good \in SUBSET Nat
    BY <1>3
  <2>2. class = CHOOSE c \in good : \A d \in good : c <= d
    BY <1>5 DEF FindSuitableBlock
  <2> HIDE DEF good
  <2>3. \E c \in good : \A d \in good : c <= d
    BY <1>5, <2>1, LeastElement
  <2>4. class \in good
    BY <2>2, <2>3
  <2> USE DEF good
  <2> HIDE DEF class
  <2>5. class \in Classes /\ class \in Nat /\ class >= size /\ h.matrix[class] # 0
    BY <1>3, <2>4
  <2>6. h.matrix[class] \in g.fr /\ MappingInsert(g.sz[h.matrix[class]]) = class
    BY <1>1, <2>5 DEF Linked
  <2>7. g.sz[h.matrix[class]] \in Nat
    BY <1>2, <2>6, Neighbours
  <2>8. class <= g.sz[h.matrix[class]]
    BY <2>6, <2>7, ClassBounds
  <2>9. size <= g.sz[h.matrix[class]] /\ class # 0
    BY <2>5, <2>7, <2>8
  <2> QED
    BY <2>6, <2>9 DEF Finds, class
<1> QED
  BY <1>4, <1>5

\* What a request gets: block b, or nothing.
Gets(h, g, h2, b, size) ==
  /\ b = 0 => h2 = h
  /\ b # 0 => (\E g2 : Got(h, g, h2, g2, b, size)) /\ Areas(h2) = Areas(h)

\* A request is served from the lists, or nothing changes.
LEMMA TakeSuitableSound ==
  ASSUME NEW h, NEW g, Whole(h, g), NEW size \in Nat, size > 0,
         MappingInsert(size) = size
  PROVE  LET m == TakeSuitable(h, size) IN Gets(h, g, m.heap, m.block, size)
<1> DEFINE class == FindSuitableBlock(h, size)
           b == h.matrix[class]
           m == TakeSuitable(h, size)
<1>1. Finds(h, g, size, class)
  BY FindSound
<1>2. CASE class = 0
  <2>1. m.heap = h /\ m.block = 0
    BY <1>2 DEF TakeSuitable
  <2> QED
    BY <2>1 DEF Gets
<1>3. CASE class # 0
  <2>1. m.heap = Take(h, b, class, size) /\ m.block = b
    BY <1>3 DEF TakeSuitable
  <2>2. b \in g.fr /\ class = MappingInsert(g.sz[b]) /\ size <= g.sz[b]
    BY <1>1, <1>3 DEF Finds
  <2> HIDE DEF m, b, class
  <2> DEFINE h2 == Take(h, b, MappingInsert(g.sz[b]), size)
  <2>3. (\E g2 : Got(h, g, h2, g2, b, size)) /\ Areas(h2) = Areas(h)
    BY <2>2, TakeSound
  <2>4. h2 = m.heap
    BY <2>1, <2>2
  <2>5. b # 0
    BY <2>2, Neighbours DEF Whole, Sound
  <2> HIDE DEF h2
  <2> QED
    BY <2>1, <2>3, <2>4, <2>5 DEF Gets, m
<1> QED
  BY <1>2, <1>3

\* Block b has been given for so many units, or none.
Given(h, g, h2, g2, b, units) ==
  /\ Whole(h2, g2) /\ Keeps(h, g, h2, g2, Busy(g))
  /\ b = 0 => Used(h2, g2) = Used(h, g)
  /\ b # 0 => /\ Used(h2, g2) = Used(h, g) \cup {b} /\ b \notin Used(h, g)
              /\ b \in Nat \ {0} /\ g2.sz[b] >= MappingSearch(units) /\ g2.sz[b] >= units
              /\ \A p \in g2.fr : Nx(g2, p) # b

\* tlsf_malloc hands out a block large enough that nobody has, or 0.
LEMMA AllocSound ==
  ASSUME NEW h, NEW g, Whole(h, g), NEW units \in Nat, units > 0
  PROVE  LET m == Alloc(h, units) IN \E g2 : Given(h, g, m.heap, g2, m.block, units)
<1> DEFINE size == MappingSearch(units)
           h1   == IF FindSuitableBlock(h, size) = 0 THEN Grow(h, size) ELSE h
           m    == Alloc(h, units)
<1>1. size \in Nat /\ size >= units /\ size > 0 /\ MappingInsert(size) = size
  BY RequestClass
<1>2. m = TakeSuitable(h1, size)
  BY DEF Alloc
<1> HIDE DEF size
<1>3. PICK g1 : /\ Whole(h1, g1) /\ Used(h1, g1) = Used(h, g)
                /\ Keeps(h, g, h1, g1, Busy(g))
  <2>1. CASE FindSuitableBlock(h, size) = 0
    <3>1. h1 = Grow(h, size)
      BY <2>1
    <3> HIDE DEF h1
    <3> QED
      BY <1>1, <3>1, GrowSound
  <2>2. CASE FindSuitableBlock(h, size) # 0
    <3>1. h1 = h
      BY <2>2
    <3>2. Keeps(h, g, h1, g, Busy(g))
      BY <3>1 DEF Keeps
    <3> QED
      BY <3>1, <3>2
  <2> QED
    BY <2>1, <2>2
<1> HIDE DEF h1
<1>4. Gets(h1, g1, m.heap, m.block, size)
  BY <1>1, <1>2, <1>3, TakeSuitableSound
<1> HIDE DEF m
<1>5. CASE m.block = 0
  <2>1. m.heap = h1
    BY <1>4, <1>5 DEF Gets
  <2>2. Given(h, g, m.heap, g1, m.block, units)
    BY <1>3, <1>5, <2>1 DEF Given
  <2> QED
    BY <2>2 DEF m
<1>6. CASE m.block # 0
  <2> DEFINE h2 == m.heap
             b  == m.block
  <2>1. Areas(h2) = Areas(h1) /\ \E g2 : Got(h1, g1, h2, g2, b, size)
    BY <1>4, <1>6 DEF Gets
  <2>2. PICK g2 : Got(h1, g1, h2, g2, b, size)
    BY <2>1
  <2> HIDE DEF h2, b
  <2>3. /\ Whole(h2, g2) /\ Busy(g2) = Busy(g1) \cup {b} /\ b \notin Busy(g1)
        /\ b \notin AtsOf(Areas(h1)) /\ b \notin EndsOf(Areas(h1))
        /\ g2.sz[b] >= size /\ (\A p \in g2.fr : Nx(g2, p) # b)
        /\ Keeps(h1, g1, h2, g2, Busy(g1))
    BY <2>2 DEF Got
  <2>4. Busy(g) \subseteq Busy(g1)
    BY <1>3 DEF Keeps
  <2>5. Keeps(h, g, h2, g2, Busy(g))
    BY <1>3, <2>3, <2>4, KeepsTransitive
  <2>6. Used(h2, g2) = Used(h, g) \cup {b} /\ b \notin Used(h, g)
    BY <1>3, <2>1, <2>3 DEF Used
  <2>7. b \in g2.hs
    BY <2>3 DEF Busy
  <2>8. b \in Nat \ {0} /\ g2.sz[b] \in Nat
    BY <2>3, <2>7, Neighbours DEF Whole, Sound
  <2>9. g2.sz[b] >= MappingSearch(units) /\ g2.sz[b] >= units
    BY <1>1, <2>3, <2>8 DEF size
  <2>10. Given(h, g, h2, g2, b, units)
    BY <2>3, <2>5, <2>6, <2>8, <2>9 DEF Given
  <2> QED
    BY <2>10 DEF h2, b, m
<1> QED
  BY <1>5, <1>6 DEF m

-----------------------------------------------------------------------------
(* tlsf_realloc *)

\* Block b has another size; what it holds in both is kept, and all others.
Resized(h, g, h2, g2, b, size) ==
  /\ Whole(h2, g2) /\ Areas(h2) = Areas(h) /\ h2.brk = h.brk
  /\ Busy(g2) = Busy(g) /\ g2.sz[b] >= size
  /\ Keeps(h, g, h2, g2, Busy(g) \ {b})
  /\ \A a \in b + 1 .. b + g.sz[b] : a <= b + size => h2.mem[a] = h.mem[a]

\* Block b is cut; nothing is free behind the rest when it is as small as can be.
LEMMA ShrinkSound ==
  ASSUME NEW h, NEW g, NEW b \in Used(h, g), NEW Y, Y \subseteq {b}, Sound(h, g, {}, Y, {}),
         NEW size \in Nat, size + 1 <= g.sz[b],
         g.sz[b] = size + 1 => Nx(g, b) \in g.fr
  PROVE  /\ \E g2 : Resized(h, g, Shrink(h, b, size), g2, b, size)
         /\ Nx(g, b) \notin g.fr =>
              Shrink(h, b, size) = Release(Split(h, b, size), b + 1 + size)
<1> DEFINE R  == Areas(h)
           n  == Nx(g, b)
           c  == b + 1 + size
           g1 == Cut(g, b, size)
           h1 == Split(h, b, size)
           g2 == Absorbed(g1, c)
           h2 == MergeNext(h1, c)
           g3 == Freed(g2, c)
           h3 == Release(h2, c)
           N  == {}
           C  == {c}
<1>1. /\ Layout(R, g) /\ b \in Busy(g) /\ b \notin AtsOf(R) /\ b \notin EndsOf(R)
      /\ b \in g.hs /\ Size(h, b) = g.sz[b] /\ g.sz[b] \in Nat /\ b \in Nat
  <2>1. Layout(R, g) /\ b \in Busy(g) /\ b \notin AtsOf(R) /\ b \notin EndsOf(R)
    BY DEF Sound, Used
  <2> QED
    BY <2>1, Neighbours DEF Sound, Tags, Busy
<1>2. /\ Sound(h1, g1, C, C, N) /\ But(h, h1, {b, c}) /\ Areas(h1) = R
      /\ Keeps(h, g, h1, g1, Busy(g) \ {b}) /\ IsFree(h1, c)
  <2>1. IsSplit(h, g, h1, b, size, {}, Y, {})
    BY <1>1, SplitSound
  <2>2. {} \cup {c} = {c} /\ (Y \ {b}) \cup {c} = {c} /\ {} \ {b} = {}
    OBVIOUS
  <2> QED
    BY <2>1, <2>2 DEF IsSplit
<1>3. /\ Layout(R, g1) /\ Nx(g1, b) = c /\ Nx(g1, c) = n
      /\ c \notin g.hs /\ c \in b + 1 .. b + g.sz[b]
      /\ g1.hs = g.hs \cup {c} /\ g1.fr = g.fr
      /\ g1.sz[b] = size /\ g1.sz[c] = g.sz[b] - size - 1
      /\ c \in Busy(g1) /\ c \notin AtsOf(R) /\ c \notin EndsOf(R)
      /\ b \in Busy(g1)
  BY <1>1, CutLayout
<1>4. \A p \in g1.fr : Nx(g1, p) # c
  <2> SUFFICES ASSUME NEW p \in g1.fr PROVE Nx(g1, p) # c
    OBVIOUS
  <2>1. p \in g.hs \ {b} /\ p \in g.fr
    BY <1>1, <1>3 DEF Layout, Ordered, Busy
  <2>2. Nx(g1, p) = Nx(g, p)
    BY <1>1, <2>1, CutLayout
  <2>3. Nx(g, p) \in g.hs
    BY <1>1, <2>1, Neighbours DEF Busy
  <2> QED
    BY <1>3, <2>2, <2>3
<1>5. n # c /\ n \in Nat /\ b < c
  <2>1. n = b + 1 + g.sz[b]
    BY DEF Nx
  <2> QED
    BY <1>1, <1>3, <2>1
<1> HIDE DEF h1, g1
<1>6. NextIn(h1, g1, h2, c, C, C, N)
  <2>1. /\ c \notin AtsOf(Areas(h1)) /\ c \notin EndsOf(Areas(h1)) /\ c \notin N
        /\ Nx(g1, c) \notin C /\ Nx(g1, c) \notin N
    BY <1>2, <1>3, <1>5
  <2> HIDE DEF c, C, N
  <2> QED
    BY <1>2, <1>3, <2>1, MergeNextSound DEF C, h2
<1>7. Grown(g1, g2, c) /\ Layout(R, g2)
  BY <1>3, AbsorbedLayout
<1> HIDE DEF g2, h2
<1>8. /\ Sound(h2, g2, C, C, N) /\ Areas(h2) = R /\ h2.brk = h.brk
      /\ Keeps(h1, g1, h2, g2, Busy(g1) \ C) /\ IsFree(h2, c)
      /\ n \notin g.fr => h2 = h1
  <2>1. C \cup {c} = C
    OBVIOUS
  <2>2. h1.brk = h.brk
    BY <1>2 DEF But
  <2>3. g2 = Absorbed(g1, c)
    BY DEF g2
  <2> QED
    BY <1>2, <1>3, <1>6, <2>1, <2>2, <2>3 DEF NextIn
<1>9. /\ c \in Busy(g2) /\ Busy(g2) = Busy(g1) /\ Nx(g2, c) \notin g2.fr /\ g2.sz[c] > 0
      /\ \A p \in g2.fr : Nx(g2, p) # c
  <2>1. c \in g2.hs
    BY <1>7 DEF Grown, Busy
  <2>2. g2.sz[c] \in Nat
    BY <1>7, <2>1, Neighbours
  <2>3. g2.sz[c] > 0
    <3>1. CASE n \in g.fr
      BY <1>3, <1>7, <3>1 DEF Grown
    <3>2. CASE n \notin g.fr
      <4>1. g1.sz[c] > 0 /\ g2.sz[c] >= g1.sz[c] /\ g1.sz[c] \in Nat
        BY <1>1, <1>3, <1>7, <3>2 DEF Grown
      <4> QED
        BY <2>2, <4>1
    <3> QED
      BY <3>1, <3>2
  <2> QED
    BY <1>4, <1>7, <2>3 DEF Grown
<1>10. Inserted(h2, g2, h3, c, C, C, N)
  <2>1. c \notin AtsOf(Areas(h2)) /\ c \notin EndsOf(Areas(h2)) /\ c \notin N
    BY <1>3, <1>8
  <2> QED
    BY <1>8, <1>9, <2>1, ReleaseSound
<1>11. /\ Whole(h3, g3) /\ Areas(h3) = R /\ h3.brk = h.brk
       /\ Keeps(h2, g2, h3, g3, Busy(g2) \ {c})
  <2>1. C \ {c} = {}
    OBVIOUS
  <2> QED
    BY <1>8, <1>10, <2>1 DEF Inserted, Whole
<1>12. Busy(g3) = Busy(g)
  <2>1. g3.hs = g2.hs /\ g3.fr = g2.fr \cup {c}
    BY DEF Freed
  <2>2. Busy(g1) = Busy(g) \cup {c} /\ c \notin Busy(g)
    <3>1. c \notin g.fr
      BY <1>1, <1>3 DEF Layout, Ordered
    <3> QED
      BY <1>3, <3>1 DEF Busy
  <2>3. Busy(g3) = Busy(g2) \ {c}
    BY <2>1 DEF Busy
  <2> QED
    BY <1>9, <2>2, <2>3
<1> HIDE DEF h3, g3, C
<1>13. Keeps(h1, g1, h3, g3, Busy(g))
  <2>1. Busy(g) \subseteq Busy(g1) \ {c}
    BY <1>1, <1>3 DEF Busy, Layout, Ordered
  <2>2. Keeps(h1, g1, h2, g2, Busy(g))
    BY <1>8, <2>1, KeepsFewer DEF C
  <2>3. Busy(g) \subseteq Busy(g2) \ {c}
    BY <1>9, <2>1
  <2> QED
    BY <1>11, <2>2, <2>3, KeepsTransitive
<1>14. Keeps(h, g, h3, g3, Busy(g) \ {b})
  <2>1. Busy(g) \ {b} \subseteq Busy(g)
    OBVIOUS
  <2> QED
    BY <1>2, <1>13, <2>1, KeepsTransitive
<1>15. /\ g3.sz[b] = size
       /\ \A a \in b + 1 .. b + g.sz[b] : a <= b + size => h3.mem[a] = h.mem[a]
  <2>1. g3.sz[b] = size /\ \A a \in b + 1 .. b + size : h3.mem[a] = h1.mem[a]
    BY <1>1, <1>3, <1>13 DEF Keeps
  <2>2. \A a \in b + 1 .. b + g.sz[b] : a \in 1 .. MemTop
    BY <1>1, Inside
  <2>3. \A a \in b + 1 .. b + size : a \in b + 1 .. b + g.sz[b] /\ a # b /\ a # c
    BY <1>1
  <2>4. \A a \in b + 1 .. b + size : h1.mem[a] = h.mem[a]
    BY <1>2, <2>2, <2>3 DEF But
  <2>5. \A a \in b + 1 .. b + g.sz[b] : a <= b + size => a \in b + 1 .. b + size
    BY <1>1
  <2> QED
    BY <2>1, <2>4, <2>5
<1>16. Resized(h, g, h3, g3, b, size)
  BY <1>11, <1>12, <1>14, <1>15 DEF Resized
<1>17. Shrink(h, b, size) = h3
  BY DEF Shrink, h3, h2, h1
<1>18. n \notin g.fr => h3 = Release(h1, c)
  BY <1>8 DEF h3
<1> QED
  BY <1>16, <1>17, <1>18 DEF h1

\* tlsf_realloc into the free block behind, as far as that reaches.
LEMMA ExtendSound ==
  ASSUME NEW h, NEW g, Whole(h, g), NEW b \in Used(h, g), Nx(g, b) \in g.fr,
         NEW size \in Nat, g.sz[b] < size, size <= g.sz[b] + g.sz[Nx(g, b)] + 1
  PROVE  \E g2 : Resized(h, g, Extend(h, b, size), g2, b, size)
<1> DEFINE R  == Areas(h)
           n  == Nx(g, b)
           g1 == Taken(g, n)
           h1 == RemoveHeader(h, n, MappingInsert(g.sz[n]))
           g2 == Merged(g1, b)
           h2 == Merge(h1, b, n)
           m  == Nx(g2, b)
           N  == {}
           B  == {b}
<1>1. /\ Layout(R, g) /\ b \in Busy(g) /\ b \notin AtsOf(R) /\ b \notin EndsOf(R)
      /\ b \in g.hs /\ Size(h, b) = g.sz[b] /\ g.sz[b] \in Nat /\ b \in Nat
      /\ n \in g.hs /\ Size(h, n) = g.sz[n] /\ g.sz[n] \in Nat
      /\ n \notin AtsOf(R) /\ n \notin EndsOf(R) /\ Nx(g, n) \notin g.fr
      /\ Behind(h, b) = n /\ n > b
  <2>1. Layout(R, g) /\ b \in Busy(g) /\ b \notin AtsOf(R) /\ b \notin EndsOf(R)
    BY DEF Whole, Sound, Used
  <2>2. b \in g.hs /\ n \in g.hs /\ n \notin AtsOf(R) /\ n \notin EndsOf(R)
        /\ Nx(g, n) \notin g.fr
    BY <2>1, Neighbours DEF Busy
  <2>3. Size(h, b) = g.sz[b] /\ Size(h, n) = g.sz[n]
    BY <2>2 DEF Whole, Sound, Tags
  <2>4. Behind(h, b) = n
    BY <2>3 DEF Behind, Nx
  <2> QED
    BY <2>1, <2>2, <2>3, <2>4, Neighbours
<1>2. /\ Sound(h1, g1, {n}, {n}, {}) /\ Areas(h1) = R /\ h1.brk = h.brk
      /\ Keeps(h, g, h1, g1, Busy(g)) /\ \A d \in g.hs : h1.mem[d] = h.mem[d]
  <2>1. {} \cup {n} = {n}
    OBVIOUS
  <2>2. Sound(h, g, N, N, N)
    BY DEF Whole
  <2>3. Removed(h, g, h1, n, N, N, N)
    BY <2>2, RemoveSound
  <2> QED
    BY <2>1, <2>3 DEF Removed
<1>3. /\ g1.hs = g.hs /\ g1.sz = g.sz /\ g1.fr = g.fr \ {n}
      /\ (\A c : Nx(g1, c) = Nx(g, c)) /\ Busy(g1) = Busy(g) \cup {n} /\ Layout(R, g1)
  <2>1. g1.hs = g.hs /\ g1.sz = g.sz /\ g1.fr = g.fr \ {n}
    BY DEF Taken
  <2>2. Layout(R, g1) /\ (\A c : Nx(g1, c) = Nx(g, c)) /\ Busy(g1) = Busy(g) \cup {n}
    BY <1>1, TakenLayout
  <2> QED
    BY <2>1, <2>2
<1>4. Size(h1, b) = g.sz[b] /\ Size(h1, n) = g.sz[n]
  BY <1>1, <1>2, SameHeader
<1> HIDE DEF h1, g1
<1>5. IsMerged(h1, g1, h2, b, {n}, {n}, {})
  <2>1. /\ b \in Busy(g1) /\ b \notin AtsOf(Areas(h1)) /\ b \notin EndsOf(Areas(h1))
        /\ Nx(g1, b) = n /\ n \in Busy(g1) /\ n \notin EndsOf(Areas(h1))
        /\ Size(h1, b) = g1.sz[b] /\ Size(h1, n) = g1.sz[n]
    BY <1>1, <1>2, <1>3, <1>4
  <2> DEFINE C == {n}
  <2>2. Sound(h1, g1, C, C, N)
    BY <1>2
  <2>3. Nx(g1, b) \in Busy(g1) /\ Nx(g1, b) \notin EndsOf(Areas(h1))
        /\ Size(h1, Nx(g1, b)) = g1.sz[Nx(g1, b)]
    BY <2>1
  <2> HIDE DEF C, N, h2
  <2>4. IsMerged(h1, g1, Merge(h1, b, Nx(g1, b)), b, C, C, N)
    BY <2>1, <2>2, <2>3, MergeSound
  <2> QED
    BY <2>1, <2>4 DEF C, N, h2
<1>6. /\ Layout(R, g2) /\ m = Nx(g, n)
      /\ g2.hs = g.hs \ {n} /\ g2.fr = g.fr \ {n} /\ b \in g2.hs
      /\ g2.sz[b] = g.sz[b] + g.sz[n] + 1
  <2>1. b \in Busy(g1) /\ Nx(g1, b) = n /\ n \in Busy(g1)
    BY <1>1, <1>3
  <2> QED
    BY <1>1, <1>3, <2>1, MergedLayout
<1> HIDE DEF h2, g2
<1>7. /\ Sound(h2, g2, {n}, {n} \cup {b}, {}) /\ But(h1, h2, {b, n}) /\ Areas(h2) = R
      /\ Keeps(h1, g1, h2, g2, Busy(g1) \ {b, n}) /\ Size(h2, b) = g2.sz[b]
  <2>1. Nx(g1, b) = n /\ {} \ {b} = {}
    BY <1>3
  <2>2. g2 = Merged(g1, b)
    BY DEF g2
  <2> QED
    BY <1>2, <1>5, <2>1, <2>2 DEF IsMerged, Says
<1>8. Sound(h2, g2, N, B, N)
  <2> DEFINE X == {n}
             Y == {n} \cup {b}
  <2>1. Sound(h2, g2, X, Y, N)
    BY <1>7
  <2>2. /\ \A d \in X \cap g2.hs : d \in N \/ (IsFree(h2, d) <=> d \in g2.fr)
        /\ \A d \in Y \cap g2.hs : \/ d \in B \/ d \in EndsOf(Areas(h2))
                                   \/ PrevFree(h2, Nx(g2, d)) <=> d \in g2.fr
        /\ \A d \in N \cap g2.hs : d \in N \/ Size(h2, d) = g2.sz[d]
    BY <1>6
  <2> HIDE DEF X, Y, N, B
  <2> QED
    BY <2>1, <2>2, Fewer
<1>9. Busy(g2) = Busy(g) /\ b \in Busy(g2) /\ m \notin g2.fr
  <2>1. b # n /\ n \notin Busy(g)
    BY <1>1 DEF Busy
  <2> QED
    BY <1>1, <1>6, <2>1 DEF Busy
<1>10. Keeps(h, g, h2, g2, Busy(g) \ {b})
  <2>1. Busy(g) \ {b} \subseteq Busy(g) /\ Busy(g) \ {b} \subseteq Busy(g1) \ {b, n}
    BY <1>1, <1>3 DEF Busy
  <2>2. Keeps(h, g, h1, g1, Busy(g) \ {b})
    BY <1>2, <2>1, KeepsFewer
  <2> QED
    BY <1>7, <2>1, <2>2, KeepsTransitive
<1>11. \A a \in b + 1 .. b + g.sz[b] : h2.mem[a] = h.mem[a]
  <2>1. \A a \in b + 1 .. b + g.sz[b] : a \in 1 .. MemTop /\ a # b /\ a # n
    <3>1. \A a \in b + 1 .. b + g.sz[b] : a \in 1 .. MemTop /\ a \notin g.hs
      BY <1>1, Inside
    <3> QED
      BY <1>1, <3>1
  <2>2. \A a \in b + 1 .. b + g.sz[b] : h1.mem[a] = h.mem[a]
    BY <1>1, <1>2 DEF Keeps
  <2> QED
    BY <1>7, <2>1, <2>2 DEF But
<1> DEFINE h3 == Extend(h, b, size)
<1>12. h3 = IF g2.sz[b] > size + 1 THEN Release(Split(h2, b, size), b + 1 + size)
            ELSE SetPrevFree(SetPrev(h2, m, b), m, FALSE)
  <2>1. Behind(h2, b) = m
    BY <1>7 DEF Behind, Nx
  <2> QED
    BY <1>1, <1>7, <2>1 DEF Extend, h2, h1
<1>13. \E g3 : Resized(h2, g2, h3, g3, b, size)
  <2>0. b \in Used(h2, g2)
    BY <1>1, <1>7, <1>9 DEF Used
  <2>1. CASE g2.sz[b] > size + 1
    <3>1. h3 = Release(Split(h2, b, size), b + 1 + size)
      BY <1>12, <2>1
    <3>2. /\ B \subseteq {b} /\ size + 1 <= g2.sz[b]
          /\ g2.sz[b] = size + 1 => Nx(g2, b) \in g2.fr
      BY <1>1, <1>6, <2>1
    <3> HIDE DEF B, h3
    <3>3. /\ \E g3 : Resized(h2, g2, Shrink(h2, b, size), g3, b, size)
          /\ Nx(g2, b) \notin g2.fr =>
               Shrink(h2, b, size) = Release(Split(h2, b, size), b + 1 + size)
      BY <1>8, <2>0, <3>2, ShrinkSound
    <3> QED
      BY <1>9, <3>1, <3>3
  <2>2. CASE ~ (g2.sz[b] > size + 1)
    <3> DEFINE h4 == SetPrev(h2, m, b)
    <3>1. h3 = SetPrevFree(h4, m, FALSE)
      BY <1>12, <2>2
    <3> HIDE DEF h3
    <3>2. b \notin EndsOf(Areas(h2)) /\ FALSE \in BOOLEAN /\ B \subseteq N \cup {b}
          /\ (b \in N \/ (FALSE <=> b \in g2.fr))
      BY <1>1, <1>7, <1>9 DEF Busy
    <3> HIDE DEF N, B, m
    <3>3. After(h2, g2, h4, m, N, B, N)
      BY <1>1, <1>8, <1>9, <3>2, SetPrevSound DEF m
    <3> HIDE DEF h4
    <3>4. Sound(h4, g2, N, B, N) /\ Areas(h4) = R /\ Keeps(h2, g2, h4, g2, Busy(g2))
          /\ h4.brk = h2.brk
      BY <1>7, <3>3 DEF After, But
    <3>5. After(h4, g2, h3, m, N, N, N)
      BY <1>1, <1>6, <3>1, <3>2, <1>7, <3>4, SetPrevFreeSound DEF m
    <3>6. Whole(h3, g2) /\ Areas(h3) = R /\ Keeps(h4, g2, h3, g2, Busy(g2))
          /\ h3.brk = h2.brk
      BY <3>4, <3>5 DEF After, But, N, Whole
    <3>7. Keeps(h2, g2, h3, g2, Busy(g2))
      BY <3>4, <3>6, KeepsTransitive
    <3>8. Resized(h2, g2, h3, g2, b, size)
      <4>1. Keeps(h2, g2, h3, g2, Busy(g2) \ {b})
        BY <3>7, KeepsFewer
      <4>2. \A a \in b + 1 .. b + g2.sz[b] : h3.mem[a] = h2.mem[a]
        BY <1>9, <3>7 DEF Keeps
      <4>3. g2.sz[b] >= size
        BY <1>1, <1>6
      <4> QED
        BY <1>7, <3>6, <4>1, <4>2, <4>3 DEF Resized
    <3> QED
      BY <3>8
  <2> QED
    BY <2>1, <2>2
<1>14. PICK g3 : Resized(h2, g2, h3, g3, b, size)
  BY <1>13
<1> HIDE DEF h3
<1>15. /\ Whole(h3, g3) /\ Areas(h3) = R /\ h3.brk = h.brk
       /\ Busy(g3) = Busy(g) /\ g3.sz[b] >= size
  BY <1>2, <1>7, <1>9, <1>14 DEF Resized, But
<1>16. Keeps(h, g, h3, g3, Busy(g) \ {b})
  <2>1. Keeps(h2, g2, h3, g3, Busy(g2) \ {b})
    BY <1>14 DEF Resized
  <2>2. Busy(g) \ {b} \subseteq Busy(g2) \ {b}
    BY <1>9
  <2> QED
    BY <1>10, <2>1, <2>2, KeepsTransitive
<1>17. \A a \in b + 1 .. b + g.sz[b] : a <= b + size => h3.mem[a] = h.mem[a]
  <2>1. \A a \in b + 1 .. b + g2.sz[b] : a <= b + size => h3.mem[a] = h2.mem[a]
    BY <1>14 DEF Resized
  <2>2. \A a \in b + 1 .. b + g.sz[b] : a \in b + 1 .. b + g2.sz[b]
    BY <1>1, <1>6
  <2> QED
    BY <1>11, <2>1, <2>2
<1>18. Resized(h, g, h3, g3, b, size)
  BY <1>15, <1>16, <1>17 DEF Resized
<1> QED
  BY <1>18 DEF h3

\* Instead of block b the caller has block q, with what b held in both sizes
\* when q is b.
Regiven(h, g, h2, g2, b, q, size) ==
  /\ Whole(h2, g2)
  /\ Used(h2, g2) = (Used(h, g) \ {b}) \cup {q} /\ q \notin Used(h, g) \ {b}
  /\ g2.sz[q] >= size
  /\ Keeps(h, g, h2, g2, Used(h, g) \ {b})
  /\ q = b => \A a \in b + 1 .. b + g.sz[b] : a <= b + size => h2.mem[a] = h.mem[a]

\* A block resized in its place is given anew.
LEMMA ResizedRegiven ==
  ASSUME NEW h, NEW g, NEW h2, NEW b \in Used(h, g), NEW size,
         \E g2 : Resized(h, g, h2, g2, b, size)
  PROVE  \E g2 : Regiven(h, g, h2, g2, b, b, size)
<1>1. PICK g2 : Resized(h, g, h2, g2, b, size)
  OBVIOUS
<1>2. Used(h2, g2) = Used(h, g) /\ Used(h, g) = (Used(h, g) \ {b}) \cup {b}
  BY <1>1 DEF Resized, Used
<1>3. Keeps(h, g, h2, g2, Used(h, g) \ {b})
  <2>1. Used(h, g) \ {b} \subseteq Busy(g) \ {b}
    BY DEF Used
  <2>2. Keeps(h, g, h2, g2, Busy(g) \ {b})
    BY <1>1 DEF Resized
  <2> QED
    BY <2>1, <2>2, KeepsFewer
<1>4. Regiven(h, g, h2, g2, b, b, size)
  BY <1>1, <1>2, <1>3 DEF Regiven, Resized
<1> QED
  BY <1>4

\* tlsf_realloc keeps the block or moves it; careful callers get their size.
LEMMA ReallocSound ==
  ASSUME NEW h, NEW g, Whole(h, g), NEW b \in Used(h, g), g.sz[b] > 0,
         NEW size \in Nat, size > 0,
         ~ (size > Size(Realloc(h, b, size).heap, Realloc(h, b, size).block)),
         size = Size(h, b) - 1 => IsFree(h, Behind(h, b))
  PROVE  LET m == Realloc(h, b, size)
         IN  \E g2 : Regiven(h, g, m.heap, g2, b, m.block, size)
<1> DEFINE m == Realloc(h, b, size)
           n == Nx(g, b)
           moved == Alloc(h, size)
<1>1. /\ Layout(Areas(h), g) /\ b \in Busy(g) /\ b \in g.hs
      /\ b \notin AtsOf(Areas(h)) /\ b \notin EndsOf(Areas(h))
      /\ Size(h, b) = g.sz[b] /\ g.sz[b] \in Nat /\ b \in Nat /\ Behind(h, b) = n
      /\ n \in g.hs /\ Size(h, n) = g.sz[n] /\ g.sz[n] \in Nat
      /\ IsFree(h, n) <=> n \in g.fr
  <2>1. /\ Layout(Areas(h), g) /\ b \in Busy(g) /\ b \in g.hs
        /\ b \notin AtsOf(Areas(h)) /\ b \notin EndsOf(Areas(h))
    BY DEF Whole, Sound, Used, Busy
  <2>2. n \in g.hs
    BY <2>1, Neighbours
  <2>3. Size(h, b) = g.sz[b] /\ Size(h, n) = g.sz[n] /\ (IsFree(h, n) <=> n \in g.fr)
    BY <2>1, <2>2 DEF Whole, Sound, Tags
  <2>4. Behind(h, b) = n
    BY <2>3 DEF Behind, Nx
  <2> QED
    BY <2>1, <2>2, <2>3, <2>4, Neighbours
<1> DEFINE fits == IsFree(h, n) /\ size <= Size(h, b) + Size(h, n) + 1
<1>2. CASE size = g.sz[b]
  <2>1. m = [heap |-> h, block |-> b]
    BY <1>1, <1>2 DEF Realloc
  <2>2. m.heap = h /\ m.block = b
    BY <2>1
  <2>3. Keeps(h, g, h, g, Busy(g) \ {b})
    BY DEF Keeps, Busy
  <2>4. g.sz[b] >= size
    BY <1>1, <1>2
  <2>5. Resized(h, g, h, g, b, size)
    BY <2>3, <2>4 DEF Resized
  <2> HIDE DEF m
  <2>6. \E g2 : Resized(h, g, m.heap, g2, b, size)
    BY <2>2, <2>5
  <2> DEFINE h2 == m.heap
  <2> HIDE DEF h2
  <2>7. \E g2 : Regiven(h, g, h2, g2, b, b, size)
    BY <2>6, ResizedRegiven DEF h2
  <2> QED
    BY <2>2, <2>7 DEF m, h2
<1>3. CASE size < g.sz[b]
  <2>1. m.heap = Shrink(h, b, size) /\ m.block = b
    BY <1>1, <1>3 DEF Realloc
  <2> DEFINE h2 == Shrink(h, b, size)
             N  == {}
  <2>2. Sound(h, g, {}, N, {}) /\ N \subseteq {b}
    BY DEF Whole
  <2>3. size + 1 <= g.sz[b] /\ (g.sz[b] = size + 1 => Nx(g, b) \in g.fr)
    BY <1>1, <1>3
  <2> HIDE DEF N, h2
  <2>4. \E g2 : Resized(h, g, h2, g2, b, size)
    BY <2>2, <2>3, ShrinkSound DEF h2
  <2>5. \E g2 : Regiven(h, g, h2, g2, b, b, size)
    BY <2>4, ResizedRegiven
  <2> HIDE DEF m
  <2> QED
    BY <2>1, <2>5 DEF h2, m
<1>4. CASE size > g.sz[b] /\ fits
  <2>1. m.heap = Extend(h, b, size) /\ m.block = b
    BY <1>1, <1>4 DEF Realloc
  <2> DEFINE h2 == Extend(h, b, size)
  <2>2. /\ Nx(g, b) \in g.fr /\ g.sz[b] < size
        /\ size <= g.sz[b] + g.sz[Nx(g, b)] + 1
    BY <1>1, <1>4
  <2>3. \E g2 : Resized(h, g, h2, g2, b, size)
    BY <2>2, ExtendSound
  <2> HIDE DEF h2
  <2>4. \E g2 : Regiven(h, g, h2, g2, b, b, size)
    BY <2>3, ResizedRegiven
  <2> HIDE DEF m
  <2> QED
    BY <2>1, <2>4 DEF h2, m
<1>5. CASE size > g.sz[b] /\ ~ fits
  <2>1. m = IF moved.block = 0 THEN [heap |-> moved.heap, block |-> b]
            ELSE [heap |-> FreeVec(moved.heap, b), block |-> moved.block]
    BY <1>1, <1>5 DEF Realloc
  <2> DEFINE h1 == moved.heap
             q  == moved.block
  <2>2. PICK g1 : Given(h, g, h1, g1, q, size)
    BY AllocSound
  <2>3. ~ (size > Size(m.heap, m.block))
    OBVIOUS
  <2> HIDE DEF m, moved
  <2>4. /\ Whole(h1, g1) /\ Keeps(h, g, h1, g1, Busy(g))
        /\ b \in Busy(g1) /\ g1.sz[b] = g.sz[b] /\ b \in g1.hs
    BY <1>1, <2>2 DEF Given, Keeps, Busy
  <2>5. q # 0
    <3> SUFFICES ASSUME q = 0 PROVE FALSE
      OBVIOUS
    <3>1. m.heap = h1 /\ m.block = b
      BY <2>1
    <3>2. Size(h1, b) = g.sz[b]
      BY <2>4 DEF Whole, Sound, Tags
    <3> QED
      BY <1>1, <1>5, <2>3, <3>1, <3>2
  <2> DEFINE h2 == FreeVec(h1, b)
  <2>6. m.heap = h2 /\ m.block = q
    BY <2>1, <2>5
  <2>7. /\ Used(h1, g1) = Used(h, g) \cup {q} /\ q \notin Used(h, g) /\ q # b
        /\ g1.sz[q] >= size
    BY <2>2, <2>5 DEF Given
  <2>8. b \notin AtsOf(Areas(h1)) /\ b \notin EndsOf(Areas(h1)) /\ q \in Busy(g1)
    BY <2>7 DEF Used
  <2>9. PICK g2 : /\ Served(h1, g1, h2, g2, Busy(g1) \ {b})
                  /\ Busy(g2) = Busy(g1) \ {b}
    BY <2>4, <2>8, FreeVecSound
  <2> HIDE DEF h1, q, h2
  <2>10. /\ Whole(h2, g2) /\ Areas(h2) = Areas(h1)
         /\ Keeps(h1, g1, h2, g2, Busy(g1) \ {b})
    BY <2>9 DEF Served
  <2>11. Used(h2, g2) = (Used(h, g) \ {b}) \cup {q}
    <3>1. Used(h2, g2) = Used(h1, g1) \ {b}
      BY <2>9, <2>10 DEF Used
    <3> QED
      BY <2>7, <3>1
  <2>12. g2.sz[q] >= size
    <3>1. g2.sz[q] = g1.sz[q]
      BY <2>7, <2>8, <2>10 DEF Keeps
    <3> QED
      BY <2>7, <3>1
  <2>13. Keeps(h, g, h2, g2, Used(h, g) \ {b})
    <3>1. Used(h, g) \ {b} \subseteq Busy(g)
      BY DEF Used
    <3>2. Used(h, g) \ {b} \subseteq Busy(g1) \ {b}
      BY <2>7 DEF Used
    <3>3. Keeps(h, g, h1, g1, Used(h, g) \ {b})
      BY <2>4, <3>1, KeepsFewer
    <3> QED
      BY <2>10, <3>2, <3>3, KeepsTransitive
  <2>14. Regiven(h, g, h2, g2, b, q, size)
    BY <2>7, <2>10, <2>11, <2>12, <2>13 DEF Regiven
  <2> QED
    BY <2>6, <2>14 DEF m
<1> QED
  BY <1>1, <1>2, <1>3, <1>4, <1>5

-----------------------------------------------------------------------------
(* tlsf_malloc_aligned *)

OnlyFreed(h, g, h2, g2, c) ==
  Served(h, g, h2, g2, Busy(g) \ {c}) /\ Busy(g2) = Busy(g) \ {c}

\* The rest c of a block that has been cut merges with a free block behind and
\* goes to its list.
LEMMA TailSound ==
  ASSUME NEW h, NEW g, NEW c \in Busy(g), Sound(h, g, {c}, {c}, {}),
         c \notin AtsOf(Areas(h)), c \notin EndsOf(Areas(h)), IsFree(h, c),
         \A p \in g.fr : Nx(g, p) # c,
         IF Nx(g, c) \in g.fr THEN Nx(g, Nx(g, c)) \in EndsOf(Areas(h)) ELSE g.sz[c] > 0
  PROVE  LET h2 == InsertFreeBlock(MergeNext(TellNext(h, c), c), c)
         IN  \E g2 : OnlyFreed(h, g, h2, g2, c)
<1> DEFINE R  == Areas(h)
           n  == Nx(g, c)
           h1 == TellNext(h, c)
           g2 == Absorbed(g, c)
           h2 == MergeNext(h1, c)
           m  == Nx(g2, c)
           g3 == Freed(g2, c)
           h3 == InsertFreeBlock(h2, c)
           C  == {c}
           N  == {}
<1>1. /\ Layout(R, g) /\ c \in g.hs /\ c \notin N /\ C \cup {c} = C /\ C \ {c} = N
      /\ c \notin g.fr /\ n # c /\ g.sz[c] \in Nat
  <2>1. Layout(R, g) /\ c \in g.hs /\ c \notin g.fr
    BY DEF Sound, Busy
  <2>2. c \in Nat /\ n \in Nat /\ n > c /\ g.sz[c] \in Nat
    BY <2>1, Neighbours
  <2> HIDE DEF n
  <2> QED
    BY <2>1, <2>2
<1> HIDE DEF n
<1>2. Sound(h, g, C, C, N)
  OBVIOUS
<1>3. After(h, g, h1, n, C, C, N) /\ Says(h1, n, c, Size(h, n), IsFree(h, n), TRUE)
  <2> HIDE DEF C, N, h1
  <2>1. /\ After(h, g, h1, n, C, C \cup {c}, N)
        /\ Says(h1, n, c, Size(h, n), IsFree(h, n), TRUE)
    BY <1>1, <1>2, TellNextSound DEF n, h1
  <2> QED
    BY <1>1, <2>1
<1> HIDE DEF h1
<1>4. /\ Sound(h1, g, C, C, N) /\ Areas(h1) = R /\ h1.brk = h.brk
      /\ Keeps(h, g, h1, g, Busy(g)) /\ IsFree(h1, c)
  <2>1. But(h, h1, {n})
    BY <1>3 DEF After
  <2>2. c \in 1 .. MemTop
    BY <1>1 DEF Layout, Ordered
  <2>3. h1.mem[c] = h.mem[c]
    BY <1>1, <2>1, <2>2 DEF But
  <2>4. IsFree(h1, c)
    BY <2>3, SameHeader
  <2> QED
    BY <1>3, <2>1, <2>4 DEF After, But
<1>5. NextIn(h1, g, h2, c, C, C, N)
  <2>1. Nx(g, c) \notin C /\ Nx(g, c) \notin N
    BY <1>1 DEF n
  <2> HIDE DEF C, N
  <2> QED
    BY <1>1, <1>4, <2>1, MergeNextSound
<1>6. Grown(g, g2, c) /\ Layout(R, g2)
  BY <1>1, AbsorbedLayout
<1> HIDE DEF h2
<1>7. /\ Sound(h2, g2, C, C, N) /\ Areas(h2) = R /\ h2.brk = h.brk
      /\ Keeps(h1, g, h2, g2, Busy(g) \ {c}) /\ IsFree(h2, c)
      /\ n \in g.fr => PrevFree(h2, m)
      /\ n \notin g.fr => h2 = h1
  <2>1. n \in g.fr => n \in g.fr \ C
    BY <1>1
  <2> HIDE DEF C, g2
  <2> QED
    BY <1>1, <1>4, <1>5, <2>1 DEF NextIn, g2, n
<1>8. n \notin g.fr => g2 = g /\ m = n
  BY DEF Absorbed, n
<1> HIDE DEF g2
<1>9. /\ c \in Busy(g2) /\ Busy(g2) = Busy(g) /\ m \notin g2.fr
      /\ \A p \in g2.fr : Nx(g2, p) # c
      /\ n \in g.fr => g2.sz[c] > 0 /\ m = Nx(g, n)
  BY <1>6 DEF Grown, n
<1>10. PrevFree(h2, m) /\ (m \notin EndsOf(R) => h2.mem[m].prev = c) /\ g2.sz[c] > 0
  <2>1. CASE n \in g.fr
    BY <1>7, <1>9, <2>1 DEF n
  <2>2. CASE n \notin g.fr
    BY <1>3, <1>7, <1>8, <2>2 DEF Says, n
  <2> QED
    BY <2>1, <2>2
<1>11. Inserted(h2, g2, h3, c, C, C, N)
  <2>1. /\ c \notin AtsOf(Areas(h2)) /\ c \notin EndsOf(Areas(h2))
        /\ PrevFree(h2, Nx(g2, c)) /\ Nx(g2, c) \notin g2.fr
        /\ Nx(g2, c) \notin EndsOf(Areas(h2)) => h2.mem[Nx(g2, c)].prev = c
    BY <1>7, <1>9, <1>10
  <2> HIDE DEF C, N, m
  <2> QED
    BY <1>1, <1>7, <1>9, <1>10, <2>1, InsertSound
<1>12. Whole(h3, g3) /\ Areas(h3) = R /\ h3.brk = h.brk
       /\ Keeps(h2, g2, h3, g3, Busy(g2) \ {c})
  <2> HIDE DEF C, N
  <2>1. Sound(h3, g3, N, N, N)
    BY <1>1, <1>11 DEF Inserted
  <2> QED
    BY <1>7, <1>11, <2>1 DEF Inserted, Whole, N
<1>13. Busy(g3) = Busy(g2) \ {c}
  BY DEF Freed, Busy
<1> HIDE DEF h3, g3
<1>14. Keeps(h, g, h3, g3, Busy(g) \ {c})
  <2>1. Busy(g) \ {c} \subseteq Busy(g)
    OBVIOUS
  <2>2. Keeps(h, g, h1, g, Busy(g) \ {c})
    BY <1>4, <2>1, KeepsFewer
  <2>3. Busy(g) \ {c} \subseteq Busy(g) \ {c}
    OBVIOUS
  <2>4. Keeps(h, g, h2, g2, Busy(g) \ {c})
    BY <1>7, <2>2, <2>3, KeepsTransitive
  <2>5. Keeps(h2, g2, h3, g3, Busy(g) \ {c})
    BY <1>9, <1>12
  <2> QED
    BY <2>3, <2>4, <2>5, KeepsTransitive
<1>15. OnlyFreed(h, g, h3, g3, c)
  BY <1>9, <1>12, <1>13, <1>14 DEF Served, OnlyFreed
<1> QED
  BY <1>15 DEF h3, h2, h1

\* An aligned block begins less than align units further on.
LEMMA AlignedBounds ==
  ASSUME NEW b \in Nat, NEW align \in Nat \ {0}
  PROVE  Aligned(b, align) \in b .. b + align - 1
<1> DEFINE q == (b + align) \div align
           r == (b + align) % align
<1>1. q \in Nat /\ r \in 0 .. align - 1 /\ b + align = align * q + r
  <2>1. b + align \in Nat
    OBVIOUS
  <2> QED
    BY <2>1, Quotient
<1>2. b + 1 + align - 1 = b + align /\ q * align = align * q
  BY <1>1
<1>3. Aligned(b, align) = q * align - 1
  BY <1>2 DEF Aligned
<1>4. align * q \in Nat
  BY <1>1
<1> HIDE DEF q, r
<1> DEFINE p == align * q
<1>5. Aligned(b, align) = p - 1 /\ p \in Nat /\ b + align = p + r
  BY <1>1, <1>2, <1>3, <1>4
<1> HIDE DEF p
<1> QED
  BY <1>1, <1>5

\* The blocks once a caller has block ab in block b.
AlignedDone(h, g, h2, g2, b, ab, size) ==
  /\ Served(h, g, h2, g2, Busy(g) \ {b})
  /\ Busy(g2) = (Busy(g) \ {b}) \cup {ab} /\ ab \notin Busy(g) \ {b}
  /\ ab \notin AtsOf(Areas(h)) /\ ab \notin EndsOf(Areas(h)) /\ ab \in Nat \ {0}
  /\ g2.sz[ab] = size

\* The headers of the aligned block ab and of the rest c behind it are written,
\* all that is left to do is to bring c to its list.
AlignedCut(h, g, h2, g2, b, ab, c, size) ==
  /\ Sound(h2, g2, {c}, {c}, {}) /\ Areas(h2) = Areas(h) /\ h2.brk = h.brk
  /\ c \in Busy(g2) /\ c \notin AtsOf(Areas(h)) /\ c \notin EndsOf(Areas(h))
  /\ IsFree(h2, c) /\ \A p \in g2.fr : Nx(g2, p) # c
  /\ Nx(g2, c) = Nx(g, b) /\ g2.sz[c] = Nx(g, b) - c - 1
  /\ \A d \in g.fr : d \in g2.fr /\ Nx(g2, d) = Nx(g, d)
  /\ Nx(g, b) \in g2.fr => Nx(g, b) \in g.fr
  /\ Busy(g2) = (Busy(g) \ {b}) \cup {ab, c} /\ ab # c /\ c \notin Busy(g)
  /\ ab \notin Busy(g) \ {b}
  /\ ab \notin AtsOf(Areas(h)) /\ ab \notin EndsOf(Areas(h)) /\ ab \in Nat \ {0}
  /\ g2.sz[ab] = size
  /\ Keeps(h, g, h2, g2, Busy(g) \ {b})

\* The rest behind an aligned block comes to its list.
LEMMA AlignedTail ==
  ASSUME NEW h, NEW g, NEW h1, NEW g1, NEW b, NEW ab, NEW c, NEW size,
         AlignedCut(h, g, h1, g1, b, ab, c, size),
         IF Nx(g, b) \in g.fr THEN Nx(g, Nx(g, b)) \in EndsOf(Areas(h))
         ELSE Nx(g, b) - c - 1 > 0
  PROVE  LET h2 == InsertFreeBlock(MergeNext(TellNext(h1, c), c), c)
         IN  \E g2 : AlignedDone(h, g, h2, g2, b, ab, size)
<1> DEFINE h2 == InsertFreeBlock(MergeNext(TellNext(h1, c), c), c)
<1>1. /\ Sound(h1, g1, {c}, {c}, {}) /\ Areas(h1) = Areas(h) /\ h1.brk = h.brk
      /\ c \in Busy(g1) /\ c \notin AtsOf(Areas(h1)) /\ c \notin EndsOf(Areas(h1))
      /\ IsFree(h1, c) /\ \A p \in g1.fr : Nx(g1, p) # c
  BY DEF AlignedCut
<1>2. IF Nx(g1, c) \in g1.fr THEN Nx(g1, Nx(g1, c)) \in EndsOf(Areas(h1)) ELSE g1.sz[c] > 0
  BY <1>1 DEF AlignedCut
<1>3. PICK g2 : /\ Served(h1, g1, h2, g2, Busy(g1) \ {c})
                /\ Busy(g2) = Busy(g1) \ {c}
  <2>1. c \in Busy(g1)
    BY <1>1
  <2>2. Sound(h1, g1, {c}, {c}, {})
    BY <1>1
  <2>3. c \notin AtsOf(Areas(h1)) /\ c \notin EndsOf(Areas(h1)) /\ IsFree(h1, c)
    BY <1>1
  <2>4. \A p \in g1.fr : Nx(g1, p) # c
    BY <1>1
  <2>5. \E g2 : OnlyFreed(h1, g1, h2, g2, c)
    BY <1>2, <2>1, <2>2, <2>3, <2>4, TailSound
  <2> QED
    BY <2>5 DEF OnlyFreed
<1> HIDE DEF h2
<1>4. Busy(g2) = (Busy(g) \ {b}) \cup {ab}
  BY <1>3 DEF AlignedCut
<1>5. g2.sz[ab] = size
  <2>1. ab \in Busy(g1) \ {c} /\ g1.sz[ab] = size
    BY DEF AlignedCut
  <2> QED
    BY <1>3, <2>1 DEF Served, Keeps
<1>6. Keeps(h, g, h2, g2, Busy(g) \ {b})
  <2>1. Busy(g) \ {b} \subseteq Busy(g1) \ {c}
    BY DEF AlignedCut
  <2>2. Keeps(h, g, h1, g1, Busy(g) \ {b}) /\ Keeps(h1, g1, h2, g2, Busy(g1) \ {c})
    BY <1>3 DEF AlignedCut, Served
  <2> QED
    BY <2>1, <2>2, KeepsTransitive
<1>7. AlignedDone(h, g, h2, g2, b, ab, size)
  BY <1>1, <1>3, <1>4, <1>5, <1>6 DEF AlignedDone, AlignedCut, Served
<1> QED
  BY <1>7 DEF h2

\* The aligned block begins where the block does.
LEMMA AlignedAtStart ==
  ASSUME NEW h, NEW g, Whole(h, g), NEW b \in Used(h, g), NEW size \in Nat,
         size + 1 <= g.sz[b]
  PROVE  LET c == b + 1 + size
         IN  /\ AlignedCut(h, g, Split(h, b, size), Cut(g, b, size), b, b, c, size)
             /\ Header(SetSize(h, b, size), c, b, Nx(g, b) - c - 1, THIS_FREE)
                  = Split(h, b, size)
<1> DEFINE R  == Areas(h)
           n  == Nx(g, b)
           c  == b + 1 + size
           g1 == Cut(g, b, size)
           h1 == Split(h, b, size)
           N  == {}
<1>1. /\ Layout(R, g) /\ b \in Busy(g) /\ b \notin AtsOf(R) /\ b \notin EndsOf(R)
      /\ b \in g.hs /\ Size(h, b) = g.sz[b] /\ g.sz[b] \in Nat /\ b \in 1 .. MemTop
      /\ HeapType(h)
  <2>1. Layout(R, g) /\ b \in Busy(g) /\ b \notin AtsOf(R) /\ b \notin EndsOf(R)
        /\ HeapType(h)
    BY DEF Whole, Sound, Used
  <2>2. b \in g.hs
    BY <2>1 DEF Busy
  <2>3. Size(h, b) = g.sz[b]
    BY <2>2 DEF Whole, Sound, Tags
  <2> QED
    BY <2>1, <2>2, <2>3, Neighbours
<1>2. /\ Sound(h1, g1, {c}, {c}, {}) /\ But(h, h1, {b, c}) /\ Areas(h1) = R
      /\ Keeps(h, g, h1, g1, Busy(g) \ {b}) /\ IsFree(h1, c)
  <2> HIDE DEF h1
  <2>0. Sound(h, g, N, N, N)
    BY DEF Whole
  <2>1. IsSplit(h, g, h1, b, size, N, N, N)
    BY <1>1, <2>0, SplitSound DEF h1
  <2>2. N \cup {c} = {c} /\ (N \ {b}) \cup {c} = {c} /\ N \ {b} = {}
    OBVIOUS
  <2> QED
    BY <2>1, <2>2 DEF IsSplit
<1>3. /\ Layout(R, g1) /\ Nx(g1, b) = c /\ Nx(g1, c) = n
      /\ c \notin g.hs /\ c \in 1 .. MemTop /\ c \in b + 1 .. b + g.sz[b]
      /\ g1.hs = g.hs \cup {c} /\ g1.fr = g.fr
      /\ g1.sz[b] = size /\ g1.sz[c] = g.sz[b] - size - 1
      /\ c \in Busy(g1) /\ c \notin AtsOf(R) /\ c \notin EndsOf(R)
      /\ b \in Busy(g1)
  BY <1>1, CutLayout
<1>4. \A d \in g.hs \ {b} : Nx(g1, d) = Nx(g, d)
  BY <1>1, CutLayout
<1>5. n = b + 1 + g.sz[b] /\ c # b
  BY <1>1 DEF Nx
<1>6. n - c - 1 = g.sz[b] - size - 1 /\ n - c - 1 \in Nat
  BY <1>1, <1>5
<1>7. AlignedCut(h, g, h1, g1, b, b, c, size)
  <2> HIDE DEF h1, g1, c, n
  <2>1. \A d \in g.fr : d \in g.hs \ {b} /\ d \in g1.fr /\ Nx(g1, d) = Nx(g, d)
    BY <1>1, <1>3, <1>4 DEF Busy, Layout, Ordered
  <2>2. \A p \in g1.fr : Nx(g1, p) # c
    <3> SUFFICES ASSUME NEW p \in g1.fr PROVE Nx(g1, p) # c
      OBVIOUS
    <3>1. p \in g.fr /\ Nx(g1, p) = Nx(g, p) /\ Nx(g, p) \in g.hs
      BY <1>1, <1>3, <2>1, Neighbours DEF Busy
    <3> QED
      BY <1>3, <3>1
  <2>3. Busy(g1) = (Busy(g) \ {b}) \cup {b, c} /\ c \notin Busy(g)
    <3>1. c \notin g.fr
      BY <1>1, <1>3 DEF Layout, Ordered
    <3> QED
      BY <1>1, <1>3, <3>1 DEF Busy
  <2>4. g1.sz[c] = n - c - 1
    BY <1>3, <1>6
  <2>5. h1.brk = h.brk
    BY <1>2 DEF But
  <2>6. b \in Nat \ {0}
    BY <1>1
  <2> QED
    BY <1>1, <1>2, <1>3, <1>5, <2>1, <2>2, <2>3, <2>4, <2>5, <2>6 DEF AlignedCut, n
<1>8. Header(SetSize(h, b, size), c, b, n - c - 1, THIS_FREE) = Split(h, b, size)
  <2> DEFINE left == n - c - 1
             hs   == SetSize(h, b, size)
             hc   == Header(h, c, b, left, THIS_FREE)
             cell == [prev |-> b, len |-> 4 * left + THIS_FREE]
             len  == 4 * size + (h.mem[b].len % 4)
  <2>1. Split(h, b, size) = SetSize(hc, b, size)
    BY <1>1, <1>6 DEF Split
  <2> HIDE DEF left
  <2>2. hs = [h EXCEPT !.mem = [h.mem EXCEPT ![b] = [h.mem[b] EXCEPT !.len = len]]]
    BY DEF SetSize
  <2>3. hc = [h EXCEPT !.mem = [h.mem EXCEPT ![c] = cell]]
    BY DEF Header
  <2>4. h.mem \in [1 .. MemTop -> Cell]
    BY <1>1 DEF HeapType
  <2> HIDE DEF cell, hs, hc, len, c
  <2>5. /\ hs.mem = [h.mem EXCEPT ![b] = [h.mem[b] EXCEPT !.len = len]]
        /\ hc.mem = [h.mem EXCEPT ![c] = cell]
    BY <1>1, <2>2, <2>3 DEF HeapType
  <2>6. hc.mem[b] = h.mem[b]
    BY <1>1, <1>5, <2>4, <2>5
  <2> DEFINE both == [d \in 1 .. MemTop |->
                        IF d = c THEN cell
                        ELSE IF d = b THEN [h.mem[b] EXCEPT !.len = len] ELSE h.mem[d]]
  <2>7. [hs.mem EXCEPT ![c] = cell] = both
    BY <1>1, <1>3, <1>5, <2>4, <2>5
  <2>8. [hc.mem EXCEPT ![b] = [h.mem[b] EXCEPT !.len = len]] = both
    BY <1>1, <1>3, <1>5, <2>4, <2>5
  <2> HIDE DEF both
  <2>9. Header(hs, c, b, left, THIS_FREE) = [hs EXCEPT !.mem = [hs.mem EXCEPT ![c] = cell]]
    BY DEF Header, cell
  <2>10. SetSize(hc, b, size)
           = [hc EXCEPT !.mem = [hc.mem EXCEPT ![b] = [h.mem[b] EXCEPT !.len = len]]]
    BY <2>6 DEF SetSize, len
  <2>11. [hs EXCEPT !.mem = both] = [h EXCEPT !.mem = both]
    BY <1>1, <2>2 DEF HeapType
  <2>12. [hc EXCEPT !.mem = both] = [h EXCEPT !.mem = both]
    BY <1>1, <2>3 DEF HeapType
  <2> QED
    BY <2>1, <2>7, <2>8, <2>9, <2>10, <2>11, <2>12 DEF hs, left
<1> QED
  BY <1>7, <1>8

\* The headers are written, when block ab begins further on than b.
StandsApart(h, g, b, ab, size) ==
  LET c  == ab + 1 + size
      h1 == Header(h, ab, b, size, PREV_FREE)
      h2 == SetFree(SetSize(h1, b, ab - b - 1), b, TRUE)
      h3 == InsertFreeBlock(h2, b)
      h4 == Header(h3, c, ab, Nx(g, b) - c - 1, THIS_FREE)
  IN  /\ \E g2 : AlignedCut(h, g, h4, g2, b, ab, c, size)
      /\ MergePrev(h2, b) = [heap |-> h2, block |-> b]

\* The aligned block begins further on, a free block is left before it.
LEMMA AlignedApart ==
  ASSUME NEW h, NEW g, Whole(h, g), NEW b \in Used(h, g), \A p \in g.fr : Nx(g, p) # b,
         NEW size \in Nat, NEW ab \in Nat, ab >= b + 2, ab + 1 + size <= b + g.sz[b]
  PROVE  StandsApart(h, g, b, ab, size)
<1> DEFINE R  == Areas(h)
           n  == Nx(g, b)
           c  == ab + 1 + size
           low == ab - b - 1
           g1 == Cut(g, b, low)
           h1 == Header(h, ab, b, size, PREV_FREE)
           hs == SetSize(h1, b, low)
           h2 == SetFree(hs, b, TRUE)
           g3 == Freed(g1, b)
           h3 == InsertFreeBlock(h2, b)
           g4 == Cut(g3, ab, size)
           h4 == Header(h3, c, ab, n - c - 1, THIS_FREE)
           N  == {}
           A  == {ab}
           AB == {b, ab}
<1>1. /\ Layout(R, g) /\ b \in Busy(g) /\ b \notin AtsOf(R) /\ b \notin EndsOf(R)
      /\ b \in g.hs /\ b \notin g.fr /\ g.sz[b] \in Nat /\ b \in 1 .. MemTop /\ HeapType(h)
  <2>1. Layout(R, g) /\ b \in Busy(g) /\ b \notin AtsOf(R) /\ b \notin EndsOf(R)
        /\ HeapType(h)
    BY DEF Whole, Sound, Used
  <2> QED
    BY <2>1, Neighbours DEF Busy
<1>2. /\ low \in Nat /\ low > 0 /\ b + 1 + low = ab /\ low + 1 <= g.sz[b]
      /\ n = b + 1 + g.sz[b] /\ ab \in 1 .. MemTop
  <2>1. /\ low \in Nat /\ low > 0 /\ b + 1 + low = ab /\ low + 1 <= g.sz[b]
        /\ n = b + 1 + g.sz[b]
    BY <1>1 DEF Nx
  <2>2. ab \in b + 1 .. b + g.sz[b]
    BY <1>1
  <2> QED
    BY <1>1, <2>1, <2>2, Inside
\* The block before b is busy.
<1>3. ~ PrevFree(h, b)
  <2>1. PICK p \in g.hs \ EndsOf(R) : Nx(g, p) = b
    BY <1>1 DEF Layout, Joined
  <2>2. PrevFree(h, Nx(g, p)) <=> p \in g.fr
    BY <2>1 DEF Whole, Sound, Tags
  <2> QED
    BY <2>1, <2>2
<1> HIDE DEF low
<1>4. /\ Layout(R, g1) /\ Nx(g1, b) = ab /\ Nx(g1, ab) = n
      /\ ab \notin g.hs /\ ab \in b + 1 .. b + g.sz[b]
      /\ g1.hs = g.hs \cup {ab} /\ g1.fr = g.fr
      /\ g1.sz[b] = low /\ g1.sz[ab] = g.sz[b] - low - 1
      /\ ab \in Busy(g1) /\ ab \notin AtsOf(R) /\ ab \notin EndsOf(R)
      /\ b \in Busy(g1)
      /\ \A d \in g.hs \ {b} : Nx(g1, d) = Nx(g, d)
  <2>1. /\ Layout(R, g1) /\ Nx(g1, b) = b + 1 + low /\ Nx(g1, b + 1 + low) = Nx(g, b)
        /\ b + 1 + low \notin g.hs /\ b + 1 + low \in b + 1 .. b + g.sz[b]
        /\ g1.hs = g.hs \cup {b + 1 + low} /\ g1.fr = g.fr
        /\ g1.sz[b] = low /\ g1.sz[b + 1 + low] = g.sz[b] - low - 1
        /\ b + 1 + low \in Busy(g1) /\ b + 1 + low \notin AtsOf(R)
        /\ b + 1 + low \notin EndsOf(R)
        /\ b \in Busy(g1)
    BY <1>1, <1>2, CutLayout
  <2>2. \A d \in g.hs \ {b} : Nx(g1, d) = Nx(g, d)
    BY <1>1, <1>2, CutLayout
  <2> HIDE DEF g1
  <2> QED
    BY <1>2, <2>1, <2>2
<1>5. /\ But(h, h1, {ab}) /\ h1.matrix = h.matrix
      /\ Says(h1, ab, b, size, FALSE, TRUE)
  <2>1. PREV_FREE \in 0 .. 3 /\ PREV_FREE % 2 = 0 /\ PREV_FREE >= 2
    BY DEF PREV_FREE
  <2>0. b \in Nat /\ ab \in 1 .. MemTop /\ HeapType(h) /\ size \in Nat
    BY <1>1, <1>2
  <2>2. /\ But(h, h1, {ab}) /\ h1.matrix = h.matrix
        /\ Says(h1, ab, b, size, PREV_FREE % 2 = 1, PREV_FREE >= 2)
    BY <2>0, <2>1, HeaderDone
  <2> QED
    BY <2>1, <2>2 DEF Says
<1> HIDE DEF h1
<1>6. /\ Sound(h1, g1, A, AB, AB) /\ Areas(h1) = R /\ h1.brk = h.brk
      /\ Keeps(h, g, h1, g1, Busy(g) \ {b})
      /\ \A d \in g.hs : h1.mem[d] = h.mem[d]
  <2>0. Sound(h, g, N, N, N)
    BY DEF Whole
  <2>1. But(h, h1, {b + 1 + low})
    BY <1>2, <1>5
  <2>2. Added(h, g, N, N, N, b, low, h1)
    BY <1>1, <1>2, <1>5, <2>0, <2>1, HeaderAdded
  <2>3. N \cup {ab} = A /\ N \cup {b, ab} = AB
    OBVIOUS
  <2> HIDE DEF N, A, AB, g1
  <2>4. Sound(h1, g1, A, AB, AB)
    BY <1>2, <2>2, <2>3 DEF Added, g1
  <2> QED
    BY <1>2, <1>5, <2>2, <2>4 DEF Added, But, g1
<1>7. Says(h1, b, h.mem[b].prev, Size(h, b), IsFree(h, b), FALSE)
  BY <1>1, <1>3, <1>6, SameHeader DEF Says
<1> HIDE DEF g1
<1>8. b \in g1.hs /\ b # ab /\ ab \in g1.hs
  BY <1>1, <1>4
<1>9. /\ After(h1, g1, hs, b, A, AB, A)
      /\ Says(hs, b, h1.mem[b].prev, low, IsFree(h1, b), PrevFree(h1, b))
  <2>1. AB \subseteq A \cup {b} /\ (b \in A \/ low = g1.sz[b])
    BY <1>4
  <2> HIDE DEF AB, A
  <2> QED
    BY <1>2, <1>6, <1>8, <2>1, SetSizeSound
<1> HIDE DEF hs
<1>10. Sound(hs, g1, A, AB, A)
  BY <1>9 DEF After
<1>11. /\ After(hs, g1, h2, b, AB, AB, A)
       /\ Says(h2, b, hs.mem[b].prev, Size(hs, b), TRUE, PrevFree(hs, b))
  <2>1. TRUE \in BOOLEAN /\ A \subseteq AB \cup {b} /\ (b \in AB \/ (TRUE <=> b \in g1.fr))
    OBVIOUS
  <2> HIDE DEF A, AB
  <2> QED
    BY <1>8, <1>10, <2>1, SetFreeSound
<1> HIDE DEF h2
<1>12. /\ Sound(h2, g1, AB, AB, A) /\ Areas(h2) = R /\ h2.brk = h.brk
       /\ Keeps(h1, g1, h2, g1, Busy(g1)) /\ IsFree(h2, b) /\ ~ PrevFree(h2, b)
       /\ h2.mem[ab] = h1.mem[ab]
  <2>1. /\ Keeps(h1, g1, hs, g1, Busy(g1)) /\ Keeps(hs, g1, h2, g1, Busy(g1))
        /\ But(h1, hs, {b}) /\ But(hs, h2, {b})
    BY <1>9, <1>11 DEF After
  <2>2. Keeps(h1, g1, h2, g1, Busy(g1))
    BY <2>1, KeepsTransitive
  <2>3. h2.mem[ab] = h1.mem[ab] /\ h2.brk = h1.brk
    BY <1>2, <1>8, <2>1 DEF But
  <2> QED
    BY <1>6, <1>7, <1>9, <1>11, <2>2, <2>3 DEF After, Says
<1>13. MergePrev(h2, b) = [heap |-> h2, block |-> b]
  BY <1>12 DEF MergePrev
<1>14. Says(h2, ab, b, size, FALSE, TRUE)
  BY <1>5, <1>12, SameHeader DEF Says
<1>15. \A p \in g1.fr : Nx(g1, p) # b
  <2> SUFFICES ASSUME NEW p \in g1.fr PROVE Nx(g1, p) # b
    OBVIOUS
  <2>1. p \in g.fr /\ p \in g.hs \ {b}
    BY <1>1, <1>4 DEF Layout, Ordered
  <2> QED
    BY <1>4, <2>1
<1>16. /\ Inserted(h2, g1, h3, b, AB, AB, A) /\ h3.mem[ab] = h2.mem[ab]
  <2>1. /\ b \in Busy(g1) /\ b \notin AtsOf(Areas(h2)) /\ b \notin EndsOf(Areas(h2))
        /\ b \notin A /\ g1.sz[b] > 0 /\ IsFree(h2, b) /\ PrevFree(h2, Nx(g1, b))
    BY <1>1, <1>2, <1>4, <1>8, <1>12, <1>14 DEF Says
  <2>2. /\ Nx(g1, b) \notin EndsOf(Areas(h2)) => h2.mem[Nx(g1, b)].prev = b
        /\ Nx(g1, b) \notin g1.fr
    BY <1>4, <1>14 DEF Says, Busy
  <2> HIDE DEF A, AB
  <2>3. Inserted(h2, g1, h3, b, AB, AB, A) /\ h3.mem[Nx(g1, b)] = h2.mem[Nx(g1, b)]
    BY <1>12, <1>15, <2>1, <2>2, InsertSound
  <2> QED
    BY <1>4, <2>3
<1> HIDE DEF h3
<1>17. /\ Sound(h3, g3, A, A, A) /\ Areas(h3) = R /\ h3.brk = h.brk
       /\ Keeps(h2, g1, h3, g3, Busy(g1) \ {b})
  <2>1. AB \ {b} = A
    BY <1>8
  <2> HIDE DEF A, AB
  <2> QED
    BY <1>12, <1>16, <2>1 DEF Inserted
<1>18. Layout(R, g3) /\ (\A d : Nx(g3, d) = Nx(g1, d)) /\ Busy(g3) = Busy(g1) \ {b}
  <2>1. /\ b \in Busy(g1) /\ g1.sz[b] > 0 /\ Nx(g1, b) \notin g1.fr
    BY <1>2, <1>4 DEF Busy
  <2> QED
    BY <1>1, <1>4, <1>15, <2>1, FreedLayout
<1>19. g3.hs = g1.hs /\ g3.sz = g1.sz /\ g3.fr = g1.fr \cup {b}
  BY DEF Freed
<1> HIDE DEF g3
<1>20. Says(h3, ab, b, size, FALSE, TRUE)
  BY <1>14, <1>16, SameHeader DEF Says
<1>21. /\ ab \in Busy(g3) /\ ab \in g3.hs /\ size + 1 <= g3.sz[ab]
       /\ g3.sz[ab] = g.sz[b] - low - 1
  <2>1. ab \in Busy(g3) /\ g3.sz[ab] = g.sz[b] - low - 1
    BY <1>4, <1>8, <1>18, <1>19
  <2>2. size + 1 <= g.sz[b] - low - 1
    BY <1>1, <1>2
  <2> QED
    BY <2>1, <2>2 DEF Busy
<1>22. /\ Layout(R, g4) /\ Nx(g4, ab) = c /\ Nx(g4, c) = n
       /\ c \notin g3.hs /\ c \in 1 .. MemTop
       /\ g4.hs = g3.hs \cup {c} /\ g4.fr = g3.fr
       /\ g4.sz[ab] = size /\ g4.sz[c] = g3.sz[ab] - size - 1
       /\ c \in Busy(g4) /\ c \notin AtsOf(R) /\ c \notin EndsOf(R)
       /\ ab \in Busy(g4)
  <2>1. Nx(g3, ab) = n
    BY <1>4, <1>18
  <2> HIDE DEF n
  <2> QED
    BY <1>4, <1>18, <1>21, <2>1, CutLayout
<1>23. \A d \in g3.hs \ {ab} : Nx(g4, d) = Nx(g3, d)
  BY <1>4, <1>18, <1>21, CutLayout
<1>24. n - c - 1 \in Nat /\ n - c - 1 = g3.sz[ab] - size - 1
  BY <1>1, <1>2, <1>21
<1>25. /\ But(h3, h4, {c}) /\ h4.matrix = h3.matrix
       /\ Says(h4, c, ab, n - c - 1, TRUE, FALSE)
  <2> DEFINE left == n - c - 1
  <2>1. THIS_FREE \in 0 .. 3 /\ THIS_FREE % 2 = 1 /\ ~ (THIS_FREE >= 2)
    BY DEF THIS_FREE
  <2>2. HeapType(h3)
    BY <1>17 DEF Sound
  <2>3. left \in Nat /\ c \in 1 .. MemTop
    BY <1>22, <1>24
  <2> HIDE DEF left, c, n
  <2>4. /\ But(h3, h4, {c}) /\ h4.matrix = h3.matrix
        /\ Says(h4, c, ab, left, THIS_FREE % 2 = 1, THIS_FREE >= 2)
    BY <2>1, <2>2, <2>3, HeaderDone DEF left
  <2> QED
    BY <2>1, <2>4 DEF Says, left
<1> HIDE DEF h4
<1>26. Added(h3, g3, A, A, A, ab, size, h4)
  <2>1. ab \notin AtsOf(Areas(h3)) /\ ab \notin EndsOf(Areas(h3)) /\ But(h3, h4, {ab + 1 + size})
    BY <1>4, <1>17, <1>25
  <2> HIDE DEF A
  <2> QED
    BY <1>17, <1>21, <1>25, <2>1, HeaderAdded
<1>27. /\ Sound(h4, g4, {ab, c}, {ab, c}, {ab, c}) /\ Areas(h4) = R /\ h4.brk = h.brk
       /\ Keeps(h3, g3, h4, g4, Busy(g3) \ {ab})
       /\ h4.mem[ab] = h3.mem[ab]
  <2>1. A \cup {c} = {ab, c} /\ A \cup {ab, c} = {ab, c}
    OBVIOUS
  <2> HIDE DEF A, g4
  <2>2. Sound(h4, g4, {ab, c}, {ab, c}, {ab, c})
    BY <1>26, <2>1 DEF Added, g4
  <2> QED
    BY <1>17, <1>21, <1>25, <1>26, <2>2 DEF Added, But, g4
<1> HIDE DEF g4
<1>28. Says(h4, ab, b, size, FALSE, TRUE)
  BY <1>20, <1>27, SameHeader DEF Says
<1> HIDE DEF c
<1>29. Sound(h4, g4, {c}, {c}, {})
  <2> DEFINE X == {ab, c}
             C == {c}
  <2>1. ab \notin g4.fr
    BY <1>22 DEF Busy
  <2>2. /\ \A d \in X \cap g4.hs : d \in C \/ (IsFree(h4, d) <=> d \in g4.fr)
        /\ \A d \in X \cap g4.hs : \/ d \in C \/ d \in EndsOf(Areas(h4))
                                   \/ PrevFree(h4, Nx(g4, d)) <=> d \in g4.fr
        /\ \A d \in X \cap g4.hs : d \in N \/ Size(h4, d) = g4.sz[d]
    BY <1>22, <1>24, <1>25, <1>28, <2>1 DEF Says
  <2>3. Sound(h4, g4, X, X, X)
    BY <1>27
  <2> HIDE DEF X, C, N
  <2>4. Sound(h4, g4, C, C, N)
    BY <2>2, <2>3, Fewer
  <2> QED
    BY <2>4 DEF C, N
<1>30. \A d \in g.fr : d \in g4.fr /\ Nx(g4, d) = Nx(g, d)
  <2> SUFFICES ASSUME NEW d \in g.fr PROVE d \in g4.fr /\ Nx(g4, d) = Nx(g, d)
    OBVIOUS
  <2>1. d \in g.hs \ {b} /\ d # ab
    BY <1>1, <1>4 DEF Layout, Ordered
  <2>2. d \in g3.hs \ {ab}
    BY <1>4, <1>19, <2>1
  <2> QED
    BY <1>4, <1>18, <1>19, <1>22, <1>23, <2>1, <2>2
<1>31. \A p \in g4.fr : Nx(g4, p) # c
  <2> SUFFICES ASSUME NEW p \in g4.fr PROVE Nx(g4, p) # c
    OBVIOUS
  <2>1. CASE p = b
    <3>1. b \in g3.hs \ {ab}
      BY <1>8, <1>19
    <3> QED
      BY <1>4, <1>18, <1>19, <1>22, <1>23, <2>1, <3>1, <1>8
  <2>2. CASE p \in g.fr
    <3>1. Nx(g4, p) = Nx(g, p) /\ Nx(g, p) \in g.hs
      BY <1>1, <1>30, <2>2, Neighbours DEF Busy
    <3> QED
      BY <1>4, <1>19, <1>22, <3>1
  <2> QED
    BY <1>4, <1>19, <1>22, <2>1, <2>2
<1>32. n \in g4.fr => n \in g.fr
  <2>1. n # b
    BY <1>1, <1>2
  <2> QED
    BY <1>4, <1>19, <1>22, <2>1
<1>33. /\ Busy(g4) = (Busy(g) \ {b}) \cup {ab, c} /\ ab # c /\ c \notin Busy(g)
       /\ ab \notin Busy(g) \ {b}
  <2>1. ab \notin g.fr /\ c \notin g4.fr /\ c \notin g.hs /\ ab # c
    BY <1>1, <1>4, <1>19, <1>22, <1>21 DEF Layout, Ordered, Busy
  <2> QED
    BY <1>1, <1>4, <1>19, <1>22, <2>1 DEF Busy
<1>34. Keeps(h, g, h4, g4, Busy(g) \ {b})
  <2>1. Busy(g) \ {b} \subseteq Busy(g1) \ {b}
    BY <1>1, <1>4 DEF Busy
  <2>2. Busy(g) \ {b} \subseteq Busy(g1)
    BY <2>1
  <2>3. Keeps(h, g, h2, g1, Busy(g) \ {b})
    BY <1>6, <1>12, <2>2, KeepsTransitive
  <2>4. Keeps(h, g, h3, g3, Busy(g) \ {b})
    BY <1>17, <2>1, <2>3, KeepsTransitive
  <2>5. Busy(g) \ {b} \subseteq Busy(g3) \ {ab}
    BY <1>18, <1>33, <2>1
  <2> QED
    BY <1>27, <2>4, <2>5, KeepsTransitive
<1>35. AlignedCut(h, g, h4, g4, b, ab, c, size)
  <2>1. IsFree(h4, c) /\ g4.sz[c] = n - c - 1 /\ ab \in Nat \ {0}
    BY <1>2, <1>22, <1>24, <1>25 DEF Says
  <2> HIDE DEF n
  <2> QED
    BY <1>4, <1>22, <1>27, <1>29, <1>30, <1>31, <1>32, <1>33, <1>34, <2>1 DEF AlignedCut, n
<1> QED
  BY <1>13, <1>35 DEF StandsApart, h4, h3, h2, hs, h1, c, low

\* Ends, and the starts of the areas, as sets of areas.
LEMMA EndsAre ==
  ASSUME NEW h
  PROVE  /\ Ends(h) = EndsOf(Areas(h))
         /\ {h.areas[i].at : i \in DOMAIN h.areas} = AtsOf(Areas(h))
BY DEF Ends, EndsOf, AtsOf, Areas

\* tlsf_malloc_aligned cuts the aligned block out of the larger one it has.
LEMMA AllocAlignedSound ==
  ASSUME NEW got, NEW h, NEW b, got.heap = h, got.block = b, b # 0,
         NEW g, Whole(h, g), b \in Used(h, g), \A p \in g.fr : Nx(g, p) # b,
         NEW size \in Nat, NEW align \in Nat \ {0}, align # 1, g.sz[b] >= size + align,
         NEW ab, ab = Aligned(b, align), ab - b # 1,
         NEW next, next = Behind(h, b),
         IF IsFree(h, next) THEN Behind(h, next) \in Ends(h)
         ELSE next - (ab + 1 + size) # 1
  PROVE  LET m == AllocAligned(got, size, align, 0)
         IN  /\ m.block = ab
             /\ \E g2 : AlignedDone(h, g, m.heap, g2, b, ab, size)
<1> DEFINE c  == ab + 1 + size
           n  == Nx(g, b)
           h1 == IF ab = b THEN SetSize(h, b, size) ELSE Header(h, ab, b, size, PREV_FREE + 0)
           h2 == SetFree(SetSize(h1, b, ab - b - 1), b, TRUE)
           low == MergePrev(h2, b)
           h3 == IF ab = b THEN h1 ELSE InsertFreeBlock(low.heap, low.block)
           left == next - c
           h4 == Header(h3, c, ab, left - 1, THIS_FREE)
           h5 == InsertFreeBlock(MergeNext(TellNext(h4, c), c), c)
           m  == AllocAligned(got, size, align, 0)
<1>1. /\ Layout(Areas(h), g) /\ b \in Busy(g) /\ b \in g.hs /\ b \in Nat /\ g.sz[b] \in Nat
      /\ n \in g.hs /\ n = b + 1 + g.sz[b] /\ next = n
      /\ IsFree(h, n) <=> n \in g.fr
      /\ Size(h, n) = g.sz[n]
  <2>1. /\ Layout(Areas(h), g) /\ b \in Busy(g) /\ b \notin EndsOf(Areas(h)) /\ b \in g.hs
    BY DEF Whole, Sound, Used, Busy
  <2>2. n \in g.hs /\ b \in Nat /\ g.sz[b] \in Nat
    BY <2>1, Neighbours
  <2>3. Size(h, b) = g.sz[b] /\ Size(h, n) = g.sz[n] /\ (IsFree(h, n) <=> n \in g.fr)
    BY <2>1, <2>2 DEF Whole, Sound, Tags
  <2>4. next = n
    BY <2>3 DEF Behind, Nx
  <2> QED
    BY <2>1, <2>2, <2>3, <2>4 DEF Nx
<1>2. ab \in b .. b + align - 1
  BY <1>1, AlignedBounds
<1>3. /\ ab \in Nat /\ left > 0 /\ left = n - c /\ left - 1 = n - c - 1
      /\ ab + 1 + size <= b + g.sz[b]
  BY <1>1, <1>2
<1>4. m.heap = h5 /\ m.block = ab
  <2>1. m = [heap |-> h5, block |-> ab]
    BY <1>3 DEF AllocAligned
  <2> HIDE DEF m, h5
  <2> QED
    BY <2>1
<1>5. PREV_FREE + 0 = PREV_FREE
  BY DEF PREV_FREE
<1>6. \E g2 : AlignedCut(h, g, h4, g2, b, ab, c, size)
  <2>1. CASE ab = b
    <3>1. h4 = Header(SetSize(h, b, size), b + 1 + size, b, Nx(g, b) - (b + 1 + size) - 1, THIS_FREE)
      BY <1>3, <2>1
    <3>2. size + 1 <= g.sz[b]
      BY <1>1
    <3> DEFINE hs == Split(h, b, size)
    <3> HIDE DEF h4
    <3>3. /\ AlignedCut(h, g, hs, Cut(g, b, size), b, b, b + 1 + size, size)
          /\ Header(SetSize(h, b, size), b + 1 + size, b, Nx(g, b) - (b + 1 + size) - 1, THIS_FREE)
               = hs
      BY <3>2, AlignedAtStart
    <3> HIDE DEF hs
    <3> QED
      BY <2>1, <3>1, <3>3
  <2>2. CASE ab # b
    <3> DEFINE k1 == Header(h, ab, b, size, PREV_FREE)
               k2 == SetFree(SetSize(k1, b, ab - b - 1), b, TRUE)
               k3 == InsertFreeBlock(k2, b)
               k4 == Header(k3, ab + 1 + size, ab, Nx(g, b) - (ab + 1 + size) - 1, THIS_FREE)
    <3>1. ab >= b + 2
      BY <1>1, <1>2, <2>2
    <3>2. /\ \E g2 : AlignedCut(h, g, k4, g2, b, ab, ab + 1 + size, size)
          /\ MergePrev(k2, b) = [heap |-> k2, block |-> b]
      <4>1. ab \in Nat /\ ab + 1 + size <= b + g.sz[b]
        BY <1>3
      <4>2. StandsApart(h, g, b, ab, size)
        BY <3>1, <4>1, AlignedApart
      <4> QED
        BY <4>2 DEF StandsApart
    <3>3. h1 = k1 /\ h2 = k2
      BY <1>5, <2>2
    <3> HIDE DEF h2, k2
    <3>4. low.heap = k2 /\ low.block = b
      BY <3>2, <3>3
    <3>5. h3 = k3
      BY <2>2, <3>4
    <3> HIDE DEF h3, k3
    <3>6. h4 = k4
      BY <1>3, <3>5
    <3> HIDE DEF h4, k4
    <3> QED
      BY <3>2, <3>6
  <2> QED
    BY <2>1, <2>2
<1> HIDE DEF h4
<1>7. PICK g2 : AlignedCut(h, g, h4, g2, b, ab, c, size)
  BY <1>6
<1>8. IF n \in g.fr THEN Nx(g, n) \in EndsOf(Areas(h)) ELSE n - c - 1 > 0
  <2>1. Behind(h, n) = Nx(g, n)
    BY <1>1 DEF Behind, Nx
  <2>2. CASE n \in g.fr
    BY <1>1, <2>1, <2>2, EndsAre
  <2>3. CASE n \notin g.fr
    BY <1>1, <1>3, <2>3
  <2> QED
    BY <2>2, <2>3
<1> HIDE DEF c, h5
<1>9. \E g3 : AlignedDone(h, g, h5, g3, b, ab, size)
  BY <1>7, <1>8, AlignedTail DEF h5
<1> QED
  BY <1>4, <1>9 DEF m

-----------------------------------------------------------------------------
(* tlsf_allocabs *)

\* Block q of that size is in use.
Placed(h, g, h2, g2, q, size) ==
  /\ Served(h, g, h2, g2, Busy(g))
  /\ Busy(g2) = Busy(g) \cup {q} /\ q \notin Busy(g)
  /\ q \notin AtsOf(Areas(h)) /\ q \notin EndsOf(Areas(h))
  /\ g2.sz[q] >= size

\* Block b can be cut, whatever the header behind says of it.
LEMMA CutPlaced ==
  ASSUME NEW h, NEW g, NEW h1, NEW g1, NEW q \in Used(h1, g1), NEW Y, Y \subseteq {q},
         Sound(h1, g1, {}, Y, {}), Areas(h1) = Areas(h), h1.brk = h.brk,
         Busy(g1) = Busy(g) \cup {q}, q \notin Busy(g), Keeps(h, g, h1, g1, Busy(g)),
         NEW size \in Nat, size + 1 < g1.sz[q], Nx(g1, q) \notin g1.fr, g1.sz[q] \in Nat
  PROVE  LET h2 == Release(Split(h1, q, size), q + 1 + size)
         IN  \E g2 : Placed(h, g, h2, g2, q, size)
<1> DEFINE h2 == Release(Split(h1, q, size), q + 1 + size)
<1>1. size + 1 <= g1.sz[q] /\ (g1.sz[q] = size + 1 => Nx(g1, q) \in g1.fr)
  OBVIOUS
<1>2. /\ \E g2 : Resized(h1, g1, Shrink(h1, q, size), g2, q, size)
      /\ Nx(g1, q) \notin g1.fr => Shrink(h1, q, size) = h2
  BY <1>1, ShrinkSound
<1> HIDE DEF h2
<1>3. PICK g2 : Resized(h1, g1, h2, g2, q, size)
  BY <1>2
<1>4. Keeps(h, g, h2, g2, Busy(g))
  <2>1. Busy(g) \subseteq Busy(g1) \ {q}
    OBVIOUS
  <2>2. Keeps(h1, g1, h2, g2, Busy(g1) \ {q})
    BY <1>3 DEF Resized
  <2> QED
    BY <2>1, <2>2, KeepsTransitive
<1>5. q \notin AtsOf(Areas(h)) /\ q \notin EndsOf(Areas(h))
  BY DEF Used
<1>6. Placed(h, g, h2, g2, q, size)
  BY <1>3, <1>4, <1>5 DEF Placed, Resized, Served
<1> QED
  BY <1>6 DEF h2

\* tlsf_allocabs cuts the region out of the free block around it.
LEMMA AllocAbsSound ==
  ASSUME NEW h, NEW g, Whole(h, g), NEW b \in g.fr, NEW start \in Nat, NEW region \in Nat,
         b < start, Behind(h, b) - start - region >= 2, start - b # 2
  PROVE  LET h2 == AllocAbs(h, b, start, region)
         IN  \E g2 : Placed(h, g, h2, g2, start - 1, region)
<1> DEFINE R  == Areas(h)
           n  == Nx(g, b)
           q  == start - 1
           g1 == Taken(g, b)
           h0 == RemoveHeader(h, b, MappingInsert(g.sz[b]))
           h1 == SetFree(h0, b, FALSE)
           low == q - b - 1
           sz == n - start
           N  == {}
           B  == {b}
<1>1. /\ Layout(R, g) /\ b \in g.hs /\ b \in Nat /\ g.sz[b] \in Nat /\ HeapType(h)
      /\ b \notin AtsOf(R) /\ b \notin EndsOf(R) /\ b \in 1 .. MemTop /\ b \notin Busy(g)
      /\ n \in g.hs /\ n \notin g.fr /\ n \notin AtsOf(R)
      /\ \A p \in g.fr : Nx(g, p) # b
  <2>1. Layout(R, g) /\ HeapType(h)
    BY DEF Whole, Sound
  <2>2. \A p \in g.fr : Nx(g, p) # b
    BY <2>1 DEF Layout, Apart
  <2> QED
    BY <2>1, <2>2, Neighbours DEF Busy
<1>2. Size(h, b) = g.sz[b] /\ Behind(h, b) = n /\ n = b + 1 + g.sz[b]
  <2>1. Size(h, b) = g.sz[b]
    BY <1>1 DEF Whole, Sound, Tags
  <2> QED
    BY <2>1 DEF Behind, Nx
<1>3. /\ Layout(R, g1) /\ (\A d : Nx(g1, d) = Nx(g, d)) /\ Busy(g1) = Busy(g) \cup {b}
      /\ g1.hs = g.hs /\ g1.sz = g.sz /\ g1.fr = g.fr \ {b}
  <2>1. g1.hs = g.hs /\ g1.sz = g.sz /\ g1.fr = g.fr \ {b}
    BY DEF Taken
  <2>2. Layout(R, g1) /\ (\A d : Nx(g1, d) = Nx(g, d)) /\ Busy(g1) = Busy(g) \cup {b}
    BY <1>1, TakenLayout
  <2> QED
    BY <2>1, <2>2
<1>4. /\ Sound(h0, g1, B, B, N) /\ Areas(h0) = R /\ h0.brk = h.brk
      /\ Keeps(h, g, h0, g1, Busy(g))
  <2>1. N \cup {b} = B
    OBVIOUS
  <2>2. Sound(h, g, N, N, N)
    BY DEF Whole
  <2>3. Removed(h, g, h0, b, N, N, N)
    BY <2>2, RemoveSound
  <2> HIDE DEF N, B, g1, h0
  <2> QED
    BY <2>1, <2>3 DEF Removed, g1
<1> HIDE DEF h0, g1
<1>5. After(h0, g1, h1, b, N, B, N)
  <2>1. /\ b \in g1.hs /\ FALSE \in BOOLEAN /\ B \subseteq N \cup {b}
        /\ (b \in N \/ (FALSE <=> b \in g1.fr))
    BY <1>1, <1>3
  <2> HIDE DEF N, B
  <2> QED
    BY <1>4, <2>1, SetFreeSound
<1>6. AllocAbs(h, b, start, region)
        = LET h2 == SetPrevFree(SetPrev(Header(h1, q, b, sz, PREV_FREE), n, q), n, FALSE)
              h3 == IF b = q THEN h1 ELSE InsertFreeBlock(SetSize(SetFree(h2, b, TRUE), b, low), b)
          IN  Release(Split(h3, q, region), start + region)
  BY <1>2 DEF AllocAbs, h1, h0
<1> HIDE DEF h1
<1>7. /\ Sound(h1, g1, N, B, N) /\ Areas(h1) = R /\ h1.brk = h.brk
      /\ Keeps(h, g, h1, g1, Busy(g))
  <2>1. Keeps(h0, g1, h1, g1, Busy(g1)) /\ Busy(g) \subseteq Busy(g1)
    BY <1>3, <1>5 DEF After
  <2>2. Keeps(h, g, h1, g1, Busy(g))
    BY <1>4, <2>1, KeepsTransitive
  <2> QED
    BY <1>4, <1>5, <2>2 DEF After, But
<1>8. q + 1 + region = start + region /\ start = q + 1 /\ q \in Nat
  BY <1>1
<1>9. CASE b = q
  <2> DEFINE h2 == Release(Split(h1, q, region), q + 1 + region)
  <2>1. AllocAbs(h, b, start, region) = h2
    BY <1>6, <1>8, <1>9
  <2>2. /\ q \in Used(h1, g1) /\ B \subseteq {q} /\ Busy(g1) = Busy(g) \cup {q} /\ q \notin Busy(g)
        /\ region + 1 < g1.sz[q] /\ Nx(g1, q) \notin g1.fr /\ g1.sz[q] \in Nat
    BY <1>1, <1>2, <1>3, <1>7, <1>9 DEF Used
  <2> HIDE DEF h2, q, B
  <2>3. \E g2 : Placed(h, g, h2, g2, q, region)
    BY <1>7, <2>2, CutPlaced DEF N, h2
  <2> QED
    BY <2>1, <2>3 DEF q
<1>10. CASE b # q
  <2> DEFINE g2 == Cut(g1, b, low)
             ha == Header(h1, q, b, sz, PREV_FREE)
             hb == SetPrev(ha, n, q)
             hc == SetPrevFree(hb, n, FALSE)
             hd == SetFree(hc, b, TRUE)
             he == SetSize(hd, b, low)
             h3 == InsertFreeBlock(he, b)
             g3 == Freed(g2, b)
             Q  == {q}
             BQ == {b, q}
  <2>1. /\ low \in Nat /\ low > 0 /\ b + 1 + low = q /\ low + 1 <= g1.sz[b]
        /\ sz \in Nat /\ sz = g1.sz[b] - low - 1 /\ region + 1 < sz
    BY <1>1, <1>2, <1>3, <1>10
  <2> HIDE DEF low, sz
  <2>2. /\ Layout(R, g2) /\ Nx(g2, b) = q /\ Nx(g2, q) = n
        /\ q \notin g.hs /\ q \in 1 .. MemTop
        /\ g2.hs = g.hs \cup {q} /\ g2.fr = g.fr \ {b}
        /\ g2.sz[b] = low /\ g2.sz[q] = sz
        /\ q \in Busy(g2) /\ q \notin AtsOf(R) /\ q \notin EndsOf(R)
        /\ b \in Busy(g2)
        /\ \A d \in g.hs \ {b} : Nx(g2, d) = Nx(g, d)
    <3>1. b \in Busy(g1)
      BY <1>3
    <3>2. /\ Layout(R, g2) /\ Nx(g2, b) = b + 1 + low /\ Nx(g2, b + 1 + low) = Nx(g1, b)
          /\ b + 1 + low \notin g1.hs /\ b + 1 + low \in 1 .. MemTop
          /\ g2.hs = g1.hs \cup {b + 1 + low} /\ g2.fr = g1.fr
          /\ g2.sz[b] = low /\ g2.sz[b + 1 + low] = g1.sz[b] - low - 1
          /\ b + 1 + low \in Busy(g2) /\ b + 1 + low \notin AtsOf(R)
          /\ b + 1 + low \notin EndsOf(R)
          /\ b \in Busy(g2)
      BY <1>1, <1>3, <2>1, <3>1, CutLayout
    <3>3. \A d \in g1.hs \ {b} : Nx(g2, d) = Nx(g1, d)
      BY <1>1, <1>3, <2>1, <3>1, CutLayout
    <3> HIDE DEF g2, n
    <3> QED
      BY <1>3, <2>1, <3>2, <3>3 DEF n
  <2>3. But(h1, ha, {q}) /\ ha.matrix = h1.matrix /\ Says(ha, q, b, sz, FALSE, TRUE)
    <3>1. PREV_FREE \in 0 .. 3 /\ PREV_FREE % 2 = 0 /\ PREV_FREE >= 2
      BY DEF PREV_FREE
    <3>2. b \in Nat /\ q \in 1 .. MemTop /\ HeapType(h1) /\ sz \in Nat
      BY <1>1, <1>7, <2>1, <2>2 DEF Sound
    <3> HIDE DEF q
    <3>3. /\ But(h1, ha, {q}) /\ ha.matrix = h1.matrix
          /\ Says(ha, q, b, sz, PREV_FREE % 2 = 1, PREV_FREE >= 2)
      BY <3>1, <3>2, HeaderDone
    <3> QED
      BY <3>1, <3>3 DEF Says
  <2> HIDE DEF ha
  <2>4. /\ Sound(ha, g2, Q, BQ, BQ) /\ Areas(ha) = R /\ ha.brk = h.brk
        /\ Keeps(h1, g1, ha, g2, Busy(g1) \ {b})
    <3>1. But(h1, ha, {b + 1 + low}) /\ b \in Busy(g1)
      BY <1>3, <2>1, <2>3
    <3>2. b \notin AtsOf(Areas(h1)) /\ b \notin EndsOf(Areas(h1))
      BY <1>1, <1>7
    <3> HIDE DEF N, B
    <3>3. Added(h1, g1, N, B, N, b, low, ha)
      BY <1>7, <2>1, <2>3, <3>1, <3>2, HeaderAdded
    <3>4. N \cup {q} = Q /\ B \cup {b, q} = BQ /\ N \cup {b, q} = BQ
      BY DEF N, B
    <3> HIDE DEF Q, BQ, q, g2
    <3>5. Sound(ha, g2, Q, BQ, BQ)
      BY <2>1, <3>3, <3>4 DEF Added, g2
    <3> QED
      BY <1>7, <2>3, <3>3, <3>5 DEF Added, But, g2
  <2> HIDE DEF g2
  <2>5. Sound(ha, g2, N, BQ, B)
    <3>1. q \notin g2.fr
      BY <2>2 DEF Busy
    <3>2. /\ \A d \in Q \cap g2.hs : d \in N \/ (IsFree(ha, d) <=> d \in g2.fr)
          /\ \A d \in BQ \cap g2.hs : \/ d \in BQ \/ d \in EndsOf(Areas(ha))
                                      \/ PrevFree(ha, Nx(g2, d)) <=> d \in g2.fr
          /\ \A d \in BQ \cap g2.hs : d \in B \/ Size(ha, d) = g2.sz[d]
      BY <2>2, <2>3, <3>1 DEF Says
    <3> HIDE DEF Q, BQ, N, B
    <3> QED
      BY <2>4, <3>2, Fewer
  <2>6. After(ha, g2, hb, n, N, BQ, B)
    <3>1. q \notin EndsOf(Areas(ha)) /\ Nx(g2, q) = n /\ q \in Nat /\ q \in Busy(g2)
      BY <1>8, <2>2, <2>4
    <3> HIDE DEF q, N, BQ, B, n, hb
    <3>2. After(ha, g2, SetPrev(ha, Nx(g2, q), q), Nx(g2, q), N, BQ, B)
      BY <2>5, <3>1, SetPrevSound
    <3> QED
      BY <3>1, <3>2 DEF hb
  <2> HIDE DEF hb
  <2>7. /\ Sound(hb, g2, N, BQ, B) /\ But(ha, hb, {n}) /\ Areas(hb) = R
        /\ Keeps(ha, g2, hb, g2, Busy(g2))
    BY <2>4, <2>6 DEF After
  <2>8. After(hb, g2, hc, n, N, B, B)
    <3>1. /\ q \notin EndsOf(Areas(hb)) /\ Nx(g2, q) = n /\ q \in g2.hs /\ FALSE \in BOOLEAN
          /\ BQ \subseteq B \cup {q} /\ (q \in B \/ (FALSE <=> q \in g2.fr))
      BY <2>2, <2>7 DEF Busy
    <3> HIDE DEF q, N, BQ, B, n, hc
    <3>2. After(hb, g2, SetPrevFree(hb, Nx(g2, q), FALSE), Nx(g2, q), N, B, B)
      BY <2>7, <3>1, SetPrevFreeSound
    <3> QED
      BY <3>1, <3>2 DEF hc
  <2> HIDE DEF hc
  <2>9. /\ Sound(hc, g2, N, B, B) /\ But(hb, hc, {n}) /\ Areas(hc) = R
        /\ Keeps(hb, g2, hc, g2, Busy(g2))
    BY <2>7, <2>8 DEF After
  <2>10. /\ After(hc, g2, hd, b, B, B, B)
         /\ Says(hd, b, hc.mem[b].prev, Size(hc, b), TRUE, PrevFree(hc, b))
    <3>1. /\ b \in g2.hs /\ TRUE \in BOOLEAN /\ N \subseteq B \cup {b}
          /\ (b \in B \/ (TRUE <=> b \in g2.fr))
      BY <2>2 DEF Busy
    <3> HIDE DEF N, B
    <3> QED
      BY <2>9, <3>1, SetFreeSound
  <2> HIDE DEF hd
  <2>11. /\ Sound(hd, g2, B, B, B) /\ But(hc, hd, {b}) /\ Areas(hd) = R
         /\ Keeps(hc, g2, hd, g2, Busy(g2)) /\ IsFree(hd, b)
    BY <2>9, <2>10 DEF After, Says
  <2>12. /\ After(hd, g2, he, b, B, B, N)
         /\ Says(he, b, hd.mem[b].prev, low, IsFree(hd, b), PrevFree(hd, b))
    <3>1. b \in g2.hs /\ B \subseteq N \cup {b} /\ (b \in N \/ low = g2.sz[b])
      BY <2>2 DEF Busy
    <3> HIDE DEF N, B
    <3> QED
      BY <2>1, <2>11, <3>1, SetSizeSound
  <2> HIDE DEF he
  <2>13. /\ Sound(he, g2, B, B, N) /\ But(hd, he, {b}) /\ Areas(he) = R
         /\ Keeps(hd, g2, he, g2, Busy(g2)) /\ IsFree(he, b)
    BY <2>11, <2>12 DEF After, Says
  <2>14. he.mem[q] = ha.mem[q] /\ he.brk = h.brk
    <3>1. q # n /\ q # b /\ q \in 1 .. MemTop
      BY <1>1, <1>10, <2>2
    <3> HIDE DEF q, n
    <3> QED
      BY <2>4, <2>7, <2>9, <2>11, <2>13, <3>1 DEF But
  <2>15. Says(he, q, b, sz, FALSE, TRUE)
    BY <2>3, <2>14, SameHeader DEF Says
  <2>16. Keeps(ha, g2, he, g2, Busy(g2))
    <3>1. Keeps(ha, g2, hc, g2, Busy(g2))
      BY <2>7, <2>9, KeepsTransitive
    <3>2. Keeps(ha, g2, hd, g2, Busy(g2))
      BY <2>11, <3>1, KeepsTransitive
    <3> QED
      BY <2>13, <3>2, KeepsTransitive
  <2>17. \A p \in g2.fr : Nx(g2, p) # b
    <3> SUFFICES ASSUME NEW p \in g2.fr PROVE Nx(g2, p) # b
      OBVIOUS
    <3>1. p \in g.fr /\ p \in g.hs \ {b}
      BY <1>1, <2>2 DEF Layout, Ordered
    <3> QED
      BY <1>1, <2>2, <3>1
  <2>18. Inserted(he, g2, h3, b, B, B, N)
    <3>1. /\ b \notin AtsOf(Areas(he)) /\ b \notin EndsOf(Areas(he)) /\ b \notin N
          /\ g2.sz[b] > 0 /\ PrevFree(he, Nx(g2, b)) /\ Nx(g2, b) \notin g2.fr
          /\ Nx(g2, b) \notin EndsOf(Areas(he)) => he.mem[Nx(g2, b)].prev = b
      BY <1>1, <2>1, <2>2, <2>13, <2>15 DEF Says, Busy
    <3> HIDE DEF B, N
    <3> QED
      BY <2>2, <2>13, <2>17, <3>1, InsertSound
  <2>19. /\ Sound(h3, g3, N, N, N) /\ Areas(h3) = R /\ h3.brk = h.brk
         /\ Keeps(he, g2, h3, g3, Busy(g2) \ {b})
    <3>1. B \ {b} = N
      OBVIOUS
    <3> HIDE DEF B, N, h3
    <3> QED
      BY <2>13, <2>14, <2>18, <3>1 DEF Inserted
  <2>20. g3.hs = g2.hs /\ g3.sz = g2.sz /\ g3.fr = g2.fr \cup {b}
    BY DEF Freed
  <2> DEFINE h4 == Release(Split(h3, q, region), q + 1 + region)
  <2>21. AllocAbs(h, b, start, region) = h4
    BY <1>6, <1>8, <1>10 DEF ha, hb, hc, hd, he
  <2> HIDE DEF h3, g3
  <2>22. /\ Busy(g3) = Busy(g) \cup {q} /\ q \notin Busy(g)
         /\ Keeps(h, g, h3, g3, Busy(g))
    <3>1. Busy(g3) = Busy(g) \cup {q} /\ q \notin Busy(g) /\ q # b
      BY <1>1, <1>10, <2>2, <2>20 DEF Busy, Layout, Ordered
    <3>2. Busy(g) \subseteq Busy(g1) \ {b}
      BY <1>1, <1>3
    <3>3. Keeps(h, g, ha, g2, Busy(g))
      BY <1>7, <2>4, <3>2, KeepsTransitive
    <3>4. Busy(g) \subseteq Busy(g2) \ {b} /\ Busy(g) \subseteq Busy(g2)
      BY <1>1, <3>3 DEF Keeps
    <3>5. Keeps(h, g, he, g2, Busy(g))
      BY <2>16, <3>3, <3>4, KeepsTransitive
    <3>6. Keeps(h, g, h3, g3, Busy(g))
      BY <2>19, <3>4, <3>5, KeepsTransitive
    <3> QED
      BY <3>1, <3>6
  <2>23. q \in Used(h3, g3)
    BY <2>2, <2>19, <2>22 DEF Used
  <2>24. /\ N \subseteq {q} /\ region + 1 < g3.sz[q] /\ g3.sz[q] \in Nat
         /\ Nx(g3, q) \notin g3.fr
    <3>1. n # b
      BY <1>1, <1>2
    <3>2. Nx(g3, q) = n
      BY <2>2, <2>20 DEF Nx
    <3> HIDE DEF n
    <3> QED
      BY <1>1, <2>1, <2>2, <2>20, <3>1, <3>2
  <2> HIDE DEF h4, q, N
  <2>25. \E g4 : Placed(h, g, h4, g4, q, region)
    BY <2>19, <2>22, <2>23, <2>24, CutPlaced DEF h4, N
  <2> QED
    BY <2>21, <2>25 DEF q
<1> QED
  BY <1>9, <1>10

-----------------------------------------------------------------------------
(* Ways through the heap *)

\* w goes from first as next leads.
Walks(first, next, w) ==
  /\ w = <<>> <=> first = 0
  /\ w # <<>> => w[1] = first /\ next[w[Len(w)]] = 0
  /\ \A i \in 1 .. Len(w) : w[i] # 0
  /\ \A i \in 2 .. Len(w) : next[w[i - 1]] = w[i]

\* The sequences that Follow builds.
Step(first, next, s) ==
  LET to == IF s = <<>> THEN first ELSE next[s[Len(s)]]
  IN  IF to = 0 THEN s ELSE Append(s, to)

\* The sequences of Follow, step by step.
LEMMA FollowDef ==
  ASSUME NEW first, NEW next, NEW limit \in Nat, NEW f,
         f = [k \in 0 .. limit |-> IF k = 0 THEN <<>> ELSE Step(first, next, f[k - 1])]
  PROVE  Follow(first, next, limit) = f[limit]
<1> DEFINE Seen(e) == e = [k \in 0 .. limit |->
                             IF k = 0 THEN <<>>
                             ELSE LET s == e[k - 1]
                                      to == IF s = <<>> THEN first ELSE next[s[Len(s)]]
                                  IN  IF to = 0 THEN s ELSE Append(s, to)]
           seen == CHOOSE e : Seen(e)
<1>1. Seen(f)
  BY DEF Step
<1>2. Follow(first, next, limit) = seen[limit]
  BY Zenon DEF Follow
<1> HIDE DEF Seen
<1>3. Seen(seen)
  BY <1>1
<1> HIDE DEF seen
<1>4. \A k \in 0 .. limit : seen[k] = IF k = 0 THEN <<>> ELSE Step(first, next, seen[k - 1])
  BY <1>3 DEF Seen, Step
<1>5. \A k \in 0 .. limit : f[k] = IF k = 0 THEN <<>> ELSE Step(first, next, f[k - 1])
  <2> DEFINE G(e) == [k \in 0 .. limit |-> IF k = 0 THEN <<>> ELSE Step(first, next, e[k - 1])]
  <2>1. f = G(f)
    OBVIOUS
  <2>2. \A k \in 0 .. limit : G(f)[k] = IF k = 0 THEN <<>> ELSE Step(first, next, f[k - 1])
    OBVIOUS
  <2> HIDE DEF G
  <2> QED
    BY <2>1, <2>2
<1> DEFINE U == {k \in 0 .. limit : seen[k] = f[k]}
<1>6. 0 \in U
  BY <1>4, <1>5
<1>7. \A k \in 0 .. limit - 1 : k \in U => k + 1 \in U
  <2> SUFFICES ASSUME NEW k \in 0 .. limit - 1, k \in U PROVE k + 1 \in U
    OBVIOUS
  <2>1. k + 1 \in 0 .. limit /\ k + 1 # 0 /\ (k + 1) - 1 = k
    OBVIOUS
  <2>2. seen[k + 1] = Step(first, next, seen[k])
    BY <1>4, <2>1
  <2>3. f[k + 1] = Step(first, next, f[k])
    BY <1>5, <2>1
  <2> QED
    BY <2>1, <2>2, <2>3
<1> HIDE DEF U
<1>8. 0 .. limit \subseteq U
  BY <1>6, <1>7, IntervalInduction
<1> QED
  BY <1>2, <1>8 DEF U

\* A way that ends within the limit is what Follow finds.
LEMMA FollowIs ==
  ASSUME NEW first, NEW next, NEW limit \in Nat, NEW D, NEW w \in Seq(D),
         Walks(first, next, w), Len(w) <= limit
  PROVE  Follow(first, next, limit) = w
<1> DEFINE m == Len(w)
           f == [k \in 0 .. limit |-> IF k <= m THEN SubSeq(w, 1, k) ELSE w]
<1>1. m \in Nat /\ SubSeq(w, 1, m) = w
  OBVIOUS
<1>0. \A k \in 0 .. limit : k >= m => f[k] = w
  <2> SUFFICES ASSUME NEW k \in 0 .. limit, k >= m PROVE f[k] = w
    OBVIOUS
  <2>1. CASE k = m
    <3>1. f[k] = SubSeq(w, 1, m)
      BY <1>1, <2>1
    <3> QED
      BY <1>1, <3>1
  <2>2. CASE k # m
    <3>1. ~ (k <= m)
      <4>1. m \in Nat /\ k \in Int /\ k >= m
        BY <1>1
      <4> HIDE DEF m
      <4> QED
        BY <2>2, <4>1
    <3> QED
      BY <3>1
  <2> QED
    BY <2>1, <2>2
<1>2. \A k \in 0 .. limit : f[k] = IF k = 0 THEN <<>> ELSE Step(first, next, f[k - 1])
  <2> SUFFICES ASSUME NEW k \in 0 .. limit
               PROVE  f[k] = IF k = 0 THEN <<>> ELSE Step(first, next, f[k - 1])
    OBVIOUS
  <2>1. CASE k = 0
    BY <1>1, <2>1
  <2>2. CASE k # 0 /\ k <= m
    <3> DEFINE s == SubSeq(w, 1, k - 1)
    <3>1. f[k - 1] = s /\ f[k] = SubSeq(w, 1, k)
      BY <1>1, <2>2
    <3>2. s \in Seq(D) /\ Len(s) = k - 1 /\ \A i \in 1 .. k - 1 : s[i] = w[i]
      BY <1>1, <2>2
    <3>3. SubSeq(w, 1, k) = Append(s, w[k])
      <4>1. Append(s, w[k]) \in Seq(D) /\ SubSeq(w, 1, k) \in Seq(D)
        BY <1>1, <2>2, <3>2
      <4>2. Len(Append(s, w[k])) = k /\ Len(SubSeq(w, 1, k)) = k
        BY <1>1, <2>2, <3>2
      <4>3. \A i \in 1 .. k : Append(s, w[k])[i] = w[i] /\ SubSeq(w, 1, k)[i] = w[i]
        BY <1>1, <2>2, <3>2
      <4> QED
        BY <4>1, <4>2, <4>3, SeqEqual
    <3>4. w[k] # 0 /\ (IF s = <<>> THEN first ELSE next[s[Len(s)]]) = w[k]
      <4>1. CASE k = 1
        <5>1. s = <<>> /\ w # <<>>
          BY <1>1, <2>2, <3>2, <4>1
        <5> QED
          BY <1>1, <2>2, <4>1, <5>1 DEF Walks
      <4>2. CASE k # 1
        <5>1. s # <<>> /\ s[Len(s)] = w[k - 1] /\ k \in 2 .. m
          BY <1>1, <2>2, <3>2, <4>2
        <5>2. next[w[k - 1]] = w[k] /\ w[k] # 0
          BY <5>1 DEF Walks
        <5> QED
          BY <5>1, <5>2
      <4> QED
        BY <4>1, <4>2
    <3> HIDE DEF s, f
    <3>5. Step(first, next, s) = Append(s, w[k])
      BY <3>4 DEF Step
    <3> QED
      BY <2>2, <3>1, <3>3, <3>5
  <2>3. CASE k > m
    <3>1. f[k] = w /\ f[k - 1] = w
      <4>1. k \in 0 .. limit /\ k - 1 \in 0 .. limit /\ k >= m /\ k - 1 >= m
        BY <1>1, <2>3
      <4> HIDE DEF f, m
      <4> QED
        BY <1>0, <4>1
    <3>2. (IF w = <<>> THEN first ELSE next[w[Len(w)]]) = 0
      BY DEF Walks
    <3> HIDE DEF f
    <3>3. Step(first, next, w) = w
      BY <3>2 DEF Step
    <3> QED
      BY <1>1, <2>3, <3>1, <3>3
  <2> QED
    BY <1>1, <2>1, <2>2, <2>3
<1>3. f = [k \in 0 .. limit |-> IF k = 0 THEN <<>> ELSE Step(first, next, f[k - 1])]
  <2> DEFINE G(e) == [k \in 0 .. limit |-> IF k = 0 THEN <<>> ELSE Step(first, next, e[k - 1])]
  <2>1. \A k \in 0 .. limit : G(f)[k] = f[k]
    <3> HIDE DEF f
    <3> QED
      BY <1>2
  <2>2. f = [k \in 0 .. limit |-> f[k]]
    OBVIOUS
  <2>3. G(f) = [k \in 0 .. limit |-> f[k]]
    <3> HIDE DEF f
    <3> QED
      BY <2>1
  <2> HIDE DEF G, f
  <2>4. f = G(f)
    BY <2>2, <2>3
  <2> QED
    BY <2>4 DEF G
<1> HIDE DEF f
<1>4. f[limit] = w
  BY <1>0
<1> QED
  BY <1>3, <1>4, FollowDef

\* w are the headers from b to the end of area r, one behind the other.
Goes(g, r, b, w) ==
  /\ w \in Seq(g.hs) /\ Len(w) >= 1 /\ Len(w) <= r.end - b + 1
  /\ w[1] = b /\ w[Len(w)] = r.end
  /\ \A j \in 2 .. Len(w) : w[j] = Nx(g, w[j - 1])
  /\ \A j \in 1 .. Len(w) - 1 : w[j] < r.end
  /\ {w[j] : j \in 1 .. Len(w) - 1} = {c \in g.hs : b <= c /\ c < r.end}

\* The headers from the one behind b on are those from b on but for b.
LEMMA GoesOn ==
  ASSUME NEW g, NEW r, NEW b \in g.hs, NEW w, Goes(g, r, Nx(g, b), w),
         g.hs \subseteq Nat, r.end \in Nat, b < r.end, Nx(g, b) \in Nat, Nx(g, b) > b,
         \A c \in g.hs : b < c => Nx(g, b) <= c
  PROVE  \E v : Goes(g, r, b, v)
<1> DEFINE m == Len(w)
           v == [j \in 1 .. m + 1 |-> IF j = 1 THEN b ELSE w[j - 1]]
<1>1. m \in Nat /\ m >= 1 /\ m <= r.end - Nx(g, b) + 1 /\ w \in Seq(g.hs)
      /\ w[1] = Nx(g, b) /\ w[m] = r.end /\ \A j \in 1 .. m : w[j] \in g.hs
  BY DEF Goes
<1> HIDE DEF m
<1>2. \A j \in 1 .. m + 1 : v[j] \in g.hs
  <2> SUFFICES ASSUME NEW j \in 1 .. m + 1 PROVE v[j] \in g.hs
    OBVIOUS
  <2>1. CASE j = 1
    BY <2>1
  <2>2. CASE j # 1
    <3>1. j - 1 \in 1 .. m
      BY <1>1, <2>2
    <3>2. v[j] = w[j - 1]
      BY <2>2
    <3> HIDE DEF v
    <3> QED
      BY <1>1, <3>1, <3>2
  <2> QED
    BY <2>1, <2>2
<1>3. v \in Seq(g.hs) /\ Len(v) = m + 1
  <2>1. v \in [1 .. m + 1 -> g.hs] /\ m + 1 \in Nat
    <3>1. v = [j \in 1 .. m + 1 |-> v[j]]
      OBVIOUS
    <3> HIDE DEF v
    <3> QED
      BY <1>1, <1>2, <3>1
  <2> HIDE DEF v
  <2> QED
    BY <2>1
<1>4. v[1] = b /\ v[m + 1] = r.end /\ \A j \in 1 .. m : v[j + 1] = w[j]
  BY <1>1
<1>5. m + 1 <= r.end - b + 1
  BY <1>1
<1>6. \A j \in 2 .. m + 1 : v[j] = Nx(g, v[j - 1])
  <2> SUFFICES ASSUME NEW j \in 2 .. m + 1 PROVE v[j] = Nx(g, v[j - 1])
    OBVIOUS
  <2>1. CASE j = 2
    <3>1. v[2] = w[1] /\ v[j - 1] = b
      BY <1>1, <1>4, <2>1
    <3> HIDE DEF v
    <3> QED
      BY <1>1, <2>1, <3>1
  <2>2. CASE j # 2
    <3>0. m \in Nat
      BY <1>1
    <3>1. v[j] = w[j - 1] /\ v[j - 1] = w[j - 2] /\ j - 1 \in 2 .. m
      <4>1. /\ j - 1 \in 2 .. m /\ j \in 1 .. m + 1 /\ j - 1 \in 1 .. m + 1
            /\ j # 1 /\ j - 1 # 1 /\ (j - 1) - 1 = j - 2
        BY <3>0, <2>2
      <4> QED
        BY <4>1
    <3>2. w[j - 1] = Nx(g, w[(j - 1) - 1])
      BY <3>1 DEF Goes, m
    <3>3. (j - 1) - 1 = j - 2
      OBVIOUS
    <3> HIDE DEF v
    <3> QED
      BY <3>1, <3>2, <3>3
  <2> QED
    BY <2>1, <2>2
<1>7. \A j \in 1 .. m : v[j] < r.end
  <2> SUFFICES ASSUME NEW j \in 1 .. m PROVE v[j] < r.end
    OBVIOUS
  <2>1. CASE j = 1
    BY <1>4, <2>1
  <2>2. CASE j # 1
    <3>1. j - 1 \in 1 .. m - 1 /\ v[j] = w[j - 1]
      BY <1>1, <2>2
    <3> HIDE DEF v
    <3> QED
      BY <3>1 DEF Goes, m
  <2> QED
    BY <2>1, <2>2
<1>8. {v[j] : j \in 1 .. m} = {c \in g.hs : b <= c /\ c < r.end}
  <2>1. {w[j] : j \in 1 .. m - 1} = {c \in g.hs : Nx(g, b) <= c /\ c < r.end}
    BY DEF Goes, m
  <2>2. \A j \in 1 .. m : v[j] \in g.hs /\ b <= v[j] /\ v[j] < r.end
    <3>0. \A j \in 1 .. m : v[j] \in g.hs /\ v[j] < r.end
      <4>1. \A j \in 1 .. m : j \in 1 .. m + 1
        BY <1>1
      <4> HIDE DEF v
      <4> QED
        BY <1>2, <1>7, <4>1
    <3> SUFFICES ASSUME NEW j \in 1 .. m PROVE b <= v[j]
      BY <3>0
    <3>1. CASE j = 1
      BY <1>4, <3>1
    <3>2. CASE j # 1
      <4>1. j - 1 \in 1 .. m - 1 /\ v[j] = w[j - 1]
        BY <1>1, <3>2
      <4>2. w[j - 1] \in g.hs /\ Nx(g, b) <= w[j - 1]
        BY <2>1, <4>1
      <4> HIDE DEF v
      <4> QED
        BY <4>1, <4>2
    <3> QED
      BY <3>1, <3>2
  <2>3. ASSUME NEW c \in g.hs, b <= c, c < r.end
        PROVE  \E j \in 1 .. m : c = v[j]
    <3>1. CASE c = b
      BY <1>1, <1>4, <3>1
    <3>2. CASE c # b
      <4>1. Nx(g, b) <= c
        BY <2>3, <3>2
      <4>2. PICK j \in 1 .. m - 1 : c = w[j]
        BY <2>1, <2>3, <4>1
      <4>3. j + 1 \in 1 .. m /\ v[j + 1] = w[j]
        BY <1>1, <1>4
      <4> HIDE DEF v
      <4> QED
        BY <4>2, <4>3
    <3> QED
      BY <3>1, <3>2
  <2> HIDE DEF v
  <2> QED
    BY <2>2, <2>3
<1> HIDE DEF v
<1>9. Goes(g, r, b, v)
  <2>1. Len(v) - 1 = m /\ Len(v) >= 1
    <3>1. m \in Nat
      BY <1>1
    <3>2. Len(v) = m + 1
      BY <1>3
    <3> QED
      BY <3>1, <3>2
  <2> QED
    BY <1>3, <1>4, <1>5, <1>6, <1>7, <1>8, <2>1 DEF Goes
<1> QED
  BY <1>9

\* From every header one comes to the end of its area.
LEMMA GoesExists ==
  ASSUME NEW R, NEW g, Layout(R, g), NEW r \in R
  PROVE  \E w : Goes(g, r, r.at, w)
<1> DEFINE In(b) == r.at <= b /\ b <= r.end
           U == {d \in Nat : \A b \in g.hs : In(b) /\ r.end - b = d => \E w : Goes(g, r, b, w)}
<1>1. /\ r.at \in g.hs /\ r.end \in g.hs /\ r.at < r.end /\ g.hs \subseteq Nat
      /\ r.at \in Nat /\ r.end \in Nat
  <2>1. r.at \in g.hs /\ r.end \in g.hs /\ r.at < r.end
    BY DEF Layout, Bounded, Busy
  <2> QED
    BY <2>1, Neighbours
<1>2. ASSUME NEW d \in Nat, \A e \in 0 .. d - 1 : e \in U
      PROVE  d \in U
  <2> SUFFICES ASSUME NEW b \in g.hs, In(b), r.end - b = d PROVE \E w : Goes(g, r, b, w)
    OBVIOUS
  <2>1. CASE b = r.end
    <3> DEFINE w == [j \in 1 .. 1 |-> b]
    <3>1. w \in Seq(g.hs) /\ Len(w) = 1 /\ w[1] = b
      <4>1. PICK n \in Nat : n = 1
        OBVIOUS
      <4>2. w \in [1 .. n -> g.hs] /\ w[1] = b
        BY <4>1
      <4> HIDE DEF w
      <4>3. w \in Seq(g.hs) /\ Len(w) = n
        BY <4>2
      <4> QED
        BY <4>1, <4>2, <4>3
    <3>2. {w[j] : j \in 1 .. 0} = {c \in g.hs : b <= c /\ c < r.end}
      <4>1. \A c \in g.hs : ~ (b <= c /\ c < r.end)
        BY <1>1, <2>1
      <4> QED
        BY <4>1
    <3> HIDE DEF w
    <3>3. Goes(g, r, b, w)
      BY <1>1, <2>1, <3>1, <3>2 DEF Goes
    <3> QED
      BY <3>3
  <2>2. CASE b # r.end
    <3>1. b < r.end /\ b \in Nat
      BY <1>1, <2>2
    <3>2. b \notin EndsOf(R)
      <4> SUFFICES ASSUME NEW q \in R, b = q.end PROVE FALSE
        BY DEF EndsOf
      <4>1. q.at < q.end /\ q.at \in Nat /\ q # r
        BY <3>1, Neighbours DEF Layout, Bounded, Busy
      <4>2. r.end < q.at \/ q.end < r.at
        BY <4>1 DEF Layout, Bounded
      <4> QED
        BY <1>1, <3>1, <4>1, <4>2
    <3>3. /\ Nx(g, b) \in g.hs /\ Nx(g, b) \in Nat /\ Nx(g, b) > b
          /\ \A c \in g.hs : b < c => Nx(g, b) <= c
      BY <3>2, Neighbours
    <3>4. In(Nx(g, b)) /\ r.end - Nx(g, b) \in 0 .. d - 1
      BY <1>1, <3>1, <3>3
    <3>5. r.end - Nx(g, b) \in U
      BY <1>2, <3>4
    <3>6. PICK w : Goes(g, r, Nx(g, b), w)
      BY <3>3, <3>4, <3>5
    <3> QED
      BY <1>1, <3>1, <3>3, <3>6, GoesOn
  <2> QED
    BY <2>1, <2>2
<1>3. Nat \subseteq U
  <2> HIDE DEF U
  <2> QED
    BY <1>2, StrongSetInduction
<1>4. r.end - r.at \in U /\ In(r.at)
  BY <1>1, <1>3
<1> QED
  BY <1>1, <1>4

\* BlocksOf finds the headers of an area, in their order.
LEMMA BlocksOfAre ==
  ASSUME NEW h, NEW g, Whole(h, g), NEW r \in Areas(h)
  PROVE  Goes(g, r, r.at, BlocksOf(h, r))
<1>1. Layout(Areas(h), g)
  BY DEF Whole, Sound
<1>2. PICK w : Goes(g, r, r.at, w)
  BY <1>1, GoesExists
<1> DEFINE next == [b \in 1 .. MemTop |-> IF b >= r.end THEN 0 ELSE Behind(h, b)]
<1>3. /\ r.at \in g.hs /\ r.end \in g.hs /\ r.at \in 1 .. MemTop /\ r.end \in Nat
  <2>1. r.at \in g.hs /\ r.end \in g.hs
    BY <1>1 DEF Layout, Bounded, Busy
  <2> QED
    BY <1>1, <2>1, Neighbours
<1>4. \A b \in g.hs : b \in 1 .. MemTop /\ b # 0 /\ Behind(h, b) = Nx(g, b)
  <2>1. \A b \in g.hs : Size(h, b) = g.sz[b]
    BY DEF Whole, Sound, Tags
  <2> QED
    BY <1>1, <2>1, Neighbours DEF Behind, Nx
<1>5. /\ w \in Seq(g.hs) /\ Len(w) \in Nat /\ Len(w) >= 1 /\ w[1] = r.at /\ w[Len(w)] = r.end
      /\ Len(w) <= r.end - r.at + 1 /\ \A j \in 1 .. Len(w) : w[j] \in g.hs
  BY <1>2 DEF Goes
<1>6. next[r.end] = 0
  BY <1>3, <1>4
<1>7. \A j \in 2 .. Len(w) : next[w[j - 1]] = w[j]
  <2> SUFFICES ASSUME NEW j \in 2 .. Len(w) PROVE next[w[j - 1]] = w[j]
    OBVIOUS
  <2>1. j - 1 \in 1 .. Len(w) - 1 /\ j - 1 \in 1 .. Len(w)
    BY <1>5
  <2>2. w[j - 1] < r.end /\ w[j] = Nx(g, w[j - 1]) /\ w[j - 1] \in g.hs
    BY <1>2, <1>5, <2>1 DEF Goes
  <2>3. w[j - 1] \in 1 .. MemTop /\ ~ (w[j - 1] >= r.end)
    BY <1>3, <1>4, <2>2
  <2> QED
    BY <1>4, <2>2, <2>3
<1> HIDE DEF next
<1>8. Walks(r.at, next, w)
  <2>1. w # <<>> /\ r.at # 0
    BY <1>3, <1>5
  <2> QED
    BY <1>4, <1>5, <1>6, <1>7, <2>1 DEF Walks
<1>9. Len(w) <= r.end
  BY <1>3, <1>5
<1>10. Follow(r.at, next, r.end) = w
  BY <1>3, <1>5, <1>8, <1>9, FollowIs
<1> QED
  BY <1>2, <1>10 DEF BlocksOf, next

\* The elements of a sequence but for the last.
LEMMA FrontSet ==
  ASSUME NEW D, NEW w \in Seq(D), Len(w) >= 1
  PROVE  S!ToSet(S!Front(w)) = {w[j] : j \in 1 .. Len(w) - 1}
<1> DEFINE m == Len(w)
           v == SubSeq(w, 1, m - 1)
<1>1. m \in Nat /\ m - 1 \in Nat /\ m - 1 <= Len(w)
  OBVIOUS
<1>2. v \in Seq(D) /\ Len(v) = m - 1 /\ \A j \in 1 .. m - 1 : v[j] = w[j]
  <2>1. PICK n \in Nat : n = m - 1
    BY <1>1
  <2>2. n <= Len(w)
    BY <1>1, <2>1
  <2>3. \A i \in 1 .. n : w[i] \in D
    BY <2>2
  <2>4. /\ SubSeq(w, 1, n) \in Seq(D)
        /\ Len(SubSeq(w, 1, n)) = IF 1 <= n THEN n - 1 + 1 ELSE 0
        /\ \A i \in 1 .. n - 1 + 1 : SubSeq(w, 1, n)[i] = w[1 + i - 1]
    BY <2>3, SubSeqProperties
  <2>5. Len(SubSeq(w, 1, n)) = n /\ \A i \in 1 .. n : SubSeq(w, 1, n)[i] = w[i]
    BY <2>4
  <2> QED
    BY <2>1, <2>4, <2>5
<1>3. DOMAIN v = 1 .. m - 1
  BY <1>1, <1>2, LenProperties
<1>4. S!Front(w) = v
  BY DEF S!Front
<1> HIDE DEF v, m
<1>5. S!ToSet(v) = {v[j] : j \in DOMAIN v}
  BY DEF S!ToSet
<1> QED
  BY <1>2, <1>3, <1>4, <1>5 DEF m

\* Walking through all areas finds the headers and the free blocks.
LEMMA BlocksAre ==
  ASSUME NEW h, NEW g, Whole(h, g)
  PROVE  /\ Blocks(h) = g.hs \ EndsOf(Areas(h))
         /\ FreeBlocks(h) = g.fr
<1> DEFINE R == Areas(h)
           In(r) == {c \in g.hs : r.at <= c /\ c < r.end}
<1>1. Layout(R, g)
  BY DEF Whole, Sound
<1>2. ASSUME NEW r \in R PROVE S!ToSet(S!Front(BlocksOf(h, r))) = In(r)
  <2> DEFINE w == BlocksOf(h, r)
  <2>1. Goes(g, r, r.at, w)
    BY BlocksOfAre
  <2> HIDE DEF w
  <2>2. w \in Seq(g.hs) /\ Len(w) >= 1 /\ {w[j] : j \in 1 .. Len(w) - 1} = In(r)
    BY <2>1 DEF Goes
  <2> HIDE DEF In
  <2> QED
    BY <2>2, FrontSet DEF w
<1>3. Blocks(h) = UNION {In(r) : r \in R}
  <2>1. Blocks(h) = UNION {S!ToSet(S!Front(BlocksOf(h, r))) : r \in R}
    BY Zenon DEF Blocks, Areas
  <2> HIDE DEF In, R
  <2> QED
    BY <1>2, <2>1, Zenon
<1>4. UNION {In(r) : r \in R} = g.hs \ EndsOf(R)
  <2>1. ASSUME NEW r \in R, NEW c \in In(r) PROVE c \in g.hs \ EndsOf(R)
    <3> SUFFICES ASSUME NEW q \in R, c = q.end PROVE FALSE
      BY DEF EndsOf
    <3>1. /\ q.at < q.end /\ q.at \in Nat /\ q.end \in Nat /\ r.at \in Nat /\ r.end \in Nat
          /\ c < r.end /\ r.at <= c
      BY <1>1, Neighbours DEF Layout, Bounded, Busy
    <3>2. r = q \/ r.end < q.at \/ q.end < r.at
      BY <1>1 DEF Layout, Bounded
    <3> QED
      BY <2>1, <3>1, <3>2
  <2>2. ASSUME NEW c \in g.hs \ EndsOf(R) PROVE \E r \in R : c \in In(r)
    <3>1. PICK r \in R : r.at <= c /\ c <= r.end
      BY <1>1 DEF Layout, Bounded
    <3>2. c # r.end /\ c \in Nat /\ r.end \in Nat
      BY <1>1, <3>1, Neighbours DEF Layout, Bounded, Busy, EndsOf
    <3> QED
      BY <3>1, <3>2
  <2> HIDE DEF In
  <2> QED
    BY <2>1, <2>2
<1>5. FreeBlocks(h) = {b \in g.hs \ EndsOf(R) : b \in g.fr}
  <2>1. \A b \in g.hs : IsFree(h, b) <=> b \in g.fr
    BY DEF Whole, Sound, Tags
  <2> HIDE DEF R, In
  <2> QED
    BY <1>3, <1>4, <2>1 DEF FreeBlocks
<1>6. \A b \in g.fr : b \in g.hs \ EndsOf(R)
  BY <1>1, Neighbours
<1> HIDE DEF R, In
<1> QED
  BY <1>3, <1>4, <1>5, <1>6 DEF R

\* What Tiled says of one heap.
LEMMA WholeTiled ==
  ASSUME NEW h, NEW g, Whole(h, g), NEW r \in Areas(h)
  PROVE  LET walk == BlocksOf(h, r)
         IN  /\ S!Last(walk) = r.end
             /\ \A j \in 2 .. Len(walk) :
                  LET b == walk[j - 1]
                      c == walk[j]
                  IN  /\ PrevFree(h, c) <=> IsFree(h, b)
                      /\ IsFree(h, b) => ~ IsFree(h, c)
                      /\ IsFree(h, b) /\ c # r.end => h.mem[c].prev = b
<1> DEFINE w == BlocksOf(h, r)
<1>1. Goes(g, r, r.at, w)
  BY BlocksOfAre
<1> HIDE DEF w
<1>2. S!Last(w) = r.end
  BY <1>1 DEF S!Last, Goes
<1>3. ASSUME NEW j \in 2 .. Len(w)
      PROVE  LET b == w[j - 1]
                 c == w[j]
             IN  /\ PrevFree(h, c) <=> IsFree(h, b)
                 /\ IsFree(h, b) => ~ IsFree(h, c)
                 /\ IsFree(h, b) /\ c # r.end => h.mem[c].prev = b
  <2> DEFINE b == w[j - 1]
             c == w[j]
  <2>1. Layout(Areas(h), g)
    BY DEF Whole, Sound
  <2>2. j - 1 \in 1 .. Len(w) - 1 /\ Len(w) \in Nat
    BY <1>1 DEF Goes
  <2>3. b \in {v \in g.hs : r.at <= v /\ v < r.end}
    BY <1>1, <2>2 DEF Goes
  <2>4. c = Nx(g, b) /\ b \in g.hs /\ b < r.end
    BY <1>1, <2>3 DEF Goes
  <2>5. b \notin EndsOf(Areas(h))
    <3>1. b \in UNION {S!ToSet(S!Front(BlocksOf(h, q))) : q \in Areas(h)}
      <4>1. b \in {w[i] : i \in 1 .. Len(w) - 1}
        BY <2>2
      <4>2. w \in Seq(g.hs) /\ Len(w) >= 1
        BY <1>1 DEF Goes
      <4>3. b \in S!ToSet(S!Front(w))
        BY <4>1, <4>2, FrontSet
      <4> QED
        BY <4>3, Zenon DEF w
    <3>2. b \in Blocks(h)
      BY <3>1, Zenon DEF Blocks, Areas
    <3> QED
      BY <3>2, BlocksAre
  <2> HIDE DEF b, c
  <2>6. /\ c \in g.hs /\ (PrevFree(h, c) <=> b \in g.fr)
        /\ IsFree(h, b) <=> b \in g.fr
        /\ IsFree(h, c) <=> c \in g.fr
        /\ b \in g.fr => c \notin g.fr
        /\ b \in g.fr /\ c \notin EndsOf(Areas(h)) => h.mem[c].prev = b
    <3>1. c \in g.hs
      BY <2>1, <2>4, <2>5, Neighbours
    <3>2. b \in g.fr => c \notin g.fr
      BY <2>1, <2>4 DEF Layout, Apart
    <3> QED
      BY <2>4, <2>5, <3>1, <3>2 DEF Whole, Sound, Tags
  <2>7. c \in EndsOf(Areas(h)) => c = r.end
    <3> SUFFICES ASSUME NEW q \in Areas(h), c = q.end PROVE q = r
      BY DEF EndsOf
    <3>1. /\ q.at < q.end /\ q.at \in Nat /\ q.end \in Nat /\ r.at \in Nat /\ r.end \in Nat
          /\ r.end \in g.hs
      BY <2>1, Neighbours DEF Layout, Bounded, Busy
    <3>2. r.at <= b /\ b < c /\ c <= r.end /\ b \in Nat
      BY <2>1, <2>3, <2>4, <3>1, Neighbours
    <3>3. r = q \/ r.end < q.at \/ q.end < r.at
      BY <2>1 DEF Layout, Bounded
    <3> QED
      BY <3>1, <3>2, <3>3
  <2> QED
    BY <2>6, <2>7 DEF b, c
<1> QED
  BY <1>2, <1>3 DEF w

-----------------------------------------------------------------------------
(* The lists as Listed finds them *)

\* The free blocks of a class.
Of(g, c) == {b \in g.fr : MappingInsert(g.sz[b]) = c}

\* Places are counted from 0 on, and are no more than there are blocks.
LEMMA PlacesDown ==
  ASSUME NEW h, NEW g, NEW pos, Linked(h, g, pos), NEW b \in g.fr, NEW k \in 0 .. pos[b]
  PROVE  \E x \in Of(g, MappingInsert(g.sz[b])) : pos[x] = k
<1> DEFINE c == MappingInsert(g.sz[b])
           U == {j \in 0 .. pos[b] : \E x \in Of(g, c) : pos[x] = pos[b] - j}
<1>1. pos[b] \in Nat
  BY DEF Linked
<1>2. 0 \in U
  BY <1>1 DEF Of
<1>3. \A j \in 0 .. pos[b] - 1 : j \in U => j + 1 \in U
  <2> SUFFICES ASSUME NEW j \in 0 .. pos[b] - 1, j \in U PROVE j + 1 \in U
    OBVIOUS
  <2>1. PICK x \in Of(g, c) : pos[x] = pos[b] - j
    OBVIOUS
  <2>2. x \in g.fr /\ MappingInsert(g.sz[x]) = c
    BY DEF Of
  <2>3. pos[x] # 0
    BY <1>1, <2>1
  <2>4. /\ FPrev(h, x) \in g.fr /\ MappingInsert(g.sz[FPrev(h, x)]) = MappingInsert(g.sz[x])
        /\ pos[FPrev(h, x)] = pos[x] - 1
    BY <2>2, <2>3 DEF Linked
  <2>5. FPrev(h, x) \in Of(g, c)
    BY <2>2, <2>4 DEF Of
  <2>6. pos[FPrev(h, x)] = pos[b] - (j + 1)
    BY <1>1, <2>1, <2>4
  <2>7. j + 1 \in 0 .. pos[b]
    BY <1>1
  <2> QED
    BY <2>5, <2>6, <2>7
<1>4. pos[b] - k \in 0 .. pos[b] /\ pos[b] - (pos[b] - k) = k
  BY <1>1
<1> HIDE DEF U
<1>5. 0 .. pos[b] \subseteq U
  BY <1>1, <1>2, <1>3, IntervalInduction
<1>6. pos[b] - k \in U
  BY <1>4, <1>5
<1> QED
  BY <1>4, <1>6 DEF U

\* No list is longer than there are units.
LEMMA PlacesBounded ==
  ASSUME NEW h, NEW g, g.fr \subseteq 1 .. MemTop, NEW pos, Linked(h, g, pos), NEW b \in g.fr
  PROVE  pos[b] < MemTop
<1> SUFFICES ASSUME ~ (pos[b] < MemTop) PROVE FALSE
  OBVIOUS
<1> DEFINE c == MappingInsert(g.sz[b])
           f == [k \in 0 .. MemTop |-> CHOOSE x \in Of(g, c) : pos[x] = k]
<1>1. pos[b] \in Nat /\ MemTop \in Nat
  BY TlsfAssumption DEF Linked
<1>2. ASSUME NEW k \in 0 .. MemTop PROVE f[k] \in Of(g, c) /\ pos[f[k]] = k
  <2>1. k \in 0 .. pos[b]
    BY <1>1
  <2>2. \E x \in Of(g, c) : pos[x] = k
    BY <2>1, PlacesDown
  <2> QED
    BY <2>2
<1>3. f \in [0 .. MemTop -> 1 .. MemTop]
  <2>1. \A k \in 0 .. MemTop : f[k] \in 1 .. MemTop
    BY <1>2 DEF Of
  <2> QED
    BY <2>1
<1> HIDE DEF f
<1>4. /\ IsFiniteSet(0 .. MemTop) /\ Cardinality(0 .. MemTop) = MemTop + 1
      /\ IsFiniteSet(1 .. MemTop) /\ Cardinality(1 .. MemTop) = MemTop
  <2>1. 0 \in Int /\ 1 \in Int /\ MemTop \in Int
    BY <1>1
  <2>2. /\ IsFiniteSet(0 .. MemTop)
        /\ Cardinality(0 .. MemTop) = IF 0 > MemTop THEN 0 ELSE MemTop - 0 + 1
    BY <2>1, FS_Interval
  <2>3. /\ IsFiniteSet(1 .. MemTop)
        /\ Cardinality(1 .. MemTop) = IF 1 > MemTop THEN 0 ELSE MemTop - 1 + 1
    BY <2>1, FS_Interval
  <2> QED
    BY <1>1, <2>2, <2>3
<1>5. Cardinality(1 .. MemTop) < Cardinality(0 .. MemTop)
  BY <1>1, <1>4
<1>6. \E x, y \in 0 .. MemTop : x # y /\ f[x] = f[y]
  BY <1>3, <1>4, <1>5, FS_PigeonHole
<1> QED
  BY <1>2, <1>6

\* w are the free blocks of class c, one behind the other.
Lists(h, g, c, w) ==
  /\ w \in Seq(g.fr) /\ Len(w) <= MemTop
  /\ {w[j] : j \in 1 .. Len(w)} = Of(g, c)
  /\ \A i, j \in 1 .. Len(w) : w[i] = w[j] => i = j
  /\ \A j \in 1 .. Len(w) : FPrev(h, w[j]) = IF j = 1 THEN 0 ELSE w[j - 1]
  /\ w = <<>> <=> h.matrix[c] = 0
  /\ w # <<>> => w[1] = h.matrix[c] /\ FNext(h, w[Len(w)]) = 0
  /\ \A j \in 2 .. Len(w) : FNext(h, w[j - 1]) = w[j]

\* The free blocks of a class in the order of their places are its list.
LEMMA ListExists ==
  ASSUME NEW h, NEW g, g.fr \subseteq 1 .. MemTop, NEW pos, Linked(h, g, pos), NEW c \in Classes
  PROVE  \E w : Lists(h, g, c, w)
<1>1. CASE Of(g, c) = {}
  <2>1. h.matrix[c] = 0
    BY <1>1 DEF Linked, Of
  <2>2. <<>> \in Seq(g.fr) /\ Len(<<>>) = 0 /\ MemTop \in Nat
    BY TlsfAssumption
  <2>3. Lists(h, g, c, <<>>)
    BY <1>1, <2>1, <2>2 DEF Lists
  <2> QED
    BY <2>3
<1>2. CASE Of(g, c) # {}
  <2> DEFINE F == Of(g, c)
             T == {pos[x] : x \in F}
  <2>1. T \in SUBSET Nat /\ T # {} /\ MemTop \in Nat
    BY <1>2, TlsfAssumption DEF Linked, Of
  <2>2. \A k \in T : k < MemTop /\ k <= MemTop
    <3>1. \A x \in F : x \in g.fr /\ pos[x] \in Nat /\ pos[x] < MemTop
      BY PlacesBounded DEF Of, Linked
    <3> QED
      BY <2>1, <3>1
  <2>3. PICK K \in T : \A k \in T : k <= K
    <3> HIDE DEF T
    <3> QED
      BY <2>1, <2>2, GreatestElement
  <2>4. PICK top \in F : K = pos[top]
    BY <2>3
  <2>5. K \in Nat /\ K < MemTop
    BY <2>1, <2>2, <2>3
  <2> DEFINE m == K + 1
             w == [i \in 1 .. m |-> CHOOSE x \in F : pos[x] = i - 1]
  <2>6. m \in Nat /\ m <= MemTop /\ m >= 1
    BY <2>1, <2>5
  <2>7. ASSUME NEW i \in 1 .. m
        PROVE  w[i] \in F /\ pos[w[i]] = i - 1 /\ w[i] \in g.fr
    <3>1. top \in g.fr /\ MappingInsert(g.sz[top]) = c /\ i - 1 \in 0 .. pos[top]
      BY <2>4, <2>5 DEF Of
    <3>2. \E x \in F : pos[x] = i - 1
      BY <3>1, PlacesDown
    <3>3. w[i] \in F /\ pos[w[i]] = i - 1
      BY <3>2
    <3> QED
      BY <3>3 DEF Of
  <2>8. w \in [1 .. m -> g.fr]
    <3>1. w = [i \in 1 .. m |-> w[i]]
      OBVIOUS
    <3> HIDE DEF w, m, F
    <3> QED
      BY <2>7, <3>1
  <2> HIDE DEF w, m, T
  <2>9. w \in Seq(g.fr) /\ Len(w) = m /\ w # <<>>
    <3>1. w \in Seq(g.fr) /\ Len(w) = m
      BY <2>6, <2>8
    <3> QED
      BY <2>6, <3>1
  \* A block is where its place says.
  <2>10. ASSUME NEW x \in F PROVE pos[x] + 1 \in 1 .. m /\ x = w[pos[x] + 1]
    <3>1. pos[x] \in T /\ pos[x] \in Nat
      BY <2>1 DEF T
    <3>2. pos[x] + 1 \in 1 .. m
      BY <2>3, <2>5, <3>1 DEF m
    <3> DEFINE y == w[pos[x] + 1]
    <3>3. y \in F /\ pos[y] = (pos[x] + 1) - 1
      BY <2>7, <3>2
    <3>4. pos[y] = pos[x]
      BY <3>1, <3>3
    <3>5. x \in g.fr /\ y \in g.fr /\ MappingInsert(g.sz[x]) = MappingInsert(g.sz[y])
      BY <3>3 DEF Of
    <3> QED
      BY <3>2, <3>4, <3>5 DEF Linked
  <2>11. {w[j] : j \in 1 .. m} = F
    BY <2>7, <2>10
  <2>12. \A i, j \in 1 .. m : w[i] = w[j] => i = j
    <3> SUFFICES ASSUME NEW i \in 1 .. m, NEW j \in 1 .. m, w[i] = w[j] PROVE i = j
      OBVIOUS
    <3>1. i - 1 = j - 1
      BY <2>7
    <3> QED
      BY <2>6, <3>1
  <2>13. ASSUME NEW j \in 2 .. m
         PROVE  FPrev(h, w[j]) = w[j - 1] /\ FNext(h, w[j - 1]) = w[j]
    <3> DEFINE x == w[j]
               p == FPrev(h, x)
    <3>1. x \in F /\ x \in g.fr /\ pos[x] = j - 1 /\ j - 1 # 0
      BY <2>6, <2>7
    <3>2. /\ p \in g.fr /\ MappingInsert(g.sz[p]) = MappingInsert(g.sz[x])
          /\ pos[p] = pos[x] - 1 /\ FNext(h, p) = x
      BY <3>1 DEF Linked
    <3>3. p \in F
      BY <3>1, <3>2 DEF Of
    <3>4. p = w[pos[p] + 1]
      BY <2>10, <3>3
    <3>5. pos[p] + 1 = j - 1
      BY <2>6, <3>1, <3>2
    <3> QED
      BY <3>2, <3>4, <3>5
  <2>14. FPrev(h, w[1]) = 0 /\ w[1] = h.matrix[c] /\ h.matrix[c] # 0
    <3>1. w[1] \in g.fr /\ w[1] \in F /\ pos[w[1]] = 0
      BY <2>6, <2>7
    <3>2. FPrev(h, w[1]) = 0 /\ h.matrix[MappingInsert(g.sz[w[1]])] = w[1]
      BY <3>1 DEF Linked
    <3> QED
      BY <3>1, <3>2 DEF Of
  <2>15. FNext(h, w[m]) = 0
    <3> DEFINE x == w[m]
               n == FNext(h, x)
    <3> SUFFICES ASSUME n # 0 PROVE FALSE
      OBVIOUS
    <3>1. x \in F /\ x \in g.fr /\ pos[x] = m - 1
      BY <2>6, <2>7
    <3>2. n \in g.fr /\ MappingInsert(g.sz[n]) = MappingInsert(g.sz[x]) /\ FPrev(h, n) = x
      BY <3>1 DEF Linked
    <3>3. n \in F
      BY <3>1, <3>2 DEF Of
    <3>4. pos[n] \in Nat /\ pos[n] + 1 \in 1 .. m
      BY <2>10, <3>2, <3>3 DEF Linked
    <3>5. pos[n] # 0
      <4>1. x # 0
        BY <3>1
      <4> QED
        BY <3>2, <4>1 DEF Linked
    <3>6. pos[x] = pos[n] - 1
      BY <3>2, <3>5 DEF Linked
    <3> QED
      BY <2>6, <3>1, <3>4, <3>6
  <2>16. \A j \in 1 .. m : FPrev(h, w[j]) = IF j = 1 THEN 0 ELSE w[j - 1]
    <3> SUFFICES ASSUME NEW j \in 1 .. m
                 PROVE  FPrev(h, w[j]) = IF j = 1 THEN 0 ELSE w[j - 1]
      OBVIOUS
    <3>1. j = 1 \/ j \in 2 .. m
      BY <2>6
    <3> QED
      BY <2>13, <2>14, <3>1
  <2>17. Lists(h, g, c, w)
    <3> HIDE DEF F
    <3> QED
      BY <2>6, <2>9, <2>11, <2>12, <2>13, <2>14, <2>15, <2>16 DEF Lists, F
  <2> QED
    BY <2>17
<1> QED
  BY <1>1, <1>2

\* Listed finds the free blocks of a class, in their order.
LEMMA ListedAre ==
  ASSUME NEW h, NEW g, Whole(h, g), NEW c \in Classes
  PROVE  Lists(h, g, c, Listed(h, c))
<1>1. Layout(Areas(h), g) /\ Chains(h, g)
  BY DEF Whole, Sound
<1>2. \A b \in g.fr : b \in 1 .. MemTop - 1
  <2>1. \A b \in g.fr : b \in 1 .. MemTop /\ b + 1 \in 1 .. MemTop
    BY <1>1, Nodes
  <2>2. MemTop \in Nat
    BY TlsfAssumption
  <2> QED
    BY <2>1, <2>2
<1>3. g.fr \subseteq 1 .. MemTop /\ MemTop \in Nat
  BY <1>1, TlsfAssumption, Nodes
<1>4. PICK pos : Linked(h, g, pos)
  BY <1>1 DEF Chains
<1>5. PICK w : Lists(h, g, c, w)
  BY <1>3, <1>4, ListExists
<1> DEFINE next == [b \in 1 .. MemTop - 1 |-> FNext(h, b)]
<1>6. \A j \in 1 .. Len(w) : w[j] \in g.fr /\ next[w[j]] = FNext(h, w[j]) /\ w[j] # 0
  <2>1. \A j \in 1 .. Len(w) : w[j] \in g.fr
    BY <1>5 DEF Lists
  <2> QED
    BY <1>2, <2>1
<1> HIDE DEF next
<1>7. Walks(h.matrix[c], next, w)
  <2>1. Len(w) \in Nat /\ (w # <<>> => Len(w) \in 1 .. Len(w))
    BY <1>5, EmptySeq DEF Lists
  <2>2. w # <<>> => next[w[Len(w)]] = FNext(h, w[Len(w)])
    BY <1>6, <2>1
  <2>3. \A j \in 2 .. Len(w) : next[w[j - 1]] = FNext(h, w[j - 1])
    <3>1. \A j \in 2 .. Len(w) : j - 1 \in 1 .. Len(w)
      BY <2>1
    <3> QED
      BY <1>6, <3>1
  <2> QED
    BY <1>5, <1>6, <2>2, <2>3 DEF Lists, Walks
<1>8. w \in Seq(g.fr) /\ Len(w) <= MemTop
  BY <1>5 DEF Lists
<1>9. Follow(h.matrix[c], next, MemTop) = w
  BY <1>3, <1>7, <1>8, FollowIs
<1> QED
  BY <1>5, <1>9 DEF Listed, next

\* What FreeListsExact says of one list.
LEMMA WholeLists ==
  ASSUME NEW h, NEW g, Whole(h, g), NEW c \in Classes
  PROVE  LET list == Listed(h, c)
         IN  /\ S!ToSet(list) = {b \in FreeBlocks(h) : MappingInsert(Size(h, b)) = c}
             /\ Len(list) = Cardinality(S!ToSet(list))
             /\ \A j \in DOMAIN list : FPrev(h, list[j]) = IF j = 1 THEN 0 ELSE list[j - 1]
<1> DEFINE w == Listed(h, c)
           m == Len(w)
<1>1. Lists(h, g, c, w)
  BY ListedAre
<1> HIDE DEF w
<1>2. w \in Seq(g.fr) /\ m \in Nat /\ DOMAIN w = 1 .. m /\ w \in [1 .. m -> g.fr]
  BY <1>1, LenProperties DEF Lists
<1>3. S!ToSet(w) = Of(g, c)
  <2>1. S!ToSet(w) = {w[j] : j \in DOMAIN w}
    BY DEF S!ToSet
  <2> QED
    BY <1>1, <1>2, <2>1 DEF Lists
<1>4. Of(g, c) = {b \in FreeBlocks(h) : MappingInsert(Size(h, b)) = c}
  <2>1. FreeBlocks(h) = g.fr
    BY BlocksAre
  <2>2. \A b \in g.fr : Size(h, b) = g.sz[b]
    BY DEF Whole, Sound, Layout, Ordered, Tags
  <2> QED
    BY <2>1, <2>2 DEF Of
<1>5. Cardinality(Of(g, c)) = m
  <2> DEFINE F == Of(g, c)
  <2>1. F = {w[j] : j \in 1 .. m} /\ \A i, j \in 1 .. m : w[i] = w[j] => i = j
    BY <1>1 DEF Lists
  <2> HIDE DEF m, F
  <2>2. w \in [1 .. m -> F]
    BY <1>2, <2>1
  <2>3. w \in Injection(1 .. m, F)
    BY <2>1, <2>2 DEF Injection, IsInjective
  <2>4. w \in Surjection(1 .. m, F)
    BY <2>1, <2>2 DEF Surjection
  <2>5. ExistsBijection(1 .. m, F)
    BY <2>3, <2>4 DEF ExistsBijection, Bijection
  <2>6. Cardinality(F) = m
    BY <1>2, <2>5, FS_CountingElements
  <2> QED
    BY <2>6 DEF m, F
<1>6. \A j \in DOMAIN w : FPrev(h, w[j]) = IF j = 1 THEN 0 ELSE w[j - 1]
  BY <1>1, <1>2 DEF Lists
<1> QED
  BY <1>3, <1>4, <1>5, <1>6 DEF w

\* The largest of a set of numbers.
LEMMA MaxIs ==
  ASSUME NEW T \in SUBSET Nat, NEW x \in T, \A y \in T : y <= x
  PROVE  S!Max(T) = x
<1>1. S!Max(T) = CHOOSE z \in T : \A y \in T : z >= y
  BY DEF S!Max
<1>2. \A y \in T : x >= y
  OBVIOUS
<1>3. \A z \in T : (\A y \in T : z >= y) => z = x
  OBVIOUS
<1> QED
  BY <1>1, <1>2, <1>3

\* The largest block is in the list of the highest class that has any.
LEMMA WholeLargest ==
  ASSUME NEW h, NEW g, Whole(h, g)
  PROVE  Largest(h) = S!Max({Size(h, b) : b \in FreeBlocks(h)} \cup {0})
<1> DEFINE used == {c \in Classes : h.matrix[c] # 0}
           all  == {Size(h, b) : b \in FreeBlocks(h)} \cup {0}
<1>1. Layout(Areas(h), g)
  BY DEF Whole, Sound
<1>2. PICK pos : Linked(h, g, pos)
  BY DEF Whole, Sound, Chains
<1>3. \A b \in g.fr : /\ Size(h, b) = g.sz[b] /\ g.sz[b] \in Nat /\ g.sz[b] <= MemTop
                      /\ b # 0 /\ MappingInsert(g.sz[b]) \in Classes
  <2>1. \A b \in g.fr : b \in g.hs /\ b # 0
    BY <1>1, Neighbours
  <2>2. \A b \in g.fr : Size(h, b) = g.sz[b]
    BY <2>1 DEF Whole, Sound, Tags
  <2> QED
    BY <1>1, <2>1, <2>2, ClassOf
<1>4. all = {g.sz[b] : b \in g.fr} \cup {0}
  <2>1. FreeBlocks(h) = g.fr
    BY BlocksAre
  <2> QED
    BY <1>3, <2>1
<1>5. \A b \in g.fr : MappingInsert(g.sz[b]) \in used
  <2> SUFFICES ASSUME NEW b \in g.fr PROVE h.matrix[MappingInsert(g.sz[b])] # 0
    BY <1>3
  <2>1. h.matrix[MappingInsert(g.sz[b])] \in g.fr
    BY <1>2, FirstOf
  <2> QED
    BY <1>3, <2>1
<1>6. CASE used = {}
  <2>1. g.fr = {}
    BY <1>5, <1>6
  <2>2. all = {0}
    BY <1>4, <2>1
  <2>3. S!Max(all) = 0
    <3>1. {0} \in SUBSET Nat
      OBVIOUS
    <3>2. \A y \in {0} : y <= 0
      OBVIOUS
    <3>3. S!Max({0}) = 0
      BY <3>1, <3>2, MaxIs
    <3> HIDE DEF all
    <3> QED
      BY <2>2, <3>3
  <2>4. Largest(h) = 0
    BY <1>6 DEF Largest
  <2> QED
    BY <2>3, <2>4
<1>7. CASE used # {}
  <2>1. used \in SUBSET Nat /\ MemTop \in Nat /\ \A c \in used : c <= MemTop
    <3>1. \A u \in 0 .. MemTop : MappingInsert(u) \in Nat /\ MappingInsert(u) <= MemTop
      <4> SUFFICES ASSUME NEW u \in 0 .. MemTop
                   PROVE  MappingInsert(u) \in Nat /\ MappingInsert(u) <= MemTop
        OBVIOUS
      <4>1. u \in Nat /\ u <= MemTop /\ MemTop \in Nat
        BY TlsfAssumption
      <4>2. MappingInsert(u) \in 0 .. u
        BY <4>1, ClassBounds
      <4> QED
        BY <4>1, <4>2
    <3> QED
      BY <3>1, TlsfAssumption DEF Classes
  <2>2. PICK c \in used : \A d \in used : d <= c
    <3> HIDE DEF used
    <3> QED
      BY <1>7, <2>1, GreatestElement
  <2>3. S!Max(used) = c
    <3> HIDE DEF used
    <3> QED
      BY <2>1, <2>2, MaxIs
  <2> DEFINE w == Listed(h, c)
             sizes == {Size(h, w[i]) : i \in DOMAIN w}
             F == Of(g, c)
  <2>4. Largest(h) = S!Max(sizes)
    BY <1>7, <2>3 DEF Largest
  <2>5. sizes = {g.sz[b] : b \in F}
    <3>1. Lists(h, g, c, w)
      BY <2>2, ListedAre
    <3> HIDE DEF w
    <3>2. DOMAIN w = 1 .. Len(w)
      BY <3>1, LenProperties DEF Lists
    <3>3. F = {w[i] : i \in DOMAIN w}
      BY <3>1, <3>2 DEF Lists
    <3> HIDE DEF F
    <3>4. sizes = {Size(h, b) : b \in F}
      BY <3>3
    <3>5. \A b \in F : Size(h, b) = g.sz[b]
      BY <1>3 DEF F, Of
    <3> QED
      BY <3>4, <3>5
  <2>6. h.matrix[c] \in F
    BY <1>2, <2>2 DEF Linked, Of
  <2> HIDE DEF sizes
  <2>7. sizes \in SUBSET Nat /\ sizes # {} /\ \A n \in sizes : n <= MemTop
    BY <1>3, <2>5, <2>6 DEF Of
  <2>8. PICK x \in sizes : \A y \in sizes : y <= x
    BY <2>1, <2>7, GreatestElement
  <2>9. S!Max(sizes) = x
    BY <2>7, <2>8, MaxIs
  <2>10. PICK b \in F : x = g.sz[b]
    BY <2>5, <2>8
  <2>11. b \in g.fr /\ MappingInsert(g.sz[b]) = c
    BY <2>10 DEF Of
  <2>12. ASSUME NEW a \in g.fr PROVE g.sz[a] <= x
    <3> DEFINE d == MappingInsert(g.sz[a])
    <3>1. d \in used /\ d <= c /\ d \in Nat /\ c \in Nat
      BY <1>5, <2>1, <2>2
    <3>2. g.sz[a] \in Nat /\ x \in Nat
      BY <1>3, <2>7, <2>8
    <3>3. CASE d = c
      <4>1. g.sz[a] \in sizes
        BY <2>5, <3>3 DEF Of
      <4> QED
        BY <2>8, <4>1
    <3>4. CASE d # c
      <4> SUFFICES ASSUME ~ (g.sz[a] <= x) PROVE FALSE
        OBVIOUS
      <4>1. MappingInsert(x) <= MappingInsert(g.sz[a])
        BY <3>2, ClassMonotone
      <4>2. MappingInsert(x) = c
        BY <2>10, <2>11
      <4> HIDE DEF used
      <4>3. c <= d
        BY <4>1, <4>2
      <4> HIDE DEF d
      <4> QED
        BY <3>1, <3>4, <4>3
    <3> QED
      BY <3>3, <3>4
  <2>13. S!Max(all) = x
    <3>1. x \in all /\ all \in SUBSET Nat /\ \A y \in all : y <= x
      <4>1. x \in Nat
        BY <2>7, <2>8
      <4> HIDE DEF all
      <4> QED
        BY <1>3, <1>4, <2>10, <2>11, <2>12, <4>1
    <3> HIDE DEF all
    <3> QED
      BY <3>1, MaxIs
  <2> QED
    BY <2>4, <2>9, <2>13
<1> QED
  BY <1>6, <1>7

-----------------------------------------------------------------------------
(* What the callers have *)

\* The callers have the blocks in use, each as large as they asked for.
Handed(h, gv, g) ==
  /\ Whole(h, g) /\ DOMAIN gv = Used(h, g)
  /\ \A b \in DOMAIN gv : gv[b] \in Nat \ {0} /\ gv[b] <= g.sz[b]

HeapInv == \E g : Handed(heap, given, g)

\* What blocks hold in both their sizes stays.
Stays(h, gv, h2, gv2) ==
  \A b \in DOMAIN gv \cap DOMAIN gv2 :
    \A a \in 1 .. MemTop :
      a > b /\ a <= b + gv[b] /\ a <= b + gv2[b] => h2.mem[a] = h.mem[a]

\* What a call does for the callers.
Serves(h, gv, h2, gv2) ==
  (\E g2 : Handed(h2, gv2, g2)) /\ Stays(h, gv, h2, gv2)

\* The blocks of C are left alone, any other has been given anew.
LEMMA CallServes ==
  ASSUME NEW h, NEW gv, NEW g, Handed(h, gv, g), NEW h2, NEW gv2, NEW g2, Whole(h2, g2),
         NEW C, C \subseteq Used(h, g), Keeps(h, g, h2, g2, C),
         DOMAIN gv2 = Used(h2, g2),
         \A c \in DOMAIN gv2 :
           \/ c \in C /\ gv2[c] = gv[c]
           \/ /\ gv2[c] \in Nat \ {0} /\ gv2[c] <= g2.sz[c]
              /\ c \in DOMAIN gv => \A a \in c + 1 .. c + g.sz[c] :
                                      a <= c + gv2[c] => h2.mem[a] = h.mem[a]
  PROVE  Serves(h, gv, h2, gv2)
<1>1. \A c \in Used(h, g) : /\ c \in Nat /\ g.sz[c] \in Nat
                            /\ gv[c] \in Nat \ {0} /\ gv[c] <= g.sz[c]
  BY Neighbours DEF Handed, Whole, Sound, Used, Busy
<1>2. Handed(h2, gv2, g2)
  <2> SUFFICES ASSUME NEW b \in DOMAIN gv2
               PROVE  gv2[b] \in Nat \ {0} /\ gv2[b] <= g2.sz[b]
    BY DEF Handed
  <2>1. CASE b \in C /\ gv2[b] = gv[b]
    BY <1>1, <2>1 DEF Keeps
  <2> QED
    BY <2>1
<1>3. ASSUME NEW b \in DOMAIN gv \cap DOMAIN gv2, NEW a \in 1 .. MemTop,
             a > b, a <= b + gv[b], a <= b + gv2[b]
      PROVE  h2.mem[a] = h.mem[a]
  <2>1. b \in Used(h, g) /\ b \in DOMAIN gv /\ a \in Nat
    BY DEF Handed
  <2>2. a \in b + 1 .. b + g.sz[b]
    BY <1>1, <1>3, <2>1
  <2>3. CASE b \in C
    BY <2>2, <2>3 DEF Keeps
  <2> QED
    BY <1>3, <2>1, <2>2, <2>3
<1> QED
  BY <1>2, <1>3 DEF Serves, Stays

\* A block is new to the callers.
LEMMA NewServes ==
  ASSUME NEW h, NEW gv, NEW g, Handed(h, gv, g), NEW h2, NEW gv2, NEW g2, Whole(h2, g2),
         NEW q, q \notin Used(h, g), Used(h2, g2) = Used(h, g) \cup {q},
         Keeps(h, g, h2, g2, Used(h, g)),
         NEW n \in Nat \ {0}, n <= g2.sz[q],
         gv2 = [c \in DOMAIN gv \cup {q} |-> IF c = q THEN n ELSE gv[c]]
  PROVE  Serves(h, gv, h2, gv2)
<1>1. DOMAIN gv = Used(h, g)
  BY DEF Handed
<1>2. DOMAIN gv2 = Used(h2, g2)
  BY <1>1
<1>3. \A c \in DOMAIN gv2 :
        \/ c \in Used(h, g) /\ gv2[c] = gv[c]
        \/ /\ gv2[c] \in Nat \ {0} /\ gv2[c] <= g2.sz[c]
           /\ c \in DOMAIN gv => \A a \in c + 1 .. c + g.sz[c] :
                                   a <= c + gv2[c] => h2.mem[a] = h.mem[a]
  BY <1>1
<1> QED
  BY <1>2, <1>3, CallServes

\* Nothing changes for the callers.
LEMMA SameServes ==
  ASSUME NEW h, NEW gv, NEW g, Handed(h, gv, g), NEW h2, NEW g2, Whole(h2, g2),
         Used(h2, g2) = Used(h, g), Keeps(h, g, h2, g2, Used(h, g))
  PROVE  Serves(h, gv, h2, gv)
<1>1. DOMAIN gv = Used(h, g)
  BY DEF Handed
<1>2. \A c \in DOMAIN gv :
        \/ c \in Used(h, g) /\ gv[c] = gv[c]
        \/ /\ gv[c] \in Nat \ {0} /\ gv[c] <= g2.sz[c]
           /\ c \in DOMAIN gv => \A a \in c + 1 .. c + g.sz[c] :
                                   a <= c + gv[c] => h2.mem[a] = h.mem[a]
  BY <1>1
<1> QED
  BY <1>1, <1>2, CallServes

\* The empty heap, before the first call and after tlsf_destroy.
LEMMA EmptyHanded ==
  ASSUME NEW h, NEW gv, h = EmptyHeap, gv = <<>>
  PROVE  \E g : Handed(h, gv, g)
<1> DEFINE g == [hs |-> {}, sz |-> [c \in {} |-> 0], fr |-> {}]
<1>1. g.hs = {} /\ g.fr = {} /\ g.sz \in [g.hs -> Nat] /\ Busy(g) = {}
  BY DEF Busy
<1> HIDE DEF g
<1>2. HeapType(h) /\ h.areas = <<>> /\ h.matrix = [c \in Classes |-> 0]
  <2>1. Zeros \in Cell
    BY DEF Zeros, Cell
  <2>2. <<>> \in Seq([at : Nat, end : Nat])
    OBVIOUS
  <2> QED
    BY <2>1, <2>2, TlsfAssumption DEF EmptyHeap, HeapType
<1>3. Areas(h) = {}
  BY <1>2 DEF Areas
<1>4. Layout(Areas(h), g)
  BY <1>1, <1>3 DEF Layout, Ordered, Joined, Bounded, Apart
<1>5. Tags(h, g, {}, {}, {})
  BY <1>1 DEF Tags
<1>6. Chains(h, g)
  <2>1. Linked(h, g, [b \in {} |-> 0])
    BY <1>1, <1>2 DEF Linked
  <2> QED
    BY <2>1 DEF Chains
<1>7. Below(h)
  BY <1>3 DEF Below
<1>8. Whole(h, g)
  BY <1>2, <1>4, <1>5, <1>6, <1>7 DEF Whole, Sound
<1>9. DOMAIN gv = {} /\ Used(h, g) = {}
  BY <1>1 DEF Used
<1>10. Handed(h, gv, g)
  BY <1>8, <1>9 DEF Handed
<1> QED
  BY <1>10

-----------------------------------------------------------------------------
(* The calls *)

\* What a block is handed out for: n units, in place of nothing.
HandIs(gv, gv2, q, n) == gv2 = [c \in DOMAIN gv \cup {q} |-> IF c = q THEN n ELSE gv[c]]

\* AllocMem hands out a block that is new to the callers, or nothing.
LEMMA AllocMemServes ==
  ASSUME NEW g, Handed(heap, given, g), NEW n \in Sizes, AllocMem(n)
  PROVE  Serves(heap, given, heap', given')
<1> DEFINE m == Alloc(heap, n)
<1>1. n \in Nat /\ n > 0 /\ n \in Nat \ {0}
  BY TlsfAssumption
<1>2. Whole(heap, g)
  BY DEF Handed
<1>3. PICK g2 : Given(heap, g, m.heap, g2, m.block, n)
  BY <1>1, <1>2, AllocSound
<1>4. heap' = m.heap /\ IF m.block = 0 THEN given' = given ELSE HandIs(given, given', m.block, n)
  BY DEF AllocMem, Hand, HandIs
<1> HIDE DEF m
<1>5. Whole(heap', g2) /\ Keeps(heap, g, heap', g2, Busy(g))
  BY <1>3, <1>4 DEF Given
<1>6. Used(heap, g) \subseteq Busy(g)
  BY DEF Used
<1>7. Keeps(heap, g, heap', g2, Used(heap, g))
  BY <1>5, <1>6, KeepsFewer
<1>8. CASE m.block = 0
  <2>1. Used(heap', g2) = Used(heap, g) /\ given' = given
    BY <1>3, <1>4, <1>8 DEF Given
  <2>2. Serves(heap, given, heap', given)
    BY <1>5, <1>7, <2>1, SameServes
  <2> QED
    BY <2>1, <2>2
<1>9. CASE m.block # 0
  <2> DEFINE q == m.block
  <2>1. /\ Used(heap', g2) = Used(heap, g) \cup {q} /\ q \notin Used(heap, g)
        /\ n <= g2.sz[q]
    BY <1>3, <1>4, <1>9, <1>1 DEF Given
  <2>2. given' = [c \in DOMAIN given \cup {q} |-> IF c = q THEN n ELSE given[c]]
    BY <1>4, <1>9 DEF HandIs
  <2> HIDE DEF q
  <2> QED
    BY <1>1, <1>5, <1>7, <2>1, <2>2, NewServes
<1> QED
  BY <1>8, <1>9

\* FreeMem takes that block back, the others stay.
LEMMA FreeMemServes ==
  ASSUME NEW g, Handed(heap, given, g), NEW b \in DOMAIN given, FreeMem(b)
  PROVE  Serves(heap, given, heap', given')
<1>1. Whole(heap, g) /\ b \in Used(heap, g) /\ DOMAIN given = Used(heap, g)
  BY DEF Handed
<1>2. b \in Busy(g) /\ b \notin AtsOf(Areas(heap)) /\ b \notin EndsOf(Areas(heap))
  BY <1>1 DEF Used
<1>3. g.sz[b] > 0
  <2>1. given[b] \in Nat \ {0} /\ given[b] <= g.sz[b]
    BY DEF Handed
  <2>2. b \in g.hs /\ Layout(Areas(heap), g)
    BY <1>1, <1>2 DEF Busy, Whole, Sound
  <2>3. g.sz[b] \in Nat
    BY <2>2, Neighbours
  <2> QED
    BY <2>1, <2>3
<1>4. heap' = FreeVec(heap, b) /\ given' = [c \in DOMAIN given \ {b} |-> given[c]]
  BY DEF FreeMem
<1>5. PICK g2 : /\ Served(heap, g, FreeVec(heap, b), g2, Busy(g) \ {b})
                /\ Busy(g2) = Busy(g) \ {b}
  BY <1>1, <1>2, <1>3, FreeVecSound
<1>6. /\ Whole(heap', g2) /\ Areas(heap') = Areas(heap)
      /\ Keeps(heap, g, heap', g2, Busy(g) \ {b})
  BY <1>4, <1>5 DEF Served
<1> DEFINE C == Used(heap, g) \ {b}
<1>7. C \subseteq Busy(g) \ {b} /\ C \subseteq Used(heap, g) /\ Used(heap', g2) = C
  BY <1>5, <1>6 DEF Used
<1>8. Keeps(heap, g, heap', g2, C)
  <2> DEFINE D == Busy(g) \ {b}
  <2>1. C \subseteq D /\ Keeps(heap, g, heap', g2, D)
    BY <1>6, <1>7
  <2> HIDE DEF C, D
  <2> QED
    BY <2>1, KeepsFewer
<1>9. DOMAIN given' = Used(heap', g2)
  BY <1>1, <1>4, <1>7
<1>10. \A c \in DOMAIN given' : c \in C /\ given'[c] = given[c]
  BY <1>1, <1>4
<1> HIDE DEF C
<1> QED
  BY <1>6, <1>7, <1>8, <1>9, <1>10, CallServes

\* ReallocMem replaces that block, the others stay.
LEMMA ReallocMemServes ==
  ASSUME ~ KnownFaults, NEW g, Handed(heap, given, g), NEW b \in DOMAIN given,
         NEW n \in Sizes, ReallocMem(b, n)
  PROVE  Serves(heap, given, heap', given')
<1> DEFINE m == Realloc(heap, b, n)
<1>1. n \in Nat /\ n > 0 /\ n \in Nat \ {0}
  BY TlsfAssumption
<1>2. Whole(heap, g) /\ b \in Used(heap, g) /\ DOMAIN given = Used(heap, g)
  BY DEF Handed
<1>3. g.sz[b] > 0
  <2>1. given[b] \in Nat \ {0} /\ given[b] <= g.sz[b]
    BY DEF Handed
  <2>2. b \in g.hs /\ Layout(Areas(heap), g)
    BY <1>2 DEF Busy, Used, Whole, Sound
  <2>3. g.sz[b] \in Nat
    BY <2>2, Neighbours
  <2> QED
    BY <2>1, <2>3
<1>4. /\ ~ (n > Size(m.heap, m.block))
      /\ n = Size(heap, b) - 1 => IsFree(heap, Behind(heap, b))
      /\ heap' = m.heap
      /\ given' = [c \in (DOMAIN given \ {b}) \cup {m.block} |->
                     IF c = m.block THEN n ELSE given[c]]
  BY DEF ReallocMem
<1>5. PICK g2 : Regiven(heap, g, m.heap, g2, b, m.block, n)
  BY <1>1, <1>2, <1>3, <1>4, ReallocSound
<1> DEFINE q == m.block
           C == Used(heap, g) \ {b}
<1>6. /\ Whole(heap', g2) /\ Used(heap', g2) = C \cup {q} /\ q \notin C
      /\ n <= g2.sz[q] /\ Keeps(heap, g, heap', g2, C)
      /\ q = b => \A a \in b + 1 .. b + g.sz[b] : a <= b + n => heap'.mem[a] = heap.mem[a]
  BY <1>4, <1>5, <1>1 DEF Regiven
<1>7. given' = [c \in C \cup {q} |-> IF c = q THEN n ELSE given[c]]
  BY <1>2, <1>4
<1>8. C \subseteq Used(heap, g) /\ Used(heap, g) \subseteq C \cup {b}
  OBVIOUS
<1> HIDE DEF m, q, C
<1>9. DOMAIN given' = Used(heap', g2)
  BY <1>6, <1>7
<1>10. \A c \in DOMAIN given' :
         \/ c \in C /\ given'[c] = given[c]
         \/ /\ given'[c] \in Nat \ {0} /\ given'[c] <= g2.sz[c]
            /\ c \in DOMAIN given => \A a \in c + 1 .. c + g.sz[c] :
                                       a <= c + given'[c] => heap'.mem[a] = heap.mem[a]
  <2> SUFFICES ASSUME NEW c \in DOMAIN given', c = q
               PROVE  /\ given'[c] \in Nat \ {0} /\ given'[c] <= g2.sz[c]
                      /\ c \in DOMAIN given => \A a \in c + 1 .. c + g.sz[c] :
                                   a <= c + given'[c] => heap'.mem[a] = heap.mem[a]
    BY <1>7
  <2>1. given'[c] = n
    BY <1>7
  <2>2. c \in DOMAIN given => c = b
    BY <1>2, <1>6, <1>8
  <2> QED
    BY <1>1, <1>6, <2>1, <2>2
<1> QED
  BY <1>6, <1>8, <1>9, <1>10, CallServes

\* AllocMemAligned, after careful callers' requests, hands out a new block.
LEMMA AllocMemAlignedServes ==
  ASSUME ~ KnownFaults, NEW g, Handed(heap, given, g), NEW n \in Sizes, NEW align \in Aligns,
         NEW junk, AllocMemAligned(n, align, junk)
  PROVE  Serves(heap, given, heap', given')
<1> DEFINE got == Alloc(heap, n + align)
           b == got.block
           h == got.heap
           ab == Aligned(b, align)
           next == Behind(h, b)
           m == AllocAligned(got, n, align, junk)
<1>1. n \in Nat /\ n > 0 /\ n \in Nat \ {0} /\ align \in Nat \ {0}
      /\ n + align \in Nat /\ n + align > 0
  BY TlsfAssumption
<1>2. Whole(heap, g)
  BY DEF Handed
<1>3. PICK g1 : Given(heap, g, h, g1, b, n + align)
  BY <1>1, <1>2, AllocSound
<1>4. /\ heap' = m.heap
      /\ IF m.block = 0 THEN given' = given ELSE HandIs(given, given', m.block, n)
      /\ b # 0 /\ align # 1 =>
           /\ junk = 0 /\ ab - b # 1
           /\ IF IsFree(h, next) THEN Behind(h, next) \in Ends(h)
              ELSE next - (ab + 1 + n) # 1
  BY DEF AllocMemAligned, Hand, HandIs
<1>5. b = 0 \/ align = 1 => m = got
  BY DEF AllocAligned
<1>6. b # 0 /\ align # 1 => /\ m.block = ab
                            /\ \E g2 : AlignedDone(h, g1, m.heap, g2, b, ab, n)
  <2> HAVE b # 0 /\ align # 1
  <2>1. /\ Whole(h, g1) /\ b \in Used(h, g1) /\ \A p \in g1.fr : Nx(g1, p) # b
        /\ g1.sz[b] >= n + align
    BY <1>3 DEF Given
  <2>2. junk = 0 /\ ab - b # 1
    BY <1>4
  <2>3. IF IsFree(h, next) THEN Behind(h, next) \in Ends(h)
        ELSE next - (ab + 1 + n) # 1
    BY <1>4
  <2>4. got.heap = h /\ got.block = b /\ ab = Aligned(b, align) /\ next = Behind(h, b)
        /\ m = AllocAligned(got, n, align, 0)
    BY <2>2
  <2>5. b # 0 /\ align # 1
    OBVIOUS
  <2> HIDE DEF got, b, h, ab, next, m
  <2> QED
    BY <1>1, <2>1, <2>2, <2>3, <2>4, <2>5, AllocAlignedSound
<1>7. got.heap = h /\ got.block = b
  OBVIOUS
<1> HIDE DEF got, b, h, ab, next, m
<1>8. Used(heap, g) \subseteq Busy(g)
  BY DEF Used
<1>9. Keeps(heap, g, h, g1, Used(heap, g)) /\ Whole(h, g1)
  <2>1. Keeps(heap, g, h, g1, Busy(g)) /\ Whole(h, g1)
    BY <1>3 DEF Given
  <2> QED
    BY <1>8, <2>1, KeepsFewer
<1>10. CASE b = 0
  <2>1. Used(h, g1) = Used(heap, g) /\ given' = given /\ heap' = h
    BY <1>3, <1>4, <1>5, <1>7, <1>10 DEF Given
  <2>2. Serves(heap, given, h, given)
    BY <1>9, <2>1, SameServes
  <2> QED
    BY <2>1, <2>2
<1>11. ASSUME b # 0, NEW q, NEW g2, Whole(heap', g2), q \notin Used(heap, g),
              Used(heap', g2) = Used(heap, g) \cup {q},
              Keeps(heap, g, heap', g2, Used(heap, g)), n <= g2.sz[q],
              HandIs(given, given', q, n)
       PROVE  Serves(heap, given, heap', given')
  <2>1. given' = [c \in DOMAIN given \cup {q} |-> IF c = q THEN n ELSE given[c]]
    BY <1>11 DEF HandIs
  <2> QED
    BY <1>1, <1>11, <2>1, NewServes
<1>12. CASE b # 0 /\ align = 1
  <2>1. heap' = h /\ HandIs(given, given', b, n)
    BY <1>4, <1>5, <1>7, <1>12
  <2>2. /\ b \notin Used(heap, g) /\ Used(h, g1) = Used(heap, g) \cup {b}
        /\ n <= g1.sz[b]
    <3>1. /\ b \notin Used(heap, g) /\ Used(h, g1) = Used(heap, g) \cup {b}
          /\ g1.sz[b] >= n + align /\ b \in Used(h, g1)
      BY <1>3, <1>12 DEF Given
    <3>2. b \in g1.hs /\ Layout(Areas(h), g1)
      BY <1>9, <3>1 DEF Used, Busy, Whole, Sound
    <3>3. g1.sz[b] \in Nat
      BY <3>2, Neighbours
    <3> QED
      BY <1>1, <3>1, <3>3
  <2> QED
    BY <1>9, <1>11, <1>12, <2>1, <2>2
<1>13. CASE b # 0 /\ align # 1
  <2>1. PICK g2 : AlignedDone(h, g1, heap', g2, b, ab, n)
    BY <1>4, <1>6, <1>13
  <2>2. HandIs(given, given', ab, n)
    <3>1. ab # 0
      BY <2>1 DEF AlignedDone
    <3> QED
      BY <1>4, <1>6, <1>13, <3>1
  <2>3. /\ Whole(heap', g2) /\ Areas(heap') = Areas(h)
        /\ Keeps(h, g1, heap', g2, Busy(g1) \ {b})
        /\ Busy(g2) = (Busy(g1) \ {b}) \cup {ab} /\ ab \notin Busy(g1) \ {b}
        /\ ab \notin AtsOf(Areas(h)) /\ ab \notin EndsOf(Areas(h)) /\ g2.sz[ab] = n
    BY <2>1 DEF AlignedDone, Served
  <2>4. b \notin Used(heap, g) /\ Used(h, g1) = Used(heap, g) \cup {b}
    BY <1>3, <1>13 DEF Given
  <2>5. /\ ab \notin Used(heap, g) /\ Used(heap', g2) = Used(heap, g) \cup {ab}
        /\ Used(heap, g) \subseteq Busy(g1) \ {b}
    BY <2>3, <2>4 DEF Used
  <2>6. Keeps(heap, g, heap', g2, Used(heap, g))
    <3> DEFINE C == Used(heap, g)
               D == Busy(g1) \ {b}
    <3>1. C \subseteq D /\ Keeps(heap, g, h, g1, C) /\ Keeps(h, g1, heap', g2, D)
      BY <1>9, <2>3, <2>5
    <3> HIDE DEF C, D
    <3>2. Keeps(heap, g, heap', g2, C)
      BY <3>1, KeepsTransitive
    <3> QED
      BY <3>2 DEF C
  <2>7. n <= g2.sz[ab]
    BY <1>1, <2>3
  <2> QED
    BY <1>11, <1>13, <2>2, <2>3, <2>5, <2>6, <2>7
<1> QED
  BY <1>10, <1>12, <1>13

\* The block that tlsf_allocabs finds is free.
LEMMA AroundFree ==
  ASSUME NEW h, NEW g, Whole(h, g), NEW start, NEW region, NEW b \in Around(h, start, region)
  PROVE  b \in g.fr /\ b < start
<1>1. PICK c \in Classes : b \in S!ToSet(Listed(h, c))
  BY DEF Around
<1>2. Lists(h, g, c, Listed(h, c))
  BY ListedAre
<1> DEFINE w == Listed(h, c)
<1>3. w \in Seq(g.fr) /\ b \in S!ToSet(w)
  BY <1>1, <1>2 DEF Lists
<1>4. b < start
  BY DEF Around
<1> HIDE DEF w
<1>5. S!ToSet(w) = {w[j] : j \in DOMAIN w}
  BY DEF S!ToSet
<1>6. \A j \in DOMAIN w : w[j] \in g.fr
  BY <1>3
<1>7. b \in g.fr
  BY <1>3, <1>5, <1>6
<1> QED
  BY <1>4, <1>7

\* AllocMemAbs, after careful callers' requests, hands out a new block.
LEMMA AllocMemAbsServes ==
  ASSUME NEW g, Handed(heap, given, g), NEW n \in Sizes, NEW place \in Places,
         AllocMemAbs(n, place)
  PROVE  Serves(heap, given, heap', given')
<1> DEFINE region == MappingSearch(n)
           around == Around(heap, place, region)
           b == CHOOSE x \in around : TRUE
<1>1. n \in Nat /\ n \in Nat \ {0} /\ place \in Nat
  BY TlsfAssumption
<1>2. Whole(heap, g)
  BY DEF Handed
<1>3. region \in Nat /\ region >= n
  BY <1>1, RequestClass
<1>4. Used(heap, g) \subseteq Busy(g)
  BY DEF Used
<1>5. CASE around = {}
  <2>1. heap' = heap /\ given' = given
    BY <1>5 DEF AllocMemAbs, vars
  <2>2. Keeps(heap, g, heap, g, Used(heap, g))
    BY <1>4 DEF Keeps
  <2>3. Serves(heap, given, heap, given)
    BY <1>2, <2>2, SameServes
  <2> QED
    BY <2>1, <2>3
<1>6. CASE around # {}
  <2>1. /\ Behind(heap, b) - place - region >= 2 /\ place - b # 2
        /\ heap' = AllocAbs(heap, b, place, region)
        /\ HandIs(given, given', place - 1, n)
    BY <1>6 DEF AllocMemAbs, Hand, HandIs
  <2>2. b \in around
    BY <1>6
  <2> DEFINE q == place - 1
  <2> HIDE DEF region, b, q
  <2>3. b \in g.fr /\ b < place
    BY <1>2, <2>2, AroundFree
  <2> HIDE DEF around
  <2>4. PICK g2 : Placed(heap, g, heap', g2, q, region)
    BY <1>1, <1>2, <1>3, <2>1, <2>3, AllocAbsSound DEF q
  <2>5. /\ Whole(heap', g2) /\ Areas(heap') = Areas(heap)
        /\ Keeps(heap, g, heap', g2, Busy(g))
        /\ Busy(g2) = Busy(g) \cup {q} /\ q \notin Busy(g)
        /\ q \notin AtsOf(Areas(heap)) /\ q \notin EndsOf(Areas(heap))
        /\ g2.sz[q] >= region
    BY <2>4 DEF Placed, Served
  <2>6. Keeps(heap, g, heap', g2, Used(heap, g))
    BY <1>4, <2>5, KeepsFewer
  <2>7. Used(heap', g2) = Used(heap, g) \cup {q} /\ q \notin Used(heap, g)
    BY <2>5 DEF Used
  <2>8. n <= g2.sz[q]
    <3>1. q \in g2.hs /\ Layout(Areas(heap'), g2)
      BY <2>5 DEF Busy, Whole, Sound
    <3>2. g2.sz[q] \in Nat
      BY <3>1, Neighbours
    <3> QED
      BY <1>1, <1>3, <2>5, <3>2
  <2>9. given' = [c \in DOMAIN given \cup {q} |-> IF c = q THEN n ELSE given[c]]
    BY <2>1 DEF HandIs, q
  <2> QED
    BY <1>1, <2>5, <2>6, <2>7, <2>8, <2>9, NewServes
<1> QED
  BY <1>5, <1>6

\* Nothing is in use after DeletePool.
LEMMA DestroyServes ==
  ASSUME Destroy
  PROVE  Serves(heap, given, heap', given')
<1>1. heap' = EmptyHeap /\ given' = <<>>
  BY DEF Destroy
<1>2. \E g2 : Handed(heap', given', g2)
  BY <1>1, EmptyHanded
<1>3. DOMAIN given' = {}
  BY <1>1
<1> QED
  BY <1>2, <1>3 DEF Serves, Stays

\* Every call of careful callers keeps the heap whole and what they have.
LEMMA NextServes ==
  ASSUME ~ KnownFaults, NEW g, Handed(heap, given, g), Next
  PROVE  Serves(heap, given, heap', given')
<1>1. ASSUME NEW n \in Sizes, AllocMem(n)
      PROVE  Serves(heap, given, heap', given')
  BY <1>1, AllocMemServes
<1>2. ASSUME NEW n \in Sizes, NEW b \in DOMAIN given, ReallocMem(b, n)
      PROVE  Serves(heap, given, heap', given')
  BY <1>2, ReallocMemServes
<1>3. ASSUME NEW n \in Sizes, NEW align \in Aligns, NEW junk \in {0, THIS_FREE},
             AllocMemAligned(n, align, junk)
      PROVE  Serves(heap, given, heap', given')
  BY <1>3, AllocMemAlignedServes
<1>4. ASSUME NEW n \in Sizes, NEW place \in Places, AllocMemAbs(n, place)
      PROVE  Serves(heap, given, heap', given')
  BY <1>4, AllocMemAbsServes
<1>5. ASSUME NEW b \in DOMAIN given, FreeMem(b)
      PROVE  Serves(heap, given, heap', given')
  BY <1>5, FreeMemServes
<1>6. ASSUME Destroy
      PROVE  Serves(heap, given, heap', given')
  BY <1>6, DestroyServes
<1> QED
  BY <1>1, <1>2, <1>3, <1>4, <1>5, <1>6 DEF Next

-----------------------------------------------------------------------------
(* The properties *)

\* What CallersOwnBlocks says follows from the invariant.
LEMMA HandedOwned ==
  ASSUME NEW g, Handed(heap, given, g)
  PROVE  CallersOwnBlocks
<1> DEFINE R == Areas(heap)
<1>1. Whole(heap, g) /\ DOMAIN given = Used(heap, g)
  BY DEF Handed
<1>2. Layout(R, g) /\ \A b \in g.hs : Size(heap, b) = g.sz[b]
  BY <1>1 DEF Whole, Sound, Tags
<1>3. Blocks(heap) = g.hs \ EndsOf(R) /\ FreeBlocks(heap) = g.fr
  BY <1>1, BlocksAre
<1>4. {heap.areas[i].at : i \in DOMAIN heap.areas} = AtsOf(R)
  BY EndsAre
<1>5. DOMAIN given = Blocks(heap) \ (FreeBlocks(heap)
                       \cup {heap.areas[i].at : i \in DOMAIN heap.areas})
  BY <1>1, <1>3, <1>4 DEF Used, Busy
<1>6. ASSUME NEW b \in DOMAIN given
      PROVE  Size(heap, b) >= given[b] /\ InBounds(heap, b + 1, Behind(heap, b))
  <2>1. b \in g.hs /\ b \notin AtsOf(R) /\ b \notin EndsOf(R)
    BY <1>1, <1>6 DEF Used, Busy
  <2>2. given[b] \in Nat \ {0} /\ given[b] <= g.sz[b] /\ Size(heap, b) = g.sz[b]
    BY <1>2, <1>6, <2>1 DEF Handed
  <2>3. PICK r \in R : r.at <= b /\ b <= r.end
    BY <1>2, <2>1 DEF Layout, Bounded
  <2>4. PICK i \in DOMAIN heap.areas : heap.areas[i] = r
    BY DEF Areas
  <2>5. /\ r.at \in g.hs /\ r.end \in g.hs /\ g.sz[r.at] = 1
        /\ r.at \in AtsOf(R) /\ r.end \in EndsOf(R)
    BY <1>2 DEF Layout, Bounded, Busy, AtsOf, EndsOf
  <2>6. /\ b \in Nat /\ g.sz[b] \in Nat /\ r.at \in Nat /\ r.end \in Nat
        /\ \A c, d \in g.hs : c < d => Nx(g, c) <= d
    BY <1>2, <2>1, <2>5, Neighbours
  <2>7. r.at < b /\ b < r.end
    BY <2>1, <2>3, <2>5, <2>6
  <2>8. Nx(g, r.at) <= b /\ Nx(g, b) <= r.end
    BY <2>1, <2>5, <2>6, <2>7
  <2>9. r.at + 3 <= b + 1 /\ Behind(heap, b) <= r.end
    BY <2>2, <2>5, <2>6, <2>8 DEF Nx, Behind
  <2>10. InBounds(heap, b + 1, Behind(heap, b))
    <3> DEFINE e == Behind(heap, b)
               a == b + 1
    <3>1. e <= heap.areas[i].end /\ a >= heap.areas[i].at + 3
      BY <2>4, <2>6, <2>9
    <3> HIDE DEF e, a
    <3> QED
      BY <3>1 DEF InBounds, e, a
  <2> QED
    BY <2>2, <2>10
<1> QED
  BY <1>5, <1>6 DEF CallersOwnBlocks

\* What FreeListsExact says follows from the invariant.
LEMMA HandedListed ==
  ASSUME NEW g, Handed(heap, given, g)
  PROVE  FreeListsExact
<1>1. Whole(heap, g)
  BY DEF Handed
<1>2. Largest(heap) = S!Max({Size(heap, b) : b \in FreeBlocks(heap)} \cup {0})
  BY <1>1, WholeLargest
<1>3. ASSUME NEW c \in Classes
      PROVE  LET list == Listed(heap, c)
             IN  /\ S!ToSet(list) = {b \in FreeBlocks(heap) : MappingInsert(Size(heap, b)) = c}
                 /\ Len(list) = Cardinality(S!ToSet(list))
                 /\ \A j \in DOMAIN list :
                      FPrev(heap, list[j]) = IF j = 1 THEN 0 ELSE list[j - 1]
  BY <1>1, WholeLists
<1> QED
  BY <1>2, <1>3 DEF FreeListsExact

\* What Tiled says follows from the invariant.
LEMMA HandedTiled ==
  ASSUME NEW g, Handed(heap, given, g)
  PROVE  Tiled
<1>1. Whole(heap, g)
  BY DEF Handed
<1>2. ASSUME NEW i \in DOMAIN heap.areas
      PROVE  LET walk == BlocksOf(heap, heap.areas[i])
             IN  /\ S!Last(walk) = heap.areas[i].end
                 /\ \A j \in 2 .. Len(walk) :
                      LET b == walk[j - 1]
                          c == walk[j]
                      IN  /\ PrevFree(heap, c) <=> IsFree(heap, b)
                          /\ IsFree(heap, b) => ~ IsFree(heap, c)
                          /\ IsFree(heap, b) /\ c # heap.areas[i].end => heap.mem[c].prev = b
  <2> DEFINE r == heap.areas[i]
  <2>1. r \in Areas(heap)
    BY DEF Areas
  <2> HIDE DEF r
  <2>2. LET walk == BlocksOf(heap, r)
        IN  /\ S!Last(walk) = r.end
            /\ \A j \in 2 .. Len(walk) :
                 LET b == walk[j - 1]
                     c == walk[j]
                 IN  /\ PrevFree(heap, c) <=> IsFree(heap, b)
                     /\ IsFree(heap, b) => ~ IsFree(heap, c)
                     /\ IsFree(heap, b) /\ c # r.end => heap.mem[c].prev = b
    BY <1>1, <2>1, WholeTiled
  <2> QED
    BY <2>2 DEF r
<1> QED
  BY <1>2 DEF Tiled

\* The step of FindsMemory for one request.
LEMMA HandedFinds ==
  ASSUME NEW g, Handed(heap, given, g), NEW n \in Sizes, AllocMem(n),
         given' = given \/ heap'.brk # heap.brk
  PROVE  \A b \in FreeBlocks(heap) : Size(heap, b) < MappingSearch(n)
<1> DEFINE size == MappingSearch(n)
           class == FindSuitableBlock(heap, size)
<1>1. n \in Nat /\ n > 0
  BY TlsfAssumption
<1>2. size \in Nat /\ size > 0 /\ MappingInsert(size) = size
  BY <1>1, RequestClass
<1>3. Whole(heap, g) /\ DOMAIN given = Used(heap, g)
  BY DEF Handed
<1>4. Finds(heap, g, size, class)
  <2> HIDE DEF size
  <2> QED
    BY <1>2, <1>3, FindSound
<1>5. FreeBlocks(heap) = g.fr
  BY <1>3, BlocksAre
<1>6. \A b \in g.fr : Size(heap, b) = g.sz[b] /\ b # 0 /\ b \notin Busy(g)
  <2>1. Layout(Areas(heap), g) /\ \A b \in g.hs : Size(heap, b) = g.sz[b]
    BY <1>3 DEF Whole, Sound, Tags
  <2>2. \A b \in g.fr : b \in g.hs /\ b \in Nat /\ b > 0
    BY <2>1, Neighbours
  <2> QED
    BY <2>1, <2>2 DEF Busy
<1>7. class = 0
  <2> SUFFICES ASSUME class # 0 PROVE FALSE
    OBVIOUS
  <2> DEFINE b == heap.matrix[class]
  <2>1. b \in g.fr /\ class = MappingInsert(g.sz[b]) /\ size <= g.sz[b]
    BY <1>4 DEF Finds
  <2>2. Alloc(heap, n) = [heap |-> Take(heap, b, class, size), block |-> b]
    BY DEF Alloc, TakeSuitable
  <2>3. b # 0 /\ b \notin Busy(g)
    BY <1>6, <2>1
  <2>4. /\ heap' = Take(heap, b, class, size)
        /\ given' = [c \in DOMAIN given \cup {b} |-> IF c = b THEN n ELSE given[c]]
    BY <2>2, <2>3 DEF AllocMem, Hand
  <2>5. heap'.brk = heap.brk
    <3> HIDE DEF size, b, class
    <3> QED
      BY <1>2, <1>3, <2>1, <2>4, TakeSound
  <2>6. b \notin DOMAIN given
    BY <1>3, <2>3 DEF Used
  <2>7. b \in DOMAIN given'
    BY <2>4
  <2> QED
    BY <2>5, <2>6, <2>7
<1> QED
  BY <1>4, <1>5, <1>6, <1>7 DEF Finds

\* The inductive invariant: whatever careful callers have called, some headers
\* with sizes, some of them free, lie one behind the other in the areas, are what
\* the flags and lengths in memory say (SET_SIZE, SET_FREE_PREV_BLOCK and their
\* kin), stand in the lists of their classes, and the rest of them is in use.
THEOREM TlsfHeapInv ==
  ASSUME ~ KnownFaults
  PROVE  Spec => []HeapInv
<1>1. Init => HeapInv
  BY EmptyHanded DEF Init, HeapInv
<1>2. HeapInv /\ [Next]_vars => HeapInv'
  <2> SUFFICES ASSUME HeapInv, [Next]_vars PROVE HeapInv'
    OBVIOUS
  <2>1. PICK g : Handed(heap, given, g)
    BY DEF HeapInv
  <2>2. CASE Next
    BY <2>1, <2>2, NextServes DEF Serves, HeapInv
  <2>3. CASE UNCHANGED vars
    BY <2>1, <2>3 DEF vars, HeapInv
  <2> QED
    BY <2>2, <2>3
<1> QED
  BY <1>1, <1>2, PTL DEF Spec

\* From header to header one goes through every area (GET_NEXT_BHDR), the flags
\* and prev of each header are right, and no two free blocks are neighbours.
THEOREM TlsfTiled ==
  ASSUME ~ KnownFaults
  PROVE  Spec => []Tiled
<1>1. HeapInv => Tiled
  BY HandedTiled DEF HeapInv
<1> QED
  BY <1>1, TlsfHeapInv, PTL

\* The callers have exactly the busy blocks, each at least as large as they asked
\* tlsf_malloc and its kin for, inside one area (tlsf_in_bounds).
THEOREM TlsfCallersOwnBlocks ==
  ASSUME ~ KnownFaults
  PROVE  Spec => []CallersOwnBlocks
<1>1. HeapInv => CallersOwnBlocks
  BY HandedOwned DEF HeapInv
<1> QED
  BY <1>1, TlsfHeapInv, PTL

\* The lists of tlsf_t hold each free block once, in the list of its size, doubly
\* linked; the largest free block is the largest of the highest list.
THEOREM TlsfFreeListsExact ==
  ASSUME ~ KnownFaults
  PROVE  Spec => []FreeListsExact
<1>1. HeapInv => FreeListsExact
  BY HandedListed DEF HeapInv
<1> QED
  BY <1>1, TlsfHeapInv, PTL

\* tlsf_malloc asks for more memory, or returns NULL, only when no free block is
\* as large as the request after MAPPING_SEARCH has rounded it up.
THEOREM TlsfFindsMemory ==
  ASSUME ~ KnownFaults
  PROVE  Spec => FindsMemory
<1> DEFINE Finding == \A n \in Sizes :
             AllocMem(n) /\ (given' = given \/ heap'.brk # heap.brk) =>
               \A b \in FreeBlocks(heap) : Size(heap, b) < MappingSearch(n)
<1>1. HeapInv => Finding
  BY HandedFinds DEF HeapInv
<1>2. HeapInv /\ [Next]_vars => [Finding]_vars
  BY <1>1
<1> QED
  BY <1>2, TlsfHeapInv, PTL DEF Spec, FindsMemory

\* No call writes into memory of a block that a caller has before and after it;
\* tlsf_realloc in place keeps what both sizes hold.
THEOREM TlsfMemoryStays ==
  ASSUME ~ KnownFaults
  PROVE  Spec => MemoryStays
<1> DEFINE Staying == \A b \in DOMAIN given \cap DOMAIN given' :
             \A a \in 1 .. MemTop :
               a > b /\ a <= b + given[b] /\ a <= b + given'[b] =>
                 heap'.mem[a] = heap.mem[a]
<1>1. HeapInv /\ [Next]_vars => [Staying]_vars
  <2> SUFFICES ASSUME HeapInv, Next PROVE Staying
    OBVIOUS
  <2>1. PICK g : Handed(heap, given, g)
    BY DEF HeapInv
  <2>2. Stays(heap, given, heap', given')
    BY <2>1, NextServes DEF Serves
  <2> QED
    BY <2>2 DEF Stays
<1> QED
  BY <1>1, TlsfHeapInv, PTL DEF Spec, MemoryStays
=============================================================================
