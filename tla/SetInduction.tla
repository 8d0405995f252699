---------------------------- MODULE SetInduction ----------------------------
(***************************************************************************)
(* Induction over the natural numbers for sets instead of predicates, and  *)
(* what it says of functions defined by recursion.  A property P of n is   *)
(* proved with the set {n \in Nat : P(n)}.                                 *)
(***************************************************************************)
EXTENDS Loops, WellFoundedInduction, TLAPS

\* A set of natural numbers that is not empty has a least element.
LEMMA LeastElement ==
  ASSUME NEW T \in SUBSET Nat, T # {}
  PROVE  \E x \in T : \A y \in T : x <= y
<1> DEFINE R == OpToRel(<, Nat)
<1>1. IsWellFoundedOn(R, Nat)
  BY NatLessThanWellFounded
<1>2. \A x, y \in Nat : x < y => <<x, y>> \in R
  BY DEF OpToRel
<1> HIDE DEF R
<1>3. PICK x \in T : \A y \in T : ~ (<<y, x>> \in R)
  BY <1>1, WFMin
<1>4. ASSUME NEW y \in T
      PROVE  x <= y
  <2>1. x \in Nat /\ y \in Nat /\ ~ (<<y, x>> \in R)
    BY <1>3
  <2>2. ~ (y < x)
    BY <1>2, <2>1
  <2> QED
    BY <2>1, <2>2
<1> QED
  BY <1>4

\* A bounded one has a greatest.
LEMMA GreatestElement ==
  ASSUME NEW T \in SUBSET Nat, T # {}, NEW K \in Nat, \A y \in T : y <= K
  PROVE  \E x \in T : \A y \in T : y <= x
<1> DEFINE U == {K - y : y \in T}
<1>1. U \in SUBSET Nat /\ U # {}
  <2>1. \A y \in T : K - y \in Nat
    OBVIOUS
  <2> QED
    BY <2>1
<1>2. PICK u \in U : \A v \in U : u <= v
  BY <1>1, LeastElement
<1>3. PICK x \in T : u = K - x
  OBVIOUS
<1>4. \A y \in T : K - x <= K - y
  BY <1>2, <1>3
<1> QED
  BY <1>4

LEMMA NatSetInduction ==
  ASSUME NEW S, 0 \in S, \A n \in Nat : n \in S => n + 1 \in S
  PROVE  Nat \subseteq S
<1> SUFFICES ASSUME Nat \ S # {} PROVE FALSE
  OBVIOUS
<1>1. PICK x \in Nat \ S : \A y \in Nat \ S : x <= y
  BY LeastElement
<1>2. x # 0 /\ x - 1 \in Nat
  BY <1>1
<1>3. x - 1 \in S
  BY <1>1, <1>2
<1> QED
  BY <1>1, <1>2, <1>3

\* A number is in S if all those below it being so makes it so.
LEMMA StrongSetInduction ==
  ASSUME NEW S, \A n \in Nat : (\A m \in 0 .. n - 1 : m \in S) => n \in S
  PROVE  Nat \subseteq S
<1> SUFFICES ASSUME Nat \ S # {} PROVE FALSE
  OBVIOUS
<1>1. PICK x \in Nat \ S : \A y \in Nat \ S : x <= y
  BY LeastElement
<1>2. \A m \in 0 .. x - 1 : m \in S
  BY <1>1
<1> QED
  BY <1>1, <1>2

LEMMA IntervalInduction ==
  ASSUME NEW K \in Nat, NEW S, 0 \in S, \A n \in 0 .. K - 1 : n \in S => n + 1 \in S
  PROVE  0 .. K \subseteq S
<1> DEFINE U == {n \in Nat : n <= K => n \in S}
<1>1. 0 \in U /\ \A n \in Nat : n \in U => n + 1 \in U
  OBVIOUS
<1>2. Nat \subseteq U
  <2> HIDE DEF U
  <2> QED
    BY <1>1, NatSetInduction
<1> QED
  BY <1>2

\* The same for the numbers from 1 to K, the places of a sequence.
LEMMA PlaceInduction ==
  ASSUME NEW K \in Nat \ {0}, NEW S, 1 \in S, \A i \in 1 .. K - 1 : i \in S => i + 1 \in S
  PROVE  1 .. K \subseteq S
<1> DEFINE U == {n \in 0 .. K - 1 : n + 1 \in S}
<1>1. 0 \in U /\ K - 1 \in Nat
  OBVIOUS
<1>2. ASSUME NEW n \in 0 .. K - 1 - 1, n \in U PROVE n + 1 \in U
  <2>1. n + 1 \in 1 .. K - 1 /\ n + 1 \in 0 .. K - 1
    OBVIOUS
  <2> QED
    BY <1>2, <2>1
<1>3. 0 .. K - 1 \subseteq U
  <2> HIDE DEF U
  <2> QED
    BY <1>1, <1>2, IntervalInduction
<1>4. \A i \in 1 .. K : i - 1 \in 0 .. K - 1 /\ i - 1 + 1 = i
  OBVIOUS
<1>5. \A n \in 0 .. K - 1 : n + 1 \in S
  BY <1>3
<1> QED
  BY <1>4, <1>5

-----------------------------------------------------------------------------
(* A function on 0 .. K given by its first value and a step has the values *)
(* that it is to have.                                                     *)

\* f is x, g[x], g[g[x]] and so on.
Iterates(f, X, x, g, K) ==
  /\ f \in [0 .. K -> X]
  /\ f[0] = x
  /\ \A i \in 1 .. K : f[i] = g[f[i - 1]]

LEMMA IteratesExist ==
  ASSUME NEW X, NEW x \in X, NEW g \in [X -> X], NEW K \in Nat
  PROVE  \E f : Iterates(f, X, x, g, K)
<1> DEFINE Good(n, f) == Iterates(f, X, x, g, n)
           U == {n \in Nat : \E f : Good(n, f)}
<1> USE DEF Iterates
<1>1. 0 \in U
  <2>1. Good(0, [i \in 0 .. 0 |-> x])
    OBVIOUS
  <2> QED
    BY <2>1
<1>2. ASSUME NEW n \in Nat, n \in U
      PROVE  n + 1 \in U
  <2>1. PICK f : Good(n, f)
    BY <1>2
  <2> DEFINE h == [i \in 0 .. n + 1 |-> IF i <= n THEN f[i] ELSE g[f[n]]]
  <2>2. \A i \in 0 .. n : h[i] = f[i] /\ f[i] \in X
    BY <2>1
  <2>3. h[n + 1] = g[f[n]] /\ g[f[n]] \in X
    BY <2>2
  <2>4. h \in [0 .. n + 1 -> X]
    BY <2>2, <2>3
  <2>5. \A i \in 1 .. n + 1 : h[i] = g[h[i - 1]]
    <3> SUFFICES ASSUME NEW i \in 1 .. n + 1 PROVE h[i] = g[h[i - 1]]
      OBVIOUS
    <3>1. h[i - 1] = f[i - 1]
      BY <2>2
    <3> QED
      BY <2>1, <2>2, <2>3, <3>1
  <2>6. h[0] = x
    BY <2>1, <2>2
  <2> HIDE DEF h
  <2>7. Good(n + 1, h)
    BY <2>4, <2>5, <2>6
  <2> QED
    BY <2>7
<1>3. Nat \subseteq U
  <2> HIDE DEF U
  <2> QED
    BY <1>1, <1>2, NatSetInduction
<1> QED
  BY <1>3

\* f is x, then what g makes of each number and the value before.
Steps(f, X, x, g, K) ==
  /\ f \in [0 .. K -> X] /\ f[0] = x
  /\ \A i \in 1 .. K : f[i] = g[<<i, f[i - 1]>>]

\* There is a function on 0 .. K with a given first value and given steps.
LEMMA StepsExist ==
  ASSUME NEW K \in Nat, NEW X, NEW x \in X, NEW g \in [(1 .. K) \X X -> X]
  PROVE  \E f : Steps(f, X, x, g, K)
<1> USE DEF Steps
<1> DEFINE Good(n, f) == Steps(f, X, x, g, n)
           U == {n \in 0 .. K : \E f : Good(n, f)}
<1>1. 0 \in U
  <2>1. Good(0, [i \in 0 .. 0 |-> x])
    OBVIOUS
  <2>2. \E f : Good(0, f)
    <3> HIDE DEF Good
    <3> QED
      BY <2>1
  <2>3. 0 \in 0 .. K
    OBVIOUS
  <2> HIDE DEF Good
  <2> QED
    BY <2>2, <2>3
<1>2. ASSUME NEW n \in 0 .. K - 1, n \in U
      PROVE  n + 1 \in U
  <2>1. PICK f : Good(n, f)
    BY <1>2
  <2>2. n + 1 \in 1 .. K /\ f[n] \in X
    BY <2>1
  <2> DEFINE y == g[<<n + 1, f[n]>>]
             h == [i \in 0 .. n + 1 |-> IF i <= n THEN f[i] ELSE y]
  <2>3. y \in X
    BY <2>2
  <2> HIDE DEF y
  <2>4. (\A i \in 0 .. n : h[i] = f[i] /\ f[i] \in X) /\ h[n + 1] = y
    BY <2>1
  <2>5. h \in [0 .. n + 1 -> X]
    BY <2>1, <2>3
  <2> HIDE DEF h
  <2>6. \A i \in 1 .. n + 1 : h[i] = g[<<i, h[i - 1]>>]
    <3> SUFFICES ASSUME NEW i \in 1 .. n + 1 PROVE h[i] = g[<<i, h[i - 1]>>]
      OBVIOUS
    <3>1. i - 1 \in 0 .. n /\ h[i - 1] = f[i - 1]
      BY <2>4
    <3>2. CASE i = n + 1
      BY <2>4, <3>1, <3>2 DEF y
    <3>3. CASE i # n + 1
      <4>1. i \in 1 .. n /\ i \in 0 .. n
        BY <3>3
      <4> QED
        BY <2>1, <2>4, <3>1, <4>1
    <3> QED
      BY <3>2, <3>3
  <2>7. Good(n + 1, h)
    BY <2>1, <2>4, <2>5, <2>6
  <2> QED
    BY <2>2, <2>7
<1>3. 0 .. K \subseteq U
  <2> HIDE DEF U
  <2> QED
    BY <1>1, <1>2, IntervalInduction
<1>4. K \in U
  BY <1>3
<1>5. PICK f : Good(K, f)
  BY <1>4
<1> QED
  BY <1>5

-----------------------------------------------------------------------------
(* Loops *)

\* The states of D from which turns lead to z.
LeadsTo(D, next, z) ==
  {y \in D : \A S \in SUBSET D :
               z \in S /\ (\A w \in D : next[w] \in S => w \in S) => y \in S}

\* A loop has an end for every start: where turns that lead nowhere would go
\* round for ever, any value will do.
LEMMA LoopExists ==
  ASSUME NEW D, NEW next \in [D -> D]
  PROVE  \E end : end = [y \in D |-> IF next[y] = y THEN y ELSE end[next[y]]]
<1> DEFINE R(z) == LeadsTo(D, next, z)
           Ends(y) == {z \in D : next[z] = z /\ y \in R(z)}
           f == [y \in D |-> CHOOSE z : z \in Ends(y)]
<1>1. ASSUME NEW z \in D PROVE z \in R(z)
  BY DEF LeadsTo
<1>2. ASSUME NEW z \in D, NEW y \in D, next[y] \in R(z) PROVE y \in R(z)
  BY <1>2 DEF LeadsTo
<1>3. ASSUME NEW z \in D, next[z] = z, NEW x \in D, next[x] = x, x \in R(z)
      PROVE  x = z
  <2> SUFFICES ASSUME x # z PROVE FALSE
    OBVIOUS
  <2> DEFINE S == D \ {x}
  <2>1. z \in S /\ \A w \in D : next[w] \in S => w \in S
    BY <1>3
  <2>2. x \in S
    BY <1>3, <2>1 DEF LeadsTo
  <2> QED
    BY <2>2
<1>4. ASSUME NEW z \in D, next[z] = z, NEW y \in R(z), next[y] # y
      PROVE  next[y] \in R(z)
  <2> SUFFICES ASSUME next[y] \notin R(z) PROVE FALSE
    OBVIOUS
  <2> DEFINE S == R(z) \ {y}
  <2>1. S \in SUBSET D /\ z \in S /\ y \in D
    BY <1>1, <1>4 DEF LeadsTo
  <2>2. ASSUME NEW w \in D, next[w] \in S PROVE w \in S
    <3>1. w \in R(z)
      BY <1>2, <2>2
    <3>2. w # y
      BY <2>2
    <3> QED
      BY <3>1, <3>2
  <2> HIDE DEF S
  <2>3. y \in S
    BY <2>1, <2>2, <1>4 DEF LeadsTo
  <2> QED
    BY <2>3 DEF S
<1>5. ASSUME NEW y \in D, next[y] = y PROVE f[y] = y
  <2>1. Ends(y) = {y}
    BY <1>1, <1>3, <1>5
  <2> QED
    BY <2>1
<1>6. ASSUME NEW y \in D, next[y] # y PROVE f[y] = f[next[y]]
  <2>1. next[y] \in D
    OBVIOUS
  <2>2. Ends(y) = Ends(next[y])
    BY <1>2, <1>4, <1>6 
  <2> QED
    BY <2>1, <2>2
<1>7. f = [y \in D |-> IF next[y] = y THEN y ELSE f[next[y]]]
  <2>1. \A y \in D : f[y] = IF next[y] = y THEN y ELSE f[next[y]]
    BY <1>5, <1>6
  <2> HIDE DEF f
  <2>2. f = [y \in D |-> f[y]]
    BY DEF f
  <2> QED
    BY <2>1, <2>2
<1> HIDE DEF f
<1> QED
  BY <1>7

\* A loop is its first turn and the rest of it.
LEMMA LoopTurns ==
  ASSUME NEW D, NEW next \in [D -> D], NEW x \in D
  PROVE  Loop(next, x) = IF next[x] = x THEN x ELSE Loop(next, next[x])
<1> DEFINE Is(end) == end = [y \in D |-> IF next[y] = y THEN y ELSE end[next[y]]]
           e == CHOOSE end : Is(end)
<1>1. \E end : Is(end)
  BY LoopExists
<1>2. Is(e)
  <2> HIDE DEF Is
  <2> QED
    BY <1>1
<1>3. \A y \in D : Loop(next, y) = e[y]
  <2>1. DOMAIN next = D
    OBVIOUS
  <2> QED
    BY <2>1, Zenon DEF Loop
<1>4. next[x] \in D
  OBVIOUS
<1> HIDE DEF e
<1>5. e[x] = IF next[x] = x THEN x ELSE e[next[x]]
  BY <1>2
<1> QED
  BY <1>3, <1>4, <1>5

\* Two states of which a turn makes the same lead to the same end.
LEMMA LoopMeets ==
  ASSUME NEW D, NEW next \in [D -> D], NEW x \in D, NEW y \in D,
         next[x] = next[y], next[x] # x
  PROVE  Loop(next, x) = Loop(next, y)
<1>1. Loop(next, x) = Loop(next, next[x])
  BY LoopTurns
<1>2. Loop(next, y) = IF next[y] = y THEN y ELSE Loop(next, next[y])
  BY LoopTurns
<1> QED
  BY <1>1, <1>2

\* X gives the states of D that are k turns at most away from the end; what
\* holds of the states that a loop goes through holds where it ends.
LEMMA LoopEnds ==
  ASSUME NEW D, NEW next \in [D -> D], NEW X \in [Nat -> SUBSET D],
         \A k \in Nat : \A y \in X[k] :
           next[y] = y \/ \E j \in 0 .. k - 1 : next[y] \in X[j],
         NEW n \in Nat, NEW x \in X[n]
  PROVE  /\ \E k \in Nat : Loop(next, x) \in X[k]
         /\ next[Loop(next, x)] = Loop(next, x)
<1> DEFINE Good(y) == (\E k \in Nat : Loop(next, y) \in X[k])
                      /\ next[Loop(next, y)] = Loop(next, y)
           S == {k \in Nat : \A y \in X[k] : Good(y)}
<1>1. ASSUME NEW k \in Nat, \A j \in 0 .. k - 1 : j \in S
      PROVE  k \in S
  <2> SUFFICES ASSUME NEW y \in X[k] PROVE Good(y)
    OBVIOUS
  <2>1. y \in D
    OBVIOUS
  <2>2. CASE next[y] = y
    BY <2>1, <2>2, LoopTurns
  <2>3. CASE next[y] # y
    <3>1. PICK j \in 0 .. k - 1 : next[y] \in X[j]
      BY <2>3
    <3>2. Good(next[y])
      BY <1>1, <3>1
    <3>3. Loop(next, y) = Loop(next, next[y])
      BY <2>1, <2>3, LoopTurns
    <3> QED
      BY <3>2, <3>3
  <2> QED
    BY <2>2, <2>3
<1>2. Nat \subseteq S
  <2> HIDE DEF S
  <2> QED
    BY <1>1, StrongSetInduction
<1> QED
  BY <1>2
============================================================================
