----------------------------- MODULE AvlProofs -----------------------------
(***************************************************************************)
(* What AvlTree guarantees for any number of keys and any series of calls: *)
(* the tree stays balanced, its searches answer by the order of the keys,  *)
(* and to its callers it is a set.                                         *)
(*                                                                         *)
(* The proofs speak of a tree by two ghost functions: s, the nodes below   *)
(* each node, and h, the height of each.  A climb is followed by saying    *)
(* that the tree is as it should be but for one node, at which a change of *)
(* height by delta on one side is pending (Pending); each turn, whether it *)
(* rotates or not, passes the change on to the parent or ends it.          *)
(***************************************************************************)
EXTENDS AvlTree, SetInduction, FiniteSetTheorems, TLAPS

-----------------------------------------------------------------------------
(* Search trees *)

\* The sides of a node, and where a key is that is on one.
Sides == {LEFT, RIGHT}
OnSide(d, m, n) == IF d = LEFT THEN m < n ELSE n < m

\* Below a node are those below its two links, each on its side of the node.
Placed(t, s, n) ==
  /\ s[n] = {n} \cup s[t.link[LEFT][n]] \cup s[t.link[RIGHT][n]]
  /\ \A d \in Sides :
       LET c == t.link[d][n]
       IN  /\ c # Nil => c \in s[c] /\ t.parent[c] = n
           /\ \A m \in s[c] : OnSide(d, m, n)

\* t is a search tree and s[n] the set of nodes below n, n included.
SearchTree(t, s) ==
  /\ t \in Trees /\ s \in [Pointers -> SUBSET Keys] /\ s[Nil] = {}
  /\ t.root # Nil => t.root \in s[t.root] /\ t.parent[t.root] = Nil
  /\ \A n \in s[t.root] : Placed(t, s, n)

\* Types of the fields.
LEMMA TreeFields ==
  ASSUME NEW t \in Trees
  PROVE  /\ t.root \in Pointers
         /\ \A d \in Sides, n \in Pointers : t.link[d][n] \in Pointers
         /\ \A n \in Pointers : t.parent[n] \in Pointers /\ t.bal[n] \in -1 .. 1
BY DEF Trees, Sides

\* The keys and NULL.
LEMMA KeysFinite == IsFiniteSet(Keys) /\ Keys \subseteq Nat /\ Nil \notin Keys /\ Cardinality(Keys) \in Nat
BY KeysAssumption, FS_CardinalityType DEF Nil

\* How many nodes a set of them has.
LEMMA SizeIsNat ==
  ASSUME NEW A \in SUBSET Keys
  PROVE  IsFiniteSet(A) /\ Cardinality(A) \in Nat /\ Cardinality(A) <= Cardinality(Keys)
BY KeysFinite, FS_Subset, FS_CardinalityType

\* A set of nodes that lacks one of another's has fewer.
LEMMA Smaller ==
  ASSUME NEW A \in SUBSET Keys, NEW B \in SUBSET A, NEW x \in A, x \notin B
  PROVE  Cardinality(A) \in Nat /\ Cardinality(B) \in Nat /\ Cardinality(B) < Cardinality(A)
         /\ Cardinality(A) <= Cardinality(Keys)
<1>1. IsFiniteSet(A) /\ Cardinality(A) <= Cardinality(Keys)
  BY KeysFinite, FS_Subset
<1>2. IsFiniteSet(B) /\ Cardinality(B) <= Cardinality(A) /\ (Cardinality(A) = Cardinality(B) => A = B)
  BY <1>1, FS_Subset
<1>3. Cardinality(A) \in Nat /\ Cardinality(B) \in Nat
  BY <1>1, <1>2, FS_CardinalityType
<1> QED
  BY <1>1, <1>2, <1>3

\* c is what n has on side d.
Hangs(t, s, n, d, c) ==
  /\ c \in Pointers /\ s[c] \subseteq s[n] /\ n \notin s[c]
  /\ c # Nil => c \in s[c] /\ t.parent[c] = n
  /\ \A m \in s[c] : OnSide(d, m, n)

\* What a node's place says, with all links typed.
LEMMA Links ==
  ASSUME NEW t, NEW s, SearchTree(t, s), NEW n \in s[t.root]
  PROVE  /\ n \in Keys /\ n \in Nat /\ n \in s[n] /\ s[n] \subseteq Keys
         /\ \A d \in Sides : Hangs(t, s, n, d, t.link[d][n])
         /\ \A m \in s[n] : m = n \/ \E d \in Sides : m \in s[t.link[d][n]]
<1>1. t \in Trees /\ s \in [Pointers -> SUBSET Keys] /\ t.root \in Pointers
  BY TreeFields DEF SearchTree
<1>2. n \in Keys /\ n \in Pointers /\ n \in Nat
  BY <1>1, KeysFinite DEF Pointers
<1>3. Placed(t, s, n)
  BY DEF SearchTree
<1>4. n \in s[n] /\ s[n] \subseteq Keys
  BY <1>1, <1>2, <1>3 DEF Placed
<1>5. ASSUME NEW d \in Sides
      PROVE  Hangs(t, s, n, d, t.link[d][n])
  <2> DEFINE c == t.link[d][n]
  <2>1. c \in Pointers
    BY <1>1, <1>2, TreeFields
  <2>2. s[c] \subseteq s[n]
    BY <1>3 DEF Placed, Sides
  <2>3. (c # Nil => c \in s[c] /\ t.parent[c] = n) /\ \A m \in s[c] : OnSide(d, m, n)
    BY <1>3 DEF Placed
  <2>4. n \notin s[c]
    BY <2>3, <1>2 DEF OnSide
  <2> QED
    BY <2>1, <2>2, <2>3, <2>4 DEF Hangs
<1>6. \A m \in s[n] : m = n \/ \E d \in Sides : m \in s[t.link[d][n]]
  BY <1>3 DEF Placed, Sides
<1> QED
  BY <1>2, <1>4, <1>5, <1>6

\* Below a node below a is below a, and so is the parent of every node below
\* a but a itself, which is not below any of them.
Closed(t, s, a) ==
  \A b \in s[a] :
    /\ s[b] \subseteq s[a]
    /\ b # a => /\ a \notin s[b] /\ t.parent[b] \in s[a]
                /\ \E d \in Sides : t.link[d][t.parent[b]] = b

\* What is below a node stays below it, by induction on the size of subtrees.
LEMMA SubtreesClosed ==
  ASSUME NEW t, NEW s, SearchTree(t, s)
  PROVE  \A a \in s[t.root] : s[a] \subseteq s[t.root] /\ Closed(t, s, a)
<1> DEFINE N == s[t.root]
           S == {k \in Nat : \A a \in N :
                   s[a] \subseteq N /\ Cardinality(s[a]) = k => Closed(t, s, a)}
<1>0. t.root \in Pointers /\ s[t.root] \in SUBSET Keys /\ s[Nil] = {}
  BY TreeFields DEF SearchTree
<1>1. ASSUME NEW k \in Nat, \A j \in 0 .. k - 1 : j \in S
      PROVE  k \in S
  <2> SUFFICES ASSUME NEW a \in N, s[a] \subseteq N, Cardinality(s[a]) = k
               PROVE  Closed(t, s, a)
    OBVIOUS
  <2>1. \A d \in Sides : Closed(t, s, t.link[d][a])
    <3> SUFFICES ASSUME NEW d \in Sides PROVE Closed(t, s, t.link[d][a])
      OBVIOUS
    <3> DEFINE c == t.link[d][a]
    <3>1. CASE c = Nil
      BY <1>0, <3>1 DEF Closed
    <3>2. CASE c # Nil
      <4>1. c \in s[c] /\ s[c] \subseteq s[a] /\ a \notin s[c] /\ a \in s[a] /\ s[a] \subseteq Keys
        BY <3>2, Links DEF Hangs
      <4>2. Cardinality(s[c]) \in 0 .. k - 1
        BY <4>1, Smaller
      <4> QED
        BY <1>1, <4>1, <4>2
    <3> QED
      BY <3>1, <3>2
  <2> SUFFICES ASSUME NEW b \in s[a], b # a
               PROVE  /\ s[b] \subseteq s[a] /\ a \notin s[b] /\ t.parent[b] \in s[a]
                      /\ \E d \in Sides : t.link[d][t.parent[b]] = b
    BY DEF Closed
  <2>2. PICK d \in Sides : b \in s[t.link[d][a]]
    BY Links
  <2> DEFINE c == t.link[d][a]
  <2>3. s[c] \subseteq s[a] /\ a \notin s[c] /\ (c # Nil => t.parent[c] = a) /\ a \in s[a]
    BY Links DEF Hangs
  <2>4. CASE b = c
    <3>1. c # Nil
      BY <1>0, <2>2, <2>4
    <3> QED
      BY Zenon, <2>1, <2>2, <2>3, <2>4, <3>1 DEF Closed
  <2>5. CASE b # c
    BY <2>1, <2>2, <2>3, <2>5 DEF Closed
  <2> QED
    BY <2>4, <2>5
<1>2. Nat \subseteq S
  <2> HIDE DEF S
  <2> QED
    BY <1>1, StrongSetInduction
<1>3. \A a \in N : s[a] \subseteq N => Closed(t, s, a)
  <2> SUFFICES ASSUME NEW a \in N, s[a] \subseteq N PROVE Closed(t, s, a)
    OBVIOUS
  <2>1. Cardinality(s[a]) \in Nat
    BY Links, SizeIsNat
  <2> QED
    BY <1>2, <2>1
<1>4. t.root # Nil => t.root \in N
  BY DEF SearchTree
<1>5. N # {} => Closed(t, s, t.root)
  BY <1>0, <1>3, <1>4
<1> QED
  BY <1>3, <1>5 DEF Closed

\* The two sides of a node are opposite, and each of them is an order.
LEMMA Opposite ==
  ASSUME NEW d \in Sides
  PROVE  /\ 1 - d \in Sides /\ 1 - d # d /\ 1 - (1 - d) = d
         /\ \A x \in Sides : x = d \/ x = 1 - d
         /\ \A a, b \in Nat : OnSide(d, a, b) <=> OnSide(1 - d, b, a)
         /\ \A a, b \in Nat : a = b \/ OnSide(d, a, b) \/ OnSide(1 - d, a, b)
         /\ \A a, b \in Nat : OnSide(d, a, b) => a # b /\ ~ OnSide(1 - d, a, b)
         /\ \A a, b, c \in Nat : OnSide(d, a, b) /\ OnSide(d, b, c) => OnSide(d, a, c)
BY DEF Sides, OnSide, LEFT, RIGHT

\* A node is the child of its parent on one side, the one that
\* LinkParent finds; only the root has none.
IsChild(t, s, n, p, x) ==
  /\ x \in Sides
  /\ n = t.root => p = Nil
  /\ n # t.root => p # Nil
  /\ p # Nil => /\ p \in s[t.root] /\ p \notin s[n] /\ t.link[x][p] = n
                /\ \A d \in Sides : t.link[d][p] = n => d = x
                /\ s[n] \subseteq s[p]

\* The parent of a node has it on exactly the side that LinkParent looks for.
LEMMA ParentLink ==
  ASSUME NEW t, NEW s, SearchTree(t, s), NEW scan \in s[t.root]
  PROVE  IsChild(t, s, scan, t.parent[scan], Side(t.link[RIGHT][t.parent[scan]] = scan))
<1> DEFINE p == t.parent[scan]
           N == s[t.root]
           R == s[scan]
           x == Side(t.link[RIGHT][p] = scan)
<1>1. t \in Trees /\ s \in [Pointers -> SUBSET Keys] /\ s[Nil] = {} /\ t.root \in Pointers
  BY TreeFields DEF SearchTree
<1>2. N \subseteq Keys /\ R \subseteq N /\ scan \in R /\ t.root \in N /\ Closed(t, s, t.root)
      /\ t.root # Nil
  BY <1>1, SubtreesClosed, Links DEF SearchTree
<1>3. Nil \notin N /\ x \in Sides
  BY <1>2, KeysFinite DEF Side, Sides
<1>4. scan = t.root => p = Nil
  BY <1>2 DEF SearchTree
<1>5. ASSUME scan # t.root
      PROVE  /\ p \in N /\ p \notin R /\ t.link[x][p] = scan /\ R \subseteq s[p] /\ p # Nil
             /\ \A d \in Sides : t.link[d][p] = scan => d = x
  <2>1. p \in N /\ \E d \in Sides : t.link[d][p] = scan
    BY <1>2, <1>5 DEF Closed
  <2>2. PICK d \in Sides : t.link[d][p] = scan
    BY <2>1
  <2>3. Hangs(t, s, p, d, scan) /\ Hangs(t, s, p, 1 - d, t.link[1 - d][p])
    <3>1. \A y \in Sides : Hangs(t, s, p, y, t.link[y][p])
      BY <2>1, Links
    <3>2. 1 - d \in Sides
      BY Opposite
    <3> QED
      BY <2>2, <3>1, <3>2
  <2>4. scan \in s[p] /\ p # scan /\ R \subseteq s[p]
    BY Zenon, <1>2, <2>3 DEF Hangs
  <2>5. p \notin R
    BY <2>1, <2>4, SubtreesClosed DEF Closed
  <2>6. t.link[1 - d][p] # scan
    <3>1. scan \in Nat /\ p \in Nat
      BY <1>2, <2>1, KeysFinite
    <3>2. \A m \in s[t.link[1 - d][p]] : OnSide(1 - d, m, p)
      BY Zenon, <2>3 DEF Hangs
    <3>3. OnSide(d, scan, p) /\ scan \in s[scan]
      BY Zenon, <1>2, <2>3 DEF Hangs
    <3>4. ~ OnSide(1 - d, scan, p)
      BY <3>1, <3>3, Opposite
    <3> QED
      BY Zenon, <3>2, <3>3, <3>4
  <2>7. x = d
    BY <2>2, <2>6, Opposite DEF Side, Sides, LEFT, RIGHT
  <2>8. \A y \in Sides : y = d \/ y = 1 - d
    BY Opposite
  <2> HIDE DEF x
  <2> QED
    BY <1>3, <2>1, <2>2, <2>4, <2>5, <2>6, <2>7, <2>8
<1> HIDE DEF x
<1> QED
  BY Zenon, <1>3, <1>4, <1>5 DEF x, IsChild

\* The height of n is that of the higher of its two sides and one, and its
\* balance the difference of the two, if what n has on side dir counts delta
\* less than it is high.
Weighed(t, h, n, dir, delta) ==
  LET side(d) == h[t.link[d][n]] - (IF d = dir THEN delta ELSE 0)
  IN  h[n] = 1 + Higher(side(LEFT), side(RIGHT)) /\ t.bal[n] = side(RIGHT) - side(LEFT)

\* The tree is as it should be but for scan, where balance and height do not
\* yet reckon with what has changed by delta below it on side dir.
Pending(t, s, h, scan, dir, delta) ==
  /\ SearchTree(t, s) /\ h \in [Pointers -> Nat] /\ h[Nil] = 0
  /\ \A n \in s[t.root] : Weighed(t, h, n, dir, IF n = scan THEN delta ELSE 0)

\* The nodes below scan are arranged anew, below top instead.
Regrafted(t, s, h, scan, u, s2, h2, top) ==
  LET p == t.parent[scan]
  IN  /\ u \in Trees /\ s2 \in [Pointers -> SUBSET Keys] /\ h2 \in [Pointers -> Nat]
      /\ u.root = IF p = Nil THEN top ELSE t.root
      /\ top \in s[scan] /\ u.parent[top] = p
      /\ s2[top] = s[scan]
      /\ \A n \in Pointers \ s[scan] : s2[n] = s[n] /\ h2[n] = h[n]
      /\ \A n \in s[scan] : Placed(u, s2, n) /\ Weighed(u, h2, n, LEFT, 0)
      /\ \A n \in Pointers \ s[scan], d \in Sides :
           u.link[d][n] = IF n # Nil /\ n = p /\ t.link[d][n] = scan
                          THEN top ELSE t.link[d][n]
      /\ \A n \in Keys \ s[scan] : u.parent[n] = t.parent[n] /\ u.bal[n] = t.bal[n]

\* A subtree arranged anew leaves the parent of its root with the change of
\* height to reckon with, and all nodes in the tree.
LEMMA Regraft ==
  ASSUME NEW t, NEW s, SearchTree(t, s), NEW scan \in s[t.root],
         NEW h \in [Pointers -> Nat], h[Nil] = 0,
         \A n \in s[t.root] \ s[scan] : Weighed(t, h, n, LEFT, 0),
         NEW u, NEW s2, NEW h2, NEW top, Regrafted(t, s, h, scan, u, s2, h2, top)
  PROVE  /\ Pending(u, s2, h2, t.parent[scan], Side(t.link[RIGHT][t.parent[scan]] = scan),
                    h2[top] - h[scan])
         /\ s2[u.root] = s[t.root]
<1> DEFINE p == t.parent[scan]
           N == s[t.root]
           R == s[scan]
<1>1. t \in Trees /\ s \in [Pointers -> SUBSET Keys] /\ s[Nil] = {} /\ t.root \in Pointers
  BY TreeFields DEF SearchTree
<1>2. N \subseteq Keys /\ R \subseteq N /\ scan \in R /\ t.root \in N /\ Closed(t, s, t.root)
      /\ t.root # Nil
  BY <1>1, SubtreesClosed, Links DEF SearchTree
<1>4. Nil \notin N /\ Nil \in Pointers /\ Nil \notin R
  BY <1>2, KeysFinite DEF Pointers
<1>5. u \in Trees /\ s2 \in [Pointers -> SUBSET Keys] /\ s2[Nil] = {}
      /\ h2 \in [Pointers -> Nat] /\ h2[Nil] = 0
  BY <1>1, <1>4 DEF Regrafted
<1>6. top \in R /\ u.parent[top] = p /\ s2[top] = R
      /\ \A n \in R : Placed(u, s2, n) /\ Weighed(u, h2, n, LEFT, 0)
  BY DEF Regrafted
<1>7. CASE p = Nil
  <2>1. scan = t.root
    BY <1>1, <1>2, <1>4, <1>7 DEF Closed
  <2>2. R = N /\ u.root = top /\ s2[u.root] = N
    BY <2>1, <1>7 DEF Regrafted
  <2>3. SearchTree(u, s2)
    BY <1>5, <1>6, <1>7, <2>2 DEF SearchTree
  <2>4. \A n \in N : n # p /\ Weighed(u, h2, n, LEFT, 0)
    BY <1>4, <1>6, <1>7, <2>2
  <2>5. \A n \in N, x \in Sides : Weighed(u, h2, n, x, 0)
    BY <2>4 DEF Weighed
  <2> QED
    BY <1>5, <2>2, <2>3, <2>4, <2>5 DEF Pending, Side, Sides
<1>8. CASE p # Nil
  <2>1. scan # t.root /\ p \in N /\ p \notin R
    BY <1>8, ParentLink DEF IsChild
  <2>2. u.root = t.root /\ t.root \notin R /\ s2[u.root] = N /\ u.root # Nil
    <3>1. t.root \notin R
      BY <1>2, <2>1, SubtreesClosed DEF Closed
    <3> QED
      BY <1>1, <1>2, <1>8, <3>1 DEF Regrafted
  <2> DEFINE x == Side(t.link[RIGHT][p] = scan)
  <2>3. x \in Sides /\ t.link[x][p] = scan /\ \A d \in Sides : t.link[d][p] = scan => d = x
    BY <1>8, ParentLink DEF IsChild
  <2>4. ASSUME NEW n \in N \ R
        PROVE  /\ Placed(u, s2, n)
               /\ Weighed(u, h2, n, x, IF n = p THEN h2[top] - h[scan] ELSE 0)
    <3>1. n \in Pointers /\ n # Nil /\ n \in Keys
      BY <1>2, <1>4 DEF Pointers
    <3>2. s2[n] = s[n] /\ h2[n] = h[n] /\ u.parent[n] = t.parent[n] /\ u.bal[n] = t.bal[n]
      BY <3>1 DEF Regrafted
    <3>3. Placed(t, s, n) /\ Weighed(t, h, n, LEFT, 0) /\ \A d \in Sides : Hangs(t, s, n, d, t.link[d][n])
      BY Links DEF SearchTree
    <3>4. ASSUME NEW d \in Sides
          PROVE  LET c == t.link[d][n]
                     c2 == u.link[d][n]
                 IN  /\ s2[c2] = s[c] /\ (c2 # Nil => c2 \in s2[c2] /\ u.parent[c2] = n)
                     /\ IF n = p /\ d = x THEN c = scan /\ c2 = top ELSE h2[c2] = h[c]
      <4> DEFINE c == t.link[d][n]
      <4>1. CASE c = scan
        <5>1. p = n /\ c # Nil
          BY <1>2, <1>4, <3>3, <4>1 DEF Hangs
        <5>2. u.link[d][n] = top
          BY <3>1, <4>1, <5>1 DEF Regrafted
        <5>3. d = x
          BY <2>3, <4>1, <5>1
        <5> QED
          BY <1>6, <4>1, <5>1, <5>2, <5>3
      <4>2. CASE c # scan
        <5>1. c \in Pointers /\ c \notin R
          <6>1. c \in R => t.parent[c] = n /\ n \in R
            BY <1>2, <1>4, <3>3, <4>2, SubtreesClosed DEF Closed, Hangs
          <6> QED
            BY <3>3, <6>1 DEF Hangs
        <5>2. u.link[d][n] = c /\ s2[c] = s[c] /\ h2[c] = h[c]
                /\ (c # Nil => u.parent[c] = t.parent[c])
          BY <3>1, <4>2, <5>1 DEF Regrafted, Pointers
        <5>3. ~ (n = p /\ d = x)
          BY Zenon, <2>3, <4>2
        <5> QED
          BY Zenon, <3>3, <5>2, <5>3 DEF Hangs
      <4> QED
        BY <4>1, <4>2
    <3>5. Placed(u, s2, n)
      BY Zenon, <3>2, <3>3, <3>4 DEF Placed, Sides
    <3>6. Weighed(u, h2, n, x, IF n = p THEN h2[top] - h[scan] ELSE 0)
      <4>0. h2[top] \in Nat /\ h[scan] \in Nat /\ LEFT \in Sides /\ RIGHT \in Sides /\ LEFT # RIGHT
        BY <1>2, <1>5, <1>6 DEF Pointers, Sides, LEFT, RIGHT
      <4>1. CASE n = p
        <5>1. x = LEFT \/ x = RIGHT
          BY <2>3 DEF Sides
        <5>2. u.link[x][n] = top /\ t.link[x][n] = scan
          BY Zenon, <2>3, <3>4, <4>1
        <5>3. \A d \in Sides : d # x => h2[u.link[d][n]] = h[t.link[d][n]]
          BY <3>4
        <5>6. \A d \in Sides : h[t.link[d][n]] \in Nat
          BY <1>1, <3>1, TreeFields
        <5>7. h2[top] - (h2[top] - h[scan]) = h[scan] - 0 /\ \A d \in Sides : d # x => h2[u.link[d][n]] - 0 = h[t.link[d][n]] - 0
          BY <4>0, <5>3, <5>6
        <5> HIDE DEF x
        <5>4. CASE x = LEFT
          <6>1. /\ h2[u.link[LEFT][n]] - (h2[top] - h[scan]) = h[t.link[LEFT][n]] - 0
                /\ h2[u.link[RIGHT][n]] - 0 = h[t.link[RIGHT][n]] - 0
            BY <4>0, <5>2, <5>4, <5>7
          <6> QED
            BY Zenon, <3>2, <3>3, <4>0, <4>1, <5>4, <6>1 DEF Weighed
        <5>5. CASE x = RIGHT
          <6>1. /\ h2[u.link[RIGHT][n]] - (h2[top] - h[scan]) = h[t.link[RIGHT][n]] - 0
                /\ h2[u.link[LEFT][n]] - 0 = h[t.link[LEFT][n]] - 0
            BY <4>0, <5>2, <5>5, <5>7
          <6> QED
            BY Zenon, <3>2, <3>3, <4>0, <4>1, <5>5, <6>1 DEF Weighed
        <5> QED
          BY <5>1, <5>4, <5>5
      <4>2. CASE n # p
        <5>1. \A d \in Sides : h2[u.link[d][n]] = h[t.link[d][n]]
          BY <3>4, <4>2
        <5> HIDE DEF x
        <5> QED
          BY Zenon, <3>2, <3>3, <4>0, <4>2, <5>1 DEF Weighed
      <4> QED
        BY <4>1, <4>2
    <3> QED
      BY <3>5, <3>6
  <2> HIDE DEF x
  <2>5. \A n \in N : Placed(u, s2, n) /\ Weighed(u, h2, n, x, IF n = p THEN h2[top] - h[scan] ELSE 0)
    <3>1. \A n \in R : Weighed(u, h2, n, x, 0)
      BY <1>6 DEF Weighed
    <3> QED
      BY <1>6, <2>1, <2>4, <3>1
  <2>6. SearchTree(u, s2)
    <3>1. u.root \in s2[u.root]
      BY <1>2, <2>2
    <3>2. u.parent[u.root] = Nil
      BY <1>1, <1>2, <2>2 DEF SearchTree, Regrafted
    <3> QED
      BY <1>5, <2>2, <2>5, <3>1, <3>2 DEF SearchTree
  <2> QED
    BY <1>5, <2>2, <2>5, <2>6 DEF Pending, x
<1> QED
  BY <1>7, <1>8

-----------------------------------------------------------------------------
(* Assignments to the fields *)

\* u is t but for a field or two.
ParentSet(t, u, n, p) ==
  /\ u \in Trees /\ u.root = t.root /\ u.link = t.link /\ u.bal = t.bal
  /\ \A m \in Pointers : u.parent[m] = IF m # Nil /\ m = n THEN p ELSE t.parent[m]

LinkSet(t, u, p, d, n) ==
  /\ u \in Trees /\ u.root = t.root /\ u.parent = t.parent /\ u.bal = t.bal
  /\ \A x \in Sides, m \in Pointers :
       u.link[x][m] = IF x = d /\ m = p THEN n ELSE t.link[x][m]

BalanceSet(t, u, n, b) ==
  /\ u \in Trees /\ u.root = t.root /\ u.parent = t.parent /\ u.link = t.link
  /\ \A m \in Pointers : u.bal[m] = IF m = n THEN b ELSE t.bal[m]

Attached(t, u, p, d, n) ==
  /\ u \in Trees /\ u.root = t.root /\ u.bal = t.bal
  /\ \A x \in Sides, m \in Pointers :
       u.link[x][m] = IF x = d /\ m = p THEN n ELSE t.link[x][m]
  /\ \A m \in Pointers : u.parent[m] = IF m # Nil /\ m = n THEN p ELSE t.parent[m]

Replaced(t, u, scan, n, p) ==
  /\ u \in Trees /\ u.bal = t.bal
  /\ u.root = IF p = Nil THEN n ELSE t.root
  /\ \A x \in Sides, m \in Pointers :
       u.link[x][m] = IF p # Nil /\ x = Side(t.link[RIGHT][p] = scan) /\ m = p
                      THEN n ELSE t.link[x][m]
  /\ \A m \in Pointers : u.parent[m] = IF m # Nil /\ m = n THEN p ELSE t.parent[m]

Leaf(t, u, n, p) ==
  /\ u \in Trees /\ u.root = t.root
  /\ \A x \in Sides, m \in Pointers :
       u.link[x][m] = IF m = n THEN Nil ELSE t.link[x][m]
  /\ \A m \in Pointers : /\ u.parent[m] = IF m = n THEN p ELSE t.parent[m]
                         /\ u.bal[m] = IF m = n THEN 0 ELSE t.bal[m]

\* SetParent changes one parent, if there is a node to tell.
LEMMA SetParentIs ==
  ASSUME NEW t \in Trees, NEW n \in Pointers, NEW p \in Pointers
  PROVE  ParentSet(t, SetParent(t, n, p), n, p)
BY DEF SetParent, Trees, ParentSet

\* An assignment to avl_link.
LEMMA SetLinkIs ==
  ASSUME NEW t \in Trees, NEW n \in Pointers, NEW p \in Pointers, NEW d \in Sides
  PROVE  LinkSet(t, [t EXCEPT !.link[d][p] = n], p, d, n)
BY DEF Trees, Sides, LinkSet

\* An assignment to avl_balance.
LEMMA SetBalanceIs ==
  ASSUME NEW t \in Trees, NEW n \in Pointers, NEW b \in -1 .. 1
  PROVE  BalanceSet(t, [t EXCEPT !.bal[n] = b], n, b)
BY DEF Trees, BalanceSet

\* Attach changes one link and one parent.
LEMMA AttachIs ==
  ASSUME NEW t \in Trees, NEW n \in Pointers, NEW p \in Pointers, NEW d \in Sides
  PROVE  Attached(t, Attach(t, p, d, n), p, d, n)
<1> DEFINE v == [t EXCEPT !.link[d][p] = n]
<1>1. LinkSet(t, v, p, d, n)
  BY SetLinkIs
<1> HIDE DEF v
<1>2. ParentSet(v, SetParent(v, n, p), n, p)
  BY <1>1, SetParentIs DEF LinkSet
<1>3. Attach(t, p, d, n) = SetParent(v, n, p)
  BY DEF Attach, v
<1> QED
  BY <1>1, <1>2, <1>3 DEF LinkSet, ParentSet, Attached

\* LinkParent changes the root or one link, and one parent.
LEMMA LinkParentIs ==
  ASSUME NEW t \in Trees, NEW scan, NEW n \in Pointers, NEW p \in Pointers
  PROVE  Replaced(t, LinkParent(t, scan, n, p), scan, n, p)
<1>1. CASE p = Nil
  <2> DEFINE v == [t EXCEPT !.root = n]
  <2>1. v \in Trees /\ v.root = n /\ v.parent = t.parent /\ v.bal = t.bal /\ v.link = t.link
    BY DEF Trees
  <2> HIDE DEF v
  <2>2. LinkParent(t, scan, n, p) = SetParent(v, n, Nil)
    BY <1>1 DEF LinkParent, v
  <2>3. ParentSet(v, SetParent(v, n, Nil), n, Nil)
    BY <1>1, <2>1, SetParentIs
  <2> QED
    BY <1>1, <2>1, <2>2, <2>3 DEF ParentSet, Replaced
<1>2. CASE p # Nil
  <2> DEFINE d == Side(t.link[RIGHT][p] = scan)
  <2>1. d \in Sides
    BY DEF Side, Sides
  <2>2. LinkParent(t, scan, n, p) = Attach(t, p, d, n)
    BY <1>2 DEF LinkParent
  <2> HIDE DEF d
  <2>3. Attached(t, Attach(t, p, d, n), p, d, n)
    BY <2>1, AttachIs
  <2> QED
    BY <1>2, <2>2, <2>3 DEF Attached, Replaced, d
<1> QED
  BY <1>1, <1>2

\* There are two sides.
LEMMA SideFacts ==
  /\ LEFT \in Sides /\ RIGHT \in Sides /\ LEFT # RIGHT
  /\ \A x \in Sides : x = LEFT \/ x = RIGHT
  /\ Nil \in Pointers /\ Keys \subseteq Pointers
BY DEF Pointers, Sides, LEFT, RIGHT

\* A new leaf has its own fields set and no others.
LEMMA NewLeafIs ==
  ASSUME NEW t \in Trees, NEW n \in Pointers, NEW p \in Pointers
  PROVE  Leaf(t, NewLeaf(t, n, p), n, p)
<1> DEFINE v == [t EXCEPT !.link[LEFT][n] = Nil]
           w == [v EXCEPT !.link[RIGHT][n] = Nil]
           y == [w EXCEPT !.bal[n] = 0]
           z == [y EXCEPT !.parent[n] = p]
<1>1. LinkSet(t, v, n, LEFT, Nil)
  BY SideFacts, SetLinkIs
<1>2. NewLeaf(t, n, p) = z
  BY DEF NewLeaf
<1> HIDE DEF v
<1>3. LinkSet(v, w, n, RIGHT, Nil)
  BY <1>1, SideFacts, SetLinkIs DEF LinkSet
<1> HIDE DEF w
<1>4. BalanceSet(w, y, n, 0)
  <2>1. w \in Trees /\ 0 \in -1 .. 1
    BY <1>3 DEF LinkSet
  <2> QED
    BY <2>1, SetBalanceIs
<1> HIDE DEF y
<1>5. /\ z \in Trees /\ z.root = y.root /\ z.link = y.link /\ z.bal = y.bal
      /\ \A m \in Pointers : z.parent[m] = IF m = n THEN p ELSE y.parent[m]
  BY <1>4 DEF Trees, BalanceSet
<1> HIDE DEF z
<1> QED
  BY <1>1, <1>2, <1>3, <1>4, <1>5, SideFacts DEF LinkSet, BalanceSet, Leaf

\* The rotation of scan to side dir under next: pointer by pointer.
RotatedOnce(t, u, scan, next, dir, p, inner, b1, b2) ==
      /\ u \in Trees /\ u.root = IF p = Nil THEN next ELSE t.root
      /\ \A x \in Sides, m \in Pointers :
           u.link[x][m] = IF m = scan /\ x = 1 - dir THEN inner
                          ELSE IF m = next /\ x = dir THEN scan
                          ELSE IF p # Nil /\ m = p /\ x = Side(t.link[RIGHT][p] = scan) THEN next
                          ELSE t.link[x][m]
      /\ \A m \in Keys :
           /\ u.parent[m] = IF m = next THEN p ELSE IF m = scan THEN next
                            ELSE IF m = inner THEN scan ELSE t.parent[m]
           /\ u.bal[m] = IF m = scan THEN b1 ELSE IF m = next THEN b2 ELSE t.bal[m]

\* r with two balances set.
Balanced2(r, scan, next, b1, b2) == [r EXCEPT !.bal[scan] = b1, !.bal[next] = b2]

\* RotateSingle, the two balances and LinkParent, pointer by pointer.
LEMMA RotateOnceIs ==
  ASSUME NEW t \in Trees, NEW scan \in Keys, NEW next \in Keys, scan # next, NEW dir \in Sides,
         t.parent[scan] \notin {scan, next}, t.link[dir][next] # scan,
         NEW b1 \in -1 .. 1, NEW b2 \in -1 .. 1,
         NEW r, r = RotateSingle(t, scan, next, dir)
  PROVE  RotatedOnce(t, LinkParent(Balanced2(r, scan, next, b1, b2),
                                   scan, next, t.parent[scan]),
                     scan, next, dir, t.parent[scan], t.link[dir][next], b1, b2)
<1> DEFINE p     == t.parent[scan]
           inner == t.link[dir][next]
           v     == Attach(t, scan, 1 - dir, inner)
           y     == [r EXCEPT !.bal[scan] = b1]
           z     == [y EXCEPT !.bal[next] = b2]
           u     == LinkParent(z, scan, next, p)
<1>1. p \in Pointers /\ inner \in Pointers /\ scan \in Pointers /\ next \in Pointers
      /\ 1 - dir \in Sides /\ scan # Nil /\ next # Nil
  BY SideFacts, TreeFields, Opposite, KeysFinite
<1>2. Attached(t, v, scan, 1 - dir, inner)
  BY <1>1, AttachIs
<1>3. r = Attach(v, next, dir, scan)
  BY DEF RotateSingle
<1> HIDE DEF v
<1>4. Attached(v, r, next, dir, scan)
  <2>1. v \in Trees
    BY <1>2 DEF Attached
  <2>2. Attached(v, Attach(v, next, dir, scan), next, dir, scan)
    BY <1>1, <2>1, AttachIs
  <2> QED
    BY <1>3, <2>2
<1>5. BalanceSet(r, y, scan, b1)
  BY <1>1, <1>4, SetBalanceIs DEF Attached
<1>6. u = LinkParent(Balanced2(r, scan, next, b1, b2), scan, next, t.parent[scan])
  BY DEF Balanced2
<1> HIDE DEF y
<1>7. BalanceSet(y, z, next, b2)
  <2>1. y \in Trees
    BY Zenon, <1>5 DEF BalanceSet
  <2> QED
    BY Zenon, <1>1, <2>1, SetBalanceIs
<1> HIDE DEF z
<1>8. Replaced(z, u, scan, next, p)
  BY <1>1, <1>7, LinkParentIs DEF BalanceSet
<1>9. z.link[RIGHT][p] = t.link[RIGHT][p]
  BY <1>1, <1>2, <1>4, <1>5, <1>7, SideFacts DEF Attached, BalanceSet
<1> HIDE DEF u
<1>10. \A x \in Sides, m \in Pointers :
         u.link[x][m] = IF m = scan /\ x = 1 - dir THEN inner
                        ELSE IF m = next /\ x = dir THEN scan
                        ELSE IF p # Nil /\ m = p /\ x = Side(t.link[RIGHT][p] = scan) THEN next
                        ELSE t.link[x][m]
  <2> HIDE DEF p, inner
  <2> SUFFICES ASSUME NEW x \in Sides, NEW m \in Pointers
               PROVE  u.link[x][m] = IF m = scan /\ x = 1 - dir THEN inner
                        ELSE IF m = next /\ x = dir THEN scan
                        ELSE IF p # Nil /\ m = p /\ x = Side(t.link[RIGHT][p] = scan) THEN next
                        ELSE t.link[x][m]
    OBVIOUS
  <2>1. z.link[x][m] = IF m = scan /\ x = 1 - dir THEN inner
                       ELSE IF m = next /\ x = dir THEN scan ELSE t.link[x][m]
    BY <1>2, <1>4, <1>5, <1>7 DEF Attached, BalanceSet
  <2>2. p # scan /\ p # next
    BY DEF p
  <2> QED
    BY <1>8, <1>9, <2>1, <2>2 DEF Replaced
<1>11. \A m \in Keys :
         /\ u.parent[m] = IF m = next THEN p ELSE IF m = scan THEN next
                          ELSE IF m = inner THEN scan ELSE t.parent[m]
         /\ u.bal[m] = IF m = scan THEN b1 ELSE IF m = next THEN b2 ELSE t.bal[m]
  <2> HIDE DEF p, inner
  <2> QED
    BY <1>2, <1>4, <1>5, <1>7, <1>8, SideFacts, KeysFinite DEF Attached, BalanceSet, Replaced
<1>12. u \in Trees /\ u.root = IF p = Nil THEN next ELSE t.root
  BY <1>2, <1>4, <1>5, <1>7, <1>8 DEF Attached, BalanceSet, Replaced
<1> QED
  BY <1>6, <1>10, <1>11, <1>12 DEF RotatedOnce

\* The same for the double rotation, which puts sub above scan and next.
RotatedTwice(t, u, scan, next, sub, dir, p, near, far, b1, b2) ==
      /\ u \in Trees /\ u.root = IF p = Nil THEN sub ELSE t.root
      /\ \A x \in Sides, m \in Pointers :
           u.link[x][m] = IF m = scan /\ x = 1 - dir THEN far
                          ELSE IF m = next /\ x = dir THEN near
                          ELSE IF m = sub THEN IF x = dir THEN scan ELSE next
                          ELSE IF p # Nil /\ m = p /\ x = Side(t.link[RIGHT][p] = scan) THEN sub
                          ELSE t.link[x][m]
      /\ \A m \in Keys :
           /\ u.parent[m] = IF m = sub THEN p ELSE IF m \in {scan, next} THEN sub
                            ELSE IF m = far THEN scan ELSE IF m = near THEN next
                            ELSE t.parent[m]
           /\ u.bal[m] = IF m = scan THEN b1 ELSE IF m = next THEN b2
                         ELSE IF m = sub THEN 0 ELSE t.bal[m]

\* r with three balances set.
Balanced3(r, scan, next, sub, b1, b2) ==
  [r EXCEPT !.bal[scan] = b1, !.bal[next] = b2, !.bal[sub] = 0]

\* RotateDouble, the three balances and LinkParent, pointer by pointer.
LEMMA RotateTwiceIs ==
  ASSUME NEW t \in Trees, NEW scan \in Keys, NEW next \in Keys, NEW sub \in Keys,
         NEW dir \in Sides, scan # next, scan # sub, next # sub, sub = t.link[dir][next],
         t.parent[scan] \notin {scan, next, sub},
         NEW b1 \in -1 .. 1, NEW b2 \in -1 .. 1,
         NEW r, r = RotateDouble(t, scan, next, dir)
  PROVE  RotatedTwice(t, LinkParent(Balanced3(r, scan, next, sub, b1, b2),
                                    scan, sub, t.parent[scan]),
                      scan, next, sub, dir, t.parent[scan],
                      t.link[1 - dir][sub], t.link[dir][sub], b1, b2)
<1> DEFINE p    == t.parent[scan]
           near == t.link[1 - dir][sub]
           far  == t.link[dir][sub]
           v1   == Attach(t, next, dir, near)
           v2   == Attach(v1, scan, 1 - dir, far)
           v3   == Attach(v2, sub, 1 - dir, next)
           y    == [r EXCEPT !.bal[scan] = b1]
           z    == [y EXCEPT !.bal[next] = b2]
           w    == [z EXCEPT !.bal[sub] = 0]
           u    == LinkParent(w, scan, sub, p)
<1>1. p \in Pointers /\ near \in Pointers /\ far \in Pointers /\ scan \in Pointers /\ next \in Pointers
      /\ sub \in Pointers /\ 1 - dir \in Sides /\ scan # Nil /\ next # Nil /\ sub # Nil
      /\ p # scan /\ p # next /\ p # sub /\ 1 - dir # dir /\ \A x \in Sides : x = dir \/ x = 1 - dir
  BY SideFacts, TreeFields, Opposite, KeysFinite
<1>2. u = LinkParent(Balanced3(r, scan, next, sub, b1, b2),
                     scan, sub, t.parent[scan])
  BY DEF Balanced3
<1>3. r = Attach(v3, sub, dir, scan)
  BY DEF RotateDouble
<1>4. Attached(t, v1, next, dir, near)
  BY <1>1, AttachIs
<1> HIDE DEF v1
<1>5. Attached(v1, v2, scan, 1 - dir, far)
  <2>1. v1 \in Trees
    BY <1>4 DEF Attached
  <2> QED
    BY <1>1, <2>1, AttachIs
<1> HIDE DEF v2
<1>6. Attached(v2, v3, sub, 1 - dir, next)
  <2>1. v2 \in Trees
    BY <1>5 DEF Attached
  <2> QED
    BY <1>1, <2>1, AttachIs
<1> HIDE DEF v3
<1>7. Attached(v3, r, sub, dir, scan)
  <2>1. v3 \in Trees
    BY <1>6 DEF Attached
  <2>2. Attached(v3, Attach(v3, sub, dir, scan), sub, dir, scan)
    BY <1>1, <2>1, AttachIs
  <2> QED
    BY <1>3, <2>2
<1>8. BalanceSet(r, y, scan, b1)
  BY <1>1, <1>7, SetBalanceIs DEF Attached
<1> HIDE DEF y
<1>9. BalanceSet(y, z, next, b2)
  <2>1. y \in Trees
    BY <1>8 DEF BalanceSet
  <2> QED
    BY <1>1, <2>1, SetBalanceIs
<1> HIDE DEF z
<1>10. BalanceSet(z, w, sub, 0)
  <2>1. z \in Trees /\ 0 \in -1 .. 1
    BY <1>9 DEF BalanceSet
  <2> QED
    BY <1>1, <2>1, SetBalanceIs
<1> HIDE DEF w
<1>11. Replaced(w, u, scan, sub, p)
  BY <1>1, <1>10, LinkParentIs DEF BalanceSet
<1> HIDE DEF u, p, near, far
<1>12. \A x \in Sides, m \in Pointers :
         w.link[x][m] = IF m = sub THEN IF x = dir THEN scan ELSE next
                        ELSE IF m = scan /\ x = 1 - dir THEN far
                        ELSE IF m = next /\ x = dir THEN near ELSE t.link[x][m]
  <2>1. w.link = r.link
    BY <1>8, <1>9, <1>10 DEF BalanceSet
  <2>2. \A x \in Sides, m \in Pointers :
          v2.link[x][m] = IF m = scan /\ x = 1 - dir THEN far
                          ELSE IF m = next /\ x = dir THEN near ELSE t.link[x][m]
    BY <1>4, <1>5 DEF Attached
  <2>3. \A x \in Sides, m \in Pointers :
          r.link[x][m] = IF m = sub THEN IF x = dir THEN scan ELSE next ELSE v2.link[x][m]
    BY <1>1, <1>6, <1>7 DEF Attached
  <2> QED
    BY <2>1, <2>2, <2>3
<1>13. w.link[RIGHT][p] = t.link[RIGHT][p]
  BY <1>1, <1>12, SideFacts
<1>14. \A x \in Sides, m \in Pointers :
         u.link[x][m] = IF m = scan /\ x = 1 - dir THEN far
                        ELSE IF m = next /\ x = dir THEN near
                        ELSE IF m = sub THEN IF x = dir THEN scan ELSE next
                        ELSE IF p # Nil /\ m = p /\ x = Side(t.link[RIGHT][p] = scan) THEN sub
                        ELSE t.link[x][m]
  <2> DEFINE here == Side(t.link[RIGHT][p] = scan)
  <2>1. \A x \in Sides, m \in Pointers :
          u.link[x][m] = IF p # Nil /\ x = here /\ m = p THEN sub ELSE w.link[x][m]
    BY <1>11, <1>13 DEF Replaced
  <2> HIDE DEF here
  <2> QED
    BY <1>1, <1>12, <2>1 DEF here
<1>15. \A m \in Keys : u.parent[m] = IF m = sub THEN p ELSE IF m \in {scan, next} THEN sub
                                     ELSE IF m = far THEN scan ELSE IF m = near THEN next
                                     ELSE t.parent[m]
  <2>1. w.parent = r.parent
    BY <1>8, <1>9, <1>10 DEF BalanceSet
  <2>2. \A m \in Keys : v2.parent[m] = IF m = far THEN scan ELSE IF m = near THEN next
                                       ELSE t.parent[m]
    BY <1>4, <1>5, SideFacts, KeysFinite DEF Attached
  <2>3. \A m \in Keys : r.parent[m] = IF m \in {scan, next} THEN sub ELSE v2.parent[m]
    BY <1>6, <1>7, SideFacts, KeysFinite DEF Attached
  <2>4. \A m \in Keys : u.parent[m] = IF m = sub THEN p ELSE w.parent[m]
    BY <1>11, SideFacts, KeysFinite DEF Replaced
  <2> QED
    BY <2>1, <2>2, <2>3, <2>4
<1>16. \A m \in Keys : u.bal[m] = IF m = scan THEN b1 ELSE IF m = next THEN b2
                                  ELSE IF m = sub THEN 0 ELSE t.bal[m]
  <2>1. r.bal = t.bal
    BY <1>4, <1>5, <1>6, <1>7 DEF Attached
  <2> QED
    BY <1>8, <1>9, <1>10, <1>11, <2>1, SideFacts DEF BalanceSet, Replaced
<1>17. u \in Trees /\ u.root = IF p = Nil THEN sub ELSE t.root
  <2>1. r.root = t.root /\ w.root = r.root
    BY <1>4, <1>5, <1>6, <1>7, <1>8, <1>9, <1>10 DEF Attached, BalanceSet
  <2> QED
    BY <1>11, <2>1 DEF Replaced
<1>18. RotatedTwice(t, u, scan, next, sub, dir, p, near, far, b1, b2)
  BY <1>14, <1>15, <1>16, <1>17 DEF RotatedTwice
<1> QED
  BY Zenon, <1>2, <1>18 DEF p, near, far

-----------------------------------------------------------------------------
(* A node and its two sides *)

\* c is well placed on side d of n.
OnItsSide(t, s, n, d, c) ==
  (c # Nil => c \in s[c] /\ t.parent[c] = n) /\ \A m \in s[c] : OnSide(d, m, n)

\* A node's place, told from either side.
LEMMA PlacedEither ==
  ASSUME NEW dir \in Sides, NEW t, NEW s, NEW n
  PROVE  Placed(t, s, n) <=> /\ s[n] = {n} \cup s[t.link[dir][n]] \cup s[t.link[1 - dir][n]]
                             /\ OnItsSide(t, s, n, dir, t.link[dir][n])
                             /\ OnItsSide(t, s, n, 1 - dir, t.link[1 - dir][n])
<1>1. /\ 1 - LEFT = RIGHT /\ 1 - RIGHT = LEFT
      /\ \A d \in Sides : d = LEFT \/ d = RIGHT
  BY DEF Sides, LEFT, RIGHT
<1>2. Placed(t, s, n) <=> /\ s[n] = {n} \cup s[t.link[LEFT][n]] \cup s[t.link[RIGHT][n]]
                          /\ OnItsSide(t, s, n, LEFT, t.link[LEFT][n])
                          /\ OnItsSide(t, s, n, RIGHT, t.link[RIGHT][n])
  BY SideFacts DEF Placed, OnItsSide
<1>3. CASE dir = LEFT
  BY <1>1, <1>2, <1>3
<1>4. CASE dir = RIGHT
  BY <1>1, <1>2, <1>4
<1> QED
  BY <1>1, <1>3, <1>4

\* The balance of a node with heights a on side dir and b on the other.
Lean(dir, a, b) == IF dir = RIGHT THEN a - b ELSE b - a

\* A node's height and balance, told from either side.
LEMMA WeighedEither ==
  ASSUME NEW dir \in Sides, NEW t, NEW h, NEW n, NEW delta \in Int,
         \A d \in Sides : h[t.link[d][n]] \in Nat
  PROVE  Weighed(t, h, n, dir, delta) <=>
           /\ h[n] = 1 + Higher(h[t.link[dir][n]] - delta, h[t.link[1 - dir][n]])
           /\ t.bal[n] = Lean(dir, h[t.link[dir][n]] - delta, h[t.link[1 - dir][n]])
<1> DEFINE a == h[t.link[LEFT][n]]
           b == h[t.link[RIGHT][n]]
<1>1. /\ 1 - LEFT = RIGHT /\ 1 - RIGHT = LEFT /\ LEFT # RIGHT
      /\ \A d \in Sides : d = LEFT \/ d = RIGHT
  BY DEF Sides, LEFT, RIGHT
<1>2. a \in Nat /\ b \in Nat
  BY SideFacts
<1>3. CASE dir = LEFT
  <2>1. Weighed(t, h, n, dir, delta) <=> h[n] = 1 + Higher(a - delta, b - 0) /\ t.bal[n] = (b - 0) - (a - delta)
    BY <1>1, <1>3 DEF Weighed
  <2> QED
    BY <1>1, <1>2, <1>3, <2>1 DEF Lean
<1>4. CASE dir = RIGHT
  <2>1. Weighed(t, h, n, dir, delta) <=> h[n] = 1 + Higher(a - 0, b - delta) /\ t.bal[n] = (b - delta) - (a - 0)
    BY <1>1, <1>4 DEF Weighed
  <2>2. Higher(a - 0, b - delta) = Higher(b - delta, a)
    BY <1>2 DEF Higher
  <2>3. (b - delta) - (a - 0) = (b - delta) - a
    BY <1>2
  <2> HIDE DEF a, b
  <2>4. Weighed(t, h, n, dir, delta) <=> h[n] = 1 + Higher(b - delta, a) /\ t.bal[n] = (b - delta) - a
    BY <2>1, <2>2, <2>3
  <2> QED
    BY <1>1, <1>4, <2>4 DEF Lean, a, b
<1> QED
  BY <1>1, <1>3, <1>4

\* scan leans by two away from side dir, and all else is as it should be.
Leaning(t, s, h, scan, dir) ==
  /\ SearchTree(t, s) /\ scan \in s[t.root] /\ dir \in Sides
  /\ h \in [Pointers -> Nat] /\ h[Nil] = 0
  /\ \A n \in s[t.root] \ {scan} : Weighed(t, h, n, LEFT, 0)
  /\ h[t.link[1 - dir][scan]] = h[t.link[dir][scan]] + 2

\* What Placed and Weighed say of a node that has c on side dir and e on the
\* other.
NodeHas(t, s, h, n, dir, c, e) ==
  /\ n \in Keys /\ c \in Pointers /\ e \in Pointers /\ c # n /\ e # n
  /\ h[c] \in Nat /\ h[e] \in Nat /\ h[n] \in Nat
  /\ s[n] = {n} \cup s[c] \cup s[e] /\ n \in s[n]
  /\ n \notin s[c] /\ n \notin s[e] /\ s[c] \cap s[e] = {}
  /\ OnItsSide(t, s, n, dir, c) /\ OnItsSide(t, s, n, 1 - dir, e)
  /\ c # Nil => c \in s[n] /\ c \in s[t.root] /\ c # e
  /\ e # Nil => e \in s[n] /\ e \in s[t.root]
  /\ Weighed(t, h, n, LEFT, 0) => h[n] = 1 + Higher(h[c], h[e]) /\ t.bal[n] = Lean(dir, h[c], h[e])

\* What every node of a search tree has below it.
LEMMA NodeFacts ==
  ASSUME NEW t, NEW s, SearchTree(t, s), NEW n \in s[t.root], NEW dir \in Sides,
         NEW h \in [Pointers -> Nat]
  PROVE  NodeHas(t, s, h, n, dir, t.link[dir][n], t.link[1 - dir][n])
<1> DEFINE c == t.link[dir][n]
           e == t.link[1 - dir][n]
<1>1. t \in Trees /\ s \in [Pointers -> SUBSET Keys] /\ s[Nil] = {} /\ Placed(t, s, n)
  BY DEF SearchTree
<1>2. n \in Keys /\ n \in s[n] /\ \A d \in Sides : Hangs(t, s, n, d, t.link[d][n])
  BY Links
<1>3. n \in Pointers /\ n # Nil /\ 1 - dir \in Sides
  BY <1>2, KeysFinite, SideFacts, Opposite
<1>4. Hangs(t, s, n, dir, c) /\ Hangs(t, s, n, 1 - dir, e)
  BY <1>2, <1>3
<1>5. s[n] = {n} \cup s[c] \cup s[e] /\ OnItsSide(t, s, n, dir, c) /\ OnItsSide(t, s, n, 1 - dir, e)
  BY <1>1, PlacedEither
<1>6. \A d \in Sides : h[t.link[d][n]] \in Nat
  BY <1>2 DEF Hangs
<1>7. h[n] \in Nat /\ h[c] \in Nat /\ h[e] \in Nat
  BY <1>3, <1>6
<1>8. Weighed(t, h, n, LEFT, 0) => /\ h[n] = 1 + Higher(h[c], h[e])
                                   /\ t.bal[n] = Lean(dir, h[c], h[e])
  <2>1. Weighed(t, h, n, LEFT, 0) => Weighed(t, h, n, dir, 0)
    BY DEF Weighed
  <2>2. h[c] - 0 = h[c] /\ 0 \in Int
    BY <1>7
  <2> QED
    BY <1>6, <2>1, <2>2, WeighedEither
<1>9. s[c] \cap s[e] = {}
  <2> SUFFICES ASSUME NEW m \in s[c], m \in s[e] PROVE FALSE
    OBVIOUS
  <2>1. OnSide(dir, m, n) /\ OnSide(1 - dir, m, n)
    BY Zenon, <1>4 DEF Hangs
  <2>2. m \in Nat /\ n \in Nat
    BY Zenon, <1>1, <1>2, <1>4, KeysFinite DEF Hangs
  <2> QED
    BY <2>1, <2>2, Opposite
<1>10. s[n] \subseteq s[t.root]
  BY SubtreesClosed
<1>11. /\ c \in Pointers /\ e \in Pointers /\ c # n /\ e # n /\ n \notin s[c] /\ n \notin s[e]
       /\ c # Nil => c \in s[n] /\ c \in s[t.root] /\ c # e
       /\ e # Nil => e \in s[n] /\ e \in s[t.root]
  BY Zenon, <1>2, <1>3, <1>4, <1>9, <1>10 DEF Hangs
<1> HIDE DEF c, e
<1> QED
  BY Zenon, <1>2, <1>5, <1>7, <1>8, <1>9, <1>11 DEF c, e, NodeHas

\* Nodes whose fields and those of whose children are as before are in place.
LEMMA Undisturbed ==
  ASSUME NEW t, NEW s, SearchTree(t, s), NEW n \in s[t.root],
         NEW h \in [Pointers -> Nat], Weighed(t, h, n, LEFT, 0),
         NEW u, NEW s2, NEW h2,
         s2[n] = s[n], h2[n] = h[n], u.bal[n] = t.bal[n],
         \A d \in Sides : LET c == t.link[d][n]
                          IN  /\ u.link[d][n] = c /\ s2[c] = s[c] /\ h2[c] = h[c]
                              /\ c # Nil => u.parent[c] = n
  PROVE  Placed(u, s2, n) /\ Weighed(u, h2, n, LEFT, 0)
<1>1. Placed(t, s, n)
  BY DEF SearchTree
<1>2. Placed(u, s2, n)
  BY <1>1, SideFacts DEF Placed
<1>3. Weighed(u, h2, n, LEFT, 0)
  BY Zenon, SideFacts DEF Weighed
<1> QED
  BY <1>2, <1>3

\* scan, with other and next below it, and inner and outer below next.
Setting(t, s, h, scan, dir, p, other, next, inner, outer) ==
  /\ Leaning(t, s, h, scan, dir)
  /\ p = t.parent[scan] /\ other = t.link[dir][scan] /\ next = t.link[1 - dir][scan]
  /\ inner = t.link[dir][next] /\ outer = t.link[1 - dir][next]

\* What is known of all that a rearrangement below scan leaves alone.
LEMMA SettingFacts ==
  ASSUME NEW t, NEW s, NEW h, NEW scan, NEW dir, NEW p, NEW other, NEW next, NEW inner, NEW outer,
         Setting(t, s, h, scan, dir, p, other, next, inner, outer)
  PROVE  /\ SearchTree(t, s) /\ scan \in s[t.root] /\ next \in s[t.root]
         /\ dir \in Sides /\ 1 - dir \in Sides /\ 1 - dir # dir /\ \A x \in Sides : x = dir \/ x = 1 - dir
         /\ t \in Trees /\ s \in [Pointers -> SUBSET Keys] /\ s[Nil] = {} /\ h \in [Pointers -> Nat]
         /\ NodeHas(t, s, h, scan, dir, other, next) /\ NodeHas(t, s, h, next, dir, inner, outer)
         /\ h[next] = h[other] + 2 /\ Weighed(t, h, next, LEFT, 0)
         /\ scan \in Pointers /\ next \in Pointers /\ Nil \notin Keys /\ next # Nil /\ scan # Nil
         /\ s[scan] \subseteq Keys /\ s[scan] \subseteq s[t.root] /\ Nil \notin s[scan]
         /\ p \notin s[scan] /\ p \in Pointers
         /\ IsChild(t, s, scan, p, Side(t.link[RIGHT][p] = scan))
         /\ Closed(t, s, scan)
<1>1. /\ SearchTree(t, s) /\ scan \in s[t.root] /\ dir \in Sides /\ h \in [Pointers -> Nat] /\ h[Nil] = 0
      /\ t \in Trees /\ s \in [Pointers -> SUBSET Keys] /\ s[Nil] = {}
      /\ \A n \in s[t.root] \ {scan} : Weighed(t, h, n, LEFT, 0)
      /\ h[next] = h[other] + 2
  BY DEF Leaning, Setting, SearchTree
<1>2. 1 - dir \in Sides /\ 1 - dir # dir /\ \A x \in Sides : x = dir \/ x = 1 - dir
  BY <1>1, Opposite
<1>3. NodeHas(t, s, h, scan, dir, other, next)
  BY <1>1, NodeFacts DEF Setting
<1>4. h[other] \in Nat /\ scan # next /\ scan \in Keys /\ (next # Nil => next \in s[t.root])
  BY <1>3 DEF NodeHas
<1>5. next # Nil
  BY <1>1, <1>4
<1>6. next \in s[t.root]
  BY <1>4, <1>5
<1>7. NodeHas(t, s, h, next, dir, inner, outer)
  BY <1>1, <1>6, NodeFacts DEF Setting
<1>8. Weighed(t, h, next, LEFT, 0)
  BY <1>1, <1>4, <1>6
<1>9. next \in Keys
  BY <1>7 DEF NodeHas
<1>10. scan \in Pointers /\ next \in Pointers /\ Nil \notin Keys /\ scan # Nil
  BY <1>4, <1>9, SideFacts, KeysFinite
<1>11. s[scan] \subseteq Keys /\ Nil \notin s[scan]
  BY <1>1, <1>10
<1>12. s[scan] \subseteq s[t.root] /\ Closed(t, s, scan)
  BY <1>1, SubtreesClosed
<1>13. p = t.parent[scan] /\ p \in Pointers
  BY <1>1, <1>10, TreeFields DEF Setting
<1>14. IsChild(t, s, scan, p, Side(t.link[RIGHT][p] = scan))
  BY <1>1, <1>13, ParentLink
<1>15. p \notin s[scan]
  BY <1>11, <1>14 DEF IsChild
<1> QED
  BY <1>1, <1>2, <1>3, <1>5, <1>6, <1>7, <1>8, <1>10, <1>11, <1>12, <1>13, <1>14, <1>15

\* Only nodes of a top part M of scan's subtree have been changed, but for the
\* parents of those that hung below it and for the link to scan.
Rearranged(t, s, h, scan, p, u, s2, h2, top, M) ==
  /\ u \in Trees /\ s2 \in [Pointers -> SUBSET Keys] /\ h2 \in [Pointers -> Nat]
  /\ scan \in M /\ top \in M /\ M \subseteq s[scan]
  /\ \A m \in M : m # scan => t.parent[m] \in M
  /\ u.root = IF p = Nil THEN top ELSE t.root
  /\ u.parent[top] = p /\ s2[top] = s[scan]
  /\ \A m \in Pointers \ M : s2[m] = s[m] /\ h2[m] = h[m]
  /\ \A m \in Pointers \ M, x \in Sides :
       u.link[x][m] = IF p # Nil /\ m = p /\ x = Side(t.link[RIGHT][p] = scan)
                      THEN top ELSE t.link[x][m]
  /\ \A m \in Keys \ M : /\ u.bal[m] = t.bal[m]
                         /\ u.parent[m] = t.parent[m] \/ (m \in s[scan] /\ t.parent[m] \in M)
  /\ \A m \in M : Placed(u, s2, m) /\ Weighed(u, h2, m, LEFT, 0)

\* A rearrangement that puts a few nodes M right and leaves the others as they
\* are regrafts the subtree of scan.
LEMMA RearrangedRegrafts ==
  ASSUME NEW t, NEW s, SearchTree(t, s), NEW scan \in s[t.root],
         NEW h \in [Pointers -> Nat],
         \A n \in s[t.root] \ {scan} : Weighed(t, h, n, LEFT, 0),
         NEW p, p = t.parent[scan], NEW u, NEW s2, NEW h2, NEW top, NEW M,
         Rearranged(t, s, h, scan, p, u, s2, h2, top, M)
  PROVE  Regrafted(t, s, h, scan, u, s2, h2, top)
<1>1. /\ u \in Trees /\ s2 \in [Pointers -> SUBSET Keys] /\ h2 \in [Pointers -> Nat]
      /\ scan \in M /\ top \in M /\ M \subseteq s[scan]
      /\ \A m \in M : m # scan => t.parent[m] \in M
      /\ u.root = IF p = Nil THEN top ELSE t.root
      /\ u.parent[top] = p /\ s2[top] = s[scan]
      /\ \A m \in Pointers \ M : s2[m] = s[m] /\ h2[m] = h[m]
      /\ \A m \in Pointers \ M, x \in Sides :
           u.link[x][m] = IF p # Nil /\ m = p /\ x = Side(t.link[RIGHT][p] = scan)
                          THEN top ELSE t.link[x][m]
      /\ \A m \in Keys \ M : /\ u.bal[m] = t.bal[m]
                             /\ u.parent[m] = t.parent[m] \/ (m \in s[scan] /\ t.parent[m] \in M)
      /\ \A m \in M : Placed(u, s2, m) /\ Weighed(u, h2, m, LEFT, 0)
  BY DEF Rearranged
<1>2. /\ s[scan] \subseteq Keys /\ s[scan] \subseteq s[t.root] /\ Closed(t, s, scan)
      /\ IsChild(t, s, scan, p, Side(t.link[RIGHT][p] = scan))
  BY Links, SubtreesClosed, ParentLink
<1>3. p \notin s[scan]
  BY Zenon, <1>2, KeysFinite DEF IsChild
<1>4. ASSUME NEW n \in s[scan] \ M
      PROVE  Placed(u, s2, n) /\ Weighed(u, h2, n, LEFT, 0)
  <2>1. n \in Keys /\ n \in Pointers /\ n \in s[t.root] /\ n # scan /\ scan \notin s[n] /\ s[n] \subseteq s[scan]
    BY Zenon, <1>1, <1>2, SideFacts DEF Closed
  <2>2. \A d \in Sides : Hangs(t, s, n, d, t.link[d][n])
    BY <2>1, Links
  <2>3. ASSUME NEW d \in Sides, NEW c, c = t.link[d][n]
        PROVE  /\ u.link[d][n] = c /\ s2[c] = s[c] /\ h2[c] = h[c]
               /\ c # Nil => u.parent[c] = n
    <3>1. c \in Pointers /\ s[c] \subseteq s[n] /\ (c # Nil => c \in s[c] /\ t.parent[c] = n)
      BY <2>2, <2>3 DEF Hangs
    <3>2. u.link[d][n] = c
      BY <1>1, <1>3, <2>1, <2>3
    <3>3. c \notin M
      BY <1>1, <1>2, <2>1, <3>1, KeysFinite
    <3>4. c # Nil => u.parent[c] = n
      BY <1>1, <3>1, <3>3 DEF Pointers
    <3> QED
      BY <1>1, <3>1, <3>2, <3>3, <3>4
  <2>4. s2[n] = s[n] /\ h2[n] = h[n] /\ u.bal[n] = t.bal[n] /\ Weighed(t, h, n, LEFT, 0)
    BY <1>1, <2>1
  <2>5. \A d \in Sides : LET c == t.link[d][n]
                         IN  /\ u.link[d][n] = c /\ s2[c] = s[c] /\ h2[c] = h[c]
                             /\ c # Nil => u.parent[c] = n
    BY <2>3
  <2>6. s2[n] = s[n] /\ h2[n] = h[n]
    BY <1>1, <2>1
  <2> QED
    BY <2>1, <2>4, <2>5, <2>6, Undisturbed
<1>5. \A n \in s[scan] : Placed(u, s2, n) /\ Weighed(u, h2, n, LEFT, 0)
  BY <1>1, <1>4
<1>6. ASSUME NEW n \in Pointers \ s[scan], NEW d \in Sides
      PROVE  u.link[d][n] = IF n # Nil /\ n = p /\ t.link[d][n] = scan THEN top ELSE t.link[d][n]
  <2>1. u.link[d][n] = IF p # Nil /\ n = p /\ d = Side(t.link[RIGHT][p] = scan)
                       THEN top ELSE t.link[d][n]
    BY <1>1
  <2> QED
    BY Zenon, <1>2, <2>1 DEF IsChild
<1>7. \A n \in Keys \ s[scan] : u.parent[n] = t.parent[n] /\ u.bal[n] = t.bal[n]
  BY <1>1
<1>8. top \in s[scan] /\ \A n \in Pointers \ s[scan] : s2[n] = s[n] /\ h2[n] = h[n]
  BY <1>1
<1> QED
  BY <1>1, <1>5, <1>6, <1>7, <1>8 DEF Regrafted

\* A node with c on side dir and e on the other.
LEMMA NodeIs ==
  ASSUME NEW u, NEW s, NEW h, NEW n, NEW dir \in Sides, NEW c, NEW e,
         u.link[dir][n] = c, u.link[1 - dir][n] = e,
         s[n] = {n} \cup s[c] \cup s[e],
         OnItsSide(u, s, n, dir, c), OnItsSide(u, s, n, 1 - dir, e),
         h[c] \in Nat, h[e] \in Nat,
         h[n] = 1 + Higher(h[c], h[e]), u.bal[n] = Lean(dir, h[c], h[e])
  PROVE  Placed(u, s, n) /\ Weighed(u, h, n, LEFT, 0)
<1>1. Placed(u, s, n)
  BY PlacedEither
<1>2. \A d \in Sides : h[u.link[d][n]] \in Nat
  BY Opposite
<1>3. h[c] - 0 = h[c] /\ 0 \in Int
  OBVIOUS
<1>4. Weighed(u, h, n, dir, 0)
  BY <1>2, <1>3, WeighedEither
<1> QED
  BY <1>1, <1>4 DEF Weighed

-----------------------------------------------------------------------------
(* Rotations *)

\* What the two nodes and the three subtrees of a single rotation are.
LEMMA ThreeSubtrees ==
  ASSUME NEW t, NEW s, NEW h, NEW scan, NEW dir, NEW p, NEW other, NEW next, NEW inner, NEW outer,
         Setting(t, s, h, scan, dir, p, other, next, inner, outer)
  PROVE  /\ scan \in Keys /\ next \in Keys /\ scan # next
         /\ other \in Pointers /\ inner \in Pointers /\ outer \in Pointers
         /\ h[other] \in Nat /\ h[inner] \in Nat /\ h[outer] \in Nat
         /\ h[next] = 1 + Higher(h[inner], h[outer]) /\ t.bal[next] = Lean(dir, h[inner], h[outer])
         /\ s[scan] = {scan} \cup s[other] \cup s[next] /\ s[next] = {next} \cup s[inner] \cup s[outer]
         /\ scan \notin s[other] /\ scan \notin s[next] /\ s[other] \cap s[next] = {}
         /\ next \notin s[inner] /\ next \notin s[outer] /\ s[inner] \cap s[outer] = {}
         /\ OnItsSide(t, s, scan, dir, other) /\ OnItsSide(t, s, scan, 1 - dir, next)
         /\ OnItsSide(t, s, next, dir, inner) /\ OnItsSide(t, s, next, 1 - dir, outer)
         /\ other # scan /\ other # next /\ inner # scan /\ inner # next /\ outer # scan /\ outer # next
         /\ inner # Nil => inner # outer /\ inner \in s[next] /\ inner # other
         /\ outer # Nil => outer \in s[next] /\ outer # other
<1>1. NodeHas(t, s, h, scan, dir, other, next) /\ NodeHas(t, s, h, next, dir, inner, outer)
      /\ Weighed(t, h, next, LEFT, 0) /\ Nil \notin Keys /\ s \in [Pointers -> SUBSET Keys] /\ next # Nil
      /\ scan # Nil
  BY SettingFacts
<1>2. /\ h[other] \in Nat /\ h[inner] \in Nat /\ h[outer] \in Nat
      /\ h[next] = 1 + Higher(h[inner], h[outer]) /\ t.bal[next] = Lean(dir, h[inner], h[outer])
      /\ scan \in Keys /\ next \in Keys /\ scan # next
      /\ other \in Pointers /\ inner \in Pointers /\ outer \in Pointers
  BY <1>1 DEF NodeHas
<1>9. /\ s[scan] = {scan} \cup s[other] \cup s[next] /\ s[next] = {next} \cup s[inner] \cup s[outer]
      /\ scan \notin s[other] /\ scan \notin s[next] /\ s[other] \cap s[next] = {}
      /\ next \notin s[inner] /\ next \notin s[outer] /\ s[inner] \cap s[outer] = {}
  BY <1>1 DEF NodeHas
<1>10. /\ OnItsSide(t, s, scan, dir, other) /\ OnItsSide(t, s, scan, 1 - dir, next)
       /\ OnItsSide(t, s, next, dir, inner) /\ OnItsSide(t, s, next, 1 - dir, outer)
  BY <1>1 DEF NodeHas
<1>11. /\ other # scan /\ other # next /\ inner # scan /\ inner # next /\ outer # scan /\ outer # next
       /\ inner # Nil => inner # outer /\ inner \in s[next] /\ inner # other
       /\ outer # Nil => outer \in s[next] /\ outer # other
  <2>1. /\ inner # next /\ outer # next /\ other # scan
        /\ (other # Nil => other \in s[other])
        /\ (inner # Nil => inner \in s[inner]) /\ (outer # Nil => outer \in s[outer])
    BY <1>1, <1>10 DEF NodeHas, OnItsSide
  <2>2. next \in s[next]
    BY <1>9
  <2> QED
    BY <1>1, <1>9, <2>1, <2>2
<1> QED
  BY <1>2, <1>9, <1>10, <1>11

\* Order passes down through scan and next.
LEMMA OrderAcross ==
  ASSUME NEW t, NEW s, NEW dir \in Sides, NEW a \in Keys, NEW b \in Keys, NEW c, NEW e,
         OnItsSide(t, s, a, 1 - dir, b), b # Nil, b \in s[b],
         OnItsSide(t, s, a, dir, c), s[c] \subseteq Keys,
         s[e] \subseteq s[b]
  PROVE  /\ OnSide(dir, a, b) /\ \A m \in s[c] : OnSide(dir, m, b)
         /\ \A m \in s[e] : OnSide(1 - dir, m, a)
<1>1. a \in Nat /\ b \in Nat /\ s[c] \subseteq Nat
  BY KeysFinite
<1>2. OnSide(1 - dir, b, a) /\ \A m \in s[c] : OnSide(dir, m, a)
  BY DEF OnItsSide
<1>3. OnSide(dir, a, b)
  BY <1>1, <1>2, Opposite
<1>4. \A m \in s[c] : OnSide(dir, m, b)
  BY <1>1, <1>2, <1>3, Opposite
<1>5. \A m \in s[e] : OnSide(1 - dir, m, a)
  BY DEF OnItsSide
<1> QED
  BY <1>3, <1>4, <1>5

\* A single rotation keeps the order of the nodes and puts heights and balances
\* right.
LEMMA SingleRegrafts ==
  ASSUME NEW t, NEW s, NEW h, NEW scan, NEW dir, NEW p, NEW other, NEW next, NEW inner, NEW outer,
         Setting(t, s, h, scan, dir, p, other, next, inner, outer),
         h[inner] <= h[outer],
         NEW b1, NEW b2, b1 = Lean(dir, h[other], h[inner]), b2 = Lean(dir, 1 + h[inner], h[outer]),
         NEW u, RotatedOnce(t, u, scan, next, dir, p, inner, b1, b2)
  PROVE  \E s2, h2 : Regrafted(t, s, h, scan, u, s2, h2, next) /\ h2[next] = 2 + h[inner]
<1> DEFINE low == {scan} \cup s[other] \cup s[inner]
           s2  == [s EXCEPT ![scan] = low, ![next] = s[scan]]
           h2  == [h EXCEPT ![scan] = 1 + h[inner], ![next] = 2 + h[inner]]
           M   == {scan, next}
<1>1. /\ SearchTree(t, s) /\ scan \in s[t.root] /\ next \in s[t.root]
      /\ dir \in Sides /\ 1 - dir \in Sides /\ 1 - dir # dir /\ \A x \in Sides : x = dir \/ x = 1 - dir
      /\ t \in Trees /\ s \in [Pointers -> SUBSET Keys] /\ s[Nil] = {} /\ h \in [Pointers -> Nat]
      /\ h[next] = h[other] + 2
      /\ scan \in Pointers /\ next \in Pointers /\ Nil \notin Keys /\ next # Nil /\ scan # Nil
      /\ s[scan] \subseteq Keys /\ s[scan] \subseteq s[t.root] /\ Nil \notin s[scan]
      /\ p \notin s[scan] /\ p \in Pointers
  BY SettingFacts
<1>2. /\ scan \in Keys /\ next \in Keys /\ scan # next
      /\ other \in Pointers /\ inner \in Pointers /\ outer \in Pointers
      /\ h[other] \in Nat /\ h[inner] \in Nat /\ h[outer] \in Nat
      /\ h[next] = 1 + Higher(h[inner], h[outer])
      /\ s[scan] = {scan} \cup s[other] \cup s[next] /\ s[next] = {next} \cup s[inner] \cup s[outer]
      /\ OnItsSide(t, s, scan, dir, other) /\ OnItsSide(t, s, scan, 1 - dir, next)
      /\ OnItsSide(t, s, next, dir, inner) /\ OnItsSide(t, s, next, 1 - dir, outer)
      /\ other # scan /\ other # next /\ inner # scan /\ inner # next /\ outer # scan /\ outer # next
      /\ inner # Nil => inner # outer /\ inner \in s[next] /\ inner # other
      /\ outer # Nil => outer \in s[next] /\ outer # other
  BY ThreeSubtrees
<1>3. /\ p = t.parent[scan] /\ other = t.link[dir][scan] /\ next = t.link[1 - dir][scan]
      /\ inner = t.link[dir][next] /\ outer = t.link[1 - dir][next]
      /\ \A n \in s[t.root] \ {scan} : Weighed(t, h, n, LEFT, 0)
  BY Zenon DEF Setting, Leaning
<1>4. h[outer] = h[other] + 1 /\ h[inner] \in {h[other], h[outer]}
  <2>1. h[outer] = h[other] + 1
    BY <1>1, <1>2 DEF Higher
  <2>2. t.bal[next] \in -1 .. 1 /\ t.bal[next] = Lean(dir, h[inner], h[outer])
    BY <1>1, TreeFields, ThreeSubtrees
  <2> QED
    BY <1>2, <2>1, <2>2 DEF Lean
<1>5. /\ s2 \in [Pointers -> SUBSET Keys] /\ h2 \in [Pointers -> Nat]
      /\ s2[next] = s[scan] /\ s2[scan] = low /\ h2[next] = 2 + h[inner] /\ h2[scan] = 1 + h[inner]
      /\ \A m \in Pointers : m # scan /\ m # next => s2[m] = s[m] /\ h2[m] = h[m]
  <2>1. low \in SUBSET Keys /\ s[scan] \in SUBSET Keys
    BY <1>1, <1>2
  <2>2. 1 + h[inner] \in Nat /\ 2 + h[inner] \in Nat
    BY <1>2
  <2> HIDE DEF low
  <2> QED
    BY <1>1, <1>2, <2>1, <2>2
<1> HIDE DEF s2, h2
<1>6. /\ u \in Trees /\ u.root = IF p = Nil THEN next ELSE t.root
      /\ \A x \in Sides, m \in Pointers :
           u.link[x][m] = IF m = scan /\ x = 1 - dir THEN inner
                          ELSE IF m = next /\ x = dir THEN scan
                          ELSE IF p # Nil /\ m = p /\ x = Side(t.link[RIGHT][p] = scan) THEN next
                          ELSE t.link[x][m]
      /\ \A m \in Keys :
           /\ u.parent[m] = IF m = next THEN p ELSE IF m = scan THEN next
                            ELSE IF m = inner THEN scan ELSE t.parent[m]
           /\ u.bal[m] = IF m = scan THEN b1 ELSE IF m = next THEN b2 ELSE t.bal[m]
  BY DEF RotatedOnce
<1>7. scan \in s[scan] /\ next \in s[scan] /\ next \in s[next] /\ p # scan /\ p # next
  BY <1>1, <1>2
<1>8. u.link[dir][scan] = other /\ u.link[1 - dir][scan] = inner
      /\ u.link[dir][next] = scan /\ u.link[1 - dir][next] = outer
  <2>1. u.link[dir][scan] = t.link[dir][scan]
    BY <1>1, <1>2, <1>6, <1>7
  <2>2. u.link[1 - dir][scan] = inner
    BY <1>1, <1>6
  <2>3. u.link[dir][next] = scan
    BY <1>1, <1>2, <1>6
  <2>4. u.link[1 - dir][next] = t.link[1 - dir][next]
    BY <1>1, <1>2, <1>6, <1>7
  <2> QED
    BY Zenon, <1>3, <2>1, <2>2, <2>3, <2>4
<1>9. s[other] \subseteq Keys /\ s[inner] \subseteq Keys /\ s[inner] \subseteq s[next]
      /\ s2[other] = s[other] /\ h2[other] = h[other] /\ s2[inner] = s[inner] /\ h2[inner] = h[inner]
      /\ s2[outer] = s[outer] /\ h2[outer] = h[outer]
  BY <1>1, <1>2, <1>5
<1>10. /\ OnSide(dir, scan, next) /\ \A m \in s[other] : OnSide(dir, m, next)
       /\ \A m \in s[inner] : OnSide(1 - dir, m, scan)
  BY <1>1, <1>2, <1>7, <1>9, OrderAcross
<1>11. Placed(u, s2, scan) /\ Weighed(u, h2, scan, LEFT, 0)
  <2>1. OnItsSide(u, s2, scan, dir, other)
    <3>1. other # Nil => other \in s[other] /\ t.parent[other] = scan
      BY <1>2 DEF OnItsSide
    <3>2. other # Nil => u.parent[other] = t.parent[other]
      BY <1>2, <1>6 DEF Pointers
    <3> QED
      BY <1>2, <1>9, <3>1, <3>2 DEF OnItsSide
  <2>2. OnItsSide(u, s2, scan, 1 - dir, inner)
    <3>1. inner # Nil => inner \in s[inner]
      BY <1>2 DEF OnItsSide
    <3>2. inner # Nil => u.parent[inner] = scan
      BY <1>2, <1>6 DEF Pointers
    <3> QED
      BY <1>9, <1>10, <3>1, <3>2 DEF OnItsSide
  <2>3. h2[scan] = 1 + Higher(h2[other], h2[inner])
    BY <1>1, <1>2, <1>4, <1>5, <1>9 DEF Higher
  <2>4. u.bal[scan] = Lean(dir, h2[other], h2[inner])
    BY <1>2, <1>6, <1>9
  <2>5. s2[scan] = {scan} \cup s2[other] \cup s2[inner] /\ h2[other] \in Nat /\ h2[inner] \in Nat
    BY <1>2, <1>5, <1>9
  <2> QED
    BY <1>1, <1>8, <2>1, <2>2, <2>3, <2>4, <2>5, NodeIs
<1>12. Placed(u, s2, next) /\ Weighed(u, h2, next, LEFT, 0)
  <2>1. OnItsSide(u, s2, next, dir, scan)
    <3>1. u.parent[scan] = next
      BY <1>2, <1>6
    <3>2. \A m \in s[inner] : OnSide(dir, m, next)
      BY <1>2 DEF OnItsSide
    <3> QED
      BY <1>5, <1>10, <3>1, <3>2 DEF OnItsSide
  <2>2. OnItsSide(u, s2, next, 1 - dir, outer)
    <3>1. outer # Nil => outer \in s[outer] /\ t.parent[outer] = next
      BY <1>2 DEF OnItsSide
    <3>2. outer # Nil => u.parent[outer] = t.parent[outer]
      BY <1>2, <1>6 DEF Pointers
    <3> QED
      BY <1>2, <1>9, <3>1, <3>2 DEF OnItsSide
  <2>3. h2[next] = 1 + Higher(h2[scan], h2[outer])
    BY <1>1, <1>2, <1>4, <1>5, <1>9 DEF Higher
  <2>4. u.bal[next] = Lean(dir, h2[scan], h2[outer])
    BY <1>2, <1>5, <1>6, <1>9
  <2>5. s2[next] = {next} \cup s2[scan] \cup s2[outer] /\ h2[scan] \in Nat /\ h2[outer] \in Nat
    BY <1>2, <1>5, <1>9
  <2> QED
    BY <1>1, <1>8, <2>1, <2>2, <2>3, <2>4, <2>5, NodeIs
<1>13. \A m \in Keys \ M : /\ u.bal[m] = t.bal[m]
                           /\ u.parent[m] = t.parent[m] \/ (m \in s[scan] /\ t.parent[m] \in M)
  <2>1. inner # Nil => inner \in s[scan] /\ t.parent[inner] = next
    BY <1>2 DEF OnItsSide
  <2> QED
    BY <1>1, <1>6, <2>1
<1>14. \A m \in M : m # scan => t.parent[m] \in M
  BY <1>1, <1>2 DEF OnItsSide
<1>15. \A m \in Pointers \ M, x \in Sides :
         u.link[x][m] = IF p # Nil /\ m = p /\ x = Side(t.link[RIGHT][p] = scan)
                        THEN next ELSE t.link[x][m]
  BY <1>6
<1>16. u.parent[next] = p
  BY <1>2, <1>6
<1>17. Rearranged(t, s, h, scan, p, u, s2, h2, next, M)
  BY <1>5, <1>6, <1>7, <1>11, <1>12, <1>13, <1>14, <1>15, <1>16 DEF Rearranged
<1>18. Regrafted(t, s, h, scan, u, s2, h2, next)
  <2>1. /\ SearchTree(t, s) /\ scan \in s[t.root] /\ h \in [Pointers -> Nat]
        /\ \A n \in s[t.root] \ {scan} : Weighed(t, h, n, LEFT, 0)
        /\ p = t.parent[scan]
    BY Zenon, <1>1, <1>3
  <2> HIDE DEF M
  <2> QED
    BY Zenon, <2>1, <1>17, RearrangedRegrafts
<1> QED
  BY Zenon, <1>5, <1>18

\* The higher of two heights.
LEMMA HigherIs ==
  ASSUME NEW a \in Nat, NEW b \in Nat
  PROVE  Higher(a, b) \in Nat /\ a <= Higher(a, b) /\ b <= Higher(a, b) /\ Higher(a, b) \in {a, b}
BY DEF Higher

\* What is below the node that a double rotation brings up.
LEMMA BelowInner ==
  ASSUME NEW t, NEW s, NEW h, NEW scan, NEW dir, NEW p, NEW other, NEW next, NEW sub, NEW outer,
         Setting(t, s, h, scan, dir, p, other, next, sub, outer), sub # Nil,
         NEW near, NEW far, near = t.link[1 - dir][sub], far = t.link[dir][sub]
  PROVE  /\ sub \in Keys /\ sub \in s[t.root] /\ near \in Pointers /\ far \in Pointers
         /\ h[near] \in Nat /\ h[far] \in Nat /\ h[sub] = 1 + Higher(h[far], h[near])
         /\ t.bal[sub] = Lean(dir, h[far], h[near]) /\ t.parent[sub] = next
         /\ s[sub] = {sub} \cup s[far] \cup s[near] /\ s[far] \cap s[near] = {}
         /\ OnItsSide(t, s, sub, dir, far) /\ OnItsSide(t, s, sub, 1 - dir, near)
         /\ near # Nil => near \in s[near] /\ t.parent[near] = sub /\ near # far
                          /\ near \notin {scan, next, sub, other, outer} /\ near \in s[sub]
         /\ far # Nil => far \in s[far] /\ t.parent[far] = sub
                         /\ far \notin {scan, next, sub, other, outer} /\ far \in s[sub]
         /\ other \notin {scan, next, sub} /\ outer \notin {scan, next, sub}
         /\ sub \in s[sub] /\ s[sub] \subseteq s[next]
<1>1. /\ scan \in Keys /\ next \in Keys /\ scan # next
      /\ s[scan] = {scan} \cup s[other] \cup s[next] /\ s[next] = {next} \cup s[sub] \cup s[outer]
      /\ scan \notin s[other] /\ scan \notin s[next] /\ s[other] \cap s[next] = {}
      /\ next \notin s[sub] /\ next \notin s[outer] /\ s[sub] \cap s[outer] = {}
      /\ OnItsSide(t, s, scan, dir, other) /\ OnItsSide(t, s, next, dir, sub)
      /\ OnItsSide(t, s, next, 1 - dir, outer)
      /\ other # scan /\ other # next /\ outer # scan /\ outer # next /\ sub # other /\ sub # outer
  BY ThreeSubtrees
<1>2. /\ SearchTree(t, s) /\ dir \in Sides /\ h \in [Pointers -> Nat] /\ s[Nil] = {}
      /\ s \in [Pointers -> SUBSET Keys] /\ Nil \notin Keys /\ scan \in s[t.root]
      /\ NodeHas(t, s, h, next, dir, sub, outer)
      /\ \A n \in s[t.root] \ {scan} : Weighed(t, h, n, LEFT, 0)
  <2>1. \A n \in s[t.root] \ {scan} : Weighed(t, h, n, LEFT, 0)
    BY DEF Setting, Leaning
  <2> QED
    BY <2>1, SettingFacts
<1>3. sub \in s[t.root] /\ sub \in s[sub] /\ t.parent[sub] = next
  BY <1>1, <1>2 DEF NodeHas, OnItsSide
<1>4. NodeHas(t, s, h, sub, dir, far, near) /\ sub # scan
  BY <1>1, <1>2, <1>3, NodeFacts
<1>5. Weighed(t, h, sub, LEFT, 0)
  BY <1>2, <1>3, <1>4
<1>6. /\ sub \in Keys /\ near \in Pointers /\ far \in Pointers
      /\ h[near] \in Nat /\ h[far] \in Nat /\ h[sub] = 1 + Higher(h[far], h[near])
      /\ t.bal[sub] = Lean(dir, h[far], h[near])
      /\ s[sub] = {sub} \cup s[far] \cup s[near] /\ s[far] \cap s[near] = {}
      /\ sub \notin s[far] /\ sub \notin s[near]
      /\ OnItsSide(t, s, sub, dir, far) /\ OnItsSide(t, s, sub, 1 - dir, near)
      /\ near # Nil => near \in s[sub]
      /\ far # Nil => far \in s[sub]
  BY Zenon, <1>4, <1>5 DEF NodeHas
<1>7. /\ near # Nil => near \in s[near] /\ t.parent[near] = sub /\ near # far
      /\ far # Nil => far \in s[far] /\ t.parent[far] = sub
  BY Zenon, <1>4, <1>6 DEF OnItsSide, NodeHas
<1>8. /\ other # Nil => other \in s[other]
      /\ outer # Nil => outer \in s[outer]
  BY <1>1 DEF OnItsSide
<1>9. \A m \in s[sub] : m \notin {scan, next, other, outer}
  <2> SUFFICES ASSUME NEW m \in s[sub] PROVE m \notin {scan, next, other, outer}
    OBVIOUS
  <2>1. sub \in Pointers
    BY Zenon, <1>6, SideFacts
  <2>2. m \in s[next] /\ m # Nil
    BY <1>1, <1>2, <2>1
  <2>3. m # scan /\ m # next
    BY <1>1, <2>2
  <2>4. m # other /\ m # outer
    BY <1>1, <1>8, <2>2
  <2> QED
    BY <2>3, <2>4
<1> QED
  BY Zenon, <1>1, <1>3, <1>6, <1>7, <1>9

\* A double rotation keeps the order of the nodes and puts heights and balances
\* right.
LEMMA DoubleRegrafts ==
  ASSUME NEW t, NEW s, NEW h, NEW scan, NEW dir, NEW p, NEW other, NEW next, NEW sub, NEW outer,
         Setting(t, s, h, scan, dir, p, other, next, sub, outer),
         h[sub] = h[outer] + 1,
         NEW near, NEW far, near = t.link[1 - dir][sub], far = t.link[dir][sub],
         NEW b1, NEW b2, b1 = Lean(dir, h[other], h[far]), b2 = Lean(dir, h[near], h[outer]),
         NEW u, RotatedTwice(t, u, scan, next, sub, dir, p, near, far, b1, b2)
  PROVE  \E s2, h2 : Regrafted(t, s, h, scan, u, s2, h2, sub) /\ h2[sub] = h[next]
<1> DEFINE low == {scan} \cup s[other] \cup s[far]
           up  == {next} \cup s[near] \cup s[outer]
           s2  == [s EXCEPT ![scan] = low, ![next] = up, ![sub] = s[scan]]
           h2  == [h EXCEPT ![scan] = 1 + h[other], ![next] = 1 + h[other], ![sub] = 2 + h[other]]
           M   == {scan, next, sub}
<1>1. /\ SearchTree(t, s) /\ scan \in s[t.root] /\ next \in s[t.root]
      /\ dir \in Sides /\ 1 - dir \in Sides /\ 1 - dir # dir /\ \A x \in Sides : x = dir \/ x = 1 - dir
      /\ t \in Trees /\ s \in [Pointers -> SUBSET Keys] /\ s[Nil] = {} /\ h \in [Pointers -> Nat]
      /\ h[next] = h[other] + 2
      /\ scan \in Pointers /\ next \in Pointers /\ Nil \notin Keys /\ next # Nil /\ scan # Nil
      /\ s[scan] \subseteq Keys /\ s[scan] \subseteq s[t.root] /\ Nil \notin s[scan]
      /\ p \notin s[scan] /\ p \in Pointers
  BY SettingFacts
<1>2. /\ scan \in Keys /\ next \in Keys /\ scan # next
      /\ other \in Pointers /\ outer \in Pointers
      /\ h[other] \in Nat /\ h[outer] \in Nat /\ h[sub] \in Nat
      /\ h[next] = 1 + Higher(h[sub], h[outer])
      /\ s[scan] = {scan} \cup s[other] \cup s[next] /\ s[next] = {next} \cup s[sub] \cup s[outer]
      /\ OnItsSide(t, s, scan, dir, other) /\ OnItsSide(t, s, scan, 1 - dir, next)
      /\ OnItsSide(t, s, next, dir, sub) /\ OnItsSide(t, s, next, 1 - dir, outer)
      /\ sub # scan /\ sub # next
      /\ outer # Nil => outer # other
  BY ThreeSubtrees
<1>3. /\ p = t.parent[scan] /\ other = t.link[dir][scan] /\ next = t.link[1 - dir][scan]
      /\ sub = t.link[dir][next] /\ outer = t.link[1 - dir][next]
      /\ \A n \in s[t.root] \ {scan} : Weighed(t, h, n, LEFT, 0)
      /\ h[Nil] = 0
  BY Zenon DEF Setting, Leaning
<1>4. sub # Nil
  <2>1. h[sub] # 0
    BY <1>2
  <2> QED
    BY Zenon, <1>3, <2>1
<1>5. /\ sub \in Keys /\ sub \in s[t.root] /\ near \in Pointers /\ far \in Pointers
      /\ h[near] \in Nat /\ h[far] \in Nat /\ h[sub] = 1 + Higher(h[far], h[near])
      /\ t.bal[sub] = Lean(dir, h[far], h[near]) /\ t.parent[sub] = next
      /\ s[sub] = {sub} \cup s[far] \cup s[near]
      /\ OnItsSide(t, s, sub, dir, far) /\ OnItsSide(t, s, sub, 1 - dir, near)
      /\ near # Nil => near \in s[near] /\ t.parent[near] = sub /\ near # far
                       /\ near \notin {scan, next, sub, other, outer} /\ near \in s[sub]
      /\ far # Nil => far \in s[far] /\ t.parent[far] = sub
                      /\ far \notin {scan, next, sub, other, outer} /\ far \in s[sub]
      /\ other \notin {scan, next, sub} /\ outer \notin {scan, next, sub}
      /\ sub \in s[sub] /\ s[sub] \subseteq s[next]
  BY <1>4, BelowInner
<1>6. /\ h[outer] = h[other] /\ h[sub] = h[other] + 1 /\ Higher(h[far], h[near]) = h[other]
  <2>1. h[next] = h[other] + 2 /\ h[other] \in Nat /\ h[outer] \in Nat /\ h[sub] \in Nat
        /\ h[next] = 1 + Higher(h[sub], h[outer]) /\ h[sub] = h[outer] + 1
    BY Zenon, <1>1, <1>2
  <2>2. h[sub] = h[other] + 1 /\ h[outer] = h[other]
    <3>1. Higher(h[sub], h[outer]) = h[sub]
      BY <2>1 DEF Higher
    <3> QED
      BY <2>1, <3>1
  <2>3. Higher(h[far], h[near]) \in Nat /\ h[sub] = 1 + Higher(h[far], h[near])
    BY Zenon, <1>5, HigherIs
  <2> QED
    BY <2>1, <2>2, <2>3
<1>7. /\ h[far] \in Nat /\ h[near] \in Nat /\ h[far] <= h[other] /\ h[near] <= h[other]
      /\ h[far] = h[other] \/ h[near] = h[other]
  <2>1. h[far] \in Nat /\ h[near] \in Nat
    BY Zenon, <1>5
  <2>2. h[other] \in Nat /\ Higher(h[far], h[near]) = h[other]
    BY <1>2, <1>6
  <2> QED
    BY <2>1, <2>2 DEF Higher
<1>8. /\ s2 \in [Pointers -> SUBSET Keys] /\ h2 \in [Pointers -> Nat]
      /\ s2[sub] = s[scan] /\ s2[scan] = low /\ s2[next] = up
      /\ h2[sub] = 2 + h[other] /\ h2[scan] = 1 + h[other] /\ h2[next] = 1 + h[other]
      /\ \A m \in Pointers \ M : s2[m] = s[m] /\ h2[m] = h[m]
  <2>1. low \in SUBSET Keys /\ s[scan] \in SUBSET Keys /\ up \in SUBSET Keys
    BY Zenon, <1>1, <1>2, <1>5
  <2>2. 1 + h[other] \in Nat /\ 2 + h[other] \in Nat
    BY <1>2
  <2>3. scan \in Pointers /\ next \in Pointers /\ sub \in Pointers
        /\ scan # next /\ sub # scan /\ sub # next
    BY Zenon, <1>1, <1>2, <1>5, SideFacts
  <2>4. s \in [Pointers -> SUBSET Keys] /\ h \in [Pointers -> Nat]
    BY <1>1
  <2> HIDE DEF low, up
  <2> QED
    BY Zenon, <2>1, <2>2, <2>3, <2>4
<1> HIDE DEF s2, h2
<1>9. u \in Trees /\ u.root = IF p = Nil THEN sub ELSE t.root
  BY DEF RotatedTwice
<1>10. \A x \in Sides, m \in Pointers :
         u.link[x][m] = IF m = scan /\ x = 1 - dir THEN far
                        ELSE IF m = next /\ x = dir THEN near
                        ELSE IF m = sub THEN IF x = dir THEN scan ELSE next
                        ELSE IF p # Nil /\ m = p /\ x = Side(t.link[RIGHT][p] = scan) THEN sub
                        ELSE t.link[x][m]
  BY DEF RotatedTwice
<1>11. \A m \in Keys :
         u.parent[m] = IF m = sub THEN p ELSE IF m \in {scan, next} THEN sub
                       ELSE IF m = far THEN scan ELSE IF m = near THEN next
                       ELSE t.parent[m]
  BY DEF RotatedTwice
<1>12. \A m \in Keys : u.bal[m] = IF m = scan THEN b1 ELSE IF m = next THEN b2
                                  ELSE IF m = sub THEN 0 ELSE t.bal[m]
  BY DEF RotatedTwice
<1>13. scan \in s[scan] /\ next \in s[scan] /\ sub \in s[scan] /\ next \in s[next]
       /\ p # scan /\ p # next /\ p # sub
  BY Zenon, <1>1, <1>2, <1>5
<1>14. u.link[dir][scan] = other /\ u.link[1 - dir][scan] = far
       /\ u.link[dir][next] = near /\ u.link[1 - dir][next] = outer
       /\ u.link[dir][sub] = scan /\ u.link[1 - dir][sub] = next
  <2>1. /\ dir \in Sides /\ 1 - dir \in Sides /\ 1 - dir # dir
        /\ scan \in Pointers /\ next \in Pointers /\ sub \in Pointers
        /\ scan # next /\ sub # scan /\ sub # next /\ p # scan /\ p # next /\ p # sub
    BY Zenon, <1>1, <1>2, <1>5, <1>13, SideFacts
  <2>2. u.link[dir][scan] = t.link[dir][scan]
    BY <2>1, <1>10
  <2>3. u.link[1 - dir][scan] = far
    BY <2>1, <1>10
  <2>4. u.link[dir][next] = near
    BY <2>1, <1>10
  <2>5. u.link[1 - dir][next] = t.link[1 - dir][next]
    BY <2>1, <1>10
  <2>6. u.link[dir][sub] = scan
    BY <2>1, <1>10
  <2>7. u.link[1 - dir][sub] = next
    BY <2>1, <1>10
  <2> QED
    BY Zenon, <1>3, <2>2, <2>3, <2>4, <2>5, <2>6, <2>7
<1>15. /\ s2[other] = s[other] /\ h2[other] = h[other] /\ s2[outer] = s[outer] /\ h2[outer] = h[outer]
       /\ s2[near] = s[near] /\ h2[near] = h[near] /\ s2[far] = s[far] /\ h2[far] = h[far]
       /\ s[other] \subseteq Keys /\ s[far] \subseteq Keys /\ s[near] \subseteq Keys /\ s[outer] \subseteq Keys
       /\ s[far] \subseteq s[sub] /\ s[near] \subseteq s[sub] /\ s[sub] \subseteq s[next]
       /\ s[far] \subseteq s[next] /\ s[next] \subseteq Keys
  <2>1. near \notin M /\ far \notin M /\ other \notin M /\ outer \notin M
    BY Zenon, <1>1, <1>4, <1>5
  <2>2. near \in Pointers /\ far \in Pointers /\ other \in Pointers /\ outer \in Pointers
    BY Zenon, <1>2, <1>5
  <2>3. \A m \in Pointers \ M : s2[m] = s[m] /\ h2[m] = h[m]
    BY Zenon, <1>8
  <2>4. \A m \in Pointers : s[m] \subseteq Keys
    BY <1>1
  <2>5. s[sub] = {sub} \cup s[far] \cup s[near] /\ s[sub] \subseteq s[next] /\ next \in Pointers
    BY Zenon, <1>1, <1>5
  <2> HIDE DEF M
  <2>6. /\ s2[other] = s[other] /\ h2[other] = h[other] /\ s2[outer] = s[outer] /\ h2[outer] = h[outer]
        /\ s2[near] = s[near] /\ h2[near] = h[near] /\ s2[far] = s[far] /\ h2[far] = h[far]
    BY Zenon, <2>1, <2>2, <2>3
  <2>7. s[other] \subseteq Keys /\ s[far] \subseteq Keys /\ s[near] \subseteq Keys
        /\ s[outer] \subseteq Keys /\ s[next] \subseteq Keys
    BY Zenon, <2>2, <2>4, <2>5
  <2>8. s[far] \subseteq s[sub] /\ s[near] \subseteq s[sub] /\ s[far] \subseteq s[next]
    BY Zenon, <2>5
  <2> QED
    BY Zenon, <2>5, <2>6, <2>7, <2>8
<1>16. /\ OnSide(dir, scan, next) /\ \A m \in s[other] : OnSide(dir, m, next)
       /\ \A m \in s[far] : OnSide(1 - dir, m, scan)
       /\ OnSide(1 - dir, sub, scan)
  <2>1. OnSide(dir, scan, next) /\ (\A m \in s[other] : OnSide(dir, m, next))
         /\ \A m \in s[sub] : OnSide(1 - dir, m, scan)
    <3>1. /\ dir \in Sides /\ scan \in Keys /\ next \in Keys /\ next # Nil /\ next \in s[next]
          /\ OnItsSide(t, s, scan, 1 - dir, next) /\ OnItsSide(t, s, scan, dir, other)
      BY Zenon, <1>1, <1>2, <1>13
    <3>2. s[other] \subseteq Keys /\ s[sub] \subseteq s[next]
      BY Zenon, <1>15
    <3> QED
      BY Zenon, <3>1, <3>2, OrderAcross
  <2> QED
    BY Zenon, <1>5, <1>15, <2>1
<1>17. /\ OnSide(dir, scan, sub) /\ \A m \in s[other] : OnSide(dir, m, sub)
  <2>1. scan \in Nat /\ sub \in Nat /\ s[other] \subseteq Nat
    BY Zenon, <1>2, <1>5, <1>15, KeysFinite
  <2>2. OnSide(dir, scan, sub)
    BY Zenon, <1>1, <1>16, <2>1, Opposite
  <2>3. \A m \in s[other] : OnSide(dir, m, scan)
    BY <1>2 DEF OnItsSide
  <2> QED
    BY <1>1, <2>1, <2>2, <2>3, Opposite
<1>18. /\ OnSide(1 - dir, next, sub) /\ \A m \in s[outer] : OnSide(1 - dir, m, sub)
  <2>1. next \in Nat /\ sub \in Nat /\ s[outer] \subseteq Nat
    BY Zenon, <1>2, <1>5, <1>15, KeysFinite
  <2>2. OnSide(dir, sub, next) /\ \A m \in s[outer] : OnSide(1 - dir, m, next)
    BY Zenon, <1>5, <1>2 DEF OnItsSide
  <2>3. OnSide(1 - dir, next, sub)
    BY <1>1, <2>1, <2>2, Opposite
  <2> QED
    BY <1>1, <2>1, <2>2, <2>3, Opposite
<1>19. /\ dir \in Sides /\ u.link[dir][scan] = other /\ u.link[1 - dir][scan] = far
       /\ u.link[dir][next] = near /\ u.link[1 - dir][next] = outer
       /\ u.link[dir][sub] = scan /\ u.link[1 - dir][sub] = next
  BY Zenon, <1>1, <1>14
<1>20. Placed(u, s2, scan) /\ Weighed(u, h2, scan, LEFT, 0)
  <2>1. OnItsSide(u, s2, scan, dir, other)
    <3>1. other # Nil => other \in s[other] /\ t.parent[other] = scan
      BY <1>2 DEF OnItsSide
    <3>2. other # Nil => u.parent[other] = t.parent[other]
      <4>1. other # Nil => other \in Keys /\ other \notin {scan, next, sub, far, near}
        BY Zenon, <1>2, <1>5 DEF Pointers
      <4> QED
        BY <1>11, <4>1
    <3>3. \A m \in s[other] : OnSide(dir, m, scan)
      BY <1>2 DEF OnItsSide
    <3> QED
      BY Zenon, <1>15, <3>1, <3>2, <3>3 DEF OnItsSide
  <2>2. OnItsSide(u, s2, scan, 1 - dir, far)
    <3>1. far # Nil => far \in s[far] /\ u.parent[far] = scan
      <4>1. far # Nil => far \in Keys /\ far \notin {scan, next, sub} /\ far \in s[far]
        BY Zenon, <1>5 DEF Pointers
      <4> QED
        BY <1>11, <4>1
    <3> QED
      BY Zenon, <1>15, <1>16, <3>1 DEF OnItsSide
  <2>3. h2[scan] = 1 + Higher(h2[other], h2[far])
    <3>1. h[other] \in Nat
      BY <1>2
    <3>2. Higher(h[other], h[far]) = h[other]
      BY <1>7, <3>1 DEF Higher
    <3> QED
      BY Zenon, <1>8, <1>15, <3>2
  <2>4. u.bal[scan] = Lean(dir, h2[other], h2[far])
    <3>1. u.bal[scan] = b1 /\ h2[other] = h[other] /\ h2[far] = h[far]
      BY Zenon, <1>2, <1>12, <1>15
    <3> QED
      BY <3>1
  <2>5. s2[scan] = {scan} \cup s2[other] \cup s2[far] /\ h2[other] \in Nat /\ h2[far] \in Nat
    BY Zenon, <1>2, <1>5, <1>8, <1>15
  <2> QED
    BY Zenon, <1>19, <2>1, <2>2, <2>3, <2>4, <2>5, NodeIs
<1>21. Placed(u, s2, next) /\ Weighed(u, h2, next, LEFT, 0)
  <2>1. OnItsSide(u, s2, next, dir, near)
    <3>1. near # Nil => near \in s[near] /\ u.parent[near] = next
      <4>1. near # Nil => near \in Keys /\ near \notin {scan, next, sub, far} /\ near \in s[near]
        BY Zenon, <1>5 DEF Pointers
      <4> QED
        BY Zenon, <1>11, <4>1
    <3>2. \A m \in s[near] : OnSide(dir, m, next)
      BY Zenon, <1>2, <1>15 DEF OnItsSide
    <3> QED
      BY Zenon, <1>15, <3>1, <3>2 DEF OnItsSide
  <2>2. OnItsSide(u, s2, next, 1 - dir, outer)
    <3>1. outer # Nil => outer \in s[outer] /\ t.parent[outer] = next
      BY <1>2 DEF OnItsSide
    <3>2. outer # Nil => u.parent[outer] = t.parent[outer]
      <4>1. outer # Nil => outer \in Keys /\ outer \notin {scan, next, sub, far, near}
        BY Zenon, <1>2, <1>5 DEF Pointers
      <4> QED
        BY <1>11, <4>1
    <3>3. \A m \in s[outer] : OnSide(1 - dir, m, next)
      BY <1>2 DEF OnItsSide
    <3> QED
      BY Zenon, <1>15, <3>1, <3>2, <3>3 DEF OnItsSide
  <2>3. h2[next] = 1 + Higher(h2[near], h2[outer])
    <3>1. h[other] \in Nat /\ h[outer] = h[other]
      BY <1>2, <1>6
    <3>2. Higher(h[near], h[outer]) = h[other]
      BY <1>7, <3>1 DEF Higher
    <3> QED
      BY Zenon, <1>8, <1>15, <3>2
  <2>4. u.bal[next] = Lean(dir, h2[near], h2[outer])
    <3>1. u.bal[next] = b2 /\ h2[near] = h[near] /\ h2[outer] = h[outer]
      BY Zenon, <1>2, <1>12, <1>15
    <3> QED
      BY <3>1
  <2>5. s2[next] = {next} \cup s2[near] \cup s2[outer] /\ h2[near] \in Nat /\ h2[outer] \in Nat
    BY Zenon, <1>2, <1>5, <1>8, <1>15
  <2> QED
    BY Zenon, <1>19, <2>1, <2>2, <2>3, <2>4, <2>5, NodeIs
<1>22. Placed(u, s2, sub) /\ Weighed(u, h2, sub, LEFT, 0)
  <2>1. OnItsSide(u, s2, sub, dir, scan)
    <3>1. u.parent[scan] = sub
      BY <1>2, <1>11
    <3>2. \A m \in s[far] : OnSide(dir, m, sub)
      BY Zenon, <1>5 DEF OnItsSide
    <3> QED
      BY Zenon, <1>8, <1>17, <3>1, <3>2 DEF OnItsSide
  <2>2. OnItsSide(u, s2, sub, 1 - dir, next)
    <3>1. u.parent[next] = sub
      BY <1>2, <1>11
    <3>2. \A m \in s[near] : OnSide(1 - dir, m, sub)
      BY Zenon, <1>5 DEF OnItsSide
    <3> QED
      BY Zenon, <1>8, <1>18, <3>1, <3>2 DEF OnItsSide
  <2>3. h2[sub] = 1 + Higher(h2[scan], h2[next])
    <3>1. h[other] \in Nat
      BY <1>2
    <3>2. h2[scan] = 1 + h[other] /\ h2[next] = 1 + h[other] /\ h2[sub] = 2 + h[other]
      BY Zenon, <1>8
    <3> QED
      BY <3>1, <3>2 DEF Higher
  <2>4. u.bal[sub] = Lean(dir, h2[scan], h2[next])
    <3>1. h[other] \in Nat /\ h2[scan] = 1 + h[other] /\ h2[next] = 1 + h[other]
      BY Zenon, <1>2, <1>8
    <3>2. Lean(dir, h2[scan], h2[next]) = 0
      BY <3>1 DEF Lean
    <3>3. u.bal[sub] = 0
      BY Zenon, <1>2, <1>5, <1>12
    <3> QED
      BY <3>2, <3>3
  <2>5. h2[scan] \in Nat /\ h2[next] \in Nat
    BY Zenon, <1>1, <1>8
  <2>6. s2[sub] = {sub} \cup s2[scan] \cup s2[next]
    BY Zenon, <1>2, <1>5, <1>8
  <2> QED
    BY Zenon, <1>19, <2>1, <2>2, <2>3, <2>4, <2>5, <2>6, NodeIs
<1>23. \A m \in Keys \ M : /\ u.bal[m] = t.bal[m]
                           /\ u.parent[m] = t.parent[m] \/ (m \in s[scan] /\ t.parent[m] \in M)
  <2>1. s[sub] \subseteq s[scan]
    BY Zenon, <1>2, <1>5
  <2>2. /\ near # Nil => near \in s[scan] /\ t.parent[near] = sub
        /\ far # Nil => far \in s[scan] /\ t.parent[far] = sub
    BY Zenon, <1>5, <2>1
  <2> SUFFICES ASSUME NEW m \in Keys \ M
               PROVE  /\ u.bal[m] = t.bal[m]
                      /\ u.parent[m] = t.parent[m] \/ (m \in s[scan] /\ t.parent[m] \in M)
    OBVIOUS
  <2>3. m # Nil /\ m \in Keys /\ m # scan /\ m # next /\ m # sub
    BY <1>1
  <2>4. u.bal[m] = t.bal[m]
    BY <1>12, <2>3
  <2>5. m # far /\ m # near => u.parent[m] = t.parent[m]
    BY <1>11, <2>3
  <2> QED
    BY Zenon, <2>2, <2>3, <2>4, <2>5
<1>24. \A m \in M : m # scan => t.parent[m] \in M
  BY Zenon, <1>1, <1>2, <1>5 DEF OnItsSide
<1>25. \A m \in Pointers \ M, x \in Sides :
         u.link[x][m] = IF p # Nil /\ m = p /\ x = Side(t.link[RIGHT][p] = scan)
                        THEN sub ELSE t.link[x][m]
  BY <1>10
<1>26. u.parent[sub] = p
  BY Zenon, <1>5, <1>11
<1>27. Rearranged(t, s, h, scan, p, u, s2, h2, sub, M)
  BY Zenon, <1>8, <1>9, <1>13, <1>20, <1>21, <1>22, <1>23, <1>24, <1>25, <1>26 DEF Rearranged
<1>28. h2[sub] = h[next]
  <2>1. h[next] = h[other] + 2 /\ h2[sub] = 2 + h[other] /\ h[other] \in Nat
    BY Zenon, <1>1, <1>2, <1>8
  <2> QED
    BY <2>1
<1>29. Regrafted(t, s, h, scan, u, s2, h2, sub)
  <2>1. /\ SearchTree(t, s) /\ scan \in s[t.root] /\ h \in [Pointers -> Nat]
        /\ \A n \in s[t.root] \ {scan} : Weighed(t, h, n, LEFT, 0)
        /\ p = t.parent[scan]
    BY Zenon, <1>1, <1>3
  <2> HIDE DEF M
  <2> QED
    BY Zenon, <2>1, <1>27, RearrangedRegrafts
<1> QED
  BY Zenon, <1>28, <1>29

\* The signs of balances, which Rebalance decides by.
LEMMA LeanSigns ==
  ASSUME NEW dir \in Sides, NEW s, s = 1 - 2 * dir
  PROVE  /\ s \in -1 .. 1 /\ - s \in -1 .. 1 /\ 0 \in -1 .. 1 /\ s # 0 /\ s # - s /\ - s # 0
         /\ \A a, b \in Nat : Lean(dir, a, b) = s <=> b = a + 1
         /\ \A a, b \in Nat : Lean(dir, a, b) = - s <=> a = b + 1
         /\ \A a, b \in Nat : Lean(dir, a, b) = 0 <=> a = b
         /\ \A a, b \in Nat : Lean(dir, a, b) \in -1 .. 1 => b = a + 1 \/ a = b + 1 \/ a = b
<1>1. CASE dir = LEFT
  <2>1. s = 1 /\ - s = - 1
    BY <1>1 DEF LEFT
  <2>2. \A a, b \in Nat : Lean(dir, a, b) = b - a
    BY <1>1 DEF LEFT, RIGHT, Lean
  <2> QED
    BY <2>1, <2>2
<1>2. CASE dir = RIGHT
  <2>1. s = - 1 /\ - s = 1
    <3>1. s = 1 - 2 * 1
      BY <1>2 DEF RIGHT
    <3>2. s = - 1
      BY <3>1
    <3>3. - s = 1
      BY <3>2
    <3> QED
      BY <3>2, <3>3
  <2>2. \A a, b \in Nat : Lean(dir, a, b) = a - b
    BY <1>2 DEF Lean
  <2> QED
    BY <2>1, <2>2
<1> QED
  BY <1>1, <1>2, SideFacts

\* A rebalancing leaves scan's nodes in order and in balance; it takes one
\* from the height they had unless next was even.
LEMMA RebalanceRegrafts ==
  ASSUME NEW t, NEW s, NEW h, NEW scan, NEW dir, Leaning(t, s, h, scan, dir),
         NEW next, next = t.link[1 - dir][scan]
  PROVE  \E s2, h2, top :
           /\ Regrafted(t, s, h, scan, Rebalance(t, scan, dir), s2, h2, top)
           /\ h2[top] = IF t.bal[next] = 0 THEN h[next] + 1 ELSE h[next]
<1>0. PICK p, other, inner, outer :
        /\ p = t.parent[scan] /\ other = t.link[dir][scan]
        /\ inner = t.link[dir][next] /\ outer = t.link[1 - dir][next]
  OBVIOUS
<1>1. Setting(t, s, h, scan, dir, p, other, next, inner, outer)
  BY <1>0 DEF Setting
<1>2. /\ dir \in Sides /\ t \in Trees /\ h[next] = h[other] + 2
      /\ p \notin s[scan] /\ p \in Pointers
      /\ h[Nil] = 0
  BY <1>1, SettingFacts DEF Setting, Leaning
<1>3. /\ scan \in Keys /\ next \in Keys /\ scan # next /\ scan \in s[scan] /\ next \in s[scan]
      /\ inner \in Pointers /\ inner # scan /\ inner # next /\ next \in Pointers
      /\ h[other] \in Nat /\ h[inner] \in Nat /\ h[outer] \in Nat
      /\ h[next] = 1 + Higher(h[inner], h[outer]) /\ t.bal[next] = Lean(dir, h[inner], h[outer])
  <2>1. /\ scan \in Keys /\ next \in Keys /\ scan # next
        /\ inner \in Pointers /\ inner # scan /\ inner # next
        /\ h[other] \in Nat /\ h[inner] \in Nat /\ h[outer] \in Nat
        /\ h[next] = 1 + Higher(h[inner], h[outer]) /\ t.bal[next] = Lean(dir, h[inner], h[outer])
        /\ s[scan] = {scan} \cup s[other] \cup s[next] /\ s[next] = {next} \cup s[inner] \cup s[outer]
    BY <1>1, ThreeSubtrees
  <2> QED
    BY <2>1, SideFacts
<1>4. t.bal[next] \in -1 .. 1
  BY <1>2, <1>3, TreeFields
<1> DEFINE g == 1 - 2 * dir
<1>5. /\ g \in -1 .. 1 /\ - g \in -1 .. 1 /\ 0 \in -1 .. 1 /\ - g # 0
      /\ \A a, b \in Nat : Lean(dir, a, b) = g <=> b = a + 1
      /\ \A a, b \in Nat : Lean(dir, a, b) = - g <=> a = b + 1
      /\ \A a, b \in Nat : Lean(dir, a, b) = 0 <=> a = b
      /\ \A a, b \in Nat : Lean(dir, a, b) \in -1 .. 1 => b = a + 1 \/ a = b + 1 \/ a = b
  BY <1>2, LeanSigns
<1> HIDE DEF g
<1>6. CASE t.bal[next] = - g
  <2>1. PICK near, far, b1, b2, r, u :
          /\ near = t.link[1 - dir][inner] /\ far = t.link[dir][inner]
          /\ b1 = (IF t.bal[inner] = g THEN - g ELSE 0)
          /\ b2 = (IF t.bal[inner] = - g THEN g ELSE 0)
          /\ r = RotateDouble(t, scan, next, dir)
          /\ u = LinkParent(Balanced3(r, scan, next, inner, b1, b2), scan, inner, t.parent[scan])
    OBVIOUS
  <2>2. Rebalance(t, scan, dir) = u
    BY Zenon, <1>0, <1>6, <2>1 DEF Rebalance, Balanced3, g
  <2>3. h[inner] = h[outer] + 1
    <3>1. Lean(dir, h[inner], h[outer]) = - g /\ h[inner] \in Nat /\ h[outer] \in Nat
      BY <1>3, <1>6
    <3>2. \A a, b \in Nat : Lean(dir, a, b) = - g <=> a = b + 1
      BY <1>5
    <3> QED
      BY <3>1, <3>2
  <2>4. inner # Nil /\ inner \in Keys
    <3>1. h[inner] # 0
      BY <1>3, <2>3
    <3> QED
      BY <1>2, <1>3, <3>1 DEF Pointers
  <2>5. /\ h[near] \in Nat /\ h[far] \in Nat /\ h[inner] = 1 + Higher(h[far], h[near])
        /\ t.bal[inner] = Lean(dir, h[far], h[near]) /\ inner \in s[inner] /\ s[inner] \subseteq s[next]
    BY <1>1, <2>1, <2>4, BelowInner
  <2>6. t.bal[inner] \in -1 .. 1
    BY <1>2, <1>3, TreeFields
  <2>7. b1 \in -1 .. 1 /\ b2 \in -1 .. 1
    BY <1>5, <2>1
  <2>8. p \notin {scan, next, inner}
    <3>1. s[scan] = {scan} \cup s[other] \cup s[next]
      BY <1>1, ThreeSubtrees
    <3> QED
      BY <1>2, <1>3, <2>5, <3>1
  <2>9. RotatedTwice(t, u, scan, next, inner, dir, p, near, far, b1, b2)
    <3>1. RotatedTwice(t, LinkParent(Balanced3(r, scan, next, inner, b1, b2), scan, inner, t.parent[scan]),
                       scan, next, inner, dir, t.parent[scan],
                       t.link[1 - dir][inner], t.link[dir][inner], b1, b2)
      BY Zenon, <1>0, <1>2, <1>3, <2>1, <2>4, <2>7, <2>8, RotateTwiceIs
    <3> QED
      BY Zenon, <1>0, <2>1, <3>1
  <2>10. h[outer] = h[other] /\ Higher(h[far], h[near]) = h[other]
    <3>1. Higher(h[inner], h[outer]) = h[inner]
      BY <1>3, <2>3 DEF Higher
    <3>2. h[inner] = h[other] + 1
      BY <1>2, <1>3, <3>1
    <3>3. Higher(h[far], h[near]) \in Nat
      BY <2>5, HigherIs
    <3> QED
      BY <1>3, <2>3, <2>5, <3>2, <3>3
  <2>11. h[near] = h[far] + 1 \/ h[far] = h[near] + 1 \/ h[near] = h[far]
    BY <1>5, <2>5, <2>6
  <2>12. b1 = Lean(dir, h[other], h[far])
    <3>1. CASE h[near] = h[far] + 1
      <4>1. b1 = - g
        BY Zenon, <1>5, <2>1, <2>5, <3>1
      <4>2. h[other] = h[far] + 1
        BY <2>5, <2>10, <3>1 DEF Higher
      <4> QED
        BY <1>3, <1>5, <2>5, <4>1, <4>2
    <3>2. CASE h[near] # h[far] + 1
      <4>1. b1 = 0
        BY <1>5, <2>1, <2>5, <3>2
      <4>2. h[other] = h[far]
        BY <2>5, <2>10, <2>11, <3>2 DEF Higher
      <4> QED
        BY <1>3, <1>5, <2>5, <4>1, <4>2
    <3> QED
      BY <3>1, <3>2
  <2>13. b2 = Lean(dir, h[near], h[outer])
    <3>1. CASE h[far] = h[near] + 1
      <4>1. b2 = g
        BY <1>5, <2>1, <2>5, <3>1
      <4>2. h[outer] = h[near] + 1
        BY <2>5, <2>10, <3>1 DEF Higher
      <4> QED
        BY <1>3, <1>5, <2>5, <4>1, <4>2
    <3>2. CASE h[far] # h[near] + 1
      <4>1. b2 = 0
        BY <1>5, <2>1, <2>5, <3>2
      <4>2. h[outer] = h[near]
        BY <2>5, <2>10, <2>11, <3>2 DEF Higher
      <4> QED
        BY <1>3, <1>5, <2>5, <4>1, <4>2
    <3> QED
      BY <3>1, <3>2
  <2>14. \E s2, h2 : Regrafted(t, s, h, scan, u, s2, h2, inner) /\ h2[inner] = h[next]
    <3>1. near = t.link[1 - dir][inner] /\ far = t.link[dir][inner]
      BY <2>1
    <3> QED
      BY <1>1, <3>1, <2>3, <2>9, <2>12, <2>13, DoubleRegrafts
  <2> QED
    BY <1>5, <1>6, <2>2, <2>14
<1>7. CASE t.bal[next] # - g
  <2>1. PICK b1, b2, r, u :
          /\ b1 = (IF t.bal[next] = 0 THEN g ELSE 0)
          /\ b2 = (IF t.bal[next] = 0 THEN - g ELSE 0)
          /\ r = RotateSingle(t, scan, next, dir)
          /\ u = LinkParent(Balanced2(r, scan, next, b1, b2), scan, next, t.parent[scan])
    OBVIOUS
  <2>2. Rebalance(t, scan, dir) = u
    BY Zenon, <1>0, <1>7, <2>1 DEF Rebalance, Balanced2, g
  <2>3. b1 \in -1 .. 1 /\ b2 \in -1 .. 1
    BY <1>5, <2>1
  <2>4. p \notin {scan, next}
    BY <1>2, <1>3
  <2>5. RotatedOnce(t, u, scan, next, dir, p, inner, b1, b2)
    <3>1. RotatedOnce(t, LinkParent(Balanced2(r, scan, next, b1, b2), scan, next, t.parent[scan]),
                      scan, next, dir, t.parent[scan], t.link[dir][next], b1, b2)
      BY Zenon, <1>0, <1>2, <1>3, <2>1, <2>3, <2>4, RotateOnceIs
    <3> QED
      BY Zenon, <1>0, <2>1, <3>1
  <2>6. h[outer] = h[inner] + 1 \/ h[inner] = h[outer]
    BY <1>3, <1>4, <1>5, <1>7
  <2>7. h[outer] = h[other] + 1 /\ h[inner] <= h[outer] /\ h[next] = h[outer] + 1
    <3>1. Higher(h[inner], h[outer]) = h[outer]
      BY <1>3, <2>6 DEF Higher
    <3> QED
      BY <1>2, <1>3, <2>6, <3>1
  <2>8. b1 = Lean(dir, h[other], h[inner]) /\ b2 = Lean(dir, 1 + h[inner], h[outer])
    <3>1. CASE t.bal[next] = 0
      <4>1. h[inner] = h[outer]
        <5>1. Lean(dir, h[inner], h[outer]) = 0 /\ h[inner] \in Nat /\ h[outer] \in Nat
          BY <1>3, <3>1
        <5>2. \A a, b \in Nat : Lean(dir, a, b) = 0 <=> a = b
          BY <1>5
        <5> QED
          BY <5>1, <5>2
      <4>2. h[inner] = h[other] + 1 /\ 1 + h[inner] = h[outer] + 1 /\ 1 + h[inner] \in Nat
        BY <1>3, <2>7, <4>1
      <4> QED
        BY <1>3, <1>5, <2>1, <3>1, <4>2
    <3>2. CASE t.bal[next] # 0
      <4>1. h[inner] = h[other] /\ 1 + h[inner] = h[outer] /\ 1 + h[inner] \in Nat
        BY <1>3, <1>5, <2>6, <2>7, <3>2
      <4> QED
        BY <1>3, <1>5, <2>1, <3>2, <4>1
    <3> QED
      BY <3>1, <3>2
  <2>9. \E s2, h2 : Regrafted(t, s, h, scan, u, s2, h2, next) /\ h2[next] = 2 + h[inner]
    BY <1>1, <2>5, <2>7, <2>8, SingleRegrafts
  <2>10. 2 + h[inner] = IF t.bal[next] = 0 THEN h[next] + 1 ELSE h[next]
    BY <1>3, <1>5, <2>6, <2>7
  <2> QED
    BY <2>2, <2>9, <2>10
<1> QED
  BY <1>6, <1>7

-----------------------------------------------------------------------------
(* Climbing to the root *)

\* If nothing is pending it does not matter on which side.
LEMMA NothingPending ==
  ASSUME NEW t, NEW h, NEW n, NEW d \in Sides, NEW x \in Sides, Weighed(t, h, n, d, 0)
  PROVE  Weighed(t, h, n, x, 0)
BY DEF Weighed

\* t with one balance set.
BalancedAt(t, n, b) == [t EXCEPT !.bal[n] = b]

\* scan stays where it is and only its balance is set right.
LEMMA StayRegrafts ==
  ASSUME NEW t, NEW s, NEW h, NEW scan, NEW dir \in Sides, NEW delta \in Int,
         Pending(t, s, h, scan, dir, delta), scan \in s[t.root],
         NEW c, NEW e, c = t.link[dir][scan], e = t.link[1 - dir][scan],
         NEW b \in -1 .. 1, b = Lean(dir, h[c], h[e]),
         NEW u, u = BalancedAt(t, scan, b)
  PROVE  \E h2 : Regrafted(t, s, h, scan, u, s, h2, scan) /\ h2[scan] = 1 + Higher(h[c], h[e])
<1> DEFINE h2 == [h EXCEPT ![scan] = 1 + Higher(h[c], h[e])]
           p  == t.parent[scan]
           M  == {scan}
<1>1. /\ SearchTree(t, s) /\ t \in Trees /\ s \in [Pointers -> SUBSET Keys]
      /\ h \in [Pointers -> Nat]
      /\ \A n \in s[t.root] \ {scan} : Weighed(t, h, n, LEFT, 0)
  <2>1. \A n \in s[t.root] \ {scan} : Weighed(t, h, n, dir, 0)
    BY Zenon DEF Pending
  <2>2. \A n \in s[t.root] \ {scan} : Weighed(t, h, n, LEFT, 0)
    BY <2>1, NothingPending, SideFacts
  <2> QED
    BY Zenon, <2>2 DEF Pending, SearchTree
<1>2. NodeHas(t, s, h, scan, dir, c, e)
  BY <1>1, NodeFacts
<1>3. scan \in Keys /\ scan \in Pointers /\ h[c] \in Nat /\ h[e] \in Nat /\ scan \in s[scan]
      /\ c # scan /\ e # scan
  BY Zenon, <1>2, SideFacts DEF NodeHas
<1>4. BalanceSet(t, u, scan, b)
  BY <1>1, <1>3, SetBalanceIs DEF BalancedAt
<1>5. /\ u \in Trees /\ u.root = t.root /\ u.parent = t.parent /\ u.link = t.link
      /\ \A m \in Pointers : u.bal[m] = IF m = scan THEN b ELSE t.bal[m]
  BY Zenon, <1>4 DEF BalanceSet
<1>6. Higher(h[c], h[e]) \in Nat
  BY <1>3, HigherIs
<1>7. /\ h2 \in [Pointers -> Nat] /\ h2[scan] = 1 + Higher(h[c], h[e]) /\ h2[c] = h[c] /\ h2[e] = h[e]
      /\ \A m \in Pointers \ M : h2[m] = h[m]
  <2>1. 1 + Higher(h[c], h[e]) \in Nat /\ c \in Pointers /\ e \in Pointers
    <3>1. 1 + Higher(h[c], h[e]) \in Nat
      BY <1>6
    <3>2. c \in Pointers /\ e \in Pointers
      BY Zenon, <1>2 DEF NodeHas
    <3> QED
      BY Zenon, <3>1, <3>2
  <2> QED
    BY Zenon, <1>1, <1>3, <2>1
<1> HIDE DEF h2
<1>8. Placed(u, s, scan) /\ Weighed(u, h2, scan, LEFT, 0)
  <2>1. OnItsSide(u, s, scan, dir, c) /\ OnItsSide(u, s, scan, 1 - dir, e)
        /\ s[scan] = {scan} \cup s[c] \cup s[e]
    BY Zenon, <1>2, <1>5 DEF NodeHas, OnItsSide
  <2>2. u.link[dir][scan] = c /\ u.link[1 - dir][scan] = e
    BY Zenon, <1>5
  <2>3. h2[scan] = 1 + Higher(h2[c], h2[e]) /\ u.bal[scan] = Lean(dir, h2[c], h2[e])
        /\ h2[c] \in Nat /\ h2[e] \in Nat
    BY Zenon, <1>3, <1>5, <1>7
  <2> QED
    BY Zenon, <2>1, <2>2, <2>3, NodeIs
<1>9. IsChild(t, s, scan, p, Side(t.link[RIGHT][p] = scan))
  BY Zenon, <1>1, ParentLink
<1>10. \A m \in Pointers \ M, x \in Sides :
         u.link[x][m] = IF p # Nil /\ m = p /\ x = Side(t.link[RIGHT][p] = scan)
                        THEN scan ELSE t.link[x][m]
  BY Zenon, <1>5, <1>9 DEF IsChild
<1>11. u.root = IF p = Nil THEN scan ELSE t.root
  BY Zenon, <1>5, <1>9 DEF IsChild
<1>12. /\ \A m \in Keys \ M : u.bal[m] = t.bal[m] /\ u.parent[m] = t.parent[m]
       /\ u.parent[scan] = p
  BY Zenon, <1>5, SideFacts
<1>13. Rearranged(t, s, h, scan, p, u, s, h2, scan, M)
  BY Zenon, <1>1, <1>3, <1>5, <1>7, <1>8, <1>10, <1>11, <1>12 DEF Rearranged
<1> QED
  <2>1. Regrafted(t, s, h, scan, u, s, h2, scan)
    <3>1. /\ SearchTree(t, s) /\ h \in [Pointers -> Nat]
          /\ \A n \in s[t.root] \ {scan} : Weighed(t, h, n, LEFT, 0)
      BY Zenon, <1>1
    <3> HIDE DEF M
    <3> QED
      BY Zenon, <1>13, <3>1, RearrangedRegrafts
  <2> QED
    BY Zenon, <1>7, <2>1

\* x is the side of p on which LinkParent finds scan.
ChildSide(t, p, scan, x) == p # Nil => x = Side(t.link[RIGHT][p] = scan)

\* What a turn of a climb that ends with u at z leaves of the tree.
Climbed(t, s, scan, u, s2, h2, top, z, x, delta) ==
  /\ Pending(u, s2, h2, z, x, delta) /\ s2[u.root] = s[t.root]
  /\ z # Nil => /\ z \in s[t.root] /\ z \notin s[scan] /\ s[scan] \subseteq s2[z]
                /\ u.link[x][z] = top
  /\ \A n \in Pointers \ s[t.root], d \in Sides : u.link[d][n] = t.link[d][n]

\* After a turn a climb either ends, if the subtree is as high as before, or
\* stands at the parent.
LEMMA ClimbGoesOn ==
  ASSUME NEW t, NEW s, NEW h, NEW scan, NEW dir \in Sides, NEW delta0, NEW delta,
         Pending(t, s, h, scan, dir, delta0), scan \in s[t.root],
         NEW u, NEW s2, NEW h2, NEW top, Regrafted(t, s, h, scan, u, s2, h2, top),
         NEW p, p = t.parent[scan], NEW z, NEW x \in Sides,
         \/ z = Nil /\ h2[top] = h[scan]
         \/ z = p /\ h2[top] - h[scan] = delta /\ ChildSide(t, p, scan, x)
  PROVE  Climbed(t, s, scan, u, s2, h2, top, z, x, delta)
<1>1. /\ SearchTree(t, s) /\ t \in Trees /\ s \in [Pointers -> SUBSET Keys]
      /\ h \in [Pointers -> Nat] /\ h[Nil] = 0
      /\ \A n \in s[t.root] \ s[scan] : Weighed(t, h, n, LEFT, 0)
  <2>1. scan \in s[scan]
    BY Links DEF Pending
  <2>2. \A n \in s[t.root] \ s[scan] : Weighed(t, h, n, dir, 0)
    BY <2>1 DEF Pending
  <2>3. \A n \in s[t.root] \ s[scan] : Weighed(t, h, n, LEFT, 0)
    BY <2>2, NothingPending, SideFacts
  <2> QED
    BY <2>3 DEF Pending, SearchTree
<1> DEFINE y == Side(t.link[RIGHT][p] = scan)
<1>2. Pending(u, s2, h2, p, y, h2[top] - h[scan]) /\ s2[u.root] = s[t.root]
  BY <1>1, Regraft
<1>3. IsChild(t, s, scan, p, y)
  BY <1>1, ParentLink
<1>4. y \in Sides /\ s[scan] \subseteq s[t.root] /\ s[t.root] \subseteq Keys /\ scan \in Keys /\ Nil \notin Keys
  BY Zenon, <1>1, <1>3, SubtreesClosed, KeysFinite, TreeFields DEF IsChild
<1> HIDE DEF y
<1>5. Pending(u, s2, h2, z, x, delta)
  <2>1. \A n \in s[t.root] : n # Nil
    BY <1>4
  <2>2. \A n \in s2[u.root] : Weighed(u, h2, n, y, IF n = p THEN h2[top] - h[scan] ELSE 0)
    BY <1>2 DEF Pending
  <2>3. \A n \in s2[u.root] : Weighed(u, h2, n, x, IF n = z THEN delta ELSE 0)
    <3>1. CASE z = Nil /\ h2[top] = h[scan]
      <4>1. h[scan] - h[scan] = 0
        BY <1>1, <1>4, SideFacts
      <4>2. \A n \in s2[u.root] : Weighed(u, h2, n, y, 0)
        BY <2>2, <3>1, <4>1
      <4>3. \A n \in s2[u.root] : Weighed(u, h2, n, x, 0)
        BY <1>4, <4>2, NothingPending
      <4> QED
        BY <1>2, <2>1, <3>1, <4>3
    <3>2. CASE z = p /\ h2[top] - h[scan] = delta /\ (p # Nil => x = y)
      <4>1. CASE p = Nil
        <5>1. \A n \in s2[u.root] : Weighed(u, h2, n, y, 0)
          BY <1>2, <2>1, <2>2, <4>1
        <5>2. \A n \in s2[u.root] : Weighed(u, h2, n, x, 0)
          BY <1>4, <5>1, NothingPending
        <5> QED
          BY <1>2, <2>1, <3>2, <4>1, <5>2
      <4>2. CASE p # Nil
        BY <2>2, <3>2, <4>2
      <4> QED
        BY <4>1, <4>2
    <3> QED
      BY <3>1, <3>2 DEF y, ChildSide
  <2> QED
    BY <1>2, <2>3 DEF Pending
<1>6. ASSUME z # Nil
      PROVE  z \in s[t.root] /\ z \notin s[scan] /\ s[scan] \subseteq s2[z] /\ u.link[x][z] = top
  <2>1. z = p /\ x = y
    BY <1>6 DEF y, ChildSide
  <2>2. p \in s[t.root] /\ p \notin s[scan] /\ s[scan] \subseteq s[p] /\ t.link[y][p] = scan
    BY <1>3, <1>6, <2>1 DEF IsChild
  <2>3. p \in Pointers
    BY <1>4, <2>2, SideFacts
  <2>4. s2[p] = s[p]
    BY <2>2, <2>3 DEF Regrafted
  <2>5. u.link[y][p] = top
    BY <1>4, <1>6, <2>1, <2>2, <2>3 DEF Regrafted
  <2> QED
    BY <2>1, <2>2, <2>4, <2>5
<1>7. ASSUME NEW n \in Pointers \ s[t.root], NEW d \in Sides
      PROVE  u.link[d][n] = t.link[d][n]
  <2>1. n \notin s[scan] /\ (p # Nil => n # p)
    BY <1>3, <1>4, <1>7 DEF IsChild
  <2> QED
    BY <2>1 DEF Regrafted
<1> QED
  BY <1>2, <1>5, <1>6, <1>7 DEF Climbed

\* The arithmetic of a climb: a and b are the heights on side dir and on the
\* other, and bal0 does not reckon with the last change on side dir.
GrowsTo(dir, a, b, bal) ==
  /\ bal = Lean(dir, a, b) /\ (bal \in {2, -2} <=> a = b + 2)
  /\ bal \notin {2, -2} => bal \in -1 .. 1
  /\ bal = 0 => Higher(a, b) = Higher(a - 1, b)
  /\ bal \in {1, -1} => Higher(a, b) = Higher(a - 1, b) + 1
  /\ bal \in {2, -2} => Higher(a - 1, b) = a - 1

\* How the balance counts when side dir has grown.
LEMMA GrowthLeans ==
  ASSUME NEW dir \in Sides, NEW a \in Nat, NEW b \in Nat, NEW bal0 \in -1 .. 1,
         bal0 = Lean(dir, a - 1, b), NEW bal, bal = (dir * 2 - 1) + bal0
  PROVE  GrowsTo(dir, a, b, bal)
<1>1. CASE dir = LEFT
  <2>1. bal = bal0 - 1 /\ Lean(dir, a - 1, b) = b - (a - 1) /\ Lean(dir, a, b) = b - a
    BY <1>1 DEF LEFT, RIGHT, Lean
  <2> QED
    BY <2>1 DEF Higher, GrowsTo
<1>2. CASE dir = RIGHT
  <2>1. bal = bal0 + 1 /\ Lean(dir, a - 1, b) = (a - 1) - b /\ Lean(dir, a, b) = a - b
    BY <1>2 DEF RIGHT, Lean
  <2> QED
    BY <2>1 DEF Higher, GrowsTo
<1> QED
  BY <1>1, <1>2, SideFacts

\* The same for a side that has lost height.
ShrinksTo(dir, a, b, bal) ==
  /\ bal = Lean(dir, a, b) /\ (bal \in {2, -2} <=> b = a + 2)
  /\ bal \notin {2, -2} => bal \in -1 .. 1
  /\ bal = 0 => Higher(a, b) = Higher(a + 1, b) - 1
  /\ bal \in {1, -1} => Higher(a, b) = Higher(a + 1, b)
  /\ bal \in {2, -2} => Higher(a + 1, b) = b

\* How the balance counts when side dir has lost height.
LEMMA ShrinkingLeans ==
  ASSUME NEW dir \in Sides, NEW a \in Nat, NEW b \in Nat, NEW bal0 \in -1 .. 1,
         bal0 = Lean(dir, a + 1, b), NEW bal, bal = bal0 - (dir * 2 - 1)
  PROVE  ShrinksTo(dir, a, b, bal)
<1>1. CASE dir = LEFT
  <2>1. bal = bal0 + 1 /\ Lean(dir, a + 1, b) = b - (a + 1) /\ Lean(dir, a, b) = b - a
    BY <1>1 DEF LEFT, RIGHT, Lean
  <2> QED
    BY <2>1 DEF Higher, ShrinksTo
<1>2. CASE dir = RIGHT
  <2>1. bal = bal0 - 1 /\ Lean(dir, a + 1, b) = (a + 1) - b /\ Lean(dir, a, b) = a - b
    BY <1>2 DEF RIGHT, Lean
  <2> QED
    BY <2>1 DEF Higher, ShrinksTo
<1> QED
  BY <1>1, <1>2, SideFacts

\* What is known of scan before its turn.
Facing(t, s, h, scan, dir, delta, c, e) ==
  /\ SearchTree(t, s) /\ t \in Trees /\ scan \in Keys /\ scan \in Pointers
  /\ h \in [Pointers -> Nat] /\ h[Nil] = 0
  /\ c \in Pointers /\ e \in Pointers
  /\ h[scan] \in Nat /\ h[c] \in Nat /\ h[e] \in Nat /\ t.bal[scan] \in -1 .. 1
  /\ h[scan] = 1 + Higher(h[c] - delta, h[e]) /\ t.bal[scan] = Lean(dir, h[c] - delta, h[e])
  /\ \A n \in s[t.root] \ {scan} : Weighed(t, h, n, LEFT, 0)
  /\ scan \in s[scan] /\ s \in [Pointers -> SUBSET Keys]

\* What a pending change says of the node it is pending at.
LEMMA FacingFacts ==
  ASSUME NEW t, NEW s, NEW h, NEW scan, NEW dir \in Sides, NEW delta \in Int,
         Pending(t, s, h, scan, dir, delta), scan \in s[t.root]
  PROVE  Facing(t, s, h, scan, dir, delta, t.link[dir][scan], t.link[1 - dir][scan])
<1> DEFINE c == t.link[dir][scan]
           e == t.link[1 - dir][scan]
<1>1. /\ SearchTree(t, s) /\ t \in Trees /\ h \in [Pointers -> Nat] /\ h[Nil] = 0
      /\ s \in [Pointers -> SUBSET Keys]
      /\ Weighed(t, h, scan, dir, delta)
      /\ \A n \in s[t.root] \ {scan} : Weighed(t, h, n, dir, 0)
  BY DEF Pending, SearchTree
<1>2. \A n \in s[t.root] \ {scan} : Weighed(t, h, n, LEFT, 0)
  BY <1>1, NothingPending, SideFacts
<1>3. NodeHas(t, s, h, scan, dir, c, e)
  BY <1>1, NodeFacts
<1>4. scan \in Keys /\ scan \in Pointers /\ c \in Pointers /\ e \in Pointers /\ scan \in s[scan]
  BY Zenon, <1>3, SideFacts DEF NodeHas
<1>5. \A d \in Sides : h[t.link[d][scan]] \in Nat
  BY <1>1, <1>4, TreeFields
<1>6. h[scan] = 1 + Higher(h[c] - delta, h[e]) /\ t.bal[scan] = Lean(dir, h[c] - delta, h[e])
  BY <1>1, <1>5, WeighedEither
<1>7. h[scan] \in Nat /\ h[c] \in Nat /\ h[e] \in Nat /\ t.bal[scan] \in -1 .. 1
  BY <1>1, <1>4, TreeFields
<1> HIDE DEF c, e
<1> QED
  BY Zenon, <1>1, <1>2, <1>4, <1>6, <1>7 DEF Facing, c, e

\* A climb through growth arrives from a side that is not even, unless it is
\* the new leaf.
Fresh(t, h, scan, dir) == t.bal[t.link[dir][scan]] # 0 \/ h[t.link[dir][scan]] = 1

\* One turn of AddNode's climb, with or without a rotation.
LEMMA GrowthTurn ==
  ASSUME NEW t, NEW s, NEW h, NEW scan, NEW dir \in Sides,
         Pending(t, s, h, scan, dir, 1), scan \in s[t.root], Fresh(t, h, scan, dir),
         NEW y, y = GrownOnce(t, scan, dir)
  PROVE  \E s2, h2, top :
           /\ Climbed(t, s, scan, y.t, s2, h2, top, y.scan, y.dir, 1)
           /\ y.scan # Nil => Fresh(y.t, h2, y.scan, y.dir)
<1>0. PICK p, bal, c, e, x :
        /\ p = t.parent[scan] /\ bal = (dir * 2 - 1) + t.bal[scan]
        /\ c = t.link[dir][scan] /\ e = t.link[1 - dir][scan]
        /\ x = Side(t.link[RIGHT][p] = scan)
  OBVIOUS
<1>1. Facing(t, s, h, scan, dir, 1, c, e)
  BY <1>0, FacingFacts
<1>2. /\ h[scan] \in Nat /\ h[c] \in Nat /\ h[e] \in Nat /\ t.bal[scan] \in -1 .. 1
      /\ h[scan] = 1 + Higher(h[c] - 1, h[e]) /\ t.bal[scan] = Lean(dir, h[c] - 1, h[e])
      /\ c \in Pointers
  BY <1>1 DEF Facing
<1>3. /\ bal = Lean(dir, h[c], h[e]) /\ (bal \in {2, -2} <=> h[c] = h[e] + 2)
      /\ bal \notin {2, -2} => bal \in -1 .. 1
      /\ bal = 0 => Higher(h[c], h[e]) = Higher(h[c] - 1, h[e])
      /\ bal \in {1, -1} => Higher(h[c], h[e]) = Higher(h[c] - 1, h[e]) + 1
      /\ bal \in {2, -2} => Higher(h[c] - 1, h[e]) = h[c] - 1
  <2>1. bal = (dir * 2 - 1) + t.bal[scan]
    BY <1>0
  <2>2. GrowsTo(dir, h[c], h[e], bal)
    BY <1>2, <2>1, GrowthLeans
  <2> QED
    BY <2>2 DEF GrowsTo
<1>4. x \in Sides /\ 1 - dir \in Sides /\ 1 - (1 - dir) = dir
  BY <1>0, Opposite DEF Side, Sides
<1>5. CASE bal \in {2, -2}
  <2>1. y.t = Rebalance(t, scan, 1 - dir) /\ y.scan = Nil /\ y.dir = dir
    BY <1>0, <1>5 DEF GrownOnce, At
  <2>2. Leaning(t, s, h, scan, 1 - dir)
    BY Zenon, <1>0, <1>1, <1>3, <1>4, <1>5 DEF Leaning, Facing
  <2>3. PICK s2, h2, top :
          /\ Regrafted(t, s, h, scan, Rebalance(t, scan, 1 - dir), s2, h2, top)
          /\ h2[top] = IF t.bal[c] = 0 THEN h[c] + 1 ELSE h[c]
    BY <1>0, <1>4, <2>2, RebalanceRegrafts
  <2>4. h[c] # 1
    BY <1>2, <1>3, <1>5
  <2>5. h2[top] = h[scan]
    <3>1. h2[top] = h[c]
      BY <1>0, <2>3, <2>4 DEF Fresh
    <3>2. h[scan] = h[c]
      BY <1>2, <1>3, <1>5
    <3> QED
      BY <3>1, <3>2
  <2>6. Climbed(t, s, scan, y.t, s2, h2, top, y.scan, y.dir, 1)
    BY <1>0, <2>1, <2>3, <2>5, ClimbGoesOn
  <2> QED
    BY <2>1, <2>6
<1>6. CASE bal \notin {2, -2}
  <2>1. /\ y.t = BalancedAt(t, scan, bal) /\ y.scan = (IF bal = 0 THEN Nil ELSE p) /\ y.dir = x
    BY <1>0, <1>6 DEF GrownOnce, At, BalancedAt
  <2>2. PICK h2 : /\ Regrafted(t, s, h, scan, y.t, s, h2, scan)
                  /\ h2[scan] = 1 + Higher(h[c], h[e])
    <3>1. c = t.link[dir][scan] /\ e = t.link[1 - dir][scan] /\ bal \in -1 .. 1 /\ bal = Lean(dir, h[c], h[e])
      BY Zenon, <1>0, <1>3, <1>6
    <3>2. 1 \in Int
      OBVIOUS
    <3>3. y.t = BalancedAt(t, scan, bal)
      BY <2>1
    <3> QED
      BY <3>1, <3>2, <3>3, StayRegrafts
  <2>3. Higher(h[c], h[e]) \in Nat /\ Higher(h[c] - 1, h[e]) \in Int
    BY <1>2, HigherIs DEF Higher
  <2>4. CASE bal = 0
    <3>1. h2[scan] = h[scan]
      BY <1>2, <1>3, <2>2, <2>4
    <3>2. Climbed(t, s, scan, y.t, s, h2, scan, y.scan, y.dir, 1)
      BY Zenon, <1>0, <1>4, <2>1, <2>2, <2>4, <3>1, ClimbGoesOn
    <3> QED
      BY <2>1, <2>4, <3>2
  <2>5. CASE bal # 0
    <3>1. bal \in {1, -1}
      BY <1>3, <1>6, <2>5
    <3>2. h2[scan] - h[scan] = 1
      BY <1>2, <1>3, <2>2, <2>3, <3>1
    <3>3. Climbed(t, s, scan, y.t, s, h2, scan, y.scan, y.dir, 1)
      <4>1. p = t.parent[scan] /\ y.scan = p /\ y.dir \in Sides
            /\ ChildSide(t, p, scan, y.dir)
        BY <1>0, <1>4, <2>1, <2>5 DEF ChildSide
      <4> QED
        BY <2>2, <3>2, <4>1, ClimbGoesOn
    <3>4. y.t.bal[scan] = bal
      BY <1>1, <2>1 DEF Facing, Trees, BalancedAt
    <3>5. y.scan # Nil => y.t.link[y.dir][y.scan] = scan
      BY <3>3 DEF Climbed
    <3> QED
      BY Zenon, <2>5, <3>3, <3>4, <3>5 DEF Fresh
  <2> QED
    BY <2>4, <2>5
<1> QED
  BY <1>5, <1>6

\* The change of height that a removal passes up.
OneLess(delta) == delta = -1

\* A turn of RemNode's climb that ends it.
LEMMA ShrinkStops ==
  ASSUME NEW t, NEW s, NEW h, NEW scan, NEW dir \in Sides, NEW delta \in Int,
         Pending(t, s, h, scan, dir, delta), scan \in s[t.root],
         NEW u, NEW s2, NEW h2, NEW top, Regrafted(t, s, h, scan, u, s2, h2, top),
         NEW z, NEW x \in Sides,
         z = Nil, h2[top] = h[scan]
  PROVE  \E s3, h3, top3 : Climbed(t, s, scan, u, s3, h3, top3, z, x, delta)
<1>1. Climbed(t, s, scan, u, s2, h2, top, z, x, delta)
  BY ClimbGoesOn
<1> QED
  BY <1>1

\* The subtree has changed its height by delta.
Loses(h2, top, h, scan, delta) == h2[top] - h[scan] = delta

\* A turn of RemNode's climb that goes on to the parent.
LEMMA ShrinkGoesOn ==
  ASSUME NEW t, NEW s, NEW h, NEW scan, NEW dir \in Sides, NEW delta \in Int,
         Pending(t, s, h, scan, dir, delta), scan \in s[t.root],
         NEW u, NEW s2, NEW h2, NEW top, Regrafted(t, s, h, scan, u, s2, h2, top),
         NEW p, p = t.parent[scan], NEW z, NEW x \in Sides,
         ChildSide(t, p, scan, x),
         z = p, Loses(h2, top, h, scan, delta)
  PROVE  \E s3, h3, top3 : Climbed(t, s, scan, u, s3, h3, top3, z, x, delta)
<1>1. Climbed(t, s, scan, u, s2, h2, top, z, x, delta)
  BY ClimbGoesOn DEF Loses
<1> QED
  BY <1>1

\* One turn of RemNode's climb, with or without a rotation.
LEMMA ShrinkingTurn ==
  ASSUME NEW t, NEW s, NEW h, NEW scan, NEW dir \in Sides, NEW delta \in Int, OneLess(delta),
         Pending(t, s, h, scan, dir, delta), scan \in s[t.root],
         NEW y, y = ShrunkOnce(t, scan, dir)
  PROVE  \E s2, h2, top : Climbed(t, s, scan, y.t, s2, h2, top, y.scan, y.dir, delta)
<1>0. PICK p, bal, c, e, x, even :
        /\ p = t.parent[scan] /\ bal = t.bal[scan] - (dir * 2 - 1)
        /\ c = t.link[dir][scan] /\ e = t.link[1 - dir][scan]
        /\ x = Side(p # Nil /\ t.link[RIGHT][p] = scan)
        /\ even = (t.bal[e] = 0)
  OBVIOUS
<1>1. Facing(t, s, h, scan, dir, delta, c, e)
  BY <1>0, FacingFacts
<1>2. /\ h[scan] \in Nat /\ h[c] \in Nat /\ h[e] \in Nat /\ t.bal[scan] \in -1 .. 1
      /\ h[scan] = 1 + Higher(h[c] + 1, h[e]) /\ t.bal[scan] = Lean(dir, h[c] + 1, h[e])
  <2>1. /\ h[scan] \in Nat /\ h[c] \in Nat /\ h[e] \in Nat /\ t.bal[scan] \in -1 .. 1
        /\ h[scan] = 1 + Higher(h[c] - delta, h[e]) /\ t.bal[scan] = Lean(dir, h[c] - delta, h[e])
    BY <1>1 DEF Facing
  <2>2. h[c] - delta = h[c] + 1
    BY <2>1 DEF OneLess
  <2> QED
    BY <2>1, <2>2
<1>3. /\ bal = Lean(dir, h[c], h[e]) /\ (bal \in {2, -2} <=> h[e] = h[c] + 2)
      /\ bal \notin {2, -2} => bal \in -1 .. 1
      /\ bal = 0 => Higher(h[c], h[e]) = Higher(h[c] + 1, h[e]) - 1
      /\ bal \in {1, -1} => Higher(h[c], h[e]) = Higher(h[c] + 1, h[e])
      /\ bal \in {2, -2} => Higher(h[c] + 1, h[e]) = h[e]
  <2>1. bal = t.bal[scan] - (dir * 2 - 1)
    BY <1>0
  <2>2. ShrinksTo(dir, h[c], h[e], bal)
    BY <1>2, <2>1, ShrinkingLeans
  <2> QED
    BY <2>2 DEF ShrinksTo
<1>4. x \in Sides /\ (p # Nil => x = Side(t.link[RIGHT][p] = scan))
  BY <1>0 DEF Side, Sides
<1>5. /\ y.t = IF bal \in {2, -2} THEN Rebalance(t, scan, dir) ELSE BalancedAt(t, scan, bal)
      /\ y.scan = IF bal \in {1, -1} \/ (bal # 0 /\ even) THEN Nil ELSE p
      /\ y.dir = x
  BY <1>0 DEF ShrunkOnce, At, BalancedAt
<1>8. p = t.parent[scan] /\ y.dir \in Sides /\ ChildSide(t, p, scan, y.dir)
  BY Zenon, <1>0, <1>4, <1>5 DEF ChildSide
<1>6. CASE bal \in {2, -2}
  <2>1. Leaning(t, s, h, scan, dir)
    BY Zenon, <1>0, <1>1, <1>3, <1>6 DEF Leaning, Facing
  <2>2. PICK s2, h2, top :
          /\ Regrafted(t, s, h, scan, Rebalance(t, scan, dir), s2, h2, top)
          /\ h2[top] = IF t.bal[e] = 0 THEN h[e] + 1 ELSE h[e]
    BY <1>0, <2>1, RebalanceRegrafts
  <2>3. h[scan] = 1 + h[e]
    BY <1>2, <1>3, <1>6
  <2>4. bal \notin {1, -1} /\ bal # 0
    BY <1>6
  <2>5. CASE even
    <3>1. y.scan = Nil
      BY <1>5, <2>4, <2>5
    <3>2. h2[top] = h[scan]
      <4>1. h2[top] = h[e] + 1
        BY <1>0, <2>2, <2>5
      <4> QED
        BY <1>2, <2>3, <4>1
    <3>3. Regrafted(t, s, h, scan, y.t, s2, h2, top)
      BY <1>5, <1>6, <2>2
    <3> QED
      BY Zenon, <1>8, <3>1, <3>2, <3>3, ShrinkStops
  <2>6. CASE ~ even
    <3>1. Loses(h2, top, h, scan, delta)
      <4>1. h2[top] = h[e]
        BY <1>0, <2>2, <2>6
      <4> QED
        BY <1>2, <2>3, <4>1 DEF OneLess, Loses
    <3>2. y.scan = p
      BY <1>5, <2>4, <2>6
    <3>3. Regrafted(t, s, h, scan, y.t, s2, h2, top)
      BY <1>5, <1>6, <2>2
    <3> QED
      BY <1>8, <3>1, <3>2, <3>3, ShrinkGoesOn
  <2> QED
    BY <2>5, <2>6
<1>7. CASE bal \notin {2, -2}
  <2>1. y.t = BalancedAt(t, scan, bal)
    BY <1>5, <1>7
  <2>2. PICK h2 : /\ Regrafted(t, s, h, scan, y.t, s, h2, scan)
                  /\ h2[scan] = 1 + Higher(h[c], h[e])
    <3>1. c = t.link[dir][scan] /\ e = t.link[1 - dir][scan] /\ bal \in -1 .. 1 /\ bal = Lean(dir, h[c], h[e])
      BY Zenon, <1>0, <1>3, <1>7
    <3>3. y.t = BalancedAt(t, scan, bal)
      BY <2>1
    <3> QED
      BY <3>1, <3>3, StayRegrafts
  <2>3. Higher(h[c], h[e]) \in Nat /\ Higher(h[c] + 1, h[e]) \in Int
    BY <1>2, HigherIs DEF Higher
  <2>4. CASE bal \in {1, -1}
    <3>1. h2[scan] = h[scan]
      BY <1>2, <1>3, <2>2, <2>4
    <3>2. y.scan = Nil
      BY <1>5, <2>4
    <3> QED
      BY <1>8, <2>2, <3>1, <3>2, ShrinkStops
  <2>5. CASE bal = 0
    <3>1. Loses(h2, scan, h, scan, delta)
      BY <1>2, <1>3, <2>2, <2>3, <2>5 DEF OneLess, Loses
    <3>2. y.scan = p
      BY <1>5, <2>5
    <3> QED
      BY <1>8, <2>2, <3>1, <3>2, ShrinkGoesOn
  <2>6. bal = 0 \/ bal \in {1, -1}
    BY <1>3, <1>7
  <2> QED
    BY <2>4, <2>5, <2>6
<1> QED
  BY <1>6, <1>7

\* Rebalance makes a tree record of a tree record, whatever the links are.
LEMMA RebalanceTyped ==
  ASSUME NEW t \in Trees, NEW scan \in Pointers, NEW dir \in Sides
  PROVE  Rebalance(t, scan, dir) \in Trees
<1>1. PICK next, parent, sub, g, even :
        /\ next = t.link[1 - dir][scan] /\ parent = t.parent[scan] /\ sub = t.link[dir][next]
        /\ g = 1 - 2 * dir /\ even = (t.bal[next] = 0)
  OBVIOUS
<1>2. next \in Pointers /\ parent \in Pointers /\ sub \in Pointers /\ 1 - dir \in Sides
  BY <1>1, TreeFields, Opposite
<1>3. g \in -1 .. 1 /\ - g \in -1 .. 1 /\ 0 \in -1 .. 1
  BY <1>1, LeanSigns
<1>4. \A v \in Trees, d \in Sides, p, n \in Pointers : Attach(v, p, d, n) \in Trees
  BY AttachIs DEF Attached
<1>5. RotateSingle(t, scan, next, dir) \in Trees
  <2>1. t.link[dir][next] \in Pointers
    BY <1>2, TreeFields
  <2>2. Attach(t, scan, 1 - dir, t.link[dir][next]) \in Trees
    BY <1>2, <1>4, <2>1
  <2> QED
    BY <1>2, <1>4, <2>2 DEF RotateSingle
<1>6. RotateDouble(t, scan, next, dir) \in Trees
  <2> DEFINE t1 == Attach(t, next, dir, t.link[1 - dir][sub])
             t2 == Attach(t1, scan, 1 - dir, t.link[dir][sub])
             t3 == Attach(t2, sub, 1 - dir, next)
  <2>1. t.link[dir][sub] \in Pointers /\ t.link[1 - dir][sub] \in Pointers
    BY <1>2, TreeFields
  <2>2. t1 \in Trees
    BY <1>2, <1>4, <2>1
  <2>3. RotateDouble(t, scan, next, dir) = Attach(t3, sub, dir, scan)
    BY <1>1 DEF RotateDouble
  <2> HIDE DEF t1
  <2>4. t2 \in Trees
    BY <1>2, <1>4, <2>1, <2>2
  <2> HIDE DEF t2
  <2>5. t3 \in Trees
    BY <1>2, <1>4, <2>4
  <2> HIDE DEF t3
  <2> QED
    BY <1>2, <1>4, <2>3, <2>5
<1>7. \A v \in Trees, n, p \in Pointers : LinkParent(v, scan, n, p) \in Trees
  BY LinkParentIs DEF Replaced
<1>8. \A v \in Trees, n \in Pointers, b \in -1 .. 1 : BalancedAt(v, n, b) \in Trees
  BY SetBalanceIs DEF BalanceSet, BalancedAt
<1>9. \A v \in Trees, n, m \in Pointers, b, c \in -1 .. 1 : Balanced2(v, n, m, b, c) \in Trees
  <2> SUFFICES ASSUME NEW v \in Trees, NEW n \in Pointers, NEW m \in Pointers,
                      NEW b \in -1 .. 1, NEW c \in -1 .. 1
               PROVE  Balanced2(v, n, m, b, c) \in Trees
    OBVIOUS
  <2>1. Balanced2(v, n, m, b, c) = BalancedAt(BalancedAt(v, n, b), m, c)
    BY DEF Balanced2, BalancedAt
  <2> QED
    BY <1>8, <2>1
<1>10. \A v \in Trees, n, m, k \in Pointers, b, c \in -1 .. 1 : Balanced3(v, n, m, k, b, c) \in Trees
  <2> SUFFICES ASSUME NEW v \in Trees, NEW n \in Pointers, NEW m \in Pointers, NEW k \in Pointers,
                      NEW b \in -1 .. 1, NEW c \in -1 .. 1
               PROVE  Balanced3(v, n, m, k, b, c) \in Trees
    OBVIOUS
  <2>1. Balanced3(v, n, m, k, b, c) = BalancedAt(Balanced2(v, n, m, b, c), k, 0)
    BY DEF Balanced3, Balanced2, BalancedAt
  <2>2. Balanced2(v, n, m, b, c) \in Trees
    BY Zenon, <1>9
  <2> QED
    BY <1>3, <1>8, <2>1, <2>2
<1>11. CASE t.bal[next] = - g
  <2>1. PICK b1, b2 :
          /\ b1 = (IF t.bal[sub] = g THEN - g ELSE 0)
          /\ b2 = (IF t.bal[sub] = - g THEN g ELSE 0)
    OBVIOUS
  <2>2. Rebalance(t, scan, dir)
        = LinkParent(Balanced3(RotateDouble(t, scan, next, dir), scan, next, sub, b1, b2), scan, sub, parent)
    BY <1>1, <1>11, <2>1 DEF Rebalance, Balanced3
  <2>3. b1 \in -1 .. 1 /\ b2 \in -1 .. 1
    BY <1>3, <2>1
  <2>4. Balanced3(RotateDouble(t, scan, next, dir), scan, next, sub, b1, b2) \in Trees
    BY <1>2, <1>6, <1>10, <2>3
  <2> QED
    BY <1>2, <1>7, <2>2, <2>4
<1>12. CASE t.bal[next] # - g
  <2>1. PICK b1, b2 :
          /\ b1 = (IF t.bal[next] = 0 THEN g ELSE 0)
          /\ b2 = (IF t.bal[next] = 0 THEN - g ELSE 0)
    OBVIOUS
  <2>2. Rebalance(t, scan, dir)
        = LinkParent(Balanced2(RotateSingle(t, scan, next, dir), scan, next, b1, b2), scan, next, parent)
    BY <1>1, <1>12, <2>1 DEF Rebalance, Balanced2
  <2>3. b1 \in -1 .. 1 /\ b2 \in -1 .. 1
    BY <1>3, <2>1
  <2>4. Balanced2(RotateSingle(t, scan, next, dir), scan, next, b1, b2) \in Trees
    BY <1>2, <1>5, <1>9, <2>3
  <2> QED
    BY <1>2, <1>7, <2>2, <2>4
<1> QED
  BY <1>11, <1>12

\* Side answers a side.
LEMMA SideTyped == \A b : Side(b) \in Sides
BY DEF Side, Sides

\* A balance moves by one, out of range by one at most.
LEMMA BalanceSteps ==
  ASSUME NEW dir \in Sides, NEW b \in -1 .. 1
  PROVE  /\ (dir * 2 - 1) + b \in {2, -2} \/ (dir * 2 - 1) + b \in -1 .. 1
         /\ b - (dir * 2 - 1) \in {2, -2} \/ b - (dir * 2 - 1) \in -1 .. 1
<1>1. CASE dir = LEFT
  BY <1>1 DEF LEFT
<1>2. CASE dir = RIGHT
  BY <1>2 DEF RIGHT
<1> QED
  BY <1>1, <1>2, SideFacts

\* A turn of a climb makes a climb of a climb, whatever the links are.
LEMMA TurnsTyped ==
  ASSUME NEW t \in Trees, NEW scan \in Pointers, NEW dir \in Sides
  PROVE  GrownOnce(t, scan, dir) \in Climbs /\ ShrunkOnce(t, scan, dir) \in Climbs
<1>1. \A v \in Trees, n \in Pointers, x \in Sides : At(v, n, x) \in Climbs
  BY DEF At, Climbs, Sides
<1>2. t.parent[scan] \in Pointers /\ t.bal[scan] \in -1 .. 1 /\ Nil \in Pointers
  BY TreeFields, SideFacts
<1>3. 1 - dir \in Sides
  BY Opposite
<1>4. Rebalance(t, scan, dir) \in Trees /\ Rebalance(t, scan, 1 - dir) \in Trees
  BY <1>3, RebalanceTyped
<1>5. \A b \in -1 .. 1 : BalancedAt(t, scan, b) \in Trees
  BY SetBalanceIs DEF BalanceSet, BalancedAt
<1>6. GrownOnce(t, scan, dir) \in Climbs
  <2> DEFINE bal == (dir * 2 - 1) + t.bal[scan]
             x   == Side(t.link[RIGHT][t.parent[scan]] = scan)
  <2>1. bal \in {2, -2} \/ bal \in -1 .. 1
    BY <1>2, BalanceSteps
  <2>2. GrownOnce(t, scan, dir) =
          IF bal \in {2, -2} THEN At(Rebalance(t, scan, 1 - dir), Nil, dir)
          ELSE At(BalancedAt(t, scan, bal), IF bal = 0 THEN Nil ELSE t.parent[scan], x)
    BY DEF GrownOnce, BalancedAt
  <2>3. x \in Sides
    BY SideTyped
  <2> HIDE DEF bal, x
  <2>4. CASE bal \in {2, -2}
    BY <1>1, <1>2, <1>4, <2>2, <2>4
  <2>5. CASE bal \notin {2, -2}
    <3>1. BalancedAt(t, scan, bal) \in Trees
      BY <1>5, <2>1, <2>5
    <3> QED
      BY <1>1, <1>2, <2>2, <2>3, <2>5, <3>1
  <2> QED
    BY <2>4, <2>5
<1>7. ShrunkOnce(t, scan, dir) \in Climbs
  <2>1. PICK bal, x, even, v :
          /\ bal = t.bal[scan] - (dir * 2 - 1)
          /\ x = Side(t.parent[scan] # Nil /\ t.link[RIGHT][t.parent[scan]] = scan)
          /\ even = (t.bal[t.link[1 - dir][scan]] = 0)
          /\ v = IF bal \in {2, -2} THEN Rebalance(t, scan, dir) ELSE BalancedAt(t, scan, bal)
    OBVIOUS
  <2>2. bal \in {2, -2} \/ bal \in -1 .. 1
    BY <1>2, <2>1, BalanceSteps
  <2>3. ShrunkOnce(t, scan, dir) =
          At(v, IF bal \in {1, -1} \/ (bal # 0 /\ even) THEN Nil ELSE t.parent[scan], x)
    BY <2>1 DEF ShrunkOnce, BalancedAt
  <2>4. x \in Sides
    BY <2>1, SideTyped
  <2>5. v \in Trees
    BY <1>4, <1>5, <2>1, <2>2
  <2> QED
    BY <1>1, <1>2, <2>3, <2>4, <2>5
<1> QED
  BY <1>6, <1>7

\* A tree with nothing pending.
Sound(t, s, h) == Pending(t, s, h, Nil, LEFT, 0)

\* u holds the nodes of t, and differs in no links but theirs.
SameNodes(t, s, u, s2) ==
  /\ s2[u.root] = s[t.root]
  /\ \A n \in Pointers \ s[t.root], d \in Sides : u.link[d][n] = t.link[d][n]

\* Where a climb through changes of delta may stand.
Climbing(delta, t, s, h, scan, dir) ==
  /\ Pending(t, s, h, scan, dir, delta)
  /\ scan # Nil => scan \in s[t.root] /\ (delta = 1 => Fresh(t, h, scan, dir))

\* A climb whose turns keep Climbing and go up ends with a sound tree.
LEMMA ClimbArrives ==
  ASSUME NEW delta, NEW next \in [Climbs -> Climbs],
         \A y \in Climbs : y.scan = Nil => next[y] = y,
         \A y \in Climbs : \A s, h : y.scan # Nil /\ Climbing(delta, y.t, s, h, y.scan, y.dir) =>
           \E s2, h2, top :
             /\ Climbed(y.t, s, y.scan, next[y].t, s2, h2, top, next[y].scan, next[y].dir, delta)
             /\ Climbing(delta, next[y].t, s2, h2, next[y].scan, next[y].dir),
         NEW x \in Climbs, NEW s0, NEW h0, Climbing(delta, x.t, s0, h0, x.scan, x.dir)
  PROVE  \E s, h : Sound(Loop(next, x).t, s, h) /\ SameNodes(x.t, s0, Loop(next, x).t, s)
<1> DEFINE N == s0[x.t.root]
           Stands(y, s, h, k) ==
             /\ Climbing(delta, y.t, s, h, y.scan, y.dir) /\ SameNodes(x.t, s0, y.t, s)
             /\ y.scan # Nil => k = 1 + Cardinality(N) - Cardinality(s[y.scan])
           X == [k \in Nat |-> {y \in Climbs : \E s, h : Stands(y, s, h, k)}]
<1>1. ASSUME NEW y \in Climbs, NEW s, NEW h, Climbing(delta, y.t, s, h, y.scan, y.dir)
      PROVE  /\ SearchTree(y.t, s) /\ s[y.t.root] \subseteq Keys /\ Nil \notin Keys
             /\ y.scan # Nil => y.scan \in s[y.scan] /\ s[y.scan] \subseteq s[y.t.root]
  <2>1. SearchTree(y.t, s)
    BY <1>1 DEF Climbing, Pending
  <2>2. y.scan # Nil => y.scan \in s[y.t.root]
    BY <1>1 DEF Climbing
  <2>3. s[y.t.root] \subseteq Keys
    BY <2>1, TreeFields DEF SearchTree
  <2> QED
    BY <2>1, <2>2, <2>3, Links, SubtreesClosed, KeysFinite
<1>2. N \subseteq Keys /\ IsFiniteSet(N) /\ Cardinality(N) \in Nat
  <2>1. N \subseteq Keys
    BY <1>1
  <2> QED
    BY <2>1, SizeIsNat
<1>3. X \in [Nat -> SUBSET Climbs]
  OBVIOUS
<1>4. ASSUME NEW k \in Nat, NEW y \in X[k]
      PROVE  next[y] = y \/ \E j \in 0 .. k - 1 : next[y] \in X[j]
  <2>1. PICK s, h : Stands(y, s, h, k)
    OBVIOUS
  <2>2. y \in Climbs
    OBVIOUS
  <2>3. CASE y.scan = Nil
    BY <2>2, <2>3
  <2>4. CASE y.scan # Nil
    <3>1. PICK s2, h2, top :
             /\ Climbed(y.t, s, y.scan, next[y].t, s2, h2, top, next[y].scan, next[y].dir, delta)
             /\ Climbing(delta, next[y].t, s2, h2, next[y].scan, next[y].dir)
      BY <2>1, <2>2, <2>4
    <3> DEFINE z == next[y]
    <3>2. z \in Climbs
      BY <2>2
    <3>3. s[y.t.root] = N /\ y.scan \in s[y.scan] /\ s[y.scan] \subseteq N
      BY <1>1, <2>1, <2>2, <2>4 DEF SameNodes
    <3>4. SameNodes(x.t, s0, z.t, s2)
      <4>1. /\ s2[z.t.root] = N
            /\ \A n \in Pointers \ N, d \in Sides : z.t.link[d][n] = y.t.link[d][n]
        BY <3>1, <3>3 DEF Climbed
      <4>2. \A n \in Pointers \ N, d \in Sides : y.t.link[d][n] = x.t.link[d][n]
        BY <2>1 DEF SameNodes
      <4> QED
        BY <4>1, <4>2 DEF SameNodes
    <3>5. k = 1 + Cardinality(N) - Cardinality(s[y.scan])
      BY <2>1, <2>4
    <3>6. Cardinality(s[y.scan]) \in Nat /\ Cardinality(s[y.scan]) <= Cardinality(N)
      BY <1>2, <3>3, FS_Subset, FS_CardinalityType
    <3>7. CASE z.scan = Nil
      <4>1. Stands(z, s2, h2, 0)
        BY <3>1, <3>4, <3>7
      <4>2. z \in X[0]
        BY <3>2, <4>1
      <4>3. 0 \in 0 .. k - 1
        BY <1>2, <3>5, <3>6
      <4> HIDE DEF X
      <4> QED
        BY <4>2, <4>3
    <3>8. CASE z.scan # Nil
      <4>1. z.scan \in s2[z.scan] /\ s2[z.scan] \subseteq N
        BY <1>1, <3>1, <3>2, <3>4, <3>8 DEF SameNodes
      <4>2. s[y.scan] \subseteq s2[z.scan] /\ z.scan \notin s[y.scan]
        BY <3>1, <3>8 DEF Climbed
      <4>3. /\ Cardinality(s2[z.scan]) \in Nat /\ Cardinality(s[y.scan]) < Cardinality(s2[z.scan])
            /\ Cardinality(s2[z.scan]) <= Cardinality(N)
        <5>1. s2[z.scan] \in SUBSET Keys
          BY <1>2, <4>1
        <5>2. Cardinality(s2[z.scan]) \in Nat /\ Cardinality(s[y.scan]) < Cardinality(s2[z.scan])
          BY <4>1, <4>2, <5>1, Smaller
        <5>3. Cardinality(s2[z.scan]) <= Cardinality(N)
          BY <1>2, <4>1, FS_Subset
        <5> QED
          BY <5>2, <5>3
      <4> DEFINE j == 1 + Cardinality(N) - Cardinality(s2[z.scan])
      <4>4. j \in 0 .. k - 1 /\ j \in Nat
        BY <1>2, <3>5, <3>6, <4>3
      <4>5. Stands(z, s2, h2, j)
        BY <3>1, <3>4
      <4>6. z \in X[j]
        BY <3>2, <4>4, <4>5
      <4> HIDE DEF X, j
      <4> QED
        BY <4>4, <4>6
    <3> QED
      BY <3>7, <3>8
  <2> QED
    BY <2>3, <2>4
<1>5. \E k \in Nat : x \in X[k]
  <2>1. SameNodes(x.t, s0, x.t, s0)
    BY DEF SameNodes
  <2>2. CASE x.scan = Nil
    <3>1. Stands(x, s0, h0, 0)
      BY <2>1, <2>2
    <3> QED
      BY <3>1
  <2>3. CASE x.scan # Nil
    <3> DEFINE j == 1 + Cardinality(N) - Cardinality(s0[x.scan])
    <3>1. Stands(x, s0, h0, j)
      BY <2>1
    <3>2. s0[x.scan] \subseteq N
      BY <1>1, <2>3
    <3>3. Cardinality(s0[x.scan]) \in Nat /\ Cardinality(s0[x.scan]) <= Cardinality(N)
      BY <1>2, <3>2, FS_Subset, FS_CardinalityType
    <3>4. j \in Nat
      BY <1>2, <3>3
    <3> QED
      BY <3>1, <3>4
  <2> QED
    BY <2>2, <2>3
<1> DEFINE L == Loop(next, x)
<1>6. (\E k \in Nat : L \in X[k]) /\ next[L] = L
  <2> HIDE DEF X
  <2> QED
    BY <1>3, <1>4, <1>5, LoopEnds
<1>7. PICK k \in Nat : \E s, h : L \in Climbs /\ Stands(L, s, h, k)
  BY <1>6
<1>8. PICK s, h : L \in Climbs /\ Stands(L, s, h, k)
  BY <1>7
<1> HIDE DEF L
<1>9. L.scan = Nil
  <2> SUFFICES ASSUME L.scan # Nil PROVE FALSE
    OBVIOUS
  <2>1. PICK s2, h2, top :
          Climbed(L.t, s, L.scan, next[L].t, s2, h2, top, next[L].scan, next[L].dir, delta)
    BY <1>8
  <2>2. L.scan \in s[L.scan]
    BY <1>1, <1>8
  <2> QED
    BY <1>6, <2>1, <2>2 DEF Climbed
<1>10. Sound(L.t, s, h)
  <2>1. Pending(L.t, s, h, Nil, L.dir, delta) /\ L.dir \in Sides
    BY <1>8, <1>9 DEF Climbing, Climbs, Sides
  <2>2. \A n \in s[L.t.root] : n # Nil
    BY <1>1, <1>8
  <2>3. \A n \in s[L.t.root] : Weighed(L.t, h, n, L.dir, 0)
    BY <2>1, <2>2 DEF Pending
  <2>4. \A n \in s[L.t.root] : Weighed(L.t, h, n, LEFT, 0)
    BY <2>1, <2>3, NothingPending, SideFacts
  <2> QED
    BY <2>1, <2>4 DEF Sound, Pending
<1> QED
  BY <1>8, <1>10 DEF L

\* AddNode's climb ends, with every height and balance right again.
LEMMA GrownIs ==
  ASSUME NEW t, NEW s, NEW h, NEW scan \in Pointers, NEW dir \in Sides,
         Climbing(1, t, s, h, scan, dir)
  PROVE  \E s2, h2 : Sound(Grown(t, scan, dir), s2, h2) /\ SameNodes(t, s, Grown(t, scan, dir), s2)
<1> DEFINE next == [y \in Climbs |-> IF y.scan = Nil THEN y ELSE GrownOnce(y.t, y.scan, y.dir)]
           x == At(t, scan, dir)
<1>1. t \in Trees
  BY DEF Climbing, Pending, SearchTree
<1>2. x \in Climbs /\ x.t = t /\ x.scan = scan /\ x.dir = dir
  BY <1>1 DEF At, Climbs, Sides
<1>3. next \in [Climbs -> Climbs]
  <2>1. \A y \in Climbs : y.t \in Trees /\ y.scan \in Pointers /\ y.dir \in Sides
    BY DEF Climbs, Sides
  <2> QED
    BY <2>1, TurnsTyped
<1>4. \A y \in Climbs : y.scan = Nil => next[y] = y
  OBVIOUS
<1>5. ASSUME NEW y \in Climbs, NEW s1, NEW h1, y.scan # Nil, Climbing(1, y.t, s1, h1, y.scan, y.dir)
      PROVE  \E s2, h2, top :
               /\ Climbed(y.t, s1, y.scan, next[y].t, s2, h2, top, next[y].scan, next[y].dir, 1)
               /\ Climbing(1, next[y].t, s2, h2, next[y].scan, next[y].dir)
  <2>1. next[y] = GrownOnce(y.t, y.scan, y.dir) /\ y.dir \in Sides
    BY <1>5 DEF Climbs, Sides
  <2>2. /\ Pending(y.t, s1, h1, y.scan, y.dir, 1) /\ y.scan \in s1[y.t.root]
        /\ Fresh(y.t, h1, y.scan, y.dir)
    BY <1>5 DEF Climbing
  <2> HIDE DEF next
  <2>3. PICK s2, h2, top :
           /\ Climbed(y.t, s1, y.scan, next[y].t, s2, h2, top, next[y].scan, next[y].dir, 1)
           /\ next[y].scan # Nil => Fresh(next[y].t, h2, next[y].scan, next[y].dir)
    BY <2>1, <2>2, GrowthTurn
  <2>4. Climbing(1, next[y].t, s2, h2, next[y].scan, next[y].dir)
    BY <2>3 DEF Climbed, Climbing
  <2> QED
    BY <2>3, <2>4
<1>6. Grown(t, scan, dir) = Loop(next, x).t
  BY DEF Grown
<1>7. Climbing(1, x.t, s, h, x.scan, x.dir)
  BY <1>2
<1> HIDE DEF next, x
<1>8. \E s2, h2 : Sound(Loop(next, x).t, s2, h2) /\ SameNodes(x.t, s, Loop(next, x).t, s2)
  BY <1>2, <1>3, <1>4, <1>5, <1>7, ClimbArrives
<1> QED
  BY <1>2, <1>6, <1>8

\* RemNode's climb ends, with every height and balance right again.
LEMMA ShrunkIs ==
  ASSUME NEW t, NEW s, NEW h, NEW scan \in Pointers, NEW dir \in Sides,
         NEW delta \in Int, OneLess(delta), Climbing(delta, t, s, h, scan, dir)
  PROVE  \E s2, h2 : Sound(Shrunk(t, scan, dir), s2, h2) /\ SameNodes(t, s, Shrunk(t, scan, dir), s2)
<1> DEFINE next == [y \in Climbs |-> IF y.scan = Nil THEN y ELSE ShrunkOnce(y.t, y.scan, y.dir)]
           x == At(t, scan, dir)
<1>1. t \in Trees
  BY DEF Climbing, Pending, SearchTree
<1>2. x \in Climbs /\ x.t = t /\ x.scan = scan /\ x.dir = dir
  BY <1>1 DEF At, Climbs, Sides
<1>3. next \in [Climbs -> Climbs]
  <2>1. \A y \in Climbs : y.t \in Trees /\ y.scan \in Pointers /\ y.dir \in Sides
    BY DEF Climbs, Sides
  <2> QED
    BY <2>1, TurnsTyped
<1>4. \A y \in Climbs : y.scan = Nil => next[y] = y
  OBVIOUS
<1>5. ASSUME NEW y \in Climbs, NEW s1, NEW h1, y.scan # Nil, Climbing(delta, y.t, s1, h1, y.scan, y.dir)
      PROVE  \E s2, h2, top :
               /\ Climbed(y.t, s1, y.scan, next[y].t, s2, h2, top, next[y].scan, next[y].dir, delta)
               /\ Climbing(delta, next[y].t, s2, h2, next[y].scan, next[y].dir)
  <2>1. next[y] = ShrunkOnce(y.t, y.scan, y.dir) /\ y.dir \in Sides
    BY <1>5 DEF Climbs, Sides
  <2>2. Pending(y.t, s1, h1, y.scan, y.dir, delta) /\ y.scan \in s1[y.t.root]
    BY <1>5 DEF Climbing
  <2> HIDE DEF next
  <2>3. PICK s2, h2, top :
          Climbed(y.t, s1, y.scan, next[y].t, s2, h2, top, next[y].scan, next[y].dir, delta)
    BY <2>1, <2>2, ShrinkingTurn
  <2>4. delta # 1
    BY DEF OneLess
  <2>5. Climbing(delta, next[y].t, s2, h2, next[y].scan, next[y].dir)
    BY <2>3, <2>4 DEF Climbed, Climbing
  <2> QED
    BY <2>3, <2>5
<1>6. Shrunk(t, scan, dir) = Loop(next, x).t
  BY DEF Shrunk
<1>7. Climbing(delta, x.t, s, h, x.scan, x.dir)
  BY <1>2
<1> HIDE DEF next, x
<1>8. \E s2, h2 : Sound(Loop(next, x).t, s2, h2) /\ SameNodes(x.t, s, Loop(next, x).t, s2)
  BY <1>2, <1>3, <1>4, <1>5, <1>7, ClimbArrives
<1> QED
  BY <1>2, <1>6, <1>8

-----------------------------------------------------------------------------
(* Searching *)

\* A loop that stays in S and comes down in weight ends in S.
LEMMA LoopDescends ==
  ASSUME NEW D, NEW next \in [D -> D], NEW S \in SUBSET D, NEW weight \in [D -> Nat],
         \A y \in S : next[y] = y \/ (next[y] \in S /\ weight[next[y]] < weight[y]),
         NEW x \in S
  PROVE  Loop(next, x) \in S /\ next[Loop(next, x)] = Loop(next, x)
<1> DEFINE X == [k \in Nat |-> {y \in S : weight[y] = k}]
<1>1. X \in [Nat -> SUBSET D]
  OBVIOUS
<1>2. ASSUME NEW k \in Nat, NEW y \in X[k]
      PROVE  next[y] = y \/ \E j \in 0 .. k - 1 : next[y] \in X[j]
  <2>1. y \in S /\ weight[y] = k
    OBVIOUS
  <2>2. CASE next[y] \in S /\ weight[next[y]] < weight[y]
    <3>1. weight[next[y]] \in 0 .. k - 1
      BY <2>1, <2>2
    <3>2. next[y] \in X[weight[next[y]]]
      BY <2>2, <3>1
    <3> QED
      BY <3>1, <3>2
  <2> QED
    BY <2>1, <2>2
<1>3. weight[x] \in Nat /\ x \in X[weight[x]]
  OBVIOUS
<1>4. (\E k \in Nat : Loop(next, x) \in X[k]) /\ next[Loop(next, x)] = Loop(next, x)
  <2> HIDE DEF X
  <2> QED
    BY <1>1, <1>2, <1>3, LoopEnds
<1> QED
  BY <1>4

\* The numbers of nodes below.
Sizes(s) == [n \in Pointers |-> Cardinality(s[n])]

\* Every step down comes to fewer nodes.
LEMMA SizesFall ==
  ASSUME NEW t, NEW s, SearchTree(t, s)
  PROVE  /\ Sizes(s) \in [Pointers -> Nat] /\ s[t.root] \subseteq Keys /\ Nil \notin s[t.root]
         /\ \A n \in s[t.root], d \in Sides :
              LET c == t.link[d][n]
              IN  /\ c \in Pointers /\ c # n /\ Sizes(s)[c] < Sizes(s)[n]
                  /\ c # Nil => c \in s[t.root]
<1>1. t \in Trees /\ s \in [Pointers -> SUBSET Keys] /\ t.root \in Pointers /\ Nil \notin Keys
  BY TreeFields, KeysFinite DEF SearchTree
<1>2. Sizes(s) \in [Pointers -> Nat]
  <2>1. \A n \in Pointers : Cardinality(s[n]) \in Nat
    BY <1>1, SizeIsNat
  <2> QED
    BY <2>1 DEF Sizes
<1>3. ASSUME NEW n \in s[t.root], NEW d \in Sides, NEW c, c = t.link[d][n]
      PROVE  /\ c \in Pointers /\ c # n /\ Sizes(s)[c] < Sizes(s)[n]
             /\ c # Nil => c \in s[t.root]
  <2>1. Hangs(t, s, n, d, c) /\ n \in s[n] /\ s[n] \subseteq Keys /\ s[n] \subseteq s[t.root] /\ n \in Keys
    BY <1>3, Links, SubtreesClosed
  <2>2. c \in Pointers /\ s[c] \subseteq s[n] /\ n \notin s[c] /\ (c # Nil => c \in s[c])
    BY <2>1 DEF Hangs
  <2>3. Cardinality(s[c]) < Cardinality(s[n])
    BY <2>1, <2>2, Smaller
  <2>4. c # n
    BY <1>1, <2>1, <2>2
  <2>5. n \in Pointers
    BY <2>1, SideFacts
  <2> QED
    BY <2>1, <2>2, <2>3, <2>4, <2>5 DEF Sizes
<1> QED
  BY <1>1, <1>2, <1>3

\* The side on which a search for key leaves m.
LEMMA TurnIs ==
  ASSUME NEW m \in Nat, NEW key \in Nat, m # key
  PROVE  Side(m < key) \in Sides /\ OnSide(Side(m < key), key, m)
         /\ \A d \in Sides : OnSide(d, key, m) => d = Side(m < key)
<1>1. CASE m < key
  <2>1. Side(m < key) = RIGHT
    BY <1>1 DEF Side
  <2> QED
    BY <1>1, <2>1 DEF OnSide, Sides, LEFT, RIGHT
<1>2. CASE ~ (m < key)
  <2>1. Side(m < key) = LEFT /\ key < m
    BY <1>2 DEF Side
  <2> QED
    BY <1>2, <2>1 DEF OnSide, Sides, LEFT, RIGHT
<1> QED
  BY <1>1, <1>2

\* A key below n is below the child on its side.
LEMMA KeyGoesDown ==
  ASSUME NEW t, NEW s, SearchTree(t, s), NEW n \in s[t.root], NEW key \in Keys, key # n,
         NEW d \in Sides, OnSide(d, key, n), key \in s[n]
  PROVE  key \in s[t.link[d][n]]
<1>1. PICK x \in Sides : key \in s[t.link[x][n]]
  BY Links
<1>2. OnSide(x, key, n) /\ n \in Nat /\ key \in Nat
  BY <1>1, Links, KeysFinite DEF Hangs
<1>3. x = d
  BY <1>2, Opposite
<1> QED
  BY <1>1, <1>3

\* FindNode finds a key if and only if it is in the tree.
LEMMA FindNodeIs ==
  ASSUME NEW t, NEW s, SearchTree(t, s), NEW key \in Keys
  PROVE  FindNode(t, t.root, key) = IF key \in s[t.root] THEN key ELSE Nil
<1> DEFINE N == s[t.root]
           next == [m \in Pointers |-> IF m \in {Nil, key} THEN m ELSE t.link[Side(m < key)][m]]
           S == {m \in Pointers : /\ m # Nil => m \in N
                                  /\ key \in N => key \in s[m]}
           L == Loop(next, t.root)
<1>1. t \in Trees /\ s \in [Pointers -> SUBSET Keys] /\ t.root \in Pointers /\ Nil \notin Keys
      /\ s[Nil] = {} /\ (t.root # Nil => t.root \in N) /\ N \subseteq Keys /\ key \in Nat /\ Keys \subseteq Nat
  BY TreeFields, KeysFinite DEF SearchTree
<1>2. next \in [Pointers -> Pointers]
  BY <1>1, TreeFields, SideTyped
<1>3. Sizes(s) \in [Pointers -> Nat]
  BY SizesFall
<1>4. ASSUME NEW m \in S
      PROVE  next[m] = m \/ (next[m] \in S /\ Sizes(s)[next[m]] < Sizes(s)[m])
  <2>1. CASE m \in {Nil, key}
    BY <2>1
  <2>2. CASE m \notin {Nil, key}
    <3> DEFINE d == Side(m < key)
               c == t.link[d][m]
    <3>1. m \in N /\ m \in Nat /\ m # key /\ next[m] = c
      BY <1>1, <2>2
    <3>2. d \in Sides /\ OnSide(d, key, m)
      BY <1>1, <3>1, TurnIs
    <3>3. c \in Pointers /\ Sizes(s)[c] < Sizes(s)[m] /\ (c # Nil => c \in N)
      BY <3>1, <3>2, SizesFall
    <3>4. key \in N => key \in s[c]
      BY <3>1, <3>2, KeyGoesDown
    <3> QED
      BY <3>1, <3>3, <3>4
  <2> QED
    BY <2>1, <2>2
<1>5. t.root \in S
  BY <1>1
<1>6. L \in S /\ next[L] = L
  <2> HIDE DEF next, S
  <2>1. S \in SUBSET Pointers
    BY DEF S
  <2> QED
    BY <1>2, <1>3, <1>4, <1>5, <2>1, LoopDescends
<1>7. FindNode(t, t.root, key) = L
  BY DEF FindNode
<1> HIDE DEF L
<1>8. L \in {Nil, key}
  <2> SUFFICES ASSUME L \notin {Nil, key} PROVE FALSE
    OBVIOUS
  <2>1. L \in N /\ next[L] = t.link[Side(L < key)][L]
    BY <1>6
  <2> QED
    BY <1>6, <2>1, SizesFall, SideTyped
<1> QED
  BY <1>1, <1>6, <1>7, <1>8

\* Where key may hang: for all nodes above n it is on n's side.
Fits(t, s, n, key) ==
  \A c \in s[t.root], d \in Sides : n \in s[t.link[d][c]] => OnSide(d, key, c)

\* A place that fits stays one when the search goes down to the key's side.
LEMMA FitsBelow ==
  ASSUME NEW t, NEW s, SearchTree(t, s), NEW n \in s[t.root], NEW key \in Keys, Fits(t, s, n, key),
         NEW d \in Sides, OnSide(d, key, n), t.link[d][n] # Nil
  PROVE  Fits(t, s, t.link[d][n], key)
<1> DEFINE c == t.link[d][n]
<1> SUFFICES ASSUME NEW b \in s[t.root], NEW x \in Sides, c \in s[t.link[x][b]]
             PROVE  OnSide(x, key, b)
  BY DEF Fits
<1>1. c \in s[c] /\ t.parent[c] = n /\ OnSide(d, c, n) /\ c \in s[t.root] /\ c \in Nat /\ n \in Nat
  <2>1. Hangs(t, s, n, d, c) /\ n \in Nat
    BY Links
  <2>2. c \in s[t.root]
    BY SizesFall
  <2>3. c \in Nat
    BY <2>2, Links
  <2> QED
    BY <2>1, <2>2, <2>3 DEF Hangs
<1>2. CASE b = n
  <2>1. OnSide(x, c, n)
    BY <1>2, Links DEF Hangs
  <2>2. ~ OnSide(1 - d, c, n) /\ (x = d \/ x = 1 - d)
    BY <1>1, Opposite
  <2>3. x = d
    BY <2>1, <2>2
  <2> QED
    BY <1>2, <2>3
<1>3. CASE b # n
  <2> DEFINE a == t.link[x][b]
  <2>1. Hangs(t, s, b, x, a) /\ a # Nil
    BY Links DEF SearchTree
  <2>2. a \in s[t.root] /\ a # c
    BY <1>1, <1>3, <2>1, SizesFall DEF Hangs
  <2>3. n \in s[a]
    BY <1>1, <2>2, SubtreesClosed DEF Closed
  <2> QED
    BY <2>3 DEF Fits
<1> QED
  BY <1>2, <1>3

\* The descent of AddNode ends at the key or at the free place where it fits.
LEMMA InsertionPointIs ==
  ASSUME NEW t, NEW s, SearchTree(t, s), NEW key \in Keys, t.root # Nil,
         NEW scan, scan = InsertionPoint(t, t.root, key)
  PROVE  /\ scan \in s[t.root] /\ (scan = key <=> key \in s[t.root])
         /\ scan # key => Fits(t, s, scan, key) /\ t.link[Side(scan < key)][scan] = Nil
<1> DEFINE N == s[t.root]
           next == [m \in Pointers |-> LET next == t.link[Side(m < key)][m]
                                       IN  IF m = key \/ next = Nil THEN m ELSE next]
           S == {m \in N : (key \in N => key \in s[m]) /\ Fits(t, s, m, key)}
           L == Loop(next, t.root)
<1>1. t \in Trees /\ s \in [Pointers -> SUBSET Keys] /\ t.root \in Pointers /\ Nil \notin Keys
      /\ s[Nil] = {} /\ t.root \in N /\ N \subseteq Keys /\ key \in Nat /\ Keys \subseteq Nat
  BY TreeFields, KeysFinite DEF SearchTree
<1>2. next \in [Pointers -> Pointers]
  BY <1>1, TreeFields, SideTyped
<1>3. Sizes(s) \in [Pointers -> Nat]
  BY SizesFall
<1>4. ASSUME NEW m \in S
      PROVE  next[m] = m \/ (next[m] \in S /\ Sizes(s)[next[m]] < Sizes(s)[m])
  <2> DEFINE d == Side(m < key)
             c == t.link[d][m]
  <2>0. m \in Pointers /\ m \in N /\ m \in Nat
    BY <1>1, SideFacts
  <2>1. CASE m = key \/ c = Nil
    BY <2>0, <2>1
  <2>2. CASE m # key /\ c # Nil
    <3>1. next[m] = c
      BY <2>0, <2>2
    <3>2. d \in Sides /\ OnSide(d, key, m)
      BY <1>1, <2>0, <2>2, TurnIs
    <3>3. Sizes(s)[c] < Sizes(s)[m] /\ c \in N
      BY <2>0, <2>2, <3>2, SizesFall
    <3>4. key \in N => key \in s[c]
      BY <2>0, <2>2, <3>2, KeyGoesDown
    <3>5. Fits(t, s, c, key)
      BY <2>0, <2>2, <3>2, FitsBelow
    <3> QED
      BY <3>1, <3>3, <3>4, <3>5
  <2> QED
    BY <2>1, <2>2
<1>5. t.root \in S
  <2>1. ASSUME NEW c \in N, NEW d \in Sides, t.root \in s[t.link[d][c]]
        PROVE  FALSE
    <3>1. Hangs(t, s, c, d, t.link[d][c]) /\ c \in s[c] /\ t.link[d][c] # Nil
      BY <1>1, <2>1, Links
    <3>2. t.link[d][c] \in N
      BY <3>1, SizesFall
    <3>3. t.link[d][c] # t.root
      BY <3>1 DEF Hangs
    <3> QED
      BY <1>1, <2>1, <3>2, <3>3, SubtreesClosed DEF Closed
  <2> QED
    BY <1>1, <2>1 DEF Fits
<1>6. L \in S /\ next[L] = L
  <2>1. S \in SUBSET Pointers
    BY <1>1, SideFacts
  <2> HIDE DEF next, S
  <2> QED
    BY <1>2, <1>3, <1>4, <1>5, <2>1, LoopDescends
<1>7. scan = L
  BY DEF InsertionPoint
<1> HIDE DEF L
<1>8. L = key \/ t.link[Side(L < key)][L] = Nil
  <2> SUFFICES ASSUME L # key, t.link[Side(L < key)][L] # Nil PROVE FALSE
    OBVIOUS
  <2>1. L \in N /\ L \in Pointers /\ next[L] = t.link[Side(L < key)][L]
    BY <1>1, <1>6, SideFacts
  <2> QED
    BY <1>6, <2>1, SizesFall, SideTyped
<1>9. key \in N => L = key
  <2> SUFFICES ASSUME key \in N, L # key PROVE FALSE
    OBVIOUS
  <2>1. L \in N /\ L \in Nat /\ key \in s[L]
    BY <1>1, <1>6
  <2>2. Side(L < key) \in Sides /\ OnSide(Side(L < key), key, L)
    BY <1>1, <2>1, TurnIs
  <2>3. key \in s[t.link[Side(L < key)][L]]
    BY <2>1, <2>2, KeyGoesDown
  <2> QED
    BY <1>1, <1>8, <2>3
<1> QED
  BY <1>6, <1>7, <1>8, <1>9

\* A node outside a subtree is on one side of all of it.
LEMMA OutsideApart ==
  ASSUME NEW t, NEW s, SearchTree(t, s)
  PROVE  \A a \in s[t.root] : \A b \in s[t.root] \ s[a] :
           \E d \in Sides : \A x \in s[a] : OnSide(d, b, x)
<1> DEFINE N == s[t.root]
           Apart(a) == \A b \in N \ s[a] : \E d \in Sides : \A x \in s[a] : OnSide(d, b, x)
           S == {k \in Nat : \A a \in N : Cardinality(N) - Cardinality(s[a]) = k => Apart(a)}
<1>0. N \subseteq Keys /\ Keys \subseteq Nat /\ IsFiniteSet(N) /\ Cardinality(N) \in Nat /\ Nil \notin Keys
  BY SizesFall, SizeIsNat, KeysFinite
<1>1. ASSUME NEW k \in Nat, \A j \in 0 .. k - 1 : j \in S
      PROVE  k \in S
  <2> SUFFICES ASSUME NEW a \in N, Cardinality(N) - Cardinality(s[a]) = k, NEW b \in N \ s[a]
               PROVE  \E d \in Sides : \A x \in s[a] : OnSide(d, b, x)
    OBVIOUS
  <2>0. a \in s[a] /\ s[a] \subseteq N
    BY Links, SubtreesClosed
  <2>1. a # t.root
    OBVIOUS
  <2> DEFINE p == t.parent[a]
             y == Side(t.link[RIGHT][p] = a)
  <2>2. y \in Sides /\ p \in N /\ p \notin s[a] /\ t.link[y][p] = a /\ s[a] \subseteq s[p]
    BY <2>1, ParentLink DEF IsChild
  <2> HIDE DEF y, p
  <2>3. \A x \in s[a] : OnSide(y, x, p)
    BY <2>2, Links DEF Hangs
  <2>4. p \in Nat /\ b \in Nat /\ s[a] \subseteq Nat /\ 1 - y \in Sides
    BY <1>0, <2>0, <2>2, Opposite
  <2>5. CASE b = p
    BY <2>2, <2>3, <2>4, <2>5, Opposite
  <2>6. CASE b \in s[p] /\ b # p
    <3>1. PICK z \in Sides : b \in s[t.link[z][p]]
      BY <2>2, <2>6, Links
    <3>2. z = 1 - y
      BY <2>2, <3>1, Opposite
    <3>3. OnSide(1 - y, b, p)
      BY <2>2, <3>1, <3>2, Links DEF Hangs
    <3>4. \A x \in s[a] : OnSide(1 - y, b, x)
      BY <2>2, <2>3, <2>4, <3>3, Opposite
    <3> QED
      BY <2>4, <3>4
  <2>7. CASE b \notin s[p]
    <3>1. p \in s[p] /\ s[p] \subseteq N
      BY <2>2, Links, SubtreesClosed
    <3>2. Cardinality(s[a]) < Cardinality(s[p]) /\ Cardinality(s[p]) \in Nat /\ Cardinality(s[a]) \in Nat
      <4>1. s[p] \in SUBSET Keys /\ s[a] \in SUBSET s[p]
        BY <1>0, <2>2, <3>1
      <4> QED
        BY <2>2, <3>1, <4>1, Smaller
    <3>3. Cardinality(s[p]) <= Cardinality(N)
      BY <1>0, <3>1, FS_Subset
    <3>4. Cardinality(N) - Cardinality(s[p]) \in 0 .. k - 1
      BY <1>0, <3>2, <3>3
    <3>5. Apart(p)
      BY <1>1, <2>2, <3>4
    <3> QED
      BY <2>2, <2>7, <3>5
  <2> QED
    BY <2>5, <2>6, <2>7
<1>2. Nat \subseteq S
  <2> HIDE DEF S
  <2> QED
    BY <1>1, StrongSetInduction
<1>3. ASSUME NEW a \in N PROVE Apart(a)
  <2>1. s[a] \subseteq N
    BY SubtreesClosed
  <2>2. Cardinality(N) - Cardinality(s[a]) \in Nat
    BY <1>0, <2>1, FS_Subset, FS_CardinalityType
  <2> QED
    BY <1>2, <2>2
<1> QED
  BY <1>3

\* m is the last node of S on side d.
Last(S, d, m) == m \in S /\ \A b \in S : b # m => OnSide(1 - d, b, m)

\* The descent along one side ends at the last node of the subtree.
LEMMA OutermostIs ==
  ASSUME NEW t, NEW s, SearchTree(t, s), NEW n \in s[t.root], NEW d \in Sides,
         NEW m, m = Outermost(t, n, d)
  PROVE  Last(s[n], d, m) /\ t.link[d][m] = Nil
<1> DEFINE next == [x \in Pointers |-> IF t.link[d][x] = Nil THEN x ELSE t.link[d][x]]
           S == {x \in s[n] : \A a \in s[x] : \A b \in s[n] \ s[x] : OnSide(1 - d, b, a)}
           L == Loop(next, n)
<1>1. t \in Trees /\ s \in [Pointers -> SUBSET Keys] /\ Nil \notin Keys /\ s[Nil] = {} /\ Keys \subseteq Nat
      /\ n \in s[n] /\ s[n] \subseteq s[t.root] /\ s[t.root] \subseteq Keys
  BY Links, SubtreesClosed, SizesFall, KeysFinite DEF SearchTree
<1>2. next \in [Pointers -> Pointers]
  BY <1>1, TreeFields
<1>3. Sizes(s) \in [Pointers -> Nat]
  BY SizesFall
<1>4. ASSUME NEW x \in S
      PROVE  next[x] = x \/ (next[x] \in S /\ Sizes(s)[next[x]] < Sizes(s)[x])
  <2> DEFINE c == t.link[d][x]
  <2>0. x \in Pointers /\ x \in s[t.root] /\ x \in s[n]
    BY <1>1, SideFacts
  <2>1. CASE c = Nil
    BY <2>0, <2>1
  <2>2. CASE c # Nil
    <3>1. next[x] = c
      BY <2>0, <2>2
    <3>2. Sizes(s)[c] < Sizes(s)[x]
      BY <2>0, SizesFall
    <3>3. Hangs(t, s, x, d, c) /\ s[x] \subseteq s[n]
      BY <1>1, <2>0, Links, SubtreesClosed DEF Closed
    <3>4. c \in s[n] /\ s[c] \subseteq s[x]
      BY <2>2, <3>3 DEF Hangs
    <3>5. ASSUME NEW a \in s[c], NEW b \in s[n] \ s[c]
          PROVE  OnSide(1 - d, b, a)
      <4>1. CASE b \notin s[x]
        BY <3>4, <4>1
      <4>2. CASE b \in s[x]
        <5>1. OnSide(d, a, x) /\ a \in Nat /\ b \in Nat /\ x \in Nat
          BY <1>1, <2>0, <3>3, <3>4 DEF Hangs
        <5>2. CASE b = x
          BY <5>1, <5>2, Opposite
        <5>3. CASE b # x
          <6>1. PICK z \in Sides : b \in s[t.link[z][x]]
            BY <2>0, <4>2, <5>3, Links
          <6>2. z = 1 - d
            BY <6>1, Opposite
          <6>3. OnSide(1 - d, b, x)
            BY <2>0, <6>1, <6>2, Links DEF Hangs
          <6> QED
            BY <5>1, <6>3, Opposite
        <5> QED
          BY <5>2, <5>3
      <4> QED
        BY <4>1, <4>2
    <3>6. c \in S
      BY <3>4, <3>5
    <3> QED
      BY <3>1, <3>2, <3>6
  <2> QED
    BY <2>1, <2>2
<1>5. n \in S
  BY <1>1
<1>6. L \in S /\ next[L] = L
  <2>1. S \in SUBSET Pointers
    BY <1>1, SideFacts
  <2> HIDE DEF next, S
  <2> QED
    BY <1>2, <1>3, <1>4, <1>5, <2>1, LoopDescends
<1>7. m = L
  BY DEF Outermost
<1> HIDE DEF L
<1>8. L \in Pointers /\ L \in s[t.root] /\ L \in s[n] /\ L \in s[L]
  BY <1>1, <1>6, SideFacts, Links
<1>9. t.link[d][L] = Nil
  <2> SUFFICES ASSUME t.link[d][L] # Nil PROVE FALSE
    OBVIOUS
  <2>1. next[L] = t.link[d][L]
    BY <1>8
  <2> QED
    BY <1>6, <1>8, <2>1, SizesFall
<1>10. ASSUME NEW b \in s[n], b # L
       PROVE  OnSide(1 - d, b, L)
  <2>1. CASE b \notin s[L]
    BY <1>6, <1>8, <2>1
  <2>2. CASE b \in s[L]
    <3>1. PICK z \in Sides : b \in s[t.link[z][L]]
      BY <1>8, <1>10, <2>2, Links
    <3>2. z = 1 - d
      BY <1>1, <1>9, <3>1, Opposite
    <3> QED
      BY <1>8, <3>1, <3>2, Links DEF Hangs
  <2> QED
    BY <2>1, <2>2
<1> QED
  BY <1>7, <1>8, <1>9, <1>10 DEF Last

\* m is the last node of S on side d, Nil if S has none.
EndOf(S, d, m) == (S = {} /\ m = Nil) \/ Last(S, d, m)

\* Those of S on side d of n.
Beyond(S, d, n) == {b \in S : OnSide(d, b, n)}

\* The climb to an ancestor finds the neighbour of a node that has nothing below
\* it on that side.
LEMMA AncestorIs ==
  ASSUME NEW t, NEW s, SearchTree(t, s), NEW n \in s[t.root], NEW d \in Sides,
         t.link[d][n] = Nil, NEW m, m = Ancestor(t, n, d)
  PROVE  EndOf(Beyond(s[t.root], d, n), 1 - d, m)
<1> DEFINE N == s[t.root]
           next == [x \in Pointers |-> LET up == t.parent[x]
                                       IN  IF up # Nil /\ t.link[d][up] = x THEN up ELSE x]
           S == {x \in N : n \in s[x] /\ \A b \in s[x] : b = n \/ OnSide(1 - d, b, n)}
           L == Loop(next, n)
           size(x) == Cardinality(N) - Cardinality(s[x])
           weight == [x \in Pointers |-> IF x \in N THEN size(x) ELSE 0]
<1>1. t \in Trees /\ s \in [Pointers -> SUBSET Keys] /\ Nil \notin Keys /\ s[Nil] = {} /\ Keys \subseteq Nat
      /\ n \in s[n] /\ N \subseteq Keys /\ t.root \in N
  BY Links, SizesFall, KeysFinite DEF SearchTree
<1>2. next \in [Pointers -> Pointers]
  BY <1>1, TreeFields
<1>3. weight \in [Pointers -> Nat]
  <2>1. ASSUME NEW x \in N PROVE size(x) \in Nat
    <3>1. s[x] \subseteq N /\ IsFiniteSet(N) /\ Cardinality(N) \in Nat
      BY <1>1, SubtreesClosed, SizeIsNat
    <3>2. Cardinality(s[x]) \in Nat /\ Cardinality(s[x]) <= Cardinality(N)
      BY <3>1, FS_Subset, FS_CardinalityType
    <3> QED
      BY <3>1, <3>2
  <2> HIDE DEF size
  <2> QED
    BY <2>1
<1>4. ASSUME NEW x \in N, NEW up, up = t.parent[x], up # Nil
      PROVE  /\ up \in N /\ \E y \in Sides : t.link[y][up] = x
             /\ s[x] \subseteq s[up] /\ up \notin s[x] /\ up \in s[up] /\ s[up] \subseteq N
  <2>1. IsChild(t, s, x, up, Side(t.link[RIGHT][up] = x))
    BY <1>4, ParentLink
  <2>2. up \in N /\ up \notin s[x] /\ s[x] \subseteq s[up] /\ \E y \in Sides : t.link[y][up] = x
    BY <1>4, <2>1 DEF IsChild
  <2> QED
    BY <2>2, Links, SubtreesClosed
<1>5. ASSUME NEW x \in S
      PROVE  next[x] = x \/ (next[x] \in S /\ weight[next[x]] < weight[x])
  <2> DEFINE up == t.parent[x]
  <2>0. x \in Pointers /\ x \in N /\ n \in s[x]
    BY <1>1, SideFacts
  <2>1. CASE ~ (up # Nil /\ t.link[d][up] = x)
    BY <2>0, <2>1
  <2>2. CASE up # Nil /\ t.link[d][up] = x
    <3>1. next[x] = up
      BY <2>0, <2>2
    <3>2. up \in N /\ s[x] \subseteq s[up] /\ up \notin s[x] /\ up \in s[up] /\ s[up] \subseteq N
      BY <1>4, <2>0, <2>2
    <3>3. weight[up] < weight[x]
      <4>1. Cardinality(s[x]) < Cardinality(s[up]) /\ Cardinality(s[up]) \in Nat /\ Cardinality(s[x]) \in Nat
        <5>1. s[up] \in SUBSET Keys /\ s[x] \in SUBSET s[up]
          BY <1>1, <3>2
        <5> QED
          BY <3>2, <5>1, Smaller
      <4>2. Cardinality(N) \in Nat /\ up \in Pointers
        BY <1>1, <3>2, SizeIsNat, SideFacts
      <4> QED
        BY <2>0, <3>2, <4>1, <4>2
    <3>4. ASSUME NEW b \in s[up], b # n
          PROVE  OnSide(1 - d, b, n)
      <4>1. OnSide(d, n, up) /\ n \in Nat /\ up \in Nat /\ b \in Nat /\ 1 - d \in Sides
        <5>1. Hangs(t, s, up, d, x)
          BY <2>2, <3>2, Links
        <5> QED
          BY <1>1, <2>0, <3>2, <5>1, Opposite DEF Hangs
      <4>2. OnSide(1 - d, up, n)
        BY <4>1, Opposite
      <4>3. CASE b = up
        BY <4>2, <4>3
      <4>4. CASE b \in s[x]
        BY <3>4, <4>4
      <4>5. CASE b # up /\ b \notin s[x]
        <5>1. PICK z \in Sides : b \in s[t.link[z][up]]
          BY <3>2, <4>5, Links
        <5>2. z = 1 - d
          BY <2>2, <4>5, <5>1, Opposite
        <5>3. OnSide(1 - d, b, up)
          BY <3>2, <5>1, <5>2, Links DEF Hangs
        <5> QED
          BY <4>1, <4>2, <5>3, Opposite
      <4> QED
        BY <4>3, <4>4, <4>5
    <3>5. up \in S
      BY <2>0, <3>2, <3>4
    <3> HIDE DEF next, weight
    <3> QED
      BY <3>1, <3>3, <3>5
  <2> QED
    BY Zenon, <2>1, <2>2
<1>6. n \in S
  <2>1. ASSUME NEW b \in s[n], b # n PROVE OnSide(1 - d, b, n)
    <3>1. PICK z \in Sides : b \in s[t.link[z][n]]
      BY <2>1, Links
    <3>2. z = 1 - d
      BY <1>1, <3>1, Opposite
    <3> QED
      BY <3>1, <3>2, Links DEF Hangs
  <2> QED
    BY <1>1, <2>1
<1>7. L \in S /\ next[L] = L
  <2>1. S \in SUBSET Pointers
    BY <1>1, SideFacts
  <2> HIDE DEF next, S, weight
  <2> QED
    BY <1>2, <1>3, <1>5, <1>6, <2>1, LoopDescends
<1>8. m = t.parent[L]
  BY DEF Ancestor
<1> HIDE DEF L
<1>9. L \in N /\ n \in s[L] /\ L \in Pointers /\ (\A b \in s[L] : b = n \/ OnSide(1 - d, b, n))
      /\ n \in Nat /\ 1 - d \in Sides
  BY <1>1, <1>7, SideFacts, Opposite
<1>10. \A b \in s[L] : ~ OnSide(d, b, n)
  <2>1. s[L] \subseteq Nat
    BY <1>1, <1>9
  <2> QED
    BY <1>9, <2>1, Opposite
<1>11. CASE m = Nil
  <2>1. L = t.root
    <3>1. IsChild(t, s, L, t.parent[L], Side(t.link[RIGHT][t.parent[L]] = L))
      BY <1>9, ParentLink
    <3> QED
      BY <1>8, <1>11, <3>1 DEF IsChild
  <2> QED
    BY <1>10, <1>11, <2>1 DEF EndOf, Beyond
<1>12. CASE m # Nil
  <2>1. m \in N /\ (\E y \in Sides : t.link[y][m] = L) /\ m \in s[m] /\ s[L] \subseteq s[m] /\ m \in Nat
    BY <1>1, <1>4, <1>8, <1>9, <1>12
  <2>2. t.link[d][m] # L
    BY <1>4, <1>7, <1>8, <1>9, <1>12, <2>1, SizesFall
  <2>3. t.link[1 - d][m] = L
    BY <2>1, <2>2, Opposite
  <2>4. OnSide(1 - d, n, m)
    <3>1. Hangs(t, s, m, 1 - d, L)
      BY <1>9, <2>1, <2>3, Links
    <3> QED
      BY <1>9, <3>1 DEF Hangs
  <2>5. OnSide(d, m, n)
    BY <1>9, <2>1, <2>4, Opposite
  <2>6. ASSUME NEW b \in N, OnSide(d, b, n), b # m
        PROVE  OnSide(d, b, m)
    <3>1. b \in Nat /\ b \notin s[L]
      BY <1>1, <1>10, <2>6
    <3>2. CASE b \in s[m]
      <4>1. PICK z \in Sides : b \in s[t.link[z][m]]
        BY <2>1, <2>6, <3>2, Links
      <4>2. z = d
        BY <2>3, <3>1, <4>1, Opposite
      <4> QED
        BY <2>1, <4>1, <4>2, Links DEF Hangs
    <3>3. CASE b \notin s[m]
      <4>1. PICK z \in Sides : \A x \in s[m] : OnSide(z, b, x)
        BY <2>1, <3>3, OutsideApart
      <4>2. OnSide(z, b, n) /\ OnSide(z, b, m)
        BY <1>9, <2>1, <4>1
      <4>3. ~ OnSide(1 - d, b, n) /\ (z = d \/ z = 1 - d)
        BY <1>9, <2>6, <3>1, Opposite
      <4> QED
        BY <4>2, <4>3
    <3> QED
      BY <3>2, <3>3
  <2>7. 1 - (1 - d) = d
    BY Opposite
  <2> QED
    BY <2>1, <2>5, <2>6, <2>7 DEF EndOf, Last, Beyond
<1> QED
  BY <1>11, <1>12

\* The neighbour by address is the neighbour in the order of the keys.
LEMMA NeighbourIs ==
  ASSUME NEW t, NEW s, SearchTree(t, s), NEW n \in s[t.root], NEW d \in Sides,
         NEW m, m = Neighbour(t, n, d)
  PROVE  EndOf(Beyond(s[t.root], d, n), 1 - d, m)
<1> DEFINE c == t.link[d][n]
<1>1. CASE c = Nil
  BY <1>1, AncestorIs DEF Neighbour
<1>2. CASE c # Nil
  <2>0. 1 - d \in Sides /\ 1 - (1 - d) = d
    BY Opposite
  <2>1. c \in s[t.root] /\ Hangs(t, s, n, d, c) /\ s[n] \subseteq s[t.root] /\ n \in s[n]
    BY <1>2, SizesFall, Links, SubtreesClosed
  <2>2. m = Outermost(t, c, 1 - d)
    BY <1>2 DEF Neighbour
  <2>3. Last(s[c], 1 - d, m)
    BY <2>0, <2>1, <2>2, OutermostIs
  <2>4. s[c] \subseteq s[t.root] /\ \A b \in s[c] : OnSide(d, b, n)
    BY <2>1 DEF Hangs
  <2>5. ASSUME NEW b \in s[t.root], OnSide(d, b, n), b \notin s[c]
        PROVE  OnSide(d, b, m)
    <3>1. b \in Nat /\ n \in Nat /\ m \in s[c] /\ m \in Nat /\ m \in s[n]
      BY <2>1, <2>3, <2>4, Links DEF Last, Hangs
    <3>2. b \notin s[n]
      <4> SUFFICES ASSUME b \in s[n] PROVE FALSE
        OBVIOUS
      <4>1. b # n
        BY <2>5, <3>1, Opposite
      <4>2. PICK z \in Sides : b \in s[t.link[z][n]]
        BY <4>1, Links
      <4>3. z = 1 - d
        BY <2>5, <4>2, Opposite
      <4>4. OnSide(1 - d, b, n)
        BY <4>2, <4>3, Links DEF Hangs
      <4> QED
        BY <2>5, <3>1, <4>4, Opposite
    <3>3. PICK z \in Sides : \A x \in s[n] : OnSide(z, b, x)
      BY <3>2, OutsideApart
    <3>4. OnSide(z, b, n) /\ OnSide(z, b, m)
      BY <2>1, <3>1, <3>3
    <3>5. ~ OnSide(1 - d, b, n) /\ (z = d \/ z = 1 - d)
      BY <2>5, <3>1, Opposite
    <3> QED
      BY <3>4, <3>5
  <2> QED
    BY <2>0, <2>3, <2>4, <2>5 DEF EndOf, Last, Beyond
<1> QED
  BY <1>1, <1>2

\* passed is the node at which a search for key, which has come to n, would
\* end if nothing below n were wanted.
Passed(t, s, key, d, n, passed) ==
  /\ n # Nil => n \in s[t.root]
  /\ passed # Nil => passed \in s[t.root] /\ (passed = key \/ OnSide(d, passed, key))
  /\ \A b \in s[t.root] : (b = key \/ OnSide(d, b, key)) =>
       b \in s[n] \/ (passed # Nil /\ (b = passed \/ OnSide(d, b, passed)))
  /\ passed # Nil => \A x \in s[n] : OnSide(1 - d, x, passed)

\* A turn of the search for the nearest key leaves nothing wanted behind.
LEMMA PassedTurn ==
  ASSUME NEW t, NEW s, SearchTree(t, s), NEW key \in Keys, NEW d \in Sides,
         NEW n \in s[t.root], n # key, NEW passed \in Pointers, Passed(t, s, key, d, n, passed),
         NEW turn, turn = Side(n < key), NEW p2, p2 = IF turn # d THEN n ELSE passed
  PROVE  Passed(t, s, key, d, t.link[turn][n], p2)
<1> DEFINE c == t.link[turn][n]
           N == s[t.root]
<1>1. /\ N \subseteq Keys /\ Keys \subseteq Nat /\ Nil \notin Keys /\ key \in Nat /\ n \in Nat
      /\ 1 - d \in Sides /\ 1 - (1 - d) = d /\ n # Nil
  BY SizesFall, KeysFinite, Opposite
<1>2. turn \in Sides /\ OnSide(turn, key, n) /\ (turn = d \/ turn = 1 - d)
  BY <1>1, TurnIs, Opposite
<1>3. Hangs(t, s, n, turn, c) /\ (c # Nil => c \in N) /\ s[n] \subseteq N /\ n \in s[n]
  BY <1>2, SizesFall, Links, SubtreesClosed
<1>4. s[c] \subseteq s[n] /\ \A x \in s[c] : OnSide(turn, x, n)
  BY <1>3 DEF Hangs
<1>5. ASSUME NEW b \in s[n], b \notin s[c], b # n
      PROVE  OnSide(1 - turn, b, n)
  <2>1. PICK z \in Sides : b \in s[t.link[z][n]]
    BY <1>5, Links
  <2>2. z = 1 - turn
    BY <1>2, <1>5, <2>1, Opposite
  <2> QED
    BY <2>1, <2>2, Links DEF Hangs
<1>6. CASE turn = d
  <2>1. p2 = passed
    BY <1>6
  <2>2. OnSide(1 - d, n, key)
    BY <1>1, <1>2, <1>6, Opposite
  <2>3. ASSUME NEW b \in N, b = key \/ OnSide(d, b, key), b \in s[n]
        PROVE  b \in s[c]
    <3>1. b \in Nat
      BY <1>1
    <3>2. b # n
      BY <1>1, <2>2, <2>3, <3>1, Opposite
    <3>3. CASE b \notin s[c]
      <4>1. OnSide(1 - d, b, n)
        BY <1>5, <1>6, <2>3, <3>2, <3>3
      <4>2. OnSide(1 - d, b, key)
        BY <1>1, <2>2, <3>1, <4>1, Opposite
      <4> QED
        BY <1>1, <2>3, <3>1, <4>2, Opposite
    <3> QED
      BY <3>3
  <2> QED
    BY <1>3, <1>4, <2>1, <2>3 DEF Passed
<1>7. CASE turn = 1 - d
  <2>1. p2 = n /\ turn # d
    BY <1>7, Opposite
  <2>2. OnSide(d, n, key)
    BY <1>1, <1>2, <1>7, Opposite
  <2>3. ASSUME NEW b \in N, b = key \/ OnSide(d, b, key)
        PROVE  b \in s[c] \/ b = n \/ OnSide(d, b, n)
    <3>1. CASE b \in s[n]
      BY <1>1, <1>5, <1>7, <3>1
    <3>2. CASE b \notin s[n]
      <4>1. passed # Nil /\ (b = passed \/ OnSide(d, b, passed)) /\ OnSide(1 - d, n, passed)
            /\ passed \in N
        BY <1>3, <2>3, <3>2 DEF Passed
      <4>2. passed \in Nat /\ b \in Nat
        BY <1>1, <4>1
      <4>3. OnSide(d, passed, n)
        BY <1>1, <4>1, <4>2, Opposite
      <4> QED
        BY <1>1, <4>1, <4>2, <4>3, Opposite
    <3> QED
      BY <3>1, <3>2
  <2> QED
    BY <1>1, <1>3, <1>4, <1>7, <2>1, <2>2, <2>3 DEF Passed
<1> QED
  BY <1>2, <1>6, <1>7

\* The search by key answers the key, or else the nearest one on the wanted
\* side.
LEMMA NearestIs ==
  ASSUME NEW t, NEW s, SearchTree(t, s), NEW key \in Keys, NEW d \in Sides
  PROVE  EndOf({b \in s[t.root] : b = key \/ OnSide(d, b, key)}, 1 - d, Nearest(t, key, d))
<1> DEFINE N == s[t.root]
           D == Pointers \X Pointers
           next == [y \in D |->
                      LET n    == y[1]
                          turn == Side(n < key)
                      IN  IF n = Nil THEN y
                          ELSE IF n = key THEN <<Nil, n>>
                          ELSE <<t.link[turn][n], IF turn # d THEN n ELSE y[2]>>]
           S == {y \in D : Passed(t, s, key, d, y[1], y[2])}
           weight == [y \in D |-> Sizes(s)[y[1]]]
           start == <<t.root, Nil>>
           L == Loop(next, start)
<1>1. t \in Trees /\ s \in [Pointers -> SUBSET Keys] /\ Nil \notin Keys /\ s[Nil] = {} /\ Keys \subseteq Nat
      /\ N \subseteq Keys /\ (t.root # Nil => t.root \in N) /\ t.root \in Pointers /\ Nil \in Pointers
      /\ 1 - (1 - d) = d
  BY TreeFields, SizesFall, KeysFinite, SideFacts, Opposite DEF SearchTree
<1>2. ASSUME NEW y \in D
      PROVE  /\ next[y] \in D
             /\ y[1] = Nil => next[y] = y
             /\ y[1] # Nil /\ y[1] = key => next[y] = <<Nil, key>>
             /\ y[1] # Nil /\ y[1] # key =>
                  next[y] = <<t.link[Side(y[1] < key)][y[1]],
                              IF Side(y[1] < key) # d THEN y[1] ELSE y[2]>>
  <2>1. Side(y[1] < key) \in Sides /\ y[1] \in Pointers /\ y[2] \in Pointers
    BY SideTyped
  <2>2. t.link[Side(y[1] < key)][y[1]] \in Pointers
    BY <1>1, <2>1, TreeFields
  <2> QED
    BY <1>1, <2>1, <2>2
<1>3. next \in [D -> D]
  BY <1>2
<1>4. weight \in [D -> Nat]
  BY SizesFall
<1> HIDE DEF next
<1>5. ASSUME NEW y \in S
      PROVE  next[y] = y \/ (next[y] \in S /\ weight[next[y]] < weight[y])
  <2>0. y \in D /\ y[1] \in Pointers /\ y[2] \in Pointers /\ Passed(t, s, key, d, y[1], y[2])
    OBVIOUS
  <2>1. CASE y[1] = Nil
    BY <1>2, <2>0, <2>1
  <2>2. CASE y[1] # Nil /\ y[1] = key
    <3>1. next[y] = <<Nil, key>> /\ next[y] \in D
      BY <1>2, <2>0, <2>2
    <3>2. key \in N /\ key \in Pointers
      BY <2>0, <2>2 DEF Passed
    <3>3. Passed(t, s, key, d, Nil, key)
      BY <1>1, <3>2 DEF Passed
    <3>4. Sizes(s)[Nil] < Sizes(s)[key]
      <4>1. key \in s[key] /\ s[key] \in SUBSET Keys
        BY <1>1, <3>2, Links
      <4>2. Cardinality({}) < Cardinality(s[key])
        BY <4>1, Smaller
      <4> QED
        BY <1>1, <3>2, <4>2 DEF Sizes
    <3>5. next[y] \in S
      BY <3>1, <3>3
    <3>6. weight[next[y]] = Sizes(s)[Nil] /\ weight[y] = Sizes(s)[key]
      BY <2>0, <2>2, <3>1
    <3> QED
      BY <3>4, <3>5, <3>6
  <2>3. CASE y[1] # Nil /\ y[1] # key
    <3> DEFINE n == y[1]
               turn == Side(n < key)
               c == t.link[turn][n]
               p2 == IF turn # d THEN n ELSE y[2]
    <3>1. next[y] = <<c, p2>> /\ next[y] \in D
      BY <1>2, <2>0, <2>3
    <3>2. n \in N
      BY <2>0, <2>3 DEF Passed
    <3>3. Passed(t, s, key, d, c, p2)
      BY <2>0, <2>3, <3>2, PassedTurn
    <3>4. Sizes(s)[c] < Sizes(s)[n]
      BY <3>2, SideTyped, SizesFall
    <3> HIDE DEF c, p2
    <3>5. next[y] \in S
      BY <3>1, <3>3
    <3>6. weight[next[y]] = Sizes(s)[c] /\ weight[y] = Sizes(s)[n]
      BY <2>0, <3>1
    <3> QED
      BY <3>4, <3>5, <3>6
  <2> QED
    BY <2>1, <2>2, <2>3
<1>6. start \in S
  <2>1. Passed(t, s, key, d, t.root, Nil)
    BY <1>1 DEF Passed
  <2> QED
    BY <1>1, <2>1
<1>7. L \in S /\ next[L] = L
  <2>1. S \in SUBSET D
    OBVIOUS
  <2> HIDE DEF S, weight, start
  <2> QED
    BY <1>3, <1>4, <1>5, <1>6, <2>1, LoopDescends
<1>8. Nearest(t, key, d) = L[2]
  BY DEF Nearest, next
<1> HIDE DEF L, start
<1>9. L \in D /\ Passed(t, s, key, d, L[1], L[2]) /\ L[1] \in Pointers
  BY <1>7
<1>10. L[1] = Nil
  <2> SUFFICES ASSUME L[1] # Nil PROVE FALSE
    OBVIOUS
  <2>1. L[1] # key
    <3> SUFFICES ASSUME L[1] = key PROVE FALSE
      OBVIOUS
    <3>1. L = <<Nil, key>>
      BY <1>2, <1>7, <1>9
    <3> QED
      BY <3>1
  <2>2. next[L][1] = t.link[Side(L[1] < key)][L[1]]
    BY <1>2, <1>9, <2>1
  <2>3. L[1] \in N
    BY <1>9 DEF Passed
  <2> QED
    BY <1>7, <2>2, <2>3, SizesFall, SideTyped
<1>11. \A b \in N : (b = key \/ OnSide(d, b, key)) =>
         L[2] # Nil /\ (b = L[2] \/ OnSide(d, b, L[2]))
  BY <1>1, <1>9, <1>10 DEF Passed
<1>12. L[2] # Nil => L[2] \in N /\ (L[2] = key \/ OnSide(d, L[2], key))
  BY <1>9 DEF Passed
<1> QED
  BY <1>1, <1>8, <1>11, <1>12 DEF EndOf, Last

\* The ends of a set of keys by numbers alone.
LEMMA EndsByNumber ==
  ASSUME NEW S \in SUBSET Keys, NEW m
  PROVE  /\ EndOf(S, RIGHT, m) => m = Highest(S)
         /\ EndOf(S, LEFT, m) => m = Lowest(S)
<1>1. S \subseteq Nat
  BY KeysFinite
<1>2. 1 - RIGHT = LEFT /\ 1 - LEFT = RIGHT /\ RIGHT # LEFT
  BY DEF LEFT, RIGHT
<1>3. ASSUME Last(S, RIGHT, m)
      PROVE  m = CHOOSE x \in S : \A y \in S : x >= y
  <2>1. m \in S /\ \A y \in S : m >= y
    BY <1>1, <1>2, <1>3 DEF Last, OnSide
  <2>2. \A x \in S : (\A y \in S : x >= y) => x = m
    BY <1>1, <2>1
  <2> QED
    BY <2>1, <2>2
<1>4. ASSUME Last(S, LEFT, m)
      PROVE  m = CHOOSE x \in S : \A y \in S : x <= y
  <2>1. m \in S /\ \A y \in S : m <= y
    BY <1>1, <1>2, <1>4 DEF Last, OnSide
  <2>2. \A x \in S : (\A y \in S : x <= y) => x = m
    BY <1>1, <2>1
  <2> QED
    BY <2>1, <2>2
<1>5. EndOf(S, RIGHT, m) => (S = {} /\ m = Nil) \/ (S # {} /\ Last(S, RIGHT, m))
  BY DEF EndOf, Last
<1>6. EndOf(S, LEFT, m) => (S = {} /\ m = Nil) \/ (S # {} /\ Last(S, LEFT, m))
  BY DEF EndOf, Last
<1> QED
  BY <1>3, <1>4, <1>5, <1>6 DEF Highest, Lowest

-----------------------------------------------------------------------------
(* AVL_AddNode *)

\* Nothing hangs off what is not in the tree.
Clean(t, s) == \A n \in Pointers \ s[t.root], d \in Sides : t.link[d][n] = Nil

\* u is t with key hung below scan on side dir, nothing else done.
Hung(t, u, key, scan, dir) ==
  /\ u \in Trees /\ u.root = t.root
  /\ \A x \in Sides, m \in Pointers :
       u.link[x][m] = IF m = key THEN Nil ELSE IF x = dir /\ m = scan THEN key ELSE t.link[x][m]
  /\ \A m \in Pointers : /\ u.parent[m] = IF m = key THEN scan ELSE t.parent[m]
                         /\ u.bal[m] = IF m = key THEN 0 ELSE t.bal[m]

\* What AddNode has set before its climb.
LEMMA HungIs ==
  ASSUME NEW t \in Trees, NEW key \in Pointers, NEW scan \in Pointers, scan # key, NEW dir \in Sides,
         NEW u, u = [NewLeaf(t, key, scan) EXCEPT !.link[dir][scan] = key]
  PROVE  Hung(t, u, key, scan, dir)
<1> DEFINE v == NewLeaf(t, key, scan)
<1>1. Leaf(t, v, key, scan)
  BY NewLeafIs
<1> HIDE DEF v
<1>2. v \in Trees
  BY <1>1 DEF Leaf
<1>3. LinkSet(v, u, scan, dir, key)
  BY <1>2, SetLinkIs DEF v
<1> QED
  BY <1>1, <1>3 DEF Leaf, LinkSet, Hung

\* The new leaf changes what is below the nodes above it.
LEMMA LeafStarts ==
  ASSUME NEW t, NEW s, NEW h, Sound(t, s, h), NEW scan \in s[t.root], NEW key \in Keys,
         key \notin s[t.root], Fits(t, s, scan, key), NEW dir \in Sides, OnSide(dir, key, scan),
         t.link[dir][scan] = Nil, NEW u, Hung(t, u, key, scan, dir)
  PROVE  \E s2, h2 : /\ Climbing(1, u, s2, h2, scan, dir)
                     /\ s2[u.root] = s[t.root] \cup {key}
<1> DEFINE N == s[t.root]
           s2 == [c \in Pointers |-> IF c = key THEN {key}
                                     ELSE IF c \in N /\ scan \in s[c] THEN s[c] \cup {key} ELSE s[c]]
           h2 == [c \in Pointers |-> IF c = key THEN 1 ELSE h[c]]
<1>1. /\ SearchTree(t, s) /\ h \in [Pointers -> Nat] /\ h[Nil] = 0
      /\ \A n \in N : Weighed(t, h, n, LEFT, 0)
  BY DEF Sound, Pending
<1>2. /\ t \in Trees /\ s \in [Pointers -> SUBSET Keys] /\ s[Nil] = {} /\ N \subseteq Keys
      /\ t.root \in Pointers /\ t.root # Nil /\ t.root \in N /\ t.parent[t.root] = Nil
      /\ Nil \notin Keys /\ Keys \subseteq Nat /\ Keys \subseteq Pointers /\ Nil \in Pointers
      /\ key # Nil /\ Nil \notin N /\ scan # key
  BY <1>1, KeysFinite, TreeFields, SideFacts DEF SearchTree
<1>3. \A a \in N : s[a] \subseteq N
  BY <1>1, SubtreesClosed
<1>4. /\ s2 \in [Pointers -> SUBSET Keys] /\ s2[Nil] = {} /\ s2[key] = {key}
      /\ \A c \in N : s2[c] = IF scan \in s[c] THEN s[c] \cup {key} ELSE s[c]
  <2>1. s2 \in [Pointers -> SUBSET Keys]
    BY <1>2
  <2> QED
    BY <1>2, <2>1
<1>5. /\ h2 \in [Pointers -> Nat] /\ h2[Nil] = 0 /\ h2[key] = 1
      /\ \A c \in Pointers : c # key => h2[c] = h[c]
  <2>1. h2 \in [Pointers -> Nat]
    BY <1>1
  <2> QED
    BY <1>1, <1>2, <2>1
<1> HIDE DEF s2, h2
<1>6. /\ u \in Trees /\ u.root = t.root
      /\ \A m \in Pointers : u.parent[m] = IF m = key THEN scan ELSE t.parent[m]
  BY DEF Hung
<1>7. s2[u.root] = N \cup {key}
  BY <1>2, <1>4, <1>6
<1>8. ASSUME NEW n \in N, NEW d \in Sides
      PROVE  LET c  == t.link[d][n]
                 c2 == u.link[d][n]
             IN  /\ s2[c2] = s[c] \cup (IF scan \in s[c] \/ (n = scan /\ d = dir) THEN {key} ELSE {})
                 /\ OnItsSide(u, s2, n, d, c2)
                 /\ h2[c2] = h[c] + (IF n = scan /\ d = dir THEN 1 ELSE 0)
                 /\ h[c] \in Nat
  <2> DEFINE c  == t.link[d][n]
             c2 == u.link[d][n]
  <2>1. n \in Pointers /\ n # key /\ n # Nil /\ n \in Nat
    BY <1>2
  <2>2. Hangs(t, s, n, d, c)
    BY <1>1, Links
  <2>3. c \in Pointers /\ (c # Nil => c \in N) /\ c # key
    BY <1>1, <1>2, <2>2, SizesFall
  <2>4. CASE n = scan /\ d = dir
    <3>1. c = Nil /\ c2 = key
      BY <2>1, <2>4 DEF Hung
    <3>2. OnItsSide(u, s2, n, d, c2)
      BY <1>2, <1>4, <1>6, <2>4, <3>1 DEF OnItsSide
    <3>3. h2[c2] = h[c] + 1 /\ h[c] \in Nat
      BY <1>1, <1>5, <3>1
    <3>4. s2[c2] = s[c] \cup {key}
      BY <1>2, <1>4, <3>1
    <3> QED
      BY <2>4, <3>2, <3>3, <3>4
  <2>5. CASE ~ (n = scan /\ d = dir)
    <3>1. c2 = c
      BY <2>1, <2>5 DEF Hung
    <3>2. s2[c] = IF scan \in s[c] THEN s[c] \cup {key} ELSE s[c]
      BY <1>2, <1>4, <2>3
    <3>3. c # Nil => c \in s[c] /\ t.parent[c] = n /\ u.parent[c] = n
      BY <1>6, <2>2, <2>3 DEF Hangs
    <3>4. \A m \in s[c] : OnSide(d, m, n)
      BY <2>2 DEF Hangs
    <3>5. scan \in s[c] => OnSide(d, key, n)
      BY DEF Fits
    <3>6. OnItsSide(u, s2, n, d, c2)
      BY Zenon, <3>1, <3>2, <3>3, <3>4, <3>5 DEF OnItsSide
    <3>7. h2[c2] = h[c] /\ h[c] \in Nat
      BY <1>1, <1>5, <2>3, <3>1
    <3> QED
      BY <2>5, <3>1, <3>2, <3>6, <3>7
  <2> QED
    BY <2>4, <2>5
<1>9. ASSUME NEW n \in N
      PROVE  Placed(u, s2, n) /\ Weighed(u, h2, n, dir, IF n = scan THEN 1 ELSE 0)
  <2>1. n \in Pointers /\ n # key /\ n # Nil
    BY <1>2
  <2>2. Placed(t, s, n) /\ Weighed(t, h, n, dir, 0)
    BY <1>1, SideFacts, NothingPending DEF SearchTree
  <2>3. s[n] = {n} \cup s[t.link[LEFT][n]] \cup s[t.link[RIGHT][n]]
    BY <2>2 DEF Placed
  <2>4. scan \in s[n] <=> (n = scan \/ scan \in s[t.link[LEFT][n]] \/ scan \in s[t.link[RIGHT][n]])
    BY <2>3
  <2>5. n = scan => scan \in s[n] /\ scan \notin s[t.link[LEFT][n]] /\ scan \notin s[t.link[RIGHT][n]]
    BY <1>1, Links, SideFacts DEF Hangs
  <2>6. dir = LEFT \/ dir = RIGHT
    BY SideFacts
  <2>7. s2[n] = {n} \cup s2[u.link[LEFT][n]] \cup s2[u.link[RIGHT][n]]
    <3> DEFINE l == s2[u.link[LEFT][n]]
               r == s2[u.link[RIGHT][n]]
               K(d, c) == IF scan \in c \/ (n = scan /\ d = dir) THEN {key} ELSE {}
    <3>1. /\ l = s[t.link[LEFT][n]] \cup K(LEFT, s[t.link[LEFT][n]])
          /\ r = s[t.link[RIGHT][n]] \cup K(RIGHT, s[t.link[RIGHT][n]])
      BY <1>8, SideFacts
    <3>2. s2[n] = IF scan \in s[n] THEN s[n] \cup {key} ELSE s[n]
      BY <1>4
    <3> HIDE DEF l, r
    <3>3. s2[n] = {n} \cup l \cup r
      BY Zenon, <2>3, <2>4, <2>6, <3>1, <3>2
    <3> QED
      BY <3>3 DEF l, r
  <2>8. Placed(u, s2, n)
    BY <1>8, <2>7, SideFacts DEF Placed, OnItsSide
  <2>9. Weighed(u, h2, n, dir, IF n = scan THEN 1 ELSE 0)
    <3>1. \A d \in Sides : h2[u.link[d][n]] - (IF d = dir THEN (IF n = scan THEN 1 ELSE 0) ELSE 0)
                             = h[t.link[d][n]] - (IF d = dir THEN 0 ELSE 0)
      BY <1>8
    <3>2. h2[n] = h[n] /\ u.bal[n] = t.bal[n]
      BY <1>5, <2>1 DEF Hung
    <3>3. /\ h2[u.link[LEFT][n]] - (IF LEFT = dir THEN (IF n = scan THEN 1 ELSE 0) ELSE 0)
               = h[t.link[LEFT][n]] - (IF LEFT = dir THEN 0 ELSE 0)
          /\ h2[u.link[RIGHT][n]] - (IF RIGHT = dir THEN (IF n = scan THEN 1 ELSE 0) ELSE 0)
               = h[t.link[RIGHT][n]] - (IF RIGHT = dir THEN 0 ELSE 0)
      BY <3>1, SideFacts
    <3> QED
      BY <2>2, <3>2, <3>3 DEF Weighed
  <2> QED
    BY <2>8, <2>9
<1>10. Placed(u, s2, key) /\ Weighed(u, h2, key, dir, IF key = scan THEN 1 ELSE 0)
  <2>1. \A d \in Sides : u.link[d][key] = Nil
    BY <1>2 DEF Hung
  <2>2. u.bal[key] = 0
    BY <1>2 DEF Hung
  <2>3. Placed(u, s2, key)
    BY <1>4, <2>1, SideFacts DEF Placed
  <2>4. u.link[LEFT][key] = Nil /\ u.link[RIGHT][key] = Nil /\ scan # key
    BY <1>2, <2>1, SideFacts
  <2> QED
    BY <1>5, <2>2, <2>3, <2>4 DEF Weighed, Higher
<1>11. Pending(u, s2, h2, scan, dir, 1)
  <2>1. t.root # key
    BY <1>2
  <2>2. SearchTree(u, s2)
    BY <1>2, <1>4, <1>6, <1>7, <1>9, <1>10, <2>1 DEF SearchTree
  <2> QED
    BY <1>5, <1>7, <1>9, <1>10, <2>2 DEF Pending
<1>12. Fresh(u, h2, scan, dir)
  <2>1. u.link[dir][scan] = key
    BY <1>2 DEF Hung
  <2> QED
    BY <1>5, <2>1 DEF Fresh
<1>13. Climbing(1, u, s2, h2, scan, dir)
  BY <1>6, <1>7, <1>11, <1>12 DEF Climbing
<1> QED
  BY <1>7, <1>13

\* A tree of one node.
LEMMA FirstLeaf ==
  ASSUME NEW t, NEW s, NEW h, Sound(t, s, h), t.root = Nil, Clean(t, s), NEW key \in Keys,
         NEW u, u = [NewLeaf(t, key, Nil) EXCEPT !.root = key]
  PROVE  \E s2, h2 : Sound(u, s2, h2) /\ Clean(u, s2) /\ s2[u.root] = {key}
<1> DEFINE v  == NewLeaf(t, key, Nil)
           s2 == [c \in Pointers |-> IF c = key THEN {key} ELSE {}]
           h2 == [c \in Pointers |-> IF c = key THEN 1 ELSE 0]
<1>1. t \in Trees /\ s[t.root] = {}
  BY DEF Sound, Pending, SearchTree
<1>2. Nil \notin Keys /\ Keys \subseteq Pointers /\ Nil \in Pointers /\ key # Nil /\ key \in Pointers
  BY KeysFinite, SideFacts
<1>3. Leaf(t, v, key, Nil)
  BY <1>1, <1>2, NewLeafIs
<1> HIDE DEF v
<1>4. v \in Trees
  BY <1>3 DEF Leaf
<1>5. u \in Trees /\ u.root = key /\ u.link = v.link /\ u.parent = v.parent /\ u.bal = v.bal
  <2>1. u = [v EXCEPT !.root = key]
    BY DEF v
  <2> QED
    BY <1>2, <1>4, <2>1 DEF Trees
<1>6. /\ \A d \in Sides, n \in Pointers : u.link[d][n] = Nil
      /\ u.parent[key] = Nil /\ u.bal[key] = 0
  BY <1>1, <1>2, <1>3, <1>5 DEF Leaf, Clean
<1>7. s2 \in [Pointers -> SUBSET Keys] /\ s2[Nil] = {} /\ s2[key] = {key} /\ s2[u.root] = {key}
  BY <1>2, <1>5
<1>8. h2 \in [Pointers -> Nat] /\ h2[Nil] = 0 /\ h2[key] = 1
  BY <1>2
<1> HIDE DEF s2, h2
<1>9. Placed(u, s2, key)
  BY <1>2, <1>6, <1>7, SideFacts DEF Placed
<1>10. Weighed(u, h2, key, LEFT, 0)
  <2>1. u.link[LEFT][key] = Nil /\ u.link[RIGHT][key] = Nil
    BY <1>2, <1>6, SideFacts
  <2> QED
    BY <1>6, <1>8, <2>1 DEF Weighed, Higher
<1>11. SearchTree(u, s2)
  BY <1>5, <1>6, <1>7, <1>9 DEF SearchTree
<1>12. Sound(u, s2, h2)
  BY <1>2, <1>7, <1>8, <1>10, <1>11 DEF Sound, Pending
<1>13. Clean(u, s2)
  BY <1>6 DEF Clean
<1> QED
  BY <1>7, <1>12, <1>13

\* AddNode leaves a sound tree with the key and all that it held.
LEMMA AddNodeIs ==
  ASSUME NEW t, NEW s, NEW h, Sound(t, s, h), Clean(t, s), NEW key \in Keys,
         NEW u, u = AddNode(t, key)
  PROVE  \E s2, h2 : Sound(u, s2, h2) /\ Clean(u, s2) /\ s2[u.root] = s[t.root] \cup {key}
<1>1. SearchTree(t, s) /\ t \in Trees /\ s[Nil] = {}
  BY DEF Sound, Pending, SearchTree
<1>2. CASE t.root = Nil
  <2>1. u = [NewLeaf(t, key, Nil) EXCEPT !.root = key]
    BY <1>2 DEF AddNode
  <2>2. s[t.root] \cup {key} = {key}
    BY <1>1, <1>2
  <2> QED
    BY <1>2, <2>1, <2>2, FirstLeaf
<1>3. CASE t.root # Nil
  <2>1. PICK scan, dir : scan = InsertionPoint(t, t.root, key) /\ dir = Side(scan < key)
    OBVIOUS
  <2>2. /\ scan \in s[t.root] /\ (scan = key <=> key \in s[t.root])
        /\ scan # key => Fits(t, s, scan, key) /\ t.link[Side(scan < key)][scan] = Nil
    BY <1>1, <1>3, <2>1, InsertionPointIs
  <2>3. CASE scan = key
    <3>1. u = t
      BY <1>3, <2>1, <2>3 DEF AddNode
    <3> QED
      BY <2>2, <2>3, <3>1
  <2>4. CASE scan # key
    <3>1. s[t.root] \subseteq Keys /\ Keys \subseteq Nat /\ Keys \subseteq Pointers
      BY <1>1, SizesFall, KeysFinite, SideFacts
    <3>2. dir \in Sides /\ OnSide(dir, key, scan)
      BY <2>1, <2>2, <2>4, <3>1, TurnIs
    <3>3. PICK v : v = [NewLeaf(t, key, scan) EXCEPT !.link[dir][scan] = key]
      OBVIOUS
    <3>4. u = Grown(v, scan, dir)
      BY <1>3, <2>1, <2>4, <3>3 DEF AddNode
    <3>5. Hung(t, v, key, scan, dir)
      BY <1>1, <2>2, <2>4, <3>1, <3>2, <3>3, HungIs
    <3>6. PICK s1, h1 : Climbing(1, v, s1, h1, scan, dir) /\ s1[v.root] = s[t.root] \cup {key}
      BY <2>1, <2>2, <2>4, <3>2, <3>5, LeafStarts
    <3>7. PICK s2, h2 : Sound(u, s2, h2) /\ SameNodes(v, s1, u, s2)
      BY <2>2, <3>1, <3>2, <3>4, <3>6, GrownIs
    <3>8. s2[u.root] = s[t.root] \cup {key}
      BY <3>6, <3>7 DEF SameNodes
    <3>9. ASSUME NEW n \in Pointers \ s2[u.root], NEW d \in Sides
          PROVE  u.link[d][n] = Nil
      <4>1. n \notin s1[v.root] /\ n # key /\ n # scan /\ n \notin s[t.root]
        BY <2>2, <3>6, <3>8, <3>9
      <4>2. u.link[d][n] = v.link[d][n]
        BY <3>7, <4>1 DEF SameNodes
      <4>3. v.link[d][n] = t.link[d][n]
        BY <3>5, <4>1 DEF Hung
      <4> QED
        BY <4>1, <4>2, <4>3 DEF Clean
    <3> QED
      BY <3>7, <3>8, <3>9 DEF Clean
  <2> QED
    BY <2>3, <2>4
<1> QED
  BY <1>2, <1>3

-----------------------------------------------------------------------------
(* AVL_RemNode *)

\* What is left of the nodes when n is gone.
Without(s, n) == [c \in Pointers |-> s[c] \ {n}]

\* v is t without n, whose only child has its place.
Lifted(t, s, v, n) ==
  /\ v.root = t.root /\ Without(s, n)[v.root] = s[t.root] \ {n}
  /\ \A m \in s[t.root] \ {n}, d \in Sides :
       Without(s, n)[v.link[d][m]] = s[t.link[d][m]] \ {n}

\* The only child of n takes its place below up, which is then one lower on
\* that side than it reckons with.
LEMMA LiftIs ==
  ASSUME NEW t, NEW s, NEW h, Sound(t, s, h), NEW n \in s[t.root], NEW e \in Sides,
         t.link[e][n] = Nil, NEW child, child = t.link[1 - e][n],
         NEW up, up = t.parent[n], up # Nil, NEW dir, dir = Side(t.link[RIGHT][up] = n),
         NEW v, Attached(t, v, up, dir, child), NEW delta \in Int, OneLess(delta)
  PROVE  /\ Pending(v, Without(s, n), h, up, dir, delta)
         /\ up \in s[t.root] /\ up # n /\ Lifted(t, s, v, n)
<1> DEFINE N == s[t.root]
           s1 == Without(s, n)
<1>1. /\ SearchTree(t, s) /\ h \in [Pointers -> Nat] /\ h[Nil] = 0
      /\ \A m \in N, d \in Sides : Weighed(t, h, m, d, 0)
  BY SideFacts, NothingPending DEF Sound, Pending
<1>2. /\ t \in Trees /\ s \in [Pointers -> SUBSET Keys] /\ s[Nil] = {} /\ N \subseteq Keys
      /\ t.root \in Pointers /\ t.root # Nil /\ t.root \in N /\ t.parent[t.root] = Nil
      /\ Nil \notin Keys /\ Keys \subseteq Nat /\ Keys \subseteq Pointers /\ Nil \in Pointers /\ Nil \notin N
  BY <1>1, KeysFinite, TreeFields, SideFacts DEF SearchTree
<1>3. /\ dir \in Sides /\ n # t.root /\ up \in N /\ up # n /\ t.link[dir][up] = n
      /\ \A d \in Sides : t.link[d][up] = n => d = dir
  <2>1. IsChild(t, s, n, up, dir)
    BY Zenon, <1>1, ParentLink
  <2>2. n \in s[n]
    BY <1>1, Links
  <2> QED
    BY Zenon, <2>1, <2>2 DEF IsChild
<1>4. NodeHas(t, s, h, n, e, Nil, child)
  BY <1>1, NodeFacts
<1>5. /\ child \in Pointers /\ s[n] \ {n} = s[child] /\ n \notin s[child] /\ child # n
      /\ child # Nil => child \in s[child]
  <2>1. /\ child \in Pointers /\ s[n] = {n} \cup s[Nil] \cup s[child] /\ n \notin s[child]
        /\ child # n /\ s[Nil] = {}
    BY Zenon, <1>2, <1>4 DEF NodeHas
  <2>2. child # Nil => child \in s[child]
    BY Zenon, <1>4 DEF NodeHas, OnItsSide
  <2> QED
    BY <2>1, <2>2
<1>6. h[n] = h[child] - delta /\ h[child] \in Nat /\ h[n] \in Nat
  <2>1. Weighed(t, h, n, LEFT, 0)
    BY <1>1, SideFacts
  <2>2. h[n] = 1 + Higher(h[Nil], h[child]) /\ h[child] \in Nat /\ h[n] \in Nat
    BY Zenon, <1>4, <2>1 DEF NodeHas
  <2>3. h[Nil] = 0 /\ delta = - 1
    BY Zenon, <1>1 DEF OneLess
  <2> QED
    BY <2>2, <2>3 DEF Higher
<1>7. /\ s1 \in [Pointers -> SUBSET Keys] /\ s1[Nil] = {}
      /\ \A c \in Pointers : s1[c] = s[c] \ {n}
  BY <1>2 DEF Without
<1> HIDE DEF s1
<1>8. v \in Trees /\ v.root = t.root /\ s1[v.root] = N \ {n}
  BY <1>2, <1>7 DEF Attached
<1>9. ASSUME NEW m \in N \ {n}, NEW d \in Sides
      PROVE  LET c  == t.link[d][m]
                 c2 == v.link[d][m]
             IN  /\ s1[c2] = s[c] \ {n}
                 /\ OnItsSide(v, s1, m, d, c2)
                 /\ h[c2] - (IF d = dir THEN (IF m = up THEN delta ELSE 0) ELSE 0) = h[c] - (IF d = dir THEN 0 ELSE 0)
  <2> DEFINE c  == t.link[d][m]
             c2 == v.link[d][m]
  <2>1. m \in Pointers /\ m # Nil
    BY <1>2
  <2>2. Hangs(t, s, m, d, c)
    BY <1>1, Links
  <2>3. c \in Pointers /\ h[c] \in Nat
    BY Zenon, <1>1, <2>2 DEF Hangs
  <2>4. CASE m = up /\ d = dir
    <3>1. c = n /\ c2 = child
      BY Zenon, <1>3, <2>1, <2>4 DEF Attached
    <3>2. s1[c2] = s[c] \ {n}
      BY <1>5, <1>7, <3>1
    <3>3. c2 # Nil => c2 \in s1[c2]
      <4>1. child # Nil => child \in s[child]
        BY Zenon, <1>4 DEF NodeHas, OnItsSide
      <4>2. child # n
        BY Zenon, <1>4 DEF NodeHas
      <4> QED
        BY <1>5, <1>7, <3>1, <4>1, <4>2
    <3>4. c2 # Nil => v.parent[c2] = m
      BY Zenon, <1>5, <2>4, <3>1 DEF Attached
    <3>5. \A x \in s1[c2] : OnSide(d, x, m)
      BY Zenon, <2>2, <3>2 DEF Hangs
    <3>6. OnItsSide(v, s1, m, d, c2)
      BY Zenon, <3>3, <3>4, <3>5 DEF OnItsSide
    <3>7. h[c2] - (IF d = dir THEN (IF m = up THEN delta ELSE 0) ELSE 0) = h[c] - (IF d = dir THEN 0 ELSE 0)
      <4>1. h[child] - delta = h[n] - 0
        BY <1>6
      <4> QED
        BY Zenon, <2>4, <3>1, <4>1
    <3> QED
      BY Zenon, <3>2, <3>6, <3>7
  <2>5. CASE ~ (m = up /\ d = dir)
    <3>1. c2 = c
      BY <2>1, <2>5 DEF Attached
    <3>2. s1[c2] = s[c] \ {n}
      BY Zenon, <1>7, <2>3, <3>1
    <3>3. c # n
      <4> SUFFICES ASSUME c = n PROVE FALSE
        OBVIOUS
      <4>1. t.parent[n] = m
        BY <1>2, <2>2 DEF Hangs
      <4> QED
        BY <1>3, <2>5, <4>1
    <3>4. c # Nil => c \in s1[c] /\ v.parent[c] = m
      <4> SUFFICES ASSUME c # Nil PROVE c \in s1[c] /\ v.parent[c] = m
        OBVIOUS
      <4>1. c \in s[c] /\ t.parent[c] = m
        BY Zenon, <2>2 DEF Hangs
      <4>2. c # child
        <5> SUFFICES ASSUME c = child PROVE FALSE
          OBVIOUS
        <5>1. t.parent[child] = n
          BY Zenon, <1>4 DEF NodeHas, OnItsSide
        <5> QED
          BY <4>1, <5>1
      <4>3. v.parent[c] = t.parent[c]
        BY <2>3, <4>2 DEF Attached
      <4> QED
        BY Zenon, <1>7, <2>3, <3>3, <4>1, <4>3
    <3>5. OnItsSide(v, s1, m, d, c2)
      BY Zenon, <2>2, <3>1, <3>2, <3>4 DEF Hangs, OnItsSide
    <3> QED
      BY Zenon, <2>3, <2>5, <3>1, <3>2, <3>5
  <2> QED
    BY Zenon, <2>4, <2>5
<1>10. ASSUME NEW m \in N \ {n}
       PROVE  Placed(v, s1, m) /\ Weighed(v, h, m, dir, IF m = up THEN delta ELSE 0)
  <2>1. m \in Pointers /\ m # Nil
    BY <1>2
  <2>2. Placed(t, s, m) /\ Weighed(t, h, m, dir, 0)
    BY Zenon, <1>1, <1>3 DEF SearchTree
  <2>3. s1[m] = {m} \cup s1[v.link[LEFT][m]] \cup s1[v.link[RIGHT][m]]
    <3>1. /\ s1[v.link[LEFT][m]] = s[t.link[LEFT][m]] \ {n}
          /\ s1[v.link[RIGHT][m]] = s[t.link[RIGHT][m]] \ {n}
      BY <1>9, SideFacts
    <3>2. s1[m] = s[m] \ {n} /\ s[m] = {m} \cup s[t.link[LEFT][m]] \cup s[t.link[RIGHT][m]]
      BY Zenon, <1>7, <2>1, <2>2 DEF Placed
    <3> QED
      BY Zenon, <3>1, <3>2
  <2>4. Placed(v, s1, m)
    BY Zenon, <1>9, <2>3, SideFacts DEF Placed, OnItsSide
  <2>5. v.bal[m] = t.bal[m]
    BY <2>1 DEF Attached
  <2>6. /\ h[v.link[LEFT][m]] - (IF LEFT = dir THEN (IF m = up THEN delta ELSE 0) ELSE 0)
             = h[t.link[LEFT][m]] - (IF LEFT = dir THEN 0 ELSE 0)
        /\ h[v.link[RIGHT][m]] - (IF RIGHT = dir THEN (IF m = up THEN delta ELSE 0) ELSE 0)
             = h[t.link[RIGHT][m]] - (IF RIGHT = dir THEN 0 ELSE 0)
    BY Zenon, <1>9, SideFacts
  <2> QED
    BY Zenon, <2>2, <2>4, <2>5, <2>6 DEF Weighed
<1>11. SearchTree(v, s1)
  <2>1. v.parent[t.root] = t.parent[t.root]
    <3>1. t.root # child
      <4> SUFFICES ASSUME t.root = child PROVE FALSE
        OBVIOUS
      <4>1. t.parent[child] = n
        BY Zenon, <1>2, <1>4 DEF NodeHas, OnItsSide
      <4> QED
        BY Zenon, <1>2, <4>1
    <3> QED
      BY <1>2, <3>1 DEF Attached
  <2> QED
    BY Zenon, <1>2, <1>3, <1>7, <1>8, <1>10, <2>1 DEF SearchTree
<1>12. Pending(v, s1, h, up, dir, delta)
  BY Zenon, <1>1, <1>8, <1>10, <1>11 DEF Pending
<1>13. Lifted(t, s, v, n)
  BY Zenon, <1>8, <1>9 DEF Lifted, s1
<1> QED
  BY Zenon, <1>3, <1>12, <1>13 DEF s1

\* t with another root.
WithRoot(t, n) == [t EXCEPT !.root = n]

\* The only child of the root becomes the root.
LEMMA RootLifts ==
  ASSUME NEW t, NEW s, NEW h, Sound(t, s, h), NEW n \in s[t.root], NEW e \in Sides,
         t.link[e][n] = Nil, NEW child, child = t.link[1 - e][n], t.parent[n] = Nil,
         NEW u, u = SetParent(WithRoot(t, child), child, Nil)
  PROVE  Sound(u, s, h) /\ s[u.root] = s[t.root] \ {n} /\ u.link = t.link
<1> DEFINE N == s[t.root]
           v == WithRoot(t, child)
<1>1. /\ SearchTree(t, s) /\ h \in [Pointers -> Nat] /\ h[Nil] = 0
      /\ \A m \in N : Weighed(t, h, m, LEFT, 0)
  BY DEF Sound, Pending
<1>2. /\ t \in Trees /\ s \in [Pointers -> SUBSET Keys] /\ s[Nil] = {} /\ N \subseteq Keys
      /\ Nil \notin Keys /\ Keys \subseteq Pointers /\ Nil \in Pointers
      /\ \A m \in N : Placed(t, s, m)
  BY <1>1, KeysFinite, TreeFields, SideFacts DEF SearchTree
<1>3. n = t.root
  BY <1>1, ParentLink DEF IsChild
<1>4. NodeHas(t, s, h, n, e, Nil, child)
  BY <1>1, NodeFacts
<1>5. /\ child \in Pointers /\ s[n] \ {n} = s[child] /\ n \notin s[child] /\ child # n
      /\ child # Nil => child \in s[child] /\ t.parent[child] = n
  BY <1>2, <1>4 DEF NodeHas, OnItsSide
<1>6. v \in Trees /\ v.root = child /\ v.link = t.link /\ v.parent = t.parent /\ v.bal = t.bal
  BY <1>2, <1>5 DEF Trees, WithRoot
<1> HIDE DEF v
<1>7. ParentSet(v, u, child, Nil)
  BY <1>2, <1>5, <1>6, SetParentIs DEF v
<1>8. /\ u \in Trees /\ u.root = child /\ u.link = t.link /\ u.bal = t.bal
      /\ \A m \in Pointers : u.parent[m] = IF m # Nil /\ m = child THEN Nil ELSE t.parent[m]
  BY Zenon, <1>6, <1>7 DEF ParentSet
<1>9. s[u.root] = N \ {n}
  BY Zenon, <1>3, <1>5, <1>8
<1>10. ASSUME NEW m \in N \ {n} PROVE Placed(u, s, m) /\ Weighed(u, h, m, LEFT, 0)
  <2>1. Placed(t, s, m) /\ Weighed(t, h, m, LEFT, 0)
    BY <1>1, <1>2
  <2>2. Weighed(u, h, m, LEFT, 0)
    BY Zenon, <1>8, <2>1 DEF Weighed
  <2>3. ASSUME NEW d \in Sides
        PROVE  LET c == u.link[d][m]
               IN  /\ c # Nil => c \in s[c] /\ u.parent[c] = m
                   /\ \A x \in s[c] : OnSide(d, x, m)
    <3>1. Hangs(t, s, m, d, t.link[d][m])
      BY <1>1, Links
    <3>2. u.link[d][m] = t.link[d][m]
      BY <1>8
    <3>3. t.link[d][m] # Nil => u.parent[t.link[d][m]] = t.parent[t.link[d][m]]
      BY <1>5, <1>8, <3>1 DEF Hangs
    <3> QED
      BY Zenon, <3>1, <3>2, <3>3 DEF Hangs
  <2>4. s[m] = {m} \cup s[u.link[LEFT][m]] \cup s[u.link[RIGHT][m]]
    BY Zenon, <1>8, <2>1 DEF Placed
  <2>5. Placed(u, s, m)
    BY Zenon, <1>8, <2>3, <2>4 DEF Placed
  <2> QED
    BY <2>2, <2>5
<1>11. SearchTree(u, s)
  BY Zenon, <1>2, <1>5, <1>8, <1>9, <1>10 DEF SearchTree
<1> QED
  BY Zenon, <1>1, <1>2, <1>8, <1>9, <1>10, <1>11 DEF Sound, Pending

\* What a removal has to leave behind before n is cleared.
Removed(t, s, u, s2, h2, n) ==
  /\ Sound(u, s2, h2) /\ s2[u.root] = s[t.root] \ {n}
  /\ \A m \in Pointers \ s[t.root], d \in Sides : u.link[d][m] = Nil

\* The removal of a node that has one child at most.
LEMMA RemoveOuterIs ==
  ASSUME NEW t, NEW s, NEW h, Sound(t, s, h), Clean(t, s), NEW n \in s[t.root],
         t.link[LEFT][n] = Nil \/ t.link[RIGHT][n] = Nil,
         NEW u, u = RemoveOuter(t, n)
  PROVE  \E s2, h2 : Removed(t, s, u, s2, h2, n)
<1>1. SearchTree(t, s) /\ t \in Trees /\ s[t.root] \subseteq Keys /\ n \in Pointers
  BY SizesFall, SideFacts DEF Sound, Pending, SearchTree
<1>2. PICK child, up, dir :
        /\ child = IF t.link[LEFT][n] = Nil THEN t.link[RIGHT][n] ELSE t.link[LEFT][n]
        /\ up = t.parent[n] /\ dir = Side(t.link[RIGHT][up] = n)
  OBVIOUS
<1>3. /\ up = Nil => u = SetParent(WithRoot(t, child), child, Nil)
      /\ up # Nil => u = Shrunk(Attach(t, up, dir, child), up, dir)
  BY Zenon, <1>2 DEF RemoveOuter, WithRoot
<1>4. PICK e \in Sides : t.link[e][n] = Nil /\ child = t.link[1 - e][n]
  <2>1. LEFT = 1 - RIGHT /\ RIGHT = 1 - LEFT
    BY DEF LEFT, RIGHT
  <2>2. CASE t.link[LEFT][n] = Nil
    BY <1>2, <2>1, <2>2, SideFacts
  <2>3. CASE t.link[LEFT][n] # Nil
    BY <1>2, <2>1, <2>3, SideFacts
  <2> QED
    BY <2>2, <2>3
<1>5. up \in Pointers /\ dir \in Sides /\ child \in Pointers
  BY <1>1, <1>2, <1>4, TreeFields, SideTyped, Opposite
<1>6. CASE up = Nil
  <2>1. Sound(u, s, h) /\ s[u.root] = s[t.root] \ {n} /\ u.link = t.link
    <3>1. u = SetParent(WithRoot(t, child), child, Nil) /\ t.parent[n] = Nil
      BY <1>2, <1>3, <1>6
    <3> QED
      BY <1>4, <3>1, RootLifts
  <2> QED
    BY <2>1 DEF Removed, Clean
<1>7. CASE up # Nil
  <2>1. PICK v : v = Attach(t, up, dir, child)
    OBVIOUS
  <2>2. PICK delta \in Int : OneLess(delta)
    BY DEF OneLess
  <2>3. Attached(t, v, up, dir, child)
    BY <1>1, <1>5, <2>1, AttachIs
  <2>4. /\ Pending(v, Without(s, n), h, up, dir, delta)
        /\ up \in s[t.root] /\ up # n /\ Lifted(t, s, v, n)
    BY <1>2, <1>4, <1>7, <2>2, <2>3, LiftIs
  <2>5. delta # 1
    BY <2>2 DEF OneLess
  <2>6. Climbing(delta, v, Without(s, n), h, up, dir)
    BY <2>4, <2>5 DEF Climbing, Lifted
  <2>7. u = Shrunk(v, up, dir)
    BY <1>3, <1>7, <2>1
  <2>8. PICK s2, h2 : Sound(u, s2, h2) /\ SameNodes(v, Without(s, n), u, s2)
    BY <1>5, <2>2, <2>6, <2>7, ShrunkIs
  <2>9. s2[u.root] = s[t.root] \ {n}
    BY <2>4, <2>8 DEF SameNodes, Lifted
  <2>10. ASSUME NEW m \in Pointers \ s[t.root], NEW d \in Sides PROVE u.link[d][m] = Nil
    <3>1. u.link[d][m] = v.link[d][m]
      BY <2>4, <2>8 DEF SameNodes, Lifted
    <3>2. v.link[d][m] = t.link[d][m]
      BY <2>3, <2>4 DEF Attached
    <3> QED
      BY <3>1, <3>2 DEF Clean
  <2> QED
    BY <2>8, <2>9, <2>10 DEF Removed
<1> QED
  BY <1>6, <1>7

\* Clearing a node outside the tree does nothing to the tree.
LEMMA ClearedIs ==
  ASSUME NEW t, NEW s, NEW u, NEW s2, NEW h2, NEW n \in s[t.root], n \in Keys,
         Removed(t, s, u, s2, h2, n), NEW w, w = NewLeaf(u, n, Nil)
  PROVE  Sound(w, s2, h2) /\ Clean(w, s2) /\ s2[w.root] = s[t.root] \ {n}
<1>1. /\ SearchTree(u, s2) /\ h2 \in [Pointers -> Nat] /\ h2[Nil] = 0
      /\ s2[u.root] = s[t.root] \ {n}
      /\ \A m \in s2[u.root] : Placed(u, s2, m) /\ Weighed(u, h2, m, LEFT, 0)
      /\ \A m \in Pointers \ s[t.root], d \in Sides : u.link[d][m] = Nil
  BY DEF Removed, Sound, Pending, SearchTree
<1>2. /\ u \in Trees /\ s2 \in [Pointers -> SUBSET Keys] /\ s2[u.root] \subseteq Keys
      /\ Keys \subseteq Pointers /\ Nil \in Pointers /\ Nil \notin Keys
  BY <1>1, SizesFall, SideFacts, KeysFinite DEF SearchTree
<1>3. Leaf(u, w, n, Nil)
  BY <1>2, NewLeafIs
<1>4. /\ w \in Trees /\ w.root = u.root
      /\ \A x \in Sides, m \in Pointers : w.link[x][m] = IF m = n THEN Nil ELSE u.link[x][m]
      /\ \A m \in Pointers : /\ w.parent[m] = IF m = n THEN Nil ELSE u.parent[m]
                             /\ w.bal[m] = IF m = n THEN 0 ELSE u.bal[m]
  BY <1>3 DEF Leaf
<1>5. ASSUME NEW m \in s2[u.root] PROVE Placed(w, s2, m) /\ Weighed(w, h2, m, LEFT, 0)
  <2>1. m \in Pointers /\ m # n
    BY <1>1, <1>2
  <2>2. Placed(u, s2, m) /\ Weighed(u, h2, m, LEFT, 0)
    BY <1>1
  <2>3. w.link[LEFT][m] = u.link[LEFT][m] /\ w.link[RIGHT][m] = u.link[RIGHT][m] /\ w.bal[m] = u.bal[m]
    BY <1>4, <2>1, SideFacts
  <2>4. Weighed(w, h2, m, LEFT, 0)
    BY <2>2, <2>3 DEF Weighed
  <2>5. ASSUME NEW d \in Sides
        PROVE  LET c == w.link[d][m]
               IN  /\ c # Nil => c \in s2[c] /\ w.parent[c] = m
                   /\ \A x \in s2[c] : OnSide(d, x, m)
    <3>1. w.link[d][m] = u.link[d][m]
      BY <1>4, <2>1
    <3>2. Hangs(u, s2, m, d, u.link[d][m]) /\ (u.link[d][m] # Nil => u.link[d][m] \in s2[u.root])
      BY <1>1, Links, SizesFall
    <3> QED
      BY <1>1, <1>2, <1>4, <3>1, <3>2 DEF Hangs
  <2>6. s2[m] = {m} \cup s2[w.link[LEFT][m]] \cup s2[w.link[RIGHT][m]]
    BY <2>2, <2>3 DEF Placed
  <2>7. Placed(w, s2, m)
    BY <2>5, <2>6 DEF Placed
  <2> QED
    BY <2>4, <2>7
<1>6. SearchTree(w, s2)
  <2>1. w.root # Nil => w.root \in s2[w.root] /\ w.parent[w.root] = Nil
    BY <1>1, <1>2, <1>4 DEF SearchTree
  <2> QED
    BY <1>1, <1>4, <1>5, <2>1 DEF SearchTree
<1>7. Sound(w, s2, h2)
  BY <1>1, <1>4, <1>5, <1>6 DEF Sound, Pending
<1>8. Clean(w, s2)
  BY <1>1, <1>4 DEF Clean
<1> QED
  BY <1>1, <1>4, <1>7, <1>8

\* prev in the place of n: for a node, and in a set of nodes.
Stand(n, prev, x) == IF x = n THEN prev ELSE x
Swap(S, n, prev) == IF n \in S THEN (S \ {n}) \cup {prev} ELSE S

\* u is v with prev in the place of n.
Substituted(v, s, u, n, prev) ==
  /\ u \in Trees /\ u.root = Stand(n, prev, v.root)
  /\ \A x \in Sides : u.link[x][prev] = v.link[x][n]
  /\ u.parent[prev] = v.parent[n] /\ u.bal[prev] = v.bal[n]
  /\ \A m \in s[v.root] \ {n} :
       /\ \A x \in Sides : u.link[x][m] = Stand(n, prev, v.link[x][m])
       /\ u.parent[m] = Stand(n, prev, v.parent[m]) /\ u.bal[m] = v.bal[m]

\* prev is on the same side as n of all that is above n or below it.
StandsIn(v, s, n, prev) ==
  /\ \A d \in Sides : \A m \in s[v.link[d][n]] : OnSide(d, m, prev)
  /\ \A c \in s[v.root], d \in Sides : n \in s[v.link[d][c]] => OnSide(d, prev, c)

\* prev stands for n in a node's subtree if it does in its parts.
LEMMA SwapIs ==
  ASSUME NEW n, NEW prev, NEW m, NEW A, NEW B
  PROVE  Swap({m} \cup A \cup B, n, prev) = {Stand(n, prev, m)} \cup Swap(A, n, prev) \cup Swap(B, n, prev)
<1>1. CASE m = n
  <2>1. Stand(n, prev, m) = prev
    BY <1>1 DEF Stand
  <2>2. Swap({m} \cup A \cup B, n, prev) = (({m} \cup A \cup B) \ {n}) \cup {prev}
    BY <1>1 DEF Swap
  <2>3. Swap(A, n, prev) \cup {prev} = (A \ {n}) \cup {prev} /\ Swap(B, n, prev) \cup {prev} = (B \ {n}) \cup {prev}
    BY DEF Swap
  <2> QED
    BY <1>1, <2>1, <2>2, <2>3
<1>2. CASE m # n
  <2>1. Stand(n, prev, m) = m
    BY <1>2 DEF Stand
  <2> QED
    BY <1>2, <2>1 DEF Swap
<1> QED
  BY <1>1, <1>2

\* A tree with prev in the place of n is as sound as it was with n.
LEMMA SubstitutedIs ==
  ASSUME NEW v, NEW s, NEW h, NEW scan, NEW dir \in Sides, NEW delta \in Int,
         Pending(v, s, h, scan, dir, delta), NEW n \in s[v.root], NEW prev \in Keys,
         scan \in s[v.root], prev \notin s[v.root], StandsIn(v, s, n, prev),
         NEW u, Substituted(v, s, u, n, prev)
  PROVE  \E s2, h2 : /\ Pending(u, s2, h2, Stand(n, prev, scan), dir, delta)
                     /\ s2[u.root] = Swap(s[v.root], n, prev)
<1> DEFINE N == s[v.root]
           s2 == [c \in Pointers |-> Swap(s[IF c = prev THEN n ELSE c], n, prev)]
           h2 == [c \in Pointers |-> h[IF c = prev THEN n ELSE c]]
           R(c) == Stand(n, prev, c)
<1>1. /\ SearchTree(v, s) /\ h \in [Pointers -> Nat] /\ h[Nil] = 0
      /\ \A m \in N : Weighed(v, h, m, dir, IF m = scan THEN delta ELSE 0) /\ Placed(v, s, m)
  BY DEF Pending, SearchTree
<1>2. /\ v \in Trees /\ s \in [Pointers -> SUBSET Keys] /\ s[Nil] = {} /\ N \subseteq Keys
      /\ v.root \in Pointers /\ v.root # Nil /\ v.root \in N /\ v.parent[v.root] = Nil
      /\ Nil \notin Keys /\ Keys \subseteq Nat /\ Keys \subseteq Pointers /\ Nil \in Pointers /\ Nil \notin N
      /\ n # prev /\ prev # Nil /\ n # Nil /\ n \in Pointers /\ prev \in Pointers
  BY <1>1, KeysFinite, TreeFields, SideFacts DEF SearchTree
<1>3. /\ s2 \in [Pointers -> SUBSET Keys] /\ s2[Nil] = {}
      /\ \A c \in N \cup {Nil} : R(c) \in Pointers /\ s2[R(c)] = Swap(s[c], n, prev)
  <2>1. \A c \in Pointers : s[c] \in SUBSET Keys /\ Swap(s[c], n, prev) \in SUBSET Keys
    BY <1>2 DEF Swap
  <2>2. s2 \in [Pointers -> SUBSET Keys]
    BY <1>2, <2>1
  <2>3. \A c \in N \cup {Nil} : c # prev /\ c \in Pointers
    BY <1>2
  <2>4. \A c \in N \cup {Nil} : R(c) \in Pointers /\ s2[R(c)] = Swap(s[c], n, prev)
    BY <1>2, <2>3 DEF Stand
  <2>5. R(Nil) = Nil /\ Swap(s[Nil], n, prev) = {}
    BY <1>2 DEF Stand, Swap
  <2> HIDE DEF s2, R
  <2> QED
    BY <2>2, <2>4, <2>5
<1>4. /\ h2 \in [Pointers -> Nat] /\ h2[Nil] = 0
      /\ \A c \in N \cup {Nil} : h2[R(c)] = h[c]
  <2>1. h2 \in [Pointers -> Nat]
    BY <1>1, <1>2
  <2>2. \A c \in N \cup {Nil} : c # prev /\ c \in Pointers
    BY <1>2
  <2>3. \A c \in N \cup {Nil} : h2[R(c)] = h[c]
    BY <1>2, <2>2 DEF Stand
  <2>4. R(Nil) = Nil
    BY <1>2 DEF Stand
  <2> HIDE DEF h2, R
  <2> QED
    BY <1>1, <2>1, <2>3, <2>4
<1> HIDE DEF s2, h2
<1>5. /\ u \in Trees /\ u.root = R(v.root)
      /\ \A m \in N : u.bal[R(m)] = v.bal[m]
  <2>1. \A m \in N : u.bal[R(m)] = v.bal[m]
    BY DEF Substituted, Stand
  <2> QED
    BY <2>1 DEF Substituted
<1>6. s2[u.root] = Swap(N, n, prev)
  BY <1>2, <1>3, <1>5
<1>7. ASSUME NEW m \in N, NEW d \in Sides
      PROVE  LET c  == v.link[d][m]
                 c2 == u.link[d][R(m)]
             IN  /\ s2[c2] = Swap(s[c], n, prev) /\ h2[c2] = h[c]
                 /\ OnItsSide(u, s2, R(m), d, c2)
  <2> DEFINE c  == v.link[d][m]
             c2 == u.link[d][R(m)]
  <2>1. m \in Pointers /\ m # Nil /\ m # prev
    BY <1>2
  <2>2. Hangs(v, s, m, d, c)
    BY <1>1, Links
  <2>3. c \in N \cup {Nil} /\ c \in Pointers /\ c # m /\ c # prev
    BY <1>1, <1>2, SizesFall
  <2>4. c2 = R(c)
    <3>1. CASE m = n
      <4>1. c2 = c
        BY <3>1 DEF Stand, Substituted
      <4> QED
        BY <2>3, <3>1, <4>1 DEF Stand
    <3>2. CASE m # n
      <4>1. c2 = u.link[d][m]
        BY <3>2 DEF Stand
      <4> QED
        BY <3>2, <4>1 DEF Substituted
    <3> QED
      BY <3>1, <3>2
  <2>5. s2[c2] = Swap(s[c], n, prev) /\ h2[c2] = h[c]
    BY <1>3, <1>4, <2>3, <2>4
  <2>6. c2 # Nil => c2 \in s2[c2] /\ u.parent[c2] = R(m)
    <3> SUFFICES ASSUME c2 # Nil PROVE c2 \in s2[c2] /\ u.parent[c2] = R(m)
      OBVIOUS
    <3>1. c # Nil
      BY <1>2, <2>4 DEF Stand
    <3>2. c \in s[c] /\ v.parent[c] = m /\ c \in N
      BY <2>2, <2>3, <3>1 DEF Hangs
    <3>3. c2 \in s2[c2]
      BY <2>4, <2>5, <3>2 DEF Swap, Stand
    <3>4. u.parent[c2] = R(m)
      <4>1. CASE c = n
        <5>1. c2 = prev /\ u.parent[prev] = v.parent[n] /\ R(m) = m
          BY <2>3, <2>4, <4>1 DEF Stand, Substituted
        <5> QED
          BY <3>2, <4>1, <5>1
      <4>2. CASE c # n
        <5>1. c2 = c
          BY <2>4, <4>2 DEF Stand
        <5>2. u.parent[c] = Stand(n, prev, v.parent[c])
          BY <3>2, <4>2 DEF Substituted
        <5> QED
          BY <3>2, <5>1, <5>2
      <4> QED
        BY <4>1, <4>2
    <3> QED
      BY <3>3, <3>4
  <2>7. ASSUME NEW x \in s2[c2] PROVE OnSide(d, x, R(m))
    <3>1. (x \in s[c] /\ x # n) \/ (x = prev /\ n \in s[c])
          \/ (n \notin s[c] /\ x \in s[c])
      BY <2>5, <2>7 DEF Swap
    <3>2. CASE m = n
      <4>1. n \notin s[c] /\ R(m) = prev
        BY <2>2, <3>2 DEF Hangs, Stand
      <4>2. x \in s[v.link[d][n]]
        BY <3>1, <3>2, <4>1
      <4> QED
        BY <4>1, <4>2 DEF StandsIn
    <3>3. CASE m # n
      <4>1. R(m) = m
        BY <3>3 DEF Stand
      <4>2. x \in s[c] \/ (x = prev /\ n \in s[c])
        BY <3>1
      <4>3. x \in s[c] => OnSide(d, x, m)
        BY <2>2 DEF Hangs
      <4>4. n \in s[c] => OnSide(d, prev, m)
        BY DEF StandsIn
      <4> QED
        BY <4>1, <4>2, <4>3, <4>4
    <3> QED
      BY <3>2, <3>3
  <2>8. OnItsSide(u, s2, R(m), d, c2)
    BY <2>6, <2>7 DEF OnItsSide
  <2> QED
    BY <2>5, <2>8
<1>8. ASSUME NEW m \in N
      PROVE  /\ Placed(u, s2, R(m))
             /\ Weighed(u, h2, R(m), dir, IF m = scan THEN delta ELSE 0)
  <2>1. Placed(v, s, m) /\ Weighed(v, h, m, dir, IF m = scan THEN delta ELSE 0)
    BY <1>1
  <2>2. s2[R(m)] = {R(m)} \cup s2[u.link[LEFT][R(m)]] \cup s2[u.link[RIGHT][R(m)]]
    <3>1. s2[R(m)] = Swap(s[m], n, prev)
      BY <1>3
    <3>2. s[m] = {m} \cup s[v.link[LEFT][m]] \cup s[v.link[RIGHT][m]]
      BY <2>1 DEF Placed
    <3>3. /\ s2[u.link[LEFT][R(m)]] = Swap(s[v.link[LEFT][m]], n, prev)
          /\ s2[u.link[RIGHT][R(m)]] = Swap(s[v.link[RIGHT][m]], n, prev)
      BY <1>7, SideFacts
    <3> QED
      BY <3>1, <3>2, <3>3, SwapIs
  <2>3. Placed(u, s2, R(m))
    <3> HIDE DEF R
    <3> QED
      BY <1>7, <2>2 DEF Placed, OnItsSide
  <2>4. /\ h2[u.link[LEFT][R(m)]] = h[v.link[LEFT][m]]
        /\ h2[u.link[RIGHT][R(m)]] = h[v.link[RIGHT][m]]
        /\ h2[R(m)] = h[m] /\ u.bal[R(m)] = v.bal[m]
    BY <1>4, <1>5, <1>7, SideFacts
  <2>5. Weighed(u, h2, R(m), dir, IF m = scan THEN delta ELSE 0)
    <3> HIDE DEF R
    <3> QED
      BY <2>1, <2>4 DEF Weighed
  <2> QED
    BY <2>3, <2>5
<1>9. ASSUME NEW x \in s2[u.root]
      PROVE  \E m \in N : x = R(m) /\ (x = R(scan) <=> m = scan)
  <2>1. CASE x = prev
    BY <1>2, <1>6, <1>9, <2>1 DEF Swap, Stand
  <2>2. CASE x # prev
    BY <1>2, <1>6, <1>9, <2>2 DEF Swap, Stand
  <2> QED
    BY <2>1, <2>2
<1>10. \A x \in s2[u.root] : Placed(u, s2, x) /\ Weighed(u, h2, x, dir, IF x = R(scan) THEN delta ELSE 0)
  <2> HIDE DEF R
  <2> SUFFICES ASSUME NEW x \in s2[u.root]
               PROVE  Placed(u, s2, x) /\ Weighed(u, h2, x, dir, IF x = R(scan) THEN delta ELSE 0)
    OBVIOUS
  <2>1. PICK m \in N : x = R(m) /\ (x = R(scan) <=> m = scan)
    BY <1>9
  <2>2. Placed(u, s2, x) /\ Weighed(u, h2, x, dir, IF m = scan THEN delta ELSE 0)
    BY <1>8, <2>1
  <2> QED
    BY <2>1, <2>2
<1>11. u.root \in s2[u.root] /\ u.parent[u.root] = Nil
  <2>1. CASE v.root = n
    <3>1. u.root = prev /\ u.parent[prev] = Nil /\ prev \in Swap(N, n, prev)
      BY <1>2, <2>1 DEF Substituted, Stand, Swap
    <3> QED
      BY <1>6, <3>1
  <2>2. CASE v.root # n
    <3>1. u.root = v.root /\ u.parent[v.root] = Nil /\ v.root \in Swap(N, n, prev)
      BY <1>2, <2>2 DEF Substituted, Stand, Swap
    <3> QED
      BY <1>6, <3>1
  <2> QED
    BY <2>1, <2>2
<1>12. SearchTree(u, s2)
  BY <1>3, <1>5, <1>10, <1>11 DEF SearchTree
<1>13. Pending(u, s2, h2, Stand(n, prev, scan), dir, delta)
  BY <1>4, <1>10, <1>12 DEF Pending
<1> QED
  BY <1>6, <1>13

\* u is w with prev, given r on its right side, in the place of n below p.
Spliced(w, u, n, prev, r, p, b) ==
  /\ u \in Trees /\ u.root = IF p = Nil THEN prev ELSE w.root
  /\ \A x \in Sides, m \in Pointers :
       u.link[x][m] = IF p # Nil /\ m = p /\ x = Side(w.link[RIGHT][p] = n) THEN prev
                      ELSE IF x = RIGHT /\ m = prev THEN r ELSE w.link[x][m]
  /\ \A m \in Pointers :
       /\ u.parent[m] = IF m = prev THEN p ELSE IF m # Nil /\ m = r THEN prev ELSE w.parent[m]
       /\ u.bal[m] = IF m = prev THEN b ELSE w.bal[m]

\* The last assignments before RemoveInner's climb, pointer by pointer.
LEMMA SplicedIs ==
  ASSUME NEW w \in Trees, NEW n, NEW prev \in Keys, NEW r \in Pointers, NEW p \in Pointers,
         p # prev, NEW b \in -1 .. 1,
         NEW u, u = LinkParent(BalancedAt(Attach(w, prev, RIGHT, r), prev, b), n, prev, p)
  PROVE  Spliced(w, u, n, prev, r, p, b)
<1> DEFINE v == Attach(w, prev, RIGHT, r)
           y == BalancedAt(v, prev, b)
<1>1. prev \in Pointers /\ prev # Nil /\ RIGHT \in Sides
  BY SideFacts, KeysFinite
<1>2. Attached(w, v, prev, RIGHT, r)
  BY <1>1, AttachIs
<1> HIDE DEF v
<1>3. v \in Trees
  BY <1>2 DEF Attached
<1>4. BalanceSet(v, y, prev, b)
  BY <1>1, <1>3, SetBalanceIs DEF BalancedAt
<1> HIDE DEF y
<1>5. y \in Trees
  BY <1>4 DEF BalanceSet
<1>6. Replaced(y, u, n, prev, p)
  BY <1>1, <1>5, LinkParentIs DEF v, y
<1>7. y.link[RIGHT][p] = w.link[RIGHT][p]
  BY <1>1, <1>2, <1>4 DEF Attached, BalanceSet
<1>8. /\ \A x \in Sides, m \in Pointers :
           y.link[x][m] = IF x = RIGHT /\ m = prev THEN r ELSE w.link[x][m]
      /\ \A m \in Pointers : /\ y.parent[m] = IF m # Nil /\ m = r THEN prev ELSE w.parent[m]
                             /\ y.bal[m] = IF m = prev THEN b ELSE w.bal[m]
      /\ y.root = w.root
  BY <1>2, <1>4 DEF Attached, BalanceSet
<1>9. /\ u \in Trees /\ u.bal = y.bal
      /\ u.root = IF p = Nil THEN prev ELSE y.root
      /\ \A x \in Sides, m \in Pointers :
           u.link[x][m] = IF p # Nil /\ x = Side(w.link[RIGHT][p] = n) /\ m = p
                          THEN prev ELSE y.link[x][m]
      /\ \A m \in Pointers : u.parent[m] = IF m # Nil /\ m = prev THEN p ELSE y.parent[m]
  BY <1>6, <1>7 DEF Replaced
<1> QED
  BY <1>1, <1>8, <1>9 DEF Spliced

\* Where the node before n is, when n has a left child.
Before(t, s, n, prev, up, dir) ==
  /\ prev \in s[t.root] /\ prev \in s[t.link[LEFT][n]] /\ prev # n
  /\ \A m \in s[t.link[LEFT][n]] : m # prev => OnSide(LEFT, m, prev)
  /\ t.link[RIGHT][prev] = Nil /\ up = t.parent[prev] /\ up \in s[t.root] /\ up # Nil
  /\ dir \in Sides /\ t.link[dir][up] = prev
  /\ up = n => dir = LEFT /\ t.link[LEFT][n] = prev
  /\ up # n => dir = RIGHT /\ t.link[LEFT][n] # prev /\ up \in s[t.link[LEFT][n]]

\* The node before n is the last one below n's left child, and has no right
\* child itself.
LEMMA BeforeIs ==
  ASSUME NEW t, NEW s, SearchTree(t, s), NEW n \in s[t.root], t.link[LEFT][n] # Nil,
         NEW prev, prev = FindPrevNodeByAddress(t, n), NEW up, up = t.parent[prev],
         NEW dir, dir = Side(t.link[RIGHT][up] = prev)
  PROVE  Before(t, s, n, prev, up, dir)
<1> DEFINE N == s[t.root]
           l == t.link[LEFT][n]
<1>1. /\ t \in Trees /\ N \subseteq Keys /\ Keys \subseteq Nat /\ Nil \notin N
      /\ 1 - LEFT = RIGHT /\ 1 - RIGHT = LEFT
  <2>1. 1 - LEFT = RIGHT /\ 1 - RIGHT = LEFT
    BY DEF LEFT, RIGHT
  <2>2. t \in Trees
    BY DEF SearchTree
  <2> QED
    BY <2>1, <2>2, SizesFall, KeysFinite
<1>2. l \in N /\ Hangs(t, s, n, LEFT, l) /\ t.parent[l] = n /\ l \in s[l] /\ n \notin s[l]
  <2>1. Hangs(t, s, n, LEFT, l) /\ n \in s[n]
    BY Zenon, SideFacts, Links
  <2>2. l \in s[t.root]
    BY SideFacts, SizesFall
  <2> QED
    BY Zenon, <2>1, <2>2 DEF Hangs
<1>3. prev = Outermost(t, l, RIGHT)
  <2>1. prev = Neighbour(t, n, LEFT)
    BY DEF FindPrevNodeByAddress
  <2> QED
    BY Zenon, <1>1, <2>1 DEF Neighbour
<1>4. Last(s[l], RIGHT, prev) /\ t.link[RIGHT][prev] = Nil
  <2>1. l \in s[t.root] /\ RIGHT \in Sides
    BY <1>2, SideFacts
  <2> HIDE DEF l, N
  <2> QED
    BY <1>3, <2>1, OutermostIs
<1>5. prev \in s[l] /\ \A m \in s[l] : m # prev => OnSide(LEFT, m, prev)
  BY <1>1, <1>4 DEF Last
<1>6. s[l] \subseteq N /\ Closed(t, s, l) /\ prev \in N /\ prev # n
  BY <1>2, <1>5, SubtreesClosed
<1>7. up # Nil
  <2> SUFFICES ASSUME up = Nil PROVE FALSE
    OBVIOUS
  <2>0. IsChild(t, s, prev, up, dir)
    BY <1>6, ParentLink
  <2>1. prev = t.root
    BY <2>0 DEF IsChild
  <2>2. l # t.root
    <3>1. n # Nil
      BY <1>1
    <3>2. t.root # Nil => t.parent[t.root] = Nil
      BY DEF SearchTree
    <3> QED
      BY <1>2, <3>1, <3>2
  <2>3. t.root \notin s[l]
    BY Zenon, <1>2, <1>6, <2>1, <2>2, SubtreesClosed DEF Closed
  <2> QED
    BY <1>5, <2>1, <2>3
<1>8. /\ dir \in Sides /\ up \in N /\ t.link[dir][up] = prev
      /\ \A d \in Sides : t.link[d][up] = prev => d = dir
  <2>1. IsChild(t, s, prev, up, dir)
    BY <1>6, ParentLink
  <2> QED
    BY Zenon, <1>7, <2>1 DEF IsChild
<1>9. ASSUME up = n PROVE dir = LEFT /\ l = prev
  <2>1. prev # l => t.parent[prev] \in s[l]
    BY Zenon, <1>5, <1>6 DEF Closed
  <2>2. prev = l
    BY <1>2, <1>9, <2>1
  <2> QED
    BY <1>8, <1>9, <2>2, SideFacts
<1>10. ASSUME up # n PROVE dir = RIGHT /\ l # prev /\ up \in s[l]
  <2>1. l # prev
    BY <1>2, <1>10
  <2>2. up \in s[l]
    BY Zenon, <1>5, <1>6, <2>1 DEF Closed
  <2>3. prev \in s[prev] /\ Hangs(t, s, up, dir, prev) /\ up \in Nat /\ prev \in Nat
    <3>1. Hangs(t, s, up, dir, prev)
      <4>1. up \in s[t.root] /\ dir \in Sides /\ t.link[dir][up] = prev
        BY <1>8
      <4>2. \A d \in Sides : Hangs(t, s, up, d, t.link[d][up])
        BY <4>1, Links
      <4> QED
        BY <4>1, <4>2
    <3>2. prev \in s[prev]
      BY Zenon, <1>6, Links
    <3>3. up \in Nat /\ prev \in Nat
      BY <1>1, <1>6, <1>8
    <3> QED
      BY <3>1, <3>2, <3>3
  <2>4. OnSide(dir, prev, up) /\ prev # up
    <3>1. OnSide(dir, prev, up)
      BY <2>3 DEF Hangs
    <3>2. dir \in Sides /\ up \in Nat /\ prev \in Nat
      BY <1>8, <2>3
    <3>3. \A a, b \in Nat : OnSide(dir, a, b) => a # b
      BY <3>2, Opposite
    <3> QED
      BY <3>1, <3>2, <3>3
  <2>5. OnSide(LEFT, up, prev)
    BY <1>5, <2>2, <2>4
  <2>6. dir # LEFT
    BY <2>3, <2>4, <2>5 DEF OnSide, LEFT
  <2> QED
    BY Zenon, <1>8, <2>1, <2>2, <2>6, SideFacts
<1> QED
  BY Zenon, <1>4, <1>5, <1>6, <1>7, <1>8, <1>9, <1>10 DEF Before

\* w is v with the left child of n on prev too.
Woven(v, w, n, prev) ==
  /\ w \in Trees /\ w.root = v.root /\ w.bal = v.bal
  /\ \A x \in Sides, m \in Pointers \ {n, prev} : w.link[x][m] = v.link[x][m]
  /\ w.link[LEFT][prev] = v.link[LEFT][n]
  /\ \A m \in Keys \ {n, prev} :
       w.parent[m] = IF m = v.link[LEFT][n] THEN prev ELSE v.parent[m]

\* These assignments put prev in the place of n.
LEMMA SplicedSubstitutes ==
  ASSUME NEW v, NEW s, SearchTree(v, s), NEW n \in s[v.root], NEW prev \in Keys, prev \notin s[v.root],
         NEW w, Woven(v, w, n, prev),
         NEW u, Spliced(w, u, n, prev, v.link[RIGHT][n], v.parent[n], v.bal[n])
  PROVE  /\ Substituted(v, s, u, n, prev)
         /\ \A x \in Sides, m \in (Pointers \ s[v.root]) \ {prev} : u.link[x][m] = v.link[x][m]
<1> DEFINE N == s[v.root]
           p == v.parent[n]
           x0 == Side(v.link[RIGHT][p] = n)
<1>1. /\ v \in Trees /\ N \subseteq Keys /\ Nil \notin Keys /\ Keys \subseteq Pointers
      /\ n \in Keys /\ n # prev /\ prev # Nil /\ n # Nil /\ s[Nil] = {}
      /\ v.root \in N /\ v.parent[v.root] = Nil
  BY SizesFall, SideFacts, KeysFinite DEF SearchTree
<1>2. IsChild(v, s, n, p, x0) /\ n \in s[n]
  BY ParentLink, Links
<1>3. p \in Pointers /\ p # prev /\ p # n /\ (p # Nil => p \in N) /\ (p = Nil <=> n = v.root)
  BY <1>1, <1>2, TreeFields DEF IsChild
<1>4. w.link[RIGHT][p] = v.link[RIGHT][p]
  BY <1>3, SideFacts DEF Woven
<1>5. /\ u \in Trees /\ u.root = IF p = Nil THEN prev ELSE v.root
      /\ \A x \in Sides, m \in Pointers :
           u.link[x][m] = IF p # Nil /\ m = p /\ x = x0 THEN prev
                          ELSE IF x = RIGHT /\ m = prev THEN v.link[RIGHT][n] ELSE w.link[x][m]
      /\ \A m \in Pointers :
           /\ u.parent[m] = IF m = prev THEN p
                            ELSE IF m # Nil /\ m = v.link[RIGHT][n] THEN prev ELSE w.parent[m]
           /\ u.bal[m] = IF m = prev THEN v.bal[n] ELSE v.bal[m]
  BY <1>4 DEF Spliced, Woven
<1>6. u.root = Stand(n, prev, v.root)
  BY <1>3, <1>5 DEF Stand
<1>7. \A x \in Sides : u.link[x][prev] = v.link[x][n]
  <2>1. u.link[LEFT][prev] = v.link[LEFT][n]
    BY <1>1, <1>3, <1>5, SideFacts DEF Woven
  <2>2. u.link[RIGHT][prev] = v.link[RIGHT][n]
    BY <1>1, <1>3, <1>5, SideFacts
  <2> QED
    BY <2>1, <2>2, SideFacts
<1>8. u.parent[prev] = v.parent[n] /\ u.bal[prev] = v.bal[n]
  BY <1>1, <1>5
<1>9. ASSUME NEW m \in N \ {n}
      PROVE  /\ \A x \in Sides : u.link[x][m] = Stand(n, prev, v.link[x][m])
             /\ u.parent[m] = Stand(n, prev, v.parent[m]) /\ u.bal[m] = v.bal[m]
  <2>1. m \in Pointers /\ m \in Keys /\ m # prev /\ m # n /\ m # Nil
    BY <1>1
  <2>2. ASSUME NEW x \in Sides PROVE u.link[x][m] = Stand(n, prev, v.link[x][m])
    <3>1. w.link[x][m] = v.link[x][m]
      BY <2>1 DEF Woven
    <3>2. u.link[x][m] = IF p # Nil /\ m = p /\ x = x0 THEN prev ELSE v.link[x][m]
      BY <1>5, <2>1, <3>1
    <3>3. Hangs(v, s, m, x, v.link[x][m])
      BY Links
    <3>4. v.link[x][m] = n <=> p # Nil /\ m = p /\ x = x0
      <4>1. v.link[x][m] = n => m = p
        BY <1>1, <3>3 DEF Hangs
      <4>2. v.link[x][m] = n /\ m = p => x = x0
        BY <1>2, <2>1 DEF IsChild
      <4>3. p # Nil => v.link[x0][p] = n
        BY <1>2 DEF IsChild
      <4> QED
        BY <2>1, <4>1, <4>2, <4>3
    <3> QED
      BY <3>2, <3>4 DEF Stand
  <2>3. u.parent[m] = Stand(n, prev, v.parent[m])
    <3>1. u.parent[m] = IF m = v.link[RIGHT][n] \/ m = v.link[LEFT][n] THEN prev ELSE v.parent[m]
      BY <1>5, <2>1 DEF Woven
    <3>2. m = v.link[RIGHT][n] \/ m = v.link[LEFT][n] => v.parent[m] = n
      <4>1. Hangs(v, s, n, LEFT, v.link[LEFT][n]) /\ Hangs(v, s, n, RIGHT, v.link[RIGHT][n])
        BY Links, SideFacts
      <4> QED
        BY <2>1, <4>1 DEF Hangs
    <3>3. v.parent[m] = n => m = v.link[RIGHT][n] \/ m = v.link[LEFT][n]
      <4> SUFFICES ASSUME v.parent[m] = n PROVE m = v.link[RIGHT][n] \/ m = v.link[LEFT][n]
        OBVIOUS
      <4>1. m # v.root
        BY <1>1
      <4>2. Closed(v, s, v.root)
        BY <1>1, SubtreesClosed
      <4>3. \E d \in Sides : v.link[d][v.parent[m]] = m
        BY <4>1, <4>2 DEF Closed
      <4> QED
        BY <4>3, SideFacts
    <3> QED
      BY <3>1, <3>2, <3>3 DEF Stand
  <2>4. u.bal[m] = v.bal[m]
    BY <1>5, <2>1
  <2> QED
    BY <2>2, <2>3, <2>4
<1>10. Substituted(v, s, u, n, prev)
  BY <1>5, <1>6, <1>7, <1>8, <1>9 DEF Substituted
<1>11. ASSUME NEW x \in Sides, NEW m \in (Pointers \ N) \ {prev} PROVE u.link[x][m] = v.link[x][m]
  <2>1. m # n /\ m # prev /\ m \in Pointers
    OBVIOUS
  <2>2. ~ (p # Nil /\ m = p)
    BY <1>3
  <2>3. w.link[x][m] = v.link[x][m]
    BY <2>1 DEF Woven
  <2> HIDE DEF p, x0
  <2> QED
    BY <1>5, <2>1, <2>2, <2>3
<1> QED
  BY <1>10, <1>11

\* The node before n is on the same side as n of all others.
LEMMA BeforeStandsIn ==
  ASSUME NEW t, NEW s, SearchTree(t, s), NEW n \in s[t.root], NEW prev, NEW up, NEW dir,
         Before(t, s, n, prev, up, dir), NEW v, Lifted(t, s, v, prev)
  PROVE  StandsIn(v, Without(s, prev), n, prev)
<1> DEFINE N == s[t.root]
           s1 == Without(s, prev)
<1>1. /\ prev \in N /\ n \in N \ {prev} /\ prev \in s[t.link[LEFT][n]]
      /\ s1[v.root] = N \ {prev}
      /\ \A m \in N \ {prev}, d \in Sides : s1[v.link[d][m]] = s[t.link[d][m]] \ {prev}
  BY DEF Before, Lifted
<1>2. N \subseteq Keys /\ Keys \subseteq Nat /\ s[Nil] = {}
  BY SizesFall, KeysFinite DEF SearchTree
<1> HIDE DEF s1
<1>3. ASSUME NEW d \in Sides, NEW m \in s1[v.link[d][n]] PROVE OnSide(d, m, prev)
  <2>1. m \in s[t.link[d][n]] /\ m # prev
    BY <1>1, <1>3
  <2>2. CASE d = LEFT
    BY <2>1, <2>2 DEF Before
  <2>3. CASE d = RIGHT
    <3>1. Hangs(t, s, n, LEFT, t.link[LEFT][n]) /\ Hangs(t, s, n, RIGHT, t.link[RIGHT][n])
          /\ t.link[d][n] \in Pointers
      BY Links, SideFacts DEF Hangs
    <3>2. OnSide(RIGHT, m, n) /\ OnSide(LEFT, prev, n)
      BY <1>1, <2>1, <2>3, <3>1 DEF Hangs
    <3>3. m \in Keys
      <4>1. s[t.link[d][n]] \subseteq s[n] /\ s[n] \subseteq Keys
        BY <2>3, <3>1, Links DEF Hangs
      <4> QED
        BY <2>1, <4>1
    <3>4. m \in Nat /\ prev \in Nat /\ n \in Nat
      BY <1>1, <1>2, <3>3
    <3> QED
      BY <2>3, <3>2, <3>4 DEF OnSide, LEFT, RIGHT
  <2> QED
    BY <2>2, <2>3, SideFacts
<1>4. ASSUME NEW c \in s1[v.root], NEW d \in Sides, n \in s1[v.link[d][c]] PROVE OnSide(d, prev, c)
  <2>1. c \in N /\ n \in s[t.link[d][c]]
    BY <1>1, <1>4
  <2>2. Hangs(t, s, c, d, t.link[d][c]) /\ t.link[d][c] \in N
    BY <1>2, <2>1, Links, SizesFall
  <2>3. s[n] \subseteq s[t.link[d][c]]
    BY <2>1, <2>2, SubtreesClosed DEF Closed
  <2>4. prev \in s[n]
    BY <1>1, Links, SideFacts DEF Hangs
  <2> QED
    BY <2>2, <2>3, <2>4 DEF Hangs
<1> QED
  BY <1>3, <1>4 DEF StandsIn, s1

\* What RemoveInner has before it puts prev in the place of n.
WovenTree(t, v, n, prev, up) ==
  IF up = n THEN t ELSE Attach(v, prev, LEFT, t.link[LEFT][n])

\* The assignments before that, whether or not prev is a child of n.
LEMMA WovenIs ==
  ASSUME NEW t, NEW s, SearchTree(t, s), NEW n \in s[t.root], NEW prev, NEW up, NEW dir,
         Before(t, s, n, prev, up, dir),
         NEW v, Attached(t, v, up, dir, t.link[LEFT][prev]),
         NEW w, w = WovenTree(t, v, n, prev, up)
  PROVE  /\ Woven(v, w, n, prev) /\ v.link[RIGHT][n] = t.link[RIGHT][n]
         /\ v.parent[n] = t.parent[n] /\ v.bal[n] = t.bal[n]
<1> DEFINE N == s[t.root]
           child == t.link[LEFT][prev]
           l == t.link[LEFT][n]
<1>1. /\ t \in Trees /\ N \subseteq Keys /\ Keys \subseteq Pointers /\ Nil \notin Keys
      /\ n \in N /\ prev \in N /\ prev # n /\ prev \in Pointers /\ prev # Nil /\ n \in Pointers /\ n # Nil
  BY SizesFall, KeysFinite, SideFacts DEF SearchTree, Before
<1>2. /\ \A x \in Sides, m \in Pointers :
           v.link[x][m] = IF x = dir /\ m = up THEN child ELSE t.link[x][m]
      /\ \A m \in Pointers : v.parent[m] = IF m # Nil /\ m = child THEN up ELSE t.parent[m]
      /\ v \in Trees /\ v.root = t.root /\ v.bal = t.bal
  BY DEF Attached
<1>3. child # Nil => t.parent[child] = prev /\ child \in N /\ child # prev
  <2>1. Hangs(t, s, prev, LEFT, child)
    BY <1>1, Links, SideFacts
  <2>2. child # Nil => child \in N /\ child # prev
    BY <1>1, SizesFall, SideFacts
  <2> QED
    BY <2>1, <2>2 DEF Hangs
<1>4. child # n
  <2> SUFFICES ASSUME child = n PROVE FALSE
    OBVIOUS
  <2>1. prev \in s[l] /\ Hangs(t, s, n, LEFT, l) /\ Hangs(t, s, prev, LEFT, child)
    BY <1>1, Links, SideFacts DEF Before
  <2>2. n \in s[n] /\ n \in s[prev]
    BY <1>1, <2>1, Links DEF Hangs
  <2>3. l # Nil
    BY <2>1 DEF SearchTree
  <2>4. l \in N
    BY <2>3, SizesFall, SideFacts
  <2>5. s[prev] \subseteq s[l]
    BY <2>1, <2>4, SubtreesClosed DEF Closed
  <2> QED
    BY <2>1, <2>2, <2>5 DEF Hangs
<1>5. v.parent[n] = t.parent[n] /\ v.bal[n] = t.bal[n]
  BY <1>1, <1>2, <1>4
<1>6. CASE up = n
  <2>1. dir = LEFT /\ l = prev /\ w = t
    BY <1>6 DEF Before, WovenTree
  <2>2. v.link[LEFT][n] = child /\ v.link[RIGHT][n] = t.link[RIGHT][n]
    BY <1>1, <1>2, <1>6, <2>1, SideFacts
  <2>3. \A m \in Keys \ {n, prev} : w.parent[m] = IF m = v.link[LEFT][n] THEN prev ELSE v.parent[m]
    BY <1>1, <1>2, <1>3, <2>1, <2>2
  <2>4. \A x \in Sides, m \in Pointers \ {n, prev} : w.link[x][m] = v.link[x][m]
    BY <1>2, <1>6, <2>1
  <2>5. Woven(v, w, n, prev)
    BY <1>1, <1>2, <2>1, <2>2, <2>3, <2>4 DEF Woven
  <2> QED
    BY <1>5, <2>2, <2>5
<1>7. CASE up # n
  <2>1. dir = RIGHT /\ l # prev /\ w = Attach(v, prev, LEFT, l)
    BY <1>7 DEF Before, WovenTree
  <2>2. l \in Pointers
    BY <1>1, TreeFields, SideFacts
  <2>3. Attached(v, w, prev, LEFT, l)
    BY <1>1, <1>2, <2>1, <2>2, AttachIs, SideFacts
  <2>4. v.link[LEFT][n] = l /\ v.link[RIGHT][n] = t.link[RIGHT][n]
    BY <1>1, <1>2, <1>7, SideFacts
  <2>5. /\ \A x \in Sides, m \in Pointers : w.link[x][m] = IF x = LEFT /\ m = prev THEN l ELSE v.link[x][m]
        /\ \A m \in Pointers : w.parent[m] = IF m # Nil /\ m = l THEN prev ELSE v.parent[m]
        /\ w \in Trees /\ w.root = v.root /\ w.bal = v.bal
    BY <2>3 DEF Attached
  <2>6. \A m \in Keys \ {n, prev} : w.parent[m] = IF m = v.link[LEFT][n] THEN prev ELSE v.parent[m]
    BY <1>1, <2>4, <2>5
  <2>7. w.link[LEFT][prev] = v.link[LEFT][n]
    BY <1>1, <2>4, <2>5, SideFacts
  <2>8. Woven(v, w, n, prev)
    BY <2>5, <2>6, <2>7 DEF Woven
  <2> QED
    BY <1>5, <2>4, <2>8
<1> QED
  BY <1>6, <1>7

\* The removal of a node that has two children.
LEMMA RemoveInnerIs ==
  ASSUME NEW t, NEW s, NEW h, Sound(t, s, h), Clean(t, s), NEW n \in s[t.root],
         t.link[LEFT][n] # Nil, NEW u, u = RemoveInner(t, n)
  PROVE  \E s2, h2 : Removed(t, s, u, s2, h2, n)
<1> DEFINE N == s[t.root]
<1>1. /\ SearchTree(t, s) /\ t \in Trees /\ N \subseteq Keys /\ Keys \subseteq Pointers /\ n \in Pointers
      /\ 1 - RIGHT = LEFT
  <2>1. 1 - RIGHT = LEFT
    BY DEF LEFT, RIGHT
  <2> QED
    BY <2>1, SizesFall, SideFacts DEF Sound, Pending, SearchTree
<1>2. PICK prev, up, dir, child, v :
        /\ prev = FindPrevNodeByAddress(t, n) /\ up = t.parent[prev]
        /\ dir = Side(t.link[RIGHT][up] = prev) /\ child = t.link[LEFT][prev]
        /\ v = Attach(t, up, dir, child)
  OBVIOUS
<1>3. Before(t, s, n, prev, up, dir)
  BY <1>1, <1>2, BeforeIs
<1>4. /\ prev \in N /\ prev # n /\ prev \in Keys /\ up \in N /\ up # Nil /\ dir \in Sides
      /\ t.link[RIGHT][prev] = Nil /\ prev \in Pointers /\ up \in Pointers
      /\ up # n => dir = RIGHT
      /\ up = n => dir = LEFT
  BY <1>1, <1>3 DEF Before
<1>5. PICK w, p, b, r :
        /\ w = WovenTree(t, v, n, prev, up) /\ p = t.parent[n] /\ b = t.bal[n] /\ r = t.link[RIGHT][n]
  OBVIOUS
<1>6. PICK x : x = LinkParent(BalancedAt(Attach(w, prev, RIGHT, r), prev, b), n, prev, p)
  OBVIOUS
<1>7. u = Shrunk(x, Stand(n, prev, up), dir)
  <2>1. CASE up = n
    <3>1. u = Shrunk(x, prev, LEFT)
      BY <1>2, <1>5, <1>6, <2>1 DEF RemoveInner, WovenTree, BalancedAt
    <3> QED
      BY <1>4, <2>1, <3>1 DEF Stand
  <2>2. CASE up # n
    <3>1. v = Attach(t, up, RIGHT, child)
      BY <1>2, <1>4, <2>2
    <3>2. w = Attach(v, prev, LEFT, t.link[LEFT][n])
      BY <1>5, <2>2 DEF WovenTree
    <3>3. u = Shrunk(x, up, RIGHT)
      BY Zenon, <1>2, <1>5, <1>6, <2>2, <3>1, <3>2 DEF RemoveInner, BalancedAt
    <3> QED
      BY <1>4, <2>2, <3>3 DEF Stand
  <2> QED
    BY <2>1, <2>2
<1>8. Attached(t, v, up, dir, child)
  <2>1. child \in Pointers
    BY <1>1, <1>2, <1>4, TreeFields, SideFacts
  <2> QED
    BY <1>1, <1>2, <1>4, <2>1, AttachIs
<1>9. PICK delta \in Int : OneLess(delta)
  BY DEF OneLess
<1> DEFINE s1 == Without(s, prev)
<1>10. Pending(v, s1, h, up, dir, delta) /\ Lifted(t, s, v, prev) /\ up # prev
  <2>1. /\ t.link[RIGHT][prev] = Nil /\ child = t.link[1 - RIGHT][prev] /\ prev \in s[t.root]
        /\ up = t.parent[prev] /\ up # Nil /\ dir = Side(t.link[RIGHT][up] = prev)
    BY <1>1, <1>2, <1>4
  <2> QED
    BY <1>8, <1>9, <2>1, LiftIs, SideFacts
<1>11. /\ Woven(v, w, n, prev) /\ r = v.link[RIGHT][n] /\ p = v.parent[n] /\ b = v.bal[n]
  <2>1. Attached(t, v, up, dir, t.link[LEFT][prev])
    BY <1>2, <1>8
  <2>2. /\ Woven(v, w, n, prev) /\ v.link[RIGHT][n] = t.link[RIGHT][n]
        /\ v.parent[n] = t.parent[n] /\ v.bal[n] = t.bal[n]
    <3>1. SearchTree(t, s) /\ w = WovenTree(t, v, n, prev, up)
      BY <1>1, <1>5
    <3> QED
      BY <1>3, <2>1, <3>1, WovenIs
  <2> QED
    BY <1>5, <2>2
<1>12. StandsIn(v, s1, n, prev)
  BY <1>1, <1>3, <1>10, BeforeStandsIn
<1>13. s1[v.root] = N \ {prev} /\ n \in s1[v.root] /\ up \in s1[v.root] /\ prev \notin s1[v.root]
  BY <1>4, <1>10 DEF Lifted
<1>14. SearchTree(v, s1)
  BY <1>10 DEF Pending
<1> HIDE DEF s1
<1>15. p \in Pointers /\ p # prev /\ r \in Pointers /\ b \in -1 .. 1
  <2>1. p \in Pointers /\ r \in Pointers /\ b \in -1 .. 1
    BY <1>1, <1>5, TreeFields, SideFacts
  <2>2. IsChild(v, s1, n, p, Side(v.link[RIGHT][p] = n))
    BY <1>11, <1>13, <1>14, ParentLink
  <2>3. prev # Nil
    BY <1>4, KeysFinite
  <2> QED
    BY <1>13, <2>1, <2>2, <2>3 DEF IsChild
<1>16. Spliced(w, x, n, prev, r, p, b)
  <2>1. w \in Trees
    BY <1>11 DEF Woven
  <2> QED
    BY <1>4, <1>6, <1>15, <2>1, SplicedIs
<1>17. Spliced(w, x, n, prev, v.link[RIGHT][n], v.parent[n], v.bal[n])
  BY <1>11, <1>16
<1>18. /\ Substituted(v, s1, x, n, prev)
       /\ \A y \in Sides, m \in (Pointers \ s1[v.root]) \ {prev} : x.link[y][m] = v.link[y][m]
  BY <1>4, <1>11, <1>13, <1>14, <1>17, SplicedSubstitutes
<1>19. PICK s2, h2 : /\ Pending(x, s2, h2, Stand(n, prev, up), dir, delta)
                     /\ s2[x.root] = Swap(s1[v.root], n, prev)
  <2>1. /\ n \in s1[v.root] /\ up \in s1[v.root] /\ prev \notin s1[v.root]
        /\ Substituted(v, s1, x, n, prev) /\ Pending(v, s1, h, up, dir, delta)
        /\ prev \in Keys /\ dir \in Sides
    BY <1>4, <1>10, <1>13, <1>18
  <2> QED
    BY <1>9, <1>12, <2>1, SubstitutedIs
<1>20. s2[x.root] = N \ {n}
  BY <1>4, <1>13, <1>19 DEF Swap
<1>21. Stand(n, prev, up) \in N \ {n} /\ Stand(n, prev, up) \in Pointers
  BY <1>4 DEF Stand
<1>22. Climbing(delta, x, s2, h2, Stand(n, prev, up), dir)
  <2>1. delta # 1
    BY <1>9 DEF OneLess
  <2> QED
    BY <1>19, <1>20, <1>21, <2>1 DEF Climbing
<1>23. PICK s3, h3 : Sound(u, s3, h3) /\ SameNodes(x, s2, u, s3)
  BY <1>4, <1>7, <1>9, <1>21, <1>22, ShrunkIs
<1>24. s3[u.root] = N \ {n}
  BY <1>20, <1>23 DEF SameNodes
<1>25. ASSUME NEW m \in Pointers \ N, NEW d \in Sides PROVE u.link[d][m] = Nil
  <2>1. u.link[d][m] = x.link[d][m]
    BY <1>20, <1>23 DEF SameNodes
  <2>2. x.link[d][m] = v.link[d][m]
    BY <1>4, <1>13, <1>18
  <2>3. v.link[d][m] = t.link[d][m]
    BY <1>4, <1>8 DEF Attached
  <2> QED
    BY <2>1, <2>2, <2>3 DEF Clean
<1> QED
  BY <1>23, <1>24, <1>25 DEF Removed

\* RemNode leaves a sound tree without the key and with all else that it held.
LEMMA RemNodeByKeyIs ==
  ASSUME NEW t, NEW s, NEW h, Sound(t, s, h), Clean(t, s), NEW key \in Keys,
         NEW u, u = RemNodeByKey(t, key)
  PROVE  \E s2, h2 : Sound(u, s2, h2) /\ Clean(u, s2) /\ s2[u.root] = s[t.root] \ {key}
<1>1. SearchTree(t, s) /\ key # Nil
  BY KeysFinite DEF Sound, Pending
<1>2. FindNode(t, t.root, key) = IF key \in s[t.root] THEN key ELSE Nil
  BY <1>1, FindNodeIs
<1>3. CASE key \notin s[t.root]
  <2>1. u = t
    BY <1>2, <1>3 DEF RemNodeByKey
  <2>2. s[t.root] \ {key} = s[t.root]
    BY <1>3
  <2> QED
    BY <2>1, <2>2
<1>4. CASE key \in s[t.root]
  <2>1. u = RemNodeByAddress(t, key)
    BY <1>1, <1>2, <1>4 DEF RemNodeByKey
  <2>2. PICK v : /\ v = IF t.link[LEFT][key] # Nil /\ t.link[RIGHT][key] # Nil
                        THEN RemoveInner(t, key) ELSE RemoveOuter(t, key)
                 /\ u = NewLeaf(v, key, Nil)
    BY <2>1 DEF RemNodeByAddress
  <2>3. \E s2, h2 : Removed(t, s, v, s2, h2, key)
    BY <1>4, <2>2, RemoveInnerIs, RemoveOuterIs
  <2> QED
    BY <1>4, <2>2, <2>3, ClearedIs
<1> QED
  BY <1>3, <1>4

-----------------------------------------------------------------------------
(* The specification *)

\* What passes from the links of every node to the node holds of all nodes.
LEMMA BottomUp ==
  ASSUME NEW t, NEW s, SearchTree(t, s), NEW S, Nil \in S,
         \A n \in s[t.root] : (\A d \in Sides : t.link[d][n] \in S) => n \in S
  PROVE  s[t.root] \subseteq S
<1> DEFINE N == s[t.root]
           K == {k \in Nat : \A a \in N : Cardinality(s[a]) = k => a \in S}
<1>1. ASSUME NEW k \in Nat, \A j \in 0 .. k - 1 : j \in K
      PROVE  k \in K
  <2> SUFFICES ASSUME NEW a \in N, Cardinality(s[a]) = k PROVE a \in S
    OBVIOUS
  <2>1. ASSUME NEW d \in Sides PROVE t.link[d][a] \in S
    <3> DEFINE c == t.link[d][a]
    <3>1. CASE c = Nil
      BY <3>1
    <3>2. CASE c # Nil
      <4>1. c \in s[c] /\ s[c] \subseteq s[a] /\ a \notin s[c] /\ a \in s[a] /\ s[a] \subseteq Keys
        BY <3>2, Links DEF Hangs
      <4>2. Cardinality(s[c]) \in 0 .. k - 1
        BY <4>1, Smaller
      <4>3. c \in N
        BY <3>2, SizesFall
      <4> QED
        BY <1>1, <4>2, <4>3
    <3> QED
      BY <3>1, <3>2
  <2> QED
    BY <2>1
<1>2. Nat \subseteq K
  <2> HIDE DEF K
  <2> QED
    BY <1>1, StrongSetInduction
<1>3. \A a \in N : Cardinality(s[a]) \in Nat
  <2>1. \A a \in N : s[a] \in SUBSET Keys
    BY Links
  <2> QED
    BY <2>1, SizeIsNat
<1> QED
  BY <1>2, <1>3

\* The sets of nodes that the proofs speak of are the subtrees.
LEMMA SubtreeIs ==
  ASSUME NEW t, NEW s, SearchTree(t, s), Clean(t, s)
  PROVE  \A n \in s[t.root] \cup {Nil} : Subtree(t)[n] = s[n]
<1> DEFINE N == s[t.root]
           Is(f) == f = [n \in Pointers |-> IF n = Nil THEN {}
                           ELSE {n} \cup f[t.link[LEFT][n]] \cup f[t.link[RIGHT][n]]]
           g == [n \in Pointers |-> IF n \in N \/ n = Nil THEN s[n] ELSE {n}]
           e == CHOOSE f : Is(f)
<1>1. /\ s[Nil] = {} /\ N \subseteq Pointers /\ Nil \in Pointers /\ Nil \notin N
      /\ t \in Trees
  BY SizesFall, SideFacts DEF SearchTree
<1>2. Is(g)
  <2>1. ASSUME NEW n \in Pointers, n # Nil
        PROVE  g[n] = {n} \cup g[t.link[LEFT][n]] \cup g[t.link[RIGHT][n]]
    <3>1. CASE n \in N
      <4>1. /\ t.link[LEFT][n] \in N \cup {Nil} /\ t.link[LEFT][n] \in Pointers
            /\ t.link[RIGHT][n] \in N \cup {Nil} /\ t.link[RIGHT][n] \in Pointers
        BY <3>1, SizesFall, SideFacts
      <4>2. s[n] = {n} \cup s[t.link[LEFT][n]] \cup s[t.link[RIGHT][n]]
        BY <3>1 DEF SearchTree, Placed
      <4> QED
        BY <3>1, <4>1, <4>2
    <3>2. CASE n \notin N
      <4>1. t.link[LEFT][n] = Nil /\ t.link[RIGHT][n] = Nil
        BY <3>2, SideFacts DEF Clean
      <4>2. g[Nil] = {} /\ g[n] = {n}
        BY <1>1, <2>1, <3>2
      <4> QED
        BY <4>1, <4>2
    <3> QED
      BY <3>1, <3>2
  <2>2. g[Nil] = {}
    BY <1>1
  <2>3. g = [n \in Pointers |-> g[n]]
    OBVIOUS
  <2> HIDE DEF g
  <2>4. \A n \in Pointers : g[n] = IF n = Nil THEN {}
                          ELSE {n} \cup g[t.link[LEFT][n]] \cup g[t.link[RIGHT][n]]
    BY <2>1, <2>2
  <2> QED
    BY <2>3, <2>4
<1>3. Is(e)
  <2> HIDE DEF Is, g
  <2> QED
    BY <1>2
<1>4. Subtree(t) = e
  BY Zenon DEF Subtree
<1> HIDE DEF e
<1>5. /\ e[Nil] = {}
      /\ \A n \in N : e[n] = {n} \cup e[t.link[LEFT][n]] \cup e[t.link[RIGHT][n]]
  BY <1>1, <1>3
<1> DEFINE S == {n \in Pointers : e[n] = s[n]}
<1>6. ASSUME NEW n \in N, \A d \in Sides : t.link[d][n] \in S PROVE n \in S
  <2>1. e[t.link[LEFT][n]] = s[t.link[LEFT][n]] /\ e[t.link[RIGHT][n]] = s[t.link[RIGHT][n]]
    BY <1>6, SideFacts
  <2>2. s[n] = {n} \cup s[t.link[LEFT][n]] \cup s[t.link[RIGHT][n]]
    BY DEF SearchTree, Placed
  <2> QED
    BY <1>1, <1>5, <2>1, <2>2
<1>7. Nil \in S
  BY <1>1, <1>5
<1>8. N \subseteq S
  <2> HIDE DEF S
  <2> QED
    BY <1>6, <1>7, BottomUp
<1> QED
  BY <1>4, <1>7, <1>8

\* The heights that the proofs speak of are the heights of the subtrees.
LEMMA HeightIs ==
  ASSUME NEW t, NEW s, NEW h, Sound(t, s, h), Clean(t, s)
  PROVE  \A n \in s[t.root] \cup {Nil} : Height(t)[n] = h[n]
<1> DEFINE N == s[t.root]
           Is(f) == f = [n \in Pointers |-> IF n = Nil THEN 0
                           ELSE 1 + Higher(f[t.link[LEFT][n]], f[t.link[RIGHT][n]])]
           g == [n \in Pointers |-> IF n \in N \/ n = Nil THEN h[n] ELSE 1]
           e == CHOOSE f : Is(f)
<1>0. SearchTree(t, s) /\ h \in [Pointers -> Nat] /\ h[Nil] = 0
  BY DEF Sound, Pending
<1>1. N \subseteq Pointers /\ Nil \in Pointers /\ Nil \notin N /\ t \in Trees
  BY <1>0, SizesFall, SideFacts DEF SearchTree
<1>2. ASSUME NEW n \in N
      PROVE  /\ h[n] = 1 + Higher(h[t.link[LEFT][n]], h[t.link[RIGHT][n]])
             /\ t.link[LEFT][n] \in N \cup {Nil} /\ t.link[LEFT][n] \in Pointers
             /\ t.link[RIGHT][n] \in N \cup {Nil} /\ t.link[RIGHT][n] \in Pointers
  <2>1. /\ t.link[LEFT][n] \in N \cup {Nil} /\ t.link[LEFT][n] \in Pointers
        /\ t.link[RIGHT][n] \in N \cup {Nil} /\ t.link[RIGHT][n] \in Pointers
    BY <1>0, SizesFall, SideFacts
  <2>2. Weighed(t, h, n, LEFT, 0)
    BY DEF Sound, Pending
  <2>3. h[t.link[LEFT][n]] \in Nat /\ h[t.link[RIGHT][n]] \in Nat
    BY <1>0, <2>1
  <2> QED
    BY <2>1, <2>2, <2>3 DEF Weighed
<1>3. Is(g)
  <2>1. ASSUME NEW n \in Pointers, n # Nil
        PROVE  g[n] = 1 + Higher(g[t.link[LEFT][n]], g[t.link[RIGHT][n]])
    <3>1. CASE n \in N
      BY <1>2, <3>1
    <3>2. CASE n \notin N
      <4>1. t.link[LEFT][n] = Nil /\ t.link[RIGHT][n] = Nil
        BY <3>2, SideFacts DEF Clean
      <4>2. g[Nil] = 0 /\ g[n] = 1
        BY <1>0, <1>1, <2>1, <3>2
      <4> HIDE DEF g
      <4> QED
        BY <4>1, <4>2 DEF Higher
    <3> QED
      BY <3>1, <3>2
  <2>2. g[Nil] = 0
    BY <1>0, <1>1
  <2>3. g = [n \in Pointers |-> g[n]]
    OBVIOUS
  <2> HIDE DEF g
  <2>4. \A n \in Pointers : g[n] = IF n = Nil THEN 0
                          ELSE 1 + Higher(g[t.link[LEFT][n]], g[t.link[RIGHT][n]])
    BY <2>1, <2>2
  <2> QED
    BY <2>3, <2>4
<1>4. Is(e)
  <2> HIDE DEF Is, g
  <2> QED
    BY <1>3
<1>5. Height(t) = e
  BY Zenon DEF Height
<1> HIDE DEF e
<1>6. /\ e[Nil] = 0
      /\ \A n \in N : e[n] = 1 + Higher(e[t.link[LEFT][n]], e[t.link[RIGHT][n]])
  BY <1>1, <1>4
<1> DEFINE S == {n \in Pointers : e[n] = h[n]}
<1>7. ASSUME NEW n \in N, \A d \in Sides : t.link[d][n] \in S PROVE n \in S
  <2>1. e[t.link[LEFT][n]] = h[t.link[LEFT][n]] /\ e[t.link[RIGHT][n]] = h[t.link[RIGHT][n]]
    BY <1>7, SideFacts
  <2> QED
    BY <1>1, <1>2, <1>6, <2>1
<1>8. Nil \in S
  BY <1>0, <1>1, <1>6
<1>9. N \subseteq S
  <2> HIDE DEF S
  <2> QED
    BY <1>0, <1>7, <1>8, BottomUp
<1> QED
  BY <1>5, <1>8, <1>9

\* The tree is a balanced search tree, with nothing hanging off the keys that
\* are not in it.
Avl == \E s, h : Sound(tree, s, h) /\ Clean(tree, s)

\* The empty tree.
LEMMA EmptyIsSound ==
  ASSUME tree = EmptyTree
  PROVE  Avl
<1> DEFINE s == [n \in Pointers |-> {}]
           h == [n \in Pointers |-> 0]
<1>1. tree \in Trees /\ tree.root = Nil /\ \A d \in Sides, n \in Pointers : tree.link[d][n] = Nil
  BY SideFacts DEF EmptyTree, Trees, Sides
<1>2. s \in [Pointers -> SUBSET Keys] /\ s[Nil] = {} /\ h \in [Pointers -> Nat] /\ h[Nil] = 0
  BY SideFacts
<1> HIDE DEF s, h
<1>3. Sound(tree, s, h)
  BY <1>1, <1>2 DEF Sound, Pending, SearchTree
<1>4. Clean(tree, s)
  BY <1>1 DEF Clean
<1> QED
  BY <1>3, <1>4 DEF Avl

\* To add a key that is there, or to remove one that is not, changes nothing.
LEMMA Unmoved ==
  ASSUME NEW t, NEW s, SearchTree(t, s), NEW key \in Keys
  PROVE  /\ key \in s[t.root] => AddNode(t, key) = t
         /\ key \notin s[t.root] => RemNodeByKey(t, key) = t
<1>1. ASSUME key \in s[t.root] PROVE AddNode(t, key) = t
  <2>1. t.root # Nil
    BY <1>1 DEF SearchTree
  <2>2. PICK scan : scan = InsertionPoint(t, t.root, key)
    OBVIOUS
  <2>3. scan = key
    BY <1>1, <2>1, <2>2, InsertionPointIs
  <2> QED
    BY <2>1, <2>2, <2>3 DEF AddNode
<1>2. ASSUME key \notin s[t.root] PROVE RemNodeByKey(t, key) = t
  <2>1. FindNode(t, t.root, key) = Nil
    BY <1>2, FindNodeIs
  <2> QED
    BY <2>1 DEF RemNodeByKey
<1> QED
  BY <1>1, <1>2

\* The keys in the tree are the nodes below its root.
LEMMA StoredIs ==
  ASSUME NEW s, SearchTree(tree, s), Clean(tree, s)
  PROVE  Stored = s[tree.root]
<1>1. tree.root \in s[tree.root] \cup {Nil}
  BY DEF SearchTree
<1> QED
  BY <1>1, SubtreeIs DEF Stored

\* Every call keeps the tree sound.
LEMMA AvlStep == Avl /\ [TreeNext]_tree => Avl'
<1> SUFFICES ASSUME Avl, [TreeNext]_tree PROVE Avl'
  OBVIOUS
<1>1. PICK s, h : Sound(tree, s, h) /\ Clean(tree, s)
  BY DEF Avl
<1>2. ASSUME NEW k \in Keys, Add(k) PROVE Avl'
  <2>1. PICK t : t = tree
    OBVIOUS
  <2>2. PICK u : u = tree'
    OBVIOUS
  <2>3. \E s2, h2 : Sound(u, s2, h2) /\ Clean(u, s2) /\ s2[u.root] = s[t.root] \cup {k}
    BY <1>1, <1>2, <2>1, <2>2, AddNodeIs DEF Add
  <2> QED
    BY <2>2, <2>3 DEF Avl
<1>3. ASSUME NEW k \in Keys, Rem(k) PROVE Avl'
  <2>1. PICK t : t = tree
    OBVIOUS
  <2>2. PICK u : u = tree'
    OBVIOUS
  <2>3. \E s2, h2 : Sound(u, s2, h2) /\ Clean(u, s2) /\ s2[u.root] = s[t.root] \ {k}
    BY <1>1, <1>3, <2>1, <2>2, RemNodeByKeyIs DEF Rem
  <2> QED
    BY <2>2, <2>3 DEF Avl
<1>4. CASE UNCHANGED tree
  BY <1>4 DEF Avl
<1> QED
  BY <1>2, <1>3, <1>4 DEF TreeNext

\* After any series of AVL_AddNode and AVL_RemNodeByKey, for any number of
\* keys, the tree is a sound one: every loop has ended, and order, parents,
\* balances and heights agree.
THEOREM TreeStaysSound == TreeSpec => []Avl
<1>1. TreeInit => Avl
  BY EmptyIsSound DEF TreeInit
<1> QED
  BY <1>1, AvlStep, PTL DEF TreeSpec

\* A sound tree is balanced as Balanced states it.
LEMMA AvlBalanced == Avl => Balanced
<1> SUFFICES ASSUME Avl PROVE Balanced
  OBVIOUS
<1>1. PICK s, h : Sound(tree, s, h) /\ Clean(tree, s)
  BY DEF Avl
<1>2. SearchTree(tree, s)
  BY <1>1 DEF Sound, Pending
<1>3. Stored = s[tree.root]
  BY <1>1, <1>2, StoredIs
<1>4. tree.root # Nil => tree.parent[tree.root] = Nil
  BY <1>2 DEF SearchTree
<1>5. ASSUME NEW n \in Stored, NEW l, NEW r, l = tree.link[LEFT][n], r = tree.link[RIGHT][n]
      PROVE  /\ \A m \in Subtree(tree)[l] : m < n
             /\ \A m \in Subtree(tree)[r] : m > n
             /\ \A c \in {l, r} \ {Nil} : tree.parent[c] = n
             /\ tree.bal[n] = Height(tree)[r] - Height(tree)[l]
             /\ tree.bal[n] \in -1 .. 1
  <2>1. n \in s[tree.root] /\ n \in Nat /\ tree \in Trees
    BY <1>2, <1>3, Links DEF SearchTree
  <2>2. Hangs(tree, s, n, LEFT, l) /\ Hangs(tree, s, n, RIGHT, r)
    BY <1>2, <1>5, <2>1, Links, SideFacts
  <2>3. l \in s[tree.root] \cup {Nil} /\ r \in s[tree.root] \cup {Nil}
    BY <1>2, <1>5, <2>1, SizesFall, SideFacts
  <2>4. Subtree(tree)[l] = s[l] /\ Subtree(tree)[r] = s[r]
    BY <1>1, <1>2, <2>3, SubtreeIs
  <2>5. Height(tree)[l] = h[l] /\ Height(tree)[r] = h[r]
    BY <1>1, <2>3, HeightIs
  <2>6. \A m \in s[l] : m < n
    BY <2>2 DEF Hangs, OnSide
  <2>7. \A m \in s[r] : m > n
    <3>1. \A m \in s[r] : m \in Nat
      <4>1. s[r] \subseteq s[n] /\ s[n] \subseteq Keys /\ Keys \subseteq Nat
        BY <1>2, <2>1, <2>2, Links, KeysFinite DEF Hangs
      <4> QED
        BY <4>1
    <3>2. \A m \in s[r] : n < m
      BY <2>2 DEF Hangs, OnSide, LEFT, RIGHT
    <3> QED
      BY <2>1, <3>1, <3>2
  <2>8. \A c \in {l, r} \ {Nil} : tree.parent[c] = n
    BY <2>2 DEF Hangs
  <2>9. tree.bal[n] = h[r] - h[l]
    <3>1. Weighed(tree, h, n, LEFT, 0)
      BY <1>1, <2>1 DEF Sound, Pending
    <3>2. h[l] \in Nat /\ h[r] \in Nat
      BY <1>1, <2>2 DEF Sound, Pending, Hangs
    <3> QED
      BY <1>5, <3>1, <3>2 DEF Weighed
  <2>10. tree.bal[n] \in -1 .. 1
    BY <1>2, <2>1, Links, TreeFields, SideFacts
  <2> QED
    BY <2>4, <2>5, <2>6, <2>7, <2>8, <2>9, <2>10
<1> QED
  BY <1>4, <1>5 DEF Balanced

\* avl_balance is the true difference of heights and never more than one, and
\* the keys are in order, after any series of additions and removals, their
\* single and double rotations included.
THEOREM TreeIsBalanced == TreeSpec => []Balanced
  BY TreeStaysSound, AvlBalanced, PTL

\* A sound tree is searched as SearchesAgree states it.
LEMMA AvlSearches == Avl => SearchesAgree
<1> SUFFICES ASSUME Avl PROVE SearchesAgree
  OBVIOUS
<1>1. PICK s, h : Sound(tree, s, h) /\ Clean(tree, s)
  BY DEF Avl
<1>2. SearchTree(tree, s) /\ s[Nil] = {} /\ s[tree.root] \subseteq Keys
      /\ Keys \subseteq Nat /\ 1 - LEFT = RIGHT /\ 1 - RIGHT = LEFT
  <2>1. 1 - LEFT = RIGHT /\ 1 - RIGHT = LEFT
    BY DEF LEFT, RIGHT
  <2>2. SearchTree(tree, s) /\ s[Nil] = {}
    BY <1>1 DEF Sound, Pending, SearchTree
  <2> QED
    BY <2>1, <2>2, SizesFall, KeysFinite
<1> DEFINE N == s[tree.root]
           below(k) == {x \in N : x < k}
           above(k) == {x \in N : x > k}
<1>3. Stored = N
  BY <1>1, <1>2, StoredIs
<1>4. \A S \in SUBSET Keys : \A m : (EndOf(S, RIGHT, m) => m = Highest(S)) /\ (EndOf(S, LEFT, m) => m = Lowest(S))
  BY EndsByNumber
<1>5. /\ EndOf(N, LEFT, FindFirstNode(tree)) /\ EndOf(N, RIGHT, FindLastNode(tree))
  <2>1. FindFirstNode(tree) = Outermost(tree, tree.root, LEFT) /\ FindLastNode(tree) = Outermost(tree, tree.root, RIGHT)
    BY DEF FindFirstNode, FindLastNode
  <2>2. CASE tree.root # Nil
    <3>1. tree.root \in N
      BY <1>2, <2>2 DEF SearchTree
    <3> QED
      BY <1>2, <2>1, <3>1, OutermostIs, SideFacts DEF EndOf
  <2>3. CASE tree.root = Nil
    <3>1. ASSUME NEW d \in Sides PROVE Outermost(tree, Nil, d) = Nil
      <4> DEFINE next == [m \in Pointers |-> IF tree.link[d][m] = Nil THEN m ELSE tree.link[d][m]]
      <4>1. tree \in Trees /\ Nil \in Pointers
        BY <1>2, SideFacts DEF SearchTree
      <4>2. next \in [Pointers -> Pointers]
        BY <4>1, TreeFields
      <4>3. tree.link[d][Nil] = Nil
        BY <1>1, <1>2, <4>1, KeysFinite DEF Clean
      <4>5. next[Nil] = Nil
        BY <4>1, <4>3
      <4>4. Outermost(tree, Nil, d) = Loop(next, Nil)
        BY DEF Outermost
      <4> HIDE DEF next
      <4> QED
        BY <4>1, <4>2, <4>4, <4>5, LoopTurns
    <3>2. N = {}
      BY <1>2, <2>3
    <3> QED
      BY <2>1, <2>3, <3>1, <3>2, SideFacts DEF EndOf
  <2> QED
    BY <2>2, <2>3
<1>6. FindFirstNode(tree) = Lowest(N) /\ FindLastNode(tree) = Highest(N)
  <2> QED
    BY <1>2, <1>4, <1>5
<1>7. ASSUME NEW k \in Keys
      PROVE  /\ FindNode(tree, tree.root, k) = Highest(N \cap {k})
             /\ FindPrevNodeByKey(tree, k) = Highest(below(k) \cup (N \cap {k}))
             /\ FindNextNodeByKey(tree, k) = Lowest(above(k) \cup (N \cap {k}))
  <2>1. FindNode(tree, tree.root, k) = Highest(N \cap {k})
    <3>1. FindNode(tree, tree.root, k) = IF k \in N THEN k ELSE Nil
      BY <1>2, FindNodeIs
    <3>2. EndOf(N \cap {k}, RIGHT, IF k \in N THEN k ELSE Nil)
      BY DEF EndOf, Last
    <3> QED
      BY <1>2, <1>4, <3>1, <3>2
  <2>2. FindPrevNodeByKey(tree, k) = Highest(below(k) \cup (N \cap {k}))
    <3>1. EndOf({b \in N : b = k \/ OnSide(LEFT, b, k)}, RIGHT, Nearest(tree, k, LEFT))
      BY <1>2, NearestIs, SideFacts
    <3>2. {b \in N : b = k \/ OnSide(LEFT, b, k)} = below(k) \cup (N \cap {k})
      BY DEF OnSide
    <3>3. FindPrevNodeByKey(tree, k) = Nearest(tree, k, LEFT)
      BY DEF FindPrevNodeByKey
    <3>4. below(k) \cup (N \cap {k}) \in SUBSET Keys
      BY <1>2
    <3> HIDE DEF below
    <3> QED
      BY <1>4, <3>1, <3>2, <3>3, <3>4
  <2>3. FindNextNodeByKey(tree, k) = Lowest(above(k) \cup (N \cap {k}))
    <3>1. EndOf({b \in N : b = k \/ OnSide(RIGHT, b, k)}, LEFT, Nearest(tree, k, RIGHT))
      BY <1>2, NearestIs, SideFacts
    <3>2. {b \in N : b = k \/ OnSide(RIGHT, b, k)} = above(k) \cup (N \cap {k})
      BY <1>2 DEF OnSide, LEFT, RIGHT
    <3>3. FindNextNodeByKey(tree, k) = Nearest(tree, k, RIGHT)
      BY DEF FindNextNodeByKey
    <3>4. above(k) \cup (N \cap {k}) \in SUBSET Keys
      BY <1>2
    <3> HIDE DEF above
    <3> QED
      BY <1>4, <3>1, <3>2, <3>3, <3>4
  <2> QED
    BY <2>1, <2>2, <2>3
<1>8. ASSUME NEW n \in N
      PROVE  FindPrevNodeByAddress(tree, n) = Highest(below(n)) /\ FindNextNodeByAddress(tree, n) = Lowest(above(n))
  <2>1. FindPrevNodeByAddress(tree, n) = Highest(below(n))
    <3>1. EndOf(Beyond(N, LEFT, n), RIGHT, Neighbour(tree, n, LEFT))
      BY <1>2, NeighbourIs, SideFacts
    <3>2. Beyond(N, LEFT, n) = below(n) /\ below(n) \in SUBSET Keys
      BY <1>2 DEF Beyond, OnSide
    <3>3. FindPrevNodeByAddress(tree, n) = Neighbour(tree, n, LEFT)
      BY DEF FindPrevNodeByAddress
    <3> HIDE DEF below
    <3> QED
      BY <1>4, <3>1, <3>2, <3>3
  <2>2. FindNextNodeByAddress(tree, n) = Lowest(above(n))
    <3>1. EndOf(Beyond(N, RIGHT, n), LEFT, Neighbour(tree, n, RIGHT))
      BY <1>2, NeighbourIs, SideFacts
    <3>2. Beyond(N, RIGHT, n) = above(n) /\ above(n) \in SUBSET Keys
      BY <1>2 DEF Beyond, OnSide, LEFT, RIGHT
    <3>3. FindNextNodeByAddress(tree, n) = Neighbour(tree, n, RIGHT)
      BY DEF FindNextNodeByAddress
    <3> HIDE DEF above
    <3> QED
      BY <1>4, <3>1, <3>2, <3>3
  <2> QED
    BY <2>1, <2>2
<1> HIDE DEF N
<1> QED
  BY <1>3, <1>6, <1>7, <1>8 DEF SearchesAgree

\* Every search, by key, by address, first and last, answers by the order of the
\* stored keys alone, and comes to an end.
THEOREM TreeSearchesAgree == TreeSpec => []SearchesAgree
  BY TreeStaysSound, AvlSearches, PTL

\* A step that changes the tree adds one key or removes one.
LEMMA AvlIsASet ==
  ASSUME Avl, Avl', TreeNext, tree' # tree
  PROVE  LET old == Stored
             new == Stored'
         IN  \E k \in (old \ new) \cup (new \ old) :
               \/ new = old \cup {k} /\ Add(k)
               \/ old = new \cup {k} /\ Rem(k)
<1>1. PICK s, h : Sound(tree, s, h) /\ Clean(tree, s)
  BY DEF Avl
<1>2. SearchTree(tree, s) /\ Stored = s[tree.root]
  BY <1>1, StoredIs DEF Sound, Pending
<1>3. ASSUME NEW s2, NEW h2, NEW u, u = tree', Sound(u, s2, h2), Clean(u, s2)
      PROVE  Stored' = s2[u.root]
  <2>1. SearchTree(u, s2) /\ u.root \in s2[u.root] \cup {Nil}
    BY <1>3 DEF Sound, Pending, SearchTree
  <2>2. Subtree(u)[u.root] = s2[u.root]
    BY <1>3, <2>1, SubtreeIs
  <2>3. Stored' = Subtree(u)[u.root]
    BY <1>3 DEF Stored
  <2> QED
    BY <2>2, <2>3
<1>4. ASSUME NEW k \in Keys, Add(k)
      PROVE  k \notin Stored /\ Stored' = Stored \cup {k}
  <2>0. PICK t : t = tree
    OBVIOUS
  <2>5. PICK u : u = tree'
    OBVIOUS
  <2>1. t = tree /\ u = tree' /\ u = AddNode(t, k) /\ u # t
    BY <2>0, <2>5, <1>4 DEF Add
  <2>6. Sound(t, s, h) /\ Clean(t, s) /\ SearchTree(t, s)
    BY <1>1, <1>2, <2>0
  <2>2. PICK s2, h2 : Sound(u, s2, h2) /\ Clean(u, s2) /\ s2[u.root] = s[t.root] \cup {k}
    BY <2>1, <2>6, AddNodeIs
  <2>3. k \notin s[t.root]
    BY <2>1, <2>6, Unmoved
  <2>4. Stored' = s2[u.root]
    BY <1>3, <2>1, <2>2
  <2> QED
    BY <1>2, <2>1, <2>2, <2>3, <2>4
<1>5. ASSUME NEW k \in Keys, Rem(k)
      PROVE  k \in Stored /\ Stored' = Stored \ {k}
  <2>0. PICK t : t = tree
    OBVIOUS
  <2>5. PICK u : u = tree'
    OBVIOUS
  <2>1. t = tree /\ u = tree' /\ u = RemNodeByKey(t, k) /\ u # t
    BY <2>0, <2>5, <1>5 DEF Rem
  <2>6. Sound(t, s, h) /\ Clean(t, s) /\ SearchTree(t, s)
    BY <1>1, <1>2, <2>0
  <2>2. PICK s2, h2 : Sound(u, s2, h2) /\ Clean(u, s2) /\ s2[u.root] = s[t.root] \ {k}
    BY <2>1, <2>6, RemNodeByKeyIs
  <2>3. k \in s[t.root]
    BY <2>1, <2>6, Unmoved
  <2>4. Stored' = s2[u.root]
    BY <1>3, <2>1, <2>2
  <2> QED
    BY <1>2, <2>1, <2>2, <2>3, <2>4
<1>6. ASSUME NEW k \in Keys, Add(k) \/ Rem(k)
      PROVE  \/ k \notin Stored /\ Stored' = Stored \cup {k} /\ Add(k)
             \/ k \in Stored /\ Stored' = Stored \ {k} /\ Rem(k)
  BY <1>4, <1>5, <1>6
<1>7. PICK k \in Keys : Add(k) \/ Rem(k)
  BY DEF TreeNext
<1>8. PICK old, new : old = Stored /\ new = Stored'
  OBVIOUS
<1>9. \/ k \notin old /\ new = old \cup {k} /\ Add(k)
      \/ k \in old /\ new = old \ {k} /\ Rem(k)
  BY <1>6, <1>7, <1>8
<1>10. k \in (old \ new) \cup (new \ old)
  BY <1>9
<1>11. \/ new = old \cup {k} /\ Add(k)
       \/ old = new \cup {k} /\ Rem(k)
  BY <1>9
<1> QED
  BY <1>8, <1>10, <1>11

\* To its callers the tree is a set: AVL_AddNode adds the one key and
\* AVL_RemNodeByKey takes the one key away, and no call loses another.
THEOREM TreeIsASet == TreeSpec => IsASet
<1>1. Avl /\ Avl' /\ [TreeNext]_tree =>
        [tree' # tree =>
           LET old == Stored
               new == Stored'
           IN  \E k \in (old \ new) \cup (new \ old) :
                 \/ new = old \cup {k} /\ Add(k)
                 \/ old = new \cup {k} /\ Rem(k)]_tree
  BY AvlIsASet
<1> QED
  BY <1>1, TreeStaysSound, PTL DEF TreeSpec, IsASet
=============================================================================
