------------------------------ MODULE AvlTree ------------------------------
(***************************************************************************)
(* The balanced trees of exec.library (libs/exec/avl.c).  A node is known  *)
(* by its key, a positive number, and NULL is 0; the comparison functions  *)
(* the callers supply are func(a, b) = a - b.  A tree is the record of the *)
(* root pointer and the fields of all nodes:                               *)
(*    t.link[d][n]   avl_link[d], d = 0 left and 1 right                   *)
(*    t.parent[n]    avl_parent                                            *)
(*    t.bal[n]       avl_balance                                           *)
(***************************************************************************)
EXTENDS Loops, FiniteSets

CONSTANT Keys

ASSUME KeysAssumption == Keys \subseteq Nat \ {0} /\ IsFiniteSet(Keys)

LEFT  == 0
RIGHT == 1
Nil   == 0

VARIABLE tree

Pointers == Keys \cup {Nil}
Trees == [root : Pointers, link : [{LEFT, RIGHT} -> [Pointers -> Pointers]],
          parent : [Pointers -> Pointers], bal : [Pointers -> -1 .. 1]]

Side(holds) == IF holds THEN RIGHT ELSE LEFT

SetParent(t, n, p) == IF n = Nil THEN t ELSE [t EXCEPT !.parent[n] = p]

\* avl_link[d] of p becomes n, and n is told.
Attach(t, p, d, n) == SetParent([t EXCEPT !.link[d][p] = n], n, p)

\* subroot takes the place that scan had under parent.
LinkParent(t, scan, subroot, parent) ==
  IF parent = Nil THEN SetParent([t EXCEPT !.root = subroot], subroot, Nil)
  ELSE Attach(t, parent, Side(t.link[RIGHT][parent] = scan), subroot)

\* scan goes below next, on next's side dir.
RotateSingle(t, scan, next, dir) ==
  Attach(Attach(t, scan, 1 - dir, t.link[dir][next]), next, dir, scan)

\* Seeded fault: the inner subtrees are exchanged.
RotateDouble_Crossed(t, scan, next, dir) ==
  LET sub == t.link[dir][next]
      t1  == Attach(t, next, dir, t.link[dir][sub])
      t2  == Attach(t1, scan, 1 - dir, t.link[1 - dir][sub])
  IN  Attach(Attach(t2, sub, 1 - dir, next), sub, dir, scan)

\* next's child on side dir goes above both.
RotateDouble(t, scan, next, dir) ==
  LET sub == t.link[dir][next]
      t1  == Attach(t, next, dir, t.link[1 - dir][sub])
      t2  == Attach(t1, scan, 1 - dir, t.link[dir][sub])
  IN  Attach(Attach(t2, sub, 1 - dir, next), sub, dir, scan)

\* scan leans by two to the side 1 - dir: rotate it to dir, give the three
\* nodes their balances, and put the new subroot in scan's place.  Only
\* removals meet a next that is even.
Rebalance(t, scan, dir) ==
  LET s      == 1 - 2 * dir                   \* the sign of the heavy side
      next   == t.link[1 - dir][scan]
      parent == t.parent[scan]
      sub    == t.link[dir][next]
      even   == t.bal[next] = 0
  IN  IF t.bal[next] = - s
      THEN LinkParent(
             [RotateDouble(t, scan, next, dir) EXCEPT
                !.bal[scan] = IF t.bal[sub] = s THEN - s ELSE 0,
                !.bal[next] = IF t.bal[sub] = - s THEN s ELSE 0,
                !.bal[sub]  = 0],
             scan, sub, parent)
      ELSE LinkParent(
             [RotateSingle(t, scan, next, dir) EXCEPT
                !.bal[scan] = IF even THEN s ELSE 0,
                !.bal[next] = IF even THEN - s ELSE 0],
             scan, next, parent)

-----------------------------------------------------------------------------
(* Searching *)

FindNode(t, n, key) ==
  Loop([m \in Pointers |-> IF m \in {Nil, key} THEN m ELSE t.link[Side(m < key)][m]], n)

\* Down along one side to the last node.
Outermost(t, n, d) ==
  Loop([m \in Pointers |-> IF t.link[d][m] = Nil THEN m ELSE t.link[d][m]], n)

FindFirstNode(t) == Outermost(t, t.root, LEFT)
FindLastNode(t)  == Outermost(t, t.root, RIGHT)

\* Up to the first ancestor that is not reached from its side d.
Ancestor(t, n, d) ==
  t.parent[Loop([m \in Pointers |->
                   LET up == t.parent[m]
                   IN  IF up # Nil /\ t.link[d][up] = m THEN up ELSE m], n)]

\* The neighbour of n on side d, in order.
Neighbour(t, n, d) ==
  IF t.link[d][n] # Nil THEN Outermost(t, t.link[d][n], 1 - d)
                        ELSE Ancestor(t, n, d)

FindPrevNodeByAddress(t, n) == Neighbour(t, n, LEFT)
FindNextNodeByAddress(t, n) == Neighbour(t, n, RIGHT)

\* Down to the key; failing that, the last node passed on the wanted side.
Nearest(t, key, d) ==
  Loop([y \in Pointers \X Pointers |->
          LET n    == y[1]
              turn == Side(n < key)
          IN  IF n = Nil THEN y
              ELSE IF n = key THEN <<Nil, n>>
              ELSE <<t.link[turn][n], IF turn # d THEN n ELSE y[2]>>],
       <<t.root, Nil>>)[2]

FindPrevNodeByKey(t, key) == Nearest(t, key, LEFT)
FindNextNodeByKey(t, key) == Nearest(t, key, RIGHT)

-----------------------------------------------------------------------------
(* AVL_AddNode *)

\* The node an added key ends below, or the one that is equal to it.
InsertionPoint(t, n, key) ==
  Loop([m \in Pointers |->
          LET next == t.link[Side(m < key)][m]
          IN  IF m = key \/ next = Nil THEN m ELSE next], n)

\* A climb: the tree, the node the loop has come to, Nil once it has ended,
\* and the side of that node it has come from.
At(t, scan, dir) == [t |-> t, scan |-> scan, dir |-> dir]
Climbs == [t : Trees, scan : Pointers, dir : {LEFT, RIGHT}]

\* Side dir of scan has become higher.
GrownOnce(t, scan, dir) ==
  LET bal == (dir * 2 - 1) + t.bal[scan]
      up  == t.parent[scan]
  IN  IF bal \in {2, -2} THEN At(Rebalance(t, scan, 1 - dir), Nil, dir)
      ELSE At([t EXCEPT !.bal[scan] = bal],
              IF bal = 0 THEN Nil ELSE up, Side(t.link[RIGHT][up] = scan))

Grown(t, scan, dir) ==
  Loop([y \in Climbs |-> IF y.scan = Nil THEN y ELSE GrownOnce(y.t, y.scan, y.dir)],
       At(t, scan, dir)).t

NewLeaf(t, key, parent) ==
  [t EXCEPT !.link[LEFT][key] = Nil, !.link[RIGHT][key] = Nil,
            !.bal[key] = 0, !.parent[key] = parent]

AddNode(t, key) ==
  IF t.root = Nil THEN [NewLeaf(t, key, Nil) EXCEPT !.root = key]
  ELSE LET scan == InsertionPoint(t, t.root, key)
           dir  == Side(scan < key)
       IN  IF scan = key THEN t
           ELSE Grown([NewLeaf(t, key, scan) EXCEPT !.link[dir][scan] = key],
                      scan, dir)

-----------------------------------------------------------------------------
(* AVL_RemNodeByAddress *)

\* Seeded fault: the climb ends after any rotation, as it may in AddNode.
ShrunkOnce_StopsAfterRotation(t, scan, dir) ==
  LET bal == t.bal[scan] - (dir * 2 - 1)
      up  == t.parent[scan]
  IN  IF bal \in {2, -2} THEN At(Rebalance(t, scan, dir), Nil, dir)
      ELSE At([t EXCEPT !.bal[scan] = bal],
              IF bal # 0 THEN Nil ELSE up, Side(t.link[RIGHT][up] = scan))

\* Side dir of scan has become lower.  The climb goes on while subtrees lose
\* height, through rotations too, and ends below a node that was even.
ShrunkOnce(t, scan, dir) ==
  LET bal  == t.bal[scan] - (dir * 2 - 1)
      up   == t.parent[scan]
      even == t.bal[t.link[1 - dir][scan]] = 0
  IN  At(IF bal \in {2, -2} THEN Rebalance(t, scan, dir)
         ELSE [t EXCEPT !.bal[scan] = bal],
         IF bal \in {1, -1} \/ (bal # 0 /\ even) THEN Nil ELSE up,
         Side(up # Nil /\ t.link[RIGHT][up] = scan))

Shrunk(t, scan, dir) ==
  Loop([y \in Climbs |-> IF y.scan = Nil THEN y ELSE ShrunkOnce(y.t, y.scan, y.dir)],
       At(t, scan, dir)).t

\* A node with one child at most: the child takes its place.
RemoveOuter(t, n) ==
  LET up    == t.parent[n]
      child == IF t.link[LEFT][n] = Nil THEN t.link[RIGHT][n] ELSE t.link[LEFT][n]
      dir   == Side(t.link[RIGHT][up] = n)
  IN  IF up = Nil THEN SetParent([t EXCEPT !.root = child], child, Nil)
      ELSE Shrunk(Attach(t, up, dir, child), up, dir)

\* A node with two: the one before it takes its place, its own left child
\* the place of that.
RemoveInner(t, n) ==
  LET prev == FindPrevNodeByAddress(t, n)
      up   == t.parent[prev]
      near == up = n
      t1   == IF near THEN t
              ELSE Attach(Attach(t, up, RIGHT, t.link[LEFT][prev]),
                          prev, LEFT, t.link[LEFT][n])
      t2   == [Attach(t1, prev, RIGHT, t.link[RIGHT][n]) EXCEPT
                 !.bal[prev] = t.bal[n]]
      t3   == LinkParent(t2, n, prev, t.parent[n])
  IN  IF near THEN Shrunk(t3, prev, LEFT) ELSE Shrunk(t3, up, RIGHT)

\* The memory of a removed node is its owner's again; the model clears it.
RemNodeByAddress(t, n) ==
  NewLeaf(IF t.link[LEFT][n] # Nil /\ t.link[RIGHT][n] # Nil
          THEN RemoveInner(t, n) ELSE RemoveOuter(t, n), n, Nil)

RemNodeByKey(t, key) ==
  LET n == FindNode(t, t.root, key)
  IN  IF n = Nil THEN t ELSE RemNodeByAddress(t, n)

-----------------------------------------------------------------------------
EmptyTree == [root   |-> Nil,
              link   |-> [d \in {LEFT, RIGHT} |-> [k \in Pointers |-> Nil]],
              parent |-> [k \in Pointers |-> Nil],
              bal    |-> [k \in Pointers |-> 0]]

TreeInit == tree = EmptyTree

Add(k) == tree' = AddNode(tree, k)
Rem(k) == tree' = RemNodeByKey(tree, k)

TreeNext == \E k \in Keys : Add(k) \/ Rem(k)

TreeSpec == TreeInit /\ [][TreeNext]_tree

-----------------------------------------------------------------------------
(* Properties *)

\* The nodes below each node, itself included, and its height.
Subtree(t) ==
  LET sub[n \in Pointers] ==
        IF n = Nil THEN {}
        ELSE {n} \cup sub[t.link[LEFT][n]] \cup sub[t.link[RIGHT][n]]
  IN  sub

Higher(a, b) == IF a > b THEN a ELSE b

Height(t) ==
  LET height[n \in Pointers] ==
        IF n = Nil THEN 0
        ELSE 1 + Higher(height[t.link[LEFT][n]], height[t.link[RIGHT][n]])
  IN  height

Stored == Subtree(tree)[tree.root]

\* After any series of additions and removals the tree is in order, every
\* node knows its parent, and avl_balance is the true difference of heights,
\* which is never more than one.
Balanced ==
  LET below  == Subtree(tree)
      height == Height(tree)
  IN  /\ tree.root # Nil => tree.parent[tree.root] = Nil
      /\ \A n \in Stored :
           LET l == tree.link[LEFT][n]
               r == tree.link[RIGHT][n]
           IN  /\ \A m \in below[l] : m < n
               /\ \A m \in below[r] : m > n
               /\ \A c \in {l, r} \ {Nil} : tree.parent[c] = n
               /\ tree.bal[n] = height[r] - height[l]
               /\ tree.bal[n] \in -1 .. 1

Highest(S) == IF S = {} THEN Nil ELSE CHOOSE x \in S : \A y \in S : x >= y
Lowest(S)  == IF S = {} THEN Nil ELSE CHOOSE x \in S : \A y \in S : x <= y

\* All searches answer by the order of the stored keys alone, whatever the
\* shape of the tree: by key, by address, first and last.
SearchesAgree ==
  LET stored   == Stored
      below(k) == {x \in stored : x < k}
      above(k) == {x \in stored : x > k}
  IN  /\ FindFirstNode(tree) = Lowest(stored) /\ FindLastNode(tree) = Highest(stored)
      /\ \A k \in Keys :
           LET here == stored \cap {k}
           IN  /\ FindNode(tree, tree.root, k) = Highest(here)
               /\ FindPrevNodeByKey(tree, k) = Highest(below(k) \cup here)
               /\ FindNextNodeByKey(tree, k) = Lowest(above(k) \cup here)
      /\ \A n \in stored : /\ FindPrevNodeByAddress(tree, n) = Highest(below(n))
                           /\ FindNextNodeByAddress(tree, n) = Lowest(above(n))

\* To its users the tree is a set: a step adds or removes one key and keeps
\* all the others.
IsASet ==
  [][tree' # tree =>
       LET old == Stored
           new == Stored'
       IN  \E k \in (old \ new) \cup (new \ old) :
             \/ new = old \cup {k} /\ Add(k)
             \/ old = new \cup {k} /\ Rem(k)]_tree
=============================================================================
