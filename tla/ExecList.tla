------------------------------ MODULE ExecList ------------------------------
(***************************************************************************)
(* The doubly linked lists of exec.library (exec/lists.h and the calls of  *)
(* libs/exec).  A list header overlays two nodes: lh_Head and lh_Tail are  *)
(* ln_Succ and ln_Pred of a node before the first, lh_Tail and lh_TailPred *)
(* those of a node behind the last; lh_Tail, which both share, is NULL.    *)
(*                                                                         *)
(* The loop of Enqueue and a ForeachNodeSafe loop of the caller are        *)
(* stepped node by node; the body of the latter may change the lists.      *)
(***************************************************************************)
EXTENDS Integers, Sequences, FiniteSets

CONSTANTS
  Nodes,
  Lists,
  Pri,        \* ln_Pri of each node
  Name,       \* ln_Name of each node, or NULL
  NULL

HeadOf(l) == <<l, "head">>     \* the list's own address
TailOf(l) == <<l, "tail">>     \* the address of lh_Tail

Heads == {HeadOf(l) : l \in Lists}
Tails == {TailOf(l) : l \in Lists}
Cells == Nodes \cup Heads \cup Tails

ASSUME ListAssumption ==
  /\ IsFiniteSet(Nodes)
  /\ Pri \in [Nodes -> Int]
  /\ NULL \notin Cells /\ NULL \notin Lists
  /\ Nodes \cap (Heads \cup Tails) = {}
  /\ NULL \notin [list : Lists, node : Nodes, next : Cells]
                 \cup [list : Lists, current : Nodes, next : Cells]

VARIABLES
  succ, pred,   \* ln_Succ and ln_Pred of every cell
  owner,        \* the list the callers have put each node in, or NULL
  scan,         \* Enqueue's loop: its list, node and next; or NULL
  walk,         \* the caller's ForeachNodeSafe loop: its list, current, next
  due           \* nodes that were there when the loop began, have stayed in
                \*   the list, and have not been visited yet

listVars == <<succ, pred, owner, scan, walk, due>>

Members(l) == {n \in Nodes : owner[n] = l}

\* ForeachNode: the cells from lh_Head on, up to the one without successor.
Reached(l) ==
  LET at[i \in 0 .. Cardinality(Nodes)] ==
        IF i = 0 THEN succ[HeadOf(l)]
        ELSE LET c == at[i - 1] IN IF succ[c] = NULL THEN c ELSE succ[c]
  IN  at

\* The nodes among them.
Contents(l) ==
  LET at == Reached(l)
  IN  [i \in 1 .. Cardinality({j \in DOMAIN at : at[j] \in Nodes}) |-> at[i - 1]]

-----------------------------------------------------------------------------
(* The look-ups; a cell without successor is the end of a list. *)

IsListEmpty(l) == pred[TailOf(l)] = HeadOf(l)

ListLength(l) == Len(Contents(l))

GetHead(l) == IF succ[succ[HeadOf(l)]] # NULL THEN succ[HeadOf(l)] ELSE NULL

GetTail(l) == IF pred[pred[TailOf(l)]] # NULL THEN pred[TailOf(l)] ELSE NULL

\* Seeded fault: the sentinel behind the last node counts as one.
GetSucc_Sentinel(n) == IF n = NULL THEN NULL ELSE succ[n]

GetSucc(n) ==
  IF n # NULL /\ succ[n] # NULL /\ succ[succ[n]] # NULL THEN succ[n] ELSE NULL

GetPred(n) ==
  IF n # NULL /\ pred[n] # NULL /\ pred[pred[n]] # NULL THEN pred[n] ELSE NULL

\* The nodes that FindName looks at; it stays at the one it returns.
LookedAt(l, name) ==
  LET at[i \in 0 .. Cardinality(Nodes)] ==
        IF i = 0 THEN GetHead(l)
        ELSE LET n == at[i - 1]
             IN  IF n \in Nodes => Name[n] = name THEN n ELSE GetSucc(n)
  IN  at

FindName(l, name) == LookedAt(l, name)[Cardinality(Nodes)]

-----------------------------------------------------------------------------
(* The calls that change a list.  Callers add a node that is in no list,   *)
(* and remove one that is in a list.                                       *)

ListInit ==
  /\ succ = [c \in Cells |-> IF \E l \in Lists : c = HeadOf(l)
                             THEN TailOf(c[1]) ELSE NULL]
  /\ pred = [c \in Cells |-> IF \E l \in Lists : c = TailOf(l)
                             THEN HeadOf(c[1]) ELSE NULL]
  /\ owner = [n \in Nodes |-> NULL]
  /\ scan = NULL /\ walk = NULL /\ due = {}

Ready == scan = NULL      \* no Enqueue is under way

\* n goes between p and the cell behind it.
LinkAfter(p, n) ==
  /\ succ' = [succ EXCEPT ![n] = succ[p], ![p] = n]
  /\ pred' = [pred EXCEPT ![n] = p, ![succ[p]] = n]

Unlink(n) ==
  /\ succ' = [succ EXCEPT ![pred[n]] = succ[n]]
  /\ pred' = [pred EXCEPT ![succ[n]] = pred[n]]

Adding(l, n) == /\ Ready /\ owner[n] = NULL
                /\ owner' = [owner EXCEPT ![n] = l]
                /\ UNCHANGED <<scan, walk, due>>

AddHead(l, n) == Adding(l, n) /\ LinkAfter(HeadOf(l), n)

\* Seeded fault: the old last node is not told of its successor.
AddTail_HalfLinked(l, n) ==
  /\ Adding(l, n)
  /\ succ' = [succ EXCEPT ![n] = TailOf(l)]
  /\ pred' = [pred EXCEPT ![n] = pred[TailOf(l)], ![TailOf(l)] = n]

AddTail(l, n) == Adding(l, n) /\ LinkAfter(pred[TailOf(l)], n)

\* Behind pred p; NULL means the beginning, and a p without successor, which
\* is &lh_Tail, the end.
Insert(l, n, p) ==
  \/ p = NULL /\ AddHead(l, n)
  \/ p \in Members(l) /\ Adding(l, n) /\ LinkAfter(p, n)
  \/ p = TailOf(l) /\ AddTail(l, n)

\* ForeachNode (list, next), the first step of the loop.
EnqueueBegin(l, n) ==
  /\ Ready /\ owner[n] = NULL
  /\ scan' = [list |-> l, node |-> n, next |-> succ[HeadOf(l)]]
  /\ UNCHANGED <<succ, pred, owner, walk, due>>

\* Seeded fault: the search stops at a node of the same priority.
Stop_AtEqual(n, next) == next \in Nodes => Pri[n] >= Pri[next]

\* Where the loop is left: at the end, or at a node of lower priority.
Stop(n, next) == next \in Nodes => Pri[n] > Pri[next]

EnqueueNext ==
  /\ ~ Ready /\ ~ Stop(scan.node, scan.next)
  /\ scan' = [scan EXCEPT !.next = succ[@]]
  /\ UNCHANGED <<succ, pred, owner, walk, due>>

Enqueue(l, n) ==
  /\ ~ Ready /\ scan.list = l /\ scan.node = n /\ Stop(n, scan.next)
  /\ LinkAfter(pred[scan.next], n)
  /\ owner' = [owner EXCEPT ![n] = l]
  /\ scan' = NULL
  /\ UNCHANGED <<walk, due>>

\* The body of a ForeachNodeSafe loop may remove any node but the next.
Removing(n) == /\ Ready /\ owner[n] # NULL
               /\ walk # NULL => n # walk.next
               /\ owner' = [owner EXCEPT ![n] = NULL]
               /\ due' = due \ {n}
               /\ UNCHANGED <<scan, walk>>

Remove(n) == Removing(n) /\ Unlink(n)

\* RemHead is written out in its own way: the successor is bent back to the
\* header, then lh_Head goes past the node.
RemHead(l, n) ==
  IF succ[succ[HeadOf(l)]] = NULL
  THEN n = NULL /\ Ready /\ UNCHANGED listVars
  ELSE /\ n = succ[HeadOf(l)] /\ Removing(n)
       /\ pred' = [pred EXCEPT ![succ[n]] = HeadOf(l)]
       /\ succ' = [succ EXCEPT ![HeadOf(l)] = succ[n]]

RemTail(l, n) ==
  IF GetTail(l) = NULL THEN n = NULL /\ Ready /\ UNCHANGED listVars
                       ELSE n = GetTail(l) /\ Removing(n) /\ Unlink(n)

-----------------------------------------------------------------------------
(* ForeachNodeSafe: next is read before the body runs. *)

\* Seeded fault: the end of the list is not recognised.
Visit_NoEnd(l, c, left) ==
  /\ walk' = [list |-> l, current |-> c, next |-> succ[c]]
  /\ due' = left \ {c}
  /\ UNCHANGED <<succ, pred, owner, scan>>

\* The loop comes to cell c of list l, and ends if that is no node.
Visit(l, c, left) ==
  /\ walk' = IF c \in Nodes THEN [list |-> l, current |-> c, next |-> succ[c]]
                            ELSE NULL
  /\ due' = left \ {c}
  /\ UNCHANGED <<succ, pred, owner, scan>>

WalkBegin(l) ==
  Ready /\ walk = NULL /\ Visit(l, succ[HeadOf(l)], Members(l))

\* Seeded fault: ForeachNode, which asks the current node for the next.
Following_Unsafe == succ[walk.current]

Following == walk.next

WalkNext == Ready /\ walk # NULL /\ Visit(walk.list, Following, due)

ListNext ==
  \/ \E l \in Lists, n \in Nodes :
       \/ AddHead(l, n) \/ AddTail(l, n)
       \/ \E p \in Members(l) \cup {TailOf(l), NULL} : Insert(l, n, p)
       \/ EnqueueBegin(l, n) \/ Enqueue(l, n)
  \/ EnqueueNext
  \/ \E n \in Nodes : Remove(n)
  \/ \E l \in Lists, n \in Nodes \cup {NULL} : RemHead(l, n) \/ RemTail(l, n)
  \/ \E l \in Lists : WalkBegin(l)
  \/ WalkNext

ListSpec == ListInit /\ [][ListNext]_listVars

-----------------------------------------------------------------------------
(* Properties *)

ListTypeOK ==
  /\ succ \in [Cells -> Cells \cup {NULL}]
  /\ pred \in [Cells -> Cells \cup {NULL}]
  /\ owner \in [Nodes -> Lists \cup {NULL}]
  /\ due \subseteq Nodes
  /\ \/ scan = NULL
     \/ scan \in [list : Lists, node : Nodes, next : Nodes \cup Tails]
  /\ \/ walk = NULL
     \/ walk \in [list : Lists, current : Nodes, next : Nodes \cup Tails]

\* The chains of each list are closed, forward and back: every link leads to
\* a member of the same list or to the list's own end, and is answered by the
\* opposite link.  So no call cuts a node off, joins two lists or leaves a
\* one-way link behind, whatever order the calls come in.
Linked ==
  \A l \in Lists :
    /\ succ[TailOf(l)] = NULL /\ pred[HeadOf(l)] = NULL
    /\ \A c \in Members(l) \cup {HeadOf(l)} :
         succ[c] \in Members(l) \cup {TailOf(l)} /\ pred[succ[c]] = c
    /\ \A c \in Members(l) \cup {TailOf(l)} :
         pred[c] \in Members(l) \cup {HeadOf(l)} /\ succ[pred[c]] = c

\* What the look-ups answer, walking either way, is what the sequence of the
\* list's nodes says (findname.c, GetHead to ListLength of exec/lists.h).
LookupsAgree ==
  \A l \in Lists :
    LET s == Contents(l)
        at(i) == IF i \in DOMAIN s THEN s[i] ELSE NULL
        named(x) == {i \in DOMAIN s : Name[s[i]] = x}
    IN  /\ {s[i] : i \in DOMAIN s} = Members(l) /\ Len(s) = Cardinality(Members(l))
        /\ IsListEmpty(l) <=> s = <<>>
        /\ GetHead(l) = at(1) /\ GetTail(l) = at(Len(s))
        /\ \A i \in DOMAIN s : GetSucc(s[i]) = at(i + 1) /\ GetPred(s[i]) = at(i - 1)
        /\ \A x \in {Name[n] : n \in Nodes} \ {NULL} :
             FindName(l, x) =
               IF named(x) = {} THEN NULL
               ELSE s[CHOOSE i \in named(x) : \A j \in named(x) : i <= j]

\* Every call has the effect on the sequences that its documentation states,
\* Enqueue's place among equal priorities included (enqueue.c:17-19).
Documented == INSTANCE NodeLists WITH lists <- [l \in Lists |-> Contents(l)]

CallsAsDocumented ==
  Documented!Init /\
  [][\A n \in Nodes : owner'[n] # owner[n] =>
       \A l \in {owner[n], owner'[n]} \ {NULL} :
         /\ AddHead(l, n) => Documented!AddHead(l, n)
         /\ AddTail(l, n) => Documented!AddTail(l, n)
         /\ \A p \in Nodes : Insert(l, n, p) => Documented!Insert(l, n, p)
         /\ Enqueue(l, n) => Documented!Enqueue(l, n)
         /\ Remove(n) => Documented!Remove(n)
         /\ RemHead(l, n) => Documented!RemHead(l, n)
         /\ RemTail(l, n) => Documented!RemTail(l, n)]_listVars

\* A ForeachNodeSafe loop whose body removes nodes, the current one included,
\* and adds others still comes to every node that stayed in the list.
SafeLoopIsComplete == walk = NULL => due = {}
=============================================================================
