----------------------------- MODULE NodeLists -----------------------------
(***************************************************************************)
(* What exec.library documents of its lists: a list is a sequence of       *)
(* nodes, a node is in one list at most, and each call has this effect.    *)
(* The doubly linked lists of ExecList implement it.                       *)
(***************************************************************************)
EXTENDS Integers, Sequences

S == INSTANCE SequencesExt

CONSTANTS Nodes, Lists, Pri, NULL

VARIABLE lists      \* the nodes of each list, first to last

Init == lists = [l \in Lists |-> <<>>]

Free(n) == \A l \in Lists : n \notin S!ToSet(lists[l])

Place(l, n, i) == /\ Free(n)
                  /\ lists' = [lists EXCEPT ![l] = S!InsertAt(@, i, n)]

Without(n) ==
  \E l \in Lists : \E i \in DOMAIN lists[l] :
    lists[l][i] = n /\ lists' = [lists EXCEPT ![l] = S!RemoveAt(@, i)]

AddHead(l, n) == Place(l, n, 1)

AddTail(l, n) == Place(l, n, Len(lists[l]) + 1)

\* "Insert Node node after pred in list."
Insert(l, n, pred) ==
  \E i \in DOMAIN lists[l] : lists[l][i] = pred /\ Place(l, n, i + 1)

\* "The node will be inserted into the list before the first node with lower
\* priority.  This creates a FIFO queue for nodes with the same priority."
Enqueue(l, n) ==
  LET lower == {i \in DOMAIN lists[l] : Pri[lists[l][i]] < Pri[n]}
  IN  Place(l, n, S!Min(lower \cup {Len(lists[l]) + 1}))

Remove(n) == ~ Free(n) /\ Without(n)

\* The node that has been removed, NULL when there is none.
RemHead(l, n) ==
  IF lists[l] = <<>> THEN n = NULL /\ UNCHANGED lists
                     ELSE n = Head(lists[l]) /\ Without(n)

RemTail(l, n) ==
  IF lists[l] = <<>> THEN n = NULL /\ UNCHANGED lists
                     ELSE n = S!Last(lists[l]) /\ Without(n)
=============================================================================
