------------------------------ MODULE TagLists ------------------------------
(***************************************************************************)
(* The tag lists of utility.library (libs/utility; exec.library has a copy *)
(* of the searching calls in libs/exec/tags.c).  A tag list is an array of *)
(* items in memory that may skip, ignore and continue in another array:    *)
(* tags is the memory, addresses are positive numbers, NULL is 0.          *)
(***************************************************************************)
EXTENDS Loops, Sequences

CONSTANTS
  MemoryEnd,      \* the last address
  InitialTags,    \* memories to begin with
  List, Changes,  \* addresses of a list, and of a list of changes to it
  CloneAt,        \* where the memory for a clone comes from
  TagArrays       \* sets of tags, as FilterTagItems is given them

TAG_DONE   == 0
TAG_IGNORE == 1
TAG_MORE   == 2
TAG_SKIP   == 3

Control == TAG_DONE .. TAG_SKIP

TagItem   == [tag : Nat, data : Nat]
Addresses == 1 .. MemoryEnd
Memories  == [Addresses -> TagItem]

\* The address behind an item that is not TAG_DONE.
Behind(m, p) ==
  CASE m[p].tag = TAG_MORE -> m[p].data
    [] m[p].tag = TAG_SKIP -> p + m[p].data + 1
    [] OTHER               -> p + 1

\* r is the way through the list at p, every item that is not skipped.
IsRoute(m, p, r) ==
  /\ r \in Seq(Addresses) /\ r # <<>> /\ r[1] = p /\ m[r[Len(r)]].tag = TAG_DONE
  /\ \A i \in 1 .. Len(r) - 1 : m[r[i]].tag # TAG_DONE /\ r[i + 1] = Behind(m, r[i])
  /\ \A i, j \in 1 .. Len(r) : r[i] = r[j] => i = j

RouteFrom(m, p) ==
  LET next == [r \in Seq(Nat) |->
                 LET last == r[Len(r)]
                 IN  IF last \notin Addresses \/ Len(r) >= MemoryEnd THEN r
                     ELSE IF m[last].tag = TAG_DONE THEN r
                     ELSE Append(r, Behind(m, last))]
  IN  Loop(next, <<p>>)

\* Both lists end, neither comes by an item of the other, the memory for a
\* clone is apart from them and large enough, and no change turns a tag into
\* one that would have MapTags send the walk elsewhere.
ASSUME TagAssumption ==
  /\ MemoryEnd \in Nat /\ CloneAt \in Addresses
  /\ InitialTags \subseteq Memories
  /\ \A m \in InitialTags :
       LET list    == RouteFrom(m, List)
           changes == RouteFrom(m, Changes)
       IN  /\ IsRoute(m, List, list) /\ IsRoute(m, Changes, changes)
           /\ \A i \in DOMAIN list : list[i] < CloneAt
           /\ \A j \in DOMAIN changes : changes[j] < CloneAt
           /\ \A i \in DOMAIN list, j \in DOMAIN changes : list[i] # changes[j]
           /\ \A j \in DOMAIN changes :
                LET c == m[changes[j]]
                IN  c.tag \notin Control => c.data \notin {TAG_MORE, TAG_SKIP}
           /\ CloneAt + Len(list) - 1 \in Addresses

VARIABLES
  tags,      \* tags[a]: the item at address a
  clone,     \* address of the clone of List, or 0
  fresh,     \* nothing has changed List since it was cloned
  cloned     \* what List held then

tagVars == <<tags, clone, fresh, cloned>>

\* Seeded fault: the item of TAG_SKIP counts among those that are skipped.
TagTurn_SkipsShort(m) ==
  [p \in Nat |->
     IF p \notin Addresses THEN p
     ELSE CASE m[p].tag = TAG_DONE   -> 0
            [] m[p].tag = TAG_IGNORE -> p + 1
            [] m[p].tag = TAG_MORE   -> m[p].data
            [] m[p].tag = TAG_SKIP   -> p + m[p].data
            [] OTHER                 -> p]

\* One turn of the loop in NextTagItem; it ends at an item, or at NULL.
TagTurn(m) ==
  [p \in Nat |->
     IF p \notin Addresses THEN p
     ELSE CASE m[p].tag = TAG_DONE   -> 0
            [] m[p].tag = TAG_IGNORE -> p + 1
            [] m[p].tag = TAG_MORE   -> m[p].data
            [] m[p].tag = TAG_SKIP   -> p + m[p].data + 1
            [] OTHER                 -> p]

\* The next item from p on, and the state of the walk behind it.
NextTagItem(m, p) ==
  LET i == Loop(TagTurn(m), p)
  IN  IF i \in Addresses THEN [item |-> i, rest |-> i + 1]
                         ELSE [item |-> 0, rest |-> 0]

FindTagItem(m, tag, p) ==
  LET next == [q \in Nat |->
                 LET n == NextTagItem(m, q)
                 IN  IF n.item = 0 \/ m[n.item].tag = tag THEN n.item ELSE n.rest]
  IN  Loop(next, p)

GetTagData(m, tag, default, p) ==
  LET found == FindTagItem(m, tag, p)
  IN  IF found \in Addresses THEN m[found].data ELSE default

TagInArray(tag, array) == tag \in array

-----------------------------------------------------------------------------
(* Calls that change a list: the memory afterwards. *)

\* while ((ti = NextTagItem(&p))): body[m][i] is what the body of the loop
\* makes of the memory m at item i.  The walk is past the item by then.
ForEachItem(m, p, body) ==
  LET next == [y \in [mem : Memories, at : Nat] |->
                 LET n == NextTagItem(y.mem, y.at)
                 IN  IF n.item = 0 THEN y
                     ELSE [mem |-> body[y.mem][n.item], at |-> n.rest]]
  IN  Loop(next, [mem |-> m, at |-> p]).mem

\* keep: TAGFILTER_AND, else TAGFILTER_NOT; the count it returns is left out.
FilterTagItems(m, p, array, keep) ==
  ForEachItem(m, p, [n \in Memories |-> [i \in Addresses |->
    IF TagInArray(n[i].tag, array) = keep THEN n
    ELSE [n EXCEPT ![i].tag = TAG_IGNORE]]])

\* Seeded fault: a change is taken out once it has been applied.
FilterTagChanges_Drops(m, change, original, apply) ==
  ForEachItem(m, change, [n \in Memories |-> [i \in Addresses |->
    LET orig == FindTagItem(n, n[i].tag, original)
    IN  IF orig = 0 THEN n
        ELSE IF n[i].data = n[orig].data THEN [n EXCEPT ![i].tag = TAG_IGNORE]
        ELSE IF apply THEN [n EXCEPT ![orig].data = n[i].data, ![i].tag = TAG_IGNORE]
        ELSE n]])

FilterTagChanges(m, change, original, apply) ==
  ForEachItem(m, change, [n \in Memories |-> [i \in Addresses |->
    LET orig == FindTagItem(n, n[i].tag, original)
    IN  IF orig = 0 THEN n
        ELSE IF n[i].data = n[orig].data THEN [n EXCEPT ![i].tag = TAG_IGNORE]
        ELSE [n EXCEPT ![orig].data = IF apply THEN n[i].data ELSE @]]])

\* Has a walk of its own, with the same meaning as NextTagItem's.
ApplyTagChanges(m, p, change) ==
  LET next == [y \in [mem : Memories, at : Nat] |->
        LET a == y.at
        IN  IF a \notin Addresses THEN y
            ELSE CASE y.mem[a].tag = TAG_DONE   -> y
                   [] y.mem[a].tag = TAG_IGNORE -> [y EXCEPT !.at = a + 1]
                   [] y.mem[a].tag = TAG_MORE   -> [y EXCEPT !.at = y.mem[a].data]
                   [] y.mem[a].tag = TAG_SKIP   ->
                        [y EXCEPT !.at = a + y.mem[a].data + 1]
                   [] OTHER ->
                        [mem |-> [y.mem EXCEPT ![a].data =
                                    GetTagData(y.mem, y.mem[a].tag, @, change)],
                         at  |-> a + 1]]
  IN  Loop(next, [mem |-> m, at |-> p]).mem

MapTags(m, p, map, remove) ==
  ForEachItem(m, p, [n \in Memories |-> [i \in Addresses |->
    LET to == GetTagData(n, n[i].tag, IF remove THEN TAG_DONE ELSE n[i].tag, map)
    IN  [n EXCEPT ![i].tag = IF to = TAG_DONE THEN TAG_IGNORE ELSE to]]])

\* Seeded fault: a tag that is ignored now is passed over, not written again.
Refresh_KeepsIgnored(m, clone0, original) ==
  LET next == [y \in [mem : Memories, to : Nat, at : Nat] |->
        LET n == NextTagItem(y.mem, y.at)
        IN  IF n.item = 0 THEN y
            ELSE [mem |-> IF y.mem[y.to].tag = TAG_IGNORE THEN y.mem
                          ELSE [y.mem EXCEPT ![y.to] = y.mem[n.item]],
                  to |-> y.to + 1, at |-> n.rest]]
  IN  Loop(next, [mem |-> m, to |-> clone0, at |-> original]).mem

\* The items are copied one behind the other; the end of the clone is the
\* cleared item that AllocateTagItems has left behind them.
Refresh(m, clone0, original) ==
  LET next == [y \in [mem : Memories, to : Nat, at : Nat] |->
        LET n == NextTagItem(y.mem, y.at)
        IN  IF n.item = 0 THEN y
            ELSE [mem |-> [y.mem EXCEPT ![y.to] = y.mem[n.item]],
                  to |-> y.to + 1, at |-> n.rest]]
  IN  Loop(next, [mem |-> m, to |-> clone0, at |-> original]).mem

\* The items of a list in order, with everything that steers the walk gone.
Items(m, p) ==
  LET next == [y \in [at : Nat, seen : Seq(TagItem)] |->
        LET n == NextTagItem(m, y.at)
        IN  IF n.item = 0 THEN y
            ELSE [at |-> n.rest, seen |-> Append(y.seen, m[n.item])]]
  IN  Loop(next, [at |-> p, seen |-> <<>>]).seen

-----------------------------------------------------------------------------
TagInit == tags \in InitialTags /\ clone = 0 /\ fresh = FALSE /\ cloned = <<>>

\* A call that may change List; a clone of it is then out of date.
OnList(m) == tags' = m /\ fresh' = FALSE /\ UNCHANGED <<clone, cloned>>

OnClone(m) == clone # 0 /\ tags' = m /\ UNCHANGED <<clone, fresh, cloned>>

FilterList(array, keep) == OnList(FilterTagItems(tags, List, array, keep))
FilterClone(array, keep) == OnClone(FilterTagItems(tags, clone, array, keep))
FilterChanges(apply) == OnList(FilterTagChanges(tags, Changes, List, apply))
ApplyToList == OnList(ApplyTagChanges(tags, List, Changes))
ApplyToClone == OnClone(ApplyTagChanges(tags, clone, Changes))
MapList(remove) == OnList(MapTags(tags, List, Changes, remove))
MapClone(remove) == OnClone(MapTags(tags, clone, Changes, remove))

\* AllocateTagItems clears the memory of the clone, one item more than needed.
CloneTagItems ==
  /\ clone = 0
  /\ tags' = Refresh([a \in DOMAIN tags |-> IF a < CloneAt THEN tags[a]
                        ELSE [tag |-> TAG_DONE, data |-> 0]], CloneAt, List)
  /\ clone' = CloneAt /\ fresh' = TRUE /\ cloned' = Items(tags, List)

RefreshTagItemClones ==
  /\ fresh                 \* "the list original has NOT been changed"
  /\ OnClone(Refresh(tags, clone, List))

FreeTagItems ==
  /\ clone # 0
  /\ clone' = 0 /\ fresh' = FALSE /\ cloned' = <<>>
  /\ UNCHANGED tags

TagNext ==
  \/ \E b \in BOOLEAN :
       \/ \E array \in TagArrays : FilterList(array, b) \/ FilterClone(array, b)
       \/ FilterChanges(b) \/ MapList(b) \/ MapClone(b)
  \/ ApplyToList \/ ApplyToClone
  \/ CloneTagItems \/ RefreshTagItemClones \/ FreeTagItems

TagSpec == TagInit /\ [][TagNext]_tagVars

-----------------------------------------------------------------------------
(* Properties *)

Tags(m) == {m[a].tag : a \in DOMAIN m} \ Control

\* NextTagItem and ApplyTagChanges walk lists with code of their own: every
\* item the one sees the other sees, behind TAG_SKIP and TAG_MORE too, so a
\* list to which changes are applied answers with them and keeps the rest.
WalksAgree ==
  Items(ApplyTagChanges(tags, List, Changes), List) =
    LET old == Items(tags, List)
    IN  [i \in DOMAIN old |->
           [old[i] EXCEPT !.data = GetTagData(tags, old[i].tag, @, Changes)]]

\* s without what is at the places in D.
Without(s, D) ==
  LET kept[i \in 0 .. Len(s)] == IF i = 0 THEN <<>>
                                 ELSE IF i \in D THEN kept[i - 1]
                                 ELSE Append(kept[i - 1], s[i])
  IN  kept[Len(s)]

\* What the list at l answers t, -1 where it has no such tag, after the first
\* n of the changes s: with apply the last one for t counts.
Answer(m, l, s, n, t, apply) ==
  LET given == {j \in 1 .. n : s[j].tag = t}
  IN  IF apply /\ FindTagItem(m, t, l) # 0 /\ given # {}
      THEN s[CHOOSE j \in given : \A k \in given : k <= j].data
      ELSE GetTagData(m, t, -1, l)

\* FilterTagChanges, as its documentation has it: exactly those changes are
\* removed whose data are what the list has for the tag already, with apply
\* what the changes before have put there; all others stay, in their order.
\* The list is updated to match the changes with apply, and only then.
\* (tagVars' # tagVars adds nothing to the subscript: TLC tests it first.)
FilterTagChangesAsDocumented ==
  [][\A apply \in BOOLEAN :
       tagVars' # tagVars /\ FilterChanges(apply) =>
         LET old  == Items(tags, Changes)
             held == {i \in DOMAIN old :
                        Answer(tags, List, old, i - 1, old[i].tag, apply) = old[i].data}
         IN  /\ Items(tags', Changes) = Without(old, held)
             /\ \A t \in Tags(tags) :
                  GetTagData(tags', t, -1, List) =
                    Answer(tags, List, old, Len(old), t, apply)
             /\ ~ apply => Items(tags', List) = Items(tags, List)
    ]_tagVars

\* A clone that has been refreshed is what the original was when it was
\* cloned, in the same order, whatever was filtered or mapped in the clone in
\* between (refreshtagitemclones.c:23-32).
RefreshRestores ==
  [][tags' # tags /\ RefreshTagItemClones => Items(tags', clone) = cloned]_tagVars
=============================================================================
