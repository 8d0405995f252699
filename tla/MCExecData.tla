----------------------------- MODULE MCExecData -----------------------------
(***************************************************************************)
(* The data structures of exec.library and utility.library for TLC: lists, *)
(* trees, tag lists and pack tables, and the times of timer.device.  They  *)
(* share nothing, so a behaviour is about one of them and leaves the       *)
(* others as they began.                                                   *)
(***************************************************************************)
EXTENDS ExecList, AvlTree, TagLists, StructPack, Timer

CONSTANTS n1, n2, n3      \* nodes of lists

\* Two nodes of equal priority and one above them; one has no name.
SomePri  == [n \in {n1, n2, n3} |-> IF n = n3 THEN 2 ELSE 1]
SomeName == [n \in {n1, n2, n3} |-> IF n = n1 THEN NULL ELSE "name"]

TwelveKeys == 1 .. 12    \* the least that a removal with two rotations takes

tagA == 16
tagB == 17
Item(t, d) == [tag |-> t, data |-> d]
Done == Item(TAG_DONE, 0)

\* List at 1 to 5, in one array or two, with items to skip and to ignore;
\* Changes at 6 to 8; memory for a clone from 9 on.
SomeTags ==
  {<<a, b, c, Item(tagA, 0), Done, e, f, Done, Done, Done, Done, Done, Done>> :
     a \in {Item(tagA, 0), Item(tagA, tagB), Item(TAG_SKIP, 1), Item(TAG_IGNORE, 0)},
     b \in {Item(tagA, 0), Item(tagB, tagB), Item(TAG_SKIP, 1)},
     c \in {Item(TAG_MORE, 4), Done},
     e \in {Item(tagB, 0)},
     f \in {Item(tagA, tagB), Item(tagB, tagB)}}
OneTagEach == {{tagA}, {tagB}}

Field(t, o, k, b, x, d) ==
  [tag |-> t, off |-> o, kind |-> k, bit |-> b, exists |-> x, dir |-> d]
\* Flags that share a byte, fields of every width, and the entry that is 0.
SomeTables ==
  {<<Field(1, 0, "BIT", 0, FALSE, "both"), Field(2, 0, "FLIPBIT", 1, FALSE, "both"),
     Field(3, 1, "BYTE", 0, FALSE, "both")>>,
   <<Field(1, 0, "FLIPBIT", 0, TRUE, "both"), Field(2, 0, "BIT", 1, TRUE, "both"),
     Field(3, 1, "UBYTE", 0, FALSE, "both")>>,
   <<Field(1, 0, "WORD", 0, FALSE, "both"), Field(2, 2, "UWORD", 0, FALSE, "both"),
     Field(3, 4, "LONG", 0, FALSE, "both")>>,
   <<Field(1, 0, "ULONG", 0, FALSE, "packonly"), Field(2, 4, "UBYTE", 0, FALSE, "unpackonly"),
     Field(0, 0, "UBYTE", 0, FALSE, "both"), Field(3, 5, "BYTE", 0, FALSE, "both")>>,
   <<Field(1, 0, "SIPTR", 0, FALSE, "both"), Field(2, 8, "IPTR", 0, FALSE, "both")>>}

\* With bytes of two bits: the ends of the signed and unsigned ranges.
SomeData == {0, 1, 2, 130, 32768, 65535}

\* Seconds of four nanoseconds: nothing, less and more than one of them.
SomeSpans == {[sec |-> s, nsec |-> n] : s \in 0 .. 1, n \in {0, 1, 3, 9}}

VARIABLE subject     \* what the behaviour is about

Subjects == {"list", "tree", "tags", "pack", "time"}

Init ==
  /\ subject \in Subjects
  /\ ListInit /\ TreeInit /\ TagInit /\ PackInit /\ TimerInit
  /\ subject # "tags" => tags = CHOOSE m \in InitialTags : TRUE
  /\ subject # "pack" => table = (CHOOSE t \in Tables : TRUE) /\ struct[0] = 0
  /\ subject # "time" => clock = Zero

Next ==
  /\ \/ subject = "list" /\ ListNext /\ UNCHANGED <<tree, tagVars, packVars, timerVars>>
     \/ subject = "tree" /\ TreeNext /\ UNCHANGED <<listVars, tagVars, packVars, timerVars>>
     \/ subject = "tags" /\ TagNext /\ UNCHANGED <<listVars, tree, packVars, timerVars>>
     \/ subject = "time" /\ TimerNext /\ UNCHANGED <<listVars, tree, tagVars, packVars>>
     \/ subject = "pack" /\ PackNext /\ UNCHANGED <<listVars, tree, tagVars, timerVars>>
  /\ UNCHANGED subject

Spec == Init /\ [][Next]_<<subject, listVars, tree, tagVars, packVars, timerVars>>
=============================================================================
