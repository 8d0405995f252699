----------------------------- MODULE StructPack -----------------------------
(***************************************************************************)
(* PackStructureTags and UnpackStructureTags of utility.library: the data  *)
(* of tags goes into the fields of a structure and back, as a pack table   *)
(* says.  The structure is memory, byte by byte, low bytes first; a byte   *)
(* has ByteBits bits (8 in the code), an IPTR has 8 bytes.                 *)
(*                                                                         *)
(* A table entry is the record of what PACK_ENTRY and PACK_BYTEBIT of      *)
(* utility/pack.h encode:                                                  *)
(*    tag     the tag, relative to the table's base                        *)
(*    off     the field's offset (memOff)                                  *)
(*    kind    a member of Kinds (bits 27, 28 and PSTF_SIGNED)              *)
(*    bit     bitOff                                                       *)
(*    exists  PSTF_EXISTS                                                  *)
(*    dir     "both", "packonly" or "unpackonly"                           *)
(***************************************************************************)
EXTENDS Integers, Sequences

CONSTANTS
  ByteBits, StructSize,
  Tables,        \* pack tables
  Values,        \* values of ti_Data
  Fillings       \* what a byte of the structure may hold before

\* 2 ^ n, and 2 ^ (n * ByteBits): what bit n of a byte and byte n count for.
TwoTo[n \in 0 .. ByteBits] == IF n = 0 THEN 1 ELSE 2 * TwoTo[n - 1]
Base == TwoTo[ByteBits]
Cells64 == 8                     \* bytes of an IPTR
BaseTo[n \in 0 .. Cells64] == IF n = 0 THEN 1 ELSE Base * BaseTo[n - 1]

Width == [UBYTE |-> 1, BYTE |-> 1, UWORD |-> 2, WORD |-> 2, ULONG |-> 4,
          LONG |-> 4, IPTR |-> 8, SIPTR |-> 8, BIT |-> 1, FLIPBIT |-> 1]
Kinds  == DOMAIN Width
Signed == {"BYTE", "WORD", "LONG", "SIPTR"}
Bits   == {"BIT", "FLIPBIT"}

\* The fields of a table lie in the structure.
PackTables ==
  {t \in Seq([tag : Nat, off : Nat, kind : Kinds, bit : 0 .. ByteBits - 1,
              exists : BOOLEAN, dir : {"both", "packonly", "unpackonly"}]) :
     \A i \in DOMAIN t : t[i].off + Width[t[i].kind] <= StructSize}

ASSUME PackAssumption ==
  /\ ByteBits \in Nat \ {0} /\ StructSize \in Nat
  /\ Values \subseteq 0 .. BaseTo[Cells64] - 1
  /\ Tables \subseteq PackTables
  /\ Fillings \subseteq 0 .. Base - 1

VARIABLES table, struct, given, taken    \* taken: what Unpack has stored

packVars == <<table, struct, given, taken>>

\* The entry whose encoding is 0, which is also the end of a table.
IsEnd(e) == e.kind = "UBYTE" /\ e.tag = 0 /\ e.off = 0 /\ e.bit = 0
              /\ ~ e.exists /\ e.dir = "both"

\* The part of a table that the loop comes to.
Entries(t) ==
  SubSeq(t, 1, CHOOSE n \in 0 .. Len(t) :
                 /\ \A i \in 1 .. n : ~ IsEnd(t[i])
                 /\ n < Len(t) => IsEnd(t[n + 1]))

BitIn(byte, bit) == (byte \div TwoTo[bit]) % 2

SetBit(byte, bit, on) ==
  byte + ((IF on THEN 1 ELSE 0) - BitIn(byte, bit)) * TwoTo[bit]

WriteCells(m, off, w, v) ==
  [a \in DOMAIN m |-> IF a \in off .. off + w - 1
                      THEN (v \div BaseTo[a - off]) % Base ELSE m[a]]

ReadCells(m, off, w) ==
  LET low[i \in 0 .. w] ==
        IF i = 0 THEN 0 ELSE low[i - 1] + m[off + i - 1] * BaseTo[i - 1]
  IN  low[w]

\* Stored in a field of w bytes and read back: signed fields are extended.
Fit(kind, v) ==
  LET top == BaseTo[Width[kind]]
      low == v % top
  IN  IF kind \in Signed /\ 2 * low >= top THEN low + BaseTo[Cells64] - top ELSE low

PackEntry(m, e, data) ==
  IF e.dir = "unpackonly" \/ e.tag \notin DOMAIN data THEN m
  ELSE IF e.kind \in Bits
  THEN [m EXCEPT ![e.off] =
          SetBit(@, e.bit, (e.exists \/ data[e.tag] # 0) = (e.kind = "BIT"))]
  ELSE WriteCells(m, e.off, Width[e.kind], data[e.tag])

\* Seeded fault: the flag of the signed kinds is lost in the switch.
UnpackEntry_Unsigned(m, e) ==
  IF e.kind \in Bits
  THEN IF (BitIn(m[e.off], e.bit) = 1) = (e.kind = "BIT") THEN 1 ELSE 0
  ELSE ReadCells(m, e.off, Width[e.kind])

UnpackEntry(m, e) ==
  IF e.kind \in Bits
  THEN IF (BitIn(m[e.off], e.bit) = 1) = (e.kind = "BIT") THEN 1 ELSE 0
  ELSE Fit(e.kind, ReadCells(m, e.off, Width[e.kind]))

\* The loops over the table: the structure after packing it, and the data of
\* the wanted tags after unpacking it.
Packed(m, es, data) ==
  LET done[i \in 0 .. Len(es)] ==
        IF i = 0 THEN m ELSE PackEntry(done[i - 1], es[i], data)
  IN  done[Len(es)]

Unpacked(m, es, wanted) ==
  LET done[i \in 0 .. Len(es)] ==
        IF i = 0 THEN <<>>
        ELSE IF es[i].dir = "packonly" \/ es[i].tag \notin wanted THEN done[i - 1]
        ELSE [t \in DOMAIN done[i - 1] \cup {es[i].tag} |->
                IF t = es[i].tag THEN UnpackEntry(m, es[i]) ELSE done[i - 1][t]]
  IN  done[Len(es)]

-----------------------------------------------------------------------------
PackInit ==
  /\ table \in Tables /\ given = <<>> /\ taken = <<>>
  /\ \E f \in Fillings : struct = [a \in 0 .. StructSize - 1 |-> f]

TableTags == {table[i].tag : i \in DOMAIN table}

\* The caller's tag list has some of the tags, with any data.
PackStructureTags(data) ==
  /\ given = <<>> /\ taken = <<>>
  /\ struct' = Packed(struct, Entries(table), data)
  /\ given' = data
  /\ UNCHANGED <<table, taken>>

\* Every tag's ti_Data points to an IPTR; PSTF_EXISTS has no effect.
UnpackStructureTags(wanted) ==
  /\ taken = <<>>
  /\ taken' = Unpacked(struct, Entries(table), wanted)
  /\ UNCHANGED <<table, struct, given>>

PackNext ==
  \/ \E some \in SUBSET TableTags : \E data \in [some -> Values] : PackStructureTags(data)
  \/ \E wanted \in SUBSET TableTags : UnpackStructureTags(wanted)

PackSpec == PackInit /\ [][PackNext]_packVars

-----------------------------------------------------------------------------
(* Properties *)

\* No bit belongs to the fields of both entries.
Apart(e, f) ==
  \/ e.off + Width[e.kind] <= f.off \/ f.off + Width[f.kind] <= e.off
  \/ e.kind \in Bits /\ f.kind \in Bits /\ e.bit # f.bit

\* No later entry overwrites the field of entry i or what it stores for the tag.
Lasting(i) ==
  LET es == Entries(table)
  IN  /\ es[i].dir = "both"
      /\ \A j \in i + 1 .. Len(es) :
           /\ es[j].dir = "unpackonly" \/ Apart(es[i], es[j])
           /\ es[j].dir = "packonly" \/ es[j].tag # es[i].tag

\* What the field of an entry carries of a value.
Carried(e, v) ==
  IF e.kind \notin Bits THEN Fit(e.kind, v) ELSE IF e.exists \/ v # 0 THEN 1 ELSE 0

\* Data that has been packed and is unpacked again comes back as the field's
\* type carries it: cut to its width, extended by its sign, a flag as TRUE or
\* FALSE and FLIPBIT undoing itself, whatever other entries share its bytes.
PackedComesBack ==
  \A i \in DOMAIN Entries(table) :
    LET e == Entries(table)[i]
    IN  Lasting(i) /\ e.tag \in DOMAIN given \cap DOMAIN taken =>
          taken[e.tag] = Carried(e, given[e.tag])
=============================================================================
