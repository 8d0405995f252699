------------------------------- MODULE Tlsf -------------------------------
(***************************************************************************)
(* The memory allocator of exec.library (libs/exec/tlsf.c) behind AllocMem,*)
(* FreeMem, ReallocMem, the pools and their kin.                           *)
(*                                                                         *)
(* Memory is counted in units of SIZE_ALIGN (32) bytes, the room of one    *)
(* block header; NULL is 0.  The first words of a unit are all that counts:*)
(*    mem[a].prev   header.prev of a block at a, and free_node.prev of a   *)
(*                  free block at a - 1                                    *)
(*    mem[a].len    header.length: 4 * size + the two flags, and           *)
(*                  4 * free_node.next of a free block at a - 1            *)
(* What is written through one name is read through the other.  A unit     *)
(* that is neither has zeros: what is left there is never looked at.       *)
(* The counters total_size and free_size are left out: tlsf_avail alone    *)
(* reads them and nothing calls it.                                        *)
(*                                                                         *)
(* Some calls are known to damage the heap.  With KnownFaults the model    *)
(* has them, without it callers are careful: see Careful below.  A call    *)
(* runs as a whole, under local_memory_lock or the mutex of a pool.        *)
(***************************************************************************)
EXTENDS Integers, Sequences, FiniteSets

S == INSTANCE SequencesExt

CONSTANTS
  MemTop,         \* bound: the last unit that the kernel can give
  Page,           \* autogrow rounds up to pages
  Puddle,         \* autogrow_puddle_size
  MaxSli,         \* MAX_SLI, 32 in the code
  Sizes, Aligns,  \* units the callers ask for, alignments
  Places,         \* addresses AllocAbs is asked for
  MaxBlocks,      \* bound: blocks the callers have at a time
  KnownFaults     \* callers may also make the calls that damage the heap

\* SMALL_BLOCK / MAX_SLI <= SIZE_ALIGN: each small size has a list of its own.
ASSUME TlsfAssumption ==
  /\ MaxSli \in Nat \ {0} /\ \E i \in 0 .. MaxSli : MaxSli = 2 ^ i
  /\ MemTop \in Nat /\ Page \in Nat \ {0} /\ Puddle \in Nat
  /\ Sizes \subseteq Nat \ {0} /\ Places \subseteq Nat
  /\ Aligns \subseteq Nat \ {0} /\ \A n \in Aligns : \E i \in 0 .. n : n = 2 ^ i
  /\ KnownFaults \in BOOLEAN

THIS_FREE == 1
PREV_FREE == 2
HEADERS_SIZE == 4          \* two headers of blocks, one block with the area

VARIABLES
  heap,     \* memory and tlsf_t
  given     \* what the callers have: header of the block -> units asked for

vars == <<heap, given>>

-----------------------------------------------------------------------------
(* Headers *)

Zeros == [prev |-> 0, len |-> 0]

Size(h, b)     == h.mem[b].len \div 4
IsFree(h, b)   == h.mem[b].len % 2 = 1
PrevFree(h, b) == (h.mem[b].len \div 2) % 2 = 1
Behind(h, b)   == b + 1 + Size(h, b)               \* GET_NEXT_BHDR

Header(h, b, prev, size, flags) ==
  [h EXCEPT !.mem[b] = [prev |-> prev, len |-> 4 * size + flags]]

SetSize(h, b, size) == [h EXCEPT !.mem[b].len = 4 * size + (@ % 4)]
SetFree(h, b, on) ==
  [h EXCEPT !.mem[b].len = @ - (@ % 2) + (IF on THEN THIS_FREE ELSE 0)]
SetPrevFree(h, b, on) ==
  [h EXCEPT !.mem[b].len = 4 * (@ \div 4) + (@ % 2) + (IF on THEN PREV_FREE ELSE 0)]
SetPrev(h, b, prev) == [h EXCEPT !.mem[b].prev = prev]

-----------------------------------------------------------------------------
(* The lists of free blocks, one for each class of sizes.  A class is known *)
(* by its least size; the pair fl, sl of the code counts the classes, and a *)
(* bit of its bitmaps is set when the list is not empty.                    *)

\* The distance of two classes among sizes like u: 2 ^ (MS(u) - MAX_LOG2_SLI).
Grain[u \in Nat] == IF u < 2 * MaxSli THEN 1 ELSE 2 * Grain[u \div 2]

MappingInsert(u) == u - (u % Grain[u])

\* Seeded fault: a request is looked up like a block.
MappingSearch_Down(u) == u - (u % Grain[u])

\* A request is rounded up, so that all blocks of its class hold it.
MappingSearch(u) == ((u + Grain[u] - 1) \div Grain[u]) * Grain[u]

Classes == {MappingInsert(u) : u \in 0 .. MemTop}

FNext(h, b) == h.mem[b + 1].len \div 4
FPrev(h, b) == h.mem[b + 1].prev

\* The node of the block is never looked at again.
RemoveHeader(h, b, class) ==
  LET next == FNext(h, b)
      prev == FPrev(h, b)
      h1 == IF next = 0 THEN h ELSE [h EXCEPT !.mem[next + 1].prev = prev]
      h2 == IF prev = 0 THEN h1 ELSE [h1 EXCEPT !.mem[prev + 1].len = 4 * next]
      h3 == [h2 EXCEPT !.mem[b + 1] = Zeros]
  IN  IF h.matrix[class] = b THEN [h3 EXCEPT !.matrix[class] = next] ELSE h3

\* Seeded fault: the old first block is not told of the new one.
InsertFreeBlock_OneWay(h, b) ==
  LET class == MappingInsert(Size(h, b))
  IN  [h EXCEPT !.mem[b + 1] = [prev |-> 0, len |-> 4 * h.matrix[class]],
                !.matrix[class] = b]

InsertFreeBlock(h, b) ==
  LET class == MappingInsert(Size(h, b))
      first == h.matrix[class]
      h1 == [h EXCEPT !.mem[b + 1] = [prev |-> 0, len |-> 4 * first]]
      h2 == IF first = 0 THEN h1 ELSE [h1 EXCEPT !.mem[first + 1].prev = b]
  IN  [h2 EXCEPT !.matrix[class] = b]

\* Seeded fault: the list of the size itself is passed over.
FindSuitableBlock_Above(h, size) ==
  LET good == {c \in Classes : c > MappingInsert(size) /\ h.matrix[c] # 0}
  IN  IF good = {} THEN 0 ELSE CHOOSE c \in good : \A d \in good : c <= d

\* The class to take a block from, or 0.
FindSuitableBlock(h, size) ==
  LET good == {c \in Classes : c >= MappingInsert(size) /\ h.matrix[c] # 0}
  IN  IF good = {} THEN 0 ELSE CHOOSE c \in good : \A d \in good : c <= d

\* Seeded fault: the header of the second block is not added.
Merge_Short(h, b1, b2) ==
  [SetSize(h, b1, Size(h, b1) + Size(h, b2)) EXCEPT !.mem[b2] = Zeros]

Merge(h, b1, b2) ==
  [SetSize(h, b1, Size(h, b1) + Size(h, b2) + 1) EXCEPT !.mem[b2] = Zeros]

\* Both return the heap and the block.
MergePrev(h, b) ==
  LET prev == h.mem[b].prev
  IN  IF ~ PrevFree(h, b) THEN [heap |-> h, block |-> b]
      ELSE [heap |-> Merge(RemoveHeader(h, prev, MappingInsert(Size(h, prev))),
                           prev, b),
            block |-> prev]

\* Seeded fault: a free block that follows is left alone.
MergeNext_Never(h, b) == h

MergeNext(h, b) ==
  LET next == Behind(h, b)
  IN  IF ~ IsFree(h, next) THEN h
      ELSE Merge(RemoveHeader(h, next, MappingInsert(Size(h, next))), b, next)

\* The block behind b learns that b is free and where it is.
TellNext(h, b) == SetPrev(SetPrevFree(h, Behind(h, b), TRUE), Behind(h, b), b)

Release(h, b) == InsertFreeBlock(TellNext(h, b), b)

\* Block b is cut to size; what is left of it is a block marked as free.
Split(h, b, size) ==
  SetSize(Header(h, b + 1 + size, b, Size(h, b) - size - 1, THIS_FREE), b, size)

-----------------------------------------------------------------------------
(* The calls, as functions from heap to heap *)

FreeVec(h, b) ==
  LET merged == MergePrev(SetFree(h, b, TRUE), b)
      h1     == MergeNext(merged.heap, merged.block)
  IN  Release(h1, merged.block)

\* init_memory_area at address a: the block that keeps the tlsf_area_t, all
\* the rest as one block, the end; the middle is then freed.
AddMemory(h, a, size) ==
  LET h1 == Header(h, a, 0, 1, 0)
      h2 == Header(h1, a + 2, a, size - HEADERS_SIZE, 0)
      h3 == Header(h2, a + size - 1, a + 2, 0, 0)
  IN  IF size <= HEADERS_SIZE THEN h
      ELSE FreeVec([h3 EXCEPT !.areas = <<[at |-> a, end |-> a + size - 1]>> \o @],
                   a + 2)

\* The next pages, while there are any.  Without any this is what tlsf_malloc
\* makes of NULL from autogrow_get_fn, as a pool's answers; fetch_more_ram_mmap
\* takes the error -1 of SC_mmap for an address, and the process ends.
Grow(h, size) ==
  LET want  == IF size + HEADERS_SIZE < Puddle THEN Puddle ELSE size + HEADERS_SIZE
      bytes == ((want + Page - 1) \div Page) * Page
  IN  IF h.brk + bytes - 1 > MemTop THEN h
      ELSE AddMemory([h EXCEPT !.brk = @ + bytes], h.brk, bytes)

\* Block b of that class, cut to size.
Take(h, b, class, size) ==
  LET h1 == RemoveHeader(h, b, class)
      h2 == IF Size(h, b) > size + 1 THEN Release(Split(h1, b, size), b + 1 + size)
            ELSE SetPrevFree(h1, Behind(h, b), FALSE)
  IN  SetFree(h2, b, FALSE)

\* tlsf_malloc: the heap and the block, or 0.
TakeSuitable(h, size) ==
  LET class == FindSuitableBlock(h, size)
      b     == h.matrix[class]
  IN  IF class = 0 THEN [heap |-> h, block |-> 0]
      ELSE [heap |-> Take(h, b, class, size), block |-> b]

Alloc(h, units) ==
  LET size == MappingSearch(units)
  IN  TakeSuitable(IF FindSuitableBlock(h, size) = 0 THEN Grow(h, size) ELSE h, size)

\* tlsf_realloc to fewer units: what is left becomes a free block.
Shrink(h, b, size) ==
  LET b1 == b + 1 + size
  IN  Release(MergeNext(Split(h, b, size), b1), b1)

\* tlsf_realloc into the free block behind.
Extend(h, b, size) ==
  LET next == Behind(h, b)
      h1   == Merge(RemoveHeader(h, next, MappingInsert(Size(h, next))), b, next)
  IN  IF Size(h1, b) > size + 1 THEN Release(Split(h1, b, size), b + 1 + size)
      ELSE SetPrevFree(SetPrev(h1, Behind(h1, b), b), Behind(h1, b), FALSE)

\* The heap and the block; without memory the old block is returned.
Realloc(h, b, size) ==
  LET next  == Behind(h, b)
      moved == Alloc(h, size)
  IN  CASE size = Size(h, b) -> [heap |-> h, block |-> b]
        [] size < Size(h, b) -> [heap |-> Shrink(h, b, size), block |-> b]
        [] size > Size(h, b) /\ IsFree(h, next)
             /\ size <= Size(h, b) + Size(h, next) + 1 ->
             [heap |-> Extend(h, b, size), block |-> b]
        [] OTHER -> IF moved.block = 0 THEN [heap |-> moved.heap, block |-> b]
                    ELSE [heap |-> FreeVec(moved.heap, b), block |-> moved.block]

\* From first as next leads, up to limit steps, until it leads to 0.
Follow(first, next, limit) ==
  LET seen[k \in 0 .. limit] ==
        IF k = 0 THEN <<>>
        ELSE LET s  == seen[k - 1]
                 to == IF s = <<>> THEN first ELSE next[s[Len(s)]]
             IN  IF to = 0 THEN s ELSE Append(s, to)
  IN  seen[limit]

\* The free blocks of a list.
Listed(h, class) == Follow(h.matrix[class], [b \in 1 .. MemTop - 1 |-> FNext(h, b)], MemTop)

\* Where the block for aligned memory in block b begins.
Aligned(b, align) == ((b + 1 + align - 1) \div align) * align - 1

\* tlsf_malloc_aligned, when tlsf_malloc has got size + align units.  SET_SIZE
\* keeps the flags it finds at the new header: junk, or 0 where the memory has
\* been cleared (MEMF_CLEAR).
AllocAligned(got, size, align, junk) ==
  LET b    == got.block
      ab   == Aligned(b, align)
      left == Behind(got.heap, b) - (ab + 1 + size)            \* diff_end
      h1   == IF ab = b THEN SetSize(got.heap, b, size)
              ELSE Header(got.heap, ab, b, size, PREV_FREE + junk)
      h2   == SetFree(SetSize(h1, b, ab - b - 1), b, TRUE)
      low  == MergePrev(h2, b)
      h3   == IF ab = b THEN h1 ELSE InsertFreeBlock(low.heap, low.block)
      b1   == ab + 1 + size
      h4   == TellNext(Header(h3, b1, ab, left - 1, THIS_FREE), b1)
      h5   == InsertFreeBlock(MergeNext(h4, b1), b1)
  IN  IF b = 0 \/ align = 1 THEN got
      ELSE [heap |-> IF left > 0 THEN h5 ELSE h3, block |-> ab]

\* tlsf_allocabs: the free block, of a list that is searched, around a region.
Around(h, start, region) ==
  {b \in UNION {S!ToSet(Listed(h, c)) : c \in {d \in Classes : d >= region}} :
     b < start /\ Behind(h, b) >= start + region}

AllocAbs(h, b0, start, region) ==
  LET b1   == Behind(h, b0)
      breg == start - 1
      h1   == SetFree(RemoveHeader(h, b0, MappingInsert(Size(h, b0))), b0, FALSE)
      h2   == SetPrevFree(SetPrev(Header(h1, breg, b0, b1 - start, PREV_FREE),
                                  b1, breg), b1, FALSE)
      h3   == IF b0 = breg THEN h1
              ELSE InsertFreeBlock(SetSize(SetFree(h2, b0, TRUE), b0, breg - b0 - 1), b0)
  IN  Release(Split(h3, breg, region), start + region)

\* tlsf_in_bounds, and tlsf_avail of the largest block.
InBounds(h, begin, end) ==
  \E i \in DOMAIN h.areas : end <= h.areas[i].end /\ begin >= h.areas[i].at + 3

Largest(h) ==
  LET used == {c \in Classes : h.matrix[c] # 0}
      top  == Listed(h, S!Max(used))
  IN  IF used = {} THEN 0 ELSE S!Max({Size(h, top[i]) : i \in DOMAIN top})

-----------------------------------------------------------------------------
(* The callers *)

EmptyHeap == [mem    |-> [a \in 1 .. MemTop |-> Zeros],
              matrix |-> [c \in Classes |-> 0],
              areas  |-> <<>>,
              brk    |-> Page]        \* where the kernel maps next

Init == heap = EmptyHeap /\ given = <<>>

Ends(h) == {h.areas[i].end : i \in DOMAIN h.areas}

\* A callers' block, known by its header, is asked for n units.
Hand(b, n) == given' = [c \in DOMAIN given \cup {b} |-> IF c = b THEN n ELSE given[c]]

Room == Cardinality(DOMAIN given) < MaxBlocks

AllocMem(n) ==
  LET got == Alloc(heap, n)
  IN  /\ Room
      /\ heap' = got.heap
      /\ IF got.block = 0 THEN UNCHANGED given ELSE Hand(got.block, n)

FreeMem(b) ==
  /\ heap' = FreeVec(heap, b)
  /\ given' = [c \in DOMAIN given \ {b} |-> given[c]]

\* Careful callers do not leave a block of size 0 with a busy block behind it,
\* and do not enlarge what the heap cannot hold: they cannot tell, so this is
\* an assumption about their requests.
ReallocMem(b, n) ==
  LET got  == Realloc(heap, b, n)
      full == n > Size(got.heap, got.block)
  IN  /\ \/ KnownFaults
         \/ ~ full /\ (n = Size(heap, b) - 1 => IsFree(heap, Behind(heap, b)))
      /\ heap' = got.heap
      /\ given' = [c \in (DOMAIN given \ {b}) \cup {got.block} |->
                     IF c = got.block THEN n ELSE given[c]]

\* Careful callers ask for cleared memory whose alignment leaves no block of
\* size 0, and none that merges with a free block other than an area's last:
\* the block behind that keeps its old prev.
AllocMemAligned(n, align, junk) ==
  LET got  == Alloc(heap, n + align)
      b    == got.block
      ab   == Aligned(b, align)
      next == Behind(got.heap, b)
      left == next - (ab + 1 + n)
      done == AllocAligned(got, n, align, junk)
  IN  /\ Room
      /\ ~ KnownFaults /\ b # 0 /\ align # 1 =>
           /\ junk = 0 /\ ab - b # 1
           /\ IF IsFree(got.heap, next) THEN Behind(got.heap, next) \in Ends(got.heap)
                                        ELSE left # 1
      /\ heap' = done.heap
      /\ IF done.block = 0 THEN UNCHANGED given ELSE Hand(done.block, n)

\* Careful callers ask for whole units that leave more than a header free on
\* each side, or none in front.
AllocMemAbs(n, place) ==
  LET region == MappingSearch(n)
      around == Around(heap, place, region)
      b0     == CHOOSE b \in around : TRUE
  IN  /\ Room
      /\ IF around = {} THEN UNCHANGED vars
         ELSE /\ Behind(heap, b0) - place - region >= 2 /\ place - b0 # 2
              /\ heap' = AllocAbs(heap, b0, place, region)
              /\ Hand(place - 1, n)

\* DeletePool: tlsf_destroy releases all areas, whatever is still in use.
Destroy == heap' = EmptyHeap /\ given' = <<>>

Next ==
  \/ \E n \in Sizes :
       \/ AllocMem(n)
       \/ \E b \in DOMAIN given : ReallocMem(b, n)
       \/ \E align \in Aligns, junk \in {0, THIS_FREE} : AllocMemAligned(n, align, junk)
       \/ \E place \in Places : AllocMemAbs(n, place)
  \/ \E b \in DOMAIN given : FreeMem(b)
  \/ Destroy

Spec == Init /\ [][Next]_vars

-----------------------------------------------------------------------------
(* Properties *)

\* The blocks of an area, from header to header.
BlocksOf(h, area) ==
  Follow(area.at,
         [b \in 1 .. MemTop |-> IF b >= area.end THEN 0 ELSE Behind(h, b)],
         area.end)

Blocks(h) ==
  UNION {S!ToSet(S!Front(BlocksOf(h, h.areas[i]))) : i \in DOMAIN h.areas}

FreeBlocks(h) == {b \in Blocks(h) : IsFree(h, b)}

\* "The header which allows us to go through all memory blocks in the system"
\* (tlsf.c:85-87): from header to header one comes to the end of the area,
\* each header tells whether the block before is free, and then where it is
\* (nobody asks the last one where), and no two free blocks are neighbours.
Tiled ==
  \A i \in DOMAIN heap.areas :
    LET walk == BlocksOf(heap, heap.areas[i])
    IN  /\ S!Last(walk) = heap.areas[i].end
        /\ \A j \in 2 .. Len(walk) :
             LET b == walk[j - 1]
                 c == walk[j]
             IN  /\ PrevFree(heap, c) <=> IsFree(heap, b)
                 /\ IsFree(heap, b) => ~ IsFree(heap, c)
                 /\ IsFree(heap, b) /\ c # heap.areas[i].end => heap.mem[c].prev = b

\* The callers' memory is what lies in the busy blocks, is as large as they
\* asked for and is theirs alone.
CallersOwnBlocks ==
  /\ DOMAIN given = Blocks(heap) \ (FreeBlocks(heap)
                       \cup {heap.areas[i].at : i \in DOMAIN heap.areas})
  /\ \A b \in DOMAIN given :
       /\ Size(heap, b) >= given[b]
       /\ InBounds(heap, b + 1, Behind(heap, b))

\* Every free block is in the list of its size, once, nothing else is in a
\* list, and the links are right both ways; so the largest block is found too.
FreeListsExact ==
  /\ \A c \in Classes :
       LET list == Listed(heap, c)
       IN  /\ S!ToSet(list) = {b \in FreeBlocks(heap) : MappingInsert(Size(heap, b)) = c}
           /\ Len(list) = Cardinality(S!ToSet(list))
           /\ \A j \in DOMAIN list :
                FPrev(heap, list[j]) = IF j = 1 THEN 0 ELSE list[j - 1]
  /\ Largest(heap) = S!Max({Size(heap, b) : b \in FreeBlocks(heap)} \cup {0})

\* The allocator asks the kernel for more, or fails, only when none of its
\* free blocks holds the request as it is rounded.
FindsMemory ==
  [][\A n \in Sizes :
       AllocMem(n) /\ (given' = given \/ heap'.brk # heap.brk) =>
         \A b \in FreeBlocks(heap) : Size(heap, b) < MappingSearch(n)]_vars

\* Whatever is called for one block, nothing is written into the memory of
\* another that a caller has before and after, and a block that stays where it
\* is when ReallocMem resizes it keeps what both sizes hold.
MemoryStays ==
  [][\A b \in DOMAIN given \cap DOMAIN given' :
       \A a \in 1 .. MemTop :
         a > b /\ a <= b + given[b] /\ a <= b + given'[b] =>
           heap'.mem[a] = heap.mem[a]]_vars
=============================================================================
