# Verification of ARIX in TLA+

ARIX is an Amiga-like operating environment on a Linux kernel: `exec.library`
(memory, threads, mutexes, lists, message ports, device I/O), `dos.library`,
`utility.library`, devices, and the ARIX process, which keeps the list of
public message ports for all other processes.  These modules model its
concurrent and distributed core, `.cfg` files check them with TLC, and the
`*Proofs` modules hold proofs checked by TLAPS.  All paths below are relative
to `src/`.

## 1. The system and what makes it correct

| component | state | operations | hard behaviour | correct when |
|---|---|---|---|---|
| Mutex, `libs/exec/*mutex.c` | one futex word `m_Lock` | Create/Init/Obtain/Attempt/Release/Delete | every compare-and-swap and system call interleaves; the wrapper `sc6` turns `-EAGAIN` into `-1` | one holder; no lost wakeup; TRUE only to the holder |
| Threads, `libs/exec/createthread.cpp` | `thread_sync_lock`, stacks, `temp_smp` | CreateThread, `__thread_bootstrap` | the lock is taken by one thread and released by another; a thread frees its own stack | no lock left behind, no stack freed in use, threads end |
| Public ports, `system/arix`, `libs/exec/{addport,remport,findport,testport}.c`, `libs/dos/dos_init.cpp` | `PublicPortList`; sockets | AddPort, RemPort, FindPort, temporary path; `messageLoop` | processes that crash, a bounded socket, a server that ends, an over-long copy | calls linearizable, names unique, every call returns |
| Message ports, `libs/exec/*msg*.c*`, `waitport.c` | socket, receive buffer, `mp_MsgList`, `mp_Lock`, pool | Create/Delete, Put/Get/Reply/Wait/Discard | several threads on one port, full sockets, no memory for the next buffer | each message to one reader, in order, unchanged until the reply; every request answered |
| Device I/O, `libs/exec/{doio,sendio,waitio,checkio,abortio}.c` | requests, the reply port's list | DoIO, WaitIO (SendIO, CheckIO, AbortIO are stubs) | replies out of order | WaitIO returns after its own reply, with its contents |
| Lists, `include/sys_include/exec/lists.h`, `libs/exec/{insert,enqueue,rem*,add*,findname}.c` | two link fields per node, an overlaid header | insert, remove, enqueue by priority, loops | broken links after a sequence of legal calls; nodes removed under a loop | they implement sequences; a safe loop misses nothing |
| TLSF heap, `libs/exec/tlsf.c` | block headers with flags, free lists in the blocks, areas | malloc, aligned, free, realloc, allocabs, grow, destroy | splits and merges at header size, rounding to classes | blocks tile the area, no two free neighbours, lists exact, memory untouched |
| Heap calls and pools, `libs/exec/{alloc,free,realloc}*.c`, `*pool*.c` | `local_memory_lock`, one mutex per pool | AllocVec, AllocPooled, ... | which call takes which lock | every heap changed by one thread at a time |
| AVL trees, `libs/exec/avl.c` | balances, links | insert, remove, find, iterate | rotations after removal | sorted and balanced; searches exact |
| Tag lists, `libs/utility` | none but the lists | walks, filters, clones, packing to structures | control tags, fields that share a byte, encodings of the end | agree with reference definitions |
| timer.device, `devs/timer` | none | AddTime, SubTime, CmpTime, NanoTime | carries, a retry after any error | never early, never an invalid time |
| Spawn and start, `libs/exec/{spawn,exec_init}.cpp` | `__ports`, IDs | Spawn, ExecInit, ExecDestroy | ports are renamed while others hold their ID | not modelled, section 8 |
| Identifiers, `libs/exec/getid.cpp` | `seq[256]` | GetID | non-atomic increment, wrap | not modelled, section 8 |
| DOS paths, kernel.library, OpenLibrary, debug, uuid, init, tests, sfdc | little or none | text, wrappers, formatting, programs | | not modelled, section 8 |

Components interact as follows.  Every allocation and every port operation
goes through a mutex.  The public-port calls are built from message ports: a
client makes a reply port, sends one datagram to the well-known ARIX port with
`PutMsg`, sleeps in `WaitPort` and takes the answer with `GetMsg`.
`messageLoop` in the ARIX process receives, changes its `PublicPortList`, and
answers with `ReplyMsg`.  A received message is the buffer it was received
into, a block of the port's pool, and a pool is a heap that grows from the
process's heap.  Processes share nothing else.

## 2. Modules

| module | models | how |
|---|---|---|
| `MutexContract` | the autodocs of the mutex calls | who asks, who holds; no futex |
| `ExecMutex` | `*mutex.c`, `sc6`, the futex | `lock` is `m_Lock`; `pc[t]` is the place of thread `t` between two instructions that matter |
| `ExecMutexProofs` | | proofs about `ExecMutex` |
| `ThreadLife` | `createthread.cpp` | composes `ExecMutex` (as `Sync`, sharing `lock` and `pc`) with the life of each thread, its stack and the common exit stack; `build` selects the `#ifdef` branch |
| `ThreadLifeProofs` | | proofs about `ThreadLife` |
| `PortRegistry` | the autodocs of AddPort, RemPort, FindPort | an atomic list; each call takes effect at one moment |
| `ArixServer` | `arix_start.cpp`, `publicport.cpp`, the client calls | `queue` is the ARIX socket, `serving` the message in `messageLoop`, `replied` the reply sockets, `portList` the map, `pc`/`call`/`answer` each client's call |
| `ArixServerProofs` | | proofs about `ArixServer` |
| `Mailbox` | what a port promises senders and readers | a queue, the message each thread works on, the replies |
| `MsgPort` | `putmsg.c`, `waitport.c`, `getmsg.c`, `replymsg.c`, `discardmsg.c`, the pool calls they make | `socket` and `replies` are sockets, `recvBuf` is `mp_ReceiveBuffer`, `used` and `content` the pool's blocks, `lock` is `mp_Lock` |
| `MsgPortProofs` | | proofs about `MsgPort` |
| `DeviceIO` | `doio.c`, `waitio.c` | one request per thread, the device, the reply port's socket and `mp_MsgList` |
| `NodeLists` | the autodocs of the list calls | sequences of nodes |
| `ExecList` | `lists.h`, `insert.c`, `enqueue.c`, `rem*.c`, `add*.c`, `findname.c` | `succ` and `pred` of every cell, a list's header and tail being cells too; `scan` is Enqueue's loop, `walk` the caller's |
| `AvlTree` | `avl.c` | the links, parents and balances of the nodes as one record |
| `AvlProofs` | | proofs about `AvlTree` |
| `Loops` | | `Loop`: a loop of the code as a recursive function of its variables |
| `TagLists` | `libs/utility/*tag*.c` | the memory of tag items by address |
| `StructPack` | `packstructuretags.c`, `unpackstructuretags.c`, `pack.h` | a structure byte by byte, a table, the tags packed and unpacked |
| `Timer` | `devs/timer` | the clock, a thread in NanoTime |
| `DataProofs` | | proofs about `ExecList`, `StructPack`, `Timer` and `TagLists` |
| `Tlsf` | `tlsf.c` and the calls on the local heap | memory as units of one block header, see below |
| `TlsfProofs` | | proofs about `Tlsf` |
| `SetInduction` | | induction over sets of numbers, and that loops with a measure end, for the proofs about walks |
| `MCExecMutex`, `MCThreadLife`, `MCArixServer`, `MCExecData` | | instances for TLC; `MCExecData` puts the data structures, which share nothing, side by side |

### ExecMutex

`ObtainMutex` is `CallObtain`, then `TryLock` (the compare-and-swap) and
`FutexWait` in turn; `internalReleaseMutex` is `Unlock` and `FutexWake`;
`AttemptMutex` is one action.  `FutexWait` uses the fact that the kernel
compares the word and enqueues the thread atomically; if the word is free it
answers `-EAGAIN`, and `Syscall` and `WaitFailed` compute what the code makes
of that.  `ResultChecked` distinguishes the two kinds of callers in the code:
`AllocPooled`, `FreePooled`, `ReallocPooled` and `DeletePool` enter only after
TRUE, all others ignore the answer.  A caller that is told FALSE and ignores it
is in its critical section without the word, and later executes a release it
is not entitled to; `Unlock` swaps the word regardless of who set it.
`FUTEX_WAIT` can return 0 without a wake, hence `SpuriousWake`.  No signal
handler is installed anywhere in the repository, so `EINTR` is not modelled.
The checks of a NULL pointer and of `ln_Type` are left out: the mutexes here
are initialised ones.

### ThreadLife

`CreateThread` up to `ObtainMutex`, `Clone` (after which the child and no
longer the creator is inside the lock), `CloneFails` (the result of `SC_clone`
is dropped), `ReadTags` (ends in `ReleaseMutex`), `FunctionReturns` (ends in
`ObtainMutex`), then `SwitchStack`, `FreeStack`, `LastRelease`, `Exit`.
`MutexStep` is a step inside the mutex functions, taken from `ExecMutex`.
The creation of memory for a stack is one step because the heap is not part of
this module; stacks of different threads are different memory.

A thread of this module ignores a FALSE of `ObtainMutex`, as the code does
(finding 1).  `ObtainedSpec` is the same without refusals: there nobody is at
any place without having been given the lock.  `thread_exit_stack` uses it, so
that what it shows is not a consequence of finding 1.

### ArixServer

A client has one call under way (the calls block), so a request is known by
its client.  `Begin` fills in the message, `PutMsg` sends it (blocking while
the socket is full, losing it when nobody is bound to the ARIX port),
`GetReply` is `WaitPort`, `GetMsg`, `DiscardMsg` and the deletion of the reply
port, none of which another thread can see.  `Serve` is `GetMsg` and the
`switch` of `messageLoop`, `ReplyMsg` the answer.  `Crash` is any end of a
process: neither a killed process nor `ExecDestroy` does a `RemPort`.
`StopServer` is the end of the ARIX process.  The name that travels in
AddPort's message is `SocketName(socket)`: the 16 bytes copied from `mp_ID` run
over into the name copied before it, and what lies behind `mp_ID` in
`struct MsgPort` is the descriptor `mp_Socket`.  `publicName` is the name the
caller passed.  Owners delete a published port only after `RemPort`, as
AddPort's autodoc asks of them.

### MsgPort

Threads `Readers` of one process serve a port, processes `Senders` put
messages there and read the replies at ports of their own.  `WaitPort` polls
with `mp_Lock` held, `Receive` is `SC_recvmsg` into `mp_ReceiveBuffer`, which
becomes the message, `NewBuffer` the allocation of the next buffer, `ReplyMsg`
and `DiscardMsg` the answer and the release of the block.  When the pool has no
memory `mp_ReceiveBuffer` becomes NULL: the kernel then drops datagrams with
`EFAULT`, and as only `InternalGetMsg` replaces the buffer the port is deaf for
good; `Mailbox` has that as `deaf`.

Two things make the program's behaviour undefined, and the model stops there
with `raced` set instead of choosing an outcome: two threads inside the pool at
once, since `FreeVecPooled` takes no lock, and a thread that goes on after
`ObtainMutex` has refused it `mp_Lock`.  So all that is shown is about ports on
which this has not happened yet.  `AllocVecPooled` and `ReallocPooled` run
under `mp_Lock`, so the pool's own mutex is never contended and has no variable
here.  A sender has at most `Window` requests unanswered, no more than a socket
holds: that is an assumption about senders which nothing in the code enforces.
`mp_MsgList` is only filled by WaitIO and stays empty here.  `mn_Control`
(descriptors that travel with a message) is left out.

### DeviceIO

`BeginIO` and `Finish` are the device's, `WaitIO`, `SearchList`, `FetchReply`
and `Return` the parts of WaitIO, with the value that `ForeachNodeSafe` leaves
in `msg`: never NULL.  WaitIO then treats the memory at `lh_Tail` as a message;
the process may survive that or not.

### ExecList

`HeadOf` and `TailOf` are the two overlaid cells of `struct List`.  A call links
or unlinks in one action, as it does in a single thread; Enqueue's loop takes
one step per node, and the caller's `ForeachNodeSafe` loop does too, so that
its body can make any call between two steps.  `due` is a history variable: the
nodes that were there when the loop began and are still due to be visited.
`CallsAsDocumented` says of each call that changed a node's list that it had
the effect of the same call in `NodeLists`.

### AvlTree, TagLists, StructPack, Timer

Pure algorithms on data, with the calls as actions so that long sequences of
them are checked, and reference definitions among the properties.  `AvlTree`
has every rotation and both ways of removal; keys stand for nodes.  A loop of
`avl.c` is `Loop` of one turn: `GrownOnce` and `ShrunkOnce` are the turns of the
two climbs, whose variables are the tree, `scan` and `dir` (`At`); a turn that
would end the loop sets `scan` to NULL.  A loop that does not end has no value
that TLC could compute, so a run would fail on it.  `TagLists`
keeps items at addresses because TAG_SKIP and TAG_MORE are about addresses;
`TagTurn` is one turn of the loop in NextTagItem, `ForEachItem` the loop over a
list that several calls share, with its body as a function of the memory and
the item.  `FilterTagChangesAsDocumented` says for both values of `apply` which
changes are left, and what the list answers for every tag afterwards.
`StructPack` computes with bytes of `ByteBits` bits, so that the ends of every
field's range can be tried with small numbers; powers and the loops over a table
are recursive functions, so that they can be proved about.  `Timer` runs NanoTime beside a
clock that ticks at any moment; an interrupted sleep is repeated with the same
absolute time, which changes nothing and has no action.

### Tlsf

Memory is counted in units of 32 bytes, the size of a block header, which is
also the alignment.  A unit has the first two words of what lies there: a
header's `prev` and `length`, or, one unit behind the header of a free block,
its `free_node`.  One field is read through both names, as in the code, so a
block of size 0 (whose `free_node` lies in the next header) damages the heap in
the model as it does in memory.  The two bitmaps are no variables: a bit is set
when its list is not empty (`Classes`).  `Grain`, the distance of two classes, is
a recursive function; `Listed` and `BlocksOf` are the walks along a list and
through an area, and `Follow` is what both do.

The allocator has faults that any of its callers can meet.  With `KnownFaults`
the model has them; without it, callers are careful not to make these calls,
and the properties show that the heap then stays whole:

* lines 613, 639 and 759: a block of size 0 is made when exactly one header is
  left over (finding 6);
* line 647: the block behind a merged free block keeps its old `prev`;
* line 603: `SET_SIZE` keeps flag bits that a former owner left at the new
  header;
* line 822: without memory ReallocMem returns the old block, too small;
* line 943: AllocAbs always splits, and the size wraps below zero when nothing
  is left over; in the model nobody asks for that, in neither mode;
* line 1093: the error of `SC_mmap` is taken for an address, so a process
  without memory ends where the model goes on as after NULL from a pool.

The search of AllocAbs also runs past the last row of the matrix (line 865), but
what follows are zeros of the same page, so it finds nothing there, as in the
model.  `total_size` and `free_size` are left out: `tlsf_avail` alone reads them, and
nothing calls it.  `Largest` is its search of the free lists.

## 3. What the runs show

| run | cfg | result |
|---|---|---|
| `mutex_pool` | `MCMutexPool` | callers that check the answer: `MutualExclusion`, `WordTellsHolder`, `NoLostWakeup`, `FreeLockIsTaken` and `ImplementsContract` hold with four threads |
| `mutex_unchecked` | `MCMutexUnchecked` | violated: callers that ignore the answer share the mutex (finding 1) |
| `thread_life` | `MCThreadLife` | both builds; `StackOutlivesUse`, `LockOnlyWhileInUseAarch64`, `EndedThreadsDisappear`, `CreateReturns` |
| `thread_lock_lost` | `MCThreadLockLost` | violated outside aarch64: the lock stays taken (finding 2) |
| `thread_exit_stack` | `MCThreadExitStack` | violated on aarch64, without any refusal: two threads on one exit stack (finding 3) |
| `arix_registry` | `MCArixServer` | `NamesUnique`, `AdvertisedIsListed`, `ListedIsOpen`, `ImplementsRegistry` (linearizability), `CallsReturn` |
| `arix_lookup` | `MCArixLookup` | violated: a published port is not found by name (finding 4) |
| `msg_port` | `MCMsgPort` | `BuffersApart` (no message is received into another), `RepliesFit` (ReplyMsg has room), `ImplementsMailbox`, `RequestsAnswered` |
| `waitio` | `MCWaitIO` | violated: WaitIO returns before the device has finished (finding 5) |
| `exec_data` | `MCExecData` | lists: `Linked`, `LookupsAgree`, `SafeLoopIsComplete`, `CallsAsDocumented`; trees: `Balanced`, `SearchesAgree`, `IsASet`; tags: `WalksAgree`, `FilterTagChangesAsDocumented`, `RefreshRestores`; `PackedComesBack`; `SleepsLongEnough` |
| `tlsf` | `MCTlsf` | careful callers: `Tiled`, `CallersOwnBlocks`, `FreeListsExact`, `FindsMemory`, `MemoryStays` |
| `tlsf_shrink` | `MCTlsfShrink` | violated: shrinking a block by one header (finding 6) |

Two things are worth noting about `thread_life`.  The properties about the
lock and about progress are claimed for aarch64, since `thread_lock_lost`
shows that the other branch cannot have them; and they except runs in which a
clone failed, because then the lock stays taken and nothing in the code
recovers.

`RequestsAnswered` excepts ports that are out of memory or `raced`, as
explained above; everything else, in particular the full sockets on both sides
and the lock that WaitPort keeps, is in the model.

### Findings

1. Callers such as `libs/exec/allocvec.c:24` ignore a FALSE of `ObtainMutex` and
   work on the heap beside the holder, then release the holder's lock.  The
   FALSE comes from a race: `obtainmutex.c:72` tests `err != -EAGAIN`, but `sc6`
   has already replaced the error number by -1, so a release between the
   compare-and-swap and `FUTEX_WAIT` ends the call, where its comment promises
   another attempt.
2. `libs/exec/createthread.cpp:174` ends the thread inside `thread_sync_lock`
   in every build but aarch64.
3. On aarch64, `createthread.cpp:148` still executes C code on `temp_smp` after
   the lock that protects it is free: after the swap of `internalReleaseMutex`
   the next thread is given the lock and switches to the same memory, while the
   first stands before its system call.
4. `libs/exec/addport.c:100` copies `sizeof(uuid_t)` bytes of an 8-byte ID and
   destroys the start of the name.
5. After the search of a list without the reply, `libs/exec/waitio.c:60` finds
   `msg` at the list's tail and not NULL, and does not wait.
6. `libs/exec/tlsf.c:759` makes a free block of size 0 when a block shrinks by
   exactly one header; its links overwrite the header of the next block.

Smaller disagreements met on the way, for which there is no run: `FindName`
documents that a NULL list means the list of ports and returns NULL
(`findname.c:26-35`); `GetTagData` documents that a NULL tag list gives NULL
and returns the default (`gettagdata.c:32-36, 55-60`); the examples of safe deletion in
`avl.c` call AVL_FindNextNodeByAddress and AVL_FindPrevNodeByAddress with the
NULL they end on, which both dereference; a pack entry for the base tag, an
unsigned byte at offset 0, is encoded as the end of the table; timer.device
lists `NanoSleep` in `timer.json` and defines `NanoTime`.

Every property of a passing run is also shown to be sensitive to the code: for
each one a definition of the module is replaced by a faulty one (the operators
marked "Seeded fault", for instance a release without a wake, an addPort
without the loop over the names) and TLC finds the property violated.

## 4. Bounds

* Mutex: four threads with liveness and refinement, so that there can be a
  holder, a releaser between swap and wake, a newcomer and a sleeper at once;
  these are all the roles the code distinguishes.  Three threads suffice for
  the counterexample.
* Threads: the first thread and two others, so that one can end while another
  is created or ends.  Dead threads are not born again; a new thread would have
  a new stack and behave as a third one.
* Registry: two processes, one port each, one name and two descriptors, hence
  three names that can travel; a socket of the ARIX port that holds one
  datagram, so that it is full as soon as one request waits.  Both ports can
  have the same descriptor, hence the same wire name, so that addPort must
  refuse.  Owners of several ports are not in the instance; the theorems
  cover them.
* Message port: two readers, so that one can wait in WaitPort while the other
  holds a message; two senders with two requests each and windows as large as
  a socket, so that both sockets get full; two blocks, so that the pool is
  empty as soon as one message is held.
* Lists: three nodes in two lists: a node then has a neighbour on each side,
  two have the same priority, and nodes move between lists.
* Trees: all trees of keys from 1 to 12.  Twelve is the least number of nodes
  from which a removal can take two rotations, one above the other.
* Tags: a list in one array or two, with items to skip and to ignore, a list of
  two changes, which may be about the same tag, and room for a clone.  As
  `TagAssumption` says: every list ends (ApplyTagChanges has no check for NULL),
  two lists do not share items, and no change has TAG_MORE or TAG_SKIP as data,
  which MapTags would turn into a walk to anywhere.  Pack tables with every kind of field, two flags in one
  byte, and values at both ends of each range, with bytes of two bits.
* Timer: seconds of four nanoseconds, sleeps of less and more than one, from
  every fraction of a second.
* Heap: 35 units of memory in pages of 4 and areas of 16, hence two areas with
  room for several blocks each; sizes of one, three and nine units (lists of
  one size and lists of a range: `MaxSli` is 4 where the code has 32); up to
  three blocks at a time, so that a block can be between two others or between
  two free ones; alignment to 4 and regions at two places.

No state constraint is used; the reachable states of each instance are finite.

## 5. Fairness

* `ExecMutex`: weak fairness of every step inside a mutex function and of the
  end of a critical section.  The kernel runs every runnable thread; a sleeper
  is owed nothing until woken, so `SpuriousWake` has no fairness.
* `ThreadLife`: weak fairness of each thread's own next step.  Nothing makes a
  thread's function return or anyone create threads.
* `ArixServer`: `messageLoop` is an endless loop of `WaitPort` and `GetMsg`
  (weak fairness of `Serve` and `ReplyMsg`); a client reads the reply it polls
  for.  `PutMsg` has strong fairness: writers that sleep for room in a Unix
  socket are woken in turn by the kernel.  `Crash` and `StopServer` have none.
* `MsgPort`: weak fairness of each reader as a whole and of each sender's
  `TakeReply`.  The readers are loops around WaitPort or GetMsg, so a reader
  that can go on does; which of them gets the lock, and whether anyone sends,
  is left open.

The other modules state safety only.

## 6. What is proved

`ExecMutexProofs`, for any set of threads:

* `TypeCorrect` and `WakeupsNotLost` for both kinds of callers.  The latter is
  inductive together with `TypeOK`: a thread leaves the sleepers only towards
  the compare-and-swap, and a word becomes free only in the step that puts its
  releaser before `FUTEX_WAKE`.
* `MutexExcludes` and `WordIsTruthful`, assuming `ResultChecked = TRUE`.
  Mutual exclusion alone is not inductive, for a thread could enter if the word
  were free while another is inside; `LockInv` adds that the word is locked
  exactly when somebody holds.
* `MutexImplementsContract` under the same assumption: each step is a step of
  `MutexContract` or leaves `asking` and `holder` alone.

`ThreadLifeProofs`, for any set of threads (assumption `ThreadsAssumption`):

* `TypeCorrect`, in both builds, with `Placed`: only a live thread is inside a
  mutex function.
* `LockHasLiveHolder`: while no clone has failed, a taken `thread_sync_lock` has
  a live thread inside.  `MutexStepEffect` says what a step of the mutex does
  to those inside; `Clone` puts the child there in the step that takes the
  creator out.  It holds with callers that ignore FALSE: they can only add
  threads inside.
* `StacksOutliveTheirUse` needs `Expected`: two creators never have the same
  child, and a child to be has a stack of its own.

`ArixServerProofs`, for any processes, ports, names, owners and queue limits
(assumption `ArixAssumption`):

* `TypeCorrect`, including the bound of the socket.
* `NamesAreUnique`: only `PublicPortsAdd` and `PublicPortsRem` change the list
  (`ListChanges`), and the former looks at every name first.
* `AdvertisedStayListed` and `ListedPortsAreOpen`.  Neither is inductive.  They
  rest on four invariants, each proved with the help of those before it:
  `OneMessage` (a call's message is in one place at a time, and a reply only
  where somebody waits), `OwnCalls` (a call about a port comes from its owner,
  which keeps it open meanwhile), `AnswersHold` (what was answered is still so
  when it is read: only the owner's own next call could change it) and
  `ListedIsKnown` (a living owner knows of every listed port of its, or the
  answer is on its way).  `ServeChanges` says what one turn of `messageLoop`
  does to the list.
* `ServerImplementsRegistry`: each step is a step of `PortRegistry` or invisible
  to it.  `Serve` is the moment at which a call takes effect, `Crash`,
  `StopServer`, a `PutMsg` to nobody and a `ReplyMsg` to nobody are losses.  It
  needs `OneMessage`, so that the progress of a call (`status`) is well
  determined.

`MsgPortProofs`, for any readers (finitely many), senders, blocks and sizes of
the sockets (assumption `PortAssumption`):

* `TypeCorrect` and `BuffersStayApart` from `PortInv`: besides `TypeOK` it says
  that only the holder of `mp_Lock` polls, receives or replaces the buffer
  (`Locked`), that a thread which serves a message has one (`Loaded`), and that
  the blocks in use are the receive buffer and the messages, all different
  (`Apart`).
* `RepliesAlwaysFit` by counting: `CountInv` counts every unanswered request of
  a sender once, in the socket, with a thread, or among the replies.
* `PortImplementsMailbox`: `Receive` is `Take`, `NewBuffer` without memory is
  `Deafen`, and what a thread finds in its block does not change because of
  `Apart`.

`TlsfProofs`, for memory, areas, pages, requests and alignments of any size and
any number of lists per power of two (assumption `TlsfAssumption`), and for
careful callers: every theorem has the hypothesis `~ KnownFaults`, without which
`Tiled` is false, as `tlsf_shrink` shows.  `MCTlsf` is an instance that satisfies
it.

* `TlsfHeapInv` is the inductive invariant `HeapInv`: there is a ghost `g`, the set of
  all headers, their sizes and the set of the free blocks, of which memory is
  a true picture.  None of the checked properties is inductive: that a flag is
  right helps only together with where the next header is, and that only
  together with what was never written over.  `Layout` is about `g` alone
  (headers lie one behind the other in the areas, no free block next to
  another, none empty), `Tags` says that sizes, flags and `prev` in memory agree
  with `g`, `Chains` that each free block is in the list of its class at a place
  of its own, `Handed` that the callers have the rest.
* Inside a call the picture is wrong in places: a block that is out of its list
  and still marked free, a header whose flag has not been told yet.  `Sound`
  has three sets of exceptions for these, and each helper of the code
  (REMOVE_HEADER, MERGE, SET_FREE_PREV_BLOCK, ...) has a lemma that says which exceptions it
  adds or removes, what becomes of `g`, and which blocks it leaves alone
  (`Keeps`).  The lemmas about the calls (`FreeVecSound`, `AllocSound`, `ReallocSound`,
  `AllocAlignedSound`, `AllocAbsSound`) put these together and end without
  exceptions; `NextServes` is the inductive step.
* `TlsfTiled`, `TlsfCallersOwnBlocks` and `TlsfFreeListsExact` follow from `HeapInv`: a walk
  through an area finds the headers of `g` in order (`GoesExists`), a walk along a
  list its free blocks in order of their places (`ListExists`).
* `TlsfFindsMemory` rests on the arithmetic of the classes (`RequestClass`): a request is
  rounded up to the least size of a class, so every block of that class or
  a higher one holds it.  `ClassMonotone`, and with it `RequestClass`, is proved
  by induction over the size.
* `TlsfMemoryStays` is the part of `NextServes` about `Keeps`.

`DataProofs` has four parts.

* For a second of any length and any arguments with no negative part (assumption
  `TimerAssumption`): `SleepIsLongEnough`, from exact lemmas about `Normal`, `AddTime`,
  `SubTime` and `CmpTime`.
* For bytes of any number of bits, structures of any size, any table whose fields
  lie in the structure and any data that fits an IPTR (`PackAssumption`):
  `PackedDataComesBack`.  `PackedComesBack` is not inductive, because it says
  nothing of a structure that is packed but not yet unpacked; `PackInv` says that each
  field reads as what was packed into it last, and that what was stored for a tag is
  what its field reads.  It rests on `ReadDigits` (the digits that a field
  takes add up to the value cut to its width), `SetBitDone` (one bit changes and
  no other of the byte), `PackEntryDone` and `PackEntryApart` (an entry reads back
  what it packs, and others with bits of their own do not disturb it), and on
  induction over the turns of both loops (`PackedDone`, `UnpackedDone`).  Tables may
  have entries that overlap or a tag twice, as PSTF_EXISTS is used: an entry
  counts unless a later one writes over its field or its tag (`Lasting`).

* For any nodes and lists (assumption `ListAssumption`):
  * `TypeCorrect`, `ListsStayLinked` and `SafeLoopsAreComplete` from `ListInv`: the
    cells the two loops have noted still belong to their list (`Loops`).  It
    is an assumption of the model that the body of a ForeachNodeSafe loop does
    not remove the node noted as next: the macro cannot survive that.
  * `ListsStayInOrder`.  `Linked` alone allows a ring of nodes beside the chain, so
    that a loop could miss nodes or never end; `OrderInv` says that the cells can
    be numbered so that each successor has a higher number.  Every call is given
    a new numbering.
  * `LookupsAnswerForContents` and `CallsDoAsDocumented`.  `Contents` follows the links
    for as many steps as there are nodes; by induction over the steps it is the
    one sequence whose neighbours are linked (`ContentsSpell`, `SpellingUnique`).  The
    look-ups read that sequence from either end, and linking or unlinking a node
    inserts it there or removes it (`LinksInsert`, `UnlinksRemove`).  That Enqueue finds
    the documented place needs `SearchInv`: its loop has only passed nodes of at
    least its node's priority.

* For a memory of any size, any two lists in it and any sets of tags (assumption
  `TagAssumption`): `TagInvariant`, `TagWalksAgree`, `TagRefreshRestores` and
  `TagFilterChanges`.
  * None of the properties says that a walk ends; `TagInv` says that it does.  From
    each of the two lists there is a route, the addresses a walk comes by up to
    TAG_DONE, the routes share no address, and all addresses of the clone are
    behind them, with items one behind the other.  A call changes a tag into
    TAG_IGNORE or another tag that is not a control tag, or it changes data of
    an item that is not a control item: such a change (`Alters`) leaves all routes as they
    are.  So the loops end (`LoopEnds`), and a call on one list leaves the other
    alone.
  * What a call leaves behind is followed item by item: after some turns of the
    loop the items passed are as the documentation has them and the ones
    ahead as they were (`ForEachItem` by induction over the route).  For
    FilterTagChanges this has to be said of both lists at once, since with `apply` what a change
    is compared with was written by the changes before it; `Answer` is what
    the list has for a tag after some of them.

`AvlProofs`, for any finite set of keys (assumption `KeysAssumption`):

* `TreeStaysSound` is the inductive invariant `Avl`: there are two ghost functions,
  `s`, the nodes below each node, and `h`, its height, of which the links,
  parents and balances are a true picture (`Sound`), and a node outside the tree
  has clear fields (`Clean`).  `Balanced` by itself speaks of recursive functions over
  the links, which say nothing while a rotation has some of them changed; for
  `s` and `h` each lemma says at which few nodes they change.
* A climb is followed by `Pending`: the tree is sound but for one node, whose
  balance still counts a subtree that has since become `delta` higher or lower.
  `GrowthTurn` and `ShrinkingTurn` say that a turn either ends the climb with a sound
  tree or leaves the change pending at the parent, whichever of the rotations
  it makes (`SingleRegrafts`, `DoubleRegrafts`, `StayRegrafts`).  That
  `AVL_AddNode` stops after a rotation and `AVL_RemNodeByAddress` only below an even
  node is where the two differ.  `GrownIs` and `ShrunkIs` follow by induction over
  the height that is left to climb.
* `Loop` is a recursive function over a set on which the loop need not end.
  `LoopExists` shows that such a function exists in any case and `LoopEnds` that its
  value is the end of the loop if a measure falls with each turn; every loop
  of `avl.c` is proved to have one, so all of them end.
* A removal of a node with two children puts the node before it, `prev`, in its
  place: `Substituted` is the tree in which `prev` stands for it, `WovenIs` shows that
  the assignments of the code, in their two cases, arrive there.
* `TreeIsBalanced`, `TreeSearchesAgree` and `TreeIsASet` follow from `Avl`: `s` and `h` are
  what `Subtree` and `Height` compute (`SubtreeIs`, `HeightIs`), and each search ends
  where the order of `s` says (`FindNodeIs`, `NeighbourIs`, `NearestIs`, `OutermostIs`).
* TLC checks the three properties on twelve keys; it cannot evaluate `Avl`, which
  quantifies over functions.

## 7. Only model-checked

* Liveness (`FreeLockIsTaken`, `EndedThreadsDisappear`, `CreateReturns`,
  `CallsReturn`, `RequestsAnswered`): out of reach of the prover.
* `Tlsf` with `KnownFaults`: `Tiled` is violated there.

Induction as the library states it takes an operator as a parameter, which no
installed prover can instantiate.  `SetInduction` states it for sets of numbers
instead, so a proof about a recursive function names the set of numbers for
which its claim holds; the proofs about lists, trees and the heap do that.

## 8. Not modelled

* Spawn renames the ports of a process and nothing says what should become of
  the entries others have; GetID's uniqueness is not claimed by any text and
  depends on clock, thread and a 16-bit counter that wraps.
* The start of the ARIX process (mounts, directories), DOS paths and files (text
  and kernel descriptors: `PathFromDOS` and `PathFromUNIX` are string functions
  with symbolic links from the file system; the former's loop also advances
  past the element after one it has erased, which for a path of `..` alone is
  beyond the end of the list, with no defined behaviour to model).
* The system-call wrappers except for their error convention,
  `OpenLibrary`/`CloseLibrary` (which hand over to the dynamic loader), debug
  output and UUIDs (formatting), `init`, the test programs, `tools/sfdc` (a stub
  generator).
* In the modelled parts: the contents of messages beyond request, ID and name;
  control data; failing allocations of the public-port calls, after which a
  call returns without having sent anything; PackBoolTags and CallHookPkt
  (no state); the counters of the heap; a pool within the heap it grows from.
* What threads do to a list, a tree or a pool at once without a lock
  (`__ports` in `createmsgport.cpp`, `FreeVecPooled`): undefined.

## 9. What is left of the plan

The modules of the plan are written but for `SpawnPorts`, for the reason given
above.  What would add most now: a pool on top of the heap, with the failure of
one inside the other; CreateMsgPort and DeleteMsgPort with several owners on one
`MsgPort`; and control data, whose descriptors must not leak.
