------------------------------ MODULE MsgPort ------------------------------
(***************************************************************************)
(* One message port of exec.library: the threads of its owner that wait    *)
(* for messages, get them and reply (libs/exec/waitport.c, getmsg.c,       *)
(* replymsg.c), and the processes that put messages there and wait for     *)
(* the replies (putmsg.c).                                                 *)
(*                                                                         *)
(* The socket keeps datagrams in order and blocks writers while it is      *)
(* full.  A message is received into the port's buffer, which becomes the  *)
(* message; a new buffer comes from the port's pool.  AllocVecPooled and   *)
(* ReallocPooled are inside the pool's mutex, FreeVecPooled is not.        *)
(*                                                                         *)
(* Where two threads are inside the pool at once, or ObtainMutex has       *)
(* refused mp_Lock to a thread that goes on all the same (see ExecMutex),  *)
(* the program may do anything: raced is set and the model stops.          *)
(* mp_MsgList stays empty (see DeviceIO), so GetMsg always asks the socket.*)
(***************************************************************************)
EXTENDS Integers, Sequences, FiniteSets

CONSTANTS
  Readers,      \* threads of the port's owner
  Senders,      \* processes, each with a reply port that only it reads
  Buffers,      \* all the blocks the pool can get
  NULL,
  QueueMax,     \* datagrams a socket holds
  Window,       \* requests a sender may have unanswered
  Requests      \* bound: requests of one sender

Message == [from : Senders, no : 1 .. Requests]

ASSUME PortAssumption ==
  /\ NULL \notin Readers \cup Senders \cup Buffers \cup Message
  /\ IsFiniteSet(Readers) /\ Buffers # {}
  /\ QueueMax \in Nat \ {0} /\ Window \in 1 .. QueueMax /\ Requests \in Nat

VARIABLES
  socket,     \* the port's socket
  replies,    \* the sockets of the senders' reply ports
  sent, got,  \* requests each sender has sent, replies it has taken
  recvBuf,    \* mp_ReceiveBuffer
  used,       \* blocks the pool has handed out
  content,    \* what was last received into each block
  lock,       \* the thread that has mp_Lock, or NULL
  pc, msg,    \* of each reader: where it is, the message it has got
  raced       \* two threads have been in the pool or the port at once

reading == <<recvBuf, used, content, lock, pc, msg, raced>>
sending == <<sent, got>>
vars == <<socket, replies, sending, reading>>

Init ==
  /\ socket = <<>> /\ replies = [s \in Senders |-> <<>>]
  /\ sent = [s \in Senders |-> 0] /\ got = [s \in Senders |-> 0]
  /\ recvBuf \in Buffers /\ used = {recvBuf}
  /\ content = [b \in Buffers |-> NULL]
  /\ lock = NULL /\ pc = [r \in Readers |-> "idle"]
  /\ msg = [r \in Readers |-> NULL] /\ raced = FALSE

-----------------------------------------------------------------------------
(* Senders *)

\* PutMsg of a sender that waits for replies before it sends too many.
PutMsg(s) ==
  /\ sent[s] < Requests /\ sent[s] - got[s] < Window
  /\ Len(socket) < QueueMax
  /\ socket' = Append(socket, [from |-> s, no |-> sent[s] + 1])
  /\ sent' = [sent EXCEPT ![s] = @ + 1]
  /\ UNCHANGED <<replies, got, reading>>

\* WaitPort, GetMsg and DiscardMsg on its own reply port.
TakeReply(s) ==
  /\ replies[s] # <<>>
  /\ replies' = [replies EXCEPT ![s] = Tail(@)]
  /\ got' = [got EXCEPT ![s] = @ + 1]
  /\ UNCHANGED <<socket, sent, reading>>

-----------------------------------------------------------------------------
(* Readers *)

\* A thread in one of these is inside the pool.
InPool(r) == pc[r] \in {"pool", "free"}

Goto(r, label) == pc' = [pc EXCEPT ![r] = label]

Call(r) ==
  /\ pc[r] = "idle"
  /\ Goto(r, "askWait") \/ Goto(r, "askGet")
  /\ UNCHANGED <<socket, replies, sending, recvBuf, used, content, lock, msg, raced>>

ObtainLock(r) ==
  /\ pc[r] \in {"askWait", "askGet"} /\ lock = NULL
  /\ lock' = r
  /\ Goto(r, IF pc[r] = "askWait" THEN "poll" ELSE "recv")
  /\ UNCHANGED <<socket, replies, sending, recvBuf, used, content, msg, raced>>

\* The answer FALSE of ObtainMutex, which only a contended mutex gives.
Refused(r) ==
  /\ pc[r] \in {"askWait", "askGet"} /\ lock # NULL
  /\ raced' = TRUE
  /\ UNCHANGED <<socket, replies, sending, recvBuf, used, content, lock, pc, msg>>

\* Seeded fault: WaitPort returns without ReleaseMutex.
WaitPort_KeepsLock(r) ==
  /\ pc[r] = "poll" /\ socket # <<>>
  /\ Goto(r, "askGet")
  /\ UNCHANGED <<socket, replies, sending, recvBuf, used, content, lock, msg, raced>>

\* Polls with the lock held; the callers then get messages until NULL comes.
WaitPort(r) ==
  /\ pc[r] = "poll" /\ socket # <<>>
  /\ lock' = NULL
  /\ Goto(r, "askGet")
  /\ UNCHANGED <<socket, replies, sending, recvBuf, used, content, msg, raced>>

\* InternalGetMsg has received no datagram, or the kernel has dropped it
\* because mp_ReceiveBuffer is NULL (EFAULT): GetMsg returns NULL.
GetNothing(r) ==
  /\ pc[r] = "recv" /\ (socket = <<>> \/ recvBuf = NULL)
  /\ socket' = IF socket = <<>> THEN socket ELSE Tail(socket)
  /\ lock' = NULL
  /\ Goto(r, "idle")
  /\ UNCHANGED <<replies, sending, recvBuf, used, content, msg, raced>>

\* SC_recvmsg into the buffer, then ReallocPooled, which shrinks in place.
Receive(r) ==
  /\ pc[r] = "recv" /\ socket # <<>> /\ recvBuf # NULL
  /\ content' = [content EXCEPT ![recvBuf] = Head(socket)]
  /\ socket' = Tail(socket)
  /\ msg' = [msg EXCEPT ![r] = recvBuf]
  /\ Goto(r, "pool")
  /\ raced' = (\E q \in Readers \ {r} : InPool(q))
  /\ UNCHANGED <<replies, sending, recvBuf, used, lock>>

\* Seeded fault: the receive buffer is only replaced when it was lost.
NewBuffer_KeepsOld(r) ==
  /\ pc[r] = "pool"
  /\ lock' = NULL
  /\ Goto(r, "hold")
  /\ UNCHANGED <<socket, replies, sending, recvBuf, used, content, msg, raced>>

\* Seeded fault: AllocPooled does not look at what the heap has answered and
\* counts NULL among the blocks it has given out.
NewBuffer_CountsNull(r) ==
  /\ pc[r] = "pool"
  /\ IF used = Buffers THEN recvBuf' = NULL ELSE recvBuf' \in Buffers \ used
  /\ used' = used \cup {recvBuf'}
  /\ lock' = NULL
  /\ Goto(r, "hold")
  /\ UNCHANGED <<socket, replies, sending, content, msg, raced>>

\* AllocVecPooled of the next receive buffer, NULL without memory; GetMsg
\* returns the message.
NewBuffer(r) ==
  /\ pc[r] = "pool"
  /\ IF used = Buffers THEN recvBuf' = NULL ELSE recvBuf' \in Buffers \ used
  /\ used' = used \cup ({recvBuf'} \ {NULL})
  /\ lock' = NULL
  /\ Goto(r, "hold")
  /\ UNCHANGED <<socket, replies, sending, content, msg, raced>>

\* Seeded fault: ReplyMsg does not go to the mn_ReplyPort of its message.
ReplyMsg_ToAnyone(r) ==
  /\ pc[r] = "hold"
  /\ \E s \in Senders :
       /\ Len(replies[s]) < QueueMax
       /\ replies' = [replies EXCEPT ![s] = Append(@, content[msg[r]])]
  /\ Goto(r, "free")
  /\ raced' = (\E q \in Readers \ {r} : InPool(q))
  /\ UNCHANGED <<socket, sending, recvBuf, used, content, lock, msg>>

\* ReplyMsg, and the beginning of its DiscardMsg.
ReplyMsg(r) ==
  LET s == content[msg[r]].from
  IN  /\ pc[r] = "hold"
      /\ Len(replies[s]) < QueueMax
      /\ replies' = [replies EXCEPT ![s] = Append(@, content[msg[r]])]
      /\ Goto(r, "free")
      /\ raced' = (\E q \in Readers \ {r} : InPool(q))
      /\ UNCHANGED <<socket, sending, recvBuf, used, content, lock, msg>>

\* Seeded fault: DiscardMsg forgets the block.
DiscardMsg_Leaks(r) ==
  /\ pc[r] = "free"
  /\ msg' = [msg EXCEPT ![r] = NULL]
  /\ Goto(r, "idle")
  /\ UNCHANGED <<socket, replies, sending, recvBuf, used, content, lock, raced>>

\* FreeVecPooled
DiscardMsg(r) ==
  /\ pc[r] = "free"
  /\ used' = used \ {msg[r]}
  /\ msg' = [msg EXCEPT ![r] = NULL]
  /\ Goto(r, "idle")
  /\ UNCHANGED <<socket, replies, sending, recvBuf, content, lock, raced>>

ReaderStep(r) ==
  \/ Call(r) \/ ObtainLock(r) \/ WaitPort(r)
  \/ GetNothing(r) \/ Receive(r) \/ NewBuffer(r) \/ ReplyMsg(r) \/ DiscardMsg(r)

Next ==
  /\ ~ raced
  /\ \/ \E s \in Senders : PutMsg(s) \/ TakeReply(s)
     \/ \E r \in Readers : ReaderStep(r) \/ Refused(r)

Spec == Init /\ [][Next]_vars

\* Every thread and process that can go on does, in some order; nothing is
\* assumed of who gets a lock or a place in a full socket.
FairSpec ==
  /\ Spec
  /\ \A r \in Readers : WF_vars(~ raced /\ ReaderStep(r))
  /\ \A s \in Senders : WF_vars(~ raced /\ TakeReply(s))

-----------------------------------------------------------------------------
(* Properties *)

TypeOK ==
  /\ socket \in Seq(Message) /\ Len(socket) <= QueueMax
  /\ replies \in [Senders -> Seq(Message)]
  /\ sent \in [Senders -> 0 .. Requests] /\ got \in [Senders -> Nat]
  /\ recvBuf \in Buffers \cup {NULL} /\ used \subseteq Buffers
  /\ content \in [Buffers -> Message \cup {NULL}]
  /\ lock \in Readers \cup {NULL}
  /\ pc \in [Readers -> {"idle", "askWait", "askGet", "poll", "recv",
                         "pool", "hold", "free"}]
  /\ msg \in [Readers -> Buffers \cup {NULL}]
  /\ raced \in BOOLEAN

\* The blocks of the pool are the receive buffer and the messages threads
\* hold, and no two of those are one block, save for the thread that has the
\* lock and is about to replace the buffer: nothing is received into a
\* message that a thread still reads, and nothing leaks.
BuffersApart ==
  LET held == {r \in Readers : pc[r] \in {"pool", "hold", "free"}}
  IN  /\ used = ({recvBuf} \ {NULL}) \cup {msg[r] : r \in held}
      /\ \A r, q \in held : msg[r] = msg[q] => r = q
      /\ \A r \in held : msg[r] = recvBuf <=> pc[r] = "pool"

\* At most as many replies wait at a sender as it has requests unanswered,
\* so ReplyMsg never blocks on a sender that keeps to its window, and two
\* full sockets cannot hold each other up (putmsg.c:80).
RepliesFit ==
  \A s \in Senders : Len(replies[s]) + got[s] <= sent[s]

\* The message each thread works on, as it finds it in its block.
Held == [r \in Readers |->
           IF pc[r] \in {"pool", "hold"} THEN content[msg[r]] ELSE NULL]

Mail == INSTANCE Mailbox WITH
          queue <- socket, held <- Held, answers <- replies,
          deaf <- (recvBuf = NULL), Messages <- Message

\* To senders and readers the port is a mailbox: each message is got once, in
\* order, and its block is not touched before the thread has replied.
ImplementsMailbox == Mail!Spec

\* Every request is answered, unless the port has run out of memory; it is
\* then deaf for good, since only InternalGetMsg replaces the buffer.
RequestsAnswered ==
  \A s \in Senders, n \in 1 .. Requests :
    sent[s] >= n ~> got[s] >= n \/ recvBuf = NULL \/ raced
=============================================================================
