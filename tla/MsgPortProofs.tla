---------------------------- MODULE MsgPortProofs ----------------------------
(***************************************************************************)
(* What MsgPort guarantees for any number of readers, senders, buffers and *)
(* requests, and any size of the sockets, as long as no two threads are in *)
(* the pool or the port at once.                                           *)
(***************************************************************************)
EXTENDS MsgPort, FiniteSetTheorems, SequenceTheorems, TLAPS

Serving(r) == pc[r] \in {"pool", "hold", "free"}

\* Only the holder of mp_Lock polls, receives and replaces the buffer.
Locked == \A r \in Readers : pc[r] \in {"poll", "recv", "pool"} => lock = r

\* A thread that serves a message has a block, and there is a message in it.
Loaded == \A r \in Readers : Serving(r) => /\ msg[r] \in Buffers
                                           /\ content[msg[r]] \in Message

\* BuffersApart, without the set of all the threads that serve a message.
Apart ==
  /\ used = ({recvBuf} \ {NULL}) \cup {msg[r] : r \in {q \in Readers : Serving(q)}}
  /\ \A r, q \in Readers : Serving(r) /\ Serving(q) /\ msg[r] = msg[q] => r = q
  /\ \A r \in Readers : Serving(r) => (msg[r] = recvBuf <=> pc[r] = "pool")

PortInv == TypeOK /\ Locked /\ Loaded /\ Apart

LEMMA PortInvInit == Init => PortInv
<1> SUFFICES ASSUME Init PROVE PortInv
  OBVIOUS
<1>1. <<>> \in Seq(Message) /\ Len(<<>>) = 0
  OBVIOUS
<1>2. socket \in Seq(Message) /\ Len(socket) <= QueueMax
  BY <1>1, PortAssumption DEF Init
<1>3. replies \in [Senders -> Seq(Message)]
  BY <1>1 DEF Init
<1>4. sent \in [Senders -> 0 .. Requests] /\ got \in [Senders -> Nat]
  BY PortAssumption DEF Init
<1>5. /\ recvBuf \in Buffers \cup {NULL} /\ used \subseteq Buffers
      /\ content \in [Buffers -> Message \cup {NULL}]
      /\ msg \in [Readers -> Buffers \cup {NULL}]
  BY DEF Init
<1>6. /\ lock \in Readers \cup {NULL}
      /\ pc \in [Readers -> {"idle", "askWait", "askGet", "poll", "recv",
                             "pool", "hold", "free"}]
      /\ raced \in BOOLEAN
  BY DEF Init
<1>7. TypeOK
  BY <1>2, <1>3, <1>4, <1>5, <1>6 DEF TypeOK
<1> QED
  BY <1>7, PortAssumption DEF Init, PortInv, Locked, Loaded, Apart, Serving

LEMMA PortInvStep == PortInv /\ [Next]_vars => PortInv'
<1> SUFFICES ASSUME PortInv, [Next]_vars PROVE PortInv'
  OBVIOUS
<1> USE PortAssumption DEF PortInv, TypeOK, Goto
<1>1. ASSUME NEW s \in Senders, PutMsg(s)
      PROVE  PortInv'
  <2>1. [from |-> s, no |-> sent[s] + 1] \in Message /\ sent' \in [Senders -> 0 .. Requests]
    BY <1>1 DEF PutMsg, Message
  <2>2. socket' \in Seq(Message) /\ Len(socket') <= QueueMax
    BY <1>1, <2>1, AppendProperties DEF PutMsg
  <2> QED
    BY <1>1, <2>1, <2>2 DEF PutMsg, reading, Locked, Loaded, Apart, Serving
<1>2. ASSUME NEW s \in Senders, TakeReply(s)
      PROVE  PortInv'
  <2>1. replies' \in [Senders -> Seq(Message)]
    BY <1>2 DEF TakeReply
  <2>2. got' \in [Senders -> Nat]
    BY <1>2 DEF TakeReply
  <2> QED
    BY <1>2, <2>1, <2>2 DEF TakeReply, reading, Locked, Loaded, Apart, Serving
<1>3. ASSUME NEW r \in Readers, Call(r)
      PROVE  PortInv'
  <2>1. PICK label \in {"askWait", "askGet"} : pc' = [pc EXCEPT ![r] = label]
    BY <1>3 DEF Call
  <2>2. pc[r] = "idle"
    BY <1>3 DEF Call
  <2>3. \A q \in Readers : Serving(q)' <=> Serving(q)
    BY <2>1, <2>2 DEF Serving
  <2>4. Locked' /\ Loaded'
    BY <1>3, <2>1, <2>2, <2>3 DEF Call, Locked, Loaded
  <2>5. Apart'
    BY <1>3, <2>1, <2>2, <2>3 DEF Call, Apart
  <2> QED
    BY <1>3, <2>1, <2>4, <2>5 DEF Call, sending
<1>4. ASSUME NEW r \in Readers, ObtainLock(r)
      PROVE  PortInv'
  BY <1>4 DEF ObtainLock, sending, Locked, Loaded, Apart, Serving
<1>5. ASSUME NEW r \in Readers, Refused(r)
      PROVE  PortInv'
  BY <1>5 DEF Refused, sending, Locked, Loaded, Apart, Serving
<1>6. ASSUME NEW r \in Readers, WaitPort(r)
      PROVE  PortInv'
  BY <1>6 DEF WaitPort, sending, Locked, Loaded, Apart, Serving
<1>7. ASSUME NEW r \in Readers, GetNothing(r)
      PROVE  PortInv'
  <2>1. socket' \in Seq(Message) /\ Len(socket') <= QueueMax
    BY <1>7 DEF GetNothing
  <2> QED
    BY <1>7, <2>1 DEF GetNothing, sending, Locked, Loaded, Apart, Serving
<1>8. ASSUME NEW r \in Readers, Receive(r)
      PROVE  PortInv'
  <2>1. /\ Head(socket) \in Message
        /\ socket' \in Seq(Message) /\ Len(socket') <= QueueMax
    BY <1>8, HeadTailProperties DEF Receive
  <2>2. /\ recvBuf \in Buffers /\ recvBuf' = recvBuf /\ used' = used /\ lock' = lock
        /\ content' = [content EXCEPT ![recvBuf] = Head(socket)]
        /\ msg' = [msg EXCEPT ![r] = recvBuf]
        /\ pc[r] = "recv" /\ pc' = [pc EXCEPT ![r] = "pool"]
    BY <1>8 DEF Receive
  <2>3. \A q \in Readers \ {r} : pc[q] # "pool" /\ (Serving(q) => msg[q] # recvBuf)
    BY <2>2 DEF Locked, Apart, Serving
  <2>4. TypeOK'
    BY <1>8, <2>1, <2>2 DEF Receive, sending
  <2>5. Locked'
    BY <2>2 DEF Locked
  <2>6. Loaded'
    BY <2>1, <2>2 DEF Loaded, Serving
  <2>7. Apart'
    BY <2>2, <2>3 DEF Apart, Serving
  <2> QED
    BY <2>4, <2>5, <2>6, <2>7
<1>9. ASSUME NEW r \in Readers, NewBuffer(r)
      PROVE  PortInv'
  <2>1. /\ recvBuf' \in (Buffers \ used) \cup {NULL}
        /\ used' = used \cup ({recvBuf'} \ {NULL})
        /\ pc[r] = "pool" /\ pc' = [pc EXCEPT ![r] = "hold"]
        /\ msg' = msg /\ content' = content /\ lock' = NULL
    BY <1>9 DEF NewBuffer
  <2>2. TypeOK'
    BY <1>9, <2>1 DEF NewBuffer, sending
  <2>3. Locked'
    BY <2>1 DEF Locked
  <2>4. Loaded'
    BY <2>1 DEF Loaded, Serving
  <2>5. \A q \in Readers : Serving(q)' <=> Serving(q)
    BY <2>1 DEF Serving
  <2>6. \A q \in Readers : Serving(q) => msg[q] \in used /\ msg[q] # recvBuf'
    BY <2>1 DEF Apart, Loaded
  <2>7. \A q \in Readers : pc'[q] # "pool"
    BY <2>1 DEF Locked
  <2>8. recvBuf = msg[r] /\ Serving(r)
    BY <2>1 DEF Apart, Serving
  <2>9. Apart'
    BY <2>1, <2>5, <2>6, <2>7, <2>8 DEF Apart
  <2> QED
    BY <2>2, <2>3, <2>4, <2>9
<1>10. ASSUME NEW r \in Readers, ReplyMsg(r)
      PROVE  PortInv'
  <2>1. content[msg[r]] \in Message /\ content[msg[r]].from \in Senders
    BY <1>10 DEF ReplyMsg, Loaded, Serving, Message
  <2>2. replies' \in [Senders -> Seq(Message)]
    BY <1>10, <2>1 DEF ReplyMsg
  <2> QED
    BY <1>10, <2>2 DEF ReplyMsg, sending, Locked, Loaded, Apart, Serving
<1>11. ASSUME NEW r \in Readers, DiscardMsg(r)
      PROVE  PortInv'
  <2>1. /\ pc[r] = "free" /\ pc' = [pc EXCEPT ![r] = "idle"]
        /\ used' = used \ {msg[r]} /\ msg' = [msg EXCEPT ![r] = NULL]
        /\ recvBuf' = recvBuf /\ content' = content /\ lock' = lock
    BY <1>11 DEF DiscardMsg
  <2>2. TypeOK'
    BY <1>11, <2>1 DEF DiscardMsg, sending
  <2>3. Locked' /\ Loaded'
    BY <2>1 DEF Locked, Loaded, Serving
  <2>4. \A q \in Readers : Serving(q)' <=> Serving(q) /\ q # r
    BY <2>1 DEF Serving
  <2>5. msg[r] # recvBuf /\ \A q \in Readers : Serving(q) /\ q # r => msg[q] # msg[r]
    BY <2>1 DEF Apart, Serving
  <2>6. Apart'
    BY <2>1, <2>4, <2>5 DEF Apart
  <2> QED
    BY <2>2, <2>3, <2>6
<1>12. CASE UNCHANGED vars
  BY <1>12 DEF vars, reading, sending, Locked, Loaded, Apart, Serving
<1> QED
  BY <1>1, <1>2, <1>3, <1>4, <1>5, <1>6, <1>7, <1>8, <1>9, <1>10, <1>11, <1>12
  DEF Next, ReaderStep

\* Every variable keeps its type, and no socket holds more than it may.
THEOREM TypeCorrect == Spec => []TypeOK
<1>1. PortInv => TypeOK
  BY DEF PortInv
<1> QED
  BY <1>1, PortInvInit, PortInvStep, PTL DEF Spec

\* The receive buffer and the messages that threads hold are different blocks
\* and all the blocks the pool has handed out: none is overwritten while it is
\* read, and none is lost (getmsg.c, discardmsg.c).
THEOREM BuffersStayApart == Spec => []BuffersApart
<1>1. PortInv => BuffersApart
  BY DEF PortInv, Apart, BuffersApart, Serving
<1> QED
  BY <1>1, PortInvInit, PortInvStep, PTL DEF Spec

-----------------------------------------------------------------------------
(* Every request of a sender is counted once: in the socket, with a thread  *)
(* that has not replied yet, among the replies, or as taken.                *)

From(q, s) == {i \in 1 .. Len(q) : q[i].from = s}

Working(s) ==
  {r \in Readers : pc[r] \in {"pool", "hold"} /\ content[msg[r]].from = s}

Counted(s) ==
  Cardinality(From(socket, s)) + Cardinality(Working(s)) + Len(replies[s]) + got[s]

CountInv == \A s \in Senders : Counted(s) <= sent[s]

LEMMA FromFinite ==
  ASSUME NEW q \in Seq(Message), NEW s
  PROVE  IsFiniteSet(From(q, s)) /\ Cardinality(From(q, s)) \in Nat
<1>1. IsFiniteSet(1 .. Len(q))
  BY FS_Interval
<1>2. From(q, s) \in SUBSET (1 .. Len(q))
  BY DEF From
<1> QED
  BY <1>1, <1>2, FS_Subset, FS_CardinalityType

LEMMA ReadersFinite ==
  ASSUME NEW W, W \subseteq Readers
  PROVE  IsFiniteSet(W) /\ Cardinality(W) \in Nat
BY PortAssumption, FS_Subset, FS_CardinalityType

\* One more message from s, or none.
LEMMA FromAppend ==
  ASSUME NEW q \in Seq(Message), NEW m \in Message, NEW s
  PROVE  Cardinality(From(Append(q, m), s)) =
           Cardinality(From(q, s)) + (IF m.from = s THEN 1 ELSE 0)
<1>1. /\ Len(Append(q, m)) = Len(q) + 1 /\ Append(q, m)[Len(q) + 1] = m
      /\ \A i \in 1 .. Len(q) : Append(q, m)[i] = q[i]
      /\ Len(q) \in Nat
  BY AppendProperties
<1>2. From(Append(q, m), s) =
        From(q, s) \cup (IF m.from = s THEN {Len(q) + 1} ELSE {})
  BY <1>1 DEF From
<1>3. Len(q) + 1 \notin From(q, s)
  BY <1>1 DEF From
<1>4. CASE m.from = s
  BY <1>2, <1>3, <1>4, FromFinite, FS_AddElement
<1>5. CASE m.from # s
  BY <1>2, <1>5, FromFinite
<1> QED
  BY <1>4, <1>5

\* The rest of the queue holds what the queue holds but for its head.
LEMMA FromTail ==
  ASSUME NEW q \in Seq(Message), q # <<>>, NEW s
  PROVE  Cardinality(From(Tail(q), s)) =
           Cardinality(From(q, s)) - (IF Head(q).from = s THEN 1 ELSE 0)
<1>1. /\ Tail(q) \in Seq(Message) /\ Len(Tail(q)) = Len(q) - 1 /\ Len(q) \in Nat
      /\ Len(q) >= 1 /\ Head(q) = q[1]
      /\ \A i \in 1 .. Len(Tail(q)) : Tail(q)[i] = q[i + 1]
  BY HeadTailProperties, EmptySeq
<1> DEFINE rest == From(q, s) \ {1}
           f == [i \in From(Tail(q), s) |-> i + 1]
<1>2. f \in Bijection(From(Tail(q), s), rest)
  <2>1. \A i \in From(Tail(q), s) : f[i] \in rest
    BY <1>1 DEF From
  <2>2. \A i, j \in From(Tail(q), s) : f[i] = f[j] => i = j
    BY <1>1 DEF From
  <2>3. \A k \in rest : \E i \in From(Tail(q), s) : f[i] = k
    <3> SUFFICES ASSUME NEW k \in rest
                 PROVE  \E i \in From(Tail(q), s) : f[i] = k
      OBVIOUS
    <3>1. k - 1 \in From(Tail(q), s) /\ (k - 1) + 1 = k
      BY <1>1 DEF From
    <3> QED
      BY <3>1
  <2> QED
    BY <2>1, <2>2, <2>3 DEF Bijection, Injection, Surjection, IsInjective
<1>3. Cardinality(rest) = Cardinality(From(Tail(q), s))
  <2>1. ExistsBijection(From(Tail(q), s), rest)
    BY <1>2 DEF ExistsBijection
  <2> QED
    BY <1>1, <2>1, FromFinite, FS_Bijection
<1>4. Cardinality(rest) = IF 1 \in From(q, s) THEN Cardinality(From(q, s)) - 1
                          ELSE Cardinality(From(q, s))
  BY FromFinite, FS_RemoveElement
<1>5. 1 \in From(q, s) <=> Head(q).from = s
  BY <1>1 DEF From
<1> QED
  BY <1>3, <1>4, <1>5, <1>1, FromFinite

LEMMA CountInit == Init => CountInv
<1> SUFFICES ASSUME Init, NEW s \in Senders PROVE Counted(s) <= sent[s]
  BY DEF CountInv
<1>1. From(socket, s) = {} /\ Working(s) = {}
  BY DEF Init, From, Working
<1>2. Len(replies[s]) = 0 /\ got[s] = 0 /\ sent[s] = 0
  BY DEF Init
<1>3. Cardinality(From(socket, s)) = 0 /\ Cardinality(Working(s)) = 0
  BY <1>1, FS_EmptySet
<1> QED
  BY <1>2, <1>3 DEF Counted

LEMMA CountStep == PortInv /\ PortInv' /\ CountInv /\ [Next]_vars => CountInv'
<1> SUFFICES ASSUME PortInv, PortInv', CountInv, [Next]_vars, NEW s \in Senders
             PROVE  (Counted(s) <= sent[s])'
  BY DEF CountInv
<1>1. PICK a, b, x, y : /\ a = Cardinality(From(socket, s)) /\ b = Cardinality(Working(s))
                        /\ x = Cardinality(From(socket', s)) /\ y = Cardinality(Working(s)')
  OBVIOUS
<1>2. PICK k, g, n, kk, gg, nn : /\ k = Len(replies[s]) /\ g = got[s] /\ n = sent[s]
                                 /\ kk = Len(replies'[s]) /\ gg = got'[s] /\ nn = sent'[s]
  OBVIOUS
<1>0. /\ a \in Nat /\ b \in Nat /\ x \in Nat /\ y \in Nat
      /\ k \in Nat /\ g \in Nat /\ n \in Nat /\ kk \in Nat /\ gg \in Nat /\ nn \in Nat
      /\ a + b + k + g <= n
  <2>1. Working(s) \subseteq Readers /\ Working(s)' \subseteq Readers
    BY DEF Working
  <2>2. socket \in Seq(Message) /\ socket' \in Seq(Message)
    BY DEF PortInv, TypeOK
  <2>3. a \in Nat /\ b \in Nat /\ x \in Nat /\ y \in Nat
    BY <1>1, <2>1, <2>2, FromFinite, ReadersFinite
  <2>4. /\ k \in Nat /\ g \in Nat /\ n \in Nat /\ kk \in Nat /\ gg \in Nat /\ nn \in Nat
    BY <1>2, PortAssumption DEF PortInv, TypeOK
  <2>5. a + b + k + g <= n
    BY <1>1, <1>2 DEF CountInv, Counted
  <2> QED
    BY <2>3, <2>4, <2>5
<1>3. SUFFICES x + y + kk + gg <= nn
  BY <1>1, <1>2 DEF Counted
<1>4. (\A r \in Readers : /\ pc'[r] \in {"pool", "hold"} <=> pc[r] \in {"pool", "hold"}
                          /\ pc[r] \in {"pool", "hold"} => content'[msg'[r]] = content[msg[r]])
        => y = b
  <2> SUFFICES ASSUME \A r \in Readers :
                        /\ pc'[r] \in {"pool", "hold"} <=> pc[r] \in {"pool", "hold"}
                        /\ pc[r] \in {"pool", "hold"} => content'[msg'[r]] = content[msg[r]]
               PROVE  y = b
    OBVIOUS
  <2>1. Working(s)' = Working(s)
    BY DEF Working
  <2> QED
    BY <1>1, <2>1
<1>5. ASSUME NEW z \in Senders, PutMsg(z)
      PROVE  x + y + kk + gg <= nn
  <2>1. /\ replies' = replies /\ got' = got /\ UNCHANGED <<pc, msg, content>>
        /\ sent' = [sent EXCEPT ![z] = @ + 1]
        /\ socket' = Append(socket, [from |-> z, no |-> sent[z] + 1])
        /\ [from |-> z, no |-> sent[z] + 1] \in Message
    BY <1>5 DEF PutMsg, reading, Message, PortInv, TypeOK
  <2>2. x = a + (IF z = s THEN 1 ELSE 0)
    BY <2>1, <1>1, FromAppend DEF PortInv, TypeOK
  <2>3. nn = n + (IF z = s THEN 1 ELSE 0)
    BY <1>2, <2>1 DEF PortInv, TypeOK
  <2>4. y = b
    BY <1>4, <2>1
  <2> QED
    <3>1. kk = k /\ gg = g
      BY <1>2, <2>1
    <3> QED
      BY <1>0, <2>2, <2>3, <2>4, <3>1
<1>6. ASSUME NEW z \in Senders, TakeReply(z)
      PROVE  x + y + kk + gg <= nn
  <2>1. /\ sent' = sent /\ socket' = socket /\ UNCHANGED <<pc, msg, content>>
        /\ replies[z] # <<>> /\ replies' = [replies EXCEPT ![z] = Tail(@)]
        /\ got' = [got EXCEPT ![z] = @ + 1]
    BY <1>6 DEF TakeReply, reading
  <2>2. replies[z] \in Seq(Message) /\ Len(Tail(replies[z])) = Len(replies[z]) - 1
    BY <2>1, HeadTailProperties DEF PortInv, TypeOK
  <2>3. kk + gg = k + g
    <3>1. CASE z = s
      <4>1. kk = k - 1
        BY <1>2, <2>1, <2>2, <3>1 DEF PortInv, TypeOK
      <4>2. gg = g + 1
        BY <1>2, <2>1, <3>1 DEF PortInv, TypeOK
      <4> QED
        BY <1>0, <4>1, <4>2
    <3>2. CASE z # s
      BY <1>2, <2>1, <3>2 DEF PortInv, TypeOK
    <3> QED
      BY <3>1, <3>2
  <2>4. x = a /\ y = b /\ nn = n
    BY <1>1, <1>2, <1>4, <2>1
  <2> QED
    BY <1>0, <2>3, <2>4
<1>7. ASSUME NEW r \in Readers, Receive(r)
      PROVE  x + y + kk + gg <= nn
  <2>1. /\ sent' = sent /\ got' = got /\ replies' = replies
        /\ socket # <<>> /\ socket' = Tail(socket) /\ socket \in Seq(Message)
        /\ content' = [content EXCEPT ![recvBuf] = Head(socket)]
        /\ msg' = [msg EXCEPT ![r] = recvBuf] /\ recvBuf \in Buffers
        /\ pc[r] = "recv" /\ pc' = [pc EXCEPT ![r] = "pool"]
    BY <1>7, PortAssumption DEF Receive, sending, Goto, PortInv, TypeOK
  <2>2. x = a - (IF Head(socket).from = s THEN 1 ELSE 0)
    BY <2>1, <1>1, FromTail
  <2>3. \A q \in Readers \ {r} : pc[q] \in {"pool", "hold"} => msg[q] # recvBuf
    BY <2>1 DEF PortInv, Locked, Apart, Serving
  <2>4. Working(s)' = Working(s) \cup (IF Head(socket).from = s THEN {r} ELSE {})
    BY <2>1, <2>3 DEF Working, PortInv, TypeOK
  <2>5. r \notin Working(s)
    BY <2>1 DEF Working
  <2>7. Working(s) \subseteq Readers
    BY DEF Working
  <2>6. y = b + (IF Head(socket).from = s THEN 1 ELSE 0)
    <3>1. CASE Head(socket).from = s
      BY <1>1, <2>4, <2>5, <2>7, <3>1, ReadersFinite, FS_AddElement
    <3>2. CASE Head(socket).from # s
      BY <1>0, <1>1, <2>4, <3>2
    <3> QED
      BY <3>1, <3>2
  <2> QED
    <3>1. kk = k /\ gg = g /\ nn = n
      BY <1>2, <2>1
    <3> QED
      BY <1>0, <2>2, <2>6, <3>1
<1>8. ASSUME NEW r \in Readers, GetNothing(r)
      PROVE  x + y + kk + gg <= nn
  <2>1. /\ sent' = sent /\ got' = got /\ replies' = replies /\ UNCHANGED <<msg, content>>
        /\ pc[r] = "recv" /\ pc' = [pc EXCEPT ![r] = "idle"]
        /\ socket' = IF socket = <<>> THEN socket ELSE Tail(socket)
    BY <1>8 DEF GetNothing, sending, Goto
  <2>2. x <= a /\ x \in Nat
    <3>1. CASE socket = <<>>
      BY <1>0, <1>1, <2>1, <3>1
    <3>2. CASE socket # <<>>
      <4>1. x = a - (IF Head(socket).from = s THEN 1 ELSE 0)
        BY <2>1, <3>2, <1>1, FromTail DEF PortInv, TypeOK
      <4> QED
        BY <1>0, <4>1
    <3> QED
      BY <3>1, <3>2
  <2>3. y = b
    BY <1>4, <2>1 DEF PortInv, TypeOK
  <2> QED
    <3>1. kk = k /\ gg = g /\ nn = n
      BY <1>2, <2>1
    <3> QED
      BY <1>0, <2>2, <2>3, <3>1
<1>9. ASSUME NEW r \in Readers, ReplyMsg(r)
      PROVE  x + y + kk + gg <= nn
  <2>1. PICK m : m = content[msg[r]]
    OBVIOUS
  <2>2. /\ sent' = sent /\ got' = got /\ socket' = socket /\ UNCHANGED <<msg, content>>
        /\ pc[r] = "hold" /\ pc' = [pc EXCEPT ![r] = "free"]
        /\ replies' = [replies EXCEPT ![m.from] = Append(@, m)]
        /\ m \in Message /\ m.from \in Senders
    BY <1>9, <2>1 DEF ReplyMsg, sending, Goto, PortInv, Loaded, Serving, Message
  <2>3. kk = k + (IF m.from = s THEN 1 ELSE 0)
    <3>1. replies[m.from] \in Seq(Message)
      BY <2>2 DEF PortInv, TypeOK
    <3>2. Len(Append(replies[m.from], m)) = Len(replies[m.from]) + 1
      BY <2>2, <3>1, AppendProperties
    <3> QED
      BY <1>0, <1>2, <2>2, <3>2 DEF PortInv, TypeOK
  <2>4. Working(s)' = Working(s) \ {r} /\ (r \in Working(s) <=> m.from = s)
    BY <2>1, <2>2 DEF Working, PortInv, TypeOK
  <2>5. y = b - (IF m.from = s THEN 1 ELSE 0)
    <3>1. Working(s) \subseteq Readers
      BY DEF Working
    <3>2. Cardinality(Working(s) \ {r}) =
            IF r \in Working(s) THEN Cardinality(Working(s)) - 1 ELSE Cardinality(Working(s))
      BY <3>1, ReadersFinite, FS_RemoveElement
    <3> QED
      BY <1>0, <1>1, <2>4, <3>2
  <2>6. x = a /\ gg = g /\ nn = n
    BY <1>1, <1>2, <2>2
  <2> QED
    BY <1>0, <2>3, <2>5, <2>6
<1>10. ASSUME NEW r \in Readers,
              \/ Call(r) \/ ObtainLock(r) \/ WaitPort(r) \/ Refused(r)
              \/ NewBuffer(r) \/ DiscardMsg(r)
       PROVE  x + y + kk + gg <= nn
  <2>1. UNCHANGED <<sent, got, replies, socket, content>>
    BY <1>10 DEF Call, ObtainLock, WaitPort, Refused, NewBuffer, DiscardMsg, sending
  <2>2. \A q \in Readers : /\ pc'[q] \in {"pool", "hold"} <=> pc[q] \in {"pool", "hold"}
                           /\ pc[q] \in {"pool", "hold"} => msg'[q] = msg[q]
    BY <1>10
    DEF Call, ObtainLock, WaitPort, Refused, NewBuffer, DiscardMsg, Goto, PortInv, TypeOK
  <2>3. y = b
    BY <1>4, <2>1, <2>2
  <2>4. x = a /\ kk = k /\ gg = g /\ nn = n
    BY <1>1, <1>2, <2>1
  <2> QED
    BY <1>0, <2>3, <2>4
<1>11. CASE UNCHANGED vars
  <2>1. y = b
    BY <1>4, <1>11 DEF vars, reading
  <2>2. x = a /\ kk = k /\ gg = g /\ nn = n
    BY <1>1, <1>2, <1>11 DEF vars, sending
  <2> QED
    BY <1>0, <2>1, <2>2
<1> QED
  BY <1>5, <1>6, <1>7, <1>8, <1>9, <1>10, <1>11 DEF Next, ReaderStep

\* No more replies wait at a sender than it has requests unanswered, so a
\* reply port never fills up on a sender that keeps to its window and ReplyMsg
\* does not block on it (replymsg.c, putmsg.c).
THEOREM RepliesAlwaysFit == Spec => []RepliesFit
<1>1. Init => PortInv /\ CountInv
  BY PortInvInit, CountInit
<1>2. PortInv /\ CountInv /\ [Next]_vars => (PortInv /\ CountInv)'
  BY PortInvStep, CountStep
<1>3. PortInv /\ CountInv => RepliesFit
  <2> SUFFICES ASSUME PortInv, CountInv, NEW s \in Senders
               PROVE  Len(replies[s]) + got[s] <= sent[s]
    BY DEF RepliesFit
  <2>1. /\ Cardinality(From(socket, s)) \in Nat /\ Cardinality(Working(s)) \in Nat
        /\ Len(replies[s]) \in Nat /\ got[s] \in Nat /\ sent[s] \in Nat
    <3>1. Working(s) \subseteq Readers
      BY DEF Working
    <3> QED
      BY <3>1, FromFinite, ReadersFinite DEF PortInv, TypeOK
  <2> QED
    BY <2>1 DEF CountInv, Counted
<1> QED
  BY <1>1, <1>2, <1>3, PTL DEF Spec

-----------------------------------------------------------------------------
\* To its senders and readers the port is the mailbox of module Mailbox: each
\* message comes to one thread, in order, and keeps its contents until it has
\* been replied to; receiving into the next buffer, shrinking, replacing and
\* releasing blocks cannot be noticed.
THEOREM PortImplementsMailbox == Spec => ImplementsMailbox
<1>1. Init => Mail!Init
  <2> SUFFICES ASSUME Init PROVE Mail!Init
    OBVIOUS
  <2>1. recvBuf # NULL
    BY PortAssumption DEF Init
  <2>2. Held = [r \in Readers |-> NULL]
    BY DEF Init, Held
  <2> QED
    BY <2>1, <2>2 DEF Init, Mail!Init
<1>2. PortInv /\ [Next]_vars => [Mail!Next]_(Mail!vars)
  <2> SUFFICES ASSUME PortInv, [Next]_vars
               PROVE  Mail!Next \/ UNCHANGED Mail!vars
    OBVIOUS
  <2> USE DEF PortInv, TypeOK, Goto
  \* The steps that change neither the queue, nor a message at work, nor replies.
  <2>a. ASSUME UNCHANGED <<socket, replies, recvBuf>>,
               \A r \in Readers :
                 /\ pc'[r] \in {"pool", "hold"} <=> pc[r] \in {"pool", "hold"}
                 /\ pc[r] \in {"pool", "hold"} => content'[msg'[r]] = content[msg[r]]
        PROVE  UNCHANGED Mail!vars
    <3>1. Held' = Held
      BY <2>a DEF Held
    <3> QED
      BY <2>a, <3>1 DEF Mail!vars
  <2>1. ASSUME NEW s \in Senders, PutMsg(s)
        PROVE  \E m \in Message : Mail!Put(m)
    <3>1. [from |-> s, no |-> sent[s] + 1] \in Message
      BY <2>1, PortAssumption DEF PutMsg, Message
    <3>2. Held' = Held
      BY <2>1 DEF PutMsg, reading, Held
    <3> QED
      BY <2>1, <3>1, <3>2 DEF PutMsg, reading, Mail!Put
  <2>2. ASSUME NEW s \in Senders, TakeReply(s)
        PROVE  Mail!Collect(s)
    <3>1. Held' = Held
      BY <2>2 DEF TakeReply, reading, Held
    <3> QED
      BY <2>2, <3>1 DEF TakeReply, reading, Mail!Collect
  <2>3. ASSUME NEW r \in Readers,
               Call(r) \/ ObtainLock(r) \/ WaitPort(r) \/ Refused(r) \/ DiscardMsg(r)
        PROVE  UNCHANGED Mail!vars
    <3>1. UNCHANGED <<socket, replies, recvBuf, content>>
      BY <2>3 DEF Call, ObtainLock, WaitPort, Refused, DiscardMsg
    <3>2. \A q \in Readers : /\ pc'[q] \in {"pool", "hold"} <=> pc[q] \in {"pool", "hold"}
                             /\ pc[q] \in {"pool", "hold"} => msg'[q] = msg[q]
      BY <2>3 DEF Call, ObtainLock, WaitPort, Refused, DiscardMsg
    <3> QED
      BY <2>a, <3>1, <3>2
  <2>4. ASSUME NEW r \in Readers, GetNothing(r)
        PROVE  Mail!Lose \/ UNCHANGED Mail!vars
    <3>1. /\ UNCHANGED <<replies, recvBuf, content, msg>>
          /\ pc[r] = "recv" /\ pc' = [pc EXCEPT ![r] = "idle"]
          /\ socket = <<>> => socket' = socket
          /\ socket # <<>> => socket' = Tail(socket) /\ recvBuf = NULL
      BY <2>4 DEF GetNothing
    <3>2. Held' = Held
      BY <3>1 DEF Held
    <3> QED
      BY <3>1, <3>2 DEF Mail!Lose, Mail!vars
  <2>5. ASSUME NEW r \in Readers, Receive(r)
        PROVE  Mail!Take(r)
    <3>1. /\ socket # <<>> /\ socket' = Tail(socket) /\ replies' = replies
          /\ recvBuf \in Buffers /\ recvBuf # NULL /\ recvBuf' = recvBuf
          /\ content' = [content EXCEPT ![recvBuf] = Head(socket)]
          /\ msg' = [msg EXCEPT ![r] = recvBuf]
          /\ pc[r] = "recv" /\ pc' = [pc EXCEPT ![r] = "pool"]
      BY <2>5 DEF Receive
    <3>2. \A q \in Readers \ {r} : pc[q] \in {"pool", "hold"} => msg[q] # recvBuf
      BY <3>1 DEF Locked, Apart, Serving
    <3>3. \A q \in Readers \ {r} : Held'[q] = Held[q]
      BY <3>1, <3>2 DEF Held
    <3>4. Held[r] = NULL /\ Held'[r] = Head(socket)
      BY <3>1 DEF Held
    <3>5. Held' = [Held EXCEPT ![r] = Head(socket)]
      BY <3>3, <3>4 DEF Held
    <3> QED
      BY <3>1, <3>4, <3>5 DEF Mail!Take
  <2>6. ASSUME NEW r \in Readers, NewBuffer(r)
        PROVE  Mail!Deafen \/ UNCHANGED Mail!vars
    <3>1. /\ UNCHANGED <<socket, replies, content, msg>>
          /\ pc[r] = "pool" /\ pc' = [pc EXCEPT ![r] = "hold"]
      BY <2>6 DEF NewBuffer
    <3>2. recvBuf # NULL
      BY <3>1, PortAssumption DEF Apart, Loaded, Serving
    <3>3. Held' = Held
      BY <3>1 DEF Held
    <3> QED
      BY <3>1, <3>2, <3>3 DEF Mail!Deafen, Mail!vars
  <2>7. ASSUME NEW r \in Readers, ReplyMsg(r)
        PROVE  Mail!Reply(r)
    <3>1. /\ UNCHANGED <<socket, recvBuf, content, msg>>
          /\ pc[r] = "hold" /\ pc' = [pc EXCEPT ![r] = "free"]
          /\ replies' = [replies EXCEPT ![content[msg[r]].from] = Append(@, content[msg[r]])]
      BY <2>7 DEF ReplyMsg
    <3>2. Held[r] = content[msg[r]] /\ Held[r] # NULL
      BY <3>1, PortAssumption DEF Held, Loaded, Serving
    <3>3. Held' = [Held EXCEPT ![r] = NULL]
      BY <3>1 DEF Held
    <3> QED
      BY <3>1, <3>2, <3>3 DEF Mail!Reply
  <2>8. CASE UNCHANGED vars
    BY <2>8, <2>a DEF vars, reading
  <2> QED
    BY <2>1, <2>2, <2>3, <2>4, <2>5, <2>6, <2>7, <2>8 DEF Next, ReaderStep, Mail!Next
<1> QED
  BY <1>1, <1>2, PortInvInit, PortInvStep, PTL DEF Spec, ImplementsMailbox, Mail!Spec
=============================================================================
