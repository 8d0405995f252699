-------------------------- MODULE ArixServerProofs --------------------------
(***************************************************************************)
(* What ArixServer guarantees for every number of processes, ports and     *)
(* names and every length of the kernel's queue.                           *)
(***************************************************************************)
EXTENDS ArixServer, TLAPS

USE ArixAssumption

\* AddPort, RemPort, FindPort and GetTempPath differ in their message only.
Call(c) == \E m \in Calls :
             /\ Begin(c, m)
             /\ m.op \in {"add", "rem"} =>
                  /\ m.port \in Ports /\ Owner[m.port] = c
                  /\ port[m.port] = "open"

LEMMA NextCases ==
  ASSUME TypeOK, Next
  PROVE  \/ \E p \in Ports : CreateMsgPort(p) \/ DeleteMsgPort(p)
         \/ \E c \in Clients : Call(c) \/ PutMsg(c) \/ GetReply(c) \/ Crash(c)
         \/ Serve \/ ReplyMsg \/ StopServer
<1>1. ASSUME NEW p \in Ports, AddPort(p) PROVE Call(Owner[p])
  <2> DEFINE m == [op |-> "add", port |-> p, name |-> SocketName(socket[p])]
  <2>1. m \in Calls
    BY DEF Calls, WireNames, TypeOK
  <2> QED
    BY <1>1, <2>1 DEF AddPort, Call
<1>2. ASSUME NEW p \in Ports, RemPort(p) PROVE Call(Owner[p])
  <2> DEFINE m == [op |-> "rem", port |-> p]
  <2>1. m \in Calls
    BY DEF Calls
  <2> QED
    BY <1>2, <2>1 DEF RemPort, Call
<1>3. ASSUME NEW c \in Clients, NEW n \in WireNames, FindPort(c, n)
      PROVE  Call(c)
  <2> DEFINE m == [op |-> "find", name |-> n]
  <2>1. m \in Calls
    BY DEF Calls
  <2> QED
    BY <1>3, <2>1 DEF FindPort, Call
<1>4. ASSUME NEW c \in Clients, GetTempPath(c) PROVE Call(c)
  <2> DEFINE m == [op |-> "path"]
  <2>1. m \in Calls
    BY DEF Calls
  <2> QED
    BY <1>4, <2>1 DEF GetTempPath, Call
<1>5. \A p \in Ports : Owner[p] \in Clients
  OBVIOUS
<1> QED
  BY <1>1, <1>2, <1>3, <1>4, <1>5 DEF Next

-----------------------------------------------------------------------------
\* Every variable keeps its type and the socket of the ARIX port its bound,
\* however requests, replies and deaths interleave.
THEOREM TypeCorrect == Spec => []TypeOK
<1>1. Init => TypeOK
  BY DEF Init, TypeOK, Listed, WireNames, Calls
<1>2. TypeOK /\ [Next]_vars => TypeOK'
  <2> SUFFICES ASSUME TypeOK, [Next]_vars PROVE TypeOK'
    OBVIOUS
  <2> USE DEF TypeOK, Listed, server, owners
  <2>1. ASSUME NEW p \in Ports, CreateMsgPort(p) PROVE TypeOK'
    BY <2>1 DEF CreateMsgPort
  <2>2. ASSUME NEW p \in Ports, DeleteMsgPort(p) PROVE TypeOK'
    BY <2>2 DEF DeleteMsgPort
  <2>3. ASSUME NEW c \in Clients, Call(c) PROVE TypeOK'
    BY <2>3 DEF Call, Begin
  <2>4. ASSUME NEW c \in Clients, PutMsg(c) PROVE TypeOK'
    BY <2>4 DEF PutMsg
  <2>5. ASSUME NEW c \in Clients, GetReply(c) PROVE TypeOK'
    <3>1. call[c].op \in {"add", "rem"} => call[c].port \in Ports
      BY DEF Calls, NoCall
    <3>2. advertised' \subseteq Ports
      BY <2>5, <3>1 DEF GetReply
    <3> QED
      BY <2>5, <3>2 DEF GetReply
  <2>6. ASSUME NEW c \in Clients, Crash(c) PROVE TypeOK'
    BY <2>6 DEF Crash
  <2>7. ASSUME Serve PROVE TypeOK'
    <3> DEFINE c == Head(queue)
               m == call[c]
    <3>1. c \in Clients /\ queue' \in Seq(Clients) /\ Len(queue') <= QueueLimit
      BY <2>7 DEF Serve
    <3>2. /\ m.op \in {"add", "rem"} => m.port \in Ports
          /\ m.op = "add" => m.name \in WireNames
      BY <3>1 DEF Calls, NoCall
    <3>3. Listed' \subseteq Ports /\ \A p \in Listed' : portList'[p] \in WireNames
      <4>1. CASE m.op = "add"
        BY <2>7, <3>2, <4>1 DEF Serve, PublicPortsAdd
      <4>2. CASE m.op = "rem"
        BY <2>7, <3>2, <4>2 DEF Serve, PublicPortsRem
      <4>3. CASE m.op \notin {"add", "rem"}
        BY <2>7, <4>3 DEF Serve, PublicPortsFind
      <4> QED
        BY <4>1, <4>2, <4>3
    <3>4. answer' \in [Clients -> BOOLEAN \cup Ports \cup {NoPort}]
      BY <2>7 DEF Serve
    <3> QED
      BY <2>7, <3>1, <3>3, <3>4 DEF Serve
  <2>8. ASSUME ReplyMsg PROVE TypeOK'
    BY <2>8 DEF ReplyMsg
  <2>9. ASSUME StopServer PROVE TypeOK'
    <3>1. <<>> \in Seq(Clients) /\ Len(<<>>) = 0
      OBVIOUS
    <3>2. queue' \in Seq(Clients) /\ Len(queue') <= QueueLimit
      BY <2>9, <3>1 DEF StopServer
    <3> QED
      BY <2>9, <3>2 DEF StopServer
  <2>10. CASE UNCHANGED vars
    BY <2>10 DEF vars
  <2> QED
    BY <2>1, <2>2, <2>3, <2>4, <2>5, <2>6, <2>7, <2>8, <2>9, <2>10, NextCases
<1> QED
  BY <1>1, <1>2, PTL DEF Spec

-----------------------------------------------------------------------------
\* Only messageLoop's handlers of AddPort and RemPort touch PublicPortList.
LEMMA ListChanges ==
  ASSUME TypeOK, [Next]_vars
  PROVE  \/ UNCHANGED portList
         \/ \E p \in Ports, n \in WireNames, a \in BOOLEAN : PublicPortsAdd(p, n, a)
         \/ \E p \in Ports : PublicPortsRem(p)
<1> USE DEF server, owners
<1>1. CASE Serve
  <2> DEFINE c == Head(queue)
             m == call[c]
  <2>1. c \in Clients
    BY <1>1 DEF Serve, TypeOK
  <2>2. /\ m.op \in {"add", "rem"} => m.port \in Ports
        /\ m.op = "add" => m.name \in WireNames
    BY <2>1 DEF TypeOK, Calls, NoCall
  <2> QED
    BY <1>1, <2>2 DEF Serve, PublicPortsAdd, PublicPortsFind
<1>2. ASSUME NEW p \in Ports, CreateMsgPort(p) \/ DeleteMsgPort(p)
      PROVE  UNCHANGED portList
  BY <1>2 DEF CreateMsgPort, DeleteMsgPort
<1>3. ASSUME NEW c \in Clients, Call(c) \/ PutMsg(c) \/ GetReply(c) \/ Crash(c)
      PROVE  UNCHANGED portList
  BY <1>3 DEF Call, Begin, PutMsg, GetReply, Crash
<1>4. CASE ReplyMsg \/ StopServer
  BY <1>4 DEF ReplyMsg, StopServer
<1>5. CASE UNCHANGED vars
  BY <1>5 DEF vars
<1> QED
  BY <1>1, <1>2, <1>3, <1>4, <1>5, NextCases

\* A name never stands for two ports, whatever any number of processes send.
THEOREM NamesAreUnique == Spec => []NamesUnique
<1>1. Init => NamesUnique
  BY DEF Init, NamesUnique, Listed
<1>2. TypeOK /\ NamesUnique /\ [Next]_vars => NamesUnique'
  <2> SUFFICES ASSUME TypeOK, NamesUnique, [Next]_vars PROVE NamesUnique'
    OBVIOUS
  <2> USE DEF NamesUnique, Listed
  <2>1. CASE UNCHANGED portList
    BY <2>1
  <2>2. ASSUME NEW p \in Ports, NEW n \in WireNames, NEW a \in BOOLEAN,
               PublicPortsAdd(p, n, a)
        PROVE  NamesUnique'
    BY <2>2 DEF PublicPortsAdd
  <2>3. ASSUME NEW p \in Ports, PublicPortsRem(p) PROVE NamesUnique'
    BY <2>3 DEF PublicPortsRem
  <2> QED
    BY <2>1, <2>2, <2>3, ListChanges
<1> QED
  BY <1>1, <1>2, TypeCorrect, PTL DEF Spec

-----------------------------------------------------------------------------
\* Who waits in the socket after a request is sent, and after one is taken.
LEMMA AfterAppend ==
  ASSUME TypeOK, NEW c \in Clients, queue' = Append(queue, c)
  PROVE  /\ Len(queue') = Len(queue) + 1
         /\ \A i \in 1..Len(queue) : queue'[i] = queue[i]
         /\ queue'[Len(queue) + 1] = c
         /\ \A d : InQueue(d)' <=> InQueue(d) \/ d = c
<1> USE DEF TypeOK
<1>1. /\ Len(queue') = Len(queue) + 1
      /\ \A i \in 1..Len(queue) : queue'[i] = queue[i]
      /\ queue'[Len(queue) + 1] = c
  OBVIOUS
<1>2. \A i \in 1..Len(queue') : i \in 1..Len(queue) \/ i = Len(queue) + 1
  BY <1>1
<1>3. \A d : InQueue(d)' <=> InQueue(d) \/ d = c
  BY <1>1, <1>2 DEF InQueue
<1> QED
  BY <1>1, <1>3

LEMMA AfterTail ==
  ASSUME TypeOK, OneMessage, queue # <<>>, queue' = Tail(queue)
  PROVE  /\ Head(queue) \in Clients /\ InQueue(Head(queue))
         /\ \A i, j \in 1..Len(queue') : queue'[i] = queue'[j] => i = j
         /\ \A d : InQueue(d)' <=> InQueue(d) /\ d # Head(queue)
<1> USE DEF TypeOK
<1>1. /\ Len(queue) \in Nat /\ Len(queue) >= 1 /\ Len(queue') = Len(queue) - 1
      /\ Head(queue) = queue[1] /\ Head(queue) \in Clients
      /\ \A i \in 1..Len(queue') : i + 1 \in 1..Len(queue) /\ queue'[i] = queue[i + 1]
  OBVIOUS
<1>2. \A i, j \in 1..Len(queue) : queue[i] = queue[j] => i = j
  BY DEF OneMessage
<1>3. \A i, j \in 1..Len(queue') : queue'[i] = queue'[j] => i = j
  BY <1>1, <1>2
<1>4. InQueue(Head(queue))
  BY <1>1 DEF InQueue
<1>5. ASSUME NEW d, InQueue(d)' PROVE InQueue(d) /\ d # Head(queue)
  <2>1. PICK i \in 1..Len(queue') : queue'[i] = d
    BY <1>5 DEF InQueue
  <2>2. i + 1 \in 1..Len(queue) /\ queue[i + 1] = d /\ 1 \in 1..Len(queue) /\ i + 1 # 1
    BY <1>1, <2>1
  <2> QED
    BY <1>1, <1>2, <2>2 DEF InQueue
<1>6. ASSUME NEW d, InQueue(d), d # Head(queue) PROVE InQueue(d)'
  <2>1. PICK i \in 1..Len(queue) : queue[i] = d
    BY <1>6 DEF InQueue
  <2>2. i # 1 /\ i - 1 \in 1..Len(queue')
    BY <1>1, <1>6, <2>1
  <2>3. queue'[i - 1] = d
    BY <1>1, <2>1, <2>2
  <2> QED
    BY <2>2, <2>3 DEF InQueue
<1> QED
  BY <1>1, <1>3, <1>4, <1>5, <1>6

-----------------------------------------------------------------------------
\* A call's message is in one place at a time: with its client, in the socket
\* of the ARIX port, with messageLoop, or in the socket of the reply port.
LEMMA OneMessageHolds == Spec => []OneMessage
<1>1. Init => OneMessage
  BY DEF Init, OneMessage, InQueue, Answered
<1>2. TypeOK /\ OneMessage /\ [Next]_vars => OneMessage'
  <2> SUFFICES ASSUME TypeOK, OneMessage, [Next]_vars PROVE OneMessage'
    OBVIOUS
  <2> USE DEF server, owners
  <2>1. CASE UNCHANGED <<queue, serving, replied, pc>>
    BY <2>1 DEF OneMessage, InQueue, Answered
  <2>2. ASSUME NEW p \in Ports, CreateMsgPort(p) \/ DeleteMsgPort(p)
        PROVE  OneMessage'
    BY <2>1, <2>2 DEF CreateMsgPort, DeleteMsgPort
  <2>3. ASSUME NEW c \in Clients, Call(c) PROVE OneMessage'
    <3>1. /\ UNCHANGED <<queue, serving, replied>>
          /\ pc[c] = "idle" /\ pc' = [pc EXCEPT ![c] = "send"]
      BY <2>3 DEF Call, Begin
    <3> QED
      BY <3>1 DEF OneMessage, InQueue, Answered, TypeOK
  <2>4. ASSUME NEW c \in Clients, PutMsg(c) PROVE OneMessage'
    <3>1. /\ UNCHANGED <<serving, replied>>
          /\ pc[c] = "send" /\ pc' = [pc EXCEPT ![c] = "wait"]
          /\ queue' = queue \/ queue' = Append(queue, c)
      BY <2>4 DEF PutMsg
    <3>2. ~InQueue(c) /\ ~Answered(c)
      BY <3>1 DEF OneMessage, Answered
    <3>3. CASE queue' = queue
      BY <3>1, <3>2, <3>3 DEF OneMessage, InQueue, Answered, TypeOK
    <3>4. CASE queue' = Append(queue, c)
      <4>1. \A i, j \in 1..Len(queue') : queue'[i] = queue'[j] => i = j
        BY <3>2, <3>4, AfterAppend DEF OneMessage, InQueue, TypeOK
      <4>2. ASSUME NEW d \in Clients
            PROVE  /\ InQueue(d)' => ~Answered(d)'
                   /\ ~(serving = d /\ d \in replied)'
                   /\ InQueue(d)' \/ serving' = d => pc'[d] \in {"wait", "gone"}
                   /\ d \in replied' => pc'[d] = "wait"
        BY <3>1, <3>2, <3>4, AfterAppend DEF OneMessage, Answered, TypeOK
      <4> QED
        BY <4>1, <4>2 DEF OneMessage
    <3> QED
      BY <3>1, <3>3, <3>4
  <2>5. ASSUME NEW c \in Clients, GetReply(c) PROVE OneMessage'
    <3>1. /\ UNCHANGED <<queue, serving>>
          /\ c \in replied /\ replied' = replied \ {c}
          /\ pc' = [pc EXCEPT ![c] = "idle"]
      BY <2>5 DEF GetReply
    <3> QED
      BY <3>1 DEF OneMessage, InQueue, Answered, TypeOK
  <2>6. ASSUME NEW c \in Clients, Crash(c) PROVE OneMessage'
    <3>1. /\ UNCHANGED <<queue, serving>>
          /\ replied' = replied \ {c}
          /\ pc' = [pc EXCEPT ![c] = "gone"]
      BY <2>6 DEF Crash
    <3> QED
      BY <3>1 DEF OneMessage, InQueue, Answered, TypeOK
  <2>7. CASE Serve
    <3>1. /\ serving = NoClient /\ queue # <<>> /\ queue' = Tail(queue)
          /\ serving' = Head(queue) /\ UNCHANGED <<replied, pc>>
      BY <2>7 DEF Serve
    <3>2. \A d \in Clients :
            /\ InQueue(d)' => ~Answered(d)'
            /\ ~(serving = d /\ d \in replied)'
            /\ InQueue(d)' \/ serving' = d => pc'[d] \in {"wait", "gone"}
            /\ d \in replied' => pc'[d] = "wait"
      BY <3>1, AfterTail DEF OneMessage, Answered
    <3> QED
      BY <3>1, <3>2, AfterTail DEF OneMessage
  <2>8. CASE ReplyMsg
    <3>1. /\ UNCHANGED <<queue, pc>> /\ serving # NoClient /\ serving' = NoClient
          /\ \/ replied' = replied
             \/ replied' = replied \cup {serving} /\ pc[serving] = "wait"
      BY <2>8 DEF ReplyMsg
    <3> QED
      BY <3>1 DEF OneMessage, InQueue, Answered, TypeOK
  <2>9. CASE StopServer
    <3>1. Len(queue') = 0 /\ serving' = NoClient /\ UNCHANGED <<replied, pc>>
      BY <2>9 DEF StopServer
    <3> QED
      BY <3>1 DEF OneMessage, InQueue, Answered
  <2>10. CASE UNCHANGED vars
    BY <2>1, <2>10 DEF vars
  <2> QED
    BY <2>2, <2>3, <2>4, <2>5, <2>6, <2>7, <2>8, <2>9, <2>10, NextCases
<1> QED
  BY <1>1, <1>2, TypeCorrect, PTL DEF Spec

-----------------------------------------------------------------------------
\* A port is added, removed or deleted by its owner only, and a call about a
\* port keeps it open until the call returns or its owner dies.
LEMMA OwnCallsHold == Spec => []OwnCalls
<1>1. Init => OwnCalls
  BY DEF Init, OwnCalls, NoCall
<1>2. TypeOK /\ OwnCalls /\ [Next]_vars => OwnCalls'
  <2> SUFFICES ASSUME TypeOK, OwnCalls, [Next]_vars PROVE OwnCalls'
    OBVIOUS
  <2> USE DEF server, owners
  <2>1. CASE UNCHANGED <<call, pc, port>>
    BY <2>1 DEF OwnCalls
  <2>2. ASSUME NEW p \in Ports, CreateMsgPort(p) \/ DeleteMsgPort(p)
        PROVE  OwnCalls'
    <3>1. /\ UNCHANGED <<call, pc>> /\ pc[Owner[p]] = "idle"
          /\ \A q \in Ports : q # p => port'[q] = port[q]
      BY <2>2 DEF CreateMsgPort, DeleteMsgPort, TypeOK
    <3> QED
      BY <3>1 DEF OwnCalls
  <2>3. ASSUME NEW c \in Clients, Call(c) PROVE OwnCalls'
    <3>1. PICK m \in Calls :
            /\ Begin(c, m)
            /\ m.op \in {"add", "rem"} =>
                 m.port \in Ports /\ Owner[m.port] = c /\ port[m.port] = "open"
      BY <2>3 DEF Call
    <3> QED
      BY <3>1 DEF Begin, OwnCalls, TypeOK
  <2>4. ASSUME NEW c \in Clients, PutMsg(c) PROVE OwnCalls'
    BY <2>4 DEF PutMsg, OwnCalls, TypeOK
  <2>5. ASSUME NEW c \in Clients, GetReply(c) PROVE OwnCalls'
    <3>1. /\ UNCHANGED port /\ call' = [call EXCEPT ![c] = NoCall]
          /\ pc' = [pc EXCEPT ![c] = "idle"]
      BY <2>5 DEF GetReply
    <3> QED
      BY <3>1 DEF OwnCalls, TypeOK, NoCall
  <2>6. ASSUME NEW c \in Clients, Crash(c) PROVE OwnCalls'
    BY <2>6 DEF Crash, OwnCalls, TypeOK
  <2>7. CASE Serve \/ ReplyMsg \/ StopServer
    BY <2>1, <2>7 DEF Serve, ReplyMsg, StopServer
  <2>8. CASE UNCHANGED vars
    BY <2>1, <2>8 DEF vars
  <2> QED
    BY <2>2, <2>3, <2>4, <2>5, <2>6, <2>7, <2>8, NextCases
<1> QED
  BY <1>1, <1>2, TypeCorrect, PTL DEF Spec

\* What messageLoop does with the request it takes, seen from the list.
LEMMA ServeChanges ==
  ASSUME TypeOK, OneMessage, OwnCalls, Serve
  PROVE  LET c == Head(queue)
             m == call[c]
         IN  /\ c \in Clients /\ InQueue(c) /\ serving' = c /\ serving = NoClient
             /\ up /\ UNCHANGED <<up, replied, owners, advertised, pc, call>>
             /\ \A d \in Clients : d # c => answer'[d] = answer[d]
             /\ m.op = "add" => /\ m.port \in Ports /\ Owner[m.port] = c
                               /\ \/ answer'[c] = TRUE /\ Listed' = Listed \cup {m.port}
                                     /\ m.port \notin Listed
                                  \/ answer'[c] = FALSE /\ Listed' = Listed
             /\ m.op = "rem" => /\ m.port \in Ports /\ Owner[m.port] = c
                               /\ Listed' = Listed \ {m.port}
             /\ m.op \notin {"add", "rem"} => Listed' = Listed
<1> DEFINE c == Head(queue)
           m == call[c]
<1> USE DEF server, owners
<1>1. /\ serving' = c /\ serving = NoClient /\ queue # <<>> /\ queue' = Tail(queue)
      /\ up /\ UNCHANGED <<up, replied, owners, advertised, pc, call>>
  BY DEF Serve
<1>2. c \in Clients /\ InQueue(c)
  BY <1>1, AfterTail
<1>3. m.op \in {"add", "rem"} => m.port \in Ports /\ Owner[m.port] = c
  BY <1>2 DEF OwnCalls
<1>4. PICK a \in BOOLEAN \cup Ports \cup {NoPort} :
        /\ answer' = [answer EXCEPT ![c] = a]
        /\ \/ m.op = "add"  /\ PublicPortsAdd(m.port, m.name, a)
           \/ m.op = "rem"  /\ PublicPortsRem(m.port) /\ a = TRUE
           \/ m.op = "find" /\ PublicPortsFind(m.name, a)
           \/ m.op = "path" /\ UNCHANGED portList /\ a = TRUE
  BY DEF Serve
<1>5. answer'[c] = a /\ \A d \in Clients : d # c => answer'[d] = answer[d]
  BY <1>2, <1>4 DEF TypeOK
<1>6. CASE m.op = "add"
  <2>1. PublicPortsAdd(m.port, m.name, a)
    BY <1>4, <1>6
  <2> QED
    BY <1>1, <1>2, <1>3, <1>5, <1>6, <2>1 DEF PublicPortsAdd, Listed
<1>7. CASE m.op = "rem"
  <2>1. PublicPortsRem(m.port)
    BY <1>4, <1>7
  <2> QED
    BY <1>1, <1>2, <1>3, <1>5, <1>7, <2>1 DEF PublicPortsRem, Listed
<1>8. CASE m.op \notin {"add", "rem"}
  <2>1. UNCHANGED portList
    BY <1>4, <1>8 DEF PublicPortsFind
  <2> QED
    BY <1>1, <1>2, <1>5, <1>8, <2>1 DEF Listed
<1> QED
  BY <1>6, <1>7, <1>8

-----------------------------------------------------------------------------
\* What messageLoop answers to AddPort and RemPort is still so when the owner
\* reads it: nobody else changes the listing of that port in between.
LEMMA AnswersHoldAlways == Spec => []AnswersHold
<1>1. Init => AnswersHold
  BY DEF Init, AnswersHold, Answered
<1>2. TypeOK /\ OneMessage /\ OwnCalls /\ AnswersHold /\ [Next]_vars => AnswersHold'
  <2> SUFFICES ASSUME TypeOK, OneMessage, OwnCalls, AnswersHold, [Next]_vars
               PROVE  AnswersHold'
    OBVIOUS
  <2> USE DEF server, owners, Listed
  <2>1. CASE UNCHANGED <<up, serving, replied, pc, call, answer, portList>>
    BY <2>1 DEF AnswersHold, Answered
  <2>2. ASSUME NEW p \in Ports, CreateMsgPort(p) \/ DeleteMsgPort(p)
        PROVE  AnswersHold'
    BY <2>1, <2>2 DEF CreateMsgPort, DeleteMsgPort
  <2>3. ASSUME NEW c \in Clients, Call(c) PROVE AnswersHold'
    <3>1. PICK m \in Calls :
            /\ UNCHANGED <<up, serving, replied, answer, portList>>
            /\ pc' = [pc EXCEPT ![c] = "send"] /\ call' = [call EXCEPT ![c] = m]
      BY <2>3 DEF Call, Begin
    <3> QED
      BY <3>1 DEF AnswersHold, Answered, TypeOK
  <2>4. ASSUME NEW c \in Clients, PutMsg(c) PROVE AnswersHold'
    <3>1. /\ UNCHANGED <<up, serving, replied, call, answer, portList>>
          /\ pc[c] = "send" /\ pc' = [pc EXCEPT ![c] = "wait"]
      BY <2>4 DEF PutMsg
    <3>2. ~Answered(c)
      BY <3>1 DEF OneMessage, Answered
    <3> QED
      BY <3>1, <3>2 DEF AnswersHold, Answered, TypeOK
  <2>5. ASSUME NEW c \in Clients, GetReply(c) PROVE AnswersHold'
    <3>1. /\ UNCHANGED <<up, serving, portList>> /\ replied' = replied \ {c}
          /\ pc' = [pc EXCEPT ![c] = "idle"]
          /\ \A d \in Clients : d # c => call'[d] = call[d] /\ answer'[d] = answer[d]
      BY <2>5 DEF GetReply, TypeOK
    <3> QED
      BY <3>1 DEF AnswersHold, Answered, TypeOK
  <2>6. ASSUME NEW c \in Clients, Crash(c) PROVE AnswersHold'
    <3>1. /\ UNCHANGED <<up, serving, portList, call, answer>>
          /\ replied' = replied \ {c} /\ pc' = [pc EXCEPT ![c] = "gone"]
      BY <2>6 DEF Crash
    <3> QED
      BY <3>1 DEF AnswersHold, Answered, TypeOK
  <2>7. CASE Serve
    <3> DEFINE h == Head(queue)
    <3>1. ASSUME NEW c \in Clients, Answered(c)', pc'[c] = "wait"
          PROVE  /\ call'[c].op = "add" /\ answer'[c] = TRUE => call'[c].port \in Listed'
                 /\ call'[c].op = "rem" => call'[c].port \notin Listed'
      <4>1. CASE c = h
        BY <2>7, <4>1, ServeChanges
      <4>2. CASE c # h
        <5>1. /\ up /\ UNCHANGED <<call, pc, replied>> /\ answer'[c] = answer[c]
              /\ Answered(c)
          BY <2>7, <3>1, <4>2, ServeChanges DEF Answered
        <5>2. /\ call[c].op = "add" /\ answer[c] = TRUE => call[c].port \in Listed
              /\ call[c].op = "rem" => call[c].port \notin Listed
          BY <3>1, <5>1 DEF AnswersHold
        <5>3. call[c].op \in {"add", "rem"} => Owner[call[c].port] = c
          BY DEF OwnCalls
        <5>4. \A p : Owner[p] = c => (p \in Listed' <=> p \in Listed)
          BY <2>7, <4>2, ServeChanges
        <5> QED
          BY <5>1, <5>2, <5>3, <5>4
      <4> QED
        BY <4>1, <4>2
    <3> QED
      BY <3>1 DEF AnswersHold
  <2>8. CASE ReplyMsg
    <3>1. /\ UNCHANGED <<up, pc, call, answer, portList>>
          /\ \A d \in Clients : Answered(d)' => Answered(d)
      BY <2>8 DEF ReplyMsg, Answered, TypeOK
    <3> QED
      BY <3>1 DEF AnswersHold
  <2>9. CASE StopServer
    BY <2>9 DEF StopServer, AnswersHold
  <2>10. CASE UNCHANGED vars
    BY <2>1, <2>10 DEF vars
  <2> QED
    BY <2>2, <2>3, <2>4, <2>5, <2>6, <2>7, <2>8, <2>9, <2>10, NextCases
<1> QED
  BY <1>1, <1>2, TypeCorrect, OneMessageHolds, OwnCallsHold, PTL DEF Spec

-----------------------------------------------------------------------------
\* A port that AddPort reported as published stays in the list until its owner
\* removes it, dies, or ARIX ends: no other process can take it out.
THEOREM AdvertisedStayListed == Spec => []AdvertisedIsListed
<1>1. Init => AdvertisedIsListed
  BY DEF Init, AdvertisedIsListed
<1>2. /\ TypeOK /\ OneMessage /\ OwnCalls /\ AnswersHold /\ AdvertisedIsListed
      /\ [Next]_vars
      => AdvertisedIsListed'
  <2> SUFFICES ASSUME TypeOK, OneMessage, OwnCalls, AnswersHold,
                      AdvertisedIsListed, [Next]_vars
               PROVE  AdvertisedIsListed'
    OBVIOUS
  <2> USE DEF server, owners, Listed
  <2>0. \A p \in advertised : Owner[p] \in Clients
    BY DEF TypeOK
  <2>1. CASE UNCHANGED <<up, advertised, pc, call, portList>>
    BY <2>1 DEF AdvertisedIsListed, Removing
  <2>2. ASSUME NEW p \in Ports, CreateMsgPort(p) \/ DeleteMsgPort(p)
        PROVE  AdvertisedIsListed'
    BY <2>1, <2>2 DEF CreateMsgPort, DeleteMsgPort
  <2>3. ASSUME NEW c \in Clients, Call(c) PROVE AdvertisedIsListed'
    <3>1. PICK m \in Calls :
            /\ UNCHANGED <<up, advertised, portList>> /\ pc[c] = "idle"
            /\ pc' = [pc EXCEPT ![c] = "send"] /\ call' = [call EXCEPT ![c] = m]
      BY <2>3 DEF Call, Begin
    <3> QED
      BY <2>0, <3>1 DEF AdvertisedIsListed, Removing, TypeOK
  <2>4. ASSUME NEW c \in Clients, PutMsg(c) PROVE AdvertisedIsListed'
    <3>1. /\ UNCHANGED <<up, advertised, portList, call>>
          /\ pc[c] = "send" /\ pc' = [pc EXCEPT ![c] = "wait"]
      BY <2>4 DEF PutMsg
    <3> QED
      BY <2>0, <3>1 DEF AdvertisedIsListed, Removing, TypeOK
  <2>5. ASSUME NEW c \in Clients, GetReply(c) PROVE AdvertisedIsListed'
    <3>1. /\ UNCHANGED <<up, portList>> /\ pc' = [pc EXCEPT ![c] = "idle"]
          /\ c \in replied /\ pc[c] = "wait"
          /\ call' = [call EXCEPT ![c] = NoCall]
      BY <2>5 DEF GetReply
    <3>2. /\ call[c].op = "add" /\ answer[c] = TRUE
                => advertised' = advertised \cup {call[c].port}
          /\ call[c].op = "rem" => advertised' = advertised \ {call[c].port}
          /\ ~(call[c].op = "add" /\ answer[c] = TRUE) /\ call[c].op # "rem"
                => advertised' = advertised
      BY <2>5, Zenon DEF GetReply
    <3>3. up /\ call[c].op = "add" /\ answer[c] = TRUE => call[c].port \in Listed
      BY <3>1 DEF AnswersHold, Answered
    <3>4. ASSUME up, NEW p \in advertised'
          PROVE  p \in Listed \/ Removing(p)' \/ pc'[Owner[p]] = "gone"
      <4>1. CASE p \notin advertised
        BY <3>2, <3>3, <3>4, <4>1
      <4>2. CASE p \in advertised /\ Owner[p] # c
        BY <2>0, <3>1, <3>4, <4>2 DEF AdvertisedIsListed, Removing, TypeOK
      <4>3. CASE p \in advertised /\ Owner[p] = c
        <5>1. ~Removing(p)
          BY <3>2, <3>4, <4>3 DEF Removing
        <5> QED
          BY <3>1, <3>4, <4>3, <5>1 DEF AdvertisedIsListed
      <4> QED
        BY <4>1, <4>2, <4>3
    <3> QED
      BY <3>1, <3>4 DEF AdvertisedIsListed
  <2>6. ASSUME NEW c \in Clients, Crash(c) PROVE AdvertisedIsListed'
    <3>1. /\ UNCHANGED <<up, advertised, portList, call>>
          /\ pc' = [pc EXCEPT ![c] = "gone"]
      BY <2>6 DEF Crash
    <3> QED
      BY <2>0, <3>1 DEF AdvertisedIsListed, Removing, TypeOK
  <2>7. CASE Serve
    <3> DEFINE h == Head(queue)
    <3>1. /\ up /\ UNCHANGED <<advertised, pc, call>> /\ h \in Clients
          /\ pc[h] \in {"wait", "gone"}
      BY <2>7, ServeChanges DEF OneMessage, owners
    <3>2. ASSUME NEW p \in advertised, p \in Listed, p \notin Listed'
          PROVE  Removing(p) \/ pc[Owner[p]] = "gone"
      BY <2>7, <3>1, <3>2, ServeChanges DEF Removing
    <3> QED
      BY <3>1, <3>2 DEF AdvertisedIsListed, Removing
  <2>8. CASE ReplyMsg
    BY <2>1, <2>8 DEF ReplyMsg
  <2>9. CASE StopServer
    BY <2>9 DEF StopServer, AdvertisedIsListed
  <2>10. CASE UNCHANGED vars
    BY <2>1, <2>10 DEF vars
  <2> QED
    BY <2>2, <2>3, <2>4, <2>5, <2>6, <2>7, <2>8, <2>9, <2>10, NextCases
<1> QED
  BY <1>1, <1>2, TypeCorrect, OneMessageHolds, OwnCallsHold, AnswersHoldAlways,
     PTL DEF Spec

-----------------------------------------------------------------------------
\* What is listed for a living owner is what it was told, or is about to be.
LEMMA ListedIsKnownAlways == Spec => []ListedIsKnown
<1>1. Init => ListedIsKnown
  BY DEF Init, ListedIsKnown, Listed
<1>2. /\ TypeOK /\ OneMessage /\ OwnCalls /\ AnswersHold /\ ListedIsKnown
      /\ [Next]_vars
      => ListedIsKnown'
  <2> SUFFICES ASSUME TypeOK, OneMessage, OwnCalls, AnswersHold,
                      ListedIsKnown, [Next]_vars
               PROVE  ListedIsKnown'
    OBVIOUS
  <2> USE DEF server, owners, Listed
  <2>0. \A p \in Listed : Owner[p] \in Clients
    BY DEF TypeOK
  <2>1. CASE UNCHANGED <<up, portList, advertised, pc, call, answer, serving, replied>>
    BY <2>1 DEF ListedIsKnown, Answered
  <2>2. ASSUME NEW p \in Ports, CreateMsgPort(p) \/ DeleteMsgPort(p)
        PROVE  ListedIsKnown'
    BY <2>1, <2>2 DEF CreateMsgPort, DeleteMsgPort
  <2>3. ASSUME NEW c \in Clients, Call(c) PROVE ListedIsKnown'
    <3>1. PICK m \in Calls :
            /\ UNCHANGED <<up, portList, advertised, answer, serving, replied>>
            /\ pc[c] = "idle" /\ pc' = [pc EXCEPT ![c] = "send"]
            /\ call' = [call EXCEPT ![c] = m]
      BY <2>3 DEF Call, Begin
    <3>2. ~Answered(c)
      BY <3>1 DEF OneMessage, Answered
    <3> QED
      BY <2>0, <3>1, <3>2 DEF ListedIsKnown, Answered, TypeOK
  <2>4. ASSUME NEW c \in Clients, PutMsg(c) PROVE ListedIsKnown'
    <3>1. /\ UNCHANGED <<up, portList, advertised, call, answer, serving, replied>>
          /\ pc[c] = "send" /\ pc' = [pc EXCEPT ![c] = "wait"]
      BY <2>4 DEF PutMsg
    <3> QED
      BY <2>0, <3>1 DEF ListedIsKnown, Answered, TypeOK
  <2>5. ASSUME NEW c \in Clients, GetReply(c) PROVE ListedIsKnown'
    <3>1. /\ UNCHANGED <<up, portList, serving>> /\ replied' = replied \ {c}
          /\ c \in replied /\ pc[c] = "wait" /\ pc' = [pc EXCEPT ![c] = "idle"]
          /\ \A d \in Clients : d # c => call'[d] = call[d] /\ answer'[d] = answer[d]
      BY <2>5 DEF GetReply, TypeOK
    <3>2. /\ call[c].op = "add" /\ answer[c] = TRUE
                => advertised' = advertised \cup {call[c].port}
          /\ call[c].op = "rem" => advertised' = advertised \ {call[c].port}
          /\ ~(call[c].op = "add" /\ answer[c] = TRUE) /\ call[c].op # "rem"
                => advertised' = advertised
      BY <2>5, Zenon DEF GetReply
    <3>3. up /\ call[c].op = "rem" => call[c].port \notin Listed
      BY <3>1 DEF AnswersHold, Answered
    <3>4. ASSUME up, NEW p \in Listed, pc[Owner[p]] # "gone"
          PROVE  \/ p \in advertised'
                 \/ /\ Answered(Owner[p])' /\ answer'[Owner[p]] = TRUE
                    /\ call'[Owner[p]].op = "add" /\ call'[Owner[p]].port = p
      <4>1. CASE p \in advertised
        BY <3>2, <3>3, <3>4, <4>1
      <4>2. CASE p \notin advertised
        <5>1. /\ Answered(Owner[p]) /\ answer[Owner[p]] = TRUE
              /\ call[Owner[p]].op = "add" /\ call[Owner[p]].port = p
          BY <3>4, <4>2 DEF ListedIsKnown
        <5>2. CASE Owner[p] = c
          BY <3>2, <5>1, <5>2
        <5>3. CASE Owner[p] # c
          BY <2>0, <3>1, <5>1, <5>3 DEF Answered
        <5> QED
          BY <5>2, <5>3
      <4> QED
        BY <4>1, <4>2
    <3>5. \A p \in Listed : pc[Owner[p]] = "gone" => pc'[Owner[p]] = "gone"
      BY <2>0, <3>1 DEF TypeOK
    <3> QED
      BY <3>1, <3>4, <3>5 DEF ListedIsKnown
  <2>6. ASSUME NEW c \in Clients, Crash(c) PROVE ListedIsKnown'
    <3>1. /\ UNCHANGED <<up, portList, advertised, call, answer, serving>>
          /\ replied' = replied \ {c} /\ pc' = [pc EXCEPT ![c] = "gone"]
      BY <2>6 DEF Crash
    <3> QED
      BY <2>0, <3>1 DEF ListedIsKnown, Answered, TypeOK
  <2>7. CASE Serve
    <3>0. PICK h \in Clients : h = Head(queue)
      BY <2>7, ServeChanges
    <3>1. /\ up /\ UNCHANGED <<advertised, pc, call, replied>>
          /\ serving' = h /\ serving = NoClient /\ InQueue(h)
          /\ \A d \in Clients : d # h => answer'[d] = answer[d]
      BY <2>7, <3>0, ServeChanges
    <3>2. ~Answered(h) /\ \A d \in Clients : Answered(d) => Answered(d)'
      BY <3>1 DEF OneMessage, Answered
    <3>3. ASSUME NEW p \in Listed', p \notin Listed
          PROVE  /\ Answered(Owner[p])' /\ answer'[Owner[p]] = TRUE
                 /\ call'[Owner[p]].op = "add" /\ call'[Owner[p]].port = p
      <4>1. /\ call[h].op = "add" /\ call[h].port = p /\ Owner[p] = h
            /\ answer'[h] = TRUE
        BY <2>7, <3>0, <3>3, ServeChanges
      <4>2. Answered(h)'
        BY <3>1 DEF Answered
      <4> QED
        BY <3>1, <4>1, <4>2
    <3>4. ASSUME NEW p \in Listed, Answered(Owner[p]), answer[Owner[p]] = TRUE
          PROVE  Answered(Owner[p])' /\ answer'[Owner[p]] = TRUE
      BY <2>0, <3>1, <3>2, <3>4
    <3> QED
      BY <3>1, <3>3, <3>4 DEF ListedIsKnown
  <2>8. CASE ReplyMsg
    <3>1. /\ UNCHANGED <<up, portList, advertised, pc, call, answer>>
          /\ \A d \in Clients : Answered(d) /\ pc[d] # "gone" => Answered(d)'
      BY <2>8 DEF ReplyMsg, Answered, OneMessage
    <3> QED
      BY <2>0, <3>1 DEF ListedIsKnown
  <2>9. CASE StopServer
    BY <2>9 DEF StopServer, ListedIsKnown
  <2>10. CASE UNCHANGED vars
    BY <2>1, <2>10 DEF vars
  <2> QED
    BY <2>2, <2>3, <2>4, <2>5, <2>6, <2>7, <2>8, <2>9, <2>10, NextCases
<1> QED
  BY <1>1, <1>2, TypeCorrect, OneMessageHolds, OwnCallsHold, AnswersHoldAlways,
     PTL DEF Spec

\* FindPort never leads to a port that was deleted, unless its owner died.
THEOREM ListedPortsAreOpen == Spec => []ListedIsOpen
<1>1. Init => ListedIsOpen
  BY DEF Init, ListedIsOpen, Listed
<1>2. /\ TypeOK /\ OneMessage /\ OwnCalls /\ ListedIsKnown /\ ListedIsOpen
      /\ [Next]_vars
      => ListedIsOpen'
  <2> SUFFICES ASSUME TypeOK, OneMessage, OwnCalls, ListedIsKnown,
                      ListedIsOpen, [Next]_vars
               PROVE  ListedIsOpen'
    OBVIOUS
  <2> USE DEF server, owners, Listed
  <2>0. \A p \in Listed : p \in Ports /\ Owner[p] \in Clients
    BY DEF TypeOK
  <2>1. CASE UNCHANGED <<up, portList, port, pc>>
    BY <2>1 DEF ListedIsOpen
  <2>2. ASSUME NEW p \in Ports, CreateMsgPort(p) PROVE ListedIsOpen'
    <3>1. UNCHANGED <<up, portList, pc>> /\ port' = [port EXCEPT ![p] = "open"]
      BY <2>2 DEF CreateMsgPort
    <3> QED
      BY <2>0, <3>1 DEF ListedIsOpen, TypeOK
  <2>3. ASSUME NEW p \in Ports, DeleteMsgPort(p) PROVE ListedIsOpen'
    <3>1. /\ UNCHANGED <<up, portList, pc>> /\ port' = [port EXCEPT ![p] = "deleted"]
          /\ pc[Owner[p]] = "idle" /\ p \notin advertised /\ Owner[p] \in Clients
      BY <2>3 DEF DeleteMsgPort
    <3>2. ~Answered(Owner[p])
      BY <3>1 DEF OneMessage, Answered
    <3>3. up => p \notin Listed
      BY <3>1, <3>2 DEF ListedIsKnown
    <3> QED
      BY <2>0, <3>1, <3>3 DEF ListedIsOpen, TypeOK
  <2>4. ASSUME NEW c \in Clients, Call(c) \/ PutMsg(c) \/ GetReply(c)
        PROVE  ListedIsOpen'
    <3>1. /\ UNCHANGED <<up, portList, port>> /\ pc[c] # "gone"
          /\ \A d \in Clients : d # c => pc'[d] = pc[d]
      BY <2>4 DEF Call, Begin, PutMsg, GetReply, TypeOK
    <3> QED
      BY <2>0, <3>1 DEF ListedIsOpen
  <2>5. ASSUME NEW c \in Clients, Crash(c) PROVE ListedIsOpen'
    <3>1. /\ UNCHANGED <<up, portList>> /\ pc' = [pc EXCEPT ![c] = "gone"]
          /\ port' = [p \in Ports |-> IF Owner[p] = c THEN "deleted" ELSE port[p]]
      BY <2>5 DEF Crash
    <3> QED
      BY <2>0, <3>1 DEF ListedIsOpen, TypeOK
  <2>6. CASE Serve
    <3> DEFINE h == Head(queue)
    <3>1. /\ up /\ UNCHANGED <<up, port, pc>> /\ h \in Clients /\ InQueue(h)
      BY <2>6, ServeChanges
    <3>2. call[h].op = "add" => port[call[h].port] = "open" \/ pc[h] = "gone"
      BY <3>1 DEF OneMessage, OwnCalls
    <3>3. ASSUME NEW p \in Listed', p \notin Listed
          PROVE  port[p] = "open" \/ pc[Owner[p]] = "gone"
      BY <2>6, <3>2, <3>3, ServeChanges
    <3> QED
      BY <3>1, <3>3 DEF ListedIsOpen
  <2>7. CASE ReplyMsg
    BY <2>1, <2>7 DEF ReplyMsg
  <2>8. CASE StopServer
    BY <2>8 DEF StopServer, ListedIsOpen
  <2>9. CASE UNCHANGED vars
    BY <2>1, <2>9 DEF vars
  <2> QED
    BY <2>2, <2>3, <2>4, <2>5, <2>6, <2>7, <2>8, <2>9, NextCases
<1> QED
  BY <1>1, <1>2, TypeCorrect, OneMessageHolds, OwnCallsHold, ListedIsKnownAlways,
     PTL DEF Spec

-----------------------------------------------------------------------------
\* A step that changes at most client c's status, and neither the list nor
\* what is asked and answered elsewhere, in the terms of PortRegistry.
LEMMA StatusOfOthers ==
  ASSUME NEW c \in Clients,
         \A d \in Clients \ {c} : (pc[d] = pc'[d]) /\ (InQueue(d)' <=> InQueue(d))
                                   /\ (Answered(d)' <=> Answered(d))
  PROVE  status' = [status EXCEPT ![c] = status'[c]]
BY DEF status

\* Every step of the clients and of messageLoop is a step of the abstract
\* list or invisible to it: the public-port calls are linearizable.
THEOREM ServerImplementsRegistry == Spec => ImplementsRegistry
<1>1. Init => Registry!Init
  BY DEF Init, Registry!Init, list, status, Listed, InQueue, Answered
<1>2. TypeOK /\ OneMessage /\ OwnCalls /\ [Next]_vars
        => [Registry!Next /\ Registry!Steady]_(Registry!vars)
  <2> SUFFICES ASSUME TypeOK, OneMessage, OwnCalls, [Next]_vars
               PROVE  (Registry!Next /\ Registry!Steady) \/ UNCHANGED Registry!vars
    OBVIOUS
  <2> USE DEF server, owners
  <2>0. status = [c \in Clients |-> status[c]] /\ status' = [c \in Clients |-> status'[c]]
    BY DEF status
  <2>1. CASE UNCHANGED <<portList, pc, queue, serving, replied, call, answer>>
    <3>1. UNCHANGED status
      BY <2>1 DEF status, InQueue, Answered
    <3>2. UNCHANGED list
      BY <2>1 DEF list, Listed
    <3> QED
      BY <2>1, <3>1, <3>2 DEF Registry!vars
  <2>2. ASSUME NEW p \in Ports, CreateMsgPort(p) \/ DeleteMsgPort(p)
        PROVE  UNCHANGED Registry!vars
    <3>1. UNCHANGED <<portList, pc, queue, serving, replied, call, answer>>
      BY <2>2 DEF CreateMsgPort, DeleteMsgPort
    <3>2. UNCHANGED status
      BY <3>1 DEF status, InQueue, Answered
    <3> QED
      BY <3>1, <3>2 DEF Registry!vars, list, Listed
  <2>3. ASSUME NEW c \in Clients, Call(c) PROVE Registry!Next /\ Registry!Steady
    <3>1. PICK m \in Calls :
            /\ UNCHANGED <<portList, queue, serving, replied, answer>>
            /\ pc[c] = "idle" /\ pc' = [pc EXCEPT ![c] = "send"]
            /\ call' = [call EXCEPT ![c] = m]
      BY <2>3 DEF Call, Begin
    <3>2. UNCHANGED list
      BY <3>1 DEF list, Listed
    <3>3. status[c] = "none" /\ status'[c] = "asked"
      BY <3>1 DEF status, OneMessage, TypeOK, Answered
    <3>4. status' = [status EXCEPT ![c] = "asked"]
      BY <3>1, <3>3, StatusOfOthers DEF TypeOK, InQueue, Answered
    <3>5. Registry!Ask(c)
      BY <3>2, <3>3, <3>4 DEF Registry!Ask
    <3>6. Registry!Steady
      BY <3>1, <3>3 DEF Registry!Steady, TypeOK
    <3> QED
      BY <3>5, <3>6 DEF Registry!Next
  <2>4. ASSUME UNCHANGED <<call, answer, portList>>, NEW S \in SUBSET Clients,
               \A d \in Clients : status'[d] = IF d \in S THEN "lost" ELSE status[d]
        PROVE  Registry!Next /\ Registry!Steady
    <3>1. UNCHANGED list
      BY <2>4 DEF list, Listed
    <3>2. status' = [d \in Clients |-> IF d \in S THEN "lost" ELSE status[d]]
      BY <2>0, <2>4
    <3> QED
      BY <2>4, <3>1, <3>2 DEF Registry!Next, Registry!Lose, Registry!Steady
  <2>5. ASSUME UNCHANGED <<call, answer, portList>>,
                \A d \in Clients : status'[d] = status[d]
         PROVE  UNCHANGED Registry!vars
    <3>1. UNCHANGED list
      BY <2>5 DEF list, Listed
    <3>2. UNCHANGED status
      BY <2>0, <2>5
    <3> QED
      BY <2>5, <3>1, <3>2 DEF Registry!vars
  <2>6. ASSUME NEW c \in Clients, PutMsg(c)
        PROVE  (Registry!Next /\ Registry!Steady) \/ UNCHANGED Registry!vars
    <3>1. /\ UNCHANGED <<portList, serving, replied, call, answer>>
          /\ pc[c] = "send" /\ pc' = [pc EXCEPT ![c] = "wait"]
          /\ queue' = queue \/ queue' = Append(queue, c)
      BY <2>6 DEF PutMsg
    <3>2. ~InQueue(c) /\ ~Answered(c)
      BY <3>1 DEF OneMessage, Answered
    <3>3. status[c] = "asked"
      BY <3>1 DEF status
    <3>4. CASE queue' = queue
      <4>1. status'[c] = "lost"
        BY <3>1, <3>2, <3>4 DEF status, InQueue, Answered, TypeOK
      <4>2. \A d \in Clients : status'[d] = IF d \in {c} THEN "lost" ELSE status[d]
        BY <3>1, <3>4, <4>1 DEF status, InQueue, Answered, TypeOK
      <4> QED
        BY <2>4, <3>1, <4>2
    <3>5. CASE queue' = Append(queue, c)
      <4>1. \A d \in Clients : InQueue(d)' <=> InQueue(d) \/ d = c
        BY <3>5, AfterAppend
      <4>2. \A d \in Clients : status'[d] = status[d]
        BY <3>1, <3>3, <4>1 DEF status, Answered, TypeOK
      <4> QED
        BY <2>5, <3>1, <4>2
    <3> QED
      BY <3>1, <3>4, <3>5
  <2>7. ASSUME NEW c \in Clients, GetReply(c) PROVE Registry!Next /\ Registry!Steady
    <3>1. /\ UNCHANGED <<portList, queue, serving>>
          /\ pc[c] = "wait" /\ pc' = [pc EXCEPT ![c] = "idle"]
          /\ c \in replied /\ replied' = replied \ {c}
          /\ \A d \in Clients : d # c => call'[d] = call[d] /\ answer'[d] = answer[d]
      BY <2>7 DEF GetReply, TypeOK
    <3>2. UNCHANGED list
      BY <3>1 DEF list, Listed
    <3>3. ~InQueue(c) /\ serving # c
      BY <3>1 DEF OneMessage, Answered
    <3>4. status[c] = "answered" /\ status'[c] = "none"
      BY <3>1, <3>3 DEF status, Answered, InQueue, TypeOK
    <3>5. status' = [status EXCEPT ![c] = "none"]
      BY <3>1, <3>4, StatusOfOthers DEF TypeOK, InQueue, Answered
    <3>6. Registry!Return(c)
      BY <3>2, <3>4, <3>5 DEF Registry!Return
    <3>7. Registry!Steady
      BY <3>1, <3>4 DEF Registry!Steady
    <3> QED
      BY <3>6, <3>7 DEF Registry!Next
  <2>8. ASSUME NEW c \in Clients, Crash(c)
        PROVE  (Registry!Next /\ Registry!Steady) \/ UNCHANGED Registry!vars
    <3>1. /\ UNCHANGED <<portList, queue, serving, call, answer>>
          /\ pc' = [pc EXCEPT ![c] = "gone"] /\ replied' = replied \ {c}
      BY <2>8 DEF Crash
    <3>2. \A d \in Clients : d # c => status'[d] = status[d]
      BY <3>1 DEF status, InQueue, Answered, TypeOK
    <3>3. status'[c] = "lost" \/ status'[c] = status[c]
      <4>1. CASE InQueue(c) \/ serving = c
        BY <3>1, <4>1 DEF status, InQueue, Answered, TypeOK, OneMessage
      <4>2. CASE ~InQueue(c) /\ serving # c
        BY <3>1, <4>2 DEF status, InQueue, Answered, TypeOK
      <4> QED
        BY <4>1, <4>2
    <3>4. CASE status'[c] = "lost"
      <4>1. \A d \in Clients : status'[d] = IF d \in {c} THEN "lost" ELSE status[d]
        BY <3>2, <3>4
      <4> QED
        BY <2>4, <3>1, <4>1
    <3>5. CASE status'[c] = status[c]
      <4>1. \A d \in Clients : status'[d] = status[d]
        BY <3>2, <3>5
      <4> QED
        BY <2>5, <3>1, <4>1
    <3> QED
      BY <3>3, <3>4, <3>5
  <2>9. CASE Serve
    <3>1. PICK h \in Clients : h = Head(queue)
      BY <2>9, ServeChanges
    <3>2. /\ UNCHANGED <<pc, call, replied>> /\ serving = NoClient /\ serving' = h
          /\ InQueue(h) /\ queue # <<>> /\ queue' = Tail(queue)
          /\ \A d \in Clients : d # h => answer'[d] = answer[d]
      BY <2>9, <3>1, ServeChanges DEF Serve
    <3>3. \A d \in Clients : InQueue(d)' <=> InQueue(d) /\ d # h
      BY <3>1, <3>2, AfterTail
    <3>4. pc[h] \in {"wait", "gone"} /\ Answered(h)'
      BY <3>2 DEF OneMessage, Answered
    <3>5. status[h] = "asked" /\ status'[h] = "answered"
      BY <3>2, <3>3, <3>4 DEF status
    <3>6. status' = [status EXCEPT ![h] = "answered"]
      <4>1. \A d \in Clients \ {h} : Answered(d)' <=> Answered(d)
        BY <3>2 DEF Answered
      <4> QED
        BY <3>2, <3>3, <3>5, <4>1, StatusOfOthers
    <3>7. PICK a \in BOOLEAN \cup Ports \cup {NoPort} :
            /\ answer' = [answer EXCEPT ![h] = a]
            /\ \/ call[h].op = "add"  /\ PublicPortsAdd(call[h].port, call[h].name, a)
               \/ call[h].op = "rem"  /\ PublicPortsRem(call[h].port) /\ a = TRUE
               \/ call[h].op = "find" /\ PublicPortsFind(call[h].name, a)
               \/ call[h].op = "path" /\ UNCHANGED portList /\ a = TRUE
      BY <2>9, <3>1 DEF Serve
    <3>8. answer'[h] = a
      BY <3>7 DEF TypeOK
    <3>9. ASSUME NEW p, NEW n, PublicPortsAdd(p, n, a)
          PROVE  Registry!AddPort(p, n, a)
      <4>1. CASE p \notin Listed /\ \A q \in Listed : portList[q] # n
        <5>1. /\ a = TRUE /\ Listed' = Listed \cup {p} /\ portList'[p] = n
              /\ \A q \in Listed : portList'[q] = portList[q]
          BY <3>9, <4>1 DEF PublicPortsAdd, Listed
        <5>2. list' = list \cup {<<p, n>>}
          BY <4>1, <5>1 DEF list
        <5>3. \A e \in list : e[1] # p /\ e[2] # n
          BY <4>1 DEF list
        <5> QED
          BY <5>1, <5>2, <5>3 DEF Registry!AddPort
      <4>2. CASE ~(p \notin Listed /\ \A q \in Listed : portList[q] # n)
        <5>1. a = FALSE /\ UNCHANGED portList
          BY <3>9, <4>2 DEF PublicPortsAdd
        <5>2. PICK q \in Listed : q = p \/ portList[q] = n
          BY <4>2
        <5>3. <<q, portList[q]>> \in list
          BY DEF list
        <5>4. \E e \in list : e[1] = p \/ e[2] = n
          BY <5>2, <5>3
        <5>5. UNCHANGED list
          BY <5>1 DEF list, Listed
        <5> QED
          BY <5>1, <5>4, <5>5 DEF Registry!AddPort
      <4> QED
        BY <4>1, <4>2
    <3>10. ASSUME NEW p, PublicPortsRem(p), a = TRUE PROVE Registry!RemPort(p, a)
      <4>1. /\ Listed' = Listed \ {p}
            /\ \A q \in Listed' : portList'[q] = portList[q]
        BY <3>10 DEF PublicPortsRem, Listed
      <4>2. list' = {e \in list : e[1] # p}
        BY <4>1 DEF list
      <4> QED
        BY <3>10, <4>2 DEF Registry!RemPort
    <3>11. ASSUME NEW n, PublicPortsFind(n, a) PROVE Registry!FindPort(n, a)
      <4>1. UNCHANGED list
        BY <3>11 DEF PublicPortsFind, list, Listed
      <4>2. <<a, n>> \in list \/ (a = NoPort /\ \A e \in list : e[2] # n)
        BY <3>11 DEF PublicPortsFind, list
      <4> QED
        BY <4>1, <4>2 DEF Registry!FindPort
    <3>12. UNCHANGED portList => UNCHANGED list
      BY DEF list, Listed
    <3>13. Registry!TakeEffect(h)
      BY <3>5, <3>6, <3>7, <3>8, <3>9, <3>10, <3>11, <3>12 DEF Registry!TakeEffect
    <3>14. Registry!Steady
      BY <3>2, <3>5 DEF Registry!Steady
    <3> QED
      BY <3>13, <3>14 DEF Registry!Next
  <2>10. CASE ReplyMsg
    <3>1. /\ UNCHANGED <<portList, queue, pc, call, answer>>
          /\ serving \in Clients /\ serving' = NoClient
          /\ replied' = IF pc[serving] = "wait" THEN replied \cup {serving}
                                                ELSE replied
      BY <2>10 DEF ReplyMsg, TypeOK
    <3>2. PICK h \in Clients : h = serving
      BY <3>1
    <3>3. ~InQueue(h) /\ h \notin replied /\ pc[h] \in {"wait", "gone"}
      BY <3>2 DEF OneMessage, Answered
    <3>4. status'[h] = "lost" \/ status'[h] = status[h]
      BY <3>1, <3>2, <3>3 DEF status, Answered, InQueue
    <3>5. \A d \in Clients : d # h => status'[d] = status[d]
      BY <3>1, <3>2 DEF status, Answered, InQueue
    <3>6. CASE status'[h] = "lost"
      <4>1. \A d \in Clients : status'[d] = IF d \in {h} THEN "lost" ELSE status[d]
        BY <3>5, <3>6
      <4> QED
        BY <2>4, <3>1, <4>1
    <3>7. CASE status'[h] = status[h]
      <4>1. \A d \in Clients : status'[d] = status[d]
        BY <3>5, <3>7
      <4> QED
        BY <2>5, <3>1, <4>1
    <3> QED
      BY <3>4, <3>6, <3>7
  <2>11. CASE StopServer
    <3>1. /\ UNCHANGED <<portList, replied, pc, call, answer>>
          /\ serving' = NoClient /\ queue' = <<>>
      BY <2>11 DEF StopServer
    <3>2. \A d \in Clients : ~InQueue(d)'
      BY <3>1 DEF InQueue
    <3> DEFINE S == {d \in Clients : InQueue(d) \/ serving = d}
    <3>3. \A d \in S : /\ status'[d] = "lost"
                       /\ pc[d] \in {"wait", "gone"} /\ d \notin replied
      BY <3>1, <3>2 DEF status, Answered, OneMessage
    <3>4. \A d \in Clients \ S : status'[d] = status[d]
      BY <3>1, <3>2 DEF status, Answered
    <3>5. \A d \in Clients : status'[d] = IF d \in S THEN "lost" ELSE status[d]
      BY <3>3, <3>4
    <3>6. S \in SUBSET Clients
      OBVIOUS
    <3> HIDE DEF S
    <3> QED
      BY <2>4, <3>1, <3>5, <3>6
  <2>12. CASE UNCHANGED vars
    BY <2>1, <2>12 DEF vars
  <2> QED
    BY <2>2, <2>3, <2>6, <2>7, <2>8, <2>9, <2>10, <2>11, <2>12, NextCases
<1> QED
  BY <1>1, <1>2, TypeCorrect, OneMessageHolds, OwnCallsHold, PTL
     DEF Spec, ImplementsRegistry, Registry!Spec
=============================================================================
