----------------------------- MODULE ArixServer -----------------------------
(***************************************************************************)
(* The public ports: the ARIX process, its messageLoop and its             *)
(* PublicPortList (system/arix), and the client side of AddPort, RemPort,  *)
(* FindPort and of DOSInit's request for the temporary path (libs/exec,    *)
(* libs/dos), across processes that only share Unix datagram sockets.      *)
(*                                                                         *)
(* Every call is one exchange of messages: the client binds a reply port   *)
(* of its own, sends one request to the well-known ARIX port, and sleeps   *)
(* on the reply port.  A client has one call under way at most, so a       *)
(* request is known by its client, and so is the reply port.               *)
(***************************************************************************)
EXTENDS Naturals, Sequences

CONSTANTS
  Clients,      \* the processes that use public ports
  Ports,        \* the message ports that are ever created, reply ports apart
  Owner,        \* the process each of them belongs to
  Names,        \* the names ports are published under
  Sockets,      \* socket descriptors
  QueueLimit,   \* datagrams the kernel keeps for a socket
  NoPort,       \* NULL_ID
  NoClient

ASSUME ArixAssumption == /\ Owner \in [Ports -> Clients]
                         /\ QueueLimit \in Nat \ {0}
                         /\ NoPort \notin Ports
                         /\ NoClient \notin Clients

VARIABLES
  up,          \* the ARIX process runs
  queue,       \* clients whose request waits in the socket of the ARIX port
  serving,     \* the client whose message messageLoop holds
  replied,     \* clients with a reply in the socket of their reply port
  portList,    \* PublicPortList: a function from ports to names
  pc,          \* where each client stands
  call,        \* the arguments of its call, as they lie in the message
  answer,      \* ma_RetVal, or the port found, once messageLoop has set it
  port,        \* each port: not created yet, open or deleted
  socket,      \* the descriptor it has while open
  publicName,  \* the name its owner gives to AddPort
  advertised   \* ports AddPort reported as listed and RemPort not since

server == <<up, queue, serving, portList>>
owners == <<port, socket, publicName>>
vars   == <<server, replied, owners, advertised, pc, call, answer>>

\* AddPort copies sizeof(uuid_t) = 16 bytes from mp_ID, an 8-byte ID, to the
\* ID field that lies before the name it has already copied: the bytes of
\* mp_Socket, which follows mp_ID in struct MsgPort, end up as the name.
SocketName(s) == <<"socket", s>>

WireNames == Names \cup {SocketName(s) : s \in Sockets}

Calls == [op : {"add"}, port : Ports, name : WireNames]
           \cup [op : {"rem"}, port : Ports]
           \cup [op : {"find"}, name : WireNames]
           \cup [op : {"path"}]

NoCall == [op |-> "none"]

Listed == DOMAIN portList

Init == /\ up = TRUE
        /\ queue = <<>>
        /\ serving = NoClient
        /\ replied = {}
        /\ portList = [p \in {} |-> NoPort]
        /\ pc = [c \in Clients |-> "idle"]
        /\ call = [c \in Clients |-> NoCall]
        /\ answer = [c \in Clients |-> FALSE]
        /\ port = [p \in Ports |-> "new"]
        /\ socket \in [Ports -> Sockets]
        /\ publicName \in [Ports -> Names]
        /\ advertised = {}

-----------------------------------------------------------------------------
(* The clients *)

\* CreateMsgPort: a process never has two open ports on one descriptor.
CreateMsgPort(p) ==
  /\ port[p] = "new" /\ pc[Owner[p]] = "idle"
  /\ \A q \in Ports : port[q] = "open" /\ Owner[q] = Owner[p]
                        => socket[q] # socket[p]
  /\ port' = [port EXCEPT ![p] = "open"]
  /\ UNCHANGED <<server, replied, socket, publicName, advertised,
                 pc, call, answer>>

\* DeleteMsgPort, by an owner that did its RemPort as AddPort's autodoc asks.
DeleteMsgPort(p) ==
  /\ port[p] = "open" /\ pc[Owner[p]] = "idle"
  /\ p \notin advertised
  /\ port' = [port EXCEPT ![p] = "deleted"]
  /\ UNCHANGED <<server, replied, socket, publicName, advertised,
                 pc, call, answer>>

\* What every call starts with: a message is filled in, a reply port bound.
Begin(c, message) ==
  /\ pc[c] = "idle"
  /\ pc' = [pc EXCEPT ![c] = "send"]
  /\ call' = [call EXCEPT ![c] = message]
  /\ UNCHANGED <<server, replied, owners, advertised, answer>>

AddPort(p) ==
  /\ port[p] = "open"
  /\ Begin(Owner[p],
           [op |-> "add", port |-> p, name |-> SocketName(socket[p])])

RemPort(p) == /\ port[p] = "open"
              /\ Begin(Owner[p], [op |-> "rem", port |-> p])

FindPort(c, n) == Begin(c, [op |-> "find", name |-> n])

\* DOSInit asks for the descriptor of ARIX's temporary directory, once
\* TestPort has seen the ARIX port; else the process ends (see Crash).
GetTempPath(c) == up /\ Begin(c, [op |-> "path"])

\* PutMsg blocks while the socket of the ARIX port is full.  Its result is
\* not looked at: without an ARIX the message is gone and the client waits.
PutMsg(c) ==
  /\ pc[c] = "send"
  /\ up => Len(queue) < QueueLimit
  /\ queue' = IF up THEN Append(queue, c) ELSE queue
  /\ pc' = [pc EXCEPT ![c] = "wait"]
  /\ UNCHANGED <<up, serving, portList, replied, owners, advertised,
                 call, answer>>

\* WaitPort and GetMsg on the reply port, which only this client reads; then
\* DiscardMsg, DeleteMsgPort of the reply port, and the end of the call.
GetReply(c) ==
  /\ pc[c] = "wait" /\ c \in replied
  /\ pc' = [pc EXCEPT ![c] = "idle"]
  /\ replied' = replied \ {c}
  /\ advertised' = CASE call[c].op = "add" /\ answer[c] = TRUE
                          -> advertised \cup {call[c].port}
                     [] call[c].op = "rem" -> advertised \ {call[c].port}
                     [] OTHER -> advertised
  /\ call' = [call EXCEPT ![c] = NoCall]
  /\ answer' = [answer EXCEPT ![c] = FALSE]
  /\ UNCHANGED <<server, owners>>

\* A process ends without asking anybody: it is killed, or leaves and its
\* ExecDestroy deletes every port without a RemPort.  No socket survives it.
Crash(c) ==
  /\ pc[c] # "gone"
  /\ pc' = [pc EXCEPT ![c] = "gone"]
  /\ replied' = replied \ {c}
  /\ port' = [p \in Ports |-> IF Owner[p] = c THEN "deleted" ELSE port[p]]
  /\ UNCHANGED <<server, socket, publicName, advertised, call, answer>>

-----------------------------------------------------------------------------
(* The ARIX process *)

\* Seeded fault: the loop over the names is left out.
PublicPorts_AddById(p, n, result) ==
  /\ result = (p \notin Listed)
  /\ portList' = IF result
                   THEN [q \in Listed \cup {p} |->
                           IF q = p THEN n ELSE portList[q]]
                   ELSE portList

\* Seeded fault: addPort reports success whatever it did.
PublicPorts_AddSaysYes(p, n, result) ==
  /\ result = TRUE
  /\ portList' = IF p \notin Listed /\ \A q \in Listed : portList[q] # n
                   THEN [q \in Listed \cup {p} |->
                           IF q = p THEN n ELSE portList[q]]
                   ELSE portList

\* PublicPortList::addPort refuses an ID or a name that is there already.
PublicPortsAdd(p, n, result) ==
  /\ result = (p \notin Listed /\ \A q \in Listed : portList[q] # n)
  /\ portList' = IF result
                   THEN [q \in Listed \cup {p} |->
                           IF q = p THEN n ELSE portList[q]]
                   ELSE portList

\* Seeded fault: remPort answers and erases nothing.
PublicPorts_RemNothing(p) == UNCHANGED portList

\* Seeded fault: the entry is not erased but stays, with an empty name.
PublicPorts_RemClears(p) ==
  portList' = [q \in Listed |-> IF q = p THEN <<>> ELSE portList[q]]

\* PublicPortList::remPort erases whatever is listed under the ID.
PublicPortsRem(p) == portList' = [q \in Listed \ {p} |-> portList[q]]

\* Seeded fault: the first port of the list is returned.
PublicPorts_FindAny(n, result) ==
  /\ \/ result \in Listed
     \/ Listed = {} /\ result = NoPort
  /\ UNCHANGED portList

\* PublicPortList::findPort returns a port of that name, or NULL_ID.
PublicPortsFind(n, result) ==
  /\ \/ result \in Listed /\ portList[result] = n
     \/ result = NoPort /\ \A p \in Listed : portList[p] # n
  /\ UNCHANGED portList

\* messageLoop: GetMsg takes the next request and the switch handles it.
Serve ==
  /\ up /\ serving = NoClient /\ queue # <<>>
  /\ serving' = Head(queue)
  /\ queue' = Tail(queue)
  /\ LET c == Head(queue)
         m == call[c]
     IN  \E a \in BOOLEAN \cup Ports \cup {NoPort} :
           /\ answer' = [answer EXCEPT ![c] = a]
           /\ \/ m.op = "add"  /\ PublicPortsAdd(m.port, m.name, a)
              \/ m.op = "rem"  /\ PublicPortsRem(m.port) /\ a = TRUE
              \/ m.op = "find" /\ PublicPortsFind(m.name, a)
              \/ m.op = "path" /\ UNCHANGED portList /\ a = TRUE
  /\ UNCHANGED <<up, replied, owners, advertised, pc, call>>

\* Seeded fault: msg is set to NULL before the temporary path is replied.
ReplyMsg_ForgetsPath ==
  /\ up /\ serving # NoClient
  /\ serving' = NoClient
  /\ replied' = IF pc[serving] = "wait" /\ call[serving].op # "path"
                  THEN replied \cup {serving} ELSE replied
  /\ UNCHANGED <<up, queue, portList, owners, advertised, pc, call, answer>>

\* ReplyMsg: the reply reaches the reply port, unless its owner is gone.
ReplyMsg ==
  /\ up /\ serving # NoClient
  /\ serving' = NoClient
  /\ replied' = IF pc[serving] = "wait" THEN replied \cup {serving}
                                        ELSE replied
  /\ UNCHANGED <<up, queue, portList, owners, advertised, pc, call, answer>>

\* The ARIX process ends: its socket and what waited there are gone.  Nothing
\* starts it again, and nobody reads the list any more.
StopServer ==
  /\ up
  /\ up' = FALSE
  /\ queue' = <<>>
  /\ serving' = NoClient
  /\ UNCHANGED <<portList, replied, owners, advertised, pc, call, answer>>

-----------------------------------------------------------------------------
Next == \/ \E p \in Ports : \/ CreateMsgPort(p) \/ DeleteMsgPort(p)
                            \/ AddPort(p) \/ RemPort(p)
        \/ \E c \in Clients : \/ \E n \in WireNames : FindPort(c, n)
                              \/ GetTempPath(c)
                              \/ PutMsg(c) \/ GetReply(c) \/ Crash(c)
        \/ Serve \/ ReplyMsg \/ StopServer

Spec == Init /\ [][Next]_vars

\* messageLoop never stops polling; a client reads the reply it sleeps on;
\* the kernel serves writers that wait for room in a socket in turn.
Fairness == /\ WF_vars(Serve) /\ WF_vars(ReplyMsg)
            /\ \A c \in Clients : WF_vars(GetReply(c)) /\ SF_vars(PutMsg(c))

FairSpec == Spec /\ Fairness

-----------------------------------------------------------------------------
(* Properties *)

\* Every variable has its type; the socket of the ARIX port never holds more
\* than the kernel's limit.
TypeOK ==
  /\ up \in BOOLEAN
  /\ queue \in Seq(Clients) /\ Len(queue) <= QueueLimit
  /\ serving \in Clients \cup {NoClient}
  /\ replied \subseteq Clients
  /\ Listed \subseteq Ports /\ \A p \in Listed : portList[p] \in WireNames
  /\ pc \in [Clients -> {"idle", "send", "wait", "gone"}]
  /\ call \in [Clients -> Calls \cup {NoCall}]
  /\ answer \in [Clients -> BOOLEAN \cup Ports \cup {NoPort}]
  /\ port \in [Ports -> {"new", "open", "deleted"}]
  /\ socket \in [Ports -> Sockets] /\ publicName \in [Ports -> Names]
  /\ advertised \subseteq Ports

\* "each public port name has to be unique" (addport.c:49): whatever clients
\* of however many processes send, no name stands for two ports.
NamesUnique ==
  \A p, q \in Listed : portList[p] = portList[q] => p = q

\* The owner of p has a RemPort for it under way.
Removing(p) == /\ pc[Owner[p]] \in {"send", "wait"}
               /\ call[Owner[p]].op = "rem"
               /\ call[Owner[p]].port = p

\* A port AddPort reported as added stays listed until its owner removes it,
\* whatever other processes add, remove and crash (ARIX apart).
AdvertisedIsListed ==
  up => \A p \in advertised :
          p \in Listed \/ Removing(p) \/ pc[Owner[p]] = "gone"

\* The list never names a port that was deleted, except for those of
\* processes that died: nothing removes these.
ListedIsOpen ==
  up => \A p \in Listed : port[p] = "open" \/ pc[Owner[p]] = "gone"

\* addport.c:37-39: "After this call any other application can find the
\* message port by the name".  A FindPort that is answered while a port is
\* advertised under that name does not come back empty-handed.
AdvertisedIsFound ==
  serving # NoClient /\ call[serving].op = "find" /\ answer[serving] = NoPort
    => \A p \in advertised :
         publicName[p] = call[serving].name
           => Removing(p) \/ pc[Owner[p]] = "gone"

\* Every call comes back while ARIX runs: no request is forgotten, neither
\* behind a full socket nor by messageLoop.
CallsReturn ==
  \A c \in Clients :
    (pc[c] \in {"send", "wait"}) ~> (pc[c] \in {"idle", "gone"} \/ ~up)

\* Where a request is after it was sent; the invariants that follow it make
\* the properties above inductive.
InQueue(c)  == \E i \in 1..Len(queue) : queue[i] = c
Answered(c) == serving = c \/ c \in replied

\* A client's message is in one place at a time, and a reply only lies in
\* the socket of a client that waits for it.
OneMessage ==
  /\ \A i, j \in 1..Len(queue) : queue[i] = queue[j] => i = j
  /\ \A c \in Clients :
       /\ InQueue(c) => ~Answered(c)
       /\ ~(serving = c /\ c \in replied)
       /\ InQueue(c) \/ serving = c => pc[c] \in {"wait", "gone"}
       /\ c \in replied => pc[c] = "wait"

\* Only its owner adds or removes a port, and only while the port is open.
OwnCalls ==
  \A c \in Clients :
    call[c].op \in {"add", "rem"} =>
      /\ call[c].port \in Ports /\ Owner[call[c].port] = c
      /\ pc[c] \in {"send", "wait"} => port[call[c].port] = "open"

\* The answer to AddPort or RemPort is still true when the owner reads it.
AnswersHold ==
  up => \A c \in Clients : Answered(c) /\ pc[c] = "wait" =>
          /\ call[c].op = "add" /\ answer[c] = TRUE => call[c].port \in Listed
          /\ call[c].op = "rem" => call[c].port \notin Listed

\* An owner that lives knows, or is about to be told, what is listed for it.
ListedIsKnown ==
  up => \A p \in Listed :
          \/ pc[Owner[p]] = "gone"
          \/ p \in advertised
          \/ /\ Answered(Owner[p]) /\ answer[Owner[p]] = TRUE
             /\ call[Owner[p]].op = "add" /\ call[Owner[p]].port = p

\* The list as a set of pairs, and how far each client's call has come: it
\* is answered once messageLoop has handled the request, and lost when
\* nobody is left to handle it or to hear the answer.
list == {<<p, portList[p]>> : p \in Listed}

status == [c \in Clients |->
             IF pc[c] = "send" \/ InQueue(c) THEN "asked"
             ELSE IF Answered(c) THEN "answered"
             ELSE IF pc[c] = "idle" THEN "none" ELSE "lost"]

Registry == INSTANCE PortRegistry

\* Calls of several processes take effect one at a time, each between its
\* start and its end, and their answers tell the list as it was then.
ImplementsRegistry == Registry!Spec
=============================================================================
