------------------------------ MODULE DeviceIO ------------------------------
(***************************************************************************)
(* DoIO and WaitIO of exec.library (libs/exec/doio.c, waitio.c): threads   *)
(* with one request each, whose replies come to one port.  BeginIO and     *)
(* FinalizeIO belong to the device: it finishes a request at once and      *)
(* leaves IOF_QUICK set, or clears it and replies later.  The list         *)
(* mp_MsgList is a sequence of the requests its messages belong to.        *)
(***************************************************************************)
EXTENDS Integers, Sequences

LOCAL S == INSTANCE SequencesExt

CONSTANTS
  Requests,      \* the requests (io_ID), one per thread
  NULL,
  AtTail         \* the address of mp_MsgList.lh_Tail, taken for a message

VARIABLES
  pc,            \* of the thread of each request
  quick,         \* IOF_QUICK of each request
  device,        \* requests the device has not replied yet
  done,          \* requests the device has finished
  socket,        \* replies that are in the port's socket
  list,          \* mp_MsgList
  lock,          \* the thread that has mp_Lock, or NULL
  msg            \* WaitIO's variable of that name

vars == <<pc, quick, device, done, socket, list, lock, msg>>

Init == /\ pc = [r \in Requests |-> "idle"]
        /\ quick = [r \in Requests |-> FALSE]
        /\ device = {} /\ done = {}
        /\ socket = <<>> /\ list = <<>> /\ lock = NULL
        /\ msg = [r \in Requests |-> NULL]

Goto(r, label) == pc' = [pc EXCEPT ![r] = label]

\* DoIO sets IOF_QUICK, the device's BeginIO keeps or clears it.
BeginIO(r) ==
  /\ pc[r] = "idle"
  /\ \/ /\ done' = done \cup {r} /\ UNCHANGED device
        /\ quick' = [quick EXCEPT ![r] = TRUE]
     \/ /\ device' = device \cup {r} /\ UNCHANGED done
        /\ quick' = [quick EXCEPT ![r] = FALSE]
  /\ Goto(r, "begun")
  /\ UNCHANGED <<socket, list, lock, msg>>

\* The device's task finishes a request and replies to its message.
Finish(r) ==
  /\ r \in device
  /\ device' = device \ {r} /\ done' = done \cup {r}
  /\ socket' = Append(socket, r)
  /\ UNCHANGED <<pc, quick, list, lock, msg>>

\* DoIO of a quick request returns, any other goes to WaitIO and its lock.
WaitIO(r) ==
  /\ pc[r] = "begun"
  /\ IF quick[r] THEN Goto(r, "returned") /\ UNCHANGED lock
                 ELSE lock = NULL /\ lock' = r /\ Goto(r, "search")
  /\ UNCHANGED <<quick, device, done, socket, list, msg>>

\* The ForeachNodeSafe loop: at its end msg is the cell behind the last node.
SearchList(r) ==
  /\ pc[r] = "search"
  /\ IF r \in S!ToSet(list)
     THEN /\ msg' = [msg EXCEPT ![r] = r]
          /\ list' = S!RemoveFirst(list, r)
     ELSE msg' = [msg EXCEPT ![r] = AtTail] /\ UNCHANGED list
  /\ Goto(r, "loop")
  /\ UNCHANGED <<quick, device, done, socket, lock>>

\* while (msg == NULL): replies to others go to the list; with no reply there
\* it polls.
FetchReply(r) ==
  /\ pc[r] = "loop" /\ msg[r] = NULL /\ socket # <<>>
  /\ socket' = Tail(socket)
  /\ IF Head(socket) = r THEN msg' = [msg EXCEPT ![r] = r] /\ UNCHANGED list
                         ELSE list' = Append(list, Head(socket)) /\ UNCHANGED msg
  /\ UNCHANGED <<pc, quick, device, done, lock>>

\* ReleaseMutex; the message is copied onto itself and discarded, where the
\* memory at lh_Tail is not a message the process may also end; FinalizeIO;
\* WaitIO and DoIO return.
Return(r) ==
  /\ pc[r] = "loop" /\ msg[r] # NULL
  /\ lock' = NULL
  /\ Goto(r, "returned") \/ (msg[r] = AtTail /\ Goto(r, "crashed"))
  /\ UNCHANGED <<quick, device, done, socket, list, msg>>

Next == \E r \in Requests : \/ BeginIO(r) \/ Finish(r) \/ WaitIO(r)
                            \/ SearchList(r) \/ FetchReply(r) \/ Return(r)

Spec == Init /\ [][Next]_vars

-----------------------------------------------------------------------------
(* Properties *)

\* "If BeginIO has cleared the quick flag, wait for completion of the
\* request" (doio.c:36): when DoIO returns the device has finished.
ReturnsCompleted == \A r \in Requests : pc[r] = "returned" => r \in done
=============================================================================
