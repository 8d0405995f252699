------------------------------ MODULE Mailbox ------------------------------
(***************************************************************************)
(* What a message port promises to the processes that put messages there   *)
(* and to the threads that get them: every message comes to one thread, in *)
(* the order of the port's queue, stays as it was sent until that thread   *)
(* replies, and the reply goes to its sender.  Messages are lost only      *)
(* after the port ran out of memory (deaf).  MsgPort implements it.        *)
(***************************************************************************)
EXTENDS Sequences

CONSTANTS Readers, Senders, Messages, NULL

VARIABLES
  queue,     \* messages that no thread has got yet
  held,      \* the message each thread works on, or NULL
  answers,   \* replies each sender has not taken yet
  deaf

vars == <<queue, held, answers, deaf>>

Init == /\ queue = <<>>
        /\ held = [r \in Readers |-> NULL]
        /\ answers = [s \in Senders |-> <<>>]
        /\ deaf = FALSE

Put(m) == /\ queue' = Append(queue, m)
          /\ UNCHANGED <<held, answers, deaf>>

Take(r) == /\ ~ deaf /\ queue # <<>> /\ held[r] = NULL
           /\ held' = [held EXCEPT ![r] = Head(queue)]
           /\ queue' = Tail(queue)
           /\ UNCHANGED <<answers, deaf>>

Reply(r) == /\ held[r] # NULL
            /\ answers' = [answers EXCEPT ![held[r].from] = Append(@, held[r])]
            /\ held' = [held EXCEPT ![r] = NULL]
            /\ UNCHANGED <<queue, deaf>>

Collect(s) == /\ answers[s] # <<>>
              /\ answers' = [answers EXCEPT ![s] = Tail(@)]
              /\ UNCHANGED <<queue, held, deaf>>

Deafen == /\ deaf' = TRUE
          /\ UNCHANGED <<queue, held, answers>>

Lose == /\ deaf /\ queue # <<>>
        /\ queue' = Tail(queue)
        /\ UNCHANGED <<held, answers, deaf>>

Next == \/ \E m \in Messages : Put(m)
        \/ \E r \in Readers : Take(r) \/ Reply(r)
        \/ \E s \in Senders : Collect(s)
        \/ Deafen \/ Lose

Spec == Init /\ [][Next]_vars
=============================================================================
