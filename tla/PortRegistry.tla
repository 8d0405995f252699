---------------------------- MODULE PortRegistry ----------------------------
(***************************************************************************)
(* What AddPort, RemPort and FindPort promise together (the autodocs in    *)
(* libs/exec/{addport,remport,findport}.c): there is one list of public    *)
(* ports, a name stands for at most one port, and every call takes effect  *)
(* on that list at one moment between its start and its end.  A call may   *)
(* also never come back: its maker or the keeper of the list can die.      *)
(***************************************************************************)
CONSTANTS Clients, Ports, Names, NoPort

VARIABLES list,     \* the public ports: a set of <<port, name>>
          status,   \* how far each client's call is
          call,     \* what it asks
          answer    \* what it is told

vars == <<list, status, call, answer>>

Status == {"none", "asked", "answered", "lost"}

Init == /\ list = {}
        /\ status = [c \in Clients |-> "none"]

Ask(c) == /\ status[c] = "none"
          /\ status' = [status EXCEPT ![c] = "asked"]
          /\ UNCHANGED list

\* The effect of a call on the list, and the answer that goes with it.
AddPort(p, n, a) ==
  \/ /\ \A e \in list : e[1] # p /\ e[2] # n
     /\ list' = list \cup {<<p, n>>}
     /\ a = TRUE
  \/ /\ \E e \in list : e[1] = p \/ e[2] = n
     /\ a = FALSE
     /\ UNCHANGED list

RemPort(p, a) == /\ list' = {e \in list : e[1] # p}
                 /\ a = TRUE

FindPort(n, a) ==
  /\ \/ <<a, n>> \in list
     \/ a = NoPort /\ \A e \in list : e[2] # n
  /\ UNCHANGED list

TakeEffect(c) ==
  /\ status[c] = "asked"
  /\ status' = [status EXCEPT ![c] = "answered"]
  /\ \/ call[c].op = "add"  /\ AddPort(call[c].port, call[c].name, answer'[c])
     \/ call[c].op = "rem"  /\ RemPort(call[c].port, answer'[c])
     \/ call[c].op = "find" /\ FindPort(call[c].name, answer'[c])
     \/ call[c].op = "path" /\ UNCHANGED list

Return(c) == /\ status[c] = "answered"
             /\ status' = [status EXCEPT ![c] = "none"]
             /\ UNCHANGED list

Lose == /\ \E S \in SUBSET Clients :
             status' = [c \in Clients |-> IF c \in S THEN "lost" ELSE status[c]]
        /\ UNCHANGED list

Next == \/ \E c \in Clients : Ask(c) \/ TakeEffect(c) \/ Return(c)
        \/ Lose

\* A question and its answer stay what they are until the call returns.
Steady ==
  \A c \in Clients :
    /\ status[c] = "asked" /\ status'[c] # "none" => call'[c] = call[c]
    /\ status[c] = "answered" /\ status'[c] = "answered"
         => answer'[c] = answer[c]

Spec == Init /\ [][Next /\ Steady]_vars
=============================================================================
