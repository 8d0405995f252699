--------------------------- MODULE MutexContract ---------------------------
(***************************************************************************)
(* What exec.library promises about a struct Mutex, as the autodocs of     *)
(* CreateMutex, ObtainMutex, AttemptMutex and ReleaseMutex state it: a     *)
(* mutex "can be used to guarantee exclusive access across several threads *)
(* of the process", ObtainMutex answers TRUE only to the thread that got   *)
(* it and FALSE otherwise.  Nothing is said about futexes.                 *)
(***************************************************************************)
CONSTANT Threads

VARIABLES asking,   \* threads inside ObtainMutex
          holder    \* {} or the one thread that was answered TRUE

vars == <<asking, holder>>

\* A mutex is initialised free, or locked by its creator.
Init == /\ asking = {}
        /\ \/ holder = {}
           \/ \E t \in Threads : holder = {t}

Ask(t) == /\ t \notin asking \cup holder
          /\ asking' = asking \cup {t}
          /\ UNCHANGED holder

Grant(t) == /\ t \in asking
            /\ holder = {}
            /\ holder' = {t}
            /\ asking' = asking \ {t}

\* AttemptMutex: obtained at once or not at all.
GrantAtOnce(t) == /\ t \notin asking
                  /\ holder = {}
                  /\ holder' = {t}
                  /\ UNCHANGED asking

Refuse(t) == /\ t \in asking
             /\ asking' = asking \ {t}
             /\ UNCHANGED holder

Release(t) == /\ holder = {t}
              /\ holder' = {}
              /\ UNCHANGED asking

Next == \E t \in Threads :
          Ask(t) \/ Grant(t) \/ GrantAtOnce(t) \/ Refuse(t) \/ Release(t)

Spec == Init /\ [][Next]_vars
=============================================================================
