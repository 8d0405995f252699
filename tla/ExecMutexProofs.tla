-------------------------- MODULE ExecMutexProofs --------------------------
(***************************************************************************)
(* What ExecMutex guarantees for every number of threads.                  *)
(*                                                                         *)
(* TypeOK and NoLostWakeup hold whether or not the callers check the       *)
(* answer of ObtainMutex.  Mutual exclusion and the documented contract    *)
(* need checked answers; they are proved under ResultChecked = TRUE, and   *)
(* the run mutex_unchecked shows that they fail without.                   *)
(***************************************************************************)
EXTENDS ExecMutex, TLAPS

USE DEF MUTEX_LOCKED, MUTEX_FREE

\* The futex word stays 0 or 1 and every thread stays at a known place,
\* through every interleaving of Obtain, Attempt and (unpaired) Release.
THEOREM TypeCorrect == Spec => []TypeOK
<1>1. Init => TypeOK
  BY DEF Init, InitMutex, TypeOK, Where
<1>2. TypeOK /\ [Next]_vars => TypeOK'
  <2> SUFFICES ASSUME TypeOK, [Next]_vars PROVE TypeOK'
    OBVIOUS
  <2> USE DEF TypeOK, Where, Goto
  <2>1. ASSUME NEW t \in Threads, CallObtain(t) PROVE TypeOK'
    BY <2>1 DEF CallObtain
  <2>2. ASSUME NEW t \in Threads, TryLock(t) PROVE TypeOK'
    BY <2>2 DEF TryLock
  <2>3. ASSUME NEW t \in Threads, FutexWait(t) PROVE TypeOK'
    BY <2>3 DEF FutexWait, Refused
  <2>4. ASSUME NEW t \in Threads, SpuriousWake(t) PROVE TypeOK'
    BY <2>4 DEF SpuriousWake
  <2>5. ASSUME NEW t \in Threads, AttemptMutex(t) PROVE TypeOK'
    BY <2>5 DEF AttemptMutex
  <2>6. ASSUME NEW t \in Threads, CallRelease(t) PROVE TypeOK'
    BY <2>6 DEF CallRelease
  <2>7. ASSUME NEW t \in Threads, Unlock(t) PROVE TypeOK'
    BY <2>7 DEF Unlock
  <2>8. ASSUME NEW t \in Threads, FutexWake(t) PROVE TypeOK'
    BY <2>8 DEF FutexWake, Asleep
  <2>9. CASE UNCHANGED vars
    BY <2>9 DEF vars
  <2> QED
    BY <2>1, <2>2, <2>3, <2>4, <2>5, <2>6, <2>7, <2>8, <2>9 DEF Next, Step
<1> QED
  BY <1>1, <1>2, PTL DEF Spec

-----------------------------------------------------------------------------
\* A thread leaves the sleepers only towards the compare-and-swap, so while
\* the word is free whoever was woken, or is about to wake, is still there:
\* no interleaving of releases, late waits and spurious wakes strands the
\* sleepers of a free mutex.
THEOREM WakeupsNotLost == Spec => []NoLostWakeup
<1>1. Init => NoLostWakeup
  BY DEF Init, InitMutex, NoLostWakeup, Asleep
<1>2. TypeOK /\ NoLostWakeup /\ [Next]_vars => NoLostWakeup'
  <2> SUFFICES ASSUME TypeOK, NoLostWakeup, [Next]_vars,
                      lock' = MUTEX_FREE, NEW s \in Asleep'
               PROVE  \E t \in Threads : pc'[t] \in {"wake", "obtain"}
    BY DEF NoLostWakeup
  <2> USE DEF TypeOK, Goto
  <2>0. s \in Threads /\ pc'[s] = "asleep"
    BY DEF Asleep
  \* Steps that leave every waker and every thread at the swap in place.
  <2>a. ASSUME lock = MUTEX_FREE, s \in Asleep,
               \A t \in Threads :
                 pc[t] \in {"wake", "obtain"} => pc'[t] = pc[t]
        PROVE  \E t \in Threads : pc'[t] \in {"wake", "obtain"}
    BY <2>a DEF NoLostWakeup
  <2>1. ASSUME NEW t \in Threads, CallObtain(t)
        PROVE  pc'[t] = "obtain"
    BY <2>1 DEF CallObtain
  <2>2. ASSUME NEW t \in Threads, TryLock(t)
        PROVE  FALSE
    BY <2>2 DEF TryLock
  <2>3. ASSUME NEW t \in Threads, FutexWait(t)
        PROVE  \E u \in Threads : pc'[u] \in {"wake", "obtain"}
    <3>1. lock = MUTEX_FREE
      BY <2>3 DEF FutexWait
    <3>2. s \in Asleep
      BY <2>0, <2>3, <3>1 DEF FutexWait, Refused, Asleep
    <3> QED
      BY <2>3, <2>a, <3>1, <3>2 DEF FutexWait
  <2>4. ASSUME NEW t \in Threads, SpuriousWake(t)
        PROVE  pc'[t] = "obtain"
    BY <2>4 DEF SpuriousWake
  <2>5. ASSUME NEW t \in Threads, AttemptMutex(t)
        PROVE  FALSE
    BY <2>5 DEF AttemptMutex
  <2>6. ASSUME NEW t \in Threads, CallRelease(t)
        PROVE  \E u \in Threads : pc'[u] \in {"wake", "obtain"}
    BY <2>0, <2>6, <2>a DEF CallRelease, Asleep
  <2>7. ASSUME NEW t \in Threads, Unlock(t)
        PROVE  \E u \in Threads : pc'[u] \in {"wake", "obtain"}
    <3>1. CASE lock = MUTEX_LOCKED
      BY <2>7, <3>1 DEF Unlock
    <3>2. CASE lock # MUTEX_LOCKED
      BY <2>0, <2>7, <2>a, <3>2 DEF Unlock, Asleep
    <3> QED
      BY <3>1, <3>2
  <2>8. ASSUME NEW t \in Threads, FutexWake(t)
        PROVE  \E u \in Threads : pc'[u] \in {"wake", "obtain"}
    <3>1. PICK u \in Asleep :
            pc' = [pc EXCEPT ![t] = "idle", ![u] = "obtain"]
      BY <2>0, <2>8 DEF FutexWake, Asleep
    <3> QED
      BY <3>1 DEF Asleep
  <2>9. CASE UNCHANGED vars
    BY <2>0, <2>9, <2>a DEF vars, Asleep
  <2> QED
    BY <2>1, <2>2, <2>3, <2>4, <2>5, <2>6, <2>7, <2>8, <2>9 DEF Next, Step
<1> QED
  BY <1>1, <1>2, TypeCorrect, PTL DEF Spec

-----------------------------------------------------------------------------
\* Mutual exclusion alone is not inductive: a thread could enter beside a
\* holder if the word could be free while somebody is inside.  LockInv adds
\* that the word is locked exactly when somebody is.
LEMMA LockInvHolds == ASSUME ResultChecked = TRUE PROVE Spec => []LockInv
<1> USE DEF LockInv, Holds
<1>1. Init => LockInv
  <2> SUFFICES ASSUME Init PROVE MutualExclusion /\ WordTellsHolder /\ TypeOK
    BY DEF LockInv
  <2>1. CASE InitMutex(MUTEX_FREE) /\ pc = [t \in Threads |-> "idle"]
    BY <2>1 DEF InitMutex, MutualExclusion, WordTellsHolder, TypeOK, Where
  <2>2. ASSUME InitMutex(MUTEX_LOCKED), NEW c \in Threads,
               pc = [t \in Threads |-> IF t = c THEN "critical" ELSE "idle"]
        PROVE  MutualExclusion /\ WordTellsHolder /\ TypeOK
    <3>1. lock = MUTEX_LOCKED
      BY <2>2 DEF InitMutex
    <3>2. Holds(c) /\ \A t \in Threads \ {c} : ~Holds(t)
      BY <2>2
    <3>3. TypeOK
      BY <2>2, <3>1 DEF TypeOK, Where
    <3> QED
      BY <3>1, <3>2, <3>3 DEF MutualExclusion, WordTellsHolder
  <2> QED
    BY <2>1, <2>2 DEF Init
<1>2. LockInv /\ TypeOK' /\ [Next]_vars => LockInv'
  <2> SUFFICES ASSUME LockInv, TypeOK', [Next]_vars
               PROVE  MutualExclusion' /\ WordTellsHolder'
    BY DEF LockInv
  <2> USE DEF MutualExclusion, WordTellsHolder, TypeOK, Goto
  \* Steps that move nobody in or out.
  <2>a. ASSUME \A t \in Threads : Holds(t)' <=> Holds(t), UNCHANGED lock
        PROVE  MutualExclusion' /\ WordTellsHolder'
    BY <2>a
  \* A thread that takes the free word is alone inside.
  <2>b. ASSUME NEW t \in Threads, lock = MUTEX_FREE, lock' = MUTEX_LOCKED,
               pc' = [pc EXCEPT ![t] = "critical"]
        PROVE  MutualExclusion' /\ WordTellsHolder'
    BY <2>b
  <2>1. ASSUME NEW t \in Threads, CallObtain(t)
        PROVE  MutualExclusion' /\ WordTellsHolder'
    BY <2>1, <2>a DEF CallObtain
  <2>2. ASSUME NEW t \in Threads, TryLock(t)
        PROVE  MutualExclusion' /\ WordTellsHolder'
    BY <2>2, <2>a, <2>b DEF TryLock
  <2>3. ASSUME NEW t \in Threads, FutexWait(t)
        PROVE  MutualExclusion' /\ WordTellsHolder'
    <3>1. \A u \in Threads : Holds(u)' <=> Holds(u)
      BY <2>3 DEF FutexWait, Refused
    <3> QED
      BY <2>3, <2>a, <3>1 DEF FutexWait
  <2>4. ASSUME NEW t \in Threads, SpuriousWake(t)
        PROVE  MutualExclusion' /\ WordTellsHolder'
    BY <2>4, <2>a DEF SpuriousWake
  <2>5. ASSUME NEW t \in Threads, AttemptMutex(t)
        PROVE  MutualExclusion' /\ WordTellsHolder'
    BY <2>5, <2>b DEF AttemptMutex
  <2>6. ASSUME NEW t \in Threads, CallRelease(t)
        PROVE  MutualExclusion' /\ WordTellsHolder'
    BY <2>6, <2>a DEF CallRelease
  <2>7. ASSUME NEW t \in Threads, Unlock(t)
        PROVE  MutualExclusion' /\ WordTellsHolder'
    <3>1. lock = MUTEX_LOCKED /\ Holds(t)
      BY <2>7 DEF Unlock
    <3>2. lock' = MUTEX_FREE /\ pc' = [pc EXCEPT ![t] = "wake"]
      BY <2>7, <3>1 DEF Unlock
    <3>3. \A u \in Threads : ~Holds(u)'
      BY <3>1, <3>2
    <3> QED
      BY <3>2, <3>3
  <2>8. ASSUME NEW t \in Threads, FutexWake(t)
        PROVE  MutualExclusion' /\ WordTellsHolder'
    <3>1. \A u \in Threads : Holds(u)' <=> Holds(u)
      BY <2>8 DEF FutexWake, Asleep
    <3> QED
      BY <2>8, <2>a, <3>1 DEF FutexWake
  <2>9. CASE UNCHANGED vars
    BY <2>9, <2>a DEF vars
  <2> QED
    BY <2>1, <2>2, <2>3, <2>4, <2>5, <2>6, <2>7, <2>8, <2>9 DEF Next, Step
<1> QED
  BY <1>1, <1>2, TypeCorrect, PTL DEF Spec

\* When every caller checks the answer of ObtainMutex, no two threads are
\* ever between a successful Obtain or Attempt and their Release.
THEOREM MutexExcludes ==
  ASSUME ResultChecked = TRUE PROVE Spec => []MutualExclusion
<1>1. LockInv => MutualExclusion
  BY DEF LockInv
<1> QED
  BY <1>1, LockInvHolds, PTL

\* ... and the word tells whether somebody is inside, which is what
\* AttemptMutex and FUTEX_WAIT rely on.
THEOREM WordIsTruthful ==
  ASSUME ResultChecked = TRUE PROVE Spec => []WordTellsHolder
<1>1. LockInv => WordTellsHolder
  BY DEF LockInv
<1> QED
  BY <1>1, LockInvHolds, PTL

-----------------------------------------------------------------------------
\* The futex loops implement the contract of the autodocs: every step is a
\* step of the abstract mutex or invisible to it.
THEOREM MutexImplementsContract ==
  ASSUME ResultChecked = TRUE PROVE Spec => ImplementsContract
<1> DEFINE asking == {t \in Threads : pc[t] \in {"obtain", "wait", "asleep"}}
           holder == {t \in Threads : Holds(t)}
<1>1. Init => Contract!Init
  BY DEF Init, InitMutex, Holds, Contract!Init
<1>2. LockInv /\ [Next]_vars => [Contract!Next]_(Contract!vars)
  <2> SUFFICES ASSUME LockInv, [Next]_vars
               PROVE  Contract!Next \/ UNCHANGED <<asking, holder>>
    BY DEF Contract!vars
  <2> USE DEF LockInv, TypeOK, Where, Goto, Holds
  <2>1. ASSUME NEW t \in Threads, CallObtain(t) PROVE Contract!Ask(t)
    BY <2>1 DEF CallObtain, Contract!Ask
  <2>2. ASSUME NEW t \in Threads, TryLock(t)
        PROVE  Contract!Grant(t) \/ UNCHANGED <<asking, holder>>
    <3>1. CASE lock = MUTEX_FREE
      BY <2>2, <3>1 DEF TryLock, WordTellsHolder, Contract!Grant
    <3>2. CASE lock # MUTEX_FREE
      BY <2>2, <3>2 DEF TryLock
    <3> QED
      BY <3>1, <3>2
  <2>3. ASSUME NEW t \in Threads, FutexWait(t)
        PROVE  Contract!Refuse(t) \/ UNCHANGED <<asking, holder>>
    <3>1. CASE pc' = [pc EXCEPT ![t] = "asleep"]
      BY <2>3, <3>1 DEF FutexWait
    <3>2. CASE pc' = [pc EXCEPT ![t] = "obtain"]
      BY <2>3, <3>2 DEF FutexWait
    <3>3. CASE pc' = [pc EXCEPT ![t] = "idle"]
      BY <2>3, <3>3 DEF FutexWait, Contract!Refuse
    <3> QED
      BY <2>3, <3>1, <3>2, <3>3 DEF FutexWait, Refused
  <2>4. ASSUME NEW t \in Threads, SpuriousWake(t)
        PROVE  UNCHANGED <<asking, holder>>
    BY <2>4 DEF SpuriousWake
  <2>5. ASSUME NEW t \in Threads, AttemptMutex(t)
        PROVE  Contract!GrantAtOnce(t)
    BY <2>5 DEF AttemptMutex, WordTellsHolder, Contract!GrantAtOnce
  <2>6. ASSUME NEW t \in Threads, CallRelease(t)
        PROVE  UNCHANGED <<asking, holder>>
    BY <2>6 DEF CallRelease
  <2>7. ASSUME NEW t \in Threads, Unlock(t) PROVE Contract!Release(t)
    <3>1. lock = MUTEX_LOCKED /\ Holds(t)
      BY <2>7 DEF Unlock, WordTellsHolder
    <3>2. holder = {t}
      BY <3>1 DEF MutualExclusion
    <3>3. pc' = [pc EXCEPT ![t] = "wake"]
      BY <2>7, <3>1 DEF Unlock
    <3> QED
      BY <3>1, <3>2, <3>3 DEF Contract!Release
  <2>8. ASSUME NEW t \in Threads, FutexWake(t)
        PROVE  UNCHANGED <<asking, holder>>
    BY <2>8 DEF FutexWake, Asleep
  <2>9. CASE UNCHANGED vars
    BY <2>9 DEF vars
  <2> QED
    BY <2>1, <2>2, <2>3, <2>4, <2>5, <2>6, <2>7, <2>8, <2>9
       DEF Next, Step, Contract!Next
<1> QED
  BY <1>1, <1>2, LockInvHolds, PTL
     DEF Spec, ImplementsContract, Contract!Spec
=============================================================================
