-------------------------- MODULE ThreadLifeProofs --------------------------
(***************************************************************************)
(* What ThreadLife guarantees for any number of threads.                   *)
(***************************************************************************)
EXTENDS ThreadLife, TLAPS

\* Only a live thread is inside a mutex function.
Placed == \A t \in Threads : life[t] \in {"unborn", "dead"} => pc[t] = "idle"

\* A thread about to be cloned has a stack of its own and no other creator.
Expected ==
  /\ \A p \in Threads : life[p] = "creating" =>
       life[child[p]] = "unborn" /\ stack[child[p]] = "own"
  /\ \A p, q \in Threads :
       life[p] = "creating" /\ life[q] = "creating" /\ child[p] = child[q] => p = q

LifeInv == TypeOK /\ Placed

LEMMA MutexStepEffect ==
  ASSUME LifeInv, NEW t \in Threads, MutexStep(t)
  PROVE  /\ UNCHANGED <<build, life, child, stack, temp, refused>>
         /\ lock' \in {Sync!MUTEX_LOCKED, Sync!MUTEX_FREE}
         /\ pc' \in [Threads -> Sync!Where]
         /\ \A u \in Threads : pc[u] = "idle" => pc'[u] = "idle"
         /\ lock' = Sync!MUTEX_LOCKED =>
              \/ lock = Sync!MUTEX_LOCKED
                 /\ \A u \in Threads : Sync!Holds(u) => pc'[u] = pc[u]
              \/ pc[t] = "obtain" /\ pc'[t] = "critical"
<1> USE DEF LifeInv, TypeOK, Sync!Where, Sync!Goto, Sync!Holds,
            Sync!MUTEX_LOCKED, Sync!MUTEX_FREE
<1>0. UNCHANGED <<build, life, child, stack, temp, refused>>
  BY DEF MutexStep
<1>1. CASE Sync!TryLock(t)
  BY <1>0, <1>1 DEF Sync!TryLock
<1>2. CASE Sync!FutexWait(t)
  <2>1. PICK to \in {"asleep", "obtain", "critical"} : pc' = [pc EXCEPT ![t] = to]
    BY <1>2 DEF Sync!FutexWait, Sync!Refused
  <2> QED
    BY <1>0, <1>2, <2>1 DEF Sync!FutexWait
<1>3. CASE Sync!SpuriousWake(t)
  BY <1>0, <1>3 DEF Sync!SpuriousWake
<1>4. CASE Sync!Unlock(t)
  BY <1>0, <1>4 DEF Sync!Unlock
<1>5. CASE Sync!FutexWake(t)
  <2>1. CASE Sync!Asleep = {} /\ pc' = [pc EXCEPT ![t] = "idle"]
    BY <1>0, <1>5, <2>1 DEF Sync!FutexWake
  <2>2. ASSUME NEW s \in Sync!Asleep, pc' = [pc EXCEPT ![t] = "idle", ![s] = "obtain"]
        PROVE  /\ pc' \in [Threads -> Sync!Where]
               /\ \A u \in Threads : pc[u] = "idle" => pc'[u] = "idle"
               /\ \A u \in Threads : Sync!Holds(u) => pc'[u] = pc[u]
    BY <1>5, <2>2 DEF Sync!FutexWake, Sync!Asleep
  <2> QED
    BY <1>0, <1>5, <2>1, <2>2 DEF Sync!FutexWake
<1> QED
  BY <1>1, <1>2, <1>3, <1>4, <1>5 DEF MutexStep

LEMMA LifeInvInit == Init => LifeInv
BY ThreadsAssumption
DEF Init, LifeInv, TypeOK, Placed, Life, Sync!InitMutex, Sync!MUTEX_FREE,
    Sync!MUTEX_LOCKED, Sync!Where

LEMMA LifeInvStep == LifeInv /\ [Next]_vars => LifeInv'
<1> SUFFICES ASSUME LifeInv, [Next]_vars PROVE LifeInv'
  OBVIOUS
<1> USE DEF LifeInv, TypeOK, Placed, Life, Idle, Inside, Sync!Where, Sync!Goto
<1>1. ASSUME NEW p \in Threads, NEW c \in Threads, CreateThread(p, c)
      PROVE  LifeInv'
  BY <1>1 DEF CreateThread, Sync!CallObtain
<1>2. ASSUME NEW t \in Threads, FunctionReturns(t)
      PROVE  LifeInv'
  BY <1>2 DEF FunctionReturns, Sync!CallObtain
<1>3. ASSUME NEW t \in Threads, Clone(t)
      PROVE  LifeInv'
  BY <1>3 DEF Clone
<1>4. ASSUME NEW t \in Threads, CloneFails(t)
      PROVE  LifeInv'
  BY <1>4 DEF CloneFails
<1>5. ASSUME NEW t \in Threads, ReadTags(t)
      PROVE  LifeInv'
  BY <1>5 DEF ReadTags, Sync!CallRelease
<1>6. ASSUME NEW t \in Threads, SwitchStack(t)
      PROVE  LifeInv'
  BY <1>6 DEF SwitchStack
<1>7. ASSUME NEW t \in Threads, FreeStack(t)
      PROVE  LifeInv'
  BY <1>7 DEF FreeStack
<1>8. ASSUME NEW t \in Threads, LastRelease(t)
      PROVE  LifeInv'
  BY <1>8 DEF LastRelease, Sync!CallRelease
<1>9. ASSUME NEW t \in Threads, Exit(t)
      PROVE  LifeInv'
  BY <1>9 DEF Exit
<1>10. ASSUME NEW t \in Threads, MutexStep(t)
       PROVE  LifeInv'
  BY <1>10, MutexStepEffect
<1>11. CASE UNCHANGED vars
  BY <1>11 DEF vars
<1> QED
  BY <1>1, <1>2, <1>3, <1>4, <1>5, <1>6, <1>7, <1>8, <1>9, <1>10, <1>11
  DEF Next, Proceed

\* Every thread is in a known place and the lock word is 0 or 1, failed clones
\* and the ends of both builds included.
THEOREM TypeCorrect == Spec => []TypeOK
<1>1. LifeInv => TypeOK
  BY DEF LifeInv
<1> QED
  BY <1>1, LifeInvInit, LifeInvStep, PTL DEF Spec

-----------------------------------------------------------------------------
\* While no clone has failed, the lock passes from one live thread to another
\* (creator to child) or back to free, whoever else ignores that ObtainMutex
\* has said FALSE (createthread.cpp:55-63, 131-160).
THEOREM LockHasLiveHolder == Spec => []LockOnlyWhileInUseAarch64
<1> DEFINE Inv == LockOnlyWhileInUseAarch64
<1> USE DEF LockOnlyWhileInUseAarch64, LockOnlyWhileInUse, LockHasHolder,
            Sync!Holds, Alive
<1>1. Init => Inv
  BY DEF Init, Sync!InitMutex, Sync!MUTEX_FREE, Sync!MUTEX_LOCKED
<1>2. LifeInv /\ Inv /\ [Next]_vars => Inv'
  <2> SUFFICES ASSUME LifeInv, Inv, [Next]_vars,
                      build' = "aarch64", refused' = {}, lock' = Sync!MUTEX_LOCKED
               PROVE  \E t \in Threads : /\ pc'[t] \in {"critical", "release"}
                                         /\ life'[t] \notin {"unborn", "dead"}
    BY DEF Sync!MUTEX_LOCKED
  <2> USE DEF LifeInv, TypeOK, Placed, Idle, Inside, Sync!Where, Sync!Goto
  <2>0. ASSUME UNCHANGED <<build, lock, refused>>
        PROVE  \E t \in Threads : /\ pc[t] \in {"critical", "release"}
                                  /\ life[t] \notin {"unborn", "dead"}
    BY <2>0 DEF Sync!MUTEX_LOCKED
  <2>1. ASSUME NEW p \in Threads, NEW c \in Threads, CreateThread(p, c)
        PROVE  \E t \in Threads : /\ pc'[t] \in {"critical", "release"}
                                  /\ life'[t] \notin {"unborn", "dead"}
    BY <2>0, <2>1 DEF CreateThread, Sync!CallObtain
  <2>2. ASSUME NEW p \in Threads, FunctionReturns(p)
        PROVE  \E t \in Threads : /\ pc'[t] \in {"critical", "release"}
                                  /\ life'[t] \notin {"unborn", "dead"}
    BY <2>0, <2>2 DEF FunctionReturns, Sync!CallObtain
  <2>3. ASSUME NEW p \in Threads, Clone(p)
        PROVE  \E t \in Threads : /\ pc'[t] \in {"critical", "release"}
                                  /\ life'[t] \notin {"unborn", "dead"}
    <3>1. child[p] \in Threads /\ pc'[child[p]] = "critical" /\ life'[child[p]] = "bootstrap"
      BY <2>3 DEF Clone
    <3> QED
      BY <3>1
  <2>4. ASSUME NEW p \in Threads, CloneFails(p)
        PROVE  FALSE
    BY <2>4 DEF CloneFails
  <2>5. ASSUME NEW p \in Threads, ReadTags(p)
        PROVE  \E t \in Threads : /\ pc'[t] \in {"critical", "release"}
                                  /\ life'[t] \notin {"unborn", "dead"}
    BY <2>5 DEF ReadTags, Sync!CallRelease
  <2>6. ASSUME NEW p \in Threads, SwitchStack(p)
        PROVE  \E t \in Threads : /\ pc'[t] \in {"critical", "release"}
                                  /\ life'[t] \notin {"unborn", "dead"}
    BY <2>0, <2>6 DEF SwitchStack
  <2>7. ASSUME NEW p \in Threads, FreeStack(p)
        PROVE  \E t \in Threads : /\ pc'[t] \in {"critical", "release"}
                                  /\ life'[t] \notin {"unborn", "dead"}
    BY <2>0, <2>7 DEF FreeStack
  <2>8. ASSUME NEW p \in Threads, LastRelease(p)
        PROVE  \E t \in Threads : /\ pc'[t] \in {"critical", "release"}
                                  /\ life'[t] \notin {"unborn", "dead"}
    BY <2>8 DEF LastRelease, Sync!CallRelease
  <2>9. ASSUME NEW p \in Threads, Exit(p)
        PROVE  \E t \in Threads : /\ pc'[t] \in {"critical", "release"}
                                  /\ life'[t] \notin {"unborn", "dead"}
    <3>1. pc[p] = "idle" /\ UNCHANGED <<build, lock, refused>>
      BY <2>9 DEF Exit
    <3> QED
      BY <2>0, <2>9, <3>1 DEF Exit
  <2>10. ASSUME NEW p \in Threads, MutexStep(p)
         PROVE  \E t \in Threads : /\ pc'[t] \in {"critical", "release"}
                                   /\ life'[t] \notin {"unborn", "dead"}
    <3>1. UNCHANGED <<build, life, refused>>
      BY <2>10 DEF MutexStep
    <3>2. CASE pc[p] = "obtain" /\ pc'[p] = "critical"
      BY <3>1, <3>2
    <3>3. CASE /\ lock = Sync!MUTEX_LOCKED
               /\ \A u \in Threads : Sync!Holds(u) => pc'[u] = pc[u]
      BY <2>0, <3>1, <3>3
    <3> QED
      BY <2>10, <3>2, <3>3, MutexStepEffect
  <2>11. CASE UNCHANGED vars
    BY <2>0, <2>11 DEF vars
  <2> QED
    BY <2>1, <2>2, <2>3, <2>4, <2>5, <2>6, <2>7, <2>8, <2>9, <2>10, <2>11
    DEF Next, Proceed
<1> HIDE DEF Inv
<1> QED
  BY <1>1, <1>2, LifeInvInit, LifeInvStep, PTL DEF Spec, Inv

-----------------------------------------------------------------------------
\* On aarch64 a stack goes back to the heap only when its thread has left it,
\* and no thread is ever started on such a stack again.
THEOREM StacksOutliveTheirUse == Spec => []StackOutlivesUse
<1> DEFINE Inv == Expected /\ StackOutlivesUse
<1> USE DEF Expected, StackOutlivesUse
<1>1. Init => Inv
  BY ThreadsAssumption DEF Init
<1>2. LifeInv /\ Inv /\ [Next]_vars => Inv'
  <2> SUFFICES ASSUME LifeInv, Inv, [Next]_vars PROVE Inv'
    OBVIOUS
  <2> USE DEF LifeInv, TypeOK, Idle, Inside
  <2>1. ASSUME NEW p \in Threads, NEW c \in Threads, CreateThread(p, c)
        PROVE  Inv'
    BY <2>1 DEF CreateThread
  <2>2. ASSUME NEW t \in Threads, FunctionReturns(t)
        PROVE  Inv'
    BY <2>2 DEF FunctionReturns
  <2>3. ASSUME NEW t \in Threads, Clone(t)
        PROVE  Inv'
    BY <2>3 DEF Clone
  <2>4. ASSUME NEW t \in Threads, CloneFails(t)
        PROVE  Inv'
    BY <2>4 DEF CloneFails
  <2>5. ASSUME NEW t \in Threads, ReadTags(t)
        PROVE  Inv'
    BY <2>5 DEF ReadTags
  <2>6. ASSUME NEW t \in Threads, SwitchStack(t)
        PROVE  Inv'
    BY <2>6 DEF SwitchStack
  <2>7. ASSUME NEW t \in Threads, FreeStack(t)
        PROVE  Inv'
    BY <2>7 DEF FreeStack
  <2>8. ASSUME NEW t \in Threads, LastRelease(t)
        PROVE  Inv'
    BY <2>8 DEF LastRelease
  <2>9. ASSUME NEW t \in Threads, Exit(t)
        PROVE  Inv'
    BY <2>9 DEF Exit
  <2>10. ASSUME NEW t \in Threads, MutexStep(t)
         PROVE  Inv'
    BY <2>10 DEF MutexStep
  <2>11. CASE UNCHANGED vars
    BY <2>11 DEF vars
  <2> QED
    BY <2>1, <2>2, <2>3, <2>4, <2>5, <2>6, <2>7, <2>8, <2>9, <2>10, <2>11
    DEF Next, Proceed
<1>3. Inv => StackOutlivesUse
  OBVIOUS
<1> HIDE DEF Inv
<1> QED
  BY <1>1, <1>2, <1>3, LifeInvInit, LifeInvStep, PTL DEF Spec
=============================================================================
