----------------------------- MODULE ExecMutex -----------------------------
(***************************************************************************)
(* The mutex of exec.library (libs/exec/*mutex.c): one futex word and the  *)
(* loops of ObtainMutex and ReleaseMutex around it, at the granularity at  *)
(* which threads interleave: every compare-and-swap and every system call  *)
(* is one step.  The Linux futex is modelled from its use: FUTEX_WAIT      *)
(* compares and enqueues atomically, FUTEX_WAKE wakes at most one sleeper. *)
(*                                                                         *)
(* A thread goes round                                                     *)
(*    idle -> obtain <-> wait / asleep -> critical -> release -> wake      *)
(***************************************************************************)
EXTENDS Integers

CONSTANTS
  Threads,        \* the threads that use the mutex
  ResultChecked   \* TRUE: callers enter only when ObtainMutex said TRUE, as
                  \*   AllocPooled, FreePooled, ReallocPooled, DeletePool do;
                  \* FALSE: callers ignore the answer, as AllocMem, AllocVec,
                  \*   FreeVec, GetMsg, WaitPort, CreateThread do

ASSUME ResultCheckedAssumption == ResultChecked \in BOOLEAN

VARIABLES lock,   \* the futex word m_Lock
          pc      \* where each thread stands

vars == <<lock, pc>>

MUTEX_LOCKED == 0
MUTEX_FREE   == 1
EAGAIN       == 11

Where == {"idle", "obtain", "wait", "asleep", "critical", "release", "wake"}

Asleep == {t \in Threads : pc[t] = "asleep"}

Goto(t, from, to) == /\ pc[t] = from
                     /\ pc' = [pc EXCEPT ![t] = to]

\* Every sc<n> wrapper replaces an error number by -1.
Syscall(ret) == IF -134 < ret /\ ret < 0 THEN -1 ELSE ret

\* The test ObtainMutex makes of the result of FUTEX_WAIT.
WaitFailed(err) == err < 0 /\ err # -EAGAIN

\* Seeded fault: the creator's initial state is not looked at.
InitMutex_AlwaysFree(initialState) == lock = MUTEX_FREE

\* InitMutex and CreateMutex: anything but MUTEX_LOCKED means free.
InitMutex(initialState) ==
  lock = IF initialState # MUTEX_LOCKED THEN MUTEX_FREE ELSE MUTEX_LOCKED

\* A mutex is made free, or locked on behalf of the thread that makes it
\* (CreateMsgPort makes mp_Lock so).
Init == \/ /\ InitMutex(MUTEX_FREE)
           /\ pc = [t \in Threads |-> "idle"]
        \/ /\ InitMutex(MUTEX_LOCKED)
           /\ \E c \in Threads :
                pc = [t \in Threads |-> IF t = c THEN "critical" ELSE "idle"]

-----------------------------------------------------------------------------
(* ObtainMutex *)

CallObtain(t) == Goto(t, "idle", "obtain") /\ UNCHANGED lock

\* Seeded fault: the word also says that somebody waits, which only a release
\* that looks for it could take back.
TryLock_MarksWaiters(t) ==
  \/ /\ lock = MUTEX_FREE
     /\ lock' = MUTEX_LOCKED
     /\ Goto(t, "obtain", "critical")
  \/ /\ lock # MUTEX_FREE
     /\ lock' = 2
     /\ Goto(t, "obtain", "wait")

\* The compare-and-swap at the head of the loop.
TryLock(t) ==
  \/ /\ lock = MUTEX_FREE
     /\ lock' = MUTEX_LOCKED
     /\ Goto(t, "obtain", "critical")
  \/ /\ lock # MUTEX_FREE
     /\ Goto(t, "obtain", "wait")
     /\ UNCHANGED lock

\* Seeded fault: AllocPooled enters although ObtainMutex said FALSE.
Refused_Enters == "critical"

\* Where a caller goes when ObtainMutex returns FALSE.
Refused == IF ResultChecked THEN "idle" ELSE "critical"

\* FUTEX_WAIT: sleep while the word is locked, else come back with -EAGAIN,
\* which the wrapper has turned into -1 when the result is tested.
FutexWait(t) ==
  /\ UNCHANGED lock
  /\ \/ lock = MUTEX_LOCKED /\ Goto(t, "wait", "asleep")
     \/ /\ lock # MUTEX_LOCKED
        /\ Goto(t, "wait", IF WaitFailed(Syscall(-EAGAIN))
                             THEN Refused ELSE "obtain")

\* FUTEX_WAIT may return 0 without a FUTEX_WAKE (futex(2)).
SpuriousWake(t) == Goto(t, "asleep", "obtain") /\ UNCHANGED lock

\* Seeded fault: AttemptMutex tests the word and forgets to set it.
AttemptMutex_TestOnly(t) == /\ lock = MUTEX_FREE
                            /\ Goto(t, "idle", "critical")
                            /\ UNCHANGED lock

(* AttemptMutex: one compare-and-swap, FALSE leaves the caller where it was. *)
AttemptMutex(t) == /\ lock = MUTEX_FREE
                   /\ lock' = MUTEX_LOCKED
                   /\ Goto(t, "idle", "critical")

(* ReleaseMutex *)

CallRelease(t) == Goto(t, "critical", "release") /\ UNCHANGED lock

\* Seeded fault: the mutex is freed without a FUTEX_WAKE.
Unlock_Silent(t) == lock' = MUTEX_FREE /\ Goto(t, "release", "idle")

\* internalReleaseMutex swaps locked for free whoever the caller is, and
\* goes on to FUTEX_WAKE only if the swap succeeded.
Unlock(t) ==
  IF lock = MUTEX_LOCKED
  THEN lock' = MUTEX_FREE /\ Goto(t, "release", "wake")
  ELSE Goto(t, "release", "idle") /\ UNCHANGED lock

\* FUTEX_WAKE 1: the kernel chooses which sleeper returns from FUTEX_WAIT.
FutexWake(t) ==
  /\ pc[t] = "wake"
  /\ UNCHANGED lock
  /\ \/ \E s \in Asleep : pc' = [pc EXCEPT ![t] = "idle", ![s] = "obtain"]
     \/ Asleep = {} /\ pc' = [pc EXCEPT ![t] = "idle"]

Step(t) == \/ CallObtain(t) \/ TryLock(t) \/ FutexWait(t) \/ SpuriousWake(t)
           \/ AttemptMutex(t)
           \/ CallRelease(t) \/ Unlock(t) \/ FutexWake(t)

Next == \E t \in Threads : Step(t)

Spec == Init /\ [][Next]_vars

\* A thread that is inside a mutex function goes on, and critical sections
\* end; nobody is obliged to call, and no sleeper wakes by itself.
Fairness == \A t \in Threads :
              /\ WF_vars(TryLock(t))
              /\ WF_vars(FutexWait(t))
              /\ WF_vars(CallRelease(t))
              /\ WF_vars(Unlock(t))
              /\ WF_vars(FutexWake(t))

FairSpec == Spec /\ Fairness

-----------------------------------------------------------------------------
(* Properties *)

\* The futex word is 0 or 1 and every thread is somewhere: an unpaired
\* ReleaseMutex never pushes the word past MUTEX_FREE (releasemutex.c swaps,
\* it does not add).
TypeOK == /\ lock \in {MUTEX_LOCKED, MUTEX_FREE}
          /\ pc \in [Threads -> Where]

Holds(t) == pc[t] \in {"critical", "release"}

\* The autodoc of CreateMutex: the mutex "can be used to guarantee exclusive
\* access across several threads".
MutualExclusion == \A s, t \in Threads : Holds(s) /\ Holds(t) => s = t

\* The strengthening under which mutual exclusion is inductive: the word is
\* locked exactly when some thread is inside.
WordTellsHolder == (lock = MUTEX_LOCKED) <=> (\E t \in Threads : Holds(t))

LockInv == TypeOK /\ MutualExclusion /\ WordTellsHolder

\* A free mutex never has sleepers that nobody is about to wake: either a
\* releaser still has its FUTEX_WAKE to issue or some thread is on its way
\* to the compare-and-swap and will release, and wake, after it.
NoLostWakeup ==
  lock = MUTEX_FREE /\ Asleep # {} =>
    \E t \in Threads : pc[t] \in {"wake", "obtain"}

\* A free mutex somebody sleeps on is taken again: releasing wakes.
FreeLockIsTaken == (lock = MUTEX_FREE /\ Asleep # {}) ~> (lock = MUTEX_LOCKED)

Contract == INSTANCE MutexContract WITH
              asking <- {t \in Threads : pc[t] \in {"obtain", "wait", "asleep"}},
              holder <- {t \in Threads : Holds(t)}

\* Where every caller checks the answer, the futex loops implement the
\* documented contract.
ImplementsContract == Contract!Spec
=============================================================================
