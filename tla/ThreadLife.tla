----------------------------- MODULE ThreadLife -----------------------------
(***************************************************************************)
(* The life of a thread, from CreateThread to the end of                   *)
(* __thread_bootstrap (libs/exec/createthread.cpp).  thread_sync_lock is   *)
(* an ExecMutex whose callers ignore the answer of ObtainMutex; it is      *)
(* taken by the creator, released by the child once it has read its tags,  *)
(* and taken again by every thread that ends.                              *)
(***************************************************************************)
EXTENDS Naturals

CONSTANTS
  Threads,        \* all threads there can be
  Main,           \* the one that exists at start and never ends
  Builds          \* the processors looked at: the code has a branch for
                  \*   "aarch64" and one for everything else ("other")

ASSUME ThreadsAssumption == /\ Main \in Threads
                            /\ Builds \subseteq {"aarch64", "other"}

VARIABLES
  build,      \* the processor the program was built for
  lock, pc,   \* thread_sync_lock: its word, and each thread's place in it
  life,       \* where each thread stands outside the mutex functions
  child,      \* the thread each creator is about to clone
  stack,      \* the memory AllocVecAligned gave each thread as its stack
  temp,       \* threads that run on the common exit stack temp_smp
  refused     \* threads whose clone system call failed (EAGAIN, ENOMEM)

vars == <<build, lock, pc, life, child, stack, temp, refused>>

Sync == INSTANCE ExecMutex WITH ResultChecked <- FALSE

Life == {"unborn", "running", "creating", "bootstrap", "ending", "unstacked",
         "unlocking", "dead"}

Idle(t)   == pc[t] = "idle"
Inside(t) == pc[t] = "critical"    \* ObtainMutex has returned, TRUE or FALSE

Init == /\ Sync!InitMutex(Sync!MUTEX_FREE)
        /\ pc    = [t \in Threads |-> "idle"]
        /\ life  = [t \in Threads |-> IF t = Main THEN "running" ELSE "unborn"]
        /\ child = [t \in Threads |-> t]
        /\ stack = [t \in Threads |-> IF t = Main THEN "own" ELSE "none"]
        /\ temp  = {}
        /\ build \in Builds
        /\ refused = {}

-----------------------------------------------------------------------------
(* CreateThread, in the creator *)

\* Up to the call of ObtainMutex: the stack is allocated outside the lock.
CreateThread(p, c) ==
  /\ life[p] = "running" /\ Idle(p)
  /\ life[c] = "unborn" /\ stack[c] = "none"   \* a new thread, new memory
  /\ life'  = [life  EXCEPT ![p] = "creating"]
  /\ child' = [child EXCEPT ![p] = c]
  /\ stack' = [stack EXCEPT ![c] = "own"]
  /\ Sync!CallObtain(p)
  /\ UNCHANGED <<build, temp, refused>>

\* SC_clone and return: the child goes on with the lock its creator took.
Clone(p) ==
  /\ life[p] = "creating" /\ Inside(p)
  /\ life' = [life EXCEPT ![p] = "running", ![child[p]] = "bootstrap"]
  /\ pc'   = [pc EXCEPT ![p] = "idle", ![child[p]] = "critical"]
  /\ UNCHANGED <<build, lock, child, stack, temp, refused>>

\* The result of SC_clone is not looked at: CreateThread returns, the stack
\* and the lock stay as they are.
CloneFails(p) ==
  /\ life[p] = "creating" /\ Inside(p)
  /\ life' = [life EXCEPT ![p] = "running"]
  /\ pc'   = [pc EXCEPT ![p] = "idle"]
  /\ refused' = refused \cup {child[p]}
  /\ UNCHANGED <<build, lock, child, stack, temp>>

(* __thread_bootstrap, in the child *)

\* Seeded fault: the child starts its function and keeps the lock.
ReadTags_KeepsLock(t) ==
  /\ life[t] = "bootstrap"
  /\ life' = [life EXCEPT ![t] = "running"]
  /\ pc'   = [pc EXCEPT ![t] = "idle"]
  /\ UNCHANGED <<build, lock, child, stack, temp, refused>>

\* Seeded fault: the child adds to the word instead of calling ReleaseMutex.
ReadTags_Adds(t) ==
  /\ life[t] = "bootstrap"
  /\ life' = [life EXCEPT ![t] = "running"]
  /\ pc'   = [pc EXCEPT ![t] = "idle"]
  /\ lock' = lock + 1
  /\ UNCHANGED <<build, child, stack, temp, refused>>

\* The tags are read, ReleaseMutex is called.
ReadTags(t) ==
  /\ life[t] = "bootstrap"
  /\ life' = [life EXCEPT ![t] = "running"]
  /\ Sync!CallRelease(t)
  /\ UNCHANGED <<build, child, stack, temp, refused>>

\* The thread's function returns, its tags are freed, ObtainMutex is called.
FunctionReturns(t) ==
  /\ t # Main /\ life[t] = "running" /\ Idle(t)
  /\ life' = [life EXCEPT ![t] = "ending"]
  /\ Sync!CallObtain(t)
  /\ UNCHANGED <<build, child, stack, temp, refused>>

\* Seeded fault: FreeVec is called before the stack pointer is switched.
SwitchStack_FreesFirst(t) ==
  /\ build = "aarch64" /\ life[t] = "ending" /\ Inside(t) /\ t \notin temp
  /\ stack' = [stack EXCEPT ![t] = "freed"]
  /\ life'  = [life EXCEPT ![t] = "unstacked"]
  /\ UNCHANGED <<build, lock, pc, child, temp, refused>>

\* aarch64: sp is set to the common exit stack before anything is freed.
SwitchStack(t) ==
  /\ build = "aarch64" /\ life[t] = "ending" /\ Inside(t) /\ t \notin temp
  /\ temp' = temp \cup {t}
  /\ UNCHANGED <<build, lock, pc, life, child, stack, refused>>

\* FreeVec(ssp): the memory of the thread's stack goes back to the heap.
FreeStack(t) ==
  /\ life[t] = "ending" /\ Inside(t)
  /\ build = "aarch64" => t \in temp
  /\ stack' = [stack EXCEPT ![t] = "freed"]
  /\ life'  = [life EXCEPT ![t] = "unstacked"]
  /\ UNCHANGED <<build, lock, pc, child, temp, refused>>

\* aarch64 only: internalReleaseMutex, still on the exit stack.
LastRelease(t) ==
  /\ build = "aarch64" /\ life[t] = "unstacked"
  /\ life' = [life EXCEPT ![t] = "unlocking"]
  /\ Sync!CallRelease(t)
  /\ UNCHANGED <<build, child, stack, temp, refused>>

\* SC_exit; outside aarch64 the thread goes while it is inside the lock.
Exit(t) ==
  /\ \/ build = "aarch64" /\ life[t] = "unlocking" /\ Idle(t)
     \/ build # "aarch64" /\ life[t] = "unstacked"
  /\ life' = [life EXCEPT ![t] = "dead"]
  /\ pc'   = [pc EXCEPT ![t] = "idle"]
  /\ temp' = temp \ {t}
  /\ UNCHANGED <<build, lock, child, stack, refused>>

\* Steps inside ObtainMutex and ReleaseMutex.
MutexStep(t) ==
  /\ \/ Sync!TryLock(t) \/ Sync!FutexWait(t) \/ Sync!SpuriousWake(t)
     \/ Sync!Unlock(t) \/ Sync!FutexWake(t)
  /\ UNCHANGED <<build, life, child, stack, temp, refused>>

-----------------------------------------------------------------------------
\* The run of a thread that needs nobody's decision.
Proceed(t) == \/ Clone(t) \/ CloneFails(t)
              \/ ReadTags(t) \/ SwitchStack(t) \/ FreeStack(t)
              \/ LastRelease(t) \/ Exit(t)

Next == \E t \in Threads :
          \/ \E c \in Threads : CreateThread(t, c)
          \/ FunctionReturns(t)
          \/ Proceed(t)
          \/ MutexStep(t)

Spec == Init /\ [][Next]_vars

\* Every thread that is started or ending keeps running; whether a function
\* returns, and whether anybody creates threads, is its own affair.
InMutex(t) == \/ Sync!TryLock(t) \/ Sync!FutexWait(t)
              \/ Sync!Unlock(t) \/ Sync!FutexWake(t)

Fairness == \A t \in Threads :
              /\ WF_vars(Proceed(t))
              /\ WF_vars(InMutex(t) /\ UNCHANGED <<build, life, child, stack, temp, refused>>)

FairSpec == Spec /\ Fairness

\* The behaviours in which nobody goes on without the lock: ObtainMutex never
\* says FALSE, since FUTEX_WAIT always finds the word locked.
NobodyRefused == \A t \in Threads : pc[t] = "wait" => pc'[t] # Sync!Refused

ObtainedSpec == Init /\ [][Next /\ NobodyRefused]_vars

-----------------------------------------------------------------------------
(* Properties *)

TypeOK == /\ lock \in {Sync!MUTEX_LOCKED, Sync!MUTEX_FREE}
          /\ pc \in [Threads -> Sync!Where]
          /\ life \in [Threads -> Life]
          /\ child \in [Threads -> Threads]
          /\ stack \in [Threads -> {"none", "own", "freed"}]
          /\ temp \subseteq Threads /\ refused \subseteq Threads
          /\ build \in Builds

Alive(t) == life[t] \notin {"unborn", "dead"}

LockHasHolder ==
  lock = Sync!MUTEX_LOCKED => \E t \in Threads : Sync!Holds(t) /\ Alive(t)

\* "From this point on lock globally as long as the TagList is in use"
\* (createthread.cpp:55): unless a clone has failed, thread_sync_lock is
\* locked only while a live thread is between its ObtainMutex and the
\* ReleaseMutex that answers it, in the creator, the child or the end.
LockOnlyWhileInUse == refused = {} => LockHasHolder

\* The same, for the build whose threads release the lock when they end.
LockOnlyWhileInUseAarch64 == build = "aarch64" => LockOnlyWhileInUse

\* On aarch64 no thread executes on a stack that has been given back to the
\* heap: FreeVec(ssp) comes after the switch to temp_smp and nothing comes
\* back from there.
StackOutlivesUse ==
  build = "aarch64" =>
    \A t \in Threads : stack[t] = "freed" => life[t] = "dead" \/ t \in temp

\* createthread.cpp:135: the mutex is obtained "in order to perform a stack
\* switch to a common thread exit stack", of which there is one for all
\* threads; so whoever is on it is there alone.  A thread that goes on when
\* ObtainMutex has said FALSE breaks this too; ObtainedSpec leaves that out.
ExitStackIsPrivate == \A s, t \in temp : s = t

\* On aarch64 a thread whose function has returned disappears: no lost
\* wakeup and no lock left behind keeps it, unless a clone has failed.
EndedThreadsDisappear ==
  \A t \in Threads :
    (build = "aarch64" /\ life[t] = "ending")
      ~> (life[t] = "dead" \/ refused # {})

\* Likewise CreateThread returns to its caller.
CreateReturns ==
  \A t \in Threads :
    (build = "aarch64" /\ life[t] = "creating")
      ~> (life[t] = "running" \/ refused # {})
=============================================================================
