---------------------------- MODULE PthreadMutex ----------------------------
(***************************************************************************)
(* The guest mutex of threads/mutex.cpp: an owner word and a recursion     *)
(* count kept next to a host timed mutex that does the blocking.  A call   *)
(* is split at every point where another thread can see it half done:     *)
(* between taking the host lock and writing m_owner, and between clearing  *)
(* m_owner and giving the host lock back.                                  *)
(***************************************************************************)
EXTENDS Integers, Sequences, FiniteSets

CONSTANTS Thread,       \* the guest threads
          Mutex,        \* the mutexes, already initialised
          NoThread,     \* the null Pthread*
          NoMutex,      \* the null PthreadMutex*
          Type,         \* [Mutex -> MutexTypes], the low byte of m_flags
          Spins,        \* the mutexes with m_spinloops > 0 and protocol None
          LockCalls,    \* the ways of locking that the clients use
          MaxCount,     \* INT_MAX, the largest recursion count
          FoldedCheck   \* the build compiled `m_count + 1 > 0` as `m_count >= 0`

MutexTypes == {"ErrorCheck", "Recursive", "Normal", "AdaptiveNp"}

(* "lock" blocks, "timed" has a deadline, "badtime" has a tv_nsec outside  *)
(* [0, 10^9) and "try" never blocks.                                       *)
Calls == {"lock", "timed", "badtime", "try"}

ASSUME MutexAssumption ==
  /\ NoThread \notin Thread
  /\ NoMutex \notin Mutex
  /\ Type \in [Mutex -> MutexTypes]
  /\ Spins \subseteq Mutex
  /\ LockCalls \subseteq Calls
  /\ MaxCount \in Nat \ {0}
  /\ FoldedCheck \in BOOLEAN

VARIABLES
  m_owner, m_count, m_deferred, m_lock,     \* PthreadMutex; m_lock: its holder
  will_sleep, defer_waiters, wake_sema,     \* Pthread, as far as Unlock uses it
  pc, call,                                 \* the call a thread is in
  held                                      \* history: locks a client was given

mutexVars == <<m_owner, m_count, m_deferred, m_lock>>
wakeVars  == <<will_sleep, defer_waiters, wake_sema>>
vars      == <<mutexVars, wakeVars, pc, call, held>>

(* The locals of a call: its mutex, how it locks, the Deferred flag that   *)
(* Unlock has read, and where WakeAll returns to.                          *)
Call(m, mode, deferred, next) ==
  [mutex |-> m, mode |-> mode, deferred |-> deferred, next |-> next]

NoCall == Call(NoMutex, "none", FALSE, "idle")

mp(t) == call[t].mutex

Goto(t, label) == pc' = [pc EXCEPT ![t] = label]
Return(t)      == Goto(t, "idle") /\ call' = [call EXCEPT ![t] = NoCall]
Enter(t, m, mode) == call' = [call EXCEPT ![t] = Call(m, mode, FALSE, "idle")]
WakeThen(t, next) ==
  call' = [call EXCEPT ![t] = Call(mp(t), call[t].mode, call[t].deferred, next)]

Init ==
  /\ m_owner = [m \in Mutex |-> NoThread]
  /\ m_count = [m \in Mutex |-> 0]
  /\ m_deferred = [m \in Mutex |-> FALSE]
  /\ m_lock = [m \in Mutex |-> NoThread]
  /\ will_sleep = [t \in Thread |-> FALSE]
  /\ defer_waiters = [t \in Thread |-> <<>>]
  /\ wake_sema = [t \in Thread |-> 0]
  /\ pc = [t \in Thread |-> "idle"]
  /\ call = [t \in Thread |-> NoCall]
  /\ held = [t \in Thread |-> [m \in Mutex |-> 0]]

-----------------------------------------------------------------------------
(* Locking *)

(* m_count++ on an int: the sum wraps when the build lets it.              *)
Incremented(n) == IF n = MaxCount THEN -MaxCount - 1 ELSE n + 1

(* `m_count + 1 > 0` is the source's test for room.  Signed overflow is    *)
(* undefined, so a build may test `m_count >= 0` instead.                  *)
HasRoom(n) == IF FoldedCheck THEN n >= 0 ELSE n \in 0 .. MaxCount - 1

(* Slip: the type is not looked at.                                        *)
SelfLock_AnyType(t, m, mode) ==
  /\ m_owner[m] = t
  /\ HasRoom(m_count[m])
  /\ m_count' = [m_count EXCEPT ![m] = Incremented(@)]
  /\ held' = [held EXCEPT ![t][m] = @ + 1]
  /\ UNCHANGED <<m_owner, m_deferred, m_lock, wakeVars, pc, call>>

(* SelfLock and SelfTryLock: the caller owns the mutex already.  A         *)
(* recursive mutex counts while it has room; a Normal one sleeps a while,  *)
(* takes nothing and answers 0 to a lock without a deadline.  Every other  *)
(* case (EAGAIN, EDEADLK, EBUSY, EINVAL, or ETIMEDOUT after a sleep that   *)
(* holds nothing) changes no state.                                        *)
SelfLock(t, m, mode) ==
  /\ m_owner[m] = t
  /\ \/ /\ Type[m] = "Recursive"
        /\ HasRoom(m_count[m])
        /\ m_count' = [m_count EXCEPT ![m] = Incremented(@)]
     \/ /\ Type[m] = "Normal"
        /\ mode = "lock"
        /\ UNCHANGED m_count
  /\ held' = [held EXCEPT ![t][m] = @ + 1]
  /\ UNCHANGED <<m_owner, m_deferred, m_lock, wakeVars, pc, call>>

(* Slip: the owner is not looked at.                                       *)
LockEnter_NoOwnerCheck(t, m, mode) ==
  /\ Enter(t, m, mode)
  /\ Goto(t, "lock")
  /\ UNCHANGED <<mutexVars, wakeVars, held>>

(* Lock or TryLock goes on to the host lock of a mutex it does not own.    *)
LockEnter(t, m, mode) ==
  /\ m_owner[m] # t
  /\ Enter(t, m, mode)
  /\ Goto(t, "lock")
  /\ UNCHANGED <<mutexVars, wakeVars, held>>

LockCall(t) ==
  /\ pc[t] = "idle"
  /\ \E m \in Mutex, mode \in LockCalls : SelfLock(t, m, mode)
                                       \/ LockEnter(t, m, mode)

(* m_lock.lock(), or a successful try of it: the host mutex is taken and   *)
(* m_owner still names nobody.  With a bad tv_nsec only the adaptive spin  *)
(* tries at all.                                                           *)
Take(t, at, next) ==
  /\ pc[t] = at
  /\ m_lock[mp(t)] = NoThread
  /\ call[t].mode = "badtime" => mp(t) \in Spins
  /\ m_lock' = [m_lock EXCEPT ![mp(t)] = t]
  /\ Goto(t, next)
  /\ UNCHANGED <<m_owner, m_count, m_deferred, wakeVars, call, held>>

LockTake(t) == Take(t, "lock", "own")

(* The call gives up: EBUSY or ETIMEDOUT with the host mutex in other      *)
(* hands, or EINVAL for a malformed time.                                  *)
LockFail(t) ==
  /\ pc[t] = "lock"
  /\ \/ call[t].mode \in {"try", "timed"} /\ m_lock[mp(t)] # NoThread
     \/ call[t].mode = "badtime"
  /\ Return(t)
  /\ UNCHANGED <<mutexVars, wakeVars, held>>

(* Slip: TryLock does not record the owner.                                *)
LockOwn_TryForgets(t) ==
  /\ pc[t] = "own"
  /\ m_owner' = [m_owner EXCEPT ![mp(t)] = IF call[t].mode = "try" THEN @ ELSE t]
  /\ held' = [held EXCEPT ![t][mp(t)] = @ + 1]
  /\ Return(t)
  /\ UNCHANGED <<m_count, m_deferred, m_lock, wakeVars>>

LockOwn(t) ==
  /\ pc[t] = "own"
  /\ m_owner' = [m_owner EXCEPT ![mp(t)] = t]
  /\ held' = [held EXCEPT ![t][mp(t)] = @ + 1]
  /\ Return(t)
  /\ UNCHANGED <<m_count, m_deferred, m_lock, wakeVars>>

-----------------------------------------------------------------------------
(* Unlocking *)

(* The outermost unlock: the Deferred flag is read into a local and reset, *)
(* then the owner is cleared, all of it under the host lock.               *)
Disown(t, m, next) ==
  /\ m_deferred' = [m_deferred EXCEPT ![m] = FALSE]
  /\ m_owner' = [m_owner EXCEPT ![m] = NoThread]
  /\ call' = [call EXCEPT ![t] =
                 Call(m, call[t].mode, m_deferred[m], call[t].next)]
  /\ Goto(t, next)

(* Slips: the count's zero is not looked at; the count is ignored.         *)
Counts_BelowZero(m) == Type[m] = "Recursive"
Counts_Never(m) == FALSE

Counts(m) == Type[m] = "Recursive" /\ m_count[m] > 0

(* Unlock by the owner; anybody else gets EPERM.                           *)
UnlockCall(t, m) ==
  /\ pc[t] = "idle"
  /\ m_owner[m] = t
  /\ \/ /\ Counts(m)
        /\ m_count' = [m_count EXCEPT ![m] = @ - 1]
        /\ UNCHANGED <<m_owner, m_deferred, pc, call>>
     \/ /\ ~Counts(m)
        /\ Disown(t, m, "unlock")
        /\ UNCHANGED m_count
  /\ held' = [held EXCEPT ![t][m] = @ - 1]
  /\ UNCHANGED <<m_lock, wakeVars>>

(* Slip: the wakeups deferred to the unlock are left for some other time.  *)
Release_NoWake(t, at, next) ==
  /\ pc[t] = at
  /\ m_lock' = [m_lock EXCEPT ![mp(t)] = NoThread]
  /\ IF next = "idle" THEN Return(t) ELSE Goto(t, next) /\ UNCHANGED call
  /\ UNCHANGED <<m_owner, m_count, m_deferred, wakeVars, held>>

(* m_lock.unlock().  The wakeups deferred to this unlock follow it, unless *)
(* the thread is on its way to sleep on a condition variable.              *)
Release(t, at, next) ==
  /\ pc[t] = at
  /\ m_lock' = [m_lock EXCEPT ![mp(t)] = NoThread]
  /\ IF call[t].deferred /\ ~will_sleep[t]
     THEN Goto(t, "wakeall") /\ WakeThen(t, next)
     ELSE IF next = "idle" THEN Return(t) ELSE Goto(t, next) /\ UNCHANGED call
  /\ UNCHANGED <<m_owner, m_count, m_deferred, wakeVars, held>>

UnlockRelease(t) == Release(t, "unlock", "idle")

(* Pthread::WakeAll, one release of a waiter's semaphore at a time.  Only  *)
(* a condition variable defers wakeups, so it is PthreadCond that takes    *)
(* this step.                                                              *)
WakeAll(t) ==
  /\ pc[t] = "wakeall"
  /\ IF defer_waiters[t] # <<>>
     THEN /\ wake_sema' = [wake_sema EXCEPT ![Head(defer_waiters[t])] = @ + 1]
          /\ defer_waiters' = [defer_waiters EXCEPT ![t] = Tail(@)]
          /\ UNCHANGED <<pc, call>>
     ELSE /\ IF call[t].next = "idle"
             THEN Return(t)
             ELSE /\ Goto(t, call[t].next)
                  /\ WakeThen(t, "idle")
          /\ UNCHANGED <<defer_waiters, wake_sema>>
  /\ UNCHANGED <<mutexVars, will_sleep, held>>

-----------------------------------------------------------------------------
MutexStep(t) ==
  \/ LockCall(t)
  \/ LockTake(t)
  \/ LockFail(t)
  \/ LockOwn(t)
  \/ \E m \in Mutex : UnlockCall(t, m)
  \/ UnlockRelease(t)

Next == \E t \in Thread : MutexStep(t)

Spec == Init /\ [][Next]_vars

-----------------------------------------------------------------------------
(* Properties.  PthreadCond adds the steps of a condition wait to these    *)
(* labels, which is why the labels of its own half-done states are named.  *)

TypesWith(labels, modes, nexts) ==
  /\ m_owner \in [Mutex -> Thread \cup {NoThread}]
  /\ m_lock \in [Mutex -> Thread \cup {NoThread}]
  /\ m_count \in [Mutex -> -MaxCount - 1 .. MaxCount]
  /\ m_deferred \in [Mutex -> BOOLEAN]
  /\ will_sleep \in [Thread -> BOOLEAN]
  /\ defer_waiters \in [Thread -> Seq(Thread)]
  /\ wake_sema \in [Thread -> Nat]
  /\ pc \in [Thread -> labels]
  /\ call \in [Thread -> [mutex : Mutex \cup {NoMutex}, mode : modes,
                          deferred : BOOLEAN, next : nexts]]
  /\ held \in [Thread -> [Mutex -> Int]]

(* Every variable keeps its type; a count may have wrapped below zero.     *)
TypeOK == TypesWith({"idle", "lock", "own", "unlock", "wakeall"},
                    Calls \cup {"none"}, {"idle"})

(* A Normal mutex answers 0 to relocks that it does not count, so that its *)
(* owner's first unlock frees it: what follows is about the others.        *)
Counted == {m \in Mutex : Type[m] # "Normal"}

(* Two clients never both believe they hold a mutex: a lock call that      *)
(* answered 0 and was not undone by as many unlocks excludes the others.   *)
MutualExclusion ==
  \A m \in Counted, t, u \in Thread :
    held[t][m] > 0 /\ held[u][m] > 0 => t = u

(* A client's outstanding lock calls and the pair (m_owner, m_count) agree,*)
(* and a mutex nobody owns passes no count on to its next owner: the last  *)
(* unlock of Unlock and CvUnlock leaves m_count at zero.                   *)
RecursionBalanced ==
  \A m \in Counted :
    /\ \A t \in Thread :
         held[t][m] = IF m_owner[m] = t THEN m_count[m] + 1 ELSE 0
    /\ m_owner[m] = NoThread => m_count[m] = 0

InTransit == {"own", "unlock"}

(* The host lock and m_owner, written in separate steps by Lock and Unlock,*)
(* never disagree for longer than one call: an owner holds the host lock,  *)
(* and a host lock without an owner is in a call of its holder that is     *)
(* about to set m_owner or to unlock.  No path leaks the host lock.        *)
LockAccounted ==
  \A m \in Mutex :
    /\ m_owner[m] # NoThread => m_lock[m] = m_owner[m]
    /\ \A t \in Thread :
         (m_lock[m] = t /\ m_owner[m] # t) <=> (mp(t) = m /\ pc[t] \in InTransit)

(* No thread ever blocks on the host lock that it holds itself: SelfLock   *)
(* catches every relock before m_lock.lock().                              *)
NoSelfDeadlock ==
  \A t \in Thread : pc[t] = "lock" => m_lock[mp(t)] # t

=============================================================================
