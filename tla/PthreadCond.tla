---------------------------- MODULE PthreadCond ----------------------------
(***************************************************************************)
(* The guest condition variable of threads/condvar.cpp over the mutex of   *)
(* PthreadMutex and the sleep queues of Sleepq.  A chain lock protects the *)
(* queues that hash to it; the wakeup itself is a semaphore of the thread, *)
(* released after the chain lock is given back, or, when the signaller     *)
(* owns the waiter's mutex, only when it unlocks or sleeps.                *)
(***************************************************************************)
EXTENDS PthreadMutex

CONSTANTS Cond,             \* the condition variables, already initialised
          Chain,            \* the entries of sc_table
          Hash,             \* [Cond -> Chain], SC_HASH
          NoCond,           \* a null wchan
          MaxDeferWaiters,  \* the room of defer_waiters and of waddrs
          WaitCalls         \* [Thread -> the kinds of wait its client uses]

ASSUME CondAssumption ==
  /\ NoCond \notin Cond
  /\ Hash \in [Cond -> Chain]
  /\ MaxDeferWaiters \in Nat \ {0}
  /\ WaitCalls \in [Thread -> SUBSET {"wait", "timedwait"}]

VARIABLES
  sc_lock,              \* [Chain -> the thread that holds the spin lock]
  has_user_waiters,     \* PthreadCond
  mutex_obj,            \* Pthread: the mutex of the wait it is in
  frame,                \* the locals of the condition variable calls
  drop,                 \* threads taken off a queue and not handled yet
  waddrs,               \* threads whose semaphore this call will release
  sc_queue, sq_blocked, sq_freeq, sleepqueue, wchan

INSTANCE Sleepq WITH Channel <- Cond, NoChannel <- NoCond

queueVars == <<sc_queue, sq_blocked, sq_freeq, sleepqueue, wchan>>
wakerVars == <<drop, waddrs>>
condVars == <<sc_lock, has_user_waiters, mutex_obj, frame, wakerVars, queueVars>>
cvars == <<vars, condVars>>

(* The condition variable, the saved recursion count and the result of a   *)
(* wait.  Two fields are history: whether a signal reached this wait, and  *)
(* how many locks the client held when it called.                          *)
NoFrame == [cond |-> NoCond, recurse |-> 0, error |-> "0",
            signalled |-> FALSE, depth |-> 0]

cv(t)    == frame[t].cond
chain(t) == Hash[cv(t)]

CondInit ==
  /\ Init
  /\ SleepqInit
  /\ sc_lock = [h \in Chain |-> NoThread]
  /\ has_user_waiters = [c \in Cond |-> FALSE]
  /\ mutex_obj = [t \in Thread |-> NoMutex]
  /\ frame = [t \in Thread |-> NoFrame]
  /\ drop = [t \in Thread |-> <<>>]
  /\ waddrs = [t \in Thread |-> <<>>]

-----------------------------------------------------------------------------
(* PthreadCond::Wait *)

(* The mutex must be the caller's, or the answer is EPERM.  A wchan left   *)
(* over from an earlier wait would be cleared here; WchanClear says there  *)
(* never is one.                                                           *)
WaitCall(t) ==
  /\ pc[t] = "idle"
  /\ \E c \in Cond, m \in Mutex, mode \in WaitCalls[t] :
       /\ m_owner[m] = t
       /\ Enter(t, m, mode)
       /\ frame' = [frame EXCEPT ![t] = [@ EXCEPT !.cond = c, !.depth = held[t][m]]]
  /\ wchan' = [wchan EXCEPT ![t] = NoCond]
  /\ Goto(t, "enqueue")
  /\ UNCHANGED <<mutexVars, wakeVars, held, sc_lock, has_user_waiters, mutex_obj,
                 wakerVars, sc_queue, sq_blocked, sq_freeq, sleepqueue>>

(* Slips: the mutex is given up without the chain lock; the flag is not    *)
(* set before that.                                                        *)
WaitUnlock_NoChainLock(t) ==
  /\ pc[t] = "enqueue"
  /\ has_user_waiters' = [has_user_waiters EXCEPT ![cv(t)] = TRUE]
  /\ will_sleep' = [will_sleep EXCEPT ![t] = TRUE]
  /\ frame' = [frame EXCEPT ![t].recurse = m_count[mp(t)]]
  /\ m_count' = [m_count EXCEPT ![mp(t)] = 0]
  /\ held' = [held EXCEPT ![t][mp(t)] = 0]
  /\ Disown(t, mp(t), "cvunlock")
  /\ UNCHANGED <<m_lock, defer_waiters, wake_sema, sc_lock, mutex_obj, wakerVars,
                 queueVars>>

WaitUnlock_NoFlag(t) ==
  /\ pc[t] = "enqueue"
  /\ sc_lock[chain(t)] = NoThread
  /\ sc_lock' = [sc_lock EXCEPT ![chain(t)] = t]
  /\ will_sleep' = [will_sleep EXCEPT ![t] = TRUE]
  /\ frame' = [frame EXCEPT ![t].recurse = m_count[mp(t)]]
  /\ m_count' = [m_count EXCEPT ![mp(t)] = 0]
  /\ held' = [held EXCEPT ![t][mp(t)] = 0]
  /\ Disown(t, mp(t), "cvunlock")
  /\ UNCHANGED <<m_lock, defer_waiters, wake_sema, has_user_waiters, mutex_obj,
                 wakerVars, queueVars>>

(* SleepqLock, then CvUnlock up to clearing m_owner: the count is saved    *)
(* and zeroed, so that Unlock takes its outermost branch.                  *)
WaitUnlock(t) ==
  /\ pc[t] = "enqueue"
  /\ sc_lock[chain(t)] = NoThread
  /\ sc_lock' = [sc_lock EXCEPT ![chain(t)] = t]
  /\ has_user_waiters' = [has_user_waiters EXCEPT ![cv(t)] = TRUE]
  /\ will_sleep' = [will_sleep EXCEPT ![t] = TRUE]
  /\ frame' = [frame EXCEPT ![t].recurse = m_count[mp(t)]]
  /\ m_count' = [m_count EXCEPT ![mp(t)] = 0]
  /\ held' = [held EXCEPT ![t][mp(t)] = 0]
  /\ Disown(t, mp(t), "cvunlock")
  /\ UNCHANGED <<m_lock, defer_waiters, wake_sema, mutex_obj, wakerVars, queueVars>>

(* m_lock.unlock() inside CvUnlock; will_sleep keeps WakeAll for Sleep.    *)
WaitRelease(t) == Release(t, "cvunlock", "queue") /\ UNCHANGED condVars

(* Slip: a token is taken whether or not there is one.                     *)
ClearWake_Blind(t) == wake_sema' = [wake_sema EXCEPT ![t] = @ - 1]

(* try_acquire on the thread's semaphore: it takes one token if there is   *)
(* one.                                                                    *)
ClearWake(t) == wake_sema' = [wake_sema EXCEPT ![t] = IF @ > 0 THEN @ - 1 ELSE 0]

(* Still under the chain lock: the thread enters the queue, drops a token  *)
(* left by an earlier wait and gives the chain lock back.                  *)
WaitAdd(t) ==
  /\ pc[t] = "queue"
  /\ mutex_obj' = [mutex_obj EXCEPT ![t] = mp(t)]
  /\ SleepqAdd(cv(t), t)
  /\ ClearWake(t)
  /\ sc_lock' = [sc_lock EXCEPT ![chain(t)] = NoThread]
  /\ Goto(t, "presleep")
  /\ UNCHANGED <<mutexVars, will_sleep, defer_waiters, call, held,
                 has_user_waiters, frame, wakerVars>>

(* Slip: the old token is dropped after the chain lock was given back.     *)
SleepEnter_ClearsWake(t) ==
  /\ pc[t] = "presleep"
  /\ will_sleep' = [will_sleep EXCEPT ![t] = FALSE]
  /\ ClearWake(t)
  /\ IF defer_waiters[t] = <<>>
     THEN Goto(t, "sleep") /\ UNCHANGED call
     ELSE Goto(t, "wakeall") /\ WakeThen(t, "sleep")
  /\ UNCHANGED <<mutexVars, defer_waiters, held, condVars>>

(* Pthread::Sleep wakes the threads it has deferred before it blocks.      *)
SleepEnter(t) ==
  /\ pc[t] = "presleep"
  /\ will_sleep' = [will_sleep EXCEPT ![t] = FALSE]
  /\ IF defer_waiters[t] = <<>>
     THEN Goto(t, "sleep") /\ UNCHANGED call
     ELSE Goto(t, "wakeall") /\ WakeThen(t, "sleep")
  /\ UNCHANGED <<mutexVars, defer_waiters, wake_sema, held, condVars>>

(* Sleep returns with a token, or because the time is over; the sliced     *)
(* wait of the guest CPU build gives up at the deadline without a last     *)
(* look at the semaphore, so a token may be left.                          *)
SleepReturn(t) ==
  /\ pc[t] = "sleep"
  /\ \/ /\ wake_sema[t] > 0
        /\ wake_sema' = [wake_sema EXCEPT ![t] = @ - 1]
        /\ frame' = [frame EXCEPT ![t].error = "0"]
     \/ /\ call[t].mode = "timedwait"
        /\ frame' = [frame EXCEPT ![t].error = "ETIMEDOUT"]
        /\ UNCHANGED wake_sema
  /\ Goto(t, "recheck")
  /\ UNCHANGED <<mutexVars, will_sleep, defer_waiters, call, held, sc_lock,
                 has_user_waiters, mutex_obj, wakerVars, queueVars>>

(* Back under the chain lock: wchan tells a signal from a timeout, and     *)
(* from a stale token, after which the thread sleeps again.  The pending   *)
(* cancellation that Wait looks for is never set by any code.              *)
RecheckFrame(t) ==
  /\ pc[t] = "recheck"
  /\ sc_lock[chain(t)] = NoThread
  /\ UNCHANGED <<mutexVars, will_sleep, defer_waiters, call, held, sc_lock,
                 wakerVars>>

(* Slip: a signal that raced the timeout is reported as a timeout.         *)
WaitSignalled_KeepsTimeout(t) ==
  /\ RecheckFrame(t)
  /\ wchan[t] = NoCond
  /\ mutex_obj' = [mutex_obj EXCEPT ![t] = NoMutex]
  /\ Goto(t, "cvlock")
  /\ UNCHANGED <<frame, wake_sema, has_user_waiters, queueVars>>

WaitSignalled(t) ==
  /\ RecheckFrame(t)
  /\ wchan[t] = NoCond
  /\ frame' = [frame EXCEPT ![t].error = "0"]
  /\ mutex_obj' = [mutex_obj EXCEPT ![t] = NoMutex]
  /\ Goto(t, "cvlock")
  /\ UNCHANGED <<wake_sema, has_user_waiters, queueVars>>

(* Slip: a thread that times out stays in the queue.                       *)
WaitExpired_StaysQueued(t) ==
  /\ RecheckFrame(t)
  /\ wchan[t] # NoCond /\ frame[t].error = "ETIMEDOUT"
  /\ wchan' = [wchan EXCEPT ![t] = NoCond]
  /\ mutex_obj' = [mutex_obj EXCEPT ![t] = NoMutex]
  /\ Goto(t, "cvlock")
  /\ UNCHANGED <<wake_sema, frame, has_user_waiters, sc_queue, sq_blocked,
                 sq_freeq, sleepqueue>>

WaitExpired(t) ==
  /\ RecheckFrame(t)
  /\ wchan[t] # NoCond /\ frame[t].error = "ETIMEDOUT"
  /\ SleepqRemove(cv(t), t)
  /\ has_user_waiters' =
       [has_user_waiters EXCEPT ![cv(t)] = OthersWait(cv(t), t)]
  /\ mutex_obj' = [mutex_obj EXCEPT ![t] = NoMutex]
  /\ Goto(t, "cvlock")
  /\ UNCHANGED <<wake_sema, frame>>

WaitSpurious(t) ==
  /\ RecheckFrame(t)
  /\ wchan[t] # NoCond /\ frame[t].error = "0"
  /\ ClearWake(t)
  /\ Goto(t, "presleep")
  /\ UNCHANGED <<frame, mutex_obj, has_user_waiters, queueVars>>

(* Slip: the recursion count is not restored.                              *)
CvLockOwn_LosesCount(t) ==
  /\ pc[t] = "cvown"
  /\ m_owner' = [m_owner EXCEPT ![mp(t)] = t]
  /\ held' = [held EXCEPT ![t][mp(t)] = frame[t].depth]
  /\ Return(t)
  /\ frame' = [frame EXCEPT ![t] = NoFrame]
  /\ UNCHANGED <<m_count, m_deferred, m_lock, wakeVars, sc_lock, has_user_waiters,
                 mutex_obj, wakerVars, queueVars>>

(* CvLock is Lock without a deadline by a thread that is not the owner;    *)
(* the saved recursion count goes back in last.                            *)
CvLockTake(t) == Take(t, "cvlock", "cvown") /\ UNCHANGED condVars

CvLockOwn(t) ==
  /\ pc[t] = "cvown"
  /\ m_owner' = [m_owner EXCEPT ![mp(t)] = t]
  /\ m_count' = [m_count EXCEPT ![mp(t)] = frame[t].recurse]
  /\ held' = [held EXCEPT ![t][mp(t)] = frame[t].depth]
  /\ Return(t)
  /\ frame' = [frame EXCEPT ![t] = NoFrame]
  /\ UNCHANGED <<m_deferred, m_lock, wakeVars, sc_lock, has_user_waiters,
                 mutex_obj, wakerVars, queueVars>>

-----------------------------------------------------------------------------
(* PthreadCond::Signal and PthreadCond::Broadcast.  With nobody in the     *)
(* queue they answer 0 and change nothing.                                 *)

(* Taking waiters off the queue, with the chain lock held from here on.    *)
Dequeue(t, c, removed, others) ==
  /\ sc_lock[Hash[c]] = NoThread
  /\ sc_lock' = [sc_lock EXCEPT ![Hash[c]] = t]
  /\ has_user_waiters' = [has_user_waiters EXCEPT ![c] = others]
  /\ frame' = [u \in Thread |->
                 [frame[u] EXCEPT !.cond = IF u = t THEN c ELSE @,
                                  !.signalled = @ \/ u \in Range(removed)]]
  /\ drop' = [drop EXCEPT ![t] = removed]
  /\ Goto(t, "drop")
  /\ UNCHANGED <<mutexVars, wakeVars, call, held, mutex_obj, waddrs>>

SignalOne(t, c, td) ==
  /\ SleepqRemove(c, td)
  /\ Dequeue(t, c, <<td>>, OthersWait(c, td))

(* signal takes the newest waiter.                                         *)
SignalCall(t, c) ==
  /\ pc[t] = "idle"
  /\ sc_queue[c] # NoThread
  /\ SignalOne(t, c, Head(sq_blocked[c]))

(* signalto_np takes the waiter that the caller names.  A thread that is   *)
(* not in this queue would corrupt it: the model's clients name a waiter.  *)
SignalToCall(t, c) ==
  /\ pc[t] = "idle"
  /\ \E td \in Range(sq_blocked[c]) : SignalOne(t, c, td)

(* Slip: the queue is dropped and only its first waiter woken.             *)
BroadcastCall_WakesOne(t, c) ==
  /\ pc[t] = "idle"
  /\ sc_queue[c] # NoThread
  /\ SleepqDrop(c)
  /\ Dequeue(t, c, <<Head(sq_blocked[c])>>, FALSE)

BroadcastCall(t, c) ==
  /\ pc[t] = "idle"
  /\ sc_queue[c] # NoThread
  /\ SleepqDrop(c)
  /\ Dequeue(t, c, sq_blocked[c], FALSE)

Full(waiters) == Len(waiters) >= MaxDeferWaiters

(* One removed waiter: if the caller owns its mutex the wakeup is deferred *)
(* to the unlock, which the mutex's Deferred flag announces; otherwise it  *)
(* is released after the chain lock.  A full array is emptied first.       *)
DropOne(t) ==
  /\ pc[t] = "drop"
  /\ drop[t] # <<>>
  /\ LET td == Head(drop[t])
         m  == mutex_obj[td]
     IN  \/ /\ m_owner[m] = t /\ Full(defer_waiters[t])
            /\ Goto(t, "wakeall")
            /\ WakeThen(t, "drop")
            /\ UNCHANGED <<defer_waiters, m_deferred, drop, waddrs>>
         \/ /\ m_owner[m] = t /\ ~Full(defer_waiters[t])
            /\ defer_waiters' = [defer_waiters EXCEPT ![t] = Append(@, td)]
            /\ m_deferred' = [m_deferred EXCEPT ![m] = TRUE]
            /\ drop' = [drop EXCEPT ![t] = Tail(@)]
            /\ UNCHANGED <<pc, call, waddrs>>
         \/ /\ m_owner[m] # t /\ Full(waddrs[t])
            /\ Goto(t, "flush")
            /\ UNCHANGED <<call, defer_waiters, m_deferred, drop, waddrs>>
         \/ /\ m_owner[m] # t /\ ~Full(waddrs[t])
            /\ waddrs' = [waddrs EXCEPT ![t] = Append(@, td)]
            /\ drop' = [drop EXCEPT ![t] = Tail(@)]
            /\ UNCHANGED <<pc, call, defer_waiters, m_deferred>>
  /\ UNCHANGED <<m_owner, m_count, m_lock, will_sleep, wake_sema, held, sc_lock,
                 has_user_waiters, mutex_obj, frame, queueVars>>

DropDone(t) ==
  /\ pc[t] = "drop"
  /\ drop[t] = <<>>
  /\ sc_lock' = [sc_lock EXCEPT ![chain(t)] = NoThread]
  /\ frame' = [frame EXCEPT ![t] = NoFrame]
  /\ Goto(t, "release")
  /\ UNCHANGED <<mutexVars, wakeVars, call, held, has_user_waiters, mutex_obj,
                 wakerVars, queueVars>>

(* The semaphores are released one at a time, after the chain lock, or     *)
(* under it when Broadcast's array is full.                                *)
ReleaseOne(t) ==
  /\ pc[t] \in {"release", "flush"}
  /\ IF waddrs[t] # <<>>
     THEN /\ wake_sema' = [wake_sema EXCEPT ![Head(waddrs[t])] = @ + 1]
          /\ waddrs' = [waddrs EXCEPT ![t] = Tail(@)]
          /\ UNCHANGED pc
     ELSE /\ Goto(t, IF pc[t] = "flush" THEN "drop" ELSE "idle")
          /\ UNCHANGED <<wake_sema, waddrs>>
  /\ UNCHANGED <<mutexVars, will_sleep, defer_waiters, call, held, sc_lock,
                 has_user_waiters, mutex_obj, frame, drop, queueVars>>

-----------------------------------------------------------------------------
CondStep(t) ==
  \/ WaitCall(t)   \/ WaitUnlock(t)  \/ WaitRelease(t) \/ WaitAdd(t)
  \/ SleepEnter(t) \/ SleepReturn(t)
  \/ WaitSignalled(t) \/ WaitExpired(t) \/ WaitSpurious(t)
  \/ CvLockTake(t) \/ CvLockOwn(t)
  \/ \E c \in Cond : SignalCall(t, c) \/ SignalToCall(t, c) \/ BroadcastCall(t, c)
  \/ DropOne(t)    \/ DropDone(t)    \/ ReleaseOne(t)

CondNext == \E t \in Thread : \/ MutexStep(t) /\ UNCHANGED condVars
                              \/ WakeAll(t) /\ UNCHANGED condVars
                              \/ CondStep(t)

CondSpec == CondInit /\ [][CondNext]_cvars

-----------------------------------------------------------------------------
CondLabels == {"idle", "lock", "own", "unlock", "wakeall",
               "enqueue", "cvunlock", "queue", "presleep", "sleep", "recheck",
               "cvlock", "cvown", "drop", "flush", "release"}

FrameType == [cond : Cond \cup {NoCond}, recurse : -MaxCount - 1 .. MaxCount,
              error : {"0", "ETIMEDOUT"}, signalled : BOOLEAN, depth : Int]

(* Every variable keeps its type.                                          *)
CondTypeOK ==
  /\ TypesWith(CondLabels, Calls \cup {"none", "wait", "timedwait"},
               {"idle", "sleep", "drop"})
  /\ SleepqTypeOK
  /\ sc_lock \in [Chain -> Thread \cup {NoThread}]
  /\ has_user_waiters \in [Cond -> BOOLEAN]
  /\ mutex_obj \in [Thread -> Mutex \cup {NoMutex}]
  /\ frame \in [Thread -> FrameType]
  /\ drop \in [Thread -> Seq(Thread)]
  /\ waddrs \in [Thread -> Seq(Thread)]

(* The thread has entered the queue and not yet looked at its wchan again. *)
Asleep(t) == \/ pc[t] \in {"presleep", "sleep"}
             \/ pc[t] = "wakeall" /\ call[t].next = "sleep"

(* It has given its mutex up and no signal has reached it.                 *)
Unsignalled(t) == /\ pc[t] \in {"cvunlock", "queue", "recheck"} \/ Asleep(t)
                  /\ ~frame[t].signalled

(* Its wakeup exists: as a token, or in the hands of a thread that will    *)
(* release it.                                                             *)
WakeupOnItsWay(t) ==
  \/ wake_sema[t] > 0
  \/ \E u \in Thread : t \in Range(defer_waiters[u]) \cup Range(waddrs[u])
                             \cup Range(drop[u])

(* No wakeup is lost: whatever stale tokens, deferrals, timeouts and       *)
(* ClearWake do, a sleeping thread that Signal or Broadcast has taken off  *)
(* the queue has a wakeup that is released or is about to be.              *)
NoLostWakeup ==
  \A t \in Thread : Asleep(t) /\ wchan[t] = NoCond => WakeupOnItsWay(t)

(* Unlock-and-wait is atomic for signallers: whenever a signaller can look *)
(* at the queue, each thread that gave its mutex up to wait and was not    *)
(* signalled since is in the queue.                                        *)
NoMissedWaiter ==
  \A t \in Thread :
    Unsignalled(t) /\ sc_lock[chain(t)] = NoThread
      => t \in Range(sq_blocked[cv(t)])

(* A deferred wakeup is not forgotten: a thread that has deferred waiters  *)
(* owns a mutex whose Deferred flag will make Unlock wake them, or is in a *)
(* call that wakes them before it returns or blocks.                       *)
DeferredWillFlush ==
  \A t \in Thread : defer_waiters[t] # <<>> =>
    \/ \E m \in Mutex : m_owner[m] = t /\ m_deferred[m]
    \/ pc[t] = "unlock" /\ call[t].deferred
    \/ pc[t] \in {"wakeall", "cvunlock", "queue", "presleep"}

(* Wait answers 0 exactly when a signal was spent on this wait: a timeout  *)
(* that loses the race against a signal is not reported, so the signal is  *)
(* not swallowed, and a stale token is never taken for a signal.           *)
SignalledIffSuccess ==
  \A t \in Thread : pc[t] \in {"cvlock", "cvown"} =>
    (frame[t].error = "0" <=> frame[t].signalled)

(* The comment in Wait: the flag is set before the mutex is unlocked, so   *)
(* that it can be checked without the chain lock, which nothing does yet.  *)
(* It covers every thread that unlocked its mutex and still waits, and is  *)
(* exact when the chain is unlocked.                                       *)
UserWaitersFlagged ==
  /\ \A t \in Thread : Unsignalled(t) => has_user_waiters[cv(t)]
  /\ \A c \in Cond : sc_lock[Hash[c]] = NoThread =>
       (has_user_waiters[c] <=> sq_blocked[c] # <<>>)

(* A thread comes out of every call off all queues, so that Wait's branch  *)
(* for a thread "already on wait queue" is never needed.                   *)
WchanClear ==
  \A t \in Thread : pc[t] \in {"idle", "enqueue", "lock", "cvlock"} =>
    wchan[t] = NoCond /\ mutex_obj[t] = NoMutex

(* What a wait leaves behind is what it found: the thread is on no queue    *)
(* and has its mutex back at the depth at which it gave it up, with         *)
(* whatever nesting of locks and waits around it (Wait, CvUnlock, CvLock).  *)
WaitUndone == WchanClear /\ RecursionBalanced

-----------------------------------------------------------------------------
(* What the code implements *)

InWait(t) == \/ pc[t] \in {"cvunlock", "queue", "recheck", "cvlock", "cvown"}
             \/ Asleep(t)

TimedOut(t) == pc[t] \in {"cvlock", "cvown"} /\ frame[t].error = "ETIMEDOUT"

WaitPhase(t) == CASE TimedOut(t)                            -> "timedout"
                  [] ~TimedOut(t) /\ frame[t].signalled     -> "signalled"
                  [] ~TimedOut(t) /\ ~frame[t].signalled    -> "waiting"

LevelOf(m) == IF m_owner[m] = NoThread THEN 0 ELSE m_count[m] + 1

PhaseOf(t) == IF InWait(t)
              THEN [at |-> WaitPhase(t), cond |-> cv(t), mutex |-> mp(t),
                    level |-> frame[t].recurse + 1]
              ELSE [at |-> "running"]

(* The mutex is the monitor's from the moment m_owner says so, and a wait  *)
(* begins where m_owner is cleared and ends where it is set again.         *)
M == INSTANCE Monitor WITH owner <- m_owner,
                           level <- [m \in Mutex |-> LevelOf(m)],
                           phase <- [t \in Thread |-> PhaseOf(t)]

(* Every behaviour of the mutexes, sleep queues, chain locks, semaphores   *)
(* and deferred wakeups is a behaviour of the monitor: in particular a     *)
(* broadcast reaches every waiter and a wait is entered in one step.       *)
ImplementsMonitor == M!MonitorSpec

(* Threads in a call are scheduled.  A client that owns a mutex unlocks it *)
(* in the end, however many other calls it makes before.                   *)
InCall(t) ==
  \/ /\ LockTake(t) \/ LockOwn(t) \/ UnlockRelease(t) \/ WakeAll(t)
     /\ UNCHANGED condVars
  \/ WaitUnlock(t) \/ WaitRelease(t) \/ WaitAdd(t) \/ SleepEnter(t)
  \/ SleepReturn(t) \/ WaitSignalled(t) \/ WaitExpired(t) \/ WaitSpurious(t)
  \/ CvLockTake(t) \/ CvLockOwn(t)
  \/ DropOne(t) \/ DropDone(t) \/ ReleaseOne(t)

GivesUp(t, m) == UnlockCall(t, m) /\ ~Counts(m) /\ UNCHANGED condVars

CondFairness ==
  \A t \in Thread : /\ WF_cvars(InCall(t))
                    /\ \A m \in Mutex : SF_cvars(GivesUp(t, m))

FairCondSpec == CondSpec /\ CondFairness

(* A signal wakes: a sleeping thread that was taken off the queue leaves   *)
(* its sleep, also when the wakeup was deferred to an unlock and when the  *)
(* arrays of deferred wakeups were full.                                   *)
SignalledWakes ==
  \A t \in Thread :
    pc[t] = "sleep" /\ wchan[t] = NoCond ~> pc[t] # "sleep"

=============================================================================
