------------------------- MODULE PthreadMutexProofs -------------------------
(* Proofs about PthreadMutex, for any threads, mutexes and INT_MAX.        *)
EXTENDS PthreadMutex, TLAPS

(* A call that works on a host lock knows its mutex.                       *)
CallHasMutex ==
  \A t \in Thread : pc[t] \in {"lock", "own", "unlock"} => mp(t) \in Mutex

TypeInv == TypeOK /\ CallHasMutex

CallType == [mutex : Mutex \cup {NoMutex}, mode : Calls \cup {"none"},
             deferred : BOOLEAN, next : {"idle"}]

(* The part of the invariant about the calls, all that most steps touch.   *)
CallsOK ==
  /\ pc \in [Thread -> {"idle", "lock", "own", "unlock", "wakeall"}]
  /\ call \in [Thread -> CallType]
  /\ CallHasMutex

(* The initial state of MutexInit and idle threads has the types.          *)
LEMMA InitType == Init => TypeInv
  BY MutexAssumption
     DEF Init, TypeInv, CallHasMutex, TypeOK, TypesWith, NoCall, Call

(* A client's count of its own lock calls stays a number.                  *)
LEMMA HeldType ==
  ASSUME held \in [Thread -> [Mutex -> Int]], NEW t \in Thread, NEW m \in Mutex,
         NEW n \in Int
  PROVE  [held EXCEPT ![t][m] = n] \in [Thread -> [Mutex -> Int]]
  OBVIOUS

(* A recursive relock takes m_count up by one or, at INT_MAX in a build    *)
(* that folds the test, to INT_MIN: the type holds both.                   *)
LEMMA IncrementedType ==
  ASSUME NEW n \in -MaxCount - 1 .. MaxCount
  PROVE  Incremented(n) \in -MaxCount - 1 .. MaxCount
  BY MutexAssumption DEF Incremented

(* A thread moves to a label, with the locals r of its call.               *)
LEMMA CallMoves ==
  ASSUME CallsOK, NEW t \in Thread, NEW r \in CallType,
         NEW label \in {"idle", "lock", "own", "unlock", "wakeall"},
         label \in {"lock", "own", "unlock"} => r.mutex \in Mutex,
         Goto(t, label), call' = [call EXCEPT ![t] = r]
  PROVE  CallsOK'
<1>1. pc' \in [Thread -> {"idle", "lock", "own", "unlock", "wakeall"}]
  BY DEF CallsOK, Goto
<1>2. call' \in [Thread -> CallType]
  BY DEF CallsOK
<1>3. CallHasMutex'
  BY DEF CallsOK, CallHasMutex, CallType, Goto, mp
<1> QED
  BY <1>1, <1>2, <1>3 DEF CallsOK

(* A thread leaves its call.                                               *)
LEMMA Returns ==
  ASSUME CallsOK, NEW t \in Thread, Return(t)
  PROVE  CallsOK'
<1>1. NoCall \in CallType
  BY DEF NoCall, Call, CallType
<1> QED
  BY <1>1, CallMoves DEF Return

(* A thread goes on to flush its deferred wakeups.                         *)
LEMMA Flushes ==
  ASSUME CallsOK, NEW t \in Thread, Goto(t, "wakeall"), WakeThen(t, "idle")
  PROVE  CallsOK'
<1> DEFINE r == Call(mp(t), call[t].mode, call[t].deferred, "idle")
<1>1. r \in CallType
  BY DEF CallsOK, CallType, Call, mp
<1>2. call' = [call EXCEPT ![t] = r]
  BY DEF WakeThen
<1> QED
  BY <1>1, <1>2, CallMoves

(* Leaving a call, and going on to another label of it, keep the types.    *)
LEMMA StepType ==
  ASSUME TypeInv, NEW t \in Thread, MutexStep(t)
  PROVE  TypeInv'
<1> USE MutexAssumption
    DEF TypeInv, CallHasMutex, TypeOK, TypesWith, NoCall, Call, mutexVars,
        wakeVars, mp
<1>1. ASSUME NEW m \in Mutex, NEW mode \in LockCalls, SelfLock(t, m, mode)
      PROVE  TypeInv'
  <2>1. held' \in [Thread -> [Mutex -> Int]]
    <3>1. held' = [held EXCEPT ![t][m] = held[t][m] + 1]
      BY <1>1 DEF SelfLock
    <3>2. held[t][m] + 1 \in Int
      OBVIOUS
    <3> QED
      BY <3>1, <3>2, HeldType
  <2>2. m_count' \in [Mutex -> -MaxCount - 1 .. MaxCount]
    <3>1. Incremented(m_count[m]) \in -MaxCount - 1 .. MaxCount
      BY IncrementedType
    <3> QED
      BY <1>1, <3>1 DEF SelfLock
  <2> QED
    BY <1>1, <2>1, <2>2 DEF SelfLock
<1>2. ASSUME NEW m \in Mutex, NEW mode \in LockCalls, LockEnter(t, m, mode)
      PROVE  TypeInv'
  BY <1>2 DEF LockEnter, Enter, Goto
<1>3. CASE LockTake(t)
  BY <1>3 DEF LockTake, Take, Goto
<1>4. CASE LockFail(t)
  BY <1>4 DEF LockFail, Return, Goto
<1>5. CASE LockOwn(t)
  BY <1>5 DEF LockOwn, Return, Goto
<1>6. ASSUME NEW m \in Mutex, UnlockCall(t, m)
      PROVE  TypeInv'
  <2>1. held' \in [Thread -> [Mutex -> Int]]
    <3>1. held' = [held EXCEPT ![t][m] = held[t][m] - 1]
      BY <1>6 DEF UnlockCall
    <3>2. held[t][m] - 1 \in Int
      OBVIOUS
    <3> QED
      BY <3>1, <3>2, HeldType
  <2>2. m_count' \in [Mutex -> -MaxCount - 1 .. MaxCount]
    <3>1. Counts(m) => m_count[m] - 1 \in -MaxCount - 1 .. MaxCount
      BY DEF Counts
    <3> QED
      BY <1>6, <3>1 DEF UnlockCall
  <2>3. CASE Counts(m)
    BY <1>6, <2>1, <2>2, <2>3 DEF UnlockCall
  <2>4. CASE ~Counts(m)
    <3> DEFINE r == Call(m, call[t].mode, m_deferred[m], call[t].next)
    <3>1. r \in CallType /\ r.mutex \in Mutex
      BY DEF CallType
    <3>2. Goto(t, "unlock") /\ call' = [call EXCEPT ![t] = r]
      BY <1>6, <2>4 DEF UnlockCall, Disown
    <3>3. CallsOK'
      <4> HIDE DEF r
      <4> QED
        BY <3>1, <3>2, CallMoves DEF CallsOK, CallType
    <3> QED
      BY <1>6, <2>1, <2>2, <2>4, <3>3 DEF UnlockCall, Disown, CallsOK, CallType
  <2> QED
    BY <2>3, <2>4
<1>7. CASE UnlockRelease(t)
  <2>1. CallsOK'
    <3>1. CASE call[t].deferred /\ ~will_sleep[t]
      BY <1>7, <3>1, Flushes DEF UnlockRelease, Release, CallsOK, CallType
    <3>2. CASE ~(call[t].deferred /\ ~will_sleep[t])
      BY <1>7, <3>2, Returns DEF UnlockRelease, Release, CallsOK, CallType
    <3> QED
      BY <3>1, <3>2
  <2>2. m_lock' \in [Mutex -> Thread \cup {NoThread}]
    BY <1>7 DEF UnlockRelease, Release
  <2>3. UNCHANGED <<m_owner, m_count, m_deferred, wakeVars, held>>
    BY <1>7 DEF UnlockRelease, Release
  <2> QED
    BY <2>1, <2>2, <2>3 DEF CallsOK, CallType
<1> QED
  BY <1>1, <1>2, <1>3, <1>4, <1>5, <1>6, <1>7 DEF MutexStep, LockCall

(* The types of the mutex state hold always.                               *)
THEOREM TypeCorrect == Spec => []TypeOK
<1>1. TypeInv /\ [Next]_vars => TypeInv'
  <2> SUFFICES ASSUME TypeInv, [Next]_vars PROVE TypeInv'
    OBVIOUS
  <2>1. CASE Next
    BY <2>1, StepType DEF Next
  <2>2. CASE UNCHANGED vars
    BY <2>2 DEF vars, mutexVars, wakeVars, TypeInv, CallHasMutex, TypeOK,
                   TypesWith, mp
  <2> QED
    BY <2>1, <2>2
<1>2. TypeInv => TypeOK
  BY DEF TypeInv
<1> QED
  BY InitType, <1>1, <1>2, PTL DEF Spec

-----------------------------------------------------------------------------
(* The host lock *)

(* A thread that blocks on the host lock does not own the mutex: nobody    *)
(* but the thread itself makes it the owner.                               *)
BlocksOnOthers ==
  \A t \in Thread : pc[t] = "lock" => m_owner[mp(t)] # t

LockInv == TypeInv /\ LockAccounted /\ BlocksOnOthers

(* One thread's step keeps the host lock accounted for.                    *)
LEMMA StepLock ==
  ASSUME LockInv, NEW t \in Thread, MutexStep(t)
  PROVE  LockInv'
<1> USE MutexAssumption
<1>0. TypeInv /\ TypeInv'
  BY StepType DEF LockInv
<1>T. /\ m_owner \in [Mutex -> Thread \cup {NoThread}]
      /\ m_lock \in [Mutex -> Thread \cup {NoThread}]
      /\ pc \in [Thread -> {"idle", "lock", "own", "unlock", "wakeall"}]
      /\ call \in [Thread -> CallType]
      /\ CallHasMutex
  BY <1>0 DEF TypeInv, TypeOK, TypesWith, CallType
<1> SUFFICES LockAccounted' /\ BlocksOnOthers'
  BY <1>0 DEF LockInv
<1> USE <1>T DEF LockInv, LockAccounted, InTransit,
                 BlocksOnOthers, CallHasMutex, mp
<1>1. ASSUME NEW m \in Mutex, NEW mode \in LockCalls, SelfLock(t, m, mode)
      PROVE  LockAccounted' /\ BlocksOnOthers'
  BY <1>1 DEF SelfLock
<1>2. ASSUME NEW m \in Mutex, NEW mode \in LockCalls, pc[t] = "idle",
             LockEnter(t, m, mode)
      PROVE  LockAccounted' /\ BlocksOnOthers'
  BY <1>2 DEF LockEnter, Enter, Call, Goto, mutexVars
<1>3. CASE LockTake(t)
  BY <1>3 DEF LockTake, Take, Goto
<1>4. CASE LockFail(t)
  BY <1>4 DEF LockFail, Return, Goto, NoCall, Call, mutexVars
<1>5. CASE LockOwn(t)
  BY <1>5 DEF LockOwn, Return, Goto, NoCall, Call
<1>6. ASSUME NEW m \in Mutex, UnlockCall(t, m)
      PROVE  LockAccounted' /\ BlocksOnOthers'
  <2>1. CASE Counts(m)
    BY <1>6, <2>1 DEF UnlockCall
  <2>2. CASE ~Counts(m)
    BY <1>6, <2>2 DEF UnlockCall, Disown, Goto, Call
  <2> QED
    BY <2>1, <2>2
<1>7. CASE UnlockRelease(t)
  <2>1. /\ mp(t) \in Mutex
        /\ m_lock' = [m_lock EXCEPT ![mp(t)] = NoThread]
        /\ m_owner' = m_owner
        /\ \A m \in Mutex : m_owner[m] # t \/ m # mp(t)
    BY <1>7 DEF UnlockRelease, Release
  <2>2. /\ pc[t] = "unlock"
        /\ pc' \in {[pc EXCEPT ![t] = "idle"], [pc EXCEPT ![t] = "wakeall"]}
        /\ \A u \in Thread \ {t} : call'[u] = call[u]
    BY <1>7 DEF UnlockRelease, Release, WakeThen, Return, Goto
  <2> QED
    BY <2>1, <2>2
<1> QED
  BY <1>1, <1>2, <1>3, <1>4, <1>5, <1>6, <1>7 DEF MutexStep, LockCall

(* Initially no host lock is taken, and a stutter changes nothing.         *)
LEMMA LockInductive ==
  /\ Init => LockInv
  /\ LockInv /\ [Next]_vars => LockInv'
<1>1. Init => LockInv
  BY InitType, MutexAssumption
     DEF Init, LockInv, LockAccounted, InTransit, BlocksOnOthers
<1>2. ASSUME LockInv, Next PROVE LockInv'
  BY <1>2, StepLock DEF Next
<1>3. ASSUME LockInv, UNCHANGED vars PROVE LockInv'
  BY <1>3 DEF vars, mutexVars, wakeVars, LockInv, LockAccounted, 
              InTransit, BlocksOnOthers, TypeInv, CallHasMutex, TypeOK, TypesWith, mp
<1> QED
  BY <1>1, <1>2, <1>3

(* Lock and Unlock never lose the host mutex or leave it without an        *)
(* account, whatever the types of the mutexes and the ways of locking.     *)
THEOREM HostLockAccounted == Spec => []LockAccounted
<1>1. LockInv => LockAccounted
  BY DEF LockInv
<1> QED
  BY LockInductive, <1>1, PTL DEF Spec

(* SelfLock catches every relock: no thread blocks on a host lock that it  *)
(* holds itself.                                                           *)
THEOREM SelfDeadlockFree == Spec => []NoSelfDeadlock
<1>1. LockInv => NoSelfDeadlock
  BY MutexAssumption
     DEF LockInv, LockAccounted, InTransit, BlocksOnOthers,
         NoSelfDeadlock, TypeInv, CallHasMutex
<1> QED
  BY LockInductive, <1>1, PTL DEF Spec

-----------------------------------------------------------------------------
(* Counting *)

(* Only recursive mutexes count, and never below zero or past INT_MAX.     *)
CountOK ==
  \A m \in Mutex : /\ m_count[m] \in 0 .. MaxCount
                   /\ Type[m] # "Recursive" => m_count[m] = 0

CountInv == LockInv /\ RecursionBalanced /\ CountOK

(* The history of one client after its lock or unlock of one mutex.        *)
LEMMA HeldAt ==
  ASSUME held \in [Thread -> [Mutex -> Int]], NEW t \in Thread, NEW m \in Mutex,
         NEW n \in Int
  PROVE  \A u \in Thread, k \in Mutex :
           [held EXCEPT ![t][m] = n][u][k] =
             IF u = t /\ k = m THEN n ELSE held[u][k]
  OBVIOUS

(* One thread's step keeps nesting and count in agreement.                 *)
LEMMA StepCount ==
  ASSUME ~FoldedCheck, CountInv, NEW t \in Thread, MutexStep(t)
  PROVE  CountInv'
<1> USE MutexAssumption
<1>0. LockInv /\ LockInv'
  BY StepLock DEF CountInv
<1>T. /\ m_owner \in [Mutex -> Thread \cup {NoThread}]
      /\ m_lock \in [Mutex -> Thread \cup {NoThread}]
      /\ m_count \in [Mutex -> -MaxCount - 1 .. MaxCount]
      /\ held \in [Thread -> [Mutex -> Int]]
      /\ CallHasMutex
      /\ LockAccounted
      /\ RecursionBalanced
      /\ CountOK
  BY <1>0 DEF CountInv, LockInv, TypeInv, TypeOK, TypesWith
<1> SUFFICES RecursionBalanced' /\ CountOK'
  BY <1>0 DEF CountInv
<1> USE <1>T
<1>1. ASSUME NEW m \in Mutex, NEW mode \in LockCalls, SelfLock(t, m, mode)
      PROVE  RecursionBalanced' /\ CountOK'
  <2>1. /\ m_owner[m] = t /\ m_owner' = m_owner
        /\ held' = [held EXCEPT ![t][m] = held[t][m] + 1]
    BY <1>1 DEF SelfLock
  <2>2. \A u \in Thread, k \in Mutex :
          held'[u][k] = IF u = t /\ k = m THEN held[t][m] + 1 ELSE held[u][k]
    BY <2>1, HeldAt
  <2>3. CASE Type[m] = "Recursive"
    <3>1. /\ m_count[m] \in 0 .. MaxCount - 1
          /\ m_count' = [m_count EXCEPT ![m] = m_count[m] + 1]
      BY <1>1, <2>3 DEF SelfLock, HasRoom, Incremented
    <3>2. held[t][m] + 1 = m_count[m] + 2
      BY <2>1, <2>3 DEF RecursionBalanced, Counted
    <3> QED
      BY <2>1, <2>2, <2>3, <3>1, <3>2 DEF RecursionBalanced, CountOK, Counted
  <2>4. CASE Type[m] = "Normal"
    <3>1. m_count' = m_count
      BY <1>1, <2>4 DEF SelfLock
    <3> QED
      BY <2>1, <2>2, <2>4, <3>1 DEF RecursionBalanced, CountOK, Counted
  <2> QED
    BY <1>1, <2>3, <2>4 DEF SelfLock
<1>2. ASSUME UNCHANGED <<m_owner, m_count, held>>
      PROVE  RecursionBalanced' /\ CountOK'
  BY <1>2 DEF RecursionBalanced, CountOK, Counted
<1>3. CASE LockOwn(t)
  <2> DEFINE m == mp(t)
  <2>1. m \in Mutex /\ m_owner[m] = NoThread
    BY <1>3 DEF LockOwn, CallHasMutex, LockAccounted, InTransit
  <2>2. m \in Counted => held[t][m] = 0 /\ m_count[m] = 0
    BY <2>1 DEF RecursionBalanced
  <2>3. /\ m_owner' = [m_owner EXCEPT ![m] = t]
        /\ held' = [held EXCEPT ![t][m] = held[t][m] + 1]
        /\ m_count' = m_count
    BY <1>3 DEF LockOwn
  <2> HIDE DEF m
  <2>4. \A u \in Thread, k \in Mutex :
          held'[u][k] = IF u = t /\ k = m THEN held[t][m] + 1 ELSE held[u][k]
    BY <2>1, <2>3, HeldAt
  <2>5. RecursionBalanced'
    <3> SUFFICES ASSUME NEW k \in Counted
                 PROVE  /\ \A u \in Thread :
                             held'[u][k] = IF m_owner'[k] = u THEN m_count'[k] + 1 ELSE 0
                        /\ m_owner'[k] = NoThread => m_count'[k] = 0
      BY DEF RecursionBalanced
    <3>1. CASE k = m
      BY <2>1, <2>2, <2>3, <2>4, <3>1 DEF RecursionBalanced
    <3>2. CASE k # m
      BY <2>3, <2>4, <3>2 DEF RecursionBalanced, Counted
    <3> QED
      BY <3>1, <3>2
  <2> QED
    BY <2>3, <2>5 DEF CountOK
<1>4. ASSUME NEW m \in Mutex, UnlockCall(t, m)
      PROVE  RecursionBalanced' /\ CountOK'
  <2>1. /\ m_owner[m] = t
        /\ held' = [held EXCEPT ![t][m] = held[t][m] - 1]
        /\ m \in Counted => held[t][m] - 1 = m_count[m]
    BY <1>4 DEF UnlockCall, RecursionBalanced
  <2>2. \A u \in Thread, k \in Mutex :
          held'[u][k] = IF u = t /\ k = m THEN held[t][m] - 1 ELSE held[u][k]
    BY <2>1, HeldAt
  <2>3. CASE Counts(m)
    <3>1. m_owner' = m_owner /\ m_count' = [m_count EXCEPT ![m] = m_count[m] - 1]
      BY <1>4, <2>3 DEF UnlockCall, Counts
    <3>2. m \in Counted
      BY <2>3 DEF Counts, Counted
    <3> QED
      BY <2>1, <2>2, <2>3, <3>1, <3>2 DEF RecursionBalanced, CountOK, Counts, Counted
  <2>4. CASE ~Counts(m)
    <3>1. m_count[m] = 0
      BY <2>4 DEF Counts, CountOK
    <3>2. m_owner' = [m_owner EXCEPT ![m] = NoThread] /\ m_count' = m_count
      BY <1>4, <2>4 DEF UnlockCall, Disown, Counts
    <3>3. m \in Counted => \A u \in Thread : held'[u][m] = 0
      BY <2>1, <2>2, <3>1 DEF RecursionBalanced
    <3>4. m_owner'[m] = NoThread /\ m_count'[m] = 0
      BY <3>1, <3>2
    <3>5. \A k \in Mutex \ {m} :
            /\ m_owner'[k] = m_owner[k] /\ m_count'[k] = m_count[k]
            /\ \A u \in Thread : held'[u][k] = held[u][k]
      BY <2>2, <3>2
    <3>6. RecursionBalanced'
      BY <3>3, <3>4, <3>5 DEF RecursionBalanced, Counted
    <3> QED
      BY <3>2, <3>6 DEF CountOK
  <2> QED
    BY <2>3, <2>4
<1>5. ASSUME NEW m \in Mutex, NEW mode \in LockCalls, LockEnter(t, m, mode)
      PROVE  RecursionBalanced' /\ CountOK'
  BY <1>2, <1>5 DEF LockEnter, mutexVars
<1>6. CASE LockTake(t) \/ LockFail(t) \/ UnlockRelease(t)
  BY <1>2, <1>6 DEF LockTake, Take, LockFail, UnlockRelease, Release, mutexVars
<1> QED
  BY <1>1, <1>3, <1>4, <1>5, <1>6 DEF MutexStep, LockCall

(* In a build that keeps the source's test for room, the nesting of each   *)
(* client agrees with m_owner and m_count, for any threads and mutexes.    *)
THEOREM RecursionCorrect ==
  ASSUME ~FoldedCheck
  PROVE  Spec => []RecursionBalanced
<1>1. Init => CountInv
  BY LockInductive, MutexAssumption
     DEF Init, CountInv, RecursionBalanced, CountOK, Counted
<1>2. CountInv /\ [Next]_vars => CountInv'
  <2>1. ASSUME CountInv, Next PROVE CountInv'
    BY <2>1, StepCount DEF Next
  <2>2. ASSUME CountInv, UNCHANGED vars PROVE CountInv'
    BY <2>2, LockInductive DEF vars, mutexVars, CountInv, RecursionBalanced, CountOK, Counted
  <2> QED
    BY <2>1, <2>2
<1>3. CountInv => RecursionBalanced
  BY DEF CountInv
<1> QED
  BY <1>1, <1>2, <1>3, PTL DEF Spec

(* In such a build no two clients hold one mutex.                          *)
THEOREM Exclusion ==
  ASSUME ~FoldedCheck
  PROVE  Spec => []MutualExclusion
<1>1. RecursionBalanced => MutualExclusion
  BY DEF RecursionBalanced, MutualExclusion
<1> QED
  BY <1>1, RecursionCorrect, PTL

=============================================================================
