--------------------------- MODULE EventFlagProofs ---------------------------
(* Proofs about EventFlag, for any threads, bits and requests.             *)
EXTENDS EventFlag, FiniteSetTheorems, TLAPS

FlagInv == TypeOK /\ WaitersCounted /\ NoStrandedWaiter /\ CancelReachesAll

(* A set of waiters is finite, and its size is a number.                   *)
LEMMA WaitersFinite ==
  /\ IsFiniteSet(Waiters) /\ Cardinality(Waiters) \in Nat
  /\ Cardinality(Waiters) = 0 <=> Waiters = {}
<1>1. IsFiniteSet(Waiters)
  <2>1. Waiters \subseteq Thread
    BY DEF Waiters
  <2> QED
    BY <2>1, EventFlagAssumption, FS_Subset
<1> QED
  BY <1>1, FS_CardinalityType, FS_EmptySet

(* The constructor leaves nobody waiting.                                  *)
LEMMA InitFlag == Init => FlagInv
<1> SUFFICES ASSUME Init PROVE FlagInv
  OBVIOUS
<1>1. Waiters = {}
  BY DEF Init, Waiters
<1>2. TypeOK
  BY DEF Init, TypeOK, Patterns, NoRequest
<1>3. WaitersCounted
  BY <1>1, WaitersFinite DEF Init, WaitersCounted
<1> QED
  BY <1>1, <1>2, <1>3 DEF FlagInv, NoStrandedWaiter, CancelReachesAll

-----------------------------------------------------------------------------
(* Who waits *)

(* A thread that goes to sleep is one waiter more.                         *)
LEMMA OneMore ==
  ASSUME TypeOK, WaitersCounted, NEW t \in Thread, pc[t] # "wait",
         Goto(t, "wait"), Admits, m_waiting_threads' = m_waiting_threads + 1,
         UNCHANGED m_thread_mode
  PROVE  WaitersCounted'
<1>1. Waiters' = Waiters \cup {t} /\ t \notin Waiters
  BY DEF TypeOK, Goto, Waiters
<1>2. Cardinality(Waiters') = Cardinality(Waiters) + 1
  BY <1>1, WaitersFinite, FS_AddElement
<1>3. m_thread_mode = "Single" => Waiters = {}
  BY WaitersFinite DEF Admits, WaitersCounted, TypeOK
<1> QED
  BY <1>1, <1>2, <1>3 DEF WaitersCounted

(* A thread that leaves its wait is one waiter less.                       *)
LEMMA OneLess ==
  ASSUME TypeOK, WaitersCounted, NEW t \in Waiters, LeaveWait(t)
  PROVE  /\ WaitersCounted'
         /\ m_waiting_threads' \in Nat
         /\ Waiters' = Waiters \ {t}
<1>1. Waiters' = Waiters \ {t}
  BY DEF TypeOK, LeaveWait, Goto, Waiters
<1>2. Cardinality(Waiters') = Cardinality(Waiters) - 1
  BY <1>1, WaitersFinite, FS_RemoveElement
<1>3. Cardinality(Waiters) # 0
  BY WaitersFinite
<1>4. m_waiting_threads' = m_waiting_threads - 1 /\ m_thread_mode' = m_thread_mode
  BY DEF LeaveWait
<1> QED
  BY <1>1, <1>2, <1>3, <1>4, WaitersFinite DEF WaitersCounted

(* A step that moves nobody into a wait or out of one.                     *)
LEMMA SameWaiters ==
  ASSUME TypeOK, WaitersCounted, NEW t \in Thread, pc[t] # "wait",
         NEW label, label # "wait", Goto(t, label) \/ UNCHANGED pc,
         UNCHANGED <<m_thread_mode, m_waiting_threads>>
  PROVE  WaitersCounted' /\ Waiters' = Waiters
<1>1. Waiters' = Waiters
  BY DEF TypeOK, Goto, Waiters
<1> QED
  BY <1>1 DEF WaitersCounted

(* Bits that go away satisfy nobody, and the waiters that stay are as they *)
(* were.                                                                   *)
LEMMA FewerBits ==
  ASSUME NoStrandedWaiter, m_bits' \subseteq m_bits, UNCHANGED m_status,
         Waiters' \subseteq Waiters,
         \A u \in Waiters' : request'[u] = request[u] /\ notified'[u] = notified[u]
  PROVE  NoStrandedWaiter'
<1> SUFFICES ASSUME NEW u \in Waiters', WaitFunc(request[u])'
             PROVE  notified'[u]
  BY DEF NoStrandedWaiter
<1>1. request'[u] = request[u]
  OBVIOUS
<1>2. WaitFunc(request[u])
  BY <1>1 DEF WaitFunc, Met
<1> QED
  BY <1>2 DEF NoStrandedWaiter

(* What a wait takes is taken from the bits.                               *)
LEMMA ClearedBits ==
  ASSUME TypeOK, NEW r \in Request
  PROVE  /\ Cleared(r) \in Patterns /\ Cleared(r) \subseteq m_bits
         /\ m_status = "Canceled" => Cleared(r) = m_bits
  BY DEF TypeOK, Cleared, Patterns, Request

-----------------------------------------------------------------------------
(* The steps *)

LEMMA StepFlag ==
  ASSUME FlagInv, NEW t \in Thread, FlagStep(t)
  PROVE  FlagInv'
<1>0. TypeOK /\ WaitersCounted /\ NoStrandedWaiter /\ CancelReachesAll
  BY DEF FlagInv
<1> USE EventFlagAssumption
<1> USE DEF FlagInv
<1>1. ASSUME NEW r \in Requests, WaitAtOnce(t, r)
      PROVE  FlagInv'
  <2>1. r \in Request
    OBVIOUS
  <2>2. /\ m_bits' \in Patterns /\ m_bits' \subseteq m_bits
        /\ m_status = "Canceled" => m_bits' = m_bits
    BY <1>0, <1>1, <2>1, ClearedBits DEF WaitAtOnce
  <2>3. UNCHANGED <<m_thread_mode, m_status, m_waiting_threads, pc, arg, waitVars, pattern>>
    BY <1>1 DEF WaitAtOnce
  <2>4. TypeOK'
    BY <1>0, <2>2, <2>3 DEF TypeOK, waitVars
  <2>5. WaitersCounted' /\ Waiters' = Waiters
    BY <1>0, <2>3 DEF WaitersCounted, Waiters
  <2>6. NoStrandedWaiter'
    BY <1>0, <2>2, <2>3, <2>5, FewerBits DEF waitVars
  <2>7. CancelReachesAll'
    BY <1>0, <2>2, <2>3, <2>5 DEF CancelReachesAll, waitVars
  <2> QED
    BY <2>4, <2>5, <2>6, <2>7
<1>2. ASSUME NEW r \in Requests, WaitSleep(t, r)
      PROVE  FlagInv'
  <2>1. UNCHANGED <<m_thread_mode, m_status, m_bits, arg, pattern>>
    BY <1>2 DEF WaitSleep
  <2>2. /\ request' = [request EXCEPT ![t] = r]
        /\ notified' = [notified EXCEPT ![t] = FALSE]
        /\ cancelled' = [cancelled EXCEPT ![t] = FALSE]
        /\ m_waiting_threads' = m_waiting_threads + 1
        /\ pc' = [pc EXCEPT ![t] = "wait"]
    BY <1>2 DEF WaitSleep, Goto
  <2>3. TypeOK'
    BY <1>0, <2>1, <2>2 DEF TypeOK
  <2>4. WaitersCounted'
    BY <1>0, <1>2, OneMore DEF WaitSleep
  <2>5. Waiters' = Waiters \cup {t}
    BY <1>0, <2>2 DEF TypeOK, Waiters
  <2>6. NoStrandedWaiter'
    <3> SUFFICES ASSUME NEW u \in Waiters', WaitFunc(request[u])'
                 PROVE  notified'[u]
      BY DEF NoStrandedWaiter
    <3>1. u # t
      <4>1. ~WaitFunc(r)
        BY <1>2 DEF WaitSleep
      <4>2. request'[t] = r
        BY <1>0, <2>2 DEF TypeOK
      <4> QED
        BY <2>1, <4>1, <4>2 DEF WaitFunc, Met
    <3>2. u \in Waiters /\ request'[u] = request[u] /\ notified'[u] = notified[u]
      BY <1>0, <2>2, <2>5, <3>1 DEF TypeOK, Waiters
    <3>3. WaitFunc(request[u])
      BY <2>1, <3>2 DEF WaitFunc, Met
    <3> QED
      BY <1>0, <3>2, <3>3 DEF NoStrandedWaiter
  <2>7. CancelReachesAll'
    BY <1>0, <2>1, <2>2, <2>5 DEF CancelReachesAll, TypeOK
  <2> QED
    BY <2>3, <2>4, <2>6, <2>7
<1>3. ASSUME NEW op \in {"set", "clear", "cancel"}, NEW mask \in Patterns,
             Call(t, op, mask)
      PROVE  FlagInv'
  <2>1. UNCHANGED <<flagVars, waitVars, pattern>> /\ Goto(t, op)
    BY <1>3 DEF Call
  <2>2. TypeOK'
    BY <1>0, <1>3 DEF TypeOK, Call, Goto, flagVars, waitVars
  <2>3. WaitersCounted' /\ Waiters' = Waiters
    BY <1>0, <1>3, <2>1, SameWaiters DEF Call, flagVars
  <2>4. NoStrandedWaiter'
    BY <1>0, <2>1, <2>3, FewerBits DEF flagVars, waitVars
  <2>5. CancelReachesAll'
    BY <1>0, <2>1, <2>3 DEF CancelReachesAll, flagVars, waitVars
  <2> QED
    BY <2>2, <2>3, <2>4, <2>5
<1>4. ASSUME t \in Waiters, LeaveWait(t), m_bits' \in Patterns, m_bits' \subseteq m_bits,
             m_status = "Canceled" => m_bits' = m_bits
      PROVE  FlagInv'
  <2>1. WaitersCounted' /\ m_waiting_threads' \in Nat /\ Waiters' = Waiters \ {t}
    BY <1>0, <1>4, OneLess
  <2>2. /\ request' = [request EXCEPT ![t] = NoRequest]
        /\ notified' = [notified EXCEPT ![t] = FALSE]
        /\ cancelled' = [cancelled EXCEPT ![t] = FALSE]
        /\ pc' = [pc EXCEPT ![t] = "idle"]
        /\ UNCHANGED <<m_thread_mode, m_status, arg, pattern>>
    BY <1>4 DEF LeaveWait, Goto
  <2>3. TypeOK'
    BY <1>0, <1>4, <2>1, <2>2 DEF TypeOK
  <2>4. \A u \in Waiters' : /\ request'[u] = request[u] /\ notified'[u] = notified[u]
                            /\ cancelled'[u] = cancelled[u]
    BY <1>0, <2>1, <2>2 DEF TypeOK, Waiters
  <2>5. NoStrandedWaiter'
    BY <1>0, <1>4, <2>1, <2>2, <2>4, FewerBits
  <2>6. CancelReachesAll'
    BY <1>0, <1>4, <2>1, <2>2, <2>4 DEF CancelReachesAll
  <2> QED
    BY <2>1, <2>3, <2>5, <2>6
<1>5. CASE WaitDone(t)
  <2>1. t \in Waiters /\ LeaveWait(t) /\ m_bits' = Cleared(request[t])
    BY <1>5 DEF WaitDone, Waiters
  <2>2. request[t] \in Request \cup {NoRequest}
    BY <1>0 DEF TypeOK
  <2>3. /\ Cleared(request[t]) \in Patterns /\ Cleared(request[t]) \subseteq m_bits
        /\ m_status = "Canceled" => Cleared(request[t]) = m_bits
    BY <1>0, <2>2 DEF TypeOK, Cleared, Patterns, Request, NoRequest
  <2> QED
    BY <1>4, <2>1, <2>3
<1>6. CASE WaitTimedOut(t)
  BY <1>0, <1>4, <1>6 DEF WaitTimedOut, Waiters, TypeOK
<1>7. CASE WaitResumed(t)
  <2>1. /\ notified' = [notified EXCEPT ![t] = FALSE]
        /\ UNCHANGED <<flagVars, pc, arg, request, cancelled, pattern>>
        /\ ~WaitFunc(request[t])
    BY <1>7 DEF WaitResumed
  <2>2. TypeOK'
    BY <1>0, <2>1 DEF TypeOK, flagVars
  <2>3. WaitersCounted' /\ Waiters' = Waiters
    BY <1>0, <2>1 DEF WaitersCounted, Waiters, flagVars
  <2>4. NoStrandedWaiter'
    BY <1>0, <2>1, <2>3 DEF NoStrandedWaiter, WaitFunc, Met, TypeOK, flagVars, Waiters
  <2>5. CancelReachesAll'
    BY <1>0, <2>1, <2>3 DEF CancelReachesAll, flagVars
  <2> QED
    BY <2>2, <2>3, <2>4, <2>5
<1>8. CASE Set(t)
  <2>1. /\ pc[t] = "set" /\ m_status = "Set" /\ Goto(t, "idle")
        /\ UNCHANGED <<m_thread_mode, m_status, m_waiting_threads, request, cancelled, pattern>>
        /\ NotifyAll
    BY <1>8 DEF Set
  <2>2. m_bits' \in Patterns /\ arg' = [arg EXCEPT ![t] = {}]
    BY <1>0, <1>8 DEF Set, TypeOK, Patterns
  <2>3. TypeOK'
    BY <1>0, <2>1, <2>2 DEF TypeOK, Goto, NotifyAll, Patterns
  <2>4. WaitersCounted' /\ Waiters' = Waiters
    BY <1>0, <2>1, SameWaiters
  <2>5. NoStrandedWaiter'
    BY <2>1, <2>4 DEF NoStrandedWaiter, NotifyAll, Waiters
  <2>6. CancelReachesAll'
    BY <1>0, <2>1, <2>4 DEF CancelReachesAll
  <2> QED
    BY <2>3, <2>4, <2>5, <2>6
<1>9. CASE Clear(t)
  <2>1. /\ pc[t] = "clear" /\ m_status = "Set" /\ Goto(t, "idle")
        /\ UNCHANGED <<m_thread_mode, m_status, m_waiting_threads, waitVars, pattern>>
    BY <1>9 DEF Clear
  <2>2. m_bits' \in Patterns /\ m_bits' \subseteq m_bits /\ arg' = [arg EXCEPT ![t] = {}]
    BY <1>0, <1>9 DEF Clear, TypeOK, Patterns
  <2>3. TypeOK'
    BY <1>0, <2>1, <2>2 DEF TypeOK, Goto, Patterns, waitVars
  <2>4. WaitersCounted' /\ Waiters' = Waiters
    BY <1>0, <2>1, SameWaiters
  <2>5. NoStrandedWaiter'
    BY <1>0, <2>1, <2>2, <2>4, FewerBits DEF waitVars
  <2>6. CancelReachesAll'
    BY <1>0, <2>1, <2>4 DEF CancelReachesAll, waitVars
  <2> QED
    BY <2>3, <2>4, <2>5, <2>6
<1>10. CASE CancelBegin(t)
  <2>1. /\ pc[t] = "cancel" /\ m_status' = "Canceled" /\ Goto(t, "cancelling")
        /\ m_bits' = arg[t] /\ pattern' = arg[t] /\ NotifyAll
        /\ cancelled' = [u \in Thread |-> u \in Waiters]
        /\ UNCHANGED <<m_thread_mode, m_waiting_threads, arg, request>>
    BY <1>10 DEF CancelBegin
  <2>2. TypeOK'
    BY <1>0, <2>1 DEF TypeOK, Goto, NotifyAll
  <2>3. WaitersCounted' /\ Waiters' = Waiters
    BY <1>0, <2>1, SameWaiters
  <2>4. NoStrandedWaiter'
    BY <2>1, <2>3 DEF NoStrandedWaiter, NotifyAll, Waiters
  <2>5. CancelReachesAll'
    BY <2>1 DEF CancelReachesAll
  <2> QED
    BY <2>2, <2>3, <2>4, <2>5
<1>11. CASE CancelEnd(t)
  <2>1. /\ pc[t] = "cancelling" /\ m_waiting_threads = 0 /\ m_status' = "Set"
        /\ Goto(t, "idle") /\ arg' = [arg EXCEPT ![t] = {}]
        /\ UNCHANGED <<m_thread_mode, m_bits, m_waiting_threads, waitVars, pattern>>
    BY <1>11 DEF CancelEnd
  <2>2. TypeOK'
    BY <1>0, <2>1 DEF TypeOK, Goto, Patterns, waitVars
  <2>3. WaitersCounted' /\ Waiters' = Waiters
    BY <1>0, <2>1, SameWaiters
  <2>4. Waiters' = {}
    BY <1>0, <2>1, <2>3, WaitersFinite DEF WaitersCounted
  <2> QED
    BY <2>2, <2>3, <2>4 DEF NoStrandedWaiter, CancelReachesAll
<1>12. SetMasks \subseteq Patterns /\ ClearMasks \subseteq Patterns
  OBVIOUS
<1> QED
  BY <1>1, <1>2, <1>3, <1>5, <1>6, <1>7, <1>8, <1>9, <1>10, <1>11, <1>12
     DEF FlagStep, InCall

(* The invariant holds in every behaviour.                                 *)
LEMMA FlagInvHolds == Spec => []FlagInv
<1>1. FlagInv /\ [Next]_vars => FlagInv'
  <2> SUFFICES ASSUME FlagInv, [Next]_vars PROVE FlagInv'
    OBVIOUS
  <2>1. CASE Next
    BY <2>1, StepFlag DEF Next
  <2>2. CASE UNCHANGED vars
    <3>1. Waiters' = Waiters
      BY <2>2 DEF vars, Waiters
    <3> QED
      BY <2>2, <3>1 DEF vars, flagVars, waitVars, FlagInv, TypeOK, WaitersCounted,
                        NoStrandedWaiter, CancelReachesAll, WaitFunc, Met
  <2> QED
    BY <2>1, <2>2
<1> QED
  BY InitFlag, <1>1, PTL DEF Spec

(* The variables of EventFlagInternal and of the calls keep their types.   *)
THEOREM TypeCorrect == Spec => []TypeOK
<1>1. FlagInv => TypeOK
  BY DEF FlagInv
<1> QED
  BY FlagInvHolds, <1>1, PTL

(* m_waiting_threads counts the threads inside Wait, for any number of     *)
(* them, and a flag for a single waiter has at most one.                   *)
THEOREM CountCorrect == Spec => []WaitersCounted
<1>1. FlagInv => WaitersCounted
  BY DEF FlagInv
<1> QED
  BY FlagInvHolds, <1>1, PTL

(* Whoever sleeps in Wait without a notification on its way waits for bits *)
(* that are not there.                                                     *)
THEOREM NobodyStranded == Spec => []NoStrandedWaiter
<1>1. FlagInv => NoStrandedWaiter
  BY DEF FlagInv
<1> QED
  BY FlagInvHolds, <1>1, PTL

(* Until the last thread that a Cancel found in Wait has left, the status  *)
(* and the bits are those that the Cancel set.                             *)
THEOREM CancelSeenByAll == Spec => []CancelReachesAll
<1>1. FlagInv => CancelReachesAll
  BY DEF FlagInv
<1> QED
  BY FlagInvHolds, <1>1, PTL

=============================================================================
