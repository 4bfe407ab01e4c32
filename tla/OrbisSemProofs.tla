--------------------------- MODULE OrbisSemProofs ---------------------------
(* Proofs about OrbisSem, for any threads, counts, priorities and timeouts. *)
EXTENDS OrbisSem, ListLemmas, FiniteSetTheorems

(* What is in the list has not been released.                              *)
QueuedAsleep == \A t \in Queued : sem[t] = 0

(* The thread in Signal's loop, and nobody else, keeps the mutex.          *)
SignalHolds ==
  \A t \in Thread : (pc[t] = "signal" <=> mutex = t) /\ (mutex = t => it >= 1)

(* From Delete's unlock on nobody is in a call but the waiters it woke, so *)
(* the mutex that is destroyed is free.                                    *)
Deleted == ~allocated \/ \E t \in Thread : pc[t] = "erase"

OnlyWaitersLeft ==
  Deleted => mutex = NoThread /\ \A t \in Thread : pc[t] # "enter"

WaitInv ==
  TypeOK /\ WaiterAccounted /\ QueuedAsleep /\ SignalHolds /\ OnlyWaitersLeft

Reasons == {"signaled", "canceled", "deleted"}

LEMMA InitWait == Init => WaitInv
  BY OrbisSemAssumption
     DEF Init, WaitInv, TypeOK, WaiterAccounted, QueuedAsleep, SignalHolds,
         OnlyWaitersLeft, Deleted, Queued, Range

(* A wait ends the same way whether its mutex is still there or not.       *)
LEMMA EndOfWait ==
  ASSUME NEW t \in Thread, Relock(t) \/ RelockDestroyed(t)
  PROVE  TakeResult(t) /\ (mutex = NoThread \/ Deleted)
BY DEF Relock, RelockDestroyed, Deleted

(* The list holds threads, each of them once.                              *)
LEMMA QueuedIsThread ==
  ASSUME WaitInv
  PROVE  /\ Queued \subseteq Thread
         /\ Once(wait_list)
         /\ \A i \in 1 .. Len(wait_list) : wait_list[i] \in Queued
<1>1. wait_list \in Seq(Thread)
  BY DEF WaitInv, TypeOK
<1>2. Once(wait_list)
  BY DEF WaitInv, WaiterAccounted, Once
<1> QED
  BY <1>1, <1>2 DEF Queued, Range

-----------------------------------------------------------------------------
(* Types *)

(* Whoever leaves the list leaves the sets of earlier waiters smaller.     *)
LEMMA LeaveType ==
  ASSUME NEW gone, earlier \in [Thread -> SUBSET Thread], Leave(gone)
  PROVE  earlier' \in [Thread -> SUBSET Thread]
BY DEF Leave

LEMMA StepType ==
  ASSUME WaitInv, NEW t \in Thread, SemStep(t)
  PROVE  TypeOK'
<1> USE OrbisSemAssumption DEF TypeOK, objectVars, waiterVars, timeVars,
        historyVars, Goto
<1>0. TypeOK
  BY DEF WaitInv
<1>q. \A u \in Queued : sem[u] = 0
  <2> HIDE DEF TypeOK
  <2> QED
    BY DEF WaitInv, QueuedAsleep
<1>1. CASE Call(t)
  BY <1>0, <1>1 DEF Call
<1>2. CASE Refuse(t)
  BY <1>0, <1>2 DEF Refuse
<1>3. ASSUME NEW n \in 1 .. MaxCount, WaitTake(t, n)
      PROVE  TypeOK'
  BY <1>0, <1>3 DEF WaitTake
<1>4. ASSUME NEW n \in 1 .. MaxCount, NEW p \in Nat, NEW d \in {0} \cup Timeouts,
             WaitEnqueue(t, n, p, d)
      PROVE  TypeOK'
  <2>1. wait_list' \in Seq(Thread)
    BY <1>0, <1>4, InsertAtSeq DEF WaitEnqueue
  <2>2. earlier' \in [Thread -> SUBSET Thread]
    BY <1>0, <1>4, QueuedIsThread DEF WaitEnqueue
  <2>3. timeout' \in [Thread -> 0 .. U32 - 1]
    BY <1>0, <1>4 DEF WaitEnqueue
  <2>4. /\ need_count' \in [Thread -> 0 .. MaxCount]
        /\ priority' \in [Thread -> Nat]
        /\ flags' \in [Thread -> SUBSET Reasons]
        /\ sem' \in [Thread -> 0 .. 1]
    BY <1>0, <1>4 DEF WaitEnqueue, Reasons
  <2>5. timed' \in [Thread -> BOOLEAN]
    BY <1>0, <1>4 DEF WaitEnqueue
  <2>6. pc' = [pc EXCEPT ![t] = "wait"]
    BY <1>4 DEF WaitEnqueue
  <2>7. UNCHANGED <<allocated, mutex, token_count, it, elapsed, supplied, taken>>
    BY <1>4 DEF WaitEnqueue
  <2> QED
    BY <1>0, <2>1, <2>2, <2>3, <2>4, <2>5, <2>6, <2>7 DEF Reasons
<1>5. CASE Wake(t)
  <2>1. elapsed' \in [Thread -> Nat]
    <3>1. PICK e \in (IF timed[t] THEN 0 .. timeout[t] + MaxLate ELSE {0}) :
            elapsed' = [elapsed EXCEPT ![t] = e]
      BY <1>5 DEF Wake
    <3>2. e \in Nat
      BY <1>0
    <3> QED
      BY <1>0, <3>1, <3>2
  <2>2. sem' \in [Thread -> 0 .. 1]
    BY <1>0, <1>5 DEF Wake
  <2>3. pc' = [pc EXCEPT ![t] = "relock"]
    BY <1>5 DEF Wake
  <2>4. UNCHANGED <<objectVars, need_count, priority, flags, timed, timeout, historyVars>>
    BY <1>5 DEF Wake
  <2> QED
    BY <1>0, <2>1, <2>2, <2>3, <2>4
<1>6. CASE Expire(t)
  <2>1. elapsed' \in [Thread -> Nat]
    <3>1. PICK e \in timeout[t] .. timeout[t] + MaxLate :
            elapsed' = [elapsed EXCEPT ![t] = e]
      BY <1>6 DEF Expire
    <3>2. e \in Nat
      BY <1>0
    <3> QED
      BY <1>0, <3>1, <3>2
  <2>2. pc' = [pc EXCEPT ![t] = "relock"]
    BY <1>6 DEF Expire
  <2>3. UNCHANGED <<objectVars, waiterVars, timed, timeout, historyVars>>
    BY <1>6 DEF Expire
  <2> QED
    BY <1>0, <2>1, <2>2, <2>3
<1>7. CASE TakeResult(t)
  <2>1. wait_list' \in Seq(Thread) /\ earlier' \in [Thread -> SUBSET Thread]
    <3>1. CASE flags[t] = {}
      <4>1. t \in Range(wait_list)
        <5>1. pc[t] = "relock"
          BY <1>7 DEF TakeResult
        <5> QED
          BY <3>1, <5>1 DEF WaitInv, WaiterAccounted, Queued
      <4>2. RemoveFirst(wait_list, t) \in Seq(Thread)
        BY <1>0, <4>1, RemoveFirstIsRemoveAt, RemoveAtSeq
      <4> QED
        <5>1. wait_list' = RemoveFirst(wait_list, t) /\ Leave({t})
          BY <1>7, <3>1 DEF TakeResult
        <5> QED
          BY <1>0, <4>2, <5>1 DEF Leave
    <3>2. CASE flags[t] # {}
      BY <1>0, <1>7, <3>2 DEF TakeResult
    <3> QED
      BY <3>1, <3>2
  <2>2. timeout' \in [Thread -> 0 .. U32 - 1]
    <3>1. Remaining(t) \in 0 .. U32 - 1
      BY <1>0 DEF Remaining
    <3> QED
      BY <1>0, <1>7, <3>1 DEF TakeResult
  <2>3. /\ flags' = [flags EXCEPT ![t] = {}] /\ pc' = [pc EXCEPT ![t] = "idle"]
        /\ UNCHANGED <<allocated, mutex, token_count, it, need_count, priority, sem,
                       timed, elapsed, supplied>>
    BY <1>7 DEF TakeResult
  <2>4. taken' \in Nat
    <3>1. need_count[t] \in Nat /\ taken \in Nat
      BY <1>0
    <3> QED
      BY <1>7, <3>1 DEF TakeResult
  <2> QED
    BY <1>0, <2>1, <2>2, <2>3, <2>4
<1>8. ASSUME NEW n \in 1 .. MaxCount, SignalEnter(t, n)
      PROVE  TypeOK'
  BY <1>0, <1>8 DEF SignalEnter
<1>9a. CASE SignalPass(t)
  <2>1. it \in 1 .. Len(wait_list)
    BY <1>0, <1>9a DEF SignalPass, WaitInv, SignalHolds
  <2>2. wait_list[it] \in Thread
    BY <1>0, <2>1
  <2>3. it' \in Nat /\ pc' = pc
    BY <1>0, <1>9a, <2>1 DEF SignalPass
  <2>4. UNCHANGED <<allocated, mutex, token_count, wait_list, waiterVars, timeVars,
                    historyVars>>
    BY <1>9a DEF SignalPass
  <2> QED
    BY <1>0, <2>3, <2>4
<1>9b. ASSUME NEW w \in Thread, SignalServe(t, w)
       PROVE  TypeOK'
  <2>1. it \in 1 .. Len(wait_list) /\ w = wait_list[it]
    BY <1>0, <1>9b DEF SignalServe, WaitInv, SignalHolds
  <2>2. wait_list' \in Seq(Thread)
    BY <1>0, <1>9b, <2>1, RemoveAtSeq DEF SignalServe
  <2>3. token_count' \in 0 .. MaxCount
    <3>1. need_count[w] \in 0 .. MaxCount
      BY <1>0
    <3>2. need_count[w] <= token_count /\ token_count' = token_count - need_count[w]
      BY <1>9b DEF SignalServe
    <3>3. token_count \in 0 .. MaxCount /\ MaxCount \in Nat
      BY <1>0
    <3> QED
      BY <3>1, <3>2, <3>3
  <2>4. sem' \in [Thread -> 0 .. 1]
    <3>1. w \in Queued
      BY <2>1, QueuedIsThread
    <3>2. sem[w] = 0
      BY <1>q, <3>1
    <3>3. sem \in [Thread -> 0 .. 1]
      BY <1>0
    <3>4. sem' = [sem EXCEPT ![w] = sem[w] + 1]
      BY <1>9b DEF SignalServe
    <3> QED
      BY <3>2, <3>3, <3>4
  <2>5. earlier' \in [Thread -> SUBSET Thread]
    BY <1>0, <1>9b, LeaveType DEF SignalServe
  <2> QED
    BY <1>0, <1>9b, <2>2, <2>3, <2>4, <2>5 DEF SignalServe
<1>10. CASE SignalReturn(t)
  BY <1>0, <1>10 DEF SignalReturn
<1>11. ASSUME NEW why \in Reasons, WakeEverybody(why)
       PROVE  /\ wait_list' \in Seq(Thread)
              /\ flags' \in [Thread -> SUBSET Reasons]
              /\ sem' \in [Thread -> 0 .. 1]
              /\ earlier' \in [Thread -> SUBSET Thread]
  <2>1. wait_list' \in Seq(Thread)
    BY <1>11 DEF WakeEverybody
  <2>2. flags' \in [Thread -> SUBSET Reasons]
    BY <1>0, <1>11 DEF WakeEverybody, Reasons
  <2>3. sem' \in [Thread -> 0 .. 1]
    <3>1. sem \in [Thread -> 0 .. 1]
      BY <1>0
    <3>2. sem' = [u \in Thread |-> IF u \in Queued THEN sem[u] + 1 ELSE sem[u]]
      BY <1>11 DEF WakeEverybody
    <3>3. ASSUME NEW u \in Thread
          PROVE  (IF u \in Queued THEN sem[u] + 1 ELSE sem[u]) \in 0 .. 1
      BY <1>q, <3>1
    <3> QED
      BY <3>2, <3>3
  <2>4. earlier' \in [Thread -> SUBSET Thread]
    BY <1>0, <1>11, LeaveType DEF WakeEverybody
  <2> QED
    BY <2>1, <2>2, <2>3, <2>4
<1>12. ASSUME NEW s \in SetCounts, Cancel(t, s)
       PROVE  TypeOK'
  BY <1>0, <1>11, <1>12 DEF Cancel, Reasons
<1>13. CASE Delete(t)
  BY <1>0, <1>11, <1>13 DEF Delete, Reasons
<1>14. CASE Erase(t)
  BY <1>0, <1>14 DEF Erase
<1>15. {0} \subseteq Nat
  OBVIOUS
<1> QED
  BY <1>1, <1>2, <1>3, <1>4, <1>5, <1>6, <1>7, <1>8, <1>9a, <1>9b, <1>10, <1>12, <1>13,
     <1>14, <1>15, EndOfWait DEF SemStep, Wait, Return, SignalVisit

-----------------------------------------------------------------------------
(* Where the waiters are *)

(* What WaiterAccounted and QueuedAsleep say of one thread.                *)
Accounted(t) ==
  /\ t \in Queued <=> pc[t] \in {"wait", "relock"} /\ flags[t] = {}
  /\ \A f, g \in flags[t] : f = g
  /\ pc[t] = "wait" => (sem[t] = 1 <=> flags[t] # {})
  /\ t \in Queued => sem[t] = 0

Placed == Once(wait_list) /\ \A u \in Thread : Accounted(u)

LEMMA WaitInvPlaced == WaitInv => Placed
  BY QueuedIsThread
     DEF WaitInv, WaiterAccounted, QueuedAsleep, Placed, Accounted

(* A step that leaves the list, the flags and the semaphores alone.        *)
LEMMA PlacedSame ==
  ASSUME WaitInv, NEW t \in Thread, UNCHANGED <<wait_list, flags, sem>>,
         NEW label, label \notin {"wait", "relock"},
         pc[t] \notin {"wait", "relock"}, Goto(t, label)
  PROVE  Placed'
<1>1. Placed /\ pc \in [Thread -> {"idle", "enter", "wait", "relock", "signal", "erase"}]
  BY WaitInvPlaced DEF WaitInv, TypeOK
<1>2. Queued' = Queued /\ Once(wait_list)'
  BY <1>1 DEF Queued, Placed, Once
<1>3. ASSUME NEW u \in Thread
      PROVE  Accounted(u)'
  BY <1>1, <1>2 DEF Placed, Accounted, Goto
<1> QED
  BY <1>2, <1>3 DEF Placed

(* Everybody in the list gets the same reason and is awake.                *)
LEMMA PlacedWoken ==
  ASSUME WaitInv, NEW t \in Thread, NEW why \in Reasons, WakeEverybody(why),
         NEW label, label \notin {"wait", "relock"},
         pc[t] \notin {"wait", "relock"}, Goto(t, label)
  PROVE  Placed'
<1>1. Placed /\ TypeOK
  BY WaitInvPlaced DEF WaitInv
<1>2. Queued' = {} /\ Once(wait_list)'
  BY DEF Queued, Once, Range, WakeEverybody
<1>3. ASSUME NEW u \in Thread
      PROVE  Accounted(u)'
  <2>1. CASE u \in Queued
    <3>1. flags[u] = {} /\ sem[u] = 0
      BY <1>1, <2>1 DEF Placed, Accounted
    <3>2. flags'[u] = {why} /\ sem'[u] = 1
      BY <1>1, <2>1, <3>1 DEF WakeEverybody
    <3> QED
      BY <1>2, <3>2 DEF Accounted
  <2>2. CASE u \notin Queued
    <3>1. flags'[u] = flags[u] /\ sem'[u] = sem[u]
      BY <2>2 DEF WakeEverybody
    <3>2. pc'[u] = IF u = t THEN label ELSE pc[u]
      <4>1. DOMAIN pc = Thread
        BY <1>1 DEF TypeOK
      <4> QED
        BY <4>1 DEF Goto
    <3>3. ~(pc[u] \in {"wait", "relock"} /\ flags[u] = {})
      BY <1>1, <2>2 DEF Placed, Accounted
    <3>4. pc'[u] \in {"wait", "relock"} => pc'[u] = pc[u]
      BY <3>2
    <3> QED
      BY <1>1, <1>2, <3>1, <3>3, <3>4 DEF Placed, Accounted
  <2> QED
    BY <2>1, <2>2
<1> QED
  BY <1>2, <1>3 DEF Placed

LEMMA PlacedEnqueue ==
  ASSUME WaitInv, NEW t \in Thread, NEW n, NEW p, NEW d, WaitEnqueue(t, n, p, d)
  PROVE  Placed'
<1>1. Placed /\ TypeOK
  BY WaitInvPlaced DEF WaitInv
<1>2. pc[t] = "enter"
  BY DEF WaitEnqueue, Locked
<1>3. t \notin Queued
  BY <1>1, <1>2 DEF Placed, Accounted
<1>4. PICK i \in 1 .. Len(wait_list) + 1 : wait_list' = InsertAt(wait_list, i, t)
  BY DEF WaitEnqueue
<1>5. Once(wait_list)' /\ Queued' = Queued \cup {t}
  <2>1. wait_list \in Seq(Thread) /\ Once(wait_list) /\ t \notin Range(wait_list)
    BY <1>1, <1>3 DEF TypeOK, Placed, Queued
  <2>2. /\ Once(InsertAt(wait_list, i, t))
        /\ Range(InsertAt(wait_list, i, t)) = Range(wait_list) \cup {t}
    BY <2>1, InsertAtOnce
  <2> QED
    BY <1>4, <2>2 DEF Queued, Once
<1>6. /\ flags' = [flags EXCEPT ![t] = {}] /\ sem' = [sem EXCEPT ![t] = 0]
      /\ pc' = [pc EXCEPT ![t] = "wait"]
  BY DEF WaitEnqueue, Goto
<1>7. ASSUME NEW u \in Thread
      PROVE  Accounted(u)'
  <2>1. CASE u = t
    BY <1>1, <1>5, <1>6, <2>1 DEF Accounted, TypeOK
  <2>2. CASE u # t
    BY <1>1, <1>5, <1>6, <2>2 DEF Accounted, TypeOK, Placed
  <2> QED
    BY <2>1, <2>2
<1> QED
  BY <1>5, <1>7 DEF Placed

LEMMA PlacedResult ==
  ASSUME WaitInv, NEW t \in Thread, TakeResult(t)
  PROVE  Placed'
<1>1. Placed /\ TypeOK
  BY WaitInvPlaced DEF WaitInv
<1>2. pc[t] = "relock" /\ sem' = sem
  BY DEF TakeResult
<1>3. flags' = [flags EXCEPT ![t] = {}] /\ pc' = [pc EXCEPT ![t] = "idle"]
  BY DEF TakeResult, Goto
<1>4. Once(wait_list)' /\ Queued' = Queued \ {t}
  <2>1. wait_list \in Seq(Thread) /\ Once(wait_list)
    BY <1>1 DEF TypeOK, Placed
  <2>2. CASE flags[t] = {}
    <3>1. t \in Range(wait_list)
      BY <1>1, <1>2, <2>2 DEF Placed, Accounted, Queued
    <3>2. PICK i \in 1 .. Len(wait_list) :
            wait_list[i] = t /\ RemoveFirst(wait_list, t) = RemoveAt(wait_list, i)
      BY <2>1, <3>1, RemoveFirstIsRemoveAt
    <3>3. /\ Once(RemoveAt(wait_list, i))
          /\ Range(RemoveAt(wait_list, i)) = Range(wait_list) \ {wait_list[i]}
      BY <2>1, RemoveAtOnce
    <3>4. wait_list' = RemoveAt(wait_list, i)
      BY <2>2, <3>2 DEF TakeResult
    <3> QED
      BY <3>2, <3>3, <3>4 DEF Queued, Once
  <2>3. CASE flags[t] # {}
    <3>1. wait_list' = wait_list
      BY <2>3 DEF TakeResult
    <3>2. t \notin Queued
      BY <1>1, <2>3 DEF Placed, Accounted
    <3> QED
      BY <2>1, <3>1, <3>2 DEF Queued, Once
  <2> QED
    BY <2>2, <2>3
<1>5. ASSUME NEW u \in Thread
      PROVE  Accounted(u)'
  <2>1. CASE u = t
    BY <1>1, <1>3, <1>4, <2>1 DEF Accounted, TypeOK
  <2>2. CASE u # t
    BY <1>1, <1>2, <1>3, <1>4, <2>2 DEF Accounted, TypeOK, Placed
  <2> QED
    BY <2>1, <2>2
<1> QED
  BY <1>4, <1>5 DEF Placed

LEMMA PlacedServe ==
  ASSUME WaitInv, NEW t \in Thread, NEW w \in Thread, SignalServe(t, w)
  PROVE  Placed'
<1>1. Placed /\ TypeOK
  BY WaitInvPlaced DEF WaitInv
<1>2. it \in 1 .. Len(wait_list) /\ w = wait_list[it]
  BY <1>1 DEF SignalServe, WaitInv, SignalHolds, TypeOK
<1>3. w \in Queued
  BY <1>2, QueuedIsThread
<1>4. Once(wait_list)' /\ Queued' = Queued \ {w}
  <2>1. wait_list \in Seq(Thread) /\ Once(wait_list)
    BY <1>1 DEF TypeOK, Placed
  <2>2. /\ Once(RemoveAt(wait_list, it))
        /\ Range(RemoveAt(wait_list, it)) = Range(wait_list) \ {wait_list[it]}
    BY <1>2, <2>1, RemoveAtOnce
  <2>3. wait_list' = RemoveAt(wait_list, it)
    BY DEF SignalServe
  <2> QED
    BY <1>2, <2>2, <2>3 DEF Queued, Once
<1>5. /\ flags' = [flags EXCEPT ![w] = flags[w] \cup {"signaled"}]
      /\ sem' = [sem EXCEPT ![w] = sem[w] + 1] /\ pc' = pc
  BY DEF SignalServe
<1>6. flags[w] = {} /\ sem[w] = 0
  BY <1>1, <1>3 DEF Placed, Accounted
<1>7. ASSUME NEW u \in Thread
      PROVE  Accounted(u)'
  <2>1. CASE u = w
    <3>1. flags'[w] = {"signaled"} /\ sem'[w] = 1
      BY <1>1, <1>5, <1>6 DEF TypeOK
    <3> QED
      BY <1>4, <2>1, <3>1 DEF Accounted
  <2>2. CASE u # w
    BY <1>1, <1>4, <1>5, <2>2 DEF Accounted, TypeOK, Placed
  <2> QED
    BY <2>1, <2>2
<1> QED
  BY <1>4, <1>7 DEF Placed

LEMMA PlacedStep ==
  ASSUME WaitInv, NEW t \in Thread, SemStep(t)
  PROVE  Placed'
<1> DEFINE Outside == {"idle", "enter", "signal", "erase"}
<1>0. TypeOK /\ Placed
  BY WaitInvPlaced DEF WaitInv
<1>1. ASSUME UNCHANGED <<wait_list, flags, sem>>, NEW label \in Outside,
             pc[t] \in Outside, Goto(t, label)
      PROVE  Placed'
  BY <1>1, PlacedSame
<1>2. CASE Call(t) \/ Refuse(t) \/ SignalReturn(t) \/ Erase(t)
  <2>1. UNCHANGED <<wait_list, flags, sem>> /\ pc[t] \in Outside
    BY <1>2 DEF Call, Refuse, Locked, SignalReturn, Erase, objectVars, waiterVars
  <2>2. Goto(t, "enter") \/ Goto(t, "idle")
    BY <1>2 DEF Call, Refuse, SignalReturn, Erase
  <2> QED
    BY <1>1, <2>1, <2>2
<1>3. ASSUME NEW n \in 1 .. MaxCount, WaitTake(t, n) \/ SignalEnter(t, n)
      PROVE  Placed'
  <2>1. UNCHANGED <<wait_list, flags, sem>> /\ pc[t] \in Outside
    BY <1>3 DEF WaitTake, SignalEnter, Locked, waiterVars
  <2>2. Goto(t, "idle") \/ Goto(t, "signal")
    BY <1>3 DEF WaitTake, SignalEnter
  <2> QED
    BY <1>1, <2>1, <2>2
<1>4. CASE SignalPass(t)
  <2>1. UNCHANGED <<wait_list, flags, sem, pc>>
    BY <1>4 DEF SignalPass, waiterVars
  <2> QED
    BY <1>0, <2>1 DEF Placed, Accounted, Once, Queued
<1>5. CASE Wake(t)
  <2>1. /\ UNCHANGED <<wait_list, flags>> /\ sem' = [sem EXCEPT ![t] = sem[t] - 1]
        /\ pc[t] = "wait" /\ pc' = [pc EXCEPT ![t] = "relock"] /\ sem[t] > 0
    BY <1>5 DEF Wake, objectVars, Goto
  <2>2. sem[t] = 1 /\ sem'[t] = 0
    BY <1>0, <2>1 DEF TypeOK
  <2>3. ASSUME NEW u \in Thread
        PROVE  Accounted(u)'
    BY <1>0, <2>1, <2>2 DEF Placed, Accounted, Queued, TypeOK
  <2> QED
    BY <1>0, <2>1, <2>3 DEF Placed, Once
<1>6. CASE Expire(t)
  <2>1. UNCHANGED <<wait_list, flags, sem>> /\ pc[t] = "wait" /\ Goto(t, "relock")
    BY <1>6 DEF Expire, objectVars, waiterVars
  <2>2. ASSUME NEW u \in Thread
        PROVE  Accounted(u)'
    BY <1>0, <2>1 DEF Placed, Accounted, Queued, TypeOK, Goto
  <2> QED
    BY <1>0, <2>1, <2>2 DEF Placed, Once
<1>7. ASSUME NEW s \in SetCounts, Cancel(t, s)
      PROVE  Placed'
  <2>1. WakeEverybody("canceled") /\ pc[t] = "enter" /\ Goto(t, "idle")
    BY <1>7 DEF Cancel, Locked
  <2> QED
    BY <2>1, PlacedWoken DEF Reasons
<1>8. CASE Delete(t)
  <2>1. WakeEverybody("deleted") /\ pc[t] = "enter" /\ Goto(t, "erase")
    BY <1>8 DEF Delete, Locked
  <2> QED
    BY <2>1, PlacedWoken DEF Reasons
<1> QED
  BY <1>2, <1>3, <1>4, <1>5, <1>6, <1>7, <1>8, PlacedEnqueue, PlacedResult,
     PlacedServe, EndOfWait DEF SemStep, Wait, Return, SignalVisit

-----------------------------------------------------------------------------
(* Who keeps the mutex *)

LEMMA SignalHoldsStep ==
  ASSUME WaitInv, NEW t \in Thread, SemStep(t)
  PROVE  SignalHolds'
<1> USE DEF Goto
<1>0. /\ pc \in [Thread -> {"idle", "enter", "wait", "relock", "signal", "erase"}]
      /\ it \in Nat /\ SignalHolds
  BY DEF WaitInv, TypeOK
<1>1. ASSUME UNCHANGED <<mutex, it>>, NEW label, label # "signal",
             pc' = [pc EXCEPT ![t] = label], pc[t] # "signal"
      PROVE  SignalHolds'
  BY <1>0, <1>1 DEF SignalHolds
<1>2. CASE Call(t) \/ Refuse(t) \/ Erase(t) \/ Wake(t) \/ Expire(t) \/ TakeResult(t)
           \/ Delete(t)
  <2>1. UNCHANGED <<mutex, it>> /\ pc[t] # "signal"
    BY <1>2 DEF Call, Refuse, Locked, Erase, Wake, Expire, TakeResult, Delete, objectVars
  <2>2. \E label \in {"enter", "idle", "relock", "erase"} :
          pc' = [pc EXCEPT ![t] = label]
    BY <1>2 DEF Call, Refuse, Erase, Wake, Expire, TakeResult, Delete
  <2> QED
    BY <1>1, <2>1, <2>2
<1>3. ASSUME NEW n, NEW p, NEW d, WaitTake(t, n) \/ WaitEnqueue(t, n, p, d)
      PROVE  SignalHolds'
  <2>1. UNCHANGED <<mutex, it>> /\ pc[t] # "signal"
    BY <1>3 DEF WaitTake, WaitEnqueue, Locked
  <2>2. \E label \in {"idle", "wait"} : pc' = [pc EXCEPT ![t] = label]
    BY <1>3 DEF WaitTake, WaitEnqueue
  <2> QED
    BY <1>1, <2>1, <2>2
<1>4. ASSUME NEW s, Cancel(t, s)
      PROVE  SignalHolds'
  BY <1>1, <1>4 DEF Cancel, Locked
<1>5. ASSUME NEW n, SignalEnter(t, n)
      PROVE  SignalHolds'
  <2>1. /\ mutex = NoThread /\ mutex' = t /\ it' = 1
        /\ pc' = [pc EXCEPT ![t] = "signal"]
    BY <1>5 DEF SignalEnter, Locked
  <2> QED
    BY <1>0, <2>1, OrbisSemAssumption DEF SignalHolds
<1>6. CASE SignalReturn(t)
  <2>1. /\ pc[t] = "signal" /\ mutex' = NoThread
        /\ pc' = [pc EXCEPT ![t] = "idle"]
    BY <1>6 DEF SignalReturn
  <2> QED
    BY <1>0, <2>1, OrbisSemAssumption DEF SignalHolds
<1>7. CASE SignalVisit(t)
  <2>1. pc' = pc /\ mutex' = mutex /\ (it' = it \/ it' = it + 1)
    BY <1>7 DEF SignalVisit, SignalPass, SignalServe
  <2> QED
    BY <1>0, <2>1 DEF SignalHolds
<1> QED
  BY <1>2, <1>3, <1>4, <1>5, <1>6, <1>7, EndOfWait DEF SemStep, Wait, Return

LEMMA LeftStep ==
  ASSUME WaitInv, NEW t \in Thread, SemStep(t)
  PROVE  OnlyWaitersLeft'
<1> DEFINE Labels == {"idle", "enter", "wait", "relock", "signal", "erase"}
<1>0. /\ pc \in [Thread -> Labels] /\ SignalHolds
      /\ Deleted => mutex = NoThread /\ \A u \in Thread : pc[u] # "enter"
  BY DEF WaitInv, TypeOK, OnlyWaitersLeft
<1>1. CASE Call(t)
  <2>1. /\ UNCHANGED allocated /\ pc' = [pc EXCEPT ![t] = "enter"]
        /\ allocated /\ \A u \in Thread : pc[u] # "erase"
    BY <1>1 DEF Call, Goto, objectVars
  <2> QED
    BY <1>0, <2>1 DEF OnlyWaitersLeft, Deleted
<1>2. ASSUME pc[t] = "enter"
      PROVE  ~Deleted
  BY <1>0, <1>2
<1>3. ASSUME ~Deleted, UNCHANGED allocated, NEW label, label # "erase",
             pc' = [pc EXCEPT ![t] = label]
      PROVE  OnlyWaitersLeft'
  <2>1. \A u \in Thread : pc'[u] # "erase"
    BY <1>0, <1>3 DEF Deleted
  <2> QED
    BY <1>3, <2>1 DEF OnlyWaitersLeft, Deleted
<1>4. CASE Refuse(t) \/ \E n \in 1 .. MaxCount : WaitTake(t, n) \/ SignalEnter(t, n)
  <2>1. /\ pc[t] = "enter" /\ UNCHANGED allocated
        /\ \E label \in {"idle", "signal"} : pc' = [pc EXCEPT ![t] = label]
    BY <1>4 DEF Refuse, WaitTake, SignalEnter, Locked, Goto, objectVars
  <2> QED
    BY <1>2, <1>3, <2>1
<1>5. ASSUME NEW n, NEW p, NEW d, WaitEnqueue(t, n, p, d)
      PROVE  OnlyWaitersLeft'
  <2>1. pc[t] = "enter" /\ UNCHANGED allocated /\ pc' = [pc EXCEPT ![t] = "wait"]
    BY <1>5 DEF WaitEnqueue, Locked, Goto
  <2> QED
    BY <1>2, <1>3, <2>1
<1>6. ASSUME NEW s, Cancel(t, s)
      PROVE  OnlyWaitersLeft'
  <2>1. pc[t] = "enter" /\ UNCHANGED allocated /\ pc' = [pc EXCEPT ![t] = "idle"]
    BY <1>6 DEF Cancel, Locked, Goto
  <2> QED
    BY <1>2, <1>3, <2>1
<1>7. CASE Delete(t)
  <2>1. /\ mutex' = NoThread /\ pc' = [pc EXCEPT ![t] = "erase"]
        /\ \A u \in Thread \ {t} : pc[u] \notin {"enter", "erase"}
    BY <1>7 DEF Delete, Locked, Goto
  <2> QED
    BY <1>0, <2>1 DEF OnlyWaitersLeft
<1>8. ASSUME Deleted' => Deleted, mutex' = mutex, NEW label, label # "enter",
             pc' = [pc EXCEPT ![t] = label] \/ pc' = pc
      PROVE  OnlyWaitersLeft'
  BY <1>0, <1>8 DEF OnlyWaitersLeft
<1>9. CASE \/ Wake(t) \/ Expire(t) \/ SignalVisit(t) \/ Relock(t)
           \/ RelockDestroyed(t)
  <2>1. /\ UNCHANGED <<allocated, mutex>>
        /\ \/ pc' = pc
           \/ \E label \in {"idle", "relock"} : pc' = [pc EXCEPT ![t] = label]
    BY <1>9 DEF Wake, Expire, SignalVisit, SignalPass, SignalServe, Relock,
       RelockDestroyed, TakeResult, Goto, objectVars
  <2>2. Deleted' => Deleted
    BY <1>0, <2>1 DEF Deleted
  <2> QED
    BY <1>8, <2>1, <2>2
<1>10. CASE SignalReturn(t)
  <2>1. /\ UNCHANGED allocated /\ mutex' = NoThread
        /\ pc' = [pc EXCEPT ![t] = "idle"]
    BY <1>10 DEF SignalReturn, Goto
  <2>2. Deleted' => Deleted
    BY <1>0, <2>1 DEF Deleted
  <2> QED
    BY <1>0, <2>1, <2>2 DEF OnlyWaitersLeft
<1>11. CASE Erase(t)
  <2>1. /\ pc[t] = "erase" /\ mutex' = mutex /\ pc' = [pc EXCEPT ![t] = "idle"]
    BY <1>11 DEF Erase, Goto
  <2>2. Deleted
    BY <2>1 DEF Deleted
  <2> QED
    BY <1>8, <2>1, <2>2
<1> QED
  BY <1>1, <1>4, <1>5, <1>6, <1>7, <1>9, <1>10, <1>11 DEF SemStep, Wait, Return

-----------------------------------------------------------------------------
LEMMA WaitInvStep ==
  ASSUME WaitInv, [Next]_vars
  PROVE  WaitInv'
<1>1. ASSUME NEW t \in Thread, SemStep(t)
      PROVE  WaitInv'
  <2>1. TypeOK' /\ Placed' /\ SignalHolds' /\ OnlyWaitersLeft'
    BY <1>1, StepType, PlacedStep, SignalHoldsStep, LeftStep
  <2>2. WaiterAccounted'
    BY <2>1 DEF Placed, Accounted, WaiterAccounted, Once
  <2>3. QueuedAsleep'
    <3>1. Queued' \subseteq Thread
      BY <2>1 DEF TypeOK, Queued, Range
    <3> QED
      BY <2>1, <3>1 DEF Placed, Accounted, QueuedAsleep
  <2> QED
    BY <2>1, <2>2, <2>3 DEF WaitInv
<1>2. CASE UNCHANGED vars
  BY <1>2 DEF vars, objectVars, waiterVars, timeVars, historyVars, WaitInv,
     TypeOK, WaiterAccounted, QueuedAsleep, SignalHolds, OnlyWaitersLeft, Deleted,
     Queued
<1> QED
  BY <1>1, <1>2 DEF Next

LEMMA WaitInvHolds == Spec => []WaitInv
  BY InitWait, WaitInvStep, PTL DEF Spec

(* Every variable keeps its type: in particular the count stays between 0  *)
(* and what the semaphore was created for, and no waiter is released twice. *)
THEOREM TypeCorrect == Spec => []TypeOK
<1>1. WaitInv => TypeOK
  BY DEF WaitInv
<1> QED
  BY <1>1, WaitInvHolds, PTL

(* A waiter is in the list once until exactly one of Signal, Cancel and    *)
(* Delete, or its own timeout, takes it off.                               *)
THEOREM WaitersAccounted == Spec => []WaiterAccounted
<1>1. WaitInv => WaiterAccounted
  BY DEF WaitInv
<1> QED
  BY <1>1, WaitInvHolds, PTL

-----------------------------------------------------------------------------
(* Nobody stranded *)

(* The list of a step that takes out the element at i.                     *)
LEMMA RemovedFrom ==
  ASSUME WaitInv, NEW i \in 1 .. Len(wait_list), wait_list' = RemoveAt(wait_list, i)
  PROVE  /\ Len(wait_list') = Len(wait_list) - 1
         /\ \A j \in 1 .. Len(wait_list') :
              wait_list'[j] = IF j < i THEN wait_list[j] ELSE wait_list[j + 1]
<1>1. wait_list \in Seq(Thread)
  BY DEF WaitInv, TypeOK
<1> QED
  BY <1>1, RemoveAtSeq

(* The list of a step that puts in the thread at i.                        *)
LEMMA InsertedInto ==
  ASSUME WaitInv, NEW t \in Thread, NEW i \in 1 .. Len(wait_list) + 1,
         wait_list' = InsertAt(wait_list, i, t)
  PROVE  /\ Len(wait_list') = Len(wait_list) + 1
         /\ \A j \in 1 .. Len(wait_list') :
              wait_list'[j] = IF j < i THEN wait_list[j]
                              ELSE IF j = i THEN t ELSE wait_list[j - 1]
<1>1. wait_list \in Seq(Thread)
  BY DEF WaitInv, TypeOK
<1>2. /\ Len(InsertAt(wait_list, i, t)) = Len(wait_list) + 1
      /\ \A j \in 1 .. Len(wait_list) + 1 :
           InsertAt(wait_list, i, t)[j] =
             IF j < i THEN wait_list[j] ELSE IF j = i THEN t ELSE wait_list[j - 1]
  BY <1>1, InsertAtSeq
<1> QED
  BY <1>2

(* The end of a wait leaves the list alone or takes the thread out of it.  *)
LEMMA ResultRemoves ==
  ASSUME WaitInv, NEW t \in Thread, TakeResult(t)
  PROVE  \/ UNCHANGED <<wait_list, earlier>>
         \/ /\ Leave({t})
            /\ \E i \in 1 .. Len(wait_list) :
                 wait_list[i] = t /\ wait_list' = RemoveAt(wait_list, i)
<1>1. CASE flags[t] = {}
  <2>1. t \in Range(wait_list)
    <3>1. pc[t] = "relock"
      BY DEF TakeResult
    <3> QED
      BY <1>1, <3>1, WaitInvPlaced DEF Placed, Accounted, Queued
  <2>2. wait_list \in Seq(Thread)
    BY DEF WaitInv, TypeOK
  <2>3. wait_list' = RemoveFirst(wait_list, t) /\ Leave({t})
    BY <1>1 DEF TakeResult
  <2> QED
    BY <2>1, <2>2, <2>3, RemoveFirstIsRemoveAt
<1>2. CASE flags[t] # {}
  BY <1>2 DEF TakeResult
<1> QED
  BY <1>1, <1>2

LEMMA StrandedStep ==
  ASSUME WaitInv, NoStrandedWaiter, NEW t \in Thread, SemStep(t)
  PROVE  NoStrandedWaiter'
<1> DEFINE Needs(i) == need_count[wait_list[i]]
<1>0. /\ wait_list \in Seq(Thread) /\ token_count \in Nat /\ it \in Nat
      /\ need_count \in [Thread -> Nat]
  BY OrbisSemAssumption DEF WaitInv, TypeOK
<1>a. mutex = NoThread => \A i \in 1 .. Len(wait_list) : Needs(i) > token_count
  BY DEF NoStrandedWaiter
<1>1. CASE Call(t) \/ Refuse(t) \/ Wake(t) \/ Expire(t) \/ Erase(t)
  <2>1. UNCHANGED <<mutex, token_count, wait_list, it, need_count>>
    BY <1>1 DEF Call, Refuse, Wake, Expire, Erase, objectVars, waiterVars
  <2> QED
    BY <2>1 DEF NoStrandedWaiter
<1>2. ASSUME NEW n \in 1 .. MaxCount, WaitTake(t, n)
      PROVE  NoStrandedWaiter'
  <2>1. /\ UNCHANGED <<wait_list, need_count>> /\ mutex = NoThread
        /\ token_count' = token_count - n
    BY <1>2 DEF WaitTake, Locked, waiterVars
  <2>2. \A i \in 1 .. Len(wait_list) : Needs(i) > token_count - n
    BY <1>0, <1>a, <2>1, OrbisSemAssumption
  <2> QED
    BY <2>1, <2>2 DEF NoStrandedWaiter
<1>3. ASSUME NEW n \in 1 .. MaxCount, NEW p, NEW d, WaitEnqueue(t, n, p, d)
      PROVE  NoStrandedWaiter'
  <2>1. /\ token_count < n /\ token_count' = token_count /\ mutex = NoThread
        /\ need_count' = [need_count EXCEPT ![t] = n] /\ pc[t] = "enter"
    BY <1>3 DEF WaitEnqueue, Locked
  <2>2. PICK k \in 1 .. Len(wait_list) + 1 : wait_list' = InsertAt(wait_list, k, t)
    BY <1>3 DEF WaitEnqueue
  <2>3. /\ Len(wait_list') = Len(wait_list) + 1
        /\ \A j \in 1 .. Len(wait_list') :
             wait_list'[j] = IF j < k THEN wait_list[j]
                             ELSE IF j = k THEN t ELSE wait_list[j - 1]
    BY <2>2, InsertedInto
  <2>4. \A i \in 1 .. Len(wait_list) : need_count'[wait_list[i]] > token_count
    <3>1. ASSUME NEW i \in 1 .. Len(wait_list)
          PROVE  wait_list[i] # t
      BY <2>1, QueuedIsThread, WaitInvPlaced DEF Placed, Accounted
    <3> QED
      BY <1>0, <1>a, <2>1, <3>1
  <2>5. need_count'[t] > token_count
    BY <1>0, <2>1, OrbisSemAssumption
  <2>6. ASSUME NEW j \in 1 .. Len(wait_list')
        PROVE  need_count'[wait_list'[j]] > token_count'
    <3>1. wait_list'[j] = t \/ \E i \in 1 .. Len(wait_list) : wait_list'[j] = wait_list[i]
      <4>1. CASE j < k
        <5>1. j \in 1 .. Len(wait_list) /\ wait_list'[j] = wait_list[j]
          BY <1>0, <2>3, <4>1
        <5> QED
          BY <5>1
      <4>2. CASE j = k
        BY <2>3, <4>2
      <4>3. CASE j > k
        <5>1. j - 1 \in 1 .. Len(wait_list) /\ wait_list'[j] = wait_list[j - 1]
          BY <1>0, <2>3, <4>3
        <5> QED
          BY <5>1
      <4> QED
        BY <4>1, <4>2, <4>3
    <3> QED
      BY <2>1, <2>4, <2>5, <3>1
  <2> QED
    BY <2>6 DEF NoStrandedWaiter
<1>4. CASE TakeResult(t) /\ (mutex = NoThread \/ Deleted)
  <2>1. UNCHANGED <<token_count, need_count, it, mutex>> /\ mutex = NoThread
    BY <1>4 DEF TakeResult, WaitInv, OnlyWaitersLeft
  <2>2. ASSUME NEW j \in 1 .. Len(wait_list')
        PROVE  \E i \in 1 .. Len(wait_list) : wait_list'[j] = wait_list[i]
    <3>1. CASE UNCHANGED wait_list
      BY <2>2, <3>1
    <3>2. ASSUME NEW k \in 1 .. Len(wait_list), wait_list' = RemoveAt(wait_list, k)
          PROVE  \E i \in 1 .. Len(wait_list) : wait_list'[j] = wait_list[i]
      <4>1. /\ Len(wait_list') = Len(wait_list) - 1
            /\ wait_list'[j] = IF j < k THEN wait_list[j] ELSE wait_list[j + 1]
        BY <3>2, RemovedFrom
      <4>2. j \in Nat /\ Len(wait_list) \in Nat
        BY <1>0
      <4>3. j \in 1 .. Len(wait_list) /\ j + 1 \in 1 .. Len(wait_list)
        BY <4>1, <4>2
      <4> QED
        BY <4>1, <4>3
    <3> QED
      BY <1>4, <3>1, <3>2, ResultRemoves
  <2> QED
    BY <1>a, <2>1, <2>2 DEF NoStrandedWaiter
<1>5. ASSUME NEW n, SignalEnter(t, n)
      PROVE  NoStrandedWaiter'
  <2>1. mutex' = t /\ it' = 1
    BY <1>5 DEF SignalEnter
  <2> QED
    BY <2>1, OrbisSemAssumption DEF NoStrandedWaiter
<1>6. CASE SignalPass(t)
  <2>1. /\ UNCHANGED <<mutex, token_count, wait_list, need_count>> /\ it' = it + 1
        /\ Needs(it) > token_count
    BY <1>6 DEF SignalPass, waiterVars
  <2>2. mutex = t /\ mutex # NoThread
    BY <1>6, OrbisSemAssumption DEF SignalPass, WaitInv, SignalHolds
  <2>3. ASSUME NEW i \in 1 .. Len(wait_list), i < it + 1
        PROVE  Needs(i) > token_count
    <3>1. i < it \/ i = it
      BY <1>0, <2>3
    <3> QED
      BY <2>1, <3>1 DEF NoStrandedWaiter
  <2> QED
    BY <2>1, <2>2, <2>3 DEF NoStrandedWaiter
<1>7. ASSUME NEW w \in Thread, SignalServe(t, w)
      PROVE  NoStrandedWaiter'
  <2>1. /\ UNCHANGED <<mutex, it, need_count>> /\ pc[t] = "signal"
        /\ token_count' = token_count - need_count[w]
        /\ wait_list' = RemoveAt(wait_list, it)
    BY <1>7 DEF SignalServe
  <2>2. mutex = t /\ mutex # NoThread /\ it >= 1
    BY <2>1, OrbisSemAssumption DEF WaitInv, SignalHolds
  <2>3. it \in 1 .. Len(wait_list)
    BY <1>0, <1>7, <2>2 DEF SignalServe
  <2>4. ASSUME NEW i \in 1 .. Len(wait_list'), i < it
        PROVE  need_count'[wait_list'[i]] > token_count'
    <3>1. i \in 1 .. Len(wait_list) /\ wait_list'[i] = wait_list[i]
      BY <1>0, <2>1, <2>3, <2>4, RemovedFrom
    <3>2. Needs(i) > token_count
      BY <2>4, <3>1 DEF NoStrandedWaiter
    <3>3. wait_list[i] \in Thread
      BY <1>0, <3>1
    <3> QED
      BY <1>0, <2>1, <3>1, <3>2, <3>3
  <2> QED
    BY <2>1, <2>2, <2>4 DEF NoStrandedWaiter
<1>8. CASE SignalReturn(t)
  <2>1. UNCHANGED <<token_count, wait_list, need_count>> /\ it > Len(wait_list)
    BY <1>8 DEF SignalReturn, waiterVars
  <2>2. \A i \in 1 .. Len(wait_list) : Needs(i) > token_count
    <3>1. \A i \in 1 .. Len(wait_list) : i < it
      BY <1>0, <2>1
    <3> QED
      BY <3>1 DEF NoStrandedWaiter
  <2> QED
    BY <2>1, <2>2 DEF NoStrandedWaiter
<1>9. ASSUME NEW s, Cancel(t, s) \/ Delete(t)
      PROVE  NoStrandedWaiter'
  <2>1. wait_list' = <<>>
    BY <1>9 DEF Cancel, Delete, WakeEverybody
  <2> QED
    BY <2>1 DEF NoStrandedWaiter
<1> QED
  BY <1>1, <1>2, <1>3, <1>4, <1>5, <1>6, <1>7, <1>8, <1>9, EndOfWait
     DEF SemStep, Wait, Return, SignalVisit

(* While nobody holds the mutex every waiter needs more than there is:     *)
(* neither Signal, nor a timeout, nor a Cancel leaves one behind enough    *)
(* tokens.                                                                 *)
THEOREM NobodyStranded == Spec => []NoStrandedWaiter
<1>1. Init => NoStrandedWaiter
  BY DEF Init, NoStrandedWaiter
<1>2. WaitInv /\ NoStrandedWaiter /\ [Next]_vars => NoStrandedWaiter'
  <2>1. UNCHANGED vars /\ NoStrandedWaiter => NoStrandedWaiter'
    BY DEF vars, objectVars, waiterVars, NoStrandedWaiter
  <2> QED
    BY <2>1, StrandedStep DEF Next
<1> QED
  BY <1>1, <1>2, WaitInvHolds, PTL DEF Spec

-----------------------------------------------------------------------------
(* The order of the list *)

(* Before, in the state after the step.                                    *)
BeforeNext(u, w) ==
  \/ ~IsFifo /\ priority'[u] < priority'[w]
  \/ (IsFifo \/ priority'[u] = priority'[w]) /\ u \in earlier'[w]

LEMMA OrderedNext ==
  ASSUME \A i, j \in 1 .. Len(wait_list') :
           i < j => BeforeNext(wait_list'[i], wait_list'[j])
  PROVE  QueueOrdered'
  BY DEF QueueOrdered, Before, BeforeNext

(* Whoever leaves, the others keep their order.                            *)
LEMMA OrderAfterLeave ==
  ASSUME WaitInv, QueueOrdered, NEW i \in 1 .. Len(wait_list),
         wait_list' = RemoveAt(wait_list, i), Leave({wait_list[i]}),
         priority' = priority
  PROVE  QueueOrdered'
<1> DEFINE Old(j) == IF j < i THEN j ELSE j + 1
<1>1. wait_list \in Seq(Thread) /\ Once(wait_list)
  BY QueuedIsThread DEF WaitInv, TypeOK
<1>2. /\ Len(wait_list') = Len(wait_list) - 1
      /\ \A j \in 1 .. Len(wait_list') : wait_list'[j] = wait_list[Old(j)]
  BY RemovedFrom
<1>3. ASSUME NEW j \in 1 .. Len(wait_list'), NEW k \in 1 .. Len(wait_list'), j < k
      PROVE  BeforeNext(wait_list'[j], wait_list'[k])
  <2> DEFINE u == wait_list[Old(j)]
             w == wait_list[Old(k)]
  <2>1. /\ Old(j) \in 1 .. Len(wait_list) /\ Old(k) \in 1 .. Len(wait_list)
        /\ Old(j) < Old(k) /\ Old(j) # i /\ Old(k) # i
    BY <1>1, <1>2, <1>3
  <2>2. wait_list'[j] = u /\ wait_list'[k] = w
    BY <1>2
  <2> HIDE DEF Old
  <2>3. Before(u, w)
    BY <2>1 DEF QueueOrdered
  <2>4. u # wait_list[i] /\ w # wait_list[i]
    BY <1>1, <2>1 DEF Once
  <2>5. earlier'[w] = earlier[w] \ {wait_list[i]}
    <3>1. w \in Thread
      BY <1>1, <2>1
    <3> QED
      BY <2>4, <3>1 DEF Leave
  <2> HIDE DEF u, w
  <2> QED
    BY <2>2, <2>3, <2>4, <2>5 DEF Before, BeforeNext
<1> QED
  BY <1>3, OrderedNext

(* AddWaiter puts a thread behind those of its priority and before those   *)
(* of a lower one, who are all the others by the order so far.             *)
LEMMA OrderAfterEnqueue ==
  ASSUME WaitInv, QueueOrdered, NEW t \in Thread, NEW n, NEW p \in Nat, NEW d,
         WaitEnqueue(t, n, p, d)
  PROVE  QueueOrdered'
<1>1. /\ wait_list \in Seq(Thread) /\ priority \in [Thread -> Nat]
      /\ earlier \in [Thread -> SUBSET Thread]
  BY DEF WaitInv, TypeOK
<1>2. PICK i \in 1 .. Len(wait_list) + 1 :
        Place(i, p) /\ wait_list' = InsertAt(wait_list, i, t)
  BY DEF WaitEnqueue
<1>3. /\ Len(wait_list') = Len(wait_list) + 1
      /\ \A j \in 1 .. Len(wait_list') :
           wait_list'[j] = IF j < i THEN wait_list[j]
                           ELSE IF j = i THEN t ELSE wait_list[j - 1]
  BY <1>2, InsertedInto
<1>4. /\ priority' = [priority EXCEPT ![t] = p]
      /\ earlier' = [earlier EXCEPT ![t] = Queued] /\ pc[t] = "enter"
  BY DEF WaitEnqueue, Locked
<1>5. ASSUME NEW j \in 1 .. Len(wait_list)
      PROVE  /\ wait_list[j] \in Thread /\ wait_list[j] \in Queued
             /\ wait_list[j] # t
  <2>1. wait_list[j] \in Queued /\ wait_list[j] \in Thread
    BY QueuedIsThread
  <2>2. t \notin Queued
    BY <1>4, WaitInvPlaced DEF Placed, Accounted
  <2> QED
    BY <2>1, <2>2
<1>6. priority'[t] = p /\ earlier'[t] = Queued
  BY <1>1, <1>4
<1>7. ASSUME NEW j \in 1 .. Len(wait_list)
      PROVE  /\ priority'[wait_list[j]] = priority[wait_list[j]]
             /\ earlier'[wait_list[j]] = earlier[wait_list[j]]
             /\ priority[wait_list[j]] \in Nat
  BY <1>1, <1>4, <1>5
<1>8. ASSUME NEW j \in 1 .. Len(wait_list), NEW k \in 1 .. Len(wait_list), j < k
      PROVE  BeforeNext(wait_list[j], wait_list[k])
  <2>1. Before(wait_list[j], wait_list[k])
    BY <1>8 DEF QueueOrdered
  <2> QED
    BY <1>7, <2>1 DEF Before, BeforeNext
<1>9. ASSUME NEW j \in 1 .. Len(wait_list), j < i
      PROVE  BeforeNext(wait_list[j], t)
  <2>1. IsFifo \/ priority[wait_list[j]] <= p
    BY <1>1, <1>2, <1>9 DEF Place
  <2> QED
    BY <1>5, <1>6, <1>7, <2>1 DEF BeforeNext
<1>10. ASSUME NEW k \in 1 .. Len(wait_list), k >= i
       PROVE  BeforeNext(t, wait_list[k])
  <2>1. ~IsFifo /\ priority[wait_list[i]] > p /\ i \in 1 .. Len(wait_list)
    BY <1>1, <1>2, <1>10 DEF Place
  <2>2. priority[wait_list[k]] > p
    <3>1. CASE k = i
      BY <2>1, <3>1
    <3>2. CASE k > i
      <4>1. Before(wait_list[i], wait_list[k])
        BY <2>1, <3>2 DEF QueueOrdered
      <4> QED
        BY <1>7, <2>1, <4>1 DEF Before
    <3> QED
      BY <1>1, <1>10, <3>1, <3>2
  <2> QED
    BY <1>6, <1>7, <2>1, <2>2 DEF BeforeNext
<1>11. ASSUME NEW j \in 1 .. Len(wait_list'), NEW k \in 1 .. Len(wait_list'), j < k
       PROVE  BeforeNext(wait_list'[j], wait_list'[k])
  <2>1. CASE k < i
    <3>1. j \in 1 .. Len(wait_list) /\ k \in 1 .. Len(wait_list)
      BY <1>1, <1>11, <2>1
    <3> QED
      BY <1>3, <1>8, <1>11, <2>1, <3>1
  <2>2. CASE k = i
    <3>1. j \in 1 .. Len(wait_list)
      BY <1>1, <1>11, <2>2
    <3> QED
      BY <1>3, <1>9, <1>11, <2>2, <3>1
  <2>3. CASE k > i /\ j < i
    <3>1. j \in 1 .. Len(wait_list) /\ k - 1 \in 1 .. Len(wait_list) /\ j < k - 1
      BY <1>1, <1>3, <2>3
    <3>2. wait_list'[j] = wait_list[j] /\ wait_list'[k] = wait_list[k - 1]
      BY <1>3, <2>3
    <3> QED
      BY <1>8, <3>1, <3>2
  <2>4. CASE j = i
    <3>1. k - 1 \in 1 .. Len(wait_list) /\ k - 1 >= i
      BY <1>1, <1>3, <1>11, <2>4
    <3>2. wait_list'[j] = t /\ wait_list'[k] = wait_list[k - 1]
      BY <1>3, <1>11, <2>4
    <3> QED
      BY <1>10, <3>1, <3>2
  <2>5. CASE j > i
    <3>1. /\ j - 1 \in 1 .. Len(wait_list) /\ k - 1 \in 1 .. Len(wait_list)
          /\ j - 1 < k - 1
      BY <1>1, <1>3, <1>11, <2>5
    <3>2. wait_list'[j] = wait_list[j - 1] /\ wait_list'[k] = wait_list[k - 1]
      BY <1>3, <1>11, <2>5
    <3> QED
      BY <1>8, <3>1, <3>2
  <2> QED
    BY <1>3, <1>11, <2>1, <2>2, <2>3, <2>4, <2>5
<1> QED
  BY <1>11, OrderedNext

LEMMA OrderedStep ==
  ASSUME WaitInv, QueueOrdered, NEW t \in Thread, SemStep(t)
  PROVE  QueueOrdered'
<1>1. CASE Call(t) \/ Refuse(t) \/ Wake(t) \/ Expire(t) \/ Erase(t)
           \/ SignalPass(t) \/ SignalReturn(t)
  <2>1. UNCHANGED <<wait_list, priority, earlier>>
    BY <1>1 DEF Call, Refuse, Wake, Expire, Erase, SignalPass, SignalReturn,
       objectVars, waiterVars, historyVars
  <2> QED
    BY <2>1 DEF QueueOrdered, Before
<1>2. ASSUME NEW n, WaitTake(t, n) \/ SignalEnter(t, n)
      PROVE  QueueOrdered'
  <2>1. UNCHANGED <<wait_list, priority, earlier>>
    BY <1>2 DEF WaitTake, SignalEnter, waiterVars
  <2> QED
    BY <2>1 DEF QueueOrdered, Before
<1>3. CASE TakeResult(t)
  <2>1. priority' = priority
    BY <1>3 DEF TakeResult
  <2>2. CASE UNCHANGED <<wait_list, earlier>>
    BY <2>1, <2>2 DEF QueueOrdered, Before
  <2> QED
    BY <1>3, <2>1, <2>2, ResultRemoves, OrderAfterLeave
<1>4. ASSUME NEW w \in Thread, SignalServe(t, w)
      PROVE  QueueOrdered'
  <2>1. /\ it <= Len(wait_list) /\ w = wait_list[it] /\ priority' = priority
        /\ wait_list' = RemoveAt(wait_list, it) /\ Leave({w}) /\ pc[t] = "signal"
    BY <1>4 DEF SignalServe
  <2>2. it \in 1 .. Len(wait_list)
    BY <2>1 DEF WaitInv, TypeOK, SignalHolds
  <2> QED
    BY <2>1, <2>2, OrderAfterLeave
<1>5. ASSUME NEW s, Cancel(t, s) \/ Delete(t)
      PROVE  QueueOrdered'
  <2>1. wait_list' = <<>>
    BY <1>5 DEF Cancel, Delete, WakeEverybody
  <2> QED
    BY <2>1 DEF QueueOrdered
<1>6. ASSUME NEW n, NEW p \in IF IsFifo THEN {0} ELSE Priorities, NEW d,
             WaitEnqueue(t, n, p, d)
      PROVE  QueueOrdered'
  <2>1. p \in Nat
    BY OrbisSemAssumption
  <2> QED
    BY <1>6, <2>1, OrderAfterEnqueue
<1> QED
  BY <1>1, <1>2, <1>3, <1>4, <1>5, <1>6, EndOfWait
     DEF SemStep, Wait, Return, SignalVisit

(* The list Signal walks is sorted at all times: by priority and, among    *)
(* equals or in a FIFO semaphore, by who came first.                       *)
THEOREM ServedInOrder == Spec => []QueueOrdered
<1>1. Init => QueueOrdered
  BY DEF Init, QueueOrdered
<1>2. WaitInv /\ QueueOrdered /\ [Next]_vars => QueueOrdered'
  <2>1. UNCHANGED vars /\ QueueOrdered => QueueOrdered'
    BY DEF vars, objectVars, waiterVars, historyVars, QueueOrdered, Before
  <2> QED
    BY <2>1, OrderedStep DEF Next
<1> QED
  BY <1>1, <1>2, WaitInvHolds, PTL DEF Spec

-----------------------------------------------------------------------------
(* Sums over finite sets *)

(* g[s] is the sum over s, in whatever order its elements are taken.       *)
Additive(g, f, S) ==
  /\ g \in [SUBSET S -> Int] /\ g[{}] = 0
  /\ \A s \in SUBSET S : \A x \in s : g[s] = f[x] + g[s \ {x}]

(* Induction over the size of the subsets of a finite set.                 *)
LEMMA UpToSize ==
  ASSUME NEW S, IsFiniteSet(S), NEW P, {} \in P,
         \A s \in SUBSET S : s # {} /\ (\A x \in s : s \ {x} \in P) => s \in P
  PROVE  SUBSET S \subseteq P
<1> DEFINE Q == {n \in Nat : \A s \in SUBSET S : Cardinality(s) = n => s \in P}
<1>1. \A s \in SUBSET S : IsFiniteSet(s) /\ Cardinality(s) \in 0 .. Cardinality(S)
  BY FS_Subset, FS_CardinalityType
<1>2. 0 \in Q
  BY <1>1, FS_EmptySet
<1>3. ASSUME NEW n \in 1 .. Cardinality(S), n - 1 \in Q PROVE n \in Q
  <2>1. SUFFICES ASSUME NEW s \in SUBSET S, Cardinality(s) = n PROVE s \in P
    OBVIOUS
  <2>2. s # {}
    <3>1. Cardinality({}) = 0 /\ n # 0
      BY FS_EmptySet
    <3> QED
      BY <2>1, <3>1
  <2>3. ASSUME NEW x \in s PROVE s \ {x} \in P
    <3>1. Cardinality(s \ {x}) = n - 1
      BY <1>1, <2>1, FS_RemoveElement
    <3> QED
      BY <1>3, <3>1
  <2> QED
    BY <2>2, <2>3
<1>4. Cardinality(S) \in Nat
  BY FS_CardinalityType
<1> HIDE DEF Q
<1>5. 0 .. Cardinality(S) \subseteq Q
  BY <1>2, <1>3, <1>4, UpTo, Zenon
<1> QED
  BY <1>1, <1>5 DEF Q

(* There is such a g.                                                      *)
LEMMA AdditiveExists ==
  ASSUME NEW S, IsFiniteSet(S), NEW f, \A x \in S : f[x] \in Int
  PROVE  \E g : Additive(g, f, S)
<1> DEFINE P == {s \in SUBSET S : \E g : Additive(g, f, s)}
<1>1. {} \in P
  <2>1. Additive([s \in SUBSET {} |-> 0], f, {})
    BY DEF Additive
  <2> QED
    BY <2>1
<1>2. ASSUME NEW s \in SUBSET S, s # {}, \A x \in s : s \ {x} \in P
      PROVE  s \in P
  <2>0. PICK a \in s : TRUE
    BY <1>2
  <2>1. PICK g : Additive(g, f, s \ {a})
    BY <1>2, <2>0
  <2> DEFINE h == [r \in SUBSET s |-> IF a \in r THEN f[a] + g[r \ {a}] ELSE g[r]]
  <2>2. /\ \A r \in SUBSET s : r \ {a} \in SUBSET (s \ {a}) /\ g[r \ {a}] \in Int
        /\ \A r \in SUBSET s : a \notin r => r \in SUBSET (s \ {a}) /\ g[r] \in Int
        /\ f[a] \in Int
    <3>1. g \in [SUBSET (s \ {a}) -> Int]
      BY <2>1 DEF Additive
    <3>2. \A r \in SUBSET s : r \ {a} \in SUBSET (s \ {a}) /\ (a \notin r => r \in SUBSET (s \ {a}))
      OBVIOUS
    <3> QED
      BY <3>1, <3>2
  <2>3. h \in [SUBSET s -> Int] /\ h[{}] = 0
    BY <2>1, <2>2 DEF Additive
  <2>4. ASSUME NEW r \in SUBSET s, NEW x \in r PROVE h[r] = f[x] + h[r \ {x}]
    <3>0. r \ {x} \in SUBSET s
      OBVIOUS
    <3>1. CASE x = a
      <4>1. h[r] = f[a] + g[r \ {a}] /\ h[r \ {a}] = g[r \ {a}]
        BY <3>0, <3>1
      <4> QED
        BY <3>1, <4>1
    <3>2. CASE x # a /\ a \in r
      <4>1. h[r] = f[a] + g[r \ {a}] /\ h[r \ {x}] = f[a] + g[(r \ {x}) \ {a}]
        BY <3>0, <3>2
      <4>2. x \in r \ {a} /\ (r \ {x}) \ {a} = (r \ {a}) \ {x}
        BY <3>2
      <4>3. g[r \ {a}] = f[x] + g[(r \ {a}) \ {x}]
        BY <2>1, <2>2, <4>2 DEF Additive
      <4>4. f[a] \in Int /\ f[x] \in Int /\ g[(r \ {x}) \ {a}] \in Int
        BY <2>2, <3>0
      <4> DEFINE m == g[(r \ {x}) \ {a}]
                 y == f[a]
                 z == f[x]
      <4>5. h[r] = y + (z + m) /\ h[r \ {x}] = y + m
        BY <4>1, <4>2, <4>3
      <4>6. y \in Int /\ z \in Int /\ m \in Int
        BY <4>4
      <4> HIDE DEF h, m, y, z
      <4>7. h[r] = z + h[r \ {x}]
        BY <4>5, <4>6
      <4> QED
        BY <4>7 DEF z
    <3>3. CASE a \notin r
      <4>1. h[r] = g[r] /\ h[r \ {x}] = g[r \ {x}]
        BY <3>0, <3>3
      <4>2. g[r] = f[x] + g[r \ {x}]
        BY <2>1, <2>2, <3>3 DEF Additive
      <4> QED
        BY <4>1, <4>2
    <3> QED
      BY <3>1, <3>2, <3>3
  <2>5. Additive(h, f, s)
    <3> HIDE DEF h
    <3> QED
      BY <2>3, <2>4 DEF Additive
  <2> QED
    BY <2>5
<1> HIDE DEF P
<1>3. SUBSET S \subseteq P
  BY <1>1, <1>2, UpToSize, Zenon
<1> QED
  BY <1>3 DEF P

(* The recursive definition of the sum takes the elements in some order.   *)
LEMMA SumBy ==
  ASSUME NEW S, IsFiniteSet(S), NEW f, NEW g, Additive(g, f, S)
  PROVE  SumFunctionOnSet(f, S) = g[S]
<1> DEFINE c(s) == CHOOSE x \in s : TRUE
           Fcn(h) == h = [s \in SUBSET S |-> IF s = {} THEN 0 ELSE f[c(s)] + h[s \ {c(s)}]]
           F == CHOOSE h : Fcn(h)
<1>0. SumFunctionOnSet(f, S) = F[S]
  BY DEF SumFunctionOnSet, FoldFunctionOnSet, MapThenFoldSet
<1>1. \A s \in SUBSET S : s # {} => c(s) \in s
  OBVIOUS
<1>2. Fcn(g)
  <2> HIDE DEF c
  <2>1. g \in [SUBSET S -> Int] /\ g[{}] = 0
    BY DEF Additive
  <2>2. \A s \in SUBSET S : s # {} => g[s] = f[c(s)] + g[s \ {c(s)}]
    BY <1>1 DEF Additive
  <2> QED
    BY <2>1, <2>2
<1>3. Fcn(F)
  <2> HIDE DEF Fcn
  <2> QED
    BY <1>2
<1> HIDE DEF F, c
<1> DEFINE P == {s \in SUBSET S : F[s] = g[s]}
<1>4. {} \in P
  <2>1. F[{}] = 0
    BY <1>3
  <2> QED
    BY <2>1 DEF Additive
<1>5. ASSUME NEW s \in SUBSET S, s # {}, \A x \in s : s \ {x} \in P
      PROVE  s \in P
  <2>1. c(s) \in s
    BY <1>1, <1>5
  <2>2. F[s \ {c(s)}] = g[s \ {c(s)}]
    BY <1>5, <2>1
  <2>3. F[s] = f[c(s)] + F[s \ {c(s)}]
    BY <1>3, <1>5
  <2>4. g[s] = f[c(s)] + g[s \ {c(s)}]
    BY <2>1 DEF Additive
  <2> QED
    BY <2>2, <2>3, <2>4
<1> HIDE DEF P
<1>6. SUBSET S \subseteq P
  BY <1>4, <1>5, UpToSize, Zenon
<1> QED
  BY <1>0, <1>6 DEF P

(* The sum is an integer, over nothing it is 0, any element can be taken   *)
(* out of it, ...                                                          *)
LEMMA SumRemoves ==
  ASSUME NEW S, IsFiniteSet(S), NEW f, \A x \in S : f[x] \in Int
  PROVE  /\ SumFunctionOnSet(f, S) \in Int
         /\ S = {} => SumFunctionOnSet(f, S) = 0
         /\ \A x \in S :
              SumFunctionOnSet(f, S) = f[x] + SumFunctionOnSet(f, S \ {x})
<1>1. PICK g : Additive(g, f, S)
  BY AdditiveExists, Zenon
<1>2. SumFunctionOnSet(f, S) = g[S]
  BY <1>1, SumBy, Zenon
<1>3. ASSUME NEW x \in S
      PROVE  SumFunctionOnSet(f, S) = f[x] + SumFunctionOnSet(f, S \ {x})
  <2> DEFINE h == [s \in SUBSET (S \ {x}) |-> g[s]]
  <2>1. Additive(h, f, S \ {x})
    BY <1>1 DEF Additive
  <2>2. IsFiniteSet(S \ {x})
    BY FS_RemoveElement
  <2>3. SumFunctionOnSet(f, S \ {x}) = h[S \ {x}]
    <3> HIDE DEF h
    <3> QED
      BY <2>1, <2>2, SumBy, Zenon
  <2>4. h[S \ {x}] = g[S \ {x}] /\ g[S] = f[x] + g[S \ {x}]
    BY <1>1 DEF Additive
  <2> HIDE DEF h
  <2> QED
    BY <1>2, <2>3, <2>4
<1>4. g[S] \in Int /\ (S = {} => g[S] = 0)
  BY <1>1 DEF Additive
<1> QED
  BY <1>2, <1>3, <1>4

(* ... and two functions with the same values have the same sum.           *)
LEMMA SumSame ==
  ASSUME NEW S, IsFiniteSet(S), NEW f, NEW e, \A x \in S : f[x] \in Int /\ e[x] = f[x]
  PROVE  SumFunctionOnSet(e, S) = SumFunctionOnSet(f, S)
<1>1. PICK g : Additive(g, f, S)
  BY AdditiveExists, Zenon
<1>2. Additive(g, e, S)
  BY <1>1 DEF Additive
<1> QED
  BY <1>1, <1>2, SumBy

-----------------------------------------------------------------------------
(* The tokens *)

(* Whoever was told why it woke is still in its wait.                      *)
FlagsInWait == \A t \in Thread : flags[t] # {} => pc[t] \in {"wait", "relock"}

TokenInv == TokensConserved /\ IsFiniteSet(Granted) /\ FlagsInWait

LEMMA Needs ==
  ASSUME WaitInv, NEW G \in SUBSET Thread
  PROVE  \A t \in G : need_count[t] \in Int
BY OrbisSemAssumption DEF WaitInv, TypeOK

(* Signal serves a waiter of the list.                                     *)
LEMMA ServesQueued ==
  ASSUME WaitInv, NEW t \in Thread, NEW w \in Thread, SignalServe(t, w)
  PROVE  w \in Queued
<1>1. pc[t] = "signal" /\ it <= Len(wait_list) /\ w = wait_list[it]
  BY DEF SignalServe
<1>2. it \in Nat /\ it >= 1
  BY <1>1 DEF WaitInv, SignalHolds, TypeOK
<1>3. it \in 1 .. Len(wait_list)
  BY <1>1, <1>2 DEF WaitInv, TypeOK
<1> QED
  BY <1>1, <1>3, QueuedIsThread

(* A step that grants nothing and ends no grant.                           *)
LEMMA TokensStay ==
  ASSUME WaitInv, TokenInv, Granted' = Granted,
         \A t \in Granted : need_count'[t] = need_count[t],
         NEW n \in Int, token_count' + taken' = token_count + taken + n,
         supplied' = supplied + n
  PROVE  TokensConserved' /\ IsFiniteSet(Granted')
<1>1. IsFiniteSet(Granted) /\ Granted \subseteq Thread
  BY DEF TokenInv, Granted
<1>2. \A t \in Granted : need_count[t] \in Int
  BY <1>1, Needs
<1>3. SumFunctionOnSet(need_count', Granted) = SumFunctionOnSet(need_count, Granted)
  BY <1>1, <1>2, SumSame
<1>4. SumFunctionOnSet(need_count, Granted) \in Int
  BY <1>1, <1>2, SumRemoves
<1>5. /\ token_count \in Int /\ taken \in Int
      /\ token_count + taken + SumFunctionOnSet(need_count, Granted) = supplied
  BY OrbisSemAssumption DEF WaitInv, TypeOK, TokenInv, TokensConserved
<1>6. token_count' + taken' + SumFunctionOnSet(need_count', Granted') = supplied'
  <2> DEFINE s == SumFunctionOnSet(need_count, Granted)
  <2>1. s \in Int /\ token_count + taken + s = supplied
    BY <1>4, <1>5
  <2>2. SumFunctionOnSet(need_count', Granted') = s
    BY <1>3
  <2> HIDE DEF s
  <2> QED
    BY <1>5, <2>1, <2>2
<1> QED
  BY <1>1, <1>6 DEF TokensConserved

(* Only Signal and Cancel put tokens in; what moves keeps the sum.         *)
LEMMA TokensStep ==
  ASSUME WaitInv, TokenInv, NEW t \in Thread, SemStep(t)
  PROVE  TokensConserved' /\ IsFiniteSet(Granted')
<1>0. /\ token_count \in Int /\ taken \in Int /\ supplied \in Int
      /\ need_count \in [Thread -> 0 .. MaxCount]
      /\ flags \in [Thread -> SUBSET Reasons]
      /\ IsFiniteSet(Granted) /\ Granted \subseteq Thread
      /\ token_count + taken + SumFunctionOnSet(need_count, Granted) = supplied
  BY OrbisSemAssumption
     DEF WaitInv, TypeOK, TokenInv, TokensConserved, Granted, Reasons
<1>1. CASE \/ Call(t) \/ Refuse(t) \/ Wake(t) \/ Expire(t) \/ SignalPass(t)
           \/ SignalReturn(t) \/ Erase(t)
  <2>1. UNCHANGED <<token_count, taken, supplied, flags, need_count>>
    BY <1>1 DEF Call, Refuse, Wake, Expire, SignalPass, SignalReturn, Erase,
       objectVars, waiterVars, historyVars
  <2>2. Granted' = Granted
    BY <2>1 DEF Granted
  <2> QED
    BY <1>0, <2>1, <2>2, TokensStay
<1>2. ASSUME NEW n \in 1 .. MaxCount, WaitTake(t, n)
      PROVE  TokensConserved' /\ IsFiniteSet(Granted')
  <2>1. /\ UNCHANGED <<supplied, flags, need_count>>
        /\ token_count' = token_count - n /\ taken' = taken + n
    BY <1>2 DEF WaitTake, waiterVars
  <2>2. Granted' = Granted
    BY <2>1 DEF Granted
  <2>3. token_count' + taken' = token_count + taken + 0 /\ supplied' = supplied + 0
    BY <1>0, <2>1, OrbisSemAssumption
  <2> QED
    BY <2>1, <2>2, <2>3, TokensStay
<1>3. ASSUME NEW n, NEW p, NEW d, WaitEnqueue(t, n, p, d)
      PROVE  TokensConserved' /\ IsFiniteSet(Granted')
  <2>1. /\ UNCHANGED <<token_count, taken, supplied>>
        /\ flags' = [flags EXCEPT ![t] = {}]
        /\ need_count' = [need_count EXCEPT ![t] = n]
        /\ pc[t] = "enter"
    BY <1>3 DEF WaitEnqueue, Locked
  <2>2. flags[t] = {}
    BY <2>1 DEF TokenInv, FlagsInWait
  <2>3. t \notin Granted /\ Granted' = Granted
    BY <1>0, <2>1, <2>2 DEF Granted
  <2>4. \A u \in Granted : need_count'[u] = need_count[u]
    BY <1>0, <2>1, <2>3
  <2> QED
    BY <1>0, <2>1, <2>3, <2>4, TokensStay
<1>4. CASE TakeResult(t)
  <2> DEFINE sum == SumFunctionOnSet(need_count, Granted)
             rest == SumFunctionOnSet(need_count, Granted \ {t})
  <2>1. /\ UNCHANGED <<token_count, supplied, need_count>>
        /\ flags' = [flags EXCEPT ![t] = {}]
        /\ taken' = taken + (IF "signaled" \in flags[t] THEN need_count[t] ELSE 0)
    BY <1>4 DEF TakeResult
  <2>2. Granted' = Granted \ {t}
    BY <1>0, <2>1 DEF Granted
  <2>3. CASE "signaled" \notin flags[t]
    <3>1. Granted' = Granted /\ taken' = taken + 0
      BY <2>1, <2>2, <2>3 DEF Granted
    <3> QED
      BY <1>0, <2>1, <3>1, TokensStay
  <2>4. CASE "signaled" \in flags[t]
    <3>1. t \in Granted
      BY <2>4 DEF Granted
    <3>2. sum = need_count[t] + rest /\ sum \in Int
      BY <1>0, <3>1, Needs, SumRemoves
    <3>3. IsFiniteSet(Granted \ {t}) /\ \A u \in Granted \ {t} : need_count[u] \in Int
      BY <1>0, Needs, FS_Subset
    <3>4. rest \in Int
      BY <3>3, SumRemoves
    <3>5. token_count + taken + sum = supplied /\ need_count[t] \in Int
      BY <1>0, OrbisSemAssumption
    <3>6. taken' = taken + need_count[t]
      BY <2>1, <2>4
    <3>7. SumFunctionOnSet(need_count', Granted') = rest
      BY <2>1, <2>2
    <3> HIDE DEF sum, rest
    <3>8. token_count' + taken' + rest = supplied'
      BY <1>0, <2>1, <3>2, <3>4, <3>5, <3>6
    <3> QED
      BY <2>2, <3>3, <3>7, <3>8 DEF TokensConserved
  <2> QED
    BY <2>3, <2>4
<1>5. ASSUME NEW n \in 1 .. MaxCount, SignalEnter(t, n)
      PROVE  TokensConserved' /\ IsFiniteSet(Granted')
  <2>1. /\ UNCHANGED <<taken, flags, need_count>>
        /\ token_count' = token_count + n /\ supplied' = supplied + n
    BY <1>5 DEF SignalEnter, waiterVars
  <2>2. Granted' = Granted
    BY <2>1 DEF Granted
  <2>3. token_count' + taken' = token_count + taken + n /\ n \in Int
    BY <1>0, <2>1, OrbisSemAssumption
  <2> QED
    BY <2>1, <2>2, <2>3, TokensStay
<1>6. ASSUME NEW w \in Thread, SignalServe(t, w)
      PROVE  TokensConserved' /\ IsFiniteSet(Granted')
  <2> DEFINE sum == SumFunctionOnSet(need_count, Granted)
             more == SumFunctionOnSet(need_count, Granted \cup {w})
  <2>1. /\ UNCHANGED <<taken, supplied, need_count>>
        /\ token_count' = token_count - need_count[w]
        /\ flags' = [flags EXCEPT ![w] = @ \cup {"signaled"}]
    BY <1>6 DEF SignalServe
  <2>2. w \in Queued
    BY <1>6, ServesQueued
  <2>3. w \notin Granted
    BY <2>2, WaitInvPlaced DEF WaitInv, WaiterAccounted, Granted
  <2>4. Granted' = Granted \cup {w}
    BY <1>0, <2>1 DEF Granted
  <2>5. IsFiniteSet(Granted \cup {w}) /\ \A u \in Granted \cup {w} : need_count[u] \in Int
    BY <1>0, Needs, FS_AddElement
  <2>6. more = need_count[w] + sum /\ more \in Int
    <3>1. (Granted \cup {w}) \ {w} = Granted
      BY <2>3
    <3> QED
      BY <2>5, <3>1, SumRemoves
  <2>7. sum \in Int
    BY <1>0, Needs, SumRemoves
  <2>8. token_count + taken + sum = supplied /\ need_count[w] \in Int
    BY <1>0, <2>5
  <2>9. SumFunctionOnSet(need_count', Granted') = more
    BY <2>1, <2>4
  <2>10. token_count' + taken' + more = supplied'
    <3> DEFINE n == need_count[w]
    <3>1. token_count' = token_count - n /\ taken' = taken /\ supplied' = supplied
      BY <2>1
    <3>2. more = n + sum /\ sum \in Int /\ n \in Int /\ token_count + taken + sum = supplied
      BY <2>6, <2>7, <2>8
    <3> HIDE DEF sum, more, n
    <3> QED
      BY <1>0, <3>1, <3>2
  <2> QED
    BY <2>4, <2>5, <2>9, <2>10 DEF TokensConserved
<1>7. ASSUME NEW s \in SetCounts, Cancel(t, s)
      PROVE  TokensConserved' /\ IsFiniteSet(Granted')
  <2>1. /\ UNCHANGED <<taken, need_count>> /\ WakeEverybody("canceled")
        /\ supplied' = supplied + (token_count' - token_count)
        /\ token_count' = IF s < 0 THEN InitCount ELSE s
    BY <1>7 DEF Cancel
  <2>2. Granted' = Granted
    BY <1>0, <2>1 DEF Granted, WakeEverybody
  <2>3. token_count' \in Int
    BY <2>1, OrbisSemAssumption
  <2> DEFINE n == token_count' - token_count
  <2>4. n \in Int /\ token_count' + taken' = token_count + taken + n /\ supplied' = supplied + n
    BY <1>0, <2>1, <2>3
  <2> HIDE DEF n
  <2> QED
    BY <2>1, <2>2, <2>4, TokensStay
<1>8. CASE Delete(t)
  <2>1. UNCHANGED <<token_count, taken, supplied, need_count>> /\ WakeEverybody("deleted")
    BY <1>8 DEF Delete
  <2>2. Granted' = Granted
    BY <1>0, <2>1 DEF Granted, WakeEverybody
  <2> QED
    BY <1>0, <2>1, <2>2, TokensStay
<1> QED
  BY <1>1, <1>2, <1>3, <1>4, <1>5, <1>6, <1>7, <1>8, EndOfWait
     DEF SemStep, Wait, Return, SignalVisit

(* A flag is set for a listed waiter, and cleared when it returns.         *)
LEMMA FlagsStep ==
  ASSUME WaitInv, TokenInv, NEW t \in Thread, SemStep(t)
  PROVE  FlagsInWait'
<1>0. /\ pc \in [Thread -> {"idle", "enter", "wait", "relock", "signal", "erase"}]
      /\ flags \in [Thread -> SUBSET Reasons]
  BY DEF WaitInv, TypeOK, Reasons
<1>1. \A u \in Thread : flags[u] # {} => pc[u] \in {"wait", "relock"}
  BY DEF TokenInv, FlagsInWait
<1>2. \A u \in Queued : pc[u] \in {"wait", "relock"}
  BY QueuedIsThread DEF WaitInv, WaiterAccounted
<1>3. CASE \/ Call(t) \/ Refuse(t) \/ Erase(t) \/ SignalReturn(t) \/ Wake(t)
           \/ Expire(t) \/ SignalPass(t)
           \/ \E n \in 1 .. MaxCount : WaitTake(t, n) \/ SignalEnter(t, n)
  <2>1. /\ UNCHANGED flags
        /\ \/ pc' = pc
           \/ \E l : pc' = [pc EXCEPT ![t] = l] /\ pc[t] \notin {"wait", "relock"}
           \/ pc' = [pc EXCEPT ![t] = "relock"]
    BY <1>3 DEF Call, Refuse, Erase, SignalReturn, Wake, Expire, SignalPass, WaitTake,
       SignalEnter, Locked, Goto, waiterVars
  <2> QED
    BY <1>0, <1>1, <2>1 DEF FlagsInWait
<1>4. ASSUME NEW n, NEW p, NEW d, WaitEnqueue(t, n, p, d)
      PROVE  FlagsInWait'
  BY <1>0, <1>1, <1>4 DEF WaitEnqueue, Goto, FlagsInWait
<1>5. CASE TakeResult(t)
  BY <1>0, <1>1, <1>5 DEF TakeResult, Goto, FlagsInWait
<1>6. ASSUME NEW w \in Thread, SignalServe(t, w)
      PROVE  FlagsInWait'
  <2>1. flags' = [flags EXCEPT ![w] = @ \cup {"signaled"}] /\ pc' = pc
    BY <1>6 DEF SignalServe
  <2>2. w \in Queued
    BY <1>6, ServesQueued
  <2> QED
    BY <1>0, <1>1, <1>2, <2>1, <2>2 DEF FlagsInWait
<1>7. ASSUME NEW why, WakeEverybody(why), pc[t] = "enter", NEW l, Goto(t, l)
      PROVE  FlagsInWait'
  BY <1>0, <1>1, <1>2, <1>7 DEF WakeEverybody, Goto, FlagsInWait
<1>8. ASSUME NEW s, Cancel(t, s) \/ Delete(t)
      PROVE  FlagsInWait'
  BY <1>7, <1>8 DEF Cancel, Delete, Locked
<1> QED
  BY <1>3, <1>4, <1>5, <1>6, <1>8, EndOfWait DEF SemStep, Wait, Return, SignalVisit

(* No token is made or lost: what Signal and Cancel put in is in the       *)
(* count, with clients, or with waiters that Signal has served and that    *)
(* have not returned yet, even when their deadline passed meanwhile.       *)
THEOREM NoTokenLost == Spec => []TokensConserved
<1>1. Init => TokenInv
  <2>1. SUFFICES ASSUME Init PROVE TokenInv
    OBVIOUS
  <2>2. Granted = {} /\ FlagsInWait
    BY <2>1 DEF Init, Granted, FlagsInWait
  <2>3. IsFiniteSet({}) /\ SumFunctionOnSet(need_count, {}) = 0
    BY FS_EmptySet, SumRemoves
  <2>4. token_count = InitCount /\ taken = 0 /\ supplied = InitCount
    BY <2>1 DEF Init
  <2>5. TokensConserved
    BY <2>2, <2>3, <2>4, OrbisSemAssumption DEF TokensConserved
  <2> QED
    BY <2>2, <2>3, <2>5 DEF TokenInv
<1>2. WaitInv /\ TokenInv /\ [Next]_vars => TokenInv'
  <2>1. UNCHANGED vars /\ TokenInv => TokenInv'
    BY DEF vars, objectVars, waiterVars, historyVars, TokenInv, TokensConserved, Granted,
       FlagsInWait
  <2>2. ASSUME WaitInv, TokenInv, NEW t \in Thread, SemStep(t)
        PROVE  TokenInv'
    BY <2>2, TokensStep, FlagsStep DEF TokenInv
  <2> QED
    BY <2>1, <2>2 DEF Next
<1>3. TokenInv => TokensConserved
  BY DEF TokenInv
<1> QED
  BY <1>1, <1>2, <1>3, WaitInvHolds, PTL DEF Spec
=============================================================================
