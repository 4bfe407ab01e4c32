------------------------------ MODULE OrbisSem ------------------------------
(***************************************************************************)
(* The kernel semaphore of threads/semaphore.cpp: a token count and a list *)
(* of waiters under a host mutex.  Every waiter sleeps on a semaphore of   *)
(* its own, outside the mutex, and finds out why it woke when it has       *)
(* locked the mutex again; in between its deadline may have passed and     *)
(* somebody may have signalled, cancelled or deleted the semaphore.        *)
(***************************************************************************)
EXTENDS Integers, Sequences, SequencesExt

CONSTANTS Thread, NoThread,
          InitCount, MaxCount,   \* init_count and max_count of the constructor
          IsFifo,                \* is_fifo; otherwise waiters sort by priority
          Priorities,            \* the values of attr.prio, 0 the first served
          SetCounts,             \* the counts that clients hand to Cancel
          Timeouts,              \* the timeouts in use, in microseconds
          MaxLate,               \* how late a timed wait may measure its end
          U32                    \* the width of *timeout, 2^32

ASSUME OrbisSemAssumption ==
  /\ NoThread \notin Thread
  /\ MaxCount \in Nat \ {0} /\ InitCount \in 0 .. MaxCount
  /\ IsFifo \in BOOLEAN
  /\ Priorities \subseteq Nat
  /\ SetCounts \subseteq -1 .. MaxCount
  /\ U32 \in Nat \ {0} /\ MaxLate \in Nat
  /\ Timeouts \subseteq 1 .. U32 - 1

VARIABLES
  allocated,                          \* the slot's bit in orbis_sems
  mutex, token_count, wait_list,      \* OrbisSem; mutex: its holder
  it,                                 \* Signal's iterator, a position
  need_count, priority, flags, sem,   \* WaitingThread; flags: its was_... that
                                      \* are true
  timed, timeout, elapsed,            \* the wait's timeout pointer and clock
  pc,
  supplied, taken, earlier            \* history: tokens ever put in, tokens
                                      \* clients got, who was queued before whom

objectVars  == <<allocated, mutex, token_count, wait_list, it>>
waiterVars  == <<need_count, priority, flags, sem>>
timeVars    == <<timed, timeout, elapsed>>
historyVars == <<supplied, taken, earlier>>
vars        == <<objectVars, waiterVars, timeVars, pc, historyVars>>

Goto(t, label) == pc' = [pc EXCEPT ![t] = label]

Queued == Range(wait_list)

Init ==
  /\ allocated = TRUE
  /\ mutex = NoThread
  /\ token_count = InitCount
  /\ wait_list = <<>>
  /\ it = 0
  /\ need_count = [t \in Thread |-> 0]
  /\ priority = [t \in Thread |-> 0]
  /\ flags = [t \in Thread |-> {}]
  /\ sem = [t \in Thread |-> 0]
  /\ timed = [t \in Thread |-> FALSE]
  /\ timeout = [t \in Thread |-> 0]
  /\ elapsed = [t \in Thread |-> 0]
  /\ pc = [t \in Thread |-> "idle"]
  /\ supplied = InitCount
  /\ taken = 0
  /\ earlier = [t \in Thread |-> {}]

-----------------------------------------------------------------------------
(* Entry: the sceKernel functions test the slot first.  The clients of the *)
(* model enter no call while one of them deletes the semaphore: only those *)
(* who already wait meet the deletion.                                     *)
Call(t) ==
  /\ pc[t] = "idle"
  /\ allocated
  /\ \A u \in Thread : pc[u] # "erase"
  /\ Goto(t, "enter")
  /\ UNCHANGED <<objectVars, waiterVars, timeVars, historyVars>>

(* The body of the call, under the mutex.                                  *)
Locked(t) == pc[t] = "enter" /\ mutex = NoThread /\ allocated

(* EBUSY, ETIMEDOUT of a zero timeout, or EINVAL of a Signal that would    *)
(* pass max_count.                                                         *)
Refuse(t) ==
  /\ Locked(t)
  /\ Goto(t, "idle")
  /\ UNCHANGED <<objectVars, waiterVars, timeVars, historyVars>>

-----------------------------------------------------------------------------
(* Wait *)

WaitTake(t, n) ==
  /\ Locked(t)
  /\ token_count >= n
  /\ token_count' = token_count - n
  /\ taken' = taken + n
  /\ Goto(t, "idle")
  /\ UNCHANGED <<allocated, mutex, wait_list, it, waiterVars, timeVars, supplied,
                 earlier>>

(* Slip: a waiter goes before those of its own priority.                   *)
Place_BeforeEquals(i, p) ==
  IF IsFifo THEN i = Len(wait_list) + 1
  ELSE /\ i <= Len(wait_list) => priority[wait_list[i]] >= p
       /\ \A j \in 1 .. i - 1 : priority[wait_list[j]] < p

(* Where AddWaiter inserts: at the end, or right before the first waiter   *)
(* with a greater priority number.                                         *)
Place(i, p) ==
  IF IsFifo THEN i = Len(wait_list) + 1
  ELSE /\ i <= Len(wait_list) => priority[wait_list[i]] > p
       /\ \A j \in 1 .. i - 1 : priority[wait_list[j]] <= p

(* The waiter joins the list and the mutex is unlocked; d is its timeout,  *)
(* zero when the caller gave no pointer.                                   *)
WaitEnqueue(t, n, p, d) ==
  /\ Locked(t)
  /\ token_count < n
  /\ need_count' = [need_count EXCEPT ![t] = n]
  /\ priority' = [priority EXCEPT ![t] = p]
  /\ flags' = [flags EXCEPT ![t] = {}]
  /\ sem' = [sem EXCEPT ![t] = 0]
  /\ timed' = [timed EXCEPT ![t] = d > 0]
  /\ timeout' = [timeout EXCEPT ![t] = d]
  /\ \E i \in 1 .. Len(wait_list) + 1 :
       Place(i, p) /\ wait_list' = InsertAt(wait_list, i, t)
  /\ earlier' = [earlier EXCEPT ![t] = Queued]
  /\ Goto(t, "wait")
  /\ UNCHANGED <<allocated, mutex, token_count, it, elapsed, supplied, taken>>

Wait(t) ==
  \/ Refuse(t)
  \/ \E n \in 1 .. MaxCount :
       \/ WaitTake(t, n)
       \/ \E p \in (IF IsFifo THEN {0} ELSE Priorities), d \in {0} \cup Timeouts :
            WaitEnqueue(t, n, p, d)

(* The waiter's semaphore was released.  The thread may be delayed before  *)
(* it looks at the clock again.                                            *)
Wake(t) ==
  /\ pc[t] = "wait"
  /\ sem[t] > 0
  /\ sem' = [sem EXCEPT ![t] = @ - 1]
  /\ \E e \in (IF timed[t] THEN 0 .. timeout[t] + MaxLate ELSE {0}) :
       elapsed' = [elapsed EXCEPT ![t] = e]
  /\ Goto(t, "relock")
  /\ UNCHANGED <<objectVars, need_count, priority, flags, timed, timeout, historyVars>>

(* try_acquire_for gave up; a release may still come.                      *)
Expire(t) ==
  /\ pc[t] = "wait"
  /\ timed[t]
  /\ \E e \in timeout[t] .. timeout[t] + MaxLate :
       elapsed' = [elapsed EXCEPT ![t] = e]
  /\ Goto(t, "relock")
  /\ UNCHANGED <<objectVars, waiterVars, timed, timeout, historyVars>>

(* Who has left the list is before nobody.                                 *)
Leave(gone) ==
  earlier' = [u \in Thread |-> IF u \in gone THEN {} ELSE earlier[u] \ gone]

(* What the wait leaves in *timeout: an unsigned subtraction.              *)
Remaining(t) ==
  IF "signaled" \in flags[t] THEN (timeout[t] - elapsed[t]) % U32 ELSE 0

(* Slip: the result is ETIMEDOUT because the deadline passed.              *)
Relock_ByClock(t) ==
  LET expired == timed[t] /\ elapsed[t] >= timeout[t] IN
  /\ pc[t] = "relock"
  /\ mutex = NoThread /\ allocated
  /\ timeout' = [timeout EXCEPT ![t] = IF timed[t] THEN Remaining(t) ELSE 0]
  /\ IF flags[t] = {}
     THEN wait_list' = RemoveFirst(wait_list, t) /\ Leave({t})
     ELSE UNCHANGED <<wait_list, earlier>>
  /\ taken' = taken + (IF "signaled" \in flags[t] /\ ~expired THEN need_count[t] ELSE 0)
  /\ flags' = [flags EXCEPT ![t] = {}]
  /\ Goto(t, "idle")
  /\ UNCHANGED <<allocated, mutex, token_count, it, need_count, priority, sem, timed,
                 elapsed, supplied>>

(* Slip: a waiter that timed out stays in the list.                        *)
Relock_StaysListed(t) ==
  /\ pc[t] = "relock"
  /\ mutex = NoThread /\ allocated
  /\ timeout' = [timeout EXCEPT ![t] = IF timed[t] THEN Remaining(t) ELSE 0]
  /\ taken' = taken + (IF "signaled" \in flags[t] THEN need_count[t] ELSE 0)
  /\ flags' = [flags EXCEPT ![t] = {}]
  /\ Goto(t, "idle")
  /\ UNCHANGED <<allocated, mutex, token_count, wait_list, it, need_count, priority,
                 sem, timed, elapsed, supplied, earlier>>

(* The thread looks for its result: one of the flags, or else ETIMEDOUT,   *)
(* and then it takes itself off the list.                                  *)
TakeResult(t) ==
  /\ pc[t] = "relock"
  /\ timeout' = [timeout EXCEPT ![t] = IF timed[t] THEN Remaining(t) ELSE 0]
  /\ IF flags[t] = {}
     THEN wait_list' = RemoveFirst(wait_list, t) /\ Leave({t})
     ELSE UNCHANGED <<wait_list, earlier>>
  /\ taken' = taken + (IF "signaled" \in flags[t] THEN need_count[t] ELSE 0)
  /\ flags' = [flags EXCEPT ![t] = {}]
  /\ Goto(t, "idle")
  /\ UNCHANGED <<allocated, mutex, token_count, it, need_count, priority, sem, timed,
                 elapsed, supplied>>

(* The thread locks the mutex again first.                                 *)
Relock(t) ==
  /\ mutex = NoThread /\ allocated
  /\ TakeResult(t)

(* The mutex it locks was destroyed with the semaphore, which is undefined *)
(* behaviour: the lock may succeed in the freed memory, whatever that says *)
(* of a holder, or the thread never gets out of it and takes no step at    *)
(* all.  Its result comes from its own WaitingThread either way.           *)
RelockDestroyed(t) == ~allocated /\ TakeResult(t)

-----------------------------------------------------------------------------
(* Signal, Cancel, Delete *)

(* Slip: max_count is not looked at.                                       *)
SignalEnter_NoMax(t, n) ==
  /\ Locked(t)
  /\ token_count' = token_count + n
  /\ supplied' = supplied + n
  /\ mutex' = t
  /\ it' = 1
  /\ Goto(t, "signal")
  /\ UNCHANGED <<allocated, wait_list, waiterVars, timeVars, taken, earlier>>

SignalEnter(t, n) ==
  /\ Locked(t)
  /\ token_count + n <= MaxCount
  /\ token_count' = token_count + n
  /\ supplied' = supplied + n
  /\ mutex' = t
  /\ it' = 1
  /\ Goto(t, "signal")
  /\ UNCHANGED <<allocated, wait_list, waiterVars, timeVars, taken, earlier>>

(* Slip: the first waiter that needs too much ends the loop.               *)
SignalPass_StopsShort(t) ==
  /\ pc[t] = "signal"
  /\ it <= Len(wait_list)
  /\ need_count[wait_list[it]] > token_count
  /\ it' = Len(wait_list) + 1
  /\ UNCHANGED <<allocated, mutex, token_count, wait_list, waiterVars, timeVars, pc,
                 historyVars>>

(* The loop of Signal over the waiters, one at a time, under the mutex: a  *)
(* waiter that needs more than there is is passed over, ...                *)
SignalPass(t) ==
  /\ pc[t] = "signal"
  /\ it <= Len(wait_list)
  /\ need_count[wait_list[it]] > token_count
  /\ it' = it + 1
  /\ UNCHANGED <<allocated, mutex, token_count, wait_list, waiterVars, timeVars, pc,
                 historyVars>>

(* Slip: the waiter's semaphore is not released.                           *)
SignalServe_NoRelease(t, w) ==
  /\ pc[t] = "signal"
  /\ it <= Len(wait_list) /\ w = wait_list[it]
  /\ need_count[w] <= token_count
  /\ wait_list' = RemoveAt(wait_list, it)
  /\ token_count' = token_count - need_count[w]
  /\ flags' = [flags EXCEPT ![w] = @ \cup {"signaled"}]
  /\ Leave({w})
  /\ UNCHANGED <<allocated, mutex, it, need_count, priority, sem, timeVars, pc,
                 supplied, taken>>

(* ... any other one leaves the list with its tokens and is woken.         *)
SignalServe(t, w) ==
  /\ pc[t] = "signal"
  /\ it <= Len(wait_list) /\ w = wait_list[it]
  /\ need_count[w] <= token_count
  /\ wait_list' = RemoveAt(wait_list, it)
  /\ token_count' = token_count - need_count[w]
  /\ flags' = [flags EXCEPT ![w] = @ \cup {"signaled"}]
  /\ sem' = [sem EXCEPT ![w] = @ + 1]
  /\ Leave({w})
  /\ UNCHANGED <<allocated, mutex, it, need_count, priority, timeVars, pc, supplied,
                 taken>>

SignalVisit(t) == SignalPass(t) \/ \E w \in Thread : SignalServe(t, w)

SignalReturn(t) ==
  /\ pc[t] = "signal"
  /\ it > Len(wait_list)
  /\ mutex' = NoThread
  /\ it' = 0
  /\ Goto(t, "idle")
  /\ UNCHANGED <<allocated, token_count, wait_list, waiterVars, timeVars, historyVars>>

(* Everybody in the list is told why and woken, and the list is cleared.   *)
WakeEverybody(why) ==
  /\ flags' = [u \in Thread |-> IF u \in Queued THEN flags[u] \cup {why} ELSE flags[u]]
  /\ sem' = [u \in Thread |-> IF u \in Queued THEN sem[u] + 1 ELSE sem[u]]
  /\ wait_list' = <<>>
  /\ Leave(Queued)

Cancel(t, s) ==
  /\ Locked(t)
  /\ WakeEverybody("canceled")
  /\ token_count' = IF s < 0 THEN InitCount ELSE s
  /\ supplied' = supplied + (token_count' - token_count)
  /\ Goto(t, "idle")
  /\ UNCHANGED <<allocated, mutex, it, need_count, priority, timeVars, taken>>

Delete(t) ==
  /\ Locked(t)
  /\ \A u \in Thread \ {t} : pc[u] \notin {"enter", "erase"}
  /\ WakeEverybody("deleted")
  /\ Goto(t, "erase")
  /\ UNCHANGED <<allocated, mutex, token_count, it, need_count, priority, timeVars,
                 supplied, taken>>

(* orbis_sems.erase, after Delete has let go of the mutex, destroys the    *)
(* semaphore with its mutex and frees the slot, whoever is still on the    *)
(* way to that mutex: nothing waits for those whom Delete has woken.       *)
Erase(t) ==
  /\ pc[t] = "erase"
  /\ allocated' = FALSE
  /\ Goto(t, "idle")
  /\ UNCHANGED <<mutex, token_count, wait_list, it, waiterVars, timeVars, historyVars>>

-----------------------------------------------------------------------------
Return(t) == Wake(t) \/ Relock(t) \/ SignalVisit(t) \/ SignalReturn(t) \/ Erase(t)

SemStep(t) ==
  \/ Call(t)
  \/ Wait(t)
  \/ \E n \in 1 .. MaxCount : SignalEnter(t, n)
  \/ \E s \in SetCounts : Cancel(t, s)
  \/ Delete(t)
  \/ Expire(t)
  \/ RelockDestroyed(t)
  \/ Return(t)

Next == \E t \in Thread : SemStep(t)

Spec == Init /\ [][Next]_vars

(* A thread inside a call is scheduled, and gets the mutex in the end when *)
(* it is free again and again.  Nothing is promised of a destroyed mutex.  *)
FairSpec == Spec /\ \A t \in Thread : SF_vars(Return(t))

-----------------------------------------------------------------------------
(* Every variable keeps its type; the count stays within what the          *)
(* semaphore was created for, and a waiter's semaphore is binary.          *)
TypeOK ==
  /\ allocated \in BOOLEAN
  /\ mutex \in Thread \cup {NoThread}
  /\ token_count \in 0 .. MaxCount
  /\ wait_list \in Seq(Thread)
  /\ it \in Nat
  /\ need_count \in [Thread -> 0 .. MaxCount]
  /\ priority \in [Thread -> Nat]
  /\ flags \in [Thread -> SUBSET {"signaled", "canceled", "deleted"}]
  /\ sem \in [Thread -> 0 .. 1]
  /\ timed \in [Thread -> BOOLEAN]
  /\ timeout \in [Thread -> 0 .. U32 - 1]
  /\ elapsed \in [Thread -> Nat]
  /\ pc \in [Thread -> {"idle", "enter", "wait", "relock", "signal", "erase"}]
  /\ supplied \in Int /\ taken \in Nat
  /\ earlier \in [Thread -> SUBSET Thread]

(* A waiting thread is in the list, once, until exactly one of Signal,     *)
(* Cancel and Delete has taken it off and released its semaphore once: the *)
(* iterator that Wait erases after a timeout is still good, and whoever    *)
(* lost the race against the deadline decides the result.                  *)
WaiterAccounted ==
  /\ \A i, j \in 1 .. Len(wait_list) : wait_list[i] = wait_list[j] => i = j
  /\ \A t \in Thread :
       /\ t \in Queued <=> pc[t] \in {"wait", "relock"} /\ flags[t] = {}
       /\ \A f, g \in flags[t] : f = g
       /\ pc[t] = "wait" => (sem[t] = 1 <=> flags[t] # {})

(* Nobody sleeps next to enough tokens: while the mutex is free every      *)
(* waiter needs more than there is, and Signal leaves none behind.         *)
NoStrandedWaiter ==
  \A i \in 1 .. Len(wait_list) :
    mutex = NoThread \/ i < it => need_count[wait_list[i]] > token_count

(* Waiters are served by priority and then in the order they came, or just *)
(* in that order: the list Signal walks is sorted so at all times.         *)
Before(u, w) ==
  \/ ~IsFifo /\ priority[u] < priority[w]
  \/ (IsFifo \/ priority[u] = priority[w]) /\ u \in earlier[w]

QueueOrdered ==
  \A i, j \in 1 .. Len(wait_list) : i < j => Before(wait_list[i], wait_list[j])

(* Tokens are neither made nor lost: those in the count, those clients     *)
(* were given and those granted to waiters that have not returned yet add  *)
(* up to all that Signal and Cancel put in.                                *)
Granted == {t \in Thread : "signaled" \in flags[t]}

TokensConserved ==
  token_count + taken + SumFunctionOnSet(need_count, Granted) = supplied

(* A waiter that Signal or Cancel took off the list, and one that Delete   *)
(* took off, returns from its call, unless the semaphore is destroyed      *)
(* before it has locked the mutex again: the code keeps the object for     *)
(* nobody, and what its waiters find in the freed mutex is undefined.      *)
ReleasedReturns ==
  \A t \in Thread : flags[t] # {} ~> pc[t] = "idle" \/ ~allocated

(* The comment in WaitingThread::Wait: the wait records in *timeout how    *)
(* much remaining time there was, which is never more than it was given.   *)
TimeRemains ==
  [][\A t \in Thread : pc[t] = "relock" => timeout'[t] <= timeout[t]]_vars

=============================================================================
