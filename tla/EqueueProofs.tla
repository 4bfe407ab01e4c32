---------------------------- MODULE EqueueProofs ----------------------------
(* Proofs about Equeue, for any waiters, events, timers and bounds. *)
EXTENDS Equeue, ListLemmas, FiniteSetTheorems

Positions == {"idle", "wait", "asleep", "woken", "spin", "poll"}

IoTypes ==
  /\ io \in [at : {"idle", "trigger", "notify", "schedule"},
             ev : Timers \cup {NoEvent}, once : BOOLEAN]
  /\ io.at # "idle" => io.ev \in Timers
  /\ io.at = "idle" => io.ev = NoEvent

(* Only events of the queue are triggered.                                 *)
QueueTypes ==
  /\ m_events \in Seq(Event)
  /\ is_triggered \subseteq Range(m_events) /\ IsFiniteSet(is_triggered)
  /\ timer \in [Timers -> {"none", "idle", "pending"}]
  /\ flags \in [Event -> SUBSET Flag]

Handlers == [ev : Timers, once : BOOLEAN]

CallTypes ==
  /\ handlers \in Seq(Handlers)
  /\ adding \in [Timers -> Nat] /\ notifying \in Nat
  /\ pc \in [Waiter -> Positions]
  /\ copied \in [Waiter -> SUBSET Event]

EqTypes == QueueTypes /\ CallTypes /\ IoTypes

-----------------------------------------------------------------------------
(* What the helpers do *)

LEMMA EraseTypes ==
  ASSUME QueueTypes, NEW S, Erase(S)
  PROVE  /\ m_events' \in Seq(Event)
         /\ Range(m_events') = Range(m_events) \ S
         /\ timer' \in [Timers -> {"none", "idle", "pending"}]
         /\ \A e \in Timers \ S : timer'[e] = timer[e]
         /\ flags' \in [Event -> SUBSET Flag]
         /\ \A e \in Event : flags'[e] = IF e \in S THEN {} ELSE flags[e]
         /\ fired' = fired \ S
<1>1. /\ m_events' \in Seq(Event)
      /\ Range(m_events') = Range(m_events) \cap (Event \ S)
  BY FilteredSeq DEF Erase, QueueTypes
<1>2. Range(m_events) \subseteq Event
  BY DEF QueueTypes, Range
<1>3. /\ timer' \in [Timers -> {"none", "idle", "pending"}]
      /\ \A e \in Timers \ S : timer'[e] = timer[e]
  BY DEF Erase, QueueTypes
<1>4. /\ flags' \in [Event -> SUBSET Flag]
      /\ \A e \in Event : flags'[e] = IF e \in S THEN {} ELSE flags[e]
      /\ fired' = fired \ S
  BY DEF Erase, QueueTypes
<1> QED
  BY <1>1, <1>2, <1>3, <1>4

(* What leaves the queue has no flags, and so far as the others go nothing *)
(* changes.                                                                *)
LEMMA EraseKeeps ==
  ASSUME QueueTypes, NEW S, Erase(S)
  PROVE  Levels \subseteq Levels' /\ OneShots' = OneShots \ S
BY EraseTypes DEF Levels, OneShots

LEMMA ClearTypes ==
  ASSUME QueueTypes, NEW S, NEW left, Clear(S, left)
  PROVE  /\ QueueTypes'
         /\ is_triggered' = is_triggered \ (S \ Levels)
         /\ Range(m_events') = Range(m_events) \ (S \cap OneShots)
         /\ \A e \in Timers : e \in S \cap OneShots \/ timer'[e] = timer[e]
         /\ Levels \subseteq Levels' /\ OneShots' = OneShots \ S
         /\ fired' = fired \ (S \cap OneShots)
<1> DEFINE H == S \cap OneShots
<1>1. Erase(H) /\ is_triggered' = is_triggered \ (S \ Levels)
  BY DEF Clear
<1>2. H \subseteq S /\ H \cap Levels = {} /\ OneShots \ H = OneShots \ S
  BY DEF Levels, OneShots
<1> HIDE DEF H
<1>3. /\ m_events' \in Seq(Event)
      /\ Range(m_events') = Range(m_events) \ H
      /\ timer' \in [Timers -> {"none", "idle", "pending"}]
      /\ \A e \in Timers \ H : timer'[e] = timer[e]
      /\ flags' \in [Event -> SUBSET Flag]
      /\ fired' = fired \ H
  BY <1>1, EraseTypes
<1>4. is_triggered' \subseteq Range(m_events')
  BY <1>1, <1>2, <1>3 DEF QueueTypes
<1>5. IsFiniteSet(is_triggered')
  BY <1>1, FS_Subset DEF QueueTypes
<1>6. QueueTypes'
  BY <1>3, <1>4, <1>5 DEF QueueTypes
<1>7. Levels \subseteq Levels' /\ OneShots' = OneShots \ H
  BY <1>1, EraseKeeps
<1> QED
  BY <1>1, <1>2, <1>3, <1>6, <1>7 DEF H

(* What a call takes is triggered, and it takes something if it can.       *)
LEMMA TakesTriggered ==
  ASSUME QueueTypes, NEW n \in Nums
  PROVE  /\ Triggered(n) \subseteq is_triggered
         /\ Triggered(n) \subseteq Event
         /\ is_triggered # {} => Triggered(n) # {}
<1> DEFINE s == Filtered(m_events, is_triggered)
<1>1. s \in Seq(Event) /\ Range(s) = Range(m_events) \cap is_triggered
  BY FilteredSeq DEF QueueTypes
<1>2. Triggered(n) = {s[i] : i \in {k \in DOMAIN s : k <= n}}
  BY DEF Triggered
<1>3. n \in Nat \ {0}
  BY EqueueAssumption
<1> HIDE DEF s
<1>4. Triggered(n) \subseteq Range(s)
  BY <1>2 DEF Range
<1>5. Range(s) = is_triggered
  BY <1>1 DEF QueueTypes
<1>6. Range(s) \subseteq Event
  BY <1>1 DEF Range
<1>7. ASSUME is_triggered # {} PROVE s[1] \in Triggered(n)
  <2>1. Range(s) # {}
    BY <1>5, <1>7
  <2>2. 1 \in DOMAIN s
    BY <1>1, <2>1 DEF Range
  <2> QED
    BY <1>2, <1>3, <2>2
<1> QED
  BY <1>4, <1>5, <1>6, <1>7

LEMMA MarkTypes ==
  ASSUME QueueTypes, NEW e, Mark(e), UNCHANGED <<m_events, flags, timer>>
  PROVE  /\ QueueTypes'
         /\ is_triggered \subseteq is_triggered'
         /\ is_triggered' \subseteq is_triggered \cup {e}
         /\ Present(e) => e \in is_triggered'
<1>1. IsFiniteSet(is_triggered \cup {e})
  BY FS_AddElement DEF QueueTypes
<1>2. is_triggered' = is_triggered \/ (is_triggered' = is_triggered \cup {e} /\ Present(e))
  BY DEF Mark
<1> QED
  BY <1>1, <1>2 DEF QueueTypes, Mark, Present

LEMMA NotifyTypes ==
  ASSUME CallTypes, NotifyOne
  PROVE  pc' \in [Waiter -> Positions]
BY DEF CallTypes, NotifyOne, Asleep, Positions

-----------------------------------------------------------------------------
(* Every variable stays in its type.                                       *)
LEMMA TypesInit == Init => EqTypes
<1> SUFFICES ASSUME Init PROVE EqTypes
  OBVIOUS
<1>1. QueueTypes
  BY FS_EmptySet DEF Init, QueueTypes
<1>2. CallTypes
  BY DEF Init, CallTypes, Positions
<1>3. IoTypes
  BY EqueueAssumption DEF Init, IoTypes, Idle
<1> QED
  BY <1>1, <1>2, <1>3 DEF EqTypes

LEMMA TypesStep ==
  ASSUME EqTypes, [Next]_vars
  PROVE  EqTypes'
<1>0. QueueTypes /\ CallTypes /\ IoTypes
  BY DEF EqTypes
<1> USE DEF eventVars, queueVars, callVars, timerVars, waitVars
<1>1. CASE UNCHANGED vars
  BY <1>1 DEF vars, EqTypes, QueueTypes, CallTypes, IoTypes
<1>2. ASSUME NEW e \in Event, AddEvent(e) PROVE EqTypes'
  <2>1. m_events' = m_events \/ m_events' = Append(m_events, e)
    BY <1>2 DEF AddEvent
  <2>2. m_events' \in Seq(Event) /\ Range(m_events) \subseteq Range(m_events')
    <3>1. m_events \in Seq(Event)
      BY <1>0 DEF QueueTypes
    <3>2. /\ Append(m_events, e) \in Seq(Event)
          /\ Range(Append(m_events, e)) = Range(m_events) \cup {e}
      BY <3>1, AppendSeq
    <3> QED
      BY <2>1, <3>1, <3>2
  <2>3. UNCHANGED <<is_triggered, timer>> /\ flags' \in [Event -> SUBSET Flag]
    <3>1. \A given \in Adds[e] : given \subseteq Flag /\ given \cup {"Clear"} \subseteq Flag
      BY EqueueAssumption DEF Flag
    <3>2. flags' = flags \/ \E f \in SUBSET Flag : flags' = [flags EXCEPT ![e] = f]
      BY <1>2, <3>1 DEF AddEvent
    <3>3. UNCHANGED <<is_triggered, timer>>
      BY <1>2 DEF AddEvent
    <3> QED
      BY <1>0, <3>2, <3>3 DEF QueueTypes
  <2>4. QueueTypes'
    BY <1>0, <2>2, <2>3 DEF QueueTypes
  <2>5. CallTypes'
    BY <1>0, <1>2 DEF AddEvent, CallTypes
  <2> QED
    BY <1>0, <1>2, <2>4, <2>5 DEF AddEvent, EqTypes, IoTypes
<1>3. ASSUME NEW e \in Event, RemoveEvent(e) PROVE EqTypes'
  <2>1. /\ m_events' \in Seq(Event) /\ Range(m_events') = Range(m_events) \ {e}
        /\ timer' \in [Timers -> {"none", "idle", "pending"}]
        /\ flags' \in [Event -> SUBSET Flag]
    BY <1>0, <1>3, EraseTypes DEF RemoveEvent
  <2>2. is_triggered' = is_triggered \ {e}
    BY <1>3 DEF RemoveEvent
  <2>3. QueueTypes'
    BY <1>0, <2>1, <2>2, FS_Subset DEF QueueTypes
  <2> QED
    BY <1>0, <1>3, <2>3 DEF RemoveEvent, EqTypes, CallTypes, IoTypes
<1>4. ASSUME NEW e \in Event, TriggerEvent(e) PROVE EqTypes'
  <2>1. QueueTypes'
    BY <1>0, <1>4, MarkTypes DEF TriggerEvent
  <2> QED
    BY <1>0, <1>4, <2>1 DEF TriggerEvent, EqTypes, CallTypes, IoTypes
<1>5. ASSUME NEW e \in Timers, AddSchedules(e) PROVE EqTypes'
  BY <1>0, <1>5 DEF AddSchedules, Schedule, EqTypes, QueueTypes, CallTypes, IoTypes
<1>6. ASSUME NEW e \in Timers, Expire(e) PROVE EqTypes'
  <2>1. [ev |-> e, once |-> e \in OneShots] \in Handlers
    BY DEF Handlers
  <2>2. handlers' \in Seq(Handlers)
    BY <1>0, <1>6, <2>1, AppendSeq DEF Expire, CallTypes
  <2> QED
    BY <1>0, <1>6, <2>2 DEF Expire, EqTypes, QueueTypes, CallTypes, IoTypes
<1>7. ASSUME Notify PROVE EqTypes'
  <2>1. pc' \in [Waiter -> Positions]
    BY <1>0, <1>7, NotifyTypes DEF Notify
  <2> QED
    BY <1>0, <1>7, <2>1 DEF Notify, EqTypes, QueueTypes, CallTypes, IoTypes
<1>8. ASSUME Callback PROVE EqTypes'
  <2> DEFINE h == Head(handlers)
  <2>1. h \in Handlers /\ handlers' \in Seq(Handlers)
    BY <1>0, <1>8 DEF Callback, CallTypes
  <2>2. \/ io' = [at |-> "trigger", ev |-> h.ev, once |-> h.once]
        \/ io' = Idle
    BY <1>8 DEF Callback
  <2> HIDE DEF h
  <2>3. h.ev \in Timers /\ h.once \in BOOLEAN
    BY <2>1 DEF Handlers
  <2>4. ASSUME io' = [at |-> "trigger", ev |-> h.ev, once |-> h.once] PROVE IoTypes'
    <3>1. /\ io' \in [at : {"idle", "trigger", "notify", "schedule"},
                      ev : Timers \cup {NoEvent}, once : BOOLEAN]
          /\ io'.at = "trigger" /\ io'.ev \in Timers
      BY <2>3, <2>4
    <3> QED
      BY <3>1 DEF IoTypes
  <2>5. ASSUME io' = Idle PROVE IoTypes'
    BY <2>5 DEF IoTypes, Idle
  <2>6. IoTypes'
    BY <2>2, <2>4, <2>5
  <2> QED
    BY <1>0, <1>8, <2>1, <2>6 DEF Callback, EqTypes, QueueTypes, CallTypes
<1>9. ASSUME CallbackTriggers PROVE EqTypes'
  <2>1. QueueTypes'
    BY <1>0, <1>9, MarkTypes DEF CallbackTriggers
  <2>2. IoTypes'
    BY <1>0, <1>9 DEF CallbackTriggers, IoTypes
  <2> QED
    BY <1>0, <1>9, <2>1, <2>2 DEF CallbackTriggers, EqTypes, CallTypes
<1>10. ASSUME CallbackNotifies PROVE EqTypes'
  <2>1. pc' \in [Waiter -> Positions]
    BY <1>0, <1>10, NotifyTypes DEF CallbackNotifies
  <2>2. IoTypes'
    BY <1>0, <1>10 DEF CallbackNotifies, IoTypes, Idle
  <2> QED
    BY <1>0, <1>10, <2>1, <2>2 DEF CallbackNotifies, EqTypes, QueueTypes, CallTypes
<1>11. ASSUME CallbackSchedules PROVE EqTypes'
  <2>1. IoTypes'
    BY <1>11 DEF CallbackSchedules, IoTypes, Idle
  <2> QED
    BY <1>0, <1>11, <2>1 DEF CallbackSchedules, Schedule, EqTypes, QueueTypes, CallTypes
<1>12. ASSUME NEW w \in Waiter, Poll(w) PROVE EqTypes'
  <2>1. PICK n \in Nums : copied' = [copied EXCEPT ![w] = Triggered(n)]
    BY <1>12 DEF Poll
  <2>2. Triggered(n) \subseteq Event
    BY <1>0, TakesTriggered
  <2>3. CallTypes'
    BY <1>0, <1>12, <2>1, <2>2 DEF Poll, CallTypes, Positions
  <2> QED
    BY <1>0, <1>12, <2>3 DEF Poll, EqTypes, QueueTypes, IoTypes
<1>13. ASSUME NEW w \in Waiter, PollClear(w) PROVE EqTypes'
  <2>1. QueueTypes'
    BY <1>0, <1>13, ClearTypes DEF PollClear
  <2> QED
    BY <1>0, <1>13, <2>1 DEF PollClear, EqTypes, CallTypes, IoTypes, Positions
<1>14. ASSUME NEW w \in Waiter, Wait(w) \/ SpinTakes(w) \/ SpinTimeout(w) PROVE EqTypes'
  BY <1>0, <1>14 DEF Wait, SpinTakes, SpinTimeout, Return, EqTypes, QueueTypes,
                     CallTypes, IoTypes, Positions
<1>15. ASSUME NEW w \in Waiter, Predicate(w) \/ Timeout(w) PROVE EqTypes'
  <2>1. TakeSome => QueueTypes'
    BY <1>0, ClearTypes DEF TakeSome
  <2>2. QueueTypes'
    BY <1>0, <1>15, <2>1 DEF Predicate, Timeout, QueueTypes
  <2>3. pc' \in [Waiter -> Positions]
    BY <1>0, <1>15 DEF Predicate, Timeout, Return, CallTypes, Positions
  <2> QED
    BY <1>0, <1>15, <2>2, <2>3 DEF Predicate, Timeout, EqTypes, CallTypes, IoTypes
<1>16. ASSUME NEW i \in SmallTimer, AddSmallTimer(i) \/ RemoveSmallTimer(i) PROVE EqTypes'
  BY <1>0, <1>16 DEF AddSmallTimer, RemoveSmallTimer, EqTypes, QueueTypes, CallTypes, IoTypes
<1>17. Poller \subseteq Waiter
  BY EqueueAssumption
<1> QED
  BY <1>1, <1>2, <1>3, <1>4, <1>5, <1>6, <1>7, <1>8, <1>9, <1>10, <1>11, <1>12, <1>13,
     <1>14, <1>15, <1>16, <1>17 DEF Next

-----------------------------------------------------------------------------
(* Nobody sleeps through an event *)

Woken == {w \in Waiter : pc[w] = "woken"}

(* The timer service is about to notify.                                   *)
ByTimer == IF io.at = "notify" THEN 1 ELSE 0

Sums ==
  /\ IsFiniteSet(Owed) /\ Cardinality(Owed) \in Nat
  /\ IsFiniteSet(Woken) /\ Cardinality(Woken) \in Nat
  /\ Wakes = notifying + ByTimer + Cardinality(Woken)
  /\ notifying \in Nat /\ ByTimer \in Nat

LEMMA Counts == EqTypes => Sums
<1> SUFFICES ASSUME EqTypes PROVE Sums
  OBVIOUS
<1>1. IsFiniteSet(Owed)
  BY FS_Subset DEF EqTypes, QueueTypes, Owed
<1>2. IsFiniteSet(Woken)
  BY EqueueAssumption, FS_Subset DEF Woken
<1>3. Wakes = notifying + ByTimer + Cardinality(Woken)
  BY DEF Wakes, ByTimer, Woken
<1>4. notifying \in Nat /\ ByTimer \in Nat
  BY DEF EqTypes, CallTypes, ByTimer
<1> QED
  BY <1>1, <1>2, <1>3, <1>4, FS_CardinalityType DEF Sums

LEMMA CountsNext == EqTypes' => Sums'
  BY Counts, PTL

(* A step that sends nobody to sleep, owes no more and wakes nobody.       *)
LEMMA OwesNoMore ==
  ASSUME EqTypes, EqTypes', NoStrandedWaiter,
         Asleep' \subseteq Asleep, Owed' \subseteq Owed, Woken' = Woken,
         notifying' = notifying, ByTimer' = ByTimer
  PROVE  NoStrandedWaiter'
<1>0. Sums /\ Sums'
  BY Counts, CountsNext
<1>1. Wakes' = Wakes /\ Wakes \in Nat
  BY <1>0 DEF Sums
<1>2. Cardinality(Owed') <= Cardinality(Owed)
  BY <1>0, FS_Subset DEF Sums
<1> QED
  BY <1>0, <1>1, <1>2 DEF NoStrandedWaiter, Sums

(* So does one that leaves nothing that is owed.                           *)
LEMMA OwesNothing ==
  ASSUME EqTypes', Owed' = {}
  PROVE  NoStrandedWaiter'
<1>1. Cardinality(Owed') = 0
  BY FS_EmptySet
<1>2. Wakes' \in Nat
  BY CountsNext DEF Sums
<1> QED
  BY <1>1, <1>2 DEF NoStrandedWaiter

(* A trigger owes one wake more, and has one under way.                    *)
LEMMA OwesOne ==
  ASSUME EqTypes, EqTypes', NoStrandedWaiter, NEW e,
         UNCHANGED pc, Owed' \subseteq Owed \cup {e},
         notifying' + ByTimer' = notifying + ByTimer + 1
  PROVE  NoStrandedWaiter'
<1>0. Sums /\ Sums'
  BY Counts, CountsNext
<1>1. Woken' = Woken /\ Asleep' = Asleep
  BY DEF Woken, Asleep
<1>2. IsFiniteSet(Owed \cup {e}) /\ Cardinality(Owed \cup {e}) <= Cardinality(Owed) + 1
  <2>1. IsFiniteSet(Owed) /\ Cardinality(Owed) \in Nat
    BY <1>0 DEF Sums
  <2>2. /\ IsFiniteSet(Owed \cup {e})
        /\ Cardinality(Owed \cup {e}) =
             IF e \in Owed THEN Cardinality(Owed) ELSE Cardinality(Owed) + 1
    BY <2>1, FS_AddElement
  <2> QED
    BY <2>1, <2>2
<1>3. Cardinality(Owed') <= Cardinality(Owed \cup {e}) /\ Cardinality(Owed \cup {e}) \in Nat
  BY <1>2, FS_Subset, FS_CardinalityType
<1>4. Wakes' = Wakes + 1 /\ Wakes \in Nat
  <2>1. /\ notifying \in Nat /\ ByTimer \in Nat /\ Cardinality(Woken) \in Nat
        /\ notifying' \in Nat /\ ByTimer' \in Nat
    BY <1>0 DEF Sums
  <2>2. /\ Wakes = notifying + ByTimer + Cardinality(Woken)
        /\ Wakes' = notifying' + ByTimer' + Cardinality(Woken)
    BY <1>0, <1>1 DEF Sums
  <2>3. PICK m \in Nat, b \in Nat : m = notifying' /\ b = ByTimer'
    BY <2>1
  <2>4. m + b = notifying + ByTimer + 1 /\ Wakes' = m + b + Cardinality(Woken)
    BY <2>2, <2>3
  <2>5. m + b + Cardinality(Woken) = notifying + ByTimer + Cardinality(Woken) + 1
    BY <2>1, <2>4
  <2> QED
    BY <2>1, <2>2, <2>4, <2>5
<1>5. Cardinality(Owed) \in Nat /\ Cardinality(Owed') \in Nat
  BY <1>0 DEF Sums
<1> QED
  BY <1>1, <1>2, <1>3, <1>4, <1>5 DEF NoStrandedWaiter

(* A notification that finds a sleeper hands its wake over to it.          *)
LEMMA HandsOver ==
  ASSUME EqTypes, EqTypes', NoStrandedWaiter, NotifyOne, Owed' = Owed,
         notifying' + ByTimer' + 1 = notifying + ByTimer
  PROVE  NoStrandedWaiter'
<1>0. Sums /\ Sums'
  BY Counts, CountsNext
<1>1. CASE Asleep = {}
  <2>1. pc' = pc
    BY <1>1 DEF NotifyOne
  <2> QED
    BY <1>1, <2>1 DEF NoStrandedWaiter, Asleep
<1>2. CASE Asleep # {}
  <2>1. PICK w \in Asleep : pc' = [pc EXCEPT ![w] = "woken"]
    BY <1>2 DEF NotifyOne
  <2>2. w \notin Woken /\ Woken' = Woken \cup {w}
    BY <2>1 DEF Asleep, Woken, EqTypes, CallTypes
  <2>3. Cardinality(Woken') = Cardinality(Woken) + 1
    BY <1>0, <2>2, FS_AddElement DEF Sums
  <2>4. /\ notifying \in Nat /\ ByTimer \in Nat /\ Cardinality(Woken) \in Nat
        /\ notifying' \in Nat /\ ByTimer' \in Nat
    BY <1>0 DEF Sums
  <2>5. /\ Wakes = notifying + ByTimer + Cardinality(Woken)
        /\ Wakes' = notifying' + ByTimer' + (Cardinality(Woken) + 1)
    BY <1>0, <2>3 DEF Sums
  <2>6. PICK m \in Nat, b \in Nat : m = notifying' /\ b = ByTimer'
    BY <2>4
  <2>7. m + b + 1 = notifying + ByTimer /\ Wakes' = m + b + (Cardinality(Woken) + 1)
    BY <2>5, <2>6
  <2>8. Wakes' = Wakes
    BY <2>4, <2>5, <2>7
  <2> QED
    BY <1>2, <2>8 DEF NoStrandedWaiter
<1> QED
  BY <1>1, <1>2

(* A waiter that takes something uses up one wake at most, and then takes  *)
(* what it was for, or leaves nothing behind that is owed.                 *)
LEMMA Takes ==
  ASSUME EqTypes, EqTypes', NoStrandedWaiter, NEW w \in Waiter,
         pc[w] \in {"wait", "asleep", "woken"}, TakeSome, Return(w),
         notifying' = notifying, io' = io
  PROVE  NoStrandedWaiter'
<1>0. QueueTypes /\ CallTypes
  BY DEF EqTypes
<1>1. PICK n \in Nums : Clear(Triggered(n), PassedOver(Triggered(n)))
  BY DEF TakeSome
<1> DEFINE S == Triggered(n)
<1>2. /\ is_triggered' = is_triggered \ (S \ Levels)
      /\ masked' = (masked \cup PassedOver(S)) \ S
  BY <1>1 DEF Clear
<1>3. S \subseteq is_triggered /\ (is_triggered # {} => S # {})
  BY <1>0, TakesTriggered
<1>4. pc' = [pc EXCEPT ![w] = "idle"]
  BY DEF Return
<1> HIDE DEF S
<1>5. Asleep' \subseteq Asleep /\ Woken' = Woken \ {w} /\ ByTimer' = ByTimer
  BY <1>0, <1>4 DEF Asleep, Woken, ByTimer, CallTypes
<1>9. Sums /\ Sums'
  BY Counts, CountsNext
<1>6. CASE S \cap (Levels \cup masked) # {}
  <2>1. PassedOver(S) = is_triggered \ (S \cup Levels)
    BY <1>6 DEF PassedOver
  <2>2. Owed' = {}
    BY <1>0, <1>1, <1>2, <1>3, <2>1, ClearTypes DEF Owed
  <2> QED
    BY <2>2, OwesNothing
<1>7. CASE is_triggered = {}
  <2>1. Owed' = {}
    BY <1>2, <1>7 DEF Owed
  <2> QED
    BY <2>1, OwesNothing
<1>8. CASE is_triggered # {} /\ S \cap (Levels \cup masked) = {}
  <2>1. PICK e : e \in S
    BY <1>3, <1>8
  <2>2. e \in Owed
    BY <1>3, <1>8, <2>1 DEF Owed
  <2>3. PassedOver(S) = {}
    BY <1>8 DEF PassedOver
  <2>4. Owed' \subseteq Owed \ {e}
    BY <1>0, <1>1, <1>2, <1>8, <2>1, <2>3, ClearTypes DEF Owed
  <2>5. IsFiniteSet(Owed \ {e}) /\ Cardinality(Owed \ {e}) = Cardinality(Owed) - 1
    BY <1>9, <2>2, FS_RemoveElement DEF Sums
  <2>6. Cardinality(Owed') <= Cardinality(Owed) - 1
    BY <2>4, <2>5, FS_Subset
  <2>7. Cardinality(Woken \ {w}) >= Cardinality(Woken) - 1
    <3>1. Cardinality(Woken \ {w}) =
            IF w \in Woken THEN Cardinality(Woken) - 1 ELSE Cardinality(Woken)
      BY <1>9, FS_RemoveElement DEF Sums
    <3> QED
      BY <1>9, <3>1 DEF Sums
  <2>8. Wakes' >= Wakes - 1 /\ Wakes' \in Nat /\ Wakes \in Nat
    BY <1>5, <1>9, <2>7 DEF Sums
  <2>9. Cardinality(Owed) \in Nat /\ Cardinality(Owed') \in Nat
    BY <1>9 DEF Sums
  <2> QED
    BY <1>5, <2>6, <2>8, <2>9 DEF NoStrandedWaiter
<1> QED
  BY <1>6, <1>7, <1>8

LEMMA WakeStep ==
  ASSUME EqTypes, EqTypes', NoStrandedWaiter, [Next]_vars
  PROVE  NoStrandedWaiter'
<1>0. QueueTypes /\ CallTypes /\ IoTypes
  BY DEF EqTypes
<1> USE DEF eventVars, queueVars, callVars, timerVars, waitVars
<1>1. CASE UNCHANGED vars
  BY <1>1 DEF vars, NoStrandedWaiter, Asleep, Owed, Levels, Wakes
(* Steps that no waiter's wake depends on.                                 *)
<1>2. ASSUME is_triggered' \subseteq is_triggered, Levels \cap is_triggered' \subseteq Levels',
             masked \cap is_triggered' \subseteq masked', UNCHANGED notifying,
             ByTimer' = ByTimer, Asleep' = Asleep, Woken' = Woken
      PROVE  NoStrandedWaiter'
  BY <1>2, OwesNoMore DEF Owed
<1>s. UNCHANGED flags => Levels' = Levels
  BY DEF Levels
<1>3. ASSUME NEW e \in Event, AddEvent(e) \/ RemoveEvent(e) PROVE NoStrandedWaiter'
  <2>1. Levels \cap is_triggered' \subseteq Levels'
    <3>1. CASE RemoveEvent(e)
      BY <1>0, <3>1, EraseKeeps DEF RemoveEvent
    <3>2. CASE AddEvent(e)
      <4>1. is_triggered' = is_triggered
        BY <3>2 DEF AddEvent
      <4>2. e \in is_triggered => flags' = flags
        BY <1>0, <3>2 DEF AddEvent, Present, QueueTypes
      <4>3. \A f \in Event \ {e} : flags'[f] = flags[f]
        BY <1>0, <3>2 DEF AddEvent, QueueTypes
      <4> QED
        BY <4>1, <4>2, <4>3 DEF Levels
    <3> QED
      BY <1>3, <3>1, <3>2
  <2> QED
    BY <1>2, <1>3, <2>1 DEF AddEvent, RemoveEvent, ByTimer, Asleep, Woken
<1>4. ASSUME NEW e \in Timers, AddSchedules(e) \/ Expire(e) PROVE NoStrandedWaiter'
  BY <1>2, <1>4, <1>s DEF AddSchedules, Expire, ByTimer, Asleep, Woken
<1>5. ASSUME NEW e \in Event, TriggerEvent(e) PROVE NoStrandedWaiter'
  <2>1. Owed' \subseteq Owed \cup {e}
    BY <1>5, <1>s DEF TriggerEvent, Mark, Owed
  <2>2. ByTimer' = ByTimer /\ notifying' = notifying + 1 /\ UNCHANGED pc
    BY <1>5 DEF TriggerEvent, ByTimer
  <2>3. notifying' + ByTimer' = notifying + ByTimer + 1
    BY <2>2, Counts DEF Sums
  <2> QED
    BY <2>1, <2>2, <2>3, OwesOne
<1>6. ASSUME Notify PROVE NoStrandedWaiter'
  <2>1. ByTimer' = ByTimer /\ notifying' = notifying - 1 /\ NotifyOne /\ Owed' = Owed
    BY <1>6, <1>s DEF Notify, ByTimer, Owed
  <2> QED
    BY <2>1, HandsOver, Counts DEF Sums
<1>7. ASSUME Callback \/ CallbackSchedules PROVE NoStrandedWaiter'
  <2>1. ByTimer = 0 /\ ByTimer' = 0
    BY <1>7 DEF Callback, CallbackSchedules, ByTimer, Idle
  <2> QED
    BY <1>2, <1>7, <1>s, <2>1 DEF Callback, CallbackSchedules, Asleep, Woken
<1>8. ASSUME CallbackTriggers PROVE NoStrandedWaiter'
  <2>1. Owed' \subseteq Owed \cup {io.ev}
    BY <1>8, <1>s DEF CallbackTriggers, Mark, Owed
  <2>2. ByTimer = 0 /\ ByTimer' = 1 /\ UNCHANGED <<pc, notifying>>
    BY <1>0, <1>8 DEF CallbackTriggers, ByTimer, IoTypes
  <2>3. notifying' + ByTimer' = notifying + ByTimer + 1
    BY <2>2, Counts DEF Sums
  <2> QED
    BY <2>1, <2>2, <2>3, OwesOne
<1>9. ASSUME CallbackNotifies PROVE NoStrandedWaiter'
  <2>1. ByTimer = 1 /\ ByTimer' = 0 /\ UNCHANGED notifying
    BY <1>0, <1>9 DEF CallbackNotifies, ByTimer, IoTypes, Idle
  <2>2. NotifyOne /\ Owed' = Owed
    BY <1>9, <1>s DEF CallbackNotifies, Owed
  <2> QED
    BY <2>1, <2>2, HandsOver, Counts DEF Sums
<1>10. ASSUME NEW w \in Waiter, Poll(w) PROVE NoStrandedWaiter'
  <2>1. /\ is_triggered' = is_triggered /\ masked \subseteq masked'
        /\ UNCHANGED <<notifying, io>> /\ Levels' = Levels
    BY <1>10, <1>s DEF Poll
  <2>2. Asleep' = Asleep /\ Woken' = Woken
    BY <1>0, <1>10 DEF Poll, Asleep, Woken, CallTypes
  <2> QED
    BY <1>2, <2>1, <2>2 DEF ByTimer
<1>11. ASSUME NEW w \in Waiter, PollClear(w) PROVE NoStrandedWaiter'
  <2>1. /\ is_triggered' = is_triggered \ (copied[w] \ Levels)
        /\ masked' = masked \ copied[w] /\ UNCHANGED <<notifying, io>>
    BY <1>11 DEF PollClear, Clear
  <2>2. Owed' \subseteq Owed
    <3>1. Levels \subseteq Levels'
      BY <1>0, <1>11, ClearTypes DEF PollClear
    <3> QED
      BY <2>1, <3>1 DEF Owed
  <2>3. Asleep' = Asleep /\ Woken' = Woken
    BY <1>0, <1>11 DEF PollClear, Asleep, Woken, CallTypes
  <2> QED
    BY <2>1, <2>2, <2>3, OwesNoMore DEF ByTimer
<1>12. ASSUME NEW w \in Waiter, Wait(w) \/ SpinTakes(w) \/ SpinTimeout(w)
       PROVE  NoStrandedWaiter'
  <2>1. UNCHANGED <<is_triggered, masked, notifying, io>> /\ Levels' = Levels
    BY <1>12, <1>s DEF Wait, SpinTakes, SpinTimeout
  <2>2. Asleep' = Asleep /\ Woken' = Woken
    BY <1>0, <1>12 DEF Wait, SpinTakes, SpinTimeout, Return, Asleep, Woken, CallTypes
  <2> QED
    BY <1>2, <2>1, <2>2 DEF ByTimer
<1>13. ASSUME NEW w \in Waiter, Predicate(w) \/ Timeout(w) PROVE NoStrandedWaiter'
  <2>1. CASE TakeSome /\ Return(w)
    BY <1>13, <2>1, Takes DEF Predicate, Timeout
  <2>2. CASE is_triggered = {} /\ is_triggered' = is_triggered
    <3>1. Owed' = {}
      BY <2>2 DEF Owed
    <3> QED
      BY <3>1, OwesNothing
  <2> QED
    BY <1>13, <2>1, <2>2 DEF Predicate, Timeout
<1>14. ASSUME NEW i \in SmallTimer, AddSmallTimer(i) \/ RemoveSmallTimer(i)
       PROVE  NoStrandedWaiter'
  BY <1>2, <1>14, <1>s DEF AddSmallTimer, RemoveSmallTimer, ByTimer, Asleep, Woken
<1>15. Poller \subseteq Waiter
  BY EqueueAssumption
<1> QED
  BY <1>1, <1>3, <1>4, <1>5, <1>6, <1>7, <1>8, <1>9, <1>10, <1>11, <1>12, <1>13,
     <1>14, <1>15 DEF Next

(* While a waiter sleeps, every triggered event that owes a wake has one   *)
(* under way, whatever the number of waiters, events and calls.            *)
THEOREM NobodyStranded == Spec => []NoStrandedWaiter
<1>1. Init => NoStrandedWaiter
  BY DEF Init, NoStrandedWaiter, Asleep
<1> QED
  BY <1>1, TypesInit, TypesStep, WakeStep, PTL DEF Spec

-----------------------------------------------------------------------------
(* No timer event falls silent *)

(* Why the timer of a present event will go on.                            *)
Kept(e) ==
  \/ timer[e] = "pending" \/ adding[e] > 0
  \/ timer[e] = "idle" /\ HandlerDue(e)
  \/ e \in OneShots /\ e \in is_triggered
  \/ e \in Lingering /\ e \in fired

LEMMA KeptEach == TimerKept <=> \A e \in Timers : Present(e) => Kept(e)
  BY DEF TimerKept, Kept

(* The flags and the timer of the event are as they were, and it is still  *)
(* triggered and fired if it was.                                          *)
Alike(e) ==
  /\ flags'[e] = flags[e] /\ timer'[e] = timer[e] /\ adding'[e] >= adding[e]
  /\ e \in is_triggered => e \in is_triggered'
  /\ e \in fired => e \in fired'

LEMMA KeptAlike ==
  ASSUME EqTypes, EqTypes', NEW e \in Timers, Alike(e), Kept(e),
         HandlerDue(e) => HandlerDue(e)'
  PROVE  Kept(e)'
<1>1. adding[e] \in Nat /\ adding'[e] \in Nat
  BY DEF EqTypes, CallTypes
<1>2. e \in Event
  BY DEF Timers
<1>3. (e \in OneShots)' = (e \in OneShots) /\ (e \in Lingering)' = (e \in Lingering)
  BY <1>2 DEF Alike, OneShots, Lingering
<1> QED
  BY <1>1, <1>3 DEF Alike, Kept

(* The handlers of an event whose flags stay are due as before.            *)
LEMMA DueSame ==
  ASSUME NEW e \in Timers, UNCHANGED <<handlers, io>>, flags'[e] = flags[e]
  PROVE  HandlerDue(e)' <=> HandlerDue(e)
<1>1. e \in Event
  BY DEF Timers
<1>2. (e \in OneShots)' = (e \in OneShots)
  BY <1>1 DEF OneShots
<1> QED
  BY <1>2 DEF HandlerDue

(* A step that leaves the queue, its flags and its timers alone, or only   *)
(* triggers events of it.                                                  *)
LEMMA TimerSame ==
  ASSUME TimerKept, UNCHANGED <<m_events, flags, timer, adding, handlers, io>>,
         is_triggered \subseteq is_triggered', fired \subseteq fired'
  PROVE  TimerKept'
BY DEF TimerKept, HandlerDue, Present, OneShots, Lingering

(* A wait or a poll that clears events erases the one-shots it clears.     *)
LEMMA TimerClears ==
  ASSUME EqTypes, EqTypes', TimerKept, NEW S, NEW left, Clear(S, left),
         UNCHANGED <<adding, handlers, io>>
  PROVE  TimerKept'
<1>1. /\ is_triggered' = is_triggered \ (S \ Levels)
      /\ Range(m_events') = Range(m_events) \ (S \cap OneShots)
      /\ \A e \in Timers : e \in S \cap OneShots \/ timer'[e] = timer[e]
      /\ fired' = fired \ (S \cap OneShots)
  BY ClearTypes DEF EqTypes
<1>2. ASSUME NEW e \in Timers, Present(e)'
      PROVE  Kept(e)'
  <2>1. Present(e) /\ e \notin S \cap OneShots /\ e \in Event
    BY <1>1, <1>2 DEF Present, Timers
  <2>2. Kept(e)
    BY <2>1 DEF TimerKept, Kept
  <2>3. flags'[e] = flags[e]
    <3>1. Erase(S \cap OneShots)
      BY DEF Clear
    <3> QED
      BY <2>1, <3>1, EraseTypes DEF EqTypes
  <2>4. timer'[e] = timer[e] /\ adding'[e] = adding[e] /\ (e \in fired => e \in fired')
    BY <1>1, <2>1
  <2>5. (e \in OneShots)' = (e \in OneShots) /\ (e \in Lingering)' = (e \in Lingering)
    BY <2>1, <2>3 DEF OneShots, Lingering
  <2>6. e \in OneShots /\ e \in is_triggered => e \in is_triggered'
    BY <1>1, <2>1
  <2>7. HandlerDue(e) => HandlerDue(e)'
    BY <2>3, DueSame
  <2> QED
    BY <2>2, <2>4, <2>5, <2>6, <2>7 DEF Kept
<1> QED
  BY <1>2 DEF TimerKept, Kept

LEMMA TimerStep ==
  ASSUME EqTypes, EqTypes', TimerKept, [Next]_vars
  PROVE  TimerKept'
<1>0. /\ QueueTypes /\ CallTypes /\ IoTypes
      /\ \A e \in Timers : Present(e) => Kept(e)
  BY KeptEach DEF EqTypes
<1> USE DEF eventVars, queueVars, callVars, timerVars, waitVars
<1>1. CASE /\ UNCHANGED <<m_events, flags, timer, adding, handlers, io>>
           /\ is_triggered \subseteq is_triggered' /\ fired \subseteq fired'
  BY <1>1, TimerSame
<1>a. ASSUME \A e \in Timers : Present(e)' => Kept(e)'
      PROVE  TimerKept'
  BY <1>a DEF TimerKept, Kept
<1>2. ASSUME NEW e \in Event, AddEvent(e) PROVE TimerKept'
  <2>1. CASE Present(e)
    BY <1>1, <1>2, <2>1 DEF AddEvent
  <2>2. CASE ~Present(e)
    <3>1. Range(m_events') = Range(m_events) \cup {e}
      <4>1. m_events' = Append(m_events, e) /\ m_events \in Seq(Event)
        BY <1>0, <1>2, <2>2 DEF AddEvent, QueueTypes
      <4> QED
        BY <4>1, AppendSeq
    <3>2. \A f \in Timers : adding'[f] >= adding[f] /\ (f = e => adding'[f] > 0)
      BY <1>0, <1>2, <2>2 DEF AddEvent, CallTypes
    <3>3. /\ \A f \in Event \ {e} : flags'[f] = flags[f]
          /\ UNCHANGED <<is_triggered, timer, fired, handlers, io>>
      BY <1>0, <1>2, <2>2 DEF AddEvent, QueueTypes
    <3>4. ASSUME NEW f \in Timers, Present(f)'
          PROVE  Kept(f)'
      <4>1. CASE f = e
        BY <3>2, <4>1 DEF Kept
      <4>2. CASE f # e
        <5>1. Kept(f) /\ Alike(f)
          BY <1>0, <3>1, <3>2, <3>3, <3>4, <4>2 DEF Present, Alike, Timers
        <5>2. HandlerDue(f) => HandlerDue(f)'
          BY <3>3, <5>1, DueSame DEF Alike
        <5> QED
          BY <5>1, <5>2, KeptAlike
      <4> QED
        BY <4>1, <4>2
    <3> QED
      BY <1>a, <3>4
  <2> QED
    BY <2>1, <2>2
<1>3. ASSUME NEW e \in Event, RemoveEvent(e) PROVE TimerKept'
  <2>1. /\ Range(m_events') = Range(m_events) \ {e}
        /\ \A f \in Timers \ {e} : timer'[f] = timer[f]
        /\ \A f \in Event \ {e} : flags'[f] = flags[f]
        /\ fired' = fired \ {e} /\ is_triggered' = is_triggered \ {e}
    BY <1>0, <1>3, EraseTypes DEF RemoveEvent
  <2>2. ASSUME NEW f \in Timers, Present(f)'
        PROVE  Kept(f)'
    <3>1. f # e /\ Kept(f)
      BY <1>0, <2>1, <2>2 DEF Present
    <3>2. Alike(f)
      BY <1>0, <1>3, <2>1, <3>1 DEF RemoveEvent, Alike, Timers, CallTypes
    <3>3. HandlerDue(f) => HandlerDue(f)'
      BY <1>3, <3>2, DueSame DEF RemoveEvent, Alike
    <3> QED
      BY <3>1, <3>2, <3>3, KeptAlike
  <2> QED
    BY <1>a, <2>2
<1>4. ASSUME NEW e \in Event, TriggerEvent(e) PROVE TimerKept'
  BY <1>1, <1>4 DEF TriggerEvent, Mark
<1>5. ASSUME NEW e \in Timers, AddSchedules(e) PROVE TimerKept'
  <2>1. Present(e) => timer'[e] = "pending"
    BY <1>0, <1>5 DEF AddSchedules, Schedule, QueueTypes
  <2>2. /\ \A f \in Timers \ {e} : timer'[f] = timer[f] /\ adding'[f] = adding[f]
        /\ UNCHANGED <<m_events, flags, is_triggered, fired, handlers, io>>
    BY <1>0, <1>5 DEF AddSchedules, Schedule, QueueTypes, CallTypes
  <2>3. ASSUME NEW f \in Timers, Present(f)'
        PROVE  Kept(f)'
    <3>1. CASE f = e
      BY <2>1, <2>2, <2>3, <3>1 DEF Present, Kept
    <3>2. CASE f # e
      <4>1. Kept(f) /\ Alike(f)
        BY <1>0, <2>2, <2>3, <3>2 DEF Present, Alike, CallTypes
      <4>2. HandlerDue(f) => HandlerDue(f)'
        BY <2>2, DueSame
      <4> QED
        BY <4>1, <4>2, KeptAlike
    <3> QED
      BY <3>1, <3>2
  <2> QED
    BY <1>a, <2>3
(* The handler carries the flag of its event.                              *)
<1>6. ASSUME NEW e \in Timers, Expire(e) PROVE TimerKept'
  <2> DEFINE h == [ev |-> e, once |-> e \in OneShots]
  <2>1. Range(handlers') = Range(handlers) \cup {h}
    <3>1. h \in Handlers /\ handlers' = Append(handlers, h) /\ handlers \in Seq(Handlers)
      BY <1>0, <1>6 DEF Expire, CallTypes, Handlers
    <3> QED
      BY <3>1, AppendSeq
  <2>2. timer'[e] = "idle" /\ \A f \in Timers \ {e} : timer'[f] = timer[f]
    BY <1>0, <1>6 DEF Expire, QueueTypes
  <2>3. UNCHANGED <<m_events, flags, is_triggered, fired, adding, io>>
    BY <1>6 DEF Expire
  <2>4. \A f \in Timers : (f \in OneShots)' = (f \in OneShots)
    BY <2>3 DEF OneShots
  <2>5. \A f \in Timers : HandlerDue(f) => HandlerDue(f)'
    <3> HIDE DEF h
    <3> QED
      BY <2>1, <2>3, <2>4 DEF HandlerDue
  <2>6. HandlerDue(e)'
    <3>1. h.ev = e /\ (h.once => e \in OneShots)
      OBVIOUS
    <3>2. h \in Range(handlers')
      BY <2>1
    <3> HIDE DEF h
    <3> QED
      BY <2>4, <3>1, <3>2 DEF HandlerDue
  <2>7. ASSUME NEW f \in Timers, Present(f)'
        PROVE  Kept(f)'
    <3>1. CASE f = e
      BY <2>2, <2>6, <3>1 DEF Kept
    <3>2. CASE f # e
      <4>1. Kept(f) /\ Alike(f)
        BY <1>0, <2>2, <2>3, <2>7, <3>2 DEF Present, Alike, CallTypes
      <4> QED
        BY <2>5, <4>1, KeptAlike
    <3> QED
      BY <3>1, <3>2
  <2> QED
    BY <1>a, <2>7
<1>7. ASSUME Notify PROVE TimerKept'
  BY <1>1, <1>7 DEF Notify
(* A handler that gives up does so because its event is gone.              *)
<1>8. ASSUME Callback PROVE TimerKept'
  <2> DEFINE h == Head(handlers)
  <2>1. h \in Handlers /\ Range(handlers) = {h} \cup Range(handlers')
    BY <1>0, <1>8, TailSeq DEF Callback, CallTypes
  <2>2. io.ev \notin Timers
    BY <1>8, EqueueAssumption DEF Callback, Idle, Timers
  <2>3. IF Filter[h.ev] = "HrTimer" \/ Present(h.ev)
        THEN io'.at = "trigger" /\ io'.ev = h.ev /\ io'.once = h.once
        ELSE ~Present(h.ev)
    BY <1>8 DEF Callback
  <2>4. UNCHANGED <<m_events, flags, is_triggered, timer, adding, fired>>
    BY <1>8 DEF Callback
  <2> HIDE DEF h
  <2>5. ASSUME NEW f \in Timers, Present(f)'
        PROVE  Kept(f)'
    <3>1. Present(f) /\ Kept(f) /\ Alike(f)
      BY <1>0, <2>4, <2>5 DEF Present, Alike, CallTypes
    <3>2. (f \in OneShots)' = (f \in OneShots)
      BY <2>4 DEF OneShots
    <3>3. HandlerDue(f) => HandlerDue(f)'
      BY <2>1, <2>2, <2>3, <3>1, <3>2 DEF HandlerDue
    <3> QED
      BY <3>1, <3>3, KeptAlike
  <2> QED
    BY <1>a, <2>5
(* Once it has triggered, a OneShot event waits to be collected, an        *)
(* HrTimer added without OneShot has had its time, and any other is        *)
(* scheduled again.                                                        *)
<1>9. ASSUME CallbackTriggers PROVE TimerKept'
  <2> DEFINE e == io.ev
  <2>1. e \in Timers /\ io.at = "trigger"
    BY <1>0, <1>9 DEF CallbackTriggers, IoTypes
  <2>2. /\ is_triggered \subseteq is_triggered' /\ fired \subseteq fired'
        /\ Present(e) => e \in is_triggered' /\ (e \in Lingering => e \in fired')
    BY <1>9 DEF CallbackTriggers, Mark
  <2>3. io'.ev = e /\ io'.once = io.once /\ io'.at = "notify"
    BY <1>0, <1>9 DEF CallbackTriggers, IoTypes
  <2>4. UNCHANGED <<m_events, flags, timer, adding, handlers>>
    BY <1>9 DEF CallbackTriggers
  <2>5. \A f \in Timers : /\ (f \in OneShots)' = (f \in OneShots)
                          /\ (f \in Lingering)' = (f \in Lingering)
    BY <2>4 DEF OneShots, Lingering
  <2>6. Filter[e] = "Timer" \/ e \in Lingering \/ e \in OneShots
    BY <2>1 DEF Timers, Lingering
  <2> HIDE DEF e
  <2>7. ASSUME NEW f \in Timers, Present(f)'
        PROVE  Kept(f)'
    <3>1. Present(f) /\ Kept(f) /\ Alike(f)
      BY <1>0, <2>2, <2>4, <2>7 DEF Present, Alike, CallTypes
    <3>2. CASE f # e
      <4>1. HandlerDue(f) => HandlerDue(f)'
        BY <2>3, <2>4, <2>5, <3>2 DEF HandlerDue, e
      <4> QED
        BY <3>1, <4>1, KeptAlike
    <3>3. CASE f = e /\ (f \in OneShots \/ f \in Lingering)
      BY <2>2, <2>5, <3>1, <3>3 DEF Kept
    <3>4. CASE f = e /\ Filter[e] = "Timer" /\ f \notin OneShots
      <4>1. HandlerDue(f) => HandlerDue(f)'
        BY <2>1, <2>3, <2>4, <2>5, <3>4 DEF HandlerDue
      <4> QED
        BY <3>1, <4>1, KeptAlike
    <3> QED
      BY <2>6, <3>2, <3>3, <3>4
  <2> QED
    BY <1>a, <2>7
<1>10. ASSUME CallbackNotifies PROVE TimerKept'
  <2>1. /\ io.at = "notify"
        /\ Filter[io.ev] = "Timer" /\ ~io.once => io'.ev = io.ev /\ io'.once = io.once
    BY <1>0, <1>10 DEF CallbackNotifies, IoTypes
  <2>2. UNCHANGED <<m_events, flags, is_triggered, timer, adding, handlers, fired>>
    BY <1>10 DEF CallbackNotifies
  <2>3. ASSUME NEW f \in Timers, Present(f)'
        PROVE  Kept(f)'
    <3>1. Present(f) /\ Kept(f) /\ Alike(f)
      BY <1>0, <2>2, <2>3 DEF Present, Alike, CallTypes
    <3>2. (f \in OneShots)' = (f \in OneShots)
      BY <2>2 DEF OneShots
    <3>3. HandlerDue(f) => HandlerDue(f)'
      BY <2>1, <2>2, <3>2 DEF HandlerDue
    <3> QED
      BY <3>1, <3>3, KeptAlike
  <2> QED
    BY <1>a, <2>3
<1>11. ASSUME CallbackSchedules PROVE TimerKept'
  <2>1. /\ Present(io.ev) => timer'[io.ev] = "pending"
        /\ \A f \in Timers \ {io.ev} : timer'[f] = timer[f]
    BY <1>0, <1>11 DEF CallbackSchedules, Schedule, QueueTypes, IoTypes
  <2>2. UNCHANGED <<m_events, flags, is_triggered, adding, handlers, fired>>
    BY <1>11 DEF CallbackSchedules
  <2>3. io' = Idle /\ io.at = "schedule"
    BY <1>11 DEF CallbackSchedules
  <2>4. ASSUME NEW f \in Timers, Present(f)'
        PROVE  Kept(f)'
    <3>1. CASE f = io.ev
      BY <2>1, <2>2, <2>4, <3>1 DEF Present, Kept
    <3>2. CASE f # io.ev
      <4>1. Kept(f) /\ Alike(f)
        BY <1>0, <2>1, <2>2, <2>4, <3>2 DEF Present, Alike, CallTypes
      <4>2. (f \in OneShots)' = (f \in OneShots)
        BY <2>2 DEF OneShots
      <4>3. HandlerDue(f) => HandlerDue(f)'
        BY <2>2, <3>2, <4>2 DEF HandlerDue
      <4> QED
        BY <4>1, <4>3, KeptAlike
    <3> QED
      BY <3>1, <3>2
  <2> QED
    BY <1>a, <2>4
<1>12. ASSUME NEW w \in Waiter, PollClear(w) PROVE TimerKept'
  BY <1>12, TimerClears DEF PollClear
<1>13. ASSUME NEW w \in Waiter, Predicate(w) \/ Timeout(w) PROVE TimerKept'
  <2>1. CASE TakeSome
    BY <1>13, <2>1, TimerClears DEF Predicate, Timeout, TakeSome
  <2> QED
    BY <1>1, <1>13, <2>1 DEF Predicate, Timeout
<1>14. ASSUME NEW w \in Waiter, Poll(w) \/ Wait(w) \/ SpinTakes(w) \/ SpinTimeout(w)
       PROVE  TimerKept'
  BY <1>1, <1>14 DEF Poll, Wait, SpinTakes, SpinTimeout
<1>15. ASSUME NEW i \in SmallTimer, AddSmallTimer(i) \/ RemoveSmallTimer(i)
       PROVE  TimerKept'
  BY <1>1, <1>15 DEF AddSmallTimer, RemoveSmallTimer
<1>16. CASE UNCHANGED vars
  BY <1>1, <1>16 DEF vars
<1>17. Poller \subseteq Waiter
  BY EqueueAssumption
<1> QED
  BY <1>2, <1>3, <1>4, <1>5, <1>6, <1>7, <1>8, <1>9, <1>10, <1>11, <1>12, <1>13,
     <1>14, <1>15, <1>16, <1>17 DEF Next

(* A timer event of the queue never falls silent before its time, however  *)
(* its timer, its handlers and calls that remove it and add it again with  *)
(* other flags interleave, for every filter and set of flags; afterwards   *)
(* only a OneShot event and an HrTimer without OneShot may be silent.      *)
THEOREM NoSilentTimer == Spec => []TimerKept
<1>1. Init => TimerKept
  BY DEF Init, TimerKept, Present, Range
<1> QED
  BY <1>1, TypesInit, TypesStep, TimerStep, PTL DEF Spec
=============================================================================
