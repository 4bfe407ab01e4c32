------------------------------ MODULE Equeue ------------------------------
(***************************************************************************)
(* A guest event queue: EqueueInternal of kernel/equeue.h and equeue.cpp.  *)
(* Guest threads, the video output and the graphics driver trigger events; *)
(* the timer service triggers and reschedules timer events from its        *)
(* callbacks; guest threads wait.  Everything but a poll runs under        *)
(* m_mutex, and nothing blocks there, so a region is one step; what lies   *)
(* between two regions of the same call is a state.                        *)
(***************************************************************************)
EXTENDS Lists, FiniteSets, SequencesExt

CONSTANTS Waiter,      \* guest threads that wait on the queue
          Poller,      \* those that poll it as well
          Event,       \* the identities of events: (ident, filter)
          Filter,      \* [Event -> its filter]
          Adds,        \* [Event -> the sets of flags that callers add it with]
          SmallTimer,  \* identities of HR timers below the spin threshold
          NoEvent,
          Nums,        \* the numbers of events a caller has room for
          MaxEvents,   \* bound: events in the queue at a time
          MaxCalls     \* bound: calls of other threads between two regions,
                       \* and timer handlers that are queued

Flag == {"Clear", "OneShot"}

(* "Other" stands for GraphicsCore and VideoOut, which the queue treats     *)
(* alike.  posix_kevent hands any flags of its caller on to AddEvent, for   *)
(* every filter; the sceKernel calls add Timer events with none, HrTimer    *)
(* events with OneShot, and User events with none or with Clear.            *)
ASSUME EqueueAssumption ==
  /\ Filter \in [Event -> {"User", "Timer", "HrTimer", "Other"}]
  /\ Adds \in [Event -> SUBSET SUBSET Flag]
  /\ IsFiniteSet(Waiter) /\ Poller \subseteq Waiter
  /\ NoEvent \notin Event
  /\ Nums \subseteq Nat \ {0}
  /\ MaxEvents \in Nat /\ MaxCalls \in Nat

Timers == {e \in Event : Filter[e] \in {"Timer", "HrTimer"}}

VARIABLES
  m_events,        \* the events of the queue, in order
  is_triggered,    \* those that are triggered
  flags,           \* their Clear and OneShot flags; none outside the queue
  timer,           \* [Timers -> its steady_timer: "none", "idle", "pending"]
  m_small_timers,  \* the small timers of the queue
  handlers,        \* expired waits whose handler has not run
  io,              \* the timer service: the handler it runs, and how far
  adding,          \* [Timers -> AddEvent calls that have yet to schedule it]
  notifying,       \* TriggerEvent calls that have yet to notify m_cond
  pc,              \* [Waiter -> where it is]
  copied,          \* what a poll has copied and not cleared yet
  masked,          \* history: events left behind a level event
  fired            \* history: HrTimers added without OneShot whose time came

eventVars  == <<m_events, is_triggered, flags, timer, fired>>
queueVars  == <<eventVars, m_small_timers>>
callVars   == <<adding, notifying>>
timerVars  == <<handlers, io>>
waitVars   == <<pc, copied>>
vars == <<queueVars, callVars, timerVars, waitVars, masked>>

(* OneShot events are erased when a wait takes them; the events that have   *)
(* neither flag stay triggered for ever.                                    *)
OneShots == {e \in Event : "OneShot" \in flags[e]}
Levels   == {e \in Event : flags[e] = {}}

Idle == [at |-> "idle", ev |-> NoEvent, once |-> FALSE]

Init ==
  /\ m_events = <<>> /\ is_triggered = {} /\ m_small_timers = {}
  /\ flags = [e \in Event |-> {}]
  /\ timer = [e \in Timers |-> "none"]
  /\ handlers = <<>> /\ io = Idle
  /\ adding = [e \in Timers |-> 0] /\ notifying = 0
  /\ pc = [w \in Waiter |-> "idle"]
  /\ copied = [w \in Waiter |-> {}]
  /\ masked = {} /\ fired = {}

Present(e) == e \in Range(m_events)

Calls == notifying + FoldSet(LAMBDA e, k : k + adding[e], 0, Timers)

-----------------------------------------------------------------------------
(* AddEvent: a duplicate keeps its flags, its trigger and its timer; a new  *)
(* event other than a User one gets Clear besides the flags of its caller,  *)
(* and a new timer event is scheduled in a second region.                   *)
AddEvent(e) ==
  /\ IF Present(e)
     THEN UNCHANGED <<m_events, flags, adding>>
     ELSE /\ Len(m_events) < MaxEvents
          /\ m_events' = Append(m_events, e)
          /\ \E given \in Adds[e] :
               flags' = [flags EXCEPT ![e] =
                           given \cup (IF Filter[e] = "User" THEN {} ELSE {"Clear"})]
          /\ IF e \in Timers
             THEN /\ Calls < MaxCalls
                  /\ adding' = [adding EXCEPT ![e] = @ + 1]
             ELSE UNCHANGED adding
  /\ UNCHANGED <<is_triggered, timer, fired, m_small_timers, notifying, timerVars,
                 waitVars, masked>>

(* Slip: the timer is only started when it is made.                         *)
Schedule_Once(e) ==
  timer' = IF Present(e) /\ timer[e] = "none"
           THEN [timer EXCEPT ![e] = "pending"] ELSE timer

(* ScheduleEvent makes the timer, or moves its expiry, which cancels the    *)
(* wait that was pending; a handler already queued is not recalled.         *)
Schedule(e) ==
  timer' = IF Present(e) THEN [timer EXCEPT ![e] = "pending"] ELSE timer

AddSchedules(e) ==
  /\ adding[e] > 0
  /\ adding' = [adding EXCEPT ![e] = @ - 1]
  /\ Schedule(e)
  /\ UNCHANGED <<m_events, is_triggered, flags, fired, m_small_timers, notifying,
                 timerVars, waitVars, masked>>

(* Erasing the event destroys its timer. *)
Erase(S) ==
  /\ m_events' = Filtered(m_events, Event \ S)
  /\ flags' = [e \in Event |-> IF e \in S THEN {} ELSE flags[e]]
  /\ fired' = fired \ S
  /\ timer' = [e \in Timers |-> IF e \in S THEN "none" ELSE timer[e]]

RemoveEvent(e) ==
  /\ Present(e)
  /\ Erase({e})
  /\ is_triggered' = is_triggered \ {e}
  /\ masked' = masked \ {e}
  /\ UNCHANGED <<m_small_timers, callVars, timerVars, waitVars>>

-----------------------------------------------------------------------------
(* TriggerEvent: the region, then the notification, whether or not the      *)
(* event was found.                                                         *)
Mark(e) ==
  /\ is_triggered' = IF Present(e) THEN is_triggered \cup {e} ELSE is_triggered
  /\ masked' = masked \ {e}

TriggerEvent(e) ==
  /\ e \notin Timers
  /\ Calls < MaxCalls
  /\ Mark(e)
  /\ notifying' = notifying + 1
  /\ UNCHANGED <<m_events, flags, timer, fired, m_small_timers, adding, timerVars,
                 waitVars>>

Asleep == {w \in Waiter : pc[w] = "asleep"}

NotifyOne ==
  IF Asleep = {} THEN UNCHANGED pc
  ELSE \E w \in Asleep : pc' = [pc EXCEPT ![w] = "woken"]

Notify ==
  /\ notifying > 0
  /\ notifying' = notifying - 1
  /\ NotifyOne
  /\ UNCHANGED <<queueVars, adding, timerVars, copied, masked>>

-----------------------------------------------------------------------------
(* The timer service: one thread runs the handlers.                         *)

(* The handler keeps the flags that the event had when it was scheduled,    *)
(* which are those it has now: the wait ends with the event.                *)
Expire(e) ==
  /\ timer[e] = "pending"
  /\ Len(handlers) < MaxCalls
  /\ timer' = [timer EXCEPT ![e] = "idle"]
  /\ handlers' = Append(handlers, [ev |-> e, once |-> e \in OneShots])
  /\ UNCHANGED <<m_events, is_triggered, flags, fired, m_small_timers, callVars, io,
                 waitVars, masked>>

(* TimerCallback asks whether the event exists, triggers it, and schedules  *)
(* it again unless it was OneShot, in three regions; HrTimerCallback only   *)
(* triggers, whatever the flags.                                            *)
Callback ==
  /\ io = Idle /\ handlers # <<>>
  /\ LET h == Head(handlers) IN
       io' = IF Filter[h.ev] = "HrTimer" \/ Present(h.ev)
             THEN [at |-> "trigger", ev |-> h.ev, once |-> h.once] ELSE Idle
  /\ handlers' = Tail(handlers)
  /\ UNCHANGED <<queueVars, callVars, waitVars, masked>>

(* HrTimers that stay in the queue when they have fired. *)
Lingering == {e \in Timers : Filter[e] = "HrTimer"} \ OneShots

CallbackTriggers ==
  /\ io.at = "trigger"
  /\ Mark(io.ev)
  /\ fired' = IF Present(io.ev) THEN fired \cup ({io.ev} \cap Lingering) ELSE fired
  /\ io' = [io EXCEPT !.at = "notify"]
  /\ UNCHANGED <<m_events, flags, timer, m_small_timers, callVars, handlers, waitVars>>

CallbackNotifies ==
  /\ io.at = "notify"
  /\ NotifyOne
  /\ io' = IF Filter[io.ev] = "Timer" /\ ~io.once
           THEN [io EXCEPT !.at = "schedule"] ELSE Idle
  /\ UNCHANGED <<queueVars, callVars, handlers, copied, masked>>

CallbackSchedules ==
  /\ io.at = "schedule"
  /\ Schedule(io.ev)
  /\ io' = Idle
  /\ UNCHANGED <<m_events, is_triggered, flags, fired, m_small_timers, callVars,
                 handlers, waitVars, masked>>

-----------------------------------------------------------------------------
(* GetTriggeredEvents: the first n triggered events, in order.              *)
Triggered(n) ==
  LET s == Filtered(m_events, is_triggered)
  IN {s[i] : i \in {k \in DOMAIN s : k <= n}}

(* History: the events that find no room because a level event has it, or   *)
(* one that was itself left behind so.                                      *)
PassedOver(S) ==
  IF S \cap (Levels \cup masked) = {} THEN {} ELSE is_triggered \ (S \cup Levels)

(* Of the events it gives out those with Clear are cleared, and those with  *)
(* OneShot are erased.                                                      *)
Clear(S, left) ==
  /\ is_triggered' = is_triggered \ (S \ Levels)
  /\ Erase(S \cap OneShots)
  /\ masked' = (masked \cup left) \ S

(* A waiter's room only matters when it takes, and is chosen then.          *)
TakeSome == \E n \in Nums : Clear(Triggered(n), PassedOver(Triggered(n)))

(* WaitForEvents with a null or a non-zero timeout looks for small timers   *)
(* first, in a region of its own.                                           *)
Wait(w) ==
  /\ pc[w] = "idle"
  /\ pc' = [pc EXCEPT ![w] = IF m_small_timers # {} THEN "spin" ELSE "wait"]
  /\ UNCHANGED <<queueVars, callVars, timerVars, copied, masked>>

Return(w) == pc' = [pc EXCEPT ![w] = "idle"]

(* Slip: the caller sleeps before it has looked.                            *)
Predicate_SleepsFirst(w) ==
  /\ pc[w] \in {"wait", "woken"}
  /\ IF pc[w] = "wait" \/ is_triggered = {}
     THEN /\ pc' = [pc EXCEPT ![w] = "asleep"]
          /\ UNCHANGED <<eventVars, masked>>
     ELSE TakeSome /\ Return(w)
  /\ UNCHANGED <<m_small_timers, callVars, timerVars, copied>>

(* m_cond.wait(lock, predicate): the predicate is tried before the first    *)
(* sleep and after each wake, and takes what it finds.                      *)
Predicate(w) ==
  /\ pc[w] \in {"wait", "woken"}
  /\ IF is_triggered = {}
     THEN /\ pc' = [pc EXCEPT ![w] = "asleep"]
          /\ UNCHANGED <<eventVars, masked>>
     ELSE TakeSome /\ Return(w)
  /\ UNCHANGED <<m_small_timers, callVars, timerVars, copied>>

(* A wait_for whose time is up tries the predicate once more; a notified    *)
(* one may find its time up as well.  Any wait may be one with a timeout.   *)
Timeout(w) ==
  /\ pc[w] \in {"asleep", "woken"}
  /\ TakeSome
  /\ Return(w)
  /\ UNCHANGED <<m_small_timers, callVars, timerVars, copied>>

(* A poll runs GetTriggeredEvents without m_mutex: an event can be          *)
(* triggered between its copy and its Clear.                                *)
Poll(w) ==
  /\ pc[w] = "idle"
  /\ \E n \in Nums : /\ copied' = [copied EXCEPT ![w] = Triggered(n)]
                     /\ masked' = masked \cup PassedOver(Triggered(n))
  /\ pc' = [pc EXCEPT ![w] = "poll"]
  /\ UNCHANGED <<queueVars, callVars, timerVars>>

PollClear(w) ==
  /\ pc[w] = "poll"
  /\ Clear(copied[w], {})
  /\ copied' = [copied EXCEPT ![w] = {}]
  /\ pc' = [pc EXCEPT ![w] = "idle"]
  /\ UNCHANGED <<m_small_timers, callVars, timerVars>>

-----------------------------------------------------------------------------
(* Small timers: set, deleted, or taken by a spinning waiter once elapsed.  *)

AddSmallTimer(i) ==
  /\ m_small_timers' = m_small_timers \cup {i}
  /\ UNCHANGED <<eventVars, callVars, timerVars, waitVars, masked>>

RemoveSmallTimer(i) ==
  /\ i \in m_small_timers
  /\ m_small_timers' = m_small_timers \ {i}
  /\ UNCHANGED <<eventVars, callVars, timerVars, waitVars, masked>>

(* The spin ends with timers that have elapsed, as many as there is room    *)
(* for, or when the caller's time is up; it never looks at m_events.        *)
SpinTakes(w) ==
  /\ pc[w] = "spin"
  /\ \E S \in SUBSET m_small_timers \ {{}} :
       /\ \E n \in Nums : Cardinality(S) <= n
       /\ m_small_timers' = m_small_timers \ S
  /\ Return(w)
  /\ UNCHANGED <<eventVars, callVars, timerVars, copied, masked>>

SpinTimeout(w) ==
  /\ pc[w] = "spin"
  /\ Return(w)
  /\ UNCHANGED <<queueVars, callVars, timerVars, copied, masked>>

-----------------------------------------------------------------------------
Next ==
  \/ \E e \in Event : AddEvent(e) \/ RemoveEvent(e) \/ TriggerEvent(e)
  \/ \E e \in Timers : AddSchedules(e) \/ Expire(e)
  \/ Notify
  \/ Callback \/ CallbackTriggers \/ CallbackNotifies \/ CallbackSchedules
  \/ \E w \in Poller : Poll(w) \/ PollClear(w)
  \/ \E w \in Waiter : \/ Wait(w) \/ Predicate(w) \/ Timeout(w)
                       \/ SpinTakes(w) \/ SpinTimeout(w)
  \/ \E i \in SmallTimer : AddSmallTimer(i) \/ RemoveSmallTimer(i)

Spec == Init /\ [][Next]_vars

-----------------------------------------------------------------------------
(* What is triggered and owes its wake to nobody else. *)
Owed == is_triggered \ (Levels \cup masked)

(* The notifications under way: TriggerEvent notifies after it has given    *)
(* the mutex back, and a notified waiter has still to take the mutex.       *)
Wakes == notifying + (IF io.at = "notify" THEN 1 ELSE 0)
         + Cardinality({w \in Waiter : pc[w] = "woken"})

(* notify_one wakes one waiter for one trigger and is never too few: while  *)
(* a waiter sleeps, every triggered event has a wake of its own under way,  *)
(* although triggers coalesce and waits take several events or only one     *)
(* (TriggerEvent, WaitForEvents).  Not so for a level event, which stays    *)
(* triggered for the others, nor for what a full wait left behind one, or   *)
(* behind an event that was left behind before.                             *)
NoStrandedWaiter == Asleep # {} => Cardinality(Owed) <= Wakes

(* A handler of the event that will keep it going: a Timer event needs one  *)
(* that schedules it again or, if it is OneShot, one that still triggers.   *)
HandlerDue(e) ==
  \/ \E h \in Range(handlers) : h.ev = e /\ (h.once => e \in OneShots)
  \/ io.ev = e /\ io.at = "trigger" /\ (io.once => e \in OneShots)
  \/ io.ev = e /\ Filter[e] = "Timer" /\ ~io.once

(* A timer event in the queue never falls silent: its wait is pending, or   *)
(* a handler is due that will still find it, or the AddEvent that made it   *)
(* is about to schedule it.  Two kinds need none of these once their time   *)
(* has come: a OneShot event that waits to be collected, and an HrTimer     *)
(* that posix_kevent added without OneShot, which stays in the queue and    *)
(* which HrTimerCallback never starts again (AddEvent, ScheduleEvent and    *)
(* the callbacks, against RemoveEvent and AddEvent of the same identity,    *)
(* with other flags perhaps).                                               *)
TimerKept ==
  \A e \in Timers : Present(e) =>
    \/ timer[e] = "pending" \/ adding[e] > 0
    \/ timer[e] = "idle" /\ HandlerDue(e)
    \/ e \in OneShots /\ e \in is_triggered
    \/ e \in Lingering /\ e \in fired
=============================================================================
