----------------------------- MODULE EventFlag -----------------------------
(***************************************************************************)
(* The event flag of threads/event_flag.cpp: a pattern of bits under a     *)
(* mutex, with one condition variable for everybody who waits.  The mutex  *)
(* is given up only inside the wait of the condition variable and between  *)
(* two looks of a spinning Set, Clear or Cancel, so what happens between   *)
(* those points is one step.                                               *)
(***************************************************************************)
EXTENDS Naturals, FiniteSets

CONSTANTS Thread,
          Bit,          \* the bits of a pattern
          Requests,     \* what the clients wait for, see Request
          SetMasks,     \* the patterns clients hand to Set and Cancel,
          ClearMasks    \* and to Clear

Patterns == SUBSET Bit

(* The arguments of a Wait.  Poll is a Wait with a timeout of zero.        *)
Request == [bits : Patterns \ {{}}, wait_mode : {"And", "Or"},
            clear_mode : {"None", "All", "Bits"}, timed : BOOLEAN]

ASSUME EventFlagAssumption ==
  /\ IsFiniteSet(Thread)
  /\ Requests \subseteq Request
  /\ SetMasks \subseteq Patterns /\ ClearMasks \subseteq Patterns

VARIABLES
  m_thread_mode, m_status, m_bits, m_waiting_threads,   \* EventFlagInternal
  pc, arg,            \* the call a thread is in; the pattern of Set, Clear, Cancel
  request, notified,  \* what it waits for; whether m_cond_var woke it
  cancelled, pattern  \* history: who a Cancel found waiting, its setPattern

flagVars == <<m_thread_mode, m_status, m_bits, m_waiting_threads>>
waitVars == <<request, notified, cancelled>>
vars     == <<flagVars, pc, arg, waitVars, pattern>>

NoRequest == [bits |-> {}, wait_mode |-> "And", clear_mode |-> "None", timed |-> FALSE]

Goto(t, label) == pc' = [pc EXCEPT ![t] = label]

Init ==
  /\ m_thread_mode \in {"Single", "Multi"}
  /\ m_status = "Set"
  /\ m_bits \in Patterns
  /\ m_waiting_threads = 0
  /\ pc = [t \in Thread |-> "idle"]
  /\ arg = [t \in Thread |-> {}]
  /\ request = [t \in Thread |-> NoRequest]
  /\ notified = [t \in Thread |-> FALSE]
  /\ cancelled = [t \in Thread |-> FALSE]
  /\ pattern = {}

-----------------------------------------------------------------------------
(* Wait and Poll *)

Waiters == {t \in Thread : pc[t] = "wait"}

(* The bits that the request asks for are there.                           *)
Met(r) == IF r.wait_mode = "And" THEN r.bits \subseteq m_bits
                                 ELSE r.bits \cap m_bits # {}

(* Slip: a wait that is cancelled sleeps on.                               *)
WaitFunc_IgnoresCancel(r) == Met(r)

WaitFunc(r) == m_status = "Canceled" \/ Met(r)

(* What a wait whose waitFunc held does to the bits: nothing when it       *)
(* answers ECANCELED.                                                      *)
Cleared(r) ==
  IF m_status = "Canceled" THEN m_bits
  ELSE CASE r.clear_mode = "None" -> m_bits
         [] r.clear_mode = "All"  -> {}
         [] r.clear_mode = "Bits" -> m_bits \ r.bits

(* A flag for a single waiter answers EPERM while there is one.            *)
Admits == m_thread_mode = "Multi" \/ m_waiting_threads = 0

(* The wait is over before it began.                                       *)
WaitAtOnce(t, r) ==
  /\ pc[t] = "idle"
  /\ Admits
  /\ WaitFunc(r)
  /\ m_bits' = Cleared(r)
  /\ UNCHANGED <<m_thread_mode, m_status, m_waiting_threads, pc, arg, waitVars, pattern>>

WaitSleep(t, r) ==
  /\ pc[t] = "idle"
  /\ Admits
  /\ ~WaitFunc(r)
  /\ m_waiting_threads' = m_waiting_threads + 1
  /\ request' = [request EXCEPT ![t] = r]
  /\ notified' = [notified EXCEPT ![t] = FALSE]
  /\ cancelled' = [cancelled EXCEPT ![t] = FALSE]
  /\ Goto(t, "wait")
  /\ UNCHANGED <<m_thread_mode, m_status, m_bits, arg, pattern>>

(* The thread leaves the wait.                                             *)
LeaveWait(t) ==
  /\ m_waiting_threads' = m_waiting_threads - 1
  /\ request' = [request EXCEPT ![t] = NoRequest]
  /\ notified' = [notified EXCEPT ![t] = FALSE]
  /\ cancelled' = [cancelled EXCEPT ![t] = FALSE]
  /\ Goto(t, "idle")
  /\ UNCHANGED <<m_thread_mode, m_status, arg, pattern>>

(* Woken, or at its deadline, the thread looks at the bits and at the      *)
(* status again.  (A spurious wakeup shows it nothing new: see             *)
(* NoStrandedWaiter.)                                                      *)
WaitDone(t) ==
  /\ pc[t] = "wait"
  /\ notified[t] \/ request[t].timed
  /\ WaitFunc(request[t])
  /\ m_bits' = Cleared(request[t])
  /\ LeaveWait(t)

(* Slips: the wait that timed out is still counted; it goes on to where    *)
(* the others are uncounted.                                               *)
WaitTimedOut_StaysCounted(t) ==
  /\ pc[t] = "wait"
  /\ request[t].timed
  /\ ~WaitFunc(request[t])
  /\ request' = [request EXCEPT ![t] = NoRequest]
  /\ notified' = [notified EXCEPT ![t] = FALSE]
  /\ cancelled' = [cancelled EXCEPT ![t] = FALSE]
  /\ Goto(t, "idle")
  /\ UNCHANGED <<flagVars, arg, pattern>>

WaitTimedOut_FallsThrough(t) ==
  /\ pc[t] = "wait"
  /\ request[t].timed
  /\ ~WaitFunc(request[t])
  /\ m_waiting_threads' = m_waiting_threads - 2
  /\ request' = [request EXCEPT ![t] = NoRequest]
  /\ notified' = [notified EXCEPT ![t] = FALSE]
  /\ cancelled' = [cancelled EXCEPT ![t] = FALSE]
  /\ Goto(t, "idle")
  /\ UNCHANGED <<m_thread_mode, m_status, m_bits, arg, pattern>>

WaitTimedOut(t) ==
  /\ pc[t] = "wait"
  /\ request[t].timed
  /\ ~WaitFunc(request[t])
  /\ LeaveWait(t)
  /\ UNCHANGED m_bits

WaitResumed(t) ==
  /\ pc[t] = "wait"
  /\ notified[t]
  /\ ~WaitFunc(request[t])
  /\ notified' = [notified EXCEPT ![t] = FALSE]
  /\ UNCHANGED <<flagVars, pc, arg, request, cancelled, pattern>>

-----------------------------------------------------------------------------
(* Set, Clear and Cancel *)

(* The call begins; it spins until it meets the status Set.                *)
Call(t, op, mask) ==
  /\ pc[t] = "idle"
  /\ arg' = [arg EXCEPT ![t] = mask]
  /\ Goto(t, op)
  /\ UNCHANGED <<flagVars, waitVars, pattern>>

(* Slip: only one waiter is notified.                                      *)
NotifyAll_One ==
  IF Waiters = {} THEN UNCHANGED notified
  ELSE \E t \in Waiters : notified' = [notified EXCEPT ![t] = TRUE]

NotifyAll == notified' = [t \in Thread |-> notified[t] \/ t \in Waiters]

(* Slip: the bits are set while a Cancel is under way.                     *)
Set_InCancel(t) ==
  /\ pc[t] = "set"
  /\ m_bits' = m_bits \cup arg[t]
  /\ NotifyAll
  /\ Goto(t, "idle")
  /\ arg' = [arg EXCEPT ![t] = {}]
  /\ UNCHANGED <<m_thread_mode, m_status, m_waiting_threads, request, cancelled, pattern>>

Set(t) ==
  /\ pc[t] = "set"
  /\ m_status = "Set"
  /\ m_bits' = m_bits \cup arg[t]
  /\ NotifyAll
  /\ Goto(t, "idle")
  /\ arg' = [arg EXCEPT ![t] = {}]
  /\ UNCHANGED <<m_thread_mode, m_status, m_waiting_threads, request, cancelled, pattern>>

(* Clear keeps the bits it is given.                                       *)
Clear(t) ==
  /\ pc[t] = "clear"
  /\ m_status = "Set"
  /\ m_bits' = m_bits \cap arg[t]
  /\ Goto(t, "idle")
  /\ arg' = [arg EXCEPT ![t] = {}]
  /\ UNCHANGED <<m_thread_mode, m_status, m_waiting_threads, waitVars, pattern>>

CancelBegin(t) ==
  /\ pc[t] = "cancel"
  /\ m_status = "Set"
  /\ m_status' = "Canceled"
  /\ m_bits' = arg[t]
  /\ NotifyAll
  /\ cancelled' = [u \in Thread |-> u \in Waiters]
  /\ pattern' = arg[t]
  /\ Goto(t, "cancelling")
  /\ UNCHANGED <<m_thread_mode, m_waiting_threads, arg, request>>

(* The spin until every waiter has left.                                   *)
CancelEnd(t) ==
  /\ pc[t] = "cancelling"
  /\ m_waiting_threads = 0
  /\ m_status' = "Set"
  /\ Goto(t, "idle")
  /\ arg' = [arg EXCEPT ![t] = {}]
  /\ UNCHANGED <<m_thread_mode, m_bits, m_waiting_threads, waitVars, pattern>>

-----------------------------------------------------------------------------
InCall(t) ==
  \/ WaitDone(t) \/ WaitTimedOut(t) \/ WaitResumed(t)
  \/ Set(t) \/ Clear(t) \/ CancelBegin(t) \/ CancelEnd(t)

FlagStep(t) ==
  \/ \E r \in Requests : WaitAtOnce(t, r) \/ WaitSleep(t, r)
  \/ \E mask \in SetMasks : Call(t, "set", mask) \/ Call(t, "cancel", mask)
  \/ \E mask \in ClearMasks : Call(t, "clear", mask)
  \/ InCall(t)

Next == \E t \in Thread : FlagStep(t)

Spec == Init /\ [][Next]_vars

(* Threads in calls are scheduled.  Nothing is assumed of the clients.     *)
FairSpec == Spec /\ \A t \in Thread : WF_vars(InCall(t))

-----------------------------------------------------------------------------
(* Every variable keeps its type.                                          *)
TypeOK ==
  /\ m_thread_mode \in {"Single", "Multi"}
  /\ m_status \in {"Set", "Canceled"}
  /\ m_bits \in Patterns /\ pattern \in Patterns
  /\ m_waiting_threads \in Nat
  /\ pc \in [Thread -> {"idle", "wait", "set", "clear", "cancel", "cancelling"}]
  /\ arg \in [Thread -> Patterns]
  /\ request \in [Thread -> Request \cup {NoRequest}]
  /\ notified \in [Thread -> BOOLEAN]
  /\ cancelled \in [Thread -> BOOLEAN]

(* m_waiting_threads, which Cancel reports and spins on and which admits a *)
(* single waiter, is the number of threads that wait, whichever way the    *)
(* others left; so a flag for a single waiter never has two.               *)
WaitersCounted ==
  /\ m_waiting_threads = Cardinality(Waiters)
  /\ m_thread_mode = "Single" => \A t, u \in Waiters : t = u

(* Nobody sleeps through what it waits for: a thread that was not notified *)
(* waits for bits that are not there, whatever was set, cleared, taken by  *)
(* other waiters and cancelled since it came.                              *)
NoStrandedWaiter ==
  \A t \in Waiters : WaitFunc(request[t]) => notified[t]

(* A Cancel reaches everybody it found waiting, and they report its        *)
(* pattern: the status and the bits stay as it set them until the last of  *)
(* them has left, also while Set, Clear and another Cancel want to go on.  *)
CancelReachesAll ==
  \A t \in Waiters : cancelled[t] => m_status = "Canceled" /\ m_bits = pattern

(* The spin of Cancel ends although new waits begin all the time: those    *)
(* that come while it spins are answered at once.                          *)
CancelReturns ==
  \A t \in Thread : pc[t] = "cancelling" ~> pc[t] = "idle"

=============================================================================
