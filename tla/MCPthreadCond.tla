--------------------------- MODULE MCPthreadCond ---------------------------
EXTENDS PthreadCond, TLC

CONSTANTS t1, t2, t3, m1, m2, c1, c2, h1

MCErrorCheck == [m \in Mutex |-> "ErrorCheck"]
MCRecursive == [m \in Mutex |-> "Recursive"]
MCHash == [c \in Cond |-> h1]
MCAllTimed == [t \in Thread |-> {"wait", "timedwait"}]
MCTwoTimed == [t \in Thread |-> IF t = t3 THEN {"wait"} ELSE {"wait", "timedwait"}]
MCUntimed  == [t \in Thread |-> {"wait"}]
MCSymmetry == Permutations({t1, t2})
MCSymmetryAll == Permutations(Thread) \cup Permutations(Mutex) \cup Permutations(Cond)

(* Which SleepQueue object is where decides nothing (a channel has one     *)
(* exactly when somebody waits), so states that differ only in that are    *)
(* taken for one in the runs that say nothing about the objects.           *)
MCView == <<vars, sc_lock, has_user_waiters, mutex_obj, frame, drop, waddrs,
            sq_blocked, wchan>>

(* The bound on stale tokens.                                              *)
MCTokens == \A t \in Thread : wake_sema[t] <= 1

=============================================================================
