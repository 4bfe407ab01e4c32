----------------------------- MODULE MCOrbisSem -----------------------------
EXTENDS OrbisSem, TLC

CONSTANTS t1, t2, t3, MaxSupply

MCSymmetry == Permutations(Thread)
MCSetCounts == {-1, MaxCount}

(* How many tokens are put in, and how far Cancel may take the sum down.   *)
MCSupply == supplied \in -1 .. MaxSupply

(* The parts of the state that a step can still read: a thread outside a   *)
(* wait has no WaitingThread, and what it was left in *timeout is its own. *)
Waiting(f) == [t \in Thread |-> IF pc[t] \in {"wait", "relock"} THEN f[t] ELSE 0]
MCView == <<objectVars, Waiting(need_count), Waiting(priority), Waiting(flags),
            Waiting(sem), Waiting(timed), Waiting(timeout), Waiting(elapsed), pc,
            historyVars>>
=============================================================================
