------------------------------ MODULE Monitor ------------------------------
(***************************************************************************)
(* What mutexes and condition variables promise a client, with no locks,   *)
(* queues or semaphores: a mutex has an owner and a depth, a wait gives it *)
(* up and becomes a waiter in one step, a signal moves one waiter on and a *)
(* broadcast all of them, a waiter not yet signalled may time out, and     *)
(* either way it gets its mutex back at the old depth before it returns.   *)
(***************************************************************************)
EXTENDS Integers

CONSTANTS Thread, Mutex, Cond, NoThread

VARIABLES owner,    \* [Mutex -> the thread that has it, or NoThread]
          level,    \* [Mutex -> how often its owner has locked it]
          phase     \* [Thread -> where the thread is]

mvars == <<owner, level, phase>>

Running == [at |-> "running"]
Waiter(at, c, m, n) == [at |-> at, cond |-> c, mutex |-> m, level |-> n]

MonitorInit ==
  /\ owner = [m \in Mutex |-> NoThread]
  /\ level = [m \in Mutex |-> 0]
  /\ phase = [t \in Thread |-> Running]

Lock(t, m) ==
  /\ phase[t] = Running
  /\ owner[m] \in {NoThread, t}
  /\ owner' = [owner EXCEPT ![m] = t]
  /\ level' = [level EXCEPT ![m] = @ + 1]
  /\ UNCHANGED phase

Unlock(t, m) ==
  /\ phase[t] = Running
  /\ owner[m] = t
  /\ owner' = [owner EXCEPT ![m] = IF level[m] = 1 THEN NoThread ELSE t]
  /\ level' = [level EXCEPT ![m] = @ - 1]
  /\ UNCHANGED phase

Wait(t, c, m) ==
  /\ phase[t] = Running
  /\ owner[m] = t
  /\ owner' = [owner EXCEPT ![m] = NoThread]
  /\ level' = [level EXCEPT ![m] = 0]
  /\ phase' = [phase EXCEPT ![t] = Waiter("waiting", c, m, level[m])]

WaitersOf(c) == {t \in Thread : phase[t].at = "waiting" /\ phase[t].cond = c}

Woken(t) == [phase[t] EXCEPT !.at = "signalled"]

Signal(c) ==
  /\ \E w \in WaitersOf(c) : phase' = [phase EXCEPT ![w] = Woken(w)]
  /\ UNCHANGED <<owner, level>>

Broadcast(c) ==
  /\ WaitersOf(c) # {}
  /\ phase' = [t \in Thread |-> IF t \in WaitersOf(c) THEN Woken(t) ELSE phase[t]]
  /\ UNCHANGED <<owner, level>>

TimeOut(t) ==
  /\ phase[t].at = "waiting"
  /\ phase' = [phase EXCEPT ![t].at = "timedout"]
  /\ UNCHANGED <<owner, level>>

Resume(t) ==
  /\ phase[t].at \in {"signalled", "timedout"}
  /\ owner[phase[t].mutex] = NoThread
  /\ owner' = [owner EXCEPT ![phase[t].mutex] = t]
  /\ level' = [level EXCEPT ![phase[t].mutex] = phase[t].level]
  /\ phase' = [phase EXCEPT ![t] = Running]

MonitorNext ==
  \/ \E t \in Thread, m \in Mutex : Lock(t, m) \/ Unlock(t, m)
  \/ \E t \in Thread, c \in Cond, m \in Mutex : Wait(t, c, m)
  \/ \E c \in Cond : Signal(c) \/ Broadcast(c)
  \/ \E t \in Thread : TimeOut(t) \/ Resume(t)

MonitorSpec == MonitorInit /\ [][MonitorNext]_mvars

=============================================================================
