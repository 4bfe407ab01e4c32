------------------------------- MODULE Sleepq -------------------------------
(***************************************************************************)
(* The sleep queues of threads/sleepq.cpp.  Every thread is created with   *)
(* one SleepQueue object.  It lends the object to the channel it waits on: *)
(* the first waiter's object becomes the channel's queue, the others go to *)
(* that queue's free list, and each thread that leaves takes one object    *)
(* away, in general not the one it brought.  The caller holds the lock of  *)
(* the channel's chain, so each operation is one step.                     *)
(***************************************************************************)
EXTENDS Integers, Sequences, SequencesExt

CONSTANTS Thread, Channel, NoThread, NoChannel

VARIABLES
  sc_queue,     \* [Channel -> the queue object in use], named by the thread it
                \* was created for; NoThread when the chain has no queue for it
  sq_blocked,   \* [Channel -> the waiting threads], newest first
  sq_freeq,     \* [Channel -> the spare queue objects]
  sleepqueue,   \* [Thread -> the object the thread has, or NoThread]
  wchan         \* [Thread -> the channel it waits on, or NoChannel]

sleepqVars == <<sc_queue, sq_blocked, sq_freeq, sleepqueue, wchan>>

SleepqInit ==
  /\ sc_queue = [c \in Channel |-> NoThread]
  /\ sq_blocked = [c \in Channel |-> <<>>]
  /\ sq_freeq = [c \in Channel |-> <<>>]
  /\ sleepqueue = [t \in Thread |-> t]
  /\ wchan = [t \in Thread |-> NoChannel]

SleepqAdd(c, td) ==
  /\ IF sc_queue[c] # NoThread
     THEN /\ sq_freeq' = [sq_freeq EXCEPT ![c] = <<sleepqueue[td]>> \o @]
          /\ UNCHANGED sc_queue
     ELSE /\ sc_queue' = [sc_queue EXCEPT ![c] = sleepqueue[td]]
          /\ UNCHANGED sq_freeq
  /\ sleepqueue' = [sleepqueue EXCEPT ![td] = NoThread]
  /\ wchan' = [wchan EXCEPT ![td] = c]
  /\ sq_blocked' = [sq_blocked EXCEPT ![c] = <<td>> \o @]

(* Whether SleepqRemove leaves somebody in the queue: what it returns.     *)
OthersWait(c, td) == RemoveFirst(sq_blocked[c], td) # <<>>

SleepqRemove(c, td) ==
  /\ sq_blocked' = [sq_blocked EXCEPT ![c] = RemoveFirst(@, td)]
  /\ IF OthersWait(c, td)
     THEN /\ sleepqueue' = [sleepqueue EXCEPT ![td] = Head(sq_freeq[c])]
          /\ sq_freeq' = [sq_freeq EXCEPT ![c] = Tail(@)]
          /\ UNCHANGED sc_queue
     ELSE /\ sleepqueue' = [sleepqueue EXCEPT ![td] = sc_queue[c]]
          /\ sc_queue' = [sc_queue EXCEPT ![c] = NoThread]
          /\ UNCHANGED sq_freeq
  /\ wchan' = [wchan EXCEPT ![td] = NoChannel]

(* Slip: the iterator over the spare objects is not advanced.              *)
SleepqDrop_SameObject(c) ==
  LET out == Range(sq_blocked[c])
  IN  /\ sleepqueue' = [t \in Thread |-> IF t \in out THEN sc_queue[c]
                                                      ELSE sleepqueue[t]]
      /\ wchan' = [t \in Thread |-> IF t \in out THEN NoChannel ELSE wchan[t]]
      /\ sc_queue' = [sc_queue EXCEPT ![c] = NoThread]
      /\ sq_blocked' = [sq_blocked EXCEPT ![c] = <<>>]
      /\ sq_freeq' = [sq_freeq EXCEPT ![c] = <<>>]

(* Everybody leaves: the first waiter takes the queue itself, the next     *)
(* ones the spare objects in their order.                                  *)
SleepqDrop(c) ==
  LET b      == sq_blocked[c]
      obj    == <<sc_queue[c]>> \o sq_freeq[c]
      pos(t) == CHOOSE i \in 1 .. Len(b) : b[i] = t
      out    == Range(b)
  IN  /\ sleepqueue' = [t \in Thread |-> IF t \in out THEN obj[pos(t)]
                                                      ELSE sleepqueue[t]]
      /\ wchan' = [t \in Thread |-> IF t \in out THEN NoChannel ELSE wchan[t]]
      /\ sc_queue' = [sc_queue EXCEPT ![c] = NoThread]
      /\ sq_blocked' = [sq_blocked EXCEPT ![c] = <<>>]
      /\ sq_freeq' = [sq_freeq EXCEPT ![c] = <<>>]

(* The callers: condvar.cpp adds a thread that waits nowhere, removes one  *)
(* that waits on the channel, and drops a queue that exists.               *)
SleepqNext ==
  \E c \in Channel :
    \/ \E td \in Thread : wchan[td] = NoChannel /\ SleepqAdd(c, td)
    \/ \E td \in Thread : wchan[td] = c /\ SleepqRemove(c, td)
    \/ sc_queue[c] # NoThread /\ SleepqDrop(c)

SleepqSpec == SleepqInit /\ [][SleepqNext]_sleepqVars

-----------------------------------------------------------------------------
Distinct(s) == \A i, j \in DOMAIN s : s[i] = s[j] => i = j

SleepqTypeOK ==
  /\ sc_queue \in [Channel -> Thread \cup {NoThread}]
  /\ sq_blocked \in [Channel -> Seq(Thread)]
  /\ sq_freeq \in [Channel -> Seq(Thread)]
  /\ sleepqueue \in [Thread -> Thread \cup {NoThread}]
  /\ wchan \in [Thread -> Channel \cup {NoChannel}]

(* A thread is in a channel's queue, once, exactly while its wchan names   *)
(* that channel; condvar.cpp reads wchan alone to learn whether it has     *)
(* been signalled.                                                         *)
WchanMatchesQueue ==
  \A c \in Channel :
    /\ Distinct(sq_blocked[c])
    /\ \A t \in Thread : wchan[t] = c <=> t \in Range(sq_blocked[c])

(* A queue with n waiters owns n objects, the one in use and n - 1 spare:  *)
(* front() of the free list is never taken from an empty list, and a       *)
(* channel has a queue exactly when somebody waits.                        *)
ObjectPerWaiter ==
  \A c \in Channel :
    /\ sc_queue[c] = NoThread <=> sq_blocked[c] = <<>>
    /\ sq_blocked[c] # <<>> => Len(sq_blocked[c]) = Len(sq_freeq[c]) + 1
    /\ sq_blocked[c] = <<>> => sq_freeq[c] = <<>>

(* No object is in two places: a thread that waits nowhere has one, and    *)
(* nobody else, and no channel, has the same.                              *)
ObjectsUnshared ==
  /\ \A t \in Thread : wchan[t] = NoChannel <=> sleepqueue[t] # NoThread
  /\ \A t, u \in Thread :
       sleepqueue[t] = sleepqueue[u] /\ sleepqueue[t] # NoThread => t = u
  /\ \A c \in Channel :
       LET objs == <<sc_queue[c]>> \o sq_freeq[c]
       IN  sc_queue[c] # NoThread =>
             /\ Distinct(objs)
             /\ \A t \in Thread : sleepqueue[t] \notin Range(objs)
             /\ \A d \in Channel \ {c} :
                  Range(objs) \cap Range(<<sc_queue[d]>> \o sq_freeq[d])
                    = {}

(* No object is lost or made, however the queues fill and empty: what the  *)
(* lists of spare objects, the queues and the threads have adds up.        *)
ObjectsAccounted == ObjectPerWaiter /\ ObjectsUnshared

=============================================================================
