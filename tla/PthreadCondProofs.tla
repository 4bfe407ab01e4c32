------------------------- MODULE PthreadCondProofs -------------------------
(* Proofs about PthreadCond, for any threads, mutexes, condition           *)
(* variables, hash function and room of the arrays. The invariant is built *)
(* in layers, each inductive over the ones before it; the last section     *)
(* shows that every step implements Monitor.                               *)
EXTENDS PthreadCond, ListLemmas

-----------------------------------------------------------------------------
(* The sleep queues.  Each channel's queue is in step with the wchan of    *)
(* its threads and with the objects that they lent to it.                  *)

(* The objects that the waiters of a channel have lent to it.              *)
Lent(c) == ({sc_queue[c]} \cup Range(sq_freeq[c])) \ {NoThread}

(* A thread is in the queue its wchan names, once.                         *)
QueuesOK ==
  \A c \in Cond :
    /\ Once(sq_blocked[c])
    /\ \A t \in Thread : wchan[t] = c <=> t \in Range(sq_blocked[c])

(* A channel has one object per waiter: its queue and the free list.       *)
ObjectsOK ==
  \A c \in Cond :
    /\ sc_queue[c] = NoThread <=> sq_blocked[c] = <<>>
    /\ sq_blocked[c] # <<>> => Len(sq_blocked[c]) = Len(sq_freeq[c]) + 1
    /\ sq_blocked[c] = <<>> => sq_freeq[c] = <<>>
    /\ sc_queue[c] \notin Range(sq_freeq[c]) /\ Once(sq_freeq[c])

(* A thread has its object exactly when it is in no queue, and no object   *)
(* is in two hands.                                                        *)
LendersOK ==
  /\ \A t \in Thread : wchan[t] = NoCond <=> sleepqueue[t] # NoThread
  /\ \A t, u \in Thread :
       sleepqueue[t] = sleepqueue[u] /\ sleepqueue[t] # NoThread => t = u
  /\ \A t \in Thread, c \in Cond : sleepqueue[t] \notin Lent(c)
  /\ \A c, d \in Cond : c # d => Lent(c) \cap Lent(d) = {}

SqInv == SleepqTypeOK /\ QueuesOK /\ ObjectsOK /\ LendersOK

(* SleepqInit: every queue is empty and every thread has its own sleep     *)
(* queue object.                                                           *)
LEMMA SqInit == SleepqInit => SqInv
<1> SUFFICES ASSUME SleepqInit PROVE SqInv
  OBVIOUS
<1>1. SleepqTypeOK
  BY DEF SleepqInit, SleepqTypeOK
<1>2. \A c \in Cond : /\ sc_queue[c] = NoThread /\ sq_blocked[c] = <<>>
                      /\ sq_freeq[c] = <<>> /\ Lent(c) = {}
  BY DEF SleepqInit, Lent, Range
<1>3. \A t \in Thread : wchan[t] = NoCond /\ sleepqueue[t] = t
  BY DEF SleepqInit
<1>4. QueuesOK
  BY <1>2, <1>3, CondAssumption DEF QueuesOK, Once, Range
<1>5. ObjectsOK
  BY <1>2 DEF ObjectsOK, Once, Range
<1>6. LendersOK
  BY <1>2, <1>3, MutexAssumption DEF LendersOK
<1> QED
  BY <1>1, <1>4, <1>5, <1>6 DEF SqInv

(* The objects that change hands: a thread lends the one it has.           *)
LEMMA LendersLend ==
  ASSUME LendersOK, NEW c \in Cond, NEW td \in Thread,
         sleepqueue \in [Thread -> Thread \cup {NoThread}],
         wchan \in [Thread -> Cond \cup {NoCond}],
         wchan[td] = NoCond,
         Lent(c)' = Lent(c) \cup {sleepqueue[td]},
         \A d \in Cond \ {c} : Lent(d)' = Lent(d),
         sleepqueue' = [sleepqueue EXCEPT ![td] = NoThread],
         wchan' = [wchan EXCEPT ![td] = c]
  PROVE  LendersOK'
<1>0. \A d \in Cond : NoThread \notin Lent(d)
  BY DEF Lent
<1>1. sleepqueue[td] # NoThread /\ \A d \in Cond : sleepqueue[td] \notin Lent(d)
  BY DEF LendersOK
<1>2. (\A t \in Thread : wchan[t] = NoCond <=> sleepqueue[t] # NoThread)'
  BY CondAssumption DEF LendersOK
<1>3. (\A t, u \in Thread :
         sleepqueue[t] = sleepqueue[u] /\ sleepqueue[t] # NoThread => t = u)'
  BY DEF LendersOK
<1>4. ASSUME NEW t \in Thread, NEW d \in Cond PROVE sleepqueue'[t] \notin Lent(d)'
  <2>1. CASE t = td
    BY <1>0, <1>1, <2>1
  <2>2. CASE t # td
    BY <1>1, <2>2 DEF LendersOK
  <2> QED
    BY <2>1, <2>2
<1>5. ASSUME NEW d \in Cond, NEW e \in Cond, d # e PROVE Lent(d)' \cap Lent(e)' = {}
  BY <1>1, <1>5 DEF LendersOK
<1> QED
  BY <1>2, <1>3, <1>4, <1>5 DEF LendersOK

(* A set of threads takes back as many objects of one channel.             *)
LEMMA LendersTake ==
  ASSUME LendersOK, NEW c \in Cond, NEW T \in SUBSET Thread,
         \A t \in T : wchan[t] = c /\ sleepqueue'[t] \in Lent(c),
         \A t, u \in T : sleepqueue'[t] = sleepqueue'[u] => t = u,
         \A t \in Thread \ T : sleepqueue'[t] = sleepqueue[t] /\ wchan'[t] = wchan[t],
         \A t \in T : wchan'[t] = NoCond,
         Lent(c)' = Lent(c) \ {sleepqueue'[t] : t \in T},
         \A d \in Cond \ {c} : Lent(d)' = Lent(d)
  PROVE  LendersOK'
<1>0. \A d \in Cond : NoThread \notin Lent(d)
  BY DEF Lent
<1>1. \A t \in T : sleepqueue'[t] # NoThread /\ \A u \in Thread : sleepqueue[u] # sleepqueue'[t]
  BY <1>0 DEF LendersOK
<1>2. (\A t \in Thread : wchan[t] = NoCond <=> sleepqueue[t] # NoThread)'
  BY <1>1 DEF LendersOK
<1>3. (\A t, u \in Thread :
         sleepqueue[t] = sleepqueue[u] /\ sleepqueue[t] # NoThread => t = u)'
  BY <1>1 DEF LendersOK
<1>4. ASSUME NEW t \in Thread, NEW d \in Cond PROVE sleepqueue'[t] \notin Lent(d)'
  <2>1. CASE t \in T /\ d = c
    BY <2>1
  <2>2. CASE t \in T /\ d # c
    BY <2>2 DEF LendersOK
  <2>3. CASE t \notin T
    BY <2>3 DEF LendersOK
  <2> QED
    BY <2>1, <2>2, <2>3
<1>5. ASSUME NEW d \in Cond, NEW e \in Cond, d # e PROVE Lent(d)' \cap Lent(e)' = {}
  BY <1>5 DEF LendersOK
<1> QED
  BY <1>2, <1>3, <1>4, <1>5 DEF LendersOK

(* SleepqAdd lends the thread's object to the channel, as its queue or on  *)
(* the free list of the queue that is there, and enters the thread in the  *)
(* queue.                                                                  *)
LEMMA AddKeeps ==
  ASSUME SqInv, NEW c \in Cond, NEW td \in Thread, wchan[td] = NoCond, SleepqAdd(c, td)
  PROVE  /\ SqInv'
         /\ wchan' = [wchan EXCEPT ![td] = c]
         /\ sq_blocked'[c] # <<>>
         /\ \A d \in Cond \ {c} : sq_blocked'[d] = sq_blocked[d]
<1> DEFINE e == sleepqueue[td]
<1>T. /\ sc_queue \in [Cond -> Thread \cup {NoThread}]
      /\ sq_blocked \in [Cond -> Seq(Thread)] /\ sq_freeq \in [Cond -> Seq(Thread)]
      /\ sleepqueue \in [Thread -> Thread \cup {NoThread}]
      /\ wchan \in [Thread -> Cond \cup {NoCond}]
  BY DEF SqInv, SleepqTypeOK
<1>1. e \in Thread /\ e \notin Lent(c)
  BY <1>T DEF SqInv, LendersOK
<1>2. /\ sleepqueue' = [sleepqueue EXCEPT ![td] = NoThread]
      /\ wchan' = [wchan EXCEPT ![td] = c]
      /\ sq_blocked' = [sq_blocked EXCEPT ![c] = <<td>> \o sq_blocked[c]]
  BY DEF SleepqAdd
<1> DEFINE b == sq_blocked[c]
           f == sq_freeq[c]
<1>3. /\ <<td>> \o b \in Seq(Thread) /\ Len(<<td>> \o b) = Len(b) + 1
      /\ Range(<<td>> \o b) = {td} \cup Range(b)
      /\ Once(<<td>> \o b) <=> td \notin Range(b) /\ Once(b)
  BY <1>T, ConsSeq
<1>4. /\ <<e>> \o f \in Seq(Thread) /\ Len(<<e>> \o f) = Len(f) + 1
      /\ Range(<<e>> \o f) = {e} \cup Range(f)
      /\ Once(<<e>> \o f) <=> e \notin Range(f) /\ Once(f)
  BY <1>T, <1>1, ConsSeq
<1>5. td \notin Range(b) /\ Once(b) /\ Once(f)
  BY CondAssumption DEF SqInv, QueuesOK, ObjectsOK
<1>6. QueuesOK'
  <2> SUFFICES ASSUME NEW d \in Cond
               PROVE  (Once(sq_blocked[d]))' /\ \A t \in Thread :
                        wchan'[t] = d <=> t \in Range(sq_blocked'[d])
    BY DEF QueuesOK
  <2>1. CASE d = c
    <3>1. sq_blocked'[d] = <<td>> \o b /\ \A t \in Thread : wchan'[t] = d <=> t = td \/ wchan[t] = c
      BY <1>T, <1>2, <2>1
    <3> HIDE DEF b
    <3>2. Once(<<td>> \o b) /\ \A t \in Thread : wchan[t] = c <=> t \in Range(b)
      BY <1>3, <1>5 DEF SqInv, QueuesOK, b
    <3> QED
      BY <1>3, <3>1, <3>2
  <2>2. CASE d # c
    <3>1. sq_blocked'[d] = sq_blocked[d]
      BY <1>T, <1>2, <2>2
    <3>2. \A t \in Thread : wchan'[t] = d <=> wchan[t] = d
      BY <1>T, <1>2, <2>2, CondAssumption
    <3> QED
      BY <3>1, <3>2 DEF SqInv, QueuesOK
  <2> QED
    BY <2>1, <2>2
<1>7. sq_blocked'[c] = <<td>> \o b /\ sq_blocked'[c] # <<>>
  BY <1>T, <1>2, <1>3
<1>8. ASSUME NEW d \in Cond \ {c}
      PROVE  sq_blocked'[d] = sq_blocked[d] /\ sc_queue'[d] = sc_queue[d]
             /\ sq_freeq'[d] = sq_freeq[d]
  BY <1>T, <1>2 DEF SleepqAdd
<1>9. /\ sc_queue'[c] # NoThread
      /\ Len(sq_blocked'[c]) = Len(sq_freeq'[c]) + 1
      /\ sc_queue'[c] \notin Range(sq_freeq'[c]) /\ Once(sq_freeq'[c])
      /\ Lent(c)' = Lent(c) \cup {e}
      /\ sc_queue' \in [Cond -> Thread \cup {NoThread}]
      /\ sq_freeq' \in [Cond -> Seq(Thread)]
  <2>1. CASE sc_queue[c] # NoThread
    <3>1. sc_queue' = sc_queue /\ sq_freeq' = [sq_freeq EXCEPT ![c] = <<e>> \o f]
      BY <2>1 DEF SleepqAdd
    <3>2. sq_freeq'[c] = <<e>> \o f /\ sc_queue'[c] = sc_queue[c]
          /\ sq_freeq' \in [Cond -> Seq(Thread)]
      BY <1>T, <1>4, <3>1
    <3>3. Len(b) = Len(f) + 1 /\ sc_queue[c] \notin Range(f)
      BY <2>1 DEF SqInv, ObjectsOK
    <3>4. e # sc_queue[c] /\ e \notin Range(f)
      BY <1>1, <2>1, MutexAssumption DEF Lent
    <3>5. Len(sq_blocked'[c]) = Len(sq_freeq'[c]) + 1
      BY <1>3, <1>4, <1>7, <3>2, <3>3
    <3>6. Lent(c)' = Lent(c) \cup {e}
      BY <1>1, <1>4, <3>2, MutexAssumption DEF Lent
    <3> QED
      BY <1>T, <1>4, <1>5, <2>1, <3>1, <3>2, <3>3, <3>4, <3>5, <3>6
  <2>2. CASE sc_queue[c] = NoThread
    <3>1. sc_queue' = [sc_queue EXCEPT ![c] = e] /\ sq_freeq' = sq_freeq
      BY <2>2 DEF SleepqAdd
    <3>2. b = <<>> /\ f = <<>> /\ Range(f) = {}
      BY <2>2 DEF SqInv, ObjectsOK, Range
    <3>3. sc_queue'[c] = e /\ sq_freeq'[c] = <<>> /\ Range(sq_freeq'[c]) = {}
      BY <1>T, <3>1, <3>2 DEF Range
    <3>4. Len(sq_blocked'[c]) = 1
      BY <1>3, <1>7, <3>2
    <3>5. Lent(c)' = {e} /\ Lent(c) = {}
      BY <1>1, <2>2, <3>2, <3>3, MutexAssumption DEF Lent
    <3>6. Once(sq_freeq'[c])
      BY <3>3 DEF Once
    <3> QED
      BY <1>T, <1>1, <3>1, <3>3, <3>4, <3>5, <3>6, MutexAssumption
  <2> QED
    BY <2>1, <2>2
<1>10. ObjectsOK'
  <2> SUFFICES ASSUME NEW d \in Cond
               PROVE  /\ sc_queue'[d] = NoThread <=> sq_blocked'[d] = <<>>
                      /\ sq_blocked'[d] # <<>> => Len(sq_blocked'[d]) = Len(sq_freeq'[d]) + 1
                      /\ sq_blocked'[d] = <<>> => sq_freeq'[d] = <<>>
                      /\ sc_queue'[d] \notin Range(sq_freeq'[d]) /\ (Once(sq_freeq[d]))'
    BY DEF ObjectsOK
  <2>1. CASE d = c
    BY <1>7, <1>9, <2>1
  <2>2. CASE d # c
    BY <1>8, <2>2 DEF SqInv, ObjectsOK
  <2> QED
    BY <2>1, <2>2
<1>11. LendersOK'
  <2>1. \A d \in Cond \ {c} : Lent(d)' = Lent(d)
    BY <1>8 DEF Lent
  <2> QED
    BY <1>T, <1>2, <1>9, <2>1, LendersLend DEF SqInv
<1>12. SleepqTypeOK'
  <2>1. sq_blocked' \in [Cond -> Seq(Thread)]
    BY <1>T, <1>2, <1>3
  <2>2. sleepqueue' \in [Thread -> Thread \cup {NoThread}]
        /\ wchan' \in [Thread -> Cond \cup {NoCond}]
    BY <1>T, <1>2
  <2> QED
    BY <1>9, <2>1, <2>2 DEF SleepqTypeOK
<1> QED
  BY <1>2, <1>6, <1>7, <1>8, <1>10, <1>11, <1>12 DEF SqInv

(* A thread leaves: its place in the queue goes, and one object with it.   *)
LEMMA RemoveKeeps ==
  ASSUME SqInv, NEW c \in Cond, NEW td \in Thread, wchan[td] = c, SleepqRemove(c, td)
  PROVE  /\ SqInv'
         /\ wchan' = [wchan EXCEPT ![td] = NoCond]
         /\ OthersWait(c, td) <=> sq_blocked'[c] # <<>>
         /\ \A d \in Cond \ {c} : sq_blocked'[d] = sq_blocked[d]
<1> DEFINE b == sq_blocked[c]
           f == sq_freeq[c]
           r == RemoveFirst(b, td)
           e == sleepqueue'[td]
<1>T. /\ sc_queue \in [Cond -> Thread \cup {NoThread}]
      /\ sq_blocked \in [Cond -> Seq(Thread)] /\ sq_freeq \in [Cond -> Seq(Thread)]
      /\ sleepqueue \in [Thread -> Thread \cup {NoThread}]
      /\ wchan \in [Thread -> Cond \cup {NoCond}]
  BY DEF SqInv, SleepqTypeOK
<1>1. b \in Seq(Thread) /\ td \in Range(b) /\ Once(b) /\ b # <<>>
  BY <1>T DEF SqInv, QueuesOK, Range
<1>2. r \in Seq(Thread) /\ Len(r) = Len(b) - 1 /\ Once(r) /\ Range(r) = Range(b) \ {td}
  BY <1>1, RemoveFirstOnce
<1>3. wchan' = [wchan EXCEPT ![td] = NoCond] /\ sq_blocked' = [sq_blocked EXCEPT ![c] = r]
  BY DEF SleepqRemove
<1>4. OthersWait(c, td) <=> r # <<>>
  BY DEF OthersWait
<1>5. Len(b) = Len(f) + 1 /\ sc_queue[c] # NoThread /\ sc_queue[c] \notin Range(f) /\ Once(f)
      /\ f \in Seq(Thread)
  BY <1>T, <1>1 DEF SqInv, ObjectsOK
<1> HIDE DEF r
<1>6. sq_blocked'[c] = r /\ \A d \in Cond \ {c} : sq_blocked'[d] = sq_blocked[d]
  BY <1>T, <1>3
<1>7. QueuesOK'
  <2> SUFFICES ASSUME NEW d \in Cond
               PROVE  (Once(sq_blocked[d]))' /\ \A t \in Thread :
                        wchan'[t] = d <=> t \in Range(sq_blocked'[d])
    BY DEF QueuesOK
  <2>1. CASE d = c
    <3>1. \A t \in Thread : wchan'[t] = d <=> t # td /\ wchan[t] = c
      BY <1>T, <1>3, <2>1, CondAssumption
    <3>2. \A t \in Thread : wchan[t] = c <=> t \in Range(b)
      BY DEF SqInv, QueuesOK
    <3> HIDE DEF b
    <3> QED
      BY <1>2, <1>6, <2>1, <3>1, <3>2
  <2>2. CASE d # c
    <3>1. sq_blocked'[d] = sq_blocked[d]
      BY <1>6, <2>2
    <3>2. \A t \in Thread : wchan'[t] = d <=> wchan[t] = d
      BY <1>T, <1>3, <2>2, CondAssumption
    <3> QED
      BY <3>1, <3>2 DEF SqInv, QueuesOK
  <2> QED
    BY <2>1, <2>2
<1>8. ASSUME NEW d \in Cond \ {c}
      PROVE  sc_queue'[d] = sc_queue[d] /\ sq_freeq'[d] = sq_freeq[d]
  BY <1>T DEF SleepqRemove
<1>9. /\ sc_queue'[c] = NoThread <=> r = <<>>
      /\ r # <<>> => Len(r) = Len(sq_freeq'[c]) + 1
      /\ r = <<>> => sq_freeq'[c] = <<>>
      /\ sc_queue'[c] \notin Range(sq_freeq'[c]) /\ Once(sq_freeq'[c])
      /\ e \in Lent(c) /\ Lent(c)' = Lent(c) \ {e}
      /\ \A t \in Thread \ {td} : sleepqueue'[t] = sleepqueue[t]
      /\ sc_queue' \in [Cond -> Thread \cup {NoThread}]
      /\ sq_freeq' \in [Cond -> Seq(Thread)]
      /\ sleepqueue' \in [Thread -> Thread \cup {NoThread}]
  <2>1. CASE r # <<>>
    <3>1. /\ sleepqueue' = [sleepqueue EXCEPT ![td] = Head(f)]
          /\ sq_freeq' = [sq_freeq EXCEPT ![c] = Tail(f)] /\ sc_queue' = sc_queue
      BY <1>4, <2>1 DEF SleepqRemove
    <3>2. f # <<>>
      <4>1. Len(r) > 0
        BY <1>2, <2>1
      <4> QED
        BY <1>2, <1>5, <4>1
    <3>3. /\ Head(f) \in Thread /\ Tail(f) \in Seq(Thread) /\ Len(Tail(f)) = Len(f) - 1
          /\ Range(f) = {Head(f)} \cup Range(Tail(f))
          /\ Head(f) \notin Range(Tail(f)) /\ Once(Tail(f))
      BY <1>5, <3>2, TailSeq
    <3>4. e = Head(f) /\ sq_freeq'[c] = Tail(f) /\ sc_queue'[c] = sc_queue[c]
      BY <1>T, <3>1
    <3> HIDE DEF b, f, e
    <3>5. sc_queue[c] # Head(f)
      BY <1>5, <3>3
    <3>6. e \in Lent(c) /\ Lent(c)' = Lent(c) \ {e}
      <4>1. Lent(c) = ({sc_queue[c]} \cup Range(f)) \ {NoThread}
        BY DEF Lent, f
      <4>2. Lent(c)' = ({sc_queue[c]} \cup Range(Tail(f))) \ {NoThread}
        BY <3>4 DEF Lent
      <4> QED
        BY <3>3, <3>4, <3>5, <4>1, <4>2, MutexAssumption
    <3>7. Len(r) = Len(sq_freeq'[c]) + 1
      BY <1>2, <1>5, <3>3, <3>4
    <3> QED
      BY <1>T, <1>5, <2>1, <3>1, <3>3, <3>4, <3>6, <3>7
  <2>2. CASE r = <<>>
    <3>1. /\ sleepqueue' = [sleepqueue EXCEPT ![td] = sc_queue[c]]
          /\ sc_queue' = [sc_queue EXCEPT ![c] = NoThread] /\ sq_freeq' = sq_freeq
      BY <1>4, <2>2 DEF SleepqRemove
    <3>2. Len(r) = 0 /\ Len(b) = 1 /\ Len(f) = 0
      BY <1>1, <1>2, <1>5, <2>2
    <3>3. f = <<>> /\ Range(f) = {}
      BY <1>5, <3>2 DEF Range
    <3>4. e = sc_queue[c] /\ sq_freeq'[c] = <<>> /\ sc_queue'[c] = NoThread
      BY <1>T, <3>1, <3>3
    <3>5. Lent(c) = {e} /\ Lent(c)' = {} /\ Range(sq_freeq'[c]) = {} /\ Once(sq_freeq'[c])
      BY <1>5, <3>3, <3>4 DEF Lent, Range, Once
    <3>6. sc_queue' \in [Cond -> Thread \cup {NoThread}]
          /\ sleepqueue' \in [Thread -> Thread \cup {NoThread}]
          /\ \A t \in Thread \ {td} : sleepqueue'[t] = sleepqueue[t]
      BY <1>T, <3>1
    <3> HIDE DEF e
    <3> QED
      BY <1>T, <2>2, <3>1, <3>4, <3>5, <3>6
  <2> QED
    BY <2>1, <2>2
<1>10. ObjectsOK'
  <2> SUFFICES ASSUME NEW d \in Cond
               PROVE  /\ sc_queue'[d] = NoThread <=> sq_blocked'[d] = <<>>
                      /\ sq_blocked'[d] # <<>> => Len(sq_blocked'[d]) = Len(sq_freeq'[d]) + 1
                      /\ sq_blocked'[d] = <<>> => sq_freeq'[d] = <<>>
                      /\ sc_queue'[d] \notin Range(sq_freeq'[d]) /\ (Once(sq_freeq[d]))'
    BY DEF ObjectsOK
  <2>1. CASE d = c
    BY <1>6, <1>9, <2>1
  <2>2. CASE d # c
    BY <1>6, <1>8, <2>2 DEF SqInv, ObjectsOK
  <2> QED
    BY <2>1, <2>2
<1>11. LendersOK'
  <2> DEFINE T == {td}
  <2>1. \A d \in Cond \ {c} : Lent(d)' = Lent(d)
    BY <1>8 DEF Lent
  <2>2. T \in SUBSET Thread /\ \A t \in T : wchan[t] = c /\ sleepqueue'[t] \in Lent(c)
    BY <1>9
  <2>3. \A t, u \in T : sleepqueue'[t] = sleepqueue'[u] => t = u
    OBVIOUS
  <2>4. \A t \in Thread \ T : sleepqueue'[t] = sleepqueue[t] /\ wchan'[t] = wchan[t]
    BY <1>T, <1>3, <1>9
  <2>5. \A t \in T : wchan'[t] = NoCond
    BY <1>T, <1>3
  <2>6. Lent(c)' = Lent(c) \ {sleepqueue'[t] : t \in T}
    BY <1>9
  <2> HIDE DEF T
  <2>7. LendersOK
    BY DEF SqInv
  <2> QED
    BY <2>1, <2>2, <2>3, <2>4, <2>5, <2>6, <2>7, LendersTake
<1>12. SleepqTypeOK'
  <2>1. sq_blocked' \in [Cond -> Seq(Thread)] /\ wchan' \in [Thread -> Cond \cup {NoCond}]
    BY <1>T, <1>2, <1>3
  <2> QED
    BY <1>9, <2>1 DEF SleepqTypeOK
<1> QED
  BY <1>3, <1>4, <1>6, <1>7, <1>10, <1>11, <1>12 DEF SqInv

(* Everybody leaves, with all the objects.                                 *)
LEMMA DropKeeps ==
  ASSUME SqInv, NEW c \in Cond, sc_queue[c] # NoThread, SleepqDrop(c)
  PROVE  /\ SqInv'
         /\ wchan' = [t \in Thread |-> IF t \in Range(sq_blocked[c]) THEN NoCond ELSE wchan[t]]
         /\ sq_blocked'[c] = <<>>
         /\ \A d \in Cond \ {c} : sq_blocked'[d] = sq_blocked[d]
<1> DEFINE b == sq_blocked[c]
           f == sq_freeq[c]
           obj == <<sc_queue[c]>> \o f
           pos(t) == CHOOSE i \in 1 .. Len(b) : b[i] = t
           out == Range(b)
<1>T. /\ sc_queue \in [Cond -> Thread \cup {NoThread}]
      /\ sq_blocked \in [Cond -> Seq(Thread)] /\ sq_freeq \in [Cond -> Seq(Thread)]
      /\ sleepqueue \in [Thread -> Thread \cup {NoThread}]
      /\ wchan \in [Thread -> Cond \cup {NoCond}]
  BY DEF SqInv, SleepqTypeOK
<1>1. /\ sleepqueue' = [t \in Thread |-> IF t \in out THEN obj[pos(t)] ELSE sleepqueue[t]]
      /\ wchan' = [t \in Thread |-> IF t \in out THEN NoCond ELSE wchan[t]]
      /\ sc_queue' = [sc_queue EXCEPT ![c] = NoThread]
      /\ sq_blocked' = [sq_blocked EXCEPT ![c] = <<>>]
      /\ sq_freeq' = [sq_freeq EXCEPT ![c] = <<>>]
  BY DEF SleepqDrop
<1>2. /\ b \in Seq(Thread) /\ f \in Seq(Thread) /\ b # <<>> /\ Once(b) /\ Once(f)
      /\ Len(b) = Len(f) + 1 /\ sc_queue[c] \in Thread /\ sc_queue[c] \notin Range(f)
  BY <1>T DEF SqInv, QueuesOK, ObjectsOK
<1>3. /\ obj \in Seq(Thread) /\ Len(obj) = Len(b) /\ Once(obj)
      /\ Range(obj) = {sc_queue[c]} \cup Range(f)
  <2> HIDE DEF b, f
  <2> QED
    BY <1>2, ConsSeq
<1>4. \A t \in out : pos(t) \in 1 .. Len(b) /\ b[pos(t)] = t
  <2> SUFFICES ASSUME NEW t \in out PROVE pos(t) \in 1 .. Len(b) /\ b[pos(t)] = t
    OBVIOUS
  <2>1. \E i \in 1 .. Len(b) : b[i] = t
    BY <1>2 DEF Range
  <2> QED
    BY <2>1
<1>5. \A i \in 1 .. Len(b) : b[i] \in out
  BY <1>2 DEF Range
<1>6. out \subseteq Thread
  <2> HIDE DEF b
  <2> QED
    BY <1>2 DEF Range
<1>7. Range(obj) = Lent(c)
  <2> HIDE DEF obj
  <2>1. f \in Seq(Thread) => Range(f) \subseteq Thread
    BY DEF Range
  <2> QED
    BY <1>2, <1>3, <2>1, MutexAssumption DEF Lent
<1> HIDE DEF b, f, obj, pos, out
<1>8. \A t \in out : sleepqueue'[t] = obj[pos(t)] /\ sleepqueue'[t] \in Lent(c)
  <2> SUFFICES ASSUME NEW t \in out PROVE sleepqueue'[t] = obj[pos(t)] /\ sleepqueue'[t] \in Lent(c)
    OBVIOUS
  <2>1. sleepqueue'[t] = obj[pos(t)]
    BY <1>1, <1>6
  <2>2. pos(t) \in 1 .. Len(obj)
    BY <1>3, <1>4
  <2>3. obj[pos(t)] \in Range(obj)
    BY <1>3, <2>2 DEF Range
  <2> QED
    BY <1>7, <2>1, <2>3
<1>9. \A t, u \in out : sleepqueue'[t] = sleepqueue'[u] => t = u
  <2> SUFFICES ASSUME NEW t \in out, NEW u \in out, sleepqueue'[t] = sleepqueue'[u] PROVE t = u
    OBVIOUS
  <2>1. pos(t) \in 1 .. Len(obj) /\ pos(u) \in 1 .. Len(obj) /\ obj[pos(t)] = obj[pos(u)]
    BY <1>3, <1>4, <1>8
  <2>2. pos(t) = pos(u)
    BY <1>3, <2>1 DEF Once
  <2> QED
    BY <1>4, <2>2
<1>10. {sleepqueue'[t] : t \in out} = Lent(c)
  <2>1. ASSUME NEW o \in Lent(c) PROVE \E t \in out : sleepqueue'[t] = o
    <3>1. PICK i \in 1 .. Len(b) : obj[i] = o
      BY <1>3, <1>7 DEF Range
    <3>2. b[i] \in out /\ pos(b[i]) \in 1 .. Len(b) /\ b[pos(b[i])] = b[i]
      BY <1>4, <1>5
    <3>3. pos(b[i]) = i
      BY <1>2, <3>2 DEF Once
    <3> QED
      BY <1>8, <3>1, <3>2, <3>3
  <2> QED
    BY <1>8, <2>1
<1>11. /\ sc_queue'[c] = NoThread /\ sq_blocked'[c] = <<>> /\ sq_freeq'[c] = <<>>
       /\ Lent(c)' = {} /\ Range(sq_freeq'[c]) = {} /\ Range(sq_blocked'[c]) = {}
       /\ Once(<<>>)
  BY <1>T, <1>1 DEF Lent, Range, Once
<1>12. ASSUME NEW d \in Cond \ {c}
       PROVE  /\ sc_queue'[d] = sc_queue[d] /\ sq_freeq'[d] = sq_freeq[d]
              /\ sq_blocked'[d] = sq_blocked[d]
  BY <1>T, <1>1
<1>13. \A t \in Thread, d \in Cond : wchan[t] = d <=> t \in Range(sq_blocked[d])
  BY DEF SqInv, QueuesOK
<1>14. \A t \in Thread : t \in out <=> wchan[t] = c
  BY <1>13 DEF out, b
<1>15. QueuesOK'
  <2> SUFFICES ASSUME NEW d \in Cond
               PROVE  (Once(sq_blocked[d]))' /\ \A t \in Thread :
                        wchan'[t] = d <=> t \in Range(sq_blocked'[d])
    BY DEF QueuesOK
  <2>1. \A t \in Thread : wchan'[t] = d <=> d # c /\ wchan[t] = d
    BY <1>1, <1>14, CondAssumption
  <2>2. CASE d = c
    BY <1>11, <2>1, <2>2
  <2>3. CASE d # c
    BY <1>12, <1>13, <2>1, <2>3 DEF SqInv, QueuesOK
  <2> QED
    BY <2>2, <2>3
<1>16. ObjectsOK'
  <2> SUFFICES ASSUME NEW d \in Cond
               PROVE  /\ sc_queue'[d] = NoThread <=> sq_blocked'[d] = <<>>
                      /\ sq_blocked'[d] # <<>> => Len(sq_blocked'[d]) = Len(sq_freeq'[d]) + 1
                      /\ sq_blocked'[d] = <<>> => sq_freeq'[d] = <<>>
                      /\ sc_queue'[d] \notin Range(sq_freeq'[d]) /\ (Once(sq_freeq[d]))'
    BY DEF ObjectsOK
  <2>1. CASE d = c
    BY <1>11, <2>1
  <2>2. CASE d # c
    BY <1>12, <2>2 DEF SqInv, ObjectsOK
  <2> QED
    BY <2>1, <2>2
<1>17. LendersOK'
  <2>1. \A d \in Cond \ {c} : Lent(d)' = Lent(d)
    BY <1>12 DEF Lent
  <2>2. \A t \in out : wchan[t] = c /\ wchan'[t] = NoCond
    BY <1>1, <1>6, <1>14
  <2>3. \A t \in Thread \ out : sleepqueue'[t] = sleepqueue[t] /\ wchan'[t] = wchan[t]
    BY <1>1
  <2>4. Lent(c)' = Lent(c) \ {sleepqueue'[t] : t \in out}
    BY <1>10, <1>11
  <2>5. LendersOK /\ out \in SUBSET Thread
    BY <1>6 DEF SqInv
  <2> QED
    BY <1>8, <1>9, <2>1, <2>2, <2>3, <2>4, <2>5, LendersTake
<1>18. SleepqTypeOK'
  <2>1. \A d \in Cond : Lent(d) \subseteq Thread
    BY <1>T DEF Lent, Range
  <2>2. \A t \in Thread : sleepqueue'[t] \in Thread \cup {NoThread}
    BY <1>T, <1>1, <1>8, <2>1
  <2>3. sleepqueue' \in [Thread -> Thread \cup {NoThread}]
        /\ wchan' \in [Thread -> Cond \cup {NoCond}]
    BY <1>T, <1>1, <2>2
  <2>4. /\ sc_queue' \in [Cond -> Thread \cup {NoThread}]
        /\ sq_blocked' \in [Cond -> Seq(Thread)] /\ sq_freeq' \in [Cond -> Seq(Thread)]
    BY <1>T, <1>1
  <2> QED
    BY <2>3, <2>4 DEF SleepqTypeOK
<1> QED
  BY <1>1, <1>11, <1>12, <1>15, <1>16, <1>17, <1>18 DEF SqInv, out, b

(* What the runs check says the same.                                      *)
LEMMA SqImplies ==
  ASSUME SqInv
  PROVE  WchanMatchesQueue /\ ObjectsAccounted
<1>T. /\ sc_queue \in [Cond -> Thread \cup {NoThread}]
      /\ sq_blocked \in [Cond -> Seq(Thread)] /\ sq_freeq \in [Cond -> Seq(Thread)]
      /\ sleepqueue \in [Thread -> Thread \cup {NoThread}]
  BY DEF SqInv, SleepqTypeOK
<1>0. \A s \in Seq(Thread) : Distinct(s) <=> Once(s)
  BY DEF Distinct, Once
<1>1. WchanMatchesQueue
  BY <1>T, <1>0 DEF SqInv, QueuesOK, WchanMatchesQueue
<1>2. ObjectPerWaiter
  BY DEF SqInv, ObjectsOK, ObjectPerWaiter
<1>3. ObjectsUnshared
  <2>1. ASSUME NEW c \in Cond
        PROVE  /\ sc_queue[c] # NoThread =>
                    /\ Range(<<sc_queue[c]>> \o sq_freeq[c]) = Lent(c)
                    /\ Distinct(<<sc_queue[c]>> \o sq_freeq[c])
               /\ Range(<<sc_queue[c]>> \o sq_freeq[c]) \ {NoThread} = Lent(c)
    <3> DEFINE f == sq_freeq[c]
               q == sc_queue[c]
    <3>1. f \in Seq(Thread) /\ f \in Seq(Thread \cup {NoThread}) /\ q \in Thread \cup {NoThread}
          /\ Range(f) \subseteq Thread
      BY <1>T DEF Range
    <3>2. q \notin Range(f) /\ Once(f)
      BY DEF SqInv, ObjectsOK
    <3> HIDE DEF f, q
    <3>3. /\ <<q>> \o f \in Seq(Thread \cup {NoThread})
          /\ Range(<<q>> \o f) = {q} \cup Range(f) /\ Once(<<q>> \o f)
      BY <3>1, <3>2, ConsSeq
    <3>4. q # NoThread => <<q>> \o f \in Seq(Thread)
      BY <3>1, ConsSeq
    <3>5. q # NoThread => Distinct(<<q>> \o f)
      BY <1>0, <3>3, <3>4
    <3>6. Lent(c) = ({q} \cup Range(f)) \ {NoThread}
      BY DEF Lent, q, f
    <3>7. q # NoThread => Range(<<q>> \o f) = Lent(c)
      BY <3>1, <3>3, <3>6, MutexAssumption
    <3> QED
      BY <3>3, <3>5, <3>6, <3>7 DEF q, f
  <2>2. ASSUME NEW c \in Cond, sc_queue[c] # NoThread
        PROVE  LET objs == <<sc_queue[c]>> \o sq_freeq[c]
               IN  /\ Distinct(objs)
                   /\ \A t \in Thread : sleepqueue[t] \notin Range(objs)
                   /\ \A d \in Cond \ {c} :
                        Range(objs) \cap Range(<<sc_queue[d]>> \o sq_freeq[d]) = {}
    <3>1. NoThread \notin Lent(c)
      BY DEF Lent
    <3>2. \A d \in Cond \ {c} : Range(<<sc_queue[d]>> \o sq_freeq[d]) \ {NoThread} = Lent(d)
      BY <2>1
    <3>3. \A d \in Cond \ {c} : Lent(c) \cap Lent(d) = {}
      BY DEF SqInv, LendersOK
    <3>4. /\ Range(<<sc_queue[c]>> \o sq_freeq[c]) = Lent(c)
          /\ Distinct(<<sc_queue[c]>> \o sq_freeq[c])
      BY <2>1, <2>2
    <3>5. \A t \in Thread : sleepqueue[t] \notin Lent(c)
      BY DEF SqInv, LendersOK
    <3> QED
      BY <3>1, <3>2, <3>3, <3>4, <3>5
  <2> QED
    BY <2>2 DEF SqInv, LendersOK, ObjectsUnshared
<1> QED
  BY <1>1, <1>2, <1>3 DEF ObjectsAccounted

-----------------------------------------------------------------------------
(* Types and the calls themselves.  BaseInv holds the types, the sleep     *)
(* queues, and what the pc of a thread implies for its own locals. Every   *)
(* later layer rests on it.                                                *)

(* Where a thread is: in a call that knows its mutex, in its sleep, on the *)
(* way out of a wait, on the way in, in a wait, or signalling under the    *)
(* chain lock.                                                             *)
Asking(t)   == pc[t] \in {"lock", "own", "unlock", "enqueue"}
Sleepy(t)   == Asleep(t) \/ pc[t] = "recheck"
Resuming(t) == pc[t] \in {"cvlock", "cvown"}
Leaving(t)  == pc[t] \in {"cvunlock", "queue"}
Waits(t)    == Leaving(t) \/ Sleepy(t) \/ Resuming(t)
Dropping(t) == pc[t] \in {"drop", "flush"} \/ (pc[t] = "wakeall" /\ call[t].next = "drop")

CallType == [mutex : Mutex \cup {NoMutex}, mode : Calls \cup {"none", "wait", "timedwait"},
             deferred : BOOLEAN, next : {"idle", "sleep", "drop"}]

(* The types, in the groups that the steps change together.                *)
MutexTypesOK ==
  /\ m_owner \in [Mutex -> Thread \cup {NoThread}]
  /\ m_lock \in [Mutex -> Thread \cup {NoThread}]
  /\ m_count \in [Mutex -> -MaxCount - 1 .. MaxCount]
  /\ m_deferred \in [Mutex -> BOOLEAN]
  /\ held \in [Thread -> [Mutex -> Int]]
ThreadTypesOK ==
  /\ will_sleep \in [Thread -> BOOLEAN]
  /\ pc \in [Thread -> CondLabels]
  /\ call \in [Thread -> CallType]
  /\ mutex_obj \in [Thread -> Mutex \cup {NoMutex}]
  /\ frame \in [Thread -> FrameType]
WakeTypesOK ==
  /\ defer_waiters \in [Thread -> Seq(Thread)]
  /\ wake_sema \in [Thread -> Nat]
  /\ drop \in [Thread -> Seq(Thread)]
  /\ waddrs \in [Thread -> Seq(Thread)]
ChainTypesOK ==
  /\ sc_lock \in [Chain -> Thread \cup {NoThread}]
  /\ has_user_waiters \in [Cond -> BOOLEAN]

Types == MutexTypesOK /\ ThreadTypesOK /\ WakeTypesOK /\ ChainTypesOK

(* What a call's position says of its locals, its frame, its wchan and its *)
(* arrays.                                                                 *)
CallOK(t) ==
  /\ Asking(t) \/ Waits(t) => mp(t) \in Mutex
  /\ call[t].next # "idle" => pc[t] = "wakeall"
  /\ Leaving(t) => will_sleep[t]
  /\ will_sleep[t] => Leaving(t) \/ pc[t] = "presleep"

FrameOK(t) ==
  /\ IF pc[t] = "enqueue" \/ Waits(t) \/ Dropping(t) THEN cv(t) \in Cond
                                                     ELSE frame[t] = NoFrame
  /\ frame[t].signalled => Sleepy(t) \/ Resuming(t)
  /\ Resuming(t) => (frame[t].error = "0" <=> frame[t].signalled)

WaitOK(t) ==
  /\ wchan[t] # NoCond => Sleepy(t) /\ wchan[t] = cv(t)
  /\ Sleepy(t) => (wchan[t] = NoCond <=> frame[t].signalled)
  /\ mutex_obj[t] = IF Sleepy(t) THEN mp(t) ELSE NoMutex

BatchOK(t) ==
  /\ drop[t] # <<>> => Dropping(t)
  /\ waddrs[t] # <<>> => Dropping(t) \/ pc[t] = "release"

LocalOK(t) == CallOK(t) /\ FrameOK(t) /\ WaitOK(t) /\ BatchOK(t)
Local == \A t \in Thread : LocalOK(t)

BaseInv == Types /\ SqInv /\ Local

(* The types are part of the invariant.                                    *)
LEMMA BaseType == BaseInv => CondTypeOK
  BY DEF BaseInv, Types, MutexTypesOK, ThreadTypesOK, WakeTypesOK, ChainTypesOK, CondTypeOK,
         TypesWith, CallType, SqInv

(* Nobody is in a call and nobody waits at the start.                      *)
LEMMA InitBase == CondInit => BaseInv
<1> SUFFICES ASSUME CondInit PROVE BaseInv
  OBVIOUS
<1>1. Types
  <2>1. NoFrame \in FrameType
    BY MutexAssumption DEF NoFrame, FrameType
  <2>2. NoCall \in CallType
    BY DEF NoCall, Call, CallType
  <2> QED
    BY <2>1, <2>2, MutexAssumption DEF CondInit, Init, Types, MutexTypesOK, ThreadTypesOK,
         WakeTypesOK,
                           ChainTypesOK, CondLabels
<1>2. SqInv
  BY SqInit DEF CondInit
<1>3. ASSUME NEW t \in Thread PROVE LocalOK(t)
  <2>1. /\ pc[t] = "idle" /\ call[t] = NoCall /\ ~will_sleep[t] /\ frame[t] = NoFrame
        /\ wchan[t] = NoCond /\ mutex_obj[t] = NoMutex /\ drop[t] = <<>> /\ waddrs[t] = <<>>
    BY DEF CondInit, Init, SleepqInit
  <2> QED
    BY <2>1 DEF LocalOK, CallOK, FrameOK, WaitOK, BatchOK, Asking, Sleepy, Asleep, Resuming,
                Leaving, Waits, Dropping, NoCall, Call, NoFrame
<1> QED
  BY <1>1, <1>2, <1>3 DEF BaseInv, Local

(* The parts of the state that say where a thread is.                      *)
Same(u) == /\ pc'[u] = pc[u] /\ call'[u] = call[u] /\ will_sleep'[u] = will_sleep[u]
           /\ frame'[u] = frame[u] /\ wchan'[u] = wchan[u] /\ mutex_obj'[u] = mutex_obj[u]
           /\ drop'[u] = drop[u] /\ waddrs'[u] = waddrs[u]

(* What is known of a thread stays while the parts of the state that say   *)
(* where it is do.                                                         *)
LEMMA SameLocal ==
  ASSUME NEW u \in Thread, LocalOK(u), Same(u)
  PROVE  LocalOK(u)'
BY DEF Same, LocalOK, CallOK, FrameOK, WaitOK, BatchOK, Asking, Sleepy, Asleep, Resuming,
       Leaving, Waits, Dropping, mp, cv

(* A step of t that leaves the others where they are.                      *)
LEMMA Moves ==
  ASSUME BaseInv, NEW t \in Thread, Types', SqInv', LocalOK(t)',
         \A u \in Thread \ {t} : Same(u)
  PROVE  BaseInv'
<1>1. ASSUME NEW u \in Thread PROVE LocalOK(u)'
  <2>1. CASE u = t
    BY <2>1
  <2>2. CASE u # t
    BY <2>2, SameLocal DEF BaseInv, Local
  <2> QED
    BY <2>1, <2>2
<1> QED
  BY <1>1 DEF BaseInv, Local

(* Only the sleep queue operations touch the queues.                       *)
LEMMA SqSame == ASSUME SqInv, UNCHANGED queueVars PROVE SqInv'
BY DEF queueVars, SqInv, SleepqTypeOK, QueuesOK, ObjectsOK, LendersOK, Lent

(* The types of what belongs to one thread.                                *)
LEMMA ThreadTypes ==
  ASSUME BaseInv
  PROVE  /\ pc \in [Thread -> CondLabels] /\ call \in [Thread -> CallType]
         /\ will_sleep \in [Thread -> BOOLEAN]
         /\ frame \in [Thread -> FrameType]
         /\ mutex_obj \in [Thread -> Mutex \cup {NoMutex}]
         /\ wchan \in [Thread -> Cond \cup {NoCond}]
         /\ drop \in [Thread -> Seq(Thread)] /\ waddrs \in [Thread -> Seq(Thread)]
  BY DEF BaseInv, Types, ThreadTypesOK, WakeTypesOK, SqInv, SleepqTypeOK

(* What a mutex call leaves alone.                                         *)
LEMMA MutexMoves ==
  ASSUME BaseInv, NEW t \in Thread, UNCHANGED condVars, MutexTypesOK',
         NEW l \in CondLabels, NEW r \in CallType,
         l \in {"idle", "lock", "own", "unlock", "wakeall"},
         pc' = [pc EXCEPT ![t] = l], call' = [call EXCEPT ![t] = r],
         pc[t] \in {"idle", "lock", "own", "unlock"},
         l \in {"lock", "own", "unlock"} => r.mutex \in Mutex,
         r.next = "idle",
         UNCHANGED wakeVars
  PROVE  BaseInv'
<1>0. LocalOK(t)
  BY DEF BaseInv, Local
<1>1. Types'
  <2>1. ThreadTypesOK'
    BY DEF BaseInv, Types, ThreadTypesOK, condVars, wakeVars
  <2>2. WakeTypesOK' /\ ChainTypesOK'
    BY DEF BaseInv, Types, WakeTypesOK, ChainTypesOK, condVars, wakerVars, wakeVars
  <2> QED
    BY <2>1, <2>2 DEF Types
<1>2. SqInv'
  BY SqSame DEF BaseInv, condVars
<1>3. \A u \in Thread \ {t} : Same(u)
  BY ThreadTypes DEF Same, condVars, wakerVars, queueVars, wakeVars
<1>4. LocalOK(t)'
  <2>1. pc'[t] = l /\ call'[t] = r
    BY ThreadTypes
  <2>2. /\ will_sleep' = will_sleep /\ frame' = frame /\ wchan' = wchan /\ mutex_obj' = mutex_obj
        /\ drop' = drop /\ waddrs' = waddrs
    BY DEF condVars, wakerVars, queueVars, wakeVars
  <2>3. /\ ~will_sleep[t] /\ frame[t] = NoFrame /\ wchan[t] = NoCond /\ mutex_obj[t] = NoMutex
        /\ drop[t] = <<>> /\ waddrs[t] = <<>>
    BY <1>0 DEF LocalOK, CallOK, FrameOK, WaitOK, BatchOK, Sleepy, Asleep, Resuming,
                Leaving, Waits, Dropping
  <2> QED
    BY <2>1, <2>2, <2>3 DEF LocalOK, CallOK, FrameOK, WaitOK, BatchOK, Asking, Sleepy, Asleep,
                Resuming, Leaving, Waits, Dropping, NoFrame, mp, cv
<1> QED
  BY <1>1, <1>2, <1>3, <1>4, Moves

(* The mutex calls of PthreadMutex keep the invariant: they know nothing   *)
(* of queues, chain locks and frames.                                      *)
LEMMA MutexBase ==
  ASSUME BaseInv, NEW t \in Thread, MutexStep(t), UNCHANGED condVars
  PROVE  BaseInv'
<1>T. /\ pc \in [Thread -> CondLabels] /\ call \in [Thread -> CallType]
      /\ MutexTypesOK /\ CallOK(t)
  BY DEF BaseInv, Types, ThreadTypesOK, Local, LocalOK
<1>0. NoCall \in CallType /\ NoCall.next = "idle"
  BY DEF NoCall, Call, CallType
<1>1. ASSUME NEW m \in Mutex, NEW mode \in LockCalls, SelfLock(t, m, mode), pc[t] = "idle"
      PROVE  BaseInv'
  <2>1. m_count' \in [Mutex -> -MaxCount - 1 .. MaxCount]
    <3>1. \A n \in -MaxCount - 1 .. MaxCount : Incremented(n) \in -MaxCount - 1 .. MaxCount
      BY MutexAssumption DEF Incremented
    <3>2. m_count[m] \in -MaxCount - 1 .. MaxCount
      BY <1>T DEF MutexTypesOK
    <3>3. m_count' \in {m_count, [m_count EXCEPT ![m] = Incremented(m_count[m])]}
      BY <1>1 DEF SelfLock
    <3> QED
      BY <1>T, <3>1, <3>2, <3>3 DEF MutexTypesOK
  <2>2. held' \in [Thread -> [Mutex -> Int]]
    BY <1>T, <1>1 DEF SelfLock, MutexTypesOK
  <2>3. MutexTypesOK'
    BY <1>T, <1>1, <2>1, <2>2 DEF SelfLock, MutexTypesOK
  <2>4. UNCHANGED <<pc, call, wakeVars>>
    BY <1>1 DEF SelfLock
  <2>5. ThreadTypesOK' /\ WakeTypesOK' /\ ChainTypesOK'
    BY <2>4 DEF BaseInv, Types, ThreadTypesOK, WakeTypesOK, ChainTypesOK, condVars, wakerVars,
         wakeVars
  <2>6. \A u \in Thread : Same(u)
    BY <2>4 DEF Same, condVars, wakerVars, queueVars, wakeVars
  <2>7. SqInv'
    BY SqSame DEF BaseInv, condVars
  <2>8. LocalOK(t)'
    BY <2>6, SameLocal DEF BaseInv, Local
  <2> QED
    BY <2>3, <2>5, <2>6, <2>7, <2>8, Moves DEF Types
<1>2. ASSUME NEW m \in Mutex, NEW mode \in LockCalls, LockEnter(t, m, mode), pc[t] = "idle"
      PROVE  BaseInv'
  <2> DEFINE r == Call(m, mode, FALSE, "idle")
  <2>1. r \in CallType /\ r.mutex \in Mutex /\ r.next = "idle"
    BY MutexAssumption DEF Call, CallType
  <2>2. /\ pc' = [pc EXCEPT ![t] = "lock"] /\ call' = [call EXCEPT ![t] = r]
        /\ UNCHANGED <<mutexVars, wakeVars, held>>
    BY <1>2 DEF LockEnter, Enter, Goto
  <2>3. MutexTypesOK'
    BY <1>T, <2>2 DEF MutexTypesOK, mutexVars
  <2> HIDE DEF r
  <2>4. "lock" \in CondLabels
    BY DEF CondLabels
  <2> QED
    BY <1>2, <2>1, <2>2, <2>3, <2>4, MutexMoves
<1>3. CASE LockTake(t)
  <2>1. /\ pc[t] = "lock" /\ pc' = [pc EXCEPT ![t] = "own"] /\ call' = call
        /\ m_lock' = [m_lock EXCEPT ![mp(t)] = t]
        /\ UNCHANGED <<m_owner, m_count, m_deferred, wakeVars, held>>
    BY <1>3 DEF LockTake, Take, Goto
  <2>2. MutexTypesOK'
    BY <1>T, <2>1 DEF MutexTypesOK
  <2>3. call' = [call EXCEPT ![t] = call[t]] /\ call[t] \in CallType /\ call[t].mutex \in Mutex
        /\ call[t].next = "idle"
    BY <1>T, <2>1 DEF CallOK, Asking, mp
  <2>4. "own" \in CondLabels
    BY DEF CondLabels
  <2> QED
    BY <2>1, <2>2, <2>3, <2>4, MutexMoves
<1>4. CASE LockFail(t)
  <2>1. /\ pc[t] = "lock" /\ pc' = [pc EXCEPT ![t] = "idle"] /\ call' = [call EXCEPT ![t] = NoCall]
        /\ UNCHANGED <<mutexVars, wakeVars, held>>
    BY <1>4 DEF LockFail, Return, Goto
  <2>2. MutexTypesOK' /\ "idle" \in CondLabels
    BY <1>T, <2>1 DEF MutexTypesOK, mutexVars, CondLabels
  <2> QED
    BY <1>0, <2>1, <2>2, MutexMoves
<1>5. CASE LockOwn(t)
  <2>1. /\ pc[t] = "own" /\ pc' = [pc EXCEPT ![t] = "idle"] /\ call' = [call EXCEPT ![t] = NoCall]
        /\ m_owner' = [m_owner EXCEPT ![mp(t)] = t]
        /\ held' = [held EXCEPT ![t][mp(t)] = @ + 1]
        /\ UNCHANGED <<m_count, m_deferred, m_lock, wakeVars>>
    BY <1>5 DEF LockOwn, Return, Goto
  <2>2. mp(t) \in Mutex
    BY <1>T, <2>1 DEF CallOK, Asking
  <2>3. MutexTypesOK'
    <3> DEFINE m == mp(t)
    <3> HIDE DEF m
    <3>1. m \in Mutex /\ held' = [held EXCEPT ![t][m] = @ + 1]
          /\ m_owner' = [m_owner EXCEPT ![m] = t]
      BY <2>1, <2>2 DEF m
    <3> QED
      BY <1>T, <2>1, <3>1 DEF MutexTypesOK
  <2>4. "idle" \in CondLabels
    BY DEF CondLabels
  <2> QED
    BY <1>0, <2>1, <2>3, <2>4, MutexMoves
<1>6. ASSUME NEW m \in Mutex, UnlockCall(t, m)
      PROVE  BaseInv'
  <2> DEFINE r == Call(m, call[t].mode, m_deferred[m], call[t].next)
  <2>1. /\ pc[t] = "idle" /\ held' = [held EXCEPT ![t][m] = @ - 1] /\ UNCHANGED <<m_lock, wakeVars>>
    BY <1>6 DEF UnlockCall
  <2>2. held' \in [Thread -> [Mutex -> Int]]
    BY <1>T, <2>1 DEF MutexTypesOK
  <2>3. CASE Counts(m)
    <3>1. m_count' = [m_count EXCEPT ![m] = @ - 1] /\ UNCHANGED <<m_owner, m_deferred, pc, call>>
      BY <1>6, <2>3 DEF UnlockCall
    <3>2. m_count' \in [Mutex -> -MaxCount - 1 .. MaxCount]
      BY <1>T, <2>3, <3>1, MutexAssumption DEF Counts, MutexTypesOK
    <3>3. MutexTypesOK'
      BY <1>T, <2>1, <2>2, <3>1, <3>2 DEF MutexTypesOK
    <3>4. pc' = [pc EXCEPT ![t] = "idle"] /\ call' = [call EXCEPT ![t] = call[t]]
          /\ call[t] \in CallType /\ call[t].next = "idle"
      BY <1>T, <2>1, <3>1 DEF CallOK
    <3>5. "idle" \in CondLabels
      BY DEF CondLabels
    <3> QED
      BY <2>1, <3>3, <3>4, <3>5, MutexMoves
  <2>4. CASE ~Counts(m)
    <3>1. /\ m_deferred' = [m_deferred EXCEPT ![m] = FALSE]
          /\ m_owner' = [m_owner EXCEPT ![m] = NoThread]
          /\ call' = [call EXCEPT ![t] = r] /\ pc' = [pc EXCEPT ![t] = "unlock"]
          /\ m_count' = m_count
      BY <1>6, <2>4 DEF UnlockCall, Disown, Goto
    <3>2. MutexTypesOK'
      BY <1>T, <2>1, <2>2, <3>1 DEF MutexTypesOK
    <3>3. r \in CallType /\ r.mutex \in Mutex /\ r.next = "idle"
      BY <1>T, <2>1 DEF Call, CallType, MutexTypesOK, CallOK
    <3>4. "unlock" \in CondLabels
      BY DEF CondLabels
    <3> HIDE DEF r
    <3> QED
      BY <2>1, <3>1, <3>2, <3>3, <3>4, MutexMoves
  <2> QED
    BY <2>3, <2>4
<1>7. CASE UnlockRelease(t)
  <2> DEFINE r == Call(mp(t), call[t].mode, call[t].deferred, "idle")
  <2>1. /\ pc[t] = "unlock" /\ m_lock' = [m_lock EXCEPT ![mp(t)] = NoThread]
        /\ UNCHANGED <<m_owner, m_count, m_deferred, wakeVars, held>>
    BY <1>7 DEF UnlockRelease, Release
  <2>2. MutexTypesOK' /\ "idle" \in CondLabels /\ "wakeall" \in CondLabels
    BY <1>T, <2>1 DEF MutexTypesOK, CondLabels
  <2>3. CASE call[t].deferred /\ ~will_sleep[t]
    <3>1. pc' = [pc EXCEPT ![t] = "wakeall"] /\ call' = [call EXCEPT ![t] = r]
      BY <1>7, <2>3 DEF UnlockRelease, Release, Goto, WakeThen
    <3>2. r \in CallType /\ r.next = "idle"
      BY <1>T, <2>1 DEF Call, CallType, CallOK, Asking, mp
    <3> HIDE DEF r
    <3> QED
      BY <2>1, <2>2, <3>1, <3>2, MutexMoves
  <2>4. CASE ~(call[t].deferred /\ ~will_sleep[t])
    <3>1. pc' = [pc EXCEPT ![t] = "idle"] /\ call' = [call EXCEPT ![t] = NoCall]
      BY <1>7, <2>4 DEF UnlockRelease, Release, Goto, Return
    <3> QED
      BY <1>0, <2>1, <2>2, <3>1, MutexMoves
  <2> QED
    BY <2>3, <2>4
<1> QED
  BY <1>1, <1>2, <1>3, <1>4, <1>5, <1>6, <1>7 DEF MutexStep, LockCall

(* The parts of the invariant, for one state and every thread.             *)
LEMMA CondTypes ==
  ASSUME BaseInv
  PROVE  /\ MutexTypesOK /\ ThreadTypesOK /\ WakeTypesOK /\ ChainTypesOK /\ SqInv
         /\ wchan \in [Thread -> Cond \cup {NoCond}]
         /\ \A t \in Thread : CallOK(t) /\ FrameOK(t) /\ WaitOK(t) /\ BatchOK(t)
  BY DEF BaseInv, Types, SqInv, SleepqTypeOK, Local, LocalOK

(* WakeAll releases the deferred wakeups one by one and goes on to where   *)
(* it was called from.                                                     *)
LEMMA WakeAllBase ==
  ASSUME BaseInv, NEW t \in Thread, WakeAll(t), UNCHANGED condVars
  PROVE  BaseInv'
<1>T. /\ MutexTypesOK /\ ThreadTypesOK /\ WakeTypesOK /\ ChainTypesOK /\ SqInv
      /\ LocalOK(t)
  BY CondTypes DEF LocalOK
<1>1. pc[t] = "wakeall" /\ UNCHANGED <<mutexVars, will_sleep, held>>
  BY DEF WakeAll
<1>2. /\ UNCHANGED <<frame, mutex_obj, drop, waddrs, wchan, sc_lock, has_user_waiters>>
      /\ SqInv' /\ MutexTypesOK' /\ ChainTypesOK'
  BY <1>T, <1>1, SqSame DEF condVars, wakerVars, queueVars, MutexTypesOK, ChainTypesOK, mutexVars
<1>3. CASE defer_waiters[t] # <<>>
  <2>1. /\ wake_sema' = [wake_sema EXCEPT ![Head(defer_waiters[t])] = @ + 1]
        /\ defer_waiters' = [defer_waiters EXCEPT ![t] = Tail(@)]
        /\ UNCHANGED <<pc, call>>
    BY <1>3 DEF WakeAll
  <2>2. WakeTypesOK'
    <3>1. Head(defer_waiters[t]) \in Thread /\ Tail(defer_waiters[t]) \in Seq(Thread)
      BY <1>T, <1>3, TailSeq DEF WakeTypesOK
    <3> DEFINE h == Head(defer_waiters[t])
    <3>2. h \in Thread /\ wake_sema' = [wake_sema EXCEPT ![h] = @ + 1]
      BY <2>1, <3>1
    <3> HIDE DEF h
    <3>3. wake_sema' \in [Thread -> Nat]
      BY <1>T, <3>2 DEF WakeTypesOK
    <3>4. defer_waiters' \in [Thread -> Seq(Thread)]
      BY <1>T, <2>1, <3>1 DEF WakeTypesOK
    <3> QED
      BY <1>T, <1>2, <3>3, <3>4 DEF WakeTypesOK
  <2>3. \A u \in Thread : Same(u)
    BY <1>1, <1>2, <2>1 DEF Same
  <2>4. ThreadTypesOK'
    BY <1>T, <1>1, <1>2, <2>1 DEF ThreadTypesOK
  <2> QED
    BY <1>T, <1>2, <2>2, <2>3, <2>4, SameLocal, Moves DEF Types
<1>4. CASE defer_waiters[t] = <<>>
  <2> DEFINE r == IF call[t].next = "idle" THEN NoCall
                  ELSE Call(mp(t), call[t].mode, call[t].deferred, "idle")
  <2>1. /\ pc' = [pc EXCEPT ![t] = call[t].next] /\ call' = [call EXCEPT ![t] = r]
        /\ UNCHANGED <<defer_waiters, wake_sema>>
    BY <1>4 DEF WakeAll, Return, Goto, WakeThen
  <2>2. /\ call[t].next \in {"idle", "sleep", "drop"} /\ r \in CallType /\ r.next = "idle"
        /\ call[t].next # "idle" => r.mutex = mp(t)
    BY <1>T DEF ThreadTypesOK, CallType, NoCall, Call, mp
  <2> HIDE DEF r
  <2>3. ThreadTypesOK'
    BY <1>T, <1>1, <1>2, <2>1, <2>2 DEF ThreadTypesOK, CondLabels
  <2>4. WakeTypesOK'
    BY <1>T, <1>1, <1>2, <2>1 DEF WakeTypesOK
  <2>5. pc'[t] = call[t].next /\ call'[t] = r /\ \A u \in Thread \ {t} : Same(u)
    BY <1>T, <1>1, <1>2, <2>1 DEF Same, ThreadTypesOK
  <2>6. LocalOK(t)'
    BY <1>T, <1>1, <1>2, <2>2, <2>5 DEF LocalOK, CallOK, FrameOK, WaitOK, BatchOK, Asking, Sleepy,
                Asleep, Resuming, Leaving, Waits, Dropping, mp, cv, NoFrame
  <2> QED
    BY <1>2, <2>3, <2>4, <2>5, <2>6, Moves DEF Types
<1> QED
  BY <1>3, <1>4

(* Wait is entered with a mutex and a condition variable.                  *)
LEMMA WaitCallBase ==
  ASSUME BaseInv, NEW t \in Thread, WaitCall(t)
  PROVE  BaseInv'
<1>T. /\ MutexTypesOK /\ ThreadTypesOK /\ WakeTypesOK /\ ChainTypesOK /\ SqInv
      /\ LocalOK(t) /\ wchan \in [Thread -> Cond \cup {NoCond}]
  BY CondTypes DEF LocalOK
<1>1. PICK c \in Cond, m \in Mutex, mode \in WaitCalls[t] :
        /\ m_owner[m] = t
        /\ Enter(t, m, mode)
        /\ frame' = [frame EXCEPT ![t] = [@ EXCEPT !.cond = c, !.depth = held[t][m]]]
  BY DEF WaitCall
<1>2. /\ pc[t] = "idle" /\ pc' = [pc EXCEPT ![t] = "enqueue"]
      /\ wchan' = [wchan EXCEPT ![t] = NoCond]
      /\ UNCHANGED <<mutexVars, wakeVars, held, sc_lock, has_user_waiters, mutex_obj,
                 wakerVars, sc_queue, sq_blocked, sq_freeq, sleepqueue>>
  BY DEF WaitCall, Goto
<1>3. /\ wchan[t] = NoCond /\ frame[t] = NoFrame /\ mutex_obj[t] = NoMutex /\ ~will_sleep[t]
      /\ drop[t] = <<>> /\ waddrs[t] = <<>>
  BY <1>T, <1>2 DEF LocalOK, CallOK, FrameOK, WaitOK, BatchOK, Sleepy, Asleep, Resuming, Leaving,
                    Waits, Dropping
<1>4. wchan' = wchan
  BY <1>T, <1>2, <1>3
<1>5. SqInv'
  BY <1>T, <1>2, <1>4, SqSame DEF queueVars
<1> DEFINE f == [NoFrame EXCEPT !.cond = c, !.depth = held[t][m]]
           r == Call(m, mode, FALSE, "idle")
<1>6. r \in CallType /\ r.mutex = m /\ r.next = "idle"
  BY CondAssumption DEF Call, CallType
<1>7. f \in FrameType /\ ~f.signalled /\ f.cond = c
  <2>1. NoFrame \in FrameType /\ ~NoFrame.signalled
    BY MutexAssumption DEF NoFrame, FrameType
  <2>2. held[t][m] \in Int
    BY <1>T DEF MutexTypesOK
  <2> QED
    BY <2>1, <2>2 DEF FrameType
<1>8. call' = [call EXCEPT ![t] = r] /\ frame' = [frame EXCEPT ![t] = f]
  BY <1>1, <1>3 DEF Enter
<1> HIDE DEF f, r
<1>9. ThreadTypesOK'
  BY <1>T, <1>2, <1>6, <1>7, <1>8 DEF ThreadTypesOK, wakeVars, CondLabels
<1>10. MutexTypesOK' /\ WakeTypesOK' /\ ChainTypesOK'
  BY <1>T, <1>2 DEF MutexTypesOK, WakeTypesOK, ChainTypesOK, mutexVars, wakeVars, wakerVars
<1>11. \A u \in Thread \ {t} : Same(u)
  BY <1>T, <1>2, <1>4, <1>8 DEF Same, ThreadTypesOK, wakeVars, wakerVars
<1>12. LocalOK(t)'
  <2>1. /\ pc'[t] = "enqueue" /\ call'[t] = r /\ frame'[t] = f /\ wchan'[t] = NoCond
        /\ mutex_obj'[t] = NoMutex /\ ~will_sleep'[t] /\ drop'[t] = <<>> /\ waddrs'[t] = <<>>
    BY <1>T, <1>2, <1>3, <1>4, <1>8 DEF ThreadTypesOK, wakeVars, wakerVars
  <2> QED
    BY <1>6, <1>7, <2>1 DEF LocalOK, CallOK, FrameOK, WaitOK, BatchOK, Asking, Sleepy,
                Asleep, Resuming, Leaving, Waits, Dropping, mp, cv
<1> QED
  BY <1>5, <1>9, <1>10, <1>11, <1>12, Moves DEF Types

(* CvUnlock saves the count and clears the owner under the chain lock.     *)
LEMMA WaitUnlockBase ==
  ASSUME BaseInv, NEW t \in Thread, WaitUnlock(t)
  PROVE  BaseInv'
<1>T. /\ MutexTypesOK /\ ThreadTypesOK /\ WakeTypesOK /\ ChainTypesOK /\ SqInv
      /\ LocalOK(t)
  BY CondTypes DEF LocalOK
<1> DEFINE m == mp(t)
           r == Call(m, call[t].mode, m_deferred[m], call[t].next)
           f == [frame[t] EXCEPT !.recurse = m_count[m]]
<1>1. /\ pc[t] = "enqueue" /\ pc' = [pc EXCEPT ![t] = "cvunlock"]
      /\ sc_lock' = [sc_lock EXCEPT ![chain(t)] = t]
      /\ has_user_waiters' = [has_user_waiters EXCEPT ![cv(t)] = TRUE]
      /\ will_sleep' = [will_sleep EXCEPT ![t] = TRUE]
      /\ frame' = [frame EXCEPT ![t] = f] /\ call' = [call EXCEPT ![t] = r]
      /\ m_count' = [m_count EXCEPT ![m] = 0]
      /\ held' = [held EXCEPT ![t][m] = 0]
      /\ m_deferred' = [m_deferred EXCEPT ![m] = FALSE]
      /\ m_owner' = [m_owner EXCEPT ![m] = NoThread]
      /\ UNCHANGED <<m_lock, defer_waiters, wake_sema, mutex_obj, wakerVars, queueVars>>
  BY DEF WaitUnlock, Disown, Goto
<1>2. m \in Mutex /\ cv(t) \in Cond /\ call[t].next = "idle" /\ ~frame[t].signalled
  BY <1>T, <1>1 DEF LocalOK, CallOK, FrameOK, Asking, Sleepy, Asleep, Resuming
<1>3. r \in CallType /\ r.mutex = m /\ r.next = "idle"
  BY <1>T, <1>2 DEF Call, CallType, ThreadTypesOK, MutexTypesOK
<1>4. f \in FrameType /\ f.cond = cv(t) /\ ~f.signalled
  BY <1>T, <1>2 DEF FrameType, ThreadTypesOK, MutexTypesOK, cv
<1>5. SqInv'
  BY <1>T, <1>1, SqSame
<1> HIDE DEF m, r, f
<1>6. ThreadTypesOK'
  BY <1>T, <1>1, <1>3, <1>4 DEF ThreadTypesOK, CondLabels
<1>7. MutexTypesOK'
  BY <1>T, <1>1, <1>2, MutexAssumption DEF MutexTypesOK
<1>8. WakeTypesOK' /\ ChainTypesOK'
  BY <1>T, <1>1 DEF WakeTypesOK, ChainTypesOK, wakerVars
<1>9. \A u \in Thread \ {t} : Same(u)
  BY <1>T, <1>1 DEF Same, ThreadTypesOK, wakerVars, queueVars
<1>10. LocalOK(t)'
  <2>1. /\ pc'[t] = "cvunlock" /\ call'[t] = r /\ frame'[t] = f /\ will_sleep'[t]
        /\ wchan'[t] = wchan[t] /\ mutex_obj'[t] = mutex_obj[t] /\ drop'[t] = drop[t]
        /\ waddrs'[t] = waddrs[t]
    BY <1>T, <1>1 DEF ThreadTypesOK, wakerVars, queueVars
  <2> QED
    BY <1>T, <1>1, <1>2, <1>3, <1>4, <2>1 DEF LocalOK, CallOK, FrameOK, WaitOK, BatchOK, Asking,
         Sleepy,
                Asleep, Resuming, Leaving, Waits, Dropping, mp, cv
<1> QED
  BY <1>5, <1>6, <1>7, <1>8, <1>9, <1>10, Moves DEF Types

(* With will_sleep set, the unlock inside Wait goes on to the queue and    *)
(* wakes nobody.                                                           *)
LEMMA WaitReleaseBase ==
  ASSUME BaseInv, NEW t \in Thread, WaitRelease(t)
  PROVE  BaseInv'
<1>T. /\ MutexTypesOK /\ ThreadTypesOK /\ WakeTypesOK /\ ChainTypesOK /\ SqInv
      /\ LocalOK(t)
  BY CondTypes DEF LocalOK
<1>1. pc[t] = "cvunlock" /\ will_sleep[t]
  BY <1>T DEF WaitRelease, Release, LocalOK, CallOK, Leaving
<1>2. /\ pc' = [pc EXCEPT ![t] = "queue"] /\ call' = call
      /\ m_lock' = [m_lock EXCEPT ![mp(t)] = NoThread]
      /\ UNCHANGED <<m_owner, m_count, m_deferred, wakeVars, held, condVars>>
  BY <1>1 DEF WaitRelease, Release, Goto
<1>3. SqInv'
  BY <1>T, <1>2, SqSame DEF condVars
<1>4. ThreadTypesOK' /\ MutexTypesOK'
  BY <1>T, <1>2 DEF ThreadTypesOK, MutexTypesOK, CondLabels, wakeVars, condVars
<1>5. WakeTypesOK' /\ ChainTypesOK'
  BY <1>T, <1>2 DEF WakeTypesOK, ChainTypesOK, wakeVars, wakerVars, condVars
<1>6. \A u \in Thread \ {t} : Same(u)
  BY <1>T, <1>2 DEF Same, ThreadTypesOK, wakeVars, wakerVars, queueVars, condVars
<1>7. LocalOK(t)'
  <2>1. /\ pc'[t] = "queue"
        /\ UNCHANGED <<call, frame, will_sleep, wchan, mutex_obj, drop, waddrs>>
    BY <1>T, <1>2 DEF ThreadTypesOK, wakeVars, wakerVars, queueVars, condVars
  <2> QED
    BY <1>T, <1>1, <2>1 DEF LocalOK, CallOK, FrameOK, WaitOK, BatchOK, Asking, Sleepy,
                Asleep, Resuming, Leaving, Waits, Dropping, mp, cv
<1> QED
  BY <1>3, <1>4, <1>5, <1>6, <1>7, Moves DEF Types

(* try_acquire never takes a semaphore below zero.                         *)
LEMMA ClearWakeType ==
  ASSUME wake_sema \in [Thread -> Nat], NEW t \in Thread, ClearWake(t)
  PROVE  wake_sema' \in [Thread -> Nat]
  BY DEF ClearWake

(* SleepqAdd puts the thread into the queue of its condition variable.     *)
LEMMA WaitAddBase ==
  ASSUME BaseInv, NEW t \in Thread, WaitAdd(t)
  PROVE  BaseInv'
<1>T. /\ MutexTypesOK /\ ThreadTypesOK /\ WakeTypesOK /\ ChainTypesOK /\ SqInv
      /\ LocalOK(t) /\ wchan \in [Thread -> Cond \cup {NoCond}]
  BY CondTypes DEF LocalOK
<1>1. /\ pc[t] = "queue" /\ pc' = [pc EXCEPT ![t] = "presleep"]
      /\ mutex_obj' = [mutex_obj EXCEPT ![t] = mp(t)]
      /\ SleepqAdd(cv(t), t) /\ ClearWake(t)
      /\ sc_lock' = [sc_lock EXCEPT ![chain(t)] = NoThread]
      /\ UNCHANGED <<mutexVars, will_sleep, defer_waiters, call, held,
                 has_user_waiters, frame, wakerVars>>
  BY DEF WaitAdd, Goto
<1>2. mp(t) \in Mutex /\ cv(t) \in Cond /\ wchan[t] = NoCond
  BY <1>T, <1>1 DEF LocalOK, CallOK, FrameOK, WaitOK, Leaving, Waits, Sleepy, Asleep
<1>3. SqInv' /\ wchan' = [wchan EXCEPT ![t] = cv(t)]
  BY <1>T, <1>1, <1>2, AddKeeps
<1>4. ThreadTypesOK' /\ MutexTypesOK'
  BY <1>T, <1>1, <1>2 DEF ThreadTypesOK, MutexTypesOK, CondLabels, mutexVars
<1>5. WakeTypesOK' /\ ChainTypesOK'
  BY <1>T, <1>1, ClearWakeType DEF WakeTypesOK, ChainTypesOK, wakerVars
<1>6. \A u \in Thread \ {t} : Same(u)
  BY <1>T, <1>1, <1>3 DEF Same, ThreadTypesOK, wakerVars
<1>7. LocalOK(t)'
  <2>1. /\ pc'[t] = "presleep" /\ mutex_obj'[t] = mp(t) /\ wchan'[t] = cv(t)
        /\ UNCHANGED <<call, frame, will_sleep, drop, waddrs>>
    BY <1>T, <1>1, <1>3 DEF ThreadTypesOK, wakerVars
  <2> QED
    BY <1>T, <1>1, <1>2, <2>1, CondAssumption DEF LocalOK, CallOK, FrameOK, WaitOK, BatchOK,
         Asking, Sleepy,
                Asleep, Resuming, Leaving, Waits, Dropping, mp, cv
<1> QED
  BY <1>3, <1>4, <1>5, <1>6, <1>7, Moves DEF Types

(* Sleep wakes the deferred waiters first, whether or not there are any.   *)
LEMMA SleepEnterBase ==
  ASSUME BaseInv, NEW t \in Thread, SleepEnter(t)
  PROVE  BaseInv'
<1>T. /\ MutexTypesOK /\ ThreadTypesOK /\ WakeTypesOK /\ ChainTypesOK /\ SqInv
      /\ LocalOK(t)
  BY CondTypes DEF LocalOK
<1> DEFINE r == IF defer_waiters[t] = <<>> THEN call[t]
                ELSE Call(mp(t), call[t].mode, call[t].deferred, "sleep")
           l == IF defer_waiters[t] = <<>> THEN "sleep" ELSE "wakeall"
<1>1. /\ pc[t] = "presleep" /\ pc' = [pc EXCEPT ![t] = l]
      /\ call' = [call EXCEPT ![t] = r]
      /\ will_sleep' = [will_sleep EXCEPT ![t] = FALSE]
      /\ UNCHANGED <<mutexVars, defer_waiters, wake_sema, held, condVars>>
  BY <1>T DEF SleepEnter, Goto, WakeThen, ThreadTypesOK
<1>2. /\ r \in CallType /\ r.mutex = mp(t) /\ l \in {"sleep", "wakeall"}
      /\ r.next = IF l = "wakeall" THEN "sleep" ELSE "idle"
  <2>1. call[t].next = "idle"
    BY <1>T, <1>1 DEF LocalOK, CallOK
  <2> QED
    BY <1>T, <2>1 DEF Call, CallType, ThreadTypesOK, mp
<1> HIDE DEF r, l
<1>3. SqInv'
  BY <1>T, <1>1, SqSame DEF condVars
<1>4. ThreadTypesOK' /\ MutexTypesOK'
  BY <1>T, <1>1, <1>2 DEF ThreadTypesOK, MutexTypesOK, CondLabels, mutexVars, condVars
<1>5. WakeTypesOK' /\ ChainTypesOK'
  BY <1>T, <1>1 DEF WakeTypesOK, ChainTypesOK, wakerVars, condVars
<1>6. \A u \in Thread \ {t} : Same(u)
  BY <1>T, <1>1 DEF Same, ThreadTypesOK, wakerVars, queueVars, condVars
<1>7. LocalOK(t)'
  <2>1. /\ pc'[t] = l /\ call'[t] = r /\ ~will_sleep'[t]
        /\ UNCHANGED <<frame, wchan, mutex_obj, drop, waddrs>>
    BY <1>T, <1>1 DEF ThreadTypesOK, wakerVars, queueVars, condVars
  <2> QED
    BY <1>T, <1>1, <1>2, <2>1 DEF LocalOK, CallOK, FrameOK, WaitOK, BatchOK, Asking, Sleepy,
                Asleep, Resuming, Leaving, Waits, Dropping, mp, cv
<1> QED
  BY <1>3, <1>4, <1>5, <1>6, <1>7, Moves DEF Types

(* Sleep returns with a token or a timeout.                                *)
LEMMA SleepReturnBase ==
  ASSUME BaseInv, NEW t \in Thread, SleepReturn(t)
  PROVE  BaseInv'
<1>T. /\ MutexTypesOK /\ ThreadTypesOK /\ WakeTypesOK /\ ChainTypesOK /\ SqInv
      /\ LocalOK(t)
  BY CondTypes DEF LocalOK
<1>1. /\ pc[t] = "sleep" /\ pc' = [pc EXCEPT ![t] = "recheck"]
      /\ UNCHANGED <<mutexVars, will_sleep, defer_waiters, call, held, sc_lock,
                 has_user_waiters, mutex_obj, wakerVars, queueVars>>
  BY DEF SleepReturn, Goto
<1>2. PICK e \in {"0", "ETIMEDOUT"} : frame' = [frame EXCEPT ![t].error = e]
  <2>1. \/ frame' = [frame EXCEPT ![t].error = "0"]
        \/ frame' = [frame EXCEPT ![t].error = "ETIMEDOUT"]
    BY DEF SleepReturn
  <2> QED
    BY <2>1, Zenon
<1>3. wake_sema' \in [Thread -> Nat]
  <2>1. \/ wake_sema[t] > 0 /\ wake_sema' = [wake_sema EXCEPT ![t] = @ - 1]
        \/ wake_sema' = wake_sema
    BY DEF SleepReturn
  <2>2. wake_sema \in [Thread -> Nat]
    BY <1>T DEF WakeTypesOK
  <2> QED
    BY <2>1, <2>2
<1>4. SqInv'
  BY <1>T, <1>1, SqSame
<1>5. ThreadTypesOK' /\ MutexTypesOK'
  <2>1. frame' \in [Thread -> FrameType]
    BY <1>T, <1>2 DEF ThreadTypesOK, FrameType
  <2> QED
    BY <1>T, <1>1, <2>1 DEF ThreadTypesOK, MutexTypesOK, CondLabels, mutexVars
<1>6. WakeTypesOK' /\ ChainTypesOK'
  BY <1>T, <1>1, <1>3 DEF WakeTypesOK, ChainTypesOK, wakerVars
<1>7. \A u \in Thread \ {t} : Same(u)
  BY <1>T, <1>1, <1>2 DEF Same, ThreadTypesOK, wakerVars, queueVars
<1>8. LocalOK(t)'
  <2>1. /\ pc'[t] = "recheck" /\ frame'[t].cond = frame[t].cond
        /\ frame'[t].signalled = frame[t].signalled
        /\ UNCHANGED <<call, will_sleep, wchan, mutex_obj, drop, waddrs>>
    BY <1>T, <1>1, <1>2 DEF ThreadTypesOK, wakerVars, queueVars, FrameType
  <2> QED
    BY <1>T, <1>1, <2>1 DEF LocalOK, CallOK, FrameOK, WaitOK, BatchOK, Asking, Sleepy,
                Asleep, Resuming, Leaving, Waits, Dropping, mp, cv
<1> QED
  BY <1>4, <1>5, <1>6, <1>7, <1>8, Moves DEF Types

(* A wait that finds its wchan cleared ends with 0.                        *)
LEMMA WaitSignalledBase ==
  ASSUME BaseInv, NEW t \in Thread, WaitSignalled(t)
  PROVE  BaseInv'
<1>T. /\ MutexTypesOK /\ ThreadTypesOK /\ WakeTypesOK /\ ChainTypesOK /\ SqInv
      /\ LocalOK(t)
  BY CondTypes DEF LocalOK
<1>1. /\ pc[t] = "recheck" /\ wchan[t] = NoCond /\ pc' = [pc EXCEPT ![t] = "cvlock"]
      /\ frame' = [frame EXCEPT ![t].error = "0"]
      /\ mutex_obj' = [mutex_obj EXCEPT ![t] = NoMutex]
      /\ UNCHANGED <<mutexVars, wakeVars, call, held, sc_lock,
                 has_user_waiters, wakerVars, queueVars>>
  BY DEF WaitSignalled, RecheckFrame, Goto, wakeVars
<1>2. SqInv'
  BY <1>T, <1>1, SqSame
<1>3. ThreadTypesOK' /\ MutexTypesOK'
  <2>1. frame' \in [Thread -> FrameType]
    BY <1>T, <1>1 DEF ThreadTypesOK, FrameType
  <2> QED
    BY <1>T, <1>1, <2>1 DEF ThreadTypesOK, MutexTypesOK, CondLabels, mutexVars, wakeVars
<1>4. WakeTypesOK' /\ ChainTypesOK'
  BY <1>T, <1>1 DEF WakeTypesOK, ChainTypesOK, wakerVars, wakeVars
<1>5. \A u \in Thread \ {t} : Same(u)
  BY <1>T, <1>1 DEF Same, ThreadTypesOK, wakerVars, queueVars, wakeVars
<1>6. LocalOK(t)'
  <2>1. /\ pc'[t] = "cvlock" /\ frame'[t].cond = frame[t].cond
        /\ frame'[t].signalled = frame[t].signalled /\ frame'[t].error = "0"
        /\ mutex_obj'[t] = NoMutex
        /\ UNCHANGED <<call, will_sleep, wchan, drop, waddrs>>
    BY <1>T, <1>1 DEF ThreadTypesOK, wakerVars, queueVars, wakeVars, FrameType
  <2> QED
    BY <1>T, <1>1, <2>1 DEF LocalOK, CallOK, FrameOK, WaitOK, BatchOK, Asking, Sleepy,
                Asleep, Resuming, Leaving, Waits, Dropping, mp, cv
<1> QED
  BY <1>2, <1>3, <1>4, <1>5, <1>6, Moves DEF Types

(* A wait that timed out and is still queued leaves the queue.             *)
LEMMA WaitExpiredBase ==
  ASSUME BaseInv, NEW t \in Thread, WaitExpired(t)
  PROVE  BaseInv'
<1>T. /\ MutexTypesOK /\ ThreadTypesOK /\ WakeTypesOK /\ ChainTypesOK /\ SqInv
      /\ LocalOK(t) /\ wchan \in [Thread -> Cond \cup {NoCond}]
  BY CondTypes DEF LocalOK
<1>1. /\ pc[t] = "recheck" /\ wchan[t] # NoCond /\ pc' = [pc EXCEPT ![t] = "cvlock"]
      /\ frame[t].error = "ETIMEDOUT"
      /\ SleepqRemove(cv(t), t)
      /\ has_user_waiters' = [has_user_waiters EXCEPT ![cv(t)] = OthersWait(cv(t), t)]
      /\ mutex_obj' = [mutex_obj EXCEPT ![t] = NoMutex]
      /\ UNCHANGED <<mutexVars, wakeVars, call, held, sc_lock, frame, wakerVars>>
  BY DEF WaitExpired, RecheckFrame, Goto, wakeVars
<1>2. cv(t) \in Cond /\ wchan[t] = cv(t)
  BY <1>T, <1>1 DEF LocalOK, FrameOK, WaitOK, Waits, Sleepy
<1>3. SqInv' /\ wchan' = [wchan EXCEPT ![t] = NoCond]
  BY <1>T, <1>1, <1>2, RemoveKeeps
<1>4. ThreadTypesOK' /\ MutexTypesOK'
  BY <1>T, <1>1 DEF ThreadTypesOK, MutexTypesOK, CondLabels, mutexVars, wakeVars
<1>5. WakeTypesOK' /\ ChainTypesOK'
  <2>1. OthersWait(cv(t), t) \in BOOLEAN
    BY DEF OthersWait
  <2> QED
    BY <1>T, <1>1, <2>1 DEF WakeTypesOK, ChainTypesOK, wakerVars, wakeVars
<1>6. \A u \in Thread \ {t} : Same(u)
  BY <1>T, <1>1, <1>3 DEF Same, ThreadTypesOK, wakerVars, wakeVars
<1>7. LocalOK(t)'
  <2>1. /\ pc'[t] = "cvlock" /\ mutex_obj'[t] = NoMutex /\ wchan'[t] = NoCond
        /\ UNCHANGED <<call, will_sleep, frame, drop, waddrs>>
    BY <1>T, <1>1, <1>3 DEF ThreadTypesOK, wakerVars, wakeVars
  <2> QED
    BY <1>T, <1>1, <2>1 DEF LocalOK, CallOK, FrameOK, WaitOK, BatchOK, Asking, Sleepy,
                Asleep, Resuming, Leaving, Waits, Dropping, mp, cv
<1> QED
  BY <1>3, <1>4, <1>5, <1>6, <1>7, Moves DEF Types

(* A wait that was woken by a stale token sleeps again.                    *)
LEMMA WaitSpuriousBase ==
  ASSUME BaseInv, NEW t \in Thread, WaitSpurious(t)
  PROVE  BaseInv'
<1>T. /\ MutexTypesOK /\ ThreadTypesOK /\ WakeTypesOK /\ ChainTypesOK /\ SqInv
      /\ LocalOK(t)
  BY CondTypes DEF LocalOK
<1>1. /\ pc[t] = "recheck" /\ pc' = [pc EXCEPT ![t] = "presleep"] /\ ClearWake(t)
      /\ UNCHANGED <<mutexVars, will_sleep, defer_waiters, call, held, sc_lock, frame,
                 mutex_obj, has_user_waiters, wakerVars, queueVars>>
  BY DEF WaitSpurious, RecheckFrame, Goto
<1>2. SqInv'
  BY <1>T, <1>1, SqSame
<1>3. ThreadTypesOK' /\ MutexTypesOK'
  BY <1>T, <1>1 DEF ThreadTypesOK, MutexTypesOK, CondLabels, mutexVars
<1>4. WakeTypesOK' /\ ChainTypesOK'
  BY <1>T, <1>1, ClearWakeType DEF WakeTypesOK, ChainTypesOK, wakerVars
<1>5. \A u \in Thread \ {t} : Same(u)
  BY <1>T, <1>1 DEF Same, ThreadTypesOK, wakerVars, queueVars
<1>6. LocalOK(t)'
  <2>1. /\ pc'[t] = "presleep"
        /\ UNCHANGED <<call, will_sleep, frame, wchan, mutex_obj, drop, waddrs>>
    BY <1>T, <1>1 DEF ThreadTypesOK, wakerVars, queueVars
  <2> QED
    BY <1>T, <1>1, <2>1 DEF LocalOK, CallOK, FrameOK, WaitOK, BatchOK, Asking, Sleepy,
                Asleep, Resuming, Leaving, Waits, Dropping, mp, cv
<1> QED
  BY <1>2, <1>3, <1>4, <1>5, <1>6, Moves DEF Types

(* CvLock takes the host lock of the mutex.                                *)
LEMMA CvLockTakeBase ==
  ASSUME BaseInv, NEW t \in Thread, CvLockTake(t)
  PROVE  BaseInv'
<1>T. /\ MutexTypesOK /\ ThreadTypesOK /\ WakeTypesOK /\ ChainTypesOK /\ SqInv
      /\ LocalOK(t)
  BY CondTypes DEF LocalOK
<1>1. /\ pc[t] = "cvlock" /\ pc' = [pc EXCEPT ![t] = "cvown"]
      /\ m_lock' = [m_lock EXCEPT ![mp(t)] = t]
      /\ UNCHANGED <<m_owner, m_count, m_deferred, wakeVars, call, held, condVars>>
  BY DEF CvLockTake, Take, Goto
<1>2. SqInv'
  BY <1>T, <1>1, SqSame DEF condVars
<1>3. ThreadTypesOK' /\ MutexTypesOK'
  BY <1>T, <1>1 DEF ThreadTypesOK, MutexTypesOK, CondLabels, wakeVars, condVars
<1>4. WakeTypesOK' /\ ChainTypesOK'
  BY <1>T, <1>1 DEF WakeTypesOK, ChainTypesOK, wakeVars, wakerVars, condVars
<1>5. \A u \in Thread \ {t} : Same(u)
  BY <1>T, <1>1 DEF Same, ThreadTypesOK, wakeVars, wakerVars, queueVars, condVars
<1>6. LocalOK(t)'
  <2>1. /\ pc'[t] = "cvown"
        /\ UNCHANGED <<call, frame, will_sleep, wchan, mutex_obj, drop, waddrs>>
    BY <1>T, <1>1 DEF ThreadTypesOK, wakeVars, wakerVars, queueVars, condVars
  <2> QED
    BY <1>T, <1>1, <2>1 DEF LocalOK, CallOK, FrameOK, WaitOK, BatchOK, Asking, Sleepy,
                Asleep, Resuming, Leaving, Waits, Dropping, mp, cv
<1> QED
  BY <1>2, <1>3, <1>4, <1>5, <1>6, Moves DEF Types

(* CvLock sets the owner, puts the count back, and the wait is over.       *)
LEMMA CvLockOwnBase ==
  ASSUME BaseInv, NEW t \in Thread, CvLockOwn(t)
  PROVE  BaseInv'
<1>T. /\ MutexTypesOK /\ ThreadTypesOK /\ WakeTypesOK /\ ChainTypesOK /\ SqInv
      /\ LocalOK(t)
  BY CondTypes DEF LocalOK
<1> DEFINE m == mp(t)
           n == frame[t].recurse
           d == frame[t].depth
<1>1. /\ pc[t] = "cvown" /\ pc' = [pc EXCEPT ![t] = "idle"]
      /\ call' = [call EXCEPT ![t] = NoCall]
      /\ m_owner' = [m_owner EXCEPT ![m] = t]
      /\ m_count' = [m_count EXCEPT ![m] = n]
      /\ held' = [held EXCEPT ![t][m] = d]
      /\ frame' = [frame EXCEPT ![t] = NoFrame]
      /\ UNCHANGED <<m_deferred, m_lock, wakeVars, sc_lock, has_user_waiters,
                 mutex_obj, wakerVars, queueVars>>
  BY DEF CvLockOwn, Return, Goto
<1>2. m \in Mutex /\ n \in -MaxCount - 1 .. MaxCount /\ d \in Int
  BY <1>T, <1>1 DEF LocalOK, CallOK, Waits, Resuming, ThreadTypesOK, FrameType
<1>3. NoCall \in CallType /\ NoFrame \in FrameType
  BY MutexAssumption DEF NoCall, Call, CallType, NoFrame, FrameType
<1>4. SqInv'
  BY <1>T, <1>1, SqSame
<1> HIDE DEF m, n, d
<1>5. ThreadTypesOK'
  BY <1>T, <1>1, <1>3 DEF ThreadTypesOK, CondLabels, wakeVars
<1>6. MutexTypesOK'
  BY <1>T, <1>1, <1>2 DEF MutexTypesOK
<1>7. WakeTypesOK' /\ ChainTypesOK'
  BY <1>T, <1>1 DEF WakeTypesOK, ChainTypesOK, wakerVars, wakeVars
<1>8. \A u \in Thread \ {t} : Same(u)
  BY <1>T, <1>1 DEF Same, ThreadTypesOK, wakerVars, queueVars, wakeVars
<1>9. LocalOK(t)'
  <2>1. /\ pc'[t] = "idle" /\ call'[t] = NoCall /\ frame'[t] = NoFrame
        /\ UNCHANGED <<will_sleep, wchan, mutex_obj, drop, waddrs>>
    BY <1>T, <1>1 DEF ThreadTypesOK, wakerVars, queueVars, wakeVars
  <2> QED
    BY <1>T, <1>1, <2>1 DEF LocalOK, CallOK, FrameOK, WaitOK, BatchOK, Asking, Sleepy,
                Asleep, Resuming, Leaving, Waits, Dropping, mp, cv, NoCall, Call, NoFrame
<1> QED
  BY <1>4, <1>5, <1>6, <1>7, <1>8, <1>9, Moves DEF Types

(* What Signal and Broadcast do to everything but the queue, whichever     *)
(* waiters they took off it.                                               *)
LEMMA DequeueBase ==
  ASSUME BaseInv, NEW t \in Thread, NEW c \in Cond, NEW removed \in Seq(Thread),
         NEW others \in BOOLEAN, pc[t] = "idle", Dequeue(t, c, removed, others),
         SqInv', \A u \in Range(removed) : wchan[u] = c,
         wchan' = [u \in Thread |-> IF u \in Range(removed) THEN NoCond ELSE wchan[u]]
  PROVE  BaseInv'
<1>T. /\ MutexTypesOK /\ ThreadTypesOK /\ WakeTypesOK /\ ChainTypesOK /\ SqInv
      /\ wchan \in [Thread -> Cond \cup {NoCond}]
      /\ \A u \in Thread : CallOK(u) /\ FrameOK(u) /\ WaitOK(u) /\ BatchOK(u)
  BY CondTypes
<1> DEFINE R == Range(removed)
           f(u) == [frame[u] EXCEPT !.cond = IF u = t THEN c ELSE @,
                                    !.signalled = @ \/ u \in R]
<1>1. /\ pc' = [pc EXCEPT ![t] = "drop"] /\ drop' = [drop EXCEPT ![t] = removed]
      /\ sc_lock' = [sc_lock EXCEPT ![Hash[c]] = t]
      /\ has_user_waiters' = [has_user_waiters EXCEPT ![c] = others]
      /\ frame' = [u \in Thread |-> f(u)]
      /\ wchan' = [u \in Thread |-> IF u \in R THEN NoCond ELSE wchan[u]]
      /\ UNCHANGED <<mutexVars, wakeVars, call, held, mutex_obj, waddrs>>
  BY DEF Dequeue, Goto
<1>2. \A u \in R : wchan[u] = c
  OBVIOUS
<1>3. ASSUME NEW u \in Thread
      PROVE  /\ f(u) \in FrameType /\ f(u).cond = (IF u = t THEN c ELSE cv(u))
             /\ f(u).signalled = (frame[u].signalled \/ u \in R)
             /\ f(u).error = frame[u].error
             /\ u # t /\ u \notin R => f(u) = frame[u]
  <2>1. frame[u] \in FrameType
    BY <1>T DEF ThreadTypesOK
  <2> QED
    BY <2>1 DEF FrameType, cv
<1> HIDE DEF R, f
<1>4. frame' \in [Thread -> FrameType]
  BY <1>1, <1>3
<1>5. ThreadTypesOK' /\ MutexTypesOK'
  BY <1>T, <1>1, <1>4 DEF ThreadTypesOK, MutexTypesOK, CondLabels, mutexVars, wakeVars
<1>6. WakeTypesOK' /\ ChainTypesOK'
  BY <1>T, <1>1 DEF WakeTypesOK, ChainTypesOK, wakeVars
<1>7. LocalOK(t)'
  <2>1. /\ ~Sleepy(t) /\ t \notin R /\ wchan[t] = NoCond /\ ~frame[t].signalled /\ ~will_sleep[t]
        /\ call[t].next = "idle" /\ mutex_obj[t] = NoMutex /\ waddrs[t] = <<>>
    BY <1>T, <1>1, <1>2, CondAssumption DEF CallOK, FrameOK, WaitOK, BatchOK, Sleepy, Asleep,
         Resuming,
          Leaving, Dropping
  <2>2. /\ pc'[t] = "drop" /\ drop'[t] = removed /\ frame'[t].cond = c
        /\ ~frame'[t].signalled /\ wchan'[t] = NoCond
        /\ UNCHANGED <<call, will_sleep, mutex_obj, waddrs>>
    BY <1>T, <1>1, <1>3, <2>1 DEF ThreadTypesOK, WakeTypesOK, wakeVars
  <2> QED
    BY <2>1, <2>2 DEF LocalOK, CallOK, FrameOK, WaitOK, BatchOK, Asking, Sleepy,
                Asleep, Resuming, Leaving, Waits, Dropping, mp, cv
<1>8. ASSUME NEW u \in Thread, u # t PROVE LocalOK(u)'
  <2>0. /\ pc'[u] = pc[u] /\ call'[u] = call[u] /\ will_sleep'[u] = will_sleep[u]
        /\ mutex_obj'[u] = mutex_obj[u] /\ drop'[u] = drop[u] /\ waddrs'[u] = waddrs[u]
        /\ frame'[u] = f(u)
        /\ wchan'[u] = IF u \in R THEN NoCond ELSE wchan[u]
    BY <1>T, <1>1, <1>8 DEF ThreadTypesOK, WakeTypesOK, wakeVars
  <2>1. CASE u \notin R
    <3>1. Same(u)
      BY <1>3, <1>8, <2>0, <2>1 DEF Same
    <3> QED
      BY <1>T, <3>1, SameLocal DEF LocalOK
  <2>2. CASE u \in R
    <3>1. wchan[u] = c /\ Sleepy(u) /\ cv(u) = c
      BY <1>T, <1>2, <2>2, CondAssumption DEF WaitOK
    <3>2. /\ frame'[u].cond = c /\ frame'[u].signalled /\ wchan'[u] = NoCond
      BY <1>3, <1>8, <2>0, <2>2, <3>1
    <3>3. CallOK(u)' /\ BatchOK(u)'
      BY <1>T, <2>0 DEF CallOK, BatchOK, Asking, Sleepy, Asleep, Resuming, Leaving, Waits,
           Dropping, mp
    <3>4. FrameOK(u)'
      BY <1>T, <2>0, <3>1, <3>2 DEF FrameOK, Sleepy, Asleep, Resuming, Leaving, Waits, Dropping, cv
    <3>5. WaitOK(u)'
      BY <1>T, <2>0, <3>1, <3>2 DEF WaitOK, Sleepy, Asleep, cv, mp
    <3> QED
      BY <3>3, <3>4, <3>5 DEF LocalOK
  <2> QED
    BY <2>1, <2>2
<1> QED
  BY <1>5, <1>6, <1>7, <1>8 DEF BaseInv, Types, Local

(* Signal and signalto_np take one waiter off the queue; the flag they     *)
(* leave says whether another one is there.                                *)
LEMMA SignalOneBase ==
  ASSUME BaseInv, NEW t \in Thread, NEW c \in Cond, NEW td \in Range(sq_blocked[c]),
         pc[t] = "idle", SignalOne(t, c, td)
  PROVE  /\ BaseInv' /\ td \in Thread /\ wchan[td] = c
         /\ wchan' = [wchan EXCEPT ![td] = NoCond]
         /\ OthersWait(c, td) <=> sq_blocked'[c] # <<>>
         /\ \A d \in Cond \ {c} : sq_blocked'[d] = sq_blocked[d]
<1>T. SqInv /\ wchan \in [Thread -> Cond \cup {NoCond}]
  BY CondTypes
<1>1. td \in Thread
  BY <1>T DEF SqInv, SleepqTypeOK, Range
<1>2. wchan[td] = c
  BY <1>T, <1>1 DEF SqInv, QueuesOK
<1>3. SleepqRemove(c, td) /\ Dequeue(t, c, <<td>>, OthersWait(c, td))
  BY DEF SignalOne
<1>4. /\ SqInv' /\ wchan' = [wchan EXCEPT ![td] = NoCond]
      /\ OthersWait(c, td) <=> sq_blocked'[c] # <<>>
      /\ \A d \in Cond \ {c} : sq_blocked'[d] = sq_blocked[d]
  BY <1>T, <1>1, <1>2, <1>3, RemoveKeeps
<1>5. <<td>> \in Seq(Thread) /\ Range(<<td>>) = {td}
  BY <1>1 DEF Range
<1>6. OthersWait(c, td) \in BOOLEAN
  BY DEF OthersWait
<1>7. wchan' = [u \in Thread |-> IF u \in Range(<<td>>) THEN NoCond ELSE wchan[u]]
  BY <1>T, <1>1, <1>4, <1>5
<1>8. \A u \in Range(<<td>>) : wchan[u] = c
  BY <1>2, <1>5
<1>9. BaseInv'
  <2> DEFINE s == <<td>>
             o == OthersWait(c, td)
  <2>1. /\ s \in Seq(Thread) /\ o \in BOOLEAN /\ Dequeue(t, c, s, o) /\ SqInv'
        /\ \A u \in Range(s) : wchan[u] = c
        /\ wchan' = [u \in Thread |-> IF u \in Range(s) THEN NoCond ELSE wchan[u]]
    BY <1>3, <1>4, <1>5, <1>6, <1>7, <1>8
  <2> HIDE DEF s, o
  <2> QED
    BY <2>1, DequeueBase
<1> QED
  BY <1>1, <1>2, <1>4, <1>9

(* Broadcast takes all the waiters off the queue.                          *)
LEMMA BroadcastBase ==
  ASSUME BaseInv, NEW t \in Thread, NEW c \in Cond, BroadcastCall(t, c)
  PROVE  /\ BaseInv'
         /\ wchan' = [u \in Thread |-> IF u \in Range(sq_blocked[c]) THEN NoCond ELSE wchan[u]]
         /\ sq_blocked'[c] = <<>>
         /\ \A d \in Cond \ {c} : sq_blocked'[d] = sq_blocked[d]
<1>T. SqInv
  BY CondTypes
<1>1. /\ pc[t] = "idle" /\ sc_queue[c] # NoThread /\ SleepqDrop(c)
      /\ Dequeue(t, c, sq_blocked[c], FALSE)
  BY DEF BroadcastCall
<1>2. /\ SqInv'
      /\ wchan' = [u \in Thread |-> IF u \in Range(sq_blocked[c]) THEN NoCond ELSE wchan[u]]
      /\ sq_blocked'[c] = <<>>
      /\ \A d \in Cond \ {c} : sq_blocked'[d] = sq_blocked[d]
  BY <1>T, <1>1, DropKeeps
<1>3. sq_blocked[c] \in Seq(Thread)
  BY <1>T DEF SqInv, SleepqTypeOK
<1>4. \A u \in Range(sq_blocked[c]) : wchan[u] = c
  BY <1>T, <1>3 DEF SqInv, QueuesOK, Range
<1>5. BaseInv'
  BY <1>1, <1>2, <1>3, <1>4, DequeueBase
<1> QED
  BY <1>2, <1>5

(* A channel that has a queue object has a waiter in it.                   *)
LEMMA QueueHead ==
  ASSUME BaseInv, NEW c \in Cond, sc_queue[c] # NoThread
  PROVE  Head(sq_blocked[c]) \in Range(sq_blocked[c])
<1>1. sq_blocked[c] # <<>> /\ sq_blocked[c] \in Seq(Thread)
  BY CondTypes DEF SqInv, ObjectsOK, SleepqTypeOK
<1> QED
  BY <1>1, TailSeq

(* A removed waiter is deferred or entered in the caller's array.          *)
LEMMA DropOneBase ==
  ASSUME BaseInv, NEW t \in Thread, DropOne(t)
  PROVE  BaseInv'
<1>T. /\ MutexTypesOK /\ ThreadTypesOK /\ WakeTypesOK /\ ChainTypesOK /\ SqInv
      /\ LocalOK(t)
  BY CondTypes DEF LocalOK
<1> DEFINE td == Head(drop[t])
           m == mutex_obj[td]
           r == Call(mp(t), call[t].mode, call[t].deferred, "drop")
<1>1. pc[t] = "drop" /\ drop[t] # <<>> /\ UNCHANGED <<m_owner, m_count, m_lock, will_sleep,
         wake_sema, held, sc_lock, has_user_waiters, mutex_obj, frame, queueVars>>
  BY DEF DropOne
<1>2. drop[t] \in Seq(Thread) /\ Tail(drop[t]) \in Seq(Thread) /\ td \in Thread
  BY <1>T, <1>1, TailSeq DEF WakeTypesOK
<1>3. SqInv'
  BY <1>T, <1>1, SqSame
<1>4. r \in CallType
  BY <1>T DEF Call, CallType, ThreadTypesOK, mp
<1>5. PICK l \in {"drop", "flush", "wakeall"} :
          pc' = [pc EXCEPT ![t] = l] /\ call' = [call EXCEPT ![t] = IF l = "wakeall" THEN r ELSE @]
          /\ drop' \in {drop, [drop EXCEPT ![t] = Tail(@)]}
          /\ waddrs' \in {waddrs, [waddrs EXCEPT ![t] = Append(@, td)]}
          /\ defer_waiters' \in {defer_waiters, [defer_waiters EXCEPT ![t] = Append(@, td)]}
          /\ m_deferred' \in {m_deferred, [m_deferred EXCEPT ![m] = TRUE]}
  <2>0. \/ /\ pc' = [pc EXCEPT ![t] = "wakeall"] /\ call' = [call EXCEPT ![t] = r]
           /\ UNCHANGED <<defer_waiters, m_deferred, drop, waddrs>>
        \/ /\ UNCHANGED <<pc, call, waddrs>>
           /\ defer_waiters' = [defer_waiters EXCEPT ![t] = Append(@, td)]
           /\ m_deferred' = [m_deferred EXCEPT ![m] = TRUE]
           /\ drop' = [drop EXCEPT ![t] = Tail(@)]
        \/ /\ pc' = [pc EXCEPT ![t] = "flush"]
           /\ UNCHANGED <<call, defer_waiters, m_deferred, drop, waddrs>>
        \/ /\ UNCHANGED <<pc, call, defer_waiters, m_deferred>>
           /\ waddrs' = [waddrs EXCEPT ![t] = Append(@, td)]
           /\ drop' = [drop EXCEPT ![t] = Tail(@)]
    BY DEF DropOne, Goto, WakeThen
  <2> HIDE DEF td, m, r
  <2>1. pc = [pc EXCEPT ![t] = "drop"] /\ call = [call EXCEPT ![t] = @]
    BY <1>T, <1>1 DEF ThreadTypesOK
  <2> QED
    BY <2>0, <2>1
<1> HIDE DEF td, m, r
<1>6. ThreadTypesOK'
  BY <1>T, <1>1, <1>4, <1>5 DEF ThreadTypesOK, CondLabels
<1>7. MutexTypesOK'
  BY <1>T, <1>1, <1>5 DEF MutexTypesOK
<1>8. WakeTypesOK' /\ ChainTypesOK'
  <2>1. waddrs' \in [Thread -> Seq(Thread)]
    <3>1. waddrs[t] \in Seq(Thread) /\ Append(waddrs[t], td) \in Seq(Thread)
      BY <1>T, <1>2, AppendSeq DEF WakeTypesOK
    <3> QED
      BY <1>T, <1>5, <3>1 DEF WakeTypesOK
  <2>2. defer_waiters' \in [Thread -> Seq(Thread)]
    <3>1. defer_waiters[t] \in Seq(Thread) /\ Append(defer_waiters[t], td) \in Seq(Thread)
      BY <1>T, <1>2, AppendSeq DEF WakeTypesOK
    <3> QED
      BY <1>T, <1>5, <3>1 DEF WakeTypesOK
  <2>3. drop' \in [Thread -> Seq(Thread)]
    BY <1>T, <1>2, <1>5 DEF WakeTypesOK
  <2> QED
    BY <1>T, <1>1, <2>1, <2>2, <2>3 DEF WakeTypesOK, ChainTypesOK
<1>9. \A u \in Thread \ {t} : Same(u)
  BY <1>T, <1>1, <1>5 DEF Same, ThreadTypesOK, WakeTypesOK, queueVars
<1>10. LocalOK(t)'
  <2>1. pc'[t] = l /\ call'[t] = (IF l = "wakeall" THEN r ELSE call[t])
        /\ UNCHANGED <<will_sleep, frame, wchan, mutex_obj>>
    BY <1>T, <1>1, <1>5 DEF ThreadTypesOK, queueVars
  <2>2. r.next = "drop"
    BY DEF r, Call
  <2>3. Dropping(t)'
    BY <2>1, <2>2 DEF Dropping
  <2>4. ~Asking(t)' /\ ~Waits(t)' /\ ~Leaving(t)' /\ ~Sleepy(t)' /\ ~Resuming(t)'
        /\ pc'[t] # "enqueue"
    BY <2>1, <2>2 DEF Asking, Waits, Leaving, Sleepy, Asleep, Resuming
  <2>5. cv(t) \in Cond /\ ~frame[t].signalled /\ wchan[t] = NoCond /\ mutex_obj[t] = NoMutex
        /\ ~will_sleep[t] /\ call[t].next = "idle"
    BY <1>T, <1>1 DEF LocalOK, CallOK, FrameOK, WaitOK, Sleepy, Asleep, Resuming, Leaving, Dropping
  <2>6. CallOK(t)'
    BY <2>1, <2>2, <2>4, <2>5 DEF CallOK
  <2>7. FrameOK(t)'
    BY <2>1, <2>3, <2>4, <2>5 DEF FrameOK, cv
  <2>8. WaitOK(t)'
    BY <2>1, <2>4, <2>5 DEF WaitOK
  <2>9. BatchOK(t)'
    BY <2>3 DEF BatchOK
  <2> QED
    BY <2>6, <2>7, <2>8, <2>9 DEF LocalOK
<1> QED
  BY <1>3, <1>6, <1>7, <1>8, <1>9, <1>10, Moves DEF Types

(* The signaller gives the chain lock back when all are handled.           *)
LEMMA DropDoneBase ==
  ASSUME BaseInv, NEW t \in Thread, DropDone(t)
  PROVE  BaseInv'
<1>T. /\ MutexTypesOK /\ ThreadTypesOK /\ WakeTypesOK /\ ChainTypesOK /\ SqInv
      /\ LocalOK(t)
  BY CondTypes DEF LocalOK
<1>1. /\ pc[t] = "drop" /\ drop[t] = <<>> /\ pc' = [pc EXCEPT ![t] = "release"]
      /\ sc_lock' = [sc_lock EXCEPT ![chain(t)] = NoThread]
      /\ frame' = [frame EXCEPT ![t] = NoFrame]
      /\ UNCHANGED <<mutexVars, wakeVars, call, held, has_user_waiters, mutex_obj,
                 wakerVars, queueVars>>
  BY DEF DropDone, Goto
<1>2. NoFrame \in FrameType
  BY MutexAssumption DEF NoFrame, FrameType
<1>3. SqInv'
  BY <1>T, <1>1, SqSame
<1>4. ThreadTypesOK' /\ MutexTypesOK'
  BY <1>T, <1>1, <1>2 DEF ThreadTypesOK, MutexTypesOK, CondLabels, mutexVars, wakeVars
<1>5. WakeTypesOK' /\ ChainTypesOK'
  BY <1>T, <1>1 DEF WakeTypesOK, ChainTypesOK, wakeVars, wakerVars
<1>6. \A u \in Thread \ {t} : Same(u)
  BY <1>T, <1>1 DEF Same, ThreadTypesOK, wakeVars, wakerVars, queueVars
<1>7. LocalOK(t)'
  <2>1. /\ pc'[t] = "release" /\ frame'[t] = NoFrame
        /\ UNCHANGED <<call, will_sleep, wchan, mutex_obj, drop, waddrs>>
    BY <1>T, <1>1 DEF ThreadTypesOK, wakeVars, wakerVars, queueVars
  <2> QED
    BY <1>T, <1>1, <2>1 DEF LocalOK, CallOK, FrameOK, WaitOK, BatchOK, Asking, Sleepy,
                Asleep, Resuming, Leaving, Waits, Dropping, mp, cv, NoFrame
<1> QED
  BY <1>3, <1>4, <1>5, <1>6, <1>7, Moves DEF Types

(* The semaphores of the caller's array are released.                      *)
LEMMA ReleaseOneBase ==
  ASSUME BaseInv, NEW t \in Thread, ReleaseOne(t)
  PROVE  BaseInv'
<1>T. /\ MutexTypesOK /\ ThreadTypesOK /\ WakeTypesOK /\ ChainTypesOK /\ SqInv
      /\ LocalOK(t)
  BY CondTypes DEF LocalOK
<1>1. /\ pc[t] \in {"release", "flush"}
      /\ UNCHANGED <<mutexVars, will_sleep, defer_waiters, call, held, sc_lock,
                 has_user_waiters, mutex_obj, frame, drop, queueVars>>
  BY DEF ReleaseOne
<1>2. SqInv'
  BY <1>T, <1>1, SqSame
<1>3. CASE waddrs[t] # <<>>
  <2> DEFINE h == Head(waddrs[t])
  <2>1. /\ wake_sema' = [wake_sema EXCEPT ![h] = @ + 1]
        /\ waddrs' = [waddrs EXCEPT ![t] = Tail(@)] /\ UNCHANGED pc
    BY <1>3 DEF ReleaseOne
  <2>2. h \in Thread /\ Tail(waddrs[t]) \in Seq(Thread)
    BY <1>T, <1>3, TailSeq DEF WakeTypesOK
  <2> HIDE DEF h
  <2>3. ThreadTypesOK' /\ MutexTypesOK'
    BY <1>T, <1>1, <2>1 DEF ThreadTypesOK, MutexTypesOK, mutexVars
  <2>4. WakeTypesOK' /\ ChainTypesOK'
    <3>0. wake_sema \in [Thread -> Nat]
      BY <1>T DEF WakeTypesOK
    <3>1. wake_sema' \in [Thread -> Nat]
      BY <2>1, <2>2, <3>0
    <3>2. waddrs' \in [Thread -> Seq(Thread)]
      BY <1>T, <2>1, <2>2 DEF WakeTypesOK
    <3> QED
      BY <1>T, <1>1, <3>1, <3>2 DEF WakeTypesOK, ChainTypesOK
  <2>5. \A u \in Thread \ {t} : Same(u)
    BY <1>T, <1>1, <2>1 DEF Same, WakeTypesOK, queueVars
  <2>6. LocalOK(t)'
    <3>1. UNCHANGED <<pc, call, will_sleep, frame, wchan, mutex_obj, drop>>
      BY <1>1, <2>1 DEF queueVars
    <3> QED
      BY <1>T, <1>1, <3>1 DEF LocalOK, CallOK, FrameOK, WaitOK, BatchOK, Asking, Sleepy,
                Asleep, Resuming, Leaving, Waits, Dropping, mp, cv
  <2> QED
    BY <1>2, <2>3, <2>4, <2>5, <2>6, Moves DEF Types
<1>4. CASE waddrs[t] = <<>>
  <2> DEFINE l == IF pc[t] = "flush" THEN "drop" ELSE "idle"
  <2>1. pc' = [pc EXCEPT ![t] = l] /\ UNCHANGED <<wake_sema, waddrs>>
    BY <1>4 DEF ReleaseOne, Goto
  <2>3. ThreadTypesOK' /\ MutexTypesOK'
    BY <1>T, <1>1, <2>1 DEF ThreadTypesOK, MutexTypesOK, CondLabels, mutexVars
  <2>4. WakeTypesOK' /\ ChainTypesOK'
    BY <1>T, <1>1, <2>1 DEF WakeTypesOK, ChainTypesOK
  <2>5. \A u \in Thread \ {t} : Same(u)
    BY <1>T, <1>1, <2>1 DEF Same, ThreadTypesOK, queueVars
  <2>6. LocalOK(t)'
    <3>1. pc'[t] = l /\ UNCHANGED <<call, will_sleep, frame, wchan, mutex_obj, drop, waddrs>>
      BY <1>T, <1>1, <2>1 DEF queueVars, ThreadTypesOK
    <3> QED
      BY <1>T, <1>1, <1>4, <3>1 DEF LocalOK, CallOK, FrameOK, WaitOK, BatchOK, Asking, Sleepy,
                Asleep, Resuming, Leaving, Waits, Dropping, mp, cv, NoFrame
  <2> QED
    BY <1>2, <2>3, <2>4, <2>5, <2>6, Moves DEF Types
<1> QED
  BY <1>3, <1>4

(* The invariant is about the variables.                                   *)
LEMMA StutterBase == ASSUME BaseInv, UNCHANGED cvars PROVE BaseInv'
<1>1. UNCHANGED <<mutexVars, wakeVars, pc, call, held>> /\ UNCHANGED condVars
  BY DEF cvars, vars
<1>2. SqInv'
  BY <1>1, CondTypes, SqSame DEF condVars
<1>3. Types'
  BY <1>1, CondTypes DEF Types, MutexTypesOK, ThreadTypesOK, WakeTypesOK, ChainTypesOK,
     mutexVars, wakeVars, condVars, wakerVars
<1>4. \A u \in Thread : Same(u)
  BY <1>1 DEF Same, wakeVars, condVars, wakerVars, queueVars
<1>5. \A u \in Thread : LocalOK(u)'
  BY <1>4, SameLocal DEF BaseInv, Local
<1> QED
  BY <1>2, <1>3, <1>5 DEF BaseInv, Local

(* Every step of every thread keeps the invariant.                         *)
LEMMA StepBase == ASSUME BaseInv, [CondNext]_cvars PROVE BaseInv'
<1>1. CASE UNCHANGED cvars
  BY <1>1, StutterBase
<1>2. CASE CondNext
  <2>1. PICK t \in Thread : \/ MutexStep(t) /\ UNCHANGED condVars
                            \/ WakeAll(t) /\ UNCHANGED condVars
                            \/ CondStep(t)
    BY <1>2 DEF CondNext
  <2>2. CASE MutexStep(t) /\ UNCHANGED condVars
    BY <2>2, MutexBase
  <2>3. CASE WakeAll(t) /\ UNCHANGED condVars
    BY <2>3, WakeAllBase
  <2>4. CASE \E c \in Cond : SignalCall(t, c) \/ SignalToCall(t, c) \/ BroadcastCall(t, c)
    <3>1. PICK c \in Cond : SignalCall(t, c) \/ SignalToCall(t, c) \/ BroadcastCall(t, c)
      BY <2>4
    <3>2. CASE SignalCall(t, c)
      <4> DEFINE td == Head(sq_blocked[c])
      <4>1. pc[t] = "idle" /\ sc_queue[c] # NoThread /\ SignalOne(t, c, td)
        BY <3>2 DEF SignalCall
      <4>2. td \in Range(sq_blocked[c])
        BY <4>1, QueueHead
      <4> HIDE DEF td
      <4> QED
        BY <4>1, <4>2, SignalOneBase
    <3>3. CASE SignalToCall(t, c)
      <4>1. PICK td \in Range(sq_blocked[c]) : SignalOne(t, c, td)
        BY <3>3 DEF SignalToCall
      <4> QED
        BY <3>3, <4>1, SignalOneBase DEF SignalToCall
    <3>4. CASE BroadcastCall(t, c)
      BY <3>4, BroadcastBase
    <3> QED
      BY <3>1, <3>2, <3>3, <3>4
  <2>5. CASE WaitCall(t) \/ WaitUnlock(t) \/ WaitRelease(t) \/ WaitAdd(t)
             \/ SleepEnter(t) \/ SleepReturn(t)
    BY <2>5, WaitCallBase, WaitUnlockBase, WaitReleaseBase, WaitAddBase, SleepEnterBase,
       SleepReturnBase
  <2>6. CASE WaitSignalled(t) \/ WaitExpired(t) \/ WaitSpurious(t) \/ CvLockTake(t)
             \/ CvLockOwn(t) \/ DropOne(t) \/ DropDone(t) \/ ReleaseOne(t)
    BY <2>6, WaitSignalledBase, WaitExpiredBase, WaitSpuriousBase, CvLockTakeBase,
       CvLockOwnBase, DropOneBase, DropDoneBase, ReleaseOneBase
  <2> QED
    BY <2>1, <2>2, <2>3, <2>4, <2>5, <2>6 DEF CondStep
<1> QED
  BY <1>1, <1>2

(* The base of all that follows: the types, the sleep queues, and what     *)
(* each thread's own call says of it.                                      *)
LEMMA BaseAlways == CondSpec => []BaseInv
<1>1. BaseInv /\ [CondNext]_cvars => BaseInv'
  BY StepBase
<1> QED
  BY <1>1, InitBase, PTL DEF CondSpec

(* Every variable keeps its type, for any threads, mutexes, condition      *)
(* variables, chains and room of the arrays.                               *)
THEOREM CondTypeOKAlways == CondSpec => []CondTypeOK
  BY BaseAlways, BaseType, PTL

(* Signal, Broadcast and a timeout leave no thread in two queues, in one   *)
(* twice, or in one its wchan does not name (SleepqAdd, SleepqRemove,      *)
(* SleepqDrop).                                                            *)
THEOREM WchanMatchesQueueAlways == CondSpec => []WchanMatchesQueue
<1>1. BaseInv => WchanMatchesQueue
  BY SqImplies DEF BaseInv
<1> QED
  BY <1>1, BaseAlways, PTL

(* No sleep queue object is lost or in two hands, however threads enter    *)
(* and leave the queues: the one a thread gets back on leaving is free for *)
(* its next wait (SleepqAdd, SleepqRemove, SleepqDrop).                    *)
THEOREM ObjectsAccountedAlways == CondSpec => []ObjectsAccounted
<1>1. BaseInv => ObjectsAccounted
  BY SqImplies DEF BaseInv
<1> QED
  BY <1>1, BaseAlways, PTL

(* The result of a wait and the signal that reached it agree.              *)
LEMMA BaseSignalled == BaseInv => SignalledIffSuccess
  BY DEF BaseInv, Local, LocalOK, FrameOK, Resuming, SignalledIffSuccess

(* Wait answers 0 exactly when a signal was spent on it, in every race of  *)
(* a timeout, a signal and a stale token (the wchan test in Wait).         *)
THEOREM SignalledIffSuccessAlways == CondSpec => []SignalledIffSuccess
  BY BaseAlways, BaseSignalled, PTL

(* Out of its sleep a thread has neither wchan nor mutex_obj.              *)
LEMMA BaseClear == BaseInv => WchanClear
  BY DEF BaseInv, Local, LocalOK, WaitOK, Sleepy, Asleep, WchanClear

(* A mutex call in short: where it goes, and that it wakes nobody.         *)
LEMMA MutexPath ==
  ASSUME BaseInv, NEW t \in Thread, MutexStep(t)
  PROVE  \E l \in CondLabels, r \in CallType :
           /\ pc[t] \in {"idle", "lock", "own", "unlock"}
           /\ l \in {"idle", "lock", "own", "unlock", "wakeall"} /\ r.next = "idle"
           /\ pc' = [pc EXCEPT ![t] = l] /\ call' = [call EXCEPT ![t] = r]
           /\ UNCHANGED wakeVars
<1>T. /\ pc \in [Thread -> CondLabels] /\ call \in [Thread -> CallType]
      /\ MutexTypesOK /\ CallOK(t)
  BY DEF BaseInv, Types, ThreadTypesOK, Local, LocalOK
<1>0. NoCall \in CallType /\ NoCall.next = "idle"
      /\ {"idle", "lock", "own", "unlock", "wakeall"} \subseteq CondLabels
  BY DEF NoCall, Call, CallType, CondLabels
<1>C. pc[t] # "wakeall" => call[t].next = "idle"
  BY <1>T DEF CallOK
<1>1. CASE LockCall(t)
  <2>1. PICK m \in Mutex, mode \in LockCalls : SelfLock(t, m, mode) \/ LockEnter(t, m, mode)
    BY <1>1 DEF LockCall
  <2>2. pc[t] = "idle"
    BY <1>1 DEF LockCall
  <2>3. CASE SelfLock(t, m, mode)
    <3>1. pc' = [pc EXCEPT ![t] = "idle"] /\ call' = [call EXCEPT ![t] = call[t]]
          /\ UNCHANGED wakeVars
      BY <1>T, <2>2, <2>3 DEF SelfLock
    <3> QED
      BY <1>T, <1>0, <1>C, <2>2, <3>1
  <2>4. CASE LockEnter(t, m, mode)
    <3> DEFINE r == Call(m, mode, FALSE, "idle")
    <3>1. r \in CallType /\ r.next = "idle"
      BY MutexAssumption DEF Call, CallType
    <3>2. pc' = [pc EXCEPT ![t] = "lock"] /\ call' = [call EXCEPT ![t] = r] /\ UNCHANGED wakeVars
      BY <2>4 DEF LockEnter, Enter, Goto
    <3> HIDE DEF r
    <3> QED
      BY <1>0, <2>2, <3>1, <3>2
  <2> QED
    BY <2>1, <2>3, <2>4
<1>2. CASE LockTake(t)
  <2>1. pc[t] = "lock" /\ pc' = [pc EXCEPT ![t] = "own"] /\ call' = [call EXCEPT ![t] = call[t]]
        /\ UNCHANGED wakeVars
    BY <1>T, <1>2 DEF LockTake, Take, Goto
  <2> QED
    BY <1>T, <1>0, <1>C, <2>1
<1>3. CASE LockFail(t) \/ LockOwn(t)
  <2>1. pc[t] \in {"lock", "own"} /\ pc' = [pc EXCEPT ![t] = "idle"]
        /\ call' = [call EXCEPT ![t] = NoCall]
        /\ UNCHANGED wakeVars
    BY <1>3 DEF LockFail, LockOwn, Return, Goto
  <2> QED
    BY <1>0, <2>1
<1>4. CASE \E m \in Mutex : UnlockCall(t, m)
  <2>1. PICK m \in Mutex : UnlockCall(t, m)
    BY <1>4
  <2>2. pc[t] = "idle" /\ UNCHANGED wakeVars
    BY <2>1 DEF UnlockCall
  <2>3. CASE Counts(m)
    <3>1. pc' = [pc EXCEPT ![t] = "idle"] /\ call' = [call EXCEPT ![t] = call[t]]
      BY <1>T, <2>1, <2>2, <2>3 DEF UnlockCall
    <3> QED
      BY <1>T, <1>0, <1>C, <2>2, <3>1
  <2>4. CASE ~Counts(m)
    <3> DEFINE r == Call(m, call[t].mode, m_deferred[m], call[t].next)
    <3>1. r \in CallType /\ r.next = "idle"
      BY <1>T, <1>C, <2>2 DEF Call, CallType, MutexTypesOK
    <3>2. pc' = [pc EXCEPT ![t] = "unlock"] /\ call' = [call EXCEPT ![t] = r]
      BY <2>1, <2>4 DEF UnlockCall, Disown, Goto
    <3> HIDE DEF r
    <3> QED
      BY <1>0, <2>2, <3>1, <3>2
  <2> QED
    BY <2>3, <2>4
<1>5. CASE UnlockRelease(t)
  <2> DEFINE r == Call(mp(t), call[t].mode, call[t].deferred, "idle")
  <2>1. pc[t] = "unlock" /\ UNCHANGED wakeVars
    BY <1>5 DEF UnlockRelease, Release
  <2>2. r \in CallType /\ r.next = "idle"
    BY <1>T DEF Call, CallType, mp
  <2>3. \/ pc' = [pc EXCEPT ![t] = "wakeall"] /\ call' = [call EXCEPT ![t] = r]
        \/ pc' = [pc EXCEPT ![t] = "idle"] /\ call' = [call EXCEPT ![t] = NoCall]
    BY <1>5 DEF UnlockRelease, Release, Goto, WakeThen, Return
  <2> HIDE DEF r
  <2> QED
    BY <1>0, <2>1, <2>2, <2>3
<1> QED
  BY <1>1, <1>2, <1>3, <1>4, <1>5 DEF MutexStep

-----------------------------------------------------------------------------
(* No lost wakeup.  NoLostWakeup is inductive over BaseInv.                *)

(* A sleeping thread that was taken off its queue.                         *)
Unheard(v) == Asleep(v) /\ wchan[v] = NoCond

(* A step that puts nobody to sleep and takes nobody off a queue loses no  *)
(* wakeup.                                                                 *)
LEMMA QuietWake ==
  ASSUME NoLostWakeup, NEW t \in Thread, UNCHANGED <<defer_waiters, waddrs, drop>>,
         \A v \in Thread \ {t} : /\ pc'[v] = pc[v] /\ call'[v] = call[v] /\ wchan'[v] = wchan[v]
                                 /\ wake_sema'[v] = wake_sema[v],
         Unheard(t)' => Unheard(t) /\ wake_sema'[t] = wake_sema[t]
  PROVE  NoLostWakeup'
<1>1. ASSUME NEW v \in Thread, Unheard(v)' PROVE WakeupOnItsWay(v)'
  <2>1. Unheard(v) /\ wake_sema'[v] = wake_sema[v]
    <3>1. CASE v = t
      BY <1>1, <3>1
    <3>2. CASE v # t
      BY <1>1, <3>2 DEF Unheard, Asleep
    <3> QED
      BY <3>1, <3>2
  <2>2. WakeupOnItsWay(v)
    BY <2>1 DEF NoLostWakeup, Unheard
  <2> QED
    BY <2>1, <2>2 DEF WakeupOnItsWay
<1> QED
  BY <1>1 DEF NoLostWakeup, Unheard

(* A step that moves wakeups on, or makes one.                             *)
LEMMA MovesWake ==
  ASSUME NoLostWakeup,
         \A v \in Thread : Unheard(v)' => Unheard(v) \/ WakeupOnItsWay(v)',
         \A v \in Thread : WakeupOnItsWay(v) => WakeupOnItsWay(v)'
  PROVE  NoLostWakeup'
  BY DEF NoLostWakeup, Unheard

(* WakeAll turns a deferred wakeup into a token.                           *)
LEMMA WakeAllWake ==
  ASSUME BaseInv, NoLostWakeup, NEW t \in Thread, WakeAll(t), UNCHANGED condVars
  PROVE  NoLostWakeup'
<1>T. ThreadTypesOK /\ WakeTypesOK /\ CallOK(t)
  BY CondTypes
<1>1. /\ pc[t] = "wakeall" /\ UNCHANGED <<wchan, drop, waddrs>>
  BY DEF WakeAll, condVars, queueVars, wakerVars
<1>2. ASSUME NEW v \in Thread, Unheard(v)' PROVE Unheard(v)
  <2>1. CASE defer_waiters[t] # <<>>
    BY <1>1, <1>2, <2>1 DEF WakeAll, Unheard, Asleep
  <2>2. CASE defer_waiters[t] = <<>> /\ call[t].next = "idle"
    <3>1. pc' = [pc EXCEPT ![t] = "idle"] /\ call' = [call EXCEPT ![t] = NoCall]
      BY <2>2 DEF WakeAll, Return, Goto
    <3> QED
      BY <1>T, <1>1, <1>2, <3>1 DEF Unheard, Asleep, ThreadTypesOK
  <2>3. CASE defer_waiters[t] = <<>> /\ call[t].next # "idle"
    <3> DEFINE r == Call(mp(t), call[t].mode, call[t].deferred, "idle")
    <3>1. pc' = [pc EXCEPT ![t] = call[t].next] /\ call' = [call EXCEPT ![t] = r]
      BY <2>3 DEF WakeAll, WakeThen, Goto
    <3>2. call[t].next \in {"sleep", "drop"}
      BY <1>T, <2>3 DEF ThreadTypesOK, CallType
    <3> HIDE DEF r
    <3>3. CASE v = t
      BY <1>T, <1>1, <1>2, <3>1, <3>2, <3>3 DEF Unheard, Asleep, ThreadTypesOK
    <3>4. CASE v # t
      BY <1>T, <1>1, <1>2, <3>1, <3>4 DEF Unheard, Asleep, ThreadTypesOK
    <3> QED
      BY <3>3, <3>4
  <2> QED
    BY <2>1, <2>2, <2>3
<1>3. ASSUME NEW v \in Thread, WakeupOnItsWay(v) PROVE WakeupOnItsWay(v)'
  <2>1. CASE defer_waiters[t] = <<>>
    BY <1>1, <1>3, <2>1 DEF WakeAll, WakeupOnItsWay
  <2>2. CASE defer_waiters[t] # <<>>
    <3> DEFINE h == Head(defer_waiters[t])
    <3>1. /\ h \in Thread /\ Range(defer_waiters[t]) = {h} \cup Range(Tail(defer_waiters[t]))
      BY <1>T, <2>2, TailSeq DEF WakeTypesOK
    <3>2. /\ wake_sema' = [wake_sema EXCEPT ![h] = @ + 1]
          /\ defer_waiters' = [defer_waiters EXCEPT ![t] = Tail(@)]
      BY <2>2 DEF WakeAll
    <3> HIDE DEF h
    <3>3. wake_sema \in [Thread -> Nat] /\ defer_waiters \in [Thread -> Seq(Thread)]
      BY <1>T DEF WakeTypesOK
    <3>4. wake_sema'[v] >= wake_sema[v] /\ wake_sema[v] \in Nat /\ (v = h => wake_sema'[v] > 0)
      BY <3>1, <3>2, <3>3
    <3>5. CASE wake_sema[v] > 0 \/ v = h
      <4>1. wake_sema'[v] > 0
        BY <3>1, <3>2, <3>3, <3>5
      <4> QED
        BY <4>1 DEF WakeupOnItsWay
    <3>6. CASE ~(wake_sema[v] > 0) /\ v # h
      <4>1. PICK u \in Thread :
                v \in Range(defer_waiters[u]) \cup Range(waddrs[u]) \cup Range(drop[u])
        BY <1>3, <3>6 DEF WakeupOnItsWay
      <4>2. v \in Range(defer_waiters'[u]) \cup Range(waddrs'[u]) \cup Range(drop'[u])
        BY <1>1, <3>1, <3>2, <3>3, <3>6, <4>1
      <4> QED
        BY <4>2 DEF WakeupOnItsWay
    <3> QED
      BY <3>5, <3>6
  <2> QED
    BY <2>1, <2>2
<1> QED
  BY <1>2, <1>3, MovesWake

(* ReleaseOne turns an entry of the array into a token.                    *)
LEMMA ReleaseOneWake ==
  ASSUME BaseInv, NoLostWakeup, NEW t \in Thread, ReleaseOne(t)
  PROVE  NoLostWakeup'
<1>T. ThreadTypesOK /\ WakeTypesOK
  BY CondTypes
<1>1. /\ pc[t] \in {"release", "flush"} /\ UNCHANGED <<wchan, call, drop, defer_waiters>>
  BY DEF ReleaseOne, queueVars
<1>2. ASSUME NEW v \in Thread, Unheard(v)' PROVE Unheard(v)
  <2>1. CASE waddrs[t] # <<>>
    BY <1>1, <1>2, <2>1 DEF ReleaseOne, Unheard, Asleep
  <2>2. CASE waddrs[t] = <<>>
    <3>1. pc' = [pc EXCEPT ![t] = IF pc[t] = "flush" THEN "drop" ELSE "idle"]
      BY <2>2 DEF ReleaseOne, Goto
    <3> QED
      BY <1>T, <1>1, <1>2, <3>1 DEF Unheard, Asleep, ThreadTypesOK
  <2> QED
    BY <2>1, <2>2
<1>3. ASSUME NEW v \in Thread, WakeupOnItsWay(v) PROVE WakeupOnItsWay(v)'
  <2>1. CASE waddrs[t] = <<>>
    BY <1>1, <1>3, <2>1 DEF ReleaseOne, WakeupOnItsWay
  <2>2. CASE waddrs[t] # <<>>
    <3> DEFINE h == Head(waddrs[t])
    <3>1. /\ h \in Thread /\ Range(waddrs[t]) = {h} \cup Range(Tail(waddrs[t]))
      BY <1>T, <2>2, TailSeq DEF WakeTypesOK
    <3>2. /\ wake_sema' = [wake_sema EXCEPT ![h] = @ + 1]
          /\ waddrs' = [waddrs EXCEPT ![t] = Tail(@)]
      BY <2>2 DEF ReleaseOne
    <3> HIDE DEF h
    <3>3. wake_sema \in [Thread -> Nat] /\ waddrs \in [Thread -> Seq(Thread)]
      BY <1>T DEF WakeTypesOK
    <3>5. CASE wake_sema[v] > 0 \/ v = h
      <4>1. wake_sema'[v] > 0
        BY <3>1, <3>2, <3>3, <3>5
      <4> QED
        BY <4>1 DEF WakeupOnItsWay
    <3>6. CASE ~(wake_sema[v] > 0) /\ v # h
      <4>1. PICK u \in Thread :
                v \in Range(defer_waiters[u]) \cup Range(waddrs[u]) \cup Range(drop[u])
        BY <1>3, <3>6 DEF WakeupOnItsWay
      <4>2. v \in Range(defer_waiters'[u]) \cup Range(waddrs'[u]) \cup Range(drop'[u])
        BY <1>1, <3>1, <3>2, <3>3, <3>6, <4>1
      <4> QED
        BY <4>2 DEF WakeupOnItsWay
    <3> QED
      BY <3>5, <3>6
  <2> QED
    BY <2>1, <2>2
<1> QED
  BY <1>2, <1>3, MovesWake

(* A removed waiter stays in the hands of the signaller: in the array, or  *)
(* among the deferred ones.                                                *)
LEMMA DropOneWake ==
  ASSUME BaseInv, NoLostWakeup, NEW t \in Thread, DropOne(t)
  PROVE  NoLostWakeup'
<1>T. ThreadTypesOK /\ WakeTypesOK /\ CallOK(t)
  BY CondTypes
<1> DEFINE td == Head(drop[t])
           r == Call(mp(t), call[t].mode, call[t].deferred, "drop")
<1>1. /\ pc[t] = "drop" /\ drop[t] # <<>> /\ UNCHANGED <<wchan, wake_sema>>
  BY DEF DropOne, queueVars
<1>2. /\ td \in Thread /\ Range(drop[t]) = {td} \cup Range(Tail(drop[t]))
      /\ defer_waiters[t] \in Seq(Thread) /\ waddrs[t] \in Seq(Thread)
  BY <1>T, <1>1, TailSeq DEF WakeTypesOK
<1>3. /\ Range(Append(defer_waiters[t], td)) = Range(defer_waiters[t]) \cup {td}
      /\ Range(Append(waddrs[t], td)) = Range(waddrs[t]) \cup {td}
  BY <1>2, AppendSeq
<1>4. \/ /\ pc' = [pc EXCEPT ![t] = "wakeall"] /\ call' = [call EXCEPT ![t] = r]
         /\ UNCHANGED <<defer_waiters, drop, waddrs>>
      \/ /\ UNCHANGED <<pc, call, waddrs>>
         /\ defer_waiters' = [defer_waiters EXCEPT ![t] = Append(@, td)]
         /\ drop' = [drop EXCEPT ![t] = Tail(@)]
      \/ /\ pc' = [pc EXCEPT ![t] = "flush"]
         /\ UNCHANGED <<call, defer_waiters, drop, waddrs>>
      \/ /\ UNCHANGED <<pc, call, defer_waiters>>
         /\ waddrs' = [waddrs EXCEPT ![t] = Append(@, td)]
         /\ drop' = [drop EXCEPT ![t] = Tail(@)]
  BY DEF DropOne, Goto, WakeThen
<1>5. r.next = "drop"
  BY DEF Call
<1> HIDE DEF td, r
<1>6. ASSUME NEW v \in Thread, Unheard(v)' PROVE Unheard(v)
  BY <1>T, <1>1, <1>4, <1>5, <1>6 DEF Unheard, Asleep, ThreadTypesOK
<1>7. ASSUME NEW v \in Thread, WakeupOnItsWay(v) PROVE WakeupOnItsWay(v)'
  <2>1. CASE wake_sema[v] > 0
    BY <1>1, <2>1 DEF WakeupOnItsWay
  <2>2. CASE ~(wake_sema[v] > 0)
    <3>1. PICK u \in Thread :
              v \in Range(defer_waiters[u]) \cup Range(waddrs[u]) \cup Range(drop[u])
      BY <1>7, <2>2 DEF WakeupOnItsWay
    <3>2. v \in Range(defer_waiters'[u]) \cup Range(waddrs'[u]) \cup Range(drop'[u])
      <4>1. CASE u = t
        BY <1>T, <1>2, <1>3, <1>4, <3>1, <4>1 DEF WakeTypesOK
      <4>2. CASE u # t
        BY <1>T, <1>4, <3>1, <4>2 DEF WakeTypesOK
      <4> QED
        BY <4>1, <4>2
    <3> QED
      BY <3>2 DEF WakeupOnItsWay
  <2> QED
    BY <2>1, <2>2
<1> QED
  BY <1>6, <1>7, MovesWake

(* The waiters taken off the queue are in the hands of the signaller, and  *)
(* ClearWake has no chance to take the token they get.                     *)
LEMMA DequeueWake ==
  ASSUME BaseInv, NoLostWakeup, NEW t \in Thread, NEW c \in Cond, NEW removed \in Seq(Thread),
         NEW others \in BOOLEAN, pc[t] = "idle", Dequeue(t, c, removed, others),
         wchan' = [u \in Thread |-> IF u \in Range(removed) THEN NoCond ELSE wchan[u]]
  PROVE  NoLostWakeup'
<1>T. ThreadTypesOK /\ WakeTypesOK /\ BatchOK(t) /\ CallOK(t)
  BY CondTypes
<1>1. /\ pc' = [pc EXCEPT ![t] = "drop"] /\ drop' = [drop EXCEPT ![t] = removed]
      /\ wchan' = [u \in Thread |-> IF u \in Range(removed) THEN NoCond ELSE wchan[u]]
      /\ UNCHANGED <<call, wake_sema, defer_waiters, waddrs>>
  BY DEF Dequeue, Goto, wakeVars
<1>2. drop[t] = <<>> /\ call[t].next = "idle"
  BY <1>T DEF BatchOK, Dropping, CallOK
<1>3. drop' [t] = removed /\ \A u \in Thread \ {t} : drop'[u] = drop[u]
  BY <1>T, <1>1 DEF WakeTypesOK
<1>4. ASSUME NEW v \in Thread, Unheard(v)' PROVE Unheard(v) \/ WakeupOnItsWay(v)'
  <2>1. CASE v \in Range(removed)
    BY <1>3, <2>1 DEF WakeupOnItsWay
  <2>2. CASE v \notin Range(removed)
    <3>1. wchan[v] = NoCond
      BY <1>1, <1>4, <2>2 DEF Unheard
    <3>2. Asleep(v)
      BY <1>T, <1>1, <1>4 DEF Unheard, Asleep, ThreadTypesOK
    <3> QED
      BY <3>1, <3>2 DEF Unheard
  <2> QED
    BY <2>1, <2>2
<1>5. ASSUME NEW v \in Thread, WakeupOnItsWay(v) PROVE WakeupOnItsWay(v)'
  <2>1. Range(drop[t]) = {}
    BY <1>2 DEF Range
  <2> QED
    BY <1>1, <1>3, <1>5, <2>1 DEF WakeupOnItsWay
<1> QED
  BY <1>4, <1>5, MovesWake

(* The steps of a thread, with both signals as the removal of a waiter.    *)
Waiting(t) == WaitCall(t) \/ WaitUnlock(t) \/ WaitRelease(t) \/ WaitAdd(t)
              \/ SleepEnter(t) \/ SleepReturn(t)
WakingUp(t) == WaitSignalled(t) \/ WaitExpired(t) \/ WaitSpurious(t) \/ CvLockTake(t)
               \/ CvLockOwn(t)
Waking(t) == \/ DropOne(t) \/ DropDone(t) \/ ReleaseOne(t)
             \/ \E c \in Cond : BroadcastCall(t, c)
             \/ \E c \in Cond : pc[t] = "idle" /\ \E td \in Range(sq_blocked[c]) :
                  SignalOne(t, c, td)

(* A step is one of these.                                                 *)
LEMMA StepCases ==
  ASSUME BaseInv, [CondNext]_cvars
  PROVE  \/ UNCHANGED cvars
         \/ \E t \in Thread : \/ MutexStep(t) /\ UNCHANGED condVars
                              \/ WakeAll(t) /\ UNCHANGED condVars
                              \/ Waiting(t) \/ WakingUp(t) \/ Waking(t)
<1> SUFFICES ASSUME CondNext
             PROVE  \E t \in Thread : \/ MutexStep(t) /\ UNCHANGED condVars
                                      \/ WakeAll(t) /\ UNCHANGED condVars
                                      \/ Waiting(t) \/ WakingUp(t) \/ Waking(t)
  OBVIOUS
<1>1. PICK t \in Thread : \/ MutexStep(t) /\ UNCHANGED condVars
                          \/ WakeAll(t) /\ UNCHANGED condVars
                          \/ CondStep(t)
  BY DEF CondNext
<1>2. CASE \E c \in Cond : SignalCall(t, c) \/ SignalToCall(t, c) \/ BroadcastCall(t, c)
  <2>1. PICK c \in Cond : SignalCall(t, c) \/ SignalToCall(t, c) \/ BroadcastCall(t, c)
    BY <1>2
  <2>2. CASE SignalCall(t, c)
    BY <2>2, QueueHead DEF SignalCall, Waking
  <2>3. CASE SignalToCall(t, c)
    BY <2>3 DEF SignalToCall, Waking
  <2> QED
    BY <2>1, <2>2, <2>3 DEF Waking
<1> QED
  BY <1>1, <1>2 DEF CondStep, Waiting, WakingUp, Waking

(* A thread on its way to sleep drops a token only before it can be taken  *)
(* off the queue, and takes one only to wake up.                           *)
LEMMA WaitingWake ==
  ASSUME BaseInv, NoLostWakeup, NEW t \in Thread, Waiting(t)
  PROVE  NoLostWakeup'
<1>T. ThreadTypesOK /\ WakeTypesOK /\ CallOK(t) /\ FrameOK(t) /\ WaitOK(t)
      /\ wchan \in [Thread -> Cond \cup {NoCond}] /\ SqInv
  BY CondTypes
<1>1. CASE WaitCall(t)
  <2>1. /\ pc[t] = "idle" /\ pc' = [pc EXCEPT ![t] = "enqueue"]
        /\ wchan' = [wchan EXCEPT ![t] = NoCond]
        /\ UNCHANGED <<defer_waiters, waddrs, drop, wake_sema>>
    BY <1>1 DEF WaitCall, Goto, wakeVars, wakerVars
  <2>2. PICK r : call' = [call EXCEPT ![t] = r]
    BY <1>1 DEF WaitCall, Enter
  <2>3. call[t].next = "idle"
    BY <1>T, <2>1 DEF CallOK
  <2>4. ~Unheard(t)'
    BY <1>T, <2>1 DEF Unheard, Asleep, ThreadTypesOK
  <2> QED
    BY <1>T, <2>1, <2>2, <2>4, QuietWake DEF ThreadTypesOK
<1>2. CASE WaitUnlock(t)
  <2>1. /\ pc[t] = "enqueue" /\ pc' = [pc EXCEPT ![t] = "cvunlock"]
        /\ call' = [call EXCEPT ![t] = Call(mp(t), call[t].mode, m_deferred[mp(t)], call[t].next)]
        /\ UNCHANGED <<defer_waiters, waddrs, drop, wake_sema, wchan>>
    BY <1>2 DEF WaitUnlock, Disown, Goto, queueVars, wakerVars
  <2>2. ~Unheard(t)'
    BY <1>T, <2>1 DEF Unheard, Asleep, ThreadTypesOK
  <2> QED
    BY <1>T, <2>1, <2>2, QuietWake DEF ThreadTypesOK
<1>3. CASE WaitRelease(t)
  <2>1. pc[t] = "cvunlock" /\ will_sleep[t]
    BY <1>T, <1>3 DEF WaitRelease, Release, CallOK, Leaving
  <2>2. /\ pc' = [pc EXCEPT ![t] = "queue"] /\ call' = call
        /\ UNCHANGED <<defer_waiters, waddrs, drop, wake_sema, wchan>>
    BY <1>3, <2>1 DEF WaitRelease, Release, Goto, wakeVars, condVars, queueVars, wakerVars
  <2>3. ~Unheard(t)'
    BY <1>T, <2>2 DEF Unheard, Asleep, ThreadTypesOK
  <2> QED
    BY <1>T, <2>2, <2>3, QuietWake DEF ThreadTypesOK
<1>4. CASE WaitAdd(t)
  <2>1. /\ pc[t] = "queue" /\ pc' = [pc EXCEPT ![t] = "presleep"] /\ call' = call
        /\ SleepqAdd(cv(t), t) /\ ClearWake(t) /\ UNCHANGED <<defer_waiters, waddrs, drop>>
    BY <1>4 DEF WaitAdd, Goto, wakerVars
  <2>2. cv(t) \in Cond /\ cv(t) # NoCond /\ wchan[t] = NoCond
    BY <1>T, <2>1, CondAssumption DEF FrameOK, WaitOK, Waits, Leaving, Sleepy, Asleep
  <2>3. wchan' = [wchan EXCEPT ![t] = cv(t)]
    BY <1>T, <2>1, <2>2, AddKeeps
  <2>4. ~Unheard(t)'
    BY <1>T, <2>2, <2>3 DEF Unheard
  <2>5. \A v \in Thread \ {t} : wake_sema'[v] = wake_sema[v]
    BY <1>T, <2>1 DEF ClearWake, WakeTypesOK
  <2> QED
    BY <1>T, <2>1, <2>3, <2>4, <2>5, QuietWake DEF ThreadTypesOK
<1>5. CASE SleepEnter(t)
  <2>1. /\ pc[t] = "presleep" /\ UNCHANGED <<defer_waiters, waddrs, drop, wake_sema, wchan>>
    BY <1>5 DEF SleepEnter, condVars, queueVars, wakerVars
  <2>2. PICK l, r : pc' = [pc EXCEPT ![t] = l] /\ call' = [call EXCEPT ![t] = r]
    <3>1. call = [call EXCEPT ![t] = @]
      BY <1>T DEF ThreadTypesOK
    <3> QED
      BY <1>5, <3>1 DEF SleepEnter, Goto, WakeThen
  <2>3. Unheard(t)' => Unheard(t)
    BY <2>1 DEF Unheard, Asleep
  <2> QED
    BY <1>T, <2>1, <2>2, <2>3, QuietWake DEF ThreadTypesOK
<1>6. CASE SleepReturn(t)
  <2>1. /\ pc[t] = "sleep" /\ pc' = [pc EXCEPT ![t] = "recheck"] /\ call' = call
        /\ UNCHANGED <<defer_waiters, waddrs, drop, wchan>>
        /\ \/ wake_sema' = [wake_sema EXCEPT ![t] = @ - 1]
           \/ wake_sema' = wake_sema
    BY <1>6 DEF SleepReturn, Goto, queueVars, wakerVars
  <2>2. ~Unheard(t)'
    BY <1>T, <2>1 DEF Unheard, Asleep, ThreadTypesOK
  <2>3. \A v \in Thread \ {t} : wake_sema'[v] = wake_sema[v]
    BY <1>T, <2>1 DEF WakeTypesOK
  <2> QED
    BY <1>T, <2>1, <2>2, <2>3, QuietWake DEF ThreadTypesOK
<1> QED
  BY <1>1, <1>2, <1>3, <1>4, <1>5, <1>6 DEF Waiting

(* A thread leaves its sleep for good only when its wakeup came.           *)
LEMMA WakingUpWake ==
  ASSUME BaseInv, NoLostWakeup, NEW t \in Thread, WakingUp(t)
  PROVE  NoLostWakeup'
<1>T. ThreadTypesOK /\ WakeTypesOK /\ CallOK(t) /\ FrameOK(t) /\ WaitOK(t)
      /\ wchan \in [Thread -> Cond \cup {NoCond}] /\ SqInv
  BY CondTypes
<1>1. CASE WaitSignalled(t)
  <2>1. /\ pc' = [pc EXCEPT ![t] = "cvlock"] /\ pc[t] = "recheck" /\ call' = call
        /\ UNCHANGED <<defer_waiters, waddrs, drop, wake_sema, wchan>>
    BY <1>1 DEF WaitSignalled, RecheckFrame, Goto, queueVars, wakerVars
  <2>2. ~Unheard(t)'
    BY <1>T, <2>1 DEF Unheard, Asleep, ThreadTypesOK
  <2> QED
    BY <1>T, <2>1, <2>2, QuietWake DEF ThreadTypesOK
<1>2. CASE WaitExpired(t)
  <2>1. /\ pc' = [pc EXCEPT ![t] = "cvlock"] /\ pc[t] = "recheck" /\ call' = call
        /\ wchan[t] # NoCond /\ SleepqRemove(cv(t), t)
        /\ UNCHANGED <<defer_waiters, waddrs, drop, wake_sema>>
    BY <1>2 DEF WaitExpired, RecheckFrame, Goto, wakerVars
  <2>2. cv(t) \in Cond /\ wchan[t] = cv(t)
    BY <1>T, <2>1 DEF FrameOK, WaitOK, Waits, Sleepy
  <2>3. wchan' = [wchan EXCEPT ![t] = NoCond]
    BY <1>T, <2>1, <2>2, RemoveKeeps
  <2>4. ~Unheard(t)'
    BY <1>T, <2>1 DEF Unheard, Asleep, ThreadTypesOK
  <2> QED
    BY <1>T, <2>1, <2>3, <2>4, QuietWake DEF ThreadTypesOK
<1>3. CASE WaitSpurious(t)
  <2>1. /\ pc' = [pc EXCEPT ![t] = "presleep"] /\ pc[t] = "recheck" /\ call' = call
        /\ wchan[t] # NoCond /\ ClearWake(t)
        /\ UNCHANGED <<defer_waiters, waddrs, drop, wchan>>
    BY <1>3 DEF WaitSpurious, RecheckFrame, Goto, queueVars, wakerVars
  <2>2. ~Unheard(t)'
    BY <2>1 DEF Unheard
  <2>3. \A v \in Thread \ {t} : wake_sema'[v] = wake_sema[v]
    BY <1>T, <2>1 DEF ClearWake, WakeTypesOK
  <2> QED
    BY <1>T, <2>1, <2>2, <2>3, QuietWake DEF ThreadTypesOK
<1>4. CASE CvLockTake(t)
  <2>1. /\ pc' = [pc EXCEPT ![t] = "cvown"] /\ pc[t] = "cvlock" /\ call' = call
        /\ UNCHANGED <<defer_waiters, waddrs, drop, wake_sema, wchan>>
    BY <1>4 DEF CvLockTake, Take, Goto, wakeVars, condVars, queueVars, wakerVars
  <2>2. ~Unheard(t)'
    BY <1>T, <2>1 DEF Unheard, Asleep, ThreadTypesOK
  <2> QED
    BY <1>T, <2>1, <2>2, QuietWake DEF ThreadTypesOK
<1>5. CASE CvLockOwn(t)
  <2>1. /\ pc' = [pc EXCEPT ![t] = "idle"] /\ pc[t] = "cvown"
        /\ call' = [call EXCEPT ![t] = NoCall]
        /\ UNCHANGED <<defer_waiters, waddrs, drop, wake_sema, wchan>>
    BY <1>5 DEF CvLockOwn, Return, Goto, wakeVars, queueVars, wakerVars
  <2>2. ~Unheard(t)'
    BY <1>T, <2>1 DEF Unheard, Asleep, ThreadTypesOK
  <2> QED
    BY <1>T, <2>1, <2>2, QuietWake DEF ThreadTypesOK
<1> QED
  BY <1>1, <1>2, <1>3, <1>4, <1>5 DEF WakingUp

(* The signaller's steps lose no wakeup.                                   *)
LEMMA WakingWake ==
  ASSUME BaseInv, NoLostWakeup, NEW t \in Thread, Waking(t)
  PROVE  NoLostWakeup'
<1>T. ThreadTypesOK /\ CallOK(t) /\ SqInv
  BY CondTypes
<1>1. CASE DropOne(t)
  BY <1>1, DropOneWake
<1>2. CASE ReleaseOne(t)
  BY <1>2, ReleaseOneWake
<1>3. CASE DropDone(t)
  <2>1. /\ pc' = [pc EXCEPT ![t] = "release"] /\ pc[t] = "drop" /\ call' = call
        /\ UNCHANGED <<defer_waiters, waddrs, drop, wake_sema, wchan>>
    BY <1>3 DEF DropDone, Goto, wakeVars, queueVars, wakerVars
  <2>2. ~Unheard(t)'
    BY <1>T, <2>1 DEF Unheard, Asleep, ThreadTypesOK
  <2> QED
    BY <1>T, <2>1, <2>2, QuietWake DEF ThreadTypesOK
<1>4. ASSUME NEW c \in Cond, BroadcastCall(t, c) PROVE NoLostWakeup'
  <2>1. wchan' = [u \in Thread |-> IF u \in Range(sq_blocked[c]) THEN NoCond ELSE wchan[u]]
    BY <1>4, BroadcastBase
  <2>2. pc[t] = "idle" /\ Dequeue(t, c, sq_blocked[c], FALSE)
    BY <1>4 DEF BroadcastCall
  <2>3. sq_blocked[c] \in Seq(Thread)
    BY <1>T DEF SqInv, SleepqTypeOK
  <2> QED
    BY <2>1, <2>2, <2>3, DequeueWake
<1>5. ASSUME NEW c \in Cond, NEW td \in Range(sq_blocked[c]), pc[t] = "idle", SignalOne(t, c, td)
      PROVE  NoLostWakeup'
  <2> DEFINE s == <<td>>
             o == OthersWait(c, td)
  <2>1. td \in Thread /\ wchan' = [wchan EXCEPT ![td] = NoCond]
    BY <1>5, SignalOneBase
  <2>2. s \in Seq(Thread) /\ o \in BOOLEAN /\ Range(s) = {td}
    BY <2>1 DEF OthersWait, Range
  <2>3. Dequeue(t, c, s, o)
    BY <1>5 DEF SignalOne
  <2>4. wchan' = [u \in Thread |-> IF u \in Range(s) THEN NoCond ELSE wchan[u]]
    BY <1>T, <2>1, <2>2 DEF SqInv, SleepqTypeOK
  <2> HIDE DEF s, o
  <2> QED
    BY <1>5, <2>2, <2>3, <2>4, DequeueWake
<1> QED
  BY <1>1, <1>2, <1>3, <1>4, <1>5 DEF Waking

(* No step loses a wakeup.                                                 *)
LEMMA StepWake == ASSUME BaseInv, NoLostWakeup, [CondNext]_cvars PROVE NoLostWakeup'
<1>1. CASE UNCHANGED cvars
  BY <1>1 DEF NoLostWakeup, WakeupOnItsWay, Asleep, cvars, vars, wakeVars, condVars, wakerVars,
       queueVars
<1>2. ASSUME NEW t \in Thread, MutexStep(t), UNCHANGED condVars PROVE NoLostWakeup'
  <2>1. PICK l \in CondLabels, r \in CallType :
           /\ pc[t] \in {"idle", "lock", "own", "unlock"}
           /\ l \in {"idle", "lock", "own", "unlock", "wakeall"} /\ r.next = "idle"
           /\ pc' = [pc EXCEPT ![t] = l] /\ call' = [call EXCEPT ![t] = r]
           /\ UNCHANGED wakeVars
    BY <1>2, MutexPath
  <2>2. UNCHANGED <<defer_waiters, wake_sema, waddrs, drop, wchan>>
    BY <1>2, <2>1 DEF wakeVars, condVars, wakerVars, queueVars
  <2>3. pc \in [Thread -> CondLabels] /\ call \in [Thread -> CallType]
    BY ThreadTypes
  <2>4. ~Unheard(t)'
    BY <2>1, <2>3 DEF Unheard, Asleep
  <2> QED
    BY <2>1, <2>2, <2>3, <2>4, QuietWake
<1> QED
  BY <1>1, <1>2, StepCases, WakeAllWake, WaitingWake, WakingUpWake, WakingWake

(* No wakeup is lost: a sleeping thread that Signal or Broadcast took off  *)
(* the queue has a token, or a thread that will release one holds it       *)
(* (ClearWake under the chain lock in Wait, defer_waiters, waddrs).        *)
THEOREM NoLostWakeupAlways == CondSpec => []NoLostWakeup
<1>1. CondInit => NoLostWakeup
  BY DEF CondInit, Init, NoLostWakeup, Asleep
<1>2. BaseInv /\ NoLostWakeup /\ [CondNext]_cvars => NoLostWakeup'
  BY StepWake
<1> QED
  BY <1>1, <1>2, BaseAlways, PTL DEF CondSpec

-----------------------------------------------------------------------------
(* Host lock and owner.  m_owner is written under the host lock, in a step *)
(* of its own.                                                             *)

(* The steps of a call in which the host lock and m_owner disagree.        *)
Transit == {"own", "unlock", "cvunlock", "cvown"}

(* Who owns a mutex holds its host lock; who holds it and is not the owner *)
(* is in one of these steps.                                               *)
HostLock ==
  \A m \in Mutex :
    /\ m_owner[m] # NoThread => m_lock[m] = m_owner[m]
    /\ \A t \in Thread :
         (m_lock[m] = t /\ m_owner[m] # t) <=> (mp(t) = m /\ pc[t] \in Transit)

(* Nobody waits for a mutex that is his own, and Wait is entered by the    *)
(* owner.                                                                  *)
OwnerOK(t) ==
  /\ pc[t] = "lock" \/ Waits(t) => m_owner[mp(t)] # t
  /\ pc[t] = "enqueue" => m_owner[mp(t)] = t

HostInv == HostLock /\ \A t \in Thread : OwnerOK(t)

(* What a step of t does to the mutexes: nothing, take the host lock of m, *)
(* own m, give up the ownership, give up the host lock.                    *)
Keeps(t) == /\ pc[t] \notin Transit /\ UNCHANGED <<m_owner, m_lock>>
            /\ pc'[t] \notin Transit /\ OwnerOK(t)'
Takes(t, m) == /\ pc[t] \in {"lock", "cvlock"} /\ mp(t) = m /\ m_lock[m] = NoThread
               /\ m_lock' = [m_lock EXCEPT ![m] = t] /\ m_owner' = m_owner
               /\ pc'[t] \in {"own", "cvown"} /\ mp(t)' = m
Owns(t, m) == /\ pc[t] \in {"own", "cvown"} /\ mp(t) = m
              /\ m_owner' = [m_owner EXCEPT ![m] = t] /\ m_lock' = m_lock
              /\ pc'[t] = "idle"
Disowns(t, m) == /\ pc[t] \in {"idle", "enqueue"} /\ m_owner[m] = t
                 /\ m_owner' = [m_owner EXCEPT ![m] = NoThread] /\ m_lock' = m_lock
                 /\ pc'[t] \in {"unlock", "cvunlock"} /\ mp(t)' = m
Releases(t, m) == /\ pc[t] \in {"unlock", "cvunlock"} /\ mp(t) = m
                  /\ m_lock' = [m_lock EXCEPT ![m] = NoThread] /\ m_owner' = m_owner
                  /\ pc'[t] \notin Transit \cup {"lock", "enqueue"}
                  /\ Waits(t)' => mp(t)' = m
OthersSame(t) == \A u \in Thread \ {t} : pc'[u] = pc[u] /\ call'[u] = call[u]

(* These moves keep the host lock and m_owner together.                    *)
LEMMA HostMoves ==
  ASSUME BaseInv, HostInv, NEW t \in Thread, OthersSame(t),
         Keeps(t) \/ \E m \in Mutex : Takes(t, m) \/ Owns(t, m) \/ Disowns(t, m) \/ Releases(t, m)
  PROVE  HostInv'
<1>0. NoThread \notin Thread
  BY MutexAssumption
<1>T. /\ m_owner \in [Mutex -> Thread \cup {NoThread}]
      /\ m_lock \in [Mutex -> Thread \cup {NoThread}]
      /\ \A u \in Thread : pc[u] \in {"lock", "enqueue"} \/ Waits(u) => mp(u) \in Mutex
  BY CondTypes DEF MutexTypesOK, CallOK, Asking
<1>1. \A u \in Thread \ {t} : mp(u)' = mp(u) /\ pc'[u] = pc[u] /\ (Waits(u)' <=> Waits(u))
  BY DEF OthersSame, mp, Waits, Leaving, Sleepy, Asleep, Resuming
<1>2. ASSUME \A m \in Mutex : m_owner'[m] # m_owner[m]
                    => {m_owner[m], m_owner'[m]} \subseteq {t, NoThread}
      PROVE  \A u \in Thread \ {t} : OwnerOK(u)'
  BY <1>0, <1>1, <1>2, <1>T DEF HostInv, OwnerOK
<1>3. \A m \in Mutex : m_lock[m] = NoThread => m_owner[m] = NoThread
  BY <1>0, <1>T DEF HostInv, HostLock
<1>4. \A m \in Mutex, u \in Thread :
         (m_lock[m] = u /\ m_owner[m] # u) <=> (mp(u) = m /\ pc[u] \in Transit)
  BY DEF HostInv, HostLock
<1>5. \A m \in Mutex : m_owner[m] # NoThread => m_lock[m] = m_owner[m]
  BY DEF HostInv, HostLock
<1>6. \A m \in Mutex, u \in Thread :
        mp(u) = m /\ pc[u] \in Transit => m_lock[m] = u /\ m_owner[m] = NoThread
  BY <1>T, <1>4, <1>5
<1>7. CASE Keeps(t)
  <2>1. HostLock'
    BY <1>1, <1>4, <1>5, <1>7 DEF HostLock, Keeps
  <2>2. \A u \in Thread \ {t} : OwnerOK(u)'
    BY <1>2, <1>7 DEF Keeps
  <2> QED
    BY <1>7, <2>1, <2>2 DEF HostInv, Keeps
<1>8. ASSUME NEW m \in Mutex, Takes(t, m) PROVE HostInv'
  <2>1. m_owner[m] = NoThread /\ pc[t] \notin Transit /\ pc'[t] \in Transit
    BY <1>3, <1>8 DEF Takes, Transit
  <2>2. HostLock'
    BY <1>0, <1>T, <1>1, <1>4, <1>5, <1>8, <2>1 DEF HostLock, Takes
  <2>3. \A u \in Thread \ {t} : OwnerOK(u)'
    BY <1>2, <1>8 DEF Takes
  <2>4. OwnerOK(t)'
    BY <1>0, <1>8, <2>1 DEF OwnerOK, Takes
  <2> QED
    BY <2>2, <2>3, <2>4 DEF HostInv
<1>9. ASSUME NEW m \in Mutex, Owns(t, m) PROVE HostInv'
  <2>1. pc[t] \in Transit /\ pc'[t] \notin Transit /\ mp(t) = m
    BY <1>9 DEF Owns, Transit
  <2>2. m_lock[m] = t /\ m_owner[m] = NoThread
    BY <1>6, <2>1
  <2>3. HostLock'
    BY <1>0, <1>T, <1>1, <1>4, <1>5, <1>9, <2>1, <2>2 DEF HostLock, Owns
  <2>4. \A u \in Thread \ {t} : OwnerOK(u)'
    BY <1>2, <1>9, <1>T, <2>2 DEF Owns
  <2>5. OwnerOK(t)'
    BY <1>9 DEF OwnerOK, Owns, Waits, Leaving, Sleepy, Asleep, Resuming
  <2> QED
    BY <2>3, <2>4, <2>5 DEF HostInv
<1>10. ASSUME NEW m \in Mutex, Disowns(t, m) PROVE HostInv'
  <2>1. pc[t] \notin Transit /\ pc'[t] \in Transit /\ mp(t)' = m /\ m_owner[m] = t
    BY <1>10 DEF Disowns, Transit
  <2>2. m_lock[m] = t
    BY <1>0, <1>5, <2>1
  <2>3. HostLock'
    BY <1>0, <1>T, <1>1, <1>4, <1>5, <1>10, <2>1, <2>2 DEF HostLock, Disowns
  <2>4. \A u \in Thread \ {t} : OwnerOK(u)'
    BY <1>2, <1>10, <1>T DEF Disowns
  <2>5. OwnerOK(t)'
    BY <1>0, <1>T, <1>10 DEF OwnerOK, Disowns
  <2> QED
    BY <2>3, <2>4, <2>5 DEF HostInv
<1>11. ASSUME NEW m \in Mutex, Releases(t, m) PROVE HostInv'
  <2>1. pc[t] \in Transit /\ pc'[t] \notin Transit /\ mp(t) = m
    BY <1>11 DEF Releases, Transit
  <2>2. m_lock[m] = t /\ m_owner[m] = NoThread
    BY <1>6, <2>1
  <2>3. HostLock'
    BY <1>0, <1>T, <1>1, <1>4, <1>5, <1>11, <2>1, <2>2 DEF HostLock, Releases
  <2>4. \A u \in Thread \ {t} : OwnerOK(u)'
    BY <1>2, <1>11 DEF Releases
  <2>5. OwnerOK(t)'
    BY <1>0, <1>11, <2>2 DEF OwnerOK, Releases
  <2> QED
    BY <2>3, <2>4, <2>5 DEF HostInv
<1> QED
  BY <1>7, <1>8, <1>9, <1>10, <1>11

(* The mutex calls make one of the moves.                                  *)
LEMMA MutexHost ==
  ASSUME BaseInv, HostInv, NEW t \in Thread, MutexStep(t)
  PROVE  HostInv'
<1>T. /\ pc \in [Thread -> CondLabels] /\ call \in [Thread -> CallType]
      /\ m_owner \in [Mutex -> Thread \cup {NoThread}] /\ CallOK(t)
  BY CondTypes DEF ThreadTypesOK, MutexTypesOK
<1>S. OthersSame(t)
  BY <1>T, MutexPath DEF OthersSame
<1>1. CASE LockCall(t)
  <2>1. PICK m \in Mutex, mode \in LockCalls : SelfLock(t, m, mode) \/ LockEnter(t, m, mode)
    BY <1>1 DEF LockCall
  <2>2. pc[t] = "idle"
    BY <1>1 DEF LockCall
  <2>3. CASE SelfLock(t, m, mode)
    <3>1. UNCHANGED <<m_owner, m_lock, pc, call>>
      BY <2>3 DEF SelfLock
    <3>2. Keeps(t)
      BY <2>2, <3>1 DEF Keeps, OwnerOK, Transit, Waits, Leaving, Sleepy, Asleep, Resuming
    <3> QED
      BY <1>S, <3>2, HostMoves
  <2>4. CASE LockEnter(t, m, mode)
    <3>1. /\ m_owner[m] # t /\ pc' = [pc EXCEPT ![t] = "lock"]
          /\ call' = [call EXCEPT ![t] = Call(m, mode, FALSE, "idle")]
          /\ UNCHANGED <<m_owner, m_lock>>
      BY <2>4 DEF LockEnter, Enter, Goto, mutexVars
    <3>2. pc'[t] = "lock" /\ mp(t)' = m
      BY <1>T, <3>1 DEF mp, Call
    <3>3. Keeps(t)
      BY <2>2, <3>1, <3>2 DEF Keeps, OwnerOK, Transit
    <3> QED
      BY <1>S, <3>3, HostMoves
  <2> QED
    BY <2>1, <2>3, <2>4
<1>2. CASE LockTake(t)
  <2>1. /\ pc[t] = "lock" /\ pc' = [pc EXCEPT ![t] = "own"] /\ call' = call
        /\ m_lock[mp(t)] = NoThread /\ m_lock' = [m_lock EXCEPT ![mp(t)] = t] /\ m_owner' = m_owner
    BY <1>2 DEF LockTake, Take, Goto
  <2>2. mp(t) \in Mutex /\ mp(t)' = mp(t) /\ pc'[t] = "own"
    BY <1>T, <2>1 DEF CallOK, Asking, mp
  <2>3. Takes(t, mp(t))
    BY <2>1, <2>2 DEF Takes
  <2> QED
    BY <1>S, <2>2, <2>3, HostMoves
<1>3. CASE LockFail(t)
  <2>1. /\ pc[t] = "lock" /\ pc' = [pc EXCEPT ![t] = "idle"] /\ UNCHANGED <<m_owner, m_lock>>
    BY <1>3 DEF LockFail, Return, Goto, mutexVars
  <2>2. pc'[t] = "idle"
    BY <1>T, <2>1
  <2>3. Keeps(t)
    BY <2>1, <2>2 DEF Keeps, OwnerOK, Transit, Waits, Leaving, Sleepy, Asleep, Resuming
  <2> QED
    BY <1>S, <2>3, HostMoves
<1>4. CASE LockOwn(t)
  <2>1. /\ pc[t] = "own" /\ pc' = [pc EXCEPT ![t] = "idle"]
        /\ m_owner' = [m_owner EXCEPT ![mp(t)] = t] /\ m_lock' = m_lock
    BY <1>4 DEF LockOwn, Return, Goto
  <2>2. mp(t) \in Mutex /\ pc'[t] = "idle"
    BY <1>T, <2>1 DEF CallOK, Asking
  <2>3. Owns(t, mp(t))
    BY <2>1, <2>2 DEF Owns
  <2> QED
    BY <1>S, <2>2, <2>3, HostMoves
<1>5. CASE \E m \in Mutex : UnlockCall(t, m)
  <2>1. PICK m \in Mutex : UnlockCall(t, m)
    BY <1>5
  <2>2. pc[t] = "idle" /\ m_owner[m] = t /\ m_lock' = m_lock
    BY <2>1 DEF UnlockCall
  <2>3. CASE Counts(m)
    <3>1. UNCHANGED <<m_owner, pc, call>>
      BY <2>1, <2>3 DEF UnlockCall
    <3>2. Keeps(t)
      BY <2>2, <3>1 DEF Keeps, OwnerOK, Transit, Waits, Leaving, Sleepy, Asleep, Resuming
    <3> QED
      BY <1>S, <3>2, HostMoves
  <2>4. CASE ~Counts(m)
    <3>1. /\ pc' = [pc EXCEPT ![t] = "unlock"] /\ m_owner' = [m_owner EXCEPT ![m] = NoThread]
          /\ call' = [call EXCEPT ![t] = Call(m, call[t].mode, m_deferred[m], call[t].next)]
      BY <2>1, <2>4 DEF UnlockCall, Disown, Goto
    <3>2. pc'[t] = "unlock" /\ mp(t)' = m
      BY <1>T, <3>1 DEF mp, Call
    <3>3. Disowns(t, m)
      BY <2>2, <3>1, <3>2 DEF Disowns
    <3> QED
      BY <1>S, <3>3, HostMoves
  <2> QED
    BY <2>3, <2>4
<1>6. CASE UnlockRelease(t)
  <2>1. /\ pc[t] = "unlock" /\ m_lock' = [m_lock EXCEPT ![mp(t)] = NoThread] /\ m_owner' = m_owner
        /\ \/ pc' = [pc EXCEPT ![t] = "idle"]
           \/ /\ pc' = [pc EXCEPT ![t] = "wakeall"]
              /\ call' = [call EXCEPT ![t] = Call(mp(t), call[t].mode, call[t].deferred, "idle")]
    BY <1>6 DEF UnlockRelease, Release, Goto, WakeThen, Return
  <2>2. mp(t) \in Mutex
    BY <1>T, <2>1 DEF CallOK, Asking
  <2>3. pc'[t] \in {"idle", "wakeall"} /\ ~Waits(t)'
    BY <1>T, <2>1 DEF Waits, Leaving, Sleepy, Asleep, Resuming, Call
  <2>4. Releases(t, mp(t))
    BY <2>1, <2>3 DEF Releases, Transit
  <2> QED
    BY <1>S, <2>2, <2>4, HostMoves
<1> QED
  BY <1>1, <1>2, <1>3, <1>4, <1>5, <1>6 DEF MutexStep

(* WakeAll is called with the host lock given back.                        *)
LEMMA WakeAllHost ==
  ASSUME BaseInv, HostInv, NEW t \in Thread, WakeAll(t)
  PROVE  HostInv'
<1>T. /\ pc \in [Thread -> CondLabels] /\ call \in [Thread -> CallType]
      /\ OwnerOK(t)
  BY CondTypes DEF ThreadTypesOK, HostInv
<1>1. pc[t] = "wakeall" /\ UNCHANGED <<m_owner, m_lock>>
  BY DEF WakeAll, mutexVars
<1>2. CASE defer_waiters[t] # <<>>
  <2>1. UNCHANGED <<pc, call>>
    BY <1>2 DEF WakeAll
  <2>2. Keeps(t)
    BY <1>T, <1>1, <2>1 DEF Keeps, OwnerOK, Transit, Waits, Leaving, Sleepy, Asleep, Resuming, mp
  <2> QED
    BY <2>1, <2>2, HostMoves DEF OthersSame
<1>3. CASE defer_waiters[t] = <<>> /\ call[t].next = "idle"
  <2>1. pc' = [pc EXCEPT ![t] = "idle"] /\ call' = [call EXCEPT ![t] = NoCall]
    BY <1>3 DEF WakeAll, Return, Goto
  <2>2. pc'[t] = "idle"
    BY <1>T, <2>1
  <2>3. Keeps(t)
    BY <1>1, <2>2 DEF Keeps, OwnerOK, Transit, Waits, Leaving, Sleepy, Asleep, Resuming
  <2> QED
    BY <1>T, <2>1, <2>3, HostMoves DEF OthersSame
<1>4. CASE defer_waiters[t] = <<>> /\ call[t].next # "idle"
  <2> DEFINE r == Call(mp(t), call[t].mode, call[t].deferred, "idle")
  <2>1. pc' = [pc EXCEPT ![t] = call[t].next] /\ call' = [call EXCEPT ![t] = r]
    BY <1>4 DEF WakeAll, WakeThen, Goto
  <2>2. r.mutex = mp(t)
    BY DEF Call
  <2>3. call[t].next \in {"sleep", "drop"}
    BY <1>T, <1>4 DEF CallType
  <2> HIDE DEF r
  <2>4. pc'[t] = call[t].next /\ mp(t)' = mp(t)
    BY <1>T, <2>1, <2>2 DEF mp
  <2>5. OthersSame(t)
    BY <1>T, <2>1 DEF OthersSame
  <2>6. OwnerOK(t)'
    BY <1>T, <1>1, <2>3, <2>4 DEF OwnerOK, Waits, Leaving, Sleepy, Asleep, Resuming
  <2>7. Keeps(t)
    BY <1>1, <2>3, <2>4, <2>6 DEF Keeps, Transit
  <2> QED
    BY <2>5, <2>7, HostMoves
<1> QED
  BY <1>2, <1>3, <1>4

(* Wait gives the mutex up as Unlock does.                                 *)
LEMMA WaitingHost ==
  ASSUME BaseInv, HostInv, NEW t \in Thread, Waiting(t)
  PROVE  HostInv'
<1>T. /\ pc \in [Thread -> CondLabels] /\ call \in [Thread -> CallType]
      /\ m_owner \in [Mutex -> Thread \cup {NoThread}] /\ CallOK(t) /\ OwnerOK(t)
  BY CondTypes DEF ThreadTypesOK, MutexTypesOK, HostInv
<1>1. CASE WaitCall(t)
  <2>1. PICK c \in Cond, m \in Mutex, mode \in WaitCalls[t] :
          m_owner[m] = t /\ call' = [call EXCEPT ![t] = Call(m, mode, FALSE, "idle")]
    BY <1>1 DEF WaitCall, Enter
  <2>2. pc[t] = "idle" /\ pc' = [pc EXCEPT ![t] = "enqueue"] /\ UNCHANGED <<m_owner, m_lock>>
    BY <1>1 DEF WaitCall, Goto, mutexVars
  <2>3. pc'[t] = "enqueue" /\ mp(t)' = m
    BY <1>T, <2>1, <2>2 DEF mp, Call
  <2>4. Keeps(t)
    BY <2>1, <2>2, <2>3 DEF Keeps, OwnerOK, Transit, Waits, Leaving, Sleepy, Asleep, Resuming
  <2> QED
    BY <1>T, <2>1, <2>2, <2>4, HostMoves DEF OthersSame
<1>2. CASE WaitUnlock(t)
  <2> DEFINE m == mp(t)
  <2>1. /\ pc[t] = "enqueue" /\ pc' = [pc EXCEPT ![t] = "cvunlock"]
        /\ call' = [call EXCEPT ![t] = Call(m, call[t].mode, m_deferred[m], call[t].next)]
        /\ m_owner' = [m_owner EXCEPT ![m] = NoThread] /\ m_lock' = m_lock
    BY <1>2 DEF WaitUnlock, Disown, Goto
  <2>2. m \in Mutex /\ m_owner[m] = t
    BY <1>T, <2>1 DEF CallOK, Asking, OwnerOK
  <2>3. pc'[t] = "cvunlock" /\ mp(t)' = m
    BY <1>T, <2>1 DEF mp, Call
  <2> HIDE DEF m
  <2>4. Disowns(t, m)
    BY <2>1, <2>2, <2>3 DEF Disowns
  <2> QED
    BY <1>T, <2>1, <2>2, <2>4, HostMoves DEF OthersSame
<1>3. CASE WaitRelease(t)
  <2>1. pc[t] = "cvunlock" /\ will_sleep[t] /\ mp(t) \in Mutex
    BY <1>T, <1>3 DEF WaitRelease, Release, CallOK, Leaving, Waits
  <2>2. /\ pc' = [pc EXCEPT ![t] = "queue"] /\ call' = call
        /\ m_lock' = [m_lock EXCEPT ![mp(t)] = NoThread] /\ m_owner' = m_owner
    BY <1>3, <2>1 DEF WaitRelease, Release, Goto
  <2>3. pc'[t] = "queue" /\ mp(t)' = mp(t)
    BY <1>T, <2>2 DEF mp
  <2>4. Releases(t, mp(t))
    BY <2>1, <2>2, <2>3 DEF Releases, Transit
  <2> QED
    BY <1>T, <2>1, <2>2, <2>4, HostMoves DEF OthersSame
<1>4. CASE WaitAdd(t)
  <2>1. /\ pc[t] = "queue" /\ pc' = [pc EXCEPT ![t] = "presleep"] /\ call' = call
        /\ UNCHANGED <<m_owner, m_lock>>
    BY <1>4 DEF WaitAdd, Goto, mutexVars
  <2>2. Keeps(t)
    BY <1>T, <2>1 DEF Keeps, OwnerOK, Transit, Waits, Leaving, Sleepy, Asleep, Resuming, mp
  <2> QED
    BY <1>T, <2>1, <2>2, HostMoves DEF OthersSame
<1>5. CASE SleepEnter(t)
  <2> DEFINE r == Call(mp(t), call[t].mode, call[t].deferred, "sleep")
  <2>1. pc[t] = "presleep" /\ UNCHANGED <<m_owner, m_lock>>
    BY <1>5 DEF SleepEnter, mutexVars
  <2>2. \/ pc' = [pc EXCEPT ![t] = "sleep"] /\ call' = call
        \/ pc' = [pc EXCEPT ![t] = "wakeall"] /\ call' = [call EXCEPT ![t] = r]
    BY <1>5 DEF SleepEnter, Goto, WakeThen
  <2>3. r.mutex = mp(t)
    BY DEF Call
  <2> HIDE DEF r
  <2>4. pc'[t] \in {"sleep", "wakeall"} /\ mp(t)' = mp(t)
    BY <1>T, <2>2, <2>3 DEF mp
  <2>5. OthersSame(t)
    BY <1>T, <2>2 DEF OthersSame
  <2>6. m_owner[mp(t)] # t
    BY <1>T, <2>1 DEF OwnerOK, Waits, Sleepy, Asleep
  <2>7. Keeps(t)
    BY <2>1, <2>4, <2>6 DEF Keeps, OwnerOK, Transit
  <2> QED
    BY <2>5, <2>7, HostMoves
<1>6. CASE SleepReturn(t)
  <2>1. /\ pc[t] = "sleep" /\ pc' = [pc EXCEPT ![t] = "recheck"] /\ call' = call
        /\ UNCHANGED <<m_owner, m_lock>>
    BY <1>6 DEF SleepReturn, Goto, mutexVars
  <2>2. Keeps(t)
    BY <1>T, <2>1 DEF Keeps, OwnerOK, Transit, Waits, Leaving, Sleepy, Asleep, Resuming, mp
  <2> QED
    BY <1>T, <2>1, <2>2, HostMoves DEF OthersSame
<1> QED
  BY <1>1, <1>2, <1>3, <1>4, <1>5, <1>6 DEF Waiting

(* CvLock takes the mutex as Lock does.                                    *)
LEMMA WakingUpHost ==
  ASSUME BaseInv, HostInv, NEW t \in Thread, WakingUp(t)
  PROVE  HostInv'
<1>T. /\ pc \in [Thread -> CondLabels] /\ call \in [Thread -> CallType]
      /\ m_owner \in [Mutex -> Thread \cup {NoThread}] /\ CallOK(t) /\ OwnerOK(t)
  BY CondTypes DEF ThreadTypesOK, MutexTypesOK, HostInv
<1>1. CASE WaitSignalled(t) \/ WaitExpired(t) \/ WaitSpurious(t)
  <2>1. pc[t] = "recheck" /\ UNCHANGED <<m_owner, m_lock, call>>
    BY <1>1 DEF WaitSignalled, WaitExpired, WaitSpurious, RecheckFrame, mutexVars
  <2>2. pc' = [pc EXCEPT ![t] = "cvlock"] \/ pc' = [pc EXCEPT ![t] = "presleep"]
    BY <1>1 DEF WaitSignalled, WaitExpired, WaitSpurious, Goto
  <2>3. pc'[t] \in {"cvlock", "presleep"} /\ OthersSame(t)
    BY <1>T, <2>1, <2>2 DEF OthersSame
  <2>4. Keeps(t)
    BY <1>T, <2>1, <2>3 DEF Keeps, OwnerOK, Transit, Waits, Leaving, Sleepy, Asleep, Resuming, mp
  <2> QED
    BY <2>3, <2>4, HostMoves
<1>2. CASE CvLockTake(t)
  <2>1. /\ pc[t] = "cvlock" /\ pc' = [pc EXCEPT ![t] = "cvown"] /\ call' = call
        /\ m_lock[mp(t)] = NoThread /\ m_lock' = [m_lock EXCEPT ![mp(t)] = t] /\ m_owner' = m_owner
    BY <1>2 DEF CvLockTake, Take, Goto
  <2>2. mp(t) \in Mutex /\ mp(t)' = mp(t) /\ pc'[t] = "cvown"
    BY <1>T, <2>1 DEF CallOK, Waits, Resuming, mp
  <2>3. Takes(t, mp(t))
    BY <2>1, <2>2 DEF Takes
  <2> QED
    BY <1>T, <2>1, <2>2, <2>3, HostMoves DEF OthersSame
<1>3. CASE CvLockOwn(t)
  <2>1. /\ pc[t] = "cvown" /\ pc' = [pc EXCEPT ![t] = "idle"] /\ call' = [call EXCEPT ![t] = NoCall]
        /\ m_owner' = [m_owner EXCEPT ![mp(t)] = t] /\ m_lock' = m_lock
    BY <1>3 DEF CvLockOwn, Return, Goto
  <2>2. mp(t) \in Mutex /\ pc'[t] = "idle"
    BY <1>T, <2>1 DEF CallOK, Waits, Resuming
  <2>3. Owns(t, mp(t))
    BY <2>1, <2>2 DEF Owns
  <2> QED
    BY <1>T, <2>1, <2>2, <2>3, HostMoves DEF OthersSame
<1> QED
  BY <1>1, <1>2, <1>3 DEF WakingUp

(* A signaller touches no mutex but its Deferred flag.                     *)
LEMMA WakingHost ==
  ASSUME BaseInv, HostInv, NEW t \in Thread, Waking(t)
  PROVE  HostInv'
<1>T. /\ pc \in [Thread -> CondLabels] /\ call \in [Thread -> CallType] /\ CallOK(t)
  BY CondTypes DEF ThreadTypesOK
<1>1. ASSUME pc[t] \in {"idle", "drop", "flush", "release"}, UNCHANGED <<m_owner, m_lock>>,
             OthersSame(t), pc'[t] \in {"idle", "drop", "flush", "release", "wakeall"},
             pc'[t] = "wakeall" => call'[t].next = "drop"
      PROVE  HostInv'
  <2>1. Keeps(t)
    BY <1>1 DEF Keeps, OwnerOK, Transit, Waits, Leaving, Sleepy, Asleep, Resuming
  <2> QED
    BY <1>1, <2>1, HostMoves
<1>2. CASE DropOne(t)
  <2> DEFINE r == Call(mp(t), call[t].mode, call[t].deferred, "drop")
  <2>1. pc[t] = "drop" /\ UNCHANGED <<m_owner, m_lock>>
    BY <1>2 DEF DropOne
  <2>2. \/ pc' = [pc EXCEPT ![t] = "wakeall"] /\ call' = [call EXCEPT ![t] = r]
        \/ UNCHANGED <<pc, call>>
        \/ pc' = [pc EXCEPT ![t] = "flush"] /\ call' = call
    BY <1>2 DEF DropOne, Goto, WakeThen
  <2>3. r.next = "drop"
    BY DEF Call
  <2> HIDE DEF r
  <2>4. OthersSame(t)
    BY <1>T, <2>2 DEF OthersSame
  <2>5. /\ pc'[t] \in {"drop", "flush", "wakeall"}
        /\ pc'[t] = "wakeall" => call'[t].next = "drop"
    BY <1>T, <2>1, <2>2, <2>3
  <2> QED
    BY <1>1, <2>1, <2>4, <2>5
<1>3. CASE DropDone(t)
  <2>1. /\ pc[t] = "drop" /\ pc' = [pc EXCEPT ![t] = "release"] /\ call' = call
        /\ UNCHANGED <<m_owner, m_lock>>
    BY <1>3 DEF DropDone, Goto, mutexVars
  <2> QED
    BY <1>T, <1>1, <2>1 DEF OthersSame
<1>4. CASE ReleaseOne(t)
  <2>1. /\ pc[t] \in {"release", "flush"} /\ call' = call
        /\ UNCHANGED <<m_owner, m_lock>>
    BY <1>4 DEF ReleaseOne, mutexVars
  <2>2. \/ pc' = pc
        \/ pc' = [pc EXCEPT ![t] = IF pc[t] = "flush" THEN "drop" ELSE "idle"]
    BY <1>4 DEF ReleaseOne, Goto
  <2>3. pc'[t] \in {"idle", "drop", "release", "flush"} /\ OthersSame(t)
    BY <1>T, <2>1, <2>2 DEF OthersSame
  <2> QED
    BY <1>1, <2>1, <2>3
<1>5. ASSUME pc[t] = "idle", NEW c, NEW s, NEW o, Dequeue(t, c, s, o) PROVE HostInv'
  <2>1. pc' = [pc EXCEPT ![t] = "drop"] /\ call' = call /\ UNCHANGED <<m_owner, m_lock>>
    BY <1>5 DEF Dequeue, Goto, mutexVars
  <2> QED
    BY <1>T, <1>1, <1>5, <2>1 DEF OthersSame
<1>6. CASE \E c \in Cond : BroadcastCall(t, c)
  BY <1>5, <1>6 DEF BroadcastCall
<1>7. CASE \E c \in Cond : pc[t] = "idle" /\ \E td \in Range(sq_blocked[c]) : SignalOne(t, c, td)
  BY <1>5, <1>7 DEF SignalOne
<1> QED
  BY <1>2, <1>3, <1>4, <1>6, <1>7 DEF Waking

(* Every step keeps the host lock and m_owner together.                    *)
LEMMA StepHost == ASSUME BaseInv, HostInv, [CondNext]_cvars PROVE HostInv'
<1>1. CASE UNCHANGED cvars
  BY <1>1 DEF HostInv, HostLock, OwnerOK, Waits, Leaving, Sleepy, Asleep, Resuming, mp, cvars, vars,
              mutexVars
<1> QED
  BY <1>1, StepCases, MutexHost, WakeAllHost, WaitingHost, WakingUpHost, WakingHost

(* Between the calls m_owner is who holds the host lock.                   *)
LEMMA HostAlways == CondSpec => []HostInv
<1>1. CondInit => HostInv
  <2> SUFFICES ASSUME CondInit PROVE HostInv
    OBVIOUS
  <2>1. /\ m_owner = [m \in Mutex |-> NoThread] /\ m_lock = [m \in Mutex |-> NoThread]
        /\ pc = [t \in Thread |-> "idle"]
    BY DEF CondInit, Init
  <2>2. NoThread \notin Thread
    BY MutexAssumption
  <2>3. \A m \in Mutex : m_owner[m] = NoThread /\ m_lock[m] = NoThread
    BY <2>1
  <2>4. \A t \in Thread : pc[t] = "idle"
    BY <2>1
  <2>5. HostLock
    BY <2>2, <2>3, <2>4 DEF HostLock, Transit
  <2>6. \A t \in Thread : OwnerOK(t)
    BY <2>4 DEF OwnerOK, Waits, Leaving, Sleepy, Asleep, Resuming
  <2> QED
    BY <2>5, <2>6 DEF HostInv
<1>2. BaseInv /\ HostInv /\ [CondNext]_cvars => HostInv'
  BY StepHost
<1> QED
  BY <1>1, <1>2, BaseAlways, PTL DEF CondSpec

-----------------------------------------------------------------------------
(* The chain lock.  What a signaller finds when it gets the chain lock.    *)

(* The steps of a call under the chain lock.                               *)
HoldsChain(t) == Leaving(t) \/ Dropping(t)

(* The chain lock has a holder exactly in these steps of a call.           *)
ChainHeld ==
  \A h \in Chain, t \in Thread : sc_lock[h] = t <=> HoldsChain(t) /\ chain(t) = h

(* The flag: somebody is in the queue or about to enter it.                *)
FlagsOK ==
  \A c \in Cond :
    has_user_waiters[c] <=> \/ sq_blocked[c] # <<>>
                            \/ \E t \in Thread : Leaving(t) /\ cv(t) = c

(* A thread that was taken off a queue and not handled yet cannot leave    *)
(* its wait: the chain lock it needs is the signaller's.                   *)
DropsOK ==
  \A t, u \in Thread : u \in Range(drop[t]) =>
    Sleepy(u) /\ wchan[u] = NoCond /\ cv(u) = cv(t)

ChainInv == ChainHeld /\ FlagsOK /\ DropsOK

(* The other threads stay where they are.                                  *)
OthersStay(t) ==
  \A u \in Thread \ {t} :
    pc'[u] = pc[u] /\ call'[u] = call[u] /\ frame'[u].cond = frame[u].cond

(* What depends on the pc, the call and the condition variable of a thread *)
(* stays with them.                                                        *)
LEMMA Stay ==
  ASSUME NEW t \in Thread, OthersStay(t)
  PROVE  \A u \in Thread \ {t} :
           /\ (Leaving(u)' <=> Leaving(u)) /\ (Dropping(u)' <=> Dropping(u))
           /\ (HoldsChain(u)' <=> HoldsChain(u)) /\ (Sleepy(u)' <=> Sleepy(u))
           /\ cv(u)' = cv(u) /\ chain(u)' = chain(u)
  BY DEF OthersStay, Leaving, Dropping, HoldsChain, Sleepy, Asleep, cv, chain

(* The types this layer uses.                                              *)
LEMMA ChainTypes ==
  ASSUME BaseInv
  PROVE  /\ sc_lock \in [Chain -> Thread \cup {NoThread}]
         /\ has_user_waiters \in [Cond -> BOOLEAN]
         /\ drop \in [Thread -> Seq(Thread)]
         /\ \A t \in Thread : HoldsChain(t) \/ Sleepy(t) => cv(t) \in Cond /\ chain(t) \in Chain
         /\ NoThread \notin Thread
<1>1. ASSUME NEW t \in Thread, HoldsChain(t) \/ Sleepy(t) PROVE cv(t) \in Cond
  BY <1>1, CondTypes DEF FrameOK, HoldsChain, Waits
<1> QED
  BY <1>1, CondTypes, CondAssumption, MutexAssumption DEF ChainTypesOK, WakeTypesOK, chain

(* A step that neither locks nor unlocks a chain, and leaves its sleep, if *)
(* it does, only with the chain unlocked.                                  *)
LEMMA ChainQuiet ==
  ASSUME BaseInv, ChainInv, NEW t \in Thread, OthersStay(t),
         UNCHANGED <<sc_lock, has_user_waiters, sq_blocked>>,
         \A u \in Thread : Range(drop'[u]) \subseteq Range(drop[u]),
         \A u \in Thread \ {t} : wchan'[u] = wchan[u],
         Leaving(t)' <=> Leaving(t), Dropping(t)' <=> Dropping(t),
         HoldsChain(t) => cv(t)' = cv(t),
         Sleepy(t) => \/ Sleepy(t)' /\ wchan'[t] = wchan[t] /\ cv(t)' = cv(t)
                      \/ sc_lock[chain(t)] = NoThread
  PROVE  ChainInv'
<1>T. /\ \A u \in Thread : HoldsChain(u) \/ Sleepy(u) => cv(u) \in Cond /\ chain(u) \in Chain
      /\ NoThread \notin Thread /\ drop \in [Thread -> Seq(Thread)]
  BY ChainTypes
<1>S. \A u \in Thread \ {t} :
           /\ (Leaving(u)' <=> Leaving(u)) /\ (Dropping(u)' <=> Dropping(u))
           /\ (HoldsChain(u)' <=> HoldsChain(u)) /\ (Sleepy(u)' <=> Sleepy(u))
           /\ cv(u)' = cv(u) /\ chain(u)' = chain(u)
  BY Stay
<1>C. ChainHeld /\ FlagsOK /\ DropsOK
  BY DEF ChainInv
<1>1. (HoldsChain(t)' <=> HoldsChain(t)) /\ (HoldsChain(t) => chain(t)' = chain(t))
  BY DEF HoldsChain, chain
<1>2. ChainHeld'
  BY <1>S, <1>C, <1>1 DEF ChainHeld
<1>3. FlagsOK'
  <2>1. ASSUME NEW u \in Thread, NEW c \in Cond
        PROVE  (Leaving(u) /\ cv(u) = c)' <=> Leaving(u) /\ cv(u) = c
    <3>1. CASE u = t
      BY <3>1 DEF HoldsChain
    <3>2. CASE u # t
      BY <1>S, <3>2
    <3> QED
      BY <3>1, <3>2
  <2> QED
    BY <1>C, <2>1 DEF FlagsOK
<1>4. ASSUME NEW v \in Thread, NEW u \in Range(drop'[v]), u \in Thread
      PROVE  Sleepy(u)' /\ wchan'[u] = NoCond /\ cv(u)' = cv(v)'
  <2>1. u \in Range(drop[v])
    OBVIOUS
  <2>2. Sleepy(u) /\ wchan[u] = NoCond /\ cv(u) = cv(v)
    BY <1>4, <1>C, <2>1 DEF DropsOK
  <2>3. Dropping(v) /\ HoldsChain(v)
    <3>1. drop[v] # <<>>
      BY <2>1 DEF Range
    <3> QED
      BY <3>1, CondTypes DEF BatchOK, HoldsChain
  <2>4. cv(v)' = cv(v)
    BY <1>S, <2>3
  <2>5. sc_lock[chain(u)] = v
    BY <1>T, <1>C, <2>2, <2>3 DEF ChainHeld, chain
  <2>6. CASE u = t
    BY <1>T, <2>2, <2>4, <2>5, <2>6
  <2>7. CASE u # t
    BY <1>4, <1>S, <2>2, <2>4, <2>7
  <2> QED
    BY <2>6, <2>7
<1> QED
  BY <1>2, <1>3, <1>4 DEF ChainInv, DropsOK

(* A mutex call has no chain lock.                                         *)
LEMMA MutexChain ==
  ASSUME BaseInv, ChainInv, NEW t \in Thread, MutexStep(t), UNCHANGED condVars
  PROVE  ChainInv'
<1>T. pc \in [Thread -> CondLabels] /\ call \in [Thread -> CallType]
  BY ThreadTypes
<1>1. PICK l \in CondLabels, r \in CallType :
           /\ pc[t] \in {"idle", "lock", "own", "unlock"}
           /\ l \in {"idle", "lock", "own", "unlock", "wakeall"} /\ r.next = "idle"
           /\ pc' = [pc EXCEPT ![t] = l] /\ call' = [call EXCEPT ![t] = r]
           /\ UNCHANGED wakeVars
  BY MutexPath
<1>2. pc'[t] = l /\ call'[t] = r
  BY <1>T, <1>1
<1>3. UNCHANGED <<sc_lock, has_user_waiters, sq_blocked, drop, wchan, frame>>
  BY DEF condVars, wakerVars, queueVars
<1>4. OthersStay(t)
  BY <1>T, <1>1, <1>3 DEF OthersStay
<1>5. /\ ~Leaving(t) /\ ~Leaving(t)' /\ ~Dropping(t) /\ ~Dropping(t)' /\ ~Sleepy(t)
      /\ ~HoldsChain(t)
  BY <1>1, <1>2 DEF Leaving, Dropping, Sleepy, Asleep, HoldsChain
<1> QED
  BY <1>3, <1>4, <1>5, ChainQuiet

(* WakeAll may run with the chain lock held, when the deferred waiters are *)
(* too many, and then goes back to the signaller's loop.                   *)
LEMMA WakeAllChain ==
  ASSUME BaseInv, ChainInv, NEW t \in Thread, WakeAll(t), UNCHANGED condVars
  PROVE  ChainInv'
<1>T. pc \in [Thread -> CondLabels] /\ call \in [Thread -> CallType]
  BY ThreadTypes
<1>1. /\ UNCHANGED <<sc_lock, has_user_waiters, sq_blocked, drop, wchan, frame>>
      /\ pc[t] = "wakeall"
  BY DEF condVars, wakerVars, queueVars, WakeAll
<1>2. cv(t)' = cv(t)
  BY <1>1 DEF cv
<1>3. CASE defer_waiters[t] # <<>>
  <2>1. UNCHANGED <<pc, call>>
    BY <1>3 DEF WakeAll
  <2>2. /\ OthersStay(t) /\ (Leaving(t)' <=> Leaving(t)) /\ (Dropping(t)' <=> Dropping(t))
        /\ (Sleepy(t)' <=> Sleepy(t))
    BY <1>1, <2>1 DEF OthersStay, Leaving, Dropping, Sleepy, Asleep
  <2> QED
    BY <1>1, <1>2, <2>2, ChainQuiet
<1>4. CASE defer_waiters[t] = <<>>
  <2>1. PICK r : /\ pc' = [pc EXCEPT ![t] = call[t].next]
                 /\ call' = [call EXCEPT ![t] = r] /\ r.next = "idle"
    <3>1. CASE call[t].next = "idle"
      BY <1>4, <3>1 DEF WakeAll, Return, Goto, NoCall, Call
    <3>2. CASE call[t].next # "idle"
      <4> DEFINE r == Call(mp(t), call[t].mode, call[t].deferred, "idle")
      <4>1. /\ pc' = [pc EXCEPT ![t] = call[t].next] /\ call' = [call EXCEPT ![t] = r]
        BY <1>4, <3>2 DEF WakeAll, WakeThen, Goto
      <4>2. r.next = "idle"
        BY DEF Call
      <4> HIDE DEF r
      <4> QED
        BY <4>1, <4>2
    <3> QED
      BY <3>1, <3>2
  <2>2. call[t].next \in {"idle", "sleep", "drop"}
    BY <1>T DEF CallType
  <2>3. pc'[t] = call[t].next /\ OthersStay(t)
    BY <1>T, <1>1, <2>1 DEF OthersStay
  <2>4. /\ (Leaving(t)' <=> Leaving(t)) /\ (Dropping(t)' <=> Dropping(t))
           /\ (Sleepy(t)' <=> Sleepy(t))
    BY <1>1, <2>2, <2>3 DEF Leaving, Dropping, Sleepy, Asleep
  <2> QED
    BY <1>1, <1>2, <2>3, <2>4, ChainQuiet
<1> QED
  BY <1>3, <1>4

(* Wait sets the flag and takes the chain lock before it gives the mutex   *)
(* up, and gives the chain lock back with the thread in the queue.         *)
LEMMA WaitingChain ==
  ASSUME BaseInv, ChainInv, NEW t \in Thread, Waiting(t)
  PROVE  ChainInv'
<1>T. /\ ThreadTypesOK /\ WakeTypesOK /\ ChainTypesOK /\ CallOK(t) /\ FrameOK(t) /\ WaitOK(t)
      /\ BatchOK(t)
      /\ wchan \in [Thread -> Cond \cup {NoCond}] /\ SqInv
  BY CondTypes
<1>D. /\ \A u \in Thread : HoldsChain(u) \/ Sleepy(u) => cv(u) \in Cond /\ chain(u) \in Chain
      /\ NoThread \notin Thread
  BY ChainTypes
<1>C. ChainHeld /\ FlagsOK /\ DropsOK
  BY DEF ChainInv
<1>1. CASE WaitCall(t)
  <2>1. /\ pc[t] = "idle" /\ pc' = [pc EXCEPT ![t] = "enqueue"]
        /\ wchan' = [wchan EXCEPT ![t] = NoCond]
        /\ UNCHANGED <<sc_lock, has_user_waiters, sq_blocked, drop>>
    BY <1>1 DEF WaitCall, Goto, wakerVars
  <2>2. PICK r, f : call' = [call EXCEPT ![t] = r] /\ frame' = [frame EXCEPT ![t] = f]
    BY <1>1 DEF WaitCall, Enter
  <2>3. OthersStay(t) /\ pc'[t] = "enqueue"
    BY <1>T, <2>1, <2>2 DEF OthersStay, ThreadTypesOK
  <2>4. /\ ~Leaving(t) /\ ~Leaving(t)' /\ ~Dropping(t) /\ ~Dropping(t)' /\ ~Sleepy(t)
        /\ ~HoldsChain(t)
    BY <2>1, <2>3 DEF Leaving, Dropping, Sleepy, Asleep, HoldsChain
  <2>5. \A u \in Thread \ {t} : wchan'[u] = wchan[u]
    BY <1>T, <2>1
  <2> QED
    BY <2>1, <2>3, <2>4, <2>5, ChainQuiet
<1>2. CASE WaitUnlock(t)
  <2> DEFINE c == cv(t)
             h == Hash[c]
  <2>1. /\ pc[t] = "enqueue" /\ pc' = [pc EXCEPT ![t] = "cvunlock"]
        /\ sc_lock[h] = NoThread /\ sc_lock' = [sc_lock EXCEPT ![h] = t]
        /\ has_user_waiters' = [has_user_waiters EXCEPT ![c] = TRUE]
        /\ UNCHANGED <<sq_blocked, drop, wchan>>
    BY <1>2 DEF WaitUnlock, Disown, Goto, wakerVars, queueVars, chain
  <2>2. PICK r, n : call' = [call EXCEPT ![t] = r] /\ frame' = [frame EXCEPT ![t].recurse = n]
    BY <1>2 DEF WaitUnlock, Disown
  <2>3. OthersStay(t) /\ pc'[t] = "cvunlock" /\ frame'[t].cond = c
    BY <1>T, <2>1, <2>2 DEF OthersStay, ThreadTypesOK, FrameType, cv
  <2>4. c \in Cond /\ h \in Chain
    BY <1>T, <2>1, CondAssumption DEF FrameOK
  <2>5. cv(t)' = c /\ chain(t)' = h /\ Leaving(t)' /\ HoldsChain(t)' /\ ~Sleepy(t) /\ ~HoldsChain(t)
    BY <2>1, <2>3 DEF cv, chain, Leaving, Dropping, Sleepy, Asleep, HoldsChain
  <2> HIDE DEF c, h
  <2>S. \A u \in Thread \ {t} :
           /\ (Leaving(u)' <=> Leaving(u)) /\ (HoldsChain(u)' <=> HoldsChain(u))
              /\ (Sleepy(u)' <=> Sleepy(u))
           /\ cv(u)' = cv(u) /\ chain(u)' = chain(u)
    BY <2>3, Stay
  <2>6. ChainHeld'
    <3>1. ASSUME NEW k \in Chain, NEW u \in Thread
          PROVE  sc_lock'[k] = u <=> HoldsChain(u)' /\ chain(u)' = k
      <4>1. CASE u = t
        BY <1>T, <1>C, <2>1, <2>4, <2>5, <4>1 DEF ChainHeld, ChainTypesOK
      <4>2. CASE u # t
        BY <1>T, <1>C, <1>D, <2>1, <2>4, <2>S, <4>2 DEF ChainHeld, ChainTypesOK
      <4> QED
        BY <4>1, <4>2
    <3> QED
      BY <3>1 DEF ChainHeld
  <2>7. FlagsOK'
    <3>1. ASSUME NEW d \in Cond PROVE has_user_waiters'[d] <=> \/ sq_blocked'[d] # <<>>
                            \/ \E u \in Thread : Leaving(u)' /\ cv(u)' = d
      <4>1. CASE d = c
        BY <1>T, <2>1, <2>4, <2>5, <4>1 DEF ChainTypesOK
      <4>2. CASE d # c
        <5>1. has_user_waiters'[d] = has_user_waiters[d] /\ sq_blocked'[d] = sq_blocked[d]
          BY <1>T, <2>1, <4>2 DEF ChainTypesOK
        <5>2. \A u \in Thread : Leaving(u)' /\ cv(u)' = d <=> Leaving(u) /\ cv(u) = d
          BY <2>S, <2>5, <4>2 DEF HoldsChain
        <5> QED
          BY <1>C, <5>1, <5>2 DEF FlagsOK
      <4> QED
        BY <4>1, <4>2
    <3> QED
      BY <3>1 DEF FlagsOK
  <2>8. DropsOK'
    <3>1. drop[t] = <<>>
      BY <1>T, <2>5 DEF BatchOK, HoldsChain
    <3>2. ASSUME NEW v \in Thread, NEW u \in Thread, u \in Range(drop[v])
          PROVE  Sleepy(u)' /\ wchan'[u] = NoCond /\ cv(u)' = cv(v)'
      <4>1. v # t
        BY <3>1, <3>2 DEF Range
      <4>2. Sleepy(u) /\ wchan[u] = NoCond /\ cv(u) = cv(v)
        BY <1>C, <3>2 DEF DropsOK
      <4> QED
        BY <2>1, <2>5, <2>S, <4>1, <4>2
    <3> QED
      BY <2>1, <3>2 DEF DropsOK
  <2> QED
    BY <2>6, <2>7, <2>8 DEF ChainInv
<1>3. CASE WaitRelease(t)
  <2>1. pc[t] = "cvunlock" /\ will_sleep[t]
    BY <1>T, <1>3 DEF WaitRelease, Release, CallOK, Leaving
  <2>2. /\ pc' = [pc EXCEPT ![t] = "queue"]
        /\ UNCHANGED <<sc_lock, has_user_waiters, sq_blocked, drop, wchan, call, frame>>
    BY <1>3, <2>1 DEF WaitRelease, Release, Goto, condVars, queueVars, wakerVars
  <2>3. OthersStay(t) /\ pc'[t] = "queue" /\ cv(t)' = cv(t)
    BY <1>T, <2>2 DEF OthersStay, ThreadTypesOK, cv
  <2>4. /\ Leaving(t) /\ Leaving(t)' /\ ~Dropping(t) /\ ~Dropping(t)' /\ ~Sleepy(t)
    BY <2>1, <2>3 DEF Leaving, Dropping, Sleepy, Asleep
  <2> QED
    BY <2>2, <2>3, <2>4, ChainQuiet
<1>4. CASE WaitAdd(t)
  <2> DEFINE c == cv(t)
             h == Hash[c]
  <2>1. /\ pc[t] = "queue" /\ pc' = [pc EXCEPT ![t] = "presleep"]
        /\ sc_lock' = [sc_lock EXCEPT ![h] = NoThread] /\ SleepqAdd(c, t)
        /\ UNCHANGED <<has_user_waiters, drop, call, frame>>
    BY <1>4 DEF WaitAdd, Goto, wakerVars, chain
  <2>3. OthersStay(t) /\ pc'[t] = "presleep"
    BY <1>T, <2>1 DEF OthersStay, ThreadTypesOK
  <2>4. Leaving(t) /\ HoldsChain(t) /\ ~Sleepy(t) /\ wchan[t] = NoCond /\ drop[t] = <<>>
    BY <1>T, <2>1 DEF Leaving, HoldsChain, Sleepy, Asleep, WaitOK, BatchOK, Dropping
  <2>5. c \in Cond /\ h \in Chain /\ sc_lock[h] = t
    BY <1>D, <1>C, <2>4 DEF ChainHeld, chain
  <2>6. /\ wchan' = [wchan EXCEPT ![t] = c] /\ sq_blocked'[c] # <<>>
        /\ \A d \in Cond \ {c} : sq_blocked'[d] = sq_blocked[d]
    BY <1>T, <2>1, <2>4, <2>5, AddKeeps
  <2>7. ~Leaving(t)' /\ ~HoldsChain(t)' /\ chain(t) = h
    BY <2>3 DEF Leaving, Dropping, HoldsChain, chain
  <2> HIDE DEF c, h
  <2>S. \A u \in Thread \ {t} :
           /\ (Leaving(u)' <=> Leaving(u)) /\ (HoldsChain(u)' <=> HoldsChain(u))
              /\ (Sleepy(u)' <=> Sleepy(u))
           /\ cv(u)' = cv(u) /\ chain(u)' = chain(u)
    BY <2>3, Stay
  <2>8. ChainHeld'
    <3>1. ASSUME NEW k \in Chain, NEW u \in Thread
          PROVE  sc_lock'[k] = u <=> HoldsChain(u)' /\ chain(u)' = k
      <4>1. CASE u = t
        BY <1>T, <1>C, <1>D, <2>1, <2>4, <2>5, <2>7, <4>1 DEF ChainHeld, ChainTypesOK
      <4>2. CASE u # t
        BY <1>T, <1>C, <1>D, <2>1, <2>5, <2>S, <4>2 DEF ChainHeld, ChainTypesOK
      <4> QED
        BY <4>1, <4>2
    <3> QED
      BY <3>1 DEF ChainHeld
  <2>9. FlagsOK'
    <3>1. ASSUME NEW d \in Cond PROVE has_user_waiters'[d] <=> \/ sq_blocked'[d] # <<>>
                            \/ \E u \in Thread : Leaving(u)' /\ cv(u)' = d
      <4>0. has_user_waiters'[d] = has_user_waiters[d]
        BY <2>1
      <4>1. CASE d = c
        <5>1. has_user_waiters[c]
          BY <1>C, <2>4, <2>5 DEF FlagsOK, c
        <5> QED
          BY <4>0, <4>1, <5>1, <2>6
      <4>2. CASE d # c
        <5>1. sq_blocked'[d] = sq_blocked[d]
          BY <2>6, <4>2
        <5>2. \A u \in Thread : Leaving(u)' /\ cv(u)' = d <=> Leaving(u) /\ cv(u) = d
          BY <2>S, <2>7, <4>2 DEF c
        <5> QED
          BY <1>C, <4>0, <5>1, <5>2 DEF FlagsOK
      <4> QED
        BY <4>1, <4>2
    <3> QED
      BY <3>1 DEF FlagsOK
  <2>10. DropsOK'
    <3>2. ASSUME NEW v \in Thread, NEW u \in Thread, u \in Range(drop[v])
          PROVE  Sleepy(u)' /\ wchan'[u] = NoCond /\ cv(u)' = cv(v)'
      <4>1. v # t
        BY <2>4, <3>2 DEF Range
      <4>2. Sleepy(u) /\ wchan[u] = NoCond /\ cv(u) = cv(v)
        BY <1>C, <3>2 DEF DropsOK
      <4> QED
        BY <1>T, <2>4, <2>6, <2>S, <4>1, <4>2
    <3> QED
      BY <2>1, <3>2 DEF DropsOK
  <2> QED
    BY <2>8, <2>9, <2>10 DEF ChainInv
<1>5. CASE SleepEnter(t)
  <2> DEFINE r == Call(mp(t), call[t].mode, call[t].deferred, "sleep")
  <2>1. pc[t] = "presleep"
        /\ UNCHANGED <<sc_lock, has_user_waiters, sq_blocked, drop, wchan, frame>>
    BY <1>5 DEF SleepEnter, condVars, queueVars, wakerVars
  <2>2. \/ pc' = [pc EXCEPT ![t] = "sleep"] /\ call' = call
        \/ pc' = [pc EXCEPT ![t] = "wakeall"] /\ call' = [call EXCEPT ![t] = r]
    BY <1>5 DEF SleepEnter, Goto, WakeThen
  <2>3. r.next = "sleep"
    BY DEF Call
  <2> HIDE DEF r
  <2>4. pc'[t] = "sleep" \/ (pc'[t] = "wakeall" /\ call'[t].next = "sleep")
    BY <1>T, <2>2, <2>3 DEF ThreadTypesOK
  <2>5. OthersStay(t) /\ cv(t)' = cv(t)
    BY <1>T, <2>1, <2>2 DEF OthersStay, ThreadTypesOK, cv
  <2>6. /\ ~Leaving(t) /\ ~Leaving(t)' /\ ~Dropping(t) /\ ~Dropping(t)' /\ Sleepy(t)'
    BY <2>1, <2>4 DEF Leaving, Dropping, Sleepy, Asleep
  <2> QED
    BY <2>1, <2>5, <2>6, ChainQuiet
<1>6. CASE SleepReturn(t)
  <2>1. /\ pc[t] = "sleep" /\ pc' = [pc EXCEPT ![t] = "recheck"] /\ call' = call
        /\ UNCHANGED <<sc_lock, has_user_waiters, sq_blocked, drop, wchan>>
    BY <1>6 DEF SleepReturn, Goto, queueVars, wakerVars
  <2>2. PICK e : frame' = [frame EXCEPT ![t].error = e]
    BY <1>6 DEF SleepReturn
  <2>3. OthersStay(t) /\ pc'[t] = "recheck" /\ cv(t)' = cv(t)
    BY <1>T, <2>1, <2>2 DEF OthersStay, ThreadTypesOK, FrameType, cv
  <2>4. /\ ~Leaving(t) /\ ~Leaving(t)' /\ ~Dropping(t) /\ ~Dropping(t)' /\ Sleepy(t)'
    BY <2>1, <2>3 DEF Leaving, Dropping, Sleepy, Asleep
  <2> QED
    BY <2>1, <2>3, <2>4, ChainQuiet
<1> QED
  BY <1>1, <1>2, <1>3, <1>4, <1>5, <1>6 DEF Waiting

(* A timeout corrects the flag as it leaves the queue.                     *)
LEMMA WaitExpiredChain ==
  ASSUME BaseInv, ChainInv, NEW t \in Thread, WaitExpired(t)
  PROVE  ChainInv'
<1>T. /\ ThreadTypesOK /\ ChainTypesOK /\ FrameOK(t) /\ WaitOK(t)
      /\ wchan \in [Thread -> Cond \cup {NoCond}] /\ SqInv
  BY CondTypes
<1>D. /\ \A u \in Thread : HoldsChain(u) \/ Sleepy(u) => cv(u) \in Cond /\ chain(u) \in Chain
      /\ NoThread \notin Thread
  BY ChainTypes
<1>C. ChainHeld /\ FlagsOK /\ DropsOK
  BY DEF ChainInv
<1> DEFINE c == cv(t)
           o == OthersWait(c, t)
<1>1. /\ pc[t] = "recheck" /\ pc' = [pc EXCEPT ![t] = "cvlock"] /\ wchan[t] # NoCond
      /\ sc_lock[chain(t)] = NoThread /\ SleepqRemove(c, t)
      /\ has_user_waiters' = [has_user_waiters EXCEPT ![c] = o]
      /\ UNCHANGED <<sc_lock, call, frame, drop>>
  BY DEF WaitExpired, RecheckFrame, Goto, wakerVars
<1>2. c \in Cond /\ wchan[t] = c /\ Sleepy(t) /\ o \in BOOLEAN
  BY <1>T, <1>1 DEF FrameOK, WaitOK, Waits, Sleepy, OthersWait
<1>3. /\ wchan' = [wchan EXCEPT ![t] = NoCond] /\ (o <=> sq_blocked'[c] # <<>>)
      /\ \A d \in Cond \ {c} : sq_blocked'[d] = sq_blocked[d]
  BY <1>T, <1>1, <1>2, RemoveKeeps
<1>4. OthersStay(t) /\ pc'[t] = "cvlock"
  BY <1>T, <1>1 DEF OthersStay, ThreadTypesOK
<1>S. \A u \in Thread \ {t} :
           /\ (Leaving(u)' <=> Leaving(u)) /\ (HoldsChain(u)' <=> HoldsChain(u))
              /\ (Sleepy(u)' <=> Sleepy(u))
           /\ cv(u)' = cv(u) /\ chain(u)' = chain(u)
  BY <1>4, Stay
<1>5. ~Leaving(t) /\ ~HoldsChain(t) /\ ~Leaving(t)' /\ ~HoldsChain(t)'
  BY <1>1, <1>4 DEF Leaving, Dropping, HoldsChain
<1>6. \A u \in Thread : HoldsChain(u) => cv(u) # c
  BY <1>C, <1>D, <1>1, <1>2 DEF ChainHeld, chain
<1> HIDE DEF c, o
<1>7. ChainHeld'
  BY <1>C, <1>1, <1>S, <1>5 DEF ChainHeld
<1>8. FlagsOK'
  <2>1. ASSUME NEW d \in Cond PROVE has_user_waiters'[d] <=> \/ sq_blocked'[d] # <<>>
                            \/ \E u \in Thread : Leaving(u)' /\ cv(u)' = d
    <3>1. \A u \in Thread : Leaving(u)' /\ cv(u)' = d <=> Leaving(u) /\ cv(u) = d
      BY <1>S, <1>5
    <3>2. CASE d = c
      <4>1. \A u \in Thread : ~(Leaving(u) /\ cv(u) = d)
        BY <1>6, <3>2 DEF HoldsChain
      <4>2. has_user_waiters'[d] = o
        BY <1>T, <1>1, <1>2, <3>2 DEF ChainTypesOK
      <4> QED
        BY <1>3, <3>1, <3>2, <4>1, <4>2
    <3>3. CASE d # c
      <4>1. has_user_waiters'[d] = has_user_waiters[d] /\ sq_blocked'[d] = sq_blocked[d]
        BY <1>T, <1>1, <1>3, <3>3 DEF ChainTypesOK
      <4> QED
        BY <1>C, <3>1, <4>1 DEF FlagsOK
    <3> QED
      BY <3>2, <3>3
  <2> QED
    BY <2>1 DEF FlagsOK
<1>9. DropsOK'
  <2>1. ASSUME NEW v \in Thread, NEW u \in Thread, u \in Range(drop[v])
        PROVE  Sleepy(u)' /\ wchan'[u] = NoCond /\ cv(u)' = cv(v)'
    <3>1. Sleepy(u) /\ wchan[u] = NoCond /\ cv(u) = cv(v)
      BY <1>C, <2>1 DEF DropsOK
    <3>2. u # t
      BY <1>1, <3>1
    <3>3. cv(v)' = cv(v)
      BY <1>1, <1>S DEF cv
    <3> QED
      BY <1>T, <1>3, <1>S, <3>1, <3>2, <3>3
  <2> QED
    BY <1>1, <2>1 DEF DropsOK
<1> QED
  BY <1>7, <1>8, <1>9 DEF ChainInv

(* A wait ends only under the chain lock.                                  *)
LEMMA WakingUpChain ==
  ASSUME BaseInv, ChainInv, NEW t \in Thread, WakingUp(t)
  PROVE  ChainInv'
<1>T. /\ ThreadTypesOK
  BY CondTypes
<1>1. CASE WaitSignalled(t)
  <2>1. /\ pc[t] = "recheck" /\ pc' = [pc EXCEPT ![t] = "cvlock"] /\ sc_lock[chain(t)] = NoThread
        /\ frame' = [frame EXCEPT ![t].error = "0"]
        /\ UNCHANGED <<sc_lock, has_user_waiters, sq_blocked, drop, wchan, call>>
    BY <1>1 DEF WaitSignalled, RecheckFrame, Goto, queueVars, wakerVars
  <2>3. OthersStay(t) /\ pc'[t] = "cvlock"
    BY <1>T, <2>1 DEF OthersStay, ThreadTypesOK
  <2>4. /\ ~Leaving(t) /\ ~Leaving(t)' /\ ~Dropping(t) /\ ~Dropping(t)' /\ ~HoldsChain(t)
    BY <2>1, <2>3 DEF Leaving, Dropping, HoldsChain
  <2> QED
    BY <2>1, <2>3, <2>4, ChainQuiet
<1>2. CASE WaitSpurious(t)
  <2>1. /\ pc[t] = "recheck" /\ pc' = [pc EXCEPT ![t] = "presleep"] /\ sc_lock[chain(t)] = NoThread
        /\ UNCHANGED <<sc_lock, has_user_waiters, sq_blocked, drop, wchan, call, frame>>
    BY <1>2 DEF WaitSpurious, RecheckFrame, Goto, queueVars, wakerVars
  <2>3. OthersStay(t) /\ pc'[t] = "presleep"
    BY <1>T, <2>1 DEF OthersStay, ThreadTypesOK
  <2>4. /\ ~Leaving(t) /\ ~Leaving(t)' /\ ~Dropping(t) /\ ~Dropping(t)' /\ ~HoldsChain(t)
    BY <2>1, <2>3 DEF Leaving, Dropping, HoldsChain
  <2> QED
    BY <2>1, <2>3, <2>4, ChainQuiet
<1>3. CASE CvLockTake(t)
  <2>1. /\ pc[t] = "cvlock" /\ pc' = [pc EXCEPT ![t] = "cvown"]
        /\ UNCHANGED <<sc_lock, has_user_waiters, sq_blocked, drop, wchan, call, frame>>
    BY <1>3 DEF CvLockTake, Take, Goto, condVars, queueVars, wakerVars
  <2>3. OthersStay(t) /\ pc'[t] = "cvown"
    BY <1>T, <2>1 DEF OthersStay, ThreadTypesOK
  <2>4. /\ ~Leaving(t) /\ ~Leaving(t)' /\ ~Dropping(t) /\ ~Dropping(t)' /\ ~Sleepy(t)
        /\ ~HoldsChain(t)
    BY <2>1, <2>3 DEF Leaving, Dropping, Sleepy, Asleep, HoldsChain
  <2> QED
    BY <2>1, <2>3, <2>4, ChainQuiet
<1>4. CASE CvLockOwn(t)
  <2>1. /\ pc[t] = "cvown" /\ pc' = [pc EXCEPT ![t] = "idle"]
        /\ call' = [call EXCEPT ![t] = NoCall] /\ frame' = [frame EXCEPT ![t] = NoFrame]
        /\ UNCHANGED <<sc_lock, has_user_waiters, sq_blocked, drop, wchan>>
    BY <1>4 DEF CvLockOwn, Return, Goto, queueVars, wakerVars
  <2>3. OthersStay(t) /\ pc'[t] = "idle"
    BY <1>T, <2>1 DEF OthersStay, ThreadTypesOK
  <2>4. /\ ~Leaving(t) /\ ~Leaving(t)' /\ ~Dropping(t) /\ ~Dropping(t)' /\ ~Sleepy(t)
        /\ ~HoldsChain(t)
    BY <2>1, <2>3 DEF Leaving, Dropping, Sleepy, Asleep, HoldsChain
  <2> QED
    BY <2>1, <2>3, <2>4, ChainQuiet
<1> QED
  BY <1>1, <1>2, <1>3, <1>4, WaitExpiredChain DEF WakingUp

(* Signal and Broadcast leave the flag that the queue they leave calls     *)
(* for.                                                                    *)
LEMMA DequeueChain ==
  ASSUME BaseInv, ChainInv, NEW t \in Thread, NEW c \in Cond, NEW removed \in Seq(Thread),
         NEW others \in BOOLEAN, pc[t] = "idle", Dequeue(t, c, removed, others),
         \A u \in Range(removed) : wchan[u] = c,
         wchan' = [u \in Thread |-> IF u \in Range(removed) THEN NoCond ELSE wchan[u]],
         others <=> sq_blocked'[c] # <<>>,
         \A d \in Cond \ {c} : sq_blocked'[d] = sq_blocked[d]
  PROVE  ChainInv'
<1>T. /\ ThreadTypesOK /\ WakeTypesOK /\ ChainTypesOK
      /\ wchan \in [Thread -> Cond \cup {NoCond}]
      /\ \A u \in Thread : WaitOK(u) /\ BatchOK(u)
  BY CondTypes
<1>D. /\ \A u \in Thread : HoldsChain(u) \/ Sleepy(u) => cv(u) \in Cond /\ chain(u) \in Chain
      /\ NoThread \notin Thread
  BY ChainTypes
<1>C. ChainHeld /\ FlagsOK /\ DropsOK
  BY DEF ChainInv
<1> DEFINE h == Hash[c]
           R == Range(removed)
<1>1. /\ pc' = [pc EXCEPT ![t] = "drop"] /\ drop' = [drop EXCEPT ![t] = removed]
      /\ sc_lock[h] = NoThread /\ sc_lock' = [sc_lock EXCEPT ![h] = t]
      /\ has_user_waiters' = [has_user_waiters EXCEPT ![c] = others]
      /\ wchan' = [u \in Thread |-> IF u \in R THEN NoCond ELSE wchan[u]]
      /\ call' = call
  BY DEF Dequeue, Goto
<1>2. frame' = [u \in Thread |->
                 [frame[u] EXCEPT !.cond = IF u = t THEN c ELSE @,
                                  !.signalled = @ \/ u \in R]]
  BY DEF Dequeue
<1>3. \A u \in Thread : frame'[u].cond = (IF u = t THEN c ELSE frame[u].cond)
  BY <1>T, <1>2 DEF ThreadTypesOK, FrameType
<1>4. OthersStay(t) /\ pc'[t] = "drop" /\ cv(t)' = c /\ chain(t)' = h
  BY <1>T, <1>1, <1>3 DEF OthersStay, ThreadTypesOK, cv, chain
<1>S. \A u \in Thread \ {t} :
           /\ (Leaving(u)' <=> Leaving(u)) /\ (HoldsChain(u)' <=> HoldsChain(u))
              /\ (Sleepy(u)' <=> Sleepy(u))
           /\ cv(u)' = cv(u) /\ chain(u)' = chain(u)
  BY <1>4, Stay
<1>5. /\ ~Leaving(t) /\ ~HoldsChain(t) /\ ~Sleepy(t) /\ ~Leaving(t)' /\ HoldsChain(t)'
  BY <1>4 DEF Leaving, Dropping, Sleepy, Asleep, HoldsChain
<1>6. h \in Chain
  BY CondAssumption
<1>7. \A u \in Thread : HoldsChain(u) => cv(u) # c
  BY <1>C, <1>D, <1>1, <1>6 DEF ChainHeld, chain
<1>R. \A u \in R : wchan[u] = c
  OBVIOUS
<1>0. c # NoCond
  BY CondAssumption
<1> HIDE DEF h, R
<1>8. ChainHeld'
  <2>1. ASSUME NEW k \in Chain, NEW u \in Thread
        PROVE  sc_lock'[k] = u <=> HoldsChain(u)' /\ chain(u)' = k
    <3>1. CASE u = t
      BY <1>T, <1>C, <1>1, <1>4, <1>5, <1>6, <3>1 DEF ChainHeld, ChainTypesOK
    <3>2. CASE u # t
      BY <1>T, <1>C, <1>D, <1>1, <1>6, <1>S, <3>2 DEF ChainHeld, ChainTypesOK
    <3> QED
      BY <3>1, <3>2
  <2> QED
    BY <2>1 DEF ChainHeld
<1>9. FlagsOK'
  <2>1. ASSUME NEW d \in Cond PROVE has_user_waiters'[d] <=> \/ sq_blocked'[d] # <<>>
                            \/ \E u \in Thread : Leaving(u)' /\ cv(u)' = d
    <3>1. \A u \in Thread : Leaving(u)' /\ cv(u)' = d <=> Leaving(u) /\ cv(u) = d
      BY <1>S, <1>5
    <3>2. CASE d = c
      <4>1. \A u \in Thread : ~(Leaving(u) /\ cv(u) = d)
        BY <1>7, <3>2 DEF HoldsChain
      <4>2. has_user_waiters'[d] = others
        BY <1>T, <1>1, <3>2 DEF ChainTypesOK
      <4> QED
        BY <3>1, <3>2, <4>1, <4>2
    <3>3. CASE d # c
      <4>1. has_user_waiters'[d] = has_user_waiters[d] /\ sq_blocked'[d] = sq_blocked[d]
        BY <1>T, <1>1, <3>3 DEF ChainTypesOK
      <4> QED
        BY <1>C, <3>1, <4>1 DEF FlagsOK
    <3> QED
      BY <3>2, <3>3
  <2> QED
    BY <2>1 DEF FlagsOK
<1>10. DropsOK'
  <2>1. ASSUME NEW v \in Thread, NEW u \in Thread, u \in Range(drop'[v])
        PROVE  Sleepy(u)' /\ wchan'[u] = NoCond /\ cv(u)' = cv(v)'
    <3>1. CASE v = t
      <4>1. u \in R
        BY <1>T, <1>1, <2>1, <3>1 DEF WakeTypesOK, R
      <4>2. Sleepy(u) /\ cv(u) = c /\ u # t
        BY <1>T, <1>R, <1>0, <1>5, <4>1 DEF WaitOK
      <4> QED
        BY <1>1, <1>4, <1>S, <3>1, <4>1, <4>2
    <3>2. CASE v # t
      <4>1. u \in Range(drop[v])
        BY <1>T, <1>1, <2>1, <3>2 DEF WakeTypesOK
      <4>2. Sleepy(u) /\ wchan[u] = NoCond /\ cv(u) = cv(v)
        BY <1>C, <4>1 DEF DropsOK
      <4> QED
        BY <1>1, <1>S, <1>5, <3>2, <4>2
    <3> QED
      BY <3>1, <3>2
  <2> QED
    BY <2>1 DEF DropsOK
<1> QED
  BY <1>8, <1>9, <1>10 DEF ChainInv

(* The signaller holds the chain lock until all are handled.               *)
LEMMA WakingChain ==
  ASSUME BaseInv, ChainInv, NEW t \in Thread, Waking(t)
  PROVE  ChainInv'
<1>T. /\ ThreadTypesOK /\ WakeTypesOK /\ ChainTypesOK /\ SqInv /\ FrameOK(t)
      /\ wchan \in [Thread -> Cond \cup {NoCond}]
  BY CondTypes
<1>C. ChainHeld /\ FlagsOK /\ DropsOK
  BY DEF ChainInv
<1>1. CASE DropOne(t)
  <2> DEFINE r == Call(mp(t), call[t].mode, call[t].deferred, "drop")
  <2>1. /\ pc[t] = "drop" /\ drop[t] # <<>>
        /\ UNCHANGED <<sc_lock, has_user_waiters, sq_blocked, wchan, frame>>
    BY <1>1 DEF DropOne, queueVars
  <2>2. \/ /\ pc' = [pc EXCEPT ![t] = "wakeall"] /\ call' = [call EXCEPT ![t] = r]
        \/ UNCHANGED <<pc, call>>
        \/ pc' = [pc EXCEPT ![t] = "flush"] /\ call' = call
    BY <1>1 DEF DropOne, Goto, WakeThen
  <2>3. drop' = drop \/ drop' = [drop EXCEPT ![t] = Tail(@)]
    BY <1>1 DEF DropOne
  <2>4. r.next = "drop"
    BY DEF Call
  <2> HIDE DEF r
  <2>5. OthersStay(t) /\ cv(t)' = cv(t)
    BY <1>T, <2>1, <2>2 DEF OthersStay, ThreadTypesOK, cv
  <2>6. Dropping(t)' /\ Dropping(t) /\ ~Leaving(t) /\ ~Leaving(t)' /\ ~Sleepy(t)
    BY <1>T, <2>1, <2>2, <2>4 DEF ThreadTypesOK, Leaving, Dropping, Sleepy, Asleep
  <2>7. \A u \in Thread : Range(drop'[u]) \subseteq Range(drop[u])
    <3>1. Range(Tail(drop[t])) \subseteq Range(drop[t])
      BY <1>T, <2>1, TailSeq DEF WakeTypesOK
    <3> QED
      BY <1>T, <2>3, <3>1 DEF WakeTypesOK
  <2> QED
    BY <2>1, <2>5, <2>6, <2>7, ChainQuiet
<1>2. CASE DropDone(t)
  <2> DEFINE h == chain(t)
  <2>1. /\ pc[t] = "drop" /\ drop[t] = <<>> /\ pc' = [pc EXCEPT ![t] = "release"]
        /\ sc_lock' = [sc_lock EXCEPT ![h] = NoThread]
        /\ frame' = [frame EXCEPT ![t] = NoFrame]
        /\ UNCHANGED <<call, has_user_waiters, drop, sq_blocked, wchan>>
    BY <1>2 DEF DropDone, Goto, wakerVars, queueVars
  <2>2. OthersStay(t) /\ pc'[t] = "release"
    BY <1>T, <2>1 DEF OthersStay, ThreadTypesOK
  <2>3. HoldsChain(t) /\ ~HoldsChain(t)' /\ ~Leaving(t) /\ ~Leaving(t)' /\ ~Sleepy(t)
    BY <2>1, <2>2 DEF Leaving, Dropping, HoldsChain, Sleepy, Asleep
  <2>4. h \in Chain /\ NoThread \notin Thread
    BY <2>3, ChainTypes
  <2>S. \A u \in Thread \ {t} :
           /\ (Leaving(u)' <=> Leaving(u)) /\ (HoldsChain(u)' <=> HoldsChain(u))
              /\ (Sleepy(u)' <=> Sleepy(u))
           /\ cv(u)' = cv(u) /\ chain(u)' = chain(u)
    BY <2>2, Stay
  <2>5. ChainHeld'
    <3>0. sc_lock[h] = t
      BY <1>C, <2>3, <2>4 DEF ChainHeld
    <3>1. ASSUME NEW k \in Chain, NEW u \in Thread
          PROVE  sc_lock'[k] = u <=> HoldsChain(u)' /\ chain(u)' = k
      <4>1. CASE u = t
        BY <1>T, <1>C, <2>1, <2>3, <2>4, <4>1 DEF ChainHeld, ChainTypesOK
      <4>2. CASE u # t
        BY <1>T, <1>C, <2>1, <2>4, <2>S, <3>0, <4>2 DEF ChainHeld, ChainTypesOK
      <4> QED
        BY <4>1, <4>2
    <3> QED
      BY <3>1 DEF ChainHeld
  <2>6. FlagsOK'
    <3>1. \A u \in Thread, d \in Cond : Leaving(u)' /\ cv(u)' = d <=> Leaving(u) /\ cv(u) = d
      BY <2>S, <2>3
    <3> QED
      BY <1>C, <2>1, <3>1 DEF FlagsOK
  <2>7. DropsOK'
    <3>2. ASSUME NEW v \in Thread, NEW u \in Thread, u \in Range(drop[v])
          PROVE  Sleepy(u)' /\ wchan'[u] = NoCond /\ cv(u)' = cv(v)'
      <4>1. v # t
        BY <2>1, <3>2 DEF Range
      <4>2. Sleepy(u) /\ wchan[u] = NoCond /\ cv(u) = cv(v)
        BY <1>C, <3>2 DEF DropsOK
      <4> QED
        BY <2>1, <2>3, <2>S, <4>1, <4>2
    <3> QED
      BY <2>1, <3>2 DEF DropsOK
  <2> QED
    BY <2>5, <2>6, <2>7 DEF ChainInv
<1>3. CASE ReleaseOne(t)
  <2>1. /\ pc[t] \in {"release", "flush"}
        /\ UNCHANGED <<sc_lock, has_user_waiters, sq_blocked, drop, wchan, frame, call>>
    BY <1>3 DEF ReleaseOne, queueVars
  <2>2. \/ pc' = pc
        \/ waddrs[t] = <<>> /\ pc' = [pc EXCEPT ![t] = IF pc[t] = "flush" THEN "drop" ELSE "idle"]
    BY <1>3 DEF ReleaseOne, Goto
  <2>3. OthersStay(t) /\ cv(t)' = cv(t)
    BY <1>T, <2>1, <2>2 DEF OthersStay, ThreadTypesOK, cv
  <2>4. /\ (Dropping(t)' <=> Dropping(t)) /\ ~Leaving(t) /\ ~Leaving(t)' /\ ~Sleepy(t)
    BY <1>T, <2>1, <2>2 DEF ThreadTypesOK, Leaving, Dropping, Sleepy, Asleep
  <2> QED
    BY <2>1, <2>3, <2>4, ChainQuiet
<1>4. ASSUME NEW c \in Cond, BroadcastCall(t, c) PROVE ChainInv'
  <2>1. /\ wchan' = [u \in Thread |-> IF u \in Range(sq_blocked[c]) THEN NoCond ELSE wchan[u]]
        /\ sq_blocked'[c] = <<>>
        /\ \A d \in Cond \ {c} : sq_blocked'[d] = sq_blocked[d]
    BY <1>4, BroadcastBase
  <2>2. pc[t] = "idle" /\ Dequeue(t, c, sq_blocked[c], FALSE)
    BY <1>4 DEF BroadcastCall
  <2>3. sq_blocked[c] \in Seq(Thread)
    BY <1>T DEF SqInv, SleepqTypeOK
  <2>4. \A u \in Range(sq_blocked[c]) : wchan[u] = c
    BY <1>T, <2>3 DEF SqInv, QueuesOK, Range
  <2> QED
    BY <2>1, <2>2, <2>3, <2>4, DequeueChain
<1>5. ASSUME NEW c \in Cond, NEW td \in Range(sq_blocked[c]), pc[t] = "idle", SignalOne(t, c, td)
      PROVE  ChainInv'
  <2> DEFINE s == <<td>>
             o == OthersWait(c, td)
  <2>1. td \in Thread /\ wchan[td] = c /\ wchan' = [wchan EXCEPT ![td] = NoCond]
    BY <1>5, SignalOneBase
  <2>2. /\ o <=> sq_blocked'[c] # <<>>
        /\ \A d \in Cond \ {c} : sq_blocked'[d] = sq_blocked[d]
    BY <1>5, SignalOneBase
  <2>3. s \in Seq(Thread) /\ o \in BOOLEAN /\ Range(s) = {td}
    BY <2>1 DEF OthersWait, Range
  <2>4. Dequeue(t, c, s, o)
    BY <1>5 DEF SignalOne
  <2>5. /\ wchan' = [u \in Thread |-> IF u \in Range(s) THEN NoCond ELSE wchan[u]]
        /\ \A u \in Range(s) : wchan[u] = c
    BY <1>T, <2>1, <2>3
  <2> HIDE DEF s, o
  <2> QED
    BY <1>5, <2>2, <2>3, <2>4, <2>5, DequeueChain
<1> QED
  BY <1>1, <1>2, <1>3, <1>4, <1>5 DEF Waking

(* Every step keeps chain locks, flags and removed waiters together.       *)
LEMMA StepChain == ASSUME BaseInv, ChainInv, [CondNext]_cvars PROVE ChainInv'
<1>1. CASE UNCHANGED cvars
  BY <1>1 DEF ChainInv, ChainHeld, FlagsOK, DropsOK, HoldsChain, Leaving, Dropping, Sleepy, Asleep,
              chain, cv, cvars, vars, condVars, wakerVars, queueVars
<1> QED
  BY <1>1, StepCases, MutexChain, WakeAllChain, WaitingChain, WakingUpChain, WakingChain

(* The chain lock protects the queue, the flag and the waiters that were   *)
(* taken off and not handled yet.                                          *)
LEMMA ChainAlways == CondSpec => []ChainInv
<1>1. CondInit => ChainInv
  <2> SUFFICES ASSUME CondInit PROVE ChainInv
    OBVIOUS
  <2>1. /\ sc_lock = [h \in Chain |-> NoThread] /\ has_user_waiters = [c \in Cond |-> FALSE]
        /\ drop = [t \in Thread |-> <<>>] /\ sq_blocked = [c \in Cond |-> <<>>]
    BY DEF CondInit, SleepqInit
  <2>2. \A t \in Thread : pc[t] = "idle"
    BY DEF CondInit, Init
  <2>3. \A t \in Thread : ~Leaving(t) /\ ~HoldsChain(t)
    BY <2>2 DEF Leaving, Dropping, HoldsChain
  <2>4. NoThread \notin Thread
    BY MutexAssumption
  <2>5. \A t \in Thread : Range(drop[t]) = {}
    BY <2>1 DEF Range
  <2> QED
    BY <2>1, <2>3, <2>4, <2>5 DEF ChainInv, ChainHeld, FlagsOK, DropsOK
<1>2. BaseInv /\ ChainInv /\ [CondNext]_cvars => ChainInv'
  BY StepChain
<1> QED
  BY <1>1, <1>2, BaseAlways, PTL DEF CondSpec

(* A waiter that no signal reached is on its way into the queue or in it.  *)
LEMMA StillQueued ==
  ASSUME BaseInv, NEW t \in Thread, Unsignalled(t)
  PROVE  Leaving(t) \/ (Sleepy(t) /\ cv(t) \in Cond /\ t \in Range(sq_blocked[cv(t)]))
<1>1. CASE Sleepy(t)
  <2>1. wchan[t] = cv(t) /\ wchan[t] # NoCond
    BY <1>1, CondTypes DEF Unsignalled, WaitOK
  <2>2. cv(t) \in Cond
    BY <1>1, CondTypes DEF FrameOK, Waits
  <2> QED
    BY <1>1, <2>1, <2>2, CondTypes DEF SqInv, QueuesOK
<1> QED
  BY <1>1 DEF Unsignalled, Leaving, Sleepy

(* Unlock-and-wait is atomic for signallers: whenever one can look at the  *)
(* queue, each thread that gave its mutex up and was not signalled since   *)
(* is in it (SleepqLock before CvUnlock in Wait).                          *)
THEOREM NoMissedWaiterAlways == CondSpec => []NoMissedWaiter
<1>1. ASSUME BaseInv, ChainInv PROVE NoMissedWaiter
  <2>1. ASSUME NEW t \in Thread, Unsignalled(t), sc_lock[chain(t)] = NoThread
        PROVE  t \in Range(sq_blocked[cv(t)])
    <3>1. ~Leaving(t)
      BY <1>1, <2>1, ChainTypes DEF ChainInv, ChainHeld, HoldsChain
    <3> QED
      BY <1>1, <2>1, <3>1, StillQueued
  <2> QED
    BY <2>1 DEF NoMissedWaiter
<1> QED
  BY <1>1, BaseAlways, ChainAlways, PTL

(* has_user_waiters covers every thread that gave its mutex up and still   *)
(* waits, and is exact when the chain is unlocked (the comment in Wait,    *)
(* OthersWait in Signal and in the timeout).                               *)
THEOREM UserWaitersFlaggedAlways == CondSpec => []UserWaitersFlagged
<1>1. ASSUME BaseInv, ChainInv PROVE UserWaitersFlagged
  <2>1. ASSUME NEW t \in Thread, Unsignalled(t) PROVE has_user_waiters[cv(t)]
    <3>1. CASE Leaving(t)
      <4>1. cv(t) \in Cond
        BY <1>1, <3>1, ChainTypes DEF HoldsChain
      <4> QED
        BY <1>1, <3>1, <4>1 DEF ChainInv, FlagsOK
    <3>2. CASE Sleepy(t) /\ cv(t) \in Cond /\ t \in Range(sq_blocked[cv(t)])
      <4>1. sq_blocked[cv(t)] # <<>>
        BY <3>2 DEF Range
      <4> QED
        BY <1>1, <3>2, <4>1 DEF ChainInv, FlagsOK
    <3> QED
      BY <1>1, <2>1, <3>1, <3>2, StillQueued
  <2>2. ASSUME NEW c \in Cond, sc_lock[Hash[c]] = NoThread
        PROVE  has_user_waiters[c] <=> sq_blocked[c] # <<>>
    <3>1. \A t \in Thread : ~(Leaving(t) /\ cv(t) = c)
      BY <1>1, <2>2, ChainTypes DEF ChainInv, ChainHeld, HoldsChain, chain
    <3> QED
      BY <1>1, <3>1 DEF ChainInv, FlagsOK
  <2> QED
    BY <2>1, <2>2 DEF UserWaitersFlagged
<1> QED
  BY <1>1, BaseAlways, ChainAlways, PTL

-----------------------------------------------------------------------------
(* Deferred wakeups.  DeferredWillFlush is inductive over the layers       *)
(* before it.                                                              *)

(* Where a thread stands that will wake its deferred waiters.              *)
Flushing == {"wakeall", "cvunlock", "queue", "presleep"}
Marked(t) == \E m \in Mutex : m_owner[m] = t /\ m_deferred[m]
WillFlush(t) == \/ Marked(t)
                \/ pc[t] = "unlock" /\ call[t].deferred
                \/ pc[t] \in Flushing

(* The invariant in the words of this section.                             *)
LEMMA FlushForm ==
  DeferredWillFlush <=> \A t \in Thread : defer_waiters[t] # <<>> => WillFlush(t)
  BY DEF DeferredWillFlush, WillFlush, Marked, Flushing

(* A step of t keeps the mutexes and the deferred waiters of the others.   *)
LEMMA FlushMoves ==
  ASSUME DeferredWillFlush, NEW t \in Thread, OthersSame(t),
         \A u \in Thread \ {t} : defer_waiters'[u] = defer_waiters[u],
         \A u \in Thread \ {t}, m \in Mutex :
           m_owner[m] = u /\ m_deferred[m] => m_owner'[m] = u /\ m_deferred'[m],
         defer_waiters'[t] # <<>> => WillFlush(t)'
  PROVE  DeferredWillFlush'
<1>1. ASSUME NEW u \in Thread, defer_waiters'[u] # <<>> PROVE WillFlush(u)'
  <2>1. CASE u = t
    BY <1>1, <2>1
  <2>2. CASE u # t
    <3>1. WillFlush(u)
      BY <1>1, <2>2, FlushForm
    <3> QED
      BY <2>2, <3>1 DEF WillFlush, Marked, OthersSame
  <2> QED
    BY <2>1, <2>2
<1> QED
  BY <1>1 DEF DeferredWillFlush, WillFlush, Marked, Flushing

(* A step that touches no mutex and no deferred waiter.                    *)
LEMMA FlushQuiet ==
  ASSUME DeferredWillFlush, NEW t \in Thread, OthersSame(t),
         UNCHANGED <<m_owner, m_deferred, defer_waiters>>,
         pc[t] \notin {"unlock"} \cup Flushing \/ pc'[t] \in Flushing
  PROVE  DeferredWillFlush'
<1>1. defer_waiters[t] # <<>> => WillFlush(t)'
  BY FlushForm DEF WillFlush, Marked
<1> QED
  BY <1>1, FlushMoves

(* The outermost unlock hands the mark over to the call.                   *)
LEMMA FlushDisown ==
  ASSUME DeferredWillFlush, NEW t \in Thread, NEW m \in Mutex, OthersSame(t),
         m_owner \in [Mutex -> Thread \cup {NoThread}], m_deferred \in [Mutex -> BOOLEAN],
         m_owner[m] = t, pc[t] \notin {"unlock"} \cup Flushing,
         UNCHANGED defer_waiters,
         m_owner' = [m_owner EXCEPT ![m] = NoThread],
         m_deferred' = [m_deferred EXCEPT ![m] = FALSE],
         pc'[t] = "cvunlock" \/ (pc'[t] = "unlock" /\ call'[t].deferred = m_deferred[m])
  PROVE  DeferredWillFlush'
<1>1. defer_waiters[t] # <<>> => WillFlush(t)'
  <2>1. SUFFICES ASSUME defer_waiters[t] # <<>> PROVE WillFlush(t)'
    OBVIOUS
  <2>2. PICK n \in Mutex : m_owner[n] = t /\ m_deferred[n]
    BY <2>1, FlushForm DEF WillFlush, Marked
  <2>3. CASE n = m
    BY <2>2, <2>3 DEF WillFlush, Flushing
  <2>4. CASE n # m
    BY <2>2, <2>4 DEF WillFlush, Marked
  <2> QED
    BY <2>3, <2>4
<1>2. ASSUME NEW u \in Thread \ {t}, NEW n \in Mutex, m_owner[n] = u, m_deferred[n]
      PROVE  m_owner'[n] = u /\ m_deferred'[n]
  BY <1>2
<1> QED
  BY <1>1, <1>2, FlushMoves

(* Setting an owner forgets no flag: the mutex had none.                   *)
LEMMA FlushOwn ==
  ASSUME BaseInv, HostInv, DeferredWillFlush, NEW t \in Thread, OthersSame(t),
         pc[t] \in {"own", "cvown"}, UNCHANGED <<defer_waiters, m_deferred>>,
         m_owner' = [m_owner EXCEPT ![mp(t)] = t]
  PROVE  DeferredWillFlush'
<1>1. mp(t) \in Mutex
  BY CondTypes DEF CallOK, Asking, Waits, Resuming
<1>2. m_owner \in [Mutex -> Thread \cup {NoThread}] /\ NoThread \notin Thread
  BY CondTypes, MutexAssumption DEF MutexTypesOK
<1>3. m_owner[mp(t)] = NoThread
  BY <1>1, <1>2 DEF HostInv, HostLock, Transit
<1>4. \A u \in Thread, n \in Mutex :
        m_owner[n] = u /\ m_deferred[n] => m_owner'[n] = u /\ m_deferred'[n]
  BY <1>1, <1>2, <1>3
<1>5. defer_waiters[t] # <<>> => WillFlush(t)'
  BY <1>4, FlushForm DEF WillFlush, Marked, Flushing
<1> QED
  BY <1>4, <1>5, FlushMoves

(* Unlock reads and clears the Deferred flag in the call that wakes.       *)
LEMMA MutexFlush ==
  ASSUME BaseInv, HostInv, DeferredWillFlush, NEW t \in Thread, MutexStep(t)
  PROVE  DeferredWillFlush'
<1>T. /\ MutexTypesOK /\ ThreadTypesOK /\ CallOK(t)
  BY CondTypes
<1>S. OthersSame(t) /\ UNCHANGED wakeVars
  <2>1. pc \in [Thread -> CondLabels] /\ call \in [Thread -> CallType]
    BY <1>T DEF ThreadTypesOK
  <2> QED
    BY <2>1, MutexPath DEF OthersSame
<1>D. UNCHANGED defer_waiters
  BY <1>S DEF wakeVars
<1>1. CASE LockCall(t) \/ LockTake(t) \/ LockFail(t)
  <2>1. /\ pc[t] \in {"idle", "lock"} /\ UNCHANGED <<m_owner, m_deferred>>
    BY <1>1 DEF LockCall, SelfLock, LockEnter, LockTake, Take, LockFail, mutexVars
  <2> QED
    BY <1>S, <1>D, <2>1, FlushQuiet DEF Flushing
<1>2. CASE LockOwn(t)
  <2>1. /\ pc[t] = "own" /\ m_deferred' = m_deferred /\ m_owner' = [m_owner EXCEPT ![mp(t)] = t]
    BY <1>2 DEF LockOwn
  <2> QED
    BY <1>S, <1>D, <2>1, FlushOwn
<1>3. ASSUME NEW m \in Mutex, UnlockCall(t, m) PROVE DeferredWillFlush'
  <2>1. pc[t] = "idle" /\ m_owner[m] = t
    BY <1>3 DEF UnlockCall
  <2>2. CASE Counts(m)
    <3>1. UNCHANGED <<m_owner, m_deferred>>
      BY <1>3, <2>2 DEF UnlockCall
    <3> QED
      BY <1>S, <1>D, <2>1, <3>1, FlushQuiet DEF Flushing
  <2>3. CASE ~Counts(m)
    <3> DEFINE r == Call(m, call[t].mode, m_deferred[m], call[t].next)
    <3>1. /\ m_owner' = [m_owner EXCEPT ![m] = NoThread]
          /\ m_deferred' = [m_deferred EXCEPT ![m] = FALSE]
          /\ pc' = [pc EXCEPT ![t] = "unlock"] /\ call' = [call EXCEPT ![t] = r]
      BY <1>3, <2>3 DEF UnlockCall, Disown, Goto
    <3>2. r.deferred = m_deferred[m]
      BY DEF Call
    <3> HIDE DEF r
    <3>3. pc'[t] = "unlock" /\ call'[t].deferred = m_deferred[m]
      BY <1>T, <3>1, <3>2 DEF ThreadTypesOK
    <3>4. /\ m_owner \in [Mutex -> Thread \cup {NoThread}] /\ m_deferred \in [Mutex -> BOOLEAN]
          /\ pc[t] \notin {"unlock"} \cup Flushing
      BY <1>T, <2>1 DEF MutexTypesOK, Flushing
    <3> QED
      BY <1>S, <1>D, <2>1, <3>1, <3>3, <3>4, FlushDisown
  <2> QED
    BY <2>2, <2>3
<1>4. CASE UnlockRelease(t)
  <2>1. pc[t] = "unlock" /\ ~will_sleep[t] /\ UNCHANGED <<m_owner, m_deferred>>
    BY <1>T, <1>4 DEF UnlockRelease, Release, CallOK, Leaving
  <2>2. CASE call[t].deferred
    <3>1. pc'[t] = "wakeall"
      BY <1>T, <1>4, <2>1, <2>2 DEF UnlockRelease, Release, Goto, ThreadTypesOK
    <3> QED
      BY <1>S, <1>D, <2>1, <3>1, FlushQuiet DEF Flushing
  <2>3. CASE ~call[t].deferred
    <3>1. defer_waiters[t] # <<>> => WillFlush(t)'
      BY <2>1, <2>3, FlushForm DEF WillFlush, Marked, Flushing
    <3> QED
      BY <1>S, <1>D, <2>1, <3>1, FlushMoves
  <2> QED
    BY <2>2, <2>3
<1> QED
  BY <1>1, <1>2, <1>3, <1>4 DEF MutexStep

(* WakeAll goes on until nobody is deferred.                               *)
LEMMA WakeAllFlush ==
  ASSUME BaseInv, DeferredWillFlush, NEW t \in Thread, WakeAll(t)
  PROVE  DeferredWillFlush'
<1>T. ThreadTypesOK /\ WakeTypesOK
  BY CondTypes
<1>1. pc[t] = "wakeall" /\ UNCHANGED <<m_owner, m_deferred>>
  BY DEF WakeAll, mutexVars
<1>2. CASE defer_waiters[t] # <<>>
  <2>1. UNCHANGED <<pc, call>> /\ defer_waiters' = [defer_waiters EXCEPT ![t] = Tail(@)]
    BY <1>2 DEF WakeAll
  <2>2. WillFlush(t)' /\ OthersSame(t)
    BY <1>1, <2>1 DEF WillFlush, Flushing, OthersSame
  <2>3. \A u \in Thread \ {t} : defer_waiters'[u] = defer_waiters[u]
    BY <1>T, <2>1 DEF WakeTypesOK
  <2> QED
    BY <1>1, <2>2, <2>3, FlushMoves
<1>3. CASE defer_waiters[t] = <<>>
  <2>1. PICK l, r : /\ pc' = [pc EXCEPT ![t] = l] /\ call' = [call EXCEPT ![t] = r]
    BY <1>3 DEF WakeAll, Return, Goto, WakeThen
  <2>2. UNCHANGED defer_waiters
    BY <1>3 DEF WakeAll
  <2>3. OthersSame(t)
    BY <1>T, <2>1 DEF OthersSame, ThreadTypesOK
  <2> QED
    BY <1>1, <1>3, <2>2, <2>3, FlushMoves
<1> QED
  BY <1>2, <1>3

(* Wait clears the flag of the mutex it gives up, and Sleep wakes the      *)
(* deferred waiters.                                                       *)
LEMMA WaitingFlush ==
  ASSUME BaseInv, HostInv, DeferredWillFlush, NEW t \in Thread, Waiting(t)
  PROVE  DeferredWillFlush'
<1>T. /\ MutexTypesOK /\ ThreadTypesOK /\ CallOK(t) /\ OwnerOK(t)
  BY CondTypes DEF HostInv
<1>1. CASE WaitCall(t)
  <2>1. /\ pc[t] = "idle" /\ pc' = [pc EXCEPT ![t] = "enqueue"]
        /\ UNCHANGED <<m_owner, m_deferred, defer_waiters>>
    BY <1>1 DEF WaitCall, Goto, mutexVars, wakeVars
  <2>2. PICK r : call' = [call EXCEPT ![t] = r]
    BY <1>1 DEF WaitCall, Enter
  <2> QED
    BY <1>T, <2>1, <2>2, FlushQuiet DEF OthersSame, ThreadTypesOK, Flushing
<1>2. CASE WaitUnlock(t)
  <2> DEFINE m == mp(t)
             r == Call(m, call[t].mode, m_deferred[m], call[t].next)
  <2>1. /\ pc[t] = "enqueue" /\ pc' = [pc EXCEPT ![t] = "cvunlock"]
        /\ call' = [call EXCEPT ![t] = r] /\ UNCHANGED defer_waiters
        /\ m_owner' = [m_owner EXCEPT ![m] = NoThread]
        /\ m_deferred' = [m_deferred EXCEPT ![m] = FALSE]
    BY <1>2 DEF WaitUnlock, Disown, Goto
  <2>2. m \in Mutex /\ m_owner[m] = t
    BY <1>T, <2>1 DEF CallOK, Asking, OwnerOK
  <2> HIDE DEF m, r
  <2>3. OthersSame(t) /\ pc'[t] = "cvunlock"
    BY <1>T, <2>1 DEF OthersSame, ThreadTypesOK
  <2>4. /\ m_owner \in [Mutex -> Thread \cup {NoThread}] /\ m_deferred \in [Mutex -> BOOLEAN]
        /\ pc[t] \notin {"unlock"} \cup Flushing
    BY <1>T, <2>1 DEF MutexTypesOK, Flushing
  <2> QED
    BY <2>1, <2>2, <2>3, <2>4, FlushDisown
<1>3. CASE WaitRelease(t)
  <2>1. pc[t] = "cvunlock" /\ will_sleep[t]
    BY <1>T, <1>3 DEF WaitRelease, Release, CallOK, Leaving
  <2>2. /\ pc' = [pc EXCEPT ![t] = "queue"] /\ call' = call
        /\ UNCHANGED <<m_owner, m_deferred, defer_waiters>>
    BY <1>3, <2>1 DEF WaitRelease, Release, Goto, wakeVars
  <2> QED
    BY <1>T, <2>2, FlushQuiet DEF OthersSame, ThreadTypesOK, Flushing
<1>4. CASE WaitAdd(t)
  <2>1. /\ pc' = [pc EXCEPT ![t] = "presleep"] /\ call' = call
        /\ UNCHANGED <<m_owner, m_deferred, defer_waiters>>
    BY <1>4 DEF WaitAdd, Goto, mutexVars
  <2> QED
    BY <1>T, <2>1, FlushQuiet DEF OthersSame, ThreadTypesOK, Flushing
<1>5. CASE SleepEnter(t)
  <2> DEFINE r == Call(mp(t), call[t].mode, call[t].deferred, "sleep")
  <2>1. UNCHANGED <<m_owner, m_deferred, defer_waiters>>
    BY <1>5 DEF SleepEnter, mutexVars
  <2>2. CASE defer_waiters[t] = <<>>
    <3>1. pc' = [pc EXCEPT ![t] = "sleep"] /\ call' = call
      BY <1>5, <2>2 DEF SleepEnter, Goto
    <3> QED
      BY <1>T, <2>1, <2>2, <3>1, FlushMoves DEF OthersSame, ThreadTypesOK
  <2>3. CASE defer_waiters[t] # <<>>
    <3>1. pc' = [pc EXCEPT ![t] = "wakeall"] /\ call' = [call EXCEPT ![t] = r]
      BY <1>5, <2>3 DEF SleepEnter, Goto, WakeThen
    <3> HIDE DEF r
    <3> QED
      BY <1>T, <2>1, <3>1, FlushQuiet DEF OthersSame, ThreadTypesOK, Flushing
  <2> QED
    BY <2>2, <2>3
<1>6. CASE SleepReturn(t)
  <2>1. /\ pc[t] = "sleep" /\ pc' = [pc EXCEPT ![t] = "recheck"] /\ call' = call
        /\ UNCHANGED <<m_owner, m_deferred, defer_waiters>>
    BY <1>6 DEF SleepReturn, Goto, mutexVars
  <2> QED
    BY <1>T, <2>1, FlushQuiet DEF OthersSame, ThreadTypesOK, Flushing
<1> QED
  BY <1>1, <1>2, <1>3, <1>4, <1>5, <1>6 DEF Waiting

(* CvLock clears no flag.                                                  *)
LEMMA WakingUpFlush ==
  ASSUME BaseInv, HostInv, DeferredWillFlush, NEW t \in Thread, WakingUp(t)
  PROVE  DeferredWillFlush'
<1>T. /\ ThreadTypesOK
  BY CondTypes
<1>1. CASE WaitSignalled(t) \/ WaitExpired(t) \/ WaitSpurious(t) \/ CvLockTake(t)
  <2>1. /\ pc[t] \in {"recheck", "cvlock"} /\ UNCHANGED <<m_owner, m_deferred, call, defer_waiters>>
    BY <1>1 DEF WaitSignalled, WaitExpired, WaitSpurious, RecheckFrame, CvLockTake, Take, mutexVars,
                wakeVars
  <2>2. PICK l : pc' = [pc EXCEPT ![t] = l]
    BY <1>1 DEF WaitSignalled, WaitExpired, WaitSpurious, CvLockTake, Take, Goto
  <2> QED
    BY <1>T, <2>1, <2>2, FlushQuiet DEF OthersSame, ThreadTypesOK, Flushing
<1>2. CASE CvLockOwn(t)
  <2>1. /\ pc[t] = "cvown" /\ pc' = [pc EXCEPT ![t] = "idle"] /\ call' = [call EXCEPT ![t] = NoCall]
        /\ m_owner' = [m_owner EXCEPT ![mp(t)] = t] /\ UNCHANGED <<m_deferred, defer_waiters>>
    BY <1>2 DEF CvLockOwn, Return, Goto, wakeVars
  <2>2. OthersSame(t)
    BY <1>T, <2>1 DEF OthersSame, ThreadTypesOK
  <2> QED
    BY <2>1, <2>2, FlushOwn
<1> QED
  BY <1>1, <1>2 DEF WakingUp

(* A waiter is deferred only by the owner of its mutex, which gets the     *)
(* flag in the same step.                                                  *)
LEMMA DropOneFlush ==
  ASSUME BaseInv, ChainInv, DeferredWillFlush, NEW t \in Thread, DropOne(t)
  PROVE  DeferredWillFlush'
<1>T. /\ MutexTypesOK /\ ThreadTypesOK /\ WakeTypesOK
  BY CondTypes
<1> DEFINE td == Head(drop[t])
           m == mutex_obj[td]
           r == Call(mp(t), call[t].mode, call[t].deferred, "drop")
<1>1. pc[t] = "drop" /\ drop[t] # <<>> /\ UNCHANGED m_owner
  BY DEF DropOne
<1>2. td \in Thread /\ td \in Range(drop[t])
  BY <1>T, <1>1, TailSeq DEF WakeTypesOK
<1>3. m \in Mutex
  <2>1. Sleepy(td)
    BY <1>2 DEF ChainInv, DropsOK
  <2> QED
    BY <1>2, <2>1, CondTypes DEF WaitOK, CallOK, Waits
<1>4. \/ /\ m_owner[m] = t
         /\ defer_waiters' = [defer_waiters EXCEPT ![t] = Append(@, td)]
         /\ m_deferred' = [m_deferred EXCEPT ![m] = TRUE]
         /\ UNCHANGED <<pc, call>>
      \/ /\ UNCHANGED <<defer_waiters, m_deferred>>
         /\ \/ pc' = [pc EXCEPT ![t] = "wakeall"] /\ call' = [call EXCEPT ![t] = r]
            \/ pc' = [pc EXCEPT ![t] = "flush"] /\ call' = call
            \/ UNCHANGED <<pc, call>>
  BY DEF DropOne, Goto, WakeThen
<1> HIDE DEF td, m, r
<1>5. OthersSame(t)
  BY <1>T, <1>4 DEF OthersSame, ThreadTypesOK
<1>6. CASE /\ m_owner[m] = t
           /\ defer_waiters' = [defer_waiters EXCEPT ![t] = Append(@, td)]
           /\ m_deferred' = [m_deferred EXCEPT ![m] = TRUE]
  <2>1. Marked(t)'
    BY <1>T, <1>1, <1>3, <1>6 DEF Marked, MutexTypesOK
  <2>2. \A u \in Thread \ {t} : defer_waiters'[u] = defer_waiters[u]
    BY <1>T, <1>6 DEF WakeTypesOK
  <2>3. \A n \in Mutex : m_deferred[n] => m_deferred'[n]
    BY <1>T, <1>3, <1>6 DEF MutexTypesOK
  <2> QED
    BY <1>1, <1>5, <2>1, <2>2, <2>3, FlushMoves DEF WillFlush
<1>7. CASE UNCHANGED <<defer_waiters, m_deferred>>
  BY <1>1, <1>5, <1>7, FlushQuiet DEF Flushing
<1> QED
  BY <1>4, <1>6, <1>7

(* The signaller's steps forget nobody.                                    *)
LEMMA WakingFlush ==
  ASSUME BaseInv, ChainInv, DeferredWillFlush, NEW t \in Thread, Waking(t)
  PROVE  DeferredWillFlush'
<1>T. ThreadTypesOK
  BY CondTypes
<1>1. ASSUME pc[t] \in {"idle", "drop", "release", "flush"},
             UNCHANGED <<m_owner, m_deferred, defer_waiters, call>>,
             NEW l, pc' = [pc EXCEPT ![t] = l] \/ pc' = pc
      PROVE  DeferredWillFlush'
  BY <1>1, <1>T, FlushQuiet DEF OthersSame, ThreadTypesOK, Flushing
<1>2. ASSUME pc[t] = "idle", NEW c, NEW s, NEW o, Dequeue(t, c, s, o) PROVE DeferredWillFlush'
  BY <1>1, <1>2 DEF Dequeue, Goto, mutexVars, wakeVars
<1>3. CASE DropDone(t)
  BY <1>1, <1>3 DEF DropDone, Goto, mutexVars, wakeVars
<1>4. CASE ReleaseOne(t)
  <2>1. /\ pc[t] \in {"release", "flush"}
        /\ UNCHANGED <<m_owner, m_deferred, defer_waiters, call>>
    BY <1>4 DEF ReleaseOne, mutexVars
  <2>2. pc' = [pc EXCEPT ![t] = IF pc[t] = "flush" THEN "drop" ELSE "idle"] \/ pc' = pc
    BY <1>4 DEF ReleaseOne, Goto
  <2> QED
    BY <1>1, <2>1, <2>2
<1> QED
  BY <1>2, <1>3, <1>4, DropOneFlush DEF Waking, BroadcastCall, SignalOne

(* A deferred wakeup is not forgotten: who has deferred waiters owns a     *)
(* mutex whose Deferred flag is set, or is in a call that wakes them       *)
(* (DropOne, Unlock, Sleep).                                               *)
THEOREM DeferredWillFlushAlways == CondSpec => []DeferredWillFlush
<1>1. CondInit => DeferredWillFlush
  BY DEF CondInit, Init, DeferredWillFlush
<1>2. ASSUME BaseInv, HostInv, ChainInv, DeferredWillFlush, [CondNext]_cvars
      PROVE  DeferredWillFlush'
  <2>1. CASE UNCHANGED cvars
    BY <1>2, <2>1 DEF DeferredWillFlush, cvars, vars, mutexVars, wakeVars
  <2> QED
    BY <1>2, <2>1, StepCases, MutexFlush, WakeAllFlush, WaitingFlush, WakingUpFlush, WakingFlush
<1> QED
  BY <1>1, <1>2, BaseAlways, HostAlways, ChainAlways, PTL DEF CondSpec

-----------------------------------------------------------------------------
(* The recursion count.  m_count and the history variable held, in and out *)
(* of waits.                                                               *)

(* Only recursive mutexes count, and never below zero or past INT_MAX.     *)
CountOK ==
  \A m \in Mutex : /\ m_count[m] \in 0 .. MaxCount
                   /\ Type[m] # "Recursive" => m_count[m] = 0

(* What Wait saved of the mutex is what its client holds.                  *)
SavedOK(t) ==
  /\ pc[t] = "enqueue" => frame[t].depth = held[t][mp(t)]
  /\ Waits(t) => /\ frame[t].recurse \in 0 .. MaxCount
                 /\ Type[mp(t)] # "Recursive" => frame[t].recurse = 0
                 /\ mp(t) \in Counted => frame[t].depth = frame[t].recurse + 1

(* The counts of the mutexes and of their clients' histories agree.        *)
RecInv == RecursionBalanced /\ CountOK /\ \A t \in Thread : SavedOK(t)

(* The client's history after a step that changes one count of it.         *)
LEMMA HeldAt ==
  ASSUME held \in [Thread -> [Mutex -> Int]], NEW t \in Thread, NEW m \in Mutex,
         NEW n \in Int
  PROVE  \A u \in Thread, k \in Mutex :
           [held EXCEPT ![t][m] = n][u][k] =
             IF u = t /\ k = m THEN n ELSE held[u][k]
  OBVIOUS

(* A step that leaves t the owner of m with count n, or nobody.            *)
LEMMA RecMoves ==
  ASSUME BaseInv, RecursionBalanced, CountOK, NEW t \in Thread, NEW m \in Mutex,
         NEW o \in {t, NoThread}, NEW n \in 0 .. MaxCount, NEW d \in Int,
         m_owner[m] \in {t, NoThread},
         m_owner' = [m_owner EXCEPT ![m] = o], m_count' = [m_count EXCEPT ![m] = n],
         held' = [held EXCEPT ![t][m] = d],
         Type[m] # "Recursive" => n = 0,
         o = NoThread => n = 0,
         m \in Counted => d = IF o = t THEN n + 1 ELSE 0
  PROVE  RecursionBalanced' /\ CountOK'
<1>T. /\ m_owner \in [Mutex -> Thread \cup {NoThread}] /\ m_count \in [Mutex -> Int]
      /\ held \in [Thread -> [Mutex -> Int]] /\ NoThread \notin Thread
  BY CondTypes, MutexAssumption DEF MutexTypesOK
<1>1. \A u \in Thread, k \in Mutex :
          held'[u][k] = IF u = t /\ k = m THEN d ELSE held[u][k]
  BY <1>T, HeldAt
<1>2. CountOK'
  BY <1>T DEF CountOK
<1>3. ASSUME NEW k \in Counted
      PROVE  /\ \A u \in Thread :
                  held'[u][k] = IF m_owner'[k] = u THEN m_count'[k] + 1 ELSE 0
             /\ m_owner'[k] = NoThread => m_count'[k] = 0
  <2>1. CASE k = m
    <3>1. \A u \in Thread \ {t} : held'[u][m] = 0
      BY <1>T, <1>1, <1>3, <2>1 DEF RecursionBalanced
    <3>2. m_owner'[m] = o /\ m_count'[m] = n /\ held'[t][m] = d
      BY <1>T, <1>1
    <3> QED
      BY <1>T, <1>3, <2>1, <3>1, <3>2
  <2>2. CASE k # m
    BY <1>T, <1>1, <1>3, <2>2 DEF RecursionBalanced, Counted
  <2> QED
    BY <2>1, <2>2
<1> QED
  BY <1>2, <1>3 DEF RecursionBalanced

(* What the threads have saved stays as it was.                            *)
LEMMA SavedStays ==
  ASSUME BaseInv, NEW t \in Thread, \A u \in Thread : SavedOK(u), OthersSame(t),
         \A u \in Thread \ {t} : /\ held'[u] = held[u]
                                 /\ frame'[u].recurse = frame[u].recurse
                                 /\ frame'[u].depth = frame[u].depth,
         SavedOK(t)'
  PROVE  \A u \in Thread : SavedOK(u)'
<1>1. SUFFICES ASSUME NEW u \in Thread \ {t} PROVE SavedOK(u)'
  OBVIOUS
<1> QED
  BY <1>1 DEF OthersSame, SavedOK, mp, Waits, Leaving, Sleepy, Asleep, Resuming

(* A step that changes neither owner nor count nor history.                *)
LEMMA RecStays ==
  ASSUME BaseInv, RecInv, NEW t \in Thread, OthersSame(t),
         UNCHANGED <<m_owner, m_count, held>>,
         \A u \in Thread \ {t} : /\ frame'[u].recurse = frame[u].recurse
                                 /\ frame'[u].depth = frame[u].depth,
         SavedOK(t)'
  PROVE  RecInv'
<1>1. RecursionBalanced' /\ CountOK'
  BY DEF RecInv, RecursionBalanced, CountOK
<1>2. \A u \in Thread : SavedOK(u)'
  BY SavedStays DEF RecInv
<1> QED
  BY <1>1, <1>2 DEF RecInv

(* A client's history is changed by its own calls.                         *)
LEMMA OthersHold ==
  ASSUME BaseInv, NEW t \in Thread, NEW m \in Mutex, NEW d,
         held' = [held EXCEPT ![t][m] = d]
  PROVE  \A u \in Thread \ {t} : held'[u] = held[u]
<1>1. held \in [Thread -> [Mutex -> Int]]
  BY CondTypes DEF MutexTypesOK
<1> QED
  BY <1>1

(* Lock and Unlock change the count and the history alike, unless the      *)
(* compiler folds the room test.                                           *)
LEMMA MutexRec ==
  ASSUME ~FoldedCheck, BaseInv, HostInv, RecInv, NEW t \in Thread, MutexStep(t), UNCHANGED condVars
  PROVE  RecInv'
<1>T. /\ pc \in [Thread -> CondLabels] /\ call \in [Thread -> CallType]
      /\ m_owner \in [Mutex -> Thread \cup {NoThread}] /\ CallOK(t)
      /\ held \in [Thread -> [Mutex -> Int]] /\ m_count \in [Mutex -> Int]
  BY CondTypes DEF ThreadTypesOK, MutexTypesOK
<1>R. RecursionBalanced /\ CountOK /\ (\A u \in Thread : SavedOK(u)) /\ frame' = frame
  BY DEF RecInv, condVars
<1>S. OthersSame(t)
  BY <1>T, MutexPath DEF OthersSame
<1>N. pc'[t] \in {"idle", "lock", "own", "unlock"} \/ (pc'[t] = "wakeall" /\ call'[t].next = "idle")
  BY <1>T, MutexPath
<1>W. SavedOK(t)'
  BY <1>N DEF SavedOK, Waits, Leaving, Sleepy, Asleep, Resuming
<1>1. CASE UNCHANGED <<m_owner, m_count, held>>
  BY <1>1, <1>R, <1>S, <1>W, RecStays
<1>2. ASSUME NEW m \in Mutex, NEW o \in {t, NoThread}, NEW n \in 0 .. MaxCount, NEW d \in Int,
         m_owner[m] \in {t, NoThread},
         m_owner' = [m_owner EXCEPT ![m] = o], m_count' = [m_count EXCEPT ![m] = n],
         held' = [held EXCEPT ![t][m] = d],
         Type[m] # "Recursive" => n = 0,
         o = NoThread => n = 0,
         m \in Counted => d = IF o = t THEN n + 1 ELSE 0
      PROVE RecInv'
  <2>1. RecursionBalanced' /\ CountOK'
    BY <1>2, <1>R, RecMoves
  <2>2. \A u \in Thread : SavedOK(u)'
    BY <1>2, <1>R, <1>S, <1>W, OthersHold, SavedStays
  <2> QED
    BY <2>1, <2>2 DEF RecInv
<1>3. ASSUME NEW m \in Mutex, NEW mode \in LockCalls, SelfLock(t, m, mode)
      PROVE  RecInv'
  <2> DEFINE n == IF Type[m] = "Recursive" THEN m_count[m] + 1 ELSE m_count[m]
             d == held[t][m] + 1
  <2>1. m_owner[m] = t /\ m_owner' = m_owner /\ held' = [held EXCEPT ![t][m] = d]
    BY <1>3 DEF SelfLock
  <2>2. n \in 0 .. MaxCount /\ (Type[m] # "Recursive" => n = 0)
        /\ m_count' = [m_count EXCEPT ![m] = n]
    BY <1>R, <1>T, <1>3, MutexAssumption DEF SelfLock, HasRoom, Incremented, CountOK
  <2>3. d \in Int
    BY <1>T
  <2>4. m \in Counted => d = n + 1
    <3>1. m \in Counted => Type[m] = "Recursive"
      BY <1>3 DEF SelfLock, Counted
    <3>2. m \in Counted => held[t][m] = m_count[m] + 1
      BY <1>R, <2>1 DEF RecursionBalanced
    <3> QED
      BY <1>T, <3>1, <3>2
  <2>5. m_owner' = [m_owner EXCEPT ![m] = t]
    BY <1>T, <2>1
  <2>6. t # NoThread
    BY MutexAssumption
  <2> HIDE DEF n, d
  <2> QED
    BY <1>2, <2>1, <2>2, <2>3, <2>4, <2>5, <2>6
<1>4. CASE LockOwn(t)
  <2> DEFINE m == mp(t)
             d == held[t][m] + 1
  <2>1. /\ pc[t] = "own" /\ m_owner' = [m_owner EXCEPT ![m] = t]
        /\ held' = [held EXCEPT ![t][m] = d] /\ m_count' = m_count
    BY <1>4 DEF LockOwn
  <2>2. m \in Mutex
    BY <1>T, <2>1 DEF CallOK, Asking
  <2>3. m_owner[m] = NoThread
    BY <2>1, <2>2 DEF HostInv, HostLock, Transit
  <2> HIDE DEF m
  <2>4. m_count' = [m_count EXCEPT ![m] = m_count[m]] /\ m_count[m] \in 0 .. MaxCount
    BY <1>R, <1>T, <2>1, <2>2 DEF CountOK
  <2>5. d \in Int
    BY <1>T, <2>2
  <2>6. Type[m] # "Recursive" => m_count[m] = 0
    BY <1>R, <2>2 DEF CountOK
  <2>7. m \in Counted => d = m_count[m] + 1
    BY <1>R, <2>3, MutexAssumption DEF RecursionBalanced
  <2>8. t # NoThread
    BY MutexAssumption
  <2> HIDE DEF d
  <2> QED
    BY <1>2, <2>1, <2>2, <2>3, <2>4, <2>5, <2>6, <2>7, <2>8
<1>5. ASSUME NEW m \in Mutex, UnlockCall(t, m)
      PROVE  RecInv'
  <2> DEFINE d == held[t][m] - 1
  <2>1. m_owner[m] = t /\ held' = [held EXCEPT ![t][m] = d]
    BY <1>5 DEF UnlockCall
  <2>2. d \in Int
    BY <1>T
  <2>3. m \in Counted => d = m_count[m]
    BY <1>R, <1>T, <2>1 DEF RecursionBalanced
  <2>4. m_count[m] \in 0 .. MaxCount /\ (Type[m] # "Recursive" => m_count[m] = 0)
    BY <1>R DEF CountOK
  <2>5. t # NoThread
    BY MutexAssumption
  <2>6. CASE Counts(m)
    <3> DEFINE n == m_count[m] - 1
    <3>1. m_owner' = m_owner /\ m_count' = [m_count EXCEPT ![m] = n]
      BY <1>5, <2>6 DEF UnlockCall
    <3>2. n \in 0 .. MaxCount /\ Type[m] = "Recursive" /\ (m \in Counted => d = n + 1)
      BY <1>T, <2>3, <2>4, <2>6, MutexAssumption DEF Counts
    <3>3. m_owner' = [m_owner EXCEPT ![m] = t]
      BY <1>T, <2>1, <3>1
    <3> HIDE DEF n, d
    <3> QED
      BY <1>2, <2>1, <2>2, <2>5, <3>1, <3>2, <3>3
  <2>7. CASE ~Counts(m)
    <3>1. m_count[m] = 0
      BY <2>4, <2>7 DEF Counts
    <3>2. m_owner' = [m_owner EXCEPT ![m] = NoThread] /\ m_count' = m_count
      BY <1>5, <2>7 DEF UnlockCall, Disown
    <3>3. m_count' = [m_count EXCEPT ![m] = 0] /\ 0 \in 0 .. MaxCount
      BY <1>T, <2>4, <3>1, <3>2
    <3>4. m \in Counted => d = 0
      BY <2>3, <3>1
    <3> HIDE DEF d
    <3> QED
      BY <1>2, <2>1, <2>2, <2>5, <3>2, <3>3, <3>4
  <2> QED
    BY <2>6, <2>7
<1>6. CASE \E m \in Mutex, mode \in LockCalls : LockEnter(t, m, mode)
  BY <1>1, <1>6 DEF LockEnter, mutexVars
<1>7. CASE LockTake(t) \/ LockFail(t) \/ UnlockRelease(t)
  BY <1>1, <1>7 DEF LockTake, Take, LockFail, UnlockRelease, Release, mutexVars
<1> QED
  BY <1>3, <1>4, <1>5, <1>6, <1>7 DEF MutexStep, LockCall

(* WakeAll keeps what a wait saved.                                        *)
LEMMA WakeAllRec ==
  ASSUME BaseInv, RecInv, NEW t \in Thread, WakeAll(t), UNCHANGED condVars
  PROVE  RecInv'
<1>T. /\ pc \in [Thread -> CondLabels] /\ call \in [Thread -> CallType] /\ SavedOK(t)
  BY CondTypes DEF ThreadTypesOK, RecInv
<1>1. pc[t] = "wakeall" /\ UNCHANGED <<m_owner, m_count, held, frame>>
  BY DEF WakeAll, mutexVars, condVars
<1>2. CASE UNCHANGED <<pc, call>>
  BY <1>T, <1>1, <1>2, RecStays DEF OthersSame, SavedOK, Waits, Leaving, Sleepy, Asleep, Resuming,
       mp
<1>3. CASE Return(t)
  <2>1. OthersSame(t) /\ pc'[t] = "idle"
    BY <1>T, <1>3 DEF OthersSame, Return, Goto
  <2>2. SavedOK(t)'
    BY <2>1 DEF SavedOK, Waits, Leaving, Sleepy, Asleep, Resuming
  <2> QED
    BY <1>1, <2>1, <2>2, RecStays
<1>4. CASE call[t].next # "idle" /\ Goto(t, call[t].next) /\ WakeThen(t, "idle")
  <2> DEFINE r == Call(mp(t), call[t].mode, call[t].deferred, "idle")
  <2>1. r.mutex = mp(t) /\ call' = [call EXCEPT ![t] = r]
    BY <1>4 DEF Call, WakeThen
  <2>2. call[t].next \in {"sleep", "drop"}
    BY <1>T, <1>4 DEF CallType
  <2> HIDE DEF r
  <2>3. pc'[t] = call[t].next /\ mp(t)' = mp(t) /\ OthersSame(t)
    BY <1>T, <1>4, <2>1 DEF OthersSame, Goto, mp
  <2>4. Waits(t)' => Waits(t)
    BY <1>1, <2>2, <2>3 DEF Waits, Leaving, Sleepy, Asleep, Resuming
  <2>5. SavedOK(t)'
    BY <1>T, <1>1, <2>2, <2>3, <2>4 DEF SavedOK
  <2> QED
    BY <1>1, <2>3, <2>5, RecStays
<1> QED
  BY <1>2, <1>3, <1>4 DEF WakeAll

(* A wait keeps what it saved until it has its mutex back.                 *)
LEMMA SavedKept ==
  ASSUME NEW t \in Thread, SavedOK(t), Waits(t), Waits(t)', mp(t)' = mp(t),
         frame'[t].recurse = frame[t].recurse, frame'[t].depth = frame[t].depth
  PROVE  SavedOK(t)'
BY DEF SavedOK, Waits, Leaving, Sleepy, Asleep, Resuming

(* The result of a wait is not what it saved.                              *)
LEMMA ErrorOnly ==
  ASSUME frame \in [Thread -> FrameType], NEW t \in Thread, NEW e,
         frame' = [frame EXCEPT ![t].error = e]
  PROVE  \A u \in Thread : /\ frame'[u].cond = frame[u].cond
                           /\ frame'[u].recurse = frame[u].recurse
                           /\ frame'[u].depth = frame[u].depth
                           /\ frame'[u].signalled = frame[u].signalled
<1> SUFFICES ASSUME NEW u \in Thread
             PROVE  /\ frame'[u].cond = frame[u].cond
                    /\ frame'[u].recurse = frame[u].recurse
                    /\ frame'[u].depth = frame[u].depth
                    /\ frame'[u].signalled = frame[u].signalled
  OBVIOUS
<1>1. CASE u = t
  BY <1>1 DEF FrameType
<1>2. CASE u # t
  BY <1>2
<1> QED
  BY <1>1, <1>2

(* Wait saves the count that it zeroes.                                    *)
LEMMA WaitingRec ==
  ASSUME BaseInv, HostInv, RecInv, NEW t \in Thread, Waiting(t)
  PROVE  RecInv'
<1>T. /\ pc \in [Thread -> CondLabels] /\ call \in [Thread -> CallType] /\ SavedOK(t)
      /\ m_owner \in [Mutex -> Thread \cup {NoThread}] /\ CallOK(t)
      /\ held \in [Thread -> [Mutex -> Int]] /\ m_count \in [Mutex -> Int]
      /\ frame \in [Thread -> FrameType]
  BY CondTypes DEF ThreadTypesOK, MutexTypesOK, RecInv
<1>R. RecursionBalanced /\ CountOK /\ (\A u \in Thread : SavedOK(u))
  BY DEF RecInv
<1>1. CASE WaitCall(t)
  <2>1. PICK c \in Cond, m \in Mutex, mode \in WaitCalls[t] :
          /\ m_owner[m] = t /\ call' = [call EXCEPT ![t] = Call(m, mode, FALSE, "idle")]
          /\ frame' = [frame EXCEPT ![t] = [frame[t] EXCEPT !.cond = c, !.depth = held[t][m]]]
    BY <1>1 DEF WaitCall, Enter
  <2>2. pc' = [pc EXCEPT ![t] = "enqueue"] /\ UNCHANGED <<m_owner, m_count, held>>
    BY <1>1 DEF WaitCall, Goto, mutexVars
  <2>3. pc'[t] = "enqueue" /\ mp(t)' = m /\ OthersSame(t)
    BY <1>T, <2>1, <2>2 DEF mp, Call, OthersSame
  <2>4. frame'[t].depth = held[t][m]
    BY <1>T, <2>1 DEF FrameType
  <2>5. \A u \in Thread \ {t} : frame'[u] = frame[u]
    BY <1>T, <2>1
  <2>6. SavedOK(t)'
    BY <2>2, <2>3, <2>4 DEF SavedOK, Waits, Leaving, Sleepy, Asleep, Resuming
  <2> QED
    BY <2>2, <2>3, <2>5, <2>6, RecStays
<1>2. CASE WaitUnlock(t)
  <2> DEFINE m == mp(t)
  <2>1. /\ pc[t] = "enqueue" /\ pc' = [pc EXCEPT ![t] = "cvunlock"]
        /\ call' = [call EXCEPT ![t] = Call(m, call[t].mode, m_deferred[m], call[t].next)]
        /\ m_owner' = [m_owner EXCEPT ![m] = NoThread] /\ m_count' = [m_count EXCEPT ![m] = 0]
        /\ held' = [held EXCEPT ![t][m] = 0]
        /\ frame' = [frame EXCEPT ![t].recurse = m_count[m]]
    BY <1>2 DEF WaitUnlock, Disown, Goto
  <2>2. m \in Mutex /\ m_owner[m] = t
    BY <1>T, <2>1 DEF CallOK, Asking, OwnerOK, HostInv
  <2>3. frame[t].depth = held[t][m]
    BY <1>T, <2>1 DEF SavedOK
  <2>4. pc'[t] = "cvunlock" /\ mp(t)' = m /\ OthersSame(t)
    BY <1>T, <2>1 DEF mp, Call, OthersSame
  <2> HIDE DEF m
  <2>5. frame'[t].recurse = m_count[m] /\ frame'[t].depth = held[t][m]
    BY <1>T, <2>1, <2>3 DEF FrameType
  <2>6. \A u \in Thread \ {t} : frame'[u] = frame[u]
    BY <1>T, <2>1
  <2>7. SavedOK(t)'
    BY <1>R, <2>2, <2>4, <2>5 DEF SavedOK, RecursionBalanced, CountOK
  <2>8. RecursionBalanced' /\ CountOK'
    <3>1. 0 \in 0 .. MaxCount /\ 0 \in Int /\ t # NoThread
      BY MutexAssumption
    <3> QED
      BY <1>R, <2>1, <2>2, <3>1, RecMoves
  <2>9. \A u \in Thread : SavedOK(u)'
    BY <1>R, <2>1, <2>2, <2>4, <2>6, <2>7, OthersHold, SavedStays
  <2> QED
    BY <2>8, <2>9 DEF RecInv
<1>3. CASE WaitRelease(t) \/ WaitAdd(t) \/ SleepEnter(t)
  <2>1. UNCHANGED <<m_owner, m_count, held, frame>>
    BY <1>3 DEF WaitRelease, Release, WaitAdd, SleepEnter, mutexVars, condVars
  <2>2. pc[t] \in {"cvunlock", "queue", "presleep"}
    BY <1>3 DEF WaitRelease, Release, WaitAdd, SleepEnter
  <2>3. Leaving(t) => will_sleep[t]
    BY <1>T DEF CallOK
  <2> DEFINE r == Call(mp(t), call[t].mode, call[t].deferred, "sleep")
  <2>4. \/ pc' = [pc EXCEPT ![t] = "queue"] /\ call' = call
        \/ pc' = [pc EXCEPT ![t] = "presleep"] /\ call' = call
        \/ pc' = [pc EXCEPT ![t] = "sleep"] /\ call' = call
        \/ pc' = [pc EXCEPT ![t] = "wakeall"] /\ call' = [call EXCEPT ![t] = r]
    BY <1>3, <2>3 DEF WaitRelease, Release, WaitAdd, SleepEnter, Goto, WakeThen, Leaving
  <2>5. r.mutex = mp(t) /\ r.next = "sleep"
    BY DEF Call
  <2> HIDE DEF r
  <2>6. OthersSame(t) /\ mp(t)' = mp(t)
    BY <1>T, <2>4, <2>5 DEF OthersSame, mp
  <2>7. pc'[t] \in {"queue", "presleep", "sleep"} \/ (pc'[t] = "wakeall" /\ call'[t].next = "sleep")
    <3>1. pc \in [Thread -> CondLabels] /\ call \in [Thread -> CallType]
      BY <1>T
    <3>2. pc'[t] \in {"queue", "presleep", "sleep"} \/ (pc'[t] = "wakeall" /\ call'[t] = r)
      BY <2>4, <3>1
    <3> QED
      BY <2>5, <3>2
  <2>8. Waits(t) /\ Waits(t)'
    BY <2>2, <2>7 DEF Waits, Leaving, Sleepy, Asleep
  <2>9. SavedOK(t)'
    BY <1>T, <2>1, <2>6, <2>8, SavedKept
  <2> QED
    BY <2>1, <2>6, <2>9, RecStays
<1>4. CASE SleepReturn(t)
  <2>1. /\ pc[t] = "sleep" /\ pc' = [pc EXCEPT ![t] = "recheck"] /\ call' = call
        /\ UNCHANGED <<m_owner, m_count, held>>
    BY <1>4 DEF SleepReturn, Goto, mutexVars
  <2>2. \/ frame' = [frame EXCEPT ![t].error = "0"]
        \/ frame' = [frame EXCEPT ![t].error = "ETIMEDOUT"]
    BY <1>4 DEF SleepReturn
  <2>3. \A u \in Thread : frame'[u].recurse = frame[u].recurse /\ frame'[u].depth = frame[u].depth
    BY <1>T, <2>2, ErrorOnly
  <2>4. Waits(t) /\ Waits(t)' /\ mp(t)' = mp(t) /\ OthersSame(t)
    BY <1>T, <2>1 DEF Waits, Sleepy, Asleep, mp, OthersSame
  <2> QED
    BY <1>T, <2>1, <2>3, <2>4, SavedKept, RecStays
<1> QED
  BY <1>1, <1>2, <1>3, <1>4 DEF Waiting

(* CvLock puts back what was saved, to a mutex that nobody owns.           *)
LEMMA WakingUpRec ==
  ASSUME BaseInv, HostInv, RecInv, NEW t \in Thread, WakingUp(t)
  PROVE  RecInv'
<1>T. /\ pc \in [Thread -> CondLabels] /\ call \in [Thread -> CallType] /\ SavedOK(t)
      /\ m_owner \in [Mutex -> Thread \cup {NoThread}] /\ CallOK(t)
      /\ held \in [Thread -> [Mutex -> Int]] /\ m_count \in [Mutex -> Int]
      /\ frame \in [Thread -> FrameType]
  BY CondTypes DEF ThreadTypesOK, MutexTypesOK, RecInv
<1>R. RecursionBalanced /\ CountOK /\ (\A u \in Thread : SavedOK(u))
  BY DEF RecInv
<1>1. CASE WaitSignalled(t) \/ WaitExpired(t) \/ WaitSpurious(t) \/ CvLockTake(t)
  <2>1. pc[t] \in {"recheck", "cvlock"} /\ UNCHANGED <<m_owner, m_count, held, call>>
    BY <1>1 DEF WaitSignalled, WaitExpired, WaitSpurious, RecheckFrame, CvLockTake, Take, mutexVars
  <2>2. \/ pc' = [pc EXCEPT ![t] = "cvlock"] \/ pc' = [pc EXCEPT ![t] = "presleep"]
        \/ pc' = [pc EXCEPT ![t] = "cvown"]
    BY <1>1 DEF WaitSignalled, WaitExpired, WaitSpurious, CvLockTake, Take, Goto
  <2>3. frame' = [frame EXCEPT ![t].error = "0"] \/ frame' = frame
    BY <1>1 DEF WaitSignalled, WaitExpired, WaitSpurious, CvLockTake, condVars
  <2>4. \A u \in Thread : frame'[u].recurse = frame[u].recurse /\ frame'[u].depth = frame[u].depth
    BY <1>T, <2>3, ErrorOnly
  <2>5. pc'[t] \in {"cvlock", "presleep", "cvown"} /\ OthersSame(t) /\ mp(t)' = mp(t)
    BY <1>T, <2>1, <2>2 DEF OthersSame, mp
  <2>6. Waits(t) /\ Waits(t)'
    BY <2>1, <2>5 DEF Waits, Sleepy, Asleep, Resuming
  <2> QED
    BY <1>T, <2>1, <2>4, <2>5, <2>6, SavedKept, RecStays
<1>2. CASE CvLockOwn(t)
  <2> DEFINE m == mp(t)
             n == frame[t].recurse
             d == frame[t].depth
  <2>1. /\ pc[t] = "cvown" /\ pc' = [pc EXCEPT ![t] = "idle"] /\ call' = [call EXCEPT ![t] = NoCall]
        /\ m_owner' = [m_owner EXCEPT ![m] = t] /\ m_count' = [m_count EXCEPT ![m] = n]
        /\ held' = [held EXCEPT ![t][m] = d] /\ frame' = [frame EXCEPT ![t] = NoFrame]
    BY <1>2 DEF CvLockOwn, Return, Goto
  <2>2. m \in Mutex /\ Waits(t)
    BY <1>T, <2>1 DEF CallOK, Waits, Resuming
  <2>3. m_owner[m] = NoThread
    BY <2>1, <2>2 DEF HostInv, HostLock, Transit
  <2>4. /\ n \in 0 .. MaxCount /\ (Type[m] # "Recursive" => n = 0) /\ (m \in Counted => d = n + 1)
        /\ d \in Int
    BY <1>T, <2>2 DEF SavedOK, FrameType
  <2>5. pc'[t] = "idle" /\ OthersSame(t) /\ \A u \in Thread \ {t} : frame'[u] = frame[u]
    BY <1>T, <2>1 DEF OthersSame
  <2>6. SavedOK(t)'
    BY <2>5 DEF SavedOK, Waits, Leaving, Sleepy, Asleep, Resuming
  <2>7. t # NoThread
    BY MutexAssumption
  <2> HIDE DEF m, n, d
  <2>8. RecursionBalanced' /\ CountOK'
    BY <1>R, <2>1, <2>2, <2>3, <2>4, <2>7, RecMoves
  <2>9. \A u \in Thread : SavedOK(u)'
    BY <1>R, <2>1, <2>2, <2>5, <2>6, OthersHold, SavedStays
  <2> QED
    BY <2>8, <2>9 DEF RecInv
<1> QED
  BY <1>1, <1>2 DEF WakingUp

(* A signaller changes no count.                                           *)
LEMMA WakingRec ==
  ASSUME BaseInv, RecInv, NEW t \in Thread, Waking(t)
  PROVE  RecInv'
<1>T. /\ pc \in [Thread -> CondLabels] /\ call \in [Thread -> CallType]
      /\ frame \in [Thread -> FrameType]
  BY CondTypes DEF ThreadTypesOK
<1>1. ASSUME UNCHANGED <<m_owner, m_count, held>>,
             OthersSame(t), pc'[t] \in {"idle", "drop", "flush", "release", "wakeall"},
             pc'[t] = "wakeall" => call'[t].next = "drop",
             \A u \in Thread \ {t} : /\ frame'[u].recurse = frame[u].recurse
                                     /\ frame'[u].depth = frame[u].depth
      PROVE  RecInv'
  <2>1. SavedOK(t)'
    BY <1>1 DEF SavedOK, Waits, Leaving, Sleepy, Asleep, Resuming
  <2> QED
    BY <1>1, <2>1, RecStays
<1>2. CASE DropOne(t)
  <2> DEFINE r == Call(mp(t), call[t].mode, call[t].deferred, "drop")
  <2>1. pc[t] = "drop" /\ UNCHANGED <<m_owner, m_count, held, frame>>
    BY <1>2 DEF DropOne
  <2>2. \/ pc' = [pc EXCEPT ![t] = "wakeall"] /\ call' = [call EXCEPT ![t] = r]
        \/ UNCHANGED <<pc, call>>
        \/ pc' = [pc EXCEPT ![t] = "flush"] /\ call' = call
    BY <1>2 DEF DropOne, Goto, WakeThen
  <2>3. r.next = "drop"
    BY DEF Call
  <2> HIDE DEF r
  <2>4. OthersSame(t)
    BY <1>T, <2>2 DEF OthersSame
  <2>5. /\ pc'[t] \in {"drop", "flush", "wakeall"}
        /\ pc'[t] = "wakeall" => call'[t].next = "drop"
    BY <1>T, <2>1, <2>2, <2>3
  <2> QED
    BY <1>1, <2>1, <2>4, <2>5
<1>3. CASE DropDone(t)
  <2>1. /\ pc[t] = "drop" /\ pc' = [pc EXCEPT ![t] = "release"] /\ call' = call
        /\ UNCHANGED <<m_owner, m_count, held>> /\ frame' = [frame EXCEPT ![t] = NoFrame]
    BY <1>3 DEF DropDone, Goto, mutexVars
  <2>2. \A u \in Thread \ {t} : frame'[u] = frame[u]
    BY <1>T, <2>1
  <2> QED
    BY <1>T, <1>1, <2>1, <2>2 DEF OthersSame
<1>4. CASE ReleaseOne(t)
  <2>1. /\ pc[t] \in {"release", "flush"} /\ call' = call
        /\ UNCHANGED <<m_owner, m_count, held, frame>>
    BY <1>4 DEF ReleaseOne, mutexVars
  <2>2. \/ pc' = pc
        \/ pc' = [pc EXCEPT ![t] = IF pc[t] = "flush" THEN "drop" ELSE "idle"]
    BY <1>4 DEF ReleaseOne, Goto
  <2>3. pc'[t] \in {"idle", "drop", "release", "flush"} /\ OthersSame(t)
    BY <1>T, <2>1, <2>2 DEF OthersSame
  <2> QED
    BY <1>1, <2>1, <2>3
<1>5. ASSUME NEW c, NEW s, NEW o, Dequeue(t, c, s, o) PROVE RecInv'
  <2>1. /\ pc' = [pc EXCEPT ![t] = "drop"] /\ call' = call
        /\ UNCHANGED <<m_owner, m_count, held>>
        /\ frame' = [u \in Thread |->
                 [frame[u] EXCEPT !.cond = IF u = t THEN c ELSE @,
                                  !.signalled = @ \/ u \in Range(s)]]
    BY <1>5 DEF Dequeue, Goto, mutexVars
  <2>2. \A u \in Thread : frame'[u].recurse = frame[u].recurse /\ frame'[u].depth = frame[u].depth
    BY <1>T, <2>1 DEF FrameType
  <2> QED
    BY <1>T, <1>1, <2>1, <2>2 DEF OthersSame
<1>6. CASE \E c \in Cond : BroadcastCall(t, c)
  BY <1>5, <1>6 DEF BroadcastCall
<1>7. CASE \E c \in Cond : pc[t] = "idle" /\ \E td \in Range(sq_blocked[c]) : SignalOne(t, c, td)
  BY <1>5, <1>7 DEF SignalOne
<1> QED
  BY <1>2, <1>3, <1>4, <1>6, <1>7 DEF Waking

(* Every step keeps counts and histories together.                         *)
LEMMA StepRec ==
  ASSUME ~FoldedCheck, BaseInv, HostInv, RecInv, [CondNext]_cvars
  PROVE  RecInv'
<1>1. CASE UNCHANGED cvars
  BY <1>1 DEF RecInv, RecursionBalanced, CountOK, SavedOK, Waits, Leaving, Sleepy, Asleep, Resuming,
              mp, cvars, vars, mutexVars, condVars
<1> QED
  BY <1>1, StepCases, MutexRec, WakeAllRec, WaitingRec, WakingUpRec, WakingRec

(* No client has locked anything at the start.                             *)
LEMMA InitRec == CondInit => RecInv
<1> SUFFICES ASSUME CondInit PROVE RecInv
  OBVIOUS
<1>1. /\ m_owner = [m \in Mutex |-> NoThread] /\ m_count = [m \in Mutex |-> 0]
      /\ held = [t \in Thread |-> [m \in Mutex |-> 0]] /\ pc = [t \in Thread |-> "idle"]
  BY DEF CondInit, Init
<1>2. \A t \in Thread : SavedOK(t)
  BY <1>1 DEF SavedOK, Waits, Leaving, Sleepy, Asleep, Resuming
<1> QED
  BY <1>1, <1>2, MutexAssumption DEF RecInv, RecursionBalanced, CountOK, Counted

(* With the room test as written, m_count is the client's nesting less     *)
(* one, across any waits.                                                  *)
LEMMA RecAlways == ASSUME ~FoldedCheck PROVE CondSpec => []RecInv
<1>1. BaseInv /\ HostInv /\ RecInv /\ [CondNext]_cvars => RecInv'
  BY StepRec
<1> QED
  BY <1>1, InitRec, BaseAlways, HostAlways, PTL DEF CondSpec

(* What a wait leaves behind is what it found: the thread is on no queue   *)
(* and has its mutex back at the depth at which it gave it up (Wait,       *)
(* CvUnlock, CvLock), in every build that evaluates the room test of the   *)
(* recursion count as written.                                             *)
THEOREM WaitUndoneAlways == ASSUME ~FoldedCheck PROVE CondSpec => []WaitUndone
<1>1. BaseInv /\ RecInv => WaitUndone
  BY BaseClear DEF WaitUndone, RecInv
<1> QED
  BY <1>1, BaseAlways, RecAlways, PTL

-----------------------------------------------------------------------------
(* The refinement of Monitor.  How the phases and levels of PthreadCond's  *)
(* mapping move.                                                           *)

(* What the monitor sees of a thread does not change when another thread   *)
(* moves and leaves its frame alone.                                       *)
LEMMA PhaseStays ==
  ASSUME NEW u \in Thread, pc'[u] = pc[u], call'[u] = call[u],
         frame'[u].cond = frame[u].cond, frame'[u].recurse = frame[u].recurse,
         frame'[u].error = frame[u].error, frame'[u].signalled = frame[u].signalled
  PROVE  PhaseOf(u)' = PhaseOf(u)
BY DEF PhaseOf, InWait, Asleep, WaitPhase, TimedOut, cv, mp

(* A thread outside a wait runs, for the monitor.                          *)
LEMMA Runs ==
  ASSUME NEW t \in Thread
  PROVE  ~Waits(t) <=> PhaseOf(t) = M!Running
<1>1. InWait(t) <=> Waits(t)
  BY DEF InWait, Waits, Leaving, Sleepy, Resuming
<1>2. [at |-> WaitPhase(t), cond |-> cv(t), mutex |-> mp(t),
       level |-> frame[t].recurse + 1] # [at |-> "running"]
  <2>1. WaitPhase(t) # "running"
    BY DEF WaitPhase
  <2> QED
    BY <2>1
<1> QED
  BY <1>1, <1>2 DEF PhaseOf, M!Running

(* The same in the next state.                                             *)
LEMMA RunsNext ==
  ASSUME NEW t \in Thread
  PROVE  ~Waits(t)' <=> PhaseOf(t)' = M!Running
<1>1. InWait(t)' <=> Waits(t)'
  BY DEF InWait, Waits, Leaving, Sleepy, Resuming
<1>2. [at |-> WaitPhase(t)', cond |-> cv(t)', mutex |-> mp(t)',
       level |-> frame'[t].recurse + 1] # [at |-> "running"]
  <2>1. WaitPhase(t)' # "running"
    BY DEF WaitPhase
  <2> QED
    BY <2>1
<1> QED
  BY <1>1, <1>2 DEF PhaseOf, M!Running

(* Inside a wait the phase is told by the pc, the frame and the call.      *)
LEMMA WaitsAs ==
  ASSUME NEW t \in Thread, Waits(t)
  PROVE  PhaseOf(t) = M!Waiter(IF Resuming(t) /\ frame[t].error = "ETIMEDOUT" THEN "timedout"
                               ELSE IF frame[t].signalled THEN "signalled" ELSE "waiting",
                               cv(t), mp(t), frame[t].recurse + 1)
<1>1. InWait(t)
  BY DEF InWait, Waits, Leaving, Sleepy, Resuming
<1>2. WaitPhase(t) = IF Resuming(t) /\ frame[t].error = "ETIMEDOUT" THEN "timedout"
                     ELSE IF frame[t].signalled THEN "signalled" ELSE "waiting"
  BY DEF WaitPhase, TimedOut, Resuming
<1> QED
  BY <1>1, <1>2 DEF PhaseOf, M!Waiter

(* The same in the next state.                                             *)
LEMMA WaitsAsNext ==
  ASSUME NEW t \in Thread, Waits(t)'
  PROVE  PhaseOf(t)' = M!Waiter(IF Resuming(t)' /\ frame'[t].error = "ETIMEDOUT" THEN "timedout"
                               ELSE IF frame'[t].signalled THEN "signalled" ELSE "waiting",
                               cv(t)', mp(t)', frame'[t].recurse + 1)
<1>1. InWait(t)'
  BY DEF InWait, Waits, Leaving, Sleepy, Resuming
<1>2. WaitPhase(t)' = IF Resuming(t)' /\ frame'[t].error = "ETIMEDOUT" THEN "timedout"
                     ELSE IF frame'[t].signalled THEN "signalled" ELSE "waiting"
  BY DEF WaitPhase, TimedOut, Resuming
<1> QED
  BY <1>1, <1>2 DEF PhaseOf, M!Waiter

(* A step that the monitor does not see.                                   *)
LEMMA Stutters ==
  ASSUME UNCHANGED <<m_owner, m_count>>, \A u \in Thread : PhaseOf(u)' = PhaseOf(u)
  PROVE  UNCHANGED M!mvars
BY DEF M!mvars, LevelOf

(* The count of a mutex as the monitor counts it.                          *)
LEMMA LevelMoves ==
  ASSUME BaseInv, NEW t \in Thread, NEW m \in Mutex, NEW o \in {t, NoThread}, NEW n \in Int,
         m_owner' = [m_owner EXCEPT ![m] = o], m_count' = [m_count EXCEPT ![m] = n]
  PROVE  /\ LevelOf(m)' = IF o = t THEN n + 1 ELSE 0
         /\ \A k \in Mutex \ {m} : LevelOf(k)' = LevelOf(k)
<1>1. m_owner \in [Mutex -> Thread \cup {NoThread}] /\ m_count \in [Mutex -> Int]
  BY CondTypes DEF MutexTypesOK
<1>2. t # NoThread
  BY MutexAssumption
<1> QED
  BY <1>1, <1>2 DEF LevelOf

(* A step that gives a mutex to t, or counts once more, is a Lock.         *)
LEMMA Locks ==
  ASSUME BaseInv, NEW t \in Thread, NEW m \in Mutex, NEW n \in Int,
         \A u \in Thread : PhaseOf(u)' = PhaseOf(u), ~Waits(t),
         m_owner' = [m_owner EXCEPT ![m] = t], m_count' = [m_count EXCEPT ![m] = n],
         m_owner[m] \in {t, NoThread}, n = LevelOf(m)
  PROVE  M!MonitorNext
<1>1. PhaseOf(t) = M!Running
  BY Runs
<1>2. [k \in Mutex |-> LevelOf(k)]' = [[k \in Mutex |-> LevelOf(k)] EXCEPT ![m] = n + 1]
  <2>1. LevelOf(m)' = n + 1 /\ \A k \in Mutex \ {m} : LevelOf(k)' = LevelOf(k)
    BY LevelMoves
  <2> QED
    BY <2>1
<1>3. [k \in Mutex |-> LevelOf(k)][m] = n
  OBVIOUS
<1>4. UNCHANGED [u \in Thread |-> PhaseOf(u)]
  OBVIOUS
<1> HIDE DEF M!Running
<1>5. M!Lock(t, m)
  BY <1>1, <1>2, <1>3, <1>4 DEF M!Lock
<1> QED
  BY <1>5 DEF M!MonitorNext

(* A step that counts once less, or gives the mutex up, is an Unlock.      *)
LEMMA Unlocks ==
  ASSUME BaseInv, NEW t \in Thread, NEW m \in Mutex, NEW n \in Nat, NEW o \in {t, NoThread},
         \A u \in Thread : PhaseOf(u)' = PhaseOf(u), ~Waits(t),
         m_owner[m] = t, m_owner' = [m_owner EXCEPT ![m] = o],
         m_count' = [m_count EXCEPT ![m] = n],
         IF o = t THEN m_count[m] = n + 1 ELSE m_count[m] = 0
  PROVE  M!MonitorNext
<1>0. t # NoThread
  BY MutexAssumption
<1> DEFINE d == IF o = t THEN n + 1 ELSE 0
<1>1. PhaseOf(t) = M!Running
  BY Runs
<1>2. [k \in Mutex |-> LevelOf(k)]' = [[k \in Mutex |-> LevelOf(k)] EXCEPT ![m] = d]
  <2>1. LevelOf(m)' = d /\ \A k \in Mutex \ {m} : LevelOf(k)' = LevelOf(k)
    <3>1. n \in Int
      OBVIOUS
    <3> QED
      BY <3>1, LevelMoves
  <2> QED
    BY <2>1
<1>3. [k \in Mutex |-> LevelOf(k)][m] = m_count[m] + 1
  BY <1>0 DEF LevelOf
<1>4. UNCHANGED [u \in Thread |-> PhaseOf(u)]
  OBVIOUS
<1>5. /\ m_count[m] + 1 = 1 <=> o = NoThread
      /\ m_count[m] + 1 - 1 = d
  BY <1>0
<1> HIDE DEF d, M!Running
<1>6. M!Unlock(t, m)
  <2> DEFINE lv == [k \in Mutex |-> LevelOf(k)]
             ph == [u \in Thread |-> PhaseOf(u)]
  <2>1. ph[t] = M!Running
    BY <1>1
  <2>2. m_owner' = [m_owner EXCEPT ![m] = IF lv[m] = 1 THEN NoThread ELSE t]
    BY <1>0, <1>3, <1>5
  <2>3. lv' = [lv EXCEPT ![m] = lv[m] - 1]
    <3>1. lv' = [lv EXCEPT ![m] = d]
      BY <1>2
    <3>2. lv[m] - 1 = d
      BY <1>3, <1>5
    <3> HIDE DEF lv
    <3> QED
      BY <3>1, <3>2
  <2> QED
    BY <1>4, <2>1, <2>2, <2>3 DEF M!Unlock
<1> QED
  BY <1>6 DEF M!MonitorNext

(* What a step has to be, and the part of a frame that the monitor sees.   *)
MonitorStep == M!MonitorNext \/ UNCHANGED M!mvars

FrameSame(u) == /\ frame'[u].cond = frame[u].cond /\ frame'[u].recurse = frame[u].recurse
                /\ frame'[u].error = frame[u].error /\ frame'[u].signalled = frame[u].signalled

(* The monitor sees nothing of the threads that do not move.               *)
LEMMA OthersPhase ==
  ASSUME NEW t \in Thread, OthersSame(t), \A u \in Thread \ {t} : FrameSame(u)
  PROVE  \A u \in Thread \ {t} : PhaseOf(u)' = PhaseOf(u)
<1> SUFFICES ASSUME NEW u \in Thread \ {t} PROVE PhaseOf(u)' = PhaseOf(u)
  OBVIOUS
<1>1. pc'[u] = pc[u] /\ call'[u] = call[u] /\ FrameSame(u)
  BY DEF OthersSame
<1> QED
  BY <1>1, PhaseStays DEF FrameSame

(* A step of t that leaves the mutexes and its phase alone.                *)
LEMMA Quiet ==
  ASSUME NEW t \in Thread, OthersSame(t), \A u \in Thread \ {t} : FrameSame(u),
         UNCHANGED <<m_owner, m_count>>, PhaseOf(t)' = PhaseOf(t)
  PROVE  MonitorStep
<1>1. \A u \in Thread : PhaseOf(u)' = PhaseOf(u)
  BY OthersPhase
<1> QED
  BY <1>1, Stutters DEF MonitorStep

(* Outside a wait before and after, a thread only runs.                    *)
LEMMA QuietRuns ==
  ASSUME NEW t \in Thread, OthersSame(t), \A u \in Thread \ {t} : FrameSame(u),
         UNCHANGED <<m_owner, m_count>>, ~Waits(t), ~Waits(t)'
  PROVE  MonitorStep
<1>1. PhaseOf(t)' = PhaseOf(t)
  BY Runs, RunsNext
<1> QED
  BY <1>1, Quiet

(* Nor does it see how far a wait has come.                                *)
LEMMA QuietWaits ==
  ASSUME NEW t \in Thread, OthersSame(t), \A u \in Thread \ {t} : FrameSame(u),
         UNCHANGED <<m_owner, m_count>>, Waits(t), Waits(t)', mp(t)' = mp(t),
         frame'[t].cond = frame[t].cond, frame'[t].recurse = frame[t].recurse,
         frame'[t].signalled = frame[t].signalled,
         (Resuming(t)' /\ frame'[t].error = "ETIMEDOUT")
            <=> (Resuming(t) /\ frame[t].error = "ETIMEDOUT")
  PROVE  MonitorStep
<1>1. PhaseOf(t)' = PhaseOf(t)
  <2>1. cv(t)' = cv(t)
    BY DEF cv
  <2> QED
    BY <2>1, WaitsAs, WaitsAsNext
<1> QED
  BY <1>1, Quiet

(* A mutex that nobody owns has no count.                                  *)
LEMMA FreeIsZero ==
  ASSUME RecInv, NEW m \in Mutex, m_owner[m] = NoThread
  PROVE  m_count[m] = 0
BY DEF RecInv, RecursionBalanced, CountOK, Counted

(* The mutex calls lock and unlock where m_owner and m_count change;       *)
(* taking the host lock, failing and releasing it are not seen.            *)
LEMMA MutexMonitor ==
  ASSUME ~FoldedCheck, BaseInv, HostInv, RecInv, NEW t \in Thread, MutexStep(t), UNCHANGED condVars
  PROVE  MonitorStep
<1>T. /\ pc \in [Thread -> CondLabels] /\ call \in [Thread -> CallType]
      /\ m_owner \in [Mutex -> Thread \cup {NoThread}] /\ CallOK(t)
      /\ m_count \in [Mutex -> Int]
  BY CondTypes DEF ThreadTypesOK, MutexTypesOK
<1>R. CountOK /\ frame' = frame
  BY DEF RecInv, condVars
<1>S. OthersSame(t) /\ \A u \in Thread \ {t} : FrameSame(u)
  BY <1>T, <1>R, MutexPath DEF OthersSame, FrameSame
<1>N. /\ pc[t] \in {"idle", "lock", "own", "unlock"}
      /\ pc'[t] \in {"idle", "lock", "own", "unlock"}
         \/ (pc'[t] = "wakeall" /\ call'[t].next = "idle")
  BY <1>T, MutexPath
<1>W. ~Waits(t) /\ ~Waits(t)'
  BY <1>N DEF Waits, Leaving, Sleepy, Asleep, Resuming
<1>P. \A u \in Thread : PhaseOf(u)' = PhaseOf(u)
  BY <1>S, <1>W, OthersPhase, Runs, RunsNext
<1>1. CASE UNCHANGED <<m_owner, m_count>>
  BY <1>1, <1>S, <1>W, QuietRuns
<1>2. ASSUME NEW m \in Mutex, NEW mode \in LockCalls, SelfLock(t, m, mode)
      PROVE  MonitorStep
  <2>1. m_owner[m] = t /\ m_owner' = m_owner
    BY <1>2 DEF SelfLock
  <2>2. CASE m_count' = m_count
    BY <1>1, <2>1, <2>2
  <2>3. CASE m_count' # m_count
    <3> DEFINE n == m_count[m] + 1
    <3>1. m_count' = [m_count EXCEPT ![m] = n]
      BY <1>R, <1>T, <1>2, <2>3, MutexAssumption DEF SelfLock, HasRoom, Incremented
    <3>2. n \in Int /\ n = LevelOf(m)
      BY <1>T, <2>1, MutexAssumption DEF LevelOf
    <3>3. m_owner' = [m_owner EXCEPT ![m] = t]
      BY <1>T, <2>1
    <3> HIDE DEF n
    <3> QED
      BY <1>P, <1>W, <2>1, <3>1, <3>2, <3>3, Locks DEF MonitorStep
  <2> QED
    BY <2>2, <2>3
<1>3. CASE LockOwn(t)
  <2> DEFINE m == mp(t)
  <2>1. pc[t] = "own" /\ m_owner' = [m_owner EXCEPT ![m] = t] /\ m_count' = m_count
    BY <1>3 DEF LockOwn
  <2>2. m \in Mutex
    BY <1>T, <2>1 DEF CallOK, Asking
  <2>3. m_owner[m] = NoThread
    BY <2>1, <2>2 DEF HostInv, HostLock, Transit
  <2> HIDE DEF m
  <2>4. m_count[m] = 0
    BY <2>2, <2>3, FreeIsZero
  <2>5. m_count' = [m_count EXCEPT ![m] = 0] /\ 0 \in Int /\ 0 = LevelOf(m)
    BY <1>T, <2>1, <2>2, <2>3, <2>4 DEF LevelOf
  <2> QED
    BY <1>P, <1>W, <2>1, <2>2, <2>3, <2>5, Locks DEF MonitorStep
<1>4. ASSUME NEW m \in Mutex, UnlockCall(t, m)
      PROVE  MonitorStep
  <2>1. m_owner[m] = t /\ m_count[m] \in 0 .. MaxCount /\ (Type[m] # "Recursive" => m_count[m] = 0)
    BY <1>4, <1>R DEF UnlockCall, CountOK
  <2>2. CASE Counts(m)
    <3> DEFINE n == m_count[m] - 1
    <3>1. m_owner' = [m_owner EXCEPT ![m] = t] /\ m_count' = [m_count EXCEPT ![m] = n]
      BY <1>T, <1>4, <2>1, <2>2 DEF UnlockCall
    <3>2. n \in Nat /\ m_count[m] = n + 1
      BY <2>1, <2>2, MutexAssumption DEF Counts
    <3> HIDE DEF n
    <3> QED
      BY <1>P, <1>W, <2>1, <3>1, <3>2, Unlocks DEF MonitorStep
  <2>3. CASE ~Counts(m)
    <3>1. m_owner' = [m_owner EXCEPT ![m] = NoThread] /\ m_count' = m_count
      BY <1>4, <2>3 DEF UnlockCall, Disown
    <3>2. m_count[m] = 0
      BY <2>1, <2>3, MutexAssumption DEF Counts
    <3>3. m_count' = [m_count EXCEPT ![m] = 0] /\ 0 \in Nat /\ NoThread # t
      BY <1>T, <3>1, <3>2, MutexAssumption
    <3> QED
      BY <1>P, <1>W, <2>1, <3>1, <3>2, <3>3, Unlocks DEF MonitorStep
  <2> QED
    BY <2>2, <2>3
<1>5. CASE \E m \in Mutex, mode \in LockCalls : LockEnter(t, m, mode)
  BY <1>1, <1>5 DEF LockEnter, mutexVars
<1>6. CASE LockTake(t) \/ LockFail(t) \/ UnlockRelease(t)
  BY <1>1, <1>6 DEF LockTake, Take, LockFail, UnlockRelease, Release, mutexVars
<1> QED
  BY <1>2, <1>3, <1>4, <1>5, <1>6 DEF MutexStep, LockCall

(* The monitor has no deferred wakeups.                                    *)
LEMMA WakeAllMonitor ==
  ASSUME BaseInv, NEW t \in Thread, WakeAll(t), UNCHANGED condVars
  PROVE  MonitorStep
<1>T. /\ pc \in [Thread -> CondLabels] /\ call \in [Thread -> CallType]
  BY CondTypes DEF ThreadTypesOK
<1>1. pc[t] = "wakeall" /\ UNCHANGED <<m_owner, m_count, frame>>
  BY DEF WakeAll, mutexVars, condVars
<1>2. \A u \in Thread \ {t} : FrameSame(u)
  BY <1>1 DEF FrameSame
<1>3. CASE UNCHANGED <<pc, call>>
  <2>1. PhaseOf(t)' = PhaseOf(t) /\ OthersSame(t)
    BY <1>1, <1>3, PhaseStays DEF OthersSame
  <2> QED
    BY <1>1, <1>2, <2>1, Quiet
<1>4. CASE call[t].next = "idle" /\ Return(t)
  <2>1. OthersSame(t) /\ pc'[t] = "idle"
    BY <1>T, <1>4 DEF OthersSame, Return, Goto
  <2>2. ~Waits(t) /\ ~Waits(t)'
    BY <1>1, <1>4, <2>1 DEF Waits, Leaving, Sleepy, Asleep, Resuming
  <2> QED
    BY <1>1, <1>2, <2>1, <2>2, QuietRuns
<1>5. CASE call[t].next # "idle" /\ Goto(t, call[t].next) /\ WakeThen(t, "idle")
  <2> DEFINE r == Call(mp(t), call[t].mode, call[t].deferred, "idle")
  <2>1. r.mutex = mp(t) /\ call' = [call EXCEPT ![t] = r]
    BY <1>5 DEF Call, WakeThen
  <2>2. call[t].next \in {"sleep", "drop"}
    BY <1>T, <1>5 DEF CallType
  <2> HIDE DEF r
  <2>3. pc'[t] = call[t].next /\ mp(t)' = mp(t) /\ OthersSame(t)
    BY <1>T, <1>5, <2>1 DEF OthersSame, Goto, mp
  <2>4. (Waits(t)' <=> Waits(t)) /\ ~Resuming(t) /\ ~Resuming(t)'
    BY <1>1, <2>2, <2>3 DEF Waits, Leaving, Sleepy, Asleep, Resuming
  <2>5. CASE Waits(t)
    BY <1>1, <1>2, <2>3, <2>4, <2>5, QuietWaits
  <2>6. CASE ~Waits(t)
    BY <1>1, <1>2, <2>3, <2>4, <2>6, QuietRuns
  <2> QED
    BY <2>5, <2>6
<1> QED
  BY <1>3, <1>4, <1>5 DEF WakeAll

(* One thread's phase changes, the others' do not.                         *)
LEMMA PhaseMoves ==
  ASSUME NEW t \in Thread, NEW w, PhaseOf(t)' = w,
         \A u \in Thread \ {t} : PhaseOf(u)' = PhaseOf(u)
  PROVE  [u \in Thread |-> PhaseOf(u)]' = [[u \in Thread |-> PhaseOf(u)] EXCEPT ![t] = w]
OBVIOUS

(* Where m_owner is cleared, the wait begins.                              *)
LEMMA Begins ==
  ASSUME BaseInv, NEW t \in Thread, NEW c \in Cond, NEW m \in Mutex,
         ~Waits(t), m_owner[m] = t,
         m_owner' = [m_owner EXCEPT ![m] = NoThread], m_count' = [m_count EXCEPT ![m] = 0],
         PhaseOf(t)' = M!Waiter("waiting", c, m, m_count[m] + 1),
         \A u \in Thread \ {t} : PhaseOf(u)' = PhaseOf(u)
  PROVE  M!MonitorNext
<1> DEFINE lv == [k \in Mutex |-> LevelOf(k)]
           ph == [u \in Thread |-> PhaseOf(u)]
<1>0. t # NoThread /\ 0 \in Int
  BY MutexAssumption
<1>1. ph[t] = M!Running
  BY Runs
<1>2. LevelOf(m)' = 0 /\ \A k \in Mutex \ {m} : LevelOf(k)' = LevelOf(k)
  BY <1>0, LevelMoves
<1>3. lv' = [lv EXCEPT ![m] = 0]
  BY <1>2
<1>4. lv[m] = m_count[m] + 1
  BY <1>0 DEF LevelOf
<1>5. ph' = [ph EXCEPT ![t] = M!Waiter("waiting", c, m, m_count[m] + 1)]
  BY PhaseMoves
<1>6. M!Wait(t, c, m)
  <2> HIDE DEF M!Running, M!Waiter
  <2> QED
    BY <1>1, <1>3, <1>4, <1>5 DEF M!Wait
<1> QED
  BY <1>6 DEF M!MonitorNext

(* Where m_owner is set again, the wait ends.                              *)
LEMMA Ends ==
  ASSUME BaseInv, NEW t \in Thread, NEW c \in Cond, NEW m \in Mutex, NEW n \in Int,
         NEW at \in {"signalled", "timedout"}, PhaseOf(t) = M!Waiter(at, c, m, n + 1),
         m_owner[m] = NoThread, ~Waits(t)',
         m_owner' = [m_owner EXCEPT ![m] = t], m_count' = [m_count EXCEPT ![m] = n],
         \A u \in Thread \ {t} : PhaseOf(u)' = PhaseOf(u)
  PROVE  M!MonitorNext
<1> DEFINE lv == [k \in Mutex |-> LevelOf(k)]
           ph == [u \in Thread |-> PhaseOf(u)]
<1>1. /\ ph[t].at \in {"signalled", "timedout"} /\ ph[t].mutex = m
      /\ ph[t].level = n + 1
  BY DEF M!Waiter
<1>2. LevelOf(m)' = n + 1 /\ \A k \in Mutex \ {m} : LevelOf(k)' = LevelOf(k)
  BY LevelMoves
<1>3. lv' = [lv EXCEPT ![m] = n + 1]
  BY <1>2
<1>4. PhaseOf(t)' = M!Running
  BY RunsNext
<1>5. ph' = [ph EXCEPT ![t] = M!Running]
  BY <1>4, PhaseMoves
<1>6. M!Resume(t)
  <2> HIDE DEF M!Running
  <2>1. m_owner' = [m_owner EXCEPT ![ph[t].mutex] = t] /\ m_owner[ph[t].mutex] = NoThread
    BY <1>1
  <2>2. lv' = [lv EXCEPT ![ph[t].mutex] = ph[t].level]
    BY <1>1, <1>3
  <2> QED
    BY <1>1, <1>5, <2>1, <2>2 DEF M!Resume
<1> QED
  BY <1>6 DEF M!MonitorNext

(* A waiter that was not signalled times out.                              *)
LEMMA GivesUpWaiting ==
  ASSUME NEW t \in Thread, NEW c, NEW m, NEW n,
         PhaseOf(t) = M!Waiter("waiting", c, m, n),
         PhaseOf(t)' = M!Waiter("timedout", c, m, n),
         UNCHANGED <<m_owner, m_count>>,
         \A u \in Thread \ {t} : PhaseOf(u)' = PhaseOf(u)
  PROVE  M!MonitorNext
<1> DEFINE ph == [u \in Thread |-> PhaseOf(u)]
<1>1. ph' = [ph EXCEPT ![t] = M!Waiter("timedout", c, m, n)]
  BY PhaseMoves
<1>2. ph[t].at = "waiting" /\ [ph[t] EXCEPT !.at = "timedout"] = M!Waiter("timedout", c, m, n)
  BY DEF M!Waiter
<1>3. ph' = [ph EXCEPT ![t] = [ph[t] EXCEPT !.at = "timedout"]]
  BY <1>1, <1>2
<1>4. UNCHANGED <<m_owner, [k \in Mutex |-> LevelOf(k)]>>
  BY DEF LevelOf
<1>5. M!TimeOut(t)
  BY <1>2, <1>3, <1>4 DEF M!TimeOut
<1> QED
  BY <1>5 DEF M!MonitorNext

(* Wait is entered in the step that clears m_owner; queueing and sleeping  *)
(* are not seen.                                                           *)
LEMMA WaitingMonitor ==
  ASSUME BaseInv, HostInv, RecInv, NEW t \in Thread, Waiting(t)
  PROVE  MonitorStep
<1>T. /\ pc \in [Thread -> CondLabels] /\ call \in [Thread -> CallType]
      /\ m_owner \in [Mutex -> Thread \cup {NoThread}] /\ CallOK(t) /\ FrameOK(t)
      /\ m_count \in [Mutex -> Int]
      /\ frame \in [Thread -> FrameType]
  BY CondTypes DEF ThreadTypesOK, MutexTypesOK
<1>1. CASE WaitCall(t)
  <2>1. PICK c \in Cond, m \in Mutex, mode \in WaitCalls[t] :
          /\ call' = [call EXCEPT ![t] = Call(m, mode, FALSE, "idle")]
          /\ frame' = [frame EXCEPT ![t] = [frame[t] EXCEPT !.cond = c, !.depth = held[t][m]]]
    BY <1>1 DEF WaitCall, Enter
  <2>2. /\ pc[t] = "idle" /\ pc' = [pc EXCEPT ![t] = "enqueue"]
        /\ UNCHANGED <<m_owner, m_count>>
    BY <1>1 DEF WaitCall, Goto, mutexVars
  <2>3. pc'[t] = "enqueue" /\ OthersSame(t)
    BY <1>T, <2>1, <2>2 DEF OthersSame
  <2>4. \A u \in Thread \ {t} : FrameSame(u)
    BY <1>T, <2>1 DEF FrameSame
  <2>5. ~Waits(t) /\ ~Waits(t)'
    BY <2>2, <2>3 DEF Waits, Leaving, Sleepy, Asleep, Resuming
  <2> QED
    BY <2>2, <2>3, <2>4, <2>5, QuietRuns
<1>2. CASE WaitUnlock(t)
  <2> DEFINE m == mp(t)
  <2>1. /\ pc[t] = "enqueue" /\ pc' = [pc EXCEPT ![t] = "cvunlock"]
        /\ call' = [call EXCEPT ![t] = Call(m, call[t].mode, m_deferred[m], call[t].next)]
        /\ m_owner' = [m_owner EXCEPT ![m] = NoThread] /\ m_count' = [m_count EXCEPT ![m] = 0]
        /\ frame' = [frame EXCEPT ![t].recurse = m_count[m]]
    BY <1>2 DEF WaitUnlock, Disown, Goto
  <2>2. m \in Mutex /\ m_owner[m] = t /\ cv(t) \in Cond
    BY <1>T, <2>1 DEF CallOK, Asking, OwnerOK, HostInv, FrameOK
  <2>3. ~frame[t].signalled
    BY <1>T, <2>1 DEF FrameOK, Sleepy, Asleep, Resuming
  <2>4. pc'[t] = "cvunlock" /\ mp(t)' = m /\ OthersSame(t)
    BY <1>T, <2>1 DEF mp, Call, OthersSame
  <2> HIDE DEF m
  <2>5. /\ frame'[t].recurse = m_count[m] /\ cv(t)' = cv(t)
        /\ frame'[t].signalled = frame[t].signalled
    BY <1>T, <2>1 DEF FrameType, cv
  <2>6. \A u \in Thread \ {t} : FrameSame(u)
    BY <1>T, <2>1 DEF FrameSame
  <2>7. ~Waits(t) /\ Waits(t)' /\ ~Resuming(t)'
    BY <2>1, <2>4 DEF Waits, Leaving, Sleepy, Asleep, Resuming
  <2>8. PhaseOf(t)' = M!Waiter("waiting", cv(t), m, m_count[m] + 1)
    BY <2>3, <2>4, <2>5, <2>7, WaitsAsNext
  <2>9. \A u \in Thread \ {t} : PhaseOf(u)' = PhaseOf(u)
    BY <2>4, <2>6, OthersPhase
  <2> QED
    BY <2>1, <2>2, <2>7, <2>8, <2>9, Begins DEF MonitorStep
<1>3. CASE WaitRelease(t) \/ WaitAdd(t) \/ SleepEnter(t)
  <2>1. UNCHANGED <<m_owner, m_count, frame>>
    BY <1>3 DEF WaitRelease, Release, WaitAdd, SleepEnter, mutexVars, condVars
  <2>2. pc[t] \in {"cvunlock", "queue", "presleep"}
    BY <1>3 DEF WaitRelease, Release, WaitAdd, SleepEnter
  <2>3. Leaving(t) => will_sleep[t]
    BY <1>T DEF CallOK
  <2> DEFINE r == Call(mp(t), call[t].mode, call[t].deferred, "sleep")
  <2>4. \/ pc' = [pc EXCEPT ![t] = "queue"] /\ call' = call
        \/ pc' = [pc EXCEPT ![t] = "presleep"] /\ call' = call
        \/ pc' = [pc EXCEPT ![t] = "sleep"] /\ call' = call
        \/ pc' = [pc EXCEPT ![t] = "wakeall"] /\ call' = [call EXCEPT ![t] = r]
    BY <1>3, <2>3 DEF WaitRelease, Release, WaitAdd, SleepEnter, Goto, WakeThen, Leaving
  <2>5. r.mutex = mp(t) /\ r.next = "sleep"
    BY DEF Call
  <2> HIDE DEF r
  <2>6. OthersSame(t) /\ mp(t)' = mp(t)
    BY <1>T, <2>4, <2>5 DEF OthersSame, mp
  <2>7. pc'[t] \in {"queue", "presleep", "sleep"} \/ (pc'[t] = "wakeall" /\ call'[t].next = "sleep")
    <3>1. pc \in [Thread -> CondLabels] /\ call \in [Thread -> CallType]
      BY <1>T
    <3>2. pc'[t] \in {"queue", "presleep", "sleep"} \/ (pc'[t] = "wakeall" /\ call'[t] = r)
      BY <2>4, <3>1
    <3> QED
      BY <2>5, <3>2
  <2>8. Waits(t) /\ Waits(t)' /\ ~Resuming(t) /\ ~Resuming(t)'
    BY <2>2, <2>7 DEF Waits, Leaving, Sleepy, Asleep, Resuming
  <2> QED
    BY <2>1, <2>6, <2>8, QuietWaits DEF FrameSame
<1>4. CASE SleepReturn(t)
  <2>1. /\ pc[t] = "sleep" /\ pc' = [pc EXCEPT ![t] = "recheck"] /\ call' = call
        /\ UNCHANGED <<m_owner, m_count>>
    BY <1>4 DEF SleepReturn, Goto, mutexVars
  <2>2. \/ frame' = [frame EXCEPT ![t].error = "0"]
        \/ frame' = [frame EXCEPT ![t].error = "ETIMEDOUT"]
    BY <1>4 DEF SleepReturn
  <2>3. \A u \in Thread : /\ frame'[u].cond = frame[u].cond
                          /\ frame'[u].recurse = frame[u].recurse
                          /\ frame'[u].signalled = frame[u].signalled
    BY <1>T, <2>2, ErrorOnly
  <2>4. \A u \in Thread \ {t} : frame'[u] = frame[u]
    BY <1>T, <2>2
  <2>5. Waits(t) /\ Waits(t)' /\ mp(t)' = mp(t) /\ OthersSame(t) /\ ~Resuming(t) /\ ~Resuming(t)'
    BY <1>T, <2>1 DEF Waits, Sleepy, Asleep, mp, OthersSame, Resuming
  <2> QED
    BY <2>1, <2>3, <2>4, <2>5, QuietWaits DEF FrameSame
<1> QED
  BY <1>1, <1>2, <1>3, <1>4 DEF Waiting

(* A timeout is the step that finds wchan still set; the wait ends in      *)
(* CvLock.                                                                 *)
LEMMA WakingUpMonitor ==
  ASSUME BaseInv, HostInv, RecInv, NEW t \in Thread, WakingUp(t)
  PROVE  MonitorStep
<1>T. /\ pc \in [Thread -> CondLabels] /\ call \in [Thread -> CallType] /\ SavedOK(t)
      /\ m_owner \in [Mutex -> Thread \cup {NoThread}] /\ CallOK(t) /\ FrameOK(t) /\ WaitOK(t)
      /\ m_count \in [Mutex -> Int]
      /\ frame \in [Thread -> FrameType]
  BY CondTypes DEF ThreadTypesOK, MutexTypesOK, RecInv
<1>1. CASE WaitSpurious(t) \/ CvLockTake(t)
  <2>1. pc[t] \in {"recheck", "cvlock"} /\ UNCHANGED <<m_owner, m_count, call, frame>>
    BY <1>1 DEF WaitSpurious, RecheckFrame, CvLockTake, Take, mutexVars, condVars
  <2>2. \/ /\ pc[t] = "recheck" /\ pc' = [pc EXCEPT ![t] = "presleep"]
        \/ /\ pc[t] = "cvlock" /\ pc' = [pc EXCEPT ![t] = "cvown"]
    BY <1>1 DEF WaitSpurious, RecheckFrame, CvLockTake, Take, Goto
  <2>3. OthersSame(t) /\ mp(t)' = mp(t) /\ \A u \in Thread \ {t} : FrameSame(u)
    BY <1>T, <2>1, <2>2 DEF OthersSame, mp, FrameSame
  <2>4. Waits(t) /\ Waits(t)' /\ (Resuming(t)' <=> Resuming(t))
    BY <1>T, <2>2 DEF Waits, Sleepy, Asleep, Resuming
  <2> QED
    BY <2>1, <2>3, <2>4, QuietWaits
<1>2. CASE WaitSignalled(t)
  <2>1. /\ pc[t] = "recheck" /\ wchan[t] = NoCond /\ pc' = [pc EXCEPT ![t] = "cvlock"]
        /\ frame' = [frame EXCEPT ![t].error = "0"]
        /\ UNCHANGED <<m_owner, m_count, call>>
    BY <1>2 DEF WaitSignalled, RecheckFrame, mutexVars, Goto
  <2>2. \A u \in Thread : /\ frame'[u].cond = frame[u].cond
                          /\ frame'[u].recurse = frame[u].recurse
                          /\ frame'[u].signalled = frame[u].signalled
    BY <1>T, <2>1, ErrorOnly
  <2>3. frame'[t].error = "0" /\ \A u \in Thread \ {t} : frame'[u] = frame[u]
    BY <1>T, <2>1 DEF FrameType
  <2>4. Waits(t) /\ Waits(t)' /\ mp(t)' = mp(t) /\ OthersSame(t) /\ ~Resuming(t)
    BY <1>T, <2>1 DEF Waits, Sleepy, Asleep, mp, OthersSame, Resuming
  <2> QED
    BY <2>1, <2>2, <2>3, <2>4, QuietWaits DEF FrameSame
<1>3. CASE WaitExpired(t)
  <2>1. /\ pc[t] = "recheck" /\ wchan[t] # NoCond /\ pc' = [pc EXCEPT ![t] = "cvlock"]
        /\ frame[t].error = "ETIMEDOUT" /\ UNCHANGED <<m_owner, m_count, call, frame>>
    BY <1>3 DEF WaitExpired, RecheckFrame, mutexVars, Goto
  <2>2. /\ Waits(t) /\ Waits(t)' /\ mp(t)' = mp(t) /\ cv(t)' = cv(t) /\ OthersSame(t)
        /\ Sleepy(t) /\ ~Resuming(t) /\ Resuming(t)'
    BY <1>T, <2>1 DEF Waits, Sleepy, Asleep, mp, cv, OthersSame, Resuming
  <2>3. ~frame[t].signalled
    BY <1>T, <2>1, <2>2 DEF WaitOK
  <2>4. PhaseOf(t) = M!Waiter("waiting", cv(t), mp(t), frame[t].recurse + 1)
    BY <2>2, <2>3, WaitsAs
  <2>5. PhaseOf(t)' = M!Waiter("timedout", cv(t), mp(t), frame[t].recurse + 1)
    BY <2>1, <2>2, WaitsAsNext
  <2>6. \A u \in Thread \ {t} : PhaseOf(u)' = PhaseOf(u)
    BY <2>1, <2>2, OthersPhase DEF FrameSame
  <2> QED
    BY <2>1, <2>4, <2>5, <2>6, GivesUpWaiting DEF MonitorStep
<1>4. CASE CvLockOwn(t)
  <2> DEFINE m == mp(t)
             n == frame[t].recurse
             at == IF frame[t].error = "ETIMEDOUT" THEN "timedout" ELSE "signalled"
  <2>1. /\ pc[t] = "cvown" /\ pc' = [pc EXCEPT ![t] = "idle"] /\ call' = [call EXCEPT ![t] = NoCall]
        /\ m_owner' = [m_owner EXCEPT ![m] = t] /\ m_count' = [m_count EXCEPT ![m] = n]
        /\ frame' = [frame EXCEPT ![t] = NoFrame]
    BY <1>4 DEF CvLockOwn, Return, Goto
  <2>2. m \in Mutex /\ Waits(t) /\ Resuming(t) /\ cv(t) \in Cond
    BY <1>T, <2>1 DEF CallOK, FrameOK, Waits, Resuming
  <2>3. m_owner[m] = NoThread
    BY <2>1, <2>2 DEF HostInv, HostLock, Transit
  <2>4. n \in Int /\ at \in {"signalled", "timedout"}
    BY <1>T DEF FrameType
  <2>5. frame[t].error # "ETIMEDOUT" => frame[t].signalled
    BY <1>T, <2>2 DEF FrameOK, FrameType
  <2>6. PhaseOf(t) = M!Waiter(at, cv(t), m, n + 1)
    BY <2>2, <2>5, WaitsAs
  <2>7. pc'[t] = "idle" /\ OthersSame(t) /\ \A u \in Thread \ {t} : FrameSame(u)
    BY <1>T, <2>1 DEF OthersSame, FrameSame
  <2>8. ~Waits(t)'
    BY <2>7 DEF Waits, Leaving, Sleepy, Asleep, Resuming
  <2>9. \A u \in Thread \ {t} : PhaseOf(u)' = PhaseOf(u)
    BY <2>7, OthersPhase
  <2> HIDE DEF m, n, at
  <2> QED
    BY <2>1, <2>2, <2>3, <2>4, <2>6, <2>8, <2>9, Ends DEF MonitorStep
<1> QED
  BY <1>1, <1>2, <1>3, <1>4 DEF WakingUp

(* The queues hold threads.                                                *)
LEMMA BlockedThreads ==
  ASSUME BaseInv, NEW c \in Cond
  PROVE  Range(sq_blocked[c]) \subseteq Thread
<1>1. sq_blocked[c] \in Seq(Thread)
  BY CondTypes DEF SqInv, SleepqTypeOK
<1> QED
  BY <1>1 DEF Range

(* With the chain unlocked, the waiters that the monitor knows of a        *)
(* condition variable are the threads in its queue.                        *)
LEMMA WaiterQueued ==
  ASSUME BaseInv, NoMissedWaiter, NEW c \in Cond, sc_lock[Hash[c]] = NoThread,
         NEW u \in Thread
  PROVE  u \in Range(sq_blocked[c]) <=> PhaseOf(u).at = "waiting" /\ PhaseOf(u).cond = c
<1>T. FrameOK(u) /\ WaitOK(u) /\ frame[u] \in FrameType
  BY CondTypes DEF ThreadTypesOK
<1>Q. wchan[u] = c <=> u \in Range(sq_blocked[c])
  BY CondTypes DEF SqInv, QueuesOK
<1>1. ASSUME u \in Range(sq_blocked[c]) PROVE PhaseOf(u).at = "waiting" /\ PhaseOf(u).cond = c
  <2>1. Sleepy(u) /\ cv(u) = c /\ ~frame[u].signalled
    BY <1>T, <1>Q, <1>1, CondAssumption DEF WaitOK
  <2>2. Waits(u) /\ ~Resuming(u)
    BY <2>1 DEF Waits, Sleepy, Asleep, Resuming
  <2> QED
    BY <2>1, <2>2, WaitsAs DEF M!Waiter
<1>2. ASSUME PhaseOf(u).at = "waiting", PhaseOf(u).cond = c PROVE u \in Range(sq_blocked[c])
  <2>1. Waits(u)
    BY <1>2, Runs DEF M!Running
  <2>2. ~frame[u].signalled /\ ~(Resuming(u) /\ frame[u].error = "ETIMEDOUT") /\ cv(u) = c
    BY <1>2, <2>1, WaitsAs DEF M!Waiter
  <2>3. ~Resuming(u)
    BY <1>T, <2>2 DEF FrameOK, FrameType
  <2>4. Unsignalled(u)
    BY <2>1, <2>2, <2>3 DEF Unsignalled, Waits, Leaving, Sleepy
  <2>5. sc_lock[chain(u)] = NoThread
    BY <2>2 DEF chain
  <2> QED
    BY <2>2, <2>4, <2>5 DEF NoMissedWaiter
<1> QED
  BY <1>1, <1>2

(* Taking waiters off a queue is, for the monitor, waking them.            *)
LEMMA DequeuePhase ==
  ASSUME BaseInv, NoMissedWaiter, NEW t \in Thread, NEW c \in Cond, NEW removed, NEW others,
         pc[t] = "idle", Dequeue(t, c, removed, others),
         Range(removed) \subseteq Range(sq_blocked[c])
  PROVE  \A u \in Thread :
           PhaseOf(u)' = IF u \in Range(removed) THEN [PhaseOf(u) EXCEPT !.at = "signalled"]
                                                 ELSE PhaseOf(u)
<1>T. pc \in [Thread -> CondLabels] /\ frame \in [Thread -> FrameType]
  BY CondTypes DEF ThreadTypesOK
<1>1. /\ pc' = [pc EXCEPT ![t] = "drop"] /\ call' = call /\ sc_lock[Hash[c]] = NoThread
      /\ frame' = [u \in Thread |->
                 [frame[u] EXCEPT !.cond = IF u = t THEN c ELSE @,
                                  !.signalled = @ \/ u \in Range(removed)]]
  BY DEF Dequeue, Goto
<1>2. SUFFICES ASSUME NEW u \in Thread
               PROVE  PhaseOf(u)' = IF u \in Range(removed)
                                    THEN [PhaseOf(u) EXCEPT !.at = "signalled"]
                                    ELSE PhaseOf(u)
  OBVIOUS
<1>3. CASE u = t
  <2>1. pc'[t] = "drop"
    BY <1>T, <1>1
  <2>2. ~Waits(t) /\ ~Waits(t)'
    BY <2>1 DEF Waits, Leaving, Sleepy, Asleep, Resuming
  <2>3. PhaseOf(t) = M!Running
    BY <2>2, Runs
  <2>4. PhaseOf(t)' = M!Running
    BY <2>2, RunsNext
  <2>5. PhaseOf(t).at # "waiting"
    BY <2>3 DEF M!Running
  <2>6. t \notin Range(removed)
    BY <1>1, <2>5, WaiterQueued
  <2> QED
    BY <1>3, <2>3, <2>4, <2>6
<1>4. CASE u # t
  <2>1. /\ pc'[u] = pc[u] /\ call'[u] = call[u]
        /\ frame'[u] = [frame[u] EXCEPT !.signalled = frame[u].signalled \/ u \in Range(removed)]
    BY <1>T, <1>1, <1>4 DEF FrameType
  <2>2. /\ frame'[u].cond = frame[u].cond /\ frame'[u].recurse = frame[u].recurse
        /\ frame'[u].error = frame[u].error
        /\ frame'[u].signalled = (frame[u].signalled \/ u \in Range(removed))
    BY <1>T, <2>1 DEF FrameType
  <2>3. CASE u \notin Range(removed)
    <3>1. frame[u].signalled \in BOOLEAN
      BY <1>T DEF FrameType
    <3>2. frame'[u].signalled = frame[u].signalled
      BY <2>2, <2>3, <3>1
    <3>3. PhaseOf(u)' = PhaseOf(u)
      BY <2>1, <2>2, <3>2, PhaseStays
    <3> QED
      BY <2>3, <3>3
  <2>4. CASE u \in Range(removed)
    <3>1. PhaseOf(u).at = "waiting"
      BY <1>1, <2>4, WaiterQueued
    <3>2. Waits(u)
      BY <3>1, Runs DEF M!Running
    <3>3. /\ ~(Resuming(u) /\ frame[u].error = "ETIMEDOUT") /\ ~frame[u].signalled
          /\ PhaseOf(u) = M!Waiter("waiting", cv(u), mp(u), frame[u].recurse + 1)
      BY <3>1, <3>2, WaitsAs DEF M!Waiter
    <3>4. /\ Waits(u)' /\ mp(u)' = mp(u) /\ cv(u)' = cv(u) /\ frame'[u].signalled
          /\ ~(Resuming(u)' /\ frame'[u].error = "ETIMEDOUT")
      BY <2>1, <2>2, <2>4, <3>2, <3>3 DEF Waits, Leaving, Sleepy, Asleep, Resuming, mp, cv
    <3>5. PhaseOf(u)' = M!Waiter("signalled", cv(u), mp(u), frame[u].recurse + 1)
      BY <2>2, <3>4, WaitsAsNext
    <3> QED
      BY <2>4, <3>3, <3>5 DEF M!Waiter
  <2> QED
    BY <2>3, <2>4
<1> QED
  BY <1>3, <1>4

(* Taking one waiter off the queue is a Signal.                            *)
LEMMA SignalMonitor ==
  ASSUME BaseInv, NoMissedWaiter, NEW t \in Thread, NEW c \in Cond, pc[t] = "idle",
         NEW td \in Range(sq_blocked[c]), SignalOne(t, c, td)
  PROVE  M!MonitorNext
<1> DEFINE ph == [u \in Thread |-> PhaseOf(u)]
<1>1. Dequeue(t, c, <<td>>, OthersWait(c, td)) /\ Range(<<td>>) = {td}
  BY DEF SignalOne, Range
<1>2. td \in Thread /\ UNCHANGED <<m_owner, m_count>> /\ sc_lock[Hash[c]] = NoThread
  BY <1>1, CondTypes, BlockedThreads DEF Dequeue, mutexVars
<1>3. \A u \in Thread : PhaseOf(u)' = IF u \in {td} THEN [PhaseOf(u) EXCEPT !.at = "signalled"]
                                                    ELSE PhaseOf(u)
  <2>1. Range(<<td>>) \subseteq Range(sq_blocked[c])
    BY <1>1
  <2> QED
    BY <1>1, <2>1, DequeuePhase
<1>4. ph' = [ph EXCEPT ![td] = [ph[td] EXCEPT !.at = "signalled"]]
  BY <1>2, <1>3
<1>5. ph[td].at = "waiting" /\ ph[td].cond = c
  BY <1>2, WaiterQueued
<1>6. UNCHANGED <<m_owner, [k \in Mutex |-> LevelOf(k)]>>
  BY <1>2 DEF LevelOf
<1>7. M!Signal(c)
  BY <1>2, <1>4, <1>5, <1>6 DEF M!Signal, M!WaitersOf, M!Woken
<1> QED
  BY <1>7 DEF M!MonitorNext

(* Taking all of them off is a Broadcast: nobody who waits is elsewhere.   *)
LEMMA BroadcastMonitor ==
  ASSUME BaseInv, NoMissedWaiter, NEW t \in Thread, NEW c \in Cond, BroadcastCall(t, c)
  PROVE  M!MonitorNext
<1> DEFINE ph == [u \in Thread |-> PhaseOf(u)]
<1>1. /\ pc[t] = "idle" /\ sc_queue[c] # NoThread /\ Dequeue(t, c, sq_blocked[c], FALSE)
      /\ UNCHANGED <<m_owner, m_count>> /\ sc_lock[Hash[c]] = NoThread
  BY DEF BroadcastCall, Dequeue, mutexVars
<1>2. \A u \in Thread :
        PhaseOf(u)' = IF u \in Range(sq_blocked[c]) THEN [PhaseOf(u) EXCEPT !.at = "signalled"]
                                                    ELSE PhaseOf(u)
  BY <1>1, DequeuePhase
<1>3. \A u \in Thread : u \in Range(sq_blocked[c]) <=> ph[u].at = "waiting" /\ ph[u].cond = c
  BY <1>1, WaiterQueued
<1>4. \E u \in Thread : u \in Range(sq_blocked[c])
  BY <1>1, QueueHead, CondTypes, BlockedThreads
<1>5. UNCHANGED <<m_owner, [k \in Mutex |-> LevelOf(k)]>>
  BY <1>1 DEF LevelOf
<1>6. M!Broadcast(c)
  <2>1. \A u \in Thread : u \in M!WaitersOf(c) <=> u \in Range(sq_blocked[c])
    BY <1>3 DEF M!WaitersOf
  <2>2. M!WaitersOf(c) # {}
    BY <1>4, <2>1
  <2>3. ph' = [u \in Thread |-> IF u \in M!WaitersOf(c) THEN M!Woken(u) ELSE ph[u]]
    <3>1. \A u \in Thread : M!Woken(u) = [PhaseOf(u) EXCEPT !.at = "signalled"]
      BY DEF M!Woken
    <3> HIDE DEF M!WaitersOf, M!Woken
    <3> QED
      BY <1>2, <2>1, <3>1
  <2> QED
    BY <1>5, <2>2, <2>3 DEF M!Broadcast
<1> QED
  BY <1>6 DEF M!MonitorNext

(* Handling the removed waiters is not seen.                               *)
LEMMA WakingMonitor ==
  ASSUME BaseInv, NoMissedWaiter, NEW t \in Thread, Waking(t)
  PROVE  MonitorStep
<1>T. /\ pc \in [Thread -> CondLabels] /\ call \in [Thread -> CallType]
      /\ frame \in [Thread -> FrameType] /\ CallOK(t)
  BY CondTypes DEF ThreadTypesOK
<1>1. ASSUME UNCHANGED <<m_owner, m_count>>, OthersSame(t),
             pc[t] \in {"drop", "flush", "release"},
             pc'[t] \in {"idle", "drop", "flush", "release", "wakeall"},
             pc'[t] = "wakeall" => call'[t].next = "drop",
             \A u \in Thread \ {t} : FrameSame(u)
      PROVE  MonitorStep
  <2>1. ~Waits(t) /\ ~Waits(t)'
    BY <1>1 DEF Waits, Leaving, Sleepy, Asleep, Resuming
  <2> QED
    BY <1>1, <2>1, QuietRuns
<1>2. CASE DropOne(t)
  <2> DEFINE r == Call(mp(t), call[t].mode, call[t].deferred, "drop")
  <2>1. pc[t] = "drop" /\ UNCHANGED <<m_owner, m_count, frame>>
    BY <1>2 DEF DropOne
  <2>2. \/ pc' = [pc EXCEPT ![t] = "wakeall"] /\ call' = [call EXCEPT ![t] = r]
        \/ UNCHANGED <<pc, call>>
        \/ pc' = [pc EXCEPT ![t] = "flush"] /\ call' = call
    BY <1>2 DEF DropOne, Goto, WakeThen
  <2>3. r.next = "drop"
    BY DEF Call
  <2> HIDE DEF r
  <2>4. OthersSame(t)
    BY <1>T, <2>2 DEF OthersSame
  <2>5. /\ pc'[t] \in {"drop", "flush", "wakeall"}
        /\ pc'[t] = "wakeall" => call'[t].next = "drop"
    BY <1>T, <2>1, <2>2, <2>3
  <2> QED
    BY <1>1, <2>1, <2>4, <2>5 DEF FrameSame
<1>3. CASE DropDone(t)
  <2>1. /\ pc[t] = "drop" /\ pc' = [pc EXCEPT ![t] = "release"] /\ call' = call
        /\ UNCHANGED <<m_owner, m_count>> /\ frame' = [frame EXCEPT ![t] = NoFrame]
    BY <1>3 DEF DropDone, Goto, mutexVars
  <2>2. \A u \in Thread \ {t} : FrameSame(u)
    BY <1>T, <2>1 DEF FrameSame
  <2> QED
    BY <1>T, <1>1, <2>1, <2>2 DEF OthersSame
<1>4. CASE ReleaseOne(t)
  <2>1. /\ pc[t] \in {"release", "flush"} /\ call' = call
        /\ UNCHANGED <<m_owner, m_count, frame>>
    BY <1>4 DEF ReleaseOne, mutexVars
  <2>2. \/ pc' = pc
        \/ pc' = [pc EXCEPT ![t] = IF pc[t] = "flush" THEN "drop" ELSE "idle"]
    BY <1>4 DEF ReleaseOne, Goto
  <2>3. pc'[t] \in {"idle", "drop", "release", "flush"} /\ OthersSame(t)
    BY <1>T, <2>1, <2>2 DEF OthersSame
  <2> QED
    BY <1>1, <2>1, <2>3 DEF FrameSame
<1>5. CASE \E c \in Cond : BroadcastCall(t, c)
  BY <1>5, BroadcastMonitor DEF MonitorStep
<1>6. CASE \E c \in Cond : pc[t] = "idle" /\ \E td \in Range(sq_blocked[c]) : SignalOne(t, c, td)
  BY <1>6, SignalMonitor DEF MonitorStep
<1> QED
  BY <1>2, <1>3, <1>4, <1>5, <1>6 DEF Waking

(* Every step is a step of the monitor or not seen by it.                  *)
LEMMA StepMonitor ==
  ASSUME ~FoldedCheck, BaseInv, HostInv, RecInv, NoMissedWaiter, [CondNext]_cvars
  PROVE  MonitorStep
<1>1. CASE UNCHANGED cvars
  <2>1. UNCHANGED <<m_owner, m_count, pc, call, frame>>
    BY <1>1 DEF cvars, vars, mutexVars, condVars
  <2>2. \A u \in Thread : PhaseOf(u)' = PhaseOf(u)
    BY <2>1, PhaseStays
  <2> QED
    BY <2>1, <2>2, Stutters DEF MonitorStep
<1> QED
  BY <1>1, StepCases, MutexMonitor, WakeAllMonitor, WaitingMonitor, WakingUpMonitor, WakingMonitor

(* At the start all mutexes are free and all threads run.                  *)
LEMMA InitMonitor == CondInit => M!MonitorInit
<1> SUFFICES ASSUME CondInit PROVE M!MonitorInit
  OBVIOUS
<1>1. m_owner = [m \in Mutex |-> NoThread] /\ pc = [t \in Thread |-> "idle"]
  BY DEF CondInit, Init
<1>2. \A m \in Mutex : LevelOf(m) = 0
  BY <1>1 DEF LevelOf
<1>3. \A t \in Thread : PhaseOf(t) = M!Running
  BY <1>1, Runs DEF Waits, Leaving, Sleepy, Asleep, Resuming
<1> QED
  BY <1>1, <1>2, <1>3 DEF M!MonitorInit

(* PthreadMutex, PthreadCond and the sleep queues implement Monitor: a     *)
(* wait is entered in one step, a broadcast reaches every waiter, a signal *)
(* is spent on one waiter of that condition variable, and a wait returns   *)
(* only with its mutex at the old depth (Wait, Signal, Broadcast, Lock,    *)
(* Unlock), in every build that evaluates the room test of the recursion   *)
(* count as written.                                                       *)
THEOREM ImplementsMonitorAlways == ASSUME ~FoldedCheck PROVE CondSpec => ImplementsMonitor
<1>1. BaseInv /\ HostInv /\ RecInv /\ NoMissedWaiter /\ [CondNext]_cvars
        => [M!MonitorNext]_M!mvars
  BY StepMonitor DEF MonitorStep
<1> QED
  BY <1>1, InitMonitor, BaseAlways, HostAlways, RecAlways, NoMissedWaiterAlways, PTL
     DEF CondSpec, ImplementsMonitor, M!MonitorSpec

=============================================================================
