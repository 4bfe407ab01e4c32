-------------------------- MODULE ThreadLifecycle --------------------------
(***************************************************************************)
(* The life of a guest thread: kernel/threads/pthread.cpp and              *)
(* thread_state.cpp.  A Pthread record is allocated, linked, run by a      *)
(* native thread, left by it, joined or detached, put on gc_list, and only *)
(* freed by the next creation that finds gc_list long enough.  The record  *)
(* outlives its native thread, and the native thread can outlive its       *)
(* record.                                                                 *)
(*                                                                         *)
(* A region of thread->lock or thread_list_lock in which nothing blocks is *)
(* one step.  The locks are explicit where one is held while the other is  *)
(* waited for, and where thread->lock is given back after the list lock.   *)
(***************************************************************************)
EXTENDS Lists, FiniteSets, SequencesExt

CONSTANTS Native,            \* host threads
          Slot,              \* the Pthread records of thread_heap
          NoNative, NoSlot,  \* a free lock, a null Pthread*
          GcThreshold, MaxThreads, MaxCachedThreads

ASSUME ThreadAssumption ==
  /\ NoNative \notin Native
  /\ NoSlot \notin Slot
  /\ IsFiniteSet(Native) /\ IsFiniteSet(Slot)
  /\ GcThreshold \in Nat /\ MaxThreads \in Nat /\ MaxCachedThreads \in Nat

VARIABLES
  \* Pthread
  tid, lock, refcount, state, joiner, detached, ret,
  \* ThreadState
  heap, threads, gc_list, free_threads, total_threads, thread_list_lock,
  \* the native threads: where each one is, g_curthread, the record its call
  \* is about, where TryCollect returns to, the work list of Collect
  pc, curthread, rec, after, work_list,
  lost     \* history: <<n, s>>, record s was destroyed while n uses it

recordVars == <<tid, lock, refcount, state, joiner, detached, ret>>
listVars   == <<heap, threads, gc_list, free_threads, total_threads,
                thread_list_lock>>
nativeVars == <<pc, curthread, rec, after, work_list, lost>>
vars       == <<recordVars, listVars, nativeVars>>

Set(f, x, v) == [f EXCEPT ![x] = v]

(* A call returns to guest code: its locals go out of scope. *)
Return(n) ==
  /\ pc' = Set(pc, n, "run")
  /\ rec' = Set(rec, n, NoSlot)
  /\ lost' = {p \in lost : p[1] # n \/ p[2] = curthread[n]}

Goto(n, label) == pc' = Set(pc, n, label) /\ UNCHANGED <<rec, lost>>

(* One guest thread runs, that the linker created. *)
Init == \E main \in Native, s \in Slot :
  /\ tid = [r \in Slot |-> IF r = s THEN "alive" ELSE "terminated"]
  /\ lock = [r \in Slot |-> NoNative]
  /\ refcount = [r \in Slot |-> IF r = s THEN 1 ELSE 0]
  /\ state = [r \in Slot |-> "Running"]
  /\ joiner = [r \in Slot |-> NoSlot]
  /\ detached = [r \in Slot |-> FALSE]    /\ ret = [r \in Slot |-> "none"]
  /\ heap = Slot \ {s}                    /\ threads = {s}
  /\ gc_list = <<>>                       /\ free_threads = <<>>
  /\ total_threads = 1                    /\ thread_list_lock = NoNative
  /\ pc = [n \in Native |-> IF n = main THEN "run" ELSE "none"]
  /\ curthread = [n \in Native |-> IF n = main THEN s ELSE NoSlot]
  /\ rec = [n \in Native |-> NoSlot]
  /\ after = [n \in Native |-> "run"]
  /\ work_list = [n \in Native |-> <<>>]
  /\ lost = {}

-----------------------------------------------------------------------------
(* ThreadState::Alloc and Free *)

GcNeeded == Len(gc_list) >= GcThreshold

(* posix_pthread_create calls Alloc, which looks at gc_list without a lock. *)
Create(n) ==
  /\ pc[n] = "run"
  /\ Goto(n, IF GcNeeded THEN "collect" ELSE "cached")
  /\ UNCHANGED <<recordVars, listVars, curthread, after, work_list>>

(* Slip: a thread that has not announced its end is taken as well.          *)
Collect_AnyTid(n) ==
  /\ pc[n] = "collect" /\ thread_list_lock = NoNative
  /\ work_list' = Set(work_list, n, gc_list)
  /\ gc_list' = <<>>
  /\ Goto(n, "free")
  /\ UNCHANGED <<recordVars, heap, threads, free_threads, total_threads,
                 thread_list_lock, curthread, after>>

(* Collect takes off gc_list what the native thread has left. *)
Collect(n) ==
  /\ pc[n] = "collect" /\ thread_list_lock = NoNative
  /\ LET left == {s \in Slot : tid[s] = "terminated"} IN
       /\ work_list' = Set(work_list, n, Filtered(gc_list, left))
       /\ gc_list' = Filtered(gc_list, Slot \ left)
  /\ Goto(n, "free")
  /\ UNCHANGED <<recordVars, heap, threads, free_threads, total_threads,
                 thread_list_lock, curthread, after>>

(* The natives that still use record s; a look up only compares pointers.   *)
Users(s) == {m \in Native : curthread[m] = s \/ (rec[m] = s /\ pc[m] # "find")}

CacheHasRoom == Len(free_threads) < MaxCachedThreads

(* A record that was destroyed goes to the cache, or back to the heap when  *)
(* the cache is full.                                                       *)
Recycle(s) ==
  IF CacheHasRoom
  THEN free_threads' = Append(free_threads, s) /\ UNCHANGED heap
  ELSE heap' = heap \cup {s} /\ UNCHANGED free_threads

(* Free outside the list lock.                                              *)
Free(n) ==
  /\ pc[n] = "free" /\ work_list[n] # <<>>
  /\ LET s == Head(work_list[n]) IN
       /\ lost' = lost \cup (Users(s) \X {s})
       /\ Recycle(s)
       /\ pc' = Set(pc, n, IF CacheHasRoom THEN "free" ELSE "shrink")
  /\ work_list' = Set(work_list, n, Tail(work_list[n]))
  /\ UNCHANGED <<recordVars, threads, gc_list, total_threads,
                 thread_list_lock, curthread, rec, after>>

Shrink(n) ==
  /\ pc[n] = "shrink"
  /\ total_threads' = total_threads - 1
  /\ Goto(n, "free")
  /\ UNCHANGED <<recordVars, heap, threads, gc_list, free_threads,
                 thread_list_lock, curthread, after, work_list>>

Collected(n) ==
  /\ pc[n] = "free" /\ work_list[n] = <<>>
  /\ Goto(n, "cached")
  /\ UNCHANGED <<recordVars, listVars, curthread, after, work_list>>

(* A new record, as Alloc clears it and the creation fills it in before     *)
(* anyone else can find it; refcount 1 is the running thread's.             *)
Construct(n, s) ==
  /\ \E d \in BOOLEAN : detached' = Set(detached, s, d)
  /\ tid' = Set(tid, s, "alive")        /\ lock' = Set(lock, s, NoNative)
  /\ refcount' = Set(refcount, s, 1)    /\ state' = Set(state, s, "Running")
  /\ joiner' = Set(joiner, s, NoSlot)   /\ ret' = Set(ret, s, "none")
  /\ rec' = Set(rec, n, s)              /\ pc' = Set(pc, n, "link")
  /\ UNCHANGED lost

TakeCached(n) ==
  /\ pc[n] = "cached"
  /\ IF free_threads = <<>>
     THEN Goto(n, "room") /\ UNCHANGED <<recordVars, free_threads>>
     ELSE Construct(n, Last(free_threads)) /\ free_threads' = Front(free_threads)
  /\ UNCHANGED <<heap, threads, gc_list, total_threads, thread_list_lock,
                 curthread, after, work_list>>

(* No record in the cache: the limit is tested, then counted, then the heap *)
(* is asked, which may have none left.                                      *)
Room(n) ==
  /\ pc[n] = "room"
  /\ IF total_threads > MaxThreads THEN Return(n) ELSE Goto(n, "grow")
  /\ UNCHANGED <<recordVars, listVars, curthread, after, work_list>>

Grow(n) ==
  /\ pc[n] = "grow"
  /\ total_threads' = total_threads + 1
  /\ Goto(n, "heap")
  /\ UNCHANGED <<recordVars, heap, threads, gc_list, free_threads,
                 thread_list_lock, curthread, after, work_list>>

(* Slip: a creation that finds the heap empty stays counted.                *)
TakeHeap_StaysCounted(n) ==
  /\ pc[n] = "heap"
  /\ IF heap = {}
     THEN Return(n) /\ UNCHANGED <<recordVars, heap>>
     ELSE \E s \in heap : Construct(n, s) /\ heap' = heap \ {s}
  /\ UNCHANGED <<threads, gc_list, free_threads, total_threads,
                 thread_list_lock, curthread, after, work_list>>

TakeHeap(n) ==
  /\ pc[n] = "heap"
  /\ IF heap = {}
     THEN Goto(n, "ungrow") /\ UNCHANGED <<recordVars, heap>>
     ELSE \E s \in heap : Construct(n, s) /\ heap' = heap \ {s}
  /\ UNCHANGED <<threads, gc_list, free_threads, total_threads,
                 thread_list_lock, curthread, after, work_list>>

Ungrow(n) ==
  /\ pc[n] = "ungrow"
  /\ total_threads' = total_threads - 1
  /\ Return(n)
  /\ UNCHANGED <<recordVars, heap, threads, gc_list, free_threads,
                 thread_list_lock, curthread, after, work_list>>

-----------------------------------------------------------------------------
(* posix_pthread_create_name_np, once it has a record *)

(* No memory for a stack: the record is freed again.                        *)
StackFails(n) ==
  /\ pc[n] = "link"
  /\ Recycle(rec[n])
  /\ IF CacheHasRoom
     THEN Return(n)
     ELSE pc' = Set(pc, n, "ungrow") /\ rec' = Set(rec, n, NoSlot) /\ UNCHANGED lost
  /\ UNCHANGED <<recordVars, threads, gc_list, total_threads, thread_list_lock,
                 curthread, after, work_list>>

Link(n) ==
  /\ pc[n] = "link" /\ thread_list_lock = NoNative
  /\ threads' = threads \cup {rec[n]}
  /\ Goto(n, "spawn")
  /\ UNCHANGED <<recordVars, heap, gc_list, free_threads, total_threads,
                 thread_list_lock, curthread, after, work_list>>

(* The new native thread runs at once; the creator goes on to the affinity, *)
(* if its attributes have a cpuset.                                         *)
Spawn(n) ==
  /\ pc[n] = "spawn"
  /\ \E m \in Native, label \in {"affinity", "run"} :
       /\ pc[m] = "none"
       /\ pc' = Set(Set(pc, m, "run"), n, label)
       /\ curthread' = Set(curthread, m, rec[n])
       /\ rec' = IF label = "run" THEN Set(rec, n, NoSlot) ELSE rec
  /\ UNCHANGED <<recordVars, listVars, after, work_list, lost>>

(* The host refuses a thread: the record stays linked, Running, for good.   *)
SpawnFails(n) ==
  /\ pc[n] = "spawn"
  /\ Return(n)
  /\ UNCHANGED <<recordVars, listVars, curthread, after, work_list>>

(* SetAffinity reads the native handle of the record. *)
Affinity(n) ==
  /\ pc[n] = "affinity"
  /\ Return(n)
  /\ UNCHANGED <<recordVars, listVars, curthread, after, work_list>>

-----------------------------------------------------------------------------
(* ThreadState::TryCollect *)

ShouldCollect(s) == refcount[s] = 0 /\ state[s] = "Dead" /\ detached[s]

(* Slip: the thread lock is kept while the list lock is taken.              *)
TryCollect_KeepsLock(n, s, count, return) ==
  IF count = 0 /\ state'[s] = "Dead" /\ detached'[s]
  THEN /\ refcount' = Set(refcount, s, count + 1)
       /\ pc' = Set(pc, n, "tc_list")
       /\ rec' = Set(rec, n, s)
       /\ after' = Set(after, n, return)
       /\ lock' = Set(lock, s, n)
       /\ UNCHANGED lost
  ELSE /\ refcount' = Set(refcount, s, count)
       /\ after' = Set(after, n, "run")
       /\ UNCHANGED lock
       /\ IF return = "run" THEN Return(n) ELSE Goto(n, return)

(* TryCollect on record s, its lock held and its refcount now count: either *)
(* there is nothing to collect, or it holds a reference while it gives the  *)
(* thread lock back to take the list lock first.                            *)
TryCollect(n, s, count, return) ==
  IF count = 0 /\ state'[s] = "Dead" /\ detached'[s]
  THEN /\ refcount' = Set(refcount, s, count + 1)
       /\ pc' = Set(pc, n, "tc_list")
       /\ rec' = Set(rec, n, s)
       /\ after' = Set(after, n, return)
       /\ UNCHANGED <<lock, lost>>
  ELSE /\ refcount' = Set(refcount, s, count)
       /\ after' = Set(after, n, "run")
       /\ UNCHANGED lock
       /\ IF return = "run" THEN Return(n) ELSE Goto(n, return)

TcList(n) ==
  /\ pc[n] = "tc_list" /\ thread_list_lock = NoNative
  /\ thread_list_lock' = n
  /\ Goto(n, "tc_lock")
  /\ UNCHANGED <<recordVars, heap, threads, gc_list, free_threads,
                 total_threads, curthread, after, work_list>>

(* Under both locks the record is tested again.  The list lock goes first:  *)
(* the scope that holds it ends before the one that unlocks the thread.     *)
TcCollect(n) ==
  /\ pc[n] = "tc_lock" /\ lock[rec[n]] = NoNative
  /\ LET s == rec[n]
         gone == refcount[s] = 1 /\ state[s] = "Dead" /\ detached[s] IN
       /\ refcount' = Set(refcount, s, refcount[s] - 1)
       /\ threads' = IF gone THEN threads \ {s} ELSE threads
       /\ gc_list' = IF gone THEN Append(gc_list, s) ELSE gc_list
       /\ lock' = Set(lock, s, n)
  /\ thread_list_lock' = NoNative
  /\ Goto(n, "tc_unlock")
  /\ UNCHANGED <<tid, state, joiner, detached, ret, heap, free_threads,
                 total_threads, curthread, after, work_list>>

(* The unlock frees the mutex that lies at this address by now. *)
TcUnlock(n) ==
  /\ pc[n] = "tc_unlock"
  /\ lock' = Set(lock, rec[n], NoNative)
  /\ IF after[n] = "run" THEN Return(n) ELSE Goto(n, after[n])
  /\ after' = Set(after, n, "run")
  /\ UNCHANGED <<tid, refcount, state, joiner, detached, ret, listVars,
                 curthread, work_list>>

-----------------------------------------------------------------------------
(* posix_pthread_exit, or the return of the start routine *)

Exit(n) ==
  /\ pc[n] = "run"
  /\ ret' = Set(ret, curthread[n], "saved")
  /\ Goto(n, "exit")
  /\ UNCHANGED <<tid, lock, refcount, state, joiner, detached, listVars,
                 curthread, after, work_list>>

ExitThread(n) ==
  /\ pc[n] = "exit"
  /\ LET s == curthread[n] IN
       /\ lock[s] = NoNative
       /\ state' = Set(state, s, "Dead")
       /\ UNCHANGED <<tid, joiner, detached, ret>>
       /\ TryCollect(n, s, refcount[s] - 1, "terminate")
  /\ UNCHANGED <<listVars, curthread, work_list>>

(* From here on the record may be collected. *)
Terminate(n) ==
  /\ pc[n] = "terminate"
  /\ tid' = Set(tid, curthread[n], "terminated")
  /\ Goto(n, "leave")
  /\ UNCHANGED <<lock, refcount, state, joiner, detached, ret, listVars,
                 curthread, after, work_list>>

(* NativeThread::Exit reads the record once more. *)
Leave(n) ==
  /\ pc[n] = "leave"
  /\ pc' = Set(pc, n, "none")
  /\ curthread' = Set(curthread, n, NoSlot)
  /\ rec' = Set(rec, n, NoSlot)
  /\ lost' = {p \in lost : p[1] # n}
  /\ UNCHANGED <<recordVars, listVars, after, work_list>>

-----------------------------------------------------------------------------
(* FindThread, which starts every call on another thread *)

Calls == {"join", "detach", "getname"}

Call(n) == \E s \in Slot, call \in Calls :
  /\ pc[n] = "run"
  /\ call = "detach" \/ s # curthread[n]   \* EDEADLK; its own name needs no lock
  /\ rec' = Set(rec, n, s)
  /\ after' = Set(after, n, call)
  /\ pc' = Set(pc, n, "find")
  /\ UNCHANGED <<recordVars, listVars, curthread, work_list, lost>>

(* The record is only touched if it is in the list, and its lock is taken   *)
(* with the list lock held.                                                 *)
FindThread(n) ==
  /\ pc[n] = "find" /\ thread_list_lock = NoNative
  /\ IF rec[n] \in threads
     THEN Goto(n, "found") /\ thread_list_lock' = n /\ UNCHANGED after
     ELSE /\ Return(n)
          /\ after' = Set(after, n, "run")
          /\ UNCHANGED thread_list_lock
  /\ UNCHANGED <<recordVars, heap, threads, gc_list, free_threads,
                 total_threads, curthread, work_list>>

(* What a call does under the thread lock FindThread left it with. *)
Found(n, call) ==
  /\ pc[n] = "found" /\ after[n] = call /\ lock[rec[n]] = NoNative
  /\ thread_list_lock' = NoNative
  /\ UNCHANGED <<heap, threads, gc_list, free_threads, total_threads,
                 curthread, work_list>>

-----------------------------------------------------------------------------
(* posix_pthread_join *)

JoinClaim(n) ==
  /\ Found(n, "join")
  /\ LET s == rec[n] IN
       IF detached[s] \/ joiner[s] # NoSlot
       THEN Return(n) /\ UNCHANGED joiner
       ELSE joiner' = Set(joiner, s, curthread[n]) /\ Goto(n, "wait")
  /\ after' = Set(after, n, "run")
  /\ UNCHANGED <<tid, lock, refcount, state, detached, ret>>

(* The value is read without the lock. *)
JoinWake(n) ==
  /\ pc[n] = "wait" /\ tid[rec[n]] = "terminated"
  /\ Goto(n, "joined")
  /\ UNCHANGED <<recordVars, listVars, curthread, after, work_list>>

JoinRelease(n) ==
  /\ pc[n] = "joined"
  /\ LET s == rec[n] IN
       /\ lock[s] = NoNative
       /\ detached' = Set(detached, s, TRUE)
       /\ joiner' = Set(joiner, s, NoSlot)
       /\ UNCHANGED <<tid, state, ret>>
       /\ TryCollect(n, s, refcount[s], "run")
  /\ UNCHANGED <<listVars, curthread, work_list>>

-----------------------------------------------------------------------------
(* posix_pthread_detach *)

(* Slip: a joiner does not stand in the way of a detach.                    *)
Detach_NoJoinerTest(n) ==
  /\ Found(n, "detach")
  /\ LET s == rec[n] IN
       IF detached[s]
       THEN /\ Return(n)
            /\ after' = Set(after, n, "run")
            /\ UNCHANGED <<refcount, detached, state, lock>>
       ELSE /\ detached' = Set(detached, s, TRUE) /\ UNCHANGED state
            /\ TryCollect(n, s, refcount[s], "run")
  /\ UNCHANGED <<tid, joiner, ret>>

Detach(n) ==
  /\ Found(n, "detach")
  /\ LET s == rec[n] IN
       IF detached[s] \/ joiner[s] # NoSlot
       THEN /\ Return(n)
            /\ after' = Set(after, n, "run")
            /\ UNCHANGED <<refcount, detached, state, lock>>
       ELSE /\ detached' = Set(detached, s, TRUE) /\ UNCHANGED state
            /\ TryCollect(n, s, refcount[s], "run")
  /\ UNCHANGED <<tid, joiner, ret>>

-----------------------------------------------------------------------------
(* posix_pthread_getname_np and the calls like it *)

(* Slip: the reference is not counted.                                      *)
RefAdd_NotCounted(n) ==
  /\ Found(n, "getname")
  /\ IF state[rec[n]] = "Dead" THEN Return(n) ELSE Goto(n, "named")
  /\ after' = Set(after, n, "run")
  /\ UNCHANGED recordVars

RefAdd(n) ==
  /\ Found(n, "getname")
  /\ LET s == rec[n] IN
       IF state[s] = "Dead"
       THEN Return(n) /\ UNCHANGED refcount
       ELSE refcount' = Set(refcount, s, refcount[s] + 1) /\ Goto(n, "named")
  /\ after' = Set(after, n, "run")
  /\ UNCHANGED <<tid, lock, state, joiner, detached, ret>>

GetName(n) ==
  /\ pc[n] = "named" /\ lock[rec[n]] = NoNative
  /\ Goto(n, "unref")
  /\ UNCHANGED <<recordVars, listVars, curthread, after, work_list>>

(* Slip: the last reference goes without a test.                            *)
RefDelete_NoCollect(n) ==
  /\ pc[n] = "unref" /\ lock[rec[n]] = NoNative
  /\ refcount' = Set(refcount, rec[n], refcount[rec[n]] - 1)
  /\ Return(n)
  /\ UNCHANGED <<tid, lock, state, joiner, detached, ret, listVars,
                 curthread, after, work_list>>

RefDelete(n) ==
  /\ pc[n] = "unref" /\ lock[rec[n]] = NoNative
  /\ UNCHANGED <<tid, state, joiner, detached, ret, listVars,
                 curthread, work_list>>
  /\ TryCollect(n, rec[n], refcount[rec[n]] - 1, "run")

-----------------------------------------------------------------------------
Next == \E n \in Native :
  \/ Create(n)     \/ Collect(n)     \/ Free(n)       \/ Shrink(n)
  \/ Collected(n)  \/ TakeCached(n)  \/ Room(n)       \/ Grow(n)
  \/ TakeHeap(n)   \/ Ungrow(n)      \/ StackFails(n) \/ Link(n)
  \/ Spawn(n)      \/ SpawnFails(n)  \/ Affinity(n)
  \/ Exit(n)       \/ ExitThread(n)  \/ Terminate(n)  \/ Leave(n)
  \/ Call(n)       \/ FindThread(n)
  \/ JoinClaim(n)  \/ JoinWake(n)    \/ JoinRelease(n)
  \/ Detach(n)     \/ RefAdd(n)      \/ GetName(n)    \/ RefDelete(n)
  \/ TcList(n)     \/ TcCollect(n)   \/ TcUnlock(n)

Spec == Init /\ [][Next]_vars

-----------------------------------------------------------------------------
Labels == {"none", "run", "collect", "free", "shrink", "cached", "room",
           "grow", "heap", "ungrow", "link", "spawn", "affinity", "exit",
           "terminate", "leave", "find", "found", "wait", "joined", "named",
           "unref", "tc_list", "tc_lock", "tc_unlock"}

(* Every variable stays in its type. *)
ThreadTypeOK ==
  /\ tid \in [Slot -> {"alive", "terminated"}]
  /\ lock \in [Slot -> Native \cup {NoNative}]
  /\ refcount \in [Slot -> Nat]
  /\ state \in [Slot -> {"Running", "Dead"}]
  /\ joiner \in [Slot -> Slot \cup {NoSlot}]
  /\ detached \in [Slot -> BOOLEAN]
  /\ ret \in [Slot -> {"none", "saved"}]
  /\ heap \subseteq Slot /\ threads \subseteq Slot
  /\ gc_list \in Seq(Slot) /\ free_threads \in Seq(Slot)
  /\ total_threads \in Nat
  /\ thread_list_lock \in Native \cup {NoNative}
  /\ pc \in [Native -> Labels]
  /\ curthread \in [Native -> Slot \cup {NoSlot}]
  /\ rec \in [Native -> Slot \cup {NoSlot}]
  /\ after \in [Native -> Calls \cup {"run", "terminate"}]
  /\ work_list \in [Native -> Seq(Slot)]
  /\ lost \subseteq Native \X Slot

At(labels) == {n \in Native : pc[n] \in labels}

(* The places a record can be in; a work list and a creation that builds a  *)
(* record are a native thread's.                                            *)
Places == {"heap", "threads", "gc_list", "free_threads"} \X {NoNative}
          \cup {"work_list", "link"} \X Native

Records(p) ==
  CASE p[1] = "heap"         -> heap
    [] p[1] = "threads"      -> threads
    [] p[1] = "gc_list"      -> Range(gc_list)
    [] p[1] = "free_threads" -> Range(free_threads)
    [] p[1] = "work_list"    -> Range(work_list[p[2]])
    [] p[1] = "link"         -> IF pc[p[2]] = "link" THEN {rec[p[2]]} ELSE {}

(* Every record is in exactly one place, and there once; and total_threads  *)
(* counts the records outside the heap, but for the creations and frees     *)
(* that have moved one of the two and not yet the other (Alloc, Free,       *)
(* TryCollect, Collect).                                                    *)
RecordsAccounted ==
  /\ \A s \in Slot : \E p \in Places : \A q \in Places : s \in Records(q) <=> q = p
  /\ \A q \in {gc_list, free_threads} \cup {work_list[n] : n \in Native} : IsInjective(q)
  /\ total_threads = Cardinality(Slot \ heap)
                       + Cardinality(At({"heap", "ungrow", "shrink"}))

(* No reference is lost or counted twice, and none is dropped without the   *)
(* test: a linked record has one reference for its running thread and one   *)
(* for each call that holds it, and never stays linked once it is dead,     *)
(* detached and unreferenced; what is on gc_list is (ExitThread, RefAdd,    *)
(* RefDelete, TryCollect).                                                  *)
DeadCollected ==
  /\ \A s \in threads :
       /\ refcount[s] = (IF state[s] = "Running" THEN 1 ELSE 0)
            + Cardinality({n \in At({"named", "unref", "tc_list", "tc_lock"}) :
                            rec[n] = s})
       /\ ~ShouldCollect(s)
  /\ \A s \in Range(gc_list) : ShouldCollect(s)

(* The three places where a record that was destroyed may still be touched: *)
(* the native thread's last look at its own, the creator's at the thread it *)
(* made, and the unlock of another thread's after the list lock is gone.    *)
LateTouch(n, s) ==
  \/ pc[n] = "leave" /\ s = curthread[n]
  \/ pc[n] \in {"affinity", "tc_unlock"} /\ s = rec[n] /\ s # curthread[n]

(* Apart from these, nobody uses a record that Free has destroyed: not a    *)
(* join between its claim and its release, not a call that took a           *)
(* reference, not a thread that has not announced its end.                  *)
TouchedAlive == \A p \in lost : LateTouch(p[1], p[2])

(* A join that wakes reads the value its thread saved, still claimed by it  *)
(* alone (JoinThread reads pthread->ret without the lock).                  *)
JoinReadsExit == \A n \in At({"joined"}) :
  ret[rec[n]] = "saved" /\ joiner[rec[n]] = curthread[n] /\ ~detached[rec[n]]

(* No cycle of the two kinds of lock: who waits for a thread lock with the  *)
(* list lock held waits for someone who does not want the list lock.        *)
LocksOrdered == \A n \in At({"found", "tc_lock"}), s \in Slot :
  rec[n] = s /\ lock[s] # NoNative => pc[lock[s]] = "tc_unlock"
=============================================================================
