----------------------- MODULE ThreadLifecycleProofs -----------------------
(* Proofs about ThreadLifecycle, for any host threads, records and limits. *)
EXTENDS ThreadLifecycle, ListLemmas, FiniteSetTheorems

(* Where a call of TryCollect holds its record.                            *)
Trying == {"tc_list", "tc_lock", "tc_unlock"}

(* A native thread that has a record to itself: until it has announced     *)
(* that it has left it.                                                    *)
Alive(n) == pc[n] \notin {"none", "leave"}

(* It has run to its end, and let go of its own reference.                 *)
Exited(n) == pc[n] = "terminate" \/ (pc[n] \in Trying /\ after[n] = "terminate")

(* The labels at which rec is no record, one that is linked, and one that  *)
(* holds a reference.                                                      *)
Without == {"none", "run", "collect", "free", "shrink", "cached", "room", "grow",
            "heap", "ungrow", "exit"}
Linked  == {"spawn", "found", "wait", "joined", "named", "unref", "tc_list", "tc_lock"}
Counted == {"named", "unref", "tc_list", "tc_lock"}

(* The types, but for the ones that need the counts.                       *)
Types ==
  /\ tid \in [Slot -> {"alive", "terminated"}]
  /\ refcount \in [Slot -> Int]
  /\ state \in [Slot -> {"Running", "Dead"}]
  /\ joiner \in [Slot -> Slot \cup {NoSlot}]
  /\ detached \in [Slot -> BOOLEAN]
  /\ ret \in [Slot -> {"none", "saved"}]
  /\ heap \subseteq Slot /\ threads \subseteq Slot
  /\ gc_list \in Seq(Slot) /\ free_threads \in Seq(Slot)
  /\ total_threads \in Int
  /\ thread_list_lock \in Native \cup {NoNative}
  /\ pc \in [Native -> Labels]
  /\ curthread \in [Native -> Slot \cup {NoSlot}]
  /\ rec \in [Native -> Slot \cup {NoSlot}]
  /\ after \in [Native -> Calls \cup {"run", "terminate"}]
  /\ work_list \in [Native -> Seq(Slot)]

(* What the place of a native thread in its call says of its locals ...    *)
LocalOK(n) ==
  /\ curthread[n] = NoSlot <=> pc[n] = "none"
  /\ rec[n] = NoSlot => pc[n] \in Without \cup {"terminate", "leave"}
  /\ pc[n] \in Without => rec[n] = NoSlot
  /\ Exited(n) \/ pc[n] = "leave" => rec[n] \in {NoSlot, curthread[n]}
  /\ pc[n] \in {"find", "found"} => after[n] \in Calls
  /\ pc[n] \in Trying => after[n] \in {"run", "terminate"}
  /\ pc[n] \notin {"free", "shrink"} => work_list[n] = <<>>
  /\ pc[n] \in {"found", "tc_lock"} <=> thread_list_lock = n

(* ... of the record it runs on ...                                        *)
OwnOK(n) ==
  /\ Alive(n) => tid[curthread[n]] = "alive"
  /\ Alive(n) /\ ~Exited(n) =>
       curthread[n] \in threads /\ state[curthread[n]] = "Running"
  /\ Exited(n) => curthread[n] \in threads \cup Range(gc_list)
  /\ pc[n] = "exit" \/ Exited(n) => ret[curthread[n]] = "saved"

(* ... and of the record its call is about.                                *)
RecOK(n) ==
  /\ pc[n] \in Linked => rec[n] \in threads
  /\ pc[n] \in {"link", "spawn"} => tid[rec[n]] = "alive" /\ state[rec[n]] = "Running"
  /\ pc[n] = "link" => refcount[rec[n]] = 1
  /\ pc[n] \in {"wait", "joined"} => joiner[rec[n]] = curthread[n] /\ ~detached[rec[n]]
  /\ pc[n] = "joined" => ret[rec[n]] = "saved"

(* No two native threads run on one record, nor do they start one on it.   *)
Apart(n, m) ==
  /\ n # m /\ Alive(n) /\ Alive(m) => curthread[n] # curthread[m]
  /\ pc[n] = "spawn" /\ Alive(m) => rec[n] # curthread[m]
  /\ n # m /\ pc[n] = "spawn" /\ pc[m] = "spawn" => rec[n] # rec[m]

Holders(s) == {n \in At(Counted) : rec[n] = s}

(* A linked record has its references, and its thread has saved its value  *)
(* when it announces its end.                                              *)
RecordOK(s) ==
  /\ s \in threads =>
       /\ refcount[s] = (IF state[s] = "Running" THEN 1 ELSE 0) + Cardinality(Holders(s))
       /\ ~ShouldCollect(s)
       /\ tid[s] = "terminated" => ret[s] = "saved"
  /\ s \in Range(gc_list) => ShouldCollect(s)
  /\ refcount[s] >= 0

Total ==
  total_threads = Cardinality(Slot \ heap) + Cardinality(At({"heap", "ungrow", "shrink"}))

-----------------------------------------------------------------------------
(* The places of native threads *)

BaseInv == Types /\ \A n \in Native : LocalOK(n)

(* Only native thread n moves.                                             *)
Only(n) ==
  \A m \in Native \ {n} :
    /\ pc'[m] = pc[m] /\ curthread'[m] = curthread[m] /\ rec'[m] = rec[m]
    /\ after'[m] = after[m] /\ work_list'[m] = work_list[m]

(* What it does with the list lock.                                        *)
ListLockStep(n) ==
  thread_list_lock' = thread_list_lock
    \/ (thread_list_lock \in {n, NoNative} /\ thread_list_lock' \in {n, NoNative})

(* What a step that is only about n's own place does to n, from a label of *)
(* L to one of M.                                                          *)
LEMMA OthersLocal ==
  ASSUME BaseInv, NEW n \in Native, Only(n), ListLockStep(n), Types', LocalOK(n)'
  PROVE  BaseInv'
<1>1. ASSUME NEW m \in Native \ {n} PROVE LocalOK(m)'
  <2>1. LocalOK(m) /\ m # NoNative
    BY ThreadAssumption DEF BaseInv
  <2>2. /\ pc'[m] = pc[m] /\ curthread'[m] = curthread[m] /\ rec'[m] = rec[m]
        /\ after'[m] = after[m] /\ work_list'[m] = work_list[m]
    BY DEF Only
  <2>3. thread_list_lock' = m <=> thread_list_lock = m
    BY <2>1 DEF ListLockStep
  <2> QED
    BY <2>1, <2>2, <2>3 DEF LocalOK, Exited
<1> QED
  BY <1>1 DEF BaseInv

LEMMA MovesOnly ==
  ASSUME Types, NEW n \in Native
  PROVE  /\ \A label : Goto(n, label) =>
              /\ pc' = [pc EXCEPT ![n] = label] /\ rec' = rec
         /\ Return(n) =>
              /\ pc' = [pc EXCEPT ![n] = "run"] /\ rec' = [rec EXCEPT ![n] = NoSlot]
BY DEF Goto, Return, Set, Types

LEMMA BaseInit == Init => BaseInv
<1> SUFFICES ASSUME Init PROVE BaseInv
  OBVIOUS
<1>1. PICK main \in Native, s \in Slot :
  /\ tid = [r \in Slot |-> IF r = s THEN "alive" ELSE "terminated"]
  /\ refcount = [r \in Slot |-> IF r = s THEN 1 ELSE 0]
  /\ state = [r \in Slot |-> "Running"]
  /\ joiner = [r \in Slot |-> NoSlot]
  /\ detached = [r \in Slot |-> FALSE]    /\ ret = [r \in Slot |-> "none"]
  /\ heap = Slot \ {s}                    /\ threads = {s}
  /\ gc_list = <<>>                       /\ free_threads = <<>>
  /\ total_threads = 1                    /\ thread_list_lock = NoNative
  /\ pc = [n \in Native |-> IF n = main THEN "run" ELSE "none"]
  /\ curthread = [n \in Native |-> IF n = main THEN s ELSE NoSlot]
  /\ rec = [n \in Native |-> NoSlot]
  /\ after = [n \in Native |-> "run"]
  /\ work_list = [n \in Native |-> <<>>]
  /\ lost = {}
  BY DEF Init
<1>2. Types
  BY <1>1 DEF Types, Labels
<1>3. ASSUME NEW n \in Native PROVE LocalOK(n)
  <2>1. /\ pc[n] = (IF n = main THEN "run" ELSE "none") /\ rec[n] = NoSlot
        /\ curthread[n] = (IF n = main THEN s ELSE NoSlot) /\ work_list[n] = <<>>
    BY <1>1
  <2>2. thread_list_lock # n
    BY <1>1, ThreadAssumption
  <2> QED
    BY <2>1, <2>2, ThreadAssumption DEF LocalOK, Exited, Trying, Without
<1> QED
  BY <1>2, <1>3 DEF BaseInv

(* A step that changes records within their types.                         *)
LEMMA RecordTypes ==
  ASSUME Types, NEW s \in Slot
  PROVE  /\ \A v \in {"alive", "terminated"} :
              Set(tid, s, v) \in [Slot -> {"alive", "terminated"}]
         /\ \A v \in Int : Set(refcount, s, v) \in [Slot -> Int]
         /\ \A v \in {"Running", "Dead"} : Set(state, s, v) \in [Slot -> {"Running", "Dead"}]
         /\ \A v \in Slot \cup {NoSlot} : Set(joiner, s, v) \in [Slot -> Slot \cup {NoSlot}]
         /\ \A v \in BOOLEAN : Set(detached, s, v) \in [Slot -> BOOLEAN]
         /\ \A v \in {"none", "saved"} : Set(ret, s, v) \in [Slot -> {"none", "saved"}]
         /\ refcount[s] \in Int /\ refcount[s] - 1 \in Int /\ refcount[s] + 1 \in Int
BY DEF Types, Set

LEMMA CreateBase ==
  ASSUME BaseInv, NEW n \in Native, Create(n)
  PROVE  BaseInv' /\ Only(n) /\ pc[n] = "run" /\ pc'[n] \in {"collect", "cached"}
         /\ rec'[n] = rec[n]
<1>1. Types /\ LocalOK(n) /\ n # NoNative
  BY ThreadAssumption DEF BaseInv
<1> USE DEF recordVars, listVars, Labels, Without, Trying, Exited
<1>2. PICK label \in {"collect", "cached"} :
      /\ pc[n] = "run" /\ pc' = [pc EXCEPT ![n] = label]
      /\ UNCHANGED <<recordVars, listVars, rec, curthread, after, work_list>>
  BY <1>1 DEF Create, Goto, Set
<1>3. Types'
  BY <1>1, <1>2 DEF Types
<1>4. Only(n) /\ ListLockStep(n)
  BY <1>1, <1>2 DEF Types, Only, ListLockStep
<1>5. LocalOK(n)'
  BY <1>1, <1>2 DEF LocalOK, Types
<1>6. pc[n] = "run" /\ pc'[n] \in {"collect", "cached"} /\ rec'[n] = rec[n]
  BY <1>1, <1>2 DEF Types
<1> QED
  BY <1>3, <1>4, <1>5, <1>6, OthersLocal

LEMMA CollectedBase ==
  ASSUME BaseInv, NEW n \in Native, Collected(n)
  PROVE  BaseInv' /\ Only(n) /\ pc[n] = "free" /\ pc'[n] = "cached"
         /\ rec'[n] = rec[n]
<1>1. Types /\ LocalOK(n) /\ n # NoNative
  BY ThreadAssumption DEF BaseInv
<1> USE DEF recordVars, listVars, Labels, Without, Trying, Exited
<1>2. /\ pc[n] = "free" /\ pc' = [pc EXCEPT ![n] = "cached"] /\ work_list[n] = <<>>
      /\ UNCHANGED <<recordVars, listVars, rec, curthread, after, work_list>>
  BY <1>1 DEF Collected, Goto, Set
<1>3. Types'
  BY <1>1, <1>2 DEF Types
<1>4. Only(n) /\ ListLockStep(n)
  BY <1>1, <1>2 DEF Types, Only, ListLockStep
<1>5. LocalOK(n)'
  BY <1>1, <1>2 DEF LocalOK, Types
<1>6. pc[n] = "free" /\ pc'[n] = "cached" /\ rec'[n] = rec[n]
  BY <1>1, <1>2 DEF Types
<1> QED
  BY <1>3, <1>4, <1>5, <1>6, OthersLocal

LEMMA JoinWakeBase ==
  ASSUME BaseInv, NEW n \in Native, JoinWake(n)
  PROVE  BaseInv' /\ Only(n) /\ pc[n] = "wait" /\ pc'[n] = "joined"
         /\ rec'[n] = rec[n]
<1>1. Types /\ LocalOK(n) /\ n # NoNative
  BY ThreadAssumption DEF BaseInv
<1> USE DEF recordVars, listVars, Labels, Without, Trying, Exited
<1>2. /\ pc[n] = "wait" /\ pc' = [pc EXCEPT ![n] = "joined"]
      /\ UNCHANGED <<recordVars, listVars, rec, curthread, after, work_list>>
  BY <1>1 DEF JoinWake, Goto, Set
<1>3. Types'
  BY <1>1, <1>2 DEF Types
<1>4. Only(n) /\ ListLockStep(n)
  BY <1>1, <1>2 DEF Types, Only, ListLockStep
<1>5. LocalOK(n)'
  BY <1>1, <1>2 DEF LocalOK, Types
<1>6. pc[n] = "wait" /\ pc'[n] = "joined" /\ rec'[n] = rec[n]
  BY <1>1, <1>2 DEF Types
<1> QED
  BY <1>3, <1>4, <1>5, <1>6, OthersLocal

LEMMA GetNameBase ==
  ASSUME BaseInv, NEW n \in Native, GetName(n)
  PROVE  BaseInv' /\ Only(n) /\ pc[n] = "named" /\ pc'[n] = "unref"
         /\ rec'[n] = rec[n]
<1>1. Types /\ LocalOK(n) /\ n # NoNative
  BY ThreadAssumption DEF BaseInv
<1> USE DEF recordVars, listVars, Labels, Without, Trying, Exited
<1>2. /\ pc[n] = "named" /\ pc' = [pc EXCEPT ![n] = "unref"]
      /\ UNCHANGED <<recordVars, listVars, rec, curthread, after, work_list>>
  BY <1>1 DEF GetName, Goto, Set
<1>3. Types'
  BY <1>1, <1>2 DEF Types
<1>4. Only(n) /\ ListLockStep(n)
  BY <1>1, <1>2 DEF Types, Only, ListLockStep
<1>5. LocalOK(n)'
  BY <1>1, <1>2 DEF LocalOK, Types
<1>6. pc[n] = "named" /\ pc'[n] = "unref" /\ rec'[n] = rec[n]
  BY <1>1, <1>2 DEF Types
<1> QED
  BY <1>3, <1>4, <1>5, <1>6, OthersLocal

LEMMA SpawnFailsBase ==
  ASSUME BaseInv, NEW n \in Native, SpawnFails(n)
  PROVE  BaseInv' /\ Only(n) /\ pc[n] = "spawn" /\ pc'[n] = "run"
<1>1. Types /\ LocalOK(n) /\ n # NoNative
  BY ThreadAssumption DEF BaseInv
<1> USE DEF recordVars, listVars, Labels, Without, Trying, Exited
<1>2. /\ pc[n] = "spawn"
      /\ rec' = [rec EXCEPT ![n] = NoSlot] /\ pc' = [pc EXCEPT ![n] = "run"]
      /\ UNCHANGED <<recordVars, listVars, curthread, after, work_list>>
  BY <1>1 DEF SpawnFails, Return, Set
<1>3. Types'
  BY <1>1, <1>2 DEF Types
<1>4. Only(n) /\ ListLockStep(n)
  BY <1>1, <1>2 DEF Types, Only, ListLockStep
<1>5. LocalOK(n)'
  BY <1>1, <1>2 DEF LocalOK, Types
<1>6. pc[n] = "spawn" /\ pc'[n] = "run"
  BY <1>1, <1>2 DEF Types
<1> QED
  BY <1>3, <1>4, <1>5, <1>6, OthersLocal

LEMMA AffinityBase ==
  ASSUME BaseInv, NEW n \in Native, Affinity(n)
  PROVE  BaseInv' /\ Only(n) /\ pc[n] = "affinity" /\ pc'[n] = "run"
<1>1. Types /\ LocalOK(n) /\ n # NoNative
  BY ThreadAssumption DEF BaseInv
<1> USE DEF recordVars, listVars, Labels, Without, Trying, Exited
<1>2. /\ pc[n] = "affinity"
      /\ rec' = [rec EXCEPT ![n] = NoSlot] /\ pc' = [pc EXCEPT ![n] = "run"]
      /\ UNCHANGED <<recordVars, listVars, curthread, after, work_list>>
  BY <1>1 DEF Affinity, Return, Set
<1>3. Types'
  BY <1>1, <1>2 DEF Types
<1>4. Only(n) /\ ListLockStep(n)
  BY <1>1, <1>2 DEF Types, Only, ListLockStep
<1>5. LocalOK(n)'
  BY <1>1, <1>2 DEF LocalOK, Types
<1>6. pc[n] = "affinity" /\ pc'[n] = "run"
  BY <1>1, <1>2 DEF Types
<1> QED
  BY <1>3, <1>4, <1>5, <1>6, OthersLocal

LEMMA ShrinkBase ==
  ASSUME BaseInv, NEW n \in Native, Shrink(n)
  PROVE  BaseInv' /\ Only(n) /\ pc[n] = "shrink" /\ pc'[n] = "free"
         /\ rec'[n] = rec[n]
<1>1. Types /\ LocalOK(n) /\ n # NoNative
  BY ThreadAssumption DEF BaseInv
<1> USE DEF recordVars, listVars, Labels, Without, Trying, Exited
<1>2. /\ pc[n] = "shrink" /\ pc' = [pc EXCEPT ![n] = "free"] /\ total_threads' = total_threads - 1
      /\ UNCHANGED <<recordVars, heap, threads, gc_list, free_threads, thread_list_lock, rec, curthread, after, work_list>>
  BY <1>1 DEF Shrink, Goto, Set
<1>3. Types'
  BY <1>1, <1>2 DEF Types
<1>4. Only(n) /\ ListLockStep(n)
  BY <1>1, <1>2 DEF Types, Only, ListLockStep
<1>5. LocalOK(n)'
  BY <1>1, <1>2 DEF LocalOK, Types
<1>6. pc[n] = "shrink" /\ pc'[n] = "free" /\ rec'[n] = rec[n]
  BY <1>1, <1>2 DEF Types
<1> QED
  BY <1>3, <1>4, <1>5, <1>6, OthersLocal

LEMMA GrowBase ==
  ASSUME BaseInv, NEW n \in Native, Grow(n)
  PROVE  BaseInv' /\ Only(n) /\ pc[n] = "grow" /\ pc'[n] = "heap"
         /\ rec'[n] = rec[n]
<1>1. Types /\ LocalOK(n) /\ n # NoNative
  BY ThreadAssumption DEF BaseInv
<1> USE DEF recordVars, listVars, Labels, Without, Trying, Exited
<1>2. /\ pc[n] = "grow" /\ pc' = [pc EXCEPT ![n] = "heap"] /\ total_threads' = total_threads + 1
      /\ UNCHANGED <<recordVars, heap, threads, gc_list, free_threads, thread_list_lock, rec, curthread, after, work_list>>
  BY <1>1 DEF Grow, Goto, Set
<1>3. Types'
  BY <1>1, <1>2 DEF Types
<1>4. Only(n) /\ ListLockStep(n)
  BY <1>1, <1>2 DEF Types, Only, ListLockStep
<1>5. LocalOK(n)'
  BY <1>1, <1>2 DEF LocalOK, Types
<1>6. pc[n] = "grow" /\ pc'[n] = "heap" /\ rec'[n] = rec[n]
  BY <1>1, <1>2 DEF Types
<1> QED
  BY <1>3, <1>4, <1>5, <1>6, OthersLocal

LEMMA UngrowBase ==
  ASSUME BaseInv, NEW n \in Native, Ungrow(n)
  PROVE  BaseInv' /\ Only(n) /\ pc[n] = "ungrow" /\ pc'[n] = "run"
<1>1. Types /\ LocalOK(n) /\ n # NoNative
  BY ThreadAssumption DEF BaseInv
<1> USE DEF recordVars, listVars, Labels, Without, Trying, Exited
<1>2. /\ pc[n] = "ungrow" /\ total_threads' = total_threads - 1
      /\ rec' = [rec EXCEPT ![n] = NoSlot] /\ pc' = [pc EXCEPT ![n] = "run"]
      /\ UNCHANGED <<recordVars, heap, threads, gc_list, free_threads, thread_list_lock, curthread, after, work_list>>
  BY <1>1 DEF Ungrow, Return, Set
<1>3. Types'
  BY <1>1, <1>2 DEF Types
<1>4. Only(n) /\ ListLockStep(n)
  BY <1>1, <1>2 DEF Types, Only, ListLockStep
<1>5. LocalOK(n)'
  BY <1>1, <1>2 DEF LocalOK, Types
<1>6. pc[n] = "ungrow" /\ pc'[n] = "run"
  BY <1>1, <1>2 DEF Types
<1> QED
  BY <1>3, <1>4, <1>5, <1>6, OthersLocal

LEMMA RoomBase ==
  ASSUME BaseInv, NEW n \in Native, Room(n)
  PROVE  BaseInv' /\ Only(n) /\ pc[n] = "room" /\ pc'[n] \in {"run", "grow"}
         /\ (pc'[n] # "run" => rec'[n] = rec[n])
<1>1. Types /\ LocalOK(n) /\ n # NoNative
  BY ThreadAssumption DEF BaseInv
<1> USE DEF recordVars, listVars, Labels, Without, Trying, Exited
<1>2. /\ pc[n] = "room" /\ rec[n] = NoSlot
      /\ \/ pc' = [pc EXCEPT ![n] = "grow"] /\ rec' = rec
         \/ rec' = [rec EXCEPT ![n] = NoSlot] /\ pc' = [pc EXCEPT ![n] = "run"]
      /\ UNCHANGED <<recordVars, listVars, curthread, after, work_list>>
  <2>1. Return(n) \/ Goto(n, "grow")
    BY DEF Room
  <2>2. \/ pc' = [pc EXCEPT ![n] = "grow"] /\ rec' = rec
        \/ rec' = [rec EXCEPT ![n] = NoSlot] /\ pc' = [pc EXCEPT ![n] = "run"]
    BY <1>1, <2>1, MovesOnly
  <2> QED
    BY <1>1, <2>2 DEF Room, LocalOK
<1>3. Types'
  BY <1>1, <1>2 DEF Types
<1>4. Only(n) /\ ListLockStep(n)
  BY <1>1, <1>2 DEF Types, Only, ListLockStep
<1>5. LocalOK(n)'
  BY <1>1, <1>2 DEF LocalOK, Types
<1>6. pc[n] = "room" /\ pc'[n] \in {"run", "grow"} /\ (pc'[n] # "run" => rec'[n] = rec[n])
  BY <1>1, <1>2 DEF Types
<1> QED
  BY <1>3, <1>4, <1>5, <1>6, OthersLocal

LEMMA TcListBase ==
  ASSUME BaseInv, NEW n \in Native, TcList(n)
  PROVE  BaseInv' /\ Only(n) /\ pc[n] = "tc_list" /\ pc'[n] = "tc_lock"
         /\ rec'[n] = rec[n]
<1>1. Types /\ LocalOK(n) /\ n # NoNative
  BY ThreadAssumption DEF BaseInv
<1> USE DEF recordVars, listVars, Labels, Without, Trying, Exited
<1>2. /\ pc[n] = "tc_list" /\ pc' = [pc EXCEPT ![n] = "tc_lock"] /\ rec' = rec /\ after' = after
      /\ thread_list_lock = NoNative /\ thread_list_lock' = n
      /\ UNCHANGED <<recordVars, heap, threads, gc_list, free_threads, total_threads, curthread, work_list>>
  BY <1>1 DEF TcList, Goto, Set
<1>3. Types'
  BY <1>1, <1>2 DEF Types
<1>4. Only(n) /\ ListLockStep(n)
  BY <1>1, <1>2 DEF Types, Only, ListLockStep
<1>5. LocalOK(n)'
  BY <1>1, <1>2 DEF LocalOK, Types
<1>6. pc[n] = "tc_list" /\ pc'[n] = "tc_lock" /\ rec'[n] = rec[n]
  BY <1>1, <1>2 DEF Types
<1> QED
  BY <1>3, <1>4, <1>5, <1>6, OthersLocal

LEMMA FindThreadBase ==
  ASSUME BaseInv, NEW n \in Native, FindThread(n)
  PROVE  BaseInv' /\ Only(n) /\ pc[n] = "find" /\ pc'[n] \in {"run", "found"}
         /\ (pc'[n] # "run" => rec'[n] = rec[n])
<1>1. Types /\ LocalOK(n) /\ n # NoNative
  BY ThreadAssumption DEF BaseInv
<1> USE DEF recordVars, listVars, Labels, Without, Trying, Exited
<1>2. /\ pc[n] = "find" /\ thread_list_lock = NoNative
      /\ \/ /\ pc' = [pc EXCEPT ![n] = "found"] /\ rec' = rec
            /\ thread_list_lock' = n /\ after' = after
         \/ /\ rec' = [rec EXCEPT ![n] = NoSlot] /\ pc' = [pc EXCEPT ![n] = "run"]
            /\ thread_list_lock' = NoNative /\ after' = [after EXCEPT ![n] = "run"]
      /\ UNCHANGED <<recordVars, heap, threads, gc_list, free_threads, total_threads, curthread, work_list>>
  BY <1>1 DEF FindThread, Goto, Return, Set
<1>3. Types'
  <2>1. pc' \in [Native -> Labels] /\ rec' \in [Native -> Slot \cup {NoSlot}]
    <3>1. pc \in [Native -> Labels] /\ rec \in [Native -> Slot \cup {NoSlot}]
      BY <1>1 DEF Types
    <3>2. \/ pc' = [pc EXCEPT ![n] = "found"] /\ rec' = rec
          \/ rec' = [rec EXCEPT ![n] = NoSlot] /\ pc' = [pc EXCEPT ![n] = "run"]
      BY <1>2
    <3> QED
      BY <3>1, <3>2
  <2>2. /\ after' \in [Native -> Calls \cup {"run", "terminate"}]
        /\ thread_list_lock' \in Native \cup {NoNative}
    BY <1>1, <1>2 DEF Types
  <2> QED
    BY <1>1, <1>2, <2>1, <2>2 DEF Types
<1>4. Only(n) /\ ListLockStep(n)
  BY <1>1, <1>2 DEF Types, Only, ListLockStep
<1>5. LocalOK(n)'
  BY <1>1, <1>2 DEF LocalOK, Types
<1>6. pc[n] = "find" /\ pc'[n] \in {"run", "found"} /\ (pc'[n] # "run" => rec'[n] = rec[n])
  BY <1>1, <1>2 DEF Types
<1> QED
  BY <1>3, <1>4, <1>5, <1>6, OthersLocal

LEMMA CallBase ==
  ASSUME BaseInv, NEW n \in Native, Call(n)
  PROVE  BaseInv' /\ Only(n) /\ pc[n] = "run" /\ pc'[n] = "find"
<1>1. Types /\ LocalOK(n) /\ n # NoNative
  BY ThreadAssumption DEF BaseInv
<1> USE DEF recordVars, listVars, Labels, Without, Trying, Exited
<1>2. PICK s \in Slot, call \in Calls :
      /\ pc[n] = "run" /\ pc' = [pc EXCEPT ![n] = "find"]
      /\ rec' = [rec EXCEPT ![n] = s] /\ after' = [after EXCEPT ![n] = call]
      /\ UNCHANGED <<recordVars, listVars, curthread, work_list>>
  BY <1>1 DEF Call, Set
<1>3. Types'
  BY <1>1, <1>2 DEF Types
<1>4. Only(n) /\ ListLockStep(n)
  BY <1>1, <1>2 DEF Types, Only, ListLockStep
<1>5. LocalOK(n)'
  BY <1>1, <1>2, ThreadAssumption DEF LocalOK, Types
<1>6. pc[n] = "run" /\ pc'[n] = "find"
  BY <1>1, <1>2 DEF Types
<1> QED
  BY <1>3, <1>4, <1>5, <1>6, OthersLocal

LEMMA LinkBase ==
  ASSUME BaseInv, NEW n \in Native, Link(n)
  PROVE  BaseInv' /\ Only(n) /\ pc[n] = "link" /\ pc'[n] = "spawn"
         /\ rec'[n] = rec[n]
<1>1. Types /\ LocalOK(n) /\ n # NoNative
  BY ThreadAssumption DEF BaseInv
<1> USE DEF recordVars, listVars, Labels, Without, Trying, Exited
<1>2. /\ pc[n] = "link" /\ pc' = [pc EXCEPT ![n] = "spawn"] /\ rec' = rec
      /\ threads' = threads \cup {rec[n]} /\ rec[n] \in Slot
      /\ UNCHANGED <<recordVars, heap, gc_list, free_threads, total_threads, thread_list_lock,
                       curthread, after, work_list>>
  BY <1>1 DEF Link, Goto, Set, LocalOK, Types
<1>3. Types'
  BY <1>1, <1>2 DEF Types
<1>4. Only(n) /\ ListLockStep(n)
  BY <1>1, <1>2 DEF Types, Only, ListLockStep
<1>5. LocalOK(n)'
  BY <1>1, <1>2 DEF LocalOK, Types
<1>6. pc[n] = "link" /\ pc'[n] = "spawn" /\ rec'[n] = rec[n]
  BY <1>1, <1>2 DEF Types
<1> QED
  BY <1>3, <1>4, <1>5, <1>6, OthersLocal

LEMMA ExitBase ==
  ASSUME BaseInv, NEW n \in Native, Exit(n)
  PROVE  BaseInv' /\ Only(n) /\ pc[n] = "run" /\ pc'[n] = "exit"
         /\ rec'[n] = rec[n]
<1>1. Types /\ LocalOK(n) /\ n # NoNative
  BY ThreadAssumption DEF BaseInv
<1> USE DEF recordVars, listVars, Labels, Without, Trying, Exited
<1>2. /\ pc[n] = "run" /\ pc' = [pc EXCEPT ![n] = "exit"] /\ rec' = rec
      /\ ret' = Set(ret, curthread[n], "saved") /\ curthread[n] \in Slot
      /\ UNCHANGED <<tid, lock, refcount, state, joiner, detached, listVars, curthread, after,
                       work_list>>
  BY <1>1 DEF Exit, Goto, Set, LocalOK, Types
<1>3. Types'
  BY <1>1, <1>2, RecordTypes DEF Types
<1>4. Only(n) /\ ListLockStep(n)
  BY <1>1, <1>2 DEF Types, Only, ListLockStep
<1>5. LocalOK(n)'
  BY <1>1, <1>2 DEF LocalOK, Types
<1>6. pc[n] = "run" /\ pc'[n] = "exit" /\ rec'[n] = rec[n]
  BY <1>1, <1>2 DEF Types
<1> QED
  BY <1>3, <1>4, <1>5, <1>6, OthersLocal

LEMMA TerminateBase ==
  ASSUME BaseInv, NEW n \in Native, Terminate(n)
  PROVE  BaseInv' /\ Only(n) /\ pc[n] = "terminate" /\ pc'[n] = "leave"
         /\ rec'[n] = rec[n]
<1>1. Types /\ LocalOK(n) /\ n # NoNative
  BY ThreadAssumption DEF BaseInv
<1> USE DEF recordVars, listVars, Labels, Without, Trying, Exited
<1>2. /\ pc[n] = "terminate" /\ pc' = [pc EXCEPT ![n] = "leave"] /\ rec' = rec
      /\ tid' = Set(tid, curthread[n], "terminated") /\ curthread[n] \in Slot
      /\ UNCHANGED <<lock, refcount, state, joiner, detached, ret, listVars, curthread, after,
                       work_list>>
  BY <1>1 DEF Terminate, Goto, Set, LocalOK, Types
<1>3. Types'
  BY <1>1, <1>2, RecordTypes DEF Types
<1>4. Only(n) /\ ListLockStep(n)
  BY <1>1, <1>2 DEF Types, Only, ListLockStep
<1>5. LocalOK(n)'
  BY <1>1, <1>2 DEF LocalOK, Types
<1>6. pc[n] = "terminate" /\ pc'[n] = "leave" /\ rec'[n] = rec[n]
  BY <1>1, <1>2 DEF Types
<1> QED
  BY <1>3, <1>4, <1>5, <1>6, OthersLocal

LEMMA LeaveBase ==
  ASSUME BaseInv, NEW n \in Native, Leave(n)
  PROVE  BaseInv' /\ Only(n) /\ pc[n] = "leave" /\ pc'[n] = "none"
<1>1. Types /\ LocalOK(n) /\ n # NoNative
  BY ThreadAssumption DEF BaseInv
<1> USE DEF recordVars, listVars, Labels, Without, Trying, Exited
<1>2. /\ pc[n] = "leave" /\ pc' = [pc EXCEPT ![n] = "none"]
      /\ curthread' = [curthread EXCEPT ![n] = NoSlot] /\ rec' = [rec EXCEPT ![n] = NoSlot]
      /\ UNCHANGED <<recordVars, listVars, after, work_list>>
  BY <1>1 DEF Leave, Set
<1>3. Types'
  BY <1>1, <1>2 DEF Types
<1>4. Only(n) /\ ListLockStep(n)
  BY <1>1, <1>2 DEF Types, Only, ListLockStep
<1>5. LocalOK(n)'
  BY <1>1, <1>2 DEF LocalOK, Types
<1>6. pc[n] = "leave" /\ pc'[n] = "none"
  BY <1>1, <1>2 DEF Types
<1> QED
  BY <1>3, <1>4, <1>5, <1>6, OthersLocal

LEMMA JoinClaimBase ==
  ASSUME BaseInv, NEW n \in Native, JoinClaim(n)
  PROVE  BaseInv' /\ Only(n) /\ pc[n] = "found" /\ pc'[n] \in {"run", "wait"}
         /\ (pc'[n] # "run" => rec'[n] = rec[n])
<1>1. Types /\ LocalOK(n) /\ n # NoNative
  BY ThreadAssumption DEF BaseInv
<1> USE DEF recordVars, listVars, Labels, Without, Trying, Exited
<1>2. /\ pc[n] = "found" /\ thread_list_lock' = NoNative /\ after' = [after EXCEPT ![n] = "run"]
      /\ \/ pc' = [pc EXCEPT ![n] = "wait"] /\ rec' = rec /\ joiner' = Set(joiner, rec[n], curthread[n])
         \/ rec' = [rec EXCEPT ![n] = NoSlot] /\ pc' = [pc EXCEPT ![n] = "run"] /\ joiner' = joiner
      /\ UNCHANGED <<tid, lock, refcount, state, detached, ret, heap, threads, gc_list, free_threads,
                       total_threads, curthread, work_list>>
  <2>1. \/ Return(n) /\ UNCHANGED joiner
        \/ Goto(n, "wait") /\ joiner' = Set(joiner, rec[n], curthread[n])
    BY DEF JoinClaim
  <2>2. \/ pc' = [pc EXCEPT ![n] = "wait"] /\ rec' = rec /\ joiner' = Set(joiner, rec[n], curthread[n])
        \/ rec' = [rec EXCEPT ![n] = NoSlot] /\ pc' = [pc EXCEPT ![n] = "run"] /\ joiner' = joiner
    BY <1>1, <2>1, MovesOnly
  <2> QED
    BY <1>1, <2>2 DEF JoinClaim, Found, Set
<1>3. rec[n] \in Slot /\ curthread[n] \in Slot /\ thread_list_lock = n
  BY <1>1, <1>2 DEF LocalOK, Types
<1>4. joiner' \in [Slot -> Slot \cup {NoSlot}]
  <2>1. Set(joiner, rec[n], curthread[n]) \in [Slot -> Slot \cup {NoSlot}]
    BY <1>1, <1>3, RecordTypes
  <2> QED
    BY <1>1, <1>2, <2>1 DEF Types
<1>5. Types'
  <2>1. pc' \in [Native -> Labels] /\ rec' \in [Native -> Slot \cup {NoSlot}]
    <3>1. pc \in [Native -> Labels] /\ rec \in [Native -> Slot \cup {NoSlot}]
      BY <1>1 DEF Types
    <3>2. \/ pc' = [pc EXCEPT ![n] = "wait"] /\ rec' = rec
          \/ rec' = [rec EXCEPT ![n] = NoSlot] /\ pc' = [pc EXCEPT ![n] = "run"]
      BY <1>2
    <3> QED
      BY <3>1, <3>2
  <2>2. /\ after' \in [Native -> Calls \cup {"run", "terminate"}]
        /\ thread_list_lock' \in Native \cup {NoNative}
    BY <1>1, <1>2 DEF Types
  <2> QED
    BY <1>1, <1>2, <1>4, <2>1, <2>2 DEF Types
<1>6. Only(n) /\ ListLockStep(n)
  BY <1>1, <1>2, <1>3 DEF Types, Only, ListLockStep
<1>7. LocalOK(n)'
  BY <1>1, <1>2 DEF LocalOK, Types
<1>8. pc[n] = "found" /\ pc'[n] \in {"run", "wait"} /\ (pc'[n] # "run" => rec'[n] = rec[n])
  BY <1>1, <1>2 DEF Types
<1> QED
  BY <1>5, <1>6, <1>7, <1>8, OthersLocal

LEMMA RefAddBase ==
  ASSUME BaseInv, NEW n \in Native, RefAdd(n)
  PROVE  BaseInv' /\ Only(n) /\ pc[n] = "found" /\ pc'[n] \in {"run", "named"}
         /\ (pc'[n] # "run" => rec'[n] = rec[n])
<1>1. Types /\ LocalOK(n) /\ n # NoNative
  BY ThreadAssumption DEF BaseInv
<1> USE DEF recordVars, listVars, Labels, Without, Trying, Exited
<1>2. /\ pc[n] = "found" /\ thread_list_lock' = NoNative /\ after' = [after EXCEPT ![n] = "run"]
      /\ \/ /\ pc' = [pc EXCEPT ![n] = "named"] /\ rec' = rec
            /\ refcount' = Set(refcount, rec[n], refcount[rec[n]] + 1)
         \/ rec' = [rec EXCEPT ![n] = NoSlot] /\ pc' = [pc EXCEPT ![n] = "run"] /\ refcount' = refcount
      /\ UNCHANGED <<tid, lock, joiner, state, detached, ret, heap, threads, gc_list, free_threads,
                       total_threads, curthread, work_list>>
  <2>1. \/ Return(n) /\ UNCHANGED refcount
        \/ Goto(n, "named") /\ refcount' = Set(refcount, rec[n], refcount[rec[n]] + 1)
    BY DEF RefAdd
  <2>2. \/ /\ pc' = [pc EXCEPT ![n] = "named"] /\ rec' = rec
           /\ refcount' = Set(refcount, rec[n], refcount[rec[n]] + 1)
        \/ rec' = [rec EXCEPT ![n] = NoSlot] /\ pc' = [pc EXCEPT ![n] = "run"] /\ refcount' = refcount
    BY <1>1, <2>1, MovesOnly
  <2> QED
    BY <1>1, <2>2 DEF RefAdd, Found, Set
<1>3. rec[n] \in Slot /\ curthread[n] \in Slot /\ thread_list_lock = n
  BY <1>1, <1>2 DEF LocalOK, Types
<1>4. refcount' \in [Slot -> Int]
  <2>1. Set(refcount, rec[n], refcount[rec[n]] + 1) \in [Slot -> Int]
    BY <1>1, <1>3, RecordTypes
  <2> QED
    BY <1>1, <1>2, <2>1 DEF Types
<1>5. Types'
  BY <1>1, <1>2, <1>4 DEF Types
<1>6. Only(n) /\ ListLockStep(n)
  BY <1>1, <1>2, <1>3 DEF Types, Only, ListLockStep
<1>7. LocalOK(n)'
  BY <1>1, <1>2 DEF LocalOK, Types
<1>8. pc[n] = "found" /\ pc'[n] \in {"run", "named"} /\ (pc'[n] # "run" => rec'[n] = rec[n])
  BY <1>1, <1>2 DEF Types
<1> QED
  BY <1>5, <1>6, <1>7, <1>8, OthersLocal

LEMMA TcCollectBase ==
  ASSUME BaseInv, NEW n \in Native, TcCollect(n)
  PROVE  BaseInv' /\ Only(n) /\ pc[n] = "tc_lock" /\ pc'[n] = "tc_unlock"
         /\ rec'[n] = rec[n]
<1>1. Types /\ LocalOK(n) /\ n # NoNative
  BY ThreadAssumption DEF BaseInv
<1> USE DEF recordVars, listVars, Labels, Without, Trying, Exited
<1>2. PICK gone \in BOOLEAN :
      /\ pc[n] = "tc_lock" /\ pc' = [pc EXCEPT ![n] = "tc_unlock"] /\ rec' = rec
      /\ rec[n] \in Slot /\ refcount' = Set(refcount, rec[n], refcount[rec[n]] - 1)
      /\ threads' = (IF gone THEN threads \ {rec[n]} ELSE threads)
      /\ gc_list' = (IF gone THEN Append(gc_list, rec[n]) ELSE gc_list)
      /\ thread_list_lock' = NoNative
      /\ UNCHANGED <<tid, state, joiner, detached, ret, heap, free_threads, total_threads, curthread,
                       after, work_list>>
  BY <1>1 DEF TcCollect, Goto, Set, LocalOK, Types
<1>3. refcount' \in [Slot -> Int]
  BY <1>1, <1>2, RecordTypes DEF Types
<1>4. gc_list' \in Seq(Slot) /\ threads' \subseteq Slot /\ thread_list_lock = n
  BY <1>1, <1>2 DEF Types, LocalOK
<1>5. Types'
  BY <1>1, <1>2, <1>3, <1>4 DEF Types
<1>6. Only(n) /\ ListLockStep(n)
  BY <1>1, <1>2, <1>4 DEF Types, Only, ListLockStep
<1>7. LocalOK(n)'
  BY <1>1, <1>2 DEF LocalOK, Types
<1>8. pc[n] = "tc_lock" /\ pc'[n] = "tc_unlock" /\ rec'[n] = rec[n]
  BY <1>1, <1>2 DEF Types
<1> QED
  BY <1>5, <1>6, <1>7, <1>8, OthersLocal

LEMMA TcUnlockBase ==
  ASSUME BaseInv, NEW n \in Native, TcUnlock(n)
  PROVE  BaseInv' /\ Only(n) /\ pc[n] = "tc_unlock" /\ pc'[n] \in {"run", "terminate"}
         /\ (pc'[n] # "run" => rec'[n] = rec[n])
<1>1. Types /\ LocalOK(n) /\ n # NoNative
  BY ThreadAssumption DEF BaseInv
<1> USE DEF recordVars, listVars, Labels, Without, Trying, Exited
<1>2. /\ pc[n] = "tc_unlock" /\ after' = [after EXCEPT ![n] = "run"]
      /\ \/ after[n] = "run" /\ rec' = [rec EXCEPT ![n] = NoSlot] /\ pc' = [pc EXCEPT ![n] = "run"]
         \/ after[n] = "terminate" /\ pc' = [pc EXCEPT ![n] = "terminate"] /\ rec' = rec
      /\ UNCHANGED <<tid, refcount, state, joiner, detached, ret, listVars, curthread, work_list>>
  <2>1. \/ after[n] = "run" /\ Return(n)
        \/ after[n] = "terminate" /\ Goto(n, "terminate")
    BY <1>1 DEF TcUnlock, LocalOK
  <2>2. \/ after[n] = "run" /\ rec' = [rec EXCEPT ![n] = NoSlot] /\ pc' = [pc EXCEPT ![n] = "run"]
        \/ after[n] = "terminate" /\ pc' = [pc EXCEPT ![n] = "terminate"] /\ rec' = rec
    BY <1>1, <2>1, MovesOnly
  <2> QED
    BY <1>1, <2>2 DEF TcUnlock, Set, LocalOK
<1>3. Types'
  BY <1>1, <1>2 DEF Types
<1>4. Only(n) /\ ListLockStep(n)
  BY <1>1, <1>2 DEF Types, Only, ListLockStep
<1>5. LocalOK(n)'
  BY <1>1, <1>2 DEF LocalOK, Types
<1>6. pc[n] = "tc_unlock" /\ pc'[n] \in {"run", "terminate"} /\ (pc'[n] # "run" => rec'[n] = rec[n])
  BY <1>1, <1>2 DEF Types
<1> QED
  BY <1>3, <1>4, <1>5, <1>6, OthersLocal

(* What the destruction of a record does to the lists.                     *)
LEMMA RecycleTypes ==
  ASSUME Types, NEW s \in Slot, Recycle(s)
  PROVE  heap' \subseteq Slot /\ free_threads' \in Seq(Slot)
<1>1. heap \subseteq Slot /\ free_threads \in Seq(Slot)
  BY DEF Types
<1>2. Append(free_threads, s) \in Seq(Slot)
  BY <1>1
<1> QED
  BY <1>1, <1>2 DEF Recycle

LEMMA CollectBase ==
  ASSUME BaseInv, NEW n \in Native, Collect(n)
  PROVE  BaseInv' /\ Only(n) /\ pc[n] = "collect" /\ pc'[n] = "free" /\ rec'[n] = rec[n]
<1>1. Types /\ LocalOK(n) /\ n # NoNative
  BY ThreadAssumption DEF BaseInv
<1> USE DEF recordVars, Labels, Without, Trying, Exited
<1>2. PICK left \in SUBSET Slot :
      /\ pc[n] = "collect" /\ pc' = [pc EXCEPT ![n] = "free"]
      /\ work_list' = [work_list EXCEPT ![n] = Filtered(gc_list, left)]
      /\ gc_list' = Filtered(gc_list, Slot \ left)
      /\ UNCHANGED <<recordVars, heap, threads, free_threads, total_threads,
                     thread_list_lock, rec, curthread, after>>
  BY DEF Collect, Goto, Set
<1>3. gc_list' \in Seq(Slot) /\ Filtered(gc_list, left) \in Seq(Slot)
  BY <1>1, <1>2, FilteredSeq DEF Types
<1>4. Types'
  BY <1>1, <1>2, <1>3 DEF Types
<1>5. Only(n) /\ ListLockStep(n)
  BY <1>1, <1>2 DEF Types, Only, ListLockStep
<1>6. LocalOK(n)'
  BY <1>1, <1>2 DEF LocalOK, Types
<1>7. pc'[n] = "free" /\ rec'[n] = rec[n]
  BY <1>1, <1>2 DEF Types
<1> QED
  BY <1>2, <1>4, <1>5, <1>6, <1>7, OthersLocal

LEMMA FreeBase ==
  ASSUME BaseInv, NEW n \in Native, Free(n)
  PROVE  BaseInv' /\ Only(n) /\ pc[n] = "free" /\ pc'[n] \in {"free", "shrink"}
         /\ rec'[n] = rec[n]
<1>1. Types /\ LocalOK(n) /\ n # NoNative
  BY ThreadAssumption DEF BaseInv
<1> USE DEF recordVars, Labels, Without, Trying, Exited
<1>2. PICK label \in {"free", "shrink"} :
      /\ pc[n] = "free" /\ pc' = [pc EXCEPT ![n] = label]
      /\ work_list[n] # <<>>
      /\ work_list' = [work_list EXCEPT ![n] = Tail(work_list[n])]
      /\ Recycle(Head(work_list[n]))
      /\ UNCHANGED <<recordVars, threads, gc_list, total_threads,
                     thread_list_lock, rec, curthread, after>>
  BY DEF Free, Set
<1>3. Head(work_list[n]) \in Slot /\ Tail(work_list[n]) \in Seq(Slot)
  BY <1>1, <1>2 DEF Types
<1>4. heap' \subseteq Slot /\ free_threads' \in Seq(Slot)
  BY <1>1, <1>2, <1>3, RecycleTypes
<1>5. Types'
  BY <1>1, <1>2, <1>3, <1>4 DEF Types
<1>6. Only(n) /\ ListLockStep(n)
  BY <1>1, <1>2 DEF Types, Only, ListLockStep
<1>7. LocalOK(n)'
  BY <1>1, <1>2 DEF LocalOK, Types
<1>8. pc'[n] \in {"free", "shrink"} /\ rec'[n] = rec[n]
  BY <1>1, <1>2 DEF Types
<1> QED
  BY <1>2, <1>5, <1>6, <1>7, <1>8, OthersLocal

(* A creation that finds a record has it to itself.                        *)
LEMMA ConstructBase ==
  ASSUME BaseInv, NEW n \in Native, NEW s \in Slot, Construct(n, s),
         pc[n] \in {"cached", "heap"}, heap' \subseteq Slot, free_threads' \in Seq(Slot),
         UNCHANGED <<threads, gc_list, total_threads, thread_list_lock, curthread,
                     after, work_list>>
  PROVE  BaseInv' /\ Only(n) /\ pc'[n] = "link" /\ rec'[n] = s
<1>1. Types /\ LocalOK(n) /\ n # NoNative /\ s # NoSlot
  BY ThreadAssumption DEF BaseInv
<1> USE DEF Labels, Without, Trying, Exited
<1>2. /\ pc' = [pc EXCEPT ![n] = "link"] /\ rec' = [rec EXCEPT ![n] = s]
      /\ tid' = Set(tid, s, "alive") /\ refcount' = Set(refcount, s, 1)
      /\ state' = Set(state, s, "Running") /\ joiner' = Set(joiner, s, NoSlot)
      /\ ret' = Set(ret, s, "none")
      /\ \E d \in BOOLEAN : detached' = Set(detached, s, d)
  BY DEF Construct, Set
<1>3. /\ tid' \in [Slot -> {"alive", "terminated"}] /\ refcount' \in [Slot -> Int]
      /\ state' \in [Slot -> {"Running", "Dead"}]
      /\ joiner' \in [Slot -> Slot \cup {NoSlot}] /\ ret' \in [Slot -> {"none", "saved"}]
  BY <1>1, <1>2, RecordTypes
<1>4. detached' \in [Slot -> BOOLEAN]
  BY <1>1, <1>2, RecordTypes
<1>5. Types'
  BY <1>1, <1>2, <1>3, <1>4 DEF Types
<1>6. Only(n) /\ ListLockStep(n)
  BY <1>1, <1>2 DEF Types, Only, ListLockStep
<1>7. LocalOK(n)'
  BY <1>1, <1>2 DEF LocalOK, Types
<1>8. pc'[n] = "link" /\ rec'[n] = s
  BY <1>1, <1>2 DEF Types
<1> QED
  BY <1>5, <1>6, <1>7, <1>8, OthersLocal

LEMMA TakeBase ==
  ASSUME BaseInv, NEW n \in Native, TakeCached(n) \/ TakeHeap(n)
  PROVE  /\ BaseInv' /\ Only(n) /\ pc[n] \in {"cached", "heap"}
         /\ TakeCached(n) => pc[n] = "cached" /\ pc'[n] \in {"room", "link"}
         /\ TakeHeap(n) => pc[n] = "heap" /\ pc'[n] \in {"ungrow", "link"}
<1>1. Types /\ LocalOK(n) /\ n # NoNative
  BY ThreadAssumption DEF BaseInv
<1>2. UNCHANGED <<threads, gc_list, total_threads, thread_list_lock, curthread, after,
                  work_list>>
  BY DEF TakeCached, TakeHeap
<1>3. pc[n] \in {"cached", "heap"} /\ heap \subseteq Slot /\ free_threads \in Seq(Slot)
  BY <1>1 DEF TakeCached, TakeHeap, Types
<1>4. \A s \in Slot :
        Construct(n, s) /\ heap' \subseteq Slot /\ free_threads' \in Seq(Slot) =>
          BaseInv' /\ Only(n) /\ pc'[n] = "link"
  BY <1>2, <1>3, ConstructBase
<1>5. ASSUME NEW label \in {"room", "ungrow"}, Goto(n, label),
             UNCHANGED <<recordVars, heap, free_threads>>
      PROVE  BaseInv' /\ Only(n) /\ pc'[n] = label
  <2> USE DEF recordVars, Labels, Without, Trying, Exited
  <2>1. pc' = [pc EXCEPT ![n] = label] /\ rec' = rec
    BY <1>1, <1>5, MovesOnly
  <2>2. Types'
    BY <1>1, <1>2, <1>5, <2>1 DEF Types
  <2>3. Only(n) /\ ListLockStep(n)
    BY <1>1, <1>2, <2>1 DEF Types, Only, ListLockStep
  <2>4. LocalOK(n)'
    BY <1>1, <1>2, <1>3, <2>1 DEF LocalOK, Types
  <2>5. pc'[n] = label
    BY <1>1, <2>1 DEF Types
  <2> QED
    BY <2>2, <2>3, <2>4, <2>5, OthersLocal
<1>6. CASE TakeCached(n)
  <2>1. /\ pc[n] = "cached" /\ UNCHANGED heap
        /\ \/ Goto(n, "room") /\ UNCHANGED <<recordVars, heap, free_threads>>
           \/ /\ Construct(n, Last(free_threads)) /\ free_threads # <<>>
              /\ free_threads' = Front(free_threads)
    BY <1>6 DEF TakeCached
  <2>2. free_threads # <<>> => Last(free_threads) \in Slot /\ Front(free_threads) \in Seq(Slot)
    BY <1>3, FrontSeq
  <2> QED
    BY <1>3, <1>4, <1>5, <2>1, <2>2 DEF TakeHeap
<1>7. CASE TakeHeap(n)
  <2>1. /\ pc[n] = "heap" /\ UNCHANGED free_threads
        /\ \/ Goto(n, "ungrow") /\ UNCHANGED <<recordVars, heap, free_threads>>
           \/ \E s \in heap : Construct(n, s) /\ heap' = heap \ {s}
    BY <1>7 DEF TakeHeap
  <2> QED
    BY <1>3, <1>4, <1>5, <2>1 DEF TakeCached
<1> QED
  BY <1>6, <1>7

LEMMA StackFailsBase ==
  ASSUME BaseInv, NEW n \in Native, StackFails(n)
  PROVE  BaseInv' /\ Only(n) /\ pc[n] = "link" /\ pc'[n] \in {"run", "ungrow"}
<1>1. Types /\ LocalOK(n) /\ n # NoNative
  BY ThreadAssumption DEF BaseInv
<1> USE DEF recordVars, Labels, Without, Trying, Exited
<1>2. PICK label \in {"run", "ungrow"} :
      /\ pc[n] = "link" /\ pc' = [pc EXCEPT ![n] = label]
      /\ rec' = [rec EXCEPT ![n] = NoSlot]
      /\ Recycle(rec[n])
      /\ UNCHANGED <<recordVars, threads, gc_list, total_threads,
                     thread_list_lock, curthread, after, work_list>>
  BY DEF StackFails, Return, Set
<1>3. rec[n] \in Slot
  BY <1>1, <1>2 DEF Types, LocalOK
<1>4. heap' \subseteq Slot /\ free_threads' \in Seq(Slot)
  BY <1>1, <1>2, <1>3, RecycleTypes
<1>5. Types'
  BY <1>1, <1>2, <1>4 DEF Types
<1>6. Only(n) /\ ListLockStep(n)
  BY <1>1, <1>2 DEF Types, Only, ListLockStep
<1>7. LocalOK(n)'
  BY <1>1, <1>2 DEF LocalOK, Types
<1>8. pc'[n] \in {"run", "ungrow"}
  BY <1>1, <1>2 DEF Types
<1> QED
  BY <1>2, <1>5, <1>6, <1>7, <1>8, OthersLocal

(* The one step that moves two native threads.                             *)
LEMMA SpawnBase == ASSUME BaseInv, NEW n \in Native, Spawn(n) PROVE BaseInv'
<1>1. Types /\ LocalOK(n) /\ n # NoNative
  BY ThreadAssumption DEF BaseInv
<1> USE DEF recordVars, listVars, Labels, Without, Trying, Exited
<1>2. PICK m \in Native, label \in {"affinity", "run"} :
      /\ pc[n] = "spawn" /\ pc[m] = "none"
      /\ pc' = [[pc EXCEPT ![m] = "run"] EXCEPT ![n] = label]
      /\ curthread' = [curthread EXCEPT ![m] = rec[n]]
      /\ rec' = IF label = "run" THEN [rec EXCEPT ![n] = NoSlot] ELSE rec
      /\ UNCHANGED <<recordVars, listVars, after, work_list>>
  BY DEF Spawn, Set
<1>3. rec[n] \in Slot /\ rec[n] # NoSlot /\ m # n /\ m # NoNative
  BY <1>1, <1>2, ThreadAssumption DEF Types, LocalOK
<1>4. Types'
  BY <1>1, <1>2, <1>3 DEF Types
<1>5. LocalOK(n)'
  BY <1>1, <1>2, <1>3 DEF LocalOK, Types
<1>6. LocalOK(m)'
  <2>1. LocalOK(m)
    BY DEF BaseInv
  <2>2. pc'[m] = "run" /\ curthread'[m] = rec[n] /\ rec'[m] = rec[m] /\ work_list'[m] = work_list[m]
    BY <1>1, <1>2, <1>3 DEF Types
  <2> QED
    BY <1>2, <1>3, <2>1, <2>2 DEF LocalOK
<1>7. ASSUME NEW k \in Native \ {n, m} PROVE LocalOK(k)'
  <2>1. LocalOK(k)
    BY DEF BaseInv
  <2>2. /\ pc'[k] = pc[k] /\ curthread'[k] = curthread[k] /\ rec'[k] = rec[k]
        /\ after'[k] = after[k] /\ work_list'[k] = work_list[k] /\ UNCHANGED thread_list_lock
    BY <1>1, <1>2 DEF Types
  <2> QED
    BY <2>1, <2>2 DEF LocalOK
<1> QED
  BY <1>4, <1>5, <1>6, <1>7 DEF BaseInv

(* What TryCollect does: it takes the record along to the list lock with a  *)
(* reference, or it leaves the record and returns, or goes on.              *)
Takes(n, s, count, return) ==
  /\ count = 0 /\ state'[s] = "Dead" /\ detached'[s]
  /\ refcount' = [refcount EXCEPT ![s] = count + 1]
  /\ pc' = [pc EXCEPT ![n] = "tc_list"] /\ rec' = [rec EXCEPT ![n] = s]
  /\ after' = [after EXCEPT ![n] = return] /\ lost' = lost

Leaves(n, s, count) ==
  /\ ~(count = 0 /\ state'[s] = "Dead" /\ detached'[s])
  /\ refcount' = [refcount EXCEPT ![s] = count]
  /\ after' = [after EXCEPT ![n] = "run"]

Returns(n) ==
  Return(n) /\ pc' = [pc EXCEPT ![n] = "run"] /\ rec' = [rec EXCEPT ![n] = NoSlot]

GoesOn(n) == pc' = [pc EXCEPT ![n] = "terminate"] /\ rec' = rec /\ lost' = lost

LEMMA TryCollectDoes ==
  ASSUME Types, NEW n \in Native, NEW s \in Slot, NEW count \in Int,
         NEW return \in {"run", "terminate"}, TryCollect(n, s, count, return)
  PROVE  /\ lock' = lock
         /\ \/ Takes(n, s, count, return)
            \/ Leaves(n, s, count) /\ return = "run" /\ Returns(n)
            \/ Leaves(n, s, count) /\ return = "terminate" /\ GoesOn(n)
<1>1. CASE count = 0 /\ state'[s] = "Dead" /\ detached'[s]
  BY <1>1 DEF TryCollect, Takes, Set
<1>2. CASE ~(count = 0 /\ state'[s] = "Dead" /\ detached'[s])
  <2>1. /\ lock' = lock /\ refcount' = [refcount EXCEPT ![s] = count]
        /\ after' = [after EXCEPT ![n] = "run"]
        /\ \/ return = "run" /\ Return(n)
           \/ return = "terminate" /\ Goto(n, "terminate")
    BY <1>2 DEF TryCollect, Set
  <2>2. Return(n) => Returns(n)
    BY MovesOnly DEF Returns
  <2>3. Goto(n, "terminate") => GoesOn(n)
    BY MovesOnly DEF GoesOn, Goto
  <2>4. Leaves(n, s, count)
    BY <1>2, <2>1 DEF Leaves
  <2> QED
    BY <2>1, <2>2, <2>3, <2>4
<1> QED
  BY <1>1, <1>2

LEMMA TryCollectBase ==
  ASSUME BaseInv, NEW n \in Native, NEW s \in Slot, NEW count \in Int,
         NEW return \in {"run", "terminate"}, TryCollect(n, s, count, return),
         \/ pc[n] = "exit" /\ return = "terminate" /\ s = curthread[n]
         \/ pc[n] \in {"found", "joined", "unref"} /\ return = "run",
         ListLockStep(n), thread_list_lock' # n,
         state' \in [Slot -> {"Running", "Dead"}], detached' \in [Slot -> BOOLEAN],
         joiner' \in [Slot -> Slot \cup {NoSlot}],
         UNCHANGED <<tid, ret, heap, threads, gc_list, free_threads, total_threads,
                     curthread, work_list>>
  PROVE  /\ BaseInv' /\ Only(n) /\ pc'[n] \in {"tc_list", "run", "terminate"}
         /\ pc'[n] = "tc_list" => rec'[n] = s /\ after'[n] = return
         /\ pc'[n] = "terminate" => rec'[n] = rec[n] /\ return = "terminate"
         /\ pc'[n] = "run" => return = "run"
<1>1. Types /\ LocalOK(n) /\ n # NoNative /\ s # NoSlot
  BY ThreadAssumption DEF BaseInv
<1> USE DEF Labels, Without, Trying, Exited
<1>2. \E k \in Int : refcount' = [refcount EXCEPT ![s] = k]
  BY <1>1, TryCollectDoes DEF Takes, Leaves
<1>3. \/ /\ pc' = [pc EXCEPT ![n] = "tc_list"] /\ rec' = [rec EXCEPT ![n] = s]
         /\ after' = [after EXCEPT ![n] = return]
      \/ /\ pc' = [pc EXCEPT ![n] = "run"] /\ rec' = [rec EXCEPT ![n] = NoSlot]
         /\ after' = [after EXCEPT ![n] = "run"] /\ return = "run"
      \/ /\ pc' = [pc EXCEPT ![n] = "terminate"] /\ rec' = rec /\ return = "terminate"
         /\ after' = [after EXCEPT ![n] = "run"]
  <2>1. \/ Takes(n, s, count, return)
        \/ Leaves(n, s, count) /\ return = "run" /\ Returns(n)
        \/ Leaves(n, s, count) /\ return = "terminate" /\ GoesOn(n)
    BY <1>1, TryCollectDoes, Zenon
  <2> QED
    BY <2>1 DEF Takes, Leaves, Returns, GoesOn
<1>4. refcount' \in [Slot -> Int]
  BY <1>1, <1>2 DEF Types
<1>5. Types'
  <2>1. /\ pc' \in [Native -> Labels] /\ rec' \in [Native -> Slot \cup {NoSlot}]
        /\ after' \in [Native -> Calls \cup {"run", "terminate"}]
    <3>1. /\ pc \in [Native -> Labels] /\ rec \in [Native -> Slot \cup {NoSlot}]
          /\ after \in [Native -> Calls \cup {"run", "terminate"}]
      BY <1>1 DEF Types
    <3> QED
      BY <1>1, <1>3, <3>1
  <2>2. thread_list_lock' \in Native \cup {NoNative}
    BY <1>1 DEF Types, ListLockStep
  <2> QED
    BY <1>1, <1>4, <2>1, <2>2 DEF Types
<1>6. Only(n)
  BY <1>1, <1>3 DEF Types, Only
<1>7. LocalOK(n)'
  BY <1>1, <1>3 DEF LocalOK, Types
<1>8. /\ pc'[n] \in {"tc_list", "run", "terminate"}
      /\ pc'[n] = "tc_list" => rec'[n] = s /\ after'[n] = return
      /\ pc'[n] = "terminate" => rec'[n] = rec[n] /\ return = "terminate"
      /\ pc'[n] = "run" => return = "run"
  BY <1>1, <1>3 DEF Types
<1> QED
  BY <1>5, <1>6, <1>7, <1>8, OthersLocal

LEMMA ExitThreadBase ==
  ASSUME BaseInv, NEW n \in Native, ExitThread(n)
  PROVE  BaseInv' /\ Only(n) /\ pc[n] = "exit" /\ pc'[n] \in {"tc_list", "terminate"}
<1>1. Types /\ LocalOK(n) /\ n # NoNative
  BY ThreadAssumption DEF BaseInv
<1>2. /\ pc[n] = "exit" /\ TryCollect(n, curthread[n], refcount[curthread[n]] - 1, "terminate")
      /\ state' = Set(state, curthread[n], "Dead")
      /\ UNCHANGED <<tid, joiner, detached, ret, heap, threads, gc_list, free_threads,
                     total_threads, thread_list_lock, curthread, work_list>>
  BY DEF ExitThread, listVars
<1>3. curthread[n] \in Slot /\ thread_list_lock # n
  BY <1>1, <1>2 DEF LocalOK, Types
<1>4. refcount[curthread[n]] - 1 \in Int /\ state' \in [Slot -> {"Running", "Dead"}]
  BY <1>1, <1>2, <1>3, RecordTypes
<1>5. ListLockStep(n)
  BY <1>2 DEF ListLockStep
<1> QED
  BY <1>1, <1>2, <1>3, <1>4, <1>5, TryCollectBase DEF Types

LEMMA JoinReleaseBase ==
  ASSUME BaseInv, NEW n \in Native, JoinRelease(n)
  PROVE  BaseInv' /\ Only(n) /\ pc[n] = "joined" /\ pc'[n] \in {"tc_list", "run"}
<1>1. Types /\ LocalOK(n) /\ n # NoNative
  BY ThreadAssumption DEF BaseInv
<1>2. /\ pc[n] = "joined" /\ TryCollect(n, rec[n], refcount[rec[n]], "run")
      /\ detached' = Set(detached, rec[n], TRUE) /\ joiner' = Set(joiner, rec[n], NoSlot)
      /\ UNCHANGED <<tid, state, ret, heap, threads, gc_list, free_threads,
                     total_threads, thread_list_lock, curthread, work_list>>
  BY DEF JoinRelease, listVars
<1>3. rec[n] \in Slot /\ thread_list_lock # n
  BY <1>1, <1>2 DEF LocalOK, Types, Without
<1>4. /\ refcount[rec[n]] \in Int /\ detached' \in [Slot -> BOOLEAN]
      /\ joiner' \in [Slot -> Slot \cup {NoSlot}]
  BY <1>1, <1>2, <1>3, RecordTypes
<1>5. ListLockStep(n)
  BY <1>2 DEF ListLockStep
<1> QED
  BY <1>1, <1>2, <1>3, <1>4, <1>5, TryCollectBase DEF Types

LEMMA RefDeleteBase ==
  ASSUME BaseInv, NEW n \in Native, RefDelete(n)
  PROVE  BaseInv' /\ Only(n) /\ pc[n] = "unref" /\ pc'[n] \in {"tc_list", "run"}
<1>1. Types /\ LocalOK(n) /\ n # NoNative
  BY ThreadAssumption DEF BaseInv
<1>2. /\ pc[n] = "unref" /\ TryCollect(n, rec[n], refcount[rec[n]] - 1, "run")
      /\ UNCHANGED <<tid, state, joiner, detached, ret, heap, threads, gc_list, free_threads,
                     total_threads, thread_list_lock, curthread, work_list>>
  BY DEF RefDelete, listVars
<1>3. rec[n] \in Slot /\ thread_list_lock # n
  BY <1>1, <1>2 DEF LocalOK, Types, Without
<1>4. refcount[rec[n]] - 1 \in Int
  BY <1>1, <1>3, RecordTypes
<1>5. ListLockStep(n)
  BY <1>2 DEF ListLockStep
<1> QED
  BY <1>1, <1>2, <1>3, <1>4, <1>5, TryCollectBase DEF Types

LEMMA DetachBase ==
  ASSUME BaseInv, NEW n \in Native, Detach(n)
  PROVE  BaseInv' /\ Only(n) /\ pc[n] = "found" /\ pc'[n] \in {"tc_list", "run"}
<1>1. Types /\ LocalOK(n) /\ n # NoNative
  BY ThreadAssumption DEF BaseInv
<1>2. /\ pc[n] = "found" /\ thread_list_lock' = NoNative
      /\ UNCHANGED <<tid, joiner, ret, heap, threads, gc_list, free_threads, total_threads,
                     curthread, work_list>>
  BY DEF Detach, Found
<1>3. rec[n] \in Slot /\ thread_list_lock = n
  BY <1>1, <1>2 DEF LocalOK, Types, Without
<1>4. ListLockStep(n) /\ thread_list_lock' # n
  BY <1>1, <1>2, <1>3 DEF ListLockStep
<1>5. CASE /\ detached' = Set(detached, rec[n], TRUE) /\ UNCHANGED state
           /\ TryCollect(n, rec[n], refcount[rec[n]], "run")
  <2>1. refcount[rec[n]] \in Int /\ detached' \in [Slot -> BOOLEAN]
    BY <1>1, <1>3, <1>5, RecordTypes
  <2> QED
    BY <1>1, <1>2, <1>3, <1>4, <1>5, <2>1, TryCollectBase DEF Types
<1>6. CASE /\ Return(n) /\ after' = Set(after, n, "run")
           /\ UNCHANGED <<refcount, detached, state, lock>>
  <2> USE DEF Labels, Without, Trying, Exited
  <2>1. /\ pc' = [pc EXCEPT ![n] = "run"] /\ rec' = [rec EXCEPT ![n] = NoSlot]
        /\ after' = [after EXCEPT ![n] = "run"]
    BY <1>1, <1>6, MovesOnly DEF Set
  <2>2. Types'
    BY <1>1, <1>2, <1>6, <2>1 DEF Types
  <2>3. Only(n)
    BY <1>1, <1>2, <2>1 DEF Types, Only
  <2>4. LocalOK(n)'
    BY <1>1, <1>2, <2>1 DEF LocalOK, Types
  <2>5. pc'[n] = "run"
    BY <1>1, <2>1 DEF Types
  <2> QED
    BY <1>2, <1>4, <2>2, <2>3, <2>4, <2>5, OthersLocal
<1> QED
  BY <1>5, <1>6 DEF Detach

LEMMA BaseStep == BaseInv /\ [Next]_vars => BaseInv'
<1> SUFFICES ASSUME BaseInv, [Next]_vars PROVE BaseInv'
  OBVIOUS
<1>1. CASE UNCHANGED vars
  BY <1>1 DEF BaseInv, Types, LocalOK, Exited, vars, recordVars, listVars, nativeVars
<1>2. ASSUME NEW n \in Native,
             \/ Create(n)     \/ Collect(n)     \/ Free(n)       \/ Shrink(n)
             \/ Collected(n)  \/ TakeCached(n)  \/ Room(n)       \/ Grow(n)
             \/ TakeHeap(n)   \/ Ungrow(n)      \/ StackFails(n) \/ Link(n)
             \/ Spawn(n)      \/ SpawnFails(n)  \/ Affinity(n)
      PROVE  BaseInv'
  BY <1>2, CreateBase, CollectBase, FreeBase, ShrinkBase, CollectedBase, TakeBase, RoomBase,
     GrowBase, UngrowBase, StackFailsBase, LinkBase, SpawnBase, SpawnFailsBase, AffinityBase
<1>3. ASSUME NEW n \in Native,
             \/ Exit(n)       \/ ExitThread(n)  \/ Terminate(n)  \/ Leave(n)
             \/ Call(n)       \/ FindThread(n)
             \/ JoinClaim(n)  \/ JoinWake(n)    \/ JoinRelease(n)
             \/ Detach(n)     \/ RefAdd(n)      \/ GetName(n)    \/ RefDelete(n)
             \/ TcList(n)     \/ TcCollect(n)   \/ TcUnlock(n)
      PROVE  BaseInv'
  BY <1>3, ExitBase, ExitThreadBase, TerminateBase, LeaveBase, CallBase, FindThreadBase,
     JoinClaimBase, JoinWakeBase, JoinReleaseBase, DetachBase, RefAddBase, GetNameBase,
     RefDeleteBase, TcListBase, TcCollectBase, TcUnlockBase
<1> QED
  BY <1>1, <1>2, <1>3 DEF Next

-----------------------------------------------------------------------------
(* The place of every record.                                             *)

(* Where the records are *)

InHeap    == <<"heap", NoNative>>
InThreads == <<"threads", NoNative>>
InGc      == <<"gc_list", NoNative>>
InCache   == <<"free_threads", NoNative>>
InWork(n) == <<"work_list", n>>
InLink(n) == <<"link", n>>

OnePlace == \A s \in Slot : \E p \in Places : \A q \in Places : s \in Records(q) <=> q = p

NoTwice == Once(gc_list) /\ Once(free_threads) /\ \A n \in Native : Once(work_list[n])

HomesInv == OnePlace /\ NoTwice

LEMMA PlacesAre ==
  /\ {InHeap, InThreads, InGc, InCache} \subseteq Places
  /\ \A n \in Native : InWork(n) \in Places /\ InLink(n) \in Places
  /\ \A q \in Places : \/ q \in {InHeap, InThreads, InGc, InCache}
                       \/ \E n \in Native : q = InWork(n) \/ q = InLink(n)
BY DEF Places, InHeap, InThreads, InGc, InCache, InWork, InLink

LEMMA RecordsAre ==
  /\ Records(InHeap) = heap /\ Records(InThreads) = threads
  /\ Records(InGc) = Range(gc_list) /\ Records(InCache) = Range(free_threads)
  /\ \A n \in Native : /\ Records(InWork(n)) = Range(work_list[n])
                       /\ Records(InLink(n)) = IF pc[n] = "link" THEN {rec[n]} ELSE {}
BY DEF Records, InHeap, InThreads, InGc, InCache, InWork, InLink

(* A record has one place only.                                            *)
LEMMA Alone ==
  ASSUME OnePlace, NEW s \in Slot, NEW p \in Places, NEW q \in Places,
         s \in Records(p), s \in Records(q)
  PROVE  p = q
BY DEF OnePlace

(* Records that move from one place to another are in one place again.     *)
LEMMA MoveKeeps ==
  ASSUME OnePlace, NEW p \in Places, NEW r \in Places, p # r,
         NEW X, X \subseteq Records(p),
         Records(p)' = Records(p) \ X, Records(r)' = Records(r) \cup X,
         \A q \in Places \ {p, r} : Records(q)' = Records(q)
  PROVE  OnePlace'
<1>1. ASSUME NEW s \in Slot
      PROVE  \E h \in Places : \A q \in Places : s \in Records(q)' <=> q = h
  <2>1. PICK h \in Places : \A q \in Places : s \in Records(q) <=> q = h
    BY DEF OnePlace
  <2>2. CASE s \in X
    <3>1. h = p
      BY <2>1, <2>2
    <3>2. \A q \in Places : s \in Records(q)' <=> q = r
      BY <2>1, <2>2, <3>1
    <3> QED
      BY <3>2
  <2>3. CASE s \notin X
    <3>1. \A q \in Places : s \in Records(q)' <=> s \in Records(q)
      BY <2>3
    <3> QED
      BY <2>1, <3>1
  <2> QED
    BY <2>2, <2>3
<1> QED
  BY <1>1 DEF OnePlace

(* The places that a step leaves alone.                                    *)
LEMMA RecordsStay ==
  ASSUME NEW p, NEW r,
         InHeap \notin {p, r} => heap' = heap,
         InThreads \notin {p, r} => threads' = threads,
         InGc \notin {p, r} => gc_list' = gc_list,
         InCache \notin {p, r} => free_threads' = free_threads,
         \A n \in Native : InWork(n) \notin {p, r} => work_list'[n] = work_list[n],
         \A n \in Native : InLink(n) \notin {p, r} =>
           (pc[n] = "link" <=> pc'[n] = "link") /\ (pc[n] = "link" => rec'[n] = rec[n])
  PROVE  \A q \in Places \ {p, r} : Records(q)' = Records(q)
<1> SUFFICES ASSUME NEW q \in Places \ {p, r} PROVE Records(q)' = Records(q)
  OBVIOUS
<1>1. CASE q = InHeap
  BY <1>1 DEF Records, InHeap
<1>2. CASE q = InThreads
  BY <1>2 DEF Records, InThreads
<1>3. CASE q = InGc
  BY <1>3 DEF Records, InGc
<1>4. CASE q = InCache
  BY <1>4 DEF Records, InCache
<1>5. ASSUME NEW n \in Native, q = InWork(n) PROVE Records(q)' = Records(q)
  BY <1>5 DEF Records, InWork
<1>6. ASSUME NEW n \in Native, q = InLink(n) PROVE Records(q)' = Records(q)
  BY <1>6 DEF Records, InLink
<1> QED
  BY <1>1, <1>2, <1>3, <1>4, <1>5, <1>6, PlacesAre

LEMMA HomesInit == Init => HomesInv
<1> SUFFICES ASSUME Init PROVE HomesInv
  OBVIOUS
<1>1. PICK main \in Native, s \in Slot :
      /\ heap = Slot \ {s} /\ threads = {s} /\ gc_list = <<>> /\ free_threads = <<>>
      /\ pc = [n \in Native |-> IF n = main THEN "run" ELSE "none"]
      /\ work_list = [n \in Native |-> <<>>]
  BY DEF Init
<1>2. \A n \in Native : pc[n] # "link" /\ work_list[n] = <<>>
  BY <1>1
<1>3. Range(<<>>) = {} /\ Once(<<>>)
  BY DEF Range, Once
<1>4. \A r \in Slot, q \in Places : r \in Records(q) <=> q = IF r = s THEN InThreads ELSE InHeap
  <2> SUFFICES ASSUME NEW r \in Slot, NEW q \in Places
               PROVE  r \in Records(q) <=> q = IF r = s THEN InThreads ELSE InHeap
    OBVIOUS
  <2>1. CASE q \in {InHeap, InThreads, InGc, InCache}
    <3>1. InHeap # InThreads /\ {InGc, InCache} \cap {InHeap, InThreads} = {}
      BY DEF InHeap, InThreads, InGc, InCache
    <3> QED
      BY <1>1, <1>3, <2>1, <3>1, RecordsAre
  <2>2. ASSUME NEW n \in Native, q = InWork(n) \/ q = InLink(n)
        PROVE  r \in Records(q) <=> q = IF r = s THEN InThreads ELSE InHeap
    <3>1. q \notin {InHeap, InThreads}
      BY <2>2 DEF InHeap, InThreads, InWork, InLink
    <3>2. Records(q) = {}
      BY <1>2, <1>3, <2>2, RecordsAre
    <3> QED
      BY <3>1, <3>2
  <2> QED
    BY <2>1, <2>2, PlacesAre
<1>5. OnePlace
  BY <1>4, PlacesAre DEF OnePlace
<1>6. NoTwice
  BY <1>1, <1>2, <1>3 DEF NoTwice
<1> QED
  BY <1>5, <1>6 DEF HomesInv

(* Steps that leave every record where it is.                              *)
LEMMA HomesQuiet ==
  ASSUME HomesInv, UNCHANGED <<heap, threads, gc_list, free_threads, work_list>>,
         \A n \in Native : (pc[n] = "link" <=> pc'[n] = "link")
                           /\ (pc[n] = "link" => rec'[n] = rec[n])
  PROVE  HomesInv'
<1>1. \A q \in Places \ {InHeap, InHeap} : Records(q)' = Records(q)
  BY RecordsStay
<1>2. Records(InHeap)' = Records(InHeap)
  BY DEF Records, InHeap
<1>3. \A q \in Places : Records(q)' = Records(q)
  BY <1>1, <1>2
<1>4. OnePlace'
  BY <1>3 DEF HomesInv, OnePlace
<1>5. NoTwice'
  BY DEF HomesInv, NoTwice
<1> QED
  BY <1>4, <1>5 DEF HomesInv

LEMMA HomesCollect ==
  ASSUME BaseInv, HomesInv, NEW n \in Native, Collect(n) PROVE HomesInv'
<1>1. BaseInv' /\ Only(n) /\ pc[n] = "collect" /\ pc'[n] = "free" /\ rec'[n] = rec[n]
  BY CollectBase
<1>2. PICK left \in SUBSET Slot :
      /\ work_list' = [work_list EXCEPT ![n] = Filtered(gc_list, left)]
      /\ gc_list' = Filtered(gc_list, Slot \ left)
      /\ UNCHANGED <<heap, threads, free_threads>>
  BY DEF Collect, Set
<1>3. gc_list \in Seq(Slot) /\ work_list \in [Native -> Seq(Slot)] /\ work_list[n] = <<>>
  BY <1>1 DEF BaseInv, Types, LocalOK
<1> DEFINE X == Range(gc_list) \cap left
<1>4. /\ Range(work_list'[n]) = X /\ Range(gc_list') = Range(gc_list) \ X
      /\ Once(gc_list) => Once(gc_list') /\ Once(work_list'[n])
  <2>1. /\ Range(Filtered(gc_list, left)) = Range(gc_list) \cap left
        /\ Once(gc_list) => Once(Filtered(gc_list, left))
    BY <1>3, FilteredSeq
  <2>2. /\ Range(Filtered(gc_list, Slot \ left)) = Range(gc_list) \cap (Slot \ left)
        /\ Once(gc_list) => Once(Filtered(gc_list, Slot \ left))
    BY <1>3, FilteredSeq, Zenon
  <2>3. Range(gc_list) \subseteq Slot
    BY <1>3 DEF Range
  <2> QED
    BY <1>2, <1>3, <2>1, <2>2, <2>3
<1>5. /\ Records(InGc)' = Records(InGc) \ X
      /\ Records(InWork(n))' = Records(InWork(n)) \cup X /\ X \subseteq Records(InGc)
  <2>1. Range(work_list[n]) = {}
    BY <1>3 DEF Range
  <2> QED
    BY <1>4, <2>1 DEF Records, InGc, InWork
<1>6. \A q \in Places \ {InGc, InWork(n)} : Records(q)' = Records(q)
  <2>1. \A m \in Native : InWork(m) \notin {InGc, InWork(n)} => work_list'[m] = work_list[m]
    BY <1>1 DEF Only, InWork
  <2>2. \A m \in Native : (pc[m] = "link" <=> pc'[m] = "link")
                          /\ (pc[m] = "link" => rec'[m] = rec[m])
    BY <1>1 DEF Only
  <2>3. InHeap \notin {InGc, InWork(n)} /\ InThreads \notin {InGc, InWork(n)}
    BY DEF InHeap, InThreads, InGc, InWork
  <2> QED
    BY <1>2, <2>1, <2>2, RecordsStay
<1>7. InGc # InWork(n)
  BY DEF InGc, InWork
<1>8. OnePlace'
  <2> HIDE DEF X
  <2> QED
    BY <1>5, <1>6, <1>7, PlacesAre, MoveKeeps DEF HomesInv
<1>9. NoTwice'
  BY <1>1, <1>2, <1>4 DEF HomesInv, NoTwice, Only
<1> QED
  BY <1>8, <1>9 DEF HomesInv

(* A record that is destroyed leaves place p for the cache or the heap.    *)
LEMMA HomesRecycle ==
  ASSUME BaseInv, HomesInv, NEW p \in Places \ {InHeap, InCache}, NEW s \in Slot,
         Recycle(s), s \in Records(p), Records(p)' = Records(p) \ {s},
         UNCHANGED <<threads, gc_list>>,
         \A n \in Native : p # InWork(n) => work_list'[n] = work_list[n],
         \A n \in Native : p # InLink(n) =>
           (pc[n] = "link" <=> pc'[n] = "link") /\ (pc[n] = "link" => rec'[n] = rec[n])
  PROVE  OnePlace' /\ (Once(free_threads) => Once(free_threads'))
<1>1. /\ UNCHANGED threads
      /\ InCache # InHeap
      /\ \A n \in Native : InWork(n) \notin {InCache, InHeap} /\ InLink(n) \notin {InCache, InHeap}
  BY DEF InCache, InHeap, InWork, InLink
<1>2. OnePlace /\ free_threads \in Seq(Slot)
  BY DEF HomesInv, BaseInv, Types
<1>3. p \in Places /\ {s} \subseteq Records(p) /\ InHeap \in Places /\ InCache \in Places
      /\ p # InHeap /\ p # InCache
  BY PlacesAre
<1>4. CASE free_threads' = Append(free_threads, s) /\ UNCHANGED heap
  <2>1. Range(free_threads') = Range(free_threads) \cup {s}
    BY <1>2, <1>4, AppendSeq
  <2>2. Records(InCache)' = Records(InCache) \cup {s}
    BY <2>1 DEF Records, InCache
  <2>3. \A q \in Places \ {p, InCache} : Records(q)' = Records(q)
    BY <1>1, <1>4, RecordsStay
  <2>4. OnePlace'
    <3>1. PICK r \in Places : r = InCache
      BY <1>3
    <3>2. /\ Records(r)' = Records(r) \cup {s} /\ p # r
          /\ \A q \in Places \ {p, r} : Records(q)' = Records(q)
      BY <1>3, <2>2, <2>3, <3>1
    <3>3. OnePlace /\ p \in Places /\ {s} \subseteq Records(p)
      BY <1>2, <1>3
    <3> QED
      BY <3>2, <3>3, MoveKeeps
  <2>5. s \notin Range(free_threads)
    <3>1. Records(InCache) = Range(free_threads) /\ InCache \in Places
      BY PlacesAre, RecordsAre
    <3> QED
      BY <1>2, <3>1, Alone
  <2>6. Once(free_threads) => Once(free_threads')
    BY <1>2, <1>4, <2>5, AppendOnce
  <2> QED
    BY <2>4, <2>6
<1>5. CASE heap' = heap \cup {s} /\ UNCHANGED free_threads
  <2>1. Records(InHeap)' = Records(InHeap) \cup {s}
    BY <1>5 DEF Records, InHeap
  <2>2. \A q \in Places \ {p, InHeap} : Records(q)' = Records(q)
    BY <1>1, <1>5, RecordsStay
  <2>3. OnePlace'
    <3>1. PICK r \in Places : r = InHeap
      BY <1>3
    <3>2. /\ Records(r)' = Records(r) \cup {s} /\ p # r
          /\ \A q \in Places \ {p, r} : Records(q)' = Records(q)
      BY <1>3, <2>1, <2>2, <3>1
    <3>3. OnePlace /\ p \in Places /\ {s} \subseteq Records(p)
      BY <1>2, <1>3
    <3> QED
      BY <3>2, <3>3, MoveKeeps
  <2> QED
    BY <1>5, <2>3
<1> QED
  BY <1>4, <1>5 DEF Recycle

LEMMA HomesFree ==
  ASSUME BaseInv, HomesInv, NEW n \in Native, Free(n) PROVE HomesInv'
<1> DEFINE s == Head(work_list[n])
<1>1. BaseInv' /\ Only(n) /\ pc[n] = "free" /\ pc'[n] \in {"free", "shrink"}
  BY FreeBase
<1>2. /\ work_list[n] # <<>> /\ Recycle(s) /\ UNCHANGED <<threads, gc_list>>
      /\ work_list' = [work_list EXCEPT ![n] = Tail(work_list[n])]
  BY DEF Free, Set
<1>3. work_list[n] \in Seq(Slot) /\ work_list'[n] = Tail(work_list[n]) /\ Once(work_list[n])
  BY <1>2 DEF BaseInv, Types, HomesInv, NoTwice
<1>4. /\ s \in Slot /\ s \in Range(work_list[n])
      /\ Range(work_list'[n]) = Range(work_list[n]) \ {s} /\ Once(work_list'[n])
  <2>1. /\ s \in Slot /\ Range(work_list[n]) = {s} \cup Range(Tail(work_list[n]))
        /\ s \notin Range(Tail(work_list[n])) /\ Once(Tail(work_list[n]))
    BY <1>2, <1>3, TailSeq, Zenon
  <2> QED
    BY <1>3, <2>1
<1> HIDE DEF s
<1>5. InWork(n) \in Places \ {InHeap, InCache}
  BY PlacesAre DEF InWork, InHeap, InCache
<1>6. s \in Records(InWork(n)) /\ Records(InWork(n))' = Records(InWork(n)) \ {s}
  BY <1>4 DEF Records, InWork
<1>7. \A m \in Native : InWork(n) # InWork(m) => work_list'[m] = work_list[m]
  BY <1>1 DEF Only, InWork
<1>8. \A m \in Native : (pc[m] = "link" <=> pc'[m] = "link")
                        /\ (pc[m] = "link" => rec'[m] = rec[m])
  BY <1>1 DEF Only
<1>9. OnePlace' /\ (Once(free_threads) => Once(free_threads'))
  BY <1>2, <1>4, <1>5, <1>6, <1>7, <1>8, HomesRecycle
<1>10. NoTwice'
  BY <1>1, <1>2, <1>4, <1>9 DEF HomesInv, NoTwice, Only
<1> QED
  BY <1>9, <1>10 DEF HomesInv

LEMMA HomesStackFails ==
  ASSUME BaseInv, HomesInv, NEW n \in Native, StackFails(n) PROVE HomesInv'
<1>1. BaseInv' /\ Only(n) /\ pc[n] = "link" /\ pc'[n] \in {"run", "ungrow"}
  BY StackFailsBase
<1>2. Recycle(rec[n]) /\ UNCHANGED <<threads, gc_list, work_list>>
  BY DEF StackFails
<1>3. rec[n] \in Slot
  <2>1. Types /\ LocalOK(n)
    BY DEF BaseInv
  <2> QED
    BY <1>1, <2>1 DEF Types, LocalOK, Without
<1>4. InLink(n) \in Places \ {InHeap, InCache}
  BY PlacesAre DEF InLink, InHeap, InCache
<1>5. rec[n] \in Records(InLink(n)) /\ Records(InLink(n))' = Records(InLink(n)) \ {rec[n]}
  BY <1>1 DEF Records, InLink
<1>6. \A m \in Native : InLink(n) # InLink(m) =>
        (pc[m] = "link" <=> pc'[m] = "link") /\ (pc[m] = "link" => rec'[m] = rec[m])
  BY <1>1 DEF Only, InLink
<1>7. OnePlace' /\ (Once(free_threads) => Once(free_threads'))
  BY <1>2, <1>3, <1>4, <1>5, <1>6, HomesRecycle
<1>8. NoTwice'
  BY <1>2, <1>7 DEF HomesInv, NoTwice
<1> QED
  BY <1>7, <1>8 DEF HomesInv

(* A creation takes a record from place p.                                 *)
LEMMA HomesConstruct ==
  ASSUME BaseInv, HomesInv, NEW n \in Native, NEW s \in Slot, NEW p \in {InHeap, InCache},
         Only(n), pc[n] # "link", pc'[n] = "link", rec'[n] = s,
         s \in Records(p), Records(p)' = Records(p) \ {s},
         p # InHeap => heap' = heap, p # InCache => free_threads' = free_threads,
         UNCHANGED <<threads, gc_list, work_list>>
  PROVE  OnePlace'
<1>1. p # InLink(n)
  BY DEF InHeap, InCache, InLink
<1>2. Records(InLink(n))' = Records(InLink(n)) \cup {s}
  BY DEF Records, InLink
<1>3. \A m \in Native : InLink(m) \notin {p, InLink(n)} =>
        (pc[m] = "link" <=> pc'[m] = "link") /\ (pc[m] = "link" => rec'[m] = rec[m])
  BY DEF Only, InLink
<1>4. \A q \in Places \ {p, InLink(n)} : Records(q)' = Records(q)
  BY <1>3, RecordsStay
<1>5. {s} \subseteq Records(p) /\ p \in Places /\ InLink(n) \in Places /\ OnePlace
  BY PlacesAre DEF HomesInv
<1> QED
  BY <1>1, <1>2, <1>4, <1>5, MoveKeeps

LEMMA HomesTakeCached ==
  ASSUME BaseInv, HomesInv, NEW n \in Native, TakeCached(n) PROVE HomesInv'
<1>1. Only(n) /\ pc[n] = "cached" /\ pc'[n] \in {"room", "link"} /\ Types
  BY TakeBase DEF BaseInv
<1>2. UNCHANGED <<heap, threads, gc_list, work_list>>
  BY DEF TakeCached
<1>3. CASE free_threads = <<>>
  <2>1. Goto(n, "room") /\ UNCHANGED free_threads
    BY <1>3 DEF TakeCached
  <2>2. \A m \in Native : (pc[m] = "link" <=> pc'[m] = "link")
                          /\ (pc[m] = "link" => rec'[m] = rec[m])
    BY <1>1, <2>1 DEF Only, Goto, Set, Types
  <2> QED
    BY <1>2, <2>1, <2>2, HomesQuiet
<1>4. CASE free_threads # <<>>
  <2> DEFINE s == Last(free_threads)
  <2>1. Construct(n, s) /\ free_threads' = Front(free_threads)
    BY <1>4 DEF TakeCached
  <2>2. pc'[n] = "link" /\ rec'[n] = s
    BY <1>1, <2>1 DEF Construct, Set, Types
  <2>3. free_threads \in Seq(Slot) /\ Once(free_threads)
    BY <1>1 DEF Types, HomesInv, NoTwice
  <2>4. /\ s \in Slot /\ s \in Range(free_threads)
        /\ Range(free_threads') = Range(free_threads) \ {s} /\ Once(free_threads')
    <3>1. /\ s \in Slot /\ Range(free_threads) = Range(Front(free_threads)) \cup {s}
          /\ s \notin Range(Front(free_threads)) /\ Once(Front(free_threads))
      BY <1>4, <2>3, FrontSeq, Zenon
    <3> QED
      BY <2>1, <3>1
  <2> HIDE DEF s
  <2>5. s \in Records(InCache) /\ Records(InCache)' = Records(InCache) \ {s}
    BY <2>4 DEF Records, InCache
  <2>6. OnePlace'
    BY <1>1, <1>2, <2>2, <2>4, <2>5, HomesConstruct
  <2>7. NoTwice'
    BY <1>2, <2>4 DEF HomesInv, NoTwice
  <2> QED
    BY <2>6, <2>7 DEF HomesInv
<1> QED
  BY <1>3, <1>4

LEMMA HomesTakeHeap ==
  ASSUME BaseInv, HomesInv, NEW n \in Native, TakeHeap(n) PROVE HomesInv'
<1>1. Only(n) /\ pc[n] = "heap" /\ pc'[n] \in {"ungrow", "link"} /\ Types
  BY TakeBase DEF BaseInv
<1>2. UNCHANGED <<threads, gc_list, free_threads, work_list>>
  BY DEF TakeHeap
<1>3. CASE heap = {}
  <2>1. Goto(n, "ungrow") /\ UNCHANGED heap
    BY <1>3 DEF TakeHeap
  <2>2. \A m \in Native : (pc[m] = "link" <=> pc'[m] = "link")
                          /\ (pc[m] = "link" => rec'[m] = rec[m])
    BY <1>1, <2>1 DEF Only, Goto, Set, Types
  <2> QED
    BY <1>2, <2>1, <2>2, HomesQuiet
<1>4. CASE heap # {}
  <2>1. PICK s \in heap : Construct(n, s) /\ heap' = heap \ {s}
    BY <1>4 DEF TakeHeap
  <2>2. s \in Slot /\ pc'[n] = "link" /\ rec'[n] = s
    BY <1>1, <2>1 DEF Construct, Set, Types
  <2>3. s \in Records(InHeap) /\ Records(InHeap)' = Records(InHeap) \ {s}
    BY <2>1 DEF Records, InHeap
  <2>4. OnePlace'
    BY <1>1, <1>2, <2>2, <2>3, HomesConstruct
  <2>5. NoTwice'
    BY <1>2 DEF HomesInv, NoTwice
  <2> QED
    BY <2>4, <2>5 DEF HomesInv
<1> QED
  BY <1>3, <1>4

LEMMA HomesLink ==
  ASSUME BaseInv, HomesInv, NEW n \in Native, Link(n) PROVE HomesInv'
<1>1. Only(n) /\ pc[n] = "link" /\ pc'[n] = "spawn"
  BY LinkBase
<1>2. threads' = threads \cup {rec[n]} /\ UNCHANGED <<heap, gc_list, free_threads, work_list>>
  BY DEF Link
<1>3. /\ rec[n] \in Records(InLink(n)) /\ Records(InLink(n))' = Records(InLink(n)) \ {rec[n]}
      /\ Records(InThreads)' = Records(InThreads) \cup {rec[n]}
  BY <1>1, <1>2 DEF Records, InLink, InThreads
<1>4. InLink(n) # InThreads
      /\ \A m \in Native : InLink(m) # InLink(n) =>
           (pc[m] = "link" <=> pc'[m] = "link") /\ (pc[m] = "link" => rec'[m] = rec[m])
  BY <1>1 DEF Only, InLink, InThreads
<1>5. \A q \in Places \ {InLink(n), InThreads} : Records(q)' = Records(q)
  BY <1>2, <1>4, RecordsStay
<1>6. OnePlace'
  <2>1. /\ {rec[n]} \subseteq Records(InLink(n)) /\ OnePlace
        /\ InLink(n) \in Places /\ InThreads \in Places
    BY <1>3, PlacesAre DEF HomesInv
  <2> QED
    BY <1>3, <1>4, <1>5, <2>1, MoveKeeps
<1>7. NoTwice'
  BY <1>2 DEF HomesInv, NoTwice
<1> QED
  BY <1>6, <1>7 DEF HomesInv

LEMMA HomesTcCollect ==
  ASSUME BaseInv, HomesInv, NEW n \in Native, TcCollect(n), rec[n] \in threads
  PROVE  HomesInv'
<1>1. Only(n) /\ pc[n] = "tc_lock" /\ pc'[n] = "tc_unlock"
  BY TcCollectBase
<1>2. \A m \in Native : (pc[m] = "link" <=> pc'[m] = "link")
                        /\ (pc[m] = "link" => rec'[m] = rec[m])
  BY <1>1 DEF Only
<1>3. UNCHANGED <<heap, free_threads, work_list>>
  BY DEF TcCollect
<1>4. CASE UNCHANGED <<threads, gc_list>>
  BY <1>2, <1>3, <1>4, HomesQuiet
<1>5. CASE threads' = threads \ {rec[n]} /\ gc_list' = Append(gc_list, rec[n])
  <2>1. rec[n] \in Slot /\ gc_list \in Seq(Slot) /\ Once(gc_list)
    BY DEF BaseInv, Types, HomesInv, NoTwice
  <2>2. Range(gc_list') = Range(gc_list) \cup {rec[n]}
    BY <1>5, <2>1, AppendSeq
  <2>3. InThreads # InGc /\ rec[n] \in Records(InThreads)
    BY DEF InThreads, InGc, Records
  <2>4. /\ Records(InThreads)' = Records(InThreads) \ {rec[n]}
        /\ Records(InGc)' = Records(InGc) \cup {rec[n]}
    BY <1>5, <2>2 DEF Records, InThreads, InGc
  <2>5. \A q \in Places \ {InThreads, InGc} : Records(q)' = Records(q)
    BY <1>2, <1>3, RecordsStay
  <2>6. OnePlace'
    <3>1. /\ {rec[n]} \subseteq Records(InThreads) /\ OnePlace
          /\ InGc \in Places /\ InThreads \in Places
      BY <2>3, PlacesAre DEF HomesInv
    <3> QED
      BY <2>3, <2>4, <2>5, <3>1, MoveKeeps DEF InThreads, InGc
  <2>7. rec[n] \notin Range(gc_list)
    <3>1. Records(InGc) = Range(gc_list) /\ InGc \in Places /\ InThreads \in Places /\ OnePlace
      BY PlacesAre, RecordsAre DEF HomesInv
    <3> QED
      BY <2>1, <2>3, <3>1, Alone
  <2>8. Once(gc_list')
    BY <1>5, <2>1, <2>7, AppendOnce
  <2>9. NoTwice'
    BY <1>3, <2>8 DEF HomesInv, NoTwice
  <2> QED
    BY <2>6, <2>9 DEF HomesInv
<1> QED
  BY <1>4, <1>5 DEF TcCollect

LEMMA HomesStep ==
  BaseInv /\ HomesInv /\ (\A n \in Native : pc[n] = "tc_lock" => rec[n] \in threads)
    /\ [Next]_vars => HomesInv'
<1> SUFFICES ASSUME BaseInv, HomesInv, \A n \in Native : pc[n] = "tc_lock" => rec[n] \in threads,
                    [Next]_vars
             PROVE  HomesInv'
  OBVIOUS
<1>1. ASSUME NEW n \in Native, Only(n), pc[n] # "link", pc'[n] # "link",
             UNCHANGED <<heap, threads, gc_list, free_threads, work_list>>
      PROVE  HomesInv'
  BY <1>1, HomesQuiet DEF Only
<1>2. CASE UNCHANGED vars
  BY <1>2, HomesQuiet DEF vars, listVars, nativeVars
<1>3. ASSUME NEW n \in Native,
             \/ Create(n)     \/ Shrink(n)      \/ Collected(n)  \/ Room(n)
             \/ Grow(n)       \/ Ungrow(n)      \/ SpawnFails(n) \/ Affinity(n)
      PROVE  HomesInv'
  <2>1. Only(n) /\ pc[n] # "link" /\ pc'[n] # "link"
    BY <1>3, CreateBase, ShrinkBase, CollectedBase, RoomBase, GrowBase, UngrowBase,
       SpawnFailsBase, AffinityBase
  <2>2. UNCHANGED <<heap, threads, gc_list, free_threads, work_list>>
    BY <1>3 DEF Create, Shrink, Collected, Room, Grow, Ungrow, SpawnFails, Affinity, listVars
  <2> QED
    BY <1>1, <2>1, <2>2
<1>4. ASSUME NEW n \in Native,
             \/ Exit(n)       \/ ExitThread(n)  \/ Terminate(n)  \/ Leave(n)
             \/ Call(n)       \/ FindThread(n)  \/ JoinClaim(n)  \/ JoinWake(n)
      PROVE  HomesInv'
  <2>1. Only(n) /\ pc[n] # "link" /\ pc'[n] # "link"
    BY <1>4, ExitBase, ExitThreadBase, TerminateBase, LeaveBase, CallBase, FindThreadBase,
       JoinClaimBase, JoinWakeBase
  <2>2. UNCHANGED <<heap, threads, gc_list, free_threads, work_list>>
    BY <1>4 DEF Exit, ExitThread, Terminate, Leave, Call, FindThread, JoinClaim, JoinWake,
       Found, listVars
  <2> QED
    BY <1>1, <2>1, <2>2
<1>5. ASSUME NEW n \in Native,
             \/ JoinRelease(n) \/ Detach(n)     \/ RefAdd(n)     \/ GetName(n)
             \/ RefDelete(n)   \/ TcList(n)     \/ TcUnlock(n)
      PROVE  HomesInv'
  <2>1. Only(n) /\ pc[n] # "link" /\ pc'[n] # "link"
    BY <1>5, JoinReleaseBase, DetachBase, RefAddBase, GetNameBase, RefDeleteBase, TcListBase,
       TcUnlockBase
  <2>2. UNCHANGED <<heap, threads, gc_list, free_threads, work_list>>
    BY <1>5 DEF JoinRelease, Detach, RefAdd, GetName, RefDelete, TcList, TcUnlock, Found, listVars
  <2> QED
    BY <1>1, <2>1, <2>2
<1>6. ASSUME NEW n \in Native, Spawn(n) PROVE HomesInv'
  <2>1. PICK m \in Native, label \in {"affinity", "run"} :
        /\ pc[n] = "spawn" /\ pc[m] = "none"
        /\ pc' = [[pc EXCEPT ![m] = "run"] EXCEPT ![n] = label]
        /\ rec' = IF label = "run" THEN [rec EXCEPT ![n] = NoSlot] ELSE rec
        /\ UNCHANGED <<heap, threads, gc_list, free_threads, work_list>>
    BY <1>6 DEF Spawn, Set, listVars
  <2>2. pc \in [Native -> Labels] /\ rec \in [Native -> Slot \cup {NoSlot}]
    BY DEF BaseInv, Types
  <2>3. \A k \in Native : (pc[k] = "link" <=> pc'[k] = "link")
                          /\ (pc[k] = "link" => rec'[k] = rec[k])
    BY <2>1, <2>2
  <2> QED
    BY <2>1, <2>3, HomesQuiet
<1>7. ASSUME NEW n \in Native,
             \/ Collect(n)    \/ Free(n)        \/ TakeCached(n) \/ TakeHeap(n)
             \/ StackFails(n) \/ Link(n)        \/ TcCollect(n)
      PROVE  HomesInv'
  <2>1. TcCollect(n) => rec[n] \in threads
    BY DEF TcCollect
  <2> QED
    BY <1>7, <2>1, HomesCollect, HomesFree, HomesTakeCached, HomesTakeHeap, HomesStackFails,
       HomesLink, HomesTcCollect
<1> QED
  BY <1>2, <1>3, <1>4, <1>5, <1>6, <1>7 DEF Next

-----------------------------------------------------------------------------
(* total_threads.                                                         *)

(* How many records there are *)

InBetween == {"heap", "ungrow", "shrink"}

LEMMA CountsFinite ==
  /\ IsFiniteSet(Slot \ heap) /\ Cardinality(Slot \ heap) \in Nat
  /\ IsFiniteSet(At(InBetween)) /\ Cardinality(At(InBetween)) \in Nat
<1>1. IsFiniteSet(Slot) /\ IsFiniteSet(Native)
  BY ThreadAssumption
<1>2. Slot \ heap \subseteq Slot /\ At(InBetween) \subseteq Native
  BY DEF At
<1>3. IsFiniteSet(Slot \ heap) /\ IsFiniteSet(At(InBetween))
  BY <1>1, <1>2, FS_Subset
<1> QED
  BY <1>3, FS_CardinalityType

(* How a step of native thread n alone changes who is in between.          *)
LEMMA BetweenStep ==
  ASSUME NEW n \in Native, Only(n)
  PROVE  /\ pc[n] \in InBetween <=> pc'[n] \in InBetween => At(InBetween)' = At(InBetween)
         /\ pc[n] \notin InBetween /\ pc'[n] \in InBetween =>
              /\ At(InBetween)' = At(InBetween) \cup {n}
              /\ Cardinality(At(InBetween)') = Cardinality(At(InBetween)) + 1
         /\ pc[n] \in InBetween /\ pc'[n] \notin InBetween =>
              /\ At(InBetween)' = At(InBetween) \ {n}
              /\ Cardinality(At(InBetween)') = Cardinality(At(InBetween)) - 1
<1>1. \A m \in Native \ {n} : pc'[m] = pc[m]
  BY DEF Only
<1>2. CASE pc[n] \in InBetween <=> pc'[n] \in InBetween
  <2>1. At(InBetween)' = At(InBetween)
    BY <1>1, <1>2 DEF At
  <2> QED
    BY <1>2, <2>1
<1>3. CASE pc[n] \notin InBetween /\ pc'[n] \in InBetween
  <2>1. At(InBetween)' = At(InBetween) \cup {n} /\ n \notin At(InBetween)
    BY <1>1, <1>3 DEF At
  <2> QED
    BY <1>3, <2>1, CountsFinite, FS_AddElement
<1>4. CASE pc[n] \in InBetween /\ pc'[n] \notin InBetween
  <2>1. At(InBetween)' = At(InBetween) \ {n} /\ n \in At(InBetween)
    BY <1>1, <1>4 DEF At
  <2> QED
    BY <1>4, <2>1, CountsFinite, FS_RemoveElement
<1> QED
  BY <1>2, <1>3, <1>4

(* A record that was in use goes back to the heap, or one leaves it.       *)
LEMMA OutStep ==
  ASSUME NEW s \in Slot
  PROVE  /\ s \notin heap /\ heap' = heap \cup {s} =>
              Cardinality(Slot \ heap') = Cardinality(Slot \ heap) - 1
         /\ s \in heap /\ heap' = heap \ {s} =>
              Cardinality(Slot \ heap') = Cardinality(Slot \ heap) + 1
<1>1. CASE s \notin heap /\ heap' = heap \cup {s}
  <2>1. Slot \ heap' = (Slot \ heap) \ {s} /\ s \in Slot \ heap
    BY <1>1
  <2> QED
    BY <1>1, <2>1, CountsFinite, FS_RemoveElement
<1>2. CASE s \in heap /\ heap' = heap \ {s}
  <2>1. Slot \ heap' = (Slot \ heap) \cup {s} /\ s \notin Slot \ heap
    BY <1>2
  <2> QED
    BY <1>2, <2>1, CountsFinite, FS_AddElement
<1> QED
  BY <1>1, <1>2

(* The equation, step by step, from the changes of its terms.              *)
LEMMA TotalKept ==
  ASSUME Total, NEW d \in Int, total_threads' = total_threads + d,
         NEW out \in Int, Cardinality(Slot \ heap') = Cardinality(Slot \ heap) + out,
         NEW between \in Int,
         Cardinality(At(InBetween)') = Cardinality(At(InBetween)) + between,
         d = out + between
  PROVE  Total'
<1>1. PICK o \in Nat, b \in Nat : o = Cardinality(Slot \ heap) /\ b = Cardinality(At(InBetween))
  BY CountsFinite
<1>2. total_threads' = (o + out) + (b + between)
  BY <1>1 DEF Total, InBetween
<1> QED
  BY <1>1, <1>2 DEF Total, InBetween

LEMMA TotalInit == Init => Total
<1> SUFFICES ASSUME Init PROVE Total
  OBVIOUS
<1>1. PICK main \in Native, s \in Slot :
      /\ heap = Slot \ {s} /\ total_threads = 1
      /\ pc = [n \in Native |-> IF n = main THEN "run" ELSE "none"]
  BY DEF Init
<1>2. Slot \ heap = {s} /\ At(InBetween) = {}
  BY <1>1 DEF At, InBetween
<1>3. Cardinality({s}) = 1 /\ Cardinality({}) = 0
  BY FS_Singleton, FS_EmptySet
<1> QED
  BY <1>1, <1>2, <1>3 DEF Total, InBetween

LEMMA TotalQuiet ==
  ASSUME Total, UNCHANGED <<heap, total_threads>>,
         \A n \in Native : pc[n] \in InBetween <=> pc'[n] \in InBetween
  PROVE  Total'
<1>1. At(InBetween)' = At(InBetween)
  BY DEF At
<1> QED
  BY <1>1 DEF Total, InBetween

(* The steps that count, and the ones that move a record across the heap.  *)
LEMMA TotalCounts ==
  ASSUME BaseInv, Total, NEW n \in Native, Shrink(n) \/ Grow(n) \/ Ungrow(n)
  PROVE  Total'
<1>1. UNCHANGED heap /\ total_threads \in Int
  BY DEF Shrink, Grow, Ungrow, BaseInv, Types
<1>2. CASE Shrink(n) \/ Ungrow(n)
  <2>1. Only(n) /\ pc[n] \in InBetween /\ pc'[n] \notin InBetween
    BY <1>2, ShrinkBase, UngrowBase DEF InBetween
  <2>2. total_threads' = total_threads + (-1)
    BY <1>1, <1>2 DEF Shrink, Ungrow
  <2>3. Cardinality(At(InBetween)') = Cardinality(At(InBetween)) + (-1)
    BY <2>1, BetweenStep, CountsFinite
  <2>4. Cardinality(Slot \ heap') = Cardinality(Slot \ heap) + 0
    BY <1>1, CountsFinite
  <2> QED
    BY <2>2, <2>3, <2>4, TotalKept
<1>3. CASE Grow(n)
  <2>1. Only(n) /\ pc[n] \notin InBetween /\ pc'[n] \in InBetween
    BY <1>3, GrowBase DEF InBetween
  <2>2. total_threads' = total_threads + 1
    BY <1>3 DEF Grow
  <2>3. Cardinality(At(InBetween)') = Cardinality(At(InBetween)) + 1
    BY <2>1, BetweenStep
  <2>4. Cardinality(Slot \ heap') = Cardinality(Slot \ heap) + 0
    BY <1>1, CountsFinite
  <2> QED
    BY <2>2, <2>3, <2>4, TotalKept
<1> QED
  BY <1>2, <1>3

LEMMA TotalTake ==
  ASSUME BaseInv, Total, NEW n \in Native, TakeCached(n) \/ TakeHeap(n)
  PROVE  Total'
<1>1. BaseInv' /\ Only(n) /\ Types /\ UNCHANGED total_threads /\ total_threads \in Int
  BY TakeBase DEF BaseInv, Types, TakeCached, TakeHeap
<1>2. CASE TakeCached(n)
  <2>1. UNCHANGED heap /\ pc[n] \notin InBetween /\ pc'[n] \notin InBetween
    BY <1>2, TakeBase DEF InBetween, TakeCached
  <2> QED
    BY <1>1, <2>1, TotalQuiet DEF Only
<1>3. CASE TakeHeap(n) /\ heap = {}
  <2>1. UNCHANGED heap /\ pc[n] = "heap" /\ Goto(n, "ungrow")
    BY <1>3 DEF TakeHeap
  <2>2. pc'[n] = "ungrow"
    BY <1>1, <2>1 DEF Goto, Set, Types
  <2> QED
    BY <1>1, <2>1, <2>2, TotalQuiet DEF Only, InBetween
<1>4. CASE TakeHeap(n) /\ heap # {}
  <2>1. PICK s \in heap : Construct(n, s) /\ heap' = heap \ {s}
    BY <1>4 DEF TakeHeap
  <2>2. s \in Slot /\ pc[n] = "heap" /\ pc'[n] = "link"
    BY <1>1, <1>4, <2>1 DEF Construct, Set, Types, TakeHeap
  <2>3. Cardinality(Slot \ heap') = Cardinality(Slot \ heap) + 1
    BY <2>1, <2>2, OutStep
  <2>4. Cardinality(At(InBetween)') = Cardinality(At(InBetween)) + (-1)
    BY <1>1, <2>2, BetweenStep, CountsFinite DEF InBetween
  <2>5. total_threads' = total_threads + 0
    BY <1>1
  <2> QED
    BY <2>3, <2>4, <2>5, TotalKept
<1> QED
  BY <1>2, <1>3, <1>4

(* A record s, in use, is recycled, and counted down later if need be.     *)
LEMMA TotalRecycle ==
  ASSUME BaseInv, Total, NEW n \in Native, NEW s \in Slot, Recycle(s), s \notin heap,
         Only(n), UNCHANGED total_threads, pc[n] \notin InBetween,
         pc'[n] \in InBetween <=> ~CacheHasRoom
  PROVE  Total'
<1>1. total_threads \in Int
  BY DEF BaseInv, Types
<1>2. CASE CacheHasRoom
  <2>1. UNCHANGED heap
    BY <1>2 DEF Recycle
  <2> QED
    BY <1>2, <2>1, TotalQuiet DEF Only
<1>3. CASE ~CacheHasRoom
  <2>1. heap' = heap \cup {s}
    BY <1>3 DEF Recycle
  <2>2. PICK d \in Int, out \in Int, between \in Int :
          d = 0 /\ out = -1 /\ between = 1 /\ d = out + between
    OBVIOUS
  <2>3. Cardinality(Slot \ heap') = Cardinality(Slot \ heap) + out
    BY <2>1, <2>2, OutStep, CountsFinite
  <2>4. Cardinality(At(InBetween)') = Cardinality(At(InBetween)) + between
    BY <1>3, <2>2, BetweenStep
  <2>5. total_threads' = total_threads + d
    BY <1>1, <2>2
  <2>6. d = out + between
    BY <2>2
  <2> QED
    BY <2>3, <2>4, <2>5, <2>6, TotalKept
<1> QED
  BY <1>2, <1>3

LEMMA TotalFree ==
  ASSUME BaseInv, HomesInv, Total, NEW n \in Native, Free(n) \/ StackFails(n)
  PROVE  Total'
<1>1. UNCHANGED total_threads /\ Types /\ LocalOK(n) /\ OnePlace
  BY DEF Free, StackFails, BaseInv, HomesInv
<1>2. CASE Free(n)
  <2>1. Only(n) /\ pc[n] = "free"
    BY <1>2, FreeBase
  <2>2. /\ work_list[n] # <<>> /\ Recycle(Head(work_list[n]))
        /\ pc' = Set(pc, n, IF CacheHasRoom THEN "free" ELSE "shrink")
    BY <1>2 DEF Free
  <2>3. pc'[n] \in InBetween <=> ~CacheHasRoom
    BY <1>1, <2>2 DEF Set, InBetween, Types
  <2>4. Head(work_list[n]) \in Slot /\ Head(work_list[n]) \in Range(work_list[n])
    BY <1>1, <2>2, TailSeq DEF Types
  <2>5. Head(work_list[n]) \notin heap
    <3>1. InWork(n) # InHeap /\ InWork(n) \in Places /\ InHeap \in Places
      BY PlacesAre DEF InWork, InHeap
    <3> QED
      BY <1>1, <2>4, <3>1, Alone, RecordsAre
  <2> QED
    BY <1>1, <2>1, <2>2, <2>3, <2>4, <2>5, TotalRecycle DEF InBetween
<1>3. CASE StackFails(n)
  <2>1. Only(n) /\ pc[n] = "link" /\ rec[n] \in Slot
    BY <1>1, <1>3, StackFailsBase DEF LocalOK, Types, Without
  <2>2. Recycle(rec[n])
    BY <1>3 DEF StackFails
  <2>3. pc'[n] \in InBetween <=> ~CacheHasRoom
    BY <1>1, <1>3 DEF StackFails, Return, Set, InBetween, Types
  <2>4. rec[n] \notin heap
    <3>1. InLink(n) # InHeap /\ InLink(n) \in Places /\ InHeap \in Places
      BY PlacesAre DEF InLink, InHeap
    <3>2. rec[n] \in Records(InLink(n))
      BY <2>1, RecordsAre
    <3> QED
      BY <1>1, <2>1, <3>1, <3>2, Alone, RecordsAre
  <2> QED
    BY <1>1, <2>1, <2>2, <2>3, <2>4, TotalRecycle DEF InBetween
<1> QED
  BY <1>2, <1>3

LEMMA TotalStep == BaseInv /\ HomesInv /\ Total /\ [Next]_vars => Total'
<1> SUFFICES ASSUME BaseInv, HomesInv, Total, [Next]_vars PROVE Total'
  OBVIOUS
<1>1. ASSUME NEW n \in Native, Only(n), pc[n] \notin InBetween, pc'[n] \notin InBetween,
             UNCHANGED <<heap, total_threads>>
      PROVE  Total'
  BY <1>1, TotalQuiet DEF Only
<1>2. CASE UNCHANGED vars
  BY <1>2, TotalQuiet DEF vars, listVars, nativeVars
<1>3. ASSUME NEW n \in Native,
             \/ Create(n)     \/ Collect(n)     \/ Collected(n)  \/ Room(n)
             \/ Link(n)       \/ SpawnFails(n)  \/ Affinity(n)
      PROVE  Total'
  <2>1. Only(n) /\ pc[n] \notin InBetween /\ pc'[n] \notin InBetween
    BY <1>3, CreateBase, CollectBase, CollectedBase, RoomBase, LinkBase,
       SpawnFailsBase, AffinityBase DEF InBetween
  <2>2. UNCHANGED <<heap, total_threads>>
    BY <1>3 DEF Create, Collect, Collected, Room, Link, SpawnFails, Affinity, listVars
  <2> QED
    BY <1>1, <2>1, <2>2
<1>4. ASSUME NEW n \in Native,
             \/ Exit(n)       \/ ExitThread(n)  \/ Terminate(n)  \/ Leave(n)
             \/ Call(n)       \/ FindThread(n)  \/ JoinClaim(n)  \/ JoinWake(n)
      PROVE  Total'
  <2>1. Only(n) /\ pc[n] \notin InBetween /\ pc'[n] \notin InBetween
    BY <1>4, ExitBase, ExitThreadBase, TerminateBase, LeaveBase, CallBase, FindThreadBase,
       JoinClaimBase, JoinWakeBase DEF InBetween
  <2>2. UNCHANGED <<heap, total_threads>>
    BY <1>4 DEF Exit, ExitThread, Terminate, Leave, Call, FindThread, JoinClaim, JoinWake,
       Found, listVars
  <2> QED
    BY <1>1, <2>1, <2>2
<1>5. ASSUME NEW n \in Native,
             \/ JoinRelease(n) \/ Detach(n)     \/ RefAdd(n)     \/ GetName(n)
             \/ RefDelete(n)   \/ TcList(n)     \/ TcCollect(n)  \/ TcUnlock(n)
      PROVE  Total'
  <2>1. Only(n) /\ pc[n] \notin InBetween /\ pc'[n] \notin InBetween
    BY <1>5, JoinReleaseBase, DetachBase, RefAddBase, GetNameBase, RefDeleteBase, TcListBase,
       TcCollectBase, TcUnlockBase DEF InBetween
  <2>2. UNCHANGED <<heap, total_threads>>
    BY <1>5 DEF JoinRelease, Detach, RefAdd, GetName, RefDelete, TcList, TcCollect, TcUnlock,
       Found, listVars
  <2> QED
    BY <1>1, <2>1, <2>2
<1>6. ASSUME NEW n \in Native, Spawn(n) PROVE Total'
  <2>1. PICK m \in Native, label \in {"affinity", "run"} :
        /\ pc[n] = "spawn" /\ pc[m] = "none"
        /\ pc' = [[pc EXCEPT ![m] = "run"] EXCEPT ![n] = label]
        /\ UNCHANGED <<heap, total_threads>>
    BY <1>6 DEF Spawn, Set, listVars
  <2>2. pc \in [Native -> Labels]
    BY DEF BaseInv, Types
  <2>3. \A k \in Native : pc[k] \in InBetween <=> pc'[k] \in InBetween
    BY <2>1, <2>2 DEF InBetween
  <2> QED
    BY <2>1, <2>3, TotalQuiet
<1>7. ASSUME NEW n \in Native,
             \/ Free(n)       \/ Shrink(n)      \/ TakeCached(n) \/ Grow(n)
             \/ TakeHeap(n)   \/ Ungrow(n)      \/ StackFails(n)
      PROVE  Total'
  BY <1>7, TotalCounts, TotalTake, TotalFree
<1> QED
  BY <1>2, <1>3, <1>4, <1>5, <1>6, <1>7 DEF Next

-----------------------------------------------------------------------------
(* Who uses a record.                                                     *)

UseInv ==
  /\ \A n \in Native : OwnOK(n) /\ RecOK(n)
  /\ \A n, m \in Native : Apart(n, m)
  /\ \A s \in Slot : RecordOK(s)

(* A record in the heap, in the cache or in the making is not linked and   *)
(* nobody runs on it.                                                      *)
LEMMA Unused ==
  ASSUME BaseInv, HomesInv, NEW s \in Slot,
         \/ s \in heap \/ s \in Range(free_threads)
         \/ \E n \in Native : pc[n] = "link" /\ rec[n] = s
  PROVE  s \notin threads /\ s \notin Range(gc_list)
<1>1. PICK p \in Places : s \in Records(p) /\ p # InThreads /\ p # InGc
  <2>1. CASE s \in heap
    <3>1. InHeap \in Places /\ InHeap # InThreads /\ InHeap # InGc
      BY PlacesAre DEF InHeap, InThreads, InGc
    <3> QED
      BY <2>1, <3>1, RecordsAre
  <2>2. CASE s \in Range(free_threads)
    <3>1. InCache \in Places /\ InCache # InThreads /\ InCache # InGc
      BY PlacesAre DEF InCache, InThreads, InGc
    <3> QED
      BY <2>2, <3>1, RecordsAre
  <2>3. ASSUME NEW n \in Native, pc[n] = "link", rec[n] = s
        PROVE  \E p \in Places : s \in Records(p) /\ p # InThreads /\ p # InGc
    <3>1. InLink(n) \in Places /\ InLink(n) # InThreads /\ InLink(n) # InGc
      BY PlacesAre DEF InLink, InThreads, InGc
    <3> QED
      BY <2>3, <3>1, RecordsAre
  <2> QED
    BY <2>1, <2>2, <2>3
<1>2. InThreads \in Places /\ InGc \in Places /\ OnePlace
  BY PlacesAre DEF HomesInv
<1>3. s \notin Records(InThreads) /\ s \notin Records(InGc)
  BY <1>1, <1>2, Alone
<1> QED
  BY <1>3, RecordsAre

LEMMA ThreadsNotGc ==
  ASSUME HomesInv, NEW s \in Slot, s \in threads PROVE s \notin Range(gc_list)
<1>1. InThreads \in Places /\ InGc \in Places /\ InThreads # InGc /\ OnePlace
  BY PlacesAre DEF HomesInv, InThreads, InGc
<1> QED
  BY <1>1, Alone, RecordsAre

(* A running thread's record, before and after it has left it.             *)
LEMMA OwnPlace ==
  ASSUME BaseInv, UseInv, NEW n \in Native, Alive(n)
  PROVE  curthread[n] \in Slot /\ curthread[n] \in threads \cup Range(gc_list)
<1>1. Types /\ LocalOK(n) /\ OwnOK(n)
  BY DEF BaseInv, UseInv
<1>2. curthread[n] \in Slot
  BY <1>1 DEF Types, LocalOK, Alive
<1> QED
  BY <1>1, <1>2 DEF OwnOK

LEMMA HoldersFinite ==
  \A s : IsFiniteSet(Holders(s)) /\ Cardinality(Holders(s)) \in Nat
<1> SUFFICES ASSUME NEW s PROVE IsFiniteSet(Holders(s)) /\ Cardinality(Holders(s)) \in Nat
  OBVIOUS
<1>1. Holders(s) \subseteq Native /\ IsFiniteSet(Native)
  BY ThreadAssumption DEF Holders, At
<1>2. IsFiniteSet(Holders(s))
  BY <1>1, FS_Subset
<1> QED
  BY <1>2, FS_CardinalityType

(* Who holds a reference after a step of native thread n alone.            *)
Holds(n, s) == pc[n] \in Counted /\ rec[n] = s

LEMMA HoldersStep ==
  ASSUME NEW n \in Native, Only(n), NEW s
  PROVE  /\ (Holds(n, s) <=> Holds(n, s)') => Holders(s)' = Holders(s)
         /\ ~Holds(n, s) /\ Holds(n, s)' =>
              Cardinality(Holders(s)') = Cardinality(Holders(s)) + 1
         /\ Holds(n, s) /\ ~Holds(n, s)' =>
              Cardinality(Holders(s)') = Cardinality(Holders(s)) - 1
<1>1. \A m \in Native \ {n} : Holds(m, s)' <=> Holds(m, s)
  BY DEF Only, Holds
<1>2. Holders(s) = {m \in Native : Holds(m, s)} /\ Holders(s)' = {m \in Native : Holds(m, s)'}
  BY DEF Holders, At, Holds
<1>3. CASE Holds(n, s) <=> Holds(n, s)'
  <2>1. Holders(s)' = Holders(s)
    BY <1>1, <1>2, <1>3
  <2> QED
    BY <1>3, <2>1
<1>4. CASE ~Holds(n, s) /\ Holds(n, s)'
  <2>1. Holders(s)' = Holders(s) \cup {n} /\ n \notin Holders(s)
    BY <1>1, <1>2, <1>4
  <2> QED
    BY <1>4, <2>1, HoldersFinite, FS_AddElement
<1>5. CASE Holds(n, s) /\ ~Holds(n, s)'
  <2>1. Holders(s)' = Holders(s) \ {n} /\ n \in Holders(s)
    BY <1>1, <1>2, <1>5
  <2> QED
    BY <1>5, <2>1, HoldersFinite, FS_RemoveElement
<1> QED
  BY <1>3, <1>4, <1>5

(* A step that leaves all records alone.                                   *)
LEMMA UseLocal ==
  ASSUME UseInv, NEW n \in Native, Only(n),
         UNCHANGED <<tid, refcount, state, joiner, detached, ret, threads>>,
         Range(gc_list') \subseteq Range(gc_list),
         \A s \in Range(gc_list) \ Range(gc_list') : tid[s] = "terminated",
         Alive(n)' => Alive(n) /\ curthread'[n] = curthread[n],
         Exited(n)' <=> Exited(n), pc'[n] = "exit" => pc[n] = "exit",
         pc'[n] # "spawn", RecOK(n)',
         \A s \in Slot : Holds(n, s)' <=> Holds(n, s)
  PROVE  UseInv'
<1>1. ASSUME NEW m \in Native PROVE OwnOK(m)'
  <2>1. OwnOK(m)
    BY DEF UseInv
  <2>2. Alive(m)' => Alive(m) /\ curthread'[m] = curthread[m]
    BY DEF Only, Alive
  <2>3. (Exited(m)' <=> Exited(m)) /\ (pc'[m] = "exit" => pc[m] = "exit")
    BY DEF Only, Exited
  <2>4. Exited(m) => Alive(m)
    BY DEF Exited, Alive, Trying
  <2>5. (pc'[m] = "exit" \/ Exited(m)') => Alive(m)'
    BY DEF Exited, Alive, Trying
  <2> QED
    BY <2>1, <2>2, <2>3, <2>4, <2>5 DEF OwnOK
<1>2. ASSUME NEW m \in Native PROVE RecOK(m)'
  <2>1. CASE m = n
    BY <2>1
  <2>2. CASE m # n
    <3>1. RecOK(m) /\ pc'[m] = pc[m] /\ rec'[m] = rec[m] /\ curthread'[m] = curthread[m]
      BY <2>2 DEF UseInv, Only
    <3> QED
      BY <3>1 DEF RecOK
  <2> QED
    BY <2>1, <2>2
<1>3. ASSUME NEW k \in Native, NEW m \in Native PROVE Apart(k, m)'
  <2>1. Apart(k, m)
    BY DEF UseInv
  <2>2. \A i \in {k, m} : /\ Alive(i)' => Alive(i) /\ curthread'[i] = curthread[i]
                          /\ pc'[i] = "spawn" => pc[i] = "spawn" /\ rec'[i] = rec[i]
    BY DEF Only, Alive
  <2> QED
    BY <2>1, <2>2 DEF Apart
<1>4. ASSUME NEW s \in Slot PROVE RecordOK(s)'
  <2>1. RecordOK(s)
    BY DEF UseInv
  <2>2. Holders(s)' = Holders(s)
    BY HoldersStep
  <2> QED
    BY <2>1, <2>2 DEF RecordOK, ShouldCollect
<1> QED
  BY <1>1, <1>2, <1>3, <1>4 DEF UseInv

Busy == Linked \cup Trying \cup {"link", "exit", "terminate", "leave", "none"}

LEMMA UseQuiet ==
  ASSUME UseInv, NEW n \in Native, Only(n),
         UNCHANGED <<tid, refcount, state, joiner, detached, ret, threads, gc_list, curthread>>,
         pc[n] \notin Counted \cup Trying \cup {"terminate", "leave", "none"}, pc'[n] \notin Busy
  PROVE  UseInv'
<1>1. (Alive(n)' => Alive(n)) /\ ~Exited(n) /\ ~Exited(n)'
  BY DEF Alive, Exited, Trying, Busy
<1>2. RecOK(n)'
  BY DEF RecOK, Busy, Linked
<1>3. \A s \in Slot : Holds(n, s)' <=> Holds(n, s)
  BY DEF Holds, Counted, Busy, Linked
<1>4. pc'[n] # "exit" /\ pc'[n] # "spawn"
  BY DEF Busy, Linked
<1> QED
  BY <1>1, <1>2, <1>3, <1>4, UseLocal

LEMMA UseCreation ==
  ASSUME BaseInv, UseInv, NEW n \in Native,
         \/ Create(n)     \/ Free(n)        \/ Shrink(n)      \/ Collected(n) \/ Room(n)
         \/ Grow(n)       \/ Ungrow(n)      \/ StackFails(n)  \/ SpawnFails(n)
         \/ Affinity(n)   \/ Call(n)
  PROVE  UseInv'
<1>1. /\ Only(n) /\ pc[n] \notin Counted \cup Trying \cup {"terminate", "leave", "none"}
      /\ pc'[n] \notin Busy
  BY CreateBase, FreeBase, ShrinkBase, CollectedBase, RoomBase, GrowBase, UngrowBase,
     StackFailsBase, SpawnFailsBase, AffinityBase, CallBase
     DEF Counted, Trying, Busy, Linked
<1>2. UNCHANGED <<tid, refcount, state, joiner, detached, ret, threads, gc_list, curthread>>
  BY DEF Create, Free, Shrink, Collected, Room, Grow, Ungrow, StackFails, SpawnFails,
     Affinity, Call, recordVars, listVars
<1> QED
  BY <1>1, <1>2, UseQuiet

LEMMA UseCollect ==
  ASSUME BaseInv, UseInv, NEW n \in Native, Collect(n) PROVE UseInv'
<1>1. Only(n) /\ pc[n] = "collect" /\ pc'[n] = "free" /\ rec'[n] = rec[n]
  BY CollectBase
<1>2. /\ UNCHANGED <<tid, refcount, state, joiner, detached, ret, threads, curthread>>
      /\ gc_list' = Filtered(gc_list, Slot \ {s \in Slot : tid[s] = "terminated"})
  BY DEF Collect, recordVars
<1>3. gc_list \in Seq(Slot)
  BY DEF BaseInv, Types
<1>4. Range(gc_list') = Range(gc_list) \cap (Slot \ {s \in Slot : tid[s] = "terminated"})
  BY <1>2, <1>3, FilteredSeq, Zenon
<1>5. /\ Range(gc_list') \subseteq Range(gc_list)
      /\ \A s \in Range(gc_list) \ Range(gc_list') : tid[s] = "terminated"
  <2>1. Range(gc_list) \subseteq Slot
    BY <1>3 DEF Range
  <2> QED
    BY <2>1, <1>4
<1>6. (Alive(n)' => Alive(n)) /\ ~Exited(n) /\ ~Exited(n)'
  BY <1>1 DEF Alive, Exited, Trying
<1>7. RecOK(n)' /\ \A s \in Slot : Holds(n, s)' <=> Holds(n, s)
  BY <1>1 DEF RecOK, Linked, Holds, Counted
<1> QED
  BY <1>1, <1>2, <1>5, <1>6, <1>7, UseLocal

LEMMA UseFind ==
  ASSUME BaseInv, UseInv, NEW n \in Native, FindThread(n) PROVE UseInv'
<1>1. Only(n) /\ pc[n] = "find" /\ pc'[n] \in {"run", "found"} /\ (pc'[n] # "run" => rec'[n] = rec[n])
  BY FindThreadBase
<1>2. UNCHANGED <<tid, refcount, state, joiner, detached, ret, threads, gc_list, curthread>>
  BY DEF FindThread, recordVars
<1>3. pc'[n] = "found" => rec[n] \in threads
  BY <1>1 DEF FindThread, Return, Set, BaseInv, Types
<1>4. (Alive(n)' => Alive(n)) /\ ~Exited(n) /\ ~Exited(n)'
  BY <1>1 DEF Alive, Exited, Trying
<1>5. RecOK(n)' /\ \A s \in Slot : Holds(n, s)' <=> Holds(n, s)
  BY <1>1, <1>2, <1>3 DEF RecOK, Linked, Holds, Counted
<1> QED
  BY <1>1, <1>2, <1>4, <1>5, UseLocal

(* A join that wakes finds the value of the thread that ended.             *)
LEMMA UseJoinWake ==
  ASSUME BaseInv, UseInv, NEW n \in Native, JoinWake(n) PROVE UseInv'
<1>1. Only(n) /\ pc[n] = "wait" /\ pc'[n] = "joined" /\ rec'[n] = rec[n]
  BY JoinWakeBase
<1>2. /\ UNCHANGED <<tid, refcount, state, joiner, detached, ret, threads, gc_list, curthread>>
      /\ tid[rec[n]] = "terminated"
  BY DEF JoinWake, recordVars, listVars
<1>3. RecOK(n) /\ rec[n] \in threads /\ rec[n] \in Slot
  BY <1>1 DEF UseInv, RecOK, Linked, BaseInv, Types
<1>4. ret[rec[n]] = "saved"
  BY <1>2, <1>3 DEF UseInv, RecordOK
<1>5. (Alive(n)' => Alive(n)) /\ ~Exited(n) /\ ~Exited(n)'
  BY <1>1 DEF Alive, Exited, Trying
<1>6. RecOK(n)' /\ \A s \in Slot : Holds(n, s)' <=> Holds(n, s)
  BY <1>1, <1>2, <1>3, <1>4 DEF RecOK, Linked, Holds, Counted
<1> QED
  BY <1>1, <1>2, <1>5, <1>6, UseLocal

LEMMA UseHeld ==
  ASSUME BaseInv, UseInv, NEW n \in Native, GetName(n) \/ TcList(n) PROVE UseInv'
<1>1. /\ Only(n) /\ rec'[n] = rec[n] /\ {pc[n], pc'[n]} \subseteq Counted /\ pc'[n] \notin {"spawn", "exit"}
      /\ Alive(n) /\ pc'[n] \notin {"wait", "joined", "link"}
  BY GetNameBase, TcListBase DEF Counted, Alive
<1>2. UNCHANGED <<tid, refcount, state, joiner, detached, ret, threads, gc_list, curthread>>
  BY DEF GetName, TcList, recordVars, listVars
<1>3. Exited(n)' <=> Exited(n)
  <2>1. GetName(n) => pc[n] = "named" /\ pc'[n] = "unref"
    BY GetNameBase
  <2>2. TcList(n) => pc[n] = "tc_list" /\ pc'[n] = "tc_lock" /\ after' = after
    BY TcListBase DEF TcList
  <2> QED
    BY <2>1, <2>2 DEF Exited, Trying
<1>4. RecOK(n)
  BY DEF UseInv
<1>5. RecOK(n)' /\ \A s \in Slot : Holds(n, s)' <=> Holds(n, s)
  BY <1>1, <1>2, <1>4 DEF RecOK, Linked, Holds, Counted
<1> QED
  BY <1>1, <1>2, <1>3, <1>5, UseLocal

LEMMA UseTcUnlock ==
  ASSUME BaseInv, UseInv, NEW n \in Native, TcUnlock(n) PROVE UseInv'
<1>1. Only(n) /\ pc[n] = "tc_unlock" /\ pc'[n] \in {"run", "terminate"}
  BY TcUnlockBase
<1>2. /\ UNCHANGED <<tid, refcount, state, joiner, detached, ret, threads, gc_list, curthread>>
      /\ after' = Set(after, n, "run")
      /\ IF after[n] = "run" THEN Return(n) ELSE Goto(n, after[n])
  BY DEF TcUnlock, listVars
<1>3. Types /\ LocalOK(n)
  BY DEF BaseInv
<1>4. pc'[n] = after[n]
  BY <1>2, <1>3 DEF Return, Goto, Set, Types
<1>5. (Exited(n)' <=> Exited(n)) /\ (Alive(n)' => Alive(n))
  BY <1>1, <1>4 DEF Exited, Trying, Alive
<1>6. RecOK(n)' /\ \A s \in Slot : Holds(n, s)' <=> Holds(n, s)
  BY <1>1 DEF RecOK, Linked, Holds, Counted
<1> QED
  BY <1>1, <1>2, <1>5, <1>6, UseLocal

LEMMA UseLeave ==
  ASSUME BaseInv, UseInv, NEW n \in Native, Leave(n) PROVE UseInv'
<1>1. Only(n) /\ pc[n] = "leave" /\ pc'[n] = "none"
  BY LeaveBase
<1>2. UNCHANGED <<tid, refcount, state, joiner, detached, ret, threads, gc_list>>
  BY DEF Leave, recordVars, listVars
<1>3. ~Exited(n)' /\ ~Alive(n)' /\ ~Exited(n)
  BY <1>1 DEF Exited, Trying, Alive
<1>4. RecOK(n)' /\ \A s \in Slot : Holds(n, s)' <=> Holds(n, s)
  BY <1>1 DEF RecOK, Linked, Holds, Counted
<1> QED
  BY <1>1, <1>2, <1>3, <1>4, UseLocal

(* A step that leaves what is known of record r alone.                     *)
Same(r) ==
  /\ tid'[r] = tid[r] /\ refcount'[r] = refcount[r] /\ state'[r] = state[r]
  /\ joiner'[r] = joiner[r] /\ detached'[r] = detached[r] /\ ret'[r] = ret[r]
  /\ r \in threads' <=> r \in threads
  /\ r \in Range(gc_list)' <=> r \in Range(gc_list)

LEMMA OwnStays ==
  ASSUME BaseInv, UseInv, NEW n \in Native, Alive(n)', Alive(n), curthread'[n] = curthread[n],
         Same(curthread[n]), Exited(n)' <=> Exited(n), pc'[n] = "exit" => pc[n] = "exit"
  PROVE  OwnOK(n)'
<1>1. OwnOK(n)
  BY DEF UseInv
<1> QED
  BY <1>1 DEF OwnOK, Same

(* A step of n that is about record s alone.                               *)
LEMMA UseRecord ==
  ASSUME BaseInv, UseInv, NEW n \in Native, Only(n), NEW s \in Slot,
         \A r \in Slot \ {s} : Same(r) /\ (Holds(n, r)' <=> Holds(n, r)),
         OwnOK(n)', RecOK(n)', RecordOK(s)',
         \A m \in Native \ {n} : Alive(m) /\ curthread[m] = s => OwnOK(m)',
         \A m \in Native \ {n} : rec[m] = s => RecOK(m)',
         Alive(n)' => Alive(n) /\ curthread'[n] = curthread[n],
         pc'[n] # "spawn" \/ \A m \in Native : Apart(n, m)' /\ Apart(m, n)'
  PROVE  UseInv'
<1>1. ASSUME NEW m \in Native PROVE OwnOK(m)'
  <2>1. CASE m = n
    BY <2>1
  <2>2. CASE m # n /\ ~Alive(m)
    <3>1. ~Alive(m)' /\ ~(pc[m] = "exit" \/ Exited(m))'
      <4>1. pc'[m] = pc[m] /\ after'[m] = after[m]
        BY <2>2 DEF Only
      <4> QED
        BY <2>2, <4>1 DEF Alive, Exited, Trying
    <3> QED
      BY <3>1 DEF OwnOK
  <2>3. CASE m # n /\ Alive(m) /\ curthread[m] = s
    BY <2>3
  <2>4. CASE m # n /\ Alive(m) /\ curthread[m] # s
    <3>1. curthread[m] \in Slot \ {s}
      BY <2>4, OwnPlace
    <3>2. /\ curthread'[m] = curthread[m] /\ pc'[m] = pc[m] /\ after'[m] = after[m]
          /\ Same(curthread[m])
      BY <2>4, <3>1 DEF Only
    <3>3. Alive(m)' /\ (Exited(m)' <=> Exited(m))
      BY <2>4, <3>2 DEF Alive, Exited
    <3> QED
      BY <2>4, <3>2, <3>3, OwnStays
  <2> QED
    BY <2>1, <2>2, <2>3, <2>4
<1>2. ASSUME NEW m \in Native PROVE RecOK(m)'
  <2>1. CASE m = n
    BY <2>1
  <2>2. CASE m # n /\ rec[m] = s
    BY <2>2
  <2>3. CASE m # n /\ rec[m] # s
    <3>1. RecOK(m) /\ pc'[m] = pc[m] /\ rec'[m] = rec[m] /\ curthread'[m] = curthread[m]
      BY <2>3 DEF UseInv, Only
    <3>2. CASE pc[m] \in Linked \cup {"link"}
      <4>1. rec[m] \in Slot \ {s}
        BY <2>3, <3>2 DEF BaseInv, Types, LocalOK, Without, Linked
      <4>2. Same(rec[m])
        BY <4>1
      <4> QED
        BY <3>1, <4>2 DEF RecOK, Same
    <3>3. CASE pc[m] \notin Linked \cup {"link"}
      BY <3>1, <3>3 DEF RecOK, Linked
    <3> QED
      BY <3>2, <3>3
  <2> QED
    BY <2>1, <2>2, <2>3
<1>3. ASSUME NEW k \in Native, NEW m \in Native PROVE Apart(k, m)'
  <2>1. Apart(k, m)
    BY DEF UseInv
  <2>2. CASE pc'[n] # "spawn"
    <3>1. \A i \in {k, m} : /\ Alive(i)' => Alive(i) /\ curthread'[i] = curthread[i]
                            /\ pc'[i] = "spawn" => pc[i] = "spawn" /\ rec'[i] = rec[i]
      BY <2>2 DEF Only, Alive
    <3> QED
      BY <2>1, <3>1 DEF Apart
  <2>3. CASE pc'[n] = "spawn" /\ n \in {k, m}
    BY <2>3
  <2>4. CASE n \notin {k, m}
    <3>1. \A i \in {k, m} : /\ Alive(i)' <=> Alive(i)
                            /\ curthread'[i] = curthread[i] /\ pc'[i] = pc[i] /\ rec'[i] = rec[i]
      BY <2>4 DEF Only, Alive
    <3> QED
      BY <2>1, <3>1 DEF Apart
  <2> QED
    BY <2>2, <2>3, <2>4
<1>4. ASSUME NEW r \in Slot PROVE RecordOK(r)'
  <2>1. CASE r = s
    BY <2>1
  <2>2. CASE r # s
    <3>1. RecordOK(r) /\ Same(r) /\ Holders(r)' = Holders(r)
      BY <2>2, HoldersStep DEF UseInv
    <3> QED
      BY <3>1 DEF RecordOK, ShouldCollect, Same
  <2> QED
    BY <2>1, <2>2
<1> QED
  BY <1>1, <1>2, <1>3, <1>4 DEF UseInv

(* Two native threads do not make the same record, nor one that is free.   *)
LEMMA OneMaker ==
  ASSUME HomesInv, NEW m \in Native, pc[m] = "link", rec[m] \in Slot
  PROVE  /\ rec[m] \notin heap /\ rec[m] \notin Range(free_threads)
         /\ \A n \in Native \ {m} : pc[n] = "link" => rec[n] # rec[m]
<1>1. OnePlace /\ {InLink(m), InHeap, InCache} \subseteq Places
  BY PlacesAre DEF HomesInv
<1>2. InLink(m) # InHeap /\ InLink(m) # InCache
  BY DEF InLink, InHeap, InCache
<1>3. rec[m] \in Records(InLink(m))
  BY RecordsAre
<1>4. rec[m] \notin Records(InHeap) /\ rec[m] \notin Records(InCache)
  BY <1>1, <1>2, <1>3, Alone
<1>5. ASSUME NEW n \in Native \ {m}, pc[n] = "link", rec[n] = rec[m] PROVE FALSE
  <2>1. InLink(n) \in Places /\ InLink(n) # InLink(m) /\ rec[m] \in Records(InLink(n))
    BY <1>5, PlacesAre, RecordsAre DEF InLink
  <2> QED
    BY <1>1, <1>3, <2>1, Alone
<1> QED
  BY <1>4, <1>5, RecordsAre

(* Who runs on or is about a record that is not linked.                    *)
LEMMA Untouched ==
  ASSUME BaseInv, UseInv, NEW s \in Slot, s \notin threads, s \notin Range(gc_list)
  PROVE  /\ \A m \in Native : Alive(m) => curthread[m] # s
         /\ \A m \in Native : rec[m] = s => pc[m] \notin Linked
BY OwnPlace DEF UseInv, RecOK

LEMMA UseConstruct ==
  ASSUME BaseInv, HomesInv, UseInv, NEW n \in Native, NEW s \in Slot, Only(n), Construct(n, s),
         pc[n] \in {"cached", "heap"}, s \in heap \cup Range(free_threads),
         UNCHANGED <<threads, gc_list, curthread>>
  PROVE  UseInv'
<1>1. s \notin threads /\ s \notin Range(gc_list)
  BY Unused
<1>2. /\ tid' = [tid EXCEPT ![s] = "alive"] /\ refcount' = [refcount EXCEPT ![s] = 1]
      /\ state' = [state EXCEPT ![s] = "Running"]
      /\ joiner' = [joiner EXCEPT ![s] = NoSlot] /\ ret' = [ret EXCEPT ![s] = "none"]
      /\ \E d \in BOOLEAN : detached' = [detached EXCEPT ![s] = d]
      /\ rec' = [rec EXCEPT ![n] = s] /\ pc' = [pc EXCEPT ![n] = "link"]
  BY DEF Construct, Set
<1>3. Types
  BY DEF BaseInv
<1>4. /\ \A r \in Slot \ {s} : Same(r)
      /\ tid'[s] = "alive" /\ refcount'[s] = 1 /\ state'[s] = "Running"
      /\ rec'[n] = s /\ pc'[n] = "link"
  BY <1>2, <1>3 DEF Same, Types
<1>5. /\ \A m \in Native : Alive(m) => curthread[m] # s
      /\ \A m \in Native : rec[m] = s => pc[m] \notin Linked
  BY <1>1, Untouched
<1>6. \A r \in Slot \ {s} : Holds(n, r)' <=> Holds(n, r)
  BY <1>4 DEF Holds, Counted
<1>7. Alive(n) /\ Alive(n)' /\ ~Exited(n) /\ ~Exited(n)'
  BY <1>4 DEF Alive, Exited, Trying
<1>8. OwnOK(n)'
  <2>1. curthread[n] \in Slot \ {s}
    BY <1>5, <1>7, OwnPlace
  <2> QED
    BY <1>4, <1>7, <2>1, OwnStays
<1>9. RecOK(n)'
  BY <1>4 DEF RecOK, Linked
<1>10. RecordOK(s)'
  BY <1>1, <1>4 DEF RecordOK
<1>11. ASSUME NEW m \in Native \ {n}, rec[m] = s PROVE RecOK(m)'
  <2>1. pc[m] # "link"
    BY <1>11, OneMaker
  <2>2. pc'[m] \notin Linked \cup {"link"}
    BY <1>5, <1>11, <2>1 DEF Only
  <2> QED
    BY <2>2 DEF RecOK, Linked
<1> QED
  BY <1>4, <1>5, <1>6, <1>7, <1>8, <1>9, <1>10, <1>11, UseRecord

LEMMA UseTake ==
  ASSUME BaseInv, HomesInv, UseInv, NEW n \in Native, TakeCached(n) \/ TakeHeap(n)
  PROVE  UseInv'
<1>1. Only(n) /\ Types /\ pc[n] \in {"cached", "heap"}
  BY TakeBase DEF BaseInv
<1>2. UNCHANGED <<threads, gc_list, curthread>>
  BY DEF TakeCached, TakeHeap
<1>3. CASE \E s \in Slot : Construct(n, s) /\ s \in heap \cup Range(free_threads)
  BY <1>1, <1>2, <1>3, UseConstruct
<1>4. CASE (Goto(n, "room") \/ Goto(n, "ungrow")) /\ UNCHANGED recordVars
  <2>1. pc'[n] \in {"room", "ungrow"}
    BY <1>1, <1>4 DEF Goto, Set, Types
  <2>2. UNCHANGED <<tid, refcount, state, joiner, detached, ret, threads, gc_list, curthread>>
    BY <1>2, <1>4 DEF recordVars
  <2>3. /\ pc[n] \notin Counted \cup Trying \cup {"terminate", "leave", "none"}
        /\ pc'[n] \notin Busy
    BY <1>1, <2>1 DEF Counted, Trying, Busy, Linked
  <2> QED
    BY <1>1, <2>2, <2>3, UseQuiet
<1>5. TakeCached(n) => <1>3!1 \/ <1>4!1
  <2> SUFFICES ASSUME TakeCached(n), free_threads # <<>>
               PROVE  <1>3!1
    BY DEF TakeCached
  <2>1. Construct(n, Last(free_threads))
    BY DEF TakeCached
  <2>2. Last(free_threads) \in Slot /\ Last(free_threads) \in Range(free_threads)
    <3>1. free_threads \in Seq(Slot)
      BY <1>1 DEF Types
    <3>2. Last(free_threads) \in Slot
          /\ Range(free_threads) = Range(Front(free_threads)) \cup {Last(free_threads)}
      BY <3>1, FrontSeq
    <3> QED
      BY <3>2
  <2> QED
    BY <2>1, <2>2
<1>6. TakeHeap(n) => <1>3!1 \/ <1>4!1
  BY <1>1 DEF TakeHeap, Types
<1> QED
  BY <1>3, <1>4, <1>5, <1>6

LEMMA UseLink ==
  ASSUME BaseInv, HomesInv, UseInv, NEW n \in Native, Link(n) PROVE UseInv'
<1> SUFFICES ASSUME NEW s, s = rec[n] PROVE UseInv'
  OBVIOUS
<1>1. Only(n) /\ pc[n] = "link" /\ pc'[n] = "spawn" /\ rec'[n] = s /\ Types
  BY LinkBase DEF BaseInv
<1>2. /\ UNCHANGED <<tid, refcount, state, joiner, detached, ret, gc_list, curthread>>
      /\ threads' = threads \cup {s}
  BY DEF Link, recordVars
<1>3. s \in Slot
  BY <1>1 DEF BaseInv, LocalOK, Without, Types
<1>4. s \notin threads /\ s \notin Range(gc_list)
  BY <1>1, <1>3, Unused
<1>5. /\ \A m \in Native : Alive(m) => curthread[m] # s
      /\ \A m \in Native : rec[m] = s => pc[m] \notin Linked
  BY <1>3, <1>4, Untouched
<1>6. \A r \in Slot \ {s} : Same(r) /\ (Holds(n, r)' <=> Holds(n, r))
  BY <1>1, <1>2 DEF Same, Holds, Counted
<1>7. Alive(n) /\ Alive(n)' /\ ~Exited(n) /\ ~Exited(n)'
  BY <1>1 DEF Alive, Exited, Trying
<1>8. OwnOK(n)'
  <2>1. curthread[n] \in Slot \ {s}
    BY <1>5, <1>7, OwnPlace
  <2> QED
    BY <1>1, <1>2, <1>6, <1>7, <2>1, OwnStays
<1>9. RecOK(n) /\ RecordOK(s)
  BY <1>3 DEF UseInv
<1>10. RecOK(n)'
  BY <1>1, <1>2, <1>9 DEF RecOK
<1>11. RecordOK(s)'
  <2>1. Holders(s) = {}
    BY <1>5 DEF Holders, At, Counted, Linked
  <2>2. Holders(s)' = {}
    BY <1>1, <2>1, HoldersStep DEF Holds, Counted
  <2>3. Cardinality(Holders(s)') = 0
    BY <2>2, FS_EmptySet
  <2>4. refcount[s] = 1 /\ tid[s] = "alive" /\ state[s] = "Running"
    BY <1>1, <1>9 DEF RecOK
  <2> QED
    BY <1>2, <1>4, <2>3, <2>4 DEF RecordOK, ShouldCollect
<1>12. ASSUME NEW m \in Native \ {n}, rec[m] = s PROVE RecOK(m)'
  <2>1. pc[m] # "link"
    BY <1>1, <1>3, <1>12, OneMaker
  <2>2. pc'[m] \notin Linked \cup {"link"}
    BY <1>1, <1>5, <1>12, <2>1 DEF Only
  <2> QED
    BY <2>2 DEF RecOK, Linked
<1>13. ASSUME NEW m \in Native PROVE Apart(n, m)' /\ Apart(m, n)'
  <2>1. Apart(n, m) /\ Apart(m, n) /\ RecOK(m)
    BY DEF UseInv
  <2>2. Alive(m)' <=> Alive(m)
    BY <1>1 DEF Only, Alive
  <2>3. m # n => pc'[m] = pc[m] /\ rec'[m] = rec[m]
    BY <1>1 DEF Only
  <2>4. Alive(m) => rec'[n] # curthread[m]
    BY <1>1, <1>5
  <2>5. m # n /\ pc[m] = "spawn" => rec[m] # rec[n]
    BY <1>5 DEF Linked
  <2> QED
    BY <1>1, <1>2, <1>7, <2>1, <2>2, <2>3, <2>4, <2>5 DEF Apart
<1>14. \A m \in Native \ {n} : Alive(m) /\ curthread[m] = s => OwnOK(m)'
  BY <1>5
<1> QED
  BY <1>1, <1>2, <1>3, <1>6, <1>7, <1>8, <1>10, <1>11, <1>12, <1>13, <1>14, UseRecord

(* The record a running thread runs on is nobody else's to run on, to make *)
(* or to start.                                                            *)
LEMMA OwnAlone ==
  ASSUME BaseInv, HomesInv, UseInv, NEW n \in Native, Alive(n)
  PROVE  /\ \A m \in Native \ {n} : Alive(m) => curthread[m] # curthread[n]
         /\ \A m \in Native : pc[m] \in {"link", "spawn"} => rec[m] # curthread[n]
<1>1. curthread[n] \in Slot /\ curthread[n] \in threads \cup Range(gc_list)
  BY OwnPlace
<1>2. \A m \in Native : pc[m] = "link" => rec[m] # curthread[n]
  BY <1>1, Unused
<1>3. ASSUME NEW m \in Native PROVE Apart(m, n)
  BY DEF UseInv
<1> QED
  BY <1>2, <1>3 DEF Apart

LEMMA UseExit ==
  ASSUME BaseInv, HomesInv, UseInv, NEW n \in Native, Exit(n) PROVE UseInv'
<1> SUFFICES ASSUME NEW s, s = curthread[n] PROVE UseInv'
  OBVIOUS
<1>1. Only(n) /\ pc[n] = "run" /\ pc'[n] = "exit" /\ rec'[n] = rec[n] /\ Types
  BY ExitBase DEF BaseInv
<1>2. /\ UNCHANGED <<tid, refcount, state, joiner, detached, threads, gc_list, curthread>>
      /\ ret' = [ret EXCEPT ![s] = "saved"]
  BY DEF Exit, listVars, Set
<1>3. Alive(n) /\ Alive(n)' /\ ~Exited(n) /\ ~Exited(n)'
  BY <1>1 DEF Alive, Exited, Trying
<1>4. s \in Slot
  BY <1>3, OwnPlace
<1>5. ret'[s] = "saved" /\ \A r \in Slot \ {s} : ret'[r] = ret[r]
  BY <1>1, <1>2, <1>4 DEF Types
<1>6. \A r \in Slot \ {s} : Same(r) /\ (Holds(n, r)' <=> Holds(n, r))
  BY <1>1, <1>2, <1>5 DEF Same, Holds, Counted
<1>7. OwnOK(n) /\ RecordOK(s)
  BY <1>4 DEF UseInv
<1>8. OwnOK(n)' /\ RecOK(n)'
  BY <1>1, <1>2, <1>3, <1>5, <1>7 DEF OwnOK, RecOK, Linked
<1>9. RecordOK(s)'
  <2>1. Holders(s)' = Holders(s)
    BY <1>1, HoldersStep DEF Holds, Counted
  <2> QED
    BY <1>2, <1>5, <1>7, <2>1 DEF RecordOK, ShouldCollect
<1>10. \A m \in Native \ {n} : Alive(m) /\ curthread[m] = s => OwnOK(m)'
  BY <1>3, OwnAlone
<1>11. ASSUME NEW m \in Native \ {n}, rec[m] = s PROVE RecOK(m)'
  <2>1. RecOK(m) /\ pc'[m] = pc[m] /\ rec'[m] = rec[m]
    BY <1>1 DEF Only, UseInv
  <2> QED
    BY <1>2, <1>5, <1>11, <2>1 DEF RecOK
<1> QED
  BY <1>1, <1>2, <1>3, <1>4, <1>6, <1>8, <1>9, <1>10, <1>11, UseRecord

LEMMA UseTerminate ==
  ASSUME BaseInv, HomesInv, UseInv, NEW n \in Native, Terminate(n) PROVE UseInv'
<1> SUFFICES ASSUME NEW s, s = curthread[n] PROVE UseInv'
  OBVIOUS
<1>1. Only(n) /\ pc[n] = "terminate" /\ pc'[n] = "leave" /\ rec'[n] = rec[n] /\ Types
  BY TerminateBase DEF BaseInv
<1>2. /\ UNCHANGED <<refcount, state, joiner, detached, ret, threads, gc_list, curthread>>
      /\ tid' = [tid EXCEPT ![s] = "terminated"]
  BY DEF Terminate, listVars, Set
<1>3. Alive(n) /\ ~Alive(n)' /\ Exited(n) /\ ~Exited(n)'
  BY <1>1 DEF Alive, Exited, Trying
<1>4. s \in Slot
  BY <1>3, OwnPlace
<1>5. \A r \in Slot \ {s} : tid'[r] = tid[r]
  BY <1>1, <1>2, <1>4 DEF Types
<1>6. \A r \in Slot \ {s} : Same(r) /\ (Holds(n, r)' <=> Holds(n, r))
  BY <1>1, <1>2, <1>5 DEF Same, Holds, Counted
<1>7. OwnOK(n) /\ RecordOK(s)
  BY <1>4 DEF UseInv
<1>8. OwnOK(n)' /\ RecOK(n)'
  BY <1>1, <1>3 DEF OwnOK, RecOK, Linked
<1>9. RecordOK(s)'
  <2>1. Holders(s)' = Holders(s)
    BY <1>1, HoldersStep DEF Holds, Counted
  <2>2. ret[s] = "saved"
    BY <1>3, <1>7 DEF OwnOK
  <2> QED
    BY <1>2, <1>7, <2>1, <2>2 DEF RecordOK, ShouldCollect
<1>10. \A m \in Native \ {n} : Alive(m) /\ curthread[m] = s => OwnOK(m)'
  BY <1>3, OwnAlone
<1>11. ASSUME NEW m \in Native \ {n}, rec[m] = s PROVE RecOK(m)'
  <2>1. RecOK(m) /\ pc'[m] = pc[m] /\ rec'[m] = rec[m]
    BY <1>1 DEF Only, UseInv
  <2>2. pc[m] \notin {"link", "spawn"}
    BY <1>3, <1>11, OwnAlone
  <2> QED
    BY <1>2, <2>1, <2>2 DEF RecOK
<1>12. Alive(n)' => Alive(n) /\ curthread'[n] = curthread[n]
  BY <1>3
<1> QED
  BY <1>1, <1>4, <1>6, <1>8, <1>9, <1>10, <1>11, <1>12, UseRecord

LEMMA UseJoinClaim ==
  ASSUME BaseInv, HomesInv, UseInv, NEW n \in Native, JoinClaim(n) PROVE UseInv'
<1> SUFFICES ASSUME NEW s, s = rec[n] PROVE UseInv'
  OBVIOUS
<1>1. Only(n) /\ pc[n] = "found" /\ pc'[n] \in {"run", "wait"} /\ Types /\ LocalOK(n)
      /\ (pc'[n] # "run" => rec'[n] = rec[n])
  BY JoinClaimBase DEF BaseInv
<1>2. /\ UNCHANGED <<tid, refcount, state, detached, ret, threads, gc_list, curthread>>
      /\ \/ pc'[n] = "run" /\ joiner' = joiner
         \/ /\ pc'[n] = "wait" /\ ~detached[s] /\ joiner[s] = NoSlot
            /\ joiner' = [joiner EXCEPT ![s] = curthread[n]]
  BY <1>1 DEF JoinClaim, Found, Return, Goto, Set, Types
<1>3. CASE pc'[n] = "run" /\ joiner' = joiner
  <2>1. /\ pc[n] \notin Counted \cup Trying \cup {"terminate", "leave", "none"}
        /\ pc'[n] \notin Busy
    BY <1>1, <1>3 DEF Counted, Trying, Busy, Linked
  <2> QED
    BY <1>1, <1>2, <1>3, <2>1, UseQuiet
<1>4. CASE /\ pc'[n] = "wait" /\ ~detached[s] /\ joiner[s] = NoSlot
           /\ joiner' = [joiner EXCEPT ![s] = curthread[n]]
  <2>1. RecOK(n) /\ s \in threads /\ s \in Slot /\ RecordOK(s)
    BY <1>1 DEF UseInv, RecOK, Linked, Types
  <2>2. joiner'[s] = curthread[n] /\ \A r \in Slot \ {s} : joiner'[r] = joiner[r]
    BY <1>1, <1>4, <2>1 DEF Types
  <2>3. \A r \in Slot \ {s} : Same(r) /\ (Holds(n, r)' <=> Holds(n, r))
    BY <1>1, <1>2, <1>4, <2>2 DEF Same, Holds, Counted
  <2>4. Alive(n) /\ Alive(n)' /\ ~Exited(n) /\ ~Exited(n)' /\ OwnOK(n)
    BY <1>1, <1>4 DEF Alive, Exited, Trying, UseInv
  <2>5. OwnOK(n)' /\ RecOK(n)'
    BY <1>1, <1>2, <1>4, <2>1, <2>2, <2>4 DEF OwnOK, RecOK
  <2>6. RecordOK(s)'
    <3>1. Holders(s)' = Holders(s)
      BY <1>1, <1>4, HoldersStep DEF Holds, Counted
    <3> QED
      BY <1>2, <2>1, <3>1 DEF RecordOK, ShouldCollect
  <2>7. ASSUME NEW m \in Native \ {n}, Alive(m), curthread[m] = s PROVE OwnOK(m)'
    <3>1. OwnOK(m) /\ pc'[m] = pc[m] /\ after'[m] = after[m]
      BY <1>1 DEF Only, UseInv
    <3> QED
      BY <1>2, <3>1 DEF OwnOK, Alive, Exited
  <2>8. ASSUME NEW m \in Native \ {n}, rec[m] = s PROVE RecOK(m)'
    <3>1. RecOK(m) /\ LocalOK(m) /\ pc'[m] = pc[m] /\ rec'[m] = rec[m]
      BY <1>1 DEF Only, UseInv, BaseInv
    <3>2. pc[m] \notin {"wait", "joined"}
      BY <1>4, <2>8, <3>1 DEF RecOK, LocalOK
    <3> QED
      BY <1>2, <3>1, <3>2 DEF RecOK
  <2> QED
    BY <1>1, <1>2, <1>4, <2>1, <2>3, <2>4, <2>5, <2>6, <2>7, <2>8, UseRecord
<1> QED
  BY <1>2, <1>3, <1>4

Run(st) == IF st = "Running" THEN 1 ELSE 0

(* TryCollect leaves record s with its references and tested: it gets one  *)
(* of n when it is taken along.                                            *)
LEMMA UseTry ==
  ASSUME BaseInv, HomesInv, UseInv, NEW n \in Native, Only(n), NEW s \in Slot, s \in threads,
         NEW count \in Int, NEW return \in {"run", "terminate"},
         TryCollect(n, s, count, return),
         UNCHANGED <<tid, ret, threads, gc_list, curthread>>,
         count = Run(state'[s]) + Cardinality(Holders(s) \ {n}),
         pc[n] \in Counted => rec[n] = s
  PROVE  /\ RecordOK(s)' /\ RecOK(n)'
         /\ \A r \in Slot \ {s} : refcount'[r] = refcount[r] /\ (Holds(n, r)' <=> Holds(n, r))
         /\ pc'[n] \in {"tc_list", return}
         /\ pc'[n] = "tc_list" => after'[n] = return
<1>1. Types /\ s \notin Range(gc_list) /\ RecordOK(s)
  BY ThreadsNotGc DEF BaseInv, UseInv
<1>2. \/ Takes(n, s, count, return)
      \/ Leaves(n, s, count) /\ return = "run" /\ Returns(n)
      \/ Leaves(n, s, count) /\ return = "terminate" /\ GoesOn(n)
  BY <1>1, TryCollectDoes
<1>3. PICK held \in Nat : held = Cardinality(Holders(s) \ {n})
  <2>1. Holders(s) \ {n} \subseteq Native /\ IsFiniteSet(Native)
    BY ThreadAssumption DEF Holders, At
  <2> QED
    BY <2>1, FS_Subset, FS_CardinalityType
<1>4. IsFiniteSet(Holders(s) \ {n})
  BY HoldersFinite, FS_Subset
<1>5. CASE Takes(n, s, count, return)
  <2>1. /\ pc'[n] = "tc_list" /\ rec'[n] = s /\ after'[n] = return
        /\ refcount'[s] = count + 1 /\ \A r \in Slot \ {s} : refcount'[r] = refcount[r]
    BY <1>1, <1>5 DEF Takes, Types
  <2>2. Holders(s)' = (Holders(s) \ {n}) \cup {n}
    BY <2>1 DEF Only, Holders, At, Counted
  <2>3. Cardinality(Holders(s)') = held + 1
    BY <1>3, <1>4, <2>2, FS_AddElement
  <2>4. RecordOK(s)'
    <3>1. PICK r \in {0, 1} : r = Run(state'[s])
      BY DEF Run
    <3>2. refcount'[s] = r + held + 1 /\ r + held + 1 > 0
      BY <1>3, <2>1, <3>1
    <3>3. Run(state[s])' = r
      BY <3>1
    <3> QED
      BY <1>1, <1>3, <2>3, <3>1, <3>2, <3>3 DEF RecordOK, ShouldCollect, Run
  <2>5. RecOK(n)'
    BY <2>1 DEF RecOK, Linked
  <2>6. \A r \in Slot \ {s} : Holds(n, r)' <=> Holds(n, r)
    BY <2>1 DEF Holds
  <2> QED
    BY <2>1, <2>4, <2>5, <2>6
<1>6. CASE Leaves(n, s, count) /\ pc'[n] = return
  <2>1. /\ refcount'[s] = count /\ \A r \in Slot \ {s} : refcount'[r] = refcount[r]
        /\ ~(count = 0 /\ state'[s] = "Dead" /\ detached'[s])
    BY <1>1, <1>6 DEF Leaves, Types
  <2>2. Holders(s)' = Holders(s) \ {n}
    BY <1>6 DEF Only, Holders, At, Counted
  <2>3. RecordOK(s)'
    <3>1. PICK r \in {0, 1} : r = Run(state'[s])
      BY DEF Run
    <3>2. refcount'[s] = r + held /\ r + held >= 0
      BY <1>3, <2>1, <3>1
    <3>3. Cardinality(Holders(s)') = held
      BY <1>3, <2>2
    <3> QED
      BY <1>1, <1>3, <2>1, <3>1, <3>2, <3>3 DEF RecordOK, ShouldCollect, Run
  <2>4. RecOK(n)'
    BY <1>6 DEF RecOK, Linked
  <2>5. \A r \in Slot \ {s} : Holds(n, r)' <=> Holds(n, r)
    BY <1>6 DEF Holds, Counted
  <2> QED
    BY <1>6, <2>1, <2>3, <2>4, <2>5
<1>7. (Returns(n) => pc'[n] = "run") /\ (GoesOn(n) => pc'[n] = "terminate")
  BY <1>1 DEF Returns, GoesOn, Types
<1> QED
  BY <1>2, <1>5, <1>6, <1>7

LEMMA UseExitThread ==
  ASSUME BaseInv, HomesInv, UseInv, NEW n \in Native, ExitThread(n) PROVE UseInv'
<1> SUFFICES ASSUME NEW s, s = curthread[n] PROVE UseInv'
  OBVIOUS
<1>1. Only(n) /\ pc[n] = "exit" /\ Types
  BY ExitThreadBase DEF BaseInv
<1>2. /\ UNCHANGED <<tid, joiner, detached, ret, threads, gc_list, curthread>>
      /\ state' = [state EXCEPT ![s] = "Dead"]
      /\ TryCollect(n, s, refcount[s] - 1, "terminate")
  BY DEF ExitThread, listVars, Set
<1>3. Alive(n) /\ ~Exited(n) /\ OwnOK(n)
  BY <1>1 DEF Alive, Exited, Trying, UseInv
<1>4. s \in Slot /\ s \in threads /\ state[s] = "Running" /\ tid[s] = "alive" /\ ret[s] = "saved"
  BY <1>1, <1>3, OwnPlace DEF OwnOK
<1>5. state'[s] = "Dead" /\ \A r \in Slot \ {s} : state'[r] = state[r]
  BY <1>1, <1>2, <1>4 DEF Types
<1>6. refcount[s] - 1 \in Int /\ refcount[s] - 1 = Run(state'[s]) + Cardinality(Holders(s) \ {n})
  <2>1. RecordOK(s) /\ Holders(s) \ {n} = Holders(s)
    BY <1>1, <1>4 DEF UseInv, Holders, At, Counted
  <2>2. PICK c \in Nat : c = Cardinality(Holders(s))
    BY HoldersFinite
  <2>3. refcount[s] = 1 + c
    BY <1>4, <2>1, <2>2 DEF RecordOK
  <2>4. Run(state'[s]) = 0
    BY <1>5 DEF Run
  <2>5. Run(state'[s]) + Cardinality(Holders(s) \ {n}) = c
    BY <2>1, <2>2, <2>4
  <2> QED
    BY <2>2, <2>3, <2>5
<1>7. /\ RecordOK(s)' /\ RecOK(n)'
      /\ \A r \in Slot \ {s} : refcount'[r] = refcount[r] /\ (Holds(n, r)' <=> Holds(n, r))
      /\ pc'[n] \in {"tc_list", "terminate"}
      /\ pc'[n] = "tc_list" => after'[n] = "terminate"
  BY <1>1, <1>2, <1>4, <1>6, UseTry DEF Counted
<1>8. \A r \in Slot \ {s} : Same(r)
  BY <1>2, <1>5, <1>7 DEF Same
<1>9. Alive(n)' /\ Exited(n)'
  BY <1>7 DEF Alive, Exited, Trying
<1>10. OwnOK(n)'
  BY <1>2, <1>4, <1>9 DEF OwnOK
<1>11. \A m \in Native \ {n} : Alive(m) /\ curthread[m] = s => OwnOK(m)'
  BY <1>3, OwnAlone
<1>12. ASSUME NEW m \in Native \ {n}, rec[m] = s PROVE RecOK(m)'
  <2>1. RecOK(m) /\ pc'[m] = pc[m] /\ rec'[m] = rec[m]
    BY <1>1 DEF Only, UseInv
  <2>2. pc[m] \notin {"link", "spawn"}
    BY <1>3, <1>12, OwnAlone
  <2> QED
    BY <1>2, <2>1, <2>2 DEF RecOK
<1> QED
  BY <1>1, <1>2, <1>3, <1>4, <1>7, <1>8, <1>10, <1>11, <1>12, UseRecord

(* A linked record is not in the making.                                   *)
LEMMA NotMade ==
  ASSUME BaseInv, HomesInv, NEW m \in Native, rec[m] \in threads PROVE pc[m] # "link"
BY Unused DEF BaseInv, Types

(* A step that ends a call on record s with TryCollect, and may change who *)
(* joins it and whether it is detached.                                    *)
LEMMA UseCall ==
  ASSUME BaseInv, HomesInv, UseInv, NEW n \in Native, Only(n), NEW s \in Slot, s \in threads,
         NEW count \in Int, TryCollect(n, s, count, "run"),
         UNCHANGED <<tid, state, ret, threads, gc_list, curthread>>,
         count = Run(state[s]) + Cardinality(Holders(s) \ {n}),
         rec[n] = s, pc[n] \in {"found", "joined", "unref"},
         \A r \in Slot \ {s} : joiner'[r] = joiner[r] /\ detached'[r] = detached[r],
         \/ UNCHANGED <<joiner, detached>>
         \/ \A m \in Native \ {n} : rec[m] = s => pc[m] \notin {"wait", "joined"}
  PROVE  UseInv'
<1>1. count = Run(state'[s]) + Cardinality(Holders(s) \ {n})
  OBVIOUS
<1>2. /\ RecordOK(s)' /\ RecOK(n)'
      /\ \A r \in Slot \ {s} : refcount'[r] = refcount[r] /\ (Holds(n, r)' <=> Holds(n, r))
      /\ pc'[n] \in {"tc_list", "run"} /\ (pc'[n] = "tc_list" => after'[n] = "run")
  BY <1>1, UseTry DEF Counted
<1>3. \A r \in Slot \ {s} : Same(r)
  BY <1>2 DEF Same
<1>4. /\ Alive(n) /\ Alive(n)' /\ ~Exited(n) /\ ~Exited(n)'
      /\ pc'[n] # "exit" /\ pc'[n] # "spawn"
  BY <1>2 DEF Alive, Exited, Trying
<1>5. OwnOK(n)'
  <2>1. OwnOK(n)
    BY DEF UseInv
  <2> QED
    BY <1>4, <2>1 DEF OwnOK
<1>6. ASSUME NEW m \in Native \ {n}, Alive(m), curthread[m] = s PROVE OwnOK(m)'
  <2>1. OwnOK(m) /\ pc'[m] = pc[m] /\ after'[m] = after[m]
    BY DEF Only, UseInv
  <2> QED
    BY <2>1 DEF OwnOK, Alive, Exited
<1>7. ASSUME NEW m \in Native \ {n}, rec[m] = s PROVE RecOK(m)'
  <2>1. RecOK(m) /\ pc'[m] = pc[m] /\ rec'[m] = rec[m] /\ curthread'[m] = curthread[m]
    BY DEF Only, UseInv
  <2>2. pc[m] # "link"
    BY <1>7, NotMade
  <2> QED
    BY <1>7, <2>1, <2>2 DEF RecOK
<1> QED
  BY <1>2, <1>3, <1>4, <1>5, <1>6, <1>7, UseRecord

(* The references to a record that n, at L, holds or does not hold.        *)
LEMMA OthersHold ==
  ASSUME UseInv, NEW n \in Native, NEW s \in Slot, s \in threads
  PROVE  /\ refcount[s] \in Int
         /\ ~Holds(n, s) => refcount[s] = Run(state[s]) + Cardinality(Holders(s) \ {n})
         /\ Holds(n, s) => refcount[s] - 1 = Run(state[s]) + Cardinality(Holders(s) \ {n})
<1>1. RecordOK(s)
  BY DEF UseInv
<1>2. PICK c \in Nat : c = Cardinality(Holders(s))
  BY HoldersFinite
<1>3. PICK r \in {0, 1} : r = Run(state[s])
  BY DEF Run
<1>4. refcount[s] = r + c
  BY <1>1, <1>2, <1>3 DEF RecordOK, Run
<1>5. CASE ~Holds(n, s)
  <2>1. Holders(s) \ {n} = Holders(s)
    BY <1>5 DEF Holds, Holders, At
  <2>2. Run(state[s]) + Cardinality(Holders(s) \ {n}) = r + c
    BY <1>2, <1>3, <2>1
  <2>3. refcount[s] = Run(state[s]) + Cardinality(Holders(s) \ {n})
    BY <1>4, <2>2
  <2>4. r + c \in Int
    BY <1>2, <1>3
  <2> QED
    BY <1>4, <1>5, <2>3, <2>4
<1>6. CASE Holds(n, s)
  <2>1. n \in Holders(s) /\ IsFiniteSet(Holders(s))
    BY <1>6, HoldersFinite DEF Holds, Holders, At
  <2>2. Cardinality(Holders(s) \ {n}) = c - 1
    BY <1>2, <2>1, FS_RemoveElement
  <2>3. Run(state[s]) + Cardinality(Holders(s) \ {n}) = r + (c - 1)
    BY <1>3, <2>2
  <2>4. r + c \in Int /\ (r + c) - 1 = r + (c - 1)
    BY <1>2, <1>3
  <2>5. refcount[s] - 1 = Run(state[s]) + Cardinality(Holders(s) \ {n})
    BY <1>4, <2>3, <2>4
  <2> QED
    BY <1>4, <1>6, <2>4, <2>5
<1> QED
  BY <1>5, <1>6

LEMMA UseJoinRelease ==
  ASSUME BaseInv, HomesInv, UseInv, NEW n \in Native, JoinRelease(n) PROVE UseInv'
<1> SUFFICES ASSUME NEW s, s = rec[n] PROVE UseInv'
  OBVIOUS
<1>1. Only(n) /\ pc[n] = "joined" /\ Types /\ LocalOK(n)
  BY JoinReleaseBase DEF BaseInv
<1>2. /\ UNCHANGED <<tid, state, ret, threads, gc_list, curthread>>
      /\ detached' = [detached EXCEPT ![s] = TRUE] /\ joiner' = [joiner EXCEPT ![s] = NoSlot]
      /\ TryCollect(n, s, refcount[s], "run")
  BY DEF JoinRelease, listVars, Set
<1>3. s \in threads /\ s \in Slot /\ joiner[s] = curthread[n]
  BY <1>1 DEF UseInv, RecOK, Linked, Types
<1>4. \A r \in Slot \ {s} : joiner'[r] = joiner[r] /\ detached'[r] = detached[r]
  BY <1>1, <1>2, <1>3 DEF Types
<1>5. /\ refcount[s] \in Int
      /\ refcount[s] = Run(state[s]) + Cardinality(Holders(s) \ {n})
  BY <1>1, <1>3, OthersHold DEF Holds, Counted
<1>6. ASSUME NEW m \in Native \ {n}, rec[m] = s PROVE pc[m] \notin {"wait", "joined"}
  <2>1. RecOK(m) /\ Apart(n, m)
    BY DEF UseInv
  <2>2. Alive(n)
    BY <1>1 DEF Alive
  <2> QED
    BY <1>3, <1>6, <2>1, <2>2 DEF RecOK, Apart, Alive
<1> QED
  BY <1>1, <1>2, <1>3, <1>4, <1>5, <1>6, UseCall

(* While a record has no joiner nobody waits for its thread.               *)
LEMMA NobodyJoins ==
  ASSUME BaseInv, UseInv, NEW m \in Native, joiner[rec[m]] = NoSlot
  PROVE  pc[m] \notin {"wait", "joined"}
BY DEF BaseInv, LocalOK, UseInv, RecOK

LEMMA UseDetach ==
  ASSUME BaseInv, HomesInv, UseInv, NEW n \in Native, Detach(n) PROVE UseInv'
<1> SUFFICES ASSUME NEW s, s = rec[n] PROVE UseInv'
  OBVIOUS
<1>1. Only(n) /\ pc[n] = "found" /\ pc'[n] \in {"tc_list", "run"} /\ Types
  BY DetachBase DEF BaseInv
<1>2. UNCHANGED <<tid, joiner, ret, threads, gc_list, curthread>>
  BY DEF Detach, Found
<1>3. s \in threads /\ s \in Slot
  BY <1>1 DEF UseInv, RecOK, Linked, Types
<1>4. CASE Return(n) /\ UNCHANGED <<refcount, detached, state>>
  <2>1. pc'[n] = "run"
    BY <1>1, <1>4 DEF Return, Set, Types
  <2>2. /\ pc[n] \notin Counted \cup Trying \cup {"terminate", "leave", "none"}
        /\ pc'[n] \notin Busy
    BY <1>1, <2>1 DEF Counted, Trying, Busy, Linked
  <2> QED
    BY <1>1, <1>2, <1>4, <2>2, UseQuiet
<1>5. CASE /\ joiner[s] = NoSlot /\ detached' = Set(detached, s, TRUE)
           /\ UNCHANGED state /\ TryCollect(n, s, refcount[s], "run")
  <2>1. \A r \in Slot \ {s} : joiner'[r] = joiner[r] /\ detached'[r] = detached[r]
    BY <1>1, <1>2, <1>3, <1>5 DEF Types, Set
  <2>2. /\ refcount[s] \in Int
        /\ refcount[s] = Run(state[s]) + Cardinality(Holders(s) \ {n})
    BY <1>1, <1>3, OthersHold DEF Holds, Counted
  <2>3. \A m \in Native \ {n} : rec[m] = s => pc[m] \notin {"wait", "joined"}
    BY <1>5, NobodyJoins
  <2> QED
    BY <1>1, <1>2, <1>3, <1>5, <2>1, <2>2, <2>3, UseCall
<1> QED
  BY <1>4, <1>5 DEF Detach

LEMMA UseRefDelete ==
  ASSUME BaseInv, HomesInv, UseInv, NEW n \in Native, RefDelete(n) PROVE UseInv'
<1> SUFFICES ASSUME NEW s, s = rec[n] PROVE UseInv'
  OBVIOUS
<1>1. Only(n) /\ pc[n] = "unref" /\ Types
  BY RefDeleteBase DEF BaseInv
<1>2. /\ UNCHANGED <<tid, state, joiner, detached, ret, threads, gc_list, curthread>>
      /\ TryCollect(n, s, refcount[s] - 1, "run")
  BY DEF RefDelete, listVars
<1>3. s \in threads /\ s \in Slot
  BY <1>1 DEF UseInv, RecOK, Linked, Types
<1>4. /\ refcount[s] - 1 \in Int
      /\ refcount[s] - 1 = Run(state[s]) + Cardinality(Holders(s) \ {n})
  BY <1>1, <1>3, OthersHold DEF Holds, Counted
<1> QED
  BY <1>1, <1>2, <1>3, <1>4, UseCall

LEMMA UseRefAdd ==
  ASSUME BaseInv, HomesInv, UseInv, NEW n \in Native, RefAdd(n) PROVE UseInv'
<1> SUFFICES ASSUME NEW s, s = rec[n] PROVE UseInv'
  OBVIOUS
<1>1. Only(n) /\ pc[n] = "found" /\ (pc'[n] # "run" => rec'[n] = rec[n]) /\ Types
  BY RefAddBase DEF BaseInv
<1>2. UNCHANGED <<tid, state, joiner, detached, ret, threads, gc_list, curthread>>
  BY DEF RefAdd, Found
<1>3. s \in threads /\ s \in Slot /\ RecordOK(s)
  BY <1>1 DEF UseInv, RecOK, Linked, Types
<1>4. CASE Return(n) /\ UNCHANGED refcount
  <2>1. pc'[n] = "run"
    BY <1>1, <1>4 DEF Return, Set, Types
  <2>2. /\ pc[n] \notin Counted \cup Trying \cup {"terminate", "leave", "none"}
        /\ pc'[n] \notin Busy
    BY <1>1, <2>1 DEF Counted, Trying, Busy, Linked
  <2> QED
    BY <1>1, <1>2, <1>4, <2>2, UseQuiet
<1>5. CASE state[s] # "Dead" /\ refcount' = Set(refcount, s, refcount[s] + 1) /\ Goto(n, "named")
  <2>1. /\ pc'[n] = "named" /\ rec'[n] = s
        /\ refcount'[s] = refcount[s] + 1 /\ \A r \in Slot \ {s} : refcount'[r] = refcount[r]
    BY <1>1, <1>3, <1>5 DEF Goto, Set, Types
  <2>2. \A r \in Slot \ {s} : Same(r) /\ (Holds(n, r)' <=> Holds(n, r))
    BY <1>1, <1>2, <2>1 DEF Same, Holds, Counted
  <2>3. Alive(n) /\ Alive(n)' /\ ~Exited(n) /\ ~Exited(n)' /\ OwnOK(n)
    BY <1>1, <2>1 DEF Alive, Exited, Trying, UseInv
  <2>4. OwnOK(n)' /\ RecOK(n)'
    BY <1>2, <1>3, <2>1, <2>3 DEF OwnOK, RecOK, Linked
  <2>5. RecordOK(s)'
    <3>1. Cardinality(Holders(s)') = Cardinality(Holders(s)) + 1
      BY <1>1, <2>1, HoldersStep DEF Holds, Counted
    <3>2. PICK c \in Nat : c = Cardinality(Holders(s))
      BY HoldersFinite
    <3>3. state[s] = "Running" /\ state'[s] = "Running"
      BY <1>1, <1>2, <1>3, <1>5 DEF Types
    <3>4. refcount[s] = 1 + c
      BY <1>3, <3>2, <3>3 DEF RecordOK
    <3>5. refcount'[s] = 1 + (c + 1) /\ Cardinality(Holders(s)') = c + 1
          /\ c + 1 \in Nat /\ 1 + (c + 1) > 0
      BY <2>1, <3>1, <3>2, <3>4
    <3>6. s \notin Range(gc_list)
      BY <1>3, ThreadsNotGc
    <3> QED
      BY <1>2, <1>3, <3>3, <3>5, <3>6 DEF RecordOK, ShouldCollect
  <2>6. ASSUME NEW m \in Native \ {n}, Alive(m), curthread[m] = s PROVE OwnOK(m)'
    <3>1. OwnOK(m) /\ pc'[m] = pc[m] /\ after'[m] = after[m]
      BY <1>1 DEF Only, UseInv
    <3> QED
      BY <1>2, <3>1 DEF OwnOK, Alive, Exited
  <2>7. ASSUME NEW m \in Native \ {n}, rec[m] = s PROVE RecOK(m)'
    <3>1. RecOK(m) /\ pc'[m] = pc[m] /\ rec'[m] = rec[m] /\ pc[m] # "link"
      BY <1>1, <1>3, <2>7, NotMade DEF Only, UseInv
    <3> QED
      BY <1>2, <3>1 DEF RecOK
  <2> QED
    BY <1>1, <1>2, <1>3, <2>1, <2>2, <2>3, <2>4, <2>5, <2>6, <2>7, UseRecord
<1> QED
  BY <1>4, <1>5 DEF RefAdd

LEMMA UseTcCollect ==
  ASSUME BaseInv, HomesInv, UseInv, NEW n \in Native, TcCollect(n) PROVE UseInv'
<1> SUFFICES ASSUME NEW s, s = rec[n] PROVE UseInv'
  OBVIOUS
<1> DEFINE gone == refcount[s] = 1 /\ state[s] = "Dead" /\ detached[s]
<1>1. /\ Only(n) /\ pc[n] = "tc_lock" /\ pc'[n] = "tc_unlock" /\ rec'[n] = rec[n]
      /\ Types /\ LocalOK(n)
  BY TcCollectBase DEF BaseInv
<1>2. /\ UNCHANGED <<tid, state, joiner, detached, ret, curthread, after>>
      /\ refcount' = [refcount EXCEPT ![s] = refcount[s] - 1]
      /\ threads' = IF gone THEN threads \ {s} ELSE threads
      /\ gc_list' = IF gone THEN Append(gc_list, s) ELSE gc_list
  BY DEF TcCollect, Set
<1>3. s \in threads /\ s \in Slot /\ s \notin Range(gc_list) /\ RecordOK(s)
  BY <1>1, ThreadsNotGc DEF UseInv, RecOK, Linked, Types
<1>4. Range(gc_list') = Range(gc_list) \cup (IF gone THEN {s} ELSE {})
  <2>1. gc_list \in Seq(Slot)
    BY <1>1 DEF Types
  <2>2. Range(Append(gc_list, s)) = Range(gc_list) \cup {s}
    BY <1>3, <2>1, AppendSeq
  <2> QED
    BY <1>2, <2>2
<1>5. /\ refcount[s] - 1 \in Int
      /\ refcount[s] - 1 = Run(state[s]) + Cardinality(Holders(s) \ {n})
  BY <1>1, <1>3, OthersHold DEF Holds, Counted
<1>6. refcount'[s] = refcount[s] - 1 /\ \A r \in Slot \ {s} : refcount'[r] = refcount[r]
  BY <1>1, <1>2, <1>3 DEF Types
<1>7. \A r \in Slot \ {s} : Same(r) /\ (Holds(n, r)' <=> Holds(n, r))
  BY <1>1, <1>2, <1>4, <1>6 DEF Same, Holds, Counted
<1>8. Holders(s)' = Holders(s) \ {n}
  BY <1>1 DEF Only, Holders, At, Counted
<1>9. PICK held \in Nat : held = Cardinality(Holders(s) \ {n})
  <2>1. IsFiniteSet(Holders(s) \ {n})
    BY HoldersFinite, FS_Subset
  <2> QED
    BY <2>1, FS_CardinalityType
<1>10. PICK r \in {0, 1} : r = Run(state[s])
  BY DEF Run
<1>11. refcount[s] = r + held + 1
  <2>1. refcount[s] - 1 = r + held /\ refcount[s] \in Int
    BY <1>1, <1>3, <1>5, <1>9, <1>10 DEF Types
  <2> QED
    BY <1>9, <1>10, <2>1
<1>12. RecordOK(s)'
  <2>1. refcount'[s] = r + held /\ Run(state'[s]) = r /\ Cardinality(Holders(s)') = held
        /\ r + held >= 0
    BY <1>2, <1>6, <1>8, <1>9, <1>10, <1>11
  <2>2. gone <=> r + held = 0 /\ state[s] = "Dead" /\ detached[s]
    BY <1>9, <1>10, <1>11
  <2>3. CASE gone
    <3>1. s \notin threads' /\ refcount'[s] = 0 /\ state'[s] = "Dead" /\ detached'[s]
      BY <1>2, <2>1, <2>2, <2>3
    <3> QED
      BY <3>1 DEF RecordOK, ShouldCollect
  <2>4. CASE ~gone
    <3>1. ~ShouldCollect(s)' /\ s \notin Range(gc_list)'
      BY <1>2, <1>3, <2>1, <2>2, <2>4 DEF ShouldCollect
    <3>2. tid'[s] = "terminated" => ret'[s] = "saved"
      BY <1>2, <1>3 DEF RecordOK
    <3> QED
      BY <2>1, <3>1, <3>2 DEF RecordOK, Run
  <2> QED
    BY <2>3, <2>4
<1>13. \A m \in Native \ {n} : gone => ~Holds(m, s)
  <2> SUFFICES ASSUME NEW m \in Native \ {n}, gone, Holds(m, s) PROVE FALSE
    OBVIOUS
  <2>1. held = 0
    BY <1>9, <1>10, <1>11
  <2>2. Holders(s) \ {n} = {}
    <3>1. IsFiniteSet(Holders(s) \ {n})
      BY HoldersFinite, FS_Subset
    <3> QED
      BY <1>9, <2>1, <3>1, FS_EmptySet
  <2> QED
    BY <2>2 DEF Holds, Holders, At
<1>14. ASSUME NEW m \in Native, Alive(m), curthread[m] = s PROVE OwnOK(m)'
  <2>1. OwnOK(m) /\ after'[m] = after[m]
    BY <1>2 DEF UseInv
  <2>2. (Alive(m)' <=> Alive(m)) /\ (Exited(m)' <=> Exited(m)) /\ (pc'[m] = "exit" <=> pc[m] = "exit")
    BY <1>1, <2>1 DEF Only, Alive, Exited, Trying
  <2> QED
    BY <1>2, <1>3, <1>4, <1>14, <2>1, <2>2 DEF OwnOK
<1>15. OwnOK(n)'
  <2>1. Alive(n) /\ Alive(n)' /\ curthread[n] \in Slot
    BY <1>1, OwnPlace DEF Alive
  <2>2. Exited(n)' <=> Exited(n)
    BY <1>1, <1>2 DEF Exited, Trying
  <2>3. CASE curthread[n] # s
    BY <1>1, <1>2, <1>7, <2>1, <2>2, <2>3, OwnStays
  <2> QED
    BY <1>14, <2>1, <2>3
<1>16. RecOK(n)'
  BY <1>1 DEF RecOK, Linked
<1>17. ASSUME NEW m \in Native \ {n}, rec[m] = s PROVE RecOK(m)'
  <2>1. /\ RecOK(m) /\ pc'[m] = pc[m] /\ rec'[m] = rec[m] /\ pc[m] # "link"
        /\ LocalOK(m) /\ m # n
    BY <1>1, <1>3, <1>17, NotMade DEF Only, UseInv, BaseInv
  <2>2. gone => pc[m] \notin Linked
    <3> SUFFICES ASSUME gone, pc[m] \in Linked PROVE FALSE
      OBVIOUS
    <3>1. pc[m] \notin Counted
      BY <1>13, <1>17 DEF Holds
    <3>2. pc[m] # "spawn"
      BY <1>17, <2>1 DEF RecOK
    <3>3. pc[m] # "found"
      BY <1>1, <2>1 DEF LocalOK
    <3>4. pc[m] \notin {"wait", "joined"}
      BY <1>17, <2>1 DEF RecOK
    <3> QED
      BY <3>1, <3>2, <3>3, <3>4 DEF Linked, Counted
  <2> QED
    BY <1>2, <1>17, <2>1, <2>2 DEF RecOK, Linked
<1>18. Alive(n) /\ pc'[n] # "spawn"
  BY <1>1 DEF Alive
<1> HIDE DEF gone
<1> QED
  BY <1>1, <1>2, <1>3, <1>7, <1>12, <1>14, <1>15, <1>16, <1>17, <1>18, UseRecord

LEMMA UseSpawn ==
  ASSUME BaseInv, HomesInv, UseInv, NEW n \in Native, Spawn(n) PROVE UseInv'
<1>1. Types
  BY DEF BaseInv
<1>2. PICK m \in Native, label \in {"affinity", "run"} :
        /\ pc[n] = "spawn" /\ pc[m] = "none"
        /\ pc' = [[pc EXCEPT ![m] = "run"] EXCEPT ![n] = label]
        /\ curthread' = [curthread EXCEPT ![m] = rec[n]]
        /\ rec' = IF label = "run" THEN [rec EXCEPT ![n] = NoSlot] ELSE rec
  BY DEF Spawn, Set
<1>3. UNCHANGED <<tid, refcount, state, joiner, detached, ret, threads, gc_list, after>>
  BY DEF Spawn, recordVars, listVars
<1>4. /\ n # m /\ pc'[n] = label /\ pc'[m] = "run" /\ curthread'[m] = rec[n]
      /\ \A k \in Native \ {n, m} : pc'[k] = pc[k]
      /\ \A k \in Native \ {m} : curthread'[k] = curthread[k]
      /\ \A k \in Native \ {n} : rec'[k] = rec[k]
  BY <1>1, <1>2 DEF Types
<1>5. RecOK(n) /\ rec[n] \in threads
  BY <1>2 DEF UseInv, RecOK, Linked
<1>6. ASSUME NEW k \in Native PROVE OwnOK(k)'
  <2>1. OwnOK(k)
    BY DEF UseInv
  <2>2. CASE k = m
    <3>1. ~Exited(m)' /\ pc'[m] # "exit"
      BY <1>4 DEF Exited, Trying
    <3> QED
      BY <1>2, <1>3, <1>4, <1>5, <2>2, <3>1 DEF OwnOK, RecOK
  <2>3. CASE k = n
    <3>1. ~Exited(n)' /\ pc'[n] # "exit" /\ Alive(n) /\ ~Exited(n)
      BY <1>2, <1>4 DEF Exited, Trying, Alive
    <3> QED
      BY <1>3, <1>4, <2>1, <2>3, <3>1 DEF OwnOK
  <2>4. CASE k \notin {n, m}
    BY <1>3, <1>4, <2>1, <2>4 DEF OwnOK, Alive, Exited
  <2> QED
    BY <2>2, <2>3, <2>4
<1>7. ASSUME NEW k \in Native PROVE RecOK(k)'
  <2>1. RecOK(k)
    BY DEF UseInv
  <2>2. CASE k \in {n, m}
    <3>1. pc'[k] \in {"affinity", "run"}
      BY <1>4, <2>2
    <3> QED
      BY <3>1 DEF RecOK, Linked
  <2>3. CASE k \notin {n, m}
    BY <1>3, <1>4, <2>1, <2>3 DEF RecOK
  <2> QED
    BY <2>2, <2>3
<1>8. ASSUME NEW j \in Native, NEW k \in Native PROVE Apart(j, k)'
  <2>1. Apart(j, k) /\ Apart(n, j) /\ Apart(n, k) /\ Apart(j, n)
    BY DEF UseInv
  <2>2. \A i \in {j, k} \ {m} : Alive(i)' => Alive(i)
    BY <1>2, <1>4 DEF Alive
  <2>3. \A i \in {j, k} : pc'[i] = "spawn" => pc[i] = "spawn" /\ i # n /\ i # m /\ rec'[i] = rec[i]
    BY <1>2, <1>4
  <2>4. j # k /\ Alive(j)' /\ Alive(k)' => curthread'[j] # curthread'[k]
    <3>1. CASE m \notin {j, k}
      BY <1>4, <2>1, <2>2, <3>1 DEF Apart
    <3>2. CASE j = m /\ k # m
      BY <1>2, <1>4, <2>1, <2>2, <3>2 DEF Apart
    <3>3. CASE k = m /\ j # m
      BY <1>2, <1>4, <2>1, <2>2, <3>3 DEF Apart
    <3> QED
      BY <3>1, <3>2, <3>3
  <2>5. pc'[j] = "spawn" /\ Alive(k)' => rec'[j] # curthread'[k]
    <3>1. CASE k = m
      BY <1>2, <1>4, <2>1, <2>3, <3>1 DEF Apart
    <3>2. CASE k # m
      BY <1>4, <2>1, <2>2, <2>3, <3>2 DEF Apart
    <3> QED
      BY <3>1, <3>2
  <2>6. j # k /\ pc'[j] = "spawn" /\ pc'[k] = "spawn" => rec'[j] # rec'[k]
    BY <2>1, <2>3 DEF Apart
  <2> QED
    BY <2>4, <2>5, <2>6 DEF Apart
<1>9. ASSUME NEW r \in Slot PROVE RecordOK(r)'
  <2>1. \A k \in Native : Holds(k, r)' <=> Holds(k, r)
    BY <1>2, <1>4 DEF Holds, Counted
  <2>2. Holders(r)' = Holders(r)
    BY <2>1 DEF Holders, At, Holds
  <2>3. RecordOK(r)
    BY DEF UseInv
  <2> QED
    BY <1>3, <2>2, <2>3 DEF RecordOK, ShouldCollect
<1> QED
  BY <1>6, <1>7, <1>8, <1>9 DEF UseInv

LEMMA UseInit == Init => UseInv
<1> SUFFICES ASSUME Init PROVE UseInv
  OBVIOUS
<1>1. PICK main \in Native, s \in Slot :
        /\ tid = [r \in Slot |-> IF r = s THEN "alive" ELSE "terminated"]
        /\ refcount = [r \in Slot |-> IF r = s THEN 1 ELSE 0]
        /\ state = [r \in Slot |-> "Running"]
        /\ threads = {s} /\ gc_list = <<>>
        /\ pc = [n \in Native |-> IF n = main THEN "run" ELSE "none"]
        /\ curthread = [n \in Native |-> IF n = main THEN s ELSE NoSlot]
  BY DEF Init
<1>2. ASSUME NEW n \in Native PROVE OwnOK(n) /\ RecOK(n)
  <2>1. pc[n] \in {"run", "none"} /\ (pc[n] = "run" => n = main)
    BY <1>1
  <2>2. ~Exited(n) /\ pc[n] # "exit"
    BY <2>1 DEF Exited, Trying
  <2>3. Alive(n) => curthread[n] = s
    BY <1>1, <2>1 DEF Alive
  <2> QED
    BY <1>1, <2>1, <2>2, <2>3 DEF OwnOK, RecOK, Linked
<1>3. ASSUME NEW n \in Native, NEW m \in Native PROVE Apart(n, m)
  BY <1>1 DEF Apart, Alive
<1>4. ASSUME NEW r \in Slot PROVE RecordOK(r)
  <2>1. Holders(r) = {}
    BY <1>1 DEF Holders, At, Counted
  <2>2. Cardinality(Holders(r)) = 0
    BY <2>1, FS_EmptySet
  <2>3. Range(gc_list) = {}
    BY <1>1 DEF Range
  <2>4. refcount[r] = (IF r = s THEN 1 ELSE 0) /\ state[r] = "Running"
    BY <1>1
  <2>5. r \in threads => r = s /\ tid[r] = "alive"
    BY <1>1
  <2> QED
    BY <2>2, <2>3, <2>4, <2>5 DEF RecordOK, ShouldCollect
<1> QED
  BY <1>2, <1>3, <1>4 DEF UseInv

LEMMA UseStep == BaseInv /\ HomesInv /\ UseInv /\ [Next]_vars => UseInv'
<1> SUFFICES ASSUME BaseInv, HomesInv, UseInv, [Next]_vars PROVE UseInv'
  OBVIOUS
<1>1. CASE UNCHANGED vars
  BY <1>1 DEF UseInv, OwnOK, RecOK, Apart, RecordOK, Alive, Exited, Holders, At, ShouldCollect,
     vars, recordVars, listVars, nativeVars
<1>2. ASSUME NEW n \in Native,
             \/ Create(n)     \/ Collect(n)     \/ Free(n)       \/ Shrink(n)
             \/ Collected(n)  \/ TakeCached(n)  \/ Room(n)       \/ Grow(n)
             \/ TakeHeap(n)   \/ Ungrow(n)      \/ StackFails(n) \/ Link(n)
             \/ Spawn(n)      \/ SpawnFails(n)  \/ Affinity(n)
      PROVE  UseInv'
  BY <1>2, UseCreation, UseCollect, UseTake, UseLink, UseSpawn
<1>3. ASSUME NEW n \in Native,
             \/ Exit(n)       \/ ExitThread(n)  \/ Terminate(n)  \/ Leave(n)
             \/ Call(n)       \/ FindThread(n)
             \/ JoinClaim(n)  \/ JoinWake(n)    \/ JoinRelease(n)
             \/ Detach(n)     \/ RefAdd(n)      \/ GetName(n)    \/ RefDelete(n)
             \/ TcList(n)     \/ TcCollect(n)   \/ TcUnlock(n)
      PROVE  UseInv'
  BY <1>3, UseExit, UseExitThread, UseTerminate, UseLeave, UseCreation, UseFind, UseJoinClaim,
     UseJoinWake, UseJoinRelease, UseDetach, UseRefAdd, UseHeld, UseRefDelete, UseTcCollect,
     UseTcUnlock
<1> QED
  BY <1>1, <1>2, <1>3 DEF Next

-----------------------------------------------------------------------------
(* The locks, the records destroyed, and the theorems.                    *)

(* A thread lock that is held between two steps is held by whoever is      *)
(* about to give it back, after the list lock.                             *)
LockHeld ==
  \A s \in Slot :
    lock[s] # NoNative => pc[lock[s]] = "tc_unlock" /\ rec[lock[s]] = s

LockInv ==
  /\ lock \in [Slot -> Native \cup {NoNative}]
  /\ DOMAIN pc = Native /\ DOMAIN rec = Native
  /\ LockHeld

(* A step of a thread that is not giving a lock back.                      *)
LEMMA OtherStep ==
  ASSUME LockInv, NEW n \in Native, pc[n] # "tc_unlock",
         lock' = lock \/ \E r : lock' = Set(lock, r, NoNative),
         DOMAIN pc' = Native, DOMAIN rec' = Native,
         \A m \in Native \ {n} :
           pc[m] = "tc_unlock" => pc'[m] = "tc_unlock" /\ rec'[m] = rec[m]
  PROVE  LockInv'
<1>1. lock' \in [Slot -> Native \cup {NoNative}]
  BY DEF LockInv, Set
<1>2. \A s \in Slot : lock'[s] # NoNative => lock'[s] = lock[s] /\ lock[s] \in Native \ {n}
  BY DEF LockInv, LockHeld, Set
<1>3. LockHeld'
  BY <1>2 DEF LockInv, LockHeld
<1> QED
  BY <1>1, <1>3 DEF LockInv

(* A step that goes to a label, and one that returns.                      *)
LEMMA Moves ==
  ASSUME DOMAIN pc = Native, DOMAIN rec = Native, NEW n \in Native
  PROVE  /\ \A label : Goto(n, label) =>
              /\ DOMAIN pc' = Native /\ DOMAIN rec' = Native
              /\ \A m \in Native \ {n} : pc'[m] = pc[m] /\ rec'[m] = rec[m]
         /\ Return(n) =>
              /\ DOMAIN pc' = Native /\ DOMAIN rec' = Native
              /\ \A m \in Native \ {n} : pc'[m] = pc[m] /\ rec'[m] = rec[m]
         /\ \A label, s : pc' = Set(pc, n, label) /\ rec' = Set(rec, n, s) =>
              /\ DOMAIN pc' = Native /\ DOMAIN rec' = Native
              /\ \A m \in Native \ {n} : pc'[m] = pc[m] /\ rec'[m] = rec[m]
         /\ \A label : pc' = Set(pc, n, label) /\ UNCHANGED rec =>
              /\ DOMAIN pc' = Native /\ DOMAIN rec' = Native
              /\ \A m \in Native \ {n} : pc'[m] = pc[m] /\ rec'[m] = rec[m]
  BY DEF Goto, Return, Set

(* Neither does TryCollect leave a lock held.                              *)
LEMMA TryCollectStep ==
  ASSUME LockInv, NEW n \in Native, pc[n] # "tc_unlock",
         NEW s, NEW count, NEW return, TryCollect(n, s, count, return)
  PROVE  LockInv'
<1>1. /\ lock' = lock
      /\ \/ pc' = Set(pc, n, "tc_list") /\ rec' = Set(rec, n, s)
         \/ Return(n) \/ Goto(n, return)
  BY DEF TryCollect
<1>2. /\ DOMAIN pc' = Native /\ DOMAIN rec' = Native
      /\ \A m \in Native \ {n} : pc'[m] = pc[m] /\ rec'[m] = rec[m]
  BY <1>1, Moves DEF LockInv
<1> QED
  BY <1>1, <1>2, OtherStep

LEMMA LockStep ==
  ASSUME LockInv, [Next]_vars
  PROVE  LockInv'
<1>0. DOMAIN pc = Native /\ DOMAIN rec = Native
  BY DEF LockInv
<1>1. CASE UNCHANGED vars
  BY <1>1 DEF vars, recordVars, nativeVars, LockInv, LockHeld
(* One thread moves, and no lock is taken.                                 *)
<1>2. ASSUME NEW n \in Native, pc[n] # "tc_unlock",
             lock' = lock \/ \E r : lock' = Set(lock, r, NoNative),
             \/ \E label : Goto(n, label)
             \/ Return(n)
             \/ \E label, s : pc' = Set(pc, n, label) /\ rec' = Set(rec, n, s)
             \/ \E label : pc' = Set(pc, n, label) /\ UNCHANGED rec
      PROVE  LockInv'
  <2>1. /\ DOMAIN pc' = Native /\ DOMAIN rec' = Native
        /\ \A m \in Native \ {n} : pc'[m] = pc[m] /\ rec'[m] = rec[m]
    BY <1>0, <1>2, Moves
  <2> QED
    BY <1>2, <2>1, OtherStep
<1>3. ASSUME NEW n \in Native,
             \/ Create(n) \/ Collect(n) \/ Shrink(n) \/ Collected(n) \/ Room(n)
             \/ Grow(n) \/ Ungrow(n) \/ Link(n) \/ SpawnFails(n) \/ Affinity(n)
             \/ Exit(n) \/ Terminate(n) \/ FindThread(n) \/ JoinWake(n) \/ GetName(n)
             \/ TcList(n)
      PROVE  LockInv'
  BY <1>2, <1>3 DEF Create, Collect, Shrink, Collected, Room, Grow, Ungrow, Link,
                    SpawnFails, Affinity, Exit, Terminate, FindThread, JoinWake, GetName,
                    TcList, recordVars
<1>4. ASSUME NEW n \in Native, Free(n) \/ StackFails(n) PROVE LockInv'
  BY <1>2, <1>4 DEF Free, StackFails, recordVars
<1>5. ASSUME NEW n \in Native, TakeCached(n) \/ TakeHeap(n) PROVE LockInv'
  <2>1. ASSUME NEW s, Construct(n, s), pc[n] # "tc_unlock" PROVE LockInv'
    BY <1>2, <2>1 DEF Construct
  <2>2. pc[n] # "tc_unlock"
    BY <1>5 DEF TakeCached, TakeHeap
  <2>3. \/ (\E label : Goto(n, label)) /\ UNCHANGED recordVars
        \/ \E s : Construct(n, s)
    BY <1>5 DEF TakeCached, TakeHeap
  <2> QED
    BY <1>2, <2>1, <2>2, <2>3 DEF recordVars
(* The new thread was at no label of a lock's owner.                       *)
<1>6. ASSUME NEW n \in Native, Spawn(n) PROVE LockInv'
  <2>1. PICK m \in Native, label \in {"affinity", "run"} :
          /\ pc[m] = "none" /\ pc[n] = "spawn"
          /\ pc' = Set(Set(pc, m, "run"), n, label)
          /\ rec' = IF label = "run" THEN Set(rec, n, NoSlot) ELSE rec
          /\ lock' = lock
    BY <1>6 DEF Spawn, recordVars
  <2> QED
    BY <1>0, <2>1, OtherStep DEF Set
<1>7. ASSUME NEW n \in Native, Leave(n) \/ Call(n) PROVE LockInv'
  BY <1>2, <1>7 DEF Leave, Call, recordVars
<1>8. ASSUME NEW n \in Native, JoinClaim(n) \/ RefAdd(n) PROVE LockInv'
  BY <1>2, <1>8 DEF JoinClaim, RefAdd, Found
<1>9. ASSUME NEW n \in Native, ExitThread(n) \/ JoinRelease(n) \/ RefDelete(n)
      PROVE  LockInv'
  <2>1. pc[n] # "tc_unlock" /\ \E s, count, return : TryCollect(n, s, count, return)
    BY <1>9 DEF ExitThread, JoinRelease, RefDelete
  <2> QED
    BY <2>1, TryCollectStep
<1>10. ASSUME NEW n \in Native, Detach(n) PROVE LockInv'
  <2>1. /\ pc[n] # "tc_unlock"
        /\ \/ Return(n) /\ UNCHANGED lock
           \/ \E s, count, return : TryCollect(n, s, count, return)
    BY <1>10 DEF Detach, Found
  <2> QED
    BY <1>2, <2>1, TryCollectStep
(* The one step that leaves a lock held ...                                *)
<1>11. ASSUME NEW n \in Native, TcCollect(n) PROVE LockInv'
  <2>1. /\ pc[n] = "tc_lock" /\ lock' = Set(lock, rec[n], n)
        /\ pc' = Set(pc, n, "tc_unlock") /\ rec' = rec
    BY <1>11 DEF TcCollect, Goto
  <2>2. /\ lock' \in [Slot -> Native \cup {NoNative}]
        /\ DOMAIN pc' = Native /\ DOMAIN rec' = Native
    BY <2>1 DEF LockInv, Set
  <2>3. LockHeld'
    BY <2>1 DEF LockInv, LockHeld, Set
  <2> QED
    BY <2>2, <2>3 DEF LockInv
(* ... and the one that gives it back.                                     *)
<1>12. ASSUME NEW n \in Native, TcUnlock(n) PROVE LockInv'
  <2>1. /\ lock' = Set(lock, rec[n], NoNative)
        /\ Return(n) \/ Goto(n, after[n])
    BY <1>12 DEF TcUnlock
  <2>2. /\ DOMAIN pc' = Native /\ DOMAIN rec' = Native
        /\ \A m \in Native \ {n} : pc'[m] = pc[m] /\ rec'[m] = rec[m]
    BY <1>0, <2>1, Moves
  <2>3. lock' \in [Slot -> Native \cup {NoNative}]
    BY <2>1 DEF LockInv, Set
  <2>4. \A s \in Slot : lock'[s] # NoNative => lock'[s] = lock[s] /\ lock[s] \in Native \ {n}
    BY <2>1 DEF LockInv, LockHeld, Set
  <2>5. LockHeld'
    BY <2>2, <2>4 DEF LockInv, LockHeld
  <2> QED
    BY <2>2, <2>3, <2>5 DEF LockInv
<1> QED
  BY <1>1, <1>3, <1>4, <1>5, <1>6, <1>7, <1>8, <1>9, <1>10, <1>11, <1>12 DEF Next

(* A record that was destroyed under a native thread that still uses it.   *)
LostInv == lost \subseteq Native \X Slot /\ TouchedAlive

LEMMA LostStep ==
  ASSUME LostInv, NEW n \in Native, Only(n), lost' \subseteq lost,
         \A s \in Slot : <<n, s>> \in lost' => ~LateTouch(n, s)
  PROVE  LostInv'
<1>1. ASSUME NEW p \in lost' PROVE LateTouch(p[1], p[2])'
  <2>1. PICK m \in Native, s \in Slot : p = <<m, s>>
    BY <1>1 DEF LostInv
  <2>2. LateTouch(m, s)
    BY <1>1, <2>1 DEF LostInv, TouchedAlive
  <2>3. m # n
    BY <1>1, <2>1, <2>2
  <2> QED
    BY <2>1, <2>2, <2>3 DEF LateTouch, Only
<1> QED
  BY <1>1 DEF LostInv, TouchedAlive

(* Most steps are taken at a label where no touch is late.                 *)
LEMMA LostEarly ==
  ASSUME LostInv, NEW n \in Native, Only(n), lost' \subseteq lost,
         pc[n] \notin {"leave", "affinity", "tc_unlock"}
  PROVE  LostInv'
BY LostStep DEF LateTouch

LEMMA LostMoves ==
  ASSUME NEW n \in Native
  PROVE  /\ Return(n) => lost' \subseteq lost
         /\ \A label : Goto(n, label) => lost' \subseteq lost
         /\ \A s : Construct(n, s) => lost' \subseteq lost
BY DEF Return, Goto, Construct

LEMMA LostTry ==
  ASSUME NEW n, NEW s, NEW count, NEW return, TryCollect(n, s, count, return)
  PROVE  lost' \subseteq lost
BY DEF TryCollect, Return, Goto

LEMMA LostQuiet ==
  ASSUME BaseInv, LostInv, NEW n \in Native,
         \/ Create(n)     \/ Collect(n)     \/ Shrink(n)     \/ Collected(n) \/ TakeCached(n)
         \/ Room(n)       \/ Grow(n)        \/ TakeHeap(n)   \/ Ungrow(n)    \/ StackFails(n)
         \/ Link(n)       \/ SpawnFails(n)  \/ Exit(n)       \/ ExitThread(n)
         \/ Terminate(n)  \/ Call(n)        \/ FindThread(n) \/ JoinClaim(n) \/ JoinWake(n)
         \/ JoinRelease(n) \/ Detach(n)     \/ RefAdd(n)     \/ GetName(n)   \/ RefDelete(n)
         \/ TcList(n)     \/ TcCollect(n)
  PROVE  LostInv'
<1>1. Only(n) /\ pc[n] \notin {"leave", "affinity", "tc_unlock"}
  BY CreateBase, CollectBase, ShrinkBase, CollectedBase, TakeBase, RoomBase, GrowBase, UngrowBase,
     StackFailsBase, LinkBase, SpawnFailsBase, ExitBase, ExitThreadBase, TerminateBase, CallBase,
     FindThreadBase, JoinClaimBase, JoinWakeBase, JoinReleaseBase, DetachBase, RefAddBase,
     GetNameBase, RefDeleteBase, TcListBase, TcCollectBase
<1>2. CASE \/ Create(n) \/ Collect(n) \/ Shrink(n) \/ Collected(n) \/ TakeCached(n) \/ Room(n)
           \/ Grow(n) \/ TakeHeap(n) \/ Ungrow(n) \/ StackFails(n) \/ Link(n) \/ SpawnFails(n)
  <2>1. lost' \subseteq lost
    BY <1>2, LostMoves DEF Create, Collect, Shrink, Collected, TakeCached, Room, Grow, TakeHeap,
       Ungrow, StackFails, Link, SpawnFails
  <2> QED
    BY <1>1, <2>1, LostEarly
<1>3. CASE \/ Exit(n) \/ Terminate(n) \/ Call(n) \/ FindThread(n) \/ JoinClaim(n) \/ JoinWake(n)
           \/ RefAdd(n) \/ GetName(n) \/ TcList(n) \/ TcCollect(n)
  <2>1. lost' \subseteq lost
    BY <1>3, LostMoves DEF Exit, Terminate, Call, FindThread, JoinClaim, JoinWake, RefAdd,
       GetName, TcList, TcCollect
  <2> QED
    BY <1>1, <2>1, LostEarly
<1>4. CASE ExitThread(n) \/ JoinRelease(n) \/ Detach(n) \/ RefDelete(n)
  <2>1. lost' \subseteq lost
    BY <1>4, LostMoves, LostTry DEF ExitThread, JoinRelease, Detach, RefDelete
  <2> QED
    BY <1>1, <2>1, LostEarly
<1> QED
  BY <1>2, <1>3, <1>4

(* The late touches end with the next step of who makes them.              *)
LEMMA LostLate ==
  ASSUME BaseInv, LostInv, NEW n \in Native, Affinity(n) \/ TcUnlock(n) \/ Leave(n)
  PROVE  LostInv'
<1>1. LocalOK(n) /\ Types
  BY DEF BaseInv
<1>2. CASE Affinity(n) \/ (TcUnlock(n) /\ after[n] = "run")
  <2>1. Only(n) /\ Return(n) /\ pc[n] \in {"affinity", "tc_unlock"}
    BY <1>2, AffinityBase, TcUnlockBase DEF Affinity, TcUnlock
  <2>2. /\ lost' \subseteq lost
        /\ \A s \in Slot : <<n, s>> \in lost' => s = curthread[n]
    BY <2>1 DEF Return
  <2> QED
    BY <2>1, <2>2, LostStep DEF LateTouch
<1>3. CASE TcUnlock(n) /\ after[n] # "run"
  <2>1. Only(n) /\ lost' = lost /\ pc[n] = "tc_unlock"
    BY <1>3, TcUnlockBase DEF TcUnlock, Goto
  <2>2. rec[n] \in {NoSlot, curthread[n]}
    BY <1>1, <1>3, <2>1 DEF LocalOK, Exited, Trying
  <2> QED
    BY <2>1, <2>2, ThreadAssumption, LostStep DEF LateTouch
<1>4. CASE Leave(n)
  <2>1. Only(n) /\ lost' = {p \in lost : p[1] # n}
    BY <1>4, LeaveBase DEF Leave
  <2> QED
    BY <2>1, LostStep
<1> QED
  BY <1>2, <1>3, <1>4

LEMMA LostSpawn ==
  ASSUME BaseInv, LostInv, NEW n \in Native, Spawn(n) PROVE LostInv'
<1>1. PICK m \in Native, label \in {"affinity", "run"} :
        /\ pc[n] = "spawn" /\ pc[m] = "none"
        /\ pc' = [[pc EXCEPT ![m] = "run"] EXCEPT ![n] = label]
        /\ curthread' = [curthread EXCEPT ![m] = rec[n]]
        /\ rec' = IF label = "run" THEN [rec EXCEPT ![n] = NoSlot] ELSE rec
        /\ lost' = lost
  BY DEF Spawn, Set
<1>2. ASSUME NEW k \in Native, NEW s \in Slot, <<k, s>> \in lost PROVE LateTouch(k, s)'
  <2>1. LateTouch(k, s)
    BY <1>2 DEF LostInv, TouchedAlive
  <2>2. k # n /\ k # m
    BY <1>1, <2>1 DEF LateTouch
  <2>3. pc'[k] = pc[k] /\ curthread'[k] = curthread[k] /\ rec'[k] = rec[k]
    BY <1>1, <2>2 DEF BaseInv, Types
  <2> QED
    BY <2>1, <2>3 DEF LateTouch
<1> QED
  BY <1>1, <1>2 DEF LostInv, TouchedAlive

(* Whoever still uses a record that a creation took off gc_list.           *)
LEMMA UsersLate ==
  ASSUME BaseInv, HomesInv, UseInv, NEW n \in Native, NEW s \in Slot, s \in Range(work_list[n]),
         NEW m \in Users(s)
  PROVE  LateTouch(m, s)
<1>1. s \notin threads /\ s \notin Range(gc_list) /\ \A k \in Native : pc[k] = "link" => rec[k] # s
  <2>1. OnePlace /\ {InThreads, InGc, InWork(n)} \subseteq Places
        /\ \A k \in Native : InLink(k) \in Places
    BY PlacesAre DEF HomesInv
  <2>2. InWork(n) # InThreads /\ InWork(n) # InGc /\ \A k \in Native : InWork(n) # InLink(k)
    BY DEF InWork, InThreads, InGc, InLink
  <2>3. s \in Records(InWork(n))
    BY RecordsAre
  <2>4. s \notin Records(InThreads) /\ s \notin Records(InGc)
        /\ \A k \in Native : s \notin Records(InLink(k))
    BY <2>1, <2>2, <2>3, Alone
  <2> QED
    BY <2>4, RecordsAre
<1>2. m \in Native /\ LocalOK(m) /\ Types /\ (curthread[m] = s \/ (rec[m] = s /\ pc[m] # "find"))
  BY DEF Users, BaseInv
<1>3. (Alive(m) => curthread[m] # s) /\ (rec[m] = s => pc[m] \notin Linked)
  BY <1>1, <1>2, Untouched
<1>4. s # NoSlot
  BY ThreadAssumption
<1>5. CASE curthread[m] = s
  <2>1. pc[m] = "leave"
    BY <1>2, <1>3, <1>4, <1>5 DEF LocalOK, Alive
  <2> QED
    BY <1>5, <2>1 DEF LateTouch
<1>6. CASE curthread[m] # s /\ rec[m] = s /\ pc[m] # "find"
  <2>1. pc[m] \notin Without /\ pc[m] \notin Linked /\ pc[m] # "link"
    BY <1>1, <1>2, <1>3, <1>4, <1>6 DEF LocalOK
  <2>2. pc[m] \notin {"terminate", "leave"}
    BY <1>2, <1>4, <1>6 DEF LocalOK, Exited
  <2>3. pc[m] \in {"affinity", "tc_unlock"}
    BY <1>2, <1>6, <2>1, <2>2 DEF Types, Labels, Without, Linked
  <2> QED
    BY <1>6, <2>3 DEF LateTouch
<1> QED
  BY <1>2, <1>5, <1>6

LEMMA LostFree ==
  ASSUME BaseInv, HomesInv, UseInv, LostInv, NEW n \in Native, Free(n) PROVE LostInv'
<1>1. PICK s : /\ s = Head(work_list[n]) /\ work_list[n] # <<>>
               /\ lost' = lost \cup (Users(s) \X {s}) /\ pc[n] = "free"
  BY DEF Free
<1>2. Only(n)
  BY FreeBase
<1>3. s \in Slot /\ s \in Range(work_list[n])
  <2>1. work_list[n] \in Seq(Slot)
    BY DEF BaseInv, Types
  <2>2. Head(work_list[n]) \in Slot
        /\ Range(work_list[n]) = {Head(work_list[n])} \cup Range(Tail(work_list[n]))
    BY <1>1, <2>1, TailSeq
  <2> QED
    BY <1>1, <2>2
<1>4. lost' \subseteq Native \X Slot
  BY <1>1, <1>3 DEF LostInv, Users
<1>5. ASSUME NEW p \in lost' PROVE LateTouch(p[1], p[2])'
  <2>1. PICK m \in Native, r \in Slot : p = <<m, r>>
    BY <1>4, <1>5
  <2>2. LateTouch(m, r)
    <3>1. CASE <<m, r>> \in lost
      BY <3>1 DEF LostInv, TouchedAlive
    <3>2. CASE <<m, r>> \in Users(s) \X {s}
      BY <1>3, <3>2, UsersLate
    <3> QED
      BY <1>1, <1>5, <2>1, <3>1, <3>2
  <2>3. m # n
    BY <1>1, <2>2 DEF LateTouch
  <2> QED
    BY <1>2, <2>1, <2>2, <2>3 DEF LateTouch, Only
<1> QED
  BY <1>4, <1>5 DEF LostInv, TouchedAlive

LEMMA LostAlways == BaseInv /\ HomesInv /\ UseInv /\ LostInv /\ [Next]_vars => LostInv'
<1> SUFFICES ASSUME BaseInv, HomesInv, UseInv, LostInv, [Next]_vars PROVE LostInv'
  OBVIOUS
<1>1. CASE UNCHANGED vars
  BY <1>1 DEF LostInv, TouchedAlive, LateTouch, vars, nativeVars
<1>2. ASSUME NEW n \in Native,
             \/ Create(n)     \/ Collect(n)     \/ Free(n)       \/ Shrink(n)
             \/ Collected(n)  \/ TakeCached(n)  \/ Room(n)       \/ Grow(n)
             \/ TakeHeap(n)   \/ Ungrow(n)      \/ StackFails(n) \/ Link(n)
             \/ Spawn(n)      \/ SpawnFails(n)  \/ Affinity(n)
      PROVE  LostInv'
  BY <1>2, LostQuiet, LostFree, LostSpawn, LostLate
<1>3. ASSUME NEW n \in Native,
             \/ Exit(n)       \/ ExitThread(n)  \/ Terminate(n)  \/ Leave(n)
             \/ Call(n)       \/ FindThread(n)
             \/ JoinClaim(n)  \/ JoinWake(n)    \/ JoinRelease(n)
             \/ Detach(n)     \/ RefAdd(n)      \/ GetName(n)    \/ RefDelete(n)
             \/ TcList(n)     \/ TcCollect(n)   \/ TcUnlock(n)
      PROVE  LostInv'
  BY <1>3, LostQuiet, LostLate
<1> QED
  BY <1>1, <1>2, <1>3 DEF Next
ThreadInv == BaseInv /\ HomesInv /\ Total /\ UseInv /\ LostInv

LEMMA ThreadInit == Init => ThreadInv
<1>1. Init => LostInv
  BY DEF Init, LostInv, TouchedAlive
<1> QED
  BY <1>1, BaseInit, HomesInit, TotalInit, UseInit DEF ThreadInv

LEMMA ThreadStep == ThreadInv /\ [Next]_vars => ThreadInv'
<1> SUFFICES ASSUME ThreadInv, [Next]_vars PROVE ThreadInv'
  OBVIOUS
<1>1. BaseInv /\ HomesInv /\ Total /\ UseInv /\ LostInv
  BY DEF ThreadInv
<1>2. \A n \in Native : pc[n] = "tc_lock" => rec[n] \in threads
  BY <1>1 DEF UseInv, RecOK, Linked
<1>3. BaseInv' /\ HomesInv' /\ Total' /\ UseInv' /\ LostInv'
  BY <1>1, <1>2, BaseStep, HomesStep, TotalStep, UseStep, LostAlways
<1> QED
  BY <1>3 DEF ThreadInv

LEMMA ThreadAlways == Spec => []ThreadInv
BY ThreadInit, ThreadStep, PTL DEF Spec

LEMMA TypesHold == ThreadInv /\ LockInv => ThreadTypeOK
<1> SUFFICES ASSUME ThreadInv, LockInv PROVE ThreadTypeOK
  OBVIOUS
<1>1. Types /\ Total /\ LostInv /\ UseInv
  BY DEF ThreadInv, BaseInv
<1>2. lock \in [Slot -> Native \cup {NoNative}]
  BY DEF LockInv
<1>3. refcount \in [Slot -> Nat]
  <2>1. \A s \in Slot : refcount[s] \in Int /\ refcount[s] >= 0
    BY <1>1 DEF UseInv, RecordOK, Types
  <2>2. \A s \in Slot : refcount[s] \in Nat
    BY <2>1
  <2> QED
    BY <1>1, <2>2 DEF Types
<1>4. total_threads \in Nat
  BY <1>1, CountsFinite DEF Total, InBetween
<1> QED
  BY <1>1, <1>2, <1>3, <1>4 DEF Types, LostInv, ThreadTypeOK

(* Every variable of ThreadState, of the records and of the native threads *)
(* keeps its type: no count of references or records goes below 0.         *)
THEOREM ThreadTypes == Spec => []ThreadTypeOK
<1>1. Init => LockInv
  BY DEF Init, LockInv, LockHeld
<1>2. LockInv /\ [Next]_vars => LockInv'
  BY LockStep
<1> QED
  BY <1>1, <1>2, ThreadAlways, TypesHold, PTL DEF Spec

LEMMA HomesAccount == ThreadInv => RecordsAccounted
<1> SUFFICES ASSUME ThreadInv PROVE RecordsAccounted
  OBVIOUS
<1>1. Types /\ OnePlace /\ NoTwice /\ Total
  BY DEF ThreadInv, BaseInv, HomesInv
<1>2. ASSUME NEW q \in Seq(Slot), Once(q) PROVE IsInjective(q)
  BY <1>2 DEF Once, IsInjective
<1>3. \A q \in {gc_list, free_threads} \cup {work_list[n] : n \in Native} : IsInjective(q)
  BY <1>1, <1>2 DEF NoTwice, Types
<1> QED
  BY <1>1, <1>3 DEF RecordsAccounted, OnePlace, Total, InBetween

(* Whatever Alloc, Free, Collect, TryCollect and the creations that fail   *)
(* do at once, no record is lost, in two places or twice in a list, and    *)
(* total_threads counts the ones outside the heap.                         *)
THEOREM RecordsAlwaysAccounted == Spec => []RecordsAccounted
BY ThreadAlways, HomesAccount, PTL

LEMMA UseCollected == ThreadInv => DeadCollected
<1> SUFFICES ASSUME ThreadInv PROVE DeadCollected
  OBVIOUS
<1>1. \A s \in Slot : RecordOK(s)
  BY DEF ThreadInv, UseInv
<1>2. threads \subseteq Slot /\ Range(gc_list) \subseteq Slot
  BY DEF ThreadInv, BaseInv, Types, Range
<1> QED
  BY <1>1, <1>2 DEF DeadCollected, RecordOK, Holders, Counted

(* ExitThread, RefAdd, RefDelete, Detach, JoinThread and TryCollect keep   *)
(* refcount equal to the references there are, and leave no linked record  *)
(* that is dead, detached and unreferenced.                                *)
THEOREM DeadAlwaysCollected == Spec => []DeadCollected
BY ThreadAlways, UseCollected, PTL

(* Free destroys no record that a join, a call with a reference or a       *)
(* thread before its end uses: only the three late touches remain.         *)
THEOREM AliveWhenTouched == Spec => []TouchedAlive
BY ThreadAlways, PTL DEF ThreadInv, LostInv

LEMMA UseReads == ThreadInv => JoinReadsExit
BY DEF ThreadInv, UseInv, RecOK, JoinReadsExit, At

(* A join reads a saved exit value, from a record that it alone has        *)
(* claimed (JoinThread reads pthread->ret without the lock).               *)
THEOREM JoinReadsSaved == Spec => []JoinReadsExit
BY ThreadAlways, UseReads, PTL

(* A thread that waits for a thread lock with the list lock held waits for *)
(* one that wants no lock: the two kinds of lock make no cycle.            *)
THEOREM NoLockCycle == Spec => []LocksOrdered
<1>1. Init => LockInv
  BY DEF Init, LockInv, LockHeld
<1>2. LockInv => LocksOrdered
  BY DEF LockInv, LockHeld, LocksOrdered
<1> QED
  BY <1>1, <1>2, LockStep, PTL DEF Spec
=============================================================================
