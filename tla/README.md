# Verification of the runtime's concurrent core

The runtime executes PlayStation 4 programs: it emulates the guest's kernel,
libraries and GPU on an Android or desktop host (`src/runtime/sources/shadps4`
and the Android shell around it). This directory holds TLA+ models of its
concurrent core, the TLC configurations that check them on small instances, and
proofs of their main invariants that the TLA+ proof system checks for every
instance. `PROJECT.json` ties each definition to the source lines it models.

Paths below are relative to `src/runtime/sources/shadps4/src/`; `threads/` is
`core/libraries/kernel/threads/`.

## Inventory

The part of the program with logic of its own that several threads run at once
is the guest kernel: guest threads are host threads, and every guest mutex,
condition variable, semaphore, event flag and event queue is written here, on
top of the host's primitives. It comes first; the path of a flip, over three
more threads, comes next. Around it are the memory manager,
the video output, the GPU emulation, the guest CPU and some seventy libraries.

| Component | State | Operations | What makes it correct |
|---|---|---|---|
| **Guest mutex** `threads/mutex.cpp` | `m_owner`, `m_count`, flags, a host timed mutex `m_lock` | init, lock, trylock, timed lock, unlock, CvLock/CvUnlock, destroy | one owner at a time; the nesting a client sees is `m_count`; owner and host lock agree outside a call; nobody blocks on itself |
| **Condition variable** `threads/condvar.cpp` | `has_user_waiters`; per thread `wake_sema`, `will_sleep`, `defer_waiters`, `mutex_obj`, `wchan` | wait, timedwait, signal, signalto_np, broadcast | unlock-and-wait is atomic; no signal or wakeup is lost or spent twice; the mutex comes back at its old depth |
| **Sleep queues** `threads/sleepq.cpp` | hash table `sc_table` of chains, `SleepQueue` objects with waiters and spare objects | lock, lookup, add, remove, drop | a waiter is in its channel's queue once; each queue owns one object per waiter; no object is in two places |
| **Kernel semaphore** `threads/semaphore.cpp` | `token_count`, sorted `wait_list`, one host semaphore and three flags per waiter; the slots `orbis_sems` | wait, poll, signal, cancel, delete; POSIX `sem_*` | tokens are conserved; nobody sleeps next to enough tokens; order of service; whoever is released returns with the right result |
| **Event flag** `threads/event_flag.cpp` | `m_bits`, `m_status`, `m_waiting_threads` | wait, poll, set, clear, cancel, delete | nobody sleeps through its bits; a cancel reaches everybody it found and ends |
| Read-write lock `threads/rwlock.cpp`, `common/shared_first_mutex.h` | owner word, read counts, reader-first host lock | rdlock, wrlock, try, timed, unlock | exclusion; unlock by who holds it |
| **Thread life cycle** `threads/pthread.cpp`, `thread_state.cpp` | heap, cache and list of records, `gc_list`; per record the reference count, state, joiner, `tid` | create, exit, join, detach, look up, collect; once, keys | a record is in one place; it is freed once and after its last use; join returns its result; locks are ordered |
| Stacks, TCB, exceptions `threads/stack.cpp`, `tcb.cpp`, `exception.cpp` | free stacks, thread control blocks | allocate, raise | host layout |
| **Event queue** `core/libraries/kernel/equeue.cpp` | map of queues; per queue the events, their triggers and timers, small timers | add, schedule, delete, trigger, callbacks, wait, poll | nobody sleeps next to an event nobody was woken for; a timer in the queue goes on |
| Asynchronous I/O, files, time, process | ids, descriptors | thin wrappers | argument checks |
| Memory manager `core/memory.cpp` | areas of virtual and physical memory | reserve, map, unmap, protect | areas tile the space; split and merge lose nothing |
| Guest memory validation `core/memory_map_generation.h`, `core/guest_cpu/guest_memory_validation_cache.h` | generation, cache of four | begin/end of a change, lookup, insert | no stale mapping is trusted |
| Common containers `common/slot_vector.h`, `spin_lock.cpp`, `bounded_threadsafe_queue.h` | slots, ring | insert, erase, push, pop | order, no loss |
| **Video output** `core/libraries/videoout/`, `core/platform.h` | flip requests, labels, pending counts, interrupt handlers | submit, flip, present, one-time interrupts, register, open, close | each flip is counted until it is shown and is the one that was asked for; a locked label has somebody to clear it, who wakes the GPU thread |
| **GPU command processor** (the path of a flip) `video_core/amdgpu/liverpool.cpp` | queues of submissions and commands, coroutines | submit, process | order within a queue |
| Vulkan renderer, texture and buffer caches, page manager | ticks, caches | submit, wait, invalidate | no use before completion |
| Shader recompiler, loader, linker | - | sequential translation | data |
| FEX guest CPU `core/guest_cpu/` | contexts, code cache | run, call back | - |
| Fibers, media and system libraries | context word; host handles | switch; wrappers | - |
| IPC, Android service, build, patches, probes | - | process start and stop, packaging | - |

How they interact: a guest thread calls a mutex or a condition variable, which
blocks on a host primitive; the condition variable calls the mutex (`CvUnlock`,
`CvLock`), the sleep queues, and the fields of the *other* thread (`wchan`,
`mutex_obj`, `wake_sema`); the mutex's unlock calls back into the wakeups that a
signal deferred. Semaphores and event flags depend only on the host. Event
queues are triggered by timers, video output and the GPU. A flip of a command
buffer is registered with the interrupt controller by the guest thread, raised by
the GPU thread when it reaches the packet, queued by the handler, and shown by the
present thread, which clears the label that the next command buffer may wait for;
a flip of the CPU goes to the GPU thread as a command. The thread life cycle is
under all of these: each of them touches thread records; the guest CPU asks the
memory manager's generation whether a cached validation still holds.

What is hard: reads of another thread's state without its lock (`m_owner`,
`sc_queue`, `prev_index`); resets of state under a lock that its users do not
take (`Close`); objects destroyed under threads that still need them; a state change in two steps (the host lock and
`m_owner`; unlock and enqueue); a wakeup that outlives the wait it was for; a
timeout racing a signal; bounded arrays of deferred wakeups; lists edited by one
thread while another holds an iterator into them; a record that outlives its
thread, and a thread that outlives its record; callbacks in several regions
between which their object may be removed and made again. `PROJECT.json` lists each
hazard at its line with the properties that cover it.

## Modules

| Module | Models | State that corresponds |
|---|---|---|
| `PthreadMutex` | `mutex.cpp`, the fields of `Pthread` that unlock uses | `m_owner`, `m_count`, `m_deferred` (a bit of `m_flags`), `m_lock` (holder of the host mutex), `will_sleep`, `defer_waiters`, `wake_sema`; `pc`, `call` are a call's place and locals; `held` is history: locks a client was given |
| `Sleepq` | `sleepq.cpp` | `sc_queue`, `sq_blocked`, `sq_freeq`, `sleepqueue`, `wchan`; a queue object is named by the thread it was created for |
| `PthreadCond` | `condvar.cpp`; EXTENDS `PthreadMutex`, INSTANCEs `Sleepq` | adds `sc_lock` (a chain's spin lock), `has_user_waiters`, `mutex_obj`, and the locals `frame`, `drop`, `waddrs` |
| `Monitor` | no code: what mutexes and condition variables promise | `owner`, `level`, `phase` |
| `OrbisSem` | `class OrbisSem` and its entry points in `semaphore.cpp` | `allocated` (the slot), `mutex`, `token_count`, `wait_list`, `it` (Signal's iterator), the fields of each `WaitingThread`, `elapsed` (what the clock says) |
| `EventFlag` | `class EventFlagInternal` | `m_thread_mode`, `m_status`, `m_bits`, `m_waiting_threads`; `request`, `notified` per waiter; `cancelled`, `pattern` are history |
| `ThreadLifecycle` | `pthread.cpp` (create, exit, join, detach, names), `thread_state.cpp` | `tid`, `lock`, `refcount`, `state`, `joiner`, `detached`, `ret` of each `Pthread`; `heap`, `threads`, `gc_list`, `free_threads`, `total_threads`, `thread_list_lock`; `curthread` (`g_curthread`), `rec` and `work_list` (locals of a call), `after` (where `TryCollect` returns to); `lost` is history: records destroyed under a user |
| `Equeue` | `EqueueInternal` and the timer callbacks of `equeue.cpp` | `m_events`, `is_triggered`, `flags`, `timer`, `m_small_timers`; `handlers` and `io` (the timer service: what it has queued, and where its thread is), `adding`, `notifying` (calls between two regions), `pc`, `copied` (of a poll); `masked`, `fired` are history |
| `VideoOutFlip` | `driver.cpp`, `sceVideoOutSubmitFlip`, `sceVideoOutSubmitEopFlip`, `IrqController`, `PatchFlipRequest`, the packets of a flip in `liverpool.cpp`, the presenter's frames | `buffer_labels`, `prev_index`, `flip_pending_num`, `gc_queue_num`, `registered` (slots with a group); `subscribers` by token; `submits`, `commands`, `requests`, `free_queue`; `gpu`, `present`, `pc` are the places of the three kinds of thread; `tested` (the `prev_index` that the present thread has tested), `closing` (labels a `Close` has still to clear); `forgotten`, `leaked`, `silent`, `spent` are history |
| `Lists` | `Filtered(q, S)`, the elements of a list that are in a set: what `Collect` and the event queue leave in their lists; a recursive function, so that it can be proved about | |
| `ListLemmas` | lemmas about inserting into, removing from, appending to and filtering a list | |
| `PthreadMutexProofs`, `PthreadCondProofs`, `OrbisSemProofs`, `EventFlagProofs`, `VideoOutFlipProofs`, `EqueueProofs`, `ThreadLifecycleProofs` | theorems and proofs | |
| `MC...` | values of the constants, symmetry, views and bounds for TLC | |

Operators named `X_Something` are *slips*: plausible mistakes in the code that
`X` models. `PROJECT.json` names for each property the slip that breaks it.

### Where a call is split

A step is what no other thread can see half done.

* **Mutex.** `Lock` reads `m_owner` (`LockCall`), takes the host lock
  (`LockTake`) and writes `m_owner` (`LockOwn`): three steps, because every
  other thread reads `m_owner` without a lock. `Unlock` clears the owner under
  the host lock (`UnlockCall`), gives the host lock back (`UnlockRelease`) and
  then wakes whom a signal deferred, one semaphore at a time (`WakeAll`). The
  spinning of an adaptive mutex and the two kinds of deadline are the modes of a
  call: what tells them apart is whether a try happens at all (a malformed
  `tv_nsec` answers EINVAL, but an adaptive mutex has spun before it looks), and
  what the failure returns. A relock by the owner is one step, `SelfLock`.
* **Condition variable.** `Wait`: the owner test; under the chain lock the flag,
  `will_sleep` and `CvUnlock` up to the clearing of the owner; the host unlock;
  entering the queue, dropping an old token and the chain unlock; the flush of
  deferred wakeups; the sleep; the recheck of `wchan` under the chain lock; and
  the two steps of `CvLock`. `Signal` and `Broadcast` take waiters off the queue
  under the chain lock, handle them one by one, give the lock back, and only
  then release semaphores.
* **Kernel semaphore.** The mutex is given up in `Wait` alone, so a call is one
  step except that the slot test precedes it (`Call`), a waiter sleeps, wakes
  (`Wake`, `Expire`) and locks again (`Relock`), `Signal` visits its waiters one
  by one with the mutex held, and the object is destroyed, its mutex included, and
  its slot freed, after `Delete` has let go of the mutex (`Erase`). A waiter that
  locks the mutex after that (`RelockDestroyed`) gets through, whatever else is in
  the freed memory, or stays in it for ever: the step has no fairness.
* **Event flag.** The mutex is given up inside the wait of the host's condition
  variable and between two looks of a spinning `Set`, `Clear` or `Cancel`.
* **Thread life cycle.** A region of a thread lock or of the list lock is one
  step. The locks are variables where one is held while the other is waited for
  (`FindThread`, `TryCollect`), and for the unlock of the thread in `TryCollect`,
  which the scope guard does after the list lock is given back (`TcUnlock`). A
  creation is: the unlocked look at `gc_list`, the collection, the cache, the test
  of the limit, the increment, the heap, the stack, the link, the host thread, the
  affinity. `Free` destroys the record and recycles it in one step, then lowers
  the count (`Shrink`). An exit is: the value, the dead state and the reference,
  the announcement (`Terminate`), and the last look at the record (`Leave`).
* **Event queue.** Everything but a poll runs under `m_mutex`, so a region is one
  step. Between two regions lie: adding a timer event and scheduling it; a trigger
  and its notification; the three calls of a timer's callback; the look for small
  timers and the wait; the two halves of a poll's copy, which has no lock.
* **Flips.** The guest takes a token, registers it, submits. The GPU thread tests
  the label, sleeps holding `vo_mutex` from the test on, locks the label, raises
  the interrupt; the handler counts, waits for a frame, queues. Commands run before
  every packet, so also between these. The present thread takes a request, shows
  the frame and frees it, counts, tests the index, clears the label, signals, and
  saves the index. The two regions of `port_mutex` that write the counters have a
  first and a last step (`CpuFlip` and `CpuCounted`, `IrqFlip` and `IrqCounted`,
  `FlipStatus` and `StatusDone`), because `Close` does not take that lock: it holds
  the driver's mutex and resets the index (`CloseBegin`), each label (`CloseLabel`),
  `flip_status` (`CloseStatus`) and the slots (`CloseSlots`) in steps of their own.
  Its write of a counter that a region is at work on is a data race: the counter
  may end as 0, as the region's change alone, or as if it had not been reset
  (`Reset`). Only the driver's mutex is held against it, by whoever pushes or takes
  a request. Between the test of `prev_index` and its use (driver.cpp:292, 293)
  `Close` may reset it: `ReleaseLabel` uses the one value or the other, and -1
  writes the word before the labels and no label.

### What stands for what

Thread ids, names and times do not appear. A deadline may pass at any moment;
`OrbisSem` keeps the time a wait took because the remaining time is computed
from it, modulo 2^32. A recursion count is a C `int`: `MaxCount` is `INT_MAX`,
sums wrap, and `FoldedCheck` says whether the compiler folded the overflow test
`m_count + 1 > 0` (mutex.cpp:130, 182), which it may. Host mutexes, semaphores
and condition variables are modelled by what they promise. The guest CPU build's
sliced semaphore wait (`core/libraries/kernel/sync/semaphore.h`) gives up at its
deadline without another try, so `SleepReturn` may time out next to a token.

Clients do whatever the interface allows with objects that exist, with these
exceptions: nobody names a thread outside the queue to `signalto_np` (the code
would corrupt the queue), nobody enters a call on a semaphore that is being
deleted, and nobody deletes an event flag in use.

In `ThreadLifecycle` names, stacks and attributes are gone but for what fails: a
creation may find no record, no stack, no host thread. Calls may name any record,
also one that was never a thread or is one again. In `Equeue` an event is its
identity, (ident, filter), and has the flags Clear and OneShot it was added with:
Clear says whether taking it ends its trigger, OneShot whether taking it removes it
and whether a Timer goes on. `Adds` are the flags that callers hand in, and
`posix_kevent` hands in whatever the guest does (equeue.cpp:363-379), for every
filter; what triggers carry is not kept; any wait may be one with a timeout. In `VideoOutFlip` a command
buffer is its display buffer, argument, token and whether it waits first; two
guest threads may take tokens, register and submit in different orders, submit an
executed buffer again, or fail to submit after they registered. A token's number is
used as the argument of its flip, so that `FlipRouted` can tell flips apart; the
argument of a CPU flip is left out.

## Runs

| Run | Instance | What it asks |
|---|---|---|
| `mutex` | 3 threads; a Normal, an adaptive (spinning) and a recursive mutex; all ways of locking; `MaxCount` 2 | Exclusion, nesting, host lock and owner, self-deadlock |
| `cond_safety` | 3 threads, two of which also use timeouts; 1 mutex, 1 condition variable, room for 1 deferred wakeup | Lost signals, missed waiters, timeouts that swallow signals, the flag that says whether somebody waits, and that every step is a step of `Monitor` |
| `cond_nested` | 2 threads, 2 recursive mutexes, 2 condition variables on one chain | Recursion saved and restored, nothing left of a wait that is over; wakeups deferred under one mutex and flushed under another |
| `cond_live` | 3 threads without timeouts | A signalled sleeper leaves its sleep; the queue objects |
| `sem` | 3 threads, 2 priorities, counts up to 2, timeouts, cancel to the initial or another count, delete | Waiters, flags and semaphores agree; nobody stranded; order; conservation of tokens |
| `sem_live` | 2 threads | A released waiter returns |
| `sem_timeout` | 2 threads, a clock read one unit late | A disagreement, see below |
| `event_flag` | 3 threads, 2 bits, four requests that between them use both wait modes, the three clear modes and timeouts; single and multi flags | Nobody sleeps through its bits; the count; cancel reaches everybody and ends |
| `thread` | 3 host threads, 3 records, a cache of 1, collection at 1, limit 3 | Records in one place and counted; dead ones collected; who touches a destroyed record; what a join reads; lock order |
| `equeue` | 2 waiters (one also polls); a user event, a timer and an HR timer, two at a time, each with the flags of its sceKernel calls or with others that `posix_kevent` lets through; one small timer; room for 1 or for all | Nobody sleeps next to an event nobody was woken for; timers go on |
| `video_out` | 2 guest threads, 2 buffers, 3 flips, a queue of 2, 2 frames, 1 close, in all its steps, or unregistration | Counters, frames, routing of interrupts, labels, sleepers |
| `video_out_label` | 1 guest thread, 2 flips, fair threads | A disagreement, see below |

Why these bounds. Every protocol here is between a waiter, a waker and one
third party (a second waiter, a contender for the mutex, a canceller), so three
threads show every pairwise race with a bystander. Three records are one that
runs, one that is collected and one that is being made, and `MaxCachedThreads` 1
makes the cache both empty and full; a larger instance (4 records, collection at
2, over a million states) was checked once and showed nothing more. Events at a
time are bounded by `MaxEvents`, calls of other threads between two regions and
queued timer handlers by `MaxCalls`: 2 and 1 let a stale handler meet an event
that was removed and added again, with other flags too. `QueueLimit` 1 refuses the third flip where the
code refuses the eighteenth; `MaxCalls` 3 flips reach it with a frame pool
of two. `MaxCount` 2 reaches the
overflow of the recursion count. `MaxDeferWaiters` 1 makes both arrays of
deferred wakeups overflow with two waiters, where the code has room for 50.
`MCTokens` stops after one stale wake token: the semaphore of the source is
meant to be binary, yet two late releases can both arrive, and a run without the
bound only counts higher. `MCHeld` bounds how often the owner of a Normal mutex
relocks it, `MCSupply` the tokens put into a semaphore. `MCView` in the condition
variable runs ignores which `SleepQueue` object is where; `cond_live`, which
checks the objects, does not use it. Symmetry is used in safety runs only.
Deadlock is checked in `equeue` alone, where somebody can always add or trigger. In the others
clients may stop between calls, a waiter nobody signals sleeps for ever, all
threads may exit and two may join each other, and flips are bounded in number.

Fairness. `FairCondSpec` schedules threads that are inside a call (weak
fairness: the host is preemptive) and assumes that a client that owns a mutex
unlocks it in the end, however many calls it makes first (strong fairness of the
outermost unlock, since a step of its own can disable it); without that a
deferred wakeup rightly never comes. `OrbisSem`'s `FairSpec` assumes that a
thread that wants the host mutex gets it if it is free again and again (strong
fairness). `EventFlag`'s needs only weak fairness, since `CancelEnd` stays
enabled once the waiters have left. Nothing is assumed of clients in the last two,
and of a destroyed mutex nothing is promised. `VideoOutFlip`'s `FairSpec` schedules
guest threads inside a call (`GoesOn`), the GPU thread and the present thread (weak
fairness), and nobody has to ask for another flip.

### What the runs show

All properties hold, except two.

**Remaining time of a semaphore wait** (`sem_timeout`, semaphore.cpp:159). A wait
with a timeout stores into `*timeout` the time that was left, `*timeout -= time`
on an unsigned word. The thread measures `time` after it woke. If the signal
came before the deadline but the thread ran after it, the result is nearly 2^32.
The comment at line 151 promises "how much remaining time there was", and the event
flag guards the same subtraction.

**Render wait on the buffer on the screen** (`video_out_label`,
videoout/driver.cpp:291). The present thread clears the label of the buffer shown
*before*, when the next flip is shown. A command buffer that waits for the buffer
on the screen, before the guest asks for another flip, waits for ever. The design
note `docs/superpowers/specs/2026-08-02-galak-z-videoout-label-retirement-design.md`
(in `src/runtime/sources/shadps4`) says that the buffer becomes safe "at a later
vblank even when no replacement flip has executed yet"; the code at this commit
does not do so.

Met while modelling, without a run of their own:

* A relock of a Normal mutex by its owner sleeps a while and answers 0
  (mutex.cpp:178), while the comment above says "Intentionally deadlock on
  attempts to get a lock you already own". The relock is not
  counted, so the owner's first unlock frees the mutex. The exclusion properties
  are stated for the counting types.
* `ClearWake` takes at most one token, and two signallers that were delayed after
  the chain unlock can both release later. The wait tolerates it: it looks at
  `wchan` and sleeps again.
* The pending cancellation that `Wait` looks for is set nowhere.
* `sceKernelSignalSema` and its siblings test the slot without a lock against a
  concurrent delete.
* A destroyed thread record can still be touched in three places, which
  `TouchedAlive` names: the exiting thread reads `native_thr` after it announced
  its end (pthread.cpp:78), the creator sets the affinity of a thread that may be
  gone (pthread.cpp:369), and `TryCollect` unlocks the thread after it gave the
  list lock back (thread_state.cpp:55), which can unlock the mutex of a new record.
* A creation that the host refuses leaves its record linked and Running for good
  (pthread.cpp:362). `Free` destroys a record and recycling constructs it anew; a
  cached record's sleep queue is never deleted (thread_state.cpp:141).
* A trigger wakes one waiter, so a level event wakes one of several; and a wait
  that is full takes no edge event that stands behind a level event
  (equeue.cpp:229, 247). `NoStrandedWaiter` excepts both, and what stands behind
  an event that was itself left behind: taken later by a full wait, that event
  makes the wait leave others. `PassedOver` names them. The run's waiters do not reach
  this last case; the theorem, which is about any number, needs it.
* A wait that finds a small timer looks at small timers only, without a timeout
  for ever (equeue.cpp:184). `sceKernelDeleteHRTimerEvent` returns ENOENT for other
  timers while a small timer is there.
* A flip that is refused because the queue is full, or whose token is stale,
  leaves its label locked until the buffer is flipped or registered again
  (`leaked`); `Close` clears labels without waking the GPU thread (`silent`).
* `Close` zeroes the counters of flips that are still under way, which then go
  below zero, and does so without `port_mutex` (driver.cpp:73, 84): a `SubmitFlip`
  or a `Flip` in its region at that moment may lose its change or undo the reset.
  From then on the counters are off by a constant, `forgotten`, which
  `CountersAccounted` states and which only `Close` changes.
* `prev_index` is tested and then used without a lock; a `Close` in between makes
  the present thread write `buffer_labels[-1]` (driver.cpp:292, 293; 78).
* `orbis_sems.erase` destroys the semaphore while waiters that `Delete` has woken
  are on their way to its mutex (semaphore.cpp:246, common/slot_vector.h:132).
  `ReleasedReturns` promises a return only where the object still exists.
* An HR timer that `posix_kevent` adds without OneShot fires once and then stays in
  the queue, silent: `HrTimerCallback` never schedules it again and nothing removes
  it (equeue.cpp:34). `TimerKept` excepts it from its first expiry on.
* `sceKernelDeleteEventFlag` frees the flag although threads may wait in it; the
  `Deleted` status is never set.

## Theorems

Checked by tlapm for every value of the constants that satisfies the modules'
named assumptions (`MutexAssumption`, `CondAssumption`, `OrbisSemAssumption`,
`EventFlagAssumption`, `VideoOutFlipAssumption`, `EqueueAssumption`,
`ThreadAssumption`): any threads, mutexes and types;
any condition variables, hash function and room of the arrays;
any counts, priorities and timeouts; any bits and requests; any guests, buffers,
queue limit and pool of frames; any finite number of waiters, any events and room
of a wait; any finite numbers of host threads and records, any cache, threshold
and limit.

| Theorem | States |
|---|---|
| `PthreadMutexProofs!TypeCorrect` | `TypeOK` |
| `...!HostLockAccounted`, `SelfDeadlockFree` | `LockAccounted`, `NoSelfDeadlock` |
| `...!RecursionCorrect`, `Exclusion` | `RecursionBalanced`, `MutualExclusion`, if the build does not fold the overflow test |
| `PthreadCondProofs!CondTypeOKAlways` | `CondTypeOK` |
| `...!WchanMatchesQueueAlways`, `ObjectsAccountedAlways` | `WchanMatchesQueue`, `ObjectsAccounted` of the sleep queues |
| `...!NoLostWakeupAlways`, `NoMissedWaiterAlways`, `SignalledIffSuccessAlways` | `NoLostWakeup`, `NoMissedWaiter`, `SignalledIffSuccess` |
| `...!UserWaitersFlaggedAlways`, `DeferredWillFlushAlways` | `UserWaitersFlagged`, `DeferredWillFlush` |
| `...!WaitUndoneAlways`, `ImplementsMonitorAlways` | `WaitUndone`, `ImplementsMonitor`, if the build does not fold the overflow test |
| `OrbisSemProofs!TypeCorrect`, `WaitersAccounted` | `TypeOK`, `WaiterAccounted` |
| `...!NobodyStranded`, `ServedInOrder`, `NoTokenLost` | `NoStrandedWaiter`, `QueueOrdered`, `TokensConserved` |
| `EventFlagProofs!TypeCorrect`, `CountCorrect`, `NobodyStranded`, `CancelSeenByAll` | `TypeOK`, `WaitersCounted`, `NoStrandedWaiter`, `CancelReachesAll` |
| `VideoOutFlipProofs!TypeCorrect`, `CountersCorrect`, `FlipsRouted` | `VideoOutTypeOK`, `CountersAccounted`, `FlipRouted` |
| `...!LabelsOwned`, `SleepersSignalled` | `LabelOwned`, `SleeperSignalled` |
| `EqueueProofs!NobodyStranded`, `NoSilentTimer` | `NoStrandedWaiter`, `TimerKept` |
| `ThreadLifecycleProofs!ThreadTypes`, `RecordsAlwaysAccounted` | `ThreadTypeOK`, `RecordsAccounted` |
| `...!DeadAlwaysCollected`, `AliveWhenTouched` | `DeadCollected`, `TouchedAlive` |
| `...!JoinReadsSaved`, `NoLockCycle` | `JoinReadsExit`, `LocksOrdered` |

*Mutex.* Types need that a call at work has a mutex (`TypeInv`).
`LockAccounted` is not inductive: `LockTake` could give the host lock to its
owner, so `LockInv` adds `BlocksOnOthers`, that a thread in `lock` does not own
its mutex: only the thread itself could make it so. `NoSelfDeadlock` follows
from both. `CountInv` adds `RecursionBalanced` and `CountOK`, that counts are
not negative and only recursive mutexes count. It needs `~FoldedCheck`: a folded
test lets the count wrap to `INT_MIN`, and the next unlock frees a mutex that is
held more than 2^31 times. Exclusion follows from the nesting: who holds locks is the owner.

*Condition variable.* The invariant is built in layers, each inductive over the
ones before it, with a section of `PthreadCondProofs` for each.
(1) `BaseInv` is the types; `SqInv`, that a queue, its `wchan`s and its objects
agree (no object in two hands, one object per waiter, a thread without its object
exactly while it is queued); and `LocalOK`, what the place of a thread in its call
says of its own locals. In it is the heart of the recheck after a sleep: a sleeper's
`wchan` is clear exactly if a signal was spent on this wait. `CondTypeOK`, the two
properties of the queues and `SignalledIffSuccess` follow.
(2) `NoLostWakeup` is inductive over `BaseInv`: `ClearWake` in `Wait` runs before
anybody can take the thread off the queue, and in the loop only while `wchan` is
set. (3) `HostInv`: the host lock and `m_owner` differ only in the four labels of
`Transit`. (4) `ChainInv`: the chain lock is held exactly in the steps that say so,
the flag is up exactly if somebody is queued or about to be, and a waiter that was
taken off and not handled cannot leave its wait, since it needs the signaller's
chain lock. `NoMissedWaiter` and `UserWaitersFlagged` follow.
(5) `DeferredWillFlush` is inductive over all of these: only the owner of a mutex
defers. (6) `RecInv`: what a wait saved is what its client holds, and the mutexes
count what their clients do; `WaitUndone` follows.

*Monitor.* A mutex's level is `m_count + 1` while `m_owner` is set, and a thread is
a waiter from the clearing of `m_owner` in `CvUnlock` to the setting of it in
`CvLock`, with the level that it saved. `WaitUnlock` is the monitor's `Wait`, the
step that takes waiters off a queue its `Signal` or `Broadcast`, `WaitExpired` its
`TimeOut`, `CvLockOwn` its `Resume`; all other steps of a wait, the queues, the
chain locks, the semaphores and the deferred wakeups are not seen. That a
broadcast reaches every waiter is `NoMissedWaiter`; that `Resume` finds the mutex
free is `HostInv`, and at which level, `RecInv`.

*Semaphore.* `WaitInv` is the types, `WaiterAccounted`, that a listed waiter has
not been released (`QueuedAsleep`), that the thread in Signal's loop is the
one that holds the mutex (`SignalHolds`), and that once `Delete` has let go of the
mutex only its waiters are still in a call (`OnlyWaitersLeft`): the destroyed mutex
has no holder whose list a late waiter could edit. Without these a release could
come twice or to a waiter that has left. On top of it stand `NoStrandedWaiter`,
by what a step inserts or removes, and `QueueOrdered`. `ListLemmas` says what
`RemoveAt`, `InsertAt` and `RemoveFirst` do to a list without duplicates.
`TokensConserved` adds over the waiters that were served and have not returned;
`TokenInv` says also that these are finitely many, though threads may not be, and
that whoever has a flag is in its wait, so that a new wait starts outside the sum.
Its lemmas (`SumRemoves`, `SumSame`) make the library's recursive sum additive.

*Event flag.* `FlagInv` is the four properties together: the count of waiters
makes `CancelEnd` reach nobody's wait, and the status keeps `Set` and `Clear`
away from waiters that were cancelled.

*Flips.* `BaseInv` is the types, that every patched command buffer has a buffer
and a token that was given out (`PatchedOK`), that the GPU thread is at a packet
only with a command buffer in the queue and a command's flip is no interrupt's
(`GpuAtWork`), and the part of the counters about frames, without which the pool
could grow. On it stand the other two counters, by what a step adds to or takes
from the flips under way, where the step of `Close` moves the difference to
`forgotten`, an integer: a reset that a region overtakes may also forget less than
nothing; `FlipRouted`, which needs that command buffers with one
token ask for one flip and that a subscriber is the flip of whoever holds its
token (`Agree`); and `LabelOwned`, which is not inductive: a buffer on the screen
frees its label only until the present thread has passed the release of it
(`Owned`), and between the test of `prev_index` and the release only `Close` can
have changed it, which then clears the labels itself (`Tested`). `SleeperSignalled` is inductive on `BaseInv`.

*Event queue.* `EqTypes` is the types and that only events of the queue are
triggered, so that whoever looks finds what a trigger promised.
`NoStrandedWaiter` compares two numbers: the events that are *owed* to a sleeper
(triggered, while somebody sleeps, and not excepted) and the wakes under way
(waiters woken, notifications not yet sent, the timer thread's included). Each
step either owes no more than before and uses up no wake, or leaves nothing owed,
or owes one event more and has one wake more; the step in which a woken waiter
takes what it finds is the hard one, since a wait that is full leaves events.
`TimerKept` is inductive over the types: a handler keeps the flags its event had
when it was scheduled, and an event removed and added again, perhaps with other
flags, has an `AddEvent` that will schedule it, so a stale handler owes it nothing.

*Thread life cycle.* `ThreadInv` has five parts. `BaseInv`: the types, and what the
place of a native thread in its call says of its own locals (`LocalOK`).
`HomesInv`: each record is in exactly one of the heap, the cache, the list of
threads, `gc_list`, the work list of a collection and the hands of a creation, and
no list has it twice; a step moves records from one place to another. On it
stands `Total`, the count of `total_threads`, with the creations and collections
that are between the heap and the counter. `UseInv` says who uses a record: a
native thread runs on a linked record that is Running and alive until it exits
(`OwnOK`); the record of a call stays linked while the call holds a reference
(`RecOK`); no two native threads run on, or start one on, the same record
(`Apart`); and a linked record's `refcount` is the number of its holders, and has
been tested by whoever lowered it (`RecordOK`). `DeadCollected` and `JoinReadsExit`
follow. `LostInv` is `TouchedAlive`, which stands on `UseInv`: a collected record has
no holder, so only the three touches that come after the last reference remain.
`NoLockCycle` needs none of these: a thread lock that is held between two steps is
held by a thread at its unlock in `TryCollect`, of that very record (`LockHeld`).

Every safety property that a run checks is proved. Only model-checked is
liveness, whose proofs need ENABLED.

## Not modelled

Static initialisation, destruction and recreation of mutexes and condition
variables; POSIX semaphores; creation and deletion of event flags; `pthread_once`,
keys and cleanup handlers; the map of event queues and their deletion. Read-write
locks, the memory manager and the memory validation cache are planned. Left out
for good: argument checks and wrappers over host I/O (files, time, network,
media, the Android shell); sequential translation (shader recompiler, loader),
where correctness is about data; the texture and buffer caches and all other GPU
packets, whose state TLC cannot enumerate; vendored code. These, by far the
largest part of the source tree, are why the map covers a small share of it.

## Plan

In this order; each module with its own run, and proofs where they are named.

1. Abstract specifications proved to be implemented, as `Monitor` is: a counting
   semaphore by `OrbisSem`, a life cycle of threads without records by
   `ThreadLifecycle`.
2. `MutexSlot`: static initialisation and destruction of a mutex under lock calls
   (mutex.cpp:29, 114), the slots of semaphores and event flags (semaphore.cpp:214).
3. `SharedFirstRwlock`, and the read-write lock of the guest on top of it, as the
   implementation of an abstract one.
4. `PthreadOnce`, keys and cleanup handlers at thread exit.
5. The map of event queues and the deletion of a queue with waiters.
6. `GuestMemValidation` (the generation against the cache) and `MemoryVma` (split
   and merge of areas).
7. POSIX semaphores, whose count is kept twice (semaphore.cpp:280).
