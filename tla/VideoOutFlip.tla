---------------------------- MODULE VideoOutFlip ----------------------------
(***************************************************************************)
(* Flips, from the guest's call to the screen: videoout/driver.cpp and     *)
(* video_out.cpp with the parts of gnmdriver.cpp, core/platform.h and      *)
(* liverpool.cpp they go through.                                          *)
(*                                                                         *)
(* A flip asked for by a command buffer (EOP) is registered with the IRQ   *)
(* controller under a token, and the token is patched into the command     *)
(* buffer.  When the GPU thread executes the buffer it may first wait      *)
(* until the label of the display buffer is 0, sets the label to 1 and     *)
(* raises the IRQ; the handler counts the flip, prepares a frame and       *)
(* queues a request.  A flip asked for by the CPU is counted by the caller *)
(* and sent to the GPU thread as a command, which prepares and queues it.  *)
(* The present thread shows one request at a vblank, takes it off the      *)
(* counters and sets the label of the buffer shown before to 0.            *)
(*                                                                         *)
(* port_mutex guards the counters, from the first write of a region to the *)
(* last; vo_mutex a wait on a label; the driver's mutex the requests.      *)
(* Close holds only the driver's mutex, so what it resets of the port, one *)
(* part after the other, races with the regions and with the labels.       *)
(***************************************************************************)
EXTENDS Integers, Sequences, FiniteSets, SequencesExt

CONSTANTS Guest, Buffers,
          NoIndex,            \* index -1: a blank frame
          QueueLimit,         \* 16 in SubmitFlip
          NumFrames,          \* present_frames.size()
          CpuFlips,           \* do guests call sceVideoOutSubmitFlip?
          Waits,              \* may a command buffer begin with WAIT_REG_MEM?
          OtherWork,          \* may another queue hold a submit at that moment?
          Resubmits,          \* do guests submit an executed buffer once more?
          MaxCalls,           \* bound: flips asked for
          MaxCloses           \* bound: ports closed and buffers unregistered

ASSUME VideoOutFlipAssumption ==
  /\ NoIndex \notin Buffers
  /\ QueueLimit \in Nat /\ NumFrames \in Nat \ {0}
  /\ MaxCalls \in Nat /\ MaxCloses \in Nat
  /\ CpuFlips \in BOOLEAN /\ Resubmits \in BOOLEAN
  /\ Waits \subseteq BOOLEAN /\ OtherWork \subseteq BOOLEAN

VARIABLES
  is_open, registered,              \* VideoOutPort; registered: the slots with
  buffer_labels, prev_index,        \* a group
  flip_pending_num, gc_queue_num,   \* its flip_status
  subscribers, next_flip_token,     \* IrqContext of GfxFlip, gnmdriver
  submits, commands,                \* Liverpool: the graphics queue, command_queue
  requests, free_queue,             \* VideoOutDriver, Presenter (how many frames)
  gpu, gpu_back, job,               \* GPU thread: where it is, where it goes on
                                    \* after a flip, the flip it prepares
  present, shown, tested,           \* present thread: where it is, its request,
                                    \* the prev_index it has tested
  pc, call,                         \* guest threads and the flip they ask for
  closing,                          \* the labels that Close has still to clear
  calls, closes, spent,             \* history: flips asked for, ports closed, the
                                    \* command buffer executed last
  forgotten, leaked, silent         \* history: flips under way that Close took off
                                    \* the counters; labels whose flip was dropped;
                                    \* labels that Close cleared

portVars    == <<is_open, registered, prev_index, closing, closes>>
labelVars   == <<buffer_labels, leaked, silent>>
countVars   == <<flip_pending_num, gc_queue_num, forgotten>>
irqVars     == <<subscribers, next_flip_token>>
queueVars   == <<submits, commands, requests, free_queue>>
gpuVars     == <<gpu, gpu_back, job, spent>>
presentVars == <<present, shown, tested>>
guestVars   == <<pc, call, calls>>
vars == <<portVars, labelVars, countVars, irqVars, queueVars, gpuVars, presentVars,
          guestVars>>

Flip(i, a, e) == [index |-> i, flip_arg |-> a, eop |-> e]
NoFlip == Flip(NoIndex, 0, FALSE)

(* A command buffer, as far as a flip is concerned.                        *)
Dcb(i, a, t, w) == [index |-> i, flip_arg |-> a, token |-> t, waits |-> w]
NoDcb == Dcb(NoIndex, 0, 0, FALSE)

Goto(g, label) == pc' = [pc EXCEPT ![g] = label]

Init ==
  /\ is_open = TRUE /\ registered = Buffers /\ prev_index = NoIndex
  /\ buffer_labels = [b \in Buffers |-> 0]
  /\ flip_pending_num = 0 /\ gc_queue_num = 0
  /\ subscribers = <<>> /\ next_flip_token = 1
  /\ submits = <<>> /\ commands = <<>> /\ requests = <<>>
  /\ free_queue = NumFrames
  /\ gpu = "process" /\ gpu_back = "process" /\ job = NoFlip
  /\ present = "vblank" /\ shown = NoFlip /\ tested = NoIndex
  /\ pc = [g \in Guest |-> "idle"] /\ call = [g \in Guest |-> NoDcb]
  /\ closing = {} /\ calls = 0 /\ closes = 0 /\ spent = NoDcb
  /\ forgotten = [all |-> 0, eop |-> 0] /\ leaked = {} /\ silent = {}

(* Flips that are counted and not shown yet.                               *)
Preparing == gpu \in {"count", "prepare", "push"}
Showing   == present \in {"present", "status"}
Sending   == {g \in Guest : pc[g] \in {"count", "send"}}
One(cond) == IF cond THEN 1 ELSE 0

UnderWay == Cardinality(Sending) + Len(commands) + One(Preparing) + Len(requests)
              + One(Showing)
EopRequests == {k \in DOMAIN requests : requests[k].eop}
EopUnderWay == One(Preparing /\ job.eop) + Cardinality(EopRequests)
                 + One(Showing /\ shown.eop)

(* The regions of port_mutex: somebody is between the first write of his   *)
(* and its end.                                                            *)
Counting == {g \in Guest : pc[g] = "count"}
PortLocked == Counting # {} \/ gpu = "count" \/ present = "uncount"

(* The driver's mutex, which Close holds from its first step to its last.  *)
Closing == \E g \in Guest : pc[g] \in {"labels", "slots"}

(* Close is about to free the slots: its memset makes all of them look     *)
(* registered, and its loop then frees them.                               *)
Scrubbing == \E g \in Guest : pc[g] = "slots"

-----------------------------------------------------------------------------
(* The guest: sceGnmSubmitAndFlipCommandBuffers *)

Asks(g) == pc[g] = "idle" /\ calls < MaxCalls /\ calls' = calls + 1

(* PatchFlipRequest takes a token for the flip.  The argument that the     *)
(* guest gives the flip is one that tells it from all others; that of a    *)
(* flip of the CPU is left out.                                            *)
EopToken(g, b, w) ==
  /\ Asks(g)
  /\ call' = [call EXCEPT ![g] = Dcb(b, next_flip_token, next_flip_token, w)]
  /\ next_flip_token' = next_flip_token + 1
  /\ Goto(g, "register")
  /\ UNCHANGED <<portVars, labelVars, countVars, subscribers, queueVars, gpuVars,
                 presentVars>>

(* sceVideoOutSubmitEopFlip, under the lock of the IRQ's context, which    *)
(* the GPU thread holds while it runs a handler.                           *)
IrqLocked == Preparing /\ job.eop

EopRegister(g) ==
  /\ pc[g] = "register"
  /\ ~IrqLocked
  /\ subscribers' = [t \in DOMAIN subscribers \cup {call[g].token} |->
                       IF t = call[g].token
                       THEN Flip(call[g].index, call[g].flip_arg, TRUE)
                       ELSE subscribers[t]]
  /\ Goto(g, "submit")
  /\ UNCHANGED <<portVars, labelVars, countVars, next_flip_token, queueVars, gpuVars,
                 presentVars, call, calls>>

(* sceGnmSubmitCommandBuffers: the patched buffer joins the queue, unless  *)
(* another buffer of the call is null; the subscriber then stays.          *)
EopSubmit(g) ==
  /\ pc[g] = "submit"
  /\ \/ submits' = Append(submits, call[g])
     \/ submits' = submits
  /\ call' = [call EXCEPT ![g] = NoDcb]
  /\ Goto(g, "idle")
  /\ UNCHANGED <<portVars, labelVars, countVars, irqVars, commands, requests,
                 free_queue, gpuVars, presentVars, calls>>

(* A guest submits a buffer that was patched and executed before.          *)
Resubmit(g) ==
  /\ Resubmits /\ spent # NoDcb
  /\ Asks(g)
  /\ submits' = Append(submits, spent)
  /\ UNCHANGED <<portVars, labelVars, countVars, irqVars, commands, requests,
                 free_queue, gpuVars, presentVars, pc, call>>

-----------------------------------------------------------------------------
(* The guest: sceVideoOutSubmitFlip, and the port *)

Full(i) == i # NoIndex /\ flip_pending_num > QueueLimit

(* SubmitFlip counts the flip, unless the queue is full.                   *)
CpuFlip(g, i) ==
  /\ CpuFlips
  /\ i \in registered \cup {NoIndex} \/ Scrubbing
  /\ Asks(g)
  /\ ~PortLocked /\ ~Full(i)
  /\ flip_pending_num' = flip_pending_num + 1
  /\ call' = [call EXCEPT ![g] = Dcb(i, 0, 0, FALSE)]
  /\ Goto(g, "count")
  /\ UNCHANGED <<portVars, labelVars, gc_queue_num, forgotten, irqVars, queueVars,
                 gpuVars, presentVars>>

CpuCounted(g) ==
  /\ pc[g] = "count"
  /\ Goto(g, "send")
  /\ UNCHANGED <<portVars, labelVars, countVars, irqVars, queueVars, gpuVars,
                 presentVars, call, calls>>

(* Liverpool::SendCommand.                                                 *)
CpuSend(g) ==
  /\ pc[g] = "send"
  /\ commands' = Append(commands, Flip(call[g].index, call[g].flip_arg, FALSE))
  /\ call' = [call EXCEPT ![g] = NoDcb]
  /\ Goto(g, "idle")
  /\ UNCHANGED <<portVars, labelVars, countVars, irqVars, submits, requests,
                 free_queue, gpuVars, presentVars, calls>>

Closes(g) == pc[g] = "idle" /\ closes < MaxCloses /\ closes' = closes + 1

(* Close: the port is closed and has shown nothing ...                     *)
CloseBegin(g) ==
  /\ Closes(g) /\ ~Closing
  /\ is_open' = FALSE /\ prev_index' = NoIndex
  /\ closing' = Buffers
  /\ Goto(g, "labels")
  /\ UNCHANGED <<registered, labelVars, countVars, irqVars, queueVars, gpuVars,
                 presentVars, call, calls>>

(* ... the labels are cleared, one after the other, without a signal to    *)
(* the GPU thread ...                                                      *)
CloseLabel(g, b) ==
  /\ pc[g] = "labels" /\ b \in closing
  /\ closing' = closing \ {b}
  /\ buffer_labels' = [buffer_labels EXCEPT ![b] = 0]
  /\ leaked' = leaked \ {b}
  /\ silent' = IF buffer_labels[b] = 1 THEN silent \cup {b} ELSE silent
  /\ UNCHANGED <<is_open, registered, prev_index, closes, countVars, irqVars, queueVars,
                 gpuVars, presentVars, guestVars>>

(* What a reset leaves of a counter whose value is n.  A region that is at *)
(* work on it, and has added d, may write before it, after it, or write    *)
(* what it had read before it.                                             *)
Reset(n, d) == IF d = 0 THEN {0} ELSE {0, d, n}

(* ... so is flip_status, without port_mutex: the flips that are under way *)
(* are no longer counted, but their end still is ...                       *)
CloseStatus(g) ==
  /\ pc[g] = "labels" /\ closing = {}
  /\ flip_pending_num' \in Reset(flip_pending_num,
       Cardinality(Counting) + One(gpu = "count") - One(present = "uncount"))
  /\ gc_queue_num' \in Reset(gc_queue_num,
       One(gpu = "count") - One(present = "uncount" /\ shown.eop))
  /\ forgotten' = [all |-> UnderWay - flip_pending_num',
                   eop |-> EopUnderWay - gc_queue_num']
  /\ Goto(g, "slots")
  /\ UNCHANGED <<portVars, labelVars, irqVars, queueVars, gpuVars, presentVars, call,
                 calls>>

(* ... and the slots are freed.                                            *)
CloseSlots(g) ==
  /\ pc[g] = "slots"
  /\ registered' = {}
  /\ Goto(g, "idle")
  /\ UNCHANGED <<is_open, prev_index, closing, closes, labelVars, countVars, irqVars,
                 queueVars, gpuVars, presentVars, call, calls>>

Open(g) ==
  /\ ~is_open /\ pc[g] = "idle"
  /\ is_open' = TRUE
  /\ UNCHANGED <<registered, prev_index, closing, closes, labelVars, countVars, irqVars, queueVars,
                 gpuVars, presentVars, guestVars>>

RegisterBuffer(g, b) ==
  /\ is_open /\ pc[g] = "idle" /\ b \notin registered
  /\ registered' = registered \cup {b}
  /\ buffer_labels' = [buffer_labels EXCEPT ![b] = 0]
  /\ leaked' = leaked \ {b}
  /\ Goto(g, "signal")
  /\ UNCHANGED <<is_open, prev_index, closing, closes, silent, countVars, irqVars,
                 queueVars, gpuVars, presentVars, call, calls>>

(* A Close that has cleared flip_status has freed the groups.              *)
UnregisterBuffer(g, b) ==
  /\ is_open /\ Closes(g) /\ b \in registered
  /\ ~Scrubbing
  /\ registered' = registered \ {b}
  /\ UNCHANGED <<is_open, prev_index, closing, labelVars, countVars, irqVars, queueVars,
                 gpuVars, presentVars, guestVars>>

(* SignalVoLabel: a GPU thread asleep in WaitVoLabel tests its label again. *)
SignalVoLabel ==
  /\ gpu' = IF gpu = "asleep" THEN "woken" ELSE gpu
  /\ silent' = {}

RegisterSignal(g) ==
  /\ pc[g] = "signal"
  /\ SignalVoLabel
  /\ Goto(g, "idle")
  /\ UNCHANGED <<portVars, buffer_labels, leaked, countVars, irqVars, queueVars,
                 gpu_back, job, spent, presentVars, call, calls>>

(* The rest of a call that has begun.                                      *)
GoesOn(g) ==
  \/ EopRegister(g) \/ EopSubmit(g)
  \/ CpuCounted(g) \/ CpuSend(g)
  \/ \E b \in Buffers : CloseLabel(g, b)
  \/ CloseStatus(g) \/ CloseSlots(g)
  \/ RegisterSignal(g)

GuestNext(g) ==
  \/ \E b \in Buffers, w \in Waits : EopToken(g, b, w)
  \/ Resubmit(g)
  \/ \E i \in Buffers \cup {NoIndex} : CpuFlip(g, i)
  \/ CloseBegin(g)
  \/ Open(g)
  \/ \E b \in Buffers : RegisterBuffer(g, b) \/ UnregisterBuffer(g, b)
  \/ GoesOn(g)

-----------------------------------------------------------------------------
(* The GPU thread: the packets of a command buffer *)

Label == buffer_labels[Head(submits).index]

GpuTask ==
  /\ gpu = "process" /\ submits # <<>>
  /\ gpu' = IF Head(submits).waits THEN "wait" ELSE "write"
  /\ UNCHANGED <<portVars, labelVars, countVars, irqVars, queueVars, gpu_back, job,
                 spent, presentVars, guestVars>>

(* WAIT_REG_MEM on a label: the thread sleeps while it is locked, holding  *)
(* vo_mutex from the test to the sleep, unless another queue has work.     *)
WaitPass ==
  /\ gpu \in {"wait", "woken", "poll"} /\ Label = 0
  /\ gpu' = "write"
  /\ UNCHANGED <<portVars, labelVars, countVars, irqVars, queueVars, gpu_back, job,
                 spent, presentVars, guestVars>>

WaitSleep ==
  /\ \/ gpu = "wait" /\ FALSE \in OtherWork
     \/ gpu = "woken"
  /\ Label = 1
  /\ gpu' = "asleep"
  /\ UNCHANGED <<portVars, labelVars, countVars, irqVars, queueVars, gpu_back, job,
                 spent, presentVars, guestVars>>

WaitPoll ==
  /\ gpu = "wait" /\ TRUE \in OtherWork /\ Label = 1
  /\ gpu' = "poll"
  /\ UNCHANGED <<portVars, labelVars, countVars, irqVars, queueVars, gpu_back, job,
                 spent, presentVars, guestVars>>

(* WRITE_DATA, the lock of the display buffer.                             *)
WriteLock ==
  /\ gpu = "write"
  /\ buffer_labels' = [buffer_labels EXCEPT ![Head(submits).index] = 1]
  /\ gpu' = "flip"
  /\ UNCHANGED <<portVars, leaked, silent, countVars, irqVars, queueVars, gpu_back,
                 job, spent, presentVars, guestVars>>

-----------------------------------------------------------------------------
(* The GPU thread: PatchedFlip raises the IRQ *)

Token == Head(submits).token

(* The end of the command buffer.                                          *)
Retire ==
  /\ submits' = Tail(submits)
  /\ spent' = IF Resubmits THEN Head(submits) ELSE spent

Without(token) == [t \in DOMAIN subscribers \ {token} |-> subscribers[t]]

(* IrqController::Signal finds no subscriber; the label stays locked.      *)
IrqStale ==
  /\ gpu = "flip" /\ Token \notin DOMAIN subscribers
  /\ leaked' = leaked \cup {Head(submits).index}
  /\ Retire
  /\ gpu' = "process"
  /\ UNCHANGED <<portVars, buffer_labels, silent, countVars, irqVars, commands,
                 requests, free_queue, gpu_back, job, presentVars, guestVars>>

(* Slip: subscribers are served in the order they registered.              *)
Handler_OldestFirst ==
  subscribers[CHOOSE t \in DOMAIN subscribers : \A u \in DOMAIN subscribers : t <= u]

(* The handler that Signal calls.                                          *)
Handler == subscribers[Token]

(* Its SubmitFlip refuses the flip, and the label stays locked.            *)
IrqRefused ==
  /\ gpu = "flip" /\ Token \in DOMAIN subscribers
  /\ ~PortLocked /\ Full(Handler.index)
  /\ subscribers' = Without(Token)
  /\ leaked' = leaked \cup {Head(submits).index}
  /\ Retire
  /\ gpu' = "process"
  /\ UNCHANGED <<portVars, buffer_labels, silent, countVars, next_flip_token, commands,
                 requests, free_queue, gpu_back, job, presentVars, guestVars>>

(* Its SubmitFlip counts the flip ...                                      *)
IrqFlip ==
  /\ gpu = "flip" /\ Token \in DOMAIN subscribers
  /\ ~PortLocked /\ ~Full(Handler.index)
  /\ flip_pending_num' = flip_pending_num + 1
  /\ gc_queue_num' = gc_queue_num + 1
  /\ job' = Handler
  /\ gpu' = "count" /\ gpu_back' = "process"
  /\ UNCHANGED <<portVars, labelVars, forgotten, irqVars, queueVars, spent,
                 presentVars, guestVars>>

(* ... and goes on to SubmitFlipInternal.                                  *)
IrqCounted ==
  /\ gpu = "count"
  /\ gpu' = "prepare"
  /\ UNCHANGED <<portVars, labelVars, countVars, irqVars, queueVars, gpu_back, job,
                 spent, presentVars, guestVars>>

(* ProcessCommands, before every packet and between tasks: a flip sent by  *)
(* a guest thread.                                                         *)
TakeCommand ==
  /\ gpu \in {"process", "wait", "poll", "write", "flip"} /\ commands # <<>>
  /\ job' = Head(commands) /\ commands' = Tail(commands)
  /\ gpu' = "prepare" /\ gpu_back' = gpu
  /\ UNCHANGED <<portVars, labelVars, countVars, irqVars, submits, requests,
                 free_queue, spent, presentVars, guestVars>>

(* SubmitFlipInternal: PrepareFrame or PrepareBlankFrame waits for a free  *)
(* frame.                                                                  *)
PrepareFrame ==
  /\ gpu = "prepare" /\ free_queue > 0
  /\ free_queue' = free_queue - 1
  /\ gpu' = "push"
  /\ UNCHANGED <<portVars, labelVars, countVars, irqVars, submits, commands, requests,
                 gpu_back, job, spent, presentVars, guestVars>>

(* The request is queued; after an IRQ, Signal erases the subscriber and   *)
(* the command buffer ends.                                                *)
PushRequest ==
  /\ gpu = "push" /\ ~Closing
  /\ requests' = Append(requests, job)
  /\ gpu' = gpu_back /\ gpu_back' = "process" /\ job' = NoFlip
  /\ IF job.eop THEN subscribers' = Without(Token) /\ Retire
                ELSE UNCHANGED <<subscribers, submits, spent>>
  /\ UNCHANGED <<portVars, labelVars, countVars, next_flip_token, commands, free_queue,
                 presentVars, guestVars>>

GpuNext ==
  \/ GpuTask \/ WaitPass \/ WaitSleep \/ WaitPoll \/ WriteLock
  \/ IrqStale \/ IrqRefused \/ IrqFlip \/ IrqCounted
  \/ TakeCommand \/ PrepareFrame \/ PushRequest

-----------------------------------------------------------------------------
(* The present thread *)

TakeRequest ==
  /\ present = "vblank" /\ requests # <<>> /\ ~Closing
  /\ shown' = Head(requests) /\ requests' = Tail(requests)
  /\ present' = "present"
  /\ UNCHANGED <<portVars, labelVars, countVars, irqVars, submits, commands, free_queue,
                 gpuVars, tested, guestVars>>

(* Slip: a skipped frame is freed where it is skipped and at the end.       *)
PresentFrame_FreesTwice ==
  /\ present = "present"
  /\ free_queue' \in {free_queue + 1, free_queue + 2}
  /\ present' = "status"
  /\ UNCHANGED <<portVars, labelVars, countVars, irqVars, submits, commands, requests,
                 gpuVars, shown, tested, guestVars>>

(* Presenter::Present shows the frame, or skips it, and frees it.          *)
PresentFrame ==
  /\ present = "present"
  /\ free_queue' = free_queue + 1
  /\ present' = "status"
  /\ UNCHANGED <<portVars, labelVars, countVars, irqVars, submits, commands, requests,
                 gpuVars, shown, tested, guestVars>>

(* Slip: every flip counts as one of the GPU's.                            *)
FlipStatus_NoEopTest ==
  /\ present = "status" /\ ~PortLocked
  /\ gc_queue_num' = gc_queue_num - 1
  /\ flip_pending_num' = flip_pending_num - 1
  /\ present' = "uncount"
  /\ UNCHANGED <<portVars, labelVars, forgotten, irqVars, queueVars, gpuVars, shown,
                 tested, guestVars>>

FlipStatus ==
  /\ present = "status" /\ ~PortLocked
  /\ gc_queue_num' = gc_queue_num - One(shown.eop)
  /\ flip_pending_num' = flip_pending_num - 1
  /\ present' = "uncount"
  /\ UNCHANGED <<portVars, labelVars, forgotten, irqVars, queueVars, gpuVars, shown,
                 tested, guestVars>>

StatusDone ==
  /\ present = "uncount"
  /\ present' = "label"
  /\ UNCHANGED <<portVars, labelVars, countVars, irqVars, queueVars, gpuVars, shown,
                 tested, guestVars>>

(* Slip: a flip of the CPU leaves the label of the buffer before it.       *)
TestPrevIndex_OnlyEop ==
  /\ present = "label"
  /\ IF prev_index = NoIndex \/ ~shown.eop
     THEN present' = "prev" /\ UNCHANGED tested
     ELSE present' = "clear" /\ tested' = prev_index
  /\ UNCHANGED <<portVars, labelVars, countVars, irqVars, queueVars, gpuVars, shown,
                 guestVars>>

(* Was there a buffer before this one?                                     *)
TestPrevIndex ==
  /\ present = "label"
  /\ IF prev_index = NoIndex
     THEN present' = "prev" /\ UNCHANGED tested
     ELSE present' = "clear" /\ tested' = prev_index
  /\ UNCHANGED <<portVars, labelVars, countVars, irqVars, queueVars, gpuVars, shown,
                 guestVars>>

(* Slip: nobody is told that the label is clear.                           *)
ReleaseLabel_Unsignalled ==
  /\ present = "clear"
  /\ \E i \in {tested, prev_index} :
       IF i = NoIndex
       THEN UNCHANGED <<buffer_labels, leaked>>
       ELSE /\ buffer_labels' = [buffer_labels EXCEPT ![i] = 0]
            /\ leaked' = leaked \ {i}
  /\ tested' = NoIndex
  /\ present' = "prev"
  /\ UNCHANGED <<portVars, silent, countVars, irqVars, queueVars, gpuVars, shown,
                 guestVars>>

(* Its label is cleared.  Nothing guards prev_index, and whether it is     *)
(* read once more is up to the build: if Close has reset it since the      *)
(* test, the write may go to the word before the labels.                   *)
ReleaseLabel ==
  /\ present = "clear"
  /\ \E i \in {tested, prev_index} :
       IF i = NoIndex
       THEN UNCHANGED <<buffer_labels, leaked>>
       ELSE /\ buffer_labels' = [buffer_labels EXCEPT ![i] = 0]
            /\ leaked' = leaked \ {i}
  /\ tested' = NoIndex
  /\ present' = "signal"
  /\ UNCHANGED <<portVars, silent, countVars, irqVars, queueVars, gpuVars, shown,
                 guestVars>>

(* Whoever waits for it is told.                                           *)
ReleaseSignal ==
  /\ present = "signal"
  /\ SignalVoLabel
  /\ present' = "prev"
  /\ UNCHANGED <<portVars, buffer_labels, leaked, countVars, irqVars, queueVars,
                 gpu_back, job, spent, shown, tested, guestVars>>

SavePrevIndex ==
  /\ present = "prev"
  /\ prev_index' = shown.index
  /\ shown' = NoFlip
  /\ present' = "vblank"
  /\ UNCHANGED <<is_open, registered, closing, closes, labelVars, countVars, irqVars,
                 queueVars, gpuVars, tested, guestVars>>

PresentNext == TakeRequest \/ PresentFrame \/ FlipStatus \/ StatusDone
                 \/ TestPrevIndex \/ ReleaseLabel \/ ReleaseSignal \/ SavePrevIndex

-----------------------------------------------------------------------------
Next == (\E g \in Guest : GuestNext(g)) \/ GpuNext \/ PresentNext

Spec == Init /\ [][Next]_vars

(* Threads inside a call, the GPU thread and the present thread are        *)
(* scheduled; nobody has to ask for a flip or to close the port.           *)
Fairness ==
  /\ \A g \in Guest : WF_vars(GoesOn(g))
  /\ WF_vars(GpuNext)
  /\ WF_vars(PresentNext)

FairSpec == Spec /\ Fairness

-----------------------------------------------------------------------------
(* Types *)

Indices == Buffers \cup {NoIndex}
Flips == [index : Indices, flip_arg : Nat, eop : BOOLEAN]
Dcbs == [index : Indices, flip_arg : Nat, token : Nat, waits : BOOLEAN]

(* The port, the queues and the three kinds of thread keep their types; a  *)
(* command buffer that runs names a display buffer.                        *)
VideoOutTypeOK ==
  /\ is_open \in BOOLEAN /\ registered \subseteq Buffers
  /\ buffer_labels \in [Buffers -> {0, 1}] /\ prev_index \in Indices
  /\ flip_pending_num \in Int /\ gc_queue_num \in Int
  /\ DOMAIN subscribers \subseteq 1 .. next_flip_token - 1
  /\ \A t \in DOMAIN subscribers : subscribers[t] \in Flips /\ subscribers[t].eop
  /\ next_flip_token \in Nat \ {0}
  /\ submits \in Seq(Dcbs) /\ commands \in Seq(Flips) /\ requests \in Seq(Flips)
  /\ \A k \in DOMAIN submits : submits[k].index \in Buffers
  /\ free_queue \in 0 .. NumFrames
  /\ gpu \in {"process", "wait", "asleep", "woken", "poll", "write", "flip", "count",
              "prepare", "push"}
  /\ gpu_back \in {"process", "wait", "poll", "write", "flip"}
  /\ job \in Flips /\ shown \in Flips
  /\ present \in {"vblank", "present", "status", "uncount", "label", "clear", "signal",
                  "prev"}
  /\ tested \in Indices /\ closing \subseteq Buffers
  /\ pc \in [Guest -> {"idle", "register", "submit", "count", "send", "signal", "labels",
                       "slots"}]
  /\ call \in [Guest -> Dcbs] /\ spent \in Dcbs
  /\ calls \in Nat /\ closes \in Nat /\ forgotten \in [all : Int, eop : Int]
  /\ leaked \subseteq Buffers /\ silent \subseteq Buffers

-----------------------------------------------------------------------------
(* Properties *)

(* The counters a guest polls, and the pool of frames.                     *)
PendingAccounted == flip_pending_num = UnderWay - forgotten.all
EopAccounted     == gc_queue_num = EopUnderWay - forgotten.eop
FramesAccounted  == free_queue = NumFrames - One(gpu = "push") - Len(requests)
                                   - One(present = "present")

(* flip_pending_num and gc_queue_num count the flips that are under way,   *)
(* through refusals, stale tokens and the flips of other threads, but for  *)
(* an error that only Close makes: from its reset of flip_status on, they  *)
(* are off by the flips it forgot, whose end is still counted, and by what *)
(* a region of port_mutex lost to the reset or wrote over it (SubmitFlip,  *)
(* Flip, Close).  A frame is free, or in the hands of exactly one flip.    *)
CountersAccounted == PendingAccounted /\ EopAccounted /\ FramesAccounted

(* The IRQ of a command buffer flips what was asked for with that command  *)
(* buffer, in whatever order guests register and submit.                   *)
FlipRouted ==
  Preparing /\ job.eop => /\ job.flip_arg = Head(submits).flip_arg
                          /\ job.index = Head(submits).index

(* The GPU thread is at or suspended at a packet.                          *)
GpuAt(label) == gpu = label \/ (Preparing /\ ~job.eop /\ gpu_back = label)

OnItsWay(b) ==
  \/ GpuAt("flip") /\ Head(submits).index = b
  \/ Preparing /\ job.index = b
  \/ \E k \in DOMAIN requests : requests[k].index = b
  \/ present # "vblank" /\ shown.index = b

(* A locked label has somebody who will clear it at the next flip: its     *)
(* flip is on its way or its buffer is on the screen; save after a flip    *)
(* that was refused or whose token was stale, and until a Close that is    *)
(* under way clears it (PatchedFlip, Flip, Close).                         *)
LabelOwned ==
  \A b \in Buffers :
    buffer_labels[b] = 1 => OnItsWay(b) \/ prev_index = b \/ b \in leaked \cup closing

(* A GPU thread that sleeps on a label that is clear will be signalled;    *)
(* save when Close cleared it.                                             *)
SleeperSignalled ==
  gpu = "asleep" /\ Label = 0 =>
    \/ present = "signal"
    \/ \E g \in Guest : pc[g] = "signal"
    \/ Head(submits).index \in silent

(* A GPU thread that waits until a buffer is safe to render to is let go   *)
(* on at last.                                                             *)
RenderWaitEnds == gpu \in {"wait", "asleep", "woken", "poll"} ~> gpu = "write"
=============================================================================
