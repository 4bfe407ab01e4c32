------------------------- MODULE VideoOutFlipProofs -------------------------
(* Proofs about VideoOutFlip, for any guest threads, buffers, queue limit, *)
(* pool of frames and kinds of call.                                       *)
EXTENDS VideoOutFlip, FiniteSetTheorems, TLAPS

(* The command buffers that a flip was patched into and that may still be  *)
(* submitted or executed.                                                  *)
Patched ==
  {call[g] : g \in {h \in Guest : pc[h] \in {"register", "submit"}}}
    \cup {submits[k] : k \in DOMAIN submits}
    \cup ({spent} \ {NoDcb})

(* Each names a display buffer and has a token that was given out.         *)
PatchedOK ==
  \A d \in Patched : d.index \in Buffers /\ d.token \in 1 .. next_flip_token - 1

(* The GPU thread is at a packet only with a command buffer to execute; a  *)
(* flip sent as a command is no IRQ's.                                     *)
GpuAtWork ==
  /\ gpu \notin {"process", "count", "prepare", "push"} => submits # <<>>
  /\ Preparing /\ (job.eop \/ gpu_back # "process") => submits # <<>>
  /\ Preparing /\ job.eop => gpu_back = "process"
  /\ \A k \in DOMAIN commands : ~commands[k].eop

SendingFinite == IsFiniteSet(Sending)

BaseInv == VideoOutTypeOK /\ FramesAccounted /\ PatchedOK /\ GpuAtWork /\ SendingFinite

LEMMA InitBase == Init => BaseInv
<1> SUFFICES ASSUME Init PROVE BaseInv
  OBVIOUS
<1> USE VideoOutFlipAssumption
<1>1. VideoOutTypeOK
  BY DEF Init, VideoOutTypeOK, Indices, Flips, Dcbs, NoFlip, NoDcb, Flip, Dcb
<1>2. FramesAccounted
  BY DEF Init, FramesAccounted, One
<1>3. PatchedOK
  BY DEF Init, PatchedOK, Patched
<1>4. GpuAtWork
  BY DEF Init, GpuAtWork, Preparing
<1>5. SendingFinite
  <2>1. Sending = {}
    BY DEF Init, Sending
  <2> QED
    BY <2>1, FS_EmptySet DEF SendingFinite
<1> QED
  BY <1>1, <1>2, <1>3, <1>4, <1>5 DEF BaseInv

(* The parts of the type invariant.                                        *)
PortTypes ==
  /\ is_open \in BOOLEAN /\ registered \subseteq Buffers /\ prev_index \in Indices
  /\ closing \subseteq Buffers /\ closes \in Nat
LabelTypes ==
  /\ buffer_labels \in [Buffers -> {0, 1}]
  /\ leaked \subseteq Buffers /\ silent \subseteq Buffers
CountTypes ==
  /\ flip_pending_num \in Int /\ gc_queue_num \in Int
  /\ forgotten \in [all : Int, eop : Int]
IrqTypes ==
  /\ next_flip_token \in Nat \ {0}
  /\ DOMAIN subscribers \subseteq 1 .. next_flip_token - 1
  /\ \A t \in DOMAIN subscribers : subscribers[t] \in Flips /\ subscribers[t].eop
SubmitTypes ==
  /\ submits \in Seq(Dcbs)
  /\ \A k \in DOMAIN submits : submits[k].index \in Buffers
QueueTypes ==
  /\ commands \in Seq(Flips) /\ requests \in Seq(Flips)
  /\ free_queue \in 0 .. NumFrames
GpuTypes ==
  /\ gpu \in {"process", "wait", "asleep", "woken", "poll", "write", "flip", "count",
              "prepare", "push"}
  /\ gpu_back \in {"process", "wait", "poll", "write", "flip"}
  /\ job \in Flips /\ spent \in Dcbs
PresentTypes ==
  /\ present \in {"vblank", "present", "status", "uncount", "label", "clear", "signal",
                  "prev"}
  /\ shown \in Flips /\ tested \in Indices
GuestTypes ==
  /\ pc \in [Guest -> {"idle", "register", "submit", "count", "send", "signal", "labels",
                       "slots"}]
  /\ call \in [Guest -> Dcbs] /\ calls \in Nat

LEMMA TypeParts ==
  VideoOutTypeOK <=> /\ PortTypes /\ LabelTypes /\ CountTypes /\ IrqTypes /\ SubmitTypes
                     /\ QueueTypes /\ GpuTypes /\ PresentTypes /\ GuestTypes
  BY DEF VideoOutTypeOK, PortTypes, LabelTypes, CountTypes, IrqTypes, SubmitTypes,
         QueueTypes, GpuTypes, PresentTypes, GuestTypes

LEMMA TypePartsNext ==
  ASSUME PortTypes', LabelTypes', CountTypes', IrqTypes', SubmitTypes', QueueTypes',
         GpuTypes', PresentTypes', GuestTypes'
  PROVE  VideoOutTypeOK'
  BY DEF VideoOutTypeOK, PortTypes, LabelTypes, CountTypes, IrqTypes, SubmitTypes,
         QueueTypes, GpuTypes, PresentTypes, GuestTypes

(* A part whose variables do not change is kept.                           *)
LEMMA PartsKept ==
  /\ PortTypes /\ UNCHANGED portVars => PortTypes'
  /\ LabelTypes /\ UNCHANGED labelVars => LabelTypes'
  /\ CountTypes /\ UNCHANGED countVars => CountTypes'
  /\ IrqTypes /\ UNCHANGED irqVars => IrqTypes'
  /\ SubmitTypes /\ UNCHANGED submits => SubmitTypes'
  /\ QueueTypes /\ UNCHANGED <<commands, requests, free_queue>> => QueueTypes'
  /\ GpuTypes /\ UNCHANGED gpuVars => GpuTypes'
  /\ PresentTypes /\ UNCHANGED presentVars => PresentTypes'
  /\ GuestTypes /\ UNCHANGED guestVars => GuestTypes'
  BY DEF PortTypes, LabelTypes, CountTypes, IrqTypes, SubmitTypes, QueueTypes, GpuTypes,
         PresentTypes, GuestTypes, portVars, labelVars, countVars, irqVars, gpuVars,
         presentVars, guestVars

(* The flips under way are a number.                                       *)
LEMMA UnderWayNat ==
  ASSUME VideoOutTypeOK, SendingFinite
  PROVE  UnderWay \in Nat /\ EopUnderWay \in Nat
<1>1. Cardinality(Sending) \in Nat
  BY FS_CardinalityType DEF SendingFinite
<1>2. Len(commands) \in Nat /\ Len(requests) \in Nat
  BY DEF VideoOutTypeOK
<1>3. Cardinality(EopRequests) \in Nat
  <2>1. EopRequests \subseteq 1 .. Len(requests)
    BY DEF EopRequests, VideoOutTypeOK
  <2>2. IsFiniteSet(1 .. Len(requests))
    BY <1>2, FS_Interval
  <2> QED
    BY <2>1, <2>2, FS_Subset, FS_CardinalityType
<1> QED
  BY <1>1, <1>2, <1>3 DEF UnderWay, EopUnderWay, One

(* A thread that begins or ends to send a command.                         *)
LEMMA SendingStep ==
  ASSUME VideoOutTypeOK, SendingFinite, NEW g \in Guest, NEW label, Goto(g, label)
  PROVE  /\ SendingFinite'
         /\ (label \in {"count", "send"} <=> pc[g] \in {"count", "send"}) =>
              Sending' = Sending
         /\ label \in {"count", "send"} /\ pc[g] \notin {"count", "send"} =>
              Cardinality(Sending') = Cardinality(Sending) + 1
         /\ label \notin {"count", "send"} /\ pc[g] \in {"count", "send"} =>
              Cardinality(Sending') = Cardinality(Sending) - 1
<1>1. Sending' = IF label \in {"count", "send"} THEN Sending \cup {g} ELSE Sending \ {g}
  BY DEF Sending, Goto, VideoOutTypeOK
<1>2. g \in Sending <=> pc[g] \in {"count", "send"}
  BY DEF Sending
<1>3. CASE label \in {"count", "send"}
  <2>1. Sending' = Sending \cup {g}
    BY <1>1, <1>3
  <2>2. g \in Sending => Sending' = Sending
    BY <2>1
  <2> QED
    BY <1>2, <1>3, <2>1, <2>2, FS_AddElement DEF SendingFinite
<1>4. CASE label \notin {"count", "send"}
  <2>1. Sending' = Sending \ {g}
    BY <1>1, <1>4
  <2>2. g \notin Sending => Sending' = Sending
    BY <2>1
  <2> QED
    BY <1>2, <1>4, <2>1, <2>2, FS_RemoveElement DEF SendingFinite
<1> QED
  BY <1>3, <1>4

(* The regions that a reset may meet.                                      *)
LEMMA CountingNat ==
  ASSUME SendingFinite
  PROVE  Cardinality(Counting) \in Nat
<1>1. Counting \subseteq Sending
  BY DEF Counting, Sending
<1> QED
  BY <1>1, FS_Subset, FS_CardinalityType DEF SendingFinite

LEMMA ResetInt ==
  ASSUME NEW n \in Int, NEW d \in Int, NEW m \in Reset(n, d)
  PROVE  m \in Int
  BY DEF Reset

(* What is left of n when all but m of it is taken away.                   *)
LEMMA Remainder ==
  ASSUME NEW n \in Int, NEW m \in Int
  PROVE  m = n - (n - m)
  OBVIOUS

(* What is patched, piece by piece.                                        *)
InCall(g) == pc[g] \in {"register", "submit"}

LEMMA PatchedHas ==
  /\ \A g \in Guest : InCall(g) => call[g] \in Patched
  /\ \A k \in DOMAIN submits : submits[k] \in Patched
  /\ spent # NoDcb => spent \in Patched
  BY DEF Patched, InCall

LEMMA PatchedWithin ==
  ASSUME NEW S,
         \A g \in Guest : InCall(g)' => call'[g] \in S,
         \A k \in DOMAIN submits' : submits'[k] \in S,
         spent' # NoDcb => spent' \in S
  PROVE  Patched' \subseteq S
  BY DEF Patched, InCall

(* Patched command buffers do not come from nowhere.                       *)
LEMMA PatchedKept ==
  ASSUME PatchedOK, Patched' \subseteq Patched, VideoOutTypeOK,
         next_flip_token' = next_flip_token
  PROVE  PatchedOK'
  BY DEF PatchedOK

LEMMA FramesKept ==
  ASSUME FramesAccounted, UNCHANGED <<free_queue, requests, present>>,
         gpu' = "push" <=> gpu = "push"
  PROVE  FramesAccounted'
  BY DEF FramesAccounted, One

LEMMA AtWorkKept ==
  ASSUME GpuAtWork, UNCHANGED <<gpu, gpu_back, job, commands>>,
         submits # <<>> => submits' # <<>>
  PROVE  GpuAtWork'
  BY DEF GpuAtWork, Preparing

-----------------------------------------------------------------------------
(* The steps of a guest thread *)

LEMMA GuestBase ==
  ASSUME BaseInv, NEW g \in Guest, GuestNext(g)
  PROVE  BaseInv'
<1>0. /\ VideoOutTypeOK /\ FramesAccounted /\ PatchedOK /\ GpuAtWork /\ SendingFinite
      /\ PortTypes /\ LabelTypes /\ CountTypes /\ IrqTypes /\ SubmitTypes /\ QueueTypes
      /\ GpuTypes /\ PresentTypes /\ GuestTypes
  BY TypeParts DEF BaseInv
<1>1. ASSUME NEW b \in Buffers, NEW w \in Waits, EopToken(g, b, w) PROVE BaseInv'
  <2>0. /\ pc[g] = "idle" /\ calls' = calls + 1
        /\ call' = [call EXCEPT ![g] = Dcb(b, next_flip_token, next_flip_token, w)]
        /\ next_flip_token' = next_flip_token + 1
        /\ Goto(g, "register")
        /\ UNCHANGED <<portVars, labelVars, countVars, subscribers, queueVars, gpuVars,
                       presentVars>>
    BY <1>1 DEF EopToken, Asks
  <2>1. Dcb(b, next_flip_token, next_flip_token, w) \in Dcbs
    BY <1>0, <2>0, VideoOutFlipAssumption DEF Dcb, Dcbs, Indices, IrqTypes, GuestTypes
  <2>2. GuestTypes' /\ IrqTypes'
    BY <1>0, <2>0, <2>1 DEF GuestTypes, IrqTypes, Goto
  <2>3. VideoOutTypeOK'
    BY <1>0, <2>0, <2>2, PartsKept, TypePartsNext DEF queueVars
  <2>4. Patched' \subseteq Patched \cup {Dcb(b, next_flip_token, next_flip_token, w)}
    BY <1>0, <2>0 DEF Patched, Goto, GuestTypes, queueVars, gpuVars
  <2>5. PatchedOK'
    BY <1>0, <2>0, <2>4 DEF PatchedOK, IrqTypes, Dcb
  <2>6. FramesAccounted'
    BY <1>0, <2>0, FramesKept DEF queueVars, gpuVars, presentVars
  <2>7. GpuAtWork'
    BY <1>0, <2>0, <2>5, AtWorkKept DEF queueVars, gpuVars, presentVars
  <2>8. SendingFinite'
    BY <1>0, <2>0, SendingStep
  <2> QED
    BY <2>3, <2>5, <2>6, <2>7, <2>8 DEF BaseInv
<1>2. CASE EopRegister(g)
  <2>0. /\ pc[g] = "register" /\ Goto(g, "submit")
        /\ subscribers' = [t \in DOMAIN subscribers \cup {call[g].token} |->
                             IF t = call[g].token
                             THEN Flip(call[g].index, call[g].flip_arg, TRUE)
                             ELSE subscribers[t]]
        /\ UNCHANGED <<portVars, labelVars, countVars, next_flip_token, queueVars, gpuVars,
                       presentVars, call, calls>>
    BY <1>2 DEF EopRegister
  <2>1. call[g] \in Patched
    BY <2>0 DEF Patched
  <2>2. /\ call[g].token \in 1 .. next_flip_token - 1
        /\ Flip(call[g].index, call[g].flip_arg, TRUE) \in Flips
        /\ Flip(call[g].index, call[g].flip_arg, TRUE).eop
    BY <1>0, <2>1 DEF PatchedOK, GuestTypes, Flip, Flips, Dcbs
  <2>3. GuestTypes' /\ IrqTypes'
    BY <1>0, <2>0, <2>2 DEF GuestTypes, IrqTypes, Goto
  <2>4. VideoOutTypeOK'
    BY <1>0, <2>0, <2>3, PartsKept, TypePartsNext DEF queueVars
  <2>5. PatchedOK'
    <3>1. Patched' \subseteq Patched
      BY <1>0, <2>0 DEF Patched, Goto, GuestTypes, queueVars, gpuVars
    <3> QED
      BY <1>0, <2>0, <3>1, PatchedKept
  <2>6. FramesAccounted'
    BY <1>0, <2>0, FramesKept DEF queueVars, gpuVars, presentVars
  <2>7. GpuAtWork'
    BY <1>0, <2>0, <2>5, AtWorkKept DEF queueVars, gpuVars, presentVars
  <2>8. SendingFinite'
    BY <1>0, <2>0, SendingStep
  <2> QED
    BY <2>4, <2>5, <2>6, <2>7, <2>8 DEF BaseInv
<1>3. CASE EopSubmit(g)
  <2>0. /\ pc[g] = "submit" /\ Goto(g, "idle")
        /\ submits' = Append(submits, call[g]) \/ submits' = submits
        /\ call' = [call EXCEPT ![g] = NoDcb]
        /\ UNCHANGED <<portVars, labelVars, countVars, irqVars, commands, requests,
                       free_queue, gpuVars, presentVars, calls>>
    BY <1>3 DEF EopSubmit
  <2>1. call[g] \in Patched
    BY <2>0 DEF Patched
  <2>2. call[g].index \in Buffers /\ call[g] \in Dcbs
    BY <1>0, <2>1 DEF PatchedOK, GuestTypes
  <2>3. GuestTypes' /\ SubmitTypes'
    <3>1. NoDcb \in Dcbs
      BY DEF Dcbs, NoDcb, Dcb, Indices
    <3>2. GuestTypes'
      BY <1>0, <2>0, <3>1 DEF GuestTypes, Goto
    <3>3. SubmitTypes'
      BY <1>0, <2>0, <2>2 DEF SubmitTypes
    <3> QED
      BY <3>2, <3>3
  <2>4. VideoOutTypeOK'
    BY <1>0, <2>0, <2>3, PartsKept, TypePartsNext
  <2>5. PatchedOK' /\ (submits # <<>> => submits' # <<>>)
    <3>1. \A h \in Guest : InCall(h)' => call'[h] \in Patched
      BY <1>0, <2>0, PatchedHas DEF InCall, Goto, GuestTypes
    <3>2. \A k \in DOMAIN submits' : submits'[k] \in Patched
      BY <1>0, <2>0, <2>1, <2>2, PatchedHas DEF SubmitTypes
    <3>3. Patched' \subseteq Patched
      BY <2>0, <3>1, <3>2, PatchedHas, PatchedWithin DEF gpuVars
    <3> QED
      BY <1>0, <2>0, <2>2, <3>3, PatchedKept DEF irqVars, SubmitTypes
  <2>6. FramesAccounted'
    BY <1>0, <2>0, FramesKept DEF gpuVars, presentVars
  <2>7. GpuAtWork'
    BY <1>0, <2>0, <2>5, AtWorkKept DEF gpuVars, presentVars
  <2>8. SendingFinite'
    BY <1>0, <2>0, SendingStep
  <2> QED
    BY <2>4, <2>5, <2>6, <2>7, <2>8 DEF BaseInv
<1>4. CASE Resubmit(g)
  <2>0. /\ spent # NoDcb /\ calls' = calls + 1
        /\ submits' = Append(submits, spent)
        /\ UNCHANGED <<portVars, labelVars, countVars, irqVars, commands, requests,
                       free_queue, gpuVars, presentVars, pc, call>>
    BY <1>4 DEF Resubmit, Asks
  <2>1. spent \in Patched
    BY <2>0 DEF Patched
  <2>2. spent.index \in Buffers /\ spent \in Dcbs
    BY <1>0, <2>1 DEF PatchedOK, GpuTypes
  <2>3. GuestTypes' /\ SubmitTypes'
    BY <1>0, <2>0, <2>2 DEF GuestTypes, SubmitTypes
  <2>4. VideoOutTypeOK'
    BY <1>0, <2>0, <2>3, PartsKept, TypePartsNext
  <2>5. PatchedOK' /\ submits' # <<>>
    <3>1. Patched' \subseteq Patched
      BY <1>0, <2>0, <2>1, <2>2 DEF Patched, SubmitTypes, gpuVars
    <3> QED
      BY <1>0, <2>0, <2>2, <3>1, PatchedKept DEF irqVars, SubmitTypes
  <2>6. FramesAccounted'
    BY <1>0, <2>0, FramesKept DEF gpuVars, presentVars
  <2>7. GpuAtWork'
    BY <1>0, <2>0, <2>5, AtWorkKept DEF gpuVars, presentVars
  <2>8. SendingFinite'
    BY <1>0, <2>0 DEF SendingFinite, Sending
  <2> QED
    BY <2>4, <2>5, <2>6, <2>7, <2>8 DEF BaseInv
<1>5. ASSUME NEW i \in Buffers \cup {NoIndex}, CpuFlip(g, i) PROVE BaseInv'
  <2>0. /\ pc[g] = "idle" /\ calls' = calls + 1 /\ Goto(g, "count")
        /\ flip_pending_num' = flip_pending_num + 1
        /\ call' = [call EXCEPT ![g] = Dcb(i, 0, 0, FALSE)]
        /\ UNCHANGED <<portVars, labelVars, gc_queue_num, forgotten, irqVars, queueVars,
                       gpuVars, presentVars>>
    BY <1>5 DEF CpuFlip, Asks
  <2>1. Dcb(i, 0, 0, FALSE) \in Dcbs
    BY <1>0, <2>0 DEF Dcb, Dcbs, Indices, GuestTypes
  <2>2. GuestTypes' /\ CountTypes'
    <3> DEFINE d == Dcb(i, 0, 0, FALSE)
    <3>a. call' = [call EXCEPT ![g] = d] /\ d \in Dcbs /\ calls' = calls + 1
          /\ Goto(g, "count")
      BY <2>0, <2>1
    <3> HIDE DEF d
    <3>1. GuestTypes'
      BY <1>0, <3>a DEF GuestTypes, Goto
    <3>2. CountTypes'
      BY <1>0, <2>0 DEF CountTypes
    <3> QED
      BY <3>1, <3>2
  <2>3. VideoOutTypeOK'
    BY <1>0, <2>0, <2>2, PartsKept, TypePartsNext DEF queueVars
  <2>5. PatchedOK'
    <3>1. Patched' \subseteq Patched
      BY <1>0, <2>0 DEF Patched, Goto, GuestTypes, queueVars, gpuVars
    <3> QED
      BY <1>0, <2>0, <3>1, PatchedKept DEF irqVars
  <2>6. FramesAccounted'
    BY <1>0, <2>0, FramesKept DEF queueVars, gpuVars, presentVars
  <2>7. GpuAtWork'
    BY <1>0, <2>0, <2>5, AtWorkKept DEF queueVars, gpuVars, presentVars
  <2>8. SendingFinite'
    BY <1>0, <2>0, SendingStep
  <2> QED
    BY <2>3, <2>5, <2>6, <2>7, <2>8 DEF BaseInv
<1>6. CASE CpuSend(g)
  <2>0. /\ pc[g] = "send" /\ Goto(g, "idle")
        /\ commands' = Append(commands, Flip(call[g].index, call[g].flip_arg, FALSE))
        /\ call' = [call EXCEPT ![g] = NoDcb]
        /\ UNCHANGED <<portVars, labelVars, countVars, irqVars, submits, requests,
                       free_queue, gpuVars, presentVars, calls>>
    BY <1>6 DEF CpuSend
  <2>1. Flip(call[g].index, call[g].flip_arg, FALSE) \in Flips /\ NoDcb \in Dcbs
    BY <1>0 DEF GuestTypes, Flip, Flips, Dcbs, NoDcb, Dcb, Indices
  <2>2. GuestTypes' /\ QueueTypes'
    <3>1. GuestTypes'
      BY <1>0, <2>0, <2>1 DEF GuestTypes, Goto
    <3>2. QueueTypes'
      <4> DEFINE f == Flip(call[g].index, call[g].flip_arg, FALSE)
      <4>1. /\ commands' = Append(commands, f) /\ f \in Flips
            /\ UNCHANGED <<requests, free_queue>>
        BY <2>0, <2>1
      <4> HIDE DEF f
      <4> QED
        BY <1>0, <4>1 DEF QueueTypes
    <3> QED
      BY <3>1, <3>2
  <2>3. VideoOutTypeOK'
    BY <1>0, <2>0, <2>2, PartsKept, TypePartsNext
  <2>5. PatchedOK'
    <3>1. Patched' \subseteq Patched
      BY <1>0, <2>0 DEF Patched, Goto, GuestTypes, gpuVars
    <3> QED
      BY <1>0, <2>0, <3>1, PatchedKept DEF irqVars
  <2>6. FramesAccounted'
    BY <1>0, <2>0, FramesKept DEF gpuVars, presentVars
  <2>7. GpuAtWork'
    <3> DEFINE f == Flip(call[g].index, call[g].flip_arg, FALSE)
    <3>1. /\ commands' = Append(commands, f) /\ f \in Flips /\ ~f.eop
          /\ UNCHANGED <<gpu, gpu_back, job, submits>>
      BY <2>0, <2>1 DEF Flip, gpuVars
    <3> HIDE DEF f
    <3>2. \A k \in DOMAIN commands' : ~commands'[k].eop
      BY <1>0, <3>1 DEF QueueTypes, GpuAtWork
    <3> QED
      BY <1>0, <3>1, <3>2 DEF GpuAtWork, Preparing
  <2>8. SendingFinite'
    BY <1>0, <2>0, SendingStep
  <2> QED
    BY <2>3, <2>5, <2>6, <2>7, <2>8 DEF BaseInv
<1>7. ASSUME UNCHANGED <<irqVars, queueVars, gpuVars, presentVars, guestVars>>,
             PortTypes', LabelTypes', CountTypes'
      PROVE  BaseInv'
  <2>1. VideoOutTypeOK'
    BY <1>0, <1>7, PartsKept, TypePartsNext DEF queueVars
  <2>2. Patched' = Patched /\ Sending' = Sending
    BY <1>7 DEF Patched, Sending, queueVars, gpuVars, guestVars
  <2>6. FramesAccounted'
    BY <1>0, <1>7, FramesKept DEF irqVars, queueVars, gpuVars, presentVars
  <2>7. GpuAtWork'
    BY <1>0, <1>7, AtWorkKept DEF irqVars, queueVars, gpuVars, presentVars
  <2>8. SendingFinite'
    BY <1>0, <2>2 DEF SendingFinite
  <2>9. PatchedOK'
    BY <1>0, <1>7, <2>2, PatchedKept DEF irqVars
  <2> QED
    BY <2>1, <2>6, <2>7, <2>8, <2>9 DEF BaseInv
(* A step of Close, or of the calls that open and change the port.         *)
<1>8. ASSUME NEW label \in {"idle", "send", "signal", "labels", "slots"}, Goto(g, label),
             ~InCall(g), UNCHANGED <<irqVars, queueVars, gpuVars, presentVars, call, calls>>,
             PortTypes', LabelTypes', CountTypes'
      PROVE  BaseInv'
  <2>1. GuestTypes'
    BY <1>0, <1>8 DEF GuestTypes, Goto
  <2>2. VideoOutTypeOK'
    BY <1>0, <1>8, <2>1, PartsKept, TypePartsNext DEF queueVars
  <2>3. \A h \in Guest : InCall(h)' => InCall(h) /\ call'[h] = call[h]
    BY <1>0, <1>8 DEF InCall, Goto, GuestTypes
  <2>4. Patched' \subseteq Patched
    BY <1>8, <2>3, PatchedHas, PatchedWithin DEF queueVars, gpuVars
  <2>5. PatchedOK'
    BY <1>0, <1>8, <2>4, PatchedKept DEF irqVars
  <2>6. FramesAccounted'
    BY <1>0, <1>8, FramesKept DEF queueVars, gpuVars, presentVars
  <2>7. GpuAtWork'
    BY <1>0, <1>8, AtWorkKept DEF queueVars, gpuVars, presentVars
  <2>8. SendingFinite'
    BY <1>0, <1>8, SendingStep
  <2> QED
    BY <2>2, <2>5, <2>6, <2>7, <2>8 DEF BaseInv
<1>9. CASE Open(g)
  <2>1. PortTypes' /\ LabelTypes' /\ CountTypes'
    BY <1>0, <1>9, PartsKept DEF Open, PortTypes
  <2> QED
    BY <1>7, <1>9, <2>1 DEF Open
<1>10. ASSUME NEW b \in Buffers, UnregisterBuffer(g, b) PROVE BaseInv'
  <2>1. PortTypes' /\ LabelTypes' /\ CountTypes'
    BY <1>0, <1>10, PartsKept DEF UnregisterBuffer, Closes, PortTypes
  <2> QED
    BY <1>7, <1>10, <2>1 DEF UnregisterBuffer
<1>11. ASSUME NEW b \in Buffers, RegisterBuffer(g, b) PROVE BaseInv'
  <2>0. /\ ~InCall(g) /\ Goto(g, "signal")
        /\ registered' = registered \cup {b}
        /\ buffer_labels' = [buffer_labels EXCEPT ![b] = 0] /\ leaked' = leaked \ {b}
        /\ UNCHANGED <<is_open, prev_index, closing, closes, silent, countVars, irqVars,
                       queueVars, gpuVars, presentVars, call, calls>>
    BY <1>11 DEF RegisterBuffer, InCall
  <2>1. PortTypes' /\ LabelTypes' /\ CountTypes'
    BY <1>0, <2>0, PartsKept DEF PortTypes, LabelTypes
  <2> QED
    BY <1>8, <2>0, <2>1
<1>12. CASE RegisterSignal(g)
  <2>0. /\ pc[g] = "signal" /\ Goto(g, "idle")
        /\ gpu' = IF gpu = "asleep" THEN "woken" ELSE gpu
        /\ silent' = {}
        /\ UNCHANGED <<portVars, buffer_labels, leaked, countVars, irqVars, queueVars,
                       gpu_back, job, spent, presentVars, call, calls>>
    BY <1>12 DEF RegisterSignal, SignalVoLabel
  <2>1. LabelTypes' /\ GpuTypes' /\ GuestTypes'
    BY <1>0, <2>0 DEF LabelTypes, GpuTypes, GuestTypes, Goto
  <2>2. VideoOutTypeOK'
    BY <1>0, <2>0, <2>1, PartsKept, TypePartsNext DEF queueVars
  <2>3. Patched' \subseteq Patched
    BY <1>0, <2>0 DEF Patched, Goto, GuestTypes, queueVars
  <2>4. PatchedOK'
    BY <1>0, <2>0, <2>3, PatchedKept DEF irqVars
  <2>5. GpuAtWork'
    BY <1>0, <2>0 DEF GpuAtWork, Preparing, queueVars
  <2>6. FramesAccounted'
    BY <1>0, <2>0, FramesKept DEF queueVars, presentVars
  <2>8. SendingFinite'
    BY <1>0, <2>0, SendingStep
  <2> QED
    BY <2>2, <2>4, <2>5, <2>6, <2>8 DEF BaseInv
<1>13. CASE CpuCounted(g)
  <2>1. /\ ~InCall(g) /\ Goto(g, "send")
        /\ UNCHANGED <<portVars, labelVars, countVars, irqVars, queueVars, gpuVars,
                       presentVars, call, calls>>
    BY <1>13 DEF CpuCounted, InCall
  <2> QED
    BY <1>0, <1>8, <2>1, PartsKept
<1>14. CASE CloseBegin(g)
  <2>1. /\ ~InCall(g) /\ Goto(g, "labels")
        /\ is_open' = FALSE /\ prev_index' = NoIndex /\ closing' = Buffers
        /\ closes' = closes + 1
        /\ UNCHANGED <<registered, labelVars, countVars, irqVars, queueVars, gpuVars,
                       presentVars, call, calls>>
    BY <1>14 DEF CloseBegin, Closes, InCall
  <2>2. PortTypes'
    <3>1. closes' \in Nat /\ prev_index' \in Indices
      BY <1>0, <2>1 DEF PortTypes, Indices
    <3> QED
      BY <1>0, <2>1, <3>1 DEF PortTypes
  <2> QED
    BY <1>0, <1>8, <2>1, <2>2, PartsKept
<1>15. ASSUME NEW b \in Buffers, CloseLabel(g, b) PROVE BaseInv'
  <2>1. PortTypes' /\ LabelTypes' /\ CountTypes'
    BY <1>0, <1>15, PartsKept DEF CloseLabel, PortTypes, LabelTypes
  <2> QED
    BY <1>7, <1>15, <2>1 DEF CloseLabel
<1>16. CASE CloseStatus(g)
  <2>1. /\ ~InCall(g) /\ Goto(g, "slots")
        /\ UNCHANGED <<portVars, labelVars, irqVars, queueVars, gpuVars, presentVars, call,
                       calls>>
    BY <1>16 DEF CloseStatus, InCall
  <2>2. flip_pending_num' \in Int /\ gc_queue_num' \in Int
    <3>1. /\ Cardinality(Counting) + One(gpu = "count") - One(present = "uncount") \in Int
          /\ One(gpu = "count") - One(present = "uncount" /\ shown.eop) \in Int
      BY <1>0, CountingNat DEF One
    <3> QED
      BY <1>0, <1>16, <3>1, ResetInt DEF CloseStatus, CountTypes
  <2>3. CountTypes'
    BY <1>0, <1>16, <2>2, UnderWayNat DEF CloseStatus, CountTypes
  <2> QED
    BY <1>0, <1>8, <2>1, <2>3, PartsKept
<1>17. CASE CloseSlots(g)
  <2>1. /\ ~InCall(g) /\ Goto(g, "idle") /\ registered' = {}
        /\ UNCHANGED <<is_open, prev_index, closing, closes, labelVars, countVars, irqVars,
                       queueVars, gpuVars, presentVars, call, calls>>
    BY <1>17 DEF CloseSlots, InCall
  <2>2. PortTypes'
    BY <1>0, <2>1 DEF PortTypes
  <2> QED
    BY <1>0, <1>8, <2>1, <2>2, PartsKept
<1> QED
  BY <1>1, <1>2, <1>3, <1>4, <1>5, <1>6, <1>9, <1>10, <1>11, <1>12, <1>13, <1>14, <1>15,
     <1>16, <1>17
  DEF GuestNext, GoesOn

-----------------------------------------------------------------------------
(* The steps of the GPU thread *)

LEMMA HeadFacts ==
  ASSUME BaseInv, submits # <<>>
  PROVE  /\ Head(submits) \in Patched /\ Head(submits) \in Dcbs
         /\ Head(submits).index \in Buffers
<1>1. submits \in Seq(Dcbs) /\ 1 \in DOMAIN submits /\ Head(submits) = submits[1]
  BY DEF BaseInv, VideoOutTypeOK
<1> QED
  BY <1>1, PatchedHas DEF BaseInv, VideoOutTypeOK

(* The end of a command buffer.                                            *)
LEMMA RetireKept ==
  ASSUME BaseInv, submits # <<>>, Retire, UNCHANGED guestVars
  PROVE  SubmitTypes' /\ spent' \in Dcbs /\ Patched' \subseteq Patched
<1>0. VideoOutTypeOK /\ SubmitTypes /\ Head(submits) \in Patched /\ Head(submits) \in Dcbs
  BY TypeParts, HeadFacts DEF BaseInv
<1>1. submits' = Tail(submits) /\ spent' \in {Head(submits), spent}
  BY DEF Retire
<1>2. /\ submits' \in Seq(Dcbs)
      /\ \A k \in DOMAIN submits' : k + 1 \in DOMAIN submits /\ submits'[k] = submits[k + 1]
  BY <1>0, <1>1 DEF SubmitTypes
<1>3. SubmitTypes'
  BY <1>0, <1>2 DEF SubmitTypes
<1>4. \A k \in DOMAIN submits' : submits'[k] \in Patched
  BY <1>2, PatchedHas
<1>5. \A g \in Guest : InCall(g)' => call'[g] \in Patched
  BY PatchedHas DEF InCall, guestVars
<1>6. spent' # NoDcb => spent' \in Patched
  BY <1>0, <1>1, PatchedHas
<1>7. spent' \in Dcbs
  BY <1>0, <1>1 DEF VideoOutTypeOK
<1> QED
  BY <1>3, <1>4, <1>5, <1>6, <1>7, PatchedWithin

(* The GPU thread goes from one packet to another.                         *)
LEMMA MoveBase ==
  ASSUME BaseInv, submits # <<>>, gpu # "push",
         gpu' \in {"wait", "asleep", "woken", "poll", "write", "flip"}, LabelTypes',
         UNCHANGED <<portVars, countVars, irqVars, queueVars, gpu_back, job, spent,
                     presentVars, guestVars>>
  PROVE  BaseInv'
<1>0. /\ VideoOutTypeOK /\ FramesAccounted /\ PatchedOK /\ GpuAtWork /\ SendingFinite
      /\ PortTypes /\ LabelTypes /\ CountTypes /\ IrqTypes /\ SubmitTypes /\ QueueTypes
      /\ GpuTypes /\ PresentTypes /\ GuestTypes
  BY TypeParts DEF BaseInv
<1>1. GpuTypes'
  BY <1>0 DEF GpuTypes
<1>2. VideoOutTypeOK'
  BY <1>0, <1>1, PartsKept, TypePartsNext DEF queueVars
<1>3. Patched' = Patched /\ Sending' = Sending
  BY DEF Patched, Sending, queueVars, guestVars
<1>4. PatchedOK'
  BY <1>0, <1>3, PatchedKept DEF irqVars
<1>5. FramesAccounted'
  BY <1>0, FramesKept DEF queueVars, presentVars
<1>6. GpuAtWork'
  BY <1>0 DEF GpuAtWork, Preparing, queueVars
<1> QED
  BY <1>0, <1>2, <1>3, <1>4, <1>5, <1>6 DEF BaseInv, SendingFinite

LEMMA GpuBase ==
  ASSUME BaseInv, GpuNext
  PROVE  BaseInv'
<1>0. /\ VideoOutTypeOK /\ FramesAccounted /\ PatchedOK /\ GpuAtWork /\ SendingFinite
      /\ PortTypes /\ LabelTypes /\ CountTypes /\ IrqTypes /\ SubmitTypes /\ QueueTypes
      /\ GpuTypes /\ PresentTypes /\ GuestTypes
  BY TypeParts DEF BaseInv
<1>1. CASE GpuTask
  <2>1. /\ submits # <<>> /\ gpu # "push" /\ gpu' \in {"wait", "write"}
        /\ UNCHANGED <<portVars, labelVars, countVars, irqVars, queueVars, gpu_back, job,
                       spent, presentVars, guestVars>>
    BY <1>1 DEF GpuTask
  <2> QED
    BY <1>0, <2>1, MoveBase, PartsKept
<1>2. CASE WaitPass
  <2>1. /\ gpu \in {"wait", "woken", "poll"} /\ gpu' = "write"
        /\ UNCHANGED <<portVars, labelVars, countVars, irqVars, queueVars, gpu_back, job,
                       spent, presentVars, guestVars>>
    BY <1>2 DEF WaitPass
  <2> QED
    BY <1>0, <2>1, MoveBase, PartsKept DEF GpuAtWork
<1>3. CASE WaitSleep
  <2>1. /\ gpu \in {"wait", "woken"} /\ gpu' = "asleep"
        /\ UNCHANGED <<portVars, labelVars, countVars, irqVars, queueVars, gpu_back, job,
                       spent, presentVars, guestVars>>
    BY <1>3 DEF WaitSleep
  <2> QED
    BY <1>0, <2>1, MoveBase, PartsKept DEF GpuAtWork
<1>4. CASE WaitPoll
  <2>1. /\ gpu = "wait" /\ gpu' = "poll"
        /\ UNCHANGED <<portVars, labelVars, countVars, irqVars, queueVars, gpu_back, job,
                       spent, presentVars, guestVars>>
    BY <1>4 DEF WaitPoll
  <2> QED
    BY <1>0, <2>1, MoveBase, PartsKept DEF GpuAtWork
<1>5. CASE WriteLock
  <2>1. /\ gpu = "write" /\ gpu' = "flip"
        /\ buffer_labels' = [buffer_labels EXCEPT ![Head(submits).index] = 1]
        /\ UNCHANGED <<portVars, leaked, silent, countVars, irqVars, queueVars, gpu_back,
                       job, spent, presentVars, guestVars>>
    BY <1>5 DEF WriteLock
  <2>2. submits # <<>>
    BY <1>0, <2>1 DEF GpuAtWork
  <2>3. LabelTypes'
    BY <1>0, <2>1 DEF LabelTypes
  <2> QED
    BY <2>1, <2>2, <2>3, MoveBase
(* A flip that is dropped: stale or refused.                               *)
<1>6. ASSUME gpu = "flip", gpu' = "process", Retire, IrqTypes',
             leaked' = leaked \cup {Head(submits).index},
             UNCHANGED <<portVars, buffer_labels, silent, countVars, next_flip_token,
                         commands, requests, free_queue, gpu_back, job, presentVars,
                         guestVars>>
      PROVE  BaseInv'
  <2>1. submits # <<>>
    BY <1>0, <1>6 DEF GpuAtWork
  <2>2. SubmitTypes' /\ spent' \in Dcbs /\ Patched' \subseteq Patched
    BY <1>6, <2>1, RetireKept
  <2>3. LabelTypes'
    BY <1>0, <1>6, <2>1, HeadFacts DEF LabelTypes
  <2>4. GpuTypes'
    BY <1>0, <1>6, <2>2 DEF GpuTypes
  <2>5. VideoOutTypeOK'
    BY <1>0, <1>6, <2>2, <2>3, <2>4, PartsKept, TypePartsNext
  <2>6. PatchedOK'
    BY <1>0, <1>6, <2>2, PatchedKept
  <2>7. FramesAccounted'
    BY <1>0, <1>6, FramesKept DEF presentVars
  <2>8. GpuAtWork'
    BY <1>0, <1>6 DEF GpuAtWork, Preparing
  <2>9. SendingFinite'
    BY <1>0, <1>6 DEF SendingFinite, Sending, guestVars
  <2> QED
    BY <2>5, <2>6, <2>7, <2>8, <2>9 DEF BaseInv
<1>7. CASE IrqStale
  <2>1. IrqTypes'
    BY <1>0, <1>7, PartsKept DEF IrqStale
  <2> QED
    BY <1>6, <1>7, <2>1 DEF IrqStale, irqVars
<1>8. CASE IrqRefused
  <2>1. IrqTypes'
    BY <1>0, <1>8 DEF IrqRefused, IrqTypes, Without
  <2> QED
    BY <1>6, <1>8, <2>1 DEF IrqRefused
<1>9. CASE IrqFlip
  <2>0. /\ gpu = "flip" /\ gpu' = "count" /\ gpu_back' = "process" /\ job' = Handler
        /\ flip_pending_num' = flip_pending_num + 1 /\ gc_queue_num' = gc_queue_num + 1
        /\ Token \in DOMAIN subscribers
        /\ UNCHANGED <<portVars, labelVars, forgotten, irqVars, queueVars, spent,
                       presentVars, guestVars>>
    BY <1>9 DEF IrqFlip
  <2>1. GpuTypes' /\ CountTypes'
    <3>1. job' \in Flips
      BY <1>0, <2>0 DEF IrqTypes, Handler
    <3>2. GpuTypes'
      BY <1>0, <2>0, <3>1 DEF GpuTypes
    <3>3. CountTypes'
      BY <1>0, <2>0 DEF CountTypes
    <3> QED
      BY <3>2, <3>3
  <2>2. VideoOutTypeOK'
    BY <1>0, <2>0, <2>1, PartsKept, TypePartsNext DEF queueVars
  <2>3. Patched' = Patched /\ Sending' = Sending
    BY <2>0 DEF Patched, Sending, queueVars, guestVars
  <2>4. PatchedOK'
    BY <1>0, <2>0, <2>3, PatchedKept DEF irqVars
  <2>5. FramesAccounted'
    BY <1>0, <2>0, FramesKept DEF queueVars, presentVars
  <2>6. GpuAtWork'
    BY <1>0, <2>0 DEF GpuAtWork, Preparing, queueVars
  <2> QED
    BY <1>0, <2>2, <2>3, <2>4, <2>5, <2>6 DEF BaseInv, SendingFinite
<1>10. CASE TakeCommand
  <2>0. /\ gpu \in {"process", "wait", "poll", "write", "flip"} /\ commands # <<>>
        /\ job' = Head(commands) /\ commands' = Tail(commands)
        /\ gpu' = "prepare" /\ gpu_back' = gpu
        /\ UNCHANGED <<portVars, labelVars, countVars, irqVars, submits, requests,
                       free_queue, spent, presentVars, guestVars>>
    BY <1>10 DEF TakeCommand
  <2>1. /\ job' \in Flips /\ ~job'.eop /\ commands' \in Seq(Flips)
        /\ \A k \in DOMAIN commands' : ~commands'[k].eop
    <3>1. 1 \in DOMAIN commands /\ Head(commands) = commands[1]
      BY <1>0, <2>0 DEF QueueTypes
    <3>2. /\ Tail(commands) \in Seq(Flips)
          /\ \A k \in DOMAIN Tail(commands) :
               k + 1 \in DOMAIN commands /\ Tail(commands)[k] = commands[k + 1]
      BY <1>0, <2>0 DEF QueueTypes
    <3> QED
      BY <1>0, <2>0, <3>1, <3>2 DEF QueueTypes, GpuAtWork
  <2>2. GpuTypes' /\ QueueTypes'
    <3>1. GpuTypes'
      BY <1>0, <2>0, <2>1 DEF GpuTypes
    <3>2. QueueTypes'
      BY <1>0, <2>0, <2>1 DEF QueueTypes
    <3> QED
      BY <3>1, <3>2
  <2>3. VideoOutTypeOK'
    BY <1>0, <2>0, <2>2, PartsKept, TypePartsNext
  <2>4. Patched' = Patched /\ Sending' = Sending
    BY <2>0 DEF Patched, Sending, guestVars
  <2>5. PatchedOK'
    BY <1>0, <2>0, <2>4, PatchedKept DEF irqVars
  <2>6. FramesAccounted'
    BY <1>0, <2>0, FramesKept DEF presentVars
  <2>7. GpuAtWork'
    BY <1>0, <2>0, <2>1 DEF GpuAtWork, Preparing
  <2> QED
    BY <1>0, <2>3, <2>4, <2>5, <2>6, <2>7 DEF BaseInv, SendingFinite
<1>11. CASE PrepareFrame
  <2>0. /\ gpu = "prepare" /\ free_queue > 0 /\ free_queue' = free_queue - 1 /\ gpu' = "push"
        /\ UNCHANGED <<portVars, labelVars, countVars, irqVars, submits, commands, requests,
                       gpu_back, job, spent, presentVars, guestVars>>
    BY <1>11 DEF PrepareFrame
  <2>1. GpuTypes'
    BY <1>0, <2>0 DEF GpuTypes
  <2>2. QueueTypes'
    BY <1>0, <2>0, VideoOutFlipAssumption DEF QueueTypes
  <2>3. VideoOutTypeOK'
    BY <1>0, <2>0, <2>1, <2>2, PartsKept, TypePartsNext
  <2>4. Patched' = Patched /\ Sending' = Sending
    BY <2>0 DEF Patched, Sending, guestVars
  <2>5. PatchedOK'
    BY <1>0, <2>0, <2>4, PatchedKept DEF irqVars
  <2>6. FramesAccounted'
    BY <1>0, <2>0, VideoOutFlipAssumption
    DEF FramesAccounted, presentVars, One, VideoOutTypeOK
  <2>7. GpuAtWork'
    BY <1>0, <2>0 DEF GpuAtWork, Preparing
  <2> QED
    BY <1>0, <2>3, <2>4, <2>5, <2>6, <2>7 DEF BaseInv, SendingFinite
<1>12. CASE PushRequest
  <2>0. /\ gpu = "push" /\ requests' = Append(requests, job)
        /\ gpu' = gpu_back /\ gpu_back' = "process" /\ job' = NoFlip
        /\ IF job.eop THEN subscribers' = Without(Token) /\ Retire
                      ELSE UNCHANGED <<subscribers, submits, spent>>
        /\ UNCHANGED <<portVars, labelVars, countVars, next_flip_token, commands, free_queue,
                       presentVars, guestVars>>
    BY <1>12 DEF PushRequest
  <2>1. IrqTypes'
    <3>1. subscribers' \in {subscribers, Without(Token)}
      BY <2>0
    <3> QED
      BY <1>0, <2>0, <3>1 DEF IrqTypes, Without
  <2>2. SubmitTypes' /\ spent' \in Dcbs /\ Patched' \subseteq Patched
    <3>1. CASE job.eop
      BY <1>0, <2>0, <3>1, RetireKept DEF GpuAtWork, Preparing
    <3>2. CASE ~job.eop
      <4>1. UNCHANGED <<submits, spent>>
        BY <2>0, <3>2
      <4> QED
        BY <1>0, <2>0, <4>1, PartsKept DEF Patched, guestVars, GpuTypes
    <3> QED
      BY <3>1, <3>2
  <2>3. GpuTypes'
    <3>1. NoFlip \in Flips
      BY DEF NoFlip, Flip, Flips, Indices
    <3> QED
      BY <1>0, <2>0, <2>2, <3>1 DEF GpuTypes
  <2>4. QueueTypes'
    BY <1>0, <2>0 DEF QueueTypes, GpuTypes
  <2>5. VideoOutTypeOK'
    BY <1>0, <2>0, <2>1, <2>2, <2>3, <2>4, PartsKept, TypePartsNext
  <2>6. PatchedOK'
    BY <1>0, <2>0, <2>2, PatchedKept
  <2>7. FramesAccounted'
    <3>1. gpu' # "push" /\ Len(requests') = Len(requests) + 1 /\ Len(requests) \in Nat
      BY <1>0, <2>0 DEF GpuTypes, QueueTypes
    <3> QED
      BY <1>0, <2>0, <3>1, VideoOutFlipAssumption
      DEF FramesAccounted, presentVars, One, QueueTypes
  <2>8. GpuAtWork'
    <3>1. ~job.eop => UNCHANGED submits
      BY <2>0
    <3>2. gpu' \notin {"count", "prepare", "push"}
      BY <1>0, <2>0 DEF GpuTypes
    <3> QED
      BY <1>0, <2>0, <3>1, <3>2 DEF GpuAtWork, Preparing
  <2>9. SendingFinite'
    BY <1>0, <2>0 DEF SendingFinite, Sending, guestVars
  <2> QED
    BY <2>5, <2>6, <2>7, <2>8, <2>9 DEF BaseInv
<1>13. CASE IrqCounted
  <2>0. /\ gpu = "count" /\ gpu' = "prepare"
        /\ UNCHANGED <<portVars, labelVars, countVars, irqVars, queueVars, gpu_back, job,
                       spent, presentVars, guestVars>>
    BY <1>13 DEF IrqCounted
  <2>1. GpuTypes'
    BY <1>0, <2>0 DEF GpuTypes
  <2>2. VideoOutTypeOK'
    BY <1>0, <2>0, <2>1, PartsKept, TypePartsNext DEF queueVars
  <2>3. Patched' = Patched /\ Sending' = Sending
    BY <2>0 DEF Patched, Sending, queueVars, guestVars
  <2>4. PatchedOK'
    BY <1>0, <2>0, <2>3, PatchedKept DEF irqVars
  <2>5. FramesAccounted'
    BY <1>0, <2>0, FramesKept DEF queueVars, presentVars
  <2>6. GpuAtWork'
    BY <1>0, <2>0 DEF GpuAtWork, Preparing, queueVars
  <2> QED
    BY <1>0, <2>2, <2>3, <2>4, <2>5, <2>6 DEF BaseInv, SendingFinite
<1> QED
  BY <1>1, <1>2, <1>3, <1>4, <1>5, <1>7, <1>8, <1>9, <1>10, <1>11, <1>12, <1>13
  DEF GpuNext

-----------------------------------------------------------------------------
(* The steps of the present thread *)

LEMMA PresentBase ==
  ASSUME BaseInv, PresentNext
  PROVE  BaseInv'
<1>0. /\ VideoOutTypeOK /\ FramesAccounted /\ PatchedOK /\ GpuAtWork /\ SendingFinite
      /\ PortTypes /\ LabelTypes /\ CountTypes /\ IrqTypes /\ SubmitTypes /\ QueueTypes
      /\ GpuTypes /\ PresentTypes /\ GuestTypes
  BY TypeParts DEF BaseInv
(* What every step leaves alone.                                           *)
<1>1. ASSUME UNCHANGED <<irqVars, submits, commands, gpu_back, job, spent, guestVars>>,
             VideoOutTypeOK', FramesAccounted',
             gpu' = gpu \/ (gpu = "asleep" /\ gpu' = "woken")
      PROVE  BaseInv'
  <2>1. Patched' = Patched /\ Sending' = Sending
    BY <1>1 DEF Patched, Sending, guestVars
  <2>2. PatchedOK'
    BY <1>0, <1>1, <2>1, PatchedKept DEF irqVars
  <2>3. GpuAtWork'
    BY <1>0, <1>1 DEF GpuAtWork, Preparing
  <2> QED
    BY <1>0, <1>1, <2>1, <2>2, <2>3 DEF BaseInv, SendingFinite
<1>2. CASE TakeRequest
  <2>0. /\ present = "vblank" /\ requests # <<>> /\ present' = "present"
        /\ shown' = Head(requests) /\ requests' = Tail(requests)
        /\ UNCHANGED <<portVars, labelVars, countVars, irqVars, submits, commands,
                       free_queue, gpuVars, tested, guestVars>>
    BY <1>2 DEF TakeRequest
  <2>1. /\ Head(requests) \in Flips /\ Tail(requests) \in Seq(Flips)
        /\ Len(Tail(requests)) = Len(requests) - 1
    BY <1>0, <2>0 DEF QueueTypes
  <2>2. PresentTypes' /\ QueueTypes'
    <3>1. PresentTypes'
      BY <1>0, <2>0, <2>1 DEF PresentTypes
    <3>2. QueueTypes'
      BY <1>0, <2>0, <2>1 DEF QueueTypes
    <3> QED
      BY <3>1, <3>2
  <2>3. VideoOutTypeOK'
    BY <1>0, <2>0, <2>2, PartsKept, TypePartsNext
  <2>4. FramesAccounted'
    BY <1>0, <2>0, <2>1, VideoOutFlipAssumption
    DEF FramesAccounted, One, gpuVars, QueueTypes
  <2> QED
    BY <1>1, <2>0, <2>3, <2>4 DEF gpuVars
<1>3. CASE PresentFrame
  <2>0. /\ present = "present" /\ present' = "status" /\ free_queue' = free_queue + 1
        /\ UNCHANGED <<portVars, labelVars, countVars, irqVars, submits, commands, requests,
                       gpuVars, shown, tested, guestVars>>
    BY <1>3 DEF PresentFrame
  <2>1. PresentTypes'
    BY <1>0, <2>0 DEF PresentTypes
  <2>2. free_queue' \in 0 .. NumFrames
    BY <1>0, <2>0, VideoOutFlipAssumption DEF FramesAccounted, One, QueueTypes
  <2>3. QueueTypes'
    BY <1>0, <2>0, <2>2 DEF QueueTypes
  <2>4. VideoOutTypeOK'
    BY <1>0, <2>0, <2>1, <2>3, PartsKept, TypePartsNext
  <2>5. FramesAccounted'
    BY <1>0, <2>0, VideoOutFlipAssumption
    DEF FramesAccounted, One, gpuVars, QueueTypes
  <2> QED
    BY <1>1, <2>0, <2>4, <2>5 DEF gpuVars
<1>4. CASE FlipStatus
  <2>0. /\ present = "status" /\ present' = "uncount"
        /\ gc_queue_num' = gc_queue_num - One(shown.eop)
        /\ flip_pending_num' = flip_pending_num - 1
        /\ UNCHANGED <<portVars, labelVars, forgotten, irqVars, queueVars, gpuVars, shown,
                       tested, guestVars>>
    BY <1>4 DEF FlipStatus
  <2>1. PresentTypes' /\ CountTypes'
    <3>1. One(shown.eop) \in {0, 1}
      BY DEF One
    <3>2. CountTypes'
      BY <1>0, <2>0, <3>1 DEF CountTypes
    <3>3. PresentTypes'
      BY <1>0, <2>0 DEF PresentTypes
    <3> QED
      BY <3>2, <3>3
  <2>2. VideoOutTypeOK'
    BY <1>0, <2>0, <2>1, PartsKept, TypePartsNext DEF queueVars
  <2>3. FramesAccounted'
    BY <1>0, <2>0 DEF FramesAccounted, One, gpuVars, queueVars
  <2> QED
    BY <1>1, <2>0, <2>2, <2>3 DEF gpuVars, queueVars
<1>5. CASE ReleaseLabel
  <2>0. /\ present = "clear" /\ present' = "signal" /\ tested' = NoIndex
        /\ UNCHANGED <<portVars, silent, countVars, irqVars, queueVars, gpuVars, shown,
                       guestVars>>
    BY <1>5 DEF ReleaseLabel
  <2>1. LabelTypes'
    BY <1>0, <1>5 DEF ReleaseLabel, LabelTypes
  <2>2. PresentTypes'
    BY <1>0, <2>0 DEF PresentTypes, Indices
  <2>3. VideoOutTypeOK'
    BY <1>0, <2>0, <2>1, <2>2, PartsKept, TypePartsNext DEF queueVars
  <2>4. FramesAccounted'
    BY <1>0, <2>0 DEF FramesAccounted, One, gpuVars, queueVars
  <2> QED
    BY <1>1, <2>0, <2>3, <2>4 DEF gpuVars, queueVars
<1>6. CASE ReleaseSignal
  <2>0. /\ present = "signal" /\ present' = "prev" /\ silent' = {}
        /\ gpu' = IF gpu = "asleep" THEN "woken" ELSE gpu
        /\ UNCHANGED <<portVars, buffer_labels, leaked, countVars, irqVars, queueVars,
                       gpu_back, job, spent, shown, tested, guestVars>>
    BY <1>6 DEF ReleaseSignal, SignalVoLabel
  <2>1. LabelTypes' /\ PresentTypes' /\ GpuTypes'
    BY <1>0, <2>0 DEF LabelTypes, PresentTypes, GpuTypes
  <2>2. VideoOutTypeOK'
    BY <1>0, <2>0, <2>1, PartsKept, TypePartsNext DEF queueVars
  <2>3. FramesAccounted'
    BY <1>0, <2>0 DEF FramesAccounted, One, queueVars
  <2> QED
    BY <1>1, <2>0, <2>2, <2>3 DEF queueVars
<1>7. CASE SavePrevIndex
  <2>0. /\ present = "prev" /\ present' = "vblank" /\ prev_index' = shown.index
        /\ shown' = NoFlip
        /\ UNCHANGED <<is_open, registered, closing, closes, labelVars, countVars, irqVars,
                       queueVars, gpuVars, tested, guestVars>>
    BY <1>7 DEF SavePrevIndex
  <2>1. PortTypes'
    <3>1. prev_index' \in Indices
      BY <1>0, <2>0 DEF PresentTypes, Flips
    <3> QED
      BY <1>0, <2>0, <3>1 DEF PortTypes
  <2>2. PresentTypes'
    BY <1>0, <2>0 DEF PresentTypes, NoFlip, Flip, Flips, Indices
  <2>3. VideoOutTypeOK'
    BY <1>0, <2>0, <2>1, <2>2, PartsKept, TypePartsNext DEF queueVars
  <2>4. FramesAccounted'
    BY <1>0, <2>0 DEF FramesAccounted, One, gpuVars, queueVars
  <2> QED
    BY <1>1, <2>0, <2>3, <2>4 DEF gpuVars, queueVars
<1>8. CASE StatusDone \/ TestPrevIndex
  <2>0. /\ present \in {"uncount", "label"} /\ present' \in {"label", "prev", "clear"}
        /\ tested' \in {tested, prev_index}
        /\ UNCHANGED <<portVars, labelVars, countVars, irqVars, queueVars, gpuVars, shown,
                       guestVars>>
    BY <1>8 DEF StatusDone, TestPrevIndex
  <2>1. PresentTypes'
    BY <1>0, <2>0 DEF PresentTypes, PortTypes
  <2>2. VideoOutTypeOK'
    BY <1>0, <2>0, <2>1, PartsKept, TypePartsNext DEF queueVars
  <2>3. FramesAccounted'
    BY <1>0, <2>0 DEF FramesAccounted, One, gpuVars, queueVars
  <2> QED
    BY <1>1, <2>0, <2>2, <2>3 DEF gpuVars, queueVars
<1> QED
  BY <1>2, <1>3, <1>4, <1>5, <1>6, <1>7, <1>8 DEF PresentNext

LEMMA StutterBase ==
  ASSUME BaseInv, UNCHANGED vars
  PROVE  BaseInv'
<1>1. UNCHANGED <<portVars, labelVars, countVars, irqVars, queueVars, gpuVars,
                  presentVars, guestVars>>
  BY DEF vars
<1>2. VideoOutTypeOK'
  BY <1>1, TypeParts, PartsKept, TypePartsNext DEF BaseInv, queueVars
<1>3. /\ FramesAccounted' <=> FramesAccounted
      /\ PatchedOK' <=> PatchedOK
      /\ GpuAtWork' <=> GpuAtWork
      /\ SendingFinite' <=> SendingFinite
  BY <1>1 DEF FramesAccounted, PatchedOK, Patched, GpuAtWork, Preparing, SendingFinite,
              Sending, irqVars, queueVars, gpuVars, presentVars, guestVars
<1> QED
  BY <1>2, <1>3 DEF BaseInv

LEMMA StepBase ==
  ASSUME BaseInv, [Next]_vars
  PROVE  BaseInv'
  BY GuestBase, GpuBase, PresentBase, StutterBase DEF Next

(* The types, and the frames of the pool: a frame is free, being drawn, on *)
(* its way or on the screen, and never two of them.                        *)
THEOREM TypeCorrect == Spec => []VideoOutTypeOK
<1>1. BaseInv => VideoOutTypeOK
  BY DEF BaseInv
<1> QED
  BY <1>1, InitBase, StepBase, PTL DEF Spec

-----------------------------------------------------------------------------
(* The counters *)

(* How many requests of the GPU are queued, when one is added or taken.    *)
LEMMA EopFinite ==
  ASSUME requests \in Seq(Flips)
  PROVE  IsFiniteSet(EopRequests) /\ Cardinality(EopRequests) \in Nat
<1>1. EopRequests \subseteq 1 .. Len(requests) /\ Len(requests) \in Nat
  BY DEF EopRequests
<1>2. IsFiniteSet(1 .. Len(requests))
  BY <1>1, FS_Interval
<1> QED
  BY <1>1, <1>2, FS_Subset, FS_CardinalityType

LEMMA EopAppended ==
  ASSUME requests \in Seq(Flips), NEW f \in Flips, requests' = Append(requests, f)
  PROVE  Cardinality(EopRequests') = Cardinality(EopRequests) + One(f.eop)
<1>1. /\ DOMAIN requests = 1 .. Len(requests) /\ DOMAIN requests' = 1 .. Len(requests) + 1
      /\ Len(requests) \in Nat /\ requests'[Len(requests) + 1] = f
      /\ \A k \in DOMAIN requests : requests'[k] = requests[k]
  OBVIOUS
<1>2. EopRequests' = IF f.eop THEN EopRequests \cup {Len(requests) + 1} ELSE EopRequests
  BY <1>1 DEF EopRequests
<1>3. Len(requests) + 1 \notin EopRequests
  BY <1>1 DEF EopRequests
<1>4. CASE f.eop
  BY <1>2, <1>3, <1>4, EopFinite, FS_AddElement DEF One
<1>5. CASE ~f.eop
  BY <1>2, <1>5, EopFinite DEF One
<1> QED
  BY <1>4, <1>5

LEMMA EopTaken ==
  ASSUME requests \in Seq(Flips), requests # <<>>, requests' = Tail(requests)
  PROVE  Cardinality(EopRequests') = Cardinality(EopRequests) - One(Head(requests).eop)
<1> DEFINE Rest == EopRequests \ {1}
           f == [k \in EopRequests' |-> k + 1]
<1>1. /\ 1 \in DOMAIN requests /\ Head(requests) = requests[1]
      /\ DOMAIN requests = 1 .. Len(requests) /\ DOMAIN requests' = 1 .. Len(requests) - 1
      /\ Len(requests) \in Nat /\ requests' \in Seq(Flips)
      /\ \A k \in DOMAIN requests' : requests'[k] = requests[k + 1]
  OBVIOUS
<1>2. \A k : k \in EopRequests' <=> k \in DOMAIN requests' /\ requests[k + 1].eop
  BY <1>1 DEF EopRequests
<1>3. \A k : k \in Rest <=> k \in DOMAIN requests /\ k # 1 /\ requests[k].eop
  BY DEF EopRequests
<1>4. f \in Bijection(EopRequests', Rest)
  <2>1. \A k \in EopRequests' : k \in Nat /\ k + 1 \in Rest
    BY <1>1, <1>2, <1>3
  <2>2. \A m \in Rest : m \in Nat /\ m - 1 \in EopRequests' /\ (m - 1) + 1 = m
    BY <1>1, <1>2, <1>3
  <2>3. f \in [EopRequests' -> Rest]
    BY <2>1
  <2>4. \A a, b \in EopRequests' : f[a] = f[b] => a = b
    BY <2>1
  <2>5. \A m \in Rest : \E k \in EopRequests' : f[k] = m
    BY <2>2
  <2> HIDE DEF f, Rest
  <2>6. DOMAIN f = EopRequests'
    BY <2>3
  <2> QED
    BY <2>3, <2>4, <2>5, <2>6 DEF Bijection, Injection, Surjection, IsInjective
<1>5. IsFiniteSet(EopRequests')
  <2>1. EopRequests' \subseteq 1 .. Len(requests) - 1
    BY <1>1, <1>2
  <2>2. IsFiniteSet(1 .. Len(requests) - 1)
    BY <1>1, FS_Interval
  <2> QED
    BY <2>1, <2>2, FS_Subset
<1>6. Cardinality(Rest) = Cardinality(EopRequests')
  BY <1>4, <1>5, FS_Bijection DEF ExistsBijection
<1>7. Cardinality(Rest) = IF 1 \in EopRequests THEN Cardinality(EopRequests) - 1
                                              ELSE Cardinality(EopRequests)
  BY EopFinite, FS_RemoveElement
<1>8. 1 \in EopRequests <=> Head(requests).eop
  BY <1>1 DEF EopRequests
<1> QED
  BY <1>6, <1>7, <1>8, EopFinite DEF One

LEMMA Numbers ==
  ASSUME BaseInv
  PROVE  /\ Cardinality(Sending) \in Nat /\ Cardinality(EopRequests) \in Nat
         /\ commands \in Seq(Flips) /\ Len(commands) \in Nat
         /\ requests \in Seq(Flips) /\ Len(requests) \in Nat
         /\ flip_pending_num \in Int /\ gc_queue_num \in Int
         /\ forgotten.all \in Int /\ forgotten.eop \in Int
  BY EopFinite, FS_CardinalityType DEF BaseInv, SendingFinite, VideoOutTypeOK

LEMMA Counts ==
  ASSUME BaseInv
  PROVE  /\ flip_pending_num \in Int /\ gc_queue_num \in Int
         /\ forgotten.all \in Int /\ forgotten.eop \in Int
         /\ Cardinality(Sending) \in Nat /\ Len(commands) \in Nat /\ Len(requests) \in Nat
  BY Numbers

Accounted == PendingAccounted /\ EopAccounted

(* A step that moves no flip.                                              *)
LEMMA Unmoved ==
  ASSUME Accounted, Sending' = Sending, Preparing' <=> Preparing, Showing' <=> Showing,
         UNCHANGED <<flip_pending_num, gc_queue_num, forgotten, commands, requests, job,
                     shown>>
  PROVE  Accounted'
<1>1. UnderWay' = UnderWay
  BY DEF UnderWay, One
<1>2. EopUnderWay' = EopUnderWay
  BY DEF EopUnderWay, EopRequests, One
<1> QED
  BY <1>1, <1>2 DEF Accounted, PendingAccounted, EopAccounted

(* A step that moves each counter by as much as the flips that it counts.  *)
LEMMA CountersMove ==
  ASSUME BaseInv, Accounted, forgotten' = forgotten,
         UnderWay \in Int, UnderWay' \in Int, EopUnderWay \in Int, EopUnderWay' \in Int,
         flip_pending_num' = flip_pending_num + (UnderWay' - UnderWay),
         gc_queue_num' = gc_queue_num + (EopUnderWay' - EopUnderWay)
  PROVE  Accounted'
<1> DEFINE all == forgotten.all
           eop == forgotten.eop
<1>1. flip_pending_num = UnderWay - all /\ gc_queue_num = EopUnderWay - eop
  BY DEF Accounted, PendingAccounted, EopAccounted
<1>2. all \in Int /\ eop \in Int /\ flip_pending_num \in Int /\ gc_queue_num \in Int
  BY Counts
<1>3. forgotten'.all = all /\ forgotten'.eop = eop
  OBVIOUS
<1> HIDE DEF all, eop
<1>4. flip_pending_num' = UnderWay' - all
  BY <1>1, <1>2
<1>5. gc_queue_num' = EopUnderWay' - eop
  BY <1>1, <1>2
<1> QED
  BY <1>3, <1>4, <1>5 DEF Accounted, PendingAccounted, EopAccounted

LEMMA GuestAccounts ==
  ASSUME BaseInv, Accounted, NEW g \in Guest, GuestNext(g)
  PROVE  Accounted'
<1>0. VideoOutTypeOK /\ SendingFinite
  BY DEF BaseInv
<1>1. ASSUME NEW b \in Buffers, NEW w \in Waits, EopToken(g, b, w) PROVE Accounted'
  <2>1. pc[g] = "idle" /\ Goto(g, "register")
    BY <1>1 DEF EopToken, Asks
  <2> QED
    BY <1>0, <1>1, <2>1, SendingStep, Unmoved
    DEF EopToken, Preparing, Showing, countVars, queueVars, gpuVars, presentVars
<1>2. CASE EopRegister(g)
  BY <1>0, <1>2, SendingStep, Unmoved
  DEF EopRegister, Preparing, Showing, countVars, queueVars, gpuVars, presentVars
<1>3. CASE EopSubmit(g)
  BY <1>0, <1>3, SendingStep, Unmoved
  DEF EopSubmit, Preparing, Showing, countVars, gpuVars, presentVars
<1>4. CASE Resubmit(g)
  BY <1>4, Unmoved
  DEF Resubmit, Sending, Preparing, Showing, countVars, gpuVars, presentVars
<1>5. ASSUME NEW i \in Buffers \cup {NoIndex}, CpuFlip(g, i) PROVE Accounted'
  <2>1. /\ pc[g] = "idle" /\ Goto(g, "count") /\ flip_pending_num' = flip_pending_num + 1
        /\ UNCHANGED <<gc_queue_num, forgotten, commands, requests, gpu, job, present,
                       shown>>
    BY <1>5 DEF CpuFlip, Asks, queueVars, gpuVars, presentVars
  <2>2. Cardinality(Sending') = Cardinality(Sending) + 1
    BY <1>0, <2>1, SendingStep
  <2>3. UnderWay' = UnderWay + 1 /\ UnderWay \in Nat
    <3>1. (Preparing' <=> Preparing) /\ (Showing' <=> Showing)
      BY <2>1 DEF Preparing, Showing
    <3>2. One(Preparing') = One(Preparing) /\ One(Showing') = One(Showing)
      BY <3>1 DEF One
    <3>3. One(Preparing) \in Nat /\ One(Showing) \in Nat
      BY DEF One
    <3> DEFINE c == Cardinality(Sending)
               l == Len(commands)
               p == One(Preparing)
               r == Len(requests)
               s == One(Showing)
    <3>4. UnderWay = c + l + p + r + s
      BY DEF UnderWay
    <3>5. UnderWay' = (c + 1) + l + p + r + s
      BY <2>1, <2>2, <3>2 DEF UnderWay
    <3>6. c \in Nat /\ l \in Nat /\ p \in Nat /\ r \in Nat /\ s \in Nat
      BY <3>3, Counts
    <3> HIDE DEF c, l, p, r, s
    <3> QED
      BY <3>4, <3>5, <3>6
  <2>4. EopUnderWay' = EopUnderWay
    <3>1. One(Preparing /\ job.eop)' = One(Preparing /\ job.eop)
      BY <2>1 DEF One, Preparing
    <3>2. One(Showing /\ shown.eop)' = One(Showing /\ shown.eop)
      BY <2>1 DEF One, Showing
    <3>3. EopRequests' = EopRequests
      BY <2>1 DEF EopRequests
    <3> QED
      BY <3>1, <3>2, <3>3 DEF EopUnderWay
  <2>5. EopUnderWay \in Int
    BY <1>0, UnderWayNat
  <2>6. /\ UnderWay' \in Int /\ UnderWay' - UnderWay = 1
        /\ EopUnderWay' \in Int /\ EopUnderWay' - EopUnderWay = 0
    <3>1. UnderWay' \in Int /\ UnderWay' - UnderWay = 1
      BY <2>3
    <3>2. EopUnderWay' \in Int /\ EopUnderWay' - EopUnderWay = 0
      BY <2>4, <2>5
    <3> QED
      BY <3>1, <3>2
  <2>7. /\ flip_pending_num' = flip_pending_num + (UnderWay' - UnderWay)
        /\ gc_queue_num' = gc_queue_num + (EopUnderWay' - EopUnderWay)
    BY <2>1, <2>6, Counts
  <2>8. forgotten' = forgotten /\ UnderWay \in Int
    BY <2>1, <2>3
  <2> QED
    BY <2>5, <2>6, <2>7, <2>8, CountersMove
<1>6. CASE CpuSend(g)
  <2>1. /\ pc[g] = "send" /\ Goto(g, "idle")
        /\ UNCHANGED <<flip_pending_num, gc_queue_num, forgotten, requests, gpu, job,
                       present, shown>>
    BY <1>6 DEF CpuSend, countVars, gpuVars, presentVars
  <2>2. Cardinality(Sending') = Cardinality(Sending) - 1
    BY <1>0, <2>1, SendingStep
  <2>3. Len(commands') = Len(commands) + 1
    <3> DEFINE f == Flip(call[g].index, call[g].flip_arg, FALSE)
    <3>1. commands' = Append(commands, f)
      BY <1>6 DEF CpuSend
    <3> HIDE DEF f
    <3> QED
      BY <3>1, Numbers
  <2>4. UnderWay' = UnderWay
    BY <2>1, <2>2, <2>3, Numbers DEF UnderWay, One, Preparing, Showing
  <2>5. EopUnderWay' = EopUnderWay
    BY <2>1 DEF EopUnderWay, EopRequests, One, Preparing, Showing
  <2> QED
    BY <2>1, <2>4, <2>5 DEF Accounted, PendingAccounted, EopAccounted
(* What the reset takes off the counters is forgotten.                     *)
<1>7. CASE CloseStatus(g)
  <2>1. /\ pc[g] = "labels" /\ Goto(g, "slots")
        /\ forgotten' = [all |-> UnderWay - flip_pending_num',
                         eop |-> EopUnderWay - gc_queue_num']
        /\ UNCHANGED <<commands, requests, gpu, job, present, shown>>
    BY <1>7 DEF CloseStatus, queueVars, gpuVars, presentVars
  <2>2. Sending' = Sending
    BY <1>0, <2>1, SendingStep
  <2>3. UnderWay' = UnderWay /\ EopUnderWay' = EopUnderWay
    BY <2>1, <2>2 DEF UnderWay, EopUnderWay, EopRequests, One, Preparing, Showing
  <2>4. UnderWay \in Nat /\ EopUnderWay \in Nat
    BY <1>0, UnderWayNat
  <2>5. flip_pending_num' \in Int /\ gc_queue_num' \in Int
    BY <1>7, GuestBase, Numbers DEF GuestNext, GoesOn, BaseInv, VideoOutTypeOK
  <2>6. /\ flip_pending_num' = UnderWay - (UnderWay - flip_pending_num')
        /\ gc_queue_num' = EopUnderWay - (EopUnderWay - gc_queue_num')
    <3>1. UnderWay \in Int /\ EopUnderWay \in Int
      BY <2>4
    <3>2. \A n, m \in Int : m = n - (n - m)
      BY Remainder
    <3> QED
      BY <2>5, <3>1, <3>2, Zenon
  <2>7. /\ forgotten'.all = UnderWay - flip_pending_num'
        /\ forgotten'.eop = EopUnderWay - gc_queue_num'
    BY <2>1
  <2> QED
    BY <2>3, <2>6, <2>7 DEF Accounted, PendingAccounted, EopAccounted
<1>8. CASE Open(g)
  BY <1>8, Unmoved DEF Open, Sending, Preparing, Showing, countVars, queueVars, gpuVars,
                       presentVars, guestVars
<1>9. ASSUME NEW b \in Buffers, RegisterBuffer(g, b) PROVE Accounted'
  BY <1>0, <1>9, SendingStep, Unmoved
  DEF RegisterBuffer, Preparing, Showing, countVars, queueVars, gpuVars, presentVars
<1>10. ASSUME NEW b \in Buffers, UnregisterBuffer(g, b) PROVE Accounted'
  BY <1>10, Unmoved DEF UnregisterBuffer, Sending, Preparing, Showing, countVars,
                        queueVars, gpuVars, presentVars, guestVars
<1>11. CASE RegisterSignal(g)
  <2>1. /\ pc[g] = "signal" /\ Goto(g, "idle") /\ gpu' \in {gpu, "woken"}
        /\ gpu' # gpu => gpu = "asleep"
        /\ UNCHANGED <<countVars, queueVars, job, presentVars>>
    BY <1>11 DEF RegisterSignal, SignalVoLabel
  <2>2. (Preparing' <=> Preparing) /\ (Showing' <=> Showing)
    BY <2>1 DEF Preparing, Showing, presentVars
  <2> QED
    BY <1>0, <2>1, <2>2, SendingStep, Unmoved DEF countVars, queueVars, presentVars
<1>12. ASSUME NEW label \in {"idle", "send", "labels"}, Goto(g, label),
              label = "send" <=> pc[g] \in {"count", "send"},
              UNCHANGED <<countVars, queueVars, gpuVars, presentVars>>
       PROVE  Accounted'
  <2>1. Sending' = Sending
    BY <1>0, <1>12, SendingStep
  <2> QED
    BY <1>12, <2>1, Unmoved
    DEF Preparing, Showing, countVars, queueVars, gpuVars, presentVars
<1>13. CASE CpuCounted(g)
  BY <1>12, <1>13 DEF CpuCounted
<1>14. CASE CloseBegin(g)
  BY <1>12, <1>14 DEF CloseBegin, Closes
<1>15. CASE CloseSlots(g)
  BY <1>12, <1>15 DEF CloseSlots
<1>16. ASSUME NEW b \in Buffers, CloseLabel(g, b) PROVE Accounted'
  BY <1>16, Unmoved DEF CloseLabel, Sending, Preparing, Showing, countVars, queueVars,
                        gpuVars, presentVars, guestVars
<1> QED
  BY <1>1, <1>2, <1>3, <1>4, <1>5, <1>6, <1>7, <1>8, <1>9, <1>10, <1>11, <1>13, <1>14,
     <1>15, <1>16
  DEF GuestNext, GoesOn

LEMMA GpuAccounts ==
  ASSUME BaseInv, Accounted, GpuNext
  PROVE  Accounted'
<1>1. ASSUME gpu \notin {"count", "prepare", "push"},
             gpu' \notin {"count", "prepare", "push"},
             UNCHANGED <<countVars, commands, requests, job, presentVars, guestVars>>
      PROVE  Accounted'
  BY <1>1, Unmoved DEF Sending, Preparing, Showing, countVars, presentVars, guestVars
<1>2. CASE GpuTask
  BY <1>1, <1>2 DEF GpuTask, queueVars
<1>3. CASE WaitPass
  BY <1>1, <1>3 DEF WaitPass, queueVars
<1>4. CASE WaitSleep
  BY <1>1, <1>4 DEF WaitSleep, queueVars
<1>5. CASE WaitPoll
  BY <1>1, <1>5 DEF WaitPoll, queueVars
<1>6. CASE WriteLock
  BY <1>1, <1>6 DEF WriteLock, queueVars
<1>7. CASE IrqStale
  BY <1>1, <1>7 DEF IrqStale
<1>8. CASE IrqRefused
  BY <1>1, <1>8 DEF IrqRefused
<1>9. CASE IrqFlip
  <2>1. /\ gpu = "flip" /\ gpu' = "count" /\ job' = Handler
        /\ flip_pending_num' = flip_pending_num + 1 /\ gc_queue_num' = gc_queue_num + 1
        /\ UNCHANGED <<forgotten, commands, requests, present, shown, pc>>
    BY <1>9 DEF IrqFlip, queueVars, presentVars, guestVars
  <2>2. job'.eop
    BY <1>9, <2>1 DEF IrqFlip, Handler, BaseInv, VideoOutTypeOK
  <2>3. UnderWay' = UnderWay + 1 /\ UnderWay \in Nat
    <3> DEFINE c == Cardinality(Sending)
               l == Len(commands)
               r == Len(requests)
               s == One(Showing)
    <3>1. Sending' = Sending /\ ~Preparing /\ Preparing' /\ (Showing' <=> Showing)
      BY <2>1 DEF Sending, Preparing, Showing
    <3>2. One(Preparing) = 0 /\ One(Preparing') = 1 /\ One(Showing') = s /\ s \in Nat
      BY <3>1 DEF One
    <3>3. UnderWay = c + l + 0 + r + s
      BY <3>2 DEF UnderWay
    <3>4. UnderWay' = c + l + 1 + r + s
      BY <2>1, <3>1, <3>2 DEF UnderWay
    <3>5. c \in Nat /\ l \in Nat /\ r \in Nat
      BY Counts
    <3> HIDE DEF c, l, r, s
    <3> QED
      BY <3>2, <3>3, <3>4, <3>5
  <2>4. EopUnderWay' = EopUnderWay + 1 /\ EopUnderWay \in Nat
    <3> DEFINE r == Cardinality(EopRequests)
               s == One(Showing /\ shown.eop)
    <3>1. ~Preparing /\ Preparing' /\ (Showing' <=> Showing) /\ EopRequests' = EopRequests
      BY <2>1 DEF Preparing, Showing, EopRequests
    <3>2. /\ One(Preparing /\ job.eop) = 0 /\ One(Preparing' /\ job'.eop) = 1
          /\ One(Showing' /\ shown'.eop) = s /\ s \in Nat
      BY <2>1, <2>2, <3>1 DEF One
    <3>3. EopUnderWay = 0 + r + s /\ EopUnderWay' = 1 + r + s
      BY <3>1, <3>2 DEF EopUnderWay
    <3>4. r \in Nat
      BY Numbers
    <3> HIDE DEF r, s
    <3> QED
      BY <3>2, <3>3, <3>4
  <2>5. /\ UnderWay' \in Int /\ UnderWay' - UnderWay = 1
        /\ EopUnderWay' \in Int /\ EopUnderWay' - EopUnderWay = 1
    BY <2>3, <2>4
  <2>6. /\ flip_pending_num' = flip_pending_num + (UnderWay' - UnderWay)
        /\ gc_queue_num' = gc_queue_num + (EopUnderWay' - EopUnderWay)
    BY <2>1, <2>5
  <2> QED
    BY <2>1, <2>3, <2>4, <2>5, <2>6, CountersMove
<1>10. CASE TakeCommand
  <2>1. /\ gpu \notin {"count", "prepare", "push"} /\ gpu' = "prepare"
        /\ commands # <<>> /\ job' = Head(commands) /\ commands' = Tail(commands)
        /\ UNCHANGED <<flip_pending_num, gc_queue_num, forgotten, requests, present,
                       shown, pc>>
    BY <1>10 DEF TakeCommand, countVars, presentVars, guestVars
  <2>2. ~job'.eop /\ Len(commands') = Len(commands) - 1
    BY <2>1, Numbers DEF BaseInv, GpuAtWork
  <2>3. UnderWay' = UnderWay
    BY <2>1, <2>2, Numbers DEF UnderWay, One, Sending, Preparing, Showing
  <2>4. EopUnderWay' = EopUnderWay
    BY <2>1, <2>2, Numbers DEF EopUnderWay, EopRequests, One, Preparing, Showing
  <2> QED
    BY <2>1, <2>3, <2>4 DEF Accounted, PendingAccounted, EopAccounted
<1>11. CASE PrepareFrame
  BY <1>11, Unmoved
  DEF PrepareFrame, Sending, Preparing, Showing, countVars, presentVars, guestVars
<1>12. CASE PushRequest
  <2>1. /\ gpu = "push" /\ gpu' = gpu_back /\ requests' = Append(requests, job)
        /\ UNCHANGED <<flip_pending_num, gc_queue_num, forgotten, commands, present,
                       shown, pc>>
    BY <1>12 DEF PushRequest, countVars, presentVars, guestVars
  <2>2. gpu' \notin {"count", "prepare", "push"} /\ job \in Flips
    BY <2>1 DEF BaseInv, VideoOutTypeOK
  <2>3. Cardinality(EopRequests') = Cardinality(EopRequests) + One(job.eop)
    BY <2>1, <2>2, Numbers, EopAppended
  <2>4. Len(requests') = Len(requests) + 1
    BY <2>1, Numbers
  <2>5. UnderWay' = UnderWay
    <3>1. Sending' = Sending /\ Preparing /\ ~Preparing' /\ (Showing' <=> Showing)
      BY <2>1, <2>2 DEF Sending, Preparing, Showing
    <3>2. /\ One(Preparing) = 1 /\ One(Preparing') = 0 /\ One(Showing') = One(Showing)
          /\ One(Showing) \in Nat
      BY <3>1 DEF One
    <3>3. Len(commands') = Len(commands) /\ Cardinality(Sending') = Cardinality(Sending)
      BY <2>1, <3>1
    <3>4. UnderWay = Cardinality(Sending) + Len(commands) + 1 + Len(requests) + One(Showing)
      BY <3>2 DEF UnderWay
    <3>5. UnderWay' = Cardinality(Sending) + Len(commands) + 0 + (Len(requests) + 1)
                        + One(Showing)
      BY <2>4, <3>2, <3>3 DEF UnderWay
    <3> QED
      BY <3>2, <3>4, <3>5, Counts
  <2>6. EopUnderWay' = EopUnderWay
    BY <2>1, <2>2, <2>3, Numbers DEF EopUnderWay, One, Preparing, Showing
  <2> QED
    BY <2>1, <2>5, <2>6 DEF Accounted, PendingAccounted, EopAccounted
<1>13. CASE IrqCounted
  BY <1>13, Unmoved DEF IrqCounted, Sending, Preparing, Showing, countVars, queueVars,
                        presentVars, guestVars
<1> QED
  BY <1>2, <1>3, <1>4, <1>5, <1>6, <1>7, <1>8, <1>9, <1>10, <1>11, <1>12, <1>13
  DEF GpuNext

LEMMA PresentAccounts ==
  ASSUME BaseInv, Accounted, PresentNext
  PROVE  Accounted'
<1>1. CASE TakeRequest
  <2>1. /\ present = "vblank" /\ requests # <<>> /\ present' = "present"
        /\ shown' = Head(requests) /\ requests' = Tail(requests)
        /\ UNCHANGED <<flip_pending_num, gc_queue_num, forgotten, commands, gpu, job, pc>>
    BY <1>1 DEF TakeRequest, countVars, gpuVars, guestVars
  <2>2. Cardinality(EopRequests') = Cardinality(EopRequests) - One(shown'.eop)
    BY <2>1, Numbers, EopTaken
  <2>3. Len(requests') = Len(requests) - 1
    BY <2>1, Numbers
  <2>4. UnderWay' = UnderWay
    BY <2>1, <2>3, Numbers DEF UnderWay, One, Sending, Preparing, Showing
  <2>5. EopUnderWay' = EopUnderWay
    BY <2>1, <2>2, Numbers DEF EopUnderWay, One, Preparing, Showing
  <2> QED
    BY <2>1, <2>4, <2>5 DEF Accounted, PendingAccounted, EopAccounted
<1>2. CASE PresentFrame
  BY <1>2, Unmoved
  DEF PresentFrame, Sending, Preparing, Showing, countVars, gpuVars, guestVars
<1>3. CASE FlipStatus
  <2>1. /\ present = "status" /\ present' = "uncount"
        /\ gc_queue_num' = gc_queue_num - One(shown.eop)
        /\ flip_pending_num' = flip_pending_num - 1
        /\ UNCHANGED <<forgotten, commands, requests, gpu, job, shown, pc>>
    BY <1>3 DEF FlipStatus, queueVars, gpuVars, guestVars
  <2>2. UnderWay' = UnderWay - 1 /\ UnderWay \in Nat
    <3> DEFINE c == Cardinality(Sending)
               l == Len(commands)
               p == One(Preparing)
               r == Len(requests)
    <3>1. Sending' = Sending /\ (Preparing' <=> Preparing) /\ Showing /\ ~Showing'
      BY <2>1 DEF Sending, Preparing, Showing
    <3>2. One(Showing) = 1 /\ One(Showing') = 0 /\ One(Preparing') = p /\ p \in Nat
      BY <3>1 DEF One
    <3>3. UnderWay = c + l + p + r + 1
      BY <3>2 DEF UnderWay
    <3>4. UnderWay' = c + l + p + r + 0
      BY <2>1, <3>1, <3>2 DEF UnderWay
    <3>5. c \in Nat /\ l \in Nat /\ r \in Nat
      BY Counts
    <3> HIDE DEF c, l, p, r
    <3> QED
      BY <3>2, <3>3, <3>4, <3>5
  <2>3. EopUnderWay' = EopUnderWay - One(shown.eop) /\ EopUnderWay \in Nat
    <3> DEFINE p == One(Preparing /\ job.eop)
               r == Cardinality(EopRequests)
               o == One(shown.eop)
    <3>1. (Preparing' <=> Preparing) /\ Showing /\ ~Showing' /\ EopRequests' = EopRequests
      BY <2>1 DEF Preparing, Showing, EopRequests
    <3>2. /\ One(Showing /\ shown.eop) = o /\ One(Showing' /\ shown'.eop) = 0
          /\ One(Preparing' /\ job'.eop) = p /\ p \in Nat /\ o \in Nat
      BY <2>1, <3>1 DEF One
    <3>3. EopUnderWay = p + r + o /\ EopUnderWay' = p + r + 0
      BY <3>1, <3>2 DEF EopUnderWay
    <3>4. r \in Nat
      BY Numbers
    <3> HIDE DEF p, r, o
    <3>5. EopUnderWay' = EopUnderWay - o /\ EopUnderWay \in Nat
      BY <3>2, <3>3, <3>4
    <3> QED
      BY <3>5 DEF o
  <2>4. One(shown.eop) \in Int
    BY DEF One
  <2>5. /\ UnderWay' \in Int /\ UnderWay' - UnderWay = -1
        /\ EopUnderWay' \in Int /\ EopUnderWay' - EopUnderWay = -One(shown.eop)
    BY <2>2, <2>3, <2>4
  <2>6. /\ flip_pending_num' = flip_pending_num + (UnderWay' - UnderWay)
        /\ gc_queue_num' = gc_queue_num + (EopUnderWay' - EopUnderWay)
    BY <2>1, <2>4, <2>5, Counts
  <2> QED
    BY <2>1, <2>2, <2>3, <2>5, <2>6, CountersMove
<1>4. CASE StatusDone \/ TestPrevIndex \/ ReleaseLabel
  BY <1>4, Unmoved DEF StatusDone, TestPrevIndex, ReleaseLabel, Sending, Preparing, Showing,
                       countVars, queueVars, gpuVars, guestVars
<1>5. CASE ReleaseSignal
  <2>1. /\ present = "signal" /\ present' = "prev" /\ gpu' \in {gpu, "woken"}
        /\ gpu' # gpu => gpu = "asleep"
        /\ UNCHANGED <<countVars, queueVars, job, shown, guestVars>>
    BY <1>5 DEF ReleaseSignal, SignalVoLabel
  <2>2. (Preparing' <=> Preparing) /\ (Showing' <=> Showing) /\ Sending' = Sending
    BY <2>1 DEF Preparing, Showing, Sending, guestVars
  <2> QED
    BY <2>1, <2>2, Unmoved DEF countVars, queueVars
<1>6. CASE SavePrevIndex
  <2>1. /\ present = "prev" /\ present' = "vblank"
        /\ UNCHANGED <<countVars, queueVars, gpuVars, guestVars>>
    BY <1>6 DEF SavePrevIndex
  <2>2. UnderWay' = UnderWay
    BY <2>1 DEF UnderWay, One, Sending, Preparing, Showing, queueVars, gpuVars, guestVars
  <2>3. EopUnderWay' = EopUnderWay
    BY <2>1 DEF EopUnderWay, EopRequests, One, Preparing, Showing, queueVars, gpuVars
  <2> QED
    BY <2>1, <2>2, <2>3 DEF Accounted, PendingAccounted, EopAccounted, countVars
<1> QED
  BY <1>1, <1>2, <1>3, <1>4, <1>5, <1>6 DEF PresentNext

LEMMA StepAccounts ==
  ASSUME BaseInv, Accounted, [Next]_vars
  PROVE  Accounted'
<1>1. CASE UNCHANGED vars
  BY <1>1, Unmoved DEF vars, Sending, Preparing, Showing, countVars, queueVars, gpuVars,
                       presentVars, guestVars
<1> QED
  BY <1>1, GuestAccounts, GpuAccounts, PresentAccounts DEF Next

(* The counters that a guest polls before it draws agree with the flips    *)
(* that are under way, except for what the resets of Close took off them   *)
(* or left on them, region of port_mutex or not, which nothing else adds   *)
(* to; and no frame of the pool is lost or used twice.                     *)
THEOREM CountersCorrect == Spec => []CountersAccounted
<1>1. Init => Accounted
  <2> SUFFICES ASSUME Init PROVE Accounted
    OBVIOUS
  <2>1. Sending = {} /\ EopRequests = {} /\ ~Preparing /\ ~Showing
    BY DEF Init, Sending, EopRequests, Preparing, Showing
  <2> QED
    BY <2>1, FS_EmptySet
    DEF Init, Accounted, PendingAccounted, EopAccounted, UnderWay, EopUnderWay, One
<1>2. BaseInv /\ Accounted => CountersAccounted
  BY DEF BaseInv, Accounted, CountersAccounted
<1> QED
  BY <1>1, <1>2, InitBase, StepBase, StepAccounts, PTL DEF Spec

-----------------------------------------------------------------------------
(* Tokens *)

(* Command buffers patched with one token ask for one flip, and whoever is *)
(* registered under it is that flip.                                       *)
TokensAgree ==
  \A d, e \in Patched :
    d.token = e.token => d.index = e.index /\ d.flip_arg = e.flip_arg
SubscribersAgree ==
  \A d \in Patched :
    d.token \in DOMAIN subscribers =>
      /\ subscribers[d.token].index = d.index
      /\ subscribers[d.token].flip_arg = d.flip_arg

Agree == TokensAgree /\ SubscribersAgree

LEMMA AgreeKept ==
  ASSUME Agree, Patched' \subseteq Patched,
         \A t \in DOMAIN subscribers' :
           t \in DOMAIN subscribers /\ subscribers'[t] = subscribers[t]
  PROVE  Agree'
<1>1. TokensAgree'
  BY DEF Agree, TokensAgree
<1>2. SubscribersAgree'
  BY DEF Agree, SubscribersAgree
<1> QED
  BY <1>1, <1>2 DEF Agree

LEMMA GuestAgrees ==
  ASSUME BaseInv, Agree, NEW g \in Guest, GuestNext(g)
  PROVE  Agree'
<1>0. /\ VideoOutTypeOK /\ PatchedOK /\ IrqTypes /\ SubmitTypes /\ GuestTypes
  BY TypeParts DEF BaseInv
<1>1. ASSUME NEW b \in Buffers, NEW w \in Waits, EopToken(g, b, w) PROVE Agree'
  <2> DEFINE d == Dcb(b, next_flip_token, next_flip_token, w)
  <2>1. /\ call' = [call EXCEPT ![g] = d] /\ Goto(g, "register")
        /\ UNCHANGED <<subscribers, submits, spent>>
    BY <1>1 DEF EopToken, queueVars, gpuVars
  <2>2. d.token = next_flip_token
    BY DEF Dcb
  <2> HIDE DEF d
  <2>3. Patched' \subseteq Patched \cup {d}
    <3>1. \A h \in Guest : InCall(h)' => call'[h] \in Patched \cup {d}
      BY <1>0, <2>1, PatchedHas DEF InCall, Goto, GuestTypes
    <3> QED
      BY <2>1, <3>1, PatchedHas, PatchedWithin
  <2>4. \A e \in Patched : e.token # next_flip_token
    BY <1>0 DEF PatchedOK, IrqTypes
  <2>5. next_flip_token \notin DOMAIN subscribers
    BY <1>0 DEF IrqTypes
  <2>6. TokensAgree'
    BY <2>2, <2>3, <2>4 DEF Agree, TokensAgree
  <2>7. SubscribersAgree'
    BY <2>1, <2>2, <2>3, <2>5 DEF Agree, SubscribersAgree
  <2> QED
    BY <2>6, <2>7 DEF Agree
<1>2. CASE EopRegister(g)
  <2> DEFINE f == Flip(call[g].index, call[g].flip_arg, TRUE)
  <2>1. /\ pc[g] = "register" /\ Goto(g, "submit")
        /\ subscribers' = [t \in DOMAIN subscribers \cup {call[g].token} |->
                             IF t = call[g].token THEN f ELSE subscribers[t]]
        /\ UNCHANGED <<call, submits, spent>>
    BY <1>2 DEF EopRegister, queueVars, gpuVars
  <2>2. f.index = call[g].index /\ f.flip_arg = call[g].flip_arg
    BY DEF Flip
  <2> HIDE DEF f
  <2>3. Patched' \subseteq Patched /\ call[g] \in Patched
    <3>1. \A h \in Guest : InCall(h)' => call'[h] \in Patched
      BY <1>0, <2>1, PatchedHas DEF InCall, Goto, GuestTypes
    <3> QED
      BY <2>1, <3>1, PatchedHas, PatchedWithin DEF InCall
  <2>4. TokensAgree'
    BY <2>3 DEF Agree, TokensAgree
  <2>5. SubscribersAgree'
    BY <2>1, <2>2, <2>3 DEF Agree, TokensAgree, SubscribersAgree
  <2> QED
    BY <2>4, <2>5 DEF Agree
<1>3. CASE EopSubmit(g)
  <2>1. /\ pc[g] = "submit" /\ Goto(g, "idle")
        /\ submits' = Append(submits, call[g]) \/ submits' = submits
        /\ call' = [call EXCEPT ![g] = NoDcb]
        /\ UNCHANGED <<subscribers, spent>>
    BY <1>3 DEF EopSubmit, irqVars, gpuVars
  <2>2. call[g] \in Patched /\ call[g] \in Dcbs
    BY <1>0, <2>1, PatchedHas DEF InCall, GuestTypes
  <2>3. \A h \in Guest : InCall(h)' => call'[h] \in Patched
    BY <1>0, <2>1, PatchedHas DEF InCall, Goto, GuestTypes
  <2>4. \A k \in DOMAIN submits' : submits'[k] \in Patched
    BY <1>0, <2>1, <2>2, PatchedHas DEF SubmitTypes
  <2> QED
    BY <2>1, <2>3, <2>4, PatchedHas, PatchedWithin, AgreeKept
<1>4. CASE Resubmit(g)
  <2>1. /\ spent # NoDcb /\ submits' = Append(submits, spent)
        /\ UNCHANGED <<subscribers, spent, pc, call>>
    BY <1>4 DEF Resubmit, irqVars, gpuVars
  <2>2. spent \in Patched /\ spent \in Dcbs
    BY <1>0, <2>1, PatchedHas DEF VideoOutTypeOK
  <2>3. \A k \in DOMAIN submits' : submits'[k] \in Patched
    BY <1>0, <2>1, <2>2, PatchedHas DEF SubmitTypes
  <2>4. \A h \in Guest : InCall(h)' => call'[h] \in Patched
    BY <2>1, PatchedHas DEF InCall
  <2> QED
    BY <2>1, <2>3, <2>4, PatchedHas, PatchedWithin, AgreeKept
(* No other call has a patched command buffer.                             *)
<1>5. ASSUME UNCHANGED <<subscribers, submits, spent>>,
             \A h \in Guest : InCall(h)' => InCall(h) /\ call'[h] = call[h]
      PROVE  Agree'
  BY <1>5, PatchedHas, PatchedWithin, AgreeKept
<1>6. ASSUME NEW i \in Buffers \cup {NoIndex}, CpuFlip(g, i) PROVE Agree'
  <2>1. /\ Goto(g, "count") /\ \A h \in Guest \ {g} : call'[h] = call[h]
        /\ UNCHANGED <<subscribers, submits, spent>>
    BY <1>0, <1>6 DEF CpuFlip, irqVars, queueVars, gpuVars, GuestTypes
  <2> QED
    BY <1>0, <1>5, <2>1 DEF InCall, Goto, GuestTypes
<1>7. CASE CpuSend(g)
  <2>1. /\ Goto(g, "idle") /\ \A h \in Guest \ {g} : call'[h] = call[h]
        /\ UNCHANGED <<subscribers, submits, spent>>
    BY <1>0, <1>7 DEF CpuSend, irqVars, gpuVars, GuestTypes
  <2> QED
    BY <1>0, <1>5, <2>1 DEF InCall, Goto, GuestTypes
<1>8. CASE CpuCounted(g) \/ CloseBegin(g) \/ CloseStatus(g) \/ CloseSlots(g)
  <2>1. /\ Goto(g, "send") \/ Goto(g, "labels") \/ Goto(g, "slots") \/ Goto(g, "idle")
        /\ UNCHANGED <<subscribers, submits, spent, call>>
    BY <1>8 DEF CpuCounted, CloseBegin, CloseStatus, CloseSlots, irqVars, queueVars, gpuVars
  <2>2. \A h \in Guest : InCall(h)' => InCall(h)
    BY <1>0, <2>1 DEF InCall, Goto, GuestTypes
  <2> QED
    BY <1>5, <2>1, <2>2
<1>9. CASE Open(g)
  BY <1>5, <1>9 DEF Open, InCall, irqVars, queueVars, gpuVars, guestVars
<1>10. ASSUME NEW b \in Buffers, UnregisterBuffer(g, b) PROVE Agree'
  BY <1>5, <1>10 DEF UnregisterBuffer, InCall, irqVars, queueVars, gpuVars, guestVars
<1>11. ASSUME NEW b \in Buffers, RegisterBuffer(g, b) PROVE Agree'
  <2>1. /\ pc[g] = "idle" /\ Goto(g, "signal")
        /\ UNCHANGED <<subscribers, submits, spent, call>>
    BY <1>11 DEF RegisterBuffer, irqVars, queueVars, gpuVars
  <2> QED
    BY <1>0, <1>5, <2>1 DEF InCall, Goto, GuestTypes
<1>12. CASE RegisterSignal(g)
  <2>1. /\ pc[g] = "signal" /\ Goto(g, "idle")
        /\ UNCHANGED <<subscribers, submits, spent, call>>
    BY <1>12 DEF RegisterSignal, irqVars, queueVars
  <2> QED
    BY <1>0, <1>5, <2>1 DEF InCall, Goto, GuestTypes
<1>13. ASSUME NEW b \in Buffers, CloseLabel(g, b) PROVE Agree'
  BY <1>5, <1>13 DEF CloseLabel, InCall, irqVars, queueVars, gpuVars, guestVars
<1> QED
  BY <1>1, <1>2, <1>3, <1>4, <1>6, <1>7, <1>8, <1>9, <1>10, <1>11, <1>12, <1>13
  DEF GuestNext, GoesOn

(* The other threads retire command buffers and drop subscribers.          *)
LEMMA OthersAgree ==
  ASSUME BaseInv, Agree, GpuNext \/ PresentNext \/ UNCHANGED vars
  PROVE  Agree'
<1>1. ASSUME UNCHANGED <<subscribers, submits, spent, pc, call>>
      PROVE  Agree'
  BY <1>1, AgreeKept DEF Patched
<1>2. ASSUME submits # <<>>, Retire, UNCHANGED guestVars,
             subscribers' \in {subscribers, Without(Token)}
      PROVE  Agree'
  BY <1>2, RetireKept, AgreeKept DEF Without
<1>3. CASE IrqStale
  BY <1>2, <1>3 DEF IrqStale, irqVars, BaseInv, GpuAtWork
<1>4. CASE IrqRefused
  BY <1>2, <1>4 DEF IrqRefused, BaseInv, GpuAtWork
<1>5. CASE PushRequest
  <2>1. CASE job.eop
    BY <1>2, <1>5, <2>1 DEF PushRequest, BaseInv, GpuAtWork, Preparing
  <2>2. CASE ~job.eop
    <3>1. UNCHANGED <<subscribers, submits, spent, guestVars>>
      BY <1>5, <2>2 DEF PushRequest
    <3> QED
      BY <1>1, <3>1 DEF guestVars
  <2> QED
    BY <2>1, <2>2
<1>6. CASE GpuTask \/ WaitPass \/ WaitSleep \/ WaitPoll \/ WriteLock \/ IrqFlip
             \/ IrqCounted
  BY <1>1, <1>6 DEF GpuTask, WaitPass, WaitSleep, WaitPoll, WriteLock, IrqFlip, IrqCounted,
                    irqVars, queueVars, guestVars
<1>7. CASE TakeCommand \/ PrepareFrame
  BY <1>1, <1>7 DEF TakeCommand, PrepareFrame, irqVars, guestVars
<1>8. CASE TakeRequest \/ PresentFrame \/ FlipStatus \/ StatusDone \/ TestPrevIndex
             \/ ReleaseLabel \/ SavePrevIndex
  BY <1>1, <1>8 DEF TakeRequest, PresentFrame, FlipStatus, StatusDone, TestPrevIndex,
                    ReleaseLabel, SavePrevIndex, irqVars, queueVars, gpuVars, guestVars
<1>9. CASE ReleaseSignal
  BY <1>1, <1>9 DEF ReleaseSignal, irqVars, queueVars, guestVars
<1>10. CASE UNCHANGED vars
  BY <1>1, <1>10 DEF vars, irqVars, queueVars, gpuVars, guestVars
<1> QED
  BY <1>3, <1>4, <1>5, <1>6, <1>7, <1>8, <1>9, <1>10 DEF GpuNext, PresentNext

LEMMA RoutedKept ==
  ASSUME BaseInv, FlipRouted, Preparing' => Preparing, job' = job,
         submits # <<>> => Head(submits') = Head(submits)
  PROVE  FlipRouted'
  BY DEF FlipRouted, BaseInv, GpuAtWork

LEMMA RoutedStep ==
  ASSUME BaseInv, Agree, FlipRouted, [Next]_vars
  PROVE  FlipRouted'
<1>0. VideoOutTypeOK /\ GpuAtWork /\ SubmitTypes
  BY TypeParts DEF BaseInv
<1>1. ASSUME NEW g \in Guest, GuestNext(g) PROVE FlipRouted'
  <2>1. /\ job' = job /\ (gpu' = gpu \/ gpu' = "woken")
        /\ submits' = submits \/ EopSubmit(g) \/ Resubmit(g)
    BY <1>1 DEF GuestNext, GoesOn, EopToken, EopRegister, EopSubmit, Resubmit, CpuFlip,
                CpuCounted, CpuSend, CloseBegin, CloseLabel, CloseStatus, CloseSlots, Open,
                RegisterBuffer, UnregisterBuffer, RegisterSignal, SignalVoLabel, queueVars,
                gpuVars
  <2>2. Preparing' => Preparing
    BY <2>1 DEF Preparing
  <2>3. ASSUME NEW d \in Dcbs, submits # <<>>, submits' = Append(submits, d)
        PROVE  Head(submits') = Head(submits)
    BY <1>0, <2>3 DEF SubmitTypes
  <2>4. submits # <<>> => Head(submits') = Head(submits)
    <3>1. call[g] \in Dcbs /\ spent \in Dcbs
      BY <1>0 DEF VideoOutTypeOK
    <3>2. EopSubmit(g) => submits' = Append(submits, call[g]) \/ submits' = submits
      BY DEF EopSubmit
    <3>3. Resubmit(g) => submits' = Append(submits, spent)
      BY DEF Resubmit
    <3> QED
      BY <2>1, <2>3, <3>1, <3>2, <3>3
  <2> QED
    BY <2>1, <2>2, <2>4, RoutedKept
<1>2. CASE gpu' \notin {"count", "prepare", "push"}
  BY <1>2 DEF FlipRouted, Preparing
<1>3. CASE GpuTask \/ WaitPass \/ WaitSleep \/ WaitPoll \/ WriteLock \/ IrqStale \/ IrqRefused
  BY <1>2, <1>3 DEF GpuTask, WaitPass, WaitSleep, WaitPoll, WriteLock, IrqStale, IrqRefused
<1>4. CASE IrqFlip
  <2>1. /\ gpu = "flip" /\ Token \in DOMAIN subscribers /\ job' = subscribers[Token]
        /\ submits' = submits
    BY <1>4 DEF IrqFlip, Handler, queueVars
  <2>2. Head(submits) \in Patched
    BY <1>0, <2>1, HeadFacts DEF GpuAtWork
  <2> QED
    BY <2>1, <2>2 DEF Agree, SubscribersAgree, Token, FlipRouted
<1>5. CASE TakeCommand
  <2>1. ~job'.eop
    BY <1>5, Numbers DEF TakeCommand, BaseInv, GpuAtWork
  <2> QED
    BY <2>1 DEF FlipRouted
<1>6. CASE IrqCounted \/ PrepareFrame
  BY <1>6, RoutedKept DEF IrqCounted, PrepareFrame, Preparing, queueVars
<1>7. CASE PushRequest
  <2>1. gpu' \notin {"count", "prepare", "push"}
    BY <1>0, <1>7 DEF PushRequest, VideoOutTypeOK
  <2> QED
    BY <1>2, <2>1
<1>8. CASE PresentNext \/ UNCHANGED vars
  <2>1. UNCHANGED <<job, submits>> /\ (gpu' = gpu \/ gpu' = "woken")
    BY <1>8 DEF PresentNext, TakeRequest, PresentFrame, FlipStatus, StatusDone,
                TestPrevIndex, ReleaseLabel, ReleaseSignal, SavePrevIndex, SignalVoLabel,
                queueVars, gpuVars, vars
  <2> QED
    BY <2>1, RoutedKept DEF Preparing
<1> QED
  BY <1>1, <1>3, <1>4, <1>5, <1>6, <1>7, <1>8 DEF Next, GpuNext

(* The flip an IRQ makes is the one that was asked for with the command    *)
(* buffer, in whatever order the guests take tokens, register and submit.  *)
THEOREM FlipsRouted == Spec => []FlipRouted
<1>1. Init => Agree /\ FlipRouted
  BY DEF Init, Agree, TokensAgree, SubscribersAgree, Patched, FlipRouted, Preparing
<1>2. BaseInv /\ Agree /\ [Next]_vars => Agree'
  BY GuestAgrees, OthersAgree DEF Next
<1> QED
  BY <1>1, <1>2, InitBase, StepBase, RoutedStep, PTL DEF Spec

-----------------------------------------------------------------------------
(* Labels *)

(* A buffer on the screen frees its label until the present thread has     *)
(* passed the release of it; Close frees those it has not come to.         *)
Owned ==
  \A b \in Buffers :
    buffer_labels[b] = 1 =>
      \/ OnItsWay(b)
      \/ prev_index = b /\ present \notin {"signal", "prev"}
      \/ b \in leaked \cup closing

(* Between the test of prev_index and its use nobody but Close changes it. *)
Tested == present = "clear" => prev_index \in {tested, NoIndex}

LEMMA TestedStep ==
  ASSUME Tested, [Next]_vars
  PROVE  Tested'
<1>1. ASSUME NEW g \in Guest, GuestNext(g) PROVE Tested'
  <2>1. UNCHANGED <<present, tested>> /\ prev_index' \in {prev_index, NoIndex}
    BY <1>1 DEF GuestNext, GoesOn, EopToken, EopRegister, EopSubmit, Resubmit, CpuFlip,
                CpuCounted, CpuSend, CloseBegin, CloseLabel, CloseStatus, CloseSlots, Open,
                RegisterBuffer, UnregisterBuffer, RegisterSignal, portVars, presentVars
  <2> QED
    BY <2>1 DEF Tested
<1>2. CASE GpuNext \/ UNCHANGED vars
  <2>1. UNCHANGED <<portVars, presentVars>>
    BY <1>2 DEF GpuNext, GpuTask, WaitPass, WaitSleep, WaitPoll, WriteLock, IrqStale,
                IrqRefused, IrqFlip, IrqCounted, TakeCommand, PrepareFrame, PushRequest, vars
  <2> QED
    BY <2>1 DEF Tested, portVars, presentVars
<1>3. CASE PresentNext
  BY <1>3 DEF PresentNext, TakeRequest, PresentFrame, FlipStatus, StatusDone, TestPrevIndex,
              ReleaseLabel, ReleaseSignal, SavePrevIndex, Tested, portVars
<1> QED
  BY <1>1, <1>2, <1>3 DEF Next

(* The first command buffer stays the first while others are submitted.    *)
LEMMA GuestHead ==
  ASSUME BaseInv, NEW g \in Guest, GuestNext(g), submits # <<>>
  PROVE  submits' # <<>> /\ Head(submits') = Head(submits)
<1>0. VideoOutTypeOK /\ SubmitTypes
  BY TypeParts DEF BaseInv
<1>1. submits' = submits \/ EopSubmit(g) \/ Resubmit(g)
  BY DEF GuestNext, GoesOn, EopToken, EopRegister, EopSubmit, Resubmit, CpuFlip, CpuCounted,
         CpuSend, CloseBegin, CloseLabel, CloseStatus, CloseSlots, Open, RegisterBuffer,
         UnregisterBuffer, RegisterSignal, queueVars
<1>2. ASSUME NEW d \in Dcbs, submits' = Append(submits, d)
      PROVE  submits' # <<>> /\ Head(submits') = Head(submits)
  BY <1>0, <1>2 DEF SubmitTypes
<1>3. call[g] \in Dcbs /\ spent \in Dcbs
  BY <1>0 DEF VideoOutTypeOK
<1>4. EopSubmit(g) => submits' = Append(submits, call[g]) \/ submits' = submits
  BY DEF EopSubmit
<1>5. Resubmit(g) => submits' = Append(submits, spent)
  BY DEF Resubmit
<1> QED
  BY <1>1, <1>2, <1>3, <1>4, <1>5

LEMMA OnItsWayKept ==
  ASSUME BaseInv, gpu' = gpu \/ (gpu = "asleep" /\ gpu' = "woken"),
         UNCHANGED <<gpu_back, job, requests, shown>>,
         submits # <<>> => Head(submits') = Head(submits),
         present # "vblank" => present' # "vblank",
         NEW b, OnItsWay(b)
  PROVE  OnItsWay(b)'
  BY DEF BaseInv, GpuAtWork, OnItsWay, GpuAt, Preparing

LEMMA GuestOwns ==
  ASSUME BaseInv, Owned, NEW g \in Guest, GuestNext(g)
  PROVE  Owned'
<1>0. LabelTypes /\ LabelTypes' /\ BaseInv'
  BY GuestBase, TypeParts DEF BaseInv, VideoOutTypeOK, LabelTypes
<1>1. /\ gpu' = gpu \/ (gpu = "asleep" /\ gpu' = "woken")
      /\ UNCHANGED <<gpu_back, job, requests, shown, present>>
      /\ \/ UNCHANGED <<buffer_labels, prev_index, leaked, closing>>
         \/ CloseBegin(g)
         \/ \E b \in Buffers : CloseLabel(g, b) \/ RegisterBuffer(g, b)
  BY DEF GuestNext, GoesOn, EopToken, EopRegister, EopSubmit, Resubmit, CpuFlip, CpuCounted,
         CpuSend, CloseStatus, CloseSlots, CloseBegin, CloseLabel, Open, RegisterBuffer,
         UnregisterBuffer, RegisterSignal, SignalVoLabel, queueVars, gpuVars, presentVars,
         portVars, labelVars
<1>2. \A b : OnItsWay(b) => OnItsWay(b)'
  BY <1>1, GuestHead, OnItsWayKept
<1>3. CASE UNCHANGED <<buffer_labels, prev_index, leaked, closing>>
  BY <1>1, <1>2, <1>3 DEF Owned
<1>4. CASE CloseBegin(g)
  BY <1>4 DEF CloseBegin, Owned
<1>5. ASSUME NEW b \in Buffers, RegisterBuffer(g, b) PROVE Owned'
  <2>1. /\ buffer_labels' = [buffer_labels EXCEPT ![b] = 0] /\ leaked' = leaked \ {b}
        /\ UNCHANGED <<prev_index, closing>>
    BY <1>5 DEF RegisterBuffer
  <2> QED
    BY <1>0, <1>1, <1>2, <2>1 DEF Owned, LabelTypes
<1>6. ASSUME NEW b \in Buffers, CloseLabel(g, b) PROVE Owned'
  <2>1. /\ buffer_labels' = [buffer_labels EXCEPT ![b] = 0] /\ leaked' = leaked \ {b}
        /\ closing' = closing \ {b} /\ prev_index' = prev_index
    BY <1>6 DEF CloseLabel
  <2> QED
    BY <1>0, <1>1, <1>2, <2>1 DEF Owned, LabelTypes
<1> QED
  BY <1>1, <1>3, <1>4, <1>5, <1>6

LEMMA GpuOwns ==
  ASSUME BaseInv, Agree, Owned, GpuNext
  PROVE  Owned'
<1>0. VideoOutTypeOK /\ GpuAtWork /\ LabelTypes
  BY TypeParts DEF BaseInv
(* Packets that come before the flip.                                      *)
<1>1. ASSUME gpu \notin {"flip", "count", "prepare", "push"},
             UNCHANGED <<buffer_labels, leaked, prev_index, closing, requests, present,
                         shown>>
      PROVE  Owned'
  <2>1. \A b : OnItsWay(b) => OnItsWay(b)'
    BY <1>1 DEF OnItsWay, GpuAt, Preparing
  <2> QED
    BY <1>1, <2>1 DEF Owned
<1>2. CASE GpuTask \/ WaitPass \/ WaitSleep \/ WaitPoll
  BY <1>1, <1>2 DEF GpuTask, WaitPass, WaitSleep, WaitPoll, labelVars, portVars, queueVars,
                    presentVars
<1>3. CASE WriteLock
  <2>1. /\ gpu = "write" /\ gpu' = "flip" /\ submits # <<>>
        /\ buffer_labels' = [buffer_labels EXCEPT ![Head(submits).index] = 1]
        /\ UNCHANGED <<leaked, prev_index, closing, submits, requests, present, shown>>
    BY <1>0, <1>3 DEF WriteLock, portVars, queueVars, presentVars, GpuAtWork
  <2>2. OnItsWay(Head(submits).index)'
    BY <2>1 DEF OnItsWay, GpuAt
  <2>3. \A b : OnItsWay(b) => OnItsWay(b)'
    BY <2>1 DEF OnItsWay, GpuAt, Preparing
  <2>4. \A b \in Buffers : buffer_labels'[b] = 1 =>
          b = Head(submits).index \/ buffer_labels[b] = 1
    BY <1>0, <2>1 DEF LabelTypes
  <2> QED
    BY <2>1, <2>2, <2>3, <2>4 DEF Owned
<1>4. CASE IrqStale \/ IrqRefused
  <2>1. /\ gpu = "flip" /\ leaked' = leaked \cup {Head(submits).index}
        /\ UNCHANGED <<buffer_labels, prev_index, closing, requests, present, shown>>
    BY <1>4 DEF IrqStale, IrqRefused, portVars, presentVars
  <2>2. \A b : OnItsWay(b) => OnItsWay(b)' \/ b \in leaked'
    BY <2>1 DEF OnItsWay, GpuAt, Preparing
  <2> QED
    BY <2>1, <2>2 DEF Owned
<1>5. CASE IrqFlip
  <2>1. /\ gpu = "flip" /\ gpu' = "count" /\ job' = subscribers[Token]
        /\ Token \in DOMAIN subscribers
        /\ UNCHANGED <<buffer_labels, leaked, prev_index, closing, requests, present, shown>>
    BY <1>5 DEF IrqFlip, Handler, labelVars, portVars, queueVars, presentVars
  <2>2. job'.index = Head(submits).index
    <3>1. Head(submits) \in Patched
      BY <1>0, <2>1, HeadFacts DEF GpuAtWork
    <3> QED
      BY <2>1, <3>1 DEF Agree, SubscribersAgree, Token
  <2>3. \A b : OnItsWay(b) => OnItsWay(b)'
    BY <2>1, <2>2 DEF OnItsWay, GpuAt, Preparing
  <2> QED
    BY <2>1, <2>3 DEF Owned
<1>6. CASE TakeCommand
  <2>1. /\ gpu \notin {"count", "prepare", "push"} /\ gpu' = "prepare" /\ gpu_back' = gpu
        /\ commands # <<>> /\ job' = Head(commands)
        /\ UNCHANGED <<buffer_labels, leaked, prev_index, closing, submits, requests, present,
                       shown>>
    BY <1>6 DEF TakeCommand, labelVars, portVars, presentVars
  <2>2. ~job'.eop
    BY <1>0, <2>1, Numbers DEF GpuAtWork
  <2>3. \A b : OnItsWay(b) => OnItsWay(b)'
    BY <2>1, <2>2 DEF OnItsWay, GpuAt, Preparing
  <2> QED
    BY <2>1, <2>3 DEF Owned
<1>7. CASE IrqCounted \/ PrepareFrame
  <2>1. /\ gpu \in {"count", "prepare"} /\ gpu' \in {"prepare", "push"}
        /\ UNCHANGED <<buffer_labels, leaked, prev_index, closing, submits, requests, present,
                       shown, job, gpu_back>>
    BY <1>7 DEF IrqCounted, PrepareFrame, labelVars, portVars, queueVars, presentVars
  <2>2. \A b : OnItsWay(b) => OnItsWay(b)'
    BY <2>1 DEF OnItsWay, GpuAt, Preparing
  <2> QED
    BY <2>1, <2>2 DEF Owned
<1>8. CASE PushRequest
  <2>1. /\ gpu = "push" /\ gpu' = gpu_back /\ requests' = Append(requests, job)
        /\ UNCHANGED <<buffer_labels, leaked, prev_index, closing, present, shown>>
        /\ ~job.eop => UNCHANGED submits
    BY <1>8 DEF PushRequest, labelVars, portVars, presentVars
  <2>2. /\ \A k \in DOMAIN requests : k \in DOMAIN requests' /\ requests'[k] = requests[k]
        /\ \E k \in DOMAIN requests' : requests'[k] = job
    <3>1. /\ \A k \in DOMAIN requests : k \in DOMAIN requests' /\ requests'[k] = requests[k]
          /\ Len(requests) + 1 \in DOMAIN requests' /\ requests'[Len(requests) + 1] = job
      BY <2>1, Numbers
    <3> QED
      BY <3>1
  <2>3. ASSUME NEW b, OnItsWay(b) PROVE OnItsWay(b)'
    <3>1. CASE Preparing /\ ~job.eop /\ gpu_back = "flip" /\ Head(submits).index = b
      BY <2>1, <3>1 DEF OnItsWay, GpuAt
    <3>2. CASE Preparing /\ job.index = b
      BY <2>2, <3>2 DEF OnItsWay
    <3>3. CASE \E k \in DOMAIN requests : requests[k].index = b
      BY <2>2, <3>3 DEF OnItsWay
    <3>4. CASE present # "vblank" /\ shown.index = b
      BY <2>1, <3>4 DEF OnItsWay
    <3> QED
      BY <2>1, <2>3, <3>1, <3>2, <3>3, <3>4 DEF OnItsWay, GpuAt
  <2> QED
    BY <2>1, <2>3 DEF Owned
<1> QED
  BY <1>2, <1>3, <1>4, <1>5, <1>6, <1>7, <1>8 DEF GpuNext

LEMMA PresentOwns ==
  ASSUME BaseInv, Tested, Owned, PresentNext
  PROVE  Owned'
<1>0. VideoOutTypeOK /\ LabelTypes
  BY TypeParts DEF BaseInv
<1>1. CASE TakeRequest
  <2>1. /\ present = "vblank" /\ present' = "present" /\ requests # <<>>
        /\ shown' = Head(requests) /\ requests' = Tail(requests)
        /\ UNCHANGED <<buffer_labels, leaked, prev_index, closing, gpu, gpu_back, job,
                       submits>>
    BY <1>1 DEF TakeRequest, labelVars, portVars, gpuVars
  <2>2. \A k \in DOMAIN requests :
          requests[k] = shown' \/ \E m \in DOMAIN requests' : requests'[m] = requests[k]
    <3>1. /\ Head(requests) = requests[1]
          /\ \A k \in DOMAIN requests : k # 1 =>
               k - 1 \in DOMAIN requests' /\ requests'[k - 1] = requests[k]
      BY <2>1, Numbers
    <3> QED
      BY <2>1, <3>1
  <2>3. ASSUME NEW b, OnItsWay(b) PROVE OnItsWay(b)'
    <3>1. CASE \E k \in DOMAIN requests : requests[k].index = b
      <4>1. PICK k \in DOMAIN requests : requests[k].index = b
        BY <3>1
      <4> QED
        BY <2>1, <2>2, <4>1 DEF OnItsWay
    <3>2. CASE GpuAt("flip") /\ Head(submits).index = b
      BY <2>1, <3>2 DEF OnItsWay, GpuAt, Preparing
    <3>3. CASE Preparing /\ job.index = b
      BY <2>1, <3>3 DEF OnItsWay, Preparing
    <3> QED
      BY <2>1, <2>3, <3>1, <3>2, <3>3 DEF OnItsWay
  <2> QED
    BY <2>1, <2>3 DEF Owned
<1>2. ASSUME present # "vblank", present' # "vblank",
             gpu' = gpu \/ (gpu = "asleep" /\ gpu' = "woken"),
             UNCHANGED <<gpu_back, job, submits, requests, shown>>
      PROVE  \A b : OnItsWay(b) => OnItsWay(b)'
  BY <1>2, OnItsWayKept
<1>3. CASE PresentFrame \/ FlipStatus \/ StatusDone
  <2>1. /\ present \in {"present", "status", "uncount"}
        /\ present' \in {"status", "uncount", "label"}
        /\ UNCHANGED <<buffer_labels, leaked, prev_index, closing, gpu, gpu_back, job,
                       submits, requests, shown>>
    BY <1>3 DEF PresentFrame, FlipStatus, StatusDone, labelVars, portVars, gpuVars, queueVars
  <2> QED
    BY <1>2, <2>1 DEF Owned
<1>7. CASE TestPrevIndex
  <2>1. /\ present = "label" /\ present' \in {"clear", "prev"}
        /\ present' = "prev" => prev_index = NoIndex
        /\ UNCHANGED <<buffer_labels, leaked, prev_index, closing, gpu, gpu_back, job,
                       submits, requests, shown>>
    BY <1>7 DEF TestPrevIndex, labelVars, portVars, gpuVars, queueVars
  <2> QED
    BY <1>2, <2>1, VideoOutFlipAssumption DEF Owned
<1>4. CASE ReleaseLabel
  <2>1. /\ present = "clear" /\ present' = "signal"
        /\ UNCHANGED <<prev_index, closing, gpu, gpu_back, job, submits, requests, shown>>
    BY <1>4 DEF ReleaseLabel, portVars, gpuVars, queueVars
  <2>2. PICK i \in {tested, prev_index} :
          IF i = NoIndex
          THEN UNCHANGED <<buffer_labels, leaked>>
          ELSE /\ buffer_labels' = [buffer_labels EXCEPT ![i] = 0]
               /\ leaked' = leaked \ {i}
    BY <1>4 DEF ReleaseLabel
  <2>3. prev_index \in Buffers => i = prev_index
    BY <2>1, <2>2, VideoOutFlipAssumption DEF Tested
  <2>4. \A b \in Buffers : buffer_labels'[b] = 1 =>
          /\ buffer_labels[b] = 1 /\ b # prev_index
          /\ b \in leaked => b \in leaked'
    BY <1>0, <2>2, <2>3, VideoOutFlipAssumption DEF LabelTypes
  <2> QED
    BY <1>2, <2>1, <2>4 DEF Owned
<1>5. CASE ReleaseSignal
  <2>1. /\ present = "signal" /\ present' = "prev"
        /\ gpu' = gpu \/ (gpu = "asleep" /\ gpu' = "woken")
        /\ UNCHANGED <<buffer_labels, leaked, closing, gpu_back, job, submits, requests,
                       shown>>
    BY <1>5 DEF ReleaseSignal, SignalVoLabel, queueVars, portVars
  <2> QED
    BY <1>2, <2>1 DEF Owned
<1>6. CASE SavePrevIndex
  <2>1. /\ present = "prev" /\ present' = "vblank" /\ prev_index' = shown.index
        /\ UNCHANGED <<buffer_labels, leaked, closing, gpu, gpu_back, job, submits, requests>>
    BY <1>6 DEF SavePrevIndex, labelVars, gpuVars, queueVars
  <2>2. \A b : OnItsWay(b) => OnItsWay(b)' \/ prev_index' = b
    BY <2>1 DEF OnItsWay, GpuAt, Preparing
  <2> QED
    BY <2>1, <2>2 DEF Owned
<1> QED
  BY <1>1, <1>3, <1>4, <1>5, <1>6, <1>7 DEF PresentNext

LEMMA OwnedStep ==
  ASSUME BaseInv, Agree, Tested, Owned, [Next]_vars
  PROVE  Owned'
<1>1. CASE UNCHANGED vars
  BY <1>1 DEF vars, Owned, OnItsWay, GpuAt, Preparing, labelVars, portVars, gpuVars,
              queueVars, presentVars
<1> QED
  BY <1>1, GuestOwns, GpuOwns, PresentOwns DEF Next

(* A locked label is not forgotten: the flip that locked it is on its way, *)
(* the buffer is on the screen, the flip was dropped, or a Close under way *)
(* is about to clear it.                                                   *)
THEOREM LabelsOwned == Spec => []LabelOwned
<1>1. Init => Agree /\ Tested /\ Owned
  BY DEF Init, Agree, TokensAgree, SubscribersAgree, Patched, Tested, Owned
<1>2. BaseInv /\ Agree /\ [Next]_vars => Agree'
  BY GuestAgrees, OthersAgree DEF Next
<1>3. Owned => LabelOwned
  BY DEF Owned, LabelOwned
<1> QED
  BY <1>1, <1>2, <1>3, InitBase, StepBase, TestedStep, OwnedStep, PTL DEF Spec

(* A step that neither puts the GPU thread to sleep nor clears a label nor *)
(* ends a signal.                                                          *)
LEMMA StillSignalled ==
  ASSUME BaseInv, SleeperSignalled, gpu' = gpu, submits' # <<>> => submits # <<>>,
         submits # <<>> => Head(submits') = Head(submits),
         UNCHANGED <<buffer_labels, silent>>,
         present = "signal" => present' = "signal",
         \A g \in Guest : pc[g] = "signal" => pc'[g] = "signal"
  PROVE  SleeperSignalled'
  BY DEF SleeperSignalled, Label, BaseInv, GpuAtWork

LEMMA SleeperStep ==
  ASSUME BaseInv, SleeperSignalled, [Next]_vars
  PROVE  SleeperSignalled'
<1>0. VideoOutTypeOK /\ GpuAtWork /\ LabelTypes /\ GuestTypes
  BY TypeParts DEF BaseInv
<1>1. CASE gpu' # "asleep"
  BY <1>1 DEF SleeperSignalled
<1>2. ASSUME NEW g \in Guest, GuestNext(g), gpu' = "asleep" PROVE SleeperSignalled'
  <2>1. gpu = "asleep" /\ submits # <<>> /\ Head(submits') = Head(submits)
    <3>1. gpu' = gpu \/ gpu' = "woken"
      BY <1>2 DEF GuestNext, GoesOn, EopToken, EopRegister, EopSubmit, Resubmit, CpuFlip,
                  CpuCounted, CpuSend, CloseBegin, CloseLabel, CloseStatus, CloseSlots,
                  Open, RegisterBuffer, UnregisterBuffer, RegisterSignal, SignalVoLabel,
                  gpuVars
    <3>2. gpu = "asleep" /\ submits # <<>>
      BY <1>0, <1>2, <3>1 DEF GpuAtWork
    <3> QED
      BY <1>2, <3>2, GuestHead
  <2>2. Head(submits).index \in Buffers
    BY <2>1, HeadFacts
  <2>3. ASSUME NEW b \in Buffers, CloseLabel(g, b) PROVE SleeperSignalled'
    <3>1. /\ silent' = IF buffer_labels[b] = 1 THEN silent \cup {b} ELSE silent
          /\ buffer_labels' = [buffer_labels EXCEPT ![b] = 0]
          /\ UNCHANGED <<present, pc>>
      BY <2>3 DEF CloseLabel, presentVars, guestVars
    <3>2. buffer_labels[b] \in {0, 1}
      BY <1>0 DEF LabelTypes
    <3>3. Label' = 0 => Label = 0 \/ Head(submits).index \in silent'
      BY <1>0, <2>1, <2>2, <3>1, <3>2 DEF Label, LabelTypes
    <3>4. silent \subseteq silent'
      BY <3>1
    <3> QED
      BY <2>1, <3>1, <3>3, <3>4 DEF SleeperSignalled
  <2>4. ASSUME NEW b \in Buffers, RegisterBuffer(g, b) PROVE SleeperSignalled'
    <3>1. pc'[g] = "signal"
      BY <1>0, <2>4 DEF RegisterBuffer, Goto, GuestTypes
    <3> QED
      BY <3>1 DEF SleeperSignalled
  <2>5. CASE RegisterSignal(g)
    BY <1>1, <2>1, <2>5 DEF RegisterSignal, SignalVoLabel
  <2>6. ASSUME UNCHANGED <<buffer_labels, silent, gpu, present>>, pc[g] # "signal",
               \A h \in Guest \ {g} : pc'[h] = pc[h]
        PROVE  SleeperSignalled'
    BY <2>1, <2>6, StillSignalled
  <2>7. CASE \/ \E b \in Buffers, w \in Waits : EopToken(g, b, w)
             \/ EopRegister(g) \/ EopSubmit(g) \/ CpuCounted(g) \/ CpuSend(g)
             \/ \E i \in Buffers \cup {NoIndex} : CpuFlip(g, i)
             \/ CloseBegin(g) \/ CloseStatus(g) \/ CloseSlots(g)
    BY <1>0, <2>6, <2>7 DEF EopToken, EopRegister, EopSubmit, CpuCounted, CpuSend, CpuFlip,
                            CloseBegin, Closes, CloseStatus, CloseSlots, Asks, Goto,
                            GuestTypes, labelVars, gpuVars, presentVars
  <2>8. CASE Resubmit(g) \/ Open(g) \/ \E b \in Buffers : UnregisterBuffer(g, b)
    BY <2>6, <2>8 DEF Resubmit, Asks, Open, UnregisterBuffer, Closes, labelVars, gpuVars,
                      presentVars, guestVars
  <2> QED
    BY <1>2, <2>3, <2>4, <2>5, <2>7, <2>8 DEF GuestNext, GoesOn
<1>3. CASE WaitSleep
  <2>1. Label' = 1
    BY <1>3 DEF WaitSleep, Label, labelVars, queueVars
  <2> QED
    BY <2>1 DEF SleeperSignalled
<1>4. CASE GpuTask \/ WaitPass \/ WaitPoll \/ WriteLock \/ IrqStale \/ IrqRefused
             \/ IrqFlip \/ IrqCounted \/ TakeCommand \/ PrepareFrame
  BY <1>1, <1>4 DEF GpuTask, WaitPass, WaitPoll, WriteLock, IrqStale, IrqRefused, IrqFlip,
                    IrqCounted, TakeCommand, PrepareFrame
<1>5. CASE PushRequest
  BY <1>0, <1>1, <1>5 DEF PushRequest, VideoOutTypeOK
<1>6. CASE TakeRequest \/ PresentFrame \/ FlipStatus \/ StatusDone \/ TestPrevIndex
             \/ SavePrevIndex
  BY <1>6, StillSignalled DEF TakeRequest, PresentFrame, FlipStatus, StatusDone,
                              TestPrevIndex, SavePrevIndex, labelVars, gpuVars, queueVars,
                              guestVars
<1>7. CASE ReleaseLabel
  BY <1>7 DEF ReleaseLabel, SleeperSignalled
<1>8. CASE ReleaseSignal
  BY <1>1, <1>8 DEF ReleaseSignal, SignalVoLabel
<1>9. CASE UNCHANGED vars
  BY <1>9, StillSignalled DEF vars, labelVars, gpuVars, queueVars, presentVars, guestVars
<1> QED
  BY <1>1, <1>2, <1>3, <1>4, <1>5, <1>6, <1>7, <1>8, <1>9 DEF Next, GpuNext, PresentNext

(* A GPU thread asleep on a clear label is about to be signalled, save     *)
(* when Close cleared the label.                                           *)
THEOREM SleepersSignalled == Spec => []SleeperSignalled
<1>1. Init => SleeperSignalled
  BY DEF Init, SleeperSignalled
<1> QED
  BY <1>1, InitBase, StepBase, SleeperStep, PTL DEF Spec
=============================================================================
