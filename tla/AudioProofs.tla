----------------------------- MODULE AudioProofs -----------------------------
(* Proofs about AudioRate, for every set of core and native rates, every   *)
(* step and interval of the feedback and every size of converted[], and    *)
(* about AudioQueue and AudioFifo, for every size of its rings, blocks and *)
(* chunks.                                                                 *)
EXTENDS AudioRate, AudioQueue, TLAPS

IInv == RateTypeOK /\ InStep

(* Integer division rounds down.                                           *)
LEMMA DivFloor ==
  ASSUME NEW a \in Nat, NEW b \in Nat \ {0}
  PROVE  (a \div b) \in Nat /\ (a \div b) * b <= a
OBVIOUS

LEMMA DivLeast ==
  ASSUME NEW a \in Nat, NEW b \in Nat \ {0}, NEW n \in Nat, a <= n * b
  PROVE  (a \div b) \in Nat /\ (a \div b) <= n
<1>. DEFINE q == a \div b
<1>1. q \in Nat /\ q * b <= a
  BY DivFloor
<1>. HIDE DEF q
<1>2. SUFFICES ASSUME q > n PROVE FALSE
  BY <1>1 DEF q
<1>3. q * b >= (n + 1) * b
  BY <1>1, <1>2
<1>4. (n + 1) * b = n * b + b
  OBVIOUS
<1>. QED BY <1>1, <1>3, <1>4

LEMMA MulMono ==
  ASSUME NEW a \in Nat, NEW b \in Nat, NEW n \in Nat, a <= b
  PROVE  a * n <= b * n /\ n * a <= n * b
OBVIOUS

(* A step of the feedback never takes the whole rate away.                 *)
LEMMA StepBelow ==
  ASSUME NEW rate \in Nat \ {0}
  PROVE  Step(rate) \in Nat /\ Step(rate) < rate
<1>. DEFINE q == rate \div StepDivisor
<1>1. StepDivisor \in Nat /\ StepDivisor >= 2
  BY RateAssumption
<1>2. q \in Nat /\ q * StepDivisor <= rate
  BY <1>1, DivFloor
<1>. HIDE DEF q
<1>3. q * 2 <= q * StepDivisor
  BY <1>1, <1>2, MulMono
<1>4. q < rate
  BY <1>1, <1>2, <1>3
<1>. QED BY <1>2, <1>4 DEF Step, q
-----------------------------------------------------------------------------
LEMMA InitInv == RateInit => IInv
<1>. SUFFICES ASSUME RateInit PROVE IInv
  OBVIOUS
<1>1. audio_rate \in Nat \ {0} /\ OutputRate \in Nat \ {0} /\ Interval \in Nat \ {0}
  BY RateAssumption DEF RateInit
<1>2. sink \in {audio_rate, OutputRate}
  BY DEF RateInit, audio_native_rate
<1>3. RateTypeOK
  BY <1>1, <1>2 DEF RateInit, RateTypeOK
<1>. QED BY <1>3 DEF IInv, RateInit, InStep

(* What a reading asks for is a rate, and not above the core's own.        *)
LEMMA CorrectedRange ==
  ASSUME RateTypeOK, NEW delay \in Nat
  PROVE  Corrected(delay) \in Nat \ {0} /\ Corrected(delay) <= audio_rate
<1>1. audio_rate \in Nat \ {0} /\ audio_resample_rate \in Nat \ {0}
  BY RateAssumption DEF RateTypeOK
<1>2. Step(audio_resample_rate) \in Nat /\ Step(audio_resample_rate) < audio_resample_rate
  BY <1>1, StepBelow
<1>3. \A rate \in Nat \ {0} : Capped(rate) \in Nat \ {0} /\ Capped(rate) <= audio_rate
  BY <1>1 DEF Capped
<1>. DEFINE r == audio_resample_rate  step == Step(r)
<1>4. {r + step, r - step, r} \subseteq Nat \ {0}
  BY <1>1, <1>2
<1>5. DelayLow \in Nat /\ DelayHigh \in Nat
  BY RateAssumption
<1>6. Corrected(delay) \in {Capped(r + step), Capped(r - step), Capped(r)}
  BY <1>5 DEF Corrected
<1>. QED BY <1>3, <1>4, <1>6

(* The resampler and the host agree on a rate that was asked for, or keep  *)
(* the one they had.                                                       *)
LEMMA SetRateInv ==
  ASSUME IInv, NEW rate \in Nat \ {0}, SetRate(rate)
  PROVE  audio_resample_rate' \in Nat \ {0} /\ resampler_rate' \in Nat \ {0} /\ InStep'
BY DEF IInv, RateTypeOK, SetRate, InStep

LEMMA FeedbackInv == ASSUME IInv, Feedback PROVE IInv'
<1>1. audio_delay' \in Nat /\ Interval \in Nat \ {0}
  BY RateAssumption DEF Feedback
<1>. DEFINE rate == Corrected(audio_delay')
<1>2. rate \in Nat \ {0}
  BY <1>1, CorrectedRange DEF IInv
<1>3. SetRate(rate)
  BY DEF Feedback
<1>. HIDE DEF rate
<1>4. audio_resample_rate' \in Nat \ {0} /\ resampler_rate' \in Nat \ {0} /\ InStep'
  BY <1>2, <1>3, SetRateInv
<1>5. RateTypeOK'
  BY <1>1, <1>4 DEF Feedback, IInv, RateTypeOK
<1>. QED BY <1>4, <1>5 DEF IInv

LEMMA UnderrunInv == ASSUME IInv, RateUnderrun PROVE IInv'
<1>. DEFINE rate == audio_resample_rate + Step(audio_resample_rate)
<1>1. rate \in Nat \ {0}
  BY StepBelow DEF IInv, RateTypeOK
<1>2. SetRate(rate)
  BY DEF RateUnderrun
<1>. HIDE DEF rate
<1>3. audio_resample_rate' \in Nat \ {0} /\ resampler_rate' \in Nat \ {0} /\ InStep'
  BY <1>1, <1>2, SetRateInv
<1>4. RateTypeOK'
  BY <1>3, RateAssumption DEF RateUnderrun, IInv, RateTypeOK
<1>. QED BY <1>3, <1>4 DEF IInv

LEMMA StepInv == IInv /\ [RateNext]_rateVars => IInv'
<1>. SUFFICES ASSUME IInv, [RateNext]_rateVars PROVE IInv'
  OBVIOUS
<1>. USE DEF IInv, InStep
<1>1. Interval \in Nat \ {0}
  BY RateAssumption
<1>2. CASE CountBatch
  BY <1>1, <1>2 DEF CountBatch, RateTypeOK
<1>3. CASE Feedback
  BY <1>3, FeedbackInv
<1>4. CASE DelayUnknown
  BY <1>1, <1>4 DEF DelayUnknown, RateTypeOK
<1>5. CASE RateUnderrun
  BY <1>5, UnderrunInv
<1>6. CASE Restart
  BY <1>1, <1>6 DEF Restart, RateTypeOK
<1>7. CASE UNCHANGED rateVars
  BY <1>7 DEF rateVars, RateTypeOK
<1>. QED BY <1>2, <1>3, <1>4, <1>5, <1>6, <1>7 DEF RateNext

(* The inductive invariant holds in every reachable state.                 *)
THEOREM Inductive == RateSpec => []IInv
<1>. QED BY InitInv, StepInv, PTL DEF RateSpec
-----------------------------------------------------------------------------
(* The rate is a positive number for ever, so nothing divides by zero.     *)
THEOREM TypeCorrect == RateSpec => []RateTypeOK
<1>1. IInv => RateTypeOK
  BY DEF IInv
<1>. QED BY <1>1, Inductive, PTL

(* The host sizes its chunks by the rate the resampler works at.           *)
THEOREM StaysInStep == RateSpec => []InStep
<1>1. IInv => InStep
  BY DEF IInv
<1>. QED BY <1>1, Inductive, PTL

(* A chunk of audio_batch() never produces more than converted[] holds.    *)
LEMMA ChunkFits == IInv => OutputFits
<1>. SUFFICES ASSUME IInv, audio_resample_rate <= (ConvertCapacity - 1) * audio_rate
              PROVE  ((InputFrames * audio_resample_rate) \div audio_rate) + 1
                       <= ConvertCapacity
  BY DEF OutputFits
<1>. DEFINE core == audio_rate  rate == audio_resample_rate  C == ConvertCapacity - 1
            most == IF MaximumInput = 0 THEN 1 ELSE MaximumInput
<1>1. /\ core \in Nat \ {0} /\ rate \in Nat \ {0} /\ C \in Nat /\ C >= 1
      /\ Convert \in Nat \ {0} /\ Convert <= C /\ rate <= C * core
  BY RateAssumption, CapacityAssumption DEF IInv, RateTypeOK
<1>2. MaximumInput \in Nat /\ MaximumInput * rate <= C * core
  <2>1. C * core \in Nat
    BY <1>1
  <2>. QED BY <1>1, <2>1, DivFloor DEF MaximumInput
<1>3. most \in Nat \ {0} /\ most * rate <= C * core
  BY <1>1, <1>2
<1>4. InputFrames \in Nat /\ InputFrames * rate <= C * core
  <2>1. CASE core < rate /\ most < Convert
    BY <1>3, <2>1 DEF InputFrames
  <2>2. CASE core >= rate
    <3>1. InputFrames = Convert
      BY <1>1, <2>2 DEF InputFrames
    <3>2. Convert * rate <= Convert * core /\ Convert * core <= C * core
      BY <1>1, <2>2, MulMono
    <3>. QED BY <1>1, <3>1, <3>2
  <2>3. CASE most >= Convert
    <3>1. InputFrames = Convert
      BY <1>1, <1>3, <2>3 DEF InputFrames
    <3>2. Convert * rate <= most * rate
      BY <1>1, <1>3, <2>3, MulMono
    <3>. QED BY <1>1, <1>3, <3>1, <3>2
  <2>. QED BY <1>1, <1>3, <2>1, <2>2, <2>3
<1>5. InputFrames * rate \in Nat
  BY <1>1, <1>4
<1>6. (InputFrames * rate) \div core \in Nat /\ (InputFrames * rate) \div core <= C
  BY <1>1, <1>4, <1>5, DivLeast
<1>. QED BY <1>6, CapacityAssumption

(* converted[] is not overrun at any rate the feedback, underruns and      *)
(* restarts lead to that one input frame does not fill it at; for every    *)
(* bound MaxRate on what underruns reach.                                  *)
THEOREM OutputAlwaysFits == RateSpec => []OutputFits
<1>. QED BY ChunkFits, Inductive, PTL
-----------------------------------------------------------------------------
(* The queue.                                                              *)

Seams == audio_sustaining \in BOOLEAN /\ SeamsRamped

LEMMA SeamsStep == Seams /\ [Next]_vars => Seams'
<1>. SUFFICES ASSUME Seams, [Next]_vars PROVE Seams'
  OBVIOUS
<1>. USE DEF Seams, SeamsRamped
<1>1. CASE Chunk
  <2>1. CASE audio_sustaining' = Sustaining(FALSE) /\ UNCHANGED <<ring, tail, pcm, hist>>
    BY <2>1 DEF Sustaining, hist
  <2>2. CASE /\ audio_sustaining' = Sustaining(TRUE)
             /\ last' = IF last = "repeat" /\ ~audio_sustaining THEN "seam" ELSE "fresh"
    BY <2>2 DEF Sustaining
  <2>. QED BY <1>1, <2>1, <2>2 DEF Chunk
<1>2. CASE RepeatBlock
  BY <1>2 DEF RepeatBlock
<1>3. CASE OpenMenu \/ Resume
  BY <1>3 DEF OpenMenu, Resume, AudioReset
<1>4. CASE ChangeRate
  BY <1>4 DEF ChangeRate, AudioReset, hist
<1>5. CASE BeginBatch \/ EndBatch \/ Refill \/ EndRefill \/ Underrun
  BY <1>5 DEF BeginBatch, EndBatch, Refill, EndRefill, Underrun, hist
<1>6. CASE UNCHANGED vars
  BY <1>6 DEF vars, hist
<1>. QED BY <1>1, <1>2, <1>3, <1>4, <1>5, <1>6 DEF Next

(* Fresh audio after a repeat is ramped into, over any number of chunks    *)
(* for which the resampler gives nothing (audio_batch).                    *)
THEOREM SeamsAreRamped == Spec => []SeamsRamped
<1>1. Init => Seams
  BY DEF Init, Seams, SeamsRamped
<1>2. Seams => SeamsRamped
  BY DEF Seams
<1>. QED BY <1>1, <1>2, SeamsStep, PTL DEF Spec
-----------------------------------------------------------------------------
(* The rings.                                                              *)

LEMMA Wraps ==
  ASSUME NEW a \in Int, NEW n \in Nat \ {0}
  PROVE  (a % n) \in 0 .. n - 1
OBVIOUS

LEMMA StoredIsRing ==
  ASSUME NEW size \in Nat \ {0}, NEW cells \in [0 .. size - 1 -> Sample],
         NEW at \in Int, NEW s \in Seq(Sample)
  PROVE  Stored(cells, size, at, s) \in [0 .. size - 1 -> Sample]
<1>1. ASSUME NEW i \in 0 .. size - 1, ((i - at) % size) < Len(s)
      PROVE  s[((i - at) % size) + 1] \in Sample
  <2>. DEFINE k == (i - at) % size
  <2>1. k \in 0 .. size - 1
    BY Wraps
  <2>2. k < Len(s)
    BY <1>1
  <2>. HIDE DEF k
  <2>3. s[k + 1] \in Sample
    BY <2>1, <2>2
  <2>. QED BY <2>3 DEF k
<1>. QED BY <1>1 DEF Stored

(* Whole blocks that cover n samples.                                      *)
LEMMA BlocksCover ==
  ASSUME NEW n \in Nat \ {0}
  PROVE  Blocks(n) \in Nat /\ Drop * Blocks(n) \in Nat /\ Drop * Blocks(n) >= n
<1>. DEFINE a == n + Drop - 1
            q == a \div Drop
<1>1. Drop \in Nat \ {0} /\ a \in Nat
  BY SizeAssumption
<1>2. q \in Nat /\ a < (q + 1) * Drop
  BY <1>1
<1>. HIDE DEF q
<1>3. (q + 1) * Drop = Drop * q + Drop /\ Drop * q \in Nat
  BY <1>1, <1>2
<1>4. Drop * q >= n
  BY <1>1, <1>2, <1>3
<1>. QED BY <1>2, <1>3, <1>4 DEF Blocks, q

(* There is room for n samples after what was discarded for them.          *)
LEMMA DiscardedMakesRoom ==
  ASSUME NEW n \in 1 .. Capacity, NEW count \in 0 .. Capacity
  PROVE  Discarded(n, count) \in 0 .. count /\ count - Discarded(n, count) + n <= Capacity
<1>1. CASE n <= Capacity - count
  BY <1>1, SizeAssumption DEF Discarded
<1>2. CASE ~(n <= Capacity - count)
  <2>. DEFINE x == n - (Capacity - count)
              blocks == Drop * Blocks(x)
  <2>1. x \in Nat \ {0}
    BY <1>2, SizeAssumption
  <2>2. blocks \in Nat /\ blocks >= x
    BY <2>1, BlocksCover
  <2>3. Discarded(n, count) = Least(count, blocks)
    BY <1>2 DEF Discarded
  <2>. HIDE DEF blocks
  <2>. QED BY <2>2, <2>3, SizeAssumption DEF Least
<1>. QED BY <1>1, <1>2

PcmStates == {"none", "setup", "ready", "xrun"}

LEMMA FlushedTakes ==
  ASSUME audio_count \in Nat, pcm \in PcmStates, NEW f \in Flushed
  PROVE  f.written \in 0 .. audio_count /\ f.pcm \in PcmStates
BY DEF Flushed, PcmStates

RingOK ==
  /\ audio_buffer \in [0 .. Capacity - 1 -> Sample]
  /\ audio_head \in 0 .. Capacity - 1 /\ audio_count \in 0 .. Capacity
  /\ pcm \in PcmStates

LEMMA AdvanceInRing ==
  ASSUME NEW n \in Nat, audio_head \in Int
  PROVE  Advance(n) \in 0 .. Capacity - 1
<1>. DEFINE a == audio_head + n
<1>1. a \in Int /\ Capacity \in Nat \ {0}
  BY SizeAssumption
<1>2. Advance(n) = a % Capacity
  BY DEF Advance
<1>. HIDE DEF a
<1>. QED BY <1>1, <1>2, Wraps

LEMMA FlushKeepsRing == RingOK /\ Flush => RingOK'
<1>. SUFFICES ASSUME RingOK, Flush PROVE RingOK'
  OBVIOUS
<1>1. PICK f \in Flushed :
        /\ audio_head' = Advance(f.written) /\ audio_count' = audio_count - f.written
        /\ pcm' = f.pcm /\ audio_buffer' = audio_buffer
  BY DEF Flush
<1>2. f.written \in 0 .. audio_count /\ f.pcm \in PcmStates
  BY FlushedTakes, SizeAssumption DEF RingOK
<1>3. audio_head' \in 0 .. Capacity - 1
  <2>1. f.written \in Nat /\ audio_head \in Int
    BY <1>2, SizeAssumption DEF RingOK
  <2>2. Advance(f.written) \in 0 .. Capacity - 1
    BY <2>1, AdvanceInRing
  <2>. QED BY <1>1, <2>2
<1>. QED BY <1>1, <1>2, <1>3, SizeAssumption DEF RingOK

LEMMA EnqueueKeepsRing ==
  ASSUME RingOK, NEW s \in Seq(Sample), Len(s) \in 1 .. Capacity, Enqueue(s)
  PROVE  RingOK'
<1>. DEFINE Writes == IF Len(s) > Capacity - audio_count THEN Flushed
                      ELSE {[written |-> 0, pcm |-> pcm]}
<1>1. PICK f \in Writes :
        LET left == audio_count - f.written
            lost == Discarded(Len(s), left)
        IN /\ audio_head' = Advance(f.written + lost)
           /\ audio_count' = left - lost + Len(s)
           /\ audio_buffer' =
                Stored(audio_buffer, Capacity, (audio_head' + left - lost) % Capacity, s)
           /\ pcm' = f.pcm
  BY DEF Enqueue
<1>2. f.written \in 0 .. audio_count /\ f.pcm \in PcmStates
  BY FlushedTakes, SizeAssumption DEF RingOK
<1>. DEFINE left == audio_count - f.written
            lost == Discarded(Len(s), left)
<1>3. left \in 0 .. Capacity
  BY <1>2, SizeAssumption DEF RingOK
<1>4. lost \in 0 .. left /\ left - lost + Len(s) <= Capacity
  BY <1>3, DiscardedMakesRoom
<1>5. audio_head' = Advance(f.written + lost) /\ audio_count' = left - lost + Len(s)
  BY <1>1
<1>6. audio_buffer' = Stored(audio_buffer, Capacity, (audio_head' + left - lost) % Capacity, s)
  BY <1>1
<1>. HIDE DEF left, lost
<1>7. audio_head' \in 0 .. Capacity - 1
  <2>1. f.written + lost \in Nat /\ audio_head \in Int
    BY <1>2, <1>3, <1>4, SizeAssumption DEF RingOK
  <2>2. Advance(f.written + lost) \in 0 .. Capacity - 1
    BY <2>1, AdvanceInRing
  <2>. QED BY <1>5, <2>2
<1>8. audio_count' \in 0 .. Capacity
  BY <1>3, <1>4, <1>5, SizeAssumption
<1>9. audio_buffer' \in [0 .. Capacity - 1 -> Sample]
  <2>. DEFINE a == audio_head' + left - lost
              at == a % Capacity
  <2>1. a \in Int /\ Capacity \in Nat \ {0}
    BY <1>3, <1>4, <1>7, SizeAssumption
  <2>2. at \in Int
    <3>. HIDE DEF a
    <3>. QED BY <2>1, Wraps
  <2>3. audio_buffer' = Stored(audio_buffer, Capacity, at, s)
    BY <1>6
  <2>. HIDE DEF at
  <2>. QED BY <2>1, <2>2, <2>3, StoredIsRing DEF RingOK
<1>. QED BY <1>1, <1>2, <1>7, <1>8, <1>9 DEF RingOK

TailOK ==
  /\ audio_tail \in [0 .. Sustain - 1 -> Sample]
  /\ audio_tail_write \in 0 .. Sustain - 1 /\ audio_tail_count \in 0 .. Sustain
  /\ audio_tail_play \in 0 .. Sustain - 1
  /\ audio_tail_play = 0 \/ audio_tail_play < audio_tail_count

LEMMA PushKeepsTail ==
  ASSUME TailOK, NEW s \in Seq(Sample), TailPush(s)
  PROVE  TailOK'
<1>1. Sustain \in Nat \ {0} /\ Len(s) \in Nat
  BY SizeAssumption
<1>2. CASE Len(s) >= Sustain
  <2>1. SubSeq(s, Len(s) - Sustain + 1, Len(s)) \in Seq(Sample)
    BY <1>1, <1>2
  <2>. DEFINE e == SubSeq(s, Len(s) - Sustain + 1, Len(s))
  <2>2. audio_tail' \in [0 .. Sustain - 1 -> Sample]
    <3>1. audio_tail' = Stored(audio_tail, Sustain, 0, e)
      BY <1>2 DEF TailPush
    <3>2. e \in Seq(Sample) /\ audio_tail \in [0 .. Sustain - 1 -> Sample] /\ 0 \in Int
      BY <2>1 DEF TailOK
    <3>. HIDE DEF e
    <3>. QED BY <1>1, <3>1, <3>2, StoredIsRing
  <2>. QED BY <1>1, <1>2, <2>2 DEF TailPush, TailOK, PlayAfterPush
<1>3. CASE ~(Len(s) >= Sustain)
  <2>1. audio_tail' \in [0 .. Sustain - 1 -> Sample]
    <3>1. audio_tail' = Stored(audio_tail, Sustain, audio_tail_write, s)
      BY <1>3 DEF TailPush
    <3>2. audio_tail \in [0 .. Sustain - 1 -> Sample] /\ audio_tail_write \in Int
      BY <1>1 DEF TailOK
    <3>. QED BY <1>1, <3>1, <3>2, StoredIsRing
  <2>2. audio_tail_write' \in 0 .. Sustain - 1
    <3>. DEFINE a == audio_tail_write + Len(s)
    <3>1. a \in Int /\ audio_tail_write' = a % Sustain
      BY <1>1, <1>3 DEF TailPush, TailOK
    <3>. HIDE DEF a
    <3>. QED BY <1>1, <3>1, Wraps
  <2>3. audio_tail_count' \in 0 .. Sustain
    BY <1>1, <1>3 DEF TailPush, TailOK, Least
  <2>. QED BY <1>1, <2>1, <2>2, <2>3 DEF TailPush, TailOK, PlayAfterPush
<1>. QED BY <1>2, <1>3

LEMMA RepeatIsAudio ==
  ASSUME TailOK, NEW n \in Nat
  PROVE  Repeated(n) \in Seq(Sample) /\ Len(Repeated(n)) = n
<1>1. Sustain \in Nat \ {0}
  BY SizeAssumption
<1>2. ASSUME NEW i \in 1 .. n, audio_tail_count # 0
      PROVE  audio_tail[(TailStart + ((audio_tail_play + i - 1) % audio_tail_count)) % Sustain]
               \in Sample
  <2>. DEFINE a == (audio_tail_play + i - 1) % audio_tail_count
  <2>1. a \in Int
    BY <1>2, Wraps DEF TailOK
  <2>2. TailStart \in Int
    BY <1>1, Wraps DEF TailStart, TailOK
  <2>. HIDE DEF a
  <2>3. (TailStart + a) % Sustain \in 0 .. Sustain - 1
    BY <1>1, <2>1, <2>2, Wraps
  <2>. QED BY <2>3 DEF TailOK, a
<1>3. Repeated(n) \in [1 .. n -> Sample]
  BY <1>2, SampleAssumption DEF Repeated
<1>. QED BY <1>3

QueueOK ==
  /\ RingOK /\ TailOK
  /\ pc \in {"loop", "batch", "refill", "menu"} /\ missing \in 0 .. Target
  /\ fast_forward_rate \in {0, 1, 2}
  /\ last \in {"none", "fresh", "repeat", "seam"} /\ ramp_from \in {"last", "ramp"}

QueueFlags == audio_sustaining \in BOOLEAN /\ uncapped_mode \in BOOLEAN

LEMMA ResetKeepsQueue ==
  ASSUME RingOK, TailOK, NEW prepare \in BOOLEAN, AudioReset(prepare)
  PROVE  /\ RingOK' /\ TailOK' /\ last' = "none" /\ ramp_from' = "last"
BY SizeAssumption DEF RingOK, TailOK, AudioReset, PcmStates

LEMMA FlagsStep == QueueFlags /\ [Next]_vars => QueueFlags'
BY DEF QueueFlags, Next, vars, mode, BeginBatch, Chunk, EndBatch, Refill, RepeatBlock,
   EndRefill, OpenMenu, ChangeRate, Resume, Underrun, AudioReset, Sustaining

LEMMA QueueStep == QueueOK /\ QueueFlags /\ [Next]_vars => QueueOK'
<1>. SUFFICES ASSUME QueueOK, QueueFlags, [Next]_vars PROVE QueueOK'
  OBVIOUS
<1>. RingOK /\ TailOK
  BY DEF QueueOK
<1>1. CASE BeginBatch
  BY <1>1 DEF BeginBatch, QueueOK, RingOK, TailOK, ring, tail, mode, hist
<1>2. CASE Chunk
  <2>1. CASE UNCHANGED <<ring, tail, pcm, hist>>
    BY <1>2, <2>1 DEF Chunk, QueueOK, RingOK, TailOK, ring, tail, mode, hist
  <2>2. ASSUME NEW s \in Batches, Enqueue(s), TailPush(s), last' \in {"fresh", "seam"},
               ramp_from' = "last"
        PROVE  QueueOK'
    <3>1. s \in Seq(Sample) /\ Len(s) \in 1 .. Capacity
      BY <2>2, SizeAssumption DEF Batches
    <3>2. RingOK'
      BY <2>2, <3>1, EnqueueKeepsRing
    <3>3. TailOK'
      BY <2>2, <3>1, PushKeepsTail
    <3>. QED BY <1>2, <2>2, <3>2, <3>3 DEF Chunk, QueueOK, mode
  <2>3. CASE /\ \E s \in Batches : Enqueue(s) /\ TailPush(s)
             /\ last' = IF last = "repeat" /\ ~audio_sustaining THEN "seam" ELSE "fresh"
             /\ ramp_from' = "last"
    BY <2>2, <2>3
  <2>. QED BY <1>2, <2>1, <2>3 DEF Chunk
<1>3. CASE EndBatch
  <2>1. RingOK'
    BY <1>3, FlushKeepsRing DEF EndBatch, RingOK, ring
  <2>. QED BY <1>3, <2>1 DEF EndBatch, QueueOK, TailOK, tail, mode
<1>4. CASE Refill
  BY <1>4, SizeAssumption DEF Refill, QueueOK, RingOK, TailOK, PcmStates, ring, tail, mode, hist
<1>5. CASE RepeatBlock
  <2>. DEFINE n == Least(missing, Sustain)
  <2>1. n \in 1 .. Sustain /\ n \in 1 .. Capacity /\ n <= missing
    BY <1>5, SizeAssumption DEF RepeatBlock, QueueOK, Least
  <2>2. Repeated(n) \in Seq(Sample) /\ Len(Repeated(n)) = n
    BY <2>1, RepeatIsAudio
  <2>3. /\ Enqueue(Repeated(n)) /\ missing' = missing - n
        /\ audio_tail_play' = IF audio_tail_count = 0 THEN audio_tail_play
                              ELSE (audio_tail_play + n) % audio_tail_count
        /\ UNCHANGED <<audio_tail, audio_tail_write, audio_tail_count, mode, pc>>
        /\ last' = "repeat" /\ ramp_from' \in {"ramp", "last"}
    BY <1>5 DEF RepeatBlock
  <2>4. RingOK'
    BY <2>1, <2>2, <2>3, EnqueueKeepsRing
  <2>. HIDE DEF n
  <2>5. TailOK'
    <3>1. CASE audio_tail_count = 0
      BY <2>3, <3>1 DEF TailOK
    <3>2. CASE audio_tail_count # 0
      <4>1. audio_tail_play' \in 0 .. audio_tail_count - 1
        <5>. DEFINE a == audio_tail_play + n
        <5>1. a \in Int /\ audio_tail_count \in Nat \ {0}
          BY <2>1, <3>2, SizeAssumption DEF TailOK
        <5>2. audio_tail_play' = a % audio_tail_count
          BY <2>3, <3>2
        <5>. HIDE DEF a
        <5>. QED BY <5>1, <5>2, Wraps
      <4>. QED BY <2>3, <4>1, SizeAssumption DEF TailOK
    <3>. QED BY <3>1, <3>2
  <2>6. missing' \in 0 .. Target
    BY <2>1, <2>3, SizeAssumption DEF QueueOK
  <2>. QED BY <2>3, <2>4, <2>5, <2>6 DEF QueueOK, mode
<1>6. CASE EndRefill
  <2>1. RingOK'
    BY <1>6, FlushKeepsRing DEF EndRefill
  <2>. QED BY <1>6, <2>1 DEF EndRefill, QueueOK, TailOK, tail, mode
<1>7. CASE OpenMenu
  BY <1>7, ResetKeepsQueue DEF OpenMenu, QueueOK, mode
<1>8. CASE ChangeRate
  <2>1. CASE UNCHANGED <<ring, tail, audio_sustaining, pcm, hist>>
    BY <1>8, <2>1 DEF ChangeRate, QueueOK, RingOK, TailOK, ring, tail, hist
  <2>2. CASE AudioReset(~uncapped_mode')
    BY <1>8, <2>2, ResetKeepsQueue DEF ChangeRate, QueueOK
  <2>. QED BY <1>8, <2>1, <2>2 DEF ChangeRate
<1>9. CASE Resume
  BY <1>9, ResetKeepsQueue DEF Resume, QueueOK, mode
<1>10. CASE Underrun
  BY <1>10 DEF Underrun, QueueOK, RingOK, TailOK, PcmStates, ring, tail, mode, hist
<1>11. CASE UNCHANGED vars
  BY <1>11 DEF vars, QueueOK, RingOK, TailOK, ring, tail, mode, hist
<1>. QED BY <1>1, <1>2, <1>3, <1>4, <1>5, <1>6, <1>7, <1>8, <1>9, <1>10, <1>11 DEF Next

(* Both rings are only ever used within their bounds, what is dropped      *)
(* makes room for what comes, and a repeat has a tail to copy from         *)
(* (audio_queue, audio_tail_push, audio_enqueue_repeat).                   *)
THEOREM RingsStayInBounds == Spec => []TypeOK
<1>1. Init => QueueOK
  BY SizeAssumption, SampleAssumption DEF Init, QueueOK, RingOK, TailOK, PcmStates
<1>2. Init => QueueFlags
  BY DEF Init, QueueFlags
<1>3. QueueOK /\ QueueFlags => TypeOK
  BY DEF QueueOK, QueueFlags, RingOK, TailOK, PcmStates, TypeOK
<1>. QED BY <1>1, <1>2, <1>3, QueueStep, FlagsStep, PTL DEF Spec
-----------------------------------------------------------------------------
(* The queue and the tail of AudioFifo.                                    *)

LEMMA ModDiv ==
  ASSUME NEW a \in Int, NEW n \in Nat \ {0}
  PROVE  (a \div n) \in Int /\ (a % n) \in 0 .. n - 1 /\ a = n * (a \div n) + (a % n)
OBVIOUS

(* Numbers that differ by a multiple of n and are both below n are equal.  *)
LEMMA NoMultiple ==
  ASSUME NEW n \in Nat \ {0}, NEW d \in Int, NEW r \in 0 .. n - 1, NEW s \in 0 .. n - 1,
         n * d = r - s
  PROVE  d = 0 /\ r = s
<1>1. CASE d >= 1
  <2>1. n * d >= n * 1
    BY <1>1
  <2>. QED BY <2>1
<1>2. CASE d <= -1
  <2>1. n * d <= n * (-1)
    BY <1>2
  <2>. QED BY <2>1
<1>3. CASE d = 0
  BY <1>3
<1>. QED BY <1>1, <1>2, <1>3

LEMMA ModIs ==
  ASSUME NEW a \in Int, NEW n \in Nat \ {0}, NEW q \in Int, NEW r \in 0 .. n - 1,
         a = n * q + r
  PROVE  a % n = r
<1>. DEFINE p == a \div n  s == a % n
<1>1. p \in Int /\ s \in 0 .. n - 1 /\ a = n * p + s
  BY ModDiv
<1>. HIDE DEF p, s
<1>2. n * (q - p) = n * q - n * p
  BY <1>1
<1>3. n * (q - p) = s - r
  BY <1>1, <1>2
<1>. DEFINE d == q - p
<1>4. d \in Int /\ n * d = s - r
  BY <1>1, <1>3
<1>. HIDE DEF d
<1>5. s = r
  BY <1>1, <1>4, NoMultiple
<1>. QED BY <1>5 DEF s

(* A position may be reduced to the ring before or after it is moved.      *)
LEMMA ModAdd ==
  ASSUME NEW a \in Int, NEW b \in Int, NEW n \in Nat \ {0}
  PROVE  ((a % n) + b) % n = (a + b) % n
<1>. DEFINE p == a \div n  s == a % n  c == s + b  q == c \div n  r == c % n  e == a + b
<1>1. p \in Int /\ s \in 0 .. n - 1 /\ a = n * p + s
  BY ModDiv
<1>2. c \in Int
  BY <1>1
<1>3. q \in Int /\ r \in 0 .. n - 1 /\ c = n * q + r
  <2>. HIDE DEF c
  <2>. QED BY <1>2, ModDiv
<1>4. e \in Int /\ p + q \in Int
  BY <1>1, <1>3
<1>. HIDE DEF p, s, q, r
<1>5. n * (p + q) = n * p + n * q
  BY <1>1, <1>3
<1>6. e = n * (p + q) + r
  BY <1>1, <1>3, <1>5
<1>. HIDE DEF e
<1>7. e % n = r
  BY <1>3, <1>4, <1>6, ModIs
<1>. QED BY <1>7 DEF e, r, s

(* What a ring of the given size holds: count cells from start on.         *)
Held(cells, size, start, count) == [i \in 1 .. count |-> cells[(start + i - 1) % size]]

LEMMA HeldIsSeq ==
  ASSUME NEW size \in Nat \ {0}, NEW cells \in [0 .. size - 1 -> Sample],
         NEW start \in Int, NEW count \in Nat
  PROVE  /\ Held(cells, size, start, count) \in Seq(Sample)
         /\ Len(Held(cells, size, start, count)) = count
         /\ \A i \in 1 .. count :
              Held(cells, size, start, count)[i] = cells[(start + i - 1) % size]
<1>1. ASSUME NEW i \in 1 .. count PROVE cells[(start + i - 1) % size] \in Sample
  <2>. DEFINE a == start + i - 1
  <2>1. a \in Int
    OBVIOUS
  <2>. HIDE DEF a
  <2>2. a % size \in 0 .. size - 1
    BY <2>1, Wraps
  <2>. QED BY <2>2 DEF a
<1>2. Held(cells, size, start, count) \in [1 .. count -> Sample]
  BY <1>1 DEF Held
<1>. QED BY <1>2 DEF Held

LEMMA CatFacts ==
  ASSUME NEW S, NEW s \in Seq(S), NEW t \in Seq(S)
  PROVE  /\ s \o t \in Seq(S) /\ Len(s \o t) = Len(s) + Len(t)
         /\ \A i \in 1 .. Len(s) + Len(t) :
              (s \o t)[i] = IF i <= Len(s) THEN s[i] ELSE t[i - Len(s)]
OBVIOUS

LEMMA SameSeq ==
  ASSUME NEW S, NEW s \in Seq(S), NEW t \in Seq(S), Len(s) = Len(t),
         \A i \in 1 .. Len(s) : s[i] = t[i]
  PROVE  s = t
OBVIOUS

(* Giving up the oldest n cells.                                           *)
LEMMA HeldDrop ==
  ASSUME NEW size \in Nat \ {0}, NEW cells \in [0 .. size - 1 -> Sample],
         NEW start \in Int, NEW count \in Nat, NEW n \in 0 .. count
  PROVE  Held(cells, size, (start + n) % size, count - n)
           = SubSeq(Held(cells, size, start, count), n + 1, count)
<1>. DEFINE a == start + n  h == a % size
            old == Held(cells, size, start, count)
            new == Held(cells, size, h, count - n)
            sub == SubSeq(old, n + 1, count)
<1>1. a \in Int /\ count - n \in Nat
  OBVIOUS
<1>2. h \in Int
  <2>. HIDE DEF a
  <2>. QED BY <1>1, Wraps
<1>3. /\ old \in Seq(Sample) /\ Len(old) = count
      /\ \A i \in 1 .. count : old[i] = cells[(start + i - 1) % size]
  BY HeldIsSeq
<1>4. /\ new \in Seq(Sample) /\ Len(new) = count - n
      /\ \A i \in 1 .. count - n : new[i] = cells[(h + i - 1) % size]
  <2>. DEFINE k == count - n
  <2>1. k \in Nat
    BY <1>1
  <2>. HIDE DEF h, k
  <2>2. /\ Held(cells, size, h, k) \in Seq(Sample) /\ Len(Held(cells, size, h, k)) = k
        /\ \A i \in 1 .. k : Held(cells, size, h, k)[i] = cells[(h + i - 1) % size]
    BY <1>2, <2>1, HeldIsSeq
  <2>. QED BY <2>2 DEF k
<1>5. sub \in Seq(Sample) /\ Len(sub) = count - n
      /\ \A i \in 1 .. count - n : sub[i] = old[n + i]
  <2>. HIDE DEF old
  <2>. QED BY <1>3
<1>6. ASSUME NEW i \in 1 .. count - n PROVE new[i] = sub[i]
  <2>1. (h + (i - 1)) % size = (a + (i - 1)) % size
    <3>. DEFINE z == i - 1
    <3>1. z \in Int
      OBVIOUS
    <3>. HIDE DEF a, z
    <3>2. (h + z) % size = (a + z) % size
      BY <1>1, <3>1, ModAdd
    <3>. QED BY <3>2 DEF z
  <2>2. h + i - 1 = h + (i - 1) /\ a + (i - 1) = start + (n + i) - 1 /\ n + i \in 1 .. count
    <3>. HIDE DEF h
    <3>. QED BY <1>1, <1>2
  <2>3. new[i] = cells[(start + (n + i) - 1) % size]
    <3>. HIDE DEF new
    <3>. QED BY <1>4, <2>1, <2>2
  <2>. HIDE DEF new, sub, old, h, a
  <2>. QED BY <1>3, <1>5, <2>2, <2>3
<1>. HIDE DEF new, sub, old
<1>7. new = sub
  BY <1>4, <1>5, <1>6, SameSeq
<1>. QED BY <1>7 DEF new, sub, old

(* put is the ring after s was stored behind the count samples held from   *)
(* start on, from is where its last keep samples begin, and newest is the  *)
(* last keep samples of both together.                                     *)
Stores(size, cells, start, count, s, keep, at, put, from, newest) ==
  /\ size \in Nat \ {0} /\ cells \in [0 .. size - 1 -> Sample]
  /\ start \in Int /\ count \in Nat /\ s \in Seq(Sample) /\ Len(s) <= size
  /\ keep \in Nat /\ keep <= size /\ keep <= count + Len(s)
  /\ at \in Int /\ at = (start + count) % size
  /\ from \in Int /\ from = (start + ((count + Len(s)) - keep)) % size
  /\ put = Stored(cells, size, at, s)
  /\ newest = SubSeq(Held(cells, size, start, count) \o s,
                     ((count + Len(s)) - keep) + 1, count + Len(s))

LEMMA HeldStore ==
  ASSUME NEW size, NEW cells, NEW start, NEW count, NEW s, NEW keep, NEW at, NEW put, NEW from,
         NEW newest, Stores(size, cells, start, count, s, keep, at, put, from, newest)
  PROVE  Held(put, size, from, keep) = newest
<1>. /\ size \in Nat \ {0} /\ cells \in [0 .. size - 1 -> Sample]
     /\ start \in Int /\ count \in Nat /\ s \in Seq(Sample) /\ Len(s) <= size
     /\ keep \in Nat /\ keep <= size /\ keep <= count + Len(s) /\ at \in Int
  BY DEF Stores
<1>0. /\ at = (start + count) % size
      /\ from \in Int /\ from = (start + ((count + Len(s)) - keep)) % size
      /\ put = Stored(cells, size, at, s)
  BY DEF Stores
<1>. DEFINE old == Held(cells, size, start, count)
            cat == old \o s
            total == count + Len(s)
            lost == total - keep
            sub == SubSeq(cat, lost + 1, total)
<1>1. Len(s) \in Nat /\ total \in Nat /\ lost \in Nat
  OBVIOUS
<1>2. at \in 0 .. size - 1
  <2>. DEFINE a == start + count
  <2>1. a \in Int /\ at = a % size
    BY <1>0
  <2>. HIDE DEF a
  <2>. QED BY <2>1, Wraps
<1>3. put \in [0 .. size - 1 -> Sample]
  BY <1>0, StoredIsRing
<1>4. ASSUME NEW j \in 1 .. total, total - j < size
      PROVE  put[(start + j - 1) % size]
               = IF j <= count THEN cells[(start + j - 1) % size] ELSE s[j - count]
  <2>. DEFINE a == start + count  p == a \div size
              b == start + j - 1  idx == b % size
              z == 0 - at  e == b + z  k == (idx - at) % size
              r == IF j > count THEN j - 1 - count ELSE size + j - 1 - count
              m == IF j > count THEN p ELSE p - 1
  <2>1. a \in Int /\ b \in Int /\ z \in Int
    BY <1>2
  <2>2. p \in Int /\ a = size * p + at
    <3>1. at = a % size
      BY <1>0
    <3>. HIDE DEF a
    <3>. QED BY <2>1, <3>1, ModDiv
  <2>3. idx \in 0 .. size - 1
    <3>. HIDE DEF b
    <3>. QED BY <2>1, Wraps
  <2>4. k = e % size
    <3>1. (idx + z) % size = (b + z) % size
      <4>. HIDE DEF b, z
      <4>. QED BY <2>1, ModAdd
    <3>2. idx - at = idx + z
      <4>. HIDE DEF idx
      <4>. QED BY <1>2, <2>3
    <3>. QED BY <3>1, <3>2
  <2>5. r \in 0 .. size - 1 /\ m \in Int
        /\ (j > count => r = j - 1 - count) /\ (j <= count => r >= Len(s))
    <3>. HIDE DEF p
    <3>. QED BY <1>1, <1>4, <2>2
  <2>6. size * m = IF j > count THEN size * p ELSE size * p - size
    <3>. HIDE DEF p
    <3>. QED BY <2>2
  <2>7. e = size * m + r /\ e \in Int
    <3>. DEFINE q == size * p  qm == size * m
    <3>1. q \in Int /\ start + count = q + at /\ qm = IF j > count THEN q ELSE q - size
      <4>. HIDE DEF m
      <4>. QED BY <2>2, <2>6
    <3>. HIDE DEF p, m, q, qm
    <3>2. e = qm + r /\ e \in Int
      BY <1>1, <1>2, <2>1, <3>1
    <3>. QED BY <3>2 DEF qm
  <2>8. k = r
    <3>. HIDE DEF e, m, r, k
    <3>. QED BY <2>4, <2>5, <2>7, ModIs
  <2>9. put[idx] = IF k < Len(s) THEN s[k + 1] ELSE cells[idx]
    <3>. HIDE DEF idx
    <3>. QED BY <1>0, <2>3 DEF Stored
  <2>10. CASE j > count
    <3>1. k < Len(s) /\ k + 1 = j - count
      <4>. HIDE DEF k, r
      <4>. QED BY <1>1, <2>5, <2>8, <2>10
    <3>. HIDE DEF k
    <3>. QED BY <2>9, <2>10, <3>1
  <2>11. CASE j <= count
    <3>1. ~(k < Len(s))
      <4>. HIDE DEF k, r
      <4>. QED BY <1>1, <2>5, <2>8, <2>11
    <3>. HIDE DEF k
    <3>. QED BY <2>9, <2>11, <3>1
  <2>. QED BY <2>10, <2>11
<1>5. /\ old \in Seq(Sample) /\ Len(old) = count
      /\ \A i \in 1 .. count : old[i] = cells[(start + i - 1) % size]
  BY HeldIsSeq
<1>. HIDE DEF old
<1>7. /\ cat \in Seq(Sample) /\ Len(cat) = total
      /\ \A i \in 1 .. total : cat[i] = IF i <= count THEN old[i] ELSE s[i - count]
  BY <1>5, CatFacts
<1>. HIDE DEF cat
<1>8. /\ sub \in Seq(Sample) /\ Len(sub) = keep
      /\ \A i \in 1 .. keep : sub[i] = cat[lost + i]
  <2>1. keep \in Nat /\ keep = total - lost
    BY <1>1
  <2>2. cat \in Seq(Sample) /\ Len(cat) = total
    BY <1>7
  <2>. HIDE DEF lost, total
  <2>3. sub \in Seq(Sample) /\ Len(sub) = total - lost
        /\ \A i \in 1 .. total - lost : sub[i] = cat[lost + i]
    BY <1>1, <2>1, <2>2
  <2>. QED BY <2>1, <2>3
<1>. DEFINE new == Held(put, size, from, keep)
<1>11. /\ new \in Seq(Sample) /\ Len(new) = keep
       /\ \A i \in 1 .. keep : new[i] = put[(from + i - 1) % size]
  <2>1. size \in Nat \ {0} /\ from \in Int /\ keep \in Nat
    BY <1>0
  <2>. QED BY <1>3, <2>1, HeldIsSeq
<1>. HIDE DEF new
<1>12. ASSUME NEW i \in 1 .. keep PROVE new[i] = sub[i]
  <2>. DEFINE j == lost + i  a == start + lost  z == i - 1
  <2>1. j \in 1 .. total /\ total - j < size /\ z \in Int /\ a \in Int
        /\ from + i - 1 = from + z /\ a + z = start + j - 1 /\ from = a % size
    BY <1>0, <1>1
  <2>2. (from + z) % size = (a + z) % size
    <3>. HIDE DEF a, z
    <3>1. ((a % size) + z) % size = (a + z) % size
      BY <2>1, ModAdd
    <3>. QED BY <2>1, <3>1
  <2>3. new[i] = put[(start + j - 1) % size]
    <3>. HIDE DEF a, z, j
    <3>. QED BY <1>11, <2>1, <2>2
  <2>4. put[(start + j - 1) % size]
          = IF j <= count THEN cells[(start + j - 1) % size] ELSE s[j - count]
    <3>. HIDE DEF j, total
    <3>. QED BY <1>4, <2>1
  <2>5. j <= count => old[j] = cells[(start + j - 1) % size]
    <3>. HIDE DEF j
    <3>. QED BY <1>5, <2>1
  <2>6. cat[j] = IF j <= count THEN old[j] ELSE s[j - count]
    <3>. HIDE DEF j, total
    <3>. QED BY <1>7, <2>1
  <2>7. sub[i] = cat[j]
    BY <1>8
  <2>. HIDE DEF j, sub
  <2>. QED BY <2>3, <2>4, <2>5, <2>6, <2>7
<1>. HIDE DEF sub
<1>13. new = sub
  BY <1>8, <1>11, <1>12, SameSeq
<1>14. newest = SubSeq(Held(cells, size, start, count) \o s,
                      ((count + Len(s)) - keep) + 1, count + Len(s))
  BY DEF Stores
<1>. QED BY <1>13, <1>14 DEF new, sub, cat, old
LEMMA WholeSub ==
  ASSUME NEW S, NEW s \in Seq(S)
  PROVE  SubSeq(s, 1, Len(s)) = s
OBVIOUS

(* As long as nothing is lost, s comes behind what was held.               *)
LEMMA HeldAppend ==
  ASSUME NEW size \in Nat \ {0}, NEW cells \in [0 .. size - 1 -> Sample],
         NEW start \in Int, NEW count \in Nat, NEW s \in Seq(Sample)
  PROVE  SubSeq(Held(cells, size, start, count) \o s,
                ((count + Len(s)) - (count + Len(s))) + 1, count + Len(s))
           = Held(cells, size, start, count) \o s
<1>. DEFINE old == Held(cells, size, start, count)  cat == old \o s
<1>1. ((count + Len(s)) - (count + Len(s))) + 1 = 1
  OBVIOUS
<1>2. old \in Seq(Sample) /\ Len(old) = count
  BY HeldIsSeq
<1>3. cat \in Seq(Sample) /\ Len(cat) = count + Len(s)
  <2>. HIDE DEF old
  <2>. QED BY <1>2, CatFacts
<1>. HIDE DEF cat
<1>4. SubSeq(cat, 1, Len(cat)) = cat
  BY <1>3, WholeSub, Zenon
<1>. QED BY <1>1, <1>3, <1>4 DEF cat, old

-----------------------------------------------------------------------------
(* The refinement mapping: what waits for the PCM and what is repeated.    *)
Queued == Held(audio_buffer, Capacity, audio_head, audio_count)
Recent == Held(audio_tail, Sustain, TailStart, audio_tail_count)

LEMMA TailStartInRing == TailOK => TailStart \in 0 .. Sustain - 1
<1>. SUFFICES ASSUME TailOK PROVE TailStart \in 0 .. Sustain - 1
  OBVIOUS
<1>. DEFINE a == audio_tail_write + Sustain - audio_tail_count
<1>1. a \in Int /\ Sustain \in Nat \ {0} /\ TailStart = a % Sustain
  BY SizeAssumption DEF TailOK, TailStart
<1>. HIDE DEF a
<1>. QED BY <1>1, Wraps

LEMMA QueuedSeq == RingOK => Queued \in Seq(Sample) /\ Len(Queued) = audio_count
BY SizeAssumption, HeldIsSeq DEF RingOK, Queued

LEMMA RecentSeq ==
  TailOK => /\ Recent \in Seq(Sample) /\ Len(Recent) = audio_tail_count
            /\ \A i \in 1 .. audio_tail_count :
                 Recent[i] = audio_tail[(TailStart + i - 1) % Sustain]
BY SizeAssumption, TailStartInRing, HeldIsSeq DEF TailOK, Recent

LEMMA AdvanceDrops ==
  ASSUME RingOK, NEW d \in 0 .. audio_count
  PROVE  /\ Advance(d) \in 0 .. Capacity - 1
         /\ Held(audio_buffer, Capacity, Advance(d), audio_count - d)
              = SubSeq(Queued, d + 1, audio_count)
<1>1. audio_head \in Int /\ audio_count \in Nat /\ Capacity \in Nat \ {0} /\ d \in Nat
  BY SizeAssumption DEF RingOK
<1>2. Advance(d) \in 0 .. Capacity - 1
  BY <1>1, AdvanceInRing
<1>3. Held(audio_buffer, Capacity, (audio_head + d) % Capacity, audio_count - d)
        = SubSeq(Held(audio_buffer, Capacity, audio_head, audio_count), d + 1, audio_count)
  BY <1>1, HeldDrop DEF RingOK
<1>. QED BY <1>2, <1>3 DEF Advance, Queued

(* A flush takes the oldest samples.                                       *)
LEMMA FlushShifts ==
  ASSUME RingOK, Flush
  PROVE  \E d \in 0 .. audio_count : Queued' = SubSeq(Queued, d + 1, audio_count)
<1>1. PICK f \in Flushed :
        /\ audio_head' = Advance(f.written) /\ audio_count' = audio_count - f.written
        /\ pcm' = f.pcm /\ audio_buffer' = audio_buffer
  BY DEF Flush
<1>2. f.written \in 0 .. audio_count
  BY FlushedTakes, SizeAssumption DEF RingOK
<1>3. Queued' = Held(audio_buffer, Capacity, Advance(f.written), audio_count - f.written)
  BY <1>1 DEF Queued
<1>. QED BY <1>2, <1>3, AdvanceDrops

(* Queueing s gives up the oldest samples, only for want of room.          *)
LEMMA EnqueueShifts ==
  ASSUME RingOK, NEW s \in Seq(Sample), Len(s) \in 1 .. Capacity, Enqueue(s)
  PROVE  \E d \in 0 .. audio_count :
           /\ Queued' = SubSeq(Queued, d + 1, audio_count) \o s
           /\ audio_count + Len(s) <= Capacity => d = 0
           /\ audio_count + Len(s) - Capacity <= d
<1>. DEFINE Writes == IF Len(s) > Capacity - audio_count THEN Flushed
                      ELSE {[written |-> 0, pcm |-> pcm]}
<1>1. PICK f \in Writes :
        LET left == audio_count - f.written
            lost == Discarded(Len(s), left)
        IN /\ audio_head' = Advance(f.written + lost)
           /\ audio_count' = left - lost + Len(s)
           /\ audio_buffer' =
                Stored(audio_buffer, Capacity, (audio_head' + left - lost) % Capacity, s)
           /\ pcm' = f.pcm
  BY DEF Enqueue
<1>2. f.written \in 0 .. audio_count /\ (Len(s) <= Capacity - audio_count => f.written = 0)
  BY FlushedTakes, SizeAssumption DEF RingOK
<1>. DEFINE left == audio_count - f.written
            lost == Discarded(Len(s), left)
            d == f.written + lost
            at == (audio_head' + left - lost) % Capacity
<1>3. left \in 0 .. Capacity
  BY <1>2, SizeAssumption DEF RingOK
<1>4. /\ lost \in 0 .. left /\ left - lost + Len(s) <= Capacity
      /\ Len(s) <= Capacity - left => lost = 0
  BY <1>3, DiscardedMakesRoom DEF Discarded
<1>5. /\ audio_head' = Advance(d) /\ audio_count' = left - lost + Len(s)
      /\ audio_buffer' = Stored(audio_buffer, Capacity, at, s)
  BY <1>1
<1>. HIDE DEF left, lost
<1>6. /\ d \in 0 .. audio_count /\ left - lost = audio_count - d
      /\ audio_count + Len(s) <= Capacity => d = 0
      /\ audio_count + Len(s) - Capacity <= d
      /\ audio_count \in Nat /\ Capacity \in Nat \ {0} /\ Len(s) \in Nat
  <2>1. audio_count \in 0 .. Capacity /\ Capacity \in Nat \ {0} /\ Len(s) \in 1 .. Capacity
    BY SizeAssumption DEF RingOK
  <2>. DEFINE w == f.written
  <2>2. w \in 0 .. audio_count /\ (Len(s) <= Capacity - audio_count => w = 0)
        /\ left = audio_count - w
    BY <1>2 DEF left
  <2>. HIDE DEF w
  <2>3. w + lost \in 0 .. audio_count /\ left - lost = audio_count - (w + lost)
    BY <1>4, <2>1, <2>2
  <2>4. audio_count + Len(s) <= Capacity => w + lost = 0
    BY <1>4, <2>1, <2>2
  <2>5. audio_count + Len(s) - Capacity <= w + lost
    BY <1>4, <2>1, <2>2
  <2>. QED BY <2>1, <2>3, <2>4, <2>5 DEF w
<1>. HIDE DEF d
<1>7. audio_head' \in 0 .. Capacity - 1
      /\ Held(audio_buffer, Capacity, audio_head', audio_count - d)
           = SubSeq(Queued, d + 1, audio_count)
  BY <1>5, <1>6, AdvanceDrops
<1>. DEFINE n == audio_count - d  h == audio_head'  a == h + n
            total == n + Len(s)
<1>8. n \in Nat /\ h \in Int /\ h \in 0 .. Capacity - 1 /\ a \in Int /\ total \in Nat
      /\ total <= Capacity /\ Len(s) <= Capacity /\ audio_count' = total
  <2>. HIDE DEF at
  <2>. QED BY <1>4, <1>5, <1>6, <1>7
<1>9. at = (h + n) % Capacity /\ at \in Int
  <2>1. audio_head' + left - lost = a
    BY <1>3, <1>4, <1>6, <1>7
  <2>2. at = a % Capacity
    BY <2>1
  <2>. HIDE DEF at, a
  <2>3. at \in Int
    BY <1>6, <1>8, <2>2, Wraps
  <2>. QED BY <2>2, <2>3 DEF a
<1>10. h = (h + ((n + Len(s)) - total)) % Capacity
  <2>1. h + ((n + Len(s)) - total) = h
    <3>. HIDE DEF n, h
    <3>. QED BY <1>6, <1>8
  <2>2. h = Capacity * 0 + h
    <3>. HIDE DEF n, h
    <3>. QED BY <1>6, <1>8
  <2>. HIDE DEF h
  <2>3. h % Capacity = h
    BY <1>6, <1>8, <2>2, ModIs
  <2>. QED BY <2>1, <2>3
<1>. DEFINE put == audio_buffer'
<1>11. put = Stored(audio_buffer, Capacity, at, s)
       /\ audio_buffer \in [0 .. Capacity - 1 -> Sample]
  BY <1>5 DEF RingOK
<1>. HIDE DEF n, h, at, put
<1>12. total = n + Len(s)
  OBVIOUS
<1>. HIDE DEF total
<1>13. Held(put, Capacity, h, total) = Held(audio_buffer, Capacity, h, n) \o s
  <2>1. total <= n + Len(s)
    BY <1>6, <1>8, <1>12
  <2>. DEFINE cat == Held(audio_buffer, Capacity, h, n) \o s
              newest == SubSeq(cat, ((n + Len(s)) - total) + 1, n + Len(s))
  <2>2. newest = cat
    <3>1. SubSeq(cat, ((n + Len(s)) - (n + Len(s))) + 1, n + Len(s)) = cat
      <4>1. Capacity \in Nat \ {0} /\ audio_buffer \in [0 .. Capacity - 1 -> Sample]
            /\ h \in Int /\ n \in Nat
        BY <1>6, <1>8, <1>11
      <4>. QED BY <4>1, HeldAppend
    <3>. QED BY <1>12, <3>1
  <2>3. Stores(Capacity, audio_buffer, h, n, s, total, at, put, h, newest)
    BY <1>6, <1>8, <1>9, <1>10, <1>11, <2>1 DEF Stores
  <2>. HIDE DEF newest
  <2>. QED BY <2>2, <2>3, HeldStore
<1>14. Queued' = Held(audio_buffer, Capacity, h, n) \o s
  BY <1>8, <1>13 DEF Queued, h, put
<1>. QED BY <1>6, <1>7, <1>14 DEF h, n

LEMMA NewestIs ==
  ASSUME NEW cat \in Seq(Sample), NEW lost \in Nat,
         lost = Len(cat) - Least(Len(cat), Sustain)
  PROVE  SubSeq(cat, lost + 1, Len(cat)) = Fifo!Newest(cat, Sustain)
<1>1. Sustain \in Nat
  BY SizeAssumption
<1>2. CASE Len(cat) <= Sustain
  <2>1. lost = 0 /\ Fifo!Newest(cat, Sustain) = cat
    BY <1>1, <1>2 DEF Least, Fifo!Newest
  <2>2. SubSeq(cat, 1, Len(cat)) = cat
    BY WholeSub, Zenon
  <2>. QED BY <2>1, <2>2
<1>3. CASE ~(Len(cat) <= Sustain)
  BY <1>1, <1>3 DEF Least, Fifo!Newest
<1>. QED BY <1>2, <1>3

(* The tail keeps the newest samples the core produced, in their order.    *)
LEMMA PushIsNewest ==
  ASSUME TailOK, NEW s \in Seq(Sample), TailPush(s)
  PROVE  Recent' = Fifo!Newest(Recent \o s, Sustain)
<1>1. /\ Sustain \in Nat \ {0} /\ Len(s) \in Nat
      /\ audio_tail \in [0 .. Sustain - 1 -> Sample]
      /\ audio_tail_count \in 0 .. Sustain /\ audio_tail_count \in Nat
      /\ audio_tail_write \in 0 .. Sustain - 1 /\ audio_tail_write \in Int
  BY SizeAssumption DEF TailOK
<1>. DEFINE c == audio_tail_count  w == audio_tail_write  total == c + Len(s)
            cat == Recent \o s
<1>2. /\ Recent \in Seq(Sample) /\ Len(Recent) = c
      /\ cat \in Seq(Sample) /\ Len(cat) = total /\ total \in Nat
  BY <1>1, RecentSeq, CatFacts
<1>3. CASE Len(s) < Sustain
  <2>. DEFINE keep == Least(total, Sustain)  lost == total - keep
              a == w + Sustain - c  b == w + Len(s)  z == Sustain - keep
              start == TailStart  end == start + c  goal == start + lost
              put == audio_tail'  from == TailStart'
  <2>1. /\ keep \in Nat /\ keep <= Sustain /\ keep <= total /\ lost \in Nat
        /\ a \in Int /\ b \in Int /\ z \in Int /\ a + c = w + Sustain
        /\ a + lost = b + z
    BY <1>1, <1>2 DEF Least
  <2>2. /\ put = Stored(audio_tail, Sustain, w, s)
        /\ audio_tail_write' = b % Sustain /\ audio_tail_count' = keep
    <3>1. ~(Len(s) >= Sustain)
      BY <1>1, <1>3
    <3>. QED BY <3>1 DEF TailPush
  <2>3. start = a % Sustain /\ start \in 0 .. Sustain - 1
    BY TailStartInRing DEF TailStart
  <2>4. end % Sustain = w
    <3>1. (start + c) % Sustain = (a + c) % Sustain
      <4>. HIDE DEF a, start
      <4>1. ((a % Sustain) + c) % Sustain = (a + c) % Sustain
        <5>1. a \in Int /\ c \in Int /\ Sustain \in Nat \ {0}
          BY <1>1, <2>1
        <5>. HIDE DEF c
        <5>. QED BY <5>1, ModAdd
      <4>. QED BY <2>3, <4>1
    <3>. DEFINE y == w + Sustain
    <3>2. y \in Int /\ y = Sustain * 1 + w
      BY <1>1
    <3>. HIDE DEF y
    <3>3. y % Sustain = w
      BY <1>1, <3>2, ModIs
    <3>. QED BY <2>1, <3>1, <3>3 DEF y
  <2>5. from = goal % Sustain
    <3>1. (start + lost) % Sustain = (a + lost) % Sustain
      <4>. HIDE DEF a, start, lost
      <4>1. ((a % Sustain) + lost) % Sustain = (a + lost) % Sustain
        <5>1. a \in Int /\ lost \in Int /\ Sustain \in Nat \ {0}
          BY <1>1, <2>1
        <5>. QED BY <5>1, ModAdd
      <4>. QED BY <2>3, <4>1
    <3>2. from = ((b % Sustain) + z) % Sustain
      <4>1. b % Sustain \in Int
        <5>. HIDE DEF b
        <5>. QED BY <1>1, <2>1, Wraps
      <4>. DEFINE e == b % Sustain
      <4>2. from = (e + Sustain - keep) % Sustain
        BY <2>2 DEF TailStart
      <4>. HIDE DEF e, keep
      <4>3. e + Sustain - keep = e + z
        BY <1>1, <2>1, <4>1 DEF e
      <4>. QED BY <4>2, <4>3 DEF e
    <3>3. ((b % Sustain) + z) % Sustain = (b + z) % Sustain
      <4>. HIDE DEF b, z
      <4>. QED BY <1>1, <2>1, ModAdd
    <3>. QED BY <2>1, <3>1, <3>2, <3>3
  <2>6. end \in Int /\ goal \in Int /\ from \in Int /\ Len(s) <= Sustain
    <3>1. end \in Int /\ goal \in Int
      <4>. HIDE DEF start, lost
      <4>. QED BY <1>1, <2>1, <2>3
    <3>2. from \in Int
      <4>. HIDE DEF goal
      <4>. QED BY <1>1, <2>5, <3>1, Wraps
    <3>. QED BY <1>1, <1>3, <3>1, <3>2
  <2>7. /\ w = (start + c) % Sustain
        /\ from = (start + ((c + Len(s)) - keep)) % Sustain
        /\ keep <= c + Len(s) /\ lost = (c + Len(s)) - keep /\ total = c + Len(s)
    BY <1>1, <1>2, <2>1, <2>4, <2>5
  <2>. HIDE DEF total, keep, lost, start, end, goal, put, from
  <2>8. Held(put, Sustain, from, keep)
          = SubSeq(Held(audio_tail, Sustain, start, c) \o s, lost + 1, total)
    <3>. DEFINE newest == SubSeq(Held(audio_tail, Sustain, start, c) \o s,
                                 ((c + Len(s)) - keep) + 1, c + Len(s))
    <3>1. start \in Int /\ c \in Nat /\ w \in Int /\ keep \in Nat /\ keep <= Sustain
      BY <1>1, <2>1, <2>3
    <3>2. Stores(Sustain, audio_tail, start, c, s, keep, w, put, from, newest)
      BY <1>1, <2>2, <2>6, <2>7, <3>1 DEF Stores
    <3>. HIDE DEF newest
    <3>3. Held(put, Sustain, from, keep) = newest
      BY <3>2, HeldStore
    <3>. QED BY <2>7, <3>3 DEF newest
  <2>9. Recent' = Held(put, Sustain, from, keep)
    BY <2>2 DEF Recent, put, from
  <2>10. Recent' = SubSeq(cat, lost + 1, total)
    BY <2>8, <2>9 DEF Recent, start
  <2>11. lost = Len(cat) - Least(Len(cat), Sustain)
    BY <1>2, <2>7 DEF keep
  <2>. HIDE DEF cat
  <2>12. SubSeq(cat, lost + 1, Len(cat)) = Fifo!Newest(cat, Sustain)
    BY <1>2, <2>1, <2>11, NewestIs
  <2>. QED BY <1>2, <2>10, <2>12 DEF cat
<1>4. CASE Len(s) >= Sustain
  <2>. DEFINE e == SubSeq(s, Len(s) - Sustain + 1, Len(s))
              none == Held(audio_tail, Sustain, 0, 0)
              put == audio_tail'
  <2>1. e \in Seq(Sample) /\ Len(e) = Sustain
    BY <1>1, <1>4
  <2>2. /\ put = Stored(audio_tail, Sustain, 0, e)
        /\ audio_tail_write' = 0 /\ audio_tail_count' = Sustain
    BY <1>4 DEF TailPush
  <2>3. 0 % Sustain = 0
    BY <1>1
  <2>4. TailStart' = 0
    <3>1. TailStart' = (0 + Sustain - Sustain) % Sustain
      BY <2>2 DEF TailStart
    <3>2. 0 + Sustain - Sustain = 0
      BY <1>1
    <3>. QED BY <2>3, <3>1, <3>2
  <2>. HIDE DEF e, put
  <2>5. Held(put, Sustain, 0, Sustain) = Held(audio_tail, Sustain, 0, 0) \o e
    <3>1. 0 + ((0 + Len(e)) - Sustain) = 0 /\ 0 + 0 = 0 /\ Sustain <= 0 + Len(e)
          /\ Sustain = 0 + Len(e)
      BY <1>1, <2>1
    <3>. DEFINE cat0 == Held(audio_tail, Sustain, 0, 0) \o e
                newest == SubSeq(cat0, ((0 + Len(e)) - Sustain) + 1, 0 + Len(e))
    <3>2. newest = cat0
      <4>1. SubSeq(cat0, ((0 + Len(e)) - (0 + Len(e))) + 1, 0 + Len(e)) = cat0
        BY <1>1, <2>1, HeldAppend
      <4>. QED BY <3>1, <4>1
    <3>3. Stores(Sustain, audio_tail, 0, 0, e, Sustain, 0, put, 0, newest)
      BY <1>1, <2>1, <2>2, <2>3, <3>1 DEF Stores
    <3>. HIDE DEF newest
    <3>. QED BY <3>2, <3>3, HeldStore
  <2>6. Held(audio_tail, Sustain, 0, 0) = <<>>
    <3>1. Held(audio_tail, Sustain, 0, 0) \in Seq(Sample)
          /\ Len(Held(audio_tail, Sustain, 0, 0)) = 0
      BY <1>1, HeldIsSeq
    <3>. QED BY <3>1
  <2>7. Recent' = e
    <3>1. Recent' = Held(put, Sustain, 0, Sustain)
      BY <2>2, <2>4 DEF Recent, put
    <3>. QED BY <2>1, <2>5, <2>6, <3>1
  <2>. DEFINE lost == total - Sustain  sub == SubSeq(cat, lost + 1, total)
  <2>8. lost \in Nat /\ lost = Len(cat) - Least(Len(cat), Sustain)
    <3>1. total >= Sustain /\ Len(cat) = total
      BY <1>1, <1>2, <1>4
    <3>. HIDE DEF cat, total
    <3>2. Least(Len(cat), Sustain) = Sustain
      BY <1>1, <1>2, <3>1 DEF Least
    <3>. QED BY <1>1, <1>2, <3>1, <3>2
  <2>9. sub = e
    <3>. DEFINE n == Len(s)
    <3>1. sub \in Seq(Sample) /\ Len(sub) = Sustain
          /\ \A i \in 1 .. Sustain : sub[i] = cat[lost + i]
      <4>. HIDE DEF cat
      <4>. QED BY <1>1, <1>2, <2>8
    <3>2. \A i \in 1 .. Sustain : cat[lost + i] = s[(n - Sustain) + i]
      <4>1. ASSUME NEW i \in 1 .. Sustain PROVE cat[lost + i] = s[(n - Sustain) + i]
        <5>. DEFINE j == lost + i
        <5>1. j \in 1 .. c + n /\ ~(j <= c) /\ j - c = (n - Sustain) + i
          BY <1>1, <1>4
        <5>2. cat[j] = IF j <= Len(Recent) THEN Recent[j] ELSE s[j - Len(Recent)]
          <6>. HIDE DEF j
          <6>. QED BY <1>2, <5>1, CatFacts
        <5>. HIDE DEF j, cat
        <5>3. cat[j] = s[(n - Sustain) + i]
          BY <1>2, <5>1, <5>2
        <5>. QED BY <5>3 DEF j
      <4>. HIDE DEF cat, lost
      <4>. QED BY <4>1
    <3>3. \A i \in 1 .. Sustain : e[i] = s[(n - Sustain) + i]
      BY <1>1, <1>4 DEF e
    <3>4. \A i \in 1 .. Len(sub) : sub[i] = e[i]
      <4>. HIDE DEF sub, cat, lost, n
      <4>. QED BY <3>1, <3>2, <3>3
    <3>. HIDE DEF sub
    <3>. QED BY <2>1, <3>1, <3>4, SameSeq
  <2>. HIDE DEF cat, lost
  <2>10. SubSeq(cat, lost + 1, Len(cat)) = Fifo!Newest(cat, Sustain)
    BY <1>2, <2>8, NewestIs
  <2>. QED BY <1>2, <2>7, <2>9, <2>10 DEF cat
<1>. QED BY <1>1, <1>3, <1>4

(* What AudioFifo says of q and q' when s is put, and what it repeats of r.*)
MayPut(old, new, s) ==
  IF Len(old) + Len(s) <= Capacity THEN new = old \o s
  ELSE new \in {SubSeq(old, k, Len(old)) \o s :
                  k \in Len(old) + Len(s) - Capacity + 1 .. Len(old) + 1}

RepeatOf(r, p, n) ==
  [i \in 1 .. n |-> IF r = <<>> THEN Silence ELSE r[((p + i - 1) % Len(r)) + 1]]

(* The repeat copies the tail from its oldest sample on.                   *)
LEMMA RepeatedAgrees ==
  ASSUME TailOK, NEW n \in Nat
  PROVE  RepeatOf(Recent, audio_tail_play, n) = Repeated(n)
<1>1. RepeatOf(Recent, audio_tail_play, n)
        = [i \in 1 .. n |->
             IF Recent = <<>> THEN Silence
             ELSE Recent[((audio_tail_play + i - 1) % Len(Recent)) + 1]]
  BY DEF RepeatOf
<1>2. /\ Recent \in Seq(Sample) /\ Len(Recent) = audio_tail_count
      /\ \A i \in 1 .. audio_tail_count :
           Recent[i] = audio_tail[(TailStart + i - 1) % Sustain]
  BY RecentSeq
<1>3. audio_tail_count \in Nat /\ audio_tail_play \in Nat /\ TailStart \in Int
  BY TailStartInRing, SizeAssumption DEF TailOK
<1>4. Recent = <<>> <=> audio_tail_count = 0
  BY <1>2, <1>3
<1>5. ASSUME NEW i \in 1 .. n, audio_tail_count # 0
      PROVE  Recent[((audio_tail_play + i - 1) % audio_tail_count) + 1]
               = audio_tail[(TailStart + ((audio_tail_play + i - 1) % audio_tail_count))
                              % Sustain]
  <2>. DEFINE a == audio_tail_play + i - 1  k == a % audio_tail_count
  <2>1. a \in Int /\ audio_tail_count \in Nat \ {0}
    BY <1>3, <1>5
  <2>2. k \in 0 .. audio_tail_count - 1
    <3>. HIDE DEF a
    <3>. QED BY <2>1, Wraps
  <2>. HIDE DEF k
  <2>3. k + 1 \in 1 .. audio_tail_count /\ TailStart + (k + 1) - 1 = TailStart + k
    BY <1>3, <2>1, <2>2
  <2>4. Recent[k + 1] = audio_tail[(TailStart + k) % Sustain]
    BY <1>2, <2>3
  <2>. QED BY <2>4 DEF k
<1>6. Repeated(n)
        = [i \in 1 .. n |->
             IF audio_tail_count = 0 THEN Silence
             ELSE audio_tail[(TailStart + ((audio_tail_play + i - 1) % audio_tail_count))
                               % Sustain]]
  BY DEF Repeated
<1>. HIDE DEF Recent
<1>7. CASE audio_tail_count = 0
  BY <1>1, <1>4, <1>6, <1>7
<1>8. CASE audio_tail_count # 0
  BY <1>1, <1>2, <1>4, <1>5, <1>6, <1>8
<1>. QED BY <1>7, <1>8

LEMMA EnqueueIsPut ==
  ASSUME RingOK, NEW s \in Seq(Sample), Len(s) \in 1 .. Capacity, Enqueue(s)
  PROVE  MayPut(Queued, Queued', s)
<1>2. Queued \in Seq(Sample) /\ Len(Queued) = audio_count /\ audio_count \in Nat
      /\ Capacity \in Nat /\ Len(s) \in Nat
  BY QueuedSeq, SizeAssumption DEF RingOK
<1>3. PICK d \in 0 .. audio_count :
        /\ Queued' = SubSeq(Queued, d + 1, audio_count) \o s
        /\ audio_count + Len(s) <= Capacity => d = 0
        /\ audio_count + Len(s) - Capacity <= d
  BY EnqueueShifts
<1>. HIDE DEF Queued
<1>4. CASE audio_count + Len(s) <= Capacity
  <2>1. SubSeq(Queued, 1, Len(Queued)) = Queued
    BY <1>2, WholeSub, Zenon
  <2>2. d + 1 = 1
    BY <1>3, <1>4
  <2>3. Queued' = Queued \o s
    BY <1>2, <1>3, <2>1, <2>2
  <2>. QED BY <1>2, <1>4, <2>3 DEF MayPut
<1>5. CASE ~(audio_count + Len(s) <= Capacity)
  <2>1. d + 1 \in audio_count + Len(s) - Capacity + 1 .. audio_count + 1
    BY <1>2, <1>3
  <2>2. Queued' \in {SubSeq(Queued, k, Len(Queued)) \o s :
                k \in Len(Queued) + Len(s) - Capacity + 1 .. Len(Queued) + 1}
    BY <1>2, <1>3, <2>1
  <2>. QED BY <1>2, <1>5, <2>2 DEF MayPut
<1>. QED BY <1>4, <1>5
-----------------------------------------------------------------------------
(* Every step of the rings is a step of the queue and the tail.            *)

FifoView == <<Queued, Recent, audio_tail_play>>

LEMMA RingSame == UNCHANGED ring => Queued' = Queued
BY DEF ring, Queued

LEMMA TailSame ==
  UNCHANGED <<audio_tail, audio_tail_write, audio_tail_count>> => Recent' = Recent
BY DEF Recent, TailStart

LEMMA BothSame == UNCHANGED <<ring, tail>> => UNCHANGED FifoView
BY RingSame, TailSame DEF tail, FifoView

LEMMA FlushDrains ==
  ASSUME RingOK, Flush, UNCHANGED tail
  PROVE  Fifo!Drain \/ UNCHANGED FifoView
<1>1. Recent' = Recent /\ audio_tail_play' = audio_tail_play
  BY TailSame DEF tail
<1>2. Queued \in Seq(Sample) /\ Len(Queued) = audio_count /\ audio_count \in Nat
  BY QueuedSeq, SizeAssumption DEF RingOK
<1>3. PICK d \in 0 .. audio_count : Queued' = SubSeq(Queued, d + 1, audio_count)
  BY FlushShifts
<1>4. Fifo!Drain = \E n \in 1 .. Len(Queued) :
        /\ Queued' = SubSeq(Queued, n + 1, Len(Queued))
        /\ UNCHANGED <<Recent, audio_tail_play>>
  BY DEF Fifo!Drain, Queued, Recent, Held
<1>. HIDE DEF Queued, Recent
<1>5. CASE d = 0
  <2>1. SubSeq(Queued, 1, Len(Queued)) = Queued
    BY <1>2, WholeSub, Zenon
  <2>2. Queued' = Queued
    BY <1>2, <1>3, <1>5, <2>1
  <2>. QED BY <1>1, <2>2 DEF FifoView
<1>6. CASE d # 0
  <2>1. d \in 1 .. Len(Queued)
    BY <1>2, <1>3, <1>6
  <2>. QED BY <1>1, <1>2, <1>3, <1>4, <2>1
<1>. QED BY <1>5, <1>6

LEMMA ResetClears ==
  ASSUME RingOK, TailOK, NEW prepare \in BOOLEAN, AudioReset(prepare)
  PROVE  Fifo!Clear
<1>1. RingOK' /\ TailOK' /\ audio_count' = 0 /\ audio_tail_count' = 0 /\ audio_tail_play' = 0
  BY ResetKeepsQueue DEF AudioReset
<1>2. Queued' = <<>>
  <2>1. Queued' = [i \in 1 .. audio_count' |->
                     audio_buffer'[(audio_head' + i - 1) % Capacity]]
    BY DEF Queued, Held
  <2>. QED BY <1>1, <2>1
<1>3. Recent' = <<>>
  <2>1. Recent' = [i \in 1 .. audio_tail_count' |->
                     audio_tail'[(TailStart' + i - 1) % Sustain]]
    BY DEF Recent, Held
  <2>. QED BY <1>1, <2>1
<1>4. Fifo!Clear = (Queued' = <<>> /\ Recent' = <<>> /\ audio_tail_play' = 0)
  BY DEF Fifo!Clear, Queued, Recent, Held
<1>. QED BY <1>1, <1>2, <1>3, <1>4

LEMMA PushIsFresh ==
  ASSUME RingOK, TailOK, NEW s \in Batches, Enqueue(s), TailPush(s)
  PROVE  Fifo!Fresh
<1>1. s \in Seq(Sample) /\ Len(s) \in 1 .. Capacity
  BY SizeAssumption DEF Batches
<1>2. MayPut(Queued, Queued', s)
  BY <1>1, EnqueueIsPut
<1>3. Recent' = Fifo!Newest(Recent \o s, Sustain)
  BY <1>1, PushIsNewest
<1>4. audio_tail_play' = 0
  BY DEF TailPush, PlayAfterPush
<1>5. Fifo!Fresh = \E t \in Batches :
        /\ MayPut(Queued, Queued', t)
        /\ Recent' = Fifo!Newest(Recent \o t, Sustain) /\ audio_tail_play' = 0
  BY DEF Fifo!Fresh, Fifo!Put, Fifo!Batches, Batches, MayPut, Queued, Recent, Held
<1>. QED BY <1>2, <1>3, <1>4, <1>5

LEMMA RepeatIsRepeat ==
  ASSUME RingOK, TailOK, missing \in 0 .. Target, RepeatBlock
  PROVE  Fifo!Repeat
<1>. DEFINE n == Least(missing, Sustain)
<1>1. n \in 1 .. Sustain /\ n \in 1 .. Capacity /\ n \in Nat
  BY SizeAssumption DEF RepeatBlock, Least
<1>2. /\ Enqueue(Repeated(n))
      /\ audio_tail_play' = IF audio_tail_count = 0 THEN audio_tail_play
                            ELSE (audio_tail_play + n) % audio_tail_count
      /\ UNCHANGED <<audio_tail, audio_tail_write, audio_tail_count>>
  BY DEF RepeatBlock
<1>. HIDE DEF n
<1>3. Repeated(n) \in Seq(Sample) /\ Len(Repeated(n)) = n
  BY <1>1, RepeatIsAudio
<1>4. MayPut(Queued, Queued', Repeated(n))
  <2>. DEFINE s == Repeated(n)
  <2>1. s \in Seq(Sample) /\ Len(s) \in 1 .. Capacity /\ Enqueue(s)
    BY <1>1, <1>2, <1>3
  <2>. HIDE DEF s
  <2>2. MayPut(Queued, Queued', s)
    BY <2>1, EnqueueIsPut
  <2>. QED BY <2>2 DEF s
<1>5. MayPut(Queued, Queued', RepeatOf(Recent, audio_tail_play, n))
  BY <1>1, <1>4, RepeatedAgrees
<1>6. Recent' = Recent
  BY <1>2, TailSame
<1>7. Recent \in Seq(Sample) /\ Len(Recent) = audio_tail_count /\ audio_tail_count \in Nat
  BY RecentSeq, SizeAssumption DEF TailOK
<1>8. Fifo!Repeat = \E m \in 1 .. Sustain :
        /\ MayPut(Queued, Queued', RepeatOf(Recent, audio_tail_play, m))
        /\ audio_tail_play' = IF Recent = <<>> THEN audio_tail_play
                              ELSE (audio_tail_play + m) % Len(Recent)
        /\ UNCHANGED Recent
  BY DEF Fifo!Repeat, Fifo!Put, Fifo!Repeated, MayPut, RepeatOf, Queued, Recent, Held
<1>. HIDE DEF Recent
<1>9. audio_tail_play' = IF Recent = <<>> THEN audio_tail_play
                         ELSE (audio_tail_play + n) % Len(Recent)
  <2>1. Recent = <<>> <=> audio_tail_count = 0
    BY <1>7
  <2>2. CASE audio_tail_count = 0
    BY <1>2, <2>1, <2>2
  <2>3. CASE audio_tail_count # 0
    BY <1>2, <1>7, <2>1, <2>3
  <2>. QED BY <2>2, <2>3
<1>. QED BY <1>1, <1>5, <1>6, <1>8, <1>9

LEMMA FifoInit == Init => Fifo!Init
<1>. SUFFICES ASSUME Init PROVE Fifo!Init
  OBVIOUS
<1>1. Queued = <<>>
  BY DEF Init, Queued, Held
<1>2. Recent = <<>>
  BY DEF Init, Recent, Held
<1>. QED BY <1>1, <1>2 DEF Init, Fifo!Init, Queued, Recent, Held

LEMMA FifoNext == QueueOK /\ QueueFlags /\ [Next]_vars => [Fifo!Next]_(Fifo!vars)
<1>. SUFFICES ASSUME QueueOK, QueueFlags, [Next]_vars
              PROVE  Fifo!Next \/ UNCHANGED FifoView
  <2>1. UNCHANGED FifoView => UNCHANGED Fifo!vars
    BY DEF Fifo!vars, FifoView, Queued, Recent, Held
  <2>. QED BY <2>1
<1>. RingOK /\ TailOK /\ missing \in 0 .. Target
  BY DEF QueueOK
<1>. USE DEF Fifo!Next
<1>1. CASE BeginBatch \/ Refill \/ Underrun \/ UNCHANGED vars
  BY <1>1, BothSame DEF BeginBatch, Refill, Underrun, vars
<1>2. CASE Chunk
  BY <1>2, BothSame, PushIsFresh DEF Chunk
<1>3. CASE EndBatch
  BY <1>3, BothSame, FlushDrains DEF EndBatch
<1>4. CASE RepeatBlock
  BY <1>4, RepeatIsRepeat
<1>5. CASE EndRefill
  BY <1>5, FlushDrains DEF EndRefill
<1>6. CASE OpenMenu
  BY <1>6, ResetClears DEF OpenMenu
<1>7. CASE Resume
  BY <1>7, ResetClears DEF Resume
<1>8. CASE ChangeRate
  <2>1. (~uncapped_mode') \in BOOLEAN
    OBVIOUS
  <2>2. CASE AudioReset(~uncapped_mode')
    BY <2>1, <2>2, ResetClears
  <2>. QED BY <1>8, <2>2, BothSame DEF ChangeRate
<1>. QED BY <1>1, <1>2, <1>3, <1>4, <1>5, <1>6, <1>7, <1>8 DEF Next

(* The two rings are the queue and the tail they are meant to be, for      *)
(* rings, blocks and chunks of every size: samples reach the PCM in the    *)
(* order they came, only the oldest are given up and only for want of      *)
(* room, and a starved PCM hears the newest samples again, in order        *)
(* (audio_queue, audio_tail_push, audio_enqueue_repeat, audio_flush).      *)
THEOREM QueueIsFifo == Spec => FifoSpec
<1>1. Init => QueueOK
  BY SizeAssumption, SampleAssumption DEF Init, QueueOK, RingOK, TailOK, PcmStates
<1>2. Init => QueueFlags
  BY DEF Init, QueueFlags
<1>3. Spec => Fifo!Spec
  BY <1>1, <1>2, FifoInit, FifoNext, QueueStep, FlagsStep, PTL DEF Spec, Fifo!Spec
<1>. QED BY <1>3 DEF FifoSpec
=============================================================================
