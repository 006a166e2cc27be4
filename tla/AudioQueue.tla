----------------------------- MODULE AudioQueue -----------------------------
(***************************************************************************)
(* The audio path of src/src/main.c from the resampler to the PCM:         *)
(* audio_batch(), audio_queue(), audio_flush(), the tail that              *)
(* audio_refill_sustain() repeats when the core is slow, and the mode      *)
(* changes of the pause menu that drop everything.                         *)
(*                                                                         *)
(* The PCM and the resampler are external: a write takes any part of what  *)
(* it is given, the PCM may underrun at any moment, a chunk gives any      *)
(* samples.  A sample is its identity: the ramps and the decay change its  *)
(* level, not its place.                                                   *)
(***************************************************************************)
EXTENDS Integers, Sequences, SequencesExt

CONSTANTS Sample, Silence,
          Capacity,    \* AUDIO_BUFFER_SAMPLES
          Sustain,     \* AUDIO_SUSTAIN_SAMPLES
          Drop,        \* AUDIO_DROP_SAMPLES
          MaxBatch,    \* AUDIO_CONVERT_CAPACITY: the most one chunk produces
          Period,      \* the 1024 samples audio_batch() writes at
          Low, Target  \* AUDIO_DELAY_LOW, AUDIO_DELAY_TARGET

ASSUME SampleAssumption == Silence \in Sample
ASSUME SizeAssumption ==
  /\ Capacity \in Nat \ {0} /\ Sustain \in Nat \ {0} /\ Drop \in Nat \ {0}
  /\ MaxBatch \in 1 .. Capacity /\ Sustain <= Capacity /\ Period \in Nat
  /\ Low \in Nat \ {0} /\ Target \in Nat /\ Low <= Target

VARIABLES audio_buffer, audio_head, audio_count,
          audio_tail, audio_tail_write, audio_tail_count, audio_tail_play,
          audio_sustaining,
          uncapped_mode, fast_forward_rate,   \* 0, 1, or 2 for 2x to 4x
          pcm,       \* "none", "setup" after DROP, "ready" after PREPARE, "xrun"
          pc,        \* the loop and retro_run(), a batch, a refill, the menu
          missing,   \* samples audio_enqueue_repeat() has still to queue
          last,      \* history: what the last queued sample was
          ramp_from  \* history: the level the last ramp at a chunk's start began at

ring == <<audio_buffer, audio_head, audio_count>>
tail == <<audio_tail, audio_tail_write, audio_tail_count, audio_tail_play>>
mode == <<uncapped_mode, fast_forward_rate>>
hist == <<last, ramp_from>>
vars == <<ring, tail, audio_sustaining, mode, pcm, pc, missing, hist>>

Least(a, b) == IF a <= b THEN a ELSE b

(* main(): open_audio(), and set_uncapped_mode() for SF2000_UNCAPPED=1 on  *)
(* the kernel command line.                                                *)
Init ==
  /\ audio_buffer = [i \in 0 .. Capacity - 1 |-> Silence]
  /\ audio_head = 0 /\ audio_count = 0
  /\ audio_tail = [i \in 0 .. Sustain - 1 |-> Silence]
  /\ audio_tail_write = 0 /\ audio_tail_count = 0 /\ audio_tail_play = 0
  /\ audio_sustaining = FALSE
  /\ uncapped_mode \in BOOLEAN /\ fast_forward_rate = 1
  /\ pcm \in {"none", IF uncapped_mode THEN "setup" ELSE "ready"}
  /\ pc = "loop" /\ missing = 0
  /\ last = "none" /\ ramp_from = "last"
-----------------------------------------------------------------------------
(* audio_flush(): what the writes took before one of them failed, and the  *)
(* state they leave the PCM in.                                            *)
Flushed ==
  CASE pcm = "ready" -> {[written |-> n, pcm |-> "ready"] : n \in 0 .. audio_count}
    [] pcm = "xrun" /\ audio_count > 0 ->
         {[written |-> 0, pcm |-> p] : p \in {"xrun", "ready"}}
    [] OTHER -> {[written |-> 0, pcm |-> pcm]}

Advance_NoWrap(n) == Least(audio_head + n, Capacity - 1)
Advance(n) == (audio_head + n) % Capacity

(* The oldest samples give way, Drop at a time, to n new ones.             *)
Blocks(n) == (n + Drop - 1) \div Drop
Discarded_Once(n, count) ==
  IF n <= Capacity - count THEN 0 ELSE Least(count, Drop)
Discarded(n, count) ==
  IF n <= Capacity - count THEN 0
  ELSE Least(count, Drop * Blocks(n - (Capacity - count)))

(* The cells of a ring from a position on, overwritten by s.               *)
Stored(cells, size, at, s) ==
  [i \in 0 .. size - 1 |->
     LET k == (i - at) % size IN IF k < Len(s) THEN s[k + 1] ELSE cells[i]]

(* audio_tail_push()                                                       *)
PlayAfterPush_Kept == audio_tail_play
PlayAfterPush == 0

TailPush(s) ==
  /\ IF Len(s) >= Sustain
     THEN /\ audio_tail' = Stored(audio_tail, Sustain, 0,
                                  SubSeq(s, Len(s) - Sustain + 1, Len(s)))
          /\ audio_tail_write' = 0 /\ audio_tail_count' = Sustain
     ELSE /\ audio_tail' = Stored(audio_tail, Sustain, audio_tail_write, s)
          /\ audio_tail_write' = (audio_tail_write + Len(s)) % Sustain
          /\ audio_tail_count' = Least(audio_tail_count + Len(s), Sustain)
  /\ audio_tail_play' = PlayAfterPush

(* audio_queue(), of at least one and at most Capacity samples.            *)
Enqueue(s) ==
  \E f \in IF Len(s) > Capacity - audio_count THEN Flushed
           ELSE {[written |-> 0, pcm |-> pcm]} :
    LET left == audio_count - f.written
        lost == Discarded(Len(s), left)
    IN /\ audio_head' = Advance(f.written + lost)
       /\ audio_count' = left - lost + Len(s)
       /\ audio_buffer' =
            Stored(audio_buffer, Capacity, (audio_head' + left - lost) % Capacity, s)
       /\ pcm' = f.pcm

Flush ==
  \E f \in Flushed :
    /\ audio_head' = Advance(f.written) /\ audio_count' = audio_count - f.written
    /\ pcm' = f.pcm
    /\ UNCHANGED audio_buffer
-----------------------------------------------------------------------------
(* audio_batch(): chunk after chunk, then a write of whole periods.        *)
Suppressed == uncapped_mode \/ fast_forward_rate > 1

BeginBatch ==
  /\ pc = "loop" /\ ~Suppressed /\ pcm # "none"
  /\ pc' = "batch"
  /\ UNCHANGED <<ring, tail, audio_sustaining, mode, pcm, missing, hist>>

Batches == UNION {[1 .. n -> Sample] : n \in 1 .. MaxBatch}

(* The resampler may give nothing for a chunk; the ramp into fresh audio   *)
(* then waits for the next one.                                            *)
Sustaining_Forgotten(produced) == FALSE
Sustaining(produced) == audio_sustaining /\ ~produced

Chunk ==
  /\ pc = "batch"
  /\ \/ audio_sustaining' = Sustaining(FALSE) /\ UNCHANGED <<ring, tail, pcm, hist>>
     \/ /\ \E s \in Batches : Enqueue(s) /\ TailPush(s)
        /\ audio_sustaining' = Sustaining(TRUE)
        /\ last' = IF last = "repeat" /\ ~audio_sustaining THEN "seam" ELSE "fresh"
        /\ ramp_from' = "last"
  /\ UNCHANGED <<mode, pc, missing>>

EndBatch ==
  /\ pc = "batch" /\ pc' = "loop"
  /\ IF audio_count >= Period THEN Flush ELSE UNCHANGED <<ring, pcm>>
  /\ UNCHANGED <<tail, audio_sustaining, mode, missing, last, ramp_from>>
-----------------------------------------------------------------------------
(* audio_refill_sustain(), after every retro_run(): nothing to do above    *)
(* Low, or without a PCM that runs; an underrun is recovered first.        *)
Refill ==
  /\ pc = "loop"
  /\ \/ pcm = "ready" /\ missing' \in Target - Low + 1 .. Target
     \/ pcm = "xrun" /\ missing' = Target
  /\ pcm' = "ready" /\ pc' = "refill"
  /\ UNCHANGED <<ring, tail, audio_sustaining, mode, hist>>

(* Where the tail begins, and the samples it repeats next.                 *)
TailStart == (audio_tail_write + Sustain - audio_tail_count) % Sustain

Repeated(n) ==
  [i \in 1 .. n |->
     IF audio_tail_count = 0 THEN Silence
     ELSE audio_tail[(TailStart + ((audio_tail_play + i - 1) % audio_tail_count)) % Sustain]]

(* The tail starts over inside the chunk, which ramps there first and      *)
(* leaves the level of that ramp in audio_last_output.                     *)
WrapsInside(n) ==
  /\ audio_tail_count > 0
  /\ \E i \in 1 .. n - 1 : (audio_tail_play + i) % audio_tail_count = 0

(* audio_enqueue_repeat(), one block of at most Sustain samples.           *)
RepeatBlock ==
  /\ pc = "refill" /\ missing > 0
  /\ LET n == Least(missing, Sustain) IN
       /\ Enqueue(Repeated(n))
       /\ audio_tail_play' = IF audio_tail_count = 0 THEN audio_tail_play
                             ELSE (audio_tail_play + n) % audio_tail_count
       /\ missing' = missing - n
       /\ ramp_from' = IF WrapsInside(n) THEN "ramp" ELSE "last"
  /\ audio_sustaining' = TRUE /\ last' = "repeat"
  /\ UNCHANGED <<audio_tail, audio_tail_write, audio_tail_count, mode, pc>>

EndRefill ==
  /\ pc = "refill" /\ missing = 0 /\ pc' = "loop"
  /\ Flush
  /\ UNCHANGED <<tail, audio_sustaining, mode, missing, last, ramp_from>>
-----------------------------------------------------------------------------
(* pause_audio() and set_uncapped_mode(): the queue and the tail go.       *)
AudioReset(prepare) ==
  /\ audio_head' = 0 /\ audio_count' = 0
  /\ audio_tail_write' = 0 /\ audio_tail_count' = 0 /\ audio_tail_play' = 0
  /\ audio_sustaining' = FALSE
  /\ pcm' \in IF pcm = "none" THEN {"none"}
              ELSE IF prepare THEN {"setup", "ready"} ELSE {"setup"}
  /\ last' = "none" /\ ramp_from' = "last"
  /\ UNCHANGED <<audio_buffer, audio_tail>>

OpenMenu ==
  /\ pc = "loop" /\ pc' = "menu"
  /\ AudioReset(FALSE)
  /\ UNCHANGED <<mode, missing>>

(* change_pause_value() turns the rate up or down.                         *)
ChangeRate ==
  /\ pc = "menu"
  /\ fast_forward_rate' \in {0, 1, 2}
  /\ fast_forward_rate' # fast_forward_rate \/ fast_forward_rate = 2
  /\ uncapped_mode' = (fast_forward_rate' = 0)
  /\ IF uncapped_mode' = uncapped_mode
     THEN UNCHANGED <<ring, tail, audio_sustaining, pcm, hist>>
     ELSE AudioReset(~uncapped_mode')
  /\ UNCHANGED <<pc, missing>>

Resume ==
  /\ pc = "menu" /\ pc' = "loop"
  /\ AudioReset(TRUE)
  /\ UNCHANGED <<mode, missing>>

Underrun ==
  /\ pcm = "ready" /\ pcm' = "xrun"
  /\ UNCHANGED <<ring, tail, audio_sustaining, mode, pc, missing, hist>>
-----------------------------------------------------------------------------
Next == \/ BeginBatch \/ Chunk \/ EndBatch \/ Refill \/ RepeatBlock \/ EndRefill
        \/ OpenMenu \/ ChangeRate \/ Resume \/ Underrun

Spec == Init /\ [][Next]_vars
-----------------------------------------------------------------------------
(* The repeat never has an empty piece to copy: its position is inside the *)
(* tail, or the loop of audio_enqueue_repeat() would not end.              *)
TypeOK ==
  /\ audio_buffer \in [0 .. Capacity - 1 -> Sample]
  /\ audio_head \in 0 .. Capacity - 1 /\ audio_count \in 0 .. Capacity
  /\ audio_tail \in [0 .. Sustain - 1 -> Sample]
  /\ audio_tail_write \in 0 .. Sustain - 1 /\ audio_tail_count \in 0 .. Sustain
  /\ audio_tail_play \in 0 .. Sustain - 1
  /\ audio_tail_play = 0 \/ audio_tail_play < audio_tail_count
  /\ audio_sustaining \in BOOLEAN /\ uncapped_mode \in BOOLEAN
  /\ fast_forward_rate \in {0, 1, 2}
  /\ pcm \in {"none", "setup", "ready", "xrun"}
  /\ pc \in {"loop", "batch", "refill", "menu"} /\ missing \in 0 .. Target
  /\ last \in {"none", "fresh", "repeat", "seam"} /\ ramp_from \in {"last", "ramp"}

(* Fresh audio after a repeat is always ramped into, however many empty    *)
(* chunks the resampler gives in between.                                  *)
SeamsRamped == last # "seam" /\ (last = "repeat" => audio_sustaining)

(* The rings implement the queue and the tail of AudioFifo.                *)
Fifo == INSTANCE AudioFifo WITH
  q      <- [i \in 1 .. audio_count |-> audio_buffer[(audio_head + i - 1) % Capacity]],
  recent <- [i \in 1 .. audio_tail_count |-> audio_tail[(TailStart + i - 1) % Sustain]],
  play   <- audio_tail_play
FifoSpec == Fifo!Spec

(* The comment of audio_declick_into(): a ramp at the start of the buffer  *)
(* leaves from "the last enqueued sample".                                 *)
RampFromLast == ramp_from = "last"

(* README.md: unlimited mode "suppresses audio": nothing is queued.        *)
UncappedIsQuiet == uncapped_mode => audio_count = 0
=============================================================================
