------------------------------ MODULE AudioRate ------------------------------
(***************************************************************************)
(* The resampling rate of src/src/main.c: open_audio() picks the rate of   *)
(* the PCM, audio_update_feedback() reads the delay of its ring every few  *)
(* batches and nudges the resampler, audio_flush() does after an underrun. *)
(*                                                                         *)
(* The resampler and the PCM are external: a change of rate may be         *)
(* refused, the delay read is anything, and a chunk of n samples gives no  *)
(* more than n * rate / audio_rate, rounded down, and one.                 *)
(***************************************************************************)
EXTENDS Naturals

CONSTANTS CoreRates,     \* rates cores report
          NativeRates,   \* rates the DAC can play
          OutputRate,    \* AUDIO_OUTPUT_RATE
          StepDivisor,   \* AUDIO_RATE_STEP: 128
          Interval,      \* AUDIO_FEEDBACK_INTERVAL
          DelayLow, DelayTarget, DelayHigh, Delays,   \* AUDIO_DELAY_*, and the delays read
          Convert,       \* AUDIO_CONVERT_SAMPLES
          ConvertCapacity,  \* AUDIO_CONVERT_CAPACITY
          MaxRate        \* a bound of the model: the code has none on underruns

ASSUME RateAssumption ==
  /\ CoreRates \subseteq Nat \ {0} /\ NativeRates \subseteq Nat
  /\ OutputRate \in Nat \ {0} /\ StepDivisor \in Nat \ {0, 1}
  /\ Interval \in Nat \ {0} /\ Convert \in Nat \ {0}
  /\ Delays \subseteq Nat /\ DelayLow \in Nat /\ DelayHigh \in Nat
  /\ DelayTarget \in DelayLow .. DelayHigh
ASSUME CapacityAssumption ==
  ConvertCapacity \in Nat /\ ConvertCapacity > Convert /\ MaxRate \in Nat

VARIABLES audio_rate,            \* what the core generates
          audio_resample_rate, audio_feedback_counter, audio_delay,
          resampler_rate,        \* the rate the resampler works at
          sink                   \* the rate the PCM was opened with

rateVars == <<audio_rate, audio_resample_rate, audio_feedback_counter, audio_delay,
          resampler_rate, sink>>

audio_native_rate(rate) == IF rate \in NativeRates THEN rate ELSE OutputRate

(* open_audio(): the native rate, or else 32 kHz.                          *)
RateInit ==
  /\ audio_rate \in CoreRates
  /\ sink \in {audio_native_rate(audio_rate), OutputRate}
  /\ audio_resample_rate = sink /\ resampler_rate = sink
  /\ audio_feedback_counter = 0 /\ audio_delay = 0
-----------------------------------------------------------------------------
Step_RoundedUp(rate) == (rate + StepDivisor - 1) \div StepDivisor
Step(rate) == rate \div StepDivisor

SetRate_Unchecked(rate) ==
  audio_resample_rate' = rate /\ resampler_rate' \in {rate, resampler_rate}

(* hc15xx_resampler_set_output_rate(), which may refuse.                   *)
SetRate(rate) ==
  \/ audio_resample_rate' = rate /\ resampler_rate' = rate
  \/ UNCHANGED <<audio_resample_rate, resampler_rate>>

Capped(rate) == IF rate > audio_rate THEN audio_rate ELSE rate

Corrected_DrainOnly(delay) ==
  CASE delay >= DelayHigh -> Capped(audio_resample_rate - Step(audio_resample_rate))
    [] OTHER         -> Capped(audio_resample_rate)

(* audio_update_feedback() at a reading: between the marks it keeps the    *)
(* rate, the two comparisons with recovery and drain included.             *)
Corrected(delay) ==
  CASE delay < DelayLow   -> Capped(audio_resample_rate + Step(audio_resample_rate))
    [] delay >= DelayHigh -> Capped(audio_resample_rate - Step(audio_resample_rate))
    [] OTHER         -> Capped(audio_resample_rate)

CountBatch ==
  /\ audio_feedback_counter + 1 < Interval
  /\ audio_feedback_counter' = audio_feedback_counter + 1
  /\ UNCHANGED <<audio_rate, audio_resample_rate, audio_delay, resampler_rate, sink>>

Feedback ==
  /\ audio_feedback_counter + 1 >= Interval
  /\ audio_feedback_counter' = 0
  /\ audio_delay' \in Delays
  /\ SetRate(Corrected(audio_delay'))
  /\ UNCHANGED <<audio_rate, sink>>

DelayUnknown ==   \* the ioctl fails
  /\ audio_feedback_counter + 1 >= Interval
  /\ audio_feedback_counter' = 0
  /\ UNCHANGED <<audio_rate, audio_resample_rate, audio_delay, resampler_rate, sink>>

(* EPIPE in audio_flush().                                                 *)
RateUnderrun ==
  /\ audio_resample_rate + Step(audio_resample_rate) <= MaxRate
  /\ SetRate(audio_resample_rate + Step(audio_resample_rate))
  /\ audio_feedback_counter' = 0
  /\ UNCHANGED <<audio_rate, audio_delay, sink>>

(* pause_audio() and set_uncapped_mode() restart the resampler at the rate *)
(* reached.                                                                *)
Restart ==
  /\ audio_delay' = 0 /\ audio_feedback_counter' = 0
  /\ resampler_rate' = audio_resample_rate
  /\ UNCHANGED <<audio_rate, audio_resample_rate, sink>>

RateNext == CountBatch \/ Feedback \/ DelayUnknown \/ RateUnderrun \/ Restart

RateSpec == RateInit /\ [][RateNext]_rateVars

(* The game goes on producing batches; the delay can be read and the       *)
(* resampler set at last, when that is tried again and again.              *)
RateFairSpec ==
  /\ RateSpec
  /\ WF_rateVars(CountBatch)
  /\ SF_rateVars(Feedback /\ audio_resample_rate' = Corrected(audio_delay'))
-----------------------------------------------------------------------------
(* The rate never reaches zero, by which the resampler and audio_batch()   *)
(* divide, however often it is drained.                                    *)
RateTypeOK ==
  /\ audio_rate \in CoreRates /\ sink \in Nat \ {0}
  /\ audio_resample_rate \in Nat \ {0} /\ resampler_rate \in Nat \ {0}
  /\ audio_feedback_counter \in 0 .. Interval - 1 /\ audio_delay \in Nat

(* What audio_batch() sizes its chunks by is what the resampler works at.  *)
InStep == resampler_rate = audio_resample_rate

(* audio_batch(): the input frames of one chunk.                           *)
MaximumInput_Full == (ConvertCapacity * audio_rate) \div audio_resample_rate
MaximumInput == ((ConvertCapacity - 1) * audio_rate) \div audio_resample_rate
InputFrames ==
  LET most == IF MaximumInput = 0 THEN 1 ELSE MaximumInput IN
  IF audio_rate < audio_resample_rate /\ most < Convert THEN most ELSE Convert

(* No chunk overruns converted[], at any rate that the feedback and the    *)
(* underruns lead to, as long as a single input frame does not fill it:    *)
(* nothing in the code stops underruns in a row, without a reading of the  *)
(* delay between them, from raising the rate beyond that.                  *)
OutputFits ==
  audio_resample_rate <= (ConvertCapacity - 1) * audio_rate =>
    ((InputFrames * audio_resample_rate) \div audio_rate) + 1 <= ConvertCapacity

(* Quiet: from some moment on there is neither a pause nor an underrun.    *)
Quiet   == <>[][audio_feedback_counter' = 0 => Feedback \/ DelayUnknown]_rateVars
Starved == audio_delay < DelayLow /\ Step(audio_resample_rate) > 0

(* What the feedback makes of a ring that stays starved: a rate that was   *)
(* drained does not stay there, it climbs back to the core's own, unless   *)
(* it is so low that a step is nothing; a rate above the core's own is cut *)
(* to it, also where that is less than the PCM plays (LeadRebuilt).        *)
StarvedRecovers == Quiet /\ <>[]Starved => <>[](audio_resample_rate = audio_rate)
-----------------------------------------------------------------------------
(* README.md: the feedback is there "to rebuild drained lead with a bounded*)
(* 0.8% correction": while the ring is starved the resampler produces more *)
(* than the PCM plays.  The cap at the core's rate does not let it, for a  *)
(* core at the rate of the PCM or below.                                   *)
LeadRebuilt == Quiet /\ <>[]Starved => <>[](audio_resample_rate > sink)

(* The correction is bounded: within a step of the rate of the PCM.        *)
RateBounded == audio_resample_rate \in sink - Step(sink) .. sink + Step(sink)

(* "then returns to the exact nominal rate", once the delay stays at its   *)
(* target and nothing underruns; for cores whose rate the cap leaves alone.*)
RateReturns ==
  audio_rate >= sink /\ Quiet /\ <>[](audio_delay = DelayTarget) =>
    []<>(audio_resample_rate = sink)
=============================================================================
