------------------------------- MODULE MCAudio -------------------------------
(* The two halves of the audio path for TLC, side by side: a behaviour is  *)
(* one of AudioQueue or one of AudioRate, the other half stays as it began.*)
(* A ring of six samples, a tail of two, chunks of up to three samples;    *)
(* rates of a few tens of samples, nudged by an eighth, of cores below, at *)
(* and above the rate of the DAC.                                          *)
EXTENDS AudioQueue, AudioRate

VARIABLE half   \* the module explored

MCCoreRates   == {20, 24, 32, 40}
MCNativeRates == {24, 32}
MCDelays      == {1, 2, 3, 4}

AudioInit ==
  /\ half \in {"queue", "rate"} /\ Init /\ RateInit
  /\ half = "queue" => audio_rate = 32 /\ sink = 32
  /\ half = "rate"  => pcm = "ready" /\ ~uncapped_mode

Alone(which, rest) == half = which /\ UNCHANGED <<half, rest>>

AudioNext == \/ Next /\ Alone("queue", rateVars)
             \/ RateNext /\ Alone("rate", vars)

AudioSpec ==
  /\ AudioInit /\ [][AudioNext]_<<half, vars, rateVars>>
  /\ WF_rateVars(half = "rate" /\ CountBatch)
  /\ SF_rateVars(/\ half = "rate"
                 /\ Feedback /\ audio_resample_rate' = Corrected(audio_delay'))
=============================================================================
