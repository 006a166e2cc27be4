----------------------------- MODULE MCAudioRate -----------------------------
(* Rates of a few tens of samples, nudged by an eighth; cores below, at    *)
(* and above the rate of the DAC.                                          *)
EXTENDS AudioRate

MCCoreRates   == {20, 24, 32, 40}
MCNativeRates == {24, 32}
MCDelays      == {1, 2, 3, 4}
=============================================================================
