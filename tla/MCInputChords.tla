---------------------------- MODULE MCInputChords ----------------------------
(* Every order of presses, repeats and releases of four keys.              *)
EXTENDS InputChords
=============================================================================
