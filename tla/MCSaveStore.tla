----------------------------- MODULE MCSaveStore -----------------------------
(* Two games with one stem, two contents, a poll every two frames and a    *)
(* flush at most once a tick.                                              *)
EXTENDS SaveStore, TLC

Games == Permutations(Game)
=============================================================================
