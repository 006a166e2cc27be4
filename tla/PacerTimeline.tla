---------------------------- MODULE PacerTimeline ----------------------------
(***************************************************************************)
(* What docs/ARCHITECTURE.md promises of the pacer, on plain instants: an  *)
(* absolute timeline of deadlines one frame apart.  A frame that ends      *)
(* before its deadline is slept out, a sub-frame miss keeps the timeline   *)
(* and omits the sleep, a whole lost frame moves the timeline to now.      *)
(***************************************************************************)
EXTENDS Integers

VARIABLES t,       \* the monotonic clock, in nanoseconds
          d,       \* the deadline of the last frame paced
          frame,   \* the length of a frame
          on       \* the timeline is being followed

Init == t \in Nat /\ d = t /\ frame \in Nat \ {0} /\ on = TRUE

(* The core runs: time passes.                                             *)
Elapse == t' \in Nat /\ t' >= t /\ UNCHANGED <<d, frame, on>>

Due == (IF on THEN d ELSE t) + frame

InTime == t <= Due /\ d' = Due /\ t' \in Nat /\ t' >= Due
Behind == Due < t /\ t < Due + frame /\ d' = Due /\ t' = t
Lost   == Due + frame <= t /\ d' = t /\ t' = t

Step == (InTime \/ Behind \/ Lost) /\ on' = TRUE /\ UNCHANGED frame

Restart == d' = t /\ frame' \in Nat \ {0} /\ on' = TRUE /\ UNCHANGED t

Leave == on' = FALSE /\ UNCHANGED <<t, d, frame>>

Next == Elapse \/ Step \/ Restart \/ Leave

Spec == Init /\ [][Next]_<<t, d, frame, on>>
=============================================================================
