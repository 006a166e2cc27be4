-------------------------------- MODULE Pacer --------------------------------
(***************************************************************************)
(* src/src/sf2000_pacer.c in the loop of main(): after each retro_run()    *)
(* the host reads the monotonic clock, steps the pacer and sleeps until    *)
(* the absolute deadline the step returned.  Times are struct timespec;    *)
(* the metrics the step also counts (late frames, resets, the largest      *)
(* lateness) steer nothing and are left out.                               *)
(***************************************************************************)
EXTENDS Integers

CONSTANTS NsPerSec,       \* 1000000000
          DefaultFrame,   \* 16666667, used for a frame_ns that is not positive
          FrameNs,        \* the frame lengths main() computes
          Seconds         \* bound: the seconds of the clock

ASSUME NsPerSecAssumption == NsPerSec \in Nat \ {0}
ASSUME DefaultFrameAssumption == DefaultFrame \in Nat \ {0}
ASSUME FrameNsAssumption == FrameNs \subseteq Int
ASSUME SecondsAssumption == Seconds \subseteq Nat

Timespec == [sec : Nat, nsec : 0 .. NsPerSec - 1]
Clock    == [sec : Seconds, nsec : 0 .. NsPerSec - 1]

VARIABLES deadline, frame_ns, valid,
          now,   \* CLOCK_MONOTONIC
          due    \* history: the start, plus the length of every frame paced

pacer == <<deadline, frame_ns, valid>>
paceVars  == <<pacer, now, due>>

(* The nanoseconds since boot that a struct timespec stands for.           *)
Ns(time) == time.sec * NsPerSec + time.nsec

(* add_ns(): nanoseconds is positive, so one carry is enough.              *)
Carries_Late(nsec) == nsec > NsPerSec
Carries(nsec) == nsec >= NsPerSec

AddNs(time, ns) ==
  LET sec  == time.sec + (ns \div NsPerSec)
      nsec == time.nsec + (ns % NsPerSec)
  IN IF Carries(nsec) THEN [sec |-> sec + 1, nsec |-> nsec - NsPerSec]
                      ELSE [sec |-> sec, nsec |-> nsec]

(* after() and difference_ns(), whose later never precedes earlier.        *)
After_NsecOnly(left, right) == left.nsec > right.nsec
After(left, right) ==
  left.sec > right.sec \/ (left.sec = right.sec /\ left.nsec > right.nsec)

DifferenceNs(later, earlier) ==
  LET seconds == (later.sec - earlier.sec) * NsPerSec IN
  IF later.nsec >= earlier.nsec THEN seconds + (later.nsec - earlier.nsec)
                                ELSE seconds - (earlier.nsec - later.nsec)

(* sf2000_pacer_init()                                                     *)
FrameOf(ns) == IF ns > 0 THEN ns ELSE DefaultFrame

PaceInit ==
  /\ now \in Clock /\ deadline = now
  /\ \E ns \in FrameNs : frame_ns = FrameOf(ns)
  /\ valid = TRUE
  /\ due = Ns(now)

(* retro_run(), or an uncapped frame, takes its time.                      *)
Elapse ==
  /\ now' \in Clock /\ After(now', now)
  /\ UNCHANGED <<pacer, due>>

(* The deadline of the frame that has just run.                            *)
NextDeadline == AddNs(IF valid THEN deadline ELSE now, frame_ns)

(* sf2000_pacer_step() asks for a sleep; clock_nanosleep() returns at the  *)
(* deadline or later.                                                      *)
StepAndSleep ==
  /\ ~After(now, NextDeadline)
  /\ deadline' = NextDeadline
  /\ now' \in Clock /\ ~After(deadline', now')
  /\ valid' = TRUE /\ due' = due + frame_ns
  /\ UNCHANGED frame_ns

(* sf2000_pacer_step() finds the frame late.                               *)
FrameLost_Never == FALSE
FrameLost_AnyMiss == TRUE
FrameLost == DifferenceNs(now, NextDeadline) >= frame_ns

StepLate ==
  /\ After(now, NextDeadline)
  /\ deadline' = IF FrameLost THEN now ELSE NextDeadline
  /\ valid' = TRUE /\ due' = due + frame_ns
  /\ UNCHANGED <<frame_ns, now>>

(* run_pause_menu() starts a new timeline with the fast-forward rate.      *)
PacerInit ==
  /\ \E ns \in FrameNs : frame_ns' = FrameOf(ns)
  /\ deadline' = now /\ valid' = TRUE
  /\ UNCHANGED <<now, due>>

(* sf2000_pacer_invalidate(), after every uncapped frame.                  *)
Invalidate ==
  /\ valid' = FALSE
  /\ UNCHANGED <<deadline, frame_ns, now, due>>

PaceNext == Elapse \/ StepAndSleep \/ StepLate \/ PacerInit \/ Invalidate

PaceSpec == PaceInit /\ [][PaceNext]_paceVars
-----------------------------------------------------------------------------
(* A deadline stays a normalised timespec, which clock_nanosleep() needs.  *)
PaceTypeOK ==
  /\ deadline \in Timespec /\ now \in Timespec
  /\ frame_ns \in Nat \ {0} /\ valid \in BOOLEAN /\ due \in Nat

(* The host is never ahead of its own timeline between two frames.         *)
DeadlinePassed == Ns(deadline) <= Ns(now)

(* Emulation never outruns real time: the frames paced since the start,    *)
(* over every miss, rebase, uncapped stretch and change of the frame       *)
(* length, add up to no more time than has passed ("replaying stale        *)
(* emulation would overfill audio", docs/ARCHITECTURE.md).                 *)
NeverOutruns == due <= Ns(deadline) /\ DeadlinePassed

(* A frame that omits its sleep leaves less than one frame to catch up.    *)
DebtBounded ==
  [][deadline' # deadline /\ now' = now => Ns(now') < Ns(deadline') + frame_ns']_paceVars

(* Time is written off only by whole lost frames: a step on a valid        *)
(* timeline keeps it, or moves it by at least one frame.                   *)
TimelineKept ==
  [][(StepAndSleep \/ StepLate) /\ valid =>
       LET skipped == Ns(deadline') - (Ns(deadline) + frame_ns) IN
       skipped = 0 \/ skipped >= frame_ns]_paceVars

(* The timespec arithmetic implements the timeline on plain instants.      *)
Timeline == INSTANCE PacerTimeline WITH t <- Ns(now), d <- Ns(deadline),
                                        frame <- frame_ns, on <- valid
TimelineSpec == Timeline!Spec
=============================================================================
