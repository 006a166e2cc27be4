----------------------------- MODULE PacerProofs -----------------------------
(* Proofs about Pacer, for every clock resolution and every frame length.  *)
EXTENDS Pacer, TLAPS

(* Seconds weigh NsPerSec nanoseconds each.                                *)
LEMMA SecondsOrder ==
  ASSUME NEW i \in Nat, NEW j \in Nat, i > j
  PROVE  i * NsPerSec >= j * NsPerSec + NsPerSec
<1>1. PICK k \in Nat : i = j + 1 + k
  <2>1. i - j - 1 \in Nat /\ i = j + 1 + (i - j - 1)
    OBVIOUS
  <2>. QED BY <2>1
<1>2. i * NsPerSec = j * NsPerSec + NsPerSec + k * NsPerSec
  BY <1>1, NsPerSecAssumption
<1>3. k * NsPerSec \in Nat
  BY NsPerSecAssumption
<1>4. j * NsPerSec \in Nat /\ i * NsPerSec \in Nat
  BY NsPerSecAssumption
<1>. QED BY <1>2, <1>3, <1>4, NsPerSecAssumption

LEMMA NsTyped ==
  ASSUME NEW time \in Timespec
  PROVE  Ns(time) \in Nat /\ time.sec \in Nat /\ time.nsec \in Nat /\ time.nsec < NsPerSec
<1>1. time.sec \in Nat /\ time.nsec \in Nat /\ time.nsec < NsPerSec
  BY NsPerSecAssumption DEF Timespec
<1>2. time.sec * NsPerSec \in Nat
  BY <1>1, NsPerSecAssumption
<1>. QED BY <1>1, <1>2 DEF Ns

(* after() compares instants.                                              *)
LEMMA AfterCorrect ==
  ASSUME NEW left \in Timespec, NEW right \in Timespec
  PROVE  After(left, right) <=> Ns(left) > Ns(right)
<1>1. /\ left.sec \in Nat /\ left.nsec \in Nat /\ left.nsec < NsPerSec
      /\ right.sec \in Nat /\ right.nsec \in Nat /\ right.nsec < NsPerSec
  BY NsTyped
<1>2. left.sec * NsPerSec \in Nat /\ right.sec * NsPerSec \in Nat
  BY <1>1, NsPerSecAssumption
<1>3. CASE left.sec > right.sec
  <2>1. left.sec * NsPerSec >= right.sec * NsPerSec + NsPerSec
    BY <1>1, <1>3, SecondsOrder
  <2>. QED BY <1>1, <1>2, <1>3, <2>1, NsPerSecAssumption DEF After, Ns
<1>4. CASE left.sec < right.sec
  <2>1. right.sec * NsPerSec >= left.sec * NsPerSec + NsPerSec
    BY <1>1, <1>4, SecondsOrder
  <2>. QED BY <1>1, <1>2, <1>4, <2>1, NsPerSecAssumption DEF After, Ns
<1>5. CASE left.sec = right.sec
  BY <1>1, <1>2, <1>5 DEF After, Ns
<1>. QED BY <1>1, <1>3, <1>4, <1>5

(* add_ns() adds, and its one carry leaves the timespec normalised.        *)
LEMMA AddNsCorrect ==
  ASSUME NEW time \in Timespec, NEW ns \in Nat
  PROVE  AddNs(time, ns) \in Timespec /\ Ns(AddNs(time, ns)) = Ns(time) + ns
<1>. DEFINE q == ns \div NsPerSec
            r == ns % NsPerSec
<1>1. q \in Nat /\ r \in Nat /\ r < NsPerSec /\ ns = q * NsPerSec + r
  BY NsPerSecAssumption
<1>2. /\ time.sec \in Nat /\ time.nsec \in Nat /\ time.nsec < NsPerSec
      /\ time.sec * NsPerSec \in Nat /\ q * NsPerSec \in Nat
  BY <1>1, NsTyped, NsPerSecAssumption
<1>3. /\ (time.sec + q) * NsPerSec = time.sec * NsPerSec + q * NsPerSec
      /\ (time.sec + q + 1) * NsPerSec = time.sec * NsPerSec + q * NsPerSec + NsPerSec
  BY <1>1, <1>2, NsPerSecAssumption
<1>4. AddNs(time, ns) =
        IF time.nsec + r >= NsPerSec
        THEN [sec |-> time.sec + q + 1, nsec |-> time.nsec + r - NsPerSec]
        ELSE [sec |-> time.sec + q, nsec |-> time.nsec + r]
  BY <1>1, <1>2, NsPerSecAssumption DEF AddNs, Carries
<1>. HIDE DEF q, r
<1>5. CASE time.nsec + r >= NsPerSec
  BY <1>1, <1>2, <1>3, <1>4, <1>5, NsPerSecAssumption DEF Timespec, Ns
<1>6. CASE ~(time.nsec + r >= NsPerSec)
  BY <1>1, <1>2, <1>3, <1>4, <1>6, NsPerSecAssumption DEF Timespec, Ns
<1>. QED BY <1>5, <1>6

(* difference_ns() subtracts.                                              *)
LEMMA DifferenceCorrect ==
  ASSUME NEW later \in Timespec, NEW earlier \in Timespec
  PROVE  DifferenceNs(later, earlier) = Ns(later) - Ns(earlier)
<1>1. /\ later.sec \in Nat /\ later.nsec \in Nat
      /\ earlier.sec \in Nat /\ earlier.nsec \in Nat
      /\ later.sec * NsPerSec \in Nat /\ earlier.sec * NsPerSec \in Nat
  BY NsTyped, NsPerSecAssumption
<1>2. (later.sec - earlier.sec) * NsPerSec
        = later.sec * NsPerSec - earlier.sec * NsPerSec
  BY <1>1, NsPerSecAssumption
<1>. QED BY <1>1, <1>2 DEF DifferenceNs, Ns
-----------------------------------------------------------------------------
IInv == PaceTypeOK /\ NeverOutruns

LEMMA ClockTyped == Clock \subseteq Timespec
BY SecondsAssumption DEF Clock, Timespec

LEMMA FrameTyped == \A ns \in FrameNs : FrameOf(ns) \in Nat \ {0}
BY FrameNsAssumption, DefaultFrameAssumption DEF FrameOf

(* What a step works with: the next deadline, as a timespec and in ns.     *)
LEMMA NextDeadlineCorrect ==
  ASSUME PaceTypeOK
  PROVE  /\ NextDeadline \in Timespec
         /\ Ns(NextDeadline) = (IF valid THEN Ns(deadline) ELSE Ns(now)) + frame_ns
         /\ After(now, NextDeadline) <=> Ns(now) > Ns(NextDeadline)
         /\ FrameLost <=> Ns(now) - Ns(NextDeadline) >= frame_ns
<1>. DEFINE base == IF valid THEN deadline ELSE now
<1>1. base \in Timespec /\ frame_ns \in Nat /\ now \in Timespec
  BY DEF PaceTypeOK
<1>2. NextDeadline \in Timespec /\ Ns(NextDeadline) = Ns(base) + frame_ns
  BY <1>1, AddNsCorrect DEF NextDeadline
<1>3. Ns(base) = IF valid THEN Ns(deadline) ELSE Ns(now)
  OBVIOUS
<1>. QED BY <1>1, <1>2, <1>3, AfterCorrect, DifferenceCorrect DEF FrameLost

LEMMA InitInv == PaceInit => IInv
<1>. SUFFICES ASSUME PaceInit PROVE IInv
  OBVIOUS
<1>1. now \in Timespec /\ deadline = now
  BY ClockTyped DEF PaceInit
<1>2. frame_ns \in Nat \ {0}
  BY FrameTyped DEF PaceInit
<1>. QED BY <1>1, <1>2, NsTyped DEF PaceInit, IInv, PaceTypeOK, NeverOutruns, DeadlinePassed

LEMMA NextInv == IInv /\ [PaceNext]_paceVars => IInv'
<1>. SUFFICES ASSUME IInv, [PaceNext]_paceVars PROVE IInv'
  OBVIOUS
<1>. USE DEF IInv, PaceTypeOK, NeverOutruns, DeadlinePassed
<1>0. /\ Ns(now) \in Nat /\ Ns(deadline) \in Nat /\ frame_ns \in Nat /\ due \in Nat
  BY NsTyped
<1>1. CASE Elapse
  <2>1. now' \in Timespec /\ Ns(now') > Ns(now) /\ Ns(now') \in Nat
    BY <1>1, ClockTyped, AfterCorrect, NsTyped DEF Elapse
  <2>. QED BY <1>0, <1>1, <2>1 DEF Elapse, pacer
<1>2. CASE StepAndSleep
  <2>1. deadline' \in Timespec /\ now' \in Timespec
    BY <1>2, NextDeadlineCorrect, ClockTyped DEF StepAndSleep
  <2>2. Ns(deadline') <= Ns(now')
    <3>1. ~(Ns(deadline') > Ns(now'))
      BY <1>2, <2>1, AfterCorrect DEF StepAndSleep
    <3>. QED BY <2>1, <3>1, NsTyped
  <2>3. Ns(deadline') >= Ns(deadline) + frame_ns
    BY <1>0, <1>2, NextDeadlineCorrect DEF StepAndSleep
  <2>. QED BY <1>0, <1>2, <2>1, <2>2, <2>3, NsTyped DEF StepAndSleep
<1>3. CASE StepLate
  <2>1. deadline' \in Timespec /\ now' = now
    BY <1>3, NextDeadlineCorrect DEF StepLate
  <2>2. Ns(now) > Ns(NextDeadline) /\ Ns(NextDeadline) >= Ns(deadline) + frame_ns
    BY <1>0, <1>3, NextDeadlineCorrect DEF StepLate
  <2>3. Ns(deadline') <= Ns(now') /\ Ns(deadline') >= Ns(deadline) + frame_ns
    BY <1>0, <1>3, <2>1, <2>2, NsTyped, NextDeadlineCorrect DEF StepLate
  <2>. QED BY <1>0, <1>3, <2>1, <2>3, NsTyped DEF StepLate
<1>4. CASE PacerInit
  <2>1. frame_ns' \in Nat \ {0}
    BY <1>4, FrameTyped DEF PacerInit
  <2>. QED BY <1>0, <1>4, <2>1 DEF PacerInit
<1>5. CASE Invalidate
  BY <1>5 DEF Invalidate
<1>6. CASE UNCHANGED paceVars
  BY <1>6 DEF paceVars, pacer, Ns
<1>. QED BY <1>1, <1>2, <1>3, <1>4, <1>5, <1>6 DEF PaceNext

LEMMA Invariant == PaceSpec => []IInv
BY InitInv, NextInv, PTL DEF PaceSpec

(* The state stays typed: a deadline is always a normalised timespec.      *)
THEOREM TypeCorrect == PaceSpec => []PaceTypeOK
<1>1. IInv => PaceTypeOK
  BY DEF IInv
<1>. QED BY <1>1, Invariant, PTL

(* Emulation never outruns real time, whatever is missed or rebased.       *)
THEOREM Paced == PaceSpec => []NeverOutruns
<1>1. IInv => NeverOutruns
  BY DEF IInv
<1>. QED BY <1>1, Invariant, PTL
-----------------------------------------------------------------------------
(* A frame that omits its sleep leaves less than one frame to catch up.    *)
THEOREM Indebted == PaceSpec => DebtBounded
<1>. DEFINE Bounded ==
       deadline' # deadline /\ now' = now => Ns(now') < Ns(deadline') + frame_ns'
<1>1. ASSUME IInv, [PaceNext]_paceVars PROVE [Bounded]_paceVars
  <2>. SUFFICES ASSUME PaceNext, deadline' # deadline, now' = now
                PROVE  Ns(now') < Ns(deadline') + frame_ns'
    BY <1>1 DEF paceVars
  <2>1. PaceTypeOK /\ Ns(now) \in Nat /\ frame_ns \in Nat \ {0}
    BY <1>1, NsTyped DEF IInv, PaceTypeOK
  <2>2. /\ NextDeadline \in Timespec /\ Ns(NextDeadline) \in Nat
        /\ After(now, NextDeadline) <=> Ns(now) > Ns(NextDeadline)
        /\ FrameLost <=> Ns(now) - Ns(NextDeadline) >= frame_ns
    BY <2>1, NextDeadlineCorrect, NsTyped
  <2>3. CASE StepAndSleep
    BY <2>1, <2>2, <2>3 DEF StepAndSleep
  <2>4. CASE StepLate
    BY <2>1, <2>2, <2>4 DEF StepLate
  <2>5. CASE PacerInit
    <3>1. frame_ns' \in Nat \ {0}
      BY <2>5, FrameTyped DEF PacerInit
    <3>. QED BY <2>1, <2>5, <3>1 DEF PacerInit
  <2>. QED BY <2>3, <2>4, <2>5 DEF PaceNext, Elapse, Invalidate, pacer
<1>2. PaceSpec => [][Bounded]_paceVars
  BY <1>1, Invariant, PTL DEF PaceSpec
<1>. QED BY <1>2 DEF DebtBounded
-----------------------------------------------------------------------------
(* Time is written off only by whole lost frames.                          *)
THEOREM KeepsTimeline == PaceSpec => TimelineKept
<1>. DEFINE Skipped == Ns(deadline') - (Ns(deadline) + frame_ns)
            Kept == (StepAndSleep \/ StepLate) /\ valid =>
                      Skipped = 0 \/ Skipped >= frame_ns
<1>1. ASSUME IInv, [PaceNext]_paceVars PROVE [Kept]_paceVars
  <2>. SUFFICES ASSUME StepAndSleep \/ StepLate, valid
                PROVE  Skipped = 0 \/ Skipped >= frame_ns
    BY <1>1
  <2>1. /\ Ns(now) \in Nat /\ Ns(deadline) \in Nat /\ frame_ns \in Nat
        /\ Ns(NextDeadline) = Ns(deadline) + frame_ns
        /\ FrameLost <=> Ns(now) - Ns(NextDeadline) >= frame_ns
    BY <1>1, NextDeadlineCorrect, NsTyped DEF IInv, PaceTypeOK
  <2>2. CASE StepAndSleep
    BY <2>1, <2>2 DEF StepAndSleep
  <2>3. CASE StepLate
    BY <2>1, <2>3 DEF StepLate
  <2>. QED BY <2>2, <2>3
<1>2. PaceSpec => [][Kept]_paceVars
  BY <1>1, Invariant, PTL DEF PaceSpec
<1>. QED BY <1>2 DEF TimelineKept
-----------------------------------------------------------------------------
(* The timespec arithmetic implements the timeline on plain instants.      *)
LEMMA InitMaps == PaceInit => Timeline!Init
<1>. SUFFICES ASSUME PaceInit PROVE Timeline!Init
  OBVIOUS
<1>1. PaceTypeOK
  BY InitInv DEF IInv
<1>. QED BY <1>1, NsTyped DEF PaceInit, PaceTypeOK, Timeline!Init

LEMMA NextMaps ==
  IInv /\ [PaceNext]_paceVars => [Timeline!Next]_<<Ns(now), Ns(deadline), frame_ns, valid>>
<1>. SUFFICES ASSUME IInv, [PaceNext]_paceVars
              PROVE  Timeline!Next \/ UNCHANGED <<Ns(now), Ns(deadline), frame_ns, valid>>
  OBVIOUS
<1>0. PaceTypeOK /\ PaceTypeOK'
  BY NextInv DEF IInv
<1>1. /\ Ns(now) \in Nat /\ Ns(deadline) \in Nat
      /\ Ns(now') \in Nat /\ Ns(deadline') \in Nat
      /\ frame_ns \in Nat \ {0} /\ frame_ns' \in Nat \ {0}
  BY <1>0, NsTyped DEF PaceTypeOK
<1>2. /\ Ns(NextDeadline) = Timeline!Due
      /\ Ns(NextDeadline) \in Nat /\ NextDeadline \in Timespec
      /\ After(now, NextDeadline) <=> Ns(now) > Ns(NextDeadline)
      /\ FrameLost <=> Ns(now) - Ns(NextDeadline) >= frame_ns
  BY <1>0, NextDeadlineCorrect, NsTyped DEF Timeline!Due
<1>3. CASE Elapse
  <2>1. After(now', now) <=> Ns(now') > Ns(now)
    BY <1>0, AfterCorrect DEF PaceTypeOK
  <2>2. Ns(now') >= Ns(now) /\ UNCHANGED <<Ns(deadline), frame_ns, valid>>
    BY <1>1, <1>3, <2>1 DEF Elapse, pacer
  <2>3. Timeline!Elapse
    BY <1>1, <2>2 DEF Timeline!Elapse
  <2>. QED BY <2>3 DEF Timeline!Next
<1>4. CASE StepAndSleep
  <2>1. After(deadline', now') <=> Ns(deadline') > Ns(now')
    BY <1>0, AfterCorrect DEF PaceTypeOK
  <2>2. /\ Ns(now) <= Timeline!Due /\ Ns(deadline') = Timeline!Due
        /\ Ns(now') >= Timeline!Due
    BY <1>1, <1>2, <1>4, <2>1 DEF StepAndSleep
  <2>3. Timeline!InTime
    BY <1>1, <2>2 DEF Timeline!InTime
  <2>4. Timeline!Step
    BY <1>4, <2>3 DEF Timeline!Step, StepAndSleep
  <2>. QED BY <2>4 DEF Timeline!Next
<1>5. CASE StepLate
  <2>1. Timeline!Due < Ns(now) /\ now' = now
    BY <1>1, <1>2, <1>5 DEF StepLate
  <2>2. CASE FrameLost
    <3>1. Timeline!Due + frame_ns <= Ns(now) /\ deadline' = now
      BY <1>1, <1>2, <1>5, <2>2 DEF StepLate
    <3>. QED BY <1>5, <2>1, <3>1 DEF Timeline!Lost, Timeline!Step, Timeline!Next, StepLate
  <2>3. CASE ~FrameLost
    <3>1. Ns(now) < Timeline!Due + frame_ns /\ Ns(deadline') = Timeline!Due
      BY <1>1, <1>2, <1>5, <2>3 DEF StepLate
    <3>. QED BY <1>5, <2>1, <3>1 DEF Timeline!Behind, Timeline!Step, Timeline!Next, StepLate
  <2>. QED BY <2>2, <2>3
<1>6. CASE PacerInit
  BY <1>1, <1>6 DEF PacerInit, Timeline!Restart, Timeline!Next
<1>7. CASE Invalidate
  BY <1>7 DEF Invalidate, Timeline!Leave, Timeline!Next
<1>8. CASE UNCHANGED paceVars
  BY <1>8 DEF paceVars, pacer
<1>. QED BY <1>3, <1>4, <1>5, <1>6, <1>7, <1>8 DEF PaceNext

(* The pacer implements PacerTimeline: each of its steps is a step of the  *)
(* timeline on plain instants, or a stutter.                               *)
THEOREM Implements == PaceSpec => TimelineSpec
<1>1. PaceSpec => Timeline!Spec
  BY InitMaps, NextMaps, Invariant, PTL DEF PaceSpec, Timeline!Spec
<1>. QED BY <1>1 DEF TimelineSpec
=============================================================================
