------------------------------ MODULE AudioFifo ------------------------------
(***************************************************************************)
(* What the audio queue of the host promises: samples go to the PCM in the *)
(* order they came in, only the oldest are given up, and only for want of  *)
(* room; a starved PCM is fed the most recent samples of the core, in      *)
(* order, again and again.                                                 *)
(***************************************************************************)
EXTENDS Naturals, Sequences, SequencesExt

CONSTANTS Sample, Silence, Capacity, Sustain, MaxBatch

VARIABLES q,        \* waiting for the PCM
          recent,   \* the last samples the core produced, Sustain at most
          play      \* how many of them the repeat under way has played

vars == <<q, recent, play>>

Init == q = <<>> /\ recent = <<>> /\ play = 0

Batches == UNION {[1 .. n -> Sample] : n \in 1 .. MaxBatch}

Newest(s, n) == IF Len(s) <= n THEN s ELSE SubSeq(s, Len(s) - n + 1, Len(s))

(* Samples ahead of s were written or given up.                            *)
Put(s) ==
  IF Len(q) + Len(s) <= Capacity THEN q' = q \o s
  ELSE q' \in {SubSeq(q, k, Len(q)) \o s :
                 k \in Len(q) + Len(s) - Capacity + 1 .. Len(q) + 1}

Fresh == \E s \in Batches :
  /\ Put(s) /\ recent' = Newest(recent \o s, Sustain) /\ play' = 0

Repeated(n) ==
  [i \in 1 .. n |->
     IF recent = <<>> THEN Silence ELSE recent[((play + i - 1) % Len(recent)) + 1]]

Repeat == \E n \in 1 .. Sustain :
  /\ Put(Repeated(n))
  /\ play' = IF recent = <<>> THEN play ELSE (play + n) % Len(recent)
  /\ UNCHANGED recent

Drain == \E n \in 1 .. Len(q) :
  /\ q' = SubSeq(q, n + 1, Len(q)) /\ UNCHANGED <<recent, play>>

Clear == q' = <<>> /\ recent' = <<>> /\ play' = 0

Next == Fresh \/ Repeat \/ Drain \/ Clear

Spec == Init /\ [][Next]_vars
=============================================================================
