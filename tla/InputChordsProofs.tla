-------------------------- MODULE InputChordsProofs --------------------------
(* Proofs about InputChords, for every size of the evdev queue.            *)
EXTENDS InputChords, TLAPS

USE DEF vars, input, host

IInv == TypeOK /\ LatchExact /\ consumed \subseteq keys /\ KeysFollowDevice

LEMMA HeadTail ==
  ASSUME NEW q \in Seq(Event), q # <<>>
  PROVE  /\ Head(q) \in Event /\ Head(q) = q[1] /\ Tail(q) \in Seq(Event)
         /\ Len(q) \in Nat \ {0} /\ Len(Tail(q)) = Len(q) - 1
         /\ DOMAIN q = 1 .. Len(q) /\ DOMAIN Tail(q) = 1 .. Len(q) - 1
         /\ \A i \in 1 .. Len(q) - 1 : Tail(q)[i] = q[i + 1]
OBVIOUS

LEMMA InitInv == Init => IInv
<1>. SUFFICES ASSUME Init PROVE IInv
  OBVIOUS
<1>1. evq = <<>> /\ evq \in Seq(Event) /\ Len(evq) = 0 /\ DOMAIN evq = {}
  BY DEF Init
<1>2. TypeOK
  <2>1. Len(evq) <= QueueMax
    BY <1>1, QueueMaxAssumption
  <2>2. /\ physical \subseteq Key /\ keys \subseteq Key /\ previous \subseteq Key
        /\ actions \subseteq Action /\ stale \subseteq Key /\ consumed \subseteq PauseChord
    BY DEF Init
  <2>. QED BY <1>1, <2>1, <2>2 DEF Init, TypeOK
<1>3. LatchExact
  BY DEF Init, LatchExact, PauseChord, LogChord
<1>4. KeysFollowDevice
  <2>1. \A k \in Key \ stale : k \notin physical /\ k \notin keys
    BY DEF Init
  <2>. QED BY <1>1, <2>1 DEF KeysFollowDevice, Settled, EventsIn
<1>. QED BY <1>2, <1>3, <1>4 DEF Init, IInv

(* A latch follows its chord through one event.                            *)
LEMMA LatchStep ==
  ASSUME NEW chord \in SUBSET Key, NEW e \in Event, NEW latched \in BOOLEAN,
         keys \subseteq Key, latched <=> chord \subseteq keys, chord # {}
  PROVE  /\ LatchAfter(chord, latched, e) \in BOOLEAN
         /\ LatchAfter(chord, latched, e) <=> chord \subseteq KeysAfter(e)
BY DEF LatchAfter, Recognised, KeysAfter, Event

LEMMA ReadTyped ==
  ASSUME IInv, ReadEvent
  PROVE  TypeOK' /\ LatchExact' /\ (consumed \subseteq keys)'
<1>. DEFINE e == Head(evq)
<1>1. /\ e \in Event /\ Tail(evq) \in Seq(Event) /\ Len(Tail(evq)) <= QueueMax
      /\ keys \subseteq Key
  BY HeadTail, QueueMaxAssumption DEF IInv, TypeOK, ReadEvent
<1>2. /\ PauseChord \in SUBSET Key /\ LogChord \in SUBSET Key
      /\ PauseChord # {} /\ LogChord # {}
  BY DEF PauseChord, LogChord, Key
<1>3. /\ pause_chord_latched' = LatchAfter(PauseChord, pause_chord_latched, e)
      /\ log_chord_latched' = LatchAfter(LogChord, log_chord_latched, e)
      /\ keys' = KeysAfter(e)
  BY DEF ReadEvent
<1>4. LatchExact' /\ pause_chord_latched' \in BOOLEAN /\ log_chord_latched' \in BOOLEAN
  BY <1>1, <1>2, <1>3, LatchStep DEF IInv, TypeOK, LatchExact
<1>5. keys' \subseteq Key
  BY <1>1, <1>3 DEF KeysAfter, Event
<1>6. actions' \subseteq Action
  BY DEF ReadEvent, IInv, TypeOK, Action
<1>7. consumed' \subseteq PauseChord /\ consumed' \subseteq keys'
  <2>1. CASE Recognised(PauseChord, pause_chord_latched, e)
    BY <1>3, <2>1 DEF ReadEvent, Recognised
  <2>2. CASE ~Recognised(PauseChord, pause_chord_latched, e)
    <3>1. consumed' = IF e.down THEN consumed ELSE consumed \ {e.key}
      BY <2>2 DEF ReadEvent
    <3>. QED BY <1>3, <3>1 DEF IInv, TypeOK, KeysAfter
  <2>. QED BY <2>1, <2>2
<1>8. fresh' \in BOOLEAN
  BY DEF ReadEvent, IInv, TypeOK
<1>. QED BY <1>1, <1>4, <1>5, <1>6, <1>7, <1>8 DEF IInv, TypeOK, ReadEvent

(* Reading the oldest event settles every key as it was.                   *)
LEMMA ReadSettled ==
  ASSUME IInv, ReadEvent, NEW k \in Key
  PROVE  Settled(k)' <=> Settled(k)
<1>. DEFINE e == Head(evq)
<1>1. evq \in Seq(Event) /\ evq # <<>> /\ evq' = Tail(evq) /\ keys' = KeysAfter(e)
  BY DEF IInv, TypeOK, ReadEvent
<1>2. /\ e = evq[1] /\ e \in Event /\ Len(evq) \in Nat \ {0}
      /\ DOMAIN evq = 1 .. Len(evq) /\ DOMAIN evq' = 1 .. Len(evq) - 1
      /\ \A i \in 1 .. Len(evq) - 1 : evq'[i] = evq[i + 1]
  BY <1>1, HeadTail
<1>3. \A i \in 2 .. Len(evq) : i - 1 \in 1 .. Len(evq) - 1 /\ evq'[i - 1] = evq[i]
  BY <1>2
<1>4. CASE \E i \in 2 .. Len(evq) : evq[i].key = k
  <2>0. PICK m \in 2 .. Len(evq) : evq[m].key = k
    BY <1>4
  <2>1. k \in EventsIn(evq) /\ k \in EventsIn(evq)'
    <3>1. m \in DOMAIN evq /\ m - 1 \in DOMAIN evq' /\ evq'[m - 1].key = k
      BY <1>2, <1>3, <2>0
    <3>. QED BY <2>0, <3>1 DEF EventsIn
  <2>2. ASSUME Settled(k) PROVE Settled(k)'
    <3>1. PICK i \in DOMAIN evq : /\ evq[i].key = k /\ evq[i].down
                                  /\ \A j \in DOMAIN evq : j > i => evq[j].key # k
      BY <2>1, <2>2 DEF Settled
    <3>2. i \in 2 .. Len(evq)
      BY <1>2, <1>4, <3>1
    <3>3. i - 1 \in DOMAIN evq' /\ evq'[i - 1].key = k /\ evq'[i - 1].down
      BY <1>2, <1>3, <3>1, <3>2
    <3>4. \A j \in DOMAIN evq' : j > i - 1 => evq'[j].key # k
      <4>. SUFFICES ASSUME NEW j \in DOMAIN evq', j > i - 1 PROVE evq'[j].key # k
        OBVIOUS
      <4>1. j + 1 \in DOMAIN evq /\ j + 1 > i /\ evq'[j] = evq[j + 1]
        BY <1>2, <3>2
      <4>. QED BY <3>1, <4>1
    <3>. QED BY <2>1, <3>3, <3>4 DEF Settled
  <2>3. ASSUME Settled(k)' PROVE Settled(k)
    <3>1. PICK i \in DOMAIN evq' : /\ evq'[i].key = k /\ evq'[i].down
                                   /\ \A j \in DOMAIN evq' : j > i => evq'[j].key # k
      BY <2>1, <2>3 DEF Settled
    <3>2. i + 1 \in DOMAIN evq /\ evq[i + 1].key = k /\ evq[i + 1].down
      BY <1>2, <3>1
    <3>3. \A j \in DOMAIN evq : j > i + 1 => evq[j].key # k
      <4>. SUFFICES ASSUME NEW j \in DOMAIN evq, j > i + 1 PROVE evq[j].key # k
        OBVIOUS
      <4>1. j \in 2 .. Len(evq) /\ j - 1 > i
        BY <1>2, <3>1
      <4>2. j - 1 \in DOMAIN evq' /\ evq'[j - 1] = evq[j]
        BY <1>2, <1>3, <4>1
      <4>. QED BY <3>1, <4>1, <4>2
    <3>. QED BY <2>1, <3>2, <3>3 DEF Settled
  <2>. QED BY <2>2, <2>3
<1>5. CASE \A i \in 2 .. Len(evq) : evq[i].key # k
  <2>1. k \notin EventsIn(evq)'
    BY <1>2, <1>5 DEF EventsIn
  <2>2. Settled(k)' <=> k \in KeysAfter(e)
    BY <1>1, <2>1 DEF Settled
  <2>3. CASE e.key = k
    <3>1. Settled(k) <=> e.down
      BY <1>2, <1>5, <2>3 DEF Settled, EventsIn
    <3>. QED BY <2>2, <2>3, <3>1 DEF KeysAfter
  <2>4. CASE e.key # k
    <3>1. k \notin EventsIn(evq)
      BY <1>2, <1>5, <2>4 DEF EventsIn
    <3>. QED BY <2>2, <2>4, <3>1 DEF KeysAfter, Settled
  <2>. QED BY <2>3, <2>4
<1>. QED BY <1>4, <1>5

(* An event of the device settles its own key, or leaves the others stale. *)
LEMMA DeviceSettled ==
  ASSUME IInv, Device
  PROVE  KeysFollowDevice'
<1>1. PICK e \in Event :
        /\ physical' = IF e.down THEN physical \cup {e.key} ELSE physical \ {e.key}
        /\ IF Len(evq) < QueueMax
           THEN evq' = Append(evq, e) /\ stale' = stale \ {e.key}
           ELSE evq' = <<e>> /\ stale' = (stale \cup EventsIn(evq)) \ {e.key}
  BY DEF Device
<1>2. evq \in Seq(Event) /\ keys' = keys /\ physical \subseteq Key
  BY DEF IInv, TypeOK, Device
<1>3. SUFFICES ASSUME NEW k \in Key, k \notin stale'
               PROVE  Settled(k)' <=> k \in physical'
  BY DEF KeysFollowDevice
<1>4. CASE Len(evq) < QueueMax
  <2>1. /\ evq' = Append(evq, e) /\ Len(evq) \in Nat
        /\ DOMAIN evq = 1 .. Len(evq) /\ DOMAIN evq' = 1 .. Len(evq) + 1
        /\ \A i \in 1 .. Len(evq) : evq'[i] = evq[i]
        /\ evq'[Len(evq) + 1] = e
    BY <1>1, <1>2, <1>4
  <2>2. CASE e.key = k
    <3>1. k \in EventsIn(evq)'
      BY <2>1, <2>2 DEF EventsIn
    <3>2. Settled(k)' => e.down
      <4>. SUFFICES ASSUME Settled(k)' PROVE e.down
        OBVIOUS
      <4>1. PICK i \in DOMAIN evq' : /\ evq'[i].key = k /\ evq'[i].down
                                     /\ \A j \in DOMAIN evq' : j > i => evq'[j].key # k
        BY <3>1 DEF Settled
      <4>2. i = Len(evq) + 1
        BY <2>1, <2>2, <4>1
      <4>. QED BY <2>1, <4>1, <4>2
    <3>3. e.down => Settled(k)'
      BY <2>1, <2>2, <3>1 DEF Settled
    <3>. QED BY <1>1, <2>2, <3>2, <3>3
  <2>3. CASE e.key # k
    <3>1. k \in EventsIn(evq)' <=> k \in EventsIn(evq)
      <4>1. ASSUME k \in EventsIn(evq) PROVE k \in EventsIn(evq)'
        <5>1. PICK i \in 1 .. Len(evq) : evq[i].key = k
          BY <2>1, <4>1 DEF EventsIn
        <5>2. i \in DOMAIN evq' /\ evq'[i].key = k
          BY <2>1, <5>1
        <5>. QED BY <5>2 DEF EventsIn
      <4>2. ASSUME k \in EventsIn(evq)' PROVE k \in EventsIn(evq)
        <5>1. PICK i \in 1 .. Len(evq) + 1 : evq'[i].key = k
          BY <2>1, <4>2 DEF EventsIn
        <5>2. i \in DOMAIN evq /\ evq[i].key = k
          BY <2>1, <2>3, <5>1
        <5>. QED BY <5>2 DEF EventsIn
      <4>. QED BY <4>1, <4>2
    <3>2. Settled(k)' <=> Settled(k)
      <4>1. CASE k \notin EventsIn(evq)
        BY <1>2, <3>1, <4>1 DEF Settled
      <4>2. CASE k \in EventsIn(evq)
        <5>1. ASSUME Settled(k) PROVE Settled(k)'
          <6>1. PICK i \in DOMAIN evq : /\ evq[i].key = k /\ evq[i].down
                                        /\ \A j \in DOMAIN evq : j > i => evq[j].key # k
            BY <4>2, <5>1 DEF Settled
          <6>2. /\ i \in DOMAIN evq' /\ evq'[i].key = k /\ evq'[i].down
                /\ \A j \in DOMAIN evq' : j > i => evq'[j].key # k
            BY <2>1, <2>3, <6>1
          <6>. QED BY <3>1, <4>2, <6>2 DEF Settled
        <5>2. ASSUME Settled(k)' PROVE Settled(k)
          <6>1. PICK i \in DOMAIN evq' : /\ evq'[i].key = k /\ evq'[i].down
                                         /\ \A j \in DOMAIN evq' : j > i => evq'[j].key # k
            BY <3>1, <4>2, <5>2 DEF Settled
          <6>2. /\ i \in DOMAIN evq /\ evq[i].key = k /\ evq[i].down
                /\ \A j \in DOMAIN evq : j > i => evq[j].key # k
            BY <2>1, <2>3, <6>1
          <6>. QED BY <4>2, <6>2 DEF Settled
        <5>. QED BY <5>1, <5>2
      <4>. QED BY <4>1, <4>2
    <3>3. k \notin stale
      BY <1>1, <1>3, <1>4, <2>3
    <3>. QED BY <1>1, <2>3, <3>2, <3>3 DEF IInv, KeysFollowDevice
  <2>. QED BY <2>2, <2>3
<1>5. CASE ~(Len(evq) < QueueMax)
  <2>1. evq' = <<e>> /\ DOMAIN evq' = {1} /\ evq'[1] = e
    BY <1>1, <1>5
  <2>2. EventsIn(evq)' = {e.key}
    BY <2>1 DEF EventsIn
  <2>3. CASE e.key = k
    BY <1>1, <2>1, <2>2, <2>3 DEF Settled
  <2>4. CASE e.key # k
    <3>1. k \notin stale /\ k \notin EventsIn(evq)
      BY <1>1, <1>3, <1>5, <2>4
    <3>. QED BY <1>1, <1>2, <2>2, <2>4, <3>1 DEF Settled, IInv, KeysFollowDevice
  <2>. QED BY <2>3, <2>4
<1>. QED BY <1>4, <1>5

LEMMA NextInv == IInv /\ [Next]_vars => IInv'
<1>. SUFFICES ASSUME IInv, [Next]_vars PROVE IInv'
  OBVIOUS
<1>1. CASE Device
  <2>1. PICK e \in Event :
          /\ physical' = IF e.down THEN physical \cup {e.key} ELSE physical \ {e.key}
          /\ IF Len(evq) < QueueMax
             THEN evq' = Append(evq, e) /\ stale' = stale \ {e.key}
             ELSE evq' = <<e>> /\ stale' = (stale \cup EventsIn(evq)) \ {e.key}
    BY <1>1 DEF Device
  <2>2. e.key \in Key /\ evq \in Seq(Event)
    BY DEF Event, IInv, TypeOK
  <2>3. evq' \in Seq(Event) /\ Len(evq') <= QueueMax
    <3>1. CASE Len(evq) < QueueMax
      <4>1. Append(evq, e) \in Seq(Event) /\ Len(Append(evq, e)) = Len(evq) + 1
            /\ Len(evq) \in Nat
        BY <2>2
      <4>. QED BY <2>1, <3>1, <4>1, QueueMaxAssumption
    <3>2. CASE ~(Len(evq) < QueueMax)
      <4>1. <<e>> \in Seq(Event) /\ Len(<<e>>) = 1
        OBVIOUS
      <4>2. evq' = <<e>>
        BY <2>1, <3>2
      <4>3. 1 <= QueueMax
        BY QueueMaxAssumption
      <4>. QED BY <4>1, <4>2, <4>3, Zenon
    <3>. QED BY <3>1, <3>2
  <2>4. EventsIn(evq) \subseteq Key
    <3>1. \A i \in DOMAIN evq : evq[i] \in Event
      BY <2>2
    <3>. QED BY <3>1 DEF EventsIn, Event
  <2>5. TypeOK'
    BY <1>1, <2>1, <2>2, <2>3, <2>4 DEF IInv, TypeOK, Device
  <2>6. LatchExact' /\ (consumed \subseteq keys)'
    BY <1>1 DEF IInv, LatchExact, Device
  <2>. QED BY <1>1, <2>5, <2>6, DeviceSettled DEF IInv
<1>2. CASE ReadEvent
  <2>1. KeysFollowDevice'
    BY <1>2, ReadSettled DEF IInv, KeysFollowDevice, ReadEvent
  <2>. QED BY <1>2, <2>1, ReadTyped DEF IInv
<1>3. CASE BeginPoll
  BY <1>3 DEF BeginPoll, IInv, TypeOK, LatchExact, KeysFollowDevice, Settled, Action
<1>4. CASE EndPoll
  <2>1. UNCHANGED <<physical, evq, keys, stale, consumed>>
    BY <1>4 DEF EndPoll
  <2>2. LatchExact'
    BY <1>4 DEF EndPoll, IInv, TypeOK, LatchExact, PauseChord, LogChord
  <2>3. KeysFollowDevice'
    BY <2>1 DEF IInv, KeysFollowDevice, Settled, EventsIn
  <2>4. pause_chord_latched' \in BOOLEAN /\ log_chord_latched' \in BOOLEAN /\ fresh' \in BOOLEAN
    BY <1>4 DEF EndPoll, IInv, TypeOK
  <2>5. pc' \in {"core", "wait", "menu"} /\ previous' \subseteq Key
    BY <1>4, <2>1 DEF EndPoll, IInv, TypeOK
  <2>6. pause_requested' \in BOOLEAN /\ (pause_requested' => pc' = "core")
    <3>1. pause_requested' \in BOOLEAN
      BY <1>4 DEF EndPoll, IInv, TypeOK
    <3>2. pause_requested' => pc = "core"
      BY <1>4 DEF EndPoll, IInv, TypeOK, PauseAsked
    <3>3. pc = "core" => pc' = "core"
      BY <1>4 DEF EndPoll
    <3>. QED BY <3>1, <3>2, <3>3
  <2>7. TypeOK'
    BY <1>4, <2>1, <2>4, <2>5, <2>6 DEF EndPoll, IInv, TypeOK, Action
  <2>. QED BY <2>1, <2>2, <2>3, <2>7 DEF IInv
<1>5. CASE RunPauseMenu
  BY <1>5 DEF RunPauseMenu, IInv, TypeOK, LatchExact, KeysFollowDevice, Settled
<1>6. CASE OpenMenu
  BY <1>6 DEF OpenMenu, PreviousAtOpen, IInv, TypeOK, LatchExact, KeysFollowDevice, Settled
<1>7. CASE UNCHANGED vars
  BY <1>7 DEF IInv, TypeOK, LatchExact, KeysFollowDevice, Settled
<1>. QED BY <1>1, <1>2, <1>3, <1>4, <1>5, <1>6, <1>7 DEF Next, Host

LEMMA Invariant == Spec => []IInv
BY InitInv, NextInv, PTL DEF Spec

(* Every state of the input layer and of its user is typed.                *)
THEOREM TypeCorrect == Spec => []TypeOK
<1>1. IInv => TypeOK
  BY DEF IInv
<1>. QED BY <1>1, Invariant, PTL

(* A latch is set exactly while its chord is held.                         *)
THEOREM LatchesExact == Spec => []LatchExact
<1>1. IInv => LatchExact
  BY DEF IInv
<1>. QED BY <1>1, Invariant, PTL

(* No key is wrong once the queue is read, unless it was held when the     *)
(* device was opened, or its event dropped, and has had no event since.    *)
THEOREM KeysAreRight == Spec => []KeysFollowDevice
<1>1. IInv => KeysFollowDevice
  BY DEF IInv
<1>. QED BY <1>1, Invariant, PTL

(* The pause action is raised once per press of the chord.                 *)
THEOREM PausesOnce == Spec => PauseOncePerPress
<1>. DEFINE Once == ReadEvent /\ Recognised(PauseChord, pause_chord_latched, Head(evq))
                      => consumed # PauseChord
<1>1. IInv => Once
  <2>. SUFFICES ASSUME IInv, Recognised(PauseChord, pause_chord_latched, Head(evq)),
                       consumed = PauseChord
                PROVE  FALSE
    OBVIOUS
  <2>. QED BY DEF IInv, LatchExact, Recognised
<1>2. Spec => [][Once]_vars
  BY <1>1, Invariant, PTL
<1>. QED BY <1>2 DEF PauseOncePerPress
-----------------------------------------------------------------------------
(* Until B moves in the menu, it is down only if it was when last looked   *)
(* at.                                                                     *)
HeldOver ==
  /\ fresh => pc = "menu"
  /\ pc = "menu" /\ ~fresh /\ "B" \in keys => "B" \in previous

LEMMA HeldOverStep == IInv /\ HeldOver /\ [Next]_vars => HeldOver'
<1>. SUFFICES ASSUME IInv, HeldOver, [Next]_vars PROVE HeldOver'
  OBVIOUS
<1>1. CASE ReadEvent
  <2>. DEFINE e == Head(evq)
  <2>1. /\ keys' = KeysAfter(e) /\ UNCHANGED host
        /\ fresh' = (fresh \/ (pc = "menu" /\ e.key = "B" /\ (e.down => "B" \notin keys)))
    BY <1>1 DEF ReadEvent
  <2>. HIDE DEF e
  <2>2. "B" \in keys' => "B" \in keys \/ (e.key = "B" /\ "B" \notin keys)
    BY <2>1 DEF KeysAfter
  <2>3. pc' = pc /\ previous' = previous
    BY <2>1
  <2>4. fresh' => pc' = "menu"
    BY <2>1, <2>3 DEF HeldOver
  <2>5. ASSUME pc' = "menu", ~fresh', "B" \in keys' PROVE "B" \in previous'
    <3>1. ~fresh /\ "B" \in keys
      BY <2>1, <2>2, <2>3, <2>5
    <3>. QED BY <2>3, <2>5, <3>1 DEF HeldOver
  <2>. QED BY <2>4, <2>5 DEF HeldOver
<1>2. CASE EndPoll
  <2>1. /\ pc' = (IF Resumes THEN "core" ELSE pc) /\ fresh' = (fresh /\ ~Resumes)
        /\ previous' = (IF pc' = "menu" THEN keys ELSE {}) /\ keys' = keys
    BY <1>2 DEF EndPoll
  <2>2. fresh' => pc' = "menu"
    BY <2>1 DEF HeldOver
  <2>3. pc' = "menu" => previous' = keys'
    BY <2>1
  <2>. QED BY <2>2, <2>3 DEF HeldOver
<1>3. CASE OpenMenu
  BY <1>3 DEF OpenMenu, PreviousAtOpen, HeldOver
<1>4. CASE Device \/ BeginPoll
  BY <1>4 DEF Device, BeginPoll, HeldOver
<1>5. CASE RunPauseMenu
  BY <1>5 DEF RunPauseMenu, HeldOver
<1>6. CASE UNCHANGED vars
  BY <1>6 DEF HeldOver
<1>. QED BY <1>1, <1>2, <1>3, <1>4, <1>5, <1>6 DEF Next, Host

(* The menu resumes on a press of B made in the menu, never on one held    *)
(* over from the game or on its autorepeat (run_pause_menu).               *)
THEOREM ResumesOnFreshPress == Spec => ResumeIsFresh
<1>. DEFINE Step == EndPoll /\ pc = "menu" /\ pc' = "core" => fresh
<1>1. Init => HeldOver
  BY DEF Init, HeldOver
<1>2. HeldOver => Step
  BY DEF HeldOver, EndPoll, Resumes
<1>3. Spec => []HeldOver
  BY <1>1, HeldOverStep, Invariant, PTL DEF Spec
<1>4. Spec => [][Step]_vars
  BY <1>2, <1>3, PTL
<1>. QED BY <1>4 DEF ResumeIsFresh
=============================================================================
