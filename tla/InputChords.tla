----------------------------- MODULE InputChords -----------------------------
(***************************************************************************)
(* src/src/sf2000_input.c and its use in main.c: evdev events are decoded  *)
(* into the keys the core reads, the START+SELECT and START+RIGHT chords   *)
(* are detected and withheld, and the pause menu acts on fresh presses.    *)
(*                                                                         *)
(* The device and its evdev queue are external.  The queue is bounded:     *)
(* when it is full the kernel drops it, SYN_DROPPED is ignored by the      *)
(* reader, and only the newest event is left.                              *)
(***************************************************************************)
EXTENDS Naturals, Sequences

CONSTANT QueueMax   \* the evdev client buffer, in key events
ASSUME QueueMaxAssumption == QueueMax \in Nat \ {0}

Key        == {"START", "SELECT", "RIGHT", "B"}
PauseChord == {"START", "SELECT"}
LogChord   == {"START", "RIGHT"}
Event      == [key : Key, down : BOOLEAN]   \* down: event.value # 0, repeats too
Action     == {"PAUSE", "LOG_FLUSH"}

VARIABLES physical,   \* the keys the player holds
          evq,        \* events not read yet
          keys, pause_chord_latched, log_chord_latched,
          actions,    \* what the poll under way will return
          pc,         \* inside retro_run(), the wait for release, the menu loop
          polling,    \* sf2000_input_poll() is running
          pause_requested, previous,
          stale,      \* history: keys with no event since the device was opened
                      \* with them held, or whose last event the kernel dropped
          fresh,      \* history: B has moved since the menu opened
          consumed    \* history: keys of a recognised pause chord not released since

input  == <<keys, pause_chord_latched, log_chord_latched>>
host   == <<pc, polling, pause_requested, previous>>
vars   == <<physical, evq, input, actions, host, stale, fresh, consumed>>

(* sf2000_input_open() clears keys and does not ask the device which keys  *)
(* are held: the press that launched the core may be one of them.          *)
Init ==
  /\ physical \in SUBSET Key /\ stale = physical /\ evq = <<>>
  /\ keys = {} /\ pause_chord_latched = FALSE /\ log_chord_latched = FALSE
  /\ actions = {} /\ pc = "core" /\ polling = FALSE
  /\ pause_requested = FALSE /\ previous = {}
  /\ fresh = FALSE /\ consumed = {}
-----------------------------------------------------------------------------
(* The device, at any moment: a press, a release or an autorepeat.         *)
EventsIn(q) == {q[i].key : i \in DOMAIN q}

Device ==
  /\ \E e \in Event :
       /\ e.down \/ e.key \in physical
       /\ physical' = IF e.down THEN physical \cup {e.key} ELSE physical \ {e.key}
       /\ IF Len(evq) < QueueMax
          THEN evq' = Append(evq, e) /\ stale' = stale \ {e.key}
          ELSE evq' = <<e>> /\ stale' = (stale \cup EventsIn(evq)) \ {e.key}
  /\ UNCHANGED <<input, actions, host, fresh, consumed>>
-----------------------------------------------------------------------------
(* sf2000_input_poll(), one event at a time: the device runs meanwhile.    *)
BeginPoll ==
  /\ ~polling /\ (pc = "wait" => keys \cap PauseChord # {})
  /\ polling' = TRUE /\ actions' = {}
  /\ UNCHANGED <<physical, evq, input, pc, pause_requested, previous, stale, fresh, consumed>>

KeysAfter_NoRelease(e) == keys \cup {e.key}
KeysAfter(e) == IF e.down THEN keys \cup {e.key} ELSE keys \ {e.key}

(* A chord is recognised when its last key goes down, once.                *)
Recognised_Again(chord, latched, e) == e.down /\ chord \subseteq KeysAfter(e)
Recognised(chord, latched, e) == e.down /\ chord \subseteq KeysAfter(e) /\ ~latched

LatchAfter_KeyUp(chord, latched, e) ==
  \/ Recognised(chord, latched, e)
  \/ latched /\ (e.down \/ KeysAfter(e) \cap chord # {})
LatchAfter(chord, latched, e) ==
  \/ Recognised(chord, latched, e)
  \/ latched /\ (e.down \/ e.key \notin chord)

ReadEvent ==
  /\ polling /\ evq # <<>>
  /\ LET e == Head(evq)
         pause == Recognised(PauseChord, pause_chord_latched, e)
         log   == Recognised(LogChord, log_chord_latched, e)
     IN /\ keys' = KeysAfter(e)
        /\ pause_chord_latched' = LatchAfter(PauseChord, pause_chord_latched, e)
        /\ log_chord_latched' = LatchAfter(LogChord, log_chord_latched, e)
        /\ actions' = actions \cup (IF pause THEN {"PAUSE"} ELSE {})
                              \cup (IF log THEN {"LOG_FLUSH"} ELSE {})
        /\ fresh' = (fresh \/ (pc = "menu" /\ e.key = "B" /\ (e.down => "B" \notin keys)))
        /\ consumed' = IF pause THEN PauseChord
                       ELSE IF e.down THEN consumed ELSE consumed \ {e.key}
  /\ evq' = Tail(evq)
  /\ UNCHANGED <<physical, host, stale>>

(* The queue is empty: latches of chords with no key held are cleared and  *)
(* the actions returned; only input_poll() looks at PAUSE, and the menu    *)
(* resumes on a press it has not seen before.                              *)
PauseAsked_Anywhere == "PAUSE" \in actions
PauseAsked == pc = "core" /\ "PAUSE" \in actions

(* A direction pressed at the same poll is handled instead of B.           *)
Resumes == pc = "menu" /\ "B" \in keys \ previous /\ "RIGHT" \notin keys \ previous

EndPoll ==
  /\ polling /\ evq = <<>>
  /\ polling' = FALSE /\ actions' = {}
  /\ pause_chord_latched' = (pause_chord_latched /\ keys \cap PauseChord # {})
  /\ log_chord_latched' = (log_chord_latched /\ keys \cap LogChord # {})
  /\ pause_requested' = (pause_requested \/ PauseAsked)
  /\ pc' = IF Resumes THEN "core" ELSE pc
  /\ previous' = IF pc' = "menu" THEN keys ELSE {}
  /\ fresh' = (fresh /\ ~Resumes)
  /\ UNCHANGED <<physical, evq, keys, stale, consumed>>

(* What retro_run() is told by input_state().                              *)
input_state(k) ==
  /\ k \in keys
  /\ ~(pause_chord_latched /\ k \in PauseChord)
  /\ ~(log_chord_latched /\ k \in LogChord)
-----------------------------------------------------------------------------
(* retro_run() has returned with a pause requested: run_pause_menu() waits *)
(* for the chord to be released, or gives up when its UI cannot be set up. *)
RunPauseMenu ==
  /\ pc = "core" /\ ~polling /\ pause_requested
  /\ pause_requested' = FALSE
  /\ pc' \in {"wait", "core"}
  /\ UNCHANGED <<physical, evq, input, actions, polling, previous, stale, fresh, consumed>>

PreviousAtOpen_None == {}
PreviousAtOpen == keys

OpenMenu ==
  /\ pc = "wait" /\ ~polling /\ keys \cap PauseChord = {}
  /\ pc' = "menu" /\ previous' = PreviousAtOpen
  /\ UNCHANGED <<physical, evq, input, actions, polling, pause_requested, stale, fresh,
                 consumed>>
-----------------------------------------------------------------------------
Host == BeginPoll \/ ReadEvent \/ EndPoll \/ RunPauseMenu \/ OpenMenu

Next == Device \/ Host

Spec == Init /\ [][Next]_vars

(* The host keeps polling; nothing is assumed of the player.               *)
FairSpec == Spec /\ WF_vars(Host)
-----------------------------------------------------------------------------
TypeOK ==
  /\ physical \subseteq Key /\ keys \subseteq Key /\ previous \subseteq Key
  /\ evq \in Seq(Event) /\ Len(evq) <= QueueMax
  /\ pause_chord_latched \in BOOLEAN /\ log_chord_latched \in BOOLEAN
  /\ actions \subseteq Action
  /\ pause_requested \in BOOLEAN /\ (pause_requested => pc = "core")
  /\ pc \in {"core", "wait", "menu"} /\ polling \in BOOLEAN
  /\ stale \subseteq Key /\ fresh \in BOOLEAN /\ consumed \subseteq PauseChord

(* Between any two events a latch is set exactly while its whole chord is  *)
(* in keys, so a chord is reported once per press and is withheld no longer   *)
(* than it is held, whatever other keys do and whatever was dropped.       *)
LatchExact ==
  /\ pause_chord_latched <=> PauseChord \subseteq keys
  /\ log_chord_latched <=> LogChord \subseteq keys

(* The pause action is raised again only after one of its keys has been    *)
(* released, autorepeat and other keys notwithstanding.                    *)
PauseOncePerPress ==
  [][ReadEvent /\ Recognised(PauseChord, pause_chord_latched, Head(evq))
       => consumed # PauseChord]_vars

(* The value of a key once every queued event has been read.               *)
Settled(k) ==
  IF k \in EventsIn(evq)
  THEN \E i \in DOMAIN evq :
         /\ evq[i].key = k /\ evq[i].down
         /\ \A j \in DOMAIN evq : j > i => evq[j].key # k
  ELSE k \in keys

(* keys follow the device: only a key held when the device was opened, or  *)
(* one whose event was dropped when the evdev queue was full, can be       *)
(* wrong, and either only until its next event.                            *)
KeysFollowDevice == \A k \in Key \ stale : Settled(k) <=> k \in physical

(* The menu is left on a press of B made in the menu: a B held over from   *)
(* the game, and its autorepeat, do not resume it.                         *)
ResumeIsFresh == [][EndPoll /\ pc = "menu" /\ pc' = "core" => fresh]_vars

(* Once every key has been let go, and no release was dropped (one of a    *)
(* key held at open included), the wait for the chord ends and the menu    *)
(* opens.                                                                  *)
MenuOpens == <>[](physical = {} /\ stale = {}) => (pc = "wait" ~> pc = "menu")

(* docs/ARCHITECTURE.md: START+SELECT is "withheld from the core".  The    *)
(* core is not shown a key of a recognised chord before its release.       *)
ChordWithheld == \A k \in consumed : pc = "core" /\ ~polling => ~input_state(k)
=============================================================================
