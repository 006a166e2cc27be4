----------------------------- MODULE BrowserKeys -----------------------------
(***************************************************************************)
(* The chords of the browser, main() of src/src/browser.c: START+RIGHT     *)
(* flushes the log, START+UP writes the UI diagnostic.  main() keeps a     *)
(* word of held keys and a latch for each; while launch_selected() runs,   *)
(* choose_core() and the drain after it take events that main() never sees.*)
(*                                                                         *)
(* Key states are those of the events taken so far, in the order in which  *)
(* evdev delivers them.                                                    *)
(***************************************************************************)
EXTENDS Naturals

Chords == {"flush", "diagnostic"}
Chord  == [flush |-> {"START", "RIGHT"}, diagnostic |-> {"START", "UP"}]
ChordKeys == {"START", "RIGHT", "UP"}

VARIABLES reader,   \* who takes the events: "main" or "launch"
          down,     \* history: the keys that are down
          held, chord_latched,   \* log_flush_*, diagnostic_*
          acted,    \* history: the chords acted on, by the keys down then
          spent     \* history: the keys not let go since their chord acted, but
                    \* for releases that main() did not see

keyVars == <<reader, down, held, chord_latched, acted, spent>>

KeysInit ==
  /\ reader = "main" /\ down \in SUBSET ChordKeys
  /\ held = [c \in Chords |-> {}] /\ chord_latched = [c \in Chords |-> FALSE]
  /\ acted = [c \in Chords |-> ChordKeys] /\ spent = [c \in Chords |-> {}]
-----------------------------------------------------------------------------
(* A release of a key of the chord ends its latch.                         *)
Unlatched(c, key) == chord_latched[c] /\ key \notin Chord[c]

Acts_Again(c, key) == key \in Chord[c] /\ held[c] \union {key} = Chord[c]

(* The flush is looked at first, and leaves a press it acts on to nobody.  *)
Acts(c, key) == key \in Chord[c] /\ held[c] \union {key} = Chord[c] /\ ~chord_latched[c]
Taken(key) ==
  IF Acts("flush", key) THEN {"flush"}
  ELSE IF Acts("diagnostic", key) THEN {"diagnostic"} ELSE {}
Passed(c, key) == key \notin Chord[c] \/ (c = "diagnostic" /\ Acts("flush", key))

Press ==
  /\ reader = "main"
  /\ \E key \in ChordKeys \ down :
       /\ down' = down \union {key}
       /\ held' = [c \in Chords |-> IF Passed(c, key) THEN held[c] ELSE held[c] \union {key}]
       /\ chord_latched' = [c \in Chords |-> chord_latched[c] \/ c \in Taken(key)]
       /\ acted' = [c \in Chords |-> IF c \in Taken(key) THEN down' ELSE acted[c]]
       /\ spent' = [c \in Chords |-> IF c \in Taken(key) THEN Chord[c] ELSE spent[c]]
  /\ UNCHANGED reader

Repeat ==   \* value 2
  /\ reader = "main"
  /\ \E key \in down :
       held' = [c \in Chords |-> IF key \in Chord[c] THEN held[c] \union {key} ELSE held[c]]
  /\ UNCHANGED <<reader, down, chord_latched, acted, spent>>

LetGo ==
  /\ reader = "main"
  /\ \E key \in down :
       /\ down' = down \ {key}
       /\ held' = [c \in Chords |-> held[c] \ {key}]
       /\ chord_latched' = [c \in Chords |-> Unlatched(c, key)]
       /\ spent' = [c \in Chords |-> spent[c] \ {key}]
  /\ UNCHANGED <<reader, acted>>

(* A press of A in the library: events go to choose_core(), or wait, and   *)
(* are dropped when launch_selected() returns.                             *)
BeginLaunch ==
  /\ reader = "main" /\ reader' = "launch"
  /\ UNCHANGED <<down, held, chord_latched, acted, spent>>

Elsewhere ==
  /\ reader = "launch"
  /\ \E key \in ChordKeys : down' \in {down \union {key}, down \ {key}}
  /\ UNCHANGED <<reader, held, chord_latched, acted, spent>>

LaunchReturns ==
  /\ reader = "launch" /\ reader' = "main"
  /\ UNCHANGED <<down, held, chord_latched, acted, spent>>

(* execve(), and a new browser when the core has ended.                    *)
Relaunched ==
  /\ reader = "launch" /\ reader' = "main"
  /\ held' = [c \in Chords |-> {}] /\ chord_latched' = [c \in Chords |-> FALSE]
  /\ spent' = [c \in Chords |-> {}]
  /\ UNCHANGED <<down, acted>>

KeysNext == \/ Press \/ Repeat \/ LetGo
            \/ BeginLaunch \/ Elsewhere \/ LaunchReturns \/ Relaunched

KeysSpec == KeysInit /\ [][KeysNext]_keyVars
-----------------------------------------------------------------------------
(* A chord that has acted does not act again before main() has seen one of *)
(* its keys let go (or a new browser runs), whatever is pressed, repeated  *)
(* and let go in between, in launch_selected() too.  It is not that every  *)
(* press acts: a latch left by a launch that took the releases swallows    *)
(* the next one, and with RIGHT and UP held START only flushes.            *)
ChordActsOnce ==
  [][Press => \A key \in down' \ down : \A c \in Taken(key) : spent[c] # Chord[c]]_keyVars

(* "START+RIGHT forces the platform logger to commit a durable checkpoint",*)
(* "START+UP writes the UI source/GE/CPU diagnostic artifact" (README.md): *)
(* neither key of them does so alone.                                      *)
ChordIsHeld == \A c \in Chords : Chord[c] \subseteq acted[c]
=============================================================================
