------------------------------- MODULE JsCore -------------------------------
(***************************************************************************)
(* The JS2300 libretro core, src/src/js2300_libretro_core.c: the runtime   *)
(* that retro_load_game() creates, the script that runs inside the first   *)
(* retro_run() and draws into the core's screen, and the frames that are   *)
(* delivered.  The calls come in the order main() of the host makes them.  *)
(*                                                                         *)
(* The script engine is external: it calls back while a script runs.       *)
(***************************************************************************)
EXTENDS Integers

CONSTANTS JS2300_CORE_WIDTH, JS2300_CORE_HEIGHT,
          Coordinates,   \* x, y, w and h of the rectangles scripts draw
          Colors

ASSUME ScreenAssumption ==
  /\ JS2300_CORE_WIDTH \in Nat \ {0} /\ JS2300_CORE_HEIGHT \in Nat \ {0}
  /\ Coordinates \subseteq Int /\ 0 \in Colors

Columns == 0 .. JS2300_CORE_WIDTH - 1
Rows    == 0 .. JS2300_CORE_HEIGHT - 1
Screens == [Columns \X Rows -> Colors]
Rect    == [x : Coordinates, y : Coordinates, w : Coordinates, h : Coordinates,
            color : Colors]

VARIABLES core,      \* "down", "ready", "loaded", "unloaded", "script" in retro_run()
          runtime,   \* a runtime exists
          started, pixels,
          drawn,     \* history: the screen a script has asked for
          scripts    \* history: how often the game's script was run, up to 2

jsVars == <<core, runtime, started, pixels, drawn, scripts>>

Blank == [cell \in Columns \X Rows |-> 0]

JsInit ==
  /\ core = "down" /\ runtime = FALSE /\ started = FALSE
  /\ pixels = Blank /\ drawn = Blank /\ scripts = 0
-----------------------------------------------------------------------------
RetroInit ==
  /\ core = "down" /\ core' = "ready"
  /\ runtime' = FALSE /\ started' = FALSE /\ pixels' = Blank
  /\ drawn' = Blank /\ scripts' = 0

(* A path without a directory, or no runtime: the game is rejected.        *)
LoadGame ==
  /\ core = "ready" /\ ~runtime
  /\ core' = "loaded" /\ runtime' = TRUE
  /\ UNCHANGED <<started, pixels, drawn, scripts>>

(* The first retro_run() starts the script, which presents pixels when it  *)
(* likes (core_video_present() calls the video callback at once); a later  *)
(* one presents what is in pixels.                                         *)
StartsScript_Again == TRUE
StartsScript == ~started

RetroRun ==
  /\ core = "loaded" /\ runtime /\ StartsScript
  /\ core' = "script" /\ started' = TRUE
  /\ scripts' = IF scripts < 2 THEN scripts + 1 ELSE scripts
  /\ UNCHANGED <<runtime, pixels, drawn>>

ScriptEnds ==
  /\ core = "script" /\ core' = "loaded"
  /\ UNCHANGED <<runtime, started, pixels, drawn, scripts>>

VideoClear ==
  /\ core = "script"
  /\ \E color \in Colors : pixels' = [cell \in Columns \X Rows |-> color]
  /\ drawn' = pixels'
  /\ UNCHANGED <<core, runtime, started, scripts>>

(* core_video_rects(): one side of a rectangle, cut at 0 and at the limit. *)
Clip_Unshifted(at, length, limit) ==
  LET from == IF at < 0 THEN 0 ELSE at
  IN [at |-> from, length |-> IF length > limit - from THEN limit - from ELSE length]
Clip(at, length, limit) ==
  LET from == IF at < 0 THEN 0 ELSE at
      left == IF at < 0 THEN length + at ELSE length
  IN [at |-> from, length |-> IF left > limit - from THEN limit - from ELSE left]

(* The cells its two loops write, wherever they lie.                       *)
Painted(rect, column, row) ==
  LET x == Clip(rect.x, rect.w, JS2300_CORE_WIDTH)
      y == Clip(rect.y, rect.h, JS2300_CORE_HEIGHT)
  IN /\ x.length > 0 /\ y.length > 0
     /\ x.at <= column /\ column < x.at + x.length
     /\ y.at <= row /\ row < y.at + y.length

Within(rect, column, row) ==
  /\ rect.x <= column /\ column < rect.x + rect.w
  /\ rect.y <= row /\ row < rect.y + rect.h

VideoRect ==
  /\ core = "script"
  /\ \E rect \in Rect :
       /\ pixels' = [cell \in Columns \X Rows |->
                       IF Painted(rect, cell[1], cell[2]) THEN rect.color ELSE pixels[cell]]
       /\ drawn' = [cell \in Columns \X Rows |->
                      IF Within(rect, cell[1], cell[2]) THEN rect.color ELSE drawn[cell]]
  /\ UNCHANGED <<core, runtime, started, scripts>>

(* retro_unload_game() and retro_deinit() destroy the runtime once.        *)
RetroUnloadGame ==
  /\ core = "loaded" /\ core' = "unloaded"
  /\ runtime' = FALSE /\ started' = FALSE
  /\ UNCHANGED <<pixels, drawn, scripts>>

RetroDeinit ==
  /\ core \in {"ready", "unloaded"} /\ core' = "down"
  /\ runtime' = FALSE /\ started' = FALSE
  /\ UNCHANGED <<pixels, drawn, scripts>>

JsNext == \/ RetroInit \/ LoadGame \/ RetroRun \/ ScriptEnds
          \/ VideoClear \/ VideoRect \/ RetroUnloadGame \/ RetroDeinit

JsSpec == JsInit /\ [][JsNext]_jsVars
-----------------------------------------------------------------------------
(* A script may draw rectangles anywhere: what they cover of the screen is *)
(* painted, nothing else, and nothing beyond pixels[].                     *)
ClippedExactly ==
  \A rect \in Rect : \A column, row \in Int :
    Painted(rect, column, row) <=>
      Within(rect, column, row) /\ column \in Columns /\ row \in Rows

(* What a script has drawn since its core was initialised is on its screen,*)
(* and the script of a game is run once, however often retro_run() is      *)
(* called: a script is never evaluated again over what it has drawn.       *)
ScreenAsDrawn == pixels = drawn /\ scripts <= 1 /\ (started => runtime)
=============================================================================
