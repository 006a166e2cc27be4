------------------------------- MODULE MCHost -------------------------------
(* The parts of a core host for TLC, side by side: a behaviour is one of   *)
(* the module that part names, the others stay as they began.              *)
EXTENDS HostLoop, PauseMenu, Pacer, LogFlush, NommuHeap, GlyphCache, JsCore

VARIABLE part   \* the module explored

(* The pacer: a clock of a few seconds of four ticks, frames shorter and   *)
(* longer than a second, one of them the default for a zero frame_ns.      *)
MCFrameNs == {0, 2, 3, 6}
MCSeconds == 0 .. 5

(* The menu: cores with no option, with one whose preferred value is beyond*)
(* the values kept or is none of them, without values, and with too many.  *)
Value(n, p) == [count |-> n, preferred |-> p]
MCDeclarations ==
  {<<>>, <<Value(0, 0), Value(3, 2), Value(2, 2)>>,
   <<Value(1, 0), Value(0, 0), Value(2, 1), Value(2, 0)>>}

(* The allocator: sizes around the header, a page and the end of a word of *)
(* four pages.                                                             *)
MCSizes == {0, 1, 6, 7, 14, 22, 29, 30, 31}

(* The glyph cache: one code point more than there are slots, and a blank. *)
MCShape == [c \in Codepoints |-> IF c = "blank" THEN "blank" ELSE "bitmap"]

(* The screen of the JS2300 core: rectangles from beyond each of its sides.*)
MCCoordinates == -2 .. 4

Parts == {"host", "menu", "pacer", "log", "heap", "glyphs", "js"}

HostsInit ==
  /\ part \in Parts
  /\ HostInit /\ MenuInit /\ PaceInit /\ LogInit /\ HeapInit
  /\ GlyphInit /\ JsInit
  /\ part # "menu"  => ~benchmark
  /\ part # "pacer" => Ns(now) = 0 /\ frame_ns = DefaultFrame

Alone(which, rest) == part = which /\ UNCHANGED <<part, rest>>

platform == <<logVars, block>>
picture  == <<glyphVars, jsVars>>

HostsNext ==
  \/ HostNext  /\ Alone("host",   <<menuVars, paceVars, platform, picture>>)
  \/ MenuNext  /\ Alone("menu",   <<hostVars, paceVars, platform, picture>>)
  \/ PaceNext  /\ Alone("pacer",  <<hostVars, menuVars, platform, picture>>)
  \/ LogNext   /\ Alone("log",    <<hostVars, menuVars, paceVars, block, picture>>)
  \/ HeapNext  /\ Alone("heap",   <<hostVars, menuVars, paceVars, logVars, picture>>)
  \/ GlyphNext /\ Alone("glyphs", <<hostVars, menuVars, paceVars, platform, jsVars>>)
  \/ JsNext    /\ Alone("js",     <<hostVars, menuVars, paceVars, platform, glyphVars>>)

HostsSpec ==
  /\ HostsInit
  /\ [][HostsNext]_<<part, hostVars, menuVars, paceVars, platform, picture>>
  /\ WF_hostVars(part = "host" /\ HostStep) /\ WF_hostVars(part = "host" /\ Second)
=============================================================================
