----------------------------- MODULE GlyphCache -----------------------------
(***************************************************************************)
(* The glyph cache of a font, src/src/sf2000_browser_ui.c: font_glyph()    *)
(* looks a code point up, and rasterises it into the slot that was used    *)
(* least recently when it is not there.                                    *)
(*                                                                         *)
(* What the rasteriser makes of a code point is external: a bitmap, none   *)
(* for a blank, or a box larger than GLYPH_MAX_DIM.                        *)
(***************************************************************************)
EXTENDS Integers, FiniteSets

CONSTANTS GLYPH_CACHE,   \* 192 slots
          Codepoints, Shape,   \* Shape[c] is "bitmap", "blank" or "large"
          AgeSpan        \* 2^32, where an age wraps

ASSUME GlyphAssumption ==
  /\ GLYPH_CACHE \in Nat \ {0} /\ AgeSpan \in Nat \ {0}
  /\ IsFiniteSet(Codepoints)
  /\ Shape \in [Codepoints -> {"bitmap", "blank", "large"}]

NoBitmap == "none"
Slots == 1 .. GLYPH_CACHE

VARIABLES font,     \* whether it is open
          glyphs, age,
          bitmaps,  \* how many bitmaps are allocated
          wanted,   \* history: when each code point was last asked for, 0 for never
          wrapped   \* history: age has wrapped

glyphVars == <<font, glyphs, age, bitmaps, wanted, wrapped>>

EmptySlot == [valid |-> FALSE, codepoint |-> NoBitmap, bitmap |-> NoBitmap, age |-> 0]

GlyphInit ==
  /\ font = TRUE /\ glyphs = [i \in Slots |-> EmptySlot] /\ age = 0
  /\ bitmaps = 0 /\ wanted = [c \in Codepoints |-> 0] /\ wrapped = FALSE
-----------------------------------------------------------------------------
(* The scan ends at a hit or at the first slot that is not valid.          *)
Hit(i, c)  == glyphs[i].valid /\ glyphs[i].codepoint = c
Scanned(c) == {i \in Slots : \A j \in 1 .. i - 1 : glyphs[j].valid /\ ~Hit(j, c)}

(* oldest: the free slot the scan ended at, or the first of least age.     *)
Oldest_Last(c) ==
  CHOOSE i \in Scanned(c) : \A j \in Scanned(c) : glyphs[j].age <= glyphs[i].age
Oldest(c) ==
  IF \E i \in Scanned(c) : ~glyphs[i].valid
  THEN CHOOSE i \in Scanned(c) : ~glyphs[i].valid
  ELSE CHOOSE i \in Scanned(c) : \A j \in Scanned(c) :
         glyphs[i].age < glyphs[j].age \/ (glyphs[i].age = glyphs[j].age /\ i <= j)

NextAge == (age + 1) % AgeSpan

(* The history of a request for c, kept until the age wraps.               *)
Asked(c) ==
  /\ age' = NextAge /\ wrapped' = (wrapped \/ NextAge = 0)
  /\ wanted' = IF wrapped' THEN [d \in Codepoints |-> 0] ELSE [wanted EXCEPT ![c] = NextAge]

Cached(c) ==
  /\ font
  /\ \E i \in Scanned(c) : Hit(i, c) /\ glyphs' = [glyphs EXCEPT ![i].age = NextAge]
  /\ Asked(c)
  /\ UNCHANGED <<font, bitmaps>>

(* glyph_release() of the slot, and calloc(), which may fail.              *)
Rendered == {i \in Slots : glyphs[i].bitmap # NoBitmap}

FreedBitmaps(i) == IF i \in Rendered THEN 1 ELSE 0

Rasterised(c) ==
  /\ font /\ \A i \in Scanned(c) : ~Hit(i, c)
  /\ \E bitmap \in {NoBitmap} \union (IF Shape[c] = "bitmap" THEN {c} ELSE {}) :
       /\ glyphs' = [glyphs EXCEPT ![Oldest(c)] =
                       [valid |-> TRUE, codepoint |-> c, bitmap |-> bitmap, age |-> NextAge]]
       /\ bitmaps' = (bitmaps - FreedBitmaps(Oldest(c))) + (IF bitmap # NoBitmap THEN 1 ELSE 0)
  /\ Asked(c)
  /\ UNCHANGED font

(* font_close(): sf2000_ui_close() sets the pointer to NULL.               *)
FontClose ==
  /\ font /\ font' = FALSE
  /\ bitmaps' = bitmaps - Cardinality(Rendered)
  /\ glyphs' = [i \in Slots |-> EmptySlot] /\ age' = 0
  /\ wanted' = [c \in Codepoints |-> 0] /\ wrapped' = FALSE

FontOpen ==   \* sf2000_ui_init() of the next program
  /\ ~font /\ font' = TRUE
  /\ UNCHANGED <<glyphs, age, bitmaps, wanted, wrapped>>

GlyphNext == (\E c \in Codepoints : Cached(c) \/ Rasterised(c)) \/ FontClose \/ FontOpen

GlyphSpec == GlyphInit /\ [][GlyphNext]_glyphVars
-----------------------------------------------------------------------------
Valid == {i \in Slots : glyphs[i].valid}

(* A code point has at most one slot, found by a scan from the first one;  *)
(* what is drawn for it is its own bitmap; no bitmap is lost or freed      *)
(* twice.                                                                  *)
SlotsOwned ==
  /\ \A i, j \in Valid : glyphs[i].codepoint = glyphs[j].codepoint => i = j
  /\ \A i \in Valid : 1 .. i \subseteq Valid
  /\ \A i \in Slots : glyphs[i].bitmap \in {NoBitmap, glyphs[i].codepoint}
  /\ bitmaps = Cardinality(Rendered)

(* The text on the screen stays cached: what was asked for last is there,  *)
(* as many as there are slots, until the age of the font wraps.            *)
Later(c) == {d \in Codepoints : wanted[d] > wanted[c]}

LeastRecentGoes ==
  ~wrapped =>
    {glyphs[i].codepoint : i \in Valid} =
      {c \in Codepoints : wanted[c] > 0 /\ Cardinality(Later(c)) < GLYPH_CACHE}

GlyphsSound == SlotsOwned /\ LeastRecentGoes
=============================================================================
