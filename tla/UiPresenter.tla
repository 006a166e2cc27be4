----------------------------- MODULE UiPresenter -----------------------------
(***************************************************************************)
(* How the browser and the JS2300 runner bring their picture to the screen:*)
(* write_frame() of src/src/browser.c and runner_video_present() of        *)
(* src/src/js2300_runner.c copy it to one GE surface, blit and wait, and   *)
(* fall back to a CPU write; and the browser's capture_ui_diagnostic().    *)
(*                                                                         *)
(* The engine is external.  It takes a blit when it likes, after the wait  *)
(* has given up included, and reads the surface as it finds it then; a     *)
(* closed context may drop what is outstanding or not.                     *)
(***************************************************************************)
EXTENDS Naturals

CONSTANT MaxPicture   \* bound: pictures drawn

VARIABLES
  program,       \* "browser" or "runner"
  ge,            \* the GE is open
  picture,       \* what was last drawn into ui_pixels
  source,        \* what is in ge_source
  outstanding,   \* blits queued and not yet done
  screen,        \* the picture shown, and who brought it there
  at,            \* where the call stands
  written,       \* what the last write_frame() returned
  diagnostic,    \* where capture_ui_diagnostic() stands, and had it the GE
  readback, artifact,   \* its two images, and the file it wrote
  stale          \* history: a blit was done after its wait had given up

hardware == <<source, outstanding, screen>>
capture  == <<diagnostic, readback, artifact>>
uiVars   == <<program, ge, picture, hardware, at, written, capture, stale>>

Nothing == [picture |-> 0, by |-> "nobody"]
Freed   == MaxPicture + 1
NoImages == [ge |-> Nothing, cpu |-> Nothing]

UiInit ==
  /\ program \in {"browser", "runner"} /\ ge \in BOOLEAN
  /\ picture = 0 /\ source = 0 /\ outstanding = 0 /\ screen = Nothing
  /\ at = "idle" /\ written = TRUE
  /\ diagnostic = [step |-> "none", have_ge |-> FALSE]
  /\ readback = NoImages /\ artifact = NoImages /\ stale = FALSE
-----------------------------------------------------------------------------
(* The picture is drawn, and presented.                                    *)
Draw ==
  /\ at = "idle" /\ picture < MaxPicture
  /\ picture' = picture + 1 /\ at' = "present"
  /\ UNCHANGED <<program, ge, hardware, written, capture, stale>>

(* The copy to ge_source, the cache clean and hcge_blit().                 *)
Blit ==
  /\ at = "present" /\ ge
  /\ source' = picture /\ outstanding' = outstanding + 1 /\ at' = "sync"
  /\ UNCHANGED <<program, ge, picture, screen, written, capture, stale>>

(* hcge_engine_sync() succeeds when nothing is outstanding.                *)
Returns(value) == at' = "returned" /\ written' = value

Synced ==
  /\ at = "sync" /\ outstanding = 0 /\ Returns(TRUE) /\ stale' = FALSE
  /\ UNCHANGED <<program, ge, picture, hardware, capture>>

(* close_ge_presenter(): the surface is freed with what is outstanding.    *)
Closed ==
  /\ ge' = FALSE /\ source' = Freed /\ outstanding' \in {0, outstanding}
  /\ UNCHANGED screen

(* The clean, the blit or the wait fails.  The browser closes the GE, the  *)
(* runner keeps it and its surface.                                        *)
AfterFailure_NoWrite == Returns(TRUE)
AfterFailure == at' = "cpu" /\ UNCHANGED written

PresentFails ==
  /\ ge /\ at \in {"present", "sync"}
  /\ IF program = "browser" THEN Closed
     ELSE /\ source' = (IF at = "present" THEN picture ELSE source)
          /\ UNCHANGED <<ge, outstanding, screen>>
  /\ AfterFailure
  /\ UNCHANGED <<program, picture, capture, stale>>

WithoutGE ==
  /\ at = "present" /\ ~ge /\ at' = "cpu"
  /\ UNCHANGED <<program, ge, picture, hardware, written, capture, stale>>

(* write_cpu_frame().                                                      *)
WriteCpu ==
  /\ at = "cpu"
  /\ \/ Returns(TRUE) /\ screen' = [picture |-> picture, by |-> "CPU"] /\ stale' = FALSE
     \/ Returns(FALSE) /\ UNCHANGED <<screen, stale>>
  /\ UNCHANGED <<program, ge, picture, source, outstanding, capture>>

PresentReturns ==
  /\ at = "returned" /\ diagnostic.step = "none" /\ at' = "idle"
  /\ UNCHANGED <<program, ge, picture, hardware, written, capture, stale>>

(* Before execve(), which may fail, the browser closes the GE for good.    *)
CloseAndLaunch ==
  /\ at = "idle" /\ program = "browser" /\ ge /\ Closed
  /\ UNCHANGED <<program, picture, at, written, capture, stale>>
-----------------------------------------------------------------------------
(* capture_ui_diagnostic(): a fresh frame, read back; a CPU write, read    *)
(* back; and, if there was a GE, one more frame.                           *)
Step(step) == diagnostic' = [diagnostic EXCEPT !.step = step]

BeginCapture ==
  /\ at = "idle" /\ program = "browser" /\ at' = "present"
  /\ diagnostic' = [step |-> "ge", have_ge |-> ge] /\ readback' = NoImages
  /\ UNCHANGED <<program, ge, picture, hardware, written, artifact, stale>>

Read(image) == readback' = [readback EXCEPT ![image] = screen]

CaptureGE ==
  /\ at = "returned" /\ diagnostic.step = "ge" /\ written
  /\ Read("ge") /\ at' = "cpu" /\ Step("cpu")
  /\ UNCHANGED <<program, ge, picture, hardware, written, artifact, stale>>

(* Restoring is for the GE that was there when it began.                   *)
Restores_Never == FALSE
Restores == diagnostic.have_ge

Restore ==
  /\ Step("restore") /\ at' = (IF Restores THEN "present" ELSE "returned")
  /\ UNCHANGED <<program, ge, picture, hardware, artifact, stale>>

CaptureCPU ==
  /\ at = "returned" /\ diagnostic.step = "cpu" /\ written
  /\ Read("cpu") /\ Restore /\ UNCHANGED written

CaptureFails ==   \* a write, or a readback
  /\ at = "returned" /\ diagnostic.step \in {"ge", "cpu"}
  /\ Restore /\ UNCHANGED <<written, readback>>

(* The file is written if both images were read.                           *)
Complete == readback.ge # Nothing /\ readback.cpu # Nothing

EndCapture ==
  /\ at = "returned" /\ diagnostic.step = "restore" /\ at' = "idle"
  /\ diagnostic' = [step |-> "none", have_ge |-> FALSE]
  /\ artifact' \in (IF Complete THEN {artifact, readback} ELSE {artifact})
  /\ UNCHANGED <<program, ge, picture, hardware, written, readback, stale>>
-----------------------------------------------------------------------------
Engine ==
  /\ outstanding > 0 /\ outstanding' = outstanding - 1
  /\ screen' = [picture |-> source, by |-> "GE"]
  /\ stale' = (stale \/ at # "sync")
  /\ UNCHANGED <<program, ge, picture, source, at, written, capture>>

UiNext ==
  \/ Draw \/ Blit \/ Synced \/ PresentFails \/ WithoutGE \/ WriteCpu \/ PresentReturns
  \/ CloseAndLaunch \/ BeginCapture \/ CaptureGE \/ CaptureCPU \/ CaptureFails \/ EndCapture
  \/ Engine

UiSpec == UiInit /\ [][UiNext]_uiVars
-----------------------------------------------------------------------------
(* A picture that was reported written is the one on the screen, whichever *)
(* of the GE and the CPU failed, unless a blit came after its wait had     *)
(* given up; and as long as the browser has its GE, it is the GE's work:   *)
(* "the diagnostic must leave the normal GE presenter on screen".          *)
ScreenCurrent ==
  at \in {"returned", "idle"} /\ written /\ ~stale =>
    /\ screen.picture = picture
    /\ at = "idle" /\ program = "browser" /\ ge /\ screen # Nothing => screen.by = "GE"

(* "START+UP writes the UI source/GE/CPU diagnostic artifact" (README.md), *)
(* whose CPU publication "isolates the GE transfer": the image it calls    *)
(* the GE's was brought to the screen by the GE.                           *)
DiagnosticIsolatesGE == artifact # NoImages => artifact.ge.by = "GE"
=============================================================================
