---------------------------- MODULE GePresenter ----------------------------
(***************************************************************************)
(* The frame presenter of src/src/main.c: a ring of GE-managed source      *)
(* surfaces, the graphics engine (GE) that consumes queued commands        *)
(* asynchronously, and the host that fills surfaces, submits commands,     *)
(* fences, resets a wedged engine and finally falls back to the CPU.       *)
(*                                                                         *)
(* The host is one thread: pc is where it stands inside video(),           *)
(* write_pause_frame() or between them.  The engine is external; it is     *)
(* modelled from how main.c uses it: commands complete in order, at any    *)
(* moment, hcge_engine_sync() returns 0 only once the queue has drained    *)
(* and may fail while work is outstanding, hcge_reset() empties the queue. *)
(* A pixel surface is abstracted to the number of the frame it holds.      *)
(***************************************************************************)
EXTENDS Naturals, Sequences

CONSTANTS NBuf,       \* GE_SOURCE_BUFFERS
          MaxFrames   \* bound: frames drawn by the core and the menu

ASSUME NBufAssumption == NBuf \in Nat \ {0}
ASSUME MaxFramesAssumption == MaxFrames \in Nat \ {0}

Surface == 0 .. NBuf - 1      \* indices of host.ge_source[]
Core    == NBuf               \* memory the core owns: callback surface, live VRAM
Strip   == NBuf + 1           \* the FPS strips, in the tail of the source slab
Panel   == NBuf + 2           \* host.fb, the only scanout buffer
Hud     == NBuf + 3           \* the corner of the panel the strips are blitted to
None    == NBuf + 4

Memory == Surface \cup {Core, Strip}   \* the text of the strips is 0 or 1
Frame  == 0 .. MaxFrames
Garbage == MaxFrames + 1      \* what released memory may hold
Pixels == Frame \cup {Garbage}
Format == {"RGB16", "BGR555"}
Node   == [src : Memory, dst : Surface \cup {Panel, Hud}, frame : Pixels,
           format : Format]   \* the source format the command is set up with

(* What a video callback can carry: the memory it points at, whether that  *)
(* memory has a GE-visible physical address, whether it is labelled        *)
(* 0RGB1555 (raw), how it compares with the panel, and its frame.          *)
Request == [data : Surface \cup {Core}, direct : BOOLEAN, raw : BOOLEAN,
            size : {"fits", "oversized", "too_big"}, frame : Pixels]

HostPC == {"core", "strip", "enter", "source", "staged", "submit", "scaling",
           "scaled", "fence", "done", "failed", "disable", "cpu", "menu",
           "pause_enter", "pause_copy", "pause_sync", "pause_failed", "exit"}

VARIABLES ge,           \* host.ge # NULL
          ge_buffers, ge_next, ge_pending,
          strip_ptr,    \* host.ge_fps_overlay[] # NULL
          alloc,        \* surfaces that live GE buffer handles back
          pause_ge_disabled,
          orphaned,     \* history: the GE was given up on with the frame, or a
                        \* command, still to be read from a released surface
          first_frame,
          queue,        \* commands the engine has not completed
          content,      \* the frame each memory holds
          shown,        \* the frame on the panel
          drawn,        \* the last frame number produced
          lent,         \* the surface GET_CURRENT_SOFTWARE_FRAMEBUFFER lent out
          pc, req,
          overlays,     \* raw_overlays[]: the memory each queued strip is read from
          tries         \* resets used by the present under way

ring  == <<ge, ge_buffers, ge_next, ge_pending>>
setup == <<strip_ptr, alloc, pause_ge_disabled, orphaned>>
panel == <<shown, first_frame>>
mem   == <<content, drawn>>
call  == <<lent, req, overlays>>
vars  == <<ring, setup, panel, mem, call, queue, pc, tries>>

NoRequest == [data |-> Core, direct |-> FALSE, raw |-> FALSE, size |-> "fits",
              frame |-> 0]

(* (i + 1u) % host.ge_buffers, for an index below ge_buffers. *)
After_OffByOne(i) == IF i < ge_buffers THEN i + 1 ELSE 0
After(i) == IF i + 1 < ge_buffers THEN i + 1 ELSE 0

(* How many submissions ago surface s was last handed out: 1 for the       *)
(* surface just behind ge_next, ge_buffers for ge_next itself.             *)
Age(s) == IF s < ge_next THEN ge_next - s ELSE ge_next + ge_buffers - s

InWindow(s) == s < ge_buffers /\ Age(s) <= ge_pending

Blit(s, d, f) == [src |-> s, dst |-> d, frame |-> f, format |-> "RGB16"]

Goto(l) == pc' = l

(* Every surface may still be referenced by queued work.                   *)
RingFull_Late == ge_pending > ge_buffers
RingFull == ge_pending >= ge_buffers

(* hcge_engine_sync() after staging or scaling returned 0.                 *)
StageFenced_Skipped == TRUE
StageFenced == queue = <<>>

(* A failed present has its one reset left.                                *)
MayReset_Always == TRUE
MayReset == tries = 0
-----------------------------------------------------------------------------
(* open_platform(): no GE, one slab that holds NBuf surfaces and the       *)
(* strips, or 1..NBuf separate surfaces and no strips.                     *)
Init ==
  /\ \E b \in 0 .. NBuf, slab \in BOOLEAN :
       /\ slab => b = NBuf
       /\ ge = (b > 0)
       /\ ge_buffers = b
       /\ strip_ptr = slab
       /\ alloc = (0 .. b - 1) \cup (IF slab THEN {Strip} ELSE {})
  /\ ge_next = 0 /\ ge_pending = 0
  /\ pause_ge_disabled = FALSE /\ orphaned = FALSE /\ first_frame = FALSE
  /\ queue = <<>>
  /\ content = [m \in Memory |-> 0]
  /\ shown = 0 /\ drawn = 0
  /\ lent = None /\ req = NoRequest /\ overlays = <<>>
  /\ pc = "core" /\ tries = 0
-----------------------------------------------------------------------------
(* What is read of a memory that was filled with f: the surfaces and the   *)
(* strips are released with the GE, and may have been taken by others.     *)
Read(m, f) == IF ge \/ m = Core THEN {f} ELSE {f, Garbage}

(* The engine completes the oldest command.                                *)
EngineComplete ==
  /\ queue # <<>>
  /\ LET n == Head(queue) IN
     \E f \in Read(n.src, content[n.src]) :
       /\ content' = IF n.dst \in Surface THEN [content EXCEPT ![n.dst] = f] ELSE content
       /\ shown' = IF n.dst = Panel THEN f ELSE shown
  /\ queue' = Tail(queue)
  /\ UNCHANGED <<ring, setup, first_frame, drawn, call, pc, tries>>
-----------------------------------------------------------------------------
(* The core, inside retro_run().                                           *)

(* software_framebuffer(): lends ge_source[ge_next], after a fence when    *)
(* every surface is still referenced by queued work.                       *)
GetSoftwareFramebuffer ==
  /\ pc = "core" /\ ge
  /\ \/ /\ ~RingFull
        /\ UNCHANGED ge_pending
     \/ /\ RingFull /\ queue = <<>>
        /\ ge_pending' = 0
  /\ lent' = ge_next
  /\ UNCHANGED <<ge, ge_buffers, ge_next, setup, panel, mem, req, overlays,
                 queue, pc, tries>>

(* The core renders into its own memory or the surface it was lent.        *)
CoreDraw ==
  /\ pc = "core" /\ drawn < MaxFrames
  /\ \E m \in {Core, lent} \ {None} : content' = [content EXCEPT ![m] = drawn + 1]
  /\ drawn' = drawn + 1
  /\ UNCHANGED <<ring, setup, panel, call, queue, pc, tries>>

(* video() and sf2000_video_vram(); the callbacks that return early        *)
(* (loading_game, frameskip, no data) change nothing modelled here.        *)
Video ==
  /\ pc = "core"
  /\ \E d \in {Core, lent} \ {None}, direct, raw \in BOOLEAN,
        size \in {"fits", "oversized", "too_big"} :
       req' = [data |-> d, direct |-> direct, raw |-> raw, size |-> size,
               frame |-> content[d]]
  /\ tries' = 0 /\ overlays' = <<>>
  /\ Goto("enter")
  /\ UNCHANGED <<ring, setup, panel, mem, lent, queue>>

(* sf2000_video_vram_fps(): the strips are prepared before video() runs.   *)
VideoVramFps ==
  /\ pc = "core"
  /\ \E direct \in BOOLEAN, size \in {"fits", "oversized"} :
       req' = [data |-> Core, direct |-> direct, raw |-> TRUE, size |-> size,
               frame |-> content[Core]]
  /\ tries' = 0 /\ overlays' = <<>>
  /\ Goto("strip")
  /\ UNCHANGED <<ring, setup, panel, mem, lent, queue>>

(* ge_prepare_fps_overlay(): refresh the managed copy when the text        *)
(* changed, use it as it is when it did not, or hand the core's own strip  *)
(* to the GE when there is no managed copy or the cache clean fails.       *)
PrepareStrip ==
  /\ pc = "strip"
  /\ \/ /\ strip_ptr
        /\ content' = [content EXCEPT ![Strip] = 1 - content[Strip]]
        /\ overlays' \in {<<Strip>>, <<Core>>}
     \/ /\ overlays' = <<IF strip_ptr THEN Strip ELSE Core>>
        /\ UNCHANGED content
  /\ Goto("enter")
  /\ UNCHANGED <<ring, setup, panel, drawn, lent, req, queue, tries>>

(* retro_run() returns: the lent pointer expires with the frame.           *)
RunReturns ==
  /\ pc = "core" /\ lent # None
  /\ lent' = None
  /\ UNCHANGED <<ring, setup, panel, mem, req, overlays, queue, pc, tries>>
-----------------------------------------------------------------------------
(* ge_present()                                                            *)

(* The entry checks and the fence before a surface is reused.              *)
Enter ==
  /\ pc = "enter"
  /\ \/ /\ ~ge \/ req.size = "too_big"
        /\ Goto("failed") /\ UNCHANGED ge_pending
     \/ /\ ge /\ req.size # "too_big" /\ ~RingFull
        /\ Goto("source") /\ UNCHANGED ge_pending
     \/ /\ ge /\ req.size # "too_big" /\ RingFull
        /\ \/ queue = <<>> /\ Goto("source") /\ ge_pending' = 0
           \/ queue # <<>> /\ Goto("failed") /\ UNCHANGED ge_pending
  /\ UNCHANGED <<ge, ge_buffers, ge_next, setup, panel, mem, call, queue, tries>>

InPlace   == req.data = ge_next /\ ~req.raw   \* data == source_buffer, RGB565
DirectRaw == req.raw /\ req.direct

(* The surface, or the live VRAM, the panel blit will read.                *)
SourceOf == IF DirectRaw THEN req.data ELSE ge_next

(* The raw window and the lent surface are only cache-cleaned.             *)
UseInPlace ==
  /\ pc = "source" /\ (DirectRaw \/ InPlace)
  /\ pc' \in {"submit", "failed"}
  /\ UNCHANGED <<ring, setup, panel, mem, call, queue, tries>>

(* The GE stages a core surface into ge_source[ge_next].                   *)
StageByGE ==
  /\ pc = "source" /\ ~DirectRaw /\ ~InPlace /\ req.direct
  /\ \/ /\ queue' = Append(queue, Blit(req.data, ge_next, req.frame))
        /\ Goto("staged")
     \/ Goto("failed") /\ UNCHANGED queue
  /\ UNCHANGED <<ring, setup, panel, mem, call, tries>>

(* The fence that releases the core's surface.                             *)
StageFence ==
  /\ pc = "staged"
  /\ \/ StageFenced /\ ge_pending' = 0 /\ Goto("submit")
     \/ queue # <<>> /\ UNCHANGED ge_pending /\ Goto("failed")
  /\ UNCHANGED <<ge, ge_buffers, ge_next, setup, panel, mem, call, queue, tries>>

(* The CPU copies or converts the frame into ge_source[ge_next].           *)
CopyByCPU ==
  /\ pc = "source" /\ ~DirectRaw /\ ~InPlace /\ ~req.direct
  /\ content' = [content EXCEPT ![ge_next] = req.frame]
  /\ pc' \in {"submit", "failed"}
  /\ UNCHANGED <<ring, setup, panel, drawn, call, queue, tries>>

(* A frame larger than the panel: fence, then scale into the next surface. *)
ScaleOversized ==
  /\ pc = "submit" /\ req.size = "oversized"
  /\ \/ /\ ge_buffers >= 2 /\ (ge_pending > 0 => queue = <<>>)
        /\ ge_pending' = 0
        /\ queue' = Append(queue, Blit(SourceOf, After(ge_next), req.frame))
        /\ Goto("scaling")
     \/ /\ ge_buffers >= 2 /\ (ge_pending > 0 => queue = <<>>)
        /\ ge_pending' = 0 /\ UNCHANGED queue   \* the submission is refused
        /\ Goto("failed")
     \/ /\ ge_buffers < 2 \/ (ge_pending > 0 /\ queue # <<>>)
        /\ UNCHANGED <<ge_pending, queue>> /\ Goto("failed")
  /\ UNCHANGED <<ge, ge_buffers, ge_next, setup, panel, mem, call, tries>>

(* The read-after-write fence, then the blit of the scaled surface.        *)
ShowScaled ==
  /\ pc = "scaling"
  /\ \/ /\ queue = <<>>
        /\ queue' = <<Blit(After(ge_next), Panel, req.frame)>>
        /\ Goto("scaled")
     \/ Goto("failed") /\ UNCHANGED queue
  /\ UNCHANGED <<ring, setup, panel, mem, call, tries>>

ScaledFence ==
  /\ pc = "scaled"
  /\ \/ /\ queue = <<>>
        /\ ge_pending' = 0 /\ ge_next' = After(ge_next)
        /\ Goto("done")
     \/ queue # <<>> /\ UNCHANGED <<ge_pending, ge_next>> /\ Goto("failed")
  /\ UNCHANGED <<ge, ge_buffers, setup, panel, mem, call, queue, tries>>

(* The blit or stretch to the panel of the frame under way.                *)
PanelBlit == [Blit(SourceOf, Panel, req.frame) EXCEPT
                !.format = IF DirectRaw THEN "BGR555" ELSE "RGB16"]

(* The overlay blits of a raw frame, each optional: ge_submit_overlay()    *)
(* returns silently when a strip cannot be queued.                         *)
OverlayNodes == {<<>>} \cup
  {<<Blit(overlays[i], Hud, content[overlays[i]])>> : i \in DOMAIN overlays}

(* A raw window is live VRAM; the first frame must be seen before READY.   *)
NeedsFence_RawOnly == DirectRaw
NeedsFence == DirectRaw \/ ~first_frame

(* The panel blit or stretch, with the strips in the same batch for a raw  *)
(* frame; only a managed surface moves the ring on.                        *)
SubmitToPanel ==
  /\ pc = "submit" /\ req.size = "fits"
  /\ \/ /\ queue' \in {Append(queue, PanelBlit) \o o :
                         o \in IF DirectRaw THEN OverlayNodes ELSE {<<>>}}
        /\ ge_pending' = ge_pending + 1
        /\ ge_next' = IF DirectRaw THEN ge_next ELSE After(ge_next)
        /\ Goto(IF NeedsFence THEN "fence" ELSE "done")
     \/ /\ Goto("failed")                      \* the blit is refused
        /\ UNCHANGED <<queue, ge_pending, ge_next>>
     \/ /\ DirectRaw /\ overlays # <<>>        \* hcge_batch_end() fails
        /\ queue' \in {Append(queue, PanelBlit) \o o :
                         o \in OverlayNodes}
        /\ Goto("failed")
        /\ UNCHANGED <<ge_pending, ge_next>>
  /\ UNCHANGED <<ge, ge_buffers, setup, panel, mem, call, tries>>

(* The fence after a raw frame (the VRAM is live) or the first frame.      *)
FinalFence ==
  /\ pc = "fence"
  /\ \/ queue = <<>> /\ ge_pending' = 0 /\ Goto("done")
     \/ queue # <<>> /\ UNCHANGED ge_pending /\ Goto("failed")
  /\ UNCHANGED <<ge, ge_buffers, ge_next, setup, panel, mem, call, queue, tries>>
-----------------------------------------------------------------------------
(* video() after ge_present() failed: one reset and retry, then the CPU.   *)
ResetAndRetry_NoRetry ==
  /\ pc = "failed" /\ ge /\ MayReset
  /\ queue' = <<>> /\ tries' = 1
  /\ Goto("done")
  /\ UNCHANGED <<ring, setup, panel, mem, call>>

ResetAndRetry ==
  /\ pc = "failed" /\ ge /\ MayReset
  /\ queue' = <<>> /\ tries' = 1
  /\ Goto("enter")
  /\ UNCHANGED <<ring, setup, panel, mem, call>>

GiveUpOnGE ==
  /\ pc = "failed"
  /\ Goto(IF ge THEN "disable" ELSE "cpu")
  /\ UNCHANGED <<ring, setup, panel, mem, call, queue, tries>>

(* ge_disable_cpu_fallback(): the result of the drain is ignored, and the  *)
(* surfaces are released before cpu_present() reads the frame.             *)
DisableGE ==
  /\ pc = "disable"
  /\ ge' = FALSE /\ ge_buffers' = 0 /\ ge_pending' = 0
  /\ alloc' = {}
  /\ orphaned' = (req.data # Core \/ \E i \in DOMAIN queue : queue[i].src # Core)
  /\ Goto("cpu")
  /\ UNCHANGED <<ge_next, strip_ptr, pause_ge_disabled, panel, mem, call, queue,
                 tries>>

(* cpu_present() reads the callback's surface, a lent one included.        *)
CpuPresent ==
  /\ pc = "cpu"
  /\ shown' \in Read(req.data, req.frame)
  /\ Goto("done")
  /\ UNCHANGED <<ring, setup, first_frame, mem, call, queue, tries>>

(* The end of video(): the first frame publishes READY_MARKER.  A lent     *)
(* surface is the core's until the callback that follows it.               *)
VideoReturns ==
  /\ pc = "done"
  /\ first_frame' = TRUE
  /\ overlays' = <<>> /\ lent' = None
  /\ req' = NoRequest /\ tries' = 0
  /\ Goto("core")
  /\ UNCHANGED <<ring, setup, shown, mem, queue>>
-----------------------------------------------------------------------------
(* The pause menu.                                                         *)

(* run_pause_menu() opens between two frames; the result of                *)
(* finish_game_present() is ignored.                                       *)
OpenMenu ==
  /\ pc = "core" /\ lent = None
  /\ \/ queue = <<>> /\ ge_pending' = 0
     \/ UNCHANGED ge_pending
  /\ Goto("menu")
  /\ UNCHANGED <<ge, ge_buffers, ge_next, setup, panel, mem, call, queue, tries>>

(* write_pause_frame(), for a freshly rendered menu.                       *)
DrawMenu ==
  /\ pc = "menu" /\ drawn < MaxFrames
  /\ drawn' = drawn + 1
  /\ req' = [NoRequest EXCEPT !.frame = drawn + 1]
  /\ tries' = 0
  /\ Goto("pause_enter")
  /\ UNCHANGED <<ring, setup, panel, content, lent, overlays, queue>>

(* ge_present_pause_frame() up to its fence.                               *)
PauseEnter ==
  /\ pc = "pause_enter"
  /\ \/ /\ ~ge \/ pause_ge_disabled
        /\ Goto("pause_failed") /\ UNCHANGED ge_pending
     \/ /\ ge /\ ~pause_ge_disabled /\ (ge_pending > 0 => queue = <<>>)
        /\ Goto("pause_copy") /\ ge_pending' = 0
     \/ /\ ge /\ ~pause_ge_disabled /\ ge_pending > 0 /\ queue # <<>>
        /\ Goto("pause_failed") /\ UNCHANGED ge_pending
  /\ UNCHANGED <<ge, ge_buffers, ge_next, setup, panel, mem, call, queue, tries>>

(* The CPU copies the menu into ge_source[ge_next] and the GE blits it.    *)
PauseCopy ==
  /\ pc = "pause_copy"
  /\ content' = [content EXCEPT ![ge_next] = req.frame]
  /\ \/ /\ queue' = Append(queue, Blit(ge_next, Panel, req.frame))
        /\ Goto("pause_sync")
     \/ Goto("pause_failed") /\ UNCHANGED queue
  /\ UNCHANGED <<ring, setup, panel, drawn, call, tries>>

PauseSync ==
  /\ pc = "pause_sync"
  /\ \/ /\ queue = <<>>
        /\ ge_next' = After(ge_next) /\ ge_pending' = 0
        /\ req' = NoRequest /\ tries' = 0
        /\ Goto("menu")
     \/ /\ queue # <<>>
        /\ UNCHANGED <<ge_next, ge_pending, req, tries>> /\ Goto("pause_failed")
  /\ UNCHANGED <<ge, ge_buffers, setup, panel, mem, lent, overlays, queue>>

(* One reset and retry, as in video().                                     *)
PauseRetry ==
  /\ pc = "pause_failed" /\ ge /\ ~pause_ge_disabled /\ MayReset
  /\ queue' = <<>> /\ tries' = 1
  /\ Goto("pause_enter")
  /\ UNCHANGED <<ring, setup, panel, mem, call>>

(* Or the menu is written to /dev/fb0, and the pause screen stops using    *)
(* the GE; the game presenter keeps it.  The write itself may fail.        *)
PauseByCPU ==
  /\ pc = "pause_failed"
  /\ pause_ge_disabled' = (pause_ge_disabled \/ ge)
  /\ shown' \in {req.frame, shown}
  /\ req' = NoRequest /\ tries' = 0
  /\ Goto("menu")
  /\ UNCHANGED <<ring, strip_ptr, alloc, orphaned, first_frame, mem, lent, overlays,
                 queue>>

Resume ==
  /\ pc = "menu"
  /\ Goto("core")
  /\ UNCHANGED <<ring, setup, panel, mem, call, queue, tries>>

(* close_platform(), once main() has left its loop: the result of the      *)
(* drain is ignored here too.                                              *)
ClosePlatform ==
  /\ pc \in {"core", "menu"} /\ lent = None
  /\ ge' = FALSE /\ alloc' = {}
  /\ Goto("exit")
  /\ UNCHANGED <<ge_buffers, ge_next, ge_pending, strip_ptr, pause_ge_disabled,
                 orphaned, panel, mem, call, queue, tries>>
-----------------------------------------------------------------------------
Present == \/ Enter \/ UseInPlace \/ StageByGE \/ StageFence \/ CopyByCPU
           \/ ScaleOversized \/ ShowScaled \/ ScaledFence \/ SubmitToPanel
           \/ FinalFence \/ ResetAndRetry \/ GiveUpOnGE \/ DisableGE
           \/ CpuPresent \/ VideoReturns \/ PrepareStrip

Pause == \/ DrawMenu \/ PauseEnter \/ PauseCopy \/ PauseSync \/ PauseRetry
         \/ PauseByCPU \/ Resume

Callback == GetSoftwareFramebuffer \/ CoreDraw \/ Video \/ VideoVramFps \/ RunReturns

Next == EngineComplete \/ Callback \/ Present \/ OpenMenu \/ Pause \/ ClosePlatform

Spec == Init /\ [][Next]_vars

(* The host thread keeps running once a callback has entered it; a fence   *)
(* always returns because the driver times it out.  Nothing is assumed of  *)
(* the engine, which may be wedged for ever.                               *)
FairSpec == Spec /\ WF_vars(Present) /\ WF_vars(Pause /\ pc # "menu")
-----------------------------------------------------------------------------
TypeOK ==
  /\ ge \in BOOLEAN
  /\ ge_buffers \in 0 .. NBuf /\ ge_next \in Surface /\ ge_pending \in 0 .. NBuf
  /\ ge => ge_next < ge_buffers /\ ge_pending <= ge_buffers
  /\ strip_ptr \in BOOLEAN /\ alloc \in SUBSET Memory
  /\ pause_ge_disabled \in BOOLEAN /\ orphaned \in BOOLEAN /\ first_frame \in BOOLEAN
  /\ queue \in Seq(Node)
  /\ content \in [Memory -> Pixels] /\ content[Strip] \in {0, 1}
  /\ shown \in Pixels /\ drawn \in Frame
  /\ lent \in Surface \cup {None}
  /\ pc \in HostPC /\ req \in Request
  /\ overlays \in Seq({Core, Strip})
  /\ tries \in {0, 1}
(* While the GE is in use, the pause screen included.                      *)
GEInUse == ge /\ ~pause_ge_disabled

(* "The CPU never modifies a surface referenced by an outstanding node"    *)
(* (ge_present): whatever a queued command will read is still the frame it *)
(* was submitted for, in every interleaving of the core, the host, the     *)
(* engine, resets and retries, as long as the GE is in use.                *)
NoOverwrite ==
  GEInUse => \A i \in DOMAIN queue : content[queue[i].src] = queue[i].frame

(* The core gets its memory back: once a callback has returned, no queued  *)
(* command reads a callback surface, the live VRAM or the strips (the      *)
(* staging fence and the raw fence of ge_present).                         *)
CoreReleased ==
  ge /\ pc \in {"core", "menu"} =>
    \A i \in DOMAIN queue : queue[i].src \in Surface /\ queue[i].dst = Panel

(* A frame accepted by ge_present is on the panel or queued for it when    *)
(* video() returns, also when a reset emptied the queue on the way.        *)
NoFrameLost ==
  GEInUse /\ pc = "done" =>
    \/ shown = req.frame
    \/ \E i \in DOMAIN queue : queue[i].dst = Panel /\ queue[i].frame = req.frame

(* READY_MARKER is published only when the first frame can be seen, on     *)
(* every path: staged, copied, raw, oversized, reset or CPU.  Not covered  *)
(* are a fall back to the CPU that has released what is still to be read,  *)
(* the lent surface of the frame or the source of an outstanding blit      *)
(* (orphaned), and a pause screen before the first frame that gave up on   *)
(* the GE.                                                                 *)
ReadyIsVisible ==
  [][~first_frame /\ first_frame' /\ ~pause_ge_disabled /\ ~orphaned =>
       shown' = req.frame]_vars

(* A callback that entered video() returns, however the engine fails.      *)
CallbackReturns == pc = "enter" ~> pc = "core"

(* A menu that is being drawn gets drawn, by the GE or the CPU.            *)
MenuIsDrawn == pc = "pause_enter" ~> pc = "menu"
-----------------------------------------------------------------------------
(* Why NoOverwrite and CoreReleased hold: an inductive invariant.          *)

InVideo   == {"strip", "enter", "source", "staged", "submit", "scaling",
              "scaled", "fence", "failed"}
InPause   == {"menu", "pause_enter", "pause_copy", "pause_sync", "pause_failed"}
Settled   == {"core", "strip", "enter", "source", "submit", "done", "menu",
              "pause_enter", "pause_copy"}

(* What the place in the code says of the host's own state.                *)
HostPhase ==
  /\ pc \in {"source", "staged", "submit", "scaling", "scaled", "fence", "disable",
             "pause_copy", "pause_sync"} => ge
  /\ pc \in {"pause_copy", "pause_sync"} => ~pause_ge_disabled
  /\ pc \in {"source", "staged", "submit"} => ge_pending < ge_buffers
  /\ pc = "pause_copy" => ge_pending = 0
  /\ pc = "cpu" => ~ge
  /\ pc = "staged" => ~DirectRaw
  /\ pc \in InPause => lent = None
  /\ pc = "core" /\ ge /\ lent # None => lent = ge_next /\ ge_pending < ge_buffers

FromRing(n) == n.src \in Surface /\ n.dst = Panel

(* Outside ge_present only managed surfaces are queued.                    *)
CoreIsFree ==
  ge /\ pc \in Settled \cup InPause => \A i \in DOMAIN queue : FromRing(queue[i])

(* A command that writes a surface is the last one in the queue.           *)
LastWrites == \A i \in DOMAIN queue : queue[i].dst \in Surface => i = Len(queue)

QueueFaithful == \A i \in DOMAIN queue : content[queue[i].src] = queue[i].frame

(* ge_pending counts back far enough: what is queued was handed out within *)
(* the last ge_pending submissions.                                        *)
WindowCovers ==
  /\ pc \in Settled => \A i \in DOMAIN queue : InWindow(queue[i].src)
  /\ pc \in {"scaling", "scaled", "pause_sync"} => Len(queue) <= 1

(* What the host is about to submit is what the callback delivered.        *)
SourceReady ==
  /\ pc \in InVideo =>
       /\ content[req.data] = req.frame
       /\ \A i \in DOMAIN queue : queue[i].dst \in Surface => queue[i].frame = req.frame
  /\ pc = "submit" => content[SourceOf] = req.frame
  /\ pc = "staged" =>
       IF queue = <<>> THEN content[ge_next] = req.frame
       ELSE queue[Len(queue)] = Blit(req.data, ge_next, req.frame)
  /\ pc = "scaling" =>
       IF queue = <<>> THEN content[After(ge_next)] = req.frame
       ELSE queue[1] = Blit(SourceOf, After(ge_next), req.frame)

QueueOwned == GEInUse => LastWrites /\ QueueFaithful /\ WindowCovers /\ SourceReady

RingOwnership == TypeOK /\ HostPhase /\ CoreIsFree /\ QueueOwned

(* Why NoFrameLost and ReadyIsVisible hold: two more parts.                *)

(* Once the panel blit of the frame is submitted it is the last word on    *)
(* the panel: older frames still queued come before it, and when no panel  *)
(* blit is left the frame is what the panel shows.                         *)
LastToPanel ==
  GEInUse /\ pc \in {"scaled", "fence", "done"} =>
    \/ /\ shown = req.frame
       /\ \A i \in DOMAIN queue : queue[i].dst # Panel
    \/ \E i \in DOMAIN queue :
         /\ queue[i].dst = Panel /\ queue[i].frame = req.frame
         /\ \A j \in DOMAIN queue : j > i => queue[j].dst # Panel

(* Before the first frame nothing is queued between two calls; during it   *)
(* a panel blit reads a memory that holds that frame, and none of the      *)
(* commands before or after the blit writes one, also when the GE is given *)
(* up with the blit outstanding and the CPU writes the panel.              *)
FirstFrame ==
  ~first_frame /\ ~pause_ge_disabled /\ ~orphaned =>
    /\ pc \in Settled \ {"done"} => queue = <<>>
    /\ ~ge /\ pc \in InPause => queue = <<>>
    /\ pc \in InVideo \cup {"disable", "cpu", "done"} =>
         \A i, j \in DOMAIN queue : queue[i].dst = Panel =>
           content[queue[i].src] = req.frame /\ queue[j].dst \notin Surface
    /\ pc = "done" => shown = req.frame

(* Without the GE only the core's memory is still to be read, unless the   *)
(* GE was given up on in the middle of a frame.                            *)
ReadsBacked ==
  /\ ge => ~orphaned
  /\ ~ge /\ ~orphaned /\ pc # "exit" =>
       /\ pc = "core" => lent = None
       /\ pc \in InVideo \cup {"cpu"} => req.data = Core
       /\ \A i \in DOMAIN queue : queue[i].src = Core

FramesShown == RingOwnership /\ LastToPanel /\ FirstFrame /\ ReadsBacked
-----------------------------------------------------------------------------
(* What comments of main.c say and the code does not keep.                 *)

(* "Make the first frame observable before publishing READY_MARKER", with  *)
(* no exception for a fall back to the CPU that has released the surface   *)
(* lent to the core before cpu_present() reads it.                         *)
ReadyIsObservable ==
  [][~first_frame /\ first_frame' => shown' = req.frame]_vars

(* The ownership comment of ge_present, with no exception for a pause      *)
(* screen that gave up on the GE while its blit was outstanding.           *)
OwnershipBoundary ==
  ge => \A i \in DOMAIN queue : content[queue[i].src] = queue[i].frame

(* ge_disable_cpu_fallback "drains first and then releases every managed   *)
(* source surface": no queued command reads or writes a released surface.  *)
ReleasedIsIdle ==
  \A i \in DOMAIN queue :
    {queue[i].src, queue[i].dst} \cap (Surface \cup {Strip}) \subseteq alloc

(* The strips "live in the tail of the same contiguous GE allocation": a   *)
(* strip is refreshed only while that allocation exists.                   *)
StripIsBacked == pc = "strip" /\ strip_ptr => Strip \in alloc

(* "labels only a native PS1 VRAM callback as BGR555 so the GE presenter   *)
(* can submit it without a CPU conversion pass": a command that reads the  *)
(* raw window is told that it is BGR555.                                   *)
RawReadAsBGR555 ==
  ge /\ pc \in {"scaling", "fence"} /\ DirectRaw =>
    \A i \in DOMAIN queue :
      queue[i].src = req.data /\ queue[i].dst # Hud => queue[i].format = "BGR555"
=============================================================================
