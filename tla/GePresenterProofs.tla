------------------------- MODULE GePresenterProofs -------------------------
(* Proofs about GePresenter, for every number of surfaces and frames.      *)
EXTENDS GePresenter, TLAPS

USE DEF Goto

(* The five addresses besides the surfaces are distinct and no surface.    *)
LEMMA Addresses ==
  /\ Core \notin Surface /\ Strip \notin Surface /\ Panel \notin Surface
  /\ Hud \notin Surface /\ None \notin Surface
  /\ Core # Strip /\ Core # None /\ Panel # Hud
  /\ Core \in Nat /\ Strip \in Nat /\ Panel \in Nat /\ Hud \in Nat /\ None \in Nat
  /\ Surface \subseteq Nat
BY NBufAssumption DEF Core, Strip, Panel, Hud, None, Surface

LEMMA InitTyped == Init => TypeOK /\ HostPhase
<1>. SUFFICES ASSUME Init PROVE TypeOK /\ HostPhase
  OBVIOUS
<1>. USE NBufAssumption, MaxFramesAssumption
<1>1. PICK b \in 0 .. NBuf, slab \in BOOLEAN :
        /\ ge = (b > 0) /\ ge_buffers = b /\ strip_ptr = slab
        /\ alloc = (0 .. b - 1) \cup (IF slab THEN {Strip} ELSE {})
  BY DEF Init
<1>2. alloc \in SUBSET Memory
  BY <1>1 DEF Memory, Surface
<1>3. content \in [Memory -> Pixels] /\ content[Strip] \in {0, 1}
  BY DEF Init, Memory, Frame, Pixels
<1>4. ge \in BOOLEAN /\ ge_buffers \in 0 .. NBuf /\ strip_ptr \in BOOLEAN
  BY <1>1
<1>5. ge => ge_next < ge_buffers /\ ge_pending <= ge_buffers
  BY <1>1 DEF Init
<1>6. ge_next \in Surface /\ ge_pending \in 0 .. NBuf /\ shown \in Pixels /\ drawn \in Frame
  BY DEF Init, Surface, Frame, Pixels
<1>7. req \in Request
  BY DEF Init, Request, NoRequest, Surface, Frame, Pixels
<1>8. queue \in Seq(Node) /\ overlays \in Seq({Core, Strip})
  BY DEF Init
<1>9. TypeOK
  BY <1>2, <1>3, <1>4, <1>5, <1>6, <1>7, <1>8 DEF TypeOK, Init, HostPC
<1>10. HostPhase
  BY DEF Init, HostPhase, InPause
<1>. QED BY <1>9, <1>10
-----------------------------------------------------------------------------
(* The queue as a sequence of commands.                                    *)

LEMMA PopFacts ==
  ASSUME NEW S, NEW q \in Seq(S), q # <<>>
  PROVE  /\ Tail(q) \in Seq(S) /\ Head(q) = q[1] /\ Head(q) \in S
         /\ Len(q) \in Nat \ {0} /\ Len(Tail(q)) = Len(q) - 1
         /\ \A i \in DOMAIN Tail(q) : i + 1 \in DOMAIN q /\ Tail(q)[i] = q[i + 1]
OBVIOUS

LEMMA PushFacts ==
  ASSUME NEW S, NEW q \in Seq(S), NEW n \in S
  PROVE  /\ Append(q, n) \in Seq(S)
         /\ Len(Append(q, n)) = Len(q) + 1
         /\ \A i \in DOMAIN Append(q, n) :
              Append(q, n)[i] = IF i = Len(q) + 1 THEN n ELSE q[i]
         /\ DOMAIN Append(q, n) = DOMAIN q \cup {Len(q) + 1}
OBVIOUS

LEMMA EmptyFacts ==
  ASSUME NEW S
  PROVE  <<>> \in Seq(S) /\ Len(<<>>) = 0 /\ DOMAIN <<>> = {}
OBVIOUS

LEMMA OneFacts ==
  ASSUME NEW S, NEW n \in S
  PROVE  <<n>> \in Seq(S) /\ Len(<<n>>) = 1 /\ <<n>>[1] = n /\ DOMAIN <<n>> = {1}
OBVIOUS

(* While the GE is in use, and of the core's own memory always, what is    *)
(* read is what was written.                                               *)
LEMMA ReadFacts ==
  ASSUME NEW m, NEW f \in Pixels
  PROVE  Read(m, f) \subseteq Pixels /\ (ge \/ m = Core => Read(m, f) = {f})
BY DEF Read, Pixels

(* A command set up from a managed surface or the core's memory is typed.  *)
LEMMA BlitTyped ==
  ASSUME NEW s \in Memory, NEW d \in Surface \cup {Panel, Hud}, NEW f \in Pixels
  PROVE  Blit(s, d, f) \in Node
BY DEF Blit, Node, Format

LEMMA NoRequestTyped == NoRequest \in Request
BY MaxFramesAssumption DEF NoRequest, Request, Frame, Pixels

LEMMA SourceTyped == TypeOK => SourceOf \in Memory /\ PanelBlit \in Node
BY DEF TypeOK, SourceOf, PanelBlit, Request, Memory, Blit, Node, Format

LEMMA AfterTyped == TypeOK /\ ge => After(ge_next) \in Surface /\ After(ge_next) < ge_buffers
BY NBufAssumption DEF TypeOK, After, Surface
-----------------------------------------------------------------------------
(* Type correctness and the host's own phases.                             *)

LEMMA EngineTyped == TypeOK /\ HostPhase /\ EngineComplete => TypeOK' /\ HostPhase'
<1>. SUFFICES ASSUME TypeOK, HostPhase, EngineComplete PROVE TypeOK' /\ HostPhase'
  OBVIOUS
<1>1. queue' \in Seq(Node) /\ Head(queue) \in Node
  BY PopFacts DEF TypeOK, EngineComplete
<1>2. PICK f \in Read(Head(queue).src, content[Head(queue).src]) :
        /\ content' = IF Head(queue).dst \in Surface
                      THEN [content EXCEPT ![Head(queue).dst] = f] ELSE content
        /\ shown' = IF Head(queue).dst = Panel THEN f ELSE shown
  BY DEF EngineComplete
<1>2a. f \in Pixels
  <2>1. content[Head(queue).src] \in Pixels
    BY <1>1 DEF TypeOK, Node
  <2>. QED BY <2>1, ReadFacts
<1>3. content' \in [Memory -> Pixels] /\ content'[Strip] \in {0, 1} /\ shown' \in Pixels
  <2>1. content' = content \/ \E d \in Surface : content' = [content EXCEPT ![d] = f]
    BY <1>2
  <2>2. content' \in [Memory -> Pixels] /\ content'[Strip] \in {0, 1}
    BY <1>2a, <2>1, Addresses DEF TypeOK, Memory
  <2>3. shown' \in Pixels
    BY <1>2, <1>2a DEF TypeOK
  <2>. QED BY <2>2, <2>3
<1>4. UNCHANGED <<ge, ge_buffers, ge_next, ge_pending, strip_ptr, alloc,
                  pause_ge_disabled, orphaned, first_frame, drawn, lent, req, overlays,
                  pc, tries>>
  BY DEF EngineComplete, ring, setup, call
<1>5. TypeOK'
  BY <1>1, <1>3, <1>4 DEF TypeOK
<1>6. HostPhase'
  BY <1>4 DEF HostPhase, DirectRaw
<1>. QED BY <1>5, <1>6

LEMMA CallbackTyped == TypeOK /\ HostPhase /\ Callback => TypeOK' /\ HostPhase'
<1>. SUFFICES ASSUME TypeOK, HostPhase PROVE Callback => TypeOK' /\ HostPhase'
  OBVIOUS
<1>. USE NBufAssumption, MaxFramesAssumption DEF ring, setup, panel, mem, call
<1>1. ASSUME GetSoftwareFramebuffer PROVE TypeOK' /\ HostPhase'
  <2>. USE <1>1 DEF GetSoftwareFramebuffer
  <2>1. TypeOK'
    BY DEF TypeOK
  <2>2. HostPhase'
    BY DEF TypeOK, HostPhase, RingFull, InPause, Surface
  <2>. QED BY <2>1, <2>2
<1>2. ASSUME CoreDraw PROVE TypeOK' /\ HostPhase'
  <2>. USE <1>2 DEF CoreDraw
  <2>1. content' \in [Memory -> Pixels] /\ content'[Strip] \in {0, 1} /\ drawn' \in Frame
    BY Addresses DEF TypeOK, Frame, Memory, Pixels
  <2>2. TypeOK'
    BY <2>1 DEF TypeOK
  <2>3. HostPhase'
    BY DEF HostPhase, InPause
  <2>. QED BY <2>2, <2>3
<1>3. ASSUME Video PROVE TypeOK' /\ HostPhase'
  <2>. USE <1>3 DEF Video
  <2>1. req' \in Request
    BY DEF TypeOK, Request, Memory
  <2>2. TypeOK'
    BY <2>1 DEF TypeOK, HostPC
  <2>3. HostPhase'
    BY DEF HostPhase, InPause
  <2>. QED BY <2>2, <2>3
<1>4. ASSUME VideoVramFps PROVE TypeOK' /\ HostPhase'
  <2>. USE <1>4 DEF VideoVramFps
  <2>1. req' \in Request
    BY DEF TypeOK, Request, Memory
  <2>2. TypeOK'
    BY <2>1 DEF TypeOK, HostPC
  <2>3. HostPhase'
    BY DEF HostPhase, InPause
  <2>. QED BY <2>2, <2>3
<1>5. ASSUME RunReturns PROVE TypeOK' /\ HostPhase'
  <2>. USE <1>5 DEF RunReturns
  <2>1. TypeOK'
    BY DEF TypeOK
  <2>2. HostPhase'
    BY DEF HostPhase, InPause
  <2>. QED BY <2>1, <2>2
<1>. QED BY <1>1, <1>2, <1>3, <1>4, <1>5 DEF Callback

(* What SubmitToPanel leaves in the queue.                                 *)
LEMMA OverlayTyped ==
  TypeOK => \A o \in OverlayNodes : Append(queue, PanelBlit) \o o \in Seq(Node)
<1>. SUFFICES ASSUME TypeOK, NEW o \in OverlayNodes
              PROVE  Append(queue, PanelBlit) \o o \in Seq(Node)
  OBVIOUS
<1>1. Append(queue, PanelBlit) \in Seq(Node)
  BY SourceTyped, PushFacts DEF TypeOK
<1>2. ASSUME NEW i \in DOMAIN overlays
      PROVE  Blit(overlays[i], Hud, content[overlays[i]]) \in Node
  <2>1. overlays[i] \in Memory
    BY DEF TypeOK, Memory
  <2>. QED BY <2>1, BlitTyped DEF TypeOK
<1>3. o = <<>> \/ \E n \in Node : o = <<n>>
  BY <1>2 DEF OverlayNodes
<1>4. o \in Seq(Node)
  <2>1. CASE o = <<>>
    BY <2>1, EmptyFacts
  <2>2. ASSUME NEW n \in Node, o = <<n>> PROVE o \in Seq(Node)
    <3>1. <<n>> \in Seq(Node)
      BY OneFacts
    <3>. QED BY <2>2, <3>1
  <2>. QED BY <1>3, <2>1, <2>2
<1>. QED BY <1>1, <1>4

(* The steps of ge_present(), one by one.                                  *)
LEMMA PresentTyped == TypeOK /\ HostPhase /\ Present => TypeOK' /\ HostPhase'
<1>. SUFFICES ASSUME TypeOK, HostPhase PROVE Present => TypeOK' /\ HostPhase'
  OBVIOUS
<1>. USE NBufAssumption, MaxFramesAssumption DEF ring, setup, panel, mem, call
<1>1. ASSUME Enter PROVE TypeOK' /\ HostPhase'
  <2>. USE <1>1 DEF Enter
  <2>2. TypeOK'
    BY DEF TypeOK, HostPhase, HostPC, RingFull, Surface
  <2>3. HostPhase'
    BY DEF TypeOK, HostPhase, InPause, RingFull, Surface
  <2>. QED BY <2>2, <2>3
<1>2. ASSUME UseInPlace PROVE TypeOK' /\ HostPhase'
  <2>. USE <1>2 DEF UseInPlace
  <2>2. TypeOK'
    BY DEF TypeOK, HostPhase, HostPC, Surface
  <2>3. HostPhase'
    BY DEF TypeOK, HostPhase, InPause, Surface
  <2>. QED BY <2>2, <2>3
<1>3. ASSUME StageByGE PROVE TypeOK' /\ HostPhase'
  <2>. USE <1>3 DEF StageByGE
  <2>1. queue' \in Seq(Node)
    <3>1. Blit(req.data, ge_next, req.frame) \in Node
      BY BlitTyped DEF TypeOK, Request, Memory
    <3>. QED BY <3>1, PushFacts DEF TypeOK
  <2>2. TypeOK'
    BY <2>1 DEF TypeOK, HostPhase, HostPC, Surface, DirectRaw
  <2>3. HostPhase'
    BY <2>1 DEF TypeOK, HostPhase, InPause, Surface, DirectRaw
  <2>. QED BY <2>2, <2>3
<1>4. ASSUME StageFence PROVE TypeOK' /\ HostPhase'
  <2>. USE <1>4 DEF StageFence
  <2>2. TypeOK'
    BY DEF TypeOK, HostPhase, HostPC, Surface, StageFenced, DirectRaw
  <2>3. HostPhase'
    BY DEF TypeOK, HostPhase, InPause, Surface, StageFenced, DirectRaw
  <2>. QED BY <2>2, <2>3
<1>5. ASSUME CopyByCPU PROVE TypeOK' /\ HostPhase'
  <2>. USE <1>5 DEF CopyByCPU
  <2>1. content' \in [Memory -> Pixels] /\ content'[Strip] \in {0, 1}
    BY Addresses DEF TypeOK, Request, Memory
  <2>2. TypeOK'
    BY <2>1 DEF TypeOK, HostPhase, HostPC, Surface
  <2>3. HostPhase'
    BY <2>1 DEF TypeOK, HostPhase, InPause, Surface
  <2>. QED BY <2>2, <2>3
<1>6. ASSUME ScaleOversized PROVE TypeOK' /\ HostPhase'
  <2>. USE <1>6 DEF ScaleOversized
  <2>1. queue' \in Seq(Node)
    <3>1. ge => Blit(SourceOf, After(ge_next), req.frame) \in Node
      BY BlitTyped, SourceTyped, AfterTyped DEF TypeOK, Request
    <3>2. ge
      BY DEF HostPhase
    <3>3. queue' = queue \/ queue' = Append(queue, Blit(SourceOf, After(ge_next), req.frame))
      OBVIOUS
    <3>. QED BY <3>1, <3>2, <3>3, PushFacts DEF TypeOK
  <2>2. TypeOK'
    BY <2>1 DEF TypeOK, HostPhase, HostPC, Surface
  <2>3. HostPhase'
    BY <2>1 DEF TypeOK, HostPhase, InPause, Surface
  <2>. QED BY <2>2, <2>3
<1>7. ASSUME ShowScaled PROVE TypeOK' /\ HostPhase'
  <2>. USE <1>7 DEF ShowScaled
  <2>1. queue' \in Seq(Node)
    <3>1. ge => Blit(After(ge_next), Panel, req.frame) \in Node
      BY BlitTyped, AfterTyped DEF TypeOK, Request, Memory
    <3>2. ge
      BY DEF HostPhase
    <3>3. queue' = queue \/ queue' = <<Blit(After(ge_next), Panel, req.frame)>>
      OBVIOUS
    <3>4. <<Blit(After(ge_next), Panel, req.frame)>> \in Seq(Node)
      BY <3>1, <3>2, OneFacts
    <3>. QED BY <3>3, <3>4 DEF TypeOK
  <2>2. TypeOK'
    BY <2>1 DEF TypeOK, HostPhase, HostPC, Surface
  <2>3. HostPhase'
    BY <2>1 DEF TypeOK, HostPhase, InPause, Surface
  <2>. QED BY <2>2, <2>3
<1>8. ASSUME ScaledFence PROVE TypeOK' /\ HostPhase'
  <2>. USE <1>8 DEF ScaledFence
  <2>1. ge /\ After(ge_next) \in Surface /\ After(ge_next) < ge_buffers
    BY AfterTyped DEF HostPhase
  <2>2. TypeOK'
    BY <2>1 DEF TypeOK, HostPhase, HostPC, Surface
  <2>3. HostPhase'
    BY <2>1 DEF TypeOK, HostPhase, InPause, Surface
  <2>. QED BY <2>2, <2>3
<1>9. ASSUME SubmitToPanel PROVE TypeOK' /\ HostPhase'
  <2>. USE <1>9 DEF SubmitToPanel
  <2>1. queue' \in Seq(Node)
    <3>1. queue' = queue \/ \E o \in OverlayNodes : queue' = Append(queue, PanelBlit) \o o
      BY DEF OverlayNodes
    <3>. QED BY <3>1, OverlayTyped DEF TypeOK
  <2>a. ge /\ After(ge_next) \in Surface /\ After(ge_next) < ge_buffers /\ ge_pending < ge_buffers
    BY AfterTyped DEF HostPhase
  <2>2. TypeOK'
    BY <2>1, <2>a DEF TypeOK, HostPhase, HostPC, Surface
  <2>3. HostPhase'
    BY <2>1, <2>a DEF TypeOK, HostPhase, InPause, Surface
  <2>. QED BY <2>2, <2>3
<1>10. ASSUME FinalFence PROVE TypeOK' /\ HostPhase'
  <2>. USE <1>10 DEF FinalFence
  <2>2. TypeOK'
    BY DEF TypeOK, HostPhase, HostPC, Surface
  <2>3. HostPhase'
    BY DEF TypeOK, HostPhase, InPause, Surface
  <2>. QED BY <2>2, <2>3
<1>11. ASSUME ResetAndRetry PROVE TypeOK' /\ HostPhase'
  <2>. USE <1>11 DEF ResetAndRetry
  <2>1. queue' \in Seq(Node)
    BY EmptyFacts
  <2>2. TypeOK'
    BY <2>1 DEF TypeOK, HostPhase, HostPC
  <2>3. HostPhase'
    BY <2>1 DEF TypeOK, HostPhase, InPause
  <2>. QED BY <2>2, <2>3
<1>12. ASSUME GiveUpOnGE PROVE TypeOK' /\ HostPhase'
  <2>. USE <1>12 DEF GiveUpOnGE
  <2>2. TypeOK'
    BY DEF TypeOK, HostPhase, HostPC
  <2>3. HostPhase'
    BY DEF TypeOK, HostPhase, InPause
  <2>. QED BY <2>2, <2>3
<1>13. ASSUME DisableGE PROVE TypeOK' /\ HostPhase'
  <2>. USE <1>13 DEF DisableGE
  <2>1. alloc' \in SUBSET Memory
    BY SMT
  <2>a. ge_buffers' \in 0 .. NBuf /\ ge_pending' \in 0 .. NBuf
    BY SMT
  <2>b. UNCHANGED <<ge_next, strip_ptr, pause_ge_disabled, first_frame, shown, drawn,
                    content, lent, req, overlays, queue, tries>>
    OBVIOUS
  <2>c. ge' = FALSE /\ pc' = "cpu" /\ orphaned' \in BOOLEAN
    OBVIOUS
  <2>2. TypeOK'
    BY <2>1, <2>a, <2>b, <2>c DEF TypeOK, HostPC
  <2>3. HostPhase'
    BY DEF HostPhase, InPause
  <2>. QED BY <2>2, <2>3
<1>14. ASSUME CpuPresent PROVE TypeOK' /\ HostPhase'
  <2>. USE <1>14 DEF CpuPresent
  <2>1. shown' \in Pixels
    BY ReadFacts DEF TypeOK, Request
  <2>2. TypeOK'
    BY <2>1 DEF TypeOK, HostPhase, HostPC
  <2>3. HostPhase'
    BY <2>1 DEF TypeOK, HostPhase, InPause
  <2>. QED BY <2>2, <2>3
<1>15. ASSUME VideoReturns PROVE TypeOK' /\ HostPhase'
  <2>. USE <1>15 DEF VideoReturns
  <2>1. req' \in Request /\ overlays' \in Seq({Core, Strip})
    BY EmptyFacts, MaxFramesAssumption DEF Request, NoRequest, Surface, Frame, Pixels
  <2>2. TypeOK'
    BY <2>1 DEF TypeOK, HostPhase, HostPC
  <2>3. HostPhase'
    BY <2>1 DEF TypeOK, HostPhase, InPause
  <2>. QED BY <2>2, <2>3
<1>16. ASSUME PrepareStrip PROVE TypeOK' /\ HostPhase'
  <2>. USE <1>16 DEF PrepareStrip
  <2>1. content' \in [Memory -> Pixels] /\ content'[Strip] \in {0, 1}
    BY DEF TypeOK, Memory, Frame, Pixels
  <2>a. overlays' \in Seq({Core, Strip})
    <3>1. overlays' = <<Core>> \/ overlays' = <<Strip>>
      OBVIOUS
    <3>. QED BY <3>1, OneFacts
  <2>2. TypeOK'
    BY <2>1, <2>a DEF TypeOK, HostPhase, HostPC
  <2>3. HostPhase'
    BY <2>1, <2>a DEF TypeOK, HostPhase, InPause
  <2>. QED BY <2>2, <2>3
<1>. QED BY <1>1, <1>2, <1>3, <1>4, <1>5, <1>6, <1>7, <1>8, <1>9, <1>10, <1>11, <1>12, <1>13, <1>14, <1>15, <1>16 DEF Present

(* The pause menu and the end of the process.                              *)
LEMMA PauseTyped ==
  TypeOK /\ HostPhase /\ (OpenMenu \/ Pause \/ ClosePlatform) => TypeOK' /\ HostPhase'
<1>. SUFFICES ASSUME TypeOK, HostPhase
              PROVE  OpenMenu \/ Pause \/ ClosePlatform => TypeOK' /\ HostPhase'
  OBVIOUS
<1>. USE NBufAssumption, MaxFramesAssumption DEF ring, setup, panel, mem, call
<1>1. ASSUME OpenMenu PROVE TypeOK' /\ HostPhase'
  <2>. USE <1>1 DEF OpenMenu
  <2>2. TypeOK'
    BY DEF TypeOK, HostPhase, HostPC, Surface
  <2>3. HostPhase'
    BY DEF TypeOK, HostPhase, InPause, Surface
  <2>. QED BY <2>2, <2>3
<1>2. ASSUME DrawMenu PROVE TypeOK' /\ HostPhase'
  <2>. USE <1>2 DEF DrawMenu
  <2>1. drawn' \in Frame /\ req' \in Request
    <3>1. drawn + 1 \in Frame
      BY DEF TypeOK, Frame
    <3>2. [NoRequest EXCEPT !.frame = drawn + 1] \in Request
      BY <3>1, NoRequestTyped DEF Request, Frame, Pixels
    <3>. QED BY <3>1, <3>2
  <2>2. TypeOK'
    BY <2>1 DEF TypeOK, HostPhase, HostPC
  <2>3. HostPhase'
    BY <2>1 DEF TypeOK, HostPhase, InPause
  <2>. QED BY <2>2, <2>3
<1>3. ASSUME PauseEnter PROVE TypeOK' /\ HostPhase'
  <2>. USE <1>3 DEF PauseEnter
  <2>2. TypeOK'
    BY DEF TypeOK, HostPhase, HostPC, Surface
  <2>3. HostPhase'
    BY DEF TypeOK, HostPhase, InPause, Surface
  <2>. QED BY <2>2, <2>3
<1>4. ASSUME PauseCopy PROVE TypeOK' /\ HostPhase'
  <2>. USE <1>4 DEF PauseCopy
  <2>1. content' \in [Memory -> Pixels] /\ content'[Strip] \in {0, 1}
    BY Addresses DEF TypeOK, Request, Memory
  <2>a. queue' \in Seq(Node)
    <3>1. Blit(ge_next, Panel, req.frame) \in Node
      BY BlitTyped DEF TypeOK, Request, Memory
    <3>2. queue' = queue \/ queue' = Append(queue, Blit(ge_next, Panel, req.frame))
      OBVIOUS
    <3>. QED BY <3>1, <3>2, PushFacts DEF TypeOK
  <2>2. TypeOK'
    BY <2>1, <2>a DEF TypeOK, HostPhase, HostPC
  <2>3. HostPhase'
    BY <2>1, <2>a DEF TypeOK, HostPhase, InPause
  <2>. QED BY <2>2, <2>3
<1>5. ASSUME PauseSync PROVE TypeOK' /\ HostPhase'
  <2>. USE <1>5 DEF PauseSync
  <2>1. req' \in Request
    BY NoRequestTyped DEF TypeOK
  <2>a. ge /\ After(ge_next) \in Surface /\ After(ge_next) < ge_buffers
    BY AfterTyped DEF HostPhase
  <2>2. TypeOK'
    BY <2>1, <2>a DEF TypeOK, HostPhase, HostPC, Surface
  <2>3. HostPhase'
    BY <2>1, <2>a DEF TypeOK, HostPhase, InPause, Surface
  <2>. QED BY <2>2, <2>3
<1>6. ASSUME PauseRetry PROVE TypeOK' /\ HostPhase'
  <2>. USE <1>6 DEF PauseRetry
  <2>1. queue' \in Seq(Node)
    BY EmptyFacts
  <2>2. TypeOK'
    BY <2>1 DEF TypeOK, HostPhase, HostPC
  <2>3. HostPhase'
    BY <2>1 DEF TypeOK, HostPhase, InPause
  <2>. QED BY <2>2, <2>3
<1>7. ASSUME PauseByCPU PROVE TypeOK' /\ HostPhase'
  <2>. USE <1>7 DEF PauseByCPU
  <2>1. req' \in Request /\ shown' \in Pixels
    BY DEF TypeOK, Request, NoRequest, Surface, Frame, Pixels
  <2>2. TypeOK'
    BY <2>1 DEF TypeOK, HostPhase, HostPC
  <2>3. HostPhase'
    BY <2>1 DEF TypeOK, HostPhase, InPause
  <2>. QED BY <2>2, <2>3
<1>8. ASSUME Resume PROVE TypeOK' /\ HostPhase'
  <2>. USE <1>8 DEF Resume
  <2>2. TypeOK'
    BY DEF TypeOK, HostPhase, HostPC
  <2>3. HostPhase'
    BY DEF TypeOK, HostPhase, InPause
  <2>. QED BY <2>2, <2>3
<1>9. ASSUME ClosePlatform PROVE TypeOK' /\ HostPhase'
  <2>. USE <1>9 DEF ClosePlatform
  <2>1. alloc' \in SUBSET Memory
    BY SMT
  <2>2. TypeOK'
    BY <2>1 DEF TypeOK, HostPhase, HostPC
  <2>3. HostPhase'
    BY <2>1 DEF TypeOK, HostPhase, InPause
  <2>. QED BY <2>2, <2>3
<1>. QED BY <1>1, <1>2, <1>3, <1>4, <1>5, <1>6, <1>7, <1>8, <1>9 DEF Pause

LEMMA StutterTyped == TypeOK /\ HostPhase /\ UNCHANGED vars => TypeOK' /\ HostPhase'
<1>. SUFFICES ASSUME TypeOK, HostPhase, UNCHANGED vars PROVE TypeOK' /\ HostPhase'
  OBVIOUS
<1>. USE DEF vars, ring, setup, panel, mem, call
<1>1. TypeOK'
  BY DEF TypeOK
<1>2. HostPhase'
  BY DEF HostPhase, DirectRaw
<1>. QED BY <1>1, <1>2

LEMMA NextTyped == TypeOK /\ HostPhase /\ [Next]_vars => TypeOK' /\ HostPhase'
BY EngineTyped, CallbackTyped, PresentTyped, PauseTyped, StutterTyped DEF Next

(* Every variable keeps its type, and the host's control point says what   *)
(* it should of the ring, whatever the number of surfaces.                 *)
THEOREM TypeCorrect == Spec => []TypeOK
<1>1. TypeOK /\ HostPhase /\ [Next]_vars => (TypeOK /\ HostPhase)'
  BY NextTyped
<1>2. Spec => [](TypeOK /\ HostPhase)
  BY InitTyped, <1>1, PTL DEF Spec
<1>. QED BY <1>2, PTL
-----------------------------------------------------------------------------
(* Ownership of the ring.                                                  *)

(* ge_next is not among the surfaces of the last ge_pending submissions    *)
(* while the ring is not full, and none is when nothing is pending.        *)
LEMMA WindowFacts ==
  ASSUME TypeOK, ge, NEW s \in Surface
  PROVE  /\ ge_pending < ge_buffers => ~InWindow(ge_next)
         /\ ge_pending = 0 => ~InWindow(s)
BY NBufAssumption DEF TypeOK, InWindow, Age, Surface

(* A fenced ring that is settled has nothing queued.                       *)
LEMMA NothingPending ==
  ASSUME TypeOK, CoreIsFree, QueueOwned, GEInUse, pc \in Settled, ge_pending = 0
  PROVE  queue = <<>>
<1>1. \A i \in DOMAIN queue : queue[i].src \in Surface /\ InWindow(queue[i].src)
  BY DEF CoreIsFree, QueueOwned, WindowCovers, FromRing, GEInUse
<1>2. DOMAIN queue = {}
  BY <1>1, WindowFacts DEF GEInUse
<1>. QED BY <1>2 DEF TypeOK

(* Handing ge_next to the GE ages every other surface by one.              *)
LEMMA WindowMoves ==
  ASSUME TypeOK, ge, ge_pending < ge_buffers,
         ge_next' = After(ge_next), ge_pending' = ge_pending + 1,
         ge_buffers' = ge_buffers
  PROVE  \A s \in Surface : s = ge_next \/ InWindow(s) => InWindow(s)'
<1>. SUFFICES ASSUME NEW s \in Surface, s = ge_next \/ InWindow(s) PROVE InWindow(s)'
  OBVIOUS
<1>1. /\ s \in Nat /\ ge_next \in Nat /\ ge_buffers \in Nat /\ ge_pending \in Nat
      /\ s < ge_buffers /\ ge_next < ge_buffers
  BY NBufAssumption DEF TypeOK, InWindow, Surface
<1>2. CASE ge_next + 1 < ge_buffers
  BY <1>1, <1>2 DEF InWindow, Age, After
<1>3. CASE ge_next + 1 = ge_buffers
  BY <1>1, <1>3 DEF InWindow, Age, After
<1>. QED BY <1>1, <1>2, <1>3

(* Steps that only move the host along: queue, memory and ring stay.       *)
LEMMA QuietOwned ==
  ASSUME TypeOK, HostPhase, CoreIsFree, QueueOwned,
         \/ RunReturns \/ UseInPlace \/ GiveUpOnGE \/ VideoReturns \/ DrawMenu
         \/ Resume \/ UNCHANGED vars
  PROVE  CoreIsFree' /\ QueueOwned'
<1>. USE DEF ring, setup, panel, mem, call, vars
<1>1. CoreIsFree'
  BY DEF CoreIsFree, HostPhase, Settled, InPause, FromRing, RunReturns, UseInPlace,
         GiveUpOnGE, VideoReturns, DrawMenu, Resume
<1>2. QueueOwned'
  <2>. SUFFICES ASSUME GEInUse' PROVE (LastWrites /\ QueueFaithful /\ WindowCovers /\ SourceReady)'
    BY DEF QueueOwned
  <2>1. GEInUse
    <3>1. ge' = ge /\ pause_ge_disabled' = pause_ge_disabled
      BY DEF RunReturns, UseInPlace, GiveUpOnGE, VideoReturns, DrawMenu, Resume
    <3>. QED BY <3>1 DEF GEInUse
  <2>2. queue' = queue /\ content' = content /\ ge_next' = ge_next
        /\ ge_buffers' = ge_buffers /\ ge_pending' = ge_pending
    BY DEF RunReturns, UseInPlace, GiveUpOnGE, VideoReturns, DrawMenu, Resume
  <2>3. LastWrites' /\ QueueFaithful'
    BY <2>1, <2>2 DEF QueueOwned, LastWrites, QueueFaithful
  <2>4. WindowCovers'
    BY <2>1, <2>2 DEF QueueOwned, WindowCovers, HostPhase, InWindow, Age, Settled, RunReturns,
       UseInPlace, GiveUpOnGE, VideoReturns, DrawMenu, Resume, GEInUse
  <2>5. SourceReady'
    BY <2>1, <2>2 DEF QueueOwned, SourceReady, InVideo, RunReturns,
       UseInPlace, GiveUpOnGE, VideoReturns, DrawMenu, Resume, SourceOf, DirectRaw, InPlace,
       After
  <2>. QED BY <2>3, <2>4, <2>5
<1>. QED BY <1>1, <1>2

(* Steps after which the GE is not in use any more.                        *)
LEMMA OffOwned ==
  ASSUME TypeOK, HostPhase, CoreIsFree, QueueOwned,
         DisableGE \/ CpuPresent \/ PauseByCPU \/ ClosePlatform
  PROVE  CoreIsFree' /\ QueueOwned'
<1>. USE DEF ring, setup, panel, mem, call
<1>1. CoreIsFree'
  BY DEF CoreIsFree, HostPhase, Settled, InPause, FromRing, DisableGE, CpuPresent,
         PauseByCPU, ClosePlatform
<1>2. ~GEInUse'
  BY DEF GEInUse, HostPhase, DisableGE, CpuPresent, PauseByCPU, ClosePlatform
<1>. QED BY <1>1, <1>2 DEF QueueOwned

(* Fences that leave the host settled: the queue is empty or as it was.    *)
LEMMA FenceOwned ==
  ASSUME TypeOK, HostPhase, CoreIsFree, QueueOwned,
         \/ GetSoftwareFramebuffer \/ OpenMenu \/ Enter \/ PauseEnter
         \/ StageFence \/ FinalFence \/ ScaledFence \/ PauseSync
  PROVE  CoreIsFree' /\ QueueOwned'
<1>. USE DEF ring, setup, panel, mem, call
<1>1. CoreIsFree'
  <2>1. ASSUME GetSoftwareFramebuffer \/ OpenMenu \/ Enter \/ PauseEnter PROVE CoreIsFree'
    BY <2>1 DEF CoreIsFree, Settled, InPause, FromRing, GetSoftwareFramebuffer, OpenMenu,
       Enter, PauseEnter
  <2>2. ASSUME StageFence \/ FinalFence \/ ScaledFence \/ PauseSync PROVE CoreIsFree'
    <3>1. queue' = queue /\ (queue = <<>> \/ pc' = "failed" \/ (pc = "pause_sync" /\ ge' = ge))
      BY <2>2 DEF StageFence, FinalFence, ScaledFence, PauseSync, StageFenced
    <3>2. CASE queue = <<>>
      BY <3>1, <3>2, EmptyFacts DEF CoreIsFree
    <3>3. CASE pc' = "failed"
      BY <3>3 DEF CoreIsFree, Settled, InPause
    <3>4. CASE pc = "pause_sync" /\ ge' = ge
      BY <3>1, <3>4 DEF CoreIsFree, Settled, InPause, FromRing
    <3>. QED BY <3>1, <3>2, <3>3, <3>4
  <2>. QED BY <2>1, <2>2
<1>2. QueueOwned'
  <2>. SUFFICES ASSUME GEInUse' PROVE (LastWrites /\ QueueFaithful /\ WindowCovers /\ SourceReady)'
    BY DEF QueueOwned
  <2>. USE DEF GetSoftwareFramebuffer, OpenMenu, Enter, PauseEnter, StageFence, FinalFence,
               ScaledFence, PauseSync, StageFenced
  <2>1. GEInUse
    <3>1. ge' = ge /\ pause_ge_disabled' = pause_ge_disabled
      OBVIOUS
    <3>. QED BY <3>1 DEF GEInUse
  <2>2. queue' = queue /\ content' = content /\ ge_buffers' = ge_buffers
    OBVIOUS
  <2>3. LastWrites' /\ QueueFaithful'
    BY <2>1, <2>2 DEF QueueOwned, LastWrites, QueueFaithful
  <2>4. queue = <<>> \/ (ge_pending' = ge_pending /\ ge_next' = ge_next)
    BY NBufAssumption DEF TypeOK
  <2>5. WindowCovers'
    <3>1. CASE queue = <<>>
      BY <2>2, <3>1, EmptyFacts DEF WindowCovers
    <3>2. CASE ge_pending' = ge_pending /\ ge_next' = ge_next
      BY <2>1, <2>2, <3>2 DEF QueueOwned, WindowCovers, InWindow, Age, Settled
    <3>. QED BY <2>4, <3>1, <3>2
  <2>6. SourceReady'
    BY <2>1, <2>2 DEF QueueOwned, SourceReady, InVideo, HostPhase, SourceOf, DirectRaw, After
  <2>. QED BY <2>3, <2>5, <2>6
<1>. QED BY <1>1, <1>2

(* A reset leaves the queue empty.                                         *)
LEMMA ResetOwned ==
  ASSUME TypeOK, HostPhase, CoreIsFree, QueueOwned, ResetAndRetry \/ PauseRetry
  PROVE  CoreIsFree' /\ QueueOwned'
<1>. USE DEF ring, setup, panel, mem, call
<1>1. queue' = <<>> /\ UNCHANGED <<ge, pause_ge_disabled, content, req>>
      /\ pc' \in {"enter", "pause_enter"} /\ (pc' = "enter" => pc = "failed")
  BY DEF ResetAndRetry, PauseRetry
<1>2. CoreIsFree' /\ LastWrites' /\ QueueFaithful' /\ WindowCovers'
  BY <1>1, EmptyFacts DEF CoreIsFree, LastWrites, QueueFaithful, WindowCovers
<1>3. GEInUse' => SourceReady'
  BY <1>1, EmptyFacts DEF GEInUse, QueueOwned, SourceReady, InVideo
<1>. QED BY <1>2, <1>3 DEF QueueOwned

(* The core enters video() with the queue it found.                        *)
LEMMA VideoOwned ==
  ASSUME TypeOK, HostPhase, CoreIsFree, QueueOwned, Video \/ VideoVramFps
  PROVE  CoreIsFree' /\ QueueOwned'
<1>. USE DEF ring, setup, panel, mem, call
<1>1. /\ UNCHANGED <<queue, content, ge, pause_ge_disabled, ge_next, ge_buffers, ge_pending>>
      /\ pc = "core" /\ pc' \in {"strip", "enter"} /\ req'.frame = content[req'.data]
  BY DEF Video, VideoVramFps
<1>2. CoreIsFree'
  BY <1>1 DEF CoreIsFree, Settled, FromRing
<1>3. ASSUME GEInUse' PROVE (LastWrites /\ QueueFaithful /\ WindowCovers /\ SourceReady)'
  <2>1. GEInUse
    BY <1>1, <1>3 DEF GEInUse
  <2>2. LastWrites' /\ QueueFaithful' /\ WindowCovers'
    BY <1>1, <2>1 DEF QueueOwned, LastWrites, QueueFaithful, WindowCovers, Settled,
       InWindow, Age
  <2>3. \A i \in DOMAIN queue : queue[i].dst \notin Surface
    BY <1>1, <2>1, Addresses DEF CoreIsFree, Settled, FromRing, GEInUse
  <2>4. SourceReady'
    BY <1>1, <2>3 DEF SourceReady
  <2>. QED BY <2>2, <2>4
<1>. QED BY <1>2, <1>3 DEF QueueOwned

(* Drawing touches only memory that no queued command reads.               *)
LEMMA DrawOwned ==
  ASSUME TypeOK, HostPhase, CoreIsFree, QueueOwned, CoreDraw \/ PrepareStrip
  PROVE  CoreIsFree' /\ QueueOwned'
<1>. USE DEF ring, setup, panel, mem, call
<1>1. /\ UNCHANGED <<queue, ge, pause_ge_disabled, ge_next, ge_buffers, ge_pending, req>>
      /\ pc \in {"core", "strip"} /\ pc' \in {"core", "enter"}
      /\ pc' = "enter" => pc = "strip"
  BY DEF CoreDraw, PrepareStrip
<1>2. CoreIsFree'
  BY <1>1 DEF CoreIsFree, Settled, FromRing
<1>3. ASSUME GEInUse' PROVE (LastWrites /\ QueueFaithful /\ WindowCovers /\ SourceReady)'
  <2>1. GEInUse /\ ge
    BY <1>1, <1>3 DEF GEInUse
  <2>2. LastWrites' /\ WindowCovers'
    BY <1>1, <2>1 DEF QueueOwned, LastWrites, WindowCovers, Settled, InWindow, Age
  <2>3. \A i \in DOMAIN queue :
          /\ queue[i].src \in Surface /\ InWindow(queue[i].src) /\ queue[i].dst \notin Surface
          /\ content[queue[i].src] = queue[i].frame
    BY <1>1, <2>1, Addresses DEF CoreIsFree, Settled, FromRing, QueueOwned, WindowCovers,
       QueueFaithful
  <2>4. \E m \in Memory :
          /\ \A x \in Memory : x # m => content'[x] = content[x]
          /\ m \in {Core, Strip} \/ (m = ge_next /\ ~InWindow(ge_next))
          /\ pc = "strip" => m = Strip
    <3>1. CASE PrepareStrip
      BY <3>1 DEF PrepareStrip, Memory, TypeOK
    <3>2. CASE CoreDraw
      <4>1. PICK m \in {Core, lent} \ {None} : content' = [content EXCEPT ![m] = drawn + 1]
        BY <3>2 DEF CoreDraw
      <4>2. m = Core \/ (m = ge_next /\ ge_pending < ge_buffers)
        BY <2>1, <3>2, <4>1 DEF CoreDraw, HostPhase
      <4>3. m \in Memory /\ (m = Core \/ (m = ge_next /\ ~InWindow(ge_next)))
        BY <4>2, <2>1, WindowFacts DEF TypeOK, Memory
      <4>4. \A x \in Memory : x # m => content'[x] = content[x]
        BY <4>1 DEF TypeOK
      <4>. QED BY <3>2, <4>3, <4>4 DEF CoreDraw
    <3>. QED BY <3>1, <3>2
  <2>5. \A i \in DOMAIN queue : content'[queue[i].src] = content[queue[i].src]
    <3>1. PICK m \in Memory :
            /\ \A x \in Memory : x # m => content'[x] = content[x]
            /\ m \in {Core, Strip} \/ (m = ge_next /\ ~InWindow(ge_next))
      BY <2>4
    <3>2. ASSUME NEW i \in DOMAIN queue PROVE queue[i].src \in Memory /\ queue[i].src # m
      <4>1. queue[i].src \in Surface /\ InWindow(queue[i].src)
        BY <2>3
      <4>2. queue[i].src \in Memory /\ queue[i].src \notin {Core, Strip}
        BY <4>1, Addresses DEF Memory
      <4>. QED BY <3>1, <4>1, <4>2
    <3>. QED BY <3>1, <3>2
  <2>6. QueueFaithful'
    BY <1>1, <2>3, <2>5 DEF QueueFaithful
  <2>7. pc = "strip" => content'[req.data] = content[req.data]
    <3>1. req.data # Strip /\ req.data \in Memory
      BY Addresses DEF TypeOK, Request, Memory
    <3>. QED BY <2>4, <3>1
  <2>8. SourceReady'
    BY <1>1, <2>1, <2>3, <2>7 DEF QueueOwned, SourceReady, InVideo
  <2>. QED BY <2>2, <2>6, <2>8
<1>. QED BY <1>2, <1>3 DEF QueueOwned

(* The CPU copies into ge_next, which no queued command reads.             *)
LEMMA CopyOwned ==
  ASSUME TypeOK, HostPhase, CoreIsFree, QueueOwned, CopyByCPU
  PROVE  CoreIsFree' /\ QueueOwned'
<1>. USE DEF ring, setup, panel, mem, call
<1>1. /\ UNCHANGED <<queue, ge, pause_ge_disabled, ge_next, ge_buffers, ge_pending, req>>
      /\ pc = "source" /\ pc' \in {"submit", "failed"} /\ ~DirectRaw
      /\ content' = [content EXCEPT ![ge_next] = req.frame]
  BY DEF CopyByCPU
<1>2. CoreIsFree'
  BY <1>1 DEF CoreIsFree, Settled, InPause, FromRing
<1>3. ASSUME GEInUse' PROVE (LastWrites /\ QueueFaithful /\ WindowCovers /\ SourceReady)'
  <2>1. GEInUse /\ ge /\ ge_pending < ge_buffers /\ ge_next \in Surface
    BY <1>1, <1>3 DEF GEInUse, HostPhase, TypeOK
  <2>2. LastWrites' /\ WindowCovers'
    BY <1>1, <2>1 DEF QueueOwned, LastWrites, WindowCovers, Settled, InWindow, Age
  <2>3. \A i \in DOMAIN queue :
          /\ queue[i].src \in Surface /\ InWindow(queue[i].src) /\ queue[i].dst \notin Surface
          /\ content[queue[i].src] = queue[i].frame
    BY <1>1, <2>1, Addresses DEF CoreIsFree, Settled, FromRing, QueueOwned, WindowCovers,
       QueueFaithful
  <2>4. ~InWindow(ge_next)
    BY <2>1, WindowFacts
  <2>5. \A i \in DOMAIN queue : content'[queue[i].src] = content[queue[i].src]
    BY <1>1, <2>3, <2>4 DEF TypeOK
  <2>6. QueueFaithful'
    BY <1>1, <2>3, <2>5 DEF QueueFaithful
  <2>7. content'[ge_next] = req.frame /\ content'[req.data] = req.frame
    BY <1>1, <2>1 DEF TypeOK, Memory, QueueOwned, SourceReady, InVideo, Request
  <2>8. SourceReady'
    BY <1>1, <2>3, <2>7 DEF SourceReady, InVideo, SourceOf, DirectRaw
  <2>. QED BY <2>2, <2>6, <2>8
<1>. QED BY <1>2, <1>3 DEF QueueOwned

(* A staging blit: the last command, into a surface nothing else reads.    *)
LEMMA StageOwned ==
  ASSUME TypeOK, HostPhase, CoreIsFree, QueueOwned, StageByGE
  PROVE  CoreIsFree' /\ QueueOwned'
<1>. USE DEF ring, setup, panel, mem, call
<1>1. /\ UNCHANGED <<content, ge, pause_ge_disabled, ge_next, ge_buffers, ge_pending, req>>
      /\ pc = "source" /\ pc' \in {"staged", "failed"} /\ ~DirectRaw
  BY DEF StageByGE
<1>2. CoreIsFree'
  BY <1>1 DEF CoreIsFree, Settled, InPause
<1>3. ASSUME GEInUse' PROVE (LastWrites /\ QueueFaithful /\ WindowCovers /\ SourceReady)'
  <2>1. GEInUse /\ ge
    BY <1>1, <1>3 DEF GEInUse
  <2>2. content[req.data] = req.frame
    BY <1>1, <2>1 DEF QueueOwned, SourceReady, InVideo
  <2>3. \A i \in DOMAIN queue :
          /\ queue[i].dst \notin Surface /\ content[queue[i].src] = queue[i].frame
    BY <1>1, <2>1, Addresses DEF CoreIsFree, Settled, FromRing, QueueOwned, QueueFaithful
  <2>4. Blit(req.data, ge_next, req.frame) \in Node
    BY BlitTyped DEF TypeOK, Request, Memory
  <2>5. CASE queue' = queue /\ pc' = "failed"
    BY <1>1, <2>2, <2>3, <2>5 DEF LastWrites, QueueFaithful, WindowCovers, SourceReady, Settled
  <2>6. CASE queue' = Append(queue, Blit(req.data, ge_next, req.frame)) /\ pc' = "staged"
    <3>1. \A i \in DOMAIN queue' :
            queue'[i] = IF i = Len(queue) + 1 THEN Blit(req.data, ge_next, req.frame)
                        ELSE queue[i]
      BY <2>4, <2>6, PushFacts DEF TypeOK
    <3>2. Len(queue') = Len(queue) + 1 /\ DOMAIN queue' = DOMAIN queue \cup {Len(queue) + 1}
      BY <2>4, <2>6, PushFacts DEF TypeOK
    <3>3. queue' # <<>> /\ Len(queue') \in DOMAIN queue'
      BY <3>2, EmptyFacts
    <3>4. LastWrites'
      BY <2>3, <3>1, <3>2 DEF LastWrites
    <3>5. QueueFaithful'
      BY <1>1, <2>2, <2>3, <3>1, <3>2 DEF QueueFaithful, Blit
    <3>6. WindowCovers'
      BY <2>6 DEF WindowCovers, Settled
    <3>7. SourceReady'
      BY <1>1, <2>2, <2>3, <2>6, <3>1, <3>2, <3>3 DEF SourceReady, Blit
    <3>. QED BY <3>4, <3>5, <3>6, <3>7
  <2>. QED BY <2>5, <2>6 DEF StageByGE
<1>. QED BY <1>2, <1>3 DEF QueueOwned

(* Scaling an oversized frame starts from an empty queue.                  *)
LEMMA ScaleOwned ==
  ASSUME TypeOK, HostPhase, CoreIsFree, QueueOwned, ScaleOversized
  PROVE  CoreIsFree' /\ QueueOwned'
<1>. USE DEF ring, setup, panel, mem, call
<1>1. /\ UNCHANGED <<content, ge, pause_ge_disabled, ge_next, ge_buffers, req>>
      /\ pc = "submit" /\ pc' \in {"scaling", "failed"}
  BY DEF ScaleOversized
<1>2. CoreIsFree'
  BY <1>1 DEF CoreIsFree, Settled, InPause
<1>3. ASSUME GEInUse' PROVE (LastWrites /\ QueueFaithful /\ WindowCovers /\ SourceReady)'
  <2>1. GEInUse /\ ge
    BY <1>1, <1>3 DEF GEInUse
  <2>2. content[req.data] = req.frame /\ content[SourceOf] = req.frame
    BY <1>1, <2>1 DEF QueueOwned, SourceReady, InVideo
  <2>3. LastWrites /\ QueueFaithful
    BY <2>1 DEF QueueOwned
  <2>4. \A i \in DOMAIN queue : queue[i].dst \notin Surface
    BY <1>1, <2>1, Addresses DEF CoreIsFree, Settled, FromRing
  <2>5. CASE queue' = queue /\ pc' = "failed"
    BY <1>1, <2>2, <2>3, <2>4, <2>5 DEF LastWrites, QueueFaithful, WindowCovers,
       SourceReady, Settled
  <2>6. CASE pc' = "scaling"
    <3>1. queue = <<>>
      <4>1. CASE ge_pending = 0
        BY <4>1, <1>1, <2>1, NothingPending DEF Settled
      <4>2. CASE ge_pending > 0
        BY <4>2, <2>6 DEF ScaleOversized
      <4>. QED BY <4>1, <4>2, NBufAssumption DEF TypeOK
    <3>2. queue' = <<Blit(SourceOf, After(ge_next), req.frame)>>
      BY <2>6, <3>1 DEF ScaleOversized
    <3>3. Len(queue') = 1 /\ DOMAIN queue' = {1} /\ queue' # <<>>
          /\ queue'[1] = Blit(SourceOf, After(ge_next), req.frame)
      BY <3>2
    <3>4. LastWrites' /\ QueueFaithful' /\ WindowCovers'
      BY <1>1, <2>2, <2>6, <3>3 DEF LastWrites, QueueFaithful, WindowCovers, Settled, Blit
    <3>5. SourceOf' = SourceOf /\ After(ge_next)' = After(ge_next)
      BY <1>1 DEF SourceOf, DirectRaw, After
    <3>6. SourceReady'
      BY <1>1, <2>2, <2>6, <3>3, <3>5 DEF SourceReady, Blit
    <3>. QED BY <3>4, <3>6
  <2>. QED BY <2>5, <2>6 DEF ScaleOversized
<1>. QED BY <1>2, <1>3 DEF QueueOwned

LEMMA ShowOwned ==
  ASSUME TypeOK, HostPhase, CoreIsFree, QueueOwned, ShowScaled
  PROVE  CoreIsFree' /\ QueueOwned'
<1>. USE DEF ring, setup, panel, mem, call
<1>1. /\ UNCHANGED <<content, ge, pause_ge_disabled, ge_next, ge_buffers, ge_pending, req>>
      /\ pc = "scaling" /\ pc' \in {"scaled", "failed"}
  BY DEF ShowScaled
<1>2. CoreIsFree'
  BY <1>1 DEF CoreIsFree, Settled, InPause
<1>3. ASSUME GEInUse' PROVE (LastWrites /\ QueueFaithful /\ WindowCovers /\ SourceReady)'
  <2>1. GEInUse
    BY <1>1, <1>3 DEF GEInUse
  <2>2. LastWrites /\ QueueFaithful /\ SourceReady
    BY <2>1 DEF QueueOwned
  <2>3. CASE queue' = queue /\ pc' = "failed"
    BY <1>1, <2>2, <2>3 DEF LastWrites, QueueFaithful, WindowCovers, SourceReady, Settled,
       InVideo
  <2>4. CASE queue = <<>> /\ queue' = <<Blit(After(ge_next), Panel, req.frame)>>
             /\ pc' = "scaled"
    <3>1. Len(queue') = 1 /\ DOMAIN queue' = {1} /\ queue' # <<>>
          /\ queue'[1] = Blit(After(ge_next), Panel, req.frame)
      BY <2>4
    <3>2. content[After(ge_next)] = req.frame /\ content[req.data] = req.frame
      BY <1>1, <2>2, <2>4 DEF SourceReady, InVideo
    <3>3. LastWrites' /\ QueueFaithful' /\ WindowCovers'
      BY <1>1, <2>4, <3>1, <3>2 DEF LastWrites, QueueFaithful, WindowCovers, Settled, Blit
    <3>4. SourceReady'
      BY <1>1, <2>4, <3>1, <3>2, Addresses DEF SourceReady, Blit
    <3>. QED BY <3>3, <3>4
  <2>. QED BY <2>3, <2>4 DEF ShowScaled
<1>. QED BY <1>2, <1>3 DEF QueueOwned

(* The menu is copied into a surface of an empty ring.                     *)
LEMMA PauseCopyOwned ==
  ASSUME TypeOK, HostPhase, CoreIsFree, QueueOwned, PauseCopy
  PROVE  CoreIsFree' /\ QueueOwned'
<1>. USE DEF ring, setup, panel, mem, call
<1>1. /\ UNCHANGED <<ge, pause_ge_disabled, ge_next, ge_buffers, ge_pending, req>>
      /\ pc = "pause_copy" /\ pc' \in {"pause_sync", "pause_failed"}
      /\ content' = [content EXCEPT ![ge_next] = req.frame]
  BY DEF PauseCopy
<1>2. GEInUse /\ ge /\ ge_pending = 0
  BY <1>1 DEF HostPhase, GEInUse
<1>3. queue = <<>>
  BY <1>1, <1>2, NothingPending DEF Settled
<1>4. queue' = <<>> \/ queue' = <<Blit(ge_next, Panel, req.frame)>>
  BY <1>3 DEF PauseCopy
<1>5. content'[ge_next] = req.frame /\ ge_next \in Surface
  BY <1>1 DEF TypeOK, Memory
<1>6. \A i \in DOMAIN queue' : i = 1 /\ queue'[i] = Blit(ge_next, Panel, req.frame)
  BY <1>4
<1>7. CoreIsFree'
  BY <1>5, <1>6 DEF CoreIsFree, FromRing, Blit
<1>8. Len(queue') <= 1
  <2>1. CASE queue' = <<>>
    BY <2>1
  <2>2. CASE queue' = <<Blit(ge_next, Panel, req.frame)>>
    BY <2>2
  <2>. QED BY <1>4, <2>1, <2>2
<1>9. LastWrites' /\ QueueFaithful' /\ WindowCovers'
  <2>1. LastWrites'
    BY <1>6, Addresses DEF LastWrites, Blit
  <2>2. QueueFaithful'
    BY <1>5, <1>6 DEF QueueFaithful, Blit
  <2>3. WindowCovers'
    BY <1>1, <1>8 DEF WindowCovers, Settled
  <2>. QED BY <2>1, <2>2, <2>3
<1>10. SourceReady'
  BY <1>1 DEF SourceReady, InVideo
<1>. QED BY <1>7, <1>9, <1>10 DEF QueueOwned

(* A blit of ge_next joins the ring; a raw blit is on its way to a fence.  *)
LEMMA SubmitOwned ==
  ASSUME TypeOK, HostPhase, CoreIsFree, QueueOwned, SubmitToPanel
  PROVE  CoreIsFree' /\ QueueOwned'
<1>. USE DEF ring, setup, panel, mem, call
<1>1. /\ UNCHANGED <<content, ge, pause_ge_disabled, ge_buffers, req, overlays>>
      /\ pc = "submit" /\ pc' \in {"fence", "done", "failed"}
      /\ pc' = "done" => ~DirectRaw /\ ge_next' = After(ge_next) /\ ge_pending' = ge_pending + 1
  BY DEF SubmitToPanel, NeedsFence
<1>2. ge /\ ge_pending < ge_buffers
  BY <1>1 DEF HostPhase
<1>3. \A i \in DOMAIN queue : FromRing(queue[i])
  BY <1>1, <1>2 DEF CoreIsFree, Settled
<1>4. PanelBlit \in Node /\ PanelBlit.src = SourceOf /\ PanelBlit.dst = Panel
      /\ PanelBlit.frame = req.frame
  BY SourceTyped DEF PanelBlit, Blit
<1>5. \/ queue' = queue /\ pc' = "failed"
      \/ \E o \in OverlayNodes :
           queue' = Append(queue, PanelBlit) \o o /\ (pc' = "done" => o = <<>>)
  BY <1>1 DEF SubmitToPanel, OverlayNodes
<1>6. ASSUME queue' = queue, pc' = "failed" PROVE CoreIsFree' /\ QueueOwned'
  <2>1. CoreIsFree' /\ WindowCovers'
    BY <1>6 DEF CoreIsFree, WindowCovers, Settled, InPause
  <2>2. GEInUse' => LastWrites' /\ QueueFaithful'
    BY <1>1, <1>6 DEF GEInUse, QueueOwned, LastWrites, QueueFaithful
  <2>3. GEInUse' => SourceReady'
    BY <1>1, <1>3, <1>6, Addresses DEF GEInUse, QueueOwned, SourceReady, InVideo, FromRing
  <2>. QED BY <2>1, <2>2, <2>3 DEF QueueOwned
<1>7. ASSUME NEW o \in OverlayNodes, queue' = Append(queue, PanelBlit) \o o,
             pc' = "done" => o = <<>>
      PROVE  CoreIsFree' /\ QueueOwned'
  <2>1. /\ DOMAIN queue \subseteq DOMAIN queue'
        /\ \A i \in DOMAIN queue' :
             \/ i \in DOMAIN queue /\ queue'[i] = queue[i]
             \/ queue'[i] = PanelBlit
             \/ /\ pc' # "done" /\ queue'[i].dst = Hud
                /\ queue'[i].frame = content[queue'[i].src]
    <3>1. CASE o = <<>>
      <4>1. queue' = Append(queue, PanelBlit)
        BY <1>4, <1>7, <3>1, PushFacts DEF TypeOK
      <4>. QED BY <1>4, <4>1, PushFacts DEF TypeOK
    <3>2. CASE o # <<>>
      <4>1. PICK j \in DOMAIN overlays : o = <<Blit(overlays[j], Hud, content[overlays[j]])>>
        BY <3>2 DEF OverlayNodes
      <4>2. queue' = Append(Append(queue, PanelBlit), Blit(overlays[j], Hud, content[overlays[j]]))
        BY <1>4, <1>7, <4>1, PushFacts DEF TypeOK
      <4>3. Append(queue, PanelBlit) \in Seq(Node)
        BY <1>4, PushFacts DEF TypeOK
      <4>4. Blit(overlays[j], Hud, content[overlays[j]]) \in Node
        <5>1. overlays[j] \in Memory
          BY DEF TypeOK, Memory
        <5>. QED BY <5>1, BlitTyped DEF TypeOK
      <4>5. \A i \in DOMAIN queue' :
              queue'[i] = IF i = Len(Append(queue, PanelBlit)) + 1
                          THEN Blit(overlays[j], Hud, content[overlays[j]])
                          ELSE Append(queue, PanelBlit)[i]
        BY <4>2, <4>3, <4>4, PushFacts
      <4>6. DOMAIN queue' = DOMAIN Append(queue, PanelBlit)
                              \cup {Len(Append(queue, PanelBlit)) + 1}
        BY <4>2, <4>3, <4>4, PushFacts
      <4>7. /\ DOMAIN Append(queue, PanelBlit) = DOMAIN queue \cup {Len(queue) + 1}
            /\ \A i \in DOMAIN Append(queue, PanelBlit) :
                 Append(queue, PanelBlit)[i] = IF i = Len(queue) + 1 THEN PanelBlit
                                               ELSE queue[i]
        BY <1>4, PushFacts DEF TypeOK
      <4>. QED BY <1>7, <3>2, <4>5, <4>6, <4>7 DEF Blit
    <3>. QED BY <3>1, <3>2
  <2>2. \A i \in DOMAIN queue' : queue'[i].dst \notin Surface
    BY <1>3, <1>4, <2>1, Addresses DEF FromRing
  <2>3. CoreIsFree'
    <3>1. pc' = "done" => SourceOf \in Surface
      BY <1>1 DEF SourceOf, TypeOK
    <3>. QED BY <1>1, <1>3, <1>4, <2>1, <3>1 DEF CoreIsFree, Settled, InPause, FromRing
  <2>4. ASSUME GEInUse' PROVE (LastWrites /\ QueueFaithful /\ WindowCovers /\ SourceReady)'
    <3>1. GEInUse
      BY <1>1, <2>4 DEF GEInUse
    <3>2. content[SourceOf] = req.frame /\ content[req.data] = req.frame
      BY <1>1, <3>1 DEF QueueOwned, SourceReady, InVideo
    <3>3. LastWrites'
      BY <2>2 DEF LastWrites
    <3>4. \A i \in DOMAIN queue : content[queue[i].src] = queue[i].frame
      BY <3>1 DEF QueueOwned, QueueFaithful
    <3>5. QueueFaithful'
      BY <1>1, <1>4, <2>1, <3>2, <3>4 DEF QueueFaithful
    <3>6. WindowCovers'
      <4>1. CASE pc' = "done"
        <5>1. \A i \in DOMAIN queue : InWindow(queue[i].src)
          BY <1>1, <3>1 DEF QueueOwned, WindowCovers, Settled
        <5>2. \A s \in Surface : s = ge_next \/ InWindow(s) => InWindow(s)'
          BY <1>1, <1>2, <4>1, WindowMoves
        <5>3. \A i \in DOMAIN queue' :
                \E s \in Surface : queue'[i].src = s /\ (s = ge_next \/ InWindow(s))
          BY <1>1, <1>3, <1>4, <2>1, <4>1, <5>1 DEF FromRing, SourceOf, TypeOK
        <5>4. \A i \in DOMAIN queue' :
                \E s \in Surface : queue'[i].src = s /\ InWindow(s)'
          BY <5>2, <5>3
        <5>. QED BY <4>1, <5>4 DEF WindowCovers, InWindow, Age
      <4>2. CASE pc' # "done"
        BY <1>1, <4>2 DEF WindowCovers, Settled
      <4>. QED BY <4>1, <4>2
    <3>7. SourceReady'
      BY <1>1, <2>2, <3>2 DEF SourceReady
    <3>. QED BY <3>3, <3>5, <3>6, <3>7
  <2>. QED BY <2>3, <2>4 DEF QueueOwned
<1>. QED BY <1>5, <1>6, <1>7

(* The engine takes the oldest command; only the last one writes a surface *)
(* and then nothing is left that could have wanted its old contents.       *)
LEMMA EngineOwned ==
  ASSUME TypeOK, HostPhase, CoreIsFree, QueueOwned, EngineComplete
  PROVE  CoreIsFree' /\ QueueOwned'
<1>. USE DEF ring, setup, panel, mem, call
<1>1. /\ UNCHANGED <<ge, pause_ge_disabled, ge_buffers, ge_next, ge_pending, req, pc>>
      /\ queue # <<>> /\ queue' = Tail(queue)
  BY DEF EngineComplete
<1>2. /\ Head(queue) = queue[1] /\ Head(queue) \in Node
      /\ Len(queue) \in Nat \ {0} /\ Len(queue') = Len(queue) - 1
      /\ \A i \in DOMAIN queue' : i + 1 \in DOMAIN queue /\ queue'[i] = queue[i + 1]
  BY <1>1, PopFacts DEF TypeOK
<1>3. DOMAIN queue' = 1 .. Len(queue') /\ DOMAIN queue = 1 .. Len(queue)
  BY <1>1, <1>2, PopFacts DEF TypeOK
<1>4. CoreIsFree'
  BY <1>1, <1>2 DEF CoreIsFree, FromRing
<1>5. ASSUME GEInUse' PROVE (LastWrites /\ QueueFaithful /\ WindowCovers /\ SourceReady)'
  <2>1. GEInUse /\ LastWrites /\ QueueFaithful /\ WindowCovers /\ SourceReady
    BY <1>1, <1>5 DEF GEInUse, QueueOwned
  <2>2. LastWrites'
    BY <1>2, <1>3, <2>1 DEF LastWrites
  <2>3. WindowCovers'
    BY <1>1, <1>2, <2>1 DEF WindowCovers, InWindow, Age
  <2>4. CASE Head(queue).dst \notin Surface
    <3>1. content' = content
      BY <2>4 DEF EngineComplete
    <3>2. QueueFaithful'
      BY <1>2, <2>1, <3>1 DEF QueueFaithful
    <3>3. SourceReady'
      <4>1. ~(pc = "staged" /\ Len(queue) = 1)
        BY <1>2, <2>1, <2>4 DEF SourceReady, Blit, TypeOK
      <4>2. pc # "scaling"
        BY <1>1, <1>2, <2>1, <2>4, AfterTyped DEF SourceReady, Blit, HostPhase
      <4>3. pc = "staged" => queue' # <<>> /\ queue'[Len(queue')] = queue[Len(queue)]
        BY <1>2, <1>3, <4>1, EmptyFacts
      <4>. QED BY <1>1, <1>2, <2>1, <3>1, <4>2, <4>3 DEF SourceReady, SourceOf, DirectRaw
    <3>. QED BY <2>1, <2>2, <2>3, <3>2, <3>3
  <2>5. CASE Head(queue).dst \in Surface
    <3>1. Len(queue) = 1 /\ queue' = <<>>
      BY <1>1, <1>2, <1>3, <2>1, <2>5 DEF LastWrites, TypeOK
    <3>2. content' = [content EXCEPT ![Head(queue).dst] = content[Head(queue).src]]
      <4>1. Read(Head(queue).src, content[Head(queue).src]) = {content[Head(queue).src]}
        BY <2>1 DEF GEInUse, Read
      <4>. QED BY <2>5, <4>1 DEF EngineComplete
    <3>3. content[Head(queue).src] = Head(queue).frame
      BY <1>2, <1>3, <2>1 DEF QueueFaithful
    <3>4. QueueFaithful'
      BY <3>1, EmptyFacts DEF QueueFaithful
    <3>5. pc \in InVideo => Head(queue).frame = req.frame /\ content[req.data] = req.frame
      BY <1>2, <1>3, <2>1, <2>5 DEF SourceReady
    <3>6. pc \in InVideo => \A m \in Memory : content[m] = req.frame => content'[m] = req.frame
      BY <3>2, <3>3, <3>5 DEF TypeOK
    <3>7. pc \in InVideo => content'[req.data] = req.frame
      BY <3>5, <3>6 DEF TypeOK, Request, Memory
    <3>8. pc \notin Settled
      BY <1>2, <1>3, <2>1, <2>5, Addresses DEF GEInUse, CoreIsFree, FromRing
    <3>9. pc = "staged" => content'[ge_next] = req.frame
      BY <1>2, <2>1, <3>1, <3>2, <3>3, <3>5 DEF SourceReady, Blit, TypeOK, Memory, InVideo
    <3>10. pc = "scaling" => content'[After(ge_next)] = req.frame
      BY <1>1, <1>2, <2>1, <3>1, <3>2, <3>3, <3>5, AfterTyped
         DEF SourceReady, Blit, TypeOK, Memory, InVideo, GEInUse
    <3>11. After(ge_next)' = After(ge_next)
      BY <1>1 DEF After
    <3>12. SourceReady'
      BY <1>1, <3>1, <3>7, <3>8, <3>9, <3>10, <3>11, EmptyFacts DEF SourceReady, Settled
    <3>. QED BY <2>2, <2>3, <3>4, <3>12
  <2>. QED BY <2>4, <2>5
<1>. QED BY <1>4, <1>5 DEF QueueOwned
-----------------------------------------------------------------------------
LEMMA InitOwned == Init => CoreIsFree /\ QueueOwned
<1>1. Init => queue = <<>> /\ pc = "core"
  BY DEF Init
<1>2. queue = <<>> /\ pc = "core" => CoreIsFree /\ QueueOwned
  BY EmptyFacts DEF CoreIsFree, QueueOwned, LastWrites, QueueFaithful, WindowCovers,
     SourceReady, InVideo
<1>. QED BY <1>1, <1>2

LEMMA NextOwned == RingOwnership /\ [Next]_vars => RingOwnership'
<1>. SUFFICES ASSUME RingOwnership, [Next]_vars PROVE RingOwnership'
  OBVIOUS
<1>1. TypeOK' /\ HostPhase'
  BY NextTyped DEF RingOwnership
<1>2. TypeOK /\ HostPhase /\ CoreIsFree /\ QueueOwned
  BY DEF RingOwnership
<1>3. CoreIsFree' /\ QueueOwned'
  <2>1. CASE UNCHANGED vars
    BY <1>2, <2>1, QuietOwned
  <2>2. CASE EngineComplete
    BY <1>2, <2>2, EngineOwned
  <2>3. CASE Callback
    BY <1>2, <2>3, FenceOwned, DrawOwned, VideoOwned, QuietOwned DEF Callback
  <2>4. CASE Present
    BY <1>2, <2>4, FenceOwned, QuietOwned, StageOwned, CopyOwned, ScaleOwned, ShowOwned,
       SubmitOwned, ResetOwned, OffOwned, DrawOwned DEF Present
  <2>5. CASE OpenMenu \/ Pause \/ ClosePlatform
    BY <1>2, <2>5, FenceOwned, QuietOwned, PauseCopyOwned, ResetOwned, OffOwned DEF Pause
  <2>. QED BY <2>1, <2>2, <2>3, <2>4, <2>5 DEF Next
<1>. QED BY <1>1, <1>3 DEF RingOwnership

(* The ring keeps track of what the engine may still read or write, for    *)
(* every number of surfaces, every interleaving and every failure.         *)
THEOREM RingOwned == Spec => []RingOwnership
<1>1. Init => RingOwnership
  BY InitTyped, InitOwned DEF RingOwnership
<1>. QED BY <1>1, NextOwned, PTL DEF Spec

(* The CPU never modifies a surface referenced by an outstanding command   *)
(* while the GE is in use (the ownership comment of ge_present).           *)
THEOREM NeverOverwritten == Spec => []NoOverwrite
<1>1. RingOwnership => NoOverwrite
  BY DEF RingOwnership, QueueOwned, QueueFaithful, NoOverwrite
<1>. QED BY <1>1, RingOwned, PTL

(* When a callback has returned, no command reads the core's memory: the   *)
(* fences of the staging and raw paths.                                    *)
THEOREM CoreAlwaysReleased == Spec => []CoreReleased
<1>1. RingOwnership => CoreReleased
  BY DEF RingOwnership, CoreIsFree, CoreReleased, FromRing, Settled, InPause
<1>. QED BY <1>1, RingOwned, PTL
-----------------------------------------------------------------------------
(* The frame on the panel.                                                 *)

(* Completing the oldest command brings the frame nearer to the panel or   *)
(* onto it.                                                                *)
LEMMA EngineShows ==
  ASSUME FramesShown, EngineComplete
  PROVE  LastToPanel' /\ FirstFrame'
<1>. USE DEF ring, setup, panel, mem, call
<1>1. /\ UNCHANGED <<ge, pause_ge_disabled, orphaned, first_frame, req, pc>>
      /\ queue # <<>> /\ queue' = Tail(queue) /\ TypeOK
  BY DEF EngineComplete, FramesShown, RingOwnership
<1>2. /\ Head(queue) = queue[1] /\ Head(queue) \in Node
      /\ Len(queue) \in Nat \ {0} /\ Len(queue') = Len(queue) - 1
      /\ \A i \in DOMAIN queue' : i + 1 \in DOMAIN queue /\ queue'[i] = queue[i + 1]
  BY <1>1, PopFacts DEF TypeOK
<1>3. DOMAIN queue' = 1 .. Len(queue') /\ DOMAIN queue = 1 .. Len(queue) /\ 1 \in DOMAIN queue
  BY <1>1, <1>2, PopFacts DEF TypeOK
<1>4. ge \/ queue[1].src = Core =>
        shown' = IF queue[1].dst = Panel THEN content[queue[1].src] ELSE shown
  <2>1. ge \/ queue[1].src = Core =>
          Read(queue[1].src, content[queue[1].src]) = {content[queue[1].src]}
    BY DEF Read
  <2>. QED BY <1>2, <2>1 DEF EngineComplete
<1>5. LastToPanel'
  <2>. SUFFICES ASSUME GEInUse', pc \in {"scaled", "fence", "done"}
                PROVE  \/ /\ shown' = req.frame
                          /\ \A i \in DOMAIN queue' : queue'[i].dst # Panel
                       \/ \E i \in DOMAIN queue' :
                            /\ queue'[i].dst = Panel /\ queue'[i].frame = req.frame
                            /\ \A j \in DOMAIN queue' : j > i => queue'[j].dst # Panel
    BY <1>1 DEF LastToPanel
  <2>1. GEInUse /\ LastToPanel
    BY <1>1 DEF GEInUse, FramesShown
  <2>2. ge /\ content[queue[1].src] = queue[1].frame
    BY <1>3, <2>1 DEF FramesShown, RingOwnership, QueueOwned, QueueFaithful, GEInUse
  <2>3. CASE shown = req.frame /\ \A i \in DOMAIN queue : queue[i].dst # Panel
    BY <1>2, <1>3, <1>4, <2>2, <2>3
  <2>4. ASSUME NEW i \in DOMAIN queue, queue[i].dst = Panel, queue[i].frame = req.frame,
               \A j \in DOMAIN queue : j > i => queue[j].dst # Panel
        PROVE  \/ /\ shown' = req.frame
                  /\ \A k \in DOMAIN queue' : queue'[k].dst # Panel
               \/ \E k \in DOMAIN queue' :
                    /\ queue'[k].dst = Panel /\ queue'[k].frame = req.frame
                    /\ \A j \in DOMAIN queue' : j > k => queue'[j].dst # Panel
    <3>1. CASE i = 1
      <4>1. shown' = req.frame
        BY <1>4, <2>2, <2>4, <3>1
      <4>2. \A k \in DOMAIN queue' : k + 1 > i
        BY <1>3, <3>1
      <4>. QED BY <1>2, <2>4, <4>1, <4>2
    <3>2. CASE i # 1
      <4>1. i - 1 \in DOMAIN queue' /\ (i - 1) + 1 = i
        BY <1>2, <1>3, <3>2
      <4>2. queue'[i - 1] = queue[i]
        BY <1>2, <4>1
      <4>3. \A j \in DOMAIN queue' : j > i - 1 => j + 1 > i
        BY <1>3, <4>1
      <4>. QED BY <1>2, <2>4, <4>1, <4>2, <4>3
    <3>. QED BY <3>1, <3>2
  <2>. QED BY <2>1, <2>3, <2>4 DEF LastToPanel
<1>6. FirstFrame'
  <2>. SUFFICES ASSUME ~first_frame, ~pause_ge_disabled, ~orphaned
                PROVE  /\ pc \in Settled \ {"done"} => queue' = <<>>
                       /\ ~ge /\ pc \in InPause => queue' = <<>>
                       /\ pc \in InVideo \cup {"disable", "cpu", "done"} =>
                            \A i, j \in DOMAIN queue' : queue'[i].dst = Panel =>
                              content'[queue'[i].src] = req.frame /\ queue'[j].dst \notin Surface
                       /\ pc = "done" => shown' = req.frame
    BY <1>1 DEF FirstFrame
  <2>1. pc \notin Settled \ {"done"} /\ ~(~ge /\ pc \in InPause)
    BY <1>1 DEF FramesShown, FirstFrame
  <2>2. ASSUME pc \in InVideo \cup {"disable", "cpu", "done"},
               NEW i \in DOMAIN queue', NEW j \in DOMAIN queue', queue'[i].dst = Panel
        PROVE  content'[queue'[i].src] = req.frame /\ queue'[j].dst \notin Surface
    <3>1. \A k \in DOMAIN queue :
            content[queue[i + 1].src] = req.frame /\ queue[k].dst \notin Surface
      BY <1>2, <2>2 DEF FramesShown, FirstFrame
    <3>2. content' = content
      BY <1>2, <1>3, <3>1 DEF EngineComplete
    <3>. QED BY <1>2, <3>1, <3>2
  <2>3. pc = "done" => shown' = req.frame
    <3>1. pc = "done" => ge \/ queue[1].src = Core
      BY <1>3 DEF FramesShown, ReadsBacked
    <3>. QED BY <1>3, <1>4, <3>1 DEF FramesShown, FirstFrame
  <2>. QED BY <2>1, <2>2, <2>3
<1>. QED BY <1>5, <1>6

(* The panel blit of a frame that fits, with its strips.                   *)
LEMMA SubmitShows ==
  ASSUME FramesShown, SubmitToPanel
  PROVE  LastToPanel' /\ FirstFrame'
<1>. USE DEF ring, setup, panel, mem, call
<1>1. /\ UNCHANGED <<content, shown, first_frame, ge, pause_ge_disabled, orphaned, req>>
      /\ pc = "submit" /\ pc' \in {"fence", "done", "failed"}
      /\ ~first_frame => pc' # "done"
      /\ TypeOK
  BY DEF SubmitToPanel, NeedsFence, FramesShown, RingOwnership
<1>2. PanelBlit \in Node /\ PanelBlit.src = SourceOf /\ PanelBlit.dst = Panel
      /\ PanelBlit.frame = req.frame
  BY <1>1, SourceTyped DEF PanelBlit, Blit
<1>3. \/ queue' = queue /\ pc' = "failed"
      \/ \E o \in OverlayNodes : queue' = Append(queue, PanelBlit) \o o
  BY <1>1 DEF SubmitToPanel, OverlayNodes
<1>4. ~first_frame /\ ~pause_ge_disabled /\ ~orphaned =>
        queue = <<>> /\ content[SourceOf] = req.frame
  <2>1. ge
    BY <1>1 DEF FramesShown, RingOwnership, HostPhase
  <2>. QED BY <1>1, <2>1 DEF FramesShown, FirstFrame, Settled, RingOwnership, QueueOwned,
             SourceReady, GEInUse
<1>5. ASSUME queue' = queue, pc' = "failed" PROVE LastToPanel' /\ FirstFrame'
  BY <1>1, <1>4, <1>5, EmptyFacts DEF LastToPanel, FirstFrame, Settled, InPause
<1>6. ASSUME NEW o \in OverlayNodes, queue' = Append(queue, PanelBlit) \o o
      PROVE  LastToPanel' /\ FirstFrame'
  <2>1. /\ Append(queue, PanelBlit) \in Seq(Node)
        /\ Len(queue) + 1 \in DOMAIN queue' /\ queue'[Len(queue) + 1] = PanelBlit
        /\ \A i \in DOMAIN queue' :
             \/ i \in DOMAIN queue
             \/ i = Len(queue) + 1
             \/ i = Len(queue) + 2 /\ queue'[i].dst = Hud
    <3>1. /\ Append(queue, PanelBlit) \in Seq(Node)
          /\ Len(Append(queue, PanelBlit)) = Len(queue) + 1
          /\ DOMAIN Append(queue, PanelBlit) = DOMAIN queue \cup {Len(queue) + 1}
          /\ Append(queue, PanelBlit)[Len(queue) + 1] = PanelBlit
      BY <1>1, <1>2, PushFacts DEF TypeOK
    <3>2. CASE o = <<>>
      <4>1. queue' = Append(queue, PanelBlit)
        BY <1>6, <3>1, <3>2
      <4>. QED BY <3>1, <4>1
    <3>3. CASE o # <<>>
      <4>1. PICK j \in DOMAIN overlays : o = <<Blit(overlays[j], Hud, content[overlays[j]])>>
        BY <3>3 DEF OverlayNodes
      <4>2. Blit(overlays[j], Hud, content[overlays[j]]) \in Node
        <5>1. overlays[j] \in Memory
          BY <1>1 DEF TypeOK, Memory
        <5>. QED BY <1>1, <5>1, BlitTyped DEF TypeOK
      <4>3. queue' = Append(Append(queue, PanelBlit), Blit(overlays[j], Hud, content[overlays[j]]))
        BY <1>6, <3>1, <4>1, <4>2
      <4>4. /\ DOMAIN queue' = DOMAIN Append(queue, PanelBlit) \cup {(Len(queue) + 1) + 1}
            /\ \A i \in DOMAIN queue' :
                 queue'[i] = IF i = (Len(queue) + 1) + 1
                             THEN Blit(overlays[j], Hud, content[overlays[j]])
                             ELSE Append(queue, PanelBlit)[i]
        BY <3>1, <4>2, <4>3, PushFacts
      <4>5. Len(queue) \in Nat
        BY <1>1 DEF TypeOK
      <4>. QED BY <3>1, <4>4, <4>5 DEF Blit
    <3>. QED BY <3>2, <3>3
  <2>2. Len(queue) \in Nat /\ DOMAIN queue = 1 .. Len(queue)
    BY <1>1 DEF TypeOK
  <2>3. LastToPanel'
    <3>1. \A j \in DOMAIN queue' : j > Len(queue) + 1 => queue'[j].dst # Panel
      BY <2>1, <2>2, Addresses
    <3>2. \E i \in DOMAIN queue' :
            /\ queue'[i].dst = Panel /\ queue'[i].frame = req.frame
            /\ \A j \in DOMAIN queue' : j > i => queue'[j].dst # Panel
      BY <1>2, <2>1, <3>1
    <3>. QED BY <1>1, <3>2 DEF LastToPanel
  <2>4. FirstFrame'
    <3>1. ASSUME ~first_frame, ~pause_ge_disabled, ~orphaned, NEW i \in DOMAIN queue'
          PROVE  /\ queue'[i].dst \notin Surface
                 /\ queue'[i].dst = Panel => content[queue'[i].src] = req.frame
      <4>1. i = Len(queue) + 1 \/ queue'[i].dst = Hud
        BY <1>4, <2>1, <3>1, EmptyFacts
      <4>. QED BY <1>2, <1>4, <2>1, <3>1, <4>1, Addresses
    <3>. QED BY <1>1, <3>1 DEF FirstFrame, Settled, InPause
  <2>. QED BY <2>3, <2>4
<1>. QED BY <1>3, <1>5, <1>6

(* The scaled frame is blitted from the surface the scaler has written.    *)
LEMMA ScaleShows ==
  ASSUME FramesShown, ScaleOversized \/ ShowScaled
  PROVE  LastToPanel' /\ FirstFrame'
<1>. USE DEF ring, setup, panel, mem, call
<1>1. /\ UNCHANGED <<content, shown, first_frame, ge, pause_ge_disabled, orphaned, req>>
      /\ pc \in {"submit", "scaling"} /\ pc' \in {"scaling", "scaled", "failed"} /\ TypeOK
  BY DEF ScaleOversized, ShowScaled, FramesShown, RingOwnership
<1>2. ge
  BY <1>1 DEF FramesShown, RingOwnership, HostPhase
<1>3. CASE ScaleOversized
  <2>1. pc = "submit" /\ pc' \in {"scaling", "failed"}
        /\ (queue' = queue \/ queue' = Append(queue, Blit(SourceOf, After(ge_next), req.frame)))
    BY <1>3 DEF ScaleOversized
  <2>2. LastToPanel'
    BY <2>1 DEF LastToPanel
  <2>3. ~first_frame /\ ~pause_ge_disabled /\ ~orphaned => queue = <<>>
    BY <2>1 DEF FramesShown, FirstFrame, Settled
  <2>4. ASSUME ~first_frame, ~pause_ge_disabled, ~orphaned, NEW i \in DOMAIN queue'
        PROVE  queue'[i].dst # Panel
    <3>1. Blit(SourceOf, After(ge_next), req.frame) \in Node
          /\ Blit(SourceOf, After(ge_next), req.frame).dst \in Surface
      BY <1>1, <1>2, BlitTyped, SourceTyped, AfterTyped DEF TypeOK, Request, Blit
    <3>2. queue' = <<Blit(SourceOf, After(ge_next), req.frame)>> \/ queue' = <<>>
      BY <2>1, <2>3, <2>4
    <3>. QED BY <2>4, <3>1, <3>2, OneFacts, EmptyFacts, Addresses
  <2>5. FirstFrame'
    BY <1>1, <2>1, <2>4 DEF FirstFrame, Settled, InPause
  <2>. QED BY <2>2, <2>5
<1>4. CASE ShowScaled
  <2>1. pc = "scaling" /\ pc' \in {"scaled", "failed"}
    BY <1>4 DEF ShowScaled
  <2>2. CASE queue' = queue /\ pc' = "failed"
    BY <1>1, <2>1, <2>2 DEF LastToPanel, FirstFrame, FramesShown, Settled, InPause, InVideo
  <2>3. CASE queue = <<>> /\ queue' = <<Blit(After(ge_next), Panel, req.frame)>>
             /\ pc' = "scaled"
    <3>1. \A i \in DOMAIN queue' : i = 1 /\ queue'[i] = Blit(After(ge_next), Panel, req.frame)
      BY <2>3
    <3>2. 1 \in DOMAIN queue'
      BY <2>3
    <3>3. LastToPanel'
      BY <1>1, <3>1, <3>2 DEF LastToPanel, Blit
    <3>4. ~pause_ge_disabled => content[After(ge_next)] = req.frame
      BY <1>2, <2>1, <2>3 DEF FramesShown, RingOwnership, QueueOwned, SourceReady, GEInUse
    <3>5. FirstFrame'
      BY <1>1, <2>3, <3>1, <3>4, Addresses DEF FirstFrame, Settled, InPause, Blit
    <3>. QED BY <3>3, <3>5
  <2>. QED BY <1>4, <2>2, <2>3 DEF ShowScaled
<1>. QED BY <1>3, <1>4

(* The fences of ge_present: an empty queue means the frame is shown.      *)
LEMMA FenceShows ==
  ASSUME FramesShown, ScaledFence \/ FinalFence
  PROVE  LastToPanel' /\ FirstFrame'
<1>. USE DEF ring, setup, panel, mem, call
<1>1. /\ UNCHANGED <<content, shown, queue, first_frame, ge, pause_ge_disabled, orphaned, req>>
      /\ pc \in {"scaled", "fence"}
      /\ \/ pc' = "done" /\ queue = <<>>
         \/ pc' = "failed"
  BY DEF ScaledFence, FinalFence
<1>2. ge
  BY <1>1 DEF FramesShown, RingOwnership, HostPhase
<1>3. ~pause_ge_disabled /\ queue = <<>> => shown = req.frame
  BY <1>1, <1>2, EmptyFacts DEF FramesShown, LastToPanel, GEInUse
<1>4. LastToPanel'
  BY <1>1 DEF FramesShown, LastToPanel, GEInUse
<1>5. FirstFrame'
  BY <1>1, <1>3 DEF FramesShown, FirstFrame, Settled, InPause, InVideo
<1>. QED BY <1>4, <1>5

(* Every other step of video() leaves queue and panel alone, empties the   *)
(* queue, or writes the panel by the CPU.                                  *)
LEMMA PresentShows ==
  ASSUME FramesShown,
         \/ Enter \/ UseInPlace \/ StageByGE \/ StageFence \/ CopyByCPU \/ PrepareStrip
         \/ ResetAndRetry \/ GiveUpOnGE \/ DisableGE \/ CpuPresent \/ VideoReturns
  PROVE  LastToPanel' /\ FirstFrame'
<1>. USE DEF ring, setup, panel, mem, call
<1>1. TypeOK /\ HostPhase
  BY DEF FramesShown, RingOwnership
<1>2. LastToPanel'
  BY <1>1 DEF LastToPanel, GEInUse, HostPhase, Enter, UseInPlace, StageByGE, StageFence,
     CopyByCPU, PrepareStrip, ResetAndRetry, GiveUpOnGE, DisableGE, CpuPresent, VideoReturns
<1>3. CASE VideoReturns
  BY <1>2, <1>3 DEF FirstFrame, VideoReturns
<1>4. CASE ResetAndRetry
  BY <1>2, <1>4, EmptyFacts DEF FirstFrame, ResetAndRetry
<1>5. CASE Enter \/ UseInPlace \/ StageFence
  <2>1. queue' = queue /\ UNCHANGED <<content, req, first_frame, ge, pause_ge_disabled, orphaned>>
    BY <1>5 DEF Enter, UseInPlace, StageFence
  <2>2. pc \in {"enter", "source", "staged"} /\ pc' \in {"source", "submit", "failed"}
        /\ (pc' # "failed" => pc # "staged" \/ queue = <<>>)
    BY <1>5 DEF Enter, UseInPlace, StageFence, StageFenced
  <2>. QED BY <1>2, <2>1, <2>2 DEF FramesShown, FirstFrame, Settled, InPause, InVideo
<1>6. CASE GiveUpOnGE \/ CpuPresent
  <2>1. queue' = queue /\ UNCHANGED <<content, req, first_frame, pause_ge_disabled, orphaned>>
    BY <1>6 DEF GiveUpOnGE, CpuPresent
  <2>2. pc \in {"failed", "cpu"} /\ pc' \in {"disable", "cpu", "done"}
        /\ (pc' = "done" => CpuPresent)
    BY <1>6 DEF GiveUpOnGE, CpuPresent
  <2>3. ~orphaned /\ pc' = "done" => shown' = req.frame
    <3>1. ~orphaned /\ pc' = "done" => req.data = Core
      BY <1>1, <2>2 DEF FramesShown, ReadsBacked, HostPhase, CpuPresent
    <3>. QED BY <2>2, <3>1 DEF CpuPresent, Read
  <2>. QED BY <1>2, <2>1, <2>2, <2>3 DEF FramesShown, FirstFrame, Settled, InPause, InVideo
<1>9. CASE DisableGE
  <2>1. /\ queue' = queue /\ UNCHANGED <<content, req, first_frame, pause_ge_disabled>>
        /\ pc = "disable" /\ pc' = "cpu" /\ ~orphaned
    BY <1>1, <1>9 DEF DisableGE, HostPhase, FramesShown, ReadsBacked
  <2>2. ~orphaned' => \A i \in DOMAIN queue : queue[i].src = Core
    BY <1>9 DEF DisableGE
  <2>. QED BY <1>2, <2>1, <2>2 DEF FramesShown, FirstFrame, Settled, InPause, InVideo
<1>7. CASE CopyByCPU \/ PrepareStrip
  <2>1. queue' = queue /\ UNCHANGED <<req, first_frame, pause_ge_disabled, orphaned>>
    BY <1>7 DEF CopyByCPU, PrepareStrip
  <2>2. pc \in {"source", "strip"} /\ pc' \in {"enter", "submit", "failed"}
    BY <1>7 DEF CopyByCPU, PrepareStrip
  <2>3. ~first_frame /\ ~pause_ge_disabled /\ ~orphaned => queue = <<>>
    BY <2>2 DEF FramesShown, FirstFrame, Settled
  <2>. QED BY <1>2, <2>1, <2>2, <2>3, EmptyFacts DEF FirstFrame
<1>8. CASE StageByGE
  <2>1. /\ UNCHANGED <<req, first_frame, pause_ge_disabled, orphaned>>
        /\ pc = "source" /\ pc' \in {"staged", "failed"}
        /\ queue' = queue \/ queue' = Append(queue, Blit(req.data, ge_next, req.frame))
    BY <1>8 DEF StageByGE
  <2>2. ~first_frame /\ ~pause_ge_disabled /\ ~orphaned => queue = <<>>
    BY <2>1 DEF FramesShown, FirstFrame, Settled
  <2>3. Blit(req.data, ge_next, req.frame) \in Node
        /\ Blit(req.data, ge_next, req.frame).dst \in Surface
    BY <1>1, BlitTyped DEF TypeOK, Request, Memory, Blit
  <2>4. ASSUME ~first_frame, ~pause_ge_disabled, ~orphaned, NEW i \in DOMAIN queue'
        PROVE  queue'[i].dst # Panel
    <3>1. queue' = <<Blit(req.data, ge_next, req.frame)>> \/ queue' = <<>>
      BY <2>1, <2>2, <2>4
    <3>. QED BY <2>3, <2>4, <3>1, OneFacts, EmptyFacts, Addresses
  <2>. QED BY <1>2, <2>1, <2>4 DEF FirstFrame, Settled, InPause
<1>. QED BY <1>2, <1>3, <1>4, <1>5, <1>6, <1>7, <1>8, <1>9

(* Between two callbacks and in the menu: before the first frame nothing   *)
(* is queued but by a pause screen that is fenced, reset or gives up.      *)
LEMMA OutsideShows ==
  ASSUME FramesShown, Callback \/ OpenMenu \/ Pause \/ ClosePlatform \/ UNCHANGED vars
  PROVE  LastToPanel' /\ FirstFrame'
<1>. USE DEF ring, setup, panel, mem, call
<1>1. HostPhase
  BY DEF FramesShown, RingOwnership
<1>2. CASE UNCHANGED vars
  BY <1>2 DEF vars, FramesShown, LastToPanel, FirstFrame, GEInUse
<1>3. CASE Callback
  <2>1. /\ UNCHANGED <<queue, first_frame, ge, pause_ge_disabled, orphaned>>
        /\ pc = "core" /\ pc' \in {"core", "strip", "enter"}
    BY <1>3 DEF Callback, GetSoftwareFramebuffer, CoreDraw, Video, VideoVramFps, RunReturns
  <2>. QED BY <2>1, EmptyFacts DEF FramesShown, LastToPanel, FirstFrame, Settled, InPause
<1>4. CASE OpenMenu \/ DrawMenu \/ PauseEnter \/ Resume \/ ClosePlatform
  <2>1. /\ UNCHANGED <<queue, first_frame, pause_ge_disabled, orphaned>>
        /\ pc \in {"core", "menu", "pause_enter"}
        /\ pc' \in {"core", "menu", "pause_enter", "pause_copy", "pause_failed", "exit"}
    BY <1>4 DEF OpenMenu, DrawMenu, PauseEnter, Resume, ClosePlatform
  <2>2. ~first_frame /\ ~pause_ge_disabled /\ ~orphaned => queue = <<>>
    BY <2>1 DEF FramesShown, FirstFrame, Settled
  <2>. QED BY <2>1, <2>2, EmptyFacts DEF LastToPanel, FirstFrame
<1>5. CASE PauseCopy \/ PauseSync
  <2>1. /\ ge' = ge /\ ge
        /\ pc' \in {"pause_sync", "pause_failed", "menu"}
        /\ pc' = "menu" => queue' = <<>>
    BY <1>1, <1>5 DEF PauseCopy, PauseSync, HostPhase
  <2>. QED BY <2>1 DEF LastToPanel, FirstFrame, Settled, InVideo
<1>6. CASE PauseRetry
  BY <1>6, EmptyFacts DEF LastToPanel, FirstFrame, PauseRetry
<1>7. CASE PauseByCPU
  <2>1. /\ UNCHANGED <<queue, first_frame, orphaned, ge>> /\ pc = "pause_failed" /\ pc' = "menu"
        /\ ~pause_ge_disabled' => ~pause_ge_disabled /\ ~ge
    BY <1>7 DEF PauseByCPU
  <2>2. ~first_frame /\ ~pause_ge_disabled' /\ ~orphaned => queue = <<>>
    BY <2>1 DEF FramesShown, FirstFrame, InPause
  <2>. QED BY <2>1, <2>2, EmptyFacts DEF LastToPanel, FirstFrame
<1>. QED BY <1>2, <1>3, <1>4, <1>5, <1>6, <1>7 DEF Pause

(* Giving the GE up leaves nothing to be read from what it releases, or    *)
(* says so; without the GE nothing is queued.                              *)
LEMMA NextBacked == FramesShown /\ [Next]_vars => ReadsBacked'
<1>. USE DEF ring, setup, panel, mem, call
<1>. SUFFICES ASSUME FramesShown, [Next]_vars PROVE ReadsBacked'
  OBVIOUS
<1>0. ge' => ~orphaned'
  <2>1. ge' => ge /\ orphaned' = orphaned
    BY DEF Next, vars, EngineComplete, Callback, Present, Pause, GetSoftwareFramebuffer, CoreDraw,
       Video, VideoVramFps, RunReturns, PrepareStrip, Enter, UseInPlace, StageByGE, StageFence,
       CopyByCPU, ScaleOversized, ShowScaled, ScaledFence, SubmitToPanel, FinalFence,
       ResetAndRetry, GiveUpOnGE, DisableGE, CpuPresent, VideoReturns, OpenMenu, DrawMenu,
       PauseEnter, PauseCopy, PauseSync, PauseRetry, PauseByCPU, Resume, ClosePlatform
  <2>. QED BY <2>1 DEF FramesShown, ReadsBacked
<1>. SUFFICES ASSUME ~ge', ~orphaned', pc' # "exit"
              PROVE  /\ pc' = "core" => lent' = None
                     /\ pc' \in InVideo \cup {"cpu"} => req'.data = Core
                     /\ \A i \in DOMAIN queue' : queue'[i].src = Core
  BY <1>0 DEF ReadsBacked
<1>1. TypeOK /\ HostPhase
  BY DEF FramesShown, RingOwnership
<1>2. CASE DisableGE
  BY <1>2 DEF DisableGE
<1>3. ASSUME ~DisableGE
      PROVE  ~ge /\ ~orphaned /\ pc # "exit"
  <2>1. ~ClosePlatform
    BY DEF ClosePlatform
  <2>. QED BY <1>3, <2>1 DEF Next, vars, EngineComplete, Callback, Present, Pause,
         GetSoftwareFramebuffer, CoreDraw, Video, VideoVramFps, RunReturns, PrepareStrip, Enter,
         UseInPlace, StageByGE, StageFence, CopyByCPU, ScaleOversized, ShowScaled, ScaledFence,
         SubmitToPanel, FinalFence, ResetAndRetry, GiveUpOnGE, CpuPresent, VideoReturns,
         OpenMenu, DrawMenu, PauseEnter, PauseCopy, PauseSync, PauseRetry, PauseByCPU, Resume
<1>4. ASSUME ~ge, ~orphaned, pc # "exit"
      PROVE  /\ pc' = "core" => lent' = None
             /\ pc' \in InVideo \cup {"cpu"} => req'.data = Core
             /\ \A i \in DOMAIN queue' : queue'[i].src = Core
  <2>. DEFINE Backed == /\ pc' = "core" => lent' = None
                        /\ pc' \in InVideo \cup {"cpu"} => req'.data = Core
                        /\ \A i \in DOMAIN queue' : queue'[i].src = Core
  <2>1. /\ pc = "core" => lent = None
        /\ pc \in InVideo \cup {"cpu"} => req.data = Core
        /\ \A i \in DOMAIN queue : queue[i].src = Core
    BY <1>4 DEF FramesShown, ReadsBacked
  <2>2. CASE EngineComplete
    <3>1. /\ UNCHANGED <<pc, lent, req>> /\ queue' = Tail(queue)
          /\ \A i \in DOMAIN queue' : i + 1 \in DOMAIN queue /\ queue'[i] = queue[i + 1]
      BY <1>1, <2>2, PopFacts DEF EngineComplete, TypeOK
    <3>. QED BY <2>1, <3>1
  <2>3. CASE Callback
    <3>1. UNCHANGED queue /\ pc = "core" /\ pc' \in {"core", "strip", "enter"}
          /\ lent' = None /\ (pc' # "core" => req'.data = Core)
      BY <1>4, <2>1, <2>3 DEF Callback, GetSoftwareFramebuffer, CoreDraw, Video, VideoVramFps,
         RunReturns
    <3>. QED BY <2>1, <3>1 DEF InVideo
  <2>4. CASE Present
    <3>1. CASE Enter \/ GiveUpOnGE \/ CpuPresent \/ PrepareStrip
      <4>1. UNCHANGED <<queue, req>> /\ pc \in {"enter", "failed", "cpu", "strip"}
            /\ pc' # "core"
        BY <3>1 DEF Enter, GiveUpOnGE, CpuPresent, PrepareStrip
      <4>. QED BY <2>1, <4>1 DEF InVideo
    <3>2. CASE VideoReturns
      BY <2>1, <3>2 DEF VideoReturns, InVideo
    <3>. QED BY <1>1, <1>2, <1>4, <2>4, <3>1, <3>2 DEF Present, HostPhase, UseInPlace, StageByGE,
           StageFence, CopyByCPU, ScaleOversized, ShowScaled, ScaledFence, SubmitToPanel,
           FinalFence, ResetAndRetry
  <2>5. CASE OpenMenu \/ Pause \/ UNCHANGED vars
    <3>1. CASE OpenMenu \/ DrawMenu \/ PauseEnter \/ PauseByCPU \/ Resume
      <4>1. /\ UNCHANGED <<queue, lent>> /\ pc' \notin InVideo \cup {"cpu"}
            /\ pc' = "core" => lent = None
        BY <1>1, <3>1 DEF OpenMenu, DrawMenu, PauseEnter, PauseByCPU, Resume, InVideo, HostPhase,
           InPause
      <4>. QED BY <2>1, <4>1
    <3>2. CASE UNCHANGED vars
      BY <2>1, <3>2 DEF vars
    <3>. QED BY <1>1, <1>4, <2>5, <3>1, <3>2 DEF Pause, HostPhase, PauseCopy, PauseSync, PauseRetry
  <2>6. CASE ClosePlatform
    BY <2>6 DEF ClosePlatform
  <2>. QED BY <2>2, <2>3, <2>4, <2>5, <2>6 DEF Next
<1>. QED BY <1>2, <1>3, <1>4

LEMMA NextShows == FramesShown /\ [Next]_vars => FramesShown'
<1>. SUFFICES ASSUME FramesShown, [Next]_vars PROVE FramesShown'
  OBVIOUS
<1>1. RingOwnership'
  BY NextOwned DEF FramesShown
<1>2. LastToPanel' /\ FirstFrame'
  BY EngineShows, SubmitShows, ScaleShows, FenceShows, PresentShows, OutsideShows
     DEF Next, Present
<1>. QED BY <1>1, <1>2, NextBacked DEF FramesShown

LEMMA InitShows == Init => FramesShown
<1>1. Init => queue = <<>> /\ pc = "core"
  BY DEF Init
<1>2. queue = <<>> /\ pc = "core" => LastToPanel /\ FirstFrame
  BY EmptyFacts DEF LastToPanel, FirstFrame
<1>3. Init => ReadsBacked
  BY EmptyFacts DEF Init, ReadsBacked, InVideo
<1>. QED BY <1>1, <1>2, <1>3, InitTyped, InitOwned DEF RingOwnership, FramesShown

(* A frame that ge_present accepted is on the panel or queued for it when  *)
(* video() returns: no reset, retry or fence loses it.                     *)
THEOREM FrameKept == Spec => []NoFrameLost
<1>1. FramesShown => NoFrameLost
  BY DEF FramesShown, LastToPanel, NoFrameLost
<1>. QED BY <1>1, InitShows, NextShows, PTL DEF Spec

(* READY_MARKER is published with the first frame on the panel, whatever   *)
(* path the frame took and whatever failed on the way, unless the frame or *)
(* a blit was still to be read from what the fall back released.           *)
THEOREM ReadyWhenVisible == Spec => ReadyIsVisible
<1>1. FramesShown /\ [Next]_vars =>
        [~first_frame /\ first_frame' /\ ~pause_ge_disabled /\ ~orphaned =>
           shown' = req.frame]_vars
  <2>. SUFFICES ASSUME FramesShown, [Next]_vars, ~first_frame, first_frame', ~pause_ge_disabled,
                       ~orphaned
                PROVE  shown' = req.frame
    OBVIOUS
  <2>1. VideoReturns
    BY DEF Next, vars, ring, setup, panel, mem, call, EngineComplete, Callback, Present, Pause,
       GetSoftwareFramebuffer, CoreDraw, Video, VideoVramFps, RunReturns, PrepareStrip, Enter,
       UseInPlace, StageByGE, StageFence, CopyByCPU, ScaleOversized, ShowScaled, ScaledFence,
       SubmitToPanel, FinalFence, ResetAndRetry, GiveUpOnGE, DisableGE, CpuPresent, OpenMenu,
       DrawMenu, PauseEnter, PauseCopy, PauseSync, PauseRetry, PauseByCPU, Resume, ClosePlatform
  <2>. QED BY <2>1 DEF VideoReturns, FramesShown, FirstFrame
<1>. QED BY <1>1, InitShows, NextShows, PTL DEF Spec, ReadyIsVisible
=============================================================================
