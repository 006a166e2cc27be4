------------------------------ MODULE HostLoop ------------------------------
(***************************************************************************)
(* The life of a core host, main() of src/src/main.c: opening the platform,*)
(* the core and the game, the loop over retro_run() with its pause menu,   *)
(* and the way out; the watchdog alarm around every call of the core that  *)
(* may hang, the stop signals and the faults.                              *)
(*                                                                         *)
(* What a frame does to the presenter, the audio and the saves is in their *)
(* modules; here a frame may draw, ask for the menu and end.               *)
(***************************************************************************)
EXTENDS Naturals, FiniteSets

CONSTANTS CORE_INIT_TIMEOUT_SECONDS, CORE_LOAD_TIMEOUT_SECONDS,
          CORE_RUN_TIMEOUT_SECONDS,
          BenchmarkLimits,  \* values of SF2000_BENCHMARK_FRAMES, 0 for none
          MaxElapsed        \* bound: seconds a core call is watched for

Timeouts == {CORE_INIT_TIMEOUT_SECONDS, CORE_LOAD_TIMEOUT_SECONDS,
             CORE_RUN_TIMEOUT_SECONDS}

ASSUME TimeoutAssumption ==
  /\ Timeouts \subseteq Nat \ {0} /\ MaxElapsed \in Nat
  /\ \A t \in Timeouts : t <= MaxElapsed
ASSUME BenchmarkAssumption == BenchmarkLimits \subseteq Nat

VARIABLES
  pc,                   \* where main() stands
  status,               \* "running", or how the process ended
  up,                   \* what is open: see Resources
  alarm,                \* seconds until SIGALRM, 0 when it is off
  core_watchdog_stage,
  elapsed,              \* history: seconds in the current call of the core
  loading_game, first_frame,
  stopping, handlers,   \* whether stop_signal() is installed
  pause_requested, keys_down,   \* START or SELECT is down
  benchmark_frame_limit, benchmark_frame_count

watch     == <<alarm, core_watchdog_stage, elapsed>>
counting == <<benchmark_frame_limit, benchmark_frame_count>>
stop      == <<stopping, handlers>>
player    == <<pause_requested, keys_down>>
hostVars  == <<pc, status, up, watch, loading_game, first_frame, stop, player, counting>>

(* The platform (frame buffer, input, GE), the PCM, the core between       *)
(* retro_init() and retro_deinit(), the game between load and unload, its  *)
(* contents in memory, the font of the pause menu, the metrics spool, and  *)
(* the descriptor the watchdog reports through (core_watchdog_kmsg_fd).    *)
Resources == {"platform", "pcm", "core", "content", "game", "font", "metrics", "kmsg"}

(* The calls of the core that are watched, their stages and timeouts.      *)
Calls == {"init", "load", "run"}
StageOf == [init |-> 1, load |-> 2, run |-> 3]
Timeout == [init |-> CORE_INIT_TIMEOUT_SECONDS, load |-> CORE_LOAD_TIMEOUT_SECONDS,
            run |-> CORE_RUN_TIMEOUT_SECONDS]

HostInit ==
  /\ pc = "entry" /\ status = "running" /\ up = {}
  /\ alarm = 0 /\ core_watchdog_stage = 0 /\ elapsed = 0
  /\ loading_game = FALSE /\ first_frame = FALSE
  /\ stopping = FALSE /\ handlers = FALSE
  /\ pause_requested = FALSE /\ keys_down = FALSE
  /\ benchmark_frame_limit = 0 /\ benchmark_frame_count = 0

At(from, to) == status = "running" /\ pc = from /\ pc' = to

(* main() returns, or calls _exit(0).                                      *)
Ends(how) == status' = how
Runs      == status' = status

(* alarm(), the stage and the call; alarm(0) after it.                     *)
Watched(call) ==
  /\ alarm' = Timeout[call] /\ core_watchdog_stage' = StageOf[call] /\ elapsed' = 0
Unwatched_NoCancel == core_watchdog_stage' = 0 /\ UNCHANGED <<alarm, elapsed>>
Unwatched == alarm' = 0 /\ core_watchdog_stage' = 0 /\ elapsed' = 0
-----------------------------------------------------------------------------
(* Start-up.  Each of its steps may fail, and undoes the ones before, but  *)
(* for the watchdog's descriptor.                                          *)

Entry ==
  /\ At("entry", "platform")
  /\ \/ Ends("returned") /\ UNCHANGED up      \* argc != 2
     \/ Runs /\ up' \in {{}, {"kmsg"}}        \* /dev/kmsg may not open
  /\ UNCHANGED <<watch, loading_game, first_frame, stop, player, counting>>

(* open_platform(), retro_api_version() and, armed, retro_init().          *)
OpenPlatform ==
  /\ At("platform", "init") /\ Runs
  /\ up' = up \union {"platform"} /\ Watched("init")
  /\ UNCHANGED <<loading_game, first_frame, stop, player, counting>>

(* open_platform() stops half way, or the version does not match: what is  *)
(* open is closed.                                                         *)
OpenPlatformFails ==
  /\ At("platform", "platform") /\ Ends("returned")
  /\ UNCHANGED <<up, watch, loading_game, first_frame, stop, player, counting>>

InitReturns ==
  /\ At("init", "content") /\ Runs
  /\ up' = up \union {"core"} /\ Unwatched
  /\ UNCHANGED <<loading_game, first_frame, stop, player, counting>>

(* sf2000_load_content(), unless the core opens the file itself.           *)
LoadContent ==
  /\ At("content", "load") /\ Runs
  /\ \E read \in {{}, {"content"}} : up' = up \union read
  /\ loading_game' = TRUE /\ Watched("load")
  /\ UNCHANGED <<first_frame, stop, player, counting>>

AfterNoContent_CoreLeft == up \ {"platform"}
AfterNoContent == (up \ {"core"}) \ {"platform"}

ContentFails ==
  /\ At("content", "content") /\ Ends("returned")
  /\ up' = AfterNoContent
  /\ UNCHANGED <<watch, loading_game, first_frame, stop, player, counting>>

GameLoaded ==
  /\ At("load", "setup") /\ Runs
  /\ up' = up \union {"game"} /\ loading_game' = FALSE /\ Unwatched
  /\ UNCHANGED <<first_frame, stop, player, counting>>

GameRejected ==
  /\ At("load", "load") /\ Ends("returned")
  /\ up' = ((up \ {"core"}) \ {"platform"}) \ {"content"}
  /\ loading_game' = FALSE /\ Unwatched
  /\ UNCHANGED <<first_frame, stop, player, counting>>

(* Saves, audio, pacer, session, metrics, the kernel command line, and at  *)
(* last the handlers of SIGINT and SIGTERM.                                *)
Setup ==
  /\ At("setup", "loop") /\ Runs
  /\ \E opened \in SUBSET {"pcm", "metrics"} : up' = up \union opened
  /\ handlers' = TRUE
  /\ benchmark_frame_limit' \in BenchmarkLimits /\ benchmark_frame_count' = 0
  /\ UNCHANGED <<watch, loading_game, first_frame, stopping, player>>
-----------------------------------------------------------------------------
(* The loop.                                                               *)

BeginRun ==
  /\ At("loop", "run") /\ Runs /\ ~stopping
  /\ Watched("run")
  /\ UNCHANGED <<up, loading_game, first_frame, stop, player, counting>>

(* Callbacks of the core, in retro_load_game() or retro_run(): a frame,    *)
(* which video() refuses while the game is loading, and a poll that finds  *)
(* the pause chord.                                                        *)
VideoShown_Always == TRUE
VideoShown == ~loading_game

CoreDraws ==
  /\ status = "running" /\ pc \in {"load", "run"} /\ UNCHANGED <<pc, status>>
  /\ first_frame' = (first_frame \/ VideoShown)
  /\ UNCHANGED <<up, watch, loading_game, stop, player, counting>>

CorePolls ==
  /\ At("run", "run") /\ Runs
  /\ keys_down' = TRUE /\ pause_requested' = TRUE
  /\ UNCHANGED <<up, watch, loading_game, first_frame, stop, counting>>

(* retro_run() returns.  The counter stops at the limit, where it is only  *)
(* compared.                                                               *)
RunReturns ==
  /\ At("run", "after") /\ Runs
  /\ Unwatched
  /\ benchmark_frame_count' = IF benchmark_frame_count < benchmark_frame_limit
                                THEN benchmark_frame_count + 1 ELSE benchmark_frame_count
  /\ UNCHANGED <<up, loading_game, first_frame, stop, player, benchmark_frame_limit>>

(* prepare_pause_ui(), once a frame is visible, which may fail.            *)
FontTried == IF first_frame THEN {up, up \union {"font"}} ELSE {up}

BenchmarkOver ==
  benchmark_frame_limit # 0 /\ benchmark_frame_count >= benchmark_frame_limit

(* Audio, saves, the benchmark's end, and the sleep until the deadline.    *)
EndFrame ==
  /\ At("after", "loop") /\ Runs /\ ~pause_requested
  /\ up' \in FontTried
  /\ stopping' = (stopping \/ BenchmarkOver)
  /\ UNCHANGED <<watch, loading_game, first_frame, handlers, player, counting>>

(* run_pause_menu() up to the wait for the release of the keys.            *)
OpenMenu ==
  /\ At("after", "release") /\ Runs /\ pause_requested
  /\ up' = up \union {"font"}
  /\ pause_requested' = FALSE
  /\ UNCHANGED <<watch, loading_game, first_frame, stop, keys_down, counting>>

MenuUnavailable ==   \* its font cannot be prepared
  /\ At("after", "loop") /\ Runs /\ pause_requested /\ "font" \notin up
  /\ pause_requested' = FALSE
  /\ UNCHANGED <<up, watch, loading_game, first_frame, stop, keys_down, counting>>

(* The wait looks at the keys only.                                        *)
Released ==
  /\ At("release", "menu") /\ Runs /\ ~keys_down
  /\ UNCHANGED <<up, watch, loading_game, first_frame, stop, player, counting>>

MenuResumes ==   \* RESUME or B
  /\ At("menu", "loop") /\ Runs
  /\ UNCHANGED <<up, watch, loading_game, first_frame, stop, player, counting>>

MenuExit ==      \* EXIT
  /\ At("menu", "menu") /\ Runs
  /\ stopping' = TRUE
  /\ UNCHANGED <<up, watch, loading_game, first_frame, handlers, player, counting>>

LeaveMenu_Resumed == FALSE
LeaveMenu == stopping

MenuStops ==     \* the condition of the menu's loop
  /\ At("menu", "loop") /\ Runs /\ LeaveMenu
  /\ UNCHANGED <<up, watch, loading_game, first_frame, stop, player, counting>>
-----------------------------------------------------------------------------
(* The way out, in its order; none of it is watched.                       *)

CloseMenu ==     \* metrics spool and font, then save_ram_flush()
  /\ At("loop", "unload") /\ Runs /\ stopping
  /\ up' = up \ {"metrics", "font"}
  /\ UNCHANGED <<watch, loading_game, first_frame, stop, player, counting>>

UnloadGame ==
  /\ At("unload", "deinit") /\ Runs
  /\ up' = up \ {"game"}
  /\ UNCHANGED <<watch, loading_game, first_frame, stop, player, counting>>

Deinit ==
  /\ At("deinit", "close") /\ Runs
  /\ up' = up \ {"core"}
  /\ UNCHANGED <<watch, loading_game, first_frame, stop, player, counting>>

ClosePlatform == \* and the watchdog's descriptor, free(game.data), _exit(0)
  /\ At("close", "close") /\ Ends("returned")
  /\ up' = (up \ {"platform", "pcm"}) \ {"kmsg", "content"}
  /\ UNCHANGED <<watch, loading_game, first_frame, stop, player, counting>>
-----------------------------------------------------------------------------
(* What the host does not control.                                         *)

(* SIGINT or SIGTERM: stop_signal(), or before it is installed the end.    *)
Signal ==
  /\ status = "running" /\ pc' = pc
  /\ IF handlers THEN stopping' = TRUE /\ Runs
                  ELSE status' = "terminated" /\ UNCHANGED stopping
  /\ UNCHANGED <<up, watch, loading_game, first_frame, handlers, player, counting>>

(* fault_signal(), anywhere: _exit(128 + n).                              *)
Fault ==
  /\ status = "running" /\ pc' = pc /\ Ends("fault")
  /\ UNCHANGED <<up, watch, loading_game, first_frame, stop, player, counting>>

(* A second passes, in a call of the core or while an alarm is pending; at *)
(* its last one core_load_timeout_signal() ends the process.               *)
Second ==
  /\ status = "running" /\ pc' = pc /\ (pc \in Calls \/ alarm > 0)
  /\ elapsed < MaxElapsed
  /\ elapsed' = IF pc \in Calls THEN elapsed + 1 ELSE elapsed
  /\ alarm' = IF alarm > 0 THEN alarm - 1 ELSE 0
  /\ IF alarm = 1 THEN Ends("watchdog") ELSE Runs
  /\ UNCHANGED <<up, core_watchdog_stage, loading_game, first_frame, stop, player, counting>>

Keys ==
  /\ status = "running" /\ pc \in {"release", "menu"} /\ UNCHANGED <<pc, status>>
  /\ keys_down' = ~keys_down
  /\ UNCHANGED <<up, watch, loading_game, first_frame, stop, pause_requested, counting>>

(* The host's own steps, which it takes without waiting for anyone.        *)
HostStep ==
  \/ Entry \/ OpenPlatform \/ OpenPlatformFails \/ LoadContent \/ ContentFails
  \/ Setup \/ BeginRun \/ EndFrame \/ OpenMenu \/ MenuUnavailable \/ Released
  \/ MenuStops \/ CloseMenu \/ UnloadGame \/ Deinit \/ ClosePlatform

HostNext ==
  \/ HostStep
  \/ InitReturns \/ GameLoaded \/ GameRejected \/ RunReturns
  \/ CoreDraws \/ CorePolls \/ MenuResumes \/ MenuExit
  \/ Signal \/ Fault \/ Second \/ Keys

HostSpec == HostInit /\ [][HostNext]_hostVars

(* The host runs and time passes.  Nothing is assumed of the calls that    *)
(* are watched; retro_unload_game() and retro_deinit(), which are not, are *)
(* taken to return.                                                        *)
HostFairSpec == HostSpec /\ WF_hostVars(HostStep) /\ WF_hostVars(Second)
-----------------------------------------------------------------------------
HostTypeOK ==
  /\ pc \in Calls \union {"entry", "platform", "content", "setup", "loop", "after",
                           "release", "menu", "unload", "deinit", "close"}
  /\ status \in {"running", "returned", "watchdog", "fault", "terminated"}
  /\ up \subseteq Resources
  /\ alarm \in 0 .. MaxElapsed /\ elapsed \in 0 .. MaxElapsed
  /\ core_watchdog_stage \in 0 .. 3
  /\ loading_game \in BOOLEAN /\ first_frame \in BOOLEAN
  /\ stopping \in BOOLEAN /\ handlers \in BOOLEAN
  /\ pause_requested \in BOOLEAN /\ keys_down \in BOOLEAN
  /\ benchmark_frame_limit \in Nat /\ benchmark_frame_count \in 0 .. benchmark_frame_limit

(* The watchdog kills only a call of the core that has lasted its whole    *)
(* timeout, and names it rightly: no alarm of an earlier call goes off in  *)
(* a later one, in the pause menu or on the way out.                       *)
WatchdogFair ==
  status = "watchdog" => /\ pc \in Calls /\ core_watchdog_stage = StageOf[pc]
                         /\ elapsed = Timeout[pc]

(* The game is unloaded before the core is closed, the core before the     *)
(* platform its callbacks use.  A process that leaves its loop has closed  *)
(* everything it opened; one whose start-up fails, at whichever step, all  *)
(* but the watchdog's descriptor, which those exits leave to the kernel.   *)
CleanExit ==
  /\ "game" \in up => "core" \in up
  /\ "core" \in up => "platform" \in up
  /\ status = "returned" => up \subseteq IF pc = "close" THEN {} ELSE {"kmsg"}

(* The loading card stays until the core has loaded its game: "the first   *)
(* callback after retro_load_game() returns becomes the first owned game   *)
(* frame" (docs/ARCHITECTURE.md).                                          *)
CardKept == first_frame => "game" \in up \/ pc \in {"deinit", "close"}

(* Once it is asked to stop, by a signal, by EXIT or by the end of the     *)
(* benchmark, the process ends, although the core may never return from    *)
(* retro_run(); in the wait for the release of START and SELECT it ends    *)
(* only when they are let go.                                              *)
StopEnds == <>[]~keys_down => (stopping ~> status # "running")
=============================================================================
