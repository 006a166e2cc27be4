--------------------------- MODULE HostLoopProofs ---------------------------
(* Proofs about the life of a core host, for all timeouts and benchmarks.  *)
EXTENDS HostLoop, TLAPS

LEMMA TimeoutTyped ==
  \A call \in Calls : /\ Timeout[call] \in Nat \ {0} /\ Timeout[call] <= MaxElapsed
                      /\ StageOf[call] \in 0 .. 3
BY TimeoutAssumption DEF Timeouts, Calls, Timeout, StageOf

LEMMA WatchedTyped ==
  ASSUME NEW call \in Calls, Watched(call)
  PROVE  /\ alarm' \in 0 .. MaxElapsed /\ elapsed' \in 0 .. MaxElapsed
         /\ core_watchdog_stage' \in 0 .. 3
BY TimeoutTyped, TimeoutAssumption DEF Watched
-----------------------------------------------------------------------------
LEMMA InitTyped == HostInit => HostTypeOK
<1>. SUFFICES ASSUME HostInit PROVE HostTypeOK
  OBVIOUS
<1>1. /\ loading_game \in BOOLEAN /\ first_frame \in BOOLEAN /\ stopping \in BOOLEAN
      /\ handlers \in BOOLEAN /\ pause_requested \in BOOLEAN /\ keys_down \in BOOLEAN
  BY DEF HostInit
<1>. QED BY <1>1, TimeoutAssumption DEF HostInit, HostTypeOK

LEMMA TypesKept == HostTypeOK /\ [HostNext]_hostVars => HostTypeOK'
<1>. SUFFICES ASSUME HostTypeOK, [HostNext]_hostVars PROVE HostTypeOK'
  OBVIOUS
<1>. USE DEF HostTypeOK, At, Runs, Ends, watch, stop, player, counting
<1>1. CASE Entry
  BY <1>1 DEF Entry, Resources
<1>2. CASE OpenPlatform
  BY <1>2, WatchedTyped DEF OpenPlatform, Calls, Resources
<1>3. CASE OpenPlatformFails
  BY <1>3 DEF OpenPlatformFails
<1>4. CASE InitReturns
  BY <1>4, TimeoutAssumption DEF InitReturns, Unwatched, Resources
<1>5. CASE LoadContent
  BY <1>5, WatchedTyped DEF LoadContent, Calls, Resources
<1>6. CASE ContentFails
  BY <1>6 DEF ContentFails, AfterNoContent
<1>7. CASE GameLoaded
  <2>1. loading_game' \in BOOLEAN
    BY <1>7 DEF GameLoaded
  <2>. QED BY <1>7, <2>1, TimeoutAssumption DEF GameLoaded, Unwatched, Resources, Calls
<1>8. CASE GameRejected
  <2>1. loading_game' \in BOOLEAN
    BY <1>8 DEF GameRejected
  <2>. QED BY <1>8, <2>1, TimeoutAssumption DEF GameRejected, Unwatched
<1>9. CASE Setup
  BY <1>9, BenchmarkAssumption DEF Setup, Resources
<1>10. CASE BeginRun
  BY <1>10, WatchedTyped DEF BeginRun, Calls, Resources
<1>11. CASE CoreDraws
  BY <1>11 DEF CoreDraws
<1>12. CASE CorePolls
  BY <1>12 DEF CorePolls
<1>13. CASE RunReturns
  BY <1>13, TimeoutAssumption DEF RunReturns, Unwatched
<1>14. CASE EndFrame
  BY <1>14 DEF EndFrame, Resources, FontTried, BenchmarkOver
<1>15. CASE OpenMenu
  BY <1>15 DEF OpenMenu, Resources
<1>16. CASE MenuUnavailable
  BY <1>16 DEF MenuUnavailable
<1>17. CASE Released
  BY <1>17 DEF Released
<1>18. CASE MenuResumes
  BY <1>18 DEF MenuResumes
<1>19. CASE MenuExit
  BY <1>19 DEF MenuExit
<1>20. CASE MenuStops
  BY <1>20 DEF MenuStops
<1>21. CASE CloseMenu
  BY <1>21 DEF CloseMenu
<1>22. CASE UnloadGame
  BY <1>22 DEF UnloadGame
<1>23. CASE Deinit
  BY <1>23 DEF Deinit
<1>24. CASE ClosePlatform
  BY <1>24 DEF ClosePlatform
<1>25. CASE Signal
  BY <1>25 DEF Signal
<1>26. CASE Fault
  BY <1>26 DEF Fault
<1>27. CASE Second
  BY <1>27, TimeoutAssumption DEF Second
<1>28. CASE Keys
  BY <1>28 DEF Keys
<1>29. CASE UNCHANGED hostVars
  BY <1>29 DEF hostVars
<1>. QED BY <1>1, <1>2, <1>3, <1>4, <1>5, <1>6, <1>7, <1>8, <1>9, <1>10, <1>11, <1>12,
           <1>13, <1>14, <1>15, <1>16, <1>17, <1>18, <1>19, <1>20, <1>21, <1>22, <1>23,
           <1>24, <1>25, <1>26, <1>27, <1>28, <1>29 DEF HostNext, HostStep
-----------------------------------------------------------------------------
(* The alarm and the seconds that have passed add up to the timeout of the *)
(* call under way; outside the watched calls there is no alarm.            *)
AlarmExact ==
  /\ status = "running" /\ pc \in Calls =>
       /\ core_watchdog_stage = StageOf[pc]
       /\ alarm > 0 /\ alarm + elapsed = Timeout[pc]
  /\ status = "running" /\ pc \notin Calls => alarm = 0
  /\ WatchdogFair

LEMMA AlarmInit == HostInit => AlarmExact
BY DEF HostInit, AlarmExact, WatchdogFair, Calls

LEMMA AlarmKept == HostTypeOK /\ AlarmExact /\ [HostNext]_hostVars => AlarmExact'
<1>. SUFFICES ASSUME HostTypeOK, AlarmExact, [HostNext]_hostVars PROVE AlarmExact'
  OBVIOUS
<1>. USE DEF AlarmExact, At, Runs, Ends, watch, stop, player, counting
<1>1. CASE Entry
  BY <1>1 DEF Entry, Calls, WatchdogFair
<1>2. CASE OpenPlatform
  BY <1>2, TimeoutTyped DEF OpenPlatform, Calls, Watched, WatchdogFair
<1>3. CASE OpenPlatformFails
  BY <1>3 DEF OpenPlatformFails, Calls, WatchdogFair
<1>4. CASE InitReturns
  BY <1>4 DEF InitReturns, Calls, Unwatched, WatchdogFair
<1>5. CASE LoadContent
  BY <1>5, TimeoutTyped DEF LoadContent, Calls, Watched, WatchdogFair
<1>6. CASE ContentFails
  BY <1>6 DEF ContentFails, Calls, WatchdogFair
<1>7. CASE GameLoaded
  BY <1>7 DEF GameLoaded, Calls, Unwatched, WatchdogFair
<1>8. CASE GameRejected
  BY <1>8 DEF GameRejected, Calls, Unwatched, WatchdogFair
<1>9. CASE Setup
  BY <1>9 DEF Setup, Calls, WatchdogFair
<1>10. CASE BeginRun
  BY <1>10, TimeoutTyped DEF BeginRun, Calls, Watched, WatchdogFair
<1>11. CASE CoreDraws
  BY <1>11 DEF CoreDraws, Calls, WatchdogFair
<1>12. CASE CorePolls
  BY <1>12 DEF CorePolls, Calls, WatchdogFair
<1>13. CASE RunReturns
  BY <1>13 DEF RunReturns, Calls, Unwatched, WatchdogFair
<1>14. CASE EndFrame
  BY <1>14 DEF EndFrame, Calls, WatchdogFair
<1>15. CASE OpenMenu
  BY <1>15 DEF OpenMenu, Calls, WatchdogFair
<1>16. CASE MenuUnavailable
  BY <1>16 DEF MenuUnavailable, Calls, WatchdogFair
<1>17. CASE Released
  BY <1>17 DEF Released, Calls, WatchdogFair
<1>18. CASE MenuResumes
  BY <1>18 DEF MenuResumes, Calls, WatchdogFair
<1>19. CASE MenuExit
  BY <1>19 DEF MenuExit, Calls, WatchdogFair
<1>20. CASE MenuStops
  BY <1>20 DEF MenuStops, Calls, WatchdogFair
<1>21. CASE CloseMenu
  BY <1>21 DEF CloseMenu, Calls, WatchdogFair
<1>22. CASE UnloadGame
  BY <1>22 DEF UnloadGame, Calls, WatchdogFair
<1>23. CASE Deinit
  BY <1>23 DEF Deinit, Calls, WatchdogFair
<1>24. CASE ClosePlatform
  BY <1>24 DEF ClosePlatform, Calls, WatchdogFair
<1>25. CASE Signal
  BY <1>25 DEF Signal, Calls, WatchdogFair
<1>26. CASE Fault
  BY <1>26 DEF Fault, Calls, WatchdogFair
<1>27. CASE Second
  BY <1>27, TimeoutTyped DEF Second, HostTypeOK, Calls, WatchdogFair
<1>28. CASE Keys
  BY <1>28 DEF Keys, Calls, WatchdogFair
<1>29. CASE UNCHANGED hostVars
  BY <1>29 DEF hostVars, WatchdogFair
<1>. QED BY <1>1, <1>2, <1>3, <1>4, <1>5, <1>6, <1>7, <1>8, <1>9, <1>10, <1>11, <1>12,
           <1>13, <1>14, <1>15, <1>16, <1>17, <1>18, <1>19, <1>20, <1>21, <1>22, <1>23,
           <1>24, <1>25, <1>26, <1>27, <1>28, <1>29 DEF HostNext, HostStep
-----------------------------------------------------------------------------
(* What is open at each place of main().                                   *)
GameOpen == {"platform", "core", "game"} \subseteq up

OpenAt ==
  /\ pc = "entry" => up = {}
  /\ pc = "platform" => up \ {"kmsg"} = {}
  /\ pc = "init" => up \ {"kmsg"} = {"platform"}
  /\ pc = "content" => up \ {"kmsg"} = {"platform", "core"}
  /\ pc = "load" => up \ {"kmsg", "content"} = {"platform", "core"}
  /\ pc \in {"setup", "loop", "run", "after", "release", "menu"} => GameOpen
  /\ pc = "unload" => GameOpen /\ {"metrics", "font"} \intersect up = {}
  /\ pc = "deinit" => /\ {"platform", "core"} \subseteq up
                     /\ {"metrics", "font", "game"} \intersect up = {}
  /\ pc = "close" => {"metrics", "font", "game", "core"} \intersect up = {}

UpExact == (status = "running" => OpenAt) /\ CleanExit

LEMMA UpInit == HostInit => UpExact
BY DEF HostInit, UpExact, OpenAt, CleanExit

LEMMA UpKept == HostTypeOK /\ UpExact /\ [HostNext]_hostVars => UpExact'
<1>. SUFFICES ASSUME HostTypeOK, UpExact, [HostNext]_hostVars PROVE UpExact'
  OBVIOUS
<1>. USE DEF UpExact, At, Runs, Ends, watch, stop, player, counting
<1>1. CASE Entry
  BY <1>1 DEF Entry, OpenAt, CleanExit, GameOpen
<1>2. CASE OpenPlatform
  BY <1>2 DEF OpenPlatform, OpenAt, CleanExit, GameOpen
<1>3. CASE OpenPlatformFails
  BY <1>3 DEF OpenPlatformFails, OpenAt, CleanExit, GameOpen
<1>4. CASE InitReturns
  BY <1>4 DEF InitReturns, OpenAt, CleanExit, GameOpen
<1>5. CASE LoadContent
  BY <1>5 DEF LoadContent, OpenAt, CleanExit, GameOpen
<1>6. CASE ContentFails
  BY <1>6 DEF ContentFails, AfterNoContent, OpenAt, CleanExit, GameOpen
<1>7. CASE GameLoaded
  BY <1>7 DEF GameLoaded, OpenAt, CleanExit, GameOpen
<1>8. CASE GameRejected
  BY <1>8 DEF GameRejected, OpenAt, CleanExit, GameOpen
<1>9. CASE Setup
  BY <1>9 DEF Setup, OpenAt, CleanExit, GameOpen
<1>10. CASE BeginRun
  BY <1>10 DEF BeginRun, OpenAt, CleanExit, GameOpen
<1>11. CASE CoreDraws
  BY <1>11 DEF CoreDraws, OpenAt, CleanExit, GameOpen
<1>12. CASE CorePolls
  BY <1>12 DEF CorePolls, OpenAt, CleanExit, GameOpen
<1>13. CASE RunReturns
  BY <1>13 DEF RunReturns, OpenAt, CleanExit, GameOpen
<1>14. CASE EndFrame
  BY <1>14 DEF EndFrame, FontTried, OpenAt, CleanExit, GameOpen
<1>15. CASE OpenMenu
  BY <1>15 DEF OpenMenu, OpenAt, CleanExit, GameOpen
<1>16. CASE MenuUnavailable
  BY <1>16 DEF MenuUnavailable, OpenAt, CleanExit, GameOpen
<1>17. CASE Released
  BY <1>17 DEF Released, OpenAt, CleanExit, GameOpen
<1>18. CASE MenuResumes
  BY <1>18 DEF MenuResumes, OpenAt, CleanExit, GameOpen
<1>19. CASE MenuExit
  BY <1>19 DEF MenuExit, OpenAt, CleanExit, GameOpen
<1>20. CASE MenuStops
  BY <1>20 DEF MenuStops, OpenAt, CleanExit, GameOpen
<1>21. CASE CloseMenu
  BY <1>21 DEF CloseMenu, OpenAt, CleanExit, GameOpen
<1>22. CASE UnloadGame
  BY <1>22 DEF UnloadGame, OpenAt, CleanExit, GameOpen
<1>23. CASE Deinit
  BY <1>23 DEF Deinit, OpenAt, CleanExit, GameOpen
<1>24. CASE ClosePlatform
  BY <1>24 DEF ClosePlatform, HostTypeOK, Resources, OpenAt, CleanExit, GameOpen
<1>25. CASE Signal
  BY <1>25 DEF Signal, OpenAt, CleanExit, GameOpen
<1>26. CASE Fault
  BY <1>26 DEF Fault, OpenAt, CleanExit, GameOpen
<1>27. CASE Second
  BY <1>27 DEF Second, OpenAt, CleanExit, GameOpen
<1>28. CASE Keys
  BY <1>28 DEF Keys, OpenAt, CleanExit, GameOpen
<1>29. CASE UNCHANGED hostVars
  BY <1>29 DEF hostVars, OpenAt, CleanExit, GameOpen
<1>. QED BY <1>1, <1>2, <1>3, <1>4, <1>5, <1>6, <1>7, <1>8, <1>9, <1>10, <1>11, <1>12,
           <1>13, <1>14, <1>15, <1>16, <1>17, <1>18, <1>19, <1>20, <1>21, <1>22, <1>23,
           <1>24, <1>25, <1>26, <1>27, <1>28, <1>29 DEF HostNext, HostStep
-----------------------------------------------------------------------------
(* No frame is shown before the game is loaded: up to then video() refuses *)
(* it, or nothing calls it.                                                *)
CardExact ==
  /\ CardKept
  /\ status = "running" /\ pc = "load" => loading_game
  /\ pc \in {"entry", "platform", "init", "content", "load"} => ~first_frame

LEMMA CardInit == HostInit => CardExact
BY DEF HostInit, CardExact, CardKept

LEMMA CardStays == UpExact /\ CardExact /\ [HostNext]_hostVars => CardExact'
<1>. SUFFICES ASSUME UpExact, CardExact, [HostNext]_hostVars PROVE CardExact'
  OBVIOUS
<1>. USE DEF CardExact, At, Runs, Ends, watch, stop, player, counting
<1>1. CASE Entry
  BY <1>1 DEF Entry, UpExact, OpenAt, GameOpen, CardKept
<1>2. CASE OpenPlatform
  BY <1>2 DEF OpenPlatform, UpExact, OpenAt, GameOpen, CardKept
<1>3. CASE OpenPlatformFails
  BY <1>3 DEF OpenPlatformFails, UpExact, OpenAt, GameOpen, CardKept
<1>4. CASE InitReturns
  BY <1>4 DEF InitReturns, UpExact, OpenAt, GameOpen, CardKept
<1>5. CASE LoadContent
  BY <1>5 DEF LoadContent, UpExact, OpenAt, GameOpen, CardKept
<1>6. CASE ContentFails
  BY <1>6 DEF ContentFails, UpExact, OpenAt, GameOpen, AfterNoContent, CardKept
<1>7. CASE GameLoaded
  BY <1>7 DEF GameLoaded, UpExact, OpenAt, GameOpen, CardKept
<1>8. CASE GameRejected
  BY <1>8 DEF GameRejected, UpExact, OpenAt, GameOpen, CardKept
<1>9. CASE Setup
  BY <1>9 DEF Setup, UpExact, OpenAt, GameOpen, CardKept
<1>10. CASE BeginRun
  BY <1>10 DEF BeginRun, UpExact, OpenAt, GameOpen, CardKept
<1>11. CASE CoreDraws
  BY <1>11 DEF CoreDraws, UpExact, OpenAt, GameOpen, VideoShown, CardKept
<1>12. CASE CorePolls
  BY <1>12 DEF CorePolls, UpExact, OpenAt, GameOpen, CardKept
<1>13. CASE RunReturns
  BY <1>13 DEF RunReturns, UpExact, OpenAt, GameOpen, CardKept
<1>14. CASE EndFrame
  BY <1>14 DEF EndFrame, UpExact, OpenAt, GameOpen, FontTried, CardKept
<1>15. CASE OpenMenu
  BY <1>15 DEF OpenMenu, UpExact, OpenAt, GameOpen, CardKept
<1>16. CASE MenuUnavailable
  BY <1>16 DEF MenuUnavailable, UpExact, OpenAt, GameOpen, CardKept
<1>17. CASE Released
  BY <1>17 DEF Released, UpExact, OpenAt, GameOpen, CardKept
<1>18. CASE MenuResumes
  BY <1>18 DEF MenuResumes, UpExact, OpenAt, GameOpen, CardKept
<1>19. CASE MenuExit
  BY <1>19 DEF MenuExit, UpExact, OpenAt, GameOpen, CardKept
<1>20. CASE MenuStops
  BY <1>20 DEF MenuStops, UpExact, OpenAt, GameOpen, CardKept
<1>21. CASE CloseMenu
  BY <1>21 DEF CloseMenu, UpExact, OpenAt, GameOpen, CardKept
<1>22. CASE UnloadGame
  BY <1>22 DEF UnloadGame, UpExact, OpenAt, GameOpen, CardKept
<1>23. CASE Deinit
  BY <1>23 DEF Deinit, UpExact, OpenAt, GameOpen, CardKept
<1>24. CASE ClosePlatform
  BY <1>24 DEF ClosePlatform, UpExact, OpenAt, GameOpen, CardKept
<1>25. CASE Signal
  BY <1>25 DEF Signal, UpExact, OpenAt, GameOpen, CardKept
<1>26. CASE Fault
  BY <1>26 DEF Fault, UpExact, OpenAt, GameOpen, CardKept
<1>27. CASE Second
  BY <1>27 DEF Second, UpExact, OpenAt, GameOpen, CardKept
<1>28. CASE Keys
  BY <1>28 DEF Keys, UpExact, OpenAt, GameOpen, CardKept
<1>29. CASE UNCHANGED hostVars
  BY <1>29 DEF hostVars, CardKept
<1>. QED BY <1>1, <1>2, <1>3, <1>4, <1>5, <1>6, <1>7, <1>8, <1>9, <1>10, <1>11, <1>12,
           <1>13, <1>14, <1>15, <1>16, <1>17, <1>18, <1>19, <1>20, <1>21, <1>22, <1>23,
           <1>24, <1>25, <1>26, <1>27, <1>28, <1>29 DEF HostNext, HostStep
-----------------------------------------------------------------------------
HostInv == HostTypeOK /\ AlarmExact /\ UpExact /\ CardExact

LEMMA Invariant == HostSpec => []HostInv
<1>1. HostInit => HostInv
  BY InitTyped, AlarmInit, UpInit, CardInit DEF HostInv
<1>2. HostInv /\ [HostNext]_hostVars => HostInv'
  BY TypesKept, AlarmKept, UpKept, CardStays DEF HostInv
<1>. QED BY <1>1, <1>2, PTL DEF HostSpec

(* The alarm stays within its timeout, the stage names a call, and nothing *)
(* but what main() opens is ever open.                                     *)
THEOREM HostTypeCorrect == HostSpec => []HostTypeOK
<1>1. HostInv => HostTypeOK
  BY DEF HostInv
<1>. QED BY <1>1, Invariant, PTL

(* SIGALRM ends a call of the core that has lasted its own timeout, never  *)
(* another one, whatever the three timeouts are.                           *)
THEOREM WatchdogIsFair == HostSpec => []WatchdogFair
<1>1. HostInv => WatchdogFair
  BY DEF HostInv, AlarmExact
<1>. QED BY <1>1, Invariant, PTL

(* Every way main() returns has closed what it opened, the game before the *)
(* core and the core before the platform; a start-up that fails half way   *)
(* leaves open the watchdog's descriptor and nothing else.                 *)
THEOREM ExitsClean == HostSpec => []CleanExit
<1>1. HostInv => CleanExit
  BY DEF HostInv, UpExact
<1>. QED BY <1>1, Invariant, PTL

(* video() shows nothing before retro_load_game() has returned.            *)
THEOREM CardStaysUp == HostSpec => []CardKept
<1>1. HostInv => CardKept
  BY DEF HostInv, CardExact
<1>. QED BY <1>1, Invariant, PTL
=============================================================================
