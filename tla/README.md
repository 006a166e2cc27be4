# Verification of frog2k-linux-frontend

TLA+ models, TLC runs and TLAPS proofs for the libretro frontend of the
SF2000/GB300 handhelds: the core host (`src/src/main.c` with `sf2000_input.c`,
`sf2000_pacer.c`, `sf2000_log.c` and the libraries linked into it) and the
browser (`src/src/browser.c`). The models are translated from the C source; the
documents (`src/README.md`, `src/docs/ARCHITECTURE.md`) and the comments are used
for what they *promise*, and the promises are what the properties check. The
repository lies under `src/`, so `src/src/main.c` is its `src/main.c`.

    cd tla
    tlc -workers 2 -config GePresenter.cfg MCGePresenter.tla    # a run
    tlapm GePresenterProofs.tla                                 # the proofs

`PROJECT.json` lists the runs, the theorems, the hazards, the mutants (for each
property a plausible bug of the code that breaks it) and, under `map`, the lines
of C each definition stands for.

## 1. The system

One process is alive at a time. The *supervisor* (platform, not in this
repository) starts the *browser*; the browser replaces itself by a *core host*
with `execve()`; when that ends or crashes the supervisor ends the performance
session and starts the browser again. A core host is one thread: `main()` loops
over `retro_run()`, in which the core calls back into `main.c` (`video()`,
`audio_batch()`, `input_poll()`, `environment()`); after each `retro_run()` it
refills the audio, polls the saves, paces the frame and, on request, runs the
pause menu. Everything concurrent is outside the thread: the graphics engine
(GE) that reads queued commands whenever it likes, the PCM ring that drains, the
evdev queue the kernel fills, the clock and its alarm, the card that may lose
power, the supervisor and logger that answer through files, and signals.

| Component | Source | State | Operations | What is hard | What makes it correct | Module |
|---|---|---|---|---|---|---|
| Frame presenter | `main.c` `ge_*`, `video*`, `software_framebuffer` | the ring `ge_source[]`, `ge_next`, `ge_pending`, strips, the GE queue | present (in place, staged, copied, raw, oversized), fence, reset and retry, fall back, pause frame | the engine is asynchronous and may wedge at any point | no surface is changed while queued; the core gets its memory back; no frame is lost over a retry; every call returns | `GePresenter` |
| Frame pacer | `sf2000_pacer.c` | `deadline`, `frame_ns`, `valid` | init, step, invalidate | misses of every size, pauses and rate changes in the middle | never ahead of the clock, less than a frame behind it, only whole frames written off | `Pacer` |
| Input | `sf2000_input.c`, `input_poll`, `wait_for_input_release`, `run_pause_menu` | `keys`, two latches, `pause_requested`, the menu's `previous` | poll, state, wait, menu edge detection | order of presses in one poll, dropped events, keys held across modes | chords once per press, keys follow the device, no press acts twice | `InputChords` |
| Saves | `main.c` `save_*`, `load_state_slot`, `configure_saves` | files, `save_ram_hash`, `_dirty`, poll counter, last flush | load, poll, flush, atomic write, states | power loss between steps, failed writes, games sharing a stem | files whole, hash honest, RAM saved in the end, right state loaded | `SaveStore` |
| Audio queue | `main.c` `audio_*`, `set_uncapped_mode`, `pause_audio` | staging ring, tail, `audio_sustaining`, PCM state | batch, queue, flush, refill, reset | partial writes, overflow, three wrap-arounds, mode changes | a FIFO that gives up only the oldest, repeats in order, seams ramped | `AudioQueue` |
| Audio rate | `main.c` `open_audio`, `audio_update_feedback`, `audio_batch`, `audio_flush` | rate, counter, delay | feedback, underrun, restart | drift, zero, refusal by the resampler | rate positive and known, chunk fits, a drained rate comes back | `AudioRate` |
| Host loop and lifecycle | `main.c` `main`, signals, watchdog | what is open, `running`, `loading_game`, the alarm | start, load, loop, stop | four ways out of the start, alarms around three calls, stop requests at any point | what is opened is closed, in order; the watchdog ends only a call that hangs; a stop request ends the process | `HostLoop` |
| Pause menu | `main.c` `run_pause_menu`, `change_pause_value` | selection, rate, frameskip, slot | move, change, resume | rows that come and go with the options | each row does what it says, the speed is the one shown | `PauseMenu` |
| Environment, options | `main.c` `environment`, `register_core_options` | options, `core_options_updated` | `RETRO_ENVIRONMENT_*` | re-registration, limits, empty options | a value changed reaches the core | `PauseMenu` |
| Platform | `main.c` `open_platform`, `close_platform` | devices | open, close | partial opening | released once, in order | `GePresenter`, `HostLoop` |
| Telemetry | `main.c` metrics, fault reports | counters | count, write | – | nothing depends on it | – |
| Log flush, session | `sf2000_log.c`, `performance_session_*` | request, acknowledgement and marker files | request, wait | late and half-written acknowledgements, callers that die | a flush reported is on the card | `LogFlush`, `Browser` |
| Browser | `browser.c` | volumes, directory, selection, bookmark, session, archive directory; chord keys; its picture | navigate, launch, extract, restore, start-up launch; flush and diagnostic; present | volumes vanish, every launch step may fail, relaunch; events lost to the chooser; a GE that fails or is late | selection names what is shown; B leads home; no session when idle; what is launched is whole; returns to the game; a picture reported written is shown | `Browser`, `BrowserKeys`, `UiPresenter` |
| Browser UI | `sf2000_browser_ui.c` | glyph cache, font | draw | cache full, failed allocations, age that wraps | a glyph is the one asked for, no bitmap lost or freed twice | `GlyphCache` |
| Allocator | `nommu_new.cpp` | mappings | new, delete, malloc, calloc, realloc, free | sizes modulo 2^32 | a block lies in its mapping | `NommuHeap` |
| Content | `content.c` | – | read a file | – | sequential I/O; succeeds or fails in `HostLoop` | – |
| JS2300 | `js2300_*.c` | runtime, screen, handles | life cycle, clear, rectangles | rectangles across the edges | the screen is what was drawn, the script runs once | `JsCore`, `UiPresenter` |
| Core adapters | `core_adapter.c`, `qpsx_adapter.c`, `frogui_adapter.c`, `fake08_log.c` | handles | forward | handle limit | – | – |
| Characters | `utf8_compat.c` | – | walk | malformed input | – | – |
| Build, patches, resources | `Makefile`, `mk/`, `patches/`, `resources/` | – | – | – | not a program of this repository | – |

The components meet in few places. The pause menu drains the presenter, drops
and restarts the audio, flushes the saves, starts a new timeline and consumes
the input; each of these effects is an action of the module of the component it
acts on, with the menu's order of calls. The audio rate sizes the chunks of the
audio queue (`OutputFits` is what lets `AudioQueue` assume that a chunk holds at
most `MaxBatch` samples, as long as underruns have not raised the rate beyond
`AUDIO_CONVERT_CAPACITY - 1` times the core's). The browser and the core host meet in the session
marker and the bookmark (`Browser`), and in the logger's files, which a host that
was killed leaves to the next process (`LogFlush`). The presenter and the input
meet only in the loop.

## 2. Modules

    GePresenter      surface ring, engine, reset, fall back, pause frames
      GePresenterProofs
    HostLoop         main(), watchdog, signals
      HostLoopProofs
    PauseMenu        values of the menu, core options
    LogFlush         the handshake with the logger
    NommuHeap        the C++ allocator
    GlyphCache       glyphs of a font
    JsCore           the JS2300 core and its screen
      PartsProofs      all five
    PacerTimeline    what the pacer promises
      Pacer            timespec arithmetic, refines PacerTimeline
        PacerProofs
    InputChords      evdev queue, polls, latches, the menu's edges
      InputChordsProofs
    SaveStore        battery RAM, states, files, power
      SaveStoreProofs
    AudioFifo        what the audio queue promises
      AudioQueue       the rings, refines AudioFifo
    AudioRate        feedback and chunk size
      AudioProofs      AudioQueue, AudioRate
    Browser          library, launch, relaunch
    BrowserKeys      chords of the browser
    UiPresenter      picture of the browser and the runner, UI diagnostic
      BrowserProofs    all three
    MC*              the small instances TLC checks

### GePresenter

`pc` is where the host stands in `video()`/`ge_present()`/`write_pause_frame()`;
one action per step between two calls of the GE, so that the engine
(`EngineComplete`) runs between any two of them. `queue` is the GE's command
queue (external: in order, `hcge_engine_sync()` returns 0 only when it is empty,
`hcge_reset()` empties it). `content[m]` is the number of the frame a piece of
memory holds, `shown` that of the panel. The paths of `ge_present()` are
`UseInPlace` (the core drew into the surface it was lent, or a raw window),
`StageByGE`/`StageFence`, `CopyByCPU`, `SubmitToPanel`/`FinalFence`, and
`ScaleOversized`/`ShowScaled`/`ScaledFence`; `ResetAndRetry`, `GiveUpOnGE`,
`DisableGE`, `CpuPresent` are `video()` after a failure. Once `DisableGE` has freed
the managed surfaces, a reader of one (the CPU copy of a frame drawn into the
surface the core was lent, or a command a failed drain left queued) may find
anything there (`Read`); `orphaned` records that the frame in hand lies in one. `Pause*` is
`write_pause_frame()` and `ge_present_pause_frame()`. Callbacks that return
early (no data, frameskip, `loading_game`) change nothing that is modelled.

### HostLoop

`pc` is where `main()` stands, `up` what is open, `status` how the process ended.
Each step of the start has its failing twin with the teardown written at that
exit. `Watched` and `Unwatched` are `alarm(n)`, the stage and `alarm(0)` around
`retro_init()`, `retro_load_game()` and `retro_run()`; `Second` counts the alarm
down wherever the process stands and ends it at 0. `CoreDraws` and `CorePolls`
are callbacks, `Signal` comes anywhere and kills by default before its handlers
are installed, `Fault` is any other fatal signal. What a frame does to the other
components is in their modules.

### PauseMenu

An option is its count of values and the selected index. `SetVariables`,
`GetVariables` and `GetVariableUpdate` are the three `environment()` calls a core
makes about options, in any order; a core that is told of an update reads all
its options again. The menu's rows, rings of values and effect on the pacer are
`MoveCursor`, `Change*` and `ResumeGame`. `Label` and `PressA` are the two
places where the code decides what a row is.

### PacerTimeline and Pacer

`Pacer` is `sf2000_pacer.c` with its two-field timespecs, carries and
comparisons, in the loop of `main()`: `Elapse` is time passing in `retro_run()`,
`StepAndSleep`/`StepLate` the step, `Invalidate` an uncapped frame, `PacerInit`
the pause menu. `due` adds up the frames paced (history). `PacerTimeline` says
the same on plain instants, as `docs/ARCHITECTURE.md` does.

### InputChords

`Device` is the player and the kernel's bounded queue: full, it is dropped but
for the newest event (`SYN_DROPPED` is not handled in `sf2000_input.c`, so
nothing is read back). `ReadEvent` is one turn of the loop of
`sf2000_input_poll()`, `EndPoll` its end and what the caller does with the
result: `input_poll()` takes PAUSE only in the game, the menu looks for keys
that are new since `previous`. The device may be opened with keys held, which
`sf2000_input_open()` does not ask for. `stale` (those keys, and keys whose event was
dropped, until their next event), `fresh` and `consumed` are history.

### SaveStore

`Frame` is one turn of the loop as the saves see it; `Flush`, `BlobWrite`,
`BlobSync`, `BlobRename`, `BlobFails` are `save_ram_flush()` and
`save_blob_atomic()` step by step. `file` is what `open()` finds, `disk` what
may be there instead after a `PowerLoss`, `tmp` the temporary file; a file that
was not synced may come back incomplete. `Crash` may happen between any two
steps. Contents are abstract, and the FNV hash is taken to tell them apart.

### AudioFifo, AudioQueue and AudioRate

`AudioQueue` keeps the arithmetic of the two rings (heads, counts, wraps, the
discard by blocks, the piecewise repeat) and the PCM's states; a sample is its
identity, the ramps' and the decay's levels are not modelled. `AudioFifo` is a
plain queue with the last `Sustain` samples the core produced. `AudioRate` is
the rate, its correction every `Interval` batches, the step after an underrun,
the resampler's possible refusal and the size of a chunk, with the divisions of
the code.

### LogFlush

The two files in `/run`, the caller call by call and the logger (external) step
by step, each in its own time. `linked` says whether the acknowledgement the
logger has open is still the file of that name: the caller unlinks it. A caller
may die anywhere and another take its place (`CallerDies`); `asked` and `late`
record what a call may rely on.

### NommuHeap

Sizes are taken modulo `Word`, as `size_t` is. A block is the length of its
mapping, the size asked for, and (history) how long a prefix still holds what
the program put there, so that a copy or a clear that is too long shows. Calls
that return null change nothing.

### GlyphCache

`Scanned` is the loop of `font_glyph()`, which ends at a hit or at the first free
slot; `Rasterised` releases the slot it takes and may fail to allocate. `wanted`
is the age at which each code point was last asked for (history), given up when
the age wraps.

### JsCore

The calls come as `main()` of the host makes them; the script runs inside the
first `retro_run()` and draws through two callbacks. `pixels` is what the core
holds, `drawn` (history) what the script asked for, by the plain meaning of a
rectangle.

### Browser

A press is handled whole, as `main()` of `browser.c` does. A path is a sequence
of names, `Tree` what the directories hold, `storage` the list of volumes, which
changes at any moment (`Hotplug`); `roots` is what the browser last read of it.
`Scan` is `scan_directory()` with its order: entries first (`Readings`), then the
volumes as far as there is room (`Added`), which may rebase `current`. A name's
case-folded order is the number `Rank` gives it, and `qsort()` puts an entry
behind all that come before it (`Place`, `Sorted`), which says the same as sorting
step by step and needs no recursion. The launch goes step by step (`LaunchFile`,
`ChooseCore`, `Extract`, `PickMember`, `Exec`), each may fail, and the
supervisor relaunches at any step.

### BrowserKeys

The held bits and latches of START+RIGHT and START+UP, event by event. While a
launch runs its events are read by `choose_core()` or dropped (`Elsewhere`), so
`held` and the true state `down` part. `spent` (history) is what of a chord that acted
has not been let go since.

### UiPresenter

`write_frame()` of the browser and `runner_video_present()` of the JS2300 runner,
with the engine taking a blit when it likes, after its wait has given up
included, and reading the surface as it finds it then. `diagnostic` is where
`capture_ui_diagnostic()` stands.

## 3. What the runs check

| Run | Instance | Shows |
|---|---|---|
| `ge` | three surfaces, one frame | `NoOverwrite`: what a queued command will read is the frame it was queued for. `CoreReleased`: a callback that returned leaves no command reading the core's memory. `NoFrameLost`: an accepted frame is on the panel or queued for it, a reset in between included. `ReadyIsVisible`: READY is published for a frame that can be seen, or over the pause screen, or when the frame lay in a surface the fall back had freed (7). `CallbackReturns`, `MenuIsDrawn`: every callback and pause frame ends, with an engine that may be wedged for ever. |
| `audio` | ring of 6, tail of 2, chunks of 1..3; rates 20..40 around 24 and 32, steps of an eighth | `TypeOK`: heads, counts and the repeat's position lie in the rings (or the loop of `audio_enqueue_repeat()` would not end). `FifoSpec`: the rings implement the FIFO. `SeamsRamped`: fresh audio after a repeat is ramped into. `OutputFits`: a chunk fits `converted[]` at every rate at which one input frame does. `StarvedRecovers`: with a ring that stays starved the rate comes to the core's own: a drained one climbs back, one above it is cut (also below what the PCM plays, see `rate_lead`). |
| `host` | see section 4 | `WatchdogFair`: SIGALRM ends only a call that lasted its own timeout. `CleanExit`: teardown in order and complete at every exit, but for the watchdog's descriptor at the failing ones (7). `StopEnds`: a stop request ends the process. `MenuSound`, `OptionsReachCore`, `PaceAsShown`: the menu's rows, options and speed are what they say. `NeverOutruns`, `TimelineSpec`: the pacer. `LateAcksOnly`: a reported flush is on the card. `BlocksFit`: the allocator near the end of the address space. `GlyphsSound`: slots, bitmaps and least-recent eviction. `ScreenAsDrawn`: the JS2300 screen. |
| `input` | four keys, an evdev queue of one | `LatchExact`: a latch is set while its chord is in `keys`. `KeysFollowDevice`: only a key held at open, or whose event was dropped, is wrong, and until its next event. `ResumeIsFresh`: the menu is left on a press made in it. `MenuOpens`: the wait for release ends. |
| `save_safe` | two games with one stem, two contents | `FilesWhole`, `ExitSaves`, `LoadReturnsSaved` |
| `save_live` | one game, two contents | `SavedAtLast`: RAM that stops changing is saved and stays so, however often the writes failed |
| `browser` | four volumes, lists of 5, a window of 2, two archives; three chord keys; three pictures | `SelectionInRange`, `StaysOnVolumes`, `BackLeadsHome`, `IdleHasNoSession`, `MemberOfArchive`, `ReturnsToGame`, and `TypeOK` that every list, window and path is one the code's arrays can hold; `ChordActsOnce`: a chord acts again only after one of its keys was let go; `ScreenCurrent`: a picture reported written is the one shown |
| `ge_strip_backed`, `save_ignored`, `rate_lead`, `browser_chords`, `ui_diagnostic` | as above | disagreements, see 7 |

`audio`, `host` and `browser` explore several modules *side by side*: the variable
`half` or `part` is chosen in the initial state and names the module whose steps
a behaviour takes, while the variables of the others stay as they began. This
is one search for several independent parts, and no composition: no statement
about two parts at once is made by these runs. The parts have disjoint
variables and constants, so each behaviour is one of the named module's own
specification, and its fairness is guarded by the same variable. The next-state relation
of such a run has one disjunct per part; each module was also run alone, with TLC's
coverage statistics, and every one of its actions is taken.

## 4. Bounds

- `NBuf = 3` is `GE_SOURCE_BUFFERS` as shipped (the repository's README still says two);
  `Init` includes the 1 and 2 surfaces that `open_platform()` accepts when an
  allocation fails, and none. `MaxFrames = 1`: contents are
  frame numbers, so one frame after the initial one distinguishes old from new
  in every surface; the number of presents, retries and menus is not bounded.
  The theorems hold for every `NBuf` and `MaxFrames`.
- `HostLoop`: the timeouts are the code's 15, 30 and 10 seconds and `MaxElapsed`
  is the longest of them, so that the alarm of one call would still be pending in
  any other; after it a hanging call only hangs on. A benchmark of 0 (none), 1 or 2
  frames: a limit met in the first turn of the loop, and in a later one.
- `PauseMenu`: two options and two values kept, against declarations with an
  option too many, a value too many, options without values, and preferred
  values that are the first, a later one, none, or beyond what is kept. Three
  frameskips and two slots: rings whose step forward and back differ and agree.
  `CoreFrame = 12` divides by 2, 3 and 4.
- `Pacer`: seconds 0..5 of four "nanoseconds", frames of 1 (the default for 0), 2,
  3 and 6 of them: frame lengths shorter than, equal to
  no divisor of, and longer than a second, so that each
  carry and borrow occurs, from every deadline and clock.
- `LogFlush`: three attempts, three lines logged: an acknowledgement can come before,
  between and after the reads of one call, and a late one in the next call.
- `NommuHeap`: a word of 32 with pages of 8 and a header of 2: sizes around the
  header, a page and the end of the word (0, 1, 6, 7, 14, 22, 29, 30, 31), two
  blocks. The theorem holds for every word, page, header and size.
- `GlyphCache`: two slots and four code points, one of them blank: hits, free slots,
  evictions of each slot; ages wrap at 7. The theorem holds for every number of
  slots, every font and every age at which the counter wraps.
- `JsCore`: a screen of 3 by 2 and coordinates −2..4 for corner and size, two colours:
  rectangles within, across and beyond every side, and empty ones. The
  theorem holds for every screen and all integers.
- `QueueMax = 1`: the device adds an event between any two turns of the loop of
  `sf2000_input_poll()`, so one poll still reads any number of events in any
  order; a queue of one makes the overflow frequent. `QueueMax = 2`
  gives the same results for the safety properties; the theorems hold for every
  size. Four keys stand for twelve: one only in the pause chord,
  one only in the log chord, START in both, one in neither.
- `PollFrames = 2`, `FlushTicks = 1`: a poll that is not due, one that is due
  and limited, one that is due and not. The clock saturates. `Game` is symmetric
  in the safety run only (symmetry is unsound for liveness).
- `Capacity = 6`, `Sustain = 2`, `Drop = 2`, `MaxBatch = 3`, `Period = 2`,
  `Low = 3`, `Target = 5`: chunks smaller and larger than the tail, discards of
  one block and two, repeats that wrap inside a chunk, ring positions at every
  wrap. Two samples tell order and loss apart because every order of them
  occurs.
- `OutputRate = 32`, `StepDivisor = 8`, `MaxRate = 110`, delays 1..4 around
  the marks 2, 3, 4: the rate climbs and falls through every value the integer
  steps reach, below the core's rate and above it. `MaxRate` bounds underruns, which
  the code does not: it lies beyond the rate at which one input frame overfills
  `converted[]` for the slowest core (4 * 20), where `OutputFits` says nothing.
- `MaxEntries = 5`, `Visible = 2`: a root with one entry too many for all of its
  volumes to be listed, lists as long as the home menu and longer, windows that
  scroll both ways. A read of a directory may fail and leave any part of it.
  `auto_launch=` names an archive, so that the whole launch also runs for it.
- `MaxPicture = 3`: pictures are only told apart; three let a blit of the first
  come after the second was written by the CPU.

`CHECK_DEADLOCK FALSE` where the system really stops: in `ge` when `ClosePlatform`
ends the host, in `host` when the process has ended, in `browser` when the bound
on pictures is reached.

## 5. Fairness

- `GePresenter`: the host thread keeps running inside a callback and inside a
  menu frame (`WF` on `Present`, and on `Pause` outside the idle menu): it is a
  sequential program and the GE driver times its waits out. Nothing is assumed
  of the engine, the core, or the player.
- `HostLoop`: `WF` on `HostStep`, the steps `main()` takes by itself, and on
  `Second`, the clock. Nothing is assumed of `retro_init()`,
  `retro_load_game()` and `retro_run()`: that the process ends although they hang
  is the watchdog's work. `retro_unload_game()`, `retro_deinit()` and the final
  save run unwatched in the code, and are taken to return. `StopEnds` is
  conditional on START and SELECT being let go, since the wait for their release
  does not look at `stopping`.
- `InputChords`: the host keeps polling (`retro_run()` calls `input_poll()`, the
  wait and the menu loop poll). `MenuOpens` is conditional on the player letting
  go and on every key having had an event since the device was opened or its queue
  overflowed.
- `SaveStore`: of `main()`, that it runs frames (`WF` on `Host`) and that time passes
  over them (`SF` on `Frame` with the clock advancing or run out). Of the file system,
  that a due flush of changed RAM that is tried again and again gets past making the
  directory (`DueFlush`), and that a write, an fsync or a rename tried again and again
  succeeds (`SF` on each); without these a full card refutes `SavedAtLast`, as it
  should. Nothing is assumed of the core, which may write its RAM or leave it: TLC
  finds behaviours that meet the hypotheses of `SavedAtLast` with RAM that was
  written and with RAM that never was.
- `AudioRate`: batches go on, and a delay read and a correction set again and again
  succeed at last. `Quiet` and the delay's behaviour are hypotheses of the property.
- The other modules state no liveness.

## 6. Proofs

Eight modules of proofs, for all values of the constants the named assumptions
admit. The assumptions say of what type the constants are, mostly that sizes are
positive naturals; those that say more are named below. TLC evaluates each of them
on the instance of a run.

Every safety invariant, action property and refinement that a passing run checks
is the statement of a theorem.

### GePresenterProofs

`TypeCorrect`, `RingOwned`, `NeverOverwritten`, `CoreAlwaysReleased`, `FrameKept`,
`ReadyWhenVisible`. `NoOverwrite` alone is not inductive: that a surface may
be reused rests on how far back `ge_pending` counts. `RingOwnership` adds
`HostPhase` (what the place in the code says of `ge`, `ge_pending` and the
lent surface), `CoreIsFree` (outside `ge_present()` only managed surfaces are
queued) and `QueueOwned`: what is queued was handed out within the last
`ge_pending` submissions (`WindowCovers`), a command that writes a surface is
the last one (`LastWrites`), and what is about to be submitted is what the
callback delivered (`SourceReady`). With a fence at `ge_pending >= ge_buffers`
the surface at `ge_next` is then outside the window.

What the panel shows needs three more parts on top (`FramesShown`). `LastToPanel`:
once the panel blit of the frame is submitted no later command writes the panel,
so a queue without a panel blit means that the frame is there. `FirstFrame`: until
the first frame nothing is queued between two calls, and during it every panel
blit reads a memory that holds that frame. `ReadyIsVisible` is a property of steps,
so `FirstFrame` also covers the steps of a presenter that gives up on the GE with
the blit outstanding and lets the CPU write. The third part, `ReadsBacked`, says when
a memory that is read may have been freed: only once the presenter has given up on the
GE, and then only a managed surface.

### HostLoopProofs

`HostTypeCorrect`, `WatchdogIsFair`, `ExitsClean`, `CardStaysUp`. The invariant says
for each place in `main()` exactly which resources may be open (the watchdog's
descriptor apart, which no failing exit closes), and that inside a
watched call the alarm and the time passed add up to its timeout, while outside one
it is off.

### PacerProofs

`TypeCorrect`, `Paced`, `Indebted`, `KeepsTimeline`, and `Implements`, the
refinement of `PacerTimeline`. The lemmas translate carry, borrow and comparison
into plain integers once; invariant `PaceTypeOK` and `NeverOutruns`.

### InputChordsProofs

`TypeCorrect`, `LatchesExact`, `KeysAreRight`, `PausesOnce`, `ResumesOnFreshPress`.
Invariant: the latches are exact, the keys of a consumed chord are held, and for
every key that is not stale the last queued event agrees with the device; all keys
held at open are stale. That the
menu resumes only on a press made in it rests on `HeldOver`: until an event of B is
read in the menu, B is down only if it was so when `previous` was taken.

### SaveStoreProofs

`TypeCorrect`, `NeverHalfWritten`, `HashIsHonest`, `SavedOnExit`,
`LoadsTheSavedState`. Invariant: files are whole, the temporary file is the blob
being written and is synced when renamed, a clean hash stands for the file. For
states, `StateKept`: until power is lost the state file holds what was last reported
saved, with the game it was saved for.

### AudioProofs

For the rate `TypeCorrect`, `StaysInStep`, `OutputAlwaysFits`; the rate is positive
and in step with the resampler. `OutputFits` is conditional on a rate of at most
`(ConvertCapacity - 1) * audio_rate`, which the code does not ensure: every underrun
raises the rate by a step and only a reading of the delay cuts it. With the shipped
step of 1/128 and capacity of 8192 that takes over a thousand underruns with fewer
than eight batches between any two. `CapacityAssumption` says that `converted[]` has
room for a chunk at the core's own rate.

For the rings `SeamsAreRamped` and `RingsStayInBounds`: whole blocks cover what is
missing (`BlocksCover`), what is dropped makes room (`DiscardedMakesRoom`), positions
are remainders (`Wraps`), and a repeat copies from a tail that is not empty.

`QueueIsFifo` is the refinement of `AudioFifo`. What a ring holds is the sequence
`Held` reads off it, from its start on and modulo its size; the refinement maps the
queue to `Queued` and the tail to `Recent`. Two lemmas carry the argument for rings
of every size: `HeldDrop` (moving the start takes the first elements away) and
`HeldStore` (writing behind the end appends, and what no longer fits at the front is
gone), from which `EnqueueShifts` follows for `audio_enqueue()` with its
discard by blocks and `PushIsNewest` for `audio_tail_push()`. The piecewise repeat is
compared element by element with the abstract one (`RepeatedAgrees`). The arithmetic
below them is that of remainders: `ModIs`, `ModAdd`. Each action then is a step of
`AudioFifo` or leaves its view alone (`FifoNext`).

### PartsProofs

- The log: `AcksAreHonest` (invariant: an acknowledgement that can be read,
  and every state of the logger that leads to one, is of a journal persisted
  since the call began, or `late`).
- The allocator: `BlocksAlwaysFit` (the division lemmas state once what rounding to a
  page modulo the word gives).
- The menu: `ChangesReachCore`, `PacesAsShown`, `MenuStaysSound`. The last needs that
  the table of options never outgrows its limits (`RegisteredFit`, on `NthIsOne`:
  the n-th of the options kept is one of them, found by counting those before it)
  and that a step in either direction stays in its ring (`BesideIn`).
- The glyph cache: `GlyphsStaySound`. Invariant: the slots in use are the first ones;
  until the age wraps, ages are the order of requests (`AgesOrder`), and a code point
  that was asked for and is gone was asked for before everything in the slots. The
  slots then hold exactly those code points after which fewer than `GLYPH_CACHE`
  others were asked for, by counting (`InUseIsLatest`). `OldestIsFirst` is what the
  scan of `font_glyph()` finds.
- The JS2300 core: `RectanglesClipped`, `ScreenIsDrawn` (which rests on the clipping).

### BrowserProofs

- `SessionEnds`: a session is open only at `execve()` of the player or in the process
  that follows (`SessionOfPlayer`). `LaunchesMember`: the archive directory is exactly
  the archive's contents from the successful attempt to the choice of a member, and no
  payload outlives its launch (`WorkIsArchive`).
- `ListsStayInBounds`, `SelectionStays`, `NeverAboveVolumes`, `BackAlwaysLeadsHome`
  share the invariant `Placed`: paths are volumes or lie below one (`Paths`), the list
  is one that `scan_directory()` may give (`Listing`), and the selection names an item
  of whatever is shown, or the file being launched (`Selection`). A listing has at
  most `MaxEntries` entries although the volumes come on top of what was read:
  `AddedFit` counts them. That sorting loses no entry and doubles none
  (`SortedIsListing`) follows from the places: `Before` is a strict total order
  (`BeforeIsOrder`), so an entry's place is one more than the number of
  those before it, a smaller entry has a smaller place (`PlaceGrows`), and different
  entries have different places in `1..n`.
- `ReturnsToLastGame`: what was read of the bookmark at the start stays with the
  directory and the entry to restore until the library is opened (`Restoring`). It is
  about games below `SD_ROOT` only, and browsers without `auto_launch=`: the code
  refuses any other bookmark (7).
- `ActsOncePerHold`: a chord of which `main()` has seen no key let go since it acted is
  latched (`KeysInv`). `ScreenIsCurrent`:
  what is queued, in the surface and on the screen at each step of a present
  (`UiInv`).

The assumptions of `Browser` say what the platform gives: volumes are mounted two
levels deep and `auto_launch=` names something below one (`PathAssumption`); the
names of a directory differ by more than their case, as on a FAT card, so that the
order is total (`NameAssumption`; where it is not, `qsort()` may put equal names in
either order); a directory is a finite set of entries with distinct names, and what
is called an archive is one (`TreeAssumption`).

### Stated and proved, not among the runs

`RingOwnership`, `DebtBounded`, `TimelineKept`, `PauseOncePerPress`,
`HashMatchesFile`, `InStep`, `CardKept`, `ClippedExactly` and the type invariants of
`GePresenter`, `Pacer`, `InputChords`, `SaveStore`, `AudioRate`, `HostLoop`: the
invariant a run checks is stronger or rests on them. TLC checked them, and each
inductive invariant above, before they were proved.

### Only model-checked

The liveness properties `CallbackReturns`, `MenuIsDrawn`, `StarvedRecovers`,
`StopEnds`, `MenuOpens` and `SavedAtLast`: fairness and `ENABLED` are beyond this
prover. The properties of section 7 are refuted by TLC and have nothing to prove.

## 7. Where the code and its documents disagree

Shown by a run:

- `ge_strip_backed`: `ge_disable_cpu_fallback()` (`src/src/main.c:1563`) frees the
  slab whose tail holds the FPS strips and does not clear `ge_fps_overlay[]`. The
  next raw frame whose text changed writes there.
- `save_ignored`: `save_ram_load()` (`src/src/main.c:2738`) reads into the core's
  RAM. An error in the middle is reported as "save RAM ignored", but the torn RAM
  differs from `save_ram_hash` and replaces the save at the next flush.
- `rate_lead`: the feedback is to "rebuild drained lead with a bounded 0.8% correction"
  (`src/README.md:74-75`), "plus or minus ~0.8% around the PCM sink rate"
  (`src/src/main.c:95-97`). `audio_update_feedback()` caps every rate at the core's
  (2141-2142): for a core at the rate of the PCM the correction upwards is always
  undone, and for a core below it that plays at 32 kHz (a rate the DAC does not know,
  or one that could not be opened) the first reading, on target or not, cuts the rate
  to less than the PCM plays, and the ring starves. With a cap one step above the
  rate of the PCM instead, the property holds.
- `browser_chords`: `main()` of `src/src/browser.c` keeps the held bits of
  START+RIGHT and START+UP over a launch whose events it never sees (1831-1832).
  START let go there counts as held afterwards, and RIGHT alone flushes the log.
- `ui_diagnostic`: `capture_ui_diagnostic()` (`src/src/browser.c:580`) takes the image
  of "the GE" although `write_frame()` may have fallen back to the CPU, so the
  comparison that "isolates the GE transfer" (585) compares two CPU writes.

Stated at the end of a module and not among the runs; to see one, name it as
INVARIANT (PROPERTY for `RateReturns` and `ReadyIsObservable`) in a configuration of
the module:

| Property | Module | What happens |
|---|---|---|
| `ReadyIsObservable` | GePresenter | `ge_disable_cpu_fallback()` frees the managed surfaces before `cpu_present()` copies the frame (`src/src/main.c:1569-1575`, 1645, 1651-1653); if the core drew it into a lent surface, the first frame may be anything when READY is published |
| `OwnershipBoundary` | GePresenter | a pause frame gives up on the GE with its blit outstanding; the game goes on with the same ring and may overwrite that surface |
| `ReleasedIsIdle` | GePresenter | the drain before the surfaces are freed may fail and is ignored |
| `RawReadAsBGR555` | GePresenter | a raw frame larger than the panel is scaled as RGB565 |
| `ChordWithheld` | InputChords | when START goes up one poll before SELECT, the core sees SELECT |
| `RampFromLast` | AudioQueue | a ramp where the tail wraps inside a chunk changes the level the ramp at the chunk's start leaves from |
| `UncappedIsQuiet` | AudioQueue | a refill queues audio in unlimited mode once the menu has prepared the PCM |
| `RateBounded` | AudioRate | repeated corrections and underruns add up |
| `RateReturns` | AudioRate | for a core at or above the rate of the PCM a correction is never undone on target: 2137-2139 compare the rate with two others that differ from it |
| `AckMeansPersisted` | LogFlush | an acknowledgement the logger owes a call that timed out is taken for the next call's, whose lines are not on the card |

Met while modelling and not stated as properties:

- `src/README.md:92` says the browser begins the performance session before `exec`
  of a core or a player, but only the player branch does (the core host begins
  its own, `src/src/main.c:3628`).
- `load_browser_state()` (`src/src/browser.c:150-156`, 187) accepts only bookmarks below
  `SD_ROOT`, although `save_browser_state()` writes them for every volume: back from a
  game on another volume the library opens on the primary one.
- After a launch that failed, a chord whose keys were let go while the chooser read the
  events is still latched, and its next press does nothing (`src/src/browser.c:1756`).
  With RIGHT and UP held, START only flushes the log (`continue`, 1764), and the
  diagnostic takes a later press of UP.
- The watchdog's `core_watchdog_kmsg_fd`, opened at `src/src/main.c:3527`, is closed only
  at 3756-3757: the failing exits (3539, 3558, 3584-3586, 3600-3603) leave it to the end
  of the process (`CleanExit` says so).
- `scan_directory()` (`src/src/browser.c:811`) reads the entries first and refreshes
  the volumes after, which can move `current` to another volume than the entries
  came from.
- The handlers of SIGINT and SIGTERM are installed last (`src/src/main.c:3642`):
  before that a stop request ends the process without any teardown.
- `retro_unload_game()`, `retro_deinit()` and the serialisation of states run
  unwatched; one that hangs keeps the process.
- `SF2000_UNCAPPED=1` runs the host uncapped while the menu shows 1X, until the rate
  is changed (`benchmark` in `PauseMenu`).
- `register_core_options()` resets the choices without setting
  `core_options_updated`: a core that registers again and does not read again
  keeps the old ones (`unread`).
- `close_platform()` (`src/src/main.c:3492`) closes whatever descriptor 0 is when
  `open_platform()` fails before the input is opened, since the descriptor in
  `host` is then still 0.
- `js2300_runner.c:216` keeps the GE and its surface after a wait that failed; a
  blit that is still outstanding then reads what the next present writes there
  (`stale` in `UiPresenter`). Its `main()` returns without `runner_close()` when
  `access()` fails (553).
- A glyph whose `calloc()` failed stays blank until it is evicted
  (`src/src/sf2000_browser_ui.c:312`).

## 8. Not modelled

Pixel arithmetic, text layout, telemetry and messages steer nothing. The
supervisor, the logger, the cores, the GE, the PCM, the resampler and the file
system are external, modelled from their use. In particular:

- `AudioQueue`: the levels that ramps and the decay give the samples, and
  `audio_sample()`, which is a batch of one frame.
- Environment: the pixel format, which is stored before it is refused, the defaults
  for options a core has not declared, and the calls with constant answers.
- Platform: the ioctls of opening; its failure is one step of `HostLoop`.
- Session: `sf2000_performance_begin()` waits for an acknowledgement and goes on
  either way.
- Browser: the settings view's input, and drawing. Browser UI: the choice between
  two fonts, UTF-8 decoding, drawing.
- `content.c`: one sequential read; the retries after EINTR are not modelled.
- JS2300: the file and directory callbacks (a table of handles over POSIX), the
  script engine (not in the repository) and the stubs of the runner.
- Core adapters forward calls and keep no state but the directory handles of the
  QPSX adapter. `utf8_compat.c` is pure functions on bytes. The build rules, the
  patches and the resources are no program of this repository.

## 9. Plan

1. Done: the modules of section 2. The order was that of
   consequence: what corrupts memory or the card first, then what is heard and
   felt, then the browser, then the host's life and the libraries.
2. Done: a theorem for every safety property of a passing run. Left: the progress
   arguments behind the liveness properties as far as they are statements about
   single steps (a measure that every step of a present lowers, an alarm that only
   falls), and the hypotheses one part makes of another as theorems (`OutputFits`
   is what `AudioQueue` assumes of a chunk).
3. Modules: the directory handles of the QPSX adapter and of `js2300_core_fs.c`,
   `utf8_compat.c`, the pixel format of `environment()`.
4. A composition of `HostLoop` with the saves, so that a stop request in the
   middle of a write is one behaviour.
