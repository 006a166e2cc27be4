------------------------------ MODULE SaveStore ------------------------------
(***************************************************************************)
(* Battery saves and save states of src/src/main.c: save_ram_load(),       *)
(* save_ram_poll(), save_ram_flush(), save_state_slot(), load_state_slot() *)
(* and the save_blob_atomic() they share, over sessions that end cleanly,  *)
(* crash or lose power at any step.                                        *)
(*                                                                         *)
(* The file system is external, modelled from how main.c uses it: a name   *)
(* is replaced atomically by rename(), data is durable only after fsync(), *)
(* a rename may be undone by a power loss.  save_hash() is taken to tell   *)
(* the contents apart.                                                     *)
(***************************************************************************)
EXTENDS Naturals

CONSTANTS Value,        \* contents of the cartridge RAM
          Blank,        \* what the core starts with
          Game,         \* games whose file names have the same stem
          PollFrames,   \* SAVE_RAM_POLL_FRAMES
          FlushTicks    \* SAVE_RAM_FLUSH_US, in ticks of the clock

ASSUME BlankAssumption == Blank \in Value
ASSUME PollFramesAssumption == PollFrames \in Nat \ {0}
ASSUME FlushTicksAssumption == FlushTicks \in Nat \ {0}

Torn    == "torn"      \* a buffer a failed read has overwritten in part
Partial == "partial"   \* a file a power loss has left incomplete
ASSUME TornAssumption == {Torn, Partial} \cap Value = {} /\ Value # {}

Content == Value \cup {Torn}
Path    == {"srm", "state"}
NoFile  == [data |-> "none", key |-> "none", synced |-> TRUE]
Image   == [data : Content \cup {Partial}, key : Game \cup {"none"}, synced : BOOLEAN]
             \cup {NoFile}
Never   == FlushTicks + 1

VARIABLES file,    \* what open() finds under each name
          disk,    \* what else a power loss may leave under it
          tmp,     \* the temporary file
          game, sram,
          save_ram_hash, save_ram_dirty, save_ram_poll_frames,
          since,   \* ticks since save_ram_last_flush_us, up to FlushTicks; Never
          pc,      \* "off", the loop, the menu, "exit", a step of save_blob_atomic()
          path, from,  \* the blob being written, and where it returns to
          start,   \* history: the contents the session's hash began with
          promised \* history: the state last reported saved, for which game

store   == <<file, disk, tmp>>
battery == <<save_ram_hash, save_ram_dirty, save_ram_poll_frames, since>>
call    == <<path, from>>
history == <<start, promised>>
vars    == <<store, game, sram, battery, pc, call, history>>

NoPromise == [game |-> "none", data |-> "none"]

Init ==
  /\ file = [p \in Path |-> NoFile] /\ disk = file /\ tmp = NoFile
  /\ game \in Game /\ sram = Blank
  /\ save_ram_hash = Blank /\ save_ram_dirty = FALSE /\ save_ram_poll_frames = 0
  /\ since = Never
  /\ pc = "off" /\ path = "srm" /\ from = "run"
  /\ start = Blank /\ promised = NoPromise
-----------------------------------------------------------------------------
(* configure_saves() and save_ram_load(): no file, a file of another size  *)
(* or no save directory leaves the RAM alone, a read error in the middle   *)
(* does not.                                                               *)
Configure ==
  /\ pc = "off" /\ pc' = "run"
  /\ game' \in Game
  /\ \/ sram' = Blank /\ save_ram_hash' = Blank
     \/ /\ file["srm"].data \in Content
        /\ sram' = file["srm"].data /\ save_ram_hash' = sram'
     \/ /\ file["srm"].data \in Content \cup {Partial}
        /\ sram' = Torn /\ save_ram_hash' = Blank
  /\ save_ram_dirty' = FALSE /\ save_ram_poll_frames' = 0 /\ since' = Never
  /\ start' = save_ram_hash'
  /\ UNCHANGED <<store, call, promised>>
-----------------------------------------------------------------------------
(* save_ram_flush() with the RAM at s, called from l.                      *)
Flush(s, l) ==
  /\ save_ram_dirty' = (save_ram_dirty \/ s # save_ram_hash)
  /\ \/ pc' = l /\ UNCHANGED call   \* nothing to do, or no save directory
     \/ save_ram_dirty' /\ pc' = "write" /\ path' = "srm" /\ from' = l
  /\ UNCHANGED save_ram_hash

Tick == IF since < FlushTicks THEN {since, since + 1} ELSE {since}

FlushDue_Again == since' \in FlushTicks .. (Never - 1)
FlushDue == since' >= FlushTicks    \* Never included

PollDue_Late == save_ram_poll_frames + 1 > PollFrames
PollDue == save_ram_poll_frames + 1 >= PollFrames

(* One frame of main(): retro_run() may write the RAM, time may pass, then *)
(* save_ram_poll().                                                        *)
Frame ==
  /\ pc = "run"
  /\ sram' \in Value \cup {sram}
  /\ since' \in Tick
  /\ \/ /\ ~PollDue
        /\ save_ram_poll_frames' = save_ram_poll_frames + 1
        /\ UNCHANGED <<save_ram_hash, save_ram_dirty, pc, call>>
     \/ /\ PollDue /\ save_ram_poll_frames' = 0
        /\ FlushDue /\ Flush(sram', "run")
     \/ /\ PollDue /\ save_ram_poll_frames' = 0
        /\ ~FlushDue
        /\ save_ram_dirty' = (save_ram_dirty \/ sram' # save_ram_hash)
        /\ UNCHANGED <<save_ram_hash, pc, call>>
  /\ UNCHANGED <<store, game, history>>

(* run_pause_menu() flushes when it opens, after the frame that asked for  *)
(* it; without its UI it returns to the game at once.  main() flushes when *)
(* it leaves its loop.                                                     *)
OpenMenu ==
  /\ pc = "run"
  /\ sram' \in Value \cup {sram}
  /\ \E l \in {"menu", "run"} : Flush(sram', l)
  /\ UNCHANGED <<store, game, save_ram_poll_frames, since, history>>

Resume ==
  /\ pc = "menu" /\ pc' = "run"
  /\ UNCHANGED <<store, game, sram, battery, call, history>>

Stop ==
  /\ pc \in {"run", "menu"}
  /\ Flush(sram, "exit")
  /\ UNCHANGED <<store, game, sram, save_ram_poll_frames, since, history>>
-----------------------------------------------------------------------------
(* save_blob_atomic(), the temporary file written, synced, renamed.        *)
Blob == [data |-> sram, key |-> IF path = "state" THEN game ELSE "none", synced |-> FALSE]

Return == pc' = from /\ path' = "srm" /\ from' = "run"

BlobFails_Ignored ==
  /\ pc \in {"write", "sync", "rename"} /\ Return
  /\ tmp' = NoFile
  /\ IF path = "srm" THEN save_ram_hash' = sram /\ save_ram_dirty' = FALSE
     ELSE UNCHANGED <<save_ram_hash, save_ram_dirty>>
  /\ UNCHANGED <<file, disk, game, sram, save_ram_poll_frames, since, history>>

(* Any error unlinks the temporary file and returns -1.                    *)
BlobFails ==
  /\ pc \in {"write", "sync", "rename"} /\ Return
  /\ tmp' = NoFile
  /\ UNCHANGED <<file, disk, game, sram, battery, history>>

BlobWrite ==
  /\ pc = "write" /\ pc' = "sync"
  /\ tmp' = Blob
  /\ UNCHANGED <<file, disk, game, sram, battery, call, history>>

Synced_Skipped == tmp
Synced == [data |-> tmp.data, key |-> tmp.key, synced |-> TRUE]

BlobSync ==
  /\ pc = "sync" /\ pc' = "rename"
  /\ tmp' = Synced
  /\ UNCHANGED <<file, disk, game, sram, battery, call, history>>

HashAfter_Kept == save_ram_hash
HashAfter == IF path = "srm" THEN sram ELSE save_ram_hash

BlobRename ==
  /\ pc = "rename" /\ Return
  /\ file' = [file EXCEPT ![path] = tmp]
  /\ tmp' = NoFile
  /\ save_ram_hash' = HashAfter
  /\ IF path = "srm"
     THEN save_ram_dirty' = FALSE /\ since' = 0 /\ UNCHANGED promised
     ELSE promised' = [game |-> game, data |-> sram] /\ UNCHANGED <<save_ram_dirty, since>>
  /\ UNCHANGED <<disk, game, sram, save_ram_poll_frames, start>>
-----------------------------------------------------------------------------
(* save_state_slot() from the menu; the core may refuse to serialize.      *)
SaveState ==
  /\ pc = "menu" /\ pc' = "write"
  /\ path' = "state" /\ from' = "menu"
  /\ UNCHANGED <<store, game, sram, battery, history>>

(* load_state_slot() accepts a whole file of this game.                    *)
Accepted_AnyKey(image) == image.data \in Content
Accepted(image) == image.data \in Content /\ image.key = game

LoadState ==
  /\ pc = "menu" /\ Accepted(file["state"])
  /\ sram' = file["state"].data
  /\ UNCHANGED <<store, game, battery, pc, call, history>>
-----------------------------------------------------------------------------
(* The process is gone, and with it its memory.                            *)
Gone ==
  /\ pc' = "off" /\ sram' = Blank
  /\ save_ram_hash' = Blank /\ save_ram_dirty' = FALSE /\ save_ram_poll_frames' = 0
  /\ since' = Never /\ path' = "srm" /\ from' = "run" /\ start' = Blank
  /\ UNCHANGED game

Exit == pc = "exit" /\ Gone /\ UNCHANGED <<store, promised>>

(* The core faults, or its watchdog expires.                               *)
Crash == pc \notin {"off", "exit"} /\ Gone /\ UNCHANGED <<store, promised>>

(* Power is lost: an unsynced file may be incomplete, a rename undone.     *)
Survivors(image) ==
  IF image.synced THEN {image} ELSE {image, [image EXCEPT !.data = Partial]}

PowerLoss ==
  /\ Gone
  /\ \E srm \in Survivors(file["srm"]) \cup Survivors(disk["srm"]),
        state \in Survivors(file["state"]) \cup Survivors(disk["state"]) :
       file' = [p \in Path |-> IF p = "srm" THEN srm ELSE state]
  /\ disk' = file' /\ tmp' = NoFile
  /\ promised' = NoPromise

(* The kernel writes a rename back.                                        *)
Writeback ==
  /\ \E p \in Path : disk' = [disk EXCEPT ![p] = file[p]]
  /\ UNCHANGED <<file, tmp, game, sram, battery, pc, call, history>>
-----------------------------------------------------------------------------
Host == \/ Frame \/ BlobFails \/ BlobWrite \/ BlobSync \/ BlobRename

Next == \/ Configure \/ Host \/ OpenMenu \/ Resume \/ Stop \/ Exit
        \/ SaveState \/ LoadState
        \/ Crash \/ PowerLoss \/ Writeback

Spec == Init /\ [][Next]_vars

(* A frame at which save_ram_poll() finds changed RAM and a flush due.     *)
DueFlush == Frame /\ PollDue /\ FlushDue /\ save_ram_dirty'

(* Of main(): it runs frames, and time passes over them.  Of the file      *)
(* system: a directory made again and again is made at last, and a write,  *)
(* an fsync or a rename tried again and again succeeds at last.  Nothing   *)
(* is assumed of the core, which need never write its RAM.                 *)
FairSpec ==
  /\ Spec
  /\ WF_vars(Host)
  /\ SF_vars(Frame /\ (since # since' \/ since >= FlushTicks))
  /\ <>[][~DueFlush]_vars \/ []<><<DueFlush /\ pc' = "write">>_vars
  /\ SF_vars(BlobWrite) /\ SF_vars(BlobSync) /\ SF_vars(BlobRename)
-----------------------------------------------------------------------------
TypeOK ==
  /\ file \in [Path -> Image] /\ disk \in [Path -> Image] /\ tmp \in Image
  /\ game \in Game /\ sram \in Content
  /\ save_ram_hash \in Content /\ save_ram_dirty \in BOOLEAN
  /\ save_ram_poll_frames \in 0 .. PollFrames - 1
  /\ since \in 0 .. Never
  /\ pc \in {"off", "run", "menu", "exit", "write", "sync", "rename"}
  /\ path \in Path /\ from \in {"run", "menu", "exit"}
  /\ start \in Content
  /\ promised \in [game : Game, data : Content] \cup {NoPromise}

(* No failed write, crash or loss of power, in any order, leaves an        *)
(* incomplete file where a save is looked for (save_blob_atomic).          *)
FilesWhole ==
  \A p \in Path : \A image \in {file[p], disk[p]} :
    image.data # Partial /\ image.synced

(* What save_ram_poll() takes for saved is saved: after the first flush of *)
(* a session the file holds what the hash stands for, however many later   *)
(* flushes failed.                                                         *)
HashMatchesFile == since # Never => file["srm"].data = save_ram_hash

(* A session that ends with nothing left to flush has saved its RAM,       *)
(* unless the RAM is what its hash began with and was never written.       *)
ExitSaves ==
  pc = "exit" /\ ~save_ram_dirty /\ (sram # start \/ since # Never) =>
    file["srm"].data = sram

(* A state that loads is the one last reported saved, and for this game,   *)
(* over crashes and over games that share the stem; after a loss of power  *)
(* it may be an older one (load_state_slot).                               *)
LoadReturnsSaved ==
  [][LoadState =>
       promised \in {NoPromise, [game |-> game, data |-> sram']}]_vars

(* RAM that the core leaves alone at last gets saved and stays saved, as   *)
(* long as the loop runs and however often the writes failed, but for RAM  *)
(* that is what it was when the session began and was never written        *)
(* (save_ram_poll).                                                        *)
SavedAtLast ==
  <>[](pc \in {"run", "write", "sync", "rename"}) /\ <>[][FALSE]_sram =>
    <>[](file["srm"].data = sram \/ (sram = start /\ since = Never))

(* "save RAM ignored due to size or read error": a save that could not be  *)
(* read is ignored, so nothing made of it replaces the file.               *)
IgnoredSaveKept == file["srm"].data # Torn
=============================================================================
