--------------------------- MODULE SaveStoreProofs ---------------------------
(* Proofs about SaveStore, for every set of contents and games and every   *)
(* pace of the polls and flushes.                                          *)
EXTENDS SaveStore, TLAPS

USE DEF vars, store, battery, call, history

Steps == {"write", "sync", "rename"}

SyncedBlob ==
  [data |-> sram, key |-> IF path = "state" THEN game ELSE "none", synced |-> TRUE]

(* The temporary file holds the blob being written; a flush on the way out *)
(* has something to write; the hash is what the session began with until   *)
(* its first flush; nothing is left to flush only when the RAM has its     *)
(* hash.                                                                   *)
BlobKept ==
  /\ pc = "sync"   => tmp = Blob
  /\ pc = "rename" => tmp = SyncedBlob
  /\ pc \in Steps /\ from = "exit" => save_ram_dirty /\ path = "srm"
HashKept ==
  /\ since = Never => save_ram_hash = start
  /\ pc = "exit" /\ ~save_ram_dirty => sram = save_ram_hash

IInv == TypeOK /\ FilesWhole /\ BlobKept /\ HashKept /\ HashMatchesFile

LEMMA Constant ==
  /\ Content = Value \cup {Torn} /\ Partial \notin Content /\ Torn \in Content
  /\ Blank \in Content
  /\ NoFile \in Image /\ NoFile.data # Partial /\ NoFile.synced
  /\ Never \in Nat /\ Never > 0 /\ FlushTicks \in Nat /\ Never = FlushTicks + 1
  /\ Never \in 0 .. Never /\ 0 \in 0 .. Never /\ 0 \in 0 .. PollFrames - 1
  /\ Path = {"srm", "state"}
BY TornAssumption, BlankAssumption, FlushTicksAssumption, PollFramesAssumption
   DEF Content, Torn, Partial, NoFile, Image, Never, Path

LEMMA InitInv == Init => IInv
<1>. SUFFICES ASSUME Init PROVE IInv
  OBVIOUS
<1>1. TypeOK
  BY Constant, PollFramesAssumption DEF Init, TypeOK
<1>2. FilesWhole
  BY Constant DEF Init, FilesWhole
<1>. QED BY <1>1, <1>2 DEF Init, IInv, BlobKept, HashKept, HashMatchesFile, Steps

LEMMA ConfigureInv == ASSUME IInv, Configure PROVE IInv'
<1>1. TypeOK'
  BY Constant, PollFramesAssumption DEF IInv, TypeOK, Configure
<1>2. FilesWhole'
  BY DEF IInv, FilesWhole, Configure
<1>3. BlobKept' /\ HashKept' /\ HashMatchesFile'
  BY DEF Configure, BlobKept, HashKept, HashMatchesFile, Steps
<1>. QED BY <1>1, <1>2, <1>3 DEF IInv

(* save_ram_flush() leaves either its caller with nothing changed but the  *)
(* dirty flag, or a blob of the battery RAM to write.                      *)
LEMMA FlushStep ==
  ASSUME NEW s \in Content, NEW l \in {"run", "menu", "exit"},
         TypeOK, sram' = s, Flush(s, l), pc \in {"run", "menu"}
  PROVE  /\ pc' \in {l, "write"} /\ path' \in Path /\ from' \in {"run", "menu", "exit"}
         /\ save_ram_hash' = save_ram_hash /\ save_ram_dirty' \in BOOLEAN
         /\ BlobKept'
         /\ ~save_ram_dirty' => sram' = save_ram_hash'
<1>1. path' \in Path /\ from' \in {"run", "menu", "exit"}
  BY Constant DEF Flush, TypeOK
<1>2. BlobKept'
  BY DEF Flush, BlobKept, Steps
<1>3. save_ram_dirty' \in BOOLEAN /\ (~save_ram_dirty' => sram' = save_ram_hash')
  BY DEF Flush
<1>. QED BY <1>1, <1>2, <1>3 DEF Flush

LEMMA FrameInv == ASSUME IInv, Frame PROVE IInv'
<1>1. /\ sram' \in Content /\ since' \in 0 .. Never /\ (since' = Never <=> since = Never)
      /\ UNCHANGED <<file, disk, tmp, game, start, promised>> /\ pc = "run"
  BY Constant DEF Frame, Tick, IInv, TypeOK
<1>2. /\ pc' \in {"run", "write"} /\ path' \in Path /\ from' \in {"run", "menu", "exit"}
      /\ save_ram_hash' = save_ram_hash /\ save_ram_dirty' \in BOOLEAN /\ BlobKept'
  <2>1. CASE PollDue /\ FlushDue /\ Flush(sram', "run")
    BY <1>1, <2>1, FlushStep DEF IInv
  <2>2. CASE UNCHANGED <<save_ram_hash, pc, call>>
               /\ (UNCHANGED save_ram_dirty
                   \/ save_ram_dirty' = (save_ram_dirty \/ sram' # save_ram_hash))
    <3>1. save_ram_dirty' \in BOOLEAN
      BY <2>2 DEF IInv, TypeOK
    <3>. QED BY <1>1, <2>2, <3>1 DEF IInv, TypeOK, BlobKept, Steps
  <2>. QED BY <2>1, <2>2 DEF Frame
<1>3. save_ram_poll_frames' \in 0 .. PollFrames - 1
  BY PollFramesAssumption DEF Frame, PollDue, IInv, TypeOK
<1>4. TypeOK'
  BY <1>1, <1>2, <1>3 DEF IInv, TypeOK
<1>5. FilesWhole'
  BY <1>1 DEF IInv, FilesWhole
<1>6. HashKept' /\ HashMatchesFile'
  BY <1>1, <1>2 DEF IInv, HashKept, HashMatchesFile
<1>. QED BY <1>2, <1>4, <1>5, <1>6 DEF IInv

LEMMA FlushFromInv ==
  ASSUME IInv, OpenMenu \/ Stop
  PROVE  IInv'
<1>1. PICK l \in {"run", "menu", "exit"} : Flush(sram', l)
  BY DEF OpenMenu, Stop
<1>2. /\ UNCHANGED <<store, game, save_ram_poll_frames, since, history>>
      /\ pc \in {"run", "menu"} /\ sram' \in Content
  BY Constant DEF OpenMenu, Stop, IInv, TypeOK
<1>3. /\ pc' \in {l, "write"} /\ path' \in Path /\ from' \in {"run", "menu", "exit"}
      /\ save_ram_hash' = save_ram_hash /\ save_ram_dirty' \in BOOLEAN /\ BlobKept'
      /\ ~save_ram_dirty' => sram' = save_ram_hash'
  BY <1>1, <1>2, FlushStep DEF IInv, TypeOK
<1>4. TypeOK'
  BY <1>2, <1>3 DEF IInv, TypeOK
<1>5. FilesWhole'
  BY <1>2 DEF IInv, FilesWhole
<1>6. HashKept' /\ HashMatchesFile'
  BY <1>2, <1>3 DEF IInv, HashKept, HashMatchesFile
<1>. QED BY <1>3, <1>4, <1>5, <1>6 DEF IInv

LEMMA MenuInv == ASSUME IInv, Resume \/ SaveState \/ LoadState PROVE IInv'
<1>1. /\ pc = "menu" /\ pc' \in {"run", "menu", "write"}
      /\ pc' = "write" => path' = "state" /\ from' = "menu"
      /\ pc' # "write" => UNCHANGED <<path, from>>
      /\ sram' \in Content
      /\ UNCHANGED <<store, game, battery, history>>
  BY DEF Resume, SaveState, LoadState, Accepted, IInv, TypeOK
<1>2. TypeOK'
  BY <1>1, Constant DEF IInv, TypeOK
<1>3. FilesWhole'
  BY <1>1 DEF IInv, FilesWhole
<1>4. BlobKept'
  BY <1>1 DEF BlobKept, Steps
<1>5. HashKept' /\ HashMatchesFile'
  BY <1>1 DEF IInv, HashKept, HashMatchesFile
<1>. QED BY <1>2, <1>3, <1>4, <1>5 DEF IInv

LEMMA BlobTyped ==
  ASSUME TypeOK
  PROVE  /\ Blob \in Image /\ SyncedBlob \in Image
         /\ SyncedBlob = [data |-> Blob.data, key |-> Blob.key, synced |-> TRUE]
         /\ SyncedBlob.data = sram /\ SyncedBlob.synced
<1>. DEFINE k == IF path = "state" THEN game ELSE "none"
<1>1. k \in Game \cup {"none"} /\ sram \in Content \cup {Partial}
  BY DEF TypeOK
<1>2. \A b \in BOOLEAN : [data |-> sram, key |-> k, synced |-> b] \in Image
  BY <1>1 DEF Image
<1>3. Blob \in Image /\ SyncedBlob \in Image
  BY <1>2 DEF Blob, SyncedBlob
<1>4. SyncedBlob = [data |-> Blob.data, key |-> Blob.key, synced |-> TRUE]
  BY DEF Blob, SyncedBlob
<1>5. SyncedBlob.data = sram /\ SyncedBlob.synced = TRUE
  BY DEF SyncedBlob
<1>. QED BY <1>3, <1>4, <1>5

LEMMA BlobStepInv == ASSUME IInv, BlobWrite \/ BlobSync PROVE IInv'
<1>1. /\ pc' \in {"sync", "rename"} /\ pc \in Steps
      /\ UNCHANGED <<file, disk, game, sram, battery, call, history>>
  BY DEF BlobWrite, BlobSync, Steps
<1>2. (pc' = "sync" /\ tmp' = Blob) \/ (pc' = "rename" /\ tmp' = SyncedBlob)
  <2>1. CASE BlobWrite
    BY <2>1 DEF BlobWrite
  <2>2. CASE BlobSync
    BY <2>2, BlobTyped DEF BlobSync, Synced, IInv, BlobKept
  <2>. QED BY <2>1, <2>2
<1>3. TypeOK'
  <2>1. tmp' \in Image
    BY <1>1, <1>2, BlobTyped DEF IInv
  <2>. QED BY <1>1, <2>1 DEF IInv, TypeOK
<1>4. FilesWhole'
  BY <1>1 DEF IInv, FilesWhole
<1>5. BlobKept'
  BY <1>1, <1>2 DEF IInv, BlobKept, Steps, Blob, SyncedBlob
<1>6. HashKept' /\ HashMatchesFile'
  BY <1>1 DEF IInv, HashKept, HashMatchesFile
<1>. QED BY <1>3, <1>4, <1>5, <1>6 DEF IInv

LEMMA BlobFailsInv == ASSUME IInv, BlobFails PROVE IInv'
<1>1. /\ pc \in Steps /\ pc' = from /\ path' = "srm" /\ from' = "run" /\ tmp' = NoFile
      /\ UNCHANGED <<file, disk, game, sram, battery, history>>
  BY DEF BlobFails, Return, Steps
<1>2. TypeOK'
  BY <1>1, Constant DEF IInv, TypeOK
<1>3. FilesWhole'
  BY <1>1 DEF IInv, FilesWhole
<1>4. BlobKept'
  BY <1>1 DEF BlobKept, Steps, IInv, TypeOK
<1>5. HashKept' /\ HashMatchesFile'
  BY <1>1 DEF IInv, HashKept, HashMatchesFile, BlobKept
<1>. QED BY <1>2, <1>3, <1>4, <1>5 DEF IInv

LEMMA BlobRenameInv == ASSUME IInv, BlobRename PROVE IInv'
<1>1. /\ pc = "rename" /\ pc' = from /\ path' = "srm" /\ from' = "run" /\ tmp' = NoFile
      /\ file' = [file EXCEPT ![path] = tmp] /\ save_ram_hash' = HashAfter
      /\ UNCHANGED <<disk, game, sram, save_ram_poll_frames, start>>
  BY DEF BlobRename, Return
<1>2. tmp.data = sram /\ tmp.synced /\ tmp \in Image
  BY <1>1, BlobTyped DEF IInv, BlobKept
<1>3. FilesWhole'
  BY <1>1, <1>2, Constant DEF IInv, FilesWhole, TypeOK
<1>4. CASE path = "srm"
  <2>1. save_ram_hash' = sram /\ ~save_ram_dirty' /\ since' = 0 /\ UNCHANGED promised
        /\ save_ram_dirty' \in BOOLEAN
    BY <1>4 DEF BlobRename, HashAfter, Return
  <2>2. TypeOK'
    BY <1>1, <1>2, <2>1, Constant DEF IInv, TypeOK
  <2>3. BlobKept'
    BY <1>1 DEF BlobKept, Steps, IInv, TypeOK
  <2>4. HashKept' /\ HashMatchesFile'
    BY <1>1, <1>2, <1>4, <2>1, Constant DEF IInv, TypeOK, HashKept, HashMatchesFile
  <2>. QED BY <1>3, <2>2, <2>3, <2>4 DEF IInv
<1>5. CASE path = "state"
  <2>1. /\ save_ram_hash' = save_ram_hash /\ UNCHANGED <<save_ram_dirty, since>>
        /\ promised' = [game |-> game, data |-> sram] /\ from # "exit"
    BY <1>1, <1>5 DEF BlobRename, HashAfter, IInv, BlobKept, Steps
  <2>2. TypeOK'
    BY <1>1, <1>2, <2>1, Constant DEF IInv, TypeOK
  <2>3. BlobKept'
    BY <1>1 DEF BlobKept, Steps, IInv, TypeOK
  <2>4. HashKept' /\ HashMatchesFile'
    BY <1>1, <1>5, <2>1, Constant DEF IInv, TypeOK, HashKept, HashMatchesFile
  <2>. QED BY <1>3, <2>2, <2>3, <2>4 DEF IInv
<1>. QED BY <1>4, <1>5, Constant DEF IInv, TypeOK

(* What outlives the process: the files, as they were or as they lasted.   *)
LEMMA GoneInv ==
  ASSUME IInv, Gone, file' \in [Path -> Image], disk' \in [Path -> Image],
         tmp' \in Image, promised' \in [game : Game, data : Content] \cup {NoPromise},
         FilesWhole'
  PROVE  IInv'
<1>1. TypeOK'
  BY Constant, PollFramesAssumption DEF IInv, TypeOK, Gone
<1>2. BlobKept' /\ HashKept' /\ HashMatchesFile'
  BY DEF Gone, BlobKept, HashKept, HashMatchesFile, Steps
<1>. QED BY <1>1, <1>2 DEF IInv

LEMMA EndInv == ASSUME IInv, Exit \/ Crash PROVE IInv'
<1>1. Gone /\ UNCHANGED <<file, disk, tmp, promised>>
  BY DEF Exit, Crash
<1>2. FilesWhole'
  BY <1>1 DEF IInv, FilesWhole
<1>. QED BY <1>1, <1>2, GoneInv DEF IInv, TypeOK

LEMMA PowerLossInv == ASSUME IInv, PowerLoss PROVE IInv'
<1>1. PICK srm \in {file["srm"], disk["srm"]}, state \in {file["state"], disk["state"]} :
        file' = [p \in Path |-> IF p = "srm" THEN srm ELSE state]
  BY Constant DEF PowerLoss, Survivors, IInv, FilesWhole
<1>2. /\ srm \in Image /\ state \in Image /\ srm.synced /\ state.synced
      /\ srm.data # Partial /\ state.data # Partial
  BY Constant DEF IInv, TypeOK, FilesWhole
<1>3. disk' = file' /\ tmp' = NoFile /\ promised' = NoPromise /\ Gone
  BY DEF PowerLoss
<1>4. file' \in [Path -> Image] /\ FilesWhole'
  BY <1>1, <1>2, <1>3 DEF FilesWhole
<1>. QED BY <1>3, <1>4, Constant, GoneInv

LEMMA WritebackInv == ASSUME IInv, Writeback PROVE IInv'
<1>1. /\ disk' \in [Path -> Image]
      /\ \A p \in Path : disk'[p] \in {file[p], disk[p]}
      /\ UNCHANGED <<file, tmp, game, sram, battery, pc, call, history>>
  BY DEF Writeback, IInv, TypeOK
<1>2. FilesWhole'
  BY <1>1 DEF IInv, FilesWhole
<1>3. TypeOK' /\ BlobKept' /\ HashKept' /\ HashMatchesFile'
  BY <1>1 DEF IInv, TypeOK, BlobKept, HashKept, HashMatchesFile, Steps,
                 Blob, SyncedBlob
<1>. QED BY <1>2, <1>3 DEF IInv

LEMMA StutterInv == ASSUME IInv, UNCHANGED vars PROVE IInv'
BY DEF IInv, TypeOK, FilesWhole, BlobKept, HashKept, HashMatchesFile, Steps,
       Blob, SyncedBlob

LEMMA Inductive == Spec => []IInv
<1>1. Init => IInv
  BY InitInv
<1>2. IInv /\ [Next]_vars => IInv'
  <2>. SUFFICES ASSUME IInv, [Next]_vars PROVE IInv'
    OBVIOUS
  <2>1. CASE Configure
    BY <2>1, ConfigureInv
  <2>2. CASE Frame
    BY <2>2, FrameInv
  <2>3. CASE OpenMenu \/ Stop
    BY <2>3, FlushFromInv
  <2>4. CASE Resume \/ SaveState \/ LoadState
    BY <2>4, MenuInv
  <2>5. CASE BlobWrite \/ BlobSync
    BY <2>5, BlobStepInv
  <2>6. CASE BlobFails
    BY <2>6, BlobFailsInv
  <2>7. CASE BlobRename
    BY <2>7, BlobRenameInv
  <2>8. CASE Exit \/ Crash
    BY <2>8, EndInv
  <2>9. CASE PowerLoss
    BY <2>9, PowerLossInv
  <2>10. CASE Writeback
    BY <2>10, WritebackInv
  <2>11. CASE UNCHANGED vars
    BY <2>11, StutterInv
  <2>. QED
    BY <2>1, <2>2, <2>3, <2>4, <2>5, <2>6, <2>7, <2>8, <2>9, <2>10, <2>11 DEF Next, Host
<1>. QED BY <1>1, <1>2, PTL DEF Spec

(* Every variable of the save code keeps its type.                         *)
THEOREM TypeCorrect == Spec => []TypeOK
BY Inductive, PTL DEF IInv

(* Whatever fails or is interrupted, at whatever step of                   *)
(* save_blob_atomic(), what a save's name leads to is a whole file.        *)
THEOREM NeverHalfWritten == Spec => []FilesWhole
BY Inductive, PTL DEF IInv

(* The hash save_ram_poll() compares with is never ahead of the file.      *)
THEOREM HashIsHonest == Spec => []HashMatchesFile
BY Inductive, PTL DEF IInv

(* main() leaves no unsaved RAM behind unless a write failed.              *)
THEOREM SavedOnExit == Spec => []ExitSaves
<1>1. IInv => ExitSaves
  BY DEF IInv, HashKept, HashMatchesFile, ExitSaves
<1>. QED BY <1>1, Inductive, PTL
-----------------------------------------------------------------------------
(* The state file is the one last reported saved, until power is lost.     *)
StateKept ==
  \/ promised = NoPromise
  \/ file["state"].data = promised.data /\ file["state"].key = promised.game

LEMMA RenamedState == ASSUME IInv, StateKept, BlobRename PROVE StateKept'
<1>1. pc = "rename" /\ file' = [file EXCEPT ![path] = tmp]
  BY DEF BlobRename
<1>2. tmp = SyncedBlob /\ file \in [Path -> Image] /\ path \in Path
  BY <1>1 DEF IInv, BlobKept, TypeOK
<1>3. CASE path = "srm"
  <2>1. file'["state"] = file["state"] /\ promised' = promised
    BY <1>1, <1>2, <1>3, Constant DEF BlobRename
  <2>. QED BY <2>1 DEF StateKept
<1>4. CASE path = "state"
  <2>1. file'["state"] = SyncedBlob /\ promised' = [game |-> game, data |-> sram]
    BY <1>1, <1>2, <1>4, Constant DEF BlobRename
  <2>2. SyncedBlob.data = sram /\ SyncedBlob.key = game
    BY <1>4 DEF SyncedBlob
  <2>. QED BY <2>1, <2>2 DEF StateKept
<1>. QED BY <1>2, <1>3, <1>4, Constant

LEMMA StateStep == IInv /\ StateKept /\ [Next]_vars => StateKept'
<1>. SUFFICES ASSUME IInv, StateKept, [Next]_vars PROVE StateKept'
  OBVIOUS
<1>1. CASE BlobRename
  BY <1>1, RenamedState
<1>2. CASE PowerLoss
  BY <1>2 DEF PowerLoss, StateKept
<1>3. CASE UNCHANGED <<file, promised>>
  BY <1>3 DEF StateKept
<1>4. CASE Configure \/ Frame \/ OpenMenu \/ Stop \/ Exit \/ Crash
  BY <1>3, <1>4 DEF Configure, Frame, OpenMenu, Stop, Exit, Crash
<1>5. CASE Resume \/ SaveState \/ LoadState \/ Writeback
  BY <1>3, <1>5 DEF Resume, SaveState, LoadState, Writeback
<1>6. CASE BlobFails \/ BlobWrite \/ BlobSync
  BY <1>3, <1>6 DEF BlobFails, BlobWrite, BlobSync
<1>7. CASE UNCHANGED vars
  BY <1>3, <1>7
<1>. QED BY <1>1, <1>2, <1>4, <1>5, <1>6, <1>7 DEF Next, Host

(* load_state_slot() accepts nothing but the state last reported saved, by *)
(* the game that is running, whatever failed or crashed in between.        *)
THEOREM LoadsTheSavedState == Spec => LoadReturnsSaved
<1>1. Init => StateKept
  BY DEF Init, StateKept
<1>2. IInv /\ StateKept /\ LoadState =>
        promised \in {NoPromise, [game |-> game, data |-> sram']}
  <2>. SUFFICES ASSUME IInv, StateKept, LoadState, promised # NoPromise
                PROVE  promised = [game |-> game, data |-> sram']
    OBVIOUS
  <2>1. promised.data = sram' /\ promised.game = game
    BY DEF StateKept, LoadState, Accepted
  <2>2. promised \in [game : Game, data : Content]
    BY DEF IInv, TypeOK
  <2>. QED BY <2>1, <2>2
<1>3. IInv /\ StateKept /\ [Next]_vars =>
        [LoadState => promised \in {NoPromise, [game |-> game, data |-> sram']}]_vars
  BY <1>2
<1>. QED BY <1>1, <1>3, StateStep, Inductive, PTL DEF Spec, LoadReturnsSaved
=============================================================================
