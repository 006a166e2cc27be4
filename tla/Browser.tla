------------------------------- MODULE Browser -------------------------------
(***************************************************************************)
(* src/src/browser.c: the home menu, the library over volumes that come    *)
(* and go, the launch of a game, with its archive, core chooser and        *)
(* performance session, and the way back to the library after the core.    *)
(*                                                                         *)
(* A press is handled whole, as the event loop does; the presses that      *)
(* START+RIGHT and START+UP consume, and drawing, are left out.  The       *)
(* supervisor, the cores and the storage-roots file are external.          *)
(***************************************************************************)
EXTENDS Integers, Sequences, SequencesExt

CONSTANTS SD,          \* SD_ROOT, a path: a sequence of names
          Storages,    \* contents of STORAGE_ROOTS_PATH: sequences of volumes
          Tree,        \* what every directory holds: sets of [name, kind]
          Members,     \* of each archive: a subset of Part
          Rank,        \* of every name, in the order of strcasecmp()
          Startups,    \* paths auto_launch= may name
          MaxEntries, Visible, MenuJump

Kind    == {"dir", "media", "rom", "unknown", "zip"}
Part    == {"rom", "data"}   \* members of an extension the core takes, and others
NoPath  == <<>>
NoEntry == [dir |-> NoPath, name |-> ""]
NoFile  == [of |-> "", part |-> "data", whole |-> TRUE]
File    == [of : DOMAIN Members, part : Part, whole : BOOLEAN]
HomeItems == 4   \* library, settings, reset, shutdown

ASSUME CountAssumption ==
  /\ MaxEntries \in Nat \ {0} /\ Visible \in Nat \ {0} /\ MenuJump \in Nat
(* Volumes are mounted below a directory that is not one itself, and what  *)
(* auto_launch= names is below a volume.                                   *)
Name == DOMAIN Rank
Path == Seq(STRING)
ASSUME PathAssumption ==
  /\ SD \in Path /\ Len(SD) = 2
  /\ Storages \subseteq Seq(Path)
  /\ \A r \in Storages : \A i \in DOMAIN r : Len(r[i]) = 2 /\ Last(r[i]) \in Name
  /\ Startups \subseteq Path /\ \A p \in Startups : Len(p) >= 3

(* The names of a directory differ by more than their case, as FAT has it. *)
(* What has the extension of an archive is one.                            *)
ASSUME NameAssumption ==
  /\ Name \subseteq STRING /\ \A n \in Name : Rank[n] \in Nat
  /\ \A m, n \in Name : Rank[m] = Rank[n] => m = n
ASSUME TreeAssumption ==
  /\ DOMAIN Tree \subseteq Path
  /\ \A p \in DOMAIN Tree :
       /\ Len(p) >= 2 /\ IsFiniteSet(Tree[p]) /\ Tree[p] \subseteq [name : Name, kind : Kind]
       /\ \A d, e \in Tree[p] : d.name = e.name => d = e
       /\ \A e \in Tree[p] : e.kind = "zip" => e.name \in DOMAIN Members
  /\ \A a \in DOMAIN Members : Members[a] \subseteq Part

VARIABLES storage,    \* STORAGE_ROOTS_PATH now
          auto,       \* auto_launch= of the start-up configuration
          roots,      \* primary_root and extra_roots, as last read
          current, entries, selected, first, view,
          browser_state_valid, restore_entry,
          opened,     \* history: this browser has shown the library
          saved,      \* BROWSER_STATE_PATH
          session,    \* PERFORMANCE_MARKER exists
          work,       \* ZIP_WORK_DIR
          attempt, payload,  \* extract_archive(): attempts made, what it gave
          pc, startup,       \* launch_selected() was called for auto_launch=
          bookmarked  \* history: saved is the entry last launched

browsing == <<roots, current, entries, selected, first, view>>
restore  == <<browser_state_valid, restore_entry, opened>>
archive  == <<work, attempt, payload>>
outside  == <<storage, auto>>
vars     == <<outside, browsing, restore, saved, session, archive, pc, startup, bookmarked>>

Primary(r)    == IF r = <<>> THEN SD ELSE Head(r)
Extras(r)     == IF r = <<>> THEN <<>> ELSE Tail(r)
Rebased(p, r) == IF p = SD THEN Primary(r) ELSE p
Under(p, v)   == IsPrefix(v, p)

Init ==
  /\ storage \in Storages /\ auto \in Startups \cup {NoPath}
  /\ roots = <<>> /\ current = SD /\ entries = <<>>
  /\ selected = 0 /\ first = 0 /\ view = "HOME"
  /\ browser_state_valid = FALSE /\ restore_entry = "" /\ saved = NoEntry
  /\ opened = FALSE
  /\ session = FALSE
  /\ work = {} /\ attempt = 0 /\ payload = NoFile
  /\ pc = "off" /\ startup = FALSE /\ bookmarked = FALSE
-----------------------------------------------------------------------------
(* scan_directory(): at most MaxEntries of what is there, in the order the *)
(* file system has it, fewer when a read fails, then the volumes,          *)
(* refreshed; sorted.  A directory that cannot be opened leaves the        *)
(* volumes as they were read, r.                                           *)
Readable == {p \in DOMAIN Tree : SubSeq(p, 1, 2) \in {SD} \cup Range(storage)}

(* compare_entries(): directories first, then by name.                     *)
Before(a, b) ==
  IF (a.kind = "dir") = (b.kind = "dir") THEN Rank[a.name] < Rank[b.name] ELSE a.kind = "dir"
Place(e, found) == 1 + Cardinality({d \in found : Before(d, e)})   \* after qsort()
Sorted(found) == [i \in 1 .. Cardinality(found) |-> CHOOSE e \in found : Place(e, found) = i]

(* The volumes whose label is not listed yet, while there is room.         *)
HasRoom_Always(n) == TRUE
HasRoom(n) == n < MaxEntries
Unlisted(found, r) ==
  {i \in DOMAIN r : /\ \A e \in found : e.name # Last(r[i])
                    /\ \A j \in 1 .. i - 1 : Last(r[j]) # Last(r[i])}
Added(found, new) ==
  {i \in new : HasRoom(Cardinality(found) + Cardinality({j \in new : j < i}))}
Volume(v) == [name |-> Last(v), kind |-> "dir", target |-> v]

Shown(found, p) ==
  IF Rebased(p, storage) = Primary(storage)
  THEN LET r == Extras(storage)
       IN found \cup {Volume(r[i]) : i \in Added(found, Unlisted(found, r))}
  ELSE found

Listed(p) == {[name |-> e.name, kind |-> e.kind, target |-> NoPath] : e \in Tree[p]}
Readings(p) == {kept \in SUBSET Listed(p) : Cardinality(kept) <= MaxEntries}

Scan(p, r) ==
  IF p \in Readable
  THEN /\ \E found \in Readings(p) : entries' = Sorted(Shown(found, p))
       /\ roots' = storage /\ current' = Rebased(p, storage)
  ELSE entries' = <<>> /\ roots' = r /\ current' = p

Position(list, name) ==
  LET i == SelectInSeq(list, LAMBDA e : e.name = name) IN IF i = 0 THEN 0 ELSE i - 1

Window(s, f) == IF s < f THEN s ELSE IF s >= f + Visible THEN s - Visible + 1 ELSE f
-----------------------------------------------------------------------------
(* menu_move() and the keys of the home menu and the library.              *)
Moved(s, n, down) ==
  LET jump == IF MenuJump % n = 0 THEN n - 1 ELSE MenuJump % n
  IN IF down THEN (s + jump) % n ELSE (s + n - jump) % n

Steps(s, n) == {IF s = 0 THEN n - 1 ELSE s - 1, IF s + 1 < n THEN s + 1 ELSE s,
                Moved(s, n, TRUE), Moved(s, n, FALSE)}

HomeMove ==
  /\ pc = "loop" /\ view = "HOME"
  /\ selected' \in Steps(selected, HomeItems)
  /\ UNCHANGED <<outside, roots, current, entries, first, view, restore, saved, session,
                 archive, pc, startup, bookmarked>>

LibraryMove ==
  /\ pc = "loop" /\ view = "LIBRARY" /\ entries # <<>>
  /\ selected' \in Steps(selected, Len(entries))
  /\ first' = Window(selected', first)
  /\ UNCHANGED <<outside, roots, current, entries, view, restore, saved, session, archive,
                 pc, startup, bookmarked>>

(* A on the first item of the home menu.                                   *)
Restored_Cleared == 0
Restored == IF browser_state_valid THEN Position(entries', restore_entry) ELSE 0

OpenLibrary ==
  /\ pc = "loop" /\ view = "HOME" /\ selected = 0
  /\ view' = "LIBRARY"
  /\ Scan(IF browser_state_valid THEN Rebased(current, storage) ELSE Primary(storage),
          storage)
  /\ selected' = Restored /\ first' = Window(selected', 0)
  /\ browser_state_valid' = FALSE /\ opened' = TRUE
  /\ UNCHANGED <<outside, restore_entry, saved, session, archive, pc, startup, bookmarked>>

Settings ==
  /\ pc = "loop" /\ selected' = 0
  /\ \/ view = "HOME" /\ selected = 1 /\ view' = "SETTINGS" /\ UNCHANGED first
     \/ view = "SETTINGS" /\ view' = "HOME" /\ first' = 0
  /\ UNCHANGED <<outside, roots, current, entries, restore, saved, session, archive, pc,
                 startup, bookmarked>>

(* request_system_action() does not return.                                *)
SystemAction ==
  /\ pc = "loop" /\ view = "HOME" /\ selected >= 2 /\ pc' = "halt"
  /\ UNCHANGED <<outside, browsing, restore, saved, session, archive, startup, bookmarked>>

(* parent_directory(): to the home menu from a root, from another volume   *)
(* to the primary root, otherwise up by one, but not above the volumes.    *)
Up_Plain(p) == Front(p)
Up_Unplugged(p) == IF Len(Front(p)) < 2 THEN p ELSE Front(p)
Up(p) == IF ~Under(p, Primary(roots)) /\ Len(Front(p)) < 2 THEN Primary(roots) ELSE Front(p)

Above == IF current \in Range(Extras(roots)) THEN Primary(roots) ELSE Up(current)

SelectedAtHome_Kept == selected
SelectedAtHome == 0

Parent ==
  /\ pc = "loop" /\ view = "LIBRARY"
  /\ IF current \in {Primary(roots), SD}
     THEN /\ view' = "HOME" /\ selected' = SelectedAtHome /\ first' = 0
          /\ UNCHANGED <<roots, current, entries>>
     ELSE /\ Scan(Above, roots)
          /\ selected' = Position(entries', Last(current))
          /\ first' = Window(selected', 0) /\ UNCHANGED view
  /\ UNCHANGED <<outside, restore, saved, session, archive, pc, startup, bookmarked>>
-----------------------------------------------------------------------------
(* launch_selected().                                                      *)
Chosen == entries[selected + 1]

OpenDirectory ==
  /\ pc = "loop" /\ view = "LIBRARY" /\ entries # <<>> /\ Chosen.kind = "dir"
  /\ Scan(IF Chosen.target # NoPath THEN Chosen.target ELSE Append(current, Chosen.name),
          roots)
  /\ selected' = 0 /\ first' = 0 /\ UNCHANGED view
  /\ UNCHANGED <<outside, restore, saved, session, archive, pc, startup, bookmarked>>

OpenFile ==
  /\ pc = "loop" /\ view = "LIBRARY" /\ entries # <<>> /\ Chosen.kind # "dir"
  /\ pc' = "launch"
  /\ UNCHANGED <<outside, browsing, restore, saved, session, archive, startup, bookmarked>>

(* Back from launch_selected(): to the library, or, when it was called for *)
(* auto_launch=, to the home menu at the primary root.                     *)
Return ==
  /\ pc' = "loop" /\ startup' = FALSE /\ attempt' = 0 /\ payload' = NoFile
  /\ IF startup
     THEN /\ Scan(Primary(roots), roots)
          /\ view' = "HOME" /\ selected' = 0 /\ first' = 0
     ELSE UNCHANGED browsing

(* A file of the player begins the performance session; a ROM has a route; *)
(* of an archive or an unknown file the core is asked for, or known.       *)
LaunchFile ==
  /\ pc = "launch"
  /\ IF Chosen.kind \in {"media", "rom"} THEN pc' = "exec" ELSE pc' = "choose"
  /\ session' = (session \/ Chosen.kind = "media")
  /\ UNCHANGED <<outside, browsing, restore, saved, archive, startup, bookmarked>>

(* choose_core(): B, no core or a failed poll give none; some cores take   *)
(* the archive as it is.                                                   *)
ChooseCore ==
  /\ pc = "choose"
  /\ \/ pc' = "exec" /\ UNCHANGED <<browsing, archive, startup>>
     \/ Chosen.kind = "zip" /\ pc' = "extract" /\ UNCHANGED <<browsing, archive, startup>>
     \/ Return /\ UNCHANGED work
  /\ UNCHANGED <<outside, restore, saved, session, bookmarked>>
-----------------------------------------------------------------------------
(* extract_archive(): rm, mkdir and unzip, each of which may fail half way,*)
(* tried up to three times.                                                *)
Contents(a) == [of : {a}, part : Members[a], whole : {TRUE}]
Pieces(a)   == [of : {a}, part : Members[a], whole : BOOLEAN]
OnePerPart(s) == \A f, g \in s : f.part = g.part => f = g

(* unzip -o over what was there: what a failed unzip leaves.               *)
Leftovers(a) == {s \in SUBSET Pieces(a) : OnePerPart(s)}

Attempts == 3

Try_KeepWork(a) ==
  \/ work' \in Leftovers(a) /\ attempt' = attempt + 1 /\ pc' = "extract"
  \/ work' = {f \in work : f.of # a} \cup Contents(a) /\ pc' = "member" /\ UNCHANGED attempt
Try(a) ==
  \/ /\ work' \in (SUBSET work) \cup Leftovers(a)
     /\ attempt' = attempt + 1 /\ pc' = "extract"
  \/ work' = Contents(a) /\ pc' = "member" /\ UNCHANGED attempt

Extract ==
  /\ pc = "extract" /\ attempt < Attempts
  /\ Try(Chosen.name)
  /\ UNCHANGED <<outside, browsing, restore, saved, session, payload, startup, bookmarked>>

ExtractFails ==
  /\ pc = "extract" /\ attempt = Attempts
  /\ Return
  /\ UNCHANGED <<outside, restore, saved, session, work, bookmarked>>

(* scan_archive_directory(): a member the core takes, else any file.       *)
Candidates == IF \E f \in work : f.part = "rom" THEN {f \in work : f.part = "rom"} ELSE work

PickMember ==
  /\ pc = "member"
  /\ \/ payload' \in Candidates /\ pc' = "exec" /\ UNCHANGED <<browsing, attempt, startup>>
     \/ work = {} /\ Return
  /\ UNCHANGED <<outside, restore, saved, session, work, bookmarked>>
-----------------------------------------------------------------------------
(* The core is missing or does not fit into memory.                        *)
Refused ==
  /\ pc = "exec" /\ Chosen.kind # "media"
  /\ Return
  /\ UNCHANGED <<outside, restore, saved, session, work, bookmarked>>

(* save_browser_state(), whose write may fail at open() or after it.       *)
Bookmark == [dir |-> current, name |-> Chosen.name]
SaveBrowserState == saved' \in {Bookmark, saved, NoEntry}

SessionAfter_Kept == session
SessionAfter == FALSE

ExecFails ==
  /\ pc = "exec" /\ SaveBrowserState /\ bookmarked' = (bookmarked /\ saved' = saved)
  /\ session' = SessionAfter
  /\ Return
  /\ UNCHANGED <<outside, restore, work>>

(* The process is replaced, or ends, and its memory with it.               *)
Gone ==
  /\ roots' = <<>> /\ current' = SD /\ entries' = <<>>
  /\ selected' = 0 /\ first' = 0 /\ view' = "HOME"
  /\ browser_state_valid' = FALSE /\ restore_entry' = "" /\ opened' = FALSE
  /\ attempt' = 0 /\ payload' = NoFile /\ startup' = FALSE

Exec ==
  /\ pc = "exec" /\ SaveBrowserState /\ bookmarked' = (saved' = Bookmark)
  /\ pc' = "core" /\ Gone
  /\ UNCHANGED <<outside, session, work>>
-----------------------------------------------------------------------------
(* load_browser_state(): only what is below SD_ROOT is taken.              *)
Loads == saved # NoEntry /\ Under(saved.dir, SD)

(* main() up to launch_startup_game().                                     *)
Start ==
  /\ pc = "off" /\ pc' = "startup"
  /\ browser_state_valid' = Loads /\ restore_entry' = IF Loads THEN saved.name ELSE ""
  /\ UNCHANGED opened
  /\ Scan(IF Loads THEN saved.dir ELSE Primary(storage), storage)
  /\ view' = "HOME" /\ selected' = 0 /\ first' = 0
  /\ UNCHANGED <<outside, saved, session, archive, startup, bookmarked>>

Allowed(p) == \E v \in {SD, Primary(roots)} \cup Range(Extras(roots)) : Under(p, v)

(* launch_startup_game() and select_startup_path().                        *)
StartupLaunch ==
  /\ pc = "startup" /\ auto # NoPath /\ Allowed(auto)
  /\ Scan(Front(auto), roots)
  /\ LET target(e) == e.kind # "dir" /\ e.name = Last(auto)
         i == SelectInSeq(entries', target)
     IN IF i = 0 THEN pc' = "loop" /\ selected' = 0 /\ UNCHANGED startup
        ELSE pc' = "launch" /\ selected' = i - 1 /\ startup' = TRUE
  /\ first' = 0
  /\ UNCHANGED <<outside, view, restore, saved, session, archive, bookmarked>>

NoStartupLaunch ==
  /\ pc = "startup" /\ (auto = NoPath \/ ~Allowed(auto))
  /\ pc' = "loop"
  /\ UNCHANGED <<outside, browsing, restore, saved, session, archive, startup, bookmarked>>
-----------------------------------------------------------------------------
(* External: the core begins its session; the supervisor ends it and       *)
(* starts the browser again; volumes come and go; the machine goes down.   *)
CoreBegins ==
  /\ pc = "core" /\ session' = TRUE
  /\ UNCHANGED <<outside, browsing, restore, saved, archive, pc, startup, bookmarked>>

Supervise ==
  /\ pc \notin {"off", "halt"} /\ pc' = "off" /\ session' = FALSE /\ Gone
  /\ UNCHANGED <<outside, saved, work, bookmarked>>

Reboot ==
  /\ pc = "halt" /\ pc' = "off" /\ session' = FALSE /\ Gone
  /\ saved' = NoEntry /\ bookmarked' = FALSE /\ work' = {}
  /\ UNCHANGED outside

Hotplug ==
  /\ storage' \in Storages
  /\ UNCHANGED <<auto, browsing, restore, saved, session, archive, pc, startup, bookmarked>>

Navigate == HomeMove \/ LibraryMove \/ OpenLibrary \/ Settings \/ Parent
              \/ OpenDirectory \/ OpenFile \/ SystemAction

Launch == LaunchFile \/ ChooseCore \/ Extract \/ ExtractFails \/ PickMember
            \/ Refused \/ ExecFails \/ Exec

Next == \/ Start \/ StartupLaunch \/ NoStartupLaunch \/ Navigate \/ Launch
        \/ CoreBegins \/ Supervise \/ Reboot \/ Hotplug

Spec == Init /\ [][Next]_vars
-----------------------------------------------------------------------------
Entry == [name : Name, kind : Kind, target : {NoPath} \cup UNION {Range(r) : r \in Storages}]

TypeOK ==
  /\ storage \in Storages /\ auto \in Startups \cup {NoPath}
  /\ roots \in Storages \cup {<<>>}
  /\ entries \in Seq(Entry) /\ Len(entries) <= MaxEntries
  /\ selected \in Nat /\ first \in Nat
  /\ view \in {"HOME", "LIBRARY", "SETTINGS"}
  /\ browser_state_valid \in BOOLEAN /\ opened \in BOOLEAN /\ session \in BOOLEAN /\ startup \in BOOLEAN
  /\ work \subseteq File /\ payload \in File \cup {NoFile} /\ attempt \in 0 .. Attempts
  /\ pc \in {"off", "startup", "loop", "launch", "choose", "extract", "member", "exec",
             "core", "halt"}

(* One index serves the home menu and the library: whichever is shown, it  *)
(* names an item of it, inside the window, so that A never resets the      *)
(* machine for an entry nor launches past the end of entries[].            *)
SelectionInRange ==
  /\ pc = "loop" /\ view = "HOME" => selected < HomeItems
  /\ pc = "loop" /\ view = "LIBRARY" =>
       /\ selected < Max({1, Len(entries)})
       /\ first <= selected /\ selected < first + Visible
  /\ pc \in {"launch", "choose", "extract", "member", "exec"} =>
       selected < Len(entries) /\ Chosen.kind # "dir"

(* However volumes come and go, the library is never above them            *)
(* (parent_directory, select_startup_path).                                *)
StaysOnVolumes == Len(current) >= 2

(* While the volumes stay the same every B leads towards the home menu, so *)
(* it is reached from any directory, one of a volume that is gone included *)
(* (parent_directory).                                                     *)
Climb(p) == IF p \in {Primary(roots), SD} THEN 0 ELSE Len(p)
BackLeadsHome ==
  pc = "loop" /\ view = "LIBRARY" /\ Climb(current) > 0 => Climb(Above) < Climb(current)

(* An idle browser is never left in a performance session, whichever step  *)
(* of a launch failed (README.md: "avoiding an indefinitely deferred       *)
(* journal while the idle browser is open").                               *)
IdleHasNoSession == pc \in {"startup", "loop"} => ~session

(* What is launched from an archive is a complete member of that archive,  *)
(* one the core takes if there is one, whatever failed attempts and other  *)
(* archives have left in ZIP_WORK_DIR (extract_archive).                   *)
MemberOfArchive ==
  pc = "exec" /\ payload # NoFile =>
    /\ payload \in Contents(Chosen.name)
    /\ "rom" \in Members[Chosen.name] => payload.part = "rom"

(* A browser that has just been started, by the end of a core as well, and *)
(* launches nothing by itself opens the library in the directory of the    *)
(* game last played (for SD_ROOT itself, the primary volume), and on that  *)
(* game if it is still listed.  This holds only for a game below SD_ROOT   *)
(* whose bookmark could be written: load_browser_state() refuses every     *)
(* bookmark on another volume, and the library opens on the primary one.   *)
ReturnsToGame ==
  [][OpenLibrary /\ ~opened /\ auto = NoPath /\ bookmarked /\ Under(saved.dir, SD) =>
       /\ saved.dir # SD => current' = saved.dir
       /\ (\E i \in DOMAIN entries' : entries'[i].name = saved.name) =>
            entries'[selected' + 1].name = saved.name]_vars
=============================================================================
