----------------------------- MODULE BrowserProofs -----------------------------
(***************************************************************************)
(* Proofs about the browser, for any volumes, directories and archives and *)
(* any size of the lists: which steps of launch_selected() may run in a    *)
(* performance session, what ZIP_WORK_DIR holds when a member of an        *)
(* archive is picked, what scan_directory() lists, where the selection     *)
(* and the paths may stand, and the way back to the last game.  Below, the *)
(* chords of the browser and its presenter, for any number of pictures.    *)
(***************************************************************************)
EXTENDS Browser, BrowserKeys, UiPresenter, FiniteSetTheorems, TLAPS

(* A session is begun for the player only, and ends before the loop: with  *)
(* it the entry launched is a media file, which nothing but execve() can   *)
(* refuse.                                                                 *)
SessionOfPlayer ==
  /\ session => pc \in {"exec", "core"}
  /\ session /\ pc = "exec" => Chosen.kind = "media"

LEMMA SessionInit == Init => SessionOfPlayer
BY DEF Init, SessionOfPlayer

LEMMA SessionNavigate == SessionOfPlayer /\ Navigate => SessionOfPlayer'
<1>. SUFFICES ASSUME SessionOfPlayer, Navigate PROVE ~session'
  BY DEF SessionOfPlayer
<1>1. pc = "loop" /\ session' = session
  BY DEF Navigate, HomeMove, LibraryMove, OpenLibrary, Settings, Parent, OpenDirectory,
         OpenFile, SystemAction
<1>. QED  BY <1>1 DEF SessionOfPlayer

LEMMA SessionLaunch == SessionOfPlayer /\ Launch => SessionOfPlayer'
<1>. SUFFICES ASSUME SessionOfPlayer PROVE Launch => SessionOfPlayer'
  OBVIOUS
<1>. USE DEF SessionOfPlayer
<1>1. ASSUME LaunchFile PROVE SessionOfPlayer'
  BY <1>1 DEF LaunchFile, browsing, Chosen
<1>2. ASSUME ChooseCore PROVE SessionOfPlayer'
  BY <1>2 DEF ChooseCore
<1>3. ASSUME Extract PROVE SessionOfPlayer'
  BY <1>3 DEF Extract
<1>4. ASSUME ExtractFails PROVE SessionOfPlayer'
  BY <1>4 DEF ExtractFails
<1>5. ASSUME PickMember PROVE SessionOfPlayer'
  BY <1>5 DEF PickMember
<1>6. ASSUME Refused PROVE SessionOfPlayer'
  BY <1>6 DEF Refused
<1>7. ASSUME ExecFails PROVE SessionOfPlayer'
  BY <1>7 DEF ExecFails, SessionAfter
<1>8. ASSUME Exec PROVE SessionOfPlayer'
  BY <1>8 DEF Exec
<1>. QED  BY <1>1, <1>2, <1>3, <1>4, <1>5, <1>6, <1>7, <1>8 DEF Launch

LEMMA SessionStep == SessionOfPlayer /\ [Next]_vars => SessionOfPlayer'
<1>. SUFFICES ASSUME SessionOfPlayer, [Next]_vars PROVE SessionOfPlayer'
  OBVIOUS
<1>. USE DEF SessionOfPlayer
<1>1. CASE Navigate
  BY <1>1, SessionNavigate
<1>2. CASE Launch
  BY <1>2, SessionLaunch
<1>3. CASE Start \/ StartupLaunch \/ NoStartupLaunch
  <2>1. pc \in {"off", "startup"} /\ session' = session
    BY <1>3 DEF Start, StartupLaunch, NoStartupLaunch
  <2>. QED  BY <2>1
<1>4. CASE CoreBegins
  BY <1>4 DEF CoreBegins
<1>5. CASE Supervise \/ Reboot
  BY <1>5 DEF Supervise, Reboot
<1>6. CASE Hotplug
  BY <1>6 DEF Hotplug, browsing, Chosen
<1>7. CASE UNCHANGED vars
  BY <1>7 DEF vars, browsing, Chosen
<1>. QED  BY <1>1, <1>2, <1>3, <1>4, <1>5, <1>6, <1>7 DEF Next

(* Whatever step of a launch fails, and whenever the volumes change, the   *)
(* browser is back in its loop without a session (launch_selected).        *)
THEOREM SessionEnds == Spec => []IdleHasNoSession
<1>1. SessionOfPlayer => IdleHasNoSession
  BY DEF SessionOfPlayer, IdleHasNoSession
<1>. QED  BY SessionInit, SessionStep, <1>1, PTL DEF Spec
-----------------------------------------------------------------------------
(* The directory is the archive's own once an attempt has succeeded, and   *)
(* stays so until the member is picked.                                    *)
WorkIsArchive ==
  /\ pc = "member" => work = Contents(Chosen.name)
  /\ payload # NoFile => pc = "exec"
  /\ MemberOfArchive

LEMMA WorkInit == Init => WorkIsArchive
BY DEF Init, WorkIsArchive, MemberOfArchive

(* Most of the steps leave no payload and do not lead to "member".         *)
LEMMA OutsideLaunch ==
  pc' # "member" /\ payload' = NoFile => WorkIsArchive'
BY DEF WorkIsArchive, MemberOfArchive

LEMMA WorkNavigate == WorkIsArchive /\ Navigate => WorkIsArchive'
<1>. SUFFICES ASSUME WorkIsArchive, Navigate PROVE WorkIsArchive'
  OBVIOUS
<1>1. pc = "loop" /\ pc' \in {"loop", "launch", "halt"} /\ payload' = payload
  BY DEF Navigate, HomeMove, LibraryMove, OpenLibrary, Settings, Parent, OpenDirectory,
         OpenFile, SystemAction, archive
<1>. QED  BY <1>1, OutsideLaunch DEF WorkIsArchive

(* A member that the core takes is preferred, and is whole.                *)
LEMMA Picked ==
  ASSUME NEW a, work = Contents(a), NEW f \in Candidates
  PROVE  f \in Contents(a) /\ ("rom" \in Members[a] => f.part = "rom")
<1>1. f \in Contents(a)
  BY DEF Candidates
<1>2. ASSUME "rom" \in Members[a] PROVE f.part = "rom"
  <2>1. [of |-> a, part |-> "rom", whole |-> TRUE] \in work
    BY <1>2 DEF Contents
  <2>2. \E g \in work : g.part = "rom"
    BY <2>1
  <2>. QED  BY <2>2 DEF Candidates
<1>. QED  BY <1>1, <1>2

LEMMA WorkLaunch == WorkIsArchive /\ Launch => WorkIsArchive'
<1>. SUFFICES ASSUME WorkIsArchive PROVE Launch => WorkIsArchive'
  OBVIOUS
<1>1. ASSUME LaunchFile PROVE WorkIsArchive'
  BY <1>1, OutsideLaunch DEF LaunchFile, WorkIsArchive, archive
<1>2. ASSUME ChooseCore PROVE WorkIsArchive'
  BY <1>2, OutsideLaunch DEF ChooseCore, Return, WorkIsArchive, archive
<1>3. ASSUME Extract PROVE WorkIsArchive'
  <2>1. Chosen' = Chosen /\ payload' = payload /\ pc = "extract"
    BY <1>3 DEF Extract, browsing, Chosen
  <2>2. payload = NoFile
    BY <2>1 DEF WorkIsArchive
  <2>3. (pc' = "member" /\ work' = Contents(Chosen.name)) \/ pc' = "extract"
    BY <1>3 DEF Extract, Try
  <2>4. Contents(Chosen.name)' = Contents(Chosen.name)
    BY <2>1 DEF Contents
  <2>. QED  BY <2>1, <2>2, <2>3, <2>4 DEF WorkIsArchive, MemberOfArchive
<1>4. ASSUME ExtractFails PROVE WorkIsArchive'
  BY <1>4, OutsideLaunch DEF ExtractFails, Return
<1>5. ASSUME PickMember PROVE WorkIsArchive'
  <2>1. CASE Return
    BY <2>1, OutsideLaunch DEF Return
  <2>2. CASE payload' \in Candidates /\ pc' = "exec" /\ UNCHANGED <<browsing, attempt, startup>>
    <3>1. work = Contents(Chosen.name) /\ Chosen' = Chosen
      BY <1>5, <2>2 DEF PickMember, WorkIsArchive, browsing, Chosen
    <3>2. /\ payload' \in Contents(Chosen.name)
          /\ "rom" \in Members[Chosen.name] => payload'.part = "rom"
      BY <3>1, <2>2, Picked
    <3>. QED  BY <2>2, <3>1, <3>2 DEF WorkIsArchive, MemberOfArchive, Contents
  <2>. QED  BY <1>5, <2>1, <2>2 DEF PickMember
<1>6. ASSUME Refused PROVE WorkIsArchive'
  BY <1>6, OutsideLaunch DEF Refused, Return
<1>7. ASSUME ExecFails PROVE WorkIsArchive'
  BY <1>7, OutsideLaunch DEF ExecFails, Return
<1>8. ASSUME Exec PROVE WorkIsArchive'
  BY <1>8, OutsideLaunch DEF Exec, Gone
<1>. QED  BY <1>1, <1>2, <1>3, <1>4, <1>5, <1>6, <1>7, <1>8 DEF Launch

LEMMA WorkStep == WorkIsArchive /\ [Next]_vars => WorkIsArchive'
<1>. SUFFICES ASSUME WorkIsArchive, [Next]_vars PROVE WorkIsArchive'
  OBVIOUS
<1>1. CASE Navigate
  BY <1>1, WorkNavigate
<1>2. CASE Launch
  BY <1>2, WorkLaunch
<1>3. CASE Start \/ StartupLaunch \/ NoStartupLaunch
  <2>1. /\ pc \in {"off", "startup"} /\ payload' = payload
        /\ pc' \in {"startup", "loop", "launch"}
    BY <1>3 DEF Start, StartupLaunch, NoStartupLaunch, archive
  <2>. QED  BY <2>1, OutsideLaunch DEF WorkIsArchive
<1>4. CASE CoreBegins
  BY <1>4, OutsideLaunch DEF CoreBegins, WorkIsArchive, archive
<1>5. CASE Supervise \/ Reboot
  BY <1>5, OutsideLaunch DEF Supervise, Reboot, Gone
<1>6. CASE Hotplug
  <2>1. UNCHANGED <<pc, work, payload, Chosen>>
    BY <1>6 DEF Hotplug, archive, browsing, Chosen
  <2>. QED  BY <2>1 DEF WorkIsArchive, MemberOfArchive, Contents
<1>7. CASE UNCHANGED vars
  <2>1. UNCHANGED <<pc, work, payload, Chosen>>
    BY <1>7 DEF vars, archive, browsing, Chosen
  <2>. QED  BY <2>1 DEF WorkIsArchive, MemberOfArchive, Contents
<1>. QED  BY <1>1, <1>2, <1>3, <1>4, <1>5, <1>6, <1>7 DEF Next

(* What is launched from an archive is a complete member of it, one the    *)
(* core takes if there is one, over any number of failed attempts          *)
(* (extract_archive).                                                      *)
THEOREM LaunchesMember == Spec => []MemberOfArchive
<1>1. WorkIsArchive => MemberOfArchive
  BY DEF WorkIsArchive
<1>. QED  BY WorkInit, WorkStep, <1>1, PTL DEF Spec
-----------------------------------------------------------------------------
(* The listing.                                                            *)

(* Every entry of a listing has a place of its own: sorting is a           *)
(* permutation.  Names differ, so compare_entries() is a strict order.     *)
Distinct(found) ==
  /\ IsFiniteSet(found)
  /\ \A e \in found : e.name \in Name
  /\ \A d, e \in found : d.name = e.name => d = e

LEMMA BeforeIsOrder ==
  ASSUME NEW found, Distinct(found)
  PROVE  /\ \A a \in found : ~Before(a, a)
         /\ \A a, b \in found : a # b => Before(a, b) \/ Before(b, a)
         /\ \A a, b, c \in found : Before(a, b) /\ Before(b, c) => Before(a, c)
<1>1. \A a \in found : Rank[a.name] \in Nat
  BY NameAssumption DEF Distinct
<1>2. \A a, b \in found : a # b => Rank[a.name] # Rank[b.name]
  BY NameAssumption DEF Distinct
<1>3. \A a \in found : ~Before(a, a)
  BY <1>1 DEF Before
<1>4. \A a, b \in found : a # b => Before(a, b) \/ Before(b, a)
  BY <1>1, <1>2 DEF Before
<1>5. \A a, b, c \in found : Before(a, b) /\ Before(b, c) => Before(a, c)
  BY <1>1 DEF Before
<1>. QED BY <1>3, <1>4, <1>5

LEMMA PlaceGrows ==
  ASSUME NEW found, Distinct(found), NEW a \in found, NEW b \in found, Before(a, b)
  PROVE  Place(a, found) < Place(b, found)
<1>. DEFINE A == {d \in found : Before(d, a)}
            B == {d \in found : Before(d, b)}
<1>1. A \subseteq B /\ a \in B /\ a \notin A
  BY BeforeIsOrder
<1>2. IsFiniteSet(A) /\ IsFiniteSet(B)
  <2>1. A \in SUBSET found /\ B \in SUBSET found
    OBVIOUS
  <2>. HIDE DEF A, B
  <2>. QED BY <2>1, FS_Subset DEF Distinct
<1>3. Place(a, found) = 1 + Cardinality(A) /\ Place(b, found) = 1 + Cardinality(B)
  BY DEF Place
<1>. HIDE DEF A, B
<1>4. Cardinality(A) < Cardinality(B)
  <2>1. Cardinality(A) <= Cardinality(B) /\ Cardinality(A) # Cardinality(B)
    BY <1>1, <1>2, FS_Subset
  <2>. QED BY <2>1, <1>2, FS_CardinalityType
<1>5. Cardinality(A) \in Nat /\ Cardinality(B) \in Nat
  BY <1>2, FS_CardinalityType
<1>. QED BY <1>3, <1>4, <1>5

LEMMA PlaceInRange ==
  ASSUME NEW found, Distinct(found), NEW a \in found
  PROVE  Place(a, found) \in 1 .. Cardinality(found)
<1>. DEFINE A == {d \in found : Before(d, a)}
<1>1. A \in SUBSET found /\ A # found
  BY BeforeIsOrder
<1>2. Place(a, found) = 1 + Cardinality(A)
  BY DEF Place
<1>. HIDE DEF A
<1>3. IsFiniteSet(A) /\ Cardinality(A) <= Cardinality(found) /\ Cardinality(A) # Cardinality(found)
  BY <1>1, FS_Subset DEF Distinct
<1>4. Cardinality(A) \in Nat /\ Cardinality(found) \in Nat
  BY <1>3, FS_CardinalityType DEF Distinct
<1>. QED BY <1>2, <1>3, <1>4

LEMMA SortedIsListing ==
  ASSUME NEW found, Distinct(found)
  PROVE  /\ Sorted(found) \in Seq(found)
         /\ Len(Sorted(found)) = Cardinality(found)
<1>. DEFINE n == Cardinality(found)
            f == [e \in found |-> Place(e, found)]
<1>1. n \in Nat
  BY FS_CardinalityType DEF Distinct
<1>2. f \in Injection(found, 1 .. n)
  <2>1. f \in [found -> 1 .. n]
    BY PlaceInRange
  <2>2. ASSUME NEW a \in found, NEW b \in found, f[a] = f[b] PROVE a = b
    <3>1. Place(a, found) = Place(b, found)
      BY <2>2
    <3>2. Place(a, found) \in Int /\ Place(b, found) \in Int
      BY <1>1, PlaceInRange
    <3>. QED BY <3>1, <3>2, PlaceGrows, BeforeIsOrder
  <2>. QED BY <2>1, <2>2 DEF Injection, IsInjective
<1>3. IsFiniteSet(1 .. n) /\ Cardinality(1 .. n) = n
  <2>. HIDE DEF n
  <2>. QED BY <1>1, FS_Interval
<1>4. f \in Surjection(found, 1 .. n)
  <2>. HIDE DEF f
  <2>. QED BY <1>2, <1>3, FS_Injection
<1>5. \A i \in 1 .. n : \E e \in found : Place(e, found) = i
  BY <1>4 DEF Surjection
<1>6. Sorted(found) \in [1 .. n -> found]
  BY <1>5 DEF Sorted
<1>7. n = Cardinality(found)
  OBVIOUS
<1>. HIDE DEF n
<1>. QED BY <1>1, <1>6, <1>7

(* A volume is listed under a label of its own, and only while there is    *)
(* room for it.                                                            *)
LEMMA LeastElement ==
  ASSUME NEW T \in SUBSET Nat, T # {}
  PROVE  \E n \in T : \A m \in T : n <= m
<1>. DEFINE R == {ss \in Nat \X Nat : ss[1] < ss[2]}
<1>1. IsWellFoundedOn(R, Nat)
  BY NatLessThanWellFounded DEF OpToRel
<1>. HIDE DEF R
<1>2. PICK n \in T : \A m \in T : ~(<<m, n>> \in R)
  BY <1>1, WFMin
<1>3. \A m \in T : ~(m < n)
  BY <1>2 DEF R
<1>. QED BY <1>3

LEMMA GreatestElement ==
  ASSUME NEW T \in SUBSET Nat, T # {}, NEW n \in Nat, \A m \in T : m <= n
  PROVE  \E g \in T : \A m \in T : m <= g
<1>. DEFINE Gap == {n - m : m \in T}
<1>1. Gap \in SUBSET Nat /\ Gap # {}
  <2>1. \A m \in T : n - m \in Nat
    OBVIOUS
  <2>2. PICK m \in T : TRUE
    OBVIOUS
  <2>3. n - m \in Gap
    BY <2>2
  <2>. QED BY <2>1, <2>3
<1>2. PICK d \in Gap : \A e \in Gap : d <= e
  <2>. HIDE DEF Gap
  <2>. QED BY <1>1, LeastElement
<1>3. PICK g \in T : d = n - g
  BY <1>2
<1>4. ASSUME NEW m \in T PROVE m <= g
  BY <1>2, <1>3
<1>. QED BY <1>4

LEMMA AddedFit ==
  ASSUME NEW found, IsFiniteSet(found), Cardinality(found) <= MaxEntries,
         NEW k \in Nat, NEW new \in SUBSET (1 .. k)
  PROVE  /\ IsFiniteSet(Added(found, new))
         /\ Cardinality(found) + Cardinality(Added(found, new)) <= MaxEntries
<1>. DEFINE A == Added(found, new)
<1>1. A \in SUBSET new
  BY DEF Added
<1>2. IsFiniteSet(new)
  <2>1. IsFiniteSet(1 .. k)
    BY FS_Interval
  <2>. QED BY <2>1, FS_Subset
<1>a. \A m \in A : m \in Nat /\ m <= k
  <2>1. \A m \in A : m \in 1 .. k
    BY <1>1
  <2>. HIDE DEF A
  <2>. QED BY <2>1
<1>3. IsFiniteSet(A) /\ Cardinality(found) \in Nat /\ Cardinality(A) \in Nat
  <2>. HIDE DEF A
  <2>. QED BY <1>1, <1>2, FS_Subset, FS_CardinalityType
<1>4. CASE A = {}
  <2>1. Cardinality(A) = 0
    BY <1>4, FS_EmptySet
  <2>. QED BY <2>1, <1>3, CountAssumption
<1>5. CASE A # {}
  <2>1. PICK g \in A : \A m \in A : m <= g
    <3>. HIDE DEF A
    <3>1. A \in SUBSET Nat
      BY <1>a
    <3>. QED BY <3>1, <1>a, <1>5, GreatestElement
  <2>. DEFINE B == {j \in new : j < g}
  <2>2. A \in SUBSET (B \cup {g})
    <3>1. ASSUME NEW m \in A, m # g PROVE m \in B
      <4>1. m < g
        BY <1>a, <2>1, <3>1
      <4>. QED BY <4>1, <1>1
    <3>. QED BY <3>1
  <2>3. Cardinality(found) + Cardinality(B) < MaxEntries
    BY <2>1 DEF Added, HasRoom
  <2>4. IsFiniteSet(B)
    <3>1. B \in SUBSET new
      OBVIOUS
    <3>. HIDE DEF B
    <3>. QED BY <3>1, <1>2, FS_Subset
  <2>. HIDE DEF A, B
  <2>5. Cardinality(B \cup {g}) <= Cardinality(B) + 1 /\ IsFiniteSet(B \cup {g})
    <3>1. /\ IsFiniteSet(B \cup {g})
          /\ Cardinality(B \cup {g}) = IF g \in B THEN Cardinality(B) ELSE Cardinality(B) + 1
      BY <2>4, FS_AddElement
    <3>2. Cardinality(B) \in Nat
      BY <2>4, FS_CardinalityType
    <3>. QED BY <3>1, <3>2
  <2>6. Cardinality(A) <= Cardinality(B \cup {g})
    BY <2>2, <2>5, FS_Subset
  <2>7. Cardinality(B) \in Nat /\ Cardinality(B \cup {g}) \in Nat
    BY <2>4, <2>5, FS_CardinalityType
  <2>8. Cardinality(found) + Cardinality(A) <= MaxEntries
    BY <2>3, <2>5, <2>6, <2>7, <1>3, CountAssumption
  <2>. QED BY <2>8, <1>3 DEF A
<1>. QED BY <1>4, <1>5

LEMMA ImageBound ==
  ASSUME NEW S, IsFiniteSet(S), NEW f, f = [x \in S |-> f[x]]
  PROVE  /\ IsFiniteSet({f[x] : x \in S})
         /\ Cardinality({f[x] : x \in S}) <= Cardinality(S)
<1>. DEFINE T == {f[x] : x \in S}
<1>1. f \in Surjection(S, T)
  BY DEF Surjection
<1>. HIDE DEF T
<1>2. IsFiniteSet(T) /\ Cardinality(T) <= Cardinality(S)
  BY <1>1, FS_Surjection
<1>. QED BY <1>2 DEF T

(* What scan_directory() may list.                                         *)
Listable == {e \in Entry : e.kind = "zip" => e.name \in DOMAIN Members}

LEMMA ReadingIsListing ==
  ASSUME NEW p \in DOMAIN Tree, NEW found \in Readings(p)
  PROVE  /\ Distinct(found) /\ Cardinality(found) <= MaxEntries
         /\ found \subseteq Listable
<1>. DEFINE f == [e \in Tree[p] |-> [name |-> e.name, kind |-> e.kind, target |-> NoPath]]
<1>1. Listed(p) = {f[e] : e \in Tree[p]}
  BY DEF Listed
<1>2. IsFiniteSet(Listed(p))
  <2>1. IsFiniteSet(Tree[p])
    BY TreeAssumption
  <2>2. f = [e \in Tree[p] |-> f[e]]
    OBVIOUS
  <2>. HIDE DEF f
  <2>. QED BY <1>1, <2>1, <2>2, ImageBound
<1>3. IsFiniteSet(found) /\ Cardinality(found) <= MaxEntries /\ found \subseteq Listed(p)
  BY <1>2, FS_Subset DEF Readings
<1>. HIDE DEF f
<1>4. ASSUME NEW e \in found
      PROVE  \E x \in Tree[p] : e = [name |-> x.name, kind |-> x.kind, target |-> NoPath]
  BY <1>3 DEF Listed
<1>5. ASSUME NEW d \in found, NEW e \in found, d.name = e.name PROVE d = e
  <2>1. PICK x \in Tree[p] : d = [name |-> x.name, kind |-> x.kind, target |-> NoPath]
    BY <1>4
  <2>2. PICK y \in Tree[p] : e = [name |-> y.name, kind |-> y.kind, target |-> NoPath]
    BY <1>4
  <2>3. x.name = y.name
    BY <2>1, <2>2, <1>5
  <2>4. x = y
    BY <2>3, TreeAssumption
  <2>. QED BY <2>1, <2>2, <2>4
<1>6. ASSUME NEW e \in found PROVE e \in Listable /\ e.name \in Name
  <2>1. PICK x \in Tree[p] : e = [name |-> x.name, kind |-> x.kind, target |-> NoPath]
    BY <1>4
  <2>2. x \in [name : Name, kind : Kind] /\ (x.kind = "zip" => x.name \in DOMAIN Members)
    BY TreeAssumption
  <2>. QED BY <2>1, <2>2 DEF Listable, Entry
<1>. QED BY <1>3, <1>5, <1>6 DEF Distinct

LEMMA ExtrasAreVolumes ==
  ASSUME NEW r \in Storages
  PROVE  /\ Extras(r) \in Seq(Path) /\ Len(Extras(r)) \in Nat
         /\ \A i \in DOMAIN Extras(r) :
              /\ Extras(r)[i] \in Range(r) /\ Last(Extras(r)[i]) \in Name
              /\ Len(Extras(r)[i]) = 2
<1>1. r \in Seq(Path)
  BY PathAssumption
<1>2. CASE r = <<>>
  BY <1>2 DEF Extras
<1>3. CASE r # <<>>
  <2>1. Extras(r) = Tail(r) /\ Tail(r) \in Seq(Path) /\ Len(Tail(r)) = Len(r) - 1
    BY <1>1, <1>3 DEF Extras
  <2>2. ASSUME NEW i \in DOMAIN Tail(r) PROVE i + 1 \in DOMAIN r /\ Tail(r)[i] = r[i + 1]
    BY <1>1, <1>3
  <2>3. ASSUME NEW i \in DOMAIN Tail(r) PROVE
          Tail(r)[i] \in Range(r) /\ Last(Tail(r)[i]) \in Name /\ Len(Tail(r)[i]) = 2
    <3>1. i + 1 \in DOMAIN r /\ Tail(r)[i] = r[i + 1]
      BY <2>2
    <3>2. Len(r[i + 1]) = 2 /\ Last(r[i + 1]) \in Name
      BY <3>1, PathAssumption
    <3>3. r[i + 1] \in Range(r)
      BY <3>1 DEF Range
    <3>. QED BY <3>1, <3>2, <3>3
  <2>. QED BY <1>1, <2>1, <2>3
<1>. QED BY <1>2, <1>3

LEMMA ShownIsListing ==
  ASSUME storage \in Storages, NEW p \in DOMAIN Tree, NEW found \in Readings(p)
  PROVE  /\ Distinct(Shown(found, p)) /\ Cardinality(Shown(found, p)) <= MaxEntries
         /\ Shown(found, p) \subseteq Listable
<1>1. CASE Rebased(p, storage) # Primary(storage)
  BY <1>1, ReadingIsListing DEF Shown
<1>2. CASE Rebased(p, storage) = Primary(storage)
  <2>. DEFINE r == Extras(storage)
              new == Unlisted(found, r)
              A == Added(found, new)
              f == [i \in A |-> Volume(r[i])]
              V == {f[i] : i \in A}
  <2>1. Shown(found, p) = found \cup V
    BY <1>2 DEF Shown
  <2>2. Distinct(found) /\ Cardinality(found) <= MaxEntries /\ found \subseteq Listable
    BY ReadingIsListing
  <2>3. /\ r \in Seq(Path) /\ Len(r) \in Nat
        /\ \A i \in DOMAIN r : r[i] \in Range(storage) /\ Last(r[i]) \in Name /\ Len(r[i]) = 2
    BY ExtrasAreVolumes
  <2>4. new \subseteq 1 .. Len(r) /\ A \subseteq new
    BY <2>3 DEF Unlisted, Added
  <2>5. IsFiniteSet(A) /\ Cardinality(found) + Cardinality(A) <= MaxEntries
    <3>. HIDE DEF r, new
    <3>. QED BY <2>2, <2>3, <2>4, AddedFit DEF Distinct
  <2>6. IsFiniteSet(V) /\ Cardinality(V) <= Cardinality(A)
    <3>1. f = [i \in A |-> f[i]]
      OBVIOUS
    <3>. HIDE DEF A, f
    <3>. QED BY <3>1, <2>5, ImageBound
  <2>7. IsFiniteSet(found \cup V) /\ Cardinality(found \cup V) <= MaxEntries
    <3>. HIDE DEF A, V
    <3>1. /\ IsFiniteSet(found \cup V)
          /\ Cardinality(found \cup V)
               = Cardinality(found) + Cardinality(V) - Cardinality(found \cap V)
      BY <2>2, <2>6, FS_Union DEF Distinct
    <3>2. found \cap V \in SUBSET V
      OBVIOUS
    <3>3. IsFiniteSet(found \cap V)
      BY <2>6, <3>2, FS_Subset
    <3>4. /\ Cardinality(found) \in Nat /\ Cardinality(V) \in Nat /\ Cardinality(A) \in Nat
          /\ Cardinality(found \cap V) \in Nat
      BY <2>2, <2>5, <2>6, <3>3, FS_CardinalityType DEF Distinct
    <3>. QED BY <2>5, <2>6, <3>1, <3>4, CountAssumption
  <2>8. ASSUME NEW e \in V PROVE
          /\ e \in Listable
          /\ \E i \in new : e = Volume(r[i])
    <3>1. PICK i \in A : e = Volume(r[i])
      OBVIOUS
    <3>2. i \in DOMAIN r
      BY <2>4, <2>3
    <3>3. e \in Listable
      BY <3>1, <3>2, <2>3 DEF Listable, Entry, Volume, Kind
    <3>. QED BY <3>1, <3>3, <2>4
  <2>9. ASSUME NEW d \in found, NEW e \in V PROVE d.name # e.name
    <3>1. PICK i \in new : e = Volume(r[i])
      BY <2>8
    <3>. QED BY <3>1 DEF Unlisted, Volume
  <2>10. ASSUME NEW d \in V, NEW e \in V, d.name = e.name PROVE d = e
    <3>1. PICK i \in new : d = Volume(r[i])
      BY <2>8
    <3>2. PICK j \in new : e = Volume(r[j])
      BY <2>8
    <3>3. Last(r[i]) = Last(r[j])
      BY <3>1, <3>2, <2>10 DEF Volume
    <3>4. i \in 1 .. Len(r) /\ j \in 1 .. Len(r)
      BY <2>4
    <3>5. ~(i < j) /\ ~(j < i)
      <4>1. \A k \in new : \A m \in 1 .. k - 1 : Last(r[m]) # Last(r[k])
        BY DEF Unlisted
      <4>. HIDE DEF new, r
      <4>2. i < j => i \in 1 .. j - 1
        BY <3>4
      <4>3. j < i => j \in 1 .. i - 1
        BY <3>4
      <4>. QED BY <4>1, <4>2, <4>3, <3>3
    <3>6. i = j
      <4>. HIDE DEF new, r
      <4>. QED BY <3>4, <3>5, <2>3
    <3>. QED BY <3>1, <3>2, <3>6
  <2>11. \A e \in V : e.name \in Name
    BY <2>8 DEF Listable, Entry
  <2>. HIDE DEF V
  <2>12. Distinct(found \cup V)
    BY <2>2, <2>7, <2>9, <2>10, <2>11 DEF Distinct
  <2>. QED BY <2>1, <2>2, <2>7, <2>8, <2>12
<1>. QED BY <1>1, <1>2
-----------------------------------------------------------------------------
(* The selection.                                                          *)

LEMMA LeastOf ==
  ASSUME NEW I \in SUBSET Nat, I # {}
  PROVE  Min(I) \in I
<1>1. \E n \in I : \A m \in I : n =< m
  BY LeastElement
<1>. QED BY <1>1 DEF Min

LEMMA SelectIn ==
  ASSUME NEW S, NEW list \in Seq(S), NEW i, NEW I, I = {j \in 1 .. Len(list) : j \in I},
         i = IF I # {} THEN Min(I) ELSE 0
  PROVE  /\ i \in 0 .. Len(list)
         /\ I # {} => i \in I
<1>1. I \in SUBSET Nat
  OBVIOUS
<1>2. I # {} => i \in I
  BY <1>1, LeastOf
<1>. QED BY <1>2

LEMMA PositionIn ==
  ASSUME NEW S, NEW list \in Seq(S), NEW name
  PROVE  /\ Position(list, name) \in Nat
         /\ Position(list, name) < Len(list) \/ Position(list, name) = 0
         /\ (\E i \in DOMAIN list : list[i].name = name) =>
              list[Position(list, name) + 1].name = name
<1>. DEFINE I == {j \in 1 .. Len(list) : list[j].name = name}
            i == IF I # {} THEN Min(I) ELSE 0
<1>1. Position(list, name) = IF i = 0 THEN 0 ELSE i - 1
  BY DEF Position, SelectInSeq
<1>2. i \in 0 .. Len(list) /\ (I # {} => i \in I)
  <2>1. I = {j \in 1 .. Len(list) : j \in I}
    OBVIOUS
  <2>. HIDE DEF I
  <2>. QED BY <2>1, SelectIn
<1>3. (\E j \in DOMAIN list : list[j].name = name) => I # {}
  OBVIOUS
<1>4. i \in I => i >= 1 /\ list[i].name = name
  <2>. HIDE DEF i
  <2>. QED OBVIOUS
<1>. HIDE DEF I, i
<1>5. Len(list) \in Nat
  OBVIOUS
<1>6. ASSUME \E j \in DOMAIN list : list[j].name = name
      PROVE  list[Position(list, name) + 1].name = name
  <2>1. i >= 1 /\ list[i].name = name
    BY <1>2, <1>3, <1>4, <1>6
  <2>2. Position(list, name) + 1 = i
    BY <1>1, <1>2, <2>1
  <2>. QED BY <2>1, <2>2
<1>. QED BY <1>1, <1>2, <1>5, <1>6

LEMMA WindowShows ==
  ASSUME NEW s \in Nat, NEW f \in Nat
  PROVE  Window(s, f) \in Nat /\ Window(s, f) <= s /\ s < Window(s, f) + Visible
BY CountAssumption DEF Window

LEMMA Remainder ==
  ASSUME NEW a \in Nat, NEW n \in Nat \ {0}
  PROVE  a % n \in 0 .. n - 1
OBVIOUS

LEMMA StepsInRange ==
  ASSUME NEW n \in Nat \ {0}, NEW s \in 0 .. n - 1
  PROVE  Steps(s, n) \subseteq 0 .. n - 1
<1>. DEFINE over == MenuJump % n
            jump == IF over = 0 THEN n - 1 ELSE over
<1>1. over \in 0 .. n - 1
  BY CountAssumption, Remainder
<1>2. Moved(s, n, TRUE) = (s + jump) % n /\ Moved(s, n, FALSE) = (s + n - jump) % n
  BY DEF Moved
<1>. HIDE DEF over
<1>3. jump \in 0 .. n - 1
  BY <1>1
<1>. HIDE DEF jump
<1>4. s + jump \in Nat /\ s + n - jump \in Nat
  BY <1>3
<1>5. Moved(s, n, TRUE) \in 0 .. n - 1 /\ Moved(s, n, FALSE) \in 0 .. n - 1
  BY <1>2, <1>4, Remainder
<1>6. /\ (IF s = 0 THEN n - 1 ELSE s - 1) \in 0 .. n - 1
      /\ (IF s + 1 < n THEN s + 1 ELSE s) \in 0 .. n - 1
  OBVIOUS
<1>. QED BY <1>5, <1>6 DEF Steps

(* The paths.                                                              *)
LEMMA PrimaryIsPath ==
  ASSUME NEW r \in Storages \cup {<<>>}
  PROVE  Primary(r) \in Path /\ Len(Primary(r)) = 2
<1>1. CASE r = <<>>
  BY <1>1, PathAssumption DEF Primary
<1>2. CASE r # <<>>
  <2>1. r \in Storages /\ r \in Seq(Path)
    BY <1>2, PathAssumption
  <2>2. 1 \in DOMAIN r /\ Primary(r) = r[1] /\ r[1] \in Path
    BY <1>2, <2>1 DEF Primary
  <2>. QED BY <2>1, <2>2, PathAssumption
<1>. QED BY <1>1, <1>2

LEMMA FrontIsPath ==
  ASSUME NEW p \in Path, Len(p) >= 1
  PROVE  Front(p) \in Path /\ Len(Front(p)) = Len(p) - 1
<1>1. ASSUME NEW S, NEW q \in Seq(S), Len(q) >= 1
      PROVE  SubSeq(q, 1, Len(q) - 1) \in Seq(S) /\ Len(SubSeq(q, 1, Len(q) - 1)) = Len(q) - 1
  <2>. DEFINE n == Len(q) - 1
  <2>1. Len(q) \in Nat /\ n \in Nat /\ n <= Len(q)
    BY <1>1
  <2>. HIDE DEF n
  <2>2. \A i \in 1 .. n : i \in 1 .. Len(q)
    BY <2>1
  <2>3. SubSeq(q, 1, n) \in Seq(S)
    BY <1>1, <2>1, <2>2
  <2>4. Len(SubSeq(q, 1, n)) = n
    BY <1>1, <2>1, <2>2
  <2>. QED BY <2>3, <2>4 DEF n
<1>. QED BY <1>1 DEF Front, Path

LEMMA RebasedIsPath ==
  ASSUME NEW r \in Storages \cup {<<>>}, NEW p \in Path, Len(p) >= 2
  PROVE  Rebased(p, r) \in Path /\ Len(Rebased(p, r)) >= 2
<1>1. CASE p = SD
  BY <1>1, PrimaryIsPath DEF Rebased
<1>2. CASE p # SD
  BY <1>2 DEF Rebased
<1>. QED BY <1>1, <1>2

LEMMA UpIsPath ==
  ASSUME roots \in Storages \cup {<<>>}, NEW p \in Path, Len(p) >= 2, p # Primary(roots)
  PROVE  Up(p) \in Path /\ Len(Up(p)) >= 2
<1>. DEFINE v == Primary(roots)
<1>1. v \in Path /\ Len(v) = 2
  BY PrimaryIsPath
<1>2. Front(p) \in Path /\ Len(Front(p)) = Len(p) - 1 /\ Len(p) \in Nat
  BY FrontIsPath DEF Path
<1>3. CASE Under(p, v)
  <2>. HIDE DEF v
  <2>1. ASSUME Len(p) = 2 PROVE FALSE
    <3>1. SubSeq(v, 1, 2) = SubSeq(p, 1, 2)
      BY <1>1, <1>3 DEF Under, IsPrefix
    <3>2. SubSeq(v, 1, 2) = v
      BY <1>1 DEF Path
    <3>3. SubSeq(p, 1, 2) = p
      BY <2>1 DEF Path
    <3>. QED BY <3>1, <3>2, <3>3 DEF v
  <2>2. Up(p) = Front(p)
    BY <1>3 DEF Up, v
  <2>. QED BY <2>1, <2>2, <1>2
<1>4. CASE ~Under(p, v)
  <2>1. Up(p) = IF Len(Front(p)) < 2 THEN v ELSE Front(p)
    BY <1>4 DEF Up
  <2>. HIDE DEF v
  <2>2. CASE Len(Front(p)) < 2
    <3>1. Up(p) = v
      BY <2>1, <2>2
    <3>. QED BY <3>1, <1>1
  <2>3. CASE ~(Len(Front(p)) < 2)
    <3>1. Up(p) = Front(p) /\ Len(Front(p)) \in Nat
      BY <2>1, <2>3, <1>2
    <3>. QED BY <3>1, <2>3, <1>2
  <2>. QED BY <2>2, <2>3
<1>. QED BY <1>3, <1>4
-----------------------------------------------------------------------------
(* Where the browser stands: paths are below the volumes or volumes        *)
(* themselves, the list is a listing, and the selection names an item of   *)
(* whatever is shown or being launched.                                    *)
Launching == {"launch", "choose", "extract", "member", "exec"}

Paths ==
  /\ storage \in Storages /\ auto \in Startups \cup {NoPath}
  /\ roots \in Storages \cup {<<>>}
  /\ current \in Path /\ Len(current) >= 2
  /\ saved # NoEntry => saved.dir \in Path /\ Len(saved.dir) >= 2

Listing == entries \in Seq(Listable) /\ Len(entries) <= MaxEntries

Selection ==
  /\ selected \in Nat /\ first \in Nat /\ view \in {"HOME", "LIBRARY", "SETTINGS"}
  /\ pc = "loop" /\ view = "HOME" => selected < HomeItems
  /\ pc = "loop" /\ view = "LIBRARY" => selected < Len(entries) \/ selected = 0
  /\ pc \in Launching \cup {"loop"} /\ view = "LIBRARY" =>
       first <= selected /\ selected < first + Visible
  /\ pc \in Launching =>
       /\ selected < Len(entries) /\ Chosen.kind # "dir"
       /\ startup \/ view = "LIBRARY"
  /\ pc \in {"extract", "member"} => Chosen.kind = "zip"
  /\ pc = "startup" => view = "HOME" /\ selected = 0

Placed == Paths /\ Listing /\ Selection

(* Whatever scan_directory() is asked for, it lists entries in their       *)
(* order and stays below the volumes.                                      *)
LEMMA ScanPlaces ==
  ASSUME storage \in Storages, NEW p \in Path, Len(p) >= 2, NEW r \in Storages \cup {<<>>},
         Scan(p, r)
  PROVE  /\ Listing'
         /\ roots' \in Storages \cup {<<>>}
         /\ current' \in {p, Rebased(p, storage)}
         /\ current' \in Path /\ Len(current') >= 2
<1>1. CASE p \in Readable
  <2>1. PICK found \in Readings(p) : entries' = Sorted(Shown(found, p))
    BY <1>1 DEF Scan
  <2>2. p \in DOMAIN Tree
    BY <1>1 DEF Readable
  <2>. DEFINE S == Shown(found, p)
  <2>3. Distinct(S) /\ Cardinality(S) <= MaxEntries /\ S \subseteq Listable
    BY <2>2, ShownIsListing
  <2>. HIDE DEF S
  <2>4. Sorted(S) \in Seq(S) /\ Len(Sorted(S)) = Cardinality(S)
    BY <2>3, SortedIsListing
  <2>5. Sorted(S) \in Seq(Listable) /\ Len(Sorted(S)) <= MaxEntries
    BY <2>3, <2>4
  <2>6. Listing'
    BY <2>1, <2>5 DEF Listing, S, Listable, Entry, Kind, NoPath, Name
  <2>7. roots' = storage /\ current' = Rebased(p, storage)
    BY <1>1 DEF Scan
  <2>. QED BY <2>6, <2>7, RebasedIsPath
<1>2. CASE p \notin Readable
  <2>1. entries' = <<>> /\ roots' = r /\ current' = p
    BY <1>2 DEF Scan
  <2>2. Listing'
    BY <2>1, CountAssumption DEF Listing
  <2>. QED BY <2>1, <2>2
<1>. QED BY <1>1, <1>2

(* A step that reads no directory.                                         *)
LEMMA PathsKept ==
  ASSUME Paths, Listing, UNCHANGED <<auto, roots, current, entries, saved>>, storage' \in Storages
  PROVE  Paths' /\ Listing'
BY DEF Paths, Listing

LEMMA SelectionKept ==
  ASSUME Selection, UNCHANGED <<browsing, startup>>,
         pc' = pc \/ (pc' \in Launching \ {"extract", "member"} /\ pc \in Launching)
  PROVE  Selection'
BY DEF Selection, browsing, Chosen, Launching

(* The process is gone: nothing is shown or launched.                      *)
LEMMA GonePlaces ==
  ASSUME storage \in Storages, auto \in Startups \cup {NoPath}, UNCHANGED outside, Gone,
         saved' # NoEntry => saved'.dir \in Path /\ Len(saved'.dir) >= 2,
         pc' \in {"off", "core"}
  PROVE  Placed'
<1>1. SD \in Path /\ Len(SD) >= 2
  BY PathAssumption
<1>2. Paths'
  BY <1>1 DEF Gone, outside, Paths
<1>3. Listing'
  <2>1. entries' = <<>>
    BY DEF Gone
  <2>. QED BY <2>1, CountAssumption DEF Listing
<1>4. Selection'
  BY DEF Gone, Selection, Launching
<1>. QED BY <1>2, <1>3, <1>4 DEF Placed

(* Back in the loop, in the library as it was left or at home.             *)
LEMMA ReturnPlaces ==
  ASSUME Placed, pc \in Launching, Return, UNCHANGED outside,
         saved' # NoEntry => saved'.dir \in Path /\ Len(saved'.dir) >= 2
  PROVE  Placed'
<1>1. CASE startup
  <2>1. /\ Scan(Primary(roots), roots) /\ pc' = "loop"
        /\ view' = "HOME" /\ selected' = 0 /\ first' = 0
    BY <1>1 DEF Return
  <2>2. Listing' /\ roots' \in Storages \cup {<<>>} /\ current' \in Path /\ Len(current') >= 2
    <3>1. Primary(roots) \in Path /\ Len(Primary(roots)) = 2
      BY PrimaryIsPath DEF Placed, Paths
    <3>2. storage \in Storages /\ roots \in Storages \cup {<<>>}
      BY DEF Placed, Paths
    <3>3. Len(Primary(roots)) >= 2
      BY <3>1
    <3>. QED BY <2>1, <3>1, <3>2, <3>3, ScanPlaces
  <2>3. Paths'
    BY <2>2 DEF Placed, Paths, outside
  <2>4. Selection'
    BY <2>1 DEF Selection, HomeItems, Launching
  <2>. QED BY <2>2, <2>3, <2>4 DEF Placed
<1>2. CASE ~startup
  <2>1. UNCHANGED browsing /\ pc' = "loop"
    BY <1>2 DEF Return
  <2>2. Paths' /\ Listing'
    BY <2>1 DEF Placed, Paths, Listing, browsing, outside
  <2>3. Selection'
    BY <1>2, <2>1 DEF Placed, Selection, browsing, Launching
  <2>. QED BY <2>2, <2>3 DEF Placed
<1>. QED BY <1>1, <1>2

LEMMA PlacedNavigate == Placed /\ Navigate => Placed'
<1>. SUFFICES ASSUME Placed PROVE Navigate => Placed'
  OBVIOUS
<1>0. /\ storage \in Storages /\ roots \in Storages \cup {<<>>}
      /\ current \in Path /\ Len(current) >= 2
      /\ entries \in Seq(Listable) /\ Len(entries) \in Nat
      /\ selected \in Nat /\ first \in Nat
  BY DEF Placed, Paths, Listing, Selection
<1>1. ASSUME HomeMove PROVE Placed'
  <2>1. /\ pc = "loop" /\ view = "HOME" /\ selected' \in Steps(selected, HomeItems)
        /\ UNCHANGED <<outside, roots, current, entries, first, view, saved, pc, startup>>
    BY <1>1 DEF HomeMove
  <2>2. selected' \in 0 .. HomeItems - 1
    <3>1. HomeItems \in Nat \ {0} /\ selected \in 0 .. HomeItems - 1
      BY <1>0, <2>1 DEF Placed, Selection, HomeItems
    <3>. QED BY <2>1, <3>1, StepsInRange
  <2>3. Selection'
    BY <1>0, <2>1, <2>2 DEF Selection, HomeItems, Launching
  <2>4. Paths' /\ Listing'
    BY <2>1, PathsKept DEF Placed, Paths, outside
  <2>. QED BY <2>3, <2>4 DEF Placed
<1>2. ASSUME LibraryMove PROVE Placed'
  <2>1. /\ pc = "loop" /\ view = "LIBRARY" /\ entries # <<>>
        /\ selected' \in Steps(selected, Len(entries)) /\ first' = Window(selected', first)
        /\ UNCHANGED <<outside, roots, current, entries, view, saved, pc, startup>>
    BY <1>2 DEF LibraryMove
  <2>2. Len(entries) \in Nat \ {0}
    BY <1>0, <2>1
  <2>3. selected' \in 0 .. Len(entries) - 1
    <3>1. selected \in 0 .. Len(entries) - 1
      BY <1>0, <2>1, <2>2 DEF Placed, Selection
    <3>. QED BY <2>1, <2>2, <3>1, StepsInRange
  <2>4. selected' \in Nat /\ selected' < Len(entries)
    BY <2>2, <2>3
  <2>5. first' \in Nat /\ first' <= selected' /\ selected' < first' + Visible
    BY <1>0, <2>1, <2>4, WindowShows
  <2>6. Selection'
    BY <2>1, <2>4, <2>5 DEF Selection, Launching
  <2>7. Paths' /\ Listing'
    BY <2>1, PathsKept DEF Placed, Paths, outside
  <2>. QED BY <2>6, <2>7 DEF Placed
<1>3. ASSUME OpenLibrary PROVE Placed'
  <2>. DEFINE p == IF browser_state_valid THEN Rebased(current, storage) ELSE Primary(storage)
  <2>1. /\ view' = "LIBRARY" /\ Scan(p, storage) /\ pc' = "loop"
        /\ selected' = Restored /\ first' = Window(selected', 0)
        /\ UNCHANGED <<outside, saved>>
    BY <1>3 DEF OpenLibrary
  <2>2. p \in Path /\ Len(p) >= 2
    <3>1. Rebased(current, storage) \in Path /\ Len(Rebased(current, storage)) >= 2
      BY <1>0, RebasedIsPath
    <3>2. Primary(storage) \in Path /\ Len(Primary(storage)) = 2
      BY <1>0, PrimaryIsPath
    <3>3. CASE browser_state_valid
      <4>1. p = Rebased(current, storage)
        BY <3>3
      <4>. QED BY <3>1, <4>1
    <3>4. CASE ~browser_state_valid
      <4>1. p = Primary(storage)
        BY <3>4
      <4>. QED BY <3>2, <4>1
    <3>. QED BY <3>3, <3>4
  <2>. HIDE DEF p
  <2>3. /\ Listing' /\ roots' \in Storages \cup {<<>>}
        /\ current' \in Path /\ Len(current') >= 2
    BY <1>0, <2>1, <2>2, ScanPlaces
  <2>4. selected' \in Nat /\ (selected' < Len(entries') \/ selected' = 0)
    <3>1. Position(entries', restore_entry) \in Nat
          /\ (Position(entries', restore_entry) < Len(entries')
               \/ Position(entries', restore_entry) = 0)
      BY <2>3, PositionIn DEF Listing
    <3>. QED BY <2>1, <3>1 DEF Restored
  <2>5. first' \in Nat /\ first' <= selected' /\ selected' < first' + Visible
    BY <2>1, <2>4, WindowShows
  <2>6. Selection'
    BY <2>1, <2>4, <2>5 DEF Selection, Launching
  <2>7. Paths'
    BY <2>1, <2>3 DEF Placed, Paths, outside
  <2>. QED BY <2>3, <2>6, <2>7 DEF Placed
<1>4. ASSUME Settings PROVE Placed'
  <2>1. /\ pc' = "loop" /\ selected' = 0 /\ first' \in {0, first} /\ view' \in {"SETTINGS", "HOME"}
        /\ UNCHANGED <<outside, roots, current, entries, saved>>
    BY <1>4 DEF Settings
  <2>2. Selection'
    BY <1>0, <2>1 DEF Selection, HomeItems, Launching
  <2>3. Paths' /\ Listing'
    BY <2>1, PathsKept DEF Placed, Paths, outside
  <2>. QED BY <2>2, <2>3 DEF Placed
<1>5. ASSUME Parent PROVE Placed'
  <2>1. pc = "loop" /\ pc' = "loop" /\ view = "LIBRARY" /\ UNCHANGED <<outside, saved>>
    BY <1>5 DEF Parent
  <2>2. CASE current \in {Primary(roots), SD}
    <3>1. view' = "HOME" /\ selected' = 0 /\ first' = 0 /\ UNCHANGED <<roots, current, entries>>
      BY <1>5, <2>2 DEF Parent, SelectedAtHome
    <3>2. Selection'
      BY <2>1, <3>1 DEF Selection, HomeItems, Launching
    <3>3. Paths' /\ Listing'
      BY <2>1, <3>1, PathsKept DEF Placed, Paths, outside
    <3>. QED BY <3>2, <3>3 DEF Placed
  <2>3. CASE current \notin {Primary(roots), SD}
    <3>1. /\ Scan(Above, roots) /\ selected' = Position(entries', Last(current))
          /\ first' = Window(selected', 0) /\ view' = view
      BY <1>5, <2>3 DEF Parent
    <3>2. Above \in Path /\ Len(Above) >= 2
      <4>1. Primary(roots) \in Path /\ Len(Primary(roots)) = 2
        BY <1>0, PrimaryIsPath
      <4>2. Up(current) \in Path /\ Len(Up(current)) >= 2
        BY <1>0, <2>3, UpIsPath
      <4>3. Above \in {Primary(roots), Up(current)}
        BY DEF Above
      <4>4. Len(Primary(roots)) >= 2
        BY <4>1
      <4>. QED BY <4>1, <4>2, <4>3, <4>4, Zenon
    <3>3. /\ Listing' /\ roots' \in Storages \cup {<<>>}
          /\ current' \in Path /\ Len(current') >= 2
      BY <1>0, <3>1, <3>2, ScanPlaces
    <3>4. selected' \in Nat /\ (selected' < Len(entries') \/ selected' = 0)
      BY <3>1, <3>3, PositionIn DEF Listing
    <3>5. first' \in Nat /\ first' <= selected' /\ selected' < first' + Visible
      BY <3>1, <3>4, WindowShows
    <3>6. Selection'
      BY <2>1, <3>1, <3>4, <3>5 DEF Selection, Launching
    <3>7. Paths'
      BY <2>1, <3>3 DEF Placed, Paths, outside
    <3>. QED BY <3>3, <3>6, <3>7 DEF Placed
  <2>. QED BY <2>2, <2>3
<1>6. ASSUME OpenDirectory PROVE Placed'
  <2>. DEFINE p == IF Chosen.target # NoPath THEN Chosen.target ELSE Append(current, Chosen.name)
  <2>1. /\ pc = "loop" /\ pc' = "loop" /\ view = "LIBRARY" /\ entries # <<>>
        /\ Scan(p, roots) /\ selected' = 0 /\ first' = 0 /\ view' = view
        /\ UNCHANGED <<outside, saved>>
    BY <1>6 DEF OpenDirectory
  <2>2. Chosen \in Entry
    <3>1. selected + 1 \in 1 .. Len(entries)
      BY <1>0, <2>1 DEF Placed, Selection
    <3>. QED BY <1>0, <3>1 DEF Chosen, Listable
  <2>3. p \in Path /\ Len(p) >= 2
    <3>1. CASE Chosen.target # NoPath
      <4>1. PICK r \in Storages : Chosen.target \in Range(r)
        BY <2>2, <3>1 DEF Entry
      <4>2. PICK i \in DOMAIN r : Chosen.target = r[i]
        BY <4>1 DEF Range
      <4>3. r[i] \in Path /\ Len(r[i]) = 2
        BY <4>2, PathAssumption
      <4>4. p = r[i]
        BY <3>1, <4>2
      <4>5. Len(r[i]) >= 2
        BY <4>3
      <4>. QED BY <4>3, <4>4, <4>5, Zenon
    <3>2. CASE Chosen.target = NoPath
      <4>1. Chosen.name \in STRING
        BY <2>2, NameAssumption DEF Entry
      <4>2. Append(current, Chosen.name) \in Path
            /\ Len(Append(current, Chosen.name)) = Len(current) + 1
        BY <1>0, <4>1 DEF Path
      <4>3. Len(current) \in Nat
        BY <1>0 DEF Path
      <4>. QED BY <1>0, <3>2, <4>2, <4>3
    <3>. QED BY <3>1, <3>2
  <2>. HIDE DEF p
  <2>4. /\ Listing' /\ roots' \in Storages \cup {<<>>}
        /\ current' \in Path /\ Len(current') >= 2
    BY <1>0, <2>1, <2>3, ScanPlaces
  <2>5. Selection'
    BY <2>1, CountAssumption DEF Selection, Launching
  <2>6. Paths'
    BY <2>1, <2>4 DEF Placed, Paths, outside
  <2>. QED BY <2>4, <2>5, <2>6 DEF Placed
<1>7. ASSUME OpenFile PROVE Placed'
  <2>1. /\ pc = "loop" /\ view = "LIBRARY" /\ entries # <<>> /\ Chosen.kind # "dir"
        /\ pc' = "launch" /\ UNCHANGED <<outside, browsing, saved>>
    BY <1>7 DEF OpenFile
  <2>2. Paths' /\ Listing'
    BY <2>1, PathsKept DEF Placed, Paths, outside, browsing
  <2>3. Chosen' = Chosen
    BY <2>1 DEF Chosen, browsing
  <2>4. Selection'
    BY <1>0, <2>1, <2>3 DEF Placed, Selection, browsing, Launching
  <2>. QED BY <2>2, <2>4 DEF Placed
<1>8. ASSUME SystemAction PROVE Placed'
  <2>1. pc' = "halt" /\ UNCHANGED <<outside, browsing, saved>>
    BY <1>8 DEF SystemAction
  <2>2. Paths' /\ Listing'
    BY <2>1, PathsKept DEF Placed, Paths, outside, browsing
  <2>3. Selection'
    BY <1>0, <2>1 DEF Placed, Selection, browsing, Launching
  <2>. QED BY <2>2, <2>3 DEF Placed
<1>. QED BY <1>1, <1>2, <1>3, <1>4, <1>5, <1>6, <1>7, <1>8 DEF Navigate

LEMMA PlacedLaunch == Placed /\ Launch => Placed'
<1>. SUFFICES ASSUME Placed PROVE Launch => Placed'
  OBVIOUS
<1>0. /\ storage \in Storages /\ (saved # NoEntry => saved.dir \in Path /\ Len(saved.dir) >= 2)
  BY DEF Placed, Paths
(* Either the launch goes on, or it is over.                               *)
<1>a. ASSUME UNCHANGED <<outside, saved, browsing, startup>>, pc \in Launching,
             pc' = pc \/ pc' \in Launching \ {"extract", "member"}
      PROVE  Placed'
  <2>1. Paths' /\ Listing'
    BY <1>a, PathsKept DEF Placed, Paths, outside, browsing
  <2>2. Selection'
    BY <1>a, SelectionKept DEF Placed
  <2>. QED BY <2>1, <2>2 DEF Placed
<1>b. ASSUME UNCHANGED <<outside, saved, browsing, startup>>, pc \in Launching,
             Chosen.kind = "zip", pc' \in {"extract", "member"}
      PROVE  Placed'
  <2>1. Paths' /\ Listing'
    BY <1>b, PathsKept DEF Placed, Paths, outside, browsing
  <2>2. Chosen' = Chosen
    BY <1>b DEF Chosen, browsing
  <2>3. Selection'
    BY <1>b, <2>2 DEF Placed, Selection, browsing, Launching
  <2>. QED BY <2>1, <2>3 DEF Placed
<1>c. ASSUME Return, UNCHANGED <<outside, saved>>, pc \in Launching PROVE Placed'
  BY <1>0, <1>c, ReturnPlaces
<1>1. ASSUME LaunchFile PROVE Placed'
  BY <1>1, <1>a DEF LaunchFile, Launching
<1>2. ASSUME ChooseCore PROVE Placed'
  <2>1. pc \in Launching /\ UNCHANGED <<outside, saved>>
    BY <1>2 DEF ChooseCore, restore, Launching
  <2>2. CASE Return
    BY <2>1, <2>2, <1>c
  <2>3. CASE pc' = "exec" /\ UNCHANGED <<browsing, startup>>
    BY <2>1, <2>3, <1>a DEF Launching
  <2>4. CASE Chosen.kind = "zip" /\ pc' = "extract" /\ UNCHANGED <<browsing, startup>>
    BY <2>1, <2>4, <1>b
  <2>. QED BY <1>2, <2>2, <2>3, <2>4 DEF ChooseCore
<1>3. ASSUME Extract PROVE Placed'
  <2>1. /\ pc = "extract" /\ pc' \in {"extract", "member"}
        /\ UNCHANGED <<outside, saved, browsing, startup>>
    BY <1>3 DEF Extract, Try
  <2>2. Chosen.kind = "zip"
    BY <2>1 DEF Placed, Selection
  <2>. QED BY <2>1, <2>2, <1>b DEF Launching
<1>4. ASSUME ExtractFails PROVE Placed'
  BY <1>4, <1>c DEF ExtractFails, Launching
<1>5. ASSUME PickMember PROVE Placed'
  <2>1. pc \in Launching /\ UNCHANGED <<outside, saved>>
    BY <1>5 DEF PickMember, Launching
  <2>2. CASE Return
    BY <2>1, <2>2, <1>c
  <2>3. CASE pc' = "exec" /\ UNCHANGED <<browsing, startup>>
    BY <2>1, <2>3, <1>a DEF Launching
  <2>. QED BY <1>5, <2>2, <2>3 DEF PickMember
<1>6. ASSUME Refused PROVE Placed'
  BY <1>6, <1>c DEF Refused, Launching
<1>d. ASSUME SaveBrowserState PROVE saved' # NoEntry => saved'.dir \in Path /\ Len(saved'.dir) >= 2
  <2>1. Bookmark.dir = current /\ current \in Path /\ Len(current) >= 2
    BY DEF Bookmark, Placed, Paths
  <2>2. CASE saved' = Bookmark
    BY <2>1, <2>2
  <2>3. CASE saved' = saved
    BY <1>0, <2>3
  <2>. QED BY <1>d, <2>2, <2>3 DEF SaveBrowserState
<1>7. ASSUME ExecFails PROVE Placed'
  <2>1. pc \in Launching /\ Return /\ SaveBrowserState /\ UNCHANGED outside
    BY <1>7 DEF ExecFails, Launching
  <2>. QED BY <2>1, <1>d, ReturnPlaces
<1>8. ASSUME Exec PROVE Placed'
  <2>1. pc' = "core" /\ Gone /\ SaveBrowserState /\ UNCHANGED outside
    BY <1>8 DEF Exec
  <2>2. auto \in Startups \cup {NoPath}
    BY DEF Placed, Paths
  <2>. QED BY <1>0, <2>1, <2>2, <1>d, GonePlaces
<1>. QED BY <1>1, <1>2, <1>3, <1>4, <1>5, <1>6, <1>7, <1>8 DEF Launch

LEMMA PlacedStart == Placed /\ (Start \/ StartupLaunch \/ NoStartupLaunch) => Placed'
<1>. SUFFICES ASSUME Placed PROVE Start \/ StartupLaunch \/ NoStartupLaunch => Placed'
  OBVIOUS
<1>0. /\ storage \in Storages /\ roots \in Storages \cup {<<>>}
      /\ auto \in Startups \cup {NoPath}
      /\ saved # NoEntry => saved.dir \in Path /\ Len(saved.dir) >= 2
  BY DEF Placed, Paths
<1>1. ASSUME Start PROVE Placed'
  <2>. DEFINE p == IF Loads THEN saved.dir ELSE Primary(storage)
  <2>1. /\ pc' = "startup" /\ Scan(p, storage) /\ view' = "HOME" /\ selected' = 0 /\ first' = 0
        /\ UNCHANGED <<outside, saved>>
    BY <1>1 DEF Start
  <2>2. p \in Path /\ Len(p) >= 2
    <3>1. CASE Loads
      <4>1. p = saved.dir /\ saved # NoEntry
        BY <3>1 DEF Loads
      <4>. QED BY <4>1, <1>0
    <3>2. CASE ~Loads
      <4>1. p = Primary(storage)
        BY <3>2
      <4>2. Primary(storage) \in Path /\ Len(Primary(storage)) = 2
        BY <1>0, PrimaryIsPath
      <4>3. Len(Primary(storage)) >= 2
        BY <4>2
      <4>. QED BY <4>1, <4>2, <4>3, Zenon
    <3>. QED BY <3>1, <3>2
  <2>. HIDE DEF p
  <2>3. /\ Listing' /\ roots' \in Storages \cup {<<>>}
        /\ current' \in Path /\ Len(current') >= 2
    BY <1>0, <2>1, <2>2, ScanPlaces
  <2>4. Selection'
    BY <2>1 DEF Selection, Launching
  <2>5. Paths'
    BY <2>1, <2>3 DEF Placed, Paths, outside
  <2>. QED BY <2>3, <2>4, <2>5 DEF Placed
<1>2. ASSUME StartupLaunch PROVE Placed'
  <2>. DEFINE I == {j \in 1 .. Len(entries') :
                      entries'[j].kind # "dir" /\ entries'[j].name = Last(auto)}
              i == IF I # {} THEN Min(I) ELSE 0
  <2>1. /\ auto # NoPath /\ Scan(Front(auto), roots) /\ first' = 0 /\ view' = view
        /\ UNCHANGED <<outside, saved>>
    BY <1>2 DEF StartupLaunch
  <2>2. IF i = 0 THEN pc' = "loop" /\ selected' = 0
        ELSE pc' = "launch" /\ selected' = i - 1 /\ startup' = TRUE
    BY <1>2 DEF StartupLaunch, SelectInSeq
  <2>3. Front(auto) \in Path /\ Len(Front(auto)) >= 2
    <3>1. auto \in Path /\ Len(auto) >= 3
      BY <1>0, <2>1, PathAssumption
    <3>2. Len(auto) \in Nat
      BY <3>1 DEF Path
    <3>3. Front(auto) \in Path /\ Len(Front(auto)) = Len(auto) - 1
      BY <3>1, <3>2, FrontIsPath
    <3>. QED BY <3>1, <3>2, <3>3
  <2>4. /\ Listing' /\ roots' \in Storages \cup {<<>>}
        /\ current' \in Path /\ Len(current') >= 2
    BY <1>0, <2>1, <2>3, ScanPlaces
  <2>5. i \in 0 .. Len(entries') /\ (I # {} => i \in I)
    <3>1. I = {j \in 1 .. Len(entries') : j \in I}
      OBVIOUS
    <3>. HIDE DEF I
    <3>. QED BY <3>1, <2>4, SelectIn DEF Listing
  <2>6. i # 0 => entries'[i].kind # "dir"
    <3>1. i # 0 => i \in I
      BY <2>5
    <3>. HIDE DEF i
    <3>. QED BY <3>1
  <2>7. Len(entries') \in Nat
    BY <2>4 DEF Listing
  <2>. HIDE DEF i, I
  <2>8. Selection'
    <3>1. CASE i = 0
      BY <2>1, <2>2, <3>1, CountAssumption DEF Placed, Selection, HomeItems, Launching
    <3>2. CASE i # 0
      <4>1. pc' = "launch" /\ selected' = i - 1 /\ startup'
        BY <2>2, <3>2
      <4>2. selected' \in Nat /\ selected' + 1 = i /\ selected' < Len(entries')
        BY <2>5, <2>7, <3>2, <4>1
      <4>3. Chosen'.kind # "dir"
        BY <2>6, <3>2, <4>2 DEF Chosen
      <4>4. view' \in {"HOME", "SETTINGS", "LIBRARY"} /\ view' # "LIBRARY"
        BY <1>2, <2>1 DEF Placed, Selection, StartupLaunch
      <4>. QED BY <2>1, <4>1, <4>2, <4>3, <4>4 DEF Selection, Launching
    <3>. QED BY <3>1, <3>2
  <2>9. Paths'
    BY <2>1, <2>4 DEF Placed, Paths, outside
  <2>. QED BY <2>4, <2>8, <2>9 DEF Placed
<1>3. ASSUME NoStartupLaunch PROVE Placed'
  <2>1. pc = "startup" /\ pc' = "loop" /\ UNCHANGED <<outside, browsing, saved, startup>>
    BY <1>3 DEF NoStartupLaunch
  <2>2. Paths' /\ Listing'
    BY <2>1, PathsKept DEF Placed, Paths, outside, browsing
  <2>3. Selection'
    BY <2>1 DEF Placed, Selection, browsing, Launching, HomeItems
  <2>. QED BY <2>2, <2>3 DEF Placed
<1>. QED BY <1>1, <1>2, <1>3

LEMMA PlacedInit == Init => Placed
<1>. SUFFICES ASSUME Init PROVE Placed
  OBVIOUS
<1>1. SD \in Path /\ Len(SD) >= 2
  BY PathAssumption
<1>2. Paths
  BY <1>1 DEF Init, Paths
<1>3. Listing
  <2>1. entries = <<>>
    BY DEF Init
  <2>. QED BY <2>1, CountAssumption DEF Listing
<1>4. Selection
  BY DEF Init, Selection, Launching
<1>. QED BY <1>2, <1>3, <1>4 DEF Placed

LEMMA PlacedStep == Placed /\ [Next]_vars => Placed'
<1>. SUFFICES ASSUME Placed, [Next]_vars PROVE Placed'
  OBVIOUS
<1>0. /\ storage \in Storages /\ auto \in Startups \cup {NoPath}
      /\ saved # NoEntry => saved.dir \in Path /\ Len(saved.dir) >= 2
  BY DEF Placed, Paths
<1>1. CASE Navigate
  BY <1>1, PlacedNavigate
<1>2. CASE Launch
  BY <1>2, PlacedLaunch
<1>3. CASE Start \/ StartupLaunch \/ NoStartupLaunch
  BY <1>3, PlacedStart
<1>4. ASSUME UNCHANGED <<auto, browsing, saved, pc, startup>>, storage' \in Storages PROVE Placed'
  <2>1. Paths' /\ Listing'
    BY <1>4, PathsKept DEF Placed, browsing
  <2>2. Selection'
    BY <1>4, SelectionKept DEF Placed
  <2>. QED BY <2>1, <2>2 DEF Placed
<1>5. CASE CoreBegins
  BY <1>0, <1>4, <1>5 DEF CoreBegins, outside
<1>6. CASE Supervise
  BY <1>0, <1>6, GonePlaces DEF Supervise
<1>7. CASE Reboot
  BY <1>0, <1>7, GonePlaces DEF Reboot
<1>8. CASE Hotplug
  BY <1>4, <1>8 DEF Hotplug
<1>9. CASE UNCHANGED vars
  BY <1>0, <1>4, <1>9 DEF vars, outside
<1>. QED BY <1>1, <1>2, <1>3, <1>5, <1>6, <1>7, <1>8, <1>9 DEF Next

(* What the other variables are.                                           *)
Flags ==
  /\ browser_state_valid \in BOOLEAN /\ opened \in BOOLEAN /\ session \in BOOLEAN /\ startup \in BOOLEAN
  /\ work \subseteq File /\ payload \in File \cup {NoFile} /\ attempt \in 0 .. Attempts
  /\ pc \in {"off", "startup", "loop", "launch", "choose", "extract", "member", "exec",
             "core", "halt"}

LEMMA FlagsReset ==
  ASSUME attempt' = 0, payload' = NoFile, startup' = FALSE, work' \subseteq File,
         browser_state_valid' \in BOOLEAN, opened' \in BOOLEAN, session' \in BOOLEAN,
         pc' \in {"off", "loop", "core"}
  PROVE  Flags'
<1>1. attempt' \in 0 .. Attempts
  BY DEF Attempts
<1>2. payload' \in File \cup {NoFile}
  OBVIOUS
<1>3. startup' \in BOOLEAN
  OBVIOUS
<1>4. pc' \in {"off", "startup", "loop", "launch", "choose", "extract", "member", "exec",
              "core", "halt"}
  OBVIOUS
<1>. QED BY <1>1, <1>2, <1>3, <1>4 DEF Flags

LEMMA FlagsStep == Placed /\ Flags /\ [Next]_vars => Flags'
<1>. SUFFICES ASSUME Placed, Flags, [Next]_vars PROVE Flags'
  OBVIOUS
<1>0. Attempts = 3
  BY DEF Attempts
<1>1. CASE Navigate
  <2>1. /\ UNCHANGED <<session, work, attempt, payload, startup>>
        /\ browser_state_valid' \in {browser_state_valid, FALSE}
        /\ opened' \in {opened, TRUE}
        /\ pc' \in {"loop", "launch", "halt"}
    BY <1>1 DEF Navigate, HomeMove, LibraryMove, OpenLibrary, Settings, Parent, OpenDirectory,
         OpenFile, SystemAction, restore, archive
  <2>2. browser_state_valid' \in BOOLEAN /\ opened' \in BOOLEAN
    BY <2>1 DEF Flags
  <2>. QED BY <2>1, <2>2 DEF Flags
<1>2. CASE Launch
  <2>1. ASSUME Return, UNCHANGED <<restore, work>>, session' \in BOOLEAN PROVE Flags'
    <3>1. pc' = "loop" /\ startup' = FALSE /\ attempt' = 0 /\ payload' = NoFile
      BY <2>1 DEF Return
    <3>. QED BY <2>1, <3>1, FlagsReset DEF Flags, restore
  <2>2. CASE LaunchFile
    <3>1. /\ UNCHANGED <<browser_state_valid, opened, work, attempt, payload, startup>>
          /\ pc' \in {"exec", "choose"} /\ session' \in BOOLEAN
      BY <2>2 DEF LaunchFile, restore, archive
    <3>. QED BY <3>1 DEF Flags
  <2>3. CASE ChooseCore
    <3>1. UNCHANGED <<restore, session>> /\ session \in BOOLEAN
      BY <2>3 DEF ChooseCore, Flags
    <3>2. CASE Return /\ UNCHANGED work
      BY <2>1, <3>1, <3>2
    <3>3. CASE pc' \in {"exec", "extract"} /\ UNCHANGED <<work, attempt, payload, startup>>
      BY <3>1, <3>3 DEF Flags, restore
    <3>. QED BY <2>3, <3>2, <3>3 DEF ChooseCore, archive
  <2>4. CASE Extract
    <3>1. /\ UNCHANGED <<browser_state_valid, opened, session, payload, startup>> /\ Try(Chosen.name)
          /\ pc = "extract" /\ attempt < Attempts
      BY <2>4 DEF Extract, restore
    <3>2. Chosen.name \in DOMAIN Members
      <4>1. selected + 1 \in 1 .. Len(entries) /\ entries \in Seq(Listable) /\ Chosen.kind = "zip"
        BY <3>1 DEF Placed, Selection, Listing, Launching
      <4>2. Chosen \in Listable
        BY <4>1 DEF Chosen
      <4>. QED BY <4>1, <4>2 DEF Listable
    <3>3. Contents(Chosen.name) \subseteq File /\ Pieces(Chosen.name) \subseteq File
      BY <3>2, TreeAssumption DEF Contents, Pieces, File
    <3>4. work' \subseteq File
      <4>1. work \subseteq File
        BY DEF Flags
      <4>2. \A w \in Leftovers(Chosen.name) : w \subseteq File
        BY <3>3 DEF Leftovers
      <4>3. work' \in (SUBSET work) \cup Leftovers(Chosen.name) \/ work' = Contents(Chosen.name)
        BY <3>1 DEF Try
      <4>. QED BY <3>3, <4>1, <4>2, <4>3
    <3>5. pc' \in {"extract", "member"} /\ attempt' \in {attempt, attempt + 1}
      BY <3>1 DEF Try
    <3>6. attempt' \in 0 .. Attempts
      BY <3>1, <3>5, <1>0 DEF Flags
    <3>. QED BY <3>1, <3>4, <3>5, <3>6 DEF Flags
  <2>5. CASE ExtractFails
    BY <2>1, <2>5 DEF ExtractFails, Flags
  <2>6. CASE PickMember
    <3>1. UNCHANGED <<restore, session, work>> /\ session \in BOOLEAN
      BY <2>6 DEF PickMember, Flags
    <3>2. CASE Return
      BY <2>1, <3>1, <3>2
    <3>3. CASE payload' \in Candidates /\ pc' = "exec" /\ UNCHANGED <<attempt, startup>>
      <4>1. payload' \in File
        BY <3>3 DEF Candidates, Flags
      <4>. QED BY <3>1, <3>3, <4>1 DEF Flags, restore
    <3>. QED BY <2>6, <3>2, <3>3 DEF PickMember
  <2>7. CASE Refused
    BY <2>1, <2>7 DEF Refused, Flags
  <2>8. CASE ExecFails
    BY <2>1, <2>8 DEF ExecFails, SessionAfter
  <2>9. CASE Exec
    <3>1. UNCHANGED <<session, work>> /\ session \in BOOLEAN /\ work \subseteq File
      BY <2>9 DEF Exec, Flags
    <3>. QED BY <2>9, <3>1, FlagsReset DEF Exec, Gone
  <2>. QED BY <1>2, <2>2, <2>3, <2>4, <2>5, <2>6, <2>7, <2>8, <2>9 DEF Launch
<1>3. CASE Start \/ StartupLaunch \/ NoStartupLaunch
  <2>1. /\ UNCHANGED <<session, work, attempt, payload>> /\ pc' \in {"startup", "loop", "launch"}
        /\ startup' \in {startup, TRUE}
    BY <1>3 DEF Start, StartupLaunch, NoStartupLaunch, archive
  <2>2. browser_state_valid' \in {browser_state_valid, Loads} /\ opened' = opened
    BY <1>3 DEF Start, StartupLaunch, NoStartupLaunch, restore
  <2>3. browser_state_valid' \in BOOLEAN /\ startup' \in BOOLEAN /\ opened' \in BOOLEAN
    BY <2>1, <2>2 DEF Flags, Loads, Under, IsPrefix
  <2>. QED BY <2>1, <2>3 DEF Flags
<1>4. CASE CoreBegins
  BY <1>4 DEF CoreBegins, restore, archive, Flags
<1>5. CASE Supervise
  BY <1>5, FlagsReset DEF Supervise, Gone, Flags
<1>6. CASE Reboot
  BY <1>6, FlagsReset DEF Reboot, Gone, Flags
<1>7. CASE Hotplug
  BY <1>7 DEF Hotplug, restore, archive, Flags
<1>8. CASE UNCHANGED vars
  BY <1>8 DEF vars, restore, archive, Flags
<1>. QED BY <1>1, <1>2, <1>3, <1>4, <1>5, <1>6, <1>7, <1>8 DEF Next

(* entries[] never overflows, nor do its users leave what the code knows   *)
(* as a name, a kind or a volume (scan_directory), for directories and     *)
(* sets of volumes of any size.                                            *)
THEOREM ListsStayInBounds == Spec => []TypeOK
<1>1. Init => Flags
  <2>. SUFFICES ASSUME Init PROVE Flags
    OBVIOUS
  <2>1. attempt \in 0 .. Attempts
    <3>1. attempt = 0
      BY DEF Init
    <3>. QED BY <3>1 DEF Attempts
  <2>2. payload \in File \cup {NoFile} /\ work \subseteq File
    BY DEF Init
  <2>3. browser_state_valid \in BOOLEAN /\ opened \in BOOLEAN /\ session \in BOOLEAN /\ startup \in BOOLEAN
    BY DEF Init
  <2>4. pc = "off"
    BY DEF Init
  <2>. QED BY <2>1, <2>2, <2>3, <2>4 DEF Flags
<1>2. Placed /\ Flags => TypeOK
  <2>. SUFFICES ASSUME Placed, Flags PROVE TypeOK
    OBVIOUS
  <2>1. entries \in Seq(Entry)
    <3>1. Listable \subseteq Entry /\ entries \in Seq(Listable)
      BY DEF Listable, Placed, Listing
    <3>. QED BY <3>1
  <2>. QED BY <2>1 DEF Placed, Paths, Listing, Selection, Flags, TypeOK
<1>. QED BY <1>1, <1>2, PlacedInit, PlacedStep, FlagsStep, PTL DEF Spec

(* The one index always names an item of what is shown, and the entry      *)
(* being launched is a file of the list (menu_move, launch_selected,       *)
(* select_startup_path).                                                   *)
THEOREM SelectionStays == Spec => []SelectionInRange
<1>1. Placed => SelectionInRange
  <2>. SUFFICES ASSUME Placed PROVE SelectionInRange
    OBVIOUS
  <2>1. Len(entries) \in Nat /\ selected \in Nat
    BY DEF Placed, Listing, Selection
  <2>2. selected < Len(entries) \/ selected = 0 => selected < Max({1, Len(entries)})
    <3>1. \E n \in {1, Len(entries)} : \A m \in {1, Len(entries)} : n >= m
      BY <2>1
    <3>2. Max({1, Len(entries)}) \in {1, Len(entries)}
          /\ \A m \in {1, Len(entries)} : Max({1, Len(entries)}) >= m
      BY <3>1 DEF Max
    <3>. DEFINE top == Max({1, Len(entries)})
    <3>3. top \in Nat /\ top >= 1 /\ top >= Len(entries)
      BY <2>1, <3>2
    <3>. HIDE DEF top
    <3>4. selected < Len(entries) \/ selected = 0 => selected < top
      BY <2>1, <3>3
    <3>. QED BY <3>4 DEF top
  <2>. QED BY <2>2 DEF Placed, Selection, SelectionInRange, Launching
<1>. QED BY <1>1, PlacedInit, PlacedStep, PTL DEF Spec

(* The library is never above the volumes, whichever come and go           *)
(* (parent_directory, select_startup_path, load_browser_state).            *)
THEOREM NeverAboveVolumes == Spec => []StaysOnVolumes
<1>1. Placed => StaysOnVolumes
  BY DEF Placed, Paths, StaysOnVolumes
<1>. QED BY <1>1, PlacedInit, PlacedStep, PTL DEF Spec

(* From any directory B leads towards the home menu (parent_directory).    *)
THEOREM BackAlwaysLeadsHome == Spec => []BackLeadsHome
<1>1. Placed => BackLeadsHome
  <2>. SUFFICES ASSUME Placed, Climb(current) > 0 PROVE Climb(Above) < Climb(current)
    BY DEF BackLeadsHome
  <2>1. current \in Path /\ Len(current) >= 2 /\ Len(current) \in Nat
    BY DEF Placed, Paths, Path
  <2>2. current \notin {Primary(roots), SD} /\ Climb(current) = Len(current)
    BY DEF Climb
  <2>3. Climb(Primary(roots)) = 0
    BY DEF Climb
  <2>4. Climb(Front(current)) \in {0, Len(Front(current))}
    BY DEF Climb
  <2>5. Len(Front(current)) = Len(current) - 1
    BY <2>1, FrontIsPath
  <2>6. Above \in {Primary(roots), Front(current)}
    BY DEF Above, Up
  <2>7. CASE Above = Primary(roots)
    BY <2>1, <2>2, <2>3, <2>7
  <2>8. CASE Above = Front(current)
    BY <2>1, <2>2, <2>4, <2>5, <2>8
  <2>. QED BY <2>6, <2>7, <2>8
<1>. QED BY <1>1, PlacedInit, PlacedStep, PTL DEF Spec

(* The bookmark stays with the directory and the entry until the library   *)
(* is opened: until then a browser that launches nothing by itself has     *)
(* loaded it, or refused it.                                               *)
Unopened == ~opened /\ auto = NoPath /\ pc \notin {"off", "core"}

Restoring ==
  Unopened =>
    /\ pc \in {"startup", "loop", "halt"} /\ view # "LIBRARY"
    /\ browser_state_valid = Loads
    /\ Loads => restore_entry = saved.name /\ (saved.dir # SD => current = saved.dir)

LEMMA RestoringKept ==
  ASSUME Restoring, UNCHANGED <<auto, current, restore, saved>>, pc \notin {"off", "core"},
         pc' \in {"startup", "loop", "halt"}, view' # "LIBRARY"
  PROVE  Restoring'
BY DEF Restoring, Unopened, restore, Loads

LEMMA RestoringStep == Placed /\ Restoring /\ [Next]_vars => Restoring'
<1>. SUFFICES ASSUME Placed, Restoring, [Next]_vars PROVE Restoring'
  OBVIOUS
(* Elsewhere there is nothing to restore.                                  *)
<1>a. ASSUME opened \/ auto # NoPath, auto' = auto, opened' = opened \/ pc' \in {"off", "core"}
      PROVE  Restoring'
  BY <1>a DEF Restoring, Unopened
<1>1. CASE Navigate
  <2>1. CASE HomeMove \/ Settings \/ SystemAction
    <3>1. UNCHANGED <<auto, current, restore, saved>>
      BY <2>1 DEF HomeMove, Settings, SystemAction, outside, browsing
    <3>2. pc = "loop" /\ pc' \in {"loop", "halt"} /\ view' # "LIBRARY"
      BY <2>1 DEF HomeMove, Settings, SystemAction, browsing
    <3>. QED BY <3>1, <3>2, RestoringKept
  <2>2. CASE OpenLibrary
    BY <2>2 DEF OpenLibrary, Restoring, Unopened
  <2>3. CASE LibraryMove \/ Parent \/ OpenDirectory \/ OpenFile
    <3>1. pc = "loop" /\ view = "LIBRARY" /\ UNCHANGED <<outside, restore>>
      BY <2>3 DEF LibraryMove, Parent, OpenDirectory, OpenFile
    <3>. QED BY <3>1, <1>a DEF Restoring, Unopened, outside, restore
  <2>. QED BY <1>1, <2>1, <2>2, <2>3 DEF Navigate
<1>2. CASE Launch
  <2>1. pc \in Launching /\ UNCHANGED outside
    BY <1>2 DEF Launch, LaunchFile, ChooseCore, Extract, ExtractFails, PickMember, Refused,
         ExecFails, Exec, Launching
  <2>2. opened' = opened \/ pc' = "core"
    BY <1>2 DEF Launch, LaunchFile, ChooseCore, Extract, ExtractFails, PickMember, Refused,
         ExecFails, Exec, Gone, restore
  <2>. QED BY <2>1, <2>2, <1>a DEF Restoring, Unopened, outside, Launching
<1>3. CASE Start
  <2>1. /\ browser_state_valid' = Loads /\ pc' = "startup" /\ view' = "HOME" /\ saved' = saved
        /\ Scan(IF Loads THEN saved.dir ELSE Primary(storage), storage)
        /\ restore_entry' = IF Loads THEN saved.name ELSE ""
    BY <1>3 DEF Start
  <2>2. ASSUME Loads, saved.dir # SD PROVE current' = saved.dir
    <3>1. Scan(saved.dir, storage)
      BY <2>1, <2>2
    <3>2. saved.dir \in Path /\ Len(saved.dir) >= 2 /\ storage \in Storages
      BY <2>2 DEF Loads, Placed, Paths
    <3>3. current' \in {saved.dir, Rebased(saved.dir, storage)}
      BY <3>1, <3>2, ScanPlaces
    <3>. QED BY <2>2, <3>3 DEF Rebased
  <2>3. Loads' <=> Loads
    BY <2>1 DEF Loads
  <2>4. browser_state_valid' = Loads'
    BY <2>1 DEF Loads
  <2>. QED BY <2>1, <2>2, <2>3, <2>4 DEF Restoring
<1>4. CASE StartupLaunch
  BY <1>4, <1>a DEF StartupLaunch, outside, restore
<1>5. CASE NoStartupLaunch
  <2>1. /\ UNCHANGED <<auto, current, restore, saved, view>>
        /\ pc = "startup" /\ pc' = "loop"
    BY <1>5 DEF NoStartupLaunch, outside, browsing
  <2>2. view # "LIBRARY"
    BY <1>5 DEF NoStartupLaunch, Placed, Selection
  <2>. QED BY <2>1, <2>2, RestoringKept
<1>6. CASE CoreBegins
  BY <1>6 DEF CoreBegins, Restoring, Unopened
<1>7. CASE Supervise \/ Reboot
  BY <1>7 DEF Supervise, Reboot, Restoring, Unopened
<1>8. CASE Hotplug
  <2>1. UNCHANGED <<auto, current, view, restore, saved, pc>>
    BY <1>8 DEF Hotplug, browsing
  <2>. QED BY <2>1 DEF restore, Restoring, Unopened, Loads
<1>9. CASE UNCHANGED vars
  <2>1. UNCHANGED <<auto, current, view, restore, saved, pc>>
    BY <1>9 DEF vars, outside, browsing
  <2>. QED BY <2>1 DEF restore, Restoring, Unopened, Loads
<1>. QED BY <1>1, <1>2, <1>3, <1>4, <1>5, <1>6, <1>7, <1>8, <1>9 DEF Next

(* Back from a game below SD_ROOT whose bookmark was written, a browser    *)
(* without auto_launch= opens the library in its directory, on its entry   *)
(* if that is still listed, whatever was plugged in or out in between and  *)
(* however the listing turned out (main, load_browser_state).              *)
THEOREM ReturnsToLastGame == Spec => ReturnsToGame
<1>1. Init => Restoring
  BY DEF Init, Restoring, Unopened
<1>2. ASSUME Placed, Restoring, OpenLibrary, ~opened, auto = NoPath, Under(saved.dir, SD)
      PROVE  /\ saved.dir # SD => current' = saved.dir
             /\ (\E i \in DOMAIN entries' : entries'[i].name = saved.name) =>
                  entries'[selected' + 1].name = saved.name
  <2>0. Loads /\ browser_state_valid
    <3>1. saved # NoEntry
      <4>1. Len(SD) <= Len(saved.dir) /\ Len(SD) = 2
        BY <1>2, PathAssumption DEF Under, IsPrefix
      <4>2. NoEntry.dir = <<>> /\ Len(<<>>) = 0
        BY DEF NoEntry, NoPath
      <4>3. saved = NoEntry => FALSE
        BY <4>1, <4>2
      <4>. QED BY <4>3
    <3>2. Loads
      BY <1>2, <3>1 DEF Loads
    <3>3. Unopened
      BY <1>2 DEF OpenLibrary, Unopened
    <3>. QED BY <1>2, <3>2, <3>3 DEF Restoring
  <2>1. /\ Scan(Rebased(current, storage), storage)
        /\ selected' = Position(entries', restore_entry)
    BY <1>2, <2>0 DEF OpenLibrary, Restored
  <2>2. /\ storage \in Storages /\ current \in Path /\ Len(current) >= 2
    BY <1>2 DEF Placed, Paths
  <2>3. /\ restore_entry = saved.name
        /\ saved.dir # SD => current = saved.dir
    BY <1>2, <2>0 DEF OpenLibrary, Restoring, Unopened
  <2>. DEFINE p == Rebased(current, storage)
  <2>4. p \in Path /\ Len(p) >= 2
    BY <2>2, RebasedIsPath
  <2>5. p = IF current = SD THEN Primary(storage) ELSE current
    BY DEF Rebased
  <2>6. Scan(p, storage)
    BY <2>1
  <2>. HIDE DEF p
  <2>7. Listing' /\ current' \in {p, Rebased(p, storage)}
    BY <2>2, <2>4, <2>6, ScanPlaces
  <2>8. saved.dir # SD => current' = saved.dir
    BY <2>3, <2>5, <2>7 DEF Rebased
  <2>9. (\E i \in DOMAIN entries' : entries'[i].name = saved.name) =>
          entries'[selected' + 1].name = saved.name
    BY <2>1, <2>3, <2>7, PositionIn DEF Listing
  <2>. QED BY <2>8, <2>9
<1>3. Placed /\ Restoring /\ [Next]_vars =>
        [OpenLibrary /\ ~opened /\ auto = NoPath /\ bookmarked /\ Under(saved.dir, SD) =>
          /\ saved.dir # SD => current' = saved.dir
          /\ (\E i \in DOMAIN entries' : entries'[i].name = saved.name) =>
               entries'[selected' + 1].name = saved.name]_vars
  BY <1>2
<1>. QED BY <1>1, <1>3, PlacedInit, PlacedStep, RestoringStep, PTL DEF Spec, ReturnsToGame
-----------------------------------------------------------------------------
(* The chords.                                                             *)

(* A latch stands for a chord that has acted and of which main() has seen  *)
(* no key let go since.                                                    *)
KeysInv ==
  /\ chord_latched \in [Chords -> BOOLEAN] /\ spent \in [Chords -> SUBSET ChordKeys]
  /\ \A c \in Chords : /\ spent[c] \subseteq Chord[c]
                       /\ spent[c] = Chord[c] => chord_latched[c]

LEMMA KeysStep == KeysInv /\ [KeysNext]_keyVars => KeysInv'
<1>. SUFFICES ASSUME KeysInv, [KeysNext]_keyVars PROVE KeysInv'
  OBVIOUS
<1>. USE DEF KeysInv
<1>0. \A c \in Chords : Chord[c] \subseteq ChordKeys /\ Chord[c] # {}
  BY DEF Chords, Chord, ChordKeys
<1>1. CASE Press
  <2>1. PICK key \in ChordKeys \ down :
          /\ chord_latched' = [c \in Chords |-> chord_latched[c] \/ c \in Taken(key)]
          /\ spent' = [c \in Chords |-> IF c \in Taken(key) THEN Chord[c] ELSE spent[c]]
    BY <1>1 DEF Press
  <2>2. chord_latched' \in [Chords -> BOOLEAN] /\ spent' \in [Chords -> SUBSET ChordKeys]
    BY <1>0, <2>1
  <2>3. ASSUME NEW c \in Chords, spent'[c] = Chord[c] PROVE chord_latched'[c]
    BY <2>1, <2>3
  <2>4. \A c \in Chords : spent'[c] \subseteq Chord[c]
    BY <2>1
  <2>. QED BY <2>2, <2>3, <2>4
<1>2. CASE LetGo
  <2>1. PICK key \in down :
          /\ chord_latched' = [c \in Chords |-> Unlatched(c, key)]
          /\ spent' = [c \in Chords |-> spent[c] \ {key}]
    BY <1>2 DEF LetGo
  <2>2. chord_latched' \in [Chords -> BOOLEAN] /\ spent' \in [Chords -> SUBSET ChordKeys]
    BY <2>1 DEF Unlatched
  <2>3. ASSUME NEW c \in Chords, spent'[c] = Chord[c] PROVE chord_latched'[c]
    <3>1. spent[c] \ {key} = Chord[c]
      BY <2>1, <2>3
    <3>2. CASE key \in Chord[c]
      BY <3>1, <3>2
    <3>3. CASE key \notin Chord[c]
      <4>1. spent[c] = Chord[c]
        BY <3>1, <3>3
      <4>. QED BY <2>1, <3>1, <3>3, <4>1 DEF Unlatched
    <3>. QED BY <3>2, <3>3
  <2>4. \A c \in Chords : spent'[c] \subseteq Chord[c]
    BY <2>1
  <2>. QED BY <2>2, <2>3, <2>4
<1>3. CASE Repeat \/ BeginLaunch \/ Elsewhere \/ LaunchReturns
  BY <1>3 DEF Repeat, BeginLaunch, Elsewhere, LaunchReturns
<1>4. CASE Relaunched
  <2>1. /\ chord_latched' = [c \in Chords |-> FALSE] /\ spent' = [c \in Chords |-> {}]
    BY <1>4 DEF Relaunched
  <2>. QED BY <1>0, <2>1
<1>5. CASE UNCHANGED keyVars
  BY <1>5 DEF keyVars
<1>. QED BY <1>1, <1>2, <1>3, <1>4, <1>5 DEF KeysNext

(* A chord acts again only once main() has seen one of its keys let go, in *)
(* any order of events and over any launches (main() of browser.c).        *)
THEOREM ActsOncePerHold == KeysSpec => ChordActsOnce
<1>1. KeysInit => KeysInv
  <2>1. \A c \in Chords : Chord[c] # {}
    BY DEF Chords, Chord
  <2>. QED BY <2>1 DEF KeysInit, KeysInv
<1>2. KeysInv => [Press => \A key \in down' \ down : \A c \in Taken(key) :
                              spent[c] # Chord[c]]_keyVars
  <2>. SUFFICES ASSUME KeysInv, Press, NEW key \in down' \ down, NEW c \in Taken(key)
                PROVE  spent[c] # Chord[c]
    OBVIOUS
  <2>1. c \in Chords /\ Acts(c, key)
    BY DEF Taken, Chords
  <2>. QED BY <2>1 DEF Acts, KeysInv
<1>. QED BY <1>1, <1>2, KeysStep, PTL DEF KeysSpec, ChordActsOnce
-----------------------------------------------------------------------------
(* The presenter.                                                          *)

(* Where the calls stand: the GE stays closed, the CPU writes only for a   *)
(* presenter without GE or for the second image of the diagnostic.         *)
UiPlaces ==
  /\ program \in {"browser", "runner"} /\ outstanding \in Nat
  /\ at \in {"idle", "present", "sync", "cpu", "returned"}
  /\ diagnostic \in [step : {"none", "ge", "cpu", "restore"}, have_ge : BOOLEAN]
  /\ at = "idle" => diagnostic.step = "none"
  /\ at \in {"present", "sync"} => diagnostic.step # "cpu"
  /\ at = "cpu" /\ program = "browser" /\ ge => diagnostic.step = "cpu"
  /\ diagnostic.step # "none" /\ ge => diagnostic.have_ge

Waited ==
  at = "sync" => /\ ge /\ source = picture
                 /\ outstanding > 0 \/ screen = [picture |-> picture, by |-> "GE"]

OnScreen ==
  at \in {"returned", "idle"} /\ written /\ ~stale =>
    /\ screen.picture = picture
    /\ program = "browser" /\ ge /\ diagnostic.step # "cpu" /\ screen # Nothing =>
         screen.by = "GE"

UiFlags == ge \in BOOLEAN /\ written \in BOOLEAN /\ stale \in BOOLEAN
UiInv   == UiFlags /\ UiPlaces /\ Waited /\ OnScreen

LEMMA UiStep == UiInv /\ [UiNext]_uiVars => UiInv'
<1>. SUFFICES ASSUME UiInv, [UiNext]_uiVars PROVE UiInv'
  OBVIOUS
<1>. USE DEF UiInv, UiFlags, UiPlaces, Waited, OnScreen
<1>1. CASE Draw
  BY <1>1 DEF Draw, hardware, capture
<1>2. CASE Blit
  BY <1>2 DEF Blit, capture
<1>3. CASE Synced
  <2>1. /\ ge' = ge /\ written' = TRUE /\ stale' = FALSE
        /\ at = "sync" /\ at' = "returned" /\ outstanding = 0
        /\ UNCHANGED <<program, picture, source, outstanding, screen, diagnostic>>
    BY <1>3 DEF Synced, Returns, hardware, capture
  <2>2. UiFlags'
    BY <2>1
  <2>3. UiPlaces'
    BY <2>1
  <2>4. Waited' /\ OnScreen'
    BY <2>1
  <2>. QED BY <2>2, <2>3, <2>4
<1>4. CASE PresentFails
  <2>1. /\ at \in {"present", "sync"} /\ at' = "cpu"
        /\ ge' \in BOOLEAN /\ outstanding' \in {0, outstanding}
        /\ program = "browser" => ~ge'
        /\ ge' => ge
        /\ UNCHANGED <<program, picture, written, stale, diagnostic>>
    BY <1>4 DEF PresentFails, Closed, AfterFailure, capture
  <2>2. UiFlags'
    BY <2>1
  <2>3. UiPlaces'
    BY <2>1
  <2>4. Waited' /\ OnScreen'
    BY <2>1
  <2>. QED BY <2>2, <2>3, <2>4
<1>5. CASE WithoutGE
  BY <1>5 DEF WithoutGE, hardware, capture
<1>6. CASE WriteCpu
  <2>1. /\ at = "cpu" /\ at' = "returned"
        /\ UNCHANGED <<program, ge, picture, source, outstanding, diagnostic>>
    BY <1>6 DEF WriteCpu, Returns, capture
  <2>2. /\ written' \in BOOLEAN /\ stale' \in BOOLEAN
        /\ written' => screen' = [picture |-> picture, by |-> "CPU"]
    BY <1>6 DEF WriteCpu, Returns
  <2>3. UiFlags'
    BY <2>1, <2>2
  <2>4. UiPlaces'
    BY <2>1
  <2>5. Waited' /\ OnScreen'
    BY <2>1, <2>2
  <2>. QED BY <2>3, <2>4, <2>5
<1>7. CASE PresentReturns
  BY <1>7 DEF PresentReturns, hardware, capture
<1>8. CASE CloseAndLaunch
  <2>1. /\ at = "idle" /\ ge' \in BOOLEAN /\ ~ge'
        /\ outstanding' \in {0, outstanding}
        /\ UNCHANGED <<program, picture, at, written, stale, diagnostic, screen>>
    BY <1>8 DEF CloseAndLaunch, Closed, capture
  <2>2. UiFlags'
    BY <2>1
  <2>3. UiPlaces'
    BY <2>1
  <2>4. Waited' /\ OnScreen'
    BY <2>1
  <2>. QED BY <2>2, <2>3, <2>4
<1>9. CASE BeginCapture
  BY <1>9 DEF BeginCapture, hardware
<1>10. CASE CaptureGE
  BY <1>10 DEF CaptureGE, Read, Step, hardware
<1>11. CASE CaptureCPU
  BY <1>11 DEF CaptureCPU, Read, Step, Restore, Restores, hardware
<1>12. CASE CaptureFails
  BY <1>12 DEF CaptureFails, Step, Restore, Restores, hardware
<1>13. CASE EndCapture
  BY <1>13 DEF EndCapture, hardware
<1>14. CASE Engine
  BY <1>14 DEF Engine, capture
<1>15. CASE UNCHANGED uiVars
  BY <1>15 DEF uiVars, hardware, capture
<1>. QED BY <1>1, <1>2, <1>3, <1>4, <1>5, <1>6, <1>7, <1>8, <1>9, <1>10, <1>11,
            <1>12, <1>13, <1>14, <1>15 DEF UiNext

(* What write_frame() reports written is on the screen, and it is the GE's *)
(* work in a browser that has its GE, after a diagnostic included.         *)
THEOREM ScreenIsCurrent == UiSpec => []ScreenCurrent
<1>1. ASSUME UiInit PROVE UiInv
  <2>1. UiFlags
    BY <1>1 DEF UiInit, UiFlags
  <2>2. /\ program \in {"browser", "runner"} /\ outstanding = 0 /\ at = "idle"
        /\ picture = 0 /\ screen = Nothing
        /\ diagnostic = [step |-> "none", have_ge |-> FALSE]
    BY <1>1 DEF UiInit
  <2>3. UiPlaces /\ Waited
    BY <2>2 DEF UiPlaces, Waited
  <2>4. OnScreen
    BY <2>2 DEF OnScreen, Nothing
  <2>. QED BY <2>1, <2>3, <2>4 DEF UiInv
<1>2. UiInv => ScreenCurrent
  BY DEF UiInv, UiPlaces, OnScreen, ScreenCurrent
<1>. QED BY <1>1, <1>2, UiStep, PTL DEF UiSpec
=============================================================================
