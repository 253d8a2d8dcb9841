-------------------------- MODULE ReleaseWizardProofs --------------------------
(***************************************************************************)
(* Proofs about the phases of a guided release, for every number of kills, *)
(* errors, power failures and abandoned releases.                          *)
(*                                                                         *)
(* That a phase on disk is backed by its work is not inductive: a power    *)
(* failure may bring back a directory with a replacement of the state that *)
(* the wizard takes for a later state, and may lose what was written and   *)
(* not synced.  So the invariant also says what every version's            *)
(* replacement promises, that a file is unsynced where a phase rests on it *)
(* only if a run took it over, and what each step of a save knows of the   *)
(* directory it sees.                                                      *)
(***************************************************************************)
EXTENDS ReleaseWizard, TLAPS

Content   == {Absent, Partial, Whole}
Directory == [ primary   : ReleasePhase \cup {Absent, Partial},
               next      : ReleasePhase \cup {Absent, Partial},
               candidate : Content,
               loose     : SUBSET {"primary", "next", "candidate"} ]

\* The places of the driver with a release in its hands, and those of a save.
Saving  == {"save", "write", "flush", "install"}
Driving == {"settle", "resume", "work", "assemble", "assembled"}

WizardTyped ==
    /\ journal \in Seq(Directory)
    /\ made \subseteq ReleasePhase
    /\ evidence \in BOOLEAN /\ mode \in {"dry_run", "publish_capable"}
    /\ remote \subseteq {"tag", "draft", "public"}
    /\ pc \in {"idle", "list", "choose", "create", "sync"} \cup Saving \cup Driving
    /\ resumed \in BOOLEAN /\ phase \in ReleasePhase
    /\ saved \in ReleasePhase \cup {NoPhase}
    /\ borrowed \subseteq {"primary", "candidate"}
    /\ outages \in Nat

\* The candidate is complete and on the disk, unless a run took it over unsynced.
Kept(dir) ==
    \/ dir.candidate = Whole /\ "candidate" \notin dir.loose
    \/ "candidate" \in borrowed

\* The work of every phase before this one is done, its candidate is in dir.
BackedIn(dir, rank) ==
    \A earlier \in 0..(rank - 1) :
       IF earlier = Acquired THEN Kept(dir) ELSE earlier \in made

\* A version that may survive: what its state names is backed, and so is what
\* its replacement names; its state can be lost only if it was taken over.
Sound(dir) ==
    /\ dir.primary \in Int => BackedIn(dir, dir.primary)
    /\ dir.next \in Int => BackedIn(dir, dir.next)
    /\ dir.primary = Partial \/ "primary" \in dir.loose => "primary" \in borrowed
    /\ saved # NoPhase /\ dir.primary # Partial => dir.primary \in saved..Published

Versions == \A dir \in ToSet(journal) : Sound(dir)

\* A save is of the phase after the one in place, or of the imported one again.
SaveOf(primary) ==
    \/ primary = Absent /\ phase = Planned
    \/ primary \in ReleasePhase /\ phase = primary + 1
    \/ primary = phase /\ phase = AwaitingQualification + 1

\* What a step of the running wizard knows of the directory it sees.
Place ==
    /\ pc \in Saving \cup Driving \cup {"choose", "sync"} => Exists
    /\ pc \in Driving \cup {"choose"} => Dir.primary = phase /\ Dir.next = Absent
    /\ pc \in {"assemble", "assembled"} => phase = Acquired
    /\ pc = "assembled" => Dir.candidate = Whole
    /\ pc \in Saving => SaveOf(Dir.primary) /\ BackedIn(Dir, phase)
    /\ pc = "save" => Dir.next = Absent
    /\ pc \in {"flush", "install"} => Dir.next = phase
    /\ pc = "install" => "next" \notin Dir.loose
    /\ pc = "sync" => Dir.primary = phase /\ Dir.next = Absent
    /\ pc \in Saving \cup {"sync"} => saves \in {1, 2} /\ (saves = 2 => phase = AwaitingQualification + 1)
    /\ saved # NoPhase => Exists

\* Until the power fails, what GitHub has seen of the release is in the state.
Seen == outages = 0 /\ remote # {} => Exists /\ Dir.primary \in LocalStaged..Published

WizardInv == WizardTyped /\ Versions /\ Place /\ Seen

-----------------------------------------------------------------------------
(* The journal of the release directory                                    *)

LEMMA ChangedVersions ==
    ASSUME journal \in Seq(Directory), NEW dir \in Directory, Change(dir)
    PROVE  /\ journal' \in Seq(Directory) /\ Exists' /\ Dir' = dir
           /\ ToSet(journal') \subseteq ToSet(journal) \cup {dir}
  BY DEF Change, Exists, Dir, Last, ToSet, NoDirectory

LEMMA AmendedVersions ==
    ASSUME journal \in Seq(Directory), Exists, NEW dir \in Directory, Amend(dir)
    PROVE  /\ journal' \in Seq(Directory) /\ Exists' /\ Dir' = dir
           /\ ToSet(journal') \subseteq ToSet(journal) \cup {dir}
  <1>1. Len(journal) \in 1..Len(journal)
    BY DEF Exists, NoDirectory
  <1>2. /\ DOMAIN journal' = 1..Len(journal) /\ journal'[Len(journal)] = dir
        /\ \A i \in 1..Len(journal) : journal'[i] = dir \/ journal'[i] = journal[i]
    BY <1>1 DEF Amend
  <1>3. journal' \in Seq(Directory) /\ Len(journal') = Len(journal)
    BY <1>1 DEF Amend
  <1>4. Exists' /\ Dir' = dir
    BY <1>1, <1>2, <1>3 DEF Exists, Dir, Last, NoDirectory
  <1>5. QED
    BY <1>2, <1>3, <1>4 DEF ToSet

LEMMA SyncedVersions ==
    ASSUME NEW dir \in Directory, ChangeSync(dir)
    PROVE  /\ journal' \in Seq(Directory) /\ Exists' /\ Dir' = dir
           /\ ToSet(journal') = {dir}
  BY DEF ChangeSync, Exists, Dir, Last, ToSet, NoDirectory

LEMMA SeenVersion ==
    ASSUME journal \in Seq(Directory), Exists
    PROVE  Dir \in Directory /\ Dir \in ToSet(journal)
  BY DEF Exists, Dir, Last, ToSet, NoDirectory

LEMMA VersionsTyped ==
    ASSUME journal \in Seq(Directory), NEW dir \in ToSet(journal)
    PROVE  dir \in Directory
  BY DEF ToSet

\* More work done, or more taken over, takes nothing away from what is backed.
LEMMA MoreIsMade ==
    ASSUME made \subseteq made', "candidate" \in borrowed => "candidate" \in borrowed',
           NEW dir, NEW rank, BackedIn(dir, rank)
    PROVE  BackedIn(dir, rank)'
  BY DEF BackedIn, Kept

LEMMA MoreIsSound ==
    ASSUME made \subseteq made', borrowed \subseteq borrowed', UNCHANGED saved,
           NEW dir, Sound(dir)
    PROVE  Sound(dir)'
  BY MoreIsMade DEF Sound

LEMMA VersionsStay ==
    ASSUME Versions, UNCHANGED <<journal, saved>>, made \subseteq made',
           borrowed \subseteq borrowed'
    PROVE  Versions'
  BY MoreIsSound DEF Versions

LEMMA VersionsGrow ==
    ASSUME Versions, UNCHANGED saved, made \subseteq made', borrowed \subseteq borrowed',
           NEW dir, Sound(dir)', ToSet(journal') \subseteq ToSet(journal) \cup {dir}
    PROVE  Versions'
  BY MoreIsSound DEF Versions

\* What a power failure makes of any version is a sound one as well.
LEMMA SurvivorIsSound ==
    ASSUME WizardTyped, Versions, NEW dir \in Survivors
    PROVE  dir \in Directory /\ Sound(dir) /\ dir.loose = {}
  <1> PICK was \in ToSet(journal) : \E lost \in SUBSET was.loose : dir = Torn(was, lost)
    BY DEF Survivors, Remains
  <1> PICK lost \in SUBSET was.loose : dir = Torn(was, lost)
    OBVIOUS
  <1>1. was \in Directory /\ Sound(was)
    BY VersionsTyped DEF WizardTyped, Versions
  <1>2. /\ dir.primary = IF "primary" \in lost THEN Partial ELSE was.primary
        /\ dir.next = IF "next" \in lost THEN Partial ELSE was.next
        /\ dir.candidate = IF "candidate" \in lost THEN Partial ELSE was.candidate
        /\ dir.loose = {}
    BY DEF Torn
  <1>3. dir \in Directory
    BY <1>1 DEF Torn, Directory, Content
  <1>4. Kept(was) => Kept(dir)
    BY <1>2 DEF Kept
  <1>5. \A rank : BackedIn(was, rank) => BackedIn(dir, rank)
    BY <1>4 DEF BackedIn
  <1>6. dir.primary \in Int => BackedIn(dir, dir.primary)
    BY <1>1, <1>2, <1>5, PathsAssumption DEF Sound
  <1>7. dir.next \in Int => BackedIn(dir, dir.next)
    BY <1>1, <1>2, <1>5, PathsAssumption DEF Sound
  <1>8. dir.primary = Partial \/ "primary" \in dir.loose => "primary" \in borrowed
    BY <1>1, <1>2 DEF Sound
  <1>9. saved # NoPhase /\ dir.primary # Partial => dir.primary \in saved..Published
    BY <1>1, <1>2 DEF Sound
  <1>10. QED
    BY <1>2, <1>3, <1>6, <1>7, <1>8, <1>9 DEF Sound

\* A step that leaves journal, phase and place of a save alone, and ends the
\* run or goes on where nothing is assumed.
LEMMA WizardLeaves ==
    ASSUME WizardInv, Leave, UNCHANGED <<journal, hist, mode, outages>>, evidence' \in BOOLEAN,
           made \subseteq made', made' \subseteq ReleasePhase, remote' = remote
    PROVE  WizardInv'
  <1> UNCHANGED <<saved, borrowed>>
    BY DEF hist
  <1>1. Versions'
    BY VersionsStay DEF WizardInv
  <1>2. WizardTyped'
    <2>1. pc' = "idle" /\ resumed' \in BOOLEAN
      BY DEF Leave
    <2>2. phase' \in ReleasePhase
      BY DEF Leave, ReleasePhase, Planned, Published
    <2>3. QED
      BY <2>1, <2>2 DEF WizardInv, WizardTyped
  <1>3. Place'
    BY DEF WizardInv, Place, Leave, Saving, Driving, Exists
  <1>4. Seen'
    BY DEF WizardInv, Seen, Exists, Dir
  <1>5. QED
    BY <1>1, <1>2, <1>3, <1>4 DEF WizardInv

LEMMA InitWizard == Init => WizardInv
  <1> SUFFICES ASSUME Init PROVE WizardInv
    OBVIOUS
  <1>1. WizardTyped
    <2>1. journal \in Seq(Directory)
      BY DEF Init, NoDirectory
    <2>2. phase \in ReleasePhase /\ outages \in Nat
      BY DEF Init, ReleasePhase, Planned, Published
    <2>3. QED
      BY <2>1, <2>2 DEF Init, WizardTyped
  <1>2. Versions
    BY DEF Init, Versions, NoDirectory, ToSet
  <1>3. Place /\ Seen
    BY DEF Init, Place, Seen, Saving, Driving
  <1>4. QED
    BY <1>1, <1>2, <1>3 DEF WizardInv
-----------------------------------------------------------------------------
(* Choosing the release                                                    *)

\* A step that only moves the run, to where the directory is as it was.
LEMMA WizardMoves ==
    ASSUME WizardInv, UNCHANGED <<disk, remote, hist, outages>>, Place',
           pc' \in {"list", "create", "choose", "resume", "work"},
           resumed' \in BOOLEAN, phase' \in ReleasePhase
    PROVE  WizardInv'
  <1> UNCHANGED <<journal, made, evidence, mode, saved, borrowed>>
    BY DEF disk, hist
  <1>1. Versions'
    BY VersionsStay DEF WizardInv
  <1>2. WizardTyped'
    BY DEF WizardInv, WizardTyped, Driving
  <1>3. Seen'
    BY DEF WizardInv, Seen, Exists, Dir
  <1>4. QED
    BY <1>1, <1>2, <1>3 DEF WizardInv

\* Place holds for itself where nothing is assumed.
LEMMA NowherePlace ==
    ASSUME WizardInv, UNCHANGED <<journal, hist>>, pc' \in {"idle", "list", "create"}
    PROVE  Place'
  BY DEF WizardInv, Place, Saving, Driving, Exists, hist

LEMMA WizardStarts ==
    ASSUME WizardInv, NEW command, Start(command)
    PROVE  WizardInv'
  <1>1. Place'
    BY NowherePlace DEF Start, disk
  <1>2. QED
    BY <1>1, WizardMoves DEF Start, WizardInv, WizardTyped

LEMMA WizardLists ==
    ASSUME WizardInv, ListNothing \/ ListRefuses \/ ChooseResume
    PROVE  WizardInv'
  <1>1. CASE Leave /\ UNCHANGED <<disk, remote, hist, outages>>
    BY <1>1, WizardLeaves DEF disk, WizardInv, WizardTyped
  <1>2. CASE /\ pc' \in {"list", "create"} /\ resumed' \in BOOLEAN /\ UNCHANGED phase
             /\ UNCHANGED <<disk, remote, hist, outages>>
    <2>1. Place'
      BY <1>2, NowherePlace DEF disk
    <2>2. QED
      BY <1>2, <2>1, WizardMoves DEF WizardInv, WizardTyped
  <1>3. QED
    BY <1>1, <1>2 DEF ListNothing, ListRefuses, ChooseResume, Goto, WizardInv, WizardTyped

\* What WizardState::load makes of a version: a directory whose state is backed
\* and not older, and is unsynced only if the replacement was.
LEMMA LoadedVersion ==
    ASSUME WizardInv, NEW dir \in ToSet(journal), dir.primary \in Int
    PROVE  /\ Load(dir) \in Directory /\ Load(dir).next = Absent
           /\ Load(dir).primary \in ReleasePhase /\ Load(dir).primary >= dir.primary
           /\ BackedIn(Load(dir), Load(dir).primary)
           /\ saved # NoPhase => Load(dir).primary \in saved..Published
  <1>1. dir \in Directory /\ Sound(dir)
    BY VersionsTyped DEF WizardInv, WizardTyped, Versions
  <1>2. /\ dir.primary \in ReleasePhase /\ dir.next \in ReleasePhase \cup {Absent, Partial}
        /\ dir.primary # Partial /\ dir.loose \subseteq {"primary", "next", "candidate"}
    BY <1>1, PathsAssumption DEF Directory
  <1> DEFINE takes == dir.next \in Int /\ dir.next >= dir.primary
             primary == IF takes THEN dir.next ELSE dir.primary
             loose == IF takes THEN Installed(dir).loose ELSE Removed(dir).loose
  <1>3. primary \in ReleasePhase /\ primary >= dir.primary
    BY <1>2, PathsAssumption DEF ReleasePhase, Planned, Published
  <1>4. BackedIn(dir, primary)
    BY <1>1 DEF Sound
  <1>5. saved # NoPhase => primary \in saved..Published
    BY <1>1, <1>2, <1>3 DEF ReleasePhase, Planned, Published, WizardInv, WizardTyped, Sound
  <1>6. loose \subseteq {"primary", "next", "candidate"} /\ ("candidate" \in loose => "candidate" \in dir.loose)
    BY <1>1, <1>2 DEF Installed, Removed, Directory
  <1>7. Load(dir) = [dir EXCEPT !.primary = primary, !.next = Absent, !.loose = loose]
    BY <1>1 DEF Load, Installed, Removed, Directory
  <1> HIDE DEF primary, loose
  <1>8. /\ Load(dir) \in Directory /\ Load(dir).next = Absent /\ Load(dir).primary = primary
        /\ Load(dir).candidate = dir.candidate /\ Load(dir).loose = loose
    BY <1>1, <1>3, <1>6, <1>7 DEF Directory
  <1>9. BackedIn(Load(dir), primary)
    BY <1>4, <1>6, <1>8 DEF BackedIn, Kept
  <1>10. QED
    BY <1>3, <1>5, <1>8, <1>9

LEMMA WizardLoads ==
    ASSUME WizardInv, List
    PROVE  WizardInv'
  <1> PICK loaded : loaded = Load(Dir)
    OBVIOUS
  <1>1. Exists /\ Dir.primary \in Int /\ Dir \in ToSet(journal) /\ Dir \in Directory
    BY SeenVersion DEF List, WizardInv, WizardTyped
  <1>2. /\ loaded \in Directory /\ loaded.next = Absent
        /\ loaded.primary \in ReleasePhase /\ loaded.primary >= Dir.primary
        /\ BackedIn(loaded, loaded.primary)
        /\ saved # NoPhase => loaded.primary \in saved..Published
    BY <1>1, LoadedVersion
  <1>3. phase' = loaded.primary /\ UNCHANGED <<resumed, saves, made, evidence, mode, remote, saved, outages>>
    BY DEF List
  <1>4. CASE Dir.next = Absent
    <2>1. Dir.primary = loaded.primary
      BY <1>4, PathsAssumption DEF Load, Removed
    <2>2. pc' \in {"resume", "choose"} /\ UNCHANGED <<journal, borrowed>>
      BY <1>4 DEF List, Chosen
    <2>3. Exists' /\ Dir' = Dir
      BY <1>1, <2>2 DEF Exists, Dir
    <2>4. Place'
      BY <1>3, <1>4, <2>1, <2>2, <2>3 DEF Place, Saving, Driving
    <2>5. phase' \in ReleasePhase /\ resumed' \in BOOLEAN
      BY <1>2, <1>3 DEF WizardInv, WizardTyped
    <2>6. QED
      BY <1>3, <2>2, <2>4, <2>5, WizardMoves DEF disk, hist
  <1>5. CASE Dir.next # Absent
    <2>1. pc' = "settle" /\ Change(loaded) /\ borrowed' = borrowed \cup ({"primary"} \cap loaded.loose)
      BY <1>5 DEF List, Borrow
    <2>2. /\ journal' \in Seq(Directory) /\ Exists' /\ Dir' = loaded
          /\ ToSet(journal') \subseteq ToSet(journal) \cup {loaded}
      BY <1>2, <2>1, ChangedVersions DEF WizardInv, WizardTyped
    <2>3. Sound(loaded)'
      <3>1. BackedIn(loaded, loaded.primary)'
        BY <1>2, <1>3, <2>1, MoreIsMade
      <3>2. loaded.primary # Partial
        BY <1>2, PathsAssumption DEF ReleasePhase, Planned, Published
      <3>3. QED
        BY <1>2, <1>3, <2>1, <3>1, <3>2, PathsAssumption DEF Sound
    <2>4. Versions'
      BY <1>3, <2>1, <2>2, <2>3, VersionsGrow DEF WizardInv
    <2>5. WizardTyped'
      BY <1>2, <1>3, <2>1, <2>2 DEF WizardInv, WizardTyped, Driving
    <2>6. Place'
      BY <1>2, <1>3, <2>1, <2>2 DEF Place, Saving, Driving
    <2>7. Seen'
      BY <1>1, <1>2, <1>3, <2>2 DEF WizardInv, Seen, LocalStaged, Published, ReleasePhase, Planned
    <2>8. QED
      BY <2>4, <2>5, <2>6, <2>7 DEF WizardInv
  <1>6. QED
    BY <1>4, <1>5

\* Where only the version that programs see is left, as it is.
LEMMA VersionIsLeft ==
    ASSUME WizardInv, Exists, ChangeSync(Dir), UNCHANGED <<made, hist>>
    PROVE  journal' \in Seq(Directory) /\ Exists' /\ Dir' = Dir /\ Versions'
  <1>1. Dir \in Directory /\ Dir \in ToSet(journal)
    BY SeenVersion DEF WizardInv, WizardTyped
  <1>2. /\ journal' \in Seq(Directory) /\ Exists' /\ Dir' = Dir
        /\ ToSet(journal') = {Dir}
    BY <1>1, SyncedVersions
  <1>3. Sound(Dir)'
    BY <1>1, <1>2 DEF WizardInv, Versions, Sound, BackedIn, Kept, hist
  <1>4. QED
    BY <1>2, <1>3 DEF Versions

LEMMA WizardSettles ==
    ASSUME WizardInv, ListSettle
    PROVE  WizardInv'
  <1>1. /\ ChangeSync(Dir) /\ pc' \in {"resume", "choose"}
        /\ UNCHANGED <<resumed, phase, saves, made, evidence, mode, remote, hist, outages>>
    BY DEF ListSettle, Goto, Chosen
  <1>2. Exists /\ Dir.primary = phase /\ Dir.next = Absent
    BY DEF ListSettle, WizardInv, Place, Driving
  <1>3. journal' \in Seq(Directory) /\ Exists' /\ Dir' = Dir /\ Versions'
    BY <1>1, <1>2, VersionIsLeft
  <1>4. WizardTyped'
    BY <1>1, <1>3 DEF WizardInv, WizardTyped, Driving, hist
  <1>5. Place'
    BY <1>1, <1>2, <1>3 DEF WizardInv, Place, Saving, Driving, hist
  <1>6. Seen'
    BY <1>1, <1>2, <1>3 DEF WizardInv, Seen
  <1>7. QED
    BY <1>3, <1>4, <1>5, <1>6 DEF WizardInv

LEMMA WizardStartsNew ==
    ASSUME WizardInv, ChooseStartNew
    PROVE  WizardInv'
  <1>1. CASE Archivable(phase)
    <2>1. /\ journal' = NoDirectory /\ made' = {} /\ saved' = NoPhase /\ borrowed' = {}
          /\ pc' = "list" /\ UNCHANGED <<resumed, phase, saves, evidence, mode, remote, outages>>
      BY <1>1 DEF ChooseStartNew, Goto
    <2>2. outages = 0 => remote = {}
      <3>1. Dir.primary = phase /\ phase \in Int /\ phase <= Qualified
        BY <1>1 DEF ChooseStartNew, WizardInv, Place, WizardTyped, ReleasePhase, Planned, Published,
                   Archivable
      <3>2. QED
        BY <3>1 DEF WizardInv, Seen, LocalStaged, Published, Qualified
    <2>3. WizardTyped'
      <3>1. journal' \in Seq(Directory)
        BY <2>1 DEF NoDirectory
      <3>2. QED
        BY <2>1, <3>1 DEF WizardInv, WizardTyped
    <2>4. Versions'
      BY <2>1 DEF Versions, NoDirectory, ToSet
    <2>5. Place' /\ Seen'
      BY <2>1, <2>2 DEF Place, Seen, Saving, Driving
    <2>6. QED
      BY <2>3, <2>4, <2>5 DEF WizardInv
  <1>2. CASE ~Archivable(phase)
    BY <1>2, WizardLeaves DEF ChooseStartNew, WizardInv, WizardTyped
  <1>3. QED
    BY <1>1, <1>2

LEMMA WizardResumes ==
    ASSUME WizardInv, ResumeCheck
    PROVE  WizardInv'
  <1>1. CASE Leave
    BY <1>1, WizardLeaves DEF ResumeCheck, disk, WizardInv, WizardTyped
  <1>2. CASE Goto("work")
    <2>1. pc = "resume" /\ UNCHANGED <<disk, remote, hist, outages>>
      BY DEF ResumeCheck
    <2>2. Place'
      BY <1>2, <2>1 DEF WizardInv, Place, Goto, Saving, Driving, Exists, Dir, disk, hist
    <2>3. QED
      BY <1>2, <2>1, <2>2, WizardMoves DEF Goto, WizardInv, WizardTyped
  <1>3. QED
    BY <1>1, <1>2 DEF ResumeCheck

LEMMA WizardCreates ==
    ASSUME WizardInv, Create
    PROVE  WizardInv'
  <1>1. CASE Reconciles /\ ~Exists
    <2>1. /\ mode' \in {"dry_run", "publish_capable"} /\ ChangeSync(EmptyDir)
          /\ pc' = "save" /\ phase' = Planned /\ saves' = 1
          /\ UNCHANGED <<resumed, made, evidence, remote, saved, borrowed, outages>>
      BY <1>1 DEF Create, hist
    <2>2. EmptyDir \in Directory
      BY DEF EmptyDir, Directory, Content
    <2>3. /\ journal' \in Seq(Directory) /\ Exists' /\ Dir' = EmptyDir
          /\ ToSet(journal') = {EmptyDir}
      BY <2>1, <2>2, SyncedVersions
    <2>4. saved = NoPhase /\ (outages = 0 => remote = {})
      BY <1>1 DEF WizardInv, Place, Seen
    <2>5. WizardTyped'
      <3>1. phase' \in ReleasePhase
        BY <2>1 DEF ReleasePhase, Planned, Published
      <3>2. QED
        BY <2>1, <2>3, <3>1 DEF WizardInv, WizardTyped, Saving
    <2>6. Versions'
      BY <2>1, <2>3, <2>4, PathsAssumption DEF Versions, Sound, EmptyDir
    <2>7. SaveOf(Absent)' /\ BackedIn(EmptyDir, Planned)'
      BY <2>1 DEF SaveOf, BackedIn, Planned
    <2>8. Place'
      BY <2>1, <2>3, <2>4, <2>7 DEF Place, Saving, Driving, EmptyDir
    <2>9. Seen'
      BY <2>1, <2>4 DEF Seen
    <2>10. QED
      BY <2>5, <2>6, <2>8, <2>9 DEF WizardInv
  <1>2. CASE ~(Reconciles /\ ~Exists)
    BY <1>2, WizardLeaves DEF Create, WizardInv, WizardTyped
  <1>3. QED
    BY <1>1, <1>2
-----------------------------------------------------------------------------
(* WizardState::save                                                       *)

\* A save that gets through sees a new phase only behind its work.
LEMMA SaveRanks ==
    ASSUME WizardInv, pc \in Saving
    PROVE  /\ Exists /\ Dir \in Directory /\ Dir \in ToSet(journal) /\ Sound(Dir)
           /\ SaveOf(Dir.primary) /\ BackedIn(Dir, phase) /\ phase \in ReleasePhase
           /\ saved # NoPhase => phase \in saved..Published
           /\ Dir.primary = Absent \/ (Dir.primary \in ReleasePhase /\ phase >= Dir.primary)
  <1>1. /\ Exists /\ SaveOf(Dir.primary) /\ BackedIn(Dir, phase) /\ phase \in ReleasePhase
        /\ Dir \in Directory /\ Dir \in ToSet(journal)
    BY SeenVersion DEF WizardInv, Place, WizardTyped
  <1>2. Sound(Dir)
    BY <1>1 DEF WizardInv, Versions
  <1>3. Dir.primary = Absent \/ (Dir.primary \in ReleasePhase /\ phase >= Dir.primary)
    BY <1>1 DEF SaveOf, ReleasePhase, Planned, Published
  <1>4. Dir.primary # Partial
    BY <1>3, PathsAssumption DEF ReleasePhase, Planned, Published
  <1>5. saved # NoPhase => phase \in saved..Published
    BY <1>1, <1>2, <1>3, <1>4, PathsAssumption
       DEF ReleasePhase, Planned, Published, WizardInv, WizardTyped, Sound
  <1>6. QED
    BY <1>1, <1>2, <1>3, <1>5

\* A version that differs from a sound one in its replacement only, which is
\* of a backed phase, half written or not there.
LEMMA ReplacementIsSound ==
    ASSUME NEW was, NEW dir, Sound(was), dir.primary = was.primary,
           dir.candidate = was.candidate,
           "primary" \in dir.loose => "primary" \in was.loose,
           "candidate" \in dir.loose => "candidate" \in was.loose,
           dir.next \in Int => BackedIn(was, dir.next)
    PROVE  Sound(dir)
  <1>1. \A rank : BackedIn(was, rank) => BackedIn(dir, rank)
    BY DEF BackedIn, Kept
  <1>2. QED
    BY <1>1 DEF Sound

\* A step of a save that changes the replacement in the version that is seen.
LEMMA SaveSteps ==
    ASSUME WizardInv, pc \in Saving, NEW dir \in Directory, Change(dir) \/ Amend(dir),
           dir.primary = Dir.primary, dir.candidate = Dir.candidate,
           "primary" \in dir.loose => "primary" \in Dir.loose,
           "candidate" \in dir.loose => "candidate" \in Dir.loose,
           dir.next \in {Absent, Partial, phase},
           UNCHANGED <<made, evidence, mode, remote, hist, outages>>
    PROVE  /\ journal' \in Seq(Directory) /\ Exists' /\ Dir' = dir
           /\ Versions' /\ Seen'
           /\ UNCHANGED phase => SaveOf(Dir.primary)' /\ BackedIn(Dir, phase)'
  <1>1. /\ Exists /\ Dir \in ToSet(journal) /\ Sound(Dir)
        /\ SaveOf(Dir.primary) /\ BackedIn(Dir, phase)
    BY SaveRanks
  <1>2. /\ journal' \in Seq(Directory) /\ Exists' /\ Dir' = dir
        /\ ToSet(journal') \subseteq ToSet(journal) \cup {dir}
    BY <1>1, ChangedVersions, AmendedVersions DEF WizardInv, WizardTyped
  <1>3. UNCHANGED <<saved, borrowed, made>>
    BY DEF hist
  <1>4. Sound(dir)
    <2>1. dir.next \in Int => BackedIn(Dir, dir.next)
      BY <1>1, PathsAssumption
    <2>2. QED
      BY <1>1, <2>1, ReplacementIsSound
  <1>5. Sound(dir)'
    BY <1>3, <1>4, MoreIsSound
  <1>6. Versions'
    BY <1>2, <1>3, <1>5, VersionsGrow DEF WizardInv
  <1>7. Seen'
    BY <1>2 DEF WizardInv, Seen
  <1>8. UNCHANGED phase => SaveOf(Dir.primary)' /\ BackedIn(Dir, phase)'
    BY <1>1, <1>2, <1>3 DEF SaveOf, BackedIn, Kept
  <1>9. QED
    BY <1>2, <1>6, <1>7, <1>8

LEMMA WizardSaveCreates ==
    ASSUME WizardInv, SaveCreate
    PROVE  WizardInv'
  <1> PICK dir : dir = [Removed(Dir) EXCEPT !.next = Partial]
    OBVIOUS
  <1>1. pc = "save" /\ Dir.next = Absent /\ phase \in ReleasePhase /\ Dir \in Directory
    BY SaveRanks DEF SaveCreate, WizardInv, Place, Saving
  <1>2. /\ pc' = "write" /\ Change(dir)
        /\ UNCHANGED <<resumed, phase, saves, made, evidence, mode, remote, hist, outages>>
    <2>1. Dir.next # phase
      BY <1>1, PathsAssumption DEF ReleasePhase, Planned, Published
    <2>2. QED
      BY <1>1, <2>1 DEF SaveCreate, SaveOnly, Goto, hist
  <1>3. /\ dir \in Directory /\ dir.next = Partial /\ dir.primary = Dir.primary
        /\ dir.candidate = Dir.candidate /\ dir.loose = Dir.loose \ {"next"}
    BY <1>1 DEF Directory, Removed
  <1>4. /\ journal' \in Seq(Directory) /\ Exists' /\ Dir' = dir /\ Versions' /\ Seen'
        /\ SaveOf(Dir.primary)' /\ BackedIn(Dir, phase)'
    BY <1>1, <1>2, <1>3, SaveSteps DEF Saving
  <1>5. WizardTyped'
    BY <1>2, <1>4 DEF WizardInv, WizardTyped, Saving, hist
  <1>6. Place'
    BY <1>1, <1>2, <1>4 DEF WizardInv, Place, Saving, Driving
  <1>7. QED
    BY <1>4, <1>5, <1>6 DEF WizardInv

LEMMA WizardSaveWrites ==
    ASSUME WizardInv, SaveWrite
    PROVE  WizardInv'
  <1> PICK dir : dir = [Dir EXCEPT !.next = phase, !.loose = @ \cup {"next"}]
    OBVIOUS
  <1>1. /\ pc = "write" /\ Amend(dir) /\ pc' = "flush"
        /\ UNCHANGED <<resumed, phase, saves, made, evidence, mode, remote, hist, outages>>
    BY DEF SaveWrite, WriteFile, SaveOnly, Goto, hist
  <1>2. Dir \in Directory /\ phase \in ReleasePhase
    BY <1>1, SaveRanks DEF Saving
  <1>3. /\ dir \in Directory /\ dir.next = phase /\ dir.primary = Dir.primary
        /\ dir.candidate = Dir.candidate /\ dir.loose = Dir.loose \cup {"next"}
    BY <1>2 DEF Directory
  <1>4. /\ journal' \in Seq(Directory) /\ Exists' /\ Dir' = dir /\ Versions' /\ Seen'
        /\ SaveOf(Dir.primary)' /\ BackedIn(Dir, phase)'
    BY <1>1, <1>3, SaveSteps DEF Saving
  <1>5. WizardTyped'
    BY <1>1, <1>4 DEF WizardInv, WizardTyped, Saving, hist
  <1>6. Place'
    BY <1>1, <1>3, <1>4 DEF WizardInv, Place, Saving, Driving
  <1>7. QED
    BY <1>4, <1>5, <1>6 DEF WizardInv

LEMMA WizardSaveFlushes ==
    ASSUME WizardInv, SaveFlush
    PROVE  WizardInv'
  <1> PICK dir : dir = [Dir EXCEPT !.loose = @ \ {"next"}]
    OBVIOUS
  <1>1. /\ pc = "flush" /\ Amend(dir) /\ pc' = "install"
        /\ UNCHANGED <<resumed, phase, saves, made, evidence, mode, remote, hist, outages>>
    BY DEF SaveFlush, SyncFile, SaveOnly, Goto, hist
  <1>2. Dir \in Directory /\ Dir.next = phase
    BY <1>1, SaveRanks DEF Saving, WizardInv, Place
  <1>3. /\ dir \in Directory /\ dir.next = phase /\ dir.primary = Dir.primary
        /\ dir.candidate = Dir.candidate /\ dir.loose = Dir.loose \ {"next"}
    BY <1>2 DEF Directory
  <1>4. /\ journal' \in Seq(Directory) /\ Exists' /\ Dir' = dir /\ Versions' /\ Seen'
        /\ SaveOf(Dir.primary)' /\ BackedIn(Dir, phase)'
    BY <1>1, <1>3, SaveSteps DEF Saving
  <1>5. WizardTyped'
    BY <1>1, <1>4 DEF WizardInv, WizardTyped, Saving, hist
  <1>6. Place'
    BY <1>1, <1>3, <1>4 DEF WizardInv, Place, Saving, Driving
  <1>7. QED
    BY <1>4, <1>5, <1>6 DEF WizardInv

\* The replacement that takes the state's place is synced.
LEMMA WizardSaveInstalls ==
    ASSUME WizardInv, SaveInstall
    PROVE  WizardInv'
  <1> PICK dir : dir = Installed(Dir)
    OBVIOUS
  <1>1. /\ pc = "install" /\ Change(dir) /\ pc' = "sync"
        /\ UNCHANGED <<resumed, phase, saves, made, evidence, mode, remote, hist, outages>>
    BY DEF SaveInstall, SaveOnly, Goto, hist
  <1>2. /\ Exists /\ Dir \in Directory /\ phase \in ReleasePhase /\ BackedIn(Dir, phase)
        /\ saved # NoPhase => phase \in saved..Published
        /\ Dir.primary = Absent \/ (Dir.primary \in ReleasePhase /\ phase >= Dir.primary)
    BY <1>1, SaveRanks DEF Saving
  <1>3. Dir.next = phase /\ "next" \notin Dir.loose
    BY <1>1 DEF WizardInv, Place
  <1>4. /\ dir \in Directory /\ dir.next = Absent /\ dir.primary = phase
        /\ dir.candidate = Dir.candidate /\ dir.loose = Dir.loose \ {"primary", "next"}
    BY <1>2, <1>3 DEF Directory, Installed
  <1>5. /\ journal' \in Seq(Directory) /\ Exists' /\ Dir' = dir
        /\ ToSet(journal') \subseteq ToSet(journal) \cup {dir}
    BY <1>1, <1>4, ChangedVersions DEF WizardInv, WizardTyped
  <1>6. UNCHANGED <<saved, borrowed, made>>
    BY <1>1 DEF hist
  <1>7. WizardTyped'
    BY <1>1, <1>5, <1>6 DEF WizardInv, WizardTyped
  <1>8. Sound(dir)'
    <2>1. BackedIn(dir, phase)'
      BY <1>1, <1>2, <1>4, <1>6 DEF BackedIn, Kept
    <2>2. phase # Partial
      BY <1>2, PathsAssumption DEF ReleasePhase, Planned, Published
    <2>3. QED
      BY <1>1, <1>2, <1>4, <1>6, <2>1, <2>2, PathsAssumption DEF Sound
  <1>9. Versions'
    BY <1>5, <1>6, <1>8, VersionsGrow DEF WizardInv
  <1>10. Place'
    BY <1>1, <1>4, <1>5, <1>6 DEF WizardInv, Place, Saving, Driving
  <1>11. Seen'
    BY <1>1, <1>2, <1>4, <1>5, PathsAssumption
       DEF WizardInv, Seen, LocalStaged, Published, ReleasePhase, Planned
  <1>12. QED
    BY <1>7, <1>9, <1>10, <1>11 DEF WizardInv

LEMMA WizardSaveSyncs ==
    ASSUME WizardInv, SaveSync
    PROVE  WizardInv'
  <1>1. /\ pc = "sync" /\ Exists /\ Dir.primary = phase /\ Dir.next = Absent
        /\ phase \in ReleasePhase /\ saves \in {1, 2} /\ (saves = 2 => phase = AwaitingQualification + 1)
        /\ Dir \in Directory /\ Dir \in ToSet(journal)
    BY SeenVersion DEF SaveSync, WizardInv, Place, WizardTyped
  <1>2. /\ ChangeSync(Dir) /\ saved' = phase /\ saves' = saves - 1
        /\ borrowed' = borrowed \cap ({"candidate"} \cup Dir.loose)
        /\ pc' = IF saves = 1 THEN "work" ELSE "save"
        /\ UNCHANGED <<resumed, phase, made, evidence, mode, remote, outages>>
    BY DEF SaveSync, Sync
  <1>3. /\ journal' \in Seq(Directory) /\ Exists' /\ Dir' = Dir
        /\ ToSet(journal') = {Dir}
    BY <1>1, <1>2, SyncedVersions
  <1>4. Sound(Dir)
    BY <1>1 DEF WizardInv, Versions
  <1>5. phase \in Int /\ phase # Partial
    BY <1>1, PathsAssumption DEF ReleasePhase, Planned, Published
  <1>6. BackedIn(Dir, phase)'
    <2>1. BackedIn(Dir, phase)
      BY <1>1, <1>4, <1>5 DEF Sound
    <2>2. QED
      BY <1>2, <1>3, <2>1 DEF BackedIn, Kept
  <1>7. WizardTyped'
    BY <1>1, <1>2, <1>3 DEF WizardInv, WizardTyped, Saving, Driving
  <1>8. Sound(Dir)'
    <2>1. "primary" \in Dir.loose => "primary" \in borrowed'
      BY <1>2, <1>4 DEF Sound
    <2>2. phase \in phase..Published
      BY <1>1 DEF ReleasePhase, Planned, Published
    <2>3. QED
      BY <1>1, <1>2, <1>3, <1>5, <1>6, <2>1, <2>2, PathsAssumption DEF Sound
  <1>9. Versions'
    BY <1>3, <1>8 DEF Versions
  <1>10. Place'
    <2>1. CASE saves = 1
      BY <1>1, <1>2, <1>3, <2>1 DEF Place, Saving, Driving
    <2>2. CASE saves = 2
      <3>1. SaveOf(Dir.primary)'
        BY <1>1, <1>2, <1>3, <2>2 DEF SaveOf
      <3>2. pc' = "save" /\ saves' = 1
        BY <1>2, <2>2
      <3>3. QED
        BY <1>1, <1>3, <1>6, <3>1, <3>2 DEF Place, Saving, Driving
    <2>3. QED
      BY <1>1, <2>1, <2>2
  <1>11. Seen'
    BY <1>2, <1>3 DEF WizardInv, Seen
  <1>12. QED
    BY <1>7, <1>9, <1>10, <1>11 DEF WizardInv

LEMMA WizardSaveFails ==
    ASSUME WizardInv, SaveFails
    PROVE  WizardInv'
  <1> PICK dir : dir = Removed(Dir)
    OBVIOUS
  <1>1. Exists /\ Dir \in Directory /\ pc \in Saving
    BY SaveRanks DEF SaveFails, Saving
  <1>2. /\ dir \in Directory /\ dir.next = Absent /\ dir.primary = Dir.primary
        /\ dir.candidate = Dir.candidate /\ dir.loose = Dir.loose \ {"next"}
    BY <1>1 DEF Directory, Removed
  <1>3. Change(dir) /\ Leave /\ UNCHANGED <<made, evidence, mode, remote, hist, outages>>
    BY DEF SaveFails
  <1>4. journal' \in Seq(Directory) /\ Exists' /\ Versions' /\ Seen'
    BY <1>1, <1>2, <1>3, SaveSteps
  <1>5. WizardTyped'
    <2>1. phase' \in ReleasePhase
      BY <1>3 DEF Leave, ReleasePhase, Planned, Published
    <2>2. pc' = "idle" /\ resumed' \in BOOLEAN
      BY <1>3 DEF Leave
    <2>3. QED
      BY <1>3, <1>4, <2>1, <2>2 DEF WizardInv, WizardTyped, hist
  <1>6. Place'
    BY <1>3, <1>4 DEF Place, Leave, Saving, Driving
  <1>7. QED
    BY <1>4, <1>5, <1>6 DEF WizardInv
-----------------------------------------------------------------------------
(* The work of the phases                                                  *)

\* The place of a step of the driver: the state names the phase in hand.
LEMMA DrivenPhase ==
    ASSUME WizardInv, pc \in {"work", "assemble", "assembled"}
    PROVE  /\ Exists /\ Dir \in Directory /\ Dir \in ToSet(journal)
           /\ Dir.primary = phase /\ Dir.next = Absent /\ phase \in ReleasePhase
           /\ BackedIn(Dir, phase)
  <1>1. /\ Exists /\ Dir.primary = phase /\ Dir.next = Absent /\ phase \in ReleasePhase
        /\ Dir \in Directory /\ Dir \in ToSet(journal)
    BY SeenVersion DEF WizardInv, Place, WizardTyped, Driving
  <1>2. phase \in Int
    BY <1>1 DEF ReleasePhase, Planned, Published
  <1>3. QED
    BY <1>1, <1>2 DEF WizardInv, Versions, Sound

\* The save that follows the work of a phase, where the work is done.
LEMMA SavesNext ==
    ASSUME WizardInv, SavePhase, Exists', Dir'.primary = phase, Dir'.next = Absent,
           phase \in ReleasePhase, phase # Published, BackedIn(Dir, phase)',
           UNCHANGED saved
    PROVE  /\ pc' = "save" /\ phase' \in ReleasePhase /\ resumed' \in BOOLEAN /\ Place'
  <1>1. pc' = "save" /\ resumed' \in BOOLEAN /\ phase' = phase + 1
    BY DEF SavePhase, WizardInv, WizardTyped
  <1>2. phase' \in ReleasePhase
    BY <1>1 DEF ReleasePhase, Planned, Published
  <1>3. saves' \in {1, 2} /\ (saves' = 2 => phase' = AwaitingQualification + 1)
    BY DEF SavePhase
  <1>4. SaveOf(Dir.primary)'
    BY <1>1 DEF SaveOf
  <1>5. Place'
    BY <1>1, <1>3, <1>4 DEF Place, Saving, Driving
  <1>6. QED
    BY <1>1, <1>2, <1>5

\* A step of assemble_intent that changes the candidate in the version that is
\* seen, on which no phase rests yet.
LEMMA AssembleSteps ==
    ASSUME WizardInv, pc \in {"work", "assemble", "assembled"}, phase = Acquired,
           NEW dir \in Directory, Change(dir) \/ Amend(dir),
           dir.primary = Dir.primary, dir.next = Dir.next,
           "primary" \in dir.loose => "primary" \in Dir.loose,
           UNCHANGED <<made, evidence, mode, remote, hist, outages>>
    PROVE  /\ journal' \in Seq(Directory) /\ Exists' /\ Dir' = dir /\ Versions' /\ Seen'
  <1>1. /\ Exists /\ Dir \in ToSet(journal) /\ Dir.primary = Acquired /\ Dir.next = Absent
        /\ BackedIn(Dir, Acquired)
    BY DrivenPhase
  <1>2. /\ journal' \in Seq(Directory) /\ Exists' /\ Dir' = dir
        /\ ToSet(journal') \subseteq ToSet(journal) \cup {dir}
    BY <1>1, ChangedVersions, AmendedVersions DEF WizardInv, WizardTyped
  <1>3. UNCHANGED <<saved, borrowed, made>>
    BY DEF hist
  <1>4. Sound(dir)'
    <2>1. Sound(Dir)
      BY <1>1 DEF WizardInv, Versions
    <2>2. BackedIn(dir, Acquired)'
      BY <1>1, <1>3 DEF BackedIn, Acquired
    <2>3. QED
      BY <1>1, <1>3, <2>1, <2>2, PathsAssumption DEF Sound
  <1>5. Versions'
    BY <1>2, <1>3, <1>4, VersionsGrow DEF WizardInv
  <1>6. Seen'
    BY <1>2 DEF WizardInv, Seen
  <1>7. QED
    BY <1>2, <1>5, <1>6

LEMMA WizardAssembleBegins ==
    ASSUME WizardInv, AssembleBegin
    PROVE  WizardInv'
  <1> PICK dir : dir = [Dir EXCEPT !.candidate = Partial]
    OBVIOUS
  <1>1. /\ Dir \in Directory /\ Dir.primary = Acquired /\ Dir.next = Absent
        /\ pc = "work" /\ phase = Acquired
    BY DrivenPhase DEF AssembleBegin
  <1>2. /\ dir \in Directory /\ dir.next = Dir.next /\ dir.primary = Dir.primary
        /\ dir.loose = Dir.loose
    BY <1>1 DEF Directory, Content
  <1>3. /\ Change(dir) /\ pc' = "assemble"
        /\ UNCHANGED <<resumed, phase, saves, made, evidence, mode, remote, hist, outages>>
    BY DEF AssembleBegin, SaveOnly, Goto, hist
  <1>4. journal' \in Seq(Directory) /\ Exists' /\ Dir' = dir /\ Versions' /\ Seen'
    BY <1>1, <1>2, <1>3, AssembleSteps
  <1>5. WizardTyped'
    BY <1>3, <1>4 DEF WizardInv, WizardTyped, Driving, hist
  <1>6. Place'
    BY <1>1, <1>2, <1>3, <1>4 DEF Place, Saving, Driving
  <1>7. QED
    BY <1>4, <1>5, <1>6 DEF WizardInv

LEMMA WizardAssembles ==
    ASSUME WizardInv, AssembleWrite
    PROVE  WizardInv'
  <1> PICK dir : dir = [Dir EXCEPT !.candidate = Whole, !.loose = @ \cup {"candidate"}]
    OBVIOUS
  <1>1. /\ pc = "assemble" /\ Amend(dir) /\ pc' = "assembled"
        /\ UNCHANGED <<resumed, phase, saves, made, evidence, mode, remote, hist, outages>>
    BY DEF AssembleWrite, WriteFile, SaveOnly, Goto, hist
  <1>2. /\ Dir \in Directory /\ Dir.primary = Acquired /\ Dir.next = Absent /\ phase = Acquired
    BY <1>1, DrivenPhase DEF WizardInv, Place
  <1>3. /\ dir \in Directory /\ dir.next = Dir.next /\ dir.primary = Dir.primary
        /\ dir.candidate = Whole /\ dir.loose = Dir.loose \cup {"candidate"}
    BY <1>2 DEF Directory, Content
  <1>4. journal' \in Seq(Directory) /\ Exists' /\ Dir' = dir /\ Versions' /\ Seen'
    BY <1>1, <1>2, <1>3, AssembleSteps
  <1>5. WizardTyped'
    BY <1>1, <1>4 DEF WizardInv, WizardTyped, Driving, hist
  <1>6. Place'
    BY <1>1, <1>2, <1>3, <1>4 DEF Place, Saving, Driving
  <1>7. QED
    BY <1>4, <1>5, <1>6 DEF WizardInv

\* The candidate is whole and on the disk when its phase is saved.
LEMMA WizardAssembleFlushes ==
    ASSUME WizardInv, AssembleFlush
    PROVE  WizardInv'
  <1> PICK dir : dir = [Dir EXCEPT !.loose = @ \ {"candidate"}]
    OBVIOUS
  <1>1. /\ pc = "assembled" /\ Amend(dir) /\ SavePhase
        /\ UNCHANGED <<made, evidence, mode, remote, hist, outages>>
    BY DEF AssembleFlush, SyncFile, SaveOnly, hist
  <1>2. /\ Dir \in Directory /\ Dir.primary = Acquired /\ Dir.next = Absent /\ phase = Acquired
        /\ Dir.candidate = Whole /\ BackedIn(Dir, phase)
    BY <1>1, DrivenPhase DEF WizardInv, Place
  <1>3. /\ dir \in Directory /\ dir.next = Dir.next /\ dir.primary = Dir.primary
        /\ dir.candidate = Whole /\ dir.loose = Dir.loose \ {"candidate"}
    BY <1>2 DEF Directory, Content
  <1>4. journal' \in Seq(Directory) /\ Exists' /\ Dir' = dir /\ Versions' /\ Seen'
    BY <1>1, <1>2, <1>3, AssembleSteps
  <1>5. BackedIn(Dir, phase)'
    <2>1. phase' = Acquired + 1 /\ UNCHANGED made
      BY <1>1, <1>2 DEF SavePhase
    <2>2. QED
      BY <1>2, <1>3, <1>4, <2>1 DEF BackedIn, Kept, Acquired
  <1>6. pc' = "save" /\ phase' \in ReleasePhase /\ resumed' \in BOOLEAN /\ Place'
    <2>1. phase \in ReleasePhase /\ phase # Published
      BY <1>2 DEF ReleasePhase, Planned, Acquired, Published
    <2>2. QED
      BY <1>1, <1>2, <1>3, <1>4, <1>5, <2>1, SavesNext DEF hist
  <1>7. WizardTyped'
    BY <1>1, <1>4, <1>6 DEF WizardInv, WizardTyped, Saving, hist
  <1>8. QED
    BY <1>4, <1>6, <1>7 DEF WizardInv

\* A candidate that is taken over unsynced is noted as such.
LEMMA WizardVerifies ==
    ASSUME WizardInv, AssembleVerify
    PROVE  WizardInv'
  <1>1. /\ Exists /\ Dir.primary = phase /\ Dir.next = Absent /\ phase = Acquired
        /\ phase \in ReleasePhase /\ BackedIn(Dir, phase) /\ Dir \in Directory
        /\ UNCHANGED <<journal, made, evidence, mode, remote, saved, outages>>
    BY DrivenPhase DEF AssembleVerify, disk
  <1>2. CASE Leave /\ UNCHANGED borrowed
    BY <1>1, <1>2, WizardLeaves DEF hist, WizardInv, WizardTyped
  <1>3. CASE Dir.candidate = Whole /\ SavePhase /\ Borrow("candidate", Dir)
    <2>1. phase' = Acquired + 1
      BY <1>1, <1>3 DEF SavePhase
    <2>2. Exists' /\ Dir' = Dir
      BY <1>1 DEF Exists, Dir
    <2>3. borrowed' = borrowed \cup ({"candidate"} \cap Dir.loose)
      BY <1>3 DEF Borrow
    <2>4. BackedIn(Dir, phase)'
      BY <1>1, <1>3, <2>1, <2>2, <2>3 DEF BackedIn, Kept, Acquired
    <2>5. pc' = "save" /\ phase' \in ReleasePhase /\ resumed' \in BOOLEAN /\ Place'
      BY <1>1, <1>3, <2>2, <2>4, SavesNext DEF Acquired, Published
    <2>6. WizardTyped'
      BY <1>1, <2>3, <2>5 DEF WizardInv, WizardTyped, Saving
    <2>7. Versions'
      BY <1>1, <2>3, VersionsStay DEF WizardInv
    <2>8. Seen'
      BY <1>1, <2>2 DEF WizardInv, Seen
    <2>9. QED
      BY <2>5, <2>6, <2>7, <2>8 DEF WizardInv
  <1>4. QED
    BY <1>2, <1>3 DEF AssembleVerify, Accept

\* What a phase puts on GitHub, and from which phase on.
LEMMA PhaseOnGitHub ==
    /\ RemoteWork \in Seq({"tag", "draft", "public"})
    /\ RemoteWork # << >> => phase \in {LocalStaged, Approved}
  <1>1. CASE phase = LocalStaged
    BY <1>1 DEF RemoteWork, LocalStaged, Approved
  <1>2. CASE phase = Approved
    BY <1>2 DEF RemoteWork, LocalStaged, Approved
  <1>3. CASE phase \notin {LocalStaged, Approved}
    BY <1>3 DEF RemoteWork
  <1>4. QED
    BY <1>1, <1>2, <1>3

LEMMA WizardWorks ==
    ASSUME WizardInv, Work
    PROVE  WizardInv'
  <1>1. /\ phase \notin {Acquired, Published} /\ made' = made \cup {phase} /\ SavePhase
        /\ remote' = remote \cup ToSet(RemoteWork)
        /\ UNCHANGED <<journal, evidence, mode, saved, borrowed, outages>>
    BY DEF Work, Working, hist
  <1>2. /\ Exists /\ Dir.primary = phase /\ Dir.next = Absent
        /\ phase \in ReleasePhase /\ BackedIn(Dir, phase)
    BY DrivenPhase DEF Work, Working
  <1>3. Exists' /\ Dir' = Dir
    BY <1>1, <1>2 DEF Exists, Dir
  <1>4. BackedIn(Dir, phase)'
    <2>1. phase' = phase + 1
      BY <1>1 DEF SavePhase
    <2>2. QED
      BY <1>1, <1>2, <1>3, <2>1 DEF BackedIn, Kept, ReleasePhase, Planned, Published
  <1>5. pc' = "save" /\ phase' \in ReleasePhase /\ resumed' \in BOOLEAN /\ Place'
    BY <1>1, <1>2, <1>3, <1>4, SavesNext
  <1>6. ToSet(RemoteWork) \subseteq {"tag", "draft", "public"}
    BY PhaseOnGitHub DEF ToSet
  <1>7. WizardTyped'
    <2>1. made' \subseteq ReleasePhase
      BY <1>1, <1>2 DEF WizardInv, WizardTyped
    <2>2. remote' \subseteq {"tag", "draft", "public"}
      BY <1>1, <1>6 DEF WizardInv, WizardTyped
    <2>3. QED
      BY <1>1, <1>5, <2>1, <2>2 DEF WizardInv, WizardTyped, Saving
  <1>8. Versions'
    BY <1>1, VersionsStay DEF WizardInv
  <1>9. Seen'
    <2>1. CASE phase \in {LocalStaged, Approved}
      BY <1>2, <1>3, <2>1 DEF Seen, LocalStaged, Approved, Published
    <2>2. CASE phase \notin {LocalStaged, Approved}
      <3>1. ToSet(RemoteWork) = {}
        BY <2>2, PhaseOnGitHub DEF ToSet
      <3>2. QED
        BY <1>1, <1>3, <3>1 DEF WizardInv, Seen
    <2>3. QED
      BY <2>1, <2>2
  <1>10. QED
    BY <1>5, <1>7, <1>8, <1>9 DEF WizardInv

LEMMA WizardWorkFails ==
    ASSUME WizardInv, WorkFails
    PROVE  WizardInv'
  <1> PICK i \in 0..Len(RemoteWork) : remote' = remote \cup {RemoteWork[k] : k \in 1..i}
    BY DEF WorkFails
  <1>1. Leave /\ UNCHANGED <<journal, made, evidence, mode, saved, borrowed, outages>>
    BY DEF WorkFails, disk, hist
  <1>2. Exists /\ Dir.primary = phase
    BY DrivenPhase DEF WorkFails, Working
  <1>3. {RemoteWork[k] : k \in 1..i} \subseteq {"tag", "draft", "public"}
    BY PhaseOnGitHub
  <1>4. RemoteWork = << >> => remote' = remote
    OBVIOUS
  <1>5. WizardTyped'
    <2>1. remote' \subseteq {"tag", "draft", "public"}
      BY <1>3 DEF WizardInv, WizardTyped
    <2>2. phase' \in ReleasePhase
      BY <1>1 DEF Leave, ReleasePhase, Planned, Published
    <2>3. pc' = "idle" /\ resumed' \in BOOLEAN
      BY <1>1 DEF Leave
    <2>4. QED
      BY <1>1, <2>1, <2>2, <2>3 DEF WizardInv, WizardTyped
  <1>6. Versions'
    BY <1>1, VersionsStay DEF WizardInv
  <1>7. Place'
    BY <1>1, <1>2 DEF Place, Leave, Saving, Driving, Exists
  <1>8. Seen'
    <2>1. CASE phase \in {LocalStaged, Approved}
      BY <1>1, <1>2, <2>1 DEF Seen, Exists, Dir, LocalStaged, Approved, Published
    <2>2. CASE phase \notin {LocalStaged, Approved}
      <3>1. remote' = remote
        BY <1>4, <2>2, PhaseOnGitHub
      <3>2. QED
        BY <1>1, <3>1 DEF WizardInv, Seen, Exists, Dir
    <2>3. QED
      BY <2>1, <2>2
  <1>9. QED
    BY <1>5, <1>6, <1>7, <1>8 DEF WizardInv

\* A pause, the last phase, and a kill leave the release as it is.
LEMMA WizardEnds ==
    ASSUME WizardInv, Pause \/ UpdateDocsAndEvidence \/ Stop
    PROVE  WizardInv'
  <1>1. /\ Leave /\ UNCHANGED <<journal, made, mode, remote, hist, outages>>
        /\ evidence' \in {evidence, TRUE}
    BY DEF Pause, UpdateDocsAndEvidence, Stop, disk
  <1>2. QED
    BY <1>1, WizardLeaves DEF WizardInv, WizardTyped

LEMMA WizardLosesPower ==
    ASSUME WizardInv, PowerLoss
    PROVE  WizardInv'
  <1> PICK dir \in Survivors : ChangeSync(dir)
    BY DEF PowerLoss
  <1>1. Leave /\ outages' = outages + 1 /\ UNCHANGED <<made, evidence, mode, remote, saved, borrowed>>
    BY DEF PowerLoss, hist
  <1>2. dir \in Directory /\ Sound(dir)
    BY SurvivorIsSound DEF WizardInv
  <1>3. journal' \in Seq(Directory) /\ Exists' /\ Dir' = dir /\ ToSet(journal') = {dir}
    BY <1>2, SyncedVersions
  <1>4. WizardTyped'
    <2>1. phase' \in ReleasePhase
      BY <1>1 DEF Leave, ReleasePhase, Planned, Published
    <2>2. pc' = "idle" /\ resumed' \in BOOLEAN
      BY <1>1 DEF Leave
    <2>3. outages' \in Nat
      BY <1>1 DEF WizardInv, WizardTyped
    <2>4. QED
      BY <1>1, <1>3, <2>1, <2>2, <2>3 DEF WizardInv, WizardTyped
  <1>5. Versions'
    BY <1>1, <1>2, <1>3, MoreIsSound DEF Versions
  <1>6. Place'
    BY <1>1, <1>3 DEF Place, Leave, Saving, Driving
  <1>7. Seen'
    BY <1>1 DEF Seen, WizardInv, WizardTyped
  <1>8. QED
    BY <1>4, <1>5, <1>6, <1>7 DEF WizardInv
-----------------------------------------------------------------------------
(* The theorems                                                            *)

LEMMA StepWizard == WizardInv /\ [Next]_vars => WizardInv'
  <1> SUFFICES ASSUME WizardInv, [Next]_vars PROVE WizardInv'
    OBVIOUS
  <1>1. CASE \E command \in {"release", "resume"} : Start(command)
    BY <1>1, WizardStarts
  <1>2. CASE ListNothing \/ ListRefuses \/ List \/ ListSettle \/ ChooseResume \/ ResumeCheck \/ Create \/ ChooseStartNew
    BY <1>2, WizardLists, WizardLoads, WizardSettles, WizardResumes, WizardCreates, WizardStartsNew
  <1>3. CASE SaveCreate \/ SaveWrite \/ SaveFlush \/ SaveInstall \/ SaveSync \/ SaveFails
    BY <1>3, WizardSaveCreates, WizardSaveWrites, WizardSaveFlushes, WizardSaveInstalls, WizardSaveSyncs,
       WizardSaveFails
  <1>4. CASE AssembleBegin \/ AssembleWrite \/ AssembleFlush \/ AssembleVerify \/ Work \/ WorkFails
    BY <1>4, WizardAssembleBegins, WizardAssembles, WizardAssembleFlushes, WizardVerifies, WizardWorks,
       WizardWorkFails
  <1>5. CASE Pause \/ UpdateDocsAndEvidence \/ Stop \/ PowerLoss
    BY <1>5, WizardEnds, WizardLosesPower
  <1>6. CASE UNCHANGED vars
    <2>1. UNCHANGED <<disk, remote, run, hist, outages>>
      BY <1>6 DEF vars
    <2>2. WizardTyped' /\ Place' /\ Seen'
      BY <2>1 DEF WizardInv, WizardTyped, Place, Seen, Exists, Dir, disk, run, hist, BackedIn, Kept, SaveOf
    <2>3. Versions'
      BY <2>1, VersionsStay DEF WizardInv, disk, hist
    <2>4. QED
      BY <2>2, <2>3 DEF WizardInv
  <1>7. QED
    BY <1>1, <1>2, <1>3, <1>4, <1>5, <1>6 DEF Next, Step

\* Every state the wizard reaches satisfies the inductive invariant: in each
\* version of the release directory, synced or not, the state and a replacement
\* beside it are of phases whose work is done, and the state and the candidate
\* are on the disk unless WizardState::load or write_exact_or_verify took them
\* over from a killed run that had not synced them.
THEOREM ReleasesStayResumable == Spec => []WizardInv
  <1>1. QED
    BY InitWizard, StepWizard, PTL DEF Spec

\* drive_release never meets a wizard-state.json that names a phase whose
\* predecessors are not done, or that comes after a candidate which is incomplete,
\* unless write_exact_or_verify had accepted that candidate before it was synced.
THEOREM PhaseIsBacked == Spec => []PhaseBacked
  <1>1. WizardInv => PhaseBacked
    BY SurvivorIsSound DEF WizardInv, Sound, BackedIn, Kept, PhaseBacked
  <1>2. QED
    BY <1>1, ReleasesStayResumable, PTL

\* What WizardState::save returned for is still there, or something later,
\* whatever is killed or loses power; only a replacement that WizardState::load
\* installed before it was synced can be lost, until the next save returns.
THEOREM SavedPhaseStays == Spec => []SavedNeverLost
  <1>1. WizardInv => SavedNeverLost
    BY SurvivorIsSound DEF WizardInv, Sound, Place, SavedNeverLost
  <1>2. QED
    BY <1>1, ReleasesStayResumable, PTL

\* Only "start new" puts the directory away.
LEMMA DirectoryStays ==
    ASSUME WizardInv, [Next]_vars, ~ChooseStartNew, Exists
    PROVE  Exists'
  <1>1. CASE UNCHANGED journal
    BY <1>1 DEF Exists
  <1>2. CASE \E dir : Change(dir) \/ ChangeSync(dir)
    <2>1. PICK dir : journal' = Append(journal, dir) \/ journal' = <<dir>>
      BY <1>2 DEF Change, ChangeSync
    <2>2. journal \in Seq(Directory \cup {dir})
      BY DEF WizardInv, WizardTyped
    <2>3. Len(journal') # 0
      BY <2>1, <2>2
    <2>4. QED
      BY <2>3 DEF Exists, NoDirectory
  <1>3. CASE \E dir : Amend(dir)
    <2>1. DOMAIN journal' = DOMAIN journal
      BY <1>3 DEF Amend, WizardInv, WizardTyped
    <2>2. QED
      BY <2>1 DEF Exists, NoDirectory, WizardInv, WizardTyped
  <1>4. QED
    <2>1. CASE UNCHANGED vars
      BY <1>1, <2>1 DEF vars, disk
    <2>2. CASE \E command \in {"release", "resume"} : Start(command)
      BY <1>1, <2>2 DEF Start, disk
    <2>3. CASE ListNothing \/ ListRefuses \/ ChooseResume \/ ResumeCheck \/ AssembleVerify \/ Work \/ Pause
               \/ UpdateDocsAndEvidence \/ WorkFails \/ Stop
      BY <1>1, <2>3 DEF ListNothing, ListRefuses, ChooseResume, ResumeCheck, AssembleVerify, Work, Pause,
                        UpdateDocsAndEvidence, WorkFails, Stop, disk
    <2>4. CASE List \/ ListSettle \/ Create \/ SaveInstall \/ SaveSync \/ SaveFails
               \/ AssembleBegin \/ PowerLoss
      BY <1>1, <1>2, <2>4 DEF List, ListSettle, Create, SaveInstall, SaveSync, Sync, SaveFails,
                              AssembleBegin, PowerLoss
    <2>5. CASE SaveCreate
      <3>1. Dir.next = Absent
        BY <2>5 DEF SaveCreate, WizardInv, Place
      <3>2. QED
        BY <1>1, <1>2, <2>5, <3>1 DEF SaveCreate
    <2>6. CASE SaveWrite \/ SaveFlush \/ AssembleWrite \/ AssembleFlush
      BY <1>3, <2>6 DEF SaveWrite, SaveFlush, AssembleWrite, AssembleFlush, WriteFile, SyncFile
    <2>7. QED
      BY <2>1, <2>2, <2>3, <2>4, <2>5, <2>6 DEF Next, Step

\* While no power has failed, a release that reached GitHub is not put aside for
\* another one under its sequence number: the phase archive_unfinished_state
\* looks at is on disk, and it is past Qualified.
THEOREM RemoteIsNotAbandoned == Spec => NoRemoteAbandoned
  <1>1. ASSUME WizardInv, [Next]_vars
        PROVE  outages = 0 /\ Exists /\ journal' = NoDirectory => remote = {}
    <2> SUFFICES ASSUME outages = 0, Exists, journal' = NoDirectory PROVE remote = {}
      OBVIOUS
    <2>1. ~Exists'
      BY DEF Exists
    <2>2. ChooseStartNew
      BY <1>1, <2>1, DirectoryStays
    <2>3. Archivable(phase)
      BY <2>1, <2>2 DEF ChooseStartNew, Exists
    <2>4. Dir.primary = phase /\ phase \in Int /\ phase <= Qualified
      BY <1>1, <2>2, <2>3 DEF ChooseStartNew, WizardInv, Place, WizardTyped, ReleasePhase,
                              Planned, Published, Archivable
    <2>5. QED
      BY <1>1, <2>4 DEF WizardInv, Seen, LocalStaged, Published, Qualified
  <1>2. QED
    BY <1>1, ReleasesStayResumable, PTL DEF Spec, NoRemoteAbandoned
=============================================================================
