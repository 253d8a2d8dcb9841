--------------------------- MODULE LocalStageProofs ---------------------------
(***************************************************************************)
(* Proofs about stage-local and recover-local, for any number of processes *)
(* running them at the same time, killed and restarted any number of       *)
(* times, and any number of losses of power.                               *)
(*                                                                         *)
(* That nothing acknowledged is lost is not inductive.  The argument is    *)
(* one of ownership: a marker that is linked as the recovery record is     *)
(* known to one run only until then, its flock is held by one process at a *)
(* time, and only the process that holds the flock of the marker in place  *)
(* changes the reference, the latest temporary or the marker.              *)
(***************************************************************************)
EXTENDS LocalStage, FiniteSetTheorems, TLAPS

Steps == {"none", "idle", "names", "prior", "objects", "objectsSync", "open", "install",
          "linkMarker", "lock", "linkRecord", "recordSync", "gate", "linkLatest",
          "latestTempSync", "rename", "renameSync", "seeTemp", "seeMarker",
          "seeRecoveryTemp", "openMarker", "lockMarker", "decide", "unlinkTemp",
          "settleSync", "cleanTemp", "cleanTempSync", "cleanRecord", "cleanSync"}

Directory == [ reference    : Reference \cup {Absent}, latestTemp   : Reference \cup {Absent},
               record       : Marker \cup {Absent},    recoveryTemp : Marker \cup {Absent} ]

Run == [ pc : Steps, prior : Reference \cup {Absent}, temp : Reference \cup {Absent},
         marker : Marker \cup {Absent}, held : BOOLEAN,
         outcome : {"none", "committed", "aborted"},
         sawTemp : BOOLEAN, sawMarker : BOOLEAN, sawRecoveryTemp : BOOLEAN ]

LocalTyped ==
    /\ journal \in Seq(Directory) /\ journal # << >>
    /\ stored \subseteq Bundles /\ durable \subseteq stored
    /\ inode \in Nat
    /\ run \in [Procs -> Run]
    /\ acked \in Bundles \cup {Absent}

\* The same catalog or a later one.
NotOlder(bundle, than) == bundle = than \/ bundle.sequence > than.sequence

\* Until its marker is linked as the record, nobody knows a run's reference.
Private  == {"names", "prior", "objects", "objectsSync", "open", "install", "linkMarker",
             "lock", "linkRecord"}
\* stage-local with a marker; before that with its objects durable, and before
\* that with a prior reference that it may replace.
Marked   == {"install", "linkMarker", "lock", "linkRecord", "recordSync", "gate", "linkLatest",
             "latestTempSync", "rename", "renameSync"}
Backing  == {"open"} \cup Marked
Decided  == {"objects", "objectsSync"} \cup Backing
Cleaning == {"cleanTemp", "cleanTempSync", "cleanRecord"}
\* It holds the flock of the marker in place.
Owning   == {"gate", "linkLatest", "latestTempSync", "rename", "renameSync", "decide",
             "unlinkTemp", "settleSync"} \cup Cleaning

\* What a process in state r knows of the directory it sees, of the objects
\* that are there and that are durable, and of the inodes given so far.
Mine(r, dir, here, synced, last) ==
    /\ r.temp # Absent => r.temp.inode <= last
    /\ r.marker # Absent => r.marker.intended.inode <= last
    /\ r.held => r.pc \in {"linkRecord", "recordSync", "cleanSync"} \cup Owning
    /\ r.pc \in {"linkRecord", "recordSync"} => r.held
    /\ r.pc \in Private \cup Marked => r.temp # Absent
    /\ r.pc \in Private /\ dir.record # Absent => dir.record.intended # r.temp
    /\ r.pc \in Decided /\ r.prior # Absent => NotOlder(r.temp.bundle, r.prior.bundle)
    /\ r.pc = "objectsSync" => r.temp.bundle \in here
    /\ r.pc \in Backing => r.temp.bundle \in synced
    /\ r.pc \in Marked => r.marker = [intended |-> r.temp, prior |-> r.prior]
    /\ r.pc \in {"lock", "linkRecord"} => dir.recoveryTemp = r.marker
    /\ r.pc \in {"lockMarker", "cleanSync"} => r.marker # Absent
    /\ r.pc = "lockMarker" /\ dir.recoveryTemp = r.marker => dir.record = r.marker
    /\ r.pc \in Owning => r.held /\ r.marker # Absent /\ dir.record = r.marker
    /\ r.pc \in {"linkLatest", "latestTempSync", "rename"} => dir.reference = r.prior
    /\ r.pc = "rename" => dir.latestTemp = r.temp
    /\ r.pc \in Cleaning /\ r.outcome = "committed" => dir.reference = r.marker.intended
    /\ r.pc = "cleanSync" /\ r.outcome = "committed" =>
          /\ dir.reference # Absent
          /\ NotOlder(dir.reference.bundle, r.marker.intended.bundle)

\* What keeps two processes apart.
Apart(r, other) ==
    /\ r.held /\ other.held => r.marker # other.marker
    /\ r.temp # Absent => r.temp # other.temp
    /\ r.pc \in Private /\ other.marker # Absent => other.marker.intended # r.temp

\* What every version of latest/ that may come back promises.
Promises(dir, synced, last, told) ==
    /\ dir.reference # Absent => dir.reference.bundle \in synced
    /\ dir.latestTemp # Absent => dir.latestTemp.bundle \in synced
    /\ dir.record # Absent => dir.record.intended.inode <= last
    /\ dir.recoveryTemp # Absent => dir.recoveryTemp.intended.inode <= last
    /\ told # Absent => dir.reference # Absent /\ NotOlder(dir.reference.bundle, told)

LocalInv ==
    /\ LocalTyped
    /\ \A p \in Procs : Mine(run[p], Visible, stored, durable, inode)
    /\ \A p, q \in Procs : p # q => Apart(run[p], run[q])
    /\ \A dir \in ToSet(journal) : Promises(dir, durable, inode, acked)

-----------------------------------------------------------------------------
(* The directory and the processes                                         *)

LEMMA SeenDirectory ==
    ASSUME LocalInv
    PROVE  /\ Visible \in Directory /\ Visible \in ToSet(journal)
           /\ Promises(Visible, durable, inode, acked)
  BY DEF LocalInv, LocalTyped, Visible, Last, ToSet

LEMMA ChangedDirectory ==
    ASSUME LocalInv, NEW dir \in Directory, Change(dir)
    PROVE  /\ journal' \in Seq(Directory) /\ journal' # << >> /\ Visible' = dir
           /\ ToSet(journal') = ToSet(journal) \cup {dir}
  BY DEF LocalInv, LocalTyped, Change, Visible, Last, ToSet

LEMMA SameDirectory ==
    ASSUME LocalInv, SameLatest \/ SyncLatest
    PROVE  /\ journal' \in Seq(Directory) /\ journal' # << >> /\ Visible' = Visible
           /\ ToSet(journal') \subseteq ToSet(journal)
  <1>1. CASE SameLatest
    BY <1>1 DEF LocalInv, LocalTyped, SameLatest, Visible, Last, ToSet
  <1>2. CASE SyncLatest
    BY <1>2, SeenDirectory DEF SyncLatest, Visible, Last, ToSet
  <1>3. QED
    BY <1>1, <1>2

LEMMA OlderIsOlder ==
    ASSUME NEW a \in Bundles, NEW b \in Bundles, NEW c \in Bundles, NotOlder(a, b), NotOlder(b, c)
    PROVE  NotOlder(a, c)
  BY BundlesAssumption DEF NotOlder

\* The end of a command, a kill, a process without a command: nothing to know.
LEMMA NothingRuns ==
    /\ NoRun \in Run /\ NoProcess \in Run
    /\ \A dir, here, synced, last : /\ Mine(NoRun, dir, here, synced, last)
                                    /\ Mine(NoProcess, dir, here, synced, last)
    /\ \A r : /\ Apart(NoRun, r) /\ Apart(r, NoRun)
              /\ Apart(NoProcess, r) /\ Apart(r, NoProcess)
  <1>1. NoRun \in Run /\ NoProcess \in Run
    BY DEF NoRun, NoProcess, Run, Steps
  <1>2. \A r \in {NoRun, NoProcess} :
           /\ r.pc \in {"idle", "none"} /\ r.temp = Absent /\ r.marker = Absent
           /\ r.held = FALSE
    BY DEF NoRun, NoProcess
  <1>3. \A r \in {NoRun, NoProcess} : \A dir, here, synced, last :
           Mine(r, dir, here, synced, last)
    BY <1>2 DEF Mine, Private, Marked, Backing, Decided, Cleaning, Owning
  <1>4. \A r \in {NoRun, NoProcess} : \A other : Apart(r, other)
    BY <1>2 DEF Apart, Private
  <1>5. \A r \in {NoRun, NoProcess} : \A other : Apart(other, r)
    BY <1>2 DEF Apart
  <1>6. QED
    BY <1>1, <1>3, <1>4, <1>5
-----------------------------------------------------------------------------
(* One process takes a step                                                *)

\* What the invariant gives for a process about to take a step.
LEMMA OwnRun ==
    ASSUME LocalInv, NEW p \in Procs
    PROVE  /\ run[p] \in Run /\ Mine(run[p], Visible, stored, durable, inode)
           /\ Visible \in Directory /\ Promises(Visible, durable, inode, acked)
           /\ \A q \in Procs \ {p} : /\ run[q] \in Run
                                     /\ Mine(run[q], Visible, stored, durable, inode)
                                     /\ Apart(run[p], run[q]) /\ Apart(run[q], run[p])
  BY SeenDirectory DEF LocalInv, LocalTyped

\* Going on to the next step keeps everything but the step.
Advanced(next, r, step) ==
    /\ next.pc = step /\ next.prior = r.prior /\ next.temp = r.temp
    /\ next.marker = r.marker /\ next.held = r.held /\ next.outcome = r.outcome

LEMMA NextStep ==
    ASSUME NEW r \in Run, NEW step \in Steps
    PROVE  [r EXCEPT !.pc = step] \in Run /\ Advanced([r EXCEPT !.pc = step], r, step)
  BY DEF Run, Advanced

\* The invariant after a step of p, given what p and the others know then.
LEMMA LocalSteps ==
    ASSUME LocalInv, NEW p \in Procs, NEW r \in Run, run' = [run EXCEPT ![p] = r],
           journal' \in Seq(Directory), journal' # << >>,
           stored' \subseteq Bundles, durable' \subseteq stored', inode' \in Nat,
           acked' \in Bundles \cup {Absent},
           \A dir \in ToSet(journal') : Promises(dir, durable', inode', acked'),
           Mine(r, Visible', stored', durable', inode'),
           \A q \in Procs \ {p} : /\ Mine(run[q], Visible', stored', durable', inode')
                                  /\ Apart(r, run[q]) /\ Apart(run[q], r)
    PROVE  LocalInv'
  <1>1. /\ run' \in [Procs -> Run] /\ run'[p] = r
        /\ \A q \in Procs \ {p} : run'[q] = run[q]
    BY DEF LocalInv, LocalTyped
  <1>2. LocalTyped'
    BY <1>1 DEF LocalTyped
  <1>3. \A q \in Procs : Mine(run'[q], Visible', stored', durable', inode')
    BY <1>1
  <1>4. \A q, s \in Procs : q # s => Apart(run'[q], run'[s])
    BY <1>1 DEF LocalInv
  <1>5. QED
    BY <1>2, <1>3, <1>4 DEF LocalInv, Mine, Apart, Promises

\* What a process knows is not affected by more objects and more inodes.
LEMMA MineGrows ==
    ASSUME NEW r \in Run, NEW dir, NEW here, NEW synced, NEW last \in Nat,
           NEW here2, NEW synced2, NEW last2 \in Nat,
           here \subseteq here2, synced \subseteq synced2, last <= last2,
           Mine(r, dir, here, synced, last)
    PROVE  Mine(r, dir, here2, synced2, last2)
  <1>1. /\ r.temp # Absent => r.temp.inode \in Nat
        /\ r.marker # Absent => r.marker.intended.inode \in Nat
    BY DEF Run, Reference, Marker
  <1>2. /\ r.temp # Absent => r.temp.inode <= last2
        /\ r.marker # Absent => r.marker.intended.inode <= last2
    BY <1>1 DEF Mine
  <1>3. /\ r.pc = "objectsSync" => r.temp.bundle \in here2
        /\ r.pc \in Backing => r.temp.bundle \in synced2
    BY DEF Mine
  <1>4. QED
    BY <1>2, <1>3 DEF Mine

LEMMA PromisesGrow ==
    ASSUME NEW dir \in Directory, NEW synced, NEW last \in Nat, NEW told,
           NEW synced2, NEW last2 \in Nat,
           synced \subseteq synced2, last <= last2, Promises(dir, synced, last, told)
    PROVE  Promises(dir, synced2, last2, told)
  <1>1. /\ dir.record # Absent => dir.record.intended.inode \in Nat
        /\ dir.recoveryTemp # Absent => dir.recoveryTemp.intended.inode \in Nat
    BY DEF Directory, Reference, Marker
  <1>2. QED
    BY <1>1 DEF Promises

\* A step of p that leaves the directory as it is, or makes it durable.
LEMMA LocalMoves ==
    ASSUME LocalInv, NEW p \in Procs, NEW r \in Run, run' = [run EXCEPT ![p] = r],
           SameLatest \/ SyncLatest,
           stored \subseteq stored', stored' \subseteq Bundles,
           durable \subseteq durable', durable' \subseteq stored',
           inode' \in Nat, inode <= inode', acked' = acked,
           Mine(r, Visible, stored', durable', inode'),
           \A q \in Procs \ {p} : Apart(r, run[q]) /\ Apart(run[q], r)
    PROVE  LocalInv'
  <1>1. /\ journal' \in Seq(Directory) /\ journal' # << >> /\ Visible' = Visible
        /\ ToSet(journal') \subseteq ToSet(journal)
    BY SameDirectory
  <1>2. inode \in Nat /\ \A q \in Procs : run[q] \in Run
    BY DEF LocalInv, LocalTyped
  <1>3. ASSUME NEW dir \in ToSet(journal') PROVE Promises(dir, durable', inode', acked')
    <2>1. dir \in Directory
      BY <1>1 DEF ToSet
    <2>2. Promises(dir, durable, inode, acked)
      BY <1>1 DEF LocalInv
    <2>3. QED
      BY <1>2, <2>1, <2>2, PromisesGrow
  <1>4. ASSUME NEW q \in Procs \ {p} PROVE Mine(run[q], Visible', stored', durable', inode')
    <2>1. Mine(run[q], Visible, stored, durable, inode)
      BY DEF LocalInv
    <2>2. QED
      BY <1>1, <1>2, <2>1, MineGrows
  <1>5. acked' \in Bundles \cup {Absent}
    BY DEF LocalInv, LocalTyped
  <1>6. QED
    BY <1>1, <1>3, <1>4, <1>5, LocalSteps

\* A step of p that keeps its reference, its marker and its flock.
LEMMA LocalKeeps ==
    ASSUME LocalInv, NEW p \in Procs, NEW r \in Run, run' = [run EXCEPT ![p] = r],
           r.held = run[p].held, r.marker = run[p].marker, r.temp = run[p].temp,
           r.pc \in Private => run[p].pc \in Private,
           SameLatest \/ SyncLatest,
           stored \subseteq stored', stored' \subseteq Bundles,
           durable \subseteq durable', durable' \subseteq stored',
           UNCHANGED <<inode, acked>>,
           Mine(r, Visible, stored', durable', inode)
    PROVE  LocalInv'
  <1>1. \A q \in Procs \ {p} : Apart(r, run[q]) /\ Apart(run[q], r)
    BY DEF LocalInv, Apart
  <1>2. inode' \in Nat /\ inode <= inode' /\ inode' = inode
    BY DEF LocalInv, LocalTyped
  <1>3. QED
    BY <1>1, <1>2, LocalMoves

\* A process changes the directory it sees.
LEMMA LocalChanges ==
    ASSUME LocalInv, NEW p \in Procs, NEW step \in Steps, Goto(p, step),
           step \in Private => run[p].pc \in Private,
           NEW dir \in Directory, Change(dir),
           UNCHANGED <<stored, durable, inode, acked>>,
           Promises(dir, durable, inode, acked),
           \A r \in Run : Advanced(r, run[p], step) => Mine(r, dir, stored, durable, inode),
           \A q \in Procs \ {p} : Mine(run[q], dir, stored, durable, inode)
    PROVE  LocalInv'
  <1> DEFINE r == [run[p] EXCEPT !.pc = step]
  <1>1. run[p] \in Run
    BY DEF LocalInv, LocalTyped
  <1>2. r \in Run /\ Advanced(r, run[p], step)
    BY <1>1, NextStep
  <1>3. run' = [run EXCEPT ![p] = r]
    BY DEF Goto
  <1> HIDE DEF r
  <1>4. Mine(r, dir, stored, durable, inode)
    BY <1>2
  <1>5. /\ journal' \in Seq(Directory) /\ journal' # << >> /\ Visible' = dir
        /\ ToSet(journal') = ToSet(journal) \cup {dir}
    BY ChangedDirectory
  <1>6. \A d \in ToSet(journal') : Promises(d, durable', inode', acked')
    BY <1>5 DEF LocalInv
  <1>7. \A q \in Procs \ {p} : Apart(r, run[q]) /\ Apart(run[q], r)
    BY <1>2 DEF LocalInv, Apart, Advanced
  <1>8. /\ stored' \subseteq Bundles /\ durable' \subseteq stored' /\ inode' \in Nat
        /\ acked' \in Bundles \cup {Absent}
    BY DEF LocalInv, LocalTyped
  <1>9. /\ Mine(r, Visible', stored', durable', inode')
        /\ \A q \in Procs \ {p} : Mine(run[q], Visible', stored', durable', inode')
    BY <1>4, <1>5
  <1>10. QED
    BY <1>2, <1>3, <1>5, <1>6, <1>7, <1>8, <1>9, LocalSteps

LEMMA LocalEnds ==
    ASSUME LocalInv, NEW p \in Procs, Finish(p), SameLatest \/ SyncLatest,
           stored \subseteq stored', stored' \subseteq Bundles,
           durable \subseteq durable', durable' \subseteq stored',
           UNCHANGED <<inode, acked>>
    PROVE  LocalInv'
  <1>1. inode' \in Nat /\ inode <= inode' /\ acked' = acked
    BY DEF LocalInv, LocalTyped
  <1>2. run' = [run EXCEPT ![p] = NoRun]
    BY DEF Finish
  <1>3. QED
    BY <1>1, <1>2, NothingRuns, LocalMoves

\* A process goes on without changing anything.
LEMMA LocalGoes ==
    ASSUME LocalInv, NEW p \in Procs, NEW step \in Steps,
           NEW condition \in BOOLEAN, GotoOrFinish(p, condition, step),
           step \in Private => run[p].pc \in Private,
           SameLatest \/ SyncLatest, SameObjects, Quiet,
           \A r \in Run : condition /\ Advanced(r, run[p], step)
                           => Mine(r, Visible, stored, durable, inode)
    PROVE  LocalInv'
  <1>1. /\ stored' \subseteq Bundles /\ durable' \subseteq stored'
        /\ stored' = stored /\ durable' = durable /\ UNCHANGED <<inode, acked>>
    BY DEF SameObjects, Quiet, LocalInv, LocalTyped
  <1>2. CASE ~condition
    BY <1>1, <1>2, LocalEnds DEF GotoOrFinish
  <1>3. CASE condition
    <2> DEFINE r == [run[p] EXCEPT !.pc = step]
    <2>1. run[p] \in Run
      BY DEF LocalInv, LocalTyped
    <2>2. r \in Run /\ Advanced(r, run[p], step)
      BY <2>1, NextStep
    <2>3. run' = [run EXCEPT ![p] = r]
      BY <1>3 DEF GotoOrFinish, Goto
    <2> HIDE DEF r
    <2>4. Mine(r, Visible, stored', durable', inode)
      BY <1>1, <1>3, <2>2
    <2>5. QED
      BY <1>1, <2>2, <2>3, <2>4, LocalKeeps DEF Advanced
  <1>4. QED
    BY <1>2, <1>3
-----------------------------------------------------------------------------
(* stage-local: up to the transaction                                      *)

LEMMA LocalStageStart ==
    ASSUME LocalInv, NEW p \in Procs, NEW bundle \in Bundles, StageStart(p, bundle)
    PROVE  LocalInv'
  <1> DEFINE temp == [bundle |-> bundle, inode |-> inode']
             r    == [run[p] EXCEPT !.pc = "names", !.temp = temp]
  <1>1. /\ run[p].pc = "idle" /\ inode' = inode + 1 /\ run' = [run EXCEPT ![p] = r]
        /\ SameLatest /\ UNCHANGED <<stored, durable, acked>>
    BY DEF StageStart, At, SameObjects
  <1>2. inode \in Nat /\ inode' \in Nat /\ inode <= inode' /\ ~(inode' <= inode)
        /\ stored' \subseteq Bundles /\ durable' \subseteq stored'
    BY <1>1 DEF LocalInv, LocalTyped
  <1>3. temp \in Reference /\ temp # Absent /\ temp.inode = inode'
    BY <1>2, AbsentAssumption DEF Reference
  <1> HIDE DEF temp
  <1>4. /\ r \in Run /\ r.pc = "names" /\ r.temp = temp /\ r.held = run[p].held
        /\ r.marker = run[p].marker
    BY <1>3, OwnRun DEF Run, Steps
  <1> HIDE DEF r
  <1>5. ASSUME NEW ref \in Reference \cup {Absent}, ref # Absent, ref.inode <= inode
        PROVE  ref # temp
    BY <1>2, <1>3, <1>5
  <1>6. Visible.record # Absent => Visible.record.intended # temp
    <2>1. Visible.record \in Marker \cup {Absent}
      BY OwnRun DEF Directory
    <2>2. Visible.record # Absent => Visible.record.intended.inode <= inode
      BY OwnRun DEF Promises
    <2>3. QED
      BY <1>5, <2>1, <2>2, AbsentAssumption DEF Marker
  <1>7. Mine(r, Visible, stored', durable', inode')
    <2>1. Mine(run[p], Visible, stored, durable, inode)
      BY OwnRun
    <2>2. run[p].held = FALSE
      BY <1>1, <2>1, OwnRun DEF Mine, Owning, Cleaning, Run
    <2>3. r.marker # Absent => r.marker.intended.inode <= inode'
      BY <1>2, <1>4, <2>1, OwnRun DEF Mine, Run, Marker, Reference
    <2>4. r.temp.inode <= inode'
      BY <1>2, <1>3, <1>4
    <2>5. QED
      BY <1>3, <1>4, <1>6, <2>2, <2>3, <2>4
         DEF Mine, Private, Marked, Backing, Decided, Cleaning, Owning
  <1>8. ASSUME NEW q \in Procs \ {p} PROVE Apart(r, run[q]) /\ Apart(run[q], r)
    <2>1. run[q] \in Run /\ Mine(run[q], Visible, stored, durable, inode)
          /\ Apart(run[p], run[q]) /\ Apart(run[q], run[p])
      BY OwnRun
    <2>2. temp # run[q].temp
      BY <1>3, <1>5, <2>1 DEF Mine, Run
    <2>3. run[q].marker # Absent => run[q].marker.intended # temp
      BY <1>5, <2>1, AbsentAssumption DEF Mine, Run, Marker
    <2>4. QED
      BY <1>4, <2>1, <2>2, <2>3 DEF Apart
  <1>9. QED
    BY <1>1, <1>2, <1>4, <1>7, <1>8, LocalMoves

LEMMA LocalStageNames ==
    ASSUME LocalInv, NEW p \in Procs, StageNames(p)
    PROVE  LocalInv'
  <1> DEFINE clean == \A name \in {"latestTemp", "record", "recoveryTemp"} : Visible[name] = Absent
  <1>1. /\ run[p].pc = "names" /\ GotoOrFinish(p, clean, "prior")
        /\ SameLatest /\ SameObjects /\ Quiet
    BY DEF StageNames, At
  <1>2. clean \in BOOLEAN
    OBVIOUS
  <1> HIDE DEF clean
  <1> Mine(run[p], Visible, stored, durable, inode)
    BY OwnRun
  <1>3. ASSUME NEW r \in Run, Advanced(r, run[p], "prior")
        PROVE  Mine(r, Visible, stored, durable, inode)
    BY <1>1, <1>3
       DEF Advanced, Mine, Private, Marked, Backing, Decided, Cleaning, Owning
  <1>4. "prior" \in Steps /\ run[p].pc \in Private
    BY <1>1 DEF Private, Steps
  <1>5. QED
    BY <1>1, <1>2, <1>3, <1>4, LocalGoes

LEMMA LocalStagePrior ==
    ASSUME LocalInv, NEW p \in Procs, StagePrior(p)
    PROVE  LocalInv'
  <1> DEFINE prior == Visible.reference
             r     == [run[p] EXCEPT !.pc = "objects", !.prior = prior]
  <1>1. /\ run[p].pc = "prior" /\ SameLatest /\ SameObjects /\ Quiet
        /\ IF Admitted(run[p].temp.bundle, prior) THEN run' = [run EXCEPT ![p] = r] ELSE Finish(p)
    BY DEF StagePrior, At
  <1>2. /\ stored \subseteq stored' /\ stored' \subseteq Bundles /\ durable \subseteq durable'
        /\ durable' \subseteq stored' /\ UNCHANGED <<inode, acked>>
        /\ stored' = stored /\ durable' = durable
    BY <1>1 DEF SameObjects, Quiet, LocalInv, LocalTyped
  <1>3. CASE Finish(p)
    BY <1>1, <1>2, <1>3, LocalEnds
  <1>4. CASE Admitted(run[p].temp.bundle, prior) /\ run' = [run EXCEPT ![p] = r]
    <2>1. prior \in Reference \cup {Absent}
      BY OwnRun DEF Directory
    <2>2. /\ r \in Run /\ r.pc = "objects" /\ r.prior = prior /\ r.temp = run[p].temp
          /\ r.marker = run[p].marker /\ r.held = run[p].held /\ r.outcome = run[p].outcome
      BY <2>1, OwnRun DEF Run, Steps
    <2> HIDE DEF r
    <2>3. r.prior # Absent => NotOlder(r.temp.bundle, r.prior.bundle)
      <3>1. run[p].temp \in Reference
        BY <1>1, OwnRun DEF Mine, Private, Run
      <3>2. QED
        BY <1>4, <2>1, <2>2, <3>1, BundlesAssumption DEF Admitted, NotOlder, Reference
    <2> Mine(run[p], Visible, stored, durable, inode)
      BY OwnRun
    <2>4. Mine(r, Visible, stored', durable', inode)
      BY <1>1, <1>2, <2>2, <2>3
         DEF Mine, Private, Marked, Backing, Decided, Cleaning, Owning
    <2>5. run[p].pc \in Private
      BY <1>1 DEF Private
    <2>6. QED
      BY <1>1, <1>2, <1>4, <2>2, <2>4, <2>5, LocalKeeps
  <1>5. QED
    BY <1>1, <1>3, <1>4

LEMMA LocalStageObjects ==
    ASSUME LocalInv, NEW p \in Procs, StageObjects(p)
    PROVE  LocalInv'
  <1> DEFINE r == [run[p] EXCEPT !.pc = "objectsSync"]
  <1>1. /\ run[p].pc = "objects" /\ stored' = stored \cup {run[p].temp.bundle}
        /\ run' = [run EXCEPT ![p] = r] /\ SameLatest /\ durable' = durable
        /\ UNCHANGED <<inode, acked>>
    BY DEF StageObjects, At, Goto, Quiet
  <1>2. r \in Run /\ Advanced(r, run[p], "objectsSync")
    BY OwnRun, NextStep DEF Steps
  <1> HIDE DEF r
  <1>3. run[p].temp.bundle \in Bundles
    BY <1>1, OwnRun DEF Mine, Private, Run, Reference
  <1>4. /\ stored \subseteq stored' /\ stored' \subseteq Bundles /\ durable \subseteq durable'
        /\ durable' \subseteq stored'
    BY <1>1, <1>3 DEF LocalInv, LocalTyped
  <1> Mine(run[p], Visible, stored, durable, inode)
    BY OwnRun
  <1>5. Mine(r, Visible, stored', durable', inode)
    BY <1>1, <1>2
       DEF Advanced, Mine, Private, Marked, Backing, Decided, Cleaning, Owning
  <1>6. run[p].pc \in Private
    BY <1>1 DEF Private
  <1>7. QED
    BY <1>1, <1>2, <1>4, <1>5, <1>6, LocalKeeps DEF Advanced

LEMMA LocalStageObjectsSync ==
    ASSUME LocalInv, NEW p \in Procs, StageObjectsSync(p)
    PROVE  LocalInv'
  <1> DEFINE r == [run[p] EXCEPT !.pc = "open"]
  <1>1. /\ run[p].pc = "objectsSync" /\ durable' = stored /\ stored' = stored
        /\ SameLatest /\ UNCHANGED <<inode, acked>>
        /\ Finish(p) \/ run' = [run EXCEPT ![p] = r]
    BY DEF StageObjectsSync, At, GotoOrFinish, Goto, Quiet
  <1>2. /\ stored \subseteq stored' /\ stored' \subseteq Bundles /\ durable \subseteq durable'
        /\ durable' \subseteq stored'
    BY <1>1 DEF LocalInv, LocalTyped
  <1>3. CASE Finish(p)
    BY <1>1, <1>2, <1>3, LocalEnds
  <1>4. CASE run' = [run EXCEPT ![p] = r]
    <2>1. r \in Run /\ Advanced(r, run[p], "open")
      BY OwnRun, NextStep DEF Steps
    <2> HIDE DEF r
    <2> Mine(run[p], Visible, stored, durable, inode)
      BY OwnRun
    <2>2. Mine(r, Visible, stored', durable', inode)
      BY <1>1, <2>1
         DEF Advanced, Mine, Private, Marked, Backing, Decided, Cleaning, Owning
    <2>3. run[p].pc \in Private
      BY <1>1 DEF Private
    <2>4. QED
      BY <1>1, <1>2, <1>4, <2>1, <2>2, <2>3, LocalKeeps DEF Advanced
  <1>5. QED
    BY <1>1, <1>3, <1>4

LEMMA LocalStageOpen ==
    ASSUME LocalInv, NEW p \in Procs, StageOpen(p)
    PROVE  LocalInv'
  <1> DEFINE marker == [intended |-> run[p].temp, prior |-> run[p].prior]
             r      == [run[p] EXCEPT !.pc = "install", !.marker = marker]
  <1>1. /\ run[p].pc = "open" /\ SameLatest /\ stored' = stored /\ durable' = durable
        /\ UNCHANGED <<inode, acked>>
        /\ Finish(p) \/ run' = [run EXCEPT ![p] = r]
    BY DEF StageOpen, At, SameObjects, Quiet
  <1>2. /\ stored \subseteq stored' /\ stored' \subseteq Bundles /\ durable \subseteq durable'
        /\ durable' \subseteq stored' /\ inode' \in Nat /\ inode <= inode'
    BY <1>1 DEF LocalInv, LocalTyped
  <1>3. CASE Finish(p)
    BY <1>1, <1>2, <1>3, LocalEnds
  <1>4. CASE run' = [run EXCEPT ![p] = r]
    <2> /\ Mine(run[p], Visible, stored, durable, inode) /\ run[p] \in Run
      BY OwnRun
    <2>1. run[p].temp \in Reference /\ run[p].temp # Absent /\ run[p].temp.inode <= inode
      BY <1>1 DEF Mine, Private, Run
    <2>2. marker \in Marker /\ marker.intended = run[p].temp /\ marker.prior = run[p].prior
      BY <2>1 DEF Marker, Run
    <2> HIDE DEF marker
    <2>3. /\ r \in Run /\ r.pc = "install" /\ r.prior = run[p].prior /\ r.temp = run[p].temp
          /\ r.marker = marker /\ r.held = run[p].held /\ r.outcome = run[p].outcome
      BY <2>2 DEF Run, Steps
    <2> HIDE DEF r
    <2>4. Mine(r, Visible, stored', durable', inode')
      BY <1>1, <2>1, <2>2, <2>3
         DEF Mine, Private, Marked, Backing, Decided, Cleaning, Owning, marker
    <2>5. ASSUME NEW q \in Procs \ {p} PROVE Apart(r, run[q]) /\ Apart(run[q], r)
      <3>1. Apart(run[p], run[q]) /\ Apart(run[q], run[p]) /\ run[q] \in Run
            /\ Mine(run[q], Visible, stored, durable, inode)
        BY OwnRun
      <3>2. run[q].marker # Absent => run[q].marker.intended # run[p].temp
        BY <1>1, <3>1 DEF Apart, Private
      <3>3. run[q].marker # marker
        BY <2>2, <3>2, AbsentAssumption
      <3>4. run[p].temp # run[q].temp
        BY <2>1, <3>1 DEF Apart
      <3>5. QED
        BY <1>1, <2>2, <2>3, <3>1, <3>2, <3>3, <3>4 DEF Apart, Private
    <2>6. QED
      BY <1>1, <1>2, <1>4, <2>3, <2>4, <2>5, LocalMoves
  <1>5. QED
    BY <1>1, <1>3, <1>4
-----------------------------------------------------------------------------
(* stage-local: the transaction                                            *)

LEMMA LocalStageInstall ==
    ASSUME LocalInv, NEW p \in Procs, StageInstall(p)
    PROVE  LocalInv'
  <1> DEFINE clean == Visible.record = Absent /\ Visible.recoveryTemp = Absent
  <1>1. /\ run[p].pc = "install" /\ GotoOrFinish(p, clean, "linkMarker")
        /\ SameLatest /\ SameObjects /\ Quiet
    BY DEF StageInstall, At
  <1> Mine(run[p], Visible, stored, durable, inode)
    BY OwnRun
  <1>2. ASSUME NEW r \in Run, Advanced(r, run[p], "linkMarker")
        PROVE  Mine(r, Visible, stored, durable, inode)
    BY <1>1, <1>2
       DEF Advanced, Mine, Private, Marked, Backing, Decided, Cleaning, Owning
  <1>3. "linkMarker" \in Steps /\ run[p].pc \in Private
    BY <1>1 DEF Private, Steps
  <1>4. clean \in BOOLEAN
    OBVIOUS
  <1> HIDE DEF clean
  <1>5. QED
    BY <1>1, <1>2, <1>3, <1>4, LocalGoes

LEMMA LocalStageLinkMarker ==
    ASSUME LocalInv, NEW p \in Procs, StageLinkMarker(p)
    PROVE  LocalInv'
  <1> DEFINE marker == run[p].marker
             dir    == [Visible EXCEPT !.recoveryTemp = marker]
  <1> /\ Mine(run[p], Visible, stored, durable, inode) /\ run[p] \in Run
      /\ Visible \in Directory /\ Promises(Visible, durable, inode, acked)
    BY OwnRun
  <1>1. run[p].pc = "linkMarker" /\ UNCHANGED <<stored, durable, inode, acked>>
    BY DEF StageLinkMarker, At, SameObjects, Quiet
  <1>2. CASE Visible.recoveryTemp # Absent
    <2>1. SameLatest /\ Finish(p)
      BY <1>2 DEF StageLinkMarker, Link
    <2>2. QED
      BY <1>1, <2>1, LocalEnds DEF LocalInv, LocalTyped
  <1>3. CASE Visible.recoveryTemp = Absent
    <2>1. Change(dir) /\ Goto(p, "lock")
      BY <1>3 DEF StageLinkMarker, Link
    <2>2. /\ marker \in Marker /\ marker # Absent /\ marker.intended = run[p].temp
          /\ marker.intended.inode <= inode
      BY <1>1, AbsentAssumption DEF Mine, Private, Marked, Run, Marker
    <2> HIDE DEF marker
    <2>3. /\ dir \in Directory /\ dir.recoveryTemp = marker /\ dir.record = Visible.record
          /\ dir.reference = Visible.reference /\ dir.latestTemp = Visible.latestTemp
      BY <2>2 DEF Directory
    <2> HIDE DEF dir
    <2>4. Promises(dir, durable, inode, acked)
      BY <2>2, <2>3 DEF Promises
    <2>5. ASSUME NEW r \in Run, Advanced(r, run[p], "lock")
          PROVE  Mine(r, dir, stored, durable, inode)
      BY <1>1, <2>3, <2>5
         DEF Advanced, Mine, Private, Marked, Backing, Decided, Cleaning, Owning, marker
    <2>6. ASSUME NEW q \in Procs \ {p} PROVE Mine(run[q], dir, stored, durable, inode)
      <3> /\ Mine(run[q], Visible, stored, durable, inode) /\ Apart(run[p], run[q])
          /\ run[q] \in Run
        BY OwnRun
      <3>1. run[q].pc \notin {"lock", "linkRecord"}
        BY <1>3, AbsentAssumption DEF Mine, Marked, Marker, Run
      <3>2. run[q].marker # marker
        BY <1>1, <2>2 DEF Apart, Private
      <3>3. QED
        BY <2>3, <3>1, <3>2 DEF Mine
    <2>7. "lock" \in Steps /\ run[p].pc \in Private
      BY <1>1 DEF Steps, Private
    <2>8. QED
      BY <1>1, <2>1, <2>3, <2>4, <2>5, <2>6, <2>7, LocalChanges
  <1>4. QED
    BY <1>2, <1>3

LEMMA LocalStageLock ==
    ASSUME LocalInv, NEW p \in Procs, StageLock(p)
    PROVE  LocalInv'
  <1> DEFINE r == [run[p] EXCEPT !.pc = "linkRecord", !.held = TRUE]
  <1> Mine(run[p], Visible, stored, durable, inode) /\ run[p] \in Run
    BY OwnRun
  <1>1. /\ run[p].pc = "lock" /\ SyncLatest /\ stored' = stored /\ durable' = durable
        /\ UNCHANGED <<inode, acked>> /\ run' = [run EXCEPT ![p] = r]
    BY DEF StageLock, At, SameObjects, Quiet
  <1>2. /\ stored \subseteq stored' /\ stored' \subseteq Bundles /\ durable \subseteq durable'
        /\ durable' \subseteq stored' /\ inode' \in Nat /\ inode <= inode'
    BY <1>1 DEF LocalInv, LocalTyped
  <1>3. /\ r \in Run /\ r.pc = "linkRecord" /\ r.prior = run[p].prior /\ r.temp = run[p].temp
        /\ r.marker = run[p].marker /\ r.held = TRUE /\ r.outcome = run[p].outcome
    BY DEF Run, Steps
  <1> HIDE DEF r
  <1>4. Mine(r, Visible, stored', durable', inode')
    BY <1>1, <1>3 DEF Mine, Private, Marked, Backing, Decided, Cleaning, Owning
  <1>5. ASSUME NEW q \in Procs \ {p} PROVE Apart(r, run[q]) /\ Apart(run[q], r)
    <2>1. Apart(run[p], run[q]) /\ Apart(run[q], run[p]) /\ run[q] \in Run
      BY OwnRun
    <2>2. run[p].marker # Absent /\ run[p].marker.intended = run[p].temp
      BY <1>1, AbsentAssumption DEF Mine, Marked, Private, Run, Marker
    <2>3. run[q].marker # run[p].marker
      BY <1>1, <2>1, <2>2 DEF Apart, Private
    <2>4. QED
      BY <1>1, <1>3, <2>1, <2>3 DEF Apart, Private
  <1>6. QED
    BY <1>1, <1>2, <1>3, <1>4, <1>5, LocalMoves

\* Only one process holds the flock of the marker in place.
LEMMA SoleOwner ==
    ASSUME LocalInv, NEW p \in Procs, run[p].pc \in Owning, NEW q \in Procs \ {p}
    PROVE  run[q].pc \notin Owning
  <1>1. /\ run[p].held /\ run[p].marker # Absent /\ Visible.record = run[p].marker
        /\ Apart(run[p], run[q]) /\ Mine(run[q], Visible, stored, durable, inode)
    BY OwnRun DEF Mine
  <1>2. QED
    BY <1>1 DEF Mine, Apart

\* What the owner may change without anybody else noticing: the temporary, and
\* the reference for one that is not older.
LEMMA OthersStand ==
    ASSUME LocalInv, NEW p \in Procs, run[p].pc \in Owning, NEW dir \in Directory,
           dir.record = Visible.record, dir.recoveryTemp = Visible.recoveryTemp,
           Visible.reference # Absent =>
              dir.reference # Absent /\ NotOlder(dir.reference.bundle, Visible.reference.bundle)
    PROVE  \A q \in Procs \ {p} : Mine(run[q], dir, stored, durable, inode)
  <1> SUFFICES ASSUME NEW q \in Procs \ {p} PROVE Mine(run[q], dir, stored, durable, inode)
    OBVIOUS
  <1> /\ Mine(run[q], Visible, stored, durable, inode) /\ run[q] \in Run
      /\ Visible \in Directory
    BY OwnRun
  <1>1. run[q].pc \notin Owning
    BY SoleOwner
  <1>2. run[q].pc = "cleanSync" /\ run[q].outcome = "committed" =>
           /\ dir.reference # Absent
           /\ NotOlder(dir.reference.bundle, run[q].marker.intended.bundle)
    <2> SUFFICES ASSUME run[q].pc = "cleanSync", run[q].outcome = "committed"
                 PROVE  /\ dir.reference # Absent
                        /\ NotOlder(dir.reference.bundle, run[q].marker.intended.bundle)
      OBVIOUS
    <2>1. /\ Visible.reference # Absent /\ run[q].marker # Absent
          /\ NotOlder(Visible.reference.bundle, run[q].marker.intended.bundle)
      BY DEF Mine
    <2>2. dir.reference # Absent /\ NotOlder(dir.reference.bundle, Visible.reference.bundle)
      BY <2>1
    <2>3. /\ Visible.reference.bundle \in Bundles /\ dir.reference.bundle \in Bundles
          /\ run[q].marker.intended.bundle \in Bundles
      BY <2>1, <2>2 DEF Directory, Reference, Run, Marker
    <2>4. QED
      BY <2>1, <2>2, <2>3, OlderIsOlder
  <1>3. QED
    BY <1>1, <1>2 DEF Mine, Owning, Cleaning

LEMMA LocalStageLinkRecord ==
    ASSUME LocalInv, NEW p \in Procs, StageLinkRecord(p)
    PROVE  LocalInv'
  <1> DEFINE marker == run[p].marker
             dir    == [Visible EXCEPT !.record = marker]
  <1> /\ Mine(run[p], Visible, stored, durable, inode) /\ run[p] \in Run
      /\ Visible \in Directory /\ Promises(Visible, durable, inode, acked)
    BY OwnRun
  <1>1. /\ run[p].pc = "linkRecord" /\ UNCHANGED <<stored, durable, inode, acked>>
        /\ Visible.recoveryTemp = marker
    BY DEF StageLinkRecord, At, SameObjects, Quiet, Mine
  <1>2. CASE Visible.record # Absent
    <2>1. SameLatest /\ Finish(p)
      BY <1>2 DEF StageLinkRecord, Link
    <2>2. QED
      BY <1>1, <2>1, LocalEnds DEF LocalInv, LocalTyped
  <1>3. CASE Visible.record = Absent
    <2>1. Change(dir) /\ Goto(p, "recordSync")
      BY <1>1, <1>3 DEF StageLinkRecord, Link
    <2>2. /\ marker \in Marker /\ marker # Absent /\ marker.intended = run[p].temp
          /\ marker.intended.inode <= inode /\ run[p].temp # Absent
      BY <1>1, AbsentAssumption DEF Mine, Private, Marked, Run, Marker
    <2> HIDE DEF marker
    <2>3. /\ dir \in Directory /\ dir.recoveryTemp = marker /\ dir.record = marker
          /\ dir.reference = Visible.reference /\ dir.latestTemp = Visible.latestTemp
      BY <1>1, <2>2 DEF Directory
    <2> HIDE DEF dir
    <2>4. Promises(dir, durable, inode, acked)
      BY <2>2, <2>3 DEF Promises
    <2>5. ASSUME NEW r \in Run, Advanced(r, run[p], "recordSync")
          PROVE  Mine(r, dir, stored, durable, inode)
      BY <1>1, <2>3, <2>5
         DEF Advanced, Mine, Private, Marked, Backing, Decided, Cleaning, Owning, marker
    <2>6. ASSUME NEW q \in Procs \ {p} PROVE Mine(run[q], dir, stored, durable, inode)
      <3> /\ Mine(run[q], Visible, stored, durable, inode) /\ Apart(run[p], run[q])
          /\ run[q] \in Run
        BY OwnRun
      <3>1. run[q].pc \notin Owning
        BY <1>3 DEF Mine
      <3>2. run[q].temp # dir.record.intended
        BY <2>2, <2>3 DEF Apart
      <3>3. QED
        BY <1>1, <2>3, <3>1, <3>2 DEF Mine, Owning, Cleaning
    <2>7. "recordSync" \in Steps /\ "recordSync" \notin Private
      BY DEF Steps, Private
    <2>8. QED
      BY <1>1, <2>1, <2>3, <2>4, <2>5, <2>6, <2>7, LocalChanges
  <1>4. QED
    BY <1>2, <1>3

LEMMA LocalStageRecordSync ==
    ASSUME LocalInv, NEW p \in Procs, StageRecordSync(p)
    PROVE  LocalInv'
  <1> DEFINE linked == Visible.record = run[p].marker /\ Links(run[p].marker) = 2
  <1>1. /\ run[p].pc = "recordSync" /\ GotoOrFinish(p, linked, "gate")
        /\ SyncLatest /\ SameObjects /\ Quiet
    BY DEF StageRecordSync, At
  <1> Mine(run[p], Visible, stored, durable, inode) /\ run[p] \in Run
    BY OwnRun
  <1>2. ASSUME NEW r \in Run, linked, Advanced(r, run[p], "gate")
        PROVE  Mine(r, Visible, stored, durable, inode)
    <2>1. Visible.record = run[p].marker /\ run[p].marker # Absent
      BY <1>1, <1>2, AbsentAssumption DEF Mine, Marked, Run, Marker
    <2>2. QED
      BY <1>1, <1>2, <2>1
         DEF Advanced, Mine, Private, Marked, Backing, Decided, Cleaning, Owning
  <1>3. "gate" \in Steps /\ "gate" \notin Private
    BY DEF Private, Steps
  <1>4. linked \in BOOLEAN
    OBVIOUS
  <1> HIDE DEF linked
  <1>5. QED
    BY <1>1, <1>2, <1>3, <1>4, LocalGoes

LEMMA LocalStageGate ==
    ASSUME LocalInv, NEW p \in Procs, StageGate(p)
    PROVE  LocalInv'
  <1> DEFINE same == Visible.reference = run[p].prior
  <1>1. /\ run[p].pc = "gate" /\ GotoOrFinish(p, same, "linkLatest")
        /\ SameLatest /\ SameObjects /\ Quiet
    BY DEF StageGate, At
  <1> Mine(run[p], Visible, stored, durable, inode)
    BY OwnRun
  <1>2. ASSUME NEW r \in Run, same, Advanced(r, run[p], "linkLatest")
        PROVE  Mine(r, Visible, stored, durable, inode)
    BY <1>1, <1>2
       DEF Advanced, Mine, Private, Marked, Backing, Decided, Cleaning, Owning
  <1>3. "linkLatest" \in Steps /\ "linkLatest" \notin Private
    BY DEF Private, Steps
  <1>4. same \in BOOLEAN
    OBVIOUS
  <1> HIDE DEF same
  <1>5. QED
    BY <1>1, <1>2, <1>3, <1>4, LocalGoes

LEMMA LocalStageLinkLatest ==
    ASSUME LocalInv, NEW p \in Procs, StageLinkLatest(p)
    PROVE  LocalInv'
  <1> DEFINE temp == run[p].temp
             dir  == [Visible EXCEPT !.latestTemp = temp]
  <1> /\ Mine(run[p], Visible, stored, durable, inode) /\ run[p] \in Run
      /\ Visible \in Directory /\ Promises(Visible, durable, inode, acked)
    BY OwnRun
  <1>1. run[p].pc = "linkLatest" /\ UNCHANGED <<stored, durable, inode, acked>>
    BY DEF StageLinkLatest, At, SameObjects, Quiet
  <1>2. CASE Visible.latestTemp # Absent
    <2>1. SameLatest /\ Finish(p)
      BY <1>2 DEF StageLinkLatest, Link
    <2>2. QED
      BY <1>1, <2>1, LocalEnds DEF LocalInv, LocalTyped
  <1>3. CASE Visible.latestTemp = Absent
    <2>1. Change(dir) /\ Goto(p, "latestTempSync")
      BY <1>3 DEF StageLinkLatest, Link
    <2>2. temp \in Reference /\ temp.bundle \in durable
      BY <1>1 DEF Mine, Private, Marked, Backing, Run
    <2>3. /\ dir \in Directory /\ dir.recoveryTemp = Visible.recoveryTemp
          /\ dir.record = Visible.record /\ dir.reference = Visible.reference
          /\ dir.latestTemp = temp
      BY <2>2 DEF Directory
    <2> HIDE DEF dir
    <2>4. Promises(dir, durable, inode, acked)
      BY <2>2, <2>3 DEF Promises
    <2>5. ASSUME NEW r \in Run, Advanced(r, run[p], "latestTempSync")
          PROVE  Mine(r, dir, stored, durable, inode)
      BY <1>1, <2>3, <2>5
         DEF Advanced, Mine, Private, Marked, Backing, Decided, Cleaning, Owning
    <2>6. \A q \in Procs \ {p} : Mine(run[q], dir, stored, durable, inode)
      <3>1. run[p].pc \in Owning
        BY <1>1 DEF Owning
      <3>2. QED
        BY <2>3, <3>1, OthersStand DEF NotOlder
    <2>7. "latestTempSync" \in Steps /\ "latestTempSync" \notin Private
      BY DEF Steps, Private
    <2>8. QED
      BY <1>1, <2>1, <2>3, <2>4, <2>5, <2>6, <2>7, LocalChanges
  <1>4. QED
    BY <1>2, <1>3

LEMMA LocalStageLatestTempSync ==
    ASSUME LocalInv, NEW p \in Procs, StageLatestTempSync(p)
    PROVE  LocalInv'
  <1> DEFINE linked == Visible.latestTemp = run[p].temp
  <1>1. /\ run[p].pc = "latestTempSync" /\ GotoOrFinish(p, linked, "rename")
        /\ SyncLatest /\ SameObjects /\ Quiet
    BY DEF StageLatestTempSync, At
  <1> Mine(run[p], Visible, stored, durable, inode)
    BY OwnRun
  <1>2. ASSUME NEW r \in Run, linked, Advanced(r, run[p], "rename")
        PROVE  Mine(r, Visible, stored, durable, inode)
    BY <1>1, <1>2
       DEF Advanced, Mine, Private, Marked, Backing, Decided, Cleaning, Owning
  <1>3. "rename" \in Steps /\ "rename" \notin Private
    BY DEF Private, Steps
  <1>4. linked \in BOOLEAN
    OBVIOUS
  <1> HIDE DEF linked
  <1>5. QED
    BY <1>1, <1>2, <1>3, <1>4, LocalGoes

LEMMA LocalStageRename ==
    ASSUME LocalInv, NEW p \in Procs, StageRename(p)
    PROVE  LocalInv'
  <1> DEFINE temp == run[p].temp
             dir  == [Visible EXCEPT !.reference = temp, !.latestTemp = Absent]
             free == run[p].prior = Absent => Visible.reference = Absent
  <1> /\ Mine(run[p], Visible, stored, durable, inode) /\ run[p] \in Run
      /\ Visible \in Directory /\ Promises(Visible, durable, inode, acked)
    BY OwnRun
  <1>1. /\ run[p].pc = "rename" /\ UNCHANGED <<stored, durable, inode, acked>>
        /\ Visible.latestTemp = temp /\ Visible.reference = run[p].prior
    BY DEF StageRename, At, SameObjects, Quiet, Mine
  <1>2. /\ temp \in Reference /\ temp # Absent /\ temp.bundle \in durable
        /\ run[p].prior # Absent => NotOlder(temp.bundle, run[p].prior.bundle)
    BY <1>1 DEF Mine, Private, Marked, Backing, Decided, Run
  <1>3. Change(dir) /\ Goto(p, "renameSync")
    BY <1>1, <1>2 DEF StageRename, GotoOrFinish
  <1>4. /\ dir \in Directory /\ dir.recoveryTemp = Visible.recoveryTemp
        /\ dir.record = Visible.record /\ dir.reference = temp
        /\ dir.latestTemp = Absent
    BY <1>2 DEF Directory
  <1> HIDE DEF dir, free
  <1>5. Promises(dir, durable, inode, acked)
    <2>1. acked # Absent => NotOlder(temp.bundle, acked)
      <3> SUFFICES ASSUME acked # Absent PROVE NotOlder(temp.bundle, acked)
        OBVIOUS
      <3>1. Visible.reference # Absent /\ NotOlder(Visible.reference.bundle, acked)
        BY DEF Promises
      <3>2. NotOlder(temp.bundle, Visible.reference.bundle)
        BY <1>1, <1>2, <3>1
      <3>3. acked \in Bundles /\ Visible.reference.bundle \in Bundles /\ temp.bundle \in Bundles
        BY <1>2, <3>1 DEF LocalInv, LocalTyped, Directory, Reference
      <3>4. QED
        BY <3>1, <3>2, <3>3, OlderIsOlder
    <2>2. QED
      BY <1>2, <1>4, <2>1 DEF Promises
  <1>6. ASSUME NEW r \in Run, Advanced(r, run[p], "renameSync")
        PROVE  Mine(r, dir, stored, durable, inode)
    BY <1>1, <1>4, <1>6
       DEF Advanced, Mine, Private, Marked, Backing, Decided, Cleaning, Owning
  <1>7. \A q \in Procs \ {p} : Mine(run[q], dir, stored, durable, inode)
    <2>1. run[p].pc \in Owning
      BY <1>1 DEF Owning
    <2>2. QED
      BY <1>1, <1>2, <1>4, <2>1, OthersStand
  <1>8. "renameSync" \in Steps /\ "renameSync" \notin Private
    BY DEF Steps, Private
  <1>9. QED
    BY <1>1, <1>3, <1>4, <1>5, <1>6, <1>7, <1>8, LocalChanges

LEMMA LocalStageRenameSync ==
    ASSUME LocalInv, NEW p \in Procs, StageRenameSync(p)
    PROVE  LocalInv'
  <1> DEFINE r == [run[p] EXCEPT !.pc = "cleanTemp", !.outcome = "committed"]
  <1> Mine(run[p], Visible, stored, durable, inode) /\ run[p] \in Run
    BY OwnRun
  <1>1. /\ run[p].pc = "renameSync" /\ SyncLatest /\ stored' = stored /\ durable' = durable
        /\ UNCHANGED <<inode, acked>>
        /\ Finish(p) \/ (RecoveryRelation(p) /\ run' = [run EXCEPT ![p] = r])
    BY DEF StageRenameSync, At, SameObjects, Quiet
  <1>2. /\ stored \subseteq stored' /\ stored' \subseteq Bundles /\ durable \subseteq durable'
        /\ durable' \subseteq stored'
    BY <1>1 DEF LocalInv, LocalTyped
  <1>3. CASE Finish(p)
    BY <1>1, <1>2, <1>3, LocalEnds
  <1>4. CASE RecoveryRelation(p) /\ run' = [run EXCEPT ![p] = r]
    <2>1. /\ r \in Run /\ r.pc = "cleanTemp" /\ r.prior = run[p].prior /\ r.temp = run[p].temp
          /\ r.marker = run[p].marker /\ r.held = run[p].held
      BY DEF Run, Steps
    <2> HIDE DEF r
    <2>2. Visible.record = run[p].marker /\ Visible.reference = run[p].temp
      BY <1>4 DEF RecoveryRelation
    <2>3. run[p].marker.intended = run[p].temp
      BY <1>1 DEF Mine, Marked
    <2>4. Mine(r, Visible, stored', durable', inode)
      BY <1>1, <2>1, <2>2, <2>3
         DEF Mine, Private, Marked, Backing, Decided, Cleaning, Owning
    <2>5. r.pc \notin Private
      BY <2>1 DEF Private
    <2>6. QED
      BY <1>1, <1>2, <1>4, <2>1, <2>4, <2>5, LocalKeeps
  <1>5. QED
    BY <1>1, <1>3, <1>4
-----------------------------------------------------------------------------
(* recover-local                                                           *)

\* The lookups, which nothing depends on: only what was seen and the step change.
LEMMA LocalLooks ==
    ASSUME LocalInv, NEW p \in Procs,
           RecoverStart(p) \/ RecoverSeeTemp(p) \/ RecoverSeeMarker(p)
           \/ RecoverSeeRecoveryTemp(p)
    PROVE  LocalInv'
  <1> Mine(run[p], Visible, stored, durable, inode) /\ run[p] \in Run
    BY OwnRun
  <1> DEFINE Looking == {"seeTemp", "seeMarker", "seeRecoveryTemp", "openMarker"}
  <1>1. /\ SameLatest /\ stored' = stored /\ durable' = durable /\ UNCHANGED <<inode, acked>>
        /\ run[p].pc \in {"idle"} \cup Looking
    BY DEF RecoverStart, RecoverSeeTemp, RecoverSeeMarker, RecoverSeeRecoveryTemp,
           At, SameObjects, Quiet
  <1>2. \/ Finish(p)
        \/ \E r \in Run : /\ run' = [run EXCEPT ![p] = r]
                          /\ r.pc \in Looking /\ r.temp = run[p].temp
                          /\ r.marker = run[p].marker /\ r.held = run[p].held
    <2>1. CASE RecoverStart(p)
      <3> DEFINE r == [run[p] EXCEPT !.pc = "seeTemp"]
      <3>1. run' = [run EXCEPT ![p] = r]
        BY <2>1 DEF RecoverStart, Goto
      <3>2. /\ r \in Run /\ r.pc \in Looking /\ r.temp = run[p].temp
            /\ r.marker = run[p].marker /\ r.held = run[p].held
        BY DEF Run, Steps
      <3>3. QED
        BY <3>1, <3>2
    <2>2. CASE RecoverSeeTemp(p)
      <3> DEFINE r == [run[p] EXCEPT !.pc = "seeMarker", !.sawTemp = (Visible.latestTemp # Absent)]
      <3>1. run' = [run EXCEPT ![p] = r]
        BY <2>2 DEF RecoverSeeTemp
      <3>2. /\ r \in Run /\ r.pc \in Looking /\ r.temp = run[p].temp
            /\ r.marker = run[p].marker /\ r.held = run[p].held
        BY DEF Run, Steps
      <3>3. QED
        BY <3>1, <3>2
    <2>3. CASE RecoverSeeMarker(p)
      <3> DEFINE r == [run[p] EXCEPT !.pc = "seeRecoveryTemp", !.sawMarker = (Visible.record # Absent)]
      <3>1. run' = [run EXCEPT ![p] = r]
        BY <2>3 DEF RecoverSeeMarker
      <3>2. /\ r \in Run /\ r.pc \in Looking /\ r.temp = run[p].temp
            /\ r.marker = run[p].marker /\ r.held = run[p].held
        BY DEF Run, Steps
      <3>3. QED
        BY <3>1, <3>2
    <2>4. CASE RecoverSeeRecoveryTemp(p)
      <3> DEFINE r == [run[p] EXCEPT !.pc = "openMarker",
                                     !.sawRecoveryTemp = (Visible.recoveryTemp # Absent)]
      <3>1. Finish(p) \/ run' = [run EXCEPT ![p] = r]
        BY <2>4 DEF RecoverSeeRecoveryTemp
      <3>2. /\ r \in Run /\ r.pc \in Looking /\ r.temp = run[p].temp
            /\ r.marker = run[p].marker /\ r.held = run[p].held
        BY DEF Run, Steps
      <3>3. QED
        BY <3>1, <3>2
    <2>5. QED
      BY <2>1, <2>2, <2>3, <2>4
  <1>3. /\ stored \subseteq stored' /\ stored' \subseteq Bundles /\ durable \subseteq durable'
        /\ durable' \subseteq stored'
    BY <1>1 DEF LocalInv, LocalTyped
  <1>4. CASE Finish(p)
    BY <1>1, <1>3, <1>4, LocalEnds
  <1>5. ASSUME NEW r \in Run, run' = [run EXCEPT ![p] = r],
               r.pc \in Looking, r.temp = run[p].temp,
               r.marker = run[p].marker, r.held = run[p].held
        PROVE  LocalInv'
    <2>1. r.held = FALSE
      BY <1>1, <1>5 DEF Mine, Owning, Cleaning, Run
    <2>2. Mine(r, Visible, stored', durable', inode)
      BY <1>1, <1>5, <2>1 DEF Mine, Private, Marked, Backing, Decided, Cleaning, Owning
    <2>3. r.pc \notin Private
      BY <1>5 DEF Private
    <2>4. QED
      BY <1>1, <1>3, <1>5, <2>2, <2>3, LocalKeeps
  <1>6. QED
    BY <1>2, <1>4, <1>5

\* The link count tells which of the two names a marker has.
LEMMA LinkCount ==
    ASSUME NEW marker
    PROVE  /\ Links(marker) = 2 => Visible.record = marker /\ Visible.recoveryTemp = marker
           /\ Links(marker) = 1 => Visible.record = marker \/ Visible.recoveryTemp = marker
           /\ Links(marker) = 1 => ~(Visible.record = marker /\ Visible.recoveryTemp = marker)
  <1> DEFINE names == {name \in {"record", "recoveryTemp"} : Visible[name] = marker}
  <1>1. Links(marker) = Cardinality(names)
    BY DEF Links
  <1>2. CASE Visible.record = marker /\ Visible.recoveryTemp = marker
    <2>1. names = {"record"} \cup {"recoveryTemp"}
      BY <1>2
    <2>2. IsFiniteSet({"record"}) /\ Cardinality({"record"}) = 1
      BY FS_Singleton
    <2>3. Cardinality({"record"} \cup {"recoveryTemp"}) = Cardinality({"record"}) + 1
      BY <2>2, FS_AddElement
    <2>4. Cardinality(names) = 2
      BY <2>1, <2>2, <2>3
    <2>5. QED
      BY <1>1, <1>2, <2>4
  <1>3. CASE Visible.record = marker /\ Visible.recoveryTemp # marker
    <2>1. names = {"record"}
      BY <1>3
    <2>2. Cardinality(names) = 1
      BY <2>1, FS_Singleton
    <2>3. QED
      BY <1>1, <1>3, <2>2
  <1>4. CASE Visible.record # marker /\ Visible.recoveryTemp = marker
    <2>1. names = {"recoveryTemp"}
      BY <1>4
    <2>2. Cardinality(names) = 1
      BY <2>1, FS_Singleton
    <2>3. QED
      BY <1>1, <1>4, <2>2
  <1>5. CASE Visible.record # marker /\ Visible.recoveryTemp # marker
    <2>1. names = {}
      BY <1>5
    <2>2. Cardinality(names) = 0
      BY <2>1, FS_EmptySet
    <2>3. QED
      BY <1>1, <2>2
  <1>6. QED
    BY <1>2, <1>3, <1>4, <1>5

LEMMA LocalRecoverOpens ==
    ASSUME LocalInv, NEW p \in Procs, RecoverOpenMarker(p)
    PROVE  LocalInv'
  <1> DEFINE r == [run[p] EXCEPT !.pc = "lockMarker", !.marker = Visible.record]
  <1> /\ Mine(run[p], Visible, stored, durable, inode) /\ run[p] \in Run
      /\ Visible \in Directory /\ Promises(Visible, durable, inode, acked)
    BY OwnRun
  <1>1. /\ run[p].pc = "openMarker" /\ SameLatest /\ stored' = stored /\ durable' = durable
        /\ UNCHANGED <<inode, acked>>
        /\ Finish(p) \/ (Visible.record # Absent /\ run' = [run EXCEPT ![p] = r])
    BY DEF RecoverOpenMarker, At, SameObjects, Quiet
  <1>2. /\ stored \subseteq stored' /\ stored' \subseteq Bundles /\ durable \subseteq durable'
        /\ durable' \subseteq stored' /\ inode' \in Nat /\ inode <= inode'
    BY <1>1 DEF LocalInv, LocalTyped
  <1>3. CASE Finish(p)
    BY <1>1, <1>2, <1>3, LocalEnds
  <1>4. CASE Visible.record # Absent /\ run' = [run EXCEPT ![p] = r]
    <2>1. Visible.record \in Marker /\ Visible.record.intended.inode <= inode
      BY <1>4 DEF Directory, Promises
    <2>2. run[p].held = FALSE
      BY <1>1 DEF Mine, Owning, Cleaning, Run
    <2>3. /\ r \in Run /\ r.pc = "lockMarker" /\ r.temp = run[p].temp
          /\ r.marker = Visible.record /\ r.held = FALSE
      BY <2>1, <2>2 DEF Run, Steps
    <2> HIDE DEF r
    <2>4. Mine(r, Visible, stored', durable', inode')
      BY <1>1, <1>4, <2>1, <2>3 DEF Mine, Private, Marked, Backing, Decided, Cleaning, Owning
    <2>5. ASSUME NEW q \in Procs \ {p} PROVE Apart(r, run[q]) /\ Apart(run[q], r)
      <3>1. Apart(run[p], run[q]) /\ Apart(run[q], run[p])
            /\ Mine(run[q], Visible, stored, durable, inode)
        BY OwnRun
      <3>2. run[q].pc \in Private => Visible.record.intended # run[q].temp
        BY <1>4, <3>1 DEF Mine
      <3>3. r.pc \notin Private
        BY <2>3 DEF Private
      <3>4. QED
        BY <2>3, <3>1, <3>2, <3>3 DEF Apart
    <2>6. QED
      BY <1>1, <1>2, <1>4, <2>3, <2>4, <2>5, LocalMoves
  <1>5. QED
    BY <1>1, <1>3, <1>4

LEMMA LocalRecoverLocks ==
    ASSUME LocalInv, NEW p \in Procs, RecoverLockMarker(p)
    PROVE  LocalInv'
  <1> DEFINE marker == run[p].marker
             r      == [run[p] EXCEPT !.pc = "decide", !.held = TRUE]
             locks  == /\ ~Locked(marker)
                       /\ Links(marker) = ExpectedLinks(p)
                       /\ run[p].sawRecoveryTemp => Visible.recoveryTemp = marker
                       /\ Backed(marker.intended) /\ Backed(marker.prior)
  <1> Mine(run[p], Visible, stored, durable, inode) /\ run[p] \in Run
    BY OwnRun
  <1>1. /\ run[p].pc = "lockMarker" /\ SameLatest /\ stored' = stored /\ durable' = durable
        /\ UNCHANGED <<inode, acked>>
        /\ Finish(p) \/ (locks /\ run' = [run EXCEPT ![p] = r])
    BY DEF RecoverLockMarker, At, SameObjects, Quiet
  <1>2. /\ stored \subseteq stored' /\ stored' \subseteq Bundles /\ durable \subseteq durable'
        /\ durable' \subseteq stored' /\ inode' \in Nat /\ inode <= inode'
    BY <1>1 DEF LocalInv, LocalTyped
  <1>3. CASE Finish(p)
    BY <1>1, <1>2, <1>3, LocalEnds
  <1>4. CASE locks /\ run' = [run EXCEPT ![p] = r]
    <2>1. Visible.record = marker /\ marker # Absent
      <3>1. Links(marker) \in {1, 2}
        BY <1>4 DEF ExpectedLinks
      <3>2. Visible.record = marker \/ Visible.recoveryTemp = marker
        BY <3>1, LinkCount
      <3>3. QED
        BY <1>1, <3>2 DEF Mine
    <2>2. \A q \in Procs : ~(run[q].held /\ run[q].marker = marker)
      BY <1>4 DEF Locked
    <2>3. /\ r \in Run /\ r.pc = "decide" /\ r.temp = run[p].temp
          /\ r.marker = marker /\ r.held = TRUE
      BY DEF Run, Steps
    <2> HIDE DEF r, locks
    <2>4. Mine(r, Visible, stored', durable', inode')
      BY <1>1, <2>1, <2>3 DEF Mine, Private, Marked, Backing, Decided, Cleaning, Owning
    <2>5. ASSUME NEW q \in Procs \ {p} PROVE Apart(r, run[q]) /\ Apart(run[q], r)
      <3>1. Apart(run[p], run[q]) /\ Apart(run[q], run[p])
        BY OwnRun
      <3>2. r.pc \notin Private
        BY <2>3 DEF Private
      <3>3. QED
        BY <2>2, <2>3, <3>1, <3>2 DEF Apart
    <2>6. QED
      BY <1>1, <1>2, <1>4, <2>3, <2>4, <2>5, LocalMoves
  <1>5. QED
    BY <1>1, <1>3, <1>4

LEMMA LocalRecoverDecides ==
    ASSUME LocalInv, NEW p \in Procs, RecoverDecide(p)
    PROVE  LocalInv'
  <1> DEFINE r == [run[p] EXCEPT !.outcome = Verdict(p), !.pc = AfterVerdict(p)]
  <1> Mine(run[p], Visible, stored, durable, inode) /\ run[p] \in Run
    BY OwnRun
  <1>1. /\ run[p].pc = "decide" /\ SameLatest /\ stored' = stored /\ durable' = durable
        /\ UNCHANGED <<inode, acked>>
        /\ Finish(p) \/ (Verdict(p) # "refuse" /\ run' = [run EXCEPT ![p] = r])
    BY DEF RecoverDecide, At, SameObjects, Quiet
  <1>2. /\ stored \subseteq stored' /\ stored' \subseteq Bundles /\ durable \subseteq durable'
        /\ durable' \subseteq stored'
    BY <1>1 DEF LocalInv, LocalTyped
  <1>3. CASE Finish(p)
    BY <1>1, <1>2, <1>3, LocalEnds
  <1>4. CASE Verdict(p) # "refuse" /\ run' = [run EXCEPT ![p] = r]
    <2>1. Verdict(p) \in {"committed", "aborted"}
      BY <1>4 DEF Verdict, Run
    <2>2. AfterVerdict(p) \in {"unlinkTemp", "settleSync"}
      BY DEF AfterVerdict
    <2>3. /\ r \in Run /\ r.pc \in {"unlinkTemp", "settleSync"} /\ r.temp = run[p].temp
          /\ r.marker = run[p].marker /\ r.held = run[p].held
      BY <2>1, <2>2 DEF Run, Steps
    <2> HIDE DEF r
    <2>4. Mine(r, Visible, stored', durable', inode)
      BY <1>1, <2>3 DEF Mine, Private, Marked, Backing, Decided, Cleaning, Owning
    <2>5. r.pc \notin Private
      BY <2>3 DEF Private
    <2>6. QED
      BY <1>1, <1>2, <1>4, <2>3, <2>4, <2>5, LocalKeeps
  <1>5. QED
    BY <1>1, <1>3, <1>4

LEMMA LocalRecoverUnlinks ==
    ASSUME LocalInv, NEW p \in Procs, RecoverUnlinkTemp(p)
    PROVE  LocalInv'
  <1> DEFINE dir == [Visible EXCEPT !.latestTemp = Absent]
  <1> /\ Mine(run[p], Visible, stored, durable, inode) /\ run[p] \in Run
      /\ Visible \in Directory /\ Promises(Visible, durable, inode, acked)
    BY OwnRun
  <1>1. /\ run[p].pc = "unlinkTemp" /\ UNCHANGED <<stored, durable, inode, acked>>
        /\ (SameLatest /\ Finish(p)) \/ (Change(dir) /\ Goto(p, "settleSync"))
    BY DEF RecoverUnlinkTemp, At, SameObjects, Quiet
  <1>2. CASE SameLatest /\ Finish(p)
    BY <1>1, <1>2, LocalEnds DEF LocalInv, LocalTyped
  <1>3. CASE Change(dir) /\ Goto(p, "settleSync")
    <2>1. /\ dir \in Directory /\ dir.recoveryTemp = Visible.recoveryTemp
          /\ dir.record = Visible.record /\ dir.reference = Visible.reference
          /\ dir.latestTemp = Absent
      BY DEF Directory
    <2> HIDE DEF dir
    <2>2. Promises(dir, durable, inode, acked)
      BY <2>1 DEF Promises
    <2>3. ASSUME NEW r \in Run, Advanced(r, run[p], "settleSync")
          PROVE  Mine(r, dir, stored, durable, inode)
      BY <1>1, <2>1, <2>3
         DEF Advanced, Mine, Private, Marked, Backing, Decided, Cleaning, Owning
    <2>4. \A q \in Procs \ {p} : Mine(run[q], dir, stored, durable, inode)
      <3>1. run[p].pc \in Owning
        BY <1>1 DEF Owning
      <3>2. QED
        BY <2>1, <3>1, OthersStand DEF NotOlder
    <2>5. "settleSync" \in Steps /\ "settleSync" \notin Private
      BY DEF Steps, Private
    <2>6. QED
      BY <1>1, <1>3, <2>1, <2>2, <2>3, <2>4, <2>5, LocalChanges
  <1>4. QED
    BY <1>1, <1>2, <1>3

LEMMA LocalRecoverSettles ==
    ASSUME LocalInv, NEW p \in Procs, RecoverSettleSync(p)
    PROVE  LocalInv'
  <1> DEFINE settled == Settled(p)
  <1>1. /\ run[p].pc = "settleSync" /\ GotoOrFinish(p, settled, "cleanTemp")
        /\ SyncLatest /\ SameObjects /\ Quiet
    BY DEF RecoverSettleSync, At
  <1> Mine(run[p], Visible, stored, durable, inode)
    BY OwnRun
  <1>2. ASSUME NEW r \in Run, settled, Advanced(r, run[p], "cleanTemp")
        PROVE  Mine(r, Visible, stored, durable, inode)
    <2>1. run[p].outcome = "committed" => Visible.reference = run[p].marker.intended
      BY <1>2 DEF Settled
    <2>2. QED
      BY <1>1, <1>2, <2>1
         DEF Advanced, Mine, Private, Marked, Backing, Decided, Cleaning, Owning
  <1>3. "cleanTemp" \in Steps /\ "cleanTemp" \notin Private
    BY DEF Private, Steps
  <1>4. settled \in BOOLEAN
    BY DEF Settled
  <1> HIDE DEF settled
  <1>5. QED
    BY <1>1, <1>2, <1>3, <1>4, LocalGoes
-----------------------------------------------------------------------------
(* cleanup_recovery_record                                                 *)

LEMMA LocalCleansTemp ==
    ASSUME LocalInv, NEW p \in Procs, CleanTemp(p)
    PROVE  LocalInv'
  <1> DEFINE dir    == [Visible EXCEPT !.recoveryTemp = Absent]
             marker == run[p].marker
  <1> /\ Mine(run[p], Visible, stored, durable, inode) /\ run[p] \in Run
      /\ Visible \in Directory /\ Promises(Visible, durable, inode, acked)
    BY OwnRun
  <1>1. /\ run[p].pc = "cleanTemp" /\ UNCHANGED <<stored, durable, inode, acked>>
        /\ SameObjects /\ Quiet
        /\ \/ SameLatest /\ Finish(p)
           \/ Visible.recoveryTemp = marker /\ Change(dir) /\ Goto(p, "cleanTempSync")
           \/ SameLatest /\ Goto(p, "cleanRecord")
    BY DEF CleanTemp, At, SameObjects, Quiet
  <1>2. CASE SameLatest /\ Finish(p)
    BY <1>1, <1>2, LocalEnds DEF LocalInv, LocalTyped
  <1>3. CASE Visible.recoveryTemp = marker /\ Change(dir) /\ Goto(p, "cleanTempSync")
    <2>1. /\ dir \in Directory /\ dir.recoveryTemp = Absent
          /\ dir.record = Visible.record /\ dir.reference = Visible.reference
          /\ dir.latestTemp = Visible.latestTemp
      BY DEF Directory
    <2> HIDE DEF dir
    <2>2. Promises(dir, durable, inode, acked)
      BY <2>1 DEF Promises
    <2>3. ASSUME NEW r \in Run, Advanced(r, run[p], "cleanTempSync")
          PROVE  Mine(r, dir, stored, durable, inode)
      BY <1>1, <2>1, <2>3
         DEF Advanced, Mine, Private, Marked, Backing, Decided, Cleaning, Owning
    <2>4. ASSUME NEW q \in Procs \ {p} PROVE Mine(run[q], dir, stored, durable, inode)
      <3> /\ Mine(run[q], Visible, stored, durable, inode) /\ Apart(run[q], run[p])
          /\ run[q] \in Run
        BY OwnRun
      <3>1. run[q].pc \notin {"lock", "linkRecord"}
        <4> SUFFICES ASSUME run[q].pc \in {"lock", "linkRecord"} PROVE FALSE
          OBVIOUS
        <4>1. /\ run[q].marker = marker /\ run[q].marker.intended = run[q].temp
              /\ marker # Absent
          BY <1>1, <1>3 DEF Mine, Marked, Owning, Cleaning
        <4>2. QED
          BY <4>1 DEF Apart, Private
      <3>2. run[q].pc = "lockMarker" => run[q].marker # Absent
        BY DEF Mine
      <3>3. QED
        BY <2>1, <3>1, <3>2 DEF Mine
    <2>5. "cleanTempSync" \in Steps /\ "cleanTempSync" \notin Private
      BY DEF Steps, Private
    <2>6. QED
      BY <1>1, <1>3, <2>1, <2>2, <2>3, <2>4, <2>5, LocalChanges
  <1>4. CASE SameLatest /\ Goto(p, "cleanRecord")
    <2>1. ASSUME NEW r \in Run, Advanced(r, run[p], "cleanRecord")
          PROVE  Mine(r, Visible, stored, durable, inode)
      BY <1>1, <2>1
         DEF Advanced, Mine, Private, Marked, Backing, Decided, Cleaning, Owning
    <2>2. "cleanRecord" \in Steps /\ "cleanRecord" \notin Private
      BY DEF Private, Steps
    <2>3. GotoOrFinish(p, TRUE, "cleanRecord")
      BY <1>4 DEF GotoOrFinish
    <2>4. QED
      BY <1>1, <1>4, <2>1, <2>2, <2>3, LocalGoes
  <1>5. QED
    BY <1>1, <1>2, <1>3, <1>4

LEMMA LocalCleanTempSyncs ==
    ASSUME LocalInv, NEW p \in Procs, CleanTempSync(p)
    PROVE  LocalInv'
  <1>1. /\ run[p].pc = "cleanTempSync" /\ GotoOrFinish(p, TRUE, "cleanRecord")
        /\ SyncLatest /\ SameObjects /\ Quiet
    BY DEF CleanTempSync, At, GotoOrFinish
  <1> Mine(run[p], Visible, stored, durable, inode)
    BY OwnRun
  <1>2. ASSUME NEW r \in Run, Advanced(r, run[p], "cleanRecord")
        PROVE  Mine(r, Visible, stored, durable, inode)
    BY <1>1, <1>2
       DEF Advanced, Mine, Private, Marked, Backing, Decided, Cleaning, Owning
  <1>3. "cleanRecord" \in Steps /\ "cleanRecord" \notin Private
    BY DEF Private, Steps
  <1>4. QED
    BY <1>1, <1>2, <1>3, LocalGoes

LEMMA LocalCleansRecord ==
    ASSUME LocalInv, NEW p \in Procs, CleanRecord(p)
    PROVE  LocalInv'
  <1> DEFINE dir    == [Visible EXCEPT !.record = Absent]
             marker == run[p].marker
  <1> /\ Mine(run[p], Visible, stored, durable, inode) /\ run[p] \in Run
      /\ Visible \in Directory /\ Promises(Visible, durable, inode, acked)
    BY OwnRun
  <1>1. /\ run[p].pc = "cleanRecord" /\ UNCHANGED <<stored, durable, inode, acked>>
        /\ \/ SameLatest /\ Finish(p)
           \/ Links(marker) = 1 /\ Change(dir) /\ Goto(p, "cleanSync")
    BY DEF CleanRecord, At, SameObjects, Quiet
  <1>2. CASE SameLatest /\ Finish(p)
    BY <1>1, <1>2, LocalEnds DEF LocalInv, LocalTyped
  <1>3. CASE Links(marker) = 1 /\ Change(dir) /\ Goto(p, "cleanSync")
    <2>1. /\ dir \in Directory /\ dir.record = Absent
          /\ dir.recoveryTemp = Visible.recoveryTemp
          /\ dir.reference = Visible.reference /\ dir.latestTemp = Visible.latestTemp
      BY DEF Directory
    <2> HIDE DEF dir
    <2>2. Promises(dir, durable, inode, acked)
      BY <2>1 DEF Promises
    <2>3. marker \in Marker /\ marker # Absent /\ Visible.record = marker
      BY <1>1 DEF Mine, Owning, Cleaning, Run
    <2>4. ASSUME NEW r \in Run, Advanced(r, run[p], "cleanSync")
          PROVE  Mine(r, dir, stored, durable, inode)
      <3>1. r.outcome = "committed" =>
               dir.reference # Absent /\ NotOlder(dir.reference.bundle, r.marker.intended.bundle)
        BY <1>1, <2>1, <2>3, <2>4, AbsentAssumption
           DEF Advanced, Mine, Cleaning, NotOlder, Marker
      <3>2. QED
        BY <1>1, <2>1, <2>3, <2>4, <3>1
           DEF Advanced, Mine, Private, Marked, Backing, Decided, Cleaning, Owning
    <2>5. ASSUME NEW q \in Procs \ {p} PROVE Mine(run[q], dir, stored, durable, inode)
      <3> /\ Mine(run[q], Visible, stored, durable, inode) /\ Apart(run[q], run[p])
          /\ run[q] \in Run
        BY OwnRun
      <3>1. run[q].pc \notin Owning
        <4>1. run[p].pc \in Owning
          BY <1>1 DEF Owning, Cleaning
        <4>2. QED
          BY <4>1, SoleOwner
      <3>2. run[q].pc = "lockMarker" => Visible.recoveryTemp # run[q].marker
        BY <1>3, <2>3, LinkCount DEF Mine
      <3>3. QED
        BY <2>1, <3>1, <3>2 DEF Mine, Owning, Cleaning
    <2>6. "cleanSync" \in Steps /\ "cleanSync" \notin Private
      BY DEF Steps, Private
    <2>7. QED
      BY <1>1, <1>3, <2>1, <2>2, <2>4, <2>5, <2>6, LocalChanges
  <1>4. QED
    BY <1>1, <1>2, <1>3

\* The command reports what it did: from now on the catalog is acknowledged.
LEMMA LocalCleanSyncs ==
    ASSUME LocalInv, NEW p \in Procs, CleanSync(p)
    PROVE  LocalInv'
  <1> /\ Mine(run[p], Visible, stored, durable, inode) /\ run[p] \in Run
      /\ Visible \in Directory /\ Promises(Visible, durable, inode, acked)
    BY OwnRun
  <1>1. /\ run[p].pc = "cleanSync" /\ SyncLatest /\ UNCHANGED <<stored, durable, inode>>
        /\ run' = [run EXCEPT ![p] = NoRun]
        /\ acked' = IF run[p].outcome = "committed" THEN run[p].marker.intended.bundle ELSE acked
    BY DEF CleanSync, At, Finish, SameObjects
  <1>2. acked' \in Bundles \cup {Absent}
    <2>1. run[p].marker.intended.bundle \in Bundles
      BY <1>1 DEF Mine, Run, Marker, Reference
    <2>2. QED
      BY <1>1, <2>1 DEF LocalInv, LocalTyped
  <1>3. Promises(Visible, durable, inode, acked')
    BY <1>1 DEF Mine, Promises
  <1>4. journal' \in Seq(Directory) /\ journal' # << >> /\ Visible' = Visible
    BY <1>1, SameDirectory
  <1>5. \A dir \in ToSet(journal') : Promises(dir, durable', inode', acked')
    <2>1. ToSet(journal') = {Visible}
      BY <1>1 DEF SyncLatest, ToSet
    <2>2. QED
      BY <1>1, <1>3, <2>1
  <1>6. ASSUME NEW q \in Procs \ {p} PROVE Mine(run[q], Visible', stored', durable', inode')
    BY <1>1, <1>4, OwnRun
  <1>7. stored' \subseteq Bundles /\ durable' \subseteq stored' /\ inode' \in Nat
    BY <1>1 DEF LocalInv, LocalTyped
  <1>8. QED
    BY <1>1, <1>2, <1>4, <1>5, <1>6, <1>7, NothingRuns, LocalSteps
-----------------------------------------------------------------------------
(* The theorems                                                            *)

LEMMA LocalLosesPower ==
    ASSUME LocalInv, PowerLoss
    PROVE  LocalInv'
  <1> PICK kept \in ToSet(journal) : journal' = << kept >>
    BY DEF PowerLoss
  <1>1. /\ durable' = stored' /\ UNCHANGED <<inode, acked>>
        /\ durable \subseteq durable' /\ stored' \subseteq stored
        /\ run' = [p \in Procs |-> IF At(p, "none") THEN NoProcess ELSE NoRun]
    BY DEF PowerLoss, LocalInv, LocalTyped
  <1>2. kept \in Directory /\ Promises(kept, durable, inode, acked)
    BY DEF LocalInv, LocalTyped, ToSet
  <1>3. /\ journal' \in Seq(Directory) /\ journal' # << >> /\ ToSet(journal') = {kept}
    BY <1>2 DEF ToSet
  <1>4. run' \in [Procs -> Run] /\ \A p \in Procs : run'[p] \in {NoRun, NoProcess}
    BY <1>1, NothingRuns
  <1>5. LocalTyped'
    BY <1>1, <1>3, <1>4 DEF LocalInv, LocalTyped
  <1>6. \A dir \in ToSet(journal') : Promises(dir, durable', inode', acked')
    <2>1. Promises(kept, durable', inode', acked')
      BY <1>1, <1>2, PromisesGrow DEF LocalInv, LocalTyped
    <2>2. QED
      BY <1>3, <2>1
  <1>7. /\ \A p \in Procs : Mine(run'[p], Visible', stored', durable', inode')
        /\ \A p, q \in Procs : p # q => Apart(run'[p], run'[q])
    BY <1>4, NothingRuns
  <1>8. QED
    BY <1>5, <1>6, <1>7 DEF LocalInv, Mine, Apart, Promises

LEMMA InitLocal == LocalInit => LocalInv
  <1> SUFFICES ASSUME LocalInit PROVE LocalInv
    OBVIOUS
  <1>1. EmptyDirectory \in Directory /\ Promises(EmptyDirectory, durable, inode, acked)
    BY DEF EmptyDirectory, Directory, Promises, LocalInit
  <1>2. journal \in Seq(Directory) /\ journal # << >> /\ ToSet(journal) = {EmptyDirectory}
    BY <1>1 DEF LocalInit, ToSet
  <1>3. run \in [Procs -> Run] /\ \A p \in Procs : run[p] \in {NoRun, NoProcess}
    BY NothingRuns DEF LocalInit
  <1>4. LocalTyped
    BY <1>2, <1>3 DEF LocalInit, LocalTyped
  <1>5. /\ \A p \in Procs : Mine(run[p], Visible, stored, durable, inode)
        /\ \A p, q \in Procs : p # q => Apart(run[p], run[q])
    BY <1>3, NothingRuns
  <1>6. QED
    BY <1>1, <1>2, <1>4, <1>5 DEF LocalInv

LEMMA LocalKills ==
    ASSUME LocalInv, NEW p \in Procs, Kill(p)
    PROVE  LocalInv'
  BY LocalEnds DEF Kill, SameObjects, LocalInv, LocalTyped

LEMMA StepLocal == LocalInv /\ [LocalNext]_localVars => LocalInv'
  <1> SUFFICES ASSUME LocalInv, [LocalNext]_localVars PROVE LocalInv'
    OBVIOUS
  <1>1. ASSUME NEW p \in Procs, NEW bundle \in Bundles, StageStart(p, bundle) PROVE LocalInv'
    BY <1>1, LocalStageStart
  <1>2. ASSUME NEW p \in Procs, StageStep(p) PROVE LocalInv'
    BY <1>2, LocalStageNames, LocalStagePrior, LocalStageObjects, LocalStageObjectsSync,
       LocalStageOpen, LocalStageInstall, LocalStageLinkMarker, LocalStageLock,
       LocalStageLinkRecord, LocalStageRecordSync, LocalStageGate, LocalStageLinkLatest,
       LocalStageLatestTempSync, LocalStageRename, LocalStageRenameSync DEF StageStep
  <1>3. ASSUME NEW p \in Procs, RecoverStart(p) \/ RecoverStep(p) PROVE LocalInv'
    BY <1>3, LocalLooks, LocalRecoverOpens, LocalRecoverLocks, LocalRecoverDecides,
       LocalRecoverUnlinks, LocalRecoverSettles DEF RecoverStep
  <1>4. ASSUME NEW p \in Procs, CleanStep(p) PROVE LocalInv'
    BY <1>4, LocalCleansTemp, LocalCleanTempSyncs, LocalCleansRecord, LocalCleanSyncs
       DEF CleanStep
  <1>5. CASE UNCHANGED localVars
    BY <1>5 DEF localVars, LocalInv, LocalTyped, Visible, Mine, Apart, Promises
  <1>6. QED
    BY <1>1, <1>2, <1>3, <1>4, <1>5, LocalKills, LocalLosesPower
       DEF LocalNext, LocalStep

\* Whatever runs, is killed or loses power, every process that stage-local or
\* recover-local lets change the reference or the marker holds the flock of the
\* marker in place, alone, and knows what the directory holds.
THEOREM OwnershipIsExclusive == LocalSpec => []LocalInv
  <1>1. QED
    BY InitLocal, StepLocal, PTL DEF LocalSpec

\* stage-local never lets a reference, or a temporary that may become one, name
\* objects that a loss of power could take back.
THEOREM ReferencesAreBacked == LocalSpec => []ReferenceIsBacked
  <1>1. LocalInv => ReferenceIsBacked
    BY DEF LocalInv, Promises, ReferenceIsBacked, ToSet
  <1>2. QED
    BY <1>1, OwnershipIsExclusive, PTL

\* A catalog that stage-local or recover-local reported as committed is never
\* replaced by an older one, nor by another one of its sequence, by any number
\* of competing commands, kills and losses of power.
THEOREM AcknowledgedIsKept == LocalSpec => []AckedNeverLost
  <1>1. LocalInv => AckedNeverLost
    BY DEF LocalInv, Promises, NotOlder, AckedNeverLost, ToSet
  <1>2. QED
    BY <1>1, OwnershipIsExclusive, PTL
=============================================================================
