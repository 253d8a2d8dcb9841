------------------------------ MODULE LocalStage ------------------------------
(***************************************************************************)
(* The local half of a release: stage-local and recover-local              *)
(* (catalog-publish/src/local.rs).  stage-local stores the signed bundle   *)
(* as immutable objects, writes the new reference to an unnamed file, and  *)
(* only then opens a transaction: a marker names the intended and the      *)
(* prior reference, the new one is linked as latest temporary, and a       *)
(* rename makes it the reference.  recover-local settles the marker that   *)
(* an interrupted transaction left.                                        *)
(*                                                                         *)
(* Any number of processes may run either command.  All that keeps them    *)
(* apart are file names that cannot be linked twice and a non-blocking     *)
(* flock on the marker's inode.  The directory is a journal, as in         *)
(* OperationStore; files are unnamed until they are complete (O_TMPFILE).  *)
(***************************************************************************)
EXTENDS Integers, Sequences, FiniteSets, SequencesExt

CONSTANTS
    Procs,       \* processes that may run a command at the same time
    Bundles,     \* verified signed bundles: [sequence, digest]
    Absent,      \* no file, or no value
    MaxInode,    \* bound: runs of stage-local, each with an inode of its own
    MaxFaults,   \* bound: kills and losses of power, of a process run alone
    MaxTogether  \* bound: the same, when several run at a time

\* A reference is bound to the inode of its file; a marker, which both the
\* recovery record and its temporary name, to the reference it intends.
Reference == [bundle : Bundles, inode : Nat]
Marker    == [intended : Reference, prior : Reference \cup {Absent}]

ASSUME BundlesAssumption == \A bundle \in Bundles : bundle.sequence \in Nat
ASSUME AbsentAssumption  == Absent \notin Bundles \cup Reference \cup Marker

VARIABLES
    journal,     \* states of latest/ since its last fsync, the durable one first
    stored,      \* bundles whose objects are in objects/
    durable,     \* those of them an fsync of objects/ has covered
    inode,       \* inodes given to runs of stage-local so far
    run,         \* what each process is doing
    acked,       \* history: the bundle of the transaction last reported done
    faults

localVars == <<journal, stored, durable, inode, run, acked, faults>>

EmptyDirectory == [ reference |-> Absent, latestTemp |-> Absent,
                    record |-> Absent, recoveryTemp |-> Absent ]

Visible == Last(journal)

\* Local variables of a command; held is the marker whose flock it holds.
NoRun == [ pc |-> "idle", prior |-> Absent, temp |-> Absent,
           marker |-> Absent, held |-> FALSE, outcome |-> "none",
           sawTemp |-> FALSE, sawMarker |-> FALSE, sawRecoveryTemp |-> FALSE ]

\* A process that no command is ever run in.
NoProcess == [NoRun EXCEPT !.pc = "none"]

LocalInit ==
    /\ journal = << EmptyDirectory >>
    /\ stored = {} /\ durable = {}
    /\ inode = 0
    /\ \E used \in (SUBSET Procs) \ {{}} :
          run = [p \in Procs |-> IF p \in used THEN NoRun ELSE NoProcess]
    /\ acked = Absent
    /\ faults = 0

-----------------------------------------------------------------------------
At(p, step) == run[p].pc = step

Goto(p, step) == run' = [run EXCEPT ![p].pc = step]

\* Every way a command ends; its flock, if any, is free again.
Finish(p) == run' = [run EXCEPT ![p] = NoRun]

GotoOrFinish(p, condition, step) == IF condition THEN Goto(p, step) ELSE Finish(p)

Change(directory) == journal' = Append(journal, directory)
SyncLatest        == journal' = << Visible >>
SameLatest        == UNCHANGED journal
SameObjects       == UNCHANGED <<stored, durable>>
Quiet             == UNCHANGED <<inode, acked, faults>>

\* A link fails when the name exists.
Link(p, name, file, step) ==
    IF Visible[name] = Absent
    THEN Change([Visible EXCEPT ![name] = file]) /\ Goto(p, step)
    ELSE SameLatest /\ Finish(p)

Backed(ref) == ref # Absent => ref.bundle \in stored

Links(marker) == Cardinality({name \in {"record", "recoveryTemp"} : Visible[name] = marker})

-----------------------------------------------------------------------------
(* stage-local: up to the transaction                                      *)

\* The inode is that of the latest temporary this run is going to open.
StageStart(p, bundle) ==
    /\ At(p, "idle")
    /\ inode < MaxInode /\ inode' = inode + 1
    /\ run' = [run EXCEPT ![p].pc = "names",
                          ![p].temp = [bundle |-> bundle, inode |-> inode']]
    /\ SameLatest /\ SameObjects /\ UNCHANGED <<acked, faults>>

\* Unfinished business of an earlier transaction: recovery required.
StageNames(p) ==
    /\ At(p, "names")
    /\ GotoOrFinish(p, \A name \in {"latestTemp", "record", "recoveryTemp"} :
                          Visible[name] = Absent, "prior")
    /\ SameLatest /\ SameObjects /\ Quiet

\* A slip: another catalog of the same sequence is taken for an update.
AdmittedAgain(bundle, prior) ==
    Backed(prior) /\ (prior # Absent => prior.bundle.sequence <= bundle.sequence)

\* Never back to an older catalog, never to another one of the same sequence.
Admitted(bundle, prior) ==
    /\ Backed(prior)
    /\ prior # Absent =>
          \/ prior.bundle = bundle
          \/ prior.bundle.sequence < bundle.sequence

StagePrior(p) ==
    /\ At(p, "prior")
    /\ LET prior == Visible.reference
       IN  IF Admitted(run[p].temp.bundle, prior)
           THEN run' = [run EXCEPT ![p].pc = "objects", ![p].prior = prior]
           ELSE Finish(p)
    /\ SameLatest /\ SameObjects /\ Quiet

StageObjects(p) ==
    /\ At(p, "objects")
    /\ stored' = stored \cup {run[p].temp.bundle}
    /\ Goto(p, "objectsSync")
    /\ SameLatest /\ UNCHANGED durable /\ Quiet

\* The candidate that is already the reference needs no transaction.
ExistingCandidate(p) == run[p].prior # Absent /\ run[p].prior.bundle = run[p].temp.bundle

\* A slip: the directory of the objects is not synced.
StageObjectsUnsynced(p) ==
    /\ At(p, "objectsSync")
    /\ GotoOrFinish(p, ~ExistingCandidate(p), "open")
    /\ SameLatest /\ SameObjects /\ Quiet

StageObjectsSync(p) ==
    /\ At(p, "objectsSync")
    /\ durable' = stored
    /\ GotoOrFinish(p, ~ExistingCandidate(p), "open")
    /\ SameLatest /\ UNCHANGED stored /\ Quiet

\* open_latest_temporary, finalize_latest_temporary: an unnamed, complete file.
StageOpen(p) ==
    /\ At(p, "open")
    /\ IF Visible.latestTemp = Absent
       THEN run' = [run EXCEPT ![p].pc = "install",
                       ![p].marker = [intended |-> run[p].temp, prior |-> run[p].prior]]
       ELSE Finish(p)
    /\ SameLatest /\ SameObjects /\ Quiet

-----------------------------------------------------------------------------
(* stage-local: the transaction                                            *)

StageInstall(p) ==
    /\ At(p, "install")
    /\ GotoOrFinish(p, Visible.record = Absent /\ Visible.recoveryTemp = Absent, "linkMarker")
    /\ SameLatest /\ SameObjects /\ Quiet

StageLinkMarker(p) ==
    /\ At(p, "linkMarker")
    /\ Link(p, "recoveryTemp", run[p].marker, "lock")
    /\ SameObjects /\ Quiet

\* The fsync of write_unnamed_and_link, then the flock of the new inode.
StageLock(p) ==
    /\ At(p, "lock")
    /\ SyncLatest
    /\ run' = [run EXCEPT ![p].pc = "linkRecord", ![p].held = TRUE]
    /\ SameObjects /\ Quiet

StageLinkRecord(p) ==
    /\ At(p, "linkRecord")
    /\ Link(p, "record", Visible.recoveryTemp, "recordSync")
    /\ SameObjects /\ Quiet

StageRecordSync(p) ==
    /\ At(p, "recordSync")
    /\ SyncLatest
    /\ GotoOrFinish(p, Visible.record = run[p].marker /\ Links(run[p].marker) = 2, "gate")
    /\ SameObjects /\ Quiet

\* The reference must still be the prior one; otherwise the outcome is
\* uncertain and the marker stays.
StageGate(p) ==
    /\ At(p, "gate")
    /\ GotoOrFinish(p, Visible.reference = run[p].prior, "linkLatest")
    /\ SameLatest /\ SameObjects /\ Quiet

StageLinkLatest(p) ==
    /\ At(p, "linkLatest")
    /\ Link(p, "latestTemp", run[p].temp, "latestTempSync")
    /\ SameObjects /\ Quiet

StageLatestTempSync(p) ==
    /\ At(p, "latestTempSync")
    /\ SyncLatest
    /\ GotoOrFinish(p, Visible.latestTemp = run[p].temp, "rename")
    /\ SameObjects /\ Quiet

\* renameat2: without a prior reference it must not replace anything.
StageRename(p) ==
    /\ At(p, "rename")
    /\ IF Visible.latestTemp # Absent /\ (run[p].prior = Absent => Visible.reference = Absent)
       THEN /\ Change([Visible EXCEPT !.reference = Visible.latestTemp, !.latestTemp = Absent])
            /\ GotoOrFinish(p, Visible.latestTemp = run[p].temp, "renameSync")
       ELSE SameLatest /\ Finish(p)
    /\ SameObjects /\ Quiet

\* verify_recovery_relation: the marker is this run's, the reference the one it
\* intends.
RecoveryRelation(p) ==
    /\ Visible.record = run[p].marker
    /\ Visible.reference = run[p].temp
    /\ Backed(run[p].temp)

\* Read back, fsync.
StageRenameSync(p) ==
    /\ At(p, "renameSync")
    /\ SyncLatest
    /\ IF RecoveryRelation(p)
       THEN run' = [run EXCEPT ![p].pc = "cleanTemp", ![p].outcome = "committed"]
       ELSE Finish(p)
    /\ SameObjects /\ Quiet

-----------------------------------------------------------------------------
(* recover-local                                                           *)

RecoverStart(p) ==
    /\ At(p, "idle")
    /\ Goto(p, "seeTemp")
    /\ SameLatest /\ SameObjects /\ Quiet

\* Three lookups, before anything is locked.
RecoverSeeTemp(p) ==
    /\ At(p, "seeTemp")
    /\ run' = [run EXCEPT ![p].pc = "seeMarker", ![p].sawTemp = (Visible.latestTemp # Absent)]
    /\ SameLatest /\ SameObjects /\ Quiet

RecoverSeeMarker(p) ==
    /\ At(p, "seeMarker")
    /\ run' = [run EXCEPT ![p].pc = "seeRecoveryTemp", ![p].sawMarker = (Visible.record # Absent)]
    /\ SameLatest /\ SameObjects /\ Quiet

\* Without a marker a clean state reports what it finds and a temporary needs
\* the owner: neither changes anything.
RecoverSeeRecoveryTemp(p) ==
    /\ At(p, "seeRecoveryTemp")
    /\ IF run[p].sawMarker
       THEN run' = [run EXCEPT ![p].pc = "openMarker",
                               ![p].sawRecoveryTemp = (Visible.recoveryTemp # Absent)]
       ELSE Finish(p)
    /\ SameLatest /\ SameObjects /\ Quiet

RecoverOpenMarker(p) ==
    /\ At(p, "openMarker")
    /\ IF Visible.record # Absent
       THEN run' = [run EXCEPT ![p].pc = "lockMarker", ![p].marker = Visible.record]
       ELSE Finish(p)
    /\ SameLatest /\ SameObjects /\ Quiet

Locked(marker) == \E q \in Procs : run[q].held /\ run[q].marker = marker

\* A slip: half-done cleanup is not expected.
BothLinks(p) == 2

ExpectedLinks(p) == IF run[p].sawRecoveryTemp THEN 2 ELSE 1

\* The flock does not wait; the link count must match what was seen before.
RecoverLockMarker(p) ==
    /\ At(p, "lockMarker")
    /\ LET marker == run[p].marker
       IN  IF /\ ~Locked(marker)
              /\ Links(marker) = ExpectedLinks(p)
              /\ run[p].sawRecoveryTemp => Visible.recoveryTemp = marker
              /\ Backed(marker.intended) /\ Backed(marker.prior)
           THEN run' = [run EXCEPT ![p].pc = "decide", ![p].held = TRUE]
           ELSE Finish(p)
    /\ SameLatest /\ SameObjects /\ Quiet

\* With a latest temporary the transaction is undone; without one, the
\* reference tells whether it had committed.
Verdict(p) ==
    LET marker  == run[p].marker
        current == Visible.reference
    IN  CASE run[p].sawTemp ->
                IF Visible.latestTemp = marker.intended /\ current = marker.prior
                THEN "aborted" ELSE "refuse"
          [] ~run[p].sawTemp /\ current = marker.intended -> "committed"
          [] ~run[p].sawTemp /\ current # marker.intended ->
                IF current = marker.prior THEN "aborted" ELSE "refuse"

AfterVerdict(p) == IF run[p].sawTemp THEN "unlinkTemp" ELSE "settleSync"

RecoverDecide(p) ==
    /\ At(p, "decide")
    /\ IF Verdict(p) = "refuse" THEN Finish(p)
       ELSE run' = [run EXCEPT ![p].outcome = Verdict(p),
                               ![p].pc = AfterVerdict(p)]
    /\ SameLatest /\ SameObjects /\ Quiet

RecoverUnlinkTemp(p) ==
    /\ At(p, "unlinkTemp")
    /\ IF /\ Visible.reference = run[p].marker.prior
          /\ Visible.latestTemp = run[p].marker.intended
       THEN Change([Visible EXCEPT !.latestTemp = Absent]) /\ Goto(p, "settleSync")
       ELSE SameLatest /\ Finish(p)
    /\ SameObjects /\ Quiet

\* verify_recovery_relation or verify_exact_prior.
Settled(p) ==
    IF run[p].outcome = "committed" THEN Visible.reference = run[p].marker.intended
                                    ELSE Visible.reference = run[p].marker.prior

\* The verdict is durable, and checked once more, before the marker goes.
RecoverSettleSync(p) ==
    /\ At(p, "settleSync")
    /\ SyncLatest
    /\ GotoOrFinish(p, Settled(p), "cleanTemp")
    /\ SameObjects /\ Quiet

-----------------------------------------------------------------------------
(* cleanup_recovery_record, for both commands                              *)

CleanTemp(p) ==
    /\ At(p, "cleanTemp")
    /\ LET marker == run[p].marker
       IN  IF Visible.record # marker \/ Visible.recoveryTemp \notin {marker, Absent}
           THEN SameLatest /\ Finish(p)
           ELSE IF Visible.recoveryTemp = marker
           THEN Change([Visible EXCEPT !.recoveryTemp = Absent]) /\ Goto(p, "cleanTempSync")
           ELSE SameLatest /\ Goto(p, "cleanRecord")
    /\ SameObjects /\ Quiet

CleanTempSync(p) ==
    /\ At(p, "cleanTempSync")
    /\ SyncLatest /\ Goto(p, "cleanRecord")
    /\ SameObjects /\ Quiet

CleanRecord(p) ==
    /\ At(p, "cleanRecord")
    /\ IF Visible.record = run[p].marker /\ Links(run[p].marker) = 1
       THEN Change([Visible EXCEPT !.record = Absent]) /\ Goto(p, "cleanSync")
       ELSE SameLatest /\ Finish(p)
    /\ SameObjects /\ Quiet

\* The command succeeds: staged, or recovery committed or aborted.
CleanSync(p) ==
    /\ At(p, "cleanSync")
    /\ SyncLatest
    /\ acked' = IF run[p].outcome = "committed" THEN run[p].marker.intended.bundle ELSE acked
    /\ Finish(p)
    /\ SameObjects /\ UNCHANGED <<inode, faults>>

-----------------------------------------------------------------------------
\* One process at a time: no command starts before the one before it ended.
Alone == Cardinality({p \in Procs : ~At(p, "none")}) = 1

Fault ==
    /\ faults < IF Alone THEN MaxFaults ELSE MaxTogether
    /\ faults' = faults + 1

Kill(p) ==
    /\ run[p].pc \notin {"idle", "none"}
    /\ Fault
    /\ Finish(p)
    /\ SameLatest /\ SameObjects /\ UNCHANGED <<inode, acked>>

PowerLoss ==
    /\ Fault
    /\ \E kept \in ToSet(journal) : journal' = << kept >>
    /\ stored' \in {durable \cup kept : kept \in SUBSET (stored \ durable)}
    /\ durable' = stored'
    /\ run' = [p \in Procs |-> IF At(p, "none") THEN NoProcess ELSE NoRun]
    /\ UNCHANGED <<inode, acked>>

StageStep(p) ==
    \/ StageNames(p) \/ StagePrior(p) \/ StageObjects(p) \/ StageObjectsSync(p)
    \/ StageOpen(p) \/ StageInstall(p) \/ StageLinkMarker(p) \/ StageLock(p)
    \/ StageLinkRecord(p) \/ StageRecordSync(p) \/ StageGate(p)
    \/ StageLinkLatest(p) \/ StageLatestTempSync(p)
    \/ StageRename(p) \/ StageRenameSync(p)

RecoverStep(p) ==
    \/ RecoverSeeTemp(p) \/ RecoverSeeMarker(p) \/ RecoverSeeRecoveryTemp(p)
    \/ RecoverOpenMarker(p) \/ RecoverLockMarker(p) \/ RecoverDecide(p)
    \/ RecoverUnlinkTemp(p) \/ RecoverSettleSync(p)

CleanStep(p) == CleanTemp(p) \/ CleanTempSync(p) \/ CleanRecord(p) \/ CleanSync(p)

LocalStep(p) == StageStep(p) \/ RecoverStep(p) \/ CleanStep(p)

LocalNext ==
    \/ \E p \in Procs :
          \/ \E bundle \in Bundles : StageStart(p, bundle)
          \/ RecoverStart(p) \/ LocalStep(p) \/ Kill(p)
    \/ PowerLoss

LocalSpec == LocalInit /\ [][LocalNext]_localVars

\* A started command runs on, and the owner keeps running recover-local.
LocalFairSpec ==
    /\ LocalSpec
    /\ \A p \in Procs : WF_localVars(LocalStep(p)) /\ SF_localVars(RecoverStart(p))

-----------------------------------------------------------------------------
(* Properties                                                              *)

\* No catalog reference that could come back after a loss of power points at
\* objects that could be missing then, neither in place nor as a temporary.
ReferenceIsBacked ==
    \A i \in DOMAIN journal : \A name \in {"reference", "latestTemp"} :
       journal[i][name] # Absent => journal[i][name].bundle \in durable

\* Once a transaction was reported as staged or committed, no kill, loss of
\* power or competing command brings back an older catalog, or another one of
\* the same sequence.
AckedNeverLost ==
    acked # Absent =>
       \A i \in DOMAIN journal :
          /\ journal[i].reference # Absent
          /\ \/ journal[i].reference.bundle = acked
             \/ journal[i].reference.bundle.sequence > acked.sequence

\* Then a marker does not stay either: recover-local, run again, removes it.
RecoveryCompletes == Alone => (Visible.record # Absent ~> Visible.record = Absent)
=============================================================================
