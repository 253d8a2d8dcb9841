----------------------------- MODULE ReleaseWizard -----------------------------
(***************************************************************************)
(* catalog-wizard: `release' and `resume' drive one release through its    *)
(* phases (release.rs) and keep the phase in wizard-state.json (state.rs). *)
(* After each phase's work the next phase is saved: written to a .next     *)
(* file, synced, renamed over the state, directory synced.  The wizard may *)
(* be killed between any two steps.  The power may fail: bytes that were   *)
(* written and not synced may be gone, and entries that were changed and   *)
(* not synced.  The remote commands the wizard runs (RemoteWorkflow) are   *)
(* here one step with its outcomes.                                        *)
(*                                                                         *)
(* One sequence number is considered.  The committed catalogs stop at its  *)
(* predecessor: resume insists on the recorded commit and on a clean tree. *)
(***************************************************************************)
EXTENDS Integers, Sequences, SequencesExt

CONSTANTS
    Absent, Partial, Whole,   \* what a path may hold besides a state
    MaxFaults,                \* bound: kills, errors and refusals
    MaxOutages,               \* bound: power failures
    MaxAbandons               \* bound: releases the operator gives up

ASSUME PathsAssumption == Absent \notin Int /\ Partial \notin Int /\ Absent # Partial
ASSUME WizardBounds == MaxFaults \in Nat /\ MaxOutages \in Nat /\ MaxAbandons \in Nat

VARIABLES
    journal,   \* the release directory's versions since its last sync; the
               \* last one is what programs see, any one survives a power loss
    made,      \* phases whose work is complete; its outputs count as durable,
               \* the directory syncs of its commands are not counted on
    evidence,  \* is the evidence marked complete?
    remote,    \* what GitHub holds of this sequence: tag, draft, public
    mode,      \* dry_run or publish_capable, as saved
    pc,        \* the next step of the running wizard
    resumed,   \* does it run as `resume', with a qualification at hand?
    phase,     \* state.phase in memory
    saves,     \* saves still to make of the new phase
    saved,     \* history: the latest phase whose save returned
    borrowed,  \* history: the files among primary and candidate that a run took
               \* over as a killed one had written them, not synced
    faults, outages, abandons

disk == <<journal, made, evidence, mode>>
run  == <<pc, resumed, phase, saves>>
hist == <<saved, borrowed>>
vars == <<disk, remote, run, hist, faults, outages, abandons>>

\* enum ReleasePhase with phase_rank.
Planned == 0
Acquired == 2
AwaitingQualification == 4
Qualified == 6
LocalStaged == 8
Approved == 10
Published == 11
ReleasePhase == Planned..Published
NoPhase == -1

NoDirectory  == << >>
Exists       == journal # NoDirectory
Dir          == Last(journal)
\* wizard-state.json, its replacement and the candidate as programs read them,
\* and which of them are written and not synced.
EmptyDir     == [primary |-> Absent, next |-> Absent, candidate |-> Absent, loose |-> {}]

Init ==
    /\ journal = NoDirectory /\ made = {} /\ evidence = FALSE /\ mode = "dry_run"
    /\ remote = {}
    /\ pc = "idle" /\ resumed = FALSE /\ phase = Planned /\ saves = 0
    /\ saved = NoPhase /\ borrowed = {} /\ faults = 0 /\ outages = 0 /\ abandons = 0

-----------------------------------------------------------------------------
(* The directory                                                           *)

\* A change of directory entries, not yet durable, and fsync(work_dir).
Change(dir)     == journal' = Append(journal, dir)
ChangeSync(dir) == journal' = <<dir>>

\* write_all and sync_all of the file that the last change of the directory
\* created: no earlier version names it.
Amend(dir)               == journal' = [journal EXCEPT ![Len(journal)] = dir]
WriteFile(name, content) == Amend([Dir EXCEPT ![name] = content, !.loose = @ \cup {name}])

\* A slip: the file is not synced.
SyncNothing(name) == UNCHANGED journal

SyncFile(name)    == Amend([Dir EXCEPT !.loose = @ \ {name}])

\* What a power failure makes of a version: lost are the unsynced files whose
\* bytes had not reached the disk.
Torn(dir, lost) ==
    LET left(name) == IF name \in lost THEN Partial ELSE dir[name]
    IN  [primary |-> left("primary"), next |-> left("next"),
         candidate |-> left("candidate"), loose |-> {}]

Remains(dir) == {Torn(dir, lost) : lost \in SUBSET dir.loose}
Survivors    == UNION {Remains(dir) : dir \in ToSet(journal)}

\* install_recovery up to its fsync, which is the directory's and not the
\* file's; and remove_recovery.
Installed(dir) ==
    [dir EXCEPT !.primary = dir.next, !.next = Absent,
                !.loose = (@ \ {"primary", "next"})
                            \cup (IF "next" \in @ THEN {"primary"} ELSE {})]
Removed(dir) == [dir EXCEPT !.next = Absent, !.loose = @ \ {"next"}]

Borrow(name, dir) == borrowed' = borrowed \cup ({name} \cap dir.loose)

Goto(step) == pc' = step /\ UNCHANGED <<resumed, phase, saves>>
Leave      == pc' = "idle" /\ resumed' = FALSE /\ phase' = Planned /\ saves' = 0

-----------------------------------------------------------------------------
(* Choosing the release                                                    *)

Start(command) ==
    /\ pc = "idle"
    /\ pc' = "list" /\ resumed' = (command = "resume")
    /\ UNCHANGED <<disk, remote, phase, saves, hist, faults, outages, abandons>>

\* resumable_states: a directory without wizard-state.json is passed over.
Listed(dir) == dir.primary # Absent /\ (dir.primary = Published => ~evidence)

\* WizardState::load: a legible replacement of the same release that is not
\* older takes the state's place, any other is removed; either is synced.
Load(dir) ==
    IF dir.next \in Int /\ dir.next >= dir.primary THEN Installed(dir) ELSE Removed(dir)

ListNothing ==
    /\ pc = "list"
    /\ Exists => /\ Dir.primary # Partial
                 /\ ~Listed(IF Dir.primary = Absent THEN Dir ELSE Load(Dir))
    /\ IF resumed THEN Leave ELSE Goto("create")
    /\ UNCHANGED <<disk, remote, hist, faults, outages, abandons>>

\* A state that cannot be read ends `release' and `resume' alike.
ListRefuses ==
    /\ pc = "list"
    /\ Exists /\ Dir.primary = Partial
    /\ Leave
    /\ UNCHANGED <<disk, remote, hist, faults, outages, abandons>>

Chosen == IF resumed THEN "resume" ELSE "choose"

List ==
    /\ pc = "list"
    /\ Exists /\ Dir.primary \in Int /\ Listed(Load(Dir))
    /\ IF Dir.next = Absent
       THEN pc' = Chosen /\ UNCHANGED <<journal, borrowed>>
       ELSE pc' = "settle" /\ Change(Load(Dir)) /\ Borrow("primary", Load(Dir))
    /\ phase' = Load(Dir).primary
    /\ UNCHANGED <<resumed, saves, made, evidence, mode, remote, saved, faults, outages, abandons>>

ListSettle ==
    /\ pc = "settle"
    /\ ChangeSync(Dir)
    /\ Goto(Chosen)
    /\ UNCHANGED <<made, evidence, mode, remote, hist, faults, outages, abandons>>

\* "resume" at the question of `release'; "exit" is Stop.
ChooseResume ==
    /\ pc = "choose"
    /\ pc' = "list" /\ resumed' = TRUE /\ UNCHANGED <<phase, saves>>
    /\ UNCHANGED <<disk, remote, hist, faults, outages, abandons>>

\* A slip: any release that is not public yet can be put aside.
ArchivableAny(rank) == rank < Published
Archivable(rank)    == rank <= Qualified

\* "start new": the directory is renamed away and the root synced.
ChooseStartNew ==
    /\ pc = "choose"
    /\ abandons < MaxAbandons /\ abandons' = abandons + 1
    /\ IF Archivable(phase)
       THEN /\ journal' = NoDirectory /\ made' = {}
            /\ saved' = NoPhase /\ borrowed' = {}
            /\ Goto("list")
       ELSE Leave /\ UNCHANGED <<journal, made, hist>>
    /\ UNCHANGED <<evidence, mode, remote, faults, outages>>

\* reconcile_github_state: GitHub's latest release is the predecessor too,
\* there is no later tag and no draft.
Reconciles == remote = {}

ResumeAdmits           == phase = Published \/ Reconciles

ResumeCheck ==
    /\ pc = "resume"
    /\ IF ResumeAdmits THEN Goto("work") ELSE Leave
    /\ UNCHANGED <<disk, remote, hist, faults, outages, abandons>>

\* run_release past its questions: the directory must be new.
Create ==
    /\ pc = "create"
    /\ IF Reconciles /\ ~Exists
       THEN /\ mode' \in {"dry_run", "publish_capable"}
            /\ ChangeSync(EmptyDir)
            /\ pc' = "save" /\ phase' = Planned /\ saves' = 1 /\ UNCHANGED resumed
       ELSE Leave /\ UNCHANGED <<journal, mode>>
    /\ UNCHANGED <<made, evidence, remote, hist, faults, outages, abandons>>

-----------------------------------------------------------------------------
(* WizardState::save                                                       *)

SaveOnly == UNCHANGED <<made, evidence, mode, remote, saved, faults, outages, abandons>>

\* A replacement that is already this state is installed; otherwise what is
\* there is removed, with a sync, and a new one created.
SaveCreate ==
    /\ pc = "save"
    /\ LET created == [Removed(Dir) EXCEPT !.next = Partial]
       IN  IF Dir.next = phase
           THEN Goto("install") /\ Borrow("primary", Installed(Dir)) /\ UNCHANGED journal
           ELSE /\ Goto("write") /\ UNCHANGED borrowed
                /\ IF Dir.next = Absent THEN Change(created)
                                        ELSE journal' = <<Removed(Dir), created>>
    /\ SaveOnly

SaveWrite ==
    /\ pc = "write"
    /\ WriteFile("next", phase)
    /\ Goto("flush")
    /\ SaveOnly /\ UNCHANGED borrowed

SaveFlush ==
    /\ pc = "flush"
    /\ SyncFile("next")
    /\ Goto("install")
    /\ SaveOnly /\ UNCHANGED borrowed

SaveInstall ==
    /\ pc = "install"
    /\ Change(Installed(Dir))
    /\ Goto("sync")
    /\ SaveOnly /\ UNCHANGED borrowed

\* A slip: the rename is taken for durable.
SyncLater(dir) == UNCHANGED journal

\* sync_directory; only then does the driver go on to the next phase.
Sync(dir) == ChangeSync(dir)

SaveSync ==
    /\ pc = "sync"
    /\ Sync(Dir)
    /\ saved' = phase
    /\ borrowed' = borrowed \cap ({"candidate"} \cup Dir.loose)
    /\ saves' = saves - 1
    /\ pc' = IF saves = 1 THEN "work" ELSE "save"
    /\ UNCHANGED <<resumed, phase, made, evidence, mode, remote, faults, outages, abandons>>

\* An error while writing or installing: the replacement is unlinked.
SaveFails ==
    /\ pc \in {"write", "flush", "install"}
    /\ faults < MaxFaults /\ faults' = faults + 1
    /\ Change(Removed(Dir))
    /\ Leave
    /\ UNCHANGED <<made, evidence, mode, remote, hist, outages, abandons>>

-----------------------------------------------------------------------------
(* drive_release: the work of the phase, then save_phase                   *)

\* The import saves the phase itself before the driver does.
SavePhase ==
    /\ pc' = "save" /\ phase' = phase + 1
    /\ saves' = IF phase = AwaitingQualification THEN 2 ELSE 1
    /\ UNCHANGED resumed

\* assemble_intent writes the candidate in place, or accepts only an exact one.
AssembleBegin ==
    /\ pc = "work" /\ phase = Acquired /\ Dir.candidate = Absent
    /\ Change([Dir EXCEPT !.candidate = Partial])
    /\ Goto("assemble")
    /\ SaveOnly /\ UNCHANGED borrowed

AssembleWrite ==
    /\ pc = "assemble"
    /\ WriteFile("candidate", Whole)
    /\ Goto("assembled")
    /\ SaveOnly /\ UNCHANGED borrowed

AssembleFlush ==
    /\ pc = "assembled"
    /\ SyncFile("candidate")
    /\ SavePhase
    /\ SaveOnly /\ UNCHANGED borrowed

Accept(content) == content = Whole

\* The bytes are compared as they are read; nothing is synced.
AssembleVerify ==
    /\ pc = "work" /\ phase = Acquired /\ Dir.candidate # Absent
    /\ IF Accept(Dir.candidate) THEN SavePhase /\ Borrow("candidate", Dir)
                                ELSE Leave /\ UNCHANGED borrowed
    /\ UNCHANGED <<disk, remote, saved, faults, outages, abandons>>

\* What the work of a phase puts on GitHub, as far as it gets.
RemoteWork ==
    CASE phase = LocalStaged -> <<"tag", "draft">>
      [] phase = Approved    -> <<"public">>
      [] phase \notin {LocalStaged, Approved} -> << >>

\* `release' pauses until a qualification is returned; a dry run ends before
\* anything is signed.
Pausing ==
    \/ phase = AwaitingQualification /\ ~resumed
    \/ phase = Qualified /\ mode = "dry_run"

Working == pc = "work" /\ phase \notin {Acquired, Published} /\ ~Pausing

\* The work of the other phases, done: every request of a remote one got through.
Work ==
    /\ Working
    /\ made' = made \cup {phase}
    /\ remote' = remote \cup ToSet(RemoteWork)
    /\ SavePhase
    /\ UNCHANGED <<journal, evidence, mode, hist, faults, outages, abandons>>

\* The command fails; what it had sent may have reached GitHub.
WorkFails ==
    /\ Working
    /\ faults < MaxFaults /\ faults' = faults + 1
    /\ \E i \in 0..Len(RemoteWork) : remote' = remote \cup {RemoteWork[k] : k \in 1..i}
    /\ Leave
    /\ UNCHANGED <<disk, hist, outages, abandons>>

Pause ==
    /\ pc = "work" /\ Pausing
    /\ Leave
    /\ UNCHANGED <<disk, remote, hist, faults, outages, abandons>>

UpdateDocsAndEvidence ==
    /\ pc = "work" /\ phase = Published
    /\ evidence' = TRUE
    /\ Leave
    /\ UNCHANGED <<journal, made, mode, remote, hist, faults, outages, abandons>>

-----------------------------------------------------------------------------
\* Killed, stopped by an error before the step, or declined by the operator.
Stop ==
    /\ pc # "idle"
    /\ faults < MaxFaults /\ faults' = faults + 1
    /\ Leave
    /\ UNCHANGED <<disk, remote, hist, outages, abandons>>

\* Any version of the directory since its last sync may be the one found, with
\* any of its unsynced files empty or cut short.
PowerLoss ==
    /\ Exists
    /\ outages < MaxOutages /\ outages' = outages + 1
    /\ \E dir \in Survivors : ChangeSync(dir)
    /\ Leave
    /\ UNCHANGED <<made, evidence, mode, remote, hist, faults, abandons>>

Step ==
    \/ ListNothing \/ ListRefuses \/ List \/ ListSettle
    \/ ChooseResume \/ ResumeCheck \/ Create
    \/ SaveCreate \/ SaveWrite \/ SaveFlush \/ SaveInstall \/ SaveSync
    \/ AssembleBegin \/ AssembleWrite \/ AssembleFlush \/ AssembleVerify
    \/ Work \/ Pause \/ UpdateDocsAndEvidence

Next ==
    \/ \E command \in {"release", "resume"} : Start(command)
    \/ Step
    \/ ChooseStartNew \/ SaveFails \/ WorkFails \/ Stop \/ PowerLoss

Spec == Init /\ [][Next]_vars

-----------------------------------------------------------------------------
(* Properties                                                              *)

\* A phase on disk is a promise about the disk: whatever a power failure leaves,
\* the work of every phase before the one it names is done, and its candidate is
\* complete.  There is one exception, and no other: the candidate may be lost
\* where a resumed run accepted it as a run killed between write_all and
\* sync_all had left it.
PhaseBacked ==
    \A dir \in Survivors : dir.primary \in Int =>
       \A earlier \in 0..(dir.primary - 1) :
          IF earlier = Acquired THEN dir.candidate = Whole \/ "candidate" \in borrowed
                                ELSE earlier \in made

\* A phase whose save returned is never forgotten, whatever is killed, fails
\* or loses power afterwards, and whatever replacement is found beside it.  The
\* state is never older, and it is unreadable only if load put in its place a
\* replacement that was not synced, and no save has returned since.
SavedNeverLost ==
    saved # NoPhase =>
       Exists /\ \A dir \in Survivors :
                    \/ dir.primary \in saved..Published
                    \/ dir.primary = Partial /\ "primary" \in borrowed

\* No release that has reached GitHub is put aside for a new one under the
\* same sequence number, wherever the wizard was stopped or failed before: the
\* phase found on disk is late enough.  (A power failure after several kills,
\* each between a rename and its sync, can take more than one phase back.)
NoRemoteAbandoned ==
    [][outages = 0 /\ Exists /\ journal' = NoDirectory => remote = {}]_vars
=============================================================================
