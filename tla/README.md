# A verification development for the runtime catalog's release tools

The repository builds, signs and releases a catalog of agent runtimes. A release
is a long procedure: public inputs are acquired, a candidate is signed in an
isolated signer, the signed bundle is staged into an owner-private state
directory, and then a tag, a draft release and its assets are created on GitHub,
approved by the owner, published and verified. Every command may be killed, every
request may be lost, files may change under a running program, and the owner
repeats commands until they succeed. The modules in this directory model that
procedure from the Rust source under `src/crates`, check it with TLC on small
instances, and prove with TLAPS, for every instance, the safety properties that
hold there.

## 1. Inventory

| Part | State it keeps | Operations | Hard behaviour |
|---|---|---|---|
| Remote workflow (`catalog-publish/src/workflow.rs`) | `latest/remote-operation-v1.json`, the receipts | `stage-remote`, `approve`, `publish`, `verify-latest` | kills between any two requests, late or lost requests, retries that repeat earlier steps, a draft edited by hand |
| State directory (`catalog-publish/src/local.rs`) | records in `latest/`, immutable `objects/` | open, settle, begin, replace, no-clobber writes | link, fsync, gate, rename, fsync against kills and losses of power |
| Local staging (`local.rs`) | `catalog-v1.ref`, its temporary, a recovery record and its temporary | `stage-local`, `recover-local` | the same, with several processes at once |
| Admission of a signed bundle (`local.rs`) | descriptors and hashes taken of it | `verify_transferred_signed_bundle` | files replaced or rewritten between two reads |
| Broker recovery (`broker_recovery.rs`) | `broker-recovery-v1.json` | `plan-broker-recovery`, `recover-broker` | a transition of authority interrupted half way; assets that must never be uploaded twice |
| Broker (`broker.rs`, `broker_client.rs`, `github.rs`) | a child process, a spool, an output file | one typed request per process | deadlines, descendants that hold a pipe, download settlement, upgrades between check and use |
| Transport fixture (`workflow.rs`, `local.rs`) | a state of its own | `publish-transport-fixture` | as the remote workflow, without update |
| Wizard (`catalog-wizard/src`) | `WizardState` with a phase, work artifacts, intent journal, evidence files | prepare, drive, resume, import, key rotation | kills inside save, a phase ahead of or behind its work, an operator who edits meanwhile |
| Signer (`catalog-sign/src`) | a staging directory, a recovery binding, the output | assemble, finalize, sign, recover-sign | a transfer edited during the ceremony, two programs that describe one sandbox, publication by rename with an unsynced directory |
| Acquisition (`catalog-acquire/src`) | a cache, a bundle being written | fetch, write | cancellation, deadline or drop against a worker thread; redirects, sizes, totals |
| Core, installer verification (`catalog-core`, `catalog-installer-verify`) | none | parse, verify, replay | rules that bind documents across crates; ranges, closure, pruning, archives |
| Latest transport (`catalog-latest-transport/src`) | none | one bounded GET | a second implementation of the redirect policy |

The wizard runs the other programs as child processes. The acquisition's bundle
becomes the signer's transfer; the signer's output is the input of
`stage-local`; the reference `stage-local` writes is what the remote workflow
binds its operation to; the remote workflow talks to GitHub only through the
broker, and never trusts an answer to a mutation: it reads back.

`PROJECT.json` lists each component with its status, and each hazard with the
line where it bites and the properties that would show it.

## 2. Modules

| Module | Models | Uses |
|---|---|---|
| `OperationRecord` | `RemoteOperationV1` as a record and every pure function over it: phase shapes, `monotonic_phase`, `update_operation`, `schema_authorized_next`, the settlement decision | |
| `AtomicRecord` | what the store promises: one record that moves by authorized steps, of which at most the last is undone by a loss of power and never an acknowledged one | `OperationRecord` |
| `OperationStore` | the two files and the directory beneath them; implements `AtomicRecord` | `OperationRecord` |
| `RemoteWorkflow` | the four commands, their records, and GitHub as the broker shows it | `OperationRecord` |
| `BrokerRecovery` | the plan, the proof and the switch of authority | `RemoteWorkflow` |
| `BrokerProcess` | one request to GitHub as processes: client, broker, `gh`, settlement helper | |
| `LocalStage` | `stage-local` and `recover-local`, any number of processes | |
| `CatalogRules` | the rules that bind catalog, qualification, inventory, assets, keyring and signature | |
| `SignerSandbox` | the sandbox the launcher builds and the one the signer requires | |
| `SignerAdmission` | launcher and signer, from a transfer directory to a signature | `CatalogRules`, `SignerSandbox` |
| `SignedTransfer` | reverse manifest, attestation, and `stage-local`'s verification of both | `SignerAdmission` |
| `SignedOutput` | the output directory of a ceremony, `sign` and `recover-sign`, several processes | |
| `BundleRules` | redirects, the preflight of a bundle, the reader of a written one | |
| `ArchiveRules`, `InstallerGraph` | tar policies; npm ranges, closure, pruning, the replay of an installer release | |
| `NpmGraph` | releases whose archive carries a shrinkwrap: discovery, observed inputs, the graph's verification | `InstallerGraph` |
| `Acquisition` | one command of the acquisition: caller, worker thread, cache, bundle | `BundleRules`, `NpmGraph` |
| `ReleaseWizard` | the wizard's phases, its state file, `release`, `resume`, "start new" | |
| `ReleaseWork` | the artifacts each phase up to local staging makes and what they were made from | |
| `EvidenceFiles` | the last phase: receipts validated, copied, committed to the repository, marked | |

Each `MC` module gives one module its model values. The theorems are in eight
modules (section 4): `RemoteWorkflowProofs` (`OperationRecord`, `RemoteWorkflow`,
`BrokerRecovery`), `DurableFilesProofs` (`OperationStore`, `AtomicRecord`,
`EvidenceFiles`), `BrokerProcessProofs`, `LocalStageProofs`,
`SignedTransferProofs` (`SignerAdmission`, `SignedTransfer`, `SignedOutput`),
`ReleaseWizardProofs`, `ReleaseWorkProofs` and `AcquisitionProofs`.

Several parts are modelled at two levels. `OperationStore` takes every file system
call apart and shows that the result is an atomic record of which an interrupted
update may leave a temporary behind; `RemoteWorkflow` uses just that: `Replace`
writes the record, or is interrupted and leaves `main` and `temp`, and `Settle`
is the next command's `settle_pending_operation`. `BrokerProcess` shows what a
request that returned, failed or was killed may have done at GitHub; the requests
of `RemoteWorkflow` have exactly those outcomes: served, lost, or served late.
`ReleaseWizard` keeps a phase and knows of its work only that it is done;
`ReleaseWork` opens the phases up to local staging and `EvidenceFiles` the last.
`SignerAdmission` decides what is signed, `SignedOutput` how it gets to disk.

### Correspondence

*Workflow state.* `main` and `temp` are `remote-operation-v1.json` and its
temporary; `certificate`, `receipt`, `approval`, `publication` and `latest` are
the other records of `latest/`. A record that names another by its digest is
represented by the record it names. `pins` is the broker identity of the
configuration the owner passes. `tag`, `releases`, `nextId` and `pending` are
GitHub; `cmd`, `pc`, `index`, `release`, `before` and `receipts` are the running
command and its local variables. An asset is its position in the signed
inventory; on GitHub it has an identifier and either the signed bytes or others.

*Actions.* Each action runs from one interaction (a request, a read, a record
write) to the next and includes the local checks between them, in the order of
the code. `Persist` is `update_operation`, with its validation and its
monotonic phase; `AbandonUncertain` is `mark_operation_uncertain` followed by
the error return. `PROJECT.json` maps every definition to its lines.

*GitHub.* Tags and asset names are unique, drafts are not, an upload names only
the tag. A request may take effect, be lost, or (where `MayDelay`) take effect
after the command that sent it has ended. The broker reports no release, the
only one, or refuses.

*The file system.* A directory is a journal of the states since its last fsync.
A kill leaves the last of them, a loss of power any one: names become durable in
the order in which they were changed, as on a journaling file system. Where the
code syncs a file before it gives it its name, its contents are durable with it;
without `O_TMPFILE` (`unnamed` false) a name appears with a partial file. The
wizard writes its state's replacement and the candidate under their own names, so
in `ReleaseWizard` every version of the directory also has the names whose bytes
are written and not synced (`loose`), and a loss of power leaves any of them empty
or cut short (`Survivors`).
`ReleaseWizard`, `SignedOutput`, `ReleaseWork` and `EvidenceFiles` keep their
directories in the same way, the last two as the names or bytes not yet synced.
`LocalStage` models file systems with `O_TMPFILE` only, and reads catalog,
release and checksums of a candidate in one step.

*Processes.* In `BrokerProcess` every process is a program counter with what kills
it: process group, parent death signal, deadline. A pipe is the number of pieces
read from it. `version` counts replacements of each program and configuration
file, and each check reads it when the code opens the file. In `Acquisition` the
caller is a future: it may be cancelled, expire or be dropped at each poll, while
the worker thread goes on; `control` is the shared decision between them.

*Documents.* In `CatalogRules` and what extends it a document is a record of the
facts other documents must agree with, and a digest is the document itself. The
owner's edits of a transfer go forward only (from the first prepared version of a
file to the second). In `SignedTransfer` a file has an inode besides its content,
because `stage-local` compares both. Both releases of that model carry the same
sequence, so the tag tells nothing, which is the weaker case.

*The wizard.* A phase is its rank. One `Work` step is the work of one phase, done
by programs with durable outputs; `WorkFails` leaves on GitHub any beginning of
what a remote phase puts there. A tag, a draft or a publication of the sequence
is all that `reconcile_github_state` can tell of it, because the committed
catalogs cannot change while the recorded commit must be HEAD. Creation, `write_all`,
`sync_all`, rename and directory sync are separate steps of a save, and so are the
first three of the candidate and the last two of `WizardState::load`; the wizard may
be killed between any two. A load or a comparison sees what was written, synced or
not. `borrowed` is a history variable: the files that a run took over unsynced from
a killed one. The work of the other phases counts as durable once it is done; their
`write_exact_or_verify` (the intent, the imported qualification and source) has the
same gap as the candidate's and is not modelled again. In `ReleaseWork`
an artifact is what it was made from, and the operator's edits happen while the
wizard is idle or at a question. In `EvidenceFiles` a file is its pieces, durable
or not, under its temporary or its final name.

*Algorithms.* npm ranges, the closure of a lock, pruning, overrides, engines and
the archive policies are operators over small graphs, versions and header
sequences. `Acquisition` replays thousands of such installer releases, and
discovers and verifies hundreds of older ones, and the properties compare the
verdict with reference definitions: what npm would resolve on the target
(`Installable`, `PackagesWork`), and what unpacking an archive leaves
(`KeepsWhatUnpacks`). A `caller` has one of four commands: `write` (fetches, then
any bundle), `acquire`, `discover` and `installer`; the last three start with
their fetches made and go on with a graph. Sets of the graphs that verify
(`Verifiable`, `Replayable`, `Observable`) are constants, computed once.

### Slips

Definitions introduced by a comment `A slip: ...` are plausible errors in the
definition that follows them. They are not used by the specifications; each
property is shown to have force by substituting one of them (`PROJECT.json`,
`mutants`).

## 3. Runs

| Run | Question | Bounds |
|---|---|---|
| `OperationStore_crashes` | Is the operation record atomic and durable on both kinds of file system? | 2 assets, 2 release ids, any number of kills and losses of power |
| `RemoteWorkflow_safety` | Does the record ever claim, upload or publish what it should not, and are the receipts exact? | 2 assets, 3 faults, late requests, 1 edit of the draft, `stage-remote` at any time |
| `BrokerRecovery_transition` | Is the transition of authority resumable and exclusive, are retained and observed assets never uploaded again, is there one draft, and is a recovered release published? | 3 assets, 2 faults, 1 edit, 1 change of broker |
| `BrokerRecovery_unverified` | (violated) Does a recovered operation stay acceptable? | 2 assets, 3 faults |
| `BrokerProcess_requests` | Does success mean served, does only the pinned `gh` run, is no process stranded, does every request return? | answers of 2 pieces, 2 requests, 2 kills, 2 upgrades |
| `LocalStage_staging` | Is the reference always backed by durable objects, is nothing acknowledged lost, does `recover-local` settle what was left? | 3 bundles, 3 runs of `stage-local`; 3 faults for one process alone, 1 with two at once |
| `SignedTransfer_handoff` | Is what is signed what was attested and qualified, is the key read only in the right sandbox, is what is admitted one signed release, and is nothing refused without a cause? | 2 releases, 2 keyrings, 4 ceremonies, 2 edits of the transfer, 1 mix of the output |
| `SignedOutput_recovery` | Is a visible bundle complete and of the bound input, and is what was interrupted recovered? | 2 processes, 2 inputs, 2 files, 2 faults, 1 loss of power |
| `Acquisition_release` | Is nothing left behind or published after a cancellation, does what was discovered verify, can it be written and read, do the fetchers agree on every `Location` that the acquisition reads, does what verifies install? | 3 fetches, 2 pieces, 2 redirects to 9 URLs in 3 written forms, bundles at every limit, thousands of graphs: installer releases of 4 packages, older ones of 3 |
| `ReleaseWizard_phases` | Is a saved phase kept and backed by its work, whatever is unsynced when the wizard is killed or the power fails, and is no release put aside once GitHub knows it? | 3 faults, 1 loss of power, 1 release put aside |
| `ReleaseWork_prepare` | Is what is staged what was recorded, does only a trusted machine sign, is the release prepared in the end? | 2 discoveries, 3 qualifications returned, 2 faults, 3 edits |
| `EvidenceFiles_resume` | Is the completion mark backed, are the receipts a chain, does a foreign file stop the commit, does the evidence complete? | files of 2 pieces, 2 faults, 1 edit, receipts of this release, of a second draft of it and of another |

Two assets are the least with a support asset before the catalog; three are the
least with a proper prefix of more than one, which broker recovery needs. Two
faults allow a failure of the handling of a failure; three allow one more before
it. Two pieces are the least of which a proper part can have been read, written
or synced. Two requests let a process left by the first meet the second. Two
discoveries and three qualifications (two for one release, one for the other) are
the least in which a qualification can be replaced or belong to another release.
In `SignedTransfer` one mix changes one file, all but one, or all, for the other
release's: any subset is no different for a rule that relates two files. The
numeric limits of `Acquisition` are small, and the enumerated bundles have one
entry less than, as many as, and one more than each allows. Three packages, one
of them nested, are the least in which a lookup has a choice; the intents and
inputs written by hand differ from a discovery in one entry.

The identifiers GitHub issues are bounded by `MaxId`, kills and failures by
`MaxFaults` (`MaxTogether` while two `stage-local` run) and `MaxKills`, losses of
power by `MaxOutages`, requests by `MaxRequests`, releases put aside by
`MaxAbandons`, edits by `MaxEdits` and `MaxMixes`, changes of the broker and its
files by `MaxUpgrades`, runs of `stage-local` by `MaxInode`.

Deadlock is checked where a command can always be started. It is not where a
behaviour ends: an output that is refused for good stays as it is
(`SignedOutput`), a ceremony ends with its answer (`SignedTransfer`), a client
that was killed sends nothing more (`BrokerProcess`), one acquisition is followed
to its end (`Acquisition`), marked evidence is not touched again
(`EvidenceFiles`), a release staged locally is left to `ReleaseWizard`
(`ReleaseWork`).

### Fairness

A command that was started keeps running: weak fairness of its steps, in every
run with a liveness property. What is assumed besides:

* `BrokerRecovery`: the owner repeats each command of the runbook and, once it is
  approved, `recover-broker` (strong fairness of starting it: the runbook tells
  the owner to rerun after review). Nothing is assumed of GitHub except that
  faults come to an end with their budget.
* `LocalStage`: the owner keeps running `recover-local`, `SignedOutput`:
  `recover-sign` (strong fairness; each may be refused meanwhile).
* `BrokerProcess`: nothing but the steps of client and broker. `gh`, GitHub and
  the helper may stop for good; that requests return rests on the deadlines.
* `Acquisition`: the runtime polls a ready future, the thread pool runs the
  worker, and time passes. What precedes the first write (`Prepare`) has no
  fairness of its own: a worker there can always fail (`WorkerFails`), and must
  do one or the other.
* `EvidenceFiles`, `ReleaseWork`: the operator keeps running `resume`, as
  `docs/guided-release.md` says. `EvidenceCompletes` also assumes that the
  repository is again and again as the wizard wants it; `ReleaseIsPrepared` that
  each qualification the maintainer made is handed over again and again.

### What the violated run shows

`BrokerRecovery_unverified`: a plan for an operation with no verified asset is
accepted (`broker_recovery.rs:107-162`); after the switch `stage-remote` binds the
draft again, which takes the uncertain record to `draft_bound`, a phase
`validate_current` (`broker_recovery.rs:317`) does not list. Every later command
refuses.

### Other behaviours the models have

These follow from the code as well, and disagree with a document or with what an
owner would expect. No run asks for their absence; the properties are stated so
as not to cover them.

* `stage-remote` does not look for a receipt (`workflow.rs:281`). Repeated after
  the publication it finds that the release is no draft, marks the operation
  uncertain, and `verify-latest` refuses from then on.
* `recover-local` looks for the latest temporary before it takes the marker's lock
  (`local.rs:2346`). A `stage-local` that goes on in between and is then killed
  leaves a temporary, and `recovery aborted` is reported for a state that every
  later command refuses. Likewise two `stage-local` that both passed the lookup of
  the marker's names leave a recovery temporary beside the other's record
  (`local.rs:2191`). `RecoveryCompletes` therefore asks only for commands run one
  at a time, as `docs/release-runbook.md:49` does.
* `resume` requires that GitHub knows nothing of the sequence yet for every phase
  but the last (`release.rs:316-322`), so a release interrupted after its own tag
  or draft exists is never resumed by the wizard; the owner goes on with the
  commands of the runbook.
* `save` may be killed between `write_all` and `sync_all` of the replacement
  (`state.rs:105-106`). `load` then installs it with a rename and a sync of the
  directory only (`state.rs:65-70`, `181-184`), so a later loss of power can leave
  `wizard-state.json` empty, although the save of an earlier phase had returned.
  `read_state_file` refuses it, and with it `release` and `resume`. The test for
  this case, `load_recovers_a_fsynced_phase_replacement` (`state.rs:348`), syncs
  the replacement first; `docs/guided-release.md:30` names `resume` as the command
  after any interruption. `SavedNeverLost` excepts a state that was taken over like
  this and not saved since, and no other.
* In the same way `write_exact_or_verify` may be killed between its `write_all` and
  its `sync_all` (`release.rs:1484-1485`), and accepts what it finds when it runs
  again (`release.rs:1468-1470`) without a sync. The phase that follows is saved
  durably, and a loss of power can then remove the candidate behind it.
  `PhaseBacked` excepts a candidate that was accepted like this, and no other.
* `catalog-acquire` refuses a `Location` with a backslash, a control character or
  white space (`http.rs:1163-1180`). The client's transport of the latest catalog
  has a function of the same name without that check
  (`catalog-latest-transport/src/lib.rs:324-337`), and the transport of discoveries
  does not look at the form at all (`npm.rs:298-305`, `http.rs:1969-1993`, whose
  comment says that it applies "the existing closed redirect policy"). `Url::join`
  makes an ordinary URL of such a `Location`, so those two follow redirects that the
  acquisition refuses, and an asset may be discovered and not fetched.
  `FetchersAgree` says that this is the only difference.
* A kill between the creation of the release directory and the first rename
  leaves a directory that `resumable_states` passes over and `run_release` refuses
  (`release.rs:1585`).
* A kill between the removal of the empty stage and the link of the reverse
  manifest, or inside `rewrite_recovery_binding`, which truncates the binding in
  place, leaves an output `recover-sign` refuses; `InterruptedIsRecovered` names
  these two states.
* Intent, archives and shrinkwrap of an older release are walked in step as far
  as the shortest (`npm.rs:654`, `npm.rs:917`), so an intent written by hand that
  omits the last packages of its shrinkwrap verifies, and the bundle lacks their
  archives. `npm.rs:557` calls the verified graph the "Exact descriptor graph
  presented to the corpus verifier". An intent that discovery made has them all;
  `VerifiedIsInstallable` is about intents as long as their shrinkwrap.
* `discover_pi_release` does not ask what its bundle will be asked: whether two
  packages of one archive have one URL (`bundle_writer.rs:799` refuses them
  otherwise), nor whether its archives of up to 512 MiB each come to less than the
  64 GiB of a bundle. Such a discovery would verify, and be refused by the
  preflight: fetched in vain. The run's discoveries have neither, and
  `NothingIsInVain` has it as its hypothesis (`FitsBundle`). (The parser of an
  intent admits 512 packages, `wire.rs:32`; the model's `MaxLocked`, 4096 as in
  `npm.rs:32`, only admits more.)
* A kill of the client leaves the `/tmp` home and the copy of an upload; the
  settlement helper has no death signal, so it may finish a download nobody
  waits for.

`NoRemoteAbandoned` is checked for behaviours without loss of power. With one,
TLC finds a behaviour in which two successive saves are each killed between the
rename and its sync and the power then fails: the phase on disk goes back to
`qualified`, although the tag exists. The directory syncs that `sign` and
`stage-local` make in between, which the model does not count on, make this
even less likely; it is listed among the hazards.

## 4. Proofs

A theorem holds for every value of the constants that the named `ASSUME`s of its
module admit; TLC evaluates them on the instances of the runs. They say that
bounds are natural numbers, that an answer, file or bundle has at least one piece
(`ProcessAssumption`, `EvidenceAssumption`, `OutputAssumption`,
`AcquisitionAssumption`), that the values standing for "nothing there" are none
of the things that can be there (`NoRecordAssumption`, `StoreAssumption`,
`AbsentAssumption`, `PathsAssumption`, `RulesAssumption` of `CatalogRules`), that
a sequence is a number (`BundlesAssumption`), and one limit of the code: an
operation has 1 to 128 assets (`AssetCountAssumption`). For the acquisition they
also say that

* the list of pinned archive paths has no empty one, as its constant in `archive.rs`
  (`PinnedAssumption`), and the order of the locators' bytes has each locator once,
  as the `BTreeMap` it stands for (`OrderAssumption`);
* what is asked for and served has its type, a finite lock, versions and ranges of
  numbers, archives that are sequences of headers, and one archive to a digest
  (`RequestAssumption`). This is what the parsers return before any check that is
  modelled; whether a lock is closed, an archive sound or a record true is left
  open;
* the code's limits on packages leave room below its limits on bundles
  (`RoomAssumption`): 4096 and 512 packages against 32768 entries, 2 GiB of an
  installer release against 8 GiB of an entry and 64 GiB of a bundle.

Four theorems (`NoSecondDraft`, `RecoveryKeepsOneDraft`, `OneRedirectPolicy`,
`NothingIsInVain`) have a hypothesis of their own, given below.

| Module | Theorem | States |
|---|---|---|
| `RemoteWorkflowProofs` | `WorkflowInvariant`, `TypeCorrect` | `WorkflowInv`, `TypeOK` |
| | `InterruptedUpdatesSettle` | `Settleable` |
| | `ProgressKept` | `ProgressNeverLost` (action property) |
| | `ChainStaysIntact` | `ChainIntact` |
| | `OnlyTheApprovedIsPublic` | `PublishedOnlyIfApproved` |
| | `PublicationStaysExact` | `PublicationIsExact` |
| | `RecoveryTypeCorrect` | the invariant of `BrokerRecovery` |
| | `OnlyTheRepairedActs` | `RecoveryGatesMutation` |
| | `OnlyTheSuffixIsUploaded` | `RecoveredUploadsOnlySuffix` |
| | `NoSecondDraft`, `RecoveryKeepsOneDraft` | `OneDraft`, without and with broker recovery |
| `DurableFilesProofs` | `StoreImplementsRecord` | `StoreIsAtomic`: `OperationStore` implements `AtomicRecord` |
| | `MarkHasItsFiles` | `MarkedIsBacked` |
| | `OnlyTheChainIsWritten` | `EvidenceIsChained` |
| | `NoOutputBesideForeign` | `ForeignStopsAll` (action property) |
| `BrokerProcessProofs` | `DoneWasServed` | `OkIsServed` |
| | `OnlyThePinnedRuns` | `OnlyPinnedGhRuns` |
| | `NobodyIsStranded` | `NothingStranded` |
| `LocalStageProofs` | `ReferencesAreBacked` | `ReferenceIsBacked` |
| | `AcknowledgedIsKept` | `AckedNeverLost` |
| `SignedTransferProofs` | `KeyStaysInSandbox` | `KeyOnlyInSandbox` |
| | `TheAttestedIsSigned` | `SignedIsAttested` |
| | `TheSignedIsQualified` | `SignedIsQualified` |
| | `TheAdmittedIsSigned` | `AdmittedIsSigned` |
| | `EveryRefusalHasCause` | `RefusedForCause` |
| | `BundleIsComplete` | `VisibleIsComplete` |
| `ReleaseWizardProofs` | `PhaseIsBacked` | `PhaseBacked` |
| | `SavedPhaseStays` | `SavedNeverLost` |
| | `RemoteIsNotAbandoned` | `NoRemoteAbandoned` (action property) |
| `ReleaseWorkProofs` | `StagedIsRecorded` | `StagedAsRecorded` |
| | `SignersAreTrusted` | `OnlyTrustedSign` |
| `AcquisitionProofs` | `TheCancelledIsUnpublished` | `CancelledIsUnpublished` |
| | `TheCacheIsClean` | `NothingLeftBehind` |
| | `OneRedirectPolicy` | `FetchersAgree` |
| | `TheVerifiedIsInstallable` | `VerifiedIsInstallable` |
| | `NothingIsInVain` | `NothingInVain` |
| | `ResolveIsNearest`, `RangeIs`, `RequiredIs`, `AcceptedUnpacks` | resolution, ranges, closure and archives are their references |
| | `DerivedInstalls`, `VerifiedWork`, `DiscoveredVerifies`, `ReplayedIsAccepted`, `AcceptedIsRead` | what each verdict is good for |

Besides, each module states its inductive invariant as a theorem
(`JournalIsConsistent`, `EvidenceIsConsistent`, `ProcessesInOrder`,
`OwnershipIsExclusive`, `HandoffIsConsistent`, `OutputIsConsistent`,
`ReleasesStayResumable`, `WorkIsConsistent`, `PublicationIsDecided`,
`OnlyTheCheckedIsGiven`). Every proof
of one has a lemma per action, over lemmas that say what any step of the actor
leaves alone.

### The invariants, and why they are needed

*The remote workflow.* None of the properties is inductive. `WorkflowInv` adds two
parts to the types. `RecordsInv` says that `main` is a valid, never recovered
operation, that `temp` exists only beside a `main` it is an authorized successor
of, and that only `stage-remote` is past its first step without a record.
`PlaceInv` says what the running command knows at each step: for instance that
while assets are uploaded the record is bound to the release in the command's
local variable, and that the record's count is at least the number of assets
verified in this run. That is what makes the update of each step authorized:
`update_operation` takes the larger of the two counts, and without `PlaceInv` it
could skip one. `ChainInv` adds that a receipt the command is about to act on is
the one it has checked; the publication of nothing but the approved release rests
on it, because a late publish request names the release of an approved receipt.
`ExactInv` adds that a receipt lists every asset, which is what makes an upload
impossible once they have been compared: a release that is exact when its
publication is recorded is out of the reach of every later request and edit.

*Broker recovery* runs the same commands under a certificate that may name another
broker, so it has an invariant of its own, `RecoveryInv`: the types, and what each
step relies on with or without a certificate. From the gate on, the broker in use
is the one the operation was begun with or the one the certificate names
(`Authority`); the steps that create a tag or a draft are reached without a
certificate only; an asset about to be uploaded is neither retained nor observed.
`OneDraft` needs to know which requests are
pending: it is proved where no request takes effect after its command
(`~MayDelay`, a hypothesis of both theorems), and false without that; the hazard
is listed.

*Durable files.* A loss of power may bring back any directory of the journal, so
the invariants speak of all of them. In `OperationStore` each shows the visible
record or the acknowledged one, and one that still has a temporary shows the
latter; that is the refinement mapping, and each step of the store is a step of
`AtomicRecord` or a stutter. In `EvidenceFiles` the mark is the last file of an
order, so `EvidenceInv` says for each file under way that what precedes it in the
order is durable or was changed by the operator since.

*`BrokerProcess`.* What is known of `gh`, of the helper and of GitHub follows from
where the broker is, and where the broker can be follows from where the client
is; one conjunct per process (`ClientInv`, `BrokerInv`, `ChildrenInv`).

*`LocalStage`.* The argument is one of ownership: a marker that is linked as the
recovery record was known to one run only, its `flock` is held by one process at
a time, and only the process that holds the `flock` of the marker in place changes
the reference, the latest temporary or the marker. From that, every directory of
the journal has a reference at least as new as what was acknowledged
(`Promises`). Inodes are finite in number but unbounded, so a new one is found
with the theorems on finite sets.

*The signer.* Launcher and signer hash the manifest and then parse it from the same
descriptor; a rewriting in between gives one that is not the one hashed. The
invariant says that the file then still has the later text, which the passes over
the retained files compare with the digest. Past them the manifest is the attested
one and every record is read by its digests. `stage-local` is the same argument
over the output's inodes and digests. The converse has an invariant of its own,
`RefusalInv`: either something is wrong, from the start or since, or the ceremony
holds the manifest of the prepared transfer, an inode of it for every file, and
the launcher's sandbox; and what was signed verifies. Each check is then shown to
accept what the constructors make (`LauncherIsAdmitted`, `SoundIsAccepted`,
`BundleVerifies`, `AttestationIsValid`, `OutputIsAccepted`), which compares the
rules and lists that three programs keep separately. For the output directory (`OutputInv`):
since it was made it is for one input, in all of the versions a loss of power may
leave; the command that made it is the only one that fills the bundle, wherever
others are; while it does, no version is final; and it goes to the rename only
with all files durable.

*The wizard.* A loss of power may bring back a directory with a replacement of the
state that the wizard then takes for a later state, and lose what was not synced.
So `WizardInv` says what every version's replacement promises, that a state or a
candidate is unsynced, or cut short, only where a run took it over (`Sound`), and
what each step of a save knows of the directory it sees. A loss of power only turns
files into partial ones, and a partial file promises nothing, so what it leaves of
a sound version is sound. For `ReleaseWork` the files that the last
comparison of `finalize_qualified_candidate` relies on must still be the compared
ones when the signer reads them; from `qualified` on nothing but the bundle is
written or can be lost, and before that a loss of power that takes a file takes
what was made from it, because that was named later.

*`Acquisition`.* What is published depends on one word that caller and worker
change in turn: `AcqInv` says what it can be at each step of the caller, what the
worker has done at each of its own, and that a result of cancellation stands only
before an abort. `FetchersAgree` compares three redirect policies over a chain of
URLs, each next one written in any of three forms (`LocationForms`: as a URL, with
what `Url::join` cleans away, too long), and needs, besides that each hop was
admitted, that a GitHub object may come
from both of GitHub's hosts (`BothHosts`, a hypothesis of `OneRedirectPolicy`; the
fetches of the run have it).

*What the acquisition verifies.* The invariant is small: whatever the worker holds
passed the check before it (`GivenInv`). It rests on `AcqInv`, because nobody but
the worker's own steps gives it anything and a process keeps its command. The work
is in what the checks let through, which the runs compare on a few thousand
releases and the theorems on all of them.

* *Archives* (`AcceptedUnpacks`). `ParseInv` says after every header that what the
  parser keeps, under a file's name or as an alias of it, is exactly what the
  headers so far wrote under the names unpacking gives them, and which name a pax
  header or a long name announced for the next. At the end every alias repeats the
  file it is one of, so what is kept of a name is what unpacking leaves.
* *Ranges* (`RangeIs`). Each term's comparators are an interval, and the interval
  has the versions whose numbers agree with the term up to a position; a caret's
  position is the first number that is not zero. A prerelease is admitted only by a
  comparator that names one of its triple; the upper end of an interval does name
  one, but the lowest (`-0`), below which there is none (`NoneOfTheSame`), so it is
  a comparator of a term that has the prerelease itself.
* *Closure* (`RequiredIs`). The queue of `verify_closure` takes a package again
  when it turns out to be required, so the order of the queue must not matter.
  `WalkInv` says that every package held as required is in every installation, that
  what follows from a settled package is settled or queued, and `Potential` counts
  how often packages may still be queued: it falls with each turn, so the walk ends
  within `Turns`, with nothing pending. The slip `NotAgain` breaks the second part.
* *Graphs of older releases* (`VerifiedWork`). The intent and the lock are gone
  through in step; that the intent is as long as the lock, and that the lock is
  listed in one order with each package once (`PackagesAre`), makes the observed
  packages those of the lock.
* *Bundles* (`AcceptedIsRead`, `ReplayedIsAccepted`, `NothingIsInVain`). What is
  copied is every file of the request, each once (`PreparedAre`), so the reader's
  comparison holds. That a replayed release is accepted needs the sum of a set of
  files: `TotalIsOfAny` shows that it does not depend on the order it is taken in,
  `TotalOfBoth` and `TotalOfImage` that a union or an image has at most the sum of
  its parts. Two packages of one digest have one URL by `Coherent`, as the archive
  declares one name and version. For older releases nothing of this is checked
  before the preflight, hence the hypothesis `FitsBundle`; `DiscoveriesFit` of
  `MCAcquisition` is the same of the run's discoveries.

The prover has no induction over data, because the library's theorems on it have
an operator as parameter. These proofs go by the number of steps instead: the set of
the numbers at which a recursive function has its property contains 0 and with each
number the next (`UpTo`, from the well-foundedness of the numbers, whose theorem
takes a set), and `Grows` does the same for the subsets of a finite set.

### Only model-checked

* Everything under fairness: `RecoveredReleaseCompletes`, `RecoveryCompletes`,
  `ReleaseIsPrepared`, `EvidenceCompletes`, `InterruptedIsRecovered`,
  `RequestReturns`, `AcquireSettles`. Liveness and `ENABLED` are beyond the prover.

Every other property of a passing run is stated by a theorem, but the refinement of
`AtomicRecord` is the only one between modules that is proved: that the outcomes
`BrokerProcess` has are those `RemoteWorkflow` assumes, or `EvidenceFiles` the last
step of `ReleaseWizard`, is an argument of section 2.

## 5. Not modelled

*Everywhere.* Ownership, modes and link counts of files, except where they decide a
race; the digest and signature algorithms, which are represented by equality; the
text of documents, URLs, versions and tar headers; fields no decision depends on;
argument parsing and output.

*By component.*

* The transport fixture repeats the read, create, read-back discipline of
  `stage-remote` on a state of its own and is used by the transport test only.
* `BrokerProcess` does not have the blocking of pipes, and takes the parsing of an
  answer as one verdict.
* `LocalStage`: publication of a single object (`publish_or_reuse_object`) is one
  step; file systems without `O_TMPFILE` are in `OperationStore` only.
* `SignerAdmission` has `recover-sign` and `isolation-probe` only as sandboxes;
  `SignedTransfer` has `recover-sign` as a completion mode. A signer orphaned by a
  kill of the wizard is not followed.
* `Acquisition`: the parsing of `package-lock.json` and of the registry's answers,
  of which only the verdict is kept; the file in the root that `discover_inputs`
  publishes; the cache is private to a command and fetches are
  sequential, so the arm for an object linked meanwhile is never taken; the two
  archive policies for known old archives are one; undoing a write is assumed not
  to fail on I/O; staging directories are never deleted by anyone else.
* The wizard: states of schema 1, which it no longer creates; the reading of a
  qualification's records; two labels for one machine, which
  `load_matching_profile` refuses; the rotation command, whose killed
  `atomic_write` leaves a temporary that blocks later rotations; other wizards
  running at once. The outputs of external commands appear whole, and the git
  commit of the evidence only as a `HEAD` that moved.
* Configuration, prompts, the query of the registry, command lines, scripts, test
  vectors and resources have no state of their own that a property could be about.

## 6. Plan

1. A composition of `LocalStage` and `RemoteWorkflow`: a candidate staged while a
   remote operation exists.
