---------------------------- MODULE RemoteWorkflow ----------------------------
(***************************************************************************)
(* The remote half of a release: stage-remote, approve, publish and        *)
(* verify-latest (catalog-publish/src/workflow.rs), the records they keep  *)
(* in the owner's state directory, and the GitHub repository they drive    *)
(* through the broker.                                                     *)
(*                                                                         *)
(* A command runs under the workflow lock (a non-blocking flock), so one   *)
(* command runs at a time; pc is where it is.  Between two steps it may be *)
(* killed, a request may be lost or still be on its way after the command  *)
(* that sent it has ended, and a read may fail.  Each kind of trouble      *)
(* takes one unit of the fault budget.                                     *)
(***************************************************************************)
EXTENDS OperationRecord, FiniteSets

CONSTANTS
    NoRecord,      \* the absence of a record file
    MaxId,         \* bound: identifiers GitHub issues in a behaviour
    MaxFaults,     \* bound: kills, failed reads, lost or late requests
    MaxEdits,      \* bound: edits the owner makes to the draft on GitHub
    MayDelay,      \* can a request outlive the command that sent it?
    StageAnytime   \* is stage-remote also run once a draft receipt exists?

ASSUME NoRecordAssumption == NoRecord \notin RemoteOperation
ASSUME BoundsAssumption == MaxId \in Nat /\ MaxFaults \in Nat /\ MaxEdits \in Nat

VARIABLES
    main,         \* remote-operation-v1.json
    temp,         \* its temporary: what an interrupted replacement leaves
    certificate,  \* broker-recovery-v1.json
    receipt,      \* draft-receipt-v1.json
    approval,     \* the receipt that release-approval names by digest
    publication,  \* the receipt that publication-receipt names by digest
    latest,       \* the receipt that latest-receipt names through publication
    pins,         \* the broker identity of the configuration in use
    tag,          \* GitHub: the production tag
    releases,     \* GitHub: the releases that carry the tag, by id
    nextId,       \* GitHub: the next identifier
    pending,      \* requests GitHub may still act upon
    cmd, pc,      \* the running command and its next step
    index,        \* local variable: assets verified in this run
    release,      \* local variable: release_id
    before,       \* local variable: assets of the read before an upload
    receipts,     \* local variable: asset ids collected for the receipt
    faults, edits

records == <<main, temp, certificate, receipt, approval, publication, latest>>
github  == <<tag, releases, nextId, pending>>
run     == <<cmd, pc, index, release, before, receipts>>
budget  == <<faults, edits>>
vars    == <<records, pins, github, run, budget>>

Names    == 1..AssetCount        \* assets in upload order; the catalog is last
NoAssets == << >>                \* no asset: a function with an empty domain

Runbook  == {"stage", "approve", "publish", "latest"}
Commands == Runbook \cup {"none", "recover"}   \* recover: module BrokerRecovery

Init ==
    /\ main = NoRecord /\ temp = NoRecord /\ certificate = NoRecord
    /\ receipt = NoRecord /\ approval = NoRecord
    /\ publication = NoRecord /\ latest = NoRecord
    /\ pins \in Pins
    /\ tag \in {"absent", "other"}
    /\ releases = << >>
    /\ nextId = 1
    /\ pending = {}
    /\ cmd = "none" /\ pc = "idle"
    /\ index = 0 /\ release = None /\ before = NoAssets /\ receipts = << >>
    /\ faults = 0 /\ edits = 0

-----------------------------------------------------------------------------
(* GitHub, as the broker's seven requests use it.                          *)

With(f, key, value) == [k \in DOMAIN f \cup {key} |-> IF k = key THEN value ELSE f[k]]
Without(f, key)     == [k \in DOMAIN f \ {key} |-> f[k]]

NewRelease == [draft |-> TRUE, exact |-> TRUE, assets |-> NoAssets]

\* The effect of a mutating request.  GitHub keeps tags and asset names
\* unique and refuses a duplicate; it accepts a second draft for a tag.  An
\* upload names only the tag: with two releases it may reach either.
Effect(request) ==
    CASE request.kind = "create_tag" ->
            /\ tag' = IF tag = "absent" THEN "exact" ELSE tag
            /\ UNCHANGED <<releases, nextId>>
      [] request.kind = "create_draft" ->
            /\ UNCHANGED tag
            /\ IF nextId > MaxId \/ \E id \in DOMAIN releases : ~releases[id].draft
               THEN UNCHANGED <<releases, nextId>>
               ELSE /\ releases' = With(releases, nextId, NewRelease)
                    /\ nextId' = nextId + 1
      [] request.kind = "upload" ->
            /\ UNCHANGED tag
            /\ \/ \E id \in DOMAIN releases :
                     /\ nextId <= MaxId
                     /\ request.name \notin DOMAIN releases[id].assets
                     /\ releases' = [releases EXCEPT ![id].assets =
                                       With(@, request.name, [id |-> nextId, good |-> TRUE])]
                     /\ nextId' = nextId + 1
               \/ /\ \/ nextId > MaxId
                     \/ \A id \in DOMAIN releases : request.name \in DOMAIN releases[id].assets
                  /\ UNCHANGED <<releases, nextId>>
      [] request.kind = "publish" ->
            /\ UNCHANGED <<tag, nextId>>
            /\ releases' = IF request.release \in DOMAIN releases
                           THEN [releases EXCEPT ![request.release].draft = FALSE]
                           ELSE releases

\* The broker never retries and its answer is never trusted: the workflow
\* ignores the result of every mutation and reads back what it did.
Send(request) ==
    \/ Effect(request) /\ UNCHANGED <<pending, faults>>
    \/ /\ faults < MaxFaults
       /\ faults' = faults + 1
       /\ UNCHANGED <<tag, releases, nextId>>
       /\ \/ UNCHANGED pending
          \/ MayDelay /\ pending' = pending \cup {request}

Deliver ==
    \E request \in pending :
       /\ Effect(request)
       /\ pending' = pending \ {request}
       /\ UNCHANGED <<records, pins, run, budget>>

\* project_read_draft: none, the one release with the tag, or a refusal.
\* A slip: a draft the record does not know counts as missing.
DraftUnrecorded == DOMAIN releases = {} \/ main.release_id = None

DraftMissing == DOMAIN releases = {}
Ambiguous    == Cardinality(DOMAIN releases) > 1
DraftRead    == {id \in DOMAIN releases : ~Ambiguous}

Ids(assets) == [name \in DOMAIN assets |-> assets[name].id]

RequireAssetPrefix(assets) == DOMAIN assets = 1..Cardinality(DOMAIN assets)

RequireRelease(id, expected, draft) ==
    /\ expected # None => id = expected
    /\ releases[id].exact
    /\ releases[id].draft = draft
    /\ RequireAssetPrefix(releases[id].assets)

RequireSingleNewAsset(old, new, name) ==
    /\ DOMAIN new = DOMAIN old \cup {name}
    /\ name \notin DOMAIN old
    /\ \A prior \in DOMAIN old : new[prior] = old[prior] /\ old[prior].id # new[name].id

RequireCompleteAssets(assets, ids) == Ids(assets) = ids

\* redownload_receipt_assets: every listed asset still has the signed bytes.
RedownloadReceiptAssets(assets, ids) ==
    RequireCompleteAssets(assets, ids) /\ \A name \in DOMAIN assets : assets[name].good

-----------------------------------------------------------------------------
(* The run and its records.                                                *)

\* Every way a command ends: its local variables are gone, its lock is free.
Leave ==
    /\ cmd' = "none" /\ pc' = "idle"
    /\ index' = 0 /\ release' = None /\ before' = NoAssets /\ receipts' = << >>

Goto(step) == pc' = step /\ UNCHANGED <<cmd, index, release, before, receipts>>

\* replace_operation_record: the new record is linked as the temporary, then
\* renamed over the old one.  A command killed in between leaves both.
Replace(next, then) ==
    \/ /\ main' = next
       /\ then
       /\ UNCHANGED <<temp, faults>>
    \/ /\ next # main /\ faults < MaxFaults
       /\ temp' = next
       /\ Leave
       /\ faults' = faults + 1
       /\ UNCHANGED main

\* update_operation: nothing is written when nothing changes, and an invalid
\* record is never written.
Persist(next, then) ==
    IF ValidateOperation(next)
    THEN Replace(next, then)
    ELSE Leave /\ UNCHANGED <<main, temp, faults>>

AbandonUncertain == Persist(MarkOperationUncertain(main), Leave)

\* A slip: the phase in which an operation is adopted is not accepted.
ValidateResumed(op) ==
    IF certificate = NoRecord
    THEN ~op.broker_recovery_required /\ op.observed_remote_assets = << >>
    ELSE /\ op.broker_recovery_required
         /\ op.operation = certificate.replacement.operation
         /\ op.phase \in {"uploading", "assets_verified"}

\* broker_recovery::validate_current: an operation without a certificate must
\* not claim one; with a certificate it must descend from its replacement.
ValidateCurrent(op) ==
    IF certificate = NoRecord
    THEN ~op.broker_recovery_required /\ op.observed_remote_assets = << >>
    ELSE LET initial  == certificate.replacement
             retained == certificate.retained.assets
         IN  /\ op.broker_recovery_required
             /\ op.operation = initial.operation
             /\ op.release_id = initial.release_id
             /\ op.verified_assets >= initial.verified_assets
             /\ op.phase \in {"uncertain", "uploading", "assets_verified"}
             /\ \/ op.observed_remote_assets = << >>
                \/ IsStrictPrefix(retained, op.observed_remote_assets)

Listed(assets, ids) ==
    \A name \in DOMAIN ids : name \in DOMAIN assets /\ assets[name].id = ids[name]

\* A slip: what was uploaded since the recovery may have disappeared.
RequireRetained(id) ==
    certificate # NoRecord =>
       /\ id = certificate.retained.release_id
       /\ ValidateCurrent(main)
       /\ Listed(releases[id].assets, certificate.retained.assets)

\* broker_recovery::require_preserved, for the commands' reads of a draft.
RequirePreserved(id) ==
    certificate # NoRecord =>
       /\ id = certificate.retained.release_id
       /\ ValidateCurrent(main)
       /\ Listed(releases[id].assets, certificate.retained.assets)
       /\ Listed(releases[id].assets, main.observed_remote_assets)

\* require_receipt_ids: a recovered receipt repeats every observed identifier.
RequireReceiptIds(ids) ==
    IF certificate = NoRecord
    THEN ~main.broker_recovery_required /\ main.observed_remote_assets = << >>
    ELSE /\ main.broker_recovery_required
         /\ main.operation = certificate.replacement.operation
         /\ main.release_id = certificate.replacement.release_id
         /\ main.observed_remote_assets = ids
         /\ Len(ids) = AssetCount
         /\ IsPrefix(certificate.retained.assets, ids)

ValidateDraftReceipt(r) ==
    /\ r # NoRecord /\ main # NoRecord
    /\ r.operation = main.operation
    /\ r.release_id = main.release_id
    /\ main.phase = "assets_verified" /\ main.verified_assets = AssetCount
    /\ Len(r.assets) = AssetCount
    /\ RequireReceiptIds(r.assets)

\* A slip: an approval that is not there is not missed.
ValidateAnyApproval(a, r) == a = NoRecord \/ a = r

\* Approval and publication repeat the receipt they name, field by field.
ValidateApproval(a, r) == a # NoRecord /\ a = r
ValidatePublication(p, a, r) == p # NoRecord /\ p = a /\ p = r

-----------------------------------------------------------------------------
(* Starting a command: the lock, then the leftover temporary.              *)

Start(command) ==
    /\ pc = "idle"
    /\ command = "stage" => StageAnytime \/ receipt = NoRecord
    /\ cmd' = command /\ pc' = "settle"
    /\ UNCHANGED <<index, release, before, receipts, records, pins, github, budget>>

\* validate_operation_binding: stage and publish also compare the broker pins.
Bound(op) ==
    /\ ValidateOperation(op)
    /\ cmd \in {"stage", "publish"} => op.operation = pins

Acceptable(op) == op # NoRecord => Bound(op) /\ ValidateCurrent(op)

FirstStep ==
    CASE cmd = "stage"   -> "begin"
      [] cmd = "approve" -> "approve"
      [] cmd = "publish" -> "check"
      [] cmd = "latest"  -> "fetch"

Decision ==
    IF /\ Acceptable(main) /\ Acceptable(temp)
       /\ main = NoRecord => certificate = NoRecord
    THEN SettleDecision(main, temp, NoRecord, cmd \in {"stage", "publish"})
    ELSE "refuse"

\* settle_pending_operation: promote the temporary, unlink it, or stop.
Settle ==
    /\ pc = "settle"
    /\ main' = IF Decision = "promote" THEN temp ELSE main
    /\ temp' = IF Decision \in {"promote", "discard"} THEN NoRecord ELSE temp
    /\ IF Decision = "refuse" THEN Leave ELSE Goto(FirstStep)
    /\ UNCHANGED <<certificate, receipt, approval, publication, latest,
                   pins, github, budget>>

-----------------------------------------------------------------------------
(* stage-remote                                                            *)

\* What a step of stage-remote that writes only the operation leaves alone.
Steady == UNCHANGED <<certificate, receipt, approval, publication, latest,
                      pins, edits>>
NoMutation == UNCHANGED github

\* A slip: a recovered operation creates its tag again.
StageBeginAnew ==
    /\ pc = "begin"
    /\ main' = IF main = NoRecord THEN InitialOperation(pins) ELSE main
    /\ IF ValidateCurrent(main') THEN Goto("createTag") ELSE Leave
    /\ UNCHANGED <<temp, faults>> /\ Steady /\ NoMutation

\* begin_operation writes the first record, or resumes the existing one, and
\* validate_current decides whether this is a recovered operation.
StageBegin ==
    /\ pc = "begin"
    /\ main' = IF main = NoRecord THEN InitialOperation(pins) ELSE main
    /\ IF ValidateCurrent(main')
       THEN Goto(IF certificate = NoRecord THEN "createTag" ELSE "readTag")
       ELSE Leave
    /\ UNCHANGED <<temp, faults>> /\ Steady /\ NoMutation

StageCreateTag ==
    /\ pc = "createTag"
    /\ Send([kind |-> "create_tag"])
    /\ Goto("readTag")
    /\ UNCHANGED <<main, temp>> /\ Steady

StageReadTag ==
    /\ pc = "readTag"
    /\ IF tag = "exact"
       THEN Persist(UpdateOperation(main, None, main.verified_assets, "tag_verified"),
                    Goto("readDraft"))
       ELSE AbandonUncertain
    /\ Steady /\ NoMutation

\* The draft's id becomes the operation's release_id.
BindDraft(id) ==
    Persist(UpdateOperation(main, id, main.verified_assets, "draft_bound"),
            /\ release' = id
            /\ pc' = "readBefore"
            /\ UNCHANGED <<cmd, index, before, receipts>>)

\* ensure_exact_draft; a recovered operation must find its draft as it was,
\* and leaves its record alone when it does not.
StageReadDraft ==
    /\ pc = "readDraft"
    /\ \/ \E id \in DraftRead :
             IF RequireRelease(id, main.release_id, TRUE) /\ RequirePreserved(id)
             THEN BindDraft(id)
             ELSE IF certificate = NoRecord THEN AbandonUncertain
             ELSE Leave /\ UNCHANGED <<main, temp, faults>>
       \/ /\ DraftMissing
          /\ IF certificate = NoRecord THEN Goto("createDraft") ELSE Leave
          /\ UNCHANGED <<main, temp, faults>>
    /\ Steady /\ NoMutation

StageCreateDraft ==
    /\ pc = "createDraft"
    /\ Send([kind |-> "create_draft"])
    /\ Goto("rereadDraft")
    /\ UNCHANGED <<main, temp>> /\ Steady

StageRereadDraft ==
    /\ pc = "rereadDraft"
    /\ \/ \E id \in DraftRead :
             IF RequireRelease(id, main.release_id, TRUE)
             THEN BindDraft(id)
             ELSE AbandonUncertain
       \/ DraftMissing /\ AbandonUncertain
    /\ Steady /\ NoMutation

\* verify_and_upload_all, the asset at position index + 1.
Name == index + 1

\* Where an asset that is on the draft goes next: a recovered operation
\* records its identifier (StageObserve in BrokerRecovery) before it is
\* downloaded.
Located == IF certificate = NoRecord THEN "download" ELSE "observe"

StageReadBefore ==
    /\ pc = "readBefore"
    /\ \/ \E id \in DraftRead :
             LET assets == releases[id].assets
                 count  == Cardinality(DOMAIN assets)
             IN  IF RequireRelease(id, release, TRUE) /\ RequirePreserved(id)
                 THEN IF count < index THEN AbandonUncertain
                      ELSE /\ before' = assets
                           /\ pc' = IF count > index THEN Located ELSE "upload"
                           /\ UNCHANGED <<cmd, index, release, receipts, main, temp, faults>>
                 ELSE Leave /\ UNCHANGED <<main, temp, faults>>
       \/ DraftMissing /\ AbandonUncertain
    /\ Steady /\ NoMutation

StageUpload ==
    /\ pc = "upload"
    /\ Send([kind |-> "upload", name |-> Name])
    /\ Goto("readAfter")
    /\ UNCHANGED <<main, temp>> /\ Steady

\* The upload's own answer is not consulted: it either shows up as the single
\* new asset of this read or the operation is uncertain.
StageReadAfter ==
    /\ pc = "readAfter"
    /\ \/ \E id \in DraftRead :
             IF ~RequireRelease(id, release, TRUE) THEN AbandonUncertain
             ELSE IF ~RequirePreserved(id) THEN Leave /\ UNCHANGED <<main, temp, faults>>
             ELSE IF ~RequireSingleNewAsset(before, releases[id].assets, Name)
             THEN AbandonUncertain
             ELSE /\ before' = releases[id].assets
                  /\ pc' = Located
                  /\ UNCHANGED <<cmd, index, release, receipts, main, temp, faults>>
       \/ DraftMissing /\ AbandonUncertain
    /\ Steady /\ NoMutation

\* The next asset, or the end of the loop.
AfterAsset(count) == IF count = AssetCount THEN "assetsVerified" ELSE "readBefore"

\* Download by identifier, compare with the signed digest, count it.
StageDownload ==
    /\ pc = "download"
    /\ IF /\ release \in DOMAIN releases
          /\ Name \in DOMAIN releases[release].assets
          /\ releases[release].assets[Name] = [id |-> before[Name].id, good |-> TRUE]
       THEN Persist(UpdateOperation(main, release, index + 1, "uploading"),
                    /\ index' = index + 1
                    /\ receipts' = Append(receipts, before[Name].id)
                    /\ before' = NoAssets
                    /\ pc' = AfterAsset(index + 1)
                    /\ UNCHANGED <<cmd, release>>)
       ELSE AbandonUncertain
    /\ Steady /\ NoMutation

StageAssetsVerified ==
    /\ pc = "assetsVerified"
    /\ Persist(UpdateOperation(main, release, AssetCount, "assets_verified"),
               Goto("finalTag"))
    /\ Steady /\ NoMutation

StageFinalTag ==
    /\ pc = "finalTag"
    /\ IF tag = "exact" THEN Goto("finalDraft") /\ UNCHANGED <<main, temp, faults>>
       ELSE AbandonUncertain
    /\ Steady /\ NoMutation

StageFinalDraft ==
    /\ pc = "finalDraft"
    /\ \/ \E id \in DraftRead :
             IF ~RequirePreserved(id) THEN Leave /\ UNCHANGED <<main, temp, faults>>
             ELSE IF /\ RequireRelease(id, release, TRUE)
                     /\ RedownloadReceiptAssets(releases[id].assets, receipts)
             THEN Goto("writeReceipt") /\ UNCHANGED <<main, temp, faults>>
             ELSE AbandonUncertain
       \/ DraftMissing /\ AbandonUncertain
    /\ Steady /\ NoMutation

\* A slip: the later record wins.
WriteOver(existing, record) == record

\* write_record_no_clobber: an existing record must be the same record.
WriteNoClobber(existing, record) == IF existing = NoRecord THEN record ELSE existing

StageWriteReceipt ==
    /\ pc = "writeReceipt"
    /\ LET drafted == [release_id |-> release, operation |-> main.operation,
                       assets |-> receipts]
       IN  receipt' = IF ValidateDraftReceipt(drafted)
                      THEN WriteNoClobber(receipt, drafted) ELSE receipt
    /\ Leave
    /\ UNCHANGED <<main, temp, certificate, approval, publication, latest,
                   pins, github, budget>>

-----------------------------------------------------------------------------
(* approve, publish, verify-latest                                         *)

\* approve writes the approval only for the receipt whose digest the owner
\* gave; with one receipt, any other digest ends the command.
Approve ==
    /\ pc = "approve"
    /\ approval' = IF ValidateDraftReceipt(receipt)
                   THEN WriteNoClobber(approval, receipt) ELSE approval
    /\ Leave
    /\ UNCHANGED <<main, temp, certificate, receipt, publication, latest,
                   pins, github, budget>>

\* Steps of publish up to its record change no record, and mark nothing.
Unrecorded == UNCHANGED <<records, pins, edits>>
GotoOrLeave(condition, step) == IF condition THEN Goto(step) ELSE Leave

PublishCheck ==
    /\ pc = "check"
    /\ GotoOrLeave(/\ ValidateDraftReceipt(receipt)
                   /\ ValidateApproval(approval, receipt)
                   /\ receipt.operation = pins
                   /\ tag = "exact",
                   "publishRead")
    /\ Unrecorded /\ NoMutation /\ UNCHANGED faults

\* A slip: the release is known by its identifier, its assets are not read.
RequireReceiptIdentity(id) == id = receipt.release_id /\ releases[id].exact

\* require_receipt_release, with the downloads that follow it.
RequireReceiptRelease(id) ==
    /\ id = receipt.release_id
    /\ releases[id].exact
    /\ RedownloadReceiptAssets(releases[id].assets, receipt.assets)

PublishRead ==
    /\ pc = "publishRead"
    /\ \/ \E id \in DraftRead :
             IF RequireReceiptRelease(id)
             THEN Goto(IF publication = NoRecord /\ releases[id].draft
                       THEN "publishSend" ELSE "publishReread")
             ELSE Leave
       \/ DraftMissing /\ Leave
    /\ Unrecorded /\ NoMutation /\ UNCHANGED faults

PublishSend ==
    /\ pc = "publishSend"
    /\ Send([kind |-> "publish", release |-> receipt.release_id])
    /\ Goto("publishReread")
    /\ Unrecorded

PublishReread ==
    /\ pc = "publishReread"
    /\ \/ \E id \in DraftRead :
             GotoOrLeave(RequireReceiptRelease(id) /\ ~releases[id].draft, "publishWrite")
       \/ DraftMissing /\ Leave
    /\ Unrecorded /\ NoMutation /\ UNCHANGED faults

\* publish then releases the lock and goes on as verify-latest does, under a
\* new one: here that is the start of another command.
PublishWrite ==
    /\ pc = "publishWrite"
    /\ publication' = WriteNoClobber(publication, receipt)
    /\ Leave
    /\ UNCHANGED <<main, temp, certificate, receipt, approval, latest,
                   pins, github, budget>>

\* prepare_latest and the credential-free fetch: the catalog that GitHub
\* serves as latest must be the signed one, byte for byte.
LatestFetch ==
    /\ pc = "fetch"
    /\ GotoOrLeave(/\ publication # NoRecord
                   /\ ValidateDraftReceipt(receipt)
                   /\ ValidateApproval(approval, receipt)
                   /\ ValidatePublication(publication, approval, receipt)
                   /\ \E id \in DOMAIN releases :
                         /\ ~releases[id].draft
                         /\ AssetCount \in DOMAIN releases[id].assets
                         /\ releases[id].assets[AssetCount].good,
                   "latestWrite")
    /\ Unrecorded /\ NoMutation /\ UNCHANGED faults

LatestWrite ==
    /\ pc = "latestWrite"
    /\ latest' = WriteNoClobber(latest, publication)
    /\ Leave
    /\ UNCHANGED <<main, temp, certificate, receipt, approval, publication,
                   pins, github, budget>>

-----------------------------------------------------------------------------
(* Trouble                                                                 *)

DraftReads   == {"readDraft", "rereadDraft", "readBefore", "readAfter", "finalDraft"}
MarkingReads == DraftReads \cup {"readTag", "download", "finalTag"}
PublishReads == {"publishRead", "publishReread"}

\* Does an error of the read at this step mark the operation uncertain?
Marks == pc \in MarkingReads /\ ~(pc = "readDraft" /\ certificate # NoRecord)

\* Two releases with the tag: the broker refuses to say which one it is.
RefuseAmbiguous ==
    /\ Ambiguous
    /\ pc \in DraftReads \cup PublishReads
    /\ IF Marks THEN AbandonUncertain ELSE Leave /\ UNCHANGED <<main, temp, faults>>
    /\ Steady /\ NoMutation

\* A read that fails: the mark it leaves may itself be interrupted.
ReadFails ==
    /\ Marks
    /\ faults < MaxFaults /\ faults' = faults + 1
    /\ \/ main' = MarkOperationUncertain(main) /\ UNCHANGED temp
       \/ temp' = MarkOperationUncertain(main) /\ temp' # main /\ UNCHANGED main
    /\ Leave
    /\ Steady /\ NoMutation

\* The command is killed, or ends with an error that writes nothing.
Stop ==
    /\ pc # "idle"
    /\ faults < MaxFaults /\ faults' = faults + 1
    /\ Leave
    /\ UNCHANGED <<records, pins, github, edits>>

\* Between commands the owner can edit the draft on GitHub.
OwnerEdits ==
    /\ pc = "idle"
    /\ edits < MaxEdits /\ edits' = edits + 1
    /\ \E id \in {r \in DOMAIN releases : releases[r].draft} :
          \/ releases' = Without(releases, id) /\ UNCHANGED nextId
          \/ releases' = [releases EXCEPT ![id].exact = FALSE] /\ UNCHANGED nextId
          \/ \E name \in DOMAIN releases[id].assets :
                \/ /\ releases' = [releases EXCEPT ![id].assets = Without(@, name)]
                   /\ UNCHANGED nextId
                \/ /\ nextId <= MaxId /\ nextId' = nextId + 1
                   /\ \E same \in BOOLEAN :
                         releases' = [releases EXCEPT
                            ![id].assets[name] = [id |-> nextId, good |-> same]]
    /\ UNCHANGED <<records, pins, tag, pending, run, faults>>

-----------------------------------------------------------------------------
StageStep ==
    \/ StageBegin \/ StageCreateTag \/ StageReadTag
    \/ StageReadDraft \/ StageCreateDraft \/ StageRereadDraft
    \/ StageReadBefore \/ StageUpload \/ StageReadAfter
    \/ StageDownload \/ StageAssetsVerified
    \/ StageFinalTag \/ StageFinalDraft \/ StageWriteReceipt

ReleaseStep ==
    \/ Approve
    \/ PublishCheck \/ PublishRead \/ PublishSend \/ PublishReread \/ PublishWrite
    \/ LatestFetch \/ LatestWrite

Progress == Settle \/ StageStep \/ ReleaseStep \/ RefuseAmbiguous

Next ==
    \/ \E command \in Runbook : Start(command)
    \/ Progress
    \/ ReadFails \/ Stop \/ Deliver \/ OwnerEdits

Spec == Init /\ [][Next]_vars

-----------------------------------------------------------------------------
(* Properties                                                              *)

Receipt == [release_id : Nat, operation : Pins, assets : Seq(Nat \ {None})]

Certificate ==
    [ prior       : RemoteOperation,
      replacement : RemoteOperation,
      retained    : [release_id : Nat, assets : Seq(Nat \ {None})] ]

Steps == {"idle", "settle", "begin", "createTag", "readTag", "readDraft",
          "createDraft", "rereadDraft", "readBefore", "upload", "readAfter",
          "observe", "download", "assetsVerified", "finalTag", "finalDraft",
          "writeReceipt", "approve", "check", "publishRead", "publishSend",
          "publishReread", "publishWrite", "fetch", "latestWrite",
          "recoverCheck", "recoverRead", "recoverReread", "recoverProof",
          "recoverSwitch"}

RecordsTypeOK ==
    /\ main \in RemoteOperation \cup {NoRecord}
    /\ temp \in RemoteOperation \cup {NoRecord}
    /\ certificate \in Certificate \cup {NoRecord}
    /\ {receipt, approval, publication, latest} \subseteq Receipt \cup {NoRecord}
    /\ pins \in Pins

IsAssetMap(f) ==
    /\ DOMAIN f \subseteq Names
    /\ \A name \in DOMAIN f : f[name] \in [id : Nat \ {None}, good : BOOLEAN]

Request ==
    [kind : {"create_tag", "create_draft"}]
       \cup [kind : {"upload"}, name : Names]
       \cup [kind : {"publish"}, release : Nat]

GithubTypeOK ==
    /\ tag \in {"absent", "exact", "other"}
    /\ DOMAIN releases \subseteq Nat \ {None}
    /\ \A id \in DOMAIN releases :
          /\ DOMAIN releases[id] = {"draft", "exact", "assets"}
          /\ releases[id].draft \in BOOLEAN /\ releases[id].exact \in BOOLEAN
          /\ IsAssetMap(releases[id].assets)
    /\ nextId \in Nat \ {None}
    /\ pending \subseteq Request

RunTypeOK ==
    /\ cmd \in Commands /\ pc \in Steps
    /\ index \in 0..AssetCount
    /\ release \in Nat
    /\ IsAssetMap(before)
    /\ receipts \in Seq(Nat \ {None})
    /\ faults \in Nat /\ edits \in Nat

\* The type invariant.
TypeOK == RecordsTypeOK /\ GithubTypeOK /\ RunTypeOK

\* Whatever update a command was killed in, the two records it leaves are one
\* authorized step apart, so the next command's settle_pending_operation
\* promotes the temporary instead of declaring the release uncertain for good.
Settleable ==
    temp # NoRecord =>
       /\ main # NoRecord
       /\ ValidateOperation(main) /\ ValidateOperation(temp)
       /\ SchemaAuthorizedNext(main, temp)

\* Across kills, retries and settlement the record never forgets: once bound,
\* the release_id stays, and the verified count never goes down.
ProgressNeverLost ==
    [][main # NoRecord =>
          /\ main' # NoRecord
          /\ main'.operation = main.operation
          /\ main'.verified_assets >= main.verified_assets
          /\ main.release_id # None => main'.release_id = main.release_id]_vars

\* A published release is the approved one: nothing is published before the
\* owner's approval, nor any release but the one its receipt names, even when
\* a publish request arrives late or a second draft exists.
PublishedOnlyIfApproved ==
    \A id \in DOMAIN releases : ~releases[id].draft =>
       approval # NoRecord /\ approval.release_id = id

\* A publication receipt is written only for a public release that still has
\* exactly the identifiers and bytes the owner approved, although the owner
\* may edit the draft between any two commands.
PublicationIsExact ==
    publication # NoRecord =>
       /\ publication.release_id \in DOMAIN releases
       /\ LET published == releases[publication.release_id]
          IN  /\ ~published.draft /\ published.exact
              /\ RedownloadReceiptAssets(published.assets, publication.assets)

\* Each record of the chain names the one before it, and none is replaced.
ChainIntact ==
    /\ approval # NoRecord => approval = receipt
    /\ publication # NoRecord => publication = approval
    /\ latest # NoRecord => latest = publication

\* ensure_exact_draft creates a draft only when there is none: as long as no
\* request outlives its command, at most one release carries the tag.
OneDraft == ~Ambiguous
=============================================================================
