------------------------- MODULE RemoteWorkflowProofs -------------------------
(***************************************************************************)
(* Proofs about the remote workflow and about broker recovery, for every   *)
(* number of assets, broker identities, faults, edits and upgrades.        *)
(*                                                                         *)
(* First what update_operation makes of a valid record: each update        *)
(* stage-remote asks for is one the schema authorizes, which is why an     *)
(* interrupted one can be settled, and none loses progress.                *)
(*                                                                         *)
(* Settleable is not inductive: that an interrupted update left two        *)
(* records one authorized step apart depends on where in stage-remote it   *)
(* was interrupted, so the invariant says, for each step of the command,   *)
(* what is already known of the record.  The last part proves the same of  *)
(* the commands run under a broker-recovery certificate.                   *)
(***************************************************************************)
EXTENDS BrokerRecovery, FiniteSetTheorems, TLAPS

-----------------------------------------------------------------------------
(* The operation record                                                    *)

\* An operation that settle_pending_operation and begin_operation accept when
\* there is no broker-recovery certificate.
Ordinary(op) ==
    /\ op \in RemoteOperation
    /\ ValidateOperation(op)
    /\ ~op.broker_recovery_required
    /\ op.observed_remote_assets = << >>

\* From one record to the next nothing is forgotten.
KeepsProgress(op, next) ==
    /\ next.operation = op.operation
    /\ next.verified_assets >= op.verified_assets
    /\ op.release_id # None => next.release_id = op.release_id

\* What the store relies on: an update changes nothing or is authorized.
Authorized(op, next) == next = op \/ SchemaAuthorizedNext(op, next)

\* The observed identifiers, when an update leaves them alone, are preserved.
LEMMA PrefixOfItself ==
    ASSUME NEW s, s \in Seq(Nat \ {None})
    PROVE  IsPrefix(s, s)
  BY DEF IsPrefix

\* The record an update produces is a record, of the same operation.
LEMMA UpdateTyped ==
    ASSUME NEW op \in RemoteOperation, NEW draft \in Nat,
           NEW verified \in 0..AssetCount, NEW requested \in Phases
    PROVE  /\ UpdateOperation(op, draft, verified, requested) \in RemoteOperation
           /\ UpdateOperation(op, draft, verified, requested).operation = op.operation
           /\ UpdateOperation(op, draft, verified, requested).broker_recovery_required
                 = op.broker_recovery_required
           /\ UpdateOperation(op, draft, verified, requested).observed_remote_assets
                 = op.observed_remote_assets
           /\ UpdateOperation(op, draft, verified, requested).release_id
                 = IF draft # None THEN draft ELSE op.release_id
           /\ UpdateOperation(op, draft, verified, requested).verified_assets
                 = Larger(op.verified_assets, verified)
           /\ UpdateOperation(op, draft, verified, requested).phase
                 = MonotonicPhase(op, requested, Larger(op.verified_assets, verified))
  <1> DEFINE reached == Larger(op.verified_assets, verified)
  <1>1. reached \in 0..AssetCount
    BY DEF Larger, RemoteOperation
  <1>2. MonotonicPhase(op, requested, reached) \in Phases
    <2>1. ASSUME requested # "uncertain", op.phase = "uncertain"
          PROVE  ResumedPhase(op, requested, reached) \in Phases
      BY <1>1 DEF ResumedPhase, Phases, RemoteOperation
    <2>2. QED
      BY <2>1 DEF MonotonicPhase, Phases, RemoteOperation
  <1>3. QED
    BY <1>1, <1>2 DEF UpdateOperation, RemoteOperation

\* A valid update leaves an ordinary operation ordinary.
LEMMA UpdateOrdinary ==
    ASSUME NEW op, Ordinary(op), NEW draft \in Nat,
           NEW verified \in 0..AssetCount, NEW requested \in Phases,
           ValidateOperation(UpdateOperation(op, draft, verified, requested))
    PROVE  Ordinary(UpdateOperation(op, draft, verified, requested))
  BY UpdateTyped DEF Ordinary

\* An update that keeps the bound release keeps all progress.
LEMMA UpdateKeepsProgress ==
    ASSUME NEW op, Ordinary(op), NEW draft \in Nat,
           op.release_id # None => draft \in {None, op.release_id},
           NEW verified \in 0..AssetCount, NEW requested \in Phases
    PROVE  KeepsProgress(op, UpdateOperation(op, draft, verified, requested))
  BY UpdateTyped DEF Ordinary, KeepsProgress, Larger, RemoteOperation

\* Two records of one operation, at most one asset and one binding apart.
LEMMA SameOperationAfterUpdate ==
    ASSUME NEW op, Ordinary(op), NEW draft \in Nat,
           op.release_id # None => draft \in {None, op.release_id},
           NEW verified \in 0..AssetCount, verified <= op.verified_assets + 1,
           NEW requested \in Phases
    PROVE  SameOperation(op, UpdateOperation(op, draft, verified, requested))
  BY UpdateTyped, PrefixOfItself DEF Ordinary, SameOperation, Larger, RemoteOperation

\* mark_operation_uncertain is always authorized, and its record is valid.
LEMMA MarkUncertain ==
    ASSUME NEW op, Ordinary(op)
    PROVE  /\ Ordinary(MarkOperationUncertain(op))
           /\ SchemaAuthorizedNext(op, MarkOperationUncertain(op))
           /\ MarkOperationUncertain(op).phase = "uncertain"
  <1> DEFINE next == MarkOperationUncertain(op)
  <1>1. /\ op.release_id \in Nat /\ op.verified_assets \in 0..AssetCount
        /\ "uncertain" \in Phases /\ op \in RemoteOperation
    BY DEF Ordinary, RemoteOperation, Phases
  <1>2. /\ next \in RemoteOperation
        /\ next.release_id = op.release_id
        /\ next.verified_assets = op.verified_assets
        /\ next.phase = "uncertain"
        /\ next.broker_recovery_required = op.broker_recovery_required
        /\ next.observed_remote_assets = op.observed_remote_assets
    BY <1>1, UpdateTyped DEF MarkOperationUncertain, MonotonicPhase, Larger
  <1>3. op.release_id # None \/ op.verified_assets = 0
    BY <1>1 DEF Ordinary, ValidateOperation, OperationPhaseShape, RemoteOperation, Phases
  <1>4. ValidateOperation(next)
    BY <1>1, <1>2, <1>3 DEF Ordinary, ValidateOperation, OperationPhaseShape
  <1>5. SameOperation(op, next)
    BY <1>1, SameOperationAfterUpdate DEF MarkOperationUncertain
  <1>6. QED
    BY <1>2, <1>4, <1>5 DEF Ordinary, SchemaAuthorizedNext, UncertainStep

\* The update of stage-remote's first read, of the tag.
LEMMA TagUpdate ==
    ASSUME NEW op, Ordinary(op),
           NEW next, next = UpdateOperation(op, None, op.verified_assets, "tag_verified"),
           ValidateOperation(next)
    PROVE  /\ Authorized(op, next)
           /\ next.phase # "prepared"
           /\ next.phase = "uncertain" => next.release_id # None
  <1>1. /\ op.release_id \in Nat /\ op.verified_assets \in 0..AssetCount
        /\ op.phase \in Phases /\ op \in RemoteOperation
        /\ None \in Nat /\ "tag_verified" \in Phases
    BY DEF Ordinary, RemoteOperation, Phases, None
  <1>2. /\ next \in RemoteOperation
        /\ next.operation = op.operation
        /\ next.release_id = op.release_id
        /\ next.verified_assets = op.verified_assets
        /\ next.broker_recovery_required = op.broker_recovery_required
        /\ next.observed_remote_assets = op.observed_remote_assets
        /\ next.phase = MonotonicPhase(op, "tag_verified", op.verified_assets)
    BY <1>1, UpdateTyped DEF Larger
  <1>3. SameOperation(op, next)
    BY <1>1, SameOperationAfterUpdate
  <1>4. CASE op.phase = "uncertain"
    <2>1. next.phase = ResumedPhase(op, "tag_verified", op.verified_assets)
      BY <1>2, <1>4 DEF MonotonicPhase
    <2>2. next.phase = "uncertain" => next = op /\ op.release_id # None
      BY <1>1, <1>2, <1>4, <2>1 DEF ResumedPhase, RemoteOperation
    <2>3. next.phase # "uncertain" => PhaseStep(op, next)
      BY <1>4 DEF PhaseStep, ValidateOperation
    <2>4. next.phase # "prepared"
      BY <1>1, <2>1 DEF ResumedPhase
    <2>5. QED
      BY <1>2, <1>3, <2>2, <2>3, <2>4 DEF Authorized, SchemaAuthorizedNext
  <1>5. CASE op.phase = "prepared"
    <2>1. next.phase = "tag_verified"
      BY <1>2, <1>5 DEF MonotonicPhase, Rank
    <2>2. op.release_id = None /\ op.verified_assets = 0
      BY <1>5 DEF Ordinary, ValidateOperation, OperationPhaseShape
    <2>3. QED
      BY <1>2, <1>3, <1>5, <2>1, <2>2 DEF Authorized, SchemaAuthorizedNext, PhaseStep
  <1>6. CASE op.phase \notin {"prepared", "uncertain"}
    <2>1. next.phase = op.phase
      BY <1>1, <1>2, <1>6 DEF MonotonicPhase, Rank, Phases
    <2>2. QED
      BY <1>1, <1>2, <1>6, <2>1 DEF Authorized, RemoteOperation
  <1>7. QED
    BY <1>4, <1>5, <1>6

\* Binding the draft: the update of ensure_exact_draft.
LEMMA DraftUpdate ==
    ASSUME NEW op, Ordinary(op), op.phase # "prepared",
           op.phase = "uncertain" => op.release_id # None,
           NEW draft \in Nat \ {None}, op.release_id # None => op.release_id = draft,
           NEW next, next = UpdateOperation(op, draft, op.verified_assets, "draft_bound"),
           ValidateOperation(next)
    PROVE  /\ Authorized(op, next)
           /\ next.release_id = draft
           /\ next.phase \in {"draft_bound", "uploading", "assets_verified"}
  <1>1. /\ op.release_id \in Nat /\ op.verified_assets \in 0..AssetCount
        /\ op.phase \in Phases /\ op \in RemoteOperation
        /\ "draft_bound" \in Phases
    BY DEF Ordinary, RemoteOperation, Phases
  <1>2. /\ next \in RemoteOperation
        /\ next.operation = op.operation
        /\ next.release_id = draft
        /\ next.verified_assets = op.verified_assets
        /\ next.broker_recovery_required = op.broker_recovery_required
        /\ next.observed_remote_assets = op.observed_remote_assets
        /\ next.phase = MonotonicPhase(op, "draft_bound", op.verified_assets)
    BY <1>1, UpdateTyped DEF Larger
  <1>3. SameOperation(op, next)
    BY <1>1, SameOperationAfterUpdate
  <1>4. CASE op.phase = "uncertain"
    <2>1. next.phase = ResumedPhase(op, "draft_bound", op.verified_assets)
      BY <1>2, <1>4 DEF MonotonicPhase
    <2>2. next.phase \in {"draft_bound", "uploading"}
      BY <1>1, <1>4, <2>1 DEF ResumedPhase
    <2>3. PhaseStep(op, next)
      BY <1>4, <2>2 DEF PhaseStep, ValidateOperation
    <2>4. QED
      BY <1>2, <1>3, <2>2, <2>3 DEF Authorized, SchemaAuthorizedNext
  <1>5. CASE op.phase = "tag_verified"
    <2>1. next.phase = "draft_bound"
      BY <1>2, <1>5 DEF MonotonicPhase, Rank
    <2>2. op.release_id = None /\ op.verified_assets = 0
      BY <1>5 DEF Ordinary, ValidateOperation, OperationPhaseShape
    <2>3. QED
      BY <1>2, <1>3, <1>5, <2>1, <2>2 DEF Authorized, SchemaAuthorizedNext, PhaseStep
  <1>6. CASE op.phase \in {"draft_bound", "uploading", "assets_verified"}
    <2>1. next.phase = op.phase
      BY <1>1, <1>2, <1>6 DEF MonotonicPhase, Rank
    <2>2. op.release_id = draft
      BY <1>6 DEF Ordinary, ValidateOperation, OperationPhaseShape
    <2>3. QED
      BY <1>1, <1>2, <1>6, <2>1, <2>2 DEF Authorized, RemoteOperation
  <1>7. QED
    BY <1>1, <1>4, <1>5, <1>6 DEF Phases

\* The phases in which assets are uploaded and verified.
Staging(op) == op.phase \in {"draft_bound", "uploading", "assets_verified"}

\* Counting one downloaded asset; the record may already be ahead.
LEMMA AssetUpdate ==
    ASSUME NEW op, Ordinary(op), Staging(op), op.release_id # None,
           NEW count \in 1..AssetCount, count <= op.verified_assets + 1,
           NEW next, next = UpdateOperation(op, op.release_id, count, "uploading"),
           ValidateOperation(next)
    PROVE  /\ Authorized(op, next)
           /\ next.release_id = op.release_id
           /\ next.verified_assets >= count
           /\ Staging(next)
  <1>1. /\ op.release_id \in Nat /\ op.verified_assets \in 0..AssetCount
        /\ op.phase \in Phases /\ op \in RemoteOperation
        /\ "uploading" \in Phases /\ count \in 0..AssetCount
    BY AssetCountAssumption DEF Ordinary, RemoteOperation, Phases
  <1>2. /\ next \in RemoteOperation
        /\ next.operation = op.operation
        /\ next.release_id = op.release_id
        /\ next.verified_assets = Larger(op.verified_assets, count)
        /\ next.broker_recovery_required = op.broker_recovery_required
        /\ next.observed_remote_assets = op.observed_remote_assets
        /\ next.phase = MonotonicPhase(op, "uploading", Larger(op.verified_assets, count))
    <2>1. op.release_id \in Nat /\ count \in 0..AssetCount /\ "uploading" \in Phases
      BY <1>1
    <2>2. op \in RemoteOperation /\ op.release_id # None
      BY <1>1
    <2> HIDE <1>1
    <2>3. QED
      BY <2>1, <2>2, UpdateTyped
  <1>3. SameOperation(op, next)
    BY <1>1, SameOperationAfterUpdate
  <1>4. CASE op.phase = "draft_bound"
    <2>1. op.verified_assets = 0
      BY <1>4 DEF Ordinary, ValidateOperation, OperationPhaseShape
    <2>2. next.verified_assets = 1
      BY <1>2, <2>1 DEF Larger
    <2>3. next.phase = "uploading"
      BY <1>2, <1>4 DEF MonotonicPhase, Rank
    <2>4. QED
      BY <1>2, <1>3, <1>4, <2>1, <2>2, <2>3
         DEF Authorized, SchemaAuthorizedNext, PhaseStep, Staging
  <1>5. CASE op.phase = "uploading"
    <2>1. next.phase = "uploading"
      BY <1>2, <1>5 DEF MonotonicPhase, Rank
    <2>2. next.verified_assets \in {op.verified_assets, op.verified_assets + 1}
      BY <1>1, <1>2 DEF Larger
    <2>3. next.verified_assets = op.verified_assets => next = op
      BY <1>1, <1>2, <1>5, <2>1 DEF RemoteOperation
    <2>4. QED
      BY <1>1, <1>2, <1>3, <1>5, <2>1, <2>2, <2>3
         DEF Authorized, SchemaAuthorizedNext, PhaseStep, Staging, Larger
  <1>6. CASE op.phase = "assets_verified"
    <2>1. op.verified_assets = AssetCount
      BY <1>6 DEF Ordinary, ValidateOperation, OperationPhaseShape
    <2>2. next.verified_assets = op.verified_assets
      BY <1>1, <1>2, <2>1 DEF Larger
    <2>3. next.phase = op.phase
      BY <1>2, <1>6 DEF MonotonicPhase, Rank
    <2>4. QED
      BY <1>1, <1>2, <1>6, <2>1, <2>2, <2>3 DEF Authorized, RemoteOperation, Staging
  <1>7. QED
    BY <1>4, <1>5, <1>6 DEF Staging

\* All assets are counted: the last update before the draft receipt.
LEMMA VerifiedUpdate ==
    ASSUME NEW op, Ordinary(op), Staging(op), op.release_id # None,
           op.verified_assets = AssetCount,
           NEW next, next = UpdateOperation(op, op.release_id, AssetCount, "assets_verified"),
           ValidateOperation(next)
    PROVE  Authorized(op, next)
  <1>1. /\ op.release_id \in Nat /\ op.verified_assets \in 0..AssetCount
        /\ op.phase \in Phases /\ op \in RemoteOperation
        /\ "assets_verified" \in Phases /\ AssetCount \in 0..AssetCount
    BY AssetCountAssumption DEF Ordinary, RemoteOperation, Phases
  <1>2. /\ next \in RemoteOperation
        /\ next.operation = op.operation
        /\ next.release_id = op.release_id
        /\ next.verified_assets = AssetCount
        /\ next.broker_recovery_required = op.broker_recovery_required
        /\ next.observed_remote_assets = op.observed_remote_assets
        /\ next.phase = MonotonicPhase(op, "assets_verified", AssetCount)
    BY <1>1, UpdateTyped DEF Larger
  <1>3. SameOperation(op, next)
    BY <1>1, SameOperationAfterUpdate
  <1>4. op.phase # "draft_bound"
    BY AssetCountAssumption DEF Ordinary, ValidateOperation, OperationPhaseShape
  <1>5. next.phase = "assets_verified"
    BY <1>2, <1>4 DEF MonotonicPhase, Rank, Staging
  <1>6. op.phase = "assets_verified" => next = op
    BY <1>1, <1>2, <1>5 DEF RemoteOperation
  <1>7. QED
    BY <1>2, <1>3, <1>4, <1>5, <1>6
       DEF Authorized, SchemaAuthorizedNext, PhaseStep, Staging

\* Every authorized step keeps the progress, whoever made it.
LEMMA AuthorizedKeepsProgress ==
    ASSUME NEW op \in RemoteOperation, NEW next \in RemoteOperation, Authorized(op, next)
    PROVE  KeepsProgress(op, next)
  BY DEF Authorized, SchemaAuthorizedNext, SameOperation, KeepsProgress, RemoteOperation

\* So settlement never has to refuse what an interrupted update left.
LEMMA AuthorizedIsSettled ==
    ASSUME NEW op, NEW next, NEW absent, NEW expected,
           op # absent, next # absent, SchemaAuthorizedNext(op, next)
    PROVE  SettleDecision(op, next, absent, expected) \in {"promote", "discard"}
  BY DEF SettleDecision

-----------------------------------------------------------------------------
(* The remote workflow: typing and settlement                              *)

BeforeBinding == {"idle", "settle", "begin", "createTag", "readTag",
                  "readDraft", "createDraft", "rereadDraft"}
Binding       == {"readDraft", "createDraft", "rereadDraft"}
Uploading     == {"readBefore", "upload", "readAfter", "download"}
Finishing     == {"assetsVerified", "finalTag", "finalDraft", "writeReceipt"}
Staged        == {"createTag", "readTag"} \cup Binding \cup Uploading \cup Finishing
Publishing    == {"publishRead", "publishSend", "publishReread", "publishWrite"}
Releasing     == {"approve", "check", "fetch", "latestWrite"} \cup Publishing

\* The records: there is no certificate, the operation is an ordinary one, and
\* its temporary is one authorized step ahead.
RecordsInv ==
    /\ certificate = NoRecord
    /\ main # NoRecord => Ordinary(main)
    /\ temp # NoRecord =>
          main # NoRecord /\ Ordinary(temp) /\ SchemaAuthorizedNext(main, temp)

\* The local release_id is the recorded one, and the record is not behind.
Attached ==
    /\ release # None /\ release = main.release_id
    /\ Staging(main)
    /\ index <= main.verified_assets

\* What a step of a command may rely on.
PlaceInv ==
    /\ pc \in BeforeBinding \cup Staged \cup Releasing
    /\ pc = "settle" => cmd \in Runbook
    /\ pc \notin {"idle", "settle"} => temp = NoRecord
    /\ pc \in BeforeBinding => index = 0
    /\ pc \in Staged => main # NoRecord
    /\ pc \in Binding =>
          main.phase # "prepared" /\ (main.phase = "uncertain" => main.release_id # None)
    /\ pc \in Uploading => Attached /\ index < AssetCount
    /\ pc = "assetsVerified" => Attached /\ index = AssetCount
    /\ pc \in Publishing => receipt # NoRecord

WorkflowInv == TypeOK /\ RecordsInv /\ PlaceInv

\* The chain of records and the requests that follow from it.
ChainInv ==
    /\ ChainIntact
    /\ pc \in Publishing => receipt # NoRecord /\ approval = receipt
    /\ pc = "latestWrite" => publication # NoRecord
    /\ \A request \in pending : request.kind = "publish" =>
          approval # NoRecord /\ request.release = approval.release_id
    /\ PublishedOnlyIfApproved

\* Nothing recorded of the operation is forgotten by a step.
Kept == main # NoRecord => main' # NoRecord /\ KeepsProgress(main, main')

-----------------------------------------------------------------------------
(* The initial state                                                       *)

LEMMA InitWorkflow == Init => WorkflowInv
  <1> SUFFICES ASSUME Init PROVE WorkflowInv
    OBVIOUS
  <1>1. RecordsTypeOK
    BY DEF Init, RecordsTypeOK
  <1>2. GithubTypeOK
    BY DEF Init, GithubTypeOK, None, Request
  <1>3. RunTypeOK
    BY AssetCountAssumption
       DEF Init, RunTypeOK, IsAssetMap, NoAssets, Commands, Runbook, Steps, None
  <1>4. RecordsInv
    BY DEF Init, RecordsInv
  <1>5. PlaceInv
    BY DEF Init, PlaceInv, BeforeBinding, Binding, Uploading, Finishing, Staged, Releasing, Publishing
  <1>6. QED
    BY <1>1, <1>2, <1>3, <1>4, <1>5 DEF WorkflowInv, TypeOK

-----------------------------------------------------------------------------
(* What the steps have in common                                           *)

\* However the operation moved by one update, its records stay in order.
LEMMA OperationMoves ==
    ASSUME RecordsInv, RecordsTypeOK, main # NoRecord, temp = NoRecord,
           NEW next, Ordinary(next), Authorized(main, next),
           certificate' = certificate,
           \/ main' = next /\ temp' = temp
           \/ main' = main /\ temp' = next /\ next # main
           \/ main' = main /\ temp' = temp
    PROVE  /\ RecordsInv' /\ Kept /\ main' # NoRecord
           /\ {main', temp'} \subseteq RemoteOperation \cup {NoRecord}
  <1>1. /\ main \in RemoteOperation /\ next \in RemoteOperation /\ next # NoRecord
        /\ Ordinary(main)
    BY NoRecordAssumption DEF RecordsInv, Ordinary
  <1>2. KeepsProgress(main, next) /\ KeepsProgress(main, main)
    <2>1. Authorized(main, main)
      BY DEF Authorized
    <2>2. QED
      BY <1>1, <2>1, AuthorizedKeepsProgress
  <1>3. next # main => SchemaAuthorizedNext(main, next)
    BY DEF Authorized
  <1>4. QED
    BY <1>1, <1>2, <1>3 DEF RecordsInv, Kept

\* A command that ends leaves nothing but the records.
LEMMA LeaveRun ==
    ASSUME WorkflowInv, Leave, faults' \in Nat, edits' \in Nat
    PROVE  RunTypeOK' /\ PlaceInv'
  <1>1. RunTypeOK'
    BY AssetCountAssumption
       DEF Leave, RunTypeOK, IsAssetMap, NoAssets, Commands, Steps, None
  <1>2. PlaceInv'
    BY DEF Leave, PlaceInv, BeforeBinding, Binding, Uploading, Finishing, Staged, Releasing, Publishing
  <1>3. QED
    BY <1>1, <1>2

\* A command that ends with one update, made, interrupted or not attempted.
LEMMA UpdateAndLeave ==
    ASSUME WorkflowInv, main # NoRecord, temp = NoRecord,
           NEW next, Ordinary(next), Authorized(main, next),
           \/ main' = next /\ temp' = temp
           \/ main' = main /\ temp' = next /\ next # main
           \/ main' = main /\ temp' = temp,
           Leave, Steady, NoMutation, faults' \in Nat
    PROVE  WorkflowInv' /\ Kept
  <1>1. /\ RecordsInv' /\ Kept
        /\ {main', temp'} \subseteq RemoteOperation \cup {NoRecord}
    BY OperationMoves DEF WorkflowInv, TypeOK, Steady
  <1>2. RunTypeOK' /\ PlaceInv'
    BY LeaveRun DEF WorkflowInv, TypeOK, RunTypeOK, Steady
  <1>3. RecordsTypeOK'
    BY <1>1 DEF WorkflowInv, TypeOK, RecordsTypeOK, Steady
  <1>4. GithubTypeOK'
    BY DEF WorkflowInv, TypeOK, GithubTypeOK, NoMutation, github
  <1>5. QED
    BY <1>1, <1>2, <1>3, <1>4 DEF WorkflowInv, TypeOK

\* mark_uncertain, at any step that may call it.
LEMMA Abandon ==
    ASSUME WorkflowInv, main # NoRecord, temp = NoRecord,
           AbandonUncertain, Steady, NoMutation
    PROVE  WorkflowInv' /\ Kept
  <1> DEFINE next == MarkOperationUncertain(main)
  <1>1. Ordinary(next) /\ SchemaAuthorizedNext(main, next)
    BY MarkUncertain DEF WorkflowInv, RecordsInv
  <1>2. ValidateOperation(next) /\ Authorized(main, next)
    BY <1>1 DEF Ordinary, Authorized
  <1>3. faults \in Nat
    BY DEF WorkflowInv, TypeOK, RunTypeOK
  <1>4. Leave /\ faults' \in Nat
    BY <1>2, <1>3 DEF AbandonUncertain, Persist, Replace
  <1>5. \/ main' = next /\ temp' = temp
        \/ main' = main /\ temp' = next /\ next # main
    BY <1>2 DEF AbandonUncertain, Persist, Replace
  <1>6. QED
    BY <1>1, <1>2, <1>4, <1>5, UpdateAndLeave

\* A step that ends the command without writing anything.
LEMMA LeaveUnchanged ==
    ASSUME WorkflowInv, Leave, UNCHANGED <<records, pins>>, GithubTypeOK',
           faults' \in Nat, edits' \in Nat
    PROVE  WorkflowInv' /\ Kept
  <1>1. RunTypeOK' /\ PlaceInv'
    BY LeaveRun
  <1>2. RecordsTypeOK' /\ RecordsInv'
    BY DEF WorkflowInv, TypeOK, RecordsTypeOK, RecordsInv, records
  <1>3. Kept
    <2>1. main # NoRecord => main \in RemoteOperation /\ main' = main
      BY DEF WorkflowInv, RecordsInv, Ordinary, records
    <2>2. Authorized(main, main)
      BY DEF Authorized
    <2>3. QED
      BY <2>1, <2>2, AuthorizedKeepsProgress DEF Kept
  <1>4. QED
    BY <1>1, <1>2, <1>3 DEF WorkflowInv, TypeOK

-----------------------------------------------------------------------------
(* GitHub                                                                  *)

\* A request keeps GitHub well formed, whatever becomes of it.
LEMMA EffectTyped ==
    ASSUME GithubTypeOK, NEW request \in Request, Effect(request), pending' \subseteq Request
    PROVE  GithubTypeOK'
  <1>1. CASE request.kind = "create_tag"
    BY <1>1 DEF Effect, GithubTypeOK
  <1>2. CASE request.kind = "create_draft"
    <2>1. CASE UNCHANGED <<releases, nextId>>
      BY <1>2, <2>1 DEF Effect, GithubTypeOK
    <2>2. CASE /\ releases' = With(releases, nextId, NewRelease)
               /\ nextId' = nextId + 1
      <3>1. /\ DOMAIN NewRelease = {"draft", "exact", "assets"}
            /\ NewRelease.draft \in BOOLEAN /\ NewRelease.exact \in BOOLEAN
            /\ IsAssetMap(NewRelease.assets)
        BY DEF NewRelease, IsAssetMap, NoAssets
      <3>2. DOMAIN releases' = {nextId} \cup DOMAIN releases
        BY <2>2 DEF With
      <3>3. \A id \in DOMAIN releases \cup {nextId} :
               releases'[id] = IF id = nextId THEN NewRelease ELSE releases[id]
        BY <2>2 DEF With
      <3>4. nextId' \in Nat \ {None} /\ UNCHANGED tag
        BY <1>2, <2>2 DEF Effect, GithubTypeOK, None
      <3>5. QED
        BY <3>1, <3>2, <3>3, <3>4 DEF GithubTypeOK
    <2>3. QED
      BY <1>2, <2>1, <2>2 DEF Effect
  <1>3. CASE request.kind = "upload"
    <2>1. CASE UNCHANGED <<releases, nextId>>
      BY <1>3, <2>1 DEF Effect, GithubTypeOK
    <2>2. ASSUME NEW id \in DOMAIN releases,
                 releases' = [releases EXCEPT ![id].assets =
                                With(@, request.name, [id |-> nextId, good |-> TRUE])],
                 nextId' = nextId + 1
          PROVE  GithubTypeOK'
      <3> DEFINE asset  == [id |-> nextId, good |-> TRUE]
                 assets == With(releases[id].assets, request.name, asset)
      <3>1. request.name \in Names
        BY <1>3 DEF Request
      <3>2. asset \in [id : Nat \ {None}, good : BOOLEAN]
        BY DEF GithubTypeOK
      <3>3. IsAssetMap(releases[id].assets)
        BY DEF GithubTypeOK
      <3>4. IsAssetMap(assets)
        BY <3>1, <3>2, <3>3 DEF IsAssetMap, With
      <3>5. /\ DOMAIN releases' = DOMAIN releases
            /\ \A other \in DOMAIN releases \ {id} : releases'[other] = releases[other]
            /\ releases'[id] = [releases[id] EXCEPT !.assets = assets]
        BY <2>2
      <3>6. /\ DOMAIN releases'[id] = {"draft", "exact", "assets"}
            /\ releases'[id].draft \in BOOLEAN /\ releases'[id].exact \in BOOLEAN
            /\ releases'[id].assets = assets
        BY <3>5 DEF GithubTypeOK
      <3>7. nextId' \in Nat \ {None} /\ UNCHANGED tag
        BY <1>3, <2>2 DEF GithubTypeOK, Effect, None
      <3>8. QED
        BY <3>4, <3>5, <3>6, <3>7 DEF GithubTypeOK
    <2>3. QED
      BY <1>3, <2>1, <2>2 DEF Effect
  <1>4. CASE request.kind = "publish"
    <2>1. CASE request.release \in DOMAIN releases
      <3> DEFINE id == request.release
      <3>1. releases' = [releases EXCEPT ![id].draft = FALSE] /\ UNCHANGED <<tag, nextId>>
        BY <1>4, <2>1 DEF Effect
      <3>2. /\ DOMAIN releases' = DOMAIN releases
            /\ \A other \in DOMAIN releases \ {id} : releases'[other] = releases[other]
            /\ releases'[id] = [releases[id] EXCEPT !.draft = FALSE]
        BY <2>1, <3>1
      <3>3. /\ DOMAIN releases'[id] = {"draft", "exact", "assets"}
            /\ releases'[id].draft \in BOOLEAN /\ releases'[id].exact \in BOOLEAN
            /\ releases'[id].assets = releases[id].assets
        BY <2>1, <3>2 DEF GithubTypeOK
      <3>4. QED
        BY <2>1, <3>1, <3>2, <3>3 DEF GithubTypeOK
    <2>2. CASE request.release \notin DOMAIN releases
      BY <1>4, <2>2 DEF Effect, GithubTypeOK
    <2>3. QED
      BY <2>1, <2>2
  <1>5. QED
    BY <1>1, <1>2, <1>3, <1>4 DEF Request

LEMMA SendTyped ==
    ASSUME GithubTypeOK, NEW request \in Request, Send(request), faults \in Nat
    PROVE  GithubTypeOK' /\ faults' \in Nat
  <1>1. CASE Effect(request) /\ UNCHANGED <<pending, faults>>
    BY <1>1, EffectTyped DEF GithubTypeOK
  <1>2. CASE UNCHANGED <<tag, releases, nextId>> /\ faults' = faults + 1
    BY <1>2 DEF Send, GithubTypeOK
  <1>3. QED
    BY <1>1, <1>2 DEF Send

\* The owner's edits keep it well formed too.
LEMMA EditsTyped ==
    ASSUME GithubTypeOK, OwnerEdits
    PROVE  GithubTypeOK'
  <1>1. PICK id \in DOMAIN releases :
          \/ releases' = Without(releases, id) /\ UNCHANGED nextId
          \/ releases' = [releases EXCEPT ![id].exact = FALSE] /\ UNCHANGED nextId
          \/ \E name \in DOMAIN releases[id].assets :
                \/ /\ releases' = [releases EXCEPT ![id].assets = Without(@, name)]
                   /\ UNCHANGED nextId
                \/ /\ nextId' = nextId + 1
                   /\ \E same \in BOOLEAN :
                         releases' = [releases EXCEPT
                            ![id].assets[name] = [id |-> nextId, good |-> same]]
    BY DEF OwnerEdits
  <1>2. UNCHANGED <<tag, pending>>
    BY DEF OwnerEdits
  <1>3. CASE releases' = Without(releases, id) /\ UNCHANGED nextId
    BY <1>2, <1>3 DEF Without, GithubTypeOK
  <1>4. CASE releases' = [releases EXCEPT ![id].exact = FALSE] /\ UNCHANGED nextId
    <2>1. /\ DOMAIN releases' = DOMAIN releases
          /\ \A other \in DOMAIN releases \ {id} : releases'[other] = releases[other]
          /\ releases'[id] = [releases[id] EXCEPT !.exact = FALSE]
      BY <1>4
    <2>2. /\ DOMAIN releases'[id] = {"draft", "exact", "assets"}
          /\ releases'[id].draft \in BOOLEAN /\ releases'[id].exact \in BOOLEAN
          /\ releases'[id].assets = releases[id].assets
      BY <2>1 DEF GithubTypeOK
    <2>3. QED
      BY <1>2, <1>4, <2>1, <2>2 DEF GithubTypeOK
  <1>5. ASSUME NEW assets, IsAssetMap(assets), nextId' \in Nat \ {None},
               /\ DOMAIN releases' = DOMAIN releases
               /\ \A other \in DOMAIN releases \ {id} : releases'[other] = releases[other]
               /\ releases'[id] = [releases[id] EXCEPT !.assets = assets]
        PROVE  GithubTypeOK'
    <2>1. /\ DOMAIN releases'[id] = {"draft", "exact", "assets"}
          /\ releases'[id].draft \in BOOLEAN /\ releases'[id].exact \in BOOLEAN
          /\ releases'[id].assets = assets
      BY <1>5 DEF GithubTypeOK
    <2>2. QED
      BY <1>2, <1>5, <2>1 DEF GithubTypeOK
  <1>6. ASSUME NEW name \in DOMAIN releases[id].assets,
               releases' = [releases EXCEPT ![id].assets = Without(@, name)],
               UNCHANGED nextId
        PROVE  GithubTypeOK'
    <2>1. IsAssetMap(Without(releases[id].assets, name))
      BY DEF GithubTypeOK, IsAssetMap, Without
    <2>2. nextId' \in Nat \ {None}
      BY <1>6 DEF GithubTypeOK
    <2>3. QED
      BY <1>5, <1>6, <2>1, <2>2
  <1>7. ASSUME NEW name \in DOMAIN releases[id].assets, NEW same \in BOOLEAN,
               releases' = [releases EXCEPT ![id].assets[name] = [id |-> nextId, good |-> same]],
               nextId' = nextId + 1
        PROVE  GithubTypeOK'
    <2> DEFINE asset  == [id |-> nextId, good |-> same]
               assets == [releases[id].assets EXCEPT ![name] = asset]
    <2>1. asset \in [id : Nat \ {None}, good : BOOLEAN]
      BY DEF GithubTypeOK
    <2>2. IsAssetMap(assets)
      BY <2>1 DEF GithubTypeOK, IsAssetMap
    <2>3. nextId' \in Nat \ {None}
      BY <1>7 DEF GithubTypeOK, None
    <2>4. QED
      BY <1>5, <1>7, <2>2, <2>3
  <1>8. QED
    BY <1>1, <1>3, <1>4, <1>6, <1>7

-----------------------------------------------------------------------------
(* stage-remote, step by step                                              *)

\* The records of a step that writes none.
LEMMA RecordsStay ==
    ASSUME WorkflowInv, UNCHANGED <<records, pins>>
    PROVE  RecordsTypeOK' /\ RecordsInv' /\ Kept
  <1>1. RecordsTypeOK' /\ RecordsInv'
    BY DEF WorkflowInv, TypeOK, RecordsTypeOK, RecordsInv, records
  <1>2. main # NoRecord => main \in RemoteOperation /\ main' = main
    BY DEF WorkflowInv, RecordsInv, Ordinary, records
  <1>3. Authorized(main, main)
    BY DEF Authorized
  <1>4. QED
    BY <1>1, <1>2, <1>3, AuthorizedKeepsProgress DEF Kept

LEMMA GithubStays ==
    ASSUME WorkflowInv, NoMutation
    PROVE  GithubTypeOK'
  BY DEF WorkflowInv, TypeOK, GithubTypeOK, NoMutation, github

LEMMA InitialOrdinary ==
    ASSUME NEW broker \in Pins
    PROVE  Ordinary(InitialOperation(broker))
  <1> DEFINE op == InitialOperation(broker)
  <1>1. << >> \in Seq(Nat \ {None})
    OBVIOUS
  <1>2. op \in RemoteOperation
    BY <1>1, AssetCountAssumption DEF InitialOperation, RemoteOperation, Phases, None
  <1>3. IsInjective(<< >>)
    BY DEF IsInjective
  <1>4. Len(<< >>) = 0
    OBVIOUS
  <1>5. ValidateOperation(op)
    BY <1>3, <1>4, AssetCountAssumption
       DEF InitialOperation, ValidateOperation, OperationPhaseShape, None
  <1>6. QED
    BY <1>2, <1>5 DEF Ordinary, InitialOperation

LEMMA BeginStep ==
    ASSUME WorkflowInv, StageBegin
    PROVE  WorkflowInv' /\ Kept
  <1>1. /\ pc = "begin" /\ temp = NoRecord /\ temp' = temp /\ index = 0
        /\ certificate = NoRecord /\ certificate' = certificate
        /\ faults' = faults /\ edits' = edits
    BY DEF StageBegin, Steady, WorkflowInv, PlaceInv, RecordsInv, BeforeBinding
  <1>2. /\ main' # NoRecord /\ Ordinary(main')
        /\ main # NoRecord => main' = main
    <2>1. CASE main = NoRecord
      <3>1. pins \in Pins
        BY DEF WorkflowInv, TypeOK, RecordsTypeOK
      <3>2. Ordinary(main')
        BY <2>1, <3>1, InitialOrdinary DEF StageBegin
      <3>3. QED
        BY <2>1, <3>2, NoRecordAssumption DEF Ordinary
    <2>2. CASE main # NoRecord
      BY <2>2 DEF StageBegin, WorkflowInv, RecordsInv
    <2>3. QED
      BY <2>1, <2>2
  <1>3. RecordsInv'
    BY <1>1, <1>2 DEF RecordsInv
  <1>4. RecordsTypeOK'
    BY <1>1, <1>2 DEF WorkflowInv, TypeOK, RecordsTypeOK, StageBegin, Steady, Ordinary
  <1>5. Kept
    <2>1. main # NoRecord => main \in RemoteOperation /\ Authorized(main, main)
      BY DEF WorkflowInv, RecordsInv, Ordinary, Authorized
    <2>2. QED
      BY <1>2, <2>1, AuthorizedKeepsProgress DEF Kept
  <1>6. GithubTypeOK'
    BY GithubStays DEF StageBegin
  <1>7. CASE Goto("createTag")
    <2>1. RunTypeOK'
      BY <1>1, <1>7 DEF WorkflowInv, TypeOK, RunTypeOK, Goto, Steps
    <2>2. PlaceInv'
      BY <1>1, <1>2, <1>7
         DEF Goto, PlaceInv, BeforeBinding, Binding, Uploading, Finishing, Staged, Releasing, Publishing
    <2>3. QED
      BY <1>3, <1>4, <1>5, <1>6, <2>1, <2>2 DEF WorkflowInv, TypeOK
  <1>8. CASE Leave
    <2>1. RunTypeOK' /\ PlaceInv'
      BY <1>1, <1>8, LeaveRun DEF WorkflowInv, TypeOK, RunTypeOK
    <2>2. QED
      BY <1>3, <1>4, <1>5, <1>6, <2>1 DEF WorkflowInv, TypeOK
  <1>9. QED
    BY <1>1, <1>7, <1>8 DEF StageBegin

LEMMA CreateTagStep ==
    ASSUME WorkflowInv, StageCreateTag
    PROVE  WorkflowInv' /\ Kept
  <1>1. [kind |-> "create_tag"] \in Request
    BY DEF Request
  <1>2. GithubTypeOK' /\ faults' \in Nat
    BY <1>1, SendTyped DEF StageCreateTag, WorkflowInv, TypeOK, RunTypeOK
  <1>3. RecordsTypeOK' /\ RecordsInv' /\ Kept
    BY RecordsStay DEF StageCreateTag, Steady, records
  <1>4. RunTypeOK'
    BY <1>2 DEF StageCreateTag, WorkflowInv, TypeOK, RunTypeOK, Goto, Steps, Steady
  <1>5. PlaceInv'
    BY DEF StageCreateTag, Goto, WorkflowInv, PlaceInv,
           BeforeBinding, Binding, Uploading, Finishing, Staged, Releasing, Publishing
  <1>6. QED
    BY <1>2, <1>3, <1>4, <1>5 DEF WorkflowInv, TypeOK

LEMMA ReadTagStep ==
    ASSUME WorkflowInv, StageReadTag
    PROVE  WorkflowInv' /\ Kept
  <1>1. /\ pc = "readTag" /\ main # NoRecord /\ temp = NoRecord /\ index = 0
        /\ Ordinary(main) /\ Steady /\ NoMutation
    BY DEF StageReadTag, WorkflowInv, PlaceInv, RecordsInv, BeforeBinding, Staged
  <1> DEFINE next == UpdateOperation(main, None, main.verified_assets, "tag_verified")
  <1>2. CASE Persist(next, Goto("readDraft"))
    <2>1. CASE ~ValidateOperation(next)
      BY <1>1, <1>2, <2>1, LeaveUnchanged, GithubStays
         DEF Persist, Steady, records, WorkflowInv, TypeOK, RunTypeOK
    <2>2. CASE ValidateOperation(next)
      <3>1. /\ Ordinary(next) /\ Authorized(main, next)
            /\ next.phase # "prepared"
            /\ next.phase = "uncertain" => next.release_id # None
        <4>1. main.verified_assets \in 0..AssetCount /\ None \in Nat /\ "tag_verified" \in Phases
          BY <1>1 DEF Ordinary, RemoteOperation, None, Phases
        <4>2. QED
          BY <1>1, <2>2, <4>1, UpdateOrdinary, TagUpdate
      <3>2. CASE main' = next /\ Goto("readDraft") /\ UNCHANGED <<temp, faults>>
        <4>1. /\ RecordsInv' /\ Kept /\ main' # NoRecord
              /\ {main', temp'} \subseteq RemoteOperation \cup {NoRecord}
          BY <1>1, <3>1, <3>2, OperationMoves DEF WorkflowInv, TypeOK, Steady
        <4>2. RecordsTypeOK' /\ GithubTypeOK'
          BY <1>1, <4>1, GithubStays DEF WorkflowInv, TypeOK, RecordsTypeOK, Steady
        <4>3. RunTypeOK'
          BY <1>1, <3>2 DEF WorkflowInv, TypeOK, RunTypeOK, Goto, Steps, Steady
        <4>4. PlaceInv'
          BY <1>1, <3>1, <3>2, <4>1
             DEF Goto, PlaceInv, BeforeBinding, Binding, Uploading, Finishing, Staged, Releasing, Publishing
        <4>5. QED
          BY <4>1, <4>2, <4>3, <4>4 DEF WorkflowInv, TypeOK
      <3>3. CASE next # main /\ temp' = next /\ Leave /\ faults' = faults + 1 /\ UNCHANGED main
        BY <1>1, <3>1, <3>3, UpdateAndLeave DEF WorkflowInv, TypeOK, RunTypeOK
      <3>4. QED
        BY <1>2, <2>2, <3>2, <3>3 DEF Persist, Replace
    <2>3. QED
      BY <2>1, <2>2
  <1>3. CASE AbandonUncertain
    BY <1>1, <1>3, Abandon
  <1>4. QED
    BY <1>2, <1>3 DEF StageReadTag

LEMMA BindStep ==
    ASSUME WorkflowInv, pc \in Binding, NEW id \in DOMAIN releases,
           RequireRelease(id, main.release_id, TRUE), BindDraft(id), Steady, NoMutation
    PROVE  WorkflowInv' /\ Kept
  <1> DEFINE next == UpdateOperation(main, id, main.verified_assets, "draft_bound")
  <1>1. /\ main # NoRecord /\ temp = NoRecord /\ index = 0 /\ Ordinary(main)
        /\ main.phase # "prepared"
        /\ main.phase = "uncertain" => main.release_id # None
    BY DEF WorkflowInv, PlaceInv, RecordsInv, BeforeBinding, Binding, Staged
  <1>2. id \in Nat \ {None} /\ (main.release_id # None => main.release_id = id)
    BY DEF WorkflowInv, TypeOK, GithubTypeOK, RequireRelease
  <1>3. main.verified_assets \in 0..AssetCount /\ "draft_bound" \in Phases
    BY <1>1 DEF Ordinary, RemoteOperation, Phases
  <1>4. CASE ~ValidateOperation(next)
    BY <1>4, LeaveUnchanged, GithubStays
       DEF BindDraft, Persist, Steady, records, WorkflowInv, TypeOK, RunTypeOK
  <1>5. CASE ValidateOperation(next)
    <2>1. /\ Ordinary(next) /\ Authorized(main, next)
          /\ next.release_id = id /\ Staging(next)
      BY <1>1, <1>2, <1>3, <1>5, UpdateOrdinary, DraftUpdate DEF Staging
    <2>2. CASE /\ main' = next /\ release' = id /\ pc' = "readBefore"
               /\ UNCHANGED <<cmd, index, before, receipts, temp, faults>>
      <3>1. /\ RecordsInv' /\ Kept /\ main' # NoRecord
            /\ {main', temp'} \subseteq RemoteOperation \cup {NoRecord}
        BY <1>1, <2>1, <2>2, OperationMoves DEF WorkflowInv, TypeOK, Steady
      <3>2. RecordsTypeOK' /\ GithubTypeOK'
        BY <3>1, GithubStays DEF WorkflowInv, TypeOK, RecordsTypeOK, Steady
      <3>3. RunTypeOK'
        BY <1>2, <2>2 DEF WorkflowInv, TypeOK, RunTypeOK, Steps, Steady
      <3>4. Attached' /\ index' < AssetCount
        <4>1. index' = 0 /\ main'.verified_assets \in 0..AssetCount
          BY <1>1, <2>1, <2>2 DEF Ordinary, RemoteOperation
        <4>2. QED
          BY <1>2, <2>1, <2>2, <4>1, AssetCountAssumption DEF Attached
      <3>5. PlaceInv'
        BY <1>1, <2>2, <3>1, <3>4
           DEF PlaceInv, BeforeBinding, Binding, Uploading, Finishing, Staged, Releasing, Publishing
      <3>6. QED
        BY <3>1, <3>2, <3>3, <3>5 DEF WorkflowInv, TypeOK
    <2>3. CASE next # main /\ temp' = next /\ Leave /\ faults' = faults + 1 /\ UNCHANGED main
      BY <1>1, <2>1, <2>3, UpdateAndLeave DEF WorkflowInv, TypeOK, RunTypeOK
    <2>4. QED
      BY <1>5, <2>2, <2>3 DEF BindDraft, Persist, Replace
  <1>6. QED
    BY <1>4, <1>5

\* A step that only looks, and goes on or gives up.
LEMMA MoveOn ==
    ASSUME WorkflowInv, NEW step \in Steps, Goto(step),
           UNCHANGED <<records, pins, edits>>, faults' \in Nat, GithubTypeOK',
           PlaceInv'
    PROVE  WorkflowInv' /\ Kept
  <1>1. RecordsTypeOK' /\ RecordsInv' /\ Kept
    BY RecordsStay
  <1>2. RunTypeOK'
    BY DEF WorkflowInv, TypeOK, RunTypeOK, Goto
  <1>3. QED
    BY <1>1, <1>2 DEF WorkflowInv, TypeOK

LEMMA ReadDraftStep ==
    ASSUME WorkflowInv, StageReadDraft
    PROVE  WorkflowInv' /\ Kept
  <1>1. /\ pc = "readDraft" /\ main # NoRecord /\ temp = NoRecord
        /\ certificate = NoRecord /\ Steady /\ NoMutation
    BY DEF StageReadDraft, WorkflowInv, PlaceInv, RecordsInv, Binding, Staged
  <1>2. ASSUME NEW id \in DraftRead, BindDraft(id), RequireRelease(id, main.release_id, TRUE)
        PROVE  WorkflowInv' /\ Kept
    BY <1>1, <1>2, BindStep DEF DraftRead, Binding
  <1>3. CASE AbandonUncertain
    BY <1>1, <1>3, Abandon
  <1>4. CASE Goto("createDraft") /\ UNCHANGED <<main, temp, faults>>
    <2>1. PlaceInv'
      BY <1>1, <1>4 DEF Goto, WorkflowInv, PlaceInv,
           BeforeBinding, Binding, Uploading, Finishing, Staged, Releasing, Publishing
    <2>2. QED
      BY <1>1, <1>4, <2>1, MoveOn, GithubStays
         DEF Steps, Steady, records, WorkflowInv, TypeOK, RunTypeOK
  <1>5. QED
    BY <1>1, <1>2, <1>3, <1>4 DEF StageReadDraft

LEMMA CreateDraftStep ==
    ASSUME WorkflowInv, StageCreateDraft
    PROVE  WorkflowInv' /\ Kept
  <1>1. [kind |-> "create_draft"] \in Request
    BY DEF Request
  <1>2. GithubTypeOK' /\ faults' \in Nat
    BY <1>1, SendTyped DEF StageCreateDraft, WorkflowInv, TypeOK, RunTypeOK
  <1>3. PlaceInv'
    BY DEF StageCreateDraft, Goto, WorkflowInv, PlaceInv,
           BeforeBinding, Binding, Uploading, Finishing, Staged, Releasing, Publishing
  <1>4. QED
    BY <1>2, <1>3, MoveOn DEF StageCreateDraft, Steady, records, Steps

LEMMA RereadDraftStep ==
    ASSUME WorkflowInv, StageRereadDraft
    PROVE  WorkflowInv' /\ Kept
  <1>1. /\ pc = "rereadDraft" /\ main # NoRecord /\ temp = NoRecord
        /\ Steady /\ NoMutation
    BY DEF StageRereadDraft, WorkflowInv, PlaceInv, Binding, Staged
  <1>2. ASSUME NEW id \in DraftRead, BindDraft(id), RequireRelease(id, main.release_id, TRUE)
        PROVE  WorkflowInv' /\ Kept
    BY <1>1, <1>2, BindStep DEF DraftRead, Binding
  <1>3. CASE AbandonUncertain
    BY <1>1, <1>3, Abandon
  <1>4. QED
    BY <1>2, <1>3 DEF StageRereadDraft

LEMMA ReadBeforeStep ==
    ASSUME WorkflowInv, StageReadBefore
    PROVE  WorkflowInv' /\ Kept
  <1>1. /\ pc = "readBefore" /\ main # NoRecord /\ temp = NoRecord
        /\ certificate = NoRecord /\ Attached /\ index < AssetCount
        /\ Steady /\ NoMutation
    BY DEF StageReadBefore, WorkflowInv, PlaceInv, RecordsInv, Uploading, Staged
  <1>2. ASSUME NEW id \in DraftRead, before' = releases[id].assets,
               pc' \in {"download", "upload"},
               UNCHANGED <<cmd, index, release, receipts, main, temp, faults>>
        PROVE  WorkflowInv' /\ Kept
    <2>1. RecordsTypeOK' /\ RecordsInv' /\ Kept /\ GithubTypeOK'
      BY <1>1, <1>2, RecordsStay, GithubStays DEF Steady, records
    <2>2. RunTypeOK'
      BY <1>1, <1>2 DEF WorkflowInv, TypeOK, RunTypeOK, GithubTypeOK, DraftRead, Steps, Steady
    <2>3. PlaceInv'
      BY <1>1, <1>2 DEF WorkflowInv, PlaceInv, Attached,
           BeforeBinding, Binding, Uploading, Finishing, Staged, Releasing, Publishing
    <2>4. QED
      BY <2>1, <2>2, <2>3 DEF WorkflowInv, TypeOK
  <1>3. CASE AbandonUncertain
    BY <1>1, <1>3, Abandon
  <1>4. CASE Leave /\ UNCHANGED <<main, temp, faults>>
    BY <1>1, <1>4, LeaveUnchanged, GithubStays
       DEF Steady, records, WorkflowInv, TypeOK, RunTypeOK
  <1>5. QED
    BY <1>1, <1>2, <1>3, <1>4 DEF StageReadBefore, Located

LEMMA UploadStep ==
    ASSUME WorkflowInv, StageUpload
    PROVE  WorkflowInv' /\ Kept
  <1>1. Attached /\ index < AssetCount /\ index \in 0..AssetCount
    BY DEF StageUpload, WorkflowInv, PlaceInv, Uploading, TypeOK, RunTypeOK
  <1>2. [kind |-> "upload", name |-> Name] \in Request
    BY <1>1, AssetCountAssumption DEF Request, Name, Names
  <1>3. GithubTypeOK' /\ faults' \in Nat
    BY <1>2, SendTyped DEF StageUpload, WorkflowInv, TypeOK, RunTypeOK
  <1>4. PlaceInv'
    BY <1>1 DEF StageUpload, Goto, WorkflowInv, PlaceInv, Attached,
           BeforeBinding, Binding, Uploading, Finishing, Staged, Releasing, Publishing
  <1>5. QED
    BY <1>3, <1>4, MoveOn DEF StageUpload, Steady, records, Steps

LEMMA ReadAfterStep ==
    ASSUME WorkflowInv, StageReadAfter
    PROVE  WorkflowInv' /\ Kept
  <1>1. /\ pc = "readAfter" /\ main # NoRecord /\ temp = NoRecord
        /\ certificate = NoRecord /\ Attached /\ index < AssetCount
        /\ Steady /\ NoMutation
    BY DEF StageReadAfter, WorkflowInv, PlaceInv, RecordsInv, Uploading, Staged
  <1>2. ASSUME NEW id \in DraftRead, before' = releases[id].assets, pc' = "download",
               UNCHANGED <<cmd, index, release, receipts, main, temp, faults>>
        PROVE  WorkflowInv' /\ Kept
    <2>1. RecordsTypeOK' /\ RecordsInv' /\ Kept /\ GithubTypeOK'
      BY <1>1, <1>2, RecordsStay, GithubStays DEF Steady, records
    <2>2. RunTypeOK'
      BY <1>1, <1>2 DEF WorkflowInv, TypeOK, RunTypeOK, GithubTypeOK, DraftRead, Steps, Steady
    <2>3. PlaceInv'
      BY <1>1, <1>2 DEF WorkflowInv, PlaceInv, Attached,
           BeforeBinding, Binding, Uploading, Finishing, Staged, Releasing, Publishing
    <2>4. QED
      BY <2>1, <2>2, <2>3 DEF WorkflowInv, TypeOK
  <1>3. CASE AbandonUncertain
    BY <1>1, <1>3, Abandon
  <1>4. CASE Leave /\ UNCHANGED <<main, temp, faults>>
    BY <1>1, <1>4, LeaveUnchanged, GithubStays
       DEF Steady, records, WorkflowInv, TypeOK, RunTypeOK
  <1>5. QED
    BY <1>1, <1>2, <1>3, <1>4 DEF StageReadAfter, Located

LEMMA DownloadStep ==
    ASSUME WorkflowInv, StageDownload
    PROVE  WorkflowInv' /\ Kept
  <1> DEFINE count == index + 1
             next  == UpdateOperation(main, release, count, "uploading")
  <1>1. /\ pc = "download" /\ main # NoRecord /\ temp = NoRecord /\ Ordinary(main)
        /\ Attached /\ index < AssetCount /\ Steady /\ NoMutation
    BY DEF StageDownload, WorkflowInv, PlaceInv, RecordsInv, Uploading, Staged
  <1>2. /\ count \in 1..AssetCount /\ count <= main.verified_assets + 1
        /\ release = main.release_id /\ release # None /\ Staging(main)
        /\ release \in Nat /\ "uploading" \in Phases /\ count \in 0..AssetCount
    <2>1. index \in 0..AssetCount /\ release \in Nat /\ main.verified_assets \in 0..AssetCount
      BY <1>1 DEF WorkflowInv, TypeOK, RunTypeOK, Ordinary, RemoteOperation
    <2>2. QED
      BY <1>1, <2>1, AssetCountAssumption DEF Attached, Phases
  <1>3. CASE AbandonUncertain
    BY <1>1, <1>3, Abandon
  <1>4. ASSUME /\ release \in DOMAIN releases
               /\ Name \in DOMAIN releases[release].assets
               /\ releases[release].assets[Name] = [id |-> before[Name].id, good |-> TRUE],
               Persist(next,
                    /\ index' = index + 1
                    /\ receipts' = Append(receipts, before[Name].id)
                    /\ before' = NoAssets
                    /\ pc' = AfterAsset(index + 1)
                    /\ UNCHANGED <<cmd, release>>)
        PROVE  WorkflowInv' /\ Kept
    <2>1. CASE ~ValidateOperation(next)
      BY <1>1, <1>4, <2>1, LeaveUnchanged, GithubStays
         DEF Persist, Steady, records, WorkflowInv, TypeOK, RunTypeOK
    <2>2. CASE ValidateOperation(next)
      <3>1. /\ Ordinary(next) /\ Authorized(main, next)
            /\ next.release_id = release /\ next.verified_assets >= count
            /\ Staging(next)
        BY <1>1, <1>2, <2>2, UpdateOrdinary, AssetUpdate
      <3>2. CASE /\ main' = next
                 /\ index' = index + 1
                 /\ receipts' = Append(receipts, before[Name].id)
                 /\ before' = NoAssets
                 /\ pc' = AfterAsset(index + 1)
                 /\ UNCHANGED <<cmd, release, temp, faults>>
        <4>1. /\ RecordsInv' /\ Kept /\ main' # NoRecord
              /\ {main', temp'} \subseteq RemoteOperation \cup {NoRecord}
          BY <1>1, <3>1, <3>2, OperationMoves DEF WorkflowInv, TypeOK, Steady
        <4>2. RecordsTypeOK' /\ GithubTypeOK'
          BY <1>1, <4>1, GithubStays DEF WorkflowInv, TypeOK, RecordsTypeOK, Steady
        <4>3. before[Name].id \in Nat \ {None}
          <5>1. releases[release].assets[Name] \in [id : Nat \ {None}, good : BOOLEAN]
            BY <1>4 DEF WorkflowInv, TypeOK, GithubTypeOK, IsAssetMap
          <5>2. QED
            BY <1>4, <5>1
        <4>4. receipts' \in Seq(Nat \ {None})
          BY <3>2, <4>3 DEF WorkflowInv, TypeOK, RunTypeOK
        <4>5. IsAssetMap(before')
          BY <3>2 DEF IsAssetMap, NoAssets
        <4>6. RunTypeOK'
          BY <1>1, <1>2, <3>2, <4>4, <4>5 DEF WorkflowInv, TypeOK, RunTypeOK, Steps, Steady, AfterAsset
        <4>7. Attached' /\ index' = count /\ temp' = NoRecord
          BY <1>1, <1>2, <3>1, <3>2 DEF Attached
        <4>8. PlaceInv'
          <5>1. CASE count = AssetCount
            <6>1. pc' = "assetsVerified"
              BY <3>2, <5>1 DEF AfterAsset
            <6>2. QED
              BY <4>1, <4>7, <5>1, <6>1
                 DEF PlaceInv, BeforeBinding, Binding, Uploading, Finishing, Staged, Releasing, Publishing
          <5>2. CASE count # AssetCount
            <6>1. pc' = "readBefore" /\ count < AssetCount
              BY <1>2, <3>2, <5>2, AssetCountAssumption DEF AfterAsset
            <6>2. QED
              BY <4>1, <4>7, <6>1
                 DEF PlaceInv, BeforeBinding, Binding, Uploading, Finishing, Staged, Releasing, Publishing
          <5>3. QED
            BY <5>1, <5>2
        <4>9. QED
          BY <4>1, <4>2, <4>6, <4>8 DEF WorkflowInv, TypeOK
      <3>3. CASE next # main /\ temp' = next /\ Leave /\ faults' = faults + 1 /\ UNCHANGED main
        BY <1>1, <3>1, <3>3, UpdateAndLeave DEF WorkflowInv, TypeOK, RunTypeOK
      <3>4. QED
        BY <1>4, <2>2, <3>2, <3>3 DEF Persist, Replace
    <2>3. QED
      BY <2>1, <2>2
  <1>5. QED
    BY <1>3, <1>4 DEF StageDownload

LEMMA AssetsVerifiedStep ==
    ASSUME WorkflowInv, StageAssetsVerified
    PROVE  WorkflowInv' /\ Kept
  <1> DEFINE next == UpdateOperation(main, release, AssetCount, "assets_verified")
  <1>1. /\ pc = "assetsVerified" /\ main # NoRecord /\ temp = NoRecord /\ Ordinary(main)
        /\ Attached /\ index = AssetCount /\ Steady /\ NoMutation
    BY DEF StageAssetsVerified, WorkflowInv, PlaceInv, RecordsInv, Finishing, Staged
  <1>2. /\ release = main.release_id /\ main.release_id # None /\ Staging(main)
        /\ main.verified_assets = AssetCount
        /\ release \in Nat /\ "assets_verified" \in Phases /\ AssetCount \in 0..AssetCount
    <2>1. main.verified_assets \in 0..AssetCount /\ release \in Nat
      BY <1>1 DEF Ordinary, RemoteOperation, WorkflowInv, TypeOK, RunTypeOK
    <2>2. QED
      BY <1>1, <2>1, AssetCountAssumption DEF Attached, Phases
  <1>3. CASE ~ValidateOperation(next)
    BY <1>1, <1>3, LeaveUnchanged, GithubStays
       DEF StageAssetsVerified, Persist, Steady, records, WorkflowInv, TypeOK, RunTypeOK
  <1>4. CASE ValidateOperation(next)
    <2>1. Ordinary(next) /\ Authorized(main, next)
      BY <1>1, <1>2, <1>4, UpdateOrdinary, VerifiedUpdate
    <2>2. CASE main' = next /\ Goto("finalTag") /\ UNCHANGED <<temp, faults>>
      <3>1. /\ RecordsInv' /\ Kept /\ main' # NoRecord
            /\ {main', temp'} \subseteq RemoteOperation \cup {NoRecord}
        BY <1>1, <2>1, <2>2, OperationMoves DEF WorkflowInv, TypeOK, Steady
      <3>2. RecordsTypeOK' /\ GithubTypeOK'
        BY <1>1, <3>1, GithubStays DEF WorkflowInv, TypeOK, RecordsTypeOK, Steady
      <3>3. RunTypeOK'
        BY <1>1, <2>2 DEF WorkflowInv, TypeOK, RunTypeOK, Goto, Steps, Steady
      <3>4. PlaceInv'
        BY <1>1, <2>2, <3>1 DEF Goto, PlaceInv,
             BeforeBinding, Binding, Uploading, Finishing, Staged, Releasing, Publishing
      <3>5. QED
        BY <3>1, <3>2, <3>3, <3>4 DEF WorkflowInv, TypeOK
    <2>3. CASE next # main /\ temp' = next /\ Leave /\ faults' = faults + 1 /\ UNCHANGED main
      BY <1>1, <2>1, <2>3, UpdateAndLeave DEF WorkflowInv, TypeOK, RunTypeOK
    <2>4. QED
      BY <1>4, <2>2, <2>3 DEF StageAssetsVerified, Persist, Replace
  <1>5. QED
    BY <1>3, <1>4

LEMMA FinalStep ==
    ASSUME WorkflowInv, StageFinalTag \/ StageFinalDraft
    PROVE  WorkflowInv' /\ Kept
  <1>1. /\ pc \in {"finalTag", "finalDraft"} /\ main # NoRecord /\ temp = NoRecord
        /\ Steady /\ NoMutation
    BY DEF StageFinalTag, StageFinalDraft, WorkflowInv, PlaceInv, Finishing, Staged
  <1>2. CASE AbandonUncertain
    BY <1>1, <1>2, Abandon
  <1>3. CASE Leave /\ UNCHANGED <<main, temp, faults>>
    BY <1>1, <1>3, LeaveUnchanged, GithubStays
       DEF Steady, records, WorkflowInv, TypeOK, RunTypeOK
  <1>4. ASSUME NEW step \in {"finalDraft", "writeReceipt"}, Goto(step),
               UNCHANGED <<main, temp, faults>>
        PROVE  WorkflowInv' /\ Kept
    <2>1. PlaceInv'
      BY <1>1, <1>4 DEF Goto, WorkflowInv, PlaceInv,
           BeforeBinding, Binding, Uploading, Finishing, Staged, Releasing, Publishing
    <2>2. QED
      BY <1>1, <1>4, <2>1, MoveOn, GithubStays
         DEF Steps, Steady, records, WorkflowInv, TypeOK, RunTypeOK
  <1>5. QED
    BY <1>2, <1>3, <1>4 DEF StageFinalTag, StageFinalDraft

\* The records other than the operation, written at the end of a command.
LEMMA RecordAndLeave ==
    ASSUME WorkflowInv, Leave, UNCHANGED <<main, temp, certificate, pins, github, budget>>,
           {receipt', approval', publication', latest'} \subseteq Receipt \cup {NoRecord}
    PROVE  WorkflowInv' /\ Kept
  <1>1. RunTypeOK' /\ PlaceInv'
    BY LeaveRun DEF WorkflowInv, TypeOK, RunTypeOK, budget
  <1>2. RecordsTypeOK' /\ RecordsInv'
    BY DEF WorkflowInv, TypeOK, RecordsTypeOK, RecordsInv
  <1>3. GithubTypeOK'
    BY GithubStays DEF NoMutation
  <1>4. Kept
    <2>1. main # NoRecord => main \in RemoteOperation /\ Authorized(main, main)
      BY DEF WorkflowInv, RecordsInv, Ordinary, Authorized
    <2>2. QED
      BY <2>1, AuthorizedKeepsProgress DEF Kept
  <1>5. QED
    BY <1>1, <1>2, <1>3, <1>4 DEF WorkflowInv, TypeOK

LEMMA WriteSteps ==
    ASSUME WorkflowInv, StageWriteReceipt \/ Approve \/ PublishWrite \/ LatestWrite
    PROVE  WorkflowInv' /\ Kept
  <1>1. {receipt, approval, publication, latest} \subseteq Receipt \cup {NoRecord}
    BY DEF WorkflowInv, TypeOK, RecordsTypeOK
  <1>2. CASE StageWriteReceipt
    <2> DEFINE drafted == [release_id |-> release, operation |-> main.operation,
                           assets |-> receipts]
    <2>1. drafted \in Receipt
      BY <1>2 DEF StageWriteReceipt, WorkflowInv, PlaceInv, RecordsInv, Ordinary, TypeOK,
                  RunTypeOK, Receipt, RemoteOperation, Finishing, Staged
    <2>2. receipt' \in Receipt \cup {NoRecord}
      BY <1>1, <1>2, <2>1 DEF StageWriteReceipt, WriteNoClobber
    <2>3. QED
      BY <1>1, <1>2, <2>2, RecordAndLeave DEF StageWriteReceipt
  <1>3. CASE Approve
    BY <1>1, <1>3, RecordAndLeave DEF Approve, WriteNoClobber
  <1>4. CASE PublishWrite
    BY <1>1, <1>4, RecordAndLeave DEF PublishWrite, WriteNoClobber
  <1>5. CASE LatestWrite
    BY <1>1, <1>5, RecordAndLeave DEF LatestWrite, WriteNoClobber
  <1>6. QED
    BY <1>2, <1>3, <1>4, <1>5

-----------------------------------------------------------------------------
(* The other commands, and trouble                                         *)

LEMMA StartStep ==
    ASSUME WorkflowInv, NEW command \in Runbook, Start(command)
    PROVE  WorkflowInv' /\ Kept
  <1>1. RecordsTypeOK' /\ RecordsInv' /\ Kept /\ GithubTypeOK'
    BY RecordsStay, GithubStays DEF Start, NoMutation
  <1>2. RunTypeOK'
    BY DEF Start, WorkflowInv, TypeOK, RunTypeOK, Commands, Steps, budget
  <1>3. PlaceInv'
    BY DEF Start, WorkflowInv, PlaceInv,
           BeforeBinding, Binding, Uploading, Finishing, Staged, Releasing, Publishing
  <1>4. QED
    BY <1>1, <1>2, <1>3 DEF WorkflowInv, TypeOK

\* Settlement promotes the temporary of an interrupted update or there is
\* nothing to settle.
LEMMA SettleStep ==
    ASSUME WorkflowInv, Settle
    PROVE  WorkflowInv' /\ Kept
  <1>1. /\ pc = "settle" /\ cmd \in Runbook /\ index = 0
        /\ certificate = NoRecord /\ certificate' = certificate
        /\ pins' = pins /\ faults' = faults /\ edits' = edits
    BY DEF Settle, WorkflowInv, PlaceInv, RecordsInv, BeforeBinding, budget
  <1>2. temp # NoRecord => /\ main # NoRecord /\ Ordinary(temp) /\ Ordinary(main)
                           /\ SchemaAuthorizedNext(main, temp)
    BY DEF WorkflowInv, RecordsInv
  <1>3. GithubTypeOK'
    BY GithubStays DEF Settle, NoMutation
  <1>4. \/ main' = main /\ temp' = temp
        \/ main' = main /\ temp # NoRecord /\ temp' = NoRecord
        \/ Decision = "promote" /\ main' = temp /\ temp' = NoRecord
    BY DEF Settle, Decision, SettleDecision
  <1>5. Decision = "promote" => temp # NoRecord
    BY DEF Decision, SettleDecision
  <1>6. RecordsInv'
    BY <1>1, <1>2, <1>4, <1>5, NoRecordAssumption DEF WorkflowInv, RecordsInv, Ordinary
  <1>7. RecordsTypeOK'
    BY <1>1, <1>2, <1>4, <1>5 DEF Settle, WorkflowInv, TypeOK, RecordsTypeOK, Ordinary
  <1>8. Kept
    <2>1. main # NoRecord => main \in RemoteOperation /\ Authorized(main, main)
      BY DEF WorkflowInv, RecordsInv, Ordinary, Authorized
    <2>2. main' # main => /\ main \in RemoteOperation /\ main' \in RemoteOperation
                          /\ main' # NoRecord /\ Authorized(main, main')
      BY <1>2, <1>4, <1>5 DEF Ordinary, Authorized
    <2>3. QED
      BY <2>1, <2>2, AuthorizedKeepsProgress DEF Kept
  <1>9. CASE Decision = "refuse"
    <2>1. RunTypeOK' /\ PlaceInv'
      BY <1>1, <1>9, LeaveRun DEF Settle, WorkflowInv, TypeOK, RunTypeOK
    <2>2. QED
      BY <1>3, <1>6, <1>7, <1>8, <2>1 DEF WorkflowInv, TypeOK
  <1>10. CASE Decision # "refuse"
    <2>1. Goto(FirstStep) /\ FirstStep \in {"begin", "approve", "check", "fetch"}
      BY <1>1, <1>10 DEF Settle, FirstStep, Runbook
    <2>2. temp' = NoRecord
      BY <1>1, <1>2, <1>10, AuthorizedIsSettled DEF Settle, Decision, SettleDecision
    <2>3. RunTypeOK'
      BY <1>1, <2>1 DEF Goto, WorkflowInv, TypeOK, RunTypeOK, Steps
    <2>4. PlaceInv'
      BY <1>1, <2>1, <2>2
         DEF Goto, PlaceInv, BeforeBinding, Binding, Uploading, Finishing, Staged, Releasing, Publishing
    <2>5. QED
      BY <1>3, <1>6, <1>7, <1>8, <2>3, <2>4 DEF WorkflowInv, TypeOK
  <1>11. QED
    BY <1>9, <1>10

LEMMA ReleaseSteps ==
    ASSUME WorkflowInv,
           PublishCheck \/ PublishRead \/ PublishSend \/ PublishReread \/ LatestFetch
    PROVE  WorkflowInv' /\ Kept
  <1>1. /\ UNCHANGED <<records, pins, edits>> /\ pc \in Releasing
        /\ faults \in Nat /\ edits \in Nat /\ GithubTypeOK
    BY DEF PublishCheck, PublishRead, PublishSend, PublishReread, LatestFetch, Unrecorded,
           Releasing, Publishing, WorkflowInv, TypeOK, RunTypeOK
  <1>2. GithubTypeOK' /\ faults' \in Nat
    <2>1. CASE PublishSend
      <3>1. [kind |-> "publish", release |-> receipt.release_id] \in Request
        <4>1. receipt # NoRecord
          BY <2>1 DEF PublishSend, WorkflowInv, PlaceInv, Publishing
        <4>2. receipt \in Receipt
          BY <4>1 DEF WorkflowInv, TypeOK, RecordsTypeOK
        <4>3. QED
          BY <4>2 DEF Request, Receipt
      <3>2. QED
        BY <1>1, <2>1, <3>1, SendTyped DEF PublishSend
    <2>2. CASE ~PublishSend
      BY <1>1, <2>2, GithubStays
         DEF PublishCheck, PublishRead, PublishReread, LatestFetch
    <2>3. QED
      BY <2>1, <2>2
  <1>3. CASE Leave
    BY <1>1, <1>2, <1>3, LeaveUnchanged
  <1>4. ASSUME NEW step \in {"publishRead", "publishSend", "publishReread",
                             "publishWrite", "latestWrite"}, Goto(step)
        PROVE  WorkflowInv' /\ Kept
    <2>1. receipt # NoRecord \/ step = "latestWrite"
      <3>1. CASE pc \in Publishing
        BY <3>1 DEF WorkflowInv, PlaceInv
      <3>2. CASE PublishCheck
        <4>1. ~Leave
          BY <1>4 DEF Goto, Leave
        <4>2. QED
          BY <3>2, <4>1 DEF PublishCheck, GotoOrLeave, ValidateDraftReceipt
      <3>3. CASE LatestFetch
        <4>1. Goto("latestWrite")
          BY <1>4, <3>3 DEF LatestFetch, GotoOrLeave, Goto, Leave
        <4>2. QED
          BY <1>4, <4>1 DEF Goto
      <3>4. QED
        BY <3>1, <3>2, <3>3 DEF PublishRead, PublishSend, PublishReread, Publishing
    <2>2. PlaceInv'
      BY <1>1, <1>4, <2>1 DEF Goto, WorkflowInv, PlaceInv, records,
           BeforeBinding, Binding, Uploading, Finishing, Staged, Releasing, Publishing
    <2>3. QED
      BY <1>1, <1>2, <1>4, <2>2, MoveOn DEF Steps
  <1>5. QED
    BY <1>3, <1>4
       DEF PublishCheck, PublishRead, PublishSend, PublishReread, LatestFetch, GotoOrLeave

\* Trouble ends the command, and at most marks the operation uncertain.
LEMMA TroubleSteps ==
    ASSUME WorkflowInv, RefuseAmbiguous \/ ReadFails \/ Stop
    PROVE  WorkflowInv' /\ Kept
  <1> DEFINE next == MarkOperationUncertain(main)
  <1>1. faults \in Nat /\ edits \in Nat
    BY DEF WorkflowInv, TypeOK, RunTypeOK
  <1>2. pc \in MarkingReads => main # NoRecord /\ temp = NoRecord
    BY DEF WorkflowInv, PlaceInv, MarkingReads, DraftReads,
           Staged, Binding, Uploading, Finishing
  <1>3. CASE RefuseAmbiguous
    <2>1. CASE Marks
      BY <1>2, <1>3, <2>1, Abandon DEF RefuseAmbiguous, Marks
    <2>2. CASE ~Marks
      BY <1>1, <1>3, <2>2, LeaveUnchanged, GithubStays DEF RefuseAmbiguous, Steady, records
    <2>3. QED
      BY <2>1, <2>2
  <1>4. CASE ReadFails
    <2>1. main # NoRecord /\ temp = NoRecord
      BY <1>2, <1>4 DEF ReadFails, Marks
    <2>2. Ordinary(next) /\ SchemaAuthorizedNext(main, next)
      BY <2>1, MarkUncertain DEF WorkflowInv, RecordsInv
    <2>3. Authorized(main, next) /\ faults' \in Nat
      BY <1>1, <1>4, <2>2 DEF Authorized, ReadFails
    <2>4. \/ main' = next /\ temp' = temp
          \/ main' = main /\ temp' = next /\ next # main
      BY <1>4 DEF ReadFails
    <2>5. Leave /\ Steady /\ NoMutation
      BY <1>4 DEF ReadFails
    <2>6. QED
      BY <2>1, <2>2, <2>3, <2>4, <2>5, UpdateAndLeave
  <1>5. CASE Stop
    BY <1>1, <1>5, LeaveUnchanged, GithubStays DEF Stop, NoMutation
  <1>6. QED
    BY <1>3, <1>4, <1>5

\* GitHub changing on its own disturbs no record and no command.
LEMMA GithubSteps ==
    ASSUME WorkflowInv, Deliver \/ OwnerEdits
    PROVE  WorkflowInv' /\ Kept
  <1>1. UNCHANGED <<records, pins, run, faults>> /\ edits' \in Nat
    BY DEF Deliver, OwnerEdits, budget, WorkflowInv, TypeOK, RunTypeOK
  <1>2. RecordsTypeOK' /\ RecordsInv' /\ Kept
    BY <1>1, RecordsStay
  <1>3. GithubTypeOK'
    <2>1. CASE Deliver
      <3>1. PICK request \in pending : Effect(request) /\ pending' = pending \ {request}
        BY <2>1 DEF Deliver
      <3>2. request \in Request /\ pending' \subseteq Request /\ GithubTypeOK
        BY <3>1 DEF WorkflowInv, TypeOK, GithubTypeOK
      <3>3. QED
        BY <3>1, <3>2, EffectTyped
    <2>2. CASE OwnerEdits
      BY <2>2, EditsTyped DEF WorkflowInv, TypeOK
    <2>3. QED
      BY <2>1, <2>2
  <1>4. RunTypeOK'
    BY <1>1 DEF WorkflowInv, TypeOK, RunTypeOK, run
  <1>5. PlaceInv'
    BY <1>1 DEF WorkflowInv, PlaceInv, Attached, run, records
  <1>6. QED
    BY <1>2, <1>3, <1>4, <1>5 DEF WorkflowInv, TypeOK

\* One case for each disjunct of the next-state relation.
LEMMA NextKeeps ==
    ASSUME WorkflowInv, [Next]_vars
    PROVE  WorkflowInv' /\ Kept
  <1>1. CASE UNCHANGED vars
    <2>1. UNCHANGED <<records, pins, github, run, budget>>
      BY <1>1 DEF vars
    <2>2. RecordsTypeOK' /\ RecordsInv' /\ Kept
      BY <2>1, RecordsStay
    <2>3. GithubTypeOK'
      BY <2>1, GithubStays DEF NoMutation
    <2>4. RunTypeOK' /\ PlaceInv'
      BY <2>1 DEF WorkflowInv, TypeOK, RunTypeOK, PlaceInv, Attached, run, records, budget
    <2>5. QED
      BY <2>2, <2>3, <2>4 DEF WorkflowInv, TypeOK
  <1>2. ASSUME NEW command \in Runbook, Start(command) PROVE WorkflowInv' /\ Kept
    BY <1>2, StartStep
  <1>3. CASE Settle
    BY <1>3, SettleStep
  <1>4. CASE StageBegin
    BY <1>4, BeginStep
  <1>5. CASE StageCreateTag
    BY <1>5, CreateTagStep
  <1>6. CASE StageReadTag
    BY <1>6, ReadTagStep
  <1>7. CASE StageReadDraft
    BY <1>7, ReadDraftStep
  <1>8. CASE StageCreateDraft
    BY <1>8, CreateDraftStep
  <1>9. CASE StageRereadDraft
    BY <1>9, RereadDraftStep
  <1>10. CASE StageReadBefore
    BY <1>10, ReadBeforeStep
  <1>11. CASE StageUpload
    BY <1>11, UploadStep
  <1>12. CASE StageReadAfter
    BY <1>12, ReadAfterStep
  <1>14. CASE StageDownload
    BY <1>14, DownloadStep
  <1>15. CASE StageAssetsVerified
    BY <1>15, AssetsVerifiedStep
  <1>16. CASE StageFinalTag \/ StageFinalDraft
    BY <1>16, FinalStep
  <1>17. CASE StageWriteReceipt \/ Approve \/ PublishWrite \/ LatestWrite
    BY <1>17, WriteSteps
  <1>18. CASE PublishCheck \/ PublishRead \/ PublishSend \/ PublishReread \/ LatestFetch
    BY <1>18, ReleaseSteps
  <1>19. CASE RefuseAmbiguous \/ ReadFails \/ Stop
    BY <1>19, TroubleSteps
  <1>20. CASE Deliver \/ OwnerEdits
    BY <1>20, GithubSteps
  <1>21. QED
    BY <1>1, <1>2, <1>3, <1>4, <1>5, <1>6, <1>7, <1>8, <1>9, <1>10, <1>11, <1>12, <1>14,
       <1>15, <1>16, <1>17, <1>18, <1>19, <1>20
       DEF Next, Progress, StageStep, ReleaseStep

-----------------------------------------------------------------------------
(* The theorems                                                            *)

\* The records, GitHub and every command are where stage-remote's steps
\* assume them to be: the inductive invariant of the remote workflow.
THEOREM WorkflowInvariant == Spec => []WorkflowInv
  <1>1. Init => WorkflowInv
    BY InitWorkflow
  <1>2. WorkflowInv /\ [Next]_vars => WorkflowInv'
    BY NextKeeps
  <1>3. QED
    BY <1>1, <1>2, PTL DEF Spec

\* Every record, request and local variable of the workflow keeps its type.
THEOREM TypeCorrect == Spec => []TypeOK
  <1>1. WorkflowInv => TypeOK
    BY DEF WorkflowInv
  <1>2. QED
    BY <1>1, WorkflowInvariant, PTL

\* Whatever update of remote-operation-v1.json is interrupted, with whatever
\* count and release_id, settle_pending_operation accepts what it left.
THEOREM InterruptedUpdatesSettle == Spec => []Settleable
  <1>1. WorkflowInv => Settleable
    BY DEF WorkflowInv, RecordsInv, Settleable, Ordinary
  <1>2. QED
    BY <1>1, WorkflowInvariant, PTL

\* No step of any command, kill or settlement takes back the release_id or the
\* verified count of the operation.
THEOREM ProgressKept == Spec => ProgressNeverLost
  <1>1. WorkflowInv /\ [Next]_vars =>
          [main # NoRecord =>
             /\ main' # NoRecord
             /\ main'.operation = main.operation
             /\ main'.verified_assets >= main.verified_assets
             /\ main.release_id # None => main'.release_id = main.release_id]_vars
    <2>1. SUFFICES ASSUME WorkflowInv, [Next]_vars, main # NoRecord
                   PROVE  /\ main' # NoRecord
                          /\ main'.operation = main.operation
                          /\ main'.verified_assets >= main.verified_assets
                          /\ main.release_id # None => main'.release_id = main.release_id
      OBVIOUS
    <2>2. main' # NoRecord /\ KeepsProgress(main, main')
      BY <2>1, NextKeeps DEF Kept
    <2>3. QED
      BY <2>2 DEF KeepsProgress
  <1>2. QED
    BY <1>1, WorkflowInvariant, PTL DEF Spec, ProgressNeverLost

-----------------------------------------------------------------------------
(* The chain of records, and what is public                                *)

LEMMA InitChain == Init => ChainInv
  <1> SUFFICES ASSUME Init PROVE ChainInv
    OBVIOUS
  <1>1. DOMAIN releases = {} /\ pending = {} /\ pc = "idle"
    BY DEF Init
  <1>2. QED
    BY <1>1 DEF Init, ChainInv, ChainIntact, PublishedOnlyIfApproved, Publishing

\* A request publishes at most the approved release.
LEMMA EffectApproved ==
    ASSUME PublishedOnlyIfApproved, GithubTypeOK, NEW request \in Request, Effect(request),
           approval' = approval,
           request.kind = "publish" =>
              approval # NoRecord /\ request.release = approval.release_id
    PROVE  PublishedOnlyIfApproved'
  <1>1. CASE request.kind = "create_tag"
    BY <1>1 DEF Effect, PublishedOnlyIfApproved
  <1>2. CASE request.kind = "create_draft"
    <2>1. CASE releases' = releases
      BY <2>1 DEF PublishedOnlyIfApproved
    <2>2. CASE releases' = With(releases, nextId, NewRelease)
      BY <2>2 DEF PublishedOnlyIfApproved, With, NewRelease
    <2>3. QED
      BY <1>2, <2>1, <2>2 DEF Effect
  <1>3. CASE request.kind = "upload"
    <2>1. CASE releases' = releases
      BY <2>1 DEF PublishedOnlyIfApproved
    <2>2. ASSUME NEW id \in DOMAIN releases,
                 releases' = [releases EXCEPT ![id].assets =
                                With(@, request.name, [id |-> nextId, good |-> TRUE])]
          PROVE  PublishedOnlyIfApproved'
      <3>1. /\ DOMAIN releases' = DOMAIN releases
            /\ \A other \in DOMAIN releases : releases'[other].draft = releases[other].draft
        BY <2>2 DEF GithubTypeOK
      <3>2. QED
        BY <3>1 DEF PublishedOnlyIfApproved
    <2>3. QED
      BY <1>3, <2>1, <2>2 DEF Effect
  <1>4. CASE request.kind = "publish"
    <2>1. /\ DOMAIN releases' = DOMAIN releases
          /\ \A other \in DOMAIN releases :
                other # request.release => releases'[other] = releases[other]
      BY <1>4 DEF Effect
    <2>2. QED
      BY <1>4, <2>1 DEF PublishedOnlyIfApproved
  <1>5. QED
    BY <1>1, <1>2, <1>3, <1>4 DEF Request

\* Nor do the owner's edits, which reach only drafts.
LEMMA EditsApproved ==
    ASSUME PublishedOnlyIfApproved, GithubTypeOK, OwnerEdits
    PROVE  PublishedOnlyIfApproved'
  <1>1. approval' = approval
    BY DEF OwnerEdits, records
  <1>2. PICK id \in {r \in DOMAIN releases : releases[r].draft} :
          \/ releases' = Without(releases, id)
          \/ releases' = [releases EXCEPT ![id].exact = FALSE]
          \/ \E name \in DOMAIN releases[id].assets :
                \/ releases' = [releases EXCEPT ![id].assets = Without(@, name)]
                \/ \E same \in BOOLEAN :
                         releases' = [releases EXCEPT
                            ![id].assets[name] = [id |-> nextId, good |-> same]]
    BY DEF OwnerEdits
  <1>3. /\ DOMAIN releases' \subseteq DOMAIN releases
        /\ \A other \in DOMAIN releases' : releases'[other].draft = releases[other].draft
    BY <1>2 DEF Without, GithubTypeOK
  <1>4. QED
    BY <1>1, <1>3 DEF PublishedOnlyIfApproved

\* A request sent now, or still on its way, is no exception.
LEMMA SendChain ==
    ASSUME ChainInv, GithubTypeOK, NEW request \in Request, Send(request),
           UNCHANGED <<receipt, approval, publication, latest>>,
           pc' \notin Publishing \/ pc \in Publishing, pc' # "latestWrite",
           request.kind = "publish" =>
              approval # NoRecord /\ request.release = approval.release_id
    PROVE  ChainInv'
  <1>1. PublishedOnlyIfApproved'
    <2>1. CASE Effect(request)
      BY <2>1, EffectApproved DEF ChainInv
    <2>2. CASE releases' = releases
      BY <2>2 DEF ChainInv, PublishedOnlyIfApproved
    <2>3. QED
      BY <2>1, <2>2 DEF Send
  <1>2. pending' \subseteq pending \cup {request}
    BY DEF Send
  <1>3. QED
    BY <1>1, <1>2 DEF ChainInv, ChainIntact

\* A step that sends nothing and writes none of the chain.
LEMMA SteadyChain ==
    ASSUME ChainInv, UNCHANGED <<receipt, approval, publication, latest, releases, pending>>,
           pc' \notin Publishing \/ pc \in Publishing, pc' # "latestWrite" \/ pc' = pc
    PROVE  ChainInv'
  BY DEF ChainInv, ChainIntact, PublishedOnlyIfApproved

LEMMA StageChain ==
    ASSUME WorkflowInv, ChainInv, StageStep
    PROVE  ChainInv'
  <1> USE DEF Publishing
  <1>1. GithubTypeOK
    BY DEF WorkflowInv, TypeOK
  <1>2. CASE StageBegin
    BY <1>2, SteadyChain DEF StageBegin, Steady, NoMutation, github, Goto, Leave
  <1>3. CASE StageCreateTag
    <2>1. [kind |-> "create_tag"] \in Request
      BY DEF Request
    <2>2. QED
      BY <1>1, <1>3, <2>1, SendChain DEF StageCreateTag, Steady, Goto
  <1>4. CASE StageCreateDraft
    <2>1. [kind |-> "create_draft"] \in Request
      BY DEF Request
    <2>2. QED
      BY <1>1, <1>4, <2>1, SendChain DEF StageCreateDraft, Steady, Goto
  <1>5. CASE StageUpload
    <2>1. [kind |-> "upload", name |-> Name] \in Request
      <3>1. index \in 0..AssetCount /\ index < AssetCount
        BY <1>5 DEF StageUpload, WorkflowInv, PlaceInv, TypeOK, RunTypeOK, Uploading
      <3>2. Name \in Names
        BY <3>1, AssetCountAssumption DEF Name, Names
      <3>3. QED
        BY <3>2 DEF Request
    <2>2. QED
      BY <1>1, <1>5, <2>1, SendChain DEF StageUpload, Steady, Goto
  <1>6. ASSUME Steady, NoMutation,
               \/ AbandonUncertain
               \/ Leave
               \/ pc' \in Staged \cup {"observe"}
               \/ Persist(UpdateOperation(main, None, main.verified_assets, "tag_verified"),
                          Goto("readDraft"))
               \/ \E id \in DraftRead : BindDraft(id)
               \/ Persist(UpdateOperation(main, release, AssetCount, "assets_verified"),
                          Goto("finalTag"))
        PROVE  ChainInv'
    <2>1. pc' \in Staged \cup {"observe", "idle"}
      BY <1>6 DEF AbandonUncertain, BindDraft, Persist, Replace, Goto, Leave,
                  Staged, Uploading, Finishing, Binding
    <2>2. QED
      BY <1>6, <2>1, SteadyChain
         DEF Steady, NoMutation, github, Staged, Uploading, Finishing, Binding
  <1>7. CASE StageReadTag
    BY <1>6, <1>7 DEF StageReadTag
  <1>8. CASE StageReadDraft
    BY <1>6, <1>8 DEF StageReadDraft, Goto, Staged, Binding
  <1>9. CASE StageRereadDraft
    BY <1>6, <1>9 DEF StageRereadDraft
  <1>10. CASE StageReadBefore
    BY <1>6, <1>10 DEF StageReadBefore, Located, Staged, Uploading
  <1>11. CASE StageReadAfter
    BY <1>6, <1>11 DEF StageReadAfter, Located, Staged, Uploading
  <1>12. CASE StageDownload
    BY <1>6, <1>12 DEF StageDownload, AfterAsset, Persist, Replace, Staged, Uploading, Finishing
  <1>13. CASE StageAssetsVerified
    BY <1>6, <1>13 DEF StageAssetsVerified
  <1>14. CASE StageFinalTag \/ StageFinalDraft
    BY <1>6, <1>14 DEF StageFinalTag, StageFinalDraft, Goto, Staged, Finishing
  <1>15. CASE StageWriteReceipt
    <2>1. /\ UNCHANGED <<approval, publication, latest, releases, pending>> /\ pc' = "idle"
          /\ receipt # NoRecord => receipt' = receipt
      BY <1>15 DEF StageWriteReceipt, Leave, WriteNoClobber, github
    <2>2. QED
      BY <2>1 DEF ChainInv, ChainIntact, PublishedOnlyIfApproved
  <1>16. QED
    BY <1>2, <1>3, <1>4, <1>5, <1>7, <1>8, <1>9, <1>10, <1>11, <1>12, <1>13, <1>14, <1>15
       DEF StageStep

LEMMA ReleaseChain ==
    ASSUME WorkflowInv, ChainInv, ReleaseStep
    PROVE  ChainInv'
  <1> USE DEF Publishing
  <1>1. CASE Approve
    <2>1. /\ UNCHANGED <<receipt, publication, latest, releases, pending>> /\ pc' = "idle"
          /\ approval # NoRecord => approval' = approval
          /\ approval = NoRecord => approval' \in {receipt, NoRecord}
      BY <1>1 DEF Approve, Leave, WriteNoClobber, github
    <2>2. QED
      BY <2>1 DEF ChainInv, ChainIntact, PublishedOnlyIfApproved
  <1>2. CASE PublishCheck
    <2>1. UNCHANGED <<receipt, approval, publication, latest, releases, pending>>
      BY <1>2 DEF PublishCheck, Unrecorded, NoMutation, records, github
    <2>2. CASE Leave
      BY <2>1, <2>2, SteadyChain DEF Leave
    <2>3. CASE Goto("publishRead") /\ receipt # NoRecord /\ approval = receipt
      BY <2>1, <2>3 DEF Goto, ChainInv, ChainIntact, PublishedOnlyIfApproved
    <2>4. QED
      BY <1>2, <2>2, <2>3
         DEF PublishCheck, GotoOrLeave, ValidateDraftReceipt, ValidateApproval
  <1>3. CASE PublishRead
    <2>1. pc' \in {"publishSend", "publishReread", "idle"} /\ pc = "publishRead"
      BY <1>3 DEF PublishRead, Goto, Leave
    <2>2. QED
      BY <1>3, <2>1, SteadyChain DEF PublishRead, Unrecorded, NoMutation, records, github
  <1>4. CASE PublishSend
    <2> DEFINE request == [kind |-> "publish", release |-> receipt.release_id]
    <2>1. approval # NoRecord /\ approval = receipt
      BY <1>4 DEF PublishSend, ChainInv
    <2>2. request \in Request /\ GithubTypeOK
      BY <2>1 DEF WorkflowInv, TypeOK, RecordsTypeOK, Request, Receipt
    <2>3. request.kind = "publish" => request.release = approval.release_id
      BY <2>1
    <2>4. QED
      BY <1>4, <2>1, <2>2, <2>3, SendChain DEF PublishSend, Unrecorded, Goto, records
  <1>5. CASE PublishReread
    <2>1. pc' \in {"publishWrite", "idle"} /\ pc = "publishReread"
      BY <1>5 DEF PublishReread, GotoOrLeave, Goto, Leave
    <2>2. QED
      BY <1>5, <2>1, SteadyChain DEF PublishReread, Unrecorded, NoMutation, records, github
  <1>6. CASE PublishWrite
    <2>1. /\ UNCHANGED <<receipt, approval, latest, releases, pending>> /\ pc' = "idle"
          /\ publication' \in {publication, receipt} /\ approval = receipt
          /\ publication # NoRecord => publication' = publication
      BY <1>6 DEF PublishWrite, Leave, WriteNoClobber, github, ChainInv
    <2>2. QED
      BY <2>1 DEF ChainInv, ChainIntact, PublishedOnlyIfApproved
  <1>7. CASE LatestFetch
    <2>1. UNCHANGED <<receipt, approval, publication, latest, releases, pending>>
      BY <1>7 DEF LatestFetch, Unrecorded, NoMutation, records, github
    <2>2. pc' \in {"latestWrite", "idle"} /\ (pc' = "latestWrite" => publication # NoRecord)
      BY <1>7 DEF LatestFetch, GotoOrLeave, Goto, Leave
    <2>3. QED
      BY <2>1, <2>2 DEF ChainInv, ChainIntact, PublishedOnlyIfApproved
  <1>8. CASE LatestWrite
    <2>1. /\ UNCHANGED <<receipt, approval, publication, releases, pending>> /\ pc' = "idle"
          /\ latest' \in {latest, publication}
      BY <1>8 DEF LatestWrite, Leave, WriteNoClobber, github
    <2>2. QED
      BY <1>8, <2>1 DEF LatestWrite, ChainInv, ChainIntact, PublishedOnlyIfApproved
  <1>9. QED
    BY <1>1, <1>2, <1>3, <1>4, <1>5, <1>6, <1>7, <1>8 DEF ReleaseStep

LEMMA NextKeepsChain ==
    ASSUME WorkflowInv, ChainInv, [Next]_vars
    PROVE  ChainInv'
  <1> USE DEF Publishing
  <1>1. CASE UNCHANGED vars
    BY <1>1, SteadyChain DEF vars, records, github, run
  <1>2. ASSUME NEW command \in Runbook, Start(command) PROVE ChainInv'
    BY <1>2, SteadyChain DEF Start, records, github
  <1>3. CASE Settle
    <2>1. pc' \notin Publishing /\ pc' # "latestWrite"
      <3>1. cmd \in Runbook
        BY <1>3 DEF Settle, WorkflowInv, PlaceInv
      <3>2. FirstStep \in {"begin", "approve", "check", "fetch"}
        BY <3>1 DEF FirstStep, Runbook
      <3>3. QED
        BY <1>3, <3>2 DEF Settle, Goto, Leave
    <2>2. QED
      BY <1>3, <2>1, SteadyChain DEF Settle, github
  <1>4. CASE RefuseAmbiguous
    BY <1>4, SteadyChain
       DEF RefuseAmbiguous, AbandonUncertain, Persist, Replace, Leave, Steady, NoMutation, github
  <1>5. CASE ReadFails \/ Stop
    BY <1>5, SteadyChain DEF ReadFails, Stop, Leave, Steady, NoMutation, records, github
  <1>6. CASE Deliver
    <2>1. PICK request \in pending : Effect(request) /\ pending' = pending \ {request}
      BY <1>6 DEF Deliver
    <2>2. UNCHANGED <<receipt, approval, publication, latest, pc>>
      BY <1>6 DEF Deliver, records, run
    <2>3. request \in Request /\ GithubTypeOK
      BY <2>1 DEF WorkflowInv, TypeOK, GithubTypeOK
    <2>4. request.kind = "publish" =>
             approval # NoRecord /\ request.release = approval.release_id
      BY <2>1 DEF ChainInv
    <2>5. PublishedOnlyIfApproved'
      BY <2>1, <2>2, <2>3, <2>4, EffectApproved DEF ChainInv
    <2>6. QED
      BY <2>1, <2>2, <2>5 DEF ChainInv, ChainIntact
  <1>7. CASE OwnerEdits
    <2>1. UNCHANGED <<receipt, approval, publication, latest, pc, pending>>
      BY <1>7 DEF OwnerEdits, records, run
    <2>2. PublishedOnlyIfApproved'
      BY <1>7, EditsApproved DEF ChainInv, WorkflowInv, TypeOK
    <2>3. QED
      BY <2>1, <2>2 DEF ChainInv, ChainIntact
  <1>8. CASE StageStep \/ ReleaseStep
    BY <1>8, StageChain, ReleaseChain
  <1>9. QED
    BY <1>1, <1>2, <1>3, <1>4, <1>5, <1>6, <1>7, <1>8 DEF Next, Progress

\* Approval, publication and latest record always name the one receipt, and
\* none of them is ever replaced by another.
THEOREM ChainStaysIntact == Spec => []ChainIntact
  <1>1. Init => WorkflowInv /\ ChainInv
    BY InitWorkflow, InitChain
  <1>2. WorkflowInv /\ ChainInv /\ [Next]_vars => (WorkflowInv /\ ChainInv)'
    BY NextKeeps, NextKeepsChain
  <1>3. ChainInv => ChainIntact
    BY DEF ChainInv
  <1>4. QED
    BY <1>1, <1>2, <1>3, PTL DEF Spec

\* However many drafts there are and however late a publish request arrives,
\* what is public is the release the owner's approval names.
THEOREM OnlyTheApprovedIsPublic == Spec => []PublishedOnlyIfApproved
  <1>1. Init => WorkflowInv /\ ChainInv
    BY InitWorkflow, InitChain
  <1>2. WorkflowInv /\ ChainInv /\ [Next]_vars => (WorkflowInv /\ ChainInv)'
    BY NextKeeps, NextKeepsChain
  <1>3. ChainInv => PublishedOnlyIfApproved
    BY DEF ChainInv
  <1>4. QED
    BY <1>1, <1>2, <1>3, PTL DEF Spec

-----------------------------------------------------------------------------
(* What each step does to GitHub and to the chain                          *)

Kinds == {"create_tag", "create_draft", "upload", "publish"}

\* A step that may send a request: a draft is only asked for at createDraft,
\* and nothing but stage-remote's reading of the drafts leads there.
Sends ==
    \/ UNCHANGED <<releases, nextId, pending>> /\ (pc' = "createDraft" => DraftMissing)
    \/ /\ pc' # "createDraft"
       /\ \E request \in Request :
             Send(request) /\ (request.kind = "create_draft" => pc = "createDraft")

\* What leaves the receipt and the publication as they are.
Unpublished == pc' # "publishWrite" /\ UNCHANGED <<receipt, publication>>

LEMMA SendsNothing ==
    ASSUME NoMutation, pc' # "createDraft" \/ DraftMissing
    PROVE  Sends
  BY DEF Sends, NoMutation, github

\* An update of the record goes on to the step it was to reach, or ends.
LEMMA PersistShape ==
    ASSUME NEW next, NEW step, Persist(next, Goto(step))
    PROVE  pc' \in {step, "idle"}
  BY DEF Persist, Replace, Goto, Leave

LEMMA AbandonShape ==
    ASSUME AbandonUncertain
    PROVE  pc' = "idle"
  BY DEF AbandonUncertain, Persist, Replace, Leave

LEMMA BindShape ==
    ASSUME NEW id, BindDraft(id)
    PROVE  pc' \in {"readBefore", "idle"}
  BY DEF BindDraft, Persist, Replace, Leave

\* The requests that a step may send are well formed, and a command that is
\* settled is one of the runbook.
Proper ==
    /\ pc = "settle" => cmd \in Runbook
    /\ pc = "upload" => Name \in Names
    /\ pc = "publishSend" => receipt \in Receipt

LEMMA WorkflowProper ==
    ASSUME WorkflowInv
    PROVE  Proper
  <1>1. ASSUME pc = "upload" PROVE Name \in Names
    <2>1. index \in 0..AssetCount /\ index < AssetCount
      BY <1>1 DEF WorkflowInv, PlaceInv, TypeOK, RunTypeOK, Uploading
    <2>2. QED
      BY <2>1, AssetCountAssumption DEF Name, Names
  <1>2. ASSUME pc = "publishSend" PROVE receipt \in Receipt
    BY <1>2 DEF WorkflowInv, PlaceInv, TypeOK, RecordsTypeOK, Publishing
  <1>3. QED
    BY <1>1, <1>2 DEF WorkflowInv, PlaceInv, Proper

LEMMA StageShape ==
    ASSUME Proper, StageStep
    PROVE  Sends /\ (Unpublished \/ StageWriteReceipt)
  <1>1. ASSUME Steady, NoMutation, pc' \notin {"publishWrite", "createDraft"}
        PROVE  Sends /\ Unpublished
    BY <1>1, SendsNothing DEF Steady, Unpublished
  <1>2. CASE StageBegin
    BY <1>1, <1>2 DEF StageBegin, Goto, Leave
  <1>3. CASE StageCreateTag
    <2>1. [kind |-> "create_tag"] \in Request
      BY DEF Request
    <2>2. QED
      BY <1>3, <2>1 DEF StageCreateTag, Sends, Unpublished, Steady, Goto
  <1>4. CASE StageCreateDraft
    <2>1. [kind |-> "create_draft"] \in Request
      BY DEF Request
    <2>2. QED
      BY <1>4, <2>1 DEF StageCreateDraft, Sends, Unpublished, Steady, Goto
  <1>5. CASE StageUpload
    <2>1. [kind |-> "upload", name |-> Name] \in Request
      BY <1>5 DEF StageUpload, Proper, Request
    <2>2. QED
      BY <1>5, <2>1 DEF StageUpload, Sends, Unpublished, Steady, Goto
  <1>6. CASE StageReadTag
    BY <1>1, <1>6, PersistShape, AbandonShape DEF StageReadTag
  <1>7. CASE StageReadDraft
    <2>1. CASE DraftMissing /\ pc' = "createDraft"
      BY <1>7, <2>1, SendsNothing DEF StageReadDraft, Steady, Unpublished
    <2>2. CASE pc' \in {"readBefore", "idle"}
      BY <1>1, <1>7, <2>2 DEF StageReadDraft
    <2>3. QED
      BY <1>7, <2>1, <2>2, BindShape, AbandonShape DEF StageReadDraft, Goto, Leave
  <1>8. CASE StageRereadDraft
    BY <1>1, <1>8, BindShape, AbandonShape DEF StageRereadDraft
  <1>9. CASE StageReadBefore
    BY <1>1, <1>9, AbandonShape DEF StageReadBefore, Located, Leave
  <1>10. CASE StageReadAfter
    BY <1>1, <1>10, AbandonShape DEF StageReadAfter, Located, Leave
  <1>11. CASE StageDownload
    <2>1. pc' \in {"assetsVerified", "readBefore", "idle"}
      BY <1>11, AbandonShape DEF StageDownload, Persist, Replace, Leave, AfterAsset
    <2>2. QED
      BY <1>1, <1>11, <2>1 DEF StageDownload
  <1>12. CASE StageAssetsVerified
    BY <1>1, <1>12, PersistShape DEF StageAssetsVerified
  <1>13. CASE StageFinalTag \/ StageFinalDraft
    BY <1>1, <1>13, AbandonShape DEF StageFinalTag, StageFinalDraft, Goto, Leave
  <1>14. CASE StageWriteReceipt
    BY <1>14 DEF StageWriteReceipt, Sends, Leave, github
  <1>15. QED
    BY <1>2, <1>3, <1>4, <1>5, <1>6, <1>7, <1>8, <1>9, <1>10, <1>11, <1>12, <1>13, <1>14
       DEF StageStep

LEMMA ReleaseShape ==
    ASSUME Proper, ReleaseStep
    PROVE  Sends /\ (Unpublished \/ PublishReread \/ PublishWrite)
  <1>1. ASSUME UNCHANGED <<releases, nextId, pending, receipt, publication>>,
               pc' \notin {"publishWrite", "createDraft"}
        PROVE  Sends /\ Unpublished
    BY <1>1 DEF Sends, Unpublished
  <1>2. CASE Approve
    BY <1>1, <1>2 DEF Approve, Leave, github
  <1>3. CASE PublishCheck
    BY <1>1, <1>3 DEF PublishCheck, GotoOrLeave, Goto, Leave, Unrecorded, NoMutation, records, github
  <1>4. CASE PublishRead
    BY <1>1, <1>4 DEF PublishRead, Goto, Leave, Unrecorded, NoMutation, records, github
  <1>5. CASE PublishSend
    <2>1. receipt \in Receipt
      BY <1>5 DEF PublishSend, Proper
    <2>2. [kind |-> "publish", release |-> receipt.release_id] \in Request
      BY <2>1 DEF Request, Receipt
    <2>3. QED
      BY <1>5, <2>2 DEF PublishSend, Sends, Unpublished, Unrecorded, records, Goto
  <1>6. CASE PublishReread
    BY <1>6 DEF PublishReread, GotoOrLeave, Goto, Leave, Sends, NoMutation, github
  <1>7. CASE PublishWrite
    BY <1>7 DEF PublishWrite, Leave, Sends, github
  <1>8. CASE LatestFetch
    BY <1>1, <1>8 DEF LatestFetch, GotoOrLeave, Goto, Leave, Unrecorded, NoMutation, records, github
  <1>9. CASE LatestWrite
    BY <1>1, <1>9 DEF LatestWrite, Leave, github
  <1>10. QED
    BY <1>2, <1>3, <1>4, <1>5, <1>6, <1>7, <1>8, <1>9 DEF ReleaseStep

\* The remaining steps, of which only the owner and late requests reach GitHub.
LEMMA OtherShape ==
    ASSUME Proper,
           \/ \E command \in Runbook : Start(command)
           \/ Settle \/ RefuseAmbiguous \/ ReadFails \/ Stop \/ UNCHANGED vars
    PROVE  /\ UNCHANGED <<releases, nextId, pending, receipt, publication>>
           /\ pc' \in {"publishWrite", "createDraft"} => UNCHANGED pc
  <1>1. CASE \E command \in Runbook : Start(command)
    BY <1>1 DEF Start, records, github
  <1>2. CASE Settle
    <2>1. cmd \in Runbook
      BY <1>2 DEF Settle, Proper
    <2>2. FirstStep \in {"begin", "approve", "check", "fetch"}
      BY <2>1 DEF FirstStep, Runbook
    <2>3. QED
      BY <1>2, <2>2 DEF Settle, Goto, Leave, github
  <1>3. CASE RefuseAmbiguous
    BY <1>3, AbandonShape DEF RefuseAmbiguous, Leave, Steady, NoMutation, github
  <1>4. CASE ReadFails \/ Stop
    BY <1>4 DEF ReadFails, Stop, Leave, Steady, NoMutation, records, github
  <1>5. CASE UNCHANGED vars
    BY <1>5 DEF vars, records, github, run
  <1>6. QED
    BY <1>1, <1>2, <1>3, <1>4, <1>5

-----------------------------------------------------------------------------
(* A public release with all its assets is out of everyone's reach         *)

\* The release a receipt names is public and has the receipt's very assets.
Exact(there, r) ==
    /\ r.release_id \in DOMAIN there
    /\ ~there[r.release_id].draft /\ there[r.release_id].exact
    /\ RedownloadReceiptAssets(there[r.release_id].assets, r.assets)

\* GitHub never reuses an identifier.
Fresh == \A id \in DOMAIN releases : id < nextId

\* That the receipt lists every asset is what makes an upload impossible once
\* they have been compared; publishing the draft puts it beyond the owner.
ExactInv ==
    /\ Fresh
    /\ receipt # NoRecord => Len(receipt.assets) = AssetCount
    /\ pc = "publishWrite" => Exact(releases, receipt)
    /\ publication # NoRecord => Exact(releases, publication)

\* A complete public release keeps all that a receipt says of it.
StillPublic ==
    \A id \in DOMAIN releases :
       ~releases[id].draft /\ DOMAIN releases[id].assets = Names =>
          /\ id \in DOMAIN releases'
          /\ releases'[id].draft = releases[id].draft
          /\ releases'[id].exact = releases[id].exact
          /\ releases'[id].assets = releases[id].assets

LEMMA ExactStays ==
    ASSUME StillPublic, NEW r, r \in Receipt, Len(r.assets) = AssetCount, Exact(releases, r)
    PROVE  Exact(releases', r)
  <1> DEFINE id == r.release_id
  <1>1. DOMAIN r.assets = Names
    BY DEF Receipt, Names
  <1>2. DOMAIN releases[id].assets = Names
    <2>1. DOMAIN Ids(releases[id].assets) = DOMAIN releases[id].assets
      BY DEF Ids
    <2>2. Ids(releases[id].assets) = r.assets
      BY DEF Exact, RedownloadReceiptAssets, RequireCompleteAssets
    <2>3. QED
      BY <1>1, <2>1, <2>2
  <1>3. QED
    BY <1>2 DEF StillPublic, Exact

LEMMA EffectStays ==
    ASSUME GithubTypeOK, Fresh, NEW request \in Request, Effect(request)
    PROVE  StillPublic /\ Fresh'
  <1>1. CASE releases' = releases /\ nextId' = nextId
    BY <1>1 DEF StillPublic, Fresh
  <1>2. CASE releases' = With(releases, nextId, NewRelease) /\ nextId' = nextId + 1
    <2>1. /\ DOMAIN releases' = DOMAIN releases \cup {nextId}
          /\ \A id \in DOMAIN releases : id # nextId => releases'[id] = releases[id]
      BY <1>2 DEF With
    <2>2. \A id \in DOMAIN releases : id \in Nat /\ id < nextId /\ id # nextId
      BY DEF Fresh, GithubTypeOK
    <2>3. nextId \in Nat
      BY DEF GithubTypeOK
    <2>4. StillPublic
      BY <2>1, <2>2 DEF StillPublic
    <2>5. Fresh'
      BY <1>2, <2>1, <2>2, <2>3 DEF Fresh
    <2>6. QED
      BY <2>4, <2>5
  <1>3. ASSUME request.kind = "upload", NEW id \in DOMAIN releases, nextId' = nextId + 1,
               request.name \notin DOMAIN releases[id].assets,
               releases' = [releases EXCEPT ![id].assets =
                              With(@, request.name, [id |-> nextId, good |-> TRUE])]
        PROVE  StillPublic /\ Fresh'
    <2>1. request.name \in Names
      BY <1>3 DEF Request
    <2>2. DOMAIN releases[id].assets # Names
      BY <1>3, <2>1
    <2>3. /\ DOMAIN releases' = DOMAIN releases
          /\ \A other \in DOMAIN releases : other # id => releases'[other] = releases[other]
      BY <1>3
    <2>4. Fresh'
      BY <1>3, <2>3 DEF Fresh, GithubTypeOK
    <2>5. StillPublic
      BY <2>2, <2>3 DEF StillPublic
    <2>6. QED
      BY <2>4, <2>5
  <1>4. ASSUME request.kind = "publish", request.release \in DOMAIN releases,
               releases' = [releases EXCEPT ![request.release].draft = FALSE], nextId' = nextId
        PROVE  StillPublic /\ Fresh'
    <2> DEFINE id == request.release
    <2>1. /\ DOMAIN releases' = DOMAIN releases
          /\ \A other \in DOMAIN releases : other # id => releases'[other] = releases[other]
          /\ releases'[id] = [releases[id] EXCEPT !.draft = FALSE]
      BY <1>4
    <2>2. /\ ~releases'[id].draft /\ releases'[id].exact = releases[id].exact
          /\ releases'[id].assets = releases[id].assets
      BY <1>4, <2>1 DEF GithubTypeOK
    <2>3. releases'[id].draft \in BOOLEAN /\ releases[id].draft \in BOOLEAN
      BY <1>4, <2>1 DEF GithubTypeOK
    <2>4. ~releases[id].draft => releases'[id].draft = releases[id].draft
      BY <2>2, <2>3
    <2>5. StillPublic
      BY <2>1, <2>2, <2>4 DEF StillPublic
    <2>6. Fresh'
      BY <1>4, <2>1 DEF Fresh
    <2>7. QED
      BY <2>5, <2>6
  <1>5. CASE request.kind = "create_tag"
    BY <1>1, <1>5 DEF Effect
  <1>6. CASE request.kind = "create_draft"
    BY <1>1, <1>2, <1>6 DEF Effect
  <1>7. CASE request.kind = "upload"
    BY <1>1, <1>3, <1>7 DEF Effect
  <1>8. CASE request.kind = "publish"
    BY <1>1, <1>4, <1>8 DEF Effect
  <1>9. QED
    BY <1>5, <1>6, <1>7, <1>8 DEF Request

LEMMA EditsStay ==
    ASSUME GithubTypeOK, Fresh, OwnerEdits
    PROVE  StillPublic /\ Fresh'
  <1>1. PICK id \in {r \in DOMAIN releases : releases[r].draft} :
          \/ releases' = Without(releases, id) /\ nextId' = nextId
          \/ releases' = [releases EXCEPT ![id].exact = FALSE] /\ nextId' = nextId
          \/ \E name \in DOMAIN releases[id].assets :
                \/ /\ releases' = [releases EXCEPT ![id].assets = Without(@, name)]
                   /\ nextId' = nextId
                \/ /\ nextId' = nextId + 1
                   /\ \E same \in BOOLEAN :
                         releases' = [releases EXCEPT
                            ![id].assets[name] = [id |-> nextId, good |-> same]]
    BY DEF OwnerEdits
  <1>2. /\ DOMAIN releases' \subseteq DOMAIN releases
        /\ \A other \in DOMAIN releases :
              other # id => other \in DOMAIN releases' /\ releases'[other] = releases[other]
    BY <1>1 DEF Without
  <1>3. nextId' \in {nextId, nextId + 1}
    BY <1>1
  <1>4. Fresh'
    BY <1>2, <1>3 DEF Fresh, GithubTypeOK
  <1>5. StillPublic
    BY <1>1, <1>2 DEF StillPublic
  <1>6. QED
    BY <1>4, <1>5

LEMMA SendsStay ==
    ASSUME GithubTypeOK, Fresh, Sends
    PROVE  StillPublic /\ Fresh'
  <1>1. CASE UNCHANGED <<releases, nextId>>
    BY <1>1 DEF StillPublic, Fresh
  <1>2. ASSUME NEW request \in Request, Effect(request)
        PROVE  StillPublic /\ Fresh'
    BY <1>2, EffectStays
  <1>3. QED
    BY <1>1, <1>2 DEF Sends, Send

\* A step of anyone who writes neither receipt nor publication.
LEMMA UnpublishedKeepsExact ==
    ASSUME WorkflowInv, ChainInv, ExactInv, StillPublic, Fresh',
           UNCHANGED <<receipt, publication>>, pc' = "publishWrite" => pc = "publishWrite"
    PROVE  ExactInv'
  <1>1. ASSUME pc = "publishWrite" PROVE Exact(releases', receipt)
    <2>1. receipt # NoRecord /\ receipt \in Receipt
      BY <1>1 DEF WorkflowInv, PlaceInv, TypeOK, RecordsTypeOK, Publishing
    <2>2. QED
      BY <1>1, <2>1, ExactStays DEF ExactInv
  <1>2. ASSUME publication # NoRecord PROVE Exact(releases', publication)
    <2>1. publication = receipt /\ receipt # NoRecord /\ receipt \in Receipt
      BY <1>2 DEF ChainInv, ChainIntact, WorkflowInv, TypeOK, RecordsTypeOK
    <2>2. QED
      BY <1>2, <2>1, ExactStays DEF ExactInv
  <1>3. QED
    BY <1>1, <1>2 DEF ExactInv

LEMMA NextKeepsExact ==
    ASSUME WorkflowInv, ChainInv, ExactInv, [Next]_vars
    PROVE  ExactInv'
  <1>1. GithubTypeOK /\ Fresh /\ Proper
    BY WorkflowProper DEF WorkflowInv, TypeOK, ExactInv
  <1>2. CASE StageStep
    <2>1. StillPublic /\ Fresh'
      BY <1>1, <1>2, StageShape, SendsStay
    <2>2. CASE Unpublished
      BY <2>1, <2>2, UnpublishedKeepsExact DEF Unpublished
    <2>3. CASE StageWriteReceipt
      <3>1. /\ UNCHANGED <<releases, publication>> /\ pc' = "idle"
            /\ \/ receipt' = receipt
               \/ receipt' # NoRecord => Len(receipt'.assets) = AssetCount
        BY <2>3 DEF StageWriteReceipt, Leave, WriteNoClobber, ValidateDraftReceipt, github
      <3>2. QED
        BY <2>1, <3>1 DEF ExactInv
    <2>4. QED
      BY <1>1, <1>2, <2>2, <2>3, StageShape
  <1>3. CASE ReleaseStep
    <2>1. StillPublic /\ Fresh'
      BY <1>1, <1>3, ReleaseShape, SendsStay
    <2>2. CASE Unpublished
      BY <2>1, <2>2, UnpublishedKeepsExact DEF Unpublished
    <2>3. CASE PublishReread
      <3>1. /\ UNCHANGED <<releases, receipt, publication>>
            /\ pc' = "publishWrite" => Exact(releases, receipt)
        BY <2>3 DEF PublishReread, GotoOrLeave, Goto, Leave, DraftRead, RequireReceiptRelease,
                    Exact, Unrecorded, NoMutation, records, github
      <3>2. QED
        BY <2>1, <3>1 DEF ExactInv
    <2>4. CASE PublishWrite
      <3>1. /\ UNCHANGED <<releases, receipt>> /\ pc' = "idle" /\ pc = "publishWrite"
            /\ publication' \in {publication, receipt}
        BY <2>4 DEF PublishWrite, Leave, WriteNoClobber, github
      <3>2. QED
        BY <2>1, <3>1 DEF ExactInv
    <2>5. QED
      BY <1>1, <1>3, <2>2, <2>3, <2>4, ReleaseShape
  <1>4. CASE \/ \E command \in Runbook : Start(command)
             \/ Settle \/ RefuseAmbiguous \/ ReadFails \/ Stop \/ UNCHANGED vars
    <2>1. /\ UNCHANGED <<releases, nextId, receipt, publication>>
          /\ pc' = "publishWrite" => pc = "publishWrite"
      BY <1>1, <1>4, OtherShape
    <2>2. QED
      BY <2>1 DEF ExactInv, Fresh
  <1>5. CASE Deliver \/ OwnerEdits
    <2>1. UNCHANGED <<receipt, publication, pc>>
      BY <1>5 DEF Deliver, OwnerEdits, records, run
    <2>2. StillPublic /\ Fresh'
      <3>1. CASE OwnerEdits
        BY <1>1, <3>1, EditsStay
      <3>2. CASE Deliver
        <4>1. PICK request \in pending : Effect(request)
          BY <3>2 DEF Deliver
        <4>2. request \in Request
          BY <1>1 DEF GithubTypeOK
        <4>3. QED
          BY <1>1, <4>1, <4>2, EffectStays
      <3>3. QED
        BY <1>5, <3>1, <3>2
    <2>3. QED
      BY <2>1, <2>2, UnpublishedKeepsExact
  <1>6. QED
    BY <1>2, <1>3, <1>4, <1>5 DEF Next, Progress

\* Whoever edits or uploads, the owner or a late request, a recorded publication
\* is of a public release with exactly the identifiers and bytes approved.
THEOREM PublicationStaysExact == Spec => []PublicationIsExact
  <1>1. Init => WorkflowInv /\ ChainInv /\ ExactInv
    <2>1. Init => ExactInv
      BY DEF Init, ExactInv, Fresh
    <2>2. QED
      BY <2>1, InitWorkflow, InitChain
  <1>2. WorkflowInv /\ ChainInv /\ ExactInv /\ [Next]_vars
           => (WorkflowInv /\ ChainInv /\ ExactInv)'
    BY NextKeeps, NextKeepsChain, NextKeepsExact
  <1>3. ExactInv => PublicationIsExact
    BY DEF ExactInv, Exact, PublicationIsExact
  <1>4. QED
    BY <1>1, <1>2, <1>3, PTL DEF Spec

-----------------------------------------------------------------------------
(* At most one draft, when no request outlives its command                 *)

AtMostOne == \A id, other \in DOMAIN releases : id = other

OneDraftInv ==
    /\ pending = {}
    /\ AtMostOne
    /\ pc = "createDraft" => DraftMissing

LEMMA EffectOneDraft ==
    ASSUME AtMostOne, NEW request \in Request, Effect(request),
           request.kind = "create_draft" => DraftMissing
    PROVE  AtMostOne'
  <1>1. CASE DOMAIN releases' = DOMAIN releases
    BY <1>1 DEF AtMostOne
  <1>2. CASE request.kind = "create_draft"
    BY <1>1, <1>2 DEF Effect, DraftMissing, With, AtMostOne
  <1>3. CASE request.kind \in {"create_tag", "upload", "publish"}
    <2>1. DOMAIN releases' = DOMAIN releases
      BY <1>3 DEF Effect
    <2>2. QED
      BY <1>1, <2>1
  <1>4. QED
    BY <1>2, <1>3 DEF Request

LEMMA SendsOneDraft ==
    ASSUME ~MayDelay, OneDraftInv, Sends
    PROVE  OneDraftInv'
  <1>1. CASE UNCHANGED <<releases, nextId, pending>> /\ (pc' = "createDraft" => DraftMissing)
    BY <1>1 DEF OneDraftInv, AtMostOne, DraftMissing
  <1>2. ASSUME pc' # "createDraft", NEW request \in Request, Send(request),
               request.kind = "create_draft" => pc = "createDraft"
        PROVE  OneDraftInv'
    <2>1. pending' = {}
      BY <1>2 DEF Send, OneDraftInv
    <2>2. CASE Effect(request)
      BY <1>2, <2>1, <2>2, EffectOneDraft DEF OneDraftInv
    <2>3. CASE UNCHANGED releases
      BY <1>2, <2>1, <2>3 DEF OneDraftInv, AtMostOne
    <2>4. QED
      BY <1>2, <2>2, <2>3 DEF Send
  <1>3. QED
    BY <1>1, <1>2 DEF Sends

LEMMA NextOneDraft ==
    ASSUME ~MayDelay, Proper, OneDraftInv, [Next]_vars
    PROVE  OneDraftInv'
  <1>1. CASE StageStep \/ ReleaseStep
    BY <1>1, StageShape, ReleaseShape, SendsOneDraft
  <1>2. CASE \/ \E command \in Runbook : Start(command)
             \/ Settle \/ RefuseAmbiguous \/ ReadFails \/ Stop \/ UNCHANGED vars
    <2>1. /\ UNCHANGED <<releases, pending>>
          /\ pc' = "createDraft" => pc = "createDraft"
      BY <1>2, OtherShape
    <2>2. QED
      BY <2>1 DEF OneDraftInv, AtMostOne, DraftMissing
  <1>3. CASE Deliver
    BY <1>3 DEF Deliver, OneDraftInv
  <1>4. CASE OwnerEdits
    <2>1. UNCHANGED pending /\ pc' = "idle" /\ DOMAIN releases' \subseteq DOMAIN releases
      BY <1>4 DEF OwnerEdits, Without, run
    <2>2. QED
      BY <2>1 DEF OneDraftInv, AtMostOne
  <1>5. QED
    BY <1>1, <1>2, <1>3, <1>4 DEF Next, Progress

LEMMA InitOneDraft == Init => OneDraftInv
  BY DEF Init, OneDraftInv, AtMostOne

LEMMA OneDraftFollows == OneDraftInv => OneDraft
  <1> SUFFICES ASSUME OneDraftInv PROVE OneDraft
    OBVIOUS
  <1>1. DOMAIN releases = {} \/ \E id : DOMAIN releases = {id}
    BY DEF OneDraftInv, AtMostOne
  <1>2. Cardinality(DOMAIN releases) \in {0, 1}
    BY <1>1, FS_EmptySet, FS_Singleton
  <1>3. QED
    BY <1>2 DEF OneDraft, Ambiguous

\* ensure_exact_draft asks for a draft only when it has seen none under the lock,
\* so a second one can only come of a request that is served after its command.
THEOREM NoSecondDraft ==
    ASSUME ~MayDelay
    PROVE  Spec => []OneDraft
  <1>1. Init => WorkflowInv /\ OneDraftInv
    BY InitWorkflow, InitOneDraft
  <1>2. WorkflowInv /\ OneDraftInv /\ [Next]_vars => (WorkflowInv /\ OneDraftInv)'
    BY NextKeeps, NextOneDraft, WorkflowProper
  <1>3. QED
    BY <1>1, <1>2, OneDraftFollows, PTL DEF Spec

-----------------------------------------------------------------------------
(* Broker recovery: typing                                                 *)

StageSteps   == Staged \cup {"observe"}
RecoverSteps == {"recoverCheck", "recoverRead", "recoverReread", "recoverProof", "recoverSwitch"}

\* The operation is bound to the configured broker and, once there is a
\* certificate, to the one it names.
Authority ==
    /\ main # NoRecord /\ main.operation = pins
    /\ certificate # NoRecord => main.operation = certificate.replacement.operation

RecoveryTyped == TypeOK /\ plan \in Certificate \cup {NoRecord}

\* What a step may rely on, with or without a certificate.
RecoveryPlace ==
    /\ pc = "settle" => cmd \in Runbook
    /\ pc = "begin" /\ main # NoRecord => main.operation = pins
    /\ pc \in StageSteps \cup Publishing => Authority
    /\ pc \in {"createTag", "createDraft"} => certificate = NoRecord
    /\ pc \in BeforeBinding => index = 0
    /\ pc \in Uploading \cup {"observe"} => index < AssetCount
    /\ pc = "observe" => Name \in DOMAIN before
    /\ pc \in Publishing => receipt # NoRecord
    /\ pc \in RecoverSteps => plan # NoRecord
    /\ RecoveredUploadsOnlySuffix

RecoveryInv == RecoveryTyped /\ RecoveryPlace

LEMMA AuthorityStays ==
    ASSUME Authority, main' # NoRecord, main'.operation = main.operation,
           UNCHANGED <<pins, certificate>>
    PROVE  Authority'
  BY DEF Authority

\* A command that ends, with its records well formed.
LEMMA RecoveryEnds ==
    ASSUME Leave, RecordsTypeOK', GithubTypeOK', faults' \in Nat, edits' \in Nat,
           plan' \in Certificate \cup {NoRecord}
    PROVE  RecoveryInv'
  <1>1. RunTypeOK'
    BY AssetCountAssumption
       DEF Leave, RunTypeOK, IsAssetMap, NoAssets, Commands, Steps, None
  <1>2. RecoveryPlace'
    BY DEF Leave, RecoveryPlace, StageSteps, Staged, Publishing, Binding, Uploading, Finishing,
           RecoverSteps, RecoveredUploadsOnlySuffix, BeforeBinding
  <1>3. QED
    BY <1>1, <1>2 DEF RecoveryInv, RecoveryTyped, TypeOK

\* The operation and its temporary after an update, made or interrupted.
LEMMA UpdatedRecords ==
    ASSUME RecordsTypeOK, main # NoRecord, NEW next \in RemoteOperation,
           next.operation = main.operation,
           main' \in {main, next}, temp' \in {temp, next, NoRecord},
           UNCHANGED <<certificate, receipt, approval, publication, latest, pins>>
    PROVE  RecordsTypeOK' /\ main' # NoRecord /\ main'.operation = main.operation
  BY NoRecordAssumption DEF RecordsTypeOK

LEMMA RecoveryGithubStays ==
    ASSUME RecoveryInv, NoMutation
    PROVE  GithubTypeOK'
  BY DEF RecoveryInv, RecoveryTyped, TypeOK, GithubTypeOK, NoMutation, github

\* mark_uncertain, wherever it is called.
LEMMA RecoveryAbandons ==
    ASSUME RecoveryInv, main # NoRecord, AbandonUncertain, Steady, NoMutation, plan' = plan
    PROVE  RecoveryInv'
  <1> DEFINE next == MarkOperationUncertain(main)
  <1>1. main \in RemoteOperation
    BY DEF RecoveryInv, RecoveryTyped, TypeOK, RecordsTypeOK
  <1>2. main.release_id \in Nat /\ main.verified_assets \in 0..AssetCount /\ "uncertain" \in Phases
    BY <1>1 DEF RemoteOperation, Phases
  <1>3. next \in RemoteOperation /\ next.operation = main.operation
    BY <1>1, <1>2, UpdateTyped DEF MarkOperationUncertain
  <1> HIDE DEF next
  <1>4. /\ Leave /\ main' \in {main, next} /\ temp' \in {temp, next}
        /\ faults' \in {faults, faults + 1}
    BY DEF AbandonUncertain, Persist, Replace, next
  <1>5. RecordsTypeOK'
    BY <1>3, <1>4, UpdatedRecords DEF RecoveryInv, RecoveryTyped, TypeOK, Steady
  <1>6. QED
    BY <1>4, <1>5, RecoveryGithubStays, RecoveryEnds
       DEF RecoveryInv, RecoveryTyped, TypeOK, RunTypeOK, Steady

\* A command that ends without writing.
LEMMA RecoveryStops ==
    ASSUME RecoveryInv, Leave, UNCHANGED <<records, pins, plan>>, GithubTypeOK',
           faults' \in Nat, edits' \in Nat
    PROVE  RecoveryInv'
  <1>1. RecordsTypeOK'
    BY DEF RecoveryInv, RecoveryTyped, TypeOK, RecordsTypeOK, records
  <1>2. QED
    BY <1>1, RecoveryEnds DEF RecoveryInv, RecoveryTyped

\* An update that the command survives: it goes on to a step of stage-remote.
LEMMA RecoveryGoesOn ==
    ASSUME RecoveryInv, pc \in StageSteps, NEW next \in RemoteOperation,
           next.operation = main.operation, main' \in {main, next},
           Steady, NoMutation, faults' \in Nat, UNCHANGED <<temp, plan>>,
           RunTypeOK', pc' \in StageSteps \ {"createTag", "createDraft"},
           pc' \in BeforeBinding => index' = 0,
           pc' \in Uploading \cup {"observe"} => index' < AssetCount,
           pc' = "observe" => Name' \in DOMAIN before',
           RecoveredUploadsOnlySuffix'
    PROVE  RecoveryInv'
  <1>1. Authority
    BY DEF RecoveryInv, RecoveryPlace
  <1>2. RecordsTypeOK' /\ main' # NoRecord /\ main'.operation = main.operation
    BY <1>1, UpdatedRecords DEF RecoveryInv, RecoveryTyped, TypeOK, Steady, Authority
  <1>3. Authority'
    BY <1>1, <1>2, AuthorityStays DEF Steady
  <1>4. plan' \in Certificate \cup {NoRecord}
    BY DEF RecoveryInv, RecoveryTyped
  <1>5. RecoveryPlace'
    BY <1>3 DEF RecoveryPlace, StageSteps, Staged, Binding, Uploading, Finishing, Publishing,
               RecoverSteps
  <1>6. QED
    BY <1>2, <1>4, <1>5, RecoveryGithubStays DEF RecoveryInv, RecoveryTyped, TypeOK

-----------------------------------------------------------------------------
(* Broker recovery: the steps of stage-remote                              *)

\* The operation at a step of stage-remote, and what an update makes of it.
LEMMA StagedOperation ==
    ASSUME RecoveryInv, pc \in StageSteps
    PROVE  /\ main # NoRecord /\ main \in RemoteOperation
           /\ \A id \in Nat, verified \in 0..AssetCount, phase \in Phases :
                 LET next == UpdateOperation(main, id, verified, phase)
                 IN  /\ next \in RemoteOperation /\ next.operation = main.operation
                     /\ next.observed_remote_assets = main.observed_remote_assets
  <1>1. main # NoRecord /\ main \in RemoteOperation
    BY DEF RecoveryInv, RecoveryTyped, TypeOK, RecordsTypeOK, RecoveryPlace, Authority
  <1>2. QED
    BY <1>1, UpdateTyped

\* An update that is interrupted, or refused as invalid, ends the command.
LEMMA RecoveryUpdates ==
    ASSUME RecoveryInv, main # NoRecord, NEW next \in RemoteOperation,
           next.operation = main.operation, Leave,
           main' \in {main, next}, temp' \in {temp, next, NoRecord}, Steady, NoMutation,
           faults' \in Nat, plan' = plan
    PROVE  RecoveryInv'
  <1>1. RecordsTypeOK'
    BY UpdatedRecords DEF RecoveryInv, RecoveryTyped, TypeOK, Steady
  <1>2. QED
    BY <1>1, RecoveryGithubStays, RecoveryEnds
       DEF RecoveryInv, RecoveryTyped, TypeOK, RunTypeOK, Steady

LEMMA RecoveryBegin ==
    ASSUME RecoveryInv, StageBegin, plan' = plan
    PROVE  RecoveryInv'
  <1>1. pc = "begin" /\ Steady /\ NoMutation /\ UNCHANGED <<temp, faults>>
    BY DEF StageBegin
  <1>2. /\ main' \in RemoteOperation /\ main' # NoRecord /\ main'.operation = pins
    <2>1. CASE main = NoRecord
      <3>1. pins \in Pins
        BY DEF RecoveryInv, RecoveryTyped, TypeOK, RecordsTypeOK
      <3>2. Ordinary(main') /\ main'.operation = pins
        BY <2>1, <3>1, InitialOrdinary DEF StageBegin, InitialOperation
      <3>3. QED
        BY <3>2, NoRecordAssumption DEF Ordinary
    <2>2. CASE main # NoRecord
      BY <1>1, <2>2 DEF StageBegin, RecoveryInv, RecoveryTyped, TypeOK, RecordsTypeOK, RecoveryPlace
    <2>3. QED
      BY <2>1, <2>2
  <1>3. RecordsTypeOK' /\ GithubTypeOK' /\ faults' \in Nat /\ edits' \in Nat
        /\ plan' \in Certificate \cup {NoRecord}
    BY <1>1, <1>2, RecoveryGithubStays
       DEF RecoveryInv, RecoveryTyped, TypeOK, RecordsTypeOK, RunTypeOK, Steady
  <1>4. CASE Leave
    BY <1>3, <1>4, RecoveryEnds
  <1>5. CASE ValidateCurrent(main') /\ Goto(IF certificate = NoRecord THEN "createTag" ELSE "readTag")
    <2>1. Authority'
      BY <1>1, <1>2, <1>5 DEF Authority, ValidateCurrent, Steady
    <2>2. RunTypeOK'
      BY <1>3, <1>5 DEF RecoveryInv, RecoveryTyped, TypeOK, RunTypeOK, Goto, Steps
    <2>3. index = 0 /\ ~(pc' \in RecoverSteps)
      BY <1>1, <1>5 DEF RecoveryInv, RecoveryPlace, BeforeBinding, Goto, RecoverSteps
    <2>4. RecoveryPlace'
      BY <1>1, <1>5, <2>1, <2>3 DEF RecoveryPlace, StageSteps, Staged, Binding, Uploading, Finishing,
            Publishing, RecoverSteps, Goto, Steady, RecoveredUploadsOnlySuffix, BeforeBinding
    <2>5. QED
      BY <1>3, <2>2, <2>4 DEF RecoveryInv, RecoveryTyped, TypeOK
  <1>6. QED
    BY <1>4, <1>5 DEF StageBegin

\* A step that sends a request, and reads next.
LEMMA RecoverySends ==
    ASSUME RecoveryInv, StageCreateTag \/ StageCreateDraft \/ StageUpload, plan' = plan
    PROVE  RecoveryInv'
  <1>1. PICK request \in Request, step \in {"readTag", "rereadDraft", "readAfter"} :
            /\ Send(request) /\ Goto(step) /\ (step = "readAfter" => index < AssetCount)
            /\ pc \in StageSteps /\ (step # "readAfter" => index = 0)
    <2>1. CASE StageCreateTag
      BY <2>1 DEF StageCreateTag, Request, StageSteps, Staged, RecoveryInv, RecoveryPlace,
                  BeforeBinding
    <2>2. CASE StageCreateDraft
      BY <2>2 DEF StageCreateDraft, Request, StageSteps, Staged, Binding, RecoveryInv,
                  RecoveryPlace, BeforeBinding
    <2>3. CASE StageUpload
      <3>1. index < AssetCount /\ index \in 0..AssetCount
        BY <2>3 DEF StageUpload, RecoveryInv, RecoveryTyped, TypeOK, RunTypeOK, RecoveryPlace,
                    Uploading
      <3>2. Name \in Names
        BY <3>1, AssetCountAssumption DEF Name, Names
      <3>3. [kind |-> "upload", name |-> Name] \in Request
        BY <3>2 DEF Request
      <3>4. QED
        BY <2>3, <3>1, <3>3 DEF StageUpload, StageSteps, Staged, Uploading
    <2>4. QED
      BY <2>1, <2>2, <2>3
  <1>2. UNCHANGED <<main, temp>> /\ Steady
    BY DEF StageCreateTag, StageCreateDraft, StageUpload
  <1>3. GithubTypeOK' /\ faults' \in Nat
    BY <1>1, SendTyped DEF RecoveryInv, RecoveryTyped, TypeOK, RunTypeOK
  <1>4. RecordsTypeOK' /\ plan' \in Certificate \cup {NoRecord}
    BY <1>2 DEF RecoveryInv, RecoveryTyped, TypeOK, RecordsTypeOK, Steady
  <1>5. RunTypeOK'
    BY <1>1, <1>2, <1>3 DEF RecoveryInv, RecoveryTyped, TypeOK, RunTypeOK, Goto, Steps, Steady
  <1>6. Authority'
    BY <1>1, <1>2, AuthorityStays DEF RecoveryInv, RecoveryPlace, Authority, Steady
  <1>7. RecoveryPlace'
    BY <1>1, <1>6 DEF RecoveryPlace, StageSteps, Staged, Binding, Uploading, Finishing,
          Publishing, RecoverSteps, Goto, RecoveredUploadsOnlySuffix, BeforeBinding
  <1>8. QED
    BY <1>3, <1>4, <1>5, <1>7 DEF RecoveryInv, RecoveryTyped, TypeOK

\* A step of stage-remote that moves on without an update.
LEMMA RecoveryMoves ==
    ASSUME RecoveryInv, pc \in StageSteps, NEW step, Goto(step), UNCHANGED <<main, temp, faults, plan>>,
           Steady, NoMutation, step \in Finishing
    PROVE  RecoveryInv'
  <1>1. main \in RemoteOperation
    BY StagedOperation
  <1>2. RunTypeOK'
    BY DEF RecoveryInv, RecoveryTyped, TypeOK, RunTypeOK, Goto, Steps, Steady, StageSteps, Staged,
           Binding, Uploading, Finishing
  <1>3. faults' \in Nat /\ pc' = step /\ UNCHANGED index
    BY DEF RecoveryInv, RecoveryTyped, TypeOK, RunTypeOK, Goto
  <1>4. RecoveredUploadsOnlySuffix'
    BY <1>3 DEF RecoveredUploadsOnlySuffix, Finishing
  <1>5. QED
    BY <1>1, <1>2, <1>3, <1>4, RecoveryGoesOn
       DEF StageSteps, Staged, Uploading, Finishing, BeforeBinding

LEMMA RecoveryReadTag ==
    ASSUME RecoveryInv, StageReadTag, plan' = plan
    PROVE  RecoveryInv'
  <1> DEFINE next == UpdateOperation(main, None, main.verified_assets, "tag_verified")
  <1>1. pc = "readTag" /\ pc \in StageSteps /\ Steady /\ NoMutation
    BY DEF StageReadTag, StageSteps, Staged
  <1>2. main # NoRecord /\ next \in RemoteOperation /\ next.operation = main.operation
    <2>1. None \in Nat /\ main.verified_assets \in 0..AssetCount /\ "tag_verified" \in Phases
      BY <1>1, StagedOperation DEF RemoteOperation, None, Phases
    <2>2. QED
      BY <1>1, <2>1, StagedOperation
  <1> HIDE DEF next
  <1>3. faults \in Nat
    BY DEF RecoveryInv, RecoveryTyped, TypeOK, RunTypeOK
  <1>4. CASE AbandonUncertain
    BY <1>1, <1>2, <1>4, RecoveryAbandons
  <1>5. CASE main' = next /\ Goto("readDraft") /\ UNCHANGED <<temp, faults>>
    <2>1. RunTypeOK'
      BY <1>5, <1>1 DEF RecoveryInv, RecoveryTyped, TypeOK, RunTypeOK, Goto, Steps, Steady
    <2>2. pc' = "readDraft" /\ index' = 0 /\ RecoveredUploadsOnlySuffix'
      BY <1>1, <1>5 DEF Goto, RecoveredUploadsOnlySuffix, RecoveryInv, RecoveryPlace, BeforeBinding
    <2>3. QED
      BY <1>1, <1>2, <1>3, <1>5, <2>1, <2>2, RecoveryGoesOn
         DEF StageSteps, Staged, Binding, Uploading
  <1>6. CASE Leave /\ main' = main /\ temp' \in {temp, next} /\ faults' \in {faults, faults + 1}
    BY <1>1, <1>2, <1>3, <1>6, RecoveryUpdates
  <1>7. QED
    BY <1>4, <1>5, <1>6 DEF StageReadTag, Persist, Replace, next

LEMMA RecoveryBinds ==
    ASSUME RecoveryInv, pc \in Binding, NEW id \in DOMAIN releases, BindDraft(id), Steady,
           NoMutation, plan' = plan
    PROVE  RecoveryInv'
  <1> DEFINE next == UpdateOperation(main, id, main.verified_assets, "draft_bound")
  <1>1. pc \in StageSteps /\ pc \in BeforeBinding /\ id \in Nat
    BY DEF StageSteps, Staged, Binding, BeforeBinding, RecoveryInv, RecoveryTyped, TypeOK,
           GithubTypeOK
  <1>2. main # NoRecord /\ next \in RemoteOperation /\ next.operation = main.operation
    <2>1. main.verified_assets \in 0..AssetCount /\ "draft_bound" \in Phases
      BY <1>1, StagedOperation DEF RemoteOperation, Phases
    <2>2. QED
      BY <1>1, <2>1, StagedOperation
  <1> HIDE DEF next
  <1>3. faults \in Nat
    BY DEF RecoveryInv, RecoveryTyped, TypeOK, RunTypeOK
  <1>4. CASE Leave /\ main' = main /\ temp' \in {temp, next} /\ faults' \in {faults, faults + 1}
    BY <1>1, <1>2, <1>3, <1>4, RecoveryUpdates
  <1>5. CASE /\ main' = next /\ release' = id /\ pc' = "readBefore"
             /\ UNCHANGED <<cmd, index, before, receipts, temp, faults>>
    <2>1. RunTypeOK'
      BY <1>1, <1>5 DEF RecoveryInv, RecoveryTyped, TypeOK, RunTypeOK, Steps, Steady
    <2>2. index' < AssetCount
      BY <1>1, <1>5, AssetCountAssumption DEF RecoveryInv, RecoveryPlace
    <2>3. RecoveredUploadsOnlySuffix' /\ faults' \in Nat
      BY <1>3, <1>5 DEF RecoveredUploadsOnlySuffix
    <2>4. QED
      BY <1>1, <1>2, <1>5, <2>1, <2>2, <2>3, RecoveryGoesOn
         DEF StageSteps, Staged, Uploading, BeforeBinding
  <1>6. QED
    BY <1>4, <1>5 DEF BindDraft, Persist, Replace, next

LEMMA RecoveryDrafts ==
    ASSUME RecoveryInv, StageReadDraft \/ StageRereadDraft, plan' = plan
    PROVE  RecoveryInv'
  <1>1. /\ pc \in Binding /\ pc \in StageSteps /\ Steady /\ NoMutation /\ main # NoRecord
    <2>1. pc \in Binding /\ pc \in StageSteps /\ Steady /\ NoMutation
      BY DEF StageReadDraft, StageRereadDraft, Binding, StageSteps, Staged
    <2>2. QED
      BY <2>1, StagedOperation
  <1>2. ASSUME NEW id \in DraftRead, BindDraft(id) PROVE RecoveryInv'
    BY <1>1, <1>2, RecoveryBinds DEF DraftRead
  <1>3. CASE AbandonUncertain
    BY <1>1, <1>3, RecoveryAbandons
  <1>4. CASE Leave /\ UNCHANGED <<main, temp, faults>>
    BY <1>1, <1>4, RecoveryStops, RecoveryGithubStays
       DEF Steady, records, RecoveryInv, RecoveryTyped, TypeOK, RunTypeOK
  <1>5. CASE certificate = NoRecord /\ Goto("createDraft") /\ UNCHANGED <<main, temp, faults>>
    <2>1. RecordsTypeOK' /\ RunTypeOK' /\ GithubTypeOK' /\ plan' \in Certificate \cup {NoRecord}
      BY <1>1, <1>5, RecoveryGithubStays
         DEF RecoveryInv, RecoveryTyped, TypeOK, RecordsTypeOK, RunTypeOK, Goto, Steps, Steady
    <2>2. Authority'
      BY <1>1, <1>5, AuthorityStays DEF RecoveryInv, RecoveryPlace, Authority, Steady
    <2>3. index = 0
      BY <1>1 DEF RecoveryInv, RecoveryPlace, BeforeBinding, Binding
    <2>4. RecoveryPlace'
      BY <1>1, <1>5, <2>2, <2>3 DEF RecoveryPlace, StageSteps, Staged, Binding, Uploading, Finishing,
            Publishing, RecoverSteps, Goto, RecoveredUploadsOnlySuffix, Steady, BeforeBinding
    <2>5. QED
      BY <2>1, <2>4 DEF RecoveryInv, RecoveryTyped, TypeOK
  <1>6. QED
    BY <1>2, <1>3, <1>4, <1>5 DEF StageReadDraft, StageRereadDraft

LEMMA AssetsCounted ==
    ASSUME NEW f, IsAssetMap(f)
    PROVE  Cardinality(DOMAIN f) \in Nat
  <1>1. IsFiniteSet(1..AssetCount)
    BY AssetCountAssumption, FS_Interval
  <1>2. IsFiniteSet(DOMAIN f)
    BY <1>1, FS_Subset DEF IsAssetMap, Names
  <1>3. QED
    BY <1>2, FS_CardinalityType

\* The assets of a draft that is preserved: the certificate's and the observed
\* ones are among the first count, so no one before them is missing.
LEMMA PreservedCount ==
    ASSUME RecoveryInv, NEW id \in DOMAIN releases, certificate # NoRecord,
           main \in RemoteOperation,
           RequireAssetPrefix(releases[id].assets), RequirePreserved(id)
    PROVE  LET count == Cardinality(DOMAIN releases[id].assets)
           IN  /\ count \in Nat
               /\ Len(certificate.retained.assets) <= count
               /\ Len(main.observed_remote_assets) <= count
  <1> DEFINE assets == releases[id].assets
             count  == Cardinality(DOMAIN assets)
  <1>1. IsAssetMap(assets)
    BY DEF RecoveryInv, RecoveryTyped, TypeOK, GithubTypeOK
  <1>2. count \in Nat
    BY <1>1, AssetsCounted
  <1>3. DOMAIN assets = 1..count
    BY DEF RequireAssetPrefix
  <1>4. ASSUME NEW ids \in Seq(Nat \ {None}), Listed(assets, ids) PROVE Len(ids) <= count
    <2>1. Len(ids) \in Nat /\ DOMAIN ids = 1..Len(ids)
      BY <1>4
    <2>2. ASSUME Len(ids) > 0 PROVE Len(ids) \in 1..count
      <3>1. Len(ids) \in DOMAIN ids
        BY <2>1, <2>2
      <3>2. Len(ids) \in DOMAIN assets
        BY <1>4, <3>1 DEF Listed
      <3>3. QED
        BY <1>3, <3>2
    <2>3. QED
      BY <1>2, <2>1, <2>2
  <1>5. certificate \in Certificate
    BY DEF RecoveryInv, RecoveryTyped, TypeOK, RecordsTypeOK
  <1>6. certificate.retained.assets \in Seq(Nat \ {None})
        /\ main.observed_remote_assets \in Seq(Nat \ {None})
    BY <1>5 DEF Certificate, RemoteOperation
  <1>7. Listed(assets, certificate.retained.assets) /\ Listed(assets, main.observed_remote_assets)
    BY DEF RequirePreserved
  <1>8. QED
    BY <1>2, <1>4, <1>6, <1>7

LEMMA RecoveryReadBefore ==
    ASSUME RecoveryInv, StageReadBefore, plan' = plan
    PROVE  RecoveryInv'
  <1>1. /\ pc = "readBefore" /\ pc \in StageSteps /\ Steady /\ NoMutation
        /\ main # NoRecord /\ main \in RemoteOperation /\ index < AssetCount
        /\ index \in 0..AssetCount
    <2>1. pc = "readBefore" /\ pc \in StageSteps /\ Steady /\ NoMutation
      BY DEF StageReadBefore, StageSteps, Staged, Uploading
    <2>2. index < AssetCount /\ index \in 0..AssetCount
      BY <2>1 DEF RecoveryInv, RecoveryPlace, RecoveryTyped, TypeOK, RunTypeOK, Uploading
    <2>3. QED
      BY <2>1, <2>2, StagedOperation
  <1>2. CASE AbandonUncertain
    BY <1>1, <1>2, RecoveryAbandons
  <1>3. CASE Leave /\ UNCHANGED <<main, temp, faults>>
    BY <1>1, <1>3, RecoveryStops, RecoveryGithubStays
       DEF Steady, records, RecoveryInv, RecoveryTyped, TypeOK, RunTypeOK
  <1>4. ASSUME NEW id \in DraftRead,
               LET assets == releases[id].assets
                   count  == Cardinality(DOMAIN assets)
               IN  /\ RequireRelease(id, release, TRUE) /\ RequirePreserved(id)
                   /\ ~(count < index)
                   /\ before' = assets
                   /\ pc' = IF count > index THEN Located ELSE "upload"
                   /\ UNCHANGED <<cmd, index, release, receipts, main, temp, faults>>
        PROVE  RecoveryInv'
    <2> DEFINE assets == releases[id].assets
               count  == Cardinality(DOMAIN assets)
    <2>1. id \in DOMAIN releases /\ RequireAssetPrefix(assets) /\ RequirePreserved(id)
      BY <1>4 DEF DraftRead, RequireRelease
    <2>2. DOMAIN assets = 1..count
      BY <2>1 DEF RequireAssetPrefix
    <2>3. IsAssetMap(before')
      BY <1>4, <2>1 DEF RecoveryInv, RecoveryTyped, TypeOK, GithubTypeOK
    <2>4. pc' \in {"download", "observe", "upload"}
      BY <1>4 DEF Located
    <2>5. RunTypeOK' /\ faults' \in Nat
      BY <1>1, <1>4, <2>3, <2>4 DEF RecoveryInv, RecoveryTyped, TypeOK, RunTypeOK, Steps, Steady
    <2>6. count \in Nat
      <3>1. IsAssetMap(assets)
        BY <2>1 DEF RecoveryInv, RecoveryTyped, TypeOK, GithubTypeOK
      <3>2. QED
        BY <3>1, AssetsCounted
    <2>7. pc' = "observe" => Name' \in DOMAIN before'
      <3>1. pc' = "observe" => count > index
        BY <1>4
      <3>2. count > index => index + 1 \in 1..count
        BY <1>1, <2>6
      <3>3. QED
        BY <1>4, <2>2, <3>1, <3>2 DEF Name
    <2>8. RecoveredUploadsOnlySuffix'
      <3>1. CASE certificate = NoRecord
        BY <1>1, <3>1 DEF RecoveredUploadsOnlySuffix, Steady
      <3>2. CASE pc' # "upload"
        BY <3>2 DEF RecoveredUploadsOnlySuffix
      <3>3. CASE certificate # NoRecord /\ pc' = "upload"
        <4>1. count <= index
          BY <1>1, <1>4, <2>6, <3>3 DEF Located
        <4>2. /\ Len(certificate.retained.assets) <= count
              /\ Len(main.observed_remote_assets) <= count
          BY <1>1, <2>1, <3>3, PreservedCount
        <4>3. Len(certificate.retained.assets) \in Nat /\ Len(main.observed_remote_assets) \in Nat
          <5>1. certificate.retained.assets \in Seq(Nat \ {None})
                /\ main.observed_remote_assets \in Seq(Nat \ {None})
            BY <1>1, <3>3 DEF RecoveryInv, RecoveryTyped, TypeOK, RecordsTypeOK, Certificate,
                             RemoteOperation
          <5>2. QED
            BY <5>1
        <4>4. Name > Len(certificate.retained.assets) /\ Name > Len(main.observed_remote_assets)
          BY <1>1, <2>6, <4>1, <4>2, <4>3 DEF Name
        <4>5. QED
          BY <1>1, <1>4, <4>4 DEF RecoveredUploadsOnlySuffix, Steady, Name
      <3>4. QED
        BY <3>1, <3>2, <3>3
    <2>9. QED
      BY <1>1, <1>4, <2>4, <2>5, <2>7, <2>8, RecoveryGoesOn
         DEF StageSteps, Staged, Uploading, BeforeBinding
  <1>5. QED
    BY <1>2, <1>3, <1>4 DEF StageReadBefore
LEMMA RecoveryReadAfter ==
    ASSUME RecoveryInv, StageReadAfter, plan' = plan
    PROVE  RecoveryInv'
  <1>1. /\ pc = "readAfter" /\ pc \in StageSteps /\ Steady /\ NoMutation
        /\ main # NoRecord /\ main \in RemoteOperation /\ index < AssetCount
    <2>1. pc = "readAfter" /\ pc \in StageSteps /\ Steady /\ NoMutation
      BY DEF StageReadAfter, StageSteps, Staged, Uploading
    <2>2. index < AssetCount
      BY <2>1 DEF RecoveryInv, RecoveryPlace, Uploading
    <2>3. QED
      BY <2>1, <2>2, StagedOperation
  <1>2. CASE AbandonUncertain
    BY <1>1, <1>2, RecoveryAbandons
  <1>3. CASE Leave /\ UNCHANGED <<main, temp, faults>>
    BY <1>1, <1>3, RecoveryStops, RecoveryGithubStays
       DEF Steady, records, RecoveryInv, RecoveryTyped, TypeOK, RunTypeOK
  <1>4. ASSUME NEW id \in DraftRead,
               RequireSingleNewAsset(before, releases[id].assets, Name),
               before' = releases[id].assets, pc' = Located,
               UNCHANGED <<cmd, index, release, receipts, main, temp, faults>>
        PROVE  RecoveryInv'
    <2>1. id \in DOMAIN releases /\ pc' \in {"download", "observe"}
      BY <1>4 DEF DraftRead, Located
    <2>2. IsAssetMap(before')
      BY <1>4, <2>1 DEF RecoveryInv, RecoveryTyped, TypeOK, GithubTypeOK
    <2>3. RunTypeOK' /\ faults' \in Nat
      BY <1>1, <1>4, <2>1, <2>2 DEF RecoveryInv, RecoveryTyped, TypeOK, RunTypeOK, Steps, Steady
    <2>4. Name' \in DOMAIN before'
      BY <1>4 DEF RequireSingleNewAsset, Name
    <2>5. RecoveredUploadsOnlySuffix'
      BY <2>1 DEF RecoveredUploadsOnlySuffix
    <2>6. QED
      BY <1>1, <1>4, <2>1, <2>3, <2>4, <2>5, RecoveryGoesOn
         DEF StageSteps, Staged, Uploading, BeforeBinding
  <1>5. QED
    BY <1>2, <1>3, <1>4 DEF StageReadAfter

\* One more identifier for the receipt.
LEMMA OneMoreId ==
    ASSUME NEW ids \in Seq(Nat \ {None}), NEW id \in Nat \ {None}
    PROVE  Append(ids, id) \in Seq(Nat \ {None})
  OBVIOUS

LEMMA RecoveryObserves ==
    ASSUME RecoveryInv, StageObserve
    PROVE  RecoveryInv'
  <1> DEFINE observed == Append(receipts, before[Name].id)
             next     == [main EXCEPT !.observed_remote_assets = observed]
  <1>1. /\ pc = "observe" /\ pc \in StageSteps /\ Steady /\ NoMutation /\ plan' = plan
        /\ main # NoRecord /\ main \in RemoteOperation /\ index < AssetCount
        /\ faults \in Nat
    <2>1. pc = "observe" /\ pc \in StageSteps /\ Steady /\ NoMutation /\ plan' = plan
      BY DEF StageObserve, StageSteps, LocalOnly, Steady, NoMutation
    <2>2. index < AssetCount /\ faults \in Nat
      BY <2>1 DEF RecoveryInv, RecoveryPlace, RecoveryTyped, TypeOK, RunTypeOK
    <2>3. QED
      BY <2>1, <2>2, StagedOperation
  <1>2. observed \in Seq(Nat \ {None})
    <2>1. Name \in DOMAIN before
      BY <1>1 DEF RecoveryInv, RecoveryPlace
    <2>2. receipts \in Seq(Nat \ {None}) /\ before[Name].id \in Nat \ {None}
      BY <2>1 DEF RecoveryInv, RecoveryTyped, TypeOK, RunTypeOK, IsAssetMap
    <2>3. QED
      BY <2>2, OneMoreId
  <1>3. next \in RemoteOperation /\ next.operation = main.operation
    <2> HIDE DEF observed
    <2>1. QED
      BY <1>1, <1>2 DEF RemoteOperation
  <1>4. \/ Leave /\ UNCHANGED <<main, temp, faults>>
        \/ Leave /\ main' = main /\ temp' = next /\ faults' = faults + 1
        \/ main' \in {main, next} /\ Goto("download") /\ UNCHANGED <<temp, faults>>
    BY DEF StageObserve, Replace
  <1> HIDE DEF observed, next
  <1>5. CASE Leave /\ UNCHANGED <<main, temp, faults>>
    BY <1>1, <1>5, RecoveryStops, RecoveryGithubStays
       DEF Steady, records, RecoveryInv, RecoveryTyped, TypeOK, RunTypeOK
  <1>6. CASE Leave /\ main' = main /\ temp' = next /\ faults' = faults + 1
    BY <1>1, <1>3, <1>6, RecoveryUpdates
  <1>7. CASE main' \in {main, next} /\ Goto("download") /\ UNCHANGED <<temp, faults>>
    <2>1. RunTypeOK' /\ faults' \in Nat /\ pc' = "download" /\ UNCHANGED index
      BY <1>1, <1>7 DEF RecoveryInv, RecoveryTyped, TypeOK, RunTypeOK, Goto, Steps, Steady
    <2>2. RecoveredUploadsOnlySuffix'
      BY <2>1 DEF RecoveredUploadsOnlySuffix
    <2>3. QED
      BY <1>1, <1>3, <1>7, <2>1, <2>2, RecoveryGoesOn
         DEF StageSteps, Staged, Uploading, BeforeBinding
  <1>8. QED
    BY <1>4, <1>5, <1>6, <1>7

LEMMA RecoveryDownloads ==
    ASSUME RecoveryInv, StageDownload, plan' = plan
    PROVE  RecoveryInv'
  <1> DEFINE next == UpdateOperation(main, release, index + 1, "uploading")
  <1>1. /\ pc = "download" /\ pc \in StageSteps /\ Steady /\ NoMutation
        /\ main # NoRecord /\ index < AssetCount /\ index \in 0..AssetCount
        /\ release \in Nat /\ faults \in Nat
    <2>1. pc = "download" /\ pc \in StageSteps /\ Steady /\ NoMutation
      BY DEF StageDownload, StageSteps, Staged, Uploading
    <2>2. /\ index < AssetCount /\ index \in 0..AssetCount /\ release \in Nat /\ faults \in Nat
      BY <2>1 DEF RecoveryInv, RecoveryPlace, RecoveryTyped, TypeOK, RunTypeOK, Uploading
    <2>3. QED
      BY <2>1, <2>2, StagedOperation
  <1>2. index + 1 \in 0..AssetCount
    BY <1>1, AssetCountAssumption
  <1>3. next \in RemoteOperation /\ next.operation = main.operation
    BY <1>1, <1>2, StagedOperation DEF Phases
  <1> HIDE DEF next
  <1>4. CASE AbandonUncertain
    BY <1>1, <1>4, RecoveryAbandons
  <1>5. CASE Leave /\ main' = main /\ temp' \in {temp, next} /\ faults' \in {faults, faults + 1}
    BY <1>1, <1>3, <1>5, RecoveryUpdates
  <1>6. CASE /\ release \in DOMAIN releases
             /\ Name \in DOMAIN releases[release].assets
             /\ releases[release].assets[Name] = [id |-> before[Name].id, good |-> TRUE]
             /\ main' = next
             /\ index' = index + 1 /\ receipts' = Append(receipts, before[Name].id)
             /\ before' = NoAssets /\ pc' = AfterAsset(index + 1)
             /\ UNCHANGED <<cmd, release, temp, faults>>
    <2>1. before[Name].id \in Nat \ {None}
      <3>1. IsAssetMap(releases[release].assets)
        BY <1>6 DEF RecoveryInv, RecoveryTyped, TypeOK, GithubTypeOK
      <3>2. [id |-> before[Name].id, good |-> TRUE] \in [id : Nat \ {None}, good : BOOLEAN]
        BY <1>6, <3>1 DEF IsAssetMap
      <3>3. QED
        BY <3>2
    <2>2. receipts' \in Seq(Nat \ {None})
      BY <1>6, <2>1, OneMoreId DEF RecoveryInv, RecoveryTyped, TypeOK, RunTypeOK
    <2>3. IsAssetMap(before')
      BY <1>6 DEF IsAssetMap, NoAssets
    <2>4. pc' \in {"assetsVerified", "readBefore"} /\ (pc' = "readBefore" => index' < AssetCount)
      BY <1>2, <1>6, AssetCountAssumption DEF AfterAsset
    <2>5. RunTypeOK' /\ faults' \in Nat
      BY <1>1, <1>2, <1>6, <2>2, <2>3, <2>4
         DEF RecoveryInv, RecoveryTyped, TypeOK, RunTypeOK, Steps, Steady
    <2>6. RecoveredUploadsOnlySuffix'
      BY <2>4 DEF RecoveredUploadsOnlySuffix
    <2>7. QED
      BY <1>1, <1>3, <1>6, <2>4, <2>5, <2>6, RecoveryGoesOn
         DEF StageSteps, Staged, Uploading, Finishing, BeforeBinding
  <1>7. QED
    BY <1>4, <1>5, <1>6 DEF StageDownload, Persist, Replace, next

LEMMA RecoveryAssetsVerified ==
    ASSUME RecoveryInv, StageAssetsVerified, plan' = plan
    PROVE  RecoveryInv'
  <1> DEFINE next == UpdateOperation(main, release, AssetCount, "assets_verified")
  <1>1. /\ pc = "assetsVerified" /\ pc \in StageSteps /\ Steady /\ NoMutation
        /\ main # NoRecord /\ release \in Nat /\ faults \in Nat
    <2>1. pc = "assetsVerified" /\ pc \in StageSteps /\ Steady /\ NoMutation
      BY DEF StageAssetsVerified, StageSteps, Staged, Finishing
    <2>2. release \in Nat /\ faults \in Nat
      BY DEF RecoveryInv, RecoveryTyped, TypeOK, RunTypeOK
    <2>3. QED
      BY <2>1, <2>2, StagedOperation
  <1>2. next \in RemoteOperation /\ next.operation = main.operation
    BY <1>1, AssetCountAssumption, StagedOperation DEF Phases
  <1> HIDE DEF next
  <1>3. CASE Leave /\ main' = main /\ temp' \in {temp, next} /\ faults' \in {faults, faults + 1}
    BY <1>1, <1>2, <1>3, RecoveryUpdates
  <1>4. CASE main' = next /\ Goto("finalTag") /\ UNCHANGED <<temp, faults>>
    <2>1. RunTypeOK' /\ pc' = "finalTag" /\ faults' \in Nat
      BY <1>1, <1>4 DEF RecoveryInv, RecoveryTyped, TypeOK, RunTypeOK, Goto, Steps, Steady
    <2>2. RecoveredUploadsOnlySuffix'
      BY <2>1 DEF RecoveredUploadsOnlySuffix
    <2>3. QED
      BY <1>1, <1>2, <1>4, <2>1, <2>2, RecoveryGoesOn
         DEF StageSteps, Staged, Uploading, Finishing, BeforeBinding
  <1>5. QED
    BY <1>3, <1>4 DEF StageAssetsVerified, Persist, Replace, next

LEMMA RecoveryFinishes ==
    ASSUME RecoveryInv, StageFinalTag \/ StageFinalDraft, plan' = plan
    PROVE  RecoveryInv'
  <1>1. pc \in StageSteps /\ Steady /\ NoMutation /\ main # NoRecord
    <2>1. pc \in StageSteps /\ Steady /\ NoMutation
      BY DEF StageFinalTag, StageFinalDraft, StageSteps, Staged, Finishing
    <2>2. QED
      BY <2>1, StagedOperation
  <1>2. CASE AbandonUncertain
    BY <1>1, <1>2, RecoveryAbandons
  <1>3. CASE Leave /\ UNCHANGED <<main, temp, faults>>
    BY <1>1, <1>3, RecoveryStops, RecoveryGithubStays
       DEF Steady, records, RecoveryInv, RecoveryTyped, TypeOK, RunTypeOK
  <1>4. CASE Goto("finalDraft") /\ UNCHANGED <<main, temp, faults>>
    BY <1>1, <1>4, RecoveryMoves DEF Finishing
  <1>5. CASE Goto("writeReceipt") /\ UNCHANGED <<main, temp, faults>>
    BY <1>1, <1>5, RecoveryMoves DEF Finishing
  <1>6. QED
    BY <1>2, <1>3, <1>4, <1>5 DEF StageFinalTag, StageFinalDraft
\* A command that ends by writing a record of the chain.
LEMMA RecoveryWrites ==
    ASSUME RecoveryInv, Leave, UNCHANGED <<main, temp, certificate, pins, github, budget, plan>>,
           {receipt', approval', publication', latest'} \subseteq Receipt \cup {NoRecord}
    PROVE  RecoveryInv'
  <1>1. RecordsTypeOK' /\ GithubTypeOK'
    BY DEF RecoveryInv, RecoveryTyped, TypeOK, RecordsTypeOK, GithubTypeOK, github
  <1>2. faults' \in Nat /\ edits' \in Nat /\ plan' \in Certificate \cup {NoRecord}
    BY DEF RecoveryInv, RecoveryTyped, TypeOK, RunTypeOK, budget
  <1>3. QED
    BY <1>1, <1>2, RecoveryEnds

LEMMA RecoveryChain ==
    ASSUME RecoveryInv, StageWriteReceipt \/ Approve \/ PublishWrite \/ LatestWrite, plan' = plan
    PROVE  RecoveryInv'
  <1>1. /\ Leave /\ UNCHANGED <<main, temp, certificate, pins, github, budget>>
    BY DEF StageWriteReceipt, Approve, PublishWrite, LatestWrite
  <1>2. {receipt, approval, publication, latest} \subseteq Receipt \cup {NoRecord}
    BY DEF RecoveryInv, RecoveryTyped, TypeOK, RecordsTypeOK
  <1>3. {receipt', approval', publication', latest'} \subseteq Receipt \cup {NoRecord}
    <2>1. CASE StageWriteReceipt
      <3>1. main \in RemoteOperation
        BY <2>1, StagedOperation DEF StageWriteReceipt, StageSteps, Staged, Finishing
      <3>2. [release_id |-> release, operation |-> main.operation, assets |-> receipts] \in Receipt
        BY <3>1 DEF RecoveryInv, RecoveryTyped, TypeOK, RunTypeOK, RemoteOperation, Receipt
      <3>3. QED
        BY <1>2, <2>1, <3>2 DEF StageWriteReceipt, WriteNoClobber
    <2>2. CASE Approve \/ PublishWrite \/ LatestWrite
      BY <1>2, <2>2 DEF Approve, PublishWrite, LatestWrite, WriteNoClobber
    <2>3. QED
      BY <2>1, <2>2
  <1>4. QED
    BY <1>1, <1>3, RecoveryWrites

LEMMA RecoveryStages ==
    ASSUME RecoveryInv, StageStep, plan' = plan
    PROVE  RecoveryInv'
  BY RecoveryBegin, RecoverySends, RecoveryReadTag, RecoveryDrafts, RecoveryReadBefore,
     RecoveryReadAfter, RecoveryDownloads, RecoveryAssetsVerified, RecoveryFinishes,
     RecoveryChain DEF StageStep

-----------------------------------------------------------------------------
(* Broker recovery: the steps of the other commands                        *)

\* A step that changes no record and no local variable but its place.
LEMMA RecoveryAdvances ==
    ASSUME RecoveryInv, NEW step, Goto(step), UNCHANGED <<records, pins, edits, plan>>,
           GithubTypeOK', faults' \in Nat, step \in Publishing \cup {"latestWrite"},
           step \in Publishing => Authority /\ receipt # NoRecord
    PROVE  RecoveryInv'
  <1>1. RecordsTypeOK' /\ plan' \in Certificate \cup {NoRecord}
    BY DEF RecoveryInv, RecoveryTyped, TypeOK, RecordsTypeOK, records
  <1>2. RunTypeOK'
    BY DEF RecoveryInv, RecoveryTyped, TypeOK, RunTypeOK, Goto, Steps, Publishing
  <1>3. Authority => Authority'
    BY DEF Authority, records
  <1>4. RecoveryPlace'
    BY <1>3 DEF RecoveryPlace, StageSteps, Staged, Binding, Uploading, Finishing, Publishing,
          RecoverSteps, RecoveredUploadsOnlySuffix, BeforeBinding, Goto, records
  <1>5. QED
    BY <1>1, <1>2, <1>4 DEF RecoveryInv, RecoveryTyped, TypeOK

LEMMA RecoveryReleases ==
    ASSUME RecoveryInv, ReleaseStep, plan' = plan
    PROVE  RecoveryInv'
  <1>1. faults \in Nat /\ edits \in Nat
    BY DEF RecoveryInv, RecoveryTyped, TypeOK, RunTypeOK
  <1>2. CASE Approve \/ PublishWrite \/ LatestWrite
    BY <1>2, RecoveryChain
  <1>3. ASSUME Unrecorded, NoMutation, UNCHANGED faults, Leave
        PROVE  RecoveryInv'
    BY <1>1, <1>3, RecoveryStops, RecoveryGithubStays DEF Unrecorded
  <1>4. ASSUME NEW step \in Publishing \cup {"latestWrite"}, Goto(step), Unrecorded, NoMutation,
               UNCHANGED faults, step \in Publishing => Authority /\ receipt # NoRecord
        PROVE  RecoveryInv'
    BY <1>1, <1>4, RecoveryAdvances, RecoveryGithubStays DEF Unrecorded
  <1>5. CASE PublishCheck
    <2>1. CASE Leave
      BY <1>3, <1>5, <2>1 DEF PublishCheck
    <2>2. CASE ValidateDraftReceipt(receipt) /\ receipt.operation = pins /\ Goto("publishRead")
      <3>1. Authority /\ receipt # NoRecord
        BY <2>2 DEF ValidateDraftReceipt, RequireReceiptIds, Authority
      <3>2. QED
        BY <1>4, <1>5, <2>2, <3>1 DEF PublishCheck, Publishing
    <2>3. QED
      BY <1>5, <2>1, <2>2 DEF PublishCheck, GotoOrLeave
  <1>6. CASE PublishRead \/ PublishReread
    <2>1. Unrecorded /\ NoMutation /\ UNCHANGED faults
      BY <1>6 DEF PublishRead, PublishReread
    <2>2. Authority /\ receipt # NoRecord
      BY <1>6 DEF PublishRead, PublishReread, RecoveryInv, RecoveryPlace, Publishing
    <2>3. \/ Leave \/ Goto("publishSend") \/ Goto("publishReread") \/ Goto("publishWrite")
      BY <1>6 DEF PublishRead, PublishReread, GotoOrLeave
    <2>4. QED
      BY <1>3, <1>4, <2>1, <2>2, <2>3 DEF Publishing
  <1>7. CASE PublishSend
    <2>1. Authority /\ receipt # NoRecord
      BY <1>7 DEF PublishSend, RecoveryInv, RecoveryPlace, Publishing
    <2>2. [kind |-> "publish", release |-> receipt.release_id] \in Request
      BY <2>1 DEF RecoveryInv, RecoveryTyped, TypeOK, RecordsTypeOK, Receipt, Request
    <2>3. GithubTypeOK' /\ faults' \in Nat
      BY <1>1, <1>7, <2>2, SendTyped DEF PublishSend, RecoveryInv, RecoveryTyped, TypeOK
    <2>4. QED
      BY <1>7, <2>1, <2>3, RecoveryAdvances DEF PublishSend, Unrecorded, Publishing
  <1>8. CASE LatestFetch
    <2>1. Unrecorded /\ NoMutation /\ UNCHANGED faults /\ (Leave \/ Goto("latestWrite"))
      BY <1>8 DEF LatestFetch, GotoOrLeave
    <2>2. QED
      BY <1>3, <1>4, <2>1 DEF Publishing
  <1>9. QED
    BY <1>2, <1>5, <1>6, <1>7, <1>8 DEF ReleaseStep

LEMMA RecoveryStart ==
    ASSUME RecoveryInv, NEW command \in Runbook, Start(command), plan' = plan
    PROVE  RecoveryInv'
  <1>1. RecordsTypeOK' /\ GithubTypeOK' /\ plan' \in Certificate \cup {NoRecord}
    BY DEF RecoveryInv, RecoveryTyped, TypeOK, RecordsTypeOK, GithubTypeOK, Start, records, github
  <1>2. RunTypeOK'
    BY DEF RecoveryInv, RecoveryTyped, TypeOK, RunTypeOK, Start, Steps, Commands, budget
  <1>3. RecoveryPlace'
    BY DEF RecoveryInv, RecoveryPlace, StageSteps, Staged, Binding, Uploading, Finishing, Publishing,
           RecoverSteps, RecoveredUploadsOnlySuffix, BeforeBinding, Start
  <1>4. QED
    BY <1>1, <1>2, <1>3 DEF RecoveryInv, RecoveryTyped, TypeOK

LEMMA RecoverySettles ==
    ASSUME RecoveryInv, Settle, plan' = plan
    PROVE  RecoveryInv'
  <1>1. /\ pc = "settle" /\ cmd \in Runbook
        /\ UNCHANGED <<certificate, receipt, approval, publication, latest, pins, github, budget>>
    BY DEF Settle, RecoveryInv, RecoveryPlace
  <1>2. RecordsTypeOK' /\ GithubTypeOK' /\ plan' \in Certificate \cup {NoRecord}
    BY <1>1 DEF RecoveryInv, RecoveryTyped, TypeOK, RecordsTypeOK, GithubTypeOK, Settle, github
  <1>3. faults' \in Nat /\ edits' \in Nat
    BY <1>1 DEF RecoveryInv, RecoveryTyped, TypeOK, RunTypeOK, budget
  <1>4. CASE Decision = "refuse"
    BY <1>2, <1>3, <1>4, RecoveryEnds DEF Settle
  <1>5. CASE Decision # "refuse"
    <2>1. Goto(FirstStep) /\ main' \in {main, temp}
      BY <1>5 DEF Settle
    <2>2. Acceptable(main) /\ Acceptable(temp)
      BY <1>5 DEF Decision
    <2>3. FirstStep \in {"begin", "approve", "check", "fetch"} /\ (FirstStep = "begin" => cmd = "stage")
      BY <1>1 DEF FirstStep, Runbook
    <2>4. pc' = "begin" /\ main' # NoRecord => main'.operation = pins'
      BY <1>1, <2>1, <2>2, <2>3 DEF Acceptable, Bound, Goto
    <2>5. index = 0
      BY <1>1 DEF RecoveryInv, RecoveryPlace, BeforeBinding
    <2>6. RunTypeOK'
      BY <1>1, <1>3, <2>1, <2>3 DEF RecoveryInv, RecoveryTyped, TypeOK, RunTypeOK, Goto, Steps
    <2>7. RecoveryPlace'
      <3> DEFINE step == FirstStep
      <3>1. pc' = step /\ step \in {"begin", "approve", "check", "fetch"} /\ index' = 0
        BY <2>1, <2>3, <2>5 DEF Goto
      <3> HIDE DEF step
      <3>2. QED
        BY <2>4, <3>1 DEF RecoveryPlace, StageSteps, Staged, Binding, Uploading, Finishing,
              Publishing, RecoverSteps, RecoveredUploadsOnlySuffix, BeforeBinding
    <2>8. QED
      BY <1>2, <2>6, <2>7 DEF RecoveryInv, RecoveryTyped, TypeOK
  <1>6. QED
    BY <1>4, <1>5

LEMMA RecoveryAmbiguous ==
    ASSUME RecoveryInv, RefuseAmbiguous, plan' = plan
    PROVE  RecoveryInv'
  <1>1. Steady /\ NoMutation
    BY DEF RefuseAmbiguous
  <1>2. CASE Leave /\ UNCHANGED <<main, temp, faults>>
    BY <1>1, <1>2, RecoveryStops, RecoveryGithubStays
       DEF Steady, records, RecoveryInv, RecoveryTyped, TypeOK, RunTypeOK
  <1>3. CASE Marks /\ AbandonUncertain
    <2>1. pc \in StageSteps
      BY <1>3 DEF Marks, MarkingReads, DraftReads, StageSteps, Staged, Binding, Uploading, Finishing
    <2>2. main # NoRecord
      BY <2>1, StagedOperation
    <2>3. QED
      BY <1>1, <1>3, <2>2, RecoveryAbandons
  <1>4. QED
    BY <1>2, <1>3 DEF RefuseAmbiguous

LEMMA RecoveryReadFails ==
    ASSUME RecoveryInv, ReadFails, plan' = plan
    PROVE  RecoveryInv'
  <1> DEFINE next == MarkOperationUncertain(main)
  <1>1. pc \in StageSteps /\ Steady /\ NoMutation /\ Leave /\ faults' = faults + 1
    BY DEF ReadFails, Marks, MarkingReads, DraftReads, StageSteps, Staged, Binding, Uploading,
           Finishing
  <1>2. main # NoRecord /\ next \in RemoteOperation /\ next.operation = main.operation
    <2>1. main # NoRecord /\ main \in RemoteOperation
      BY <1>1, StagedOperation
    <2>2. main.release_id \in Nat /\ main.verified_assets \in 0..AssetCount /\ "uncertain" \in Phases
      BY <2>1 DEF RemoteOperation, Phases
    <2>3. QED
      BY <2>1, <2>2, UpdateTyped DEF MarkOperationUncertain
  <1>3. main' \in {main, next} /\ temp' \in {temp, next}
    BY DEF ReadFails
  <1> HIDE DEF next
  <1>4. faults' \in Nat
    BY <1>1 DEF RecoveryInv, RecoveryTyped, TypeOK, RunTypeOK
  <1>5. QED
    BY <1>1, <1>2, <1>3, <1>4, RecoveryUpdates

LEMMA RecoveryTrouble ==
    ASSUME RecoveryInv, Stop \/ Deliver \/ OwnerEdits, plan' = plan
    PROVE  RecoveryInv'
  <1>1. CASE Stop
    <2>1. GithubTypeOK' /\ faults' \in Nat /\ edits' \in Nat
      BY <1>1 DEF Stop, RecoveryInv, RecoveryTyped, TypeOK, RunTypeOK, GithubTypeOK, github
    <2>2. QED
      BY <1>1, <2>1, RecoveryStops DEF Stop
  <1>2. ASSUME GithubTypeOK', edits' \in Nat, UNCHANGED <<records, pins, run, faults>>
        PROVE  RecoveryInv'
    <2>1. RecordsTypeOK' /\ RunTypeOK'
      BY <1>2 DEF RecoveryInv, RecoveryTyped, TypeOK, RecordsTypeOK, RunTypeOK, records, run
    <2>2. RecoveryPlace'
      BY <1>2 DEF RecoveryInv, RecoveryPlace, Authority, Name, RecoveredUploadsOnlySuffix,
                 records, run
    <2>3. QED
      BY <1>2, <2>1, <2>2 DEF RecoveryInv, RecoveryTyped, TypeOK
  <1>3. CASE Deliver
    <2>1. PICK request \in pending : Effect(request) /\ pending' = pending \ {request}
      BY <1>3 DEF Deliver
    <2>2. GithubTypeOK /\ request \in Request /\ pending' \subseteq Request
      BY <2>1 DEF RecoveryInv, RecoveryTyped, TypeOK, GithubTypeOK
    <2>3. GithubTypeOK'
      BY <2>1, <2>2, EffectTyped
    <2>4. QED
      BY <1>2, <1>3, <2>3 DEF Deliver, RecoveryInv, RecoveryTyped, TypeOK, RunTypeOK, budget
  <1>4. CASE OwnerEdits
    <2>1. GithubTypeOK'
      BY <1>4, EditsTyped DEF RecoveryInv, RecoveryTyped, TypeOK
    <2>2. QED
      BY <1>2, <1>4, <2>1 DEF OwnerEdits, RecoveryInv, RecoveryTyped, TypeOK, RunTypeOK
  <1>5. QED
    BY <1>1, <1>3, <1>4
-----------------------------------------------------------------------------
(* Broker recovery: plan-broker-recovery and recover-broker                *)

LEMMA RecoveryUpgrades ==
    ASSUME RecoveryInv, UpgradeBroker
    PROVE  RecoveryInv'
  <1>1. /\ pc = "idle" /\ pins' \in Pins /\ UNCHANGED <<records, github, run, budget, plan>>
    BY DEF UpgradeBroker
  <1>2. RecoveryTyped'
    BY <1>1 DEF RecoveryInv, RecoveryTyped, TypeOK, RecordsTypeOK, GithubTypeOK, RunTypeOK,
               records, github, run, budget
  <1>3. RecoveryPlace'
    BY <1>1 DEF RecoveryInv, RecoveryPlace, StageSteps, Staged, Binding, Uploading, Finishing,
               Publishing, RecoverSteps, RecoveredUploadsOnlySuffix, run
  <1>4. QED
    BY <1>2, <1>3 DEF RecoveryInv

\* The identifiers of a contiguous list of assets form a sequence.
LEMMA IdsOfPrefix ==
    ASSUME NEW assets, IsAssetMap(assets), RequireAssetPrefix(assets)
    PROVE  Ids(assets) \in Seq(Nat \ {None})
  <1> DEFINE count == Cardinality(DOMAIN assets)
  <1>1. count \in Nat
    BY AssetsCounted
  <1>2. Ids(assets) = [name \in 1..count |-> assets[name].id]
    BY DEF Ids, RequireAssetPrefix
  <1>3. \A name \in 1..count : assets[name].id \in Nat \ {None}
    BY DEF IsAssetMap, RequireAssetPrefix
  <1> HIDE DEF count
  <1>4. QED
    BY <1>1, <1>2, <1>3

LEMMA RecoveryPlans ==
    ASSUME RecoveryInv, PlanRecovery
    PROVE  RecoveryInv'
  <1>1. PICK id \in DraftRead :
           /\ RequireAssetPrefix(releases[id].assets)
           /\ plan' = [ prior       |-> main,
                        replacement |-> Replacement(main),
                        retained    |-> [release_id |-> id, assets |-> Ids(releases[id].assets)] ]
    BY DEF PlanRecovery
  <1>2. main \in RemoteOperation /\ pins \in Pins /\ pc = "idle" /\ UNCHANGED vars
    BY DEF PlanRecovery, RecoveryInv, RecoveryTyped, TypeOK, RecordsTypeOK
  <1>3. Replacement(main) \in RemoteOperation
    BY <1>2 DEF Replacement, RemoteOperation
  <1>4. id \in Nat /\ IsAssetMap(releases[id].assets)
    BY DEF DraftRead, RecoveryInv, RecoveryTyped, TypeOK, GithubTypeOK
  <1>5. Ids(releases[id].assets) \in Seq(Nat \ {None})
    BY <1>1, <1>4, IdsOfPrefix
  <1>6. plan' \in Certificate
    BY <1>1, <1>2, <1>3, <1>4, <1>5 DEF Certificate
  <1>7. TypeOK'
    BY <1>2 DEF RecoveryInv, RecoveryTyped, TypeOK, RecordsTypeOK, GithubTypeOK, RunTypeOK,
               vars, records, github, run, budget
  <1>8. RecoveryPlace'
    BY <1>2 DEF RecoveryInv, RecoveryPlace, Authority, StageSteps, Staged, Binding, Uploading, Finishing,
               Publishing, RecoverSteps, RecoveredUploadsOnlySuffix, vars, records, run, Name
  <1>9. QED
    BY <1>6, <1>7, <1>8 DEF RecoveryInv, RecoveryTyped

\* A step of recover-broker that goes on to the next.
LEMMA RecoverContinues ==
    ASSUME RecoveryInv, plan # NoRecord, NEW step \in RecoverSteps, pc' = step, cmd' \in Commands,
           UNCHANGED <<index, release, before, receipts, main, temp, receipt, approval,
                       publication, latest, pins, github, budget, plan>>,
           certificate' \in {certificate, plan}
    PROVE  RecoveryInv'
  <1>1. TypeOK' /\ plan' \in Certificate \cup {NoRecord}
    BY DEF RecoveryInv, RecoveryTyped, TypeOK, RecordsTypeOK, GithubTypeOK, RunTypeOK, github,
           budget, RecoverSteps, Steps
  <1>2. RecoveryPlace'
    BY DEF RecoveryPlace, StageSteps, Staged, Binding, Uploading, Finishing, Publishing,
           RecoverSteps, RecoveredUploadsOnlySuffix, BeforeBinding
  <1>3. QED
    BY <1>1, <1>2 DEF RecoveryInv, RecoveryTyped

LEMMA RecoveryRecovers ==
    ASSUME RecoveryInv, RecoverStart \/ RecoverStep
    PROVE  RecoveryInv'
  <1>1. CASE RecoverStart
    BY <1>1, RecoverContinues DEF RecoverStart, Commands, records, RecoverSteps
  <1>2. ASSUME pc \in RecoverSteps, Leave, UNCHANGED <<main, temp, certificate, faults>>, LocalOnly
        PROVE  RecoveryInv'
    <2>1. GithubTypeOK' /\ faults' \in Nat /\ edits' \in Nat
      BY <1>2 DEF LocalOnly, RecoveryInv, RecoveryTyped, TypeOK, RunTypeOK, GithubTypeOK, github
    <2>2. QED
      BY <1>2, <2>1, RecoveryStops DEF LocalOnly, records
  <1>3. ASSUME pc \in RecoverSteps, NEW step \in RecoverSteps, Goto(step),
               UNCHANGED <<main, temp, faults>>, certificate' \in {certificate, plan}, LocalOnly
        PROVE  RecoveryInv'
    <2>1. plan # NoRecord /\ cmd' \in Commands
      BY <1>3 DEF RecoveryInv, RecoveryPlace, RecoveryTyped, TypeOK, RunTypeOK, Goto
    <2>2. QED
      BY <1>3, <2>1, RecoverContinues DEF Goto, LocalOnly, budget
  <1>4. CASE RecoverCheck \/ RecoverRead \/ RecoverReread
    <2>1. pc \in RecoverSteps /\ UNCHANGED <<main, temp, certificate, faults>> /\ LocalOnly
      BY <1>4 DEF RecoverCheck, RecoverRead, RecoverReread, RecoverSteps
    <2>2. Leave \/ Goto("recoverRead") \/ Goto("recoverReread") \/ Goto("recoverProof")
      BY <1>4 DEF RecoverCheck, RecoverRead, RecoverReread, GotoOrLeave
    <2>3. QED
      BY <1>2, <1>3, <2>1, <2>2 DEF RecoverSteps
  <1>5. CASE RecoverProof
    <2>1. pc \in RecoverSteps /\ Goto("recoverSwitch") /\ UNCHANGED <<main, temp, faults>>
          /\ LocalOnly /\ certificate' \in {certificate, plan}
      BY <1>5 DEF RecoverProof, RecoverSteps, WriteNoClobber
    <2>2. QED
      BY <1>3, <2>1 DEF RecoverSteps
  <1>6. CASE RecoverSwitch
    <2>1. plan \in Certificate
      BY <1>6 DEF RecoverSwitch, RecoverSteps, RecoveryInv, RecoveryPlace, RecoveryTyped
    <2>2. plan.replacement \in RemoteOperation /\ faults \in Nat /\ edits \in Nat
      BY <2>1 DEF Certificate, RecoveryInv, RecoveryTyped, TypeOK, RunTypeOK
    <2>3. /\ Leave /\ LocalOnly /\ UNCHANGED certificate /\ faults' \in Nat
          /\ main' \in {main, temp, plan.replacement}
          /\ temp' \in {temp, NoRecord, plan.replacement}
      BY <1>6, <2>2 DEF RecoverSwitch, Replace
    <2>4. RecordsTypeOK' /\ GithubTypeOK'
      BY <2>2, <2>3 DEF RecoveryInv, RecoveryTyped, TypeOK, RecordsTypeOK, GithubTypeOK,
                       LocalOnly, github
    <2>5. QED
      BY <2>2, <2>3, <2>4, RecoveryEnds DEF LocalOnly, RecoveryInv, RecoveryTyped
  <1>7. CASE StageObserve
    BY <1>7, RecoveryObserves
  <1>8. QED
    BY <1>1, <1>4, <1>5, <1>6, <1>7 DEF RecoverStep

-----------------------------------------------------------------------------
(* Broker recovery: the invariant and what follows from it                 *)

LEMMA InitRecovery == RecoveryInit => RecoveryInv
  <1> SUFFICES ASSUME RecoveryInit PROVE RecoveryInv
    OBVIOUS
  <1>1. TypeOK
    BY InitWorkflow DEF RecoveryInit, WorkflowInv
  <1>2. RecoveryPlace
    BY DEF RecoveryInit, Init, RecoveryPlace, StageSteps, Staged, Binding, Uploading, Finishing,
           Publishing, RecoverSteps, RecoveredUploadsOnlySuffix, BeforeBinding
  <1>3. QED
    BY <1>1, <1>2 DEF RecoveryInv, RecoveryTyped, RecoveryInit

LEMMA StepRecovery == RecoveryInv /\ [RecoveryNext]_recoveryVars => RecoveryInv'
  <1> SUFFICES ASSUME RecoveryInv, [RecoveryNext]_recoveryVars PROVE RecoveryInv'
    OBVIOUS
  <1>1. CASE Next /\ UNCHANGED <<plan, upgrades>>
    <2>1. CASE \E command \in Runbook : Start(command)
      BY <1>1, <2>1, RecoveryStart
    <2>2. CASE Progress
      BY <1>1, <2>2, RecoverySettles, RecoveryStages, RecoveryReleases, RecoveryAmbiguous
         DEF Progress
    <2>3. CASE ReadFails \/ Stop \/ Deliver \/ OwnerEdits
      BY <1>1, <2>3, RecoveryReadFails, RecoveryTrouble
    <2>4. QED
      BY <1>1, <2>1, <2>2, <2>3 DEF Next
  <1>2. CASE UpgradeBroker \/ PlanRecovery \/ RecoverStart \/ RecoverStep
    BY <1>2, RecoveryUpgrades, RecoveryPlans, RecoveryRecovers
  <1>3. CASE UNCHANGED recoveryVars
    <2>1. UNCHANGED <<vars, plan>>
      BY <1>3 DEF recoveryVars
    <2>2. RecoveryTyped'
      BY <2>1 DEF RecoveryInv, RecoveryTyped, TypeOK, RecordsTypeOK, GithubTypeOK, RunTypeOK,
                 vars, records, github, run, budget
    <2>3. RecoveryPlace'
      BY <2>1 DEF RecoveryInv, RecoveryPlace, Authority, Name, RecoveredUploadsOnlySuffix,
                 vars, records, run
    <2>4. QED
      BY <2>2, <2>3 DEF RecoveryInv
  <1>4. QED
    BY <1>1, <1>2, <1>3 DEF RecoveryNext

\* Whatever the broker is and whenever the owner changes it, the records, the
\* repository on GitHub, the plan and the running command keep the shape that
\* workflow.rs and broker_recovery.rs give them.
THEOREM RecoveryTypeCorrect == RecoverySpec => []RecoveryInv
  <1>1. RecoveryInit => RecoveryInv
    BY InitRecovery
  <1>2. RecoveryInv /\ [RecoveryNext]_recoveryVars => RecoveryInv'
    BY StepRecovery
  <1>3. QED
    BY <1>1, <1>2, PTL DEF RecoverySpec

\* The switch of authority: while broker-recovery-v1.json exists no command
\* creates a tag or a draft, and none uploads or publishes for another broker
\* than the one the certificate names.
THEOREM OnlyTheRepairedActs == RecoverySpec => []RecoveryGatesMutation
  <1>1. RecoveryInv => RecoveryGatesMutation
    BY DEF RecoveryInv, RecoveryPlace, RecoveryGatesMutation, Authority, StageSteps, Staged,
           Uploading, Publishing
  <1>2. QED
    BY <1>1, RecoveryTypeCorrect, PTL

\* Recovered staging uploads only the suffix that neither the plan retained
\* nor an earlier attempt observed, although the owner may delete assets of
\* the draft between any two commands.
THEOREM OnlyTheSuffixIsUploaded == RecoverySpec => []RecoveredUploadsOnlySuffix
  <1>1. RecoveryInv => RecoveredUploadsOnlySuffix
    BY DEF RecoveryInv, RecoveryPlace
  <1>2. QED
    BY <1>1, RecoveryTypeCorrect, PTL
-----------------------------------------------------------------------------
(* Broker recovery: at most one draft                                      *)

LEMMA RecoveryProper ==
    ASSUME RecoveryInv
    PROVE  Proper
  <1>1. ASSUME pc = "upload" PROVE Name \in Names
    <2>1. index \in 0..AssetCount /\ index < AssetCount
      BY <1>1 DEF RecoveryInv, RecoveryTyped, RecoveryPlace, TypeOK, RunTypeOK, Uploading
    <2>2. QED
      BY <2>1, AssetCountAssumption DEF Name, Names
  <1>2. ASSUME pc = "publishSend" PROVE receipt \in Receipt
    BY <1>2 DEF RecoveryInv, RecoveryTyped, RecoveryPlace, TypeOK, RecordsTypeOK, Publishing
  <1>3. QED
    BY <1>1, <1>2 DEF RecoveryInv, RecoveryPlace, Proper

LEMMA RecoveryOneDraft ==
    ASSUME ~MayDelay, RecoveryInv, OneDraftInv, [RecoveryNext]_recoveryVars
    PROVE  OneDraftInv'
  <1>1. CASE Next \/ UNCHANGED vars
    BY <1>1, RecoveryProper, NextOneDraft
  <1>2. CASE UpgradeBroker \/ PlanRecovery \/ RecoverStart \/ RecoverStep
    <2>1. UNCHANGED github
      BY <1>2 DEF UpgradeBroker, PlanRecovery, RecoverStart, RecoverStep, RecoverCheck,
                  RecoverRead, RecoverReread, RecoverProof, RecoverSwitch, StageObserve,
                  LocalOnly, vars
    <2>2. pc' = "createDraft" => pc = "createDraft"
      BY <1>2 DEF UpgradeBroker, PlanRecovery, RecoverStart, RecoverStep, RecoverCheck,
                  RecoverRead, RecoverReread, RecoverProof, RecoverSwitch, StageObserve,
                  GotoOrLeave, Goto, Leave, Replace, vars, run
    <2>3. QED
      BY <2>1, <2>2 DEF OneDraftInv, AtMostOne, DraftMissing, github
  <1>3. QED
    BY <1>1, <1>2 DEF RecoveryNext, recoveryVars

\* The same with the two commands of broker_recovery.rs: neither the change of
\* broker nor a resumed staging leads to a second draft.
THEOREM RecoveryKeepsOneDraft ==
    ASSUME ~MayDelay
    PROVE  RecoverySpec => []OneDraft
  <1>1. RecoveryInit => RecoveryInv /\ OneDraftInv
    BY InitRecovery, InitOneDraft DEF RecoveryInit
  <1>2. RecoveryInv /\ OneDraftInv /\ [RecoveryNext]_recoveryVars => (RecoveryInv /\ OneDraftInv)'
    BY StepRecovery, RecoveryOneDraft
  <1>3. QED
    BY <1>1, <1>2, OneDraftFollows, PTL DEF RecoverySpec
=============================================================================
