--------------------------- MODULE OperationRecord ---------------------------
(***************************************************************************)
(* The remote operation record: the one mutable file of a release          *)
(* (latest/remote-operation-v1.json).  It says how far the draft on GitHub *)
(* is known to be, and it is only ever moved forward by update_operation.  *)
(* Everything here is a pure function of records; the modules that keep    *)
(* the record on disk and that drive GitHub use these definitions.         *)
(*                                                                         *)
(* Of the operation body only the broker identity can differ between two   *)
(* bodies of one local state, so `operation' is that identity, and the     *)
(* digest remote_operation_id, a function of the body, is left out.        *)
(* Identifiers issued by GitHub are positive numbers; None is Rust's None. *)
(* An observed asset is its identifier: name, size and digest are those of *)
(* the local asset at the same position, or the record is not valid.       *)
(***************************************************************************)
EXTENDS Integers, Sequences, SequencesExt

CONSTANTS
    AssetCount,   \* how many assets the signed inventory lists
    Pins          \* the broker identities an operation may be bound to

\* require_asset_inventory: never empty, at most 128 assets.
ASSUME AssetCountAssumption == AssetCount \in 1..128

None == 0

Phases == {"prepared", "tag_verified", "draft_bound", "uploading",
           "assets_verified", "uncertain"}

RemoteOperation ==
    [ operation                : Pins,
      release_id               : Nat,
      verified_assets          : 0..AssetCount,
      observed_remote_assets   : Seq(Nat \ {None}),
      broker_recovery_required : BOOLEAN,
      phase                    : Phases ]

\* The record stage-remote begins with.
InitialOperation(pins) ==
    [ operation                |-> pins,
      release_id               |-> None,
      verified_assets          |-> 0,
      observed_remote_assets   |-> << >>,
      broker_recovery_required |-> FALSE,
      phase                    |-> "prepared" ]

-----------------------------------------------------------------------------
\* What a phase says of the progress fields.
OperationPhaseShape(op) ==
    /\ op.phase \in {"prepared", "tag_verified"} =>
          op.release_id = None /\ op.verified_assets = 0
    /\ op.phase = "draft_bound" =>
          op.release_id # None /\ op.verified_assets = 0
    /\ op.phase = "uploading" =>
          op.release_id # None /\ op.verified_assets \in 1..AssetCount
    /\ op.phase = "assets_verified" =>
          op.release_id # None /\ op.verified_assets = AssetCount
    /\ op.phase = "uncertain" =>
          op.release_id # None \/ op.verified_assets = 0

ValidateOperation(op) ==
    /\ op.verified_assets <= AssetCount
    /\ OperationPhaseShape(op)
    /\ op.broker_recovery_required \/ op.observed_remote_assets = << >>
    /\ Len(op.observed_remote_assets) <= op.verified_assets + 1
    /\ Len(op.observed_remote_assets) <= AssetCount
    /\ IsInjective(op.observed_remote_assets)

-----------------------------------------------------------------------------
Rank == [ prepared |-> 0, tag_verified |-> 1, draft_bound |-> 2,
          uploading |-> 3, assets_verified |-> 4, uncertain |-> 5 ]

\* The phase an uncertain record returns to: what its progress still proves.
ResumedPhase(op, requested, verified) ==
    CASE verified > 0 /\ requested = "assets_verified" -> "assets_verified"
      [] verified > 0 /\ requested # "assets_verified" -> "uploading"
      [] verified = 0 /\ op.release_id # None ->
            IF requested \in {"draft_bound", "uploading", "assets_verified"}
            THEN "draft_bound" ELSE "uncertain"
      [] verified = 0 /\ op.release_id = None ->
            IF requested = "tag_verified" THEN "tag_verified" ELSE "uncertain"

MonotonicPhase(op, requested, verified) ==
    CASE requested = "uncertain" -> "uncertain"
      [] requested # "uncertain" /\ op.phase = "uncertain" ->
            ResumedPhase(op, requested, verified)
      [] requested # "uncertain" /\ op.phase # "uncertain" ->
            IF Rank[requested] < Rank[op.phase] THEN op.phase ELSE requested

Larger(m, n) == IF m < n THEN n ELSE m

\* A slip: the count is that of this run, even if it was higher before.
UpdateOperationRecounting(op, release, verified, requested) ==
    [op EXCEPT !.release_id = IF release # None THEN release ELSE @,
               !.verified_assets = verified,
               !.phase = MonotonicPhase(op, requested, verified)]

\* The record update_operation asks the store to write.
UpdateOperation(op, release, verified, requested) ==
    LET reached == Larger(op.verified_assets, verified)
    IN  [op EXCEPT !.release_id = IF release # None THEN release ELSE @,
                   !.verified_assets = reached,
                   !.phase = MonotonicPhase(op, requested, reached)]

MarkOperationUncertain(op) ==
    UpdateOperation(op, op.release_id, op.verified_assets, "uncertain")

-----------------------------------------------------------------------------
\* What may be different between two records one update apart.
SameOperation(current, next) ==
    /\ current.operation = next.operation
    /\ current.broker_recovery_required = next.broker_recovery_required
    /\ next.verified_assets \in current.verified_assets..(current.verified_assets + 1)
    /\ current.release_id # None => next.release_id = current.release_id
    /\ IsPrefix(current.observed_remote_assets, next.observed_remote_assets)

\* One more observed asset, nothing else: the checkpoint of a recovered upload.
ObservationStep(current, next) ==
    /\ current.phase = "uploading" /\ next.phase = "uploading"
    /\ next.verified_assets = current.verified_assets
    /\ next.observed_remote_assets # current.observed_remote_assets
    /\ Len(next.observed_remote_assets) = next.verified_assets + 1

UncertainStep(current, next) ==
    /\ next.phase = "uncertain"
    /\ next.release_id = current.release_id
    /\ next.verified_assets = current.verified_assets

\* A slip: what a resumed uncertain operation writes is not recognised.
PhaseStepForward(current, next) ==
    /\ next.phase # "uncertain" /\ current.phase # "uncertain"
    /\ next.verified_assets >= current.verified_assets
    /\ Rank[next.phase] >= Rank[current.phase]
    /\ OperationPhaseShape(next)

PhaseStep(current, next) ==
    /\ next.phase # "uncertain"
    /\ \/ /\ current.phase = "prepared" /\ next.phase = "tag_verified"
          /\ next.release_id = None /\ next.verified_assets = 0
       \/ /\ current.phase = "tag_verified" /\ next.phase = "draft_bound"
          /\ next.release_id # None /\ next.verified_assets = 0
       \/ /\ current.phase = "draft_bound" /\ next.phase = "uploading"
          /\ next.release_id = current.release_id /\ next.verified_assets = 1
       \/ /\ current.phase = "uploading" /\ next.phase = "uploading"
          /\ next.release_id = current.release_id
          /\ next.verified_assets = current.verified_assets + 1
       \/ /\ current.phase = "uploading" /\ next.phase = "assets_verified"
          /\ next.release_id = current.release_id
          /\ next.verified_assets = AssetCount
          /\ current.verified_assets = AssetCount
       \/ current.phase = "uncertain" /\ OperationPhaseShape(next)

\* Is `next' the record a single interrupted update of `current' left behind?
SchemaAuthorizedNext(current, next) ==
    /\ SameOperation(current, next)
    /\ \/ ObservationStep(current, next)
       \/ UncertainStep(current, next)
       \/ PhaseStep(current, next)

-----------------------------------------------------------------------------
(* What settle_pending_operation decides about a leftover temporary record *)
(* once both records are known to belong to this operation.                *)

SettleDecision(main, temporary, absent, bodyExpected) ==
    CASE temporary = absent -> "nothing"
      [] temporary # absent /\ main = absent ->
            IF temporary = InitialOperation(temporary.operation) /\ bodyExpected
            THEN "promote" ELSE "refuse"
      [] temporary # absent /\ main # absent ->
            IF main = temporary THEN "discard"
            ELSE IF SchemaAuthorizedNext(main, temporary) THEN "promote"
            ELSE IF SchemaAuthorizedNext(temporary, main) THEN "discard"
            ELSE "refuse"
=============================================================================
