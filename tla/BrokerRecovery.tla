----------------------------- MODULE BrokerRecovery -----------------------------
(***************************************************************************)
(* The broker repair transition (catalog-publish/src/broker_recovery.rs):  *)
(* an uncertain operation keeps its tag, draft and uploaded assets while   *)
(* it adopts the identity of a repaired broker.  plan-broker-recovery is   *)
(* offline; recover-broker reads GitHub and never changes it.  This module *)
(* adds the two commands, and the owner's change of broker, to the         *)
(* commands of RemoteWorkflow, whose steps consult the certificate.        *)
(***************************************************************************)
EXTENDS RemoteWorkflow

CONSTANT MaxUpgrades   \* bound: changes of the broker configuration

VARIABLES
    plan,      \* the reviewed plan file, approved by its digest
    upgrades   \* changes of the broker configuration so far

recoveryVars == <<vars, plan, upgrades>>

RecoveryInit == Init /\ plan = NoRecord /\ upgrades = 0

\* The owner points the configuration at another broker.
UpgradeBroker ==
    /\ pc = "idle"
    /\ upgrades < MaxUpgrades /\ upgrades' = upgrades + 1
    /\ pins' \in Pins \ {pins}
    /\ UNCHANGED <<records, github, run, budget, plan>>

-----------------------------------------------------------------------------
\* Only the outer client configuration and the broker executable may change,
\* and both must.
RepairedPins(old, new) ==
    /\ new.publisher = old.publisher
    /\ new.client # old.client
    /\ new.executable # old.executable

Replacement(prior) ==
    [prior EXCEPT !.operation = pins, !.broker_recovery_required = TRUE]

ValidatePlan(p) ==
    /\ ValidateOperation(p.prior)
    /\ ~p.prior.broker_recovery_required
    /\ p.prior.observed_remote_assets = << >>
    /\ p.prior.phase = "uncertain"
    /\ p.retained.release_id # None
    /\ p.prior.release_id = p.retained.release_id
    /\ Len(p.retained.assets) \in 1..(AssetCount - 1)
    /\ Len(p.retained.assets) >= p.prior.verified_assets
    /\ IsInjective(p.retained.assets)
    /\ RepairedPins(p.prior.operation, p.replacement.operation)
    /\ p.replacement = [p.prior EXCEPT !.operation = p.replacement.operation,
                                       !.broker_recovery_required = TRUE]

RequirePreReceipt ==
    /\ receipt = NoRecord /\ approval = NoRecord
    /\ publication = NoRecord /\ latest = NoRecord

\* The owner writes down the draft as observed; plan-broker-recovery checks it
\* against the record and prints the plan.
PlanRecovery ==
    /\ pc = "idle"
    /\ RequirePreReceipt
    /\ certificate = NoRecord /\ temp = NoRecord /\ main # NoRecord
    /\ \E id \in DraftRead :
          LET observed == releases[id].assets
              drafted  == [ prior       |-> main,
                            replacement |-> Replacement(main),
                            retained    |-> [release_id |-> id, assets |-> Ids(observed)] ]
          IN  /\ RequireAssetPrefix(observed)
              /\ ValidatePlan(drafted)
              /\ plan' = drafted
    /\ UNCHANGED <<vars, upgrades>>

-----------------------------------------------------------------------------
(* recover-broker                                                          *)

RecoverStart ==
    /\ pc = "idle" /\ plan # NoRecord
    /\ cmd' = "recover" /\ pc' = "recoverCheck"
    /\ UNCHANGED <<index, release, before, receipts, records, pins, github,
                   budget, plan, upgrades>>

\* The records are the planned ones, at one of the transition's own stages.
Resumable ==
    /\ RequirePreReceipt
    /\ certificate \in {NoRecord, plan}
    /\ main \in {plan.prior, plan.replacement}
    /\ main = plan.replacement => certificate = plan
    /\ temp \in {NoRecord, plan.replacement}
    /\ temp # NoRecord => certificate = plan /\ main = plan.prior

LocalOnly == UNCHANGED <<receipt, approval, publication, latest, pins, github,
                         edits, plan, upgrades>>

RecoverCheck ==
    /\ pc = "recoverCheck"
    /\ GotoOrLeave(Resumable /\ pins = plan.replacement.operation, "recoverRead")
    /\ UNCHANGED <<main, temp, certificate, faults>> /\ LocalOnly

\* check_remote_baseline: tag, draft and downloads, then tag and draft again.
Baseline(id) ==
    /\ tag = "exact"
    /\ RequireRelease(id, plan.retained.release_id, TRUE)
    /\ RequireCompleteAssets(releases[id].assets, plan.retained.assets)

RecoverRead ==
    /\ pc = "recoverRead"
    /\ GotoOrLeave(\E id \in DraftRead :
                      /\ Baseline(id)
                      /\ RedownloadReceiptAssets(releases[id].assets, plan.retained.assets),
                   "recoverReread")
    /\ UNCHANGED <<main, temp, certificate, faults>> /\ LocalOnly

RecoverReread ==
    /\ pc = "recoverReread"
    /\ GotoOrLeave(\E id \in DraftRead : Baseline(id), "recoverProof")
    /\ UNCHANGED <<main, temp, certificate, faults>> /\ LocalOnly

\* The certificate is durable before the operation changes.
RecoverProof ==
    /\ pc = "recoverProof"
    /\ certificate' = WriteNoClobber(certificate, plan)
    /\ Goto("recoverSwitch")
    /\ UNCHANGED <<main, temp, faults>> /\ LocalOnly

RecoverSwitch ==
    /\ pc = "recoverSwitch"
    /\ IF temp # NoRecord
       THEN main' = temp /\ temp' = NoRecord /\ Leave /\ UNCHANGED faults
       ELSE Replace(plan.replacement, Leave)
    /\ UNCHANGED certificate /\ LocalOnly

\* observe_suffix: recovered staging records an asset's identifier before its
\* download.  What the plan retained and earlier attempts observed is only
\* compared.
StageObserve ==
    /\ pc = "observe"
    /\ LET retained == certificate.retained.assets
           known    == main.observed_remote_assets
           observed == Append(receipts, before[Name].id)
           next     == [main EXCEPT !.observed_remote_assets = observed]
       IN  IF Len(observed) <= Len(retained)
           THEN Goto("download") /\ UNCHANGED <<main, temp, faults>>
           ELSE IF Len(observed) <= Len(known)
           THEN /\ IF IsPrefix(observed, known) THEN Goto("download") ELSE Leave
                /\ UNCHANGED <<main, temp, faults>>
           ELSE IF /\ IsPrefix(retained, observed) /\ IsPrefix(known, observed)
                   /\ ValidateOperation(next) /\ SchemaAuthorizedNext(main, next)
           THEN Replace(next, Goto("download"))
           ELSE Leave /\ UNCHANGED <<main, temp, faults>>
    /\ UNCHANGED certificate /\ LocalOnly

-----------------------------------------------------------------------------
RecoverStep ==
    \/ RecoverCheck \/ RecoverRead \/ RecoverReread \/ RecoverProof \/ RecoverSwitch
    \/ StageObserve

RecoveryNext ==
    \/ Next /\ UNCHANGED <<plan, upgrades>>
    \/ UpgradeBroker \/ PlanRecovery \/ RecoverStart
    \/ RecoverStep

RecoverySpec == RecoveryInit /\ [][RecoveryNext]_recoveryVars

\* A started command keeps running; the owner keeps repeating the commands of
\* the runbook and, once approved, recover-broker.  Nothing is assumed of lost
\* or failed requests except that the budget bounds them.
RecoveryFairSpec ==
    /\ RecoverySpec
    /\ WF_recoveryVars((Progress /\ UNCHANGED <<plan, upgrades>>) \/ RecoverStep)
    /\ SF_recoveryVars(RecoverStart)
    /\ \A command \in Runbook :
          SF_recoveryVars(Start(command) /\ UNCHANGED <<plan, upgrades>>)

-----------------------------------------------------------------------------
(* Properties                                                              *)

\* The switch of authority: until it is complete no command changes GitHub,
\* and afterwards none creates a tag or a draft, or acts for the old broker.
RecoveryGatesMutation ==
    certificate # NoRecord =>
       /\ pc \notin {"createTag", "createDraft"}
       /\ pc \in {"upload", "publishSend"} =>
             /\ main.operation = certificate.replacement.operation
             /\ pins = main.operation

\* Recovered staging uploads only what the plan did not retain and no earlier
\* attempt has observed: an asset that disappeared is never uploaded again.
RecoveredUploadsOnlySuffix ==
    certificate # NoRecord /\ pc = "upload" =>
       /\ Name > Len(certificate.retained.assets)
       /\ Name > Len(main.observed_remote_assets)

\* Once switched, the operation stays one that the ordinary commands accept as
\* a descendant of the certificate's replacement.
RecoveredStaysCurrent ==
    certificate # NoRecord /\ main # certificate.prior => ValidateCurrent(main)

\* A recovered operation that had verified an asset is published in the end,
\* unless the owner edits its draft.
RecoveredReleaseCompletes ==
    certificate # NoRecord /\ certificate.prior.verified_assets > 0
       ~> edits > 0 \/ latest # NoRecord
=============================================================================
