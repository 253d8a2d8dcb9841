----------------------------- MODULE SignedOutput -----------------------------
(***************************************************************************)
(* catalog-sign: the output directory of one signing ceremony.  `sign'     *)
(* creates it, binds it to its input, stages the signed files beside the   *)
(* final name, renames them into place, removes the empty stage, writes    *)
(* the reverse manifest and drops the binding; `recover-sign' finishes     *)
(* what was interrupted after the rename, without the key.  Every command  *)
(* is a launcher (bin/catalog-sign-launcher.rs) and the isolated signer it *)
(* starts (main.rs, signing.rs, isolation.rs); commands may run at once,   *)
(* fail or be killed anywhere, and the power may fail.                     *)
(***************************************************************************)
EXTENDS Integers, Sequences, SequencesExt, FiniteSets

CONSTANTS
    Procs,       \* processes that run commands, one at a time each
    Inputs,      \* verified transfers, each named by its manifest's digest
    BundleFiles, \* number of files of a signed bundle
    NoFile,      \* no such file
    MaxFaults,   \* bound: errors and kills
    MaxOutages   \* bound: losses of power

ASSUME OutputAssumption ==
    /\ BundleFiles \in Nat \ {0} /\ MaxFaults \in Nat /\ MaxOutages \in Nat
    /\ NoFile \notin Inputs

VARIABLES
    journal,   \* versions of the output directory since its last fsync; the
               \* last is what programs see, any may survive a loss of power
    payload,   \* the directory of signed files, wherever it is named: for
               \* which input, how many files it has, how many are durable
    proc,      \* the command each process runs
    faults, outages

outputVars == <<journal, payload, proc, faults, outages>>

Exists == journal # << >>
Dir    == Last(journal)
Visible == Exists /\ Dir.final
Change(dir) == journal' = Append(journal, dir)
Fsync(dir)  == journal' = <<dir>>

\* sign-recovery-binding-v1.json: its mode, its input, and the stage it names.
Binding(mode, text, input) == [mode |-> mode, text |-> text, input |-> input]
Legible(binding) == binding # NoFile /\ binding.text # "torn"

EmptyDir == [final |-> FALSE, stage |-> "none", binding |-> NoFile, manifest |-> NoFile]

Idle == [pc |-> "idle", mode |-> "sign", input |-> NoFile, todo |-> << >>, want |-> NoFile,
         next |-> "idle", uncertain |-> FALSE, unbind |-> FALSE]

OutputInit ==
    /\ journal = << >>
    /\ payload = [input |-> NoFile, files |-> 0, durable |-> 0]
    /\ proc = [p \in Procs |-> Idle]
    /\ faults = 0 /\ outages = 0

At(p, step)      == proc[p].pc = step
Proceed(p, step) == proc' = [proc EXCEPT ![p].pc = step]
Uncertain(p)     == proc' = [proc EXCEPT ![p].pc = "uncertain", ![p].uncertain = TRUE]
Refuse(p)        == proc' = [proc EXCEPT ![p].pc = "rejected"]
Leave(p)         == proc' = [proc EXCEPT ![p] = Idle]
Quiet            == UNCHANGED <<payload, faults, outages>>

-----------------------------------------------------------------------------
(* The launcher                                                            *)

\* create_fresh_output: the name must be new.
LaunchSign(p, input) ==
    /\ At(p, "idle") /\ ~Exists
    /\ Fsync(EmptyDir)
    /\ proc' = [proc EXCEPT ![p] = [Idle EXCEPT !.pc = "bind", !.input = input]]
    /\ Quiet

BindCreate(p) ==
    /\ At(p, "bind")
    /\ Dir.binding = NoFile
    /\ Change([Dir EXCEPT !.binding = Binding("0600", "torn", proc[p].input)])
    /\ Proceed(p, "bindsync")
    /\ Quiet

BindSync(p) ==
    /\ At(p, "bindsync")
    /\ Fsync([Dir EXCEPT !.binding = Binding("0600", "unbound", proc[p].input)])
    /\ Proceed(p, "container")
    /\ Quiet

\* verify_recovery_binding: without a binding the manifest takes its place.
Recoverable(input) ==
    IF Dir.binding # NoFile
    THEN Dir.binding.text \in {"bound", "authorized"} /\ Dir.binding.input = input
    ELSE Dir.manifest # NoFile /\ Dir.manifest.input = input

LaunchRecover(p, input) ==
    /\ At(p, "idle") /\ Exists
    /\ Recoverable(input)
    /\ proc' = [proc EXCEPT ![p] = [Idle EXCEPT !.pc = "recover", !.mode = "recover-sign",
                                                !.input = input]]
    /\ UNCHANGED journal /\ Quiet

\* settle_previsibility_recovery_binding: only a binding that is all there is.
SoleBinding(dir) == dir.binding # NoFile /\ [dir EXCEPT !.binding = NoFile] = EmptyDir

SignerRejected(p) ==
    /\ At(p, "rejected")
    /\ IF proc[p].mode = "sign" /\ SoleBinding(Dir)
       THEN Change([Dir EXCEPT !.binding = NoFile]) /\ Proceed(p, "settled")
       ELSE UNCHANGED journal /\ Leave(p)
    /\ Quiet

RejectedSync(p) ==
    /\ At(p, "settled")
    /\ Fsync(Dir) /\ Leave(p) /\ Quiet

\* The signer exited with success: is the sealed manifest there?
Launched(p) ==
    /\ At(p, "done")
    /\ Leave(p)
    /\ UNCHANGED <<journal, payload, faults, outages>>

-----------------------------------------------------------------------------
(* The binding, rewritten in place                                         *)

\* rewrite_recovery_binding truncates, writes, changes the mode, syncs.
RewriteBinding(p, text, mode, next) ==
    proc' = [proc EXCEPT ![p].pc = "rewrite", ![p].next = next,
             ![p].want = Binding(mode, text, Dir.binding.input),
             ![p].todo = << Binding("0600", "torn", Dir.binding.input),
                            Binding("0600", text, Dir.binding.input),
                            Binding(mode, text, Dir.binding.input) >>]

\* What is written to a file that another command has unlinked is lost.
RewriteStep(p) ==
    /\ At(p, "rewrite")
    /\ Dir.binding # NoFile /\ Change([Dir EXCEPT !.binding = Head(proc[p].todo)])
    /\ proc' = [proc EXCEPT ![p].todo = Tail(@),
                            ![p].pc = IF Len(proc[p].todo) = 1 THEN "resync" ELSE @]
    /\ Quiet

RewriteLost(p) ==
    /\ At(p, "rewrite") /\ Dir.binding = NoFile
    /\ Refuse(p) /\ UNCHANGED journal /\ Quiet

RewriteSync(p) ==
    /\ At(p, "resync")
    /\ IF Dir.binding = proc[p].want
       THEN Fsync(Dir) /\ Proceed(p, proc[p].next)
       ELSE UNCHANGED journal /\ Refuse(p)
    /\ Quiet

\* authorize_recovery_stage_cleanup, unless that was done before.
AuthorizeCleanup(p, next) ==
    IF Dir.binding.text = "authorized" THEN Proceed(p, next)
    ELSE IF Dir.binding.mode = "0600" THEN RewriteBinding(p, "authorized", "0400", next)
    ELSE Refuse(p)

-----------------------------------------------------------------------------
(* sign: the stage                                                         *)

\* create_staging_container, then the payload directory inside.
MakeContainer(p) ==
    /\ At(p, "container")
    /\ Fsync([Dir EXCEPT !.stage = "empty"])
    /\ Proceed(p, "payload")
    /\ Quiet

\* bind_recovery_stage: nothing is bound before.
Unbound(p) == Dir.binding = Binding("0600", "unbound", proc[p].input)

MakePayload(p) ==
    /\ At(p, "payload")
    /\ Fsync([Dir EXCEPT !.stage = "payload"])
    /\ payload' = [input |-> proc[p].input, files |-> 0, durable |-> 0]
    /\ IF Unbound(p) THEN RewriteBinding(p, "bound", "0600", "write") ELSE Refuse(p)
    /\ UNCHANGED <<faults, outages>>

WriteFile(p) ==
    /\ At(p, "write")
    /\ payload.files < BundleFiles
    /\ payload' = [payload EXCEPT !.files = @ + 1]
    /\ UNCHANGED <<journal, proc, faults, outages>>

Complete == payload.files = BundleFiles

\* A slip: the names of the files are not made durable.
VerifyNamesOnly(p) ==
    /\ At(p, "write") /\ Complete
    /\ Proceed(p, "publish")
    /\ UNCHANGED <<journal, payload, faults, outages>>

\* verify_files and verify_signed_bytes: all of them, durable, before the rename.
VerifyFiles(p) ==
    /\ At(p, "write") /\ Complete
    /\ payload' = [payload EXCEPT !.durable = payload.files]
    /\ Proceed(p, "publish")
    /\ UNCHANGED <<journal, faults, outages>>

Publish(p) ==
    /\ At(p, "publish")
    /\ IF ~Dir.final /\ Dir.stage = "payload"
       THEN Change([Dir EXCEPT !.final = TRUE, !.stage = "empty"]) /\ Proceed(p, "visible")
       ELSE UNCHANGED journal /\ Refuse(p)
    /\ Quiet

\* The fsync of the parent may fail: the cleanup goes on, the outcome is uncertain.
PublishSync(p) ==
    /\ At(p, "visible")
    /\ \/ Fsync(Dir) /\ Proceed(p, "reopen") /\ UNCHANGED faults
       \/ /\ faults < MaxFaults /\ faults' = faults + 1
          /\ proc' = [proc EXCEPT ![p].pc = "reopen", ![p].uncertain = TRUE]
          /\ UNCHANGED journal
    /\ UNCHANGED <<payload, outages>>

\* reopen_signed_output, then settle_verified_staging: anything unexpected
\* about the stage is uncertainty.
Reopen(p) ==
    /\ At(p, "reopen")
    /\ IF ~(Dir.final /\ Complete) \/ ~Legible(Dir.binding) THEN Refuse(p)
       ELSE IF Dir.stage # "empty" THEN Uncertain(p)
       ELSE AuthorizeCleanup(p, "rmdir")
    /\ UNCHANGED journal /\ Quiet

-----------------------------------------------------------------------------
(* recover-sign, and `sign' that found itself uncertain                    *)

\* recover_signed_output against the candidate the input yields.
RecoverVerifies(input) == Dir.final /\ Complete /\ payload.input = input

\* A slip: a stage whose removal was authorized, but not made, is refused.
SettleableStageOnce(binding) == binding.mode = "0600" /\ binding.text = "bound"

\* read_recovery_stage_binding: the mode says what the text says.
SettleableStage(binding) ==
    \/ binding.mode = "0400" /\ binding.text = "authorized"
    \/ binding.mode = "0600" /\ binding.text = "bound"

\* settle_bound_empty_staging: no binding is fine once the manifest is there;
\* a missing stage is not.
Recover(p) ==
    /\ p \in Procs /\ proc[p].pc \in {"recover", "uncertain"}
    /\ IF ~RecoverVerifies(proc[p].input) THEN Refuse(p)
       ELSE IF Dir.binding = NoFile
            THEN IF Dir.manifest # NoFile THEN Proceed(p, "emit") ELSE Refuse(p)
       ELSE IF ~SettleableStage(Dir.binding) \/ Dir.stage # "empty" THEN Refuse(p)
       ELSE AuthorizeCleanup(p, IF At(p, "uncertain") THEN "rmdir2" ELSE "rmdir")
    /\ UNCHANGED journal /\ Quiet

\* unlinkat(AT_REMOVEDIR) of the stage; `sign' may still fall back to the
\* recovery, once.
RemoveStage(p) ==
    /\ p \in Procs /\ proc[p].pc \in {"rmdir", "rmdir2"}
    /\ IF Dir.stage = "empty"
       THEN /\ Change([Dir EXCEPT !.stage = "none"])
            /\ Proceed(p, IF At(p, "rmdir") THEN "rmsync" ELSE "rmsync2")
       ELSE /\ UNCHANGED journal
            /\ IF At(p, "rmdir") /\ proc[p].mode = "sign" THEN Uncertain(p) ELSE Refuse(p)
    /\ Quiet

RemoveSync(p) ==
    /\ p \in Procs /\ proc[p].pc \in {"rmsync", "rmsync2"}
    /\ \/ /\ Fsync(Dir) /\ UNCHANGED faults
          /\ IF At(p, "rmsync") /\ proc[p].uncertain THEN Uncertain(p) ELSE Proceed(p, "emit")
       \/ /\ faults < MaxFaults /\ faults' = faults + 1 /\ UNCHANGED journal
          /\ IF At(p, "rmsync") /\ proc[p].mode = "sign" THEN Uncertain(p) ELSE Refuse(p)
    /\ UNCHANGED <<payload, outages>>

-----------------------------------------------------------------------------
(* emit_reverse_transfer_manifest                                          *)

\* verify_existing_reverse_manifest: of this input, and of this command's kind.
ManifestAccepted(p) ==
    /\ Dir.manifest.input = proc[p].input
    /\ Dir.manifest.mode = "sign" \/ proc[p].mode = "recover-sign"

\* The names are read once: bundle, manifest, binding, nothing else.
EmitManifest(p) ==
    /\ At(p, "emit")
    /\ IF \/ ~Dir.final \/ Dir.stage # "none"
          \/ Dir.binding = NoFile /\ Dir.manifest = NoFile
          \/ Dir.manifest # NoFile /\ ~ManifestAccepted(p)
       THEN Refuse(p)
       ELSE proc' = [proc EXCEPT
              ![p].unbind = Dir.binding # NoFile,
              ![p].pc = IF Dir.manifest = NoFile THEN "link"
                        ELSE IF Dir.binding # NoFile THEN "unbind" ELSE "outsync"]
    /\ UNCHANGED journal /\ Quiet

\* write_fresh_public_file: complete and synced before it has its name; one
\* that appeared meanwhile is of another isolation and never exactly this one.
Link(p) ==
    /\ At(p, "link")
    /\ IF Dir.manifest = NoFile
       THEN /\ Change([Dir EXCEPT !.manifest = [mode |-> proc[p].mode, input |-> proc[p].input]])
            /\ Proceed(p, "linksync")
       ELSE UNCHANGED journal /\ Refuse(p)
    /\ Quiet

LinkSync(p) ==
    /\ At(p, "linksync")
    /\ Fsync(Dir)
    /\ Proceed(p, IF proc[p].unbind THEN "unbind" ELSE "outsync")
    /\ Quiet

\* settle_recovery_binding: sealed, authorized, of this input.
Unbind(p) ==
    /\ At(p, "unbind")
    /\ IF Dir.binding = Binding("0400", "authorized", proc[p].input)
       THEN Change([Dir EXCEPT !.binding = NoFile]) /\ Proceed(p, "outsync")
       ELSE UNCHANGED journal /\ Refuse(p)
    /\ Quiet

\* main: a recovered uncertainty still ends in failure.
OutputSync(p) ==
    /\ At(p, "outsync")
    /\ Fsync(Dir)
    /\ IF proc[p].uncertain THEN Refuse(p) ELSE Proceed(p, "done")
    /\ Quiet

-----------------------------------------------------------------------------
(* Failures                                                                *)

Step(p) ==
    \/ BindCreate(p) \/ BindSync(p) \/ SignerRejected(p) \/ RejectedSync(p) \/ Launched(p)
    \/ RewriteStep(p) \/ RewriteLost(p) \/ RewriteSync(p)
    \/ MakeContainer(p) \/ MakePayload(p) \/ WriteFile(p) \/ VerifyFiles(p)
    \/ Publish(p) \/ PublishSync(p) \/ Reopen(p)
    \/ Recover(p) \/ RemoveStage(p) \/ RemoveSync(p)
    \/ EmitManifest(p) \/ Link(p) \/ LinkSync(p) \/ Unbind(p) \/ OutputSync(p)

\* A step fails, or the isolated signer is killed: the launcher sees failure.
Fail(p) ==
    /\ proc[p].pc \notin {"idle", "rejected", "settled", "done"}
    /\ faults < MaxFaults /\ faults' = faults + 1
    /\ IF At(p, "bind") \/ At(p, "bindsync") THEN Leave(p) ELSE Refuse(p)
    /\ UNCHANGED <<journal, payload, outages>>

Kill(p) ==
    /\ ~At(p, "idle")
    /\ faults < MaxFaults /\ faults' = faults + 1
    /\ Leave(p)
    /\ UNCHANGED <<journal, payload, outages>>

PowerLoss ==
    /\ Exists
    /\ outages < MaxOutages /\ outages' = outages + 1
    /\ \E dir \in ToSet(journal) : Fsync(dir)
    /\ \E files \in payload.durable..payload.files : payload' = [payload EXCEPT !.files = files]
    /\ proc' = [p \in Procs |-> Idle]
    /\ UNCHANGED <<faults>>

OutputNext ==
    \/ \E p \in Procs :
         \/ \E input \in Inputs : LaunchSign(p, input) \/ LaunchRecover(p, input)
         \/ Step(p) \/ Fail(p) \/ Kill(p)
    \/ PowerLoss

OutputSpec == OutputInit /\ [][OutputNext]_outputVars

\* A started command goes on, and the owner repeats recover-sign.
FairOutputSpec ==
    OutputSpec /\ \A p \in Procs :
              /\ WF_outputVars(Step(p))
              /\ SF_outputVars(\E input \in Inputs : LaunchRecover(p, input))

-----------------------------------------------------------------------------
(* Properties                                                              *)

\* The bundle under its final name is complete and of the input the directory
\* was bound to, in whichever version of the directory a loss of power leaves
\* and however many of the files' names survive it.
VisibleIsComplete ==
    \A dir \in ToSet(journal) : dir.final =>
       /\ payload.durable = BundleFiles
       /\ dir.binding # NoFile => dir.binding.input = payload.input

\* Nothing is being written, and what was left is one of the states the design refuses to
\* settle: the binding torn by a kill inside its rewriting, or the stage gone
\* before the manifest was linked.
FailedClosed ==
    /\ \A p \in Procs : proc[p].pc \in {"idle", "recover", "rejected"}
    /\ Exists /\ Dir.manifest = NoFile
    /\ \/ Dir.stage = "none"
       \/ \A input \in Inputs : Dir.binding \notin {Binding("0600", "bound", input),
                                                 Binding("0400", "authorized", input)}

\* A visible bundle whose binding is intact and whose stage is still there is
\* completed by repeating recover-sign; it takes a kill inside the rewriting or
\* between the removal of the stage and the manifest to prevent it.
InterruptedIsRecovered ==
    Visible ~> ~Visible \/ Dir.manifest # NoFile \/ FailedClosed
=============================================================================
