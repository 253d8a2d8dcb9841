---------------------------- MODULE SignedTransfer ----------------------------
(***************************************************************************)
(* From catalog-sign to catalog-publish: the signer's output with its      *)
(* reverse manifest and attestation (isolation.rs), and stage-local's      *)
(* verification of it (verify_transferred_signed_bundle in local.rs),      *)
(* which has its own list of what the sandbox must have been.  The reverse *)
(* manifest is not signed.  Meanwhile the owner, who has another signed    *)
(* release at hand, may change files of the one directory for the other's. *)
(***************************************************************************)
EXTENDS SignerAdmission

CONSTANT MaxMixes   \* bound: changes of the output

ASSUME TransferAssumption == MaxMixes \in Nat

VARIABLES
    output,    \* the two signed transfers, and each file's inode and whose text it has
    binding,   \* whether the signer's recovery binding is still beside the output
    mixes,
    publisher  \* stage-local: its step, the keys its build knows, the inodes
               \* and digests it took, and the catalog it parsed

handoffVars == <<output, binding, mixes, publisher>>

Assets == {"catalog", "release", "qualification", "asset"}
OutputFiles == Assets \cup {"checksums", "transfer"}

-----------------------------------------------------------------------------
(* What the signer leaves                                                  *)

\* The denials that were tried are those before the signer's own filter.
Attestation(m, sandbox, input) ==
    [mode |-> m, original |-> IF m = "recover-sign" THEN "sign" ELSE m, input |-> input,
     names |-> sandbox.names, mounts |-> sandbox.mounts, prefilter |-> sandbox.filter \ {"exec"},
     coreLimit |-> sandbox.coreLimit]

\* Every file by its name, the reverse manifest over all others.
Output(bundle, attestation) ==
    LET files  == SignedFiles(bundle)
        listed == [f \in Assets \cup {"checksums"} |-> IF f = "checksums" THEN files ELSE files[f]]
    IN  [f \in OutputFiles |-> IF f = "transfer"
                               THEN [attestation |-> attestation, input |-> attestation.input,
                                     entries |-> listed]
                               ELSE listed[f]]

\* The other release was signed before, from its own transfer.
OtherOutput ==
    LET t == prepared[2]
        bundle == SignedBundle(Candidate(t.source.release, t.qualification, t.inputs, t.bytes, TRUE),
                               "active")
    IN  Output(bundle, Attestation("sign", Sealed(Established("sign")), ManifestOf(t)))

HandoffInit ==
    /\ Init
    /\ output = [made |-> << >>, files |-> << >>] /\ binding = FALSE /\ mixes = 0
    /\ publisher = [pc |-> "idle"]

Emitted == output.made # << >>

\* emit_reverse_transfer_manifest, by sign itself or by recover-sign after it.
Emit(m) ==
    LET sandbox == IF m = "sign" THEN box ELSE Sealed(Established(m))
    IN  /\ pc = "done" /\ signed # Absent /\ ~Emitted
        /\ output' = [made  |-> <<Output(signed, Attestation(m, sandbox, attested)), OtherOutput>>,
                      files |-> [f \in OutputFiles |-> [inode |-> 1, text |-> 1]]]
        /\ binding' = TRUE
        /\ UNCHANGED <<mixes, publisher>>

DropBinding ==
    /\ binding
    /\ binding' = FALSE
    /\ UNCHANGED <<output, mixes, publisher>>

Running == publisher.pc \in {"idle", "hashed", "read"}

\* The owner: one file, all but one, or all are rewritten in place, or replaced.
MixedFiles == {OutputFiles} \cup UNION {{{f}, OutputFiles \ {f}} : f \in OutputFiles}
Mix(fs, inode) ==
    /\ Emitted /\ mixes < MaxMixes /\ Running
    /\ \A f \in fs : output.files[f].text = 1
    /\ output' = [output EXCEPT !.files =
                     [f \in OutputFiles |-> IF f \in fs THEN [inode |-> inode, text |-> 2] ELSE @[f]]]
    /\ mixes' = mixes + 1
    /\ UNCHANGED <<binding, publisher>>

-----------------------------------------------------------------------------
(* stage-local                                                             *)

ExpectedBase == {"/", "/bin/catalog-sign", "/dev", "/input", "/output", "/proc", "/tmp"}

\* recover-sign runs without the key.
ExpectedAttestedMounts(m) == IF m = "sign" THEN ExpectedBase \cup {"/key"} ELSE ExpectedBase

ValidateAttestation(attestation, input) ==
    /\ attestation.original = "sign" /\ attestation.mode \in {"sign", "recover-sign"}
    /\ attestation.input = input
    /\ attestation.prefilter = {"network", "io_uring", "process", "namespace", "mount"}
    /\ attestation.coreLimit = 0
    /\ attestation.mounts = ExpectedAttestedMounts(attestation.mode)
    /\ attestation.names = {"MODE", "INPUT_SHA256", "CONFIG_SHA256", "SIGNER_SHA256", "ISOLATION",
                            "EUID", "EGID", "HOST_NS", "HOME", "PATH", "LANG", "TZ", "PWD"}

Text(f) == output.made[output.files[f].text][f]

\* The manifest is parsed and every file it lists is opened and hashed.
Hashed ==
    /\ ~binding
    /\ ValidateAttestation(Text("transfer").attestation, Text("transfer").input)
    /\ \A f \in OutputFiles \ {"transfer"} : Text(f) = Text("transfer").entries[f]

HashFiles(trusted) ==
    /\ Emitted /\ publisher.pc = "idle"
    /\ publisher' = [pc      |-> IF Hashed THEN "hashed" ELSE "refused",
                     trusted |-> trusted, bound |-> binding,
                     inodes  |-> [f \in OutputFiles |-> output.files[f].inode],
                     hashed  |-> [f \in OutputFiles |-> Text(f)],
                     payload |-> Absent]
    /\ UNCHANGED <<output, binding, mixes>>

\* Through the descriptor: a file replaced since keeps its text.
Reread(f) ==
    IF output.files[f].inode = publisher.inodes[f] THEN Text(f) ELSE publisher.hashed[f]

SignaturesHold ==
    /\ VerifySignature(Reread("catalog"), publisher.trusted)
    /\ VerifySignature(Reread("release"), publisher.trusted)

\* verify_release_bindings.
BindingsHold ==
    /\ VerifyReleaseInventory(publisher.hashed, Reread("release"))
    /\ Reread("checksums") = [f \in Assets |-> publisher.hashed[f]]

\* verify_installer_support.
SupportHolds ==
    LET catalog == Reread("catalog")
    IN  /\ VerifyReleaseAssets(catalog, Reread("release"))
        /\ catalog.names # Absent =>
              /\ publisher.hashed["qualification"] = catalog.names
              /\ VerifyPiReleaseQualification([release |-> catalog.payload], Reread("qualification"))

ReadDocuments ==
    /\ publisher.pc = "hashed"
    /\ publisher' = IF SignaturesHold /\ BindingsHold /\ SupportHolds
                    THEN [publisher EXCEPT !.pc = "read", !.payload = Reread("catalog").payload]
                    ELSE [publisher EXCEPT !.pc = "refused"]
    /\ UNCHANGED <<output, binding, mixes>>

\* A slip: the names still lead to the files that were opened.
SameInode(f) == output.files[f].inode = publisher.inodes[f]

\* verify_retained of the publisher.
SameFile(f) == output.files[f].inode = publisher.inodes[f] /\ Text(f) = publisher.hashed[f]

ReverifyFiles ==
    /\ publisher.pc = "read"
    /\ publisher' = [publisher EXCEPT !.pc = IF \A f \in OutputFiles : SameFile(f)
                                             THEN "admitted" ELSE "refused"]
    /\ UNCHANGED <<output, binding, mixes>>

Handoff ==
    \/ \E m \in {"sign", "recover-sign"} : Emit(m)
    \/ DropBinding
    \/ \E fs \in MixedFiles, inode \in {1, 2} : Mix(fs, inode)
    \/ \E trusted \in {{}, {"active"}} : HashFiles(trusted)
    \/ ReadDocuments \/ ReverifyFiles

HandoffNext ==
    \/ Next /\ UNCHANGED handoffVars
    \/ Handoff /\ UNCHANGED vars

HandoffSpec == HandoffInit /\ [][HandoffNext]_<<vars, handoffVars>>

-----------------------------------------------------------------------------
(* Properties                                                              *)

\* What stage-local admits is one signed release whole, whichever files were
\* changed for another's and when: every file it will store is of that one,
\* as is the catalog it parsed; it was signed from the transfer the reverse
\* manifest names; and its qualification passed on it.
AdmittedIsSigned ==
    publisher.pc = "admitted" =>
        \E made \in {output.made[1], output.made[2]} :
            /\ publisher.hashed = made
            /\ publisher.payload = made["catalog"].payload
            /\ made["transfer"].input.source.release = publisher.payload
            /\ made["qualification"].passed /\ made["qualification"].release = publisher.payload

\* Nothing is refused without a cause.  Three programs list the same sandbox,
\* of its names, mounts and filters: the launcher that builds it, the signer
\* that requires it, and stage-local, which reads its attestation.
RefusedForCause ==
    /\ Rejected => CauseToReject
    /\ publisher.pc = "refused" => mixes > 0 \/ publisher.bound \/ publisher.trusted = {}
===============================================================================
