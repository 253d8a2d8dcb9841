----------------------------- MODULE CatalogRules -----------------------------
(***************************************************************************)
(* The rules that bind the documents of one release to each other: what    *)
(* the producer's core (catalog-core) and the signer's finalization        *)
(* (catalog-sign/signing.rs) require before a catalog may be signed.  A    *)
(* document is a record of the facts other documents must agree with; a    *)
(* digest is the document it was taken of.  Pure operators, no state.      *)
(***************************************************************************)
EXTENDS Integers, FiniteSets

CONSTANTS
    Releases,        \* runtime semantics with the build they were qualified on
    Keyrings,        \* versions of the embedded signing keyring
    CurrentKeyring,  \* the one this build of the tools embeds
    Absent           \* a record the transfer does not have

ASSUME RulesAssumption ==
    /\ CurrentKeyring \in Keyrings
    /\ Absent \notin Releases
    /\ Absent \notin [schema : {1, 2}, release : Releases, keyring : Keyrings,
                     passed : BOOLEAN, late : BOOLEAN]

Schemas == {1, 2}   \* catalog v1 records, and the installer-lock records

\* CompatibilityQualificationV1 and PiReleaseQualificationV1: the release and
\* the keyring that were tested, whether every check passed, and whether the
\* owner approved after the release had expired (schema 1 only).
Qualification(schema, release, keyring, passed, late) ==
    [schema |-> schema, release |-> release, keyring |-> keyring,
     passed |-> passed, late |-> late]

\* CatalogSourceV1 and CatalogSourceV2: `names' is the qualification whose
\* digest the source carries.
CatalogSource(schema, release, names) ==
    [schema |-> schema, release |-> release, names |-> names]

\* verified-input.json, the inventory of a transfer.
Inventory(kind, source, compat, objects) ==
    [kind |-> kind, source |-> source, compat |-> compat, objects |-> objects]

\* The digest of what a qualification must have tested: the semantics and the
\* build, and for catalog v1 the keyring the consumer must trust.
CompatibilityInput(schema, release, keyring) ==
    IF schema = 1 THEN <<release, keyring>> ELSE <<release>>

IntentSemantic(release) == <<release, "intent">>

Objects(release) == {release} \X {"node", "package", "manifest", "lock"}

-----------------------------------------------------------------------------
(* Qualification                                                           *)

\* A slip: the digest in the source is taken for the whole binding.
VerifyNamedQualification(source, record) ==
    record.passed /\ record.keyring = CurrentKeyring /\ source.names = record

VerifyQualificationV1(source, record) ==
    /\ record.passed
    /\ record.release = source.release
    /\ record.keyring = CurrentKeyring
    /\ source.names = record

VerifyPiReleaseQualification(source, record) ==
    /\ record.release = source.release
    /\ record.passed

\* CatalogSourceV2::finalize: the bytes it names, the subject, the build.
FinalizePayload(source, record) ==
    /\ source.names = record
    /\ VerifyPiReleaseQualification(source, record)

-----------------------------------------------------------------------------
(* The graph of objects                                                    *)

\* parse_package_inputs, verify_complete_object_graph, and the replay of the
\* installer policy over the bytes: what was observed while fetching is what
\* the release declares, no object more or less.
VerifyObjectGraph(release, inputs, inventory, bytes) ==
    /\ inputs = release
    /\ inventory.objects = Objects(release)
    /\ bytes = release

-----------------------------------------------------------------------------
(* Candidates                                                              *)

\* UnsignedReleaseCandidateV1; only one with final bindings can be signed.
Candidate(release, qualification, inputs, bytes, commit) ==
    [release |-> release, qualification |-> qualification, inputs |-> inputs,
     bytes |-> bytes, commit |-> commit]

Signable(candidate) == candidate.qualification # Absent /\ candidate.commit

AssembleIntent(transfer) ==
    /\ transfer.inventory.kind = "release_intent" /\ ~transfer.commit
    /\ transfer.inventory.source = transfer.source
    /\ transfer.inventory.compat = IntentSemantic(transfer.source.release)
    /\ VerifyObjectGraph(transfer.source.release, transfer.inputs, transfer.inventory,
                         transfer.bytes)

FinalizeCandidateV1(transfer) ==
    LET source == transfer.source
        record == transfer.qualification
    IN /\ transfer.inventory.kind = "catalog_source"
       /\ VerifyQualificationV1(source, record)
       /\ transfer.inventory.source = source
       /\ transfer.inventory.compat = CompatibilityInput(1, source.release, CurrentKeyring)
       /\ ~record.late
       /\ transfer.commit
       /\ VerifyObjectGraph(source.release, transfer.inputs, transfer.inventory, transfer.bytes)

FinalizeInstaller(transfer) ==
    LET source == transfer.source
    IN /\ FinalizePayload(source, transfer.qualification)
       /\ transfer.inventory.kind = "catalog_source"
       /\ transfer.inventory.source = source
       /\ transfer.inventory.compat = CompatibilityInput(2, source.release, CurrentKeyring)
       /\ transfer.commit
       /\ VerifyObjectGraph(source.release, transfer.inputs, transfer.inventory, transfer.bytes)

FinalizeVersioned(transfer) ==
    IF transfer.source.schema = 2 THEN FinalizeInstaller(transfer)
                                  ELSE FinalizeCandidateV1(transfer)

\* validate_transfer_manifest and cross_bind_transfer: the roles follow from
\* the kind, and a commit is named exactly for a catalog source.
CrossBind(manifest, inventory) ==
    /\ (inventory.kind = "catalog_source") = manifest.commit
    /\ (inventory.kind = "catalog_source") = (manifest.qualification # Absent)
    /\ manifest.objects = inventory.objects

-----------------------------------------------------------------------------
(* The signed bundle                                                       *)

\* runtime-catalog-v1.json, release-manifest.json and the support assets.  An
\* envelope of schema 2 names the qualification.
Envelope(candidate, key) ==
    [payload |-> candidate.release, key |-> key,
     names |-> IF candidate.qualification.schema = 2 THEN candidate.qualification ELSE Absent]
SignedBundle(candidate, key) ==
    [envelope |-> Envelope(candidate, key),
     manifest |-> [envelope |-> Envelope(candidate, key),
                   qualification |-> candidate.qualification,
                   asset |-> candidate.bytes, key |-> key],
     assets   |-> [qualification |-> candidate.qualification, asset |-> candidate.bytes]]

\* verify_signed_catalog and verify_signed_release_bundle_manifest, by the keys
\* a build embeds.
VerifySignature(document, trusted) == document.key \in trusted

\* verify_signed_release_inventory: every file but the manifest and the
\* checksums is one the manifest announces.
VerifyReleaseInventory(files, manifest) ==
    /\ files.catalog = manifest.envelope
    /\ files.qualification = manifest.qualification
    /\ files.asset = manifest.asset

\* verify_pi_release_bundle_assets: the catalog's own pointer to its
\* qualification, in schema 2.
VerifyReleaseAssets(envelope, manifest) ==
    envelope.names # Absent => manifest.qualification = envelope.names

\* The files of a bundle by their names, which the checksums list.
SignedFiles(bundle) ==
    [catalog |-> bundle.envelope, release |-> bundle.manifest,
     qualification |-> bundle.assets.qualification, asset |-> bundle.assets.asset]

VerifySignedBytes(bundle, trusted) ==
    /\ VerifyReleaseInventory(SignedFiles(bundle), bundle.manifest)
    /\ VerifySignature(bundle.envelope, trusted)
    /\ VerifySignature(bundle.manifest, trusted)
===============================================================================
