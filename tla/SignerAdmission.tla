--------------------------- MODULE SignerAdmission ----------------------------
(***************************************************************************)
(* catalog-sign: from a transfer directory to a signed catalog.  The       *)
(* launcher (bin/catalog-sign-launcher.rs) verifies the transfer, opens    *)
(* the key, and starts the signer in a sandbox; the signer (isolation.rs,  *)
(* main.rs) verifies the sandbox and the transfer again, finalizes the     *)
(* candidate from the records it reads one by one (signing.rs), and only   *)
(* then reads the key and signs.  Meanwhile the owner may prepare the      *)
(* directory anew, file by file.                                           *)
(***************************************************************************)
EXTENDS CatalogRules, SignerSandbox, Sequences

CONSTANTS
    Ceremonies,   \* the commands tried, a subset of Modes
    MaxEdits      \* bound: changes of the directory during one ceremony

ASSUME AdmissionAssumption ==
    /\ Ceremonies \subseteq {"assemble-intent", "finalize", "sign", "inspect-key"}
    /\ MaxEdits \in Nat

VARIABLES
    prepared,   \* the two transfers the owner has prepared, the second later
    disk,       \* each file: its inode, and the transfer its name and text are of
    pc, at,     \* the step of the ceremony, and the file it is at
    mode,       \* the ceremony
    box,        \* the sandbox the signer runs in
    pass,       \* passes over the retained files since they were opened
    retained,   \* the inode each open descriptor refers to
    hashed,     \* the digest taken of the manifest: the manifest it was taken of
    manifest,   \* the manifest as parsed
    attested,   \* the digest the launcher hands to the signer
    read,       \* the records read for the candidate
    key,        \* the key file: whose it is, and whether it was read
    signed,     \* the signed bundle
    edits

vars == <<prepared, disk, pc, at, mode, box, pass, retained, hashed, manifest, attested,
          read, key, signed, edits>>

Records == <<"source", "qualification", "inputs", "bytes">>
Files   == Records \o <<"inventory", "manifest">>
FileNames == {Files[i] : i \in DOMAIN Files}

-----------------------------------------------------------------------------
(* Transfers                                                               *)

Defects == {"none", "wrong qualification", "unnamed qualification", "failed check",
            "late approval", "old keyring", "wrong inputs", "wrong bytes", "wrong source",
            "wrong compatibility", "missing object", "no commit", "intent"}

\* A transfer for `release' that is wrong in at most one place, where it
\* carries what belongs to the `other' release.
Transfer(schema, release, other, defect) ==
    LET is(d)  == defect = d
        about  == IF is("wrong qualification") THEN other ELSE release
        ring   == IF is("old keyring") THEN CHOOSE k \in Keyrings : k # CurrentKeyring
                                       ELSE CurrentKeyring
        record == Qualification(schema, about, ring, ~is("failed check"), is("late approval"))
        named  == IF is("unnamed qualification")
                  THEN Qualification(schema, other, ring, TRUE, FALSE) ELSE record
        source == CatalogSource(schema, release, IF is("intent") THEN Absent ELSE named)
        listed == IF is("wrong source") THEN CatalogSource(schema, other, named) ELSE source
        input  == IF is("wrong compatibility") THEN other ELSE release
    IN [source |-> source,
        qualification |-> IF is("intent") THEN Absent ELSE record,
        inputs |-> IF is("wrong inputs") THEN other ELSE release,
        bytes  |-> IF is("wrong bytes") THEN other ELSE release,
        inventory |->
            Inventory(IF is("intent") THEN "release_intent" ELSE "catalog_source", listed,
                      IF is("intent") THEN IntentSemantic(input)
                      ELSE CompatibilityInput(schema, input, ring),
                      Objects(release) \ (IF is("missing object")
                                          THEN {<<release, "lock">>} ELSE {})),
        commit |-> ~is("no commit") /\ ~is("intent"),
        defect |-> defect]

Sound(transfer) == transfer.defect \in {"none", "intent"}

\* transfer-manifest-v1.json: the digest of every other file, and the commit.
ManifestOf(transfer) ==
    [source |-> transfer.source, qualification |-> transfer.qualification,
     inputs |-> transfer.inputs, bytes |-> transfer.bytes, inventory |-> transfer.inventory,
     commit |-> transfer.commit, objects |-> transfer.inventory.objects]

Content(f, version) ==
    IF f = "manifest" THEN ManifestOf(prepared[version]) ELSE prepared[version][f]

-----------------------------------------------------------------------------
Rejected == pc = "rejected"

Init ==
    /\ \E schema \in Schemas, r \in Releases, d \in Defects :
         /\ r = CHOOSE x \in Releases : TRUE
         /\ \E other \in Releases \ {r} :
              prepared = <<Transfer(schema, r, other, d), Transfer(schema, other, r, "none")>>
    /\ disk = [f \in FileNames |-> [inode |-> 1, name |-> 1, text |-> 1]]
    /\ pc = "idle" /\ at = 1 /\ mode = Absent /\ box = Absent /\ pass = 0
    /\ retained = [f \in FileNames |-> 0]
    /\ hashed = Absent /\ manifest = Absent /\ attested = Absent
    /\ read = << >>
    /\ \E owner \in {"active", "retired"} : key = [owner |-> owner, read |-> FALSE]
    /\ signed = Absent
    /\ edits = 0

Goto(step) == pc' = step
Reject == /\ Goto("rejected")
          /\ UNCHANGED <<at, pass, retained, hashed, manifest, attested, read, key, signed>>
Around == UNCHANGED <<prepared, disk, mode, box, edits>>

\* The owner, beside the ceremony: a file is rewritten in place or replaced,
\* or the whole transfer is prepared anew.
Rewrite(f) == /\ disk[f].text = 1
              /\ disk' = [disk EXCEPT ![f].text = 2]
Replace(fs) == disk' = [f \in FileNames |-> IF f \in fs THEN [inode |-> 2, name |-> 2, text |-> 2]
                                                        ELSE disk[f]]
Edit ==
    /\ pc \notin {"idle", "rejected", "done"} /\ edits < MaxEdits
    /\ \/ \E f \in FileNames : Rewrite(f)
       \/ \E f \in FileNames : disk[f].inode = 1 /\ Replace({f})
       \/ Replace(FileNames)
    /\ edits' = edits + 1
    /\ UNCHANGED <<prepared, pc, at, mode, box, pass, retained, hashed, manifest, attested,
                   read, key, signed>>

-----------------------------------------------------------------------------
(* The launcher                                                            *)

Launch(m) ==
    /\ pc = "idle"
    /\ mode' = m
    /\ Goto(IF m = "inspect-key" THEN "key" ELSE "hash")
    /\ UNCHANGED <<prepared, disk, at, box, pass, retained, hashed, manifest, attested, read,
                   key, signed, edits>>

\* The signer started by hand, in a sandbox that is not quite the launcher's.
RunByHand(m) ==
    /\ pc = "idle"
    /\ mode' = m
    /\ box' \in Deviations(m)
    /\ attested' = Content("manifest", disk["manifest"].text)
    /\ Goto("enter")
    /\ UNCHANGED <<prepared, disk, at, pass, retained, hashed, manifest, read, key, signed, edits>>

InSandbox == box # Absent

\* open_key_capability: after every check of the public input, and only for a
\* ceremony that has a key.
OpenKey ==
    /\ pc = "key"
    /\ Goto(IF mode = "inspect-key" THEN "spawn" ELSE "reverify")
    /\ UNCHANGED <<at, pass, retained, hashed, manifest, attested, read, key, signed>>
    /\ Around

Spawn ==
    /\ pc = "spawn"
    /\ box' = Established(mode)
    /\ attested' = hashed
    /\ Goto("enter")
    /\ UNCHANGED <<prepared, disk, at, mode, pass, retained, hashed, manifest, read, key, signed,
                   edits>>

-----------------------------------------------------------------------------
(* verify_transferred_bundle, in the launcher and again in the signer      *)

HashManifest ==
    /\ pc = "hash"
    /\ retained' = [retained EXCEPT !["manifest"] = disk["manifest"].inode]
    /\ hashed' = Content("manifest", disk["manifest"].text)
    /\ Goto("parse")
    /\ UNCHANGED <<at, pass, manifest, attested, read, key, signed>>
    /\ Around

\* The descriptor is read a second time; a file replaced since keeps its text.
ParseManifest ==
    /\ pc = "parse"
    /\ manifest' = IF disk["manifest"].inode = retained["manifest"]
                   THEN Content("manifest", disk["manifest"].text) ELSE hashed
    /\ at' = 1
    /\ Goto("open")
    /\ UNCHANGED <<pass, retained, hashed, attested, read, key, signed>>
    /\ Around

\* Records and objects are named by their digest.
Listed(f) == f = "inventory" \/ Content(f, disk[f].name) = manifest[f]

OpenFile ==
    LET f == Files[at]
    IN /\ pc = "open"
       /\ IF Listed(f) /\ Content(f, disk[f].text) = manifest[f]
          THEN /\ retained' = [retained EXCEPT ![f] = disk[f].inode]
               /\ IF Files[at + 1] = "manifest" THEN Goto("bind") /\ at' = 1
                                                ELSE at' = at + 1 /\ UNCHANGED pc
               /\ UNCHANGED <<pass, hashed, manifest, attested, read, key, signed>>
          ELSE Reject
       /\ Around

BindTransfer ==
    /\ pc = "bind"
    /\ IF CrossBind(manifest, manifest.inventory)
       THEN /\ Goto("reverify") /\ pass' = 0 /\ at' = 1
            /\ UNCHANGED <<retained, hashed, manifest, attested, read, key, signed>>
       ELSE Reject
    /\ Around

\* verify_retained_file: the descriptor and the name are still the same inode,
\* with the digest of the manifest.
VerifyRetained(f) ==
    /\ disk[f].inode = retained[f]
    /\ Content(f, disk[f].text) = IF f = "manifest" THEN hashed ELSE manifest[f]

\* A slip: any transfer that verifies will do.
AnyTransfer == TRUE

\* enter_signer_isolation: the transfer the launcher verified.
SameTransfer == ~InSandbox \/ hashed = attested

\* The launcher passes three times before the key is opened and once after;
\* the signer twice.
AfterPass(n) ==
    CASE InSandbox -> IF n = 2 THEN "read" ELSE "reverify"
      [] ~InSandbox -> IF n = 4 THEN "spawn" ELSE IF n = 3 /\ RequiresKey(mode) THEN "key"
                                                                              ELSE "reverify"

Reverify ==
    LET f == Files[at]
        last == at = Len(Files)
    IN /\ pc = "reverify"
       /\ IF VerifyRetained(f) /\ (last => SameTransfer)
          THEN /\ at' = IF last THEN 1 ELSE at + 1
               /\ pass' = IF last THEN pass + 1 ELSE pass
               /\ IF last THEN Goto(AfterPass(pass + 1)) ELSE UNCHANGED pc
               /\ UNCHANGED <<retained, hashed, manifest, attested, read, key, signed>>
          ELSE Reject
       /\ Around

-----------------------------------------------------------------------------
(* The signer                                                              *)

\* enter_signer_isolation: before an argument, a record or the key is read.
Enter ==
    /\ pc = "enter"
    /\ IF Admits(box)
       THEN /\ Goto(IF RequiresInput(mode) THEN "hash" ELSE "signkey")
            /\ at' = 1 /\ pass' = 0 /\ retained' = [f \in FileNames |-> 0]
            /\ box' = Sealed(box)
            /\ UNCHANGED <<hashed, manifest, attested, read, key, signed>>
       ELSE Reject /\ UNCHANGED box
    /\ UNCHANGED <<prepared, disk, mode, edits>>

\* record_bytes and read_bounded_file: every read verifies the file again.
ReadRecord ==
    LET f == Records[at]
    IN /\ pc = "read"
       /\ IF VerifyRetained(f)
          THEN /\ read' = Append(read, Content(f, disk[f].text))
               /\ IF at = Len(Records) THEN Goto("finalize") /\ at' = 1
                                       ELSE at' = at + 1 /\ UNCHANGED pc
               /\ UNCHANGED <<pass, retained, hashed, manifest, attested, key, signed>>
          ELSE Reject
       /\ Around

ReadTransfer == [source |-> read[1], qualification |-> read[2], inputs |-> read[3],
                 bytes |-> read[4], inventory |-> manifest.inventory, commit |-> manifest.commit]

Finalized == Candidate(read[1].release, read[2], read[3], read[4], manifest.commit)

Finalize ==
    /\ pc = "finalize"
    /\ IF IF mode = "assemble-intent" THEN AssembleIntent(ReadTransfer)
          ELSE manifest.qualification # Absent /\ FinalizeVersioned(ReadTransfer)
       THEN /\ Goto(IF mode = "sign" THEN "signkey" ELSE "done")
            /\ UNCHANGED <<at, pass, retained, hashed, manifest, attested, read, key, signed>>
       ELSE Reject
    /\ Around

\* read_production_signing_key: the key must be the embedded active one.
ReadKey ==
    /\ pc = "signkey"
    /\ key' = [key EXCEPT !.read = TRUE]
    /\ Goto(IF mode = "inspect-key" THEN "done"
            ELSE IF key.owner = "active" THEN "sign" ELSE "rejected")
    /\ UNCHANGED <<at, pass, retained, hashed, manifest, attested, read, signed>>
    /\ Around

Sign ==
    LET bundle == SignedBundle(Finalized, key.owner)
    IN /\ pc = "sign"
       /\ IF Signable(Finalized) /\ VerifySignedBytes(bundle, {"active"})
          THEN /\ signed' = bundle /\ Goto("done")
               /\ UNCHANGED <<at, pass, retained, hashed, manifest, attested, read, key>>
          ELSE Reject
       /\ Around

Next ==
    \/ \E m \in Ceremonies : Launch(m) \/ RunByHand(m)
    \/ Edit
    \/ HashManifest \/ ParseManifest \/ OpenFile \/ BindTransfer \/ Reverify
    \/ OpenKey \/ Spawn
    \/ Enter \/ ReadRecord \/ Finalize \/ ReadKey \/ Sign

Spec == Init /\ [][Next]_vars

-----------------------------------------------------------------------------
(* Properties                                                              *)

\* Whatever happens to the directory while a ceremony runs, the catalog that
\* is signed, its qualification and its assets are those of the one transfer
\* whose digest the launcher verified before it opened the key.
SignedIsAttested ==
    signed # Absent =>
        /\ signed.envelope.payload = attested.source.release
        /\ signed.manifest.qualification = attested.qualification
        /\ signed.assets.asset = attested.bytes

\* What is signed was qualified: every check passed, on the very release the
\* catalog announces, with the objects observed for it, by the keyring this
\* signer embeds, and was approved before the release expired.  The rules
\* that together say so are spread over three crates and two schemas.
SignedIsQualified ==
    signed # Absent =>
        LET record  == signed.manifest.qualification
            release == signed.envelope.payload
        IN /\ record.passed /\ record.release = release
           /\ record.schema = 1 => record.keyring = CurrentKeyring /\ ~record.late
           /\ signed.assets.asset = release
           /\ attested.source.names = record
           /\ attested.inputs = release /\ attested.inventory.objects = Objects(release)

\* The key is read only in the sandbox the launcher builds for the ceremony,
\* sealed against another exec: a signer started by hand with one fact of it
\* missing stops before.
KeyOnlyInSandbox == key.read => box = Sealed(Established(mode))

\* An unsound transfer or one of the wrong kind, a directory that changed, a
\* key that is not active, or a foreign sandbox.
CauseToReject ==
    \/ edits > 0
    \/ ~Sound(prepared[1]) \/ (mode = "assemble-intent") # (prepared[1].defect = "intent")
    \/ key.owner # "active"
    \/ box \in Deviations(mode)
===============================================================================
