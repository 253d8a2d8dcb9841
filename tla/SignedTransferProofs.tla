-------------------------- MODULE SignedTransferProofs --------------------------
(***************************************************************************)
(* Proofs about the isolated signer: the handoff of what it signed, for    *)
(* all releases and keyrings and any number of edits, and, at the end, the *)
(* output directory it stages, for any number of commands, errors, kills   *)
(* and losses of power.                                                    *)
(*                                                                         *)
(* The manifest is hashed and then parsed from the same descriptor, so a   *)
(* rewriting in between gives a manifest that is not the one hashed.  The  *)
(* invariant says that then the file still has the later text, which the   *)
(* passes over the retained files compare with the digest; past them the   *)
(* manifest is the attested one, and every record is read by its digests.  *)
(* That nothing is refused without a cause is the converse: the launcher's *)
(* sandbox, a sound transfer and an unchanged output pass each check.      *)
(*                                                                         *)
(* The output directory is for one input since it was made; the command    *)
(* that made it is the only one that fills the bundle, and it names it     *)
(* only when the files are durable.                                        *)
(***************************************************************************)
EXTENDS SignedTransfer, SignedOutput, TLAPS

Manifests == {Content("manifest", 1), Content("manifest", 2)}

\* Where the signer is once it has verified the transfer again.
Verified == pc \in {"read", "finalize", "sign"} \/ (pc = "signkey" /\ mode # "inspect-key")

\* The sandbox at each step, and the key in it.
BoxInv ==
    /\ pc = "idle" => box = Absent
    /\ pc = "enter" => box \in {Established(mode)} \cup Deviations(mode)
    /\ pc \notin {"enter", "rejected"} => box \in {Absent, Sealed(Established(mode))}
    /\ pc \in {"read", "finalize", "signkey", "sign"} => box = Sealed(Established(mode))
    /\ key.read => pc \in {"sign", "done", "rejected"} /\ box = Sealed(Established(mode))

DiskInv ==
    /\ DOMAIN disk = FileNames
    /\ \A f \in FileNames : DOMAIN disk[f] = {"inode", "name", "text"} /\ disk[f].text \in {1, 2}

\* Where the manifest has been parsed, and is not yet the one to sign by.
Parsed == pc \in {"open", "bind", "reverify"} \/ (pc = "key" /\ mode # "inspect-key")

\* What was hashed, what was parsed, and what the launcher vouched for.
ManifestInv ==
    /\ pc \in {"hash", "parse", "open", "bind", "reverify"} => mode # "inspect-key"
    /\ pc = "parse" \/ Parsed => hashed \in Manifests
    /\ pc = "parse" /\ disk["manifest"].text = 1 => hashed = Content("manifest", 1)
    /\ Parsed => manifest = hashed \/ (manifest = Content("manifest", 2) /\ disk["manifest"].text = 2)
    /\ Verified => manifest \in Manifests /\ manifest = attested

\* The records read so far are those of the manifest.
Named == {manifest[Records[i]] : i \in 1..4}
ReadInv ==
    /\ pc \notin {"read", "finalize", "signkey", "sign", "done", "rejected"} => read = << >>
    /\ pc = "read" => /\ at \in 1..4 /\ read \in Seq(Named) /\ Len(read) = at - 1
                      /\ \A i \in 1..4 : i < at => read[i] = manifest[Records[i]]
    /\ Verified /\ pc # "read" => \A i \in 1..4 : read[i] = manifest[Records[i]]
    /\ pc = "sign" \/ (pc = "signkey" /\ mode # "inspect-key") =>
          manifest.qualification # Absent /\ FinalizeVersioned(ReadTransfer)

SignedInv ==
    /\ signed # Absent =>
          pc = "done" /\ signed.assets.qualification = signed.manifest.qualification
    /\ SignedIsAttested
    /\ SignedIsQualified

\* A source names a qualification of its own schema, and the other release was
\* qualified.
PreparedInv ==
    /\ \A v \in {1, 2} :
          LET source == prepared[v].source
          IN  source.names # Absent => source.names.schema = source.schema
    /\ prepared[2].qualification.passed
    /\ prepared[2].qualification.release = prepared[2].source.release

SignerInv == BoxInv /\ DiskInv /\ ManifestInv /\ ReadInv /\ SignedInv /\ PreparedInv

\* What was emitted: the release signed here and the other one.
EmittedInv ==
    /\ ~Emitted => publisher.pc = "idle"
    /\ Emitted =>
          /\ signed # Absent
          /\ \E attestation :
                /\ output.made = <<Output(signed, attestation), OtherOutput>>
                /\ attestation.input = attested
          /\ DOMAIN output = {"made", "files"} /\ DOMAIN output.files = OutputFiles
          /\ \A f \in OutputFiles : output.files[f].text \in {1, 2}

\* What stage-local hashed is one of the two whole.  A catalog it parsed that
\* is not the one hashed is of a file that has the other's text for good.
PublisherInv ==
    /\ publisher.pc \in {"hashed", "read", "admitted"} =>
          /\ Emitted
          /\ DOMAIN publisher = {"pc", "trusted", "bound", "inodes", "hashed", "payload"}
          /\ \E v \in {1, 2} : publisher.hashed = output.made[v]
    /\ publisher.pc \in {"hashed", "read"} /\ output.files["catalog"].text = 1 =>
          publisher.hashed["catalog"] = output.made[1]["catalog"]
    /\ publisher.pc = "read" =>
          \/ publisher.payload = publisher.hashed["catalog"].payload
          \/ /\ publisher.payload = output.made[2]["catalog"].payload
             /\ output.files["catalog"].text = 2
    /\ publisher.pc = "admitted" => publisher.payload = publisher.hashed["catalog"].payload

-----------------------------------------------------------------------------
(* The sandbox                                                             *)

\* The launcher mounts what the signer expects to be mounted.
LEMMA MountsAgree ==
    ASSUME NEW m
    PROVE  Established(m).mounts = ExpectedMounts(m)
BY DEF Established, ExpectedMounts, Bound, Kernel, RequiresInput, RequiresOutput, RequiresKey

\* A sandbox with one fact of the launcher's missing is refused.
LEMMA DeviationIsRefused ==
    ASSUME NEW m, NEW b \in Deviations(m)
    PROVE  ~Admits(b)
<1> DEFINE made == Established(m)
<1>0. /\ made.mode = m /\ made.names = LauncherNames /\ made.fresh = Namespaces
      /\ made.readonly = Bound(m) \ {"/output"} /\ made.filter = LauncherFilter
      /\ Bound(m) \subseteq made.mounts /\ made.mounts = ExpectedMounts(m)
      /\ made = [mode |-> m, names |-> made.names, fresh |-> made.fresh, mounts |-> made.mounts,
                readonly |-> made.readonly, filter |-> made.filter, interfaces |-> made.interfaces,
                privileges |-> made.privileges, extraFds |-> made.extraFds,
                coreLimit |-> made.coreLimit]
  BY MountsAgree DEF Established
<1> HIDE DEF made
<1>1. ASSUME NEW n \in {"ISOLATION", "HOST_NS"}, b = [made EXCEPT !.names = @ \ {n}]
      PROVE  ~Admits(b)
  BY <1>0, <1>1 DEF Admits, ExactEnvironment, LauncherNames
<1>2. ASSUME b = [made EXCEPT !.names = @ \union {"GITHUB_TOKEN"}] PROVE ~Admits(b)
  BY <1>0, <1>2 DEF Admits, ExactEnvironment, LauncherNames
<1>3. ASSUME NEW n \in Namespaces, b = [made EXCEPT !.fresh = @ \ {n}] PROVE ~Admits(b)
  BY <1>0, <1>3 DEF Admits, VerifyNamespaces
<1>4. ASSUME NEW n \in {"/home", "/key"} \ made.mounts, b = [made EXCEPT !.mounts = @ \union {n}]
      PROVE  ~Admits(b)
  <2>1. b.mode = m /\ b.mounts = made.mounts \union {n}
    BY <1>0, <1>4
  <2> QED BY <1>0, <1>4, <2>1 DEF Admits, VerifyMounts
<1>5. ASSUME NEW n \in Bound(m), b = [made EXCEPT !.mounts = @ \ {n}] PROVE ~Admits(b)
  <2>1. b.mode = m /\ b.mounts = made.mounts \ {n}
    BY <1>0, <1>5
  <2> QED BY <1>0, <1>5, <2>1 DEF Admits, VerifyMounts
<1>6. ASSUME NEW n \in made.readonly, b = [made EXCEPT !.readonly = @ \ {n}] PROVE ~Admits(b)
  <2>1. b.mode = m /\ n \notin b.readonly
    BY <1>0, <1>6
  <2>2. n = "/bin/catalog-sign" \/ (n = "/input" /\ RequiresInput(m))
          \/ (n = "/key" /\ RequiresKey(m))
    BY <1>0, <1>6 DEF Bound, RequiresInput, RequiresKey
  <2> QED BY <2>1, <2>2 DEF Admits, VerifyMounts
<1>7. ASSUME NEW n \in LauncherFilter, b = [made EXCEPT !.filter = @ \ {n}] PROVE ~Admits(b)
  <2>1. b.filter = LauncherFilter \ {n}
    BY <1>0, <1>7
  <2> QED BY <2>1 DEF Admits, VerifyPrefilter, LauncherFilter
<1>8. ASSUME b = [made EXCEPT !.filter = Syscalls] PROVE ~Admits(b)
  <2>1. b.filter = Syscalls /\ "exec" \in Syscalls
    BY <1>0, <1>8 DEF Syscalls
  <2> QED BY <2>1 DEF Admits, VerifyPrefilter
<1>9. ASSUME b \in {[made EXCEPT !.interfaces = {"lo", "eth0"}],
                    [made EXCEPT !.privileges = {"CAP_SYS_ADMIN"}]}
      PROVE  ~Admits(b)
  <2>1. b.interfaces = {"lo", "eth0"} \/ b.privileges = {"CAP_SYS_ADMIN"}
    BY <1>0, <1>9
  <2> QED BY <2>1 DEF Admits, VerifyKernelStatus
<1>10. ASSUME b \in {[made EXCEPT !.extraFds = 1], [made EXCEPT !.coreLimit = 1]} PROVE ~Admits(b)
  <2>1. b.extraFds = 1 \/ b.coreLimit = 1
    BY <1>0, <1>10
  <2> QED BY <2>1 DEF Admits, VerifyKernelStatus
<1> QED BY <1>1, <1>2, <1>3, <1>4, <1>5, <1>6, <1>7, <1>8, <1>9, <1>10 DEF Deviations, made

\* Which sandbox the signer is in follows the steps of the ceremony.
LEMMA BoxStep ==
    ASSUME BoxInv, [Next]_vars
    PROVE  BoxInv'
<1>1. ASSUME NEW m \in Ceremonies, Launch(m) PROVE BoxInv'
  BY <1>1 DEF BoxInv, Launch, Goto
<1>2. ASSUME NEW m \in Ceremonies, RunByHand(m) PROVE BoxInv'
  BY <1>2 DEF BoxInv, RunByHand, Goto
<1>3. ASSUME Edit PROVE BoxInv'
  BY <1>3 DEF BoxInv, Edit
<1>4. ASSUME HashManifest \/ ParseManifest \/ OpenFile \/ BindTransfer PROVE BoxInv'
  BY <1>4 DEF BoxInv, HashManifest, ParseManifest, OpenFile, BindTransfer, Goto, Around, Reject
<1>5. ASSUME Reverify PROVE BoxInv'
  BY <1>5 DEF BoxInv, Reverify, AfterPass, InSandbox, Goto, Around, Reject
<1>6. ASSUME OpenKey \/ Spawn PROVE BoxInv'
  BY <1>6 DEF BoxInv, OpenKey, Spawn, Goto, Around
<1>7. ASSUME Enter PROVE BoxInv'
  <2>1. Admits(box) => box = Established(mode)
    BY <1>7, DeviationIsRefused DEF BoxInv, Enter
  <2> QED BY <1>7, <2>1 DEF BoxInv, Enter, Goto, Reject
<1>8. ASSUME ReadRecord \/ Finalize \/ ReadKey \/ Sign PROVE BoxInv'
  BY <1>8 DEF BoxInv, ReadRecord, Finalize, ReadKey, Sign, Goto, Around, Reject
<1>9. ASSUME UNCHANGED vars PROVE BoxInv'
  BY <1>9 DEF BoxInv, vars
<1> QED BY <1>1, <1>2, <1>3, <1>4, <1>5, <1>6, <1>7, <1>8, <1>9 DEF Next

-----------------------------------------------------------------------------
(* What is read                                                            *)

LEMMA SixJoined ==
    ASSUME NEW a, NEW b, NEW c, NEW d, NEW e, NEW f, NEW s, s = <<a, b, c, d>> \o <<e, f>>
    PROVE  /\ Len(s) = 6 /\ DOMAIN s = 1..6
           /\ s[1] = a /\ s[2] = b /\ s[3] = c /\ s[4] = d /\ s[5] = e /\ s[6] = f
<1>1. Len(s) = 6 /\ DOMAIN s = 1..6
  OBVIOUS
<1>2. s[1] = a /\ s[2] = b /\ s[3] = c /\ s[4] = d /\ s[5] = e /\ s[6] = f
  OBVIOUS
<1> QED BY <1>1, <1>2

\* The files of a transfer, and the records among them.
LEMMA FileNumbers ==
    /\ Len(Records) = 4 /\ Len(Files) = 6
    /\ Records[1] = "source" /\ Records[2] = "qualification"
    /\ Records[3] = "inputs" /\ Records[4] = "bytes"
    /\ \A i \in 1..4 : Files[i] = Records[i]
    /\ Files[5] = "inventory" /\ Files[6] = "manifest"
    /\ FileNames = {"source", "qualification", "inputs", "bytes", "inventory", "manifest"}
<1>1. /\ DOMAIN Files = 1..6 /\ Len(Files) = 6
      /\ Files[1] = "source" /\ Files[2] = "qualification" /\ Files[3] = "inputs"
      /\ Files[4] = "bytes" /\ Files[5] = "inventory" /\ Files[6] = "manifest"
  <2> DEFINE a == "source" b == "qualification" c == "inputs" d == "bytes"
             e == "inventory" f == "manifest"
  <2>1. Files = <<a, b, c, d>> \o <<e, f>>
    BY Zenon DEF Files, Records
  <2> HIDE DEF a, b, c, d, e, f
  <2>2. /\ Len(Files) = 6 /\ DOMAIN Files = 1..6
        /\ Files[1] = a /\ Files[2] = b /\ Files[3] = c /\ Files[4] = d /\ Files[5] = e
        /\ Files[6] = f
    BY <2>1, SixJoined
  <2> QED BY <2>2, Zenon DEF a, b, c, d, e, f
<1>2. Len(Records) = 4 /\ Records[1] = "source" /\ Records[2] = "qualification"
    /\ Records[3] = "inputs" /\ Records[4] = "bytes"
  BY DEF Records
<1>3. DOMAIN Files = {1, 2, 3, 4, 5, 6}
  BY <1>1
<1>4. \A i \in 1..4 : Files[i] = Records[i]
  BY <1>1, <1>2
<1>5. FileNames = {Files[1], Files[2], Files[3], Files[4], Files[5], Files[6]}
  BY <1>1, <1>3 DEF FileNames
<1> QED BY <1>1, <1>2, <1>4, <1>5
\* A file's text changes only to that of the later transfer.
LEMMA DiskStep ==
    ASSUME DiskInv, [Next]_vars
    PROVE  /\ DiskInv'
           /\ \A f \in FileNames : disk[f].text = 2 => disk'[f].text = 2
           /\ disk' = disk \/ Edit
<1>1. ASSUME Edit
      PROVE  DiskInv' /\ \A f \in FileNames : disk[f].text = 2 => disk'[f].text = 2
  <2>1. ASSUME NEW g \in FileNames, Rewrite(g)
        PROVE  DiskInv' /\ \A f \in FileNames : disk[f].text = 2 => disk'[f].text = 2
    BY <2>1 DEF DiskInv, Rewrite
  <2>2. ASSUME NEW fs, Replace(fs)
        PROVE  DiskInv' /\ \A f \in FileNames : disk[f].text = 2 => disk'[f].text = 2
    BY <2>2 DEF DiskInv, Replace
  <2> QED BY <1>1, <2>1, <2>2 DEF Edit
<1>2. ASSUME ~Edit PROVE disk' = disk
  BY <1>2 DEF Next, Launch, RunByHand, HashManifest, ParseManifest, OpenFile, BindTransfer,
              Reverify, OpenKey, Spawn, Enter, ReadRecord, Finalize, ReadKey, Sign, Around, vars
<1> QED BY <1>1, <1>2 DEF DiskInv

LEMMA PreparedStep ==
    ASSUME [Next]_vars
    PROVE  prepared' = prepared
BY DEF Next, Launch, RunByHand, Edit, HashManifest, ParseManifest, OpenFile, BindTransfer,
       Reverify, OpenKey, Spawn, Enter, ReadRecord, Finalize, ReadKey, Sign, Around, vars

LEMMA ContentStep ==
    ASSUME [Next]_vars
    PROVE  /\ \A f, v : Content(f, v)' = Content(f, v)
           /\ Manifests' = Manifests
BY PreparedStep DEF Content, ManifestOf, Manifests

\* The manifest the signer goes by is the one the launcher verified.
LEMMA ManifestStep ==
    ASSUME DiskInv, BoxInv, ManifestInv, [Next]_vars
    PROVE  ManifestInv'
<1> USE ContentStep
<1>0. "manifest" \in FileNames /\ disk["manifest"].text \in {1, 2}
  BY FileNumbers DEF DiskInv
<1>1. ASSUME NEW m \in Ceremonies, Launch(m) \/ RunByHand(m) PROVE ManifestInv'
  BY <1>1 DEF ManifestInv, Launch, RunByHand, Goto, Parsed, Verified
<1>3. ASSUME Edit PROVE ManifestInv'
  <2>1. disk'["manifest"].text \in {1, 2}
        /\ (disk["manifest"].text = 2 => disk'["manifest"].text = 2)
    BY <1>0, DiskStep DEF DiskInv
  <2>2. UNCHANGED <<pc, mode, hashed, manifest, attested>>
    BY <1>3 DEF Edit
  <2> QED BY <1>0, <2>1, <2>2 DEF ManifestInv, Parsed, Verified
<1>4. ASSUME HashManifest PROVE ManifestInv'
  BY <1>0, <1>4 DEF ManifestInv, HashManifest, Goto, Around, Parsed, Verified, Manifests
<1>5. ASSUME ParseManifest PROVE ManifestInv'
  BY <1>0, <1>5 DEF ManifestInv, ParseManifest, Goto, Around, Parsed, Verified, Manifests
<1>6. ASSUME OpenFile \/ BindTransfer PROVE ManifestInv'
  BY <1>6 DEF ManifestInv, OpenFile, BindTransfer, Goto, Around, Reject, Parsed, Verified
<1>7. ASSUME Reverify PROVE ManifestInv'
  <2>1. /\ pc = "reverify" /\ Parsed
        /\ UNCHANGED <<disk, mode, hashed, manifest, attested>>
    BY <1>7 DEF Reverify, Reject, Around, Parsed
  <2>2. pc' \in {"reverify", "rejected", "read", "spawn"} \/ (pc' = "key" /\ mode # "inspect-key")
    <3>1. ASSUME NEW n PROVE AfterPass(n) \in {"reverify", "read", "spawn", "key"}
      BY DEF AfterPass
    <3> QED BY <1>7, <2>1, <3>1 DEF Reverify, Goto, Reject, ManifestInv
  <2>3. pc' = "read" => at = Len(Files) /\ VerifyRetained(Files[at]) /\ SameTransfer /\ InSandbox
    BY <1>7 DEF Reverify, Goto, Reject, AfterPass
  <2>4. pc' = "read" => manifest \in Manifests /\ manifest = attested
    BY <1>0, <2>1, <2>3, FileNumbers DEF VerifyRetained, SameTransfer, ManifestInv, Manifests
  <2> QED BY <2>1, <2>2, <2>4 DEF ManifestInv, Parsed, Verified
<1>8. ASSUME OpenKey \/ Spawn PROVE ManifestInv'
  BY <1>8 DEF ManifestInv, OpenKey, Spawn, Goto, Around, Parsed, Verified
<1>9. ASSUME Enter PROVE ManifestInv'
  BY <1>9 DEF ManifestInv, Enter, Goto, Reject, Parsed, Verified, RequiresInput
<1>10. ASSUME ReadRecord \/ Finalize \/ ReadKey \/ Sign PROVE ManifestInv'
  BY <1>10 DEF ManifestInv, ReadRecord, Finalize, ReadKey, Sign, Goto, Around, Reject, Parsed,
               Verified
<1>11. ASSUME UNCHANGED vars PROVE ManifestInv'
  BY <1>11 DEF ManifestInv, vars, Parsed, Verified
<1> QED BY <1>1, <1>3, <1>4, <1>5, <1>6, <1>7, <1>8, <1>9, <1>10, <1>11 DEF Next

\* Extending a sequence keeps what it had.
LEMMA Appended ==
    ASSUME NEW s, NEW S, s \in Seq(S), NEW e \in S
    PROVE  /\ Append(s, e) \in Seq(S) /\ Len(Append(s, e)) = Len(s) + 1
           /\ \A i \in 1..Len(s) : Append(s, e)[i] = s[i]
           /\ Append(s, e)[Len(s) + 1] = e
OBVIOUS

\* Every record read is one the manifest names.
LEMMA ReadStep ==
    ASSUME BoxInv, ManifestInv, ReadInv, [Next]_vars
    PROVE  ReadInv'
<1> USE FileNumbers
<1>1. ASSUME NEW m \in Ceremonies, Launch(m) \/ RunByHand(m) PROVE ReadInv'
  BY <1>1 DEF ReadInv, Launch, RunByHand, Goto, Verified
<1>2. ASSUME Edit PROVE ReadInv'
  BY <1>2 DEF ReadInv, Edit, Verified, ReadTransfer, Named
<1>3. ASSUME HashManifest \/ ParseManifest \/ OpenFile \/ BindTransfer \/ OpenKey \/ Spawn
      PROVE  ReadInv'
  BY <1>3 DEF ReadInv, HashManifest, ParseManifest, OpenFile, BindTransfer, OpenKey, Spawn, Goto,
              Around, Reject, Verified
<1>4. ASSUME Reverify PROVE ReadInv'
  <2>1. pc = "reverify" /\ read' = read /\ read = << >>
    BY <1>4 DEF ReadInv, Reverify, Reject
  <2>2. pc' \in {"reverify", "rejected", "spawn", "key"} \/ (pc' = "read" /\ at' = 1)
    BY <1>4 DEF Reverify, Goto, Reject, AfterPass
  <2> QED BY <2>1, <2>2 DEF ReadInv, Verified
<1>5. ASSUME Enter PROVE ReadInv'
  <2>1. pc = "enter" /\ read' = read /\ read = << >> /\ mode' = mode
    BY <1>5 DEF ReadInv, Enter, Reject
  <2>2. pc' \in {"hash", "rejected"} \/ (pc' = "signkey" /\ mode = "inspect-key")
    BY <1>5 DEF Enter, Goto, Reject, RequiresInput
  <2> QED BY <2>1, <2>2 DEF ReadInv, Verified
<1>6. ASSUME ReadRecord PROVE ReadInv'
  <2>1. pc = "read" /\ at \in 1..4 /\ manifest' = manifest /\ mode' = mode
    BY <1>6 DEF ReadInv, ReadRecord, Reject, Around
  <2>2. CASE pc' = "rejected"
    BY <2>2 DEF ReadInv, Verified
  <2>3. CASE pc' # "rejected"
    <3> DEFINE e == manifest[Records[at]]
    <3>1. Records[at] # "manifest"
      BY <2>1
    <3>2. read' = Append(read, e)
      BY <1>6, <2>3, <3>1 DEF ReadRecord, Reject, Goto, VerifyRetained
    <3>3. (at = 4 /\ pc' = "finalize" /\ at' = 1) \/ (at # 4 /\ pc' = "read" /\ at' = at + 1)
      BY <1>6, <2>1, <2>3 DEF ReadRecord, Reject, Goto
    <3>4. Len(read) = at - 1 /\ \A i \in 1..4 : i < at => read[i] = manifest[Records[i]]
      BY <2>1 DEF ReadInv
    <3>5. manifest' = manifest /\ Named' = Named /\ e \in Named /\ read \in Seq(Named)
      BY <2>1 DEF ReadInv, Named
    <3> HIDE DEF e
    <3>6. /\ Append(read, e) \in Seq(Named) /\ Len(Append(read, e)) = Len(read) + 1
          /\ \A i \in 1..Len(read) : Append(read, e)[i] = read[i]
          /\ Append(read, e)[Len(read) + 1] = e
      BY <3>5, Appended
    <3>7. /\ read' \in Seq(Named) /\ Len(read') = at
          /\ \A i \in 1..4 : i < at + 1 => read'[i] = manifest[Records[i]]
      BY <2>1, <3>2, <3>4, <3>6 DEF e
    <3>8. CASE at = 4
      <4>1. \A i \in 1..4 : read'[i] = manifest'[Records[i]]
        BY <3>5, <3>7, <3>8
      <4> QED BY <3>3, <3>8, <4>1 DEF ReadInv, Verified
    <3>9. CASE at # 4
      <4>1. at' \in 1..4 /\ Len(read') = at' - 1 /\ pc' = "read"
        BY <2>1, <3>3, <3>7, <3>9
      <4>2. \A i \in 1..4 : i < at' => read'[i] = manifest'[Records[i]]
        BY <3>3, <3>5, <3>7, <3>9
      <4> QED BY <3>5, <3>7, <4>1, <4>2 DEF ReadInv, Verified
    <3> QED BY <3>8, <3>9
  <2> QED BY <2>2, <2>3
<1>7. ASSUME Finalize PROVE ReadInv'
  BY <1>7 DEF ReadInv, Finalize, Goto, Around, Reject, Verified, ReadTransfer
<1>8. ASSUME ReadKey \/ Sign PROVE ReadInv'
  BY <1>8 DEF ReadInv, ReadKey, Sign, Goto, Around, Reject, Verified, ReadTransfer
<1>9. ASSUME UNCHANGED vars PROVE ReadInv'
  BY <1>9 DEF ReadInv, vars, Verified, ReadTransfer, Named
<1> QED BY <1>1, <1>2, <1>3, <1>4, <1>5, <1>6, <1>7, <1>8, <1>9 DEF Next

\* A source names a qualification of its own schema.
LEMMA TransferNames ==
    ASSUME NEW schema, NEW release, NEW other, NEW d
    PROVE  LET transfer == Transfer(schema, release, other, d)
           IN  /\ transfer.source.names # Absent =>
                     transfer.source.names.schema = transfer.source.schema
               /\ d = "none" => /\ transfer.qualification.passed
                                /\ transfer.qualification.release = transfer.source.release
BY DEF Transfer, CatalogSource, Qualification

\* The records of a manifest are those of the transfer it was made for.
LEMMA ManifestRecords ==
    ASSUME NEW t
    PROVE  /\ ManifestOf(t).source = t.source /\ ManifestOf(t).qualification = t.qualification
           /\ ManifestOf(t).inputs = t.inputs /\ ManifestOf(t).bytes = t.bytes
           /\ ManifestOf(t).inventory = t.inventory
BY DEF ManifestOf

\* What the rules of finalization say of what they accept.
LEMMA FinalizedIsQualified ==
    ASSUME NEW t, FinalizeVersioned(t),
           t.source.names # Absent => t.source.names.schema = t.source.schema,
           t.qualification # Absent
    PROVE  /\ t.qualification.passed /\ t.qualification.release = t.source.release
           /\ t.qualification.schema = 1 =>
                 t.qualification.keyring = CurrentKeyring /\ ~t.qualification.late
           /\ t.bytes = t.source.release /\ t.inputs = t.source.release
           /\ t.source.names = t.qualification
           /\ t.inventory.objects = Objects(t.source.release)
<1>1. CASE t.source.schema = 2
  BY <1>1 DEF FinalizeVersioned, FinalizeInstaller, FinalizePayload, VerifyPiReleaseQualification,
              VerifyObjectGraph
<1>2. CASE t.source.schema # 2
  BY <1>2 DEF FinalizeVersioned, FinalizeCandidateV1, VerifyQualificationV1, VerifyObjectGraph
<1> QED BY <1>1, <1>2

\* What is signed is the candidate finalized from the attested manifest.
LEMMA SignedStep ==
    ASSUME BoxInv, ManifestInv, ReadInv, PreparedInv, SignedInv, [Next]_vars
    PROVE  SignedInv'
<1> USE FileNumbers
<1>1. ASSUME Sign, signed' # signed PROVE SignedInv'
  <2>1. /\ pc = "sign" /\ pc' = "done" /\ signed' = SignedBundle(Finalized, key.owner)
        /\ attested' = attested
    BY <1>1 DEF Sign, Goto, Around, Reject
  <2>2. /\ read[1] = attested.source /\ read[2] = attested.qualification
        /\ read[3] = attested.inputs /\ read[4] = attested.bytes
        /\ manifest \in Manifests /\ manifest = attested
        /\ attested.qualification # Absent /\ FinalizeVersioned(ReadTransfer)
    BY <2>1 DEF ReadInv, ManifestInv, Verified
  <2>3. attested.source.names # Absent => attested.source.names.schema = attested.source.schema
    <3>1. PICK v \in {1, 2} : manifest = ManifestOf(prepared[v])
      BY <2>2 DEF Manifests, Content
    <3>2. manifest.source = prepared[v].source
      BY <3>1, ManifestRecords
    <3> QED BY <2>2, <3>2 DEF PreparedInv
  <2>4. /\ ReadTransfer.source = attested.source
        /\ ReadTransfer.qualification = attested.qualification
        /\ ReadTransfer.inputs = attested.inputs /\ ReadTransfer.bytes = attested.bytes
        /\ ReadTransfer.inventory = attested.inventory
    BY <2>2 DEF ReadTransfer
  <2>5. /\ signed'.envelope.payload = attested.source.release
        /\ signed'.manifest.qualification = attested.qualification
        /\ signed'.assets.asset = attested.bytes
    BY <2>1, <2>2 DEF SignedBundle, Envelope, Finalized, Candidate
  <2>6. SignedIsQualified'
    <3> HIDE DEF ReadTransfer
    <3>1. FinalizeVersioned(ReadTransfer) /\ ReadTransfer.qualification # Absent
          /\ (ReadTransfer.source.names # Absent =>
                 ReadTransfer.source.names.schema = ReadTransfer.source.schema)
      BY <2>2, <2>3, <2>4
    <3> QED BY <2>1, <2>4, <2>5, <3>1, FinalizedIsQualified DEF SignedIsQualified
  <2>7. signed'.assets.qualification = signed'.manifest.qualification
    BY <2>1 DEF SignedBundle
  <2> QED BY <2>1, <2>5, <2>6, <2>7 DEF SignedInv, SignedIsAttested
<1>2. ASSUME ~(Sign /\ signed' # signed), signed # Absent PROVE SignedInv'
  <2>1. UNCHANGED <<pc, signed, attested>>
    BY <1>2 DEF Next, Launch, RunByHand, Edit, HashManifest, ParseManifest, OpenFile, BindTransfer,
              Reverify, OpenKey, Spawn, Enter, ReadRecord, Finalize, ReadKey, Sign, vars, SignedInv
  <2> QED BY <2>1 DEF SignedInv, SignedIsAttested, SignedIsQualified
<1>3. ASSUME ~(Sign /\ signed' # signed), signed = Absent PROVE SignedInv'
  <2>1. signed' = signed
    BY <1>3 DEF Next, Launch, RunByHand, Edit, HashManifest, ParseManifest, OpenFile, BindTransfer,
              Reverify, OpenKey, Spawn, Enter, ReadRecord, Finalize, ReadKey, Sign, vars, Reject
  <2> QED BY <1>3, <2>1 DEF SignedInv, SignedIsAttested, SignedIsQualified
<1> QED BY <1>1, <1>2, <1>3

LEMMA SignerInit ==
    ASSUME Init
    PROVE  SignerInv
<1> USE FileNumbers
<1>1. BoxInv
  BY DEF Init, BoxInv
<1>2. DiskInv
  BY DEF Init, DiskInv
<1>3. ManifestInv
  BY DEF Init, ManifestInv, Parsed, Verified
<1>4. ReadInv
  BY DEF Init, ReadInv, Verified
<1>5. SignedInv
  BY DEF Init, SignedInv, SignedIsAttested, SignedIsQualified
<1>6. PreparedInv
  <2>1. PICK schema, r, other, d :
            prepared = <<Transfer(schema, r, other, d), Transfer(schema, other, r, "none")>>
    BY DEF Init
  <2> DEFINE one == Transfer(schema, r, other, d)
             two == Transfer(schema, other, r, "none")
  <2>2. /\ one.source.names # Absent => one.source.names.schema = one.source.schema
        /\ two.source.names # Absent => two.source.names.schema = two.source.schema
        /\ two.qualification.passed /\ two.qualification.release = two.source.release
    BY TransferNames
  <2> HIDE DEF one, two
  <2>3. prepared[1] = one /\ prepared[2] = two
    BY <2>1 DEF one, two
  <2> QED BY <2>2, <2>3 DEF PreparedInv
<1> QED BY <1>1, <1>2, <1>3, <1>4, <1>5, <1>6 DEF SignerInv

LEMMA SignerStep ==
    ASSUME SignerInv, [Next]_vars
    PROVE  SignerInv'
<1>1. PreparedInv'
  BY PreparedStep DEF SignerInv, PreparedInv
<1> QED BY <1>1, BoxStep, DiskStep, ManifestStep, ReadStep, SignedStep DEF SignerInv

-----------------------------------------------------------------------------
(* The handoff                                                             *)

\* The transfer file of an output lists every other file of it.
LEMMA OutputIsListed ==
    ASSUME NEW bundle, NEW attestation
    PROVE  LET made == Output(bundle, attestation)
           IN  /\ made \in [OutputFiles -> {made[f] : f \in OutputFiles}]
               /\ made["catalog"] = bundle.envelope
               /\ made["qualification"] = bundle.assets.qualification
               /\ made["transfer"].input = attestation.input
               /\ \A f \in OutputFiles \ {"transfer"} : made["transfer"].entries[f] = made[f]
<1> DEFINE made == Output(bundle, attestation)
<1>1. made \in [OutputFiles -> {made[f] : f \in OutputFiles}]
  BY DEF Output
<1>2. made["catalog"] = bundle.envelope /\ made["qualification"] = bundle.assets.qualification
  BY DEF Output, SignedFiles, OutputFiles, Assets
<1>3. made["transfer"].input = attestation.input
  BY DEF Output, OutputFiles
<1>4. \A f \in OutputFiles \ {"transfer"} : made["transfer"].entries[f] = made[f]
  BY DEF Output, OutputFiles
<1> QED BY <1>1, <1>2, <1>3, <1>4

\* A signed bundle lies still: its ceremony is over.
LEMMA SignedStays ==
    ASSUME SignedInv, [Next]_vars, signed # Absent
    PROVE  UNCHANGED <<signed, attested>>
BY DEF SignedInv, Next, Launch, RunByHand, Edit, HashManifest, ParseManifest, OpenFile,
       BindTransfer, Reverify, OpenKey, Spawn, Enter, ReadRecord, Finalize, ReadKey, Sign, vars

LEMMA EmittedStep ==
    ASSUME SignedInv, EmittedInv, [HandoffNext]_<<vars, handoffVars>>
    PROVE  EmittedInv'
<1>0. OtherOutput' = OtherOutput
  <2>1. prepared' = prepared
    BY PreparedStep DEF HandoffNext, vars
  <2> QED BY <2>1 DEF OtherOutput
<1>1. ASSUME [Next]_vars, UNCHANGED handoffVars PROVE EmittedInv'
  <2>1. Emitted' = Emitted /\ UNCHANGED <<output, publisher>>
    BY <1>1 DEF handoffVars, Emitted
  <2>2. CASE Emitted
    <3>1. UNCHANGED <<signed, attested>>
      BY <1>1, <2>2, SignedStays DEF EmittedInv
    <3>2. \A a : Output(signed, a)' = Output(signed, a)
      BY <3>1 DEF Output, SignedFiles
    <3> QED BY <1>0, <2>1, <3>1, <3>2 DEF EmittedInv
  <2>3. CASE ~Emitted
    BY <2>1, <2>3 DEF EmittedInv
  <2> QED BY <2>2, <2>3
<1>2. ASSUME NEW m \in {"sign", "recover-sign"}, Emit(m), UNCHANGED vars PROVE EmittedInv'
  <2> DEFINE a == Attestation(m, IF m = "sign" THEN box ELSE Sealed(Established(m)), attested)
  <2>1. /\ output' = [made |-> <<Output(signed, a), OtherOutput>>,
                      files |-> [f \in OutputFiles |-> [inode |-> 1, text |-> 1]]]
        /\ signed # Absent /\ UNCHANGED <<signed, attested>> /\ publisher' = publisher
        /\ publisher.pc = "idle"
    BY <1>2 DEF Emit, vars, EmittedInv
  <2>2. a.input = attested
    BY DEF Attestation
  <2> HIDE DEF a
  <2>3. output'.made = <<Output(signed, a), OtherOutput>>
        /\ output'.files = [f \in OutputFiles |-> [inode |-> 1, text |-> 1]]
        /\ DOMAIN output' = {"made", "files"}
    BY <2>1
  <2>4. \A f \in OutputFiles : output'.files[f].text \in {1, 2}
    BY <2>3
  <2>5. DOMAIN output'.files = OutputFiles
    BY <2>3
  <2>6. \E b : output'.made = <<Output(signed', b), OtherOutput'>> /\ b.input = attested'
    <3>1. output'.made = <<Output(signed', a), OtherOutput'>> /\ a.input = attested'
      BY <1>0, <2>1, <2>2, <2>3
    <3> QED BY <3>1
  <2> QED BY <2>1, <2>3, <2>4, <2>5, <2>6 DEF EmittedInv
<1>3. ASSUME NEW fs, NEW inode, Mix(fs, inode), UNCHANGED vars PROVE EmittedInv'
  <2>1. /\ output'.made = output.made /\ DOMAIN output' = {"made", "files"}
        /\ DOMAIN output'.files = OutputFiles
        /\ \A f \in OutputFiles : output'.files[f].text \in {1, 2}
        /\ UNCHANGED <<signed, attested, publisher>> /\ Emitted
    BY <1>3 DEF Mix, vars, EmittedInv
  <2>2. \A a : Output(signed, a)' = Output(signed, a)
    BY <2>1 DEF Output, SignedFiles
  <2> QED BY <1>0, <2>1, <2>2 DEF EmittedInv, Emitted
<1>4. ASSUME UNCHANGED vars, output' = output, Emitted \/ publisher' = publisher PROVE EmittedInv'
  <2>1. Emitted' = Emitted /\ UNCHANGED <<signed, attested>>
    BY <1>4 DEF vars, Emitted
  <2>2. \A a : Output(signed, a)' = Output(signed, a)
    BY <2>1 DEF Output, SignedFiles
  <2> QED BY <1>0, <1>4, <2>1, <2>2 DEF EmittedInv
<1>5. ASSUME NEW trusted, HashFiles(trusted), UNCHANGED vars PROVE EmittedInv'
  BY <1>4, <1>5 DEF HashFiles
<1>6. ASSUME DropBinding \/ ReadDocuments \/ ReverifyFiles, UNCHANGED vars PROVE EmittedInv'
  BY <1>4, <1>6 DEF DropBinding, ReadDocuments, ReverifyFiles, EmittedInv
<1> QED BY <1>1, <1>2, <1>3, <1>5, <1>6 DEF HandoffNext, Handoff

\* Both outputs list their files, and are what Emit made them.
LEMMA MadeIsListed ==
    ASSUME EmittedInv, Emitted
    PROVE  /\ \A v \in {1, 2} :
                 LET made == output.made[v]
                 IN  /\ made \in [OutputFiles -> {made[f] : f \in OutputFiles}]
                     /\ \A f \in OutputFiles \ {"transfer"} : made["transfer"].entries[f] = made[f]
           /\ output.made[1]["catalog"] = signed.envelope
           /\ output.made[1]["qualification"] = signed.assets.qualification
           /\ output.made[1]["transfer"].input = attested
           /\ output.made[2] = OtherOutput
<1>1. PICK a : output.made = <<Output(signed, a), OtherOutput>> /\ a.input = attested
  BY DEF EmittedInv
<1>2. output.made[1] = Output(signed, a) /\ output.made[2] = OtherOutput
  BY <1>1
<1>3. LET made == Output(signed, a)
      IN  /\ made \in [OutputFiles -> {made[f] : f \in OutputFiles}]
          /\ made["catalog"] = signed.envelope
          /\ made["qualification"] = signed.assets.qualification
          /\ made["transfer"].input = a.input
          /\ \A f \in OutputFiles \ {"transfer"} : made["transfer"].entries[f] = made[f]
  BY OutputIsListed
<1>4. LET made == OtherOutput
      IN  /\ made \in [OutputFiles -> {made[f] : f \in OutputFiles}]
          /\ \A f \in OutputFiles \ {"transfer"} : made["transfer"].entries[f] = made[f]
  <2>1. PICK other, named : OtherOutput = Output(other, named)
    BY DEF OtherOutput
  <2> QED BY <2>1, OutputIsListed
<1> QED BY <1>1, <1>2, <1>3, <1>4

\* What was hashed whole is one output whole.
LEMMA HashedIsWhole ==
    ASSUME EmittedInv, Emitted, Hashed
    PROVE  \E v \in {1, 2} : [f \in OutputFiles |-> Text(f)] = output.made[v]
<1> DEFINE v == output.files["transfer"].text
           made == output.made[v]
<1>1. v \in {1, 2} /\ "transfer" \in OutputFiles
  BY DEF EmittedInv, OutputFiles
<1>2. Text("transfer") = made["transfer"]
  BY DEF Text
<1>3. \A f \in OutputFiles \ {"transfer"} : Text(f) = made["transfer"].entries[f]
  BY <1>2 DEF Hashed
<1>4. /\ made \in [OutputFiles -> {made[f] : f \in OutputFiles}]
      /\ \A f \in OutputFiles \ {"transfer"} : made["transfer"].entries[f] = made[f]
  BY <1>1, MadeIsListed
<1>5. \A f \in OutputFiles : Text(f) = made[f]
  BY <1>2, <1>3, <1>4
<1> HIDE DEF made
<1>6. [f \in OutputFiles |-> Text(f)] = made
  BY <1>4, <1>5
<1> QED BY <1>1, <1>6 DEF made

LEMMA PublisherStep ==
    ASSUME SignedInv, EmittedInv, PublisherInv, [HandoffNext]_<<vars, handoffVars>>
    PROVE  PublisherInv'
<1>0. "catalog" \in OutputFiles
  BY DEF OutputFiles, Assets
<1>1. ASSUME UNCHANGED <<output, publisher>> PROVE PublisherInv'
  BY <1>1 DEF PublisherInv, Emitted
<1>2. ASSUME NEW m \in {"sign", "recover-sign"}, Emit(m) PROVE PublisherInv'
  <2>1. publisher'.pc = "idle"
    BY <1>2 DEF Emit, EmittedInv
  <2> QED BY <2>1 DEF PublisherInv
<1>3. ASSUME NEW fs, NEW inode, Mix(fs, inode) PROVE PublisherInv'
  <2>1. /\ output'.made = output.made /\ publisher' = publisher
        /\ output'.files["catalog"].text = 2
              \/ output'.files["catalog"].text = output.files["catalog"].text
        /\ Emitted /\ Emitted'
    BY <1>0, <1>3 DEF Mix, EmittedInv, Emitted
  <2> QED BY <2>1 DEF PublisherInv
<1>4. ASSUME NEW trusted, HashFiles(trusted) PROVE PublisherInv'
  <2>1. /\ UNCHANGED output /\ Emitted /\ Emitted'
        /\ publisher'.pc \in {"hashed", "refused"} /\ (publisher'.pc = "hashed" => Hashed)
        /\ publisher'.hashed = [f \in OutputFiles |-> Text(f)]
        /\ DOMAIN publisher' = {"pc", "trusted", "bound", "inodes", "hashed", "payload"}
    BY <1>4 DEF HashFiles, Emitted
  <2>2. publisher'.pc = "hashed" => \E v \in {1, 2} : publisher'.hashed = output'.made[v]
    BY <2>1, HashedIsWhole
  <2>3. output.files["catalog"].text = 1 => publisher'.hashed["catalog"] = output.made[1]["catalog"]
    BY <1>0, <2>1 DEF Text
  <2> QED BY <2>1, <2>2, <2>3 DEF PublisherInv
<1>5. ASSUME ReadDocuments PROVE PublisherInv'
  <2>1. publisher.pc = "hashed" /\ UNCHANGED output
    BY <1>5 DEF ReadDocuments
  <2>2. /\ Emitted /\ Emitted'
        /\ DOMAIN publisher = {"pc", "trusted", "bound", "inodes", "hashed", "payload"}
        /\ \E v \in {1, 2} : publisher.hashed = output.made[v]
        /\ output.files["catalog"].text \in {1, 2}
    BY <1>0, <2>1 DEF PublisherInv, EmittedInv, Emitted
  <2>3. CASE publisher' = [publisher EXCEPT !.pc = "refused"]
    BY <2>2, <2>3 DEF PublisherInv
  <2>4. CASE publisher' = [publisher EXCEPT !.pc = "read", !.payload = Reread("catalog").payload]
    <3>1. /\ publisher'.pc = "read" /\ publisher'.hashed = publisher.hashed
          /\ publisher'.payload = Reread("catalog").payload /\ DOMAIN publisher' = DOMAIN publisher
      BY <2>2, <2>4
    <3>2. \/ Reread("catalog") = publisher.hashed["catalog"]
          \/ /\ output.files["catalog"].text = 2
             /\ Reread("catalog") = output.made[2]["catalog"]
      BY <2>1, <2>2 DEF Reread, Text, PublisherInv
    <3>3. output.files["catalog"].text = 1 =>
              publisher.hashed["catalog"] = output.made[1]["catalog"]
      BY <2>1 DEF PublisherInv
    <3> QED BY <2>1, <2>2, <3>1, <3>2, <3>3 DEF PublisherInv
  <2> QED BY <1>5, <2>3, <2>4 DEF ReadDocuments
<1>6. ASSUME ReverifyFiles PROVE PublisherInv'
  <2>1. /\ publisher.pc = "read" /\ UNCHANGED output /\ Emitted /\ Emitted'
        /\ DOMAIN publisher = {"pc", "trusted", "bound", "inodes", "hashed", "payload"}
        /\ \E v \in {1, 2} : publisher.hashed = output.made[v]
    BY <1>6 DEF ReverifyFiles, PublisherInv, Emitted
  <2>2. /\ publisher'.hashed = publisher.hashed /\ publisher'.payload = publisher.payload
        /\ DOMAIN publisher' = DOMAIN publisher
        /\ publisher'.pc \in {"admitted", "refused"}
        /\ publisher'.pc = "admitted" => SameFile("catalog")
    BY <1>0, <1>6, <2>1 DEF ReverifyFiles
  <2>3. publisher'.pc = "admitted" => publisher.payload = publisher.hashed["catalog"].payload
    BY <2>1, <2>2 DEF SameFile, Text, PublisherInv
  <2> QED BY <2>1, <2>2, <2>3 DEF PublisherInv
<1>7. ASSUME DropBinding PROVE PublisherInv'
  BY <1>1, <1>7 DEF DropBinding
<1> QED BY <1>1, <1>2, <1>3, <1>4, <1>5, <1>6, <1>7 DEF HandoffNext, Handoff, handoffVars

\* Both outputs are of one release: the catalog, the qualification that passed
\* on it, and the transfer the reverse manifest names.
LEMMA MadeIsOfOneRelease ==
    ASSUME SignerInv, EmittedInv, Emitted, NEW v \in {1, 2}
    PROVE  LET made == output.made[v]
           IN  /\ made["transfer"].input.source.release = made["catalog"].payload
               /\ made["qualification"].passed
               /\ made["qualification"].release = made["catalog"].payload
<1>1. CASE v = 1
  <2>1. signed # Absent /\ SignedIsAttested /\ SignedIsQualified
        /\ signed.assets.qualification = signed.manifest.qualification
    BY DEF EmittedInv, SignerInv, SignedInv
  <2> QED BY <1>1, <2>1, MadeIsListed DEF SignedIsAttested, SignedIsQualified
<1>2. CASE v = 2
  <2> DEFINE t == prepared[2]
             bundle == SignedBundle(Candidate(t.source.release, t.qualification, t.inputs,
                                              t.bytes, TRUE), "active")
             a == Attestation("sign", Sealed(Established("sign")), ManifestOf(t))
  <2>1. /\ bundle.envelope.payload = t.source.release
        /\ bundle.assets.qualification = t.qualification
    BY DEF SignedBundle, Envelope, Candidate
  <2>2. a.input.source.release = t.source.release
    BY ManifestRecords DEF Attestation
  <2>3. OtherOutput = Output(bundle, a)
    BY DEF OtherOutput
  <2> HIDE DEF bundle, a
  <2>4. /\ OtherOutput["catalog"] = bundle.envelope
        /\ OtherOutput["qualification"] = bundle.assets.qualification
        /\ OtherOutput["transfer"].input = a.input
    BY <2>3, OutputIsListed
  <2>5. t.qualification.passed /\ t.qualification.release = t.source.release
    BY DEF SignerInv, PreparedInv
  <2>6. output.made[v] = OtherOutput
    BY <1>2, MadeIsListed
  <2> HIDE DEF t
  <2> QED BY <2>1, <2>2, <2>4, <2>5, <2>6
<1> QED BY <1>1, <1>2

LEMMA AdmittedFollows ==
    ASSUME SignerInv, EmittedInv, PublisherInv
    PROVE  AdmittedIsSigned
<1> SUFFICES ASSUME publisher.pc = "admitted"
             PROVE  \E made \in {output.made[1], output.made[2]} :
                        /\ publisher.hashed = made
                        /\ publisher.payload = made["catalog"].payload
                        /\ made["transfer"].input.source.release = publisher.payload
                        /\ made["qualification"].passed
                        /\ made["qualification"].release = publisher.payload
  BY DEF AdmittedIsSigned
<1>1. Emitted /\ publisher.payload = publisher.hashed["catalog"].payload
  BY DEF PublisherInv
<1>2. PICK v \in {1, 2} : publisher.hashed = output.made[v]
  BY DEF PublisherInv
<1>3. LET made == output.made[v]
      IN  /\ made["transfer"].input.source.release = made["catalog"].payload
          /\ made["qualification"].passed
          /\ made["qualification"].release = made["catalog"].payload
  BY <1>1, MadeIsOfOneRelease
<1> QED BY <1>1, <1>2, <1>3

-----------------------------------------------------------------------------
(* Theorems                                                                *)

HandoffInv == SignerInv /\ EmittedInv /\ PublisherInv

\* The signer's ceremony and the handoff keep their invariant: at each step
\* the sandbox, the manifest, the records read, what was emitted and what
\* stage-local hashed fit together.
THEOREM HandoffIsConsistent == HandoffSpec => []HandoffInv
<1>1. HandoffInit => HandoffInv
  <2>1. HandoffInit => EmittedInv /\ PublisherInv
    BY DEF HandoffInit, EmittedInv, PublisherInv, Emitted
  <2> QED BY <2>1, SignerInit DEF HandoffInit, HandoffInv
<1>2. HandoffInv /\ [HandoffNext]_<<vars, handoffVars>> => HandoffInv'
  <2> SUFFICES ASSUME HandoffInv, [HandoffNext]_<<vars, handoffVars>> PROVE HandoffInv'
    OBVIOUS
  <2>1. [Next]_vars
    BY DEF HandoffNext
  <2>2. SignerInv' /\ SignedInv
    BY <2>1, SignerStep DEF HandoffInv, SignerInv
  <2> QED BY <2>2, EmittedStep, PublisherStep DEF HandoffInv
<1> QED BY <1>1, <1>2, PTL DEF HandoffSpec

\* The key is read only in the sandbox the launcher builds for the ceremony,
\* sealed: the signer (enter_signer_isolation) refuses every deviation from it.
THEOREM KeyStaysInSandbox == HandoffSpec => []KeyOnlyInSandbox
<1>1. HandoffInv => KeyOnlyInSandbox
  BY DEF HandoffInv, SignerInv, BoxInv, KeyOnlyInSandbox
<1> QED BY <1>1, HandoffIsConsistent, PTL

\* However the owner changes the transfer while a ceremony runs, what is signed
\* is of the one transfer whose digest the launcher verified.
THEOREM TheAttestedIsSigned == HandoffSpec => []SignedIsAttested
<1>1. HandoffInv => SignedIsAttested
  BY DEF HandoffInv, SignerInv, SignedInv
<1> QED BY <1>1, HandoffIsConsistent, PTL

\* What is signed passed its qualification, on the release the catalog
\* announces and with the objects observed for it, in both schemas.
THEOREM TheSignedIsQualified == HandoffSpec => []SignedIsQualified
<1>1. HandoffInv => SignedIsQualified
  BY DEF HandoffInv, SignerInv, SignedInv
<1> QED BY <1>1, HandoffIsConsistent, PTL

\* What stage-local admits (verify_transferred_signed_bundle) is one signed
\* release whole, whichever files were changed for another's and when.
THEOREM TheAdmittedIsSigned == HandoffSpec => []AdmittedIsSigned
<1>1. HandoffInv => AdmittedIsSigned
  BY AdmittedFollows DEF HandoffInv
<1> QED BY <1>1, HandoffIsConsistent, PTL

-----------------------------------------------------------------------------
(* Nothing is refused without a cause: the signer                          *)

\* What is wrong with the ceremony from its start, or was made so since.
Flawed ==
    \/ edits > 0
    \/ ~Sound(prepared[1]) \/ (mode = "assemble-intent") # (prepared[1].defect = "intent")
    \/ key.owner # "active"
Foreign == pc \in {"enter", "rejected"} /\ box \in Deviations(mode)

\* A sound transfer passes every check there is.
AcceptedAs(t, d) ==
    IF d = "intent" THEN /\ t.qualification = Absent /\ t.commit = FALSE
                         /\ t.inventory.kind = "release_intent" /\ AssembleIntent(t)
    ELSE /\ t.qualification # Absent /\ t.commit = TRUE
         /\ t.inventory.kind = "catalog_source" /\ FinalizeVersioned(t)

Expected == ManifestOf(prepared[1])

StartInv ==
    /\ edits \in Nat
    /\ edits = 0 => disk = [f \in FileNames |-> [inode |-> 1, name |-> 1, text |-> 1]]
    /\ Sound(prepared[1]) => AcceptedAs(prepared[1], prepared[1].defect)
    /\ DOMAIN retained = FileNames /\ DOMAIN key = {"owner", "read"}
    /\ pc = "signkey" => mode \in {"sign", "inspect-key"}
    /\ pc = "sign" => mode = "sign"

\* Where the manifest has been parsed and every file opened.
Opened == /\ mode # "inspect-key"
          /\ pc \in {"bind", "reverify", "key", "spawn", "read", "finalize", "signkey", "sign"}

\* A ceremony that nothing is wrong with goes on.
Unhindered ==
    /\ pc # "rejected" /\ (pc \in {"read", "finalize"} => mode # "inspect-key")
    /\ pc \in {"parse", "open"} \/ Opened => hashed = Expected
    /\ pc = "open" \/ Opened => manifest = Expected
    /\ pc \in {"parse", "open"} => retained["manifest"] = 1
    /\ pc = "open" => at \in 1..5 /\ \A i \in 1..5 : i < at => retained[Files[i]] = 1
    /\ Opened => \A f \in FileNames : retained[f] = 1
    /\ Opened /\ pc \in {"key", "reverify"} => at \in 1..6
    /\ pc = "enter" => box = Established(mode)
    /\ box # Absent /\ mode # "inspect-key" => attested = Expected
    /\ pc = "enter" /\ mode # "inspect-key" => attested = Expected

CauseInv == StartInv /\ (pc # "idle" => Flawed \/ Foreign \/ Unhindered)

\* The signer admits the sandbox the launcher builds.
LEMMA LauncherIsAdmitted ==
    ASSUME NEW m
    PROVE  Admits(Established(m))
<1> DEFINE made == Established(m)
<1>0. /\ made.mode = m /\ made.names = LauncherNames /\ made.fresh = Namespaces
      /\ made.readonly = Bound(m) \ {"/output"} /\ made.filter = LauncherFilter
      /\ made.interfaces = {"lo"} /\ made.privileges = {} /\ made.extraFds = 0
      /\ made.coreLimit = 0 /\ made.mounts = ExpectedMounts(m)
  BY MountsAgree DEF Established
<1> HIDE DEF made
<1>1. ExactEnvironment(made) /\ VerifyNamespaces(made)
  BY <1>0 DEF ExactEnvironment, VerifyNamespaces
<1>2. VerifyPrefilter(made)
  BY <1>0 DEF VerifyPrefilter, LauncherFilter
<1>3. VerifyMounts(made)
  BY <1>0 DEF VerifyMounts, Bound, RequiresInput, RequiresKey, RequiresOutput
<1>4. LauncherFilter # {}
  BY DEF LauncherFilter, Syscalls
<1>5. VerifyKernelStatus(made)
  BY <1>0, <1>4 DEF VerifyKernelStatus
<1>6. QED
  BY <1>1, <1>2, <1>3, <1>5 DEF Admits, made

\* What Transfer makes without a defect, or for an intent, is accepted.
LEMMA SoundIsAccepted ==
    ASSUME NEW schema \in Schemas, NEW release \in Releases, NEW other \in Releases,
           NEW d \in {"none", "intent"}
    PROVE  AcceptedAs(Transfer(schema, release, other, d), d)
<1> DEFINE t == Transfer(schema, release, other, d)
           record == Qualification(schema, release, CurrentKeyring, TRUE, FALSE)
<1>1. record # Absent
  <2>1. ASSUME NEW passed \in BOOLEAN, NEW late \in BOOLEAN
        PROVE  Qualification(schema, release, CurrentKeyring, passed, late) # Absent
    BY RulesAssumption DEF Qualification, Schemas
  <2>2. QED
    BY <2>1
<1>2. CASE d = "none"
  <2>1. /\ t.source = CatalogSource(schema, release, record) /\ t.qualification = record
        /\ t.inputs = release /\ t.bytes = release /\ t.commit = TRUE
        /\ t.inventory = Inventory("catalog_source", CatalogSource(schema, release, record),
                                   CompatibilityInput(schema, release, CurrentKeyring),
                                   Objects(release))
    BY <1>2 DEF Transfer
  <2>2. /\ record.schema = schema /\ record.release = release
        /\ record.keyring = CurrentKeyring /\ record.passed /\ ~record.late
    BY DEF Qualification
  <2>3. /\ t.source.schema = schema /\ t.source.release = release /\ t.source.names = record
    BY <2>1 DEF CatalogSource
  <2>4. /\ t.inventory.kind = "catalog_source" /\ t.inventory.source = t.source
        /\ t.inventory.compat = CompatibilityInput(schema, release, CurrentKeyring)
        /\ t.inventory.objects = Objects(release)
    BY <2>1 DEF Inventory
  <2> HIDE DEF t, record
  <2>5. VerifyObjectGraph(t.source.release, t.inputs, t.inventory, t.bytes)
    BY <2>1, <2>3, <2>4 DEF VerifyObjectGraph
  <2>6. FinalizeVersioned(t)
    <3>1. CASE schema = 2
      BY <2>1, <2>2, <2>3, <2>4, <2>5, <3>1
         DEF FinalizeVersioned, FinalizeInstaller, FinalizePayload, VerifyPiReleaseQualification
    <3>2. CASE schema = 1
      BY <2>1, <2>2, <2>3, <2>4, <2>5, <3>2
         DEF FinalizeVersioned, FinalizeCandidateV1, VerifyQualificationV1
    <3>3. QED
      BY <3>1, <3>2 DEF Schemas
  <2>7. AcceptedAs(t, d)
    BY <1>1, <1>2, <2>1, <2>4, <2>6 DEF AcceptedAs
  <2>8. QED
    BY <2>7 DEF t
<1>3. CASE d = "intent"
  <2> DEFINE source == CatalogSource(schema, release, Absent)
  <2>1. /\ t.source = source /\ t.qualification = Absent
        /\ t.inputs = release /\ t.bytes = release /\ t.commit = FALSE
        /\ t.inventory = Inventory("release_intent", source, IntentSemantic(release),
                                   Objects(release))
    BY <1>3 DEF Transfer
  <2>2. source.release = release
    BY DEF CatalogSource
  <2>3. /\ t.inventory.kind = "release_intent" /\ t.inventory.source = t.source
        /\ t.inventory.compat = IntentSemantic(release)
        /\ t.inventory.objects = Objects(release)
    BY <2>1 DEF Inventory
  <2> HIDE DEF t, source
  <2>4. AssembleIntent(t)
    BY <2>1, <2>2, <2>3 DEF AssembleIntent, VerifyObjectGraph
  <2>5. AcceptedAs(t, d)
    BY <1>3, <2>1, <2>3, <2>4 DEF AcceptedAs
  <2>6. QED
    BY <2>5 DEF t
<1>4. QED
  BY <1>2, <1>3

\* A transfer without a defect is accepted, and nothing is changed yet.
LEMMA CauseInit ==
    ASSUME Init
    PROVE  CauseInv
<1>1. PICK schema \in Schemas, r \in Releases, d \in Defects, other \in Releases :
          prepared = <<Transfer(schema, r, other, d), Transfer(schema, other, r, "none")>>
  BY DEF Init
<1> DEFINE one == Transfer(schema, r, other, d)
           two == Transfer(schema, other, r, "none")
<1>2. one.defect = d
  BY DEF Transfer
<1>3. d \in {"none", "intent"} => AcceptedAs(one, d)
  BY SoundIsAccepted
<1> HIDE DEF one, two
<1>4. prepared[1] = one
  BY <1>1 DEF one, two
<1>5. Sound(prepared[1]) => AcceptedAs(prepared[1], prepared[1].defect)
  BY <1>2, <1>3, <1>4 DEF Sound
<1>6. DOMAIN retained = FileNames /\ DOMAIN key = {"owner", "read"} /\ pc = "idle" /\ edits = 0
  BY DEF Init
<1>7. disk = [f \in FileNames |-> [inode |-> 1, name |-> 1, text |-> 1]]
  BY DEF Init
<1>8. QED
  BY <1>5, <1>6, <1>7 DEF CauseInv, StartInv

\* What holds from the start.
LEMMA StartStep ==
    ASSUME StartInv, [Next]_vars
    PROVE  StartInv'
<1>1. prepared' = prepared
  BY PreparedStep
<1>2. edits' \in Nat
      /\ (edits' = 0 => disk' = [f \in FileNames |-> [inode |-> 1, name |-> 1, text |-> 1]])
  <2>1. CASE Edit
    BY <2>1 DEF StartInv, Edit
  <2>2. CASE ~Edit
    <3>1. edits' = edits /\ disk' = disk
      BY <2>2 DEF Next, Launch, RunByHand, HashManifest, ParseManifest, OpenFile, BindTransfer,
                  Reverify, OpenKey, Spawn, Enter, ReadRecord, Finalize, ReadKey, Sign, Around,
                  vars
    <3>2. QED
      BY <3>1 DEF StartInv
  <2>3. QED
    BY <2>1, <2>2
<1>3. Sound(prepared[1])' => AcceptedAs(prepared[1], prepared[1].defect)'
  BY <1>1 DEF StartInv, Sound, AcceptedAs
<1>4. DOMAIN retained' = FileNames
  BY DEF StartInv, Next, Launch, RunByHand, Edit, HashManifest, ParseManifest, OpenFile,
         BindTransfer, Reverify, OpenKey, Spawn, Enter, ReadRecord, Finalize, ReadKey, Sign,
         Around, Reject, vars
<1>5. DOMAIN key' = {"owner", "read"}
  BY DEF StartInv, Next, Launch, RunByHand, Edit, HashManifest, ParseManifest, OpenFile,
         BindTransfer, Reverify, OpenKey, Spawn, Enter, ReadRecord, Finalize, ReadKey, Sign,
         Around, Reject, vars
<1>6. /\ pc' = "signkey" => mode' \in {"sign", "inspect-key"}
      /\ pc' = "sign" => mode' = "sign"
  <2>1. \A n : AfterPass(n) \in {"read", "reverify", "spawn", "key"}
    BY DEF AfterPass
  <2>2. CASE Finalize \/ ReadKey \/ Sign
    BY <2>2 DEF StartInv, Finalize, ReadKey, Sign, Around, Reject, Goto
  <2>3. CASE Enter
    BY <2>3 DEF Enter, Reject, Goto, RequiresInput
  <2>4. CASE Reverify
    BY <2>1, <2>4 DEF Reverify, Reject, Goto
  <2>5. CASE UNCHANGED <<pc, mode>>
    BY <2>5 DEF StartInv
  <2>6. CASE pc' \notin {"signkey", "sign"}
    BY <2>6
  <2>7. QED
    BY <2>2, <2>3, <2>4, <2>5, <2>6
       DEF Next, Launch, RunByHand, Edit, HashManifest, ParseManifest, OpenFile, BindTransfer,
           OpenKey, Spawn, ReadRecord, Around, Reject, Goto, vars
<1>7. QED
  BY <1>2, <1>3, <1>4, <1>5, <1>6 DEF StartInv

\* What is wrong stays wrong.
LEMMA FlawedStays ==
    ASSUME StartInv, [Next]_vars, pc # "idle", Flawed
    PROVE  Flawed'
<1>1. prepared' = prepared /\ (edits > 0 => edits' > 0)
  BY PreparedStep
     DEF StartInv, Next, Launch, RunByHand, Edit, HashManifest, ParseManifest, OpenFile,
         BindTransfer, Reverify, OpenKey, Spawn, Enter, ReadRecord, Finalize, ReadKey, Sign,
         Around, vars
<1>2. mode' = mode
  BY DEF Next, Launch, RunByHand, Edit, HashManifest, ParseManifest, OpenFile, BindTransfer,
         Reverify, OpenKey, Spawn, Enter, ReadRecord, Finalize, ReadKey, Sign, Around, vars
<1>3. key'.owner = key.owner
  BY DEF StartInv, Next, Launch, RunByHand, Edit, HashManifest, ParseManifest, OpenFile,
         BindTransfer, Reverify, OpenKey, Spawn, Enter, ReadRecord, Finalize, ReadKey, Sign,
         Around, Reject, vars
<1>4. QED
  BY <1>1, <1>2, <1>3 DEF Flawed, Sound

\* A foreign sandbox is refused.
LEMMA ForeignStays ==
    ASSUME StartInv, [Next]_vars, Foreign
    PROVE  Flawed' \/ Foreign'
<1>1. CASE pc = "rejected"
  BY <1>1 DEF Foreign, Next, Launch, RunByHand, Edit, HashManifest, ParseManifest, OpenFile,
         BindTransfer, Reverify, OpenKey, Spawn, Enter, ReadRecord, Finalize, ReadKey, Sign, vars
<1>2. CASE pc = "enter"
  <2>1. CASE Edit
    BY <2>1 DEF Edit, StartInv, Flawed
  <2>2. CASE Enter
    <3>1. ~Admits(box)
      BY <1>2, DeviationIsRefused DEF Foreign
    <3>2. QED
      BY <2>2, <3>1 DEF Enter, Foreign, Reject, Goto
  <2>3. CASE UNCHANGED vars
    BY <2>3 DEF vars, Foreign
  <2>4. QED
    BY <1>2, <2>1, <2>2, <2>3 DEF Next, Launch, RunByHand, HashManifest, ParseManifest, OpenFile,
         BindTransfer, Reverify, OpenKey, Spawn, ReadRecord, Finalize, ReadKey, Sign
<1>3. QED
  BY <1>1, <1>2 DEF Foreign

\* What an unflawed ceremony finds on the disk and in the transfer.
LEMMA UnflawedFacts ==
    ASSUME StartInv, ~Flawed
    PROVE  /\ \A f \in FileNames : disk[f].inode = 1 /\ disk[f].text = 1 /\ disk[f].name = 1
           /\ Content("manifest", 1) = Expected
           /\ \A f \in FileNames \ {"manifest"} : Content(f, 1) = Expected[f]
           /\ AcceptedAs(prepared[1], prepared[1].defect)
           /\ mode = "assemble-intent" <=> prepared[1].defect = "intent"
           /\ key.owner = "active"
<1>1. edits = 0 /\ Sound(prepared[1]) /\ key.owner = "active"
      /\ (mode = "assemble-intent" <=> prepared[1].defect = "intent")
  BY DEF StartInv, Flawed
<1>2. \A f \in FileNames : disk[f].inode = 1 /\ disk[f].text = 1 /\ disk[f].name = 1
  BY <1>1 DEF StartInv
<1>3. Content("manifest", 1) = Expected
  BY DEF Content, Expected
<1>4. \A f \in {"source", "qualification", "inputs", "bytes", "inventory"} :
          Content(f, 1) = Expected[f]
  BY DEF Content, Expected, ManifestOf
<1>5. \A f \in FileNames \ {"manifest"} : Content(f, 1) = Expected[f]
  BY <1>4, FileNumbers
<1>6. QED
  BY <1>1, <1>2, <1>3, <1>5 DEF StartInv

\* The first transfer stays what it was prepared as.
LEMMA ExpectedStays ==
    ASSUME [Next]_vars
    PROVE  Expected' = Expected
BY PreparedStep DEF Expected, ManifestOf

\* A retained file of an unhindered ceremony verifies.
LEMMA RetainedVerifies ==
    ASSUME StartInv, ~Flawed, Unhindered, Opened, NEW f \in FileNames
    PROVE  VerifyRetained(f)
<1>1. /\ disk[f].inode = 1 /\ disk[f].text = 1 /\ Content("manifest", 1) = Expected
      /\ (f # "manifest" => Content(f, 1) = Expected[f])
  BY UnflawedFacts
<1>2. retained[f] = 1 /\ hashed = Expected /\ manifest = Expected
  BY DEF Unhindered
<1>3. QED
  BY <1>1, <1>2 DEF VerifyRetained

\* Each step of a ceremony nothing is wrong with is followed by the next.
LEMMA UnhinderedLaunch ==
    ASSUME BoxInv, NEW m \in Ceremonies, Launch(m)
    PROVE  Unhindered'
<1>1. box' = Absent /\ mode' = m /\ pc' = (IF m = "inspect-key" THEN "key" ELSE "hash")
  BY DEF BoxInv, Launch, Goto
<1>2. QED
  BY <1>1 DEF Unhindered, Opened

LEMMA UnhinderedHash ==
    ASSUME StartInv, ~Flawed, Unhindered, HashManifest
    PROVE  Unhindered'
<1>1. /\ pc = "hash" /\ pc' = "parse" /\ UNCHANGED <<mode, box, attested, manifest, prepared>>
      /\ hashed' = Content("manifest", disk["manifest"].text)
      /\ retained' = [retained EXCEPT !["manifest"] = disk["manifest"].inode]
  BY DEF HashManifest, Goto, Around
<1>2. "manifest" \in FileNames
  BY FileNumbers
<1>3. hashed' = Expected /\ retained'["manifest"] = 1
  BY <1>1, <1>2, UnflawedFacts DEF StartInv
<1>4. Expected' = Expected
  BY <1>1 DEF Expected, ManifestOf
<1>5. QED
  BY <1>1, <1>3, <1>4 DEF Unhindered, Opened

LEMMA UnhinderedParse ==
    ASSUME StartInv, ~Flawed, Unhindered, ParseManifest
    PROVE  Unhindered'
<1>1. /\ pc = "parse" /\ pc' = "open" /\ at' = 1
      /\ UNCHANGED <<mode, box, attested, hashed, retained, prepared>>
      /\ manifest' = IF disk["manifest"].inode = retained["manifest"]
                     THEN Content("manifest", disk["manifest"].text) ELSE hashed
  BY DEF ParseManifest, Goto, Around
<1>2. "manifest" \in FileNames
  BY FileNumbers
<1>3. manifest' = Expected
  BY <1>1, <1>2, UnflawedFacts DEF Unhindered
<1>4. Expected' = Expected
  BY <1>1 DEF Expected, ManifestOf
<1>5. QED
  BY <1>1, <1>3, <1>4 DEF Unhindered, Opened

LEMMA UnhinderedOpen ==
    ASSUME StartInv, ~Flawed, Unhindered, OpenFile
    PROVE  Unhindered'
<1>1. /\ pc = "open" /\ at \in 1..5 /\ \A i \in 1..5 : i < at => retained[Files[i]] = 1
      /\ hashed = Expected /\ manifest = Expected /\ retained["manifest"] = 1
  BY DEF OpenFile, Unhindered
<1>2. Files[at] \in FileNames \ {"manifest"}
  BY <1>1, FileNumbers
<1>3. Content(Files[at], disk[Files[at]].text) = manifest[Files[at]] /\ Listed(Files[at])
  BY <1>1, <1>2, UnflawedFacts DEF Listed
<1>4. /\ UNCHANGED <<mode, box, attested, hashed, manifest, prepared>>
      /\ retained' = [retained EXCEPT ![Files[at]] = disk[Files[at]].inode]
      /\ IF Files[at + 1] = "manifest" THEN pc' = "bind" ELSE at' = at + 1 /\ pc' = pc
  BY <1>3 DEF OpenFile, Goto, Around
<1>5. /\ retained'[Files[at]] = 1 /\ \A f \in FileNames : retained[f] = 1 => retained'[f] = 1
  BY <1>2, <1>4, UnflawedFacts DEF StartInv
<1>6. Expected' = Expected
  BY <1>4 DEF Expected, ManifestOf
<1>7. retained'["manifest"] = 1 /\ \A i \in 1..5 : i < at + 1 => retained'[Files[i]] = 1
  BY <1>1, <1>5, FileNumbers
<1>8. CASE at = 5
  <2>1. pc' = "bind"
    BY <1>4, <1>8, FileNumbers
  <2>2. \A f \in FileNames : retained'[f] = 1
    BY <1>7, <1>8, FileNumbers
  <2>3. QED
    BY <1>1, <1>4, <1>6, <2>1, <2>2 DEF Unhindered, Opened
<1>9. CASE at # 5
  <2>1. pc' = "open" /\ at' = at + 1 /\ at' \in 1..5
    <3>1. at + 1 \in 2..5
      BY <1>1, <1>9
    <3>2. Files[at + 1] # "manifest"
      BY <3>1, FileNumbers
    <3>3. QED
      BY <1>1, <1>4, <3>1, <3>2
  <2>2. QED
    BY <1>1, <1>4, <1>6, <1>7, <2>1 DEF Unhindered, Opened
<1>10. QED
  BY <1>8, <1>9

LEMMA UnhinderedBind ==
    ASSUME StartInv, ~Flawed, Unhindered, ManifestInv, BindTransfer
    PROVE  Unhindered'
<1>1. pc = "bind" /\ mode # "inspect-key" /\ Opened
  BY DEF BindTransfer, ManifestInv, Opened
<1>2. manifest = Expected /\ hashed = Expected /\ \A f \in FileNames : retained[f] = 1
  BY <1>1 DEF Unhindered
<1>3. CrossBind(manifest, manifest.inventory)
  <2> DEFINE t == prepared[1]
  <2>1. AcceptedAs(t, t.defect)
    BY UnflawedFacts
  <2>2. /\ manifest.commit = t.commit /\ manifest.qualification = t.qualification
        /\ manifest.inventory = t.inventory /\ manifest.objects = t.inventory.objects
    BY <1>2 DEF Expected, ManifestOf
  <2> HIDE DEF t
  <2>3. QED
    BY <2>1, <2>2 DEF AcceptedAs, CrossBind
<1>4. /\ pc' = "reverify" /\ at' = 1
      /\ UNCHANGED <<mode, box, attested, hashed, manifest, retained, prepared>>
  BY <1>3 DEF BindTransfer, Goto, Around
<1>5. Expected' = Expected
  BY <1>4 DEF Expected, ManifestOf
<1>6. QED
  BY <1>1, <1>2, <1>4, <1>5 DEF Unhindered, Opened

LEMMA UnhinderedReverify ==
    ASSUME StartInv, ~Flawed, Unhindered, ManifestInv, Reverify
    PROVE  Unhindered'
<1>1. pc = "reverify" /\ mode # "inspect-key" /\ Opened
  BY DEF Reverify, ManifestInv, Opened
<1>2. /\ manifest = Expected /\ hashed = Expected /\ \A f \in FileNames : retained[f] = 1
      /\ at \in 1..6 /\ (box # Absent => attested = Expected)
  BY <1>1 DEF Unhindered
<1>3. Files[at] \in FileNames
  BY <1>2, FileNumbers
<1>4. VerifyRetained(Files[at]) /\ SameTransfer
  BY <1>1, <1>2, <1>3, RetainedVerifies DEF SameTransfer, InSandbox
<1>5. /\ at' = IF at = 6 THEN 1 ELSE at + 1
      /\ IF at = 6 THEN pc' = AfterPass(pass + 1) ELSE pc' = pc
      /\ UNCHANGED <<mode, box, attested, hashed, manifest, retained, prepared>>
  BY <1>4, FileNumbers DEF Reverify, Goto, Around
<1>6. \A n : AfterPass(n) \in {"read", "reverify", "spawn", "key"}
  BY DEF AfterPass
<1>7. at' \in 1..6
  BY <1>2, <1>5
<1>8. pc' \in {"read", "reverify", "spawn", "key"}
  BY <1>1, <1>5, <1>6
<1>9. Expected' = Expected
  BY <1>5 DEF Expected, ManifestOf
<1>10. QED
  BY <1>1, <1>2, <1>5, <1>7, <1>8, <1>9 DEF Unhindered, Opened

LEMMA UnhinderedOpenKey ==
    ASSUME Unhindered, OpenKey
    PROVE  Unhindered'
<1>1. /\ pc = "key" /\ pc' = (IF mode = "inspect-key" THEN "spawn" ELSE "reverify")
      /\ UNCHANGED <<at, mode, box, attested, hashed, manifest, retained, prepared>>
  BY DEF OpenKey, Goto, Around
<1>2. Expected' = Expected
  BY <1>1 DEF Expected, ManifestOf
<1>3. QED
  BY <1>1, <1>2 DEF Unhindered, Opened

LEMMA UnhinderedSpawn ==
    ASSUME Unhindered, Spawn
    PROVE  Unhindered'
<1>1. /\ pc = "spawn" /\ pc' = "enter" /\ box' = Established(mode) /\ attested' = hashed
      /\ UNCHANGED <<mode, hashed, prepared>>
  BY DEF Spawn, Goto
<1>2. Expected' = Expected
  BY <1>1 DEF Expected, ManifestOf
<1>3. QED
  BY <1>1, <1>2 DEF Unhindered, Opened

LEMMA UnhinderedEnter ==
    ASSUME Unhindered, Enter
    PROVE  Unhindered'
<1>1. Admits(box)
  BY LauncherIsAdmitted DEF Enter, Unhindered
<1>2. /\ pc = "enter" /\ pc' = (IF mode # "inspect-key" THEN "hash" ELSE "signkey")
      /\ UNCHANGED <<mode, attested, prepared>>
  BY <1>1 DEF Enter, Goto, RequiresInput
<1>3. Expected' = Expected
  BY <1>2 DEF Expected, ManifestOf
<1>4. QED
  BY <1>2, <1>3 DEF Unhindered, Opened

LEMMA UnhinderedReadRecord ==
    ASSUME StartInv, ~Flawed, Unhindered, ReadInv, ReadRecord
    PROVE  Unhindered'
<1>1. pc = "read" /\ at \in 1..4 /\ mode # "inspect-key" /\ Opened
  BY DEF ReadRecord, ReadInv, Unhindered, Opened
<1>2. Records[at] \in FileNames
  BY <1>1, FileNumbers
<1>3. VerifyRetained(Records[at])
  BY <1>1, <1>2, RetainedVerifies
<1>4. /\ pc' \in {"finalize", "read"}
      /\ UNCHANGED <<mode, box, attested, hashed, manifest, retained, prepared>>
  BY <1>1, <1>3 DEF ReadRecord, Goto, Around
<1>5. Expected' = Expected
  BY <1>4 DEF Expected, ManifestOf
<1>6. QED
  BY <1>1, <1>4, <1>5 DEF Unhindered, Opened

\* The rules look at these six parts of a transfer.
LEMMA RulesAgree ==
    ASSUME NEW s, NEW t, s.source = t.source, s.qualification = t.qualification,
           s.inputs = t.inputs, s.bytes = t.bytes, s.inventory = t.inventory, s.commit = t.commit
    PROVE  /\ AssembleIntent(s) = AssembleIntent(t)
           /\ FinalizeVersioned(s) = FinalizeVersioned(t)
BY DEF AssembleIntent, FinalizeVersioned, FinalizeInstaller, FinalizeCandidateV1

LEMMA UnhinderedFinalize ==
    ASSUME StartInv, ~Flawed, Unhindered, ReadInv, Finalize
    PROVE  Unhindered'
<1> DEFINE t == prepared[1]
           s == ReadTransfer
<1>1. pc = "finalize" /\ mode # "inspect-key" /\ Opened
  BY DEF Finalize, Unhindered, Opened
<1>2. manifest = Expected /\ \A i \in 1..4 : read[i] = manifest[Records[i]]
  BY <1>1 DEF Unhindered, ReadInv, Verified
<1>3. /\ read[1] = manifest.source /\ read[2] = manifest.qualification
      /\ read[3] = manifest.inputs /\ read[4] = manifest.bytes
  BY <1>2, FileNumbers
<1>4. /\ manifest.source = t.source /\ manifest.qualification = t.qualification
      /\ manifest.inputs = t.inputs /\ manifest.bytes = t.bytes
      /\ manifest.inventory = t.inventory /\ manifest.commit = t.commit
  BY <1>2 DEF Expected, ManifestOf
<1>5. /\ s.source = t.source /\ s.qualification = t.qualification /\ s.inputs = t.inputs
      /\ s.bytes = t.bytes /\ s.inventory = t.inventory /\ s.commit = t.commit
  BY <1>3, <1>4 DEF ReadTransfer
<1>6. AcceptedAs(t, t.defect) /\ (mode = "assemble-intent" <=> t.defect = "intent")
  BY UnflawedFacts
<1> HIDE DEF s, t
<1>7. AssembleIntent(s) = AssembleIntent(t) /\ FinalizeVersioned(s) = FinalizeVersioned(t)
  BY <1>5, RulesAgree
<1>8. IF mode = "assemble-intent" THEN AssembleIntent(s)
      ELSE manifest.qualification # Absent /\ FinalizeVersioned(s)
  BY <1>4, <1>6, <1>7 DEF AcceptedAs
<1>9. IF mode = "assemble-intent" THEN AssembleIntent(ReadTransfer)
      ELSE manifest.qualification # Absent /\ FinalizeVersioned(ReadTransfer)
  BY <1>8 DEF s
<1>10. /\ pc' \in {"signkey", "done"}
       /\ UNCHANGED <<mode, box, attested, hashed, manifest, retained, prepared>>
  BY <1>9 DEF Finalize, Goto, Around
<1>11. Expected' = Expected
  BY <1>10 DEF Expected, ManifestOf
<1>12. QED
  BY <1>1, <1>10, <1>11 DEF Unhindered, Opened

LEMMA UnhinderedReadKey ==
    ASSUME StartInv, ~Flawed, Unhindered, ReadKey
    PROVE  Unhindered'
<1>1. /\ pc = "signkey" /\ key.owner = "active"
      /\ UNCHANGED <<mode, box, attested, hashed, manifest, retained, prepared>>
  BY UnflawedFacts DEF ReadKey, Around
<1>2. pc' = IF mode = "inspect-key" THEN "done" ELSE "sign"
  BY <1>1 DEF ReadKey, Goto
<1>3. Expected' = Expected
  BY <1>1 DEF Expected, ManifestOf
<1>4. QED
  BY <1>1, <1>2, <1>3 DEF Unhindered, Opened

\* A bundle signed by a key verifies with it.
LEMMA BundleVerifies ==
    ASSUME NEW candidate, NEW k
    PROVE  VerifySignedBytes(SignedBundle(candidate, k), {k})
BY DEF SignedBundle, SignedFiles, Envelope, VerifySignedBytes, VerifyReleaseInventory,
       VerifySignature

\* Only a transfer with a commit is finalized for signing.
LEMMA FinalizedHasCommit ==
    ASSUME NEW t, FinalizeVersioned(t)
    PROVE  t.commit
BY DEF FinalizeVersioned, FinalizeInstaller, FinalizeCandidateV1

LEMMA UnhinderedSign ==
    ASSUME StartInv, ~Flawed, Unhindered, ReadInv, Sign
    PROVE  Unhindered'
<1>1. pc = "sign" /\ key.owner = "active" /\ mode = "sign"
  BY UnflawedFacts DEF Sign, StartInv
<1>2. /\ manifest.qualification # Absent /\ FinalizeVersioned(ReadTransfer)
      /\ \A i \in 1..4 : read[i] = manifest[Records[i]]
  BY <1>1 DEF ReadInv, Verified
<1>3. Finalized.qualification = manifest.qualification /\ Finalized.commit = manifest.commit
  BY <1>2, FileNumbers DEF Finalized, Candidate
<1>4. manifest.commit
  <2>1. ReadTransfer.commit = manifest.commit
    BY DEF ReadTransfer
  <2>2. QED
    BY <1>2, <2>1, FinalizedHasCommit
<1>5. Signable(Finalized)
  BY <1>2, <1>3, <1>4 DEF Signable
<1>6. VerifySignedBytes(SignedBundle(Finalized, key.owner), {"active"})
  BY <1>1, BundleVerifies
<1>7. pc' = "done" /\ UNCHANGED <<mode, box, attested, prepared>>
  BY <1>5, <1>6 DEF Sign, Goto, Around
<1>8. Expected' = Expected
  BY <1>7 DEF Expected, ManifestOf
<1>9. QED
  BY <1>1, <1>7, <1>8 DEF Unhindered, Opened

\* A ceremony goes on until something is wrong with it.
LEMMA CauseStep ==
    ASSUME SignerInv, CauseInv, [Next]_vars
    PROVE  CauseInv'
<1>0. StartInv /\ StartInv' /\ BoxInv /\ ManifestInv /\ ReadInv
  BY StartStep DEF CauseInv, SignerInv
<1>1. CASE pc = "idle"
  <2>1. ASSUME NEW m \in Ceremonies, Launch(m) PROVE Unhindered'
    BY <1>0, <2>1, UnhinderedLaunch
  <2>2. ASSUME NEW m \in Ceremonies, RunByHand(m) PROVE Foreign'
    BY <2>2 DEF RunByHand, Foreign, Goto
  <2>3. (\E m \in Ceremonies : Launch(m) \/ RunByHand(m)) \/ pc' = "idle"
    BY <1>1 DEF Next, Edit, HashManifest, ParseManifest, OpenFile, BindTransfer, Reverify,
                OpenKey, Spawn, Enter, ReadRecord, Finalize, ReadKey, Sign, vars
  <2>4. QED
    BY <1>0, <2>1, <2>2, <2>3 DEF CauseInv
<1>2. CASE pc # "idle" /\ Flawed
  BY <1>0, <1>2, FlawedStays DEF CauseInv
<1>3. CASE Foreign
  BY <1>0, <1>3, ForeignStays DEF CauseInv
<1>4. CASE pc # "idle" /\ ~Flawed /\ Unhindered
  <2>1. CASE Edit
    BY <1>0, <2>1 DEF CauseInv, Edit, StartInv, Flawed
  <2>2. CASE UNCHANGED vars
    <3>1. Unhindered'
      BY <1>4, <2>2 DEF vars, Unhindered, Opened, Expected, ManifestOf
    <3>2. QED
      BY <1>0, <3>1 DEF CauseInv
  <2>3. CASE ~Edit /\ ~UNCHANGED vars
    <3>1. \/ HashManifest \/ ParseManifest \/ OpenFile \/ BindTransfer \/ Reverify
          \/ OpenKey \/ Spawn \/ Enter \/ ReadRecord \/ Finalize \/ ReadKey \/ Sign
      BY <1>4, <2>3 DEF Next, Launch, RunByHand
    <3>2. Unhindered'
      BY <1>0, <1>4, <3>1, UnhinderedHash, UnhinderedParse, UnhinderedOpen, UnhinderedBind,
         UnhinderedReverify, UnhinderedOpenKey, UnhinderedSpawn, UnhinderedEnter,
         UnhinderedReadRecord, UnhinderedFinalize, UnhinderedReadKey, UnhinderedSign
    <3>3. QED
      BY <1>0, <3>2 DEF CauseInv
  <2>4. QED
    BY <2>1, <2>2, <2>3
<1>5. QED
  BY <1>1, <1>2, <1>3, <1>4 DEF CauseInv

\* A ceremony that was rejected has a cause.
LEMMA CauseFollows ==
    ASSUME CauseInv
    PROVE  Rejected => CauseToReject
BY DEF CauseInv, Rejected, CauseToReject, Flawed, Foreign, Unhindered

-----------------------------------------------------------------------------
(* Nothing is refused without a cause: stage-local                         *)

\* What is signed was signed in the launcher's sandbox, and verifies.
SignedVerifies ==
    signed # Absent =>
        /\ mode = "sign" /\ box = Sealed(Established("sign"))
        /\ VerifySignedBytes(signed, {"active"})
        /\ VerifyReleaseAssets(signed.envelope, signed.manifest)

\* Until it is changed the output is what the signer left, and stage-local has
\* taken that.
PublisherCause ==
    /\ mixes \in Nat
    /\ Emitted =>
          \E m \in {"sign", "recover-sign"} :
              output.made = <<Output(signed, Attestation(m, Sealed(Established(m)), attested)),
                              OtherOutput>>
    /\ Emitted /\ mixes = 0 =>
          output.files = [f \in OutputFiles |-> [inode |-> 1, text |-> 1]]
    /\ mixes = 0 /\ publisher.pc \in {"hashed", "read"} =>
          /\ publisher.hashed = output.made[1]
          /\ publisher.inodes = [f \in OutputFiles |-> 1]
    /\ publisher.pc \in {"hashed", "read"} => publisher.trusted \in {{}, {"active"}}
    /\ publisher.pc = "refused" => mixes > 0 \/ publisher.bound \/ publisher.trusted = {}

\* What is signed verifies, and lies still.
LEMMA SignedVerifiesStep ==
    ASSUME SignerInv, StartInv, SignedVerifies, [Next]_vars
    PROVE  SignedVerifies'
<1>1. CASE Sign /\ signed' # signed
  <2>1. /\ pc = "sign" /\ signed' = SignedBundle(Finalized, key.owner)
        /\ VerifySignedBytes(SignedBundle(Finalized, key.owner), {"active"})
        /\ UNCHANGED <<mode, box>>
    BY <1>1 DEF Sign, Reject, Around
  <2>2. mode = "sign" /\ box = Sealed(Established("sign"))
    BY <2>1 DEF StartInv, SignerInv, BoxInv
  <2>3. VerifyReleaseAssets(signed'.envelope, signed'.manifest)
    BY <2>1 DEF SignedBundle, Envelope, VerifyReleaseAssets
  <2>4. QED
    BY <2>1, <2>2, <2>3 DEF SignedVerifies, VerifySignedBytes
<1>2. CASE ~(Sign /\ signed' # signed) /\ signed # Absent
  <2>1. UNCHANGED <<signed, mode, box>>
    BY <1>2 DEF Next, Launch, RunByHand, Edit, HashManifest, ParseManifest, OpenFile,
              BindTransfer, Reverify, OpenKey, Spawn, Enter, ReadRecord, Finalize, ReadKey, Sign,
              vars, SignerInv, SignedInv
  <2>2. QED
    BY <2>1 DEF SignedVerifies
<1>3. CASE ~(Sign /\ signed' # signed) /\ signed = Absent
  <2>1. signed' = signed
    BY <1>3 DEF Next, Launch, RunByHand, Edit, HashManifest, ParseManifest, OpenFile,
              BindTransfer, Reverify, OpenKey, Spawn, Enter, ReadRecord, Finalize, ReadKey, Sign,
              vars, Reject
  <2>2. QED
    BY <1>3, <2>1 DEF SignedVerifies
<1>4. QED
  BY <1>1, <1>2, <1>3

\* stage-local expects the sandbox the signer attests, of sign and of
\* recover-sign.
LEMMA AttestationIsValid ==
    ASSUME NEW m \in {"sign", "recover-sign"}, NEW input
    PROVE  ValidateAttestation(Attestation(m, Sealed(Established(m)), input), input)
<1> DEFINE made == Established(m)
           box1 == Sealed(made)
           a == Attestation(m, box1, input)
<1>1. /\ made.names = LauncherNames /\ made.mounts = Kernel \union Bound(m)
      /\ made.coreLimit = 0
      /\ DOMAIN made = {"mode", "names", "fresh", "mounts", "readonly", "filter", "interfaces",
                        "privileges", "extraFds", "coreLimit"}
  BY DEF Established
<1> HIDE DEF made
<1>2. /\ box1.names = LauncherNames /\ box1.mounts = Kernel \union Bound(m)
      /\ box1.coreLimit = 0 /\ box1.filter = Syscalls
  BY <1>1 DEF Sealed
<1> HIDE DEF box1
<1>3. /\ a.mode = m /\ a.original = "sign" /\ a.input = input /\ a.names = LauncherNames
      /\ a.mounts = Kernel \union Bound(m) /\ a.prefilter = Syscalls \ {"exec"}
      /\ a.coreLimit = 0
  BY <1>2 DEF Attestation
<1> HIDE DEF a
<1>4. a.prefilter = {"network", "io_uring", "process", "namespace", "mount"}
  BY <1>3 DEF Syscalls
<1>5. a.mounts = ExpectedAttestedMounts(a.mode)
  BY <1>3 DEF ExpectedAttestedMounts, ExpectedBase, Kernel, Bound
<1>6. ValidateAttestation(a, input)
  BY <1>3, <1>4, <1>5 DEF ValidateAttestation, LauncherNames
<1>7. QED
  BY <1>6 DEF a, box1, made

\* stage-local accepts the output of a bundle that verifies.
LEMMA OutputIsAccepted ==
    ASSUME NEW attestation, SignerInv, SignedVerifies, signed # Absent
    PROVE  LET made == Output(signed, attestation)
           IN  /\ VerifySignature(made["catalog"], {"active"})
               /\ VerifySignature(made["release"], {"active"})
               /\ VerifyReleaseInventory(made, made["release"])
               /\ made["checksums"] = [f \in Assets |-> made[f]]
               /\ VerifyReleaseAssets(made["catalog"], made["release"])
               /\ made["catalog"].names # Absent =>
                     /\ made["qualification"] = made["catalog"].names
                     /\ VerifyPiReleaseQualification([release |-> made["catalog"].payload],
                                                     made["qualification"])
<1> DEFINE made == Output(signed, attestation)
           files == SignedFiles(signed)
<1>1. /\ files["catalog"] = signed.envelope /\ files["release"] = signed.manifest
      /\ files["qualification"] = signed.assets.qualification
      /\ files["asset"] = signed.assets.asset
      /\ files = [f \in Assets |-> files[f]]
  BY DEF SignedFiles, Assets
<1>2. /\ \A f \in Assets : made[f] = files[f]
      /\ made["checksums"] = files
  BY DEF Output, OutputFiles, Assets
<1> HIDE DEF made, files
<1>3. /\ VerifyReleaseInventory(files, signed.manifest)
      /\ VerifySignature(signed.envelope, {"active"})
      /\ VerifySignature(signed.manifest, {"active"})
      /\ VerifyReleaseAssets(signed.envelope, signed.manifest)
  BY DEF SignedVerifies, VerifySignedBytes, files
<1>4. /\ made["catalog"] = signed.envelope /\ made["release"] = signed.manifest
      /\ made["qualification"] = signed.assets.qualification
      /\ made["asset"] = signed.assets.asset
  BY <1>1, <1>2 DEF Assets
<1>5. VerifyReleaseInventory(made, made["release"])
  BY <1>1, <1>3, <1>4 DEF VerifyReleaseInventory
<1>6. made["checksums"] = [f \in Assets |-> made[f]]
  BY <1>1, <1>2
<1>7. /\ signed.assets.qualification = signed.manifest.qualification
      /\ signed.manifest.qualification.passed
      /\ signed.manifest.qualification.release = signed.envelope.payload
  BY DEF SignerInv, SignedInv, SignedIsQualified
<1>8. made["catalog"].names # Absent =>
          /\ made["qualification"] = made["catalog"].names
          /\ VerifyPiReleaseQualification([release |-> made["catalog"].payload],
                                          made["qualification"])
  BY <1>3, <1>4, <1>7 DEF VerifyReleaseAssets, VerifyPiReleaseQualification
<1>9. QED
  BY <1>3, <1>4, <1>5, <1>6, <1>8 DEF made

\* Each step of the handoff keeps the output whole, or counts as a change.
LEMMA PublisherCauseFrame ==
    ASSUME PublisherCause, UNCHANGED <<output, mixes, publisher>>,
           Emitted => UNCHANGED <<signed, attested, prepared>>
    PROVE  PublisherCause'
<1>1. CASE Emitted
  <2>1. OtherOutput' = OtherOutput
    BY <1>1 DEF OtherOutput
  <2>2. \A a : Output(signed, a)' = Output(signed, a)
    BY <1>1 DEF Output, SignedFiles
  <2>3. \A m : Attestation(m, Sealed(Established(m)), attested)'
                  = Attestation(m, Sealed(Established(m)), attested)
    BY <1>1
  <2>4. \A m : Output(signed, Attestation(m, Sealed(Established(m)), attested))'
                  = Output(signed, Attestation(m, Sealed(Established(m)), attested))
    BY <1>1 DEF Output, SignedFiles
  <2>5. QED
    BY <1>1, <2>1, <2>4 DEF PublisherCause, Emitted
<1>2. CASE ~Emitted
  BY <1>2 DEF PublisherCause, Emitted
<1>3. QED
  BY <1>1, <1>2

LEMMA CauseEmit ==
    ASSUME SignedVerifies, EmittedInv, PublisherCause, NEW m \in {"sign", "recover-sign"},
           Emit(m), UNCHANGED vars
    PROVE  PublisherCause'
<1> DEFINE a == Attestation(m, Sealed(Established(m)), attested)
           b == Attestation(m, IF m = "sign" THEN box ELSE Sealed(Established(m)), attested)
<1>1. /\ output'.made = <<Output(signed, b), OtherOutput>>
      /\ output'.files = [f \in OutputFiles |-> [inode |-> 1, text |-> 1]]
      /\ signed # Absent /\ UNCHANGED <<mixes, publisher, signed, attested, prepared>>
      /\ publisher.pc = "idle"
  BY DEF Emit, vars, EmittedInv
<1>2. b = a
  BY <1>1 DEF SignedVerifies
<1> HIDE DEF a, b
<1>3. output'.made = <<Output(signed', a), OtherOutput'>>
  <2>1. OtherOutput' = OtherOutput
    BY <1>1 DEF OtherOutput
  <2>2. QED
    BY <1>1, <1>2, <2>1
<1>4. a = Attestation(m, Sealed(Established(m)), attested')
  BY <1>1 DEF a
<1>5. \E n \in {"sign", "recover-sign"} :
          output'.made = <<Output(signed', Attestation(n, Sealed(Established(n)), attested')),
                           OtherOutput'>>
  BY <1>3, <1>4
<1>6. QED
  BY <1>1, <1>5 DEF PublisherCause

LEMMA CauseMix ==
    ASSUME EmittedInv, PublisherCause, NEW fs, NEW inode, Mix(fs, inode), UNCHANGED vars
    PROVE  PublisherCause'
<1>1. /\ output'.made = output.made /\ publisher' = publisher /\ mixes' = mixes + 1 /\ Emitted
      /\ publisher.pc # "refused" /\ UNCHANGED <<signed, attested, prepared>>
  BY DEF Mix, EmittedInv, Running, vars
<1>2. mixes' \in Nat /\ mixes' # 0
  BY <1>1 DEF PublisherCause
<1>3. PICK m \in {"sign", "recover-sign"} :
          output.made = <<Output(signed, Attestation(m, Sealed(Established(m)), attested)),
                          OtherOutput>>
  BY <1>1 DEF PublisherCause
<1>4. OtherOutput' = OtherOutput
  BY <1>1 DEF OtherOutput
<1>5. output'.made = <<Output(signed', Attestation(m, Sealed(Established(m)), attested')),
                       OtherOutput'>>
  BY <1>1, <1>3, <1>4
<1>6. QED
  BY <1>1, <1>2, <1>5 DEF PublisherCause

\* What stage-local sees of an output nobody changed.
LEMMA UnmixedFacts ==
    ASSUME SignerInv, SignedVerifies, EmittedInv, PublisherCause, Emitted, mixes = 0
    PROVE  /\ \A f \in OutputFiles : output.files[f].inode = 1 /\ Text(f) = output.made[1][f]
           /\ [f \in OutputFiles |-> Text(f)] = output.made[1]
           /\ ValidateAttestation(Text("transfer").attestation, Text("transfer").input)
           /\ \A f \in OutputFiles \ {"transfer"} : Text(f) = Text("transfer").entries[f]
           /\ \E attestation : output.made[1] = Output(signed, attestation)
<1>1. PICK m \in {"sign", "recover-sign"} :
          output.made = <<Output(signed, Attestation(m, Sealed(Established(m)), attested)),
                          OtherOutput>>
  BY DEF PublisherCause
<1> DEFINE a == Attestation(m, Sealed(Established(m)), attested)
           made == Output(signed, a)
<1>2. output.made[1] = made
  BY <1>1
<1>3. \A f \in OutputFiles : output.files[f].inode = 1 /\ output.files[f].text = 1
  BY DEF PublisherCause
<1>4. \A f \in OutputFiles : Text(f) = made[f]
  BY <1>2, <1>3 DEF Text
<1>5. ValidateAttestation(a, attested)
  BY AttestationIsValid
<1>6. made["transfer"].attestation = a /\ made["transfer"].input = a.input
  BY DEF Output, OutputFiles
<1>7. a.input = attested
  BY DEF Attestation
<1>8. /\ made \in [OutputFiles -> {made[f] : f \in OutputFiles}]
      /\ \A f \in OutputFiles \ {"transfer"} : made["transfer"].entries[f] = made[f]
  BY <1>2, MadeIsListed
<1> HIDE DEF made, a
<1>9. [f \in OutputFiles |-> Text(f)] = made
  BY <1>4, <1>8
<1>10. "transfer" \in OutputFiles
  BY DEF OutputFiles
<1>11. ValidateAttestation(Text("transfer").attestation, Text("transfer").input)
  BY <1>4, <1>5, <1>6, <1>7, <1>10
<1>12. \A f \in OutputFiles \ {"transfer"} : Text(f) = Text("transfer").entries[f]
  BY <1>4, <1>8, <1>10
<1>13. QED
  BY <1>2, <1>3, <1>4, <1>9, <1>11, <1>12 DEF made

LEMMA CauseHash ==
    ASSUME SignerInv, SignedVerifies, EmittedInv, PublisherCause,
           NEW trusted \in {{}, {"active"}}, HashFiles(trusted), UNCHANGED vars
    PROVE  PublisherCause'
<1>1. /\ Emitted /\ UNCHANGED <<output, binding, mixes, signed, attested, prepared>>
      /\ publisher'.pc = (IF Hashed THEN "hashed" ELSE "refused")
      /\ publisher'.trusted = trusted /\ publisher'.bound = binding
      /\ publisher'.inodes = [f \in OutputFiles |-> output.files[f].inode]
      /\ publisher'.hashed = [f \in OutputFiles |-> Text(f)]
  BY DEF HashFiles, vars
<1>2. ASSUME mixes = 0
      PROVE  /\ ~Hashed => binding
             /\ publisher'.hashed = output.made[1]
             /\ publisher'.inodes = [f \in OutputFiles |-> 1]
  <2>1. /\ \A f \in OutputFiles : output.files[f].inode = 1
        /\ [f \in OutputFiles |-> Text(f)] = output.made[1]
        /\ ValidateAttestation(Text("transfer").attestation, Text("transfer").input)
        /\ \A f \in OutputFiles \ {"transfer"} : Text(f) = Text("transfer").entries[f]
    BY <1>1, <1>2, UnmixedFacts
  <2>2. ~Hashed => binding
    BY <2>1 DEF Hashed
  <2>3. publisher'.inodes = [f \in OutputFiles |-> 1]
    BY <1>1, <2>1
  <2>4. QED
    BY <1>1, <2>1, <2>2, <2>3
<1>3. PICK m \in {"sign", "recover-sign"} :
          output.made = <<Output(signed, Attestation(m, Sealed(Established(m)), attested)),
                          OtherOutput>>
  BY <1>1 DEF PublisherCause
<1>4. OtherOutput' = OtherOutput
  BY <1>1 DEF OtherOutput
<1>5. output'.made = <<Output(signed', Attestation(m, Sealed(Established(m)), attested')),
                       OtherOutput'>>
  BY <1>1, <1>3, <1>4
<1>6. mixes' \in Nat /\ (mixes' = 0 \/ mixes' > 0)
      /\ (mixes' = 0 => output'.files = [f \in OutputFiles |-> [inode |-> 1, text |-> 1]])
  BY <1>1 DEF PublisherCause
<1>7. publisher'.pc = "refused" => mixes' > 0 \/ publisher'.bound
  BY <1>1, <1>2, <1>6
<1>8. mixes' = 0 => /\ publisher'.hashed = output'.made[1]
                    /\ publisher'.inodes = [f \in OutputFiles |-> 1]
  BY <1>1, <1>2
<1>9. QED
  BY <1>1, <1>5, <1>6, <1>7, <1>8 DEF PublisherCause

LEMMA CauseRead ==
    ASSUME SignerInv, SignedVerifies, EmittedInv, PublisherInv, PublisherCause, ReadDocuments,
           UNCHANGED vars
    PROVE  PublisherCause'
<1>1. /\ publisher.pc = "hashed" /\ UNCHANGED <<output, mixes, signed, attested, prepared>>
      /\ Emitted /\ publisher.trusted \in {{}, {"active"}} /\ mixes \in Nat
      /\ DOMAIN publisher = {"pc", "trusted", "bound", "inodes", "hashed", "payload"}
  BY DEF ReadDocuments, PublisherInv, PublisherCause, vars
<1>2. /\ publisher'.trusted = publisher.trusted /\ publisher'.bound = publisher.bound
      /\ publisher'.inodes = publisher.inodes /\ publisher'.hashed = publisher.hashed
      /\ publisher'.pc = IF SignaturesHold /\ BindingsHold /\ SupportHolds
                         THEN "read" ELSE "refused"
  BY <1>1 DEF ReadDocuments
<1>3. ASSUME mixes = 0, publisher.trusted = {"active"}
      PROVE  SignaturesHold /\ BindingsHold /\ SupportHolds
  <2> DEFINE made == output.made[1]
  <2>1. /\ \A f \in OutputFiles : output.files[f].inode = 1 /\ Text(f) = made[f]
        /\ \E attestation : made = Output(signed, attestation)
    BY <1>1, <1>3, UnmixedFacts
  <2>2. publisher.hashed = made /\ publisher.inodes = [f \in OutputFiles |-> 1]
    BY <1>1, <1>3 DEF PublisherCause
  <2>3. signed # Absent
    BY <1>1 DEF EmittedInv
  <2>4. /\ VerifySignature(made["catalog"], {"active"})
        /\ VerifySignature(made["release"], {"active"})
        /\ VerifyReleaseInventory(made, made["release"])
        /\ made["checksums"] = [f \in Assets |-> made[f]]
        /\ VerifyReleaseAssets(made["catalog"], made["release"])
        /\ made["catalog"].names # Absent =>
              /\ made["qualification"] = made["catalog"].names
              /\ VerifyPiReleaseQualification([release |-> made["catalog"].payload],
                                              made["qualification"])
    BY <2>1, <2>3, OutputIsAccepted
  <2> HIDE DEF made
  <2>5. \A f \in OutputFiles : Reread(f) = made[f]
    BY <2>1, <2>2 DEF Reread
  <2>6. {"catalog", "release", "qualification", "checksums"} \subseteq OutputFiles
    BY DEF OutputFiles, Assets
  <2>7. SignaturesHold
    BY <1>3, <2>4, <2>5, <2>6 DEF SignaturesHold
  <2>8. BindingsHold
    BY <2>2, <2>4, <2>5, <2>6 DEF BindingsHold
  <2>9. SupportHolds
    BY <2>2, <2>4, <2>5, <2>6 DEF SupportHolds
  <2>10. QED
    BY <2>7, <2>8, <2>9
<1>4. PICK m \in {"sign", "recover-sign"} :
          output.made = <<Output(signed, Attestation(m, Sealed(Established(m)), attested)),
                          OtherOutput>>
  BY <1>1 DEF PublisherCause
<1>5. OtherOutput' = OtherOutput
  BY <1>1 DEF OtherOutput
<1>6. output'.made = <<Output(signed', Attestation(m, Sealed(Established(m)), attested')),
                       OtherOutput'>>
  BY <1>1, <1>4, <1>5
<1>7. publisher'.pc = "refused" => mixes' > 0 \/ publisher'.trusted = {}
  BY <1>1, <1>2, <1>3
<1>8. /\ mixes' = 0 => output'.files = [f \in OutputFiles |-> [inode |-> 1, text |-> 1]]
      /\ mixes' = 0 => /\ publisher'.hashed = output'.made[1]
                       /\ publisher'.inodes = [f \in OutputFiles |-> 1]
  BY <1>1, <1>2 DEF PublisherCause
<1>9. publisher'.pc # "idle" /\ mixes' \in Nat /\ publisher'.trusted \in {{}, {"active"}}
  BY <1>1, <1>2
<1>10. QED
  BY <1>6, <1>7, <1>8, <1>9 DEF PublisherCause

LEMMA CauseReverify ==
    ASSUME SignerInv, SignedVerifies, EmittedInv, PublisherInv, PublisherCause, ReverifyFiles,
           UNCHANGED vars
    PROVE  PublisherCause'
<1>1. /\ publisher.pc = "read" /\ UNCHANGED <<output, mixes, signed, attested, prepared>>
      /\ Emitted /\ mixes \in Nat
      /\ DOMAIN publisher = {"pc", "trusted", "bound", "inodes", "hashed", "payload"}
  BY DEF ReverifyFiles, PublisherInv, PublisherCause, vars
<1>2. publisher'.pc = IF \A f \in OutputFiles : SameFile(f) THEN "admitted" ELSE "refused"
  BY <1>1 DEF ReverifyFiles
<1>3. ASSUME mixes = 0 PROVE \A f \in OutputFiles : SameFile(f)
  <2>1. \A f \in OutputFiles : output.files[f].inode = 1 /\ Text(f) = output.made[1][f]
    BY <1>1, <1>3, UnmixedFacts
  <2>2. publisher.hashed = output.made[1] /\ publisher.inodes = [f \in OutputFiles |-> 1]
    BY <1>1, <1>3 DEF PublisherCause
  <2>3. QED
    BY <2>1, <2>2 DEF SameFile
<1>4. PICK m \in {"sign", "recover-sign"} :
          output.made = <<Output(signed, Attestation(m, Sealed(Established(m)), attested)),
                          OtherOutput>>
  BY <1>1 DEF PublisherCause
<1>5. OtherOutput' = OtherOutput
  BY <1>1 DEF OtherOutput
<1>6. output'.made = <<Output(signed', Attestation(m, Sealed(Established(m)), attested')),
                       OtherOutput'>>
  BY <1>1, <1>4, <1>5
<1>7. publisher'.pc = "refused" => mixes' > 0
  BY <1>1, <1>2, <1>3
<1>8. mixes' = 0 => output'.files = [f \in OutputFiles |-> [inode |-> 1, text |-> 1]]
  BY <1>1 DEF PublisherCause
<1>9. publisher'.pc \notin {"hashed", "read"} /\ mixes' \in Nat
  BY <1>1, <1>2
<1>10. QED
  BY <1>6, <1>7, <1>8, <1>9 DEF PublisherCause

\* Until the output is changed stage-local refuses nothing it knows the key of.
LEMMA PublisherCauseStep ==
    ASSUME SignerInv, SignedVerifies, EmittedInv, PublisherInv, PublisherCause,
           [HandoffNext]_<<vars, handoffVars>>
    PROVE  PublisherCause'
<1>1. CASE [Next]_vars /\ UNCHANGED handoffVars
  <2>1. Emitted => UNCHANGED <<signed, attested, prepared>>
    BY <1>1, SignedStays, PreparedStep DEF EmittedInv, SignerInv
  <2>2. QED
    BY <1>1, <2>1, PublisherCauseFrame DEF handoffVars
<1>2. ASSUME UNCHANGED vars, UNCHANGED <<output, mixes, publisher>> PROVE PublisherCause'
  BY <1>2, PublisherCauseFrame DEF vars
<1>3. CASE Handoff /\ UNCHANGED vars
  <2>1. ASSUME NEW m \in {"sign", "recover-sign"}, Emit(m) PROVE PublisherCause'
    BY <1>3, <2>1, CauseEmit
  <2>2. ASSUME DropBinding PROVE PublisherCause'
    BY <1>2, <1>3, <2>2 DEF DropBinding
  <2>3. ASSUME NEW fs, NEW inode, Mix(fs, inode) PROVE PublisherCause'
    BY <1>3, <2>3, CauseMix
  <2>4. ASSUME NEW trusted \in {{}, {"active"}}, HashFiles(trusted) PROVE PublisherCause'
    BY <1>3, <2>4, CauseHash
  <2>5. ASSUME ReadDocuments PROVE PublisherCause'
    BY <1>3, <2>5, CauseRead
  <2>6. ASSUME ReverifyFiles PROVE PublisherCause'
    BY <1>3, <2>6, CauseReverify
  <2>7. QED
    BY <1>3, <2>1, <2>2, <2>3, <2>4, <2>5, <2>6 DEF Handoff
<1>4. QED
  BY <1>1, <1>3 DEF HandoffNext

RefusalInv == CauseInv /\ SignedVerifies /\ PublisherCause

\* At each step of launcher, signer and stage-local, either something is wrong
\* with the ceremony or the output, or every check so far has passed.
THEOREM RefusalIsFollowed == HandoffSpec => [](HandoffInv /\ RefusalInv)
<1>1. HandoffInit => RefusalInv
  <2>1. Init => SignedVerifies
    BY DEF Init, SignedVerifies
  <2>2. HandoffInit => PublisherCause
    BY DEF HandoffInit, PublisherCause, Emitted
  <2> QED BY <2>1, <2>2, CauseInit DEF HandoffInit, RefusalInv
<1>2. HandoffInv /\ RefusalInv /\ [HandoffNext]_<<vars, handoffVars>> => RefusalInv'
  <2> SUFFICES ASSUME HandoffInv, RefusalInv, [HandoffNext]_<<vars, handoffVars>>
               PROVE  RefusalInv'
    OBVIOUS
  <2>1. /\ [Next]_vars /\ SignerInv /\ EmittedInv /\ PublisherInv
        /\ CauseInv /\ StartInv /\ SignedVerifies /\ PublisherCause
    BY DEF HandoffNext, HandoffInv, RefusalInv, CauseInv
  <2> QED BY <2>1, CauseStep, SignedVerifiesStep, PublisherCauseStep DEF RefusalInv
<1> QED BY <1>1, <1>2, HandoffIsConsistent, PTL DEF HandoffSpec

\* Nothing is refused without a cause: the signer (enter_signer_isolation, the
\* verification of the transfer, finalization) rejects a ceremony only when its
\* transfer, directory, key or sandbox is wrong, and stage-local refuses only an
\* output that was changed, that still has the binding, or whose key it does not
\* know.  So the three lists of what the sandbox must be agree.
THEOREM EveryRefusalHasCause == HandoffSpec => []RefusedForCause
<1>1. HandoffInv /\ RefusalInv => RefusedForCause
  BY CauseFollows DEF RefusalInv, PublisherCause, RefusedForCause
<1> QED BY <1>1, RefusalIsFollowed, PTL

-----------------------------------------------------------------------------
(* The output of one ceremony                                              *)

\* Bindings and versions of the directory, once it is for one input.
Bindings(origin) ==
    [mode : {"0600", "0400"}, text : {"torn", "unbound", "bound", "authorized"},
     input : {origin}]
Reverses == [mode : {"sign", "recover-sign"}, input : Inputs \cup {NoFile}]
Versions(origin) ==
    [final : BOOLEAN, stage : {"none", "empty", "payload"},
     binding : Bindings(origin) \cup {NoFile}, manifest : Reverses \cup {NoFile}]
Steps ==
    {"idle", "bind", "bindsync", "container", "payload", "rewrite", "resync", "write", "publish",
     "visible", "reopen", "recover", "uncertain", "rmdir", "rmdir2", "rmsync", "rmsync2", "emit",
     "link", "linksync", "unbind", "outsync", "done", "rejected", "settled"}
Runs(origin) ==
    [pc : Steps, mode : {"sign", "recover-sign"}, input : Inputs \cup {NoFile},
     todo : Seq(Bindings(origin)), want : Bindings(origin) \cup {NoFile},
     next : {"idle", "write", "rmdir", "rmdir2"}, uncertain : BOOLEAN, unbind : BOOLEAN]
Payloads == [input : Inputs \cup {NoFile}, files : 0..BundleFiles, durable : 0..BundleFiles]

\* The command that made the directory, until the bundle has its final name.
ForWrite(p) == proc[p].pc \in {"rewrite", "resync"} /\ proc[p].next = "write"
Filling(p)  == proc[p].pc \in {"write", "publish"} \/ ForWrite(p)
Early(p)    == Filling(p) \/ proc[p].pc \in {"bind", "bindsync", "container", "payload"}

NothingFinal == \A i \in DOMAIN journal : ~journal[i].final

OutputTyped(origin) ==
    /\ journal \in Seq(Versions(origin))
    /\ proc \in [Procs -> Runs(origin)]
    /\ payload \in Payloads /\ payload.durable <= payload.files

\* There is one such command, its input is that of the directory, and while it
\* runs nothing is final.
MakerInv(origin) ==
    \A p \in Procs :
       /\ Early(p) => /\ proc[p].input = origin /\ NothingFinal
                      /\ \A q \in Procs \ {p} : ~Early(q)
       /\ Filling(p) => payload.input = origin
       /\ At(p, "publish") => payload.durable = BundleFiles
       /\ At(p, "rewrite") => proc[p].todo # << >>

FinalInv(origin) ==
    ~NothingFinal => payload.durable = BundleFiles /\ payload.input = origin

OutputOf(origin) ==
    /\ OutputTyped(origin) /\ MakerInv(origin) /\ FinalInv(origin)
    /\ ~Exists => proc = [p \in Procs |-> Idle]

OutputInv == \E origin \in Inputs \cup {NoFile} : OutputOf(origin)

\* What becomes of the directory's versions.
LEMMA LastVersion ==
    ASSUME NEW origin, journal \in Seq(Versions(origin)), Exists
    PROVE  /\ Dir \in Versions(origin) /\ Dir = journal[Len(journal)]
           /\ Dir.final => ~NothingFinal
  <1>1. Len(journal) \in DOMAIN journal
    BY DEF Exists
  <1>2. QED
    BY <1>1 DEF Dir, Last, NothingFinal

LEMMA VersionAdded ==
    ASSUME NEW origin, journal \in Seq(Versions(origin)), Exists,
           NEW dir \in Versions(origin), Change(dir) \/ Fsync(dir) \/ UNCHANGED journal,
           dir.final => Dir.final
    PROVE  /\ journal' \in Seq(Versions(origin)) /\ Exists'
           /\ NothingFinal => NothingFinal'
  <1>1. NothingFinal => ~dir.final
    BY LastVersion
  <1>2. CASE Change(dir)
    BY <1>1, <1>2 DEF Change, Exists, NothingFinal
  <1>3. CASE Fsync(dir)
    BY <1>1, <1>3 DEF Fsync, Exists, NothingFinal
  <1>4. CASE UNCHANGED journal
    BY <1>4 DEF Exists, NothingFinal
  <1>5. QED
    BY <1>2, <1>3, <1>4

\* A step of one command: it goes on being early, or is not early any more.
LEMMA CommandMoves ==
    ASSUME NEW origin, OutputOf(origin), NEW p \in Procs,
           journal' \in Seq(Versions(origin)), Exists', NothingFinal => NothingFinal',
           proc' \in [Procs -> Runs(origin)], \A q \in Procs \ {p} : proc'[q] = proc[q],
           payload' = payload \/ Early(p),
           payload' \in Payloads, payload'.durable <= payload'.files,
           Early(p)' => Early(p) /\ proc'[p].input = proc[p].input,
           Filling(p)' => payload'.input = origin,
           At(p, "publish")' => payload'.durable = BundleFiles,
           At(p, "rewrite")' => proc'[p].todo # << >>
    PROVE  OutputOf(origin)'
  <1>1. \A q \in Procs \ {p} :
           /\ Early(q)' <=> Early(q)
           /\ Filling(q)' <=> Filling(q)
           /\ At(q, "publish")' <=> At(q, "publish")
           /\ At(q, "rewrite")' <=> At(q, "rewrite")
           /\ proc'[q].input = proc[q].input /\ proc'[q].todo = proc[q].todo
    BY DEF Early, Filling, ForWrite, At
  <1>2. OutputTyped(origin)'
    BY DEF OutputTyped
  <1>3. MakerInv(origin)'
    <2> SUFFICES ASSUME NEW q \in Procs
                 PROVE  /\ Early(q)' => /\ proc'[q].input = origin /\ NothingFinal'
                                        /\ \A r \in Procs \ {q} : ~Early(r)'
                        /\ Filling(q)' => payload'.input = origin
                        /\ At(q, "publish")' => payload'.durable = BundleFiles
                        /\ At(q, "rewrite")' => proc'[q].todo # << >>
      BY DEF MakerInv
    <2>1. MakerInv(origin)
      BY DEF OutputOf
    <2>2. CASE q = p
      BY <1>1, <2>1, <2>2 DEF MakerInv
    <2>3. CASE q # p
      <3>1. Early(q) => ~Early(p) /\ payload' = payload
        BY <2>1, <2>3 DEF MakerInv
      <3>2. Filling(q) \/ At(q, "publish") => Early(q)
        BY DEF Early, Filling, At
      <3>3. QED
        BY <1>1, <2>1, <2>3, <3>1, <3>2 DEF MakerInv
    <2>4. QED
      BY <2>2, <2>3
  <1>4. FinalInv(origin)'
    BY DEF OutputOf, FinalInv, MakerInv
  <1>5. QED
    BY <1>2, <1>3, <1>4 DEF OutputOf

-----------------------------------------------------------------------------
(* What a step makes of its own command                                    *)

LEMMA ProceedIs ==
    ASSUME NEW origin, proc \in [Procs -> Runs(origin)], NEW p \in Procs,
           NEW step \in Steps, Proceed(p, step)
    PROVE  /\ proc' \in [Procs -> Runs(origin)] /\ \A q \in Procs \ {p} : proc'[q] = proc[q]
           /\ proc'[p].pc = step /\ proc'[p].input = proc[p].input
           /\ proc'[p].next = proc[p].next /\ proc'[p].todo = proc[p].todo
  BY DEF Proceed, Runs

\* The fields a step may change, all of them known by their sets only.
LEMMA RunFields ==
    ASSUME NEW origin, NEW run \in Runs(origin), NEW step \in Steps, NEW flag \in BOOLEAN,
           NEW todo \in Seq(Bindings(origin)), NEW want \in Bindings(origin),
           NEW next \in {"idle", "write", "rmdir", "rmdir2"}, NEW input \in Inputs \cup {NoFile},
           NEW command \in {"sign", "recover-sign"}
    PROVE  /\ [run EXCEPT !.pc = step, !.uncertain = flag] \in Runs(origin)
           /\ [run EXCEPT !.unbind = flag, !.pc = step] \in Runs(origin)
           /\ [run EXCEPT !.todo = todo, !.pc = step] \in Runs(origin)
           /\ [run EXCEPT !.pc = step, !.next = next, !.want = want, !.todo = todo]
                 \in Runs(origin)
           /\ [run EXCEPT !.pc = step, !.input = input] \in Runs(origin)
           /\ [run EXCEPT !.pc = step, !.mode = command, !.input = input] \in Runs(origin)
  <1>1. /\ [run EXCEPT !.pc = step, !.uncertain = flag] \in Runs(origin)
        /\ [run EXCEPT !.unbind = flag, !.pc = step] \in Runs(origin)
    BY DEF Runs
  <1>2. /\ [run EXCEPT !.todo = todo, !.pc = step] \in Runs(origin)
        /\ [run EXCEPT !.pc = step, !.next = next, !.want = want, !.todo = todo]
              \in Runs(origin)
    BY DEF Runs
  <1>3. /\ [run EXCEPT !.pc = step, !.input = input] \in Runs(origin)
        /\ [run EXCEPT !.pc = step, !.mode = command, !.input = input] \in Runs(origin)
    BY DEF Runs
  <1>4. QED
    BY <1>1, <1>2, <1>3

LEMMA RunMade ==
    ASSUME NEW origin, NEW step \in Steps, NEW command \in {"sign", "recover-sign"},
           NEW input \in Inputs \cup {NoFile}, NEW todo \in Seq(Bindings(origin)),
           NEW want \in Bindings(origin) \cup {NoFile},
           NEW next \in {"idle", "write", "rmdir", "rmdir2"},
           NEW uncertain \in BOOLEAN, NEW unbind \in BOOLEAN
    PROVE  [pc |-> step, mode |-> command, input |-> input, todo |-> todo, want |-> want,
            next |-> next, uncertain |-> uncertain, unbind |-> unbind] \in Runs(origin)
  BY DEF Runs

LEMMA IdleRun ==
    ASSUME NEW origin
    PROVE  Idle \in Runs(origin) /\ Idle.pc = "idle"
  <1>1. /\ << >> \in Seq(Bindings(origin)) /\ FALSE \in BOOLEAN
        /\ "sign" \in {"sign", "recover-sign"} /\ NoFile \in Inputs \cup {NoFile}
        /\ NoFile \in Bindings(origin) \cup {NoFile}
        /\ "idle" \in {"idle", "write", "rmdir", "rmdir2"}
    OBVIOUS
  <1>2. "idle" \in Steps
    BY DEF Steps
  <1>3. Idle \in Runs(origin)
    BY <1>1, <1>2, RunMade DEF Idle
  <1>4. QED
    BY <1>3 DEF Idle

\* The record at one process is all that an update of it changes.
LEMMA AtOne ==
    ASSUME NEW origin, proc \in [Procs -> Runs(origin)], NEW p \in Procs,
           NEW run \in Runs(origin), proc' = [proc EXCEPT ![p] = run]
    PROVE  /\ proc' \in [Procs -> Runs(origin)] /\ proc'[p] = run
           /\ \A q \in Procs \ {p} : proc'[q] = proc[q]
  OBVIOUS

LEMMA UncertainIs ==
    ASSUME NEW origin, proc \in [Procs -> Runs(origin)], NEW p \in Procs, Uncertain(p)
    PROVE  /\ proc' \in [Procs -> Runs(origin)] /\ \A q \in Procs \ {p} : proc'[q] = proc[q]
           /\ proc'[p].pc = "uncertain"
  <1> DEFINE run == [proc[p] EXCEPT !.pc = "uncertain", !.uncertain = TRUE]
  <1>1. proc' = [proc EXCEPT ![p] = run]
    BY DEF Uncertain
  <1>2. proc[p] \in Runs(origin)
    OBVIOUS
  <1>s. "uncertain" \in Steps
    BY DEF Steps
  <1>b. TRUE \in BOOLEAN
    OBVIOUS
  <1>3. run \in Runs(origin)
    BY <1>2, <1>s DEF Runs
  <1>4. run.pc = "uncertain"
    BY <1>2 DEF Runs
  <1> HIDE DEF run
  <1>5. QED
    BY <1>1, <1>3, <1>4, AtOne

LEMMA LeaveIs ==
    ASSUME NEW origin, proc \in [Procs -> Runs(origin)], NEW p \in Procs, Leave(p)
    PROVE  /\ proc' \in [Procs -> Runs(origin)] /\ \A q \in Procs \ {p} : proc'[q] = proc[q]
           /\ proc'[p].pc = "idle"
  BY IdleRun, AtOne DEF Leave

\* rewrite_recovery_binding begins.
LEMMA RewriteIs ==
    ASSUME NEW origin, proc \in [Procs -> Runs(origin)], NEW p \in Procs,
           Dir.binding \in Bindings(origin),
           NEW text \in {"bound", "authorized"}, NEW access \in {"0600", "0400"},
           NEW next \in {"write", "rmdir", "rmdir2"}, RewriteBinding(p, text, access, next)
    PROVE  /\ proc' \in [Procs -> Runs(origin)] /\ \A q \in Procs \ {p} : proc'[q] = proc[q]
           /\ proc'[p].pc = "rewrite" /\ proc'[p].next = next /\ proc'[p].todo # << >>
           /\ proc'[p].input = proc[p].input
  <1> DEFINE want == Binding(access, text, Dir.binding.input)
             todo == << Binding("0600", "torn", Dir.binding.input),
                        Binding("0600", text, Dir.binding.input), want >>
  <1>1. /\ want \in Bindings(origin)
        /\ Binding("0600", "torn", Dir.binding.input) \in Bindings(origin)
        /\ Binding("0600", text, Dir.binding.input) \in Bindings(origin)
    BY DEF Binding, Bindings
  <1>2. todo \in Seq(Bindings(origin)) /\ todo # << >>
    <2> HIDE DEF want
    <2>1. QED
      BY <1>1
  <1> DEFINE run == [proc[p] EXCEPT !.pc = "rewrite", !.next = next, !.want = want, !.todo = todo]
  <1>3. proc' = [proc EXCEPT ![p] = run]
    BY DEF RewriteBinding
  <1> HIDE DEF want, todo
  <1>4. proc[p] \in Runs(origin)
    OBVIOUS
  <1>s. "rewrite" \in Steps
    BY DEF Steps
  <1>n. next \in {"idle", "write", "rmdir", "rmdir2"}
    OBVIOUS
  <1>5. run \in Runs(origin)
    BY ONLY <1>1, <1>2, <1>4, <1>s, <1>n, RunFields
  <1>6. run.pc = "rewrite" /\ run.next = next /\ run.todo = todo /\ run.input = proc[p].input
    BY <1>4 DEF Runs
  <1> HIDE DEF run
  <1>7. QED
    BY <1>2, <1>3, <1>5, <1>6, AtOne

-----------------------------------------------------------------------------
(* Each step                                                               *)

LEMMA RunningOn ==
    ASSUME NEW origin, OutputOf(origin), NEW p \in Procs, proc[p].pc # "idle"
    PROVE  /\ Exists /\ Dir \in Versions(origin)
           /\ journal \in Seq(Versions(origin)) /\ proc \in [Procs -> Runs(origin)]
           /\ payload \in Payloads /\ payload.durable <= payload.files
           /\ proc[p] \in Runs(origin) /\ MakerInv(origin)
           /\ Dir.binding # NoFile => Dir.binding \in Bindings(origin)
  <1>1. journal \in Seq(Versions(origin)) /\ proc \in [Procs -> Runs(origin)]
    BY DEF OutputOf, OutputTyped
  <1>2. Exists
    BY IdleRun DEF OutputOf
  <1>3. Dir \in Versions(origin)
    BY <1>1, <1>2, LastVersion
  <1>4. Dir.binding # NoFile => Dir.binding \in Bindings(origin)
    BY <1>3 DEF Versions
  <1>5. QED
    BY <1>1, <1>2, <1>3, <1>4 DEF OutputOf, OutputTyped

LEMMA DirFields ==
    ASSUME NEW origin, NEW dir \in Versions(origin),
           NEW bound \in Bindings(origin) \cup {NoFile}, NEW stage \in {"none", "empty", "payload"},
           NEW reverse \in Reverses \cup {NoFile}
    PROVE  /\ [dir EXCEPT !.binding = bound] \in Versions(origin)
           /\ [dir EXCEPT !.stage = stage] \in Versions(origin)
           /\ [dir EXCEPT !.manifest = reverse] \in Versions(origin)
           /\ [dir EXCEPT !.binding = bound].final = dir.final
           /\ [dir EXCEPT !.stage = stage].final = dir.final
           /\ [dir EXCEPT !.manifest = reverse].final = dir.final
  BY DEF Versions

\* A command that does not make the bundle, or has ceased to.
LEMMA OtherMoves ==
    ASSUME NEW origin, OutputOf(origin), NEW p \in Procs, Exists,
           proc' \in [Procs -> Runs(origin)], \A q \in Procs \ {p} : proc'[q] = proc[q],
           ~Early(p)', At(p, "rewrite")' => proc'[p].todo # << >>,
           UNCHANGED payload,
           NEW dir \in Versions(origin), Change(dir) \/ Fsync(dir) \/ UNCHANGED journal,
           dir.final => Dir.final
    PROVE  OutputOf(origin)'
  <1>1. OutputTyped(origin)
    BY DEF OutputOf
  <1>2. journal' \in Seq(Versions(origin)) /\ Exists' /\ (NothingFinal => NothingFinal')
    BY <1>1, VersionAdded DEF OutputTyped
  <1>3. payload' \in Payloads /\ payload'.durable <= payload'.files
    BY <1>1 DEF OutputTyped
  <1>4. ~Filling(p)' /\ ~At(p, "publish")'
    BY DEF Early, Filling, At
  <1>5. QED
    BY <1>2, <1>3, <1>4, CommandMoves

\* A step of it that leaves the bundle alone and is not one of the maker's.
Beyond == Steps \ {"bind", "bindsync", "container", "payload", "write", "publish", "rewrite", "resync"}

LEMMA LateStep ==
    ASSUME NEW origin, OutputOf(origin), NEW p \in Procs, proc[p].pc # "idle",
           proc' \in [Procs -> Runs(origin)], \A q \in Procs \ {p} : proc'[q] = proc[q],
           \/ proc'[p].pc \in Beyond
           \/ proc'[p].pc = "rewrite" /\ proc'[p].next # "write" /\ proc'[p].todo # << >>,
           UNCHANGED payload,
           NEW dir \in Versions(origin), Change(dir) \/ Fsync(dir) \/ UNCHANGED journal,
           dir.final => Dir.final
    PROVE  OutputOf(origin)'
  <1>1. Exists
    BY RunningOn
  <1>2. ~Early(p)' /\ (At(p, "rewrite")' => proc'[p].todo # << >>)
    BY DEF Early, Filling, ForWrite, At, Beyond
  <1>3. QED
    BY <1>1, <1>2, OtherMoves

\* The same when only the command moves.
LEMMA LateMove ==
    ASSUME NEW origin, OutputOf(origin), NEW p \in Procs, proc[p].pc # "idle",
           proc' \in [Procs -> Runs(origin)], \A q \in Procs \ {p} : proc'[q] = proc[q],
           \/ proc'[p].pc \in Beyond
           \/ proc'[p].pc = "rewrite" /\ proc'[p].next # "write" /\ proc'[p].todo # << >>,
           UNCHANGED <<payload, journal>>
    PROVE  OutputOf(origin)'
  <1>1. Dir \in Versions(origin)
    BY RunningOn
  <1>2. QED
    BY <1>1, LateStep

LEMMA RefuseStep ==
    ASSUME NEW origin, OutputOf(origin), NEW p \in Procs, proc[p].pc # "idle",
           Refuse(p) \/ Leave(p), UNCHANGED <<payload, journal>>
    PROVE  OutputOf(origin)'
  <1>1. proc \in [Procs -> Runs(origin)] /\ "rejected" \in Steps /\ "idle" \in Steps
    BY RunningOn DEF Steps
  <1>2. "rejected" \in Beyond /\ "idle" \in Beyond
    BY DEF Beyond, Steps
  <1>3. CASE Refuse(p)
    <2>1. Proceed(p, "rejected")
      BY <1>3 DEF Refuse, Proceed
    <2>2. QED
      BY <1>1, <1>2, <2>1, ProceedIs, LateMove
  <1>4. CASE Leave(p)
    BY <1>1, <1>2, <1>4, LeaveIs, LateMove
  <1>5. QED
    BY <1>3, <1>4

LEMMA LateProceed ==
    ASSUME NEW origin, OutputOf(origin), NEW p \in Procs, proc[p].pc # "idle",
           NEW step \in Beyond, Proceed(p, step), UNCHANGED payload,
           NEW dir \in Versions(origin), Change(dir) \/ Fsync(dir) \/ UNCHANGED journal,
           dir.final => Dir.final
    PROVE  OutputOf(origin)'
  <1>1. step \in Steps /\ proc \in [Procs -> Runs(origin)]
    BY RunningOn DEF Beyond
  <1>2. QED
    BY <1>1, ProceedIs, LateStep

LEMMA UncertainStep ==
    ASSUME NEW origin, OutputOf(origin), NEW p \in Procs, proc[p].pc # "idle",
           Uncertain(p), UNCHANGED <<payload, journal>>
    PROVE  OutputOf(origin)'
  <1>1. "uncertain" \in Beyond
    BY DEF Beyond, Steps
  <1>2. proc \in [Procs -> Runs(origin)]
    BY RunningOn
  <1>3. QED
    BY <1>1, <1>2, UncertainIs, LateMove

LEMMA AuthorizeStep ==
    ASSUME NEW origin, OutputOf(origin), NEW p \in Procs, proc[p].pc # "idle",
           Dir.binding # NoFile, NEW next \in {"rmdir", "rmdir2"}, AuthorizeCleanup(p, next),
           UNCHANGED <<payload, journal>>
    PROVE  OutputOf(origin)'
  <1>1. next \in Beyond /\ Dir \in Versions(origin)
    BY RunningOn DEF Beyond, Steps
  <1>2. CASE Proceed(p, next)
    BY <1>1, <1>2, LateProceed
  <1>3. CASE RewriteBinding(p, "authorized", "0400", next)
    <2>1. proc \in [Procs -> Runs(origin)] /\ Dir.binding \in Bindings(origin)
      BY RunningOn
    <2>2. /\ "authorized" \in {"bound", "authorized"} /\ "0400" \in {"0600", "0400"}
          /\ next \in {"write", "rmdir", "rmdir2"} /\ next # "write"
      OBVIOUS
    <2>3. /\ proc' \in [Procs -> Runs(origin)] /\ \A q \in Procs \ {p} : proc'[q] = proc[q]
          /\ proc'[p].pc = "rewrite" /\ proc'[p].next = next /\ proc'[p].todo # << >>
      BY <1>3, <2>1, <2>2, RewriteIs
    <2>4. QED
      BY <2>2, <2>3, LateMove
  <1>4. CASE Refuse(p)
    BY <1>4, RefuseStep
  <1>5. QED
    BY <1>2, <1>3, <1>4 DEF AuthorizeCleanup

\* The launcher.
LEMMA RecoverLaunches ==
    ASSUME NEW origin, OutputOf(origin), NEW p \in Procs, NEW input \in Inputs,
           LaunchRecover(p, input)
    PROVE  OutputOf(origin)'
  <1> DEFINE run == [Idle EXCEPT !.pc = "recover", !.mode = "recover-sign", !.input = input]
  <1>1. "recover" \in Steps /\ "recover-sign" \in {"sign", "recover-sign"}
        /\ input \in Inputs \cup {NoFile}
    BY DEF Steps
  <1>2. run \in Runs(origin)
    BY <1>1, IdleRun DEF Runs
  <1>3. run.pc = "recover"
    BY IdleRun DEF Runs
  <1>4. proc' = [proc EXCEPT ![p] = run] /\ UNCHANGED <<journal, payload>> /\ Exists
    BY DEF LaunchRecover, Quiet
  <1> HIDE DEF run
  <1>5. proc \in [Procs -> Runs(origin)] /\ Dir \in Versions(origin)
    BY <1>4, LastVersion DEF OutputOf, OutputTyped
  <1>6. /\ proc' \in [Procs -> Runs(origin)] /\ proc'[p].pc = "recover"
        /\ \A q \in Procs \ {p} : proc'[q] = proc[q]
    BY <1>2, <1>3, <1>4, <1>5, AtOne
  <1>7. ~Early(p)' /\ ~At(p, "rewrite")'
    BY <1>6 DEF Early, Filling, ForWrite, At
  <1>8. QED
    BY <1>4, <1>5, <1>6, <1>7, OtherMoves

LEMMA RejectedMoves ==
    ASSUME NEW origin, OutputOf(origin), NEW p \in Procs,
           SignerRejected(p) \/ RejectedSync(p) \/ Launched(p)
    PROVE  OutputOf(origin)'
  <1>1. proc[p].pc # "idle"
    BY DEF SignerRejected, RejectedSync, Launched, At
  <1>2. Dir \in Versions(origin) /\ proc \in [Procs -> Runs(origin)]
    BY <1>1, RunningOn
  <1>3. CASE SignerRejected(p)
    <2>1. CASE Leave(p) /\ UNCHANGED journal
      BY <1>1, <1>3, <2>1, RefuseStep DEF SignerRejected, Quiet
    <2>2. CASE Change([Dir EXCEPT !.binding = NoFile]) /\ Proceed(p, "settled")
      <3>1. /\ [Dir EXCEPT !.binding = NoFile] \in Versions(origin)
            /\ [Dir EXCEPT !.binding = NoFile].final = Dir.final
        BY <1>2 DEF Versions
      <3>2. "settled" \in Beyond
        BY DEF Beyond, Steps
      <3>3. QED
        BY <1>1, <1>3, <2>2, <3>1, <3>2, LateProceed DEF SignerRejected, Quiet
    <2>3. QED
      BY <1>3, <2>1, <2>2 DEF SignerRejected
  <1>4. CASE RejectedSync(p)
    <2>1. "idle" \in Beyond
      BY DEF Beyond, Steps
    <2>2. QED
      BY <1>1, <1>2, <1>4, <2>1, LeaveIs, LateStep DEF RejectedSync, Quiet
  <1>5. CASE Launched(p)
    BY <1>1, <1>5, RefuseStep DEF Launched
  <1>6. QED
    BY <1>3, <1>4, <1>5

LEMMA RecoverMoves ==
    ASSUME NEW origin, OutputOf(origin), NEW p \in Procs, Recover(p)
    PROVE  OutputOf(origin)'
  <1>1. proc[p].pc # "idle" /\ UNCHANGED <<payload, journal>>
    BY DEF Recover, Quiet
  <1>2. Dir \in Versions(origin) /\ "emit" \in Beyond
    BY <1>1, RunningOn DEF Beyond, Steps
  <1>3. CASE Refuse(p)
    BY <1>1, <1>3, RefuseStep
  <1>4. CASE Proceed(p, "emit")
    BY <1>1, <1>2, <1>4, LateProceed
  <1>5. CASE /\ Dir.binding # NoFile
             /\ AuthorizeCleanup(p, IF At(p, "uncertain") THEN "rmdir2" ELSE "rmdir")
    BY <1>1, <1>5, AuthorizeStep
  <1>6. QED
    BY <1>3, <1>4, <1>5 DEF Recover

LEMMA ReopenMoves ==
    ASSUME NEW origin, OutputOf(origin), NEW p \in Procs, Reopen(p)
    PROVE  OutputOf(origin)'
  <1>1. proc[p].pc # "idle" /\ UNCHANGED <<payload, journal>>
    BY DEF Reopen, Quiet, At
  <1>2. CASE Refuse(p)
    BY <1>1, <1>2, RefuseStep
  <1>3. CASE Uncertain(p)
    BY <1>1, <1>3, UncertainStep
  <1>4. CASE Dir.binding # NoFile /\ AuthorizeCleanup(p, "rmdir")
    BY <1>1, <1>4, AuthorizeStep
  <1>5. QED
    BY <1>2, <1>3, <1>4 DEF Reopen, Legible

LEMMA RemoveMoves ==
    ASSUME NEW origin, OutputOf(origin), NEW p \in Procs, RemoveStage(p) \/ RemoveSync(p)
    PROVE  OutputOf(origin)'
  <1>1. proc[p].pc # "idle" /\ UNCHANGED payload
    BY DEF RemoveStage, RemoveSync, Quiet
  <1>2. Dir \in Versions(origin)
    BY <1>1, RunningOn
  <1>3. "rmsync" \in Beyond /\ "rmsync2" \in Beyond /\ "emit" \in Beyond
    BY DEF Beyond, Steps
  <1>4. CASE RemoveStage(p)
    <2>1. CASE UNCHANGED journal /\ (Uncertain(p) \/ Refuse(p))
      BY <1>1, <2>1, UncertainStep, RefuseStep
    <2>2. CASE /\ Change([Dir EXCEPT !.stage = "none"])
               /\ Proceed(p, IF At(p, "rmdir") THEN "rmsync" ELSE "rmsync2")
      <3>1. /\ [Dir EXCEPT !.stage = "none"] \in Versions(origin)
            /\ [Dir EXCEPT !.stage = "none"].final = Dir.final
        BY <1>2 DEF Versions
      <3>2. QED
        BY <1>1, <1>3, <2>2, <3>1, LateProceed
    <2>3. QED
      BY <1>4, <2>1, <2>2 DEF RemoveStage
  <1>5. CASE RemoveSync(p)
    <2>1. CASE UNCHANGED journal /\ (Uncertain(p) \/ Refuse(p))
      BY <1>1, <2>1, UncertainStep, RefuseStep
    <2>2. CASE Fsync(Dir) /\ Proceed(p, "emit")
      BY <1>1, <1>2, <1>3, <2>2, LateProceed
    <2>3. CASE Fsync(Dir) /\ Uncertain(p)
      <3>1. proc \in [Procs -> Runs(origin)] /\ "uncertain" \in Beyond
        BY <1>1, RunningOn DEF Beyond, Steps
      <3>2. QED
        BY <1>1, <1>2, <2>3, <3>1, UncertainIs, LateStep
    <2>4. QED
      BY <1>5, <2>1, <2>2, <2>3 DEF RemoveSync
  <1>6. QED
    BY <1>4, <1>5

LEMMA ManifestMoves ==
    ASSUME NEW origin, OutputOf(origin), NEW p \in Procs,
           EmitManifest(p) \/ Link(p) \/ LinkSync(p)
    PROVE  OutputOf(origin)'
  <1>1. proc[p].pc # "idle" /\ UNCHANGED payload
    BY DEF EmitManifest, Link, LinkSync, Quiet, At
  <1>2. Dir \in Versions(origin) /\ proc \in [Procs -> Runs(origin)] /\ proc[p] \in Runs(origin)
    BY <1>1, RunningOn
  <1>3. {"link", "linksync", "unbind", "outsync"} \subseteq Beyond
    BY DEF Beyond, Steps
  <1>4. CASE Refuse(p) /\ UNCHANGED journal
    BY <1>1, <1>4, RefuseStep
  <1>5. CASE EmitManifest(p) /\ ~Refuse(p)
    <2> DEFINE flag == Dir.binding # NoFile
               step == IF Dir.manifest = NoFile THEN "link"
                       ELSE IF Dir.binding # NoFile THEN "unbind" ELSE "outsync"
               run == [proc[p] EXCEPT !.unbind = flag, !.pc = step]
    <2>1. proc' = [proc EXCEPT ![p] = run] /\ UNCHANGED journal
      BY <1>5 DEF EmitManifest
    <2>2. step \in Beyond /\ flag \in BOOLEAN
      BY <1>3
    <2> HIDE DEF step, flag
    <2>3. step \in Steps
      BY <2>2 DEF Beyond
    <2>4. run \in Runs(origin) /\ run.pc = step
      BY <1>2, <2>2, <2>3 DEF Runs
    <2> HIDE DEF run
    <2>5. QED
      BY <1>1, <1>2, <2>1, <2>2, <2>4, AtOne, LateMove
  <1>6. CASE Link(p) /\ ~(Refuse(p) /\ UNCHANGED journal)
    <2> DEFINE reverse == [mode |-> proc[p].mode, input |-> proc[p].input]
    <2>1. reverse \in Reverses
      BY <1>2 DEF Runs, Reverses
    <2>2. Change([Dir EXCEPT !.manifest = reverse]) /\ Proceed(p, "linksync")
      BY <1>6 DEF Link
    <2> HIDE DEF reverse
    <2>3. /\ [Dir EXCEPT !.manifest = reverse] \in Versions(origin)
          /\ [Dir EXCEPT !.manifest = reverse].final = Dir.final
      BY <1>2, <2>1 DEF Versions
    <2>4. QED
      BY <1>1, <1>3, <2>2, <2>3, LateProceed
  <1>7. CASE LinkSync(p)
    BY <1>1, <1>2, <1>3, <1>7, LateProceed DEF LinkSync
  <1>8. QED
    BY <1>4, <1>5, <1>6, <1>7 DEF EmitManifest

LEMMA UnbindMoves ==
    ASSUME NEW origin, OutputOf(origin), NEW p \in Procs, Unbind(p) \/ OutputSync(p)
    PROVE  OutputOf(origin)'
  <1>1. proc[p].pc # "idle" /\ UNCHANGED payload
    BY DEF Unbind, OutputSync, Quiet, At
  <1>2. Dir \in Versions(origin)
    BY <1>1, RunningOn
  <1>3. "outsync" \in Beyond /\ "done" \in Beyond /\ "rejected" \in Beyond
    BY DEF Beyond, Steps
  <1>4. CASE UNCHANGED journal /\ Refuse(p)
    BY <1>1, <1>4, RefuseStep
  <1>5. CASE Change([Dir EXCEPT !.binding = NoFile]) /\ Proceed(p, "outsync")
    <2>1. /\ [Dir EXCEPT !.binding = NoFile] \in Versions(origin)
          /\ [Dir EXCEPT !.binding = NoFile].final = Dir.final
      BY <1>2 DEF Versions
    <2>2. QED
      BY <1>1, <1>3, <1>5, <2>1, LateProceed
  <1>6. CASE OutputSync(p)
    <2>1. Fsync(Dir) /\ (Proceed(p, "rejected") \/ Proceed(p, "done"))
      BY <1>6 DEF OutputSync, Refuse, Proceed
    <2>2. QED
      BY <1>1, <1>2, <1>3, <2>1, LateProceed
  <1>7. QED
    BY <1>4, <1>5, <1>6 DEF Unbind

LEMMA VisibleMoves ==
    ASSUME NEW origin, OutputOf(origin), NEW p \in Procs, PublishSync(p)
    PROVE  OutputOf(origin)'
  <1>1. proc[p].pc # "idle" /\ UNCHANGED payload
    BY DEF PublishSync, At
  <1>2. Dir \in Versions(origin) /\ proc \in [Procs -> Runs(origin)] /\ proc[p] \in Runs(origin)
    BY <1>1, RunningOn
  <1>3. "reopen" \in Beyond /\ "reopen" \in Steps
    BY DEF Beyond, Steps
  <1>4. CASE Fsync(Dir) /\ Proceed(p, "reopen")
    BY <1>1, <1>2, <1>3, <1>4, LateProceed
  <1>5. CASE UNCHANGED journal /\ ~Proceed(p, "reopen")
    <2> DEFINE run == [proc[p] EXCEPT !.pc = "reopen", !.uncertain = TRUE]
    <2>1. proc' = [proc EXCEPT ![p] = run]
      BY <1>5 DEF PublishSync
    <2>2. run \in Runs(origin) /\ run.pc = "reopen"
      BY <1>2, <1>3 DEF Runs
    <2> HIDE DEF run
    <2>3. QED
      BY <1>1, <1>2, <1>3, <1>5, <2>1, <2>2, AtOne, LateMove
  <1>6. CASE UNCHANGED journal /\ Proceed(p, "reopen")
    BY <1>1, <1>2, <1>3, <1>6, LateProceed
  <1>7. QED
    BY <1>4, <1>5, <1>6 DEF PublishSync

\* Publish gives the bundle its final name: it is complete and durable, and the
\* command that made it has nothing to do with it any more.
LEMMA PublishMoves ==
    ASSUME NEW origin, OutputOf(origin), NEW p \in Procs, Publish(p)
    PROVE  OutputOf(origin)'
  <1>1. proc[p].pc # "idle" /\ UNCHANGED payload /\ At(p, "publish")
    BY DEF Publish, Quiet, At
  <1>2. /\ Dir \in Versions(origin) /\ proc \in [Procs -> Runs(origin)]
        /\ journal \in Seq(Versions(origin)) /\ MakerInv(origin) /\ Exists
    BY <1>1, RunningOn
  <1>3. CASE UNCHANGED journal /\ Refuse(p)
    BY <1>1, <1>3, RefuseStep
  <1>4. CASE Change([Dir EXCEPT !.final = TRUE, !.stage = "empty"]) /\ Proceed(p, "visible")
    <2> DEFINE dir == [Dir EXCEPT !.final = TRUE, !.stage = "empty"]
    <2>1. dir \in Versions(origin)
      BY <1>2 DEF Versions
    <2>2. Change(dir)
      BY <1>4
    <2> HIDE DEF dir
    <2>3. journal' \in Seq(Versions(origin)) /\ Exists'
      BY <1>2, <2>1, <2>2 DEF Change, Exists
    <2>4. "visible" \in Steps
      BY DEF Steps
    <2>5. /\ proc' \in [Procs -> Runs(origin)] /\ \A q \in Procs \ {p} : proc'[q] = proc[q]
          /\ proc'[p].pc = "visible"
      BY <1>2, <1>4, <2>4, ProceedIs
    <2>6. Early(p) /\ Filling(p)
      BY <1>1 DEF Early, Filling, At
    <2>7. /\ payload.durable = BundleFiles /\ payload.input = origin
          /\ \A q \in Procs \ {p} : ~Early(q)
      BY <1>1, <1>2, <2>6 DEF MakerInv
    <2>8. OutputTyped(origin)'
      BY <1>1, <2>3, <2>5 DEF OutputOf, OutputTyped
    <2>9. FinalInv(origin)'
      BY <1>1, <2>7 DEF FinalInv
    <2>10. MakerInv(origin)'
      <3>1. ~Early(p)' /\ ~Filling(p)' /\ ~At(p, "publish")' /\ ~At(p, "rewrite")'
        BY <2>5 DEF Early, Filling, ForWrite, At
      <3>2. \A q \in Procs \ {p} :
               /\ ~Early(q)' /\ ~Filling(q)' /\ ~At(q, "publish")'
               /\ At(q, "rewrite")' => proc'[q].todo # << >>
        <4>1. \A q \in Procs \ {p} : ~Early(q) /\ (At(q, "rewrite") => proc[q].todo # << >>)
          BY <1>2, <2>7 DEF MakerInv
        <4>2. QED
          BY <2>5, <4>1 DEF Early, Filling, ForWrite, At
      <3>3. QED
        BY <3>1, <3>2 DEF MakerInv
    <2>11. QED
      BY <2>3, <2>8, <2>9, <2>10 DEF OutputOf
  <1>5. QED
    BY <1>3, <1>4 DEF Publish

\* The maker, while it goes on making.
LEMMA MakerStep ==
    ASSUME NEW origin, OutputOf(origin), NEW p \in Procs, Early(p), Exists,
           proc' \in [Procs -> Runs(origin)], \A q \in Procs \ {p} : proc'[q] = proc[q],
           proc'[p].input = proc[p].input,
           payload' \in Payloads, payload'.durable <= payload'.files,
           Filling(p)' => payload'.input = origin,
           At(p, "publish")' => payload'.durable = BundleFiles,
           At(p, "rewrite")' => proc'[p].todo # << >>,
           NEW dir \in Versions(origin), Change(dir) \/ Fsync(dir) \/ UNCHANGED journal,
           dir.final => Dir.final
    PROVE  OutputOf(origin)'
  <1>1. journal \in Seq(Versions(origin))
    BY DEF OutputOf, OutputTyped
  <1>2. journal' \in Seq(Versions(origin)) /\ Exists' /\ (NothingFinal => NothingFinal')
    BY <1>1, VersionAdded
  <1>3. QED
    BY <1>2, CommandMoves

\* What an early command finds.
LEMMA Making ==
    ASSUME NEW origin, OutputOf(origin), NEW p \in Procs, Early(p)
    PROVE  /\ proc[p].pc # "idle" /\ proc[p].input = origin /\ origin \in Inputs \cup {NoFile}
           /\ Filling(p) => payload.input = origin
  <1>1. proc[p].pc # "idle"
    BY DEF Early, Filling, ForWrite, At
  <1>2. MakerInv(origin) /\ proc[p] \in Runs(origin)
    BY <1>1, RunningOn
  <1>3. proc[p].input \in Inputs \cup {NoFile}
    BY <1>2 DEF Runs
  <1>4. QED
    BY <1>1, <1>2, <1>3 DEF MakerInv

\* The binding is made, and the container after it.
LEMMA BindMoves ==
    ASSUME NEW origin, OutputOf(origin), NEW p \in Procs,
           BindCreate(p) \/ BindSync(p) \/ MakeContainer(p)
    PROVE  OutputOf(origin)'
  <1>1. Early(p) /\ UNCHANGED payload
    BY DEF BindCreate, BindSync, MakeContainer, Early, At, Quiet
  <1>2. proc[p].pc # "idle" /\ proc[p].input = origin
    BY <1>1, Making
  <1>3. /\ Exists /\ Dir \in Versions(origin) /\ proc \in [Procs -> Runs(origin)]
        /\ payload \in Payloads /\ payload.durable <= payload.files
    BY <1>2, RunningOn
  <1>4. PICK step \in {"bindsync", "container", "payload"} : Proceed(p, step)
    BY DEF BindCreate, BindSync, MakeContainer
  <1>5. step \in Steps
    BY DEF Steps
  <1>6. /\ proc' \in [Procs -> Runs(origin)] /\ \A q \in Procs \ {p} : proc'[q] = proc[q]
        /\ proc'[p].pc = step /\ proc'[p].input = proc[p].input
    BY <1>3, <1>4, <1>5, ProceedIs
  <1>7. ~Filling(p)' /\ ~At(p, "publish")' /\ ~At(p, "rewrite")'
    BY <1>6 DEF Filling, ForWrite, At
  <1>8. \E dir \in Versions(origin) : (Change(dir) \/ Fsync(dir)) /\ dir.final = Dir.final
    <2>1. CASE BindCreate(p) \/ BindSync(p)
      <3>1. PICK text \in {"torn", "unbound"} :
               LET dir == [Dir EXCEPT !.binding = Binding("0600", text, proc[p].input)]
               IN  Change(dir) \/ Fsync(dir)
        BY <2>1 DEF BindCreate, BindSync
      <3>2. Binding("0600", text, proc[p].input) \in Bindings(origin)
        BY <1>2 DEF Binding, Bindings
      <3> DEFINE bound == Binding("0600", text, proc[p].input)
      <3>3. bound \in Bindings(origin) /\ LET dir == [Dir EXCEPT !.binding = bound]
                                            IN  Change(dir) \/ Fsync(dir)
        BY <3>1, <3>2
      <3> HIDE DEF bound
      <3>4. /\ [Dir EXCEPT !.binding = bound] \in Versions(origin)
            /\ [Dir EXCEPT !.binding = bound].final = Dir.final
        BY <1>3, <3>3 DEF Versions
      <3>5. QED
        BY <3>3, <3>4
    <2>2. CASE MakeContainer(p)
      <3>1. Fsync([Dir EXCEPT !.stage = "empty"])
        BY <2>2 DEF MakeContainer
      <3>2. /\ [Dir EXCEPT !.stage = "empty"] \in Versions(origin)
            /\ [Dir EXCEPT !.stage = "empty"].final = Dir.final
        BY <1>3 DEF Versions
      <3>3. QED
        BY <3>1, <3>2
    <2>3. QED
      BY <2>1, <2>2
  <1>9. QED
    BY <1>1, <1>3, <1>6, <1>7, <1>8, MakerStep

\* The payload is made, empty, for the input of the directory.
LEMMA PayloadMade ==
    ASSUME NEW origin, OutputOf(origin), NEW p \in Procs, MakePayload(p)
    PROVE  OutputOf(origin)'
  <1>1. Early(p)
    BY DEF MakePayload, Early, At
  <1>2. proc[p].pc # "idle" /\ proc[p].input = origin /\ origin \in Inputs \cup {NoFile}
    BY <1>1, Making
  <1>3. Exists /\ Dir \in Versions(origin) /\ proc \in [Procs -> Runs(origin)]
    BY <1>2, RunningOn
  <1>4. /\ [Dir EXCEPT !.stage = "payload"] \in Versions(origin)
        /\ [Dir EXCEPT !.stage = "payload"].final = Dir.final
    BY <1>3 DEF Versions
  <1>5. Fsync([Dir EXCEPT !.stage = "payload"])
    BY DEF MakePayload
  <1>6. payload' = [input |-> proc[p].input, files |-> 0, durable |-> 0]
    BY DEF MakePayload
  <1>7. payload' \in Payloads /\ payload'.durable <= payload'.files /\ payload'.input = origin
    BY <1>2, <1>6, OutputAssumption DEF Payloads
  <1>8. CASE Refuse(p)
    <2>1. Proceed(p, "rejected") /\ "rejected" \in Steps
      BY <1>8 DEF Refuse, Proceed, Steps
    <2>2. /\ proc' \in [Procs -> Runs(origin)] /\ \A q \in Procs \ {p} : proc'[q] = proc[q]
          /\ proc'[p].pc = "rejected" /\ proc'[p].input = proc[p].input
      BY <1>3, <2>1, ProceedIs
    <2>3. ~At(p, "publish")' /\ ~At(p, "rewrite")'
      BY <2>2 DEF At
    <2>4. QED
      BY <1>1, <1>3, <1>4, <1>5, <1>7, <2>2, <2>3, MakerStep
  <1>9. CASE Unbound(p) /\ RewriteBinding(p, "bound", "0600", "write")
    <2>1. Dir.binding \in Bindings(origin)
      BY <1>2, <1>9 DEF Unbound, Binding, Bindings
    <2>2. /\ "bound" \in {"bound", "authorized"} /\ "0600" \in {"0600", "0400"}
          /\ "write" \in {"write", "rmdir", "rmdir2"}
      OBVIOUS
    <2>3. /\ proc' \in [Procs -> Runs(origin)] /\ \A q \in Procs \ {p} : proc'[q] = proc[q]
          /\ proc'[p].pc = "rewrite" /\ proc'[p].todo # << >> /\ proc'[p].input = proc[p].input
      BY <1>3, <1>9, <2>1, <2>2, RewriteIs
    <2>4. ~At(p, "publish")'
      BY <2>3 DEF At
    <2>5. QED
      BY <1>1, <1>3, <1>4, <1>5, <1>7, <2>3, <2>4, MakerStep
  <1>10. QED
    BY <1>8, <1>9 DEF MakePayload

\* The files are written, then made durable by their names.
LEMMA FilesMove ==
    ASSUME NEW origin, OutputOf(origin), NEW p \in Procs, WriteFile(p) \/ VerifyFiles(p)
    PROVE  OutputOf(origin)'
  <1>1. Filling(p) /\ Early(p) /\ UNCHANGED journal
    BY DEF WriteFile, VerifyFiles, Filling, Early, At
  <1>2. proc[p].pc # "idle" /\ payload.input = origin
    BY <1>1, Making
  <1>3. /\ Exists /\ Dir \in Versions(origin) /\ proc \in [Procs -> Runs(origin)]
        /\ payload \in Payloads /\ payload.durable <= payload.files
    BY <1>2, RunningOn
  <1>4. CASE WriteFile(p)
    <2>1. payload' = [payload EXCEPT !.files = payload.files + 1]
          /\ payload.files < BundleFiles /\ UNCHANGED proc /\ At(p, "write")
      BY <1>4 DEF WriteFile
    <2>2. /\ payload' \in Payloads /\ payload'.durable <= payload'.files
          /\ payload'.input = payload.input
      BY <1>3, <2>1, OutputAssumption DEF Payloads
    <2>3. ~At(p, "publish")' /\ ~At(p, "rewrite")'
      BY <2>1 DEF At
    <2>4. QED
      BY <1>1, <1>2, <1>3, <2>1, <2>2, <2>3, MakerStep
  <1>5. CASE VerifyFiles(p)
    <2>1. payload' = [payload EXCEPT !.durable = payload.files]
          /\ payload.files = BundleFiles /\ Proceed(p, "publish")
      BY <1>5 DEF VerifyFiles, Complete
    <2>2. /\ payload' \in Payloads /\ payload'.durable <= payload'.files
          /\ payload'.input = payload.input /\ payload'.durable = BundleFiles
      BY <1>3, <2>1, OutputAssumption DEF Payloads
    <2>3. "publish" \in Steps
      BY DEF Steps
    <2>4. /\ proc' \in [Procs -> Runs(origin)] /\ \A q \in Procs \ {p} : proc'[q] = proc[q]
          /\ proc'[p].pc = "publish" /\ proc'[p].input = proc[p].input
      BY <1>3, <2>1, <2>3, ProceedIs
    <2>5. ~At(p, "rewrite")'
      BY <2>4 DEF At
    <2>6. QED
      BY <1>1, <1>2, <1>3, <2>2, <2>4, <2>5, MakerStep
  <1>6. QED
    BY <1>4, <1>5

LEMMA ToDoShrinks ==
    ASSUME NEW S, NEW todo \in Seq(S), todo # << >>
    PROVE  /\ Head(todo) \in S /\ Tail(todo) \in Seq(S)
           /\ Len(todo) # 1 => Tail(todo) # << >>
  <1>1. Len(todo) \in Nat /\ Len(todo) # 0
    OBVIOUS
  <1>2. Tail(todo) \in Seq(S) /\ Len(Tail(todo)) = Len(todo) - 1 /\ Head(todo) \in S
    OBVIOUS
  <1>3. Len(<< >>) = 0
    OBVIOUS
  <1>4. QED
    BY <1>1, <1>2, <1>3

\* The rewriting of the binding takes no part in who makes the bundle.
LEMMA RewriteMoves ==
    ASSUME NEW origin, OutputOf(origin), NEW p \in Procs, RewriteStep(p)
    PROVE  OutputOf(origin)'
  <1>1. At(p, "rewrite") /\ proc[p].pc # "idle" /\ UNCHANGED payload
    BY DEF RewriteStep, At, Quiet
  <1>2. /\ Exists /\ Dir \in Versions(origin) /\ proc \in [Procs -> Runs(origin)]
        /\ payload \in Payloads /\ payload.durable <= payload.files
        /\ MakerInv(origin) /\ proc[p] \in Runs(origin) /\ journal \in Seq(Versions(origin))
    BY <1>1, RunningOn
  <1>3. proc[p].todo \in Seq(Bindings(origin)) /\ proc[p].todo # << >>
    BY <1>1, <1>2 DEF MakerInv, Runs
  <1>4. /\ Head(proc[p].todo) \in Bindings(origin) /\ Tail(proc[p].todo) \in Seq(Bindings(origin))
        /\ Len(proc[p].todo) # 1 => Tail(proc[p].todo) # << >>
    BY <1>3, ToDoShrinks
  <1> DEFINE step == IF Len(proc[p].todo) = 1 THEN "resync" ELSE proc[p].pc
             run == [proc[p] EXCEPT !.todo = Tail(proc[p].todo), !.pc = step]
             dir == [Dir EXCEPT !.binding = Head(proc[p].todo)]
  <1>5. proc' = [proc EXCEPT ![p] = run] /\ Change(dir)
    BY DEF RewriteStep
  <1>6. step \in Steps /\ step \in {"rewrite", "resync"}
        /\ (step = "rewrite" => Tail(proc[p].todo) # << >>)
    BY <1>1, <1>4 DEF Steps, At
  <1>7. dir \in Versions(origin) /\ dir.final = Dir.final
    BY <1>2, <1>4 DEF Versions
  <1> HIDE DEF step, dir
  <1>8. /\ run \in Runs(origin) /\ run.pc = step /\ run.todo = Tail(proc[p].todo)
        /\ run.next = proc[p].next /\ run.input = proc[p].input
    BY <1>2, <1>4, <1>6 DEF Runs
  <1> HIDE DEF run
  <1>9. /\ proc' \in [Procs -> Runs(origin)] /\ proc'[p] = run
        /\ \A q \in Procs \ {p} : proc'[q] = proc[q]
    BY <1>2, <1>5, <1>8, AtOne
  <1>10. journal' \in Seq(Versions(origin)) /\ Exists' /\ (NothingFinal => NothingFinal')
    BY <1>2, <1>5, <1>7, VersionAdded
  <1>11. /\ Early(p)' => Early(p)
         /\ Filling(p)' => Filling(p)
         /\ ~At(p, "publish")'
         /\ At(p, "rewrite")' => proc'[p].todo # << >>
    BY <1>1, <1>6, <1>8, <1>9 DEF Early, Filling, ForWrite, At
  <1>12. Filling(p) => payload.input = origin
    BY <1>2 DEF MakerInv
  <1>13. QED
    BY <1>1, <1>2, <1>8, <1>9, <1>10, <1>11, <1>12, CommandMoves

LEMMA RewriteEnds ==
    ASSUME NEW origin, OutputOf(origin), NEW p \in Procs, RewriteSync(p) \/ RewriteLost(p)
    PROVE  OutputOf(origin)'
  <1>1. proc[p].pc # "idle" /\ UNCHANGED payload
    BY DEF RewriteSync, RewriteLost, At, Quiet
  <1>2. /\ Exists /\ Dir \in Versions(origin) /\ proc \in [Procs -> Runs(origin)]
        /\ payload \in Payloads /\ payload.durable <= payload.files
        /\ proc[p] \in Runs(origin)
    BY <1>1, RunningOn
  <1>3. CASE Refuse(p) /\ UNCHANGED journal
    BY <1>1, <1>3, RefuseStep
  <1>4. CASE At(p, "resync") /\ Fsync(Dir) /\ Proceed(p, proc[p].next)
    <2>1. proc[p].next \in {"idle", "write", "rmdir", "rmdir2"}
      BY <1>2 DEF Runs
    <2>2. CASE proc[p].next = "write"
      <3>1. Filling(p) /\ Early(p)
        BY <1>4, <2>2 DEF Filling, Early, ForWrite, At
      <3>2. payload.input = origin /\ "write" \in Steps
        BY <3>1, Making DEF Steps
      <3>3. /\ proc' \in [Procs -> Runs(origin)] /\ \A q \in Procs \ {p} : proc'[q] = proc[q]
            /\ proc'[p].pc = "write" /\ proc'[p].input = proc[p].input
        BY <1>2, <1>4, <2>2, <3>2, ProceedIs
      <3>4. ~At(p, "publish")' /\ ~At(p, "rewrite")'
        BY <3>3 DEF At
      <3>5. QED
        BY <1>1, <1>2, <1>4, <3>1, <3>2, <3>3, <3>4, MakerStep
    <2>3. CASE proc[p].next \in {"idle", "rmdir", "rmdir2"}
      <3>1. proc[p].next \in Beyond
        BY <2>3 DEF Beyond, Steps
      <3>2. QED
        BY <1>1, <1>2, <1>4, <3>1, LateProceed
    <2>4. QED
      BY <2>1, <2>2, <2>3
  <1>5. QED
    BY <1>3, <1>4 DEF RewriteSync, RewriteLost

\* A command fails or is killed.
LEMMA FailureMoves ==
    ASSUME NEW origin, OutputOf(origin), NEW p \in Procs, Fail(p) \/ Kill(p)
    PROVE  OutputOf(origin)'
  <1>1. proc[p].pc # "idle" /\ UNCHANGED <<journal, payload>> /\ (Refuse(p) \/ Leave(p))
    BY DEF Fail, Kill, At
  <1>2. QED
    BY <1>1, RefuseStep

\* The output directory is made, for an input of its own: nothing runs yet.
LEMMA SignLaunches ==
    ASSUME NEW origin, OutputOf(origin), NEW p \in Procs, NEW input \in Inputs,
           LaunchSign(p, input)
    PROVE  OutputOf(input)'
  <1> DEFINE run == [Idle EXCEPT !.pc = "bind", !.input = input]
  <1>1. ~Exists /\ journal' = << EmptyDir >> /\ UNCHANGED payload
        /\ proc' = [proc EXCEPT ![p] = run]
    BY DEF LaunchSign, Fsync, Quiet
  <1>2. proc = [q \in Procs |-> Idle] /\ payload \in Payloads /\ payload.durable <= payload.files
    BY <1>1 DEF OutputOf, OutputTyped
  <1>3. EmptyDir \in Versions(input) /\ EmptyDir.final = FALSE
    BY DEF EmptyDir, Versions
  <1>4. run \in Runs(input) /\ run.pc = "bind" /\ run.input = input
    <2>1. "bind" \in Steps /\ input \in Inputs \cup {NoFile}
      BY DEF Steps
    <2>2. QED
      BY <2>1, IdleRun DEF Runs
  <1> HIDE DEF run
  <1>5. proc \in [Procs -> Runs(input)]
    BY <1>2, IdleRun
  <1>6. /\ proc' \in [Procs -> Runs(input)] /\ proc'[p] = run
        /\ \A q \in Procs \ {p} : proc'[q] = proc[q]
    BY <1>1, <1>4, <1>5, AtOne
  <1>7. \A q \in Procs \ {p} : proc'[q].pc = "idle"
    BY <1>2, <1>6, IdleRun
  <1>8. journal' \in Seq(Versions(input)) /\ Exists' /\ NothingFinal'
    BY <1>1, <1>3 DEF Exists, NothingFinal
  <1>9. OutputTyped(input)'
    BY <1>1, <1>2, <1>6, <1>8 DEF OutputTyped
  <1>10. /\ \A q \in Procs \ {p} : ~Early(q)' /\ ~Filling(q)' /\ ~At(q, "publish")' /\ ~At(q, "rewrite")'
         /\ ~Filling(p)' /\ ~At(p, "publish")' /\ ~At(p, "rewrite")'
    BY <1>4, <1>6, <1>7 DEF Early, Filling, ForWrite, At
  <1>11. MakerInv(input)'
    BY <1>4, <1>6, <1>8, <1>10 DEF MakerInv
  <1>12. QED
    BY <1>8, <1>9, <1>11 DEF OutputOf, FinalInv

\* No command outlives a loss of power, and what was final was durable.
LEMMA PowerMoves ==
    ASSUME NEW origin, OutputOf(origin), PowerLoss
    PROVE  OutputOf(origin)'
  <1>1. /\ journal \in Seq(Versions(origin)) /\ payload \in Payloads
        /\ payload.durable <= payload.files
    BY DEF OutputOf, OutputTyped
  <1>2. PICK i \in DOMAIN journal : journal' = << journal[i] >>
    BY DEF PowerLoss, Fsync, ToSet
  <1>3. PICK files \in payload.durable..payload.files : payload' = [payload EXCEPT !.files = files]
    BY DEF PowerLoss
  <1>4. /\ payload' \in Payloads /\ payload'.durable <= payload'.files
        /\ payload'.durable = payload.durable /\ payload'.input = payload.input
    BY <1>1, <1>3, OutputAssumption DEF Payloads
  <1>5. proc' = [p \in Procs |-> Idle]
    BY DEF PowerLoss
  <1>6. proc' \in [Procs -> Runs(origin)] /\ \A p \in Procs : proc'[p].pc = "idle"
    BY <1>5, IdleRun
  <1>7. /\ journal[i] \in Versions(origin) /\ journal' \in Seq(Versions(origin)) /\ Exists'
        /\ ~NothingFinal' => ~NothingFinal
    BY <1>1, <1>2 DEF Exists, NothingFinal
  <1>8. OutputTyped(origin)'
    BY <1>4, <1>6, <1>7 DEF OutputTyped
  <1>9. MakerInv(origin)'
    <2>1. \A p \in Procs : ~Early(p)' /\ ~Filling(p)' /\ ~At(p, "publish")' /\ ~At(p, "rewrite")'
      BY <1>6 DEF Early, Filling, ForWrite, At
    <2>2. QED
      BY <2>1 DEF MakerInv
  <1>10. FinalInv(origin)'
    BY <1>4, <1>7 DEF OutputOf, FinalInv
  <1>11. QED
    BY <1>7, <1>8, <1>9, <1>10 DEF OutputOf

-----------------------------------------------------------------------------
(* The theorems                                                            *)

LEMMA OutputStarts == OutputInit => OutputInv
  <1> SUFFICES ASSUME OutputInit
               PROVE  OutputOf(NoFile)
    BY DEF OutputInv
  <1>1. journal = << >> /\ payload = [input |-> NoFile, files |-> 0, durable |-> 0]
        /\ proc = [p \in Procs |-> Idle]
    BY DEF OutputInit
  <1>2. journal \in Seq(Versions(NoFile)) /\ ~Exists /\ NothingFinal
    BY <1>1 DEF Exists, NothingFinal
  <1>3. payload \in Payloads /\ payload.durable <= payload.files
    BY <1>1, OutputAssumption DEF Payloads
  <1>4. proc \in [Procs -> Runs(NoFile)] /\ \A p \in Procs : proc[p].pc = "idle"
    BY <1>1, IdleRun
  <1>5. MakerInv(NoFile)
    <2>1. \A p \in Procs : ~Early(p) /\ ~Filling(p) /\ ~At(p, "publish") /\ ~At(p, "rewrite")
      BY <1>4 DEF Early, Filling, ForWrite, At
    <2>2. QED
      BY <2>1 DEF MakerInv
  <1>6. QED
    BY <1>1, <1>2, <1>3, <1>4, <1>5 DEF OutputOf, OutputTyped, FinalInv

LEMMA OutputGoesOn == OutputInv /\ [OutputNext]_outputVars => OutputInv'
  <1> SUFFICES ASSUME NEW origin \in Inputs \cup {NoFile}, OutputOf(origin),
                      [OutputNext]_outputVars
               PROVE  \E new \in Inputs \cup {NoFile} : OutputOf(new)'
    BY DEF OutputInv
  <1>1. ASSUME NEW p \in Procs, Step(p)
        PROVE  OutputOf(origin)'
    BY <1>1, BindMoves, RejectedMoves, RewriteMoves, RewriteEnds, PayloadMade, FilesMove,
       PublishMoves, VisibleMoves, ReopenMoves, RecoverMoves, RemoveMoves, ManifestMoves,
       UnbindMoves DEF Step
  <1>2. CASE UNCHANGED outputVars
    <2>1. OutputOf(origin)'
      BY <1>2 DEF outputVars, OutputOf, OutputTyped, MakerInv, FinalInv, NothingFinal, Exists,
                  Early, Filling, ForWrite, At
    <2>2. QED
      BY <2>1
  <1>3. ASSUME NEW p \in Procs, NEW input \in Inputs,
               LaunchSign(p, input) \/ LaunchRecover(p, input)
        PROVE  OutputOf(input)' \/ OutputOf(origin)'
    BY <1>3, SignLaunches, RecoverLaunches
  <1>4. QED
    BY <1>1, <1>2, <1>3, FailureMoves, PowerMoves DEF OutputNext

\* The output directory is always consistent: its versions and the binding in
\* each of them belong to one input, the command that makes the bundle is the
\* only one of its kind and makes it for that input, no version shows a bundle
\* while that command runs, and a bundle that any version shows has all its
\* files durable.  (create_fresh_output, bind_recovery_stage, verify_files and
\* the rename of catalog-sign; commands at once, failing, killed, power lost.)
THEOREM OutputIsConsistent == OutputSpec => []OutputInv
  BY OutputStarts, OutputGoesOn, PTL DEF OutputSpec

\* The bundle under its final name is complete and of the input its binding
\* names, whichever of the directory's versions a loss of power leaves.
THEOREM BundleIsComplete == OutputSpec => []VisibleIsComplete
  <1>1. OutputInv => VisibleIsComplete
    <2> SUFFICES ASSUME NEW origin \in Inputs \cup {NoFile}, OutputOf(origin),
                        NEW dir \in ToSet(journal), dir.final
                 PROVE  /\ payload.durable = BundleFiles
                        /\ dir.binding # NoFile => dir.binding.input = payload.input
      BY DEF OutputInv, VisibleIsComplete
    <2>1. journal \in Seq(Versions(origin))
      BY DEF OutputOf, OutputTyped
    <2>2. PICK i \in DOMAIN journal : dir = journal[i]
      BY DEF ToSet
    <2>3. dir \in Versions(origin) /\ ~NothingFinal
      BY <2>1, <2>2 DEF NothingFinal
    <2>4. payload.durable = BundleFiles /\ payload.input = origin
      BY <2>3 DEF OutputOf, FinalInv
    <2>5. dir.binding # NoFile => dir.binding.input = origin
      BY <2>3 DEF Versions, Bindings
    <2>6. QED
      BY <2>4, <2>5
  <1>2. QED
    BY <1>1, OutputIsConsistent, PTL
================================================================================
