--------------------------- MODULE ReleaseWorkProofs ---------------------------
(***************************************************************************)
(* Proofs about a release's work directory, for all discoveries and        *)
(* qualifications and any number of faults and edits.                      *)
(*                                                                         *)
(* What is staged is as recorded because each file the comparison at the   *)
(* end of finalize_qualified_candidate relies on is still the one compared *)
(* when the signer reads it: from Qualified on nothing but the bundle is   *)
(* written or can be lost.  Before that, the final candidate is made from  *)
(* the final transfer that is there, and a power failure that takes the    *)
(* transfer takes the candidate too, because it was named later.           *)
(***************************************************************************)
EXTENDS ReleaseWork, TLAPS

SigningSteps == {"sign old", "sign new"}
Steps        == {"idle", "work", "sync", "fill", "verify"} \cup SigningSteps
AllNames     == {"journal", "intent", "inputs", "acquired", "candidate", "request",
                 "imported", "qualification", "source", "final transfer",
                 "final candidate", "bundle"}

TypeOK ==
    /\ DOMAIN work = AllNames
    /\ unsynced \in Seq(AllNames)
    /\ phase \in 0..8
    /\ mode \in {"dry_run", "publish_capable"}
    /\ DOMAIN wizard = {"pc", "step", "found", "active", "roles", "resumed"}
    /\ wizard.pc \in Steps
    /\ wizard.step \in Nat \ {0}

\* Where a run can be, and with which roles.
RunInv ==
    /\ ~At("idle") => wizard.roles = RequiredRoles(mode)
    /\ At("sync") => phase = 0 /\ wizard.step \in 1..3
    /\ At("fill") => \/ phase = 2 /\ wizard.step = 1
                     \/ phase = 5 /\ (wizard.step = 1 \/ wizard.step = 2)
    /\ wizard.pc \in SigningSteps => phase = Qualified /\ mode # "dry_run"
    /\ At("verify") => phase = Qualified /\ Present("bundle")

\* In s every a comes before some b.
Follows(s, a, b) ==
    \A i \in DOMAIN s : s[i] = a => \E j \in DOMAIN s : j > i /\ s[j] = b

\* The final candidate is the final transfer, and not more durable than it.
CandidateInv ==
    Present("final candidate") =>
       /\ work["final candidate"] = work["final transfer"]
       /\ Follows(unsynced, "final transfer", "final candidate")

\* The bundle is what the signer made of the final transfer.
BundleInv ==
    /\ phase < Qualified => ~Present("bundle")
    /\ phase >= Qualified =>
          /\ work["final transfer"] = Source(work["intent"], work["imported"])
          /\ \A i \in DOMAIN unsynced : unsynced[i] = "bundle"
          /\ Present("bundle") =>
                \E key : work["bundle"] = Bundle(work["final transfer"], key)
    /\ phase >= Signed =>
          /\ unsynced = << >>
          /\ work["bundle"] = Bundle(work["final transfer"], generation)

Inv == TypeOK /\ RunInv /\ CandidateInv /\ BundleInv

-----------------------------------------------------------------------------
(* The artifacts of each phase                                             *)

\* What the work of each phase makes, spelled out.
LEMMA ArtifactCount ==
    /\ DOMAIN Artifacts(0) = 1..3 /\ Len(Artifacts(0)) = 3
    /\ DOMAIN Artifacts(1) = 1..1 /\ Len(Artifacts(1)) = 1
    /\ DOMAIN Artifacts(2) = 1..1 /\ Len(Artifacts(2)) = 1
    /\ DOMAIN Artifacts(3) = 1..1 /\ Len(Artifacts(3)) = 1
    /\ DOMAIN Artifacts(4) = 1..1 /\ Len(Artifacts(4)) = 1
    /\ DOMAIN Artifacts(5) = 1..4 /\ Len(Artifacts(5)) = 4
    /\ DOMAIN Artifacts(6) = 1..1 /\ Len(Artifacts(6)) = 1
    /\ DOMAIN Artifacts(7) = {} /\ Len(Artifacts(7)) = 0
  BY DEF Artifacts, JournalFirst

LEMMA ArtifactNames ==
    /\ Artifacts(0)[1] = "journal" /\ Artifacts(0)[2] = "intent" /\ Artifacts(0)[3] = "inputs"
    /\ Artifacts(1)[1] = "acquired" /\ Artifacts(2)[1] = "candidate"
    /\ Artifacts(3)[1] = "request" /\ Artifacts(4)[1] = "imported"
    /\ Artifacts(5)[1] = "qualification" /\ Artifacts(5)[2] = "source"
    /\ Artifacts(5)[3] = "final transfer" /\ Artifacts(5)[4] = "final candidate"
    /\ Artifacts(6)[1] = "bundle"
  BY DEF Artifacts, JournalFirst

LEMMA ArtifactPlace ==
    ASSUME NEW p \in 0..7, NEW i \in DOMAIN Artifacts(p)
    PROVE  \/ p = 0 /\ (i = 1 \/ i = 2 \/ i = 3)
           \/ (p = 1 \/ p = 2 \/ p = 3 \/ p = 4 \/ p = 6) /\ i = 1
           \/ p = 5 /\ (i = 1 \/ i = 2 \/ i = 3 \/ i = 4)
  BY ArtifactCount

LEMMA NamesAre == Names = AllNames
  <1>1. ASSUME NEW p \in 0..7, NEW i \in DOMAIN Artifacts(p)
        PROVE  Artifacts(p)[i] \in Names
    BY <1>1 DEF Names
  <1>2. AllNames \subseteq Names
    <2>1. /\ 1 \in DOMAIN Artifacts(0) /\ 2 \in DOMAIN Artifacts(0) /\ 3 \in DOMAIN Artifacts(0)
          /\ 1 \in DOMAIN Artifacts(1) /\ 1 \in DOMAIN Artifacts(2)
          /\ 1 \in DOMAIN Artifacts(3) /\ 1 \in DOMAIN Artifacts(4)
          /\ 1 \in DOMAIN Artifacts(5) /\ 2 \in DOMAIN Artifacts(5)
          /\ 3 \in DOMAIN Artifacts(5) /\ 4 \in DOMAIN Artifacts(5)
          /\ 1 \in DOMAIN Artifacts(6)
      BY ArtifactCount
    <2>2. /\ Artifacts(0)[1] \in Names /\ Artifacts(0)[2] \in Names /\ Artifacts(0)[3] \in Names
          /\ Artifacts(1)[1] \in Names /\ Artifacts(2)[1] \in Names
          /\ Artifacts(3)[1] \in Names /\ Artifacts(4)[1] \in Names
          /\ Artifacts(5)[1] \in Names /\ Artifacts(5)[2] \in Names
          /\ Artifacts(5)[3] \in Names /\ Artifacts(5)[4] \in Names
          /\ Artifacts(6)[1] \in Names
      BY <1>1, <2>1
    <2>3. QED
      BY <2>2, ArtifactNames, Zenon DEF AllNames
  <1>3. ASSUME NEW p \in 0..7, NEW i \in DOMAIN Artifacts(p)
        PROVE  Artifacts(p)[i] \in AllNames
    BY ArtifactPlace, ArtifactNames DEF AllNames
  <1>4. QED
    BY <1>2, <1>3 DEF Names

LEMMA ArtifactIs ==
    ASSUME NEW p \in 0..7, p # 6, NEW i \in DOMAIN Artifacts(p)
    PROVE  /\ Artifacts(p)[i] \in AllNames \ {"bundle"}
           /\ p = 0 => i \in 1..3 /\ Artifacts(p)[i] # "final candidate"
           /\ Artifacts(p)[i] \in Exact => (p = 2 /\ i = 1) \/ (p = 5 /\ (i = 1 \/ i = 2))
  <1>1. CASE p = 0 /\ (i = 1 \/ i = 2 \/ i = 3)
    <2>1. Artifacts(p)[i] \in {"journal", "intent", "inputs"}
      BY <1>1, ArtifactNames
    <2>2. /\ Artifacts(p)[i] \in AllNames \ {"bundle"} /\ Artifacts(p)[i] \notin Exact
          /\ Artifacts(p)[i] # "final candidate"
      BY <2>1, Zenon DEF AllNames, Exact
    <2>3. p = 0 => i \in 1..3
      BY <1>1
    <2>4. QED
      BY <2>2, <2>3, Zenon
  <1>2. CASE p = 2 /\ i = 1
    <2>1. Artifacts(p)[i] = "candidate"
      BY <1>2, ArtifactNames
    <2>2. QED
      BY <1>2, <2>1 DEF AllNames, Exact
  <1>3. CASE (p = 1 \/ p = 3 \/ p = 4) /\ i = 1
    <2>1. Artifacts(p)[i] \in {"acquired", "request", "imported"}
      BY <1>3, ArtifactNames
    <2>2. Artifacts(p)[i] \in AllNames \ {"bundle"} /\ Artifacts(p)[i] \notin Exact
      BY <2>1, Zenon DEF AllNames, Exact
    <2>3. p # 0
      BY <1>3
    <2>4. QED
      BY <2>2, <2>3, Zenon
  <1>4. CASE p = 5 /\ (i = 1 \/ i = 2)
    <2>1. Artifacts(p)[i] \in {"qualification", "source"}
      BY <1>4, ArtifactNames
    <2>2. Artifacts(p)[i] \in AllNames \ {"bundle"}
      BY <2>1, Zenon DEF AllNames, Exact
    <2>3. QED
      BY <1>4, <2>2
  <1>5. CASE p = 5 /\ (i = 3 \/ i = 4)
    <2>1. Artifacts(p)[i] \in {"final transfer", "final candidate"}
      BY <1>5, ArtifactNames
    <2>2. Artifacts(p)[i] \in AllNames \ {"bundle"} /\ Artifacts(p)[i] \notin Exact
      BY <2>1, Zenon DEF AllNames, Exact
    <2>3. p # 0
      BY <1>5
    <2>4. QED
      BY <1>5, <2>2, <2>3, Zenon
  <1>6. QED
    BY <1>1, <1>2, <1>3, <1>4, <1>5, ArtifactPlace

\* The artifact that the work of a phase is at.
LEMMA HereIs ==
    ASSUME TypeOK, Working, phase < Qualified
    PROVE  /\ Here \in AllNames \ {"bundle"}
           /\ phase = 0 => wizard.step \in 1..3 /\ Here # "final candidate"
           /\ Here \in Exact => \/ phase = 2 /\ wizard.step = 1
                                \/ phase = 5 /\ (wizard.step = 1 \/ wizard.step = 2)
  <1>1. phase \in 0..7 /\ phase # 6 /\ phase # 7
    BY DEF TypeOK, Qualified
  <1>2. wizard.step \in DOMAIN Artifacts(phase)
    BY <1>1, ArtifactCount DEF TypeOK, Working
  <1>3. QED
    BY <1>1, <1>2, ArtifactIs DEF Here

-----------------------------------------------------------------------------
(* What the steps have in common                                           *)

USE DEF At, Goto, Present

\* The invariants of the files speak of nothing else.
LEMMA FilesStay ==
    ASSUME Inv, UNCHANGED files
    PROVE  CandidateInv' /\ BundleInv'
  BY DEF Inv, CandidateInv, BundleInv, files

LEMMA LeaveRun ==
    ASSUME Inv, Leave
    PROVE  /\ DOMAIN wizard' = {"pc", "step", "found", "active", "roles", "resumed"}
           /\ wizard'.pc \in Steps /\ wizard'.step \in Nat \ {0}
           /\ RunInv'
  BY DEF Leave, NoWizard, RunInv, Steps, SigningSteps

\* A run that ends without touching a file.
LEMMA LeaveFiles ==
    ASSUME Inv, Leave, UNCHANGED files
    PROVE  Inv'
  BY FilesStay, LeaveRun DEF Inv, TypeOK, files

LEMMA AdvanceRun ==
    ASSUME Inv, ~At("idle"), Advance, UNCHANGED <<phase, mode>>
    PROVE  /\ DOMAIN wizard' = {"pc", "step", "found", "active", "roles", "resumed"}
           /\ wizard'.pc \in Steps /\ wizard'.step \in Nat \ {0}
           /\ RunInv'
  <1>1. /\ DOMAIN wizard' = DOMAIN wizard /\ wizard'.pc = "work"
        /\ wizard'.step = wizard.step + 1 /\ wizard'.roles = wizard.roles
    BY DEF Inv, TypeOK, Advance
  <1>2. QED
    <2>1. DOMAIN wizard' = {"pc", "step", "found", "active", "roles", "resumed"}
      BY <1>1 DEF Inv, TypeOK
    <2>2. wizard'.pc \in Steps /\ wizard'.step \in Nat \ {0}
      BY <1>1 DEF Inv, TypeOK, Steps
    <2>3. RunInv'
      BY <1>1 DEF Inv, TypeOK, RunInv, SigningSteps
    <2>4. QED
      BY <2>1, <2>2, <2>3

LEMMA AdvanceFiles ==
    ASSUME Inv, ~At("idle"), Advance, UNCHANGED files
    PROVE  Inv'
  BY FilesStay, AdvanceRun DEF Inv, TypeOK, files

LEMMA AppendFollows ==
    ASSUME NEW S, NEW s \in Seq(S), NEW e \in S, NEW a, NEW b, a # b,
           e = b \/ (e # a /\ Follows(s, a, b))
    PROVE  Follows(Append(s, e), a, b)
  <1> DEFINE t == Append(s, e)
             last == Len(s) + 1
  <1>1. /\ last \in Nat /\ DOMAIN s = 1..Len(s) /\ DOMAIN t = 1..last /\ t[last] = e
        /\ \A i \in DOMAIN s : t[i] = s[i]
    OBVIOUS
  <1> HIDE DEF t, last
  <1>2. CASE e = b
    BY <1>1, <1>2 DEF Follows, last
  <1>3. CASE e # a /\ Follows(s, a, b)
    BY <1>1, <1>3 DEF Follows, last
  <1>4. QED
    BY <1>2, <1>3 DEF t

LEMMA AppendAllSame ==
    ASSUME NEW S, NEW s \in Seq(S), NEW e \in S, \A i \in DOMAIN s : s[i] = e
    PROVE  \A i \in DOMAIN Append(s, e) : Append(s, e)[i] = e
  OBVIOUS

\* A directory just synced has nothing to lose.
LEMMA NothingUnsynced ==
    ASSUME NEW S, NEW a, NEW b
    PROVE  /\ Follows(<< >>, a, b) /\ << >> \in Seq(S)
           /\ \A i \in DOMAIN << >> : << >>[i] = a
  BY DEF Follows

LEMMA BundleFields ==
    ASSUME NEW s, NEW k
    PROVE  Bundle(s, k) # Absent /\ Bundle(s, k).key = k
  <1>1. Bundle(s, k).kind = "bundle" /\ Bundle(s, k).key = k
    BY DEF Bundle
  <1>2. Absent.kind = "absent"
    BY DEF Absent
  <1>3. QED
    BY <1>1, <1>2

LEMMA AppendTyped ==
    ASSUME NEW S, NEW s \in Seq(S), NEW e \in S
    PROVE  Append(s, e) \in Seq(S)
  OBVIOUS

MadeOf(value) == Here = "final candidate" => value = work["final transfer"]

\* A new artifact is the last that was named, and disturbs no other; the final
\* candidate is made from the final transfer.
LEMMA WriteFiles ==
    ASSUME Inv, Missing, NEW value, Write(value), MadeOf(value)
    PROVE  /\ DOMAIN work' = AllNames /\ unsynced' \in Seq(AllNames)
           /\ CandidateInv' /\ BundleInv'
  <1>1. /\ Here \in AllNames \ {"bundle"} /\ phase < Qualified /\ ~Present(Here)
        /\ phase \in 0..8
    BY HereIs DEF Inv, TypeOK, Missing, Due
  <1>2. /\ DOMAIN work' = AllNames /\ work'[Here] = value
        /\ \A a \in AllNames \ {Here} : work'[a] = work[a]
    BY <1>1 DEF Write, Inv, TypeOK
  <1>3. /\ unsynced \in Seq(AllNames) /\ unsynced' = Append(unsynced, Here)
        /\ unsynced' \in Seq(AllNames)
    BY <1>1, AppendTyped DEF Write, Inv, TypeOK
  <1>4. CandidateInv'
    <2>1. CASE Here = "final candidate"
      <3>1. work'["final candidate"] = work'["final transfer"]
        BY <1>2, <2>1 DEF AllNames, MadeOf
      <3>2. Follows(unsynced', "final transfer", "final candidate")
        BY <1>1, <1>3, <2>1, AppendFollows, Zenon
      <3>3. QED
        BY <3>1, <3>2 DEF CandidateInv
    <2>2. CASE Here = "final transfer"
      <3>1. ~Present("final candidate")
        BY <1>1, <2>2 DEF Inv, CandidateInv
      <3>2. QED
        BY <1>2, <2>2, <3>1 DEF CandidateInv, AllNames
    <2>3. CASE Here # "final candidate" /\ Here # "final transfer"
      <3>1. /\ work'["final candidate"] = work["final candidate"]
            /\ work'["final transfer"] = work["final transfer"]
        BY <1>2, <2>3 DEF AllNames
      <3>2. ASSUME Follows(unsynced, "final transfer", "final candidate")
            PROVE  Follows(unsynced', "final transfer", "final candidate")
        BY <1>1, <1>3, <2>3, <3>2, AppendFollows, Zenon
      <3>3. QED
        BY <3>1, <3>2 DEF Inv, CandidateInv
    <2>4. QED
      BY <2>1, <2>2, <2>3
  <1>5. BundleInv'
    <2>1. work'["bundle"] = work["bundle"] /\ phase' = phase
      BY <1>1, <1>2 DEF Write, AllNames
    <2>2. ~Present("bundle")
      BY <1>1 DEF Inv, BundleInv
    <2>3. ~Present("bundle")'
      BY <2>1, <2>2 DEF Absent
    <2>4. ~(phase' >= Qualified) /\ ~(phase' >= Signed)
      BY <1>1, <2>1 DEF Qualified, Signed
    <2>5. QED
      BY <2>3, <2>4 DEF BundleInv
  <1>6. QED
    BY <1>2, <1>3, <1>4, <1>5

\* An artifact made at once.
LEMMA WriteAndAdvance ==
    ASSUME Inv, Missing, NEW value, Write(value), MadeOf(value), Advance
    PROVE  Inv'
  <1>1. /\ DOMAIN work' = AllNames /\ unsynced' \in Seq(AllNames)
        /\ CandidateInv' /\ BundleInv'
    BY WriteFiles
  <1>2. ~At("idle") /\ UNCHANGED <<phase, mode>>
    BY DEF Missing, Due, Working, Write
  <1>3. QED
    BY <1>1, <1>2, AdvanceRun DEF Inv, TypeOK

-----------------------------------------------------------------------------
(* The initial state, and the steps up to the qualified candidate          *)

LEMMA InitInv == Init => Inv
  <1> SUFFICES ASSUME Init PROVE Inv
    OBVIOUS
  <1>1. /\ DOMAIN work = AllNames /\ \A a \in AllNames : work[a] = Absent
        /\ unsynced = << >> /\ phase = 0
        /\ mode \in {"dry_run", "publish_capable"}
    BY NamesAre DEF Init, Planned
  <1>2. /\ DOMAIN wizard = {"pc", "step", "found", "active", "roles", "resumed"}
        /\ wizard.pc = "work" /\ wizard.step = 1 /\ wizard.roles = RequiredRoles(mode)
    BY DEF Init
  <1>3. TypeOK
    BY <1>1, <1>2 DEF TypeOK, Steps
  <1>4. RunInv
    BY <1>2 DEF RunInv, SigningSteps
  <1>5. ~Present("final candidate") /\ ~Present("bundle")
    BY <1>1 DEF AllNames
  <1>6. CandidateInv
    BY <1>5 DEF CandidateInv
  <1>7. ~(phase >= Qualified) /\ ~(phase >= Signed)
    BY <1>1 DEF Qualified, Signed
  <1>8. BundleInv
    BY <1>5, <1>7 DEF BundleInv
  <1>9. QED
    BY <1>3, <1>4, <1>6, <1>8 DEF Inv

LEMMA ResumeKeeps ==
    ASSUME Inv, Resume
    PROVE  Inv'
  <1>1. CASE Leave
    BY <1>1, LeaveFiles DEF Resume
  <1>2. CASE wizard' = [NoWizard EXCEPT !.pc = "work", !.active = built,
                                        !.roles = RequiredRoles(mode), !.resumed = TRUE]
    <2>1. /\ DOMAIN wizard' = {"pc", "step", "found", "active", "roles", "resumed"}
          /\ wizard'.pc = "work" /\ wizard'.step = 1 /\ wizard'.roles = RequiredRoles(mode)
      BY <1>2 DEF NoWizard
    <2>2. UNCHANGED files
      BY DEF Resume
    <2>3. RunInv'
      BY <2>1, <2>2 DEF RunInv, SigningSteps, files, RequiredRoles
    <2>4. TypeOK'
      BY <2>1, <2>2 DEF Inv, TypeOK, Steps, files
    <2>5. QED
      BY <2>2, <2>3, <2>4, FilesStay DEF Inv
  <1>3. QED
    BY <1>1, <1>2 DEF Resume

LEMMA DiscoverKeeps ==
    ASSUME Inv, Discover
    PROVE  Inv'
  <1>1. CASE Leave
    BY <1>1, LeaveFiles DEF Discover
  <1>2. ASSUME NEW found, wizard' = [wizard EXCEPT !.found = found]
        PROVE  Inv'
    <2>1. /\ DOMAIN wizard' = DOMAIN wizard /\ wizard'.pc = wizard.pc
          /\ wizard'.step = wizard.step /\ wizard'.roles = wizard.roles
      BY <1>2 DEF Inv, TypeOK
    <2>2. UNCHANGED files
      BY DEF Discover
    <2>3. TypeOK'
      BY <2>1, <2>2 DEF Inv, TypeOK, files
    <2>4. RunInv'
      BY <2>1, <2>2 DEF Inv, RunInv, files, RequiredRoles
    <2>5. QED
      BY <2>2, <2>3, <2>4, FilesStay DEF Inv
  <1>3. QED
    BY <1>1, <1>2 DEF Discover

\* The run stays at the artifact it has just named.
LEMMA GotoRun ==
    ASSUME Inv, ~At("idle"), NEW pc \in Steps, Goto(pc), UNCHANGED <<phase, mode>>
    PROVE  /\ DOMAIN wizard' = {"pc", "step", "found", "active", "roles", "resumed"}
           /\ wizard'.pc = pc /\ wizard'.step = wizard.step
           /\ wizard'.pc \in Steps /\ wizard'.step \in Nat \ {0}
           /\ wizard'.roles = RequiredRoles(mode')
  BY DEF Inv, TypeOK, RunInv, RequiredRoles

LEMMA WriteInputKeeps ==
    ASSUME Inv, WriteInput
    PROVE  Inv'
  <1>1. Missing /\ phase = 0 /\ Write(wizard.found)
    BY DEF WriteInput, Planned
  <1>2. wizard.step \in 1..3 /\ Here # "final candidate"
    BY <1>1, HereIs DEF Missing, Due, Inv
  <1>3. /\ DOMAIN work' = AllNames /\ unsynced' \in Seq(AllNames)
        /\ CandidateInv' /\ BundleInv'
    BY <1>1, <1>2, WriteFiles DEF MadeOf
  <1>4. /\ DOMAIN wizard' = {"pc", "step", "found", "active", "roles", "resumed"}
        /\ wizard'.pc = "sync" /\ wizard'.step = wizard.step
        /\ wizard'.pc \in Steps /\ wizard'.step \in Nat \ {0}
        /\ wizard'.roles = RequiredRoles(mode')
        /\ UNCHANGED <<phase, mode>>
    BY GotoRun DEF WriteInput, Missing, Due, Working, Write, Steps
  <1>5. RunInv'
    BY <1>1, <1>2, <1>4 DEF RunInv, SigningSteps
  <1>6. QED
    BY <1>3, <1>4, <1>5 DEF Inv, TypeOK

LEMMA WriteExactKeeps ==
    ASSUME Inv, WriteExact
    PROVE  Inv'
  <1>1. /\ Missing /\ Write(Partial)
        /\ (phase = 2 /\ wizard.step = 1) \/ (phase = 5 /\ (wizard.step = 1 \/ wizard.step = 2))
    BY HereIs DEF WriteExact, Missing, Due, Inv
  <1>2. Here # "final candidate"
    BY DEF WriteExact, Exact
  <1>3. /\ DOMAIN work' = AllNames /\ unsynced' \in Seq(AllNames)
        /\ CandidateInv' /\ BundleInv'
    BY <1>1, <1>2, WriteFiles DEF MadeOf
  <1>4. /\ DOMAIN wizard' = {"pc", "step", "found", "active", "roles", "resumed"}
        /\ wizard'.pc = "fill" /\ wizard'.step = wizard.step
        /\ wizard'.pc \in Steps /\ wizard'.step \in Nat \ {0}
        /\ wizard'.roles = RequiredRoles(mode')
        /\ UNCHANGED <<phase, mode>>
    BY GotoRun DEF WriteExact, Missing, Due, Working, Write, Steps
  <1>5. RunInv'
    BY <1>1, <1>4 DEF RunInv, SigningSteps
  <1>6. QED
    BY <1>3, <1>4, <1>5 DEF Inv, TypeOK

LEMMA AcquireKeeps ==
    ASSUME Inv, Acquire
    PROVE  Inv'
  <1> DEFINE value == work[CASE Here = "acquired"        -> "intent"
                             [] Here = "final transfer"  -> "source"
                             [] Here = "final candidate" -> "final transfer"]
  <1>1. MadeOf(value)
    BY DEF MadeOf
  <1>2. QED
    BY <1>1, WriteAndAdvance DEF Acquire

LEMMA ExportKeeps ==
    ASSUME Inv, Export
    PROVE  Inv'
  <1>1. MadeOf(InstallerRequest)
    BY DEF Export, MadeOf
  <1>2. QED
    BY <1>1, WriteAndAdvance DEF Export

LEMMA ImportKeeps ==
    ASSUME Inv, NEW q \in Returns, Import(q)
    PROVE  Inv'
  <1>1. CASE Write(q) /\ Advance /\ ~Present(Here)
    <2>1. MadeOf(q)
      BY DEF Import, MadeOf
    <2>2. QED
      BY <1>1, <2>1, WriteAndAdvance DEF Import, Missing
  <1>2. CASE Advance /\ UNCHANGED files
    BY <1>2, AdvanceFiles DEF Import, Due, Working
  <1>3. CASE Leave /\ UNCHANGED files
    BY <1>3, LeaveFiles
  <1>4. QED
    BY <1>1, <1>2, <1>3 DEF Import

LEMMA VerifyKeeps ==
    ASSUME Inv, Verify
    PROVE  Inv'
  BY AdvanceFiles, LeaveFiles DEF Verify, Due, Working

LEMMA PauseKeeps ==
    ASSUME Inv, Pause
    PROVE  Inv'
  BY LeaveFiles DEF Pause

LEMMA StopKeeps ==
    ASSUME Inv, Stop
    PROVE  Inv'
  BY LeaveFiles DEF Stop

LEMMA FillKeeps ==
    ASSUME Inv, Fill
    PROVE  Inv'
  <1>1. /\ phase \in {2, 5} /\ wizard.step \in DOMAIN Artifacts(phase)
        /\ (phase = 2 /\ wizard.step = 1) \/ (phase = 5 /\ (wizard.step = 1 \/ wizard.step = 2))
    BY ArtifactCount DEF Fill, Inv, RunInv
  <1>2. Here \in Exact
    <2>1. Here \in {Artifacts(2)[1], Artifacts(5)[1], Artifacts(5)[2]}
      BY <1>1 DEF Here
    <2>2. QED
      BY <2>1, ArtifactNames, Zenon DEF Exact
  <1>3. /\ DOMAIN work' = AllNames /\ UNCHANGED <<unsynced, phase, mode, generation>>
        /\ \A a \in AllNames : a \notin Exact => work'[a] = work[a]
    BY <1>2 DEF Fill, Inv, TypeOK
  <1>4. /\ work'["final candidate"] = work["final candidate"]
        /\ work'["final transfer"] = work["final transfer"]
        /\ work'["bundle"] = work["bundle"]
    BY <1>3 DEF AllNames, Exact
  <1>5. CandidateInv'
    BY <1>3, <1>4 DEF Inv, CandidateInv
  <1>6. BundleInv'
    <2>1. phase < Qualified /\ ~(phase' >= Qualified) /\ ~(phase' >= Signed)
      BY <1>1, <1>3 DEF Qualified, Signed
    <2>2. ~Present("bundle")'
      BY <1>4, <2>1 DEF Inv, BundleInv, Absent
    <2>3. QED
      BY <2>1, <2>2 DEF BundleInv
  <1>7. QED
    BY <1>3, <1>5, <1>6, AdvanceRun DEF Fill, Inv, TypeOK

LEMMA SyncInputsKeeps ==
    ASSUME Inv, SyncInputs
    PROVE  Inv'
  <1>1. phase = 0 /\ unsynced' = << >> /\ UNCHANGED <<work, phase, mode, generation>>
    BY DEF SyncInputs, Inv, RunInv
  <1>2. CandidateInv'
    <2>1. Follows(unsynced', "final transfer", "final candidate")
      BY <1>1, NothingUnsynced
    <2>2. QED
      BY <1>1, <2>1 DEF Inv, CandidateInv
  <1>3. BundleInv'
    <2>1. phase < Qualified /\ ~(phase' >= Qualified) /\ ~(phase' >= Signed)
      BY <1>1 DEF Qualified, Signed
    <2>2. QED
      BY <1>1, <2>1 DEF Inv, BundleInv
  <1>4. unsynced' \in Seq(AllNames)
    BY <1>1, NothingUnsynced
  <1>5. QED
    BY <1>1, <1>2, <1>3, <1>4, AdvanceRun DEF SyncInputs, Inv, TypeOK

\* finalize_qualified_candidate compares the final candidate with the inputs and
\* the qualification: that is what makes the final transfer the recorded one.
LEMMA SavePhaseKeeps ==
    ASSUME Inv, SavePhase
    PROVE  Inv'
  <1>1. CASE Leave /\ UNCHANGED <<phase, unsynced>>
    BY <1>1, LeaveFiles DEF SavePhase, files
  <1>2. CASE /\ phase = 5 => Finalized
             /\ phase' = phase + 1 /\ unsynced' = << >>
             /\ wizard' = [wizard EXCEPT !.step = 1]
    <2>1. /\ phase \in 0..5 /\ phase' \in 1..6 /\ (phase' = 6 <=> phase = 5)
          /\ UNCHANGED <<work, mode, generation>>
      BY <1>2 DEF SavePhase, Inv, TypeOK, Qualified
    <2>2. ~Present("bundle")
      <3>1. phase < Qualified
        BY <2>1 DEF Qualified
      <3>2. QED
        BY <3>1 DEF Inv, BundleInv
    <2>3. CandidateInv'
      <3>1. Follows(unsynced', "final transfer", "final candidate")
        BY <1>2, NothingUnsynced
      <3>2. QED
        BY <2>1, <3>1 DEF Inv, CandidateInv
    <2>4. ASSUME phase' = 6
          PROVE  work'["final transfer"] = Source(work'["intent"], work'["imported"])
      <3>1. work["final candidate"] = Source(work["intent"], work["imported"])
        <4>1. phase = 5
          BY <2>1, <2>4
        <4>2. QED
          BY <1>2, <4>1 DEF Finalized
      <3>2. Source(work["intent"], work["imported"]) # Absent
        BY DEF Source, Absent
      <3>3. work["final candidate"] = work["final transfer"]
        BY <3>1, <3>2 DEF Inv, CandidateInv
      <3>4. QED
        BY <2>1, <3>1, <3>3
    <2>5. BundleInv'
      <3>1. /\ phase' >= Qualified => phase' = 6
            /\ ~(phase' >= Signed)
        BY <2>1 DEF Qualified, Signed
      <3>2. ~Present("bundle")'
        BY <2>1, <2>2 DEF Absent
      <3>3. \A i \in DOMAIN unsynced' : unsynced'[i] = "bundle"
        BY <1>2, NothingUnsynced
      <3>4. QED
        BY <2>4, <3>1, <3>2, <3>3 DEF BundleInv
    <2>6. /\ DOMAIN wizard' = DOMAIN wizard /\ wizard'.pc = "work" /\ wizard'.step = 1
          /\ wizard'.roles = wizard.roles
      BY <1>2 DEF SavePhase, Inv, TypeOK
    <2>7. RunInv'
      BY <2>1, <2>6 DEF SavePhase, Inv, RunInv, SigningSteps, RequiredRoles
    <2>8. TypeOK'
      <3>1. unsynced' \in Seq(AllNames)
        BY <1>2, NothingUnsynced
      <3>2. phase' \in 0..8
        BY <2>1
      <3>3. QED
        BY <2>1, <2>6, <3>1, <3>2 DEF Inv, TypeOK, Steps
    <2>9. QED
      BY <2>3, <2>5, <2>7, <2>8 DEF Inv
  <1>3. QED
    BY <1>1, <1>2 DEF SavePhase

-----------------------------------------------------------------------------
(* Signing                                                                 *)

LEMMA SignBeginKeeps ==
    ASSUME Inv, SignBegin
    PROVE  Inv'
  <1>1. CASE Leave
    BY <1>1, LeaveFiles DEF SignBegin
  <1>2. ASSUME NEW pc \in Steps, Goto(pc),
               pc \in SigningSteps \/ (pc = "verify" /\ Present("bundle"))
        PROVE  Inv'
    <2>1. /\ phase = Qualified /\ mode # "dry_run" /\ ~At("idle") /\ UNCHANGED files
      BY DEF SignBegin, Pausing
    <2>2. UNCHANGED <<work, unsynced, phase, mode, generation>>
      BY <2>1 DEF files
    <2>3. /\ DOMAIN wizard' = {"pc", "step", "found", "active", "roles", "resumed"}
          /\ wizard'.pc = pc /\ wizard'.step \in Nat \ {0}
          /\ wizard'.roles = RequiredRoles(mode')
      BY <1>2, <2>1, <2>2, GotoRun
    <2>4. RunInv'
      BY <1>2, <2>1, <2>2, <2>3 DEF RunInv, SigningSteps, Qualified
    <2>5. TypeOK'
      BY <2>2, <2>3 DEF Inv, TypeOK
    <2>6. QED
      BY <2>1, <2>4, <2>5, FilesStay DEF Inv
  <1>3. Signing(config.path) \in SigningSteps /\ SigningSteps \subseteq Steps /\ "verify" \in Steps
    BY DEF Signing, SigningSteps, Steps
  <1>4. QED
    BY <1>1, <1>2, <1>3 DEF SignBegin

\* The signer makes the bundle of the final transfer, whichever key it used.
LEMMA SignKeeps ==
    ASSUME Inv, NEW path \in {"old", "new"}, Sign(path)
    PROVE  Inv'
  <1>1. CASE Leave /\ UNCHANGED <<work, unsynced>>
    BY <1>1, LeaveFiles DEF Sign, files
  <1>2. CASE /\ work' = [work EXCEPT !["bundle"] = Bundle(work["final transfer"], built)]
             /\ unsynced' = Append(unsynced, "bundle")
             /\ Goto("verify")
    <2>1. /\ wizard.pc \in SigningSteps /\ phase = Qualified
          /\ UNCHANGED <<phase, mode, generation>>
      BY DEF Sign, Signing, SigningSteps, Inv, RunInv
    <2>2. /\ DOMAIN work' = AllNames
          /\ work'["bundle"] = Bundle(work["final transfer"], built)
          /\ work'["final transfer"] = work["final transfer"]
          /\ work'["final candidate"] = work["final candidate"]
          /\ work'["intent"] = work["intent"] /\ work'["imported"] = work["imported"]
      BY <1>2 DEF Inv, TypeOK, AllNames
    <2>3. Present("bundle")'
      BY <2>2, BundleFields DEF Absent
    <2>4. unsynced \in Seq(AllNames) /\ "bundle" \in AllNames
      BY DEF Inv, TypeOK, AllNames
    <2>5. unsynced' \in Seq(AllNames)
      BY <1>2, <2>4, AppendTyped
    <2>6. CandidateInv'
      <3>1. ASSUME Follows(unsynced, "final transfer", "final candidate")
            PROVE  Follows(unsynced', "final transfer", "final candidate")
        BY <1>2, <2>4, <3>1, AppendFollows, Zenon
      <3>2. QED
        BY <2>2, <3>1 DEF Inv, CandidateInv
    <2>7. \A i \in DOMAIN unsynced' : unsynced'[i] = "bundle"
      <3>1. phase >= Qualified
        BY <2>1 DEF Qualified
      <3>2. \A i \in DOMAIN unsynced : unsynced[i] = "bundle"
        BY <3>1 DEF Inv, BundleInv
      <3>3. \A i \in DOMAIN Append(unsynced, "bundle") : Append(unsynced, "bundle")[i] = "bundle"
        BY <2>4, <3>2, AppendAllSame
      <3>4. QED
        BY <1>2, <3>3, Zenon
    <2>8. BundleInv'
      <3>1. work["final transfer"] = Source(work["intent"], work["imported"])
        <4>1. phase >= Qualified
          BY <2>1 DEF Qualified
        <4>2. QED
          BY <4>1 DEF Inv, BundleInv
      <3>2. ~(phase' < Qualified) /\ ~(phase' >= Signed)
        BY <2>1 DEF Qualified, Signed
      <3>3. QED
        BY <2>2, <2>7, <3>1, <3>2 DEF BundleInv
    <2>9. /\ DOMAIN wizard' = {"pc", "step", "found", "active", "roles", "resumed"}
          /\ wizard'.pc = "verify" /\ wizard'.pc \in Steps /\ wizard'.step \in Nat \ {0}
          /\ wizard'.roles = RequiredRoles(mode')
      BY <1>2, <2>1, GotoRun DEF Steps, SigningSteps
    <2>10. RunInv'
      BY <2>1, <2>3, <2>9 DEF RunInv, SigningSteps
    <2>11. QED
      BY <2>1, <2>2, <2>5, <2>6, <2>8, <2>9, <2>10 DEF Inv, TypeOK
  <1>3. QED
    BY <1>1, <1>2 DEF Sign

\* The active key and the bundle's must both be of the recorded generation.
LEMMA VerifySignedKeeps ==
    ASSUME Inv, VerifySigned
    PROVE  Inv'
  <1>1. CASE Leave /\ UNCHANGED <<phase, unsynced>>
    BY <1>1, LeaveFiles DEF VerifySigned, files
  <1>2. CASE /\ SigningContext /\ BundleKey
             /\ phase' = phase + 1 /\ unsynced' = << >>
             /\ IF phase = Signed THEN Leave ELSE Goto("work")
    <2>1. /\ phase \in {6, 7} /\ phase' \in {7, 8} /\ (phase' = 8 <=> phase = 7)
          /\ Present("bundle") /\ UNCHANGED <<work, mode, generation>>
      <3>1. Present("bundle") /\ (phase = 6 \/ phase = 7)
        <4>1. CASE At("verify")
          BY <4>1 DEF Inv, RunInv, Qualified
        <4>2. CASE phase = Signed
          <5>1. phase >= Signed /\ phase = 7
            BY <4>2 DEF Signed
          <5>2. QED
            BY <5>1, BundleFields DEF Inv, BundleInv
        <4>3. QED
          BY <4>1, <4>2 DEF VerifySigned
      <3>2. QED
        BY <1>2, <3>1 DEF VerifySigned
    <2>2. PICK key : work["bundle"] = Bundle(work["final transfer"], key)
      <3>1. phase >= Qualified
        BY <2>1 DEF Qualified
      <3>2. QED
        BY <2>1, <3>1 DEF Inv, BundleInv
    <2>3. key = generation
      BY <1>2, <2>2, BundleFields DEF SigningContext, BundleKey
    <2>4. BundleInv'
      <3>1. ~(phase' < Qualified) /\ phase >= Qualified
        BY <2>1 DEF Qualified
      <3>2. /\ work["final transfer"] = Source(work["intent"], work["imported"])
            /\ unsynced' = << >>
        BY <1>2, <3>1 DEF Inv, BundleInv
      <3>3. \A i \in DOMAIN unsynced' : unsynced'[i] = "bundle"
        BY <3>2, NothingUnsynced
      <3>4. QED
        BY <2>1, <2>2, <2>3, <3>1, <3>2, <3>3 DEF BundleInv
    <2>5. CandidateInv'
      <3>1. Follows(unsynced', "final transfer", "final candidate")
        BY <1>2, NothingUnsynced
      <3>2. QED
        BY <2>1, <3>1 DEF Inv, CandidateInv
    <2>6. /\ DOMAIN wizard' = {"pc", "step", "found", "active", "roles", "resumed"}
          /\ wizard'.pc \in Steps /\ wizard'.step \in Nat \ {0}
          /\ RunInv'
      <3>1. CASE Leave
        BY <3>1, LeaveRun
      <3>2. CASE Goto("work")
        <4>1. ~At("idle")
          BY DEF VerifySigned
        <4>2. /\ DOMAIN wizard' = DOMAIN wizard /\ wizard'.pc = "work"
              /\ wizard'.step = wizard.step /\ wizard'.roles = wizard.roles
          BY <3>2 DEF Inv, TypeOK
        <4>3. RunInv'
          BY <2>1, <4>1, <4>2 DEF Inv, RunInv, SigningSteps, RequiredRoles
        <4>4. QED
          BY <4>2, <4>3 DEF Inv, TypeOK, Steps
      <3>3. QED
        BY <1>2, <3>1, <3>2
    <2>7. TypeOK'
      <3>1. unsynced' \in Seq(AllNames)
        BY <1>2, NothingUnsynced
      <3>2. phase' \in 0..8
        BY <2>1
      <3>3. QED
        BY <2>1, <2>6, <3>1, <3>2 DEF Inv, TypeOK
    <2>8. QED
      BY <2>4, <2>5, <2>6, <2>7 DEF Inv
  <1>3. QED
    BY <1>1, <1>2 DEF VerifySigned

-----------------------------------------------------------------------------
(* Power failures, and the whole                                           *)

\* What a power failure takes back: everything named after the first n.
Lost(s, n) == {s[i] : i \in (n + 1)..Len(s)}

\* Who loses a loses what follows it.
LEMMA LostTogether ==
    ASSUME NEW S, NEW s \in Seq(S), NEW n \in Nat, NEW a, NEW b,
           Follows(s, a, b), a \in Lost(s, n)
    PROVE  b \in Lost(s, n)
  <1>1. PICK i \in (n + 1)..Len(s) : s[i] = a
    BY DEF Lost
  <1>2. DOMAIN s = 1..Len(s) /\ Len(s) \in Nat
    OBVIOUS
  <1>3. i \in DOMAIN s
    BY <1>1, <1>2
  <1>4. PICK j \in DOMAIN s : j > i /\ s[j] = b
    BY <1>1, <1>3 DEF Follows
  <1>5. j \in (n + 1)..Len(s)
    BY <1>1, <1>2, <1>4
  <1>6. QED
    BY <1>4, <1>5 DEF Lost

LEMMA NothingLost ==
    ASSUME NEW n \in Nat
    PROVE  Lost(<< >>, n) = {}
  <1>1. (n + 1)..Len(<< >>) = {}
    OBVIOUS
  <1>2. QED
    BY <1>1 DEF Lost

LEMMA LostAreUnsynced ==
    ASSUME NEW S, NEW s \in Seq(S), NEW n \in Nat, NEW a,
           \A i \in DOMAIN s : s[i] = a, NEW b \in Lost(s, n)
    PROVE  b = a
  <1>1. PICK i \in (n + 1)..Len(s) : s[i] = b
    BY DEF Lost
  <1>2. i \in DOMAIN s
    BY <1>1
  <1>3. QED
    BY <1>1, <1>2

\* The final candidate does not survive its transfer; once the candidate is
\* qualified only an unverified bundle can be lost; once it is signed, nothing.
LEMMA PowerLossKeeps ==
    ASSUME Inv, PowerLoss
    PROVE  Inv'
  <1>1. PICK n \in 0..Len(unsynced) :
           work' = [a \in Names |-> IF a \in Lost(unsynced, n) THEN Absent ELSE work[a]]
    BY DEF PowerLoss, Lost
  <1>2. n \in Nat /\ unsynced \in Seq(AllNames)
    BY DEF Inv, TypeOK
  <1>3. /\ DOMAIN work' = AllNames
        /\ \A a \in AllNames : a \in Lost(unsynced, n) => work'[a] = Absent
        /\ \A a \in AllNames : a \notin Lost(unsynced, n) => work'[a] = work[a]
    BY <1>1, NamesAre
  <1>4. unsynced' = << >> /\ UNCHANGED <<phase, mode, generation>> /\ Leave
    BY DEF PowerLoss
  <1>5. CandidateInv'
    <2>1. SUFFICES ASSUME Present("final candidate")'
                   PROVE  work'["final candidate"] = work'["final transfer"]
      BY <1>4, NothingUnsynced DEF CandidateInv
    <2>2. "final candidate" \in AllNames /\ "final transfer" \in AllNames
      BY DEF AllNames
    <2>3. "final candidate" \notin Lost(unsynced, n) /\ Present("final candidate")
      BY <1>3, <2>1, <2>2 DEF Absent
    <2>4. /\ work["final candidate"] = work["final transfer"]
          /\ Follows(unsynced, "final transfer", "final candidate")
      BY <2>3 DEF Inv, CandidateInv
    <2>5. "final transfer" \notin Lost(unsynced, n)
      BY <1>2, <2>3, <2>4, LostTogether
    <2>6. QED
      BY <1>3, <2>2, <2>3, <2>4, <2>5
  <1>6. BundleInv'
    <2>1. "bundle" \in AllNames /\ Absent' = Absent
      BY DEF AllNames, Absent
    <2>2. Present("bundle")' => Present("bundle") /\ work'["bundle"] = work["bundle"]
      BY <1>3, <2>1
    <2>3. phase' < Qualified => ~Present("bundle")'
      BY <1>4, <2>2 DEF Inv, BundleInv
    <2>4. \A i \in DOMAIN unsynced' : unsynced'[i] = "bundle"
      BY <1>4, NothingUnsynced
    <2>5. CASE phase >= Qualified
      <3>1. /\ work["final transfer"] = Source(work["intent"], work["imported"])
            /\ \A i \in DOMAIN unsynced : unsynced[i] = "bundle"
            /\ Present("bundle") =>
                  \E key : work["bundle"] = Bundle(work["final transfer"], key)
        BY <2>5 DEF Inv, BundleInv
      <3>2. ASSUME NEW a \in Lost(unsynced, n) PROVE a = "bundle"
        BY <1>2, <3>1, LostAreUnsynced
      <3>3. /\ work'["final transfer"] = work["final transfer"]
            /\ work'["intent"] = work["intent"] /\ work'["imported"] = work["imported"]
        BY <1>3, <3>2 DEF AllNames
      <3>4. ASSUME phase >= Signed
            PROVE  work'["bundle"] = Bundle(work["final transfer"], generation)
        <4>1. /\ unsynced = << >>
              /\ work["bundle"] = Bundle(work["final transfer"], generation)
          BY <3>4 DEF Inv, BundleInv
        <4>2. "bundle" \notin Lost(unsynced, n)
          BY <1>2, <4>1, NothingLost
        <4>3. QED
          BY <1>3, <2>1, <4>1, <4>2
      <3>5. QED
        BY <1>4, <2>2, <2>3, <2>4, <3>1, <3>3, <3>4 DEF BundleInv
    <2>6. CASE ~(phase >= Qualified)
      <3>1. ~(phase >= Signed)
        BY <2>6 DEF Qualified, Signed, Inv, TypeOK
      <3>2. QED
        BY <1>4, <2>3, <2>6, <3>1 DEF BundleInv
    <2>7. QED
      BY <2>5, <2>6
  <1>7. QED
    BY <1>3, <1>4, <1>5, <1>6, LeaveRun, NothingUnsynced DEF Inv, TypeOK

\* The operator does not reach into the work directory, nor into a running
\* wizard.
LEMMA OperatorKeeps ==
    ASSUME Inv, UNCHANGED <<files, wizard>>
    PROVE  Inv'
  <1>1. UNCHANGED <<work, unsynced, phase, mode, generation, wizard>>
    BY DEF files
  <1>2. TypeOK' /\ RunInv'
    BY <1>1 DEF Inv, TypeOK, RunInv
  <1>3. QED
    BY <1>2, FilesStay DEF Inv

LEMMA NextInv == Inv /\ [Next]_vars => Inv'
  <1> SUFFICES ASSUME Inv, [Next]_vars PROVE Inv'
    OBVIOUS
  <1>1. CASE Resume
    BY <1>1, ResumeKeeps
  <1>2. CASE Step
    BY <1>2, DiscoverKeeps, WriteInputKeeps, SyncInputsKeeps, WriteExactKeeps, FillKeeps,
       AcquireKeeps, ExportKeeps, ImportKeeps, VerifyKeeps, SavePhaseKeeps, PauseKeeps,
       SignBeginKeeps, SignKeeps, VerifySignedKeeps, Zenon DEF Step
  <1>3. CASE Stop
    BY <1>3, StopKeeps
  <1>4. CASE PowerLoss
    BY <1>4, PowerLossKeeps
  <1>5. CASE Operator
    <2>1. UNCHANGED <<files, wizard>>
      BY <1>5 DEF Operator, RotateConfig, RotateKeyring, Rebuild, Revert, SwapKey,
                  TrustMachine, Expire, Edited
    <2>2. QED
      BY <2>1, OperatorKeeps
  <1>6. CASE UNCHANGED vars
    BY <1>6, OperatorKeeps DEF vars
  <1>7. QED
    BY <1>1, <1>2, <1>3, <1>4, <1>5, <1>6 DEF Next

-----------------------------------------------------------------------------
(* Theorems                                                                *)

\* Whatever is interrupted, edited and resumed: only a fully admitted run is at
\* the signer, the final candidate on disk is of the transfer beside it, and a
\* bundle is of the transfer that was compared with the recorded inputs.
THEOREM WorkIsConsistent == Spec => []Inv
  <1>1. QED
    BY InitInv, NextInv, PTL DEF Spec

\* What stage-local is given was signed with the recorded generation's key, and
\* made from the inputs and the qualification that lie beside it.
THEOREM StagedIsRecorded == Spec => []StagedAsRecorded
  <1>1. ASSUME Inv PROVE StagedAsRecorded
    <2>1. ASSUME phase = LocalStaged
          PROVE  work["bundle"] = Bundle(Source(work["intent"], work["imported"]), generation)
      <3>1. phase >= Qualified /\ phase >= Signed
        BY <2>1 DEF LocalStaged, Qualified, Signed
      <3>2. /\ work["final transfer"] = Source(work["intent"], work["imported"])
            /\ work["bundle"] = Bundle(work["final transfer"], generation)
        BY <1>1, <3>1 DEF Inv, BundleInv
      <3>3. QED
        BY <3>2
    <2>2. QED
      BY <2>1 DEF StagedAsRecorded
  <1>2. QED
    BY <1>1, WorkIsConsistent, PTL

\* No run admitted with less than every role starts the signer.
THEOREM SignersAreTrusted == Spec => []OnlyTrustedSign
  <1>1. ASSUME Inv PROVE OnlyTrustedSign
    <2>1. ASSUME NEW path \in {"old", "new"}, At(Signing(path))
          PROVE  wizard.roles = AllRoles
      <3>1. wizard.pc \in SigningSteps /\ ~At("idle")
        BY <2>1 DEF Signing, SigningSteps
      <3>2. mode # "dry_run" /\ wizard.roles = RequiredRoles(mode)
        BY <1>1, <3>1 DEF Inv, RunInv
      <3>3. QED
        BY <3>2 DEF RequiredRoles
    <2>2. QED
      BY <2>1 DEF OnlyTrustedSign
  <1>2. QED
    BY <1>1, WorkIsConsistent, PTL
================================================================================
