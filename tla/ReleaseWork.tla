------------------------------ MODULE ReleaseWork ------------------------------
(***************************************************************************)
(* catalog-wizard: what lies in a release's work directory up to its local *)
(* staging, and what each of its files is made from.  ReleaseWizard models *)
(* the phase file; here a phase's work makes its artifacts one by one, and *)
(* a phase begun again verifies those it finds.  The wizard may be killed  *)
(* between two of them; the power may fail; meanwhile upstream moves, the  *)
(* maintainer returns qualifications, and the operator rotates the signing *)
(* key, rebuilds the programs, swaps key files and edits trust profiles.   *)
(***************************************************************************)
EXTENDS Integers, Sequences, FiniteSets

CONSTANTS
    Discoveries,  \* what upstream offers, at one time or another
    Returns,      \* the qualifications that the maintainer made
    MaxFaults,    \* bound: kills, errors and power failures
    MaxEdits      \* bound: what the operator does besides

ASSUME WorkAssumption == MaxFaults \in Nat /\ MaxEdits \in Nat

VARIABLES
    work,      \* each artifact: Absent, Partial, or what it was made from
    unsynced,  \* artifacts named since the directory was synced, in order:
               \* a power failure takes back the last of them, or more
    phase,     \* in wizard-state.json
    mode,      \* dry_run or publish_capable
    generation,\* signing_key_generation of the state
    wizard,    \* the running one: pc, the artifact of the phase it is at, the
               \* inputs it has found, the active generation compiled into it,
               \* the roles it was admitted with, and is it `resume'?
    built,     \* the active generation of the programs now installed
    config,    \* signing-key.json: generation and path
    keys,      \* the key in the file at each path
    moved,     \* does HEAD, or the tree, differ from the recorded commit?
    profiles,  \* trust profiles of this machine that have not expired
    faults, edits

files    == <<work, unsynced, phase, mode, generation>>
machine  == <<built, config, keys, moved, profiles, edits>>
vars     == <<files, wizard, machine, faults>>

Absent  == [kind |-> "absent"]
Partial == [kind |-> "partial"]
Nothing == [kind |-> "nothing"]

Planned == 0
AwaitingQualification == 4
Qualified == 6
Signed == 7
LocalStaged == 8

\* persist_installer_pair.  A slip: the journal comes last.
JournalLast  == <<"intent", "inputs", "journal">>
JournalFirst == <<"journal", "intent", "inputs">>

\* What the work of each phase makes, in its order.
Artifacts(p) ==
    CASE p = 0 -> JournalFirst
      [] p = 1 -> <<"acquired">>
      [] p = 2 -> <<"candidate">>
      [] p = 3 -> <<"request">>
      [] p = 4 -> <<"imported">>
      [] p = 5 -> <<"qualification", "source", "final transfer", "final candidate">>
      [] p = 6 -> <<"bundle">>
      [] p = 7 -> << >>

Names == UNION {{Artifacts(p)[i] : i \in DOMAIN Artifacts(p)} : p \in 0..7}

\* Written in place; every other artifact is staged and renamed.
Exact == {"candidate", "qualification", "source"}

Preparer == {"preparer"}
AllRoles == {"preparer", "signer", "publisher"}

\* required_roles.  A slip: preparing is all that is asked for.
PreparerOnly(m)  == Preparer
RequiredRoles(m) == IF m = "dry_run" THEN Preparer ELSE AllRoles

\* run_release, admitted with the roles of its mode, has saved the first state.
Init ==
    /\ work = [a \in Names |-> Absent] /\ unsynced = << >> /\ phase = Planned
    /\ mode \in {"dry_run", "publish_capable"} /\ generation = 1
    /\ wizard = [pc |-> "work", step |-> 1, found |-> Nothing, active |-> 1,
                  roles |-> RequiredRoles(mode), resumed |-> FALSE]
    /\ built = 1 /\ config = [generation |-> 1, path |-> "old"]
    /\ keys = [old |-> 1, new |-> 2]
    /\ moved = FALSE /\ profiles = {[label |-> "first", roles |-> AllRoles]}
    /\ faults = 0 /\ edits = 0

-----------------------------------------------------------------------------
NoWizard == [pc |-> "idle", step |-> 1, found |-> Nothing, active |-> 0,
             roles |-> {}, resumed |-> FALSE]
At(pc)   == wizard.pc = pc
Goto(pc) == wizard' = [wizard EXCEPT !.pc = pc]
Advance  == wizard' = [wizard EXCEPT !.pc = "work", !.step = @ + 1]
Leave    == wizard' = NoWizard

Present(a) == work[a] # Absent
Here       == Artifacts(phase)[wizard.step]
Working    == At("work") /\ wizard.step <= Len(Artifacts(phase))

\* The resumed wizard has a qualification to ask for, `release' has not.
Pausing ==
    \/ phase = AwaitingQualification /\ ~wizard.resumed
    \/ phase = Qualified /\ mode = "dry_run"

\* load_matching_profile: one profile matches, not none and not two.
Trusted(required) == Cardinality({p \in profiles : required \subseteq p.roles}) = 1

\* resume_in_repo.
Resume ==
    /\ At("idle") /\ phase < LocalStaged
    /\ IF ~moved /\ Trusted(RequiredRoles(mode))
       THEN wizard' = [NoWizard EXCEPT !.pc = "work", !.active = built,
                                       !.roles = RequiredRoles(mode), !.resumed = TRUE]
       ELSE Leave
    /\ UNCHANGED <<files, machine, faults>>

-----------------------------------------------------------------------------
(* What an artifact is made from                                           *)

Pair(d)          == [kind |-> "pair", of |-> d]
Request(pair, g) == [kind |-> "request", of |-> pair, keyring |-> g]
Source(pair, q)  == [kind |-> "source", of |-> pair, by |-> q]
Bundle(s, k)     == [kind |-> "bundle", of |-> s, key |-> k]

\* What is there already is reopened, from the journal if there is one.
Reopened ==
    IF Present("journal") THEN work["journal"]
    ELSE IF work["intent"] = work["inputs"] THEN work["intent"] ELSE Absent

\* generate_installer_release_inputs_with: discovered only if nothing is there.
Discover ==
    /\ Working /\ phase = Planned /\ wizard.found = Nothing
    /\ IF \E a \in {"journal", "intent", "inputs"} : Present(a)
       THEN IF Reopened = Absent THEN Leave
            ELSE wizard' = [wizard EXCEPT !.found = Reopened]
       ELSE \E d \in Discoveries : wizard' = [wizard EXCEPT !.found = Pair(d)]
    /\ UNCHANGED <<files, machine, faults>>

\* verified_signing_context, and verify_active_signing_key in it.
SigningContext ==
    /\ work["source"] = Source(work["intent"], work["imported"])
    /\ config.generation = generation /\ wizard.active = generation
    /\ keys[config.path] = wizard.active

\* write_exact_or_verify: the bytes of each file written in place.
ExactBytes(a) ==
    CASE a = "candidate"     -> work["intent"]
      [] a = "qualification" -> work["imported"]
      [] a = "source"        -> Source(work["intent"], work["imported"])

\* installer_request: what is exported, and must be the same again.
InstallerRequest == Request(work["acquired"], wizard.active)

\* import_installer_handoff: a qualification of the subject that was exported,
\* while the request still is the one this release makes.
HandoffMatches(q) == work["request"] = InstallerRequest /\ q.subject = work["acquired"]

\* What is there already is compared byte for byte; of a transfer only its own
\* consistency is verified, of the final candidate nothing yet.
Accepts(a) ==
    CASE phase = Planned  -> work[a] = wizard.found
      [] a \in Exact      -> work[a] = ExactBytes(a)
      [] a = "request"    -> work[a] = InstallerRequest
      [] a \in {"acquired", "final transfer", "final candidate"} -> TRUE

\* The comparison at the end of finalize_qualified_candidate.
Finalized ==
    /\ work["candidate"] = work["intent"]
    /\ work["final candidate"] = Source(work["intent"], work["imported"])

Due == Working /\ ~Pausing /\ phase < Qualified /\ (phase = Planned => wizard.found # Nothing)
Missing == Due /\ ~Present(Here)
Write(value) ==
    /\ work' = [work EXCEPT ![Here] = value]
    /\ unsynced' = Append(unsynced, Here)
    /\ UNCHANGED <<phase, mode, generation, machine, faults>>

Verify ==
    /\ Due /\ Present(Here) /\ Here # "imported"
    /\ IF Accepts(Here) THEN Advance ELSE Leave
    /\ UNCHANGED <<files, machine, faults>>

\* write_atomic_or_verify renames a staged file, then syncs the directory.
WriteInput == Missing /\ phase = Planned /\ Write(wizard.found) /\ Goto("sync")

WriteExact == Missing /\ Here \in Exact /\ Write(Partial) /\ Goto("fill")

\* catalog-acquire and the signer's finalize-candidate, started as commands.
Acquire ==
    /\ Missing /\ Here \in {"acquired", "final transfer", "final candidate"}
    /\ Write(work[CASE Here = "acquired"        -> "intent"
                    [] Here = "final transfer"  -> "source"
                    [] Here = "final candidate" -> "final transfer"])
    /\ Advance

\* export_installer_request: a staged directory is renamed.
Export == Missing /\ Here = "request" /\ Write(InstallerRequest) /\ Advance

\* import_installer_handoff with ensure_imported_output.
Import(q) ==
    /\ Due /\ Here = "imported"
    /\ IF HandoffMatches(q) /\ ~Present(Here) THEN Write(q) /\ Advance
       ELSE /\ IF HandoffMatches(q) /\ work[Here] = q THEN Advance ELSE Leave
            /\ UNCHANGED <<files, machine, faults>>

\* write_exact_or_verify: the bytes, and their sync.
Fill ==
    /\ At("fill")
    /\ work' = [work EXCEPT ![Here] = ExactBytes(Here)]
    /\ Advance
    /\ UNCHANGED <<unsynced, phase, mode, generation, machine, faults>>

SyncInputs ==
    /\ At("sync")
    /\ unsynced' = << >>
    /\ Advance
    /\ UNCHANGED <<work, phase, mode, generation, machine, faults>>

\* save_phase: the state is written and the directory synced.
SavePhase ==
    /\ At("work") /\ phase < Qualified /\ wizard.step > Len(Artifacts(phase))
    /\ IF phase = 5 => Finalized
       THEN /\ phase' = phase + 1 /\ unsynced' = << >>
            /\ wizard' = [wizard EXCEPT !.step = 1]
       ELSE Leave /\ UNCHANGED <<phase, unsynced>>
    /\ UNCHANGED <<work, mode, generation, machine, faults>>

Pause ==
    /\ At("work") /\ Pausing
    /\ Leave
    /\ UNCHANGED <<files, machine, faults>>

-----------------------------------------------------------------------------
(* Signing                                                                 *)

\* Where a run is that has started the signer with the key at a path.
Signing(path) == IF path = "old" THEN "sign old" ELSE "sign new"

\* prepare_signing, the phrase, and sign up to the launch of the signer.
SignBegin ==
    /\ At("work") /\ phase = Qualified /\ ~Pausing
    /\ IF ~SigningContext THEN Leave
       ELSE IF Present("bundle") THEN Goto("verify")
       ELSE Goto(Signing(config.path))
    /\ UNCHANGED <<files, machine, faults>>

\* The signer, as it is installed now, signs with the key in the file it was
\* given, if that is the active key it was built with.
Sign(path) ==
    /\ At(Signing(path))
    /\ IF keys[path] = built
       THEN /\ work' = [work EXCEPT !["bundle"] = Bundle(work["final transfer"], built)]
            /\ unsynced' = Append(unsynced, "bundle")
            /\ Goto("verify")
       ELSE Leave /\ UNCHANGED <<work, unsynced>>
    /\ UNCHANGED <<phase, mode, generation, machine, faults>>

\* A slip: with the right key configured any bundle will do.
AnyBundleKey   == TRUE
BundleKey      == work["bundle"].key = wizard.active

\* verify_signed_bundle, then the phase Signed is saved; stage_local follows
\* another verification, by the run that signed or by a later one.
VerifySigned ==
    /\ At("verify") \/ (At("work") /\ phase = Signed)
    /\ IF SigningContext /\ BundleKey
       THEN /\ phase' = phase + 1 /\ unsynced' = << >>
            /\ IF phase = Signed THEN Leave ELSE Goto("work")
       ELSE Leave /\ UNCHANGED <<phase, unsynced>>
    /\ UNCHANGED <<work, mode, generation, machine, faults>>

Step ==
    \/ Discover \/ WriteInput \/ SyncInputs \/ WriteExact \/ Fill
    \/ Acquire \/ Export \/ \E q \in Returns : Import(q)
    \/ Verify \/ SavePhase \/ Pause
    \/ SignBegin \/ \E path \in {"old", "new"} : Sign(path)
    \/ VerifySigned

-----------------------------------------------------------------------------
(* Faults and the operator                                                 *)

Stop ==
    /\ ~At("idle")
    /\ faults < MaxFaults /\ faults' = faults + 1
    /\ Leave
    /\ UNCHANGED <<files, machine>>

PowerLoss ==
    /\ faults < MaxFaults /\ faults' = faults + 1
    /\ \E n \in 0..Len(unsynced) :
          LET lost == {unsynced[i] : i \in (n + 1)..Len(unsynced)}
          IN  work' = [a \in Names |-> IF a \in lost THEN Absent ELSE work[a]]
    /\ unsynced' = << >>
    /\ Leave
    /\ UNCHANGED <<phase, mode, generation, machine>>

Edited(unchanged) ==
    /\ edits < MaxEdits /\ edits' = edits + 1
    /\ UNCHANGED unchanged
    /\ UNCHANGED <<files, wizard, faults>>

\* rotate_key replaces the configuration, then the keyring, a tracked file.
RotateConfig ==
    /\ built = 1 /\ ~moved
    /\ config' = [generation |-> 2, path |-> "new"]
    /\ Edited(<<built, keys, moved, profiles>>)

RotateKeyring ==
    /\ config.generation = 2 /\ ~moved
    /\ moved' = TRUE
    /\ Edited(<<built, config, keys, profiles>>)

\* Programs built from a reviewed rotation are installed; or the machine is put
\* back to the generation it had.
Rebuild ==
    /\ built = 1
    /\ built' = 2
    /\ Edited(<<config, keys, moved, profiles>>)

Revert ==
    /\ config' = [generation |-> 1, path |-> "old"] /\ built' = 1 /\ moved' = FALSE
    /\ <<config', built', moved'>> # <<config, built, moved>>
    /\ UNCHANGED <<keys, profiles, edits>>
    /\ UNCHANGED <<files, wizard, faults>>

SwapKey ==
    /\ keys' = [keys EXCEPT !.old = 3 - @]
    /\ Edited(<<built, config, moved, profiles>>)

\* trust_machine writes a profile with all roles; profiles expire.
TrustMachine ==
    /\ profiles' = profiles \cup {[label |-> "second", roles |-> AllRoles]}
    /\ profiles' # profiles
    /\ Edited(<<built, config, keys, moved>>)

Expire ==
    /\ \E p \in profiles : profiles' = profiles \ {p}
    /\ Edited(<<built, config, keys, moved>>)

Operator ==
    \/ RotateConfig \/ RotateKeyring \/ Rebuild \/ Revert \/ SwapKey
    \/ TrustMachine \/ Expire

Next == Resume \/ Step \/ Stop \/ PowerLoss \/ Operator

Spec == Init /\ [][Next]_vars

\* A running wizard goes on, the operator keeps running `resume', and the
\* maintainer's qualification of this release is among those handed over.
FairSpec ==
    /\ Spec /\ WF_vars(Step) /\ WF_vars(Resume)
    /\ \A q \in Returns : SF_vars(Import(q))

-----------------------------------------------------------------------------
(* Properties                                                              *)

\* What is staged locally was signed with the key generation the release was
\* recorded with, whenever the key was rotated, the files at its path swapped,
\* the signer rebuilt and the wizard stopped; and it was made from the inputs
\* and the qualification that lie beside it.
StagedAsRecorded ==
    phase = LocalStaged =>
       work["bundle"] = Bundle(Source(work["intent"], work["imported"]), generation)

\* A machine trusted to prepare releases may begin, resume and finish a dry run,
\* but only one admitted with every role ever gets as far as the signer.
OnlyTrustedSign ==
    \A path \in {"old", "new"} : At(Signing(path)) => wizard.roles = AllRoles

\* The settings a release was begun with.
AsBegun ==
    /\ config.generation = generation /\ built = generation
    /\ keys[config.path] = generation /\ ~moved /\ Trusted(RequiredRoles(mode))

\* What a resumed release refuses for good: a file written in place that was
\* interrupted, a request exported by programs of another key generation, and a
\* bundle signed with that generation's key.
Unusable(a) ==
    \/ At("idle") /\ work[a] = Partial
    \/ a = "request" /\ Present(a) /\ work[a].keyring # generation
    \/ a = "bundle" /\ Present(a) /\ work[a].key # generation

\* Wherever it is killed or loses power, a release gets to its local staging (a
\* dry run to its end) once the machine is again as it was, unless it holds a
\* file that can never be accepted.
ReleaseIsPrepared ==
    [](\A a \in Names : ~Unusable(a)) /\ []<>AsBegun
       => <>(phase = IF mode = "dry_run" THEN Qualified ELSE LocalStaged)
=============================================================================
