----------------------------- MODULE EvidenceFiles -----------------------------
(***************************************************************************)
(* catalog-wizard, the last phase of a release (release.rs): the receipts  *)
(* of a published release are validated, copied beside the state, put into *)
(* the repository if the operator agrees, and the evidence is marked       *)
(* complete.  A file is created under a temporary name, filled, synced and *)
(* renamed; whatever prefix of it a kill leaves is completed by the next   *)
(* `resume', which takes over a repository that is dirty with the pending  *)
(* evidence and with nothing else.                                         *)
(*                                                                         *)
(* The operator edits, and the wizard is taken to be the only one running. *)
(***************************************************************************)
EXTENDS Integers, Sequences, FiniteSets

CONSTANTS
    Size,        \* pieces of every file
    Receipts,    \* what publish-state may hold: quadruples of receipts
    Release,     \* the release that the saved state names
    MaxFaults,   \* bound: kills, errors, power failures, refused questions
    MaxEdits     \* bound: changes to the repository by the operator

ASSUME EvidenceAssumption == Size \in Nat \ {0} /\ MaxFaults \in Nat /\ MaxEdits \in Nat

VARIABLES
    receipts,   \* draft, approval, publication and latest receipt
    file,       \* each file: where its bytes are, how many, what is durable
    foreign,    \* outputs whose name is taken by something else
    dirt,       \* is anything else changed or staged in the repository?
    head,       \* has HEAD moved from the recorded commit?
    wizard, queue,  \* the next step; the files still to write, the first under way
    answered,   \* history: the operator agreed to the update that was marked
    edited,     \* history: outputs the operator has touched
    faults, edits

repository == <<foreign, dirt, head, edited, edits>>
vars == <<receipts, file, repository, wizard, queue, answered, faults>>

Copies  == <<"publication copy", "latest copy">>
Outputs == <<"publication evidence", "latest evidence", "release document">>
Mark    == <<"evidence complete">>
Names(fs) == {fs[i] : i \in DOMAIN fs}
Files   == Names(Copies) \cup Names(Outputs) \cup Names(Mark)

\* at is the name that the bytes have, past the ones a power failure may
\* give back, synced how many of them it surely leaves.
NoFile == [at |-> "none", past |-> {}, len |-> 0, synced |-> 0]

Named(f)  == file[f].at = "name"
Marked    == Named(Mark[1]) /\ file[Mark[1]].len = Size

Init ==
    /\ receipts \in Receipts
    /\ file = [f \in Files |-> NoFile]
    /\ foreign = {} /\ dirt = FALSE /\ head = FALSE
    /\ wizard = "generate" /\ queue = << >>
    /\ answered = FALSE /\ edited = {} /\ faults = 0 /\ edits = 0

-----------------------------------------------------------------------------
(* validate_public_receipts                                                *)

\* A receipt repeats the release and the assets, and names the one before it
\* by its bytes; the identifier in it is a digest of its body.
DraftValid(draft) ==
    /\ draft.intact /\ draft.release = Release
    /\ draft.assets # {}

ApprovalValid(approval, draft) ==
    /\ approval.intact /\ approval.of = draft
    /\ approval.release = draft.release /\ approval.assets = draft.assets

PublicationValid(publication, approval, draft) ==
    /\ publication.intact /\ publication.of = approval /\ publication.draft = draft
    /\ publication.release = approval.release /\ publication.assets = approval.assets

\* A slip: the latest catalog is only sought among the published assets.
LatestUnlinked(latest, publication) ==
    latest.intact /\ latest.catalog \in publication.assets

LatestValid(latest, publication) ==
    /\ latest.intact /\ latest.of = publication
    /\ latest.release = publication.release /\ latest.catalog \in publication.assets

ReceiptsValid ==
    /\ DraftValid(receipts[1])
    /\ ApprovalValid(receipts[2], receipts[1])
    /\ PublicationValid(receipts[3], receipts[2], receipts[1])
    /\ LatestValid(receipts[4], receipts[3])

-----------------------------------------------------------------------------
Goto(step) == wizard' = step /\ UNCHANGED queue
Quit      == wizard' = "idle" /\ queue' = << >>

\* A slip: only what has its final name is recognised.
PendingNamed(f)   == file[f].at # "temporary"
\* A changed path is an output or its temporary, with a prefix of its bytes.
PendingExactly(f) == f \notin foreign

\* require_clean_or_exact_pending_evidence and verify_resumed_source_identity.
Admits ==
    /\ ~dirt /\ ~head
    /\ \A f \in Names(Outputs) : PendingExactly(f)
    /\ (\E f \in Names(Outputs) : file[f].at # "none") => ReceiptsValid

\* `resume': a release with its evidence complete is not listed any more.
Resume ==
    /\ wizard = "idle" /\ ~Marked
    /\ IF Admits THEN Goto("generate") ELSE Quit
    /\ UNCHANGED <<receipts, file, repository, answered, faults>>

\* A slip: each file is looked at when its turn comes.
AbsentLater(fs)         == TRUE
AbsentOrExactPrefix(fs) == Names(fs) \cap foreign = {}

Start(fs) == wizard' = "begin" /\ queue' = fs

GeneratePublicReceipts ==
    /\ wizard = "generate"
    /\ IF ReceiptsValid THEN Start(Copies) ELSE Quit
    /\ UNCHANGED <<receipts, file, repository, answered, faults>>

\* commit_public_evidence checks all the outputs before it writes the first;
\* without the update only the mark is written.
Answer(yes) ==
    /\ wizard = "ask"
    /\ IF ~yes THEN Start(Mark)
       ELSE IF ReceiptsValid /\ AbsentOrExactPrefix(Outputs) THEN Start(Outputs)
       ELSE Quit
    /\ answered' = yes
    /\ UNCHANGED <<receipts, file, repository, faults>>

-----------------------------------------------------------------------------
(* write_recoverable_evidence                                              *)

F == queue[1]
Only(step, record) ==
    /\ file' = [file EXCEPT ![F] = record]
    /\ Goto(step)
    /\ UNCHANGED <<receipts, repository, answered, faults>>

\* What has the name is completed in place, what is not ours is refused.
BeginFile ==
    /\ wizard = "begin"
    /\ IF F \in foreign THEN Quit /\ UNCHANGED file
       ELSE /\ Goto("fill")
            /\ file' = IF file[F].at # "none" THEN file
                       ELSE [file EXCEPT ![F] = [NoFile EXCEPT !.at = "temporary",
                                                               !.past = {"none"}]]
    /\ UNCHANGED <<receipts, repository, answered, faults>>

Append1 ==
    /\ wizard = "fill" /\ file[F].len < Size
    /\ Only("fill", [file[F] EXCEPT !.len = @ + 1])

Seal(record)        == [record EXCEPT !.synced = record.len]

\* sync_all of the file: after the append, and again before the rename.
SealFile ==
    /\ wizard = "fill" /\ file[F].len = Size
    /\ Only(IF Named(F) THEN "sync" ELSE "rename", Seal(file[F]))

RenameFile ==
    /\ wizard = "rename"
    /\ Only("sync", [file[F] EXCEPT !.at = "name", !.past = @ \cup {"temporary"}])

\* A slip: the rename is taken for durable.
SyncNoParent(record) == record
SyncParent(record)   == [record EXCEPT !.past = {}]

\* The directory is synced; then the next file, the question, or the mark.
SyncDirectory ==
    /\ wizard = "sync"
    /\ file' = [file EXCEPT ![F] = SyncParent(@)]
    /\ CASE Len(queue) > 1             -> Start(Tail(queue))
         [] F = Copies[Len(Copies)]    -> wizard' = "ask" /\ queue' = << >>
         [] F = Outputs[Len(Outputs)]  -> Start(Mark)
         [] F = Mark[1]                -> Quit
    /\ UNCHANGED <<receipts, repository, answered, faults>>

Step ==
    \/ GeneratePublicReceipts \/ \E yes \in BOOLEAN : Answer(yes)
    \/ BeginFile \/ Append1 \/ SealFile \/ RenameFile \/ SyncDirectory

-----------------------------------------------------------------------------
(* Faults and the operator                                                 *)

\* A kill, an I/O error, or an answer that is neither yes nor no.
Stop ==
    /\ wizard # "idle"
    /\ faults < MaxFaults /\ faults' = faults + 1
    /\ Quit
    /\ UNCHANGED <<receipts, file, repository, answered>>

\* Each file may be found under any name it had since its directory was last
\* synced, with any prefix that holds what was synced.
Survivors(record) ==
    {IF at = "none" THEN NoFile ELSE [at |-> at, past |-> {}, len |-> n, synced |-> n] :
        at \in record.past \cup {record.at}, n \in record.synced..record.len}

LosePower ==
    /\ faults < MaxFaults /\ faults' = faults + 1
    /\ file' \in {left \in [Files -> UNION {Survivors(file[f]) : f \in Files}] :
                    \A f \in Files : left[f] \in Survivors(file[f])}
    /\ Quit
    /\ UNCHANGED <<receipts, repository, answered>>

\* The operator works while the wizard does not run, or waits for the answer.
Edit ==
    /\ wizard \in {"idle", "ask"}
    /\ edits < MaxEdits /\ edits' = edits + 1
    /\ \/ \E f \in Names(Outputs) \ foreign :
             /\ foreign' = foreign \cup {f} /\ edited' = edited \cup {f}
             /\ file' = IF Named(f) THEN [file EXCEPT ![f] = NoFile] ELSE file
             /\ UNCHANGED <<dirt, head>>
       \/ dirt' = TRUE /\ UNCHANGED <<foreign, edited, file, head>>
       \/ head' = TRUE /\ UNCHANGED <<foreign, edited, file, dirt>>
    /\ UNCHANGED <<receipts, wizard, queue, answered, faults>>

\* What was changed is taken back; the recorded commit is checked out again.
Restore ==
    /\ wizard \in {"idle", "ask"} /\ (foreign # {} \/ dirt \/ head)
    /\ foreign' = {} /\ dirt' = FALSE /\ head' = FALSE
    /\ UNCHANGED <<receipts, file, edited, edits, wizard, queue, answered, faults>>

Next == Resume \/ Step \/ Stop \/ LosePower \/ Edit \/ Restore

Spec == Init /\ [][Next]_vars

\* A running wizard goes on, the operator keeps running `resume'.
FairSpec == Spec /\ WF_vars(Step) /\ WF_vars(Resume)

-----------------------------------------------------------------------------
(* Properties                                                              *)

\* The mark is never ahead of what it stands for: when it has its name, in
\* whatever a power failure may leave, the two copies are there and whole, and
\* so are the three outputs if the operator agreed to them, except one that the
\* operator changed afterwards.
MarkedIsBacked ==
    Named(Mark[1]) =>
       \A f \in Names(Copies) \cup (IF answered THEN Names(Outputs) \ edited ELSE {}) :
          Named(f) /\ file[f].past = {} /\ file[f].synced = Size

\* Evidence is all or nothing in front of a change the wizard did not make:
\* while one output's name is taken by something else, no other output gets its
\* name, its temporary or another byte.
ForeignStopsAll ==
    [][foreign # {} /\ foreign' = foreign /\ edits' = edits /\ faults' = faults
         => \A f \in Names(Outputs) : /\ file'[f].at = file[f].at
                                      /\ file'[f].len = file[f].len]_vars

\* Only evidence of this release is written: where there is a copy or an output,
\* the four receipts are one chain, each made from the bytes of the one before,
\* of the release that the state names.
EvidenceIsChained ==
    (\E f \in Files : file[f].at # "none") =>
       /\ \A i \in 1..4 : receipts[i].release = Release /\ receipts[i].intact
       /\ \A i \in 2..4 : receipts[i].of = receipts[i - 1]

\* Whatever prefix of whichever file a kill or a power failure leaves, the wizard
\* recognises it as its own, and the evidence is complete in the end, if there
\* is any to give and the operator leaves the repository as the release found it.
EvidenceCompletes ==
    ReceiptsValid /\ []<>(foreign = {} /\ ~dirt /\ ~head) => <>Marked
=============================================================================
