---------------------------- MODULE MCEvidenceFiles ----------------------------
EXTENDS EvidenceFiles

Draft(release, assets) == [intact |-> TRUE, release |-> release, assets |-> assets]
Approval(draft)        == [intact |-> TRUE, of |-> draft, release |-> draft.release,
                           assets |-> draft.assets]
Publication(approval)  == [intact |-> TRUE, of |-> approval, draft |-> approval.of,
                           release |-> approval.release, assets |-> approval.assets]
Latest(publication)    == [intact |-> TRUE, of |-> publication,
                           release |-> publication.release, catalog |-> "catalog"]

\* The receipts of this release, of a second draft of it, and of another one.
Drafts       == {Draft("this", {"catalog"}), Draft("this", {"catalog", "package"}),
                 Draft("other", {"catalog"})}
Approvals    == {Approval(d) : d \in Drafts}
Publications == {Publication(a) : a \in Approvals}

MCReceipts ==
    {r \in Drafts \X Approvals \X Publications \X {Latest(p) : p \in Publications} :
        r[1] = Draft("this", {"catalog"})}
=============================================================================
