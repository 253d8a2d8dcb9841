----------------------------- MODULE MCReleaseWork -----------------------------
EXTENDS ReleaseWork

\* Two qualifications of what is discovered first, one of what is next.
MCReturns ==
    {[kind |-> "qualification", subject |-> Pair(d), number |-> n] :
        <<d, n>> \in {<<1, 1>>, <<1, 2>>, <<2, 1>>}}
=============================================================================
