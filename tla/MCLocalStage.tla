----------------------------- MODULE MCLocalStage -----------------------------
EXTENDS LocalStage

\* A first catalog, its successor, and another candidate of the same sequence.
MCBundles == {[sequence |-> 1, digest |-> 1], [sequence |-> 2, digest |-> 1],
              [sequence |-> 2, digest |-> 2]}
=============================================================================
