--------------------------- MODULE MCRemoteWorkflow ---------------------------
EXTENDS RemoteWorkflow

\* The last asset listed is the catalog; with two assets there is one support
\* asset before it, with three a proper prefix of more than one.
=============================================================================
