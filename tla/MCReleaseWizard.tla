--------------------------- MODULE MCReleaseWizard ---------------------------
EXTENDS ReleaseWizard
=============================================================================
