--------------------------- MODULE MCSignedTransfer ---------------------------
EXTENDS SignedTransfer
===============================================================================
