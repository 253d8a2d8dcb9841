---------------------------- MODULE MCSignedOutput ----------------------------
EXTENDS SignedOutput
=============================================================================
