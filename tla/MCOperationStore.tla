--------------------------- MODULE MCOperationStore ---------------------------
EXTENDS OperationStore
=============================================================================
