----------------------------- MODULE AtomicRecord -----------------------------
(***************************************************************************)
(* What the operation store promises to the workflow: a single record that *)
(* moves by authorized steps, of which at most the last one can be undone  *)
(* by a loss of power, and never one the caller was told of.               *)
(***************************************************************************)
EXTENDS OperationRecord

CONSTANT NoRecord

VARIABLES
    value,        \* the record a reader would find
    acknowledged  \* the last record a command was told of

atomicVars == <<value, acknowledged>>

AtomicStep(old, new) ==
    IF old = NoRecord
    THEN \E pins \in Pins : new = InitialOperation(pins)
    ELSE SchemaAuthorizedNext(old, new)

AtomicInit == value = NoRecord /\ acknowledged = NoRecord

Write ==
    /\ value = acknowledged
    /\ AtomicStep(value, value')
    /\ UNCHANGED acknowledged

Acknowledge == acknowledged' = value /\ UNCHANGED value

Undo == value' = acknowledged /\ UNCHANGED acknowledged

AtomicNext == Write \/ Acknowledge \/ Undo

AtomicSpec == AtomicInit /\ [][AtomicNext]_atomicVars
=============================================================================
