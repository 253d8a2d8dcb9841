---------------------------- MODULE OperationStore ----------------------------
(***************************************************************************)
(* How the state directory keeps the operation record through kills and    *)
(* power losses (catalog-publish/src/local.rs, RemoteWorkflowState): a new *)
(* record is linked under a temporary name, made durable, gated against    *)
(* the expected old record, renamed over it and made durable again.  A     *)
(* command that finds a temporary settles it before it does anything else. *)
(*                                                                         *)
(* The directory is a journal: the states it went through since the last   *)
(* fsync.  A killed process leaves the last one, a loss of power any one.  *)
(***************************************************************************)
EXTENDS OperationRecord

CONSTANTS
    NoRecord,
    Partial,         \* a file whose write was cut short
    ReleaseIds       \* the release ids an update may bind

ASSUME StoreAssumption ==
    /\ NoRecord # Partial
    /\ NoRecord \notin RemoteOperation /\ Partial \notin RemoteOperation
    /\ ReleaseIds \subseteq Nat \ {None}

VARIABLES
    unnamed,   \* does the file system support O_TMPFILE?
    journal,   \* directory states since the last fsync, the durable one first
    pc,        \* the store operation in progress
    held,      \* OperationHandle: the record the running command works from
    next,      \* the replacement being written
    acked      \* history: the last record a command was told is in place

storeVars == <<unnamed, journal, pc, held, next, acked>>

Visible == Last(journal)

Directory(main, temp) == [main |-> main, temp |-> temp]

StoreInit ==
    /\ unnamed \in BOOLEAN
    /\ journal = << Directory(NoRecord, NoRecord) >>
    /\ pc = "idle"
    /\ held = NoRecord /\ next = NoRecord /\ acked = NoRecord

Change(directory) == journal' = Append(journal, directory)
Fsync             == journal' = << Visible >>

-----------------------------------------------------------------------------
(* Opening: settle_pending_operation over the two candidates.              *)

Open ==
    /\ pc = "idle"
    /\ pc' = "settle"
    /\ UNCHANGED <<journal, held, next, acked>>

\* A file that was not completely written does not parse.
Legible == Partial \notin {Visible.main, Visible.temp}

Decision ==
    IF Legible THEN SettleDecision(Visible.main, Visible.temp, NoRecord, TRUE)
    ELSE "refuse"

\* settle_operation_candidate renames or unlinks; settle_visible_operation has
\* nothing to move.  Both go on to fsync the directory.
Settle ==
    /\ pc = "settle"
    /\ CASE Decision = "promote" -> Change(Directory(Visible.temp, NoRecord))
         [] Decision = "discard" -> Change(Directory(Visible.main, NoRecord))
         [] Decision \in {"nothing", "refuse"} -> UNCHANGED journal
    /\ pc' = IF Decision = "refuse" THEN "idle" ELSE "settleSync"
    /\ UNCHANGED <<held, next, acked>>

\* The fsync and the readback, after which the command acts on the record.
SettleSync ==
    /\ pc = "settleSync"
    /\ Fsync
    /\ held' = Visible.main /\ acked' = Visible.main
    /\ pc' = "ready"
    /\ UNCHANGED next

-----------------------------------------------------------------------------
(* write_unnamed_and_link                                                  *)

\* The name appears with the complete file, or, where O_TMPFILE is missing,
\* with an empty file that is written in place.
Link(whole, partial) == Change(IF unnamed THEN whole ELSE partial)

\* begin_operation: write_record_no_clobber of the first record.
Begin ==
    /\ pc = "ready" /\ held = NoRecord
    /\ next' \in {InitialOperation(pins) : pins \in Pins}
    /\ Link(Directory(next', NoRecord), Directory(Partial, NoRecord))
    /\ pc' = IF unnamed THEN "beginSync" ELSE "beginFill"
    /\ UNCHANGED <<held, acked>>

BeginFill ==
    /\ pc = "beginFill"
    /\ Change(Directory(next, NoRecord))
    /\ pc' = "beginSync"
    /\ UNCHANGED <<held, next, acked>>

BeginSync ==
    /\ pc = "beginSync"
    /\ Fsync
    /\ held' = next /\ acked' = next
    /\ pc' = "ready"
    /\ UNCHANGED next

\* update_operation: any step its schema authorizes.
Update ==
    /\ pc = "ready" /\ held # NoRecord
    /\ \E release \in ReleaseIds \cup {None}, verified \in 0..AssetCount, phase \in Phases :
          next' = UpdateOperation(held, release, verified, phase)
    /\ next' # held /\ ValidateOperation(next') /\ SchemaAuthorizedNext(held, next')
    /\ Link(Directory(Visible.main, next'), Directory(Visible.main, Partial))
    /\ pc' = IF unnamed THEN "updateSync" ELSE "updateFill"
    /\ UNCHANGED <<held, acked>>

UpdateFill ==
    /\ pc = "updateFill"
    /\ Change(Directory(Visible.main, next))
    /\ pc' = "updateSync"
    /\ UNCHANGED <<held, next, acked>>

UpdateSync ==
    /\ pc = "updateSync"
    /\ Fsync
    /\ pc' = "gate"
    /\ UNCHANGED <<held, next, acked>>

\* The record must still be the expected one before it is replaced.
Rename ==
    /\ pc = "gate"
    /\ IF Visible.main = held
       THEN Change(Directory(next, NoRecord)) /\ pc' = "renameSync"
       ELSE UNCHANGED journal /\ pc' = "idle"
    /\ UNCHANGED <<held, next, acked>>

RenameUnsynced ==
    /\ pc = "renameSync"
    /\ held' = next /\ acked' = next
    /\ pc' = "ready"
    /\ UNCHANGED <<journal, next>>   \* a slip: no fsync

RenameSync ==
    /\ pc = "renameSync"
    /\ Fsync
    /\ held' = next /\ acked' = next
    /\ pc' = "ready"
    /\ UNCHANGED next

-----------------------------------------------------------------------------
Forget == pc' = "idle" /\ held' = NoRecord /\ next' = NoRecord /\ UNCHANGED acked

\* The command ends, is killed, or gives up after an error.
Leave == pc # "idle" /\ Forget /\ UNCHANGED journal

PowerLoss ==
    /\ \E durable \in ToSet(journal) : journal' = << durable >>
    /\ Forget

StoreNext ==
    /\ \/ Open \/ Settle \/ SettleSync
       \/ Begin \/ BeginFill \/ BeginSync
       \/ Update \/ UpdateFill \/ UpdateSync \/ Rename \/ RenameSync
       \/ Leave \/ PowerLoss
    /\ UNCHANGED unnamed

StoreSpec == StoreInit /\ [][StoreNext]_storeVars

-----------------------------------------------------------------------------
(* Properties                                                              *)

\* A file cut short is not a record: the reader finds none.
ReadableMain == IF Visible.main = Partial THEN NoRecord ELSE Visible.main

Atomic == INSTANCE AtomicRecord WITH value <- ReadableMain, acknowledged <- acked

\* Through every kill and loss of power the store is the atomic record: it
\* moves by authorized steps and never takes back what a command was told.
StoreIsAtomic == Atomic!AtomicSpec
=============================================================================
