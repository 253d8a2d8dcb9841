--------------------------- MODULE DurableFilesProofs ---------------------------
(***************************************************************************)
(* Proofs about the two protocols that keep a file durable by a temporary, *)
(* an fsync and a rename: the operation record of catalog-publish and the  *)
(* evidence of catalog-wizard.                                             *)
(*                                                                         *)
(* The operation store implements the atomic record, for every number of   *)
(* assets, broker identities and release ids, and however long the journal *)
(* grows before an fsync.  A loss of power may bring back any directory of *)
(* the journal, so the invariant speaks of all of them: each shows the     *)
(* visible record or the acknowledged one, and one that still has a        *)
(* temporary shows the latter.                                             *)
(*                                                                         *)
(* The evidence, for every size of the files and any number of faults and  *)
(* edits, is backed: that a file is there when the mark is depends on the  *)
(* order in which they are written, so the invariant says for each file    *)
(* under way which are already safe from a loss of power.                  *)
(***************************************************************************)
EXTENDS OperationStore, EvidenceFiles, TLAPS

-----------------------------------------------------------------------------
(* The operation record                                                    *)

Contents == RemoteOperation \cup {NoRecord, Partial}
Steps    == {"idle", "settle", "settleSync", "ready", "beginFill", "beginSync",
             "updateFill", "updateSync", "gate", "renameSync"}

\* The record a reader would find in a directory.
Readable(directory) == IF directory.main = Partial THEN NoRecord ELSE directory.main

TypeOK ==
    /\ unnamed \in BOOLEAN
    /\ journal \in Seq([main : Contents, temp : Contents]) /\ journal # << >>
    /\ pc \in Steps
    /\ held \in RemoteOperation \cup {NoRecord}
    /\ next \in RemoteOperation \cup {NoRecord}
    /\ acked \in RemoteOperation \cup {NoRecord}

\* Any directory of the journal may be the one that survives.
JournalInv ==
    \A i \in DOMAIN journal :
       /\ Readable(journal[i]) \in {acked, ReadableMain}
       /\ journal[i].temp # NoRecord => Readable(journal[i]) = acked

Updating == {"updateFill", "updateSync", "gate"}

\* Where a command is, the directory it has before it.
PlaceInv ==
    /\ pc = "settleSync" => Visible.main # Partial /\ Visible.temp = NoRecord
    /\ pc = "ready" =>
          Visible = Directory(held, NoRecord) /\ held = acked /\ Len(journal) = 1
    /\ pc \in {"beginFill", "beginSync"} =>
          acked = NoRecord /\ \E pins \in Pins : next = InitialOperation(pins)
    /\ pc = "beginFill" => Visible = Directory(Partial, NoRecord)
    /\ pc = "beginSync" => Visible = Directory(next, NoRecord)
    /\ pc \in Updating =>
          /\ held # NoRecord /\ held = acked /\ Visible.main = held
          /\ next # NoRecord /\ SchemaAuthorizedNext(held, next)
    /\ pc = "renameSync" => next # NoRecord /\ Visible = Directory(next, NoRecord)

Inv == TypeOK /\ JournalInv /\ PlaceInv

\* What the abstract record does meanwhile.
AtomicMove == [Atomic!AtomicNext]_<<ReadableMain, acked>>

-----------------------------------------------------------------------------
(* Directories and journals                                                *)

Directories == [main : Contents, temp : Contents]

LEMMA DirectoryFields ==
    ASSUME NEW main \in Contents, NEW temp \in Contents
    PROVE  /\ Directory(main, temp) \in Directories
           /\ Directory(main, temp).main = main /\ Directory(main, temp).temp = temp
  BY DEF Directory, Directories

LEMMA LastTyped ==
    ASSUME NEW S, NEW s \in Seq(S), s # << >>
    PROVE  /\ Len(s) \in DOMAIN s /\ Last(s) = s[Len(s)] /\ Last(s) \in S
           /\ Len(s) = 1 => DOMAIN s = {1}
  BY DEF Last

LEMMA LastAppended ==
    ASSUME NEW S, NEW s \in Seq(S), NEW e \in S
    PROVE  /\ Append(s, e) \in Seq(S) /\ Append(s, e) # << >> /\ Last(Append(s, e)) = e
           /\ \A i \in DOMAIN Append(s, e) :
                 Append(s, e)[i] = e \/ (i \in DOMAIN s /\ Append(s, e)[i] = s[i])
  BY DEF Last

LEMMA LastSingle ==
    ASSUME NEW S, NEW e \in S
    PROVE  /\ << e >> \in Seq(S) /\ << e >> # << >> /\ Last(<< e >>) = e
           /\ Len(<< e >>) = 1 /\ DOMAIN << e >> = {1} /\ << e >>[1] = e
  BY DEF Last

LEMMA VisibleTyped ==
    ASSUME Inv
    PROVE  /\ Visible \in Directories /\ Visible.main \in Contents /\ Visible.temp \in Contents
           /\ ReadableMain = Readable(Visible)
           /\ \E i \in DOMAIN journal : journal[i] = Visible
  <1>1. journal \in Seq(Directories) /\ journal # << >>
    BY DEF Inv, TypeOK, Directories
  <1>2. Visible \in Directories /\ \E i \in DOMAIN journal : journal[i] = Visible
    BY <1>1, LastTyped DEF Visible
  <1>3. QED
    BY <1>2 DEF Directories, ReadableMain, Readable

\* A new directory state that shows the same record as before, or the first
\* one that shows another than the acknowledged.
LEMMA ChangeJournal ==
    ASSUME Inv, NEW d \in Directories, Change(d), acked' = acked,
           Readable(d) = ReadableMain \/ ReadableMain = acked,
           d.temp # NoRecord => Readable(d) = acked
    PROVE  /\ journal' \in Seq(Directories) /\ journal' # << >>
           /\ Visible' = d /\ ReadableMain' = Readable(d) /\ JournalInv'
  <1>1. journal \in Seq(Directories) /\ journal' = Append(journal, d)
    BY DEF Inv, TypeOK, Directories, Change
  <1>2. /\ journal' \in Seq(Directories) /\ journal' # << >> /\ Visible' = d
        /\ \A i \in DOMAIN journal' :
              journal'[i] = d \/ (i \in DOMAIN journal /\ journal'[i] = journal[i])
    BY <1>1, LastAppended DEF Visible
  <1>3. ReadableMain' = Readable(d)
    BY <1>2 DEF ReadableMain, Readable
  <1>4. ASSUME NEW i \in DOMAIN journal'
        PROVE  /\ Readable(journal'[i]) \in {acked, Readable(d)}
               /\ journal'[i].temp # NoRecord => Readable(journal'[i]) = acked
    <2>1. CASE journal'[i] = d
      BY <2>1
    <2>2. CASE i \in DOMAIN journal /\ journal'[i] = journal[i]
      BY <2>2 DEF Inv, JournalInv
    <2>3. QED
      BY <1>2, <2>1, <2>2
  <1>5. JournalInv'
    BY <1>3, <1>4 DEF JournalInv, Readable
  <1>6. QED
    BY <1>2, <1>3, <1>5

\* The journal that is left when one directory is all there is.
LEMMA OneDirectory ==
    ASSUME NEW d \in Directories, journal' = << d >>,
           d.temp # NoRecord => Readable(d) = acked'
    PROVE  /\ journal' \in Seq(Directories) /\ journal' # << >> /\ Len(journal') = 1
           /\ Visible' = d /\ ReadableMain' = Readable(d) /\ JournalInv'
  <1>1. /\ journal' \in Seq(Directories) /\ journal' # << >> /\ Len(journal') = 1
        /\ Visible' = d /\ DOMAIN journal' = {1} /\ journal'[1] = d
    BY LastSingle DEF Visible
  <1>2. ReadableMain' = Readable(d)
    BY <1>1 DEF ReadableMain, Readable
  <1>3. JournalInv'
    BY <1>1, <1>2 DEF JournalInv, Readable
  <1>4. QED
    BY <1>1, <1>2, <1>3

-----------------------------------------------------------------------------
(* The moves of the abstract record                                        *)

\* The instance's definitions are those of the store's own records.
LEMMA SameRecords ==
    /\ \A old, new : Atomic!SchemaAuthorizedNext(old, new) <=> SchemaAuthorizedNext(old, new)
    /\ \A pins : Atomic!InitialOperation(pins) = InitialOperation(pins)
  <1>1. ASSUME NEW old, NEW new
        PROVE  Atomic!SchemaAuthorizedNext(old, new) <=> SchemaAuthorizedNext(old, new)
    <2>1. Atomic!SameOperation(old, new) <=> SameOperation(old, new)
      BY DEF Atomic!SameOperation, SameOperation, Atomic!None, None, Atomic!IsPrefix, IsPrefix
    <2>2. Atomic!ObservationStep(old, new) <=> ObservationStep(old, new)
      BY DEF Atomic!ObservationStep, ObservationStep
    <2>3. Atomic!UncertainStep(old, new) <=> UncertainStep(old, new)
      BY DEF Atomic!UncertainStep, UncertainStep
    <2>4. Atomic!PhaseStep(old, new) <=> PhaseStep(old, new)
      <3>1. Atomic!OperationPhaseShape(new) <=> OperationPhaseShape(new)
        BY DEF Atomic!OperationPhaseShape, OperationPhaseShape, Atomic!None, None
      <3>2. QED
        BY <3>1 DEF Atomic!PhaseStep, PhaseStep, Atomic!None, None
    <2>5. QED
      BY <2>1, <2>2, <2>3, <2>4 DEF Atomic!SchemaAuthorizedNext, SchemaAuthorizedNext
  <1>2. ASSUME NEW pins
        PROVE  Atomic!InitialOperation(pins) = InitialOperation(pins)
    BY DEF Atomic!InitialOperation, InitialOperation, Atomic!None, None
  <1>3. QED
    BY <1>1, <1>2

LEMMA Stutter ==
    ASSUME ReadableMain' = ReadableMain, acked' = acked
    PROVE  AtomicMove
  BY DEF AtomicMove

LEMMA MoveAcknowledge ==
    ASSUME ReadableMain' = ReadableMain, acked' = ReadableMain
    PROVE  AtomicMove
  BY DEF AtomicMove, Atomic!AtomicNext, Atomic!Acknowledge

LEMMA MoveUndo ==
    ASSUME ReadableMain' = acked, acked' = acked
    PROVE  AtomicMove
  BY DEF AtomicMove, Atomic!AtomicNext, Atomic!Undo

LEMMA MoveFirst ==
    ASSUME ReadableMain = NoRecord, acked = NoRecord, acked' = acked,
           NEW pins \in Pins, ReadableMain' = InitialOperation(pins)
    PROVE  AtomicMove
  BY SameRecords DEF AtomicMove, Atomic!AtomicNext, Atomic!Write, Atomic!AtomicStep

LEMMA MoveNext ==
    ASSUME ReadableMain = acked, ReadableMain # NoRecord, acked' = acked,
           SchemaAuthorizedNext(ReadableMain, ReadableMain')
    PROVE  AtomicMove
  BY SameRecords DEF AtomicMove, Atomic!AtomicNext, Atomic!Write, Atomic!AtomicStep

-----------------------------------------------------------------------------
(* Each step of the store keeps the invariant and is a step of the record  *)

LEMMA InitialTyped ==
    ASSUME NEW pins \in Pins
    PROVE  /\ InitialOperation(pins) \in RemoteOperation
           /\ InitialOperation(pins) # NoRecord /\ InitialOperation(pins) # Partial
  <1>1. InitialOperation(pins) \in RemoteOperation
    BY AssetCountAssumption DEF InitialOperation, RemoteOperation, None, Phases
  <1>2. QED
    BY <1>1, StoreAssumption

LEMMA OpenMoves ==
    ASSUME Inv, Open, UNCHANGED unnamed
    PROVE  Inv' /\ AtomicMove
  <1>1. /\ UNCHANGED <<journal, held, next, acked, unnamed, ReadableMain, Visible>>
        /\ pc' = "settle"
    BY DEF Open, ReadableMain, Visible
  <1>2. TypeOK' /\ JournalInv' /\ PlaceInv'
    BY <1>1 DEF Inv, TypeOK, JournalInv, PlaceInv, Steps, Updating
  <1>3. QED
    BY <1>1, <1>2, Stutter DEF Inv

\* What settlement promotes is the acknowledged record's authorized successor,
\* or the first record of an operation.
LEMMA SettleMoves ==
    ASSUME Inv, Settle, UNCHANGED unnamed
    PROVE  Inv' /\ AtomicMove
  <1> DEFINE main == Visible.main
             temp == Visible.temp
  <1>1. /\ main \in Contents /\ temp \in Contents /\ Visible \in Directories
        /\ ReadableMain = Readable(Visible)
        /\ temp # NoRecord => ReadableMain = acked
    BY VisibleTyped DEF Inv, JournalInv
  <1>2. UNCHANGED <<held, next, acked, unnamed>>
    BY DEF Settle
  <1>3. CASE Decision \in {"nothing", "refuse"}
    <2>1. UNCHANGED <<journal, Visible, ReadableMain>>
      BY <1>3 DEF Settle, Visible, ReadableMain
    <2>2. /\ pc' \in Steps /\ pc' \in {"idle", "settleSync"}
          /\ pc' = "settleSync" => main # Partial /\ temp = NoRecord
      BY <1>3, <2>1 DEF Settle, Decision, Legible, SettleDecision, Steps
    <2>3. PlaceInv'
      BY <2>1, <2>2 DEF PlaceInv, Updating
    <2>4. TypeOK'
      BY <1>2, <2>1, <2>2 DEF Inv, TypeOK
    <2>5. JournalInv'
      BY <1>2, <2>1 DEF Inv, JournalInv, Readable
    <2>6. QED
      BY <1>2, <2>1, <2>3, <2>4, <2>5, Stutter DEF Inv
  <1>4. CASE Decision = "discard"
    <2>1. /\ Change(Directory(main, NoRecord)) /\ pc' = "settleSync"
          /\ main # Partial
      BY <1>4 DEF Settle, Decision, Legible
    <2>2. /\ Directory(main, NoRecord) \in Directories
          /\ Directory(main, NoRecord).main = main /\ Directory(main, NoRecord).temp = NoRecord
      BY <1>1, DirectoryFields DEF Contents
    <2>3. Readable(Directory(main, NoRecord)) = ReadableMain
      BY <1>1, <2>2 DEF Readable
    <2>4. /\ journal' \in Seq(Directories) /\ journal' # << >> /\ JournalInv'
          /\ Visible' = Directory(main, NoRecord) /\ ReadableMain' = ReadableMain
      BY <1>2, <2>1, <2>2, <2>3, ChangeJournal
    <2>5. TypeOK' /\ PlaceInv'
      BY <1>2, <2>1, <2>2, <2>4 DEF Inv, TypeOK, Directories, PlaceInv, Steps, Updating
    <2>6. QED
      BY <1>2, <2>4, <2>5, Stutter DEF Inv
  <1>5. CASE Decision = "promote"
    <2>1. /\ Change(Directory(temp, NoRecord)) /\ pc' = "settleSync"
          /\ main # Partial /\ temp # Partial
      BY <1>5 DEF Settle, Decision, Legible
    <2>2. SettleDecision(main, temp, NoRecord, TRUE) = "promote"
      BY <1>5, <2>1 DEF Decision, Legible
    <2>3. /\ temp # NoRecord
          /\ main = NoRecord => temp = InitialOperation(temp.operation)
          /\ main # NoRecord => SchemaAuthorizedNext(main, temp)
      BY <2>2 DEF SettleDecision
    <2>4. temp \in RemoteOperation /\ temp.operation \in Pins
      BY <1>1, <2>1, <2>3 DEF Contents, RemoteOperation
    <2>5. /\ Directory(temp, NoRecord) \in Directories
          /\ Directory(temp, NoRecord).main = temp /\ Directory(temp, NoRecord).temp = NoRecord
      BY <1>1, DirectoryFields DEF Contents
    <2>6. Readable(Directory(temp, NoRecord)) = temp /\ ReadableMain = acked /\ ReadableMain = main
      BY <1>1, <2>1, <2>3, <2>5 DEF Readable
    <2>7. /\ journal' \in Seq(Directories) /\ journal' # << >> /\ JournalInv'
          /\ Visible' = Directory(temp, NoRecord) /\ ReadableMain' = temp
      BY <1>2, <2>1, <2>5, <2>6, ChangeJournal
    <2>8. TypeOK' /\ PlaceInv'
      BY <1>2, <2>1, <2>5, <2>7 DEF Inv, TypeOK, Directories, PlaceInv, Steps, Updating
    <2>9. AtomicMove
      BY <1>2, <2>3, <2>4, <2>6, <2>7, MoveFirst, MoveNext
    <2>10. QED
      BY <2>7, <2>8, <2>9 DEF Inv
  <1>6. Decision \in {"nothing", "refuse", "discard", "promote"}
    BY DEF Decision, SettleDecision
  <1>7. QED
    BY <1>3, <1>4, <1>5, <1>6

\* A directory made durable is the one that was visible.
LEMMA FsyncJournal ==
    ASSUME Inv, Fsync, Visible.temp # NoRecord => ReadableMain = acked'
    PROVE  /\ journal' \in Seq(Directories) /\ journal' # << >> /\ Len(journal') = 1
           /\ Visible' = Visible /\ ReadableMain' = ReadableMain /\ JournalInv'
  BY VisibleTyped, OneDirectory DEF Fsync

LEMMA SettleSyncMoves ==
    ASSUME Inv, SettleSync, UNCHANGED unnamed
    PROVE  Inv' /\ AtomicMove
  <1>1. /\ Visible.main # Partial /\ Visible.temp = NoRecord /\ pc' = "ready"
        /\ held' = Visible.main /\ acked' = Visible.main /\ next' = next /\ Fsync
    BY DEF SettleSync, Inv, PlaceInv
  <1>2. /\ Visible \in Directories /\ Visible.main \in RemoteOperation \cup {NoRecord}
        /\ ReadableMain = Visible.main
    BY <1>1, VisibleTyped DEF Contents, Readable
  <1>3. /\ journal' \in Seq(Directories) /\ journal' # << >> /\ Len(journal') = 1
        /\ Visible' = Visible /\ ReadableMain' = ReadableMain /\ JournalInv'
    BY <1>1, FsyncJournal
  <1>4. Visible = Directory(held', NoRecord)
    BY <1>1, <1>2 DEF Directories, Directory
  <1>5. TypeOK' /\ PlaceInv'
    BY <1>1, <1>2, <1>3, <1>4 DEF Inv, TypeOK, PlaceInv, Directories, Steps, Updating
  <1>6. AtomicMove
    BY <1>1, <1>2, <1>3, MoveAcknowledge
  <1>7. QED
    BY <1>3, <1>5, <1>6 DEF Inv

LEMMA BeginMoves ==
    ASSUME Inv, Begin, UNCHANGED unnamed
    PROVE  Inv' /\ AtomicMove
  <1>1. PICK pins \in Pins : next' = InitialOperation(pins)
    BY DEF Begin
  <1>2. next' \in RemoteOperation /\ next' # Partial /\ next' # NoRecord
    BY <1>1, InitialTyped
  <1>3. /\ Visible = Directory(NoRecord, NoRecord) /\ acked = NoRecord
        /\ held = NoRecord /\ UNCHANGED <<held, acked>>
    BY DEF Begin, Inv, PlaceInv
  <1>4. ReadableMain = NoRecord
    BY <1>3, VisibleTyped, DirectoryFields, StoreAssumption DEF Readable, Contents
  <1>5. CASE unnamed
    <2>1. Change(Directory(next', NoRecord)) /\ pc' = "beginSync"
      BY <1>5 DEF Begin, Link
    <2>2. /\ Directory(next', NoRecord) \in Directories
          /\ Readable(Directory(next', NoRecord)) = next'
          /\ Directory(next', NoRecord).temp = NoRecord
      BY <1>2, DirectoryFields DEF Contents, Readable
    <2>3. /\ journal' \in Seq(Directories) /\ journal' # << >> /\ JournalInv'
          /\ Visible' = Directory(next', NoRecord) /\ ReadableMain' = next'
      BY <1>3, <1>4, <2>1, <2>2, ChangeJournal
    <2>4. TypeOK' /\ PlaceInv'
      BY <1>1, <1>2, <1>3, <2>1, <2>3 DEF Inv, TypeOK, PlaceInv, Directories, Steps, Updating
    <2>5. AtomicMove
      BY <1>1, <1>3, <1>4, <2>3, MoveFirst
    <2>6. QED
      BY <2>3, <2>4, <2>5 DEF Inv
  <1>6. CASE ~unnamed
    <2>1. Change(Directory(Partial, NoRecord)) /\ pc' = "beginFill"
      BY <1>6 DEF Begin, Link
    <2>2. /\ Directory(Partial, NoRecord) \in Directories
          /\ Readable(Directory(Partial, NoRecord)) = NoRecord
          /\ Directory(Partial, NoRecord).temp = NoRecord
      BY DirectoryFields DEF Contents, Readable
    <2>3. /\ journal' \in Seq(Directories) /\ journal' # << >> /\ JournalInv'
          /\ Visible' = Directory(Partial, NoRecord) /\ ReadableMain' = NoRecord
      BY <1>3, <1>4, <2>1, <2>2, ChangeJournal
    <2>4. TypeOK' /\ PlaceInv'
      BY <1>1, <1>2, <1>3, <2>1, <2>3 DEF Inv, TypeOK, PlaceInv, Directories, Steps, Updating
    <2>5. QED
      BY <1>3, <1>4, <2>3, <2>4, Stutter DEF Inv
  <1>7. QED
    BY <1>5, <1>6

LEMMA BeginFillMoves ==
    ASSUME Inv, BeginFill, UNCHANGED unnamed
    PROVE  Inv' /\ AtomicMove
  <1>1. PICK pins \in Pins : next = InitialOperation(pins)
    BY DEF BeginFill, Inv, PlaceInv
  <1>2. next \in RemoteOperation /\ next # Partial
    BY <1>1, InitialTyped
  <1>3. /\ Visible = Directory(Partial, NoRecord) /\ acked = NoRecord
        /\ UNCHANGED <<held, next, acked>> /\ pc' = "beginSync"
        /\ Change(Directory(next, NoRecord))
    BY DEF BeginFill, Inv, PlaceInv
  <1>4. ReadableMain = NoRecord
    BY <1>3, VisibleTyped, DirectoryFields DEF Readable, Contents
  <1>5. /\ Directory(next, NoRecord) \in Directories
        /\ Readable(Directory(next, NoRecord)) = next
        /\ Directory(next, NoRecord).temp = NoRecord
    BY <1>2, DirectoryFields DEF Contents, Readable
  <1>6. /\ journal' \in Seq(Directories) /\ journal' # << >> /\ JournalInv'
        /\ Visible' = Directory(next, NoRecord) /\ ReadableMain' = next
    BY <1>3, <1>4, <1>5, ChangeJournal
  <1>7. TypeOK' /\ PlaceInv'
    BY <1>1, <1>3, <1>6 DEF Inv, TypeOK, PlaceInv, Directories, Steps, Updating
  <1>8. AtomicMove
    BY <1>1, <1>3, <1>4, <1>6, MoveFirst
  <1>9. QED
    BY <1>6, <1>7, <1>8 DEF Inv

\* Both a first record and a replacement are acknowledged once durable.
LEMMA SyncMoves ==
    ASSUME Inv, BeginSync \/ RenameSync, UNCHANGED unnamed
    PROVE  Inv' /\ AtomicMove
  <1>1. /\ Visible = Directory(next, NoRecord) /\ next \in RemoteOperation
        /\ held' = next /\ acked' = next /\ next' = next /\ pc' = "ready" /\ Fsync
    BY InitialTyped DEF BeginSync, RenameSync, Inv, PlaceInv, TypeOK
  <1>2. next # Partial /\ Visible.main = next /\ Visible.temp = NoRecord
    BY <1>1, DirectoryFields, StoreAssumption DEF Contents
  <1>3. ReadableMain = next
    BY <1>2, VisibleTyped DEF Readable
  <1>4. /\ journal' \in Seq(Directories) /\ journal' # << >> /\ Len(journal') = 1
        /\ Visible' = Visible /\ ReadableMain' = ReadableMain /\ JournalInv'
    BY <1>1, <1>2, FsyncJournal
  <1>5. TypeOK' /\ PlaceInv'
    BY <1>1, <1>4 DEF Inv, TypeOK, PlaceInv, Directories, Steps, Updating
  <1>6. AtomicMove
    BY <1>1, <1>3, <1>4, MoveAcknowledge
  <1>7. QED
    BY <1>4, <1>5, <1>6 DEF Inv

\* What update_operation makes of a record is a record.
LEMMA UpdateTyped ==
    ASSUME NEW op \in RemoteOperation, NEW release \in Nat,
           NEW verified \in 0..AssetCount, NEW requested \in Phases
    PROVE  UpdateOperation(op, release, verified, requested) \in RemoteOperation
  <1> DEFINE reached == Larger(op.verified_assets, verified)
  <1>1. reached \in 0..AssetCount
    BY DEF Larger, RemoteOperation
  <1>2. ASSUME requested # "uncertain", op.phase = "uncertain"
        PROVE  ResumedPhase(op, requested, reached) \in Phases
    BY <1>1, <1>2 DEF ResumedPhase, Phases, RemoteOperation
  <1>3. MonotonicPhase(op, requested, reached) \in Phases
    BY <1>2 DEF MonotonicPhase, Phases, RemoteOperation
  <1>4. QED
    BY <1>1, <1>3 DEF UpdateOperation, RemoteOperation

\* The replacement update_operation asks for is a record.
LEMMA UpdateNext ==
    ASSUME Inv, Update
    PROVE  /\ next' \in RemoteOperation /\ next' # NoRecord /\ next' # Partial
           /\ SchemaAuthorizedNext(held, next')
  <1>1. held \in RemoteOperation
    BY DEF Update, Inv, TypeOK
  <1>2. PICK release \in ReleaseIds \cup {None}, verified \in 0..AssetCount, phase \in Phases :
           next' = UpdateOperation(held, release, verified, phase)
    BY DEF Update
  <1>3. release \in Nat
    BY <1>2, StoreAssumption DEF None
  <1>4. next' \in RemoteOperation
    BY <1>1, <1>2, <1>3, UpdateTyped
  <1>5. QED
    BY <1>4, StoreAssumption DEF Update

\* A temporary beside the acknowledged record, whole or cut short.
LEMMA LinkTemporary ==
    ASSUME Inv, held \in RemoteOperation, held = acked, Visible.main = held,
           NEW temp \in Contents, Change(Directory(Visible.main, temp)),
           UNCHANGED <<held, acked>>
    PROVE  /\ journal' \in Seq(Directories) /\ journal' # << >> /\ JournalInv'
           /\ Visible'.main = held /\ AtomicMove
  <1>1. Visible.main # Partial /\ Visible.main \in Contents
    BY StoreAssumption, VisibleTyped
  <1>2. ReadableMain = acked
    BY <1>1, VisibleTyped DEF Readable
  <1>3. /\ Directory(Visible.main, temp) \in Directories
        /\ Directory(Visible.main, temp).main = held
        /\ Readable(Directory(Visible.main, temp)) = acked
    BY <1>1, DirectoryFields DEF Readable
  <1>4. /\ journal' \in Seq(Directories) /\ journal' # << >> /\ JournalInv'
        /\ Visible' = Directory(Visible.main, temp) /\ ReadableMain' = acked
    BY <1>2, <1>3, ChangeJournal
  <1>5. QED
    BY <1>2, <1>3, <1>4, Stutter

LEMMA UpdateMoves ==
    ASSUME Inv, Update \/ UpdateFill, UNCHANGED unnamed
    PROVE  Inv' /\ AtomicMove
  <1>1. /\ held \in RemoteOperation /\ held = acked /\ Visible.main = held
        /\ next' \in RemoteOperation /\ next' # NoRecord /\ SchemaAuthorizedNext(held, next')
        /\ UNCHANGED <<held, acked>> /\ pc' \in {"updateFill", "updateSync"}
    <2>1. CASE Update
      <3>1. held = acked /\ Visible = Directory(held, NoRecord) /\ held \in RemoteOperation
        BY <2>1 DEF Update, Inv, PlaceInv, TypeOK
      <3>2. Visible.main = held
        BY <3>1, DirectoryFields DEF Contents
      <3>3. QED
        BY <2>1, <3>1, <3>2, UpdateNext DEF Update
    <2>2. CASE UpdateFill
      BY <2>2 DEF UpdateFill, Inv, PlaceInv, TypeOK, Updating
    <2>3. QED
      BY <2>1, <2>2
  <1>2. PICK temp \in Contents : Change(Directory(Visible.main, temp))
    <2>1. next' \in Contents /\ Partial \in Contents
      BY <1>1 DEF Contents
    <2>2. QED
      BY <2>1 DEF Update, UpdateFill, Link
  <1>3. /\ journal' \in Seq(Directories) /\ journal' # << >> /\ JournalInv'
        /\ Visible'.main = held /\ AtomicMove
    BY <1>1, <1>2, LinkTemporary
  <1>4. TypeOK'
    BY <1>1, <1>3 DEF Inv, TypeOK, Directories, Steps
  <1>5. PlaceInv'
    BY <1>1, <1>3, StoreAssumption DEF PlaceInv, Updating
  <1>6. QED
    BY <1>3, <1>4, <1>5 DEF Inv

LEMMA UpdateSyncMoves ==
    ASSUME Inv, UpdateSync, UNCHANGED unnamed
    PROVE  Inv' /\ AtomicMove
  <1>1. /\ held # NoRecord /\ held = acked /\ Visible.main = held
        /\ next # NoRecord /\ SchemaAuthorizedNext(held, next)
        /\ UNCHANGED <<held, next, acked>> /\ pc' = "gate" /\ Fsync
    BY DEF UpdateSync, Inv, PlaceInv, Updating
  <1>2. ReadableMain = acked
    BY <1>1, VisibleTyped, StoreAssumption DEF Readable, Inv, TypeOK
  <1>3. /\ journal' \in Seq(Directories) /\ journal' # << >>
        /\ Visible' = Visible /\ ReadableMain' = ReadableMain /\ JournalInv'
    BY <1>1, <1>2, FsyncJournal
  <1>4. TypeOK'
    BY <1>1, <1>3 DEF Inv, TypeOK, Directories, Steps
  <1>5. PlaceInv'
    BY <1>1, <1>3 DEF PlaceInv, Updating
  <1>6. QED
    BY <1>1, <1>3, <1>4, <1>5, Stutter DEF Inv

LEMMA RenameMoves ==
    ASSUME Inv, Rename, UNCHANGED unnamed
    PROVE  Inv' /\ AtomicMove
  <1>1. /\ held \in RemoteOperation /\ held = acked /\ Visible.main = held
        /\ next \in RemoteOperation /\ next # NoRecord /\ SchemaAuthorizedNext(held, next)
        /\ UNCHANGED <<held, next, acked>>
    BY DEF Rename, Inv, PlaceInv, Updating, TypeOK
  <1>2. pc' = "renameSync" /\ Change(Directory(next, NoRecord))
    BY <1>1 DEF Rename
  <1>3. ReadableMain = acked /\ ReadableMain = held /\ ReadableMain # NoRecord
    BY <1>1, VisibleTyped, StoreAssumption DEF Readable
  <1>4. /\ Directory(next, NoRecord) \in Directories
        /\ Readable(Directory(next, NoRecord)) = next
        /\ Directory(next, NoRecord).temp = NoRecord
    BY <1>1, DirectoryFields, StoreAssumption DEF Contents, Readable
  <1>5. /\ journal' \in Seq(Directories) /\ journal' # << >> /\ JournalInv'
        /\ Visible' = Directory(next, NoRecord) /\ ReadableMain' = next
    BY <1>1, <1>2, <1>3, <1>4, ChangeJournal
  <1>6. TypeOK'
    BY <1>1, <1>2, <1>5 DEF Inv, TypeOK, Directories, Steps
  <1>7. PlaceInv'
    BY <1>1, <1>2, <1>5 DEF PlaceInv, Updating
  <1>8. AtomicMove
    BY <1>1, <1>3, <1>5, MoveNext
  <1>9. QED
    BY <1>5, <1>6, <1>7, <1>8 DEF Inv

-----------------------------------------------------------------------------
(* Kills and losses of power                                               *)

LEMMA LeaveMoves ==
    ASSUME Inv, Leave, UNCHANGED unnamed
    PROVE  Inv' /\ AtomicMove
  <1>1. /\ UNCHANGED <<journal, acked, unnamed, ReadableMain, Visible>>
        /\ pc' = "idle" /\ held' = NoRecord /\ next' = NoRecord
    BY DEF Leave, Forget, ReadableMain, Visible
  <1>2. TypeOK'
    BY <1>1 DEF Inv, TypeOK, Steps
  <1>3. JournalInv'
    BY <1>1 DEF Inv, JournalInv, Readable
  <1>4. PlaceInv'
    BY <1>1 DEF PlaceInv, Updating
  <1>5. QED
    BY <1>1, <1>2, <1>3, <1>4, Stutter DEF Inv

\* Whichever directory survives, it shows what is visible or what a command was
\* told, and a temporary in it is an update of the latter.
LEMMA PowerLossMoves ==
    ASSUME Inv, PowerLoss, UNCHANGED unnamed
    PROVE  Inv' /\ AtomicMove
  <1>1. PICK i \in DOMAIN journal : journal' = << journal[i] >>
    BY DEF PowerLoss, ToSet
  <1>2. /\ journal[i] \in Directories /\ Readable(journal[i]) \in {acked, ReadableMain}
        /\ journal[i].temp # NoRecord => Readable(journal[i]) = acked
    <2>1. journal \in Seq(Directories)
      BY DEF Inv, TypeOK, Directories
    <2>2. journal[i] \in Directories
      BY <2>1
    <2>3. QED
      BY <2>2 DEF Inv, JournalInv
  <1>3. /\ acked' = acked /\ pc' = "idle" /\ held' = NoRecord /\ next' = NoRecord
    BY DEF PowerLoss, Forget
  <1>4. /\ journal' \in Seq(Directories) /\ journal' # << >>
        /\ ReadableMain' = Readable(journal[i]) /\ JournalInv'
    BY <1>1, <1>2, <1>3, OneDirectory
  <1>5. TypeOK'
    BY <1>3, <1>4 DEF Inv, TypeOK, Steps, Directories
  <1>6. PlaceInv'
    BY <1>3 DEF PlaceInv, Updating
  <1>7. AtomicMove
    BY <1>2, <1>3, <1>4, MoveUndo, Stutter
  <1>8. QED
    BY <1>4, <1>5, <1>6, <1>7 DEF Inv

-----------------------------------------------------------------------------
(* Theorems                                                                *)

LEMMA InitStore == StoreInit => Inv /\ Atomic!AtomicInit
  <1> SUFFICES ASSUME StoreInit PROVE Inv /\ Atomic!AtomicInit
    OBVIOUS
  <1> DEFINE d == Directory(NoRecord, NoRecord)
  <1>1. d \in Directories /\ d.main = NoRecord /\ d.temp = NoRecord
    BY DirectoryFields DEF Contents
  <1>2. /\ journal = << d >> /\ journal \in Seq(Directories) /\ journal # << >>
        /\ Visible = d /\ DOMAIN journal = {1} /\ journal[1] = d
    BY <1>1, LastSingle DEF StoreInit, Visible
  <1>3. ReadableMain = NoRecord /\ acked = NoRecord /\ Readable(d) = NoRecord
    BY <1>1, <1>2 DEF ReadableMain, Readable, StoreInit
  <1>4. TypeOK
    BY <1>2 DEF StoreInit, TypeOK, Directories, Steps
  <1>5. JournalInv
    BY <1>1, <1>2, <1>3 DEF JournalInv
  <1>6. PlaceInv
    BY DEF StoreInit, PlaceInv, Updating
  <1>7. QED
    BY <1>3, <1>4, <1>5, <1>6 DEF Inv, Atomic!AtomicInit

LEMMA NextMoves ==
    ASSUME Inv, [StoreNext]_storeVars
    PROVE  Inv' /\ AtomicMove
  <1>1. CASE StoreNext
    BY <1>1, OpenMoves, SettleMoves, SettleSyncMoves, BeginMoves, BeginFillMoves, SyncMoves,
       UpdateMoves, UpdateSyncMoves, RenameMoves, LeaveMoves, PowerLossMoves, Zenon DEF StoreNext
  <1>2. CASE UNCHANGED storeVars
    <2>1. UNCHANGED <<unnamed, journal, pc, held, next, acked, ReadableMain, Visible>>
      BY <1>2 DEF storeVars, ReadableMain, Visible
    <2>2. TypeOK' /\ PlaceInv'
      BY <2>1 DEF Inv, TypeOK, PlaceInv
    <2>3. JournalInv'
      BY <2>1 DEF Inv, JournalInv, Readable
    <2>4. QED
      BY <2>1, <2>2, <2>3, Stutter DEF Inv
  <1>3. QED
    BY <1>1, <1>2

\* However commands are killed and power is lost, any directory that may come
\* back shows the visible record or the last one a command was told of.
THEOREM JournalIsConsistent == StoreSpec => []Inv
  <1>1. QED
    BY InitStore, NextMoves, PTL DEF StoreSpec

\* The temporary file, its link, the renames and the fsyncs amount to a single
\* record that moves by authorized steps, of which a loss of power undoes at most
\* the last, and never one that a command was told of.
THEOREM StoreImplementsRecord == StoreSpec => StoreIsAtomic
  <1>1. StoreInit => Atomic!AtomicInit
    BY InitStore
  <1>2. Inv /\ [StoreNext]_storeVars => [Atomic!AtomicNext]_(Atomic!atomicVars)
    BY NextMoves DEF AtomicMove, Atomic!atomicVars
  <1>3. QED
    BY <1>1, <1>2, JournalIsConsistent, PTL DEF StoreSpec, StoreIsAtomic, Atomic!AtomicSpec
-----------------------------------------------------------------------------
(* The evidence of a release                                               *)

Places    == {"none", "temporary", "name"}
FileState == [at : Places, past : SUBSET {"none", "temporary"}, len : 0..Size, synced : 0..Size]

\* What a file is by itself: the bytes that have the name are whole and synced,
\* and none is synced that is not there.
WellKept(record) ==
    /\ record \in FileState
    /\ record.synced <= record.len
    /\ record.at = "none" => record = NoFile
    /\ record.at = "name" => record.len = Size /\ record.synced = Size

\* What no loss of power takes any more.
Done(f)    == Named(f) /\ file[f].past = {} /\ file[f].synced = Size
Settled(f) == Done(f) \/ f \in edited

OutputQueues == {Outputs, Tail(Outputs), Tail(Tail(Outputs))}
Queues       == {Copies, Tail(Copies), Mark} \cup OutputQueues

EvidenceTyped ==
    /\ file \in [Files -> FileState] /\ \A f \in Files : WellKept(file[f])
    /\ foreign \subseteq Names(Outputs)
    /\ wizard \in {"generate", "begin", "fill", "rename", "sync", "ask", "idle"}
    /\ answered \in BOOLEAN
    /\ IF wizard \in {"begin", "fill", "rename", "sync"} THEN queue \in Queues ELSE queue = << >>

\* What the next step says of the file under way.
UnderWay ==
    /\ wizard = "fill"   => file[F].at # "none"
    /\ wizard = "rename" => file[F].at = "temporary" /\ file[F].synced = Size
    /\ wizard = "sync"   => Named(F)

\* What must have been written before it.
Copied   == \A f \in Names(Copies) : Done(f)
Backed   == Copied /\ (answered => \A f \in Names(Outputs) : Settled(f))
Progress ==
    /\ queue = Tail(Copies) => Done(Copies[1])
    /\ wizard = "ask" => Copied
    /\ queue \in OutputQueues => Copied /\ answered /\ foreign = {}
    /\ queue = Tail(Outputs) => Settled(Outputs[1])
    /\ queue = Tail(Tail(Outputs)) => Settled(Outputs[1]) /\ Settled(Outputs[2])
    /\ queue = Mark => Backed

\* The mark, and what the wizard may still do once it is there.
MarkInv ==
    Named(Mark[1]) => Backed /\ (wizard = "idle" \/ (wizard = "sync" /\ queue = Mark))

ChainInv ==
    (\E f \in Files : file[f].at # "none") \/ queue # << >> \/ wizard = "ask" => ReceiptsValid

EvidenceInv == EvidenceTyped /\ UnderWay /\ Progress /\ MarkInv /\ ChainInv

\* The files, and the queues they are written from.
LEMMA FileNames ==
    /\ Names(Copies) = {Copies[1], Copies[2]}
    /\ Names(Outputs) = {Outputs[1], Outputs[2], Outputs[3]}
    /\ Copies[1] = "publication copy" /\ Copies[2] = "latest copy"
    /\ Outputs[1] = "publication evidence" /\ Outputs[2] = "latest evidence"
    /\ Outputs[3] = "release document"
    /\ Mark[1] = "evidence complete"
    /\ Copies[Len(Copies)] = Copies[2] /\ Outputs[Len(Outputs)] = Outputs[3]
    /\ Files = Names(Copies) \cup Names(Outputs) \cup {Mark[1]}
  <1>1. /\ DOMAIN Copies = 1..2 /\ DOMAIN Outputs = 1..3 /\ DOMAIN Mark = 1..1
        /\ Len(Copies) = 2 /\ Len(Outputs) = 3
    BY DEF Copies, Outputs, Mark
  <1>2. /\ Names(Copies) = {Copies[1], Copies[2]}
        /\ Names(Outputs) = {Outputs[1], Outputs[2], Outputs[3]}
    BY <1>1 DEF Names
  <1>3. Files = Names(Copies) \cup Names(Outputs) \cup {Mark[1]}
    BY <1>1 DEF Files, Names
  <1>4. QED
    BY <1>1, <1>2, <1>3 DEF Copies, Outputs, Mark

LEMMA QueueHeads ==
    /\ Len(Copies) = 2 /\ Len(Tail(Copies)) = 1 /\ Tail(Copies)[1] = Copies[2]
    /\ Len(Outputs) = 3 /\ Len(Tail(Outputs)) = 2 /\ Len(Tail(Tail(Outputs))) = 1
    /\ Tail(Outputs)[1] = Outputs[2] /\ Tail(Tail(Outputs))[1] = Outputs[3]
    /\ Len(Mark) = 1
  BY DEF Copies, Outputs, Mark

LEMMA QueuesAreFull ==
    /\ Copies # << >> /\ Tail(Copies) # << >> /\ Mark # << >>
    /\ Outputs # << >> /\ Tail(Outputs) # << >> /\ Tail(Tail(Outputs)) # << >>
  BY DEF Copies, Outputs, Mark

LEMMA QueuesDiffer ==
    /\ Copies # Tail(Copies) /\ Copies \notin OutputQueues /\ Copies # Mark
    /\ Tail(Copies) \notin OutputQueues /\ Tail(Copies) # Mark /\ Mark \notin OutputQueues
    /\ Outputs # Tail(Outputs) /\ Outputs # Tail(Tail(Outputs))
    /\ Tail(Outputs) # Tail(Tail(Outputs))
    /\ << >> # Mark /\ << >> # Tail(Copies) /\ << >> \notin OutputQueues
  BY DEF Copies, Outputs, Mark, OutputQueues

LEMMA QueueMembers ==
    /\ Copies \in Queues /\ Tail(Copies) \in Queues /\ Mark \in Queues
    /\ OutputQueues \subseteq Queues /\ Outputs \in OutputQueues
    /\ Tail(Outputs) \in OutputQueues /\ Tail(Tail(Outputs)) \in OutputQueues
  BY DEF Queues, OutputQueues

\* Each queue is known by the file at its head.
LEMMA HeadIs ==
    ASSUME queue \in Queues
    PROVE  /\ F \in Files
           /\ queue = Copies <=> F = Copies[1]
           /\ queue = Tail(Copies) <=> F = Copies[2]
           /\ queue = Outputs <=> F = Outputs[1]
           /\ queue = Tail(Outputs) <=> F = Outputs[2]
           /\ queue = Tail(Tail(Outputs)) <=> F = Outputs[3]
           /\ queue = Mark <=> F = Mark[1]
           /\ queue \in OutputQueues <=> F \in Names(Outputs)
           /\ queue # << >>
  <1>1. \/ queue = Copies /\ F = Copies[1]
        \/ queue = Tail(Copies) /\ F = Copies[2]
        \/ queue = Outputs /\ F = Outputs[1]
        \/ queue = Tail(Outputs) /\ F = Outputs[2]
        \/ queue = Tail(Tail(Outputs)) /\ F = Outputs[3]
        \/ queue = Mark /\ F = Mark[1]
    BY QueueHeads DEF Queues, OutputQueues, F
  <1>2. queue # << >>
    BY <1>1, QueuesAreFull
  <1>3. /\ Copies[1] # Copies[2] /\ Mark[1] \notin Names(Copies) \cup Names(Outputs)
        /\ Names(Copies) \cap Names(Outputs) = {}
        /\ Outputs[1] # Outputs[2] /\ Outputs[1] # Outputs[3] /\ Outputs[2] # Outputs[3]
        /\ Names(Copies) = {Copies[1], Copies[2]}
        /\ Names(Outputs) = {Outputs[1], Outputs[2], Outputs[3]}
        /\ Files = Names(Copies) \cup Names(Outputs) \cup {Mark[1]}
    BY FileNames
  <1>4. /\ F = Copies[1] => queue = Copies
        /\ F = Copies[2] => queue = Tail(Copies)
        /\ F = Outputs[1] => queue = Outputs
        /\ F = Outputs[2] => queue = Tail(Outputs)
        /\ F = Outputs[3] => queue = Tail(Tail(Outputs))
        /\ F = Mark[1] => queue = Mark
    BY <1>1, <1>3
  <1>5. /\ queue = Copies => F = Copies[1]
        /\ queue = Tail(Copies) => F = Copies[2]
        /\ queue = Outputs => F = Outputs[1]
        /\ queue = Tail(Outputs) => F = Outputs[2]
        /\ queue = Tail(Tail(Outputs)) => F = Outputs[3]
        /\ queue = Mark => F = Mark[1]
    BY QueueHeads DEF F
  <1>6. QED
    BY <1>1, <1>2, <1>3, <1>4, <1>5 DEF OutputQueues

\* A step at one file leaves the others as safe as they were.
LEMMA OthersStay ==
    ASSUME EvidenceTyped, NEW f \in Files, NEW record \in FileState, WellKept(record),
           file' = [file EXCEPT ![f] = record], edited' = edited
    PROVE  /\ file' \in [Files -> FileState] /\ \A g \in Files : WellKept(file'[g])
           /\ file'[f] = record
           /\ \A g \in Files \ {f} :
                 file'[g] = file[g] /\ (Done(g) => Done(g)') /\ (Settled(g) => Settled(g)')
                 /\ (Named(g)' => Named(g))
  <1>1. /\ file' \in [Files -> FileState] /\ file'[f] = record
        /\ \A g \in Files \ {f} : file'[g] = file[g]
    BY DEF EvidenceTyped
  <1>2. \A g \in Files : WellKept(file'[g])
    BY <1>1 DEF EvidenceTyped
  <1>3. QED
    BY <1>1, <1>2 DEF Done, Settled, Named

\* A step at the file under way.
LEMMA StepAtFile ==
    ASSUME EvidenceInv, wizard \in {"begin", "fill", "rename"},
           NEW record \in FileState, WellKept(record), record.at # "none",
           file' = [file EXCEPT ![F] = record],
           UNCHANGED <<receipts, repository, answered, queue>>,
           wizard' \in {"fill", "rename", "sync"},
           wizard' = "rename" => record.at = "temporary" /\ record.synced = Size,
           wizard' = "sync" => record.at = "name",
           record.at = "name" => Named(F) \/ wizard' = "sync"
    PROVE  EvidenceInv'
  <1>1. queue \in Queues /\ EvidenceTyped
    BY DEF EvidenceInv, EvidenceTyped
  <1>2. F \in Files /\ F' = F /\ queue # << >>
    BY <1>1, HeadIs DEF F
  <1>3. /\ file' \in [Files -> FileState] /\ \A g \in Files : WellKept(file'[g])
        /\ file'[F] = record
        /\ \A g \in Files \ {F} :
              file'[g] = file[g] /\ (Done(g) => Done(g)') /\ (Settled(g) => Settled(g)')
              /\ (Named(g)' => Named(g))
    BY <1>1, <1>2, OthersStay DEF repository
  <1>4. EvidenceTyped'
    BY <1>1, <1>3 DEF EvidenceTyped, repository
  <1>5. UnderWay'
    BY <1>2, <1>3 DEF UnderWay, Named
  <1>6. \A g \in Names(Copies) : F # g => (Done(g) => Done(g)')
    BY <1>3, FileNames
  <1>7. \A g \in Names(Outputs) : F # g => (Settled(g) => Settled(g)')
    BY <1>3, FileNames
  <1>8. queue \in OutputQueues \cup {Mark} => (Copied => Copied')
    BY <1>1, <1>6, HeadIs, FileNames DEF Copied
  <1>9. Progress'
    <2>1. queue = Tail(Copies) => Done(Copies[1])'
      BY <1>1, <1>6, HeadIs, FileNames DEF EvidenceInv, Progress
    <2>2. queue \in OutputQueues => (Copied /\ answered /\ foreign = {})'
      BY <1>8 DEF EvidenceInv, Progress, repository
    <2>3. /\ queue = Tail(Outputs) => Settled(Outputs[1])'
          /\ queue = Tail(Tail(Outputs)) => Settled(Outputs[1])' /\ Settled(Outputs[2])'
      BY <1>1, <1>7, HeadIs, FileNames DEF EvidenceInv, Progress
    <2>4. queue = Mark => Backed'
      BY <1>1, <1>7, <1>8, HeadIs, FileNames DEF EvidenceInv, Progress, Backed
    <2>5. wizard' # "ask" /\ queue' = queue
      OBVIOUS
    <2>6. QED
      BY <2>1, <2>2, <2>3, <2>4, <2>5 DEF Progress
  <1>10. MarkInv'
    <2>1. ~Named(Mark[1])
      BY DEF EvidenceInv, MarkInv
    <2>2. Named(Mark[1])' => F = Mark[1] /\ wizard' = "sync"
      BY <1>2, <1>3, <2>1, FileNames DEF Named
    <2>3. F = Mark[1] => queue = Mark
      BY <1>1, HeadIs
    <2>4. queue = Mark => Backed'
      BY <1>9 DEF Progress
    <2>5. QED
      BY <2>2, <2>3, <2>4 DEF MarkInv
  <1>11. ChainInv'
    BY <1>2 DEF EvidenceInv, ChainInv, ReceiptsValid
  <1>12. QED
    BY <1>4, <1>5, <1>9, <1>10, <1>11 DEF EvidenceInv
\* A file that is not there has nothing to be completed.
LEMMA FreshFile ==
    /\ NoFile \in FileState /\ WellKept(NoFile) /\ NoFile.at = "none" /\ NoFile.len = 0
    /\ NoFile.past = {} /\ NoFile.synced = 0
  BY EvidenceAssumption DEF NoFile, FileState, Places, WellKept

\* A step that touches no file and starts none.
LEMMA StepNoFile ==
    ASSUME EvidenceInv, UNCHANGED <<receipts, file, foreign, edited>>,
           wizard' \in {"generate", "ask", "idle"}, queue' = << >>,
           wizard' = "ask" => wizard = "ask",
           answered' \in BOOLEAN,
           Named(Mark[1]) => wizard' = "idle" /\ answered' = answered
    PROVE  EvidenceInv'
  <1>1. EvidenceTyped' /\ UnderWay'
    BY DEF EvidenceInv, EvidenceTyped, UnderWay
  <1>2. /\ \A f \in Files : (Done(f)' <=> Done(f)) /\ (Settled(f)' <=> Settled(f))
        /\ Named(Mark[1])' <=> Named(Mark[1])
    BY DEF Done, Settled, Named
  <1>3. Copied' <=> Copied
    BY <1>2, FileNames DEF Copied
  <1>4. queue' \notin OutputQueues /\ queue' # Tail(Copies) /\ queue' # Mark
        /\ queue' # Tail(Outputs) /\ queue' # Tail(Tail(Outputs))
    BY QueuesAreFull DEF OutputQueues
  <1>5. Progress'
    BY <1>3, <1>4 DEF EvidenceInv, Progress
  <1>6. MarkInv'
    <2> SUFFICES ASSUME Named(Mark[1])' PROVE Backed' /\ wizard' = "idle"
      BY DEF MarkInv
    <2>1. Named(Mark[1]) /\ answered' = answered /\ Backed
      BY <1>2 DEF EvidenceInv, MarkInv
    <2>2. QED
      BY <1>2, <1>3, <2>1, FileNames DEF Backed
  <1>7. ChainInv'
    BY DEF EvidenceInv, ChainInv, ReceiptsValid
  <1>8. QED
    BY <1>1, <1>5, <1>6, <1>7 DEF EvidenceInv

LEMMA StepQuits ==
    ASSUME EvidenceInv, Quit, UNCHANGED <<receipts, file, repository, answered>>
    PROVE  EvidenceInv'
  BY StepNoFile DEF Quit, repository, EvidenceInv, EvidenceTyped

\* A file is begun: found under one of its names, or created.
LEMMA StepBeginFile ==
    ASSUME EvidenceInv, BeginFile
    PROVE  EvidenceInv'
  <1>1. /\ wizard = "begin" /\ queue \in Queues /\ F \in Files
        /\ UNCHANGED <<receipts, repository, answered>>
    BY HeadIs DEF BeginFile, EvidenceInv, EvidenceTyped
  <1>2. CASE F \in foreign
    BY <1>1, <1>2, StepQuits DEF BeginFile
  <1>3. CASE F \notin foreign /\ file[F].at # "none"
    <2>1. file' = file /\ wizard' = "fill" /\ queue' = queue
      BY <1>3 DEF BeginFile, Goto
    <2>2. file[F] \in FileState /\ WellKept(file[F]) /\ file \in [Files -> FileState]
      BY <1>1 DEF EvidenceInv, EvidenceTyped
    <2>3. file' = [file EXCEPT ![F] = file[F]]
      BY <1>1, <2>1, <2>2
    <2>4. file[F].at = "name" => Named(F)
      BY DEF Named
    <2>5. QED
      BY <1>1, <1>3, <2>1, <2>2, <2>3, <2>4, StepAtFile
  <1>4. CASE F \notin foreign /\ file[F].at = "none"
    <2> DEFINE fresh == [NoFile EXCEPT !.at = "temporary", !.past = {"none"}]
    <2>1. file' = [file EXCEPT ![F] = fresh] /\ wizard' = "fill" /\ queue' = queue
      BY <1>4 DEF BeginFile, Goto
    <2>2. "temporary" \in Places /\ {"none"} \in SUBSET {"none", "temporary"}
      BY DEF Places
    <2>3. NoFile \in FileState /\ NoFile.len = 0 /\ NoFile.synced = 0
      BY FreshFile
    <2>4. /\ fresh \in FileState /\ fresh.at = "temporary"
          /\ fresh.len = 0 /\ fresh.synced = 0
      BY <2>2, <2>3 DEF FileState
    <2> HIDE DEF fresh
    <2>5. WellKept(fresh)
      BY <2>4 DEF WellKept
    <2>6. QED
      BY <1>1, <2>1, <2>4, <2>5, StepAtFile
  <1>5. QED
    BY <1>2, <1>3, <1>4

LEMMA StepFillFile ==
    ASSUME EvidenceInv, Append1 \/ SealFile \/ RenameFile
    PROVE  EvidenceInv'
  <1>1. /\ wizard \in {"fill", "rename"} /\ queue \in Queues /\ F \in Files
        /\ UNCHANGED <<receipts, repository, answered, queue>>
        /\ file[F] \in FileState /\ WellKept(file[F])
    BY HeadIs DEF Append1, SealFile, RenameFile, Only, Goto, EvidenceInv, EvidenceTyped
  <1>2. /\ file[F].at \in Places /\ file[F].past \subseteq {"none", "temporary"}
        /\ file[F].len \in 0..Size /\ file[F].synced \in 0..Size
        /\ file[F].synced <= file[F].len
        /\ file[F].at = "name" => file[F].len = Size /\ file[F].synced = Size
    BY <1>1 DEF FileState, WellKept
  <1>3. CASE Append1
    <2> DEFINE longer == [file[F] EXCEPT !.len = @ + 1]
    <2>1. /\ wizard = "fill" /\ wizard' = "fill" /\ file[F].len < Size
          /\ file' = [file EXCEPT ![F] = longer]
      BY <1>3 DEF Append1, Only, Goto
    <2>2. file[F].at # "none" /\ file[F].len + 1 \in 0..Size /\ file[F].at # "name"
      BY <1>2, <2>1, EvidenceAssumption DEF EvidenceInv, UnderWay
    <2>3. /\ longer \in FileState /\ longer.at = file[F].at
          /\ longer.len = file[F].len + 1 /\ longer.synced = file[F].synced
      BY <1>1, <2>2 DEF FileState
    <2> HIDE DEF longer
    <2>4. WellKept(longer)
      BY <1>2, <2>2, <2>3, EvidenceAssumption DEF WellKept
    <2>5. QED
      BY <1>1, <2>1, <2>2, <2>3, <2>4, StepAtFile
  <1>4. CASE SealFile
    <2> DEFINE sealed == Seal(file[F])
    <2>1. /\ wizard = "fill" /\ file[F].len = Size
          /\ wizard' = IF Named(F) THEN "sync" ELSE "rename"
          /\ file' = [file EXCEPT ![F] = sealed]
      BY <1>4 DEF SealFile, Only, Goto
    <2>2. file[F].at # "none"
      BY <2>1 DEF EvidenceInv, UnderWay
    <2>3. /\ sealed \in FileState /\ sealed.at = file[F].at
          /\ sealed.len = Size /\ sealed.synced = Size
      BY <1>1, <1>2, <2>1 DEF FileState, Seal
    <2> HIDE DEF sealed
    <2>4. WellKept(sealed)
      BY <2>2, <2>3, EvidenceAssumption DEF WellKept
    <2>5. /\ Named(F) <=> file[F].at = "name"
          /\ file[F].at # "name" => file[F].at = "temporary"
      BY <1>2, <2>2 DEF Named, Places
    <2>6. QED
      BY <1>1, <2>1, <2>2, <2>3, <2>4, <2>5, StepAtFile
  <1>5. CASE RenameFile
    <2> DEFINE renamed == [file[F] EXCEPT !.at = "name", !.past = @ \cup {"temporary"}]
    <2>1. /\ wizard = "rename" /\ wizard' = "sync"
          /\ file' = [file EXCEPT ![F] = renamed]
      BY <1>5 DEF RenameFile, Only, Goto
    <2>2. file[F].synced = Size /\ file[F].len = Size
      BY <1>2, <2>1, EvidenceAssumption DEF EvidenceInv, UnderWay
    <2>3. "name" \in Places /\ file[F].past \cup {"temporary"} \in SUBSET {"none", "temporary"}
      BY <1>2 DEF Places
    <2>4. /\ renamed \in FileState /\ renamed.at = "name"
          /\ renamed.len = Size /\ renamed.synced = Size
      BY <1>1, <2>2, <2>3 DEF FileState
    <2> HIDE DEF renamed
    <2>5. WellKept(renamed)
      BY <2>4, EvidenceAssumption DEF WellKept
    <2>6. QED
      BY <1>1, <2>1, <2>4, <2>5, StepAtFile
  <1>6. QED
    BY <1>3, <1>4, <1>5

\* What is written stays written while every file does.
LEMMA WrittenStays ==
    ASSUME \A f \in Files : (Done(f) => Done(f)') /\ (Settled(f) => Settled(f)'),
           answered' => answered
    PROVE  (Copied => Copied') /\ (Backed => Backed')
  <1>1. Names(Copies) \subseteq Files /\ Names(Outputs) \subseteq Files
    BY FileNames
  <1>2. Copied => Copied'
    BY <1>1 DEF Copied
  <1>3. QED
    BY <1>1, <1>2 DEF Backed

\* A step that begins with the first file of a queue, and touches none.
LEMMA StepStarts ==
    ASSUME EvidenceInv, ~Named(Mark[1]), ReceiptsValid,
           UNCHANGED <<receipts, file, foreign, edited>>,
           wizard' = "begin", queue' \in Queues, answered' \in BOOLEAN, Progress'
    PROVE  EvidenceInv'
  <1>1. EvidenceTyped' /\ UnderWay'
    BY DEF EvidenceInv, EvidenceTyped, UnderWay
  <1>2. MarkInv'
    BY DEF MarkInv, Named
  <1>3. ChainInv'
    BY DEF ChainInv, ReceiptsValid
  <1>4. QED
    BY <1>1, <1>2, <1>3 DEF EvidenceInv

LEMMA StepGenerates ==
    ASSUME EvidenceInv, GeneratePublicReceipts
    PROVE  EvidenceInv'
  <1>1. wizard = "generate" /\ UNCHANGED <<receipts, file, repository, answered, faults>>
    BY DEF GeneratePublicReceipts
  <1>2. CASE ReceiptsValid
    <2>1. wizard' = "begin" /\ queue' = Copies /\ Copies \in Queues
      BY <1>2 DEF GeneratePublicReceipts, Start, Queues
    <2>2. ~Named(Mark[1]) /\ answered' \in BOOLEAN
      BY <1>1 DEF EvidenceInv, MarkInv, EvidenceTyped
    <2>3. /\ Copies # Tail(Copies) /\ Copies \notin OutputQueues /\ Copies # Mark
          /\ Copies # Tail(Outputs) /\ Copies # Tail(Tail(Outputs))
      BY DEF Copies, Outputs, Mark, OutputQueues
    <2>4. Progress'
      BY <2>1, <2>3 DEF Progress
    <2>5. QED
      BY <1>1, <1>2, <2>1, <2>2, <2>4, StepStarts DEF repository
  <1>3. CASE ~ReceiptsValid
    BY <1>1, <1>3, StepQuits DEF GeneratePublicReceipts
  <1>4. QED
    BY <1>2, <1>3

\* The operator agrees, and everything is in order; or not; or declines.
LEMMA StepAnswers ==
    ASSUME EvidenceInv, NEW yes \in BOOLEAN, Answer(yes)
    PROVE  EvidenceInv'
  <1>1. /\ wizard = "ask" /\ answered' = yes /\ UNCHANGED <<receipts, file, repository>>
        /\ ~Named(Mark[1]) /\ Copied /\ ReceiptsValid
    BY DEF Answer, EvidenceInv, MarkInv, Progress, ChainInv
  <1>2. Copied'
    BY <1>1 DEF Copied, Done, Named
  <1>3. /\ Mark # Tail(Copies) /\ Mark \notin OutputQueues
        /\ Mark # Tail(Outputs) /\ Mark # Tail(Tail(Outputs))
        /\ Outputs # Tail(Copies) /\ Outputs # Mark
        /\ Outputs # Tail(Outputs) /\ Outputs # Tail(Tail(Outputs))
    BY DEF Copies, Outputs, Mark, OutputQueues
  <1>4. CASE ~yes
    <2>1. wizard' = "begin" /\ queue' = Mark /\ Mark \in Queues
      BY <1>4 DEF Answer, Start, Queues
    <2>2. Backed'
      BY <1>1, <1>2, <1>4 DEF Backed
    <2>3. Progress'
      BY <1>3, <2>1, <2>2 DEF Progress
    <2>4. QED
      BY <1>1, <2>1, <2>3, StepStarts DEF repository
  <1>5. CASE yes /\ ReceiptsValid /\ AbsentOrExactPrefix(Outputs)
    <2>1. wizard' = "begin" /\ queue' = Outputs /\ Outputs \in Queues
      BY <1>5 DEF Answer, Start, Queues, OutputQueues
    <2>2. (answered /\ foreign = {})'
      BY <1>1, <1>5 DEF AbsentOrExactPrefix, EvidenceInv, EvidenceTyped, repository
    <2>3. Progress'
      BY <1>2, <1>3, <2>1, <2>2 DEF Progress
    <2>4. QED
      BY <1>1, <2>1, <2>3, StepStarts DEF repository
  <1>6. CASE yes /\ ~(ReceiptsValid /\ AbsentOrExactPrefix(Outputs))
    <2>1. wizard' = "idle" /\ queue' = << >>
      BY <1>6 DEF Answer, Quit
    <2>2. QED
      BY <1>1, <2>1, StepNoFile DEF repository
  <1>7. QED
    BY <1>4, <1>5, <1>6

LEMMA QueuesGoOn ==
    /\ Len(Copies) > 1 /\ Len(Outputs) > 1 /\ Len(Tail(Outputs)) > 1
    /\ ~(Len(Tail(Copies)) > 1) /\ ~(Len(Tail(Tail(Outputs))) > 1) /\ ~(Len(Mark) > 1)
  BY DEF Copies, Outputs, Mark

\* What is done after the file under way.
LEMMA SyncLeads ==
    ASSUME SyncDirectory, queue \in Queues
    PROVE  /\ queue = Copies => Start(Tail(Copies))
           /\ queue = Tail(Copies) => wizard' = "ask" /\ queue' = << >>
           /\ queue = Outputs => Start(Tail(Outputs))
           /\ queue = Tail(Outputs) => Start(Tail(Tail(Outputs)))
           /\ queue = Tail(Tail(Outputs)) => Start(Mark)
           /\ queue = Mark => Quit
  <1>1. /\ F = Copies[2] <=> queue = Tail(Copies)
        /\ F = Outputs[3] <=> queue = Tail(Tail(Outputs))
        /\ F = Mark[1] <=> queue = Mark
    BY HeadIs
  <1>2. (CASE Len(queue) > 1            -> Start(Tail(queue))
           [] F = Copies[Len(Copies)]   -> (wizard' = "ask" /\ queue' = << >>)
           [] F = Outputs[Len(Outputs)] -> Start(Mark)
           [] F = Mark[1]               -> Quit)
    BY DEF SyncDirectory
  <1>3. (CASE Len(queue) > 1              -> Start(Tail(queue))
           [] queue = Tail(Copies)        -> (wizard' = "ask" /\ queue' = << >>)
           [] queue = Tail(Tail(Outputs)) -> Start(Mark)
           [] queue = Mark                -> Quit)
    BY <1>1, <1>2, FileNames
  <1>4. queue \in {Copies, Outputs, Tail(Outputs)} => Len(queue) > 1
    BY QueuesGoOn
  <1>5. queue \in {Tail(Copies), Tail(Tail(Outputs)), Mark} => ~(Len(queue) > 1)
    BY QueuesGoOn
  <1>6. /\ Tail(Tail(Outputs)) # Tail(Copies) /\ Tail(Tail(Outputs)) # Mark
        /\ Outputs # Tail(Copies) /\ Outputs # Mark
        /\ Tail(Outputs) # Tail(Copies) /\ Tail(Outputs) # Mark
    BY QueuesDiffer, QueueMembers
  <1>7. QED
    BY <1>3, <1>4, <1>5, <1>6, QueuesDiffer, QueueMembers

\* The directory is synced: nothing takes the file away any more.
LEMMA StepSyncDirectory ==
    ASSUME EvidenceInv, SyncDirectory
    PROVE  EvidenceInv'
  <1> DEFINE kept == SyncParent(file[F])
  <1>1. /\ wizard = "sync" /\ queue \in Queues /\ F \in Files /\ queue # << >>
        /\ file' = [file EXCEPT ![F] = kept] /\ file \in [Files -> FileState]
        /\ UNCHANGED <<receipts, repository, answered>>
        /\ Named(F) /\ WellKept(file[F])
    BY HeadIs DEF SyncDirectory, EvidenceInv, EvidenceTyped, UnderWay
  <1>2. /\ kept \in FileState /\ kept.at = "name" /\ kept.past = {}
        /\ kept.len = Size /\ kept.synced = Size
    BY <1>1 DEF FileState, SyncParent, WellKept, Named
  <1> HIDE DEF kept
  <1>3. WellKept(kept)
    BY <1>2, EvidenceAssumption DEF WellKept
  <1>4. /\ file' \in [Files -> FileState] /\ \A g \in Files : WellKept(file'[g])
        /\ file'[F] = kept
        /\ \A g \in Files \ {F} :
              file'[g] = file[g] /\ (Done(g) => Done(g)') /\ (Settled(g) => Settled(g)')
              /\ (Named(g)' => Named(g))
    BY <1>1, <1>2, <1>3, OthersStay DEF EvidenceInv, repository
  <1>5. file'[F].at = "name" /\ file'[F].past = {} /\ file'[F].synced = Size
    BY <1>2, <1>4
  <1>6. \A g \in Files : (Done(g) => Done(g)') /\ (Settled(g) => Settled(g)')
    BY <1>4, <1>5 DEF Done, Settled, Named
  <1>7. \A g \in Files : g = F => Done(g)' /\ Settled(g)'
    BY <1>5 DEF Done, Settled, Named
  <1>8. (Copied => Copied') /\ (Backed => Backed')
    BY <1>1, <1>6, WrittenStays
  <1>9. /\ Copies[1] \in Files /\ Copies[2] \in Files /\ Outputs[1] \in Files
        /\ Outputs[2] \in Files /\ Outputs[3] \in Files
        /\ Mark[1] \notin {Copies[1], Copies[2], Outputs[1], Outputs[2], Outputs[3]}
        /\ Names(Copies) = {Copies[1], Copies[2]}
        /\ Names(Outputs) = {Outputs[1], Outputs[2], Outputs[3]}
        /\ Copies[Len(Copies)] = Copies[2] /\ Outputs[Len(Outputs)] = Outputs[3]
    BY FileNames
  <1>10. queue # Mark => ~Named(Mark[1])'
    <2>1. queue # Mark => ~Named(Mark[1]) /\ F # Mark[1]
      BY <1>1, HeadIs DEF EvidenceInv, MarkInv
    <2>2. QED
      BY <1>4, <2>1, FileNames
  <1>11. ReceiptsValid'
    BY <1>1 DEF EvidenceInv, ChainInv, ReceiptsValid
  <1>12. /\ wizard' \in {"begin", "ask", "idle"}
         /\ IF wizard' = "begin" THEN queue' \in Queues ELSE queue' = << >>
         /\ Progress' /\ MarkInv'
    <2>1. CASE queue = Copies
      <3>1. wizard' = "begin" /\ queue' = Tail(Copies)
        BY <1>1, <2>1, SyncLeads DEF Start
      <3>2. Done(Copies[1])'
        BY <1>1, <1>7, <2>1, HeadIs
      <3>3. QED
        BY <1>10, <2>1, <3>1, <3>2, QueuesDiffer, QueueMembers DEF Progress, MarkInv
    <2>2. CASE queue = Tail(Copies)
      <3>1. wizard' = "ask" /\ queue' = << >>
        BY <1>1, <2>2, SyncLeads
      <3>2. Copied'
        BY <1>1, <1>6, <1>7, <1>9, <2>2, HeadIs DEF Copied, EvidenceInv, Progress
      <3>3. QED
        BY <1>10, <2>2, <3>1, <3>2, QueuesDiffer, QueueMembers DEF Progress, MarkInv
    <2>3. CASE queue = Outputs
      <3>1. wizard' = "begin" /\ queue' = Tail(Outputs)
        BY <1>1, <2>3, SyncLeads DEF Start
      <3>2. Settled(Outputs[1])' /\ (Copied /\ answered /\ foreign = {})'
        BY <1>1, <1>7, <1>8, <2>3, HeadIs, QueueMembers
        DEF EvidenceInv, Progress, repository
      <3>3. QED
        BY <1>10, <2>3, <3>1, <3>2, QueuesDiffer, QueueMembers DEF Progress, MarkInv
    <2>4. CASE queue = Tail(Outputs)
      <3>1. wizard' = "begin" /\ queue' = Tail(Tail(Outputs))
        BY <1>1, <2>4, SyncLeads DEF Start
      <3>2. /\ Settled(Outputs[1])' /\ Settled(Outputs[2])'
            /\ (Copied /\ answered /\ foreign = {})'
        BY <1>1, <1>6, <1>7, <1>8, <1>9, <2>4, HeadIs, QueueMembers
        DEF EvidenceInv, Progress, repository
      <3>3. QED
        BY <1>10, <2>4, <3>1, <3>2, QueuesDiffer, QueueMembers DEF Progress, MarkInv
    <2>5. CASE queue = Tail(Tail(Outputs))
      <3>1. wizard' = "begin" /\ queue' = Mark
        BY <1>1, <2>5, SyncLeads DEF Start
      <3>2. Backed'
        BY <1>1, <1>6, <1>7, <1>8, <1>9, <2>5, HeadIs, QueueMembers
        DEF EvidenceInv, Progress, Backed
      <3>3. QED
        BY <1>10, <2>5, <3>1, <3>2, QueuesDiffer, QueueMembers DEF Progress, MarkInv
    <2>6. CASE queue = Mark
      <3>1. wizard' = "idle" /\ queue' = << >>
        BY <1>1, <2>6, SyncLeads DEF Quit
      <3>2. Backed'
        BY <1>8, <2>6 DEF EvidenceInv, Progress
      <3>3. QED
        BY <2>6, <3>1, <3>2, QueuesDiffer, QueueMembers DEF Progress, MarkInv
    <2>7. QED
      BY <1>1, <2>1, <2>2, <2>3, <2>4, <2>5, <2>6 DEF Queues, OutputQueues
  <1>13. EvidenceTyped' /\ UnderWay'
    BY <1>1, <1>4, <1>12 DEF EvidenceInv, EvidenceTyped, UnderWay, repository
  <1>14. QED
    BY <1>11, <1>12, <1>13 DEF EvidenceInv, ChainInv

\* A release whose mark has its name is not taken up again.
LEMMA StepResumes ==
    ASSUME EvidenceInv, Resume
    PROVE  EvidenceInv'
  <1>1. ~Named(Mark[1])
    <2>1. Mark[1] \in Files /\ ~Marked
      BY FileNames DEF Resume
    <2>2. WellKept(file[Mark[1]])
      BY <2>1 DEF EvidenceInv, EvidenceTyped
    <2>3. QED
      BY <2>1, <2>2 DEF WellKept, Marked, Named
  <1>2. queue = << >> /\ answered \in BOOLEAN
    BY DEF Resume, EvidenceInv, EvidenceTyped
  <1>3. wizard' \in {"generate", "idle"} /\ queue' = << >>
    BY <1>2 DEF Resume, Goto, Quit
  <1>4. QED
    BY <1>1, <1>2, <1>3, StepNoFile DEF Resume, repository

-----------------------------------------------------------------------------
(* Losses of power, and the operator                                       *)

\* The bytes of a file are what the last sync left, or more; a name that no
\* directory lost stays.
LEMMA SurvivorIs ==
    ASSUME NEW record \in FileState, WellKept(record), NEW left \in Survivors(record)
    PROVE  /\ left \in FileState /\ WellKept(left)
           /\ left.at # "none" => record.at # "none"
           /\ left.at = "name" => record.at = "name"
           /\ record.at = "name" /\ record.past = {} =>
                 left.at = "name" /\ left.past = {} /\ left.synced = Size
  <1>1. PICK at \in record.past \cup {record.at}, n \in record.synced..record.len :
           left = IF at = "none" THEN NoFile
                  ELSE [at |-> at, past |-> {}, len |-> n, synced |-> n]
    BY DEF Survivors
  <1>2. at \in Places /\ (at = "name" => record.at = "name")
    BY DEF FileState, Places
  <1>3. n \in 0..Size /\ (record.at = "name" => n = Size)
    BY EvidenceAssumption DEF FileState, WellKept
  <1>4. record.at = "none" => at = "none"
    BY DEF WellKept, NoFile
  <1>5. CASE at = "none"
    <2>1. left = NoFile
      BY <1>1, <1>5
    <2>2. ~(record.at = "name" /\ record.past = {})
      BY <1>5
    <2>3. QED
      BY <2>1, <2>2, FreshFile
  <1>6. CASE at # "none"
    <2>1. left = [at |-> at, past |-> {}, len |-> n, synced |-> n]
      BY <1>1, <1>6
    <2>2. left.at = at /\ left.past = {} /\ left.len = n /\ left.synced = n
      BY <2>1
    <2>3. left \in FileState
      BY <1>2, <1>3, <2>1 DEF FileState
    <2>4. WellKept(left)
      BY <1>2, <1>3, <1>6, <2>2, <2>3 DEF WellKept
    <2>5. record.at = "name" /\ record.past = {} => at = "name" /\ n = Size
      BY <1>3
    <2>6. QED
      BY <1>2, <1>4, <1>6, <2>2, <2>3, <2>4, <2>5
  <1>7. QED
    BY <1>5, <1>6

\* The wizard rests, and nothing that counts is lost.
LEMMA StepRests ==
    ASSUME EvidenceInv, UNCHANGED <<receipts, answered>>,
           wizard' = "idle" \/ (wizard = "ask" /\ wizard' = "ask"), queue' = << >>,
           foreign' \subseteq Names(Outputs),
           file' \in [Files -> FileState], \A f \in Files : WellKept(file'[f]),
           \A f \in Files : (Settled(f) => Settled(f)'),
           \A f \in Names(Copies) : (Done(f) => Done(f)'),
           \A f \in Files : /\ file'[f].at # "none" => file[f].at # "none"
                            /\ file'[f].at = "name" => file[f].at = "name"
    PROVE  EvidenceInv'
  <1>1. EvidenceTyped' /\ UnderWay'
    BY DEF EvidenceInv, EvidenceTyped, UnderWay
  <1>2. Copied => Copied'
    BY DEF Copied
  <1>3. Names(Outputs) \subseteq Files /\ Mark[1] \in Files
    BY FileNames
  <1>4. Backed => Backed'
    BY <1>2, <1>3 DEF Backed
  <1>5. queue' # Tail(Copies) /\ queue' # Mark /\ queue' \notin OutputQueues
        /\ queue' # Tail(Outputs) /\ queue' # Tail(Tail(Outputs))
    BY QueuesDiffer, QueueMembers
  <1>6. Progress'
    BY <1>2, <1>5 DEF EvidenceInv, Progress
  <1>7. MarkInv'
    BY <1>3, <1>4 DEF EvidenceInv, MarkInv, Named
  <1>8. ChainInv'
    BY DEF EvidenceInv, ChainInv, ReceiptsValid
  <1>9. QED
    BY <1>1, <1>6, <1>7, <1>8 DEF EvidenceInv

LEMMA StepLosesPower ==
    ASSUME EvidenceInv, LosePower
    PROVE  EvidenceInv'
  <1> DEFINE every == UNION {Survivors(file[f]) : f \in Files}
  <1>1. /\ file' \in [Files -> every] /\ \A f \in Files : file'[f] \in Survivors(file[f])
        /\ wizard' = "idle" /\ queue' = << >>
        /\ UNCHANGED <<receipts, repository, answered>>
    BY DEF LosePower, Quit
  <1>2. \A f \in Files : file[f] \in FileState /\ WellKept(file[f])
    BY DEF EvidenceInv, EvidenceTyped
  <1>3. \A f \in Files :
           /\ file'[f] \in FileState /\ WellKept(file'[f])
           /\ file'[f].at # "none" => file[f].at # "none"
           /\ file'[f].at = "name" => file[f].at = "name"
           /\ file[f].at = "name" /\ file[f].past = {} =>
                 file'[f].at = "name" /\ file'[f].past = {} /\ file'[f].synced = Size
    BY <1>1, <1>2, SurvivorIs
  <1> HIDE DEF every
  <1>4. file' \in [Files -> FileState]
    BY <1>1, <1>3
  <1>5. \A f \in Files : (Done(f) => Done(f)') /\ (Settled(f) => Settled(f)')
    BY <1>1, <1>3 DEF Done, Settled, Named, repository
  <1>6. Names(Copies) \subseteq Files /\ foreign' \subseteq Names(Outputs)
    BY <1>1, FileNames DEF EvidenceInv, EvidenceTyped, repository
  <1>7. QED
    BY <1>1, <1>3, <1>4, <1>5, <1>6, StepRests

\* What the operator does to an output, it is known for.
LEMMA StepEdits ==
    ASSUME EvidenceInv, Edit
    PROVE  EvidenceInv'
  <1>1. /\ wizard \in {"idle", "ask"} /\ queue = << >>
        /\ UNCHANGED <<receipts, wizard, queue, answered>>
        /\ file \in [Files -> FileState] /\ \A f \in Files : WellKept(file[f])
        /\ foreign \subseteq Names(Outputs)
    BY DEF Edit, EvidenceInv, EvidenceTyped
  <1>2. CASE UNCHANGED <<foreign, edited, file>>
    <2>1. \A f \in Files : (Done(f) => Done(f)') /\ (Settled(f) => Settled(f)')
      BY <1>2 DEF Done, Settled, Named
    <2>2. Names(Copies) \subseteq Files
      BY FileNames
    <2>3. QED
      BY <1>1, <1>2, <2>1, <2>2, StepRests
  <1>3. ASSUME NEW f \in Names(Outputs) \ foreign,
               foreign' = foreign \cup {f}, edited' = edited \cup {f},
               file' = IF Named(f) THEN [file EXCEPT ![f] = NoFile] ELSE file
        PROVE  EvidenceInv'
    <2>1. f \in Files /\ f \notin Names(Copies) /\ Names(Copies) \subseteq Files
      BY FileNames
    <2>2. /\ \A g \in Files \ {f} : file'[g] = file[g]
          /\ file'[f] \in {file[f], NoFile}
          /\ file' \in [Files -> FileState]
      BY <1>1, <1>3, <2>1, FreshFile
    <2>3. /\ \A g \in Files : WellKept(file'[g])
          /\ \A g \in Files : /\ file'[g].at # "none" => file[g].at # "none"
                              /\ file'[g].at = "name" => file[g].at = "name"
      BY <1>1, <2>1, <2>2, FreshFile
    <2>4. \A g \in Files : Settled(g) => Settled(g)'
      BY <1>3, <2>2 DEF Settled, Done, Named
    <2>5. \A g \in Names(Copies) : Done(g) => Done(g)'
      BY <2>1, <2>2 DEF Done, Named
    <2>6. foreign' \subseteq Names(Outputs)
      BY <1>1, <1>3
    <2>7. QED
      BY <1>1, <2>2, <2>3, <2>4, <2>5, <2>6, StepRests
  <1>4. QED
    BY <1>2, <1>3 DEF Edit

LEMMA StepRestores ==
    ASSUME EvidenceInv, Restore
    PROVE  EvidenceInv'
  <1>1. /\ wizard \in {"idle", "ask"} /\ queue = << >>
        /\ UNCHANGED <<receipts, file, edited, wizard, queue, answered>> /\ foreign' = {}
        /\ file \in [Files -> FileState] /\ \A f \in Files : WellKept(file[f])
    BY DEF Restore, EvidenceInv, EvidenceTyped
  <1>2. \A f \in Files : (Done(f) => Done(f)') /\ (Settled(f) => Settled(f)')
    BY <1>1 DEF Done, Settled, Named
  <1>3. Names(Copies) \subseteq Files
    BY FileNames
  <1>4. QED
    BY <1>1, <1>2, <1>3, StepRests

-----------------------------------------------------------------------------
(* Theorems                                                                *)

LEMMA EvidenceStarts == Init => EvidenceInv
  <1> SUFFICES ASSUME Init PROVE EvidenceInv
    OBVIOUS
  <1>1. /\ file = [f \in Files |-> NoFile] /\ foreign = {} /\ wizard = "generate"
        /\ queue = << >> /\ answered = FALSE
    BY DEF Init
  <1>2. \A f \in Files : file[f] = NoFile /\ WellKept(file[f])
    BY <1>1, FreshFile
  <1>3. EvidenceTyped
    BY <1>1, <1>2, FreshFile DEF EvidenceTyped
  <1>4. Mark[1] \in Files
    BY FileNames
  <1>5. UnderWay /\ MarkInv /\ ChainInv
    BY <1>1, <1>2, <1>4, FreshFile DEF UnderWay, MarkInv, ChainInv, Named
  <1>6. Progress
    BY <1>1, QueuesDiffer, QueueMembers DEF Progress
  <1>7. QED
    BY <1>3, <1>5, <1>6 DEF EvidenceInv

LEMMA EvidenceSteps == EvidenceInv /\ [Next]_vars => EvidenceInv'
  <1> SUFFICES ASSUME EvidenceInv, [Next]_vars PROVE EvidenceInv'
    OBVIOUS
  <1>1. CASE Resume
    BY <1>1, StepResumes
  <1>2. CASE Step
    BY <1>2, StepGenerates, StepAnswers, StepBeginFile, StepFillFile, StepSyncDirectory DEF Step
  <1>3. CASE Stop
    BY <1>3, StepQuits DEF Stop
  <1>4. CASE LosePower
    BY <1>4, StepLosesPower
  <1>5. CASE Edit \/ Restore
    BY <1>5, StepEdits, StepRestores
  <1>6. CASE UNCHANGED vars
    <2>1. UNCHANGED <<receipts, file, foreign, edited, wizard, queue, answered>>
      BY <1>6 DEF vars, repository
    <2>2. QED
      BY <2>1 DEF EvidenceInv, EvidenceTyped, UnderWay, Progress, MarkInv, ChainInv,
                  Copied, Backed, Settled, Done, Named, F, ReceiptsValid
  <1>7. QED
    BY <1>1, <1>2, <1>3, <1>4, <1>5, <1>6 DEF Next

\* Every file under way is where the wizard thinks it is, what comes before it in
\* the order of writing is durable or was changed by the operator since, and a
\* file is only begun from receipts that form a chain.
THEOREM EvidenceIsConsistent == Spec => []EvidenceInv
  <1>1. QED
    BY EvidenceStarts, EvidenceSteps, PTL DEF Spec

\* Whatever prefix of whichever file a kill or a loss of power leaves, the mark of
\* completed evidence is never ahead of the files it stands for.
THEOREM MarkHasItsFiles == Spec => []MarkedIsBacked
  <1>1. EvidenceInv => MarkedIsBacked
    <2> SUFFICES ASSUME EvidenceInv, Named(Mark[1]),
                        NEW f \in Names(Copies) \cup
                                  (IF answered THEN Names(Outputs) \ edited ELSE {})
                 PROVE  Done(f)
      BY DEF MarkedIsBacked, Done
    <2>1. Backed
      BY DEF EvidenceInv, MarkInv
    <2>2. QED
      BY <2>1 DEF Backed, Copied, Settled
  <1>2. QED
    BY <1>1, EvidenceIsConsistent, PTL

\* Where there is a copy or an output, the four receipts are one chain of the
\* release that the saved state names.
THEOREM OnlyTheChainIsWritten == Spec => []EvidenceIsChained
  <1>1. EvidenceInv => EvidenceIsChained
    <2> SUFFICES ASSUME ReceiptsValid
                 PROVE  /\ \A i \in 1..4 : receipts[i].release = Release /\ receipts[i].intact
                        /\ \A i \in 2..4 : receipts[i].of = receipts[i - 1]
      BY DEF EvidenceInv, ChainInv, EvidenceIsChained
    <2>1. receipts[1].release = Release /\ receipts[1].intact
      BY DEF ReceiptsValid, DraftValid
    <2>2. /\ receipts[2].release = Release /\ receipts[2].intact
          /\ receipts[2].of = receipts[1]
      BY <2>1 DEF ReceiptsValid, ApprovalValid
    <2>3. /\ receipts[3].release = Release /\ receipts[3].intact
          /\ receipts[3].of = receipts[2]
      BY <2>2 DEF ReceiptsValid, PublicationValid
    <2>4. /\ receipts[4].release = Release /\ receipts[4].intact
          /\ receipts[4].of = receipts[3]
      BY <2>3 DEF ReceiptsValid, LatestValid
    <2>5. QED
      BY <2>1, <2>2, <2>3, <2>4
  <1>2. QED
    BY <1>1, EvidenceIsConsistent, PTL

\* The file under way is no output while a name is taken.
LEMMA ForeignHead ==
    ASSUME EvidenceInv, wizard \in {"begin", "fill", "rename", "sync"}, foreign # {}
    PROVE  F \notin Names(Outputs)
  <1>1. queue \in Queues /\ queue \notin OutputQueues
    BY DEF EvidenceInv, EvidenceTyped, Progress
  <1>2. QED
    BY <1>1, HeadIs

\* A step of the writing is one at the file under way.
LEMMA WritesTheHead ==
    ASSUME EvidenceInv, Step
    PROVE  \/ file' = file
           \/ /\ wizard \in {"begin", "fill", "rename", "sync"}
              /\ \A f \in Files \ {F} : file'[f] = file[f]
  <1>1. file \in [Files -> FileState]
    BY DEF EvidenceInv, EvidenceTyped
  <1>2. CASE GeneratePublicReceipts \/ \E yes \in BOOLEAN : Answer(yes)
    BY <1>2 DEF GeneratePublicReceipts, Answer
  <1>3. CASE BeginFile
    BY <1>1, <1>3 DEF BeginFile
  <1>4. CASE Append1 \/ SealFile \/ RenameFile
    BY <1>1, <1>4 DEF Append1, SealFile, RenameFile, Only
  <1>5. CASE SyncDirectory
    BY <1>1, <1>5 DEF SyncDirectory
  <1>6. QED
    BY <1>2, <1>3, <1>4, <1>5 DEF Step

LEMMA FaultsCounted == Spec => [](faults \in Nat)
  <1>1. Init => faults \in Nat
    BY DEF Init
  <1>2. [Next]_vars => faults' = faults \/ faults' = faults + 1
    <2>1. Step => faults' = faults
      BY DEF Step, GeneratePublicReceipts, Answer, BeginFile, Append1, SealFile, RenameFile,
             Only, SyncDirectory
    <2>2. Resume \/ Edit \/ Restore \/ UNCHANGED vars => faults' = faults
      BY DEF Resume, Edit, Restore, vars
    <2>3. Stop \/ LosePower => faults' = faults + 1
      BY DEF Stop, LosePower
    <2>4. QED
      BY <2>1, <2>2, <2>3 DEF Next
  <1>3. faults \in Nat /\ (faults' = faults \/ faults' = faults + 1) => (faults \in Nat)'
    OBVIOUS
  <1>4. QED
    BY <1>1, <1>2, <1>3, PTL DEF Spec

\* While one output's name is taken by something the wizard did not write, no
\* output is begun, renamed or continued: the outputs are all looked at before
\* the first is touched, and nothing changes them while they are written.
THEOREM NoOutputBesideForeign == Spec => ForeignStopsAll
  <1>1. ASSUME EvidenceInv, faults \in Nat, Next, foreign # {}, foreign' = foreign,
               faults' = faults, NEW f \in Names(Outputs)
        PROVE  file'[f] = file[f]
    <2>1. f \in Files
      BY FileNames
    <2>2. CASE Step
      BY <1>1, <2>1, <2>2, WritesTheHead, ForeignHead
    <2>3. CASE Resume \/ Restore
      BY <2>3 DEF Resume, Restore
    <2>4. CASE Stop \/ LosePower
      BY <1>1, <2>4 DEF Stop, LosePower
    <2>5. CASE Edit
      <3>1. UNCHANGED file \/ \E g \in Names(Outputs) \ foreign : foreign' = foreign \cup {g}
        BY <2>5 DEF Edit
      <3>2. QED
        BY <1>1, <3>1
    <2>6. QED
      BY <1>1, <2>2, <2>3, <2>4, <2>5 DEF Next
  <1>2. EvidenceInv /\ faults \in Nat /\ [Next]_vars =>
          [foreign # {} /\ foreign' = foreign /\ edits' = edits /\ faults' = faults
             => \A f \in Names(Outputs) : /\ file'[f].at = file[f].at
                                          /\ file'[f].len = file[f].len]_vars
    BY <1>1
  <1>3. QED
    BY <1>2, EvidenceIsConsistent, FaultsCounted, PTL DEF Spec, ForeignStopsAll
================================================================================
