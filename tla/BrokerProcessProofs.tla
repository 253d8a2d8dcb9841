-------------------------- MODULE BrokerProcessProofs --------------------------
(***************************************************************************)
(* Proofs about one request through the broker, for every size of answer   *)
(* and any number of requests, kills and upgrades.                         *)
(*                                                                         *)
(* None of the three safety properties is inductive: what is known of gh,  *)
(* of the helper and of GitHub follows from where the broker is, and where *)
(* the broker can be follows from where the client is, dead or alive.  The *)
(* invariant says so, process by process.                                  *)
(***************************************************************************)
EXTENDS BrokerProcess, TLAPS

ClientSteps == {"idle", "check", "spawned", "await", "join", "confirm", "drop", "dead"}
NotStarted  == {"none", "forked", "request", "config", "prepare", "home", "rebind"}
WithResult  == {"settle", "settling", "answer"}
BrokerSteps == NotStarted \cup WithResult
                 \cup {"supervise", "cleanup", "cleaning", "release", "exited", "dead"}
GhSteps     == {"none", "forked", "running", "succeeded", "failed", "dead"}
HelperSteps == {"none", "copy", "readback", "unlink", "ok", "failed", "dead"}
Results     == {"none", "ok", "error"}
Clients     == [pc : ClientSteps, kind : Kinds, last : Results]
Brokers     == [pc : BrokerSteps, bound : BOOLEAN, request : BOOLEAN, status : Results]
Ghs         == [pc : GhSteps, version : 0..1, out : 0..Size]
Downloads   == [mode : {"0600", "0400"}, pieces : 0..Size]

TypeOK ==
    /\ version \in [Tools -> 0..1]
    /\ client \in Clients
    /\ broker \in Brokers
    /\ gh \in Ghs
    /\ helper \in HelperSteps
    /\ server \in {"none", "asked", "served", "refused"}
    /\ got \in 0..Size
    /\ file \in Downloads \cup {Absent}
    /\ scratch \subseteq {"client", "home", "upload"}
    /\ spent \in [requests : Nat, kills : Nat, upgrades : Nat]

\* Where the broker can be while the client is where it is.  A broker that
\* outlives its client has not been bound to it yet, and reads no request.
ClientInv ==
    /\ client.pc \in {"idle", "check", "confirm", "drop"} => ~BrokerAlive /\ ~HelperAlive
    /\ ClientAt("check") => BrokerAt("none")
    /\ ClientAt("spawned") => broker.pc \in {"forked", "request"} /\ ~broker.request
    /\ ClientAt("confirm") => broker.status = "ok"
    /\ ClientAt("dead") /\ BrokerAlive =>
          broker.pc \in {"forked", "request"} /\ ~broker.request
    /\ client.last = "ok" =>
          client.pc \in {"drop", "idle", "dead"} /\ broker.status = "ok"

\* What the broker has behind it at each of its steps.
BrokerInv ==
    /\ broker.pc \in {"none", "forked"} => ~broker.bound /\ ~broker.request
    /\ BrokerAlive /\ ~BrokerAt("forked") => broker.bound
    /\ broker.request => broker.bound
    /\ broker.pc \in NotStarted =>
          /\ gh.pc = "none" /\ gh.out = 0 /\ got = 0
          /\ helper = "none" /\ server = "none"
    /\ broker.pc \in WithResult => gh.pc = "succeeded" /\ got = Size
    /\ broker.pc \in {"settle", "settling", "cleaning"} => Kind("download")
    /\ broker.pc \in {"home", "rebind", "supervise", "settle"} =>
          (Kind("download") => file \in Downloads)
    /\ broker.status = "ok" =>
          broker.pc \in {"exited", "dead"} /\ gh.pc = "succeeded" /\ got = Size

\* gh and the helper exist only within the steps of the broker that wait for
\* them, or after the broker was killed there; gh is the pinned one.
ChildrenInv ==
    /\ gh.version = 0
    /\ gh.pc = "running" => BrokerAt("supervise")
    /\ gh.pc = "forked" => broker.pc \in {"supervise", "dead"}
    /\ gh.pc = "succeeded" => server = "served" /\ gh.out = Size
    /\ helper \in {"copy", "readback"} =>
          broker.pc \in {"settling", "dead"} /\ file \in Downloads
    /\ helper = "unlink" => broker.pc \in {"cleaning", "dead"}

Inv == TypeOK /\ ClientInv /\ BrokerInv /\ ChildrenInv

-----------------------------------------------------------------------------
(* The initial state, and steps that set several parts of a process.       *)

USE DEF ClientAt, ClientTo, ClientAlive, BrokerAt, BrokerTo, BrokerAlive,
        HelperAlive, Kind, work

LEMMA InitInv == Init => Inv
  <1> SUFFICES ASSUME Init PROVE Inv
    OBVIOUS
  <1>1. client \in Clients /\ broker \in Brokers /\ gh \in Ghs
    BY ProcessAssumption DEF Init, Kinds, Clients, ClientSteps, Brokers, BrokerSteps,
                             NotStarted, Ghs, GhSteps, Results
  <1>2. TypeOK
    BY <1>1, ProcessAssumption DEF Init, TypeOK, HelperSteps
  <1>3. QED
    BY <1>2 DEF Init, Inv, ClientInv, BrokerInv, ChildrenInv, WithResult

LEMMA ReturnSets ==
    ASSUME TypeOK, NEW result \in {"ok", "error"}, Return(result)
    PROVE  /\ client' \in Clients
           /\ client'.pc = "drop" /\ client'.last = result /\ client'.kind = client.kind
  BY DEF TypeOK, Return, Clients, ClientSteps, Results

LEMMA ExitSets ==
    ASSUME TypeOK, NEW status \in {"ok", "error"}, Exit(status)
    PROVE  /\ broker' \in Brokers
           /\ broker'.pc = "exited" /\ broker'.status = status
           /\ broker'.bound = broker.bound /\ broker'.request = broker.request
  BY DEF TypeOK, Exit, Brokers, BrokerSteps, Results

\* A step that ends the request with an error, nobody being left.
LEMMA ReturnError ==
    ASSUME Inv, Return("error"), ~BrokerAlive, ~HelperAlive,
           UNCHANGED <<version, broker, gh, work, spent>>
    PROVE  Inv'
  <1>1. TypeOK'
    BY ReturnSets DEF Inv, TypeOK
  <1>2. QED
    BY <1>1, ReturnSets DEF Inv, ClientInv, BrokerInv, ChildrenInv, NotStarted, WithResult

\* A step that ends the broker with an error.
LEMMA ExitError ==
    ASSUME Inv, BrokerAlive, Exit("error"), ~HelperAlive,
           gh.pc \notin {"forked", "running"}, ~BrokerAt("forked"), ~ClientAt("spawned"),
           file' \in Downloads \cup {Absent}, scratch' \subseteq {"client", "home", "upload"},
           UNCHANGED <<version, client, gh, helper, server, got, spent>>
    PROVE  Inv'
  <1>1. TypeOK'
    BY ExitSets DEF Inv, TypeOK
  <1>2. QED
    BY <1>1, ExitSets DEF Inv, TypeOK, Brokers, ClientInv, BrokerInv, ChildrenInv,
                          NotStarted, WithResult

-----------------------------------------------------------------------------
(* The steps of the client                                                 *)

LEMMA BeginKeeps ==
    ASSUME Inv, NEW kind \in Kinds, Begin(kind)
    PROVE  Inv'
  <1>1. /\ client' \in Clients
        /\ client'.pc = "check" /\ client'.kind = kind /\ client'.last = "none"
    BY DEF Inv, TypeOK, Begin, Clients, ClientSteps, Results
  <1>2. broker' \in Brokers /\ gh' \in Ghs
    BY ProcessAssumption DEF Begin, Brokers, BrokerSteps, NotStarted, Ghs, GhSteps, Results
  <1>3. helper' \in HelperSteps /\ got' \in 0..Size
    BY ProcessAssumption DEF Begin, HelperSteps
  <1>4. TypeOK'
    BY <1>1, <1>2, <1>3 DEF Inv, TypeOK, Begin
  <1>5. QED
    BY <1>1, <1>4 DEF Begin, Inv, ClientInv, BrokerInv, ChildrenInv, NotStarted, WithResult

LEMMA SpawnKeeps ==
    ASSUME Inv, Spawn
    PROVE  Inv'
  <1>1. CASE Intact(Pinned)
    <2>1. TypeOK'
      BY <1>1 DEF Inv, TypeOK, Spawn, Clients, ClientSteps, Brokers, BrokerSteps, NotStarted
    <2>2. QED
      BY <1>1, <2>1 DEF Spawn, Inv, TypeOK, Clients, Brokers, ClientInv, BrokerInv,
                        ChildrenInv, NotStarted, WithResult
  <1>2. CASE ~Intact(Pinned)
    BY <1>2, ReturnError DEF Spawn, Inv, ClientInv
  <1>3. QED
    BY <1>1, <1>2

LEMMA SendRequestKeeps ==
    ASSUME Inv, SendRequest
    PROVE  Inv'
  <1>1. TypeOK'
    BY DEF Inv, TypeOK, SendRequest, Clients, ClientSteps, Brokers, BrokerSteps
  <1>2. QED
    BY <1>1
       DEF Inv, TypeOK, Clients, Brokers, Ghs, ClientInv, BrokerInv, ChildrenInv, NotStarted,
           WithResult, SendRequest

LEMMA ObserveKeeps ==
    ASSUME Inv, Observe
    PROVE  Inv'
  <1>1. CASE broker.status = "ok"
    <2>1. TypeOK'
      BY <1>1 DEF Inv, TypeOK, Observe, Clients, ClientSteps
    <2>2. QED
      BY <1>1, <2>1 DEF Observe, PipesClosed, Inv, TypeOK, Clients, ClientInv, BrokerInv,
                        ChildrenInv, NotStarted, WithResult
  <1>2. CASE broker.status # "ok"
    BY <1>2, ReturnError DEF Observe, PipesClosed
  <1>3. QED
    BY <1>1, <1>2

LEMMA DeadlineKeeps ==
    ASSUME Inv, Deadline
    PROVE  Inv'
  <1>1. TypeOK'
    BY DEF Inv, TypeOK, Deadline, KillGroup, WithBroker, Clients, ClientSteps, Brokers,
           BrokerSteps, Ghs, GhSteps, HelperSteps
  <1>2. QED
    BY <1>1
       DEF Inv, TypeOK, Clients, Brokers, Ghs, ClientInv, BrokerInv, ChildrenInv, NotStarted,
           WithResult, Deadline, KillGroup, WithBroker

LEMMA JoinKeeps ==
    ASSUME Inv, Join
    PROVE  Inv'
  BY ReturnError DEF Join, PipesClosed

LEMMA ConfirmKeeps ==
    ASSUME Inv, Confirm
    PROVE  Inv'
  <1>1. CASE Return("ok")
    <2>1. TypeOK'
      BY <1>1, ReturnSets DEF Inv, TypeOK, Confirm
    <2>2. QED
      BY <1>1, <2>1, ReturnSets DEF Confirm, Inv, ClientInv, BrokerInv, ChildrenInv,
                                    NotStarted, WithResult
  <1>2. CASE Return("error")
    BY <1>2, ReturnError DEF Confirm, Inv, ClientInv
  <1>3. QED
    BY <1>1, <1>2 DEF Confirm

LEMMA DropScratchKeeps ==
    ASSUME Inv, DropScratch
    PROVE  Inv'
  <1>1. TypeOK'
    BY DEF Inv, TypeOK, DropScratch, Clients, ClientSteps
  <1>2. QED
    BY <1>1
       DEF Inv, TypeOK, Clients, Brokers, Ghs, ClientInv, BrokerInv, ChildrenInv, NotStarted,
           WithResult, DropScratch

-----------------------------------------------------------------------------
(* The steps of the broker                                                 *)

LEMMA EnterKeeps ==
    ASSUME Inv, Enter
    PROVE  Inv'
  <1>1. /\ broker' \in Brokers
        /\ broker'.pc = "request" /\ broker'.bound
        /\ broker'.request = broker.request /\ broker'.status = broker.status
    BY DEF Inv, TypeOK, Enter, Brokers, BrokerSteps, NotStarted
  <1>2. TypeOK'
    BY <1>1 DEF Inv, TypeOK, Enter
  <1>3. QED
    BY <1>1, <1>2 DEF Enter, Inv, ClientInv, BrokerInv, ChildrenInv, NotStarted, WithResult

LEMMA ReadRequestKeeps ==
    ASSUME Inv, ReadRequest
    PROVE  Inv'
  <1>1. CASE broker.request
    <2>1. TypeOK'
      BY <1>1 DEF Inv, TypeOK, ReadRequest, Brokers, BrokerSteps, NotStarted
    <2>2. QED
      BY <1>1, <2>1 DEF ReadRequest, Inv, TypeOK, Brokers, ClientInv, BrokerInv,
                        ChildrenInv, NotStarted, WithResult
  <1>2. CASE ~broker.request
    BY <1>2, ExitError DEF ReadRequest, Inv, TypeOK, BrokerInv, NotStarted
  <1>3. QED
    BY <1>1, <1>2

\* Two digests pin gh: the client's of the configuration, its of gh.
LEMMA ReadConfigKeeps ==
    ASSUME Inv, ReadConfig
    PROVE  Inv'
  <1>1. CASE AcceptConfig /\ AcceptGh
    <2>1. version["gh"] = 0
      BY <1>1 DEF AcceptConfig, AcceptGh, Intact
    <2>2. TypeOK'
      BY <1>1, <2>1 DEF Inv, TypeOK, ReadConfig, Brokers, BrokerSteps, NotStarted, Ghs
    <2>3. QED
      BY <1>1, <2>1, <2>2 DEF ReadConfig, Inv, TypeOK, Brokers, Ghs, ClientInv, BrokerInv,
                              ChildrenInv, NotStarted, WithResult
  <1>2. CASE ~(AcceptConfig /\ AcceptGh)
    BY <1>2, ExitError DEF ReadConfig, Inv, TypeOK, ClientInv, BrokerInv, NotStarted
  <1>3. QED
    BY <1>1, <1>2

LEMMA PrepareKeeps ==
    ASSUME Inv, Prepare
    PROVE  Inv'
  <1>1. CASE Exit("error") /\ UNCHANGED <<scratch, file>>
    BY <1>1, ExitError DEF Prepare, Inv, TypeOK, ClientInv, BrokerInv, NotStarted
  <1>2. CASE /\ BrokerTo("home")
             /\ scratch' = scratch \cup (IF Kind("upload") THEN {"upload"} ELSE {})
             /\ file' = IF Kind("download") THEN [mode |-> "0600", pieces |-> 0] ELSE file
    <2>1. file' \in Downloads \cup {Absent} /\ (Kind("download") => file' \in Downloads)
      BY <1>2, ProcessAssumption DEF Inv, TypeOK, Downloads
    <2>2. TypeOK'
      BY <1>2, <2>1 DEF Inv, TypeOK, Prepare, Brokers, BrokerSteps, NotStarted
    <2>3. QED
      BY <1>2, <2>1, <2>2 DEF Prepare, Inv, TypeOK, Brokers, ClientInv, BrokerInv,
                              ChildrenInv, NotStarted, WithResult
  <1>3. QED
    BY <1>1, <1>2 DEF Prepare

LEMMA MakeHomeKeeps ==
    ASSUME Inv, MakeHome
    PROVE  Inv'
  <1>1. TypeOK'
    BY DEF Inv, TypeOK, MakeHome, Brokers, BrokerSteps, NotStarted
  <1>2. QED
    BY <1>1
       DEF Inv, TypeOK, Clients, Brokers, Ghs, ClientInv, BrokerInv, ChildrenInv, NotStarted,
           WithResult, MakeHome

LEMMA SpawnGhKeeps ==
    ASSUME Inv, SpawnGh
    PROVE  Inv'
  <1>1. TypeOK'
    BY DEF Inv, TypeOK, SpawnGh, Brokers, BrokerSteps, Ghs, GhSteps
  <1>2. QED
    BY <1>1
       DEF Inv, TypeOK, Clients, Brokers, Ghs, ClientInv, BrokerInv, ChildrenInv, NotStarted,
           WithResult, SpawnGh

LEMMA DrainKeeps ==
    ASSUME Inv, Drain
    PROVE  Inv'
  <1>1. TypeOK'
    BY ProcessAssumption DEF Inv, TypeOK, Drain, Ghs
  <1>2. QED
    BY <1>1
       DEF Inv, TypeOK, Clients, Brokers, Ghs, ClientInv, BrokerInv, ChildrenInv, NotStarted,
           WithResult, Drain

LEMMA SupervisedKeeps ==
    ASSUME Inv, Supervised
    PROVE  Inv'
  <1>1. TypeOK'
    BY DEF Inv, TypeOK, Supervised, Contain, Succeeded, Brokers, BrokerSteps, WithResult, Ghs,
           GhSteps
  <1>2. QED
    BY <1>1
       DEF Inv, TypeOK, Clients, Brokers, Ghs, ClientInv, BrokerInv, ChildrenInv, NotStarted,
           WithResult, Supervised, Contain, Succeeded

LEMMA UnsupervisedKeeps ==
    ASSUME Inv, Unsupervised
    PROVE  Inv'
  <1>1. TypeOK'
    BY DEF Inv, TypeOK, Unsupervised, Contain, Brokers, BrokerSteps, Ghs, GhSteps
  <1>2. QED
    BY <1>1
       DEF Inv, TypeOK, Clients, Brokers, Ghs, ClientInv, BrokerInv, ChildrenInv, NotStarted,
           WithResult, Unsupervised, Contain

LEMMA ForkSettlementKeeps ==
    ASSUME Inv, ForkSettlement
    PROVE  Inv'
  <1>1. TypeOK'
    BY DEF Inv, TypeOK, ForkSettlement, Brokers, BrokerSteps, WithResult, HelperSteps
  <1>2. QED
    BY <1>1
       DEF Inv, TypeOK, Clients, Brokers, Ghs, ClientInv, BrokerInv, ChildrenInv, NotStarted,
           WithResult, ForkSettlement

LEMMA SettledKeeps ==
    ASSUME Inv, Settled
    PROVE  Inv'
  <1>1. TypeOK'
    BY DEF Inv, TypeOK, Settled, Brokers, BrokerSteps, WithResult
  <1>2. QED
    BY <1>1
       DEF Inv, TypeOK, Clients, Brokers, Ghs, ClientInv, BrokerInv, ChildrenInv, NotStarted,
           WithResult, Settled

LEMMA HelperDeadlineKeeps ==
    ASSUME Inv, HelperDeadline
    PROVE  Inv'
  <1>1. TypeOK'
    BY DEF Inv, TypeOK, HelperDeadline, Brokers, BrokerSteps, HelperSteps
  <1>2. QED
    BY <1>1
       DEF Inv, TypeOK, Clients, Brokers, Ghs, ClientInv, BrokerInv, ChildrenInv, NotStarted,
           WithResult, HelperDeadline

LEMMA ForkCleanupKeeps ==
    ASSUME Inv, ForkCleanup
    PROVE  Inv'
  <1>1. TypeOK'
    BY DEF Inv, TypeOK, ForkCleanup, Brokers, BrokerSteps, HelperSteps
  <1>2. QED
    BY <1>1
       DEF Inv, TypeOK, Clients, Brokers, Ghs, ClientInv, BrokerInv, ChildrenInv, NotStarted,
           WithResult, ForkCleanup

LEMMA CleanedKeeps ==
    ASSUME Inv, Cleaned
    PROVE  Inv'
  <1>1. TypeOK'
    BY DEF Inv, TypeOK, Cleaned, Brokers, BrokerSteps
  <1>2. QED
    BY <1>1
       DEF Inv, TypeOK, Clients, Brokers, Ghs, ClientInv, BrokerInv, ChildrenInv, NotStarted,
           WithResult, Cleaned

\* The helper that settled a download has ended by now.
LEMMA AnswerKeeps ==
    ASSUME Inv, Answer
    PROVE  Inv'
  <1>1. ~HelperAlive /\ gh.pc = "succeeded" /\ got = Size
    BY DEF Answer, Inv, TypeOK, HelperSteps, BrokerInv, ChildrenInv, WithResult
  <1>2. CASE Exit("ok")
    <2>1. TypeOK'
      BY <1>2, ExitSets DEF Inv, TypeOK, Answer
    <2>2. QED
      BY <1>1, <1>2, <2>1, ExitSets DEF Answer, Inv, ClientInv, BrokerInv, ChildrenInv,
                                        NotStarted, WithResult
  <1>3. CASE Exit("error")
    BY <1>1, <1>3, ExitError DEF Answer, Inv, TypeOK, ClientInv
  <1>4. QED
    BY <1>2, <1>3 DEF Answer

LEMMA ReleaseKeeps ==
    ASSUME Inv, Release
    PROVE  Inv'
  <1>1. ~HelperAlive /\ gh.pc \notin {"forked", "running"}
    BY DEF Release, Inv, TypeOK, HelperSteps, ChildrenInv
  <1>2. QED
    BY <1>1, ExitError DEF Release, Inv, TypeOK, ClientInv

-----------------------------------------------------------------------------
(* The steps of the helper, of gh and of GitHub                            *)

LEMMA HelperCopyKeeps ==
    ASSUME Inv, HelperCopy
    PROVE  Inv'
  <1>1. file \in Downloads /\ got \in 0..Size
    BY DEF Inv, TypeOK, HelperCopy, ChildrenInv
  <1>2. file' \in Downloads /\ helper' \in {"copy", "readback"}
    BY <1>1, ProcessAssumption DEF HelperCopy, Downloads
  <1>3. TypeOK'
    BY <1>2 DEF Inv, TypeOK, HelperCopy, HelperSteps
  <1>4. QED
    BY <1>2, <1>3 DEF HelperCopy, Inv, ClientInv, BrokerInv, ChildrenInv, NotStarted, WithResult

LEMMA HelperReadbackKeeps ==
    ASSUME Inv, HelperReadback
    PROVE  Inv'
  <1>1. TypeOK'
    BY DEF Inv, TypeOK, HelperReadback, HelperSteps
  <1>2. QED
    BY <1>1
       DEF Inv, TypeOK, Clients, Brokers, Ghs, ClientInv, BrokerInv, ChildrenInv, NotStarted,
           WithResult, HelperReadback

LEMMA HelperFailKeeps ==
    ASSUME Inv, HelperFail
    PROVE  Inv'
  <1>1. TypeOK'
    BY DEF Inv, TypeOK, HelperFail, HelperSteps
  <1>2. QED
    BY <1>1
       DEF Inv, TypeOK, Clients, Brokers, Ghs, ClientInv, BrokerInv, ChildrenInv, NotStarted,
           WithResult, HelperFail

LEMMA HelperUnlinkKeeps ==
    ASSUME Inv, HelperUnlink
    PROVE  Inv'
  <1>1. TypeOK'
    BY DEF Inv, TypeOK, HelperUnlink, HelperSteps
  <1>2. QED
    BY <1>1
       DEF Inv, TypeOK, Clients, Brokers, Ghs, ClientInv, BrokerInv, ChildrenInv, NotStarted,
           WithResult, HelperUnlink

LEMMA GhEnterKeeps ==
    ASSUME Inv, GhEnter
    PROVE  Inv'
  <1>1. TypeOK'
    BY DEF Inv, TypeOK, GhEnter, ParentIsBroker, Ghs, GhSteps
  <1>2. QED
    BY <1>1
       DEF Inv, TypeOK, Clients, Brokers, Ghs, ClientInv, BrokerInv, ChildrenInv, NotStarted,
           WithResult, GhEnter, ParentIsBroker

LEMMA GhAskKeeps ==
    ASSUME Inv, GhAsk
    PROVE  Inv'
  <1>1. TypeOK'
    BY DEF Inv, TypeOK, GhAsk
  <1>2. QED
    BY <1>1
       DEF Inv, TypeOK, Clients, Brokers, Ghs, ClientInv, BrokerInv, ChildrenInv, NotStarted,
           WithResult, GhAsk

LEMMA ServeKeeps ==
    ASSUME Inv, Serve
    PROVE  Inv'
  <1>1. TypeOK'
    BY DEF Inv, TypeOK, Serve
  <1>2. QED
    BY <1>1
       DEF Inv, TypeOK, Clients, Brokers, Ghs, ClientInv, BrokerInv, ChildrenInv, NotStarted,
           WithResult, Serve

LEMMA GhWriteKeeps ==
    ASSUME Inv, GhWrite
    PROVE  Inv'
  <1>1. TypeOK'
    BY ProcessAssumption DEF Inv, TypeOK, GhWrite, Ghs, GhSteps
  <1>2. QED
    BY <1>1
       DEF Inv, TypeOK, Clients, Brokers, Ghs, ClientInv, BrokerInv, ChildrenInv, NotStarted,
           WithResult, GhWrite

LEMMA GhExitKeeps ==
    ASSUME Inv, GhExit
    PROVE  Inv'
  <1>1. TypeOK'
    BY DEF Inv, TypeOK, GhExit, Ghs, GhSteps
  <1>2. QED
    BY <1>1
       DEF Inv, TypeOK, Clients, Brokers, Ghs, ClientInv, BrokerInv, ChildrenInv, NotStarted,
           WithResult, GhExit

-----------------------------------------------------------------------------
(* Faults                                                                  *)

LEMMA UpgradeKeeps ==
    ASSUME Inv, NEW tool \in Tools, Upgrade(tool)
    PROVE  Inv'
  <1>1. TypeOK'
    BY DEF Inv, TypeOK, Upgrade, Tools, Pinned
  <1>2. QED
    BY <1>1
       DEF Inv, TypeOK, Clients, Brokers, Ghs, ClientInv, BrokerInv, ChildrenInv, NotStarted,
           WithResult, Upgrade

LEMMA KillBrokerKeeps ==
    ASSUME Inv, KillBroker
    PROVE  Inv'
  <1>1. TypeOK'
    BY DEF Inv, TypeOK, KillBroker, Kill, WithBroker, Clients, ClientSteps, Brokers,
           BrokerSteps, Ghs, GhSteps
  <1>2. QED
    BY <1>1
       DEF Inv, TypeOK, Clients, Brokers, Ghs, ClientInv, BrokerInv, ChildrenInv, NotStarted,
           WithResult, KillBroker, Kill, WithBroker

LEMMA KillClientKeeps ==
    ASSUME Inv, KillClient
    PROVE  Inv'
  <1>1. TypeOK'
    BY DEF Inv, TypeOK, KillClient, Kill, WithBroker, Clients, ClientSteps, Brokers,
           BrokerSteps, Ghs, GhSteps
  <1>2. QED
    BY <1>1
       DEF Inv, TypeOK, Clients, Brokers, Ghs, ClientInv, BrokerInv, ChildrenInv, NotStarted,
           WithResult, KillClient, Kill, WithBroker

-----------------------------------------------------------------------------
(* Together                                                                *)

\* Every step, one process at a time.
LEMMA NextInv == Inv /\ [Next]_vars => Inv'
  <1> SUFFICES ASSUME Inv, [Next]_vars PROVE Inv'
    OBVIOUS
  <1>1. CASE ClientStep
    BY <1>1, SpawnKeeps, SendRequestKeeps, ObserveKeeps, DeadlineKeeps, JoinKeeps,
       ConfirmKeeps, DropScratchKeeps
       DEF ClientStep
  <1>2. CASE BrokerStep
    BY <1>2, EnterKeeps, ReadRequestKeeps, ReadConfigKeeps, PrepareKeeps, MakeHomeKeeps,
       SpawnGhKeeps, DrainKeeps, SupervisedKeeps, UnsupervisedKeeps, ForkSettlementKeeps,
       SettledKeeps, HelperDeadlineKeeps, ForkCleanupKeeps, CleanedKeeps, AnswerKeeps,
       ReleaseKeeps
       DEF BrokerStep
  <1>3. CASE OtherStep
    BY <1>3, HelperCopyKeeps, HelperReadbackKeeps, HelperFailKeeps, HelperUnlinkKeeps,
       GhEnterKeeps, GhAskKeeps, ServeKeeps, GhWriteKeeps, GhExitKeeps
       DEF OtherStep
  <1>4. CASE \E kind \in Kinds : Begin(kind)
    BY <1>4, BeginKeeps
  <1>5. CASE \E tool \in Tools : Upgrade(tool)
    BY <1>5, UpgradeKeeps
  <1>6. CASE KillBroker \/ KillClient
    BY <1>6, KillBrokerKeeps, KillClientKeeps
  <1>7. CASE UNCHANGED vars
    BY <1>7 DEF vars, Inv, TypeOK, ClientInv, BrokerInv, ChildrenInv
  <1>8. QED
    BY <1>1, <1>2, <1>3, <1>4, <1>5, <1>6, <1>7 DEF Next

\* Client, broker, gh and helper are where the others let them be, whatever is
\* killed or replaced and whichever deadline passes.
THEOREM ProcessesInOrder == Spec => []Inv
  <1>1. QED
    BY InitInv, NextInv, PTL DEF Spec

\* What the transport reports as done was done by GitHub, and a download was
\* drained to its last piece, whoever was killed or upgraded and when
\* (Confirm, Answer, Supervised).
THEOREM DoneWasServed == Spec => []OkIsServed
  <1>1. Inv => OkIsServed
    BY DEF Inv, ClientInv, BrokerInv, ChildrenInv, OkIsServed
  <1>2. QED
    BY <1>1, ProcessesInOrder, PTL

\* Two digests, checked when the broker reads its configuration, are enough for
\* no other gh than the pinned one ever to run (ReadConfig, SpawnGh).
THEOREM OnlyThePinnedRuns == Spec => []OnlyPinnedGhRuns
  <1>1. Inv => OnlyPinnedGhRuns
    BY DEF Inv, ChildrenInv, OnlyPinnedGhRuns
  <1>2. QED
    BY <1>1, ProcessesInOrder, PTL

\* No gh runs without the broker and the client that contain it, and no process
\* is left of a request that has returned (GhEnter, KillClient, Observe, Join).
THEOREM NobodyIsStranded == Spec => []NothingStranded
  <1>1. Inv => NothingStranded
    BY DEF Inv, ClientInv, BrokerInv, ChildrenInv, NotStarted, NothingStranded
  <1>2. QED
    BY <1>1, ProcessesInOrder, PTL
===============================================================================
