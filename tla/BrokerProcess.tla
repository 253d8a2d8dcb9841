----------------------------- MODULE BrokerProcess -----------------------------
(***************************************************************************)
(* One authenticated request to GitHub: the workflow's transport           *)
(* (github.rs) and broker client (broker_client.rs) in one process, the    *)
(* broker (broker.rs, bin/catalog-gh-broker.rs) it starts, the `gh' the    *)
(* broker starts, and the helper the broker forks to write a download.     *)
(* Every process can stop for good or be killed, deadlines can pass at any *)
(* time, and the programs and configurations can be upgraded meanwhile.    *)
(***************************************************************************)
EXTENDS Integers, FiniteSets

CONSTANTS
    Size,         \* pieces in which an answer or an asset arrives
    Absent,       \* no output file
    MaxRequests,  \* bound: requests of one workflow command
    MaxKills,     \* bound: processes killed
    MaxUpgrades   \* bound: files replaced

ASSUME ProcessAssumption ==
    Size \in Nat \ {0} /\ {MaxRequests, MaxKills, MaxUpgrades} \subseteq Nat

Kinds == {"read", "mutate", "upload", "download"}
Pinned == {"clientConfig", "broker", "publisherConfig"}
Tools  == Pinned \cup {"gh"}

VARIABLES
    version,   \* of each file by its name; the client pinned version 0
    client,    \* pc, kind of request, and what the last request returned
    broker,    \* pc, and whether its death signal and its request arrived
    gh,        \* pc, version, pieces written to its standard output
    helper,    \* pc of the forked helper
    server,    \* what GitHub has done about the request
    got,       \* pieces the broker has drained
    file,      \* the download: its mode and its pieces
    scratch,   \* temporary directories that exist
    spent      \* requests, kills and upgrades so far

vars == <<version, client, broker, gh, helper, server, got, file, scratch, spent>>
work == <<helper, server, got, file, scratch>>

Init ==
    /\ version = [t \in Tools |-> 0]
    /\ client = [pc |-> "idle", kind |-> "read", last |-> "none"]
    /\ broker = [pc |-> "none", bound |-> FALSE, request |-> FALSE, status |-> "none"]
    /\ gh = [pc |-> "none", version |-> 0, out |-> 0]
    /\ helper = "none" /\ server = "none" /\ got = 0
    /\ file = Absent /\ scratch = {}
    /\ spent = [requests |-> 0, kills |-> 0, upgrades |-> 0]

Kind(kind)     == client.kind = kind
ClientAlive    == client.pc # "dead"
BrokerAlive    == broker.pc \notin {"none", "exited", "dead"}
HelperAlive    == helper \notin {"none", "ok", "failed", "dead"}
Intact(tools)  == \A t \in tools : version[t] = 0
ClientAt(step) == client.pc = step
BrokerAt(step) == broker.pc = step
ClientTo(step) == client' = [client EXCEPT !.pc = step]
BrokerTo(step) == broker' = [broker EXCEPT !.pc = step]

\* What a dying broker takes along: PR_SET_PDEATHSIG of gh, which was set
\* before gh was entered.
WithBroker(child) == IF child.pc = "running" THEN [child EXCEPT !.pc = "dead"] ELSE child

-----------------------------------------------------------------------------
(* The client                                                              *)

\* upload_asset and download_asset make a scratch directory; write_source
\* fills it.  The others start with the request.
Begin(kind) ==
    /\ ClientAt("idle") /\ spent.requests < MaxRequests
    /\ client' = [client EXCEPT !.pc = "check", !.kind = kind, !.last = "none"]
    /\ scratch' = scratch \cup (IF kind \in {"upload", "download"} THEN {"client"} ELSE {})
    /\ broker' = [pc |-> "none", bound |-> FALSE, request |-> FALSE, status |-> "none"]
    /\ gh' = [pc |-> "none", version |-> 0, out |-> 0]
    /\ helper' = "none" /\ server' = "none" /\ got' = 0
    /\ spent' = [spent EXCEPT !.requests = @ + 1]
    /\ UNCHANGED <<version, file>>

Return(result) == client' = [client EXCEPT !.pc = "drop", !.last = result]

\* revalidate, then the fork of the broker.
Spawn ==
    /\ ClientAt("check")
    /\ IF Intact(Pinned)
       THEN ClientTo("spawned") /\ BrokerTo("forked")
       ELSE Return("error") /\ UNCHANGED broker
    /\ UNCHANGED <<version, gh, work, spent>>

\* Only once the broker has been entered does spawn return and the writer
\* thread send the request.
SendRequest ==
    /\ ClientAt("spawned") /\ broker.bound
    /\ ClientTo("await")
    /\ broker' = [broker EXCEPT !.request = TRUE]
    /\ UNCHANGED <<version, gh, work, spent>>

\* Everything that holds the broker's standard output and error.
PipesClosed == ~BrokerAlive /\ ~HelperAlive

\* supervise, process_group_absent and the shape of the response.
Observe ==
    /\ ClientAt("await") /\ PipesClosed
    /\ IF broker.status = "ok" THEN ClientTo("confirm") ELSE Return("error")
    /\ UNCHANGED <<version, broker, gh, work, spent>>

\* A slip: only the broker is killed, not its process group.
KillLeader ==
    /\ BrokerTo("dead") /\ gh' = WithBroker(gh) /\ UNCHANGED helper

\* terminate_and_reap: the process group holds the broker and its helpers.
KillGroup ==
    /\ BrokerTo("dead") /\ gh' = WithBroker(gh)
    /\ helper' = IF HelperAlive THEN "dead" ELSE helper

Deadline ==
    /\ ClientAt("await")
    /\ KillGroup
    /\ ClientTo("join")
    /\ UNCHANGED <<version, server, got, file, scratch, spent>>

\* The threads at the pipes end when nobody holds their other end.
Join ==
    /\ ClientAt("join") /\ PipesClosed
    /\ Return("error")
    /\ UNCHANGED <<version, broker, gh, work, spent>>

\* revalidate again, the comparison of the answer with the request, and for a
\* download read_output: the file sealed at mode 0400, of the expected size.
Confirm ==
    /\ ClientAt("confirm")
    /\ Return(IF Intact(Pinned) /\ (Kind("download") => file = [mode |-> "0400", pieces |-> Size])
              THEN "ok" ELSE "error")
    /\ UNCHANGED <<version, broker, gh, work, spent>>

DropScratch ==
    /\ ClientAt("drop")
    /\ ClientTo("idle")
    /\ scratch' = scratch \ {"client"}
    /\ file' = Absent
    /\ UNCHANGED <<version, broker, gh, helper, server, got, spent>>

-----------------------------------------------------------------------------
(* The broker                                                              *)

\* The child of the client binds its life to the client's, then is entered.
\* There is no second look at the parent: a client killed before leaves a
\* broker that reads an empty request.
Enter ==
    /\ BrokerAt("forked")
    /\ broker' = [broker EXCEPT !.pc = "request", !.bound = TRUE]
    /\ UNCHANGED <<version, client, gh, work, spent>>

\* The end of the process: Err is one line and status 1.
Exit(status) == broker' = [broker EXCEPT !.pc = "exited", !.status = status]

ReadRequest ==
    /\ BrokerAt("request") /\ (broker.request \/ ~ClientAlive)
    /\ IF broker.request THEN BrokerTo("config") ELSE Exit("error")
    /\ UNCHANGED <<version, client, gh, work, spent>>

\* A slip: the configuration is taken for whatever the path now names.
AcceptAnyConfig == TRUE

\* The configuration of the digest the client pinned.
AcceptConfig == Intact({"publisherConfig"})

\* A gh of the digest the configuration names.
AcceptGh == version["gh"] = version["publisherConfig"]

ReadConfig ==
    /\ BrokerAt("config")
    /\ IF AcceptConfig /\ AcceptGh
       THEN /\ BrokerTo("prepare") /\ gh' = [gh EXCEPT !.version = version["gh"]]
       ELSE /\ Exit("error") /\ UNCHANGED gh
    /\ UNCHANGED <<version, client, work, spent>>

\* materialize_upload copies the source; create_download creates the output.
\* Each may fail.
Prepare ==
    /\ BrokerAt("prepare")
    /\ \/ /\ BrokerTo("home")
          /\ scratch' = scratch \cup (IF Kind("upload") THEN {"upload"} ELSE {})
          /\ file' = IF Kind("download") THEN [mode |-> "0600", pieces |-> 0] ELSE file
       \/ /\ client.kind \in {"upload", "download"}
          /\ Exit("error") /\ UNCHANGED <<scratch, file>>
    /\ UNCHANGED <<version, client, gh, helper, server, got, spent>>

MakeHome ==
    /\ BrokerAt("home")
    /\ \/ BrokerTo("rebind") /\ scratch' = scratch \cup {"home"}
       \/ BrokerTo("cleanup") /\ UNCHANGED scratch
    /\ UNCHANGED <<version, client, gh, helper, server, got, file, spent>>

\* The retained files must still be those the names name; then the fork.
Rebound == version["publisherConfig"] = gh.version /\ version["gh"] = gh.version

SpawnGh ==
    /\ BrokerAt("rebind")
    /\ \/ Rebound /\ BrokerTo("supervise") /\ gh' = [gh EXCEPT !.pc = "forked"]
       \/ BrokerTo("cleanup") /\ UNCHANGED gh
    /\ UNCHANGED <<version, client, work, spent>>

\* A slip: the exit status of gh is not looked at.
AnyExit == gh.pc \in {"succeeded", "failed"}

\* supervise_io: the leader's success, and every pipe drained to its end.
Succeeded == gh.pc = "succeeded"

Drain ==
    /\ BrokerAt("supervise") /\ got < gh.out
    /\ got' = got + 1
    /\ UNCHANGED <<version, client, broker, gh, helper, server, file, scratch, spent>>

\* supervise_child: success or not, the process group is killed and reaped
\* before anything else happens; home and configuration are closed.
Contain(next) ==
    /\ BrokerTo(next)
    /\ gh' = IF gh.pc \in {"forked", "running"} THEN [gh EXCEPT !.pc = "dead"] ELSE gh
    /\ scratch' = scratch \ {"home"}

Supervised ==
    /\ BrokerAt("supervise") /\ Succeeded /\ got = gh.out
    /\ Contain(IF Kind("download") THEN "settle" ELSE "answer")
    /\ UNCHANGED <<version, client, helper, server, got, file, spent>>

\* A failure of the leader, a pipe over its limit, or the deadline.
Unsupervised ==
    /\ BrokerAt("supervise")
    /\ Contain("cleanup")
    /\ UNCHANGED <<version, client, helper, server, got, file, spent>>

\* finish_from_spool on the sealed spool: an empty download is refused.
ForkSettlement ==
    /\ BrokerAt("settle")
    /\ IF got > 0 THEN BrokerTo("settling") /\ helper' = "copy"
                  ELSE BrokerTo("cleanup") /\ UNCHANGED helper
    /\ UNCHANGED <<version, client, gh, server, got, file, scratch, spent>>

\* verify_download_after_settlement reads the file back by its name.
Settled ==
    /\ BrokerAt("settling") /\ ~HelperAlive
    /\ BrokerTo(IF helper = "ok" /\ file = [mode |-> "0400", pieces |-> got]
                THEN "answer" ELSE "cleanup")
    /\ UNCHANGED <<version, client, gh, work, spent>>

\* supervise_raw_helper: the deadline kills, whether or not the reap follows.
HelperDeadline ==
    /\ BrokerAt("settling") \/ BrokerAt("cleaning")
    /\ HelperAlive
    /\ helper' = "dead"
    /\ BrokerTo(IF BrokerAt("settling") THEN "cleanup" ELSE "release")
    /\ UNCHANGED <<version, client, gh, server, got, file, scratch, spent>>

\* Drop of a download that was not settled.
ForkCleanup ==
    /\ BrokerAt("cleanup")
    /\ IF Kind("download") THEN BrokerTo("cleaning") /\ helper' = "unlink"
                           ELSE BrokerTo("release") /\ UNCHANGED helper
    /\ UNCHANGED <<version, client, gh, server, got, file, scratch, spent>>

Cleaned ==
    /\ BrokerAt("cleaning") /\ ~HelperAlive
    /\ BrokerTo("release")
    /\ UNCHANGED <<version, client, gh, work, spent>>

\* project_child_response may refuse what it reads in an answer.
Answer ==
    /\ BrokerAt("answer")
    /\ \/ Exit("ok")
       \/ client.kind \in {"read", "mutate"} /\ Exit("error")
    /\ scratch' = scratch \ {"upload"}
    /\ UNCHANGED <<version, client, gh, helper, server, got, file, spent>>

\* Drop of the upload copy and of the home.
Release ==
    /\ BrokerAt("release")
    /\ Exit("error")
    /\ scratch' = scratch \ {"home", "upload"}
    /\ UNCHANGED <<version, client, gh, helper, server, got, file, spent>>

-----------------------------------------------------------------------------
(* The helper, gh and GitHub                                               *)

\* settle_download_raw: copy, hash, fsync, fchmod 0400, fsync, read back.
HelperCopy ==
    /\ helper = "copy"
    /\ IF file.pieces < got
       THEN file' = [file EXCEPT !.pieces = @ + 1] /\ UNCHANGED helper
       ELSE file' = [file EXCEPT !.mode = "0400"] /\ helper' = "readback"
    /\ UNCHANGED <<version, client, broker, gh, server, got, scratch, spent>>

HelperReadback ==
    /\ helper = "readback"
    /\ helper' = IF file = [mode |-> "0400", pieces |-> got] THEN "ok" ELSE "failed"
    /\ UNCHANGED <<version, client, broker, gh, server, got, file, scratch, spent>>

\* A failed read, write, fsync or comparison.
HelperFail ==
    /\ HelperAlive
    /\ helper' = "failed"
    /\ UNCHANGED <<version, client, broker, gh, server, got, file, scratch, spent>>

\* cleanup_download_raw.
HelperUnlink ==
    /\ helper = "unlink"
    /\ helper' = "ok" /\ file' = Absent
    /\ UNCHANGED <<version, client, broker, gh, server, got, scratch, spent>>

\* A slip: after its death signal is set, gh does not look at its parent.
EnterAnyway == TRUE

\* pre_exec: the death signal, and then the parent it was meant for.
ParentIsBroker == BrokerAlive

GhEnter ==
    /\ gh.pc = "forked"
    /\ gh' = [gh EXCEPT !.pc = IF ParentIsBroker THEN "running" ELSE "dead"]
    /\ UNCHANGED <<version, client, broker, work, spent>>

GhAsk ==
    /\ gh.pc = "running" /\ server = "none"
    /\ server' = "asked"
    /\ UNCHANGED <<version, client, broker, gh, helper, got, file, scratch, spent>>

\* GitHub answers, possibly when nobody listens any more, or refuses.
Serve ==
    /\ server = "asked"
    /\ server' \in {"served", "refused"}
    /\ UNCHANGED <<version, client, broker, gh, helper, got, file, scratch, spent>>

\* What GitHub sends, an error message included, goes to standard output.
GhWrite ==
    /\ gh.pc = "running" /\ server \in {"served", "refused"} /\ gh.out < Size
    /\ gh' = [gh EXCEPT !.out = @ + 1]
    /\ UNCHANGED <<version, client, broker, work, spent>>

GhExit ==
    /\ gh.pc = "running"
    /\ \/ server = "served" /\ gh.out = Size /\ gh' = [gh EXCEPT !.pc = "succeeded"]
       \/ gh' = [gh EXCEPT !.pc = "failed"]
    /\ UNCHANGED <<version, client, broker, work, spent>>

-----------------------------------------------------------------------------
(* Faults                                                                  *)

Upgrade(tool) ==
    /\ spent.upgrades < MaxUpgrades /\ version[tool] = 0
    /\ version' = [version EXCEPT ![tool] = 1]
    /\ spent' = [spent EXCEPT !.upgrades = @ + 1]
    /\ UNCHANGED <<client, broker, gh, work>>

Kill == spent.kills < MaxKills /\ spent' = [spent EXCEPT !.kills = @ + 1]

KillBroker ==
    /\ Kill /\ BrokerAlive
    /\ BrokerTo("dead") /\ gh' = WithBroker(gh)
    /\ ClientTo(IF ClientAt("spawned") THEN "join" ELSE client.pc)
    /\ UNCHANGED <<version, work>>

\* The broker dies with the client once it is bound to it.
KillClient ==
    /\ Kill /\ ClientAlive /\ ~ClientAt("idle")
    /\ ClientTo("dead")
    /\ IF BrokerAlive /\ broker.bound
       THEN BrokerTo("dead") /\ gh' = WithBroker(gh)
       ELSE UNCHANGED <<broker, gh>>
    /\ UNCHANGED <<version, work>>

ClientStep ==
    \/ Spawn \/ SendRequest \/ Observe \/ Deadline \/ Join \/ Confirm \/ DropScratch

BrokerStep ==
    \/ Enter \/ ReadRequest \/ ReadConfig \/ Prepare \/ MakeHome \/ SpawnGh
    \/ Drain \/ Supervised \/ Unsupervised
    \/ ForkSettlement \/ Settled \/ HelperDeadline \/ ForkCleanup \/ Cleaned
    \/ Answer \/ Release

OtherStep ==
    \/ HelperCopy \/ HelperReadback \/ HelperFail \/ HelperUnlink
    \/ GhEnter \/ GhAsk \/ Serve \/ GhWrite \/ GhExit

Next ==
    \/ \E kind \in Kinds : Begin(kind)
    \/ ClientStep \/ BrokerStep \/ OtherStep
    \/ \E tool \in Tools : Upgrade(tool)
    \/ KillBroker \/ KillClient

Spec == Init /\ [][Next]_vars

\* Only the code of the client and of the broker, deadlines included, is sure
\* to go on: gh, GitHub and a helper at a file system may stop for ever.
FairSpec == Spec /\ WF_vars(ClientStep) /\ WF_vars(BrokerStep)

-----------------------------------------------------------------------------
(* Properties                                                              *)

\* What the transport reports as done was done: GitHub served the request, and
\* a download is in place complete (supervise_io, broker.rs:1965; Confirm).
OkIsServed == client.last = "ok" => server = "served" /\ (Kind("download") => got = Size)

\* Whatever is upgraded and whenever, the only gh that ever runs is the one
\* pinned, through two digests, by the client's configuration (broker.rs:1062).
OnlyPinnedGhRuns == gh.pc = "running" => gh.version = 0

\* No gh runs unless its broker and the client are there to contain it, and a
\* request that has returned leaves no process behind, whoever was killed when
\* (docs/security-boundaries.md:72, broker.rs:741, broker_client.rs:222).
NothingStranded ==
    /\ gh.pc = "running" => BrokerAlive /\ ClientAlive
    /\ ClientAt("idle") => ~BrokerAlive /\ ~HelperAlive

\* Every request returns, with gh, GitHub and the helper stopped for ever, and
\* with the broker killed (broker_client.rs:296, docs/security-boundaries.md:76).
RequestReturns == ClientAt("check") ~> (ClientAt("idle") \/ ClientAt("dead"))
=============================================================================
