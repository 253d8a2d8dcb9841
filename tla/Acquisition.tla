------------------------------ MODULE Acquisition ------------------------------
(***************************************************************************)
(* catalog-acquire: one of its commands.  The caller is a future: it       *)
(* fetches each object into the command's cache (http.rs), then has a      *)
(* bundle published (lib.rs, bundle_writer.rs).  What touches the disk     *)
(* runs on a worker thread, which before its last step offers to publish   *)
(* and waits for the caller's decision; the caller can meanwhile be        *)
(* cancelled, pass its deadline, or be dropped.  Both publications use one *)
(* control here: the tentative flag and decision of a cache object         *)
(* (http.rs) are the states "working" to "authorized" of the bundle's      *)
(* (lib.rs), which alone has "claimed".                                    *)
(* The worker first verifies the graph of the packages (npm.rs); that of   *)
(* acquire_installer_release itself fetches and replays the installer's    *)
(* discovery, and that of discover_inputs writes what it observed.  These  *)
(* start here with their fetches made.                                     *)
(***************************************************************************)
EXTENDS BundleRules, NpmGraph

CONSTANTS
    Fetches,   \* sequence of the objects to fetch: digest, url, origins, profile
    Urls,      \* where a server may redirect to
    Size,      \* pieces of every object
    Bundles,   \* what write_verified_bundle may be asked to write
    Graphs,    \* function to the requests of verify_npm_graph
    Installers \* function to the requests of acquire_installer_release: the
               \* records of a release, and what the servers serve of it

ASSUME AcquisitionAssumption ==
    Fetches \in Seq(Range(Fetches)) \ {<<>>} /\ Size \in Nat \ {0}

\* What a command may be asked for and served.
ASSUME RequestAssumption ==
    /\ \A request \in Bundles : IsList(request.objects)
    /\ \A id \in DOMAIN Graphs : IsGraphRequest(Graphs[id])
    /\ \A id \in DOMAIN Installers : IsServed(Installers[id].served)

\* A bundle has room for the records and the input, and for as many packages
\* as a discovery may find, of an installer's of their greatest total size.
ASSUME RoomAssumption ==
    /\ {MaxLocked, MaxPackages, MaxInstaller} \subseteq Nat
    /\ MaxLocked + 8 <= MaxEntries /\ MaxLocked + 8 <= MaxManifest /\ MaxLocked + 4 <= MaxEntry
    /\ MaxPackages + 4 <= MaxEntries /\ MaxPackages + 4 <= MaxManifest /\ MaxPackages <= MaxEntry
    /\ MaxInstaller <= MaxEntry /\ MaxInstaller + MaxPackages + 3 <= MaxTotal

VARIABLES
    caller,     \* pc, the fetch it is at, what it has received, its result
    hops,       \* URLs asked in this fetch
    cancelled,  \* AcquisitionCancellation
    expired,    \* the deadline of this fetch has passed
    control,    \* "working", "ready", "authorized", "claimed" or "abort"
    woken,      \* the caller's Notified was notified since it was made
    mutex,      \* holder of the decision mutex
    worker,     \* pc of the blocking task, and the bundle it was given
    cache,      \* each digest: "absent", "linked" or "object"
    output,     \* "absent", "ours" or "other"
    durable     \* of the output: "tree" and "name"

vars == <<caller, hops, cancelled, expired, control, woken, mutex, worker, cache, output, durable>>
disk == <<cache, output, durable>>
sync == <<control, woken, mutex>>

Digests == {Fetches[i].digest : i \in DOMAIN Fetches}
NoBundle == <<>>

Init ==
    /\ \E command \in {"write", "acquire", "discover", "installer"} :
          caller = [pc |-> "fetch", n |-> IF command = "write" THEN 1 ELSE Len(Fetches) + 1,
                    got |-> 0, exact |-> TRUE, result |-> "none", command |-> command]
    /\ hops = <<>> /\ cancelled = FALSE /\ expired = FALSE
    /\ control = "working" /\ woken = FALSE /\ mutex = "free"
    /\ worker = [pc |-> "none", bundle |-> NoBundle]
    /\ cache = [d \in Digests |-> "absent"]
    /\ output = "absent" /\ durable = {}

Bundling   == caller.n > Len(Fetches)
Command(command) == caller.command = command
Wanted     == Fetches[caller.n]
Finished   == worker.pc \in {"ok", "failed"}
At(pc)     == caller.pc = pc
WorkerAt(pc) == worker.pc = pc
CallerTo(pc) == caller' = [caller EXCEPT !.pc = pc]
WorkerTo(pc) == worker' = [worker EXCEPT !.pc = pc]
Return(result) == caller' = [caller EXCEPT !.pc = "returned", !.result = result]

\* check_ready: a bundle has no deadline.
Interruption ==
    IF cancelled THEN "cancelled" ELSE IF expired /\ ~Bundling THEN "timeout" ELSE "none"
Interrupted == Interruption # "none"

NextFetch == [caller EXCEPT !.pc = "fetch", !.n = @ + 1, !.got = 0, !.exact = TRUE]

-----------------------------------------------------------------------------
(* The caller: one fetch                                                   *)

\* fetch_exact and the start of fetch: the cache is asked first.
StartFetch ==
    /\ At("fetch") /\ ~Bundling
    /\ expired' = FALSE
    /\ IF cancelled THEN Return("cancelled") /\ UNCHANGED hops
       ELSE IF ~ValidRequest(Wanted.url, Wanted.origins, Wanted.profile)
       THEN Return("error") /\ UNCHANGED hops
       ELSE IF cache[Wanted.digest] = "object"
       THEN caller' = NextFetch /\ UNCHANGED hops
       ELSE CallerTo("hop") /\ hops' = <<Wanted.url>>
    /\ UNCHANGED <<cancelled, sync, worker, disk>>

\* await_phase: cancellation and deadline before the answer.
Interrupt ==
    /\ caller.pc \in {"hop", "body", "settle"} /\ Interrupted
    /\ Return(Interruption)
    /\ UNCHANGED <<hops, cancelled, expired, sync, worker, disk>>

Redirected(next, form) ==
    /\ At("hop") /\ ~Interrupted
    /\ IF Follows(hops, next, form, Wanted.origins, Wanted.profile)
       THEN hops' = Append(hops, next) /\ UNCHANGED caller
       ELSE Return("error") /\ UNCHANGED hops
    /\ UNCHANGED <<cancelled, expired, sync, worker, disk>>

\* A status other than OK, a wrong content length, or no answer.
Refused ==
    /\ caller.pc \in {"hop", "body"} /\ ~Interrupted
    /\ Return("error")
    /\ UNCHANGED <<hops, cancelled, expired, sync, worker, disk>>

Answered ==
    /\ At("hop") /\ ~Interrupted
    /\ CallerTo("body") /\ hops' = <<>>
    /\ UNCHANGED <<cancelled, expired, sync, worker, disk>>

Chunk(exact) ==
    /\ At("body") /\ ~Interrupted
    /\ IF caller.got = Size THEN Return("error")
       ELSE caller' = [caller EXCEPT !.got = @ + 1, !.exact = @ /\ exact]
    /\ UNCHANGED <<hops, cancelled, expired, sync, worker, disk>>

\* The end of the body: its size and digests.
EndOfBody ==
    /\ At("body") /\ ~Interrupted
    /\ IF caller.got = Size /\ caller.exact THEN CallerTo("settle") ELSE Return("error")
    /\ UNCHANGED <<hops, cancelled, expired, sync, worker, disk>>

\* settle_temporary, then publish starts its task.
Settle ==
    /\ At("settle") /\ ~Interrupted
    /\ CallerTo("poll") /\ WorkerTo("begin")
    /\ control' = "working"
    /\ UNCHANGED <<hops, cancelled, expired, woken, mutex, disk>>

-----------------------------------------------------------------------------
(* The caller: a publication                                               *)

StartBundle ==
    /\ At("fetch") /\ Bundling
    /\ IF cancelled THEN Return("cancelled") /\ UNCHANGED <<worker, control>>
       ELSE CallerTo("poll") /\ WorkerTo("begin") /\ control' = "working"
    /\ UNCHANGED <<hops, cancelled, expired, woken, mutex, disk>>

\* ready and tentative make their Notified before they read the state.
Register ==
    /\ At("poll") /\ woken' = FALSE
    /\ CallerTo("check")
    /\ UNCHANGED <<hops, cancelled, expired, control, mutex, worker, disk>>

\* The worker sleeps on the condition variable.
Wake == IF WorkerAt("asleep") THEN WorkerTo("lock") ELSE UNCHANGED worker

\* A slip: the decision is stored and signalled without the mutex.
DecideUnlocked(from, decision) ==
    /\ control' = IF control \in from THEN decision ELSE control
    /\ IF control \in from THEN Wake ELSE UNCHANGED worker
    /\ UNCHANGED <<woken, mutex>>

\* decide, authorize and abort: a compare-and-swap under the mutex.
Decide(from, decision) ==
    /\ mutex = "free"
    /\ control' = IF control \in from THEN decision ELSE control
    /\ IF control \in from THEN Wake ELSE UNCHANGED worker
    /\ UNCHANGED <<woken, mutex>>

\* A cache object's decision is final; a bundle's only once it is claimed.
Abort == Decide(IF Bundling THEN {"working", "ready", "authorized"} ELSE {"working", "ready"},
                "abort")

\* The caller gives up and waits for the worker; an abort that came after the
\* claim leaves the worker's result.
GiveUp ==
    /\ Abort
    /\ caller' = [caller EXCEPT !.pc = "join",
                    !.result = IF control = "claimed" THEN "none" ELSE Interruption]

WorkerResult == IF WorkerAt("ok") THEN "ok" ELSE "error"

Accepted(result) ==
    IF result # "ok" THEN Return(result)
    ELSE IF Command("discover") THEN Return("ok")
    ELSE IF Bundling THEN CallerTo("reopen") ELSE caller' = NextFetch

\* The biased select: interruption, the worker's offer, its end.
Select ==
    /\ At("check")
    /\ IF Interrupted THEN GiveUp
       ELSE /\ \/ control # "working" /\ CallerTo("offered")
               \/ control = "working" /\ Finished /\ CallerTo("join")
               \/ control = "working" /\ ~Finished /\ CallerTo("asleep")
            /\ UNCHANGED <<sync, worker>>
    /\ UNCHANGED <<hops, cancelled, expired, disk>>

Awake ==
    /\ At("asleep") /\ (woken \/ Interrupted \/ Finished)
    /\ CallerTo("poll")
    /\ UNCHANGED <<hops, cancelled, expired, sync, worker, disk>>

\* The offer is decided: not after an interruption.
Offered ==
    /\ At("offered")
    /\ IF Interrupted THEN GiveUp
       ELSE Decide({"ready"}, "authorized") /\ CallerTo(IF Bundling THEN "await" ELSE "join")
    /\ UNCHANGED <<hops, cancelled, expired, disk>>

\* The second select of a bundle.
AwaitBundle ==
    /\ At("await")
    /\ \/ cancelled /\ GiveUp
       \/ ~cancelled /\ Finished /\ CallerTo("join") /\ UNCHANGED <<sync, worker>>
    /\ UNCHANGED <<hops, cancelled, expired, disk>>

Join ==
    /\ At("join") /\ Finished
    /\ Accepted(IF caller.result = "none" THEN WorkerResult ELSE caller.result)
    /\ WorkerTo("none")
    /\ UNCHANGED <<hops, cancelled, expired, sync, disk>>

\* run_acquire reads back what it published.
Reopen ==
    /\ At("reopen")
    /\ Return(IF VerifyTransferred(Tree(worker.bundle)) THEN "ok" ELSE "error")
    /\ UNCHANGED <<hops, cancelled, expired, sync, worker, disk>>

\* The guards' Drop aborts, unless the decision was already given.
Guarded == caller.pc \in {"poll", "check", "asleep", "offered", "await"}
DropCaller ==
    /\ caller.pc \in {"hop", "body", "settle", "asleep", "await", "join"}
    /\ IF Guarded THEN Abort ELSE UNCHANGED <<sync, worker>>
    /\ CallerTo("dropped")
    /\ UNCHANGED <<hops, cancelled, expired, disk>>

CallerStep ==
    \/ StartFetch \/ Interrupt \/ Refused \/ Answered \/ EndOfBody \/ Settle
    \/ \E next \in Urls, form \in LocationForms : Redirected(next, form)
    \/ \E exact \in BOOLEAN : Chunk(exact)
    \/ StartBundle \/ Register \/ Select \/ Awake \/ Offered \/ AwaitBundle \/ Join \/ Reopen

-----------------------------------------------------------------------------
(* The worker                                                              *)

Quiet == UNCHANGED <<caller, hops, cancelled, expired>>

\* The task of publish: nothing is linked after an abort or an interruption.
BeginObject ==
    /\ WorkerAt("begin") /\ ~Bundling
    /\ IF control = "abort" \/ Interrupted
       THEN WorkerTo("failed") /\ UNCHANGED cache
       ELSE WorkerTo("linked") /\ cache' = [cache EXCEPT ![Wanted.digest] = "linked"]
    /\ Quiet /\ UNCHANGED <<sync, output, durable>>

\* sync, verification of the named object, sync; each may fail or find the
\* fetch interrupted.
CheckObject ==
    /\ WorkerAt("linked")
    /\ \/ WorkerTo("undo")
       \/ ~Interrupted /\ WorkerTo("mark")
    /\ Quiet /\ UNCHANGED <<sync, disk>>

\* A slip: a decision to abort is only an error.
LeaveObject == cache' = cache

RemoveObject == cache' = [cache EXCEPT ![Wanted.digest] = "absent"]

UndoObject ==
    /\ WorkerAt("undo")
    /\ RemoveObject
    /\ WorkerTo("failed")
    /\ Quiet /\ UNCHANGED <<sync, output, durable>>

\* preflight_verified_bundle and OutputRoot::create.
Preflight(request) ==
    worker' = IF Accepts(request) /\ output = "absent"
              THEN [pc |-> "write", bundle |-> request]
              ELSE [worker EXCEPT !.pc = "failed"]

BeginBundle(request) ==
    /\ WorkerAt("begin") /\ Bundling /\ Command("write")
    /\ Preflight(request)
    /\ Quiet /\ UNCHANGED <<sync, disk>>

\* verify_npm_graph, in the worker; another request fails.
Verifiable == {id \in DOMAIN Graphs : GraphVerifies(Graphs[id])}
VerifyGraph ==
    /\ WorkerAt("begin") /\ Command("acquire")
    /\ \E id \in Verifiable : worker' = [pc |-> "verified", bundle |-> id]
    /\ Quiet /\ UNCHANGED <<sync, disk>>

\* source_material: an intent, or a source with its qualification.
SourceRecords(kind) ==
    LET roles == IF kind = "catalog_source" THEN {"catalog_source", "qualification"} ELSE {kind}
    IN  {[role |-> role, digest |-> role, size |-> 1] : role \in roles \cup {"package_inputs"}}

\* The archives, and the two documents extracted from the root's.
GraphBundle(request, kind) ==
    LET Object(digest, size) == [digest |-> digest, url |-> digest, size |-> size, intact |-> TRUE]
    IN  [kind |-> kind, claims |-> kind = "catalog_source", records |-> SourceRecords(kind),
         objects |-> <<Object("node", 1), Object(request.intent.root, 1),
                       Object("manifest", 1), Object("shrinkwrap", 1)>>
                       \o [i \in DOMAIN request.intent.locked |->
                              [digest |-> request.intent.locked[i].digest,
                               url |-> request.intent.locked[i].url,
                               size |-> request.inputs.locked[i].size, intact |-> TRUE]]]

SourceKinds == {"release_intent", "catalog_source"}
WriteGraph ==
    /\ WorkerAt("verified")
    /\ \E kind \in SourceKinds : Preflight(GraphBundle(Graphs[worker.bundle], kind))
    /\ Quiet /\ UNCHANGED <<sync, disk>>

\* The worker of discover_inputs, then write_discovery's root; the one file
\* that it writes into it is not told apart.
Observable == {id \in DOMAIN Graphs : Observes(Graphs[id].intent, Graphs[id].served)}
ObserveInputs ==
    /\ WorkerAt("begin") /\ Command("discover")
    /\ Observable # {}
    /\ WorkerTo(IF output = "absent" THEN "write" ELSE "failed")
    /\ Quiet /\ UNCHANGED <<sync, disk>>

\* acquire_with_control comes through its replay; another one fails.
Replayable ==
    {id \in DOMAIN Installers : Replays(Installers[id].recorded, Installers[id].served)}
ReplayInstaller ==
    /\ WorkerAt("begin") /\ Command("installer") /\ ~cancelled
    /\ \E id \in Replayable : worker' = [pc |-> "replayed", bundle |-> id]
    /\ Quiet /\ UNCHANGED <<sync, disk>>

\* The records and the observed archives, each from its own descriptor.
InstallerBundle(request, kind) ==
    [kind |-> kind, claims |-> kind = "catalog_source", records |-> SourceRecords(kind),
     objects |-> SetToSeq({[digest |-> p.digest, url |-> p.url, size |-> p.size, intact |-> TRUE] :
                              p \in request.recorded})]

WriteInstaller ==
    /\ WorkerAt("replayed")
    /\ IF cancelled THEN WorkerTo("failed")
       ELSE \E kind \in SourceKinds : Preflight(InstallerBundle(Installers[worker.bundle], kind))
    /\ Quiet /\ UNCHANGED <<sync, disk>>

WriteTree ==
    /\ WorkerAt("write")
    /\ WorkerTo(IF Command("discover") \/ Writable(worker.bundle) THEN "verify" ELSE "failed")
    /\ durable' = durable \cup {"tree"}
    /\ Quiet /\ UNCHANGED <<sync, cache, output>>

\* verify_transferred_bundle_root of the staged tree, and prepare.
VerifyTree ==
    /\ WorkerAt("verify")
    /\ WorkerTo(IF Command("discover") \/ VerifyTransferred(Tree(worker.bundle))
                THEN "mark" ELSE "failed")
    /\ Quiet /\ UNCHANGED <<sync, disk>>

\* A fetch, an archive, the creation of the output, a write or a sync fails.
WorkerFails ==
    /\ \/ worker.pc \in {"verified", "replayed", "write", "verify", "bind"}
       \/ WorkerAt("begin") /\ Bundling
    /\ WorkerTo("failed")
    /\ Quiet /\ UNCHANGED <<sync, disk>>

\* mark_tentative, which takes no mutex; wait_for_authorization's transition,
\* which fails after an abort and signals before it lets go of the mutex.
Offer ==
    /\ WorkerAt("mark")
    /\ Bundling => mutex = "free"
    /\ IF control = "working"
       THEN /\ control' = "ready" /\ WorkerTo("notify")
            /\ mutex' = IF Bundling THEN "worker" ELSE mutex
       ELSE /\ WorkerTo(IF Bundling THEN "failed" ELSE "notify")
            /\ UNCHANGED <<control, mutex>>
    /\ Quiet /\ UNCHANGED <<woken, disk>>

NotifyCaller ==
    /\ WorkerAt("notify")
    /\ woken' = (woken \/ caller.pc \in {"check", "asleep"})
    /\ mutex' = IF Bundling THEN "free" ELSE mutex
    /\ WorkerTo("lock")
    /\ Quiet /\ UNCHANGED <<control, disk>>

Lock ==
    /\ WorkerAt("lock") /\ mutex = "free"
    /\ mutex' = "worker" /\ WorkerTo("load")
    /\ Quiet /\ UNCHANGED <<control, woken, disk>>

\* wait_for_decision, wait_for_authorization: the state is read under the mutex
\* that the wait gives up.
Load ==
    /\ WorkerAt("load")
    /\ IF control \in {"working", "ready"} THEN WorkerTo("wait") /\ UNCHANGED <<mutex, cache>>
       ELSE /\ mutex' = "free"
            /\ IF control # "authorized"
               THEN WorkerTo(IF Bundling THEN "failed" ELSE "undo") /\ UNCHANGED cache
               ELSE IF Bundling THEN WorkerTo("bind") /\ UNCHANGED cache
               ELSE WorkerTo("ok") /\ cache' = [cache EXCEPT ![Wanted.digest] = "object"]
    /\ Quiet /\ UNCHANGED <<control, woken, output, durable>>

Wait ==
    /\ WorkerAt("wait")
    /\ mutex' = "free" /\ WorkerTo("asleep")
    /\ Quiet /\ UNCHANGED <<control, woken, disk>>

Bind ==
    /\ WorkerAt("bind")
    /\ WorkerTo("claim")
    /\ Quiet /\ UNCHANGED <<sync, disk>>

\* A slip: having been authorized is enough.
ClaimAnyway ==
    /\ WorkerAt("claim") /\ mutex = "free"
    /\ control' = IF control = "authorized" THEN "claimed" ELSE control
    /\ WorkerTo("rename")
    /\ Quiet /\ UNCHANGED <<woken, mutex, disk>>

\* claim_publication: the last step before the rename.
Claim ==
    /\ WorkerAt("claim") /\ mutex = "free"
    /\ control' = IF control = "authorized" THEN "claimed" ELSE control
    /\ WorkerTo(IF control = "authorized" THEN "rename" ELSE "failed")
    /\ Quiet /\ UNCHANGED <<woken, mutex, disk>>

Rename ==
    /\ WorkerAt("rename")
    /\ output' = IF output = "absent" THEN "ours" ELSE output
    /\ WorkerTo(IF output = "absent" THEN "sync" ELSE "failed")
    /\ Quiet /\ UNCHANGED <<sync, cache, durable>>

\* The parent's fsync; when it fails the output stays all the same.
SyncParent ==
    \/ durable' = durable \cup {"name"} /\ WorkerTo("ok")
    \/ UNCHANGED durable /\ WorkerTo("failed")

SyncName ==
    /\ WorkerAt("sync") /\ SyncParent
    /\ Quiet /\ UNCHANGED <<sync, cache, output>>

WorkerStep ==
    \/ BeginObject \/ CheckObject \/ UndoObject
    \/ WorkerFails \/ WriteTree \/ VerifyTree
    \/ Offer \/ NotifyCaller \/ Lock \/ Load \/ Wait
    \/ Bind \/ Claim \/ Rename \/ SyncName

\* What a command does before its first write; WorkerFails is its other end.
Prepare ==
    \/ \E request \in Bundles : BeginBundle(request)
    \/ VerifyGraph \/ WriteGraph \/ ObserveInputs \/ ReplayInstaller \/ WriteInstaller

-----------------------------------------------------------------------------
(* The environment                                                         *)

Running == caller.pc \notin {"returned", "dropped", "dead"}

Cancel ==
    /\ Running /\ ~cancelled /\ cancelled' = TRUE
    /\ UNCHANGED <<caller, hops, expired, sync, worker, disk>>

Expire ==
    /\ Running /\ ~Bundling /\ ~expired /\ ~At("fetch") /\ expired' = TRUE
    /\ UNCHANGED <<caller, hops, cancelled, sync, worker, disk>>

\* Another command publishes to the same name.
OtherOutput ==
    /\ Bundling /\ Running /\ output = "absent" /\ output' = "other"
    /\ UNCHANGED <<caller, hops, cancelled, expired, sync, worker, cache, durable>>

\* The power fails: what was not made durable may be lost.
PowerLoss ==
    /\ caller.pc # "dead" /\ CallerTo("dead") /\ WorkerTo("dead")
    /\ output' \in {output} \cup (IF output = "ours" /\ durable # {"tree", "name"}
                                  THEN {"absent"} ELSE {})
    /\ UNCHANGED <<hops, cancelled, expired, sync, cache, durable>>

Next ==
    \/ CallerStep \/ WorkerStep \/ Prepare
    \/ DropCaller \/ Cancel \/ Expire \/ OtherOutput \/ PowerLoss

Spec == Init /\ [][Next]_vars

\* The runtime polls a ready future, the pool runs the worker, which can fail
\* wherever it prepares, and time passes.
FairSpec == Spec /\ WF_vars(CallerStep) /\ WF_vars(WorkerStep) /\ WF_vars(Expire)

-----------------------------------------------------------------------------
(* Properties                                                              *)

WorkerIdle == worker.pc \in {"none", "ok", "failed"}

\* A fetch that was given up leaves no object in the cache once its worker has
\* ended, however the offer and the interruption met; nor does a dropped one
\* leave an object nobody decided about.
NothingLeftBehind ==
    WorkerIdle /\ caller.pc \in {"returned", "dropped"} =>
        /\ \A d \in Digests : cache[d] # "linked"
        /\ ~Bundling /\ control = "abort" => cache[Wanted.digest] = "absent"

\* A release reported as cancelled, or whose future was dropped before the
\* claim, is not published, then or later by a worker that outlives the caller.
CancelledIsUnpublished ==
    output = "ours" => control = "claimed" /\ caller.result \notin {"cancelled", "timeout"}

\* What discover_pi_release does not see to: that an archive of the registry has
\* one URL, and is neither Node's, the root's nor one of its documents; that no
\* package is larger than an entry may be (a fetch stops at 512 MiB); and that all
\* of them leave room in a bundle for the rest of it.
Archives(inputs) ==
    {File("objects", inputs.locked[i].digest, inputs.locked[i].size) : i \in DOMAIN inputs.locked}
FitsBundle(request) ==
    LET locked == request.inputs.locked
    IN  /\ \A i, j \in DOMAIN locked : locked[i].digest = locked[j].digest => locked[i].url = locked[j].url
        /\ \A i \in DOMAIN locked :
              /\ locked[i].digest \notin {"node", request.intent.root, "manifest", "shrinkwrap"}
              /\ locked[i].size <= MaxEntry
        /\ Total(Archives(request.inputs)) + MaxLocked + 11 <= MaxTotal

\* Nothing is fetched in vain: what a discovery recorded verifies again and
\* passes the preflight, and a bundle that does can be written and is accepted
\* by the reader of the written directory.
AsDiscovered ==
    {id \in DOMAIN Graphs : /\ DiscoversPi(Graphs[id].served)
                            /\ Graphs[id] = DiscoveredRequest(Graphs[id].served)}
NothingInVain ==
    /\ WorkerAt("begin") /\ Command("acquire") => AsDiscovered \subseteq Verifiable
    /\ WorkerAt("verified") /\ worker.bundle \in AsDiscovered =>
        \A kind \in SourceKinds : Accepts(GraphBundle(Graphs[worker.bundle], kind))
    /\ WorkerAt("replayed") =>
        \A kind \in SourceKinds : Accepts(InstallerBundle(Installers[worker.bundle], kind))
    /\ WorkerAt("write") /\ ~Command("discover") =>
        Writable(worker.bundle) /\ VerifyTransferred(Tree(worker.bundle))

\* A verified graph, and a replayed installer release, work: npm would install
\* what is required on the target, from archives that unpack to what was
\* verified.
Works ==
    {id \in DOMAIN Installers : Installable(Installers[id].served)}
GraphWorks == {id \in DOMAIN Graphs : PackagesWork(Graphs[id])}
VerifiedIsInstallable ==
    /\ WorkerAt("replayed") => worker.bundle \in Works
    /\ WorkerAt("verified") => worker.bundle \in GraphWorks

\* The three fetchers of the repository have one redirect policy, but for what
\* they read of a Location (http.rs and catalog-latest-transport each have their
\* own single_location, discovery has none).  A fetch of the latest catalog by
\* the acquisition has come only where the client's transport would have, and
\* goes on exactly where the transport does by a Location that the acquisition
\* reads: the transport follows ones with a backslash, a space or a tab too.
\* Discovery goes where a later fetch of the same asset does when the Location
\* is one that fetch reads, and by other Locations too.
FetchersAgree ==
    At("hop") =>
        /\ Wanted.url = LatestUrl =>
              /\ LatestReaches(hops)
              /\ \A next \in Urls, form \in LocationForms :
                    Follows(hops, next, form, Wanted.origins, Wanted.profile)
                        <=> ReadsLocation(form) /\ LatestFollows(hops, next, form)
        /\ Wanted.profile = "github" =>
              \A next \in Urls, form \in LocationForms :
                  DiscoveryFollows(hops, next) /\ ReadsLocation(form)
                      => Follows(hops, next, form, Wanted.origins, "github")

\* However cancellation, deadline, drop and offer meet, the caller returns and
\* the worker ends: no signal is lost between a check and a wait.
AcquireSettles ==
    <>(caller.pc \in {"returned", "dropped", "dead"} /\ worker.pc \in {"none", "ok", "failed", "dead"})
=============================================================================
