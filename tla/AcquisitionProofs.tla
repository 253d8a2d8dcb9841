--------------------------- MODULE AcquisitionProofs ---------------------------
(***************************************************************************)
(* Proofs about a command of catalog-acquire, for every sequence of        *)
(* fetches, whatever the servers answer and wherever the caller is         *)
(* interrupted, dropped or loses its power.                                *)
(*                                                                         *)
(* What is published depends on a control word that caller and worker      *)
(* change in turn, so the invariant says what the word can be at each step *)
(* of the caller, what the worker has done at each of its own steps, and   *)
(* that a result of cancellation stands only before an abort.              *)
(*                                                                         *)
(* Then the redirect policies are compared: the hops of a fetch of the     *)
(* latest catalog are always ones the other client would follow.           *)
(*                                                                         *)
(* The rest is about what the verifiers accept, for every release: the     *)
(* archives, ranges and closures of InstallerGraph and NpmGraph are those  *)
(* of their references, and a bundle that passes the preflight is one that *)
(* can be written and read back.  Of a recursive function the lemmas say   *)
(* what one step keeps, and UpTo carries it to the last: no operator is a  *)
(* parameter, only the set of the numbers at which it holds.               *)
(***************************************************************************)
EXTENDS Acquisition, TLAPS, WellFoundedInduction, FiniteSetTheorems, SequenceTheorems

CallerSteps == {"fetch", "hop", "body", "settle", "poll", "check", "asleep", "offered",
                "await", "join", "reopen", "returned", "dropped", "dead"}
Fetching    == {"fetch", "hop", "body", "settle"}
Deciding    == {"poll", "check", "asleep", "offered"}

BundleSteps == {"verified", "replayed", "write", "verify", "bind", "claim", "rename", "sync"}
LinkedSteps == {"linked", "mark", "notify", "lock", "load", "wait", "asleep", "undo"}
WorkerSteps == {"none", "begin", "ok", "failed", "dead"} \cup BundleSteps \cup LinkedSteps

Commands == {"write", "acquire", "discover", "installer"}
Results  == {"none", "ok", "error", "cancelled", "timeout"}
Controls == {"working", "ready", "authorized", "claimed", "abort"}
GivenUp  == {"cancelled", "timeout"}

CallerRecord == [pc : CallerSteps, n : 1..(Len(Fetches) + 1), got : Nat, exact : BOOLEAN,
                 result : Results, command : Commands]

AcqTyped ==
    /\ caller \in CallerRecord
    /\ cancelled \in BOOLEAN /\ expired \in BOOLEAN
    /\ control \in Controls
    /\ worker = [pc |-> worker.pc, bundle |-> worker.bundle] /\ worker.pc \in WorkerSteps
    /\ cache \in [Digests -> {"absent", "linked", "object"}]

\* What the caller's step says of the worker, the control word and the result.
CallerPlace ==
    /\ ~Command("write") => Bundling
    /\ caller.pc \in {"hop", "body", "settle"} => ~Bundling
    /\ caller.pc \in {"await", "reopen"} => Bundling
    /\ caller.pc \in Fetching => worker.pc = "none" /\ control \in {"working", "authorized"}
    /\ caller.pc \in Deciding => control \in {"working", "ready"}
    /\ At("offered") => control = "ready"
    /\ caller.pc \in Fetching \cup Deciding \cup {"await", "reopen"} => caller.result = "none"
    /\ At("join") => caller.result \in {"none"} \cup GivenUp

\* What the worker's step says of the control word.
WorkerPlace ==
    /\ worker.pc \in BundleSteps => Bundling
    /\ worker.pc \in {"linked", "undo"} => ~Bundling
    /\ worker.pc \in {"rename", "sync"} => control = "claimed"
    /\ WorkerAt("ok") /\ ~Bundling => control = "authorized"

\* A claim is of a bundle, and is not made for a caller that gave up.
ClaimInv ==
    /\ control = "claimed" => Bundling
    /\ output = "ours" => control = "claimed"
    /\ control = "claimed" => caller.result \notin GivenUp
    /\ caller.result \in GivenUp =>
          worker.pc \in {"none", "ok", "failed", "dead"} \/ control = "abort"

\* An object is linked while its worker is at it, and becomes one of the cache
\* only when that was authorized.
CacheInv ==
    /\ \A d \in Digests : cache[d] = "linked" =>
          ~Bundling /\ d = Wanted.digest /\ worker.pc \in LinkedSteps \cup {"dead"}
    /\ ~Bundling /\ (control = "abort" \/ caller.pc \in {"hop", "body", "settle"} \cup Deciding) =>
          cache[Wanted.digest] # "object"

AcqInv == AcqTyped /\ CallerPlace /\ WorkerPlace /\ ClaimInv /\ CacheInv

-----------------------------------------------------------------------------
(* The records of caller and worker                                        *)

\* The fetches are those of 1 to their number, and the one wanted has a digest.
LEMMA FetchDomain ==
    /\ Len(Fetches) \in Nat /\ DOMAIN Fetches = 1..Len(Fetches) /\ Len(Fetches) >= 1
  BY AcquisitionAssumption

LEMMA WantedDigest ==
    ASSUME caller \in CallerRecord, ~Bundling
    PROVE  caller.n \in DOMAIN Fetches /\ Wanted.digest \in Digests
  <1>1. caller.n \in 1..Len(Fetches)
    BY FetchDomain DEF CallerRecord, Bundling
  <1>2. QED
    BY <1>1, FetchDomain DEF Wanted, Digests

\* A step of the caller changes its pc and nothing else.
LEMMA CallerMoves ==
    ASSUME caller \in CallerRecord, NEW pc \in CallerSteps, CallerTo(pc)
    PROVE  /\ caller' \in CallerRecord
           /\ caller'.pc = pc /\ caller'.n = caller.n
           /\ caller'.result = caller.result /\ caller'.command = caller.command
  BY DEF CallerTo, CallerRecord

\* A command ends with a result.
LEMMA CallerReturns ==
    ASSUME caller \in CallerRecord, NEW result \in Results, Return(result)
    PROVE  /\ caller' \in CallerRecord
           /\ caller'.pc = "returned" /\ caller'.n = caller.n
           /\ caller'.result = result /\ caller'.command = caller.command
  <1>1. "returned" \in CallerSteps
    BY DEF CallerSteps
  <1>2. QED
    BY <1>1 DEF Return, CallerRecord

\* The next fetch, or the bundle after the last one.
LEMMA CallerNext ==
    ASSUME caller \in CallerRecord, ~Bundling, caller' = NextFetch
    PROVE  /\ caller' \in CallerRecord
           /\ caller'.pc = "fetch" /\ caller'.n = caller.n + 1
           /\ caller'.result = caller.result /\ caller'.command = caller.command
  <1>1. "fetch" \in CallerSteps
    BY DEF CallerSteps
  <1>2. caller.n + 1 \in 1..(Len(Fetches) + 1)
    BY FetchDomain DEF CallerRecord, Bundling
  <1>3. QED
    BY <1>1, <1>2 DEF NextFetch, CallerRecord

\* A step of the worker keeps its bundle.
LEMMA WorkerMoves ==
    ASSUME AcqTyped, NEW pc \in WorkerSteps, WorkerTo(pc)
    PROVE  /\ worker' = [pc |-> worker'.pc, bundle |-> worker'.bundle]
           /\ worker'.pc = pc
  BY DEF WorkerTo, AcqTyped

\* The result of a call that was interrupted.
LEMMA InterruptionIs ==
    ASSUME Interrupted
    PROVE  Interruption \in GivenUp /\ Interruption \in Results
  BY DEF Interrupted, Interruption, GivenUp, Results
-----------------------------------------------------------------------------
(* The caller: one fetch                                                   *)

\* Before a fetch the worker is at rest and no object is half linked.
LEMMA NothingLinked ==
    ASSUME AcqInv, worker.pc \in {"none", "begin", "ok", "failed"} \cup BundleSteps
    PROVE  \A d \in Digests : cache[d] # "linked"
  BY DEF AcqInv, CacheInv, LinkedSteps, BundleSteps

LEMMA StepStartFetch ==
    ASSUME AcqInv, StartFetch
    PROVE  AcqInv'
  <1>1. /\ caller \in CallerRecord /\ ~Bundling /\ caller.pc = "fetch"
        /\ worker.pc = "none" /\ control \in {"working", "authorized"} /\ caller.result = "none"
        /\ worker' = worker /\ control' = control /\ cache' = cache /\ output' = output
        /\ cancelled' = cancelled /\ expired' = FALSE /\ Command("write")
    BY DEF StartFetch, AcqInv, AcqTyped, CallerPlace, At, Fetching, sync, disk
  <1>2. CASE Return("cancelled") \/ Return("error")
    <2>1. PICK result \in {"cancelled", "error"} : Return(result)
      BY <1>2
    <2>2. /\ caller' \in CallerRecord /\ caller'.pc = "returned" /\ caller'.n = caller.n
          /\ caller'.result = result /\ caller'.command = caller.command
      BY <1>1, <2>1, CallerReturns DEF Results
    <2>3. AcqTyped'
      BY <1>1, <2>2 DEF AcqInv, AcqTyped
    <2>4. CallerPlace' /\ WorkerPlace'
      BY <1>1, <2>2 DEF AcqInv, CallerPlace, WorkerPlace, At, Bundling, Command, Fetching,
                        Deciding, WorkerAt
    <2>5. ClaimInv'
      BY <1>1, <2>2 DEF AcqInv, ClaimInv, Bundling
    <2>6. CacheInv'
      BY <1>1, <2>2 DEF AcqInv, CacheInv, Bundling, Wanted, Deciding
    <2>7. QED
      BY <2>3, <2>4, <2>5, <2>6 DEF AcqInv
  <1>3. CASE caller' = NextFetch
    <2>1. /\ caller' \in CallerRecord /\ caller'.pc = "fetch" /\ caller'.n = caller.n + 1
          /\ caller'.result = caller.result /\ caller'.command = caller.command
      BY <1>1, <1>3, CallerNext
    <2>2. AcqTyped'
      BY <1>1, <2>1 DEF AcqInv, AcqTyped
    <2>3. CallerPlace' /\ WorkerPlace'
      BY <1>1, <2>1 DEF AcqInv, CallerPlace, WorkerPlace, At, Bundling, Command, Fetching,
                        Deciding, WorkerAt, BundleSteps
    <2>4. ClaimInv'
      BY <1>1, <2>1 DEF AcqInv, ClaimInv, GivenUp
    <2>5. CacheInv'
      BY <1>1, <2>1, NothingLinked DEF CacheInv, Deciding
    <2>6. QED
      BY <2>2, <2>3, <2>4, <2>5 DEF AcqInv
  <1>4. CASE CallerTo("hop") /\ cache[Wanted.digest] # "object"
    <2>1. /\ caller' \in CallerRecord /\ caller'.pc = "hop" /\ caller'.n = caller.n
          /\ caller'.result = caller.result /\ caller'.command = caller.command
      BY <1>1, <1>4, CallerMoves DEF CallerSteps
    <2>2. AcqTyped'
      BY <1>1, <2>1 DEF AcqInv, AcqTyped
    <2>3. CallerPlace' /\ WorkerPlace'
      BY <1>1, <2>1 DEF AcqInv, CallerPlace, WorkerPlace, At, Bundling, Command, Fetching,
                        Deciding, WorkerAt, BundleSteps
    <2>4. ClaimInv'
      BY <1>1, <2>1 DEF AcqInv, ClaimInv, GivenUp
    <2>5. CacheInv'
      BY <1>1, <1>4, <2>1, NothingLinked DEF CacheInv, Wanted
    <2>6. QED
      BY <2>2, <2>3, <2>4, <2>5 DEF AcqInv
  <1>5. QED
    BY <1>2, <1>3, <1>4 DEF StartFetch
\* A step of the caller alone, within one fetch or one bundle.
LEMMA CallerAlone ==
    ASSUME AcqInv, UNCHANGED <<worker, control, cache, output>>,
           caller' \in CallerRecord, caller'.n = caller.n, caller'.command = caller.command,
           cancelled' \in BOOLEAN, expired' \in BOOLEAN,
           CallerPlace',
           caller'.result \in GivenUp =>
              \/ caller.result \in GivenUp
              \/ control # "claimed" /\ (worker.pc = "none" \/ control = "abort"),
           caller'.pc \in {"hop", "body", "settle"} \cup Deciding =>
              caller.pc \in {"hop", "body", "settle"} \cup Deciding
    PROVE  AcqInv'
  <1>1. AcqTyped'
    BY DEF AcqInv, AcqTyped
  <1>2. WorkerPlace'
    BY DEF AcqInv, WorkerPlace, WorkerAt, Bundling
  <1>3. ClaimInv'
    BY DEF AcqInv, ClaimInv, Bundling
  <1>4. CacheInv'
    BY DEF AcqInv, CacheInv, Bundling, Wanted
  <1>5. QED
    BY <1>1, <1>2, <1>3, <1>4 DEF AcqInv

\* A fetch ends with an error or an interruption before its worker started.
LEMMA FetchReturns ==
    ASSUME AcqInv, caller.pc \in Fetching,
           UNCHANGED <<worker, control, cache, output, cancelled, expired>>,
           NEW result \in {"error"} \cup GivenUp, Return(result)
    PROVE  AcqInv'
  <1>1. /\ caller \in CallerRecord /\ worker.pc = "none"
        /\ control \in {"working", "authorized"} /\ caller.result = "none"
    BY DEF AcqInv, AcqTyped, CallerPlace
  <1>2. result \in Results
    BY DEF Results, GivenUp
  <1>3. /\ caller' \in CallerRecord /\ caller'.pc = "returned" /\ caller'.n = caller.n
        /\ caller'.result = result /\ caller'.command = caller.command
    BY <1>1, <1>2, CallerReturns
  <1>4. CallerPlace'
    BY <1>1, <1>3 DEF AcqInv, CallerPlace, At, Bundling, Command, Fetching, Deciding
  <1>5. cancelled' \in BOOLEAN /\ expired' \in BOOLEAN
    BY DEF AcqInv, AcqTyped
  <1>6. QED
    BY <1>1, <1>3, <1>4, <1>5, CallerAlone DEF Deciding

\* A fetch goes on.
LEMMA FetchMoves ==
    ASSUME AcqInv, caller.pc \in {"hop", "body", "settle"},
           UNCHANGED <<worker, control, cache, output, cancelled, expired>>,
           caller' \in CallerRecord, caller'.pc \in {"hop", "body", "settle"},
           caller'.n = caller.n, caller'.result = caller.result, caller'.command = caller.command
    PROVE  AcqInv'
  <1>1. /\ worker.pc = "none"
        /\ control \in {"working", "authorized"} /\ caller.result = "none"
    BY DEF AcqInv, CallerPlace, Fetching
  <1>2. CallerPlace'
    BY <1>1 DEF AcqInv, CallerPlace, At, Bundling, Command, Fetching, Deciding
  <1>3. cancelled' \in BOOLEAN /\ expired' \in BOOLEAN
    BY DEF AcqInv, AcqTyped
  <1>4. caller'.result \notin GivenUp
    BY <1>1 DEF GivenUp
  <1>5. QED
    BY <1>2, <1>3, <1>4, CallerAlone

LEMMA StepFetch ==
    ASSUME AcqInv,
           \/ Interrupt \/ Refused \/ Answered \/ EndOfBody
           \/ \E next \in Urls, form \in LocationForms : Redirected(next, form)
           \/ \E exact \in BOOLEAN : Chunk(exact)
    PROVE  AcqInv'
  <1>1. /\ caller.pc \in {"hop", "body", "settle"} /\ caller.pc \in Fetching
        /\ caller \in CallerRecord
        /\ UNCHANGED <<worker, control, cache, output, cancelled, expired>>
    BY DEF Interrupt, Refused, Answered, EndOfBody, Redirected, Chunk, At, sync, disk, Fetching,
           AcqInv, AcqTyped
  <1>2. CASE Interrupted /\ Return(Interruption)
    BY <1>1, <1>2, FetchReturns, InterruptionIs
  <1>3. CASE Return("error")
    BY <1>1, <1>3, FetchReturns
  <1>4. CASE caller' = caller
    BY <1>1, <1>4, FetchMoves
  <1>5. CASE \E pc \in {"body", "settle"} : CallerTo(pc)
    <2>1. PICK pc \in {"body", "settle"} : CallerTo(pc)
      BY <1>5
    <2>2. pc \in CallerSteps
      BY DEF CallerSteps
    <2>3. QED
      BY <1>1, <2>1, <2>2, CallerMoves, FetchMoves
  <1>6. ASSUME NEW exact \in BOOLEAN,
               caller' = [caller EXCEPT !.got = @ + 1, !.exact = @ /\ exact]
        PROVE  AcqInv'
    <2>1. /\ caller' \in CallerRecord /\ caller'.pc = caller.pc /\ caller'.n = caller.n
          /\ caller'.result = caller.result /\ caller'.command = caller.command
      <3> DEFINE got == caller.got + 1
                 same == caller.exact /\ exact
      <3>1. got \in Nat /\ same \in BOOLEAN
        BY <1>1 DEF CallerRecord
      <3>2. caller' = [caller EXCEPT !.got = got, !.exact = same]
        BY <1>6
      <3> HIDE DEF got, same
      <3>3. QED
        BY <1>1, <3>1, <3>2 DEF CallerRecord
    <2>2. QED
      BY <1>1, <2>1, FetchMoves
  <1>7. \/ Interrupted /\ Return(Interruption)
        \/ Return("error")
        \/ caller' = caller
        \/ \E pc \in {"body", "settle"} : CallerTo(pc)
        \/ \E exact \in BOOLEAN : caller' = [caller EXCEPT !.got = @ + 1, !.exact = @ /\ exact]
    BY DEF Interrupt, Refused, Answered, EndOfBody, Redirected, Chunk
  <1>8. QED
    BY <1>2, <1>3, <1>4, <1>5, <1>6, <1>7

\* A publication starts with the word "working" and a fresh worker.
LEMMA StepStartsWorker ==
    ASSUME AcqInv, Settle \/ (StartBundle /\ ~cancelled)
    PROVE  AcqInv'
  <1>1. /\ CallerTo("poll") /\ WorkerTo("begin") /\ control' = "working"
        /\ UNCHANGED <<cancelled, expired, cache, output>>
        /\ caller.pc \in {"fetch", "settle"} /\ worker.pc = "none"
        /\ control \in {"working", "authorized"} /\ caller.result = "none"
        /\ caller.pc = "fetch" => Bundling
        /\ caller \in CallerRecord
    BY DEF Settle, StartBundle, At, disk, AcqInv, AcqTyped, CallerPlace, Fetching
  <1>2. /\ caller' \in CallerRecord /\ caller'.pc = "poll" /\ caller'.n = caller.n
        /\ caller'.result = caller.result /\ caller'.command = caller.command
    BY <1>1, CallerMoves DEF CallerSteps
  <1>3. worker' = [pc |-> worker'.pc, bundle |-> worker'.bundle] /\ worker'.pc = "begin"
    BY <1>1, WorkerMoves DEF WorkerSteps, AcqInv
  <1>4. AcqTyped'
    BY <1>1, <1>2, <1>3 DEF AcqInv, AcqTyped, Controls, WorkerSteps
  <1>5. CallerPlace' /\ WorkerPlace'
    BY <1>1, <1>2, <1>3 DEF AcqInv, CallerPlace, WorkerPlace, At, Bundling, Command, Fetching,
                            Deciding, WorkerAt, BundleSteps
  <1>6. ClaimInv'
    BY <1>1, <1>2 DEF AcqInv, ClaimInv, GivenUp
  <1>7. CacheInv'
    BY <1>1, <1>2, NothingLinked DEF AcqInv, CacheInv, Wanted, Bundling
  <1>8. QED
    BY <1>4, <1>5, <1>6, <1>7 DEF AcqInv
-----------------------------------------------------------------------------
(* The caller: a publication                                               *)

\* The worker may be woken, by which it goes on from its wait.
LEMMA WakeIs ==
    ASSUME AcqTyped, Wake \/ UNCHANGED worker
    PROVE  /\ worker' = [pc |-> worker'.pc, bundle |-> worker'.bundle]
           /\ worker'.pc \in WorkerSteps
           /\ worker'.pc = worker.pc \/ (worker.pc = "asleep" /\ worker'.pc = "lock")
  <1>1. CASE worker' = worker
    BY <1>1 DEF AcqTyped
  <1>2. CASE WorkerAt("asleep") /\ WorkerTo("lock")
    BY <1>2, WorkerMoves DEF WorkerAt, WorkerSteps, LinkedSteps
  <1>3. QED
    BY <1>1, <1>2 DEF Wake

\* An abort, by a caller that gives up or is dropped: not of what is claimed,
\* and not of an object that was authorized.
LEMMA StepAbort ==
    ASSUME AcqInv, Abort, UNCHANGED <<cache, output, cancelled, expired>>,
           caller.pc \in Deciding \cup {"await"},
           caller' \in CallerRecord, caller'.n = caller.n, caller'.command = caller.command,
           \/ caller'.pc = "dropped" /\ caller'.result = "none"
           \/ /\ caller'.pc = "join"
              /\ caller'.result \in {"none"} \cup GivenUp
              /\ control = "claimed" => caller'.result = "none"
    PROVE  AcqInv'
  <1>1. /\ worker' = [pc |-> worker'.pc, bundle |-> worker'.bundle]
        /\ worker'.pc \in WorkerSteps
        /\ worker'.pc = worker.pc \/ (worker.pc = "asleep" /\ worker'.pc = "lock")
    BY WakeIs DEF AcqInv, Abort, Decide
  <1>2. /\ control' = IF control = "claimed" THEN control ELSE "abort"
        /\ control = "claimed" => Bundling
        /\ control \in Controls
    BY DEF AcqInv, AcqTyped, CallerPlace, ClaimInv, Abort, Decide, Deciding, Controls
  <1>3. caller.result = "none"
    BY DEF AcqInv, CallerPlace
  <1>4. AcqTyped'
    BY <1>1, <1>2 DEF AcqInv, AcqTyped, Controls
  <1>5. CallerPlace'
    BY <1>1, <1>2 DEF AcqInv, CallerPlace, At, Bundling, Command, Fetching, Deciding
  <1>6. WorkerPlace'
    BY <1>1, <1>2 DEF AcqInv, AcqTyped, CallerPlace, WorkerPlace, WorkerAt, Bundling, BundleSteps, Deciding
  <1>7. ClaimInv'
    BY <1>1, <1>2, <1>3 DEF AcqInv, ClaimInv, Bundling, GivenUp
  <1>8. CacheInv'
    <2>1. ~Bundling => cache[Wanted.digest] # "object"
      BY DEF AcqInv, CacheInv, CallerPlace
    <2>2. Bundling' = Bundling /\ Wanted' = Wanted
      BY DEF Bundling, Wanted
    <2>3. worker.pc \in LinkedSteps \cup {"dead"} => worker'.pc \in LinkedSteps \cup {"dead"}
      BY <1>1 DEF LinkedSteps
    <2>4. QED
      BY <2>1, <2>2, <2>3 DEF AcqInv, CacheInv
  <1>9. QED
    BY <1>4, <1>5, <1>6, <1>7, <1>8 DEF AcqInv

LEMMA StepGiveUp ==
    ASSUME AcqInv, GiveUp, UNCHANGED <<cache, output, cancelled, expired>>,
           caller.pc \in Deciding \cup {"await"}, Interrupted
    PROVE  AcqInv'
  <1> DEFINE result == IF control = "claimed" THEN "none" ELSE Interruption
  <1>1. result \in {"none"} \cup GivenUp /\ result \in Results
    BY InterruptionIs DEF Results
  <1>2. caller' = [caller EXCEPT !.pc = "join", !.result = result] /\ Abort
    BY DEF GiveUp
  <1>3. control = "claimed" => result = "none"
    OBVIOUS
  <1> HIDE DEF result
  <1>4. "join" \in CallerSteps /\ caller \in CallerRecord
    BY DEF CallerSteps, AcqInv, AcqTyped
  <1>5. /\ caller' \in CallerRecord /\ caller'.pc = "join" /\ caller'.n = caller.n
        /\ caller'.result = result /\ caller'.command = caller.command
    BY <1>1, <1>2, <1>4 DEF CallerRecord
  <1>6. QED
    BY <1>1, <1>2, <1>3, <1>5, StepAbort
\* A step of the caller that only says where it goes.
LEMMA CallerGoes ==
    ASSUME AcqInv, UNCHANGED <<worker, control, cache, output, cancelled, expired>>,
           NEW pc \in CallerSteps, CallerTo(pc),
           \/ caller.pc \in Deciding /\ pc \in Deciding /\ (pc = "offered" => control = "ready")
           \/ caller.pc \in Deciding \cup {"await"} /\ pc = "join"
           \/ caller.pc \in {"hop", "body", "settle", "join"} /\ pc = "dropped"
    PROVE  AcqInv'
  <1>1. /\ caller' \in CallerRecord /\ caller'.pc = pc /\ caller'.n = caller.n
        /\ caller'.result = caller.result /\ caller'.command = caller.command
    BY CallerMoves DEF AcqInv, AcqTyped
  <1>2. CallerPlace'
    BY <1>1 DEF AcqInv, CallerPlace, At, Bundling, Command, Fetching, Deciding
  <1>3. cancelled' \in BOOLEAN /\ expired' \in BOOLEAN
    BY DEF AcqInv, AcqTyped
  <1>4. caller'.pc \in {"hop", "body", "settle"} \cup Deciding =>
           caller.pc \in {"hop", "body", "settle"} \cup Deciding
    BY <1>1 DEF Deciding
  <1>5. QED
    BY <1>1, <1>2, <1>3, <1>4, CallerAlone

LEMMA StepStartCancelled ==
    ASSUME AcqInv, StartBundle, cancelled
    PROVE  AcqInv'
  <1>1. /\ caller.pc \in Fetching /\ Return("cancelled")
        /\ UNCHANGED <<worker, control, cache, output, cancelled, expired>>
    BY DEF StartBundle, At, disk, Fetching
  <1>2. QED
    BY <1>1, FetchReturns DEF GivenUp

LEMMA StepRegister ==
    ASSUME AcqInv, Register
    PROVE  AcqInv'
  <1>1. /\ caller.pc \in Deciding /\ "check" \in Deciding /\ "check" \in CallerSteps
        /\ CallerTo("check")
        /\ UNCHANGED <<worker, control, cache, output, cancelled, expired>>
    BY DEF Register, At, disk, Deciding, CallerSteps
  <1>2. QED
    BY <1>1, CallerGoes

LEMMA StepAwake ==
    ASSUME AcqInv, Awake
    PROVE  AcqInv'
  <1>1. /\ caller.pc \in Deciding /\ "poll" \in Deciding /\ "poll" \in CallerSteps
        /\ CallerTo("poll")
        /\ UNCHANGED <<worker, control, cache, output, cancelled, expired>>
    BY DEF Awake, At, sync, disk, Deciding, CallerSteps
  <1>2. QED
    BY <1>1, CallerGoes

LEMMA StepSelect ==
    ASSUME AcqInv, Select
    PROVE  AcqInv'
  <1>1. /\ caller.pc = "check" /\ caller.pc \in Deciding
        /\ UNCHANGED <<cache, output, cancelled, expired>>
    BY DEF Select, At, disk, Deciding
  <1>2. CASE Interrupted
    BY <1>1, <1>2, StepGiveUp DEF Select
  <1>3. CASE ~Interrupted
    <2>1. PICK pc \in {"offered", "join", "asleep"} :
             CallerTo(pc) /\ (pc = "offered" => control # "working")
      BY <1>3 DEF Select
    <2>2. UNCHANGED <<worker, control>>
      BY <1>3 DEF Select, sync
    <2>3. pc = "offered" => control = "ready"
      BY <1>1, <2>1 DEF AcqInv, CallerPlace
    <2>4. pc \in CallerSteps /\ (pc \in Deciding \/ pc = "join")
      BY DEF CallerSteps, Deciding
    <2>5. QED
      BY <1>1, <2>1, <2>2, <2>3, <2>4, CallerGoes
  <1>4. QED
    BY <1>2, <1>3

\* The offer is authorized: the caller awaits a bundle, and joins an object.
LEMMA StepOffered ==
    ASSUME AcqInv, Offered
    PROVE  AcqInv'
  <1>1. /\ caller.pc = "offered" /\ caller.pc \in Deciding
        /\ UNCHANGED <<cache, output, cancelled, expired>>
    BY DEF Offered, At, disk, Deciding
  <1>2. CASE Interrupted
    BY <1>1, <1>2, StepGiveUp DEF Offered
  <1>3. CASE ~Interrupted
    <2> DEFINE pc == IF Bundling THEN "await" ELSE "join"
    <2>1. /\ Decide({"ready"}, "authorized") /\ CallerTo(pc)
          /\ pc \in CallerSteps /\ pc \in {"await", "join"} /\ (pc = "await" <=> Bundling)
      BY <1>3 DEF Offered, CallerSteps
    <2> HIDE DEF pc
    <2>2. control = "ready" /\ caller.result = "none" /\ AcqTyped /\ caller \in CallerRecord
      BY <1>1 DEF AcqInv, CallerPlace, At, AcqTyped
    <2>3. control' = "authorized" /\ (Wake \/ UNCHANGED worker)
      BY <2>1, <2>2 DEF Decide
    <2>4. /\ worker' = [pc |-> worker'.pc, bundle |-> worker'.bundle]
          /\ worker'.pc \in WorkerSteps
          /\ worker'.pc = worker.pc \/ (worker.pc = "asleep" /\ worker'.pc = "lock")
      BY <2>2, <2>3, WakeIs
    <2>5. /\ caller' \in CallerRecord /\ caller'.pc = pc /\ caller'.n = caller.n
          /\ caller'.result = caller.result /\ caller'.command = caller.command
      BY <2>1, <2>2, CallerMoves
    <2>6. Bundling' = Bundling /\ Wanted' = Wanted
      BY <2>5 DEF Bundling, Wanted
    <2>7. AcqTyped'
      BY <1>1, <2>2, <2>3, <2>4, <2>5 DEF AcqTyped, Controls
    <2>8. CallerPlace'
      BY <2>1, <2>2, <2>3, <2>5, <2>6 DEF AcqInv, CallerPlace, At, Command, Fetching, Deciding
    <2>9. WorkerPlace'
      BY <2>2, <2>3, <2>4, <2>6 DEF AcqInv, WorkerPlace, WorkerAt, BundleSteps
    <2>10. ClaimInv'
      BY <1>1, <2>2, <2>3, <2>4, <2>5, <2>6 DEF AcqInv, ClaimInv, GivenUp
    <2>11. CacheInv'
      <3>1. worker.pc \in LinkedSteps \cup {"dead"} => worker'.pc \in LinkedSteps \cup {"dead"}
        BY <2>4 DEF LinkedSteps
      <3>2. ~(control = "abort" \/ caller.pc \in {"hop", "body", "settle"} \cup Deciding)'
        BY <2>1, <2>3, <2>5 DEF Deciding
      <3>3. QED
        BY <1>1, <2>6, <3>1, <3>2 DEF AcqInv, CacheInv
    <2>12. QED
      BY <2>7, <2>8, <2>9, <2>10, <2>11 DEF AcqInv
  <1>4. QED
    BY <1>2, <1>3

LEMMA StepAwaitBundle ==
    ASSUME AcqInv, AwaitBundle
    PROVE  AcqInv'
  <1>1. /\ caller.pc = "await" /\ UNCHANGED <<cache, output, cancelled, expired>>
    BY DEF AwaitBundle, At, disk
  <1>2. CASE cancelled /\ GiveUp
    <2>1. Interrupted
      BY <1>2 DEF Interrupted, Interruption
    <2>2. QED
      BY <1>1, <1>2, <2>1, StepGiveUp
  <1>3. CASE CallerTo("join") /\ UNCHANGED <<sync, worker>>
    BY <1>1, <1>3, CallerGoes DEF sync, CallerSteps
  <1>4. QED
    BY <1>2, <1>3 DEF AwaitBundle
\* The worker's end: a result, the next fetch, or the bundle to read back.
LEMMA StepJoin ==
    ASSUME AcqInv, Join
    PROVE  AcqInv'
  <1>1. /\ caller.pc = "join" /\ worker.pc \in {"ok", "failed"} /\ caller \in CallerRecord
        /\ AcqTyped /\ caller.result \in {"none"} \cup GivenUp
        /\ UNCHANGED <<control, cache, output, cancelled, expired>>
        /\ WorkerTo("none")
    BY DEF Join, At, Finished, sync, disk, AcqInv, AcqTyped, CallerPlace
  <1>2. worker' = [pc |-> worker'.pc, bundle |-> worker'.bundle] /\ worker'.pc = "none"
    BY <1>1, WorkerMoves DEF WorkerSteps
  <1>3. \A d \in Digests : cache[d] # "linked"
    BY <1>1, NothingLinked
  <1>4. ASSUME caller' \in CallerRecord PROVE AcqTyped'
    BY <1>1, <1>2, <1>4 DEF AcqTyped, WorkerSteps
  <1>5. ASSUME NEW result \in {"ok", "error"} \cup GivenUp, Return(result),
               result \in GivenUp => caller.result \in GivenUp
        PROVE  AcqInv'
    <2>1. result \in Results
      BY DEF Results, GivenUp
    <2>2. /\ caller' \in CallerRecord /\ caller'.pc = "returned" /\ caller'.n = caller.n
          /\ caller'.result = result /\ caller'.command = caller.command
      BY <1>1, <1>5, <2>1, CallerReturns
    <2>3. CallerPlace' /\ WorkerPlace'
      BY <1>1, <1>2, <2>2 DEF AcqInv, CallerPlace, WorkerPlace, At, WorkerAt, Bundling, Command,
                              Fetching, Deciding, BundleSteps
    <2>4. ClaimInv'
      BY <1>1, <1>2, <1>5, <2>2 DEF AcqInv, ClaimInv, Bundling
    <2>5. CacheInv'
      BY <1>1, <1>3, <2>2 DEF AcqInv, CacheInv, Bundling, Wanted, Deciding
    <2>6. QED
      BY <1>4, <2>2, <2>3, <2>4, <2>5 DEF AcqInv
  <1>6. ASSUME caller.result = "none", worker.pc = "ok", Bundling, CallerTo("reopen")
        PROVE  AcqInv'
    <2>1. /\ caller' \in CallerRecord /\ caller'.pc = "reopen" /\ caller'.n = caller.n
          /\ caller'.result = caller.result /\ caller'.command = caller.command
      BY <1>1, <1>6, CallerMoves DEF CallerSteps
    <2>2. CallerPlace' /\ WorkerPlace'
      BY <1>1, <1>2, <1>6, <2>1 DEF AcqInv, CallerPlace, WorkerPlace, At, WorkerAt, Bundling,
                              Command, Fetching, Deciding, BundleSteps
    <2>3. ClaimInv'
      BY <1>1, <1>2, <2>1 DEF AcqInv, ClaimInv, Bundling
    <2>4. CacheInv'
      BY <1>1, <1>3, <1>6, <2>1 DEF AcqInv, CacheInv, Bundling, Wanted, Deciding
    <2>5. QED
      BY <1>4, <2>1, <2>2, <2>3, <2>4 DEF AcqInv
  <1>7. ASSUME caller.result = "none", worker.pc = "ok", ~Bundling, caller' = NextFetch
        PROVE  AcqInv'
    <2>1. /\ caller' \in CallerRecord /\ caller'.pc = "fetch" /\ caller'.n = caller.n + 1
          /\ caller'.result = caller.result /\ caller'.command = caller.command
      BY <1>1, <1>7, CallerNext
    <2>2. control = "authorized"
      BY <1>7 DEF AcqInv, WorkerPlace, WorkerAt
    <2>3. CallerPlace' /\ WorkerPlace'
      BY <1>1, <1>2, <1>7, <2>1, <2>2 DEF AcqInv, CallerPlace, WorkerPlace, At, WorkerAt, Bundling,
                              Command, Fetching, Deciding, BundleSteps
    <2>4. ClaimInv'
      BY <1>1, <1>2, <1>7, <2>1, <2>2 DEF AcqInv, ClaimInv, GivenUp
    <2>5. CacheInv'
      BY <1>1, <1>3, <2>1, <2>2 DEF CacheInv, Deciding
    <2>6. QED
      BY <1>4, <2>1, <2>3, <2>4, <2>5 DEF AcqInv
  <1>8. CASE caller.result # "none"
    <2>1. caller.result \in GivenUp /\ caller.result # "ok"
      BY <1>1, <1>8 DEF GivenUp
    <2>2. Return(caller.result)
      BY <1>8, <2>1 DEF Join, Accepted
    <2>3. QED
      BY <1>5, <2>1, <2>2
  <1>9. CASE caller.result = "none" /\ worker.pc = "failed"
    <2>1. Return("error")
      BY <1>9 DEF Join, Accepted, WorkerResult, WorkerAt
    <2>2. "error" \notin GivenUp
      BY DEF GivenUp
    <2>3. QED
      BY <1>5, <2>1, <2>2
  <1>10. CASE caller.result = "none" /\ worker.pc = "ok"
    <2>1. \/ Return("ok")
          \/ Bundling /\ CallerTo("reopen")
          \/ ~Bundling /\ caller' = NextFetch
      BY <1>10 DEF Join, Accepted, WorkerResult, WorkerAt
    <2>2. "ok" \notin GivenUp
      BY DEF GivenUp
    <2>3. QED
      BY <1>5, <1>6, <1>7, <1>10, <2>1, <2>2
  <1>11. QED
    BY <1>1, <1>8, <1>9, <1>10

LEMMA StepReopen ==
    ASSUME AcqInv, Reopen
    PROVE  AcqInv'
  <1>1. /\ caller.pc = "reopen" /\ caller \in CallerRecord
        /\ UNCHANGED <<worker, control, cache, output, cancelled, expired>>
    BY DEF Reopen, At, sync, disk, AcqInv, AcqTyped
  <1>2. PICK result \in {"ok", "error"} : Return(result)
    BY DEF Reopen
  <1>3. /\ caller' \in CallerRecord /\ caller'.pc = "returned" /\ caller'.n = caller.n
        /\ caller'.result = result /\ caller'.command = caller.command
    BY <1>1, <1>2, CallerReturns DEF Results
  <1>4. CallerPlace'
    BY <1>1, <1>3 DEF AcqInv, CallerPlace, At, Bundling, Command, Fetching, Deciding
  <1>5. cancelled' \in BOOLEAN /\ expired' \in BOOLEAN
    BY <1>1 DEF AcqInv, AcqTyped
  <1>6. caller'.result \notin GivenUp
    BY <1>3 DEF GivenUp
  <1>7. QED
    BY <1>1, <1>3, <1>4, <1>5, <1>6, CallerAlone DEF Deciding

LEMMA StepDropCaller ==
    ASSUME AcqInv, DropCaller
    PROVE  AcqInv'
  <1>1. /\ caller.pc \in {"hop", "body", "settle", "asleep", "await", "join"}
        /\ CallerTo("dropped") /\ "dropped" \in CallerSteps /\ caller \in CallerRecord
        /\ UNCHANGED <<cache, output, cancelled, expired>>
    BY DEF DropCaller, disk, CallerSteps, AcqInv, AcqTyped
  <1>2. CASE Guarded
    <2>1. caller.pc \in Deciding \cup {"await"} /\ Abort /\ caller.result = "none"
      BY <1>1, <1>2 DEF DropCaller, Guarded, Deciding, AcqInv, CallerPlace
    <2>2. /\ caller' \in CallerRecord /\ caller'.pc = "dropped" /\ caller'.n = caller.n
          /\ caller'.result = caller.result /\ caller'.command = caller.command
      BY <1>1, CallerMoves
    <2>3. QED
      BY <1>1, <2>1, <2>2, StepAbort
  <1>3. CASE ~Guarded
    <2>1. caller.pc \in {"hop", "body", "settle", "join"} /\ UNCHANGED <<worker, control>>
      BY <1>1, <1>3 DEF DropCaller, Guarded, sync
    <2>2. QED
      BY <1>1, <2>1, CallerGoes
  <1>4. QED
    BY <1>2, <1>3
-----------------------------------------------------------------------------
(* The worker                                                              *)

\* A step of the worker that only says where it goes.
LEMMA WorkerAlone ==
    ASSUME AcqInv, UNCHANGED <<caller, control, cache, output, cancelled, expired>>,
           worker' = [pc |-> worker'.pc, bundle |-> worker'.bundle],
           worker'.pc \in WorkerSteps \ {"none"},
           worker.pc \in {"begin"} \cup BundleSteps \cup LinkedSteps,
           worker.pc \in LinkedSteps /\ ~Bundling => worker'.pc \in LinkedSteps,
           WorkerPlace'
    PROVE  AcqInv'
  <1>1. worker.pc \notin {"none", "ok", "failed", "dead"}
    BY DEF BundleSteps, LinkedSteps
  <1>2. caller.pc \notin Fetching
    BY <1>1 DEF AcqInv, CallerPlace
  <1>3. AcqTyped'
    BY DEF AcqInv, AcqTyped
  <1>4. CallerPlace'
    BY <1>2 DEF AcqInv, CallerPlace, At, Bundling, Command
  <1>5. ClaimInv'
    BY <1>1 DEF AcqInv, ClaimInv, Bundling
  <1>6. CacheInv'
    BY <1>1 DEF AcqInv, CacheInv, Bundling, Wanted
  <1>7. QED
    BY <1>3, <1>4, <1>5, <1>6 DEF AcqInv

\* The steps of one publication, each from where it starts.
LEMMA WorkerGoes ==
    ASSUME AcqInv, UNCHANGED <<caller, control, cache, output, cancelled, expired>>,
           NEW pc \in WorkerSteps, WorkerTo(pc),
           \/ worker.pc = "linked" /\ pc \in {"mark", "undo"}
           \/ worker.pc = "mark" /\ pc = "notify"
           \/ worker.pc = "notify" /\ pc = "lock"
           \/ worker.pc = "lock" /\ pc = "load"
           \/ worker.pc = "load" /\ pc = "wait"
           \/ worker.pc = "load" /\ pc = "undo" /\ ~Bundling
           \/ worker.pc = "wait" /\ pc = "asleep"
           \/ worker.pc \in {"mark", "load"} /\ pc \in {"failed", "bind"} /\ Bundling
           \/ worker.pc = "begin" /\ pc = "failed"
           \/ worker.pc = "begin" /\ pc = "write" /\ Bundling
           \/ worker.pc = "write" /\ pc = "verify"
           \/ worker.pc = "verify" /\ pc = "mark"
           \/ worker.pc = "bind" /\ pc = "claim"
           \/ worker.pc \in BundleSteps /\ pc = "failed"
           \/ worker.pc = "sync" /\ pc = "ok"
    PROVE  AcqInv'
  <1>1. /\ worker' = [pc |-> worker'.pc, bundle |-> worker'.bundle] /\ worker'.pc = pc
    BY WorkerMoves DEF AcqInv
  <1>2. worker.pc \in BundleSteps => Bundling
    BY DEF AcqInv, WorkerPlace
  <1>3. WorkerPlace'
    BY <1>1, <1>2 DEF AcqInv, WorkerPlace, WorkerAt, Bundling, BundleSteps
  <1>4. pc # "none" /\ worker.pc \in {"begin"} \cup BundleSteps \cup LinkedSteps
    BY DEF BundleSteps, LinkedSteps
  <1>5. worker.pc \in LinkedSteps /\ ~Bundling => pc \in LinkedSteps
    BY <1>2 DEF LinkedSteps, BundleSteps
  <1>6. QED
    BY <1>1, <1>3, <1>4, <1>5, WorkerAlone

\* A bundle is given to the worker, by a graph that was verified or a request
\* that passed its preflight.
LEMMA WorkerGiven ==
    ASSUME AcqInv, UNCHANGED <<caller, control, cache, output, cancelled, expired>>, Bundling,
           worker.pc \in {"begin", "verified", "replayed"},
           NEW bundle, NEW pc \in {"verified", "replayed", "write"},
           worker' = [pc |-> pc, bundle |-> bundle]
    PROVE  AcqInv'
  <1>1. worker'.pc = pc /\ worker' = [pc |-> worker'.pc, bundle |-> worker'.bundle]
    OBVIOUS
  <1>2. worker'.pc \in WorkerSteps \ {"none"} /\ worker'.pc \in BundleSteps
    BY <1>1 DEF WorkerSteps, BundleSteps
  <1>3. worker.pc \in {"begin"} \cup BundleSteps /\ worker.pc \notin LinkedSteps
    BY DEF BundleSteps, LinkedSteps
  <1>4. WorkerPlace'
    BY <1>1 DEF AcqInv, WorkerPlace, WorkerAt, Bundling, BundleSteps
  <1>5. QED
    BY <1>1, <1>2, <1>3, <1>4, WorkerAlone

LEMMA StepPreflight ==
    ASSUME AcqInv, NEW request, Preflight(request), Bundling,
           worker.pc \in {"begin", "verified", "replayed"},
           UNCHANGED <<caller, control, cache, output, cancelled, expired>>
    PROVE  AcqInv'
  <1>1. CASE worker' = [pc |-> "write", bundle |-> request]
    BY <1>1, WorkerGiven
  <1>2. CASE WorkerTo("failed")
    BY <1>2, WorkerGoes DEF WorkerSteps, BundleSteps
  <1>3. QED
    BY <1>1, <1>2 DEF Preflight, WorkerTo
\* What a command does before its first write.
LEMMA StepPrepare ==
    ASSUME AcqInv, Prepare
    PROVE  AcqInv'
  <1>1. UNCHANGED <<caller, control, cache, output, cancelled, expired>>
    BY DEF Prepare, BeginBundle, VerifyGraph, WriteGraph, ObserveInputs, ReplayInstaller,
           WriteInstaller, Quiet, sync, disk
  <1>2. /\ ~Command("write") => Bundling
        /\ worker.pc \in {"verified", "replayed"} => Bundling
    BY DEF AcqInv, CallerPlace, WorkerPlace, BundleSteps
  <1>3. ASSUME NEW request \in Bundles, BeginBundle(request)
        PROVE  AcqInv'
    BY <1>1, <1>3, StepPreflight DEF BeginBundle, WorkerAt
  <1>4. CASE VerifyGraph
    <2>1. /\ worker.pc = "begin" /\ Bundling
          /\ \E id \in Verifiable : worker' = [pc |-> "verified", bundle |-> id]
      BY <1>2, <1>4 DEF VerifyGraph, WorkerAt, Command
    <2>2. QED
      BY <1>1, <2>1, WorkerGiven
  <1>5. CASE WriteGraph
    <2>1. worker.pc = "verified" /\ \E bundle : Preflight(bundle)
      BY <1>5 DEF WriteGraph, WorkerAt
    <2>2. QED
      BY <1>1, <1>2, <2>1, StepPreflight
  <1>6. CASE ObserveInputs
    <2>1. /\ worker.pc = "begin" /\ Bundling
          /\ WorkerTo("write") \/ WorkerTo("failed")
      BY <1>2, <1>6 DEF ObserveInputs, WorkerAt, Command
    <2>2. QED
      BY <1>1, <2>1, WorkerGoes DEF WorkerSteps, BundleSteps
  <1>7. CASE ReplayInstaller
    <2>1. /\ worker.pc = "begin" /\ Bundling
          /\ \E id \in Replayable : worker' = [pc |-> "replayed", bundle |-> id]
      BY <1>2, <1>7 DEF ReplayInstaller, WorkerAt, Command
    <2>2. QED
      BY <1>1, <2>1, WorkerGiven
  <1>8. CASE WriteInstaller
    <2>1. /\ worker.pc = "replayed"
          /\ WorkerTo("failed") \/ (\E bundle : Preflight(bundle))
      BY <1>8 DEF WriteInstaller, WorkerAt
    <2>2. CASE WorkerTo("failed")
      BY <1>1, <2>1, <2>2, WorkerGoes DEF WorkerSteps, BundleSteps
    <2>3. CASE \E bundle : Preflight(bundle)
      BY <1>1, <1>2, <2>1, <2>3, StepPreflight
    <2>4. QED
      BY <2>1, <2>2, <2>3
  <1>9. QED
    BY <1>3, <1>4, <1>5, <1>6, <1>7, <1>8 DEF Prepare

\* An object is linked under its name, still to be authorized.
LEMMA StepBeginObject ==
    ASSUME AcqInv, BeginObject
    PROVE  AcqInv'
  <1>1. /\ worker.pc = "begin" /\ ~Bundling /\ UNCHANGED <<caller, control, output, cancelled, expired>>
    BY DEF BeginObject, WorkerAt, Quiet, sync
  <1>2. CASE WorkerTo("failed") /\ cache' = cache
    BY <1>1, <1>2, WorkerGoes DEF WorkerSteps
  <1>3. CASE WorkerTo("linked") /\ cache' = [cache EXCEPT ![Wanted.digest] = "linked"]
    <2>1. /\ worker' = [pc |-> worker'.pc, bundle |-> worker'.bundle] /\ worker'.pc = "linked"
      BY <1>3, WorkerMoves DEF AcqInv, WorkerSteps, LinkedSteps
    <2>2. Wanted.digest \in Digests /\ cache \in [Digests -> {"absent", "linked", "object"}]
      BY <1>1, WantedDigest DEF AcqInv, AcqTyped
    <2>3. /\ cache' \in [Digests -> {"absent", "linked", "object"}]
          /\ cache'[Wanted.digest] = "linked"
          /\ \A d \in Digests \ {Wanted.digest} : cache'[d] = cache[d]
      BY <1>3, <2>2
    <2>4. Wanted' = Wanted /\ Bundling' = Bundling
      BY <1>1 DEF Wanted, Bundling
    <2>5. AcqTyped'
      BY <1>1, <2>1, <2>3 DEF AcqInv, AcqTyped, WorkerSteps, LinkedSteps
    <2>6. caller.pc \notin Fetching
      BY <1>1 DEF AcqInv, CallerPlace
    <2>7. CallerPlace' /\ WorkerPlace'
      BY <1>1, <2>1, <2>6 DEF AcqInv, CallerPlace, WorkerPlace, At, WorkerAt, Bundling, Command,
                              BundleSteps
    <2>8. ClaimInv'
      BY <1>1, <2>1, <2>4 DEF AcqInv, ClaimInv
    <2>9. CacheInv'
      <3>1. \A d \in Digests : cache[d] # "linked"
        BY <1>1, NothingLinked
      <3>2. worker'.pc \in LinkedSteps
        BY <2>1 DEF LinkedSteps
      <3>3. QED
        BY <1>1, <2>2, <2>3, <2>4, <3>1, <3>2 DEF CacheInv
    <2>10. QED
      BY <2>5, <2>7, <2>8, <2>9 DEF AcqInv
  <1>4. QED
    BY <1>2, <1>3 DEF BeginObject

\* A linked object is taken out of the cache, or put into it when that was
\* authorized.
LEMMA ObjectSettled ==
    ASSUME AcqInv, ~Bundling, UNCHANGED <<caller, control, output, cancelled, expired>>,
           NEW state \in {"absent", "object"}, state = "object" => control = "authorized",
           cache' = [cache EXCEPT ![Wanted.digest] = state],
           worker.pc \in {"load", "undo"},
           NEW pc \in {"ok", "failed"}, pc = "ok" => control = "authorized", WorkerTo(pc)
    PROVE  AcqInv'
  <1>1. /\ worker' = [pc |-> worker'.pc, bundle |-> worker'.bundle] /\ worker'.pc = pc
    BY WorkerMoves DEF AcqInv, WorkerSteps
  <1>2. Wanted.digest \in Digests /\ cache \in [Digests -> {"absent", "linked", "object"}]
    BY WantedDigest DEF AcqInv, AcqTyped
  <1>3. /\ cache' \in [Digests -> {"absent", "linked", "object"}]
        /\ cache'[Wanted.digest] = state
        /\ \A d \in Digests \ {Wanted.digest} : cache'[d] = cache[d]
    BY <1>2
  <1>4. Wanted' = Wanted /\ Bundling' = Bundling
    BY DEF Wanted, Bundling
  <1>5. AcqTyped'
    BY <1>1, <1>3 DEF AcqInv, AcqTyped, WorkerSteps
  <1>6. caller.pc \notin Fetching
    BY DEF AcqInv, CallerPlace
  <1>7. CallerPlace' /\ WorkerPlace'
    BY <1>1, <1>6 DEF AcqInv, CallerPlace, WorkerPlace, At, WorkerAt, Bundling, Command, BundleSteps
  <1>8. ClaimInv'
    BY <1>1, <1>4 DEF AcqInv, ClaimInv
  <1>9. CacheInv'
    <2>1. \A d \in Digests : cache'[d] # "linked"
      BY <1>2, <1>3 DEF AcqInv, CacheInv
    <2>2. control = "authorized" =>
             ~(control = "abort" \/ caller.pc \in {"hop", "body", "settle"} \cup Deciding)
      BY <1>6 DEF AcqInv, CallerPlace, Fetching
    <2>3. QED
      BY <1>2, <1>3, <1>4, <2>1, <2>2 DEF CacheInv
  <1>10. QED
    BY <1>5, <1>7, <1>8, <1>9 DEF AcqInv
\* The control word changes under the worker: it is offered or claimed.
LEMMA WordChanges ==
    ASSUME AcqInv, UNCHANGED <<caller, cache, output, cancelled, expired>>,
           NEW pc, WorkerTo(pc),
           \/ /\ worker.pc = "mark" /\ pc = "notify"
              /\ control = "working" /\ control' = "ready"
           \/ /\ worker.pc = "claim" /\ pc = "rename"
              /\ control = "authorized" /\ control' = "claimed"
    PROVE  AcqInv'
  <1>1. pc \in WorkerSteps
    BY DEF WorkerSteps, LinkedSteps, BundleSteps
  <1>2. /\ worker' = [pc |-> worker'.pc, bundle |-> worker'.bundle] /\ worker'.pc = pc
    BY <1>1, WorkerMoves DEF AcqInv
  <1>3. Wanted' = Wanted /\ Bundling' = Bundling
    BY DEF Wanted, Bundling
  <1>4. worker.pc = "claim" => Bundling
    BY DEF AcqInv, WorkerPlace, BundleSteps
  <1>5. caller.pc \notin Fetching /\ caller.result \notin GivenUp
    BY DEF AcqInv, CallerPlace, ClaimInv
  <1>6. AcqTyped'
    BY <1>1, <1>2 DEF AcqInv, AcqTyped, Controls
  <1>7. CallerPlace' /\ WorkerPlace'
    BY <1>2, <1>3, <1>4, <1>5 DEF AcqInv, CallerPlace, WorkerPlace, At, WorkerAt, Command, BundleSteps
  <1>8. ClaimInv'
    BY <1>2, <1>3, <1>4, <1>5 DEF AcqInv, ClaimInv
  <1>9. CacheInv'
    <2>1. worker.pc \in LinkedSteps \cup {"dead"} => worker'.pc \in LinkedSteps \cup {"dead"}
      BY <1>2 DEF LinkedSteps
    <2>2. control' # "abort"
      OBVIOUS
    <2>3. QED
      BY <1>3, <2>1, <2>2 DEF AcqInv, CacheInv
  <1>10. QED
    BY <1>6, <1>7, <1>8, <1>9 DEF AcqInv

LEMMA StepOffer ==
    ASSUME AcqInv, Offer
    PROVE  AcqInv'
  <1>1. worker.pc = "mark" /\ UNCHANGED <<caller, cache, output, cancelled, expired>>
    BY DEF Offer, WorkerAt, Quiet, disk
  <1>2. CASE control = "working"
    BY <1>1, <1>2, WordChanges DEF Offer
  <1>3. CASE control # "working"
    <2>1. UNCHANGED control /\ \/ WorkerTo("notify")
                               \/ WorkerTo("failed") /\ Bundling
      BY <1>3 DEF Offer
    <2>2. QED
      BY <1>1, <2>1, WorkerGoes DEF WorkerSteps, LinkedSteps
  <1>4. QED
    BY <1>2, <1>3

LEMMA StepLoad ==
    ASSUME AcqInv, Load
    PROVE  AcqInv'
  <1>1. worker.pc = "load" /\ UNCHANGED <<caller, control, output, cancelled, expired>>
    BY DEF Load, WorkerAt, Quiet
  <1>2. CASE cache' = cache /\ \/ WorkerTo("wait")
                               \/ WorkerTo("undo") /\ ~Bundling
                               \/ WorkerTo("failed") /\ Bundling
                               \/ WorkerTo("bind") /\ Bundling
    BY <1>1, <1>2, WorkerGoes DEF WorkerSteps, LinkedSteps, BundleSteps
  <1>3. CASE /\ ~Bundling /\ control = "authorized" /\ WorkerTo("ok")
             /\ cache' = [cache EXCEPT ![Wanted.digest] = "object"]
    BY <1>1, <1>3, ObjectSettled
  <1>4. QED
    BY <1>2, <1>3 DEF Load

LEMMA StepUndoObject ==
    ASSUME AcqInv, UndoObject
    PROVE  AcqInv'
  <1>1. /\ worker.pc = "undo" /\ ~Bundling /\ UNCHANGED <<caller, control, output, cancelled, expired>>
        /\ WorkerTo("failed") /\ cache' = [cache EXCEPT ![Wanted.digest] = "absent"]
    BY DEF UndoObject, RemoveObject, WorkerAt, Quiet, sync, AcqInv, WorkerPlace
  <1>2. QED
    BY <1>1, ObjectSettled

LEMMA StepClaim ==
    ASSUME AcqInv, Claim
    PROVE  AcqInv'
  <1>1. worker.pc = "claim" /\ UNCHANGED <<caller, cache, output, cancelled, expired>>
    BY DEF Claim, WorkerAt, Quiet, disk
  <1>2. CASE control = "authorized"
    BY <1>1, <1>2, WordChanges DEF Claim
  <1>3. CASE control # "authorized"
    <2>1. UNCHANGED control /\ WorkerTo("failed")
      BY <1>3 DEF Claim
    <2>2. QED
      BY <1>1, <2>1, WorkerGoes DEF WorkerSteps, BundleSteps
  <1>4. QED
    BY <1>2, <1>3

\* The rename, which only a claimed bundle comes to.
LEMMA StepRename ==
    ASSUME AcqInv, Rename
    PROVE  AcqInv'
  <1>1. /\ worker.pc = "rename" /\ UNCHANGED <<caller, control, cache, cancelled, expired>>
        /\ control = "claimed"
    BY DEF Rename, WorkerAt, Quiet, sync, AcqInv, WorkerPlace
  <1>2. CASE output = "absent"
    <2>1. WorkerTo("sync") /\ output' = "ours"
      BY <1>2 DEF Rename
    <2>2. worker' = [pc |-> worker'.pc, bundle |-> worker'.bundle] /\ worker'.pc = "sync"
      BY <2>1, WorkerMoves DEF AcqInv, WorkerSteps, BundleSteps
    <2>3. Wanted' = Wanted /\ Bundling' = Bundling /\ Bundling
      BY <1>1 DEF Wanted, Bundling, AcqInv, ClaimInv
    <2>4. AcqTyped'
      BY <1>1, <2>2 DEF AcqInv, AcqTyped, WorkerSteps, BundleSteps
    <2>5. CallerPlace' /\ WorkerPlace'
      BY <1>1, <2>2, <2>3 DEF AcqInv, CallerPlace, WorkerPlace, At, WorkerAt, Command, BundleSteps
    <2>6. ClaimInv'
      BY <1>1, <2>3 DEF AcqInv, ClaimInv
    <2>7. CacheInv'
      BY <1>1, <2>3 DEF AcqInv, CacheInv
    <2>8. QED
      BY <2>4, <2>5, <2>6, <2>7 DEF AcqInv
  <1>3. CASE output # "absent"
    <2>1. WorkerTo("failed") /\ output' = output
      BY <1>3 DEF Rename
    <2>2. QED
      BY <1>1, <2>1, WorkerGoes DEF WorkerSteps, BundleSteps
  <1>4. QED
    BY <1>2, <1>3

\* The steps that only move the worker on, or end it.
LEMMA StepOnward ==
    ASSUME AcqInv,
           \/ CheckObject \/ WorkerFails \/ WriteTree \/ VerifyTree \/ NotifyCaller \/ Lock
           \/ Wait \/ Bind \/ SyncName
    PROVE  AcqInv'
  <1>1. UNCHANGED <<caller, control, cache, output, cancelled, expired>>
    BY DEF CheckObject, WorkerFails, WriteTree, VerifyTree, NotifyCaller, Lock, Wait, Bind,
           SyncName, Quiet, sync, disk
  <1>2. CASE CheckObject
    <2>1. worker.pc = "linked" /\ (WorkerTo("undo") \/ WorkerTo("mark"))
      BY <1>2 DEF CheckObject, WorkerAt
    <2>2. QED
      BY <1>1, <2>1, WorkerGoes DEF WorkerSteps, LinkedSteps
  <1>3. CASE WorkerFails
    <2>1. worker.pc \in {"begin"} \cup BundleSteps /\ WorkerTo("failed")
      BY <1>3 DEF WorkerFails, WorkerAt, BundleSteps
    <2>2. QED
      BY <1>1, <2>1, WorkerGoes DEF WorkerSteps
  <1>4. CASE WriteTree
    <2>1. worker.pc = "write" /\ (WorkerTo("verify") \/ WorkerTo("failed"))
      BY <1>4 DEF WriteTree, WorkerAt
    <2>2. QED
      BY <1>1, <2>1, WorkerGoes DEF WorkerSteps, BundleSteps
  <1>5. CASE VerifyTree
    <2>1. worker.pc = "verify" /\ (WorkerTo("mark") \/ WorkerTo("failed"))
      BY <1>5 DEF VerifyTree, WorkerAt
    <2>2. QED
      BY <1>1, <2>1, WorkerGoes DEF WorkerSteps, BundleSteps, LinkedSteps
  <1>6. CASE NotifyCaller
    BY <1>1, <1>6, WorkerGoes DEF NotifyCaller, WorkerAt, WorkerSteps, LinkedSteps
  <1>7. CASE Lock
    BY <1>1, <1>7, WorkerGoes DEF Lock, WorkerAt, WorkerSteps, LinkedSteps
  <1>8. CASE Wait
    BY <1>1, <1>8, WorkerGoes DEF Wait, WorkerAt, WorkerSteps, LinkedSteps
  <1>9. CASE Bind
    BY <1>1, <1>9, WorkerGoes DEF Bind, WorkerAt, WorkerSteps, BundleSteps
  <1>10. CASE SyncName
    <2>1. worker.pc = "sync" /\ (WorkerTo("ok") \/ WorkerTo("failed"))
      BY <1>10 DEF SyncName, SyncParent, WorkerAt
    <2>2. QED
      BY <1>1, <2>1, WorkerGoes DEF WorkerSteps, BundleSteps
  <1>11. QED
    BY <1>2, <1>3, <1>4, <1>5, <1>6, <1>7, <1>8, <1>9, <1>10
-----------------------------------------------------------------------------
(* The environment, and the theorems                                       *)

LEMMA StepPowerLoss ==
    ASSUME AcqInv, PowerLoss
    PROVE  AcqInv'
  <1>1. /\ CallerTo("dead") /\ WorkerTo("dead") /\ output' \in {output, "absent"}
        /\ UNCHANGED <<control, cache, cancelled, expired>> /\ AcqTyped
        /\ caller \in CallerRecord
    BY DEF PowerLoss, sync, AcqInv, AcqTyped
  <1>2. /\ caller' \in CallerRecord /\ caller'.pc = "dead" /\ caller'.n = caller.n
        /\ caller'.result = caller.result /\ caller'.command = caller.command
    BY <1>1, CallerMoves DEF CallerSteps
  <1>3. worker' = [pc |-> worker'.pc, bundle |-> worker'.bundle] /\ worker'.pc = "dead"
    BY <1>1, WorkerMoves DEF WorkerSteps
  <1>4. Wanted' = Wanted /\ Bundling' = Bundling
    BY <1>2 DEF Wanted, Bundling
  <1>5. AcqTyped'
    BY <1>1, <1>2, <1>3 DEF AcqTyped, WorkerSteps
  <1>6. CallerPlace' /\ WorkerPlace'
    BY <1>2, <1>3, <1>4 DEF AcqInv, CallerPlace, WorkerPlace, At, WorkerAt, Command, Fetching,
                            Deciding, BundleSteps
  <1>7. ClaimInv'
    BY <1>1, <1>2, <1>3, <1>4 DEF AcqInv, ClaimInv
  <1>8. CacheInv'
    BY <1>1, <1>2, <1>3, <1>4 DEF AcqInv, CacheInv, Deciding
  <1>9. QED
    BY <1>5, <1>6, <1>7, <1>8 DEF AcqInv

\* A cancellation, a deadline that passes, and another command's output.
LEMMA StepOutside ==
    ASSUME AcqInv, Cancel \/ Expire \/ OtherOutput \/ UNCHANGED vars
    PROVE  AcqInv'
  <1>1. /\ UNCHANGED <<caller, worker, control, cache>>
        /\ cancelled' \in BOOLEAN /\ expired' \in BOOLEAN
        /\ output' = output \/ output' = "other"
    BY DEF Cancel, Expire, OtherOutput, vars, sync, disk, AcqInv, AcqTyped
  <1>2. AcqTyped'
    BY <1>1 DEF AcqInv, AcqTyped
  <1>3. CallerPlace' /\ WorkerPlace'
    BY <1>1 DEF AcqInv, CallerPlace, WorkerPlace, At, WorkerAt, Bundling, Command
  <1>4. ClaimInv'
    BY <1>1 DEF AcqInv, ClaimInv, Bundling
  <1>5. CacheInv'
    BY <1>1 DEF AcqInv, CacheInv, Bundling, Wanted
  <1>6. QED
    BY <1>2, <1>3, <1>4, <1>5 DEF AcqInv

LEMMA StepKeepsAcqInv == AcqInv /\ [Next]_vars => AcqInv'
  <1> SUFFICES ASSUME AcqInv, [Next]_vars PROVE AcqInv'
    OBVIOUS
  <1>1. CASE CallerStep
    <2>1. CASE StartFetch
      BY <2>1, StepStartFetch
    <2>2. CASE \/ Interrupt \/ Refused \/ Answered \/ EndOfBody
               \/ \E next \in Urls, form \in LocationForms : Redirected(next, form)
               \/ \E exact \in BOOLEAN : Chunk(exact)
      BY <2>2, StepFetch
    <2>3. CASE Settle
      BY <2>3, StepStartsWorker
    <2>4. CASE StartBundle
      BY <2>4, StepStartsWorker, StepStartCancelled
    <2>5. CASE Register \/ Select \/ Awake \/ Offered
      BY <2>5, StepRegister, StepSelect, StepAwake, StepOffered
    <2>6. CASE AwaitBundle \/ Join \/ Reopen
      BY <2>6, StepAwaitBundle, StepJoin, StepReopen
    <2>7. QED
      BY <1>1, <2>1, <2>2, <2>3, <2>4, <2>5, <2>6 DEF CallerStep
  <1>2. CASE WorkerStep
    BY <1>2, StepBeginObject, StepUndoObject, StepOffer, StepLoad, StepClaim, StepRename, StepOnward
       DEF WorkerStep
  <1>3. CASE Prepare \/ DropCaller
    BY <1>3, StepPrepare, StepDropCaller
  <1>4. CASE PowerLoss \/ Cancel \/ Expire \/ OtherOutput \/ UNCHANGED vars
    BY <1>4, StepPowerLoss, StepOutside
  <1>5. QED
    BY <1>1, <1>2, <1>3, <1>4 DEF Next

LEMMA InitAcqInv == Init => AcqInv
  <1> SUFFICES ASSUME Init PROVE AcqInv
    OBVIOUS
  <1>1. PICK command \in Commands :
           caller = [pc |-> "fetch", n |-> IF command = "write" THEN 1 ELSE Len(Fetches) + 1,
                     got |-> 0, exact |-> TRUE, result |-> "none", command |-> command]
    BY DEF Init, Commands
  <1>2. /\ "fetch" \in CallerSteps /\ "none" \in Results
        /\ (IF command = "write" THEN 1 ELSE Len(Fetches) + 1) \in 1..(Len(Fetches) + 1)
    BY FetchDomain DEF CallerSteps, Results
  <1>3. /\ caller \in CallerRecord /\ caller.pc = "fetch" /\ caller.result = "none"
        /\ caller.command = command
        /\ caller.n = IF command = "write" THEN 1 ELSE Len(Fetches) + 1
    BY <1>1, <1>2 DEF CallerRecord
  <1>4. /\ control = "working" /\ worker.pc = "none" /\ output = "absent"
        /\ worker = [pc |-> worker.pc, bundle |-> worker.bundle]
        /\ cancelled = FALSE /\ expired = FALSE /\ cache = [d \in Digests |-> "absent"]
    BY DEF Init
  <1>5. AcqTyped
    BY <1>3, <1>4 DEF AcqTyped, Controls, WorkerSteps
  <1>6. ~Command("write") => Bundling
    BY <1>3, FetchDomain DEF Command, Bundling
  <1>7. CallerPlace /\ WorkerPlace
    BY <1>3, <1>4, <1>6 DEF CallerPlace, WorkerPlace, At, WorkerAt, Fetching, Deciding, BundleSteps
  <1>8. ClaimInv
    BY <1>3, <1>4 DEF ClaimInv, GivenUp
  <1>9. CacheInv
    BY <1>3, <1>4 DEF CacheInv, Deciding
  <1>10. QED
    BY <1>5, <1>7, <1>8, <1>9 DEF AcqInv

\* Wherever the caller and the worker are, the control word is one that brought
\* them there: an object is linked only while its worker is at it, and what is
\* claimed is a bundle whose caller has not given up.
THEOREM PublicationIsDecided == Spec => []AcqInv
  BY InitAcqInv, StepKeepsAcqInv, PTL DEF Spec

\* A release reported as cancelled, or dropped before the claim, is not
\* published, then or later by the worker that outlives its caller (claim and
\* abort of the publication control in lib.rs).
THEOREM TheCancelledIsUnpublished == Spec => []CancelledIsUnpublished
  <1>1. AcqInv => CancelledIsUnpublished
    BY DEF AcqInv, ClaimInv, CancelledIsUnpublished, GivenUp
  <1>2. QED
    BY <1>1, PublicationIsDecided, PTL

\* A fetch that was given up leaves nothing in the cache once its worker has
\* ended (the tentative flag and decision of http.rs).
THEOREM TheCacheIsClean == Spec => []NothingLeftBehind
  <1>1. AcqInv => NothingLeftBehind
    <2> SUFFICES ASSUME AcqInv, WorkerIdle, caller.pc \in {"returned", "dropped"}
                 PROVE  /\ \A d \in Digests : cache[d] # "linked"
                        /\ ~Bundling /\ control = "abort" => cache[Wanted.digest] = "absent"
      BY DEF NothingLeftBehind
    <2>1. \A d \in Digests : cache[d] # "linked"
      BY NothingLinked DEF WorkerIdle
    <2>2. ASSUME ~Bundling, control = "abort"
          PROVE  cache[Wanted.digest] = "absent"
      <3>1. Wanted.digest \in Digests
        BY <2>2, WantedDigest DEF AcqInv, AcqTyped
      <3>2. cache[Wanted.digest] \in {"absent", "linked", "object"}
        BY <3>1 DEF AcqInv, AcqTyped
      <3>3. cache[Wanted.digest] # "object"
        BY <2>2 DEF AcqInv, CacheInv
      <3>4. QED
        BY <2>1, <3>1, <3>2, <3>3
    <2>3. QED
      BY <2>1, <2>2
  <1>2. QED
    BY <1>1, PublicationIsDecided, PTL
-----------------------------------------------------------------------------
(* Redirects                                                               *)

\* An object of GitHub may come from its two hosts, and the latest catalog is
\* fetched as one.
BothHosts ==
    \A i \in DOMAIN Fetches :
       /\ Fetches[i].profile = "github" => {"github", "assets"} \subseteq Fetches[i].origins
       /\ Fetches[i].url = LatestUrl => Fetches[i].profile = "github"

Hops == Urls \cup {Fetches[i].url : i \in DOMAIN Fetches}

\* The hops of a fetch of the latest catalog are ones that the transport of
\* the client would have taken.
HopsInv ==
    At("hop") =>
       /\ hops \in Seq(Hops) \ {<<>>}
       /\ Wanted.url = LatestUrl => LatestReaches(hops)

\* From such hops the fetcher goes on where the client's transport does, by a
\* Location that it reads.
LEMMA SamePolicy ==
    ASSUME NEW S, NEW walked \in Seq(S) \ {<<>>}, LatestReaches(walked),
           NEW next \in S, NEW form, NEW origins, {"github", "assets"} \subseteq origins
    PROVE  Follows(walked, next, form, origins, "github")
              <=> ReadsLocation(form) /\ LatestFollows(walked, next, form)
  <1> DEFINE n == Len(walked)
             longer == Append(walked, next)
  <1>1. /\ n \in Nat \ {0} /\ DOMAIN walked = 1..n
        /\ Len(longer) = n + 1 /\ longer[n + 1] = next
        /\ \A i \in 1..n : longer[i] = walked[i]
    OBVIOUS
  <1>2. MaxRedirects \in Nat
    BY RulesAssumption
  <1>3. ValidHop(next, "github") /\ next.host \in origins <=> LatestHop(next)
    BY DEF ValidHop, LatestHop, GithubHop, AssetHop
  <1>4. next \notin {walked[i] : i \in DOMAIN walked} <=> \A j \in 1..n : walked[j] # next
    BY <1>1
  <1> HIDE DEF n, longer
  <1>5. /\ walked[1] = LatestUrl
        /\ \A i \in 2..n : /\ LatestHop(walked[i])
                           /\ walked[i - 1].host # "assets"
                           /\ \A j \in 1..(i - 1) : walked[j] # walked[i]
    BY DEF LatestReaches, n
  <1>6. Follows(walked, next, form, origins, "github") <=>
           ReadsLocation(form) /\ walked[n].host # "assets" /\ n <= MaxRedirects /\ LatestHop(next)
           /\ \A j \in 1..n : walked[j] # next
    BY <1>3, <1>4 DEF Follows, n
  <1>7. LatestReaches(longer) <=>
           n <= MaxRedirects /\ \A i \in 2..(n + 1) :
              /\ LatestHop(longer[i])
              /\ longer[i - 1].host # "assets"
              /\ \A j \in 1..(i - 1) : longer[j] # longer[i]
    <2>1. longer[1] = LatestUrl /\ Len(longer) - 1 = n
      BY <1>1, <1>5
    <2>2. 2..Len(longer) = 2..(n + 1)
      BY <1>1
    <2>3. QED
      BY <2>1, <2>2 DEF LatestReaches
  <1>8. ASSUME NEW i \in 2..n
        PROVE  /\ LatestHop(longer[i])
               /\ longer[i - 1].host # "assets"
               /\ \A j \in 1..(i - 1) : longer[j] # longer[i]
    <2>1. i \in 1..n /\ i - 1 \in 1..n /\ 1..(i - 1) \subseteq 1..n
      BY <1>1
    <2>2. longer[i] = walked[i] /\ longer[i - 1] = walked[i - 1]
      BY <1>1, <2>1
    <2>3. \A j \in 1..(i - 1) : longer[j] = walked[j]
      BY <1>1, <2>1
    <2>4. QED
      BY <1>5, <2>2, <2>3
  <1>9. (\A i \in 2..(n + 1) :
              /\ LatestHop(longer[i])
              /\ longer[i - 1].host # "assets"
              /\ \A j \in 1..(i - 1) : longer[j] # longer[i])
        <=> /\ LatestHop(next)
            /\ walked[n].host # "assets"
            /\ \A j \in 1..n : walked[j] # next
    <2>1. /\ longer[n + 1] = next /\ longer[(n + 1) - 1] = walked[n]
          /\ 1..((n + 1) - 1) = 1..n /\ n + 1 \in 2..(n + 1)
          /\ \A i \in 2..(n + 1) : i = n + 1 \/ i \in 2..n
      BY <1>1
    <2>2. (\A j \in 1..n : longer[j] # next) <=> (\A j \in 1..n : walked[j] # next)
      BY <1>1
    <2>3. QED
      BY <1>8, <2>1, <2>2
  <1>10. ReadsLocation(form) => LatestReadsLocation(form)
    BY DEF ReadsLocation, LatestReadsLocation
  <1>11. LatestFollows(walked, next, form) <=> LatestReadsLocation(form) /\ LatestReaches(longer)
    BY DEF LatestFollows, longer
  <1>12. QED
    BY <1>6, <1>7, <1>9, <1>10, <1>11

\* Only the start of a fetch and a redirect bring the caller to a new hop.
LEMMA OtherSteps ==
    ASSUME AcqInv, [Next]_vars, ~StartFetch,
           ~(\E next \in Urls, form \in LocationForms : Redirected(next, form))
    PROVE  caller'.pc # "hop" \/ (caller' = caller /\ hops' = hops)
  <1>1. caller \in CallerRecord
    BY DEF AcqInv, AcqTyped
  <1>2. ASSUME NEW pc \in {"body", "settle", "poll", "check", "offered", "join", "asleep", "await",
                           "reopen", "dropped", "dead"}, CallerTo(pc)
        PROVE  caller'.pc # "hop"
    BY <1>1, <1>2 DEF CallerTo, CallerRecord
  <1>3. ASSUME NEW result, Return(result) PROVE caller'.pc # "hop"
    BY <1>1, <1>3 DEF Return, CallerRecord
  <1>4. ASSUME caller' = NextFetch PROVE caller'.pc # "hop"
    BY <1>1, <1>4 DEF NextFetch, CallerRecord
  <1>5. ASSUME GiveUp PROVE caller'.pc # "hop"
    BY <1>1, <1>5 DEF GiveUp, CallerRecord
  <1>6. CASE CallerStep
    <2>1. CASE Interrupt
      BY <1>3, <2>1 DEF Interrupt
    <2>2. CASE Refused
      BY <1>3, <2>2 DEF Refused
    <2>3. CASE Answered
      BY <1>2, <2>3 DEF Answered
    <2>4. ASSUME NEW exact \in BOOLEAN, Chunk(exact)
          PROVE  caller'.pc # "hop"
      <3>1. CASE Return("error")
        BY <1>3, <3>1
      <3>2. CASE caller' = [caller EXCEPT !.got = @ + 1, !.exact = @ /\ exact]
        BY <1>1, <2>4, <3>2 DEF Chunk, At, CallerRecord
      <3>3. QED
        BY <2>4, <3>1, <3>2 DEF Chunk
    <2>5. CASE EndOfBody
      BY <1>2, <1>3, <2>5 DEF EndOfBody
    <2>6. CASE Settle
      BY <1>2, <2>6 DEF Settle
    <2>7. CASE StartBundle
      BY <1>2, <1>3, <2>7 DEF StartBundle
    <2>8. CASE Register
      BY <1>2, <2>8 DEF Register
    <2>9. CASE Select
      BY <1>2, <1>5, <2>9 DEF Select
    <2>10. CASE Awake
      BY <1>2, <2>10 DEF Awake
    <2>11. CASE Offered
      BY <1>2, <1>5, <2>11 DEF Offered
    <2>12. CASE AwaitBundle
      BY <1>2, <1>5, <2>12 DEF AwaitBundle
    <2>13. CASE Join
      BY <1>2, <1>3, <1>4, <2>13 DEF Join, Accepted
    <2>14. CASE Reopen
      BY <1>3, <2>14 DEF Reopen
    <2>15. QED
      BY <1>6, <2>1, <2>2, <2>3, <2>4, <2>5, <2>6, <2>7, <2>8, <2>9, <2>10, <2>11, <2>12, <2>13,
         <2>14 DEF CallerStep
  <1>7. CASE WorkerStep
    BY <1>7 DEF WorkerStep, BeginObject, CheckObject, UndoObject, WorkerFails, WriteTree, VerifyTree,
                Offer, NotifyCaller, Lock, Load, Wait, Bind, Claim, Rename, SyncName, Quiet
  <1>8. CASE Prepare
    BY <1>8 DEF Prepare, BeginBundle, VerifyGraph, WriteGraph, ObserveInputs, ReplayInstaller,
                WriteInstaller, Quiet
  <1>9. CASE DropCaller \/ PowerLoss
    BY <1>2, <1>9 DEF DropCaller, PowerLoss
  <1>10. CASE Cancel \/ Expire \/ OtherOutput \/ UNCHANGED vars
    BY <1>10 DEF Cancel, Expire, OtherOutput, vars
  <1>11. QED
    BY <1>6, <1>7, <1>8, <1>9, <1>10 DEF Next

\* The fetch of the latest catalog may come from both hosts.
LEMMA LatestFetch ==
    ASSUME BothHosts, AcqInv, ~Bundling
    PROVE  /\ Wanted.url \in Hops
           /\ Wanted.url = LatestUrl => Wanted.profile = "github"
           /\ Wanted.profile = "github" => {"github", "assets"} \subseteq Wanted.origins
  <1>1. caller.n \in DOMAIN Fetches
    BY WantedDigest DEF AcqInv, AcqTyped
  <1>2. QED
    BY <1>1 DEF BothHosts, Wanted, Hops

LEMMA StepKeepsHops ==
    ASSUME BothHosts, AcqInv, HopsInv, [Next]_vars
    PROVE  HopsInv'
  <1>1. caller \in CallerRecord
    BY DEF AcqInv, AcqTyped
  <1>2. CASE StartFetch
    <2>1. CASE CallerTo("hop") /\ hops' = <<Wanted.url>>
      <3>1. ~Bundling /\ caller'.n = caller.n
        BY <1>1, <1>2, <2>1 DEF StartFetch, CallerTo, CallerRecord
      <3>2. Wanted' = Wanted /\ Wanted.url \in Hops
        BY <3>1, LatestFetch DEF Wanted
      <3>3. hops' \in Seq(Hops) \ {<<>>} /\ Len(hops') = 1 /\ hops'[1] = Wanted.url
        BY <2>1, <3>2
      <3>4. MaxRedirects \in Nat /\ 2..1 = {}
        BY RulesAssumption
      <3>5. Wanted.url = LatestUrl => LatestReaches(hops')
        BY <3>3, <3>4 DEF LatestReaches
      <3>6. QED
        BY <3>2, <3>3, <3>5 DEF HopsInv
    <2>2. CASE caller'.pc # "hop"
      BY <2>2 DEF HopsInv, At
    <2>3. QED
      BY <1>1, <1>2, <2>1, <2>2 DEF StartFetch, Return, NextFetch, CallerRecord
  <1>3. ASSUME NEW next \in Urls, NEW form \in LocationForms, Redirected(next, form)
        PROVE  HopsInv'
    <2>1. CASE /\ Follows(hops, next, form, Wanted.origins, Wanted.profile)
               /\ hops' = Append(hops, next) /\ caller' = caller
      <3>1. At("hop") /\ ~Bundling
        BY <1>3 DEF Redirected, At, AcqInv, CallerPlace
      <3>2. hops \in Seq(Hops) \ {<<>>} /\ next \in Hops
        BY <3>1 DEF HopsInv, Hops
      <3>3. hops' \in Seq(Hops) \ {<<>>}
        BY <2>1, <3>2
      <3>4. Wanted' = Wanted
        BY <2>1 DEF Wanted
      <3>5. ASSUME Wanted.url = LatestUrl
            PROVE  LatestReaches(hops')
        <4>1. Wanted.profile = "github" /\ {"github", "assets"} \subseteq Wanted.origins
          BY <3>1, <3>5, LatestFetch
        <4>2. LatestReaches(hops)
          BY <3>1, <3>5 DEF HopsInv
        <4>3. Follows(hops, next, form, Wanted.origins, "github")
          BY <2>1, <4>1
        <4>4. LatestReaches(Append(hops, next))
          BY <3>2, <4>1, <4>2, <4>3, SamePolicy DEF LatestFollows
        <4>5. QED
          BY <2>1, <4>4
      <3>6. QED
        BY <3>3, <3>4, <3>5 DEF HopsInv
    <2>2. CASE Return("error")
      <3>1. caller'.pc = "returned"
        BY <1>1, <2>2 DEF Return, CallerRecord
      <3>2. QED
        BY <3>1 DEF HopsInv, At
    <2>3. QED
      BY <1>3, <2>1, <2>2 DEF Redirected
  <1>4. CASE ~StartFetch /\ ~(\E next \in Urls, form \in LocationForms : Redirected(next, form))
    <2>1. caller'.pc # "hop" \/ (caller' = caller /\ hops' = hops)
      BY <1>4, OtherSteps
    <2>2. QED
      BY <2>1 DEF HopsInv, At, Wanted
  <1>5. QED
    BY <1>2, <1>3, <1>4

\* The fetchers of the repository have one redirect policy but for what they
\* read of a Location: fetch of http.rs goes on exactly where fetch_inner of
\* catalog-latest-transport does by a Location that its own single_location lets
\* through, and the transport of a discovery goes by such a Location nowhere a
\* later fetch would not.  It is of fetches that may come from both of GitHub's
\* hosts.
THEOREM OneRedirectPolicy ==
    ASSUME BothHosts
    PROVE  Spec => []FetchersAgree
  <1>1. Init => HopsInv
    BY DEF Init, HopsInv, At
  <1>2. AcqInv /\ HopsInv /\ [Next]_vars => HopsInv'
    BY StepKeepsHops
  <1>3. AcqInv /\ HopsInv => FetchersAgree
    <2> SUFFICES ASSUME AcqInv, HopsInv, At("hop")
                 PROVE  /\ Wanted.url = LatestUrl =>
                             /\ LatestReaches(hops)
                             /\ \A next \in Urls, form \in LocationForms :
                                   Follows(hops, next, form, Wanted.origins, Wanted.profile)
                                       <=> ReadsLocation(form) /\ LatestFollows(hops, next, form)
                        /\ Wanted.profile = "github" =>
                             \A next \in Urls, form \in LocationForms :
                                DiscoveryFollows(hops, next) /\ ReadsLocation(form)
                                    => Follows(hops, next, form, Wanted.origins, "github")
      BY DEF FetchersAgree
    <2>1. /\ hops \in Seq(Hops) \ {<<>>}
          /\ Wanted.url = LatestUrl => LatestReaches(hops)
          /\ \A next \in Urls : next \in Hops
      BY DEF HopsInv, Hops
    <2>2. /\ Wanted.url = LatestUrl => Wanted.profile = "github"
          /\ Wanted.profile = "github" => {"github", "assets"} \subseteq Wanted.origins
      BY LatestFetch DEF At, AcqInv, CallerPlace
    <2>3. ASSUME Wanted.url = LatestUrl, NEW next \in Urls, NEW form \in LocationForms
          PROVE  Follows(hops, next, form, Wanted.origins, Wanted.profile)
                     <=> ReadsLocation(form) /\ LatestFollows(hops, next, form)
      <3>1. /\ Wanted.profile = "github" /\ {"github", "assets"} \subseteq Wanted.origins
            /\ LatestReaches(hops) /\ next \in Hops
        BY <2>1, <2>2, <2>3
      <3>2. Follows(hops, next, form, Wanted.origins, "github")
                <=> ReadsLocation(form) /\ LatestFollows(hops, next, form)
        BY <2>1, <3>1, SamePolicy
      <3>3. QED
        BY <3>1, <3>2
    <2>4. ASSUME Wanted.profile = "github", NEW next \in Urls, NEW form \in LocationForms,
                 DiscoveryFollows(hops, next), ReadsLocation(form)
          PROVE  Follows(hops, next, form, Wanted.origins, "github")
      BY <2>2, <2>4 DEF DiscoveryFollows, Follows
    <2>5. QED
      BY <2>1, <2>3, <2>4
  <1>4. QED
    BY <1>1, <1>2, <1>3, PublicationIsDecided, PTL DEF Spec

-----------------------------------------------------------------------------
(* Numbers and sets                                                        *)

\* Every set of natural numbers with an element has a least one.
LEMMA LeastNumber ==
    ASSUME NEW S \in SUBSET Nat, S # {}
    PROVE  \E m \in S : \A k \in S : m <= k
  <1> DEFINE R == OpToRel(<, Nat)
  <1>1. \A x, y \in Nat : <<x, y>> \in R <=> x < y
    BY DEF OpToRel
  <1>2. IsWellFoundedOn(R, Nat)
    BY NatLessThanWellFounded
  <1> HIDE DEF R
  <1>3. \E m \in S : \A k \in S : ~(<<k, m>> \in R)
    BY <1>2, WFMin
  <1> PICK m \in S : \A k \in S : ~(<<k, m>> \in R)
    BY <1>3
  <1>4. ASSUME NEW k \in S PROVE m <= k
    <2>1. m \in Nat /\ k \in Nat /\ ~(k < m)
      BY <1>1
    <2> QED
      BY <2>1
  <1> QED
    BY <1>4

\* Induction up to a number, over a set.
LEMMA UpTo ==
    ASSUME NEW n \in Nat, NEW S, 0 \in S, \A k \in 0..(n - 1) : k \in S => k + 1 \in S
    PROVE  \A k \in 0..n : k \in S
  <1> DEFINE Others == {k \in 0..n : k \notin S}
  <1> SUFFICES ASSUME Others # {} PROVE FALSE
    OBVIOUS
  <1>1. Others \in SUBSET Nat
    OBVIOUS
  <1> PICK m \in Others : \A k \in Others : m <= k
    BY <1>1, LeastNumber
  <1>2. m \in 0..n /\ m # 0 /\ m \notin S
    OBVIOUS
  <1>3. m - 1 \in 0..(n - 1) /\ (m - 1) \notin Others
    BY <1>2
  <1> QED
    BY <1>2, <1>3

\* Min and Max of the community modules, where they exist.
LEMMA MinIs ==
    ASSUME NEW S \in SUBSET Nat, S # {}
    PROVE  Min(S) \in S /\ \A k \in S : Min(S) <= k
BY LeastNumber DEF Min

\* The greatest of a set that has a bound.
LEMMA MaxIs ==
    ASSUME NEW n \in Nat, NEW S \in SUBSET (0..n), S # {}
    PROVE  Max(S) \in S /\ \A k \in S : k <= Max(S)
  <1> DEFINE Rest == {k \in Nat : n - k \in S}
  <1> PICK some \in S : TRUE
    OBVIOUS
  <1>1. \A k \in S : n - k \in Rest
    OBVIOUS
  <1>2. Rest \in SUBSET Nat /\ Rest # {}
    BY <1>1
  <1> PICK m \in Rest : \A k \in Rest : m <= k
    BY <1>2, LeastNumber
  <1>5. n - m \in S /\ \A k \in S : k <= n - m
    <2>1. ASSUME NEW k \in S PROVE k <= n - m
      <3>1. m <= n - k
        BY <1>1
      <3> QED
        BY <3>1
    <2> QED
      BY <2>1
  <1>3. \E x \in S : \A y \in S : x >= y
    <2>1. \A y \in S : n - m >= y
      BY <1>5
    <2> QED
      BY <1>5, <2>1
  <1>4. Max(S) \in S /\ \A y \in S : Max(S) >= y
    BY <1>3 DEF Max
  <1> QED
    BY <1>4

-----------------------------------------------------------------------------
(* The archives of packages                                                *)

\* The parser is defined by its blocks.
LEMMA TarIs ==
    ASSUME NEW policy, NEW headers, Len(headers) \in Nat
    PROVE  /\ Tar(policy, headers)[0] = Start
           /\ \A n \in 1..Len(headers) :
                 Tar(policy, headers)[n] = Read(policy, Tar(policy, headers)[n - 1], headers[n])
  <1> DEFINE Next1(g, k) == IF k = 0 THEN Start ELSE Read(policy, g[k - 1], headers[k])
             Good == {n \in 0..Len(headers) : \E g : g = [k \in 0..n |-> Next1(g, k)]}
  <1>1. 0 \in Good
    <2> DEFINE g == [k \in 0..0 |-> Start]
    <2>1. g = [k \in 0..0 |-> Next1(g, k)]
      OBVIOUS
    <2> HIDE DEF g
    <2>2. \E x : x = [k \in 0..0 |-> Next1(x, k)]
      BY <2>1
    <2> QED
      BY <2>2
  <1>2. ASSUME NEW n \in 0..(Len(headers) - 1), n \in Good PROVE n + 1 \in Good
    <2> PICK g : g = [k \in 0..n |-> Next1(g, k)]
      BY <1>2
    <2> DEFINE h == [k \in 0..(n + 1) |-> IF k = n + 1 THEN Next1(g, k) ELSE g[k]]
    <2>1. ASSUME NEW k \in 0..(n + 1) PROVE h[k] = Next1(h, k)
      <3>1. CASE k = 0
        BY <3>1
      <3>2. CASE k \in 1..n
        <4>1. h[k] = g[k] /\ h[k - 1] = g[k - 1] /\ g[k] = Next1(g, k)
          BY <3>2
        <4> QED
          BY <4>1
      <3>3. CASE k = n + 1
        <4>1. h[k] = Next1(g, k) /\ h[k - 1] = g[k - 1]
          BY <3>3
        <4> QED
          BY <4>1
      <3> QED
        BY <3>1, <3>2, <3>3
    <2>2. h = [k \in 0..(n + 1) |-> Next1(h, k)]
      BY <2>1
    <2> HIDE DEF h
    <2>3. \E x : x = [k \in 0..(n + 1) |-> Next1(x, k)]
      BY <2>2
    <2>4. n + 1 \in 0..Len(headers)
      OBVIOUS
    <2> QED
      BY <2>3, <2>4
  <1>3. Len(headers) \in Good
    <2> HIDE DEF Good
    <2>1. \A n \in 0..Len(headers) : n \in Good
      BY <1>1, <1>2, UpTo
    <2> QED
      BY <2>1
  <1>4. \E g : g = [k \in 0..Len(headers) |-> Next1(g, k)]
    BY <1>3
  <1> DEFINE tar == Tar(policy, headers)
  <1>5. tar = [k \in 0..Len(headers) |-> Next1(tar, k)]
    BY <1>4 DEF Tar
  <1> HIDE DEF tar
  <1>6. tar[0] = Start
    BY <1>5
  <1>7. ASSUME NEW n \in 1..Len(headers) PROVE tar[n] = Read(policy, tar[n - 1], headers[n])
    BY <1>5
  <1> QED
    BY <1>6, <1>7 DEF tar

\* What the parser has of the files that the first n headers write.
TarFields == {"ok", "zeros", "raw", "root", "members", "pax", "announced", "facts", "aliases", "links"}
IsTar(tar, files) ==
    /\ DOMAIN tar = TarFields
    /\ tar.ok \in BOOLEAN /\ tar.zeros \in Nat /\ tar.pax \in Nat
    /\ tar.aliases \in Seq(files)
WrittenBy(headers, n) ==
    {<<UnpackedName(headers, i), headers[i].fact>> : i \in {i \in 1..n : headers[i].type = "file"}}
KeptBy(tar) ==
    {<<path, tar.facts[path]>> : path \in DOMAIN tar.facts}
        \cup {tar.aliases[i] : i \in DOMAIN tar.aliases}
Announcing(headers, n) == n > 0 /\ headers[n].type \in {"pax", "long"}
AsWritten(headers, n, tar) ==
    /\ KeptBy(tar) = WrittenBy(headers, n)
    /\ tar.zeros = 0 =>
          /\ Announcing(headers, n) => tar.announced = headers[n].path /\ headers[n].path # <<>>
          /\ ~Announcing(headers, n) => tar.announced = <<>>
ParseInv(headers, n, tar) ==
    /\ IsTar(tar, Unpacked(headers))
    /\ tar.ok = TRUE => AsWritten(headers, n, tar)

\* The files that one more header adds.
LEMMA WrittenNext ==
    ASSUME NEW headers, NEW n \in Nat
    PROVE  WrittenBy(headers, n + 1) =
              WrittenBy(headers, n) \cup
                (IF headers[n + 1].type = "file"
                 THEN {<<UnpackedName(headers, n + 1), headers[n + 1].fact>>} ELSE {})
  <1> DEFINE Pair(i) == <<UnpackedName(headers, i), headers[i].fact>>
             IsFile(i) == headers[i].type = "file"
  <1>1. WrittenBy(headers, n + 1) = {Pair(i) : i \in {i \in 1..(n + 1) : IsFile(i)}}
    BY DEF WrittenBy
  <1>2. WrittenBy(headers, n) = {Pair(i) : i \in {i \in 1..n : IsFile(i)}}
    BY DEF WrittenBy
  <1>3. 1..(n + 1) = 1..n \cup {n + 1}
    OBVIOUS
  <1> HIDE DEF Pair, IsFile
  <1>4. {Pair(i) : i \in {i \in 1..(n + 1) : IsFile(i)}}
           = {Pair(i) : i \in {i \in 1..n : IsFile(i)}} \cup
               (IF IsFile(n + 1) THEN {Pair(n + 1)} ELSE {})
    BY <1>3
  <1> QED
    BY <1>1, <1>2, <1>4 DEF Pair, IsFile

\* The name that the parser gives to a header is the one unpacking gives.
LEMMA NameIs ==
    ASSUME NEW headers, NEW n \in Nat, NEW tar, tar.zeros = 0, AsWritten(headers, n, tar)
    PROVE  Canonical(RawPath(tar, headers[n + 1])) = UnpackedName(headers, n + 1)
  <1>1. CASE Announcing(headers, n)
    <2>1. n + 1 > 1 /\ headers[(n + 1) - 1].type \in {"pax", "long"}
      BY <1>1 DEF Announcing
    <2>2. tar.announced = headers[(n + 1) - 1].path /\ tar.announced # <<>>
      BY <1>1 DEF AsWritten
    <2> QED
      BY <2>1, <2>2 DEF RawPath, UnpackedName
  <1>2. CASE ~Announcing(headers, n)
    <2>1. ~(n + 1 > 1 /\ headers[(n + 1) - 1].type \in {"pax", "long"})
      BY <1>2 DEF Announcing
    <2>2. tar.announced = <<>>
      BY <1>2 DEF AsWritten
    <2> QED
      BY <2>1, <2>2 DEF RawPath, UnpackedName
  <1> QED
    BY <1>1, <1>2

\* What one header changes of what is kept.
LEMMA InsertKept ==
    ASSUME NEW map, NEW key, NEW value, key \notin DOMAIN map
    PROVE  {<<k, Insert(map, key, value)[k]>> : k \in DOMAIN Insert(map, key, value)}
              = {<<k, map[k]>> : k \in DOMAIN map} \cup {<<key, value>>}
  <1> DEFINE new == Insert(map, key, value)
  <1>1. DOMAIN new = DOMAIN map \cup {key} /\ new[key] = value
    BY DEF Insert
  <1>2. \A k \in DOMAIN map : new[k] = map[k]
    BY DEF Insert
  <1> HIDE DEF new
  <1>3. {<<k, new[k]>> : k \in DOMAIN new} \subseteq {<<k, map[k]>> : k \in DOMAIN map} \cup {<<key, value>>}
    BY <1>1, <1>2
  <1>4. {<<k, map[k]>> : k \in DOMAIN map} \cup {<<key, value>>} \subseteq {<<k, new[k]>> : k \in DOMAIN new}
    BY <1>1, <1>2
  <1> QED
    BY <1>3, <1>4 DEF new

\* The elements of a sequence with one more.
LEMMA AppendKept ==
    ASSUME NEW S, NEW s \in Seq(S), NEW e \in S
    PROVE  /\ Append(s, e) \in Seq(S)
           /\ {Append(s, e)[i] : i \in DOMAIN Append(s, e)} = {s[i] : i \in DOMAIN s} \cup {e}
  <1>1. /\ Append(s, e) \in Seq(S) /\ Len(Append(s, e)) = Len(s) + 1
        /\ \A i \in 1..Len(s) : Append(s, e)[i] = s[i]
        /\ Append(s, e)[Len(s) + 1] = e
    BY AppendProperties
  <1>2. DOMAIN Append(s, e) = 1..(Len(s) + 1) /\ DOMAIN s = 1..Len(s) /\ Len(s) \in Nat
    BY <1>1, LenProperties
  <1> DEFINE t == Append(s, e)
  <1> HIDE DEF t
  <1>3. \A i \in 1..(Len(s) + 1) : t[i] = IF i = Len(s) + 1 THEN e ELSE s[i]
    BY <1>1, <1>2 DEF t
  <1>4. {t[i] : i \in 1..(Len(s) + 1)} = {s[i] : i \in 1..Len(s)} \cup {e}
    BY <1>2, <1>3
  <1> QED
    BY <1>1, <1>2, <1>4 DEF t

\* A refused archive claims nothing.
LEMMA RefuseKeeps ==
    ASSUME NEW headers, NEW n, NEW tar, IsTar(tar, Unpacked(headers))
    PROVE  ParseInv(headers, n, Refuse(tar))
  <1> DEFINE next == Refuse(tar)
  <1>1. /\ DOMAIN next = TarFields /\ next.ok = FALSE /\ next.zeros = tar.zeros
        /\ next.pax = tar.pax /\ next.aliases = tar.aliases
    BY DEF IsTar, Refuse, TarFields
  <1> HIDE DEF next
  <1> QED
    BY <1>1 DEF ParseInv, IsTar, next

\* A member is kept as unpacking writes it: Member.
LEMMA MemberKeeps ==
    ASSUME NEW policy, NEW headers, NEW n \in Nat, n + 1 \in DOMAIN headers,
           NEW tar, IsTar(tar, Unpacked(headers)), tar.zeros = 0, AsWritten(headers, n, tar),
           headers[n + 1].type \notin {"pax", "long"}
    PROVE  ParseInv(headers, n + 1, Member(policy, tar, headers[n + 1]))
  <1> DEFINE header == headers[n + 1]
             raw    == RawPath(tar, header)
             next   == Member(policy, tar, header)
             pair   == <<Canonical(raw), header.fact>>
  <1>1. CASE ~ValidMember(policy, tar, header)
    BY <1>1, RefuseKeeps DEF Member
  <1>2. CASE ValidMember(policy, tar, header)
    <2>1. pair = <<UnpackedName(headers, n + 1), header.fact>>
      BY NameIs
    <2>2. header.type = "file" => pair \in Unpacked(headers)
      BY <2>1 DEF Unpacked
    <2>0. raw = RawPath(tar, header) /\ next = Member(policy, tar, header)
          /\ ValidMember(policy, tar, header) /\ DOMAIN tar = TarFields
      BY <1>2 DEF IsTar
    <2>. HIDE DEF next, raw, header, pair
    <2>3. /\ DOMAIN next = TarFields /\ next.announced = <<>>
          /\ next.ok = tar.ok /\ next.zeros = tar.zeros /\ next.pax = tar.pax
          /\ header.type \in {"file", "dir", "link"}
          /\ header.type = "file" /\ Alias(raw) =>
                next.facts = tar.facts /\ next.aliases = Append(tar.aliases, pair)
          /\ header.type = "file" /\ ~Alias(raw) =>
                /\ Canonical(raw) \notin DOMAIN tar.facts
                /\ next.facts = Insert(tar.facts, Canonical(raw), header.fact)
                /\ next.aliases = tar.aliases
          /\ header.type # "file" => next.facts = tar.facts /\ next.aliases = tar.aliases
      <3> DEFINE base == [tar EXCEPT !.announced = <<>>, !.root = Canonical(raw)[1], !.members = @ + 1,
                                     !.raw = @ \cup {RawName(tar, header)}]
                 Same(t) == /\ DOMAIN t = TarFields /\ t.announced = <<>>
                            /\ t.ok = tar.ok /\ t.zeros = tar.zeros /\ t.pax = tar.pax
      <3>1. Same(base) /\ base.facts = tar.facts /\ base.aliases = tar.aliases
        BY <2>0 DEF TarFields
      <3>2. next = CASE header.type = "dir" -> base
                     [] header.type = "link" -> [base EXCEPT !.links = Insert(@, Canonical(raw), header.fact)]
                     [] header.type = "file" /\ Alias(raw) ->
                            [base EXCEPT !.aliases = Append(@, <<Canonical(raw), header.fact>>)]
                     [] OTHER -> [base EXCEPT !.facts = Insert(@, Canonical(raw), header.fact)]
        BY <2>0 DEF Member
      <3>3. \/ header.type = "file" /\ (Alias(raw) \/ Canonical(raw) \notin DOMAIN tar.facts)
            \/ header.type = "dir"
            \/ header.type = "link"
        BY <2>0 DEF ValidMember
      <3> HIDE DEF base
      <3>4. CASE header.type = "dir"
        <4>1. next = base
          BY <3>2, <3>4
        <4> QED
          BY <3>1, <4>1, <3>4
      <3>5. CASE header.type = "link"
        <4>1. next = [base EXCEPT !.links = Insert(@, Canonical(raw), header.fact)]
          BY <3>2, <3>5
        <4>2. Same(next) /\ next.facts = base.facts /\ next.aliases = base.aliases
          BY <3>1, <4>1 DEF TarFields
        <4> QED
          BY <3>1, <4>2, <3>5
      <3>6. CASE header.type = "file" /\ Alias(raw)
        <4>1. next = [base EXCEPT !.aliases = Append(@, <<Canonical(raw), header.fact>>)]
          BY <3>2, <3>6
        <4>2. /\ Same(next) /\ next.facts = base.facts
              /\ next.aliases = Append(base.aliases, <<Canonical(raw), header.fact>>)
          BY <3>1, <4>1 DEF TarFields
        <4> QED
          BY <3>1, <4>2, <3>6 DEF pair
      <3>7. CASE header.type = "file" /\ ~Alias(raw)
        <4>1. next = [base EXCEPT !.facts = Insert(@, Canonical(raw), header.fact)]
          BY <3>2, <3>7
        <4>2. /\ Same(next) /\ next.aliases = base.aliases
              /\ next.facts = Insert(base.facts, Canonical(raw), header.fact)
          BY <3>1, <4>1 DEF TarFields
        <4> QED
          BY <3>1, <3>3, <4>2, <3>7
      <3> QED
        BY <3>3, <3>4, <3>5, <3>6, <3>7
    <2>4. tar.aliases \in Seq(Unpacked(headers))
      BY DEF IsTar
    <2>5. next.aliases \in Seq(Unpacked(headers))
      <3>1. header.type = "file" /\ Alias(raw) => Append(tar.aliases, pair) \in Seq(Unpacked(headers))
        BY <2>2, <2>4, AppendKept
      <3> QED
        BY <2>3, <2>4, <3>1
    <2>6. KeptBy(next) = KeptBy(tar) \cup (IF header.type = "file" THEN {pair} ELSE {})
      <3>1. CASE header.type # "file"
        BY <2>3, <3>1 DEF KeptBy
      <3>2. CASE header.type = "file" /\ Alias(raw)
        <4>1. {next.aliases[i] : i \in DOMAIN next.aliases}
                 = {tar.aliases[i] : i \in DOMAIN tar.aliases} \cup {pair}
          <5>1. pair \in Unpacked(headers) /\ next.aliases = Append(tar.aliases, pair)
            BY <2>2, <2>3, <3>2
          <5> QED
            BY <2>4, <5>1, AppendKept
        <4> QED
          BY <2>3, <3>2, <4>1 DEF KeptBy
      <3>3. CASE header.type = "file" /\ ~Alias(raw)
        <4>1. {<<k, next.facts[k]>> : k \in DOMAIN next.facts}
                 = {<<k, tar.facts[k]>> : k \in DOMAIN tar.facts} \cup {pair}
          BY <2>3, <3>3, InsertKept DEF pair
        <4> QED
          BY <2>3, <3>3, <4>1 DEF KeptBy
      <3> QED
        BY <3>1, <3>2, <3>3
    <2>7. KeptBy(next) = WrittenBy(headers, n + 1)
      BY <2>1, <2>6, WrittenNext DEF AsWritten, header
    <2>8. next.announced = <<>> /\ ~Announcing(headers, n + 1)
      BY <2>3 DEF Announcing, header
    <2>9. IsTar(next, Unpacked(headers))
      BY <2>3, <2>5 DEF IsTar
    <2>10. AsWritten(headers, n + 1, next)
      BY <2>7, <2>8 DEF AsWritten
    <2> QED
      BY <2>9, <2>10 DEF ParseInv, next, header
  <1> QED
    BY <1>1, <1>2

\* A pax header or a long name writes nothing, and names the next: Announce.
LEMMA AnnounceKeeps ==
    ASSUME NEW policy, NEW headers, NEW n \in Nat,
           NEW tar, IsTar(tar, Unpacked(headers)), AsWritten(headers, n, tar),
           headers[n + 1].type \in {"pax", "long"}
    PROVE  ParseInv(headers, n + 1, Announce(policy, tar, headers[n + 1]))
  <1> DEFINE header == headers[n + 1]
             next   == Announce(policy, tar, header)
  <1>1. CASE next = Refuse(tar)
    BY <1>1, RefuseKeeps
  <1>2. CASE next # Refuse(tar)
    <2>1. /\ next = [tar EXCEPT !.announced = header.path,
                                !.pax = IF header.type = "pax" THEN @ + 1 ELSE @]
          /\ \/ tar.pax < Len(PinnedPaths) /\ header.path = PinnedPaths[tar.pax + 1]
             \/ header.path # <<>>
      BY <1>2 DEF Announce
    <2>2. tar.pax \in Nat
      BY DEF IsTar
    <2>3. header.path # <<>>
      BY <2>1, <2>2, PinnedAssumption
    <2> DEFINE pax == IF header.type = "pax" THEN tar.pax + 1 ELSE tar.pax
    <2>4. /\ DOMAIN next = TarFields /\ next.announced = header.path /\ next.pax = pax
          /\ next.ok = tar.ok /\ next.zeros = tar.zeros
          /\ next.facts = tar.facts /\ next.aliases = tar.aliases
      BY <2>1 DEF IsTar, TarFields
    <2>5. pax \in Nat
      BY <2>2
    <2> HIDE DEF next, pax
    <2>6. IsTar(next, Unpacked(headers))
      BY <2>4, <2>5 DEF IsTar
    <2>7. header.type # "file" /\ Announcing(headers, n + 1)
      BY DEF Announcing
    <2>8. KeptBy(next) = WrittenBy(headers, n + 1)
      <3>1. KeptBy(next) = KeptBy(tar)
        BY <2>4 DEF KeptBy
      <3> QED
        <4>1. WrittenBy(headers, n + 1) = WrittenBy(headers, n)
          <5>1. headers[n + 1].type # "file"
            BY <2>7
          <5>2. WrittenBy(headers, n + 1) = WrittenBy(headers, n) \cup {}
            BY <5>1, WrittenNext
          <5> QED
            BY <5>2
        <4> QED
          BY <3>1, <4>1 DEF AsWritten
    <2>9. AsWritten(headers, n + 1, next)
      BY <2>3, <2>4, <2>7, <2>8 DEF AsWritten
    <2> QED
      BY <2>6, <2>9 DEF ParseInv, next
  <1> QED
    BY <1>1, <1>2

\* Each block keeps what is known of the archive: Read.
LEMMA ReadKeeps ==
    ASSUME NEW policy, NEW headers, NEW n \in Nat, n + 1 \in DOMAIN headers,
           NEW tar, ParseInv(headers, n, tar)
    PROVE  ParseInv(headers, n + 1, Read(policy, tar, headers[n + 1]))
  <1> DEFINE header == headers[n + 1]
             next   == Read(policy, tar, header)
  <1>1. IsTar(tar, Unpacked(headers)) /\ (tar.ok = TRUE => AsWritten(headers, n, tar))
    BY DEF ParseInv
  <1>2. tar.ok \in BOOLEAN /\ tar.zeros \in Nat
    BY <1>1 DEF IsTar
  <1>3. CASE tar.ok = FALSE
    <2>1. next = tar
      BY <1>3 DEF Read
    <2> QED
      BY <1>1, <1>3, <2>1 DEF ParseInv
  <1>4. CASE tar.ok = TRUE /\ header.type = "zero"
    <2>1. next = [tar EXCEPT !.zeros = @ + 1]
      BY <1>4 DEF Read
    <2>2. /\ DOMAIN next = TarFields /\ next.zeros = tar.zeros + 1 /\ next.announced = tar.announced
          /\ next.ok = tar.ok /\ next.pax = tar.pax
          /\ next.facts = tar.facts /\ next.aliases = tar.aliases
      BY <1>1, <2>1 DEF IsTar, TarFields
    <2> HIDE DEF next
    <2>3. IsTar(next, Unpacked(headers))
      BY <1>1, <2>2 DEF IsTar
    <2>4. WrittenBy(headers, n + 1) = WrittenBy(headers, n)
      <3>1. headers[n + 1].type # "file"
        BY <1>4
      <3>2. WrittenBy(headers, n + 1) = WrittenBy(headers, n) \cup {}
        BY <3>1, WrittenNext
      <3> QED
        BY <3>2
    <2>5. KeptBy(next) = KeptBy(tar)
      BY <2>2 DEF KeptBy
    <2>6. AsWritten(headers, n + 1, next)
      <3>1. KeptBy(next) = WrittenBy(headers, n + 1)
        BY <1>1, <1>4, <2>4, <2>5 DEF AsWritten
      <3>2. next.zeros # 0
        BY <1>2, <2>2
      <3> QED
        BY <3>1, <3>2 DEF AsWritten
    <2> QED
      BY <2>3, <2>6 DEF ParseInv, next
  <1>5. CASE tar.ok = TRUE /\ header.type # "zero" /\ tar.zeros > 0
    <2>1. next = Refuse(tar)
      BY <1>5 DEF Read
    <2> QED
      BY <1>1, <2>1, RefuseKeeps
  <1>6. CASE tar.ok = TRUE /\ header.type \in {"pax", "long"} /\ ~(tar.zeros > 0)
    <2>1. next = Announce(policy, tar, header)
      BY <1>6 DEF Read
    <2> QED
      BY <1>1, <1>6, <2>1, AnnounceKeeps
  <1>7. CASE tar.ok = TRUE /\ header.type \notin {"zero", "pax", "long"} /\ ~(tar.zeros > 0)
    <2>1. next = Member(policy, tar, header)
      BY <1>7 DEF Read
    <2>2. tar.zeros = 0
      BY <1>2, <1>7
    <2> QED
      BY <1>1, <1>7, <2>1, <2>2, MemberKeeps
  <1> QED
    BY <1>2, <1>3, <1>4, <1>5, <1>6, <1>7

\* The archive of a package that is accepted keeps of each file what unpacking it
\* leaves, whichever header names it and however often (inspect_npm_archive,
\* parse_tar): KeepsWhatUnpacks.
THEOREM AcceptedUnpacks ==
    ASSUME NEW policy, NEW headers, Len(headers) \in Nat, DOMAIN headers = 1..Len(headers),
           policy # "node", NpmArchive(policy, headers)
    PROVE  KeepsWhatUnpacks(policy, headers)
  <1> DEFINE tars == Tar(policy, headers)
             Good == {n \in 0..Len(headers) : ParseInv(headers, n, tars[n])}
  <1>1. 0 \in Good
    <2>1. tars[0] = Start
      BY TarIs
    <2>2. Start.ok = TRUE /\ Start.zeros = 0 /\ Start.pax = 0 /\ Start.aliases = <<>>
      BY DEF Start
    <2>3. IsTar(Start, Unpacked(headers))
      <3>1. DOMAIN Start = TarFields
        BY DEF Start, TarFields
      <3>2. Start.aliases \in Seq(Unpacked(headers))
        BY <2>2, EmptySeq
      <3>3. Start.ok \in BOOLEAN
        BY <2>2
      <3>4. Start.zeros \in Nat /\ Start.pax \in Nat
        BY <2>2
      <3> HIDE DEF Start
      <3> QED
        BY <3>1, <3>2, <3>3, <3>4 DEF IsTar
    <2>4. KeptBy(Start) = {}
      <3>1. Start.facts = <<>>
        BY DEF Start
      <3> QED
        BY <2>2, <3>1 DEF KeptBy
    <2>5. WrittenBy(headers, 0) = {}
      BY DEF WrittenBy
    <2>6. Start.announced = <<>>
      BY DEF Start
    <2>7. ~Announcing(headers, 0)
      BY DEF Announcing
    <2>8. AsWritten(headers, 0, Start)
      BY <2>4, <2>5, <2>6, <2>7 DEF AsWritten
    <2> QED
      BY <2>1, <2>3, <2>8 DEF ParseInv
  <1>2. ASSUME NEW n \in 0..(Len(headers) - 1), n \in Good PROVE n + 1 \in Good
    <2>1. n \in Nat /\ n + 1 \in 1..Len(headers) /\ (n + 1) - 1 = n /\ ParseInv(headers, n, tars[n])
      BY <1>2
    <2>2. tars[n + 1] = Read(policy, tars[n], headers[n + 1])
      BY <2>1, TarIs
    <2> HIDE DEF tars
    <2>3. ParseInv(headers, n + 1, tars[n + 1])
      BY <2>1, <2>2, ReadKeeps
    <2> QED
      BY <2>1, <2>3
  <1> HIDE DEF Good
  <1>3. \A n \in 0..Len(headers) : n \in Good
    BY <1>1, <1>2, UpTo
  <1> DEFINE tar == Parse(policy, headers)
  <1>4. ParseInv(headers, Len(headers), tar)
    BY <1>3 DEF Good, Parse
  <1>5. tar.ok /\ AliasesRepeat(tar)
    BY DEF NpmArchive, Complete
  <1>6. IsTar(tar, Unpacked(headers)) /\ KeptBy(tar) = WrittenBy(headers, Len(headers))
    BY <1>4, <1>5 DEF ParseInv, AsWritten, IsTar
  <1>7. WrittenBy(headers, Len(headers)) = Unpacked(headers)
    BY DEF WrittenBy, Unpacked
  <1> HIDE DEF tar
  <1>8. ASSUME NEW i \in DOMAIN tar.aliases
        PROVE  tar.aliases[i] \in {<<path, tar.facts[path]>> : path \in DOMAIN tar.facts}
    <2>1. tar.aliases[i] \in Unpacked(headers)
      BY <1>6, LenProperties, ElementOfSeq DEF IsTar
    <2>2. tar.aliases[i] = <<tar.aliases[i][1], tar.aliases[i][2]>>
      BY <2>1 DEF Unpacked
    <2>3. tar.aliases[i][1] \in DOMAIN tar.facts /\ tar.facts[tar.aliases[i][1]] = tar.aliases[i][2]
      BY <1>5 DEF AliasesRepeat
    <2> QED
      BY <2>2, <2>3
  <1>9. KeptBy(tar) = {<<path, tar.facts[path]>> : path \in DOMAIN tar.facts}
    BY <1>8 DEF KeptBy
  <1> QED
    BY <1>6, <1>7, <1>9 DEF KeepsWhatUnpacks, tar

-----------------------------------------------------------------------------
(* Where a package is found, and npm's ranges                              *)

\* The first of the places that the verifier looks at (resolve) is the innermost,
\* where node finds the package.
THEOREM ResolveIsNearest ==
    ASSUME NEW records, NEW locator, Len(locator) \in Nat, NEW name
    PROVE  Resolve(records, locator, name) = Nearest(DOMAIN records, locator, name)
  <1> DEFINE n == Len(locator)
             Place(k) == SubSeq(locator, 1, k) \o <<name>>
             candidates == Candidates(locator, name)
             found  == {k \in DOMAIN candidates : candidates[k] \in DOMAIN records}
             around == {k \in 0..n : Place(k) \in DOMAIN records}
  <1>0. n \in Nat
    OBVIOUS
  <1>1. DOMAIN candidates = 1..(n + 1) /\ \A k \in 1..(n + 1) : candidates[k] = Place(n + 1 - k)
    BY DEF Candidates
  <1>2. Resolve(records, locator, name) = IF found = {} THEN {} ELSE {candidates[Min(found)]}
    BY DEF Resolve
  <1>3. Nearest(DOMAIN records, locator, name) = IF around = {} THEN {} ELSE {Place(Max(around))}
    BY DEF Nearest
  <1> HIDE DEF n, Place, candidates
  <1>4. \A k \in 0..n : n + 1 - k \in 1..(n + 1) /\ n + 1 - (n + 1 - k) = k
    BY <1>0
  <1>5. \A k \in 1..(n + 1) : n + 1 - k \in 0..n
    BY <1>0
  <1>6. \A k \in found : n + 1 - k \in around
    BY <1>1, <1>5
  <1>7. \A k \in around : n + 1 - k \in found
    BY <1>1, <1>4
  <1>8. CASE found = {}
    BY <1>2, <1>3, <1>7, <1>8
  <1>9. CASE found # {}
    <2>1. found \in SUBSET Nat /\ around \in SUBSET (0..n) /\ around # {}
      BY <1>1, <1>0, <1>6, <1>9
    <2> DEFINE low == Min(found)
               high == Max(around)
    <2>2. low \in found /\ \A k \in found : low <= k
      BY <1>9, <2>1, MinIs
    <2>3. high \in around /\ \A k \in around : k <= high
      BY <1>0, <2>1, MaxIs
    <2> HIDE DEF low, high, found, around
    <2>4. n + 1 - low <= high /\ low <= n + 1 - high
      BY <1>6, <1>7, <2>2, <2>3
    <2>5. low \in Nat /\ high \in Nat
      BY <1>0, <2>1, <2>2, <2>3
    <2>6. high = n + 1 - low
      BY <1>0, <2>4, <2>5
    <2>7. candidates[low] = Place(high)
      BY <1>1, <2>2, <2>6 DEF found
    <2> QED
      BY <1>2, <1>3, <1>9, <2>1, <2>7 DEF low, high, found, around
  <1> QED
    BY <1>8, <1>9

\* The order of versions, number by number.
LEMMA BelowIs ==
    ASSUME NEW v, NEW w
    PROVE  Below(v, w) <=>
              \/ v[1] < w[1]
              \/ v[1] = w[1] /\ v[2] < w[2]
              \/ v[1] = w[1] /\ v[2] = w[2] /\ v[3] < w[3]
              \/ v[1] = w[1] /\ v[2] = w[2] /\ v[3] = w[3] /\ v[4] < w[4]
  <1>1. 1..4 = {1, 2, 3, 4}
    OBVIOUS
  <1>2. /\ 1..(1 - 1) = {} /\ 1..(2 - 1) = {1} /\ 1..(3 - 1) = {1, 2} /\ 1..(4 - 1) = {1, 2, 3}
    OBVIOUS
  <1> DEFINE Same(i) == \A j \in 1..(i - 1) : v[j] = w[j]
  <1>3. /\ Same(1) /\ (Same(2) <=> v[1] = w[1]) /\ (Same(3) <=> v[1] = w[1] /\ v[2] = w[2])
        /\ (Same(4) <=> v[1] = w[1] /\ v[2] = w[2] /\ v[3] = w[3])
    BY <1>2
  <1>4. Below(v, w) <=> \E i \in {1, 2, 3, 4} : v[i] < w[i] /\ Same(i)
    BY <1>1 DEF Below
  <1> HIDE DEF Same
  <1> QED
    BY <1>3, <1>4

\* The numbers of a term, with zeros for those it has not.
LEMMA LowIs ==
    ASSUME NEW term, IsTerm(term), term.op # "*"
    PROVE  /\ Low(term) \in [1..4 -> Nat]
           /\ Low(term)[1] = term.at[1] /\ term.at[1] \in Nat
           /\ Low(term)[2] = (IF Len(term.at) >= 2 THEN term.at[2] ELSE 0)
           /\ Low(term)[3] = (IF Len(term.at) = 3 THEN term.at[3] ELSE 0)
           /\ Low(term)[4] = term.pre /\ term.pre \in Nat
           /\ Len(term.at) \in {1, 2, 3}
           /\ \A i \in 1..Len(term.at) : term.at[i] = Low(term)[i]
  <1>1. Len(term.at) \in {1, 2, 3} /\ term.pre \in Nat
    BY DEF IsTerm, Release
  <1>2. \A i \in 1..Len(term.at) : term.at[i] \in Nat
    BY <1>1, ElementOfSeq DEF IsTerm
  <1> DEFINE n == Len(term.at)
  <1>3. Low(term) = [i \in 1..4 |-> IF i = 4 THEN term.pre ELSE IF i <= n THEN term.at[i] ELSE 0]
    BY DEF Low
  <1> DEFINE low == Low(term)
  <1> HIDE DEF low, n
  <1>4. /\ low[1] = (IF 1 <= n THEN term.at[1] ELSE 0) /\ low[2] = (IF 2 <= n THEN term.at[2] ELSE 0)
        /\ low[3] = (IF 3 <= n THEN term.at[3] ELSE 0) /\ low[4] = term.pre
    BY <1>3 DEF low
  <1>5. n = 1 \/ n = 2 \/ n = 3
    BY <1>1 DEF n
  <1>6. \A i \in 1..n : term.at[i] \in Nat /\ term.at[i] = low[i]
    BY <1>2, <1>3, <1>5 DEF low, n
  <1>7. low \in [1..4 -> Nat]
    <2>1. \A i \in 1..4 : (i = 4 \/ i <= n) \/ low[i] = 0
      BY <1>3 DEF low
    <2>2. \A i \in 1..4 : low[i] \in Nat
      BY <1>1, <1>4, <1>5, <1>6, <2>1
    <2> QED
      BY <1>3, <2>2 DEF low
  <1>8. low[1] = term.at[1] /\ term.at[1] \in Nat
    BY <1>4, <1>5, <1>6
  <1>9. low[2] = (IF n >= 2 THEN term.at[2] ELSE 0) /\ low[3] = (IF n = 3 THEN term.at[3] ELSE 0)
    BY <1>4, <1>5
  <1> QED
    BY <1>1, <1>4, <1>6, <1>7, <1>8, <1>9 DEF low, n

\* The numbers of the end of an interval.
LEMMA UpperIs ==
    ASSUME NEW term, IsTerm(term), term.op # "*", NEW position \in 1..3, NEW pre \in Nat
    PROVE  /\ Upper(term, position, pre) \in [1..4 -> Nat]
           /\ \A i \in 1..3 : Upper(term, position, pre)[i] =
                 (IF i < position THEN Low(term)[i] ELSE IF i = position THEN Low(term)[i] + 1 ELSE 0)
           /\ Upper(term, position, pre)[4] = pre
  <1>1. Low(term) \in [1..4 -> Nat]
    BY LowIs
  <1> QED
    BY <1>1 DEF Upper

\* The versions of an interval have the numbers up to its position.
LEMMA IntervalIs ==
    ASSUME NEW term, IsTerm(term), term.op # "*", NEW position \in 1..3, position <= Len(term.at),
           NEW v, IsVersion(v), \A c \in Interval(term, position) : Holds(c, v)
    PROVE  ~Below(v, Low(term)) /\ Agrees(v, term, position)
  <1>1. ~Below(v, Low(term)) /\ Below(v, Upper(term, position, 0))
    <2> DEFINE c == Comparator(">=", Low(term))
               d == Comparator("<", Upper(term, position, 0))
    <2>1. Holds(c, v) /\ Holds(d, v)
      BY DEF Interval
    <2>2. c.op = ">=" /\ c.version = Low(term) /\ d.op = "<" /\ d.version = Upper(term, position, 0)
      BY DEF Comparator
    <2> HIDE DEF c, d
    <2> QED
      BY <2>1, <2>2 DEF Holds
  <1> DEFINE low == Low(term)
             up  == Upper(term, position, 0)
  <1>2. /\ low[1] \in Nat /\ low[2] \in Nat /\ low[3] \in Nat /\ low[4] \in Nat
        /\ \A i \in 1..Len(term.at) : term.at[i] = low[i]
    BY LowIs
  <1>3. v[1] \in Nat /\ v[2] \in Nat /\ v[3] \in Nat /\ v[4] \in Nat
    BY DEF IsVersion
  <1>4. /\ \A i \in 1..3 : up[i] = (IF i < position THEN low[i] ELSE IF i = position THEN low[i] + 1 ELSE 0)
        /\ up[4] = 0
    BY UpperIs
  <1> HIDE DEF low, up
  <1>5. /\ up[1] = (IF position = 1 THEN low[1] + 1 ELSE low[1])
        /\ up[2] = (IF position = 1 THEN 0 ELSE IF position = 2 THEN low[2] + 1 ELSE low[2])
        /\ up[3] = (IF position = 3 THEN low[3] + 1 ELSE 0)
    <2>1. position \in {1, 2, 3}
      OBVIOUS
    <2> QED
      BY <1>4, <2>1
  <1>6. /\ ~(\/ v[1] < low[1]
             \/ v[1] = low[1] /\ v[2] < low[2]
             \/ v[1] = low[1] /\ v[2] = low[2] /\ v[3] < low[3]
             \/ v[1] = low[1] /\ v[2] = low[2] /\ v[3] = low[3] /\ v[4] < low[4])
        /\ \/ v[1] < up[1]
           \/ v[1] = up[1] /\ v[2] < up[2]
           \/ v[1] = up[1] /\ v[2] = up[2] /\ v[3] < up[3]
           \/ v[1] = up[1] /\ v[2] = up[2] /\ v[3] = up[3] /\ v[4] < up[4]
    BY <1>1, BelowIs DEF low, up
  <1>7. /\ v[1] = low[1]
        /\ position >= 2 => v[2] = low[2]
        /\ position = 3 => v[3] = low[3]
    <2>1. up[4] = 0
      BY <1>4
    <2>2. CASE position = 1
      <3>1. up[1] = low[1] + 1 /\ up[2] = 0 /\ up[3] = 0
        BY <1>5, <2>2
      <3> QED
        BY <1>2, <1>3, <1>6, <2>1, <2>2, <3>1
    <2>3. CASE position = 2
      <3>1. up[1] = low[1] /\ up[2] = low[2] + 1 /\ up[3] = 0
        BY <1>5, <2>3
      <3> QED
        BY <1>2, <1>3, <1>6, <2>1, <2>3, <3>1
    <2>4. CASE position = 3
      <3>1. up[1] = low[1] /\ up[2] = low[2] /\ up[3] = low[3] + 1
        BY <1>5, <2>4
      <3> QED
        BY <1>2, <1>3, <1>6, <2>1, <2>4, <3>1
    <2> QED
      BY <2>2, <2>3, <2>4
  <1>8. \A i \in 1..position : v[i] = low[i]
    <2>1. 1..position \subseteq {1, 2, 3}
      OBVIOUS
    <2> QED
      BY <1>7, <2>1
  <1>9. \A i \in 1..position : i \in 1..Len(term.at)
    BY DEF IsTerm
  <1>10. Agrees(v, term, position)
    BY <1>2, <1>8, <1>9 DEF Agrees
  <1> QED
    BY <1>1, <1>10

\* A caret's interval has the versions whose numbers agree with the term's up to
\* the first that is not zero: CaretPosition.
LEMMA CaretIs ==
    ASSUME NEW term, IsTerm(term), term.op # "*", NEW n, n = Len(term.at),
           NEW nonzero, nonzero = {i \in 1..n : term.at[i] # 0}
    PROVE  /\ CaretPosition(term) \in 1..3 /\ CaretPosition(term) <= n
           /\ CaretPosition(term) = IF nonzero = {} THEN n ELSE Min(nonzero)
  <1>1. n \in {1, 2, 3}
    BY LowIs
  <1>2. CASE nonzero = {}
    <2>1. \A i \in 1..n : term.at[i] = 0
      BY <1>2
    <2>2. term.at[1] = 0 /\ (n >= 2 => term.at[2] = 0)
      BY <1>1, <2>1
    <2>3. CaretPosition(term) = n
      <3>1. CASE n = 1
        BY <3>1 DEF CaretPosition
      <3>2. CASE n = 2
        BY <2>2, <3>2 DEF CaretPosition
      <3>3. CASE n = 3
        <4>1. term.at[1] = 0 /\ term.at[2] = 0 /\ Len(term.at) # 1 /\ Len(term.at) # 2
          BY <2>2, <3>3
        <4> QED
          BY <3>3, <4>1 DEF CaretPosition
      <3> QED
        BY <1>1, <3>1, <3>2, <3>3
    <2> QED
      BY <1>1, <1>2, <2>3
  <1>3. CASE nonzero # {}
    <2> DEFINE m == Min(nonzero)
    <2>1. nonzero \in SUBSET Nat
      OBVIOUS
    <2>2. m \in nonzero /\ \A k \in nonzero : m <= k
      BY <1>3, <2>1, MinIs
    <2> HIDE DEF m
    <2>3. m \in 1..n /\ term.at[m] # 0 /\ \A i \in 1..n : i < m => term.at[i] = 0
      BY <1>1, <2>1, <2>2
    <2>4. /\ m = 1 => term.at[1] # 0
          /\ m = 2 => term.at[1] = 0 /\ term.at[2] # 0 /\ n # 1
          /\ m = 3 => term.at[1] = 0 /\ term.at[2] = 0 /\ n = 3
          /\ m \in {1, 2, 3} /\ m <= n
      BY <1>1, <2>3
    <2>5. CaretPosition(term) = m
      BY <1>1, <2>4 DEF CaretPosition
    <2> QED
      BY <1>3, <2>4, <2>5 DEF m
  <1> QED
    BY <1>2, <1>3

\* A comparator of a term.
LEMMA OneComparator ==
    ASSUME NEW op, NEW w, NEW v, Holds(Comparator(op, w), v)
    PROVE  /\ op = ">=" => ~Below(v, w)
           /\ op = ">"  => Below(w, v)
           /\ op = "<"  => Below(v, w)
           /\ op = "<=" => ~Below(w, v)
           /\ op = "="  => v = w
  <1> DEFINE c == Comparator(op, w)
  <1>1. c.op = op /\ c.version = w /\ Holds(c, v)
    BY DEF Comparator
  <1> HIDE DEF c
  <1> QED
    BY <1>1 DEF Holds

\* The end of the interval at the last number of a term.
LEMMA UpperAt ==
    ASSUME NEW term, IsTerm(term), term.op # "*", NEW n \in 1..3, NEW pre \in Nat
    PROVE  /\ Upper(term, n, pre)[1] = (IF n = 1 THEN Low(term)[1] + 1 ELSE Low(term)[1])
           /\ Upper(term, n, pre)[2] =
                 (IF n = 1 THEN 0 ELSE IF n = 2 THEN Low(term)[2] + 1 ELSE Low(term)[2])
           /\ Upper(term, n, pre)[3] =
                 (IF n = 1 \/ n = 2 THEN 0 ELSE Low(term)[3] + 1)
           /\ Upper(term, n, pre)[4] = pre
  <1>3. \A i \in 1..3 : Upper(term, n, pre)[i] =
            (IF i < n THEN Low(term)[i] ELSE IF i = n THEN Low(term)[i] + 1 ELSE 0)
    BY UpperIs
  <1>5. Upper(term, n, pre)[4] = pre
    BY UpperIs
  <1> QED
    BY <1>3, <1>5

\* What the comparators of a term admit is what npm's operator means.
LEMMA TermIs ==
    ASSUME NEW term, IsTerm(term), NEW v, IsVersion(v),
           \A c \in Comparators(term) : Holds(c, v)
    PROVE  InTerm(term, v)
  <1> DEFINE n == Len(term.at)
             low == Low(term)
             nonzero == {i \in 1..n : term.at[i] # 0}
  <1>0. term.op \in Operators
    BY DEF IsTerm
  <1>1. CASE term.op = "*"
    BY <1>1 DEF InTerm
  <1>2. CASE term.op # "*"
    <2>1. /\ n \in {1, 2, 3} /\ low \in [1..4 -> Nat]
          /\ \A i \in 1..n : term.at[i] = low[i]
          /\ n < 2 => low[2] = 0
          /\ n < 3 => low[3] = 0
          /\ low[4] = term.pre
      BY <1>2, LowIs
    <2>0. n = 1 \/ n = 2 \/ n = 3
      BY <2>1
    <2>2. v \in [1..4 -> Nat] /\ v[4] <= 9
      BY DEF IsVersion, Release
    <2>3. n < 3 => low[4] = 9
      BY <2>1 DEF IsTerm, Release
    <2>4. Partial(term) <=> n < 3
      BY DEF Partial
    <2>5. /\ Agrees(v, term, n) <=> \A i \in 1..n : v[i] = low[i]
          /\ Agrees(v, term, n) <=> v[1] = low[1] /\ (n >= 2 => v[2] = low[2]) /\ (n = 3 => v[3] = low[3])
      <3>1. Agrees(v, term, n) <=> \A i \in 1..n : v[i] = low[i]
        BY <2>1 DEF Agrees
      <3>2. (\A i \in 1..n : v[i] = low[i])
               <=> v[1] = low[1] /\ (n >= 2 => v[2] = low[2]) /\ (n = 3 => v[3] = low[3])
        <4> HIDE DEF low, n
        <4>1. CASE n = 1
          BY <4>1
        <4>2. CASE n = 2
          BY <4>2
        <4>3. CASE n = 3
          BY <4>3
        <4> QED
          BY <2>0, <4>1, <4>2, <4>3
      <3> QED
        BY <3>1, <3>2
    <2> DEFINE up(pre) == Upper(term, n, pre)
    <2>6. \A pre \in Nat :
             /\ up(pre)[1] = (IF n = 1 THEN low[1] + 1 ELSE low[1])
             /\ up(pre)[2] = (IF n = 1 THEN 0 ELSE IF n = 2 THEN low[2] + 1 ELSE low[2])
             /\ up(pre)[3] = (IF n = 1 \/ n = 2 THEN 0 ELSE low[3] + 1)
             /\ up(pre)[4] = pre
      <3> DEFINE Is(p) == \A pre \in Nat :
                              /\ Upper(term, p, pre)[1] = (IF p = 1 THEN low[1] + 1 ELSE low[1])
                              /\ Upper(term, p, pre)[2] =
                                    (IF p = 1 THEN 0 ELSE IF p = 2 THEN low[2] + 1 ELSE low[2])
                              /\ Upper(term, p, pre)[3] = (IF p = 1 \/ p = 2 THEN 0 ELSE low[3] + 1)
                              /\ Upper(term, p, pre)[4] = pre
      <3>1. ASSUME NEW p \in 1..3 PROVE Is(p)
        BY <1>2, UpperAt
      <3>2. Is(n)
        <4> HIDE DEF Is, n
        <4> QED
          BY <2>0, <3>1
      <3> QED
        BY <3>2
    <2>7. /\ v[1] \in Nat /\ v[2] \in Nat /\ v[3] \in Nat /\ v[4] \in Nat
          /\ low[1] \in Nat /\ low[2] \in Nat /\ low[3] \in Nat /\ low[4] \in Nat
      BY <2>1, <2>2
    <2>8. CASE term.op = "^"
      <3>1. Comparators(term) = Interval(term, CaretPosition(term))
        BY <2>8 DEF Comparators
      <3>2. ~Below(v, low) /\ Agrees(v, term, CaretPosition(term))
        BY <1>2, <3>1, CaretIs, IntervalIs
      <3>3. CaretPosition(term) = IF nonzero = {} THEN n ELSE Min(nonzero)
        BY <1>2, CaretIs
      <3> QED
        BY <2>8, <3>2, <3>3 DEF InTerm
    <2>9. CASE term.op = "~"
      <3> DEFINE p == IF n = 1 THEN 1 ELSE 2
      <3>1. Comparators(term) = Interval(term, p)
        BY <2>9 DEF Comparators
      <3>2. p \in 1..3 /\ p <= n
        <4> HIDE DEF n
        <4> QED
          BY <2>0
      <3>3. ~Below(v, low) /\ Agrees(v, term, p)
        BY <1>2, <3>1, <3>2, IntervalIs
      <3> QED
        BY <2>9, <3>3 DEF InTerm
    <2>10. CASE term.op = "=" /\ Partial(term)
      <3>1. Comparators(term) = Interval(term, n)
        BY <2>10 DEF Comparators
      <3>2. n \in 1..3 /\ n <= n /\ n # 3
        <4>1. n < 3
          BY <2>4, <2>10
        <4> HIDE DEF n
        <4> QED
          BY <2>0, <4>1
      <3>3. Agrees(v, term, n)
        BY <1>2, <3>1, <3>2, IntervalIs
      <3> QED
        BY <2>10, <3>2, <3>3 DEF InTerm
    <2>11. CASE term.op = ">" /\ Partial(term)
      <3>1. Holds(Comparator(">=", up(9)), v)
        BY <2>11 DEF Comparators, Release
      <3>2. ~Below(v, up(9))
        BY <3>1, OneComparator
      <3>3. n < 3
        BY <2>4, <2>11
      <3> DEFINE w == up(9)
      <3>4. /\ w[1] = (IF n = 1 THEN low[1] + 1 ELSE low[1])
            /\ w[2] = (IF n = 1 THEN 0 ELSE IF n = 2 THEN low[2] + 1 ELSE low[2])
            /\ w[3] = (IF n = 1 \/ n = 2 THEN 0 ELSE low[3] + 1)
            /\ w[4] = 9
        BY <2>6
      <3> HIDE DEF up, low, n, w
      <3>5. ~(\/ v[1] < w[1]
              \/ v[1] = w[1] /\ v[2] < w[2]
              \/ v[1] = w[1] /\ v[2] = w[2] /\ v[3] < w[3]
              \/ v[1] = w[1] /\ v[2] = w[2] /\ v[3] = w[3] /\ v[4] < w[4])
        BY <3>2, BelowIs DEF w
      <3>6. ~Agrees(v, term, n)
        BY <2>1, <2>5, <2>7, <3>3, <3>4, <3>5
      <3>7. ~(\/ v[1] < low[1]
              \/ v[1] = low[1] /\ v[2] < low[2]
              \/ v[1] = low[1] /\ v[2] = low[2] /\ v[3] < low[3]
              \/ v[1] = low[1] /\ v[2] = low[2] /\ v[3] = low[3] /\ v[4] < low[4])
        BY <2>1, <2>2, <2>7, <3>3, <3>4, <3>5
      <3>8. ~Below(v, low)
        BY <3>7, BelowIs
      <3>9. v # low
        BY <2>5, <3>6
      <3> QED
        BY <2>11, <3>6, <3>8, <3>9 DEF InTerm, low, n
    <2>12. CASE term.op = "<=" /\ Partial(term)
      <3>1. Holds(Comparator("<", up(0)), v)
        BY <2>12 DEF Comparators
      <3>2. Below(v, up(0))
        BY <3>1, OneComparator
      <3>3. n < 3
        BY <2>4, <2>12
      <3> DEFINE w == up(0)
      <3>4. /\ w[1] = (IF n = 1 THEN low[1] + 1 ELSE low[1])
            /\ w[2] = (IF n = 1 THEN 0 ELSE IF n = 2 THEN low[2] + 1 ELSE low[2])
            /\ w[3] = (IF n = 1 \/ n = 2 THEN 0 ELSE low[3] + 1)
            /\ w[4] = 0
        BY <2>6
      <3> HIDE DEF up, low, n, w
      <3>5. \/ v[1] < w[1]
            \/ v[1] = w[1] /\ v[2] < w[2]
            \/ v[1] = w[1] /\ v[2] = w[2] /\ v[3] < w[3]
            \/ v[1] = w[1] /\ v[2] = w[2] /\ v[3] = w[3] /\ v[4] < w[4]
        BY <3>2, BelowIs DEF w
      <3>6. \/ Agrees(v, term, n)
            \/ ~(\/ low[1] < v[1]
                 \/ low[1] = v[1] /\ low[2] < v[2]
                 \/ low[1] = v[1] /\ low[2] = v[2] /\ low[3] < v[3]
                 \/ low[1] = v[1] /\ low[2] = v[2] /\ low[3] = v[3] /\ low[4] < v[4])
        BY <2>1, <2>5, <2>7, <3>3, <3>4, <3>5
      <3>7. ~Below(low, v) \/ Agrees(v, term, n)
        BY <3>6, BelowIs
      <3> QED
        BY <2>12, <3>3, <3>7 DEF InTerm, low, n
    <2>13. CASE term.op = "<" /\ Partial(term)
      <3> DEFINE w == [low EXCEPT ![4] = 0]
      <3>1. Holds(Comparator("<", w), v)
        BY <2>13 DEF Comparators
      <3>2. Below(v, w)
        BY <3>1, OneComparator
      <3>3. n < 3
        BY <2>4, <2>13
      <3>4. w[1] = low[1] /\ w[2] = low[2] /\ w[3] = low[3] /\ w[4] = 0
        BY <2>1
      <3> HIDE DEF w, low, n
      <3>5. \/ v[1] < w[1]
            \/ v[1] = w[1] /\ v[2] < w[2]
            \/ v[1] = w[1] /\ v[2] = w[2] /\ v[3] < w[3]
            \/ v[1] = w[1] /\ v[2] = w[2] /\ v[3] = w[3] /\ v[4] < w[4]
        BY <3>2, BelowIs
      <3>6. ~Agrees(v, term, n)
        BY <2>1, <2>5, <2>7, <3>3, <3>4, <3>5
      <3>7. \/ v[1] < low[1]
            \/ v[1] = low[1] /\ v[2] < low[2]
            \/ v[1] = low[1] /\ v[2] = low[2] /\ v[3] < low[3]
            \/ v[1] = low[1] /\ v[2] = low[2] /\ v[3] = low[3] /\ v[4] < low[4]
        BY <2>7, <3>4, <3>5
      <3>8. Below(v, low)
        BY <3>7, BelowIs
      <3> QED
        BY <2>13, <3>6, <3>8 DEF InTerm, low, n
    <2>14. CASE ~Partial(term) /\ term.op \in {"=", ">", "<=", "<"}
      <3>1. n = 3
        BY <2>1, <2>4, <2>14
      <3>2. Holds(Comparator(term.op, low), v)
        BY <2>14 DEF Comparators
      <3>3. /\ term.op = ">"  => Below(low, v)
            /\ term.op = "<"  => Below(v, low)
            /\ term.op = "<=" => ~Below(low, v)
            /\ term.op = "="  => v = low
        BY <3>2, OneComparator
      <3> HIDE DEF low, n
      <3>4. Below(low, v) => ~Below(v, low) /\ v # low
        BY <2>7, BelowIs
      <3>5. v = low => Agrees(v, term, n) /\ v[4] = term.pre
        BY <2>1, <2>5
      <3>6. CASE term.op = "="
        BY <3>1, <3>3, <3>5, <3>6 DEF InTerm, low, n
      <3>7. CASE term.op = ">"
        BY <3>1, <3>3, <3>4, <3>7 DEF InTerm, low, n
      <3>8. CASE term.op = "<="
        BY <3>1, <3>3, <3>8 DEF InTerm, low, n
      <3>9. CASE term.op = "<"
        BY <3>1, <3>3, <3>9 DEF InTerm, low, n
      <3> QED
        BY <2>14, <3>6, <3>7, <3>8, <3>9
    <2>15. CASE term.op = ">="
      <3>1. Holds(Comparator(">=", low), v)
        BY <2>15 DEF Comparators
      <3>2. ~Below(v, low)
        BY <3>1, OneComparator
      <3> QED
        BY <2>15, <3>2 DEF InTerm
    <2> QED
      BY <1>0, <1>2, <2>8, <2>9, <2>10, <2>11, <2>12, <2>13, <2>14, <2>15 DEF Operators
  <1> QED
    BY <1>1, <1>2

\* The three numbers of a version.
LEMMA TripleIs ==
    ASSUME NEW w \in [1..4 -> Nat]
    PROVE  /\ SubSeq(w, 1, 3) \in Seq(Nat) /\ Len(SubSeq(w, 1, 3)) = 3
           /\ SubSeq(w, 1, 3)[1] = w[1] /\ SubSeq(w, 1, 3)[2] = w[2] /\ SubSeq(w, 1, 3)[3] = w[3]
  <1>1. \A i \in 1..3 : w[i] \in Nat
    OBVIOUS
  <1>2. /\ SubSeq(w, 1, 3) \in Seq(Nat)
        /\ Len(SubSeq(w, 1, 3)) = IF 1 <= 3 THEN 3 - 1 + 1 ELSE 0
        /\ \A i \in 1..(3 - 1 + 1) : SubSeq(w, 1, 3)[i] = w[1 + i - 1]
    <2>1. 1 \in Int /\ 3 \in Int
      OBVIOUS
    <2> QED
      BY <1>1, <2>1, SubSeqProperties
  <1>3. /\ SubSeq(w, 1, 3)[1] = w[1 + 1 - 1] /\ SubSeq(w, 1, 3)[2] = w[1 + 2 - 1]
        /\ SubSeq(w, 1, 3)[3] = w[1 + 3 - 1]
    <2>1. 1 \in 1..(3 - 1 + 1) /\ 2 \in 1..(3 - 1 + 1) /\ 3 \in 1..(3 - 1 + 1)
      OBVIOUS
    <2> QED
      BY <1>2, <2>1, Zenon
  <1>4. 1 + 1 - 1 = 1 /\ 1 + 2 - 1 = 2 /\ 1 + 3 - 1 = 3 /\ 3 - 1 + 1 = 3
    OBVIOUS
  <1> QED
    BY <1>2, <1>3, <1>4

\* A comparator with a lowest prerelease admits none of the same numbers.
LEMMA NoneOfTheSame ==
    ASSUME NEW w \in [1..4 -> Nat], w[4] = 0, NEW v, IsVersion(v),
           SubSeq(w, 1, 3) = SubSeq(v, 1, 3)
    PROVE  ~Below(v, w)
  <1>1. v[1] = w[1] /\ v[2] = w[2] /\ v[3] = w[3]
    BY TripleIs DEF IsVersion
  <1>2. v[4] \in Nat /\ v[1] \in Nat /\ v[2] \in Nat /\ v[3] \in Nat
    BY DEF IsVersion
  <1> QED
    BY <1>1, <1>2, BelowIs

\* A comparator that admits a prerelease is one of a term that names it.
LEMMA PrereleaseNamed ==
    ASSUME NEW term, IsTerm(term), NEW v, IsVersion(v), NEW c \in Comparators(term),
           Holds(c, v), ~IsRelease(c.version), SubSeq(c.version, 1, 3) = SubSeq(v, 1, 3)
    PROVE  term.pre # Release /\ SubSeq(v, 1, 3) = term.at
  <1> DEFINE n == Len(term.at)
             low == Low(term)
  <1>1. term.op # "*"
    BY DEF Comparators
  <1>2. low \in [1..4 -> Nat] /\ low[4] = term.pre /\ (n = 1 \/ n = 2 \/ n = 3)
        /\ \A i \in 1..n : term.at[i] = low[i]
    BY <1>1, LowIs
  <1>3. CASE c.version = low
    <2>1. term.pre # Release
      BY <1>2, <1>3 DEF IsRelease
    <2>2. n = 3
      <3>1. ~(n < 3)
        BY <2>1 DEF IsTerm
      <3> HIDE DEF n
      <3> QED
        BY <1>2, <3>1
    <2>3. SubSeq(low, 1, 3) = term.at
      <3>1. /\ SubSeq(low, 1, 3) \in Seq(Nat) /\ Len(SubSeq(low, 1, 3)) = 3
            /\ SubSeq(low, 1, 3)[1] = low[1] /\ SubSeq(low, 1, 3)[2] = low[2]
            /\ SubSeq(low, 1, 3)[3] = low[3]
        BY <1>2, TripleIs
      <3>2. term.at[1] = low[1] /\ term.at[2] = low[2] /\ term.at[3] = low[3]
        BY <1>2, <2>2
      <3>3. \A i \in 1..3 : SubSeq(low, 1, 3)[i] = term.at[i]
        <4>1. 1..3 = {1, 2, 3}
          OBVIOUS
        <4> QED
          BY <3>1, <3>2, <4>1
      <3>4. term.at \in Seq(Nat)
        BY DEF IsTerm
      <3> QED
        BY <2>2, <3>1, <3>3, <3>4, SeqEqual
    <2> QED
      BY <1>3, <2>1, <2>3
  <1>4. CASE c.op = "<" /\ c.version \in [1..4 -> Nat] /\ c.version[4] = 0
    <2>1. Below(v, c.version)
      BY <1>4 DEF Holds
    <2> QED
      BY <1>4, <2>1, NoneOfTheSame
  <1>5. c.version = low \/ (c.op = "<" /\ c.version \in [1..4 -> Nat] /\ c.version[4] = 0)
    <2>1. \A p \in 1..3 : Upper(term, p, 0) \in [1..4 -> Nat] /\ Upper(term, p, 0)[4] = 0
      BY <1>1, UpperIs
    <2>2. \A op, w : Comparator(op, w).op = op /\ Comparator(op, w).version = w
      BY DEF Comparator
    <2>3. \A p \in 1..3 : c \in Interval(term, p) =>
              c.version = low \/ (c.op = "<" /\ c.version \in [1..4 -> Nat] /\ c.version[4] = 0)
      BY <2>1, <2>2 DEF Interval
    <2>4. n \in 1..3
      <3> HIDE DEF n
      <3> QED
        BY <1>2
    <2>5. Upper(term, n, Release)[4] = Release
      <3>1. Release \in Nat
        BY DEF Release
      <3>2. \A p \in 1..3 : Upper(term, p, Release)[4] = Release
        BY <1>1, <3>1, UpperIs
      <3> HIDE DEF n
      <3> QED
        BY <2>4, <3>2
    <2>6. CASE term.op = "^"
      <3>1. CaretPosition(term) \in 1..3
        BY <1>1, CaretIs
      <3>2. c \in Interval(term, CaretPosition(term))
        BY <2>6 DEF Comparators
      <3> QED
        BY <2>3, <3>1, <3>2
    <2>7. CASE term.op = "~"
      <3>1. c \in Interval(term, IF n = 1 THEN 1 ELSE 2)
        BY <2>7 DEF Comparators
      <3>2. (IF n = 1 THEN 1 ELSE 2) \in 1..3
        OBVIOUS
      <3> QED
        BY <2>3, <3>1, <3>2
    <2>8. CASE term.op = "=" /\ Partial(term)
      <3>1. c \in Interval(term, n)
        BY <2>8 DEF Comparators
      <3> QED
        BY <2>3, <2>4, <3>1
    <2>9. CASE term.op = ">" /\ Partial(term)
      <3>1. c = Comparator(">=", Upper(term, n, Release))
        BY <2>9 DEF Comparators
      <3> QED
        BY <2>2, <2>5, <3>1 DEF IsRelease
    <2>10. CASE term.op = "<=" /\ Partial(term)
      <3>1. c = Comparator("<", Upper(term, n, 0))
        BY <2>10 DEF Comparators
      <3>2. c.op = "<" /\ c.version = Upper(term, n, 0)
        BY <2>2, <3>1
      <3> HIDE DEF n
      <3> QED
        BY <2>1, <2>4, <3>2
    <2>11. CASE term.op = "<" /\ Partial(term)
      <3>1. c = Comparator("<", [low EXCEPT ![4] = 0])
        BY <2>11 DEF Comparators
      <3>2. c.op = "<" /\ c.version = [low EXCEPT ![4] = 0]
        BY <2>2, <3>1
      <3> HIDE DEF low
      <3> QED
        BY <1>2, <3>2
    <2>12. CASE term.op = ">=" \/ (~Partial(term) /\ term.op \in {"=", ">", "<=", "<"})
      <3>1. c = Comparator(term.op, low)
        BY <2>12 DEF Comparators
      <3> QED
        BY <2>2, <3>1
    <2>13. term.op \in Operators
      BY DEF IsTerm
    <2> QED
      BY <1>1, <2>6, <2>7, <2>8, <2>9, <2>10, <2>11, <2>12, <2>13 DEF Operators
  <1> QED
    BY <1>3, <1>4, <1>5

\* A version that the verifier finds in a range (npm_range_matches, over semver's
\* comparators) is in it as npm means it.
THEOREM RangeIs ==
    ASSUME NEW range, \A terms \in range : \A term \in terms : IsTerm(term),
           NEW v, IsVersion(v), RangeMatches(range, v)
    PROVE  InRange(range, v)
  <1> PICK terms \in range : Matches(UNION {Comparators(term) : term \in terms}, v)
    BY DEF RangeMatches
  <1>1. \A c \in UNION {Comparators(term) : term \in terms} : Holds(c, v)
    BY DEF Matches
  <1>2. \A term \in terms : InTerm(term, v)
    <2>1. ASSUME NEW term \in terms PROVE InTerm(term, v)
      <3>1. \A c \in Comparators(term) : Holds(c, v)
        BY <1>1
      <3> QED
        BY <3>1, TermIs
    <2> QED
      BY <2>1
  <1>3. ASSUME ~IsRelease(v)
        PROVE  \E term \in terms : term.pre # Release /\ SubSeq(v, 1, 3) = term.at
    <2>1. PICK c \in UNION {Comparators(term) : term \in terms} :
              ~IsRelease(c.version) /\ SubSeq(c.version, 1, 3) = SubSeq(v, 1, 3)
      BY <1>3 DEF Matches
    <2>2. PICK term \in terms : c \in Comparators(term)
      BY <2>1
    <2>3. Holds(c, v)
      BY <1>1, <2>1
    <2>4. term.pre # Release /\ SubSeq(v, 1, 3) = term.at
      BY <2>1, <2>2, <2>3, PrereleaseNamed
    <2> QED
      BY <2>4
  <1> QED
    BY <1>2, <1>3 DEF InRange

-----------------------------------------------------------------------------
(* The walk of verify_closure                                              *)

\* A turn is defined by its edges.
\* The walk after each edge of a turn.
TurnSteps(walk, edges, after) ==
    /\ after[0] = [reached |-> walk.reached, pending |-> Tail(walk.pending)]
    /\ \A n \in 1..Len(edges) :
          after[n] = Follow(after[n - 1], edges[n], Head(walk.pending)[2] /\ edges[n][2])

LEMMA VisitsIs ==
    ASSUME NEW walk, NEW edges, Len(edges) \in Nat
    PROVE  TurnSteps(walk, edges, Visits(walk, edges))
  <1> DEFINE first == [reached |-> walk.reached, pending |-> Tail(walk.pending)]
             Next1(g, k) == IF k = 0 THEN first
                            ELSE Follow(g[k - 1], edges[k], Head(walk.pending)[2] /\ edges[k][2])
             Good == {n \in 0..Len(edges) : \E g : g = [k \in 0..n |-> Next1(g, k)]}
  <1>1. 0 \in Good
    <2> DEFINE g == [k \in 0..0 |-> first]
    <2>1. g = [k \in 0..0 |-> Next1(g, k)]
      OBVIOUS
    <2> HIDE DEF g
    <2>2. \E x : x = [k \in 0..0 |-> Next1(x, k)]
      BY <2>1
    <2> QED
      BY <2>2
  <1>2. ASSUME NEW n \in 0..(Len(edges) - 1), n \in Good PROVE n + 1 \in Good
    <2> PICK g : g = [k \in 0..n |-> Next1(g, k)]
      BY <1>2
    <2> DEFINE h == [k \in 0..(n + 1) |-> IF k = n + 1 THEN Next1(g, k) ELSE g[k]]
    <2>1. ASSUME NEW k \in 0..(n + 1) PROVE h[k] = Next1(h, k)
      <3>1. CASE k = 0
        BY <3>1
      <3>2. CASE k \in 1..n
        <4> HIDE DEF Next1
        <4>1. h[k] = g[k] /\ h[k - 1] = g[k - 1] /\ k # 0
          BY <3>2
        <4>2. g[k] = Next1(g, k)
          BY <3>2
        <4>3. Next1(g, k) = Next1(h, k)
          BY <4>1 DEF Next1
        <4> QED
          BY <4>1, <4>2, <4>3
      <3>3. CASE k = n + 1
        <4>1. h[k] = Next1(g, k) /\ h[k - 1] = g[k - 1]
          BY <3>3
        <4> QED
          BY <4>1
      <3> QED
        BY <3>1, <3>2, <3>3
    <2>2. h = [k \in 0..(n + 1) |-> Next1(h, k)]
      BY <2>1
    <2> HIDE DEF h
    <2>3. \E x : x = [k \in 0..(n + 1) |-> Next1(x, k)]
      BY <2>2
    <2>4. n + 1 \in 0..Len(edges)
      OBVIOUS
    <2> QED
      BY <2>3, <2>4
  <1>3. Len(edges) \in Good
    <2> HIDE DEF Good
    <2>1. \A n \in 0..Len(edges) : n \in Good
      BY <1>1, <1>2, UpTo
    <2> QED
      BY <2>1
  <1>4. \E g : g = [k \in 0..Len(edges) |-> Next1(g, k)]
    BY <1>3
  <1> DEFINE visits == Visits(walk, edges)
  <1>5. visits = [k \in 0..Len(edges) |-> Next1(visits, k)]
    BY <1>4 DEF Visits
  <1> HIDE DEF visits
  <1>6. visits[0] = first
    BY <1>5
  <1>7. ASSUME NEW n \in 1..Len(edges) PROVE visits[n] = Follow(visits[n - 1], edges[n], Head(walk.pending)[2] /\ edges[n][2])
    <2>1. n \in 0..Len(edges) /\ n # 0
      OBVIOUS
    <2>2. visits[n] = Next1(visits, n)
      <3> HIDE DEF Next1
      <3> QED
        BY <1>5, <2>1
    <2> QED
      BY <2>1, <2>2
  <1> QED
    BY <1>6, <1>7 DEF visits, TurnSteps

\* The walk is defined by its turns.
LEMMA WalkIs ==
    ASSUME NEW records, Turns(records) \in Nat
    PROVE  /\ Walk(records)[0] = [reached |-> Insert(<<>>, Root, TRUE), pending |-> <<<<Root, TRUE>>>>]
           /\ \A n \in 1..Turns(records) :
                 Walk(records)[n] = Turn(records, Walk(records)[n - 1])
  <1> DEFINE first == [reached |-> Insert(<<>>, Root, TRUE), pending |-> <<<<Root, TRUE>>>>]
             Next1(g, k) == IF k = 0 THEN first ELSE Turn(records, g[k - 1])
             Good == {n \in 0..Turns(records) : \E g : g = [k \in 0..n |-> Next1(g, k)]}
  <1>1. 0 \in Good
    <2> DEFINE g == [k \in 0..0 |-> first]
    <2>1. g = [k \in 0..0 |-> Next1(g, k)]
      OBVIOUS
    <2> HIDE DEF g
    <2>2. \E x : x = [k \in 0..0 |-> Next1(x, k)]
      BY <2>1
    <2>3. 0 \in 0..Turns(records)
      OBVIOUS
    <2> HIDE DEF Next1
    <2> QED
      BY <2>2, <2>3
  <1>2. ASSUME NEW n \in 0..(Turns(records) - 1), n \in Good PROVE n + 1 \in Good
    <2> PICK g : g = [k \in 0..n |-> Next1(g, k)]
      BY <1>2
    <2> DEFINE h == [k \in 0..(n + 1) |-> IF k = n + 1 THEN Next1(g, k) ELSE g[k]]
    <2>1. ASSUME NEW k \in 0..(n + 1) PROVE h[k] = Next1(h, k)
      <3>1. CASE k = 0
        BY <3>1
      <3>2. CASE k \in 1..n
        <4> HIDE DEF Next1
        <4>1. h[k] = g[k] /\ h[k - 1] = g[k - 1] /\ k # 0
          BY <3>2
        <4>2. g[k] = Next1(g, k)
          BY <3>2
        <4>3. Next1(g, k) = Next1(h, k)
          BY <4>1 DEF Next1
        <4> QED
          BY <4>1, <4>2, <4>3
      <3>3. CASE k = n + 1
        <4>1. h[k] = Next1(g, k) /\ h[k - 1] = g[k - 1]
          BY <3>3
        <4> QED
          BY <4>1
      <3> QED
        BY <3>1, <3>2, <3>3
    <2>2. h = [k \in 0..(n + 1) |-> Next1(h, k)]
      BY <2>1
    <2> HIDE DEF h
    <2>3. \E x : x = [k \in 0..(n + 1) |-> Next1(x, k)]
      BY <2>2
    <2>4. n + 1 \in 0..Turns(records)
      OBVIOUS
    <2> QED
      BY <2>3, <2>4
  <1>3. Turns(records) \in Good
    <2> HIDE DEF Good
    <2>1. \A n \in 0..Turns(records) : n \in Good
      BY <1>1, <1>2, UpTo
    <2> QED
      BY <2>1
  <1>4. \E g : g = [k \in 0..Turns(records) |-> Next1(g, k)]
    BY <1>3
  <1> DEFINE walk == Walk(records)
  <1>5. walk = [k \in 0..Turns(records) |-> Next1(walk, k)]
    BY <1>4 DEF Walk
  <1> HIDE DEF walk
  <1>6. walk[0] = first
    BY <1>5
  <1>7. ASSUME NEW n \in 1..Turns(records) PROVE walk[n] = Turn(records, walk[n - 1])
    <2>1. n \in 0..Turns(records) /\ n # 0
      OBVIOUS
    <2>2. walk[n] = Next1(walk, n)
      <3> HIDE DEF Next1
      <3> QED
        BY <1>5, <2>1
    <2> QED
      BY <2>1, <2>2
  <1> QED
    BY <1>6, <1>7 DEF walk

\* A walk over the packages of D, what it holds to be required, what it has
\* queued, and a bound on the turns it can still make.
IsWalk(D, walk) ==
    /\ DOMAIN walk.reached \subseteq D
    /\ \A l \in DOMAIN walk.reached : walk.reached[l] \in BOOLEAN
    /\ walk.pending \in Seq(D \X BOOLEAN)
Held(walk)   == {l \in DOMAIN walk.reached : walk.reached[l] = TRUE}
Queued(walk) == {walk.pending[i] : i \in DOMAIN walk.pending}
Potential(D, walk) ==
    Len(walk.pending) + Cardinality(D \ DOMAIN walk.reached) + Cardinality(D \ Held(walk))

\* What an edge changes of a walk.
Followed(D, walk, edge, required, next) ==
    /\ IsWalk(D, next)
    /\ Held(next) = Held(walk) \cup (IF required = TRUE THEN {edge[1]} ELSE {})
    /\ Queued(walk) \subseteq Queued(next)
    /\ Queued(next) \subseteq Queued(walk) \cup {<<edge[1], required>>}
    /\ required = TRUE /\ edge[1] \notin Held(walk) => <<edge[1], TRUE>> \in Queued(next)
    /\ Potential(D, next) <= Potential(D, walk)

\* What an edge changes of a walk: it never makes more turns possible.
LEMMA FollowHas ==
    ASSUME NEW D, IsFiniteSet(D), NEW walk, IsWalk(D, walk),
           NEW edge, edge[1] \in D, NEW required, required \in BOOLEAN,
           NEW next, next = Follow(walk, edge, required)
    PROVE  Followed(D, walk, edge, required, next)
  <1> DEFINE to     == edge[1]
             before == to \in DOMAIN walk.reached /\ walk.reached[to] = TRUE
             item   == <<to, required>>
             kept   == to \in DOMAIN walk.reached /\ (walk.reached[to] = TRUE \/ required = FALSE)
  <1>1. /\ DOMAIN walk.reached \subseteq D /\ walk.pending \in Seq(D \X BOOLEAN)
        /\ \A l \in DOMAIN walk.reached : walk.reached[l] \in BOOLEAN
    BY DEF IsWalk
  <1>2. /\ next.reached = Insert(walk.reached, to, required \/ before)
        /\ next.pending = walk.pending \o (IF kept THEN <<>> ELSE <<item>>)
    <2>1. (to \in DOMAIN walk.reached /\ walk.reached[to]) <=> before
      BY <1>1
    <2>2. (to \in DOMAIN walk.reached /\ (walk.reached[to] \/ ~required)) <=> kept
      BY <1>1
    <2>3. Requeue(walk.reached, edge, required) = IF kept THEN <<>> ELSE <<item>>
      BY <2>2 DEF Requeue
    <2>4. (required \/ (to \in DOMAIN walk.reached /\ walk.reached[to])) = (required \/ before)
      BY <2>1
    <2> HIDE DEF before, kept, item, to
    <2> QED
      BY <2>3, <2>4 DEF Follow, to
  <1>3. /\ DOMAIN next.reached = DOMAIN walk.reached \cup {to}
        /\ \A l \in DOMAIN walk.reached \ {to} : next.reached[l] = walk.reached[l]
        /\ next.reached[to] = (required \/ before)
    <2> HIDE DEF before, kept, item, to
    <2> QED
      BY <1>2 DEF Insert
  <1>4. to \in D /\ item \in D \X BOOLEAN
    OBVIOUS
  <1>5. (required \/ before) \in BOOLEAN /\ ((required \/ before) = TRUE <=> required = TRUE \/ before)
    OBVIOUS
  <1>6. Held(next) = Held(walk) \cup (IF required = TRUE THEN {to} ELSE {})
    <2>1. \A l : l \in Held(next) <=> l \in Held(walk) \/ (required = TRUE /\ l = to)
      <3> TAKE l
      <3>1. CASE l = to
        <4>1. l \in Held(next) <=> required = TRUE \/ before
          BY <1>3, <1>5, <3>1 DEF Held
        <4>2. l \in Held(walk) <=> before
          BY <3>1 DEF Held
        <4> QED
          BY <3>1, <4>1, <4>2
      <3>2. CASE l # to
        <4>1. l \in Held(next) <=> l \in Held(walk)
          BY <1>3, <3>2 DEF Held
        <4> QED
          BY <3>2, <4>1
      <3> QED
        BY <3>1, <3>2
    <2> QED
      BY <2>1
  <1> HIDE DEF to, before, item
  <1>7. CASE kept
    <2>1. next.pending = walk.pending
      BY <1>1, <1>2, <1>7, ConcatEmptySeq
    <2>2. Queued(next) = Queued(walk)
      BY <2>1 DEF Queued
    <2>3. IsWalk(D, next)
      <3>1. \A l \in DOMAIN next.reached : next.reached[l] \in BOOLEAN
        BY <1>1, <1>3, <1>5
      <3> QED
        BY <1>1, <1>3, <1>4, <2>1, <3>1 DEF IsWalk
    <2>4. DOMAIN next.reached = DOMAIN walk.reached /\ Held(next) = Held(walk)
      <3>1. required = TRUE => to \in Held(walk)
        BY <1>7 DEF Held
      <3> QED
        BY <1>3, <1>6, <1>7, <3>1
    <2>5. Potential(D, next) = Potential(D, walk)
      BY <2>1, <2>4 DEF Potential
    <2>7. Potential(D, walk) \in Int
      <3>1. IsFiniteSet(D \ DOMAIN walk.reached) /\ IsFiniteSet(D \ Held(walk))
        BY FS_Difference
      <3>2. Cardinality(D \ DOMAIN walk.reached) \in Nat /\ Cardinality(D \ Held(walk)) \in Nat
        BY <3>1, FS_CardinalityType
      <3>3. Len(walk.pending) \in Nat
        BY <1>1, LenProperties
      <3> QED
        BY <3>2, <3>3 DEF Potential
    <2>6. ~(required = TRUE /\ to \notin Held(walk))
      BY <1>7 DEF Held
    <2> QED
      BY <1>6, <2>2, <2>3, <2>5, <2>6, <2>7 DEF to, Followed
  <1>8. CASE ~kept
    <2>1. next.pending = Append(walk.pending, item)
      BY <1>1, <1>2, <1>4, <1>8, AppendIsConcat
    <2>2. /\ next.pending \in Seq(D \X BOOLEAN)
          /\ Queued(next) = Queued(walk) \cup {item}
      BY <1>1, <1>4, <2>1, AppendKept DEF Queued
    <2>3. Len(next.pending) = Len(walk.pending) + 1 /\ Len(walk.pending) \in Nat
      BY <1>1, <1>4, <2>1, AppendProperties, LenProperties
    <2>4. IsWalk(D, next)
      <3>1. \A l \in DOMAIN next.reached : next.reached[l] \in BOOLEAN
        BY <1>1, <1>3, <1>5
      <3> QED
        BY <1>1, <1>3, <1>4, <2>2, <3>1 DEF IsWalk
    <2> DEFINE U == D \ DOMAIN walk.reached
               V == D \ Held(walk)
               U2 == D \ DOMAIN next.reached
               V2 == D \ Held(next)
    <2>5. IsFiniteSet(U) /\ IsFiniteSet(V)
      BY FS_Difference
    <2>6. U2 = U \ {to}
      BY <1>3
    <2>7. V2 = IF required = TRUE THEN V \ {to} ELSE V
      BY <1>6
    <2>8. Cardinality(U) \in Nat /\ Cardinality(V) \in Nat
      BY <2>5, FS_CardinalityType
    <2>9. /\ Cardinality(U \ {to}) = (IF to \in U THEN Cardinality(U) - 1 ELSE Cardinality(U))
          /\ Cardinality(V \ {to}) = (IF to \in V THEN Cardinality(V) - 1 ELSE Cardinality(V))
      BY <2>5, FS_RemoveElement
    <2>10. to \in U \/ (required = TRUE /\ to \in V)
      BY <1>1, <1>4, <1>8 DEF Held
    <2>11. Potential(D, next) <= Potential(D, walk)
      <3>1. Potential(D, next) = Len(next.pending) + Cardinality(U2) + Cardinality(V2)
        BY DEF Potential
      <3>2. Potential(D, walk) = Len(walk.pending) + Cardinality(U) + Cardinality(V)
        BY DEF Potential
      <3> HIDE DEF U, V, U2, V2
      <3>3. Cardinality(U2) <= Cardinality(U) /\ Cardinality(V2) <= Cardinality(V)
            /\ (to \in U => Cardinality(U2) = Cardinality(U) - 1)
            /\ (required = TRUE /\ to \in V => Cardinality(V2) = Cardinality(V) - 1)
            /\ Cardinality(U2) \in Int /\ Cardinality(V2) \in Int
        BY <2>6, <2>7, <2>8, <2>9
      <3> QED
        BY <2>3, <2>8, <2>10, <3>1, <3>2, <3>3
    <2>12. required = TRUE => item = <<to, TRUE>>
      BY DEF item
    <2> QED
      BY <1>6, <2>2, <2>4, <2>11, <2>12 DEF to, item, Followed
  <1> QED
    BY <1>7, <1>8

\* The potential of a walk is a number.
LEMMA PotentialType ==
    ASSUME NEW D, IsFiniteSet(D), NEW walk, IsWalk(D, walk)
    PROVE  Potential(D, walk) \in Nat
  <1>1. IsFiniteSet(D \ DOMAIN walk.reached) /\ IsFiniteSet(D \ Held(walk))
    BY FS_Difference
  <1>2. Cardinality(D \ DOMAIN walk.reached) \in Nat /\ Cardinality(D \ Held(walk)) \in Nat
    BY <1>1, FS_CardinalityType
  <1>3. Len(walk.pending) \in Nat
    BY LenProperties DEF IsWalk
  <1> QED
    BY <1>2, <1>3 DEF Potential

\* Sets that every installation could be, a walk that is right of each of them,
\* and one whose required packages are settled or queued.
ClosedSets(records) ==
    {S \in SUBSET DOMAIN records : Root \in S /\ \A l \in S : NeededBy(records, l) \subseteq S}
Sound(records, walk) ==
    \A S \in ClosedSets(records) :
        Held(walk) \subseteq S /\ \A l : <<l, TRUE>> \in Queued(walk) => l \in S
Settled(records, walk, l) ==
    <<l, TRUE>> \in Queued(walk) \/ NeededBy(records, l) \subseteq Held(walk)
WalkInv(records, walk) ==
    /\ IsWalk(DOMAIN records, walk) /\ Root \in Held(walk) /\ Sound(records, walk)
    /\ \A l \in Held(walk) : Settled(records, walk, l)
\* The walk after the first k edges of the package it is at.
Amid(records, at, edges, k, bound, walk) ==
    /\ IsWalk(DOMAIN records, walk) /\ Root \in Held(walk) /\ Sound(records, walk)
    /\ \A l \in Held(walk) : Settled(records, walk, l) \/ (l = at[1] /\ at[2] = TRUE)
    /\ at[2] = TRUE => \A j \in 1..k : edges[j][2] = TRUE => edges[j][1] \in Held(walk)
    /\ Potential(DOMAIN records, walk) <= bound

\* The head of the queue, and one of its edges.
HeadKnown(records, at) ==
    at[2] \in BOOLEAN /\ (at[2] = TRUE => \A S \in ClosedSets(records) : at[1] \in S)
EdgeKnown(records, at, edge) ==
    /\ edge \in (DOMAIN records) \X BOOLEAN
    /\ edge[2] = TRUE => edge[1] \in NeededBy(records, at[1])

\* A finite set as a sequence.
LEMMA SetToSeqIs ==
    ASSUME NEW S, IsFiniteSet(S)
    PROVE  /\ SetToSeq(S) \in Seq(S) /\ Len(SetToSeq(S)) = Cardinality(S) /\ Cardinality(S) \in Nat
           /\ DOMAIN SetToSeq(S) = 1..Cardinality(S)
           /\ IsInjective(SetToSeq(S))
           /\ {SetToSeq(S)[i] : i \in 1..Cardinality(S)} = S
  <1> DEFINE n == Cardinality(S)
             s == SetToSeq(S)
  <1>1. n \in Nat /\ ExistsBijection(1..n, S)
    BY FS_CardinalityType
  <1>2. \E f \in [1..n -> S] : IsInjective(f)
    BY <1>1 DEF ExistsBijection, Bijection, Injection
  <1>3. s \in [1..n -> S] /\ IsInjective(s)
    BY <1>2 DEF SetToSeq
  <1> HIDE DEF s
  <1>4. s \in Injection(1..n, S)
    BY <1>3 DEF Injection
  <1>5. IsFiniteSet(1..n) /\ Cardinality(1..n) = n
    <2>1. 1 \in Int /\ n \in Int
      BY <1>1
    <2>2. Cardinality(1..n) = IF 1 > n THEN 0 ELSE n - 1 + 1
      BY <2>1, FS_Interval
    <2>3. (IF 1 > n THEN 0 ELSE n - 1 + 1) = n
      <3> HIDE DEF n
      <3> QED
        BY <1>1
    <2> QED
      BY <2>1, <2>2, <2>3, FS_Interval
  <1>6. s \in Surjection(1..n, S)
    BY <1>4, <1>5, FS_Injection
  <1>7. {s[i] : i \in 1..n} = S
    BY <1>3, <1>6 DEF Surjection
  <1>8. s \in Seq(S) /\ Len(s) = n
    <2> HIDE DEF n
    <2> QED
      BY <1>1, <1>3
  <1> QED
    BY <1>1, <1>3, <1>7, <1>8 DEF s

\* Where the edges of a package lead.
LEMMA EdgesAre ==
    ASSUME NEW records, IsFiniteSet(DOMAIN records), NEW l, Len(l) \in Nat
    PROVE  /\ IsFiniteSet(Edges(records, l)) /\ Edges(records, l) \subseteq (DOMAIN records) \X BOOLEAN
           /\ NeededBy(records, l) = {to \in DOMAIN records : <<to, TRUE>> \in Edges(records, l)}
  <1> DEFINE deps == Effective(records[l].deps)
             To(d) == Resolve(records, l, d.name)
  <1>1. Edges(records, l) = UNION {{<<to, Required(d)>> : to \in To(d)} : d \in deps}
    BY DEF Edges
  <1>2. NeededBy(records, l) = UNION {To(d) : d \in {d \in deps : Required(d)}}
    BY ResolveIsNearest DEF NeededBy
  <1>3. \A d : To(d) \subseteq DOMAIN records
    <2> TAKE d
    <2>1. ASSUME To(d) # {} PROVE To(d) \subseteq DOMAIN records
      <3> DEFINE candidates == Candidates(l, d.name)
                 found == {k \in DOMAIN candidates : candidates[k] \in DOMAIN records}
      <3>1. To(d) = Nearest(DOMAIN records, l, d.name)
        BY ResolveIsNearest
      <3> DEFINE around == {k \in 0..Len(l) : SubSeq(l, 1, k) \o <<d.name>> \in DOMAIN records}
      <3>2. around # {} /\ Nearest(DOMAIN records, l, d.name) = {SubSeq(l, 1, Max(around)) \o <<d.name>>}
        BY <2>1, <3>1 DEF Nearest
      <3>3. Max(around) \in around
        <4>1. around \in SUBSET (0..Len(l))
          OBVIOUS
        <4> HIDE DEF around
        <4> QED
          BY <3>2, <4>1, MaxIs
      <3> QED
        BY <3>1, <3>2, <3>3
    <2> QED
      BY <2>1
  <1>4. \A d : Required(d) \in BOOLEAN
    BY DEF Required
  <1> HIDE DEF deps, To
  <1>5. Edges(records, l) \subseteq (DOMAIN records) \X BOOLEAN
    BY <1>1, <1>3, <1>4
  <1>6. IsFiniteSet(Edges(records, l))
    <2>1. IsFiniteSet(BOOLEAN)
      <3>1. IsFiniteSet({TRUE} \cup {FALSE})
        BY FS_Singleton, FS_AddElement
      <3>2. BOOLEAN = {TRUE} \cup {FALSE}
        OBVIOUS
      <3> QED
        BY <3>1, <3>2
    <2>2. IsFiniteSet((DOMAIN records) \X BOOLEAN)
      BY <2>1, FS_Product
    <2> QED
      BY <1>5, <2>2, FS_Subset
  <1>7. \A to : <<to, TRUE>> \in Edges(records, l) <=> \E d \in deps : to \in To(d) /\ Required(d)
    <2> TAKE to
    <2>1. <<to, TRUE>> \in Edges(records, l) <=>
             \E d \in deps : \E t \in To(d) : <<to, TRUE>> = <<t, Required(d)>>
      <3> DEFINE Pairs(d) == {<<t, Required(d)>> : t \in To(d)}
      <3>1. \A d : <<to, TRUE>> \in Pairs(d) <=> \E t \in To(d) : <<to, TRUE>> = <<t, Required(d)>>
        OBVIOUS
      <3>2. Edges(records, l) = UNION {Pairs(d) : d \in deps}
        BY <1>1
      <3> HIDE DEF Pairs
      <3>3. <<to, TRUE>> \in Edges(records, l) <=> \E d \in deps : <<to, TRUE>> \in Pairs(d)
        BY <3>2
      <3> QED
        BY <3>1, <3>3
    <2>2. \A d, t : <<to, TRUE>> = <<t, Required(d)>> <=> to = t /\ Required(d) = TRUE
      OBVIOUS
    <2>3. \A d : Required(d) = TRUE <=> Required(d)
      BY <1>4
    <2> QED
      BY <2>1, <2>2, <2>3
  <1>8. \A to : to \in NeededBy(records, l) <=> \E d \in deps : to \in To(d) /\ Required(d)
    BY <1>2
  <1> QED
    BY <1>3, <1>5, <1>6, <1>7, <1>8

\* Every edge of the package at the head keeps what is known of the walk.
LEMMA FollowKeeps ==
    ASSUME NEW records, IsFiniteSet(DOMAIN records), NEW at, HeadKnown(records, at),
           NEW edges, NEW k, k \in Nat, EdgeKnown(records, at, edges[k + 1]),
           NEW bound, bound \in Int, NEW walk, Amid(records, at, edges, k, bound, walk)
    PROVE  Amid(records, at, edges, k + 1, bound,
                Follow(walk, edges[k + 1], at[2] /\ edges[k + 1][2]))
  <1> DEFINE next == Follow(walk, edges[k + 1], at[2] /\ edges[k + 1][2])
             edge == edges[k + 1]
             to   == edge[1]
             D    == DOMAIN records
             required == at[2] /\ edge[2]
  <1>1. edge \in D \X BOOLEAN /\ to \in D /\ edge[2] \in BOOLEAN /\ required \in BOOLEAN
    BY DEF HeadKnown, EdgeKnown
  <1>2. required = TRUE <=> at[2] = TRUE /\ edge[2] = TRUE
    BY <1>1
  <1>3. next = Follow(walk, edge, required)
    OBVIOUS
  <1>4. IsWalk(D, walk) /\ Root \in Held(walk) /\ Sound(records, walk)
        /\ (\A l \in Held(walk) : Settled(records, walk, l) \/ (l = at[1] /\ at[2] = TRUE))
        /\ (at[2] = TRUE => \A j \in 1..k : edges[j][2] = TRUE => edges[j][1] \in Held(walk))
        /\ Potential(D, walk) <= bound
    BY DEF Amid
  <1>5. /\ edge[2] = TRUE => to \in NeededBy(records, at[1])
        /\ IsFiniteSet(D)
    BY DEF EdgeKnown
  <1> HIDE DEF next, edge, to, required, D
  <1>6. /\ IsWalk(D, next)
        /\ Held(next) = Held(walk) \cup (IF required = TRUE THEN {to} ELSE {})
        /\ Queued(walk) \subseteq Queued(next)
        /\ Queued(next) \subseteq Queued(walk) \cup {<<to, required>>}
        /\ required = TRUE /\ to \notin Held(walk) => <<to, TRUE>> \in Queued(next)
        /\ Potential(D, next) <= Potential(D, walk)
    <2>1. edge[1] \in D
      BY <1>1 DEF to
    <2>2. IsWalk(D, walk)
      BY <1>4
    <2>3. Followed(D, walk, edge, required, next)
      BY <1>1, <1>3, <1>5, <2>1, <2>2, FollowHas
    <2> QED
      BY <2>3 DEF to, Followed
  <1>7. Sound(records, next)
    <2> SUFFICES ASSUME NEW S \in ClosedSets(records)
                 PROVE  Held(next) \subseteq S /\ \A l : <<l, TRUE>> \in Queued(next) => l \in S
      BY DEF Sound
    <2>1. Held(walk) \subseteq S /\ \A l : <<l, TRUE>> \in Queued(walk) => l \in S
      BY <1>4 DEF Sound
    <2>2. required = TRUE => to \in S
      <3>1. at[2] = TRUE => NeededBy(records, at[1]) \subseteq S
        BY DEF ClosedSets, HeadKnown
      <3> QED
        BY <1>2, <1>5, <3>1
    <2>3. Held(next) \subseteq S
      BY <1>6, <2>1, <2>2
    <2>4. ASSUME NEW l, <<l, TRUE>> \in Queued(next) PROVE l \in S
      <3>1. <<l, TRUE>> \in Queued(walk) \/ <<l, TRUE>> = <<to, required>>
        BY <1>6, <2>4
      <3>2. <<l, TRUE>> = <<to, required>> => l = to /\ required = TRUE
        OBVIOUS
      <3> QED
        BY <2>1, <2>2, <3>1, <3>2
    <2> QED
      BY <2>3, <2>4
  <1>8. ASSUME NEW l \in Held(next) PROVE Settled(records, next, l) \/ (l = at[1] /\ at[2] = TRUE)
    <2>1. CASE l \in Held(walk)
      <3>1. Settled(records, walk, l) \/ (l = at[1] /\ at[2] = TRUE)
        BY <1>4, <2>1
      <3> QED
        BY <1>6, <3>1 DEF Settled
    <2>2. CASE l \notin Held(walk)
      <3>1. required = TRUE /\ l = to
        BY <1>6, <1>8, <2>2
      <3> QED
        BY <1>6, <2>2, <3>1 DEF Settled
    <2> QED
      BY <2>1, <2>2
  <1>9. ASSUME at[2] = TRUE, NEW j \in 1..(k + 1), edges[j][2] = TRUE PROVE edges[j][1] \in Held(next)
    <2>1. CASE j \in 1..k
      BY <1>4, <1>6, <1>9, <2>1
    <2>2. CASE j = k + 1
      <3>1. required = TRUE /\ edges[j][1] = to
        BY <1>2, <1>9, <2>2 DEF edge, to
      <3> QED
        BY <1>6, <3>1
    <2> QED
      BY <1>9, <2>1, <2>2
  <1>10. Potential(D, next) <= bound
    <2>1. Potential(D, walk) \in Int /\ Potential(D, next) \in Int
      BY <1>4, <1>6, PotentialType DEF D
    <2> QED
      BY <1>4, <1>6, <2>1
  <1>11. Root \in Held(next)
    BY <1>4, <1>6
  <1> QED
    BY <1>6, <1>7, <1>8, <1>9, <1>10, <1>11 DEF Amid, D, next

\* A turn takes one package off the queue and keeps what is known of the walk.
LEMMA TurnKeeps ==
    ASSUME NEW records, IsFiniteSet(DOMAIN records), \A l \in DOMAIN records : Len(l) \in Nat,
           NEW walk, WalkInv(records, walk), walk.pending # <<>>,
           NEW next, next = Turn(records, walk)
    PROVE  /\ WalkInv(records, next)
           /\ Potential(DOMAIN records, next) <= Potential(DOMAIN records, walk) - 1
  <1> DEFINE D == DOMAIN records
             at == Head(walk.pending)
             edges == SetToSeq(Edges(records, at[1]))
             bound == Potential(D, walk) - 1
             first == [reached |-> walk.reached, pending |-> Tail(walk.pending)]
             after == Visits(walk, edges)
  <1>0. next = after[Len(edges)]
    BY DEF Turn
  <1>1. /\ IsWalk(D, walk) /\ Root \in Held(walk) /\ Sound(records, walk)
        /\ \A l \in Held(walk) : Settled(records, walk, l)
    BY DEF WalkInv
  <1>2. walk.pending \in Seq(D \X BOOLEAN)
    BY <1>1 DEF IsWalk
  <1>3. /\ at \in D \X BOOLEAN
        /\ Tail(walk.pending) \in Seq(D \X BOOLEAN)
        /\ Len(Tail(walk.pending)) = Len(walk.pending) - 1
        /\ Len(walk.pending) \in Nat /\ Len(walk.pending) >= 1
        /\ \A i \in 1..(Len(walk.pending) - 1) : Tail(walk.pending)[i] = walk.pending[i + 1]
        /\ at = walk.pending[1]
    BY <1>2, HeadTailProperties, LenProperties, EmptySeq
  <1>4. at[1] \in D /\ at[2] \in BOOLEAN /\ at = <<at[1], at[2]>>
    BY <1>3
  <1>5. /\ DOMAIN walk.pending = 1..Len(walk.pending)
        /\ DOMAIN Tail(walk.pending) = 1..(Len(walk.pending) - 1)
    BY <1>2, <1>3, LenProperties
  <1>6. /\ {Tail(walk.pending)[i] : i \in DOMAIN Tail(walk.pending)} \subseteq Queued(walk)
        /\ Queued(walk) \subseteq {Tail(walk.pending)[i] : i \in DOMAIN Tail(walk.pending)} \cup {at}
        /\ at \in Queued(walk)
    <2> DEFINE p == walk.pending
               t == Tail(walk.pending)
               n == Len(walk.pending)
    <2>1. n \in Nat /\ n >= 1 /\ DOMAIN p = 1..n /\ DOMAIN t = 1..(n - 1) /\ at = p[1]
          /\ \A i \in 1..(n - 1) : t[i] = p[i + 1]
      BY <1>3, <1>5
    <2>2. Queued(walk) = {p[i] : i \in DOMAIN p}
      BY DEF Queued
    <2> HIDE DEF p, t, n, at
    <2>3. \A i \in 1..(n - 1) : i + 1 \in 1..n
      BY <2>1
    <2>4. \A i \in 1..n : i = 1 \/ (i - 1 \in 1..(n - 1) /\ (i - 1) + 1 = i)
      BY <2>1
    <2>5. 1 \in 1..n
      BY <2>1
    <2>6. {t[i] : i \in DOMAIN t} \subseteq {p[i] : i \in DOMAIN p}
      BY <2>1, <2>3
    <2>7. {p[i] : i \in DOMAIN p} \subseteq {t[i] : i \in DOMAIN t} \cup {at}
      <3>1. ASSUME NEW i \in 1..n PROVE p[i] = at \/ p[i] \in {t[j] : j \in 1..(n - 1)}
        <4>1. CASE i = 1
          BY <2>1, <4>1
        <4>2. CASE i - 1 \in 1..(n - 1) /\ (i - 1) + 1 = i
          <5>1. t[i - 1] = p[i]
            BY <2>1, <4>2
          <5> QED
            BY <4>2, <5>1
        <4> QED
          BY <2>4, <4>1, <4>2
      <3> QED
        BY <2>1, <3>1
    <2> QED
      BY <2>1, <2>2, <2>5, <2>6, <2>7 DEF p, t, n
  <1>7. at[2] = TRUE => \A S \in ClosedSets(records) : at[1] \in S
    <2>1. at[2] = TRUE => <<at[1], TRUE>> \in Queued(walk)
      BY <1>4, <1>6
    <2> QED
      BY <1>1, <2>1 DEF Sound
  <1>8. bound \in Int
    BY <1>1, PotentialType
  <1>9. Len(at[1]) \in Nat
    BY <1>4
  <1>10. /\ IsFiniteSet(Edges(records, at[1])) /\ Edges(records, at[1]) \subseteq D \X BOOLEAN
         /\ NeededBy(records, at[1]) = {to \in D : <<to, TRUE>> \in Edges(records, at[1])}
    BY <1>9, EdgesAre
  <1> DEFINE n == Len(edges)
  <1>11. n \in Nat /\ {edges[i] : i \in 1..n} = Edges(records, at[1])
    BY <1>10, SetToSeqIs
  <1>12. /\ after[0] = first
         /\ \A k \in 1..n : after[k] = Follow(after[k - 1], edges[k], at[2] /\ edges[k][2])
    <2>1. Len(edges) \in Nat
      BY <1>11
    <2>2. TurnSteps(walk, edges, after)
      <3> HIDE DEF edges
      <3> QED
        BY <2>1, VisitsIs
    <2> QED
      BY <2>2 DEF TurnSteps
  <1>13. first.reached = walk.reached /\ first.pending = Tail(walk.pending)
    OBVIOUS
  <1> HIDE DEF D, at, edges, bound, first, after, n
  <1>14. Held(first) = Held(walk) /\ Queued(first) \subseteq Queued(walk)
         /\ Queued(walk) \subseteq Queued(first) \cup {at}
    BY <1>6, <1>13 DEF Held, Queued
  <1>15. IsWalk(D, first) /\ Potential(D, first) = bound
    <2>1. IsWalk(D, first)
      BY <1>1, <1>3, <1>13 DEF IsWalk
    <2>2. /\ Potential(D, first) = Len(first.pending) + Cardinality(D \ DOMAIN first.reached)
                                     + Cardinality(D \ Held(first))
          /\ Potential(D, walk) = Len(walk.pending) + Cardinality(D \ DOMAIN walk.reached)
                                     + Cardinality(D \ Held(walk))
      BY DEF Potential
    <2>3. /\ Potential(D, walk) \in Nat
          /\ Cardinality(D \ DOMAIN walk.reached) \in Nat /\ Cardinality(D \ Held(walk)) \in Nat
      <3>1. IsFiniteSet(D)
        BY DEF D
      <3>2. IsFiniteSet(D \ DOMAIN walk.reached) /\ IsFiniteSet(D \ Held(walk))
        BY <3>1, FS_Difference
      <3> QED
        BY <1>1, <3>1, <3>2, FS_CardinalityType, PotentialType
    <2>4. Potential(D, first) = Potential(D, walk) - 1
      BY <1>3, <1>13, <1>14, <2>2, <2>3
    <2> QED
      BY <2>1, <2>4 DEF bound
  <1> DEFINE Good == {k \in 0..n : Amid(records, at, edges, k, bound, after[k])}
  <1>16. 0 \in Good
    <2>1. Sound(records, first)
      BY <1>1, <1>14 DEF Sound
    <2>2. ASSUME NEW l \in Held(first)
          PROVE  Settled(records, first, l) \/ (l = at[1] /\ at[2] = TRUE)
      <3>1. CASE NeededBy(records, l) \subseteq Held(walk)
        BY <1>14, <3>1 DEF Settled
      <3>2. CASE <<l, TRUE>> \in Queued(walk)
        <4>1. CASE <<l, TRUE>> \in Queued(first)
          BY <4>1 DEF Settled
        <4>2. CASE <<l, TRUE>> = at
          BY <4>2
        <4> QED
          BY <1>14, <3>2, <4>1, <4>2
      <3> QED
        BY <1>1, <1>14, <2>2, <3>1, <3>2 DEF Settled
    <2>3. \A j \in 1..0 : FALSE
      OBVIOUS
    <2>4. Potential(D, first) <= bound
      BY <1>8, <1>15
    <2>5. Amid(records, at, edges, 0, bound, first)
      BY <1>1, <1>14, <1>15, <2>1, <2>2, <2>3, <2>4 DEF Amid, D
    <2>6. 0 \in 0..n
      BY <1>11
    <2> QED
      BY <1>12, <2>5, <2>6
  <1>17. ASSUME NEW k \in 0..(n - 1), k \in Good PROVE k + 1 \in Good
    <2>1. k \in Nat /\ k + 1 \in 1..n /\ (k + 1) - 1 = k
      BY <1>11
    <2>2. after[k + 1] = Follow(after[k], edges[k + 1], at[2] /\ edges[k + 1][2])
      BY <1>12, <2>1
    <2>3. edges[k + 1] \in Edges(records, at[1])
      BY <1>11, <2>1
    <2>4. edges[k + 1] \in D \X BOOLEAN
      BY <1>10, <2>3
    <2>5. edges[k + 1][2] = TRUE => edges[k + 1][1] \in NeededBy(records, at[1])
      <3>1. edges[k + 1] = <<edges[k + 1][1], edges[k + 1][2]>> /\ edges[k + 1][1] \in D
        BY <2>4
      <3> QED
        BY <1>10, <2>3, <3>1
    <2>6. Amid(records, at, edges, k, bound, after[k])
      BY <1>17
    <2> HIDE DEF Good
    <2>7. Amid(records, at, edges, k + 1, bound, after[k + 1])
      <3>1. Amid(records, at, edges, k + 1, bound,
                 Follow(after[k], edges[k + 1], at[2] /\ edges[k + 1][2]))
        <4>1. HeadKnown(records, at)
          BY <1>4, <1>7 DEF HeadKnown
        <4>2. EdgeKnown(records, at, edges[k + 1])
          BY <2>4, <2>5 DEF EdgeKnown, D
        <4> QED
          BY <1>8, <2>1, <2>6, <4>1, <4>2, FollowKeeps
      <3> QED
        BY <2>2, <3>1
    <2>8. k + 1 \in 0..n
      BY <2>1
    <2> QED
      BY <2>7, <2>8 DEF Good
  <1>18. Amid(records, at, edges, n, bound, next)
    <2>1. n \in Good
      <3> HIDE DEF Good
      <3>1. \A k \in 0..n : k \in Good
        BY <1>11, <1>16, <1>17, UpTo
      <3> QED
        BY <1>11, <3>1
    <2> QED
      BY <1>0, <2>1 DEF n
  <1>19. ASSUME NEW l \in Held(next) PROVE Settled(records, next, l)
    <2>1. CASE l = at[1] /\ at[2] = TRUE
      <3>1. ASSUME NEW to \in NeededBy(records, at[1]) PROVE to \in Held(next)
        <4>1. <<to, TRUE>> \in Edges(records, at[1])
          BY <1>10, <3>1
        <4>2. PICK j \in 1..n : edges[j] = <<to, TRUE>>
          BY <1>11, <4>1
        <4>3. edges[j][2] = TRUE /\ edges[j][1] = to
          BY <4>2
        <4> QED
          BY <1>18, <2>1, <4>3 DEF Amid
      <3> QED
        BY <2>1, <3>1 DEF Settled
    <2>2. CASE ~(l = at[1] /\ at[2] = TRUE)
      BY <1>18, <1>19, <2>2 DEF Amid
    <2> QED
      BY <2>1, <2>2
  <1>20. WalkInv(records, next)
    BY <1>18, <1>19 DEF Amid, WalkInv
  <1>21. Potential(D, next) <= bound
    BY <1>18 DEF Amid, D
  <1> QED
    BY <1>20, <1>21 DEF bound, D

\* A walk starts at the root, with every other package before it.
LEMMA WalkStarts ==
    ASSUME NEW records, IsFiniteSet(DOMAIN records), Root \in DOMAIN records,
           NEW first, first.reached = Insert(<<>>, Root, TRUE), first.pending = <<<<Root, TRUE>>>>
    PROVE  /\ WalkInv(records, first)
           /\ Potential(DOMAIN records, first) = 2 * Cardinality(DOMAIN records) - 1
  <1> DEFINE D == DOMAIN records
             p == first.pending
  <1>1. DOMAIN first.reached = {Root} /\ first.reached[Root] = TRUE
    BY DEF Insert
  <1>2. p \in Seq(D \X BOOLEAN) /\ Len(p) = 1 /\ DOMAIN p = {1} /\ p[1] = <<Root, TRUE>>
    <2> DEFINE e == <<Root, TRUE>>
    <2>1. e \in D \X BOOLEAN /\ p = <<e>>
      OBVIOUS
    <2> HIDE DEF e, p, D
    <2>2. p \in Seq(D \X BOOLEAN) /\ Len(p) = 1 /\ p[1] = e
      BY <2>1
    <2>3. DOMAIN p = {1}
      BY <2>2, LenProperties
    <2> QED
      BY <2>2, <2>3 DEF e
  <1>3. Held(first) = {Root}
    BY <1>1 DEF Held
  <1>4. Queued(first) = {<<Root, TRUE>>}
    BY <1>2 DEF Queued
  <1>5. IsWalk(D, first)
    BY <1>1, <1>2 DEF IsWalk
  <1>6. Sound(records, first)
    <2> SUFFICES ASSUME NEW S \in ClosedSets(records)
                 PROVE  Held(first) \subseteq S /\ \A l : <<l, TRUE>> \in Queued(first) => l \in S
      BY DEF Sound
    <2>1. Root \in S
      BY DEF ClosedSets
    <2> QED
      BY <1>3, <1>4, <2>1
  <1>7. \A l \in Held(first) : Settled(records, first, l)
    BY <1>3, <1>4 DEF Settled
  <1>8. WalkInv(records, first)
    BY <1>3, <1>5, <1>6, <1>7 DEF WalkInv
  <1>9. Potential(D, first) = 2 * Cardinality(D) - 1
    <2>1. Cardinality(D \ {Root}) = Cardinality(D) - 1
      BY FS_RemoveElement
    <2>2. Potential(D, first) = 1 + Cardinality(D \ {Root}) + Cardinality(D \ {Root})
      BY <1>1, <1>2, <1>3 DEF Potential
    <2>3. Cardinality(D) \in Nat
      BY FS_CardinalityType
    <2> HIDE DEF D
    <2> QED
      BY <2>1, <2>2, <2>3
  <1> QED
    BY <1>8, <1>9

\* A walk has ended with its last turn.
LEMMA WalkEnds ==
    ASSUME NEW records, IsFiniteSet(DOMAIN records), Root \in DOMAIN records,
           \A l \in DOMAIN records : Len(l) \in Nat,
           NEW last, last = Walk(records)[Turns(records)]
    PROVE  WalkInv(records, last) /\ last.pending = <<>>
  <1> DEFINE D == DOMAIN records
             walk == Walk(records)
             n == Turns(records)
  <1>1. n \in Nat /\ n = 2 * Cardinality(D)
    BY FS_CardinalityType DEF Turns
  <1>2. /\ walk[0] = [reached |-> Insert(<<>>, Root, TRUE), pending |-> <<<<Root, TRUE>>>>]
        /\ \A k \in 1..n : walk[k] = Turn(records, walk[k - 1])
    BY <1>1, WalkIs
  <1> HIDE DEF walk, n
  <1>3. WalkInv(records, walk[0]) /\ Potential(D, walk[0]) = 2 * Cardinality(D) - 1
    <2>1. walk[0].reached = Insert(<<>>, Root, TRUE) /\ walk[0].pending = <<<<Root, TRUE>>>>
      <3> DEFINE map == Insert(<<>>, Root, TRUE)
                 queue == <<<<Root, TRUE>>>>
      <3>1. walk[0] = [reached |-> map, pending |-> queue]
        BY <1>2
      <3> HIDE DEF map, queue
      <3>2. walk[0].reached = map /\ walk[0].pending = queue
        BY <3>1
      <3> QED
        BY <3>2 DEF map, queue
    <2> QED
      BY <2>1, WalkStarts
  <1> DEFINE Good == {k \in 0..n : /\ WalkInv(records, walk[k])
                                   /\ walk[k].pending = <<>> \/ Potential(D, walk[k]) + k <= n - 1}
  <1>4. 0 \in Good
    <2>1. Potential(D, walk[0]) + 0 <= n - 1
      BY <1>1, <1>3
    <2> QED
      BY <1>1, <1>3, <2>1
  <1>5. ASSUME NEW k \in 0..(n - 1), k \in Good PROVE k + 1 \in Good
    <2>1. k + 1 \in 1..n /\ (k + 1) - 1 = k /\ k + 1 \in 0..n
      BY <1>1
    <2>2. walk[k + 1] = Turn(records, walk[k])
      BY <1>2, <2>1
    <2>3. WalkInv(records, walk[k]) /\ (walk[k].pending = <<>> \/ Potential(D, walk[k]) + k <= n - 1)
      BY <1>5
    <2>4. CASE walk[k].pending = <<>>
      <3>1. walk[k + 1] = walk[k]
        BY <2>2, <2>4 DEF Turn
      <3> QED
        BY <2>1, <2>3, <2>4, <3>1
    <2>5. CASE walk[k].pending # <<>>
      <3>1. /\ WalkInv(records, walk[k + 1])
            /\ Potential(D, walk[k + 1]) <= Potential(D, walk[k]) - 1
        BY <2>2, <2>3, <2>5, TurnKeeps
      <3>2. Potential(D, walk[k]) \in Nat /\ Potential(D, walk[k + 1]) \in Nat
        BY <2>3, <3>1, PotentialType DEF WalkInv
      <3>3. Potential(D, walk[k + 1]) + (k + 1) <= n - 1
        BY <1>1, <2>3, <2>5, <3>1, <3>2
      <3> QED
        BY <2>1, <3>1, <3>3
    <2> QED
      BY <2>4, <2>5
  <1>6. n \in Good
    <2> HIDE DEF Good
    <2>1. \A k \in 0..n : k \in Good
      BY <1>1, <1>4, <1>5, UpTo
    <2> QED
      BY <1>1, <2>1
  <1>7. WalkInv(records, last) /\ (last.pending = <<>> \/ Potential(D, last) + n <= n - 1)
    BY <1>6 DEF walk, n
  <1>8. Potential(D, last) \in Nat
    BY <1>7, PotentialType DEF WalkInv
  <1> QED
    BY <1>1, <1>7, <1>8

\* What the walk of verify_closure holds to be required is what every installation
\* has, in whatever order its queue took the packages.
THEOREM RequiredIs ==
    ASSUME NEW records, IsFiniteSet(DOMAIN records), Root \in DOMAIN records,
           \A l \in DOMAIN records : Len(l) \in Nat
    PROVE  RequiredSet(records) = Needed(records)
  <1> DEFINE last == Walk(records)[Turns(records)]
  <1>1. WalkInv(records, last) /\ last.pending = <<>>
    BY WalkEnds
  <1>2. Reached(records) = last.reached
    BY DEF Reached
  <1> HIDE DEF last
  <1>3. /\ DOMAIN last.reached \subseteq DOMAIN records /\ Root \in Held(last) /\ Sound(records, last)
        /\ \A l \in DOMAIN last.reached : last.reached[l] \in BOOLEAN
        /\ \A l \in Held(last) : Settled(records, last, l)
    BY <1>1 DEF WalkInv, IsWalk
  <1>4. RequiredSet(records) = Held(last)
    BY <1>2, <1>3 DEF RequiredSet, Held
  <1>5. Queued(last) = {}
    BY <1>1 DEF Queued
  <1>6. Held(last) \in ClosedSets(records)
    <2>1. \A l \in Held(last) : NeededBy(records, l) \subseteq Held(last)
      BY <1>3, <1>5 DEF Settled
    <2>2. Held(last) \subseteq DOMAIN records
      BY <1>3 DEF Held
    <2> QED
      BY <1>3, <2>1, <2>2 DEF ClosedSets
  <1>7. Needed(records) = {l \in DOMAIN records : \A S \in ClosedSets(records) : l \in S}
    BY DEF Needed, ClosedSets
  <1>8. \A S \in ClosedSets(records) : Held(last) \subseteq S
    BY <1>3 DEF Sound
  <1>9. Held(last) \subseteq DOMAIN records
    BY <1>6 DEF ClosedSets
  <1> HIDE DEF last
  <1> QED
    BY <1>4, <1>6, <1>7, <1>8, <1>9

-----------------------------------------------------------------------------
(* What is verified works                                                  *)

\* The dependencies that an installation has, of a closure that is accepted:
\* each is there and in range.
LEMMA DependencyFound ==
    ASSUME NEW records, ClosureValid(records), NEW l \in DOMAIN records, Len(l) \in Nat,
           \A t \in DOMAIN records : IsVersion(records[t].version),
           NEW d \in Effective(records[l].deps), Required(d),
           \A terms \in d.range : \A term \in terms : IsTerm(term)
    PROVE  /\ Nearest(DOMAIN records, l, d.name) # {}
           /\ \A t \in Nearest(DOMAIN records, l, d.name) \cap DOMAIN records :
                 InRange(d.range, records[t].version)
  <1>1. Nearest(DOMAIN records, l, d.name) = Resolve(records, l, d.name)
    BY ResolveIsNearest
  <1>2. EdgesValid(records, l)
    BY DEF ClosureValid
  <1>3. d.kind # "optional peer"
    BY DEF Required
  <1>4. Resolve(records, l, d.name) # {}
    BY <1>2, <1>3 DEF EdgesValid
  <1>5. ASSUME NEW t \in Resolve(records, l, d.name), t \in DOMAIN records
        PROVE  InRange(d.range, records[t].version)
    <2>1. RangeMatches(d.range, records[t].version)
      BY <1>2, <1>5 DEF EdgesValid
    <2>2. IsVersion(records[t].version)
      BY <1>5
    <2> QED
      BY <2>1, <2>2, RangeIs
  <1> QED
    BY <1>1, <1>4, <1>5

\* A required dependency is an edge that must be followed.
LEMMA DependencyNeeded ==
    ASSUME NEW records, NEW l, NEW d \in Effective(records[l].deps), Required(d)
    PROVE  Nearest(DOMAIN records, l, d.name) \subseteq NeededBy(records, l)
  <1>1. d \in {e \in Effective(records[l].deps) : Required(e)}
    OBVIOUS
  <1> QED
    BY <1>1 DEF NeededBy

\* What a needed package needs is needed.
LEMMA NeededCloses ==
    ASSUME NEW records, NEW l \in Needed(records), NeededBy(records, l) \subseteq DOMAIN records
    PROVE  NeededBy(records, l) \subseteq Needed(records)
  <1>1. Needed(records) = {x \in DOMAIN records : \A S \in ClosedSets(records) : x \in S}
    BY DEF Needed, ClosedSets
  <1>2. \A S \in ClosedSets(records) : NeededBy(records, l) \subseteq S
    BY <1>1 DEF ClosedSets
  <1> QED
    BY <1>1, <1>2

\* A release that the verifier derives can be installed: what is required is there,
\* in range and not ruled out, and unpacks to what was verified
\* (derive_installer_release).
THEOREM DerivedInstalls ==
    ASSUME NEW release, IsServed(release), Derives(release)
    PROVE  Installable(release)
  <1> DEFINE declared == release.declared
             D == DOMAIN declared
             pruned == Pruned(release)
  <1>1. /\ IsFiniteSet(D) /\ Root \in D /\ \A l \in D : Len(l) \in Nat
        /\ DOMAIN release.lock = D /\ DOMAIN release.archives = D \ {Root}
        /\ \A l \in D : IsVersion(declared[l].version)
        /\ \A l \in D : \A d \in declared[l].deps : \A terms \in d.range : \A term \in terms : IsTerm(term)
        /\ \A l \in DOMAIN release.archives : IsArchive(release.archives[l])
    BY DEF IsServed
  <1>2. /\ ClosureValid(declared)
        /\ \A l \in D \ {Root} :
              /\ release.lock[l].optional = (l \notin RequiredSet(declared))
              /\ l \in RequiredSet(declared) => l \notin pruned
              /\ l \notin pruned => \A edge \in Edges(declared, l) : edge[2] => edge[1] \notin pruned
    BY DEF Derives, Applicable
  <1>3. RequiredSet(declared) = Needed(declared)
    BY <1>1, RequiredIs
  <1>4. Root \notin pruned
    BY DEF Pruned
  <1>5. Needed(declared) \subseteq D
    BY DEF Needed
  <1>6. Needed(declared) \subseteq D \ pruned
    BY <1>2, <1>3, <1>4, <1>5
  <1>7. \A l \in D \ {Root} : release.lock[l].optional = (l \notin Needed(declared))
    BY <1>2, <1>3
  <1>8. \A l \in D : NeededBy(declared, l) = {to \in D : <<to, TRUE>> \in Edges(declared, l)}
    BY <1>1, EdgesAre
  <1>9. ASSUME NEW l \in D \ pruned
        PROVE  NeededBy(declared, l) \subseteq D \ pruned
    <2>1. CASE l = Root
      <3>1. Root \in Needed(declared)
        BY <1>1 DEF Needed
      <3> HIDE DEF D, declared, pruned
      <3>2. NeededBy(declared, l) \subseteq Needed(declared)
        BY <1>8, <2>1, <3>1, NeededCloses DEF D
      <3> QED
        BY <1>6, <3>2
    <2>2. CASE l # Root
      <3>1. \A edge \in Edges(declared, l) : edge[2] => edge[1] \notin pruned
        BY <1>2, <2>2
      <3> HIDE DEF D, declared, pruned
      <3>2. ASSUME NEW to \in NeededBy(declared, l) PROVE to \in D \ pruned
        <4>1. to \in D /\ <<to, TRUE>> \in Edges(declared, l)
          BY <1>8, <3>2
        <4>2. <<to, TRUE>>[2] => <<to, TRUE>>[1] \notin pruned
          BY <3>1, <4>1
        <4> QED
          BY <4>1, <4>2
      <3> QED
        BY <3>2
    <2> QED
      BY <2>1, <2>2
  <1>10. ASSUME NEW l \in D \ pruned, NEW d \in Effective(declared[l].deps), Required(d)
         PROVE  /\ Nearest(D, l, d.name) # {}
                /\ Nearest(D, l, d.name) \subseteq D \ pruned
                /\ \A t \in Nearest(D, l, d.name) : InRange(d.range, declared[t].version)
    <2>1. Nearest(D, l, d.name) \subseteq D \ pruned
      BY <1>9, <1>10, DependencyNeeded
    <2>2. d \in declared[l].deps
      BY DEF Effective
    <2>3. \A terms \in d.range : \A term \in terms : IsTerm(term)
      BY <1>1, <2>2
    <2> HIDE DEF declared, pruned
    <2>4. /\ Nearest(D, l, d.name) # {}
          /\ \A t \in Nearest(D, l, d.name) \cap D : InRange(d.range, declared[t].version)
      BY <1>1, <1>2, <1>10, <2>3, DependencyFound
    <2> QED
      BY <2>1, <2>4
  <1>11. ASSUME NEW l \in DOMAIN release.archives
         PROVE  KeepsWhatUnpacks(release.archives[l].policy, release.archives[l].headers)
    <2>1. PackageValid(release, l)
      BY <1>1, <1>11 DEF Derives
    <2>2. NpmArchive(release.archives[l].policy, release.archives[l].headers)
      BY <2>1 DEF PackageValid
    <2>3. IsArchive(release.archives[l])
      BY <1>1, <1>11
    <2> QED
      BY <2>2, <2>3, AcceptedUnpacks DEF IsArchive
  <1> QED
    BY <1>6, <1>7, <1>10, <1>11 DEF Installable

\* The packages before each place of the byte order.
AmongSteps(lock, among) ==
    /\ among[0] = <<>>
    /\ \A n \in 1..Len(ByteOrder) :
          among[n] = IF ByteOrder[n] \in DOMAIN lock THEN Append(among[n - 1], ByteOrder[n])
                     ELSE among[n - 1]

\* They are defined by going through the order.
LEMMA AmongIs ==
    ASSUME NEW lock
    PROVE  AmongSteps(lock, Among(lock))
  <1>0. Len(ByteOrder) \in Nat
    BY OrderAssumption
  <1> DEFINE Next1(g, k) == IF k = 0 THEN <<>>
                            ELSE IF ByteOrder[k] \in DOMAIN lock THEN Append(g[k - 1], ByteOrder[k])
                            ELSE g[k - 1]
             Good == {n \in 0..Len(ByteOrder) : \E g : g = [k \in 0..n |-> Next1(g, k)]}
  <1>1. 0 \in Good
    <2> DEFINE g == [k \in 0..0 |-> <<>>]
    <2>1. g = [k \in 0..0 |-> Next1(g, k)]
      OBVIOUS
    <2> HIDE DEF g
    <2>2. \E x : x = [k \in 0..0 |-> Next1(x, k)]
      BY <2>1
    <2> QED
      BY <2>2
  <1>2. ASSUME NEW n \in 0..(Len(ByteOrder) - 1), n \in Good PROVE n + 1 \in Good
    <2> PICK g : g = [k \in 0..n |-> Next1(g, k)]
      BY <1>2
    <2> DEFINE h == [k \in 0..(n + 1) |-> IF k = n + 1 THEN Next1(g, k) ELSE g[k]]
    <2>1. ASSUME NEW k \in 0..(n + 1) PROVE h[k] = Next1(h, k)
      <3>1. CASE k = 0
        BY <3>1
      <3>2. CASE k \in 1..n
        <4>1. h[k] = g[k] /\ h[k - 1] = g[k - 1]
          BY <3>2
        <4>2. g[k] = Next1(g, k)
          <5> HIDE DEF Next1
          <5> QED
            BY <3>2
        <4>3. Next1(g, k) = Next1(h, k)
          BY <4>1
        <4> QED
          BY <4>1, <4>2, <4>3
      <3>3. CASE k = n + 1
        <4>1. h[k] = Next1(g, k) /\ h[k - 1] = g[k - 1]
          BY <3>3
        <4> QED
          BY <4>1
      <3> QED
        BY <3>1, <3>2, <3>3
    <2>2. h = [k \in 0..(n + 1) |-> Next1(h, k)]
      BY <2>1
    <2> HIDE DEF h
    <2>3. \E x : x = [k \in 0..(n + 1) |-> Next1(x, k)]
      BY <2>2
    <2>4. n + 1 \in 0..Len(ByteOrder)
      OBVIOUS
    <2> QED
      BY <2>3, <2>4
  <1>3. Len(ByteOrder) \in Good
    <2> HIDE DEF Good
    <2>1. \A n \in 0..Len(ByteOrder) : n \in Good
      BY <1>1, <1>2, UpTo
    <2> QED
      BY <2>1
  <1>4. \E g : g = [k \in 0..Len(ByteOrder) |-> Next1(g, k)]
    BY <1>3
  <1> DEFINE among == Among(lock)
  <1>5. among = [k \in 0..Len(ByteOrder) |-> Next1(among, k)]
    BY <1>4 DEF Among
  <1> HIDE DEF among
  <1>6. among[0] = <<>>
    BY <1>5
  <1>7. ASSUME NEW n \in 1..Len(ByteOrder)
        PROVE  among[n] = IF ByteOrder[n] \in DOMAIN lock THEN Append(among[n - 1], ByteOrder[n])
                          ELSE among[n - 1]
    <2>1. among[n] = Next1(among, n)
      <3> HIDE DEF Next1
      <3> QED
        BY <1>5
    <2> QED
      BY <2>1
  <1> QED
    BY <1>6, <1>7 DEF among, AmongSteps

\* A sequence that has the elements of a set, each once.
Lists(list, S) ==
    /\ list \in Seq(S) /\ {list[i] : i \in DOMAIN list} = S
    /\ IsFiniteSet(S) /\ Len(list) = Cardinality(S)

\* A list with one more element.
LEMMA ListsOneMore ==
    ASSUME NEW S, NEW list, Lists(list, S), NEW x, x \notin S
    PROVE  Lists(Append(list, x), S \cup {x})
  <1>1. list \in Seq(S \cup {x})
    <2>1. list \in Seq(S)
      BY DEF Lists
    <2> QED
      BY <2>1
  <1>2. /\ Append(list, x) \in Seq(S \cup {x})
        /\ {Append(list, x)[i] : i \in DOMAIN Append(list, x)} = {list[i] : i \in DOMAIN list} \cup {x}
    <2>1. x \in S \cup {x}
      OBVIOUS
    <2> DEFINE T == S \cup {x}
    <2> HIDE DEF T
    <2>2. list \in Seq(T) /\ x \in T
      BY <1>1, <2>1 DEF T
    <2>3. /\ Append(list, x) \in Seq(T)
          /\ {Append(list, x)[i] : i \in DOMAIN Append(list, x)} = {list[i] : i \in DOMAIN list} \cup {x}
      BY <2>2, AppendKept
    <2> QED
      BY <2>3 DEF T
  <1>3. Len(Append(list, x)) = Len(list) + 1
    BY <1>1, AppendProperties
  <1>4. IsFiniteSet(S \cup {x}) /\ Cardinality(S \cup {x}) = Cardinality(S) + 1
    BY FS_AddElement DEF Lists
  <1> QED
    BY <1>2, <1>3, <1>4 DEF Lists

\* The packages of a lock are listed, each once.
LEMMA PackagesAre ==
    ASSUME NEW lock, DOMAIN lock \ {Root} \subseteq Range(ByteOrder)
    PROVE  Lists(Packages(lock), DOMAIN lock \ {Root})
  <1> DEFINE N == DOMAIN lock \ {Root}
             Early(n) == {ByteOrder[k] : k \in 1..n} \cap N
             Good == {n \in 0..Len(ByteOrder) : Lists(Among(lock)[n], Early(n))}
  <1>0. Len(ByteOrder) \in Nat
    BY OrderAssumption
  <1>1. AmongSteps(lock, Among(lock))
    BY <1>0, AmongIs
  <1>2. 0 \in Good
    <2>1. Early(0) = {}
      OBVIOUS
    <2>2. <<>> \in Seq({}) /\ {<<>>[i] : i \in DOMAIN <<>>} = {} /\ Len(<<>>) = 0
      OBVIOUS
    <2>3. IsFiniteSet({}) /\ Cardinality({}) = 0
      BY FS_EmptySet
    <2> HIDE DEF Early
    <2>4. Lists(Among(lock)[0], Early(0))
      BY <1>1, <2>1, <2>2, <2>3 DEF AmongSteps, Lists
    <2> QED
      BY <1>0, <2>4
  <1>3. ASSUME NEW n \in 0..(Len(ByteOrder) - 1), n \in Good PROVE n + 1 \in Good
    <2> DEFINE x == ByteOrder[n + 1]
    <2>1. n + 1 \in 1..Len(ByteOrder) /\ n + 1 \in 0..Len(ByteOrder)
      OBVIOUS
    <2>2. Among(lock)[n + 1] = IF x \in DOMAIN lock THEN Append(Among(lock)[n], x) ELSE Among(lock)[n]
      <3>1. (n + 1) - 1 = n
        OBVIOUS
      <3> QED
        BY <1>1, <2>1, <3>1 DEF AmongSteps
    <2>3. Early(n + 1) = Early(n) \cup ({x} \cap N)
      <3>1. 1..(n + 1) = (1..n) \cup {n + 1}
        OBVIOUS
      <3> QED
        BY <3>1
    <2>4. x # Root
      BY <2>1, OrderAssumption DEF Range
    <2>5. x \notin Early(n)
      <3>1. \A k \in 1..n : ByteOrder[k] # x
        BY <2>1, OrderAssumption DEF IsInjective
      <3> QED
        BY <3>1
    <2>6. Lists(Among(lock)[n], Early(n))
      BY <1>3
    <2> HIDE DEF x, Early
    <2>7. CASE x \in DOMAIN lock
      <3>1. Early(n + 1) = Early(n) \cup {x}
        BY <2>3, <2>4, <2>7
      <3>2. Lists(Append(Among(lock)[n], x), Early(n) \cup {x})
        BY <2>5, <2>6, ListsOneMore
      <3> QED
        BY <2>1, <2>2, <2>7, <3>1, <3>2
    <2>8. CASE x \notin DOMAIN lock
      <3>1. Early(n + 1) = Early(n)
        BY <2>3, <2>8
      <3> QED
        BY <2>1, <2>2, <2>6, <2>8, <3>1
    <2> QED
      BY <2>7, <2>8
  <1>4. Len(ByteOrder) \in Good
    <2> HIDE DEF Good
    <2>1. \A n \in 0..Len(ByteOrder) : n \in Good
      BY <1>0, <1>2, <1>3, UpTo
    <2> QED
      BY <1>0, <2>1
  <1>5. Early(Len(ByteOrder)) = N
    BY OrderAssumption DEF Range
  <1> QED
    BY <1>4, <1>5 DEF Packages

\* Packages whose graph is verified work (verify_npm_graph, on the inputs that
\* another run observed): PackagesWork.
THEOREM VerifiedWork ==
    ASSUME NEW request, IsGraphRequest(request), GraphVerifies(request)
    PROVE  PackagesWork(request)
  <1> DEFINE lock     == request.served.lock
             archives == request.served.archives
             intent   == request.intent
             list     == Packages(lock)
             N        == DOMAIN lock \ {Root}
             inputs   == request.inputs.locked
             observed == {inputs[i] : i \in DOMAIN inputs}
             Fits(i)  == /\ inputs[i].locator = intent.locked[i].locator
                         /\ inputs[i].url = intent.locked[i].url
                         /\ inputs[i].digest = intent.locked[i].digest
                         /\ inputs[i].pruned = Reasons(lock[intent.locked[i].locator],
                                                       archives[intent.locked[i].url])
  <1>1. /\ IsFiniteSet(DOMAIN lock) /\ Root \in DOMAIN lock /\ N \subseteq Range(ByteOrder)
        /\ \A l \in DOMAIN lock : Len(l) \in Nat
        /\ \A url \in DOMAIN archives : IsArchive(archives[url])
        /\ Len(intent.locked) \in Nat /\ DOMAIN intent.locked = 1..Len(intent.locked)
    BY DEF IsGraphRequest
  <1>2. Observes(intent, request.served) /\ Observed(intent, request.served) = request.inputs
    BY DEF GraphVerifies
  <1>3. DOMAIN inputs = InStep(intent, lock) /\ \A i \in DOMAIN inputs : Fits(i)
    <2> DEFINE Input(record) ==
                  [locator |-> record.locator, version |-> record.version, url |-> record.url,
                   digest |-> record.digest, size |-> archives[record.url].size,
                   pruned |-> Reasons(lock[record.locator], archives[record.url])]
    <2>1. Observed(intent, request.served).locked = [i \in InStep(intent, lock) |-> Input(intent.locked[i])]
      BY DEF Observed
    <2>2. inputs = [i \in InStep(intent, lock) |-> Input(intent.locked[i])]
      BY <1>2, <2>1
    <2> HIDE DEF lock, archives, intent, inputs
    <2>3. DOMAIN inputs = InStep(intent, lock)
      BY <2>2
    <2>4. ASSUME NEW i \in DOMAIN inputs PROVE Fits(i)
      <3>1. inputs[i] = Input(intent.locked[i])
        BY <2>2, <2>3
      <3> QED
        BY <3>1
    <2> QED
      BY <2>3, <2>4
  <1>4. /\ LockedFetched(intent, request.served) /\ LockAgrees(intent, lock) /\ CompleteClosure(lock)
        /\ \A i \in InStep(intent, lock) :
              LockedValid(intent.locked[i], lock[intent.locked[i].locator], archives[intent.locked[i].url])
    BY <1>2 DEF Observes
  <1>5. Lists(list, N)
    BY <1>1, PackagesAre
  <1> SUFFICES ASSUME Len(intent.locked) >= Cardinality(DOMAIN lock) - 1
               PROVE  /\ {p.locator : p \in observed} = N
                      /\ (\A l \in N : lock[l].optional = (l \notin Needed(lock))) =>
                            Needed(lock) \subseteq
                                {p.locator : p \in {p \in observed : p.pruned = {}}} \cup {Root}
                      /\ \A l \in DOMAIN lock : \A d \in {d \in lock[l].deps : d.kind = "dependency"} :
                            Nearest(DOMAIN lock, l, d.name) # {}
                      /\ \A p \in observed :
                            /\ archives[p.url].digest = p.digest
                            /\ KeepsWhatUnpacks(archives[p.url].policy, archives[p.url].headers)
    BY DEF PackagesWork
  <1> HIDE DEF lock, archives, intent, list, inputs, Fits
  <1>6. DOMAIN inputs = DOMAIN list
    <2>1. Cardinality(DOMAIN lock) = Cardinality(N) + 1
      <3>1. IsFiniteSet(N) /\ Root \notin N /\ DOMAIN lock = N \cup {Root}
        BY <1>1, FS_Difference
      <3> QED
        BY <3>1, FS_AddElement
    <2>2. Cardinality(N) \in Nat
      BY <1>1, FS_Difference, FS_CardinalityType
    <2>3. Len(list) <= Len(intent.locked) /\ DOMAIN list = 1..Len(list) /\ Len(list) \in Nat
      BY <1>1, <1>5, <2>1, <2>2 DEF Lists
    <2>4. DOMAIN list \subseteq DOMAIN intent.locked
      BY <1>1, <2>3
    <2>5. InStep(intent, lock) = DOMAIN intent.locked \cap DOMAIN list
      BY DEF InStep, list
    <2> QED
      BY <1>3, <2>4, <2>5
  <1>7. ASSUME NEW i \in DOMAIN inputs
        PROVE  /\ inputs[i].locator = list[i] /\ intent.locked[i].locator = list[i]
               /\ i \in DOMAIN intent.locked /\ Fits(i)
               /\ LockedValid(intent.locked[i], lock[list[i]], archives[intent.locked[i].url])
    <2>1. i \in InStep(intent, lock) /\ i \in DOMAIN intent.locked
      BY <1>3 DEF InStep
    <2>2. intent.locked[i].locator = list[i]
      BY <1>4, <2>1 DEF LockAgrees, list
    <2> QED
      BY <1>3, <1>4, <2>1, <2>2 DEF Fits
  <1>8. {p.locator : p \in observed} = N
    <2>1. \A i \in DOMAIN list : list[i] \in N
      BY <1>5 DEF Lists
    <2>2. \A l \in N : \E i \in DOMAIN list : list[i] = l
      BY <1>5 DEF Lists
    <2> QED
      BY <1>6, <1>7, <2>1, <2>2
  <1>9. ASSUME \A l \in N : lock[l].optional = (l \notin Needed(lock)), NEW l \in Needed(lock), l # Root
        PROVE  l \in {p.locator : p \in {p \in observed : p.pruned = {}}}
    <2>1. l \in N
      BY <1>9 DEF Needed
    <2> PICK i \in DOMAIN list : list[i] = l
      BY <1>5, <2>1 DEF Lists
    <2>2. ~(lock[l].optional)
      BY <1>9, <2>1
    <2>3. LockedValid(intent.locked[i], lock[l], archives[intent.locked[i].url])
      BY <1>6, <1>7
    <2>4. Reasons(lock[l], archives[intent.locked[i].url]) = {}
      BY <2>2, <2>3 DEF LockedValid
    <2>5. inputs[i].pruned = {} /\ inputs[i].locator = l
      BY <1>6, <1>7, <2>4 DEF Fits
    <2> QED
      BY <1>6, <2>5
  <1>10. ASSUME NEW l \in DOMAIN lock, NEW d \in lock[l].deps, d.kind = "dependency"
         PROVE  Nearest(DOMAIN lock, l, d.name) # {}
    <2>1. Resolve(lock, l, d.name) # {}
      BY <1>4, <1>10 DEF CompleteClosure
    <2> QED
      BY <1>1, <2>1, ResolveIsNearest
  <1>11. ASSUME NEW i \in DOMAIN inputs
         PROVE  /\ archives[inputs[i].url].digest = inputs[i].digest
                /\ KeepsWhatUnpacks(archives[inputs[i].url].policy, archives[inputs[i].url].headers)
    <2>1. inputs[i].url = intent.locked[i].url /\ inputs[i].digest = intent.locked[i].digest
      BY <1>7 DEF Fits
    <2>2. intent.locked[i].url \in DOMAIN archives
          /\ archives[intent.locked[i].url].digest = intent.locked[i].digest
      BY <1>4, <1>7 DEF LockedFetched, archives
    <2>3. IsArchive(archives[inputs[i].url])
      BY <1>1, <2>1, <2>2
    <2>4. NpmArchive(archives[inputs[i].url].policy, archives[inputs[i].url].headers)
      BY <1>7, <2>1 DEF LockedValid
    <2> QED
      BY <2>1, <2>2, <2>3, <2>4, AcceptedUnpacks DEF IsArchive
  <1> QED
    BY <1>8, <1>9, <1>10, <1>11

-----------------------------------------------------------------------------
(* What is accepted is not in vain                                         *)

\* What a discovery recorded verifies again, when the same is served
\* (discover_pi_release, then verify_npm_graph).
THEOREM DiscoveredVerifies ==
    ASSUME NEW served, DiscoversPi(served)
    PROVE  GraphVerifies(DiscoveredRequest(served))
  <1> DEFINE intent == IntentOf(served)
             list   == Packages(served.lock)
             inputs == Observed(intent, served)
             request == DiscoveredRequest(served)
             Input(record) ==
                  [locator |-> record.locator, version |-> record.version, url |-> record.url,
                   digest |-> record.digest, size |-> served.archives[record.url].size,
                   pruned |-> Reasons(served.lock[record.locator], served.archives[record.url])]
  <1>1. request.intent = intent /\ request.inputs = inputs /\ request.served = served
    BY DEF DiscoveredRequest
  <1>2. intent.node = served.node /\ DOMAIN intent.locked = DOMAIN list
    BY DEF IntentOf
  <1>3. NodeArchive(served.node.root, served.node.headers) /\ Observes(intent, served)
    BY DEF DiscoversPi
  <1>4. LockedFetched(intent, served)
    BY <1>3 DEF Observes
  <1>5. inputs.locked = [i \in InStep(intent, served.lock) |-> Input(intent.locked[i])]
    BY DEF Observed
  <1> HIDE DEF intent, list, inputs, request
  <1>6. InStep(intent, served.lock) = DOMAIN intent.locked
    BY <1>2 DEF InStep, list
  <1>7. Sized(request)
    <2>1. ASSUME NEW i \in DOMAIN intent.locked
          PROVE  \E k \in DOMAIN inputs.locked :
                    /\ inputs.locked[k].locator = intent.locked[i].locator
                    /\ intent.locked[i].url \in DOMAIN served.archives
                    /\ inputs.locked[k].size = served.archives[intent.locked[i].url].size
      <3>1. i \in DOMAIN inputs.locked /\ inputs.locked[i] = Input(intent.locked[i])
        BY <1>5, <1>6
      <3>2. intent.locked[i].url \in DOMAIN served.archives
        BY <1>4 DEF LockedFetched
      <3>3. /\ inputs.locked[i].locator = intent.locked[i].locator
            /\ inputs.locked[i].size = served.archives[intent.locked[i].url].size
        BY <3>1
      <3> QED
        BY <3>1, <3>2, <3>3
    <2> QED
      BY <1>1, <2>1 DEF Sized
  <1>8. request.intent.node = request.served.node
    BY <1>1, <1>2
  <1>9. NodeArchive(request.served.node.root, request.served.node.headers)
    BY <1>1, <1>3
  <1>10. Observes(request.intent, request.served)
    BY <1>1, <1>3
  <1>11. Observed(request.intent, request.served) = request.inputs
    BY <1>1 DEF inputs
  <1>12. GraphVerifies(request)
    BY <1>7, <1>8, <1>9, <1>10, <1>11 DEF GraphVerifies
  <1> QED
    BY <1>12 DEF request

\* The objects that are copied are all, and each once.
LEMMA PreparedAre ==
    ASSUME NEW objects, IsList(objects), ValidObjects(objects)
    PROVE  /\ ObjectFiles(Prepared(objects)) = ObjectFiles(objects)
           /\ \A i, j \in DOMAIN Prepared(objects) :
                 Prepared(objects)[i].digest = Prepared(objects)[j].digest => i = j
  <1> DEFINE First(i) == \A j \in 1..(i - 1) : objects[j].digest # objects[i].digest
             prepared == Prepared(objects)
  <1>1. DOMAIN prepared = {i \in DOMAIN objects : First(i)} /\ \A i \in DOMAIN prepared : prepared[i] = objects[i]
    BY DEF Prepared
  <1>2. \A i, j \in DOMAIN objects : objects[i].digest = objects[j].digest => objects[i] = objects[j]
    BY DEF ValidObjects
  <1> HIDE DEF prepared
  <1>3. ASSUME NEW i \in DOMAIN objects
        PROVE  \E m \in DOMAIN prepared : objects[m] = objects[i]
    <2> DEFINE Same == {k \in 1..i : objects[k].digest = objects[i].digest}
    <2>1. Same \in SUBSET Nat /\ i \in Same
      BY DEF IsList
    <2> PICK m \in Same : \A k \in Same : m <= k
      BY <2>1, LeastNumber
    <2>2. m \in 1..i /\ objects[m].digest = objects[i].digest /\ m \in DOMAIN objects
      BY DEF IsList
    <2>3. ASSUME NEW j \in 1..(m - 1) PROVE objects[j].digest # objects[m].digest
      <3>1. j \in 1..i /\ ~(m <= j)
        BY <2>2 DEF IsList
      <3>2. j \notin Same
        BY <3>1
      <3> QED
        BY <2>2, <3>1, <3>2
    <2> HIDE DEF Same
    <2>4. m \in DOMAIN prepared
      BY <1>1, <2>2, <2>3
    <2> QED
      BY <1>2, <2>2, <2>4
  <1>4. ObjectFiles(prepared) = ObjectFiles(objects)
    <2>1. \A i \in DOMAIN prepared : i \in DOMAIN objects /\ prepared[i] = objects[i]
      BY <1>1
    <2>2. \A i \in DOMAIN objects : \E m \in DOMAIN prepared : prepared[m] = objects[i]
      BY <1>3, <2>1
    <2> QED
      BY <2>1, <2>2 DEF ObjectFiles
  <1>5. ASSUME NEW i \in DOMAIN prepared, NEW j \in DOMAIN prepared,
               prepared[i].digest = prepared[j].digest
        PROVE  i = j
    <2>1. /\ i \in 1..Len(objects) /\ j \in 1..Len(objects)
          /\ objects[i].digest = objects[j].digest /\ First(i) /\ First(j)
      BY <1>1, <1>5 DEF IsList
    <2>2. ~(i < j)
      BY <2>1 DEF IsList
    <2>3. ~(j < i)
      BY <2>1 DEF IsList
    <2> QED
      BY <2>1, <2>2, <2>3 DEF IsList
  <1> QED
    BY <1>4, <1>5 DEF prepared

\* A bundle that passes the preflight is written without a name twice, and accepted
\* by its reader (preflight_verified_bundle, write_preflight_bundle,
\* verify_transferred_bundle_root).
THEOREM AcceptedIsRead ==
    ASSUME NEW request, IsList(request.objects), Accepts(request)
    PROVE  Writable(request) /\ VerifyTransferred(Tree(request))
  <1> DEFINE manifest == Manifest(request)
             tree     == Tree(request)
             input    == VerifiedInputFile(VerifiedInput(request))
             records  == RecordFiles(request.records)
             objects  == ObjectFiles(request.objects)
  <1>0. /\ ValidObjects(request.objects) /\ ValidManifest(manifest)
        /\ DocumentSize(Cardinality(objects)) \in 1..MaxManifest
        /\ DocumentSize(Cardinality(manifest.entries)) \in 1..MaxManifest
    BY DEF Accepts
  <1>1. /\ ObjectFiles(Prepared(request.objects)) = objects
        /\ \A i, j \in DOMAIN Prepared(request.objects) :
              Prepared(request.objects)[i].digest = Prepared(request.objects)[j].digest => i = j
    BY <1>0, PreparedAre
  <1>2. Writable(request)
    BY <1>1 DEF Writable
  <1>3. /\ tree.manifest = manifest /\ tree.input = VerifiedInput(request)
        /\ tree.files = records \cup objects \cup {input}
    BY <1>1 DEF Tree
  <1>4. /\ manifest.records = {[role |-> r.role, digest |-> r.digest] : r \in request.records}
        /\ manifest.entries = records \cup objects \cup {input}
    BY DEF Manifest
  <1>5. input.dir = "root" /\ input.size = DocumentSize(Cardinality(objects))
        /\ VerifiedInput(request).objects = objects
    BY DEF VerifiedInputFile, VerifiedInput, File
  <1>6. \A file \in records : file.dir = "records"
    BY DEF RecordFiles, File
  <1>7. \A file \in objects : file.dir = "objects"
    BY DEF ObjectFiles, File
  <1>8. ASSUME NEW r \in request.records PROVE \E file \in records : file.digest = r.digest
    <2>1. File("records", r.digest, r.size) \in records
      BY DEF RecordFiles
    <2>2. File("records", r.digest, r.size).digest = r.digest
      BY DEF File
    <2> QED
      BY <2>1, <2>2
  <1>11. MaxManifest \in Nat
    BY RulesAssumption
  <1> HIDE DEF manifest, tree, input, records, objects
  <1>9. InDir(manifest.entries, "objects") = objects
    BY <1>4, <1>5, <1>6, <1>7 DEF InDir
  <1>10. \A r \in manifest.records : \E file \in InDir(tree.files, "records") : file.digest = r.digest
    BY <1>3, <1>4, <1>6, <1>8 DEF InDir
  <1>12. VerifyTransferred(tree)
    <2>1. DocumentSize(Cardinality(tree.manifest.entries)) <= MaxManifest
      BY <1>0, <1>3
    <2>2. VerifiedInputFile(tree.input) = input
      BY <1>3 DEF input
    <2>3. input.size <= MaxManifest
      BY <1>0, <1>5
    <2> QED
      BY <1>0, <1>3, <1>4, <1>5, <1>9, <1>10, <2>1, <2>2, <2>3 DEF VerifyTransferred
  <1> QED
    BY <1>2, <1>12 DEF tree

-----------------------------------------------------------------------------
(* Totals of files                                                         *)

\* The image of a finite set under a function.
LEMMA ImageIs ==
    ASSUME NEW S, IsFiniteSet(S), NEW f, DOMAIN f = S, NEW T, T = {f[x] : x \in S}
    PROVE  IsFiniteSet(T) /\ Cardinality(T) <= Cardinality(S)
  <1> DEFINE g == [x \in S |-> f[x]]
  <1>1. g \in Surjection(S, T)
    BY DEF Surjection
  <1> HIDE DEF g
  <1>2. QED
    BY <1>1, FS_Surjection

\* The sizes of the subsets of a set: its recursion is over a first element.
First(s) == CHOOSE x \in s : TRUE
Sums(S, sum) ==
    \A s \in SUBSET S :
        sum[s] = IF s = {} THEN 0 ELSE First(s).size + sum[s \ {First(s)}]

\* They exist, one number of elements after the other.
LEMMA SumsExist ==
    ASSUME NEW S, IsFiniteSet(S)
    PROVE  \E sum : sum = [s \in SUBSET S |-> IF s = {} THEN 0
                                              ELSE First(s).size + sum[s \ {First(s)}]]
  <1> DEFINE Next1(g, s) == IF s = {} THEN 0 ELSE First(s).size + g[s \ {First(s)}]
             Small(n) == {s \in SUBSET S : Cardinality(s) <= n}
             Good == {n \in 0..Cardinality(S) : \E g : g = [s \in Small(n) |-> Next1(g, s)]}
  <1>0. /\ Cardinality(S) \in Nat
        /\ \A s \in SUBSET S : IsFiniteSet(s) /\ Cardinality(s) \in Nat /\ Cardinality(s) <= Cardinality(S)
    BY FS_Subset, FS_CardinalityType
  <1>1. \A s \in SUBSET S : s # {} => /\ First(s) \in s /\ s \ {First(s)} \in SUBSET S
                                      /\ Cardinality(s \ {First(s)}) = Cardinality(s) - 1
    BY <1>0, FS_RemoveElement DEF First
  <1>2. \A s \in SUBSET S : Cardinality(s) = 0 <=> s = {}
    BY <1>0, FS_EmptySet
  <1>3. 0 \in Good
    <2> DEFINE g == [s \in {{}} |-> 0]
    <2>1. Small(0) = {{}}
      BY <1>0, <1>2
    <2>2. g = [s \in Small(0) |-> Next1(g, s)]
      BY <2>1
    <2> HIDE DEF g, Next1
    <2>3. \E x : x = [s \in Small(0) |-> Next1(x, s)]
      BY <2>2
    <2>4. 0 \in 0..Cardinality(S)
      BY <1>0
    <2> HIDE DEF Small
    <2>5. QED
      BY <2>3, <2>4
  <1>4. ASSUME NEW n \in 0..(Cardinality(S) - 1), n \in Good PROVE n + 1 \in Good
    <2> PICK g : g = [s \in Small(n) |-> Next1(g, s)]
      BY <1>4
    <2> DEFINE h == [s \in Small(n + 1) |-> IF s \in Small(n) THEN g[s] ELSE Next1(g, s)]
    <2>1. ASSUME NEW s \in Small(n + 1) PROVE h[s] = Next1(h, s)
      <3>1. h[s] = Next1(g, s)
        <4> HIDE DEF Next1
        <4>1. s \in Small(n) => g[s] = Next1(g, s)
          OBVIOUS
        <4>2. QED
          BY <4>1
      <3>2. CASE s = {}
        BY <3>1, <3>2
      <3>3. CASE s # {}
        <4>1. s \ {First(s)} \in Small(n) /\ s \ {First(s)} \in Small(n + 1)
          BY <1>0, <1>1, <3>3
        <4>2. h[s \ {First(s)}] = g[s \ {First(s)}]
          BY <4>1
        <4>3. QED
          BY <3>1, <4>2
      <3>4. QED
        BY <3>2, <3>3
    <2> HIDE DEF Next1
    <2>2. h = [s \in Small(n + 1) |-> Next1(h, s)]
      BY <2>1
    <2> HIDE DEF h
    <2>3. \E x : x = [s \in Small(n + 1) |-> Next1(x, s)]
      BY <2>2
    <2>4. n + 1 \in 0..Cardinality(S)
      BY <1>0
    <2>5. QED
      BY <2>3, <2>4
  <1>5. Cardinality(S) \in Good
    <2> HIDE DEF Good
    <2>1. \A n \in 0..Cardinality(S) : n \in Good
      BY <1>0, <1>3, <1>4, UpTo
    <2>2. QED
      BY <1>0, <2>1
  <1>6. Small(Cardinality(S)) = SUBSET S
    BY <1>0
  <1>7. QED
    BY <1>5, <1>6

\* A total is a sum of them.
LEMMA TotalSums ==
    ASSUME NEW S, IsFiniteSet(S)
    PROVE  \E sum : Sums(S, sum) /\ Total(S) = sum[S]
  <1> DEFINE sum == CHOOSE g : g = [s \in SUBSET S |-> IF s = {} THEN 0
                                                       ELSE First(s).size + g[s \ {First(s)}]]
  <1>1. Total(S) = sum[S]
    BY DEF Total, MapThenSumSet, MapThenFoldSet, First
  <1>2. sum = [s \in SUBSET S |-> IF s = {} THEN 0 ELSE First(s).size + sum[s \ {First(s)}]]
    BY SumsExist
  <1> HIDE DEF sum
  <1>3. Sums(S, sum)
    BY <1>2 DEF Sums
  <1>4. QED
    BY <1>1, <1>3

\* Sums of one set are those of a larger.
LEMMA SumsAgree ==
    ASSUME NEW S, IsFiniteSet(S), NEW T \in SUBSET S, NEW f, Sums(S, f), NEW g, Sums(T, g)
    PROVE  f[T] = g[T]
  <1> DEFINE Small(n) == {s \in SUBSET T : Cardinality(s) <= n}
             Good == {n \in 0..Cardinality(T) : \A s \in Small(n) : f[s] = g[s]}
  <1>0. /\ IsFiniteSet(T) /\ Cardinality(T) \in Nat
        /\ \A s \in SUBSET T : IsFiniteSet(s) /\ Cardinality(s) \in Nat /\ Cardinality(s) <= Cardinality(T)
    BY FS_Subset, FS_CardinalityType
  <1>1. \A s \in SUBSET T : s # {} => /\ First(s) \in s /\ s \ {First(s)} \in SUBSET T
                                      /\ Cardinality(s \ {First(s)}) = Cardinality(s) - 1
    BY <1>0, FS_RemoveElement DEF First
  <1>2. \A s \in SUBSET T : Cardinality(s) = 0 <=> s = {}
    BY <1>0, FS_EmptySet
  <1>3. f[{}] = 0 /\ g[{}] = 0
    BY DEF Sums
  <1>4. 0 \in Good
    BY <1>0, <1>2, <1>3
  <1>5. ASSUME NEW n \in 0..(Cardinality(T) - 1), n \in Good PROVE n + 1 \in Good
    <2>1. ASSUME NEW s \in Small(n + 1), s # {} PROVE f[s] = g[s]
      <3>1. s \ {First(s)} \in Small(n)
        BY <1>0, <1>1, <2>1
      <3>2. f[s \ {First(s)}] = g[s \ {First(s)}]
        BY <1>5, <3>1
      <3>3. s \in SUBSET S /\ s \in SUBSET T
        OBVIOUS
      <3>4. /\ f[s] = First(s).size + f[s \ {First(s)}]
            /\ g[s] = First(s).size + g[s \ {First(s)}]
        BY <2>1, <3>3 DEF Sums
      <3>5. QED
        BY <3>2, <3>4
    <2>2. \A s \in Small(n + 1) : f[s] = g[s]
      BY <1>3, <2>1
    <2>3. QED
      BY <1>0, <2>2
  <1>6. Cardinality(T) \in Good
    <2> HIDE DEF Good
    <2>1. \A n \in 0..Cardinality(T) : n \in Good
      BY <1>0, <1>4, <1>5, UpTo
    <2>2. QED
      BY <1>0, <2>1
  <1>7. QED
    BY <1>0, <1>6

\* A total is that of the first element and of the rest.
LEMMA TotalIs ==
    ASSUME NEW S, IsFiniteSet(S)
    PROVE  Total(S) = IF S = {} THEN 0 ELSE First(S).size + Total(S \ {First(S)})
  <1> PICK sum : Sums(S, sum) /\ Total(S) = sum[S]
    BY TotalSums
  <1>1. sum[S] = IF S = {} THEN 0 ELSE First(S).size + sum[S \ {First(S)}]
    BY DEF Sums
  <1>2. S \ {First(S)} \in SUBSET S /\ IsFiniteSet(S \ {First(S)})
    BY FS_Subset
  <1> PICK rest : Sums(S \ {First(S)}, rest) /\ Total(S \ {First(S)}) = rest[S \ {First(S)}]
    BY <1>2, TotalSums
  <1>3. sum[S \ {First(S)}] = rest[S \ {First(S)}]
    BY <1>2, SumsAgree
  <1>4. QED
    BY <1>1, <1>3

\* What grows from the empty set an element at a time comes to the whole set.
LEMMA Grows ==
    ASSUME NEW S, IsFiniteSet(S), NEW Good, {} \in Good,
           \A T \in SUBSET S : \A x \in S \ T : T \in Good => T \cup {x} \in Good
    PROVE  S \in Good
  <1> DEFINE Known == {n \in 0..Cardinality(S) : \A T \in SUBSET S : Cardinality(T) = n => T \in Good}
  <1>0. /\ Cardinality(S) \in Nat
        /\ \A T \in SUBSET S : IsFiniteSet(T) /\ Cardinality(T) \in Nat
    BY FS_Subset, FS_CardinalityType
  <1>1. 0 \in Known
    <2>1. \A T \in SUBSET S : Cardinality(T) = 0 => T = {}
      BY <1>0, FS_EmptySet
    <2>2. \A T \in SUBSET S : Cardinality(T) = 0 => T \in Good
      BY <2>1
    <2>3. 0 \in 0..Cardinality(S)
      BY <1>0
    <2>4. QED
      BY <2>2, <2>3
  <1>2. ASSUME NEW n \in 0..(Cardinality(S) - 1), n \in Known PROVE n + 1 \in Known
    <2>1. ASSUME NEW T \in SUBSET S, Cardinality(T) = n + 1 PROVE T \in Good
      <3>1. T # {}
        BY <1>0, <2>1, FS_EmptySet
      <3> PICK x : x \in T
        BY <3>1
      <3>2. Cardinality(T \ {x}) = n
        <4>1. IsFiniteSet(T)
          BY <1>0
        <4>2. Cardinality(T \ {x}) = Cardinality(T) - 1
          BY <4>1, FS_RemoveElement
        <4>3. QED
          BY <1>0, <2>1, <4>2
      <3>3. T \ {x} \in SUBSET S /\ x \in S \ (T \ {x}) /\ (T \ {x}) \cup {x} = T
        OBVIOUS
      <3>4. T \ {x} \in Good
        BY <1>2, <3>2, <3>3
      <3>5. (T \ {x}) \cup {x} \in Good
        BY <3>3, <3>4
      <3>6. QED
        BY <3>3, <3>5
    <2>2. n + 1 \in 0..Cardinality(S)
      BY <1>0
    <2>3. QED
      BY <2>1, <2>2
  <1>3. Cardinality(S) \in Known
    <2> HIDE DEF Known
    <2>1. \A n \in 0..Cardinality(S) : n \in Known
      BY <1>0, <1>1, <1>2, UpTo
    <2>2. QED
      BY <1>0, <2>1
  <1>4. QED
    BY <1>3

\* Files, of some size.
OfSizes(S) == IsFiniteSet(S) /\ \A x \in S : x.size \in Nat

\* A total is a number, and that of any element and of the rest.
TotalWithout(S) ==
    Total(S) \in Nat /\ \A x \in S : Total(S) = x.size + Total(S \ {x})
LEMMA TotalIsOfAny ==
    ASSUME NEW S, OfSizes(S)
    PROVE  TotalWithout(S)
  <1> DEFINE Small(n) == {T \in SUBSET S : Cardinality(T) <= n}
             Good == {n \in 0..Cardinality(S) : \A T \in Small(n) : TotalWithout(T)}
  <1>0. /\ Cardinality(S) \in Nat /\ IsFiniteSet(S) /\ \A x \in S : x.size \in Nat
        /\ \A T \in SUBSET S : IsFiniteSet(T) /\ Cardinality(T) \in Nat /\ Cardinality(T) <= Cardinality(S)
    BY FS_Subset, FS_CardinalityType DEF OfSizes
  <1>1. TotalWithout({})
    <2>1. Total({}) = 0
      BY FS_EmptySet, TotalIs
    <2>2. QED
      BY <2>1 DEF TotalWithout
  <1>2. 0 \in Good
    <2>1. \A T \in SUBSET S : Cardinality(T) <= 0 => T = {}
      BY <1>0, FS_EmptySet
    <2>2. QED
      BY <1>0, <1>1, <2>1
  <1>3. ASSUME NEW n \in 0..(Cardinality(S) - 1), n \in Good PROVE n + 1 \in Good
    <2>1. ASSUME NEW T \in SUBSET S, Cardinality(T) <= n + 1, T # {} PROVE TotalWithout(T)
      <3> DEFINE c == First(T)
      <3>1. c \in T
        BY <2>1 DEF First
      <3>2. Total(T) = c.size + Total(T \ {c})
        BY <1>0, <2>1, TotalIs
      <3> HIDE DEF c
      <3>3. ASSUME NEW y \in T PROVE T \ {y} \in SUBSET S /\ TotalWithout(T \ {y})
        <4>1. Cardinality(T \ {y}) = Cardinality(T) - 1
          BY <1>0, FS_RemoveElement
        <4>2. T \ {y} \in Small(n)
          BY <1>0, <2>1, <4>1
        <4> HIDE DEF Small
        <4>3. TotalWithout(T \ {y})
          BY <1>3, <4>2
        <4>4. QED
          BY <4>3
      <3>4. Total(T) \in Nat
        BY <1>0, <3>1, <3>2, <3>3 DEF TotalWithout
      <3>5. ASSUME NEW y \in T PROVE Total(T) = y.size + Total(T \ {y})
        <4>1. CASE y = c
          BY <3>2, <4>1
        <4>2. CASE y # c
          <5>1. Total(T \ {c}) = y.size + Total((T \ {c}) \ {y})
            BY <3>1, <3>3, <4>2 DEF TotalWithout
          <5>2. Total(T \ {y}) = c.size + Total((T \ {y}) \ {c})
            BY <3>1, <3>3, <4>2 DEF TotalWithout
          <5>3. (T \ {c}) \ {y} = (T \ {y}) \ {c}
            OBVIOUS
          <5>4. ((T \ {c}) \ {y}) \in SUBSET S /\ Total((T \ {c}) \ {y}) \in Nat
            <6>1. Cardinality(T \ {c}) = Cardinality(T) - 1
              BY <1>0, <3>1, FS_RemoveElement
            <6>2. y \in T \ {c} /\ IsFiniteSet(T \ {c})
              BY <1>0, <4>2
            <6>3. Cardinality((T \ {c}) \ {y}) = Cardinality(T \ {c}) - 1
              BY <6>2, FS_RemoveElement
            <6>4. (T \ {c}) \ {y} \in Small(n)
              BY <1>0, <2>1, <6>1, <6>3
            <6> HIDE DEF Small
            <6>5. QED
              BY <1>3, <6>4 DEF TotalWithout
          <5>5. c.size \in Nat /\ y.size \in Nat
            BY <1>0, <3>1
          <5>6. Total(T \ {y}) = c.size + Total((T \ {c}) \ {y})
            BY <5>2, <5>3
          <5>7. \A a, b, t, u, v : a \in Nat /\ b \in Nat /\ t \in Nat /\ u = a + t /\ v = b + t
                                    => a + v = b + u
            OBVIOUS
          <5>8. c.size + Total(T \ {c}) = y.size + Total(T \ {y})
            BY <5>1, <5>4, <5>5, <5>6, <5>7
          <5>9. QED
            BY <3>2, <5>8
        <4>3. QED
          BY <4>1, <4>2
      <3>6. QED
        BY <3>4, <3>5 DEF TotalWithout
    <2>2. n + 1 \in 0..Cardinality(S)
      BY <1>0
    <2>3. \A T \in Small(n + 1) : TotalWithout(T)
      BY <1>1, <2>1
    <2> HIDE DEF Small
    <2>4. QED
      BY <2>2, <2>3
  <1>4. Cardinality(S) \in Good
    <2> HIDE DEF Good
    <2>1. \A n \in 0..Cardinality(S) : n \in Good
      BY <1>0, <1>2, <1>3, UpTo
    <2>2. QED
      BY <1>0, <2>1
  <1>5. QED
    BY <1>0, <1>4

\* One element more adds its size, if it is new.
LEMMA TotalGrows ==
    ASSUME NEW S, OfSizes(S), NEW x, x.size \in Nat
    PROVE  /\ Total(S) \in Nat /\ Total(S \cup {x}) \in Nat
           /\ x \notin S => Total(S \cup {x}) = x.size + Total(S)
           /\ Total(S \cup {x}) <= x.size + Total(S)
           /\ x \in S => x.size <= Total(S)
  <1>1. OfSizes(S \cup {x})
    BY FS_AddElement DEF OfSizes
  <1>2. TotalWithout(S) /\ TotalWithout(S \cup {x})
    BY <1>1, TotalIsOfAny
  <1>3. CASE x \in S
    <2>1. S \cup {x} = S /\ OfSizes(S \ {x})
      BY <1>3, FS_Subset DEF OfSizes
    <2>2. Total(S) = x.size + Total(S \ {x}) /\ Total(S \ {x}) \in Nat
      BY <1>2, <1>3, <2>1, TotalIsOfAny DEF TotalWithout
    <2>3. QED
      BY <1>2, <1>3, <2>1, <2>2 DEF TotalWithout
  <1>4. CASE x \notin S
    <2>1. (S \cup {x}) \ {x} = S /\ x \in S \cup {x}
      BY <1>4
    <2>2. Total(S \cup {x}) = x.size + Total(S)
      BY <1>2, <2>1 DEF TotalWithout
    <2>3. QED
      BY <1>2, <1>4, <2>2 DEF TotalWithout
  <1>5. QED
    BY <1>3, <1>4

\* The total of two sets is at most that of both.
LEMMA TotalOfBoth ==
    ASSUME NEW A, OfSizes(A), NEW B, OfSizes(B)
    PROVE  OfSizes(A \cup B) /\ Total(A \cup B) <= Total(A) + Total(B)
  <1> DEFINE Good == {T \in SUBSET B : OfSizes(A \cup T) /\ Total(A \cup T) <= Total(A) + Total(T)}
  <1>1. {} \in Good
    <2>1. Total({}) = 0 /\ Total(A) \in Nat
      BY FS_EmptySet, TotalIs, TotalIsOfAny DEF TotalWithout
    <2>2. A \cup {} = A
      OBVIOUS
    <2>3. OfSizes(A \cup {}) /\ Total(A \cup {}) <= Total(A) + Total({})
      BY <2>1, <2>2
    <2>4. QED
      BY <2>3
  <1>2. ASSUME NEW T \in SUBSET B, NEW x \in B \ T, T \in Good PROVE T \cup {x} \in Good
    <2>1. x.size \in Nat /\ OfSizes(T) /\ OfSizes(A \cup T) /\ Total(A) \in Nat
      BY <1>2, FS_Subset, TotalIsOfAny DEF OfSizes, TotalWithout
    <2>2. (A \cup T) \cup {x} = A \cup (T \cup {x})
      OBVIOUS
    <2>3. /\ Total(A \cup (T \cup {x})) <= x.size + Total(A \cup T)
          /\ Total(A \cup T) \in Nat /\ Total(A \cup (T \cup {x})) \in Nat
      BY <2>1, <2>2, TotalGrows
    <2>4. Total(T \cup {x}) = x.size + Total(T) /\ Total(T) \in Nat
      BY <2>1, TotalGrows
    <2>5. OfSizes(A \cup (T \cup {x}))
      BY <2>1, <2>2, FS_AddElement DEF OfSizes
    <2>6. Total(A \cup T) <= Total(A) + Total(T)
      BY <1>2
    <2>7. Total(A \cup (T \cup {x})) <= Total(A) + Total(T \cup {x})
      BY <2>1, <2>3, <2>4, <2>6
    <2>8. QED
      BY <2>5, <2>7
  <1>3. IsFiniteSet(B)
    BY DEF OfSizes
  <1> HIDE DEF Good
  <1>4. B \in Good
    BY <1>1, <1>2, <1>3, Grows
  <1>5. QED
    BY <1>4 DEF Good

\* An image has at most the total of its set, when each element keeps its size.
LEMMA TotalOfImage ==
    ASSUME NEW S, OfSizes(S), NEW f, \A x \in S : f[x].size = x.size
    PROVE  OfSizes({f[x] : x \in S}) /\ Total({f[x] : x \in S}) <= Total(S)
  <1> DEFINE Image(T) == {f[x] : x \in T}
             Good == {T \in SUBSET S : OfSizes(Image(T)) /\ Total(Image(T)) <= Total(T)}
  <1>1. {} \in Good
    <2>1. Image({}) = {}
      OBVIOUS
    <2>2. Total({}) = 0 /\ OfSizes({})
      BY FS_EmptySet, TotalIs DEF OfSizes
    <2> HIDE DEF Image
    <2>3. QED
      BY <2>1, <2>2
  <1>2. ASSUME NEW T \in SUBSET S, NEW x \in S \ T, T \in Good PROVE T \cup {x} \in Good
    <2>1. Image(T \cup {x}) = Image(T) \cup {f[x]}
      OBVIOUS
    <2>2. x.size \in Nat /\ f[x].size = x.size /\ OfSizes(T)
      BY FS_Subset DEF OfSizes
    <2> HIDE DEF Image
    <2>3. OfSizes(Image(T)) /\ Total(Image(T)) <= Total(T)
      BY <1>2
    <2>4. /\ Total(Image(T) \cup {f[x]}) <= f[x].size + Total(Image(T))
          /\ Total(Image(T)) \in Nat /\ Total(Image(T) \cup {f[x]}) \in Nat
      BY <2>2, <2>3, TotalGrows
    <2>5. Total(T \cup {x}) = x.size + Total(T) /\ Total(T) \in Nat
      BY <2>2, TotalGrows
    <2>6. OfSizes(Image(T) \cup {f[x]})
      BY <2>2, <2>3, FS_AddElement DEF OfSizes
    <2>7. Total(Image(T \cup {x})) <= Total(T \cup {x})
      <3>1. Total(Image(T) \cup {f[x]}) <= x.size + Total(T)
        BY <2>2, <2>3, <2>4, <2>5
      <3>2. QED
        BY <2>1, <2>5, <3>1
    <2>8. QED
      BY <2>1, <2>6, <2>7
  <1>3. IsFiniteSet(S)
    BY DEF OfSizes
  <1> HIDE DEF Good
  <1>4. S \in Good
    BY <1>1, <1>2, <1>3, Grows
  <1>5. QED
    BY <1>4 DEF Good

-----------------------------------------------------------------------------
(* Room in a bundle                                                        *)

\* The union of two finite sets has at most the elements of both.
LEMMA UnionIs ==
    ASSUME NEW A, IsFiniteSet(A), NEW B, IsFiniteSet(B)
    PROVE  IsFiniteSet(A \cup B) /\ Cardinality(A \cup B) <= Cardinality(A) + Cardinality(B)
  <1>1. /\ Cardinality(A) \in Nat /\ Cardinality(B) \in Nat /\ Cardinality(A \cup B) \in Nat
        /\ Cardinality(A \cap B) \in Nat /\ IsFiniteSet(A \cup B)
    BY FS_CardinalityType, FS_Union, FS_Subset
  <1>2. Cardinality(A \cup B) = Cardinality(A) + Cardinality(B) - Cardinality(A \cap B)
    BY FS_Union
  <1>3. QED
    BY <1>1, <1>2

\* Files of which there are at most n, of at most t altogether.
Few(files, n, t) ==
    /\ OfSizes(files) /\ Cardinality(files) \in Nat /\ Cardinality(files) <= n
    /\ Total(files) \in Nat /\ Total(files) <= t

\* What is said of the files of a set.
LEMMA FewOfBoth ==
    ASSUME NEW A, NEW n, n \in Nat, NEW t, t \in Nat, Few(A, n, t),
           NEW B, NEW m, m \in Nat, NEW u, u \in Nat, Few(B, m, u)
    PROVE  Few(A \cup B, n + m, t + u)
  <1>1. /\ IsFiniteSet(A) /\ IsFiniteSet(B) /\ OfSizes(A) /\ OfSizes(B)
        /\ Cardinality(A) \in Nat /\ Cardinality(A) <= n /\ Cardinality(B) \in Nat /\ Cardinality(B) <= m
        /\ Total(A) \in Nat /\ Total(A) <= t /\ Total(B) \in Nat /\ Total(B) <= u
    BY DEF Few, OfSizes
  <1>2. /\ IsFiniteSet(A \cup B) /\ Cardinality(A \cup B) \in Nat
        /\ Cardinality(A \cup B) <= Cardinality(A) + Cardinality(B)
    BY <1>1, UnionIs, FS_CardinalityType
  <1>3. OfSizes(A \cup B) /\ Total(A \cup B) <= Total(A) + Total(B)
    BY <1>1, TotalOfBoth
  <1>4. Total(A \cup B) \in Nat
    BY <1>3, TotalIsOfAny DEF TotalWithout
  <1>5. Cardinality(A \cup B) <= n + m
    BY <1>1, <1>2
  <1>6. Total(A \cup B) <= t + u
    BY <1>1, <1>3, <1>4
  <1>7. QED
    BY <1>2, <1>3, <1>4, <1>5, <1>6 DEF Few

\* One file.
LEMMA FewOfOne ==
    ASSUME NEW x, x.size \in Nat
    PROVE  Few({x}, 1, x.size)
  <1>1. OfSizes({}) /\ Total({}) = 0
    BY FS_EmptySet, TotalIs DEF OfSizes
  <1>2. {} \cup {x} = {x} /\ x \notin {}
    OBVIOUS
  <1>3. Total({x}) = x.size + 0
    BY <1>1, <1>2, TotalGrows
  <1>4. IsFiniteSet({x}) /\ Cardinality({x}) = 1
    BY FS_Singleton
  <1>5. OfSizes({x})
    BY <1>4 DEF OfSizes
  <1>6. Total({x}) \in Nat /\ Total({x}) <= x.size
    BY <1>3
  <1>7. QED
    BY <1>4, <1>5, <1>6 DEF Few

\* No more files come of a set by what keeps their sizes.
LEMMA FewOfImage ==
    ASSUME NEW S, NEW n, NEW t, n \in Nat, t \in Nat, Few(S, n, t),
           NEW f, DOMAIN f = S, \A x \in S : f[x].size = x.size,
           NEW T, T = {f[x] : x \in S}
    PROVE  Few(T, n, t)
  <1>1. OfSizes(S) /\ IsFiniteSet(S) /\ Cardinality(S) \in Nat /\ Cardinality(S) <= n
        /\ Total(S) \in Nat /\ Total(S) <= t
    BY DEF Few, OfSizes
  <1>2. IsFiniteSet(T) /\ Cardinality(T) <= Cardinality(S) /\ Cardinality(T) \in Nat
    BY <1>1, ImageIs, FS_CardinalityType
  <1>3. OfSizes(T) /\ Total(T) <= Total(S)
    BY <1>1, TotalOfImage
  <1>4. Total(T) \in Nat
    BY <1>3, TotalIsOfAny DEF TotalWithout
  <1>5. Cardinality(T) <= n
    BY <1>1, <1>2
  <1>6. Total(T) <= t
    BY <1>1, <1>3, <1>4
  <1>7. QED
    BY <1>2, <1>3, <1>4, <1>5, <1>6 DEF Few

\* The records of a source: two or three, each of its own role and digest.
SourceHas(records) ==
    /\ Few(records, 3, 3) /\ records # {}
    /\ \A r \in records : r.size = 1 /\ r.digest = r.role
LEMMA SourceRecordsAre ==
    ASSUME NEW kind \in SourceKinds
    PROVE  SourceHas(SourceRecords(kind))
  <1> DEFINE Of(role) == [role |-> role, digest |-> role, size |-> 1]
             other == IF kind = "catalog_source" THEN "qualification" ELSE kind
  <1>1. SourceRecords(kind) = ({Of(kind)} \cup {Of(other)}) \cup {Of("package_inputs")}
    BY DEF SourceRecords
  <1>2. ASSUME NEW role PROVE Few({Of(role)}, 1, 1)
    <2>1. Of(role).size = 1
      OBVIOUS
    <2> HIDE DEF Of
    <2>2. QED
      BY <2>1, FewOfOne
  <1>3. \A r \in SourceRecords(kind) : r.size = 1 /\ r.digest = r.role
    BY <1>1
  <1>4. SourceRecords(kind) # {}
    BY <1>1
  <1> HIDE DEF Of, other
  <1>5. Few({Of(kind)} \cup {Of(other)}, 1 + 1, 1 + 1)
    BY <1>2, FewOfBoth
  <1>6. Few(({Of(kind)} \cup {Of(other)}) \cup {Of("package_inputs")}, 3, 3)
    <2>1. Few({Of(kind)} \cup {Of(other)}, 2, 2)
      BY <1>5
    <2>2. Few(({Of(kind)} \cup {Of(other)}) \cup {Of("package_inputs")}, 2 + 1, 2 + 1)
      BY <1>2, <2>1, FewOfBoth
    <2>3. QED
      BY <2>2
  <1>7. QED
    BY <1>1, <1>3, <1>4, <1>6 DEF SourceHas

\* A bundle is accepted when its records are those of a source, and its objects
\* are valid and leave room for them and for the list of the input.
HasRoom(request, n, t) ==
    /\ n + 4 <= MaxEntries /\ n + 4 <= MaxManifest /\ n <= MaxEntry /\ 1 <= MaxEntry
    /\ t + n + 3 <= MaxTotal
    /\ IsList(request.objects) /\ Len(request.objects) <= n /\ ValidObjects(request.objects)
    /\ Few(ObjectFiles(request.objects), n, t)
LEMMA RoomIsEnough ==
    ASSUME NEW request, NEW kind \in SourceKinds, NEW n, n \in Nat, NEW t, t \in Nat,
           request.kind = kind, request.claims = (kind = "catalog_source"),
           request.records = SourceRecords(kind), HasRoom(request, n, t)
    PROVE  Accepts(request)
  <1> DEFINE manifest == Manifest(request)
             input    == VerifiedInputFile(VerifiedInput(request))
             records  == RecordFiles(request.records)
             objects  == ObjectFiles(request.objects)
  <1>0. /\ SourceHas(request.records)
        /\ n + 4 <= MaxEntries /\ n + 4 <= MaxManifest /\ n <= MaxEntry /\ 1 <= MaxEntry
        /\ t + n + 3 <= MaxTotal
        /\ IsList(request.objects) /\ Len(request.objects) <= n /\ Len(request.objects) \in Nat
        /\ ValidObjects(request.objects) /\ Few(objects, n, t)
        /\ MaxEntries \in Nat /\ MaxEntry \in Nat /\ MaxManifest \in Nat /\ MaxTotal \in Nat
    BY SourceRecordsAre, RulesAssumption DEF HasRoom, IsList
  <1>1. Few(records, 3, 3) /\ \A file \in records : file.dir = "records" /\ file.size = 1
    <2> DEFINE f == [r \in request.records |-> File("records", r.digest, r.size)]
    <2>1. records = {f[r] : r \in request.records} /\ DOMAIN f = request.records
      BY DEF RecordFiles
    <2>2. \A r \in request.records : f[r].size = r.size
      BY DEF File
    <2>3. \A file \in records : file.dir = "records" /\ file.size = 1
      BY <1>0 DEF RecordFiles, File, SourceHas
    <2> HIDE DEF f, records
    <2>4. Few(request.records, 3, 3)
      BY <1>0 DEF SourceHas
    <2>5. Few(records, 3, 3)
      BY <2>1, <2>2, <2>4, FewOfImage
    <2>6. QED
      BY <2>3, <2>5
  <1>2. /\ manifest.records = {[role |-> r.role, digest |-> r.digest] : r \in request.records}
        /\ manifest.entries = (records \cup objects) \cup {input}
    BY DEF Manifest
  <1>3. /\ input.dir = "root" /\ input.digest = "verified-input"
        /\ input.size = Cardinality(objects)
    BY DEF VerifiedInputFile, VerifiedInput, File, DocumentSize
  <1>4. \A file \in objects : file.dir = "objects" /\ file.size \in 1..MaxEntry
    BY <1>0 DEF ObjectFiles, File, ValidObjects
  <1>5. \A a, b \in objects : a.digest = b.digest => a = b
    BY <1>0 DEF ObjectFiles, File, ValidObjects
  <1>6. \A a, b \in records : a.digest = b.digest => a = b
    BY <1>0 DEF RecordFiles, File, SourceHas
  <1>7. objects # {}
    <2>1. Len(request.objects) # 0
      BY <1>0, EmptySeq DEF ValidObjects, IsList
    <2>2. 1 \in DOMAIN request.objects
      BY <1>0, <2>1 DEF IsList
    <2>3. QED
      BY <2>2 DEF ObjectFiles
  <1> HIDE DEF manifest, input, records, objects
  <1>8. /\ Cardinality(objects) \in Nat /\ Cardinality(objects) <= n /\ Cardinality(objects) # 0
    BY <1>0, <1>7, FS_EmptySet DEF Few, OfSizes
  <1>9. Few(manifest.entries, n + 4, n + t + 3)
    <2> DEFINE a == 3 + n
               b == 3 + t
               c == Cardinality(objects)
               all == records \cup objects
    <2>0. Few(records \cup objects, 3 + n, 3 + t)
      BY <1>0, <1>1, FewOfBoth
    <2>1. Few(all, a, b) /\ a \in Nat /\ b \in Nat
      BY <2>0
    <2>2. Few({input}, 1, c) /\ c \in Nat
      BY <1>3, <1>8, FewOfOne
    <2> HIDE DEF a, b, c, all
    <2>3. Few(all \cup {input}, a + 1, b + c)
      BY <2>1, <2>2, FewOfBoth
    <2>4. a + 1 <= n + 4 /\ b + c <= n + t + 3
      BY <1>8 DEF a, b, c
    <2>5. manifest.entries = all \cup {input}
      BY <1>2 DEF all
    <2>6. QED
      BY <2>1, <2>2, <2>3, <2>4, <2>5 DEF Few
  <1>10. Cardinality(request.records) \in Nat /\ Cardinality(request.records) <= 3
    BY <1>0 DEF SourceHas, Few
  <1>11. ValidClaims(request)
    BY DEF ValidClaims
  <1>12. Cardinality(request.records) + Len(request.objects) + 1 <= MaxEntries
    BY <1>0, <1>10
  <1>13. ValidRecords(request.records)
    <2>1. \A r \in request.records : r.size = 1 /\ r.digest = r.role
      BY <1>0 DEF SourceHas
    <2>2. \A r, q \in request.records : r.role = q.role => r = q
      BY DEF SourceRecords
    <2>3. \A r \in request.records : r.size \in 1..MaxManifest /\ r.size <= MaxEntry
      BY <1>0, <2>1
    <2>4. QED
      BY <2>1, <2>2, <2>3 DEF ValidRecords, Injective
  <1>14. DocumentSize(Cardinality(objects)) \in 1..MaxManifest
    BY <1>0, <1>8 DEF DocumentSize
  <1>15. /\ Cardinality(manifest.entries) \in Nat /\ Cardinality(manifest.entries) <= n + 4
         /\ Total(manifest.entries) \in Nat /\ Total(manifest.entries) <= n + t + 3
         /\ IsFiniteSet(manifest.entries)
    BY <1>9 DEF Few, OfSizes
  <1>16. manifest.entries # {} /\ input \in manifest.entries
    BY <1>2
  <1>17. DocumentSize(Cardinality(manifest.entries)) \in 1..MaxManifest
    <2>1. Cardinality(manifest.entries) # 0
      BY <1>15, <1>16, FS_EmptySet
    <2>2. QED
      BY <1>0, <1>15, <2>1 DEF DocumentSize
  <1>18. ValidManifest(manifest)
    <2>1. Cardinality(manifest.entries) <= MaxEntries
      BY <1>0, <1>15
    <2>2. Injective(Path, manifest.entries)
      <3>1. ASSUME NEW a \in manifest.entries, NEW b \in manifest.entries, a.dir = b.dir, a.digest = b.digest
            PROVE  a = b
        BY <1>1, <1>2, <1>3, <1>4, <1>5, <1>6, <3>1
      <3>2. QED
        BY <3>1 DEF Injective, Path
    <2>3. \A r, q \in manifest.records : r.role = q.role => r = q
      <3>1. \A r \in request.records : r.digest = r.role
        BY <1>0 DEF SourceHas
      <3>2. QED
        BY <1>2, <3>1
    <2>4. manifest.records # {}
      BY <1>0, <1>2 DEF SourceHas
    <2>5. \A entry \in manifest.entries : entry.size \in 1..MaxEntry
      BY <1>0, <1>1, <1>2, <1>3, <1>4, <1>8
    <2>6. Total(manifest.entries) <= MaxTotal
      BY <1>0, <1>15
    <2>7. Path(input) = <<"root", "verified-input">>
      BY <1>3 DEF Path
    <2>8. QED
      BY <1>16, <2>1, <2>2, <2>3, <2>4, <2>5, <2>6, <2>7 DEF ValidManifest, Injective
  <1>19. QED
    BY <1>0, <1>11, <1>12, <1>13, <1>14, <1>17, <1>18 DEF Accepts, manifest, objects

\* The packages of a release are as many as its lock has, the root apart.
LEMMA DerivedAre ==
    ASSUME NEW release, IsFiniteSet(DOMAIN release.lock \ {Root})
    PROVE  IsFiniteSet(Derived(release))
  <1> DEFINE N == DOMAIN release.lock \ {Root}
             f == [l \in N |->
                    [locator |-> l, version |-> release.lock[l].version,
                     url |-> release.archives[l].url, digest |-> release.archives[l].digest,
                     size |-> release.archives[l].size,
                     pruned |-> release.lock[l].excludes \cup release.declared[l].excludes]]
  <1>1. Derived(release) = {f[l] : l \in N} /\ DOMAIN f = N
    BY DEF Derived
  <1> HIDE DEF f, N
  <1>2. IsFiniteSet(N)
    BY DEF N
  <1>3. QED
    BY <1>1, <1>2, ImageIs

\* The files of the objects of a set.
LEMMA FilesOfList ==
    ASSUME NEW S, IsFiniteSet(S), NEW n, NEW t, n \in Nat, t \in Nat, Few(S, n, t)
    PROVE  /\ Few(ObjectFiles(SetToSeq(S)), n, t)
           /\ IsList(SetToSeq(S)) /\ Len(SetToSeq(S)) <= n
           /\ \A i \in DOMAIN SetToSeq(S) : SetToSeq(S)[i] \in S
           /\ S # {} => SetToSeq(S) # <<>>
  <1> DEFINE s == SetToSeq(S)
             f == [x \in S |-> File("objects", x.digest, x.size)]
             m == Cardinality(S)
  <1>1. /\ s \in Seq(S) /\ Len(s) = m /\ m \in Nat /\ DOMAIN s = 1..m
        /\ {s[i] : i \in 1..m} = S
    BY SetToSeqIs
  <1> HIDE DEF s
  <1>2. ObjectFiles(s) = {f[x] : x \in S} /\ DOMAIN f = S /\ \A x \in S : f[x].size = x.size
    BY <1>1 DEF ObjectFiles, File
  <1> HIDE DEF f
  <1>3. Few(ObjectFiles(s), n, t)
    BY <1>2, FewOfImage
  <1>4. m <= n
    BY DEF Few
  <1>5. S # {} => s # <<>>
    <2>1. S # {} => m # 0
      BY FS_EmptySet
    <2>2. QED
      BY <1>1, <2>1
  <1>6. QED
    BY <1>1, <1>3, <1>4, <1>5 DEF IsList, s

\* The records of an installer release that was replayed pass the preflight: their
\* archives are few enough, small enough, and one to a digest
\* (acquire_with_control, preflight_verified_bundle).
THEOREM ReplayedIsAccepted ==
    ASSUME NEW request, IsServed(request.served), Replays(request.recorded, request.served),
           NEW kind \in SourceKinds
    PROVE  Accepts(InstallerBundle(request, kind))
  <1> DEFINE packages == request.recorded
             served   == request.served
             Object(p) == [digest |-> p.digest, url |-> p.url, size |-> p.size, intact |-> TRUE]
             objects  == {Object(p) : p \in packages}
             bundle   == InstallerBundle(request, kind)
  <1>0. /\ Cardinality(packages) \in 1..MaxPackages /\ Total(packages) <= MaxInstaller
        /\ \A p \in packages : p.size > 0
        /\ Coherent(packages) /\ Derived(served) = packages /\ Derives(served)
    BY DEF Replays, RecordsValid, Total
  <1>1. /\ MaxPackages \in Nat /\ MaxInstaller \in Nat /\ MaxEntry \in Nat
        /\ MaxPackages + 4 <= MaxEntries /\ MaxPackages + 4 <= MaxManifest /\ MaxPackages <= MaxEntry
        /\ MaxInstaller <= MaxEntry /\ MaxInstaller + MaxPackages + 3 <= MaxTotal
    BY RoomAssumption, RulesAssumption
  <1>2. IsFiniteSet(packages)
    <2>1. IsFiniteSet(DOMAIN served.lock \ {Root})
      BY FS_Difference DEF IsServed
    <2>2. QED
      BY <1>0, <2>1, DerivedAre
  <1>3. ASSUME NEW p \in packages
        PROVE  \E l \in DOMAIN served.lock \ {Root} :
                  /\ p.locator = l /\ p.version = served.lock[l].version
                  /\ p.digest = served.archives[l].digest /\ p.size = served.archives[l].size
    BY <1>0 DEF Derived
  <1>4. \A p \in packages : p.size \in Nat
    BY <1>3 DEF IsServed
  <1>5. ASSUME NEW p \in packages, NEW q \in packages, p.digest = q.digest
        PROVE  p.url = q.url /\ p.size = q.size
    <2> PICK l \in DOMAIN served.lock \ {Root} :
            /\ p.locator = l /\ p.version = served.lock[l].version
            /\ p.digest = served.archives[l].digest /\ p.size = served.archives[l].size
      BY <1>3
    <2> PICK m \in DOMAIN served.lock \ {Root} :
            /\ q.locator = m /\ q.version = served.lock[m].version
            /\ q.digest = served.archives[m].digest /\ q.size = served.archives[m].size
      BY <1>3
    <2>1. /\ served.archives[l].size = served.archives[m].size /\ Last(l) = Last(m)
          /\ served.declared[l].version = served.declared[m].version
      <3>1. /\ DOMAIN served.archives = DOMAIN served.lock \ {Root}
            /\ \A x, y \in DOMAIN served.archives :
                  served.archives[x].digest = served.archives[y].digest =>
                      /\ served.archives[x].size = served.archives[y].size
                      /\ Last(x) = Last(y) /\ served.declared[x].version = served.declared[y].version
        BY DEF IsServed
      <3>2. served.archives[l].digest = served.archives[m].digest
        BY <1>5
      <3> HIDE DEF served
      <3>3. QED
        BY <3>1, <3>2
    <2>2. /\ served.declared[l].version = served.lock[l].version
          /\ served.declared[m].version = served.lock[m].version
      BY <1>0 DEF Derives, PackageValid
    <2>3. Last(p.locator) = Last(q.locator) /\ p.version = q.version
      BY <2>1, <2>2
    <2>4. p.url = q.url
      BY <1>0, <2>3 DEF Coherent
    <2>5. QED
      BY <2>1, <2>4
  <1>6. Few(packages, MaxPackages, MaxInstaller)
    <2>1. OfSizes(packages)
      BY <1>2, <1>4 DEF OfSizes
    <2>2. Total(packages) \in Nat
      BY <2>1, TotalIsOfAny DEF TotalWithout
    <2>3. Cardinality(packages) \in Nat /\ Cardinality(packages) <= MaxPackages
      BY <1>0
    <2>4. QED
      BY <1>0, <2>1, <2>2, <2>3 DEF Few
  <1>7. \A p \in packages : p.size <= MaxInstaller
    <2>1. OfSizes(packages) /\ Total(packages) \in Nat
      BY <1>6 DEF Few
    <2>2. ASSUME NEW p \in packages PROVE p.size <= Total(packages)
      BY <1>4, <2>1, TotalGrows
    <2>3. QED
      BY <1>0, <1>1, <1>4, <2>1, <2>2
  <1>8. Few(objects, MaxPackages, MaxInstaller)
    <2> DEFINE f == [p \in packages |-> Object(p)]
    <2>1. objects = {f[p] : p \in packages} /\ DOMAIN f = packages /\ \A p \in packages : f[p].size = p.size
      OBVIOUS
    <2> HIDE DEF f, objects
    <2>2. QED
      BY <1>1, <1>6, <2>1, FewOfImage
  <1>9. bundle.objects = SetToSeq(objects) /\ bundle.kind = kind /\ bundle.records = SourceRecords(kind)
        /\ bundle.claims = (kind = "catalog_source")
    BY DEF InstallerBundle
  <1>10. /\ \A o \in objects : o.size \in 1..MaxEntry /\ o.intact
         /\ \A o, u \in objects : o.digest = u.digest => o = u
    <2>1. \A o \in objects : o.size \in 1..MaxEntry /\ o.intact
      BY <1>0, <1>1, <1>4, <1>7
    <2>2. ASSUME NEW p \in packages, NEW q \in packages, Object(p).digest = Object(q).digest
          PROVE  Object(p) = Object(q)
      <3>1. p.digest = q.digest
        BY <2>2
      <3>2. p.url = q.url /\ p.size = q.size
        BY <1>5, <3>1
      <3>3. QED
        BY <3>1, <3>2
    <2> HIDE DEF packages, Object
    <2>3. \A o, u \in objects : o.digest = u.digest => o = u
      BY <2>2
    <2>4. QED
      BY <2>1, <2>3
  <1>11. objects # {}
    <2>1. packages # {}
      BY <1>0, FS_EmptySet
    <2>2. QED
      BY <2>1
  <1>12. IsFiniteSet(objects)
    BY <1>8 DEF Few, OfSizes
  <1>13. /\ Few(ObjectFiles(bundle.objects), MaxPackages, MaxInstaller)
         /\ IsList(bundle.objects) /\ Len(bundle.objects) <= MaxPackages
         /\ \A i \in DOMAIN bundle.objects : bundle.objects[i] \in objects
         /\ bundle.objects # <<>>
    <2> HIDE DEF objects, bundle
    <2>1. QED
      BY <1>1, <1>8, <1>9, <1>11, <1>12, FilesOfList
  <1> HIDE DEF objects, bundle
  <1>14. ValidObjects(bundle.objects)
    BY <1>10, <1>13 DEF ValidObjects
  <1>15. 1 <= MaxEntry
    BY <1>0, <1>1
  <1>16. HasRoom(bundle, MaxPackages, MaxInstaller)
    BY <1>1, <1>13, <1>14, <1>15 DEF HasRoom
  <1>17. Accepts(bundle)
    BY <1>1, <1>9, <1>16, RoomIsEnough
  <1>18. QED
    BY <1>17 DEF bundle

\* Four elements, then those of a list.
LEMMA AfterFour ==
    ASSUME NEW a, NEW b, NEW c, NEW d, NEW n, n \in Nat, NEW f, DOMAIN f = 1..n,
           f = [i \in 1..n |-> f[i]]
    PROVE  LET all == <<a, b, c, d>> \o f
           IN  /\ IsList(all) /\ Len(all) = n + 4
               /\ all[1] = a /\ all[2] = b /\ all[3] = c /\ all[4] = d
               /\ \A i \in 1..n : all[i + 4] = f[i]
  <1> DEFINE S == {f[i] : i \in 1..n}
             T == S \cup {a, b, c, d}
             all == <<a, b, c, d>> \o f
  <1>1. f \in Seq(S) /\ Len(f) = n
    <2>1. f \in [1..n -> S]
      OBVIOUS
    <2> HIDE DEF S
    <2>2. f \in Seq(S)
      BY <2>1, SeqDef
    <2>3. QED
      BY <2>2, LenProperties
  <1>2. <<a, b, c, d>> \in Seq(T) /\ f \in Seq(T) /\ Len(<<a, b, c, d>>) = 4
    BY <1>1
  <1> HIDE DEF T
  <1>3. /\ all \in Seq(T) /\ Len(all) = 4 + n
        /\ \A i \in 1..(4 + n) : all[i] = IF i <= 4 THEN <<a, b, c, d>>[i] ELSE f[i - 4]
    BY <1>1, <1>2, ConcatProperties
  <1> HIDE DEF all
  <1>4. all[1] = a /\ all[2] = b /\ all[3] = c /\ all[4] = d
    <2>1. /\ 1 \in 1..(4 + n) /\ 2 \in 1..(4 + n) /\ 3 \in 1..(4 + n) /\ 4 \in 1..(4 + n)
          /\ 1 <= 4 /\ 2 <= 4 /\ 3 <= 4 /\ 4 <= 4
      OBVIOUS
    <2>2. /\ all[1] = <<a, b, c, d>>[1] /\ all[2] = <<a, b, c, d>>[2]
          /\ all[3] = <<a, b, c, d>>[3] /\ all[4] = <<a, b, c, d>>[4]
      BY <1>3, <2>1
    <2>3. QED
      BY <2>2
  <1>5. ASSUME NEW i \in 1..n PROVE all[i + 4] = f[i]
    <2>1. i + 4 \in 1..(4 + n) /\ ~(i + 4 <= 4) /\ (i + 4) - 4 = i
      OBVIOUS
    <2>2. QED
      BY <1>3, <2>1
  <1>6. IsList(all)
    BY <1>3, LenProperties DEF IsList
  <1>7. QED
    BY <1>3, <1>4, <1>5, <1>6 DEF all

\* The packages that a discovery recorded, and what was fetched of them.
DiscoveredIs(request, n) ==
    LET locked == request.intent.locked
        inputs == request.inputs.locked
    IN  /\ n \in 1..MaxLocked /\ DOMAIN locked = 1..n /\ DOMAIN inputs = 1..n
        /\ \A i \in 1..n :
              /\ inputs[i].digest = locked[i].digest /\ inputs[i].url = locked[i].url
              /\ inputs[i].size \in Nat /\ inputs[i].size > 0
              /\ inputs[i].size = request.served.archives[locked[i].url].size
LEMMA DiscoveredRecords ==
    ASSUME NEW served, DiscoversPi(served), IsGraphRequest(DiscoveredRequest(served))
    PROVE  DiscoveredIs(DiscoveredRequest(served), Len(DiscoveredRequest(served).intent.locked))
  <1> DEFINE request == DiscoveredRequest(served)
             intent  == IntentOf(served)
             inputs  == Observed(intent, served)
             locked  == intent.locked
             n       == Len(locked)
  <1>1. request.intent = intent /\ request.inputs = inputs /\ request.served = served
    BY DEF DiscoveredRequest
  <1>2. n \in Nat /\ DOMAIN locked = 1..n
    BY DEF IsGraphRequest, DiscoveredRequest
  <1>3. Observes(intent, served)
    BY DEF DiscoversPi
  <1>4. n \in 1..MaxLocked /\ LockedFetched(intent, served) /\ InputsValid(inputs)
    BY <1>3 DEF Observes
  <1>5. InStep(intent, served.lock) = DOMAIN locked
    BY DEF InStep, IntentOf
  <1>6. DOMAIN inputs.locked = DOMAIN locked
    BY <1>5 DEF Observed
  <1>7. ASSUME NEW i \in 1..n
        PROVE  /\ inputs.locked[i].digest = locked[i].digest /\ inputs.locked[i].url = locked[i].url
               /\ inputs.locked[i].size = served.archives[locked[i].url].size
    <2>1. i \in InStep(intent, served.lock)
      BY <1>2, <1>5
    <2> HIDE DEF intent
    <2>2. QED
      BY <2>1 DEF Observed
  <1>8. ASSUME NEW i \in 1..n
        PROVE  inputs.locked[i].size \in Nat /\ inputs.locked[i].size > 0
    <2>1. i \in DOMAIN inputs.locked
      BY <1>2, <1>6
    <2>2. inputs.locked[i].size > 0
      BY <1>4, <2>1 DEF InputsValid
    <2>3. locked[i].url \in DOMAIN served.archives
      BY <1>2, <1>4 DEF LockedFetched
    <2>4. served.archives[locked[i].url].size \in Nat
      <3>1. \A url \in DOMAIN served.archives : served.archives[url].size \in Nat
        BY <1>1 DEF IsGraphRequest
      <3>2. QED
        BY <2>3, <3>1
    <2>5. QED
      BY <1>7, <2>2, <2>4
  <1> HIDE DEF intent, inputs
  <1>9. QED
    BY <1>1, <1>2, <1>4, <1>6, <1>7, <1>8 DEF DiscoveredIs

\* The archives that were fetched, as files.
LEMMA ArchivesAre ==
    ASSUME NEW request, NEW n, DiscoveredIs(request, n)
    PROVE  Few(Archives(request.inputs), MaxLocked, Total(Archives(request.inputs)))
  <1> DEFINE locked == request.inputs.locked
             f == [i \in 1..n |-> File("objects", locked[i].digest, locked[i].size)]
             files == Archives(request.inputs)
  <1>1. n \in 1..MaxLocked /\ DOMAIN locked = 1..n /\ \A i \in 1..n : locked[i].size \in Nat
    BY DEF DiscoveredIs
  <1>2. files = {f[i] : i \in 1..n} /\ DOMAIN f = 1..n /\ \A file \in files : file.size \in Nat
    BY <1>1 DEF Archives, File
  <1>3. n \in Nat /\ MaxLocked \in Nat /\ n <= MaxLocked
    BY <1>1, RoomAssumption
  <1>4. IsFiniteSet(1..n) /\ Cardinality(1..n) = n
    <2> HIDE DEF f, files
    <2>1. 1 \in Int /\ n \in Int /\ ~(1 > n)
      BY <1>1, <1>3
    <2>2. Cardinality(1..n) = n - 1 + 1
      BY <2>1, FS_Interval
    <2>3. QED
      BY <1>3, <2>1, <2>2, FS_Interval
  <1> HIDE DEF f, files, locked
  <1>5. IsFiniteSet(files) /\ Cardinality(files) <= n /\ Cardinality(files) \in Nat
    BY <1>2, <1>4, ImageIs, FS_CardinalityType
  <1>6. OfSizes(files)
    BY <1>2, <1>5 DEF OfSizes
  <1>7. Total(files) \in Nat
    BY <1>6, TotalIsOfAny DEF TotalWithout
  <1>8. Few(files, MaxLocked, Total(files))
    BY <1>3, <1>5, <1>6, <1>7 DEF Few
  <1>9. QED
    BY <1>8 DEF files

\* What a discovery recorded can be written.
LEMMA DiscoveredIsAccepted ==
    ASSUME NEW served, DiscoversPi(served), IsGraphRequest(DiscoveredRequest(served)),
           FitsBundle(DiscoveredRequest(served)), NEW kind \in SourceKinds
    PROVE  Accepts(GraphBundle(DiscoveredRequest(served), kind))
  <1> DEFINE request == DiscoveredRequest(served)
             locked  == request.intent.locked
             inputs  == request.inputs.locked
             n       == Len(locked)
             root    == request.intent.root
             bundle  == GraphBundle(request, kind)
             archives == Archives(request.inputs)
             Small(d) == [digest |-> d, url |-> d, size |-> 1, intact |-> TRUE]
             Object(i) == [digest |-> locked[i].digest, url |-> locked[i].url,
                           size |-> inputs[i].size, intact |-> TRUE]
             list    == [i \in DOMAIN locked |-> Object(i)]
             all     == <<Small("node"), Small(root), Small("manifest"), Small("shrinkwrap")>> \o list
             own     == {"node", root, "manifest", "shrinkwrap"}
  <1>1. DiscoveredIs(request, n)
    BY DiscoveredRecords
  <1>2. /\ bundle.objects = all /\ bundle.kind = kind /\ bundle.records = SourceRecords(kind)
        /\ bundle.claims = (kind = "catalog_source")
    BY DEF GraphBundle
  <1>3. /\ \A i, j \in DOMAIN inputs : inputs[i].digest = inputs[j].digest => inputs[i].url = inputs[j].url
        /\ \A i \in DOMAIN inputs : inputs[i].digest \notin own /\ inputs[i].size <= MaxEntry
        /\ Total(archives) + MaxLocked + 11 <= MaxTotal
    BY DEF FitsBundle
  <1>4. Few(archives, MaxLocked, Total(archives))
    BY <1>1, ArchivesAre
  <1> HIDE DEF bundle, n, request
  <1>5. /\ n \in 1..MaxLocked /\ DOMAIN locked = 1..n /\ DOMAIN inputs = 1..n
        /\ \A i \in 1..n : /\ inputs[i].digest = locked[i].digest /\ inputs[i].url = locked[i].url
                           /\ inputs[i].size \in Nat /\ inputs[i].size > 0
                           /\ inputs[i].size = request.served.archives[locked[i].url].size
    BY <1>1 DEF DiscoveredIs
  <1> HIDE DEF locked, inputs, archives, root
  <1>6. /\ IsList(all) /\ Len(all) = n + 4
        /\ all[1] = Small("node") /\ all[2] = Small(root) /\ all[3] = Small("manifest")
        /\ all[4] = Small("shrinkwrap")
        /\ \A i \in 1..n : all[i + 4] = Object(i)
    <2>1. n \in Nat /\ DOMAIN list = 1..n
      BY <1>5, RoomAssumption
    <2>2. \A i \in 1..n : list[i] = Object(i)
      BY <1>5
    <2>3. list = [i \in 1..n |-> list[i]]
      BY <1>5
    <2> HIDE DEF list, Small, Object
    <2>4. QED
      BY <2>1, <2>2, <2>3, AfterFour
  <1>7. n \in Nat /\ MaxLocked \in Nat /\ MaxEntry \in Nat /\ n <= MaxLocked /\ 1 <= MaxEntry
        /\ MaxLocked + 8 <= MaxEntries /\ MaxLocked + 8 <= MaxManifest /\ MaxLocked + 4 <= MaxEntry
    BY <1>5, RoomAssumption, RulesAssumption
  <1> HIDE DEF all, list
  <1>8. ASSUME NEW k \in DOMAIN all
        PROVE  (\E d \in own : all[k] = Small(d)) \/ (\E i \in 1..n : all[k] = Object(i))
    <2>1. k \in 1..(n + 4)
      BY <1>6 DEF IsList
    <2>2. k = 1 \/ k = 2 \/ k = 3 \/ k = 4 \/ (k - 4 \in 1..n /\ (k - 4) + 4 = k)
      BY <1>7, <2>1
    <2> HIDE DEF Small, Object
    <2>3. CASE k = 1 \/ k = 2 \/ k = 3 \/ k = 4
      BY <1>6, <2>3
    <2>4. CASE k - 4 \in 1..n /\ (k - 4) + 4 = k
      <3>1. all[(k - 4) + 4] = Object(k - 4)
        BY <1>6, <2>4
      <3>2. QED
        BY <2>4, <3>1
    <2>5. QED
      BY <2>2, <2>3, <2>4
  <1>9. ValidObjects(all)
    <2>1. all # <<>>
      BY <1>6, <1>7, EmptySeq
    <2>2. \A k \in DOMAIN all : all[k].size \in 1..MaxEntry /\ all[k].intact
      BY <1>3, <1>5, <1>7, <1>8
    <2>3. ASSUME NEW i \in 1..n, NEW j \in 1..n, Object(i).digest = Object(j).digest
          PROVE  Object(i) = Object(j)
      <3>1. inputs[i].digest = inputs[j].digest
        BY <1>5, <2>3
      <3>2. locked[i].url = locked[j].url
        BY <1>3, <1>5, <3>1
      <3>3. inputs[i].size = inputs[j].size
        BY <1>5, <3>2
      <3>4. QED
        BY <2>3, <3>2, <3>3
    <2>4. ASSUME NEW i \in 1..n PROVE Object(i).digest \notin own
      BY <1>3, <1>5
    <2>5. \A d : Small(d).digest = d
      OBVIOUS
    <2> HIDE DEF Small, Object, own
    <2>6. \A k, m \in DOMAIN all : all[k].digest = all[m].digest => all[k] = all[m]
      BY <1>8, <2>3, <2>4, <2>5
    <2>7. QED
      BY <2>1, <2>2, <2>6 DEF ValidObjects
  <1>10. ObjectFiles(all) = {File("objects", d, 1) : d \in own} \cup archives
    <2> DEFINE OfOwn == {File("objects", d, 1) : d \in own}
    <2>1. \A d : File("objects", Small(d).digest, Small(d).size) = File("objects", d, 1)
      OBVIOUS
    <2>2. \A i \in 1..n : File("objects", Object(i).digest, Object(i).size)
                            = File("objects", inputs[i].digest, inputs[i].size)
      BY <1>5
    <2>3. archives = {File("objects", inputs[i].digest, inputs[i].size) : i \in 1..n}
      BY <1>5 DEF Archives, archives, inputs
    <2>4. ASSUME NEW d \in own PROVE \E k \in DOMAIN all : all[k] = Small(d)
      <3>1. 1 \in DOMAIN all /\ 2 \in DOMAIN all /\ 3 \in DOMAIN all /\ 4 \in DOMAIN all
        BY <1>6, <1>7 DEF IsList
      <3> HIDE DEF Small
      <3>2. QED
        BY <1>6, <2>4, <3>1
    <2>5. ASSUME NEW i \in 1..n PROVE \E k \in DOMAIN all : all[k] = Object(i)
      <3>1. i + 4 \in DOMAIN all
        BY <1>6, <1>7 DEF IsList
      <3> HIDE DEF Object
      <3>2. QED
        BY <1>6, <3>1
    <2>6. ObjectFiles(all) = {File("objects", all[k].digest, all[k].size) : k \in DOMAIN all}
      BY DEF ObjectFiles
    <2> HIDE DEF Small, Object, own
    <2>7. ObjectFiles(all) \subseteq OfOwn \cup archives
      BY <1>8, <2>1, <2>2, <2>3, <2>6
    <2>8. OfOwn \subseteq ObjectFiles(all)
      BY <2>1, <2>4, <2>6
    <2>9. archives \subseteq ObjectFiles(all)
      BY <2>2, <2>3, <2>5, <2>6
    <2>10. QED
      BY <2>7, <2>8, <2>9
  <1>11. Few({File("objects", d, 1) : d \in own}, 4, 4)
    <2> DEFINE F(d) == File("objects", d, 1)
    <2>1. ASSUME NEW d PROVE Few({F(d)}, 1, 1)
      <3>1. F(d).size = 1
        BY DEF File
      <3> HIDE DEF F
      <3>2. QED
        BY <3>1, FewOfOne
    <2>2. {File("objects", d, 1) : d \in own}
            = ({F("node")} \cup {F(root)}) \cup ({F("manifest")} \cup {F("shrinkwrap")})
      OBVIOUS
    <2> HIDE DEF F
    <2>3. /\ Few({F("node")} \cup {F(root)}, 1 + 1, 1 + 1)
          /\ Few({F("manifest")} \cup {F("shrinkwrap")}, 1 + 1, 1 + 1)
      BY <2>1, FewOfBoth
    <2>4. /\ Few({F("node")} \cup {F(root)}, 2, 2)
          /\ Few({F("manifest")} \cup {F("shrinkwrap")}, 2, 2)
      BY <2>3
    <2>5. Few(({F("node")} \cup {F(root)}) \cup ({F("manifest")} \cup {F("shrinkwrap")}), 2 + 2, 2 + 2)
      BY <2>4, FewOfBoth
    <2>6. QED
      BY <2>2, <2>5
  <1>12. Few(ObjectFiles(all), MaxLocked + 4, Total(archives) + 4)
    <2> DEFINE t == Total(archives)
               small == {File("objects", d, 1) : d \in own}
    <2>1. t \in Nat /\ Few(archives, MaxLocked, t) /\ Few(small, 4, 4)
      BY <1>4, <1>11 DEF Few
    <2> HIDE DEF t, small
    <2>2. Few(small \cup archives, 4 + MaxLocked, 4 + t)
      BY <1>7, <2>1, FewOfBoth
    <2>3. 4 + MaxLocked = MaxLocked + 4 /\ 4 + t = t + 4
      BY <1>7, <2>1
    <2>4. QED
      BY <1>10, <2>2, <2>3 DEF t, small
  <1>13. Total(archives) \in Nat
    BY <1>4 DEF Few
  <1>14. HasRoom(bundle, MaxLocked + 4, Total(archives) + 4)
    <2>1. /\ (MaxLocked + 4) + 4 <= MaxEntries /\ (MaxLocked + 4) + 4 <= MaxManifest
          /\ MaxLocked + 4 <= MaxEntry
          /\ (Total(archives) + 4) + (MaxLocked + 4) + 3 <= MaxTotal /\ n + 4 <= MaxLocked + 4
      <3> DEFINE t == Total(archives)
      <3>1. t \in Nat /\ t + MaxLocked + 11 <= MaxTotal /\ MaxTotal \in Nat /\ MaxEntries \in Nat
            /\ MaxManifest \in Nat
        BY <1>3, <1>13, RulesAssumption
      <3> HIDE DEF t
      <3>2. (t + 4) + (MaxLocked + 4) + 3 <= MaxTotal
        BY <1>7, <3>1
      <3>3. (MaxLocked + 4) + 4 <= MaxEntries /\ (MaxLocked + 4) + 4 <= MaxManifest
        BY <1>7, <3>1
      <3>4. QED
        BY <1>7, <3>2, <3>3 DEF t
    <2>2. QED
      BY <1>2, <1>6, <1>7, <1>9, <1>12, <2>1 DEF HasRoom
  <1>15. Accepts(bundle)
    <2> DEFINE a == MaxLocked + 4
               b == Total(archives) + 4
    <2>1. a \in Nat /\ b \in Nat /\ HasRoom(bundle, a, b)
      BY <1>7, <1>13, <1>14
    <2> HIDE DEF a, b
    <2>2. QED
      BY <1>2, <2>1, RoomIsEnough
  <1>16. QED
    BY <1>15 DEF bundle, request

-----------------------------------------------------------------------------
(* What the worker is given                                                *)

\* What the worker was given is what its checks let through.
Given == {"verified", "replayed", "write"}
GivenInv ==
    /\ WorkerAt("verified") => worker.bundle \in Verifiable
    /\ WorkerAt("replayed") => worker.bundle \in Replayable
    /\ WorkerAt("write") /\ ~Command("discover") =>
          Accepts(worker.bundle) /\ IsList(worker.bundle.objects)

\* A process has one command.
LEMMA CommandKept ==
    ASSUME AcqInv, [Next]_vars
    PROVE  caller'.command = caller.command
  <1>1. caller \in CallerRecord
    BY DEF AcqInv, AcqTyped
  <1>2. ASSUME NEW pc, CallerTo(pc) PROVE caller'.command = caller.command
    BY <1>1, <1>2 DEF CallerTo, CallerRecord
  <1>3. ASSUME NEW result, Return(result) PROVE caller'.command = caller.command
    BY <1>1, <1>3 DEF Return, CallerRecord
  <1>4. ASSUME caller' = NextFetch PROVE caller'.command = caller.command
    BY <1>1, <1>4 DEF NextFetch, CallerRecord
  <1>5. ASSUME GiveUp PROVE caller'.command = caller.command
    BY <1>1, <1>5 DEF GiveUp, CallerRecord
  <1>6. CASE CallerStep
    <2>1. CASE StartFetch
      BY <1>2, <1>3, <1>4, <2>1 DEF StartFetch
    <2>2. CASE Interrupt
      BY <1>3, <2>2 DEF Interrupt
    <2>3. CASE Refused
      BY <1>3, <2>3 DEF Refused
    <2>4. CASE Answered
      BY <1>2, <2>4 DEF Answered
    <2>5. CASE EndOfBody
      BY <1>2, <1>3, <2>5 DEF EndOfBody
    <2>6. CASE Settle
      BY <1>2, <2>6 DEF Settle
    <2>7. ASSUME NEW next \in Urls, NEW form \in LocationForms, Redirected(next, form)
          PROVE  caller'.command = caller.command
      BY <1>3, <2>7 DEF Redirected
    <2>8. ASSUME NEW exact \in BOOLEAN, Chunk(exact) PROVE caller'.command = caller.command
      <3>1. CASE Return("error")
        BY <1>3, <3>1
      <3>2. CASE caller' = [caller EXCEPT !.got = @ + 1, !.exact = @ /\ exact]
        BY <1>1, <3>2 DEF CallerRecord
      <3>3. QED
        BY <2>8, <3>1, <3>2 DEF Chunk
    <2>9. CASE StartBundle
      BY <1>2, <1>3, <2>9 DEF StartBundle
    <2>10. CASE Register
      BY <1>2, <2>10 DEF Register
    <2>11. CASE Select
      BY <1>2, <1>5, <2>11 DEF Select
    <2>12. CASE Awake
      BY <1>2, <2>12 DEF Awake
    <2>13. CASE Offered
      BY <1>2, <1>5, <2>13 DEF Offered
    <2>14. CASE AwaitBundle
      BY <1>2, <1>5, <2>14 DEF AwaitBundle
    <2>15. CASE Join
      BY <1>2, <1>3, <1>4, <2>15 DEF Join, Accepted
    <2>16. CASE Reopen
      BY <1>3, <2>16 DEF Reopen
    <2>17. QED
      BY <1>6, <2>1, <2>2, <2>3, <2>4, <2>5, <2>6, <2>7, <2>8, <2>9, <2>10, <2>11, <2>12, <2>13,
         <2>14, <2>15, <2>16 DEF CallerStep
  <1>7. CASE WorkerStep
    BY <1>7 DEF WorkerStep, BeginObject, CheckObject, UndoObject, WorkerFails, WriteTree, VerifyTree,
                Offer, NotifyCaller, Lock, Load, Wait, Bind, Claim, Rename, SyncName, Quiet
  <1>8. CASE Prepare
    BY <1>8 DEF Prepare, BeginBundle, VerifyGraph, WriteGraph, ObserveInputs, ReplayInstaller,
                WriteInstaller, Quiet
  <1>9. CASE DropCaller \/ PowerLoss
    BY <1>2, <1>9 DEF DropCaller, PowerLoss
  <1>10. CASE Cancel \/ Expire \/ OtherOutput \/ UNCHANGED vars
    BY <1>10 DEF Cancel, Expire, OtherOutput, vars
  <1>11. QED
    BY <1>6, <1>7, <1>8, <1>9, <1>10 DEF Next

\* Only what a command does before its first write gives the worker a bundle.
LEMMA GivenBefore ==
    ASSUME AcqInv, [Next]_vars, ~Prepare
    PROVE  worker' = worker \/ worker'.pc \notin Given
  <1>1. worker = [pc |-> worker.pc, bundle |-> worker.bundle]
    BY DEF AcqInv, AcqTyped
  <1>2. ASSUME NEW pc, pc \notin Given, WorkerTo(pc)
        PROVE  worker'.pc \notin Given
    BY <1>1, <1>2 DEF WorkerTo
  <1>3. /\ "none" \notin Given /\ "begin" \notin Given /\ "lock" \notin Given /\ "failed" \notin Given
        /\ "linked" \notin Given /\ "undo" \notin Given /\ "mark" \notin Given /\ "verify" \notin Given
        /\ "notify" \notin Given /\ "load" \notin Given /\ "wait" \notin Given /\ "asleep" \notin Given
        /\ "ok" \notin Given /\ "bind" \notin Given /\ "claim" \notin Given /\ "rename" \notin Given
        /\ "sync" \notin Given /\ "dead" \notin Given
    BY DEF Given
  <1>4. ASSUME NEW from, NEW decision, Decide(from, decision)
        PROVE  worker' = worker \/ worker'.pc \notin Given
    BY <1>2, <1>3, <1>4 DEF Decide, Wake
  <1>5. ASSUME Abort PROVE worker' = worker \/ worker'.pc \notin Given
    BY <1>4, <1>5 DEF Abort
  <1>6. CASE CallerStep
    <2>1. CASE \/ StartFetch \/ Interrupt \/ Refused \/ Answered \/ EndOfBody
               \/ \E next \in Urls, form \in LocationForms : Redirected(next, form)
               \/ \E exact \in BOOLEAN : Chunk(exact)
               \/ Register \/ Awake \/ Reopen
      BY <2>1 DEF StartFetch, Interrupt, Refused, Answered, EndOfBody, Redirected, Chunk, Register,
                  Awake, Reopen
    <2>2. CASE Settle \/ StartBundle
      BY <1>2, <1>3, <2>2 DEF Settle, StartBundle
    <2>3. CASE Select
      BY <1>5, <2>3 DEF Select, GiveUp
    <2>4. CASE Offered
      BY <1>4, <1>5, <2>4 DEF Offered, GiveUp
    <2>5. CASE AwaitBundle
      BY <1>5, <2>5 DEF AwaitBundle, GiveUp
    <2>6. CASE Join
      BY <1>2, <1>3, <2>6 DEF Join
    <2>7. QED
      BY <1>6, <2>1, <2>2, <2>3, <2>4, <2>5, <2>6 DEF CallerStep
  <1>7. CASE WorkerStep
    <2>1. CASE BeginObject \/ CheckObject \/ UndoObject
      BY <1>2, <1>3, <2>1 DEF BeginObject, CheckObject, UndoObject
    <2>2. CASE WorkerFails \/ WriteTree \/ VerifyTree
      BY <1>2, <1>3, <2>2 DEF WorkerFails, WriteTree, VerifyTree
    <2>3. CASE Offer \/ NotifyCaller \/ Lock
      BY <1>2, <1>3, <2>3 DEF Offer, NotifyCaller, Lock
    <2>4. CASE Load \/ Wait \/ Bind
      BY <1>2, <1>3, <2>4 DEF Load, Wait, Bind
    <2>5. CASE Claim \/ Rename \/ SyncName
      BY <1>2, <1>3, <2>5 DEF Claim, Rename, SyncName, SyncParent
    <2>6. QED
      BY <1>7, <2>1, <2>2, <2>3, <2>4, <2>5 DEF WorkerStep
  <1>8. CASE DropCaller \/ PowerLoss
    BY <1>2, <1>3, <1>5, <1>8 DEF DropCaller, PowerLoss
  <1>9. CASE Cancel \/ Expire \/ OtherOutput \/ UNCHANGED vars
    BY <1>9 DEF Cancel, Expire, OtherOutput, vars
  <1>10. QED
    BY <1>6, <1>7, <1>8, <1>9 DEF Next

\* What a preflight lets through is given to the worker.
LEMMA GivenAtPreflight ==
    ASSUME AcqTyped, worker.pc \in {"begin", "verified", "replayed"},
           NEW request, Preflight(request), IsList(request.objects)
    PROVE  GivenInv'
  <1>1. CASE Accepts(request) /\ worker' = [pc |-> "write", bundle |-> request]
    BY <1>1 DEF GivenInv, WorkerAt
  <1>2. CASE WorkerTo("failed")
    <2>1. worker'.pc = "failed"
      BY <1>2 DEF AcqTyped, WorkerTo
    <2>2. QED
      BY <2>1 DEF GivenInv, WorkerAt
  <1>3. QED
    BY <1>1, <1>2 DEF Preflight, WorkerTo

\* The objects of a graph come in a list.
LEMMA GraphIsList ==
    ASSUME NEW id \in DOMAIN Graphs, NEW kind
    PROVE  IsList(GraphBundle(Graphs[id], kind).objects)
  <1> DEFINE locked == Graphs[id].intent.locked
             list   == [i \in DOMAIN locked |->
                          [digest |-> locked[i].digest, url |-> locked[i].url,
                           size |-> Graphs[id].inputs.locked[i].size, intact |-> TRUE]]
             first  == GraphBundle(Graphs[id], kind).objects
  <1>1. Len(locked) \in Nat /\ DOMAIN locked = 1..Len(locked)
    BY RequestAssumption DEF IsGraphRequest
  <1> DEFINE S == {list[i] : i \in DOMAIN list}
  <1>2. list \in Seq(S)
    <2> DEFINE n == Len(locked)
    <2>1. n \in Nat /\ DOMAIN list = 1..n
      BY <1>1
    <2> HIDE DEF n, list
    <2>2. list = [i \in DOMAIN list |-> list[i]]
      BY DEF list
    <2>3. list \in [1..n -> S]
      BY <2>1, <2>2
    <2> HIDE DEF S
    <2>4. QED
      BY <2>1, <2>3, SeqDef
  <1> HIDE DEF locked, list
  <1>3. \E a, b, c, d : GraphBundle(Graphs[id], kind).objects = <<a, b, c, d>> \o list
    BY DEF GraphBundle, list, locked
  <1> PICK a, b, c, d : GraphBundle(Graphs[id], kind).objects = <<a, b, c, d>> \o list
    BY <1>3
  <1> DEFINE T == S \cup {a, b, c, d}
  <1>4. <<a, b, c, d>> \in Seq(T) /\ list \in Seq(T)
    BY <1>2
  <1> HIDE DEF T, first
  <1>5. <<a, b, c, d>> \o list \in Seq(T)
    BY <1>4
  <1>6. IsList(<<a, b, c, d>> \o list)
    BY <1>5, LenProperties DEF IsList
  <1> QED
    BY <1>6

\* So are their objects, or fewer.
LEMMA ObjectsAre ==
    ASSUME NEW packages, IsFiniteSet(packages)
    PROVE  LET objects == {[digest |-> p.digest, url |-> p.url, size |-> p.size, intact |-> TRUE] :
                              p \in packages}
           IN  IsFiniteSet(objects) /\ Cardinality(objects) <= Cardinality(packages)
  <1> DEFINE f == [p \in packages |->
                      [digest |-> p.digest, url |-> p.url, size |-> p.size, intact |-> TRUE]]
             objects == {[digest |-> p.digest, url |-> p.url, size |-> p.size, intact |-> TRUE] :
                            p \in packages}
  <1>1. objects = {f[p] : p \in packages} /\ DOMAIN f = packages
    OBVIOUS
  <1> HIDE DEF f, objects
  <1>2. IsFiniteSet(objects) /\ Cardinality(objects) <= Cardinality(packages)
    BY <1>1, ImageIs
  <1>3. QED
    BY <1>2 DEF objects

\* The objects of an installer release too.
LEMMA InstallerIsList ==
    ASSUME NEW id \in Replayable, NEW kind
    PROVE  IsList(InstallerBundle(Installers[id], kind).objects)
  <1> DEFINE request == Installers[id]
             objects == {[digest |-> p.digest, url |-> p.url, size |-> p.size, intact |-> TRUE] :
                            p \in request.recorded}
  <1>1. id \in DOMAIN Installers /\ Derived(request.served) = request.recorded
    BY DEF Replayable, Replays
  <1>2. IsFiniteSet(DOMAIN request.served.lock \ {Root})
    BY <1>1, RequestAssumption, FS_Difference DEF IsServed
  <1>3. IsFiniteSet(request.recorded)
    BY <1>1, <1>2, DerivedAre
  <1>4. IsFiniteSet(objects)
    BY <1>3, ObjectsAre
  <1>5. InstallerBundle(request, kind).objects = SetToSeq(objects)
    BY DEF InstallerBundle
  <1> HIDE DEF objects
  <1>6. IsList(SetToSeq(objects))
    BY <1>4, SetToSeqIs, LenProperties DEF IsList
  <1> QED
    BY <1>5, <1>6

\* Every step keeps what is known of the bundle.
LEMMA StepKeepsGiven == AcqInv /\ GivenInv /\ [Next]_vars => GivenInv'
  <1> SUFFICES ASSUME AcqInv, GivenInv, [Next]_vars PROVE GivenInv'
    OBVIOUS
  <1>1. caller'.command = caller.command
    BY CommandKept
  <1>2. AcqTyped
    BY DEF AcqInv
  <1>3. ASSUME NEW request \in Bundles, BeginBundle(request) PROVE GivenInv'
    <2>1. IsList(request.objects) /\ Preflight(request) /\ worker.pc = "begin"
      BY <1>3, RequestAssumption DEF BeginBundle, WorkerAt
    <2>2. QED
      BY <1>2, <2>1, GivenAtPreflight
  <1>4. CASE VerifyGraph
    BY <1>4 DEF VerifyGraph, GivenInv, WorkerAt
  <1>5. CASE WriteGraph
    <2>1. worker.pc = "verified" /\ worker.bundle \in DOMAIN Graphs
      BY <1>5 DEF WriteGraph, GivenInv, WorkerAt, Verifiable
    <2>2. PICK kind \in SourceKinds : Preflight(GraphBundle(Graphs[worker.bundle], kind))
      BY <1>5 DEF WriteGraph
    <2>3. QED
      BY <1>2, <2>1, <2>2, GraphIsList, GivenAtPreflight
  <1>6. CASE ObserveInputs
    <2>1. Command("discover") /\ (WorkerTo("write") \/ WorkerTo("failed"))
      BY <1>6 DEF ObserveInputs
    <2>2. worker'.pc \in {"write", "failed"}
      BY <1>2, <2>1 DEF WorkerTo, AcqTyped
    <2>3. QED
      BY <1>1, <2>1, <2>2 DEF GivenInv, WorkerAt, Command
  <1>7. CASE ReplayInstaller
    BY <1>7 DEF ReplayInstaller, GivenInv, WorkerAt
  <1>8. CASE WriteInstaller
    <2>1. worker.pc = "replayed" /\ worker.bundle \in Replayable
      BY <1>8 DEF WriteInstaller, GivenInv, WorkerAt
    <2>2. CASE WorkerTo("failed")
      <3>1. worker'.pc = "failed"
        BY <1>2, <2>2 DEF WorkerTo, AcqTyped
      <3>2. QED
        BY <3>1 DEF GivenInv, WorkerAt
    <2>3. CASE \E kind \in SourceKinds : Preflight(InstallerBundle(Installers[worker.bundle], kind))
      BY <1>2, <2>1, <2>3, InstallerIsList, GivenAtPreflight
    <2>4. QED
      BY <1>8, <2>2, <2>3 DEF WriteInstaller
  <1>9. CASE ~Prepare
    <2>1. worker' = worker \/ worker'.pc \notin Given
      BY <1>9, GivenBefore
    <2>2. QED
      BY <1>1, <2>1 DEF GivenInv, Given, WorkerAt, Command
  <1>10. QED
    BY <1>3, <1>4, <1>5, <1>6, <1>7, <1>8, <1>9 DEF Prepare

\* Whatever the worker was given passed the check that stands before it, whichever
\* of caller and worker moved since (acquire_release, acquire_with_control,
\* write_verified_bundle).
THEOREM OnlyTheCheckedIsGiven == Spec => []GivenInv
  <1>1. Init => GivenInv
    BY DEF Init, GivenInv, WorkerAt
  <1>2. QED
    BY <1>1, StepKeepsGiven, PublicationIsDecided, PTL DEF Spec

\* A verified graph and a replayed installer release work: npm finds what is
\* required, in range and not ruled out, and unpacks what was verified
\* (derive_installer_release, verify_npm_graph, inspect_npm_archive, against the
\* documented meaning of npm's ranges and node's own lookup).
THEOREM TheVerifiedIsInstallable == Spec => []VerifiedIsInstallable
  <1>1. GivenInv => VerifiedIsInstallable
    <2> SUFFICES ASSUME GivenInv PROVE VerifiedIsInstallable
      OBVIOUS
    <2>1. ASSUME WorkerAt("replayed") PROVE worker.bundle \in Works
      <3>1. worker.bundle \in DOMAIN Installers /\ Derives(Installers[worker.bundle].served)
        BY <2>1 DEF GivenInv, Replayable, Replays
      <3>2. IsServed(Installers[worker.bundle].served)
        BY <3>1, RequestAssumption
      <3>3. QED
        BY <3>1, <3>2, DerivedInstalls DEF Works
    <2>2. ASSUME WorkerAt("verified") PROVE worker.bundle \in GraphWorks
      <3>1. worker.bundle \in DOMAIN Graphs /\ GraphVerifies(Graphs[worker.bundle])
        BY <2>2 DEF GivenInv, Verifiable
      <3>2. IsGraphRequest(Graphs[worker.bundle])
        BY <3>1, RequestAssumption
      <3>3. QED
        BY <3>1, <3>2, VerifiedWork DEF GraphWorks
    <2>3. QED
      BY <2>1, <2>2 DEF VerifiedIsInstallable
  <1>2. QED
    BY <1>1, OnlyTheCheckedIsGiven, PTL

\* Nothing is fetched in vain: what a discovery recorded verifies again and
\* passes the preflight, if it fits a bundle (FitsBundle, which discover_pi_release
\* does not see to); so does what an installer's replay comes to, whatever was
\* served; and a bundle that passed it is written, and accepted by the reader of
\* the written directory (verify_npm_graph, preflight_verified_bundle,
\* write_preflight_bundle, verify_transferred_bundle_root).
THEOREM NothingIsInVain ==
    ASSUME \A id \in AsDiscovered : FitsBundle(Graphs[id])
    PROVE  Spec => []NothingInVain
  <1>1. GivenInv => NothingInVain
    <2> SUFFICES ASSUME GivenInv PROVE NothingInVain
      OBVIOUS
    <2>1. ASSUME NEW id \in AsDiscovered
          PROVE  /\ id \in DOMAIN Graphs /\ DiscoversPi(Graphs[id].served)
                 /\ Graphs[id] = DiscoveredRequest(Graphs[id].served)
      BY DEF AsDiscovered
    <2>2. AsDiscovered \subseteq Verifiable
      <3>1. ASSUME NEW id \in AsDiscovered PROVE GraphVerifies(Graphs[id])
        <4>1. GraphVerifies(DiscoveredRequest(Graphs[id].served))
          BY <2>1, DiscoveredVerifies
        <4>2. QED
          BY <2>1, <4>1
      <3>2. QED
        BY <2>1, <3>1 DEF Verifiable
    <2>3. ASSUME NEW id \in AsDiscovered, NEW kind \in SourceKinds
          PROVE  Accepts(GraphBundle(Graphs[id], kind))
      <3> DEFINE served == Graphs[id].served
      <3>1. Graphs[id] = DiscoveredRequest(served) /\ DiscoversPi(served)
        BY <2>1
      <3>2. IsGraphRequest(Graphs[id]) /\ FitsBundle(Graphs[id])
        BY <2>1, RequestAssumption
      <3> HIDE DEF served
      <3>3. Accepts(GraphBundle(DiscoveredRequest(served), kind))
        BY <3>1, <3>2, DiscoveredIsAccepted
      <3>4. QED
        BY <3>1, <3>3
    <2>4. ASSUME WorkerAt("replayed"), NEW kind \in SourceKinds
          PROVE  Accepts(InstallerBundle(Installers[worker.bundle], kind))
      <3> DEFINE request == Installers[worker.bundle]
      <3>1. IsServed(request.served) /\ Replays(request.recorded, request.served)
        BY <2>4, RequestAssumption DEF GivenInv, Replayable
      <3> HIDE DEF request
      <3>2. Accepts(InstallerBundle(request, kind))
        BY <3>1, ReplayedIsAccepted
      <3>3. QED
        BY <3>2 DEF request
    <2>5. ASSUME WorkerAt("write"), ~Command("discover")
          PROVE  Writable(worker.bundle) /\ VerifyTransferred(Tree(worker.bundle))
      <3>1. Accepts(worker.bundle) /\ IsList(worker.bundle.objects)
        BY <2>5 DEF GivenInv
      <3>2. QED
        BY <3>1, AcceptedIsRead
    <2>6. QED
      BY <2>2, <2>3, <2>4, <2>5 DEF NothingInVain
  <1>2. QED
    BY <1>1, OnlyTheCheckedIsGiven, PTL

=============================================================================
