-------------------------------- MODULE NpmGraph --------------------------------
(***************************************************************************)
(* The older releases of Pi, whose own archive carries the shrinkwrap      *)
(* (catalog-acquire, npm.rs): the intent that discover_pi_release makes of *)
(* what the registry serves, the inputs that discover_package_inputs       *)
(* observes for an intent, and verify_npm_graph, which observes them again *)
(* before a bundle is written.  Pure operators.                            *)
(*                                                                         *)
(* A digest stands for both hashes of an archive.  `served' is a record of *)
(* the root archive, the shrinkwrap in it (as in InstallerGraph, with the  *)
(* URL and the integrity of each package, perhaps None), the archive at    *)
(* each URL, and the Node archive.                                         *)
(***************************************************************************)
EXTENDS InstallerGraph

CONSTANTS
    ByteOrder, \* the locators there may be, in the order of their bytes
    MaxLocked  \* 4096 in the code

\* Each once, and the root is none of them.
ASSUME OrderAssumption ==
    /\ Len(ByteOrder) \in Nat /\ DOMAIN ByteOrder = 1..Len(ByteOrder)
    /\ IsInjective(ByteOrder) /\ Root \notin Range(ByteOrder)

None == "none"

\* lock_package_records, without the root's.
Among(lock) ==
    LET among[n \in 0..Len(ByteOrder)] ==
            IF n = 0 THEN <<>>
            ELSE IF ByteOrder[n] \in DOMAIN lock THEN Append(among[n - 1], ByteOrder[n])
            ELSE among[n - 1]
    IN  among
Packages(lock) == Among(lock)[Len(ByteOrder)]

\* verify_complete_closure: what a package depends on is there, in whatever
\* version; peers are not looked for.
CompleteClosure(lock) ==
    /\ Cardinality(DOMAIN lock) \in 2..(MaxLocked + 1)
    /\ \A l \in DOMAIN lock : \A d \in lock[l].deps :
          d.kind \in {"dependency", "optional"} => Resolve(lock, l, d.name) # {}

-----------------------------------------------------------------------------
(* discover_pi_release                                                     *)

\* The record of a package that the intent gets.
LockedRecord(served, l) ==
    LET entry == served.lock[l]
    IN  [locator |-> l, version |-> entry.version, url |-> entry.url,
         digest |-> served.archives[entry.url].digest]

IntentOf(served) ==
    [version |-> served.root.version, root |-> served.root.digest,
     documents |-> served.root.documents, node |-> served.node,
     locked |-> [i \in DOMAIN Packages(served.lock) |->
                    LockedRecord(served, Packages(served.lock)[i])]]

\* An archive has the integrity the lock names or, where it names none, that
\* of the registry's own record of the package, which must name its URL.
IntegrityHolds(served, l) ==
    LET archive == served.archives[served.lock[l].url]
    IN  IF served.lock[l].integrity = None THEN archive.listed
        ELSE served.lock[l].integrity = archive.digest

-----------------------------------------------------------------------------
(* discover_package_inputs                                                 *)

\* verify_root_documents: the root archive is that of the intent, with its
\* manifest and shrinkwrap, and they are of one version.
RootValid(intent, served) ==
    /\ served.root.digest = intent.root /\ served.root.documents = intent.documents
    /\ served.root.version = intent.version
    /\ RootArchive(served.root.headers)

\* The records of the intent and of the shrinkwrap are gone through in step,
\* as far as the shorter of the two.
InStep(intent, lock) == DOMAIN intent.locked \cap DOMAIN Packages(lock)

\* verify_lock_records
LockAgrees(intent, lock) ==
    \A i \in InStep(intent, lock) :
        LET record == intent.locked[i]
            entry  == lock[record.locator]
        IN  /\ record.locator = Packages(lock)[i]
            /\ entry.version = record.version /\ entry.url = record.url
            /\ entry.integrity \in {None, record.digest}

\* A fetch comes to what the intent names, or fails.
LockedFetched(intent, served) ==
    \A i \in DOMAIN intent.locked :
        LET record == intent.locked[i]
        IN  record.url \in DOMAIN served.archives /\ served.archives[record.url].digest = record.digest

Reasons(entry, archive) == entry.excludes \cup archive.excludes

\* One package: its archive declares the locked version, and is ruled out
\* only if the lock has it as optional.
LockedValid(record, entry, archive) ==
    /\ NpmArchive(archive.policy, archive.headers)
    /\ archive.version = record.version
    /\ Reasons(entry, archive) = {} \/ entry.optional

\* PackageInputManifestV1; only what applies is counted, with the root.
Observed(intent, served) ==
    LET Input(record) ==
            LET archive == served.archives[record.url]
            IN  [locator |-> record.locator, version |-> record.version, url |-> record.url,
                 digest |-> record.digest, size |-> archive.size,
                 pruned |-> Reasons(served.lock[record.locator], archive)]
        inputs  == [i \in InStep(intent, served.lock) |-> Input(intent.locked[i])]
        applies == Cardinality({i \in DOMAIN inputs : inputs[i].pruned = {}})
    IN  [version |-> intent.version, root |-> served.root.digest,
         documents |-> served.root.documents, locked |-> inputs,
         applicable |-> applies, prePrune |-> applies + 1]

\* validate, of inputs that may have been written by anyone.
InputsValid(inputs) ==
    LET applies == Cardinality({i \in DOMAIN inputs.locked : inputs.locked[i].pruned = {}})
        Position(l) == CHOOSE k \in DOMAIN ByteOrder : ByteOrder[k] = l
    IN  /\ Len(inputs.locked) \in 1..MaxLocked
        /\ inputs.applicable = applies /\ inputs.prePrune = applies + 1
        /\ \A i \in DOMAIN inputs.locked : inputs.locked[i].size > 0
        /\ \A i, j \in DOMAIN inputs.locked :
              i < j => Position(inputs.locked[i].locator) < Position(inputs.locked[j].locator)

\* discover_package_inputs comes through.
Observes(intent, served) ==
    /\ Len(intent.locked) \in 1..MaxLocked
    /\ RootValid(intent, served)
    /\ LockedFetched(intent, served)
    /\ LockAgrees(intent, served.lock) /\ CompleteClosure(served.lock)
    /\ \A i \in InStep(intent, served.lock) :
          LET record == intent.locked[i]
          IN  LockedValid(record, served.lock[record.locator], served.archives[record.url])
    /\ InputsValid(Observed(intent, served))

\* validate_for_intent
InputsOf(intent, inputs) ==
    /\ InputsValid(inputs)
    /\ inputs.version = intent.version /\ inputs.root = intent.root
    /\ inputs.documents = intent.documents
    /\ Len(inputs.locked) = Len(intent.locked)
    /\ \A i \in DOMAIN inputs.locked :
          \A field \in DOMAIN intent.locked[i] : inputs.locked[i][field] = intent.locked[i][field]

\* discover_pi_release comes through.
DiscoversPi(served) ==
    LET intent == IntentOf(served)
    IN  /\ RootArchive(served.root.headers) /\ CompleteClosure(served.lock)
        /\ \A l \in DOMAIN served.lock \ {Root} : IntegrityHolds(served, l)
        /\ NodeArchive(served.node.root, served.node.headers)
        /\ Observes(intent, served)
        /\ InputsOf(intent, Observed(intent, served))

-----------------------------------------------------------------------------
(* acquire_release                                                         *)

\* What may be served of a release, and a request about it.
IsGraphRequest(request) ==
    LET lock == request.served.lock
    IN  /\ IsFiniteSet(DOMAIN lock) /\ Root \in DOMAIN lock
        /\ DOMAIN lock \ {Root} \subseteq Range(ByteOrder)
        /\ \A l \in DOMAIN lock : Len(l) \in Nat
        /\ \A url \in DOMAIN request.served.archives :
              IsArchive(request.served.archives[url]) /\ request.served.archives[url].size \in Nat
        /\ Len(request.intent.locked) \in Nat
        /\ DOMAIN request.intent.locked = 1..Len(request.intent.locked)

\* Every package of the intent has a size in the inputs (archive_size_for).
Sized(request) ==
    \A i \in DOMAIN request.intent.locked :
        LET l == request.intent.locked[i].locator
            inputs == {request.inputs.locked[k] : k \in DOMAIN request.inputs.locked}
        IN  \E input \in inputs :
               /\ input.locator = l
               /\ request.intent.locked[i].url \in DOMAIN request.served.archives
               /\ input.size = request.served.archives[request.intent.locked[i].url].size

\* verify_npm_graph, of an intent, inputs from another run, and what is
\* served now: the same observations are made again.
GraphVerifies(request) ==
    /\ Sized(request)
    /\ request.intent.node = request.served.node
    /\ NodeArchive(request.served.node.root, request.served.node.headers)
    /\ Observes(request.intent, request.served)
    /\ Observed(request.intent, request.served) = request.inputs

\* The request the wizard makes of a discovery.
DiscoveredRequest(served) ==
    [intent |-> IntentOf(served), inputs |-> Observed(IntentOf(served), served), served |-> served]

\* What an installation of the verified packages needs, for an intent that
\* has every package of the shrinkwrap, and flags as npm writes them: each
\* package was looked at, none that is needed is ruled out, every dependency
\* is found where node looks for it, and the archives unpack to what was
\* verified of them.
PackagesWork(request) ==
    LET lock     == request.served.lock
        observed == {request.inputs.locked[i] : i \in DOMAIN request.inputs.locked}
        locators == {p.locator : p \in observed}
        applies  == {p.locator : p \in {p \in observed : p.pruned = {}}}
        flagged  == \A l \in DOMAIN lock \ {Root} : lock[l].optional = (l \notin Needed(lock))
    IN  Len(request.intent.locked) >= Cardinality(DOMAIN lock) - 1 =>
            /\ locators = DOMAIN lock \ {Root}
            /\ flagged => Needed(lock) \subseteq applies \cup {Root}
            /\ \A l \in DOMAIN lock : \A d \in {d \in lock[l].deps : d.kind = "dependency"} :
                  Nearest(DOMAIN lock, l, d.name) # {}
            /\ \A p \in observed :
                  LET archive == request.served.archives[p.url]
                  IN  archive.digest = p.digest /\ KeepsWhatUnpacks(archive.policy, archive.headers)
=============================================================================
