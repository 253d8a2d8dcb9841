----------------------------- MODULE InstallerGraph -----------------------------
(***************************************************************************)
(* What catalog-installer-verify makes of an installer release: npm ranges,*)
(* the closure of the lock, the platform's pruning, the archives, and the  *)
(* records that name them (derive_installer_release,                       *)
(* PackageInputManifestV2, PiReleaseProfileV1).  Pure operators.           *)
(*                                                                         *)
(* A locator is the sequence of names in node_modules/a/node_modules/b.    *)
(* A package's declaration and its entry in the lock are records           *)
(* [version, deps, engine, excludes]: deps a set of [name, kind, range],   *)
(* excludes the selectors (os, cpu, libc) that rule the target out.        *)
(***************************************************************************)
EXTENDS ArchiveRules, FiniteSetsExt

CONSTANTS
    Pi,           \* the name of the Pi package
    NodeVersion,  \* 22.19.0
    MaxPackages,  \* 512 in the code
    MaxInstaller  \* 2 GiB in the code

-----------------------------------------------------------------------------
(* npm ranges                                                              *)

\* A version is <<major, minor, patch, pre>>: releases come after every
\* prerelease, and 0 before every other.
Release == 9
Version(a, b, c) == <<a, b, c, Release>>
IsRelease(v) == v[4] = Release

Below(v, w) ==
    \E i \in 1..4 : v[i] < w[i] /\ \A j \in 1..(i - 1) : v[j] = w[j]

\* A term is an operator and one to three numbers, the third perhaps with a
\* prerelease; a range a set (||) of sets of terms.
Term(op, at, pre) == [op |-> op, at |-> at, pre |-> pre]

\* What is read of a version and of a term: only a whole version has a
\* prerelease.
Operators == {"*", "^", "~", "=", "<", ">", "<=", ">="}
IsVersion(v) == v \in [1..4 -> Nat] /\ v[4] <= Release
IsTerm(term) ==
    /\ term.op \in Operators /\ term.at \in Seq(Nat)
    /\ term.op # "*" => Len(term.at) \in 1..3
    /\ term.pre \in 0..Release /\ (Len(term.at) < 3 => term.pre = Release)

Low(term) == [i \in 1..4 |-> IF i = 4 THEN term.pre
                             ELSE IF i <= Len(term.at) THEN term.at[i] ELSE 0]
\* The first version of the next interval at a position.
Upper(term, position, pre) ==
    [i \in 1..4 |-> CASE i = 4        -> pre
                      [] i < position -> Low(term)[i]
                      [] i = position -> Low(term)[i] + 1
                      [] OTHER        -> 0]

Comparator(op, version) == [op |-> op, version |-> version]
Interval(term, position) ==
    {Comparator(">=", Low(term)), Comparator("<", Upper(term, position, 0))}
Partial(term) == Len(term.at) < 3

\* Where a caret's interval ends: at the leftmost number that is not zero.
CaretPosition(term) ==
    IF term.at[1] # 0 \/ Len(term.at) = 1 THEN 1
    ELSE IF term.at[2] # 0 \/ Len(term.at) = 2 THEN 2
    ELSE 3

\* npm_comparators
Comparators(term) ==
    CASE term.op = "*" -> {}
      [] term.op = "^" -> Interval(term, CaretPosition(term))
      [] term.op = "~" -> Interval(term, IF Len(term.at) = 1 THEN 1 ELSE 2)
      [] term.op = "=" /\ Partial(term) -> Interval(term, Len(term.at))
      [] term.op = ">" /\ Partial(term) ->
             {Comparator(">=", Upper(term, Len(term.at), Release))}
      [] term.op = "<=" /\ Partial(term) ->
             {Comparator("<", Upper(term, Len(term.at), 0))}
      [] term.op = "<" /\ Partial(term) -> {Comparator("<", [Low(term) EXCEPT ![4] = 0])}
      [] OTHER -> {Comparator(term.op, Low(term))}

Holds(comparator, v) ==
    LET w == comparator.version
    IN  CASE comparator.op = ">=" -> ~Below(v, w)
          [] comparator.op = ">"  -> Below(w, v)
          [] comparator.op = "<"  -> Below(v, w)
          [] comparator.op = "<=" -> ~Below(w, v)
          [] comparator.op = "="  -> v = w

\* semver's VersionReq::matches: a prerelease only where a comparator names
\* one of the same version.
Matches(comparators, v) ==
    /\ \A c \in comparators : Holds(c, v)
    /\ IsRelease(v) \/ \E c \in comparators :
          ~IsRelease(c.version) /\ SubSeq(c.version, 1, 3) = SubSeq(v, 1, 3)

\* npm_range_matches
RangeMatches(range, v) ==
    \E terms \in range : Matches(UNION {Comparators(term) : term \in terms}, v)

-----------------------------------------------------------------------------
(* The graph                                                               *)

Root == <<>>

\* resolve: node_modules of the package, then of each package around it.
Candidates(locator, name) == [k \in 1..(Len(locator) + 1) |->
                                SubSeq(locator, 1, Len(locator) + 1 - k) \o <<name>>]
Resolve(records, locator, name) ==
    LET candidates == Candidates(locator, name)
        found == {k \in DOMAIN candidates : candidates[k] \in DOMAIN records}
    IN  IF found = {} THEN {} ELSE {candidates[Min(found)]}

\* optionalDependencies overrides the same name in dependencies.
Effective(deps) ==
    {d \in deps : d.kind = "dependency" =>
                     ~\E other \in deps : other.kind = "optional" /\ other.name = d.name}

Required(d) == d.kind \in {"dependency", "peer"}

\* dependency_edges: the dependencies of a record are all there, but for
\* optional peers, and in range; and where each leads.
EdgesValid(records, locator) ==
    \A d \in Effective(records[locator].deps) :
        /\ d.kind # "optional peer" => Resolve(records, locator, d.name) # {}
        /\ \A to \in Resolve(records, locator, d.name) :
              RangeMatches(d.range, records[to].version)
Edges(records, locator) ==
    UNION {{<<to, Required(d)>> : to \in Resolve(records, locator, d.name)} :
              d \in Effective(records[locator].deps)}

\* A slip: a package that turns out to be required is not gone through again.
NotAgain(reached, edge, required) ==
    IF edge[1] \in DOMAIN reached THEN <<>> ELSE <<<<edge[1], required>>>>

\* What an edge puts on the queue: a package not seen, or seen as optional
\* and now required.
Requeue(reached, edge, required) ==
    IF edge[1] \in DOMAIN reached /\ (reached[edge[1]] \/ ~required) THEN <<>>
    ELSE <<<<edge[1], required>>>>

\* A walk is what is reached (and whether by required edges alone) and the
\* queue; this is one edge of the package at its head.
Follow(walk, edge, required) ==
    LET before == edge[1] \in DOMAIN walk.reached /\ walk.reached[edge[1]]
    IN  [reached |-> Insert(walk.reached, edge[1], required \/ before),
         pending |-> walk.pending \o Requeue(walk.reached, edge, required)]

\* One turn of the loop of verify_closure, after each edge; then the whole.
Visits(walk, edges) ==
    LET at == Head(walk.pending)
        after[n \in 0..Len(edges)] ==
            IF n = 0 THEN [reached |-> walk.reached, pending |-> Tail(walk.pending)]
            ELSE Follow(after[n - 1], edges[n], at[2] /\ edges[n][2])
    IN  after
Turn(records, walk) ==
    IF walk.pending = <<>> THEN walk
    ELSE LET edges == SetToSeq(Edges(records, Head(walk.pending)[1]))
         IN  Visits(walk, edges)[Len(edges)]

\* The walk after each turn.  A package is queued at most twice.
Turns(records) == 2 * Cardinality(DOMAIN records)
Walk(records) ==
    LET walk[n \in 0..Turns(records)] ==
            IF n = 0 THEN [reached |-> Insert(<<>>, Root, TRUE), pending |-> <<<<Root, TRUE>>>>]
            ELSE Turn(records, walk[n - 1])
    IN  walk
Reached(records) == Walk(records)[Turns(records)].reached

\* verify_closure accepts: no package is out of reach.
ClosureValid(records) ==
    /\ \A locator \in DOMAIN Reached(records) : EdgesValid(records, locator)
    /\ DOMAIN Reached(records) = DOMAIN records
RequiredSet(records) == {locator \in DOMAIN Reached(records) : Reached(records)[locator]}

\* applicability_reasons
Pruned(release) ==
    {l \in DOMAIN release.lock \ {Root} :
        release.lock[l].excludes \cup release.declared[l].excludes # {}}

\* verify_applicable_closure: the lock says which packages are optional, none
\* that is required is pruned, nor one required by a package that is not.
Applicable(release) ==
    LET declared == release.declared
        pruned   == Pruned(release)
    IN  /\ ClosureValid(declared)
        /\ \A l \in DOMAIN declared \ {Root} :
              /\ release.lock[l].optional = (l \notin RequiredSet(declared))
              /\ l \in RequiredSet(declared) => l \notin pruned
              /\ l \notin pruned =>
                    \A edge \in Edges(declared, l) : edge[2] => edge[1] \notin pruned

\* verify_root_overrides: exact, and of every package of that name.
OverridesHold(release) ==
    \A o \in release.overrides :
        LET named == {l \in DOMAIN release.lock \ {Root} : Last(l) = o.name}
        IN  named # {} /\ \A l \in named : release.lock[l].version = o.version

\* check_engine
EngineAdmits(record) == record.engine = {} \/ RangeMatches(record.engine, NodeVersion)

-----------------------------------------------------------------------------
(* Discovery and its records                                               *)

\* What may be served of a release: a lock with its root, the declaration and
\* the archive of each of its packages.  A digest stands for one archive, which
\* declares one name and version.
IsServed(release) ==
    /\ IsFiniteSet(DOMAIN release.lock) /\ Root \in DOMAIN release.lock
    /\ \A l \in DOMAIN release.lock : Len(l) \in Nat
    /\ DOMAIN release.declared = DOMAIN release.lock
    /\ \A l \in DOMAIN release.declared :
          /\ IsVersion(release.declared[l].version)
          /\ \A d \in release.declared[l].deps : \A terms \in d.range : \A term \in terms : IsTerm(term)
    /\ DOMAIN release.archives = DOMAIN release.lock \ {Root}
    /\ \A l \in DOMAIN release.archives : IsArchive(release.archives[l]) /\ release.archives[l].size \in Nat
    /\ \A l, m \in DOMAIN release.archives :
          release.archives[l].digest = release.archives[m].digest =>
              /\ release.archives[l].size = release.archives[m].size
              /\ Last(l) = Last(m) /\ release.declared[l].version = release.declared[m].version

\* One locked package: no link, development or bundled package; the archive
\* declares what the lock says; the engine admits the Node version.
PackageValid(release, l) ==
    LET lock == release.lock[l]
        declared == release.declared[l]
    IN  /\ ~lock.foreign
        /\ NpmArchive(release.archives[l].policy, release.archives[l].headers)
        /\ declared.version = lock.version /\ declared.deps = lock.deps
        /\ EngineAdmits(declared) /\ EngineAdmits(lock)

PiValid(release) ==
    /\ <<Pi>> \in DOMAIN release.lock \ Pruned(release)
    /\ {d \in release.declared[Root].deps : d.name = Pi /\ d.kind = "dependency"} # {}

\* fetch_bounded: every locator's archive counts.
Fetched(release) ==
    MapThenSumSet(LAMBDA l : release.archives[l].size, DOMAIN release.archives)

\* Packages of one name and version are one archive.
Coherent(packages) ==
    \A p, q \in packages :
        Last(p.locator) = Last(q.locator) /\ p.version = q.version
            => p.url = q.url /\ p.digest = q.digest

\* The candidate: the profile's locked packages and the observed inputs.
Derived(release) ==
    {[locator |-> l, version |-> release.lock[l].version,
      url |-> release.archives[l].url, digest |-> release.archives[l].digest,
      size |-> release.archives[l].size,
      pruned |-> release.lock[l].excludes \cup release.declared[l].excludes] :
        l \in DOMAIN release.lock \ {Root}}

\* validate, validate_for_profile and the profile's own rules, of records that
\* may have been written by anyone.
RecordsValid(packages) ==
    /\ Cardinality(packages) \in 1..MaxPackages
    /\ \A p \in packages : p.size > 0
    /\ MapThenSumSet(LAMBDA p : p.size, packages) <= MaxInstaller
    /\ Coherent(packages)
    /\ \E p \in packages : p.locator = <<Pi>>
    /\ \A p, q \in packages : p.locator = q.locator => p = q

\* derive_installer_release
Derives(release) ==
    /\ Fetched(release) <= MaxInstaller
    /\ Cardinality(DOMAIN release.lock) \in 2..(MaxPackages + 1)
    /\ release.declared[Root].deps = release.lock[Root].deps
    /\ release.declared[Root].engine = release.lock[Root].engine
    /\ EngineAdmits(release.declared[Root])
    /\ ClosureValid(release.lock) /\ OverridesHold(release)
    /\ \A l \in DOMAIN release.lock \ {Root} : PackageValid(release, l)
    /\ Applicable(release) /\ PiValid(release)
    /\ NodeArchive(release.node.root, release.node.headers)
    /\ RecordsValid(Derived(release))

\* acquire_with_control: the records hold, what is served is what they name
\* (BoundTransport, which refuses any other), and a second discovery over it
\* comes to the same records.
Replays(recorded, served) ==
    /\ RecordsValid(recorded)
    /\ \A p \in recorded :
          p.locator \in DOMAIN served.archives
             => served.archives[p.locator].digest = p.digest
    /\ Derives(served) /\ Derived(served) = recorded

-----------------------------------------------------------------------------
(* What an installer needs: the reference for the above                    *)

\* node's own lookup: the package of the name nearest around the locator.
Nearest(locators, locator, name) ==
    LET around == {k \in 0..Len(locator) : SubSeq(locator, 1, k) \o <<name>> \in locators}
    IN  IF around = {} THEN {} ELSE {SubSeq(locator, 1, Max(around)) \o <<name>>}

\* The documented meaning of npm's operators.
Agrees(v, term, n) == \A i \in 1..n : v[i] = term.at[i]
InTerm(term, v) ==
    LET n       == Len(term.at)
        nonzero == {i \in 1..n : term.at[i] # 0}
        atLeast == ~Below(v, Low(term))
    IN  CASE term.op = "*"  -> TRUE
          [] term.op = "^"  -> atLeast /\ Agrees(v, term, IF nonzero = {} THEN n ELSE Min(nonzero))
          [] term.op = "~"  -> atLeast /\ Agrees(v, term, IF n = 1 THEN 1 ELSE 2)
          [] term.op = "="  -> Agrees(v, term, n) /\ (n = 3 => v[4] = term.pre)
          [] term.op = ">=" -> atLeast
          [] term.op = "<"  -> Below(v, Low(term)) /\ (n < 3 => ~Agrees(v, term, n))
          [] term.op = ">"  -> atLeast /\ v # Low(term) /\ (n < 3 => ~Agrees(v, term, n))
          [] term.op = "<=" -> ~Below(Low(term), v) \/ (n < 3 /\ Agrees(v, term, n))

InRange(range, v) ==
    \E terms \in range :
        /\ \A term \in terms : InTerm(term, v)
        /\ IsRelease(v) \/ \E term \in terms :
              term.pre # Release /\ SubSeq(v, 1, 3) = term.at

\* The packages every installation has: the least set with the root that is
\* closed under required dependencies.
NeededBy(records, l) ==
    UNION {Nearest(DOMAIN records, l, d.name) : d \in {d \in Effective(records[l].deps) : Required(d)}}
Needed(records) ==
    LET closed == {S \in SUBSET DOMAIN records :
                      Root \in S /\ \A l \in S : NeededBy(records, l) \subseteq S}
    IN  {l \in DOMAIN records : \A S \in closed : l \in S}

\* An installation of the release on the target works: npm's optional flags
\* and selectors leave nothing out that is needed, what is required is there
\* and in range, and each archive unpacks to what was verified of it.
Installable(release) ==
    LET declared  == release.declared
        installed == DOMAIN declared \ Pruned(release)
    IN  /\ Needed(declared) \subseteq installed
        /\ \A l \in DOMAIN declared \ {Root} : release.lock[l].optional = (l \notin Needed(declared))
        /\ \A l \in installed : \A d \in {d \in Effective(declared[l].deps) : Required(d)} :
              LET to == Nearest(DOMAIN declared, l, d.name)
              IN  to # {} /\ to \subseteq installed
                    /\ \A t \in to : InRange(d.range, declared[t].version)
        /\ \A l \in DOMAIN release.archives :
              KeepsWhatUnpacks(release.archives[l].policy, release.archives[l].headers)
=============================================================================
