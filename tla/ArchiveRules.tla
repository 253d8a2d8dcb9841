------------------------------ MODULE ArchiveRules ------------------------------
(***************************************************************************)
(* The tar archives of an installer release: what parse_tar accepts under  *)
(* the policy of an archive's digest, the facts it keeps of them, and, for *)
(* comparison, what unpacking the archive leaves.  A header is a record    *)
(* [type, path, fact]: its path a sequence of components, its fact what a  *)
(* file holds (with its mode) or where a link points.  Pure, no state.     *)
(***************************************************************************)
EXTENDS Integers, Sequences, FiniteSets, SequencesExt

CONSTANTS
    PinnedPaths,  \* the files of the archive known to have pax headers, in order (7 in the code)
    NodeLinks     \* the links of the Node archive below its root, each with its target (3)

ASSUME PinnedAssumption ==
    Len(PinnedPaths) \in Nat /\ \A k \in 1..Len(PinnedPaths) : PinnedPaths[k] # <<>>

Header(type, path, fact) == [type |-> type, path |-> path, fact |-> fact]

Components(path) == {path[i] : i \in DOMAIN path}
Dots(path)       == {i \in DOMAIN path : path[i] = "."}

\* safe_archive_path
SafePath(path) == path # <<>> /\ Components(path) \cap {"", ".", ".."} = {}

\* normalize_npm_path: one "." within the path makes it an alias.
Canonical(path) == SelectSeq(path, LAMBDA part : part # ".")
Alias(path)     == ~SafePath(path)
NormalPath(path) ==
    \/ SafePath(path)
    \/ /\ Components(path) \cap {"", ".."} = {}
       /\ Cardinality(Dots(path)) = 1 /\ Dots(path) \cap {1, Len(path)} = {}

\* A header cannot hold a long name: it has its beginning.
Beginning(path) == [path EXCEPT ![Len(path)] = "beginning"]

-----------------------------------------------------------------------------
(* Parsing                                                                 *)

Start == [ok |-> TRUE, zeros |-> 0, raw |-> {}, root |-> "none", members |-> 0, pax |-> 0,
          announced |-> <<>>, facts |-> <<>>, aliases |-> <<>>, links |-> <<>>]

Refuse(tar) == [tar EXCEPT !.ok = FALSE]

\* A map with one more entry, or with another value for one it has.
Insert(map, key, value) ==
    [k \in DOMAIN map \cup {key} |-> IF k = key THEN value ELSE map[k]]

\* A pax header or a GNU long name, each only where the policy knows it.
Announce(policy, tar, header) ==
    LET known == \/ /\ header.type = "pax" /\ policy = "pinned"
                    /\ tar.pax < Len(PinnedPaths) /\ header.path = PinnedPaths[tar.pax + 1]
                 \/ header.type = "long" /\ policy = "node" /\ header.path # <<>>
    IN  IF tar.announced = <<>> /\ known
        THEN [tar EXCEPT !.announced = header.path,
                         !.pax = IF header.type = "pax" THEN @ + 1 ELSE @]
        ELSE Refuse(tar)

\* validate_pax_following_header, validate_gnu_long_name_header.
FollowsAnnounced(policy, tar, header) ==
    tar.announced # <<>> =>
        header.path = IF policy = "node" THEN Beginning(tar.announced) ELSE tar.announced

RawPath(tar, header) == IF tar.announced = <<>> THEN header.path ELSE tar.announced

\* A directory's name ends in a slash.
RawName(tar, header) == <<header.type = "dir", RawPath(tar, header)>>

ValidMember(policy, tar, header) ==
    LET raw  == RawPath(tar, header)
        path == Canonical(raw)
    IN  /\ FollowsAnnounced(policy, tar, header)
        /\ RawName(tar, header) \notin tar.raw
        /\ IF policy = "node" THEN SafePath(raw) ELSE NormalPath(raw)
        /\ tar.root \in {"none", path[1]}
        /\ \/ header.type = "file" /\ (Alias(raw) \/ path \notin DOMAIN tar.facts)
           \/ header.type = "dir" /\ ~Alias(raw)
           \/ header.type = "link" /\ policy = "node"

Member(policy, tar, header) ==
    LET raw  == RawPath(tar, header)
        path == Canonical(raw)
        next == [tar EXCEPT !.announced = <<>>, !.root = path[1], !.members = @ + 1,
                            !.raw = @ \cup {RawName(tar, header)}]
    IN  IF ~ValidMember(policy, tar, header) THEN Refuse(tar)
        ELSE CASE header.type = "dir" -> next
               [] header.type = "link" -> [next EXCEPT !.links = Insert(@, path, header.fact)]
               [] header.type = "file" /\ Alias(raw) ->
                      [next EXCEPT !.aliases = Append(@, <<path, header.fact>>)]
               [] OTHER -> [next EXCEPT !.facts = Insert(@, path, header.fact)]

\* One block of the stream: after the first zero block only zero blocks.
Read(policy, tar, header) ==
    IF ~tar.ok THEN tar
    ELSE IF header.type = "zero" THEN [tar EXCEPT !.zeros = @ + 1]
    ELSE IF tar.zeros > 0 THEN Refuse(tar)
    ELSE IF header.type \in {"pax", "long"} THEN Announce(policy, tar, header)
    ELSE Member(policy, tar, header)

\* The parser after each block.
Tar(policy, headers) ==
    LET tar[n \in 0..Len(headers)] ==
            IF n = 0 THEN Start ELSE Read(policy, tar[n - 1], headers[n])
    IN  tar

Parse(policy, headers) == Tar(policy, headers)[Len(headers)]

\* An alias repeats the file it stands for, once.
AliasesRepeat(tar) ==
    /\ \A i \in DOMAIN tar.aliases :
          LET path == tar.aliases[i][1]
          IN  path \in DOMAIN tar.facts /\ tar.facts[path] = tar.aliases[i][2]
    /\ \A i, j \in DOMAIN tar.aliases : tar.aliases[i][1] = tar.aliases[j][1] => i = j

\* resolve_link: ".." above the archive, "." and "" are refused with <<>>.
ResolveLink(path, target) ==
    LET Go(at, part) == CASE at = <<>> \/ part \in {"", "."} -> <<>>
                          [] at # <<>> /\ part = ".."       -> Front(at)
                          [] OTHER                          -> Append(at, part)
    IN  FoldLeft(Go, Front(path), target)

\* Exactly the links known, each to a regular file below the root.
LinksKnown(tar) ==
    /\ tar.links = [path \in {<<tar.root>> \o p : p \in DOMAIN NodeLinks} |-> NodeLinks[Tail(path)]]
    /\ \A path \in DOMAIN tar.links :
          ResolveLink(path, tar.links[path]) \in DOMAIN tar.facts \ DOMAIN tar.links

Complete(policy, tar) ==
    /\ tar.ok /\ tar.announced = <<>> /\ tar.zeros >= 2 /\ tar.members > 0
    /\ IF policy = "node" THEN LinksKnown(tar)
       ELSE <<tar.root, "package.json">> \in DOMAIN tar.facts /\ AliasesRepeat(tar)

\* The archive of a package: it is not read as the Node archive, and its blocks
\* come one after the other.
IsArchive(archive) ==
    /\ archive.policy # "node"
    /\ Len(archive.headers) \in Nat /\ DOMAIN archive.headers = 1..Len(archive.headers)

\* inspect_npm_archive: the counts of a pinned archive, and no shrinkwrap,
\* which only the root package of the older releases has.
NpmArchive(policy, headers) ==
    LET tar == Parse(policy, headers)
    IN  /\ Complete(policy, tar)
        /\ policy = "pinned" => tar.pax = Len(PinnedPaths) /\ tar.members = Len(PinnedPaths)
        /\ <<tar.root, "npm-shrinkwrap.json">> \notin DOMAIN tar.facts

\* inspect_npm_archive of the root package: it has the shrinkwrap, no alias, and
\* the usual directory.
RootArchive(headers) ==
    LET tar == Parse("transitive", headers)
    IN  /\ Complete("transitive", tar)
        /\ tar.root = "package" /\ tar.aliases = <<>>
        /\ <<tar.root, "npm-shrinkwrap.json">> \in DOMAIN tar.facts

\* inspect_node_archive: the archive holds the release its URL names.
NodeArchive(root, headers) ==
    LET tar == Parse("node", headers)
    IN  /\ Complete("node", tar)
        /\ tar.root = root
        /\ <<root, "bin", "node">> \in DOMAIN tar.facts

-----------------------------------------------------------------------------
(* Unpacking                                                               *)

\* The name a tool that unpacks the archive gives to its i-th header.
UnpackedName(headers, i) ==
    Canonical(IF i > 1 /\ headers[i - 1].type \in {"pax", "long"}
              THEN headers[i - 1].path ELSE headers[i].path)

\* Every file some header writes, whichever of two writes is the last.
Unpacked(headers) ==
    {<<UnpackedName(headers, i), headers[i].fact>> :
        i \in {i \in DOMAIN headers : headers[i].type = "file"}}

\* What is kept of the archive is what unpacking leaves, in any order.
KeepsWhatUnpacks(policy, headers) ==
    LET facts == Parse(policy, headers).facts
    IN  Unpacked(headers) = {<<path, facts[path]>> : path \in DOMAIN facts}
=============================================================================
