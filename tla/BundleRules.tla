------------------------------ MODULE BundleRules ------------------------------
(***************************************************************************)
(* The rules of catalog-acquire: which URLs a fetch may go through         *)
(* (http.rs, and catalog-latest-transport's second implementation of the   *)
(* same policy), what a bundle may hold (preflight_verified_bundle), and   *)
(* what a reader of the written directory accepts                          *)
(* (verify_transferred_bundle_root).  Pure operators, no state.            *)
(***************************************************************************)
EXTENDS Integers, Sequences, FiniteSets, FiniteSetsExt

CONSTANTS
    MaxRedirects,  \* 5 in the code
    MaxEntries,    \* 32768 in the code
    MaxEntry,      \* 8 GiB in the code
    MaxTotal,      \* 64 GiB in the code
    MaxManifest    \* 8 MiB in the code

ASSUME RulesAssumption ==
    {MaxRedirects, MaxEntries, MaxEntry, MaxTotal, MaxManifest} \subseteq Nat

-----------------------------------------------------------------------------
(* Redirects                                                               *)

\* What the policies tell apart in a URL: its host, whether its path is that
\* of a release download, whether it has a query of legal length, and whether
\* it has anything no URL may have (another scheme, credentials, a fragment).
Url(host, path, query, clean) ==
    [host |-> host, path |-> path, query |-> query, clean |-> clean]

LatestUrl == Url("github", "download", FALSE, TRUE)

GithubHop(url) == url.host = "github" /\ ~url.query /\ url.path = "download"
AssetHop(url)  == url.host = "assets" /\ url.query

\* How the one Location of a redirect is written, which the URL it is joined to
\* no longer shows: as the URL itself, with a backslash, a space or a tab that
\* Url::join drops or encodes, or longer than a URL may be (dot segments, which
\* it resolves).
LocationForms == {"plain", "spaced", "long"}

\* single_location of http.rs, and of catalog-latest-transport.  Discovery reads
\* any Location of visible characters.
ReadsLocation(form)       == form = "plain"
LatestReadsLocation(form) == form # "long"

\* validate_hop under GitHubReleaseAsset, and under Default.
ValidHop(url, profile) ==
    /\ url.clean
    /\ CASE profile = "default" -> ~url.query
         [] profile = "github"  -> GithubHop(url) \/ AssetHop(url)

\* validate_request of the first URL.
ValidRequest(url, origins, profile) ==
    /\ url.clean /\ ~url.query
    /\ url.host \in origins
    /\ profile = "github" => GithubHop(url)

\* A slip: the CDN may redirect once more.
FollowsFromAnywhere(hops, next, form, origins, profile) ==
    /\ Len(hops) <= MaxRedirects
    /\ ReadsLocation(form)
    /\ ValidHop(next, profile) /\ next.host \in origins
    /\ next \notin {hops[i] : i \in DOMAIN hops}

\* One redirect from the last of `hops' to `next', written in this form:
\* validate_redirect_source, the limit, single_location,
\* validate_redirect_target, and the visited set.
Follows(hops, next, form, origins, profile) ==
    /\ ~(profile = "github" /\ hops[Len(hops)].host = "assets")
    /\ Len(hops) <= MaxRedirects
    /\ ReadsLocation(form)
    /\ ValidHop(next, profile) /\ next.host \in origins
    /\ next \notin {hops[i] : i \in DOMAIN hops}

\* One redirect of HttpReleaseDiscoveryTransport, which has them for the
\* installer's assets only, and within github.com not at all.  It does not look
\* at how the Location is written.
DiscoveryFollows(hops, next) ==
    LET current == hops[Len(hops)]
    IN  /\ ValidHop(current, "github") /\ current.host # "assets"
        /\ next.host = "github" => next = hops[1]
        /\ ValidHop(next, "github") /\ next.host \in {"github", "assets"}
        /\ Len(hops) <= MaxRedirects
        /\ next \notin {hops[i] : i \in DOMAIN hops}

\* validate_hop of catalog-latest-transport.
LatestHop(url) ==
    /\ url.clean
    /\ \/ url.host = "github" /\ url.path = "download" /\ ~url.query
       \/ url.host = "assets" /\ url.query

\* fetch_inner of catalog-latest-transport: whether it would have come to the
\* end of `hops' and asked the last of them.
LatestReaches(hops) ==
    /\ hops[1] = LatestUrl
    /\ Len(hops) - 1 <= MaxRedirects
    /\ \A i \in 2..Len(hops) :
          /\ LatestHop(hops[i])
          /\ hops[i - 1].host # "assets"
          /\ \A j \in 1..(i - 1) : hops[j] # hops[i]

\* One redirect of it, from the last of `hops'.
LatestFollows(hops, next, form) ==
    LatestReadsLocation(form) /\ LatestReaches(Append(hops, next))

-----------------------------------------------------------------------------
(* Bundles                                                                 *)

\* A file by where it is and the digest it is named by (or, at the root, its
\* fixed name).
File(dir, digest, size) == [dir |-> dir, digest |-> digest, size |-> size]
Path(file)      == <<file.dir, file.digest>>
Total(files)    == MapThenSumSet(LAMBDA file : file.size, files)
InDir(files, d) == {file \in files : file.dir = d}
Injective(Key(_), set) == \A a, b \in set : Key(a) = Key(b) => a = b

\* The size of a canonical document about n things.
DocumentSize(n) == n

\* What objects come in.
IsList(objects) == Len(objects) \in Nat /\ DOMAIN objects = 1..Len(objects)

\* An object asked for by the release: where it was fetched, its digest and
\* size, and whether the descriptor still hashes to them.  A bundle request
\* has a sequence of them and a set of records [role, digest, size].
ObjectFiles(objects) == {File("objects", objects[i].digest, objects[i].size) : i \in DOMAIN objects}
RecordFiles(records) == {File("records", r.digest, r.size) : r \in records}

\* verified-input.json lists each object once.
VerifiedInput(request) ==
    [kind |-> request.kind, objects |-> ObjectFiles(request.objects)]
VerifiedInputFile(input) ==
    File("root", "verified-input", DocumentSize(Cardinality(input.objects)))

Manifest(request) ==
    [claims  |-> request.claims,
     records |-> {[role |-> r.role, digest |-> r.digest] : r \in request.records},
     entries |-> RecordFiles(request.records) \cup ObjectFiles(request.objects)
                   \cup {VerifiedInputFile(VerifiedInput(request))}]

ValidClaims(request) == request.claims = (request.kind = "catalog_source")

ValidManifest(manifest) ==
    /\ manifest.entries # {} /\ Cardinality(manifest.entries) <= MaxEntries
    /\ Injective(Path, manifest.entries)
    /\ Injective(LAMBDA r : r.role, manifest.records)
    /\ manifest.records # {}
    /\ \A entry \in manifest.entries : entry.size \in 1..MaxEntry
    /\ Total(manifest.entries) <= MaxTotal
    /\ \E entry \in manifest.entries : Path(entry) = <<"root", "verified-input">>

ValidRecords(records) ==
    /\ Injective(LAMBDA r : r.role, records)
    /\ Injective(LAMBDA r : r.digest, records)
    /\ \A r \in records : r.size \in 1..MaxManifest /\ r.size <= MaxEntry

\* Objects with one digest must be one object.
ValidObjects(objects) ==
    /\ objects # <<>>
    /\ \A i \in DOMAIN objects : objects[i].size \in 1..MaxEntry /\ objects[i].intact
    /\ \A i, j \in DOMAIN objects :
          objects[i].digest = objects[j].digest => objects[i] = objects[j]

Accepts(request) ==
    /\ ValidClaims(request)
    /\ Cardinality(request.records) + Len(request.objects) + 1 <= MaxEntries
    /\ ValidRecords(request.records) /\ ValidObjects(request.objects)
    /\ DocumentSize(Cardinality(ObjectFiles(request.objects))) \in 1..MaxManifest
    /\ DocumentSize(Cardinality(Manifest(request).entries)) \in 1..MaxManifest
    /\ ValidManifest(Manifest(request))

\* A slip: every object asked for is written.
EveryObject(objects) == objects

\* seen_objects: the first object of each digest is copied.
Prepared(objects) ==
    LET first == {i \in DOMAIN objects :
                    \A j \in 1..(i - 1) : objects[j].digest # objects[i].digest}
    IN  [i \in first |-> objects[i]]

\* write_preflight_bundle cannot write a name twice.
Writable(request) ==
    LET objects == Prepared(request.objects)
    IN  \A i, j \in DOMAIN objects : objects[i].digest = objects[j].digest => i = j

\* What write_preflight_bundle leaves in the payload.
Tree(request) ==
    [manifest |-> Manifest(request), input |-> VerifiedInput(request),
     files |-> RecordFiles(request.records) \cup ObjectFiles(Prepared(request.objects))
                 \cup {VerifiedInputFile(VerifiedInput(request))}]

VerifyTransferred(tree) ==
    /\ DocumentSize(Cardinality(tree.manifest.entries)) <= MaxManifest
    /\ ValidManifest(tree.manifest)
    /\ tree.files = tree.manifest.entries
    /\ VerifiedInputFile(tree.input) \in tree.files
    /\ VerifiedInputFile(tree.input).size <= MaxManifest
    /\ InDir(tree.manifest.entries, "objects") = tree.input.objects
    /\ \A r \in tree.manifest.records :
          \E file \in InDir(tree.files, "records") : file.digest = r.digest
=============================================================================
