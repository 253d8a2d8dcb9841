----------------------------- MODULE MCAcquisition -----------------------------
EXTENDS Acquisition

MCUrls ==
    {LatestUrl, Url("github", "download", TRUE, TRUE), Url("github", "page", FALSE, TRUE),
     Url("assets", "object", TRUE, TRUE), Url("assets", "other object", TRUE, TRUE),
     Url("assets", "object", FALSE, TRUE), Url("assets", "object", TRUE, FALSE),
     Url("github", "other", FALSE, TRUE), Url("registry", "package", FALSE, TRUE)}

\* The latest catalog by way of the CDN, and one archive at two paths.
MCFetches ==
    <<[digest |-> "catalog", url |-> LatestUrl,
       origins |-> {"github", "assets"}, profile |-> "github"],
      [digest |-> "archive", url |-> Url("registry", "package", FALSE, TRUE),
       origins |-> {"registry"}, profile |-> "default"],
      [digest |-> "archive", url |-> Url("registry", "package", FALSE, TRUE),
       origins |-> {"registry"}, profile |-> "default"]>>

Object(digest, url, size, intact) ==
    [digest |-> digest, url |-> url, size |-> size, intact |-> intact]
Record(role, digest, size) == [role |-> role, digest |-> digest, size |-> size]

MCObjects ==
    LET all == {Object("d", "u", 1, TRUE), Object("d", "v", 1, TRUE), Object("e", "u", 2, TRUE),
                Object("f", "w", 1, FALSE)}
        Many(n, twos) == [i \in 1..n |-> Object(ToString(i), "u", IF i <= twos THEN 2 ELSE 1, TRUE)]
    IN  {Many(9, 0), Many(10, 0), Many(9, 2), Many(9, 3)} \cup
        {<<Object("e", "u", 12, TRUE)>>, <<Object("e", "u", 13, TRUE)>>,
         <<Object("e", "u", 2, TRUE), Object("g", "v", 2, TRUE), Object("h", "w", 2, TRUE)>>, <<Object("d", "u", 1, TRUE), Object("e", "u", 2, TRUE),
                                          Object("d", "u", 1, TRUE)>>}
          \cup UNION {[1..n -> all] : n \in 0..2}
MCRecords ==
    {{Record("source", "r", 1)}, {Record("source", "r", 1), Record("inputs", "s", 1)},
     {Record("source", "r", 1), Record("inputs", "r", 1)},
     {Record("source", "r", 1), Record("source", "s", 2)}, {}}

\* The bundles around one that is accepted.
MCBundles ==
    LET good == {{Record("source", "r", 1), Record("inputs", "s", 1)}}
    IN  [kind : {"catalog_source"}, claims : {TRUE}, records : good, objects : MCObjects]
          \cup [kind : {"catalog_source", "release_intent"}, claims : BOOLEAN,
                records : MCRecords, objects : {<<Object("d", "u", 1, TRUE)>>}]
-----------------------------------------------------------------------------
(* Installer releases: variations of one that works, in its graph, ranges, *)
(* nesting, archives and records.                                          *)

MCPinnedPaths == <<<<"package", "package.json">>, <<"package", "index.js">>>>
MCNodeLinks == (<<"bin", "npm">> :> <<"..", "lib", "npm.js">>)
MCNodeVersion == Version(22, 19, 0)

Zeros == <<Header("zero", <<>>, "none"), Header("zero", <<>>, "none")>>
Json == Header("file", <<"package", "package.json">>, "x")
PlainTar == <<Json>> \o Zeros
Archive(digest, policy, headers) ==
    [url |-> digest, digest |-> digest, size |-> 1, policy |-> policy, headers |-> headers]

Dep(name, kind, range) == {[name |-> name, kind |-> kind, range |-> range]}
AnyRange == {{Term("*", <<>>, Release)}}
Record2(version, deps, engine, excludes) ==
    [version |-> version, deps |-> deps, engine |-> engine, excludes |-> excludes]
Locked(record, optional) == record @@ [optional |-> optional, foreign |-> FALSE]
NodeTar ==
    [root |-> "node-v22",
     headers |-> <<Header("file", <<"node-v22", "bin", "node">>, "x"),
                   Header("file", <<"node-v22", "lib", "npm.js">>, "x"),
                   Header("link", <<"node-v22", "bin", "npm">>, <<"..", "lib", "npm.js">>)>> \o Zeros]

\* A release of these declarations, with these packages optional.
Served(declared, optional) ==
    [declared |-> declared,
     lock |-> [l \in DOMAIN declared |-> Locked(declared[l], l \in optional)],
     archives |-> [l \in DOMAIN declared \ {Root} |->
                      Archive(IF Len(l) = 1 THEN l[1] ELSE "inner", "transitive", PlainTar)],
     overrides |-> {}, node |-> NodeTar]
AsServed(served) == [recorded |-> Derived(served), served |-> served]

V1 == Version(1, 0, 0)
Plain(deps) == Record2(V1, deps, {}, {})
Kinds == {"dependency", "optional", "peer", "optional peer"}
Maybe(name, kinds) == {{}} \cup {Dep(name, kind, AnyRange) : kind \in kinds}

\* The root, Pi, and two more packages: who needs whom, and on what platform.
Graph(fromRoot, fromPi, fromA, excludes) ==
    [l \in {Root, <<Pi>>, <<"a">>, <<"b">>} |->
        CASE l = Root    -> Plain(Dep(Pi, "dependency", AnyRange) \cup fromRoot)
          [] l = <<Pi>>  -> Plain(fromPi)
          [] l = <<"a">> -> Record2(V1, fromA, {}, IF "a" \in excludes THEN {"os"} ELSE {})
          [] l = <<"b">> -> Record2(V1, {}, {}, IF "b" \in excludes THEN {"cpu"} ELSE {})]
GraphIds ==
    {"graph"} \X Maybe("a", {"optional"}) \X Maybe("a", Kinds)
      \X Maybe("b", {"optional", "optional peer"}) \X Maybe("b", {"dependency", "optional", "peer"})
      \X {{}, {"a"}, {"b"}} \X SUBSET {<<"a">>, <<"b">>}

\* Pi needs one package in a range, of some version.
Ranged(range, version) ==
    Served([l \in {Root, <<Pi>>, <<"a">>} |->
        CASE l = Root    -> Plain(Dep(Pi, "dependency", AnyRange))
          [] l = <<Pi>>  -> Plain(Dep("a", "dependency", range))
          [] l = <<"a">> -> Record2(version, {}, {}, {})], {})
Terms ==
    {Term(op, at, Release) : op \in {"^", "~", "=", "<", ">", "<=", ">="},
        at \in {<<0>>, <<0, 1>>, <<1, 1>>, <<0, 0, 1>>, <<0, 1, 1>>, <<1, 1, 1>>}}
      \cup {Term(op, at, 1) : op \in {"^", "~", "=", "<", ">"}, at \in {<<0, 1, 1>>, <<1, 1, 1>>}}
      \cup {Term("*", <<>>, Release)}
Versions ==
    {Version(n[1], n[2], n[3]) : n \in (0..1) \X (0..1) \X (1..2)}
      \cup {Version(2, 0, 0), <<0, 1, 1, 1>>, <<1, 1, 1, 0>>, <<1, 1, 1, 2>>, <<1, 1, 2, 1>>, <<2, 0, 0, 0>>}
TermSets ==
    {{{term}} : term \in Terms}
      \cup {{{Term(">=", <<0, 1>>, Release), Term("<", <<1, 1, 1>>, pre)}} : pre \in {1, Release}}
      \cup {{{Term("^", <<0, 1, 1>>, Release)}, {Term("~", <<1, 1>>, Release)}}}
RangeIds == {"range"} \X Versions \X TermSets

\* Two versions of one package, one within Pi; and engines and overrides.
Nested(inner, outer, wanted) ==
    Served([l \in {Root, <<Pi>>, <<Pi, "a">>, <<"a">>, <<"b">>} |->
        CASE l = Root        -> Plain(Dep(Pi, "dependency", AnyRange) \cup Dep("b", "dependency", AnyRange))
          [] l = <<Pi>>      -> Plain(Dep("a", "dependency", wanted))
          [] l = <<Pi, "a">> -> Record2(inner, {}, {}, {})
          [] l = <<"a">>     -> Record2(outer, {}, {}, {})
          [] l = <<"b">>     -> Record2(V1, Dep("a", "dependency", wanted), wanted, {})], {})
NestIds ==
    {"nest"} \X {V1, Version(1, 1, 0)} \X {V1, Version(1, 1, 0)}
      \X {AnyRange, {{Term("^", <<1>>, Release)}}, {{Term(">=", <<1, 1>>, Release)}}}
      \X SUBSET {[name |-> "a", version |-> V1]}

\* The archive of one package, and the Node archive.
SmallRelease == Ranged(AnyRange, V1)
Headers ==
    {Json, Header("file", <<"package", "package.json">>, "y"),
     Header("file", <<"package", ".", "package.json">>, "x"),
     Header("file", <<"package", ".", "package.json">>, "y"),
     Header("file", <<"package", "index.js">>, "x"), Header("dir", <<"package", "lib">>, "none"),
     Header("pax", <<"package", "package.json">>, "none"), Header("pax", <<"package", "index.js">>, "none"),
     Header("long", <<"package", "index.js">>, "none"), Header("zero", <<>>, "none"),
     Header("file", <<"other", "file">>, "x"), Header("file", <<"package", "..", "x">>, "x")}
Pinned2 == <<Header("pax", MCPinnedPaths[1], "none"), Json, Header("pax", MCPinnedPaths[2], "none"),
             Header("file", MCPinnedPaths[2], "x")>>
Tars == UNION {[1..n -> Headers] : n \in 1..2} \cup {Pinned2, <<Json, Header("file", <<"package", ".", "package.json">>, "x"), Header("file", <<".", "package", "package.json">>, "x")>>}
ArchiveIds == {"archive"} \X {"transitive", "pinned"} \X Tars
NodeIds == {"node"} \X {"npm.js", "node.js"}
WithTar(policy, headers) ==
    [SmallRelease EXCEPT !.archives[<<"a">>] = Archive("a", policy, headers \o Zeros)]
WithLink(name) ==
    [SmallRelease EXCEPT !.node.headers =
        <<NodeTar.headers[1], NodeTar.headers[2],
          Header("link", <<"node-v22", "bin", "npm">>, <<"..", "lib", name>>)>> \o Zeros]

\* Records that are not those of what is served.
ForgedIds ==
    {"forged"} \X {{p \in Derived(SmallRelease) : p.locator = <<Pi>>},
                   {[p EXCEPT !.pruned = {"os"}] : p \in Derived(SmallRelease)},
                   {[p EXCEPT !.digest = "other"] : p \in Derived(SmallRelease)}}

MCInstallers ==
    [id \in GraphIds \cup RangeIds \cup NestIds \cup ArchiveIds \cup NodeIds \cup ForgedIds |->
        CASE id[1] = "graph"   -> AsServed(Served(Graph(id[2], id[3] \cup id[4], id[5], id[6]), id[7]))
          [] id[1] = "range"   -> AsServed(Ranged(id[3], id[2]))
          [] id[1] = "nest"    -> AsServed([Nested(id[2], id[3], id[4]) EXCEPT !.overrides = id[5]])
          [] id[1] = "archive" -> AsServed(WithTar(id[2], id[3]))
          [] id[1] = "node"    -> AsServed(WithLink(id[2]))
          [] id[1] = "forged"  -> [recorded |-> id[2], served |-> SmallRelease]]

-----------------------------------------------------------------------------
(* Older releases: Pi is the root, with three packages, one of them within  *)
(* another; hand-written intents and inputs beside those of a discovery.    *)

MCByteOrder == <<<<"a">>, <<"a", "b">>, <<"b">>, <<"c">>>>

RootTar(headers) ==
    <<Json, Header("file", <<"package", "npm-shrinkwrap.json">>, "s")>> \o headers \o Zeros
Entry(version, deps, excludes, optional, integrity) ==
    [version |-> version, deps |-> deps, excludes |-> excludes, optional |-> optional,
     integrity |-> integrity]
Tgz(digest, version, excludes) ==
    [digest |-> digest, size |-> 1, version |-> version, excludes |-> excludes,
     policy |-> "transitive", headers |-> PlainTar, listed |-> TRUE]

\* The package within a is another version than the one beside it, or the
\* same archive.
Legacy(fromRoot, fromA, fromB, excludes, optional, integrity, inner) ==
    LET Optional(l) == l \in optional
        url(l)      == IF l = <<"a", "b">> THEN inner ELSE l[1]
        version(l)  == IF url(l) = "inner" THEN Version(2, 0, 0) ELSE V1
        out(l)      == IF Last(l) \in excludes THEN {"os"} ELSE {}
    IN  [root |-> [digest |-> "pi", documents |-> "documents", version |-> V1,
                   headers |-> RootTar(<<>>)],
         node |-> NodeTar,
         lock |-> [l \in {Root, <<"a">>, <<"a", "b">>, <<"b">>} |->
            IF l = Root THEN Entry(V1, Dep("a", "dependency", AnyRange) \cup fromRoot, {}, FALSE, None)
            ELSE Entry(version(l), IF l = <<"a">> THEN fromA ELSE IF l = <<"b">> THEN fromB ELSE {},
                       {}, Optional(l), IF l = <<"b">> THEN integrity ELSE None)
                   @@ [url |-> url(l)]],
         archives |-> [u \in {"a", "b", inner} |->
            IF u = "inner" THEN Tgz("inner", Version(2, 0, 0), out(<<"b">>)) ELSE Tgz(u, V1, out(<<u>>))]]

LegacyIds ==
    ({"legacy"} \X Maybe("b", {"optional", "dependency"}) \X Maybe("b", {"dependency", "optional", "peer"})
        \X {{}, Dep("a", "dependency", AnyRange)} \X {{}, {"b"}} \X (SUBSET {<<"b">>, <<"a", "b">>})
        \X {None} \X {"b", "inner"})
      \cup ({"legacy"} \X {{}} \X {{}} \X Maybe("c", {"dependency", "optional", "peer"}) \X {{}}
              \X {{<<"b">>}} \X {None, "b", "other"} \X {"inner"})

OneLegacy == Legacy(Dep("b", "dependency", AnyRange), Dep("b", "dependency", AnyRange), {}, {}, {}, None, "inner")
\* Archives and documents of one release.
OtherRoots ==
    <<RootTar(<<Header("file", <<"package", ".", "package.json">>, "x")>>),
      RootTar(<<Header("file", <<"other", "file">>, "x")>>), PlainTar>>
OtherArchives ==
    <<[OneLegacy.archives["b"] EXCEPT !.listed = FALSE],
      [OneLegacy.archives["b"] EXCEPT !.version = Version(3, 0, 0)],
      [OneLegacy.archives["b"] EXCEPT !.headers = RootTar(<<>>)]>>
DocumentIds ==
    ({"root"} \X DOMAIN OtherRoots) \cup ({"archive"} \X DOMAIN OtherArchives)
      \cup ({"headers"} \X Headers \X {<<>>, <<Json>>})

\* Intents and inputs that are not those of what is served.
Discovered == DiscoveredRequest(OneLegacy)
More == [locator |-> <<"c">>, version |-> V1, url |-> "a", digest |-> "a"]
ByHand ==
    <<[Discovered EXCEPT !.intent.locked = Front(@)],
      [Discovered EXCEPT !.intent.locked = Front(@), !.inputs.locked = Front(@),
                         !.inputs.applicable = 2, !.inputs.prePrune = 3],
      [Discovered EXCEPT !.intent.locked = Append(@, More)],
      [Discovered EXCEPT !.intent.locked = Append(@, More),
                         !.inputs.locked = Append(@, More @@ [size |-> 1, pruned |-> {}])],
      [Discovered EXCEPT !.intent.locked[2] = [@ EXCEPT !.url = "b", !.digest = "b"]],
      [Discovered EXCEPT !.intent.locked[3].digest = "other"],
      [Discovered EXCEPT !.intent.documents = "other"], [Discovered EXCEPT !.intent.root = "other"],
      [Discovered EXCEPT !.inputs.locked[3].pruned = {"os"}, !.inputs.applicable = 2, !.inputs.prePrune = 3],
      [Discovered EXCEPT !.inputs.locked[1].size = 2]>>

MCGraphs ==
    [id \in LegacyIds \cup DocumentIds \cup ({"by hand"} \X DOMAIN ByHand) |->
        CASE id[1] = "legacy" ->
                DiscoveredRequest(Legacy(id[2], id[3], id[4], id[5], id[6], id[7], id[8]))
          [] id[1] = "root"    -> DiscoveredRequest([OneLegacy EXCEPT !.root.headers = OtherRoots[id[2]]])
          [] id[1] = "archive" ->
                DiscoveredRequest([OneLegacy EXCEPT !.archives["b"] = OtherArchives[id[2]]])
          [] id[1] = "headers" ->
                DiscoveredRequest([OneLegacy EXCEPT !.archives["b"].headers =
                    <<id[2]>> \o id[3] \o Zeros])
          [] id[1] = "by hand" -> ByHand[id[2]]]

\* The discoveries here have room in a bundle, as NothingIsInVain
\* (AcquisitionProofs) has it.
ASSUME DiscoveriesFit == \A id \in AsDiscovered : FitsBundle(Graphs[id])
=============================================================================
