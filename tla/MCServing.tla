------------------------------ MODULE MCServing ------------------------------
(***************************************************************************)
(* Instances of DiskServing, in scenes: symlinks and ".." in small trees,  *)
(* conditional requests for a compressed file, Accept-Encoding headers,    *)
(* rewritten paths and sites that fail.  And, beside them, questions to    *)
(* Redirects.                                                              *)
(***************************************************************************)
EXTENDS DiskServing

CONSTANTS maxRuleCount, maxPathSegments, Enabled
VARIABLES conf, path, rule

R == INSTANCE Redirects

MCHtml == [n \in {"a", "b", "d", "x", "..", "", "public", "_redirects", "index", "404"} |->
             CASE n = "index" -> "index.html" [] n = "404" -> "404.html" [] n = "a" -> "a.html" [] OTHER -> "x.html"]

Targets == {<<"b">>, <<"..", "a">>, <<"b", "a">>, <<"..">>, <<"", "b">>, <<"", "b", "..", "a">>}
Rooted == {<<"", "public", "a">>, <<"", "public", "b", "..", "b", "a">>}
Leaf == {None, File} \cup {Link(t) : t \in Targets}

Node(n, p) == IF n = None THEN <<>> ELSE p :> n
Trees ==
  {Node(a, <<"a">>) @@ (<<"b">> :> Dir) @@ Node(c, <<"b", "a">>) : a \in Leaf, c \in Leaf}
  \cup {Node(a, <<"a">>) @@ (<<"b">> :> Link(t)) : a \in Leaf, t \in Targets}

Base == [scene |-> "walk", tree |-> <<>>, compressed |-> <<>>, rewrite |-> [status |-> 0, to |-> <<>>],
         fails |-> "no", sha |-> 1, modtime |-> 2, accessControl |-> FALSE, seekable |-> FALSE, local |-> FALSE]

\* Links to the root's own path, and one that cannot be read.
RootTrees ==
  {Node(a, <<"a">>) @@ (<<"b">> :> Dir) @@ (<<"b", "a">> :> Link(t)) :
     a \in {None, File, Link(Unreadable), Link(<<"..", "public", "b">>)}, t \in Rooted}
  \cup {(<<"a">> :> File) @@ (<<"b">> :> Link(t)) : t \in Rooted}

WalkSites == {[Base EXCEPT !.tree = t] : t \in Trees}
             \cup {[Base EXCEPT !.scene = "root", !.tree = t, !.local = l] : t \in RootTrees, l \in BOOLEAN}

\* a.html, with compressed files next to it.
CondSites ==
  {[Base EXCEPT !.scene = "cond", !.tree = <<"a.html">> :> File, !.compressed = <<"a.html">> :> c,
                !.seekable = s, !.fails = f] :
     c \in SUBSET {"br", "gzip"}, s \in BOOLEAN, f \in {"no", "open", "type"}}

RewriteSites ==
  {[Base EXCEPT !.scene = "rewrite",
                !.tree = (<<"d">> :> Dir) @@ (<<"d", "index.html">> :> File) @@ (<<"a.html">> :> File)
                         @@ (<<"_redirects">> :> File) @@ (IF p THEN <<"404.html">> :> File ELSE <<>>),
                !.compressed = <<"404.html">> :> {"gzip"},
                !.rewrite = w, !.fails = f, !.accessControl = p] :
     p \in BOOLEAN, f \in {"no", "root", "open", "type", "copy"},
     w \in [status : {200, 302}, to : {<<"d">>, <<"", "d">>, <<"d", "">>, <<"..", "d">>}]
           \cup {[status |-> 0, to |-> <<>>]}}

\* The same file, asked for with many Accept-Encoding headers.
EncodeSites ==
  {[Base EXCEPT !.scene = "encode", !.tree = <<"a.html">> :> File, !.compressed = <<"a.html">> :> c] :
     c \in SUBSET {"br", "gzip"}}

MCSite == WalkSites \cup CondSites \cup RewriteSites \cup EncodeSites

Get(url) == [url |-> url, method |-> "GET", accept |-> <<>>, range |-> FALSE, ifMatch |-> Absent,
             ifUnmodifiedSince |-> 0, ifNoneMatch |-> Absent, ifModifiedSince |-> 0, revalidates |-> FALSE]

Lines == {<<>>, <<<<Accept("gzip", 2)>>>>, <<<<Accept("br", 1), Accept("gzip", 2)>>>>,
          <<<<Accept("gzip", 0)>>, <<Accept("*", 1)>>>>, <<<<Accept("br", 2), Bad, Accept("gzip", 2)>>>>,
          <<<<Accept("gzip", 1), Accept("identity", 2)>>>>}

Cond == Get(<<"a.html">>)
CondAsks ==
  {[Cond EXCEPT !.accept = l, !.revalidates = TRUE] : l \in Lines}
  \cup {[Cond EXCEPT !.accept = <<<<Accept("gzip", 2)>>>>, !.range = TRUE],
        [Cond EXCEPT !.method = "HEAD"]}
  \cup {[Cond EXCEPT !.method = m, !.ifMatch = i, !.ifUnmodifiedSince = u, !.ifNoneMatch = n] :
          m \in {"GET", "POST"}, i \in {Absent, <<Weak(etag("", 1))>>, <<BadTag, Star>>, <<Tag(etag("", 1))>>},
          u \in {0, 1}, n \in {Absent, <<Star>>, <<Weak(etag("", 1))>>}}

Items == {Accept(v, q) : v \in {"br", "gzip", "identity", "*"}, q \in 0..2} \cup {Bad}
EncodeLines ==
  {<<l>> : l \in UNION {[1..n -> Items] : n \in 1..2}}
  \cup {<<<<Accept("gzip", x), Bad>>, <<Accept(v, y)>>>> : x \in 0..2, y \in 0..2, v \in {"br", "*"}}
  \cup {<<<<Accept("gzip", x), Accept("*", y), Accept(v, z)>>>> : x \in 0..2, y \in 0..2, z \in 0..2, v \in {"br", "identity"}}

Gzip(url) == [Get(url) EXCEPT !.accept = <<<<Accept("gzip", 2)>>>>]

MCAsks ==
  [walk    |-> {Get(u) : u \in UNION {[1..n -> {"a", "b", "..", ""}] : n \in 1..3}},
   root    |-> {Get(u) : u \in UNION {[1..n -> {"a", "b", "..", "public"}] : n \in 1..4}},
   cond    |-> CondAsks,
   encode  |-> {[Cond EXCEPT !.accept = l] : l \in EncodeLines},
   rewrite |-> {Gzip(u) : u \in {<<"x">>, <<"d">>, <<"x", "">>, <<"a">>, <<"_redirects">>, <<"", "_redirects">>, <<"">>}}]

MCMaxAsks == [walk |-> 1, root |-> 1, cond |-> 3, encode |-> 1, rewrite |-> 2]

-----------------------------------------------------------------------------
(* Questions to Redirects                                                  *)

Url(p) == [form |-> "path", path |-> p]
ToUrls == {Url(<<<<"b">>>>), [form |-> "outside", path |-> <<>>]}
Rule(f) == [from |-> f, to |-> Url(<<<<"b">>>>), status |-> 302, params |-> FALSE, force |-> FALSE]
Froms == UNION {[1..n -> {<<"a">>, <<"A">>, R!Splat, R!Placeholder}] : n \in 1..2}
Texts == {<<"/">> \o s : s \in UNION {[1..n -> {"/", "a", "b"}] : n \in 0..4}}

Invalid == {[Rule(Url(<<<<"a">>>>)) EXCEPT !.params = TRUE], [Rule(Url(<<<<"a">>>>)) EXCEPT !.force = TRUE],
            [Rule(Url(<<<<"a">>>>)) EXCEPT !.status = 404],
            [Rule(Url(<<<<"a">>>>)) EXCEPT !.to = [form |-> "outside", path |-> <<>>]],
            Rule([form |-> "unparsable", path |-> <<>>]), Rule([form |-> "relative", path |-> <<<<"a">>>>]),
            Rule(Url(<<<<"a">>, <<"a">>, <<"a">>, <<"a">>>>))}

Confs(rules) == [file : {"regular"}, large : {FALSE}, opens : {TRUE}, parses : {TRUE}, rules : rules]
BadConfs == [file : {"none", "dir"}, large : {FALSE}, opens : {TRUE}, parses : {TRUE}, rules : {<<>>}]
            \cup [file : {"regular"}, large : {TRUE}, opens : {TRUE}, parses : {TRUE}, rules : {<<>>}]
            \cup [file : {"regular"}, large : {FALSE}, opens : BOOLEAN, parses : {FALSE}, rules : {<<>>}]

Some == {Rule(Url(<<<<"a">>>>)), Rule(Url(<<R!Splat>>))} \cup Invalid

Idle ==
  /\ conf = [file |-> "none", large |-> FALSE, opens |-> TRUE, parses |-> TRUE, rules |-> <<>>]
  /\ path = <<>>
  /\ rule = 0

MCInit ==
  \/ Init /\ Idle
  \/ /\ rule = -1
     /\ \/ conf \in Confs({<<Rule(Url(f))>> : f \in Froms}) /\ path \in Texts
        \/ conf \in Confs({<<x, y, z>> : x \in Some, y \in Some, z \in Some}) \cup BadConfs /\ path = <<"/", "a">>
     /\ pc = "off"
     /\ site = Base
     /\ req = Get(NoPath)
     /\ sub = [path |-> NoPath, rewritten |-> FALSE]
     /\ full = NoPath
     /\ hdr = NoHeaders
     /\ answer = NoAnswer
     /\ copy = NoCopy
     /\ asked = 0
     /\ hops = 0

MCNext ==
  \/ Next /\ UNCHANGED <<conf, path, rule>>
  \/ R!Rewrite /\ UNCHANGED vars

MCSpec == MCInit /\ [][MCNext]_<<vars, conf, path, rule>>

\* matchesRule, match: every path that the comment of matchesRule describes is
\* found by the regex or by the shortcut in front of it, whatever slashes are
\* doubled or trailing.  (More than it describes is: the regex of "/a/*" asks for no
\* slash after "a".)
DocumentedIsMatched == R!DocumentedIsMatched

=============================================================================
