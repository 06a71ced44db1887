----------------------------- MODULE DiskServing -----------------------------
(***************************************************************************)
(* Serving the files of a site (internal/serving/disk): from the path of a *)
(* request to the file, its encoding, and the answer; and a client that    *)
(* follows the redirects to directories and keeps a copy.                  *)
(*                                                                         *)
(* A site is one deployment: its files, the compressed files next to them, *)
(* and what its _redirects make of a path.  A request keeps the deployment *)
(* it was resolved to.                                                     *)
(***************************************************************************)
EXTENDS SymlinkWalk, ContentServing

CONSTANTS
  Site,         \* the first deployments
  Modtimes,     \* modification times of later deployments
  Asks,         \* Asks[scene]: the requests made to the sites of a scene
  Html,         \* Html[n]: the name n with ".html" at its end
  MaxAsks,      \* MaxAsks[scene]: bound on requests
  MaxDeploys    \* bound on deployments

Segment == STRING \cup {""}   \* what stands between two slashes

ASSUME SiteAssumption ==
  \A s \in Site :
    /\ DOMAIN s = {"scene", "tree", "compressed", "rewrite", "fails", "sha", "modtime", "accessControl",
                   "seekable", "local"}
    /\ s.scene \in DOMAIN Asks
    /\ s.sha \in Nat \ {0}
    /\ s.rewrite.status \in {0, 200, 301, 302}   \* validateRule

ASSUME RequestAssumption ==
  \A c \in DOMAIN Asks : \A r \in Asks[c] :
    /\ DOMAIN r = {"url", "method", "accept", "range", "ifMatch", "ifUnmodifiedSince", "ifNoneMatch",
                   "ifModifiedSince", "revalidates"}
    /\ r.url \in Seq(Segment) /\ r.url # <<>>

\* http.Redirect cleans the path that it sends a client to, so that it does not
\* end in two slashes.
ASSUME RedirectAssumption ==
  \A s \in Site : s.rewrite.status = 302 =>
    LET to == s.rewrite.to IN ~ (Len(to) >= 2 /\ to[Len(to)] = "" /\ to[Len(to) - 1] = "")

NoPath == <<"none">>
NoHeaders == [encoding |-> "", length |-> NoPath, etag |-> etag("", 0), cached |-> FALSE]
NoCopy == [etag |-> etag("", 0), modtime |-> 0, sha |-> 0, encoding |-> ""]
NoAnswer == [status |-> 0, body |-> NoPath]

VARIABLES
  site,
  req,      \* the request; req.url: the path below the prefix of the site
  pc,
  sub,      \* SubPath, and whether _redirects has rewritten it
  full,     \* fullPath
  hdr,      \* the headers set so far
  answer,   \* the answer
  copy,     \* the client's copy: its validators, and what it really is
  asked,    \* requests made
  hops      \* redirects to a directory that were followed

vars == <<site, req, pc, sub, full, hdr, answer, copy, asked, hops>>

Init ==
  /\ site \in Site
  /\ req \in Asks[site.scene]
  /\ pc = "ask"
  /\ sub = [path |-> req.url, rewritten |-> FALSE]
  /\ full = NoPath
  /\ hdr = NoHeaders
  /\ answer = NoAnswer
  /\ copy = NoCopy
  /\ asked = 0
  /\ hops = 0

Written(s, b) == answer' = [status |-> s, body |-> b]
ErrorPage == <<"error page">>

\* httperrors: an error page, under the headers that are already set.
ServeError(s) ==
  /\ pc' = "answered"
  /\ Written(s, ErrorPage)
  /\ UNCHANGED <<site, req, sub, full, hdr, copy, asked, hops>>

Go(next) ==
  /\ pc' = next
  /\ UNCHANGED <<site, req, sub, full, hdr, answer, copy, asked, hops>>

\* http.Redirect
RedirectTo(s, url) ==
  /\ pc' = "answered"
  /\ Written(s, url)
  /\ UNCHANGED <<site, req, sub, full, hdr, copy, asked, hops>>

-----------------------------------------------------------------------------
(* resolvePath                                                             *)

IsHtml(path) == Last(path) \in {Html[n] : n \in DOMAIN Html}

\* A file, or the error: "dir", "no extension" or "other".
resolvePath(path) ==
  LET At(w, fi) ==
        IF ~ w.ok THEN [err |-> IF IsHtml(path) THEN "other" ELSE "no extension", path |-> NoPath, dest |-> w.dest]
        ELSE IF fi = File THEN [err |-> "", path |-> Clean(w.dest).path, dest |-> w.dest]
        ELSE [err |-> IF fi = Dir THEN "dir" ELSE "other", path |-> NoPath, dest |-> w.dest]
      Walked(w) == At(w, Lstat(site.tree, w.dest))
  IN Walked(EvalSymlinks(site.tree, site.local, path))

\* Whether the path is "_redirects", and not another name of that file.
IsConfigFile(f) ==
  f.path = <<"_redirects">> /\ ~ f.dest.abs /\ RootName \notin Range(f.dest.comps)

endsWithSlash(url) == Last(url) = ""

\* The path with ".html" in place of a slash at its end.
AddHtml(path) ==
  LET p == IF Len(path) > 1 /\ Last(path) = "" THEN Front(path) ELSE path
  IN Append(Front(p), Html[Last(p)])

\* Mutant: the slash is looked for in the rewritten path.
FindFileSub ==
  LET Second(path) == [resolvePath(path) EXCEPT !.err = IF @ = "" THEN "" ELSE "other"]
      Try(r) == IF r.err = "dir" THEN IF endsWithSlash(sub.path) THEN Second(Append(sub.path, "index.html")) ELSE r
                ELSE IF r.err = "no extension" THEN Second(AddHtml(sub.path))
                ELSE r
  IN Try(resolvePath(sub.path))

\* tryFile up to the file; the error is "dir" when the client is to add a slash.
FindFile ==
  LET Second(path) == [resolvePath(path) EXCEPT !.err = IF @ = "" THEN "" ELSE "other"]
      Try(r) == IF r.err = "dir" THEN IF endsWithSlash(req.url) THEN Second(Append(sub.path, "index.html")) ELSE r
                ELSE IF r.err = "no extension" THEN Second(AddHtml(sub.path))
                ELSE r
  IN Try(resolvePath(sub.path))

-----------------------------------------------------------------------------
(* ServeFileHTTP                                                           *)

\* root, which tryFile, tryRedirects and tryNotFound call each: when the archive or
\* the directory of the site may be lost, every call may fail, in its own way (it
\* does not exist, the request is canceled, another error).
RootFails ==
  /\ pc \in {"tryFile", "tryRedirects", "notFound"} /\ site.fails = "root"
  /\ \/ ServeError(404)
     \/ ServeError(500)
     \/ pc # "notFound" /\ Go(IF pc = "tryFile" /\ ~ sub.rewritten THEN "tryRedirects" ELSE "notFound")

TryFile ==
  /\ pc = "tryFile"
  /\ \E f \in {FindFile} :
     \/ f.err = "dir" /\ RedirectTo(302, Append(req.url, ""))
     \/ f.err = "other" /\ Go(IF sub.rewritten THEN "notFound" ELSE "tryRedirects")
     \/ f.err = "" /\ IsConfigFile(f) /\ RedirectTo(200, f.path)
     \/ /\ f.err = "" /\ ~ IsConfigFile(f)
        /\ full' = f.path
        /\ pc' = "encode"
        /\ UNCHANGED <<site, req, sub, hdr, answer, copy, asked, hops>>

\* site.rewrite is what Redirects finds for the path, with or without a slash.
TryRedirects ==
  /\ pc = "tryRedirects"
  /\ IF site.rewrite.status = 0 THEN Go("notFound")
     ELSE IF site.rewrite.status # 200 THEN RedirectTo(site.rewrite.status, site.rewrite.to)
     ELSE /\ sub' = [path |-> site.rewrite.to, rewritten |-> TRUE]
          /\ pc' = "tryFile"
          /\ UNCHANGED <<site, req, full, hdr, answer, copy, asked, hops>>

\* handleContentEncoding, which announces the file it chooses.
Encoded(next) ==
  LET files == IF full \in DOMAIN site.compressed THEN site.compressed[full] ELSE {}
      e     == handleContentEncoding(req, files)
  IN /\ hdr' = [hdr EXCEPT !.encoding = e, !.length = IF e = "" THEN @ ELSE full]
     /\ pc' = next
     /\ UNCHANGED <<site, req, sub, full, answer, copy, asked, hops>>

\* serveFile
Encode == pc = "encode" /\ Encoded("open")

OpenFile ==
  /\ pc = "open"
  /\ \/ site.fails = "open" /\ ServeError(500)
     \/ /\ site.fails # "open"
        /\ hdr' = [hdr EXCEPT !.etag = etag(hdr.encoding, site.sha), !.cached = ~ site.accessControl]
        /\ pc' = "content"
        /\ UNCHANGED <<site, req, sub, full, answer, copy, asked, hops>>

\* Mutant: 304 keeps the announced length.
AnnouncedAlways(s) == IF s = 412 /\ site.seekable THEN hdr.length ELSE full

\* The length is announced before the preconditions, unless the file is seekable
\* and not compressed; 304 takes the announcement back, 412 does not.
Announced(s) ==
  IF s = 304 THEN NoPath
  ELSE IF s = 412 /\ site.seekable THEN hdr.length ELSE full

\* detectContentType opens the file again.
ContentTypeFails == site.fails = "type"

\* The answer to a GET or HEAD whose preconditions hold, or fail.
serveContent(s) == Written(s, IF s = 200 /\ req.method # "HEAD" THEN full ELSE NoPath)

Content ==
  LET s == checkPreconditions(req, hdr.etag, site.modtime) IN
  /\ pc = "content"
  /\ \/ ContentTypeFails /\ ServeError(500)
     \/ /\ ~ ContentTypeFails
        /\ serveContent(s)
        /\ hdr' = [hdr EXCEPT !.length = Announced(s)]
        /\ pc' = "answered"
        /\ copy' = IF s = 200 /\ req.method = "GET"
                   THEN [etag |-> hdr.etag, modtime |-> site.modtime, sha |-> site.sha, encoding |-> hdr.encoding]
                   ELSE copy
        /\ UNCHANGED <<site, req, sub, full, asked, hops>>

-----------------------------------------------------------------------------
(* ServeNotFoundHTTP                                                       *)

NotFound ==
  /\ pc = "notFound"
  /\ \E f \in {resolvePath(<<"404.html">>)} :
     \/ f.err # "" /\ ServeError(404)
     \/ /\ f.err = ""
        /\ full' = f.path
        /\ pc' = "encode404"
        /\ UNCHANGED <<site, req, sub, hdr, answer, copy, asked, hops>>

Encode404 == pc = "encode404" /\ Encoded("custom404")

\* serveCustomFile; a canceled request gets the generic page.  When the body
\* breaks off the error page follows, under the status already sent.
Custom404 ==
  /\ pc = "custom404"
  /\ \/ site.fails \in {"open", "type"} /\ \E s \in {404, 500} : ServeError(s)
     \/ /\ site.fails \notin {"open", "type"}
        /\ Written(404, IF req.method = "HEAD" THEN NoPath ELSE IF site.fails = "copy" THEN ErrorPage ELSE full)
        /\ hdr' = [hdr EXCEPT !.length = full]
        /\ pc' = "answered"
        /\ UNCHANGED <<site, req, sub, full, copy, asked, hops>>

-----------------------------------------------------------------------------
(* The client and the deployments                                          *)

Start(r, h) ==
  /\ req' = r
  /\ sub' = [path |-> r.url, rewritten |-> FALSE]
  /\ full' = NoPath
  /\ hdr' = NoHeaders
  /\ answer' = NoAnswer
  /\ asked' = asked + 1
  /\ hops' = h
  /\ pc' = "tryFile"
  /\ UNCHANGED <<site, copy>>

\* A client that has a copy sends its validators.
Validated(r) ==
  IF copy = NoCopy \/ ~ r.revalidates THEN r
  ELSE [r EXCEPT !.ifNoneMatch = <<Tag(copy.etag)>>, !.ifModifiedSince = copy.modtime]

Ask(r) ==
  /\ \/ pc = "ask" /\ r = req
     \/ pc \in {"answered", "deployed"} /\ asked < MaxAsks[site.scene] /\ r.url = req.url
  /\ Start(Validated(r), 0)

Follow ==
  /\ pc = "answered" /\ answer.status = 302 /\ answer.body = Append(req.url, "")
  /\ hops < 2
  /\ Start([req EXCEPT !.url = answer.body], hops + 1)

Deploy(t) ==
  /\ pc = "answered" /\ asked < MaxAsks[site.scene]
  /\ site.sha <= MaxDeploys
  /\ site' = [site EXCEPT !.sha = @ + 1, !.modtime = t]
  /\ pc' = "deployed"
  /\ UNCHANGED <<req, sub, full, hdr, answer, copy, asked, hops>>

Next ==
  \/ \E r \in Asks[site.scene] : Ask(r)
  \/ Follow
  \/ \E t \in Modtimes : Deploy(t)
  \/ RootFails \/ TryFile \/ TryRedirects \/ Encode \/ OpenFile \/ Content
  \/ NotFound \/ Encode404 \/ Custom404

Spec == Init /\ [][Next]_vars

-----------------------------------------------------------------------------
(* Properties                                                              *)

TypeOK ==
  /\ site.scene \in DOMAIN Asks
  /\ site.fails \in {"no", "root", "open", "type", "copy"}
  /\ site.sha \in 1..MaxDeploys + 1
  /\ site.modtime \in Nat
  /\ pc \in {"off", "ask", "tryFile", "tryRedirects", "encode", "open", "content", "notFound", "encode404",
            "custom404", "answered", "deployed"}
  /\ full # NoPath => full \in DOMAIN site.tree /\ site.tree[full] = File
  /\ hdr.encoding \in {"", "br", "gzip"}
  /\ asked \in 0..MaxAsks[site.scene] + 2
  /\ pc = "answered" => answer # NoAnswer

\* walkSymlinks: a path that is found is found where an operating system with
\* the site as its root would find it, whatever symlinks and ".." it goes
\* through, so what is served is below the root; and a relative path that never
\* leaves the root on its way is found.  (Other than in a chroot the name of the
\* root, right above it, leads back: see Lookup.)
ResolvesLikeChroot ==
  pc = "tryFile" /\ ~ sub.rewritten =>
    \A w \in {EvalSymlinks(site.tree, site.local, req.url)}, k \in {Lookup(site.tree, site.local, req.url)} :
       /\ w.ok /\ Clean(w.dest).up = 0 => k.ok /\ k.path = Clean(w.dest).path
       /\ k.ok /\ ~ k.above /\ ~ IsAbs(req.url) => w.ok

\* tryFile, redirectPath: a client that is sent to a directory's path with a
\* slash is not sent on again, also when _redirects has led to the directory.
DirectoryRedirectSettles == hops <= 1

\* etag, checkPreconditions: however deployments and encodings change, and
\* whatever their times are, a client that sends the validators of its copy is
\* told 304 only if its copy is what it would be sent.
NotModifiedIsCurrent ==
  pc = "answered" /\ answer.status = 304 /\ req.revalidates /\ copy # NoCopy =>
    copy.sha = site.sha /\ copy.encoding = hdr.encoding

\* What the client says of an encoding: by its name, or else by "*", or nothing.
Said(value) == {x.q : x \in {y \in Range(ParseAccept(req.accept)) : y.value = value}}
Weight(e) == Max({0} \cup (IF Said(e) # {} THEN Said(e) ELSE Said("*")))

CompressedFiles == IF full \in DOMAIN site.compressed THEN site.compressed[full] ELSE {}

\* "*" is given more weight than an encoding the client names.
WildcardOutweighs ==
  \E e \in CompressedFiles \cup {"identity"} : Said(e) # {} /\ Max({0} \cup Said("*")) > Weight(e)

\* handleContentEncoding: the file that is sent is the one the client gives the
\* most weight, whatever the order and the number of its header lines, the plain
\* one only when it has more weight than every compressed one; one that the client
\* refuses is not sent, and nothing compressed is for a range.  (Not so when "*"
\* has more weight than an encoding that is named: NegotiateContentEncoding takes
\* the larger of the two, also for one that is refused by its name.)
EncodingIsBest ==
  LET best == SelectSeq(Encodings, LAMBDA e :
                /\ e \in CompressedFiles /\ Weight(e) > 0
                /\ \A o \in CompressedFiles \cup {"identity"} : Weight(o) <= Weight(e))
  IN pc \in {"open", "custom404"} /\ ~ WildcardOutweighs =>
       hdr.encoding = IF req.range \/ best = <<>> THEN "" ELSE Head(best)

\* serveFile, writeNotModified: the length and the encoding that are announced
\* are those of the body that follows, unless the preconditions fail or the file
\* cannot be opened or read once they are announced: the error page of httperrors then
\* goes out under them.
AnsweredAsAnnounced ==
  pc = "answered" /\ req.method # "HEAD" /\ answer.status # 412 /\ site.fails \notin {"open", "type", "copy"} =>
    /\ hdr.length # NoPath => answer.body = hdr.length
    /\ hdr.encoding # "" /\ answer.body # NoPath => answer.body = full
=============================================================================
