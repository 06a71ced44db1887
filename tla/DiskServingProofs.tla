-------------------------- MODULE DiskServingProofs --------------------------
(***************************************************************************)
(* Proofs about DiskServing, for any sites, requests and deployments.      *)
(***************************************************************************)
EXTENDS DiskServing, TLAPS

\* The prover of a leaf that names none.
USE ZenonT(60)

(***************************************************************************)
(* The inductive invariant.  A copy has the entity tag of the deployment   *)
(* and the encoding it came from, and a request that revalidates it has    *)
(* sent just that tag, so a 304 is the answer to it and to no other.  What *)
(* is answered before an encoding is chosen is answered without headers.   *)
(***************************************************************************)
SiteFields == {"scene", "tree", "compressed", "rewrite", "fails", "sha", "modtime", "accessControl",
               "seekable", "local"}
RequestFields == {"url", "method", "accept", "range", "ifMatch", "ifUnmodifiedSince", "ifNoneMatch",
                  "ifModifiedSince", "revalidates"}
HeaderFields == {"encoding", "length", "etag", "cached"}

\* Before the encoding is chosen no header is set.
Plain == {"ask", "tryFile", "tryRedirects", "encode", "notFound", "encode404"}
Busy  == {"tryFile", "tryRedirects", "encode", "open", "content", "notFound", "encode404", "custom404"}

Shapes ==
  /\ DOMAIN site = SiteFields
  /\ site.scene \in DOMAIN Asks
  /\ site.sha \in Nat \ {0}
  /\ site.rewrite.status \in {0, 200, 301, 302}
  /\ DOMAIN req = RequestFields
  /\ DOMAIN hdr = HeaderFields

\* A copy has the validators it was sent with.
CopyTagged == copy # NoCopy => copy.sha \in Nat \ {0} /\ copy.etag = etag(copy.encoding, copy.sha)

\* A client that revalidates its copy has sent the copy's entity tag.
CopySent ==
  (pc \in Busy \/ (pc = "answered" /\ answer.status # 200)) /\ req.revalidates /\ copy # NoCopy =>
    req.ifNoneMatch = <<Tag(copy.etag)>>

HeadersSet ==
  /\ pc \in Plain => hdr = NoHeaders
  /\ pc = "content" => hdr.etag = etag(hdr.encoding, site.sha)

\* What is served is a file of the site.
ServedIsFile == full # NoPath => full \in DOMAIN site.tree /\ site.tree[full] = File

ServingInv == Shapes /\ CopyTagged /\ CopySent /\ HeadersSet /\ ServedIsFile /\ NotModifiedIsCurrent /\ AnsweredAsAnnounced

-----------------------------------------------------------------------------
(* Preconditions and files                                                 *)

\* The status of a request for a file.
LEMMA Statuses ==
  ASSUME NEW r, NEW tag, NEW t
  PROVE  checkPreconditions(r, tag, t) \in {200, 304, 412}
  BY SMTT(60) DEF checkPreconditions

\* An entity tag of a deployment is an entity tag.
LEMMA RealTag ==
  ASSUME NEW e, NEW n, n # 0, NEW f
  PROVE  Tag(etag(e, n)) # Tag([sha |-> 0, encoding |-> f])
  <1>2. etag(e, n).sha = n
    BY DEF etag
  <1>3. Tag([sha |-> 0, encoding |-> f]).tag.sha = 0 /\ Tag(etag(e, n)).tag.sha = n
    BY <1>2 DEF Tag
  <1> QED
    BY <1>3

\* The parts of an entity tag.
LEMMA TagParts ==
  ASSUME NEW e, NEW n
  PROVE  etag(e, n).sha = n /\ etag(e, n).encoding = e
  BY DEF etag

\* If-None-Match with one entity tag matches that tag only.
LEMMA OneTag ==
  ASSUME NEW e, NEW n, n # 0, NEW r, NEW tag, NEW t,
         r.ifNoneMatch = <<Tag(etag(e, n))>>, checkPreconditions(r, tag, t) = 304
  PROVE  tag = etag(e, n)
  <1> DEFINE x == Tag(etag(e, n))
             y == Tag([sha |-> 0, encoding |-> "absent"])
  <1>1. x # BadTag /\ x # Star /\ x # y
    <2>2. x # BadTag
      BY SMTT(60), RealTag DEF BadTag
    <2>3. x # Star
      BY SMTT(60), RealTag DEF Star
    <2>4. x # y
      BY SMTT(60), RealTag
    <2> QED
      BY <2>2, <2>3, <2>4
  <1>2. x.tag = etag(e, n)
    BY DEF Tag
  <1> HIDE DEF x, y
  <1>3. <<x>> # Absent
    <2>1. Absent = <<y>>
      BY DEF Absent, y
    <2>2. <<x>>[1] = x /\ <<y>>[1] = y
      BY SMTT(60)
    <2> QED
      BY <1>1, <2>1, <2>2
  <1> DEFINE q == <<x>>
  <1>4. DOMAIN q = {1} /\ q[1] = x
    BY SMTT(60)
  <1> HIDE DEF q
  <1>5. {i \in DOMAIN q : q[i] = BadTag} = {}
    BY SMTT(60), <1>1, <1>4
  <1>6. Scanned(q) = {x}
    <2>1. Scanned(q) = Range(q)
      BY <1>5 DEF Scanned
    <2>2. Range(q) = {x}
      BY SMTT(60), <1>4 DEF Range
    <2> QED
      BY <2>1, <2>2
  <1>7. r.ifNoneMatch = q
    BY DEF x, q
  <1>8. checkIfNoneMatch(r, tag) # "none"
    BY <1>3, <1>7 DEF checkIfNoneMatch, q
  <1>10. checkIfNoneMatch(r, tag) = "false"
    BY SMTT(60), <1>8 DEF checkPreconditions
  <1>11. \E z \in Scanned(r.ifNoneMatch) : z = Star \/ z.tag = tag
    BY <1>10, <1>8 DEF checkIfNoneMatch
  <1>12. Scanned(r.ifNoneMatch) = {x}
    BY <1>6, <1>7
  <1>13. x = Star \/ x.tag = tag
    BY <1>11, <1>12
  <1> QED
    BY <1>1, <1>2, <1>13

\* What is found is a file of the site.
Resolved(f) ==
  /\ f = [err |-> f.err, path |-> f.path, dest |-> f.dest]
  /\ f.err = "" => f.path \in DOMAIN site.tree /\ site.tree[f.path] = File

\* The kinds of nodes differ.
LEMMA Kinds == File # None /\ File # Dir /\ Dir # None
  <1>1. File.kind = "file" /\ None.kind = "none" /\ Dir.kind = "dir"
    BY DEF File, None, Dir
  <1> QED
    BY <1>1

\* A record with these fields is such a result.
LEMMA OfRecord ==
  ASSUME NEW f, NEW e, NEW p, NEW d, f = [err |-> e, path |-> p, dest |-> d],
         e = "" => p \in DOMAIN site.tree /\ site.tree[p] = File
  PROVE  Resolved(f)
  <1>1. f.err = e /\ f.path = p /\ f.dest = d
    OBVIOUS
  <1>2. f = [err |-> f.err, path |-> f.path, dest |-> f.dest]
    BY <1>1
  <1> QED
    BY <1>1, <1>2 DEF Resolved

\* A result with another error.
LEMMA Renamed ==
  ASSUME NEW y, NEW e, y = [err |-> y.err, path |-> y.path, dest |-> y.dest]
  PROVE  [y EXCEPT !.err = e] = [err |-> e, path |-> y.path, dest |-> y.dest]
  BY SMTT(60)

\* resolvePath ends at a regular file below the root.
LEMMA ResolvedIs ==
  ASSUME NEW path
  PROVE  Resolved(resolvePath(path))
  <1> DEFINE w == EvalSymlinks(site.tree, site.local, path)
             fi == Lstat(site.tree, w.dest)
             c == Clean(w.dest)
             x == resolvePath(path)
  <1>1. CASE ~ w.ok
    <2>1. x = [err |-> IF IsHtml(path) THEN "other" ELSE "no extension", path |-> NoPath, dest |-> w.dest]
      BY <1>1 DEF resolvePath
    <2> QED
      BY <2>1, OfRecord
  <1>2. CASE w.ok /\ fi = File
    <2>1. x = [err |-> "", path |-> c.path, dest |-> w.dest]
      BY <1>2 DEF resolvePath
    <2>2. c.path \in DOMAIN site.tree /\ site.tree[c.path] = File
      BY <1>2, Kinds DEF Lstat
    <2> QED
      BY <2>1, <2>2, OfRecord
  <1>3. CASE w.ok /\ fi # File
    <2>1. x = [err |-> IF fi = Dir THEN "dir" ELSE "other", path |-> NoPath, dest |-> w.dest]
      BY <1>3 DEF resolvePath
    <2> QED
      BY <2>1, OfRecord
  <1> QED
    BY <1>1, <1>2, <1>3

\* tryFile ends at a file, or sends a client to a directory whose path it has
\* asked for without a slash.
LEMMA FoundIs ==
  /\ Resolved(FindFile)
  /\ FindFile.err = "dir" => ~ endsWithSlash(req.url)
  <1> DEFINE Second(path) == [resolvePath(path) EXCEPT !.err = IF @ = "" THEN "" ELSE "other"]
             r == resolvePath(sub.path)
  <1>1. ASSUME NEW path
        PROVE  Resolved(Second(path)) /\ Second(path).err # "dir"
    <2> DEFINE y == resolvePath(path)
               z == [y EXCEPT !.err = IF y.err = "" THEN "" ELSE "other"]
    <2>1. Resolved(y)
      BY ResolvedIs
    <2>2. y = [err |-> y.err, path |-> y.path, dest |-> y.dest]
      BY <2>1 DEF Resolved
    <2>3. Second(path) = z
      OBVIOUS
    <2> HIDE DEF y
    <2>4. z = [err |-> IF y.err = "" THEN "" ELSE "other", path |-> y.path, dest |-> y.dest]
      BY <2>2, Renamed
    <2>5. z.err = (IF y.err = "" THEN "" ELSE "other") /\ z.path = y.path /\ z.dest = y.dest
      BY <2>4
    <2> HIDE DEF z
    <2>6. Resolved(z) /\ z.err # "dir"
      BY <2>1, <2>4, <2>5 DEF Resolved
    <2> HIDE DEF Second
    <2> QED
      BY <2>3, <2>6
  <1>2. Resolved(r)
    BY ResolvedIs
  <1>3. FindFile = IF r.err = "dir"
                   THEN IF endsWithSlash(req.url) THEN Second(Append(sub.path, "index.html")) ELSE r
                   ELSE IF r.err = "no extension" THEN Second(AddHtml(sub.path)) ELSE r
    BY DEF FindFile
  <1> HIDE DEF Second, r
  <1> QED
    BY <1>1, <1>2, <1>3


-----------------------------------------------------------------------------
(* The inductive invariant                                                 *)

\* The headers of a new answer.
LEMMA NoHeadersIs == DOMAIN NoHeaders = HeaderFields /\ NoHeaders.length = NoPath /\ NoHeaders.encoding = ""
  <1>1. DOMAIN NoHeaders = HeaderFields
    BY SMTT(60) DEF NoHeaders, HeaderFields
  <1>2. NoHeaders.length = NoPath /\ NoHeaders.encoding = ""
    BY DEF NoHeaders
  <1> QED
    BY <1>1, <1>2

\* Whatever a handler does, the client's side does not change.
LEMMA ClientRests ==
  ASSUME Shapes, CopyTagged, CopySent, pc \in Busy, pc' \in Busy \cup {"answered"},
         UNCHANGED <<site, req, copy>>, DOMAIN hdr' = HeaderFields
  PROVE  Shapes' /\ CopyTagged' /\ CopySent'
  <1>1. Shapes'
    BY DEF Shapes
  <1>2. CopyTagged'
    BY DEF CopyTagged
  <1>3. CopySent'
    BY DEF CopySent
  <1> QED
    BY <1>1, <1>2, <1>3

\* The handler goes on.
LEMMA GoesOn ==
  ASSUME ServingInv, pc \in Busy, pc' \in Busy, UNCHANGED <<site, req, copy>>,
         DOMAIN hdr' = HeaderFields, HeadersSet', ServedIsFile'
  PROVE  ServingInv'
  <1>1. Shapes' /\ CopyTagged' /\ CopySent'
    BY ClientRests DEF ServingInv
  <1>2. pc' # "answered"
    BY DEF Busy
  <1>3. NotModifiedIsCurrent' /\ AnsweredAsAnnounced'
    BY <1>2 DEF NotModifiedIsCurrent, AnsweredAsAnnounced
  <1> QED
    BY <1>1, <1>3 DEF ServingInv

\* The statuses of the answers that serveContent has no part in.
PlainStatus == {200, 301, 302, 404, 500}

\* An error page or a redirect, where nothing is announced or a file has failed.
LEMMA AnswersPlain ==
  ASSUME ServingInv, pc \in Busy, NEW s \in PlainStatus, NEW b, pc' = "answered", Written(s, b),
         UNCHANGED <<site, req, sub, full, hdr, copy, asked, hops>>,
         pc \in Plain \/ site.fails \in {"open", "type", "copy"}
  PROVE  ServingInv'
  <1>1. Shapes' /\ CopyTagged' /\ CopySent'
    BY ClientRests DEF ServingInv, Shapes
  <1>2. HeadersSet'
    BY DEF HeadersSet, Plain
  <1>3. ServedIsFile'
    BY DEF ServingInv, ServedIsFile
  <1>4. answer'.status # 304
    <2>1. answer'.status = s
      BY DEF Written
    <2> QED
      BY SMTT(60), <2>1 DEF PlainStatus
  <1>5. NotModifiedIsCurrent'
    BY <1>4 DEF NotModifiedIsCurrent
  <1>6. AnsweredAsAnnounced'
    <2>1. CASE pc \in Plain
      <3>1. hdr'.length = NoPath /\ hdr'.encoding = ""
        BY <2>1, NoHeadersIs DEF ServingInv, HeadersSet
      <3> QED
        BY <3>1 DEF AnsweredAsAnnounced
    <2>2. CASE site.fails \in {"open", "type", "copy"}
      BY <2>2 DEF AnsweredAsAnnounced
    <2> QED
      BY <2>1, <2>2
  <1> QED
    BY <1>1, <1>2, <1>3, <1>5, <1>6 DEF ServingInv

\* ServeError, RedirectTo and Go.
LEMMA ErrorStep ==
  ASSUME ServingInv, pc \in Busy, NEW s \in PlainStatus, ServeError(s),
         pc \in Plain \/ site.fails \in {"open", "type", "copy"}
  PROVE  ServingInv'
  BY AnswersPlain DEF ServeError

\* A redirect, before anything is announced.
LEMMA RedirectStep ==
  ASSUME ServingInv, pc \in Busy, pc \in Plain, NEW s \in PlainStatus, NEW b, RedirectTo(s, b)
  PROVE  ServingInv'
  BY AnswersPlain DEF RedirectTo

\* The next handler, before anything is announced.
LEMMA GoStep ==
  ASSUME ServingInv, pc \in Busy, pc \in Plain, NEW n, n \in Busy, n \in Plain, Go(n)
  PROVE  ServingInv'
  <1>1. pc' \in Busy /\ pc' \in Plain /\ UNCHANGED <<site, req, full, hdr, copy>>
    BY DEF Go
  <1>2. DOMAIN hdr' = HeaderFields
    BY <1>1 DEF ServingInv, Shapes
  <1>3. HeadersSet'
    BY <1>1 DEF ServingInv, HeadersSet, Plain
  <1>4. ServedIsFile'
    BY <1>1 DEF ServingInv, ServedIsFile
  <1> QED
    BY <1>1, <1>2, <1>3, <1>4, GoesOn


\* The parts of a site, and of a request.
LEMMA SiteShape ==
  ASSUME NEW s \in Site
  PROVE  DOMAIN s = SiteFields /\ s.scene \in DOMAIN Asks /\ s.sha \in Nat \ {0}
           /\ s.rewrite.status \in {0, 200, 301, 302}
  BY SiteAssumption DEF SiteFields

\* A request has its fields,
LEMMA RequestShape ==
  ASSUME NEW c \in DOMAIN Asks, NEW r \in Asks[c]
  PROVE  DOMAIN r = RequestFields
  BY RequestAssumption DEF RequestFields

\* and a path that is not empty.
LEMMA RequestUrl ==
  ASSUME NEW c \in DOMAIN Asks, NEW r \in Asks[c]
  PROVE  r.url \in Seq(Segment) /\ r.url # <<>>
  BY RequestAssumption

\* The first state.
LEMMA ServingInitInv == Init => ServingInv
  <1> SUFFICES ASSUME Init PROVE ServingInv
    OBVIOUS
  <1>1. Shapes
    <2>1. site \in Site /\ req \in Asks[site.scene] /\ hdr = NoHeaders
      BY DEF Init
    <2>2. site.scene \in DOMAIN Asks /\ DOMAIN site = SiteFields /\ site.sha \in Nat \ {0}
            /\ site.rewrite.status \in {0, 200, 301, 302}
      BY <2>1, SiteShape
    <2>3. DOMAIN req = RequestFields
      <3>1. site.scene \in DOMAIN Asks /\ req \in Asks[site.scene]
        BY <2>1, <2>2
      <3> QED
        BY <3>1, RequestShape
    <2> QED
      BY <2>1, <2>2, <2>3, NoHeadersIs DEF Shapes
  <1>2. CopyTagged /\ CopySent
    BY DEF Init, CopyTagged, CopySent
  <1>3. HeadersSet
    BY DEF Init, HeadersSet
  <1>4. ServedIsFile
    BY DEF Init, ServedIsFile
  <1>5. NotModifiedIsCurrent /\ AnsweredAsAnnounced
    BY DEF Init, NotModifiedIsCurrent, AnsweredAsAnnounced
  <1> QED
    BY <1>1, <1>2, <1>3, <1>4, <1>5 DEF ServingInv

\* A new request: nothing is set, and its validators are those of the copy.
LEMMA StartStep ==
  ASSUME ServingInv, NEW r, NEW h, Start(r, h), DOMAIN r = RequestFields,
         r.revalidates /\ copy # NoCopy => r.ifNoneMatch = <<Tag(copy.etag)>>
  PROVE  ServingInv'
  <1>1. req' = r /\ full' = NoPath /\ hdr' = NoHeaders /\ pc' = "tryFile" /\ UNCHANGED <<site, copy>>
    BY DEF Start
  <1>2. Shapes'
    BY <1>1, NoHeadersIs DEF ServingInv, Shapes
  <1>3. CopyTagged'
    BY <1>1 DEF ServingInv, CopyTagged
  <1>4. CopySent'
    BY <1>1 DEF CopySent
  <1>5. HeadersSet' /\ ServedIsFile' /\ NotModifiedIsCurrent' /\ AnsweredAsAnnounced'
    BY <1>1 DEF HeadersSet, ServedIsFile, NotModifiedIsCurrent, AnsweredAsAnnounced
  <1> QED
    BY <1>2, <1>3, <1>4, <1>5 DEF ServingInv

\* The client asks, anew or for the first time.
LEMMA AskStep ==
  ASSUME ServingInv, NEW r \in Asks[site.scene], Ask(r)
  PROVE  ServingInv'
  <1> DEFINE v == Validated(r)
  <1>1. DOMAIN r = RequestFields
    <2>1. site.scene \in DOMAIN Asks
      BY DEF ServingInv, Shapes
    <2> QED
      BY <2>1, RequestShape
  <1>2. DOMAIN v = RequestFields
    BY <1>1 DEF Validated
  <1>3. ASSUME v.revalidates, copy # NoCopy
        PROVE  v.ifNoneMatch = <<Tag(copy.etag)>>
    <2> DEFINE w == [r EXCEPT !.ifNoneMatch = <<Tag(copy.etag)>>, !.ifModifiedSince = copy.modtime]
    <2>1. w.ifNoneMatch = <<Tag(copy.etag)>>
      BY <1>1 DEF RequestFields
    <2>2. CASE r.revalidates
      BY <2>1, <2>2, <1>3 DEF Validated
    <2>3. CASE ~ r.revalidates
      BY <2>3, <1>3 DEF Validated
    <2> QED
      BY <2>2, <2>3
  <1>4. Start(v, 0)
    BY DEF Ask
  <1> HIDE DEF v
  <1> QED
    BY <1>2, <1>3, <1>4, StartStep

\* It follows a redirect, with the validators it has sent.
LEMMA FollowStep ==
  ASSUME ServingInv, Follow
  PROVE  ServingInv'
  <1> DEFINE r == [req EXCEPT !.url = answer.body]
  <1>1. DOMAIN r = RequestFields /\ r.revalidates = req.revalidates /\ r.ifNoneMatch = req.ifNoneMatch
    BY DEF ServingInv, Shapes, RequestFields
  <1>2. answer.status # 200 /\ pc = "answered"
    <2>1. answer.status = 302 /\ pc = "answered"
      BY DEF Follow
    <2> QED
      BY SMTT(60), <2>1
  <1>3. r.revalidates /\ copy # NoCopy => r.ifNoneMatch = <<Tag(copy.etag)>>
    BY <1>1, <1>2 DEF ServingInv, CopySent
  <1>4. Start(r, hops + 1)
    BY DEF Follow
  <1> HIDE DEF r
  <1> QED
    BY <1>1, <1>3, <1>4, StartStep

\* A deployment changes the sha and the time only.
LEMMA DeployStep ==
  ASSUME ServingInv, NEW t, Deploy(t)
  PROVE  ServingInv'
  <1>1. pc' = "deployed" /\ UNCHANGED <<req, full, hdr, copy, answer>>
    BY DEF Deploy
  <1>2. site' = [site EXCEPT !.sha = site.sha + 1, !.modtime = t]
    BY DEF Deploy
  <1>3. DOMAIN site = SiteFields
    BY DEF ServingInv, Shapes
  <1>4. /\ DOMAIN site' = SiteFields /\ site'.sha = site.sha + 1 /\ site'.scene = site.scene
        /\ site'.rewrite = site.rewrite /\ site'.tree = site.tree
    BY <1>2, <1>3 DEF SiteFields
  <1>5. site.sha + 1 \in Nat \ {0}
    BY SMTT(60) DEF ServingInv, Shapes
  <1>6. Shapes'
    BY <1>1, <1>4, <1>5 DEF ServingInv, Shapes
  <1>7. CopyTagged' /\ CopySent'
    BY <1>1 DEF ServingInv, CopyTagged, CopySent, Busy
  <1>8. HeadersSet'
    BY <1>1 DEF HeadersSet, Plain
  <1>9. ServedIsFile'
    BY <1>1, <1>4 DEF ServingInv, ServedIsFile
  <1>10. NotModifiedIsCurrent' /\ AnsweredAsAnnounced'
    BY <1>1 DEF NotModifiedIsCurrent, AnsweredAsAnnounced
  <1> QED
    BY <1>6, <1>7, <1>8, <1>9, <1>10 DEF ServingInv


\* The steps of the handlers.
LEMMA RootFailsStep ==
  ASSUME ServingInv, RootFails
  PROVE  ServingInv'
  <1>1. /\ pc \in Busy /\ pc \in Plain /\ {"notFound", "tryRedirects"} \subseteq Busy
        /\ {"notFound", "tryRedirects"} \subseteq Plain
    BY DEF RootFails, Busy, Plain
  <1>2. 404 \in PlainStatus /\ 500 \in PlainStatus
    BY DEF PlainStatus
  <1>3. Go("notFound") \/ Go("tryRedirects") \/ ServeError(404) \/ ServeError(500)
    BY DEF RootFails
  <1> QED
    BY <1>1, <1>2, <1>3, GoStep, ErrorStep

\* tryFile finds a file, a directory or nothing.
LEMMA TryFileStep ==
  ASSUME ServingInv, TryFile
  PROVE  ServingInv'
  <1> DEFINE f == FindFile
  <1>1. /\ pc \in Busy /\ pc \in Plain /\ {"notFound", "tryRedirects", "encode"} \subseteq Busy
        /\ {"notFound", "tryRedirects", "encode"} \subseteq Plain
    BY DEF TryFile, Busy, Plain
  <1>2. \/ RedirectTo(302, Append(req.url, ""))
        \/ Go(IF sub.rewritten THEN "notFound" ELSE "tryRedirects")
        \/ RedirectTo(200, f.path)
        \/ /\ f.err = "" /\ full' = f.path /\ pc' = "encode"
           /\ UNCHANGED <<site, req, sub, hdr, answer, copy, asked, hops>>
    BY DEF TryFile
  <1> HIDE DEF f
  <1>4. CASE f.err = "" /\ full' = f.path /\ pc' = "encode" /\ UNCHANGED <<site, req, sub, hdr, answer, copy, asked, hops>>
    <2>1. f.path \in DOMAIN site.tree /\ site.tree[f.path] = File
      BY <1>4, FoundIs DEF Resolved, f
    <2>2. ServedIsFile'
      BY <1>4, <2>1 DEF ServedIsFile
    <2>3. pc' \in Busy /\ DOMAIN hdr' = HeaderFields
      BY <1>1, <1>4 DEF ServingInv, Shapes
    <2>4. HeadersSet'
      BY <1>1, <1>4 DEF ServingInv, HeadersSet
    <2> QED
      BY <1>1, <1>4, <2>2, <2>3, <2>4, GoesOn
  <1>5. CASE Go(IF sub.rewritten THEN "notFound" ELSE "tryRedirects")
    BY <1>1, <1>5, GoStep
  <1>6. CASE RedirectTo(302, Append(req.url, ""))
    <2>1. 302 \in PlainStatus
      BY DEF PlainStatus
    <2> QED
      BY <1>1, <1>6, <2>1, RedirectStep
  <1>7. CASE RedirectTo(200, f.path)
    <2>1. 200 \in PlainStatus
      BY DEF PlainStatus
    <2> QED
      BY <1>1, <1>7, <2>1, RedirectStep
  <1> QED
    BY <1>2, <1>4, <1>5, <1>6, <1>7

\* tryRedirects redirects, rewrites or gives up.
LEMMA TryRedirectsStep ==
  ASSUME ServingInv, TryRedirects
  PROVE  ServingInv'
  <1>1. /\ pc \in Busy /\ pc \in Plain /\ {"notFound", "tryFile"} \subseteq Busy
        /\ {"notFound", "tryFile"} \subseteq Plain
    BY DEF TryRedirects, Busy, Plain
  <1>2. site.rewrite.status \in {0, 200, 301, 302}
    BY DEF ServingInv, Shapes
  <1>3. \/ Go("notFound")
        \/ site.rewrite.status # 0 /\ RedirectTo(site.rewrite.status, site.rewrite.to)
        \/ pc' = "tryFile" /\ UNCHANGED <<site, req, full, hdr, answer, copy, asked, hops>>
    BY DEF TryRedirects
  <1>4. CASE pc' = "tryFile" /\ UNCHANGED <<site, req, full, hdr, answer, copy, asked, hops>>
    <2>1. ServedIsFile'
      BY <1>4 DEF ServingInv, ServedIsFile
    <2>2. pc' \in Busy /\ DOMAIN hdr' = HeaderFields
      BY <1>1, <1>4 DEF ServingInv, Shapes
    <2>3. HeadersSet'
      BY <1>1, <1>4 DEF ServingInv, HeadersSet
    <2> QED
      BY <1>1, <1>4, <2>1, <2>2, <2>3, GoesOn
  <1>5. CASE site.rewrite.status # 0 /\ RedirectTo(site.rewrite.status, site.rewrite.to)
    <2>1. site.rewrite.status \in PlainStatus
      BY <1>2, <1>5 DEF PlainStatus
    <2> QED
      BY <1>1, <1>5, <2>1, RedirectStep
  <1> QED
    BY <1>1, <1>3, <1>4, <1>5, GoStep

\* handleContentEncoding announces, and nothing is answered yet.
LEMMA EncodedStep ==
  ASSUME ServingInv, pc \in Busy, NEW n, n \in {"open", "custom404"}, Encoded(n)
  PROVE  ServingInv'
  <1>1. pc' = n /\ UNCHANGED <<site, req, full, copy>>
    BY DEF Encoded
  <1>2. \E e, l : hdr' = [hdr EXCEPT !.encoding = e, !.length = l]
    BY DEF Encoded
  <1>3. DOMAIN hdr' = HeaderFields
    BY <1>2 DEF ServingInv, Shapes
  <1>4. pc' \in Busy /\ pc' \notin Plain /\ pc' # "content"
    BY <1>1 DEF Busy, Plain
  <1>5. HeadersSet'
    BY <1>4 DEF HeadersSet
  <1>6. ServedIsFile'
    BY <1>1 DEF ServingInv, ServedIsFile
  <1> QED
    BY <1>1, <1>3, <1>4, <1>5, <1>6, GoesOn

\* Both callers of handleContentEncoding.
LEMMA EncodeStep ==
  ASSUME ServingInv, Encode \/ Encode404
  PROVE  ServingInv'
  <1>1. pc \in Busy
    BY DEF Encode, Encode404, Busy
  <1> QED
    BY <1>1, EncodedStep DEF Encode, Encode404

\* serveFile sets the entity tag of the encoding it has chosen.
LEMMA OpenFileStep ==
  ASSUME ServingInv, OpenFile
  PROVE  ServingInv'
  <1>1. pc \in Busy
    BY DEF OpenFile, Busy
  <1>2. CASE site.fails = "open" /\ ServeError(500)
    <2>1. 500 \in PlainStatus
      BY DEF PlainStatus
    <2> QED
      BY <1>1, <1>2, <2>1, ErrorStep
  <1>3. CASE ~ (site.fails = "open" /\ ServeError(500))
    <2>1. /\ hdr' = [hdr EXCEPT !.etag = etag(hdr.encoding, site.sha), !.cached = ~ site.accessControl]
          /\ pc' = "content" /\ UNCHANGED <<site, req, full, copy>>
      BY <1>3 DEF OpenFile
    <2>2. DOMAIN hdr = HeaderFields
      BY DEF ServingInv, Shapes
    <2>3. DOMAIN hdr' = HeaderFields /\ hdr'.etag = etag(hdr.encoding, site.sha) /\ hdr'.encoding = hdr.encoding
      BY <2>1, <2>2 DEF HeaderFields
    <2>4. pc' \in Busy /\ pc' \notin Plain
      BY <2>1 DEF Busy, Plain
    <2>5. HeadersSet'
      BY <2>1, <2>3, <2>4 DEF HeadersSet
    <2>6. ServedIsFile'
      BY <2>1 DEF ServingInv, ServedIsFile
    <2> QED
      BY <1>1, <2>1, <2>3, <2>4, <2>5, <2>6, GoesOn
  <1> QED
    BY <1>2, <1>3


\* A copy that is not modified is what is served: its entity tag is the one
\* that was sent, and that of the file.
LEMMA NotModifiedStep ==
  ASSUME ServingInv, pc = "content", req.revalidates, copy # NoCopy,
         checkPreconditions(req, hdr.etag, site.modtime) = 304
  PROVE  copy.sha = site.sha /\ copy.encoding = hdr.encoding
  <1>1. copy.sha \in Nat \ {0} /\ copy.etag = etag(copy.encoding, copy.sha)
    BY DEF ServingInv, CopyTagged
  <1>2. req.ifNoneMatch = <<Tag(copy.etag)>>
    BY DEF ServingInv, CopySent, Busy
  <1>3. hdr.etag = etag(hdr.encoding, site.sha)
    BY DEF ServingInv, HeadersSet
  <1>4. req.ifNoneMatch = <<Tag(etag(copy.encoding, copy.sha))>>
    BY <1>1, <1>2
  <1>5. hdr.etag = etag(copy.encoding, copy.sha)
    <2>1. copy.sha # 0
      BY <1>1
    <2> QED
      BY SMTT(60), <1>4, <2>1, OneTag
  <1>6. hdr.etag.sha = site.sha /\ hdr.etag.encoding = hdr.encoding
    BY SMTT(60), <1>3, TagParts
  <1>7. hdr.etag.sha = copy.sha /\ hdr.etag.encoding = copy.encoding
    BY SMTT(60), <1>5, TagParts
  <1> QED
    BY <1>6, <1>7

\* The client keeps what it is sent, with its validators.
LEMMA CopyTaggedStep ==
  ASSUME ServingInv, pc = "content", UNCHANGED site,
         \/ copy' = copy
         \/ copy' = [etag |-> hdr.etag, modtime |-> site.modtime, sha |-> site.sha, encoding |-> hdr.encoding]
  PROVE  CopyTagged'
  <1>1. CASE copy' = copy
    BY <1>1 DEF ServingInv, CopyTagged
  <1>2. CASE copy' = [etag |-> hdr.etag, modtime |-> site.modtime, sha |-> site.sha, encoding |-> hdr.encoding]
    <2>1. copy'.sha = site.sha /\ copy'.etag = hdr.etag /\ copy'.encoding = hdr.encoding
      BY <1>2
    <2>2. site.sha \in Nat \ {0} /\ hdr.etag = etag(hdr.encoding, site.sha)
      BY DEF ServingInv, Shapes, HeadersSet
    <2> QED
      BY <2>1, <2>2 DEF CopyTagged
  <1> QED
    BY <1>1, <1>2

\* serveContent: 304, 412 or the file.
LEMMA ContentStep ==
  ASSUME ServingInv, Content
  PROVE  ServingInv'
  <1> DEFINE s == checkPreconditions(req, hdr.etag, site.modtime)
             kept == [etag |-> hdr.etag, modtime |-> site.modtime, sha |-> site.sha, encoding |-> hdr.encoding]
  <1>1. pc = "content" /\ pc \in Busy
    BY DEF Content, Busy
  <1>2. CASE ContentTypeFails /\ ServeError(500)
    <2>1. 500 \in PlainStatus
      BY DEF PlainStatus
    <2>2. site.fails \in {"open", "type", "copy"}
      BY <1>2 DEF ContentTypeFails
    <2> QED
      BY <1>1, <1>2, <2>1, <2>2, ErrorStep
  <1>3. CASE ~ (ContentTypeFails /\ ServeError(500))
    <2>1. /\ serveContent(s) /\ hdr' = [hdr EXCEPT !.length = Announced(s)] /\ pc' = "answered"
          /\ copy' = IF s = 200 /\ req.method = "GET" THEN kept ELSE copy
          /\ UNCHANGED <<site, req, sub, full, asked, hops>>
      BY <1>3 DEF Content
    <2>2. s \in {200, 304, 412}
      BY SMTT(60), Statuses
    <2>3. s = 304 => (req.revalidates /\ copy # NoCopy => copy.sha = site.sha /\ copy.encoding = hdr.encoding)
      BY <1>1, NotModifiedStep
    <2>4. CopyTagged'
      BY <1>1, <2>1, CopyTaggedStep
    <2> HIDE DEF s, kept
    <2>5. answer'.status = s /\ answer'.body = (IF s = 200 /\ req.method # "HEAD" THEN full ELSE NoPath)
      BY <2>1 DEF serveContent, Written
    <2>6. DOMAIN hdr = HeaderFields
      BY DEF ServingInv, Shapes
    <2>7. DOMAIN hdr' = HeaderFields /\ hdr'.length = Announced(s) /\ hdr'.encoding = hdr.encoding
      BY <2>1, <2>6 DEF HeaderFields
    <2>9. Shapes'
      BY <2>1, <2>7 DEF ServingInv, Shapes
    <2>10. s # 200 => copy' = copy
      BY <2>1
    <2>11. CopySent'
      BY <1>1, <2>1, <2>5, <2>10 DEF ServingInv, CopySent, Busy
    <2>12. HeadersSet' /\ ServedIsFile'
      BY <2>1 DEF ServingInv, HeadersSet, ServedIsFile, Plain
    <2>13. NotModifiedIsCurrent'
      <3> SUFFICES ASSUME s = 304, req.revalidates, copy' # NoCopy
                   PROVE  copy'.sha = site.sha /\ copy'.encoding = hdr.encoding
        BY <2>1, <2>5, <2>7 DEF NotModifiedIsCurrent
      <3>1. s # 200
        BY SMTT(60)
      <3>2. copy' = copy
        BY SMTT(60), <3>1, <2>10
      <3> QED
        BY <3>2, <2>3
    <2>14. AnsweredAsAnnounced'
      <3> SUFFICES ASSUME req.method # "HEAD", s # 412
                   PROVE  /\ hdr'.length # NoPath => answer'.body = hdr'.length
                          /\ hdr'.encoding # "" /\ answer'.body # NoPath => answer'.body = full
        BY <2>1, <2>5 DEF AnsweredAsAnnounced
      <3>1. CASE s = 304
        <4>1. s # 200
          BY SMTT(60), <3>1
        <4>2. hdr'.length = NoPath /\ answer'.body = NoPath
          BY <3>1, <4>1, <2>5, <2>7 DEF Announced
        <4> QED
          BY <4>2
      <3>2. CASE s = 200
        <4>1. s # 304 /\ s # 412
          BY SMTT(60), <3>2
        <4>2. hdr'.length = full /\ answer'.body = full
          BY <3>2, <4>1, <2>5, <2>7 DEF Announced
        <4> QED
          BY <4>2
      <3> QED
        BY <2>2, <3>1, <3>2
    <2> QED
      BY <2>4, <2>9, <2>11, <2>12, <2>13, <2>14 DEF ServingInv
  <1> QED
    BY <1>2, <1>3

\* The 404 page of the site is a file, too.
LEMMA NotFoundStep ==
  ASSUME ServingInv, NotFound
  PROVE  ServingInv'
  <1> DEFINE f == resolvePath(<<"404.html">>)
  <1>1. pc \in Busy /\ pc \in Plain
    BY DEF NotFound, Busy, Plain
  <1>2. 404 \in PlainStatus
    BY DEF PlainStatus
  <1>3. \/ ServeError(404)
        \/ /\ f.err = "" /\ full' = f.path /\ pc' = "encode404"
           /\ UNCHANGED <<site, req, sub, hdr, answer, copy, asked, hops>>
    BY DEF NotFound
  <1>4. CASE /\ f.err = "" /\ full' = f.path /\ pc' = "encode404"
             /\ UNCHANGED <<site, req, sub, hdr, answer, copy, asked, hops>>
    <2>1. f.path \in DOMAIN site.tree /\ site.tree[f.path] = File
      BY <1>4, ResolvedIs DEF Resolved
    <2>2. ServedIsFile'
      BY <1>4, <2>1 DEF ServedIsFile
    <2>3. pc' \in Busy /\ pc' \in Plain
      BY <1>4 DEF Busy, Plain
    <2>4. DOMAIN hdr' = HeaderFields
      BY <1>4 DEF ServingInv, Shapes
    <2>5. HeadersSet'
      BY <1>1, <1>4 DEF ServingInv, HeadersSet
    <2> QED
      BY <1>1, <1>4, <2>2, <2>3, <2>4, <2>5, GoesOn
  <1> QED
    BY <1>1, <1>2, <1>3, <1>4, ErrorStep

\* The 404 page is sent, or the generic one.
LEMMA Custom404Step ==
  ASSUME ServingInv, Custom404
  PROVE  ServingInv'
  <1>1. pc = "custom404" /\ pc \in Busy
    BY DEF Custom404, Busy
  <1>2. CASE site.fails \in {"open", "type"} /\ \E s \in {404, 500} : ServeError(s)
    <2>1. PICK s \in {404, 500} : ServeError(s)
      BY <1>2
    <2>2. s \in PlainStatus
      BY DEF PlainStatus
    <2>3. site.fails \in {"open", "type", "copy"}
      BY <1>2
    <2> QED
      BY <1>1, <2>1, <2>2, <2>3, ErrorStep
  <1>3. CASE ~ (site.fails \in {"open", "type"} /\ \E s \in {404, 500} : ServeError(s))
    <2> DEFINE b == IF req.method = "HEAD" THEN NoPath ELSE IF site.fails = "copy" THEN ErrorPage ELSE full
    <2>1. /\ Written(404, b) /\ hdr' = [hdr EXCEPT !.length = full] /\ pc' = "answered"
          /\ UNCHANGED <<site, req, sub, full, copy, asked, hops>>
      BY <1>3 DEF Custom404
    <2>2. DOMAIN hdr = HeaderFields
      BY DEF ServingInv, Shapes
    <2>3. DOMAIN hdr' = HeaderFields /\ hdr'.length = full
      BY <2>1, <2>2 DEF HeaderFields
    <2>4. Shapes' /\ CopyTagged' /\ CopySent'
      BY <1>1, <2>1, <2>3, ClientRests DEF ServingInv
    <2>5. HeadersSet' /\ ServedIsFile'
      BY <2>1 DEF ServingInv, HeadersSet, ServedIsFile, Plain
    <2>6. answer'.status = 404 /\ answer'.body = b
      BY <2>1 DEF Written
    <2>7. answer'.status # 304
      BY SMTT(60), <2>6
    <2>8. NotModifiedIsCurrent'
      BY <2>7 DEF NotModifiedIsCurrent
    <2>9. AnsweredAsAnnounced'
      <3>1. req.method # "HEAD" /\ site.fails \notin {"open", "type", "copy"} => answer'.body = full
        BY <2>6
      <3> HIDE DEF b
      <3> QED
        BY <2>1, <2>3, <3>1 DEF AnsweredAsAnnounced
    <2> QED
      BY <2>4, <2>5, <2>8, <2>9 DEF ServingInv
  <1> QED
    BY <1>2, <1>3

\* Every step keeps the invariant.
LEMMA ServingStepInv == ServingInv /\ [Next]_vars => ServingInv'
  <1> SUFFICES ASSUME ServingInv, [Next]_vars PROVE ServingInv'
    OBVIOUS
  <1>1. CASE UNCHANGED vars
    <2>1. UNCHANGED <<site, req, pc, full, hdr, answer, copy>>
      BY <1>1 DEF vars
    <2>2. Shapes' /\ CopyTagged' /\ CopySent' /\ HeadersSet'
      BY <2>1 DEF ServingInv, Shapes, CopyTagged, CopySent, HeadersSet
    <2>3. ServedIsFile' /\ NotModifiedIsCurrent' /\ AnsweredAsAnnounced'
      BY <2>1 DEF ServingInv, ServedIsFile, NotModifiedIsCurrent, AnsweredAsAnnounced
    <2> QED
      BY <2>2, <2>3 DEF ServingInv
  <1>2. CASE Next
    BY <1>2, AskStep, FollowStep, DeployStep, RootFailsStep, TryFileStep, TryRedirectsStep, EncodeStep,
       OpenFileStep, ContentStep, NotFoundStep, Custom404Step DEF Next
  <1> QED
    BY <1>1, <1>2

\* The invariant holds for any sites, requests and deployments.
THEOREM ServingInvariance == Spec => []ServingInv
  BY ServingInitInv, ServingStepInv, PTL DEF Spec


\* etag, checkPreconditions: whatever the deployments, encodings and times are, a
\* client that sends the validators of its copy is told 304 only if its copy is
\* what it would be sent.
THEOREM NotModifiedOnlyIfCurrent == Spec => []NotModifiedIsCurrent
  <1>1. ServingInv => NotModifiedIsCurrent
    BY DEF ServingInv
  <1> QED
    BY <1>1, ServingInvariance, PTL

\* serveFile, writeNotModified: what is announced is what follows, whatever the
\* site, the request and the encodings are.
THEOREM BodyIsAnnounced == Spec => []AnsweredAsAnnounced
  <1>1. ServingInv => AnsweredAsAnnounced
    BY DEF ServingInv
  <1> QED
    BY <1>1, ServingInvariance, PTL

\* resolvePath: wherever symlinks lead, what is opened and sent is a regular
\* file below the root of the site, also on the way to the 404 page.
THEOREM OnlyFilesAreServed == Spec => []ServedIsFile
  <1>1. ServingInv => ServedIsFile
    BY DEF ServingInv
  <1> QED
    BY <1>1, ServingInvariance, PTL

-----------------------------------------------------------------------------
(* Redirects to directories                                                *)

DoubleSlash(to) == Len(to) >= 2 /\ to[Len(to)] = "" /\ to[Len(to) - 1] = ""

\* A client that has followed a redirect asks for a path with a slash, and is
\* only sent on from there by a redirect of _redirects.
SettleInv ==
  /\ DOMAIN site = SiteFields
  /\ site.scene \in DOMAIN Asks
  /\ site.rewrite.status = 302 => ~ DoubleSlash(site.rewrite.to)
  /\ DOMAIN req = RequestFields
  /\ req.url \in Seq(Segment) /\ req.url # <<>>
  /\ hops \in {0, 1}
  /\ hops = 1 => endsWithSlash(req.url)
  /\ pc = "answered" /\ answer.status = 302 =>
       ~ endsWithSlash(req.url) \/ (site.rewrite.status = 302 /\ answer.body = site.rewrite.to)


\* A list with one more element.
LEMMA Longer ==
  ASSUME NEW S, NEW u \in Seq(S), NEW e \in S, u # <<>>
  PROVE  /\ Append(u, e) \in Seq(S) /\ Append(u, e) # <<>>
         /\ Len(Append(u, e)) >= 2
         /\ Append(u, e)[Len(Append(u, e))] = e
         /\ Append(u, e)[Len(Append(u, e)) - 1] = u[Len(u)]
  <1>1. Append(u, e) \in Seq(S) /\ Len(Append(u, e)) = Len(u) + 1
    BY SMTT(60)
  <1>2. Append(u, e)[Len(u) + 1] = e
    BY SMTT(60)
  <1>3. Len(u) \in Nat /\ Len(u) # 0
    BY SMTT(60)
  <1>4. Append(u, e)[Len(u)] = u[Len(u)]
    BY SMTT(60), <1>3
  <1>6. Append(u, e) # <<>>
    BY SMTT(60)
  <1> DEFINE w == Append(u, e)
  <1> HIDE DEF w
  <1>7. Len(w) = Len(u) + 1 /\ w[Len(u) + 1] = e /\ w[Len(u)] = u[Len(u)]
    BY <1>1, <1>2, <1>4 DEF w
  <1>8. Len(w) >= 2 /\ w[Len(w)] = e /\ w[Len(w) - 1] = u[Len(u)]
    BY SMTT(60), <1>3, <1>7
  <1> QED
    BY <1>1, <1>6, <1>8 DEF w

\* A path with a slash at its end, and with one more.
LEMMA AddSlash ==
  ASSUME NEW u \in Seq(Segment), u # <<>>
  PROVE  /\ Append(u, "") \in Seq(Segment) /\ Append(u, "") # <<>> /\ endsWithSlash(Append(u, ""))
         /\ endsWithSlash(u) => DoubleSlash(Append(u, ""))
  <1> DEFINE v == Append(u, "")
  <1>1. "" \in Segment
    BY DEF Segment
  <1>2. v \in Seq(Segment) /\ v # <<>> /\ Len(v) >= 2 /\ v[Len(v)] = "" /\ v[Len(v) - 1] = u[Len(u)]
    BY <1>1, Longer
  <1> HIDE DEF v
  <1> QED
    BY <1>2 DEF v, endsWithSlash, Last, DoubleSlash

\* A step that neither asks nor sends the client elsewhere.
LEMMA NotSent ==
  ASSUME SettleInv, UNCHANGED <<site, req, hops>>, pc' # "answered" \/ answer'.status # 302
  PROVE  SettleInv'
  BY DEF SettleInv

\* A new request.
LEMMA StartSettles ==
  ASSUME SettleInv, NEW r, NEW h \in {0, 1}, Start(r, h), DOMAIN r = RequestFields,
         r.url \in Seq(Segment), r.url # <<>>, h = 1 => endsWithSlash(r.url)
  PROVE  SettleInv'
  <1>1. req' = r /\ hops' = h /\ pc' = "tryFile" /\ site' = site
    BY DEF Start
  <1>2. pc' # "answered"
    BY <1>1
  <1> QED
    BY <1>1, <1>2 DEF SettleInv

\* Nothing was followed at first.
LEMMA SettleInit == Init => SettleInv
  <1> SUFFICES ASSUME Init PROVE SettleInv
    OBVIOUS
  <1>1. site \in Site /\ req \in Asks[site.scene] /\ pc = "ask" /\ hops = 0
    BY DEF Init
  <1>2. DOMAIN site = SiteFields /\ site.scene \in DOMAIN Asks
    BY <1>1, SiteShape
  <1>3. DOMAIN req = RequestFields /\ req.url \in Seq(Segment) /\ req.url # <<>>
    BY <1>1, <1>2, RequestShape, RequestUrl
  <1>4. site.rewrite.status = 302 => ~ DoubleSlash(site.rewrite.to)
    BY <1>1, RedirectAssumption DEF DoubleSlash
  <1>5. hops \in {0, 1} /\ ~ (hops = 1)
    BY SMTT(60), <1>1
  <1> QED
    BY <1>1, <1>2, <1>3, <1>4, <1>5 DEF SettleInv

\* Asking anew, following a redirect, a deployment.
LEMMA AskSettles ==
  ASSUME SettleInv, NEW r \in Asks[site.scene], Ask(r)
  PROVE  SettleInv'
  <1> DEFINE v == Validated(r)
  <1>1. DOMAIN r = RequestFields /\ r.url \in Seq(Segment) /\ r.url # <<>>
    <2>1. site.scene \in DOMAIN Asks
      BY DEF SettleInv
    <2> QED
      BY <2>1, RequestShape, RequestUrl
  <1>2. DOMAIN v = RequestFields /\ v.url = r.url
    BY <1>1 DEF Validated, RequestFields
  <1>3. Start(v, 0)
    BY DEF Ask
  <1> HIDE DEF v
  <1>4. v.url \in Seq(Segment) /\ v.url # <<>>
    BY <1>1, <1>2
  <1>5. 0 \in {0, 1} /\ ~ (0 = 1)
    BY SMTT(60)
  <1> QED
    BY <1>2, <1>3, <1>4, <1>5, StartSettles

\* From a path with a slash nothing is followed.
LEMMA FollowSettles ==
  ASSUME SettleInv, Follow
  PROVE  SettleInv'
  <1> DEFINE r == [req EXCEPT !.url = answer.body]
             u == req.url
  <1>1. pc = "answered" /\ answer.status = 302 /\ answer.body = Append(u, "") /\ Start(r, hops + 1)
    BY DEF Follow
  <1>2. u \in Seq(Segment) /\ u # <<>> /\ DOMAIN req = RequestFields
    BY DEF SettleInv
  <1>3. /\ Append(u, "") \in Seq(Segment) /\ Append(u, "") # <<>> /\ endsWithSlash(Append(u, ""))
        /\ endsWithSlash(u) => DoubleSlash(Append(u, ""))
    BY <1>2, AddSlash
  <1>4. DOMAIN r = RequestFields /\ r.url = Append(u, "")
    BY <1>1, <1>2 DEF RequestFields
  <1>5. ~ endsWithSlash(u)
    <2>1. ~ endsWithSlash(u) \/ (site.rewrite.status = 302 /\ answer.body = site.rewrite.to)
      BY <1>1 DEF SettleInv
    <2>2. site.rewrite.status = 302 => ~ DoubleSlash(site.rewrite.to)
      BY DEF SettleInv
    <2>3. endsWithSlash(u) => DoubleSlash(answer.body)
      BY <1>1, <1>3
    <2> QED
      BY <2>1, <2>2, <2>3
  <1>6. hops # 1 /\ hops \in {0, 1}
    BY <1>5 DEF SettleInv
  <1>7. hops + 1 \in {0, 1}
    BY SMTT(60), <1>6
  <1> DEFINE h == hops + 1
  <1> HIDE DEF r, h
  <1>8. r.url \in Seq(Segment) /\ r.url # <<>> /\ endsWithSlash(r.url)
    BY <1>3, <1>4
  <1>9. Start(r, h) /\ h \in {0, 1} /\ DOMAIN r = RequestFields
    BY <1>1, <1>4, <1>7 DEF h
  <1> QED
    BY <1>8, <1>9, StartSettles

\* A deployment keeps the rules.
LEMMA DeploySettles ==
  ASSUME SettleInv, NEW t, Deploy(t)
  PROVE  SettleInv'
  <1>1. site' = [site EXCEPT !.sha = site.sha + 1, !.modtime = t] /\ pc' = "deployed" /\ UNCHANGED <<req, hops>>
    BY DEF Deploy
  <1>2. DOMAIN site = SiteFields
    BY DEF SettleInv
  <1>3. DOMAIN site' = SiteFields /\ site'.scene = site.scene /\ site'.rewrite = site.rewrite
    BY <1>1, <1>2 DEF SiteFields
  <1>4. pc' # "answered"
    BY <1>1
  <1> QED
    BY <1>1, <1>3, <1>4 DEF SettleInv

\* A directory is only redirected to without a slash; _redirects sends to the
\* path of its rule.
LEMMA TryFileSettles ==
  ASSUME SettleInv, TryFile
  PROVE  SettleInv'
  <1> DEFINE f == FindFile
  <1>1. \/ f.err = "dir" /\ RedirectTo(302, Append(req.url, ""))
        \/ pc' = "answered" /\ Written(200, f.path) /\ UNCHANGED <<site, req, hops>>
        \/ Go(IF sub.rewritten THEN "notFound" ELSE "tryRedirects")
        \/ pc' = "encode" /\ UNCHANGED <<site, req, hops>>
    BY DEF TryFile, RedirectTo
  <1>2. CASE f.err = "dir" /\ RedirectTo(302, Append(req.url, ""))
    <2>1. ~ endsWithSlash(req.url) /\ UNCHANGED <<site, req, hops>>
      BY <1>2, FoundIs DEF RedirectTo
    <2> QED
      BY <2>1 DEF SettleInv
  <1> HIDE DEF f
  <1>3. CASE pc' = "answered" /\ Written(200, f.path) /\ UNCHANGED <<site, req, hops>>
    <2>1. answer'.status = 200
      BY <1>3 DEF Written
    <2>2. answer'.status # 302
      BY SMTT(60), <2>1
    <2> QED
      BY <1>3, <2>2, NotSent
  <1>4. CASE Go(IF sub.rewritten THEN "notFound" ELSE "tryRedirects")
    <2>1. pc' # "answered" /\ UNCHANGED <<site, req, hops>>
      BY <1>4 DEF Go
    <2> QED
      BY <2>1, NotSent
  <1>5. CASE pc' = "encode" /\ UNCHANGED <<site, req, hops>>
    <2>1. pc' # "answered"
      BY <1>5
    <2> QED
      BY <1>5, <2>1, NotSent
  <1> QED
    BY <1>1, <1>2, <1>3, <1>4, <1>5

\* A rule sends to its own path.
LEMMA TryRedirectsSettles ==
  ASSUME SettleInv, TryRedirects
  PROVE  SettleInv'
  <1>1. UNCHANGED <<site, req, hops>>
    BY DEF TryRedirects, Go, RedirectTo
  <1>2. CASE RedirectTo(site.rewrite.status, site.rewrite.to)
    <2>1. answer'.status = site.rewrite.status /\ answer'.body = site.rewrite.to
      BY <1>2 DEF RedirectTo, Written
    <2> QED
      BY <1>1, <2>1 DEF SettleInv
  <1>3. CASE ~ RedirectTo(site.rewrite.status, site.rewrite.to)
    <2>1. pc' = "notFound" \/ pc' = "tryFile"
      BY <1>3 DEF TryRedirects, Go
    <2>2. pc' # "answered"
      BY <2>1
    <2> QED
      BY <1>1, <2>2, NotSent
  <1> QED
    BY <1>2, <1>3

\* The other steps: they go on, or answer with another status.
LEMMA OthersSettle ==
  ASSUME SettleInv, RootFails \/ Encode \/ OpenFile \/ Content \/ NotFound \/ Encode404 \/ Custom404
  PROVE  SettleInv'
  <1>1. ASSUME NEW s \in {404, 500}, ServeError(s)
        PROVE  SettleInv'
    <2>1. answer'.status = s /\ UNCHANGED <<site, req, hops>>
      BY <1>1 DEF ServeError, Written
    <2>2. answer'.status # 302
      BY SMTT(60), <2>1
    <2> QED
      BY <2>1, <2>2, NotSent
  <1>2. ASSUME NEW n \in {"tryRedirects", "notFound", "open", "custom404", "content", "encode404"}, pc' = n,
               UNCHANGED <<site, req, hops>>
        PROVE  SettleInv'
    <2>1. pc' # "answered"
      BY <1>2
    <2> QED
      BY <1>2, <2>1, NotSent
  <1>3. CASE RootFails
    <2>1. ServeError(404) \/ ServeError(500) \/ Go("tryRedirects") \/ Go("notFound")
      BY <1>3 DEF RootFails
    <2> QED
      BY <1>1, <1>2, <2>1 DEF Go
  <1>4. CASE Encode
    BY <1>4, <1>2 DEF Encode, Encoded
  <1>5. CASE Encode404
    BY <1>5, <1>2 DEF Encode404, Encoded
  <1>6. CASE OpenFile
    BY <1>6, <1>1, <1>2 DEF OpenFile
  <1>7. CASE Content
    <2> DEFINE s == checkPreconditions(req, hdr.etag, site.modtime)
    <2>1. ServeError(500) \/ (serveContent(s) /\ UNCHANGED <<site, req, hops>>)
      BY <1>7 DEF Content
    <2>2. s \in {200, 304, 412}
      BY SMTT(60), Statuses
    <2> HIDE DEF s
    <2>3. CASE serveContent(s) /\ UNCHANGED <<site, req, hops>>
      <3>1. answer'.status = s
        BY <2>3 DEF serveContent, Written
      <3>2. answer'.status # 302
        BY SMTT(60), <2>2, <3>1
      <3> QED
        BY <2>3, <3>2, NotSent
    <2>4. CASE ServeError(500)
      BY <1>1, <2>4
    <2> QED
      BY <2>1, <2>3, <2>4
  <1>8. CASE NotFound
    <2>1. ServeError(404) \/ (pc' = "encode404" /\ UNCHANGED <<site, req, hops>>)
      BY <1>8 DEF NotFound
    <2> QED
      BY <1>1, <1>2, <2>1
  <1>9. CASE Custom404
    <2>1. CASE \E s \in {404, 500} : ServeError(s)
      BY <1>1, <2>1
    <2>2. CASE ~ \E s \in {404, 500} : ServeError(s)
      <3>1. PICK b : Written(404, b) /\ UNCHANGED <<site, req, hops>>
        BY <1>9, <2>2 DEF Custom404
      <3>2. answer'.status = 404
        BY <3>1 DEF Written
      <3>3. answer'.status # 302
        BY SMTT(60), <3>2
      <3> QED
        BY <3>1, <3>3, NotSent
    <2> QED
      BY <2>1, <2>2
  <1> QED
    BY <1>3, <1>4, <1>5, <1>6, <1>7, <1>8, <1>9

\* tryFile, redirectPath: whatever the tree and the rules of _redirects are, a
\* client that is sent to a directory's path with a slash is not sent on again.
THEOREM DirectoryRedirectsSettle == Spec => []DirectoryRedirectSettles
  <1>1. ASSUME SettleInv, [Next]_vars
        PROVE  SettleInv'
    <2>1. CASE UNCHANGED vars
      BY <1>1, <2>1 DEF SettleInv, vars
    <2>2. CASE Next
      BY <1>1, <2>2, AskSettles, FollowSettles, DeploySettles, TryFileSettles, TryRedirectsSettles, OthersSettle DEF Next
    <2> QED
      BY <1>1, <2>1, <2>2
  <1>2. SettleInv => DirectoryRedirectSettles
    BY SMTT(60) DEF SettleInv, DirectoryRedirectSettles
  <1> QED
    BY <1>1, <1>2, SettleInit, PTL DEF Spec

=============================================================================
