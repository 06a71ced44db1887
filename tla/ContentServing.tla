---------------------------- MODULE ContentServing ----------------------------
(***************************************************************************)
(* Choosing the encoding of a file (internal/httputil, handleContentEnco-  *)
(* ding of internal/serving/disk) and answering conditional requests       *)
(* (internal/vfs/serving; net/http does the same for seekable files).      *)
(*                                                                         *)
(* A header is a sequence of parsed items, Bad where parsing fails.  Times *)
(* are whole seconds, 0 for the zero time; qualities are 0, 1, 2 for 0,    *)
(* 0.5 and 1.                                                              *)
(***************************************************************************)
EXTENDS Integers, Sequences, SequencesExt, FiniteSetsExt

Bad == [value |-> "bad", q |-> -1]
Accept(value, q) == [value |-> value, q |-> q]
Encodings == <<"br", "gzip">>   \* compressedEncodingsPriority

-----------------------------------------------------------------------------
(* ParseAccept, NegotiateContentEncoding                                   *)

\* The items in front of the first that cannot be parsed.
Parsed(line) ==
  LET bad == {i \in DOMAIN line : line[i] = Bad}
  IN IF bad = {} THEN line ELSE SubSeq(line, 1, Min(bad) - 1)

ParseAccept(lines) == FlattenSeq([i \in DOMAIN lines |-> Parsed(lines[i])])

Matches(spec, offer) == spec.value \in {"*", offer}

\* Mutant: the first offer the client names is taken.
NegotiateFirst(specs, offers) ==
  LET m == SelectSeq(offers, LAMBDA o : \E i \in DOMAIN specs : Matches(specs[i], o))
  IN IF m = <<>> THEN "identity" ELSE m[1]

NegotiateContentEncoding(specs, offers) ==
  LET Offer(best, offer) ==
        FoldLeft(LAMBDA b, spec : IF spec.q > b.q /\ Matches(spec, offer) THEN [q |-> spec.q, offer |-> offer] ELSE b,
                 best, specs)
      best == FoldLeft(Offer, [q |-> -1, offer |-> "identity"], offers)
  IN IF best.q = 0 THEN "" ELSE best.offer

\* The encoding that is served, "" for none: files are the compressed files
\* there are.  A range is never taken of a compressed file.
handleContentEncoding(r, files) ==
  LET offers == SelectSeq(Encodings, LAMBDA e : e \in files) \o <<"identity">>
      e      == NegotiateContentEncoding(ParseAccept(r.accept), offers)
  IN IF ~ r.range /\ e \in files THEN e ELSE ""

\* Mutant: the encodings of a file have the same ETag.
etagOfSite(encoding, sha) == [sha |-> sha, encoding |-> ""]

etag(encoding, sha) == [sha |-> sha, encoding |-> encoding]

-----------------------------------------------------------------------------
(* Preconditions                                                           *)

\* An item of If-Match or If-None-Match: "*", an entity tag, or not one (BadTag).
Tag(t)  == [weak |-> FALSE, tag |-> t]
Weak(t) == [weak |-> TRUE, tag |-> t]
Star    == Tag([sha |-> 0, encoding |-> "*"])
BadTag  == Tag([sha |-> 0, encoding |-> "bad"])
Absent  == <<Tag([sha |-> 0, encoding |-> "absent"])>>   \* no such header

\* scanETag ends the loop where there is no entity tag.
Scanned(tags) ==
  LET bad == {i \in DOMAIN tags : tags[i] = BadTag}
  IN Range(IF bad = {} THEN tags ELSE SubSeq(tags, 1, Min(bad) - 1))

checkIfMatch(r, tag) ==
  IF r.ifMatch = Absent THEN "none"
  ELSE IF \E t \in Scanned(r.ifMatch) : t = Star \/ (t.tag = tag /\ ~ t.weak) THEN "true" ELSE "false"

checkIfUnmodifiedSince(r, modtime) ==
  IF r.ifUnmodifiedSince = 0 \/ modtime = 0 THEN "none"
  ELSE IF modtime <= r.ifUnmodifiedSince THEN "true" ELSE "false"

checkIfNoneMatch(r, tag) ==
  IF r.ifNoneMatch = Absent THEN "none"
  ELSE IF \E t \in Scanned(r.ifNoneMatch) : t = Star \/ t.tag = tag THEN "false" ELSE "true"

checkIfModifiedSince(r, modtime) ==
  IF r.method \notin {"GET", "HEAD"} \/ r.ifModifiedSince = 0 \/ modtime = 0 THEN "none"
  ELSE IF modtime <= r.ifModifiedSince THEN "false" ELSE "true"

\* The status: 304, 412 or, when nothing stands against it, 200.
checkPreconditions(r, tag, modtime) ==
  LET im == checkIfMatch(r, tag)
      ch == IF im = "none" THEN checkIfUnmodifiedSince(r, modtime) ELSE im
      nm == checkIfNoneMatch(r, tag)
  IN IF ch = "false" THEN 412
     ELSE IF nm = "false" THEN IF r.method \in {"GET", "HEAD"} THEN 304 ELSE 412
     ELSE IF nm = "none" /\ checkIfModifiedSince(r, modtime) = "false" THEN 304
     ELSE 200
=============================================================================
