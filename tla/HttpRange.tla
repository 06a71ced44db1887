------------------------------ MODULE HttpRange ------------------------------
(***************************************************************************)
(* Reading a remote archive in ranges (internal/httprange: resource.go,    *)
(* http_reader.go, http_ranged_reader.go).                                 *)
(*                                                                         *)
(* A Resource remembers the object it was opened on.  Every Reader has a   *)
(* range of it, an offset and at most one response whose body it is        *)
(* reading.  Between a request and its answer, and between two reads of a  *)
(* body, other readers run, the URL is renewed, and the object is replaced *)
(* or removed.                                                             *)
(***************************************************************************)
EXTENDS Integers, FiniteSets

CONSTANTS
  Handle,      \* Readers in use at the same time
  Size,        \* Size[v]: length of version v of the object
  MaxUrl,      \* bound on the URLs GitLab hands out
  None         \* no value

Version == DOMAIN Size

ASSUME RangeAssumption ==
  /\ IsFiniteSet(Handle)
  /\ 1 \in Version /\ Version \subseteq Nat   \* 1: what is there at the start
  /\ \A v \in Version : Size[v] \in Nat \ {0}
  /\ MaxUrl \in Nat \ {0}

VARIABLES
  server,   \* the remote server
  res,      \* the Resource, or None
  rd,       \* the Readers
  gauge     \* metric HTTPRangeOpenRequests

vars == <<server, res, rd, gauge>>

Url == 1..MaxUrl

(***************************************************************************)
(* validator: what the answers identify the object with, ETag or only      *)
(* Last-Modified.  ranges: whether Range is honoured.  oldest: URLs before *)
(* it have expired.                                                        *)
(***************************************************************************)
Server == [version : Version, exists : BOOLEAN, ranges : BOOLEAN,
           validator : {"ETag", "LastModified"}, oldest : Url]

Resource == [version : Version, size : Nat \ {0}, url : Url, err : {None, "NotFound", "NotSupported"}]

Body == [status : {200, 206}, version : Version, pos : Nat, last : Nat, broken : BOOLEAN]

\* sent: the request Do is waiting for; first and last are its Range.
Sent == [first : Nat, last : Int, url : Url]

\* seen: the versions of the object that what Read has handed out is of (a
\* history the code does not keep).
Reader == [start : Nat, size : Nat, offset : Nat,
           sent : Sent \cup {None}, body : Body \cup {None}, seen : SUBSET Version]

ASSUME NoneAssumption ==
  /\ None \notin Version /\ None \notin Handle
  /\ None \notin {"NotFound", "NotSupported"}
  /\ None \notin Resource /\ None \notin Body /\ None \notin Sent

-----------------------------------------------------------------------------
(* The server (external)                                                   *)

NoAnswer == 0   \* Do returns an error

Response(status, first, last) ==
  [status |-> status, version |-> server.version, pos |-> first, last |-> last, broken |-> FALSE]

\* The answers to a request.
Answers(q, ifRange) ==
  LET length == Size[server.version]
      last   == IF q.last < length THEN q.last ELSE length - 1
  IN {Response(NoAnswer, 0, 0), Response(500, 0, 0)} \cup
     {IF q.url < server.oldest THEN Response(403, 0, 0)
      ELSE IF ~ server.exists THEN Response(404, 0, 0)
      ELSE IF ~ server.ranges \/ ifRange \notin {None, server.version} THEN Response(200, 0, length - 1)
      ELSE IF q.first >= length THEN Response(416, 0, 0)
      ELSE Response(206, q.first, last)}

Replace ==
  /\ server.version + 1 \in Version
  /\ server' = [server EXCEPT !.version = @ + 1, !.exists = TRUE]
  /\ UNCHANGED <<res, rd, gauge>>

Remove ==
  /\ server.exists
  /\ server' = [server EXCEPT !.exists = FALSE]
  /\ UNCHANGED <<res, rd, gauge>>

ExpireUrl ==
  /\ server.oldest < MaxUrl
  /\ server' = [server EXCEPT !.oldest = @ + 1]
  /\ UNCHANGED <<res, rd, gauge>>

-----------------------------------------------------------------------------
(* Resource                                                                *)

\* The size comes from Content-Length or from Content-Range; nothing is kept
\* of an answer that is neither 200 nor 206.
NewResource(u) ==
  /\ res = None
  /\ \E a \in Answers([first |-> 0, last |-> 0, url |-> u], None) :
       /\ a.status \in {200, 206}
       /\ res' = [version |-> a.version, size |-> Size[a.version], url |-> u, err |-> None]
  /\ UNCHANGED <<server, rd, gauge>>

SetURL(u) ==
  /\ res # None
  /\ res' = [res EXCEPT !.url = u]
  /\ UNCHANGED <<server, rd, gauge>>

\* Request: with an ETag the request carries a header servers ignore, without
\* one it carries If-Range.
IfRange == IF server.validator = "LastModified" THEN res.version ELSE None

-----------------------------------------------------------------------------
(* Reader                                                                  *)

NewReader(offset, size) ==
  [start |-> offset, size |-> size, offset |-> offset, sent |-> None, body |-> None, seen |-> {}]

RangeEnd(r) == r.start + r.size

prepareRequestOK(r) ==
  /\ RangeEnd(r) <= res.size
  /\ r.offset >= r.start /\ r.offset < RangeEnd(r)

\* Read without a response: the first half of ensureResponse.
Send(h) ==
  LET r == rd[h] IN
  /\ r.sent = None /\ r.body = None
  /\ prepareRequestOK(r)
  /\ rd' = [rd EXCEPT ![h].sent = [first |-> r.offset, last |-> RangeEnd(r) - 1, url |-> res.url]]
  /\ gauge' = gauge + 1
  /\ UNCHANGED <<server, res>>

\* The condition on a 200: it starts at the offset, and is of the same ETag.
WholeAnswerOK(r, a) ==
  /\ r.offset = 0
  /\ server.validator = "ETag" => a.version = res.version

\* Mutant: every failure marks the resource.
AnyError(r, a) ==
  IF a.status = 206 \/ (a.status = 200 /\ WholeAnswerOK(r, a)) THEN None
  ELSE IF a.status = 404 THEN "NotFound" ELSE "NotSupported"

\* setResponse: the error it stores in the resource.
ResourceError(r, a) ==
  IF a.status = 404 THEN "NotFound"
  ELSE IF a.status = 416 \/ (a.status = 200 /\ ~ WholeAnswerOK(r, a)) THEN "NotSupported"
  ELSE None

\* Mutant: a refused response stays counted.
ReceiveCounted(h) ==
  LET r == rd[h] IN
  /\ r.sent # None
  /\ \E a \in Answers(r.sent, IfRange) :
       LET ok == a.status = 206 \/ (a.status = 200 /\ WholeAnswerOK(r, a))
           e  == ResourceError(r, a)
       IN /\ rd' = [rd EXCEPT ![h].sent = None, ![h].body = IF ok THEN a ELSE None]
          /\ res' = IF e = None THEN res ELSE [res EXCEPT !.err = e]
          /\ gauge' = IF a.status # NoAnswer THEN gauge ELSE gauge - 1
  /\ UNCHANGED server

\* The second half: Do returns, setResponse keeps the response or refuses it.
Receive(h) ==
  LET r == rd[h] IN
  /\ r.sent # None
  /\ \E a \in Answers(r.sent, IfRange) :
       LET ok == a.status = 206 \/ (a.status = 200 /\ WholeAnswerOK(r, a))
           e  == ResourceError(r, a)
       IN /\ rd' = [rd EXCEPT ![h].sent = None, ![h].body = IF ok THEN a ELSE None]
          /\ res' = IF e = None THEN res ELSE [res EXCEPT !.err = e]
          /\ gauge' = IF ok THEN gauge ELSE gauge - 1
  /\ UNCHANGED server

Seen(r, n) == IF n = 0 THEN r.seen ELSE r.seen \cup {r.body.version}

\* Mutant: a broken body is dropped, and the next Read asks for the rest.
ReadBodyResumes(h, n, breaks) ==
  LET r == rd[h] IN
  /\ r.body # None /\ ~ r.body.broken
  /\ r.body.pos + n <= r.body.last + 1
  /\ rd' = [rd EXCEPT ![h] =
              [r EXCEPT !.body = IF breaks THEN None ELSE [r.body EXCEPT !.pos = r.body.pos + n],
                        !.offset = r.offset + n, !.seen = Seen(r, n)]]
  /\ gauge' = gauge - (IF breaks THEN 1 ELSE 0)
  /\ UNCHANGED <<server, res>>

\* Read hands out n bytes of the body, or, when the connection breaks, n bytes
\* and an error: the offset stays and the body has nothing more to give.
ReadBody(h, n, breaks) ==
  LET r == rd[h] IN
  /\ r.body # None /\ ~ r.body.broken
  /\ r.body.pos + n <= r.body.last + 1
  /\ rd' = [rd EXCEPT ![h] =
              [r EXCEPT !.body = [r.body EXCEPT !.pos = r.body.pos + n, !.broken = breaks],
                        !.offset = IF breaks THEN r.offset ELSE r.offset + n,
                        !.seen = Seen(r, n)]]
  /\ UNCHANGED <<server, res, gauge>>

\* Close
Closed(r) == [r EXCEPT !.body = None]

CloseDec(r) == IF r.body = None THEN 0 ELSE 1

\* Mutant: the response is kept.
SeekKeeps(h, offset) ==
  LET r == rd[h] IN
  /\ r.sent = None
  /\ offset >= r.start /\ offset <= RangeEnd(r)
  /\ rd' = [rd EXCEPT ![h] = [r EXCEPT !.offset = offset]]
  /\ UNCHANGED <<server, res, gauge>>

\* Seek to an offset inside the range, whatever it is relative to; anything
\* else is an error that changes nothing.
Seek(h, offset) ==
  LET r     == rd[h]
      moves == offset # r.offset
  IN
  /\ r.sent = None
  /\ offset >= r.start /\ offset <= RangeEnd(r)
  /\ rd' = [rd EXCEPT ![h] = [(IF moves THEN Closed(r) ELSE r) EXCEPT !.offset = offset]]
  /\ gauge' = gauge - (IF moves THEN CloseDec(r) ELSE 0)
  /\ UNCHANGED <<server, res>>

-----------------------------------------------------------------------------
(* Properties                                                              *)

\* The gauge of open requests counts the requests without an answer and the
\* bodies not yet closed, on every error path of ensureResponse too.
GaugeExact == gauge = Cardinality({h \in Handle : rd[h].sent # None \/ rd[h].body # None})

\* A resource gets an error, which has its archive discarded as corrupted, only
\* when the object was removed or replaced or the server has no ranges: never
\* because a URL expired, a request failed or the server was in trouble.
RefusedOnlyIfChanged ==
  res # None /\ res.err # None =>
    ~ server.exists \/ server.version # res.version \/ ~ server.ranges
=============================================================================
