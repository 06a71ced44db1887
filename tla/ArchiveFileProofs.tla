-------------------------- MODULE ArchiveFileProofs --------------------------
(***************************************************************************)
(* Proofs about ArchiveFile and the HttpRange readers it uses, for any     *)
(* number of readers and deflate readers, any archive and any sequence of  *)
(* objects that replace it.                                                *)
(***************************************************************************)
EXTENDS ArchiveFile, FiniteSetTheorems, TLAPS

\* The prover of a leaf that names none.
USE ZenonT(60)

(***************************************************************************)
(* The inductive invariant.  A reader waits for an answer or has a body,   *)
(* never both; its request is the rest of its range, which lies in the     *)
(* object that was opened.  A whole answer is only kept at offset 0, where *)
(* no file's data is, so what a request reads until EOF is a partial       *)
(* answer, which ends with the range.  A deflated file has handed out      *)
(* nothing that is not of the body it still has: no step drops that body   *)
(* but the one that closes the file.                                       *)
(***************************************************************************)
SentOK(r, R) ==
  r.sent # None =>
    /\ r.body = None
    /\ r.sent.first = r.offset /\ r.sent.last = RangeEnd(r) - 1
    /\ r.offset < RangeEnd(r) /\ RangeEnd(r) <= Size[R.version]

BodyOK(r, use, R, validator) ==
  r.body # None =>
    /\ ~ r.body.broken => r.body.pos = r.offset
    /\ r.body.status = 206 => r.body.last < RangeEnd(r)
    /\ use = "open" => r.body.status = 206
    /\ validator = "LastModified" /\ r.body.status = 206 => r.body.version = R.version

UseOK(r, use, R) ==
  /\ use \in {"free", "closing"} => r.sent = None /\ r.body = None
  /\ use # "free" => R # None /\ r.start <= r.offset /\ r.offset <= RangeEnd(r)
  /\ use = "open" => r.start > 0

ReaderOK(r, use, R, validator) == SentOK(r, R) /\ BodyOK(r, use, R, validator) /\ UseOK(r, use, R)

SeenOK(r, f, R, validator) ==
  /\ f.by # None => \A v \in r.seen : r.body # None /\ v = r.body.version
  /\ f.use = "open" /\ validator = "LastModified" => r.seen \subseteq {R.version}

ReadersOK == \A h \in Handle : ReaderOK(rd[h], file[h].use, res, server.validator)

ResourceOK ==
  /\ read # "no" => res # None
  /\ res # None => res.version <= server.version /\ res.size = Size[res.version]

HistoryOK == \A h \in Handle : SeenOK(rd[h], file[h], res, server.validator)

\* Only an open file has a deflateReader, until it is put back, and what is
\* fetched is an entry.
UsedFor(f) ==
  /\ f.by # None => f.use \in {"open", "closing"}
  /\ f.use = "closing" => f.by # None
  /\ f.use = "fetch" => f.entry \in Entry

FileOK == \A h \in Handle : UsedFor(file[h])

\* OneHolder, of a file that is being closed too.
Holding ==
  \A h \in Handle : file[h].by # None =>
    flate[file[h].by] = h /\ file[h].by \notin pool

Inv ==
  /\ TypeOK /\ ReadersOK /\ HistoryOK /\ ResourceOK /\ FileOK
  /\ RefusedOnlyIfChanged /\ Holding

-----------------------------------------------------------------------------
(* Operators                                                               *)

\* A whole answer starts at 0, a partial one where it was asked to and ends no
\* later; what setResponse refuses tells that the object was not as expected.
AnswerOK(q, ifRange, a) ==
  /\ a.status \in {200, 206} => a \in Body
  /\ a.version = server.version /\ a.broken = FALSE
  /\ a.status = 206 => /\ a.pos = q.first /\ a.last <= q.last
                       /\ ifRange \in {None, server.version}
  /\ a.status = 200 => /\ a.pos = 0
                       /\ ~ server.ranges \/ ifRange \notin {None, server.version}
  /\ a.status = 404 => ~ server.exists
  /\ a.status = 416 => q.first >= Size[server.version]

\* The server's answers are so.
LEMMA AnswersOK ==
  ASSUME server \in Server, NEW q \in Sent, q.last >= 0,
         NEW ifRange, NEW a \in Answers(q, ifRange)
  PROVE  AnswerOK(q, ifRange, a)
  <1> DEFINE length == Size[server.version]
             last == IF q.last < length THEN q.last ELSE length - 1
  <1>1. /\ server.version \in Version /\ length \in Nat \ {0}
        /\ q.first \in Nat /\ q.last \in Int
    BY RangeAssumption DEF Server, Sent
  <1>2. last \in Nat /\ length - 1 \in Nat /\ last <= q.last
    BY <1>1, SMTT(60)
  <1>3. \/ \E s \in {0, 500, 403} : a = Response(s, 0, 0)
        \/ ~ server.exists /\ a = Response(404, 0, 0)
        \/ /\ ~ server.ranges \/ ifRange \notin {None, server.version}
           /\ a = Response(200, 0, length - 1)
        \/ q.first >= length /\ a = Response(416, 0, 0)
        \/ ifRange \in {None, server.version} /\ a = Response(206, q.first, last)
    BY SMTT(60) DEF Answers, NoAnswer
  <1> HIDE DEF last
  <1>4. CASE \E s \in {0, 500, 403} : a = Response(s, 0, 0)
    BY <1>4, SMTT(60) DEF Response, AnswerOK
  <1>5. CASE ~ server.exists /\ a = Response(404, 0, 0)
    BY <1>5, SMTT(60) DEF Response, AnswerOK
  <1>6. CASE /\ ~ server.ranges \/ ifRange \notin {None, server.version}
             /\ a = Response(200, 0, length - 1)
    BY <1>1, <1>2, <1>6, SMTT(60) DEF Body, Response, AnswerOK
  <1>7. CASE q.first >= length /\ a = Response(416, 0, 0)
    BY <1>7, SMTT(60) DEF Response, AnswerOK
  <1>8. CASE ifRange \in {None, server.version} /\ a = Response(206, q.first, last)
    BY <1>1, <1>2, <1>8, SMTT(60) DEF Body, Response, AnswerOK
  <1> QED
    BY <1>3, <1>4, <1>5, <1>6, <1>7, <1>8

\* A reader stays as it should be while the resource keeps its object.
LEMMA ReaderKept ==
  ASSUME NEW r, NEW use, NEW R, NEW Q, NEW validator, ReaderOK(r, use, R, validator),
         R # None => Q # None /\ Q.version = R.version
  PROVE  ReaderOK(r, use, Q, validator)
  BY DEF ReaderOK, SentOK, BodyOK, UseOK

\* So does what it has handed out, of a file that is in use.
LEMMA SeenKept ==
  ASSUME NEW r, NEW f, NEW R, NEW Q, NEW validator, SeenOK(r, f, R, validator),
         f.use = "open" => Q.version = R.version
  PROVE  SeenOK(r, f, Q, validator)
  BY DEF SeenOK

-----------------------------------------------------------------------------
(* What a step of one handle has to show                                   *)

\* Whether the gauge counts a reader.
Counted(r) == r.sent # None \/ r.body # None
Count(r) == IF Counted(r) THEN 1 ELSE 0

\* How a step changes the gauge: with the requests of the one reader it changes.
GaugeMoves ==
  \/ rd' = rd /\ gauge' = gauge
  \/ \E h \in Handle, r \in Reader : /\ rd' = [rd EXCEPT ![h] = r]
                                    /\ gauge' = gauge + Count(r) - Count(rd[h])

\* The other readers are not touched.
LEMMA HandleStep ==
  ASSUME Inv, NEW h \in Handle, NEW r \in Reader, NEW f \in File,
         rd' = [rd EXCEPT ![h] = r], file' = [file EXCEPT ![h] = f],
         server' = server,
         res # None => res' # None /\ res'.version = res.version,
         ReaderOK(r, f.use, res', server.validator),
         SeenOK(r, f, res', server.validator), UsedFor(f),
         gauge' = gauge + Count(r) - Count(rd[h])
  PROVE  /\ rd' \in [Handle -> Reader] /\ file' \in [Handle -> File] /\ gauge' \in Int
         /\ ReadersOK' /\ HistoryOK' /\ FileOK' /\ GaugeMoves
  <1>1. rd \in [Handle -> Reader] /\ file \in [Handle -> File] /\ gauge \in Int
    BY DEF Inv, TypeOK
  <1>2. rd' \in [Handle -> Reader] /\ file' \in [Handle -> File]
    BY <1>1
  <1>3. gauge' \in Int
    BY <1>1, SMTT(60) DEF Count
  <1>4. ReadersOK'
    <2>1. SUFFICES ASSUME NEW g \in Handle
                   PROVE  ReaderOK(rd'[g], file'[g].use, res', server.validator)
      BY DEF ReadersOK
    <2>2. CASE g = h
      BY <1>1, <2>2
    <2>3. CASE g # h
      <3>1. rd'[g] = rd[g] /\ file'[g] = file[g]
        BY <1>1, <2>3
      <3>2. ReaderOK(rd[g], file[g].use, res, server.validator)
        BY DEF Inv, ReadersOK
      <3> QED
        BY <3>1, <3>2, ReaderKept
    <2> QED
      BY <2>2, <2>3
  <1>5. HistoryOK'
    <2>1. SUFFICES ASSUME NEW g \in Handle
                   PROVE  SeenOK(rd'[g], file'[g], res', server.validator)
      BY DEF HistoryOK
    <2>2. CASE g = h
      BY <1>1, <2>2
    <2>3. CASE g # h
      <3>1. rd'[g] = rd[g] /\ file'[g] = file[g]
        BY <1>1, <2>3
      <3>2. SeenOK(rd[g], file[g], res, server.validator)
        BY DEF Inv, HistoryOK
      <3>3. file[g].use = "open" => res'.version = res.version
        BY DEF Inv, ReadersOK, ReaderOK, UseOK
      <3> QED
        BY <3>1, <3>2, <3>3, SeenKept
    <2> QED
      BY <2>2, <2>3
  <1>6. FileOK'
    BY <1>1 DEF Inv, FileOK
  <1>7. GaugeMoves
    BY DEF GaugeMoves
  <1> QED
    BY <1>2, <1>3, <1>4, <1>5, <1>6, <1>7

\* Nothing is held at the start.
LEMMA InitInv == Init => Inv
  <1> SUFFICES ASSUME Init PROVE Inv
    OBVIOUS
  <1> USE RangeAssumption, NoneAssumption, ArchiveAssumption
  <1> DEFINE r == NewReader(0, 0)
  <1>1. /\ r \in Reader /\ r.sent = None /\ r.body = None
        /\ \A h \in Handle : rd[h] = r /\ file[h] = [use |-> "free", entry |-> None, by |-> None]
    BY DEF Init, NewReader, Reader
  <1>2. TypeOK
    <2>1. server \in Server
      <3>1. PICK ranges \in BOOLEAN, v \in {"ETag", "LastModified"} :
              server = [version |-> 1, exists |-> TRUE, ranges |-> ranges, validator |-> v, oldest |-> 1]
        BY SMTT(60) DEF Init
      <3>2. 1 \in Url
        BY SMTT(60) DEF Url
      <3> QED
        BY <3>1, <3>2 DEF Server
    <2>2. rd \in [Handle -> Reader] /\ file \in [Handle -> File]
      BY <1>1 DEF Init, File
    <2> QED
      BY <2>1, <2>2, SMTT(60) DEF Init, TypeOK
  <1>3. ReadersOK
    BY <1>1, SMTT(60) DEF ReadersOK, ReaderOK, SentOK, BodyOK, UseOK
  <1>4. ResourceOK /\ RefusedOnlyIfChanged
    BY DEF Init, ResourceOK, RefusedOnlyIfChanged
  <1>5. FileOK /\ Holding
    BY <1>1, SMTT(60) DEF FileOK, UsedFor, Holding
  <1>6. HistoryOK
    <2>1. r.seen = {}
      BY DEF NewReader
    <2> HIDE DEF r
    <2> QED
      BY <1>1, <2>1 DEF HistoryOK, SeenOK
  <1> QED
    BY <1>2, <1>3, <1>4, <1>5, <1>6 DEF Inv

\* Steps that change no reader and keep the object that was opened.
LEMMA OtherStep ==
  ASSUME Inv, rd' = rd, file' = file, flate' = flate, pool' = pool, gauge' = gauge,
         server'.validator = server.validator,
         res # None => res' # None /\ res'.version = res.version
  PROVE  ReadersOK' /\ HistoryOK' /\ FileOK' /\ Holding' /\ GaugeMoves
  <1>1. ReadersOK'
    BY ReaderKept DEF Inv, ReadersOK
  <1>2. HistoryOK'
    <2>1. SUFFICES ASSUME NEW g \in Handle
                   PROVE  SeenOK(rd[g], file[g], res', server.validator)
      BY DEF HistoryOK
    <2>2. SeenOK(rd[g], file[g], res, server.validator)
      BY DEF Inv, HistoryOK
    <2>3. file[g].use = "open" => res'.version = res.version
      BY DEF Inv, ReadersOK, ReaderOK, UseOK
    <2> QED
      BY <2>2, <2>3, SeenKept
  <1>3. FileOK' /\ Holding'
    BY DEF Inv, FileOK, Holding
  <1> QED
    BY <1>1, <1>2, <1>3 DEF GaugeMoves

\* NewResource remembers the object that is there.
LEMMA OpenResourceStep ==
  ASSUME Inv, OpenResource
  PROVE  Inv' /\ GaugeMoves
  <1> USE RangeAssumption, NoneAssumption
  <1>1. PICK u \in Url : NewResource(u)
    BY DEF OpenResource
  <1> DEFINE q == [first |-> 0, last |-> 0, url |-> u]
  <1>2. PICK a \in Answers(q, None) :
          /\ a.status \in {200, 206}
          /\ res' = [version |-> a.version, size |-> Size[a.version], url |-> u, err |-> None]
    BY <1>1 DEF NewResource
  <1>3. a.version = server.version
    <2>1. q \in Sent /\ q.last >= 0 /\ server \in Server
      BY SMTT(60) DEF Sent, Inv, TypeOK
    <2> HIDE DEF q
    <2>2. AnswerOK(q, None, a)
      BY <2>1, AnswersOK
    <2> QED
      BY <2>2 DEF AnswerOK
  <1>4. res = None /\ UNCHANGED <<server, rd, gauge, file, offsets, flate, pool>> /\ read' = "reading"
    BY <1>1 DEF NewResource, OpenResource
  <1>5. server.version \in Version /\ server.version \in Nat
    BY DEF Inv, TypeOK, Server
  <1>6. /\ res' \in Resource /\ res' # None /\ res'.version = server.version
        /\ res'.size = Size[server.version] /\ res'.err = None
    BY <1>2, <1>3, <1>5, SMTT(60) DEF Resource
  <1>7. TypeOK'
    BY <1>4, <1>6 DEF Inv, TypeOK
  <1>8. ResourceOK'
    BY <1>4, <1>5, <1>6, SMTT(60) DEF ResourceOK
  <1>9. RefusedOnlyIfChanged'
    BY <1>6 DEF RefusedOnlyIfChanged
  <1> QED
    BY <1>4, <1>7, <1>8, <1>9, OtherStep DEF Inv

\* SetURL keeps the object.
LEMMA RenewURLStep ==
  ASSUME Inv, NEW u \in Url, RenewURL(u)
  PROVE  Inv' /\ GaugeMoves
  <1>1. /\ res # None /\ res' = [res EXCEPT !.url = u]
        /\ UNCHANGED <<server, rd, gauge, file, read, offsets, flate, pool>>
    BY DEF RenewURL, SetURL
  <1>2. res \in Resource
    BY <1>1 DEF Inv, TypeOK
  <1>3. /\ res' \in Resource /\ res' # None
        /\ res'.version = res.version /\ res'.size = res.size /\ res'.err = res.err
    BY <1>1, <1>2, NoneAssumption DEF Resource
  <1>4. TypeOK'
    BY <1>1, <1>3 DEF Inv, TypeOK
  <1>5. ResourceOK' /\ RefusedOnlyIfChanged'
    BY <1>1, <1>3 DEF Inv, ResourceOK, RefusedOnlyIfChanged
  <1> QED
    BY <1>1, <1>3, <1>4, <1>5, OtherStep DEF Inv

\* A replacement has a version of its own; nothing brings an object back.
LEMMA EnvironmentStep ==
  ASSUME Inv, Environment
  PROVE  Inv' /\ GaugeMoves
  <1> USE RangeAssumption
  <1>1. UNCHANGED <<res, rd, gauge, file, read, offsets, flate, pool>>
    BY DEF Environment, Quiet, Replace, Remove, ExpireUrl
  <1>2. server \in Server /\ (res # None => res.version \in Nat)
    BY DEF Inv, TypeOK, Resource
  <1>3. server.version \in Nat /\ server.oldest \in Nat
    <2>1. server.version \in Version /\ server.oldest \in Url
      BY <1>2 DEF Server
    <2>2. server.version \in Nat
      BY <2>1
    <2>3. server.oldest \in Nat
      BY <2>1, SMTT(60) DEF Url
    <2> QED
      BY <2>2, <2>3
  <1>4. /\ server' \in Server
        /\ server'.validator = server.validator /\ server'.ranges = server.ranges
        /\ \/ server'.version = server.version /\ (server'.exists => server.exists)
           \/ server'.version = server.version + 1
    <2>1. CASE Replace
      BY <1>2, <1>3, <2>1 DEF Replace, Server
    <2>2. CASE Remove
      BY <1>2, <2>2 DEF Remove, Server
    <2>3. CASE ExpireUrl
      BY <1>2, <1>3, <2>3, SMTT(60) DEF ExpireUrl, Server, Url
    <2> QED
      BY <2>1, <2>2, <2>3 DEF Environment
  <1>5. TypeOK'
    BY <1>1, <1>4 DEF Inv, TypeOK
  <1>6. ResourceOK'
    BY <1>1, <1>2, <1>3, <1>4, SMTT(60) DEF Inv, ResourceOK
  <1>7. RefusedOnlyIfChanged'
    BY <1>1, <1>2, <1>3, <1>4, SMTT(60) DEF Inv, ResourceOK, RefusedOnlyIfChanged
  <1> QED
    BY <1>1, <1>4, <1>5, <1>6, <1>7, OtherStep DEF Inv

\* The cache of offsets is of no concern to the readers.
LEMMA ForgetOffsetStep ==
  ASSUME Inv, NEW e \in Entry, ForgetOffset(e)
  PROVE  Inv' /\ GaugeMoves
  <1>1. /\ UNCHANGED <<server, res, rd, gauge, file, read, flate, pool>>
        /\ offsets' \subseteq offsets
    BY DEF ForgetOffset
  <1>2. TypeOK'
    BY <1>1 DEF Inv, TypeOK
  <1>3. ResourceOK' /\ RefusedOnlyIfChanged'
    BY <1>1 DEF Inv, ResourceOK, RefusedOnlyIfChanged
  <1> QED
    BY <1>1, <1>2, <1>3, OtherStep DEF Inv

\* A reader that has read nothing is as it should be.
LEMMA NewReaderOK ==
  ASSUME NEW start \in Nat, NEW size \in Nat, NEW use, NEW R, NEW validator,
         use # "free" => R # None, use = "open" => start > 0
  PROVE  /\ NewReader(start, size) \in Reader
         /\ ReaderOK(NewReader(start, size), use, R, validator)
         /\ Count(NewReader(start, size)) = 0
  <1> DEFINE r == NewReader(start, size)
  <1>1. /\ r \in Reader /\ r.start = start /\ r.offset = start /\ r.sent = None /\ r.body = None
        /\ RangeEnd(r) = start + size
    BY DEF NewReader, Reader, RangeEnd
  <1> HIDE DEF r
  <1>2. SentOK(r, R) /\ BodyOK(r, use, R, validator) /\ Count(r) = 0
    BY <1>1 DEF SentOK, BodyOK, Count, Counted
  <1>3. UseOK(r, use, R)
    BY <1>1, SMTT(60) DEF UseOK
  <1> QED
    BY <1>1, <1>2, <1>3 DEF ReaderOK, r

\* It has no history.
LEMMA NewReaderSeen ==
  ASSUME NEW start, NEW size, NEW f, NEW R, NEW validator
  PROVE  SeenOK(NewReader(start, size), f, R, validator)
  <1>1. NewReader(start, size).seen = {}
    BY DEF NewReader
  <1> QED
    BY <1>1 DEF SeenOK

\* Steps of one handle that leave the deflateReaders and the resource alone.
LEMMA PlainStep ==
  ASSUME Inv, NEW h \in Handle, NEW r \in Reader, NEW f \in File,
         rd' = [rd EXCEPT ![h] = r], file' = [file EXCEPT ![h] = f],
         server' = server, res' = res, flate' = flate, pool' = pool,
         ReaderOK(r, f.use, res, server.validator),
         SeenOK(r, f, res, server.validator),
         f.by \in {None, file[h].by}, UsedFor(f),
         gauge' = gauge + Count(r) - Count(rd[h]),
         read' \in {read, "ok", "error"}, res # None,
         offsets' \subseteq Entry
  PROVE  Inv' /\ GaugeMoves
  <1>1. /\ rd' \in [Handle -> Reader] /\ file' \in [Handle -> File] /\ gauge' \in Int
        /\ ReadersOK' /\ HistoryOK' /\ FileOK' /\ GaugeMoves
    BY HandleStep
  <1>2. TypeOK'
    BY <1>1 DEF Inv, TypeOK
  <1>3. ResourceOK'
    BY DEF Inv, ResourceOK
  <1>4. RefusedOnlyIfChanged'
    BY DEF Inv, RefusedOnlyIfChanged
  <1>5. Holding'
    BY DEF Inv, TypeOK, Holding
  <1> QED
    BY <1>1, <1>2, <1>3, <1>4, <1>5 DEF Inv

\* A reader in use has a resource.
LEMMA InUse ==
  ASSUME Inv, NEW h \in Handle
  PROVE  /\ rd[h] \in Reader /\ file[h] \in File
         /\ ReaderOK(rd[h], file[h].use, res, server.validator)
         /\ file[h].use # "free" => res # None
         /\ res # None => res \in Resource
         /\ server \in Server
  BY DEF Inv, TypeOK, ReadersOK, ReaderOK, UseOK

\* zip.NewReader reads through a new reader.
LEMMA OpenDirectoryStep ==
  ASSUME Inv, NEW h \in Handle, OpenDirectory(h)
  PROVE  Inv' /\ GaugeMoves
  <1> DEFINE r == NewReader(0, res.size)
             f == [use |-> "directory", entry |-> None, by |-> None]
  <1>1. /\ rd' = [rd EXCEPT ![h] = r] /\ file' = [file EXCEPT ![h] = f]
        /\ UNCHANGED <<server, res, gauge, read, offsets, flate, pool>>
        /\ file[h].use = "free" /\ read # "no"
    BY DEF OpenDirectory, Use, Free
  <1>2. res # None /\ res.size \in Nat /\ f \in File
    BY <1>1 DEF Inv, ResourceOK, TypeOK, Resource, File
  <1>3. Count(rd[h]) = 0 /\ gauge \in Int
    BY <1>1, InUse DEF ReaderOK, UseOK, Count, Counted, Inv, TypeOK
  <1>4. r \in Reader /\ ReaderOK(r, f.use, res, server.validator) /\ Count(r) = 0
    BY <1>2, NewReaderOK, SMTT(60)
  <1>5. offsets \subseteq Entry
    BY DEF Inv, TypeOK
  <1>6. SeenOK(r, f, res, server.validator) /\ UsedFor(f)
    BY NewReaderSeen DEF UsedFor
  <1> HIDE DEF r
  <1>7. gauge' = gauge + Count(r) - Count(rd[h])
    BY <1>1, <1>3, <1>4, SMTT(60)
  <1> QED
    BY <1>1, <1>2, <1>4, <1>5, <1>6, <1>7, PlainStep

\* What is dropped is a new reader, and the gauge gives up its response.
LEMMA Dropped ==
  ASSUME Inv, NEW h \in Handle, rd[h].sent = None, Drop(h), gauge' = gauge - CloseDec(rd[h])
  PROVE  /\ rd' = [rd EXCEPT ![h] = NewReader(0, 0)]
         /\ gauge' = gauge + Count(NewReader(0, 0)) - Count(rd[h])
  <1>1. rd[h] \in Reader /\ gauge \in Int
    BY InUse DEF Inv, TypeOK
  <1>2. Closed(rd[h]).body = None
    BY <1>1 DEF Closed, Reader
  <1>3. [NewReader(0, 0) EXCEPT !.body = None] = NewReader(0, 0)
    BY SMTT(60) DEF NewReader
  <1>4. rd' = [rd EXCEPT ![h] = NewReader(0, 0)]
    BY <1>2, <1>3 DEF Drop
  <1>5. Count(NewReader(0, 0)) = 0 /\ Count(rd[h]) = CloseDec(rd[h])
    BY DEF NewReader, Count, Counted, CloseDec
  <1> QED
    BY <1>1, <1>4, <1>5, SMTT(60) DEF CloseDec

\* The directory is read, or could not be: its reader is closed.
LEMMA CloseDirectoryStep ==
  ASSUME Inv, NEW h \in Handle, CloseDirectory(h)
  PROVE  Inv' /\ GaugeMoves
  <1> DEFINE r == NewReader(0, 0)
             f == [use |-> "free", entry |-> None, by |-> None]
  <1>1. /\ file' = [file EXCEPT ![h] = f] /\ read' \in {"ok", "error"}
        /\ UNCHANGED <<server, res, offsets, flate, pool>>
        /\ file[h].use = "directory"
    BY DEF CloseDirectory, Use
  <1>2. res # None /\ f \in File /\ offsets \subseteq Entry
    BY <1>1, InUse DEF File, Inv, TypeOK
  <1>3. r \in Reader /\ ReaderOK(r, f.use, res, server.validator)
    BY NewReaderOK, SMTT(60)
  <1>4. rd' = [rd EXCEPT ![h] = r] /\ gauge' = gauge + Count(r) - Count(rd[h])
    BY Dropped DEF CloseDirectory
  <1>5. SeenOK(r, f, res, server.validator) /\ UsedFor(f)
    BY NewReaderSeen DEF UsedFor
  <1> HIDE DEF r
  <1> QED
    BY <1>1, <1>2, <1>3, <1>4, <1>5, PlainStep

\* A header that could not be read: the reader is closed.
LEMMA FetchFailsStep ==
  ASSUME Inv, NEW h \in Handle, FetchFails(h)
  PROVE  Inv' /\ GaugeMoves
  <1> DEFINE r == NewReader(0, 0)
             f == [use |-> "free", entry |-> None, by |-> None]
  <1>1. /\ file' = [file EXCEPT ![h] = f]
        /\ UNCHANGED <<server, res, read, offsets, flate, pool>>
        /\ file[h].use = "fetch"
    BY DEF FetchFails, Use
  <1>2. res # None /\ f \in File /\ offsets \subseteq Entry
    BY <1>1, InUse DEF File, Inv, TypeOK
  <1>3. r \in Reader /\ ReaderOK(r, f.use, res, server.validator)
    BY NewReaderOK, SMTT(60)
  <1>4. rd' = [rd EXCEPT ![h] = r] /\ gauge' = gauge + Count(r) - Count(rd[h])
    BY Dropped DEF FetchFails
  <1>5. SeenOK(r, f, res, server.validator) /\ UsedFor(f)
    BY NewReaderSeen DEF UsedFor
  <1> HIDE DEF r
  <1> QED
    BY <1>1, <1>2, <1>3, <1>4, <1>5, PlainStep

\* A header is read through a new reader.
LEMMA OpenFetchStep ==
  ASSUME Inv, NEW h \in Handle, NEW e \in Entry, OpenFetch(h, e)
  PROVE  Inv' /\ GaugeMoves
  <1> DEFINE n == Data[e] - Header[e]
             r == NewReader(Header[e], n)
             f == [use |-> "fetch", entry |-> e, by |-> None]
  <1>1. /\ rd' = [rd EXCEPT ![h] = r] /\ file' = [file EXCEPT ![h] = f]
        /\ UNCHANGED <<server, res, gauge, read, offsets, flate, pool>>
        /\ file[h].use = "free" /\ read # "no"
    BY DEF OpenFetch, Use, Free
  <1>2. res # None /\ f \in File /\ offsets \subseteq Entry
    BY <1>1 DEF Inv, ResourceOK, TypeOK, File
  <1>3. Count(rd[h]) = 0 /\ gauge \in Int
    BY <1>1, InUse DEF ReaderOK, UseOK, Count, Counted, Inv, TypeOK
  <1>4. r \in Reader /\ ReaderOK(r, f.use, res, server.validator) /\ Count(r) = 0
    <2>1. Header[e] \in Nat /\ n \in Nat
      BY ArchiveAssumption, SMTT(60)
    <2> HIDE DEF n
    <2> QED
      BY <1>2, <2>1, NewReaderOK, SMTT(60)
  <1>5. SeenOK(r, f, res, server.validator) /\ UsedFor(f)
    BY NewReaderSeen DEF UsedFor
  <1> HIDE DEF r
  <1>6. gauge' = gauge + Count(r) - Count(rd[h])
    BY <1>1, <1>3, <1>4, SMTT(60)
  <1> QED
    BY <1>1, <1>2, <1>4, <1>5, <1>6, PlainStep

\* A deflateReader that is taken from the pool is nobody's, like a new one.
LEMMA TakeDeflater ==
  ASSUME Inv, NEW h \in Handle, NEW f \in File, NEW d \in Deflater,
         file' = [file EXCEPT ![h] = f], f.by = d, newDeflateReader(h, d)
  PROVE  /\ flate' \in [Deflater -> Handle \cup {None}] /\ pool' \subseteq Deflater
         /\ Holding'
  <1>1. /\ file \in [Handle -> File] /\ flate \in [Deflater -> Handle \cup {None}]
        /\ pool \subseteq Deflater
    BY DEF Inv, TypeOK
  <1>2. flate' = [flate EXCEPT ![d] = h] /\ pool' = pool \ {d}
    BY DEF newDeflateReader
  <1>3. flate' \in [Deflater -> Handle \cup {None}] /\ pool' \subseteq Deflater
    BY <1>1, <1>2
  <1>4. Holding'
    <2>1. SUFFICES ASSUME NEW g \in Handle, file'[g].by # None
                   PROVE  flate'[file'[g].by] = g /\ file'[g].by \notin pool'
      BY DEF Holding
    <2>2. CASE g = h
      BY <1>1, <1>2, <2>2
    <2>3. CASE g # h
      <3>1. file'[g] = file[g]
        BY <1>1, <2>3
      <3>2. flate[file[g].by] = g /\ file[g].by \notin pool /\ file[g].by \in Deflater
        BY <1>1, <2>1, <3>1 DEF Inv, Holding, File
      <3>3. file[g].by # d
        BY <3>2 DEF newDeflateReader, Got, Made
      <3> QED
        BY <1>1, <1>2, <3>1, <3>2, <3>3
    <2> QED
      BY <2>2, <2>3
  <1> QED
    BY <1>3, <1>4

\* The end of Open, of whatever method the file is.
LEMMA SectionReaderStep ==
  ASSUME Inv, NEW h \in Handle, NEW e \in Entry, SectionReader(h, e),
         file[h].by = None, res # None,
         gauge' = gauge - Count(rd[h]),
         offsets' \subseteq Entry,
         UNCHANGED <<server, res, read>>
  PROVE  Inv' /\ GaugeMoves
  <1> DEFINE r == NewReader(Data[e], Length[e])
  <1>1. Data[e] \in Nat /\ Length[e] \in Nat /\ Data[e] > 0
    BY ArchiveAssumption, SMTT(60)
  <1>2. /\ r \in Reader /\ Count(r) = 0
        /\ \A use : ReaderOK(r, use, res, server.validator)
        /\ \A f : SeenOK(r, f, res, server.validator)
    BY <1>1, NewReaderOK, NewReaderSeen
  <1>3. rd' = [rd EXCEPT ![h] = r]
    BY DEF SectionReader
  <1> HIDE DEF r
  <1>4. gauge' = gauge + Count(r) - Count(rd[h])
    BY <1>2, SMTT(60) DEF Count, Inv, TypeOK
  <1>5. CASE \E d \in Deflater : newDeflateReader(h, d) /\ Use(h, "open", e, d)
    <2>1. PICK d \in Deflater : newDeflateReader(h, d) /\ Use(h, "open", e, d)
      BY <1>5
    <2> DEFINE f == [use |-> "open", entry |-> e, by |-> d]
    <2>2. f \in File /\ UsedFor(f) /\ f.by = d /\ file' = [file EXCEPT ![h] = f]
      BY <2>1 DEF File, Use, UsedFor
    <2> HIDE DEF f
    <2>3. /\ rd' \in [Handle -> Reader] /\ file' \in [Handle -> File] /\ gauge' \in Int
          /\ ReadersOK' /\ HistoryOK' /\ FileOK' /\ GaugeMoves
      BY <1>2, <1>3, <1>4, <2>2, HandleStep
    <2>4. /\ flate' \in [Deflater -> Handle \cup {None}] /\ pool' \subseteq Deflater
          /\ Holding'
      BY <2>1, <2>2, TakeDeflater
    <2>5. TypeOK'
      BY <2>3, <2>4 DEF Inv, TypeOK
    <2>6. ResourceOK' /\ RefusedOnlyIfChanged'
      BY DEF Inv, ResourceOK, RefusedOnlyIfChanged
    <2> QED
      BY <2>3, <2>4, <2>5, <2>6 DEF Inv
  <1>6. CASE Use(h, "open", e, None) /\ UNCHANGED <<flate, pool>>
    <2> DEFINE f == [use |-> "open", entry |-> e, by |-> None]
    <2>1. f \in File /\ UsedFor(f) /\ f.by = None /\ file' = [file EXCEPT ![h] = f]
      BY <1>6 DEF File, Use, UsedFor
    <2> HIDE DEF f
    <2> QED
      BY <1>2, <1>3, <1>4, <1>6, <2>1, PlainStep
  <1>7. CASE Use(h, "free", None, None) /\ UNCHANGED <<flate, pool>>
    <2> DEFINE f == [use |-> "free", entry |-> None, by |-> None]
    <2>1. f \in File /\ UsedFor(f) /\ f.by = None /\ file' = [file EXCEPT ![h] = f]
      BY <1>7 DEF File, Use, UsedFor
    <2> HIDE DEF f
    <2> QED
      BY <1>2, <1>3, <1>4, <1>7, <2>1, PlainStep
  <1> QED
    BY <1>5, <1>6, <1>7 DEF SectionReader

\* Open, the offset being known.
LEMMA OpenKnownStep ==
  ASSUME Inv, NEW h \in Handle, NEW e \in Entry, OpenKnown(h, e)
  PROVE  Inv' /\ GaugeMoves
  <1>1. /\ read # "no" /\ file[h].use = "free" /\ SectionReader(h, e)
        /\ UNCHANGED <<server, res, gauge, read, offsets>>
    BY DEF OpenKnown, Free
  <1>2. res # None /\ file[h].by = None /\ offsets' \subseteq Entry /\ gauge \in Int
    BY <1>1 DEF Inv, ResourceOK, FileOK, UsedFor, TypeOK
  <1>3. Count(rd[h]) = 0
    BY <1>1, InUse DEF ReaderOK, UseOK, Count, Counted
  <1>4. gauge' = gauge - Count(rd[h])
    BY <1>1, <1>2, <1>3, SMTT(60)
  <1> QED
    BY <1>1, <1>2, <1>4, SectionReaderStep

\* Open, the header being read: at the end of its range a reader has no request.
LEMMA FetchDoneStep ==
  ASSUME Inv, NEW h \in Handle, FetchDone(h)
  PROVE  Inv' /\ GaugeMoves
  <1> DEFINE e == file[h].entry
  <1>1. /\ file[h].use = "fetch" /\ rd[h].offset = RangeEnd(rd[h])
        /\ SectionReader(h, e) /\ offsets' = offsets \cup {e}
        /\ gauge' = gauge - CloseDec(rd[h])
        /\ UNCHANGED <<server, res, read>>
    BY DEF FetchDone
  <1>2. e \in Entry /\ file[h].by = None /\ offsets \subseteq Entry
    BY <1>1 DEF Inv, FileOK, UsedFor, TypeOK
  <1>3. res # None
    BY <1>1, InUse
  <1>4. rd[h].sent = None
    <2>1. rd[h].offset \in Nat /\ SentOK(rd[h], res)
      BY InUse DEF Reader, ReaderOK
    <2>2. ~ (rd[h].offset < RangeEnd(rd[h]))
      BY <1>1, <2>1, SMTT(60)
    <2> QED
      BY <2>1, <2>2 DEF SentOK
  <1>5. gauge' = gauge - Count(rd[h])
    BY <1>1, <1>4 DEF Count, Counted, CloseDec
  <1> HIDE DEF e
  <1> QED
    BY <1>1, <1>2, <1>3, <1>5, SectionReaderStep

\* A stored file is closed: so is its reader.
LEMMA CloseStoredStep ==
  ASSUME Inv, NEW h \in Handle, CloseStored(h)
  PROVE  Inv' /\ GaugeMoves
  <1> DEFINE r == NewReader(0, 0)
             f == [use |-> "free", entry |-> None, by |-> None]
  <1>1. /\ file' = [file EXCEPT ![h] = f]
        /\ UNCHANGED <<server, res, read, offsets, flate, pool>>
        /\ file[h].use = "open"
    BY DEF CloseStored, Use
  <1>2. res # None /\ f \in File /\ offsets \subseteq Entry
    BY <1>1, InUse DEF File, Inv, TypeOK
  <1>3. r \in Reader /\ ReaderOK(r, f.use, res, server.validator)
    BY NewReaderOK, SMTT(60)
  <1>4. rd' = [rd EXCEPT ![h] = r] /\ gauge' = gauge + Count(r) - Count(rd[h])
    BY Dropped DEF CloseStored
  <1>5. SeenOK(r, f, res, server.validator) /\ UsedFor(f)
    BY NewReaderSeen DEF UsedFor
  <1> HIDE DEF r
  <1> QED
    BY <1>1, <1>2, <1>3, <1>4, <1>5, PlainStep

\* Reads and Close reach the handle's own reader.
LEMMA OwnSource ==
  ASSUME Inv, NEW h \in Handle
  PROVE  Source(h) = h
  BY DEF Inv, Holding, Source

\* The closer of a deflateReader is the reader of the file that is closed.
LEMMA CloseDeflateStep ==
  ASSUME Inv, NEW h \in Handle, CloseDeflate(h)
  PROVE  Inv' /\ GaugeMoves
  <1> DEFINE r == NewReader(0, 0)
             f == [use |-> "closing", entry |-> file[h].entry, by |-> file[h].by]
  <1>1. /\ file' = [file EXCEPT ![h] = f]
        /\ UNCHANGED <<server, res, read, offsets, flate, pool>>
        /\ file[h].use = "open" /\ file[h].by # None /\ rd[h].sent = None
    BY DEF CloseDeflate, Use
  <1>2. res # None /\ f \in File /\ offsets \subseteq Entry
    BY <1>1, InUse DEF File, Inv, TypeOK
  <1>3. r \in Reader /\ ReaderOK(r, f.use, res, server.validator)
    BY <1>2, NewReaderOK, SMTT(60)
  <1>4. Drop(h) /\ gauge' = gauge - CloseDec(rd[h])
    BY OwnSource DEF CloseDeflate
  <1>5. rd' = [rd EXCEPT ![h] = r] /\ gauge' = gauge + Count(r) - Count(rd[h])
    BY <1>1, <1>4, Dropped
  <1>6. SeenOK(r, f, res, server.validator) /\ UsedFor(f)
    BY <1>1, NewReaderSeen DEF UsedFor
  <1> HIDE DEF r
  <1> QED
    BY <1>1, <1>2, <1>3, <1>5, <1>6, PlainStep

\* What is put into the pool no other handle has.
LEMMA PutDeflaterStep ==
  ASSUME Inv, NEW h \in Handle, PutDeflater(h)
  PROVE  Inv' /\ GaugeMoves
  <1> DEFINE r == rd[h]
             f == [use |-> "free", entry |-> None, by |-> None]
             d == file[h].by
  <1>1. /\ file' = [file EXCEPT ![h] = f]
        /\ flate' = [flate EXCEPT ![d] = None] /\ pool' = pool \cup {d}
        /\ UNCHANGED <<server, res, rd, gauge, read, offsets>>
        /\ file[h].use = "closing"
    BY DEF PutDeflater, Use
  <1>2. f \in File /\ f.by = None /\ f.use = "free" /\ UsedFor(f)
    BY DEF File, UsedFor
  <1>3. /\ file \in [Handle -> File] /\ flate \in [Deflater -> Handle \cup {None}]
        /\ pool \subseteq Deflater /\ d \in Deflater /\ flate[d] = h
    BY <1>1 DEF Inv, TypeOK, File, FileOK, UsedFor, Holding
  <1>4. r \in Reader /\ ReaderOK(r, f.use, res, server.validator)
    BY <1>1, <1>2, InUse DEF ReaderOK, SentOK, BodyOK, UseOK
  <1>5. SeenOK(r, f, res, server.validator)
    BY <1>2 DEF SeenOK
  <1>6. rd' = [rd EXCEPT ![h] = r] /\ gauge' = gauge + Count(r) - Count(rd[h])
    <2>1. rd \in [Handle -> Reader] /\ gauge \in Int /\ Count(r) \in Int
      BY SMTT(60) DEF Inv, TypeOK, Count
    <2>2. rd' = [rd EXCEPT ![h] = r]
      BY <1>1, <2>1
    <2> HIDE DEF r
    <2>3. gauge = gauge + Count(r) - Count(r)
      BY <2>1, SMTT(60)
    <2> QED
      BY <1>1, <2>2, <2>3 DEF r
  <1> HIDE DEF r, f
  <1>7. /\ rd' \in [Handle -> Reader] /\ file' \in [Handle -> File] /\ gauge' \in Int
        /\ ReadersOK' /\ HistoryOK' /\ FileOK' /\ GaugeMoves
    BY <1>1, <1>2, <1>4, <1>5, <1>6, HandleStep
  <1>8. flate' \in [Deflater -> Handle \cup {None}] /\ pool' \subseteq Deflater
    BY <1>1, <1>3
  <1>9. Holding'
    <2>1. SUFFICES ASSUME NEW g \in Handle, file'[g].by # None
                   PROVE  flate'[file'[g].by] = g /\ file'[g].by \notin pool'
      BY DEF Holding
    <2>2. g # h /\ file'[g] = file[g]
      BY <1>1, <1>2, <1>3, <2>1
    <2>3. flate[file[g].by] = g /\ file[g].by \notin pool /\ file[g].by \in Deflater
      BY <1>3, <2>1, <2>2, SMTT(60) DEF Inv, Holding, File
    <2>4. file[g].by # d
      BY <1>3, <2>2, <2>3
    <2> QED
      BY <1>1, <1>3, <2>2, <2>3, <2>4
  <1>10. TypeOK'
    BY <1>1, <1>7, <1>8 DEF Inv, TypeOK
  <1>11. ResourceOK' /\ RefusedOnlyIfChanged'
    BY <1>1 DEF Inv, ResourceOK, RefusedOnlyIfChanged
  <1> QED
    BY <1>7, <1>9, <1>10, <1>11 DEF Inv

\* A handle that keeps its file.
LEMMA SameFile ==
  ASSUME Inv, NEW h \in Handle, NEW r \in Reader,
         rd' = [rd EXCEPT ![h] = r], Quiet, server' = server, res' = res, res # None,
         ReaderOK(r, file[h].use, res, server.validator),
         SeenOK(r, file[h], res, server.validator),
         gauge' = gauge + Count(r) - Count(rd[h])
  PROVE  Inv' /\ GaugeMoves
  <1>1. UNCHANGED <<file, read, offsets, flate, pool>>
    BY DEF Quiet
  <1>2. file' = [file EXCEPT ![h] = file[h]] /\ file[h] \in File /\ offsets \subseteq Entry
    BY <1>1 DEF Inv, TypeOK
  <1>3. UsedFor(file[h])
    BY DEF Inv, FileOK
  <1> DEFINE f == file[h]
  <1>4. /\ f \in File /\ file' = [file EXCEPT ![h] = f] /\ f.by \in {None, file[h].by}
        /\ UsedFor(f) /\ ReaderOK(r, f.use, res, server.validator)
        /\ SeenOK(r, f, res, server.validator)
    BY <1>2, <1>3
  <1> HIDE DEF f
  <1> QED
    BY <1>1, <1>2, <1>4, PlainStep

\* The request of ensureResponse is for the rest of the range.
LEMMA ReadSendStep ==
  ASSUME Inv, NEW h \in Handle, ReadSend(h)
  PROVE  Inv' /\ GaugeMoves
  <1> USE NoneAssumption
  <1> DEFINE s == rd[h]
             q == [first |-> s.offset, last |-> RangeEnd(s) - 1, url |-> res.url]
             r == [s EXCEPT !.sent = q]
  <1>1. /\ file[h].use \notin {"free", "closing"}
        /\ s.sent = None /\ s.body = None /\ prepareRequestOK(s)
        /\ rd' = [rd EXCEPT ![h] = r] /\ gauge' = gauge + 1
        /\ UNCHANGED <<server, res>> /\ Quiet
    <2>1. file[h].use \notin {"free", "closing"} /\ Send(h) /\ Quiet
      BY OwnSource DEF ReadSend, CanRead
    <2> QED
      BY <2>1 DEF Send
  <1>2. /\ s \in Reader /\ res # None /\ res \in Resource
        /\ ReaderOK(s, file[h].use, res, server.validator)
    BY <1>1, InUse
  <1>3. s.offset \in Nat /\ s.start \in Nat /\ s.size \in Nat /\ RangeEnd(s) \in Nat
    BY <1>2, SMTT(60) DEF Reader, RangeEnd
  <1>4. q \in Sent /\ q # None
    BY <1>2, <1>3, SMTT(60) DEF Sent, Resource
  <1> HIDE DEF q, s
  <1>5. /\ r \in Reader /\ r.sent = q /\ r.body = None
        /\ r.start = s.start /\ r.offset = s.offset /\ r.size = s.size /\ r.seen = s.seen
    BY <1>1, <1>2, <1>4 DEF Reader
  <1>6. RangeEnd(r) = RangeEnd(s)
    BY <1>5 DEF RangeEnd
  <1> HIDE DEF r
  <1>7. Count(r) = 1 /\ Count(s) = 0 /\ gauge \in Int
    BY <1>1, <1>4, <1>5 DEF Count, Counted, Inv, TypeOK
  <1>8. SentOK(r, res)
    <2>1. s.offset < RangeEnd(s) /\ RangeEnd(s) <= Size[res.version]
      BY <1>1, <1>2 DEF prepareRequestOK, Inv, ResourceOK
    <2> QED
      BY <1>5, <1>6, <2>1, SMTT(60) DEF SentOK, q
  <1>9. BodyOK(r, file[h].use, res, server.validator) /\ UseOK(r, file[h].use, res)
    BY <1>1, <1>2, <1>5, <1>6 DEF BodyOK, UseOK, ReaderOK
  <1>10. gauge' = gauge + Count(r) - Count(s)
    BY <1>1, <1>7, SMTT(60)
  <1>11. SeenOK(r, file[h], res, server.validator)
    <2>1. SeenOK(s, file[h], res, server.validator)
      BY DEF Inv, HistoryOK, s
    <2> QED
      BY <1>1, <1>5, <2>1 DEF SeenOK
  <1> QED
    BY <1>1, <1>2, <1>5, <1>8, <1>9, <1>10, <1>11, SameFile DEF ReaderOK, s

\* Read moves the body and the offset together, or breaks the body, and does not
\* leave the range: a request gets no more than the partial answer has.
LEMMA ReadDataStep ==
  ASSUME Inv, NEW h \in Handle, ReadData(h)
  PROVE  Inv' /\ GaugeMoves
  <1> USE NoneAssumption
  <1> DEFINE s == rd[h]
             use == file[h].use
  <1>1. use \notin {"free", "closing"} /\ s.body # None /\ Quiet
    BY OwnSource DEF ReadData, CanRead
  <1>2. PICK n \in 0..s.body.last + 1, breaks \in BOOLEAN : Wanted(h, n) /\ ReadBody(h, n, breaks)
    BY OwnSource DEF ReadData
  <1>3. /\ s \in Reader /\ res # None /\ s.body \in Body
        /\ ReaderOK(s, use, res, server.validator)
    BY <1>1, InUse DEF Reader
  <1> HIDE DEF s, use
  <1>4. /\ s.offset \in Nat /\ s.start \in Nat /\ s.size \in Nat /\ RangeEnd(s) \in Nat
        /\ s.body.pos \in Nat /\ s.body.last \in Nat /\ n \in Nat
    BY <1>3, SMTT(60) DEF Reader, Body, RangeEnd
  <1> DEFINE b == [s.body EXCEPT !.pos = s.body.pos + n, !.broken = breaks]
             offset == IF breaks THEN s.offset ELSE s.offset + n
             seen == Seen(s, n)
             r == [s EXCEPT !.body = b, !.offset = offset, !.seen = seen]
  <1>5. ~ s.body.broken /\ s.body.pos + n <= s.body.last + 1
    BY <1>2 DEF ReadBody, s
  <1>6. rd' = [rd EXCEPT ![h] = r] /\ UNCHANGED <<server, res, gauge>>
    BY <1>2 DEF ReadBody, s
  <1>7. /\ b \in Body /\ b.pos = s.body.pos + n /\ b.broken = breaks
        /\ b.status = s.body.status /\ b.last = s.body.last /\ b.version = s.body.version
    <2> DEFINE c == s.body
               pos == c.pos + n
    <2>1. c \in Body /\ pos \in Nat
      BY <1>3, <1>4, SMTT(60)
    <2>2. b = [c EXCEPT !.pos = pos, !.broken = breaks]
      OBVIOUS
    <2> HIDE DEF c, pos, b
    <2>3. /\ b \in Body /\ b.pos = pos /\ b.broken = breaks
          /\ b.status = c.status /\ b.last = c.last /\ b.version = c.version
      BY <2>1, <2>2 DEF Body
    <2> QED
      BY <2>3 DEF c, pos
  <1>8. offset \in Nat /\ (~ breaks => offset = s.offset + n) /\ (breaks => offset = s.offset)
    BY <1>4, SMTT(60)
  <1>8a. seen \in SUBSET Version /\ seen \subseteq s.seen \cup {s.body.version}
    <2>1. s.seen \in SUBSET Version /\ s.body.version \in Version
      BY <1>3 DEF Reader, Body
    <2> QED
      BY <2>1 DEF Seen
  <1> HIDE DEF b, offset, seen
  <1>9. /\ r \in Reader /\ r.body = b /\ r.offset = offset /\ r.seen = seen
        /\ r.start = s.start /\ r.size = s.size /\ r.sent = s.sent
    BY <1>3, <1>7, <1>8, <1>8a DEF Reader
  <1> HIDE DEF r
  <1>10. RangeEnd(r) = RangeEnd(s) /\ s.sent = None /\ b # None
    BY <1>1, <1>3, <1>7, <1>9 DEF RangeEnd, ReaderOK, SentOK
  <1>11. s.body.pos = s.offset /\ s.start <= s.offset /\ s.offset <= RangeEnd(s)
    BY <1>1, <1>3, <1>5 DEF ReaderOK, BodyOK, UseOK
  <1>12. s.offset + n <= RangeEnd(s)
    <2>1. CASE use = "open"
      <3>1. s.body.last < RangeEnd(s)
        BY <1>1, <1>3, <2>1 DEF ReaderOK, BodyOK
      <3> QED
        BY <1>4, <1>5, <1>11, <3>1, SMTT(60)
    <2>2. CASE n <= RangeEnd(s) - s.offset
      BY <1>4, <2>2, SMTT(60)
    <2> QED
      BY <1>2, <2>1, <2>2 DEF Wanted, s, use
  <1>13. SentOK(r, res)
    BY <1>9, <1>10 DEF SentOK
  <1>14. BodyOK(r, use, res, server.validator)
    <2>1. BodyOK(s, use, res, server.validator)
      BY <1>3 DEF ReaderOK
    <2>2. ~ b.broken => b.pos = r.offset
      BY <1>7, <1>8, <1>9, <1>11
    <2> QED
      BY <1>1, <1>7, <1>9, <1>10, <2>1, <2>2, SMTT(60) DEF BodyOK
  <1>15. UseOK(r, use, res)
    <2>1. s.start <= offset /\ offset <= RangeEnd(s)
      BY <1>4, <1>8, <1>11, <1>12, SMTT(60)
    <2> QED
      BY <1>1, <1>3, <1>9, <1>10, <2>1 DEF ReaderOK, UseOK
  <1>16. gauge' = gauge + Count(r) - Count(s)
    <2>1. Count(r) = 1 /\ Count(s) = 1
      BY <1>1, <1>9, <1>10 DEF Count, Counted
    <2> QED
      BY <1>6, <2>1, SMTT(60) DEF Inv, TypeOK
  <1>17. SeenOK(r, file[h], res, server.validator)
    <2>1. SeenOK(s, file[h], res, server.validator)
      BY DEF Inv, HistoryOK, s
    <2>2. use = "open" /\ server.validator = "LastModified" => s.body.version = res.version
      BY <1>1, <1>3 DEF ReaderOK, BodyOK
    <2>3. file[h].by # None => \A v \in r.seen : r.body # None /\ v = r.body.version
      BY <1>7, <1>9, <1>10, <1>8a, <2>1 DEF SeenOK
    <2>4. use = "open" /\ server.validator = "LastModified" => r.seen \subseteq {res.version}
      BY <1>9, <1>8a, <2>1, <2>2 DEF SeenOK, use
    <2> QED
      BY <2>3, <2>4 DEF SeenOK, use
  <1> QED
    BY <1>1, <1>3, <1>6, <1>9, <1>13, <1>14, <1>15, <1>16, <1>17, SameFile DEF ReaderOK, s, use

\* Seek to another offset closes the body.
LEMMA SeekFileStep ==
  ASSUME Inv, NEW h \in Handle, SeekFile(h)
  PROVE  Inv' /\ GaugeMoves
  <1> USE NoneAssumption
  <1> DEFINE s == rd[h]
             use == file[h].use
  <1>1. use # "free" /\ Quiet
    BY DEF SeekFile
  <1>2. PICK n \in 0..RangeEnd(s) : n # s.offset /\ Seek(h, n)
    BY DEF SeekFile
  <1>3. s \in Reader /\ res # None /\ ReaderOK(s, use, res, server.validator)
    BY <1>1, InUse
  <1> DEFINE r == [Closed(s) EXCEPT !.offset = n]
  <1>4. /\ s.sent = None /\ n >= s.start /\ n <= RangeEnd(s)
        /\ rd' = [rd EXCEPT ![h] = r] /\ gauge' = gauge - CloseDec(s)
        /\ UNCHANGED <<server, res>>
    BY <1>2 DEF Seek
  <1>5. n \in Nat
    BY <1>3, SMTT(60) DEF Reader, RangeEnd
  <1>6. /\ r \in Reader /\ r.sent = None /\ r.body = None /\ r.offset = n
        /\ r.start = s.start /\ r.size = s.size /\ r.seen = s.seen
    BY <1>3, <1>4, <1>5 DEF Reader, Closed
  <1> HIDE DEF r
  <1>7. RangeEnd(r) = RangeEnd(s)
    BY <1>6 DEF RangeEnd
  <1>8. SentOK(r, res) /\ BodyOK(r, use, res, server.validator)
    BY <1>6 DEF SentOK, BodyOK
  <1>9. UseOK(r, use, res)
    BY <1>1, <1>3, <1>4, <1>6, <1>7 DEF ReaderOK, UseOK
  <1>10. gauge' = gauge + Count(r) - Count(rd[h])
    <2>1. Count(r) = 0 /\ Count(s) = CloseDec(s) /\ CloseDec(s) \in Int
      BY <1>4, <1>6, SMTT(60) DEF Count, Counted, CloseDec
    <2> QED
      BY <1>4, <2>1, SMTT(60) DEF Inv, TypeOK
  <1>11. SeenOK(r, file[h], res, server.validator)
    <2>1. SeenOK(s, file[h], res, server.validator)
      BY DEF Inv, HistoryOK
    <2>2. file[h].by = None
      BY DEF SeekFile, Inv, FileOK, UsedFor
    <2> QED
      BY <1>6, <2>1, <2>2 DEF SeenOK
  <1> QED
    BY <1>1, <1>3, <1>4, <1>6, <1>8, <1>9, <1>10, <1>11, SameFile DEF ReaderOK

\* setResponse keeps what continues the reader's range, and blames the resource
\* only for an object that is not the one it was opened on.
LEMMA ReadReceiveStep ==
  ASSUME Inv, NEW h \in Handle, ReadReceive(h)
  PROVE  Inv' /\ GaugeMoves
  <1> USE NoneAssumption
  <1> DEFINE s == rd[h]
             use == file[h].use
  <1>1. s.sent # None /\ Quiet /\ server' = server
    BY DEF ReadReceive, Receive
  <1>2. /\ s \in Reader /\ s.sent \in Sent /\ server \in Server
        /\ ReaderOK(s, use, res, server.validator)
    BY <1>1, InUse DEF Reader
  <1>3. use \notin {"free", "closing"} /\ res # None /\ res \in Resource
    BY <1>1, <1>2, InUse DEF ReaderOK, UseOK
  <1>4. PICK a \in Answers(s.sent, IfRange) :
          LET ok == a.status = 206 \/ (a.status = 200 /\ WholeAnswerOK(s, a))
              e  == ResourceError(s, a)
          IN /\ rd' = [rd EXCEPT ![h].sent = None, ![h].body = IF ok THEN a ELSE None]
             /\ res' = IF e = None THEN res ELSE [res EXCEPT !.err = e]
             /\ gauge' = IF ok THEN gauge ELSE gauge - 1
    BY DEF ReadReceive, Receive
  <1> DEFINE ok == a.status = 206 \/ (a.status = 200 /\ WholeAnswerOK(s, a))
             b  == IF ok THEN a ELSE None
             r  == [s EXCEPT !.sent = None, !.body = b]
             e  == ResourceError(s, a)
  <1>5. rd' = [rd EXCEPT ![h] = r]
    BY <1>4
  <1>6. gauge' = IF ok THEN gauge ELSE gauge - 1
    BY <1>4
  <1>7. res' = IF e = None THEN res ELSE [res EXCEPT !.err = e]
    BY <1>4
  <1> HIDE DEF s, use
  <1>8. /\ s.offset \in Nat /\ s.start \in Nat /\ s.size \in Nat /\ RangeEnd(s) \in Nat
        /\ s.sent.first \in Nat /\ s.sent.last \in Int
        /\ res.version \in Version /\ server.version \in Version
        /\ server.validator \in {"ETag", "LastModified"}
    BY <1>2, <1>3, SMTT(60) DEF Reader, RangeEnd, Sent, Resource, Server
  <1>9. /\ s.sent.first = s.offset /\ s.sent.last = RangeEnd(s) - 1
        /\ s.offset < RangeEnd(s) /\ RangeEnd(s) <= Size[res.version]
        /\ s.start <= s.offset /\ (use = "open" => s.start > 0)
    BY <1>1, <1>2, <1>3 DEF ReaderOK, SentOK, UseOK
  <1>10. AnswerOK(s.sent, IfRange, a)
    <2>1. s.sent.last >= 0
      BY <1>8, <1>9, SMTT(60)
    <2> QED
      BY <1>2, <2>1, AnswersOK
  <1>11. /\ res' # None /\ res' \in Resource /\ res'.version = res.version /\ res'.size = res.size
        /\ res'.err \in {res.err, e} /\ (e = None => res'.err = res.err)
    <2>1. e \in {None, "NotFound", "NotSupported"}
      BY DEF ResourceError
    <2> HIDE DEF e
    <2> QED
      BY <1>3, <1>7, <2>1 DEF Resource
  <1>12. ok => a \in Body /\ a # None /\ a.status \in {200, 206} /\ a.version = server.version
    BY <1>10 DEF AnswerOK
  <1>13. /\ r \in Reader /\ r.sent = None /\ r.body = b /\ r.offset = s.offset
         /\ r.start = s.start /\ r.size = s.size /\ r.seen = s.seen
    BY <1>2, <1>12 DEF Reader
  <1>14. RangeEnd(r) = RangeEnd(s)
    BY <1>13 DEF RangeEnd
  <1> HIDE DEF r, e
  <1>15. BodyOK(r, use, res', server.validator)
    <2>1. SUFFICES ASSUME ok
                   PROVE  BodyOK(r, use, res', server.validator)
      BY <1>13 DEF BodyOK
    <2>2. r.body = a /\ a.version = server.version /\ a.last \in Nat
      BY <1>12, <1>13, <2>1 DEF Body
    <2> HIDE DEF b
    <2>3. CASE a.status = 206
      <3>1. a.pos = s.sent.first /\ a.last <= s.sent.last /\ IfRange \in {None, server.version}
        BY <1>10, <2>3 DEF AnswerOK
      <3>2. a.pos = s.offset /\ a.last < RangeEnd(s)
        BY <1>8, <1>9, <2>2, <3>1, SMTT(60)
      <3>3. server.validator = "LastModified" => a.version = res.version
        BY <1>8, <2>2, <3>1 DEF IfRange
      <3> QED
        BY <1>11, <1>13, <1>14, <2>2, <2>3, <3>2, <3>3, SMTT(60) DEF BodyOK
    <2>4. CASE a.status = 200
      <3>1. s.offset = 0 /\ a.pos = 0
        BY <1>10, <2>1, <2>4, SMTT(60) DEF AnswerOK, WholeAnswerOK
      <3>2. use # "open"
        BY <1>8, <1>9, <3>1, SMTT(60)
      <3> QED
        BY <1>11, <1>13, <2>2, <2>4, <3>1, <3>2, SMTT(60) DEF BodyOK
    <2> QED
      BY <2>1, <2>3, <2>4
  <1>16. SentOK(r, res') /\ UseOK(r, use, res')
    BY <1>2, <1>3, <1>11, <1>13, <1>14 DEF SentOK, UseOK, ReaderOK
  <1>17. gauge' = gauge + Count(r) - Count(s)
    <2>1. Count(s) = 1
      BY <1>1 DEF Count, Counted
    <2>2. Count(r) = IF ok THEN 1 ELSE 0
      BY <1>12, <1>13 DEF Count, Counted
    <2>3. gauge \in Int
      BY DEF Inv, TypeOK
    <2> HIDE DEF ok
    <2> QED
      BY <1>6, <2>1, <2>2, <2>3, SMTT(60)
  <1>18. RefusedOnlyIfChanged'
    <2>1. CASE e = None
      BY <1>1, <1>3, <1>11, <2>1 DEF Inv, RefusedOnlyIfChanged
    <2>2. CASE a.status = 404
      BY <1>1, <1>10, <2>2 DEF AnswerOK, RefusedOnlyIfChanged
    <2>3. CASE a.status = 416
      <3>1. Size[server.version] \in Nat /\ Size[res.version] \in Nat
        BY <1>8, RangeAssumption
      <3>2. s.offset >= Size[server.version]
        BY <1>9, <1>10, <2>3 DEF AnswerOK
      <3>3. server.version # res.version
        BY <1>8, <1>9, <3>1, <3>2, SMTT(60)
      <3> QED
        BY <1>1, <1>11, <3>3 DEF RefusedOnlyIfChanged
    <2>4. CASE a.status = 200 /\ ~ WholeAnswerOK(s, a)
      <3>1. ~ server.ranges \/ server.version # res.version
        BY <1>8, <1>10, <2>4 DEF AnswerOK, IfRange
      <3> QED
        BY <1>1, <1>11, <3>1 DEF RefusedOnlyIfChanged
    <2> QED
      BY <2>1, <2>2, <2>3, <2>4 DEF ResourceError, e
  <1> DEFINE f == file[h]
  <1>19. UNCHANGED <<file, read, offsets, flate, pool>>
    BY <1>1 DEF Quiet
  <1>20. /\ f \in File /\ file' = [file EXCEPT ![h] = f]
         /\ UsedFor(f)
    BY <1>19 DEF Inv, TypeOK, FileOK
  <1>21. /\ rd' \in [Handle -> Reader] /\ file' \in [Handle -> File] /\ gauge' \in Int
         /\ ReadersOK' /\ HistoryOK' /\ FileOK' /\ GaugeMoves
    <2>1. ReaderOK(r, f.use, res', server.validator)
      BY <1>15, <1>16 DEF ReaderOK, use
    <2>2. res # None => res' # None /\ res'.version = res.version
      BY <1>11
    <2>3. SeenOK(r, f, res', server.validator)
      <3>1. SeenOK(s, f, res, server.validator)
        BY DEF Inv, HistoryOK, s
      <3>2. s.body = None
        BY <1>1, <1>2 DEF ReaderOK, SentOK
      <3> QED
        BY <1>11, <1>13, <3>1, <3>2 DEF SeenOK
    <2> HIDE DEF f
    <2> QED
      BY <1>1, <1>5, <1>13, <1>17, <1>20, <2>1, <2>2, <2>3, HandleStep DEF s
  <1>22. TypeOK'
    BY <1>1, <1>11, <1>19, <1>21 DEF Inv, TypeOK
  <1>23. ResourceOK'
    BY <1>1, <1>3, <1>11 DEF Inv, ResourceOK
  <1>24. Holding'
    BY <1>19 DEF Inv, Holding
  <1> QED
    BY <1>18, <1>21, <1>22, <1>23, <1>24 DEF Inv

-----------------------------------------------------------------------------
(* The theorems                                                            *)

\* Every step of the module keeps the invariant.
LEMMA NextInv == Inv /\ [Next]_fvars => Inv' /\ GaugeMoves
  <1> SUFFICES ASSUME Inv, [Next]_fvars PROVE Inv' /\ GaugeMoves
    OBVIOUS
  <1>1. CASE UNCHANGED fvars
    <2>1. UNCHANGED <<server, res, rd, gauge, file, read, offsets, flate, pool>>
      BY <1>1 DEF fvars
    <2>2. TypeOK'
      BY <2>1 DEF Inv, TypeOK
    <2>3. ReadersOK' /\ HistoryOK' /\ FileOK' /\ Holding' /\ GaugeMoves
      BY <2>1, OtherStep
    <2>4. ResourceOK' /\ RefusedOnlyIfChanged'
      BY <2>1 DEF Inv, ResourceOK, RefusedOnlyIfChanged
    <2> QED
      BY <2>2, <2>3, <2>4 DEF Inv
  <1>2. CASE OpenResource
    BY <1>2, OpenResourceStep
  <1>3. CASE Environment
    BY <1>3, EnvironmentStep
  <1>4. CASE \E u \in Url : RenewURL(u)
    BY <1>4, RenewURLStep
  <1>5. CASE \E e \in Entry : ForgetOffset(e)
    BY <1>5, ForgetOffsetStep
  <1>6. ASSUME NEW h \in Handle, OpenDirectory(h) \/ CloseDirectory(h)
        PROVE  Inv' /\ GaugeMoves
    BY <1>6, OpenDirectoryStep, CloseDirectoryStep
  <1>7. ASSUME NEW h \in Handle, NEW e \in Entry, OpenKnown(h, e) \/ OpenFetch(h, e)
        PROVE  Inv' /\ GaugeMoves
    BY <1>7, OpenKnownStep, OpenFetchStep
  <1>8. ASSUME NEW h \in Handle, FetchDone(h) \/ FetchFails(h)
        PROVE  Inv' /\ GaugeMoves
    BY <1>8, FetchDoneStep, FetchFailsStep
  <1>9. ASSUME NEW h \in Handle, ReadSend(h) \/ ReadReceive(h) \/ ReadData(h) \/ SeekFile(h)
        PROVE  Inv' /\ GaugeMoves
    BY <1>9, ReadSendStep, ReadReceiveStep, ReadDataStep, SeekFileStep
  <1>10. ASSUME NEW h \in Handle, CloseStored(h) \/ CloseDeflate(h) \/ PutDeflater(h)
         PROVE  Inv' /\ GaugeMoves
    BY <1>10, CloseStoredStep, CloseDeflateStep, PutDeflaterStep
  <1> QED
    BY <1>1, <1>2, <1>3, <1>4, <1>5, <1>6, <1>7, <1>8, <1>9, <1>10 DEF Next

\* The inductive invariant holds of every reachable state.
THEOREM InvHolds == Spec => []Inv
  BY InitInv, NextInv, PTL DEF Spec

\* What a request reads of a deflated file is all of one object, whatever breaks
\* and is replaced meanwhile, and with Last-Modified what it reads of any file is of
\* the object the resource was opened on.
THEOREM FilesAreNotSpliced == Spec => []OneObjectPerFile
  <1>1. ASSUME Inv PROVE OneObjectPerFile
    <2>1. SUFFICES ASSUME NEW h \in Handle, file[h].use = "open"
                   PROVE  /\ file[h].by # None => Cardinality(rd[h].seen) <= 1
                          /\ server.validator = "LastModified" => rd[h].seen \subseteq {res.version}
      BY DEF OneObjectPerFile
    <2> DEFINE seen == rd[h].seen
               v == rd[h].body.version
    <2>2. SeenOK(rd[h], file[h], res, server.validator)
      BY <1>1 DEF Inv, HistoryOK
    <2>3. server.validator = "LastModified" => seen \subseteq {res.version}
      BY <2>1, <2>2 DEF SeenOK
    <2>4. file[h].by # None => seen = {} \/ seen = {v}
      BY <2>2 DEF SeenOK
    <2> HIDE DEF seen, v
    <2>5. (seen = {} => Cardinality(seen) = 0) /\ (seen = {v} => Cardinality(seen) = 1)
      BY FS_EmptySet, FS_Singleton
    <2>6. file[h].by # None => Cardinality(seen) <= 1
      BY <2>4, <2>5, SMTT(60)
    <2> QED
      BY <2>3, <2>6 DEF seen
  <1> QED
    BY <1>1, InvHolds, PTL

\* A resource that has an error is one whose object was removed or replaced, or
\* whose server has no ranges.
THEOREM RefusesOnlyChangedObjects == Spec => []RefusedOnlyIfChanged
  <1>1. Inv => RefusedOnlyIfChanged
    BY DEF Inv
  <1> QED
    BY <1>1, InvHolds, PTL

\* A pooled deflateReader is never shared: an open file reads and closes its own
\* reader through it, whatever other requests take from the pool and put there.
THEOREM DeflatersAreNotShared == Spec => []OneHolder
  <1>1. Inv => OneHolder
    BY DEF Inv, Holding, OneHolder
  <1> QED
    BY <1>1, InvHolds, PTL

\* Nothing stays open behind a file that was closed or could not be opened.
THEOREM BodiesAreClosed == Spec => []NoBodyLeaks
  <1>1. Inv => NoBodyLeaks
    BY DEF Inv, ReadersOK, ReaderOK, UseOK, NoBodyLeaks, Free
  <1> QED
    BY <1>1, InvHolds, PTL

\* What a reader hands out is at its offset, which stays inside its range.
THEOREM StaysInRange == Spec => []ReadsItsRange
  <1>1. Inv => ReadsItsRange
    BY DEF Inv, ReadersOK, ReaderOK, BodyOK, UseOK, ReadsItsRange, Free
  <1> QED
    BY <1>1, InvHolds, PTL

-----------------------------------------------------------------------------
(***************************************************************************)
(* The gauge of open range requests, HTTPRangeOpenRequests, is exact: a    *)
(* consequence of how the steps move it (GaugeMoves).                      *)
(***************************************************************************)

\* The readers that the gauge counts.
Counting == {h \in Handle : Counted(rd[h])}

\* The gauge goes with the requests of the one reader that a step changes.
LEMMA GaugeStep ==
  ASSUME GaugeExact, gauge \in Int, rd \in [Handle -> Reader],
         NEW h \in Handle, NEW r, rd' = [rd EXCEPT ![h] = r],
         gauge' = gauge + Count(r) - Count(rd[h])
  PROVE  GaugeExact'
  <1>1. gauge = Cardinality(Counting) /\ IsFiniteSet(Counting) /\ Counting \subseteq Handle
    <2>1. Counting \in SUBSET Handle
      BY DEF Counting
    <2>2. IsFiniteSet(Counting)
      BY <2>1, RangeAssumption, FS_Subset
    <2> QED
      BY <2>1, <2>2 DEF GaugeExact, Counting, Counted
  <1>2. SUFFICES gauge' = Cardinality(Counting')
    BY DEF GaugeExact, Counting, Counted
  <1>3. \A g \in Handle : rd'[g] = IF g = h THEN r ELSE rd[g]
    OBVIOUS
  <1>4. CASE Counted(r)
    <2>1. Counting' = Counting \cup {h}
      BY <1>3, <1>4 DEF Counting, Counted
    <2>2. h \in Counting <=> Counted(rd[h])
      BY DEF Counting
    <2>3. Cardinality(Counting \cup {h}) = IF h \in Counting THEN Cardinality(Counting) ELSE Cardinality(Counting) + 1
      BY <1>1, FS_AddElement
    <2> QED
      BY <1>1, <1>4, <2>1, <2>2, <2>3, SMTT(60) DEF Count
  <1>5. CASE ~ Counted(r)
    <2>1. Counting' = Counting \ {h}
      BY <1>3, <1>5 DEF Counting, Counted
    <2>2. h \in Counting <=> Counted(rd[h])
      BY DEF Counting
    <2>3. Cardinality(Counting \ {h}) = IF h \in Counting THEN Cardinality(Counting) - 1 ELSE Cardinality(Counting)
      BY <1>1, FS_RemoveElement
    <2> QED
      BY <1>1, <1>5, <2>1, <2>2, <2>3, SMTT(60) DEF Count
  <1> QED
    BY <1>4, <1>5

\* The gauge of open requests is exact, on every error path.
THEOREM GaugeIsExact == Spec => []GaugeExact
  <1>1. Init => GaugeExact
    <2> SUFFICES ASSUME Init PROVE GaugeExact
      OBVIOUS
    <2>1. {h \in Handle : rd[h].sent # None \/ rd[h].body # None} = {}
      BY DEF Init, NewReader
    <2> QED
      BY <2>1, FS_EmptySet DEF Init, GaugeExact
  <1>2. Inv /\ GaugeMoves /\ GaugeExact => GaugeExact'
    <2> SUFFICES ASSUME Inv, GaugeMoves, GaugeExact PROVE GaugeExact'
      OBVIOUS
    <2>1. gauge \in Int /\ rd \in [Handle -> Reader]
      BY DEF Inv, TypeOK
    <2>2. CASE rd' = rd /\ gauge' = gauge
      BY <2>2 DEF GaugeExact
    <2>3. ASSUME NEW h \in Handle, NEW r \in Reader,
                 rd' = [rd EXCEPT ![h] = r], gauge' = gauge + Count(r) - Count(rd[h])
          PROVE  GaugeExact'
      BY <2>1, <2>3, GaugeStep
    <2> QED
      BY <2>2, <2>3 DEF GaugeMoves
  <1> QED
    BY <1>1, <1>2, InitInv, NextInv, PTL DEF Spec
=============================================================================
