----------------------------- MODULE ArchiveFile -----------------------------
(***************************************************************************)
(* The files of one open zip archive (internal/vfs/zip: archive.go,        *)
(* deflate_reader.go) over the ranged readers of HttpRange.                *)
(*                                                                         *)
(* A handle is one use of a Reader: the directory reader of readArchive,   *)
(* or a file a request has opened.  A request that detects the content     *)
(* type has two.  Deflated files are read through a deflateReader, which   *)
(* goes back to a sync.Pool when the file is closed: from then on another  *)
(* request may have it, also while the Close that put it there goes on.    *)
(***************************************************************************)
EXTENDS HttpRange

CONSTANTS
  Entry,     \* files of the archive
  Header,    \* Header[e]: where the local header of e is
  Data,      \* Data[e]: where the data of e starts
  Length,    \* Length[e]: its compressed size
  Method,    \* Method[e]: "deflate", "store" or another
  Deflater   \* deflateReaders

ASSUME ArchiveAssumption ==
  /\ \A e \in Entry : /\ {Header[e], Data[e], Length[e]} \subseteq Nat
                      /\ Header[e] < Data[e]   \* a local header has 30 bytes at least
  /\ None \notin Entry \cup Deflater

VARIABLES
  file,      \* what each handle is used for
  read,      \* the directory: "no", "reading", "ok" or "error"
  offsets,   \* dataOffsetCache: the entries whose offset is known
  flate,     \* flate[d]: the closer of a deflateReader: a handle or None
  pool       \* deflateReaderPool

\* closing: in the deferred function of deflateReader.Close.
File == [use : {"free", "directory", "fetch", "open", "closing"},
         entry : Entry \cup {None}, by : Deflater \cup {None}]

fvars == <<server, res, rd, gauge, file, read, offsets, flate, pool>>

Init ==
  /\ server \in {[version |-> 1, exists |-> TRUE, ranges |-> r, validator |-> v, oldest |-> 1] :
                   r \in BOOLEAN, v \in {"ETag", "LastModified"}}
  /\ res = None
  /\ rd = [h \in Handle |-> NewReader(0, 0)]
  /\ gauge = 0
  /\ file = [h \in Handle |-> [use |-> "free", entry |-> None, by |-> None]]
  /\ read = "no"
  /\ offsets = {}
  /\ flate = [d \in Deflater |-> None]
  /\ pool = {}

Use(h, use, e, by) == file' = [file EXCEPT ![h] = [use |-> use, entry |-> e, by |-> by]]
Free(h) == file[h].use = "free"

\* The handle's reader is closed and garbage.  What Close leaves open stays open.
Drop(h) == rd' = [rd EXCEPT ![h] = [NewReader(0, 0) EXCEPT !.body = Closed(rd[h]).body]]

\* Whether the handle's owner asks for n bytes more: zip.NewReader and DataOffset
\* read what ReadAt is asked for with io.ReadFull, a request reads until EOF.
Wanted(h, n) == file[h].use = "open" \/ n <= RangeEnd(rd[h]) - rd[h].offset

-----------------------------------------------------------------------------
(* Opening the archive                                                     *)

OpenResource ==
  /\ read = "no"
  /\ \E u \in Url : NewResource(u)
  /\ read' = "reading"
  /\ UNCHANGED <<file, offsets, flate, pool>>

\* WithCachedReader: zip.NewReader seeks and reads through one Reader.
OpenDirectory(h) ==
  /\ read = "reading" /\ Free(h)
  /\ \A g \in Handle : file[g].use # "directory"
  /\ rd' = [rd EXCEPT ![h] = NewReader(0, res.size)]
  /\ Use(h, "directory", None, None)
  /\ UNCHANGED <<server, res, gauge, read, offsets, flate, pool>>

\* The deferred Close of WithCachedReader, with or without an error.
CloseDirectory(h) ==
  /\ file[h].use = "directory" /\ rd[h].sent = None
  /\ read' \in {"ok", "error"}
  /\ Drop(h)
  /\ gauge' = gauge - CloseDec(rd[h])
  /\ Use(h, "free", None, None)
  /\ UNCHANGED <<server, res, offsets, flate, pool>>

\* openArchive on an archive that is open renews the URL, with the one of the
\* caller's lookup, which need not be the newest.
RenewURL(u) == SetURL(u) /\ UNCHANGED <<file, read, offsets, flate, pool>>

-----------------------------------------------------------------------------
(* Open                                                                    *)

\* What Pool.Get returns, if anything: a deflateReader of the pool, whoever had
\* it before.  Otherwise one is made, which nobody else knows.
Got(d) == d \in pool
Made(d) == d \notin pool /\ \A h \in Handle : file[h].by # d

\* reset sets the closer of whatever was got.
newDeflateReader(h, d) ==
  /\ Got(d) \/ Made(d)
  /\ flate' = [flate EXCEPT ![d] = h]
  /\ pool' = pool \ {d}

\* The end of Open, once the data offset is known.
SectionReader(h, e) ==
  /\ rd' = [rd EXCEPT ![h] = NewReader(Data[e], Length[e])]
  /\ \/ /\ Method[e] = "deflate"
        /\ \E d \in Deflater : newDeflateReader(h, d) /\ Use(h, "open", e, d)
     \/ /\ Method[e] = "store"
        /\ Use(h, "open", e, None)
        /\ UNCHANGED <<flate, pool>>
     \/ /\ Method[e] \notin {"deflate", "store"}
        /\ Use(h, "free", None, None)
        /\ UNCHANGED <<flate, pool>>

\* Open finds the offset in the cache ...
OpenKnown(h, e) ==
  /\ read = "ok" /\ Free(h)
  /\ e \in offsets
  /\ SectionReader(h, e)
  /\ UNCHANGED <<server, res, gauge, read, offsets>>

\* ... or reads the local header: file.DataOffset is an ephemeralRead.
OpenFetch(h, e) ==
  /\ read = "ok" /\ Free(h)
  /\ e \notin offsets
  /\ rd' = [rd EXCEPT ![h] = NewReader(Header[e], Data[e] - Header[e])]
  /\ Use(h, "fetch", e, None)
  /\ UNCHANGED <<server, res, gauge, read, offsets, flate, pool>>

\* The whole header is read: close, remember the offset, go on.
FetchDone(h) ==
  /\ file[h].use = "fetch"
  /\ rd[h].offset = RangeEnd(rd[h])
  /\ gauge' = gauge - CloseDec(rd[h])
  /\ offsets' = offsets \cup {file[h].entry}
  /\ SectionReader(h, file[h].entry)
  /\ UNCHANGED <<server, res, read>>

\* Mutant: the reader is not closed.
FetchFailsOpen(h) ==
  /\ file[h].use = "fetch" /\ rd[h].sent = None
  /\ Use(h, "free", None, None)
  /\ UNCHANGED <<server, res, rd, gauge, read, offsets, flate, pool>>

\* A read of the header failed, or what was read is not a header: Open returns
\* the error, nothing is cached.
FetchFails(h) ==
  /\ file[h].use = "fetch" /\ rd[h].sent = None
  /\ Drop(h)
  /\ gauge' = gauge - CloseDec(rd[h])
  /\ Use(h, "free", None, None)
  /\ UNCHANGED <<server, res, read, offsets, flate, pool>>

\* The cached offset expires or is evicted.
ForgetOffset(e) ==
  /\ e \in offsets
  /\ offsets' = offsets \ {e}
  /\ UNCHANGED <<server, res, rd, gauge, file, read, flate, pool>>

-----------------------------------------------------------------------------
(* Using and closing a file                                                *)

Quiet == UNCHANGED <<file, read, offsets, flate, pool>>

\* The reader that Read reaches: through a deflateReader it is the one this was
\* last reset to, or none (ErrClosedReader).
Source(h) == IF file[h].by = None THEN h ELSE flate[file[h].by]

CanRead(h) == file[h].use \in {"directory", "fetch", "open"} /\ Source(h) # None

ReadSend(h)    == CanRead(h) /\ Send(Source(h)) /\ Quiet
ReadReceive(h) == Receive(h) /\ Quiet
ReadData(h)    == /\ CanRead(h) /\ rd[Source(h)].body # None
                  /\ \E n \in 0..rd[Source(h)].body.last + 1, breaks \in BOOLEAN :
                       Wanted(h, n) /\ (n > 0 \/ breaks) /\ ReadBody(Source(h), n, breaks)
                  /\ Quiet

\* Only the directory and stored files are seekable.
SeekFile(h) ==
  /\ file[h].use = "directory" \/ (file[h].use = "open" /\ file[h].by = None)
  /\ \E n \in 0..RangeEnd(rd[h]) : n # rd[h].offset /\ Seek(h, n)
  /\ Quiet

\* Close of the file a request deferred, when it is stored ...
CloseStored(h) ==
  /\ file[h].use = "open" /\ file[h].by = None /\ rd[h].sent = None
  /\ Drop(h)
  /\ gauge' = gauge - CloseDec(rd[h])
  /\ Use(h, "free", None, None)
  /\ UNCHANGED <<server, res, read, offsets, flate, pool>>

\* Mutant: the deflateReader is in the pool before its closer is reset.
CloseDeflatePutsFirst(h) ==
  /\ file[h].use = "open" /\ file[h].by # None /\ rd[h].sent = None
  /\ Source(h) # None
  /\ Drop(Source(h))
  /\ gauge' = gauge - CloseDec(rd[Source(h)])
  /\ Use(h, "closing", file[h].entry, file[h].by)
  /\ pool' = pool \cup {file[h].by}
  /\ UNCHANGED <<server, res, read, offsets, flate>>

\* ... and when it is deflated: the closer is closed, whichever reader that is, ...
CloseDeflate(h) ==
  /\ file[h].use = "open" /\ file[h].by # None /\ rd[h].sent = None
  /\ Source(h) # None
  /\ Drop(Source(h))
  /\ gauge' = gauge - CloseDec(rd[Source(h)])
  /\ Use(h, "closing", file[h].entry, file[h].by)
  /\ UNCHANGED <<server, res, read, offsets, flate, pool>>

\* ... reset, and the deflateReader put into the pool.
PutDeflater(h) ==
  /\ file[h].use = "closing"
  /\ flate' = [flate EXCEPT ![file[h].by] = None]
  /\ pool' = pool \cup {file[h].by}
  /\ Use(h, "free", None, None)
  /\ UNCHANGED <<server, res, rd, gauge, read, offsets>>

Environment == Quiet /\ (Replace \/ Remove \/ ExpireUrl)

Next ==
  \/ OpenResource \/ Environment
  \/ \E u \in Url : RenewURL(u)
  \/ \E e \in Entry : ForgetOffset(e)
  \/ \E h \in Handle :
       \/ OpenDirectory(h) \/ CloseDirectory(h)
       \/ \E e \in Entry : OpenKnown(h, e) \/ OpenFetch(h, e)
       \/ FetchDone(h) \/ FetchFails(h)
       \/ ReadSend(h) \/ ReadReceive(h) \/ ReadData(h) \/ SeekFile(h)
       \/ CloseStored(h) \/ CloseDeflate(h) \/ PutDeflater(h)

Spec == Init /\ [][Next]_fvars

-----------------------------------------------------------------------------
(* Properties                                                              *)

TypeOK ==
  /\ server \in Server
  /\ res \in Resource \cup {None}
  /\ rd \in [Handle -> Reader]
  /\ gauge \in Int
  /\ file \in [Handle -> File]
  /\ read \in {"no", "reading", "ok", "error"}
  /\ offsets \subseteq Entry
  /\ flate \in [Deflater -> Handle \cup {None}]
  /\ pool \subseteq Deflater

\* deflateReader: from newDeflateReader to Close, the deflateReader of an open
\* file reads and closes the reader of that file, and is not in the pool, although
\* nothing is asked of one that is taken from there and the Close of its former
\* holder may not have returned yet.
OneHolder ==
  \A h \in Handle : file[h].use = "open" /\ file[h].by # None =>
    flate[file[h].by] = h /\ file[h].by \notin pool

\* Read, setResponse: what a request reads of a deflated file is all of one
\* object, also when the connection breaks and the object is replaced while it
\* reads; and when the server has only Last-Modified, what it reads of any file is
\* of the object the resource was opened on.  (With an ETag nothing is compared
\* for a partial answer: a file may then be read from the object's replacement, at
\* the offsets of the old one.)
OneObjectPerFile ==
  \A h \in Handle : file[h].use = "open" =>
    /\ file[h].by # None => Cardinality(rd[h].seen) <= 1
    /\ server.validator = "LastModified" => rd[h].seen \subseteq {res.version}

\* No response outlives the file it was requested for: every handle that is
\* given back, on an error of Open too, has no body left open.
NoBodyLeaks == \A h \in Handle : Free(h) => rd[h].body = None /\ rd[h].sent = None

\* What Read hands out lies at the reader's offset, and inside its range: a body
\* that can still be read is positioned there, after Seek and for whole answers
\* too, and the offset stays inside the range although Read does not limit what it
\* hands out and a server may ignore Range and send the whole object.
ReadsItsRange ==
  \A h \in Handle :
    /\ rd[h].body # None /\ ~ rd[h].body.broken => rd[h].body.pos = rd[h].offset
    /\ ~ Free(h) => rd[h].offset <= RangeEnd(rd[h])
=============================================================================
