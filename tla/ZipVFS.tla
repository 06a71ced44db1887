-------------------------------- MODULE ZipVFS --------------------------------
(***************************************************************************)
(* The cache of zip archives (internal/vfs/zip: vfs.go, archive.go).       *)
(*                                                                         *)
(* Requests call Root: under cacheLock they find the archive of their key  *)
(* in a go-cache or add a new one, and then, without the lock, open it.    *)
(* The first to open it starts a goroutine that reads its directory; the   *)
(* others wait.  go-cache's janitor takes no cacheLock.                    *)
(*                                                                         *)
(* One key: archives of different keys share only the lock and the sums    *)
(* in the metrics.                                                         *)
(***************************************************************************)
EXTENDS Integers, FiniteSets

CONSTANTS
  Request,          \* requests in progress at the same time
  Expiration,       \* cacheExpirationInterval
  RefreshInterval,  \* cacheRefreshInterval
  OpenTimeout,      \* openTimeout of readArchive
  Files,            \* number of files in the archive
  MaxTime,          \* bound on the clock
  MaxArchives       \* bound on the archives ever made

None == 0
Free == "free"

ASSUME ZipAssumption ==
  /\ Free \notin Request
  /\ Expiration \in Nat \ {0}   \* go-cache takes 0 for no expiration
  /\ RefreshInterval \in Nat
  /\ OpenTimeout \in Nat
  /\ Files \in Nat
  /\ MaxTime \in Nat
  /\ MaxArchives \in Nat

VARIABLES
  now,
  used,      \* archives made so far; their ids are 1..used
  arch,      \* the archives
  item,      \* the go-cache item of the key
  evicting,  \* the archive the janitor has removed and not yet reported
  lock,      \* the request that holds cacheLock
  req,       \* the state of every Root call
  entries,   \* metric ZipCachedEntries{op="archive"}
  files      \* metric ZipArchiveEntriesCached

vars == <<now, used, arch, item, evicting, lock, req, entries, files>>

ArchiveId == 1..MaxArchives

(***************************************************************************)
(* read: "no" until the Once has fired, "reading", and "done" when the     *)
(* channel is closed; began: when, while it is read.  files is             *)
(* len(a.files).  err is a.err # nil, changed                              *)
(* is a.resource.Err() # nil: a later read found that the archive is not   *)
(* the one that was opened.                                                *)
(***************************************************************************)
Archive ==
  [created : 0..MaxTime, read : {"no", "reading", "done"}, began : 0..MaxTime,
   err : BOOLEAN, changed : BOOLEAN, files : 0..Files]

newArchive ==
  [created |-> now, read |-> "no", began |-> 0,
   err |-> FALSE, changed |-> FALSE, files |-> 0]

Absent == [arch |-> None, expires |-> 0]

Found   == item.arch # None
Visible == Found /\ now <= item.expires

\* Mutant: does not ask the resource.
OpenStatusOfRead(a) ==
  IF a.read # "done" THEN "opening" ELSE IF a.err THEN "error" ELSE "opened"

openStatus(a) ==
  IF a.read # "done" THEN "opening"
  ELSE IF a.err THEN "error"
  ELSE IF a.changed THEN "corrupted"
  ELSE "opened"

Corrupted == {i \in ArchiveId : arch[i].changed}

\* bad: the archives known to be corrupted when the call began (history).
Call == [pc : {"idle", "lock", "find", "refresh", "delete", "add", "again", "open", "wait"},
         arch : ArchiveId \cup {None},
         bad  : SUBSET ArchiveId]

Goto(r, pc, a) == req' = [req EXCEPT ![r] = [@ EXCEPT !.pc = pc, !.arch = a]]

Busy == {r \in Request : req[r].pc # "idle"}

-----------------------------------------------------------------------------
(* findOrCreateArchive                                                     *)

\* Root is called.  The bound: a call makes at most one archive.
Begin(r) ==
  /\ req[r].pc = "idle"
  /\ used + Cardinality(Busy) < MaxArchives
  /\ req' = [req EXCEPT ![r] = [pc |-> "lock", arch |-> None, bad |-> Corrupted]]
  /\ UNCHANGED <<now, used, arch, item, evicting, lock, entries, files>>

\* cacheLock.Lock(); Root's loop comes back here after errAlreadyCached.
Enter(r) ==
  /\ req[r].pc \in {"lock", "again"}
  /\ lock = Free
  /\ lock' = r
  /\ Goto(r, "find", None)
  /\ UNCHANGED <<now, used, arch, item, evicting, entries, files>>

\* GetWithExpiration finds an archive that is good enough: unlock.
Hit(r) ==
  LET s == openStatus(arch[item.arch]) IN
  /\ req[r].pc = "find"
  /\ Visible
  /\ \/ s \in {"opening", "error"}
     \/ s = "opened" /\ item.expires - now >= RefreshInterval
  /\ lock' = Free
  /\ Goto(r, "open", item.arch)
  /\ UNCHANGED <<now, used, arch, item, evicting, entries, files>>

\* It finds one that will expire soon.
HitStale(r) ==
  /\ req[r].pc = "find"
  /\ Visible
  /\ openStatus(arch[item.arch]) = "opened"
  /\ item.expires - now < RefreshInterval
  /\ Goto(r, "refresh", item.arch)
  /\ UNCHANGED <<now, used, arch, item, evicting, lock, entries, files>>

\* SetDefault, whatever has become of the item in the meantime; unlock.
Refresh(r) ==
  /\ req[r].pc = "refresh"
  /\ item' = [arch |-> req[r].arch, expires |-> now + Expiration]
  /\ lock' = Free
  /\ Goto(r, "open", req[r].arch)
  /\ UNCHANGED <<now, used, arch, evicting, entries, files>>

\* Mutant: an archive that could not be opened is not kept.
MissOnError(r) ==
  /\ req[r].pc = "find"
  /\ used < MaxArchives
  /\ Visible => openStatus(arch[item.arch]) \in {"error", "corrupted"}
  /\ used' = used + 1
  /\ arch' = [arch EXCEPT ![used + 1] = newArchive]
  /\ Goto(r, "delete", used + 1)
  /\ UNCHANGED <<now, item, evicting, lock, entries, files>>

\* It finds none, or a corrupted one.  The bound of Begin leaves an archive to make.
Miss(r) ==
  /\ req[r].pc = "find"
  /\ used < MaxArchives
  /\ Visible => openStatus(arch[item.arch]) = "corrupted"
  /\ used' = used + 1
  /\ arch' = [arch EXCEPT ![used + 1] = newArchive]
  /\ Goto(r, "delete", used + 1)
  /\ UNCHANGED <<now, item, evicting, lock, entries, files>>

\* Mutant: deletes the item only if it has expired.
DeleteIfExpired(r) ==
  LET gone == Found /\ ~Visible IN
  /\ req[r].pc = "delete"
  /\ item' = IF gone THEN Absent ELSE item
  /\ entries' = IF gone THEN entries - 1 ELSE entries
  /\ files' = IF gone THEN files - arch[item.arch].files ELSE files
  /\ Goto(r, "add", req[r].arch)
  /\ UNCHANGED <<now, used, arch, evicting, lock>>

\* cache.Delete(key), which calls OnEvicted if there was an item.
Delete(r) ==
  /\ req[r].pc = "delete"
  /\ item' = Absent
  /\ entries' = IF Found THEN entries - 1 ELSE entries
  /\ files' = IF Found THEN files - arch[item.arch].files ELSE files
  /\ Goto(r, "add", req[r].arch)
  /\ UNCHANGED <<now, used, arch, evicting, lock>>

\* cache.Add, which fails (errAlreadyCached) if there is an item; unlock.
Add(r) ==
  /\ req[r].pc = "add"
  /\ lock' = Free
  /\ IF Visible
     THEN /\ Goto(r, "again", None)
          /\ UNCHANGED <<item, entries>>
     ELSE /\ item' = [arch |-> req[r].arch, expires |-> now + Expiration]
          /\ entries' = entries + 1
          /\ Goto(r, "open", req[r].arch)
  /\ UNCHANGED <<now, used, arch, evicting, files>>

-----------------------------------------------------------------------------
(* openArchive, without the lock                                           *)

\* It has been opened before, well or not.
OpenAtOnce(r) ==
  LET a == req[r].arch IN
  /\ req[r].pc = "open"
  /\ openStatus(arch[a]) # "opening"
  /\ Goto(r, "idle", IF openStatus(arch[a]) = "opened" THEN a ELSE None)
  /\ UNCHANGED <<now, used, arch, item, evicting, lock, entries, files>>

\* once.Do(go readArchive), and wait.
OpenWait(r) ==
  LET a == req[r].arch IN
  /\ req[r].pc = "open"
  /\ openStatus(arch[a]) = "opening"
  /\ arch' = [arch EXCEPT ![a] =
       IF @.read = "no" THEN [@ EXCEPT !.read = "reading", !.began = now] ELSE @]
  /\ Goto(r, "wait", a)
  /\ UNCHANGED <<now, used, item, evicting, lock, entries, files>>

\* Mutant: the channel is closed only if the archive could be read.
OpenedOnSuccess(r) ==
  LET a == req[r].arch IN
  /\ req[r].pc = "wait"
  /\ arch[a].read = "done" /\ ~arch[a].err
  /\ Goto(r, "idle", a)
  /\ UNCHANGED <<now, used, arch, item, evicting, lock, entries, files>>

\* <-a.done
Opened(r) ==
  LET a == req[r].arch IN
  /\ req[r].pc = "wait"
  /\ arch[a].read = "done"
  /\ Goto(r, "idle", IF arch[a].err THEN None ELSE a)
  /\ UNCHANGED <<now, used, arch, item, evicting, lock, entries, files>>

\* <-ctx.Done(): the request is cancelled or has waited for openTimeout.
Cancelled(r) ==
  /\ req[r].pc = "wait"
  /\ Goto(r, "idle", None)
  /\ UNCHANGED <<now, used, arch, item, evicting, lock, entries, files>>

-----------------------------------------------------------------------------
(* The goroutine that runs readArchive                                     *)

\* NewResource or zip.NewReader fails.
ReadFails(a) ==
  /\ arch[a].read = "reading" /\ arch[a].files = 0
  /\ arch' = [arch EXCEPT ![a].read = "done", ![a].began = 0, ![a].err = TRUE]
  /\ UNCHANGED <<now, used, item, evicting, lock, req, entries, files>>

\* One more file is in the map, whose length an eviction may read meanwhile.
ReadFile(a) ==
  /\ arch[a].read = "reading" /\ arch[a].files < Files
  /\ arch' = [arch EXCEPT ![a].files = arch[a].files + 1]
  /\ UNCHANGED <<now, used, item, evicting, lock, req, entries, files>>

\* The metric, then the deferred close(a.done).
ReadDone(a) ==
  /\ arch[a].read = "reading" /\ arch[a].files = Files
  /\ files' = files + Files
  /\ arch' = [arch EXCEPT ![a].read = "done", ![a].began = 0]
  /\ UNCHANGED <<now, used, item, evicting, lock, req, entries>>

\* Resource.setError: a range request is answered 404, 416 or 200 (http_reader.go).
Change(a) ==
  /\ openStatus(arch[a]) = "opened"
  /\ arch' = [arch EXCEPT ![a].changed = TRUE]
  /\ UNCHANGED <<now, used, item, evicting, lock, req, entries, files>>

-----------------------------------------------------------------------------
(* go-cache's janitor: it deletes under the lock of go-cache, and calls    *)
(* OnEvicted afterwards.                                                   *)

DeleteExpired ==
  /\ Found /\ ~Visible
  /\ evicting = None
  /\ item' = Absent
  /\ evicting' = item.arch
  /\ UNCHANGED <<now, used, arch, lock, req, entries, files>>

\* Mutant: only the metric of the files is lowered.
OnEvictedFiles ==
  /\ evicting # None
  /\ files' = files - arch[evicting].files
  /\ evicting' = None
  /\ UNCHANGED <<now, used, arch, item, lock, req, entries>>

OnEvicted ==
  /\ evicting # None
  /\ entries' = entries - 1
  /\ files' = files - arch[evicting].files
  /\ evicting' = None
  /\ UNCHANGED <<now, used, arch, item, lock, req>>

\* readArchive has its own timeout.
Tick ==
  /\ now < MaxTime
  /\ \A a \in ArchiveId : arch[a].read = "reading" => now < arch[a].began + OpenTimeout
  /\ now' = now + 1
  /\ UNCHANGED <<used, arch, item, evicting, lock, req, entries, files>>

-----------------------------------------------------------------------------

Init ==
  /\ now = 0
  /\ used = 0
  /\ arch = [a \in ArchiveId |-> [created |-> 0, read |-> "no", began |-> 0,
                                 err |-> FALSE, changed |-> FALSE, files |-> 0]]
  /\ item = Absent
  /\ evicting = None
  /\ lock = Free
  /\ req = [r \in Request |-> [pc |-> "idle", arch |-> None, bad |-> {}]]
  /\ entries = 0
  /\ files = 0

Locked(r) == Hit(r) \/ HitStale(r) \/ Refresh(r) \/ Miss(r) \/ Delete(r) \/ Add(r)
Open(r)   == OpenAtOnce(r) \/ OpenWait(r) \/ Opened(r)
Read(a)   == ReadFails(a) \/ ReadFile(a) \/ ReadDone(a)

Next ==
  \/ \E r \in Request : Begin(r) \/ Enter(r) \/ Locked(r) \/ Open(r) \/ Cancelled(r)
  \/ \E a \in ArchiveId : Read(a) \/ Change(a)
  \/ DeleteExpired \/ OnEvicted
  \/ Tick

Spec == Init /\ [][Next]_vars

(***************************************************************************)
(* Goroutines run; a mutex is handed to those who wait for it (sync.Mutex  *)
(* has a starvation mode); readArchive ends, for it has a timeout.         *)
(***************************************************************************)
Fairness ==
  /\ \A r \in Request : SF_vars(Enter(r)) /\ WF_vars(Locked(r)) /\ WF_vars(Open(r))
  /\ \A a \in ArchiveId : WF_vars(Read(a))

FairSpec == Spec /\ Fairness

-----------------------------------------------------------------------------
(* Properties                                                              *)

TypeOK ==
  /\ now \in 0..MaxTime
  /\ used \in 0..MaxArchives
  /\ arch \in [ArchiveId -> Archive]
  /\ item \in [arch : ArchiveId \cup {None}, expires : Nat]
  /\ evicting \in ArchiveId \cup {None}
  /\ lock \in Request \cup {Free}
  /\ req \in [Request -> Call]
  /\ \A r \in Request : lock = r <=> req[r].pc \in {"find", "refresh", "delete", "add"}
  /\ entries \in Int
  /\ files \in Int

(***************************************************************************)
(* Whatever Root calls and the janitor do, an archive is made and read     *)
(* again only after it has expired, or because it is corrupted; one that   *)
(* could not be opened is kept too ("negative cache").                     *)
(***************************************************************************)
OncePerExpiration ==
  \A i, j \in 1..used :
    i < j /\ ~arch[i].changed => arch[j].created - arch[i].created > Expiration

\* cache.Add never finds an archive, neither that of another request nor the
\* corrupted one it is to replace: the loop in Root is run once.
AddSucceeds == \A r \in Request : req[r].pc # "again"

\* A request is not given an archive that was known to be corrupted before
\* the request came, not even if another request waited for it meanwhile.
NoCorruptedArchive == \A r \in Request : req[r].pc = "idle" => req[r].arch \notin req[r].bad

\* Root returns, whether the archive is found, opened, broken or replaced.
RootReturns == \A r \in Request : req[r].pc # "idle" ~> req[r].pc = "idle"

AtRest == lock = Free /\ evicting = None /\ \A a \in ArchiveId : arch[a].read # "reading"

(***************************************************************************)
(* ZipCachedEntries, "The number of entries in the cache": when nobody is  *)
(* at work it does not count what is gone, whichever of Root, Delete and   *)
(* the janitor's OnEvicted came first.  (It can count too little: the      *)
(* janitor removes an item that findOrCreateArchive then puts back.)       *)
(***************************************************************************)
NothingGoneIsCounted == AtRest => entries <= IF Found THEN 1 ELSE 0

=============================================================================
