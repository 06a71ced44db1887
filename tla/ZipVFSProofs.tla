----------------------------- MODULE ZipVFSProofs -----------------------------
(***************************************************************************)
(* Proofs about ZipVFS, for any number of requests, any intervals and any  *)
(* number of archives.                                                     *)
(***************************************************************************)
EXTENDS ZipVFS, TLAPS

\* The prover of a leaf that names none.
USE ZenonT(60)

(***************************************************************************)
(* The inductive invariant.  Between Delete and Add the key has no item,   *)
(* for only the holder of cacheLock stores one.  While no archive is being *)
(* made, the newest one is either in the cache for its whole expiration,   *)
(* or that is over: SetDefault and Add give at least the rest of it, and   *)
(* the janitor removes what has expired.  A corrupted archive has been     *)
(* opened before, so that a call which found one that is not corrupted has *)
(* none that was corrupted when the call began.                            *)
(***************************************************************************)
Inside == {"find", "refresh", "delete", "add"}
Making == \E r \in Request : req[r].pc \in {"delete", "add"}

ArchiveOK(i) ==
  /\ arch[i].changed => arch[i].read = "done" /\ ~ arch[i].err
  /\ i > used => arch[i].read = "no"
  /\ i <= used => arch[i].created <= now

CallOK(c) ==
  /\ c.bad \subseteq Corrupted /\ c.arch \notin c.bad
  /\ c.pc # "again"
  /\ c.pc \in {"open", "wait"} => c.arch \in 1..used
  /\ c.pc \in {"refresh", "delete", "add"} => c.arch = used /\ used > 0
  /\ c.pc = "delete" => item.arch # used
  /\ c.pc = "add" => item.arch = None

ArchivesOK == \A i \in ArchiveId : ArchiveOK(i)
CallsOK    == \A r \in Request : CallOK(req[r])

Covered == item.arch = used /\ item.expires >= arch[used].created + Expiration
Over    == now > arch[used].created + Expiration

ItemOK == ~ Making => item.arch \in {None, used} /\ (used > 0 => Covered \/ Over)

\* The janitor has still to report what it removed.
CountOK == entries <= (IF Found THEN 1 ELSE 0) + (IF evicting # None THEN 1 ELSE 0)

Inv == TypeOK /\ ArchivesOK /\ CallsOK /\ ItemOK /\ CountOK /\ OncePerExpiration

-----------------------------------------------------------------------------
(* The lock and the calls                                                  *)

LockOK == \A r \in Request : lock = r <=> req[r].pc \in Inside

\* The invariant of the lock is part of the type invariant.
LEMMA TypeParts ==
  TypeOK <=> /\ now \in 0..MaxTime /\ used \in 0..MaxArchives
             /\ arch \in [ArchiveId -> Archive]
             /\ item \in [arch : ArchiveId \cup {None}, expires : Nat]
             /\ evicting \in ArchiveId \cup {None}
             /\ lock \in Request \cup {Free} /\ req \in [Request -> Call] /\ LockOK
             /\ entries \in Int /\ files \in Int
  BY DEF TypeOK, LockOK, Inside

\* Only one call is between Lock and Unlock; while it looks for the archive
\* nobody makes one.
LEMMA OneInside ==
  ASSUME Inv, NEW r \in Request, req[r].pc \in Inside
  PROVE  /\ lock = r
         /\ \A s \in Request : s # r => req[s].pc \notin Inside
         /\ req[r].pc \in {"find", "refresh"} => ~ Making
  <1>1. lock = r /\ \A s \in Request : s # r => req[s].pc \notin Inside
    BY TypeParts DEF Inv, LockOK
  <1>2. req[r].pc \in {"find", "refresh"} => ~ Making
    BY <1>1 DEF Making, Inside
  <1> QED
    BY <1>1, <1>2

\* A call goes on inside or outside, ...
LEMMA LockKept ==
  ASSUME Inv, NEW r \in Request, NEW c \in Call, req' = [req EXCEPT ![r] = c],
         lock' = lock, c.pc \in Inside <=> req[r].pc \in Inside
  PROVE  LockOK' /\ lock' \in Request \cup {Free}
  <1>1. req \in [Request -> Call] /\ lock \in Request \cup {Free} /\ LockOK
    BY TypeParts DEF Inv
  <1> QED
    BY <1>1 DEF LockOK

\* ... enters, ...
LEMMA LockTaken ==
  ASSUME Inv, NEW r \in Request, NEW c \in Call, req' = [req EXCEPT ![r] = c],
         lock = Free, lock' = r, c.pc \in Inside
  PROVE  LockOK' /\ lock' \in Request \cup {Free}
  <1>1. req \in [Request -> Call] /\ LockOK
    BY TypeParts DEF Inv
  <1> QED
    BY <1>1, ZipAssumption DEF LockOK

\* ... or leaves.
LEMMA LockGiven ==
  ASSUME Inv, NEW r \in Request, NEW c \in Call, req' = [req EXCEPT ![r] = c],
         req[r].pc \in Inside, lock' = Free, c.pc \notin Inside
  PROVE  LockOK' /\ lock' \in Request \cup {Free}
  <1>1. req \in [Request -> Call] /\ LockOK
    BY TypeParts DEF Inv
  <1>2. \A s \in Request : s # r => req[s].pc \notin Inside
    BY OneInside
  <1> QED
    BY <1>1, <1>2, ZipAssumption DEF LockOK

\* Goto changes where one call is and what it holds.
LEMMA GotoCall ==
  ASSUME Inv, NEW r \in Request, NEW pc, NEW a \in ArchiveId \cup {None}, Goto(r, pc, a),
         pc \in {"idle", "lock", "find", "refresh", "delete", "add", "again", "open", "wait"}
  PROVE  \E c \in Call : /\ req' = [req EXCEPT ![r] = c]
                         /\ c.pc = pc /\ c.arch = a /\ c.bad = req[r].bad
  <1> DEFINE c == [req[r] EXCEPT !.pc = pc, !.arch = a]
  <1>1. req[r] \in Call
    BY TypeParts DEF Inv
  <1>2. c \in Call /\ c.pc = pc /\ c.arch = a /\ c.bad = req[r].bad
    BY <1>1 DEF Call
  <1>3. req' = [req EXCEPT ![r] = c]
    BY DEF Goto
  <1> QED
    BY <1>2, <1>3

\* No call holds what was corrupted when it began.
LEMMA CallFacts ==
  ASSUME Inv, NEW r \in Request
  PROVE  /\ req[r] \in Call /\ CallOK(req[r]) /\ None \notin req[r].bad
         /\ req[r].bad \subseteq Corrupted
  <1>1. req[r] \in Call /\ CallOK(req[r])
    BY TypeParts DEF Inv, CallsOK
  <1>2. None \notin Corrupted
    BY SMTT(60) DEF None, Corrupted, ArchiveId
  <1> QED
    BY <1>1, <1>2 DEF CallOK

-----------------------------------------------------------------------------
(* Steps that change only one call                                         *)

\* What the archives and the item say is said of them alone.
LEMMA CallStep ==
  ASSUME Inv, NEW r \in Request, NEW c \in Call, req' = [req EXCEPT ![r] = c],
         CallOK(c), c.pc \notin {"delete", "add"}, req[r].pc \notin {"delete", "add"},
         LockOK', lock' \in Request \cup {Free},
         UNCHANGED <<now, used, arch, item, evicting, entries, files>>
  PROVE  Inv'
  <1>1. req \in [Request -> Call]
    BY TypeParts DEF Inv
  <1>2. TypeOK'
    <2>1. req' \in [Request -> Call]
      BY <1>1
    <2> QED
      BY <2>1, TypeParts DEF Inv, TypeOK, LockOK, Inside
  <1>3. CallsOK'
    <2>1. SUFFICES ASSUME NEW s \in Request PROVE CallOK(req[s])'
      BY DEF CallsOK
    <2>2. CallOK(req'[s])
      BY <1>1 DEF Inv, CallsOK
    <2> QED
      BY <2>2 DEF CallOK, Corrupted
  <1>4. ItemOK'
    <2>1. Making' <=> Making
      BY <1>1 DEF Making
    <2> QED
      BY <2>1 DEF Inv, ItemOK, Covered, Over
  <1>5. ArchivesOK' /\ CountOK' /\ OncePerExpiration'
    BY DEF Inv, ArchivesOK, ArchiveOK, CountOK, Found, OncePerExpiration
  <1> QED
    BY <1>2, <1>3, <1>4, <1>5 DEF Inv

\* A call begins and notes what is corrupted.
LEMMA BeginStep ==
  ASSUME Inv, NEW r \in Request, Begin(r)
  PROVE  Inv'
  <1> DEFINE c == [pc |-> "lock", arch |-> None, bad |-> Corrupted]
  <1>1. /\ req[r].pc = "idle" /\ req' = [req EXCEPT ![r] = c]
        /\ UNCHANGED <<now, used, arch, item, evicting, lock, entries, files>>
    BY DEF Begin
  <1>2. Corrupted \subseteq ArchiveId /\ None \notin Corrupted
    BY SMTT(60) DEF Corrupted, ArchiveId, None
  <1>3. c \in Call /\ c.pc = "lock" /\ CallOK(c)
    BY <1>2 DEF Call, CallOK
  <1> HIDE DEF c
  <1>4. LockOK' /\ lock' \in Request \cup {Free}
    BY <1>1, <1>3, LockKept DEF Inside
  <1> QED
    BY <1>1, <1>3, <1>4, CallStep

\* It takes the lock.
LEMMA EnterStep ==
  ASSUME Inv, NEW r \in Request, Enter(r)
  PROVE  Inv'
  <1>1. /\ req[r].pc \in {"lock", "again"} /\ lock = Free /\ lock' = r /\ Goto(r, "find", None)
        /\ UNCHANGED <<now, used, arch, item, evicting, entries, files>>
    BY DEF Enter
  <1>2. PICK c \in Call : /\ req' = [req EXCEPT ![r] = c]
                         /\ c.pc = "find" /\ c.arch = None /\ c.bad = req[r].bad
    BY <1>1, GotoCall, SMTT(60)
  <1>3. CallOK(c)
    BY <1>2, CallFacts DEF CallOK
  <1>4. LockOK' /\ lock' \in Request \cup {Free}
    BY <1>1, <1>2, LockTaken DEF Inside
  <1> QED
    BY <1>1, <1>2, <1>3, <1>4, CallStep

\* What is found in the cache is the newest archive; an archive that counts as
\* good is not one of those that were corrupted.
LEMMA FoundIsNewest ==
  ASSUME Inv, NEW r \in Request, req[r].pc = "find", Visible
  PROVE  /\ item.arch = used /\ used > 0 /\ item.arch \in ArchiveId
         /\ openStatus(arch[item.arch]) # "corrupted" => item.arch \notin req[r].bad
  <1>1. ~ Making
    BY OneInside DEF Inside
  <1>2. item.arch = used /\ used \in 0..MaxArchives /\ item.arch # 0 /\ item.arch \in ArchiveId \cup {None}
    BY <1>1, TypeParts DEF Inv, ItemOK, Visible, Found, None
  <1>3. item.arch \in ArchiveId
    BY <1>2 DEF None
  <1>4. openStatus(arch[item.arch]) # "corrupted" => item.arch \notin Corrupted
    BY <1>3 DEF Inv, ArchivesOK, ArchiveOK, openStatus, Corrupted
  <1> QED
    BY <1>2, <1>3, <1>4, CallFacts, SMTT(60)

\* It finds an archive, ...
LEMMA HitStep ==
  ASSUME Inv, NEW r \in Request, Hit(r)
  PROVE  Inv'
  <1>1. /\ req[r].pc = "find" /\ Visible /\ lock' = Free /\ Goto(r, "open", item.arch)
        /\ openStatus(arch[item.arch]) # "corrupted"
        /\ UNCHANGED <<now, used, arch, item, evicting, entries, files>>
    BY DEF Hit
  <1>2. item.arch \in ArchiveId /\ item.arch = used /\ used > 0 /\ item.arch \notin req[r].bad
    BY <1>1, FoundIsNewest
  <1>3. PICK c \in Call : /\ req' = [req EXCEPT ![r] = c]
                         /\ c.pc = "open" /\ c.arch = item.arch /\ c.bad = req[r].bad
    BY <1>1, <1>2, GotoCall, SMTT(60)
  <1>4. c.arch \in 1..used
    BY <1>2, <1>3, SMTT(60) DEF ArchiveId
  <1>5. CallOK(c)
    BY <1>2, <1>3, <1>4, CallFacts DEF CallOK
  <1>6. LockOK' /\ lock' \in Request \cup {Free}
    BY <1>1, <1>3, LockGiven DEF Inside
  <1> QED
    BY <1>1, <1>3, <1>5, <1>6, CallStep

\* ... or one to refresh.
LEMMA HitStaleStep ==
  ASSUME Inv, NEW r \in Request, HitStale(r)
  PROVE  Inv'
  <1>1. /\ req[r].pc = "find" /\ Visible /\ lock' = lock /\ Goto(r, "refresh", item.arch)
        /\ openStatus(arch[item.arch]) # "corrupted"
        /\ UNCHANGED <<now, used, arch, item, evicting, entries, files>>
    BY DEF HitStale
  <1>2. item.arch \in ArchiveId /\ item.arch = used /\ used > 0 /\ item.arch \notin req[r].bad
    BY <1>1, FoundIsNewest
  <1>3. PICK c \in Call : /\ req' = [req EXCEPT ![r] = c]
                         /\ c.pc = "refresh" /\ c.arch = item.arch /\ c.bad = req[r].bad
    BY <1>1, <1>2, GotoCall, SMTT(60)
  <1>4. CallOK(c)
    BY <1>2, <1>3, CallFacts DEF CallOK
  <1>5. LockOK' /\ lock' \in Request \cup {Free}
    BY <1>1, <1>3, LockKept DEF Inside
  <1> QED
    BY <1>1, <1>3, <1>4, <1>5, CallStep

\* A call returns, with the archive it holds or without one.
LEMMA ReturnStep ==
  ASSUME Inv, NEW r \in Request, NEW a \in {None, req[r].arch}, Goto(r, "idle", a),
         req[r].pc \in {"open", "wait"},
         UNCHANGED <<now, used, arch, item, evicting, lock, entries, files>>
  PROVE  Inv'
  <1>1. a \in ArchiveId \cup {None} /\ a \notin req[r].bad
    BY CallFacts DEF Call, CallOK
  <1>2. PICK c \in Call : /\ req' = [req EXCEPT ![r] = c]
                         /\ c.pc = "idle" /\ c.arch = a /\ c.bad = req[r].bad
    BY <1>1, GotoCall, SMTT(60)
  <1>3. CallOK(c)
    BY <1>1, <1>2, CallFacts DEF CallOK
  <1>4. LockOK' /\ lock' \in Request \cup {Free}
    BY <1>2, LockKept DEF Inside
  <1> QED
    BY <1>2, <1>3, <1>4, CallStep

-----------------------------------------------------------------------------
(* Steps that change an archive                                            *)

\* An archive stays the one that was made, and a corrupted one stays corrupted.
Kept ==
  /\ used' = used /\ now' = now /\ item' = item
  /\ arch' \in [ArchiveId -> Archive]
  /\ \A i \in ArchiveId : /\ arch'[i].created = arch[i].created
                          /\ arch[i].changed => arch'[i].changed

\* What is said of archives and calls stays true then.
LEMMA KeptStep ==
  ASSUME Inv, Kept
  PROVE  /\ OncePerExpiration'
         /\ Making' = Making => ItemOK'
         /\ \A c \in Call : CallOK(c) => CallOK(c)'
  <1>1. used \in 0..MaxArchives /\ \A i \in 1..used : i \in ArchiveId
    BY TypeParts, ZipAssumption, SMTT(60) DEF Inv, ArchiveId
  <1>2. OncePerExpiration'
    BY <1>1 DEF Inv, Kept, OncePerExpiration
  <1>3. used > 0 => arch'[used].created = arch[used].created
    BY <1>1, SMTT(60) DEF Kept
  <1>4. Making' = Making => ItemOK'
    BY <1>3, SMTT(60) DEF Inv, Kept, ItemOK, Covered, Over
  <1>5. Corrupted \subseteq Corrupted'
    BY DEF Kept, Corrupted
  <1>6. ASSUME NEW c \in Call, CallOK(c) PROVE CallOK(c)'
    BY <1>5, <1>6 DEF Kept, CallOK
  <1> QED
    BY <1>2, <1>4, <1>6

\* The read of an archive ends or goes on, or the archive is found to be changed.
LEMMA ReadStep ==
  ASSUME Inv, NEW i \in ArchiveId, Read(i) \/ Change(i)
  PROVE  Inv'
  <1>1. arch \in [ArchiveId -> Archive] /\ files \in Int /\ Files \in Nat
    BY TypeParts, ZipAssumption DEF Inv
  <1>2. arch[i] \in Archive /\ 0 \in 0..MaxTime
    BY <1>1, ZipAssumption, SMTT(60)
  <1>3. PICK a \in Archive :
          /\ arch' = [arch EXCEPT ![i] = a]
          /\ a.created = arch[i].created
          /\ arch[i].changed => a.changed
          /\ a.changed => a.read = "done" /\ ~ a.err
          /\ a.read = "no" <=> arch[i].read = "no"
    <2>1. CASE ReadFails(i)
      <3> DEFINE a == [arch[i] EXCEPT !.read = "done", !.began = 0, !.err = TRUE]
      <3>1. arch' = [arch EXCEPT ![i] = a]
        BY <2>1, <1>1 DEF ReadFails
      <3>2. a \in Archive
        BY <1>2 DEF Archive
      <3>3. arch[i].read = "reading" /\ ~ arch[i].changed
        BY <2>1 DEF ReadFails, Inv, ArchivesOK, ArchiveOK
      <3> QED
        BY <1>2, <3>1, <3>2, <3>3 DEF Archive
    <2>2. CASE ReadFile(i)
      <3> DEFINE a == [arch[i] EXCEPT !.files = arch[i].files + 1]
      <3>1. arch' = [arch EXCEPT ![i] = a]
        BY <2>2, <1>1 DEF ReadFile
      <3>2. arch[i].read = "reading" /\ ~ arch[i].changed /\ arch[i].files + 1 \in 0..Files
        BY <1>2, <2>2, ZipAssumption, SMTT(60) DEF ReadFile, Inv, ArchivesOK, ArchiveOK, Archive
      <3>3. a \in Archive
        BY <1>2, <3>2 DEF Archive
      <3> QED
        BY <1>2, <3>1, <3>2, <3>3 DEF Archive
    <2>3. CASE ReadDone(i)
      <3> DEFINE a == [arch[i] EXCEPT !.read = "done", !.began = 0]
      <3>1. arch' = [arch EXCEPT ![i] = a]
        BY <2>3, <1>1 DEF ReadDone
      <3>2. a \in Archive
        BY <1>2 DEF Archive
      <3>3. arch[i].read = "reading" /\ ~ arch[i].changed
        BY <2>3 DEF ReadDone, Inv, ArchivesOK, ArchiveOK
      <3> QED
        BY <1>2, <3>1, <3>2, <3>3 DEF Archive
    <2>4. CASE Change(i)
      <3> DEFINE a == [arch[i] EXCEPT !.changed = TRUE]
      <3>1. arch' = [arch EXCEPT ![i] = a]
        BY <2>4, <1>1 DEF Change
      <3>2. a \in Archive
        BY <1>2 DEF Archive
      <3>3. arch[i].read = "done" /\ ~ arch[i].err
        BY <2>4 DEF Change, openStatus
      <3> QED
        BY <1>2, <3>1, <3>2, <3>3 DEF Archive
    <2> QED
      BY <2>1, <2>2, <2>3, <2>4 DEF Read
  <1>4. UNCHANGED <<now, used, item, evicting, lock, req, entries>> /\ files' \in Int
    BY <1>1, SMTT(60) DEF Read, ReadFails, ReadFile, ReadDone, Change
  <1>5. Kept
    BY <1>1, <1>3, <1>4 DEF Kept
  <1>6. TypeOK'
    BY <1>4, <1>5, TypeParts DEF Inv, TypeOK, LockOK, Inside, Kept
  <1>7. ArchivesOK'
    <2>1. SUFFICES ASSUME NEW k \in ArchiveId PROVE ArchiveOK(k)'
      BY DEF ArchivesOK
    <2>2. ArchiveOK(k) /\ ArchiveOK(i)
      BY DEF Inv, ArchivesOK
    <2> QED
      BY <1>1, <1>3, <1>4, <2>2 DEF ArchiveOK
  <1>8. CallsOK'
    BY <1>4, <1>5, KeptStep, CallFacts DEF CallsOK
  <1>9. ItemOK' /\ OncePerExpiration' /\ CountOK'
    BY <1>4, <1>5, KeptStep DEF Making, Inv, CountOK, Found
  <1> QED
    BY <1>6, <1>7, <1>8, <1>9 DEF Inv

\* The first call to open an archive starts its read.
LEMMA OpenWaitStep ==
  ASSUME Inv, NEW r \in Request, OpenWait(r)
  PROVE  Inv'
  <1> DEFINE i == req[r].arch
             a == IF arch[i].read = "no"
                  THEN [arch[i] EXCEPT !.read = "reading", !.began = now] ELSE arch[i]
  <1>1. /\ arch \in [ArchiveId -> Archive] /\ now \in 0..MaxTime /\ used \in 0..MaxArchives
        /\ req \in [Request -> Call]
    BY TypeParts DEF Inv
  <1>2. req[r].pc = "open" /\ i \in 1..used /\ i \in ArchiveId
    BY <1>1, CallFacts, ZipAssumption, SMTT(60) DEF OpenWait, CallOK, ArchiveId
  <1>3. /\ a \in Archive /\ a.created = arch[i].created /\ a.changed = arch[i].changed
        /\ a.err = arch[i].err /\ a.read \in {"reading", arch[i].read}
        /\ a.read = "reading" => arch[i].read # "done"
    <2>1. arch[i] \in Archive
      BY <1>1, <1>2
    <2> QED
      BY <2>1, <1>1, <1>2 DEF Archive, OpenWait, openStatus
  <1>4. /\ arch' = [arch EXCEPT ![i] = a] /\ Goto(r, "wait", i)
        /\ UNCHANGED <<now, used, item, evicting, lock, entries, files>>
    BY <1>1, <1>2 DEF OpenWait
  <1> HIDE DEF a
  <1>5. PICK c \in Call : /\ req' = [req EXCEPT ![r] = c]
                         /\ c.pc = "wait" /\ c.arch = i /\ c.bad = req[r].bad
    BY <1>2, <1>4, GotoCall, SMTT(60)
  <1>6. Kept
    BY <1>1, <1>3, <1>4 DEF Kept
  <1>7. LockOK' /\ lock' \in Request \cup {Free}
    BY <1>2, <1>4, <1>5, LockKept DEF Inside
  <1>8. req' \in [Request -> Call]
    BY <1>1, <1>5
  <1>9. TypeOK'
    BY <1>4, <1>6, <1>7, <1>8, TypeParts DEF Inv, TypeOK, LockOK, Inside, Kept
  <1>10. ArchivesOK'
    <2>1. SUFFICES ASSUME NEW k \in ArchiveId PROVE ArchiveOK(k)'
      BY DEF ArchivesOK
    <2>2. ArchiveOK(k) /\ ArchiveOK(i)
      BY <1>2 DEF Inv, ArchivesOK
    <2> QED
      BY <1>1, <1>2, <1>3, <1>4, <2>2, SMTT(60) DEF ArchiveOK
  <1>11. CallsOK'
    <2>1. CallOK(c)
      BY <1>2, <1>5, CallFacts DEF CallOK
    <2>2. \A s \in Request : CallOK(req'[s]) /\ req'[s] \in Call
      BY <1>1, <1>5, <2>1, CallFacts
    <2> QED
      BY <1>6, <2>2, KeptStep DEF CallsOK, CallOK
  <1>12. Making' = Making
    BY <1>1, <1>2, <1>5 DEF Making
  <1>13. ItemOK' /\ OncePerExpiration' /\ CountOK'
    BY <1>4, <1>6, <1>12, KeptStep DEF Inv, CountOK, Found
  <1> QED
    BY <1>9, <1>10, <1>11, <1>13 DEF Inv

-----------------------------------------------------------------------------
(* Steps of the holder of the lock that change the item                    *)

\* What is said of the other calls does not depend on the item.
LEMMA OthersOK ==
  ASSUME Inv, NEW r \in Request, req[r].pc \in Inside,
         NEW c \in Call, req' = [req EXCEPT ![r] = c], CallOK(c)',
         used' \in Nat, used' >= used, Corrupted \subseteq Corrupted'
  PROVE  CallsOK' /\ req' \in [Request -> Call]
  <1>1. req \in [Request -> Call] /\ used \in Nat
    BY TypeParts, ZipAssumption, SMTT(60) DEF Inv
  <1>2. SUFFICES ASSUME NEW s \in Request PROVE CallOK(req[s])'
    BY <1>1 DEF CallsOK
  <1>3. CASE s = r
    <2>1. req'[s] = c
      BY <1>1, <1>3
    <2> QED
      BY <2>1 DEF CallOK
  <1>4. CASE s # r
    <2>1. req'[s] = req[s] /\ CallOK(req[s]) /\ req[s].pc \notin Inside
      BY <1>1, <1>4, OneInside, CallFacts
    <2> QED
      BY <1>1, <2>1, SMTT(60) DEF CallOK, Inside
  <1> QED
    BY <1>3, <1>4

\* Nobody makes an archive when the holder of the lock does not.
LEMMA NobodyMakes ==
  ASSUME Inv, NEW r \in Request, req[r].pc \in Inside,
         NEW c \in Call, req' = [req EXCEPT ![r] = c]
  PROVE  Making' <=> c.pc \in {"delete", "add"}
  <1>1. req \in [Request -> Call] /\ \A s \in Request : s # r => req[s].pc \notin Inside
    BY TypeParts, OneInside DEF Inv
  <1> QED
    BY <1>1 DEF Making, Inside

\* The newest archive is put into the cache for a whole expiration, and the
\* lock is given back.
LEMMA StoreStep ==
  ASSUME Inv, NEW r \in Request, req[r].pc \in {"refresh", "add"},
         item' = [arch |-> req[r].arch, expires |-> now + Expiration],
         lock' = Free, Goto(r, "open", req[r].arch),
         UNCHANGED <<now, used, arch, evicting, files>>,
         entries' \in Int,
         entries' <= 1 + (IF evicting # None THEN 1 ELSE 0)
  PROVE  Inv'
  <1>1. /\ now \in 0..MaxTime /\ used \in 0..MaxArchives /\ arch \in [ArchiveId -> Archive]
        /\ req[r] \in Call /\ Expiration \in Nat /\ MaxTime \in Nat /\ MaxArchives \in Nat
    BY TypeParts, CallFacts, ZipAssumption DEF Inv
  <1>2. req[r].arch = used /\ used > 0 /\ used \in ArchiveId /\ req[r].arch \notin req[r].bad
    BY <1>1, CallFacts, SMTT(60) DEF CallOK, ArchiveId
  <1>3. PICK c \in Call : /\ req' = [req EXCEPT ![r] = c]
                         /\ c.pc = "open" /\ c.arch = used /\ c.bad = req[r].bad
    BY <1>2, GotoCall, SMTT(60)
  <1>4. item'.arch = used /\ item'.expires = now + Expiration
    BY <1>2
  <1>5. CallOK(c)'
    <2>1. c.bad \subseteq Corrupted' /\ c.arch \notin c.bad
      BY <1>2, <1>3, CallFacts DEF Corrupted
    <2> QED
      BY <1>1, <1>2, <1>3, <2>1, SMTT(60) DEF CallOK
  <1>6. CallsOK' /\ req' \in [Request -> Call]
    <2>1. used' \in Nat /\ used' >= used /\ Corrupted \subseteq Corrupted'
      BY <1>1, SMTT(60) DEF Corrupted
    <2> QED
      BY <1>3, <1>5, <2>1, OthersOK DEF Inside
  <1>7. LockOK' /\ lock' \in Request \cup {Free}
    BY <1>3, LockGiven DEF Inside
  <1>8. TypeOK'
    <2>1. item' \in [arch : ArchiveId \cup {None}, expires : Nat]
      BY <1>1, <1>2, SMTT(60)
    <2> QED
      BY <2>1, <1>6, <1>7, TypeParts DEF Inv, TypeOK, LockOK, Inside
  <1>9. ItemOK'
    <2>1. arch[used].created <= now /\ arch[used].created \in Nat
      BY <1>1, <1>2, SMTT(60) DEF Inv, ArchivesOK, ArchiveOK, Archive
    <2>2. Covered'
      BY <1>1, <1>4, <2>1, SMTT(60) DEF Covered
    <2> QED
      BY <1>4, <2>2 DEF ItemOK
  <1>10. CountOK'
    <2>1. Found'
      BY <1>2, <1>4, SMTT(60) DEF Found, None
    <2> QED
      BY <2>1 DEF CountOK
  <1>11. ArchivesOK' /\ OncePerExpiration'
    BY DEF Inv, ArchivesOK, ArchiveOK, OncePerExpiration
  <1> QED
    BY <1>6, <1>8, <1>9, <1>10, <1>11 DEF Inv

\* SetDefault.
LEMMA RefreshStep ==
  ASSUME Inv, NEW r \in Request, Refresh(r)
  PROVE  Inv'
  <1>1. entries \in Int /\ entries <= 1 + (IF evicting # None THEN 1 ELSE 0)
    BY TypeParts, SMTT(60) DEF Inv, CountOK
  <1> QED
    BY <1>1, StoreStep DEF Refresh

\* Add finds no item.
LEMMA AddStep ==
  ASSUME Inv, NEW r \in Request, Add(r)
  PROVE  Inv'
  <1>1. ~ Found
    BY CallFacts DEF Add, CallOK, Found
  <1>2. /\ req[r].pc = "add" /\ lock' = Free /\ entries' = entries + 1
        /\ item' = [arch |-> req[r].arch, expires |-> now + Expiration]
        /\ Goto(r, "open", req[r].arch) /\ UNCHANGED <<now, used, arch, evicting, files>>
    BY <1>1 DEF Add, Visible
  <1>3. entries' \in Int /\ entries' <= 1 + (IF evicting # None THEN 1 ELSE 0)
    BY <1>1, <1>2, TypeParts, SMTT(60) DEF Inv, CountOK
  <1> QED
    BY <1>2, <1>3, StoreStep

\* Delete leaves no item.
LEMMA DeleteStep ==
  ASSUME Inv, NEW r \in Request, Delete(r)
  PROVE  Inv'
  <1>1. /\ used \in 0..MaxArchives /\ arch \in [ArchiveId -> Archive] /\ req[r] \in Call
        /\ item.arch \in ArchiveId \cup {None} /\ entries \in Int /\ files \in Int
        /\ Files \in Nat /\ MaxArchives \in Nat
    BY TypeParts, CallFacts, ZipAssumption DEF Inv
  <1>2. /\ req[r].pc = "delete" /\ item' = Absent /\ Goto(r, "add", req[r].arch)
        /\ entries' = IF Found THEN entries - 1 ELSE entries
        /\ UNCHANGED <<now, used, arch, evicting, lock>>
    BY DEF Delete
  <1>3. req[r].arch = used /\ used > 0 /\ used \in ArchiveId /\ req[r].arch \notin req[r].bad
    BY <1>1, <1>2, CallFacts, SMTT(60) DEF CallOK, ArchiveId
  <1>4. PICK c \in Call : /\ req' = [req EXCEPT ![r] = c]
                         /\ c.pc = "add" /\ c.arch = used /\ c.bad = req[r].bad
    BY <1>2, <1>3, GotoCall, SMTT(60)
  <1>5. item'.arch = None /\ item' \in [arch : ArchiveId \cup {None}, expires : Nat]
    BY <1>2 DEF Absent
  <1>6. CallOK(c)'
    <2>1. c.bad \subseteq Corrupted' /\ c.arch \notin c.bad
      BY <1>2, <1>3, <1>4, CallFacts DEF Corrupted
    <2> QED
      BY <1>1, <1>2, <1>3, <1>4, <1>5, <2>1 DEF CallOK
  <1>7. CallsOK' /\ req' \in [Request -> Call]
    <2>1. used' \in Nat /\ used' >= used /\ Corrupted \subseteq Corrupted'
      BY <1>1, <1>2, SMTT(60) DEF Corrupted
    <2> QED
      BY <1>2, <1>4, <1>6, <2>1, OthersOK DEF Inside
  <1>8. LockOK' /\ lock' \in Request \cup {Free}
    BY <1>2, <1>4, LockKept DEF Inside
  <1>9. entries' \in Int /\ files' \in Int
    <2>1. Found => arch[item.arch].files \in Int
      BY <1>1, SMTT(60) DEF Found, Archive
    <2> QED
      BY <1>1, <2>1, SMTT(60) DEF Delete
  <1>10. TypeOK'
    BY <1>2, <1>5, <1>7, <1>8, <1>9, TypeParts DEF Inv, TypeOK, LockOK, Inside
  <1>11. ItemOK'
    BY <1>2, <1>4, NobodyMakes DEF ItemOK, Inside
  <1>12. CountOK'
    <2>1. ~ Found'
      BY <1>5 DEF Found
    <2> QED
      BY <1>1, <1>2, <2>1, SMTT(60) DEF Inv, CountOK
  <1>13. ArchivesOK' /\ OncePerExpiration'
    BY <1>2 DEF Inv, ArchivesOK, ArchiveOK, OncePerExpiration
  <1> QED
    BY <1>7, <1>10, <1>11, <1>12, <1>13 DEF Inv

\* When none is found that is good, the newest archive has expired or is corrupted,
\* and so has or is every earlier one.
LEMMA MissIsDue ==
  ASSUME Inv, NEW r \in Request, Miss(r), NEW i \in 1..used, ~ arch[i].changed
  PROVE  now - arch[i].created > Expiration
  <1>1. /\ now \in Nat /\ used \in 0..MaxArchives /\ arch \in [ArchiveId -> Archive]
        /\ item.expires \in Nat /\ Expiration \in Nat /\ MaxArchives \in Nat
    BY TypeParts, ZipAssumption, SMTT(60) DEF Inv
  <1>2. used > 0 /\ used \in ArchiveId /\ i \in ArchiveId
    BY <1>1, SMTT(60) DEF ArchiveId
  <1>3. /\ arch[used].created \in Nat /\ arch[i].created \in Nat /\ arch[used].created <= now
    BY <1>1, <1>2, ZipAssumption, SMTT(60) DEF Inv, ArchivesOK, ArchiveOK, Archive
  <1>4. CASE i = used
    <2>1. ~ Making
      BY OneInside DEF Miss, Inside
    <2>2. Covered \/ Over
      BY <1>2, <2>1 DEF Inv, ItemOK
    <2>3. Covered => ~ Visible
      BY <1>4 DEF Covered, Miss, openStatus
    <2>4. Covered => now > item.expires
      BY <1>1, <1>2, <2>3, SMTT(60) DEF Covered, Visible, Found, None
    <2> QED
      BY <1>1, <1>3, <1>4, <2>2, <2>4, SMTT(60) DEF Covered, Over
  <1>5. CASE i # used
    <2>1. arch[used].created - arch[i].created > Expiration
      BY <1>1, <1>2, <1>5, SMTT(60) DEF Inv, OncePerExpiration
    <2> QED
      BY <1>1, <1>3, <2>1, SMTT(60)
  <1> QED
    BY <1>4, <1>5

\* A new archive is made.
LEMMA MissStep ==
  ASSUME Inv, NEW r \in Request, Miss(r)
  PROVE  Inv'
  <1> DEFINE n == used + 1
  <1>1. /\ now \in 0..MaxTime /\ used \in 0..MaxArchives /\ arch \in [ArchiveId -> Archive]
        /\ req[r] \in Call /\ item.arch \in ArchiveId \cup {None}
        /\ MaxArchives \in Nat /\ MaxTime \in Nat /\ Files \in Nat /\ Expiration \in Nat
    BY TypeParts, CallFacts, ZipAssumption DEF Inv
  <1>2. /\ req[r].pc = "find" /\ used < MaxArchives /\ used' = n
        /\ arch' = [arch EXCEPT ![n] = newArchive] /\ Goto(r, "delete", n)
        /\ UNCHANGED <<now, item, evicting, lock, entries, files>>
    BY DEF Miss
  <1>3. n \in ArchiveId /\ n > 0
    BY <1>1, <1>2, SMTT(60) DEF ArchiveId
  <1>4. /\ newArchive \in Archive /\ newArchive.created = now /\ newArchive.read = "no"
        /\ newArchive.changed = FALSE
    <2>1. 0 \in 0..MaxTime /\ 0 \in 0..Files
      BY <1>1, SMTT(60)
    <2> QED
      BY <1>1, <2>1 DEF newArchive, Archive
  <1>5. /\ arch' \in [ArchiveId -> Archive] /\ arch'[n] = newArchive
        /\ \A i \in ArchiveId : i # n => arch'[i] = arch[i]
    BY <1>1, <1>2, <1>3, <1>4
  <1>6. n \notin Corrupted
    BY <1>1, <1>3, SMTT(60) DEF Corrupted, Inv, ArchivesOK, ArchiveOK
  <1>7. Corrupted \subseteq Corrupted'
    BY <1>5, <1>6 DEF Corrupted
  <1>8. PICK c \in Call : /\ req' = [req EXCEPT ![r] = c]
                         /\ c.pc = "delete" /\ c.arch = n /\ c.bad = req[r].bad
    BY <1>2, <1>3, GotoCall, SMTT(60)
  <1>9. item.arch # n
    <2>1. item.arch \in {None, used}
      BY <1>2, OneInside DEF Inv, ItemOK, Inside
    <2> QED
      BY <1>1, <2>1, SMTT(60) DEF None
  <1>10. CallOK(c)'
    <2>1. c.bad \subseteq Corrupted' /\ c.arch \notin c.bad
      BY <1>6, <1>7, <1>8, CallFacts
    <2> QED
      BY <1>2, <1>3, <1>8, <1>9, <2>1 DEF CallOK
  <1>11. CallsOK' /\ req' \in [Request -> Call]
    <2>1. used' \in Nat /\ used' >= used
      BY <1>1, <1>2, SMTT(60)
    <2> QED
      BY <1>2, <1>7, <1>8, <1>10, <2>1, OthersOK DEF Inside
  <1>12. LockOK' /\ lock' \in Request \cup {Free}
    BY <1>2, <1>8, LockKept DEF Inside
  <1>13. TypeOK'
    <2>1. used' \in 0..MaxArchives
      BY <1>1, <1>2, SMTT(60)
    <2> QED
      BY <1>2, <1>5, <1>11, <1>12, <2>1, TypeParts DEF Inv, TypeOK, LockOK, Inside
  <1>14. ArchivesOK'
    <2>1. SUFFICES ASSUME NEW k \in ArchiveId PROVE ArchiveOK(k)'
      BY DEF ArchivesOK
    <2>2. CASE k = n
      BY <1>1, <1>2, <1>4, <1>5, <2>2, SMTT(60) DEF ArchiveOK
    <2>3. CASE k # n
      <3>1. ArchiveOK(k) /\ arch'[k] = arch[k] /\ k \in Nat
        BY <1>5, <2>3, SMTT(60) DEF Inv, ArchivesOK, ArchiveId
      <3> QED
        BY <1>1, <1>2, <2>3, <3>1, SMTT(60) DEF ArchiveOK
    <2> QED
      BY <2>2, <2>3
  <1>15. ItemOK'
    BY <1>2, <1>8, NobodyMakes DEF ItemOK, Inside
  <1>16. CountOK'
    BY <1>2 DEF Inv, CountOK, Found
  <1>17. OncePerExpiration'
    <2>1. SUFFICES ASSUME NEW i \in 1..n, NEW j \in 1..n, i < j, ~ arch'[i].changed
                   PROVE  arch'[j].created - arch'[i].created > Expiration
      BY <1>2 DEF OncePerExpiration
    <2>2. i \in 1..used /\ i # n /\ i \in ArchiveId /\ j \in ArchiveId
      BY <1>1, <1>2, <2>1, SMTT(60) DEF ArchiveId
    <2>3. arch'[i] = arch[i]
      BY <1>5, <2>2
    <2>4. CASE j = n
      BY <1>4, <1>5, <2>1, <2>2, <2>3, <2>4, MissIsDue
    <2>5. CASE j # n
      <3>1. arch'[j] = arch[j] /\ j \in 1..used
        BY <1>1, <1>5, <2>2, <2>5, SMTT(60)
      <3> QED
        BY <2>1, <2>2, <2>3, <3>1 DEF Inv, OncePerExpiration
    <2> QED
      BY <2>4, <2>5
  <1> QED
    BY <1>11, <1>13, <1>14, <1>15, <1>16, <1>17 DEF Inv

-----------------------------------------------------------------------------
(* The janitor and the clock                                               *)

\* The janitor removes the newest archive only after its expiration.
LEMMA DeleteExpiredStep ==
  ASSUME Inv, DeleteExpired
  PROVE  Inv'
  <1>1. /\ now \in Nat /\ used \in 0..MaxArchives /\ arch \in [ArchiveId -> Archive]
        /\ item \in [arch : ArchiveId \cup {None}, expires : Nat]
        /\ Expiration \in Nat /\ MaxArchives \in Nat /\ MaxTime \in Nat /\ entries \in Int
    BY TypeParts, ZipAssumption, SMTT(60) DEF Inv
  <1>2. /\ Found /\ now > item.expires /\ evicting = None /\ evicting' = item.arch /\ item' = Absent
        /\ UNCHANGED <<now, used, arch, lock, req, entries, files>>
    BY <1>1, SMTT(60) DEF DeleteExpired, Visible
  <1>3. /\ item'.arch = None /\ item' \in [arch : ArchiveId \cup {None}, expires : Nat]
        /\ evicting' \in ArchiveId /\ evicting' # None
    BY <1>1, <1>2 DEF Absent, Found
  <1>4. TypeOK'
    BY <1>2, <1>3, TypeParts DEF Inv, TypeOK, LockOK, Inside
  <1>5. CallsOK'
    <2>1. SUFFICES ASSUME NEW s \in Request PROVE CallOK(req[s])'
      BY DEF CallsOK
    <2>2. CallOK(req[s]) /\ (used > 0 => item'.arch # used)
      BY <1>3, CallFacts, SMTT(60) DEF None
    <2> QED
      BY <1>2, <1>3, <2>2 DEF CallOK, Corrupted
  <1>6. ItemOK'
    <2>1. used > 0 => arch[used].created \in Nat
      BY <1>1, SMTT(60) DEF Archive, ArchiveId
    <2>2. used > 0 /\ Covered => Over
      BY <1>1, <1>2, <2>1, SMTT(60) DEF Covered, Over
    <2>3. Making' = Making /\ Over' = Over
      BY <1>2 DEF Making, Over
    <2> QED
      BY <1>2, <1>3, <2>2, <2>3 DEF Inv, ItemOK
  <1>7. CountOK'
    BY <1>1, <1>2, <1>3, SMTT(60) DEF Inv, CountOK, Found
  <1>8. ArchivesOK' /\ OncePerExpiration'
    BY <1>2 DEF Inv, ArchivesOK, ArchiveOK, OncePerExpiration
  <1> QED
    BY <1>4, <1>5, <1>6, <1>7, <1>8 DEF Inv

\* It reports what it has removed.
LEMMA OnEvictedStep ==
  ASSUME Inv, OnEvicted
  PROVE  Inv'
  <1>1. /\ evicting \in ArchiveId \cup {None} /\ arch \in [ArchiveId -> Archive]
        /\ entries \in Int /\ files \in Int /\ Files \in Nat
    BY TypeParts, ZipAssumption DEF Inv
  <1>2. /\ evicting # None /\ evicting' = None /\ entries' = entries - 1
        /\ files' = files - arch[evicting].files
        /\ UNCHANGED <<now, used, arch, item, lock, req>>
    BY DEF OnEvicted
  <1>3. arch[evicting].files \in Int
    BY <1>1, <1>2, SMTT(60) DEF Archive
  <1>4. TypeOK'
    BY <1>1, <1>2, <1>3, TypeParts, SMTT(60) DEF Inv, TypeOK, LockOK, Inside
  <1>5. CallsOK' /\ ItemOK'
    BY <1>2 DEF Inv, CallsOK, CallOK, Corrupted, ItemOK, Making, Covered, Over
  <1>6. CountOK'
    BY <1>1, <1>2, SMTT(60) DEF Inv, CountOK, Found
  <1>7. ArchivesOK' /\ OncePerExpiration'
    BY <1>2 DEF Inv, ArchivesOK, ArchiveOK, OncePerExpiration
  <1> QED
    BY <1>4, <1>5, <1>6, <1>7 DEF Inv

\* What is over stays over.
LEMMA TickStep ==
  ASSUME Inv, Tick
  PROVE  Inv'
  <1>1. /\ now \in 0..MaxTime /\ used \in 0..MaxArchives /\ arch \in [ArchiveId -> Archive]
        /\ Expiration \in Nat /\ MaxArchives \in Nat /\ MaxTime \in Nat
    BY TypeParts, ZipAssumption DEF Inv
  <1>2. /\ now < MaxTime /\ now' = now + 1
        /\ UNCHANGED <<used, arch, item, evicting, lock, req, entries, files>>
    BY DEF Tick
  <1>3. now' \in 0..MaxTime
    BY <1>1, <1>2, SMTT(60)
  <1>4. TypeOK'
    BY <1>2, <1>3, TypeParts DEF Inv, TypeOK, LockOK, Inside
  <1>5. CallsOK' /\ CountOK' /\ OncePerExpiration'
    BY <1>2 DEF Inv, CallsOK, CallOK, Corrupted, CountOK, Found, OncePerExpiration
  <1>6. ItemOK'
    <2>1. used > 0 => arch[used].created \in Nat
      BY <1>1, SMTT(60) DEF Archive, ArchiveId
    <2>2. used > 0 /\ Over => Over'
      BY <1>1, <1>2, <2>1, SMTT(60) DEF Over
    <2>3. Making' = Making /\ Covered' = Covered
      BY <1>2 DEF Making, Covered
    <2> QED
      BY <1>2, <2>2, <2>3 DEF Inv, ItemOK
  <1>7. ArchivesOK'
    <2>1. SUFFICES ASSUME NEW k \in ArchiveId PROVE ArchiveOK(k)'
      BY DEF ArchivesOK
    <2>2. ArchiveOK(k) /\ arch[k].created \in Nat
      BY <1>1, SMTT(60) DEF Inv, ArchivesOK, Archive
    <2> QED
      BY <1>1, <1>2, <2>2, SMTT(60) DEF ArchiveOK
  <1> QED
    BY <1>4, <1>5, <1>6, <1>7 DEF Inv

-----------------------------------------------------------------------------
(* The invariant and what follows from it                                  *)

\* The server starts with an empty cache.
LEMMA InitInv == Init => Inv
  <1> SUFFICES ASSUME Init PROVE Inv
    OBVIOUS
  <1>1. /\ now = 0 /\ used = 0 /\ item.arch = None /\ evicting = None /\ lock = Free
        /\ entries = 0 /\ files = 0
        /\ item \in [arch : ArchiveId \cup {None}, expires : Nat]
    BY DEF Init, Absent
  <1>2. /\ arch \in [ArchiveId -> Archive]
        /\ \A i \in ArchiveId : arch[i].read = "no" /\ arch[i].changed = FALSE
    <2>1. 0 \in 0..MaxTime /\ 0 \in 0..Files
      BY ZipAssumption, SMTT(60)
    <2> QED
      BY <2>1 DEF Init, Archive
  <1>3. /\ req \in [Request -> Call]
        /\ \A r \in Request : req[r].pc = "idle" /\ req[r].arch = None /\ req[r].bad = {}
    BY DEF Init, Call
  <1>4. TypeOK
    <2>1. LockOK
      BY <1>1, <1>3, ZipAssumption DEF LockOK, Inside
    <2>2. 0 \in 0..MaxTime /\ 0 \in 0..MaxArchives
      BY ZipAssumption, SMTT(60)
    <2> QED
      BY <1>1, <1>2, <1>3, <2>1, <2>2, TypeParts, SMTT(60)
  <1>5. ArchivesOK
    BY <1>1, <1>2, SMTT(60) DEF ArchivesOK, ArchiveOK, ArchiveId
  <1>6. CallsOK
    BY <1>3 DEF CallsOK, CallOK
  <1>7. ItemOK /\ CountOK /\ OncePerExpiration
    BY <1>1, SMTT(60) DEF ItemOK, CountOK, Found, OncePerExpiration
  <1> QED
    BY <1>4, <1>5, <1>6, <1>7 DEF Inv

\* Every step keeps the invariant.
LEMMA NextInv == Inv /\ [Next]_vars => Inv'
  <1> SUFFICES ASSUME Inv, [Next]_vars PROVE Inv'
    OBVIOUS
  <1>1. ASSUME NEW r \in Request, Locked(r) PROVE Inv'
    BY <1>1, HitStep, HitStaleStep, RefreshStep, MissStep, DeleteStep, AddStep DEF Locked
  <1>2. ASSUME NEW r \in Request, Open(r) \/ Cancelled(r) PROVE Inv'
    <2>1. CASE OpenAtOnce(r)
      BY <2>1, ReturnStep DEF OpenAtOnce
    <2>2. CASE Opened(r)
      BY <2>2, ReturnStep DEF Opened
    <2>3. CASE Cancelled(r)
      BY <2>3, ReturnStep DEF Cancelled
    <2> QED
      BY <1>2, <2>1, <2>2, <2>3, OpenWaitStep DEF Open
  <1>3. CASE UNCHANGED vars
    BY <1>3 DEF vars, Inv, TypeOK, ArchivesOK, ArchiveOK, CallsOK, CallOK, Corrupted, ItemOK, Making,
                Covered, Over, CountOK, Found, OncePerExpiration
  <1> QED
    BY <1>1, <1>2, <1>3, BeginStep, EnterStep, ReadStep, DeleteExpiredStep, OnEvictedStep,
       TickStep DEF Next

\* The inductive invariant holds always.
THEOREM InvHolds == Spec => []Inv
  BY InitInv, NextInv, PTL DEF Spec

\* findOrCreateArchive makes an archive again only after the last one has
\* expired or was found to be corrupted, for any number of Root calls at the
\* same time and whatever the janitor removes meanwhile.
THEOREM ReadOncePerExpiration == Spec => []OncePerExpiration
  <1>1. Inv => OncePerExpiration
    BY DEF Inv
  <1> QED
    BY <1>1, InvHolds, PTL

\* cache.Add in findOrCreateArchive never fails: errAlreadyCached is not
\* returned, and Root does not try again.
THEOREM AddAlwaysSucceeds == Spec => []AddSucceeds
  <1>1. Inv => AddSucceeds
    BY DEF Inv, CallsOK, CallOK, AddSucceeds
  <1> QED
    BY <1>1, InvHolds, PTL

\* Root returns no archive that was known to be corrupted when it was called.
THEOREM CorruptedIsNotServed == Spec => []NoCorruptedArchive
  <1>1. Inv => NoCorruptedArchive
    BY DEF Inv, CallsOK, CallOK, NoCorruptedArchive
  <1> QED
    BY <1>1, InvHolds, PTL

\* At rest the metric counts no archive that is gone from the cache.
THEOREM GoneIsNotCounted == Spec => []NothingGoneIsCounted
  <1>1. Inv => NothingGoneIsCounted
    BY TypeParts, SMTT(60) DEF Inv, CountOK, AtRest, NothingGoneIsCounted
  <1> QED
    BY <1>1, InvHolds, PTL
=============================================================================
