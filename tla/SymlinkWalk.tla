----------------------------- MODULE SymlinkWalk -----------------------------
(***************************************************************************)
(* Finding a file below the root of a site: EvalSymlinks                   *)
(* (internal/serving/disk/symlink) on a vfs.Root (internal/vfs/local, and  *)
(* the files and directories of a zip archive).                            *)
(*                                                                         *)
(* A path is the sequence of what stands between its slashes: "a//b/" is   *)
(* <<"a", "", "b", "">>, "/a" is <<"", "a">>.  A tree is a function from   *)
(* the paths below the root to nodes.  The root is the directory "public"  *)
(* of a zip archive or, of a local site, "/public".                        *)
(***************************************************************************)
EXTENDS Integers, Sequences, SequencesExt

CONSTANT MaxLinks   \* most symlinks followed (255 in the code)

None == [kind |-> "none"]
Dir  == [kind |-> "dir"]
File == [kind |-> "file"]
Link(to) == [kind |-> "link", to |-> to]

Unreadable == <<"?">>   \* the target of a link that cannot be read, or is too long
RootName == "public"

IsAbs(path) == Len(path) >= 2 /\ path[1] = ""

-----------------------------------------------------------------------------
(* vfs.Root                                                                *)

\* filepath.Join with the root: `up` is how far above the root it ends.  From
\* its parent the root is reached again by its name.
Clean(dest) ==
  FoldLeft(LAMBDA acc, c :
             IF c \in {"", "."} THEN acc
             ELSE IF c = RootName /\ acc = [up |-> 1, path |-> <<>>] THEN [acc EXCEPT !.up = 0]
             ELSE IF c # ".." THEN [acc EXCEPT !.path = Append(@, c)]
             ELSE IF acc.path # <<>> THEN [acc EXCEPT !.path = Front(@)]
             ELSE [acc EXCEPT !.up = @ + 1],
           [up |-> 0, path |-> <<>>], dest.comps)

\* Lstat: what is outside the root is not there (validatePath).
Lstat(tree, dest) ==
  LET c == Clean(dest) IN
  IF c.up > 0 THEN None
  ELSE IF c.path = <<>> THEN Dir
  ELSE IF c.path \in DOMAIN tree THEN tree[c.path] ELSE None

InRoot(to) == Len(to) > 2 /\ SubSeq(to, 1, 2) = <<"", RootName>>

\* filepath.Rel of a target below the root, from the directory of the link.
Rel(dir, target) ==
  LET same == {n \in 0..Len(dir) : n <= Len(target) /\ SubSeq(dir, 1, n) = SubSeq(target, 1, n)}
      k    == CHOOSE n \in same : \A i \in same : i <= n
  IN [i \in 1..Len(dir) - k |-> ".."] \o SubSeq(target, k + 1, Len(target))

\* Readlink: a local root makes a target that names a path below it relative.
Readlink(local, dest, to) ==
  IF local /\ InRoot(to)
  THEN Rel(Front(Clean(dest).path), Clean([comps |-> SubSeq(to, 3, Len(to))]).path)
  ELSE to

-----------------------------------------------------------------------------
(* walkSymlinks                                                            *)

\* dest is a path that may start with a slash; vol: whether the whole path does.
Root(abs) == [abs |-> abs, comps |-> <<>>]
Error == [ok |-> FALSE, dest |-> Root(FALSE)]

\* dest up to its last slash.
DropLast(dest, vol) ==
  IF Len(dest.comps) <= 1 THEN Root(vol)
  ELSE [dest EXCEPT !.comps = Front(@)]

\* A ".." that cannot be taken back is kept.
KeepsDotDot(dest) ==
  (~ dest.abs /\ Len(dest.comps) <= 1) \/ (dest.comps # <<>> /\ Last(dest.comps) = "..")

\* Mutant: a relative target is taken from the root.
LinkStartAtRoot(dest, to, vol) == Root(IsAbs(to))

\* Where a symlink's target starts from: the root, or the symlink's directory.
LinkStart(dest, to, vol) ==
  IF IsAbs(to) THEN Root(TRUE) ELSE DropLast(dest, vol)

Backtrack(dest, vol) ==
  IF vol /\ Len(dest.comps) <= 1 THEN Error
  ELSE [ok |-> TRUE,
        dest |-> IF KeepsDotDot(dest) THEN [dest EXCEPT !.comps = Append(@, "..")] ELSE DropLast(dest, vol)]

\* The walk from dest along path, after `walked` symlinks.
Steps == [dest : [abs : BOOLEAN, comps : Seq(STRING)], path : Seq(STRING), walked : Nat]

walkSymlinks(tree, local, path) ==
  LET vol == IsAbs(path)
      walk[w \in Steps] ==
        IF w.path = <<>> THEN [ok |-> TRUE, dest |-> w.dest]
        ELSE LET c    == Head(w.path)
                 rest == Tail(w.path)
                 d    == [w.dest EXCEPT !.comps = Append(@, c)]
                 fi   == Lstat(tree, d)
                 back == Backtrack(w.dest, vol)
             IN IF c \in {"", "."} THEN walk[[w EXCEPT !.path = rest]]
                ELSE IF c = ".."
                THEN IF back.ok THEN walk[[w EXCEPT !.path = rest, !.dest = back.dest]] ELSE Error
                ELSE IF fi = None THEN Error
                ELSE IF fi.kind # "link"
                THEN IF fi.kind # "dir" /\ rest # <<>> THEN Error
                     ELSE walk[[w EXCEPT !.path = rest, !.dest = d]]
                ELSE IF w.walked + 1 > MaxLinks \/ fi.to = Unreadable THEN Error
                ELSE LET link == Readlink(local, d, fi.to)
                     IN walk[[dest |-> LinkStart(d, link, vol), path |-> link \o rest, walked |-> w.walked + 1]]
  IN walk[[dest |-> Root(vol), path |-> path, walked |-> 0]]

EvalSymlinks(tree, local, path) == walkSymlinks(tree, local, path)

-----------------------------------------------------------------------------
(* Reference: the lookup of an operating system whose root is the site,    *)
(* but for one thing: right above the root its name leads back into it, as *)
(* it does in the file system around the site (in a chroot ".." stays at   *)
(* the root, and "public" would be a name in there).                       *)

\* above: whether ".." was used at the root, where it stays.  out: just now, so
\* that the root's name leads back.
Lookup(tree, local, path) ==
  LET Walks == [path : Seq(STRING), above : BOOLEAN, out : BOOLEAN, rest : Seq(STRING), links : Nat]
      reach[at \in Walks] ==
        IF at.rest = <<>> THEN [ok |-> TRUE, path |-> at.path, above |-> at.above]
        ELSE LET c    == Head(at.rest)
                 next == [at EXCEPT !.rest = Tail(@)]
                 p    == Append(at.path, c)
                 node == IF p \in DOMAIN tree THEN tree[p] ELSE None
             IN IF c \in {"", "."} THEN reach[next]
                ELSE IF c = ".."
                THEN reach[[next EXCEPT !.path = IF @ = <<>> THEN @ ELSE Front(@),
                                        !.above = @ \/ at.path = <<>>, !.out = at.path = <<>>]]
                ELSE IF c = RootName /\ at.out THEN reach[[next EXCEPT !.out = FALSE]]
                ELSE IF \/ node = None
                        \/ node.kind = "file" /\ next.rest # <<>>
                        \/ node.kind = "link" /\ (at.links = 0 \/ node.to = Unreadable)
                THEN [ok |-> FALSE, path |-> at.path, above |-> at.above]
                ELSE IF node.kind = "link"
                THEN LET to == IF local /\ InRoot(node.to) THEN <<"">> \o SubSeq(node.to, 3, Len(node.to)) ELSE node.to
                     IN reach[[next EXCEPT !.path = IF IsAbs(to) THEN <<>> ELSE @, !.out = FALSE,
                                           !.rest = to \o @, !.links = @ - 1]]
                ELSE reach[[next EXCEPT !.path = p, !.out = FALSE]]
  IN reach[[path |-> <<>>, above |-> FALSE, out |-> FALSE, rest |-> path, links |-> MaxLinks]]
=============================================================================
