------------------------------ MODULE Makedevs -------------------------------
(***************************************************************************)
(* The program that gives the files of an image their owners and modes and *)
(* makes its devices (package/makedevs/makedevs.c), run as root on a tree  *)
(* of files.                                                               *)
(*                                                                         *)
(* A path is the sequence of its names below the root.  A tree is a        *)
(* function from the paths that exist to nodes; a link has the path that   *)
(* it leads to in "to".  The path of a line may end in a link but does not *)
(* lead through one.  A line of the table has all its columns up to the    *)
(* group: without them the program uses what the array held before.        *)
(***************************************************************************)
EXTENDS Integers, Sequences, SequencesExt, TLC

CONSTANTS NumeralOf \* from the texts that are numerals to their numbers

Keep == -1     \* the mode of a line that leaves modes alone
Most == 1048575 \* no column of a device may be more

Node(type, uid, gid, mode) ==
  [type |-> type, uid |-> uid, gid |-> gid, mode |-> mode, dev |-> <<>>, to |-> <<>>, caps |-> {}]

Follow(fs, p) == IF p \in DOMAIN fs /\ fs[p].type = "link" THEN fs[p].to ELSE p
Exists(fs, p) == Follow(fs, p) \in DOMAIN fs
IsType(fs, p, type) == Exists(fs, p) /\ fs[Follow(fs, p)].type = type
Put(fs, p, n) == [q \in DOMAIN fs \union {p} |-> IF q = p THEN n ELSE fs[q]]

-----------------------------------------------------------------------------
(* What the program knows: the tree, the result it will return, the file   *)
(* of the last line that named one, and whether it ended at once.          *)

Start(fs) == [fs |-> fs, ret |-> 0, full |-> <<>>, died |-> FALSE]
Die(m) == [m EXCEPT !.died = TRUE, !.ret = 1]
Fail(m) == [m EXCEPT !.ret = 1]

\* The number of a user or a group: a numeral, or a name that etc/passwd or
\* etc/group of the tree knows.  Any other name ends the program.
Nobody == -1
GetUgId(text, ids) ==
  CASE text \in DOMAIN NumeralOf -> NumeralOf[text]
    [] text \notin DOMAIN NumeralOf /\ text \in DOMAIN ids -> ids[text]
    [] OTHER -> Nobody

Chown(fs, p, uid, gid) == [fs EXCEPT ![Follow(fs, p)].uid = uid, ![Follow(fs, p)].gid = gid]
Chmod(fs, p, mode) == IF mode = Keep THEN fs ELSE [fs EXCEPT ![Follow(fs, p)].mode = mode]
ThroughLinks(fs, p, uid, gid) ==
  IF Exists(fs, p) THEN Chown(fs, p, uid, gid) ELSE fs
Lchown(fs, p, uid, gid) == [fs EXCEPT ![p].uid = uid, ![p].gid = gid]

\* All directories down to p that are missing.  If what exists on the way is
\* no directory, nothing is made.
BbMakeDirectory(fs, p, mode) ==
  IF \E q \in Prefixes(p) : q \in DOMAIN fs /\ ~IsType(fs, q, "dir") THEN fs
  ELSE LET Make(f, i) == LET q == SubSeq(p, 1, i)
                         IN IF q \in DOMAIN f THEN f
                            ELSE Put(f, q, Node("dir", 0, 0, IF q = p THEN mode ELSE 777))
       IN FoldLeftDomain(Make, fs, p)

\* (Whether the directory could be made is not asked: only its owner and mode
\* must be possible to set.)
Directory(m, line, uid, gid) ==
  LET fs == BbMakeDirectory(m.fs, line.path, line.mode)
  IN IF Exists(fs, line.path)
     THEN [m EXCEPT !.fs = Chmod(Chown(fs, line.path, uid, gid), line.path, line.mode)]
     ELSE Fail([m EXCEPT !.fs = fs])

Regular(m, line, uid, gid) ==
  CASE IsType(m.fs, line.path, "file") ->
         [m EXCEPT !.fs = Chmod(Chown(m.fs, line.path, uid, gid), line.path, line.mode)]
    [] ~IsType(m.fs, line.path, "file") /\ line.type = "F" -> m
    [] OTHER -> Fail(m)

\* The walk through a directory does not follow links.  A link that leads
\* nowhere has no mode to set and ends it.  (What the walk did before is in no
\* image.)
Under(fs, p) == {q \in DOMAIN fs : IsPrefix(p, q)}
Stops(fs, q, mode) == mode # Keep /\ fs[q].type = "link" /\ ~Exists(fs, q)
BbRecursive(fs, q, line, uid, gid) ==
  LET f == Lchown(fs, q, uid, gid)
  IN IF f[q].type = "link" THEN f ELSE Chmod(f, q, line.mode)
Recursive(m, line, uid, gid) ==
  LET all == Under(m.fs, line.path)
  IN IF all = {} \/ \E q \in all : Stops(m.fs, q, line.mode) THEN Fail(m)
     ELSE [m EXCEPT !.fs = FoldLeft(LAMBDA f, q : BbRecursive(f, q, line, uid, gid),
                                    m.fs, SetToSeq(all))]

\* How many there are after the first one.  A name ends in its number, unless
\* there is no other.
OneMore(line) == line.count
More(line) == line.count - (IF line.count > 0 THEN 1 ELSE 0)
Numbered(line, i) ==
  IF More(line) = 0 THEN line.path
  ELSE Front(line.path) \o <<Last(line.path) \o ToString(i)>>
MakeNode(m, line, uid, gid, i) ==
  LET p == Numbered(line, i)
      node == [Node(line.type, uid, gid, line.mode)
                 EXCEPT !.dev = <<line.major, line.minor + (i - line.start) * line.inc>>]
  IN IF p \in DOMAIN m.fs \/ ~IsType(m.fs, Front(p), "dir") THEN Fail(m)
     ELSE [m EXCEPT !.fs = Put(m.fs, p, node)]
Nodes(m, line, uid, gid) ==
  IF line.type \notin {"p", "c", "b"} THEN Fail(m)
  ELSE FoldLeft(LAMBDA n, i : MakeNode(n, line, uid, gid, i), m,
                [k \in 1..(More(line) + 1) |-> line.start + k - 1])

\* A capability is added to those of the file that was named last.
BbSetXattr(m, cap) ==
  IF m.full \in DOMAIN m.fs /\ m.fs[m.full].type = "file"
  THEN [m EXCEPT !.fs[m.full].caps = @ \union {cap}] ELSE Die(m)

-----------------------------------------------------------------------------
(* The lines.                                                              *)

TooLarge(line) == \E n \in {line.major, line.minor, line.start, line.count, line.inc} : n > Most

\* A line that cannot be read is an error, but the lines after it are still
\* applied; an empty line and a comment are passed over.
Apply(m, line, users, groups) ==
  CASE line.kind = "xattr" -> BbSetXattr(m, line.cap)
    [] line.kind = "comment" -> m
    [] line.kind = "invalid" -> Fail(m)
    [] line.kind = "file" /\ TooLarge(line) -> Fail(m)
    [] OTHER ->
         LET gid == GetUgId(line.group, groups)
             uid == GetUgId(line.user, users)
             named == [m EXCEPT !.full = line.path]
         IN CASE gid = Nobody \/ uid = Nobody -> Die(m)
              [] gid # Nobody /\ uid # Nobody /\ line.type = "d" -> Directory(named, line, uid, gid)
              [] gid # Nobody /\ uid # Nobody /\ line.type \in {"f", "F"} ->
                   Regular(named, line, uid, gid)
              [] gid # Nobody /\ uid # Nobody /\ line.type = "r" -> Recursive(named, line, uid, gid)
              [] OTHER -> Nodes(named, line, uid, gid)
=============================================================================
