-------------------------------- MODULE Users --------------------------------
(***************************************************************************)
(* The script that adds users and groups to the files of an image          *)
(* (support/scripts/mkusers): etc/passwd is a function from names to       *)
(* [uid, gid], etc/group one from names to [gid, members].                 *)
(*                                                                         *)
(* A line of the table is [user, uid, group, gid, home, groups]; the user  *)
(* "-" stands for no user, the home <<>> for none.  Passwords, shells and  *)
(* comments are left out, and so is etc/gshadow, which follows etc/group.  *)
(***************************************************************************)
EXTENDS Integers, Sequences, SequencesExt, FiniteSetsExt

CONSTANTS SystemIds, UserIds \* the numbers that may be given: 100..999 and 1000..1999
ASSUME IdsAssumption == SystemIds \subseteq Nat \ {0} /\ UserIds \subseteq Nat \ {0}

AutoSystemId == -1
AutoUserId == -2

TableLines ==
  [user : STRING, uid : Int, group : STRING, gid : Int, home : Seq(STRING), groups : Seq(STRING)]

\* Files in which no two users and no two groups have the same number.
WellNumbered(pw, gr) ==
  /\ pw \in [DOMAIN pw -> [uid : Nat, gid : Nat]] /\ DOMAIN pw \subseteq STRING
  /\ gr \in [DOMAIN gr -> [gid : Nat, members : SUBSET STRING]] /\ DOMAIN gr \subseteq STRING
  /\ \A m, n \in DOMAIN pw : m # n => pw[m].uid # pw[n].uid
  /\ \A g, h \in DOMAIN gr : g # h => gr[g].gid # gr[h].gid

\* The state of the script: the files, the homes to change the owner of, in
\* order, and whether it has not failed.
Begin(pw, gr) == [pw |-> pw, gr |-> gr, homes |-> <<>>, ok |-> TRUE]
Failed(u) == [u EXCEPT !.ok = FALSE]
With(f, name, value) == [n \in DOMAIN f \union {name} |-> IF n = name THEN value ELSE f[n]]

GetGroups(u, gid) == {g \in DOMAIN u.gr : u.gr[g].gid = gid}
GetUsernames(u, uid) == {n \in DOMAIN u.pw : u.pw[n].uid = uid}

-----------------------------------------------------------------------------
(* Groups.                                                                 *)

\* The lowest number that is free.
Lowest(ids, taken) == Min(ids \ taken)
GenerateGid(u, group, ids) ==
  IF group \in DOMAIN u.gr THEN u.gr[group].gid
  ELSE Lowest(ids, {u.gr[g].gid : g \in DOMAIN u.gr})

Ids(id) == IF id = AutoSystemId THEN SystemIds ELSE UserIds
IsAuto(id) == id \in {AutoSystemId, AutoUserId}
NoGid(u, group, gid) ==
  IsAuto(gid) /\ group \notin DOMAIN u.gr /\ Ids(gid) \subseteq {u.gr[g].gid : g \in DOMAIN u.gr}

\* A group that exists is replaced, and keeps its members.
MembersLost(u, group, gid) ==
  LET id == IF IsAuto(gid) THEN GenerateGid(u, group, Ids(gid)) ELSE gid
  IN IF u.ok /\ ~NoGid(u, group, gid)
     THEN [u EXCEPT !.gr = With(@, group, [gid |-> id, members |-> {}])] ELSE Failed(u)
AddOneGroup(u, group, gid) ==
  LET members == IF group \in DOMAIN u.gr THEN u.gr[group].members ELSE {}
      id == IF IsAuto(gid) THEN GenerateGid(u, group, Ids(gid)) ELSE gid
  IN CASE ~u.ok -> u
       [] u.ok /\ NoGid(u, group, gid) -> Failed(u)
       [] OTHER -> [u EXCEPT !.gr = With(@, group, [gid |-> id, members |-> members])]

-----------------------------------------------------------------------------
(* Users.                                                                  *)

GetUgroup(u, user) == IF user \in DOMAIN u.pw THEN GetGroups(u, u.pw[user].gid) ELSE {}

\* What makes a line of the table an error: the number of its group or its
\* user is taken, or the user exists with another one.
CheckUserValidity(u, e) ==
  LET other == GetGroups(u, e.gid)
      same == GetUsernames(u, e.uid)
  IN /\ e.user # "root"
     /\ e.gid >= -2 /\ e.gid # 0
     /\ e.gid >= 0 =>
          /\ other \subseteq {e.group}
          /\ e.group \in DOMAIN u.gr => u.gr[e.group].gid = e.gid
          /\ e.user \in DOMAIN u.pw => u.pw[e.user].gid = e.gid
     /\ e.uid >= -2 /\ e.uid # 0
     /\ e.uid >= 0 =>
          /\ same \subseteq {e.user}
          /\ e.user \in DOMAIN u.pw => u.pw[e.user].uid = e.uid
     /\ GetUgroup(u, e.user) \subseteq {e.group}

GenerateUid(u, user, ids) ==
  IF user \in DOMAIN u.pw THEN u.pw[user].uid
  ELSE Lowest(ids, {u.pw[n].uid : n \in DOMAIN u.pw})
NoUid(u, user, uid) ==
  IsAuto(uid) /\ user \notin DOMAIN u.pw /\ Ids(uid) \subseteq {u.pw[n].uid : n \in DOMAIN u.pw}

AddUserToGroup(u, user, group) ==
  IF group \in DOMAIN u.gr THEN [u EXCEPT !.gr[group].members = @ \union {user}] ELSE u

\* A user that exists is replaced.
AddOneUser(u, e) ==
  LET uid == IF IsAuto(e.uid) THEN GenerateUid(u, e.user, Ids(e.uid)) ELSE e.uid
      gid == u.gr[e.group].gid
      added == [u EXCEPT !.pw = With(@, e.user, [uid |-> uid, gid |-> gid])]
      joined == FoldLeft(LAMBDA v, g : AddUserToGroup(v, e.user, g), added, e.groups)
  IN CASE ~u.ok -> u
       [] u.ok /\ (~CheckUserValidity(u, e) \/ NoUid(u, e.user, e.uid)) -> Failed(u)
       [] OTHER -> IF e.home = <<>> THEN joined
                   ELSE [joined EXCEPT !.homes = Append(@, [path |-> e.home, uid |-> uid, gid |-> gid])]

-----------------------------------------------------------------------------
(* What is given comes before what is to be chosen: each pass goes over    *)
(* all lines and skips those that are not its own.                         *)

MainGroup(u, e) == AddOneGroup(u, e.group, e.gid)
FixedGroup(u, e) == IF e.gid >= 0 THEN MainGroup(u, e) ELSE u
ChosenGroup(u, e) == IF e.gid < 0 THEN MainGroup(u, e) ELSE u

\* What the other groups of a line get: the number of its user itself, if it
\* is not positive.
AutoId(e) == CASE e.uid <= 0 -> e.uid
               [] e.uid > 0 /\ \E id \in SystemIds : e.uid <= id -> AutoSystemId
               [] OTHER -> AutoUserId
OtherGroups(u, e) == FoldLeft(LAMBDA v, g : AddOneGroup(v, g, AutoId(e)), u, e.groups)

IsUser(e) == e.user # "-"
FixedUser(u, e) == IF IsUser(e) /\ e.uid >= 0 THEN AddOneUser(u, e) ELSE u
ChosenUser(u, e) == IF IsUser(e) /\ e.uid < 0 THEN AddOneUser(u, e) ELSE u

MkUsers(entries, pw, gr) ==
  LET g1 == FoldLeft(FixedGroup, Begin(pw, gr), entries)
      g2 == FoldLeft(ChosenGroup, g1, entries)
      g3 == FoldLeft(OtherGroups, g2, entries)
      u1 == FoldLeft(FixedUser, g3, entries)
  IN FoldLeft(ChosenUser, u1, entries)

-----------------------------------------------------------------------------
(* What the script is for.                                                 *)

\* The line e, which makes no user, has given the number id to the group g.
Gave(e, g, id) ==
  ~IsUser(e) /\ ((e.group = g /\ e.gid = id) \/ (g \in Range(e.groups) /\ AutoId(e) = id))

\* No two users have the same number; a user who was given a number has it and
\* is a member of all groups it is to be in, and its main group exists.  Two
\* groups have the same number only if a line that makes no user gave it to
\* one of them.  Nobody loses a group.
Kept(entries, gr, u) ==
  /\ \A m, n \in DOMAIN u.pw : m # n => u.pw[m].uid # u.pw[n].uid
  /\ \A e \in {d \in Range(entries) : IsUser(d)} :
       /\ e.uid > 0 => u.pw[e.user].uid = e.uid
       /\ e.gid > 0 => u.gr[e.group].gid = e.gid
       /\ u.pw[e.user].gid = u.gr[e.group].gid
       /\ \A g \in Range(e.groups) : e.user \in u.gr[g].members
  /\ \A g \in DOMAIN gr : gr[g].members \subseteq u.gr[g].members
  /\ \A g, h \in DOMAIN u.gr :
       g # h /\ u.gr[g].gid = u.gr[h].gid =>
         \E e \in Range(entries) : Gave(e, g, u.gr[g].gid) \/ Gave(e, h, u.gr[h].gid)
=============================================================================
