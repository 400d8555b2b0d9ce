---------------------------- MODULE MCImageData ------------------------------
(* The commands, tables and files of the instance of Image that is checked. *)
EXTENDS Integers, Sequences, SequencesExt

UpTo(n, S) == UNION {[1..k -> S] : k \in 0..n}
A(opt, rest) == [opt |-> opt, rest |-> rest]

(* Compilers and what they are called with. *)
W(floatAbi, fp32, cpu, pie, relro, extra) ==
  [flags |-> <<A("-mabi=", "lp64d")>>, floatAbi |-> floatAbi, fp32 |-> fp32, arch |-> TRUE,
   cpu |-> cpu, pie |-> pie, relro |-> relro, epoch |-> extra, ccache |-> extra]
RiscV == W(FALSE, FALSE, FALSE, TRUE, "full", FALSE)
Arm == W(TRUE, FALSE, TRUE, TRUE, "full", TRUE)
Mips == W(FALSE, TRUE, TRUE, TRUE, "partial", TRUE)
ByName == [byPath |-> FALSE, dir |-> "links", real |-> "host"]
ByPath == [byPath |-> TRUE, dir |-> "host", real |-> "host"]
NoDate == [date |-> "none", ccache |-> FALSE]
Environments == [date : {"none", "valid", "invalid"}, ccache : BOOLEAN]

Unsafe1 == "/usr/include"
Words ==
  {A("-I", ""), A("-I", "libs"), A("-I", Unsafe1), A("-isystem", ""), A("-L", Unsafe1), A("-L", ""),
   A("", Unsafe1), A("", "a.c"),
   A("-march=", "a"), A("-mtune=", "a"), A("-msoft-float", ""), A("-mhard-float", ""),
   A("-mfloat-abi=", "a"), A("-shared", ""), A("-static", ""), A("-fPIC", ""), A("-fno-pie", ""),
   A("-D__KERNEL__", ""),
   A("-mcpu=", "a"), A("-no-pie", ""), A("-r", "")}
Alone == {A("-I", ""), A("-isystem", ""), A("-L", "")}
\* Also longer rows of options that stand alone.
AllCommands ==
  UpTo(3, Words) \union {c \o <<A(opt, Unsafe1)>> : c \in UpTo(4, Alone), opt \in {"", "-I"}}
Command1 == <<A("-I", "libs"), A("-fPIC", ""), A("", "a.c")>>

(* Users. *)
U(user, uid, group, gid, home, groups) ==
  [user |-> user, uid |-> uid, group |-> group, gid |-> gid, home |-> home, groups |-> groups]
FooHome == <<"home", "foo">>
Foo == U("foo", -1, "bar", -1, FooHome, <<"wheel", "extra">>)
FooGiven == U("foo", 1000, "bar", 1000, FooHome \o <<"x">>, <<"extra">>)
UserLines ==
  {Foo, FooGiven, U("test", 1001, "wheel", -1, <<>>, <<>>), U("sshd", -1, "sshd", -1, <<"home">>, <<>>),
   U("web", -2, "www-data", -1, <<>>, <<"bar">>), U("www-data", -1, "www-data", 33, <<"srv">>, <<>>),
   U("-", -1, "extra", 10, <<>>, <<>>), U("-", -1, "bar", 1000, <<>>, <<>>),
   U("-", 0, "adm", -1, <<>>, <<"wheel">>),
   U("late", -2, "late", -2, <<>>, <<"sshd">>)}
AllUsers == UpTo(3, UserLines)
FewUsers == <<Foo, U("sshd", -1, "sshd", -1, <<"home">>, <<>>)>>
OtherUsers == <<U("sshd", -1, "sshd", -1, <<>>, <<>>), Foo>>

AllPasswd == [n \in {"root", "www-data"} |->
  IF n = "root" THEN [uid |-> 0, gid |-> 0] ELSE [uid |-> 33, gid |-> 33]]
G(gid, members) == [gid |-> gid, members |-> members]
AllGroup == [n \in {"root", "wheel", "www-data", "users"} |->
  CASE n = "root" -> G(0, {}) [] n = "wheel" -> G(10, {"root"})
    [] n = "www-data" -> G(33, {}) [] OTHER -> G(100, {})]

(* Files. *)
F(type, to) == [type |-> type, uid |-> 500, gid |-> 500, mode |-> 755, dev |-> <<>>, to |-> to, caps |-> {}]
Dirs == {<<>>, <<"dev">>, <<"etc">>, <<"home">>, <<"srv">>}
Files == {<<"etc", "shadow">>, <<"srv", "db">>}
Links == {<<"etc", "link">>, <<"srv", "gone">>}
AllSkeleton == [p \in Dirs \union Files \union Links |->
  CASE p \in Dirs -> F("dir", <<>>) [] p \in Files -> F("file", <<>>)
    [] p = <<"etc", "link">> -> F("link", <<"srv", "db">>) [] OTHER -> F("link", <<"none">>)]

D(path, type, mode, user, group, start, inc, count) ==
  [kind |-> "file", path |-> path, type |-> type, mode |-> mode, user |-> user, group |-> group,
   major |-> 4, minor |-> 64, start |-> start, inc |-> inc, count |-> count]
L(path, type, mode, user, group) == D(path, type, mode, user, group, 0, 0, 0)
Tty == <<"dev", "tty">>
DeviceLines1 ==
  {L(<<"srv", "a", "b">>, "d", 700, "foo", "bar"), L(<<"srv">>, "d", 700, "foo", "0"),
   L(<<"etc", "shadow">>, "f", 600, "0", "wheel"), L(<<"etc", "shadow">>, "d", 755, "33", "0"),
   L(<<"etc", "link">>, "f", -1, "www-data", "www-data"), L(<<"srv", "a">>, "F", 600, "foo", "foo"),
   L(<<"srv", "none">>, "F", 600, "0", "0"), L(<<"srv">>, "r", -1, "foo", "bar"),
   L(<<"srv">>, "r", 700, "0", "0"), L(<<"etc">>, "r", 700, "33", "33"),
   L(Tty, "c", 666, "0", "0"), D(Tty, "c", 666, "0", "wheel", 1, 1, 1),
   D(Tty, "b", 640, "0", "0", 1, 2, 3), L(<<"dev", "tty2">>, "p", 640, "0", "0"),
   L(<<"home">>, "x", 755, "0", "0"), [kind |-> "invalid"], [kind |-> "comment"],
   [kind |-> "xattr", cap |-> "net"]}
AllDevices == UpTo(3, DeviceLines1)
FewDevices == <<L(<<"srv">>, "r", -1, "foo", "bar"), L(<<"etc", "shadow">>, "f", 600, "0", "0")>>
=============================================================================
