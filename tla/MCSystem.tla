------------------------------ MODULE MCSystem ------------------------------
(* The cases of the commands that change the system's tables and files, or   *)
(* pack and unpack them, and what is checked of each.                      *)
EXTENDS Text

(* -------------------------------- firewall -------------------------------- *)
Fw == INSTANCE Firewall

Inv(v, i) == [v |-> v, inv |-> i]
Nets == {[ip |-> 8, ones |-> 1], [ip |-> 10, ones |-> 4], [ip |-> 0, ones |-> 0]}
Ifaces == {<<1>>, <<1, 2>>, <<1, 43>>, <<43>>}
Ranges == {[min |-> 80, max |-> 80], [min |-> 79, max |-> 81], [min |-> 0, max |-> 65535]}
FieldSets ==
  LET maybe(f, S) == {<<>>} \cup {f :> Inv(v, i) : v \in S, i \in BOOLEAN}
      ports == {p @@ q : p \in maybe("sport", Ranges), q \in maybe("dport", Ranges)}
      icmps == {"icmp" :> Inv([type |-> t, code |-> c], i) : t \in {3, 8}, c \in {-1, 1}, i \in BOOLEAN}
      proto(n) == "proto" :> Inv(n, FALSE)
  IN {proto(n) @@ p : n \in {6, 17}, p \in ports} \cup {proto(1) @@ c : c \in icmps}
     \cup {s @@ i @@ f @@ p : s \in maybe("src", Nets), i \in maybe("in", Ifaces), f \in maybe("frag", {TRUE}), p \in maybe("proto", {1, 0})}
     \cup {d @@ o : d \in maybe("dst", Nets), o \in maybe("out", Ifaces)}
MatchOf(on, target, goto, reject) == [Fw!NoMatch EXCEPT !.on = on, !.target = target, !.goto = goto, !.reject = reject]
FwMatches ==
  {MatchOf(on, "DROP", FALSE, "") : on \in FieldSets}
  \cup {MatchOf(on, "REJECT", FALSE, r) : on \in {<<>>, "proto" :> Inv(6, TRUE)}, r \in {""} \cup {Fw!RejectTypes[k].name : k \in 1 .. 9}}
  \cup {MatchOf(<<>>, t, g, "") : t \in {"ACCEPT", "RETURN", "QUEUE"}, g \in {FALSE}} \cup {MatchOf(<<>>, "c1", g, "") : g \in BOOLEAN}

(* What a packet must be like, for the options and for the expressions.      *)
Packets == [proto : {1, 6}, src : {8, 10, 15}, dst : {1, 10}, in : {<<1>>, <<1, 2>>}, out : {<<1>>, <<2>>}, sport : {80, 82}, dport : {79, 80},
            type : {3}, code : {1, 2}, fragment : {0, 7}]
InPrefix(net, ip) == Fw!Masked(ip, net.ones) = Fw!Masked(net.ip, net.ones)
FitsIface(name, given) == IF Last(given) = 43 THEN IsPrefix(Front(given), name) ELSE name = given
Holds(field, v, p) ==
  CASE field = "proto" -> v = 0 \/ p.proto = v
    [] field \in {"src", "dst"} -> InPrefix(v, p[field])
    [] field \in {"in", "out"} -> FitsIface(p[field], v)
    [] field = "frag" -> p.fragment /= 0
    [] field \in {"sport", "dport"} -> p[field] \in v.min .. v.max
    [] field = "icmp" -> p.type = v.type /\ v.code \in {-1, p.code}
Means(m, p) == \A f \in DOMAIN m.on : Holds(f, m.on[f].v, p) /= m.on[f].inv

Loaded(e, p) ==
  IF e.name = "meta" THEN IF e.key = "iifname" THEN p.in ELSE p.out
  ELSE CASE e.base = 1 /\ e.offset = 9 -> p.proto [] e.base = 1 /\ e.offset = 12 -> p.src [] e.base = 1 /\ e.offset = 16 -> p.dst
         [] e.base = 1 /\ e.offset = 6 -> p.fragment [] e.base = 2 /\ e.length = 1 -> p.type
         [] e.base = 2 /\ e.offset = 0 -> p.sport [] e.base = 2 /\ e.offset = 2 -> p.dport
Equals(load, ones, value, p) ==
  LET x == Loaded(load, p)
  IN IF load.name = "meta" THEN IF Last(value) = 0 THEN Append(x, 0) = value ELSE IsPrefix(value, x)
     ELSE IF load.base = 1 /\ load.offset \in {12, 16} THEN Fw!Masked(x, ones) = value ELSE x = value
Passes(list, k, p) ==
  LET e == list[k]
      masked == k > 1 /\ list[k - 1].name = "bitwise"
      load == list[IF masked THEN k - 2 ELSE k - 1]
  IN CASE e.name = "cmp" -> Equals(load, IF masked THEN list[k - 1].ones ELSE 4, e.value, p) = (e.op = "eq")
       [] e.name = "range" -> (Loaded(load, p) \in e.from .. e.to) = (e.op = "eq")
       [] e.name = "match" -> (p.type = e.type /\ p.code \in e.min .. e.max) /= e.inv
       [] OTHER -> TRUE
(* "+" and a /0 network are no comparison at all, and nor is "-p all".       *)
Everything(m, f) == f \in DOMAIN m.on /\ ((f \in {"src", "dst"} /\ m.on[f].v.ones = 0) \/ (f \in {"in", "out"} /\ m.on[f].v = <<43>>))
AnyEverything(m, S) == \E f \in S : Everything(m, f)
CodeLost(m, compat) == ~ compat /\ "icmp" \in DOMAIN m.on /\ m.on.icmp.v.code /= -1
RuleLaw(compat, m) ==
  LET list == Fw!Expressions(m, compat)
      read == Fw!SaveArguments(Fw!DecodeExpressions(list))
      inverted == {f \in DOMAIN m.on : m.on[f].inv}
  IN /\ ~ AnyEverything(m, DOMAIN m.on) /\ ~ CodeLost(m, compat) /\ (compat \/ m.reject /= "echo-reply") => read = Fw!SaveArguments(Fw!SpecRule(m))
     /\ ~ AnyEverything(m, inverted) /\ ~ ("proto" \in inverted /\ m.on.proto.v = 0) /\ ~ CodeLost(m, compat) =>
          \A p \in Packets : Means(m, p) = \A k \in DOMAIN list : Passes(list, k, p)

(* Sequences of commands: a rule is where it was put and nowhere else, -C and *)
(* -D know it again, a command that fails loses no rule but one of -F, and no *)
(* rule jumps to a chain that is not there.                                 *)
FwO(o, a) == [opt |-> o, arg |-> a]
OnChain(c, chain, num) == FwO(c, [chain |-> chain, num |-> num])
RuleA == <<FwO("p", 6), FwO("dport", <<80>>), FwO("j", "drop"), FwO("--", "")>>
RuleB == <<FwO("!", ""), FwO("s", [ip |-> 8, ones |-> 1]), FwO("j", "REJECT")>>
FwCommands ==
  {<<OnChain(c, "INPUT", 0)>> \o r : c \in {"A", "C", "D"}, r \in {RuleA, RuleB, <<FwO("j", "c1")>>}}
  \cup {<<OnChain(c, "INPUT", n)>> \o RuleA : c \in {"I", "R"}, n \in {1, 2}} \cup {<<OnChain("D", "INPUT", n)>> : n \in {1, 2}}
  \cup {<<OnChain(c, ch, 0)>> : c \in {"N", "X"}, ch \in {"c1", "INPUT"}} \cup {<<FwO("E", [chain |-> "c1", new |-> "c2"])>>}
  \cup {<<OnChain("F", "INPUT", 0)>>, <<OnChain("F", "", 0)>>, <<OnChain("X", "", 0)>>, <<FwO("P", [chain |-> "FORWARD", policy |-> "drop"])>>}
  \cup {<<OnChain("A", "c1", 0)>> \o RuleA, <<FwO("cluster", "")>>, <<OnChain("A", "OUTPUT", 0), FwO("g", "c2")>>,
        <<OnChain("A", "INPUT", 0), FwO("j", "OUTPUT")>>, <<OnChain("A", "c1", 0), FwO("j", "c1")>>}
FwArgs(c) == IF c[1].opt = "cluster" THEN <<[opt |-> "cluster", letters |-> <<"n", "v", "w">>, arg |-> "5"], OnChain("L", "", 0)>> ELSE c
Empty(left, compat, reads) == [tables |-> [t \in Fw!Tables |-> <<>>], made |-> {}, next |-> 1, left |-> left, compat |-> compat, reads |-> reads]
Kernel(left, compat, made, reads) ==
  IF made THEN [Fw!CreateFilterTable(Empty(4, compat, reads)).k EXCEPT !.left = left] ELSE Empty(left, compat, reads)
AllRules(k) == FlattenSeq([c \in DOMAIN k.tables["filter"] |-> k.tables["filter"][c].rules])
SavedOn(k, chain) == Fw!Decoded(Fw!Chain(Fw!ReadTable(k, "filter"), chain))
Targets(k) == {Fw!DecodeExpressions(AllRules(k)[n].list).target : n \in DOMAIN AllRules(k)}
FwStep(k, c) ==
  LET a == FwArgs(c)
      r == Fw!Iptables(k, a)
      s == Fw!Parse(a).spec
      saved == Fw!SaveArguments(Fw!SpecRule(s.match))
      old == SavedOn(k, s.chain)
      new == SavedOn(r.k, s.chain)
      again == Fw!Iptables([r.k EXCEPT !.left = 9], <<OnChain("C", s.chain, 0)>> \o Tail(a))
      back == Fw!Iptables([r.k EXCEPT !.left = 9], <<OnChain("D", s.chain, 0)>> \o Tail(a))
      first == Least({n \in DOMAIN new : new[n] = saved})
      handles == Mapped(AllRules(r.k), LAMBDA x : x.handle)
  IN /\ r.err /= "usage"
     /\ IsInjective(handles)
     /\ \A t \in Targets(r.k) \ Fw!Builtins : Fw!Chain(r.k.tables["filter"], t).name /= ""
     /\ r.err = "" =>
          CASE s.command = "A" -> new = Append(old, saved)
            [] s.command = "I" -> (s.num <= Len(old) => new = InsertAt(old, s.num, saved)) /\ Len(new) = Len(old) + 1
            [] s.command = "R" -> new = [old EXCEPT ![s.num] = saved]
            [] s.command = "D" /\ s.line > 0 -> new = RemoveAt(old, s.line)
            [] s.command = "F" -> \A ch \in {"INPUT", "c1"} : s.chain \in {"", ch} => SavedOn(r.k, ch) = <<>>
            [] OTHER -> TRUE
     /\ r.err = "" /\ s.command \in {"A", "I", "R"} => again.err = "" /\ back.err = "" /\ SavedOn(back.k, s.chain) = RemoveAt(new, first)
     /\ r.err /= "" /\ s.command /= "F" => \A n \in DOMAIN AllRules(k) : AllRules(k)[n] \in Range(AllRules(r.k))
     /\ s.command \in {"C", "L", "S", "Z"} => AllRules(r.k) = AllRules(k)
FwLaw(start, commands) ==
  LET after(n) == FoldLeft(LAMBDA k, c : Fw!Iptables(k, FwArgs(c)).k, Kernel(start[1], start[2], start[3], start[4]), SubSeq(commands, 1, n))
  IN commands /= <<>> => FwStep(after(Len(commands) - 1), Last(commands))

(* A rounded counter is the count to within half a unit of what is shown, and *)
(* a limit's rate gives its period back.                                    *)
Unit(suffix) == CASE suffix = "" -> 1 [] suffix = "K" -> 1000 [] suffix = "M" -> 1000000 [] suffix = "G" -> 1000000000
CounterLaw(n) ==
  LET t == Fw!CounterText(n, FALSE)
      u == Unit(t[2])
      off == n - t[1] * u
  IN /\ (IF off < 0 THEN -off ELSE off) * 2 <= u + u \div 1000
     /\ t[2] /= "" => t[1] <= 9999
LimitLaw(n) ==
  LET period == (86400 * Fw!RateScale) \div n IN n <= 4 => Fw!LimitRate(period) = <<n, 86400>>

(* ------------------------------ modes and owners -------------------------- *)
Ch == INSTANCE Permissions
Ft == INSTANCE FileTools

(* A tree: files a and b, a directory d with two names of one file, a link to *)
(* it, and a directory e; links l to a, m to d/e, n to nothing or to itself.  *)
AllPerms == Ch!Everyone({"r", "w", "x"})
Rw == Ch!Everyone({"r"}) \cup {<<"u", "w">>}
DirNode(mode) == [Ch!Blank EXCEPT !.kind = "dir", !.mode = mode, !.uid = 1, !.gid = 11]
FileNode(data, mode, time) == [Ch!Blank EXCEPT !.data = data, !.mode = mode, !.mtime = time, !.uid = 1, !.gid = 11]
LinkNode(to) == [Ch!Blank EXCEPT !.kind = "link", !.to = to, !.mode = AllPerms, !.uid = 1, !.gid = 11]
Tree(root, dMode, eMode, xMode, nTo) ==
  [root |-> root, umask |-> {<<"g", "w">>, <<"o", "w">>, <<"o", "x">>}, clones |-> FALSE, full |-> FALSE,
   at |-> (<<>> :> 1) @@ (<<"a">> :> 2) @@ (<<"b">> :> 3) @@ (<<"d">> :> 4) @@ (<<"d", "x">> :> 5) @@ (<<"d", "n">> :> 5) @@ (<<"d", "l">> :> 6)
          @@ (<<"d", "e">> :> 7) @@ (<<"d", "e", "a">> :> 8) @@ (<<"l">> :> 9) @@ (<<"m">> :> 10) @@ (<<"n">> :> 11),
   node |-> <<DirNode(AllPerms), FileNode("A", Rw, 3), FileNode("B", Rw, 4), DirNode(dMode), FileNode("X", xMode, 2), LinkNode(<<"x">>),
              DirNode(eMode), FileNode("E", Rw, 6), LinkNode(<<"a">>), LinkNode(<<"d", "e">>), LinkNode(nTo)>>]
Plain(root) == Tree(root, AllPerms, AllPerms, Rw, <<"b", "x">>)
OwnerOnly(s) == {<<"u", q>> : q \in s}
DirModes == {AllPerms, OwnerOnly({"w", "x"}), OwnerOnly({"r", "w"}), {}}
LockedTrees ==
  LET locked == {Tree(r, d, e, {<<"u", "r">>}, <<"a">>) : r \in BOOLEAN, d \in DirModes, e \in DirModes}
  IN locked \cup {[Tree(FALSE, d, AllPerms, Rw, <<"a">>) EXCEPT !.node[i].uid = 2] : d \in DirModes, i \in {4, 5, 7}}
                \cup {[Tree(FALSE, AllPerms, OwnerOnly({"r", "x"}), Rw, <<"a">>) EXCEPT !.node[7].uid = 2]}
Changes(fs, fs2) == {i \in DOMAIN fs.node : fs.node[i] /= fs2.node[i]}
Names(fs, p) == {p} \cup Ch!Below(fs, p)

Clauses == {<<w \o o>> : w \in {<<>>, <<"u">>, <<"g", "o">>, <<"a">>},
                         o \in {<<"+", "x">>, <<"-", "r", "w">>, <<"=">>, <<"=", "r", "X">>, <<"+", "u">>, <<"=", "g">>, <<"+", "s", "t">>, <<"-", "x", "s">>, <<"=", "w", "t">>}}
OldModes == {Rw, {<<"u", "x">>, <<"g", "w">>}, {<<"u", "s">>, <<"o", "t">>, <<"g", "s">>}, AllPerms}
Symbolic(clauses) == [kind |-> "symbolic", clauses |-> clauses]
ModeSpecs == {Symbolic(<<<<"u", "+", "r", "w", "X">>>>), Symbolic(<<<<"=">>>>), Symbolic(<<<<"a", "-", "x">>, <<"u", "+", "x", "-", "w">>>>), Symbolic(<<<<"u", "r">>>>),
              [kind |-> "mode", mode |-> {}, clauses |-> <<>>], [kind |-> "mode", mode |-> Rw, clauses |-> <<>>]}

(* A clause settles every bit of the classes it names, leaves those of the    *)
(* others but the sticky bit, sets nothing of the umask unless a class was    *)
(* named, makes nothing executable with X, and is settled the second time.    *)
ModeLaw(clause, old) ==
  LET umask == {<<"g", "w">>, <<"o", "w">>}
      op == Ch!ParseSymbolicMode(clause).ops[1]
      new == Ch!ApplyChmodClause(old, FALSE, op, umask)
      asked == {b \in Ch!Bits : b[1] \in Range(op.who) /\ b[2] \in op.perms}
      of(w) == {b \in new : b[1] = w}
  IN /\ \A b \in Ch!Bits : b[1] \notin Range(op.who) /\ b /= <<"o", "t">> => (b \in new <=> b \in old)
     /\ op.op = "+" => old \subseteq new /\ (op.from = "" => asked \ (IF op.omitted THEN umask ELSE {}) \subseteq new)
     /\ op.op = "-" => new \subseteq old /\ (op.from = "" => (asked \ (IF op.omitted THEN umask ELSE {})) \cap new = {})
     /\ op.op = "=" /\ op.from = "" => \A w \in Range(op.who) : of(w) \subseteq asked \cup {<<w, "x">>}
     /\ op.op /= "-" /\ op.omitted => (new \ old) \cap umask = {}
     /\ "X" \in op.perms /\ (\A b \in old : b[2] /= "x") => \A b \in new : b[2] /= "x"
     /\ op.from = "" => Ch!ApplyChmodClause(new, FALSE, op, umask) = new
(* chmod -R reaches everything below but through a directory that may be read *)
(* and not searched, or is not the caller's to open up, whatever mode it takes *)
(* from the directories on the way and whatever it had to open up, and says so *)
(* if it may not change what it reached; without -R, links are left alone.   *)
Mine(fs, i) == Ch!Owns(fs, fs.node[i])
Shut(fs, p) ==
  LET n == Ch!NodeAt(fs, p)
  IN ~ fs.root /\ IF Mine(fs, fs.at[p]) THEN <<"u", "r">> \in n.mode /\ <<"u", "x">> \notin n.mode ELSE ~ {<<"o", "r">>, <<"o", "x">>} \subseteq n.mode
ChmodLaw(fs, args, spec, root) ==
  LET r == Ch!CmdChmod(fs, args, spec, <<root>>)
      how == Ch!HowOf(fs, Ch!ChmodDefaults, spec)
      beyond(q) == \E k \in Len(root) .. Len(q) - 1 : Shut(fs, Take(q, k))
      recursive == \E k \in DOMAIN args : args[k].opt = "R"
      all == {q \in IF recursive THEN Names(fs, root) ELSE {root} : Ch!NodeAt(fs, q).kind /= "link" /\ ~ beyond(q)}
      wanted(i) == Ch!Compute(how, fs.umask, fs.node[i].mode, fs.node[i].kind = "dir")
      inos == {fs.at[q] : q \in all}
      place(p) == {k \in DOMAIN r.out : r.out[k].path = p}
  IN how.ok /\ Len(root) = 1 =>
       /\ \A i \in DOMAIN fs.node : r.fs.node[i] = IF i \in inos /\ Mine(fs, i) THEN [fs.node[i] EXCEPT !.mode = wanted(i)] ELSE fs.node[i]
       /\ r.status = 0 <=> (\A i \in inos : Mine(fs, i)) /\ (recursive => \A q \in Names(fs, root) : ~ beyond(q) /\ ~ (fs.node[fs.at[q]].kind = "dir" /\ Shut(fs, q) /\ ~ Mine(fs, fs.at[q])))
       /\ \A p, q \in all : p /= q /\ IsPrefix(p, q) => \A i \in place(p), j \in place(q) : i < j

(* chown changes exactly what its walk reaches under the rules of -h, -H, -L  *)
(* and -P, if --from lets it, and chgrp never an owner.                      *)
Op2(o, v) == [opt |-> o, arg |-> v]
Id(n) == <<[number |-> TRUE, id |-> n, name |-> ""]>>
Named(s) == <<[number |-> FALSE, id |-> 0, name |-> s]>>
Owner(u, colon, g) == [user |-> u, colon |-> colon, group |-> g]
OwnerSpecs == {Owner(Id(7), FALSE, <<>>), Owner(Named("u2"), TRUE, <<>>), Owner(<<>>, TRUE, Named("g12")), Owner(Id(7), TRUE, Id(12)), Owner(Id(7), TRUE, <<>>), Owner(Named("u9"), FALSE, <<>>)}
OwnerArgs == {b \o c \o d : b \in {<<>>, <<Op2("R", 0)>>}, c \in {<<>>, <<Op2("h", 0)>>, <<Op2("H", 0)>>, <<Op2("L", 0)>>},
                             d \in {<<>>, <<Op2("from", Owner(Id(1), FALSE, <<>>))>>, <<Op2("reference", <<"l">>), Op2("v", 0)>>}}
OwnerTrees == {Tree(TRUE, AllPerms, AllPerms, Rw, to) : to \in {<<"a">>, <<"x">>, <<"d">>, <<"n">>}}
RECURSIVE Closed(_, _, _)
Closed(fs, T, link) ==
  LET dirs == {p \in DOMAIN fs.at : fs.at[p] \in T /\ Ch!NodeAt(fs, p).kind = "dir"}
      more == T \cup {link[q] : q \in UNION {Ch!Children(fs, p) : p \in dirs}}
  IN IF more = T THEN T ELSE Closed(fs, more, link)
ChownLaw(fs, args, spec, path, group) ==
  LET r == IF group THEN Ch!CmdChgrp(fs, args, [number |-> TRUE, id |-> 12, name |-> ""], <<path>>) ELSE Ch!CmdChown(fs, args, spec, <<path>>)
      o == Ch!ParseOwnerOptions(IF group THEN "chgrp" ELSE "chown", fs, args)
      p == Ch!ParseOwnerSpec(spec)
      uid == IF group THEN -1 ELSE IF o.uid = -2 THEN p.uid ELSE o.uid
      gid == IF o.uid /= -2 THEN o.gid ELSE IF group THEN 12 ELSE p.gid
      goes(q, first) == Ch!Stat(fs, q, ~ o.h /\ (~ o.R \/ o.deref = "L" \/ (first /\ o.deref = "H"))).ino
      start == {goes(path, TRUE)} \ {0}
      reached == (IF o.R THEN Closed(fs, start, [q \in DOMAIN fs.at |-> goes(q, FALSE)]) ELSE start) \ {0}
      new(i) == IF i \notin reached \/ (o.from.uid >= 0 /\ fs.node[i].uid /= o.from.uid) THEN fs.node[i]
                ELSE [fs.node[i] EXCEPT !.uid = IF uid >= 0 THEN uid ELSE @, !.gid = IF gid >= 0 THEN gid ELSE @]
  IN IF group \/ o.uid /= -2 \/ p.ok THEN \A i \in DOMAIN fs.node : r.fs.node[i] = new(i) ELSE r.fs = fs /\ r.status = 1

(* ------------------------------ copies and links -------------------------- *)
(* The tree with a directory c in the way of a copy of d: c/d/x is another    *)
(* file, a link to a, or absent; e may be another file system.               *)
CopyTree(root, xAt, xMode, dev) ==
  LET t == Tree(root, AllPerms, AllPerms, xMode, <<"c">>)
      more == [t EXCEPT !.at = (<<"c">> :> 12) @@ (<<"c", "a">> :> 13) @@ (<<"c", "d">> :> 14) @@ (<<"e">> :> 16) @@ (<<"e", "b">> :> 17) @@ @,
                        !.node = [@ EXCEPT ![7].dev = dev, ![8].dev = dev] \o <<DirNode(AllPerms), FileNode("C", {<<"u", "r">>}, 3), DirNode(AllPerms), IF xAt = "link" THEN LinkNode(<<"..", "..", "a">>) ELSE FileNode("Y", {}, 1),
                                         [DirNode(AllPerms) EXCEPT !.dev = dev], [FileNode("V", Rw, 4) EXCEPT !.dev = dev]>>]
  IN IF xAt = "none" THEN more ELSE [more EXCEPT !.at = (<<"c", "d", "x">> :> 15) @@ @]
CopyTrees == {CopyTree(r, x, m, 2) : r \in BOOLEAN, x \in {"none", "file", "link"}, m \in {Rw, {<<"u", "x">>, <<"o", "t">>}}}
  \cup {[CopyTree(FALSE, "file", Rw, 2) EXCEPT !.full = TRUE], [CopyTree(FALSE, "file", Rw, 2) EXCEPT !.full = TRUE, !.clones = TRUE], [CopyTree(FALSE, "link", Rw, 2) EXCEPT !.node[13].uid = 2]}
Flags(f) == [k \in DOMAIN f |-> Op2(f[k], 0)]
CpArgs == {Flags(f) : f \in {<<>>, <<"r">>, <<"r", "L">>, <<"r", "H", "p">>, <<"a">>, <<"a", "f">>, <<"r", "l">>, <<"s">>, <<"r", "n">>, <<"r", "u">>, <<"f", "r">>, <<"a", "i">>, <<"d", "b", "r">>, <<"rm", "a">>,
                              <<"r", "x">>, <<"parents", "a">>, <<"T", "a">>, <<"attributes">>, <<"z">>}}
  \cup {<<Op2("reflink", "always")>>, <<Op2("reflink", "auto"), Op2("preserve", <<"mode", "links">>), Op2("r", 0)>>, <<Op2("t", <<"c">>), Op2("backup", <<"n", "u">>)>>,
        <<Op2("S", "+"), Op2("r", 0)>>, <<Op2("VERSION_CONTROL", <<"t">>), Op2("b", 0)>>, <<Op2("VERSION_CONTROL", <<"n">>), Op2("b", 0)>>, <<Op2("backup", <<"n">>)>>, <<Op2("a", 0), Op2("no-preserve", <<"links">>)>>}
CpOperands == {<<<<"a">>, <<"b">>>>, <<<<"d">>, <<"c">>>>, <<<<"d">>, <<"x">>>>, <<<<"l">>, <<"b">>>>, <<<<"a">>, <<"l">>>>, <<<<"d">>, <<"d", "e">>>>, <<<<"d", "x">>, <<"a">>, <<"c">>>>,
               <<<<"m">>, <<"c">>>>, <<<<"n">>, <<"x">>>>, <<<<"a">>>>, <<<<"d">>, <<"m">>>>, <<<<"a">>, <<"e">>>>, <<<<"b">>, <<"e">>>>, <<<<"x">>, <<"b">>, <<"c">>>>}
Lost(fs, r) == {i \in Range(fs.at) : i \notin Range(r.fs.at)}
Data(fs, p) == LET s == Ft!Stat(fs, p, TRUE) IN IF s.kind = "file" THEN fs.node[s.ino].data ELSE s.err
(* What is copied is, for each name of a source, the name it has in the copy.  *)
CopyNames(fs, o, operands) ==
  LET n == Len(operands)
      sources == IF o.t /= <<>> THEN operands ELSE Front(operands)
      destination == IF o.t /= <<>> THEN o.t ELSE operands[n]
      isDir == o.t /= <<>> \/ (~ o.T /\ Ft!Stat(fs, destination, TRUE).kind = "dir")
      target(s) == IF o.parents THEN destination \o s ELSE IF isDir THEN Append(destination, Last(s)) ELSE destination
  IN UNION {{<<q, target(s) \o Skip(q, Len(s))>> : q \in Names(fs, s) \cap DOMAIN fs.at} : s \in Range(sources)}
LinkTo(fs, q, kind) == Ft!NodeAt(fs, q).kind = "link" /\ Ft!Stat(fs, q, TRUE).kind \in kind
(* The copy reads as its source did, through links where they are followed and *)
(* as the same link where not; names of one file are names of one file again;  *)
(* nothing else is written or lost.  But a destination that is a link to its    *)
(* source, or a backup with the source's name, is not seen, and the source is   *)
(* emptied: that is left out here.                                         *)
CpLaw(fs, args, operands, answers) ==
  LET r == Ft!CmdCp(fs, args, operands, answers)
      o == Ft!CpOptions(args)
      names == CopyNames(fs, o, operands)
      before(p) == Ft!Stat(fs, p, TRUE).ino
      aliased == \E u, v \in names : before(u[1]) = before(v[2]) /\ before(u[1]) /= 0
      written == {before(v[2]) : v \in names}
      replaced == {Ft!Stat(fs, v[2], FALSE).ino : v \in names}
      files == {u \in names : Ft!NodeAt(fs, u[1]).kind = "file"}
      links == {u \in names : Ft!NodeAt(fs, u[1]).kind = "link"}
      opted == o.n \/ o.u \/ o.i \/ o.attributes \/ o.x
      there(p) == Ft!Stat(fs, p, FALSE).err = ""
  IN ~ o.bad /\ Len(operands) > 1 /\ ~ aliased =>
       /\ \A i \in DOMAIN fs.node : r.fs.node[i].data /= fs.node[i].data => i \in written
       /\ Lost(fs, r) \subseteq replaced
       /\ o.backup /= "none" => Lost(fs, r) = {}
       /\ \A u \in names : Ft!Stat(r.fs, u[1], FALSE) = Ft!Stat(fs, u[1], FALSE)
       /\ r.status = 0 /\ ~ opted =>
            /\ \A u \in files : Data(r.fs, u[2]) = Data(fs, u[1])
            /\ o.deref = "P" /\ ~ o.s => \A u \in links : Ft!Stat(r.fs, u[2], FALSE).kind = "link" /\ Ft!Lookup(r.fs, Append(Front(u[2]), "."), TRUE).err = ""
            /\ o.deref = "L" /\ ~ o.s => \A u \in links : LinkTo(fs, u[1], {"file"}) => ~ LinkTo(r.fs, u[2], {"link"}) /\ Data(r.fs, u[2]) = Data(fs, u[1])
            /\ o.l => \A u \in files : Ft!Stat(r.fs, u[2], FALSE).ino = Ft!Stat(fs, u[1], FALSE).ino
            /\ o.keep /\ ~ o.l => \A u, v \in files : ~ there(u[2]) /\ ~ there(v[2]) =>
                 (before(u[1]) = before(v[1]) <=> Ft!Stat(r.fs, u[2], FALSE).ino = Ft!Stat(r.fs, v[2], FALSE).ino)
            /\ o.mode /\ ~ o.l /\ ~ o.s => \A u \in files : Ft!Stat(r.fs, u[2], FALSE).kind = "file" =>
                 LET n == Ft!NodeAt(r.fs, Ft!Lookup(r.fs, u[2], FALSE).at) IN n.mode = Ft!Perm(fs.node[before(u[1])].mode) /\ (o.times => n.mtime = fs.node[before(u[1])].mtime)
       /\ o.x => \A u \in names : Ft!NodeAt(fs, u[1]).dev /= fs.node[1].dev => Ft!Stat(r.fs, u[2], FALSE).ino = Ft!Stat(fs, u[2], FALSE).ino

LnArgs == {Flags(f) : f \in {<<>>, <<"s">>, <<"s", "r">>, <<"f">>, <<"f", "s">>, <<"i">>, <<"s", "i">>, <<"f", "n">>, <<"s", "T">>, <<"L", "f">>, <<"L">>, <<"d", "f">>, <<"b">>, <<"s", "b", "v">>, <<"s", "f", "n", "r">>, <<"L", "P", "f">>, <<"z">>}}
  \cup {<<Op2("t", <<"c">>)>>, <<Op2("t", <<"a">>)>>, <<Op2("S", "+"), Op2("f", 0)>>}
LnOperands == {<<<<"a">>, <<"b">>>>, <<<<"a">>, <<"x">>>>, <<<<"l">>, <<"c">>>>, <<<<"d">>, <<"x">>>>, <<<<"a">>, <<"m">>>>, <<<<"l">>, <<"a">>>>, <<<<"a">>, <<"a">>>>, <<<<"d", "e", "a">>>>,
               <<<<"m">>, <<"d", "e", "x">>>>, <<<<"a">>, <<"b">>, <<"c">>>>, <<<<"b">>, <<"e", "b">>>>, <<<<"x">>, <<"b">>>>, <<<<"l">>, <<"e">>>>, <<<<"n">>, <<"d", "x">>>>, <<<<"a">>, <<"b">>, <<"l">>>>}
(* A link leads to what it was asked for; what it replaces is lost only with   *)
(* -f or a yes, never with a backup, and only when the link is there - but when *)
(* the kernel refuses the link after the target was removed: another file      *)
(* system, a directory, or with -L the very file the source leads to.  A file   *)
(* linked to itself with -s -f is lost.                                     *)
LnLaw(fs, args, operands, answers) ==
  LET r == Ft!CmdLn(fs, args, operands, answers)
      o == Options(Ft!LnOption, Ft!LnDefaults, args)
      n == Len(operands)
      source == operands[1]
      last == Ft!Stat(fs, operands[n], ~ o.n).kind = "dir" /\ ~ o.T
      target == IF o.t /= <<>> THEN Append(o.t, Last(source)) ELSE IF n = 1 THEN <<Last(source)>> ELSE IF last THEN Append(operands[n], Last(source)) ELSE operands[n]
      there == Ft!Stat(fs, target, FALSE)
      s == Ft!Stat(fs, source, o.L)
      devOf(p) == Ft!NodeAt(fs, Ft!Lookup(fs, IF p = <<>> THEN p ELSE Front(p), TRUE).at).dev
      refused == ~ o.s /\ (s.ino = there.ino \/ s.kind = "dir" \/ (s.err = "" /\ fs.node[s.ino].dev /= devOf(target)))
      yes == o.f \/ (o.i /\ answers = <<"yes">>)
  IN ~ o.bad /\ (IF o.t = <<>> THEN n \in {1, 2} ELSE n = 1) =>
       /\ Changes(fs, r.fs) = {}
       /\ Lost(fs, r) \subseteq {there.ino} /\ (Lost(fs, r) /= {} => yes /\ o.backup = "none")
       /\ Lost(fs, r) /= {} /\ ~ refused => r.status = 0
       /\ r.status = 0 /\ o.t = <<>> =>
            LET link == Ft!Stat(r.fs, target, FALSE)
            IN IF ~ o.s THEN link.ino = s.ino
               ELSE /\ link.kind = "link"
                    /\ o.r /\ Ft!Stat(fs, source, TRUE).ino \notin Lost(fs, r) \cup {0} => Ft!Stat(r.fs, target, TRUE).ino = Ft!Stat(fs, source, TRUE).ino
                    /\ ~ o.r => r.fs.node[link.ino].to = source
       /\ r.status = 1 /\ ~ refused => r.fs.at = fs.at

(* A path resolves to where its cleaned form leads, under each mode, and a    *)
(* path relative to another one leads there from it.                        *)
PathNames == {"a", "d", "e", "l", "m", "n", "x", ".."}
ResolveLaw(fs, mode, path) ==
  LET r == Ft!ResolvePath(fs, path, mode)
      clean == Ft!Clean(path)
      w == Ft!Lookup(fs, clean, TRUE)
      named == Ft!CmdRealpath(fs, <<Op2("relative-to", <<"d", "n">>)>> \o (IF mode = "any" THEN <<Op2("m", 0)>> ELSE <<>>), <<path>>)
      base == Ft!ResolvePath(fs, <<"d", "n">>, "any")
  IN /\ w.err = "" => r.err = "" /\ r.p = w.at
     /\ mode = "all" => (r.err = "" <=> w.err = "")
     /\ mode = "last" => (r.err = "" <=> w.err = "" \/ Ft!Lookup(fs, Front(clean), TRUE).err = "")
     /\ mode = "any" => r.err = ""
     /\ r.err = "" /\ mode = "last" => Ft!Lookup(fs, Ft!Parent(r.p), FALSE).err = ""
     /\ mode /= "all" /\ named.status = 0 => Ft!Clean(base.p \o named.out[1].p) = r.p
     /\ mode = "all" => Ft!CmdReadlink(fs, "none", <<clean>>).status = 0 <=> Ft!Stat(fs, clean, FALSE).kind = "link"

(* rm takes away what it is given and, with -r, what is below it, and does not *)
(* go through a link; rmdir only what is empty, upwards; mkdir makes what it   *)
(* says and gives it the mode it was asked for; touch with -c makes nothing.   *)
Gone(fs, r) == DOMAIN fs.at \ DOMAIN r.fs.at
RmLaw(fs, args, paths, answers) ==
  LET r == Ft!CmdRm(fs, args, paths, answers)
      o == Options(Ft!RmOption, Ft!RmDefaults, args)
      at(k) == Ft!Lookup(fs, paths[k], FALSE).at
      named == {k \in DOMAIN paths : Ft!Stat(fs, paths[k], FALSE).err = ""}
      asked == UNION {Names(fs, at(k)) : k \in named}
      kept == {at(k) : k \in {j \in named : Len(answers) < j \/ answers[j] /= "yes"}}
  IN /\ Changes(fs, r.fs) = {} /\ DOMAIN r.fs.at \subseteq DOMAIN fs.at /\ Gone(fs, r) \subseteq asked
     /\ ~ o.r => \A q \in Gone(fs, r) : Ft!Children(r.fs, q) = {} /\ q \in {at(k) : k \in named}
     /\ r.status = 0 /\ ~ o.i => Gone(fs, r) = asked
     /\ o.i /\ Len(paths) = 1 /\ kept /= {} => Gone(fs, r) = {}
MkdirLaw(fs, args, path) ==
  LET r == Ft!CmdMkdir(fs, args, <<path>>)
      o == Options(Ft!MkdirOption, [p |-> FALSE, v |-> FALSE, m |-> <<>>, bad |-> FALSE], args)
      made == DOMAIN r.fs.at \ DOMAIN fs.at
      real(p) == Ft!Lookup(r.fs, p, TRUE).at
  IN /\ r.status = 0 => Ft!Stat(r.fs, path, TRUE).kind = "dir"
     /\ r.status = 0 /\ o.v => {real(r.out[k]) : k \in DOMAIN r.out} = made /\ \A k \in 2 .. Len(r.out) : Front(r.out[k]) = r.out[k - 1]
     /\ r.status = 0 /\ o.m /= <<>> /\ made /= {} => Ft!NodeAt(r.fs, real(path)).mode = o.m[1]
     /\ Changes(fs, r.fs) = {} /\ (~ o.p => made \subseteq {real(path)})
RmdirLaw(fs, args, path) ==
  LET r == Ft!CmdRmdir(fs, args, <<path>>)
      has(l) == \E k \in DOMAIN args : args[k].opt = l
      gone == Gone(fs, r)
  IN /\ \A q \in gone : Ft!NodeAt(fs, q).kind = "dir" /\ Ft!Children(r.fs, q) = {} /\ IsPrefix(q, Ft!Lookup(fs, path, TRUE).at)
     /\ has("v") => {Ft!Lookup(fs, r.out[k], TRUE).at : k \in DOMAIN r.out} = gone
     /\ r.status = 0 /\ ~ has("ignore") /\ has("p") /\ path \in DOMAIN fs.at => \A k \in 1 .. Len(path) : Take(path, k) \in gone
TouchLaw(fs, args, reference, path) ==
  LET r == Ft!CmdTouch(fs, args \o (IF reference = <<>> THEN <<>> ELSE <<Op2("r", reference)>>), <<path>>)
      o == Options(Ft!TouchOption, Ft!TouchDefaults, args)
      s == Ft!Stat(r.fs, path, ~ o.h)
      time == IF reference = <<>> THEN (IF o.d = <<>> THEN Ft!Now ELSE o.d[1]) ELSE fs.node[Ft!Stat(fs, reference, ~ o.h).ino].mtime
  IN /\ o.c => r.fs.at = fs.at
     /\ r.status = 0 /\ s.err = "" /\ ~ (o.a /\ ~ o.m) => r.fs.node[s.ino].mtime = time
     /\ Lost(fs, r) = {} /\ \A i \in DOMAIN fs.node : r.fs.node[i].data = fs.node[i].data
MadeTree(root, mode) == [Tree(root, mode, AllPerms, Rw, <<"e">>) EXCEPT !.at = (<<"e">> :> 12) @@ (<<"e", "x">> :> 13) @@ @, !.node = @ \o <<DirNode(AllPerms), DirNode(AllPerms)>>]
MadeTrees == {MadeTree(r, m) : r \in BOOLEAN, m \in {AllPerms, OwnerOnly({"r", "x"}), {}}}
MakeArgs ==
  {<<"rm", Flags(f), p>> : f \in {<<>>, <<"r">>, <<"f">>, <<"r", "i">>, <<"d">>, <<"i", "r", "f">>, <<"z">>, <<"r", "interactive">>},
                          p \in {<<<<"d">>>>, <<<<"m">>, <<"x">>>>, <<<<"a">>, <<"e", "x">>>>, <<<<"e">>>>, <<<<"n">>>>, <<<<"..">>>>, <<>>, <<<<"l", "x">>>>}}
  \cup {<<"mkdir", Flags(p) \o m, q>> : p \in {<<>>, <<"p">>, <<"v">>, <<"p", "v">>}, m \in {<<>>, <<Op2("m", {})>>, <<Op2("m", AllPerms)>>}, q \in {<<"x">>, <<"x", "a", "b">>, <<"d", "x">>, <<"m", "b", "x">>, <<"n">>, <<"d">>}}
  \cup {<<"rmdir", Flags(f), q>> : f \in {<<"v">>, <<"p", "v">>, <<"v", "ignore">>, <<"ignore", "v", "p">>}, q \in {<<"e", "x">>, <<"e">>, <<"a">>, <<"n">>, <<"n", "x">>, <<"d", "e">>}}
  \cup {<<"touch", Flags(f) \o t, q>> : f \in {<<>>, <<"c">>, <<"a", "m">>, <<"a">>, <<"h", "f">>, <<"m", "c">>}, t \in {<<>>, <<Op2("d", 7)>>, <<Op2("d", 7), Op2("time", "m")>>, <<Op2("d", Ft!NoTime)>>}, q \in {<<"x">>, <<"l">>, <<"d", "e">>, <<"n", "b">>, <<"d", "l">>}}
MakeLaw(fs, args) ==
  CASE args[1] = "rm" -> RmLaw(fs, args[2], args[3], <<"yes", "no">>) /\ RmLaw(fs, args[2], args[3], <<"fails">>)
    [] args[1] = "mkdir" -> MkdirLaw(fs, args[2], args[3])
    [] args[1] = "rmdir" -> RmdirLaw(fs, args[2], args[3])
    [] args[1] = "touch" -> TouchLaw(fs, args[2], <<>>, args[3]) /\ TouchLaw(fs, args[2], <<"l">>, args[3])

SystemKinds(t) ==
  CASE t = "fwrule" -> {[args |-> BOOLEAN, inputs |-> FwMatches]}
    [] t = "fwtable" -> {[args |-> {<<99, TRUE, TRUE, TRUE>>, <<2, FALSE, TRUE, TRUE>>}, inputs |-> UNION {[1 .. n -> FwCommands] : n \in 0 .. 3}],
                       [args |-> {<<l, c, m, ~ m>> : l \in {99, 5, 3}, c \in BOOLEAN, m \in BOOLEAN}, inputs |-> UNION {[1 .. n -> FwCommands] : n \in 0 .. 2}]}
    [] t = "fwnumbers" -> {[args |-> {0}, inputs |-> (1 .. 60) \cup {99999, 100000, 999499, 999500, 9999499, 9999500, 123456789, 2000000000}]}
    [] t = "chmodclause" -> {[args |-> Clauses, inputs |-> OldModes]}
    [] t = "chmod" -> {[args |-> ({<<>>, <<Op2("R", 0)>>, <<Op2("R", 0), Op2("c", 0)>>} \X ModeSpecs) \X {<<"d">>, <<"a">>, <<"l">>}, inputs |-> LockedTrees]}
    [] t = "chown" -> {[args |-> (OwnerArgs \X OwnerSpecs) \X ({<<"d">>, <<"m">>, <<"n">>} \X BOOLEAN), inputs |-> OwnerTrees]}
    [] t = "cp" -> {[args |-> (CpArgs \X CpOperands) \X {<<>>, <<"yes", "no">>}, inputs |-> CopyTrees]}
    [] t = "ln" -> {[args |-> (LnArgs \X LnOperands) \X {<<"yes">>, <<"no">>}, inputs |-> CopyTrees]}
    [] t = "realpath" -> {[args |-> {"all", "last", "any"} \X UNION {[1 .. k -> PathNames] : k \in 1 .. 3}, inputs |-> {Plain(TRUE), Tree(FALSE, OwnerOnly({"x"}), {}, Rw, <<"n">>)}]}
    [] t = "maketree" -> {[args |-> MakeArgs, inputs |-> MadeTrees]}
    [] OTHER -> {}
SystemLaw(tool, args, input) ==
  CASE tool = "fwrule" -> RuleLaw(args, input)
    [] tool = "fwtable" -> FwLaw(args, input)
    [] tool = "fwnumbers" -> CounterLaw(input) /\ LimitLaw(input)
    [] tool = "cp" -> CpLaw(input, args[1][1], args[1][2], args[2])
    [] tool = "ln" -> LnLaw(input, args[1][1], args[1][2], args[2])
    [] tool = "realpath" -> Ft!Clean(args[2]) /= <<>> => ResolveLaw(input, args[1], args[2])
    [] tool = "maketree" -> MakeLaw(input, args)
    [] tool = "chmodclause" -> ModeLaw(args, input)
    [] tool = "chmod" -> ChmodLaw(input, args[1][1], args[1][2], args[2])
    [] tool = "chown" -> ChownLaw(input, args[1][1], args[1][2], args[2][1], args[2][2])
    [] OTHER -> TRUE

(* -------------------------------- archives -------------------------------- *)
Ar == INSTANCE Cpio
Co == INSTANCE Compression

(* -------------------------------- patterns -------------------------------- *)
(* A pattern is a sequence of items, each the set of characters it stands for, *)
(* or all of them any number of times; the places in a text up to which its    *)
(* first items can reach are computed one item at a time.                   *)
AnyChar == {33, 42, 45, 47, 63, 91, 92, 93, 97, 98, 99}
Item(chars, many) == <<[chars |-> chars, many |-> many]>>
RECURSIVE Items(_)
Items(p) ==
  LET closes == {i \in DOMAIN p : i > 1 /\ p[i] = 93}
      inner == SubSeq(p, 2, Least(closes) - 1)
      negated == inner /= <<>> /\ inner[1] = 33
      chars == {c \in AnyChar : Ar!InSet(IF negated THEN Tail(inner) ELSE inner, c)}
  IN CASE p = <<>> -> <<>>
       [] p /= <<>> /\ p[1] = 42 -> Item(AnyChar, TRUE) \o Items(Tail(p))
       [] p /= <<>> /\ p[1] = 63 -> Item(AnyChar, FALSE) \o Items(Tail(p))
       [] p /= <<>> /\ p[1] = 91 /\ closes /= {} -> Item(IF negated THEN AnyChar \ chars ELSE chars, FALSE) \o Items(Skip(p, Least(closes)))
       [] p /= <<>> /\ p[1] = 92 -> IF Len(p) = 1 THEN Item({}, FALSE) ELSE Item({p[2]}, FALSE) \o Items(Skip(p, 2))
       [] OTHER -> Item({p[1]}, FALSE) \o Items(Tail(p))
Reach(items, s) ==
  LET step(at, i) ==
        IF i.many THEN {k \in 0 .. Len(s) : \E j \in at : j <= k} ELSE {k \in 1 .. Len(s) : k - 1 \in at /\ s[k] \in i.chars}
  IN FoldLeft(step, {0}, items)
PatternLaw(p, texts) ==
  \A s \in texts : Ar!TarPatternMatch(p, s) = (p /= <<>> /\ Len(s) \in Reach(Items(p), s))

(* --------------------------------- there and back ------------------------- *)
(* The tree is packed and unpacked into an empty directory: c, or for cpio    *)
(* an empty root.  A cpio packs the names it is given, the others everything   *)
(* below their operands; cpio -p packs nothing and copies.                  *)
Walked(fs, p) == SortSeq(SetToSeq(Names(fs, p) \cap DOMAIN fs.at), LAMBDA u, v : Compare(Ar!NameText(u), Ar!NameText(v)) < 0)
AllWalked(fs, operands) == FlattenSeq([k \in DOMAIN operands |-> Walked(fs, operands[k])])
Operand(p) == Op2("operand", p)
Archive(members) == [members |-> members, torn |-> FALSE, missing |-> FALSE]
Packed(program, args, fs, operands) ==
  CASE program = "tar" -> Ar!CmdTar(fs, <<Op2("c", 0)>> \o args, operands, Archive(<<>>))
    [] program = "zip" -> Ar!CmdZip(fs, <<Op2("r", 0), Operand(<<"x">>)>> \o Mapped(operands, Operand) \o args)
    [] program = "cpio" -> Ar!CmdCpio(fs, <<Op2("o", 0)>> \o args, <<>>, AllWalked(fs, operands), <<>>)
    [] program = "pass" -> [status |-> IF fs.root THEN 0 ELSE 2, fs |-> Ar!MkdirAll(fs, <<"c">>, AllPerms).fs]
Base(program) == IF program = "cpio" THEN <<>> ELSE <<"c">>
Unpacked(program, args, w, operands) ==
  CASE program = "tar" -> Ar!CmdTar(w.fs, <<Op2("x", 0), Op2("C", <<"c">>)>>, <<>>, Archive(w.members))
    [] program = "zip" -> Ar!RunUnzip(w.fs, <<Operand(<<"x">>), Op2("d", <<"c">>)>>, Archive(w.members))
    [] program = "cpio" -> Ar!CmdCpio([w.fs EXCEPT !.at = <<>> :> 1], <<Op2("i", 0), Op2("makeDirs", 0)>>, <<>>, <<>>, w.stream)
    [] program = "pass" -> Ar!CmdCpio(w.fs, <<Op2("p", 0), Op2("makeDirs", 0), Op2("keepTimes", 0)>> \o args, <<<<"c">>>>, AllWalked(w.fs, operands), <<>>)
(* What comes back is what went in, name by name, with its contents, modes and *)
(* times, but what was excluded; and nothing else.  A bin archive loses a name  *)
(* of the greatest length; what is too long is left out and said.           *)
Alike(m, n) == m.kind = n.kind /\ (m.kind = "link" => m.to = n.to) /\ (m.kind = "file" => m.data = n.data)
                               /\ (m.kind /= "link" => Ar!Perm(m.mode) = Ar!Perm(n.mode) /\ m.mtime = n.mtime)
Excluded(args, q) ==
  LET patterns == {args[k].arg : k \in {j \in DOMAIN args : args[j].opt \in {"exclude", "operand"}}}
  IN \E k \in 1 .. Len(q) : \E p \in patterns : Ar!TarPatternMatch(p, Ar!NameText(Take(q, k)))
RoundTrip(program, args, fs, operands) ==
  LET w == Packed(program, args, fs, operands)
      r == Unpacked(program, args, w, operands)
      base == Base(program)
      inside == {q \in UNION {Names(fs, p) : p \in Range(operands)} : ~ Excluded(args, q)}
      ways == {Take(q, k) : q \in inside, k \in 0 .. 2}
      longest == \E q \in inside : Len(q) = 3
  IN w.status = 0 /\ ~ (args = <<Op2("H", "bin")>> /\ longest) =>
       /\ r.status = 0
       /\ \A q \in inside : base \o q \in DOMAIN r.fs.at /\ Alike(Ar!NodeAt(r.fs, base \o q), Ar!NodeAt(fs, q))
       /\ \A q \in Ar!Below(r.fs, base) : Skip(q, Len(base)) \in inside \cup ways
       /\ program /= "cpio" => (\A q \in DOMAIN fs.at : r.fs.at[q] = fs.at[q]) /\ Changes(fs, r.fs) = {}

(* ---------------------------- into what is there -------------------------- *)
(* Any members in any order, unpacked into d.                               *)
M(name, kind, data, link) ==
  [name |-> name, slash |-> kind = "dir", kind |-> kind, mode |-> IF kind = "dir" THEN OwnerOnly({"w"}) ELSE Rw, mtime |-> IF data = "N" THEN 2 ELSE 3, data |-> data, link |-> link, bad |-> FALSE]
Members ==
  {M(n, "file", data, <<>>) : n \in {<<"x">>, <<"e", "a">>, <<"b", "c">>, <<"..", "a">>, <<"l", "n">>}, data \in {"N", "NNN"}}
  \cup {M(n, "link", "", to) : n \in {<<"l">>, <<"c">>}, to \in {<<"e">>, <<"..", "a">>}}
  \cup {M(<<"e">>, "dir", "", <<>>), M(<<"x">>, "dir", "", <<>>), M(<<"/", "b">>, "file", "N", <<>>), M(<<"m">>, "hard", "", <<"x">>), M(<<"e">>, "file", "N", <<>>)}
MemberLists == UNION {[1 .. n -> Members] : n \in 1 .. 2} \cup {<<M(<<"e">>, "dir", "", <<>>), m, M(<<"e", "a">>, "file", "NNN", <<>>)>> : m \in Members}
  \cup {<<M(<<"c">>, "dir", "", <<>>), M(<<"c", "d">>, "dir", "", <<>>), m, M(<<"c", "d", "a">>, "file", "N", <<>>)>> : m \in Members}
StreamOf(members) == FlattenSeq(Mapped(members, LAMBDA m : <<Ar!Header("newc", m)>> \o Ar!Payload("newc", m))) \o <<Ar!Header("newc", [name |-> Ar!Trailer, kind |-> "none"])>>
(* cpio unpacks where it is: there the tree is looked at from below d.        *)
RootedAt(fs, dir) == [fs EXCEPT !.at = [q \in {Skip(p, Len(dir)) : p \in {dir} \cup Ar!Below(fs, dir)} |-> fs.at[dir \o q]]]
Extracted(program, args, fs, members) ==
  CASE program = "tar" -> Ar!CmdTar(fs, <<Op2("x", 0), Op2("C", <<"d">>)>> \o args, <<>>, Archive(members))
    [] program = "zip" -> Ar!RunUnzip(fs, <<Operand(<<"x">>), Op2("d", <<"d">>)>> \o args, Archive(members))
    [] program = "cpio" -> Ar!CmdCpio(RootedAt(fs, <<"d">>), <<Op2("i", 0), Op2("makeDirs", 0)>> \o args, <<>>, <<>>, StreamOf(members))
TotalSize(fs, inos) == FoldLeft(LAMBDA n, i : n + IF i \in inos /\ fs.node[i].kind = "file" THEN Len(fs.node[i].data) ELSE 0, 0, [i \in 1 .. Cardinality(DOMAIN fs.node) |-> i])
(* Nothing is written outside d, no file that was there changes its        *)
(* contents under any name it has, nothing is unpacked past the limit;     *)
(* what was there stays unless a member of its name may replace it, and    *)
(* always with -k, and without -o of unzip, what is no older with cpio;    *)
(* after a run without an error every member is there, the last of its     *)
(* name, but what one of these options kept; only a directory that was     *)
(* there is ever found to be read-only.                                    *)
ExtractLaw(program, args, tree, members) ==
  LET fs == IF program = "cpio" THEN RootedAt(tree, <<"d">>) ELSE tree
      base == IF program = "cpio" THEN <<>> ELSE <<"d">>
      r == Extracted(program, args, tree, members)
      at(k) == base \o Ar!Relative(Ar!CleanName(members[k].name))
      named == {at(k) : k \in DOMAIN members}
      keeps == args = <<Op2("k", 0)>> \/ (program = "zip" /\ args = <<>>)
      last == {k \in DOMAIN members : \A j \in DOMAIN members : j > k \/ (keeps /\ j /= k) => ~ IsPrefix(at(j), at(k)) /\ (IsPrefix(at(k), at(j)) => members[k].kind = "dir")}
      new == {i \in DOMAIN r.fs.node : i \notin DOMAIN fs.node}
      had(p, m) == p \in DOMAIN fs.at /\ (Ar!NodeAt(fs, p).kind /= "dir" \/ m.kind /= "dir")
  IN /\ \A p \in DOMAIN fs.at : p \in DOMAIN r.fs.at /\ (p \notin named \/ Ar!NodeAt(fs, p).kind = "dir" => r.fs.at[p] = fs.at[p])
     /\ \A p \in DOMAIN r.fs.at \ DOMAIN fs.at : IsPrefix(base, p) /\ \E q \in named : IsPrefix(p, q)
     /\ \A i \in DOMAIN fs.node : fs.node[i].kind /= "dir" => r.fs.node[i] = fs.node[i]
     /\ TotalSize(r.fs, new) <= Ar!MaxExpanded
     /\ keeps => \A p \in DOMAIN fs.at : r.fs.at[p] = fs.at[p]
     /\ program = "cpio" /\ args = <<>> => \A p \in DOMAIN fs.at : (\A k \in DOMAIN members : at(k) = p => Ar!NodeAt(fs, p).mtime >= members[k].mtime) => r.fs.at[p] = fs.at[p]
     /\ r.err = "EACCES" => \E q \in named : Ar!Parent(q) \in DOMAIN fs.at /\ ~ Ar!Writable(fs, q)
     /\ r.status = 0 => \A k \in last :
          LET m == members[k]
          IN IF m.kind = "hard" THEN Ar!Stat(r.fs, at(k), FALSE).kind = "file"
             ELSE (keeps /\ had(at(k), m)) \/ Alike(Ar!NodeAt(r.fs, at(k)), [m EXCEPT !.mode = Ar!Perm(@)] @@ [to |-> m.link])

(* --------------------------------- compressed ----------------------------- *)
(* The tree with plain and packed files: a.gz a packed b under the name a, or   *)
(* what is no gzip; and no link below the root.                             *)
Text(s) == [form |-> "plain", name |-> s, mtime |-> 0, bad |-> FALSE]
GzLayer(form, name, bad) == [form |-> form, name |-> name, mtime |-> 8, bad |-> bad]
GzTree(root, dMode, form, packed) ==
  LET t == Tree(root, dMode, AllPerms, Rw, <<"b">>)
      layered == [i \in DOMAIN t.node |-> IF t.node[i].kind = "file" THEN [t.node[i] EXCEPT !.data = <<Text(@)>>] ELSE t.node[i]]
      node == (12 :> [FileNode("", {<<"u", "r">>}, 9) EXCEPT !.data = packed]) @@ layered
      suffix == CASE form = "gz" -> "b.gz" [] form = "bzip2" -> "b.bz2" [] form = "xz" -> "b.xz" [] form = "zstd" -> "b.zst"
  IN [t EXCEPT !.at = (<<suffix>> :> 12) @@ @, !.node = node] @@ [stdin |-> packed]
Layered(form) == {<<GzLayer(form, n, bad), Text("P")>> : n \in {"", "c", "a"}, bad \in BOOLEAN} \cup {<<Text("Q")>>, <<GzLayer(form, "", FALSE), GzLayer(form, "c", FALSE), Text("R")>>}
GzTrees(form) == {GzTree(r, m, form, p) : r \in BOOLEAN, m \in {AllPerms, OwnerOnly({"r", "x"})}, p \in Layered(form)}
Contents(fs) == {Last(fs.node[i].data) : i \in {j \in Range(fs.at) : fs.node[j].kind = "file"}}
Squeezed(form, fs, args, files, back) ==
  IF form = "gz" THEN IF back THEN Co!CmdGunzip(fs, args, files) ELSE Co!CmdGzip(fs, args, files)
  ELSE Co!CmdCodec(form, fs, args, files, back)
Has(args, opt) == \E k \in DOMAIN args : args[k].opt = opt
(* No contents are lost but those of an output that -f replaced, no output that *)
(* was there changes without -f, no input goes with -k, -c, -t or -l or when    *)
(* its output is not there, a new file expands to what its input was, and what  *)
(* is damaged is neither expanded nor removed.                              *)
CompressLaw(form, args, back, fs, files) ==
  LET r == Squeezed(form, fs, args, files, back)
      gone == DOMAIN fs.at \ DOMAIN r.fs.at
      made == DOMAIN r.fs.at \ DOMAIN fs.at
      still == DOMAIN fs.at \cap DOMAIN r.fs.at
      force == Has(args, "f")
      replaced == {p \in still : r.fs.at[p] /= fs.at[p]}
      decompress == (back \/ Has(args, "d") \/ Has(args, "t")) /\ ~ Has(args, "z")
      shown == \E k \in DOMAIN args : args[k].opt \in {"c", "t", "l"}
      plain(i) == fs.node[i].kind = "file"
      wrote == {r.fs.at[p] : p \in made \cup replaced}
      from(d, e) == IF decompress THEN d = <<Head(d)>> \o e /\ Head(d).form = form ELSE e = <<Head(e)>> \o d /\ Head(e).form = form
      came(i) == {j \in Range(fs.at) : plain(j) /\ from(fs.node[j].data, r.fs.node[i].data)}
      piped(i) == Co!Dash \in Range(files) /\ from(fs.stdin, r.fs.node[i].data)
  IN /\ Contents(fs) \ Contents(r.fs) \subseteq {Last(fs.node[fs.at[p]].data) : p \in {q \in replaced : plain(fs.at[q])}}
     /\ replaced /= {} => force
     /\ shown \/ Has(args, "k") => gone = {}
     /\ shown => made = {} /\ replaced = {}
     /\ Cardinality(gone) <= Cardinality(wrote)
     /\ \A i \in wrote : (came(i) /= {} \/ piped(i)) /\ (form = "gz" => \E j \in came(i) : r.fs.node[i].mode = Ar!Perm(fs.node[j].mode))
     /\ \A p \in still \ replaced : fs.node[fs.at[p]].kind /= "dir" => r.fs.node[r.fs.at[p]] = fs.node[fs.at[p]]
     /\ r.status = 0 /\ ~ shown /\ ~ Has(args, "k") /\ ~ Has(args, "r") => \A f \in Range(files) \ {Co!Dash} : f \in gone
     /\ decompress => \A p \in DOMAIN fs.at : plain(fs.at[p]) /\ Head(fs.node[fs.at[p]].data).bad => p \in still \/ p \notin Range(files)
(* What was packed, unpacked again, is the same file.                       *)
AgainLaw(form, args, fs, file) ==
  LET packed == Squeezed(form, fs, args, <<file>>, FALSE)
      new == DOMAIN packed.fs.at \ DOMAIN fs.at
      r == Squeezed(form, packed.fs, <<>>, <<CHOOSE p \in new : TRUE>>, TRUE)
      n == Ar!NodeAt(fs, file)
      m == Ar!NodeAt(r.fs, file)
  IN packed.status = 0 /\ new /= {} /\ n.kind = "file" /\ ~ Has(args, "k") /\ ~ Has(args, "o") => r.status = 0 /\ r.fs.at = (file :> r.fs.at[file]) @@ fs.at /\ m.data = n.data /\ (form = "gz" => m.mtime = n.mtime /\ m.mode = n.mode)

(* The savings shown are the true ones to within half of their last place, and *)
(* blocks and padding make up whole blocks.                                  *)
RatioLaw(compressed, uncompressed) ==
  LET g == Co!GzipRatio(compressed + 18, uncompressed, 18)
      z == Ar!ZipRatio(uncompressed, compressed)
      off(shown, unit) == LET d == shown * uncompressed - (uncompressed - compressed) * unit IN 2 * (IF d < 0 THEN -d ELSE d)
  IN uncompressed > 0 =>
       /\ off(g, 1000) <= uncompressed
       /\ compressed <= uncompressed => off(z, 100) <= uncompressed /\ z \in 0 .. 100
       /\ (compressed + Ar!Padding(compressed, uncompressed)) % uncompressed = 0
       /\ (compressed + Ar!Padding(compressed, uncompressed)) = Ar!Blocks(compressed, uncompressed) * uncompressed

PatternChars == {42, 45, 63, 91, 92, 93, 33, 97}
TripArgs == {<<"tar", <<>>>>, <<"tar", <<Op2("exclude", <<42>> \o Ar!NameText(<<"a">>))>>>>, <<"tar", <<Op2("exclude", Ar!NameText(<<"d">>) \o <<47, 63>>)>>>>, <<"zip", <<>>>>, <<"zip", <<Op2("x", 0), Operand(<<42>> \o Ar!NameText(<<"e">>))>>>>}
  \cup {<<"cpio", <<Op2("H", f)>>>> : f \in {"newc", "crc", "odc", "bin"}} \cup {<<"pass", <<>>>>, <<"pass", Flags(<<"unlink">>)>>, <<"pass", Flags(<<"link">>)>>}
ExtractArgs == {"tar"} \X {<<>>, Flags(<<"k">>), Flags(<<"overwrite">>)} \cup {"zip"} \X {<<>>, Flags(<<"o">>)} \cup {"cpio"} \X {<<>>, Flags(<<"unlink">>)}
GzArgs == {Flags(f) : f \in {<<>>, <<"k">>, <<"c">>, <<"f">>, <<"t">>, <<"l">>, <<"N">>, <<"n">>, <<"r">>, <<"d", "k">>, <<"r", "f">>}}
GzFiles == {<<<<"a">>>>, <<<<"b.gz">>>>, <<<<"b">>, <<"a">>>>, <<<<"l">>>>, <<<<"d">>>>, <<<<"c">>, <<"d", "x">>>>, <<>>, <<<<"-">>, <<"a">>>>}
CodecArgs == {Flags(f) : f \in {<<>>, <<"k">>, <<"c">>, <<"f">>, <<"t">>, <<"l">>, <<"z">>, <<"d">>}} \cup {<<Op2("o", <<"c">>)>>}
CodecFiles(packed) == {<<<<"a">>>>, <<<<packed>>>>, <<<<"b">>, <<"a">>>>, <<<<"l">>>>, <<<<"d">>>>, <<<<"c">>, <<"d", "x">>>>, <<>>, <<<<"-">>, <<"a">>>>}
ArchiveKinds(t) ==
  CASE t = "tarmatch" -> {[args |-> UNION {[1 .. n -> PatternChars] : n \in 0 .. 4}, inputs |-> {UNION {[1 .. n -> {97, 98, 47}] : n \in 0 .. 3}}]}
    [] t = "roundtrip" -> {[args |-> TripArgs \X {<<<<"d">>>>, <<<<"d", "e">>, <<"l">>>>, <<<<"a">>, <<"d">>>>}, inputs |-> LockedTrees]}
    [] t = "extract" -> {[args |-> ExtractArgs, inputs |-> {Tree(r, AllPerms, OwnerOnly({"r", "x"}), Rw, <<"b">>) : r \in BOOLEAN} \X MemberLists]}
    [] t = "gzip" -> {[args |-> {"gz"} \X (GzArgs \X (GzFiles \X BOOLEAN)), inputs |-> GzTrees("gz")]}
    [] t = "bzip2" -> {[args |-> {"bzip2"} \X (CodecArgs \X (CodecFiles("b.bz2") \X BOOLEAN)), inputs |-> GzTrees("bzip2")]}
    [] t = "zstd" -> {[args |-> {"zstd"} \X (CodecArgs \X (CodecFiles("b.zst") \X BOOLEAN)), inputs |-> GzTrees("zstd")]}
    [] t = "ratio" -> {[args |-> 0 .. 40, inputs |-> 0 .. 60]}
    [] OTHER -> {}
ArchiveLaw(tool, args, input) ==
  CASE tool = "tarmatch" -> PatternLaw(args, input)
    [] tool = "roundtrip" -> RoundTrip(args[1][1], args[1][2], input, args[2])
    [] tool = "extract" -> ExtractLaw(args[1], args[2], input[1], input[2])
    [] tool \in {"gzip", "bzip2", "zstd"} -> /\ CompressLaw(args[1], args[2][1], args[2][2][2], input, args[2][2][1])
                                     /\ (args[2][2][1] /= <<>> /\ args[2][2][1][1] /= Co!Dash) => AgainLaw(args[1], args[2][1], input, args[2][2][1][1])
    [] tool = "ratio" -> RatioLaw(input, args)
    [] OTHER -> TRUE
=============================================================================
