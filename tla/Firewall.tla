------------------------------ MODULE Firewall ------------------------------
(* iptables: options parsed into a rule, the rule turned into the kernel's   *)
(* expressions, expressions read back into a rule, and the commands on the   *)
(* chains of a table.  Addresses have AddressBits bits, standing for 32.     *)
EXTENDS Integers, Sequences, SequencesExt, FiniteSets, TLC

AddressBits == 4
PortMax == 65535
Plus == 43
AnyCode == -1
(* Names as long as the kernel keeps them, without a space.                   *)
InvalidChainNames == {"", "a chain"}
Least(S) == CHOOSE x \in S : \A y \in S : x <= y

(* -------------------------------- options --------------------------------- *)
(* An argument is [opt, arg]; a cluster of short ones stands for its letters, *)
(* the first that takes an argument keeping the rest.                       *)
WithArgument == {"t", "p", "s", "d", "i", "o", "g", "m", "c", "w", "W", "C", "I", "R", "N", "X", "M", "E"}
ExpandOptions(args) ==
  LET eats(l) == {k \in DOMAIN l : l[k] \in WithArgument}
      kept(l) == IF eats(l) = {} THEN l ELSE SubSeq(l, 1, Least(eats(l)))
      split(t) == [k \in DOMAIN kept(t.letters) |->
                     [opt |-> kept(t.letters)[k], arg |-> IF k = Len(kept(t.letters)) THEN t.arg ELSE ""]]
  IN FlattenSeq([n \in DOMAIN args |-> IF args[n].opt = "cluster" THEN split(args[n]) ELSE <<args[n]>>])

(* A match is on of a protocol, networks, interfaces, a fragment, ports and   *)
(* an ICMP type, each [v, inv]; the spec also has the command and its place.  *)
NoMatch == [on |-> <<>>, target |-> "", goto |-> FALSE, reject |-> "", given |-> FALSE]
NoSpec == [command |-> "", table |-> "filter", chain |-> "", newChain |-> "", policy |-> "", line |-> 0, num |-> 0, match |-> NoMatch]
Tables == {"filter", "nat", "mangle", "raw", "security"}
RejectTypes == <<[name |-> "icmp-net-unreachable", code |-> 0, icmp |-> 0], [name |-> "icmp-host-unreachable", code |-> 1, icmp |-> 1],
  [name |-> "icmp-proto-unreachable", code |-> 2, icmp |-> 2], [name |-> "icmp-port-unreachable", code |-> 3, icmp |-> 3],
  [name |-> "echo-reply", code |-> 4, icmp |-> 3], [name |-> "icmp-net-prohibited", code |-> 5, icmp |-> 9],
  [name |-> "icmp-host-prohibited", code |-> 6, icmp |-> 10], [name |-> "tcp-reset", code |-> 7, icmp |-> 3],
  [name |-> "icmp-admin-prohibited", code |-> 8, icmp |-> 13]>>
RejectCode(name) ==
  LET at == {k \in DOMAIN RejectTypes : RejectTypes[k].name = name}
  IN IF name = "" THEN 3 ELSE IF at = {} THEN -1 ELSE RejectTypes[Least(at)].code
RejectName(code) == IF code + 1 \in DOMAIN RejectTypes THEN RejectTypes[code + 1].name ELSE "icmp-port-unreachable"
RejectICMP(code) == RejectTypes[code + 1].icmp
RejectNameForICMP(icmp) ==
  LET at == {k \in DOMAIN RejectTypes : RejectTypes[k].icmp = icmp /\ RejectTypes[k].name \notin {"echo-reply", "tcp-reset"}}
  IN IF at = {} THEN "icmp-port-unreachable" ELSE RejectTypes[Least(at)].name

(* 0.0.0.0/0 is no network at all, but another address with /0 is one.        *)
Masked(ip, ones) == ip - (ip % 2 ^ (AddressBits - ones))
ParseNetwork(a) ==
  IF a.ones = 0 /\ a.ip = 0 THEN [ok |-> TRUE, none |-> TRUE]
  ELSE [ok |-> a.ones \in 0 .. AddressBits, none |-> FALSE, v |-> [ip |-> Masked(a.ip, a.ones), ones |-> a.ones]]
(* a port, or two with the second left out or not.                          *)
ParsePorts(a) ==
  LET max == IF Len(a) = 1 THEN a[1] ELSE IF a[2] = -1 THEN PortMax ELSE a[2]
  IN [ok |-> a[1] \in 0 .. PortMax /\ max \in 0 .. PortMax /\ a[1] <= max, v |-> [min |-> a[1], max |-> max]]
ValidateInterface(name) ==
  /\ name /= <<>> /\ Len(name) <= 15
  /\ \A k \in DOMAIN name : name[k] = Plus => k = Len(name)
ICMPCodes == "host-unreachable" :> <<3, 1>> @@ "echo-request" :> <<8, AnyCode>> @@ "redirect" :> <<5, AnyCode>>
ICMPTypeNumber(a) ==
  LET named == IF a.name \in DOMAIN ICMPCodes THEN ICMPCodes[a.name] ELSE <<a.type, AnyCode>>
  IN [ok |-> a.code \in AnyCode .. 255 /\ (a.name \in DOMAIN ICMPCodes \/ (a.name = "" /\ a.type \in 0 .. 255)),
      v |-> [type |-> named[1], code |-> IF a.code /= AnyCode THEN a.code ELSE named[2]]]

ListCommands == {"L", "S", "F", "Z"}
RuleCommands == {"A", "D", "C", "I", "R"}
Builtins == {"ACCEPT", "DROP", "RETURN", "REJECT", "QUEUE"}
(* Verdicts may be written small, of which there are two here.                *)
Upper == "drop" :> "DROP" @@ "reject" :> "REJECT"
ToUpper(name) == IF name \in DOMAIN Upper THEN Upper[name] ELSE name
Bad(x) == [x EXCEPT !.error = TRUE]
Set(x, field, p) ==
  LET on == IF p.none THEN [f \in DOMAIN x.spec.match.on \ {field} |-> x.spec.match.on[f]]
            ELSE (field :> [v |-> p.v, inv |-> x.negated]) @@ x.spec.match.on
  IN IF p.ok THEN [x EXCEPT !.spec.match.on = on, !.spec.match.given = TRUE] ELSE Bad(x)
Parsed(v) == [ok |-> TRUE, none |-> FALSE, v |-> v]
Named(p) == [ok |-> p.ok, none |-> FALSE, v |-> p.v]
Command(x, o) ==
  LET s == [x.spec EXCEPT !.command = o.opt, !.chain = o.arg.chain]
  IN IF x.spec.command /= "" THEN Bad(x)
     ELSE CASE o.opt = "P" -> LET policy == ToUpper(o.arg.policy)
                              IN [x EXCEPT !.spec = [s EXCEPT !.policy = policy], !.error = policy \notin {"ACCEPT", "DROP"}]
            [] o.opt = "E" -> [x EXCEPT !.spec = [s EXCEPT !.newChain = o.arg.new]]
            [] o.opt = "D" -> [x EXCEPT !.spec = [s EXCEPT !.line = o.arg.num]]
            [] o.opt \in {"I", "R"} -> [x EXCEPT !.spec = [s EXCEPT !.num = o.arg.num]]
            [] OTHER -> [x EXCEPT !.spec = s]
OneOption(x, o) ==
  CASE o.opt \in ListCommands \cup RuleCommands \cup {"P", "N", "X", "E"} -> Command(x, o)
    [] o.opt = "t" -> IF o.arg \in Tables THEN [x EXCEPT !.spec.table = o.arg] ELSE Bad(x)
    [] o.opt = "p" -> IF o.arg \in 0 .. 255 THEN Set(x, "proto", Parsed(o.arg)) ELSE Bad(x)
    [] o.opt = "s" -> Set(x, "src", ParseNetwork(o.arg))
    [] o.opt = "d" -> Set(x, "dst", ParseNetwork(o.arg))
    [] o.opt \in {"i", "o"} -> IF ValidateInterface(o.arg) THEN Set(x, IF o.opt = "i" THEN "in" ELSE "out", Parsed(o.arg)) ELSE Bad(x)
    [] o.opt \in {"sport", "dport"} -> Set(x, o.opt, Named(ParsePorts(o.arg)))
    [] o.opt = "icmp-type" -> Set(x, "icmp", Named(ICMPTypeNumber(o.arg)))
    [] o.opt = "f" -> Set(x, "frag", Parsed(TRUE))
    [] o.opt = "m" -> IF o.arg \in {"tcp", "udp", "icmp"} THEN x ELSE Bad(x)
    [] o.opt \in {"j", "g"} -> [x EXCEPT !.spec.match.target = ToUpper(o.arg), !.spec.match.goto = (o.opt = "g"), !.spec.match.given = TRUE]
    [] o.opt = "reject-with" -> IF RejectCode(o.arg) < 0 THEN Bad(x) ELSE [x EXCEPT !.spec.match.reject = o.arg]
    [] o.opt \in {"n", "v", "x", "line-numbers", "4", "w", "W", "M"} -> x
    [] o.opt = "c" -> IF o.arg \subseteq Nat THEN x ELSE Bad(x)   \* counters, of which no use is made
    [] o.opt = "--" -> [x EXCEPT !.ended = TRUE]
    [] OTHER -> Bad(x)
(* "!" holds for the next option, whether that can be inverted or not; nothing *)
(* comes after "--".                                                        *)
Option(x, o) ==
  IF x.error \/ x.ended THEN Bad(x) ELSE IF o.opt = "!" THEN [x EXCEPT !.negated = TRUE] ELSE [OneOption(x, o) EXCEPT !.negated = FALSE]
ProtoOf(m) == IF "proto" \in DOMAIN m.on THEN m.on.proto.v ELSE 0
TCP == 6
UDP == 17
ICMP == 1
ValidSpec(s) ==
  LET m == s.match
  IN /\ s.command /= ""
     /\ s.chain = "" \/ s.chain \notin InvalidChainNames
     /\ s.command = "E" => s.newChain \notin InvalidChainNames
     /\ {"sport", "dport"} \cap DOMAIN m.on /= {} => ProtoOf(m) \in {TCP, UDP}
     /\ "icmp" \in DOMAIN m.on => ProtoOf(m) = ICMP
     /\ m.reject /= "" => m.target = "REJECT"
     /\ s.command \in {"A", "I", "R", "C"} => m.target /= ""
     /\ s.command = "D" => IF s.line = 0 THEN m.target /= "" ELSE ~ m.given
     /\ s.command \notin RuleCommands => ~ m.given
Parse(args) ==
  LET x == FoldLeft(Option, [spec |-> NoSpec, negated |-> FALSE, ended |-> FALSE, error |-> FALSE], ExpandOptions(args))
  IN [ok |-> ~ x.error /\ ValidSpec(x.spec), spec |-> x.spec]

(* --------------------------- a rule's expressions -------------------------- *)
NetworkBase == 1
TransportBase == 2
Payload(base, offset, length) == [name |-> "payload", base |-> base, offset |-> offset, length |-> length]
Cmp(op, value) == [name |-> "cmp", op |-> op, value |-> value]
CmpOperator(inv) == IF inv THEN "neq" ELSE "eq"
NetworkExpressions(n, offset) ==
  IF n.v.ones = 0 THEN <<>>
  ELSE <<Payload(NetworkBase, offset, AddressBits)>>
       \o (IF n.v.ones < AddressBits THEN <<[name |-> "bitwise", ones |-> n.v.ones]>> ELSE <<>>)
       \o <<Cmp(CmpOperator(n.inv), Masked(n.v.ip, n.v.ones))>>
(* A whole name carries its NUL, a prefix does not; "+" alone is no match.    *)
InterfaceExpressions(key, i) ==
  LET value == IF Last(i.v) = Plus THEN Front(i.v) ELSE Append(i.v, 0)
  IN IF value = <<>> THEN <<>> ELSE <<[name |-> "meta", key |-> key], Cmp(CmpOperator(i.inv), value)>>
PortExpressions(offset, p) ==
  <<Payload(TransportBase, offset, 2)>>
  \o (IF p.v.min = p.v.max THEN <<Cmp(CmpOperator(p.inv), p.v.min)>>
      ELSE <<[name |-> "range", op |-> CmpOperator(p.inv), from |-> p.v.min, to |-> p.v.max]>>)
FragmentExpressions(f) == <<Payload(NetworkBase, 6, 2), [name |-> "bitwise", ones |-> 13], Cmp(CmpOperator(~ f.inv), 0)>>
ICMPMatch(i, compat) ==
  IF ~ compat THEN <<Payload(TransportBase, 0, 1), Cmp(CmpOperator(i.inv), i.v.type)>>
  ELSE <<[name |-> "match", match |-> "icmp", short |-> FALSE, type |-> i.v.type, inv |-> i.inv, min |-> IF i.v.code = AnyCode THEN 0 ELSE i.v.code,
          max |-> IF i.v.code = AnyCode THEN 255 ELSE i.v.code]>>
TargetExpressions(m, compat) ==
  IF m.target = "REJECT" THEN
    LET code == RejectCode(m.reject)
    IN IF compat THEN <<[name |-> "target", target |-> "REJECT", code |-> code]>>
       ELSE <<[name |-> "reject", reset |-> code = 7, icmp |-> RejectICMP(code)]>>
  ELSE <<[name |-> "immediate", chain |-> m.target, code |-> IF m.target \in Builtins THEN "verdict" ELSE IF m.goto THEN "goto" ELSE "jump"]>>
Expressions(m, compat) ==
  LET part(field, e) == IF field \in DOMAIN m.on THEN e ELSE <<>>
      proto == IF ProtoOf(m) = 0 THEN <<>> ELSE <<Payload(NetworkBase, 9, 1), Cmp(CmpOperator(m.on.proto.inv), m.on.proto.v)>>
  IN proto \o part("src", NetworkExpressions(m.on.src, 12)) \o part("dst", NetworkExpressions(m.on.dst, 16))
     \o part("in", InterfaceExpressions("iifname", m.on.in)) \o part("out", InterfaceExpressions("oifname", m.on.out))
     \o part("frag", FragmentExpressions(m.on.frag)) \o part("sport", PortExpressions(0, m.on.sport))
     \o part("dport", PortExpressions(2, m.on.dport)) \o part("icmp", ICMPMatch(m.on.icmp, compat))
     \o <<[name |-> "counter"]>> \o TargetExpressions(m, compat)

(* -------------------------- expressions read back -------------------------- *)
(* d is [rule, reg, ports, at]: the register's last load, the ports seen and  *)
(* the place among the matches where their one match is.                    *)
NoRule == [on |-> <<>>, matches |-> <<>>, target |-> "", goto |-> FALSE, detail |-> ""]
Meta == 3
Ct == 4
Unset == [kind |-> 0, offset |-> 0, length |-> 0, key |-> "", ones |-> -1]
On(d, field, v, inv) == [d EXCEPT !.rule.on = (field :> [v |-> v, inv |-> inv]) @@ @]
AddMatch(d, m) == [d EXCEPT !.rule.matches = Append(@, m)]
ProtocolMatchName(p) == CASE p = UDP -> "udp" [] p = 33 -> "dccp" [] p = 132 -> "sctp" [] p = 136 -> "udplite" [] OTHER -> "tcp"
(* Ports that are all of them and not inverted were never given.              *)
PortsMatch(name, ports) ==
  [match |-> name, on |-> [f \in {g \in DOMAIN ports : ports[g].inv \/ ports[g].v /= [min |-> 0, max |-> PortMax]} |-> ports[f]]]
RefreshPortMatch(d) ==
  LET rule == d.rule
      m == PortsMatch(IF d.portName = "" THEN ProtocolMatchName(IF "proto" \in DOMAIN rule.on THEN rule.on.proto.v ELSE 0) ELSE d.portName, d.ports)
  IN IF d.at = 0 THEN [AddMatch(d, m) EXCEPT !.at = Len(rule.matches) + 1] ELSE [d EXCEPT !.rule.matches[d.at] = m]
SetPorts(d, field, v, inv) == RefreshPortMatch([d EXCEPT !.ports = (field :> [v |-> v, inv |-> inv]) @@ @])
ICMPSaved(type, min, max, inv) == [match |-> "icmp", on |-> "icmp" :> [v |-> [type |-> type, code |-> IF min = max THEN min ELSE AnyCode], inv |-> inv]]
(* An address compared by its leading bits only has as long a prefix.         *)
IptNetwork(value, reg) ==
  LET ones == IF reg.ones < 0 \/ reg.ones > reg.length THEN reg.length ELSE reg.ones IN [ip |-> Masked(value, ones), ones |-> ones]
PortField(offset) == IF offset = 0 THEN "sport" ELSE "dport"
ComparePorts(d, offset, op, port) ==
  LET f == PortField(offset)
      old == IF f \in DOMAIN d.ports THEN d.ports[f] ELSE [v |-> [min |-> 0, max |-> PortMax], inv |-> FALSE]
  IN CASE op \in {"gt", "gte"} -> SetPorts(d, f, [old.v EXCEPT !.min = port], old.inv)
       [] op \in {"lt", "lte"} -> SetPorts(d, f, [old.v EXCEPT !.max = port], old.inv)
       [] OTHER -> SetPorts(d, f, [min |-> port, max |-> port], op = "neq")
ComparePayload(d, op, value) ==
  LET r == d.reg
      inv == op = "neq"
      proto == IF "proto" \in DOMAIN d.rule.on THEN d.rule.on.proto.v ELSE 0
  IN IF r.kind = NetworkBase THEN
       CASE r.offset = 9 /\ r.length = 1 -> On(d, "proto", value, inv)
         [] r.offset \in {12, 16} /\ r.length \in 1 .. AddressBits -> On(d, IF r.offset = 12 THEN "src" ELSE "dst", IptNetwork(value, r), inv)
         [] r.offset = 6 /\ r.length = 2 -> On(d, "frag", TRUE, ~ inv)
         [] OTHER -> d
     ELSE IF r.offset = 0 /\ r.length = 1 /\ proto = ICMP THEN AddMatch(d, ICMPSaved(value, 0, 255, inv))
     ELSE IF r.length = 2 /\ r.offset \in {0, 2} THEN ComparePorts(d, r.offset, op, value) ELSE d
InterfaceName(value) == IF Last(value) = 0 THEN Front(value) ELSE Append(value, Plus)
(* Interfaces by index; one that has gone has no name.                        *)
Links == 1 :> <<1>> @@ 2 :> <<1, 2>>
CompareMeta(d, op, value) ==
  CASE d.reg.key \in {"iifname", "oifname"} -> On(d, IF d.reg.key = "iifname" THEN "in" ELSE "out", InterfaceName(value), op = "neq")
    [] d.reg.key \in {"iif", "oif"} -> On(d, IF d.reg.key = "iif" THEN "in" ELSE "out", IF value \in DOMAIN Links THEN Links[value] ELSE <<>>, op = "neq")
    [] d.reg.key = "l4proto" -> On(d, "proto", value, op = "neq")
    [] OTHER -> d
CtState(d, states, inv) == IF states = {} THEN d ELSE AddMatch(d, [match |-> "conntrack", on |-> "ctstate" :> [v |-> states, inv |-> inv]])
Compared(d, e) ==
  CASE d.reg.kind \in {NetworkBase, TransportBase} -> ComparePayload(d, e.op, e.value)
    [] d.reg.kind = Meta -> CompareMeta(d, e.op, e.value)
    [] d.reg.kind = Ct -> IF d.reg.key = "state" /\ d.reg.ones >= 0 THEN CtState(d, e.states, e.op = "eq") ELSE d
    [] OTHER -> d
RangeCompared(d, e) ==
  IF d.reg.kind = TransportBase /\ d.reg.length = 2 /\ d.reg.offset \in {0, 2}
  THEN SetPorts(d, PortField(d.reg.offset), [min |-> e.from, max |-> e.to], e.op = "neq") ELSE d
(* The extensions iptables itself writes; a blob too short, or a conntrack     *)
(* match of something else than the state, is a name only.                  *)
XtMatch(d, e) ==
  IF e.match \in {"tcp", "udp", "udplite", "sctp", "dccp"} /\ ~ e.short
    THEN RefreshPortMatch([d EXCEPT !.portName = e.match, !.ports = "sport" :> e.sport @@ "dport" :> e.dport])
  ELSE IF e.match = "icmp" /\ ~ e.short THEN AddMatch(d, ICMPSaved(e.type, e.min, e.max, e.inv))
  ELSE IF e.match \in {"conntrack", "state"} /\ ~ e.short THEN CtState(d, e.states, e.match = "conntrack" /\ e.inv)
  ELSE IF e.match \in {"multiport", "comment", "limit"} /\ ~ e.short THEN AddMatch(d, [match |-> e.match, on |-> "text" :> [v |-> e.text, inv |-> e.inv]])
  ELSE AddMatch(d, [match |-> e.match, on |-> <<>>])
XtTarget(d, e) ==
  [d EXCEPT !.rule.target = e.target, !.rule.detail = IF e.target = "REJECT" /\ "code" \in DOMAIN e THEN RejectName(e.code) ELSE IF "text" \in DOMAIN e THEN e.text ELSE @]
(* What is loaded into another register than the verdict's is data.           *)
Verdict(d, e) ==
  IF e.code \in {"continue", "data"} THEN d ELSE [d EXCEPT !.rule.target = e.chain, !.rule.goto = (e.code = "goto") \/ @]
NatTargets == "masq" :> "MASQUERADE" @@ "redir" :> "REDIRECT" @@ "snat" :> "SNAT" @@ "dnat" :> "DNAT"
Expression(d, e) ==
  CASE e.name = "payload" -> [d EXCEPT !.reg = [Unset EXCEPT !.kind = IF e.base \in {NetworkBase, TransportBase} THEN e.base ELSE 0, !.offset = e.offset, !.length = e.length]]
    [] e.name = "meta" -> [d EXCEPT !.reg = [Unset EXCEPT !.kind = Meta, !.key = e.key]]
    [] e.name = "ct" -> [d EXCEPT !.reg = [Unset EXCEPT !.kind = Ct, !.key = e.key]]
    [] e.name = "bitwise" -> [d EXCEPT !.reg.ones = e.ones]
    [] e.name = "cmp" -> Compared(d, e)
    [] e.name = "range" -> RangeCompared(d, e)
    [] e.name = "limit" -> AddMatch(d, [match |-> "limit", on |-> "text" :> [v |-> e.text, inv |-> FALSE]])
    [] e.name \in {"counter", ""} -> d
    [] e.name = "immediate" -> Verdict(d, e)
    [] e.name = "match" -> XtMatch(d, e)
    [] e.name = "target" -> XtTarget(d, e)
    [] e.name = "reject" -> [d EXCEPT !.rule.target = "REJECT", !.rule.detail = IF e.reset THEN "tcp-reset" ELSE RejectNameForICMP(e.icmp)]
    [] e.name = "log" -> [d EXCEPT !.rule.target = "LOG", !.rule.detail = e.text]
    [] e.name \in DOMAIN NatTargets -> [d EXCEPT !.rule.target = NatTargets[e.name]]
    [] OTHER -> AddMatch(d, [match |-> e.name, on |-> <<>>])
DecodeExpressions(list) ==
  FoldLeft(Expression, [rule |-> NoRule, reg |-> Unset, ports |-> <<>>, portName |-> "", at |-> 0], list).rule

(* The rule of a command line, in the shape of one read back; what -S prints.  *)
SpecRule(m) ==
  LET ports == [f \in {"sport", "dport"} \cap DOMAIN m.on |-> m.on[f]]
      i == m.on.icmp.v
  IN [on |-> [f \in DOMAIN m.on \ {"sport", "dport", "icmp"} |-> m.on[f]],
      matches |-> (IF DOMAIN ports = {} THEN <<>> ELSE <<PortsMatch(ProtocolMatchName(ProtoOf(m)), ports)>>)
                  \o (IF "icmp" \in DOMAIN m.on THEN <<ICMPSaved(i.type, IF i.code = AnyCode THEN 0 ELSE i.code, IF i.code = AnyCode THEN 255 ELSE i.code, m.on.icmp.inv)>> ELSE <<>>),
      target |-> m.target, goto |-> m.goto, detail |-> IF m.target = "REJECT" THEN RejectName(RejectCode(m.reject)) ELSE ""]
(* No protocol and no interface are no option.                              *)
SaveArguments(r) ==
  [r EXCEPT !.on = [f \in {g \in DOMAIN @ : (g = "proto" => @[g].v /= 0) /\ (g \in {"in", "out"} => @[g].v /= <<>>)} |-> @[f]]]

(* ---------------------------------- tables -------------------------------- *)
(* The kernel k is [tables, made, next, left, compat, reads]: the chains of    *)
(* each table, the tables it has, the next handle, how many transactions still *)
(* succeed, whether it has the xtables extensions and whether it answers a    *)
(* dump.  An operation answers [k, err].                                    *)
Hooks == "PREROUTING" :> 0 @@ "INPUT" :> 1 @@ "FORWARD" :> 2 @@ "OUTPUT" :> 3 @@ "POSTROUTING" :> 4
BuiltinChains == "filter" :> <<"INPUT", "FORWARD", "OUTPUT">> @@ "nat" :> <<"PREROUTING", "INPUT", "OUTPUT", "POSTROUTING">>
                 @@ "mangle" :> <<"PREROUTING", "INPUT", "FORWARD", "OUTPUT", "POSTROUTING">> @@ "raw" :> <<"PREROUTING", "OUTPUT">>
                 @@ "security" :> <<"INPUT", "FORWARD", "OUTPUT">>
IsBuiltin(chain) == chain \in DOMAIN Hooks
BaseChain(name, synthetic) == [name |-> name, base |-> TRUE, policy |-> "ACCEPT", synthetic |-> synthetic, rules |-> <<>>]
Answer(k, err) == [k |-> k, err |-> err]
Transaction(k, k2, err) ==
  IF k.left = 0 THEN Answer(k, "failed") ELSE IF err /= "" THEN Answer([k EXCEPT !.left = @ - 1], err) ELSE Answer([k2 EXCEPT !.left = @ - 1], "")
Then(r, Next(_)) == IF r.err /= "" THEN r ELSE Next(r.k)

(* The chains of a table, those it is only said to have among them, base       *)
(* chains first by hook, then the others by name (Rank orders the names).      *)
Rank(name) == IF IsBuiltin(name) THEN Hooks[name] ELSE IF name = "c1" THEN 11 ELSE 12
Chain(set, name) ==
  LET at == {k \in DOMAIN set : set[k].name = name} IN IF at = {} THEN [name |-> "", synthetic |-> TRUE, rules |-> <<>>, base |-> FALSE] ELSE set[Least(at)]
ReadTable(k, table) ==
  LET there == k.tables[table]
      missing == SelectSeq(BuiltinChains[table], LAMBDA n : Chain(there, n).name = "")
  IN SortSeq(there \o [i \in DOMAIN missing |-> BaseChain(missing[i], TRUE)], LAMBDA x, y : Rank(x.name) < Rank(y.name))
Exists(k, table) == k.tables[table] /= <<>>
Decoded(c) == [n \in DOMAIN c.rules |-> SaveArguments(DecodeExpressions(c.rules[n].list))]

AddChain(k, table, chain) ==
  Transaction(k, [k EXCEPT !.tables[table] = Append(@, chain)],
              IF table \notin k.made THEN "no chain" ELSE IF Chain(k.tables[table], chain.name).name /= "" THEN "exists" ELSE "")
CreateFilterTable(k) ==
  FoldLeft(LAMBDA r, n : IF r.err /= "" THEN r
                         ELSE LET a == AddChain(r.k, "filter", BaseChain(n, FALSE)) IN IF a.err = "exists" THEN Answer(a.k, "") ELSE a,
           Transaction(k, [k EXCEPT !.made = @ \cup {"filter"}], ""), <<"INPUT", "FORWARD", "OUTPUT">>)
(* The chain, once the tables of an empty filter have been made.               *)
EnsureChain(k, table, name) ==
  LET c == Chain(ReadTable(k, table), name)
      made == CreateFilterTable(k)
      d == Chain(ReadTable(made.k, table), name)
  IN IF c.name /= "" /\ ~ c.synthetic THEN Answer(k, "")
     ELSE IF table /= "filter" \/ (c.name = "" /\ Exists(k, table)) THEN Answer(k, "no chain")
     ELSE IF made.err /= "" THEN made ELSE IF d.name = "" \/ d.synthetic THEN Answer(made.k, "no chain") ELSE made

ResolveTarget(k, s) == s.match.target \in Builtins \/ Chain(ReadTable(k, s.table), s.match.target).name /= ""
UsesCompat(m) == "icmp" \in DOMAIN m.on \/ m.target = "REJECT"
(* The kernel takes no jump to a base chain and none that leads back.          *)
RECURSIVE Leads(_, _, _, _)
Leads(chains, from, to, depth) ==
  \/ from = to
  \/ depth > 0 /\ \E i \in DOMAIN chains : chains[i].name = from /\
       \E n \in DOMAIN chains[i].rules : LET t == DecodeExpressions(chains[i].rules[n].list).target IN t \notin Builtins /\ Leads(chains, t, to, depth - 1)
RefusedJump(chains, from, target) ==
  IF target \in Builtins THEN "" ELSE IF Chain(chains, target).name = "" THEN "no chain" ELSE IF Chain(chains, target).base THEN "unsupported"
  ELSE IF Leads(chains, target, from, Len(chains)) THEN "loop" ELSE ""
CompatUnavailable == {"unsupported", "no chain"}
At(chains, name) == Least({i \in DOMAIN chains : chains[i].name = name})
(* One new rule: at the end, before the rule with a handle, or at the front.   *)
AddRule(k, s, before, append, compat) ==
  LET chains == k.tables[s.table]
      c == At(chains, s.chain)
      rules == chains[c].rules
      place == IF append THEN Len(rules) + 1 ELSE IF before = 0 THEN 1 ELSE Least({i \in DOMAIN rules : rules[i].handle = before})
      new == [handle |-> k.next, list |-> Expressions(s.match, compat)]
  IN Transaction(k, [k EXCEPT !.tables[s.table][c].rules = InsertAt(@, place, new), !.next = @ + 1],
                 IF compat /\ UsesCompat(s.match) /\ ~ k.compat THEN "unsupported" ELSE RefusedJump(chains, s.chain, s.match.target))
AddEither(k, s, before, append) ==
  LET r == AddRule(k, s, before, append, TRUE)
  IN IF UsesCompat(s.match) /\ r.err \in CompatUnavailable THEN AddRule(r.k, s, before, append, FALSE) ELSE r
DeleteHandle(k, table, chain, handle) ==
  LET c == At(k.tables[table], chain)
  IN Transaction(k, [k EXCEPT !.tables[table][c].rules = SelectSeq(@, LAMBDA r : r.handle /= handle)], "")
RulesOf(k, s) == Chain(ReadTable(k, s.table), s.chain).rules
Handle(k, s, n) == RulesOf(k, s)[n].handle

Append1(k, s) == Then(EnsureChain(k, s.table, s.chain), LAMBDA x : IF ResolveTarget(x, s) THEN AddEither(x, s, 0, TRUE) ELSE Answer(x, "no chain"))
Insert(k, s) ==
  LET before(x) == IF s.num > 1 /\ s.num <= Len(RulesOf(x, s)) THEN Handle(x, s, s.num) ELSE 0
  IN Then(EnsureChain(k, s.table, s.chain), LAMBDA x : IF ResolveTarget(x, s) THEN AddEither(x, s, before(x), FALSE) ELSE Answer(x, "no chain"))
(* The new rule goes in before the old one, which is then taken out.           *)
Replace1(k, s) ==
  Then(EnsureChain(k, s.table, s.chain),
       LAMBDA x : IF s.num <= 0 \/ s.num > Len(RulesOf(x, s)) THEN Answer(x, "index")
                  ELSE IF ~ ResolveTarget(x, s) THEN Answer(x, "no chain")
                  ELSE Then(AddEither(x, s, Handle(x, s, s.num), FALSE), LAMBDA y : DeleteHandle(y, s.table, s.chain, Handle(x, s, s.num))))
Same(k, s) ==
  LET rules == Decoded(Chain(ReadTable(k, s.table), s.chain)) IN {n \in DOMAIN rules : rules[n] = SaveArguments(SpecRule(s.match))}
Check(k, s) == Then(EnsureChain(k, s.table, s.chain), LAMBDA x : Answer(x, IF Same(x, s) = {} THEN "no rule" ELSE ""))
Delete(k, s) ==
  Then(EnsureChain(k, s.table, s.chain),
       LAMBDA x : IF s.line > Len(RulesOf(x, s)) THEN Answer(x, "index")
                  ELSE IF s.line > 0 THEN DeleteHandle(x, s.table, s.chain, Handle(x, s, s.line))
                  ELSE IF Same(x, s) = {} THEN Answer(x, "no rule") ELSE DeleteHandle(x, s.table, s.chain, Handle(x, s, Least(Same(x, s)))))
FlushChain(r, table, chain) ==
  FoldLeft(LAMBDA a, x : IF a.err /= "" THEN a ELSE DeleteHandle(a.k, table, chain.name, x.handle), r, chain.rules)
Flush(k, s) ==
  IF s.chain /= "" THEN Then(EnsureChain(k, s.table, s.chain), LAMBDA x : FlushChain(Answer(x, ""), s.table, Chain(ReadTable(x, s.table), s.chain)))
  ELSE FoldLeft(LAMBDA r, c : FlushChain(r, s.table, c), Answer(k, ""), ReadTable(k, s.table))
Policy(k, s) ==
  LET r == EnsureChain(k, s.table, s.chain)
      c == At(r.k.tables[s.table], s.chain)
  IN IF r.err /= "" THEN IF r.err = "no chain" THEN Answer(r.k, "built-in") ELSE r
     ELSE IF ~ Chain(ReadTable(r.k, s.table), s.chain).base THEN Answer(r.k, "built-in")
     ELSE Transaction(r.k, [r.k EXCEPT !.tables[s.table][c].policy = s.policy], "")
NewChain(k, s) ==
  IF Chain(ReadTable(k, s.table), s.chain).name /= "" THEN Answer(k, "exists")
  ELSE AddChain(k, s.table, [name |-> s.chain, base |-> FALSE, policy |-> "", synthetic |-> FALSE, rules |-> <<>>])
(* The kernel keeps a chain that some rule still jumps to.                     *)
References(k, table, name) == {<<c, n>> \in UNION {{c} \X DOMAIN k.tables[table][c].rules : c \in DOMAIN k.tables[table]} :
                                 DecodeExpressions(k.tables[table][c].rules[n].list).target = name}
DropChain(k, table, name) ==
  Transaction(k, [k EXCEPT !.tables[table] = SelectSeq(@, LAMBDA c : c.name /= name)], IF References(k, table, name) /= {} THEN "busy" ELSE "")
DeleteChain(k, s) ==
  LET set == ReadTable(k, s.table)
      c == Chain(set, s.chain)
      empty == SelectSeq(set, LAMBDA x : ~ IsBuiltin(x.name) /\ x.rules = <<>>)
  IN IF s.chain = "" THEN FoldLeft(LAMBDA r, x : IF r.err /= "" THEN r ELSE DropChain(r.k, s.table, x.name), Answer(k, ""), empty)
     ELSE IF c.name = "" THEN Answer(k, "no chain") ELSE IF IsBuiltin(c.name) THEN Answer(k, "built-in")
     ELSE IF c.rules /= <<>> THEN Answer(k, "not empty") ELSE DropChain(k, s.table, s.chain)
RenameChain(k, s) ==
  LET set == ReadTable(k, s.table)
      target(list) == [e \in DOMAIN list |-> IF list[e].name = "immediate" /\ list[e].chain = s.chain THEN [list[e] EXCEPT !.chain = s.newChain] ELSE list[e]]
      renamed == [c \in DOMAIN k.tables[s.table] |->
                    [k.tables[s.table][c] EXCEPT !.name = IF @ = s.chain THEN s.newChain ELSE @,
                                                 !.rules = [n \in DOMAIN @ |-> [@[n] EXCEPT !.list = target(@)]]]]
  IN IF Chain(set, s.chain).name = "" THEN Answer(k, "no chain") ELSE IF Chain(set, s.newChain).name /= "" THEN Answer(k, "exists")
     ELSE Transaction(k, [k EXCEPT !.tables[s.table] = renamed], "")
Listed(k, s) ==
  LET set == ReadTable(k, s.table) IN IF s.chain = "" THEN set ELSE SelectSeq(set, LAMBDA c : c.name = s.chain)
(* Chains are made and renamed, but not the built-in ones.                    *)
BuiltinNamed(s) == (s.command \in {"N", "E"} /\ IsBuiltin(s.chain)) \/ (s.command = "E" /\ IsBuiltin(s.newChain))
Iptables(k, args) ==
  LET p == Parse(args)
      s == p.spec
  IN IF ~ p.ok THEN Answer(k, "usage")
     ELSE IF BuiltinNamed(s) THEN Answer(k, "built-in") ELSE IF ~ k.reads THEN Answer(k, "failed")
     ELSE CASE s.command \in {"L", "S"} -> Answer(k, IF Listed(k, s) = <<>> THEN "no chain" ELSE "")
            [] s.command = "A" -> Append1(k, s)
            [] s.command = "D" -> Delete(k, s)
            [] s.command = "F" -> Flush(k, s)
            [] s.command = "P" -> Policy(k, s)
            [] s.command = "C" -> Check(k, s)
            [] s.command = "I" -> Insert(k, s)
            [] s.command = "R" -> Replace1(k, s)
            [] s.command = "Z" -> Answer(k, "")
            [] s.command = "N" -> NewChain(k, s)
            [] s.command = "X" -> DeleteChain(k, s)
            [] s.command = "E" -> RenameChain(k, s)

(* ------------------------------- the listing ------------------------------- *)
(* Above 99999 a counter is rounded to K, M or G.                             *)
RECURSIVE Rounded(_, _)
Rounded(value, suffixes) ==
  LET v == (value + 500) \div 1000 IN IF v <= 9999 \/ Len(suffixes) = 1 THEN <<v, suffixes[1]>> ELSE Rounded(v, Tail(suffixes))
CounterText(value, exact) == IF exact \/ value <= 99999 THEN <<value, "">> ELSE Rounded(value, <<"K", "M", "G">>)
(* xt_limit's period, back into the largest unit that divides well.            *)
Rates == <<86400, 3600, 60, 1>>
RateScale == 10000
LimitRate(period) ==
  LET mult(i) == Rates[i] * RateScale
      stops == {i \in 2 .. 4 : period > mult(i) \/ mult(i) \div period < mult(i) % period}
      index == IF stops = {} THEN 4 ELSE Least(stops) - 1
  IN IF period = 0 THEN <<0, 0>> ELSE <<mult(index) \div period, Rates[index]>>
=============================================================================
