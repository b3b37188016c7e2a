------------------------------ MODULE Queries ------------------------------
(* find (find.go), test (testcmd.go) and expr (core_extra.go): expressions *)
(* on the command line, parsed by descent, and what they are evaluated on. *)
EXTENDS Text

CONSTANTS
  Number,   \* the words that are integers, and their values
  Rank,     \* the order of the words as strings
  File,     \* the files test(1) may be asked about, by name
  KnownUsers, KnownGroups

Failed == [ok |-> FALSE, pos |-> 0, expr |-> [op |-> "nil"]]
At(ts, p, S) == p <= Len(ts) /\ ts[p].t \in S

(* ------------------------------ find: names ------------------------------ *)
Star == 42
Question == 63
Open == 91
Close == 93
Backslash == 92

(* One [...] set against a character, from its first member.               *)
RECURSIVE BracketFrom(_, _, _, _, _)
BracketFrom(p, i, c, hit, first) ==
  CASE i > Len(p) -> [ok |-> FALSE]
    [] i <= Len(p) /\ p[i] = Close /\ ~ first -> [ok |-> TRUE, hit |-> hit, next |-> i + 1]
    [] i < Len(p) /\ p[i] = Backslash -> BracketFrom(p, i + 2, c, hit \/ p[i + 1] = c, FALSE)
    [] i + 2 <= Len(p) /\ p[i] # Backslash /\ (p[i] # Close \/ first) /\ p[i + 1] = Minus /\ p[i + 2] # Close ->
         BracketFrom(p, i + 3, c, hit \/ c \in p[i] .. p[i + 2], FALSE)
    [] OTHER -> BracketFrom(p, i + 1, c, hit \/ p[i] = c, FALSE)
GlobBracket(p, start, c) ==
  LET negated == start < Len(p) /\ p[start + 1] \in {33, 94}
      r == BracketFrom(p, start + (IF negated THEN 2 ELSE 1), c, FALSE, TRUE)
  IN IF r.ok THEN [ok |-> TRUE, hit |-> r.hit /= negated, next |-> r.next] ELSE [ok |-> FALSE]

(* The place in the pattern after it has matched c at p; 0 when it does not. *)
Matches(pat, p, c) ==
  IF p > Len(pat) THEN 0
  ELSE LET set == GlobBracket(pat, p, c)
       IN CASE pat[p] = Question -> p + 1
            [] pat[p] = Open /\ set.ok -> IF set.hit THEN set.next ELSE 0
            [] pat[p] = Backslash -> IF p < Len(pat) /\ pat[p + 1] = c THEN p + 2 ELSE 0
            [] OTHER -> IF pat[p] = c THEN p + 1 ELSE 0

(* Only the last star is ever given more; mark is what it has swallowed.   *)
RECURSIVE GlobFrom(_, _, _, _, _, _)
GlobFrom(pat, name, p, n, star, mark) ==
  IF n > Len(name) THEN \A i \in p .. Len(pat) : pat[i] = Star
  ELSE IF p <= Len(pat) /\ pat[p] = Star THEN GlobFrom(pat, name, p + 1, n, p, n)
  ELSE IF Matches(pat, p, name[n]) > 0 THEN GlobFrom(pat, name, Matches(pat, p, name[n]), n + 1, star, mark)
  ELSE star > 0 /\ GlobFrom(pat, name, star + 1, mark + 1, star, mark + 1)
GlobMatch(pat, name) == GlobFrom(pat, name, 1, 1, 0, 0)

(* ------------------------------ find: tests ------------------------------ *)
(* A token is [t, arg]; "none" for an argument that is not there.          *)
CompareNumber(actual, q) ==
  CASE q.cmp = "+" -> actual > q.n [] q.cmp = "-" -> actual < q.n [] OTHER -> actual = q.n
Units(size, unit) == IF unit > 1 THEN (size + unit - 1) \div unit ELSE size
PermHolds(bits, q) ==
  CASE q.kind = "-" -> q.want \subseteq bits
    [] q.kind = "/" -> q.want = {} \/ bits \cap q.want /= {}
    [] OTHER -> bits = q.want

(* An entry is [path, link, node]: the node of the path itself, and what   *)
(* statOf made of it.  A symbolic link's target is a node, or 0.  What has *)
(* been deleted is listed nowhere and no link leads to it any more.        *)
Now(fs, gone) ==
  IF gone = {} THEN fs
  ELSE [id \in DOMAIN fs |-> [fs[id] EXCEPT !.kids = SelectSeq(@, LAMBDA k : k \notin gone),
                                            !.target = IF @ \in gone THEN 0 ELSE @]]
XType(fs, follow, e) ==
  IF follow = "L" THEN fs[e.link].type
  ELSE IF fs[e.node].type = "l" /\ fs[e.node].target /= 0 THEN fs[fs[e.node].target].type
  ELSE fs[e.node].type

NameTests == {"-name", "-iname", "-samefile"}
NameHolds(fs, x, e) ==
  CASE x.t = "-name" -> GlobMatch(x.arg, fs[e.link].name)
    [] x.t = "-iname" -> GlobMatch(LowerAll(x.arg), LowerAll(fs[e.link].name))
    [] x.t = "-samefile" -> e.node = x.arg

AttributeTests == {"-true", "-false", "-type", "-xtype", "-size", "-perm", "-links", "-inum", "-readable"}
AttributeHolds(fs, follow, x, e) ==
  LET n == fs[e.node]
  IN CASE x.t = "-true" -> TRUE
       [] x.t = "-false" -> FALSE
       [] x.t = "-type" -> n.type = x.arg
       [] x.t = "-xtype" -> XType(fs, follow, e) = x.arg
       [] x.t = "-size" -> CompareNumber(Units(n.size, x.arg.unit), x.arg)
       [] x.t = "-perm" -> PermHolds(n.perm, x.arg)
       [] x.t = "-links" -> CompareNumber(n.links, x.arg)
       [] x.t = "-inum" -> CompareNumber(e.node, x.arg)
       [] x.t = "-readable" -> n.readable

(* A name has been looked up by now: its argument is a number to be equal. *)
UserTests == {"-user", "-uid", "-nouser"}
OwnerTests == UserTests \cup {"-group", "-gid", "-nogroup"}
OwnerHolds(x, n) ==
  LET id == IF x.t \in UserTests THEN n.uid ELSE n.gid
  IN IF x.t \in {"-nouser", "-nogroup"}
     THEN id \notin (IF x.t = "-nouser" THEN KnownUsers ELSE KnownGroups)
     ELSE CompareNumber(id, x.arg)

(* A node has an age for each of its three stamps.  -anewer and -cnewer    *)
(* compare the modification time too, with that stamp of the reference.    *)
Stamp(t) ==
  CASE t \in {"-atime", "-amin", "-anewer"} -> "a"
    [] t \in {"-ctime", "-cmin", "-cnewer"} -> "c"
    [] OTHER -> "m"
Newer == {"-newer", "-anewer", "-cnewer"}
TimeTests == Newer \cup {"-mtime", "-atime", "-ctime", "-mmin", "-amin", "-cmin"}
TimeHolds(fs, x, n) ==
  IF x.t \in Newer THEN n.age.m < fs[x.arg].age[Stamp(x.t)]
  ELSE CompareNumber(n.age[Stamp(x.t)] \div x.arg.unit, x.arg)

TestHolds(fs, follow, x, e) ==
  CASE x.t \in NameTests -> NameHolds(fs, x, e)
    [] x.t \in AttributeTests -> AttributeHolds(fs, follow, x, e)
    [] x.t \in OwnerTests -> OwnerHolds(x, fs[e.node])
    [] x.t \in TimeTests -> TimeHolds(fs, x, fs[e.node])

(* hasAction: these take the place of the implicit -print.                 *)
Writes == {"-print", "-print0", "-printf", "-ls"}
Prints == Writes \cup {"-delete"}
Actions == Prints \cup {"-prune", "-quit"}
Known == {"-empty"} \cup NameTests \cup AttributeTests \cup OwnerTests \cup TimeTests \cup Actions
WithArgument ==
  {"-printf"} \cup (Known \ ({"-true", "-false", "-empty", "-readable", "-nouser", "-nogroup"} \cup Actions))

(* An argument is looked at while the expression is parsed: a reference    *)
(* file has to be there (0 when it is not), a type to be one.              *)
ArgumentOk(x) ==
  /\ x.given
  /\ x.t \in Newer \cup {"-samefile"} => x.arg /= 0
  /\ x.t \in {"-type", "-xtype"} => x.arg \in {"f", "d", "l", "b", "c", "p", "s"}

(* ------------------------------ find: parser ----------------------------- *)
Node(op, l, r) == [op |-> op, left |-> l, right |-> r]
Leaf(tok) == [op |-> "leaf", tok |-> tok]

RECURSIVE ParseOr(_, _), OrRest(_, _), ParseAnd(_, _), AndRest(_, _), ParseNot(_, _)
ParseOr(ts, p) == OrRest(ts, ParseAnd(ts, p))
OrRest(ts, l) ==
  IF ~ l.ok \/ ~ At(ts, l.pos, {"-o", "-or"}) THEN l
  ELSE LET r == ParseAnd(ts, l.pos + 1)
       IN IF ~ r.ok \/ r.expr.op = "nil" THEN Failed
          ELSE OrRest(ts, [r EXCEPT !.expr = Node("or", l.expr, @)])
ParseAnd(ts, p) == AndRest(ts, ParseNot(ts, p))
AndRest(ts, l) ==
  IF ~ l.ok \/ l.pos > Len(ts) \/ At(ts, l.pos, {")", "-o", "-or"}) THEN l
  ELSE LET r == ParseNot(ts, IF At(ts, l.pos, {"-a", "-and"}) THEN l.pos + 1 ELSE l.pos)
       IN IF ~ r.ok \/ r.expr.op = "nil" THEN Failed
          ELSE AndRest(ts, [r EXCEPT !.expr = Node("and", l.expr, @)])

ParsePrimary(ts, p) ==
  CASE p > Len(ts) -> [ok |-> TRUE, pos |-> p, expr |-> [op |-> "nil"]]
    [] At(ts, p, {"("}) ->
         LET r == ParseOr(ts, p + 1)
         IN IF r.ok /\ At(ts, r.pos, {")"}) THEN [r EXCEPT !.pos = @ + 1] ELSE Failed
    [] At(ts, p, Known \ WithArgument) -> [ok |-> TRUE, pos |-> p + 1, expr |-> Leaf(ts[p])]
    [] At(ts, p, WithArgument) ->
         IF ArgumentOk(ts[p]) THEN [ok |-> TRUE, pos |-> p + 1, expr |-> Leaf(ts[p])] ELSE Failed
    [] OTHER -> Failed
ParseNot(ts, p) ==
  IF ~ At(ts, p, {"!", "-not"}) THEN ParsePrimary(ts, p)
  ELSE LET r == ParseNot(ts, p + 1)
       IN IF ~ r.ok \/ r.expr.op = "nil" THEN Failed
          ELSE [r EXCEPT !.expr = Node("not", @, @)]

(* The global options may stand anywhere in the expression.                *)
FindDefaults == [follow |-> "P", xdev |-> FALSE, depth |-> FALSE, min |-> 0, max |-> -1,
                 tokens |-> <<>>, bad |-> FALSE]
FindOption(o, x) ==
  CASE x.t \in {"-mindepth", "-maxdepth"} ->
         IF ~ x.given \/ x.arg < 0 THEN [o EXCEPT !.bad = TRUE]
         ELSE IF x.t = "-mindepth" THEN [o EXCEPT !.min = x.arg] ELSE [o EXCEPT !.max = x.arg]
    [] x.t \in {"-depth", "-d"} -> [o EXCEPT !.depth = TRUE]
    [] x.t \in {"-xdev", "-mount"} -> [o EXCEPT !.xdev = TRUE]
    [] x.t = "-follow" -> [o EXCEPT !.follow = "L"]
    [] x.t \in {"-nowarn", "-noleaf", "-warn", "-ignore_readdir_race", "-noignore_readdir_race"} -> o
    [] x.t \in {"-H", "-L", "-P"} -> [o EXCEPT !.follow = [h \in {"-H", "-L", "-P"} |->
                                        IF h = "-H" THEN "H" ELSE IF h = "-L" THEN "L" ELSE "P"][x.t]]
    [] OTHER -> [o EXCEPT !.tokens = Append(@, x)]

FindPlan(args) ==
  LET o == Options(FindOption, FindDefaults, args)
      has(S) == \E i \in DOMAIN o.tokens : o.tokens[i].t \in S
      r == ParseOr(o.tokens, 1)
      print == Leaf([t |-> "-print"])
      true == Leaf([t |-> "-true"])
      whole == IF r.expr.op = "nil" THEN true ELSE r.expr
  IN IF o.bad \/ ~ r.ok \/ r.pos <= Len(o.tokens) THEN [o EXCEPT !.bad = TRUE] @@ [expr |-> true]
     ELSE [o EXCEPT !.depth = @ \/ has({"-delete"})]
            @@ [expr |-> IF has(Prints) THEN whole ELSE Node("and", whole, print)]

(* ------------------------------- find: walk ------------------------------ *)
(* What a run has done so far; value and raised belong to the evaluation,  *)
(* stopped is the number of visits when -quit was reached.                 *)
NoRun == [out |-> <<>>, visited |-> <<>>, stopped |-> 0, gone |-> {}, prune |-> FALSE, quit |-> FALSE, status |-> 0,
          value |-> FALSE, raised |-> FALSE, rootDev |-> 0]

(* os.Remove: a directory goes when everything in it has gone.             *)
Removable(now, e) == now[e.link].type /= "d" \/ now[e.link].kids = <<>>

(* -empty of a directory reads it: one that cannot be read is an error.    *)
Empty(n, s) ==
  IF n.type = "d" /\ ~ n.readable THEN [s EXCEPT !.value = FALSE, !.raised = TRUE, !.status = 1]
  ELSE [s EXCEPT !.value = IF n.type = "d" THEN n.kids = <<>> ELSE n.type = "f" /\ n.size = 0]

Act(fs, o, x, e, s) ==
  CASE x.t \in Writes -> [s EXCEPT !.out = Append(@, e.path), !.value = TRUE]
    [] x.t = "-prune" -> [s EXCEPT !.prune = @ \/ (~ o.depth /\ fs[e.node].type = "d"), !.value = TRUE]
    [] x.t = "-quit" -> [s EXCEPT !.quit = TRUE, !.value = TRUE, !.raised = TRUE,
                           !.stopped = IF s.quit THEN @ ELSE Len(s.visited)]
    [] x.t = "-delete" ->
         IF e.dot THEN [s EXCEPT !.value = TRUE]
         ELSE IF Removable(Now(fs, s.gone), e) THEN [s EXCEPT !.gone = @ \cup {e.link}, !.value = TRUE]
         ELSE [s EXCEPT !.status = 1, !.value = FALSE]
    [] x.t = "-empty" -> Empty(Now(fs, s.gone)[e.node], s)
    [] OTHER -> [s EXCEPT !.value = TestHolds(Now(fs, s.gone), o.follow, x, e)]

RECURSIVE Eval(_, _, _, _, _)
Eval(fs, o, x, e, s) ==
  CASE x.op = "leaf" -> Act(fs, o, x.tok, e, s)
    [] x.op = "not" -> LET r == Eval(fs, o, x.left, e, s) IN [r EXCEPT !.value = ~ @]
    [] x.op = "and" ->
         LET l == Eval(fs, o, x.left, e, s)
         IN IF l.raised \/ ~ l.value THEN l ELSE Eval(fs, o, x.right, e, l)
    [] x.op = "or" ->
         LET l == Eval(fs, o, x.left, e, s)
         IN IF l.raised \/ l.value THEN l ELSE Eval(fs, o, x.right, e, l)

(* statOf: -L, and -H on an operand, follow a link that leads somewhere,   *)
(* as far as the kernel does: MaxLinks on one path.                        *)
MaxLinks == 2
Followed(fs, o, id, isRoot, links) ==
  IF fs[id].type = "l" /\ fs[id].target /= 0 /\ (o.follow = "L" \/ (o.follow = "H" /\ isRoot)) /\ links < MaxLinks
  THEN fs[id].target ELSE id

PruneKept(s) == s
PruneReset(s) == [s EXCEPT !.prune = FALSE]
Visit(fs, o, e, depth, s) ==
  IF depth < o.min \/ (o.max >= 0 /\ depth > o.max) THEN s
  ELSE [Eval(fs, o, o.expr, e, [PruneReset(s) EXCEPT !.raised = FALSE, !.visited = Append(@, e.path)])
          EXCEPT !.raised = FALSE]

RECURSIVE Walk(_, _, _, _, _, _)
Walk(fs, o, e, depth, links, s0) ==
  LET n == fs[e.node]
      isRoot == depth = 0
      s == IF isRoot /\ s0.rootDev = 0 THEN [s0 EXCEPT !.rootDev = n.dev] ELSE s0
      child(id, t) ==
        LET to == Followed(Now(fs, t.gone), o, id, FALSE, links)
        IN Walk(fs, o, [path |-> Append(e.path, id), link |-> id, node |-> to, dot |-> FALSE], depth + 1,
                IF to = id THEN links ELSE links + 1, t)
      descend(t) ==
        IF n.type /= "d" \/ t.quit \/ (o.max >= 0 /\ depth >= o.max) \/ (o.xdev /\ ~ isRoot /\ n.dev /= t.rootDev)
        THEN t
        ELSE IF ~ n.readable THEN [t EXCEPT !.status = 1]
        ELSE FoldLeft(LAMBDA a, id : child(id, a), t, Now(fs, t.gone)[e.node].kids)
  IN IF s.quit THEN s
     ELSE IF o.depth THEN Visit(fs, o, e, depth, descend(s))
     ELSE LET v == Visit(fs, o, e, depth, s) IN IF v.prune THEN v ELSE descend(v)

(* find with its operands, node numbers; 0 is one that does not exist, as  *)
(* is by then one that an earlier operand had deleted.                     *)
Find(args, roots, fs) ==
  LET o == FindPlan(args)
      root(s, id) ==
        IF s.quit THEN s
        ELSE IF id \in {0} \cup s.gone THEN [s EXCEPT !.status = 1]
        ELSE LET to == Followed(Now(fs, s.gone), o, id, TRUE, 0)
             IN Walk(fs, o, [path |-> <<id>>, link |-> id, node |-> to, dot |-> fs[id].name = <<46>>],
                     0, IF to = id THEN 0 ELSE 1, s)
  IN IF o.bad THEN [NoRun EXCEPT !.status = 1] ELSE FoldLeft(root, NoRun, roots)

(* --------------------------------- test ---------------------------------- *)
(* test evaluates while it parses: both sides of -a and -o always.         *)
TypeTests == [f |-> "-f", d |-> "-d", b |-> "-b", c |-> "-c", p |-> "-p", s |-> "-S"]
AccessTests == "-r" :> 4 @@ "-w" :> 2 @@ "-x" :> 1
Unary == {"-n", "-z", "-e", "-s", "-t", "-L", "-h"} \cup Range(TypeTests) \cup DOMAIN AccessTests
Arithmetic == {"-eq", "-ne", "-lt", "-le", "-gt", "-ge"}
Binary == {"=", "==", "!=", "<", ">", "-nt", "-ot", "-ef"} \cup Arithmetic
Value(p, v) == [ok |-> TRUE, pos |-> p, v |-> v]
Bad == [ok |-> FALSE, pos |-> 0, v |-> FALSE]

Exists(w) == w \in DOMAIN File
Target(w) == File[w].target                 \* os.Stat follows a link
Stated(w) == Exists(w) /\ Target(w) /= "none"
EvalUnary(op, w) ==
  CASE op = "-n" -> [ok |-> TRUE, v |-> w /= ""]
    [] op = "-z" -> [ok |-> TRUE, v |-> w = ""]
    [] op = "-t" -> IF w \in DOMAIN Number /\ Number[w] >= 0 THEN [ok |-> TRUE, v |-> Number[w] = 0]
                    ELSE [ok |-> FALSE, v |-> FALSE]
    [] op \in {"-L", "-h"} -> [ok |-> TRUE, v |-> Exists(w) /\ File[w].link]
    [] OTHER ->
         [ok |-> TRUE,
          v |-> /\ Stated(w)
                /\ CASE op = "-e" -> TRUE
                     [] op = "-s" -> File[w].size > 0
                     [] op \in DOMAIN AccessTests -> AccessTests[op] \in File[w].access
                     [] op \in Range(TypeTests) -> TypeTests[Target(w)] = op]

Relates(op, x, y) ==
  CASE op = "-eq" -> x = y [] op = "-ne" -> x /= y [] op = "-lt" -> x < y
    [] op = "-le" -> x <= y [] op = "-gt" -> x > y [] op = "-ge" -> x >= y
EvalBinary(l, op, r) ==
  CASE op \in {"=", "=="} -> [ok |-> TRUE, v |-> l = r]
    [] op = "!=" -> [ok |-> TRUE, v |-> l /= r]
    [] op = "<" -> [ok |-> TRUE, v |-> Rank[l] < Rank[r]]
    [] op = ">" -> [ok |-> TRUE, v |-> Rank[l] > Rank[r]]
    [] op = "-ef" -> [ok |-> TRUE, v |-> Stated(l) /\ Stated(r) /\ File[l].ino = File[r].ino]
    [] op = "-nt" ->
         [ok |-> TRUE, v |-> Stated(l) /\ (Stated(r) => File[l].mtime > File[r].mtime)]
    [] op = "-ot" ->
         [ok |-> TRUE, v |-> Stated(r) /\ (Stated(l) => File[l].mtime < File[r].mtime)]
    [] OTHER ->
         IF {l, r} \subseteq DOMAIN Number
         THEN [ok |-> TRUE, v |-> Relates(op, Number[l], Number[r])]
         ELSE [ok |-> FALSE, v |-> FALSE]

Is(ws, p, w) == p <= Len(ws) /\ ws[p] = w
With(r, p) == IF r.ok THEN Value(p, r.v) ELSE Bad

RECURSIVE TestOr(_, _), TestOrRest(_, _), TestAnd(_, _), TestAndRest(_, _), TestNot(_, _)
TestOr(ws, p) == TestOrRest(ws, TestAnd(ws, p))
TestOrRest(ws, l) ==
  IF ~ l.ok \/ ~ Is(ws, l.pos, "-o") THEN l
  ELSE LET r == TestAnd(ws, l.pos + 1) IN TestOrRest(ws, [r EXCEPT !.v = @ \/ l.v])
TestAnd(ws, p) == TestAndRest(ws, TestNot(ws, p))
TestAndRest(ws, l) ==
  IF ~ l.ok \/ ~ Is(ws, l.pos, "-a") THEN l
  ELSE LET r == TestNot(ws, l.pos + 1) IN TestAndRest(ws, [r EXCEPT !.v = @ /\ l.v])
TestPrimary(ws, p) ==
  CASE p > Len(ws) -> Bad
    [] Is(ws, p, "(") -> LET r == TestOr(ws, p + 1)
                         IN IF r.ok /\ Is(ws, r.pos, ")") THEN [r EXCEPT !.pos = @ + 1] ELSE Bad
    [] p <= Len(ws) /\ ws[p] \in Unary ->
         IF p = Len(ws) THEN Bad ELSE With(EvalUnary(ws[p], ws[p + 1]), p + 2)
    [] p < Len(ws) /\ ws[p] \notin Unary \cup {"("} /\ ws[p + 1] \in Binary ->
         IF p + 1 = Len(ws) THEN Bad ELSE With(EvalBinary(ws[p], ws[p + 1], ws[p + 2]), p + 3)
    [] OTHER -> Value(p + 1, ws[p] /= "")
TestNot(ws, p) ==
  IF Is(ws, p, "!") THEN LET r == TestNot(ws, p + 1) IN [r EXCEPT !.v = ~ @] ELSE TestPrimary(ws, p)

(* One, two and three words are what POSIX says, whatever they look like.  *)
Test(ws) ==
  LET status(v) == IF v THEN 0 ELSE 1
      r == TestOr(ws, 1)
      b == EvalBinary(ws[1], ws[2], ws[3])
  IN CASE ws = <<>> -> 1
       [] Len(ws) = 1 -> status(ws[1] /= "")
       [] Len(ws) = 2 /\ ws[1] = "!" -> status(ws[2] = "")
       [] Len(ws) = 3 /\ ws[2] \in Binary -> IF b.ok THEN status(b.v) ELSE 2
       [] OTHER -> IF r.ok /\ r.pos > Len(ws) THEN status(r.v) ELSE 2

(* [ is test with a last word of its own.                                  *)
Bracket(ws) == IF ws = <<>> \/ Last(ws) /= "]" THEN 2 ELSE Test(Front(ws))

(* --------------------------------- expr ---------------------------------- *)
(* A value is a word.  The loops apply an operator to what they have so    *)
(* far; "none" is an error, as is a factor of zero, of "*" too.            *)
Null(v) == v \in {"", "0"}
Trunc(x, y) == LET abs(n) == IF n < 0 THEN -n ELSE n IN Sign(x) * Sign(y) * (abs(x) \div abs(y))
Arith(op, v, r) ==
  IF ~ ({v, r} \subseteq DOMAIN Number) THEN "none"
  ELSE LET x == Number[v]
           y == Number[r]
       IN CASE op = "+" -> ToString(x + y)
            [] op = "-" -> ToString(x - y)
            [] op \in {"*", "/", "%"} /\ y = 0 -> "none"
            [] op = "*" /\ y # 0 -> ToString(x * y)
            [] op = "/" /\ y # 0 -> ToString(Trunc(x, y))
            [] op = "%" /\ y # 0 -> ToString(x - y * Trunc(x, y))
Order(v, r) ==
  IF {v, r} \subseteq DOMAIN Number THEN Sign(Number[v] - Number[r]) ELSE Sign(Rank[v] - Rank[r])
Bit(cond) == IF cond THEN "1" ELSE "0"
Apply(op, v, r) ==
  CASE op = "|" -> IF Null(v) THEN r ELSE v
    [] op = "&" -> IF Null(v) \/ Null(r) THEN "0" ELSE v
    [] op \in {"=", "=="} -> Bit(Order(v, r) = 0)
    [] op = "!=" -> Bit(Order(v, r) /= 0)
    [] op = "<" -> Bit(Order(v, r) < 0)
    [] op = "<=" -> Bit(Order(v, r) <= 0)
    [] op = ">" -> Bit(Order(v, r) > 0)
    [] op = ">=" -> Bit(Order(v, r) >= 0)
    [] op = "!" -> "0"
    [] OTHER -> Arith(op, v, r)

Comparisons == {"=", "==", "!=", "<", "<=", ">", ">=", "!"}
Levels == <<{"|"}, {"&"}, Comparisons, {"+", "-"}, {"*", "/", "%"}>>
ExprBad == [ok |-> FALSE, pos |-> 0, v |-> ""]

(* A word that begins like a comparison is taken for one, and is "0" when  *)
(* it is none, as "!" is.  A comparison is made once; the empty word where its operator could be   *)
(* is indexed, a panic, and ends expr like an error, with status 2.        *)
RECURSIVE ExprLevel(_, _, _), ExprRest(_, _, _)
ExprPrimary(ws, p) ==
  IF Is(ws, p, "(")
  THEN LET r == ExprLevel(ws, p + 1, 1)
       IN IF r.ok /\ Is(ws, r.pos, ")") THEN [r EXCEPT !.pos = @ + 1] ELSE ExprBad
  ELSE IF p > Len(ws) THEN ExprBad ELSE Value(p + 1, ws[p])
ExprLevel(ws, p, n) == IF n > Len(Levels) THEN ExprPrimary(ws, p) ELSE ExprRest(ws, ExprLevel(ws, p, n + 1), n)
ExprRest(ws, l, n) ==
  IF ~ l.ok \/ l.pos > Len(ws) THEN l
  ELSE IF n = 3 /\ ws[l.pos] = "" THEN ExprBad
  ELSE IF ws[l.pos] \notin Levels[n] THEN l
  ELSE LET op == ws[l.pos]
           r == ExprLevel(ws, l.pos + 1, n + 1)
           v == Apply(op, l.v, r.v)
       IN IF ~ r.ok \/ v = "none" THEN ExprBad
          ELSE IF n = 3 THEN Value(r.pos, v) ELSE ExprRest(ws, Value(r.pos, v), n)

Expr(ws) ==
  LET r == ExprLevel(ws, 1, 1)
  IN IF ws = <<>> \/ ~ r.ok \/ r.pos <= Len(ws) THEN [status |-> 2, out |-> ""]
     ELSE [status |-> IF Null(r.v) THEN 1 ELSE 0, out |-> r.v]
=============================================================================
