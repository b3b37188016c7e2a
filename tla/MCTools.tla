------------------------------- MODULE MCTools -------------------------------
(* The commands that compute an output from their options and input, each  *)
(* compared with what it promises on every case of a small set.  A state   *)
(* is one case, and the step that ends it is checked.                      *)
EXTENDS Text

ScriptCases == INSTANCE MCScripts
SystemCases == INSTANCE MCSystem

Sorting == INSTANCE SortTools
Columns == INSTANCE ColumnTools
Streams == INSTANCE StreamTools
Dumping == INSTANCE Dumps

CONSTANT Tools   \* the commands of this run

VARIABLES tool,    \* the command
          args,    \* its options
          input,   \* what it reads
          given    \* whether it has been given that
vars == <<tool, args, input, given>>

O(n, a) == [opt |-> n, arg |-> a]
F(n) == [opt |-> n, arg |-> TRUE]
UpTo(n, S) == UNION {[1 .. k -> S] : k \in 0 .. n}
TextOf(n, S) == UpTo(n, S \cup {Newline})
Kind(a, i) == [args |-> a, inputs |-> i]

(* ------------------------------ sorted files ------------------------------ *)
a == 97
b == 98
bigA == 65
one == 49
two == 50
SortLine == {<<>>, <<a>>, <<bigA>>, <<b, Space, a>>, <<b, Space, Space, two>>, <<one, two>>, <<two>>, <<one, 46, two, 101, one>>}
Key(start, end, mods, endMods) ==
  O("k", [start |-> start, char |-> 0, end |-> end, endChar |-> 0, mods |-> mods, endMods |-> endMods])
SortArgs ==
  {<<>>, <<F("r"), F("m")>>, <<F("g"), F("z"), O("o", "out")>>, <<O("t", <<a, b>>)>>, <<F("u"), F("f")>>, <<F("n"), F("s")>>, <<F("n"), F("u")>>, <<F("f"), F("r")>>,
   <<Key(2, 0, {"b"}, {}), F("s")>>, <<Key(2, 2, {}, {"n"}), F("r")>>, <<Key(0, 0, {}, {})>>,
   <<Key(1, 1, {}, {}), Key(2, 2, {"b", "r"}, {"b"})>>, <<O("t", <<a>>), Key(2, 0, {}, {}), F("g")>>,
   <<F("c")>>, <<F("c"), F("u"), F("d")>>, <<F("M")>>, <<F("h"), F("i")>>,
   <<O("k", [start |-> 1, char |-> 2, end |-> 1, endChar |-> 3, mods |-> {}, endMods |-> {"b"}])>>}
UniqArgs ==
  {<<>>, <<F("d")>>, <<F("u")>>, <<F("c"), F("i")>>, <<O("f", 1)>>, <<O("s", 1), O("w", 1)>>,
   <<O("D", "none")>>, <<O("D", "separate"), F("u")>>, <<O("group", "both")>>, <<O("group", "append")>>,
   <<O("D", "both")>>, <<O("group", "separate"), F("c")>>, <<O("w", -1)>>, <<F("x")>>, <<O("output", "the input")>>, <<O("output", "out"), F("z")>>}
CommArgs == {<<>>, <<F("1"), F("2")>>, <<F("check")>>, <<F("nocheck"), F("3")>>, <<F("total"), F("2")>>, <<F("4")>>}
JoinArgs ==
  {<<>>, <<O("a", 1)>>, <<O("v", 2), F("i")>>, <<F("check")>>, <<F("nocheck"), O("a", 2)>>, <<O("1", 2), F("header")>>,
   <<O("t", <<a>>), O("e", <<two>>), O("o", <<[file |-> 0, field |-> 0], [file |-> 2, field |-> 2]>>)>>, <<O("2", 0)>>, <<O("t", <<>>), F("x")>>, <<O("v", 3)>>, <<F("x")>>}
JoinFile == UpTo(2, {<<a>>, <<a, Space, one>>, <<b, Space, a>>})
(* A file of ten or eleven lines, and copies of it with lines taken out and *)
(* put in: changes whose contexts meet, and changes whose contexts do not.  *)
LinesText(lines) == FlattenSeq(Mapped(lines, LAMBDA c : <<c, Newline>>))
LongFile(n) == [i \in 1 .. n |-> 64 + i]
Edited(n, cut, put) ==
  LinesText(FlattenSeq([i \in 1 .. n + 1 |-> (IF i \in put THEN <<a>> ELSE <<>>) \o (IF i \in cut \/ i > n THEN <<>> ELSE <<64 + i>>)]))
DiffPairs ==
  {<<LinesText(f), LinesText(g)>> : f, g \in UpTo(4, {a, b})}
  \cup {<<LinesText(LongFile(n)), Edited(n, cut, put)>> : n \in {10, 11}, cut \in SUBSET {1, 2, 8, 9}, put \in SUBSET {1, 8, 9, 11}}
SortKinds(t) ==
  CASE t = "sort" -> {Kind(SortArgs, UpTo(3, SortLine))}
    [] t = "uniq" -> {Kind(UniqArgs, UpTo(4, {<<a>>, <<bigA>>, <<b, Space, a>>}))}
    [] t = "comm" -> {Kind(CommArgs, UpTo(3, {<<a>>, <<b>>}) \X UpTo(2, {<<a>>, <<b>>}))}
    [] t = "join" -> {Kind(JoinArgs, JoinFile \X JoinFile)}
    [] t = "cmp" -> {Kind({{}}, (TextOf(3, {a}) \cup {Sorting!NoFile}) \X (TextOf(4, {a}) \cup {Sorting!NoFile}))}
    [] t = "diff" -> {Kind({{}, {"u"}, {"b"}, {"i", "u"}, {"w"}, {"N", "u"}, {"q"}}, TextOf(3, {a, bigA, Space}) \X TextOf(3, {a, bigA, Space})
                           \cup {<<Sorting!NoFile, <<a>>>>, <<<<a>>, Sorting!NoFile>>, <<<<a>>, Sorting!Barred>>})}
    [] t = "diffs" -> {Kind({{}, {"u"}}, DiffPairs)}
    [] OTHER -> {}

Count(s, x) == Cardinality({i \in DOMAIN s : s[i] = x})
Plain(list) == SelectSeq(list, LAMBDA o : o.opt \notin {"d", "u"})

(* sort writes its lines in an order its own comparison agrees with for    *)
(* every pair, near or far, each line as often as it was read, or with -u  *)
(* one of each set that compares equal, the first; with -s, lines that     *)
(* compare equal keep their order.                                         *)
SortLaw ==
  LET o == Sorting!SortCommand(args)
      r == Sorting!Sort(args, <<input>>)
      cut == [k \in {1, 2} |-> IF k = 1 THEN Take(input, 1) ELSE Skip(input, 1)]
  IN r.status = 0 /\ ~ o.c =>
       /\ Sorting!Sort(args, cut) = r /\ Sorting!Sort(Append(args, O("o", Sorting!Sealed)), <<input>>).status = 2
       /\ Sorting!Sort(args, <<input, Sorting!NoLines>>).status = 2
       /\ \A i, j \in DOMAIN r.out : i < j => Sorting!CompareLines(o, r.out[i], r.out[j]) < (IF o.u THEN 0 ELSE 1)
       /\ ~ o.u => \A x \in Range(input) \cup Range(r.out) : Count(input, x) = Count(r.out, x)
       /\ o.u => \A i \in DOMAIN input :
            (\A j \in 1 .. i - 1 : Sorting!CompareKeys(o, input[j], input[i]) /= 0) <=> Count(r.out, input[i]) > 0 /\ input[i] \notin Range(Take(input, i - 1))
       /\ o.s => \A x, y \in Range(input) :
            Sorting!CompareKeys(o, x, y) = 0 =>
              SelectSeq(input, LAMBDA l : l \in {x, y}) = SelectSeq(r.out, LAMBDA l : l \in {x, y})

(* sort -c says yes exactly to what sort would leave as it is.             *)
CheckLaw ==
  LET order == SelectSeq(args, LAMBDA x : x.opt /= "c")
      r == Sorting!Sort(args, <<input>>)
  IN order /= args => (r.status = 0 <=> Sorting!Sort(order, <<input>>).out = input)

(* uniq -d and -u share the groups of lines between them, the counts of -c *)
(* add up to the lines read, and a second run changes nothing.             *)
UniqLaw ==
  LET r == Sorting!Uniq(args, input)
      also(n) == Len(Sorting!Uniq(Append(Plain(args), F(n)), input).out)
      whole == Sorting!Uniq(Plain(args), input).out
      texts == [i \in DOMAIN whole |-> whole[i].text]
      o == Options(Sorting!UniqOption, Sorting!UniqDefaults, args)
  IN r.status = 0 =>
       /\ o.D = "" /\ o.group = "" => also("d") + also("u") = Len(whole)
       /\ o.c => FoldLeft(LAMBDA n, l : n + l.n, 0, r.out) = Len(input)
       /\ o.D = "" /\ o.group = "" /\ ~ o.c =>
            Sorting!Uniq(Plain(args), texts).out = whole
       /\ o.group /= "" => Len(SelectSeq(r.out, LAMBDA l : l /= Sorting!Separator)) = Len(input)

Sorted(s) == \A i \in 1 .. Len(s) - 1 : Compare(s[i], s[i + 1]) <= 0

(* comm of two sorted files puts every line into the column of the files   *)
(* it is in, as often as it is there, and finds no disorder; disorder it   *)
(* does not report is not there as long as every line pairs.               *)
CommLaw ==
  LET f == input
      r == Sorting!Comm(args, f)
      hidden == {x.opt : x \in Range(args)}
      smaller(m, n) == IF m < n THEN m ELSE n
      column(c, x) == Cardinality({i \in DOMAIN r.out : r.out[i] = <<c, x>>})
      counts(c) == Len(SelectSeq(Sorting!Comm(<<F("total")>>, f).out, LAMBDA l : l[1] = c))
  IN Sorted(f[1]) /\ Sorted(f[2]) /\ "4" \notin hidden =>
       /\ r.status = 0
       /\ "total" \in hidden => r.total = [c \in 1 .. 3 |-> counts(c)]
       /\ \A x \in Range(f[1]) \cup Range(f[2]) :
            LET m == Count(f[1], x)
                n == Count(f[2], x)
            IN /\ "3" \notin hidden => column(3, x) = smaller(m, n)
               /\ "1" \notin hidden => column(1, x) = m - smaller(m, n)
               /\ "2" \notin hidden => column(2, x) = n - smaller(m, n)

(* join of files sorted on their keys prints every pair of lines with the  *)
(* same key once, and with -a every line without a partner.                *)
JoinLaw ==
  LET f == input
      o == Options(Sorting!JoinOption, Sorting!JoinDefaults, args)
      rec(i) == [n \in DOMAIN f[i] |-> Sorting!JoinRecord(o, f[i][n])]
      key(i, n) == Sorting!KeyText(Sorting!JoinKey(o, rec(i)[n], i))
      pairs == {p \in (DOMAIN f[1]) \X (DOMAIN f[2]) : key(1, p[1]) = key(2, p[2])}
      single(i) == {n \in DOMAIN f[i] : \A p \in pairs : p[i] /= n}
      ordered == \A i \in {1, 2} : \A n \in 1 .. Len(f[i]) - 1 :
                   Compare(key(i, n), key(i, n + 1)) <= 0 /\ Compare(f[i][n], f[i][n + 1]) <= 0
      r == Sorting!JoinFiles(args, f)
  IN ordered /\ ~ o.bad /\ ~ o.crash /\ ~ o.header /\ ~ o.i =>
       /\ r.status = 0
       /\ Len(r.out) = (IF o.only = {} THEN Cardinality(pairs) ELSE 0)
                       + (IF 1 \in o.only \cup o.also THEN Cardinality(single(1)) ELSE 0)
                       + (IF 2 \in o.only \cup o.also THEN Cardinality(single(2)) ELSE 0)

(* cmp names the first byte that differs, or where the shorter file ends:   *)
(* up to there the files are the same, and the line it names is the one     *)
(* that byte, or the last one before the end, is in.                        *)
CmpLaw ==
  LET f == input[1]
      g == input[2]
      r == Sorting!Cmp(f, g)
      same(n) == Take(f, n) = Take(g, n)
      lineOf(n) == Len(Sorting!DiffLines(Take(f, n)))
  IN /\ r = Sorting!Cmp(g, f)
     /\ r.status = 0 <=> f = g /\ f /= Sorting!NoFile
     /\ r.status = 1 /\ r.eof = "" => /\ same(r.byte - 1) /\ ~ same(r.byte)
                                      /\ f[r.byte] /= Newline => r.line = lineOf(r.byte)
     /\ r.status = 1 /\ r.eof /= "" => /\ same(r.byte) /\ r.line = lineOf(r.byte)
                                       /\ r.byte \in {Len(f), Len(g)}

(* A line of a file as diff shows it, and how many diff thinks alike.       *)
Shown(text) ==
  LET lines == Sorting!DiffLines(text)
  IN [n \in DOMAIN lines |-> [text |-> lines[n], mark |-> n = Len(lines) /\ Sorting!Unended(text)]]
Alike(lines) ==
  [n \in DOMAIN lines |->
     Sorting!DiffNormal(args, IF lines[n].mark THEN Append(lines[n].text, Sorting!NoEnd) ELSE lines[n].text)]
Side(body, kinds) ==
  Mapped(SelectSeq(body, LAMBDA l : l.kind \in kinds), LAMBDA l : [text |-> l.text, mark |-> l.mark])

(* patch: an edit takes the lines from .. to out of the first file and puts *)
(* others there, which become the lines from at on of the second.           *)
Edit(from, to, old, new, at) == [from |-> from, to |-> to, old |-> old, new |-> new, at |-> at]
EditOf(e) ==
  IF "u" \in args
    THEN Edit(e.a[1], e.a[1] + e.a[2] - 1, Side(e.body, {"=", "-"}), Side(e.body, {"=", "+"}), e.b[1])
    ELSE Edit(IF e.verb = "a" THEN e.a[1] + 1 ELSE e.a[1], Last(e.a), Side(e.body, {"-"}), Side(e.body, {"+"}),
              IF e.verb = "d" THEN e.b[1] + 1 ELSE e.b[1])
PatchStep(f, s, e) ==
  LET before == s.out \o SubSeq(f, s.next, e.from - 1)
  IN [next |-> e.to + 1, out |-> before \o e.new,
      apply |-> s.apply /\ e.from >= s.next /\ e.old = SubSeq(f, e.from, e.to),
      numbers |-> s.numbers /\ e.at = Len(before) + 1]
Patched(f, edits) ==
  LET s == FoldLeft(LAMBDA m, e : PatchStep(f, m, e), [next |-> 1, out |-> <<>>, apply |-> TRUE, numbers |-> TRUE], edits)
  IN [s EXCEPT !.out = @ \o SubSeq(f, s.next, Len(f))]

LongestCommon(f, g) ==
  LET picks(s) == {[at |-> S, text |-> Mapped(InOrder(S, 1, Len(s)), LAMBDA i : s[i])] : S \in SUBSET DOMAIN s}
      common == {p \in picks(f) : \E q \in picks(g) : p.text = q.text}
  IN CHOOSE n \in 0 .. Len(f) : (\E p \in common : Len(p.text) = n) /\ \A p \in common : Len(p.text) <= n

(* What diff prints turns the first file into the second, in the numbers of *)
(* both and with the last line end where it is, and calls no more lines     *)
(* changed than have to be; hunks do not meet and keep to their context.    *)
(* Beyond its table diff replaces the whole file.                           *)
DiffLaw ==
  LET f == Shown(Sorting!DiffInput(input[1]))
      g == Shown(Sorting!DiffInput(input[2]))
      r == Sorting!Diff(args, input)
      large == Sorting!TooManyCells(f, g)
      edits == Mapped(r.out, EditOf)
      p == Patched(f, edits)
      edge(body) == Span(body, LAMBDA l : l.kind = "=")
      removed == FoldLeft(LAMBDA n, e : n + Len(SelectSeq(e.body, LAMBDA l : l.kind = "-")), 0, r.out)
  IN IF Sorting!Barred \in Range(input) \/ (Sorting!NoFile \in Range(input) /\ "N" \notin args) THEN r.status = 2
     ELSE /\ ~ large => (r.status = 0 <=> Alike(f) = Alike(g))
          /\ "q" \notin args =>
               /\ p.apply /\ Alike(p.out) = Alike(g)
               /\ p.numbers \/ (large /\ "u" \in args)
               /\ ~ large /\ Len(f) <= 4 => removed = Len(f) - LongestCommon(Alike(f), Alike(g))
               /\ "u" \in args => \A k \in DOMAIN r.out :
                    /\ edge(r.out[k].body) <= Sorting!DiffContext /\ edge(Reverse(r.out[k].body)) <= Sorting!DiffContext
                    /\ edge(r.out[k].body) = Sorting!DiffContext \/ edits[k].from = 1
                    /\ edge(Reverse(r.out[k].body)) = Sorting!DiffContext \/ edits[k].to = Len(f)
                    /\ k > 1 => edits[k].from > edits[k - 1].to + 1

(* sort, uniq, comm, join, cmp and diff agree with what an order and a      *)
(* comparison of lines promise: nothing is lost or shown twice on the way   *)
(* through runs, merges and groups, and every number diff and cmp name is   *)
(* the one of the line it is about.                                         *)
SortedFiles ==
  [][given => CASE tool = "sort" -> SortLaw /\ CheckLaw
               [] tool = "uniq" -> UniqLaw
               [] tool = "comm" -> CommLaw
               [] tool = "join" -> JoinLaw
               [] tool = "cmp" -> CmpLaw
               [] tool \in {"diff", "diffs"} -> DiffLaw
               [] OTHER -> TRUE]_vars

(* --------------------------- columns and streams -------------------------- *)
BS == 8
CutArgs ==
  {<<O("c", l)>> : l \in {<<<<2>>>>, <<<<3>>, <<1, 2>>>>, <<<<2, -1>>, <<3>>>>, <<<<-1, 2>>, <<4>>>>, <<<<0>>>>, <<<<3, 2>>>>}}
  \cup {<<O("f", <<<<2>>>>), O("d", <<b>>)>>, <<O("f", <<<<1>>, <<3, -1>>>>), O("d", <<b>>), F("s")>>,
        <<O("b", <<<<2>>, <<4>>>>), F("complement"), O("output", <<one>>)>>, <<F("s"), O("c", <<<<1>>>>)>>,
        <<O("f", <<<<2>>>>), F("complement"), O("d", <<b>>), O("output", <<one>>)>>, <<O("f", <<<<1>>>>), O("c", <<<<1>>>>)>>,
        <<F("z"), O("c", <<<<2, -1>>>>)>>, <<F("n"), O("b", <<<<-1, 2>>>>)>>, <<O("d", <<b>>)>>, <<O("f", <<<<1>>>>), O("d", <<a, b>>)>>, <<F("x")>>}
CutFiles ==
  {<<FlattenSeq(Mapped(lines, LAMBDA l : Append(l, Newline)))>> : lines \in UpTo(2, UNION {[1 .. k -> {a, b}] : k \in {0, 3, 4}})}
    \cup {<<<<a, Columns!Invalid, b>>, Streams!Missing>>, <<<<a, b, Columns!Return, Newline, b, 0, a, b, a>>, <<b>>>>}
Ch(c) == [kind |-> "range", lo |-> c, hi |-> c]
Cl(n) == [kind |-> "class", name |-> n]
TrArgs ==
  {<<{}, <<<<Ch(a), Ch(b), Ch(a)>>, <<Ch(one), Ch(two)>>>>>>, <<{"s"}, <<<<Cl("alpha")>>>>>>, <<{"d"}, <<<<Cl("digit"), Ch(b)>>>>>>,
   <<{"c", "d"}, <<<<Cl("lower")>>>>>>, <<{"d", "s"}, <<<<Ch(a)>>, <<Cl("digit")>>>>>>, <<{"c", "s"}, <<<<Cl("lower")>>, <<Ch(one), Ch(a)>>>>>>,
   <<{}, <<<<Cl("lower")>>, <<Cl("upper")>>>>>>, <<{}, <<<<Ch(a)>>>>>>, <<{"d"}, <<<<[kind |-> "range", lo |-> 3, hi |-> 1]>>>>>>,
   <<{"C", "s"}, <<<<Cl("alnum")>>, <<Cl("blank"), Ch(a)>>>>>>, <<{"d"}, <<<<Cl(Columns!NoClass)>>>>>>, <<{"d"}, <<<<Cl("graph")>>>>>>, <<{"x"}, <<<<Ch(a)>>, <<Ch(b)>>>>>>,
   <<{"s"}, <<<<Ch(a)>>, <<>>>>>>, <<{}, <<<<Ch(a)>>, <<>>>>>>}
Stop(f, v) == [flag |-> f, value |-> v]
TabSpecs ==
  {<<>>, <<O("N", <<51>>)>>, <<O("t", <<51>>), O("t", <<53>>)>>, <<O("t", <<99>>)>>, <<F("x")>>}
  \cup {<<O("t", t)>> : t \in {<<50>>, <<50, 44, 53>>, <<51, 44, 47, 50>>, <<51, 44, 43, 50>>, <<49>>, <<47, 51>>, <<43, 51>>, <<51, 44, 51>>,
                              <<47, 51, 44, 50>>, <<50, 47, 51>>, <<47, 50, 44, 43, 50>>, <<48>>, <<51, 44, 44, 53>>, <<49, 48, 48, 48, 48>>}}
TabFiles ==
  {<<f>> : f \in UpTo(5, {Space, Tab, a, BS})}
  \cup {<<<<Space, Space, a, Newline, Tab, a, Space, Tab>>>>, <<<<a, Space>>, Streams!Missing, <<Space, Tab, Newline, Space>>>>}
FoldArgs ==
  {<<O("w", w)>> \o f : w \in {1, 3, 8, 9}, f \in {<<>>, <<F("b")>>, <<F("s")>>, <<F("s"), F("b")>>}}
  \cup {<<>>, <<O("w", 0)>>, <<F("b"), O("w", 3), F("c")>>, <<F("x")>>}
FoldFiles ==
  {<<f>> : f \in UpTo(4, {Space, Tab, a, BS})}
  \cup {<<<<a, a, Newline, Newline, Tab, a, a, a>>, <<a, Newline>>>>, <<Streams!Missing, <<a, Columns!Return, Newline>>>>,
         <<<<Columns!Invalid, a, a>>>>, <<<<a, a, a, Newline, a, Columns!Invalid>>>>}
Number(n) == [valid |-> n /= Streams!None, n |-> n]
Size(n) == [n |-> n, unit |-> "one"]
HowMany(sign, n, unit) == [sign |-> sign, n |-> n, unit |-> unit]
CountArgs ==
  {<<O(u, HowMany(s, n, "one"))>> \o f : u \in {"n", "c"}, s \in {"", "+", "-"}, n \in 0 .. 4, f \in {<<>>, <<F("q")>>, <<F("v"), F("f")>>}}
  \cup {<<O("c", HowMany("", n, "k"))>> : n \in {0, 1, 2097152}} \cup {<<O("n", HowMany("", Streams!None, "one"))>>, <<F("r")>>, <<>>}
TacSeparator(text, valid) == [text |-> text, valid |-> valid, matches |-> {<<>>, <<a>>, <<a, Newline>>}]
TacArgs ==
  {f \o <<O("s", TacSeparator(s, v))>> : f \in {<<>>, <<F("b")>>, <<F("r")>>}, s \in {<<>>, <<a>>, <<a, a>>}, v \in BOOLEAN}
  \cup {<<>>, <<F("b")>>, <<F("z")>>}
CatArgs == SUBSET {"n", "b", "s", "E", "T"} \cup {{"A"}, {"n", "v"}}
NlArgs ==
  {<<O("b", [style |-> s, valid |-> v, matches |-> {<<>>, <<a>>}]), O("l", Number(l)), O("v", Number(-2)), O("i", Number(2))>> :
     s \in {"a", "t", "n", "p"}, l \in 0 .. 2, v \in BOOLEAN}
  \cup {<<>>, <<O("n", "rz"), O("s", "")>>, <<O("n", "zz")>>, <<O("w", Number(0))>>, <<F("d")>>}
WcArgs == SUBSET {"l", "w"} \cup {{"c", "m"}, {"L"}}
PasteArgs ==
  {<<O("d", d)>> \o f : d \in {<<one>>, <<one, two>>, <<92, 54, 49, two>>}, f \in {<<>>, <<F("s")>>, <<F("z")>>}}
  \cup {<<O("d", <<>>)>>, <<F("s"), O("d", <<>>)>>, <<O("d", <<92>>)>>, <<O("d", <<92, a>>)>>, <<F("r")>>}
TeeOutput(opens, pipe, fails) == [opens |-> opens, had |-> <<two>>, pipe |-> pipe, fails |-> fails]
TeeOutputs == {<<TeeOutput(TRUE, p, m), TeeOutput(o, q, n)>> : p, q, o \in BOOLEAN, m, n \in {1, 2, 9}}
TeeArgs == {<<O("error", m)>> : m \in {"warn", "warn-nopipe", "exit", "exit-nopipe", "never"}} \cup {<<F("a"), F("p")>>, <<F("i")>>}
Chunks(w, n) == O(w, [picks |-> FALSE, k |-> 0, n |-> n])
Picks(w, k, n) == O(w, [picks |-> TRUE, k |-> k, n |-> n])
SplitArgs ==
  {<<O(w, Size(n))>> : w \in {"l", "b", "C"}, n \in 0 .. 3} \cup {<<F("d"), O("a", 1), O("b", Size(1))>>, <<O("numeric", <<1>>), O("l", Size(1))>>}
  \cup {<<Chunks(w, n), F("e"), O("numeric", <<0, 1>>)>> : w \in {"chunks", "lines", "robin"}, n \in {0, 1, 3, 5}}
  \cup {<<Picks(w, k, 4), F("x")>> : w \in {"chunks", "lines", "robin"}, k \in {0, 2, 5}} \cup {<<Chunks(w, 4), F("x")>> : w \in {"chunks", "lines", "robin"}}
  \cup {<<Picks(w, 2, 2), Chunks(w, n)>> : w \in {"chunks", "robin"}, n \in {1, 3}}
  \cup {<<O("b", Size(1)), Chunks("robin", 2)>>, <<O("a", 0), Chunks("robin", 3)>>, <<O("a", 1), Chunks("robin", 3), F("d")>>,
         <<O("hex", <<15>>), O("l", Size(1))>>, <<O("hex", <<15>>), F("d"), O("b", Size(2))>>, <<O("numeric", <<15>>)>>,
         <<O("hex", <<1, 0, 10>>), O("l", Size(1))>>, <<O("t", <<a>>), O("C", Size(2))>>, <<O("t", <<a>>), O("l", Size(1))>>, <<O("t", <<>>)>>,
         <<O("b", [n |-> 1, unit |-> "KB"])>>, <<O("C", [n |-> 2, unit |-> "G"])>>}

Sections == <<[at |-> 1, size |-> 3, loaded |-> TRUE], [at |-> 0, size |-> 2, loaded |-> FALSE], [at |-> 5, size |-> 9, loaded |-> TRUE]>>
StringsArgs ==
  {<<O("n", n), O("e", e)>> : n \in {1, 2}, e \in {"s", "S", "b", "l", "B", "L"}}
  \cup {<<F("d"), O("n", 2)>>, <<F("w"), O("n", 1)>>, <<>>, <<O("n", 0)>>, <<O("e", "x")>>}
Of(kind, n) == Dumping!OfSize(kind, n)
OdArgs ==
  {<<O("w", 2), O("t", <<Of("x", 1)>>)>>, <<O("w", 2), F("a")>>, <<O("w", 4), O("t", <<Of("x", 2), Of("d", 1)>>), O("j", 1)>>,
   <<O("w", -1), O("t", <<[Of("a", -1) EXCEPT !.z = TRUE]>>)>>, <<O("w", 2), O("t", <<[Of("f", -1) EXCEPT !.size = "B"]>>)>>,
   <<F("x"), O("w", 4), O("endian", "big"), O("N", 3)>>, <<O("w", 2), F("s"), F("b")>>, <<O("w", 3), F("x")>>, <<O("j", 9), O("A", "d")>>,
   <<O("w", 1), F("c")>>, <<O("t", <<>>)>>, <<O("t", <<Of("d", 3)>>)>>, <<O("w", 2), F("o"), O("A", "n")>>, <<O("w", 0)>>,
   <<O("w", 8), F("i"), F("l"), F("f"), O("N", 5), O("j", 1)>>}
Formats == UNION {[1 .. k -> {"%s", "%d", "%c", "%%", "n", "%q"}] : k \in 1 .. 3} \cup {<<"%s", "%-3.1s">>, <<"%s", "%">>, <<"%2">>}
Spelled(piece) ==
  CASE piece = "%s" -> <<37, 115>> [] piece = "%d" -> <<37, 100>> [] piece = "%c" -> <<37, 99>> [] piece = "%%" -> <<37, 37>>
    [] piece = "n" -> <<92, 110>> [] piece = "%q" -> <<37, 113>> [] piece = "%" -> <<37>> [] piece = "%2" -> <<37, 50>>
    [] piece = "%-3.1s" -> <<92, 52, 53, 45, 51, 46, 49, 115>>
Operands == {<<a, b>>, <<one>>, <<one, a>>}
Numerals == [sign : {"", "+", "-"}, base : {8, 10, 16}, value : {0, 1, 9, 32767, 32768, 65535, 65536}, tail : {<<>>, <<Space>>, <<122>>}]
SeqWord(opt) == [opt |-> opt, number |-> Dumping!NoNumber]
SeqFlags == {<<>>, <<SeqWord("w")>>, <<SeqWord("s"), SeqWord("w"), SeqWord("--")>>, <<SeqWord("f"), SeqWord(""), SeqWord("w")>>}
SeqNumbers == [digits : {0, 1, 5, 9, 12}, places : {0, 1}, minus : BOOLEAN]
HexdumpArgs == {<<F(m), O(x, n)>> : m \in {"C", "c", "b", "d", "o", "x"}, x \in {"s", "n"}, n \in {0, 3, 9}} \cup {<<>>, <<F("v")>>, <<O("n", -1)>>}

ColumnKinds(t) ==
  CASE t = "cut" -> {Kind(CutArgs, CutFiles)}
    [] t = "tr" -> {Kind(TrArgs, UpTo(5, {a, b, one, two}))}
    [] t = "tabs" -> {Kind(TabSpecs \X BOOLEAN, TabFiles)}
    [] t = "fold" -> {Kind(FoldArgs, FoldFiles)}
    [] t = "head" -> {Kind(CountArgs, {<<f>> : f \in TextOf(6, {a})} \cup [1 .. 2 -> TextOf(2, {a}) \cup {Streams!Missing}])}
    [] t = "tailc" -> {Kind(0 .. 4, UpTo(3, UpTo(3, {a, b})))}
    [] t = "tac" -> {Kind(TacArgs, {<<f>> : f \in TextOf(6, {a})} \cup [1 .. 2 -> TextOf(2, {a}) \cup {Streams!Missing}])}
    [] t = "cat" -> {Kind(CatArgs, UpTo(2, TextOf(3, {Tab}) \cup {Streams!Missing}))}
    [] t = "nl" -> {Kind(NlArgs, UpTo(2, TextOf(3, {a}) \cup {Streams!Missing, <<a, 13, Newline>>, <<Newline, 13, a>>}) \cup {<<f>> : f \in TextOf(5, {a})})}
    [] t = "wc" -> {Kind(WcArgs, UpTo(2, TextOf(3, {a, 160}) \cup {Streams!Missing}) \cup {<<f>> : f \in TextOf(4, {Space, a, 8364})})}
    [] t = "paste" -> {Kind(PasteArgs, UNION {[1 .. k -> TextOf(3, {a})] : k \in {1, 2, 3}})}
    [] t = "tee" -> {Kind(TeeArgs \X TeeOutputs, UpTo(3, {<<a>>, <<b, b>>}))}
    [] t = "split" -> {Kind(SplitArgs, TextOf(6, {a}))}
    [] t = "strings" -> {Kind(StringsArgs, {<<[data |-> d, elf |-> s /= <<>>, sections |-> s]>> : d \in UpTo(6, {0, a, 7}) \cup [1 .. 10 -> {0, a}], s \in {<<>>, Sections}}
                                           \cup {<<Dumping!MissingFile, [data |-> <<a, a>>, elf |-> FALSE, sections |-> <<>>]>>})}
    [] t = "od" -> {Kind(OdArgs, {<<d>> : d \in UpTo(6, {0, 1, 128})} \cup {<<<<1, 1, 1>>, <<1, 1>>>>, <<<<1>>, Dumping!Unreadable>>, <<<<129, 127, 130, 127>>>>})}
    [] t = "base64" -> {Kind({0, 3, 4, 76}, UpTo(3, {0, 1, 64, 255}) \cup {[k \in 1 .. n |-> 40 * k] : n \in 4 .. 6})}
    [] t = "spell" -> {Kind({"octal", "short", "hex"}, UpTo(3, {1, 7, 9, 10, 49, 92, 255}))}
    [] t = "printf" -> {Kind(Formats, UpTo(3, Operands))}
    [] t = "operand" -> {Kind({100, 111, 117, 120}, Numerals)}
    [] t = "seq" -> {Kind(SeqFlags \X SeqNumbers, SeqNumbers \X SeqNumbers)}
    [] t = "hexdump" -> {Kind(HexdumpArgs, {<<d>> : d \in UpTo(7, {1, 2})})}
    [] OTHER -> {}

(* cut keeps exactly the positions, or fields, its list names, in the order *)
(* of the line and once each, whatever order and overlap the list has.      *)
CutLaw ==
  LET o == Options(Columns!CutOption, Columns!CutDefaults, args)
      r == Columns!Cut(args, input)
      there == FlattenSeq(Columns!There(input))
      lines == IF o.z THEN Mapped(Columns!Records(there, 0), LAMBDA l : Columns!Body(l, 0))
               ELSE FlattenSeq(Mapped(Columns!There(input), Columns!ScannedLines))
      named(i) == \E p \in Range(o.list) :
                    i >= (IF p[1] = -1 THEN 1 ELSE p[1]) /\ (IF Len(p) = 1 THEN i = p[1] ELSE p[2] = -1 \/ i <= p[2])
      kept(s) == SelectSeq([k \in DOMAIN s |-> k], LAMBDA k : named(k) /= o.complement)
      at(s) == [k \in DOMAIN kept(s) |-> s[kept(s)[k]]]
      fields(l) == Pieces(l, LAMBDA c : c = o.d[1])
      wanted == IF o.s THEN SelectSeq(lines, LAMBDA l : o.d[1] \in Range(l)) ELSE lines
      same(x, y) == x = y \/ (o.mode = "c" /\ x = Columns!Replacement /\ y = Columns!Invalid)
      alike(x, y) == Len(x) = Len(y) /\ \A i \in DOMAIN x : same(x[i], y[i])
  IN /\ r.status = 0 => Columns!Missing \notin Range(input)
     /\ r.status = 0 /\ (~ o.z \/ Len(input) = 1) =>
          /\ Len(r.out) = Len(wanted)
          /\ \A n \in DOMAIN wanted :
               IF o.mode /= "f" THEN alike(SelectSeq(r.out[n], LAMBDA c : c /= one), at(wanted[n]))
               ELSE IF o.d[1] \notin Range(wanted[n]) THEN r.out[n] = wanted[n]
               ELSE r.out[n] = Joined(at(fields(wanted[n])), IF o.outSet THEN o.outDelim ELSE o.d)

(* tr keeps the length unless it deletes or squeezes, leaves none of the    *)
(* bytes to be deleted and no pair of equal bytes to be squeezed, and       *)
(* squeezes nothing else.                                                   *)
TrLaw ==
  LET o == IF "C" \in args[1] THEN (args[1] \ {"C"}) \cup {"c"} ELSE args[1]
      r == Columns!Tr(args[1], args[2], input)
      set1 == Range(Columns!TrSet1(o, args[2]))
      plain == Columns!Tr(o \ {"s"}, IF "d" \in o THEN <<args[2][1]>> ELSE args[2], input)
      set2 == IF Len(args[2]) > 1 /\ args[2][2] /= <<>> THEN Range(Columns!ExpandSet(args[2][2])) ELSE set1
      twice == {i \in 1 .. Len(r.out) - 1 : r.out[i] = r.out[i + 1]}
  IN r.status = 0 =>
       /\ "d" \in o => set1 \cap Range(r.out) = {}
       /\ "d" \notin o /\ "s" \notin o => Len(r.out) = Len(input)
       /\ "d" \notin o /\ Len(args[2]) > 1 /\ "s" \notin o =>
            \A i \in DOMAIN input : IF input[i] \in set1 THEN r.out[i] \in set2 ELSE r.out[i] = input[i]
       /\ "s" \in o => \A i \in twice : r.out[i] \notin set2
       /\ "s" \in o /\ plain.status = 0 => \A c \in Range(plain.out) : c \in Range(r.out) /\ (c \notin set2 => Count(r.out, c) = Count(plain.out, c))

(* What unexpand writes expands to what its input expands to, and never is  *)
(* longer; expand leaves no tab, and with -i none before the text, which    *)
(* expands to the same.                                                     *)
TabsLaw ==
  LET tabs == args[1]
      spread == Columns!Expand(tabs, input)
      initial == Columns!Expand(Append(tabs, F("i")), input)
      packed == Columns!Unexpand(Append(tabs, F(IF args[2] THEN "a" ELSE "first-only")), input)
      refused == Columns!StopsRefused(Columns!TabOptions({}, tabs))
  IN /\ refused <=> spread = Columns!Refused
     /\ refused <=> packed = Columns!Refused
     /\ ~ refused =>
          /\ Columns!Expand(tabs, <<packed.out>>).out = spread.out
          /\ Columns!Expand(tabs, <<initial.out>>).out = spread.out
          /\ Tab \notin Range(spread.out)
          /\ Tab \notin Range(Take(initial.out, Span(initial.out, IsBlank)))
          /\ Len(packed.out) <= Len(FlattenSeq(Columns!There(input)))

(* fold only adds line ends; no segment is wider than asked but one whose   *)
(* first column is already too wide, and with -s a break is after a blank if *)
(* there is one.  In columns it takes bytes that are no UTF-8 for three.    *)
FoldLaw ==
  LET o == Options(Columns!FoldOption, Columns!FoldDefaults, args)
      r == Columns!Fold(args, input)
      text == FlattenSeq(Columns!There(input))
      width(s) == FoldLeft(LAMBDA w, c : w + IF o.b THEN 1 ELSE Columns!ColumnAdvance(w, c), 0, s)
      bodies(f) == Mapped(Columns!Records(f, Newline), LAMBDA l : Columns!Body(l, Newline))
      fits(line) ==
        LET out == Columns!WrapLine(o, line)
        IN /\ FlattenSeq(out) = line
           /\ \A k \in DOMAIN out : Len(out[k]) > 1 /\ width(Front(out[k])) > 0 => width(out[k]) <= o.w
           /\ o.s => \A k \in 1 .. Len(out) - 1 :
                (\E i \in DOMAIN out[k] : IsBlank(out[k][i])) => IsBlank(Last(out[k]))
  IN r /= Columns!Refused /\ (o.b \/ Columns!Invalid \notin Range(text)) =>
       /\ SelectSeq(r.out, LAMBDA c : c /= Newline) = SelectSeq(text, LAMBDA c : c /= Newline)
       /\ (r.status = 0) = (Columns!Missing \notin Range(input))
       /\ \A f \in Range(Columns!There(input)) : \A line \in Range(bodies(f)) : fits(line)

(* head and tail of the same count share the lines between them: tail -n +N *)
(* is what head -n N-1 leaves, tail -n N the last N, through a ring that    *)
(* has wrapped around or not; tail -c N whatever pieces the reads return.   *)
EndsLaw ==
  LET o == Streams!TailOptions(args)
      counted(n) == <<O(IF o.bytes THEN "c" ELSE "n", HowMany("", n, "one"))>>
      t == Streams!TailFiles(args, input)
      there == Streams!There(input)
      parts(text) == IF o.bytes THEN Mapped(text, LAMBDA c : <<c>>) ELSE Streams!Records(text, Newline)
      few(n, m) == IF n < m THEN n ELSE m
  IN /\ t.status = 1 <=> o.bad \/ there /= input \/ (o.f /\ Len(input) > 1)
     /\ t.out /= <<>> => \A k \in DOMAIN there :
          LET all == parts(there[k])
              head(n) == Streams!HeadFiles(counted(n), input).out[k].text
          IN /\ o.plus /\ o.n > 0 => head(o.n - 1) \o t.out[k].text = there[k]
             /\ ~ o.plus => /\ t.out[k].text = FlattenSeq(Skip(all, Len(all) - few(o.n, Len(all))))
                            /\ head(Len(all) - few(o.n, Len(all))) \o t.out[k].text = there[k]
     /\ \A j, k \in DOMAIN t.out : j < k /\ t.out[k].name /= <<>> => t.out[k].blank /\ t.out[j].name[1] < t.out[k].name[1]
LastBytesLaw ==
  LET all == FlattenSeq(input)
  IN Streams!LastBytes(input, args) = Skip(all, IF Len(all) > args THEN Len(all) - args ELSE 0)

(* tac writes each record of a file once, and run again writes the file.   *)
TacLaw ==
  LET o == Options(Streams!TacOption, Streams!TacDefaults, args)
      r == Streams!Tac(args, input)
      sep == o.s.text
      records(f) == Streams!TacRecords(f, Streams!TacSeparators(o), o.b)
      whole(f) == ~ o.r /\ sep /= <<>> /\ (IF o.b THEN Take(f, 1) = sep ELSE Len(f) >= Len(sep) /\ records(f)[Len(records(f))] = <<>>)
  IN r.out /= <<>> =>
       /\ \A f \in Range(Streams!There(input)) : FlattenSeq(records(f)) = f
       /\ Len(r.out) = Len(FlattenSeq(Streams!There(input)))
       /\ Len(input) = 1 /\ whole(input[1]) => Streams!Tac(args, <<r.out>>).out = input[1]

(* cat numbers each line it numbers once and in order, over all its files,  *)
(* drops nothing but blank lines that follow a blank one, and with -b       *)
(* numbers exactly the lines with something on them.                        *)
CatLaw ==
  LET r == Streams!Cat(args, input)
      numbered == SelectSeq(r.out, LAMBDA l : l.number /= <<>>)
      bodies == FlattenSeq(Mapped(Streams!There(input), Streams!Lines))
  IN /\ r.status = 1 <=> Streams!Missing \in Range(input) \/ "v" \in args
     /\ \A k \in DOMAIN numbered : numbered[k].number = <<k>>
     /\ Len(numbered) = (IF "b" \in args THEN Len(SelectSeq(bodies, LAMBDA l : l /= <<>>)) ELSE IF "n" \in args THEN Len(r.out) ELSE 0)
     /\ args \cap {"s", "v"} = {} => Len(r.out) = Len(bodies)
     /\ "s" \in args => \A k \in 1 .. Len(r.out) - 1 : r.out[k].body /= <<>> \/ r.out[k + 1].body /= <<>>

NlLaw ==
  LET o == Options(Streams!NlOption, Streams!NlDefaults, args)
      r == Streams!Nl(args, input)
      numbered == SelectSeq(r.out, LAMBDA l : l.number /= <<>>)
  IN ~ o.bad =>
     /\ [k \in DOMAIN r.out |-> r.out[k].body] = FlattenSeq(Mapped(Streams!There(input), Streams!ScannedLines))
     /\ \A k \in DOMAIN numbered : numbered[k].number = <<o.start + (k - 1) * o.step>>
     /\ o.style = "a" /\ o.l = 2 =>
          \A k \in 1 .. Len(r.out) - 1 : r.out[k].body = <<>> /\ r.out[k + 1].body = <<>> => r.out[k].number = <<>> \/ r.out[k + 1].number = <<>>

(* The counts of wc's files add up to its total, and the words are those    *)
(* between white space.                                                     *)
WcLaw ==
  LET r == Streams!Wc({"l", "w", "c", "m"}, input)
      shown == Streams!Wc(args, input)
      there == Streams!There(input)
      n == Len(there)
      few(m) == IF args \subseteq {"l", "w", "c", "m"} THEN m ELSE 0
  IN /\ \A k \in 1 .. n : r.out[k] = [l |-> Count(there[k], Newline), m |-> Len(there[k]),
                                      c |-> FoldLeft(LAMBDA s, x : s + Streams!RuneSize(x), 0, there[k]),
                                      w |-> Len(SelectSeq(Pieces(there[k], Streams!IsSpace), LAMBDA w : w /= <<>>))]
     /\ Len(shown.out) = few(IF Len(input) > 1 THEN n + 1 ELSE n)
     /\ \A k \in DOMAIN shown.out : \A x \in DOMAIN shown.out[k] : shown.out[k][x] = r.out[k][x]
     /\ Len(input) > 1 => \A x \in {"l", "w", "c", "m"} : r.out[n + 1][x] = FoldLeft(LAMBDA s, k : s + r.out[k][x], 0, Between(1, n))

(* Every line of every file is in its row and column, in parallel or, with  *)
(* -s, in its turn.                                                         *)
PasteLaw ==
  LET o == Options(Streams!PasteOption, Streams!PasteDefaults, args)
      r == Streams!Paste(args, input)
      end == IF o.z THEN 0 ELSE Newline
      lines(f) == Mapped(Streams!Records(f, end), LAMBDA l : Streams!Body(l, end))
      cells(row) == Pieces(row, LAMBDA c : c \in {one, two})
  IN r.status = 0 =>
       \A i \in DOMAIN input : \A n \in DOMAIN lines(input[i]) :
         LET line == lines(input[i])[n]
         IN IF o.s THEN cells(r.out[i])[n] = line ELSE cells(r.out[n])[i] = line

(* An output of tee that never fails gets everything, unless another one's  *)
(* failure ends the command; a failure that is not ignored is in the status.*)
TeeLaw ==
  LET o == Options(Streams!TeeOption, Streams!TeeDefaults, args[1])
      outputs == args[2]
      t == Streams!Tee(args[1], outputs, input)
      bad == {i \in DOMAIN outputs : outputs[i].opens /\ outputs[i].fails <= Len(input) /\ Streams!TeeFatal(o.mode, outputs[i].pipe)}
      before(i) == IF i = 1 \/ ~ (o.append \/ o.bad \/ ~ outputs[i].opens) THEN <<>> ELSE outputs[i].had
  IN /\ t.status = 1 <=> o.bad \/ bad /= {} \/ \E i \in DOMAIN outputs : ~ outputs[i].opens
     /\ \A i \in DOMAIN outputs : Take(t.got[i], Len(before(i))) = before(i)
     /\ \A i \in DOMAIN outputs : ~ o.bad /\ outputs[i].opens /\ outputs[i].fails = 9 /\ (bad = {} \/ ~ Streams!TeeExits(o.mode)) =>
          t.got[i] = before(i) \o FlattenSeq(input)

(* The pieces of split put together are its input, no piece but the last of *)
(* -b, -l is short, no piece of -C too long and none cut inside a line that *)
(* would have fitted; -n gives as many as asked, equal to within one byte.  *)
(* No two pieces have the same name, and the names sort as the pieces do.   *)
Before(x, y) ==
  x.name.wide < y.name.wide \/ (x.name.wide = y.name.wide /\ Compare(x.name.digits, y.name.digits) < 0)
SplitLaw ==
  LET o == Options(Streams!SplitOption, Streams!SplitDefaults, args)
      r == Streams!Split(args, 1, 0, input)
      data == Mapped(r.out, LAMBDA p : p.data)
      sizes == {Len(d) : d \in Range(data)}
  IN r.status = 0 /\ o.k = 0 =>
       /\ o.mode /= "r" => FlattenSeq(data) = input
       /\ \A i, j \in DOMAIN r.out : i < j => Before(r.out[i], r.out[j])
       /\ o.mode = "bytes" => \A i \in 1 .. Len(data) - 1 : Len(data[i]) = o.size
       /\ o.mode = "lines" => \A i \in 1 .. Len(data) - 1 : Count(data[i], o.sep) = o.size
       /\ o.mode = "linebytes" =>
            /\ \A i \in DOMAIN data : data[i] /= <<>> /\ Len(data[i]) <= o.size
            /\ \A i \in 1 .. Len(data) - 1 :
                 Last(data[i]) /= o.sep => o.sep \notin Range(data[i]) /\ Len(data[i]) = o.size
       /\ o.n > 0 /\ ~ o.e => Len(data) = o.n
       /\ o.mode = "chunks" /\ ~ o.e => \A m, n \in sizes : m - n <= 1
       /\ o.mode = "l" => \A i \in DOMAIN data : data[i] = <<>> \/ Last(data[i]) = o.sep \/ i = Len(data)
                                                 \/ FlattenSeq(Skip(data, i)) = <<>>

(* strings finds every string that is long enough, wherever it starts and   *)
(* however its characters lie, once, and says truly where it is.            *)
StringsLaw ==
  LET o == Options(Dumping!StringsOption, Dumping!StringsDefaults, args)
      r == Dumping!Strings(args, input)
      there == SelectSeq(input, LAMBDA f : f /= Dumping!MissingFile)
      ok(d, i) == i >= 1 /\ i + o.width - 1 <= Len(d) /\ Dumping!IsChar(o, d, i)
      heads(d) == {i \in DOMAIN d : ok(d, i) /\ ~ ok(d, i - o.width)}
      run(d, i) == Least({n \in DOMAIN d : ~ ok(d, i + n * o.width)})
      low(i) == Dumping!LowByte(o, i)
  IN r.out /= <<>> => \A k \in DOMAIN there :
       LET d == there[k].data
       IN /\ \A x \in Range(r.out[k]) : Len(x.text) >= o.minimum /\
               \A n \in DOMAIN x.text : x.text[n] = d[low(x.at + 1 + (n - 1) * o.width)]
          /\ ~ o.d => [n \in DOMAIN r.out[k] |-> <<r.out[k][n].at + 1, Len(r.out[k][n].text)>>]
                      = [n \in 1 .. Cardinality({i \in heads(d) : run(d, i) >= o.minimum}) |->
                           LET i == InOrder({x \in heads(d) : run(d, x) >= o.minimum}, 1, Len(d))[n] IN <<i, run(d, i)>>]

(* What base64 writes it reads back, wrapped or not, unless a character of   *)
(* it is lost, and no line of it is longer than asked.                      *)
Base64Law ==
  LET text == Dumping!CmdBase64(FALSE, args, <<input>>, <<>>).out
  IN /\ Dumping!CmdBase64(TRUE, 0, <<>>, text) = [status |-> 0, out |-> input]
     /\ \A k \in DOMAIN text : text[k] /= Dumping!LineEnd =>
          Dumping!CmdBase64(TRUE, 0, <<Take(text, k - 1) \o Skip(text, k)>>, <<>>).status = 1
     /\ args > 0 => \A l \in Range(Pieces(text, LAMBDA c : c = Dumping!LineEnd)) : Len(l) <= args
     /\ Len(SelectSeq(text, LAMBDA c : c /= Dumping!LineEnd)) % 4 = 0

(* A text spelled in escapes, in as many digits as each byte needs or in    *)
(* all of them, is read back as itself: no escape takes what follows it.    *)
Octal(n, c) == SubSeq(<<48 + c \div 64, 48 + ((c \div 8) % 8), 48 + (c % 8)>>, 4 - n, 3)
HexDigit(n) == IF n < 10 THEN 48 + n ELSE 87 + n
SpellByte(style, c) ==
  IF style /= "short" /\ c = one THEN <<c>>
  ELSE <<Dumping!Backslash>> \o
  (IF style = "hex" THEN <<120, HexDigit(c \div 16), HexDigit(c % 16)>>
   ELSE Octal(IF style = "octal" \/ c > 63 THEN 3 ELSE IF c > 7 THEN 2 ELSE 1, c))
SpellLaw ==
  Dumping!DecodeEscapes(FlattenSeq(Mapped(input, LAMBDA c : SpellByte(args, c))), TRUE) = input

(* printf gives each operand to one conversion, in order, repeats its       *)
(* format until none is left and once if there is none; a conversion        *)
(* without one prints nothing or zero, and an operand that is no number is  *)
(* in the status.  args are the pieces the format was put together from.    *)
PrintfLaw ==
  LET r == Dumping!Printf(<<FlattenSeq(Mapped(args, Spelled))>> \o input)
      conv(i) == args[i] \notin {"%%", "n"}
      convs == SelectSeq(args, LAMBDA p : p \notin {"%%", "n"})
      k == Len(convs)
      passes == IF input = <<>> \/ k = 0 THEN 1 ELSE (Len(input) + k - 1) \div k
      operand(p, i) == LET n == (p - 1) * k + Cardinality({j \in 1 .. i : conv(j)}) IN IF n <= Len(input) THEN input[n] ELSE <<>>
      written(piece, v) ==
        CASE piece = "%%" -> <<37>> [] piece = "n" -> <<Newline>> [] piece = "%s" -> v [] piece = "%c" -> Take(v, 1)
          [] piece = "%d" -> <<IF v /= <<>> /\ v[1] = one THEN one ELSE 48>>
          [] piece = "%-3.1s" -> Take(v, 1) \o [n \in 1 .. 3 - Len(Take(v, 1)) |-> Space]
      shown(p) == FlattenSeq([i \in DOMAIN args |-> written(args[i], operand(p, i))])
      numeric == {n \in DOMAIN input : k > 0 /\ n <= passes * k /\ convs[((n - 1) % k) + 1] = "%d"}
  IN IF Range(args) \cap {"%", "%2", "%q"} /= {} THEN r.status = 1
     ELSE /\ r.out = FlattenSeq([p \in 1 .. passes |-> shown(p)])
          /\ r.status = 1 <=> \E n \in numeric : input[n] /= <<one>>

(* A number written in any base, with any sign and blanks, is the number a  *)
(* conversion prints, modulo the word if it is not signed; one that a word  *)
(* does not hold, or that something follows, is reported.  Left out: what   *)
(* %u prints.  It is handed to fmt, which has no such verb, and the output  *)
(* is not the number but fmt's complaint about it (core_extra.go:105).      *)
NoSuchVerb == {117}
OperandLaw ==
  LET n == IF input.sign = "-" THEN - input.value ELSE input.value
      text == (CASE input.sign = "" -> <<Space>> [] input.sign = "+" -> <<43>> [] input.sign = "-" -> <<Minus>>)
              \o (CASE input.base = 8 -> <<48>> [] input.base = 10 -> <<>> [] input.base = 16 -> <<48, 88>>)
              \o Dumping!Numeral(input.value, input.base) \o input.tail
      r == Dumping!Printf(<<<<37, args>>, text>>)
      signed == args = 100 \/ input.sign /= ""
      held == IF signed THEN n \in - 32768 .. 32767 ELSE n \in 0 .. 65535
  IN /\ r.status = 0 <=> held /\ input.tail /= <<122>>
     /\ held /\ args \notin NoSuchVerb =>
                /\ args = 100 /\ n < 0 => Head(r.out) = Minus
                /\ Dumping!InBase(CASE args = 111 -> 8 [] args = 120 -> 16 [] OTHER -> 10, SelectSeq(r.out, LAMBDA c : c /= Minus))
                   = IF args = 100 THEN input.value ELSE n % 65536

(* seq counts from the first number by the step and does not pass the last, *)
(* which it prints if it gets there; with -w every line is as long as the   *)
(* others.                                                                  *)
SeqLaw ==
  LET flags == args[1]
      numbers == <<args[2], input[1], input[2]>>
      p == Dumping!SeqPrecision(Range(numbers))
      from == Dumping!Scaled(args[2], p)
      by == Dumping!Scaled(input[1], p)
      to == Dumping!Scaled(input[2], p)
      r == Dumping!CmdSeq(flags \o Mapped(numbers, LAMBDA x : [opt |-> "", number |-> x]))
      beyond(v) == IF by > 0 THEN v > to ELSE v < to
      n == Len(r.out)
  IN IF by = 0 THEN r.status = 1
     ELSE /\ r.status = 0 /\ (n = 0 <=> beyond(from))
          /\ \A k \in 1 .. n : r.out[k].value = from + (k - 1) * by /\ ~ beyond(r.out[k].value)
          /\ n > 0 => beyond(r.out[n].value + by)
          /\ flags = <<SeqWord("w")>> =>
               \A k \in 1 .. n : r.out[k].zeros + Dumping!SeqWidth(r.out[k].value, p)
                                  = r.out[1].zeros + Dumping!SeqWidth(from, p)

(* The lines a star stands for, put back from the addresses around it.      *)
Unsqueezed(out, perLine) ==
  FlattenSeq([k \in DOMAIN out |->
    IF out[k] /= Dumping!Star THEN <<out[k]>>
    ELSE LET from == out[k - 1].address
         IN [n \in 1 .. (out[k + 1].address - from - 1) \div perLine |-> [out[k - 1] EXCEPT !.address = from + n * perLine]]])

(* Star by star the addresses tell what was left out; the units of a format *)
(* are the bytes of the region in their order, and zeros that complete the  *)
(* last unit; and no format's column is too narrow.  Left out: what is past *)
(* the region in the cases Overruns names.  -N or -n ends the region within *)
(* a unit and before the input does, and dumpWord, whose comment says that  *)
(* it extends the region with zeros, reads on (core_extra.go:950-959).      *)
Overruns(region, rest, size) == Len(region) < Len(rest) /\ Len(region) % size /= 0
DumpLaw(r, verbose, perLine, data, skip, limit, formats, big) ==
  LET rest == IF skip > Len(data) THEN <<>> ELSE Skip(data, skip)
      region == IF limit < 0 THEN rest ELSE Take(rest, limit)
      end == IF rest = <<>> THEN Last(r.out).address ELSE skip + Len(region)
      lines == SelectSeq(verbose.out, LAMBDA l : l.lines /= <<>>)
      units(i) == FlattenSeq(Mapped(lines, LAMBDA l : l.lines[i].fields))
      bytes(i) == FlattenSeq(Mapped(units(i), LAMBDA u : IF big THEN u ELSE Reverse(u)))
  IN /\ Last(verbose.out).lines = <<>> => Unsqueezed(r.out, perLine) = verbose.out /\ Last(r.out).address = end
     /\ \A k \in DOMAIN lines : lines[k].address \in {skip + (k - 1) * perLine, Dumping!NoAddress}
     /\ \A i \in DOMAIN formats : formats[i].kind \notin {"a", "d", "brain"} /\ perLine % formats[i].size = 0 =>
          /\ Take(bytes(i), Len(region)) = region
          /\ Len(bytes(i)) - Len(region) \in 0 .. formats[i].size - 1
          /\ ~ Overruns(region, rest, formats[i].size) => Range(Skip(bytes(i), Len(region))) \subseteq {0}
     /\ \A k \in DOMAIN lines : \A i \in DOMAIN formats : lines[k].lines[i].column >= formats[i].width

OdLaw ==
  LET o == Options(Dumping!OdOption, Dumping!OdDefaults, args)
      formats == IF o.formats = <<>> THEN Dumping!OdTypeSpec(<<Dumping!Traditional.o>>) ELSE o.formats
      r == Dumping!Od(args, input)
      v == Dumping!Od(Append(args, F("v")), input)
  IN r.status = 0 => /\ o.A = "n" \/ Last(r.out).lines = <<>>
                     /\ v.out /= <<>> => DumpLaw(r, v, o.w, FlattenSeq(input), o.j, o.N, formats, o.big)
HexdumpLaw ==
  LET o == Options(Dumping!HexdumpOption, Dumping!HexdumpDefaults, args)
      r == Dumping!Hexdump(args, input, 2)
      v == Dumping!Hexdump(Append(args, F("v")), input, 2)
  IN r.status = 0 /\ v.out /= <<>> =>
       DumpLaw(r, v, 2, FlattenSeq(input), o.s, o.n, <<IF o.mode = "C" THEN Dumping!Canonical ELSE Dumping!HexdumpFormat(o.mode)>>, FALSE)

(* What the tools that cut a stream into lines, columns, pieces or units    *)
(* write is what they read, cut where their options say: put together, or   *)
(* read back, it is the input again, whatever lies across a boundary.       *)
ColumnsAndStreams ==
  [][given => CASE tool = "cut" -> CutLaw
               [] tool = "tr" -> TrLaw
               [] tool = "tabs" -> TabsLaw
               [] tool = "fold" -> FoldLaw
               [] tool = "head" -> EndsLaw
               [] tool = "tailc" -> LastBytesLaw
               [] tool = "tac" -> TacLaw
               [] tool = "cat" -> CatLaw
               [] tool = "nl" -> NlLaw
               [] tool = "wc" -> WcLaw
               [] tool = "paste" -> PasteLaw
               [] tool = "tee" -> TeeLaw
               [] tool = "split" -> SplitLaw
               [] tool = "strings" -> StringsLaw
               [] tool = "od" -> OdLaw
               [] tool = "hexdump" -> HexdumpLaw
               [] tool = "base64" -> Base64Law
               [] tool = "spell" -> SpellLaw
               [] tool = "printf" -> PrintfLaw
               [] tool = "operand" -> OperandLaw
               [] tool = "seq" -> SeqLaw
               [] OTHER -> TRUE]_vars

(* find, test and expr give their expression the meaning its operators     *)
(* have, and find walks where it may and nowhere else; a pattern of -name  *)
(* matches what it stands for: the descent parsers, the short circuits and *)
(* the state -prune and -delete leave behind between two visits.           *)
Answers == [][given => ScriptCases!QueryLaw(tool, args, input)]_vars

(* grep and sed select the lines their patterns, addresses and ranges mean, *)
(* whatever came before on the stream, and print each as often, in that     *)
(* order and with that context; sed -i replaces a file by what sed prints.  *)
Lines == [][given => ScriptCases!LineLaw(tool, args, input)]_vars

(* A script does what its text says: sh parses what is written and nothing  *)
(* else, && and || decide from the left, break and continue end with their  *)
(* loop, and a variable has one value, in the shell and in what it exports. *)
Scripts == [][given => ScriptCases!ScriptLaw(tool, args, input)]_vars

(* A string literal such as "-" is never mistaken for an operator (the    *)
(* comment on awk's take, which parseAdd and parseMultiply do not use):    *)
(* between two numbers it is text.                                        *)
LiteralsAreText ==
  [][given /\ tool = "awkliteral" => ScriptCases!LiteralIsText(input[1], args, input[2])]_vars

(* What a command puts into a table or a tree of the system is what its      *)
(* options say, is found again there, and nothing else is touched.         *)
Systems == [][given => SystemCases!SystemLaw(tool, args, input) /\ SystemCases!ArchiveLaw(tool, args, input)]_vars

(* ---------------------------------- run ----------------------------------- *)
(* A theme gives the kind of one of its tools when it is asked for it.      *)
KindOf(t) == SortKinds(t) \cup ColumnKinds(t) \cup ScriptCases!QueryKinds(t) \cup ScriptCases!LineKinds(t) \cup ScriptCases!ScriptKinds(t) \cup SystemCases!SystemKinds(t) \cup SystemCases!ArchiveKinds(t)
Kinds(t) == CHOOSE k \in KindOf(t) : TRUE
Init ==
  /\ tool \in Tools /\ args \in Kinds(tool).args
  /\ input = <<>> /\ given = FALSE
Give == ~ given /\ given' = TRUE /\ input' \in Kinds(tool).inputs /\ UNCHANGED <<tool, args>>
Done == given /\ given' = FALSE /\ input' = <<>> /\ UNCHANGED <<tool, args>>
Next == Give \/ Done
Spec == Init /\ [][Next]_vars
=============================================================================
