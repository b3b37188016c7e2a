------------------------------ MODULE MCScripts ------------------------------
(* The cases of grep, sed, the shell, awk, find, test and expr, and what is  *)
(* checked of each.                                                        *)
EXTENDS Text

(* ------------------------------ grep and sed ------------------------------ *)
G == INSTANCE Grep

LineOf == {<<97>>, <<98>>, <<97, 98>>}
UpToLines(n) == UNION {[1 .. k -> LineOf] : k \in 0 .. n}
Op1(n, arg) == [opt |-> n, arg |-> arg]
On(n) == Op1(n, TRUE)
Pat(text) == [text |-> text, start |-> FALSE]
PatA == Op1("e", <<Pat(<<97>>)>>)
Given(id) == Op1("operand", [pattern |-> Pat(<<97>>), file |-> id])
GrepArgs ==
  {<<PatA>> \o x : x \in {<<>>, <<On("v")>>, <<On("x")>>, <<On("w"), On("o")>>, <<On("c"), On("v")>>, <<On("l")>>, <<On("L")>>,
     <<On("q")>>, <<Op1("A", 1)>>, <<Op1("B", 1)>>, <<Op1("C", 1), Op1("m", 1)>>, <<Op1("B", 2), On("v")>>,
     <<Op1("A", 1), Op1("m", 2)>>, <<Op1("C", 1), Op1("separator", FALSE)>>, <<Op1("m", 0), On("c")>>, <<On("o")>>,
     <<Op1("A", -1)>>, <<Op1("C", 0)>>}}
  \cup {<<Op1("e", <<Pat(<<>>)>>), On("o")>>, <<Op1("e", <<Pat(<<65>>), Pat(<<97, 98>>)>>), On("i"), On("o")>>, <<On("n"), Given(0)>>, <<Op1("d", "seek"), PatA>>,
        <<Op1("f", <<>>), PatA>>, <<On("F"), Op1("e", <<[text |-> <<97>>, start |-> TRUE]>>)>>,
        <<Op1("e", <<[text |-> <<98>>, start |-> TRUE]>>)>>}
File2(lines, nul) == [name |-> "f", kind |-> "file", lines |-> lines, nul |-> nul, breaks |-> FALSE, kids |-> <<>>, follow |-> 0]
Second == [File2(<<(<<98>>), (<<97>>)>>, FALSE) EXCEPT !.name = "g"]

(* grep prints of each file the first -m lines it selects and the context   *)
(* around them, each line once and in order, with a separator exactly where *)
(* lines are left out; its count and its status agree with that.           *)
Sel(o, f) ==
  LET all == InOrder({n \in DOMAIN f.lines : G!Selected(o, f.lines[n])}, 1, Len(f.lines))
  IN IF o.max >= 0 THEN Take(all, o.max) ELSE all
Around(o, f) ==
  LET s == Sel(o, f) IN {n \in DOMAIN f.lines : \E k \in Range(s) : n >= k - o.before /\ n <= k + o.after}
WhatOf(r, file, kinds) == SelectSeq(r.out, LAMBDA x : x.kind \in kinds /\ (x.kind = "--" \/ x.file = file))
GrepLaw(options, fs) ==
  LET args == options \o <<Given(1), Given(2)>>
      o == G!GrepPlan(args)
      r == G!Grep(args, fs)
      plain == o.flags \cap {"c", "l", "L", "q", "o"} = {}
      printed(f) == WhatOf(r, f.name, {":", "-"})
      some == \E i \in {1, 2} : Sel(o, fs[i]) /= <<>>
      refused == \E k \in DOMAIN options : options[k] \in {Op1("A", -1), Op1("d", "seek"), Op1("f", <<>>)}
  IN IF refused THEN r = [out |-> <<>>, status |-> 2] ELSE
       /\ o.files = <<1, 2>> /\ r.status = IF some THEN 0 ELSE 1
       /\ plain => \A i \in {1, 2} :
            LET f == fs[i]
                lines == InOrder(Around(o, f), 1, Len(f.lines))
            IN IF f.nul THEN printed(f) = <<>>
               ELSE /\ [k \in DOMAIN printed(f) |-> printed(f)[k].n] = lines
                    /\ \A k \in DOMAIN printed(f) :
                         /\ printed(f)[k].text = f.lines[printed(f)[k].n]
                         /\ printed(f)[k].kind = (IF printed(f)[k].n \in Range(Sel(o, f)) THEN ":" ELSE "-")
       /\ plain /\ o.context /\ o.sep =>
            \A k \in 1 .. Len(r.out) - 1 :
              r.out[k].kind /= "--" /\ r.out[k + 1].kind /= "--" =>
                r.out[k].file = r.out[k + 1].file /\ r.out[k + 1].n = r.out[k].n + 1
       /\ plain => \A k \in DOMAIN r.out :
            r.out[k].kind = "--" => /\ o.context /\ k > 1 /\ k < Len(r.out)
                                    /\ r.out[k - 1].file = r.out[k + 1].file => r.out[k + 1].n > r.out[k - 1].n + 1
       /\ G!Has(o, "c") => [i \in {1, 2} |-> WhatOf(r, fs[i].name, {"count"})[1].n] = [i \in {1, 2} |-> Len(Sel(o, fs[i]))]
       /\ G!Has(o, "l") => \A i \in {1, 2} : WhatOf(r, fs[i].name, {"name"}) /= <<>> <=> Sel(o, fs[i]) /= <<>>
       /\ G!Has(o, "L") => \A i \in {1, 2} : WhatOf(r, fs[i].name, {"name"}) /= <<>> <=> Sel(o, fs[i]) = <<>>
       /\ G!Has(o, "o") => \A x \in Range(r.out) : x.text /= <<>> /\ \E p \in Range(o.patterns) : Len(p.text) = Len(x.text)

(* Down a tree grep looks into every file that is not left out by its name, *)
(* its kind or the directory it is in, links with -R only, until -q has its *)
(* answer; a file that cannot be read is in the status unless a line was    *)
(* selected.                                                               *)
GNode(name, kind, kids) == [name |-> name, kind |-> kind, lines |-> <<(<<97>>)>>, nul |-> FALSE, breaks |-> FALSE, kids |-> kids, follow |-> 0]
GTree ==
  <<GNode("top", "dir", <<2, 3, 4, 5>>), GNode("a.c", "file", <<>>), GNode("sub", "dir", <<6, 7>>),
    [GNode("ln", "link", <<>>) EXCEPT !.follow = 6], GNode("fifo", "device", <<>>), GNode("b.h", "file", <<>>),
    GNode("shut", "unreadable", <<>>), [GNode("lost", "link", <<>>) EXCEPT !.follow = 0],
    GNode("-", "stdin", <<>>), [GNode("torn", "file", <<>>) EXCEPT !.lines = <<(<<98>>)>>, !.breaks = TRUE], GNode("locked", "closed", <<>>)>>
TreeArgs ==
  {<<PatA, On("l")>> \o x : x \in UNION {[1 .. k -> {On("r"), On("R"), Op1("D", "skip"), Op1("include", "a.c"), Op1("exclude", "b.h"),
     Op1("exclude-dir", "sub"), Op1("d", "skip"), Op1("d", "recurse")}] : k \in 0 .. 2}}
TreeLaw(options, root) ==
  LET args == options \o (IF root = -1 THEN <<>> ELSE <<Given(root)>>)
      o == G!GrepPlan(args)
      r == G!Grep(args, GTree)
      named == {x.file : x \in Range(r.out)}
      open == "sub" \notin o.excludeDirs
      wanted(name) == (o.includes = {} \/ name \in o.includes) /\ name \notin o.excludes
      here == {n \in {"a.c"} : wanted(n)} \cup {n \in {"fifo"} : wanted(n) /\ o.devices /= "skip"}
                \cup {n \in {"ln"} : wanted(n) /\ G!Has(o, "R")} \cup {n \in {"b.h"} : wanted(n) /\ open}
      top == root = 1 \/ (root = -1 /\ G!Has(o, "r"))
  IN IF top /\ G!Has(o, "r") THEN named = here
     ELSE IF top THEN named = {} /\ r.status = (IF o.dirs = "skip" THEN 1 ELSE 2)
     ELSE IF root = 11 THEN named = {} /\ r.status = (IF o.dirs = "skip" /\ ~ G!Has(o, "r") THEN 1 ELSE 2)
     ELSE r.status = (IF root \in {0, 7, 8, 10} THEN 2 ELSE IF root = 5 /\ o.devices = "skip" THEN 1 ELSE 0)

(* ---------------------------------- sed ---------------------------------- *)
Sd == INSTANCE Sed
Cmd(k) == [kind |-> k, first |-> Sd!None, second |-> Sd!None, negated |-> FALSE, label |-> ""]
At(a, c) == [c EXCEPT !.first = a]
From(a, z, c) == [c EXCEPT !.first = a, !.second = z]
Not(c) == [c EXCEPT !.negated = TRUE]
To(k, label) == [Cmd(k) EXCEPT !.label = label]
Quitting(k, code) == Cmd(k) @@ [code |-> code]
Subst(text, new, flags) == Cmd("s") @@ [regex |-> Sd!Regex(text, FALSE), new |-> Sd!Replacement(new), flags |-> flags]
Global == [flag |-> "g", n |-> 0]
Nth(k) == [flag |-> "number", n |-> k]
Saying(k, text) == Cmd(k) @@ [text |-> text]
Naming(k, file) == Cmd(k) @@ [file |-> file]
InA == Sd!Regex(<<97>>, FALSE)
StartB == Sd!Regex(<<98>>, TRUE)
Ends == {Sd!Line(1), Sd!Line(2), Sd!Line(4), Sd!LastLine, InA, StartB, Sd!NumberAddress(0, TRUE, 2), Sd!NumberAddress(2, TRUE, 3)}
Ranges == [first : Ends, second : Ends \cup {Sd!None}, negated : BOOLEAN]
Xx == 120
Programs ==
  [tac |-> <<Not(At(Sd!Line(1), Cmd("G"))), Cmd("h"), Not(At(Sd!LastLine, Cmd("d")))>>,
   pairs |-> <<Not(At(Sd!LastLine, Cmd("N"))), Cmd("P"), Cmd("D")>>,
   odd |-> <<Cmd("n"), Cmd("d")>>,
   join |-> <<To(":", "a"), Cmd("N"), Not(At(Sd!LastLine, To("b", "a"))), Subst(<<Newline>>, <<Xx>>, <<Global>>)>>,
   loop |-> <<To(":", "a"), Subst(<<97, 97>>, <<97>>, <<>>), To("t", "a")>>,
   block |-> <<At(InA, Cmd("{")), Subst(<<98>>, <<38, Xx>>, <<>>), To("T", ""), Saying("i", <<Xx>>), Cmd("}"), Saying("a", <<Xx, Xx>>)>>,
   copies |-> <<Cmd("H"), Cmd("x"), Cmd("x"), Naming("w", "out"), Naming("R", "g")>>,
   quit |-> <<At(Sd!Line(2), Quitting("q", 5))>>,
   kept |-> <<At(Sd!Line(1), Cmd("d"))>>,
   reread |-> <<Naming("w", "out"), Naming("r", "out"), Naming("R", "out")>>,
   sealed |-> <<Cmd("p"), Naming("w", "dir")>>,
   unnamed |-> <<Naming("w", "")>>, unknown |-> <<Cmd("k")>>,
   unclosed |-> <<Cmd("{")>>, lost |-> <<To("b", "a")>>,
   addressed |-> <<Cmd("{"), At(Sd!Line(1), Cmd("}"))>>]
SedOpts(x) == [k \in DOMAIN x |-> Op1(x[k], "")]
SedFiles == {<<>>} \cup UNION {[1 .. k -> {97, 98, Newline}] : k \in 1 .. 5}
TextOfFiles(f) == ("f" :> f) @@ ("g" :> <<98, Newline, 97>>) @@ ("out" :> Sd!Missing) @@ ("gone" :> Sd!Missing)
                  @@ ("dir" :> Sd!Sealed) @@ ("f.old" :> <<97>>) @@ ("gdir" :> Sd!Sealed)
LinesOf(s) == LET p == Pieces(s, LAMBDA c : c = Newline) IN IF p[Len(p)] = <<>> THEN Front(p) ELSE p
Ended(lines) == FlattenSeq([k \in DOMAIN lines |-> Append(lines[k], Newline)])
Closed(s) == s = <<>> \/ s[Len(s)] = Newline
Holds(a, lines, n) ==
  CASE a.kind = "line" -> n = a.line
    [] a.kind = "step" -> n >= a.line /\ (n - a.line) % a.step = 0
    [] a.kind = "last" -> n = Len(lines)
    [] a.kind = "regex" -> IF a.start THEN lines[n] /= <<>> /\ lines[n][1] = a.text[1] ELSE a.text[1] \in Range(lines[n])
    [] a.kind = "none" -> TRUE
(* The lines of a range, interval by interval.                              *)
RECURSIVE Inside(_, _, _)
Inside(r, lines, from) ==
  LET starts == {n \in from .. Len(lines) : Holds(r.first, lines, n)}
      s == Least(starts)
      closing == CASE r.second.kind \in {"line", "step"} -> {n \in s .. Len(lines) : n >= r.second.line}
                   [] r.second.kind = "last" -> {Len(lines)}
                   [] r.second.kind = "none" -> {s}
                   [] r.second.kind = "regex" -> {n \in s + 1 .. Len(lines) : Holds(r.second, lines, n)}
      e == IF closing = {} THEN Len(lines) ELSE Least(closing)
  IN IF starts = {} THEN {} ELSE (s .. e) \cup Inside(r, lines, e + 1)

(* -n with an address prints the lines of its intervals, and with ! the     *)
(* others; without -n it prints those twice.                               *)
RangeLaw(r, f) ==
  LET lines == LinesOf(f)
      command == [Cmd("p") EXCEPT !.first = r.first, !.second = r.second, !.negated = r.negated]
      got == Sd!Sed(SedOpts(<<"n">>), <<command>>, TextOfFiles(f), <<"f">>)
      changed == Sd!Sed(<<>>, <<[command EXCEPT !.kind = "d"]>>, TextOfFiles(f), <<"f">>)
      kept == {n \in DOMAIN lines : (n \in Inside(r, lines, 1)) /= r.negated}
      texts(set) == [k \in 1 .. Cardinality(set) |-> lines[InOrder(set, 1, Len(lines))[k]]]
  IN Closed(f) => /\ got.out = Ended(texts(kept)) /\ got.status = 0
                  /\ changed.out = Ended(texts(DOMAIN lines \ kept))

(* What well-known scripts are for.                                         *)
ProgramLaw(name, f) ==
  LET lines == LinesOf(f)
      run(args, files) == Sd!Sed(SedOpts(args), Programs[name], TextOfFiles(f), files)
      r == run(<<>>, <<"f">>)
      inPlace == run(<<"i">>, <<"f", "gone", "g">>)
      both == run(<<"s">>, <<"f", "g">>)
      saving(suffix, name1) == Sd!Sed(<<Op1("in-place", suffix)>>, Programs[name], TextOfFiles(f), <<name1>>)
      few == Len(LinesOf(f)) < 2
      queued(n) == IF n > 2 THEN <<>> ELSE <<<<98>>, <<97>>>>[n]
  IN Closed(f) =>
     CASE name = "tac" -> r.out = Ended(Reverse(lines))
       [] name = "pairs" -> r.out = f
       [] name = "odd" -> r.out = Ended([k \in 1 .. (Len(lines) + 1) \div 2 |-> lines[2 * k - 1]])
       [] name = "join" -> lines /= <<>> => r.out = Append(Joined(lines, <<Xx>>), Newline)
       [] name = "loop" -> \A n \in DOMAIN LinesOf(r.out) : ~ \E k \in 1 .. Len(LinesOf(r.out)[n]) - 1 :
                             SubSeq(LinesOf(r.out)[n], k, k + 1) = <<97, 97>>
       [] name = "block" -> /\ Len(LinesOf(r.out)) = 2 * Len(lines) + 2 * Cardinality({n \in DOMAIN lines : {97, 98} \subseteq Range(lines[n])})
                                                    - Cardinality({n \in DOMAIN lines : 97 \in Range(lines[n])})
                            /\ \A n \in DOMAIN LinesOf(r.out) : Xx \in Range(LinesOf(r.out)[n]) \/ LinesOf(r.out)[n] \in Range(lines)
       [] name = "copies" -> /\ r.fs["out"] = (IF lines = <<>> THEN Sd!Missing ELSE f)
                             /\ r.out = Ended(FlattenSeq([n \in DOMAIN lines |-> <<lines[n]>> \o (IF n > 2 THEN <<>> ELSE <<queued(n)>>)]))
       [] name = "quit" -> /\ r.out = Ended(Take(lines, 2)) /\ r.status = (IF few THEN 0 ELSE 5)
                           /\ inPlace.fs["f"] = r.out /\ inPlace.status /= 0 /\ inPlace.out = <<>>
                           /\ both.out = r.out \o <<98, Newline, 97>>
       [] name = "kept" -> LET old == saving(<<".old">>, "f") undone == saving(<<"*", "dir">>, "g")
                           IN /\ old.fs["f.old"] = f /\ old.fs["f"] = Ended(Skip(lines, 1)) /\ old.status = 0
                              /\ undone.fs = TextOfFiles(f) /\ undone.status = 1
       [] name = "reread" -> /\ r.fs["out"] = (IF lines = <<>> THEN Sd!Missing ELSE f)
                             /\ r.out = Ended(FlattenSeq([n \in DOMAIN lines |-> <<lines[n], <<>>>>]))
       [] name = "sealed" -> /\ r.status = (IF lines = <<>> THEN 0 ELSE 1) /\ r.out = Ended(Take(lines, 1))
                             /\ inPlace.fs["f"] = f /\ run(<<>>, <<"g", "dir">>).status = 1
       [] OTHER -> r.status = 1 /\ r.out = <<>> /\ inPlace.fs = TextOfFiles(f)

(* s///N acts on the N-th of the matches, with g on it and the later ones,  *)
(* y on every character; the escapes of l can be read back.                 *)
SubstLaw(flags, f) ==
  LET run(c) == Sd!Sed(<<>>, <<c>>, TextOfFiles(f), <<"f">>).out
      first == Least({k \in 1 .. 9 : Nth(k) \in Range(flags)} \cup {9}) % 9
      least == IF first = 0 THEN 1 ELSE first
      line(k) == {j \in 1 .. k : \A i \in j .. k : f[i] /= Newline}
      count(k) == Cardinality({j \in line(k) : f[j] = 97})
      hit(k) == f[k] = 97 /\ (count(k) = least \/ (Global \in Range(flags) /\ count(k) > least))
  IN /\ run(Subst(<<97>>, <<Xx>>, flags)) = [k \in DOMAIN f |-> IF hit(k) THEN Xx ELSE f[k]]
     /\ run(Cmd("y") @@ [from |-> <<97, 98>>, to |-> <<98, 97>>]) = [k \in DOMAIN f |-> IF f[k] = 97 THEN 98 ELSE IF f[k] = 98 THEN 97 ELSE f[k]]

LineKinds(t) ==
  CASE t = "grep" -> {[args |-> GrepArgs, inputs |-> {<<File2(l, z), Second>> : l \in UpToLines(4), z \in BOOLEAN}]}
    [] t = "greptree" -> {[args |-> TreeArgs, inputs |-> {-1, 0, 1, 2, 4, 5, 7, 8, 9, 10, 11}]}
    [] t = "range" -> {[args |-> Ranges, inputs |-> {FlattenSeq([k \in DOMAIN l |-> Append(l[k], Newline)]) : l \in UpToLines(5)}]}
    [] t = "program" -> {[args |-> DOMAIN Programs, inputs |-> SedFiles \cup {<<97, Newline, 98, Newline, 97, 97, 98, Newline, 98, Newline>>}]}
    [] t = "subst" -> {[args |-> {<<>>, <<Global>>, <<Nth(2)>>, <<Nth(2), Global>>, <<[flag |-> "I", n |-> 0], Nth(3)>>}, inputs |-> SedFiles]}
    [] OTHER -> {}

LineLaw(tool, args, input) ==
  CASE tool = "grep" -> GrepLaw(args, input)
    [] tool = "greptree" -> TreeLaw(args, input)
    [] tool = "range" -> RangeLaw(args, input)
    [] tool = "program" -> ProgramLaw(args, input)
    [] tool = "subst" -> SubstLaw(args, input)
    [] OTHER -> TRUE

(* --------------------------- the shell and awk ---------------------------- *)
Sh == INSTANCE Shell
Aw == INSTANCE Awk

Text1(s) == [kind |-> "text", text |-> s]
Var(n) == [kind |-> "var", name |-> n]
WordOf(text, parts) == [op |-> FALSE, text |-> text, prefix |-> <<>>, parts |-> parts, quoted |-> FALSE, assigns |-> ""]
W(text) == WordOf(text, <<Text1(<<98>>)>>)
Op(text) == [op |-> TRUE, text |-> text]
Assign(name, parts) == [WordOf("assignment", parts) EXCEPT !.assigns = name, !.prefix = <<120, 61>>]
Run1(name) == <<W(name)>>
Piped(name, other) == <<W(name), Op("|"), W(other)>>

(* Statements, as the parser makes them, and their tokens again.           *)
Simple == {Sh!Pipeline(Run1("true")), Sh!Pipeline(Run1("false")), Sh!Pipeline(Piped("three", "true"))}
Steer == {Sh!Pipeline(Run1("break")), Sh!Pipeline(Run1("continue"))}
Guards == {"", "&&", "||"}
Lists(S, n) == UNION {[1 .. k -> S] : k \in 1 .. n}
Guarded(l) == {[k \in DOMAIN l |-> [l[k] EXCEPT !.guard = g[k]]] : g \in {h \in [DOMAIN l -> Guards] : h[1] = ""}}
GuardedLists(S, n) == UNION {Guarded(l) : l \in Lists(S, n)}
If(cond, body, other) == [kind |-> "if", guard |-> "", clauses |-> <<[cond |-> cond, body |-> body]>>, elseBody |-> other]
Elif(s, cond, body) == [s EXCEPT !.clauses = Append(@, [cond |-> cond, body |-> body])]
For(n, body) == [kind |-> "for", guard |-> "", var |-> "x", list |-> [k \in 1 .. n |-> W("v")], body |-> body]
WhileLoop(cond, body) == [kind |-> "while", guard |-> "", cond |-> cond, body |-> body]
True1 == <<Sh!Pipeline(Run1("true"))>>
Bodies(S) == Lists(S, 2)
Compound(S) ==
  {If(c, b, e) : c \in Lists(S, 1), b \in Lists(S, 1), e \in Lists(S, 1) \cup {<<>>}} \cup {For(n, b) : n \in 0 .. 2, b \in Bodies(S)}
  \cup {WhileLoop(c, b) : c \in Bodies(Simple), b \in Lists(S, 1)} \cup {Elif(If(c, c, <<>>), b, c) : c \in Lists(Simple, 1), b \in Lists(S, 1)}
Nested == Compound(Simple \cup Steer \cup {For(2, b) : b \in Lists(Simple \cup Steer, 1)} \cup {If(True1, b, <<>>) : b \in Lists(Steer, 1)})

RECURSIVE Printed(_), PrintedList(_)
Printed(s) ==
  CASE s.kind = "pipeline" -> s.tokens
    [] s.kind = "for" -> <<W("for"), W(s.var), W("in")>> \o s.list \o <<Op(";"), W("do")>> \o PrintedList(s.body) \o <<Op("nl"), W("done")>>
    [] s.kind = "while" -> <<W("while")>> \o PrintedList(s.cond) \o <<Op(";"), W("do")>> \o PrintedList(s.body) \o <<Op(";"), W("done")>>
    [] s.kind = "if" ->
         FlattenSeq([k \in DOMAIN s.clauses |-> <<W(IF k = 1 THEN "if" ELSE "elif")>> \o PrintedList(s.clauses[k].cond) \o <<Op(";"), W("then")>>
                                                \o PrintedList(s.clauses[k].body) \o <<Op(";")>>])
         \o (IF s.elseBody = <<>> THEN <<>> ELSE <<W("else")>> \o PrintedList(s.elseBody) \o <<Op(";")>>) \o <<W("fi")>>
PrintedList(l) ==
  FlattenSeq([k \in DOMAIN l |-> (IF k = 1 THEN <<>> ELSE <<Op(IF l[k].guard = "" THEN ";" ELSE l[k].guard)>>) \o Printed(l[k])])

Env == "PATH" :> <<98>>
Start(opts) == Sh!Fresh(opts, <<>>, Env, <<>>)
RunTokens(opts, tokens) == Sh!RunSource(Start(opts), tokens)
ScriptPrograms(r) == [k \in DOMAIN r.sh.ran |-> r.sh.ran[k].program]

(* A statement's tokens parse to that statement and to nothing more, and a  *)
(* word left over, or one that is missing, is an error that runs nothing.   *)
ParseLaw(s) ==
  LET t == Printed(s)
      p == Sh!Parse(t)
      cut == RunTokens({}, Front(t))
  IN /\ p.ok /\ p.value = <<s>>
     /\ s.kind /= "pipeline" => cut.status = 2 /\ cut.sh.ran = <<>> /\ RunTokens({}, Append(t, W("fi"))).status = 2

(* && and || decide from the left what runs, whatever stands before them.   *)
Means(s) == s.tokens[1].text = "true"
RECURSIVE Truth(_, _)
Truth(l, k) ==
  LET before == Truth(l, k - 1)
  IN CASE l[k].guard = "" -> Means(l[k]) [] l[k].guard = "&&" -> before /\ Means(l[k]) [] l[k].guard = "||" -> before \/ Means(l[k])
Skipped(l, k) == l[k].guard /= "" /\ Truth(l, k - 1) = (l[k].guard = "||")
GuardLaw(l) ==
  LET r == RunTokens({}, PrintedList(l))
      e == RunTokens({"e"}, PrintedList(l))
      quiet == RunTokens({"n"}, PrintedList(l))
      kept == InOrder({k \in DOMAIN l : ~ Skipped(l, k)}, 1, Len(l))
      ends(k) == k = Len(l) \/ l[k + 1].guard = ""
      fails == {k \in DOMAIN l : ends(k) /\ ~ Truth(l, k)}
  IN /\ ScriptPrograms(r) = FlattenSeq([k \in DOMAIN kept |-> [i \in 1 .. Len(Sh!Parts(l[kept[k]].tokens)) |-> Sh!Parts(l[kept[k]].tokens)[i][1].text]])
     /\ (r.status = 0) = Truth(l, Len(l)) /\ r.sh.status = r.status /\ ~ r.exit
     /\ quiet.sh.ran = <<>> /\ quiet.status = 0
     /\ \A k \in DOMAIN e.sh.ran : e.sh.ran[k] = r.sh.ran[k]
     /\ ~ e.exit => e.sh = [r.sh EXCEPT !.opts = {"e"}]

(* break and continue end with the loop they are in: a statement that loops *)
(* does what its body says as often as it may, and what follows it runs.    *)
RECURSIVE Steers(_)
Steers(l) == \E k \in DOMAIN l :
  CASE l[k].kind = "pipeline" -> l[k] \in Steer
    [] l[k].kind = "if" -> Steers(l[k].elseBody) \/ \E c \in Range(l[k].clauses) : Steers(c.cond) \/ Steers(c.body)
    [] OTHER -> FALSE
LoopLaw(s) ==
  LET r == RunTokens({}, Printed(s) \o <<Op(";"), W("three")>>)
      ran == Len(ScriptPrograms(r))
      inner == IF s.kind = "if" THEN <<s>> ELSE <<>>
  IN ~ Steers(inner) /\ (s.kind = "while" => ~ Steers(s.cond)) =>
       /\ ~ Sh!Held(r.sh) /\ ran > 0 /\ ScriptPrograms(r)[ran] = "three" /\ r.status = 3
       /\ s.kind = "for" /\ ~ Steers(s.body) =>
            ran - 1 = Len(s.list) * (Len(ScriptPrograms(RunTokens({}, PrintedList(s.body)))))
       /\ s.kind = "for" /\ s.body[1] = Sh!Pipeline(Run1("break")) => ran = 1

(* A variable has one value: what was given to it last; a program started   *)
(* sees the exported ones with that value, its own assignments, and no more. *)
Names1 == {"x", "PATH"}
VarOps == {[do |-> d, name |-> n, value |-> v] : d \in {"set", "exportset", "for"}, n \in Names1, v \in {<<97>>, <<98>>}}
          \cup {[do |-> d, name |-> n, value |-> <<>>] : d \in {"export", "unset", "read", "before"}, n \in Names1}
VarTokens(o) ==
  CASE o.do = "set" -> <<Assign(o.name, <<Text1(o.value)>>)>>
    [] o.do = "exportset" -> <<W("export"), Assign(o.name, <<Text1(o.value)>>)>>
    [] o.do = "export" -> <<W("export"), W(o.name)>>
    [] o.do = "unset" -> <<W("unset"), W(o.name)>>
    [] o.do = "read" -> <<W("read"), W(o.name), Op("<"), WordOf("f", <<Text1(<<102>>)>>)>>
    [] o.do = "before" -> <<Assign(o.name, <<Text1(<<99>>)>>), W("three")>>
    [] o.do = "for" -> <<W("for"), W(o.name), W("in"), WordOf("v", <<Text1(o.value)>>), Op(";"), W("do"), W(":"), Op(";"), W("done")>>
FileF == <<102>> :> <<97, 98, Newline, 97>>
ValueOf(o) == IF o.do = "read" THEN <<97, 98>> ELSE o.value
VarLaw(a, ops) ==
  LET tokens == FlattenSeq([k \in DOMAIN ops |-> VarTokens(ops[k]) \o <<Op(";")>>]) \o <<W("true"), Op(";"), W("echo"), WordOf("x", <<Var("x")>>)>>
      r == Sh!RunSource(Sh!Fresh(a, <<>>, Env, FileF), tokens)
      gives(n) == {k \in DOMAIN ops : ops[k].name = n /\ ops[k].do \in {"set", "exportset", "for", "read", "unset"}}
      last(n) == -Least({-k : k \in gives(n)})
      value(n) == IF gives(n) = {} THEN IF n = "PATH" THEN <<98>> ELSE <<>> ELSE IF ops[last(n)].do = "unset" THEN <<>> ELSE ValueOf(ops[last(n)])
      shown == r.sh.ran[Len(r.sh.ran)].env
      exported(n) == \E k \in DOMAIN ops : /\ ops[k].name = n
                                           /\ ops[k].do = "exportset" \/ a /= {} \/ (ops[k].do = "export" /\ \E j \in 1 .. k - 1 : j \in gives(n))
                                           /\ \A j \in gives(n) : j > k => ops[j].do /= "unset"
                                           /\ ops[k].do /= "unset"
  IN /\ \A n \in Names1 : n \in DOMAIN shown => shown[n] = value(n)
     /\ \A n \in DOMAIN r.sh.vars \cap DOMAIN r.sh.env : r.sh.vars[n] = r.sh.env[n]
     /\ r.sh.out = value("x") \o <<Newline>>
     /\ ("x" \in DOMAIN shown) => \E k \in DOMAIN ops : ops[k].name = "x" /\ (ops[k].do \in {"export", "exportset"} \/ a /= {})
     /\ \A k \in DOMAIN r.sh.ran : r.sh.ran[k].program = "three" => \E n \in Names1 : n \in DOMAIN r.sh.ran[k].env /\ r.sh.ran[k].env[n] = <<99>>

(* An expression's value is that of its tree, however few parentheses it is *)
(* written with.                                                           *)
Num(n) == [kind |-> "number", value |-> n]
Ar(t) == [kind |-> "op", text |-> t]
ParseLeaves == {[op |-> "", value |-> n] : n \in {0, 2, 7, 127}}
ParseTree(l, r) == [op : {"+", "-", "*", "/", "%"}, l : l, r : r]
ParseTrees == ParseLeaves \cup ParseTree(ParseLeaves, ParseLeaves) \cup ParseTree(ParseTree(ParseLeaves, ParseLeaves), {[op |-> "", value |-> 3]}) \cup ParseTree({[op |-> "", value |-> 3]}, ParseTree(ParseLeaves, ParseLeaves))
Prec(t) == IF t.op = "" THEN 3 ELSE IF t.op \in {"+", "-"} THEN 1 ELSE 2
RECURSIVE Shown(_), Meaning(_)
Bracketed(t, least) == IF Prec(t) < least THEN <<Ar("(")>> \o Shown(t) \o <<Ar(")")>> ELSE Shown(t)
Shown(t) == IF t.op = "" THEN <<Num(t.value)>> ELSE Bracketed(t.l, Prec(t)) \o <<Ar(t.op)>> \o Bracketed(t.r, Prec(t) + 1)
Meaning(t) ==
  LET l == Meaning(t.l)
      r == Meaning(t.r)
  IN IF t.op = "" THEN [ok |-> TRUE, value |-> t.value]
     ELSE IF ~ l.ok \/ ~ r.ok \/ (t.op \in {"/", "%"} /\ r.value = 0) THEN [ok |-> FALSE, value |-> 0]
     ELSE [ok |-> TRUE, value |-> Sh!Applied(t.op, l.value, r.value)]
ArithLaw(t) ==
  LET e == Sh!ArithEval(Shown(t))
      m == Meaning(t)
      text == Sh!Expand(Start({}), <<[kind |-> "arith", tokens |-> Shown(t)]>>).text
  IN /\ e.ok = m.ok /\ (m.ok => e.value = m.value /\ text = Sh!Decimal(m.value))
     /\ m.ok /\ t.op = "/" => Sh!ArithEval(Shown([t EXCEPT !.op = "%"])).value = Sh!Wrapped(Meaning(t.l).value - Meaning(t.r).value * e.value)

(* ----------------------------------- awk ---------------------------------- *)
(* An expression's tokens give its tree's value, each pattern and field with *)
(* its own; what is computed twice in a row comes out the same.             *)
AOp(n) == [kind |-> "operator", name |-> n]
ANum(n) == [kind |-> "number", n |-> n]
ALeaf(n) == [op |-> "", n |-> n]
ALeaves == {ALeaf(n) : n \in {0, 2, 12}}
ATree(l, r) == [op : {"||", "&&", "<", "==", "cat", "+", "-", "*", "/"}, l : l, r : r]
ATrees == ALeaves \cup ATree(ALeaves, ALeaves) \cup ATree(ATree(ALeaves, ALeaves), ALeaves) \cup ATree(ALeaves, ATree(ALeaves, ALeaves))
APrec(t) == CASE t.op = "||" -> 1 [] t.op = "&&" -> 2 [] t.op \in {"<", "=="} -> 4 [] t.op = "cat" -> 5 [] t.op \in {"+", "-"} -> 6
              [] t.op \in {"*", "/"} -> 7 [] t.op = "" -> 8
RECURSIVE AShown(_), AMeaning(_)
ABracketed(t, least) == IF APrec(t) < least THEN <<AOp("(")>> \o AShown(t) \o <<AOp(")")>> ELSE AShown(t)
AShown(t) ==
  LET p == APrec(t)
  IN IF t.op = "" THEN <<ANum(t.n)>>
     ELSE ABracketed(t.l, IF p = 4 THEN 5 ELSE p) \o (IF t.op = "cat" THEN <<>> ELSE <<AOp(t.op)>>) \o ABracketed(t.r, p + 1)
(* A value is [n, text]: what is put side by side is a number in a sum and   *)
(* a text in a comparison.                                                  *)
Whole(n) == [n |-> n, text |-> Aw!Decimal(n), number |-> TRUE]
AMeaning(t) ==
  LET l == AMeaning(t.l)
      r == AMeaning(t.r)
      yes(b) == Whole(IF b THEN 1 ELSE 0)
      order == IF l.number /\ r.number THEN Sign(l.n - r.n) ELSE Compare(l.text, r.text)
  IN IF t.op = "" THEN Whole(t.n)
     ELSE CASE t.op = "||" -> yes(l.n /= 0 \/ r.n /= 0) [] t.op = "&&" -> yes(l.n /= 0 /\ r.n /= 0)
            [] t.op = "<" -> yes(order < 0) [] t.op = "==" -> yes(order = 0)
            [] t.op = "+" -> Whole(l.n + r.n) [] t.op = "-" -> Whole(l.n - r.n) [] t.op = "*" -> Whole(l.n * r.n)
            [] t.op = "/" -> IF r.n = 0 THEN Whole(0) ELSE Whole(Aw!Quotient(l.n, r.n))
            [] t.op = "cat" -> [n |-> Aw!NumberIn(l.text \o r.text), text |-> l.text \o r.text, number |-> FALSE]
RECURSIVE Divides(_)
Divides(t) == t.op /= "" /\ (Divides(t.l) \/ Divides(t.r) \/ (t.op = "/" /\ AMeaning(t.r).n = 0))
\* The quotients are whole: the others are not in the model.
RECURSIVE Exact(_)
Exact(t) == t.op = "" \/ (Exact(t.l) /\ Exact(t.r) /\ (t.op = "/" => LET l == AMeaning(t.l).n
                                                                            r == AMeaning(t.r).n IN r = 0 \/ r * Aw!Quotient(l, r) = l))
\* What stands between two numbers is text if it is a string literal.
LiteralIsText(x, text, y) ==
  Aw!Eval(Aw!Start(<<>>), <<ANum(x), [kind |-> "string", text |-> text], ANum(y)>>).v = Aw!Str(Aw!Decimal(x) \o text \o Aw!Decimal(y))
AwkExprLaw(t) ==
  LET e == Aw!Eval(Aw!Start(<<>>), AShown(t))
      m == AMeaning(t)
  IN /\ (t.op /= "" /\ t.l.op = "" /\ t.r.op = "") => LiteralIsText(t.l.n, <<58>>, t.r.n)
     /\ Exact(t) => IF Divides(t) THEN ~ e.ok /\ e.c.error ELSE e.ok /\ ~ e.c.error /\ e.v.text = m.text /\ e.v.numeric = m.number

(* NR==i, NR==j: from each record where the first holds, the range not being *)
(* open already, to the first where the second does; it goes on over files.  *)
AName(n) == [kind |-> "name", name |-> n]
NthPart(n) == <<AName("NR"), AOp("=="), ANum(n)>>
PrintNR == [kind |-> "print", list |-> <<<<AName("NR")>>>>]
RuleOf(p, s, a) == [kind |-> "record", pattern |-> p, second |-> s, action |-> a]
Newlines == "FS" :> Aw!Str(<<Space>>) @@ "OFS" :> Aw!Str(<<45>>) @@ "ORS" :> Aw!Str(<<Newline>>) @@ "SUBSEP" :> Aw!Str(<<28>>)
Eithers(S) == IF S = {} THEN <<ANum(0)>> ELSE Tail(FlattenSeq([k \in 1 .. Len(SetToSeq(S)) |-> <<AOp("||")>> \o NthPart(SetToSeq(S)[k])]))
AwkRangeLaw(a, n) ==
  LET files == <<[k \in 1 .. n |-> <<97>>], [k \in 1 .. 4 - n |-> <<98>>]>>
      r == Aw!Awk(Newlines, <<RuleOf(Eithers(a[1]), Eithers(a[2]), <<PrintNR>>)>>, files)
      inside(k) == \E i \in a[1] : i <= k /\ \A j \in i .. k - 1 : j \notin a[2]
  IN r.status = 0 /\ r.out = FlattenSeq([k \in 1 .. 4 |-> IF inside(k) THEN <<48 + k, Newline>> ELSE <<>>])

(* After fields are assigned the record is the fields joined by OFS, NF is   *)
(* their number, a field read back is the one that was put there, and $0 put *)
(* back splits into the same fields if none is blank.                       *)
AwkFieldLaw(record, sets) ==
  LET c == FoldLeft(LAMBDA d, x : Aw!SetField(d, x[1], x[2]), Aw!SplitRecord([Aw!Start(Newlines) EXCEPT !.record = record]), sets)
      refused == \E k \in DOMAIN sets : sets[k][1] > Aw!FieldLimit
      last(n) == {k \in DOMAIN sets : sets[k][1] = n /\ \A j \in k + 1 .. Len(sets) : sets[j][1] \notin {0, n}}
      again == Aw!SetField([c EXCEPT !.vars = "FS" :> Aw!Str(<<45>>) @@ @], 0, c.record)
  IN /\ c.error = refused
     /\ ~ refused /\ sets /= <<>> =>
          /\ \A n \in 1 .. Aw!FieldLimit : \A k \in last(n) : Aw!Field(c, n).text = sets[k][2]
          /\ sets[Len(sets)][1] /= 0 => c.record = Joined(c.fields, <<45>>) /\ again.fields = c.fields
          /\ sets[Len(sets)][1] = 0 => c.fields = Fields(c.record)
          /\ Aw!Get(c, "NF").number = Len(c.fields)

(* gsub replaces every match sub would find in turn, none of them twice, and *)
(* says how many; & is the text matched, \& an ampersand.                   *)
AwkSubLaw(a, s) ==
  LET r == [text |-> a[1], start |-> FALSE]
      one == Aw!Substitute(r, s, a[2], FALSE)
      all == Aw!Substitute(r, s, a[2], TRUE)
      parts == Aw!SplitAt(a[1], s)
      text == CASE a[2] = <<38>> -> a[1] [] a[2] = <<92, 38>> -> <<38>> [] OTHER -> a[2]
  IN /\ one.n = (IF all.n > 0 THEN 1 ELSE 0) /\ (all.n = 0 => all.text = s)
     /\ a[1] /= <<>> => all.n = Len(parts) - 1 /\ all.text = Joined(parts, text)
                        /\ (all.n > 0 => one.text = parts[1] \o text \o Joined(Tail(parts), a[1]))
     /\ a[1] = <<>> => all.n = Len(s) + 1
     /\ a[2] = <<38>> => all.text = s

(* A loop's break and continue end with it, and what follows it runs; next   *)
(* ends the record's rules and exit everything but the END rules.           *)
ASteer == {[kind |-> "break"], [kind |-> "continue"], [kind |-> "next"], [kind |-> "exit", value |-> <<>>]}
ASay(n) == [kind |-> "print", list |-> <<<<ANum(n)>>>>]
ABody == [1 .. 2 -> ASteer \cup {ASay(1)}]
ASet(op, n) == [kind |-> "assign", target |-> <<AName("i")>>, op |-> op, value |-> <<ANum(n)>>]
ALess == <<AName("i"), AOp("<"), ANum(2)>>
ALoop(k, b) ==
  IF k = "for" THEN [kind |-> k, init |-> <<ASet("=", 0)>>, cond |-> ALess, post |-> <<ASet("+=", 1)>>, body |-> [kind |-> "block", body |-> b]]
  ELSE [kind |-> k, cond |-> ALess, body |-> [kind |-> "block", body |-> <<ASet("+=", 1)>> \o b]]
AwkLoopLaw(k, b) ==
  LET rules == <<RuleOf(<<>>, <<>>, <<ASet("=", 0), ALoop(k, b), ASay(2)>>), RuleOf(<<>>, <<>>, <<ASay(3)>>), [RuleOf(<<>>, <<>>, <<ASay(4)>>) EXCEPT !.kind = "END"]>>
      r == Aw!Awk(Newlines, rules, <<<<<<97>>, <<97>>>>>>)
      lines == Pieces(r.out, LAMBDA c : c = Newline)
      said(n) == Len(SelectSeq(lines, LAMBDA l : l = <<48 + n>>))
      first == IF b[1].kind = "print" THEN b[2].kind ELSE b[1].kind
      turns == IF first \in {"print", "continue"} THEN 2 ELSE 1
      ends == first \in {"next", "exit"}
      records == IF first = "exit" THEN 1 ELSE 2
  IN /\ r.status = 0 /\ said(4) = 1
     /\ said(1) = records * turns * Len(SelectSeq(b, LAMBDA x : x.kind = "print")) \/ (b[1].kind /= "print" /\ said(1) = 0)
     /\ said(2) = (IF ends THEN 0 ELSE 2) /\ said(3) = said(2)

(* The statements and rules of a text are those that were written, whatever  *)
(* they nest: none is cut short and none runs into the next.                *)
AUnits == {<<"w">>, <<"w", "(", "w", ")">>, <<"{", "w", ";", "w", "}">>, <<"w", "{", ";", "}">>}
AWritten(S) ==
  {<<"if", "(", "w", ")">> \o x \o (IF x[Len(x)] = "}" THEN <<>> ELSE <<";">>) \o <<"else">> \o y : x, y \in S}
  \cup {<<k, "(", "w", ")">> \o x : k \in {"if", "for", "while"}, x \in S}
  \cup {<<"do">> \o x \o (IF x[Len(x)] = "}" THEN <<>> ELSE <<"nl">>) \o <<"while", "(", "w", ")">> : x \in S}
AStatements == AUnits \cup AWritten(AUnits) \cup AWritten(AWritten({<<"w">>, <<"{", "w", ";", "w", "}">>}))
Plain(x) == \A k \in DOMAIN x : x[k] \notin {"if", "do"}
AwkTextLaw(sep, pair) ==
  LET text == pair[1] \o <<sep>> \o pair[2]
      rules == <<"w", "{">> \o pair[1] \o <<"}", "nl", ",", "w", "{">> \o pair[2] \o <<"}">>
      bare(x) == IF Last(x) \in Aw!Blank THEN Front(x) ELSE x
      found == Aw!Statements(text, 1)
  IN /\ [k \in DOMAIN found |-> bare(found[k])] = pair
     /\ LET r == Aw!Rules(rules, 1)
        IN r = <<RuleOf(<<"w">>, <<>>, pair[1]), RuleOf(<<>>, <<"w">>, pair[2])>>

Patterns == {<<>>, <<97>>, <<97, 98>>}
AwkKinds(t) ==
  CASE t = "awkexpr" -> {[args |-> {0}, inputs |-> ATrees]}
    [] t = "awkliteral" -> {[args |-> {<<42>>, <<43>>, <<45>>, <<47>>}, inputs |-> {0, 2, 12} \X {0, 2, 12}]}
    [] t = "awkrange" -> {[args |-> (SUBSET (1 .. 4)) \X (SUBSET (1 .. 4)), inputs |-> {0, 2}]}
    [] t = "awkfield" -> {[args |-> {<<>>, <<97, Space, 98>>}, inputs |-> UNION {[1 .. k -> (0 .. 5) \X {<<97>>, <<98, 98>>}] : k \in 0 .. 2}]}
    [] t = "awksub" -> {[args |-> Patterns \X {<<>>, <<99>>, <<38>>, <<92, 38>>, <<97, 98>>}, inputs |-> UNION {[1 .. k -> {97, 98, Space}] : k \in 0 .. 5}]}
    [] t = "awkloop" -> {[args |-> {"for", "while", "do"}, inputs |-> ABody]}
    [] t = "awktext" -> {[args |-> {";", "nl"}, inputs |-> {<<x, y>> : x \in AStatements, y \in {<<"w">>, <<"if", "(", "w", ")", "w">>}}]}
    [] OTHER -> {}
AwkLaw(tool, args, input) ==
  CASE tool = "awkexpr" -> AwkExprLaw(input)
    [] tool = "awkrange" -> AwkRangeLaw(args, input)
    [] tool = "awkfield" -> AwkFieldLaw(args, input)
    [] tool = "awksub" -> AwkSubLaw(args, input)
    [] tool = "awkloop" -> AwkLoopLaw(args, input)
    [] tool = "awktext" -> AwkTextLaw(args, input)
    [] OTHER -> TRUE

ScriptKinds(t) ==
  CASE t = "shparse" -> {[args |-> {"parse", "loop"}, inputs |-> Nested]}
    [] t = "shguard" -> {[args |-> {0}, inputs |-> GuardedLists(Simple, 3) \cup GuardedLists({Sh!Pipeline(Run1("true")), Sh!Pipeline(Run1("false"))}, 4)]}
    [] t = "shvars" -> {[args |-> {{}, {"a"}}, inputs |-> UNION {[1 .. k -> VarOps] : k \in 0 .. 3}]}
    [] t = "arith" -> {[args |-> {0}, inputs |-> ParseTrees]}
    [] OTHER -> AwkKinds(t)

(* What a script means: its text, its decisions, its variables and sums.    *)
ScriptLaw(tool, args, input) ==
  CASE tool = "shparse" -> IF args = "parse" THEN ParseLaw(input) ELSE LoopLaw(input)
    [] tool = "shguard" -> GuardLaw(input)
    [] tool = "shvars" -> VarLaw(args, input)
    [] tool = "arith" -> ArithLaw(input)
    [] OTHER -> AwkLaw(tool, args, input)

(* -------------------------- find, test and expr --------------------------- *)
Words10 == <<"", "!", "(", "+", "-1", "0", "1", "10", "2", "3", "a", "b", "f", "g", "link">>
MCRank == [w \in Range(Words10) \cup {ToString(n) : n \in -40 .. 40} |->
             IF w \in Range(Words10) THEN CHOOSE i \in DOMAIN Words10 : Words10[i] = w ELSE 6]
MCNumber == [w \in {ToString(n) : n \in -40 .. 40} |-> CHOOSE n \in -40 .. 40 : ToString(n) = w]
F1(target, link, size, ino, mtime) ==
  [target |-> target, link |-> link, size |-> size, ino |-> ino, mtime |-> mtime, access |-> IF ino = 2 THEN {} ELSE {4, 1}]
MCFile == "f" :> F1("f", FALSE, 3, 1, 5) @@ "g" :> F1("d", FALSE, 0, 2, 7) @@ "link" :> F1("none", TRUE, 1, 3, 6)

Query == INSTANCE Queries WITH Number <- MCNumber, Rank <- MCRank, File <- MCFile, KnownUsers <- {0, 1}, KnownGroups <- {0}

(* ------------------------------- expressions ------------------------------ *)
(* Every expression of a few operators, as a tree, and the tree written    *)
(* with as few parentheses as its operators' precedence allows.            *)
T0(S) == {[op |-> "leaf", w |-> w] : w \in S}
Over(ops, L, R) == {[op |-> o, l |-> l, r |-> r] : o \in ops, l \in L, r \in R}
Trees(ops, S) == LET one == T0(S) \cup Over(ops, T0(S), T0(S))
                 IN one \cup Over(ops, one, T0(S)) \cup Over(ops, T0(S), one)
Level(levels, o) == IF \E n \in DOMAIN levels : o \in levels[n]
                    THEN CHOOSE n \in DOMAIN levels : o \in levels[n] ELSE Len(levels) + 1

RECURSIVE Written(_, _, _)
Written(levels, t, n) ==
  IF t.op = "leaf" THEN t.w
  ELSE LET k == Level(levels, t.op)
           \* a comparison of expr is not followed by another one
           text == Written(levels, t.l, IF t.op \in Query!Comparisons THEN k + 1 ELSE k) \o <<t.op>>
                     \o Written(levels, t.r, k + 1)
       IN IF k < n THEN <<"(">> \o text \o <<")">> ELSE text

RECURSIVE ExprValue(_)
ExprValue(t) ==
  IF t.op = "leaf" THEN t.w[1]
  ELSE LET l == ExprValue(t.l)
           r == ExprValue(t.r)
       IN IF "none" \in {l, r} THEN "none" ELSE Query!Apply(t.op, l, r)

(* expr gives the value the precedence of its operators asks for, and its  *)
(* status says whether that is null.                                       *)
ExprLaw(tree) ==
  LET r == Query!Expr(Written(Query!Levels, tree, 1))
      v == ExprValue(tree)
  IN IF v = "none" THEN r.status = 2
     ELSE r.out = v /\ r.status = (IF v \in {"", "0"} THEN 1 ELSE 0)

TestLevels == <<{"-o"}, {"-a"}>>
RECURSIVE TestValue(_)
TestValue(t) ==
  CASE t.op = "leaf" -> Query!Test(t.w)
    [] t.op = "-a" -> LET s == {TestValue(t.l), TestValue(t.r)} IN IF 2 \in s THEN 2 ELSE IF 1 \in s THEN 1 ELSE 0
    [] t.op = "-o" -> LET s == {TestValue(t.l), TestValue(t.r)} IN IF 2 \in s THEN 2 ELSE IF 0 \in s THEN 0 ELSE 1

(* test gives its words the value of the expression they write, an error   *)
(* anywhere in it is the status 2, and ! makes yes of no.                  *)
TestLaw(tree) ==
  LET words == Written(TestLevels, tree, 1)
      s == Query!Test(words)
  IN /\ s = TestValue(tree)
     /\ Query!Bracket(Append(words, "]")) = s /\ Query!Bracket(words) = 2
     /\ Query!Test(<<"!", "(">> \o words \o <<")">>) = (IF s = 2 THEN 2 ELSE 1 - s)

(* ---------------------------------- find --------------------------------- *)
N(name, type, kids) ==
  [name |-> name, type |-> type, kids |-> kids, target |-> 0, dev |-> 1, size |-> 0, perm |-> {4, 2}, links |-> 1,
   uid |-> 0, gid |-> 0, age |-> [m |-> 5, a |-> 3, c |-> 4], readable |-> TRUE]
dot == 46
n1 == <<97>>
n2 == <<97, 98>>
n3 == <<98>>
Tree(d) ==
  <<N(<<dot>>, "d", <<2, 3, 4>>), [N(n1, "d", <<5, 6>>) EXCEPT !.uid = 7, !.gid = 3, !.links = 2],
    [N(n2, "l", <<>>) EXCEPT !.target = d.target], [N(n3, "d", <<7>>) EXCEPT !.dev = d.dev, !.readable = d.readable],
    [N(n3, "f", <<>>) EXCEPT !.size = 513, !.age.m = 1], N(n1, "d", <<8>>),
    [N(n1, "f", <<>>) EXCEPT !.perm = {4, 1}], N(n3, "p", <<>>)>>
Disks == {[target |-> t, dev |-> v, readable |-> r] : t \in {0, 2, 5}, v \in {1, 2}, r \in BOOLEAN}
          \ {[target |-> t, dev |-> 2, readable |-> FALSE] : t \in {0, 2, 5}}

X(t) == [t |-> t, given |-> TRUE]
A(t, arg) == [t |-> t, arg |-> arg, given |-> TRUE]
Named ==
  [ab |-> A("-name", <<97, 42>>), dirs |-> A("-type", "d"), enddirs |-> A("-xtype", "d"),
   size |-> A("-size", [cmp |-> "=", n |-> 2, unit |-> 512]), any |-> A("-perm", [kind |-> "/", want |-> {1}]),
   all |-> A("-perm", [kind |-> "-", want |-> {4}]), exact |-> A("-perm", [kind |-> "=", want |-> {4, 1}]),
   links |-> A("-links", [cmp |-> "+", n |-> 1]), user |-> A("-user", [cmp |-> "-", n |-> 1]),
   days |-> A("-mtime", [cmp |-> "=", n |-> 0, unit |-> 2]), newer |-> A("-newer", 2),
   read |-> A("-amin", [cmp |-> "-", n |-> 4, unit |-> 1]), fresh |-> A("-cnewer", 2), lost |-> A("-anewer", 0),
   kind |-> A("-type", "x"), group |-> A("-gid", [cmp |-> "+", n |-> 2]), form |-> A("-printf", "%p"),
   inode |-> A("-inum", [cmp |-> "=", n |-> 6]), same |-> A("-samefile", 5),
   upper |-> A("-iname", <<66>>), set |-> A("-name", <<91, 33, 97, 45, 97, 93, 63>>)]
Token(w) == IF w \in DOMAIN Named THEN Named[w] ELSE X(w)
Leaves(S) == T0({<<w>> : w \in S})
Few == {"-prune", "-quit", "-delete", "-empty", "ab", "dirs"}
FindTrees ==
  Leaves(DOMAIN Named \cup Few \cup {"-print", "-print0", "-false", "-nouser", "-nogroup", "-readable", "-fprint"})
    \cup Over({"-a", "-o"}, Leaves(Few), Leaves({"-print", "-prune"}))
    \cup Over({"-o"}, Over({"-a"}, Leaves(Few), Leaves({"-prune", "-quit"})), Leaves({"-print"}))
    \cup Over({"-a"}, Over({"-o"}, Leaves(Few), Leaves({"-prune"})), Leaves({"-print", "-delete"}))
    \cup T0({<<"!", "-empty">>, <<"!", "(", "dirs", ")">>})
FindOptions ==
  {<<>>, <<X("-depth")>>, <<X("-follow"), X("-noleaf")>>, <<X("-H"), X("-xdev")>>, <<A("-maxdepth", 1)>>,
   <<A("-mindepth", 2), A("-maxdepth", 2)>>, <<X("-L"), X("-depth"), A("-mindepth", 1)>>, <<A("-mindepth", -1)>>}
Roots == {<<1>>, <<2, 6, 4>>, <<3, 0>>}
FindWords(tree) == LET w == Written(TestLevels, tree, 1) IN [i \in DOMAIN w |-> Token(w[i])]

RECURSIVE Parsed(_)
Parsed(t) == IF t.op = "leaf" THEN Query!ParseOr(Mapped(t.w, Token), 1).expr
             ELSE Query!Node(IF t.op = "-a" THEN "and" ELSE "or", Parsed(t.l), Parsed(t.r))
GlobalsOf(o) == [o EXCEPT !.tokens = <<>>]

(* Where a run may go: from an operand down through directories that can   *)
(* be read, that were not pruned and, with -xdev, are on its device.       *)
Steps(fs, o, p) ==
  LET last == p[Len(p)]
      to(id, links) == Query!Followed(fs, o, id, Len(p) = 1, links)
      links == Cardinality({i \in DOMAIN p : to(p[i], 0) /= p[i]})
      n == fs[to(last, links - 1)]
      pruned == Len(p) - 1 >= o.min /\
                 Query!Eval(fs, o, o.expr, [path |-> p, link |-> last, node |-> to(last, links - 1), dot |-> last = 1],
                            Query!NoRun).prune
  IN IF n.type = "d" /\ n.readable /\ ~ pruned /\ (o.max < 0 \/ Len(p) - 1 < o.max)
        /\ (~ o.xdev \/ Len(p) = 1 \/ n.dev = 1)
     THEN {Append(p, id) : id \in Range(n.kids)} ELSE {}
RECURSIVE Reach(_, _, _)
Reach(fs, o, P) == IF P = {} THEN {} ELSE P \cup Reach(fs, o, UNION {Steps(fs, o, p) : p \in P})

(* find reads its expression as it was written; without -quit it visits    *)
(* every path it may go to once, within the depth bounds, a directory      *)
(* before what is in it or after, and -delete only ever takes a directory  *)
(* after all it held, with a status that tells.  -prune is taken with no   *)
(* -mindepth.                                                              *)
Uses(tree, w) == w \in Range(Written(TestLevels, tree, 1))
Above(p, q) == Len(p) < Len(q) /\ SubSeq(q, 1, Len(p)) = p
FindLaw(options, tree, roots, fs) ==
  LET words == FindWords(tree)
      plan == Query!FindPlan(options \o words)
      r == Query!Find(options \o words, roots, fs)
      reach == Reach(fs, plan, {<<id>> : id \in Range(roots) \ {0}})
      allowed == {p \in reach : Len(p) - 1 >= plan.min}
      whole == ~ Uses(tree, "-quit") /\ ~ (Uses(tree, "-prune") /\ plan.min > 0) /\ ~ plan.bad
                 /\ ~ (Uses(tree, "-delete") /\ 6 \in Range(roots))   \* gone before it is asked for
  IN /\ ~ Uses(tree, "-fprint") => Query!ParseOr(words, 1).expr = Parsed(tree)
     /\ plan.bad => r.status = 1 /\ r.out = <<>>
     /\ whole /\ ~ (plan.follow = "L" /\ fs[3].target = 2) =>
          /\ Range(r.visited) = allowed
          /\ \A i, j \in DOMAIN r.visited : i < j =>
               /\ r.visited[i] /= r.visited[j]
               /\ ~ (IF plan.depth THEN Above(r.visited[i], r.visited[j]) ELSE Above(r.visited[j], r.visited[i]))
     /\ \A id \in r.gone : Range(fs[id].kids) \subseteq r.gone
     /\ Uses(tree, "-delete") /\ r.status = 0 /\ ~ Uses(tree, "-quit") /\ tree.op = "leaf" /\ plan.follow = "P" =>
          {p[Len(p)] : p \in allowed} \ {1} = r.gone
     /\ 0 \in Range(roots) /\ whole => r.status = 1

(* -------------------------------- patterns ------------------------------- *)
(* What a pattern means, without the two indices of globMatch.             *)
RECURSIVE GlobMeans(_, _)
GlobMeans(pat, name) ==
  IF pat = <<>> THEN name = <<>>
  ELSE IF pat[1] = Query!Star THEN \E k \in 0 .. Len(name) : GlobMeans(Tail(pat), Skip(name, k))
  ELSE /\ name /= <<>> /\ Query!Matches(pat, 1, name[1]) > 0
       /\ GlobMeans(Skip(pat, Query!Matches(pat, 1, name[1]) - 1), Tail(name))
GlobLaw(pat, name) == Query!GlobMatch(pat, name) = GlobMeans(pat, name)

QueryKinds(t) ==
  CASE t = "expr" -> {[args |-> {"-"}, inputs |-> Trees({"|", "&", "=", "<", "+", "-", "*", "/"}, {<<"0">>, <<"1">>, <<"3">>, <<"a">>, <<"">>})]}
    [] t = "test" -> {[args |-> {"-"},
             inputs |-> Trees({"-a", "-o"}, {<<"-n", "a">>, <<"a", "=", "b">>, <<"1", "-lt", "2">>, <<"-f", "f">>, <<"a", "-eq", "1">>,
               <<"">>, <<"-e", "link">>, <<"f", "-nt", "link">>, <<"!", "a">>, <<"-t", "0">>, <<"g", "-ef", "g">>, <<"-L", "link">>,
               <<"f", "-ot", "g">>, <<"-r", "g">>, <<"b", ">", "a">>, <<"2", "-ge", "3">>, <<"-w", "f">>, <<"-p", "g">>})]}
    [] t = "find" -> {[args |-> FindOptions, inputs |-> FindTrees \X Roots \X Disks]}
    [] t = "glob" -> {[args |-> UNION {[1 .. k -> {Query!Star, Query!Question, Query!Open, Query!Close, Query!Backslash, 97}] : k \in 0 .. 4},
             inputs |-> UNION {[1 .. k -> {97, 91}] : k \in 0 .. 3}]}
    [] OTHER -> {}

QueryLaw(tool, args, input) ==
  CASE tool = "expr" -> ExprLaw(input)
    [] tool = "test" -> TestLaw(input)
    [] tool = "find" -> FindLaw(args, input[1], input[2], Tree(input[3]))
    [] tool = "glob" -> GlobLaw(args, input)
    [] OTHER -> TRUE
=============================================================================
