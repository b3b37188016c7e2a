-------------------------------- MODULE Shell --------------------------------
(* sh of execution_tools.go: the tokens of a script parsed into statements,  *)
(* run with the variables, the flags and the status the whole shell shares.  *)
(* A token is an operator [op, text] or a word [op, text, prefix, parts,     *)
(* quoted, assigns]: text is what the parser compares, the characters of     *)
(* prefix and what expansion makes of parts are its value; a word NAME=VALUE *)
(* assigns NAME, has NAME= for its prefix and VALUE for its parts.  A keyword, *)
(* a program's name and a variable's are written out, never expanded.        *)
EXTENDS Text

Separators == {";", "nl"}
IsOp(tokens, pos, texts) == pos <= Len(tokens) /\ tokens[pos].op /\ tokens[pos].text \in texts
IsWord(tokens, pos, words) == pos <= Len(tokens) /\ ~ tokens[pos].op /\ tokens[pos].text \in words
SkipSeparators(tokens, pos) ==
  Least({p \in pos .. Len(tokens) : ~ IsOp(tokens, p, Separators)} \cup {IF pos > Len(tokens) THEN pos ELSE Len(tokens) + 1})

(* -------------------------------- parsing -------------------------------- *)
(* A result is [ok, value, pos].                                            *)
Bad == [ok |-> FALSE, value |-> <<>>, pos |-> 0]
Got(value, pos) == [ok |-> TRUE, value |-> value, pos |-> pos]
Pipeline(tokens) == [kind |-> "pipeline", guard |-> "", tokens |-> tokens]

RECURSIVE ParseList(_, _, _, _, _), ParseStatement(_, _), ParseClauses(_, _, _)
(* Statements up to the end or to a word of the construct around the list.   *)
ParseList(tokens, from, stop, guard, done) ==
  LET pos == SkipSeparators(tokens, from)
      s == ParseStatement(tokens, pos)
      all == Append(done, [s.value EXCEPT !.guard = guard])
  IN IF pos > Len(tokens) \/ IsWord(tokens, pos, stop) THEN Got(done, pos)
     ELSE IF ~ s.ok THEN Bad
     ELSE IF IsOp(tokens, s.pos, Separators) THEN ParseList(tokens, s.pos + 1, stop, "", all)
     ELSE IF IsOp(tokens, s.pos, {"&&", "||"}) THEN ParseList(tokens, s.pos + 1, stop, tokens[s.pos].text, all)
     ELSE Got(all, s.pos)
List(tokens, pos, stop) == ParseList(tokens, pos, stop, "", <<>>)
Then(tokens, r, word) == r.ok /\ IsWord(tokens, r.pos, {word})

ParseClauses(tokens, pos, clauses) ==
  LET cond == List(tokens, pos, {"then"})
      body == List(tokens, cond.pos + 1, {"elif", "else", "fi"})
      all == Append(clauses, [cond |-> cond.value, body |-> body.value])
      other == List(tokens, body.pos + 1, {"fi"})
      If(elseBody) == [kind |-> "if", guard |-> "", clauses |-> all, elseBody |-> elseBody]
  IN CASE ~ Then(tokens, cond, "then") \/ ~ body.ok -> Bad
       [] OTHER -> IF Then(tokens, body, "elif") THEN ParseClauses(tokens, body.pos + 1, all)
                   ELSE IF Then(tokens, body, "else") THEN IF Then(tokens, other, "fi") THEN Got(If(other.value), other.pos + 1) ELSE Bad
                   ELSE IF Then(tokens, body, "fi") THEN Got(If(<<>>), body.pos + 1) ELSE Bad

ParseBody(tokens, pos, statement(_)) ==
  LET body == List(tokens, pos + 1, {"done"})
  IN IF IsWord(tokens, pos, {"do"}) /\ Then(tokens, body, "done") THEN Got(statement(body.value), body.pos + 1) ELSE Bad

(* Without "in" the loop has no values at all.                              *)
ParseFor(tokens, pos) ==
  LET after == SkipSeparators(tokens, pos + 1)
      stop == Least({p \in after + 1 .. Len(tokens) : IsOp(tokens, p, Separators)} \cup {Len(tokens) + 1})
      listed == IsWord(tokens, after, {"in"})
      values == IF listed THEN SubSeq(tokens, after + 1, stop - 1) ELSE <<>>
      do == IF listed THEN SkipSeparators(tokens, stop) ELSE after
  IN IF pos > Len(tokens) \/ IsOp(tokens, pos, {t.text : t \in Range(tokens)}) THEN Bad
     ELSE ParseBody(tokens, do, LAMBDA b : [kind |-> "for", guard |-> "", var |-> tokens[pos].text, list |-> values, body |-> b])

ParseWhile(tokens, pos) ==
  LET cond == List(tokens, pos, {"do"})
  IN IF ~ cond.ok THEN Bad
     ELSE ParseBody(tokens, cond.pos, LAMBDA b : [kind |-> "while", guard |-> "", cond |-> cond.value, body |-> b])

ParseStatement(tokens, pos) ==
  LET ends == {p \in pos .. Len(tokens) : IsOp(tokens, p, Separators \cup {"&&", "||"})}
      end == Least(ends \cup {Len(tokens) + 1})
  IN CASE IsWord(tokens, pos, {"if"}) -> ParseClauses(tokens, pos + 1, <<>>)
       [] IsWord(tokens, pos, {"for"}) -> ParseFor(tokens, pos + 1)
       [] IsWord(tokens, pos, {"while"}) -> ParseWhile(tokens, pos + 1)
       [] OTHER -> Got(Pipeline(SubSeq(tokens, pos, end - 1)), end)

Parse(tokens) ==
  LET r == List(tokens, 1, {}) IN IF r.ok /\ r.pos = Len(tokens) + 1 THEN r ELSE Bad

(* -------------------------------- variables ------------------------------- *)
(* The shell sh is [vars, env, status, breaking, continuing, unset, opts,    *)
(* files, dirs, cwd, stdin, out, ran]: unset is shellExpansionError, files   *)
(* are known by a path from the root, stdin is what is left of the standard  *)
(* input, out what has been printed in the current standard output, ran the  *)
(* programs started.                                                        *)
Value(sh, name) == IF name \in DOMAIN sh.vars THEN sh.vars[name] ELSE IF name \in DOMAIN sh.env THEN sh.env[name] ELSE <<>>
Without(f, names) == [x \in DOMAIN f \ names |-> f[x]]

(* An exported name keeps its place in the environment.                     *)
SetVariable(sh, name, value) ==
  [sh EXCEPT !.env = IF "a" \in sh.opts \/ name \in DOMAIN @ THEN (name :> value) @@ @ ELSE @,
             !.vars = (name :> value) @@ @]

(* -u: a name nobody knows is an error, left for the command to find.        *)
Unset(sh, name) ==
  IF "u" \in sh.opts /\ name \notin DOMAIN sh.vars \cup DOMAIN sh.env THEN [sh EXCEPT !.status = 1, !.unset = TRUE] ELSE sh

Export(sh, a) ==
  IF a.assigns THEN [sh EXCEPT !.vars = Without(@, {a.name}), !.env = (a.name :> a.value) @@ @]
  ELSE IF a.name \in DOMAIN sh.vars THEN [sh EXCEPT !.vars = Without(@, {a.name}), !.env = (a.name :> sh.vars[a.name]) @@ @]
  ELSE sh

(* ------------------------------- arithmetic ------------------------------- *)
(* $((...)) over tokens: numbers, names and operators; 64 bits, which wrap.  *)
(* A number that does not fit is an error, a variable's that does not is 0.  *)
ArithWord == 2 ^ 8
Fits(n) == n \in -(ArithWord \div 2) .. ArithWord \div 2 - 1
Wrapped(n) == ((n + ArithWord \div 2) % ArithWord) - ArithWord \div 2
Quotient(x, y) == IF y < 0 THEN IF x < 0 THEN (-x) \div (-y) ELSE -(x \div (-y)) ELSE IF x < 0 THEN -((-x) \div y) ELSE x \div y
ArithIs(t, pos, ops) == pos <= Len(t) /\ t[pos].kind = "op" /\ t[pos].text \in ops
Applied(op, x, y) ==
  Wrapped(CASE op = "+" -> x + y [] op = "-" -> x - y [] op = "*" -> x * y
            [] op = "/" -> Quotient(x, y) [] op = "%" -> x - y * Quotient(x, y))

RECURSIVE ArithLevel(_, _, _), ArithRest(_, _, _), ArithUnary(_, _)
Operand(t, level, pos) == IF level = 1 THEN ArithLevel(t, 2, pos) ELSE ArithUnary(t, pos)
ArithLevel(t, level, pos) == ArithRest(t, level, Operand(t, level, pos))
ArithRest(t, level, left) ==
  LET ops == IF level = 1 THEN {"+", "-"} ELSE {"*", "/", "%"}
      right == Operand(t, level, left.pos + 1)
      op == t[left.pos].text
  IN IF ~ left.ok \/ ~ ArithIs(t, left.pos, ops) THEN left
     ELSE IF ~ right.ok \/ (op \in {"/", "%"} /\ right.value = 0) THEN Bad
     ELSE ArithRest(t, level, Got(Applied(op, left.value, right.value), right.pos))
ArithUnary(t, pos) ==
  LET next == ArithUnary(t, pos + 1)
      inner == ArithLevel(t, 1, pos + 1)
  IN CASE ArithIs(t, pos, {"-"}) -> IF next.ok THEN Got(Wrapped(-next.value), next.pos) ELSE Bad
       [] ArithIs(t, pos, {"+"}) -> next
       [] ArithIs(t, pos, {"("}) -> IF inner.ok /\ ArithIs(t, inner.pos, {")"}) THEN Got(inner.value, inner.pos + 1) ELSE Bad
       [] OTHER -> IF pos <= Len(t) /\ t[pos].kind = "number" /\ Fits(t[pos].value) THEN Got(t[pos].value, pos + 1) ELSE Bad
ArithEval(t) == LET r == ArithLevel(t, 1, 1) IN IF r.ok /\ r.pos = Len(t) + 1 THEN r ELSE Bad

(* ------------------------------- expansion ------------------------------- *)
(* A part is text, $?, a variable, arithmetic or a command to substitute.    *)
(* The result is the shell and the characters.                              *)
RECURSIVE Decimal(_)
Decimal(n) ==
  IF n < 0 THEN <<Minus>> \o Decimal(-n) ELSE IF n > 9 THEN Decimal(n \div 10) \o <<48 + (n % 10)>> ELSE <<48 + n>>
RECURSIVE RunStatements(_, _), RunStatement(_, _), ForEach(_, _, _), While(_, _, _), Clauses(_, _)
RunSource(sh, tokens) ==
  LET p == Parse(tokens) IN IF p.ok THEN RunStatements(sh, p.value) ELSE [sh |-> sh, status |-> 2, exit |-> FALSE]

(* The same shell runs it: its variables stay, its flags stay, its exit      *)
(* does not.                                                                *)
CommandSubstitution(sh, tokens) ==
  LET r == RunSource([sh EXCEPT !.out = <<>>], tokens)
      cut == Len(r.sh.out) - Span(Reverse(r.sh.out), LAMBDA c : c = Newline)
  IN [sh |-> [r.sh EXCEPT !.out = sh.out, !.status = r.status], text |-> Take(r.sh.out, cut)]

(* strconv, where what is not a number counts as 0.                          *)
Integer(v) ==
  LET signed == v /= <<>> /\ v[1] \in {Minus, 43}
      digits == Skip(v, IF signed THEN 1 ELSE 0)
      n == IF signed /\ v[1] = Minus THEN -Digits(digits) ELSE Digits(digits)
  IN IF digits /= <<>> /\ Span(digits, IsDigit) = Len(digits) THEN n ELSE 0
Named(sh, t) == [k \in DOMAIN t |-> IF t[k].kind # "name" THEN t[k] ELSE
                    LET words == Fields(Value(sh, t[k].text))
                        n == IF Len(words) = 1 THEN Integer(words[1]) ELSE 0
                    IN [kind |-> "number", value |-> IF Fits(n) THEN n ELSE 0]]
ExpandPart(e, p) ==
  LET sub == CommandSubstitution(e.sh, p.tokens)
      looked == FoldLeft(LAMBDA sh, t : Unset(sh, t.text), e.sh, SelectSeq(p.tokens, LAMBDA t : t.kind = "name"))
      sum == ArithEval(Named(e.sh, p.tokens))
      Add(sh, text) == [sh |-> sh, text |-> e.text \o text]
  IN CASE p.kind = "text" -> Add(e.sh, p.text)
       [] p.kind = "status" -> Add(e.sh, Decimal(e.sh.status))
       [] p.kind = "var" -> Add(Unset(e.sh, p.name), Value(e.sh, p.name))
       [] p.kind = "arith" -> Add(looked, IF sum.ok THEN Decimal(sum.value) ELSE <<>>)
       [] p.kind = "sub" -> Add(sub.sh, sub.text)
Expand(sh, parts) == FoldLeft(ExpandPart, [sh |-> sh, text |-> <<>>], parts)

(* ------------------------------- a command ------------------------------- *)
(* shellCommand: the redirections, wherever they are, the assignments in     *)
(* front, and the words; each is expanded as it is met, and none is split.   *)
Redirections == {"<", ">", ">>"}
RECURSIVE Command(_, _, _)
Command(tokens, c, pos) ==
  LET t == tokens[pos]
      next == tokens[pos + 1]
      target == Expand(c.sh, next.parts)
      word == Expand(c.sh, t.parts)
      Redirected == IF t.text = "<" THEN [c EXCEPT !.sh = target.sh, !.input = target.text]
                    ELSE [c EXCEPT !.sh = target.sh, !.output = target.text, !.append = t.text = ">>"]
  IN IF pos > Len(tokens) THEN c
     ELSE IF t.op THEN IF t.text \notin Redirections \/ pos = Len(tokens) THEN [c EXCEPT !.bad = TRUE]
                       ELSE Command(tokens, Redirected, pos + 2)
     ELSE IF t.assigns /= "" /\ c.argv = <<>>
       THEN Command(tokens, [c EXCEPT !.sh = word.sh, !.assigned = Append(@, [name |-> t.assigns, value |-> word.text])], pos + 1)
     ELSE Command(tokens, [c EXCEPT !.sh = word.sh, !.argv = Append(@, [text |-> t.text, value |-> t.prefix \o word.text, given |-> word.text, assigns |-> t.assigns])], pos + 1)
ShellCommand(sh, tokens) ==
  Command(tokens, [sh |-> sh, argv |-> <<>>, assigned |-> <<>>, input |-> <<>>, output |-> <<>>, append |-> FALSE, bad |-> FALSE], 1)

Builtins == {"echo", "printf", "read", "cd", "pwd", "export", "unset", "exit", ":", "break", "continue"}
Opens(sh, c) ==
  /\ c.input /= <<>> => c.input \in DOMAIN sh.files
  /\ c.output /= <<>> /\ ~ c.append /\ "C" \in sh.opts => c.output \notin DOMAIN sh.files
Ran(sh, status, exit) == [sh |-> sh, status |-> status, exit |-> exit]

(* A file's text after a redirection is opened for it.                      *)
Opened(sh, c) ==
  IF c.output = <<>> THEN sh
  ELSE [sh EXCEPT !.files = (c.output :> (IF c.append /\ c.output \in DOMAIN @ THEN @[c.output] ELSE <<>>)) @@ @]
Written(sh, c, text) ==
  IF c.output = <<>> THEN [sh EXCEPT !.out = @ \o text] ELSE [sh EXCEPT !.files[c.output] = @ \o text]

(* echo is given no options, printf a format that is only text.              *)
Arg(c) == Tail(c.argv)
Named1(a) == [name |-> IF a.assigns = "" THEN a.text ELSE a.assigns, assigns |-> a.assigns /= "", value |-> a.given]
Builtin(sh, c) ==
  LET name == c.argv[1].text
      line == Joined([k \in DOMAIN Arg(c) |-> Arg(c)[k].value], <<Space>>) \o <<Newline>>
      read == IF c.input = <<>> THEN sh.stdin ELSE sh.files[c.input]
      text == Take(read, Span(read, LAMBDA x : x \notin {13, Newline}))
      rest == IF c.input = <<>> THEN [sh EXCEPT !.stdin = Skip(@, Len(text) + 1)] ELSE sh
      dir == IF Arg(c) = <<>> THEN IF "HOME" \in DOMAIN sh.env THEN sh.env["HOME"] ELSE <<>> ELSE Arg(c)[1].value
  IN CASE name = "echo" -> Ran(Written(sh, c, line), 0, FALSE)
       [] name = "printf" -> IF Arg(c) = <<>> THEN Ran(sh, 1, FALSE) ELSE Ran(Written(sh, c, Arg(c)[1].value), 0, FALSE)
       [] name = "read" -> IF read = <<>> THEN Ran(sh, 1, FALSE)
                           ELSE Ran(SetVariable(rest, IF Arg(c) = <<>> THEN "REPLY" ELSE Arg(c)[1].text, text), 0, FALSE)
       [] name = "cd" -> IF dir \in sh.dirs THEN Ran([sh EXCEPT !.cwd = dir], 0, FALSE) ELSE Ran(sh, 1, FALSE)
       [] name = "pwd" -> Ran(Written(sh, c, sh.cwd \o <<Newline>>), 0, FALSE)
       [] name = "export" -> Ran(FoldLeft(LAMBDA s, a : Export(s, Named1(a)), sh, Arg(c)), 0, FALSE)
       [] name = "unset" -> LET gone == {Arg(c)[k].text : k \in DOMAIN Arg(c)} IN Ran([sh EXCEPT !.vars = Without(@, gone), !.env = Without(@, gone)], 0, FALSE)
       [] name = "exit" -> Ran(sh, IF Arg(c) = <<>> THEN 0 ELSE Integer(Arg(c)[1].value), TRUE)
       [] name = ":" -> Ran(sh, 0, FALSE)
       [] name = "break" -> Ran([sh EXCEPT !.breaking = TRUE], 0, FALSE)
       [] name = "continue" -> Ran([sh EXCEPT !.continuing = TRUE], 0, FALSE)

(* ------------------------------- a pipeline ------------------------------ *)
(* A program is a name with the status it ends with, -1 when a signal ends   *)
(* it, 126 when it cannot be run; any other name is not found.  What a       *)
(* program reads and prints is left out.                                    *)
Program == "true" :> 0 @@ "false" :> 1 @@ "three" :> 3 @@ "killed" :> -1 @@ "denied" :> 126
Parts(tokens) ==
  LET cuts == InOrder({p \in DOMAIN tokens : IsOp(tokens, p, {"|"})}, 1, Len(tokens))
      from(k) == IF k = 1 THEN 1 ELSE cuts[k - 1] + 1
  IN [k \in 1 .. Len(cuts) + 1 |-> SubSeq(tokens, from(k), IF k <= Len(cuts) THEN cuts[k] - 1 ELSE Len(tokens))]

(* The commands made ready, one after the other; the first that cannot be    *)
(* ends it, with the files of the ones before it already open.  A part       *)
(* before a pipe does not open the file its output was sent to.              *)
Ready(r, x) ==
  LET c == ShellCommand(r.sh, x.tokens)
      shell == [c.sh EXCEPT !.unset = FALSE]
      piped == IF x.last THEN c ELSE [c EXCEPT !.output = <<>>]
  IN IF r.over THEN r
     ELSE IF c.sh.unset THEN [r EXCEPT !.sh = shell, !.over = TRUE, !.status = 1, !.exit = TRUE]
     ELSE IF c.bad \/ c.argv = <<>> THEN [r EXCEPT !.sh = c.sh, !.over = TRUE, !.status = 2]
     ELSE IF ~ Opens(c.sh, piped) THEN [r EXCEPT !.sh = c.sh, !.over = TRUE, !.status = 1]
     ELSE [r EXCEPT !.sh = Opened(c.sh, piped), !.ready = Append(@, [c EXCEPT !.sh = shell])]

(* They start in order until one cannot; those running are not waited for    *)
(* then.  Otherwise the status is that of the last to fail.  A command with  *)
(* assignments has the environment of the moment it was made ready.          *)
Status(c) == IF c.argv[1].text \in DOMAIN Program THEN Program[c.argv[1].text] ELSE 127
RunCommands(r) ==
  LET cannot == {k \in DOMAIN r.ready : Status(r.ready[k]) \in {126, 127}}
      failed == {k \in DOMAIN r.ready : Status(r.ready[k]) /= 0}
      started == IF cannot = {} THEN r.ready ELSE Take(r.ready, Least(cannot) - 1)
      sh == [r.sh EXCEPT !.ran = @ \o [k \in DOMAIN started |->
                [program |-> started[k].argv[1].text,
                 env |-> FoldLeft(LAMBDA v, a : (a.name :> a.value) @@ v,
                                    IF started[k].assigned = <<>> THEN r.sh.env ELSE started[k].sh.env, started[k].assigned)]]]
  IN IF r.over THEN Ran(r.sh, r.status, r.exit)
     ELSE IF cannot /= {} THEN Ran(sh, Status(r.ready[Least(cannot)]), FALSE)
     ELSE Ran(sh, IF failed = {} THEN 0 ELSE Status(r.ready[-Least({-k : k \in failed})]), FALSE)

RunPipeline(sh, tokens) ==
  LET parts == Parts(tokens)
      c == ShellCommand(sh, parts[1])
      ready(start) == FoldLeft(Ready, [sh |-> start, ready |-> <<>>, over |-> FALSE, status |-> 0, exit |-> FALSE],
                               [k \in DOMAIN parts |-> [tokens |-> parts[k], last |-> k = Len(parts)]])
  IN IF Len(parts) > 1 THEN RunCommands(ready(sh))
     ELSE IF c.sh.unset THEN Ran([c.sh EXCEPT !.unset = FALSE], 1, TRUE)
     ELSE IF c.bad THEN Ran(c.sh, 2, FALSE)
     ELSE IF c.argv = <<>> /\ c.assigned /= <<>> THEN Ran(FoldLeft(LAMBDA s, a : SetVariable(s, a.name, a.value), c.sh, c.assigned), 0, FALSE)
     ELSE IF c.argv /= <<>> /\ c.argv[1].text \in Builtins THEN IF Opens(c.sh, c) THEN Builtin(Opened(c.sh, c), c) ELSE Ran(c.sh, 1, FALSE)
     ELSE RunCommands(ready(c.sh))

(* ------------------------------- statements ------------------------------ *)
Held(sh) == sh.breaking \/ sh.continuing
RECURSIVE RunFrom(_, _, _)
RunFrom(r, statements, k) ==
  LET s == statements[k]
      skipped == (s.guard = "&&" /\ r.status /= 0) \/ (s.guard = "||" /\ r.status = 0) \/ "n" \in r.sh.opts
      x == RunStatement(r.sh, s)
      done == [x EXCEPT !.sh.status = x.status]
      fatal == "e" \in r.sh.opts /\ x.status /= 0 /\ s.guard = ""
  IN IF k > Len(statements) THEN r
     ELSE IF skipped THEN RunFrom(r, statements, k + 1)
     ELSE IF x.exit \/ Held(x.sh) THEN done
     ELSE IF fatal THEN [done EXCEPT !.exit = TRUE]
     ELSE RunFrom(done, statements, k + 1)
RunStatements(sh, statements) == RunFrom(Ran(sh, 0, FALSE), statements, 1)

(* What a loop makes of the end of its body: whether it goes on.             *)
Again(r) == ~ r.exit /\ ~ r.sh.breaking
(* The same, but a continue stays set.                                      *)
KeepsFlag(r) == IF r.exit THEN r ELSE IF r.sh.breaking THEN [r EXCEPT !.sh.breaking = FALSE] ELSE r
AfterBody(r) == IF r.exit THEN r ELSE IF r.sh.breaking THEN [r EXCEPT !.sh.breaking = FALSE] ELSE [r EXCEPT !.sh.continuing = FALSE]

ForEach(r, s, values) ==
  LET b == RunStatements(SetVariable(r.sh, s.var, values[1]), s.body)
  IN IF values = <<>> THEN r
     ELSE IF Again(b) THEN ForEach(AfterBody(b), s, Tail(values)) ELSE AfterBody(b)
(* The values are expanded first; an unquoted one is split into words.       *)
ForValues(sh, list) ==
  FoldLeft(LAMBDA v, t : LET e == Expand(v.sh, t.parts)
                         IN [sh |-> e.sh, values |-> v.values \o (IF t.quoted THEN <<e.text>> ELSE Fields(e.text))],
           [sh |-> sh, values |-> <<>>], list)

(* Turns bounds the loop: it stands for "still running".                     *)
While(r, s, turns) ==
  LET c == RunStatements(r.sh, s.cond)
      b == RunStatements(c.sh, s.body)
  IN IF c.exit THEN c
     ELSE IF c.status /= 0 THEN Ran(c.sh, r.status, FALSE)
     ELSE IF Again(b) /\ turns > 0 THEN While(AfterBody(b), s, turns - 1) ELSE AfterBody(b)

Clauses(sh, s) ==
  LET c == RunStatements(sh, s.clauses[1].cond)
  IN IF s.clauses = <<>> THEN IF s.elseBody = <<>> THEN Ran(sh, 0, FALSE) ELSE RunStatements(sh, s.elseBody)
     ELSE IF c.exit THEN c
     ELSE IF c.status = 0 THEN RunStatements(c.sh, s.clauses[1].body)
     ELSE Clauses(c.sh, [s EXCEPT !.clauses = Tail(@)])

Turns == 3
RunStatement(sh, s) ==
  LET v == ForValues(sh, s.list)
  IN CASE s.kind = "pipeline" -> RunPipeline(sh, s.tokens)
       [] s.kind = "if" -> Clauses(sh, s)
       [] s.kind = "for" -> ForEach(Ran(v.sh, 0, FALSE), s, v.values)
       [] s.kind = "while" -> While(Ran(sh, 0, FALSE), s, Turns)

(* An interactive shell runs line after line, a blank one left out, until    *)
(* one of them exits.                                                       *)
RECURSIVE Interactive(_, _)
Interactive(r, lines) ==
  IF lines = <<>> \/ r.exit THEN r
  ELSE Interactive(IF lines[1].blank THEN r ELSE RunSource(r.sh, lines[1].tokens), Tail(lines))

(* cmdSh: the options' letters, and a fresh shell for the script.            *)
Letters == {"a", "b", "C", "e", "f", "i", "m", "n", "u", "v", "x", "s", "c"}
RootDir == <<47>>
Fresh(opts, params, env, files) ==
  [vars |-> params, env |-> env, status |-> 0, breaking |-> FALSE, continuing |-> FALSE, unset |-> FALSE, opts |-> opts,
   files |-> files, dirs |-> {RootDir}, cwd |-> RootDir, stdin |-> <<>>, out |-> <<>>, ran |-> <<>>]
Sh(opts, params, env, files, tokens) ==
  IF ~ opts \subseteq Letters THEN Ran(Fresh({}, params, env, files), 2, TRUE) ELSE RunSource(Fresh(opts, params, env, files), tokens)
=============================================================================
