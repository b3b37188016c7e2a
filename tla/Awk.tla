--------------------------------- MODULE Awk ---------------------------------
(* awk.go: a program's text cut into rules and statements, the statements    *)
(* run, and the expressions parsed and computed in one go.  A value is        *)
(* [text, number, numeric]; numbers are whole, below a million (their text   *)
(* has an exponent from there on), every quotient is exact, and the sign of a *)
(* zero is left out.  A token is [kind, name, text, n, regex]; a regular      *)
(* expression is literal characters, anchored or not.  printf and sprintf,    *)
(* whose formats StreamTools has, are left out.                              *)
EXTENDS Text

RECURSIVE Decimal(_)
Decimal(n) ==
  IF n < 0 THEN <<Minus>> \o Decimal(-n) ELSE IF n > 9 THEN Decimal(n \div 10) \o <<48 + (n % 10)>> ELSE <<48 + n>>
Str(s) == [text |-> s, number |-> 0, numeric |-> FALSE]
Num(n) == [text |-> Decimal(n), number |-> n, numeric |-> TRUE]
Bool(b) == Num(IF b THEN 1 ELSE 0)

(* strconv.ParseFloat of the trimmed text: all of it is a number or none is. *)
Plus == 43
Unsigned(t) == IF t /= <<>> /\ t[1] \in {Minus, Plus} THEN Tail(t) ELSE t
ReadsAsNumber(s) == LET d == Unsigned(TrimSpace(s)) IN d /= <<>> /\ Span(d, IsDigit) = Len(d)
NumberIn(s) ==
  LET t == TrimSpace(s)
      n == Digits(Unsigned(t))
  IN IF ~ ReadsAsNumber(s) THEN 0 ELSE IF t[1] = Minus THEN -n ELSE n
Literal(s) == IF ReadsAsNumber(s) THEN [text |-> s, number |-> NumberIn(s), numeric |-> TRUE] ELSE Str(s)
AsNumber(v) == IF v.numeric THEN v.number ELSE NumberIn(v.text)
Truth(v) == IF v.numeric THEN v.number /= 0 ELSE v.text /= <<>> /\ (ReadsAsNumber(v.text) => NumberIn(v.text) /= 0)

(* --------------------------- variables and fields -------------------------- *)
(* The context c: [vars, arrays, record, fields, nr, fnr, next, exiting,      *)
(* breaking, continuing, status, out, error].                               *)
FieldLimit == 4      \* awkFieldLimit, 65536
Get(c, name) ==
  CASE name = "NR" -> Num(c.nr) [] name = "FNR" -> Num(c.fnr) [] name = "NF" -> Num(Len(c.fields))
    [] OTHER -> IF name \in DOMAIN c.vars THEN c.vars[name] ELSE Str(<<>>)
Escaped == 116 :> Tab @@ 110 :> Newline @@ 102 :> 12 @@ 114 :> 13 @@ 118 :> 11 @@ 97 :> 7 @@ 98 :> 8
Backslash == 92
(* One character is itself, and so is an escaped one; longer is a pattern.   *)
Separator(fs) ==
  IF fs \in {<<>>, <<Space>>} THEN [kind |-> "blank"]
  ELSE IF Len(fs) = 1 THEN [kind |-> "char", text |-> fs]
  ELSE IF fs[1] = Backslash /\ Len(fs) = 2 THEN [kind |-> "char", text |-> <<IF fs[2] \in DOMAIN Escaped THEN Escaped[fs[2]] ELSE fs[2]>>]
  ELSE [kind |-> "regex", text |-> fs]

(* Where a pattern is found: the starts, from 0, not before a place.         *)
Found(r, s, from) ==
  {k \in from .. Len(s) - Len(r.text) : (r.start => k = from) /\ SubSeq(s, k + 1, k + Len(r.text)) = r.text}
RECURSIVE SplitAt(_, _)
SplitAt(text, s) ==
  LET at == Found([text |-> text, start |-> FALSE], s, 0)
      k == Least(at)
  IN IF at = {} THEN <<s>> ELSE <<Take(s, k)>> \o SplitAt(text, Skip(s, k + Len(text)))
SplitBy(fs, s) == LET sep == Separator(fs) IN IF sep.kind = "blank" THEN Fields(s) ELSE SplitAt(sep.text, s)

SplitRecord(c) == [c EXCEPT !.fields = SplitBy(Get(c, "FS").text, c.record)]
Field(c, n) == IF n = 0 THEN Str(c.record) ELSE IF n < 0 \/ n > Len(c.fields) THEN Str(<<>>) ELSE Literal(c.fields[n])
Wrong(c) == [c EXCEPT !.error = TRUE]
SetField(c, n, s) ==
  LET grown == [k \in 1 .. (IF n > Len(c.fields) THEN n ELSE Len(c.fields)) |-> IF k = n THEN s ELSE IF k <= Len(c.fields) THEN c.fields[k] ELSE <<>>]
  IN CASE n < 0 \/ n > FieldLimit -> Wrong(c)
       [] n = 0 -> SplitRecord([c EXCEPT !.record = s])
       [] OTHER -> [c EXCEPT !.fields = grown, !.record = Joined(grown, Get(c, "OFS").text)]

(* A place to assign to: a variable, a field, or an element of an array.     *)
Element(c, a, key) == IF a \in DOMAIN c.arrays /\ key \in DOMAIN c.arrays[a] THEN c.arrays[a][key] ELSE Str(<<>>)
ReadPlace(c, p) == CASE p.kind = "var" -> Get(c, p.name) [] p.kind = "field" -> Field(c, p.n) [] p.kind = "element" -> Element(c, p.name, p.key)
Array(c, a) == IF a \in DOMAIN c.arrays THEN c.arrays[a] ELSE <<>>
Assign(c, p, v) ==
  CASE p.kind = "var" -> [c EXCEPT !.vars = (p.name :> v) @@ @]
    [] p.kind = "field" -> SetField(c, p.n, v.text)
    [] p.kind = "element" -> [c EXCEPT !.arrays = (p.name :> ((p.key :> v) @@ Array(c, p.name))) @@ @]

(* -------------------------------- functions ------------------------------- *)
Ampersand == 38
RECURSIVE Replacement(_, _)
Replacement(s, matched) ==
  IF s = <<>> THEN <<>>
  ELSE IF s[1] = Backslash /\ Len(s) > 1 /\ s[2] \in {Ampersand, Backslash} THEN <<s[2]>> \o Replacement(Skip(s, 2), matched)
  ELSE (IF s[1] = Ampersand THEN matched ELSE <<s[1]>>) \o Replacement(Tail(s), matched)

(* sub and gsub, from place p on: an empty match does not count right after  *)
(* another match, and takes the next character along.                       *)
RECURSIVE SubstituteFrom(_, _, _, _, _)
SubstituteFrom(r, s, new, global, x) ==
  LET at == Found(r, s, x.p)
      k == Least(at)
      e == k + Len(r.text)
      empty == r.text = <<>>
      next == IF k < Len(s) THEN <<s[k + 1]>> ELSE <<>>
      taken == [x EXCEPT !.out = @ \o SubSeq(s, x.p + 1, k) \o Replacement(new, SubSeq(s, k + 1, e)) \o (IF empty THEN next ELSE <<>>),
                         !.p = IF empty THEN e + 1 ELSE e, !.last = e, !.n = @ + 1]
      passed == [x EXCEPT !.out = @ \o SubSeq(s, x.p + 1, k) \o next, !.p = k + 1]
  IN IF x.p > Len(s) \/ at = {} THEN x
     ELSE IF empty /\ k = x.last THEN SubstituteFrom(r, s, new, global, passed)
     ELSE IF global THEN SubstituteFrom(r, s, new, global, taken) ELSE taken
Substitute(r, s, new, global) ==
  LET x == SubstituteFrom(r, s, new, global, [p |-> 0, last |-> -1, n |-> 0, out |-> <<>>])
  IN [text |-> x.out \o Skip(s, x.p), n |-> x.n]

(* substr clamps the start before it counts the length.                     *)
Substr(s, from, len) ==
  LET start == IF from < 1 THEN 0 ELSE IF from - 1 > Len(s) THEN Len(s) ELSE from - 1
      end == IF len.given /\ start + len.n < Len(s) THEN start + len.n ELSE Len(s)
  IN [ok |-> end >= start, text |-> IF end >= start THEN SubSeq(s, start + 1, end) ELSE <<>>]
Index(s, t) == LET at == Found([text |-> t, start |-> FALSE], s, 0) IN IF at = {} THEN 0 ELSE Least(at) + 1

(* ------------------------------- expressions ------------------------------ *)
(* A result e is [ok, c, v, pos].                                           *)
Fail(c) == [ok |-> FALSE, c |-> Wrong(c), v |-> Str(<<>>), pos |-> 0]
Ok(c, v, pos) == [ok |-> TRUE, c |-> c, v |-> v, pos |-> pos]
Kind(t, pos) == IF pos <= Len(t) THEN t[pos].kind ELSE "end"
IsOp(t, pos, ops) == Kind(t, pos) = "operator" /\ t[pos].name \in ops
IsIn(t, pos) == Kind(t, pos) = "name" /\ t[pos].name = "in"
StartsTerm(t, pos) == (Kind(t, pos) \in {"string", "regex", "number", "name"} /\ ~ IsIn(t, pos)) \/ IsOp(t, pos, {"(", "$", "!"})
Comparisons == {"==", "!=", "<", "<=", ">", ">="}

(* The levels: 1 ||, 2 &&, 3 in, 4 a comparison, 5 two operands side by      *)
(* side, 6 a sum, 7 a product, 8 one operand.  Both sides of || and && are   *)
(* computed, whatever the first one is.  A sum and a product look for their  *)
(* operators by the text alone, so that a literal "-" is one of them too.     *)
Operators == <<{"||"}, {"&&"}, {}, {}, {}, {"+", "-"}, {"*", "/", "%"}>>
Spelling == "+" :> <<43>> @@ "-" :> <<45>> @@ "*" :> <<42>> @@ "/" :> <<47>> @@ "%" :> <<37>>
Spelled(t, pos) ==
  CASE Kind(t, pos) = "operator" -> t[pos].name
    [] Kind(t, pos) \in {"string", "regex"} ->
         LET text == IF Kind(t, pos) = "string" THEN t[pos].text ELSE IF t[pos].regex.start THEN <<>> ELSE t[pos].regex.text
         IN IF text \in Range(Spelling) THEN CHOOSE op \in DOMAIN Spelling : Spelling[op] = text ELSE ""
    [] OTHER -> ""
Goes(t, pos, level) ==
  CASE level = 3 -> IsIn(t, pos)
    [] level = 5 -> StartsTerm(t, pos)
    [] level \in {6, 7} -> Spelled(t, pos) \in Operators[level]
    [] OTHER -> IsOp(t, pos, Operators[level])
Quotient(x, y) == IF (x < 0) = (y < 0) THEN (IF x < 0 THEN -x ELSE x) \div (IF y < 0 THEN -y ELSE y)
                  ELSE -((IF x < 0 THEN -x ELSE x) \div (IF y < 0 THEN -y ELSE y))
Combined(op, l, r) ==
  CASE op = "||" -> Bool(Truth(l) \/ Truth(r))
    [] op = "&&" -> Bool(Truth(l) /\ Truth(r))
    [] op = "+" -> Num(AsNumber(l) + AsNumber(r))
    [] op = "-" -> Num(AsNumber(l) - AsNumber(r))
    [] op = "*" -> Num(AsNumber(l) * AsNumber(r))
    [] op = "/" -> Num(Quotient(AsNumber(l), AsNumber(r)))
    [] op = "%" -> Num(AsNumber(l) - AsNumber(r) * Quotient(AsNumber(l), AsNumber(r)))
(* Two numbers are compared as numbers, anything else as text.              *)
CompareValues(l, r) == IF l.numeric /\ r.numeric THEN Sign(l.number - r.number) ELSE Compare(l.text, r.text)
Compared(op, l, r) ==
  LET n == CompareValues(l, r)
  IN Bool(CASE op = "==" -> n = 0 [] op = "!=" -> n /= 0 [] op = "<" -> n < 0 [] op = "<=" -> n <= 0 [] op = ">" -> n > 0 [] op = ">=" -> n >= 0)

RECURSIVE Level(_, _, _, _), Rest(_, _, _), Unary(_, _, _), Primary(_, _, _), Call(_, _, _, _), Arguments(_, _, _)
Regex(text) == [text |-> text, start |-> FALSE]
(* A pattern, as a literal or as the text of an expression.                 *)
RegexOperand(t, c, pos) ==
  LET e == Level(t, c, pos, 6)
  IN IF Kind(t, pos) = "regex" THEN [ok |-> TRUE, c |-> c, r |-> t[pos].regex, pos |-> pos + 1]
     ELSE [ok |-> e.ok, c |-> e.c, r |-> Regex(e.v.text), pos |-> e.pos]

Comparison(t, left) ==
  LET op == t[left.pos].name
      right == Level(t, left.c, left.pos + 1, 5)
      p == RegexOperand(t, left.c, left.pos + 1)
      hit == Found(p.r, left.v.text, 0) /= {}
  IN CASE left.ok /\ IsOp(t, left.pos, Comparisons) -> IF right.ok THEN Ok(right.c, Compared(op, left.v, right.v), right.pos) ELSE right
       [] left.ok /\ IsOp(t, left.pos, {"~", "!~"}) -> IF p.ok THEN Ok(p.c, Bool(hit = (op = "~")), p.pos) ELSE Fail(p.c)
       [] OTHER -> left

Level(t, c, pos, level) ==
  CASE level = 8 -> Unary(t, c, pos)
    [] level = 4 -> Comparison(t, Level(t, c, pos, 5))
    [] OTHER -> Rest(t, level, Level(t, c, pos, level + 1))
Rest(t, level, left) ==
  LET right == Level(t, left.c, IF level = 5 THEN left.pos ELSE left.pos + 1, level + 1)
      op == Spelled(t, left.pos)
      a == t[left.pos + 1].name
  IN IF ~ left.ok \/ ~ Goes(t, left.pos, level) THEN left
     ELSE IF level = 3 THEN
       IF Kind(t, left.pos + 1) /= "name" THEN Fail(left.c)
       ELSE Rest(t, level, Ok(left.c, Bool(left.v.text \in DOMAIN Array(left.c, a)), left.pos + 2))
     ELSE IF ~ right.ok THEN right
     ELSE IF level = 7 /\ op /= "*" /\ AsNumber(right.v) = 0 THEN Fail(right.c)
     ELSE Rest(t, level, [right EXCEPT !.v = IF level = 5 THEN Str(left.v.text \o right.v.text) ELSE Combined(op, left.v, right.v)])

Unary(t, c, pos) ==
  LET e == Unary(t, c, pos + 1)
      On(v) == IF e.ok THEN [e EXCEPT !.v = v] ELSE e
  IN CASE IsOp(t, pos, {"!"}) -> On(Bool(~ Truth(e.v)))
       [] IsOp(t, pos, {"-"}) -> On(Num(-AsNumber(e.v)))
       [] IsOp(t, pos, {"+"}) -> e
       [] IsOp(t, pos, {"$"}) -> On(Field(e.c, AsNumber(e.v)))
       [] OTHER -> Primary(t, c, pos)

(* a[i, j] has the parts of its subscript joined by SUBSEP.                  *)
Subscript(t, c, pos) ==
  LET k == Arguments(t, [ok |-> TRUE, c |-> c, values |-> <<>>, pos |-> pos], "]")
      texts == [i \in DOMAIN k.values |-> k.values[i].text]
  IN IF k.ok /\ k.values /= <<>> THEN Ok(k.c, Str(Joined(texts, Get(k.c, "SUBSEP").text)), k.pos) ELSE Fail(k.c)

Primary(t, c, pos) ==
  LET inner == Level(t, c, pos + 1, 1)
      key == Subscript(t, c, pos + 2)
      k == Kind(t, pos)
  IN CASE IsOp(t, pos, {"("}) -> IF inner.ok /\ IsOp(t, inner.pos, {")"}) THEN [inner EXCEPT !.pos = @ + 1] ELSE Fail(inner.c)
       [] k = "string" -> Ok(c, Str(t[pos].text), pos + 1)
       [] k = "regex" -> Ok(c, Bool(Found(t[pos].regex, c.record, 0) /= {}), pos + 1)
       [] k = "number" -> Ok(c, Num(t[pos].n), pos + 1)
       [] k = "name" -> IF IsOp(t, pos + 1, {"("}) THEN Call(t, c, pos + 2, t[pos].name)
                        ELSE IF t[pos].name = "length" THEN Ok(c, Num(Len(c.record)), pos + 1)
                        ELSE IF IsOp(t, pos + 1, {"["}) THEN IF key.ok THEN [key EXCEPT !.v = Element(key.c, t[pos].name, key.v.text)] ELSE key
                        ELSE Ok(c, Get(c, t[pos].name), pos + 1)
       [] OTHER -> Fail(c)

(* The arguments up to the closing bracket.                                 *)
Arguments(t, a, closer) ==
  LET e == Level(t, a.c, a.pos, 1)
      more == [a EXCEPT !.c = e.c, !.values = Append(@, e.v), !.pos = e.pos + 1]
  IN IF a.values = <<>> /\ IsOp(t, a.pos, {closer}) THEN [a EXCEPT !.pos = @ + 1]
     ELSE IF ~ e.ok THEN [a EXCEPT !.ok = FALSE, !.c = e.c]
     ELSE IF IsOp(t, e.pos, {closer}) THEN more
     ELSE IF IsOp(t, e.pos, {","}) THEN Arguments(t, more, closer) ELSE [a EXCEPT !.ok = FALSE, !.c = Wrong(e.c)]

(* What sub and gsub change: $0, or the variable, field or element named.    *)
Place(t, c, pos) ==
  LET f == Unary(t, c, pos + 1)
      key == Subscript(t, c, pos + 2)
  IN CASE IsOp(t, pos, {"$"}) -> [ok |-> f.ok, c |-> f.c, place |-> [kind |-> "field", n |-> AsNumber(f.v)], pos |-> f.pos]
       [] Kind(t, pos) = "name" ->
            IF IsOp(t, pos + 1, {"["}) THEN [ok |-> key.ok, c |-> key.c, place |-> [kind |-> "element", name |-> t[pos].name, key |-> key.v.text], pos |-> key.pos]
            ELSE [ok |-> TRUE, c |-> c, place |-> [kind |-> "var", name |-> t[pos].name], pos |-> pos + 1]
       [] OTHER -> [ok |-> FALSE, c |-> Wrong(c)]
SubCall(t, c, pos, global) ==
  LET p == RegexOperand(t, c, pos)
      new == Level(t, p.c, p.pos + 1, 1)
      given == IsOp(t, new.pos, {","})
      x == IF given THEN Place(t, new.c, new.pos + 1) ELSE [ok |-> TRUE, c |-> new.c, place |-> [kind |-> "field", n |-> 0], pos |-> new.pos]
      r == Substitute(p.r, ReadPlace(x.c, x.place).text, new.v.text, global)
      done == IF r.n > 0 THEN Assign(x.c, x.place, Str(r.text)) ELSE x.c
  IN IF ~ p.ok \/ ~ IsOp(t, p.pos, {","}) THEN Fail(p.c)
     ELSE IF ~ new.ok \/ ~ x.ok \/ ~ IsOp(t, x.pos, {")"}) THEN Fail(new.c)
     ELSE IF done.error THEN Fail(done) ELSE Ok(done, Num(r.n), x.pos + 1)

(* split: an empty text has no parts at all.                                *)
SplitCall(t, c, pos) ==
  LET s == Level(t, c, pos, 1)
      p == RegexOperand(t, s.c, s.pos + 3)
      given == IsOp(t, s.pos + 2, {","})
      fs == IF given THEN p.r.text ELSE Get(s.c, "FS").text
      parts == IF s.v.text = <<>> THEN <<>> ELSE SplitBy(fs, s.v.text)
      end == IF given THEN p.pos ELSE s.pos + 2
      c2 == IF given THEN p.c ELSE s.c
      array == [key \in {Decimal(k) : k \in DOMAIN parts} |-> Literal(parts[CHOOSE k \in DOMAIN parts : Decimal(k) = key])]
  IN IF ~ s.ok \/ ~ IsOp(t, s.pos, {","}) \/ Kind(t, s.pos + 1) /= "name" THEN Fail(s.c)
     ELSE IF (given /\ ~ p.ok) \/ ~ IsOp(t, end, {")"}) THEN Fail(c2)
     ELSE Ok([c2 EXCEPT !.arrays = (t[s.pos + 1].name :> array) @@ @], Num(Len(parts)), end + 1)

MatchCall(t, c, pos) ==
  LET s == Level(t, c, pos, 1)
      p == RegexOperand(t, s.c, s.pos + 1)
      at == Found(p.r, s.v.text, 0)
      start == IF at = {} THEN 0 ELSE Least(at) + 1
      length == IF at = {} THEN -1 ELSE Len(p.r.text)
  IN IF ~ s.ok \/ ~ IsOp(t, s.pos, {","}) \/ ~ p.ok \/ ~ IsOp(t, p.pos, {")"}) THEN Fail(s.c)
     ELSE Ok([p.c EXCEPT !.vars = "RSTART" :> Num(start) @@ "RLENGTH" :> Num(length) @@ @], Num(start), p.pos + 1)
(* length of the record, of an array that is there, or of a text.            *)
LengthCall(t, c, pos) ==
  LET e == Level(t, c, pos, 1)
  IN CASE IsOp(t, pos, {")"}) -> Ok(c, Num(Len(c.record)), pos + 1)
       [] OTHER -> IF Kind(t, pos) = "name" /\ IsOp(t, pos + 1, {")"}) /\ t[pos].name \in DOMAIN c.arrays
                   THEN Ok(c, Num(Cardinality(DOMAIN c.arrays[t[pos].name])), pos + 2)
                   ELSE IF e.ok /\ IsOp(t, e.pos, {")"}) THEN Ok(e.c, Num(Len(e.v.text)), e.pos + 1) ELSE Fail(e.c)

Call(t, c, pos, name) ==
  LET a == Arguments(t, [ok |-> TRUE, c |-> c, values |-> <<>>, pos |-> pos], ")")
      n == Len(a.values)
      arg(k) == a.values[k]
      piece == Substr(arg(1).text, AsNumber(arg(2)), [given |-> n = 3, n |-> IF n = 3 THEN AsNumber(arg(3)) ELSE 0])
  IN CASE name \in {"sub", "gsub"} -> SubCall(t, c, pos, name = "gsub")
       [] name = "split" -> SplitCall(t, c, pos)
       [] name = "match" -> MatchCall(t, c, pos)
       [] name = "length" -> LengthCall(t, c, pos)
       [] OTHER ->
            IF ~ a.ok THEN Fail(a.c)
            ELSE IF name = "int" /\ n = 1 THEN Ok(a.c, Num(AsNumber(arg(1))), a.pos)
            ELSE IF name = "tolower" /\ n = 1 THEN Ok(a.c, Str(LowerAll(arg(1).text)), a.pos)
            ELSE IF name = "toupper" /\ n = 1 THEN Ok(a.c, Str(Mapped(arg(1).text, Upper)), a.pos)
            ELSE IF name = "substr" /\ n \in {2, 3} /\ piece.ok THEN Ok(a.c, Str(piece.text), a.pos)
            ELSE IF name = "index" /\ n = 2 THEN Ok(a.c, Num(Index(arg(1).text, arg(2).text)), a.pos)
            ELSE Fail(a.c)

Eval(c, t) == LET e == Level(t, c, 1, 1) IN IF e.ok /\ e.pos /= Len(t) + 1 THEN Fail(e.c) ELSE e

(* ------------------------------- statements ------------------------------- *)
Stopped(c) == c.next \/ c.exiting \/ c.breaking \/ c.continuing \/ c.error
RECURSIVE RunAction(_, _), RunStatement(_, _), Repeat(_, _, _), ForIn(_, _, _)
RunAction(c, action) ==
  LET d == RunStatement(c, action[1])
  IN IF action = <<>> THEN c ELSE IF Stopped(d) THEN d ELSE RunAction(d, Tail(action))

(* One turn of a loop's body: a break or continue ends here.                 *)
LoopBody(c, body) ==
  LET d == RunStatement(c, body)
  IN IF d.error THEN [stop |-> TRUE, c |-> d]
     ELSE IF d.breaking THEN [stop |-> TRUE, c |-> [d EXCEPT !.breaking = FALSE]]
     ELSE [stop |-> d.next \/ d.exiting, c |-> [d EXCEPT !.continuing = FALSE]]

(* while, do and for: s is [cond, body, post, first]; a do's first turn asks  *)
(* nothing.  Turns bounds the loop, standing for "still running".            *)
Turns == 6
Repeat(c, s, turns) ==
  LET asked == IF s.cond = <<>> \/ s.first THEN [ok |-> TRUE, c |-> c, v |-> Num(1)] ELSE Eval(c, s.cond)
      b == LoopBody(asked.c, s.body)
      after == IF s.post = <<>> THEN b.c ELSE RunStatement(b.c, s.post[1])
  IN IF ~ asked.ok \/ ~ Truth(asked.v) \/ turns = 0 THEN asked.c
     ELSE IF b.stop THEN b.c
     ELSE IF after.error THEN after ELSE Repeat(after, [s EXCEPT !.first = FALSE], turns - 1)
(* The keys of an array come in some order, those deleted before their turn  *)
(* left out.  The body neither adds to that array nor replaces it.           *)
ForIn(c, s, keys) ==
  LET b == LoopBody([c EXCEPT !.vars = (s.key :> Literal(keys[1])) @@ @], s.body)
  IN IF keys = <<>> THEN c
     ELSE IF keys[1] \notin DOMAIN Array(c, s.array) THEN ForIn(c, s, Tail(keys))
     ELSE IF b.stop THEN b.c ELSE ForIn(b.c, s, Tail(keys))

Changed(op, old, v) ==
  CASE op = "=" -> v
    [] op = "+=" -> Num(old + AsNumber(v))
    [] op = "-=" -> Num(old - AsNumber(v))
    [] op = "*=" -> Num(old * AsNumber(v))
    [] op = "/=" -> Num(Quotient(old, AsNumber(v)))
    [] op = "++" -> Num(old + 1)
    [] op = "--" -> Num(old - 1)
(* All that stands after a $ says which field it is.                        *)
AssignedPlace(t, c) ==
  LET f == Eval(c, Tail(t))
      p == Place(t, c, 1)
  IN IF IsOp(t, 1, {"$"}) THEN [ok |-> f.ok, c |-> f.c, place |-> [kind |-> "field", n |-> AsNumber(f.v)]]
     ELSE IF p.ok /\ p.pos = Len(t) + 1 THEN p ELSE [ok |-> FALSE, c |-> Wrong(p.c)]
Assignment(c, s) ==
  LET p == AssignedPlace(s.target, c)
      e == IF s.op \in {"++", "--"} THEN Ok(p.c, Num(1), 1) ELSE Eval(p.c, s.value)
  IN IF ~ p.ok THEN Wrong(p.c)
     ELSE IF ~ e.ok \/ (s.op = "/=" /\ AsNumber(e.v) = 0) THEN Wrong(e.c)
     ELSE Assign(e.c, p.place, Changed(s.op, AsNumber(ReadPlace(e.c, p.place)), e.v))
Delete(c, s) ==
  LET e == Eval(c, s.key)
  IN IF s.key = <<>> THEN [c EXCEPT !.arrays = [a \in DOMAIN @ \ {s.name} |-> @[a]]]
     ELSE IF ~ e.ok \/ s.name \notin DOMAIN c.arrays THEN e.c
     ELSE [e.c EXCEPT !.arrays[s.name] = [k \in DOMAIN @ \ {e.v.text} |-> @[k]]]

EvalAll(c, list) ==
  FoldLeft(LAMBDA a, t : LET e == Eval(a.c, t) IN IF a.ok THEN [ok |-> e.ok, c |-> e.c, texts |-> Append(a.texts, e.v.text)] ELSE a,
           [ok |-> TRUE, c |-> c, texts |-> <<>>], list)
PrintItems(c, s) ==
  LET a == EvalAll(c, s.list)
      text == IF s.list = <<>> THEN c.record ELSE Joined(a.texts, Get(a.c, "OFS").text)
  IN IF a.ok THEN [a.c EXCEPT !.out = @ \o text \o Get(a.c, "ORS").text] ELSE a.c
Exit(c, s) ==
  LET e == Eval([c EXCEPT !.exiting = TRUE], s.value)
  IN IF s.value = <<>> THEN [c EXCEPT !.exiting = TRUE] ELSE IF e.ok THEN [e.c EXCEPT !.status = AsNumber(e.v)] ELSE e.c

RunStatement(c, s) ==
  LET e == Eval(c, s.cond)
      keys == SetToSeq(DOMAIN Array(c, s.array))
      begun == IF s.init = <<>> THEN c ELSE RunStatement(c, s.init[1])
      loop == [cond |-> s.cond, body |-> s.body, post |-> IF s.kind = "for" THEN s.post ELSE <<>>, first |-> s.kind = "do"]
  IN CASE s.kind = "block" -> RunAction(c, s.body)
       [] s.kind = "if" -> IF ~ e.ok THEN e.c ELSE RunAction(e.c, IF Truth(e.v) THEN <<s.body>> ELSE s.other)
       [] s.kind \in {"while", "do"} -> Repeat(c, loop, Turns)
       [] s.kind = "for" -> IF begun.error THEN begun ELSE Repeat(begun, loop, Turns)
       [] s.kind = "forin" -> ForIn(c, s, keys)
       [] s.kind = "delete" -> Delete(c, s)
       [] s.kind = "break" -> [c EXCEPT !.breaking = TRUE]
       [] s.kind = "continue" -> [c EXCEPT !.continuing = TRUE]
       [] s.kind = "next" -> [c EXCEPT !.next = TRUE]
       [] s.kind = "exit" -> Exit(c, s)
       [] s.kind = "print" -> PrintItems(c, s)
       [] s.kind = "assign" -> Assignment(c, s)
       [] s.kind = "expression" -> Eval(c, s.value).c

(* ---------------------------------- rules --------------------------------- *)
(* A rule is [kind, pattern, second, action]; ranges says which are open.    *)
Matched(c, t) == IF t = <<>> THEN [ok |-> TRUE, c |-> c, yes |-> TRUE] ELSE LET e == Eval(c, t) IN [ok |-> e.ok, c |-> e.c, yes |-> Truth(e.v)]
MatchesRule(c, r, open) ==
  LET m == Matched(c, r.pattern)
      e == Matched(IF open THEN c ELSE m.c, r.second)
  IN IF r.second = <<>> THEN [c |-> m.c, yes |-> m.yes, open |-> FALSE]
     ELSE IF ~ open /\ (~ m.ok \/ ~ m.yes) THEN [c |-> m.c, yes |-> FALSE, open |-> FALSE]
     ELSE [c |-> e.c, yes |-> e.ok, open |-> ~ (e.ok /\ e.yes)]

ApplyRule(x, rules, k) ==
  LET m == MatchesRule(x.c, rules[k], x.ranges[k])
  IN IF x.c.next \/ x.c.exiting \/ x.c.error \/ rules[k].kind /= "record" THEN x
     ELSE [c |-> IF m.yes /\ ~ m.c.error THEN RunAction(m.c, rules[k].action) ELSE m.c, ranges |-> [x.ranges EXCEPT ![k] = m.open]]

Record(x, rules, line) ==
  LET read == SplitRecord([x.c EXCEPT !.nr = @ + 1, !.fnr = @ + 1, !.record = line])
  IN IF x.c.exiting \/ x.c.error THEN x
     ELSE FoldLeft(LAMBDA y, k : ApplyRule(y, rules, k), [x EXCEPT !.c = [read EXCEPT !.next = FALSE]], Between(1, Len(rules)))

File(x, rules, lines) ==
  IF x.c.exiting \/ x.c.error THEN x ELSE FoldLeft(LAMBDA y, l : Record(y, rules, l), [x EXCEPT !.c.fnr = 0], lines)
(* The BEGIN and END rules: what next, break or exit left behind stays.      *)
Special(c, rules, kind) ==
  FoldLeft(LAMBDA d, r : IF r.kind = kind /\ ~ d.error THEN RunAction(d, r.action) ELSE d, c, rules)
Start(vars) ==
  [vars |-> vars, arrays |-> <<>>, record |-> <<>>, fields |-> <<>>, nr |-> 0, fnr |-> 0, next |-> FALSE, exiting |-> FALSE,
   breaking |-> FALSE, continuing |-> FALSE, status |-> 0, out |-> <<>>, error |-> FALSE]
Awk(vars, rules, files) ==
  LET begun == Special(Start(vars), rules, "BEGIN")
      read == FoldLeft(LAMBDA x, f : File(x, rules, f), [c |-> begun, ranges |-> [k \in DOMAIN rules |-> FALSE]], files).c
      c == Special(IF begun.exiting THEN begun ELSE read, rules, "END")
  IN [out |-> c.out, status |-> IF c.error THEN 2 ELSE c.status, c |-> c]

(* --------------------------- the program's text --------------------------- *)
(* The text is a sequence of units: keywords, brackets, ends of statements,   *)
(* and words, a literal being one word.                                     *)
Openers == {"(", "{", "["}
Closers == {")", "}", "]"}
Blank == {";", "nl"}
Depth(u, from, to) ==
  Cardinality({i \in from .. to : u[i] \in Openers}) - Cardinality({i \in from .. to : u[i] \in Closers})
SkipSpace(u, pos) == Least({i \in pos .. Len(u) : u[i] \notin Blank} \cup {IF pos > Len(u) THEN pos ELSE Len(u) + 1})
Closing(u, open) ==
  LET c == IF u[open] = "{" THEN "}" ELSE ")"
      at == {i \in open .. Len(u) : u[i] = c /\ Depth(u, open, i) = 0}
  IN IF at = {} THEN 0 ELSE Least(at)
At(u, pos, word) == pos <= Len(u) /\ u[pos] = word

(* The unit after the one statement that begins here; an if has its else.    *)
RECURSIVE StatementEnd(_, _)
StatementEnd(u, from) ==
  LET s == SkipSpace(u, from)
      all == Len(u) + 1
      plain == Least({i \in s .. Len(u) : u[i] \in Blank /\ Depth(u, s, i) = 0} \cup {all})
      open == SkipSpace(u, s + 1)
      close == IF At(u, open, "(") THEN Closing(u, open) ELSE 0
      body == StatementEnd(u, close + 1)
      other == SkipSpace(u, body)
      done == StatementEnd(u, s + 1)
      while == SkipSpace(u, done)
      last == SkipSpace(u, while + 1)
      after == IF At(u, last, "(") /\ Closing(u, last) /= 0 THEN SkipSpace(u, Closing(u, last) + 1) ELSE done
  IN CASE s > Len(u) -> all
       [] At(u, s, "{") -> IF Closing(u, s) = 0 THEN all ELSE Closing(u, s) + 1
       [] At(u, s, "if") -> IF close = 0 THEN all ELSE IF At(u, other, "else") THEN StatementEnd(u, other + 1) ELSE body
       [] At(u, s, "for") \/ At(u, s, "while") -> IF close = 0 THEN all ELSE body
       [] At(u, s, "do") -> IF ~ At(u, while, "while") THEN done ELSE after
       [] OTHER -> plain
RECURSIVE Statements(_, _)
Statements(u, from) ==
  LET s == SkipSpace(u, from)
      e == StatementEnd(u, s)
  IN IF s > Len(u) THEN <<>> ELSE <<SubSeq(u, s, e - 1)>> \o Statements(u, e)

(* The rules: a pattern up to its brace, BEGIN, END, one or two with a comma  *)
(* between them, and the action in it; one never closed is an error.         *)
RuleAs(pattern, action) ==
  LET cuts == InOrder({i \in DOMAIN pattern : pattern[i] = "," /\ Depth(pattern, 1, i) = 0}, 1, Len(pattern))
      two == Len(cuts) = 1
  IN [kind |-> "record", action |-> action,
      pattern |-> IF two THEN Take(pattern, cuts[1] - 1) ELSE pattern, second |-> IF two THEN Skip(pattern, cuts[1]) ELSE <<>>]
RuleOf(pattern, action) ==
  IF pattern \in {<<"BEGIN">>, <<"END">>} THEN [RuleAs(<<>>, action) EXCEPT !.kind = pattern[1]] ELSE RuleAs(pattern, action)
RECURSIVE Rules(_, _)
Rules(u, from) ==
  LET p == SkipSpace(u, from)
      braces == {i \in p .. Len(u) : u[i] = "{" /\ Depth(u, p, i) = 1}
      open == Least(braces)
      close == Closing(u, open)
  IN IF p > Len(u) THEN <<>>
     ELSE IF braces = {} THEN <<RuleAs(SubSeq(u, p, Len(u)), <<"print">>)>>
     ELSE IF close = 0 THEN <<[RuleAs(<<>>, <<>>) EXCEPT !.kind = "error"]>>
     ELSE <<RuleOf(SubSeq(u, p, open - 1), SubSeq(u, open + 1, close - 1))>> \o Rules(u, close + 1)
=============================================================================
