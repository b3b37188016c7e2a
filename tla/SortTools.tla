------------------------------ MODULE SortTools ------------------------------
(* sort (sort.go), uniq (uniq.go), comm (comm.go) and join (join.go): the   *)
(* tools that order lines or rely on their order; cmp and diff              *)
(* (core_extra.go), which compare files.  A command is its options in the   *)
(* order they are given, [opt, arg]; the lines are what its files hold, as   *)
(* -z or its absence cuts them.                                             *)
EXTENDS Text

(* A file that is not there, as a text and as lines, or that may not be      *)
(* read; a name that cannot be made.                                        *)
NoFile == <<-1>>
NoLines == <<NoFile>>
Barred == <<-2>>
Absent(files) == NoLines \in Range(files)
Sealed == "sealed"

(* --------------------------------- sort ---------------------------------- *)
SortMods == {"n", "g", "h", "M", "f", "d", "i", "r", "b", "B"}
NoMods == [m \in SortMods |-> FALSE]
SortDefaults ==
  [keys |-> <<>>, global |-> NoMods, sep |-> -1, u |-> FALSE, s |-> FALSE, c |-> FALSE, output |-> "", bad |-> FALSE]

(* addKey: a key is [start, char, end, endChar, mods, endMods]; b after the *)
(* end counts for the end alone, every other modifier for the whole key.    *)
AddKey(o, k) ==
  IF k.start < 1 \/ ~ (k.mods \cup k.endMods) \subseteq SortMods \ {"B"} THEN [o EXCEPT !.bad = TRUE]
  ELSE LET mods == [m \in SortMods |->
                      IF m = "B" THEN "b" \in k.endMods
                      ELSE m \in k.mods \/ (m /= "b" /\ m \in k.endMods)]
       IN [o EXCEPT !.keys = Append(@, [start |-> k.start, char |-> k.char, end |-> k.end,
                                        endChar |-> k.endChar, mods |-> mods])]

NulEscape == <<92, 48>>
SortOption(o, a) ==
  CASE a.opt \in SortMods \ {"b", "B"} -> [o EXCEPT !.global[a.opt] = TRUE]
    [] a.opt = "b" -> [o EXCEPT !.global["b"] = TRUE, !.global["B"] = TRUE]
    [] a.opt \in {"u", "s", "c"} -> [o EXCEPT ![a.opt] = TRUE]
    [] a.opt = "C" -> [o EXCEPT !.c = TRUE]
    [] a.opt = "t" -> IF a.arg = NulEscape THEN [o EXCEPT !.sep = 0]
                      ELSE IF Len(a.arg) = 1 THEN [o EXCEPT !.sep = a.arg[1]] ELSE [o EXCEPT !.bad = TRUE]
    [] a.opt = "k" -> AddKey(o, a.arg)
    [] a.opt = "o" -> [o EXCEPT !.output = a.arg]
    [] a.opt \in {"m", "z"} -> o
    [] OTHER -> [o EXCEPT !.bad = TRUE]

(* A key with no ordering option of its own uses the global ones.           *)
Inherit(o) ==
  [o EXCEPT !.keys = [i \in DOMAIN @ |->
     IF \E m \in SortMods : @[i].mods[m] THEN @[i] ELSE [@[i] EXCEPT !.mods = o.global]]]
SortCommand(args) == Inherit(Options(SortOption, SortDefaults, args))

(* splitFields: with -t each separator ends a field and is in none; without *)
(* it the blanks before a field belong to it.  A field is <<start, end>>.   *)
SplitFields(o, line) ==
  LET cut(i) == IF o.sep >= 0 THEN line[i] = o.sep
                ELSE i > 1 /\ IsBlank(line[i]) /\ ~ IsBlank(line[i - 1])
      cuts == Mapped(SelectSeq(Between(1, Len(line)), cut), LAMBDA i : i - 1)
      gap == IF o.sep >= 0 THEN 1 ELSE 0
  IN [k \in 1 .. Len(cuts) + 1 |->
        <<IF k = 1 THEN 0 ELSE cuts[k - 1] + gap,
          IF k <= Len(cuts) THEN cuts[k] ELSE Len(line)>>]

AfterBlanks(line, from, to) == from + Span(SubSeq(line, from + 1, to), IsBlank)

ExtractKey(line, fields, key) ==
  IF key.start > Len(fields) THEN <<>>
  ELSE LET f == fields[key.start]
           first == IF key.mods["b"] THEN AfterBlanks(line, f[1], f[2]) ELSE f[1]
           start == IF key.char > 1 THEN first + key.char - 1 ELSE first
           t == fields[key.end]
           base == IF key.mods["B"] THEN AfterBlanks(line, t[1], t[2]) ELSE t[1]
           end == IF key.end = 0 \/ key.end > Len(fields) THEN Len(line)
                  ELSE IF key.endChar = 0 THEN t[2]
                  ELSE IF base + key.endChar > t[2] THEN t[2] ELSE base + key.endChar
       IN SubSeq(line, start + 1, end)

(* leadingNumber, humanNumber and generalNumber, in tenths; monthNumber.     *)
Dot == 46
Exponents == {69, 101}
Signs == {43, Minus}
Tenths(s) ==
  LET rest == Skip(s, Span(s, IsDigit))
  IN 10 * Digits(s) + (IF rest /= <<>> /\ rest[1] = Dot THEN Digits(Take(Tail(rest), 1)) ELSE 0)
LeadingNumber(s) ==
  LET t == TrimLeft(s)
  IN IF t /= <<>> /\ t[1] = Minus THEN - Tenths(Tail(t)) ELSE Tenths(t)
(* The letters that still fit the model's integers; G, T and P go on so.     *)
Suffix == [c \in {75, 107} |-> 1024] @@ [c \in {77} |-> 1024 * 1024]
HumanNumber(s) ==
  LET rest == Skip(TrimLeft(s), Span(TrimLeft(s), LAMBDA c : IsDigit(c) \/ IsBlank(c) \/ c \in {43, 44, 45, 46}))
  IN LeadingNumber(s) * IF rest /= <<>> /\ rest[1] \in DOMAIN Suffix THEN Suffix[rest[1]] ELSE 1

(* What could be a number, as far as it goes, must be one: with two points   *)
(* or two exponents it is none, and comes before all that are.               *)
MinusInfinity == -1000000
GeneralNumber(s) ==
  LET t == TrimLeft(s)
      fits(i) == CASE t[i] \in Signs -> i = 1 \/ t[i - 1] \in Exponents
                   [] t[i] \in Exponents -> i > 1
                   [] OTHER -> IsDigit(t[i]) \/ t[i] = Dot
      wrong == {i \in DOMAIN t : ~ fits(i)}
      run == Take(t, IF wrong = {} THEN Len(t) ELSE Least(wrong) - 1)
      kept == Reverse(Skip(Reverse(run), Span(Reverse(run), LAMBDA c : c \in Exponents \cup Signs)))
      signed == kept /= <<>> /\ kept[1] \in Signs
      parts == Pieces(IF signed THEN Tail(kept) ELSE kept, LAMBDA c : c \in Exponents)
      shift == LET e == parts[2] IN IF e[1] = Minus THEN - Digits(Tail(e)) ELSE Digits(IF e[1] \in Signs THEN Tail(e) ELSE e)
      number == /\ \E c \in Range(parts[1]) : IsDigit(c)
                /\ Len(SelectSeq(parts[1], LAMBDA c : c = Dot)) < 2
                /\ Len(parts) < 3 /\ (Len(parts) = 2 => parts[2] /= <<>> /\ Dot \notin Range(parts[2]))
      size == Tenths(parts[1])
      scaled == IF Len(parts) = 1 THEN size ELSE IF shift >= 0 THEN size * 10 ^ shift ELSE size \div 10 ^ (- shift)
  IN IF ~ number THEN MinusInfinity ELSE IF signed /\ kept[1] = Minus THEN - scaled ELSE scaled
Months == <<<<106, 97, 110>>, <<102, 101, 98>>, <<109, 97, 114>>, <<97, 112, 114>>,
            <<109, 97, 121>>, <<106, 117, 110>>, <<106, 117, 108>>, <<97, 117, 103>>,
            <<115, 101, 112>>, <<111, 99, 116>>, <<110, 111, 118>>, <<100, 101, 99>>>>
MonthNumber(s) ==
  LET name == LowerAll(Take(TrimLeft(s), 3)) IN SelectInSeq(Months, LAMBDA m : m = name)

(* sortTransform: -b, then -d, -i and -f character by character.            *)
SortTransform(s, m) ==
  LET t == IF m["b"] THEN TrimLeft(s) ELSE s
      alnum(c) == IsDigit(c) \/ IsUpper(c) \/ IsLower(c)
      kept == SelectSeq(t, LAMBDA c : /\ m["d"] => IsBlank(c) \/ alnum(c)
                                      /\ m["i"] => c >= 32 /\ c /= 127)
  IN IF m["f"] THEN Mapped(kept, Upper) ELSE kept

CompareWithMods(s, t, m) ==
  CASE m["n"] -> Sign(LeadingNumber(s) - LeadingNumber(t))
    [] ~ m["n"] /\ m["h"] -> Sign(HumanNumber(s) - HumanNumber(t))
    [] ~ m["n"] /\ ~ m["h"] /\ m["g"] -> Sign(GeneralNumber(s) - GeneralNumber(t))
    [] ~ m["n"] /\ ~ m["h"] /\ ~ m["g"] /\ m["M"] -> Sign(MonthNumber(s) - MonthNumber(t))
    [] OTHER -> Compare(SortTransform(s, m), SortTransform(t, m))

Directed(cmp, m) == IF m["r"] THEN - cmp ELSE cmp

(* compareKeys: the first key that tells the lines apart.                   *)
CompareKeys(o, s, t) ==
  LET fs == SplitFields(o, s)
      ft == SplitFields(o, t)
      by(k) == Directed(CompareWithMods(ExtractKey(s, fs, k), ExtractKey(t, ft, k), k.mods), k.mods)
  IN IF o.keys = <<>> THEN Directed(CompareWithMods(s, t, o.global), o.global)
     ELSE FoldLeft(LAMBDA cmp, k : IF cmp /= 0 THEN cmp ELSE by(k), 0, o.keys)

(* compare: the whole line last, unless -s or -u.                           *)
CompareLines(o, s, t) ==
  LET cmp == CompareKeys(o, s, t)
  IN IF cmp /= 0 \/ o.s \/ o.u THEN cmp ELSE Directed(Compare(s, t), o.global)

SortedStable(o, lines) ==
  LET before(i, j) == LET c == CompareLines(o, lines[i], lines[j]) IN c < 0 \/ (c = 0 /\ i < j)
      order == SortSeq([i \in DOMAIN lines |-> i], before)
  IN [i \in DOMAIN lines |-> lines[order[i]]]

(* write: -u keeps the first of a run that compares equal.                  *)
WriteStep(o, out, line) ==
  IF o.u /\ out /= <<>> /\ CompareKeys(o, Last(out), line) = 0 THEN out ELSE Append(out, line)

(* runCheck: the first line out of order, 0 if there is none.               *)
FirstDisorder(o, lines) ==
  LET bad == {k \in 2 .. Len(lines) :
                LET c == CompareLines(o, lines[k - 1], lines[k]) IN c > 0 \/ (o.u /\ c = 0)}
  IN IF bad = {} THEN 0 ELSE Least(bad)

(* Nothing is written when a file cannot be read, and an input that is also  *)
(* the output has been read by then.                                        *)
Sort(args, files) ==
  LET o == SortCommand(args)
      lines == FlattenSeq(files)
      answer(status, out) == [status |-> status, out |-> out, to |-> o.output]
  IN IF o.bad \/ Absent(files) THEN answer(2, <<>>)
     ELSE IF o.c THEN answer(IF FirstDisorder(o, lines) = 0 THEN 0 ELSE 1, <<>>)
     ELSE IF o.output = Sealed THEN answer(2, <<>>)
     ELSE answer(0, FoldLeft(LAMBDA w, l : WriteStep(o, w, l), <<>>, SortedStable(o, lines)))

(* --------------------------------- uniq ---------------------------------- *)
UniqDefaults ==
  [c |-> FALSE, d |-> FALSE, u |-> FALSE, i |-> FALSE, f |-> 0, s |-> 0, w |-> -1,
   D |-> "", group |-> "", output |-> "", bad |-> FALSE]
UniqMethods == [D |-> {"none", "prepend", "separate"},
                group |-> {"prepend", "separate", "append", "both"}]

UniqOption(o, a) ==
  CASE a.opt \in {"c", "d", "u", "i"} -> [o EXCEPT ![a.opt] = TRUE]
    [] a.opt \in {"f", "s", "w"} -> IF a.arg < 0 THEN [o EXCEPT !.bad = TRUE] ELSE [o EXCEPT ![a.opt] = a.arg]
    [] a.opt \in {"D", "group", "output"} -> [o EXCEPT ![a.opt] = a.arg]
    [] a.opt = "z" -> o
    [] OTHER -> [o EXCEPT !.bad = TRUE]

(* A second operand, the output, may be neither the input nor out of reach.  *)
UniqRefused(o) ==
  \/ o.bad \/ o.output \in {Sealed, "the input"}
  \/ o.D /= "" /\ (o.c \/ o.D \notin UniqMethods.D)
  \/ o.group /= "" /\ (o.c \/ o.d \/ o.u \/ o.D /= "" \/ o.group \notin UniqMethods.group)

(* uniqSkipFields: the blanks before a field go with it, those after stay.  *)
SkipField(s) == LET t == TrimLeft(s) IN Skip(t, Span(t, LAMBDA c : ~ IsBlank(c)))
UniqKey(o, line) ==
  LET k == Skip(FoldLeft(LAMBDA s, n : SkipField(s), line, [n \in 1 .. o.f |-> n]), o.s)
      w == IF o.w >= 0 THEN Take(k, o.w) ELSE k
  IN IF o.i THEN LowerAll(w) ELSE w

(* emit: what is written for a group of n lines that line stands for; a     *)
(* line of output is [n, text], n the count of -c, "" of a separator.       *)
Separator == [n |-> 0, text |-> <<>>]
UniqEmit(o, out, line, n, more) ==
  LET all == o.D /= "" \/ o.group /= ""
      printed == IF o.D /= "" THEN n > 1 ELSE o.group /= "" \/ ((o.d => n > 1) /\ (o.u => n = 1))
      method == IF o.D /= "" THEN o.D ELSE o.group
      count == IF o.D /= "" /\ o.u THEN 1 ELSE n
      before == method = "prepend" \/ (method = "both" /\ out = <<>>)
      after == method \in {"append", "both"} \/ (method = "separate" /\ more)
      text == [n |-> IF o.c THEN n ELSE 0, text |-> line]
  IN IF ~ printed THEN out
     ELSE out \o (IF before THEN <<Separator>> ELSE <<>>)
              \o (IF all THEN [j \in 1 .. count |-> text] ELSE <<text>>)
              \o (IF after THEN <<Separator>> ELSE <<>>)

(* The loop over the lines: the group so far is stood for by its first one. *)
UniqStep(o, g, line) ==
  LET k == UniqKey(o, line)
  IN CASE g.n = 0 -> [g EXCEPT !.cur = line, !.key = k, !.n = 1]
       [] g.n > 0 /\ k = g.key -> [g EXCEPT !.n = @ + 1]
       [] g.n > 0 /\ k /= g.key ->
            [cur |-> line, key |-> k, n |-> 1, out |-> UniqEmit(o, g.out, g.cur, g.n, TRUE)]

Uniq(args, lines) ==
  LET o == Options(UniqOption, UniqDefaults, args)
      g == FoldLeft(LAMBDA a, l : UniqStep(o, a, l), [cur |-> <<>>, key |-> <<>>, n |-> 0, out |-> <<>>], lines)
  IN IF UniqRefused(o) \/ Absent(<<lines>>) THEN [status |-> 1, out |-> <<>>]
     ELSE [status |-> 0, out |-> IF g.n = 0 THEN <<>> ELSE UniqEmit(o, g.out, g.cur, g.n, FALSE)]

(* --------------------------------- comm ---------------------------------- *)
CommDefaults == [hide |-> {}, check |-> FALSE, nocheck |-> FALSE, total |-> FALSE, bad |-> FALSE]
CommOption(o, a) ==
  CASE a.opt \in {"1", "2", "3"} -> [o EXCEPT !.hide = @ \cup {a.opt}]
    [] a.opt \in {"check", "nocheck", "total"} -> [o EXCEPT ![a.opt] = TRUE]
    [] a.opt = "z" -> o
    [] OTHER -> [o EXCEPT !.bad = TRUE]

(* The merge: at[i] is the line of file i it considers; unpairable once a   *)
(* line of one file alone has been seen, which is when the order begins to  *)
(* be checked unless an option says otherwise.                              *)
CommChecks(o, m) == ~ o.nocheck /\ (o.check \/ m.unpairable)

(* advance: the next line of file i; one that sorts before the last is      *)
(* reported, and with --check-order ends the command.                       *)
CommAdvance(o, files, m, i, checked) ==
  LET n == m.at[i] + 1
      disorder == /\ checked /\ n > 1 /\ n <= Len(files[i])
                  /\ Compare(files[i][n - 1], files[i][n]) > 0
  IN IF m.halt THEN m
     ELSE IF disorder /\ o.check THEN [m EXCEPT !.halt = TRUE]
     ELSE [m EXCEPT !.at[i] = n, !.disordered = @ \/ disorder]

Column == <<"1", "2", "3">>
CommEmit(o, m, column, line) ==
  [m EXCEPT !.count[column] = @ + 1, !.out = IF Column[column] \in o.hide THEN @ ELSE Append(@, <<column, line>>)]

CommStep(o, files, m) ==
  LET has(i) == m.at[i] <= Len(files[i])
      line(i) == files[i][m.at[i]]
      only(i) == LET u == [CommEmit(o, m, i, line(i)) EXCEPT !.unpairable = TRUE]
                 IN CommAdvance(o, files, u, i, CommChecks(o, u))
      both == LET c == CommChecks(o, m)
              IN CommAdvance(o, files, CommAdvance(o, files, CommEmit(o, m, 3, line(1)), 1, c), 2, c)
      order == Compare(line(1), line(2))
  IN IF m.halt \/ ~ (has(1) \/ has(2)) THEN m
     ELSE IF ~ has(2) THEN only(1)
     ELSE IF ~ has(1) THEN only(2)
     ELSE IF order = 0 THEN both
     ELSE IF order < 0 THEN only(1) ELSE only(2)

Comm(args, files) ==
  LET o == Options(CommOption, CommDefaults, args)
      start == [at |-> <<0, 0>>, unpairable |-> FALSE, halt |-> FALSE, disordered |-> FALSE, count |-> <<0, 0, 0>>, out |-> <<>>]
      first == CommAdvance(o, files, CommAdvance(o, files, start, 1, o.check), 2, o.check)
      end == FoldLeft(LAMBDA m, k : CommStep(o, files, m), first,
                      [k \in 1 .. Len(files[1]) + Len(files[2]) |-> k])
  IN IF o.bad \/ Absent(files) THEN [status |-> 1, out |-> <<>>, total |-> <<>>]
     ELSE [status |-> IF end.halt \/ end.disordered THEN 1 ELSE 0, out |-> end.out,
           total |-> IF o.total /\ ~ end.halt THEN end.count ELSE <<>>]

(* --------------------------------- join ---------------------------------- *)
JoinDefaults ==
  [field |-> <<1, 1>>, also |-> {}, only |-> {}, i |-> FALSE, header |-> FALSE, check |-> FALSE,
   nocheck |-> FALSE, sep |-> -1, empty |-> <<>>, format |-> <<>>, bad |-> FALSE, crash |-> FALSE]

(* Of an empty -t the first character is taken all the same: nothing after   *)
(* that is looked at.                                                       *)
JoinOption(o, a) ==
  CASE o.bad \/ o.crash -> o
    [] a.opt \in {"1", "2"} ->
           IF a.arg < 1 THEN [o EXCEPT !.bad = TRUE] ELSE [o EXCEPT !.field[IF a.opt = "1" THEN 1 ELSE 2] = a.arg]
    [] a.opt \in {"a", "v"} /\ a.arg \notin {1, 2} -> [o EXCEPT !.bad = TRUE]
    [] a.opt = "a" /\ a.arg \in {1, 2} -> [o EXCEPT !.also = @ \cup {a.arg}]
    [] a.opt = "v" /\ a.arg \in {1, 2} -> [o EXCEPT !.only = @ \cup {a.arg}]
    [] a.opt = "t" -> IF a.arg = <<>> THEN [o EXCEPT !.crash = TRUE]
                      ELSE IF Len(a.arg) = 1 THEN [o EXCEPT !.sep = a.arg[1]] ELSE [o EXCEPT !.bad = TRUE]
    [] a.opt = "e" -> [o EXCEPT !.empty = a.arg]
    [] a.opt = "o" -> IF a.arg = <<>> \/ \E f \in Range(a.arg) : f.file \notin 0 .. 2 \/ (f.file > 0 /\ f.field < 1)
                        THEN [o EXCEPT !.bad = TRUE] ELSE [o EXCEPT !.format = a.arg]
    [] a.opt \in {"i", "header", "check", "nocheck"} -> [o EXCEPT ![a.opt] = TRUE]
    [] a.opt = "z" -> o
    [] OTHER -> [o EXCEPT !.bad = TRUE]

(* A record is the raw line and its fields.                                 *)
JoinRecord(o, line) ==
  [raw |-> line, fields |-> IF o.sep >= 0 THEN Pieces(line, LAMBDA c : c = o.sep) ELSE Words(line)]
(* The key is none (nil) when the line has not as many fields.              *)
JoinKey(o, r, i) == IF o.field[i] <= Len(r.fields) THEN <<r.fields[o.field[i]]>> ELSE <<>>
KeyText(key) == FlattenSeq(key)
JoinRest(o, r, i) == IF o.field[i] <= Len(r.fields) THEN RemoveAt(r.fields, o.field[i]) ELSE r.fields

(* writeFormatted: a pair is one record, or none, of each file.             *)
JoinLine(o, key, pair) ==
  LET value(f) == IF f.file = 0 THEN IF key = <<>> THEN o.empty ELSE key[1]
                  ELSE IF pair[f.file] /= <<>> /\ f.field <= Len(pair[f.file][1].fields)
                         THEN pair[f.file][1].fields[f.field] ELSE o.empty
      rest(i) == IF pair[i] = <<>> THEN <<>> ELSE JoinRest(o, pair[i][1], i)
  IN IF o.format /= <<>> THEN [k \in DOMAIN o.format |-> value(o.format[k])]
     ELSE <<KeyText(key)>> \o rest(1) \o rest(2)

KeyCompare(o, s, t) ==
  IF o.i THEN Compare(LowerAll(KeyText(s)), LowerAll(KeyText(t))) ELSE Compare(KeyText(s), KeyText(t))

(* checkLine: reading line n of file i.                                     *)
JoinRead(o, files, m, i, n, active) ==
  LET disorder == /\ active /\ n <= Len(files[i]) /\ m.prev[i] \in DOMAIN files[i]
                  /\ Compare(files[i][m.prev[i]].raw, files[i][n].raw) > 0
  IN IF m.halt \/ n > Len(files[i]) THEN m
     ELSE IF disorder /\ o.check THEN [m EXCEPT !.halt = TRUE]
     ELSE [m EXCEPT !.prev[i] = n, !.warned[i] = @ \/ disorder]

JoinActive(o, m) == ~ o.nocheck /\ (o.check \/ m.unpairable)
JoinCompare(o, files, m) ==
  KeyCompare(o, JoinKey(o, files[1][m.at[1]], 1), JoinKey(o, files[2][m.at[2]], 2))

(* The end of the group of equal keys that starts at the line considered.   *)
GroupEnd(o, file, i, n) ==
  LET differ == {k \in n + 1 .. Len(file) : KeyCompare(o, JoinKey(o, file[k], i), JoinKey(o, file[n], i)) /= 0}
  IN IF differ = {} THEN Len(file) + 1 ELSE Least(differ)
ReadTo(o, files, m, i, end) ==
  FoldLeft(LAMBDA a, n : JoinRead(o, files, a, i, n, JoinActive(o, m)), m,
           [k \in 1 .. (IF end > Len(files[i]) THEN Len(files[i]) ELSE end) - m.at[i] |-> m.at[i] + k])

JoinUnpaired(o, files, m, i) ==
  LET r == files[i][m.at[i]]
      pair == IF i = 1 THEN <<<<r>>, <<>>>> ELSE <<<<>>, <<r>>>>
  IN IF i \in o.only \cup o.also THEN [m EXCEPT !.out = Append(@, JoinLine(o, JoinKey(o, r, i), pair))] ELSE m

(* One turn of the merge.  The line after an unpairable one is checked      *)
(* before that is known.                                                    *)
JoinMerge(o, files, m) ==
  LET order == JoinCompare(o, files, m)
      end == [i \in {1, 2} |-> GroupEnd(o, files[i], i, m.at[i])]
      read == ReadTo(o, files, ReadTo(o, files, m, 1, end[1]), 2, end[2])
      pairs == [k \in 1 .. (end[1] - m.at[1]) * (end[2] - m.at[2]) |->
                  LET w == end[2] - m.at[2]
                  IN JoinLine(o, JoinKey(o, files[1][m.at[1]], 1),
                              <<<<files[1][m.at[1] + (k - 1) \div w]>>, <<files[2][m.at[2] + ((k - 1) % w)]>>>>)]
      alone(i) == [JoinRead(o, files, JoinUnpaired(o, files, m, i), i, m.at[i] + 1, JoinActive(o, m))
                     EXCEPT !.at[i] = @ + 1, !.unpairable = TRUE]
  IN IF order < 0 THEN alone(1) ELSE IF order > 0 THEN alone(2)
     ELSE [read EXCEPT !.at = <<end[1], end[2]>>,
                       !.out = IF o.only = {} /\ ~ read.halt THEN @ \o pairs ELSE @]

(* The tail of a file: read for its order even when nothing is printed,     *)
(* until a warning has been given.                                          *)
JoinTail(o, files, m, i) ==
  LET read == JoinRead(o, files, m, i, m.at[i], JoinActive(o, m))
      stop == i \notin o.only \cup o.also /\ read.warned[i]
  IN IF read.halt THEN read
     ELSE [JoinUnpaired(o, files, read, i) EXCEPT !.at[i] = IF stop THEN Len(files[i]) + 1 ELSE @ + 1]

JoinStep(o, files, m) ==
  LET has(i) == m.at[i] <= Len(files[i])
  IN IF m.halt THEN m
     ELSE IF has(1) /\ has(2) THEN JoinMerge(o, files, m)
     ELSE IF has(1) THEN JoinTail(o, files, m, 1)
     ELSE IF has(2) THEN JoinTail(o, files, m, 2) ELSE m

JoinFiles(args, lines) ==
  LET o == Options(JoinOption, JoinDefaults, args)
      files == [i \in {1, 2} |-> [n \in DOMAIN lines[i] |-> JoinRecord(o, lines[i][n])]]
      first == IF o.header THEN 2 ELSE 1
      start == [at |-> <<first, first>>, prev |-> <<0, 0>>, warned |-> <<FALSE, FALSE>>, halt |-> FALSE,
                unpairable |-> FALSE,
                out |-> IF o.header /\ files[1] /= <<>> /\ files[2] /= <<>>
                          THEN <<JoinLine(o, JoinKey(o, files[1][1], 1), <<<<files[1][1]>>, <<files[2][1]>>>>)>>
                          ELSE <<>>]
      opened == JoinRead(o, files, JoinRead(o, files, start, 1, first, JoinActive(o, start)), 2, first, JoinActive(o, start))
      end == FoldLeft(LAMBDA m, k : JoinStep(o, files, m), opened,
                      [k \in 1 .. Len(lines[1]) + Len(lines[2]) |-> k])
  IN IF o.crash THEN [status |-> 2, out |-> <<>>]
     ELSE IF o.bad \/ Absent(lines) THEN [status |-> 1, out |-> <<>>]
     ELSE [status |-> IF end.halt \/ end.warned[1] \/ end.warned[2] THEN 1 ELSE 0, out |-> end.out]

(* ---------------------------------- cmp ---------------------------------- *)
(* The report names the byte and the line of the first difference, or the   *)
(* end of the shorter file.                                                 *)
NewlinesIn(s) == Len(SelectSeq(s, LAMBDA c : c = Newline))
Cmp(f, g) ==
  LET limit == IF Len(f) < Len(g) THEN Len(f) ELSE Len(g)
      differ == {i \in 1 .. limit : f[i] /= g[i]}
      at == Least(differ)
      whole == limit > 0 /\ f[limit] = Newline
  IN IF {NoFile, Barred} \cap {f, g} /= {} THEN [status |-> 2]
     ELSE IF differ /= {} THEN [status |-> 1, byte |-> at, line |-> 1 + NewlinesIn(Take(f, at - 1)), eof |-> ""]
     ELSE IF Len(f) /= Len(g)
       THEN [status |-> 1, byte |-> limit, line |-> NewlinesIn(Take(f, limit)) + (IF whole \/ limit = 0 THEN 0 ELSE 1),
             eof |-> IF limit = 0 THEN "empty" ELSE IF whole THEN "line" ELSE "in line"]
     ELSE [status |-> 0]

(* ---------------------------------- diff --------------------------------- *)
(* The largest table the code fills has 4,000,000 cells.                    *)
DiffCells == 120
DiffContext == 3
DiffFlags == {"u", "q", "s", "i", "w", "b", "N"}

(* readLines: the lines, and whether the last has no line end.              *)
DiffLines(text) ==
  IF text = <<>> THEN <<>>
  ELSE Pieces(IF Last(text) = Newline THEN Front(text) ELSE text, LAMBDA c : c = Newline)
Unended(text) == text /= <<>> /\ Last(text) /= Newline

(* diffKeyLines: a last line without an end is another line.                *)
NoEnd == 0
BareLines(lines, unended) == lines   \* the missing line end forgotten
KeyLines(lines, unended) ==
  IF unended THEN [lines EXCEPT ![Len(lines)] = Append(@, NoEnd)] ELSE lines

TrimRight(s) == Reverse(TrimLeft(Reverse(s)))
CollapseSpace(s) ==
  FoldLeft(LAMBDA t, c : IF ~ IsBlank(c) THEN Append(t, c)
                         ELSE IF t /= <<>> /\ Last(t) = Space THEN t ELSE Append(t, Space), <<>>, s)
DiffNormal(o, line) ==
  LET spaced == IF "w" \in o THEN SelectSeq(line, LAMBDA c : ~ IsBlank(c))
                ELSE IF "b" \in o THEN CollapseSpace(TrimRight(line)) ELSE line
  IN IF "i" \in o THEN LowerAll(spaced) ELSE spaced

(* The table of diffLCS, from its last row up: cell [i][j] is the length of *)
(* the longest common subsequence of what is left from lines i and j on.    *)
LcsRow(key, keys, below) ==
  FoldLeft(LAMBDA row, k :
             LET j == Len(keys) - k + 1
                 cell == IF keys[j] = key THEN below[j + 1] + 1
                         ELSE IF below[j] >= row[1] THEN below[j] ELSE row[1]
             IN <<cell>> \o row,
           <<0>>, Between(1, Len(keys)))
LcsTable(f, g) ==
  FoldLeft(LAMBDA t, k : <<LcsRow(f[Len(f) - k + 1], g, t[1])>> \o t,
           <<[j \in 1 .. Len(g) + 1 |-> 0]>>, Between(1, Len(f)))

(* One line of the script: a and b count the lines of each file before it.  *)
DiffOp(kind, a, b) == [kind |-> kind, a |-> a, b |-> b]
LcsStep(f, g, table, s) ==
  LET i == s.i + 1
      j == s.j + 1
  IN IF s.i = Len(f) /\ s.j = Len(g) THEN s
     ELSE IF i <= Len(f) /\ j <= Len(g) /\ f[i] = g[j]
       THEN [i |-> i, j |-> j, ops |-> Append(s.ops, DiffOp("=", s.i, s.j))]
     ELSE IF i <= Len(f) /\ (s.j = Len(g) \/ table[i + 1][j] >= table[i][j + 1])
       THEN [s EXCEPT !.i = i, !.ops = Append(@, DiffOp("-", s.i, s.j))]
     ELSE [s EXCEPT !.j = j, !.ops = Append(@, DiffOp("+", s.i, s.j))]

TooManyCells(f, g) == f /= <<>> /\ Len(g) > DiffCells \div Len(f)
DiffScript(f, g) ==
  IF TooManyCells(f, g)
    THEN [i \in DOMAIN f |-> DiffOp("-", i - 1, Len(g))] \o [j \in DOMAIN g |-> DiffOp("+", Len(f), j - 1)]
    ELSE LET table == LcsTable(f, g)
         IN Iterate(LAMBDA s : LcsStep(f, g, table, s), [i |-> 0, j |-> 0, ops |-> <<>>], Len(f) + Len(g)).ops

(* diffChanges: the runs of lines that are not the same.                    *)
ChangeStep(s, op) ==
  LET a == s.a + (IF op.kind = "+" THEN 0 ELSE 1)
      b == s.b + (IF op.kind = "-" THEN 0 ELSE 1)
      here == [aStart |-> s.a, aEnd |-> a, bStart |-> s.b, bEnd |-> b, ops |-> <<op>>]
      longer == [Last(s.changes) EXCEPT !.aEnd = a, !.bEnd = b, !.ops = Append(@, op)]
  IN [a |-> a, b |-> b, open |-> op.kind /= "=",
      changes |-> IF op.kind = "=" THEN s.changes
                  ELSE IF s.open THEN Append(Front(s.changes), longer) ELSE Append(s.changes, here)]
DiffChanges(ops) ==
  FoldLeft(ChangeStep, [a |-> 0, b |-> 0, open |-> FALSE, changes |-> <<>>], ops).changes

(* A line of output; its mark says that the file has no line end after it.  *)
DiffOut(d, op) ==
  [kind |-> op.kind,
   text |-> IF op.kind = "+" THEN d.linesB[op.b + 1] ELSE d.linesA[op.a + 1],
   mark |-> \/ d.unendedA /\ op.kind /= "+" /\ op.a = Len(d.linesA) - 1
            \/ d.unendedB /\ op.kind /= "-" /\ op.b = Len(d.linesB) - 1]
DiffOutput(d, ops) == Mapped(ops, LAMBDA op : DiffOut(d, op))
LinesOfKind(ops, kind) == SelectSeq(ops, LAMBDA op : op.kind = kind)

DiffRange(start, end) == IF end - start <= 1 THEN <<start + 1>> ELSE <<start + 1, end>>
NormalChange(d, c) ==
  LET verb == IF c.aEnd = c.aStart THEN "a" ELSE IF c.bEnd = c.bStart THEN "d" ELSE "c"
  IN [verb |-> verb,
      a |-> IF verb = "a" THEN <<c.aStart>> ELSE DiffRange(c.aStart, c.aEnd),
      b |-> IF verb = "d" THEN <<c.bStart>> ELSE DiffRange(c.bStart, c.bEnd),
      body |-> DiffOutput(d, LinesOfKind(c.ops, "-") \o LinesOfKind(c.ops, "+"))]

(* printUnifiedDiff: the changes whose contexts meet share a hunk.          *)
HunkGroups(changes) ==
  FoldLeft(LAMBDA g, c : IF g /= <<>> /\ c.aStart - Last(g).end <= 2 * DiffContext
                           THEN Append(Front(g), [Last(g) EXCEPT !.end = c.aEnd])
                           ELSE Append(g, [start |-> c.aStart, end |-> c.aEnd]),
           <<>>, changes)
Hunk(d, ops, group) ==
  LET from == IF group.start < DiffContext THEN 0 ELSE group.start - DiffContext
      to == group.end + DiffContext
      inside == SelectSeq(ops, LAMBDA op : op.a >= from /\ (op.a < to \/ (op.kind = "+" /\ op.a = to)))
      length(other) == Len(SelectSeq(inside, LAMBDA op : op.kind /= other))
  IN [a |-> <<from + 1, length("+")>>,
      b |-> <<(IF inside = <<>> THEN -1 ELSE inside[1].b) + 1, length("-")>>,
      body |-> DiffOutput(d, inside)]

(* With -N a missing file is an empty one, a barred one is not.              *)
DiffInput(text) == IF text = NoFile THEN <<>> ELSE text
Diff(o, texts) ==
  LET a == DiffInput(texts[1])
      b == DiffInput(texts[2])
      d == [linesA |-> DiffLines(a), linesB |-> DiffLines(b), unendedA |-> Unended(a), unendedB |-> Unended(b)]
      normal(l) == DiffNormal(o, l)
      ops == DiffScript(Mapped(KeyLines(d.linesA, d.unendedA), normal), Mapped(KeyLines(d.linesB, d.unendedB), normal))
      changes == DiffChanges(ops)
      missing == IF "N" \in o THEN {Barred} ELSE {NoFile, Barred}
      answer(status, says, out) == [status |-> status, says |-> says, out |-> out]
  IN IF ~ o \subseteq DiffFlags \/ Range(texts) \cap missing /= {} THEN answer(2, "", <<>>)
     ELSE IF \A op \in Range(ops) : op.kind = "=" THEN answer(0, IF "s" \in o THEN "identical" ELSE "", <<>>)
     ELSE IF "q" \in o THEN answer(1, "differ", <<>>)
     ELSE answer(1, "", IF "u" \in o THEN Mapped(HunkGroups(changes), LAMBDA g : Hunk(d, ops, g))
                        ELSE Mapped(changes, LAMBDA c : NormalChange(d, c)))
=============================================================================
