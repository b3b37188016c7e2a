-------------------------------- MODULE Grep --------------------------------
(* grep.go: the options, the search for an acceptable match, and what is    *)
(* printed of each file.  A pattern is [text, start]: characters, anchored  *)
(* at the start of the line or not; regexp finds it, the longest of several *)
(* at the leftmost place.                                                   *)
EXTENDS Text

GrepDefaults ==
  [flags |-> {}, patterns |-> <<>>, files |-> <<>>, before |-> 0, after |-> 0, context |-> FALSE, max |-> -1, sep |-> TRUE,
   binary |-> "binary", dirs |-> "read", devices |-> "read", includes |-> {}, excludes |-> {}, excludeDirs |-> {},
   bad |-> FALSE]
Has(o, f) == f \in o.flags

(* -e, -f, -m and the context lengths; a negative number is refused, and so   *)
(* is a file of patterns that cannot be read, which has none.               *)
Valued == {"e", "f", "A", "B", "C", "m"}
ApplyValued(o, x) ==
  CASE x.opt = "e" -> [o EXCEPT !.patterns = @ \o x.arg]
    [] x.opt = "f" -> [o EXCEPT !.patterns = @ \o x.arg, !.bad = @ \/ x.arg = <<>>]
    [] x.opt \in {"A", "B", "C", "m"} /\ x.arg < 0 -> [o EXCEPT !.bad = TRUE]
    [] x.opt = "A" /\ x.arg >= 0 -> [o EXCEPT !.after = x.arg, !.context = TRUE]
    [] x.opt = "B" /\ x.arg >= 0 -> [o EXCEPT !.before = x.arg, !.context = TRUE]
    [] x.opt = "C" /\ x.arg >= 0 -> [o EXCEPT !.before = x.arg, !.after = x.arg, !.context = TRUE]
    [] x.opt = "m" /\ x.arg >= 0 -> [o EXCEPT !.max = x.arg]

(* The options that have no argument, the others, and the operands, the first *)
(* of which is the pattern if none was given before it.  -r and -R, and       *)
(* "-d recurse", all recurse.                                               *)
Flags == {"i", "v", "n", "c", "l", "L", "h", "H", "w", "x", "F", "E", "r", "q", "o", "s", "b", "z", "Z", "T"}
GrepOption(o, x) ==
  CASE x.opt \in Valued -> ApplyValued(o, x)
    [] x.opt \in Flags -> [o EXCEPT !.flags = @ \cup {x.opt}]
    [] x.opt = "R" -> [o EXCEPT !.flags = @ \cup {"r", "R"}]
    [] x.opt = "no-ignore-case" -> [o EXCEPT !.flags = @ \ {"i"}]
    [] x.opt = "G" -> [o EXCEPT !.flags = @ \ {"E"}]
    [] x.opt \in {"U", "line-buffered", "label"} -> o
    [] x.opt = "separator" -> [o EXCEPT !.sep = x.arg]
    [] x.opt \in {"a", "I"} -> [o EXCEPT !.binary = IF x.opt = "a" THEN "text" ELSE "without-match"]
    [] x.opt = "binary" -> [o EXCEPT !.binary = x.arg, !.bad = @ \/ x.arg \notin {"binary", "text", "without-match"}]
    [] x.opt = "d" ->
         [o EXCEPT !.dirs = x.arg, !.bad = @ \/ x.arg \notin {"read", "skip", "recurse"},
                   !.flags = IF x.arg = "recurse" THEN @ \cup {"r"} ELSE @]
    [] x.opt = "D" -> [o EXCEPT !.devices = x.arg, !.bad = @ \/ x.arg \notin {"read", "skip"}]
    [] x.opt = "include" -> [o EXCEPT !.includes = @ \cup {x.arg}]
    [] x.opt = "exclude" -> [o EXCEPT !.excludes = @ \cup {x.arg}]
    [] x.opt = "exclude-dir" -> [o EXCEPT !.excludeDirs = @ \cup {x.arg}]
    [] x.opt = "operand" -> IF o.patterns = <<>> THEN [o EXCEPT !.patterns = <<x.arg.pattern>>] ELSE [o EXCEPT !.files = Append(@, x.arg.file)]
    [] OTHER -> [o EXCEPT !.bad = TRUE]

(* -------------------------------- matching ------------------------------- *)
IsWord(c) == IsDigit(c) \/ IsUpper(c) \/ IsLower(c) \/ c = 95
Folded(o, s) == IF Has(o, "i") THEN LowerAll(s) ELSE s
None == [start |-> -1, end |-> -1]

(* FindStringIndex: offsets from 0.  To -F an anchor is a character as others *)
(* are.                                                                     *)
Anchor == 94
Compiled(o) == Mapped(o.patterns, LAMBDA p : IF Has(o, "F") /\ p.start THEN [text |-> <<Anchor>> \o p.text, start |-> FALSE] ELSE p)
FindIn(o, s) ==
  LET patterns == Range(Compiled(o))
      fits(p, at) == at + Len(p.text) <= Len(s) /\ SubSeq(Folded(o, s), at + 1, at + Len(p.text)) = Folded(o, p.text)
      starts == {at \in 0 .. Len(s) : \E p \in patterns : fits(p, at) /\ (p.start => at = 0)}
      at == Least(starts)
      lengths == {Len(p.text) : p \in {q \in patterns : fits(q, at) /\ (q.start => at = 0)}}
  IN IF starts = {} THEN None ELSE [start |-> at, end |-> at - Least({-n : n \in lengths})]

Accepts(o, s, m) ==
  IF Has(o, "x") THEN m.start = 0 /\ m.end = Len(s)
  ELSE Has(o, "w") => ~ (m.start > 0 /\ IsWord(s[m.start])) /\ ~ (m.end < Len(s) /\ IsWord(s[m.end + 1]))

(* next: the rest of the line is searched as if it were a line, so that an  *)
(* anchored pattern is found again where the last search ended.             *)
RECURSIVE NextMatch(_, _, _)
NextMatch(o, s, at) ==
  LET f == FindIn(o, Skip(s, at))
      m == [start |-> at + f.start, end |-> at + f.end]
  IN IF at > Len(s) \/ f = None THEN None
     ELSE IF Accepts(o, s, m) THEN m ELSE NextMatch(o, s, m.start + 1)
Selected(o, s) == (NextMatch(o, s, 0) /= None) /= Has(o, "v")

(* The parts of a line -o prints: not the empty ones, and none with -v.     *)
RECURSIVE PartsFrom(_, _, _)
PartsFrom(o, s, at) ==
  LET m == NextMatch(o, s, at)
      empty == m.start = m.end
  IN IF at > Len(s) \/ m = None THEN <<>>
     ELSE (IF empty \/ Has(o, "v") THEN <<>> ELSE <<m>>) \o PartsFrom(o, s, IF empty THEN m.end + 1 ELSE m.end)

(* -------------------------------- printing ------------------------------- *)
(* A run: what is printed, and where the last printed line came from.       *)
Run(o) == [out |-> <<>>, any |-> FALSE, error |-> FALSE, done |-> FALSE, file |-> "none", line |-> 0, printed |-> FALSE]
Emit(r, x) == [r EXCEPT !.out = Append(@, x)]

GroupBroken(r, file, n) == file /= r.file \/ n > r.line + 1
Separate(o, r, file, n) ==
  LET cut == o.context /\ r.printed /\ o.sep /\ GroupBroken(r, file, n)
  IN [(IF cut THEN Emit(r, [kind |-> "--"]) ELSE r) EXCEPT !.file = file, !.line = n, !.printed = TRUE]

PrintLine(o, r, file, l, selected) ==
  LET s == Separate(o, r, file, l.n)
      shown(b, text) == [kind |-> IF selected THEN ":" ELSE "-", file |-> file, n |-> l.n, byte |-> b, text |-> text]
      parts == PartsFrom(o, l.text, 0)
  IN IF ~ Has(o, "o") THEN Emit(s, shown(l.offset, l.text))
     ELSE IF ~ selected THEN s
     ELSE FoldLeft(LAMBDA a, m : Emit(a, shown(l.offset + m.start, SubSeq(l.text, m.start + 1, m.end))), s, parts)

(* -------------------------------- one file ------------------------------- *)
(* f is the state of scanReader: the lines held for -B, how many are still  *)
(* owed to -A, the count, and whether it "scan"s, prints only what "trails" *)
(* the last match of -m, or is "over".                                      *)
HoldAll(o, f, l) == [f EXCEPT !.before = Append(@, l)]
HoldLine(o, f, l) ==
  [f EXCEPT !.before = IF o.before = 0 THEN @
                       ELSE Append(IF Len(@) = o.before THEN Tail(@) ELSE @, l)]

Unselected(o, file, f, l) ==
  IF f.owed > 0 THEN [f EXCEPT !.r = PrintLine(o, @, file, l, FALSE), !.owed = @ - 1] ELSE HoldLine(o, f, l)

WithHeld(o, file, f, l) ==
  LET held == FoldLeft(LAMBDA a, h : PrintLine(o, a, file, h, FALSE), f.r, f.before)
  IN [f EXCEPT !.r = PrintLine(o, held, file, l, TRUE), !.owed = o.after]

SelectedLine(o, file, binary, f0, l) ==
  LET f == [f0 EXCEPT !.r.any = TRUE, !.count = @ + 1]
      shown == IF Has(o, "c") THEN f ELSE WithHeld(o, file, f, l)
      last == o.max > 0 /\ f.count >= o.max
  IN CASE Has(o, "q") -> [f EXCEPT !.r.done = TRUE, !.mode = "returned"]
       [] ~ Has(o, "q") /\ (Has(o, "l") \/ Has(o, "L")) ->
            [f EXCEPT !.r = IF Has(o, "l") THEN Emit(@, [kind |-> "name", file |-> file]) ELSE @, !.mode = "returned"]
       [] ~ Has(o, "q") /\ ~ Has(o, "l") /\ ~ Has(o, "L") /\ ~ Has(o, "c") /\ binary -> [f EXCEPT !.mode = "returned"]
       [] OTHER -> [shown EXCEPT !.before = <<>>, !.mode = IF last THEN "trails" ELSE @]

Trailing(o, file, f, l) == IF f.owed > 0 THEN Unselected(o, file, f, l) ELSE [f EXCEPT !.mode = "over"]

ScanLine(o, file, binary, f, l) ==
  CASE f.mode = "scan" -> IF Selected(o, l.text) THEN SelectedLine(o, file, binary, f, l) ELSE Unselected(o, file, f, l)
    [] f.mode = "trails" -> Trailing(o, file, f, l)
    [] OTHER -> f

ReportCount(o, file, r, n) ==
  IF Has(o, "c") /\ o.flags \cap {"q", "l", "L"} = {} THEN Emit(r, [kind |-> "count", file |-> file, n |-> n]) ELSE r

Numbered(lines) ==
  [k \in DOMAIN lines |->
     [n |-> k, text |-> lines[k], offset |-> FoldLeft(LAMBDA a, l : a + Len(l) + 1, 0, Take(lines, k - 1))]]

(* -m 0 reads nothing, and prints no name for -L.  A file that breaks off is  *)
(* trouble only if it was read that far.                                    *)
Trouble(r) == [r EXCEPT !.error = TRUE]
ScanReader(o, r, file, node) ==
  LET binary == node.nul /\ o.binary /= "text" /\ ~ Has(o, "z")
      f == FoldLeft(LAMBDA a, l : ScanLine(o, file, binary, a, l),
                    [r |-> r, before |-> <<>>, owed |-> 0, count |-> 0, mode |-> "scan"], Numbered(node.lines))
      broken == node.breaks /\ (f.mode = "scan" \/ (f.mode = "trails" /\ f.owed > 0))
      counted == ReportCount(o, file, IF broken THEN Trouble(f.r) ELSE f.r, f.count)
  IN CASE binary /\ o.binary = "without-match" -> r
       [] ~ (binary /\ o.binary = "without-match") /\ o.max = 0 -> ReportCount(o, file, r, 0)
       [] OTHER -> IF f.mode = "returned" THEN f.r
                   ELSE IF Has(o, "L") /\ f.count = 0 THEN Emit(counted, [kind |-> "name", file |-> file]) ELSE counted

(* ------------------------------- the files ------------------------------- *)
(* A node is [name, kind, lines, nul, breaks, kids, follow]: follow is what a *)
(* symbolic link leads to, 0 for nothing; a "closed" directory cannot be read, *)
(* nor can an "unreadable" file.                                            *)
WorkingDir == 1
StandardInput == 9
IsDir(node) == node.kind \in {"dir", "closed"}
ScanFile(o, fs, r, id, name) == IF fs[id].kind = "unreadable" THEN Trouble(r) ELSE ScanReader(o, r, name, fs[id])

RECURSIVE WalkDir(_, _, _, _), WalkEntry(_, _, _, _)
WalkDir(o, fs, r, id) ==
  IF fs[id].kind = "closed" THEN Trouble(r) ELSE FoldLeft(LAMBDA a, k : WalkEntry(o, fs, a, k), r, fs[id].kids)
WalkEntry(o, fs, r, link) ==
  LET isLink == fs[link].kind = "link"
      id == IF isLink THEN fs[link].follow ELSE link
      name == fs[link].name
  IN CASE r.done \/ (isLink /\ ~ Has(o, "R")) -> r
       [] ~ r.done /\ isLink /\ Has(o, "R") /\ id = 0 -> Trouble(r)
       [] OTHER ->
            IF IsDir(fs[id]) THEN IF name \in o.excludeDirs THEN r ELSE WalkDir(o, fs, r, id)
            ELSE IF (fs[id].kind = "device" /\ o.devices = "skip") \/ (o.includes /= {} /\ name \notin o.includes)
                    \/ name \in o.excludes THEN r
            ELSE ScanFile(o, fs, r, id, name)

(* 0 is a name that is not there; a link is followed, with or without -R.      *)
Operand(o, fs, r, name) ==
  LET id == IF name /= 0 /\ fs[name].kind = "link" THEN fs[name].follow ELSE name
  IN IF r.done THEN r
     ELSE IF id = 0 THEN Trouble(r)
     ELSE CASE fs[id].kind = "device" /\ o.devices = "skip" -> r
            [] IsDir(fs[id]) -> IF Has(o, "r") THEN WalkDir(o, fs, r, id) ELSE IF o.dirs = "skip" THEN r ELSE Trouble(r)
            [] OTHER -> ScanFile(o, fs, r, id, fs[name].name)

GrepStatus(r) == IF r.any THEN 0 ELSE IF r.error THEN 2 ELSE 1
GrepPlan(args) == Options(GrepOption, GrepDefaults, args)
Operands(o) == IF o.files /= <<>> THEN o.files ELSE IF Has(o, "r") THEN <<WorkingDir>> ELSE <<StandardInput>>
Grep(args, fs) ==
  LET o == GrepPlan(args)
      r == FoldLeft(LAMBDA a, id : Operand(o, fs, a, id), Run(o), Operands(o))
  IN IF o.bad \/ o.patterns = <<>> THEN [out |-> <<>>, status |-> 2] ELSE [out |-> r.out, status |-> GrepStatus(r)]
=============================================================================
