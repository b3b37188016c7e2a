----------------------------- MODULE ColumnTools -----------------------------
(* cut (cut.go), tr (tr.go), expand (expand.go), unexpand (unexpand.go) and *)
(* fold (fold.go): the tools that count columns, positions or fields.  A    *)
(* character is one byte, or Invalid, a byte that is no UTF-8.              *)
EXTENDS StreamTools

Backspace == 8
Invalid == 255
Replacement == 65533

(* ---------------------------------- cut ---------------------------------- *)
(* A list is a sequence of parts, <<n>> or <<lo, hi>>, None where a bound   *)
(* is left out and 0 where it is none or no number.                         *)
CutDefaults ==
  [mode |-> "none", list |-> <<>>, d |-> <<Tab>>, outDelim |-> <<>>, outSet |-> FALSE,
   s |-> FALSE, complement |-> FALSE, z |-> FALSE, bad |-> FALSE]

CutOption(o, a) ==
  CASE a.opt \in {"b", "c", "f"} ->
         IF o.mode \in {"none", a.opt} THEN [o EXCEPT !.mode = a.opt, !.list = a.arg] ELSE [o EXCEPT !.bad = TRUE]
    [] a.opt = "d" -> [o EXCEPT !.d = a.arg]
    [] a.opt = "output" -> [o EXCEPT !.outDelim = a.arg, !.outSet = TRUE]
    [] a.opt \in {"s", "complement", "z"} -> [o EXCEPT ![a.opt] = TRUE]
    [] a.opt = "n" -> o
    [] OTHER -> [o EXCEPT !.bad = TRUE]

CutRefused(o) ==
  \/ o.bad \/ o.mode = "none"
  \/ o.mode = "f" /\ Len(o.d) /= 1
  \/ o.mode /= "f" /\ o.s
  \/ o.list = <<>>
  \/ \E p \in Range(o.list) : \/ \E i \in DOMAIN p : p[i] = 0
                              \/ Len(p) = 2 /\ p[2] /= None /\ p[2] < p[1]

(* A range is <<lo, hi>>, hi 0 to the end of the line.                      *)
CutRanges(list) ==
  [i \in DOMAIN list |-> LET p == list[i]
                         IN IF Len(p) = 1 THEN <<p[1], p[1]>>
                            ELSE <<IF p[1] = None THEN 1 ELSE p[1], IF p[2] = None THEN 0 ELSE p[2]>>]

MergeRange(merged, r) ==
  LET last == merged[Len(merged)]
  IN IF merged = <<>> THEN <<r>>
     ELSE IF last[2] = 0 THEN merged
     ELSE IF r[1] > last[2] + 1 THEN Append(merged, r)
     ELSE IF r[2] = 0 \/ r[2] > last[2] THEN [merged EXCEPT ![Len(merged)][2] = r[2]] ELSE merged
MergeRanges(ranges) == FoldLeft(MergeRange, <<>>, SortSeq(ranges, LAMBDA r, s : r[1] < s[1]))

(* next 0: the ranges reach the end of the line.                            *)
ComplementRange(c, r) ==
  IF c.next = 0 THEN c
  ELSE [next |-> IF r[2] = 0 THEN 0 ELSE r[2] + 1,
        out |-> IF r[1] > c.next THEN Append(c.out, <<c.next, r[1] - 1>>) ELSE c.out]
ComplementRanges(ranges) ==
  LET c == FoldLeft(ComplementRange, [next |-> 1, out |-> <<>>], ranges)
  IN IF c.next = 0 THEN c.out ELSE Append(c.out, <<c.next, 0>>)

InRanges(pos, ranges) == \E r \in Range(ranges) : pos >= r[1] /\ (r[2] = 0 \/ pos <= r[2])

CutPositions(o, ranges, line) ==
  LET units == IF o.mode = "b" THEN line ELSE Mapped(line, LAMBDA c : IF c = Invalid THEN Replacement ELSE c)
      hi(r) == IF r[2] = 0 \/ r[2] > Len(line) THEN Len(line) ELSE r[2]
      kept == SelectSeq(ranges, LAMBDA r : r[1] <= hi(r))
  IN Joined([k \in DOMAIN kept |-> SubSeq(units, kept[k][1], hi(kept[k]))], o.outDelim)

CutFields(o, ranges, line) ==
  LET fields == Pieces(line, LAMBDA c : c = o.d[1])
      numbers == SelectSeq(Between(1, Len(fields)), LAMBDA k : InRanges(k, ranges))
  IN Joined([k \in DOMAIN numbers |-> fields[numbers[k]]], IF o.outSet THEN o.outDelim ELSE o.d)

Cut(args, files) ==
  LET o == Options(CutOption, CutDefaults, args)
      merged == MergeRanges(CutRanges(o.list))
      ranges == IF o.complement THEN ComplementRanges(merged) ELSE merged
      lines(f) == IF o.z THEN Mapped(Records(f, 0), LAMBDA r : Body(r, 0)) ELSE ScannedLines(f)
      delimited(l) == o.d[1] \in Range(l)
      emitted(f) == IF o.s THEN SelectSeq(lines(f), delimited) ELSE lines(f)
      cut(l) == IF o.mode /= "f" THEN CutPositions(o, ranges, l)
                ELSE IF delimited(l) THEN CutFields(o, ranges, l) ELSE l
  IN IF CutRefused(o) THEN Refused
     ELSE [status |-> FilesStatus(files), out |-> Mapped(FlattenSeq(Mapped(There(files), emitted)), cut)]

(* ---------------------------------- tr ----------------------------------- *)
(* A SET is its items in order: a class, a range of characters, or one      *)
(* character, escaped or not.                                               *)
Bytes == 0 .. 255
Class(name) ==
  CASE name = "digit" -> InOrder({c \in Bytes : IsDigit(c)}, 0, 255)
    [] name = "lower" -> InOrder({c \in Bytes : IsLower(c)}, 0, 255)
    [] name = "upper" -> InOrder({c \in Bytes : IsUpper(c)}, 0, 255)
    [] name = "alpha" -> InOrder({c \in Bytes : IsUpper(c) \/ IsLower(c)}, 0, 255)
    [] name = "alnum" -> InOrder({c \in Bytes : IsDigit(c) \/ IsUpper(c) \/ IsLower(c)}, 0, 255)
    [] name = "space" -> <<Space, Tab, Newline, Return, 11, 12>>
    [] name = "blank" -> <<Space, Tab>>
    [] name = "punct" -> InOrder((33 .. 47) \cup (58 .. 64) \cup (91 .. 96) \cup (123 .. 126), 0, 255)
ClassNames == {"digit", "lower", "upper", "alpha", "alnum", "space", "blank", "punct"}
(* The name of the class in [:] would end before it starts, which kills the  *)
(* program; another unknown one, or a range in reverse order, is refused.    *)
NoClass == "[:]"
BadItem(i) == (i.kind = "range" /\ i.lo > i.hi) \/ (i.kind = "class" /\ i.name \notin ClassNames)
ItemStatus(i) == IF i.kind = "class" /\ i.name = NoClass THEN 2 ELSE 1
ExpandItem(i) == IF i.kind = "class" THEN Class(i.name) ELSE Between(i.lo, i.hi)
ExpandSet(items) == FlattenSeq(Mapped(items, ExpandItem))
ComplementSet(set) == InOrder(Bytes \ Range(set), 0, 255)

(* The three loops: what is dropped, what each byte becomes, and what is    *)
(* squeezed, which compares with the last byte written.                     *)
TrByte(dropped, map, squeezed, out, c) ==
  IF c \in dropped \/ (map[c] \in squeezed /\ out /= <<>> /\ Last(out) = map[c]) THEN out ELSE Append(out, map[c])

(* The translation table: a byte named twice in SET1 goes by the last, the  *)
(* last byte of SET2 stands in for those it lacks.                          *)
Translated(set1, set2, c) ==
  LET at == {i \in DOMAIN set1 : set1[i] = c}
      i == CHOOSE i \in at : \A j \in at : j <= i
  IN IF at = {} THEN c ELSE set2[IF i <= Len(set2) THEN i ELSE Len(set2)]

(* letters is the options; sets the operands.                               *)
TrWants(o) == IF "d" \in o /\ "s" \notin o THEN {1} ELSE IF "s" \in o /\ "d" \notin o THEN {1, 2} ELSE {2}
TrSet1(o, sets) == LET s == ExpandSet(sets[1]) IN IF "c" \in o THEN ComplementSet(s) ELSE s
Tr(letters, sets, input) ==
  LET o == IF "C" \in letters THEN (letters \ {"C"}) \cup {"c"} ELSE letters
      set1 == TrSet1(o, sets)
      set2 == IF Len(sets) > 1 THEN ExpandSet(sets[2]) ELSE <<>>
      squeezed == IF "s" \notin o THEN {} ELSE IF "d" \in o \/ set2 /= <<>> THEN Range(set2) ELSE Range(set1)
      map == [c \in Range(input) |-> IF "d" \in o \/ set2 = <<>> THEN c ELSE Translated(set1, set2, c)]
      wrong == SelectSeq(FlattenSeq(sets), BadItem)
  IN IF ~ o \subseteq {"d", "s", "c"} \/ Len(sets) \notin TrWants(o) THEN Refused
     ELSE IF wrong /= <<>> THEN [status |-> ItemStatus(wrong[1]), out |-> <<>>]
     ELSE IF o \cap {"d", "s"} = {} /\ set2 = <<>> THEN Refused
     ELSE [status |-> 0,
           out |-> FoldLeft(LAMBDA out, c : TrByte(IF "d" \in o THEN Range(set1) ELSE {}, map, squeezed, out, c), <<>>, input)]

(* --------------------------- expand, unexpand ---------------------------- *)
NoStops == [size |-> 0, stops |-> <<>>, extend |-> 0, increment |-> 0, flag |-> "", value |-> None, bad |-> FALSE]
TabMax == 1000                                      \* where the code has 2^31

(* addTabSpec: / and + hold for every later value of the same argument,     *)
(* which may then not be a second one.                                      *)
AddTab(t) ==
  LET u == [t EXCEPT !.value = None]
  IN CASE t.value = None -> t
       [] t.value /= None /\ t.flag = "/" -> [u EXCEPT !.bad = @ \/ t.extend /= 0, !.extend = t.value]
       [] t.value /= None /\ t.flag = "+" -> [u EXCEPT !.bad = @ \/ t.increment /= 0, !.increment = t.value]
       [] t.value /= None /\ t.flag = "" -> [u EXCEPT !.stops = Append(@, t.value)]
AddTabCharacter(t, c) ==
  LET value == IF t.value = None THEN c - 48 ELSE t.value * 10 + (c - 48)
  IN CASE t.bad -> t
       [] ~ t.bad /\ c \in {44, Space, Tab} -> AddTab(t)
       [] ~ t.bad /\ c \in {47, 43} -> [t EXCEPT !.flag = IF c = 47 THEN "/" ELSE "+", !.bad = t.value /= None]
       [] ~ t.bad /\ IsDigit(c) -> [t EXCEPT !.value = value, !.bad = value > TabMax]
       [] OTHER -> [t EXCEPT !.bad = TRUE]
AddTabSpec(t, spec) ==
  LET u == FoldLeft(AddTabCharacter, [t EXCEPT !.flag = "", !.value = None], spec) IN IF u.bad THEN u ELSE AddTab(u)
(* t is -t and its list, N the bare list; the rest are the tool's own.      *)
TabOption(own, t, x) ==
  IF x.opt \in {"t", "N"} THEN AddTabSpec(t, x.arg) ELSE IF x.opt \in own THEN t ELSE [t EXCEPT !.bad = TRUE]
TabOptions(own, args) == Options(LAMBDA t, x : TabOption(own, t, x), NoStops, args)
Given(args) == {x.opt : x \in Range(args)}

StopsRefused(t) ==
  \/ t.bad
  \/ \E i \in DOMAIN t.stops : t.stops[i] = 0 \/ (i > 1 /\ t.stops[i] <= t.stops[i - 1])
  \/ t.extend /= 0 /\ t.increment /= 0
FinalStops(t) ==
  LET size == CASE t.stops = <<>> /\ t.extend /= 0 -> t.extend
                [] t.stops = <<>> /\ t.extend = 0 /\ t.increment /= 0 -> t.increment
                [] t.stops = <<>> /\ t.extend = 0 /\ t.increment = 0 -> 8
                [] Len(t.stops) = 1 /\ t.extend = 0 /\ t.increment = 0 -> t.stops[1]
                [] OTHER -> 0
  IN [t EXCEPT !.size = size]

(* next: the stop after a column, where the scan of the list has got to     *)
(* (from 0), and whether the list is exhausted.                             *)
NextStop(t, column, index) ==
  LET later == {i \in index + 1 .. Len(t.stops) : column < t.stops[i]}
      every(k, from) == column + (k - ((column - from) % k))
      end == IF t.size > 0 THEN index ELSE Len(t.stops)
  IN CASE t.size > 0 -> [stop |-> every(t.size, 0), last |-> FALSE, index |-> index]
       [] t.size = 0 /\ later /= {} -> [stop |-> t.stops[Least(later)], last |-> FALSE, index |-> Least(later) - 1]
       [] t.size = 0 /\ later = {} /\ t.extend > 0 -> [stop |-> every(t.extend, 0), last |-> FALSE, index |-> end]
       [] t.size = 0 /\ later = {} /\ t.extend = 0 /\ t.increment > 0 ->
            [stop |-> every(t.increment, Last(t.stops)), last |-> FALSE, index |-> end]
       [] OTHER -> [stop |-> column + 1, last |-> TRUE, index |-> end]

Less(n) == IF n > 0 THEN n - 1 ELSE n
Spaces(n) == [k \in 1 .. n |-> Space]

(* The files are one stream; a line that ends one goes on in the next.      *)
ExpandStart == [convert |-> TRUE, column |-> 0, index |-> 0, out |-> <<>>]
ExpandStep(t, initial, s, c) ==
  LET convert == s.convert /\ (~ initial \/ IsBlank(c))
      n == NextStop(t, s.column, s.index)
      put == Append(s.out, c)
  IN CASE s.convert /\ c = Tab ->
            [convert |-> convert, column |-> n.stop, index |-> n.index, out |-> s.out \o Spaces(n.stop - s.column)]
       [] c = Newline -> [ExpandStart EXCEPT !.out = put]
       [] s.convert /\ c = Backspace ->
            [convert |-> convert, column |-> Less(s.column), index |-> Less(s.index), out |-> put]
       [] s.convert /\ c \notin {Tab, Newline, Backspace} ->
            [s EXCEPT !.convert = convert, !.column = @ + 1, !.out = put]
       [] OTHER -> [s EXCEPT !.out = put]

Expand(args, files) ==
  LET t == TabOptions({"i"}, args)
      initial == "i" \in Given(args)
      input == FlattenSeq(There(files))
  IN IF StopsRefused(t) THEN Refused
     ELSE [status |-> FilesStatus(files),
           out |-> FoldLeft(LAMBDA s, c : ExpandStep(FinalStops(t), initial, s, c), ExpandStart, input).out]

(* unexpand holds back the blanks since the last stop: a run that reaches a *)
(* stop becomes a tab, one that does not is written as it was.              *)
UnexpandStart ==
  [convert |-> TRUE, column |-> 0, index |-> 0, next |-> 0, before |-> FALSE, prevBlank |-> TRUE,
   pending |-> <<>>, out |-> <<>>]

FlushPending(s) ==
  IF s.pending = <<>> THEN s
  ELSE [s EXCEPT !.out = @ \o (IF Len(s.pending) > 1 /\ s.before THEN <<Tab>> \o Tail(s.pending) ELSE s.pending),
                 !.pending = <<>>, !.before = FALSE]

AfterLine(s, c) ==
  IF c = Newline THEN [UnexpandStart EXCEPT !.pending = s.pending, !.out = s.out] ELSE s

(* A blank: [s, held] where held says that it is kept back for now and     *)
(* nothing more is done with it.                                            *)
UnexpandBlank(t, s, c) ==
  LET n == NextStop(t, s.column, s.index)
      u == [s EXCEPT !.next = n.stop, !.index = n.index, !.convert = ~ n.last]
      pending == IF s.before /\ s.pending /= <<>> THEN <<Tab>> ELSE <<>>
      column == s.column + 1
      held == c = Space /\ (~ s.prevBlank \/ column < n.stop)
  IN CASE n.last -> [s |-> u, held |-> FALSE, write |-> TRUE]
       [] ~ n.last /\ c = Tab ->
            [s |-> [u EXCEPT !.column = n.stop, !.pending = pending], held |-> FALSE, write |-> TRUE]
       [] ~ n.last /\ held ->
            [s |-> [u EXCEPT !.column = column, !.before = @ \/ column = n.stop,
                             !.pending = Append(@, Space), !.prevBlank = TRUE], held |-> TRUE, write |-> FALSE]
       [] OTHER ->
            [s |-> [u EXCEPT !.column = column, !.out = Append(@, Tab),
                             !.pending = IF s.before THEN <<Tab>> ELSE <<>>], held |-> FALSE, write |-> FALSE]

UnexpandStep(t, entire, s, c) ==
  LET b == UnexpandBlank(t, s, c)
      other == IF c = Backspace
                 THEN [s EXCEPT !.column = Less(@), !.next = Less(s.column), !.index = Less(@)]
                 ELSE [s EXCEPT !.column = @ + 1]
      moved == IF IsBlank(c) THEN b.s ELSE other
      flushed == [FlushPending(moved) EXCEPT !.prevBlank = IsBlank(c), !.convert = @ /\ (entire \/ IsBlank(c))]
      put(u) == AfterLine([u EXCEPT !.out = Append(@, c)], c)
  IN CASE ~ s.convert -> put(s)
       [] s.convert /\ IsBlank(c) /\ b.held -> b.s
       [] s.convert /\ IsBlank(c) /\ ~ b.held /\ ~ b.write -> flushed
       [] OTHER -> put(flushed)

(* -t, but not the bare list, is -a as well; --first-only undoes both.      *)
Unexpand(args, files) ==
  LET t == TabOptions({"a", "first-only"}, args)
      entire == Given(args) \cap {"a", "t"} /= {} /\ "first-only" \notin Given(args)
      input == FlattenSeq(There(files))
  IN IF StopsRefused(t) THEN Refused
     ELSE [status |-> FilesStatus(files),
           out |-> FlushPending(FoldLeft(LAMBDA s, c : UnexpandStep(FinalStops(t), entire, s, c), UnexpandStart, input)).out]

(* --------------------------------- fold ---------------------------------- *)
(* The width, bytes instead of columns, break at blanks.                    *)
FoldDefaults == [w |-> 80, b |-> FALSE, s |-> FALSE, bad |-> FALSE]
FoldOption(o, x) ==
  CASE x.opt \in {"b", "c"} -> [o EXCEPT !.b = x.opt = "b"]
    [] x.opt = "s" -> [o EXCEPT !.s = TRUE]
    [] x.opt = "w" /\ x.arg >= 1 -> [o EXCEPT !.w = x.arg]
    [] OTHER -> [o EXCEPT !.bad = TRUE]
ColumnAdvance(col, c) ==
  CASE c = Tab -> (col \div 8 + 1) * 8 - col
    [] c = Backspace -> IF col > 0 THEN -1 ELSE 0
    [] c = Return -> -col
    [] OTHER -> 1

(* foldBackoffPoint: past the last blank of the segment (from, to].         *)
BackoffPoint(o, line, from, to) ==
  LET blanks == {j \in from + 1 .. to - 1 : IsBlank(line[j])}
  IN IF ~ o.s \/ to <= from \/ IsBlank(line[to]) \/ blanks = {} THEN to
     ELSE CHOOSE j \in blanks : \A i \in blanks : i <= j

(* An Invalid counts for the three bytes of its replacement: a segment that  *)
(* ends with it takes two more from the line, where there are two; where    *)
(* there are not the program dies.                                          *)
Dies == <<None>>
Segment(o, line, from, to) ==
  LET end == IF ~ o.b /\ to > from /\ line[to] = Invalid THEN to + 2 ELSE to
  IN IF end > Len(line) THEN Dies ELSE SubSeq(line, from + 1, end)
RECURSIVE FoldFrom(_, _, _, _, _)
FoldFrom(o, line, from, col, idx) ==
  LET advance == IF o.b THEN 1 ELSE ColumnAdvance(col, line[idx + 1])
      break(to) == LET b == BackoffPoint(o, line, from, to)
                   IN <<Segment(o, line, from, b)>> \o FoldFrom(o, line, b, 0, b)
  IN IF idx = Len(line) THEN <<Segment(o, line, from, idx)>>
     ELSE IF col > 0 /\ col + advance > o.w THEN break(idx)
     ELSE IF col + advance >= o.w /\ idx + 1 < Len(line) THEN break(idx + 1)
     ELSE FoldFrom(o, line, from, col + advance, idx + 1)
WrapLine(o, line) == FoldFrom(o, line, 0, 0, 0)

(* A line's segments, each but the last, or of an ended line each, ended.   *)
FoldLine(o, record) ==
  LET segments == WrapLine(o, Body(record, Newline))
      ended(k) == k < Len(segments) \/ Terminated(record, Newline)
  IN [k \in DOMAIN segments |-> IF segments[k] /= Dies /\ ended(k) THEN Append(segments[k], Newline) ELSE segments[k]]
Fold(args, files) ==
  LET o == Options(FoldOption, FoldDefaults, args)
      pieces == FlattenSeq(Mapped(FlattenSeq(Mapped(There(files), LAMBDA f : Records(f, Newline))), LAMBDA r : FoldLine(o, r)))
      lives == Span(pieces, LAMBDA p : p /= Dies)
  IN IF o.bad THEN Refused
     ELSE [status |-> IF lives < Len(pieces) THEN 2 ELSE FilesStatus(files), out |-> FlattenSeq(Take(pieces, lives))]
=============================================================================
