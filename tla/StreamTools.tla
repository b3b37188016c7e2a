----------------------------- MODULE StreamTools -----------------------------
(* cat, head, tail, tac, nl, wc, paste, tee and split: the tools that cut   *)
(* a stream into records and pass them on.  A file is its characters, or    *)
(* Missing, where it cannot be opened; what can is read to its end.  The    *)
(* files are the operands, or the standard input if there are none.         *)
EXTENDS Text

Missing == <<-1>>
There(files) == SelectSeq(files, LAMBDA f : f /= Missing)
FilesStatus(files) == IF Missing \in Range(files) THEN 1 ELSE 0
None == -1
Refused == [status |-> 1, out |-> <<>>]

(* ReadString: the records of a text, each with its separator.              *)
Records(text, sep) ==
  LET ends == SelectSeq(Between(1, Len(text)), LAMBDA i : text[i] = sep \/ i = Len(text))
  IN [k \in DOMAIN ends |-> SubSeq(text, IF k = 1 THEN 1 ELSE ends[k - 1] + 1, ends[k])]
Terminated(record, sep) == record /= <<>> /\ Last(record) = sep
Body(record, sep) == IF Terminated(record, sep) THEN Front(record) ELSE record
Lines(text) == Mapped(Records(text, Newline), LAMBDA r : Body(r, Newline))

(* ---------------------------------- cat ---------------------------------- *)
(* A line of output is [number, body, dollar, newline], number <<>> if it   *)
(* has none; the count and the last blank line carry over from file to file.*)
ShownTabs(body) == FlattenSeq(Mapped(body, LAMBDA c : IF c = Tab THEN <<94, 73>> ELSE <<c>>))
CatLine(o, c, record) ==
  LET body == Body(record, Newline)
      blank == body = <<>>
      ended == Terminated(record, Newline)
      numbered == IF "b" \in o THEN ~ blank ELSE "n" \in o
      line == [number |-> IF numbered THEN <<c.next>> ELSE <<>>,
               body |-> IF o \cap {"T", "A"} /= {} THEN ShownTabs(body) ELSE body,
               dollar |-> o \cap {"E", "A"} /= {} /\ ended, newline |-> ended]
  IN IF "s" \in o /\ blank /\ c.blank THEN c
     ELSE [next |-> IF numbered THEN c.next + 1 ELSE c.next, blank |-> blank, out |-> Append(c.out, line)]

(* o is the letters given, with or without a dash of their own.             *)
Cat(o, files) ==
  LET records == FlattenSeq(Mapped(There(files), LAMBDA f : Records(f, Newline)))
  IN IF ~ o \subseteq {"n", "b", "E", "s", "T", "A"} THEN Refused
     ELSE [status |-> FilesStatus(files),
           out |-> FoldLeft(LAMBDA c, r : CatLine(o, c, r), [next |-> 1, blank |-> FALSE, out |-> <<>>], records).out]

(* ------------------------------- head, tail ------------------------------ *)
FirstLines(text, n) == FlattenSeq(Take(Records(text, Newline), n))
FirstBytes(text, n) == Take(text, n)

LinesFrom(text, n) ==
  LET records == Records(text, Newline) IN FlattenSeq(SubSeq(records, IF n < 1 THEN 1 ELSE n, Len(records)))

(* Without moving to the oldest line.                                       *)
RingStays(n, r, line) ==
  IF Len(r.ring) < n THEN [r EXCEPT !.ring = Append(@, line)] ELSE [r EXCEPT !.ring[r.head + 1] = line]
(* The ring grows to n lines; head is then its oldest.                      *)
RingStep(n, r, line) ==
  IF Len(r.ring) < n THEN [r EXCEPT !.ring = Append(@, line)]
  ELSE [ring |-> [r.ring EXCEPT ![r.head + 1] = line], head |-> (r.head + 1) % Len(r.ring)]
LastLines(text, n) ==
  LET r == FoldLeft(LAMBDA s, line : RingStep(n, s, line), [ring |-> <<>>, head |-> 0], Records(text, Newline))
      size == Len(r.ring)
  IN IF n <= 0 THEN <<>> ELSE FlattenSeq([k \in 1 .. size |-> r.ring[((r.head + k - 1) % size) + 1]])

BytesFrom(text, n) == Skip(text, IF n > 1 THEN n - 1 ELSE 0)
(* A chunk is what one read returns; the window is cut back after each.     *)
WindowStep(n, window, chunk) ==
  IF Len(chunk) >= n THEN Skip(chunk, Len(chunk) - n)
  ELSE LET w == window \o chunk IN IF Len(w) > n THEN Skip(w, Len(w) - n) ELSE w
LastBytes(chunks, n) ==
  IF n <= 0 THEN <<>> ELSE FoldLeft(LAMBDA w, c : WindowStep(n, w, c), <<>>, chunks)

(* A count is [sign, n, unit], n None if it is no number; CountMax stands    *)
(* for the greatest 64-bit number.                                          *)
CountMax == 2147483647
CountUnits == [one |-> 1, b |-> 512, k |-> 1024, m |-> 1048576, g |-> 1073741824]
ParseCount(c) ==
  IF c.n = None \/ (c.sign = "-" /\ c.n > 0) \/ c.n > CountMax \div CountUnits[c.unit] THEN None
  ELSE c.n * CountUnits[c.unit]
(* tail takes a sign away before it, and counts from the start after a plus.*)
TailCount(c) == ParseCount([c EXCEPT !.sign = ""])

EndsDefaults == [bytes |-> FALSE, n |-> 10, plus |-> FALSE, q |-> FALSE, v |-> FALSE, f |-> FALSE, bad |-> FALSE]
EndsOption(o, tail, x) ==
  LET n == IF tail THEN TailCount(x.arg) ELSE ParseCount(x.arg)
  IN CASE x.opt \in {"n", "c"} ->
            [o EXCEPT !.bytes = x.opt = "c", !.n = n, !.plus = tail /\ x.arg.sign = "+", !.bad = @ \/ n = None]
       [] x.opt \in {"q", "v"} -> [o EXCEPT ![x.opt] = TRUE]
       [] x.opt = "f" /\ tail -> [o EXCEPT !.f = TRUE]
       [] OTHER -> [o EXCEPT !.bad = TRUE]
HeadOptions(args) == Options(LAMBDA o, x : EndsOption(o, FALSE, x), EndsDefaults, args)
TailOptions(args) == Options(LAMBDA o, x : EndsOption(o, TRUE, x), EndsDefaults, args)

HeadOf(o, file) == IF o.bytes THEN FirstBytes(file, o.n) ELSE FirstLines(file, o.n)
TailOf(o, file) ==
  IF o.bytes THEN IF o.plus THEN BytesFrom(file, o.n) ELSE LastBytes(<<file>>, o.n)
  ELSE IF o.plus THEN LinesFrom(file, o.n) ELSE LastLines(file, o.n)

(* What each file shows, with a header if there are several, and an empty   *)
(* line before the header of every operand but the first.                   *)
Sections(o, texts) ==
  LET headed == (Len(texts) > 1 \/ o.v) /\ ~ o.q
      section(k) == [blank |-> headed /\ k > 1, name |-> IF headed THEN <<k>> ELSE <<>>, text |-> texts[k]]
  IN Mapped(SelectSeq(Between(1, Len(texts)), LAMBDA k : texts[k] /= Missing), section)
HeadFiles(args, files) ==
  LET o == HeadOptions(args)
  IN IF o.bad THEN Refused
     ELSE [status |-> FilesStatus(files), out |-> Sections(o, Mapped(files, LAMBDA f : IF f = Missing THEN f ELSE HeadOf(o, f)))]
(* With -f one file is read on after its end; there are no two to follow.   *)
TailFiles(args, files) ==
  LET o == TailOptions(args)
  IN IF o.bad \/ (o.f /\ Len(files) > 1) THEN Refused
     ELSE [status |-> FilesStatus(files), out |-> Sections(o, Mapped(files, LAMBDA f : IF f = Missing THEN f ELSE TailOf(o, f)))]

(* ---------------------------------- tac ---------------------------------- *)
(* seps are the texts a separator matches, the longest first; it does not   *)
(* match nothing.  Without any the text is one record.                      *)
TacCut(text, seps, before, s, i) ==
  LET lengths == {Len(p) : p \in {q \in seps : q /= <<>> /\ i + Len(q) - 1 <= Len(text) /\ SubSeq(text, i, i + Len(q) - 1) = q}}
      longest == CHOOSE n \in lengths : \A m \in lengths : m <= n
  IN IF i < s.next \/ lengths = {} THEN s
     ELSE [next |-> i + longest, cuts |-> Append(s.cuts, IF before THEN i - 1 ELSE i + longest - 1)]
TacRecords(text, seps, before) ==
  LET s == FoldLeft(LAMBDA u, i : TacCut(text, seps, before, u, i), [next |-> 1, cuts |-> <<0>>], Between(1, Len(text)))
      bounds == Append(s.cuts, Len(text))
  IN IF text = <<>> THEN <<>> ELSE [k \in 1 .. Len(bounds) - 1 |-> SubSeq(text, bounds[k] + 1, bounds[k + 1])]
TacReversed(text, seps, before) == FlattenSeq(Reverse(TacRecords(text, seps, before)))

(* A separator is [text, valid, matches]: itself, and as an expression.     *)
TacDefaults == [b |-> FALSE, r |-> FALSE, s |-> [text |-> <<Newline>>, valid |-> TRUE, matches |-> {<<Newline>>}], bad |-> FALSE]
TacOption(o, x) ==
  CASE x.opt \in {"b", "r"} -> [o EXCEPT ![x.opt] = TRUE]
    [] x.opt = "s" -> [o EXCEPT !.s = x.arg]
    [] OTHER -> [o EXCEPT !.bad = TRUE]
TacSeparators(o) == IF o.s.text = <<>> THEN {} ELSE IF o.r THEN o.s.matches ELSE {o.s.text}
Tac(args, files) ==
  LET o == Options(TacOption, TacDefaults, args)
  IN IF o.bad \/ (o.r /\ o.s.text /= <<>> /\ ~ o.s.valid) THEN Refused
     ELSE [status |-> FilesStatus(files),
           out |-> FlattenSeq(Mapped(There(files), LAMBDA f : TacReversed(f, TacSeparators(o), o.b)))]

(* ---------------------------------- nl ----------------------------------- *)
(* Style p is [style, valid, matches], matches the lines its expression     *)
(* matches.  A number is None where it does not parse.                      *)
NlDefaults == [style |-> "t", matches |-> {}, l |-> 1, start |-> 1, step |-> 1, bad |-> FALSE]
NlOption(o, x) ==
  LET wrong == [o EXCEPT !.bad = TRUE]
  IN CASE x.opt = "b" -> IF x.arg.style \in {"a", "t", "n"} THEN [o EXCEPT !.style = x.arg.style]
                         ELSE IF x.arg.style = "p" /\ x.arg.valid THEN [o EXCEPT !.style = "p", !.matches = x.arg.matches]
                         ELSE wrong
       [] x.opt = "n" -> IF x.arg \in {"ln", "rn", "rz"} THEN o ELSE wrong
       [] x.opt = "s" -> o
       [] x.opt \in {"v", "i"} /\ x.arg.valid -> [o EXCEPT ![IF x.opt = "v" THEN "start" ELSE "step"] = x.arg.n]
       [] x.opt \in {"l", "w"} /\ x.arg.valid /\ x.arg.n >= 1 -> IF x.opt = "l" THEN [o EXCEPT !.l = x.arg.n] ELSE o
       [] OTHER -> wrong
NlLine(o, s, line) ==
  LET matches == o.style = "p" /\ line \in o.matches
      eligible == o.style = "a" \/ matches
      run == IF line = <<>> /\ eligible THEN s.run + 1 ELSE 0
      numbered == IF line /= <<>> THEN o.style \in {"a", "t"} \/ matches
                  ELSE eligible /\ run % o.l = 0
  IN [run |-> run, next |-> IF numbered THEN s.next + o.step ELSE s.next,
      out |-> Append(s.out, [number |-> IF numbered THEN <<s.next>> ELSE <<>>, body |-> line])]
(* bufio.ScanLines takes a carriage return before the line end away.        *)
Return == 13
ScannedLines(text) == Mapped(Lines(text), LAMBDA l : Body(l, Return))
Nl(args, files) ==
  LET o == Options(NlOption, NlDefaults, args)
      lines == FlattenSeq(Mapped(There(files), ScannedLines))
  IN IF o.bad THEN Refused
     ELSE [status |-> FilesStatus(files),
           out |-> FoldLeft(LAMBDA s, line : NlLine(o, s, line), [run |-> 0, next |-> o.start, out |-> <<>>], lines).out]

(* ---------------------------------- wc ----------------------------------- *)
(* Characters above 127 take several bytes; some of them are white space.   *)
IsSpace(c) == c \in {9, 10, 11, 12, 13, Space, 133, 160, 5760, 8232, 8233, 8239, 8287, 12288} \cup (8192 .. 8202)
RuneSize(c) == IF c < 128 THEN 1 ELSE IF c < 2048 THEN 2 ELSE IF c < 65536 THEN 3 ELSE 4
WcStep(n, c) ==
  [l |-> IF c = Newline THEN n.l + 1 ELSE n.l,
   w |-> IF ~ IsSpace(c) /\ ~ n.inWord THEN n.w + 1 ELSE n.w,
   c |-> n.c + RuneSize(c), m |-> n.m + 1, inWord |-> ~ IsSpace(c)]
CountWc(file) == FoldLeft(WcStep, [l |-> 0, w |-> 0, c |-> 0, m |-> 0, inWord |-> FALSE], file)
WcLetters == {"l", "w", "c", "m"}
(* letters are those given; the total counts as many files as there were.   *)
Wc(letters, files) ==
  LET sel == IF letters = {} THEN {"l", "w", "c"} ELSE letters
      row(n) == [x \in sel |-> n[x]]
      counts == Mapped(There(files), CountWc)
      sum == [x \in WcLetters |-> FoldLeft(LAMBDA n, k : n + k[x], 0, counts)]
  IN IF ~ letters \subseteq WcLetters THEN Refused
     ELSE [status |-> FilesStatus(files),
           out |-> Mapped(counts, row) \o IF Len(files) > 1 THEN <<row(sum)>> ELSE <<>>]

(* --------------------------------- paste --------------------------------- *)
(* The delimiters: a backslash is followed by n, t, 0, itself or an octal    *)
(* number of as many digits as a byte can still take.                       *)
Backslash == 92
IsOctal(c) == c \in 48 .. 55
PasteDelimiter(s, c) ==
  LET t == IF s.mode = "octal" /\ ~ (IsOctal(c) /\ s.value * 8 < 256) THEN [s EXCEPT !.mode = "plain", !.out = Append(@, s.value)] ELSE s
      put(x) == [t EXCEPT !.mode = "plain", !.out = Append(@, x)]
  IN CASE t.mode = "octal" -> [t EXCEPT !.value = 8 * @ + (c - 48)]
       [] t.mode = "plain" -> IF c = Backslash THEN [t EXCEPT !.mode = "escape"] ELSE put(c)
       [] t.mode = "escape" /\ c = 110 -> put(Newline)
       [] t.mode = "escape" /\ c = 116 -> put(Tab)
       [] t.mode = "escape" /\ c = Backslash -> put(Backslash)
       [] t.mode = "escape" /\ c = 48 -> put(0)
       [] t.mode = "escape" /\ c \in 49 .. 55 -> [t EXCEPT !.mode = "octal", !.value = c - 48]
       [] OTHER -> [t EXCEPT !.bad = TRUE]
PasteDelimiters(spec) ==
  LET s == FoldLeft(PasteDelimiter, [mode |-> "plain", value |-> 0, out |-> <<>>, bad |-> FALSE], spec)
  IN [bad |-> s.bad \/ s.mode = "escape", list |-> IF s.mode = "octal" THEN Append(s.out, s.value) ELSE s.out]

PasteDefaults == [d |-> <<Tab>>, s |-> FALSE, z |-> FALSE, bad |-> FALSE]
PasteOption(o, x) ==
  CASE x.opt = "d" -> [o EXCEPT !.d = x.arg]
    [] x.opt \in {"s", "z"} -> [o EXCEPT ![x.opt] = TRUE]
    [] OTHER -> [o EXCEPT !.bad = TRUE]
(* One column per file; the delimiters start over in every row.             *)
PasteRow(delims, cells) ==
  FlattenSeq([i \in DOMAIN cells |-> IF i = 1 THEN cells[1] ELSE <<delims[((i - 2) % Len(delims)) + 1]>> \o cells[i]])
(* The rows, each ended by the terminator.  Without delimiters -s has none  *)
(* to put before the second line of its file, and the program dies there.   *)
Paste(args, files) ==
  LET o == Options(PasteOption, PasteDefaults, args)
      end == IF o.z THEN 0 ELSE Newline
      delims == PasteDelimiters(o.d)
      lines == Mapped(files, LAMBDA f : Mapped(Records(f, end), LAMBDA r : Body(r, end)))
      rows == Len(CHOOSE l \in Range(lines) : \A m \in Range(lines) : Len(m) <= Len(l))
      row(n) == [i \in DOMAIN lines |-> IF n <= Len(lines[i]) THEN lines[i][n] ELSE <<>>]
  IN IF o.bad \/ delims.bad \/ (delims.list = <<>> /\ Len(files) > 1) \/ Missing \in Range(files) THEN Refused
     ELSE IF o.s /\ delims.list = <<>> /\ Len(lines[1]) > 1 THEN [status |-> 2, out |-> <<lines[1][1]>>]
     ELSE [status |-> 0,
           out |-> IF o.s THEN Mapped(lines, LAMBDA l : PasteRow(delims.list, l))
                   ELSE [n \in 1 .. rows |-> PasteRow(delims.list, row(n))]]

(* ---------------------------------- tee ---------------------------------- *)
(* An output is [opens, had, pipe, fails], the standard output first: what  *)
(* it held, and the chunk from which on its writes fail.                    *)
TeeDefaults == [append |-> FALSE, mode |-> "warn", bad |-> FALSE]
TeeOption(o, x) ==
  CASE x.opt = "a" -> [o EXCEPT !.append = TRUE]
    [] x.opt = "i" -> o
    [] x.opt = "p" -> [o EXCEPT !.mode = "warn"]
    [] x.opt = "error" /\ x.arg \in {"warn", "warn-nopipe", "exit", "exit-nopipe"} -> [o EXCEPT !.mode = x.arg]
    [] OTHER -> [o EXCEPT !.bad = TRUE]
TeeFatal(mode, pipe) == mode \in {"warn", "exit"} \/ ~ pipe
TeeExits(mode) == mode \in {"exit", "exit-nopipe"}
TeeWrite(mode, outputs, t, i, n, chunk) ==
  CASE t.exited \/ ~ t.open[i] -> t
    [] ~ t.exited /\ t.open[i] /\ n < outputs[i].fails -> [t EXCEPT !.got[i] = @ \o chunk]
    [] ~ t.exited /\ t.open[i] /\ n >= outputs[i].fails ->
         IF ~ TeeFatal(mode, outputs[i].pipe) THEN t
         ELSE [t EXCEPT !.status = 1, !.exited = TeeExits(mode), !.open[i] = TeeExits(mode)]
Tee(args, outputs, chunks) ==
  LET o == Options(TeeOption, TeeDefaults, args)
      all == Between(1, Len(outputs))
      kept(i) == IF i = 1 \/ (outputs[i].opens /\ ~ o.append) THEN <<>> ELSE outputs[i].had
      start == [open |-> [i \in DOMAIN outputs |-> outputs[i].opens], got |-> Mapped(all, kept),
                exited |-> FALSE, status |-> IF \E i \in DOMAIN outputs : ~ outputs[i].opens THEN 1 ELSE 0]
      chunk(t, n) == FoldLeft(LAMBDA u, i : TeeWrite(o.mode, outputs, u, i, n, chunks[n]), t, all)
  IN IF o.bad THEN [start EXCEPT !.status = 1, !.got = Mapped(all, LAMBDA i : IF i = 1 THEN <<>> ELSE outputs[i].had)]
     ELSE FoldLeft(chunk, start, Between(1, Len(chunks)))

(* --------------------------------- split --------------------------------- *)
(* The suffix: digits over an alphabet of base characters, `wide` times     *)
(* widened; a name is [wide, digits], which is how the names sort.  A start *)
(* is its digits, none of them left for <<>>, and the number they are in    *)
(* decimal, if they are.                                                    *)
Decimal(start) == start /= <<>> /\ \A d \in Range(start) : d < 10
Value(start) == FoldLeft(LAMBDA n, d : 10 * n + d, 0, start)
SuffixLength(units, base, start) ==
  LET end == IF Decimal(start) /\ Value(start) < units THEN units - 1 + Value(start) ELSE units - 1
  IN IF units = 0 THEN 0 ELSE CHOOSE k \in 1 .. end + 1 : end < base ^ k /\ (k = 1 \/ base ^ (k - 1) <= end)

(* A digit the alphabet does not have is -1, which no name can be made of.  *)
StartDigits(base, length, start) ==
  [i \in 1 .. length |-> LET k == i - (length - Len(start)) IN IF k < 1 THEN 0 ELSE IF start[k] < base THEN start[k] ELSE -1]
Widened(s) == [s EXCEPT !.wide = @ + 1, !.digits = [i \in 1 .. Len(@) + 1 |-> 0]]

(* next: the carry goes up to the last digit that still has a successor.    *)
NextSuffix(base, auto, s) ==
  LET full == {i \in DOMAIN s.digits : s.digits[i] < base - 1}
      at == CHOOSE i \in full : \A j \in full : j <= i
      up == [s EXCEPT !.digits = [i \in DOMAIN @ |-> IF i < at THEN @[i] ELSE IF i = at THEN @[i] + 1 ELSE 0]]
  IN CASE ~ s.init -> [s EXCEPT !.init = TRUE]
       [] s.init /\ full = {} -> IF auto /\ s.digits /= <<>> THEN Widened(s) ELSE [s EXCEPT !.ok = FALSE]
       [] OTHER -> IF auto /\ at = 1 /\ up.digits[1] = base - 1 THEN Widened(s) ELSE up

(* The pieces of each mode.                                                 *)
ByLines(data, sep, per) ==
  LET records == Records(data, sep)
  IN [k \in 1 .. (Len(records) + per - 1) \div per |-> FlattenSeq(Take(Skip(records, (k - 1) * per), per))]
ByBytes(data, size) == [k \in 1 .. (Len(data) + size - 1) \div size |-> Take(Skip(data, (k - 1) * size), size)]

SplitTarget(length, n, i) == i * (length \div n) + IF i < length % n THEN i ELSE length % n
ByteChunks(data, n) ==
  [i \in 1 .. n |-> SubSeq(data, SplitTarget(Len(data), n, i - 1) + 1, SplitTarget(Len(data), n, i))]

(* A chunk ends at the first record end at or past its target; the targets  *)
(* it has then passed get empty chunks.                                     *)
LineChunk(data, sep, n, c, i) ==
  LET target == SplitTarget(Len(data), n, i)
      from == IF target - 1 < c.pos THEN c.pos ELSE target - 1
      ends == {k \in from + 1 .. Len(data) : data[k] = sep}
      end == IF ends = {} THEN Len(data) ELSE Least(ends)
  IN IF c.pos >= Len(data) \/ (i > 1 /\ target <= c.pos) THEN [c EXCEPT !.chunks = Append(@, <<>>)]
     ELSE [pos |-> end, chunks |-> Append(c.chunks, SubSeq(data, c.pos + 1, end))]
LineAlignedChunks(data, sep, n) ==
  FoldLeft(LAMBDA c, i : LineChunk(data, sep, n, c, i), [pos |-> 0, chunks |-> <<>>], [i \in 1 .. n |-> i]).chunks

RoundRobin(data, sep, n) ==
  LET records == Records(data, sep)
      of(i) == SelectSeq(Between(1, Len(records)), LAMBDA k : k % n = i % n)
  IN [i \in 1 .. n |-> FlattenSeq(Mapped(of(i), LAMBDA k : records[k]))]

(* splitByLineBytes: cur is the piece, hold what is kept for the next one.  *)
LineBytesStep(data, sep, size, s) ==
  LET rest == Skip(data, s.pos)
      room == size - Len(s.cur) - Len(s.hold)
      full == room <= Len(rest)
      window == IF full THEN Take(rest, room) ELSE rest
      seps == {i \in DOMAIN window : window[i] = sep}
      eol == IF seps = {} THEN 0 ELSE CHOOSE i \in seps : \A j \in seps : j <= i
      unhold == s.hold /= <<>> /\ (eol > 0 \/ s.cur = <<>>)
      cur == (IF unhold THEN s.cur \o s.hold ELSE s.cur) \o Take(window, eol)
      hold == IF unhold THEN <<>> ELSE s.hold
      after == Skip(window, eol)
      next == IF eol > 0 THEN [cur |-> cur, hold |-> hold \o after] ELSE [cur |-> cur \o after, hold |-> hold]
  IN IF s.pos >= Len(data) THEN s
     ELSE [pos |-> s.pos + Len(window), hold |-> next.hold,
           cur |-> IF full THEN <<>> ELSE next.cur,
           out |-> IF full /\ next.cur /= <<>> THEN Append(s.out, next.cur) ELSE s.out]
ByLineBytes(data, sep, size) ==
  LET start == [pos |-> 0, cur |-> <<>>, hold |-> <<>>, out |-> <<>>]
      s == Iterate(LAMBDA u : LineBytesStep(data, sep, size, u), start, 2 * Len(data))
      end == s.cur \o s.hold
  IN IF end = <<>> THEN s.out ELSE Append(s.out, end)

(* A size is [n, unit], n None if it is no number; SizeMax stands for 2^62.  *)
SizeMax == 1073741824
SizeUnits == [one |-> 1, b |-> 512, KB |-> 1000, MB |-> 1000000, GB |-> 1000000000, K |-> 1024, M |-> 1048576, G |-> 1073741824]
SplitSize(a) == IF a.n < 1 \/ a.n > SizeMax \div SizeUnits[a.unit] THEN None ELSE a.n * SizeUnits[a.unit]

(* length is None when not given, k 0, start without digits.  There is one  *)
(* way of splitting only, but a chunk picked once stays picked.             *)
SplitDefaults ==
  [mode |-> "lines", set |-> FALSE, size |-> 1000, k |-> 0, n |-> 0, base |-> 26, start |-> <<>>,
   length |-> None, sep |-> Newline, e |-> FALSE, bad |-> FALSE]
SplitWays == [l |-> "lines", b |-> "bytes", C |-> "linebytes", chunks |-> "chunks", lines |-> "l", robin |-> "r"]
(* A start has no zero before its first digit, unless that is its only one. *)
Unpadded(digits) ==
  LET zeros == Span(digits, LAMBDA d : d = 0) IN IF digits /= <<>> /\ zeros = Len(digits) THEN <<0>> ELSE Skip(digits, zeros)
Started(o, base, digits) == [o EXCEPT !.base = base, !.start = Unpadded(digits), !.bad = @ \/ \E d \in Range(digits) : d >= base]
SplitOption(o, a) ==
  LET way == SplitWays[a.opt]
      one == [o EXCEPT !.bad = @ \/ (o.set /\ o.mode /= way), !.mode = way, !.set = TRUE]
      size == IF a.opt = "l" THEN a.arg.n ELSE SplitSize(a.arg)
      wrong == [o EXCEPT !.bad = TRUE]
  IN CASE a.opt \in {"l", "b", "C"} -> IF size < 1 THEN wrong ELSE [one EXCEPT !.size = size]
       [] a.opt \in {"chunks", "lines", "robin"} ->
            IF a.arg.n < 1 \/ (a.arg.picks /\ a.arg.k \notin 1 .. a.arg.n) THEN wrong
            ELSE [one EXCEPT !.k = IF a.arg.picks THEN a.arg.k ELSE @, !.n = a.arg.n]
       [] a.opt = "a" -> IF a.arg < 0 THEN wrong ELSE [o EXCEPT !.length = a.arg]
       [] a.opt \in {"d", "x"} -> [o EXCEPT !.base = IF a.opt = "d" THEN 10 ELSE 16]
       [] a.opt = "numeric" -> Started(o, 10, a.arg)
       [] a.opt = "hex" -> Started(o, 16, a.arg)
       [] a.opt = "e" -> [o EXCEPT !.e = TRUE]
       [] a.opt = "t" -> IF a.arg = <<Backslash, 48>> THEN [o EXCEPT !.sep = 0]
                         ELSE IF Len(a.arg) = 1 THEN [o EXCEPT !.sep = a.arg[1]] ELSE wrong
       [] a.opt \in {"additional", "verbose", "u"} -> o
       [] OTHER -> wrong
(* A decimal start at or past the number of chunks is dropped: any, if the  *)
(* pieces are not counted.                                                  *)
SplitStart(o) == IF Decimal(o.start) /\ Value(o.start) >= o.n THEN <<>> ELSE o.start
SplitSuffix(o) ==
  LET needed == SuffixLength(o.n, o.base, SplitStart(o))
  IN IF o.length /= None THEN o.length ELSE IF o.n > 0 /\ needed > 2 THEN needed ELSE 2
SplitRefused(o, operands) ==
  \/ o.bad
  \/ operands > 2
  \/ o.n > 0 /\ o.length /= None /\ o.length < SuffixLength(o.n, o.base, SplitStart(o))
  \/ Len(SplitStart(o)) > SplitSuffix(o)

SplitPieces(o, data) ==
  CASE o.mode = "lines" -> ByLines(data, o.sep, o.size)
    [] o.mode = "bytes" -> ByBytes(data, o.size)
    [] o.mode = "linebytes" -> ByLineBytes(data, o.sep, o.size)
    [] o.mode = "chunks" -> ByteChunks(data, o.n)
    [] o.mode = "l" -> LineAlignedChunks(data, o.sep, o.n)
    [] o.mode = "r" -> RoundRobin(data, o.sep, o.n)

(* The names and pieces; a name that runs out, or a file that cannot be     *)
(* written (the input itself, or fails), ends the command.                  *)
SplitWrite(o, fails, s, piece) ==
  LET suffix == NextSuffix(o.base, o.n = 0 /\ o.length = None /\ SplitStart(o) = <<>>, s.suffix)
      name == [wide |-> suffix.wide, digits |-> suffix.digits]
  IN IF s.status /= 0 \/ (o.e /\ o.n > 0 /\ piece = <<>>) THEN s
     ELSE IF suffix.ok /\ -1 \in Range(suffix.digits) THEN [s EXCEPT !.status = 2]
     ELSE IF ~ suffix.ok \/ Len(s.out) + 1 = fails THEN [s EXCEPT !.status = 1]
     ELSE [s EXCEPT !.suffix = suffix, !.out = Append(@, [name |-> name, data |-> piece])]
(* A chunk picked among more than there are in the end kills the program,   *)
(* or with r/N is never met.                                                *)
Picked(o, pieces) ==
  IF o.k <= o.n THEN [status |-> 0, out |-> <<[name |-> "stdout", data |-> pieces[o.k]]>>]
  ELSE [status |-> IF o.mode = "r" THEN 0 ELSE 2, out |-> <<>>]
Split(args, operands, fails, data) ==
  LET o == Options(SplitOption, SplitDefaults, args)
      start == SplitStart(o)
      suffix == [wide |-> 0, init |-> start /= <<>>, ok |-> TRUE, digits |-> StartDigits(o.base, SplitSuffix(o), start)]
  IN IF SplitRefused(o, operands) \/ data = Missing THEN Refused
     ELSE IF o.k > 0 THEN Picked(o, SplitPieces(o, data))
     ELSE FoldLeft(LAMBDA s, p : SplitWrite(o, fails, s, p), [status |-> 0, suffix |-> suffix, out |-> <<>>],
                   SplitPieces(o, data))
=============================================================================
