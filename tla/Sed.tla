--------------------------------- MODULE Sed ---------------------------------
(* sed.go: the script checked and resolved, the cycle and its commands, the *)
(* addresses, and what becomes of the files.  A script is a sequence of      *)
(* commands [kind, first, second, negated, ...]; a regular expression is     *)
(* [text, start]: characters, at the start of the pattern space or anywhere. *)
(* The files are a function from names to text.                             *)
EXTENDS Text

(* ---------------------------- reading a script ---------------------------- *)
None == [kind |-> "none"]
Line(n) == [kind |-> "line", line |-> n]
Step(n, step) == [kind |-> "step", line |-> n, step |-> step]
LastLine == [kind |-> "last"]
Regex(text, start) == [kind |-> "regex", text |-> text, start |-> start]
Invalid == [kind |-> "invalid"]

(* A number, or first~step: "0~N" starts at N, a step of 0 is one line.      *)
NumberAddress(n, hasStep, step) ==
  LET first == IF n = 0 THEN step ELSE n
  IN CASE ~ hasStep -> IF n < 1 THEN Invalid ELSE Line(n)
       [] hasStep /\ step = 0 -> IF first = 0 THEN Invalid ELSE Line(first)
       [] hasStep /\ step > 0 -> Step(first, step)

Backslash == 92
(* The text up to the delimiter.  A backslash keeps only a delimiter from    *)
(* ending it: the second of two backslashes escapes what comes after.        *)
RECURSIVE Delimited(_, _, _)
Delimited(s, delimiter, value) ==
  IF s = <<>> THEN [ok |-> FALSE, value |-> value, rest |-> s]
  ELSE IF s[1] = delimiter THEN [ok |-> TRUE, value |-> value, rest |-> Tail(s)]
  ELSE IF s[1] = Backslash /\ Len(s) > 1 /\ s[2] = delimiter THEN Delimited(Skip(s, 2), delimiter, Append(value, delimiter))
  ELSE Delimited(Tail(s), delimiter, Append(value, s[1]))

(* A replacement in pieces: characters, and 0 for the match.  A group these   *)
(* regular expressions do not have is replaced by nothing.                   *)
Ampersand == 38
RECURSIVE Replacement(_)
Replacement(s) ==
  IF s = <<>> THEN <<>>
  ELSE IF s[1] = Ampersand \/ (s[1] = Backslash /\ Len(s) > 1 /\ s[2] = 48) THEN <<0>> \o Replacement(Skip(s, IF s[1] = Ampersand THEN 1 ELSE 2))
  ELSE IF s[1] = Backslash /\ Len(s) > 1 /\ IsDigit(s[2]) THEN Replacement(Skip(s, 2))
  ELSE IF s[1] = Backslash /\ Len(s) > 1 /\ s[2] = Ampersand THEN <<Ampersand>> \o Replacement(Skip(s, 2))
  ELSE <<s[1]>> \o Replacement(Tail(s))

(* What a, i and c print: a backslash goes, and some of them mean a          *)
(* character.                                                              *)
Escapes == <<>> @@ 116 :> Tab @@ 110 :> Newline @@ 97 :> 7 @@ 102 :> 12 @@ 114 :> 13 @@ 118 :> 11
RECURSIVE Unescape(_)
Unescape(s) ==
  IF s = <<>> THEN <<>>
  ELSE IF s[1] /= Backslash \/ Len(s) = 1 THEN <<s[1]>> \o Unescape(Tail(s))
  ELSE <<IF s[2] \in DOMAIN Escapes THEN Escapes[s[2]] ELSE s[2]>> \o Unescape(Skip(s, 2))

(* The flags after s///, [flag, n, file]: letters, w with a file and a        *)
(* number that is not 0.                                                    *)
SubstFlags(flags) ==
  FoldLeft(LAMBDA o, f : CASE f.flag = "g" -> [o EXCEPT !.global = TRUE]
                           [] f.flag = "p" -> [o EXCEPT !.print = TRUE]
                           [] f.flag = "w" -> [o EXCEPT !.write = f.file, !.bad = @ \/ f.file = ""]
                           [] f.flag \in {"I", "i"} -> [o EXCEPT !.fold = TRUE]
                           [] f.flag = "number" /\ f.n > 0 -> [o EXCEPT !.occurrence = f.n]
                           [] OTHER -> [o EXCEPT !.bad = TRUE],
           [global |-> FALSE, print |-> FALSE, write |-> "", fold |-> FALSE, occurrence |-> 0, bad |-> FALSE], flags)

Jumps == {"b", "t", "T"}
Filed == {"r", "R", "w", "W"}
Kinds == Jumps \cup Filed \cup {"{", "}", ":", "a", "i", "c", "s", "y", "d", "D", "p", "P", "g", "G", "h", "H", "x", "n", "N",
                             "=", "F", "z", "l", "q", "Q"}
(* One command more: the blocks still open, where each closed one ends, and  *)
(* what makes the script an error.                                          *)
ParseCommand(p, c) ==
  LET closes == c.kind = "}"
      wrong == \/ Invalid \in {c.first, c.second} \/ c.kind \notin Kinds
               \/ c.kind \in Filed /\ c.file = ""
               \/ closes /\ (c.first /= None \/ c.negated \/ p.open = <<>>)
               \/ c.kind = ":" /\ c.label = ""
               \/ c.kind = "y" /\ Len(c.from) /= Len(c.to)
               \/ c.kind = "s" /\ (c.regex = Invalid \/ SubstFlags(c.flags).bad)
      all == Append(p.commands, c)
  IN IF p.bad \/ wrong THEN [p EXCEPT !.bad = TRUE]
     ELSE [p EXCEPT !.commands = all,
                    !.ends = IF closes THEN Append(@, <<p.open[Len(p.open)], Len(all) + 1>>) ELSE @,
                    !.open = CASE c.kind = "{" -> Append(@, Len(all)) [] closes -> Front(@) [] OTHER -> @]

(* resolveSedLabels: the last of several equal labels is the one meant.      *)
Labels(commands, label) == {k \in DOMAIN commands : commands[k].kind = ":" /\ commands[k].label = label}
ParseScript(script) ==
  LET p == FoldLeft(ParseCommand, [commands |-> <<>>, open |-> <<>>, ends |-> <<>>, bad |-> FALSE], script)
      cs == p.commands
      lost == \E k \in DOMAIN cs : cs[k].kind \in Jumps /\ cs[k].label /= "" /\ Labels(cs, cs[k].label) = {}
      target(k) == CASE cs[k].kind = "{" -> (CHOOSE e \in Range(p.ends) : e[1] = k)[2]
                     [] cs[k].kind \in Jumps /\ cs[k].label /= "" -> -Least({-n : n \in Labels(cs, cs[k].label)})
                     [] OTHER -> Len(cs) + 1
  IN IF p.bad \/ p.open /= <<>> \/ lost THEN [bad |-> TRUE]
     ELSE [bad |-> FALSE, commands |-> cs, target |-> [k \in DOMAIN cs |-> target(k)]]
NeedsLast(commands) == \E k \in DOMAIN commands : LastLine \in {commands[k].first, commands[k].second}

(* -------------------------------- options -------------------------------- *)
SedDefaults == [quiet |-> FALSE, separate |-> FALSE, zero |-> FALSE, inPlace |-> FALSE, suffix |-> <<>>, width |-> 70, bad |-> FALSE]
SedOption(o, x) ==
  CASE x.opt = "n" -> [o EXCEPT !.quiet = TRUE]
    [] x.opt = "s" -> [o EXCEPT !.separate = TRUE]
    [] x.opt = "z" -> [o EXCEPT !.zero = TRUE]
    [] x.opt = "l" -> IF x.arg < 0 THEN [o EXCEPT !.bad = TRUE] ELSE [o EXCEPT !.width = x.arg]
    [] x.opt = "i" -> [o EXCEPT !.inPlace = TRUE]
    [] x.opt = "in-place" -> [o EXCEPT !.inPlace = TRUE, !.suffix = x.arg]
    [] x.opt \in {"u", "posix", "sandbox", "E"} -> o
    [] OTHER -> [o EXCEPT !.bad = TRUE]

(* --------------------------------- input --------------------------------- *)
(* A run e of the script is [commands, target, quiet, width, sep, peek, fs]; *)
(* its state s has the files left, the text left of the open one, what was   *)
(* read last, and the line read ahead.                                      *)
Closed == [open |-> FALSE]
NoLine(err) == [ok |-> FALSE, text |-> <<>>, term |-> FALSE, err |-> err]
(* What is no file, and what is none a program could open or make: a         *)
(* directory.  A file that w has made is empty until the stream ends.        *)
Missing == <<-1>>
Sealed == <<-2>>
Seen(e, s, file) == IF file \in DOMAIN s.writes THEN <<>> ELSE e.fs[file]
Unread(text) == text \in {Missing, Sealed}
RECURSIVE RawNext(_, _)
RawNext(e, s) ==
  LET cut == Span(s.cur.rest, LAMBDA c : c /= e.sep)
      term == cut < Len(s.cur.rest)
      here == IF term THEN [open |-> TRUE, rest |-> Skip(s.cur.rest, cut + 1)] ELSE Closed
  IN CASE ~ s.cur.open /\ s.files = <<>> -> [s EXCEPT !.got = NoLine(FALSE)]
       [] ~ s.cur.open /\ s.files /= <<>> ->
            LET o == [s EXCEPT !.name = s.files[1], !.files = Tail(@)]
            IN IF Unread(Seen(e, s, o.name)) THEN [o EXCEPT !.got = NoLine(TRUE)]
               ELSE RawNext(e, [o EXCEPT !.cur = [open |-> TRUE, rest |-> Seen(e, s, o.name)]])
       [] s.cur.open -> IF cut = 0 /\ ~ term THEN RawNext(e, [s EXCEPT !.cur = Closed])
                        ELSE [s EXCEPT !.cur = here, !.got = [ok |-> TRUE, text |-> Take(s.cur.rest, cut), term |-> term, err |-> FALSE]]

Next(e, s) == IF s.primed THEN [s EXCEPT !.primed = FALSE, !.got = s.peeked] ELSE RawNext(e, s)
(* Only a script that has "$" reads a line ahead, which may open a file.     *)
AtEnd(e, s) ==
  LET r == IF s.primed THEN s ELSE RawNext(e, s)
      p == [r EXCEPT !.primed = TRUE, !.peeked = IF s.primed THEN @ ELSE r.got]
  IN IF ~ e.peek THEN [s EXCEPT !.last = FALSE] ELSE [p EXCEPT !.last = ~ p.peeked.ok, !.err = p.peeked.err]

(* ------------------------------- addresses ------------------------------- *)
Folded(fold, s) == IF fold THEN LowerAll(s) ELSE s
FoundAt(r, fold, s) ==
  {k \in 0 .. Len(s) : /\ k + Len(r.text) <= Len(s) /\ (r.start => k = 0)
                       /\ SubSeq(Folded(fold, s), k + 1, k + Len(r.text)) = Folded(fold, r.text)}
Matches(a, s) ==
  CASE a.kind = "none" -> TRUE
    [] a.kind = "step" -> s.line >= a.line /\ (s.line - a.line) % a.step = 0
    [] a.kind = "line" -> s.line = a.line
    [] a.kind = "last" -> s.last
    [] a.kind = "regex" -> FoundAt(a, FALSE, s.pat) /= {}

(* Whether a range holds here, and whether it is still open afterwards: a    *)
(* number that is past ends it at once, a regular expression not before the  *)
(* line after the first.                                                    *)
InAddress(c, open, s) ==
  LET inside == open \/ Matches(c.first, s)
      ends == CASE c.second.kind = "line" -> s.line >= c.second.line
                [] c.second.kind = "step" -> s.line >= c.second.line
                [] c.second.kind = "regex" -> open /\ Matches(c.second, s)
                [] c.second.kind = "last" -> Matches(c.second, s)
  IN IF c.second = None THEN [here |-> Matches(c.first, s), open |-> FALSE]
     ELSE [here |-> inside, open |-> inside /\ ~ ends]

(* -------------------------------- commands ------------------------------- *)
FirstPart(s) == Take(s, Span(s, LAMBDA c : c /= Newline))
(* The places of all matches, which do not overlap; an empty one does not    *)
(* touch the one before it.                                                 *)
RECURSIVE AllMatches(_, _, _, _)
AllMatches(r, fold, s, from) ==
  LET at == {k \in FoundAt(r, fold, s) : k >= from}
      k == Least(at)
  IN IF at = {} THEN <<>>
     ELSE <<k>> \o AllMatches(r, fold, s, IF r.text = <<>> THEN k + 1 ELSE k + Len(r.text))

Substitute(c, s) ==
  LET f == SubstFlags(c.flags)
      m == AllMatches(c.regex, f.fold, s, 0)
      first == IF f.occurrence = 0 THEN 1 ELSE f.occurrence
      last == IF f.global THEN Len(m) ELSE first
      n == Len(c.regex.text)
      new(k) == FlattenSeq([i \in DOMAIN c.new |-> IF c.new[i] = 0 THEN SubSeq(s, k + 1, k + n) ELSE <<c.new[i]>>])
      pieces == [i \in 1 .. last - first + 1 |->
                   SubSeq(s, (IF i = 1 THEN 0 ELSE m[first + i - 2] + n) + 1, m[first + i - 1]) \o new(m[first + i - 1])]
  IN IF first > Len(m) THEN [text |-> s, changed |-> FALSE]
     ELSE [text |-> FlattenSeq(pieces) \o Skip(s, m[last] + n), changed |-> TRUE]
Transliterate(c, s) ==
  Mapped(s, LAMBDA x : IF x \in Range(c.from) THEN c.to[Least({i \in DOMAIN c.from : c.from[i] = x})] ELSE x)

(* l: an escape for what cannot be shown, in lines of a width; the closing   *)
(* "$" is not counted.                                                      *)
Dollar == 36
ListEscape(s) ==
  LET named == 7 :> 97 @@ 8 :> 98 @@ 12 :> 102 @@ 10 :> 110 @@ 13 :> 114 @@ 9 :> 116 @@ 11 :> 118 @@ Backslash :> Backslash
      octal(x) == <<Backslash, 48 + (x \div 64), 48 + ((x \div 8) % 8), 48 + (x % 8)>>
      shown(x) == IF x \in DOMAIN named THEN <<Backslash, named[x]>> ELSE IF x \in 32 .. 126 THEN <<x>> ELSE octal(x)
  IN FlattenSeq([i \in DOMAIN s |-> shown(s[i])])
ListWrap(s, width) ==
  LET broken(i) == IF width = 1 THEN TRUE ELSE i > 1 /\ (i - 1) % (width - 1) = 0
  IN IF width = 0 THEN Append(s, Dollar)
     ELSE Append(FlattenSeq([i \in DOMAIN s |-> IF broken(i) THEN <<Backslash, Newline, s[i]>> ELSE <<s[i]>>]), Dollar)

(* ------------------------------- the cycle ------------------------------- *)
Put(s, text) == [s EXCEPT !.out = @ \o text \o <<Newline>>]
PutPattern(e, s) == [s EXCEPT !.out = @ \o s.pat \o (IF s.term THEN <<e.sep>> ELSE <<>>)]
Queue(s, text) == [s EXCEPT !.queue = Append(@, text)]
Go(s, pc) == [s EXCEPT !.pc = pc]
EndCycle(s, silent) == [s EXCEPT !.cycle = FALSE, !.silent = silent]
Quit(s, silent, code) == [EndCycle(s, silent) EXCEPT !.quit = TRUE, !.code = code]
Failed(s) == [s EXCEPT !.cycle = FALSE, !.err = TRUE]
StdOut == "/dev/stdout"
Write(e, s, file, text) ==
  IF file /= StdOut /\ Seen(e, s, file) = Sealed THEN Failed(s)
  ELSE [s EXCEPT !.writes = (file :> (IF file \in DOMAIN @ THEN @[file] ELSE <<>>) \o text \o <<Newline>>) @@ @]

(* n and N: what there is becomes the pattern space or is added to it.       *)
TakeNext(e, s, joined) ==
  LET n == Next(e, s)
      pat == IF joined THEN s.pat \o <<Newline>> \o n.got.text ELSE n.got.text
      r == AtEnd(e, [n EXCEPT !.pat = pat, !.term = n.got.term, !.line = @ + 1])
  IN CASE n.got.err -> Failed(n)
       [] ~ n.got.err /\ ~ n.got.ok -> IF joined THEN EndCycle(n, FALSE) ELSE Quit(n, TRUE, 0)
       [] n.got.ok -> IF r.err THEN Failed(r) ELSE r

Restart(s) ==
  LET cut == Span(s.pat, LAMBDA c : c /= Newline)
      silent == EndCycle(s, TRUE)
  IN IF cut = Len(s.pat) THEN silent ELSE [silent EXCEPT !.pat = Skip(s.pat, cut + 1), !.restart = TRUE]

SubstDone(e, s, c) ==
  LET r == Substitute(c, s.pat)
      f == SubstFlags(c.flags)
      new == [s EXCEPT !.pat = r.text, !.made = TRUE]
      shown == IF f.print THEN PutPattern(e, new) ELSE new
  IN IF ~ r.changed THEN s ELSE IF f.write = "" THEN shown ELSE Write(e, shown, f.write, shown.pat)

Chomped(line) == IF line /= <<>> /\ line[Len(line)] = 13 THEN Front(line) ELSE line
ReadLine(e, s, c) ==
  LET left == IF c.file \in DOMAIN s.reads THEN s.reads[c.file] ELSE IF Unread(Seen(e, s, c.file)) THEN <<>> ELSE Seen(e, s, c.file)
      cut == Span(left, LAMBDA x : x /= Newline)
      r == [s EXCEPT !.reads = (c.file :> Skip(left, cut + 1)) @@ @]
  IN IF left = <<>> THEN r ELSE Queue(r, Chomped(Take(left, cut)))
Unterminated(s) == IF s /= <<>> /\ s[Len(s)] = Newline THEN Front(s) ELSE s
ReadWhole(e, s, c) == IF Unread(Seen(e, s, c.file)) THEN s ELSE Queue(s, Unterminated(Seen(e, s, c.file)))

Jump(e, s, k) ==
  LET c == e.commands[k]
      go == IF c.label = "" THEN EndCycle(s, FALSE) ELSE Go(s, e.target[k])
      taken == [go EXCEPT !.made = IF c.kind = "t" THEN FALSE ELSE @]
  IN IF c.kind = "b" \/ (c.kind = "t" /\ s.made) \/ (c.kind = "T" /\ ~ s.made) THEN taken ELSE Go(s, k + 1)

(* A command other than a jump; c prints only where its range ends.          *)
Effect(e, s, k) ==
  LET c == e.commands[k]
  IN CASE c.kind = "{" -> s
       [] c.kind = "s" -> SubstDone(e, s, c)
       [] c.kind = "y" -> [s EXCEPT !.pat = Transliterate(c, @)]
       [] c.kind = "d" -> EndCycle(s, TRUE)
       [] c.kind = "D" -> Restart(s)
       [] c.kind = "p" -> PutPattern(e, s)
       [] c.kind = "P" -> Put(s, FirstPart(s.pat))
       [] c.kind = "h" -> [s EXCEPT !.hold = s.pat]
       [] c.kind = "H" -> [s EXCEPT !.hold = @ \o <<Newline>> \o s.pat]
       [] c.kind = "g" -> [s EXCEPT !.pat = s.hold]
       [] c.kind = "G" -> [s EXCEPT !.pat = @ \o <<Newline>> \o s.hold]
       [] c.kind = "x" -> [s EXCEPT !.pat = s.hold, !.hold = s.pat]
       [] c.kind = "n" -> TakeNext(e, IF e.quiet THEN s ELSE PutPattern(e, s), FALSE)
       [] c.kind = "N" -> TakeNext(e, s, TRUE)
       [] c.kind = "a" -> Queue(s, c.text)
       [] c.kind = "i" -> Put(s, c.text)
       [] c.kind = "c" -> EndCycle(IF c.second = None \/ ~ s.inRange[k] THEN Put(s, c.text) ELSE s, TRUE)
       [] c.kind = "r" -> ReadWhole(e, s, c)
       [] c.kind = "R" -> ReadLine(e, s, c)
       [] c.kind = "w" -> Write(e, s, c.file, s.pat)
       [] c.kind = "W" -> Write(e, s, c.file, FirstPart(s.pat))
       [] c.kind = "F" -> Put(s, <<s.name>>)
       [] c.kind = "z" -> [s EXCEPT !.pat = <<>>]
       [] c.kind = "l" -> Put(s, ListWrap(ListEscape(s.pat), IF c.width = -1 THEN e.width ELSE c.width))
       [] c.kind = "=" -> Put(s, <<48 + s.line>>)
       [] c.kind = "q" -> Quit(s, FALSE, c.code)
       [] c.kind = "Q" -> Quit(s, TRUE, c.code)

Execute(e, s, k) ==
  LET c == e.commands[k]
      a == InAddress(c, s.inRange[k], s)
      t == [s EXCEPT !.inRange[k] = a.open]
  IN CASE c.kind \in {":", "}"} -> Go(s, k + 1)
       [] c.kind \notin {":", "}"} /\ a.here = c.negated -> Go(t, IF c.kind = "{" THEN e.target[k] ELSE k + 1)
       [] OTHER -> IF c.kind \in Jumps THEN Jump(e, t, k) ELSE Go(Effect(e, t, k), k + 1)

RECURSIVE Commands(_, _)
Commands(e, s) == IF ~ s.cycle \/ s.pc > Len(e.commands) THEN s ELSE Commands(e, Execute(e, s, s.pc))

(* What the end of a cycle prints: the pattern space, then what a, r and R   *)
(* queued.                                                                  *)
Finish(e, s) ==
  LET shown == IF s.silent \/ e.quiet THEN s ELSE PutPattern(e, s)
  IN [FoldLeft(Put, shown, s.queue) EXCEPT !.queue = <<>>]

RECURSIVE Cycles(_, _)
Cycles(e, s) ==
  LET fresh == IF s.restart THEN s ELSE [s EXCEPT !.line = @ + 1, !.made = FALSE]
      begun == AtEnd(e, [fresh EXCEPT !.restart = FALSE, !.cycle = TRUE, !.silent = FALSE, !.pc = 1])
      done == Commands(e, begun)
      printed == Finish(e, done)
      next == Next(e, printed)
  IN CASE begun.err -> begun
       [] ~ begun.err /\ done.err -> done
       [] ~ begun.err /\ ~ done.err /\ done.quit -> printed
       [] ~ begun.err /\ ~ done.err /\ ~ done.quit ->
            IF done.restart THEN Cycles(e, printed)
            ELSE IF ~ next.got.ok THEN [next EXCEPT !.err = next.got.err]
            ELSE Cycles(e, [next EXCEPT !.pat = next.got.text, !.term = next.got.term])

(* One stream over some files: the ranges, the hold space and the files of   *)
(* w, r and R all begin anew; what w wrote to the standard output leaves     *)
(* its buffer before what p wrote leaves its own.                           *)
Stream(script, o, fs, files) ==
  LET e == [commands |-> script.commands, target |-> script.target, quiet |-> o.quiet, width |-> o.width,
            sep |-> IF o.zero THEN 0 ELSE Newline, peek |-> NeedsLast(script.commands), fs |-> fs]
      s == [files |-> files, cur |-> Closed, name |-> "", got |-> NoLine(FALSE), primed |-> FALSE, peeked |-> NoLine(FALSE),
            pat |-> <<>>, term |-> FALSE, hold |-> <<>>, queue |-> <<>>, made |-> FALSE, line |-> 0, last |-> FALSE,
            inRange |-> [k \in DOMAIN script.commands |-> FALSE], pc |-> 1, cycle |-> FALSE, silent |-> FALSE,
            restart |-> FALSE, quit |-> FALSE, code |-> 0, err |-> FALSE, out |-> <<>>, writes |-> <<>>, reads |-> <<>>]
      first == Next(e, s)
      r == IF ~ first.got.ok THEN [first EXCEPT !.err = first.got.err]
           ELSE Cycles(e, [first EXCEPT !.pat = first.got.text, !.term = first.got.term])
      early == IF StdOut \in DOMAIN r.writes THEN r.writes[StdOut] ELSE <<>>
  IN [early |-> early, out |-> r.out, status |-> IF r.err THEN 1 ELSE 0, code |-> r.code,
      fs |-> [f \in DOMAIN fs |-> IF f \in DOMAIN r.writes THEN r.writes[f] ELSE fs[f]]]

(* -i: a stream of its own, renamed over the file only when it succeeded, q  *)
(* counting as success, and only after the file is copied to its backup: the *)
(* name with a suffix, or the suffix with the name for each "*".             *)
Concat(parts) == FoldLeft(LAMBDA a, p : a \o p, "", parts)
BackupName(name, suffix) ==
  IF "*" \in Range(suffix) THEN Concat([i \in DOMAIN suffix |-> IF suffix[i] = "*" THEN name ELSE suffix[i]])
  ELSE name \o Concat(suffix)
InPlace(script, o, run, name) ==
  LET s == Stream(script, o, run.fs, <<name>>)
      backup == BackupName(name, o.suffix)
      kept == o.suffix /= <<>> /\ backup \in DOMAIN s.fs
      unsaved == kept /\ s.fs[backup] = Sealed
      saved == IF kept THEN [s.fs EXCEPT ![backup] = s.fs[name]] ELSE s.fs
  IN IF Unread(run.fs[name]) THEN [run EXCEPT !.status = 1]
     ELSE IF s.status /= 0 \/ unsaved THEN [run EXCEPT !.early = @ \o s.early, !.status = 1, !.fs = s.fs]
     ELSE [run EXCEPT !.early = @ \o s.early, !.fs = [saved EXCEPT ![name] = s.out], !.status = IF s.code /= 0 THEN s.code ELSE @]

(* -s: a stream for each file, which q ends and the others do not hear of.   *)
Separate(script, o, run, name) ==
  LET s == Stream(script, o, run.fs, <<name>>)
  IN [early |-> run.early \o s.early, out |-> run.out \o s.out, fs |-> s.fs, status |-> IF s.status /= 0 THEN s.status ELSE run.status,
      code |-> IF s.code /= 0 THEN s.code ELSE run.code]

Sed(args, script, fs, files) ==
  LET o == Options(SedOption, SedDefaults, args)
      p == ParseScript(script)
      begin == [early |-> <<>>, out |-> <<>>, fs |-> fs, status |-> 0, code |-> 0]
      each == FoldLeft(LAMBDA r, f : IF o.inPlace THEN InPlace(p, o, r, f) ELSE Separate(p, o, r, f), begin, files)
      r == IF o.inPlace \/ o.separate THEN each ELSE Stream(p, o, fs, files)
  IN IF o.bad \/ p.bad \/ (o.inPlace /\ files = <<>>) THEN [out |-> <<>>, fs |-> fs, status |-> 1]
     ELSE [out |-> r.early \o r.out, fs |-> r.fs, status |-> IF r.status /= 0 THEN r.status ELSE r.code]
=============================================================================
