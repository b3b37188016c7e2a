-------------------------------- MODULE Xargs --------------------------------
(* execution_tools.go: xargs.  Its options, how its input becomes items and *)
(* the items command lines, and the children that run them, -P at a time.  *)
(* An item is the number of its bytes; "_" has one.                        *)
EXTENDS Children, SequencesExt

CONSTANTS
  Invocations   \* [options, data]: the command lines xargs is run with

VARIABLES
  call,      \* the invocation
  work,      \* the command lines its input makes, or an early exit status
  next,      \* the batches handed to a goroutine so far
  place      \* what each child was told its slot is

xargs == <<call, work, next, place>>

(* ------------------------------- options -------------------------------- *)
Defaults ==
  [n |-> 0, L |-> 0, I |-> FALSE, P |-> 1, s |-> 0, x |-> FALSE, r |-> FALSE,
   E |-> FALSE, p |-> FALSE, split |-> "blanks"]

Flag == [x |-> "x", r |-> "r", E |-> "E", p |-> "p"]

(* -n, -L and -I take the place of each other: the last one wins.  An      *)
(* option is [opt, arg]; of the flags arg does not matter.                 *)
OptionSet(c, o) ==
  CASE o.opt = "n" -> [c EXCEPT !.n = o.arg, !.L = 0, !.I = FALSE]
    [] o.opt = "L" -> [c EXCEPT !.L = o.arg, !.n = 0, !.I = FALSE]
    [] o.opt = "I" -> [c EXCEPT !.I = TRUE, !.n = 0, !.L = 0]
    [] o.opt \in {"P", "s"} -> [c EXCEPT ![o.opt] = o.arg]
    [] o.opt \in {"0", "d"} -> [c EXCEPT !.split = o.opt]
    [] o.opt \in DOMAIN Flag -> [c EXCEPT ![o.opt] = TRUE]

BadOption(o) ==
  \/ o.opt \in {"n", "L", "s"} /\ o.arg < 1
  \/ o.opt = "P" /\ o.arg < 0

Parsed(options) == FoldLeft(OptionSet, Defaults, options)
Plan == Parsed(call.options)

(* -------------------------------- input --------------------------------- *)
(* A line is [words, joins, quote]: its words, whether it ends in a blank, *)
(* whether a quote is left open.  data is [lines, ended]: the last line    *)
(* may miss its newline.                                                   *)
EOF == 1
Words(lines) == FlattenSeq([i \in DOMAIN lines |-> lines[i].words])

(* -I: a line that is not blank is one item, its inner blanks included.    *)
LineItem(words) == FoldLeft(LAMBDA n, w : n + w + 1, -1, words)
AddLine(items, l) == IF l.words = <<>> THEN items ELSE Append(items, LineItem(l.words))
WholeLines(lines) == FoldLeft(AddLine, <<>>, lines)

(* -L: lines joined by a trailing blank.  After the last newline comes one *)
(* more, empty, piece; without it a joined last line is never flushed.     *)
JoinStep(a, l) ==
  LET words == a.held \o l.words
  IN IF l.joins THEN [a EXCEPT !.held = words, !.open = a.open \/ l.quote]
     ELSE [held |-> <<>>, open |-> FALSE,
           lines |-> IF words = <<>> THEN a.lines ELSE Append(a.lines, words),
           quote |-> a.quote \/ (words /= <<>> /\ (a.open \/ l.quote))]
Blank == [words |-> <<>>, joins |-> FALSE, quote |-> FALSE]
Joined(data) ==
  FoldLeft(JoinStep, [held |-> <<>>, open |-> FALSE, lines |-> <<>>, quote |-> FALSE],
           data.lines \o IF data.ended THEN <<Blank>> ELSE <<>>)

(* The last item of each logical line, 1, the others 0: only -L with the   *)
(* default separator fills it.                                             *)
Ends1(words) == [i \in DOMAIN words |-> i = Len(words)]
Items(c, data) ==
  LET none == <<>>
  IN CASE c.split /= "blanks" -> [items |-> Words(data.lines), lineEnds |-> none, bad |-> FALSE]
       [] c.split = "blanks" /\ c.I ->
            [items |-> WholeLines(data.lines), lineEnds |-> none, bad |-> FALSE]
       [] c.split = "blanks" /\ ~ c.I /\ c.L > 0 ->
            LET j == Joined(data)
            IN [items |-> FlattenSeq(j.lines), bad |-> j.quote,
                lineEnds |-> FlattenSeq([i \in DOMAIN j.lines |-> Ends1(j.lines[i])])]
       [] OTHER ->
            [items |-> Words(data.lines), lineEnds |-> none,
             bad |-> \E i \in DOMAIN data.lines : data.lines[i].quote]

(* -E: what follows the first item that is the end-of-file string is cut.  *)
Cut(items) ==
  LET at == SelectInSeq(items, LAMBDA w : w = EOF)
  IN IF at = 0 THEN items ELSE SubSeq(items, 1, at - 1)

(* ------------------------------- batches -------------------------------- *)
Prefix == 5     \* xargsLineLen of the command, "echo"

(* One turn of the loop of xargsBatches for the i-th item.                 *)
BatchLengthKept(items, ends, n, L, s, a, i) ==
  LET full == Len(a.current) >= n \/ (s > 0 /\ a.len + items[i] + 1 > s)
      new == a.current /= <<>> /\ full
  IN [a EXCEPT !.done = IF new THEN Append(@, a.current) ELSE @,
               !.current = IF new THEN <<items[i]>> ELSE Append(@, items[i]),
               !.len = @ + items[i] + 1]

BatchStep(items, ends, n, L, s, a, i) ==
  LET full == \/ Len(a.current) >= n
              \/ s > 0 /\ a.len + items[i] + 1 > s
              \/ L > 0 /\ i > 1 /\ ends[i - 1] /\ a.used >= L
      new == a.current /= <<>> /\ full
      line == IF i \in DOMAIN ends /\ ends[i] THEN 1 ELSE 0
  IN [done |-> IF new THEN Append(a.done, a.current) ELSE a.done,
      current |-> IF new THEN <<items[i]>> ELSE Append(a.current, items[i]),
      len |-> (IF new THEN Prefix ELSE a.len) + items[i] + 1,
      used |-> (IF new THEN 0 ELSE a.used) + line]

Batches(c, items, ends) ==
  LET n == IF c.I THEN 1 ELSE IF c.n = 0 THEN Len(items) ELSE c.n
      a == FoldLeft(LAMBDA b, i : BatchStep(items, ends, n, c.L, c.s, b, i),
                    [done |-> <<>>, current |-> <<>>, len |-> Prefix, used |-> 0],
                    [i \in DOMAIN items |-> i])
  IN IF items = <<>> THEN <<(<<>>)>> ELSE Append(a.done, a.current)

TooLong(c, items) == c.x /\ c.s > 0 /\ \E i \in DOMAIN items : Prefix + items[i] + 1 > c.s

(* -L reads lineEnds at an index it does not have when -0 or -d splits the *)
(* input: the program stops in a panic, with status 2.                     *)
Panics(c, items) == c.split /= "blanks" /\ c.L > 0 /\ Len(items) > 1

(* The whole command up to the first child: the batches to run, or none    *)
(* and a status.                                                           *)
Prepared(i) ==
  LET c == Parsed(i.options)
      read == Items(c, i.data)
      items == IF c.E THEN Cut(read.items) ELSE read.items
      none(s) == [batches |-> <<>>, status |-> s]
  IN IF \E j \in DOMAIN i.options : BadOption(i.options[j]) THEN none(1)
     ELSE IF read.bad THEN none(1)
     ELSE IF items = <<>> /\ c.r THEN none(0)
     ELSE IF Panics(c, items) THEN none(2)
     ELSE IF TooLong(c, items) THEN none(1)
     ELSE [batches |-> Batches(c, items, read.lineEnds), status |-> 0]

OptionName == {"n", "L", "I", "P", "s", "0", "d"} \cup DOMAIN Flag
Line == [words : Seq(Nat), joins : BOOLEAN, quote : BOOLEAN]
ASSUME InvocationType ==
  Invocations \subseteq [options : Seq([opt : OptionName, arg : Int]),
                         data : [lines : Seq(Line), ended : BOOLEAN]]

(* Each invocation has at most MaxChild batches. *)
ASSUME InvocationAssumption ==
  \A i \in Invocations : Len(Prepared(i).batches) \in 0 .. MaxChild

(* ------------------------------- children ------------------------------- *)
Count == Len(work.batches)
OneByOne == Plan.P = 1 \/ Count <= 1
Limit == IF OneByOne THEN 1 ELSE IF Plan.P = 0 THEN Count ELSE Plan.P

XargsInit ==
  /\ NoChildren
  /\ tool = "xargs" /\ pc = "start" /\ status = -1
  /\ call \in Invocations /\ work = Prepared(call) /\ next = 0 /\ place = [c \in Child |-> -1]

XargsStart ==
  /\ pc = "start"
  /\ IF Count = 0 THEN pc' = "end" /\ status' = work.status
     ELSE pc' = "run" /\ status' = 0
  /\ UNCHANGED <<tool, kernel, xargs>>

(* The semaphore has Limit places; a goroutine gives its place back when   *)
(* its child has been waited for.                                          *)
Held == Cardinality({b \in 1 .. next : child[b] \in {"running", "zombie"}})

(* Slot numbers go round whatever child has ended.                         *)
RunBatch ==
  /\ pc = "run" /\ next < Count /\ Held < Limit
  /\ next' = next + 1
  /\ place' = [place EXCEPT ![next'] = IF OneByOne THEN 0 ELSE next % Limit]
  /\ Started(next')
  /\ UNCHANGED <<tool, pc, result, sent, status, call, work>>

(* -p answered no, which counts as success, or no program to run, which    *)
(* counts as 127: no child.                                                *)
BatchSkipped ==
  /\ pc = "run" /\ next < Count /\ Held < Limit
  /\ next' = next + 1
  /\ Reaped({next'})
  /\ \/ Plan.p /\ UNCHANGED <<result, status>>
     \/ result' = [result EXCEPT ![next'] = 127] /\ status' = 127
  /\ UNCHANGED <<tool, pc, sent, call, work, place>>

WaitStatus(c) == IF result[c] < 0 THEN 255 ELSE result[c]

LastStatusWins(c) ==
  /\ child[c] = "zombie" /\ Reaped({c})
  /\ status' = WaitStatus(c)
  /\ UNCHANGED <<tool, pc, result, sent, xargs>>

ChildWaited(c) ==
  /\ child[c] = "zombie" /\ Reaped({c})
  /\ status' = IF WaitStatus(c) /= 0 THEN WaitStatus(c) ELSE status
  /\ UNCHANGED <<tool, pc, result, sent, xargs>>

XargsEnd ==
  /\ pc = "run" /\ next = Count /\ Held = 0
  /\ pc' = "end"
  /\ UNCHANGED <<tool, kernel, status, xargs>>

XargsTool ==
  XargsStart \/ RunBatch \/ BatchSkipped \/ XargsEnd \/ \E c \in Child : ChildWaited(c)

XargsChildEnds(c) == ChildExits(c) /\ UNCHANGED <<tool, pc, status, xargs>>
XargsNext == XargsTool \/ \E c \in Child : XargsChildEnds(c)
=============================================================================
