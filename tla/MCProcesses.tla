---------------------------- MODULE MCProcesses ----------------------------
(* The commands of ba6 that start, watch and end processes, one of them in *)
(* each behaviour: timeout, init COMMAND, xargs and getty with login.      *)
EXTENDS Runners, Xargs, LoginSession

other == <<runner, xargs>>
login == <<files, line>>

(* The variables of the commands that do not run in this behaviour.        *)
RunnersIdle ==
  limits = [duration |-> FALSE, killAfter |-> FALSE] /\ done = FALSE
    /\ expired = "no" /\ queue = <<>> /\ arrived = 0
XargsIdle == call = "none" /\ work = "none" /\ next = 0 /\ place = [c \in Child |-> -1]
NoTool == NoChildren /\ tool = "login" /\ pc = "end" /\ status = -1

Init ==
  \/ tool \in {"timeout", "init"} /\ RunnersInit /\ XargsIdle /\ LoginInit
  \/ XargsInit /\ RunnersIdle /\ LoginInit
  \/ NoTool /\ LoginInit /\ RunnersIdle /\ XargsIdle

Next ==
  \/ tool \in {"timeout", "init"} /\ RunnersNext /\ UNCHANGED <<xargs, login>>
  \/ tool = "xargs" /\ XargsNext /\ UNCHANGED <<runner, login>>
  \/ tool = "login" /\ LoginNext /\ UNCHANGED <<tool, pc, kernel, status, other>>

vars == <<tool, pc, kernel, status, other, login>>

(* The commands go on while they can; the kernel delivers SIGKILL, and the *)
(* children xargs has started end some time.  Nobody has to type, or to    *)
(* end the command that timeout or init runs.  A command takes finitely    *)
(* many steps of its own, so one condition for all of them is enough.      *)
ToolStep ==
  \/ tool \in {"timeout", "init"} /\ RunnersTool /\ UNCHANGED <<xargs, login>>
  \/ tool = "xargs" /\ XargsTool /\ UNCHANGED <<runner, login>>
  \/ tool = "login" /\ LoginStep /\ UNCHANGED <<tool, pc, kernel, status, other>>
ChildStep ==
  \E c \in Child :
    \/ ChildKilled(c) /\ UNCHANGED <<tool, pc, status, other, login>>
    \/ tool = "xargs" /\ XargsChildEnds(c) /\ UNCHANGED <<runner, login>>

Spec == Init /\ [][Next]_vars /\ WF_vars(ToolStep) /\ WF_vars(ChildStep)

(* --------------------------------- inputs -------------------------------- *)
O(n, a) == [opt |-> n, arg |-> a]
Text(words, joins) == [words |-> words, joins |-> joins, quote |-> FALSE]
Data(lines) == [lines |-> lines, ended |-> TRUE]
Four == Data(<<Text(<<2, 2>>, FALSE), Text(<<3>>, FALSE), Text(<<>>, FALSE), Text(<<2>>, FALSE), Text(<<5>>, TRUE)>>)
Three == Data(<<Text(<<3, 2>>, FALSE), Text(<<>>, FALSE), Text(<<4>>, TRUE), Text(<<1, 6>>, FALSE)>>)

MCInvocations ==
  {[options |-> o, data |-> d] :
     o \in {<<>>, <<O("n", 2), O("P", 2)>>, <<O("L", 1), O("P", 0)>>, <<O("n", 1), O("L", 2)>>,
            <<O("L", 1), O("I", 0), O("E", 0)>>, <<O("s", 12), O("P", 2), O("p", 0)>>,
            <<O("s", 9), O("x", 0)>>, <<O("E", 0), O("r", 0), O("P", 3), O("n", 1)>>,
            <<O("0", 0), O("L", 1)>>, <<O("d", 0), O("n", 3)>>, <<O("n", 0)>>,
            <<O("s", 14), O("L", 2)>>,
            <<O("P", -1)>>},
     d \in {Three, Four, Data(<<>>), Data(<<Text(<<1>>, FALSE)>>),
            Data(<<[words |-> <<2>>, joins |-> FALSE, quote |-> TRUE]>>),
            [lines |-> <<Text(<<2>>, FALSE), Text(<<3>>, TRUE)>>, ended |-> FALSE]}}

MCGettyOptions ==
  {[timeout |-> TRUE, skip |-> FALSE, fails |-> FALSE, autologin |-> "none"],
   [timeout |-> FALSE, skip |-> TRUE, fails |-> FALSE, autologin |-> "none"],
   [timeout |-> FALSE, skip |-> FALSE, fails |-> TRUE, autologin |-> "root"]}
MCPasswdEntries == {NoEntry, [stored |-> "x", shell |-> "relative"], [stored |-> "pw", shell |-> "ok"],
                    [stored |-> "x", shell |-> "missing"]}
MCShadowEntries == {NoEntry, [stored |-> "pw", expired |-> TRUE], [stored |-> "pw", expired |-> FALSE],
                    [stored |-> "", expired |-> FALSE], [stored |-> "?", expired |-> FALSE]}
MCFirstShadow == [u \in User |-> [stored |-> IF u = "root" THEN "pw" ELSE "!", expired |-> FALSE]]
MCLoginOptions == {[f |-> TRUE, user |-> "ann"]}

(* ------------------------------- properties ------------------------------ *)
(* xargs runs every item of its input exactly once and in order, up to the *)
(* end-of-file string, in command lines that keep to -n, -s and -L and     *)
(* could not have held one item more: the batching loop of xargsBatches    *)
(* with its three limits, over every way the input is split.  A line of    *)
(* one item, or of none, may be longer than -s.  Not said of -L where the  *)
(* last line ends in a blank and has no newline: its items are never run.  *)
Wanted ==
  LET c == Plan
      whole == IF c.I /\ c.split = "blanks" THEN WholeLines(call.data.lines)
               ELSE Words(call.data.lines)
      at == {i \in DOMAIN whole : c.E /\ whole[i] = EOF}
  IN IF at = {} THEN whole ELSE SubSeq(whole, 1, (CHOOSE i \in at : \A j \in at : i <= j) - 1)
Size(batch) == Prefix + 1 + LineItem(batch)
Unflushed == Plan.L > 0 /\ Plan.split = "blanks" /\ ~ call.data.ended
               /\ call.data.lines[Len(call.data.lines)].joins
(* The input ends with its k-th item, or a logical line of it does.        *)
EndsLine(k) ==
  LET lines == call.data.lines
  IN \/ k = Len(Words(lines))
     \/ \E p \in DOMAIN lines : ~ lines[p].joins /\ k = Len(Words(SubSeq(lines, 1, p)))
LineEnds(from, to) == {k \in from + 1 .. to : EndsLine(k)}
Before(b, i) == Len(FlattenSeq(SubSeq(b, 1, i - 1)))
ItemsRunOnce ==
  tool = "xargs" /\ work.batches /= <<>> /\ ~ Unflushed =>
    LET b == work.batches
        c == Plan
        n == IF c.I THEN 1 ELSE c.n
    IN /\ FlattenSeq(b) = Wanted
       /\ \A i \in DOMAIN b :
            /\ n > 0 => Len(b[i]) <= n
            /\ c.s > 0 => Size(b[i]) <= c.s \/ Len(b[i]) <= 1
            /\ c.L > 0 => Cardinality(LineEnds(Before(b, i), Before(b, i + 1) - 1)) < c.L
       /\ \A i \in 1 .. Len(b) - 1 :
            \/ n > 0 /\ Len(b[i]) = n
            \/ c.s > 0 /\ Size(b[i]) + b[i + 1][1] + 1 > c.s
            \/ /\ c.L > 0 /\ EndsLine(Before(b, i + 1))
               /\ Cardinality(LineEnds(Before(b, i), Before(b, i + 1))) = c.L

(* xargs -P ends only when every child has been waited for, and then with  *)
(* a status other than 0 exactly when a batch failed: its child did, or it *)
(* could not be started.  The goroutines write one status in any order; it *)
(* is that of one of the batches that failed.                              *)
FailureReported ==
  tool = "xargs" /\ pc = "end" /\ Count > 0 =>
    LET failed == {b \in 1 .. Count : WaitStatus(b) /= 0}
    IN /\ \A b \in 1 .. Count : child[b] = "gone"
       /\ IF failed = {} THEN status = 0
          ELSE status \in {WaitStatus(b) : b \in failed}

(* Children that run at the same time have different slots.                *)
SlotsApart ==
  \A b, c \in Child :
    tool = "xargs" /\ b /= c /\ place[b] = place[c] => ~ ({b, c} \subseteq Alive)

(* When init COMMAND exits, no process of the command's group runs that    *)
(* was not sent SIGKILL: terminateInitGroup sees every member, however     *)
(* late it was started, and does not take the command's end for the        *)
(* group's.                                                                *)
GroupEnded ==
  tool = "init" /\ pc = "end" => \A c \in Group : child[c] = "running" => "KILL" \in sent[c]

(* timeout with -k ends whatever its command does, `init COMMAND` ends     *)
(* once its command has, a child it adopted does not stay a zombie, and    *)
(* xargs ends.                                                             *)
CommandsEnd ==
  /\ (tool = "timeout" /\ limits.duration /\ limits.killAfter) ~> pc = "end"
  /\ (tool = "init" /\ child[Command] = "zombie") ~> pc = "end"
  /\ (tool = "init" /\ child[Orphan] = "zombie") ~> (child[Orphan] = "gone" \/ pc = "end")
  /\ (tool = "xargs") ~> pc = "end"

(* A shell runs only for a name whose password was typed in this attempt:  *)
(* the entries it was compared with were in passwd and shadow after it was *)
(* typed, neither locked nor expired, however the files were rewritten.    *)
(* They were there at one moment, or each at a moment of its own: then     *)
(* both of the account's entries were rewritten between the two reads.     *)
(* Or nothing was typed, and the name is the one `login -f` was started    *)
(* with.                                                                   *)
Earned(v, w) ==
  /\ v.user = name /\ w.user = name /\ v.p = entry
  /\ IF entry.stored = "x" THEN w.s /= NoEntry /\ Verify(typed, w.s.stored) = "valid" /\ ~ w.s.expired
     ELSE Verify(typed, entry.stored) = "valid"
ShellEarned ==
  stage = "shell" =>
    \/ argv.f /\ argv.user = shell /\ past = {}
    \/ /\ shell = name
       /\ \E v, w \in past : Earned(v, w) /\ (v = w \/ (v.p /= w.p /\ v.s /= w.s))
=============================================================================
