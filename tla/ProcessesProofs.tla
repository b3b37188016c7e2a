--------------------------- MODULE ProcessesProofs ---------------------------
(***************************************************************************)
(* Proofs about MCProcesses, for any invocations, options, users and       *)
(* contents of passwd and shadow, and any number of signals, rewrites and  *)
(* sessions: init COMMAND leaves no process of its group unkilled, xargs   *)
(* reports every failure and runs every item of its input once, and a      *)
(* shell runs only for who earned it.                                      *)
(***************************************************************************)
EXTENDS MCProcesses, FiniteSetTheorems, SequenceTheorems, WellFoundedInduction, TLAPS

-----------------------------------------------------------------------------
(* The inductive invariant. *)

ChildState == {"none", "running", "zombie", "gone"}
KernelOK ==
  /\ tool \in {"timeout", "init", "xargs", "login"}
  /\ child \in [Child -> ChildState] /\ result \in [Child -> Int]
  /\ sent \in [Child -> SUBSET DOMAIN Number] /\ queue \in Seq(Caught)

(* Once the command has been reaped only its group is left, and nothing    *)
(* that could start another process in it.                                 *)
SupervisorOK ==
  tool = "init" =>
    /\ pc = "start" => \A c \in Child : child[c] = "none"
    /\ pc \in {"group", "ending"} => child[Command] = "gone"
    /\ pc = "end" => /\ child[Command] /= "running"
                     /\ \A c \in Group : child[c] = "running" => "KILL" \in sent[c]

(* Batches are started in order, and the status is 0 until one that failed *)
(* is over, then that of one that failed.                                  *)
Failed(c) == child[c] = "gone" /\ result[c] /= 0
StatusShows ==
  IF \E c \in Child : Failed(c) THEN \E c \in Child : Failed(c) /\ status = WaitStatus(c)
  ELSE status = 0
BatchesOK ==
  tool = "xargs" =>
    /\ call \in Invocations /\ work = Prepared(call) /\ next \in 0 .. Count /\ status \in Int
    /\ pc \in {"start", "run", "end"} /\ (pc = "start" => next = 0)
    /\ \A c \in Child : /\ child[c] = "none" <=> c > next
                        /\ child[c] \in {"none", "running"} => result[c] = 0
    /\ pc /= "start" /\ Count > 0 => StatusShows
    /\ pc = "end" => next = Count /\ \A c \in 1 .. next : child[c] = "gone"

(* What this attempt has read and what it was compared with is among what  *)
(* the files have held since the password was typed.                       *)
AttemptOK ==
  /\ argv \in [f : BOOLEAN, user : User \cup {"none"}]
  /\ stage \in {"getty", "name", "exec", "login"} => past = {}
  /\ stage \in {"password", "passwd", "shadow"} => name \in User
  /\ stage \in {"passwd", "shadow"} => Snapshot \subseteq past
  /\ stage = "shadow" => entry.stored = "x" /\ \E v \in past : v.user = name /\ v.p = entry
  /\ stage \in {"begin", "shell"} => \/ argv.f /\ argv.user = name /\ past = {}
                                     \/ \E v, w \in past : Earned(v, w)
  /\ stage = "shell" => shell = name

ProcessesOK == KernelOK /\ SupervisorOK /\ BatchesOK /\ AttemptOK

LEMMA ChildrenNamed == Command \in Child /\ Helper \in Child /\ Orphan \in Child /\ Group \subseteq Child
BY RunnersAssumption DEF Group

LEMMA InvocationCount ==
  ASSUME call \in Invocations, work = Prepared(call)
  PROVE  Count \in 0 .. MaxChild /\ Count \in Nat /\ MaxChild \in Nat /\ 1 .. Count \subseteq Child
BY InvocationAssumption, MaxChildAssumption DEF Count, Child

LEMMA InitOK == Init => ProcessesOK
<1> SUFFICES ASSUME Init PROVE ProcessesOK
  OBVIOUS
<1>1. LoginInit /\ NoChildren
  BY DEF Init, RunnersInit, XargsInit, NoTool
<1>2. AttemptOK
  BY <1>1 DEF LoginInit, AttemptOK
<1>3. KernelOK
  <2>1. tool \in {"timeout", "init", "xargs", "login"} /\ queue = <<>>
    BY DEF Init, RunnersInit, XargsInit, NoTool, RunnersIdle
  <2> QED
    BY <1>1, <2>1 DEF KernelOK, NoChildren, ChildState
<1>4. SupervisorOK
  BY <1>1 DEF Init, RunnersInit, XargsInit, NoTool, NoChildren, SupervisorOK
<1>5. BatchesOK
  <2> SUFFICES ASSUME tool = "xargs" PROVE BatchesOK
    BY DEF BatchesOK
  <2>1. XargsInit
    BY DEF Init, RunnersInit, NoTool
  <2>2. call \in Invocations /\ work = Prepared(call) /\ Count \in Nat
    BY <2>1, InvocationCount DEF XargsInit
  <2> QED
    BY <1>1, <2>1, <2>2 DEF XargsInit, BatchesOK, NoChildren, Child
<1> QED
  BY <1>2, <1>3, <1>4, <1>5 DEF ProcessesOK

-----------------------------------------------------------------------------
(* init COMMAND and timeout *)

LEMMA ChildEnds ==
  ASSUME KernelOK, NEW c \in Child, ChildExits(c) \/ ChildDies(c) \/ ChildKilled(c)
  PROVE  /\ child' = [child EXCEPT ![c] = "zombie"] /\ child[c] = "running"
         /\ child' \in [Child -> ChildState] /\ result' \in [Child -> Int] /\ sent' = sent
         /\ \A b \in Child \ {c} : result'[b] = result[b]
<1>1. PICK r \in Int : Ends(c, r)
  <2>1. CASE ChildExits(c)
    BY <2>1 DEF ChildExits
  <2>2. CASE ChildDies(c) \/ ChildKilled(c)
    <3>1. PICK s \in sent[c] : Ends(c, -Number[s])
      BY <2>2 DEF ChildDies, ChildKilled
    <3>2. Number[s] \in Int
      BY <3>1 DEF KernelOK, Number
    <3> QED
      BY <3>1, <3>2
  <2> QED
    BY <2>1, <2>2
<1> QED
  BY <1>1 DEF Ends, KernelOK, ChildState, ChildExits, ChildDies, ChildKilled

LEMMA ReapedTyped ==
  ASSUME KernelOK, NEW S, Reaped(S)
  PROVE  /\ child' \in [Child -> ChildState]
         /\ \A c \in Child : child'[c] = IF c \in S THEN "gone" ELSE child[c]
BY DEF Reaped, KernelOK, ChildState

LEMMA SignalledTyped ==
  ASSUME KernelOK, NEW S, NEW sig \in DOMAIN Number, Signalled(S, sig)
  PROVE  /\ sent' \in [Child -> SUBSET DOMAIN Number]
         /\ \A c \in Child : /\ sent[c] \subseteq sent'[c]
                             /\ c \in S /\ child[c] = "running" => sig \in sent'[c]
BY DEF Signalled, KernelOK

LEMMA RunnersKernel ==
  ASSUME KernelOK, RunnersNext
  PROVE  KernelOK'
<1>1. DOMAIN Number = {"HUP", "INT", "KILL", "TERM"}
  BY DEF Number
<1>2. CASE Start \/ \E c \in {Helper, Orphan} : Fork(c)
  BY <1>2, ChildrenNamed DEF Start, Fork, Started, KernelOK, ChildState, runner
<1>3. CASE WaitReturns
  BY <1>3, ReapedTyped DEF WaitReturns, KernelOK
<1>4. CASE DurationOver \/ KillAfterOver \/ TerminateGroup \/ DeadlineOver
  BY <1>1, <1>4, SignalledTyped DEF DurationOver, KillAfterOver, TerminateGroup, DeadlineOver, KernelOK, runner
<1>5. CASE StartFails \/ CommandDone \/ TimerExpires \/ TimedOut \/ GroupGone
  BY <1>5 DEF StartFails, CommandDone, TimerExpires, TimedOut, GroupGone, KernelOK, kernel, runner
<1>6. CASE ReapWhileEnding
  BY <1>6, ReapedTyped DEF ReapWhileEnding, KernelOK, runner
<1>7. CASE SignalArrives
  BY <1>7 DEF SignalArrives, KernelOK, kernel
<1>8. CASE Supervise
  <2>1. /\ \/ queue /= <<>> /\ Signalled(Group, Head(queue)) /\ queue' = Tail(queue)
           \/ UNCHANGED <<sent, queue>>
        /\ Reaped(Adopted) /\ UNCHANGED <<tool, result>>
    BY <1>8 DEF Supervise
  <2>2. child' \in [Child -> ChildState]
    BY <2>1, ReapedTyped
  <2>3. sent' \in [Child -> SUBSET DOMAIN Number] /\ queue' \in Seq(Caught)
    <3>1. CASE queue /= <<>> /\ Signalled(Group, Head(queue)) /\ queue' = Tail(queue)
      <4>1. Head(queue) \in Caught /\ Tail(queue) \in Seq(Caught)
        BY <3>1 DEF KernelOK
      <4>2. Head(queue) \in DOMAIN Number
        BY <1>1, <4>1 DEF Caught
      <4> QED
        BY <3>1, <4>1, <4>2, SignalledTyped
    <3>2. CASE UNCHANGED <<sent, queue>>
      BY <3>2 DEF KernelOK
    <3> QED
      BY <2>1, <3>1, <3>2
  <2> QED
    BY <2>1, <2>2, <2>3 DEF KernelOK
<1>9. ASSUME NEW c \in Child, ProcessEnds(c) PROVE KernelOK'
  BY <1>9, ChildEnds DEF ProcessEnds, KernelOK, runner
<1> QED
  BY <1>2, <1>3, <1>4, <1>5, <1>6, <1>7, <1>8, <1>9 DEF RunnersNext, RunnersTool

LEMMA RunnersSupervisor ==
  ASSUME KernelOK, SupervisorOK, tool = "init", RunnersNext
  PROVE  SupervisorOK'
<1>0. tool' = tool
  BY DEF RunnersNext, RunnersTool, Start, StartFails, WaitReturns, CommandDone, TimerExpires, DurationOver,
         KillAfterOver, TimedOut, Supervise, GroupGone, TerminateGroup, ReapWhileEnding, DeadlineOver,
         SignalArrives, Fork, ProcessEnds
<1>1. CASE Start
  BY <1>1 DEF Start, Go, SupervisorOK
<1>2. CASE StartFails
  BY <1>2, ChildrenNamed DEF StartFails, Exit, kernel, SupervisorOK
<1>3. CASE SignalArrives
  BY <1>3 DEF SignalArrives, kernel, SupervisorOK
<1>4. CASE Supervise
  <2>1. Reaped(Adopted) /\ pc' = IF Command \in Adopted THEN "group" ELSE "wait"
    BY <1>4 DEF Supervise, Go
  <2>2. Command \in Adopted => child'[Command] = "gone"
    BY <2>1, ReapedTyped, ChildrenNamed
  <2> QED
    BY <1>0, <2>1, <2>2 DEF SupervisorOK
<1>5. CASE GroupGone
  BY <1>5, ChildrenNamed DEF GroupGone, Exit, GroupExists, Group, kernel, SupervisorOK
<1>6. CASE TerminateGroup
  BY <1>6 DEF TerminateGroup, Go, SupervisorOK
<1>7. CASE ReapWhileEnding
  BY <1>0, <1>7, ReapedTyped, ChildrenNamed DEF ReapWhileEnding, SupervisorOK
<1>8. CASE DeadlineOver
  <2>1. Signalled(Group, "KILL") /\ pc = "ending" /\ pc' = "end" /\ child' = child
    BY <1>8 DEF DeadlineOver, Exit
  <2>2. \A c \in Group : child[c] = "running" => "KILL" \in sent'[c]
    BY <2>1, SignalledTyped, ChildrenNamed DEF Number
  <2> QED
    BY <1>0, <2>1, <2>2 DEF SupervisorOK
<1>9. ASSUME NEW c \in {Helper, Orphan}, Fork(c) PROVE SupervisorOK'
  BY <1>9, ChildrenNamed DEF Fork, Started, SupervisorOK, KernelOK, Command, Helper, Orphan
<1>10. ASSUME NEW c \in Child, ProcessEnds(c) PROVE SupervisorOK'
  <2>1. child' = [child EXCEPT ![c] = "zombie"] /\ child[c] = "running" /\ sent' = sent /\ pc' = pc
    BY <1>10, ChildEnds DEF ProcessEnds
  <2>2. \A b \in Child : child'[b] = IF b = c THEN "zombie" ELSE child[b]
    BY <2>1 DEF KernelOK
  <2> QED
    BY <2>1, <2>2, ChildrenNamed DEF SupervisorOK
<1>11. CASE WaitReturns \/ CommandDone \/ TimerExpires \/ DurationOver \/ KillAfterOver \/ TimedOut
  BY <1>11 DEF WaitReturns, CommandDone, TimerExpires, DurationOver, KillAfterOver, TimedOut
<1> QED
  BY <1>1, <1>2, <1>3, <1>4, <1>5, <1>6, <1>7, <1>8, <1>9, <1>10, <1>11 DEF RunnersNext, RunnersTool

-----------------------------------------------------------------------------
(* xargs *)

LEMMA NothingHeld ==
  ASSUME KernelOK, next \in Nat, 1 .. next \subseteq Child, Held = 0
  PROVE  \A c \in 1 .. next : child[c] \in {"none", "gone"}
<1> DEFINE S == {b \in 1 .. next : child[b] \in {"running", "zombie"}}
<1>1. IsFiniteSet(1 .. next)
  BY FS_Interval
<1>2. IsFiniteSet(S)
  BY <1>1, FS_Subset
<1>3. S = {}
  BY <1>2, FS_EmptySet DEF Held
<1> QED
  BY <1>3 DEF KernelOK, ChildState

LEMMA WaitStatusFaithful ==
  ASSUME KernelOK, NEW c \in Child
  PROVE  WaitStatus(c) \in Int /\ (WaitStatus(c) /= 0 <=> result[c] /= 0)
BY DEF WaitStatus, KernelOK

(* StatusShows depends on what has been waited for and on the status only. *)
LEMMA StatusKept ==
  ASSUME KernelOK, StatusShows, status' = status,
         \A c \in Child : Failed(c)' = Failed(c),
         \A c \in Child : Failed(c) => result'[c] = result[c]
  PROVE  StatusShows'
BY DEF StatusShows, WaitStatus

LEMMA XargsKernel ==
  ASSUME KernelOK, BatchesOK, tool = "xargs", XargsNext, UNCHANGED runner
  PROVE  KernelOK' /\ BatchesOK'
<1> USE DEF runner, kernel, xargs
<1>1. /\ Count \in 0 .. MaxChild /\ Count \in Nat /\ MaxChild \in Nat /\ 1 .. Count \subseteq Child
      /\ next \in 0 .. Count /\ status \in Int
  BY InvocationCount DEF BatchesOK
<1>2. CASE XargsStart
  <2>1. /\ UNCHANGED <<tool, child, result, sent, queue, call, work, next>> /\ pc = "start"
        /\ IF Count = 0 THEN pc' = "end" /\ status' = work.status ELSE pc' = "run" /\ status' = 0
    BY <1>2 DEF XargsStart
  <2>2. status' \in Int
    <3>1. work.status \in {0, 1, 2}
      BY DEF BatchesOK, Prepared
    <3> QED
      BY <2>1, <3>1
  <2>3. next = 0 /\ \A c \in Child : child[c] = "none"
    BY <2>1, <1>1 DEF BatchesOK, Child
  <2>4. Count' = Count
    BY <2>1 DEF Count
  <2>5. Count > 0 => StatusShows'
    BY <1>1, <2>1, <2>3 DEF StatusShows, Failed
  <2> QED
    BY <1>1, <2>1, <2>2, <2>3, <2>4, <2>5 DEF KernelOK, BatchesOK, Child
<1>3. CASE RunBatch
  <2>1. /\ pc = "run" /\ next < Count /\ next' = next + 1 /\ child' = [child EXCEPT ![next + 1] = "running"]
        /\ UNCHANGED <<tool, pc, result, sent, status, call, work, queue>>
    BY <1>3 DEF RunBatch, Started
  <2>2. Count' = Count /\ next + 1 \in Child /\ next + 1 \in 0 .. Count /\ Count > 0
    BY <1>1, <2>1 DEF Count
  <2>3. \A c \in Child : child'[c] = IF c = next + 1 THEN "running" ELSE child[c]
    BY <2>1 DEF KernelOK
  <2>4. KernelOK'
    BY <2>1, <2>2 DEF KernelOK, ChildState
  <2>5. child[next + 1] = "none"
    BY <1>1, <2>2 DEF BatchesOK
  <2>6. StatusShows'
    BY <2>1, <2>2, <2>3, <2>5, StatusKept DEF BatchesOK, Failed
  <2>7. \A c \in Child : /\ child'[c] = "none" <=> c > next'
                         /\ child'[c] \in {"none", "running"} => result'[c] = 0
    BY <1>1, <2>1, <2>2, <2>3, <2>5 DEF BatchesOK, Child
  <2> QED
    BY <1>1, <2>1, <2>2, <2>4, <2>6, <2>7 DEF BatchesOK
<1>4. CASE BatchSkipped
  <2>1. /\ pc = "run" /\ next < Count /\ next' = next + 1 /\ Reaped({next + 1})
        /\ \/ UNCHANGED <<result, status>>
           \/ result' = [result EXCEPT ![next + 1] = 127] /\ status' = 127
        /\ UNCHANGED <<tool, pc, sent, call, work, queue>>
    BY <1>4 DEF BatchSkipped, Reaped
  <2>2. Count' = Count /\ next + 1 \in Child /\ next + 1 \in 0 .. Count /\ Count > 0
    BY <1>1, <2>1 DEF Count
  <2>3. /\ child' \in [Child -> ChildState]
        /\ \A c \in Child : child'[c] = IF c = next + 1 THEN "gone" ELSE child[c]
    BY <2>1, ReapedTyped
  <2>4. KernelOK' /\ \A c \in Child \ {next + 1} : result'[c] = result[c]
    BY <2>1, <2>3 DEF KernelOK
  <2>5. child[next + 1] = "none" /\ result[next + 1] = 0
    BY <1>1, <2>2 DEF BatchesOK
  <2>6. StatusShows'
    <3>1. CASE UNCHANGED <<result, status>>
      BY <2>1, <2>2, <2>3, <2>5, <3>1, StatusKept DEF BatchesOK, Failed
    <3>2. CASE result' = [result EXCEPT ![next + 1] = 127] /\ status' = 127
      <4>1. PICK k \in Child : k = next + 1
        BY <2>2
      <4>2. result'[k] = 127 /\ child'[k] = "gone"
        BY <2>2, <2>3, <3>2, <4>1 DEF KernelOK
      <4>3. Failed(k)' /\ status' = WaitStatus(k)'
        BY <3>2, <4>2 DEF Failed, WaitStatus
      <4> QED
        BY <4>3 DEF StatusShows
    <3> QED
      BY <2>1, <3>1, <3>2
  <2>7. \A c \in Child : /\ child'[c] = "none" <=> c > next'
                         /\ child'[c] \in {"none", "running"} => result'[c] = 0
    BY <1>1, <2>1, <2>2, <2>3, <2>4 DEF BatchesOK, Child
  <2> QED
    BY <1>1, <2>1, <2>2, <2>4, <2>6, <2>7 DEF BatchesOK
<1>5. CASE XargsEnd
  <2>1. /\ pc = "run" /\ pc' = "end" /\ next = Count /\ Held = 0
        /\ UNCHANGED <<tool, child, result, sent, status, call, work, next, queue>>
    BY <1>5 DEF XargsEnd
  <2>2. \A c \in 1 .. next : child[c] = "gone"
    <3>1. \A c \in 1 .. next : c \in Child /\ child[c] \in {"none", "gone"}
      BY <1>1, <2>1, NothingHeld
    <3> QED
      BY <1>1, <3>1 DEF BatchesOK
  <2>3. Count' = Count
    BY <2>1 DEF Count
  <2>4. Count > 0 => StatusShows'
    BY <2>1, StatusKept DEF BatchesOK, Failed
  <2> QED
    BY <2>1, <2>2, <2>3, <2>4 DEF KernelOK, BatchesOK
<1>6. ASSUME NEW b \in Child, ChildWaited(b) PROVE KernelOK' /\ BatchesOK'
  <2>1. /\ child[b] = "zombie" /\ Reaped({b}) /\ UNCHANGED <<tool, pc, result, sent, call, work, next, queue>>
        /\ status' = IF WaitStatus(b) /= 0 THEN WaitStatus(b) ELSE status
    BY <1>6 DEF ChildWaited
  <2>2. /\ child' \in [Child -> ChildState]
        /\ \A c \in Child : child'[c] = IF c = b THEN "gone" ELSE child[c]
    BY <2>1, ReapedTyped
  <2>3. KernelOK' /\ Count' = Count
    BY <2>1, <2>2 DEF KernelOK, Count
  <2>4. \A c \in Child : /\ child'[c] = "none" <=> c > next'
                         /\ child'[c] \in {"none", "running"} => result'[c] = 0
    BY <2>1, <2>2 DEF BatchesOK
  <2>5. pc = "end" => \A c \in 1 .. next : child'[c] = "gone"
    BY <1>1, <2>1, <2>2 DEF BatchesOK
  <2>6. status' \in Int
    BY <1>1, <2>1, WaitStatusFaithful
  <2>7. pc /= "start" /\ Count > 0 => StatusShows'
    <3>1. CASE result[b] /= 0
      <4>1. child'[b] = "gone" /\ result'[b] /= 0 /\ status' = WaitStatus(b) /\ result' = result
        BY <2>1, <2>2, <3>1, WaitStatusFaithful
      <4>2. WaitStatus(b)' = WaitStatus(b)
        BY <4>1 DEF WaitStatus
      <4> QED
        BY <4>1, <4>2 DEF StatusShows, Failed, WaitStatus
    <3>2. CASE result[b] = 0
      <4>1. status' = status
        BY <2>1, <3>2, WaitStatusFaithful
      <4>2. \A c \in Child : Failed(c)' = Failed(c)
        BY <2>1, <2>2, <3>2 DEF Failed
      <4> QED
        BY <2>1, <4>1, <4>2, StatusKept DEF BatchesOK
    <3> QED
      BY <3>1, <3>2
  <2> QED
    BY <2>1, <2>3, <2>4, <2>5, <2>6, <2>7 DEF BatchesOK
<1>7. ASSUME NEW b \in Child, XargsChildEnds(b) PROVE KernelOK' /\ BatchesOK'
  <2>1. /\ child' = [child EXCEPT ![b] = "zombie"] /\ child[b] = "running"
        /\ child' \in [Child -> ChildState] /\ result' \in [Child -> Int] /\ sent' = sent
        /\ \A c \in Child \ {b} : result'[c] = result[c]
    BY <1>7, ChildEnds DEF XargsChildEnds
  <2>2. UNCHANGED <<tool, pc, status, call, work, next, queue>>
    BY <1>7 DEF XargsChildEnds
  <2>3. \A c \in Child : child'[c] = IF c = b THEN "zombie" ELSE child[c]
    BY <2>1 DEF KernelOK
  <2>4. KernelOK' /\ Count' = Count
    BY <2>1, <2>2 DEF KernelOK, Count
  <2>5. pc = "end" => \A c \in 1 .. next : child'[c] = "gone"
    BY <1>1, <2>1, <2>3 DEF BatchesOK
  <2>6. \A c \in Child : /\ child'[c] = "none" <=> c > next'
                         /\ child'[c] \in {"none", "running"} => result'[c] = 0
    BY <2>1, <2>2, <2>3 DEF BatchesOK
  <2>7. pc /= "start" /\ Count > 0 => StatusShows'
    BY <2>1, <2>2, <2>3, StatusKept DEF BatchesOK, Failed
  <2> QED
    BY <2>2, <2>4, <2>5, <2>6, <2>7 DEF BatchesOK
<1> QED
  BY <1>2, <1>3, <1>4, <1>5, <1>6, <1>7 DEF XargsNext, XargsTool

-----------------------------------------------------------------------------
(* getty and login *)

(* What is in the files now is among what they have held.                  *)
LEMMA Seen ==
  ASSUME NEW u \in User, Snapshot \subseteq past
  PROVE  [user |-> u, p |-> passwd[u], s |-> shadow[u]] \in past
BY DEF Snapshot

(* A step that begins no session and keeps the entries read so far.        *)
LEMMA AttemptMoves ==
  ASSUME AttemptOK, argv' \in [f : BOOLEAN, user : User \cup {"none"}], stage' \notin {"password", "passwd", "shadow", "begin", "shell"},
         stage' \in {"getty", "name", "exec", "login"} => past' = {}
  PROVE  AttemptOK'
BY DEF AttemptOK

LEMMA JudgeKeeps ==
  ASSUME AttemptOK, NEW stored, NEW late, NEW e, Judge(stored, late, e), UNCHANGED <<args, name, shell>>,
         Verify(typed, stored) = "valid" /\ ~ late =>
           \E v, w \in past : /\ v.user = name /\ w.user = name /\ v.p = e
                              /\ IF e.stored = "x" THEN w.s /= NoEntry /\ Verify(typed, w.s.stored) = "valid" /\ ~ w.s.expired
                                 ELSE Verify(typed, e.stored) = "valid"
  PROVE  AttemptOK'
<1>1. CASE Verify(typed, stored) = "valid" /\ ~ late
  <2>1. stage' = "begin" /\ entry' = e /\ UNCHANGED <<args, name, shell, typed, past>>
    BY <1>1 DEF Judge, Proceed, Goes
  <2>2. \E v, w \in past' : Earned(v, w)'
    BY <1>1, <2>1 DEF Earned, Verify
  <2> QED
    BY <2>1, <2>2 DEF AttemptOK, args
<1>2. CASE ~ (Verify(typed, stored) = "valid" /\ ~ late)
  <2>1. stage' = "ask" /\ UNCHANGED <<args, name, shell>>
    BY <1>2 DEF Judge, Refuse, Goes
  <2> QED
    BY <2>1, AttemptMoves DEF AttemptOK, args
<1> QED
  BY <1>1, <1>2

LEMMA LoginAttempt ==
  ASSUME AttemptOK, LoginNext
  PROVE  AttemptOK'
<1> USE DEF args, tty, files, attempt, Goes
<1>1. CASE GettyStarts \/ LoginRespawned
  <2>1. stage' \in {"getty", "idle", "login"}
    BY <1>1 DEF GettyStarts, LoginRespawned
  <2>2. argv' \in [f : BOOLEAN, user : User \cup {"none"}]
    <3>1. CASE GettyStarts
      <4>1. PICK o \in GettyOptions : argv' = [f |-> FALSE, user |-> o.autologin]
        BY <3>1 DEF GettyStarts
      <4> QED
        BY <4>1, LoginAssumption
    <3>2. CASE LoginRespawned
      BY <3>2, LoginAssumption DEF LoginRespawned
    <3> QED
      BY <1>1, <3>1, <3>2
  <2>3. past' = {}
    BY <1>1 DEF GettyStarts, LoginRespawned, Respawned
  <2> QED
    BY <2>1, <2>2, <2>3, AttemptMoves
<1>2. CASE GettyName \/ NameRead \/ NameTimeout \/ GettyExec \/ LoginGivesUp \/ ShellEnds \/ Interrupted
  <2>1. stage' \in {"exec", "name", "idle", "login"}
    BY <1>2 DEF GettyName, NameRead, NameTimeout, GettyExec, LoginGivesUp, ShellEnds, Interrupted
  <2>2. argv' \in [f : BOOLEAN, user : User \cup {"none"}]
    BY <1>2 DEF GettyName, NameRead, NameTimeout, GettyExec, LoginGivesUp, ShellEnds, Interrupted, AttemptOK
  <2>3. stage' \in {"name", "exec", "login"} => stage \in {"getty", "name", "exec"} /\ past' = past
    BY <1>2 DEF GettyName, NameRead, NameTimeout, GettyExec, LoginGivesUp, ShellEnds, Interrupted
  <2> QED
    BY <2>1, <2>2, <2>3, AttemptMoves DEF AttemptOK
<1>3. CASE LoginStarts
  BY <1>3 DEF LoginStarts, AttemptOK
<1>4. CASE AskName
  <2>1. name' \in User
    BY <1>4 DEF AskName, AttemptOK
  <2>2. stage' = "password" /\ argv' = argv
    BY <1>4 DEF AskName
  <2> QED
    BY <2>1, <2>2 DEF AttemptOK
<1>5. CASE PasswordRead
  <2>1. Snapshot' = Snapshot /\ UNCHANGED <<argv, name>> /\ stage = "password"
    BY <1>5 DEF PasswordRead, Snapshot
  <2>2. (stage' = "passwd" /\ past' = Snapshot) \/ stage' = "idle"
    BY <1>5 DEF PasswordRead
  <2> QED
    BY <2>1, <2>2 DEF AttemptOK
<1>6. CASE ReadPasswd
  <2> DEFINE e == passwd[name]
             now == [user |-> name, p |-> e, s |-> shadow[name]]
  <2>1. UNCHANGED <<args, name, shell, passwd, shadow>> /\ now \in past
    BY <1>6, Seen DEF ReadPasswd, AttemptOK
  <2>2. CASE Refuse
    BY <2>1, <2>2, AttemptMoves DEF Refuse, AttemptOK
  <2>3. CASE Proceed("idle")
    BY <2>1, <2>3, AttemptMoves DEF Proceed, AttemptOK
  <2>4. CASE Proceed("shadow") /\ entry' = e /\ e.stored = "x"
    <3>1. stage' = "shadow" /\ past' = past /\ Snapshot' = Snapshot
      BY <2>1, <2>4 DEF Proceed, Snapshot
    <3> QED
      BY <1>6, <2>1, <2>4, <3>1 DEF ReadPasswd, AttemptOK
  <2>5. CASE Judge(e.stored, FALSE, e) /\ e.stored /= "x"
    BY <2>1, <2>5, JudgeKeeps
  <2> QED
    BY <1>6, <2>2, <2>3, <2>4, <2>5 DEF ReadPasswd, Usable
<1>7. CASE ReadShadow
  <2> DEFINE e == shadow[name]
             now == [user |-> name, p |-> passwd[name], s |-> e]
  <2>1. UNCHANGED <<args, name, shell, passwd, shadow>> /\ now \in past /\ entry.stored = "x"
    BY <1>7, Seen DEF ReadShadow, AttemptOK
  <2>2. PICK v \in past : v.user = name /\ v.p = entry
    BY <1>7 DEF ReadShadow, AttemptOK
  <2>3. CASE e = NoEntry
    BY <1>7, <2>1, <2>3, AttemptMoves DEF ReadShadow, Proceed, AttemptOK
  <2>4. CASE e /= NoEntry
    BY <1>7, <2>1, <2>2, <2>4, JudgeKeeps DEF ReadShadow
  <2> QED
    BY <2>3, <2>4
<1>8. CASE BeginSession
  BY <1>8 DEF BeginSession, AttemptOK, Earned
<1>9. CASE Administer
  <2>1. /\ UNCHANGED <<stage, argv, name, entry, typed, shell>> /\ past \subseteq past'
        /\ past = {} => past' = {}
    BY <1>9 DEF Administer
  <2>2. stage \in {"passwd", "shadow"} => Snapshot' \subseteq past'
    <3>1. name \in User /\ Snapshot \subseteq past => past /= {}
      BY DEF Snapshot
    <3> QED
      BY <1>9, <3>1 DEF Administer, AttemptOK
  <2>3. stage = "shadow" => \E v \in past' : v.user = name /\ v.p = entry
    BY <2>1 DEF AttemptOK
  <2>4. stage \in {"begin", "shell"} => \/ argv.f /\ argv.user = name /\ past' = {}
                                        \/ \E v, w \in past' : Earned(v, w)'
    BY <2>1 DEF AttemptOK, Earned, Verify
  <2> QED
    BY <2>1, <2>2, <2>3, <2>4 DEF AttemptOK
<1> QED
  BY <1>1, <1>2, <1>3, <1>4, <1>5, <1>6, <1>7, <1>8, <1>9 DEF LoginNext, LoginStep, Typing

LEMMA StepOK == ProcessesOK /\ [Next]_vars => ProcessesOK'
<1> SUFFICES ASSUME ProcessesOK, [Next]_vars PROVE ProcessesOK'
  OBVIOUS
<1>1. CASE tool \in {"timeout", "init"} /\ RunnersNext /\ UNCHANGED <<xargs, login>>
  <2>1. KernelOK' /\ tool' = tool
    BY <1>1, RunnersKernel DEF ProcessesOK, RunnersNext, RunnersTool, Start, StartFails, WaitReturns, CommandDone,
         TimerExpires, DurationOver, KillAfterOver, TimedOut, Supervise, GroupGone, TerminateGroup, ReapWhileEnding,
         DeadlineOver, SignalArrives, Fork, ProcessEnds
  <2>2. SupervisorOK'
    BY <1>1, <2>1, RunnersSupervisor DEF ProcessesOK, SupervisorOK
  <2>3. BatchesOK'
    BY <1>1, <2>1 DEF BatchesOK
  <2>4. AttemptOK'
    BY <1>1 DEF ProcessesOK, AttemptOK, login, files, line, args, attempt, tty, Snapshot, Earned
  <2> QED
    BY <2>1, <2>2, <2>3, <2>4 DEF ProcessesOK
<1>2. CASE tool = "xargs" /\ XargsNext /\ UNCHANGED <<runner, login>>
  <2>1. KernelOK' /\ BatchesOK'
    BY <1>2, XargsKernel DEF ProcessesOK
  <2>2. tool' = tool
    BY <1>2 DEF XargsNext, XargsTool, XargsStart, RunBatch, BatchSkipped, XargsEnd, ChildWaited, XargsChildEnds
  <2>3. AttemptOK'
    BY <1>2 DEF ProcessesOK, AttemptOK, login, files, line, args, attempt, tty, Snapshot, Earned
  <2> QED
    BY <1>2, <2>1, <2>2, <2>3 DEF ProcessesOK, SupervisorOK
<1>3. CASE LoginNext /\ UNCHANGED <<tool, pc, kernel, status, other>>
  <2>1. UNCHANGED <<tool, pc, child, result, sent, status, queue, call, work, next>> /\ AttemptOK'
    BY <1>3, LoginAttempt DEF ProcessesOK, kernel, other, runner, xargs
  <2>2. KernelOK' /\ SupervisorOK' /\ BatchesOK'
    BY <2>1 DEF ProcessesOK, KernelOK, SupervisorOK, BatchesOK, Count, StatusShows, Failed, WaitStatus
  <2> QED
    BY <2>1, <2>2 DEF ProcessesOK
<1>4. CASE UNCHANGED vars
  <2>1. AttemptOK'
    BY <1>4 DEF vars, ProcessesOK, AttemptOK, login, files, line, args, attempt, tty, Snapshot, Earned
  <2>2. UNCHANGED <<tool, pc, child, result, sent, status, queue, call, work, next>>
    BY <1>4 DEF vars, kernel, other, runner, xargs
  <2>3. KernelOK' /\ SupervisorOK' /\ BatchesOK'
    BY <2>2 DEF ProcessesOK, KernelOK, SupervisorOK, BatchesOK, Count, StatusShows, Failed, WaitStatus
  <2> QED
    BY <2>1, <2>3 DEF ProcessesOK
<1> QED
  BY <1>1, <1>2, <1>3, <1>4 DEF Next

-----------------------------------------------------------------------------
(* When init COMMAND ends, whatever is left of the command's group has     *)
(* been sent SIGKILL.                                                      *)
THEOREM GroupAlwaysEnded == Spec => []GroupEnded
<1>1. ProcessesOK => GroupEnded
  BY DEF ProcessesOK, SupervisorOK, GroupEnded
<1> QED
  BY <1>1, InitOK, StepOK, PTL DEF Spec

(* xargs ends with every child waited for, and with the status of a batch  *)
(* that failed exactly if there is one.                                    *)
THEOREM FailureAlwaysReported == Spec => []FailureReported
<1>1. ProcessesOK => FailureReported
  <2> SUFFICES ASSUME ProcessesOK, tool = "xargs", pc = "end", Count > 0 PROVE FailureReported
    BY DEF FailureReported
  <2> DEFINE failed == {b \in 1 .. Count : WaitStatus(b) /= 0}
  <2>1. /\ KernelOK /\ next = Count /\ Count \in Nat /\ 1 .. Count \subseteq Child
        /\ \A c \in 1 .. Count : child[c] = "gone"
    BY InvocationCount DEF ProcessesOK, BatchesOK
  <2>2. Count > 0 => StatusShows
    BY DEF ProcessesOK, BatchesOK
  <2>3. \A c \in Child : Failed(c) <=> c \in failed
    BY <2>1, WaitStatusFaithful DEF ProcessesOK, BatchesOK, Failed, Child
  <2> QED
    BY <2>1, <2>2, <2>3 DEF FailureReported, StatusShows
<1> QED
  BY <1>1, InitOK, StepOK, PTL DEF Spec

(* A shell runs for a name only after its password was compared, in this   *)
(* attempt, with entries the files held after it was typed and that allow  *)
(* a login, or for the name `login -f` was given and nothing typed.        *)
THEOREM ShellAlwaysEarned == Spec => []ShellEarned
<1>1. ProcessesOK => ShellEarned
  <2> SUFFICES ASSUME ProcessesOK, stage = "shell", past /= {} \/ ~ argv.f PROVE ShellEarned
    BY DEF ProcessesOK, AttemptOK, ShellEarned
  <2>1. shell = name
    BY DEF ProcessesOK, AttemptOK
  <2>2. PICK v, w \in past : Earned(v, w)
    BY DEF ProcessesOK, AttemptOK
  <2>3. CASE v.p = w.p
    <3>1. Earned(w, w)
      BY <2>2, <2>3 DEF Earned
    <3> QED
      BY <2>1, <2>2, <3>1 DEF ShellEarned
  <2>4. CASE v.s = w.s
    <3>1. Earned(v, v)
      BY <2>2, <2>4 DEF Earned
    <3> QED
      BY <2>1, <2>2, <3>1 DEF ShellEarned
  <2> QED
    BY <2>1, <2>2, <2>3, <2>4 DEF ShellEarned
<1> QED
  BY <1>1, InitOK, StepOK, PTL DEF Spec

-----------------------------------------------------------------------------
(* Induction over the input of xargs.  The theorems of the library that    *)
(* take a predicate as a parameter are of no use to the provers: this is   *)
(* induction as a fact about sets of numbers.                              *)

Less == {p \in Nat \X Nat : p[1] < p[2]}

LEMMA LessWellFounded == IsWellFoundedOn(Less, Nat)
BY NatLessThanWellFounded DEF OpToRel, Less

LEMMA SetInduction ==
  ASSUME NEW S \in SUBSET Nat, 0 \in S, \A n \in S : n + 1 \in S
  PROVE  S = Nat
<1> DEFINE T == Nat \ S
<1>1. SUFFICES ASSUME T # {} PROVE FALSE
  OBVIOUS
<1>2. PICK x \in T : \A y \in T : ~ (<<y, x>> \in Less)
  BY <1>1, LessWellFounded, WFMin
<1>3. x # 0 /\ x \in Nat /\ x - 1 \in Nat
  OBVIOUS
<1>4. <<x - 1, x>> \in Less
  BY <1>3 DEF Less
<1>5. x - 1 \in S
  BY <1>2, <1>3, <1>4
<1> QED
  BY <1>2, <1>3, <1>5

(* The form the proofs below use: for every k up to n.                     *)
LEMMA UpTo ==
  ASSUME NEW n \in Nat, NEW S \in SUBSET (0 .. n), 0 \in S,
         \A k \in S : k < n => k + 1 \in S
  PROVE  S = 0 .. n
<1> DEFINE T == {k \in Nat : k <= n => k \in S}
<1>1. T = Nat
  <2> HIDE DEF T
  <2>1. T \in SUBSET Nat /\ 0 \in T
    BY DEF T
  <2>2. \A k \in T : k + 1 \in T
    BY DEF T
  <2> QED
    BY <2>1, <2>2, SetInduction
<1>2. ASSUME NEW k \in 0 .. n PROVE k \in S
  <2>1. k \in Nat /\ k <= n
    OBVIOUS
  <2> QED
    BY <1>1, <2>1
<1> QED
  BY <1>2

(* FoldLeft recurs over sets of indexes, by their greatest.                *)
LEMMA MaxWithLast ==
  ASSUME NEW k \in Nat, NEW t \in SUBSET (1 .. k + 1), k + 1 \in t
  PROVE  Max(t) = k + 1 /\ t \ {Max(t)} \in SUBSET (1 .. k)
<1>1. \A y \in t : y \in 1 .. k + 1 /\ y \in Int
  OBVIOUS
<1>2. \A x \in t : (\A y \in t : x >= y) => x = k + 1
  BY <1>1
<1>3. \A y \in t : k + 1 >= y
  BY <1>1
<1>4. Max(t) = k + 1
  BY <1>2, <1>3 DEF Max
<1>5. \A y \in t \ {k + 1} : y \in 1 .. k
  BY <1>1
<1> QED
  BY <1>4, <1>5

LEMMA Smallest ==
  ASSUME NEW n \in Nat, NEW t \in SUBSET (1 .. n), t # {}
  PROVE  \E x \in t : \A y \in t : x <= y
<1> DEFINE S == {k \in 0 .. n : \A y \in t : y > k}
<1>1. CASE S = 0 .. n
  <2>1. PICK y \in t : y \in 1 .. n
    OBVIOUS
  <2>2. n \in S
    BY <1>1
  <2>3. y > n
    BY <2>2
  <2> QED
    BY <2>1, <2>3
<1>2. CASE S # 0 .. n
  <2>1. 0 \in S /\ S \in SUBSET (0 .. n)
    OBVIOUS
  <2> HIDE DEF S
  <2>2. PICK k \in S : k < n /\ ~ (k + 1 \in S)
    BY <2>1, <1>2, UpTo
  <2>3. PICK x \in t : x <= k + 1
    BY <2>2 DEF S
  <2> QED
    BY <2>2, <2>3 DEF S
<1> QED
  BY <1>1, <1>2

(* FlattenSeq is a recursive function on the length of its argument, one    *)
(* that exists, with sequences as its values.                              *)
LEMMA FlattenSteps ==
  ASSUME NEW X, NEW s \in Seq(Seq(X))
  PROVE  \E f \in [0 .. Len(s) -> Seq(X)] :
           /\ f[0] = <<>> /\ FlattenSeq(s) = f[Len(s)]
           /\ \A i \in 1 .. Len(s) : f[i] = f[i - 1] \o s[i]
<1> DEFINE n == Len(s)
           Rec(k, g) == g = [i \in 1 .. k |-> IF i = 1 THEN s[i] ELSE g[i - 1] \o s[i]]
           S == {k \in 0 .. n : \E g : Rec(k, g)}
<1>1. n \in Nat /\ \A i \in 1 .. n : s[i] \in Seq(X)
  OBVIOUS
<1> HIDE DEF n, Rec
<1>2. S = 0 .. n
  <2>1. 0 \in S
    <3>1. Rec(0, <<>>)
      BY DEF Rec
    <3> QED
      BY <1>1, <3>1
  <2>2. ASSUME NEW k \in S, k < n PROVE k + 1 \in S
    <3>1. PICK g : Rec(k, g)
      OBVIOUS
    <3> DEFINE h == [i \in 1 .. k + 1 |-> IF i = k + 1 THEN IF k = 0 THEN s[1] ELSE g[k] \o s[k + 1]
                                          ELSE g[i]]
    <3>2. Rec(k + 1, h)
      <4>0. k \in Nat
        BY <1>1
      <4>1. ASSUME NEW i \in 1 .. k + 1 PROVE h[i] = IF i = 1 THEN s[i] ELSE h[i - 1] \o s[i]
        <5>1. CASE i = k + 1
          <6>1. CASE k = 0
            BY <5>1, <6>1
          <6>2. CASE k # 0
            <7>1. h[i] = g[k] \o s[i]
              BY <5>1, <6>2
            <7>3. i # 1 /\ i - 1 = k
              BY <4>0, <5>1, <6>2
            <7>2. h[k] = g[k]
              BY <4>0, <6>2
            <7> HIDE DEF h
            <7> QED
              BY <7>1, <7>2, <7>3
          <6> QED
            BY <6>1, <6>2
        <5>2. CASE i # k + 1
          <6>1. i \in 1 .. k /\ h[i] = g[i] /\ (i # 1 => h[i - 1] = g[i - 1])
            BY <4>0, <5>2
          <6>2. g[i] = IF i = 1 THEN s[i] ELSE g[i - 1] \o s[i]
            BY <3>1, <6>1 DEF Rec
          <6> HIDE DEF h
          <6> QED
            BY <6>1, <6>2
        <5> QED
          BY <5>1, <5>2
      <4>2. h = [i \in 1 .. k + 1 |-> h[i]]
        OBVIOUS
      <4> HIDE DEF h
      <4> QED
        BY <4>1, <4>2 DEF Rec
    <3>3. k + 1 \in 0 .. n
      BY <1>1, <2>2
    <3> HIDE DEF h
    <3> QED
      BY <3>2, <3>3
  <2>3. S \in SUBSET (0 .. n)
    OBVIOUS
  <2> HIDE DEF S
  <2> QED
    BY <1>1, <2>1, <2>2, <2>3, UpTo
<1> DEFINE g == CHOOSE h : Rec(n, h)
           f == [i \in 0 .. n |-> IF i = 0 THEN <<>> ELSE g[i]]
<1>3. Rec(n, g)
  <2>1. n \in 0 .. n
    BY <1>1
  <2>2. n \in S
    BY <1>2, <2>1
  <2> QED
    BY <2>2
<1>4. FlattenSeq(s) = f[n]
  <2>1. CASE n = 0
    <3>1. s = <<>>
      BY <2>1 DEF n
    <3> QED
      BY <2>1, <3>1 DEF FlattenSeq
  <2>2. CASE n # 0
    <3>1. FlattenSeq(s) = g[n]
      BY <2>2 DEF FlattenSeq, n, Rec
    <3> HIDE DEF g
    <3> QED
      BY <1>1, <2>2, <3>1
  <2> QED
    BY <2>1, <2>2
<1> HIDE DEF g
<1>5. \A i \in 1 .. n : f[i] = f[i - 1] \o s[i]
  <2> TAKE i \in 1 .. n
  <2>1. g[i] = IF i = 1 THEN s[i] ELSE g[i - 1] \o s[i]
    BY <1>3 DEF Rec
  <2>2. i \in Nat /\ f[i] = g[i] /\ f[i - 1] = IF i = 1 THEN <<>> ELSE g[i - 1]
    BY <1>1
  <2>3. s[i] \in Seq(X)
    BY <1>1
  <2>4. <<>> \o s[i] = s[i]
    BY <2>3, ConcatEmptySeq
  <2> HIDE DEF f
  <2> QED
    BY <2>1, <2>2, <2>4
<1>6. f[0] = <<>>
  BY <1>1
<1>7. DOMAIN f = 0 .. n
  OBVIOUS
<1>8. f = [i \in 0 .. n |-> f[i]]
  OBVIOUS
<1> HIDE DEF f
<1>9. \A i \in 0 .. n : f[i] \in Seq(X)
  <2> DEFINE T == {i \in 0 .. n : f[i] \in Seq(X)}
  <2>0. 0 \in 0 .. n /\ <<>> \in Seq(X)
    BY <1>1, EmptySeq
  <2>1. 0 \in T /\ T \in SUBSET (0 .. n)
    BY <1>6, <2>0
  <2>2. ASSUME NEW k \in T, k < n PROVE k + 1 \in T
    <3>1. k + 1 \in 1 .. n /\ k + 1 \in 0 .. n /\ (k + 1) - 1 = k /\ f[k] \in Seq(X)
      BY <1>1, <2>2
    <3>2. f[k + 1] = f[k] \o s[k + 1] /\ s[k + 1] \in Seq(X)
      BY <1>1, <1>5, <3>1
    <3>3. f[k + 1] \in Seq(X)
      BY <3>1, <3>2, ConcatProperties
    <3> QED
      BY <3>1, <3>3
  <2> HIDE DEF T
  <2>3. T = 0 .. n
    BY <1>1, <2>1, <2>2, UpTo
  <2> QED
    BY <2>3 DEF T
<1>10. f \in [0 .. n -> Seq(X)]
  BY <1>8, <1>9
<1> QED
  BY <1>4, <1>5, <1>6, <1>10 DEF n

(* FlattenSeq lays sequences end to end. *)
LEMMA FlattenEmpty == FlattenSeq(<<>>) = <<>>
BY DEF FlattenSeq

LEMMA FlattenTyped == ASSUME NEW X, NEW s \in Seq(Seq(X)) PROVE FlattenSeq(s) \in Seq(X)
<1>1. PICK f \in [0 .. Len(s) -> Seq(X)] : FlattenSeq(s) = f[Len(s)]
  BY FlattenSteps
<1> QED
  BY <1>1

LEMMA FlattenAppend ==
  ASSUME NEW X, NEW s \in Seq(Seq(X)), NEW b \in Seq(X)
  PROVE  FlattenSeq(Append(s, b)) = FlattenSeq(s) \o b
<1> DEFINE n == Len(s)
           r == Append(s, b)
<1>1. n \in Nat /\ r \in Seq(Seq(X)) /\ Len(r) = n + 1 /\ r[n + 1] = b /\ \A i \in 1 .. n : r[i] = s[i]
  OBVIOUS
<1>2. PICK f \in [0 .. n -> Seq(X)] : /\ f[0] = <<>> /\ FlattenSeq(s) = f[n]
                                      /\ \A i \in 1 .. n : f[i] = f[i - 1] \o s[i]
  BY FlattenSteps
<1>3. PICK g \in [0 .. n + 1 -> Seq(X)] : /\ g[0] = <<>> /\ FlattenSeq(r) = g[n + 1]
                                          /\ \A i \in 1 .. n + 1 : g[i] = g[i - 1] \o r[i]
  <2> HIDE DEF r, n
  <2>1. \E g \in [0 .. Len(r) -> Seq(X)] : /\ g[0] = <<>> /\ FlattenSeq(r) = g[Len(r)]
                                          /\ \A i \in 1 .. Len(r) : g[i] = g[i - 1] \o r[i]
    BY <1>1, FlattenSteps
  <2> QED
    BY <1>1, <2>1
<1> HIDE DEF r, n
<1>4. \A i \in 0 .. n : f[i] = g[i]
  <2> DEFINE S == {i \in 0 .. n : f[i] = g[i]}
  <2>1. 0 \in S /\ S \in SUBSET (0 .. n)
    BY <1>1, <1>2, <1>3
  <2>2. ASSUME NEW k \in S, k < n PROVE k + 1 \in S
    <3> DEFINE i == k + 1
    <3>1. i \in 1 .. n /\ i \in 1 .. n + 1 /\ i - 1 = k /\ i \in 0 .. n
      BY <1>1, <2>2
    <3>2. f[k] = g[k]
      OBVIOUS
    <3> HIDE DEF i
    <3>3. r[i] = s[i]
      BY <1>1, <3>1
    <3>4. f[i] = f[i - 1] \o s[i] /\ g[i] = g[i - 1] \o r[i]
      BY <1>2, <1>3, <3>1
    <3>5. f[i] = g[i]
      BY <3>1, <3>2, <3>3, <3>4
    <3>6. i \in S
      BY <3>1, <3>5
    <3> QED
      BY <3>6 DEF i
  <2>3. S = 0 .. n
    <3> HIDE DEF S
    <3> QED
      BY <1>1, <2>1, <2>2, UpTo
  <2> QED
    BY <2>3
<1>5. n \in 0 .. n /\ n + 1 \in 1 .. n + 1 /\ (n + 1) - 1 = n
  <2>1. n \in Nat
    BY <1>1
  <2> HIDE <1>1, <1>2, <1>3
  <2> QED
    BY <2>1
<1>6. g[n + 1] = g[n] \o r[n + 1]
  BY <1>3, <1>5
<1> QED
  BY <1>1, <1>2, <1>3, <1>4, <1>5, <1>6 DEF r

-----------------------------------------------------------------------------
(* What each fold of Xargs computes, one element after the other: the      *)
(* recursive function behind FoldLeft exists, and its values at 1 .. i are *)
(* the stages of the loop.                                                 *)

LEMMA LineItemSteps ==
  ASSUME NEW n \in Nat, NEW s, DOMAIN s = 1 .. n
  PROVE  \E f : /\ f[0] = -1 /\ LineItem(s) = f[n]
                /\ \A i \in 1 .. n : f[i] = f[i - 1] + s[i] + 1
<1> DEFINE Rec(k, g) ==
             g = [t \in SUBSET (1 .. k) |->
                    IF t = {} THEN -1 ELSE g[t \ {Max(t)}] + s[Max(t)] + 1]
           S == {k \in 0 .. n : \E g : Rec(k, g)}
<1> HIDE DEF Rec
<1>1. S = 0 .. n
  <2>1. 0 \in S
    <3>1. Rec(0, [t \in {{}} |-> -1])
      <4>1. SUBSET (1 .. 0) = {{}}
        OBVIOUS
      <4> QED
        BY <4>1 DEF Rec
    <3> QED
      BY <3>1
  <2>2. ASSUME NEW k \in S, k < n PROVE k + 1 \in S
    <3>1. PICK g : Rec(k, g)
      OBVIOUS
    <3> DEFINE h == [t \in SUBSET (1 .. k + 1) |->
                       IF k + 1 \in t THEN g[t \ {k + 1}] + s[k + 1] + 1 ELSE g[t]]
    <3>2. k \in Nat /\ k + 1 \in 0 .. n
      BY <2>2
    <3>3. ASSUME NEW t \in SUBSET (1 .. k + 1)
          PROVE  h[t] = IF t = {} THEN -1 ELSE h[t \ {Max(t)}] + s[Max(t)] + 1
      <4>1. CASE k + 1 \in t
        <5>1. Max(t) = k + 1 /\ t \ {k + 1} \in SUBSET (1 .. k)
          BY <3>2, <4>1, MaxWithLast
        <5>2. h[t] = g[t \ {k + 1}] + s[k + 1] + 1
          BY <4>1
        <5>3. h[t \ {k + 1}] = g[t \ {k + 1}]
          BY <3>2, <5>1
        <5> HIDE DEF h
        <5> QED
          BY <4>1, <5>1, <5>2, <5>3
      <4>2. CASE ~ (k + 1 \in t)
        <5>1. \A u \in SUBSET (1 .. k) : h[u] = g[u]
          BY <3>2
        <5>2. t \in SUBSET (1 .. k)
          <6>1. \A x \in t : x \in 1 .. k + 1 /\ x # k + 1
            BY <4>2
          <6>2. \A x \in t : x \in 1 .. k
            BY <3>2, <6>1
          <6> QED
            BY <6>2
        <5>3. t \ {Max(t)} \in SUBSET (1 .. k)
          BY <5>2
        <5>4. g[t] = IF t = {} THEN -1 ELSE g[t \ {Max(t)}] + s[Max(t)] + 1
          BY <3>1, <5>2 DEF Rec
        <5> HIDE DEF h
        <5> QED
          BY <5>1, <5>2, <5>3, <5>4
      <4> QED
        BY <4>1, <4>2
    <3>4. h = [t \in SUBSET (1 .. k + 1) |-> h[t]]
      OBVIOUS
    <3> HIDE DEF h
    <3>5. Rec(k + 1, h)
      BY <3>3, <3>4 DEF Rec
    <3> QED
      BY <3>2, <3>5
  <2>3. S \in SUBSET (0 .. n)
    OBVIOUS
  <2> HIDE DEF S
  <2> QED
    BY <2>1, <2>2, <2>3, UpTo
<1> DEFINE g == CHOOSE h : Rec(n, h)
           f == [i \in 0 .. n |-> g[1 .. i]]
<1>2. Rec(n, g)
  <2>1. n \in 0 .. n
    OBVIOUS
  <2>2. n \in S
    BY <1>1, <2>1
  <2> QED
    BY <2>2
<1>3. LineItem(s) = g[1 .. n]
  BY DEF LineItem, FoldLeft, MapThenFoldSet, Rec
<1> HIDE DEF g
<1>4. f[0] = -1
  <2>1. f[0] = g[{}]
    OBVIOUS
  <2> QED
    BY <1>2, <2>1 DEF Rec
<1>5. f[n] = g[1 .. n]
  OBVIOUS
<1>6. ASSUME NEW i \in 1 .. n PROVE f[i] = f[i - 1] + s[i] + 1
  <2> DEFINE j == i - 1
  <2>1. j \in Nat /\ j + 1 = i /\ i \in 1 .. i
    OBVIOUS
  <2>2. Max(1 .. i) = i /\ (1 .. i) \ {i} = 1 .. j
    <3>1. (1 .. j + 1) \in SUBSET (1 .. j + 1) /\ j + 1 \in 1 .. j + 1
      BY <2>1
    <3>2. (1 .. i) \ {i} = 1 .. j
      BY <2>1
    <3> HIDE DEF j
    <3> QED
      BY <2>1, <3>1, <3>2, MaxWithLast
  <2>3. g[1 .. i] = g[1 .. j] + s[i] + 1
    <3>1. 1 .. i \in SUBSET (1 .. n)
      OBVIOUS
    <3>3. 1 .. i # {}
      BY <2>1
    <3>2. \A t \in SUBSET (1 .. n) : t # {} => g[t] = g[t \ {Max(t)}] + s[Max(t)] + 1
      BY <1>2 DEF Rec
    <3> QED
      BY <2>2, <3>1, <3>2, <3>3
  <2>4. f[i] = g[1 .. i] /\ f[i - 1] = g[1 .. j]
    OBVIOUS
  <2> QED
    BY <2>3, <2>4
<1> QED
  BY <1>3, <1>4, <1>5, <1>6

LEMMA WholeLinesSteps ==
  ASSUME NEW n \in Nat, NEW s, DOMAIN s = 1 .. n
  PROVE  \E f : /\ f[0] = <<>> /\ WholeLines(s) = f[n]
                /\ \A i \in 1 .. n : f[i] = AddLine(f[i - 1], s[i])
<1> DEFINE Rec(k, g) ==
             g = [t \in SUBSET (1 .. k) |->
                    IF t = {} THEN <<>> ELSE AddLine(g[t \ {Max(t)}], s[Max(t)])]
           S == {k \in 0 .. n : \E g : Rec(k, g)}
<1> HIDE DEF Rec
<1>1. S = 0 .. n
  <2>1. 0 \in S
    <3>1. Rec(0, [t \in {{}} |-> <<>>])
      <4>1. SUBSET (1 .. 0) = {{}}
        OBVIOUS
      <4> QED
        BY <4>1 DEF Rec
    <3> QED
      BY <3>1
  <2>2. ASSUME NEW k \in S, k < n PROVE k + 1 \in S
    <3>1. PICK g : Rec(k, g)
      OBVIOUS
    <3> DEFINE h == [t \in SUBSET (1 .. k + 1) |->
                       IF k + 1 \in t THEN AddLine(g[t \ {k + 1}], s[k + 1]) ELSE g[t]]
    <3>2. k \in Nat /\ k + 1 \in 0 .. n
      BY <2>2
    <3>3. ASSUME NEW t \in SUBSET (1 .. k + 1)
          PROVE  h[t] = IF t = {} THEN <<>> ELSE AddLine(h[t \ {Max(t)}], s[Max(t)])
      <4>1. CASE k + 1 \in t
        <5>1. Max(t) = k + 1 /\ t \ {k + 1} \in SUBSET (1 .. k)
          BY <3>2, <4>1, MaxWithLast
        <5>2. h[t] = AddLine(g[t \ {k + 1}], s[k + 1])
          BY <4>1
        <5>3. h[t \ {k + 1}] = g[t \ {k + 1}]
          BY <3>2, <5>1
        <5> HIDE DEF h
        <5> QED
          BY <4>1, <5>1, <5>2, <5>3
      <4>2. CASE ~ (k + 1 \in t)
        <5>1. \A u \in SUBSET (1 .. k) : h[u] = g[u]
          BY <3>2
        <5>2. t \in SUBSET (1 .. k)
          <6>1. \A x \in t : x \in 1 .. k + 1 /\ x # k + 1
            BY <4>2
          <6>2. \A x \in t : x \in 1 .. k
            BY <3>2, <6>1
          <6> QED
            BY <6>2
        <5>3. t \ {Max(t)} \in SUBSET (1 .. k)
          BY <5>2
        <5>4. g[t] = IF t = {} THEN <<>> ELSE AddLine(g[t \ {Max(t)}], s[Max(t)])
          BY <3>1, <5>2 DEF Rec
        <5> HIDE DEF h
        <5> QED
          BY <5>1, <5>2, <5>3, <5>4
      <4> QED
        BY <4>1, <4>2
    <3>4. h = [t \in SUBSET (1 .. k + 1) |-> h[t]]
      OBVIOUS
    <3> HIDE DEF h
    <3>5. Rec(k + 1, h)
      BY <3>3, <3>4 DEF Rec
    <3> QED
      BY <3>2, <3>5
  <2>3. S \in SUBSET (0 .. n)
    OBVIOUS
  <2> HIDE DEF S
  <2> QED
    BY <2>1, <2>2, <2>3, UpTo
<1> DEFINE g == CHOOSE h : Rec(n, h)
           f == [i \in 0 .. n |-> g[1 .. i]]
<1>2. Rec(n, g)
  <2>1. n \in 0 .. n
    OBVIOUS
  <2>2. n \in S
    BY <1>1, <2>1
  <2> QED
    BY <2>2
<1>3. WholeLines(s) = g[1 .. n]
  BY DEF WholeLines, FoldLeft, MapThenFoldSet, Rec
<1> HIDE DEF g
<1>4. f[0] = <<>>
  <2>1. f[0] = g[{}]
    OBVIOUS
  <2> QED
    BY <1>2, <2>1 DEF Rec
<1>5. f[n] = g[1 .. n]
  OBVIOUS
<1>6. ASSUME NEW i \in 1 .. n PROVE f[i] = AddLine(f[i - 1], s[i])
  <2> DEFINE j == i - 1
  <2>1. j \in Nat /\ j + 1 = i /\ i \in 1 .. i
    OBVIOUS
  <2>2. Max(1 .. i) = i /\ (1 .. i) \ {i} = 1 .. j
    <3>1. (1 .. j + 1) \in SUBSET (1 .. j + 1) /\ j + 1 \in 1 .. j + 1
      BY <2>1
    <3>2. (1 .. i) \ {i} = 1 .. j
      BY <2>1
    <3> HIDE DEF j
    <3> QED
      BY <2>1, <3>1, <3>2, MaxWithLast
  <2>3. g[1 .. i] = AddLine(g[1 .. j], s[i])
    <3>1. 1 .. i \in SUBSET (1 .. n)
      OBVIOUS
    <3>3. 1 .. i # {}
      BY <2>1
    <3>2. \A t \in SUBSET (1 .. n) : t # {} => g[t] = AddLine(g[t \ {Max(t)}], s[Max(t)])
      BY <1>2 DEF Rec
    <3> QED
      BY <2>2, <3>1, <3>2, <3>3
  <2>4. f[i] = g[1 .. i] /\ f[i - 1] = g[1 .. j]
    OBVIOUS
  <2> QED
    BY <2>3, <2>4
<1> QED
  BY <1>3, <1>4, <1>5, <1>6

LEMMA ParsedSteps ==
  ASSUME NEW n \in Nat, NEW s, DOMAIN s = 1 .. n
  PROVE  \E f : /\ f[0] = Defaults /\ Parsed(s) = f[n]
                /\ \A i \in 1 .. n : f[i] = OptionSet(f[i - 1], s[i])
<1> DEFINE Rec(k, g) ==
             g = [t \in SUBSET (1 .. k) |->
                    IF t = {} THEN Defaults ELSE OptionSet(g[t \ {Max(t)}], s[Max(t)])]
           S == {k \in 0 .. n : \E g : Rec(k, g)}
<1> HIDE DEF Rec
<1>1. S = 0 .. n
  <2>1. 0 \in S
    <3>1. Rec(0, [t \in {{}} |-> Defaults])
      <4>1. SUBSET (1 .. 0) = {{}}
        OBVIOUS
      <4> QED
        BY <4>1 DEF Rec
    <3> QED
      BY <3>1
  <2>2. ASSUME NEW k \in S, k < n PROVE k + 1 \in S
    <3>1. PICK g : Rec(k, g)
      OBVIOUS
    <3> DEFINE h == [t \in SUBSET (1 .. k + 1) |->
                       IF k + 1 \in t THEN OptionSet(g[t \ {k + 1}], s[k + 1]) ELSE g[t]]
    <3>2. k \in Nat /\ k + 1 \in 0 .. n
      BY <2>2
    <3>3. ASSUME NEW t \in SUBSET (1 .. k + 1)
          PROVE  h[t] = IF t = {} THEN Defaults ELSE OptionSet(h[t \ {Max(t)}], s[Max(t)])
      <4>1. CASE k + 1 \in t
        <5>1. Max(t) = k + 1 /\ t \ {k + 1} \in SUBSET (1 .. k)
          BY <3>2, <4>1, MaxWithLast
        <5>2. h[t] = OptionSet(g[t \ {k + 1}], s[k + 1])
          BY <4>1
        <5>3. h[t \ {k + 1}] = g[t \ {k + 1}]
          BY <3>2, <5>1
        <5> HIDE DEF h
        <5> QED
          BY <4>1, <5>1, <5>2, <5>3
      <4>2. CASE ~ (k + 1 \in t)
        <5>1. \A u \in SUBSET (1 .. k) : h[u] = g[u]
          BY <3>2
        <5>2. t \in SUBSET (1 .. k)
          <6>1. \A x \in t : x \in 1 .. k + 1 /\ x # k + 1
            BY <4>2
          <6>2. \A x \in t : x \in 1 .. k
            BY <3>2, <6>1
          <6> QED
            BY <6>2
        <5>3. t \ {Max(t)} \in SUBSET (1 .. k)
          BY <5>2
        <5>4. g[t] = IF t = {} THEN Defaults ELSE OptionSet(g[t \ {Max(t)}], s[Max(t)])
          BY <3>1, <5>2 DEF Rec
        <5> HIDE DEF h
        <5> QED
          BY <5>1, <5>2, <5>3, <5>4
      <4> QED
        BY <4>1, <4>2
    <3>4. h = [t \in SUBSET (1 .. k + 1) |-> h[t]]
      OBVIOUS
    <3> HIDE DEF h
    <3>5. Rec(k + 1, h)
      BY <3>3, <3>4 DEF Rec
    <3> QED
      BY <3>2, <3>5
  <2>3. S \in SUBSET (0 .. n)
    OBVIOUS
  <2> HIDE DEF S
  <2> QED
    BY <2>1, <2>2, <2>3, UpTo
<1> DEFINE g == CHOOSE h : Rec(n, h)
           f == [i \in 0 .. n |-> g[1 .. i]]
<1>2. Rec(n, g)
  <2>1. n \in 0 .. n
    OBVIOUS
  <2>2. n \in S
    BY <1>1, <2>1
  <2> QED
    BY <2>2
<1>3. Parsed(s) = g[1 .. n]
  BY DEF Parsed, FoldLeft, MapThenFoldSet, Rec
<1> HIDE DEF g
<1>4. f[0] = Defaults
  <2>1. f[0] = g[{}]
    OBVIOUS
  <2> QED
    BY <1>2, <2>1 DEF Rec
<1>5. f[n] = g[1 .. n]
  OBVIOUS
<1>6. ASSUME NEW i \in 1 .. n PROVE f[i] = OptionSet(f[i - 1], s[i])
  <2> DEFINE j == i - 1
  <2>1. j \in Nat /\ j + 1 = i /\ i \in 1 .. i
    OBVIOUS
  <2>2. Max(1 .. i) = i /\ (1 .. i) \ {i} = 1 .. j
    <3>1. (1 .. j + 1) \in SUBSET (1 .. j + 1) /\ j + 1 \in 1 .. j + 1
      BY <2>1
    <3>2. (1 .. i) \ {i} = 1 .. j
      BY <2>1
    <3> HIDE DEF j
    <3> QED
      BY <2>1, <3>1, <3>2, MaxWithLast
  <2>3. g[1 .. i] = OptionSet(g[1 .. j], s[i])
    <3>1. 1 .. i \in SUBSET (1 .. n)
      OBVIOUS
    <3>3. 1 .. i # {}
      BY <2>1
    <3>2. \A t \in SUBSET (1 .. n) : t # {} => g[t] = OptionSet(g[t \ {Max(t)}], s[Max(t)])
      BY <1>2 DEF Rec
    <3> QED
      BY <2>2, <3>1, <3>2, <3>3
  <2>4. f[i] = g[1 .. i] /\ f[i - 1] = g[1 .. j]
    OBVIOUS
  <2> QED
    BY <2>3, <2>4
<1> QED
  BY <1>3, <1>4, <1>5, <1>6

NothingJoined == [held |-> <<>>, open |-> FALSE, lines |-> <<>>, quote |-> FALSE]
Physical(data) == data.lines \o IF data.ended THEN <<Blank>> ELSE <<>>
LEMMA JoinedSteps ==
  ASSUME NEW n \in Nat, NEW s, DOMAIN s = 1 .. n,
         NEW data, s = Physical(data)
  PROVE  \E f : /\ f[0] = NothingJoined /\ Joined(data) = f[n]
                /\ \A i \in 1 .. n : f[i] = JoinStep(f[i - 1], s[i])
<1> DEFINE Rec(k, g) ==
             g = [t \in SUBSET (1 .. k) |->
                    IF t = {} THEN NothingJoined ELSE JoinStep(g[t \ {Max(t)}], s[Max(t)])]
           S == {k \in 0 .. n : \E g : Rec(k, g)}
<1> HIDE DEF Rec
<1>1. S = 0 .. n
  <2>1. 0 \in S
    <3>1. Rec(0, [t \in {{}} |-> NothingJoined])
      <4>1. SUBSET (1 .. 0) = {{}}
        OBVIOUS
      <4> QED
        BY <4>1 DEF Rec
    <3> QED
      BY <3>1
  <2>2. ASSUME NEW k \in S, k < n PROVE k + 1 \in S
    <3>1. PICK g : Rec(k, g)
      OBVIOUS
    <3> DEFINE h == [t \in SUBSET (1 .. k + 1) |->
                       IF k + 1 \in t THEN JoinStep(g[t \ {k + 1}], s[k + 1]) ELSE g[t]]
    <3>2. k \in Nat /\ k + 1 \in 0 .. n
      BY <2>2
    <3>3. ASSUME NEW t \in SUBSET (1 .. k + 1)
          PROVE  h[t] = IF t = {} THEN NothingJoined ELSE JoinStep(h[t \ {Max(t)}], s[Max(t)])
      <4>1. CASE k + 1 \in t
        <5>1. Max(t) = k + 1 /\ t \ {k + 1} \in SUBSET (1 .. k)
          BY <3>2, <4>1, MaxWithLast
        <5>2. h[t] = JoinStep(g[t \ {k + 1}], s[k + 1])
          BY <4>1
        <5>3. h[t \ {k + 1}] = g[t \ {k + 1}]
          BY <3>2, <5>1
        <5> HIDE DEF h
        <5> QED
          BY <4>1, <5>1, <5>2, <5>3
      <4>2. CASE ~ (k + 1 \in t)
        <5>1. \A u \in SUBSET (1 .. k) : h[u] = g[u]
          BY <3>2
        <5>2. t \in SUBSET (1 .. k)
          <6>1. \A x \in t : x \in 1 .. k + 1 /\ x # k + 1
            BY <4>2
          <6>2. \A x \in t : x \in 1 .. k
            BY <3>2, <6>1
          <6> QED
            BY <6>2
        <5>3. t \ {Max(t)} \in SUBSET (1 .. k)
          BY <5>2
        <5>4. g[t] = IF t = {} THEN NothingJoined ELSE JoinStep(g[t \ {Max(t)}], s[Max(t)])
          BY <3>1, <5>2 DEF Rec
        <5> HIDE DEF h
        <5> QED
          BY <5>1, <5>2, <5>3, <5>4
      <4> QED
        BY <4>1, <4>2
    <3>4. h = [t \in SUBSET (1 .. k + 1) |-> h[t]]
      OBVIOUS
    <3> HIDE DEF h
    <3>5. Rec(k + 1, h)
      BY <3>3, <3>4 DEF Rec
    <3> QED
      BY <3>2, <3>5
  <2>3. S \in SUBSET (0 .. n)
    OBVIOUS
  <2> HIDE DEF S
  <2> QED
    BY <2>1, <2>2, <2>3, UpTo
<1> DEFINE g == CHOOSE h : Rec(n, h)
           f == [i \in 0 .. n |-> g[1 .. i]]
<1>2. Rec(n, g)
  <2>1. n \in 0 .. n
    OBVIOUS
  <2>2. n \in S
    BY <1>1, <2>1
  <2> QED
    BY <2>2
<1>3. Joined(data) = g[1 .. n]
  BY DEF Joined, Physical, NothingJoined, FoldLeft, MapThenFoldSet, Rec
<1> HIDE DEF g
<1>4. f[0] = NothingJoined
  <2>1. f[0] = g[{}]
    OBVIOUS
  <2> QED
    BY <1>2, <2>1 DEF Rec
<1>5. f[n] = g[1 .. n]
  OBVIOUS
<1>6. ASSUME NEW i \in 1 .. n PROVE f[i] = JoinStep(f[i - 1], s[i])
  <2> DEFINE j == i - 1
  <2>1. j \in Nat /\ j + 1 = i /\ i \in 1 .. i
    OBVIOUS
  <2>2. Max(1 .. i) = i /\ (1 .. i) \ {i} = 1 .. j
    <3>1. (1 .. j + 1) \in SUBSET (1 .. j + 1) /\ j + 1 \in 1 .. j + 1
      BY <2>1
    <3>2. (1 .. i) \ {i} = 1 .. j
      BY <2>1
    <3> HIDE DEF j
    <3> QED
      BY <2>1, <3>1, <3>2, MaxWithLast
  <2>3. g[1 .. i] = JoinStep(g[1 .. j], s[i])
    <3>1. 1 .. i \in SUBSET (1 .. n)
      OBVIOUS
    <3>3. 1 .. i # {}
      BY <2>1
    <3>2. \A t \in SUBSET (1 .. n) : t # {} => g[t] = JoinStep(g[t \ {Max(t)}], s[Max(t)])
      BY <1>2 DEF Rec
    <3> QED
      BY <2>2, <3>1, <3>2, <3>3
  <2>4. f[i] = g[1 .. i] /\ f[i - 1] = g[1 .. j]
    OBVIOUS
  <2> QED
    BY <2>3, <2>4
<1> QED
  BY <1>3, <1>4, <1>5, <1>6

Most(c, items) == IF c.I THEN 1 ELSE IF c.n = 0 THEN Len(items) ELSE c.n
NoBatch == [done |-> <<>>, current |-> <<>>, len |-> Prefix, used |-> 0]
BatchLoop(c, items, ends, n, f) ==
  /\ f[0] = NoBatch
  /\ items # <<>> => Batches(c, items, ends) = Append(f[n].done, f[n].current)
  /\ \A i \in 1 .. n : f[i] = BatchStep(items, ends, Most(c, items), c.L, c.s, f[i - 1], i)

LEMMA BatchSteps ==
  ASSUME NEW n \in Nat, NEW c, NEW items, NEW ends, DOMAIN items = 1 .. n
  PROVE  \E f : BatchLoop(c, items, ends, n, f)
<1> DEFINE s == [i \in DOMAIN items |-> i]
           Rec(k, g) ==
             g = [t \in SUBSET (1 .. k) |->
                    IF t = {} THEN NoBatch ELSE BatchStep(items, ends, Most(c, items), c.L, c.s, g[t \ {Max(t)}], s[Max(t)])]
           S == {k \in 0 .. n : \E g : Rec(k, g)}
<1>0. s = [i \in DOMAIN items |-> i] /\ DOMAIN s = 1 .. n /\ \A i \in 1 .. n : s[i] = i
  OBVIOUS
<1> HIDE DEF Rec, s
<1>1. S = 0 .. n
  <2>1. 0 \in S
    <3>1. Rec(0, [t \in {{}} |-> NoBatch])
      <4>1. SUBSET (1 .. 0) = {{}}
        OBVIOUS
      <4> QED
        BY <4>1 DEF Rec
    <3> QED
      BY <3>1
  <2>2. ASSUME NEW k \in S, k < n PROVE k + 1 \in S
    <3>1. PICK g : Rec(k, g)
      OBVIOUS
    <3> DEFINE h == [t \in SUBSET (1 .. k + 1) |->
                       IF k + 1 \in t THEN BatchStep(items, ends, Most(c, items), c.L, c.s, g[t \ {k + 1}], s[k + 1]) ELSE g[t]]
    <3>2. k \in Nat /\ k + 1 \in 0 .. n
      BY <2>2
    <3>3. ASSUME NEW t \in SUBSET (1 .. k + 1)
          PROVE  h[t] = IF t = {} THEN NoBatch ELSE BatchStep(items, ends, Most(c, items), c.L, c.s, h[t \ {Max(t)}], s[Max(t)])
      <4>1. CASE k + 1 \in t
        <5>1. Max(t) = k + 1 /\ t \ {k + 1} \in SUBSET (1 .. k)
          BY <3>2, <4>1, MaxWithLast
        <5>2. h[t] = BatchStep(items, ends, Most(c, items), c.L, c.s, g[t \ {k + 1}], s[k + 1])
          BY <4>1
        <5>3. h[t \ {k + 1}] = g[t \ {k + 1}]
          BY <3>2, <5>1
        <5> HIDE DEF h
        <5> QED
          BY <4>1, <5>1, <5>2, <5>3
      <4>2. CASE ~ (k + 1 \in t)
        <5>1. \A u \in SUBSET (1 .. k) : h[u] = g[u]
          BY <3>2
        <5>2. t \in SUBSET (1 .. k)
          <6>1. \A x \in t : x \in 1 .. k + 1 /\ x # k + 1
            BY <4>2
          <6>2. \A x \in t : x \in 1 .. k
            BY <3>2, <6>1
          <6> QED
            BY <6>2
        <5>3. t \ {Max(t)} \in SUBSET (1 .. k)
          BY <5>2
        <5>4. g[t] = IF t = {} THEN NoBatch ELSE BatchStep(items, ends, Most(c, items), c.L, c.s, g[t \ {Max(t)}], s[Max(t)])
          BY <3>1, <5>2 DEF Rec
        <5> HIDE DEF h
        <5> QED
          BY <5>1, <5>2, <5>3, <5>4
      <4> QED
        BY <4>1, <4>2
    <3>4. h = [t \in SUBSET (1 .. k + 1) |-> h[t]]
      OBVIOUS
    <3> HIDE DEF h
    <3>5. Rec(k + 1, h)
      BY <3>3, <3>4 DEF Rec
    <3> QED
      BY <3>2, <3>5
  <2>3. S \in SUBSET (0 .. n)
    OBVIOUS
  <2> HIDE DEF S
  <2> QED
    BY <2>1, <2>2, <2>3, UpTo
<1> DEFINE g == CHOOSE h : Rec(n, h)
           f == [i \in 0 .. n |-> g[1 .. i]]
<1>2. Rec(n, g)
  <2>1. n \in 0 .. n
    OBVIOUS
  <2>2. n \in S
    BY <1>1, <2>1
  <2> QED
    BY <2>2
<1>3. (items # <<>> => Batches(c, items, ends) = Append(g[1 .. n].done, g[1 .. n].current))
  BY <1>0 DEF Batches, Most, NoBatch, FoldLeft, MapThenFoldSet, Rec
<1> HIDE DEF g
<1>4. f[0] = NoBatch
  <2>1. f[0] = g[{}]
    OBVIOUS
  <2> QED
    BY <1>2, <2>1 DEF Rec
<1>5. f[n] = g[1 .. n]
  OBVIOUS
<1>6. ASSUME NEW i \in 1 .. n PROVE f[i] = BatchStep(items, ends, Most(c, items), c.L, c.s, f[i - 1], s[i])
  <2> DEFINE j == i - 1
  <2>1. j \in Nat /\ j + 1 = i /\ i \in 1 .. i
    OBVIOUS
  <2>2. Max(1 .. i) = i /\ (1 .. i) \ {i} = 1 .. j
    <3>1. (1 .. j + 1) \in SUBSET (1 .. j + 1) /\ j + 1 \in 1 .. j + 1
      BY <2>1
    <3>2. (1 .. i) \ {i} = 1 .. j
      BY <2>1
    <3> HIDE DEF j
    <3> QED
      BY <2>1, <3>1, <3>2, MaxWithLast
  <2>3. g[1 .. i] = BatchStep(items, ends, Most(c, items), c.L, c.s, g[1 .. j], s[i])
    <3>1. 1 .. i \in SUBSET (1 .. n)
      OBVIOUS
    <3>3. 1 .. i # {}
      BY <2>1
    <3>2. \A t \in SUBSET (1 .. n) : t # {} => g[t] = BatchStep(items, ends, Most(c, items), c.L, c.s, g[t \ {Max(t)}], s[Max(t)])
      BY <1>2 DEF Rec
    <3> QED
      BY <2>2, <3>1, <3>2, <3>3
  <2>4. f[i] = g[1 .. i] /\ f[i - 1] = g[1 .. j]
    OBVIOUS
  <2> QED
    BY <2>3, <2>4
<1> HIDE DEF f
<1>7. \A i \in 1 .. n : f[i] = BatchStep(items, ends, Most(c, items), c.L, c.s, f[i - 1], i)
  BY <1>0, <1>6
<1> QED
  BY <1>3, <1>4, <1>5, <1>7 DEF BatchLoop

-----------------------------------------------------------------------------
(* Items and command lines. *)

LEMMA Extended ==
  ASSUME NEW X, NEW s \in Seq(X), NEW i \in 1 .. Len(s)
  PROVE  SubSeq(s, 1, i) = SubSeq(s, 1, i - 1) \o <<s[i]>>
OBVIOUS

(* The length of a line with one more item.                                *)
LEMMA LineItemGrows ==
  ASSUME NEW b \in Seq(Int)
  PROVE  /\ LineItem(<<>>) = -1 /\ LineItem(b) \in Int
         /\ \A x \in Int : LineItem(Append(b, x)) = LineItem(b) + x + 1
<1>1. LineItem(<<>>) = -1
  <2>1. DOMAIN <<>> = 1 .. 0
    OBVIOUS
  <2>2. \E f : f[0] = -1 /\ LineItem(<<>>) = f[0]
    BY <2>1, LineItemSteps
  <2> QED
    BY <2>2
<1> DEFINE n == Len(b)
<1>2. n \in Nat /\ DOMAIN b = 1 .. n /\ \A i \in 1 .. n : b[i] \in Int
  OBVIOUS
<1> HIDE DEF n
<1>3. PICK f : /\ f[0] = -1 /\ LineItem(b) = f[n]
               /\ \A i \in 1 .. n : f[i] = f[i - 1] + b[i] + 1
  BY <1>2, LineItemSteps
<1>4. \A i \in 0 .. n : f[i] \in Int
  <2> DEFINE T == {i \in 0 .. n : f[i] \in Int}
  <2>1. 0 \in T /\ T \in SUBSET (0 .. n)
    BY <1>2, <1>3
  <2>2. ASSUME NEW k \in T, k < n PROVE k + 1 \in T
    <3> DEFINE i == k + 1
    <3>1. i \in 1 .. n /\ i \in 0 .. n /\ i - 1 = k
      BY <1>2, <2>2
    <3>2. f[k] \in Int
      OBVIOUS
    <3> HIDE DEF i
    <3>3. f[i] = f[k] + b[i] + 1 /\ b[i] \in Int
      BY <1>2, <1>3, <3>1
    <3>4. i \in T
      BY <3>1, <3>2, <3>3
    <3> QED
      BY <3>4 DEF i
  <2> HIDE DEF T
  <2>3. T = 0 .. n
    BY <1>2, <2>1, <2>2, UpTo
  <2> QED
    BY <2>3 DEF T
<1>5. ASSUME NEW x \in Int PROVE LineItem(Append(b, x)) = LineItem(b) + x + 1
  <2> DEFINE r == Append(b, x)
             m == n + 1
  <2>1. DOMAIN r = 1 .. m /\ r[m] = x /\ \A i \in 1 .. n : r[i] = b[i]
    BY <1>2 DEF n
  <2>2. m \in Nat /\ m \in 1 .. m /\ m - 1 = n /\ \A i \in 1 .. n : i \in 1 .. m
    BY <1>2
  <2> HIDE DEF r, m
  <2>3. PICK g : /\ g[0] = -1 /\ LineItem(r) = g[m]
                 /\ \A i \in 1 .. m : g[i] = g[i - 1] + r[i] + 1
    BY <2>1, <2>2, LineItemSteps
  <2>4. \A i \in 0 .. n : f[i] = g[i]
    <3> DEFINE T == {i \in 0 .. n : f[i] = g[i]}
    <3>1. 0 \in T /\ T \in SUBSET (0 .. n)
      BY <1>2, <1>3, <2>3
    <3>2. ASSUME NEW k \in T, k < n PROVE k + 1 \in T
      <4> DEFINE i == k + 1
      <4>1. i \in 1 .. n /\ i \in 0 .. n /\ i - 1 = k
        BY <1>2, <3>2
      <4>2. f[k] = g[k]
        OBVIOUS
      <4> HIDE DEF i
      <4>3. f[i] = f[i - 1] + b[i] + 1 /\ g[i] = g[i - 1] + r[i] + 1 /\ r[i] = b[i]
        BY <1>3, <2>1, <2>2, <2>3, <4>1
      <4>4. i \in T
        BY <4>1, <4>2, <4>3
      <4> QED
        BY <4>4 DEF i
    <3> HIDE DEF T
    <3>3. T = 0 .. n
      BY <1>2, <3>1, <3>2, UpTo
    <3> QED
      BY <3>3 DEF T
  <2>5. g[m] = g[m - 1] + r[m] + 1
    BY <2>2, <2>3
  <2>6. f[n] = g[n]
    BY <1>2, <2>4
  <2>7. LineItem(r) = LineItem(b) + x + 1
    BY <1>3, <2>1, <2>2, <2>3, <2>5, <2>6
  <2> QED
    BY <2>7 DEF r
<1>6. LineItem(b) \in Int
  BY <1>2, <1>3, <1>4
<1> QED
  BY <1>1, <1>5, <1>6

LEMMA SizeGrows ==
  ASSUME NEW b \in Seq(Int)
  PROVE  /\ Size(<<>>) = Prefix /\ Size(b) \in Int
         /\ \A x \in Int : Size(Append(b, x)) = Size(b) + x + 1
<1>1. /\ LineItem(<<>>) = -1 /\ LineItem(b) \in Int
      /\ \A x \in Int : LineItem(Append(b, x)) = LineItem(b) + x + 1
  BY LineItemGrows
<1>2. Size(<<>>) = Prefix
  BY <1>1 DEF Size, Prefix
<1>3. Size(b) \in Int
  BY <1>1 DEF Size, Prefix
<1>4. ASSUME NEW x \in Int PROVE Size(Append(b, x)) = Size(b) + x + 1
  <2>1. LineItem(Append(b, x)) = LineItem(b) + x + 1
    BY <1>1
  <2> QED
    BY <1>1, <2>1 DEF Size, Prefix
<1> QED
  BY <1>2, <1>3, <1>4

-----------------------------------------------------------------------------
(* Options: -n stays positive where it is given. *)
Configuration ==
  [n : Int, L : Int, I : BOOLEAN, P : Int, s : Int, x : BOOLEAN, r : BOOLEAN, E : BOOLEAN,
   p : BOOLEAN, split : {"blanks", "0", "d"}]

LEMMA OptionTyped ==
  ASSUME NEW c \in Configuration, NEW o \in [opt : OptionName, arg : Int]
  PROVE  /\ OptionSet(c, o) \in Configuration
         /\ ~ BadOption(o) /\ c.n >= 0 => OptionSet(c, o).n >= 0
         /\ (c.I => c.L = 0) => (OptionSet(c, o).I => OptionSet(c, o).L = 0)
<1>1. o.arg \in Int /\ o.opt \in OptionName
  OBVIOUS
<1>2. CASE o.opt = "n"
  <2>1. OptionSet(c, o) = [c EXCEPT !.n = o.arg, !.L = 0, !.I = FALSE]
    BY <1>2 DEF OptionSet, Flag
  <2> DEFINE d == [c EXCEPT !.n = o.arg]
             e == [d EXCEPT !.L = 0]
  <2>2. d \in Configuration /\ d.n = o.arg
    BY <1>1 DEF Configuration
  <2> HIDE DEF d
  <2>3. e \in Configuration /\ e.n = d.n
    BY <2>2 DEF Configuration
  <2> HIDE DEF e
  <2>4. OptionSet(c, o) = [e EXCEPT !.I = FALSE]
    BY <2>1 DEF d, e
  <2>5. OptionSet(c, o) \in Configuration /\ OptionSet(c, o).n = e.n /\ ~ OptionSet(c, o).I
    BY <2>3, <2>4 DEF Configuration
  <2> QED
    BY <1>1, <1>2, <2>2, <2>3, <2>5 DEF BadOption
<1>3. CASE o.opt = "L"
  <2>1. OptionSet(c, o) = [c EXCEPT !.L = o.arg, !.n = 0, !.I = FALSE]
    BY <1>3 DEF OptionSet, Flag
  <2> DEFINE d == [c EXCEPT !.L = o.arg]
             e == [d EXCEPT !.n = 0]
  <2>2. d \in Configuration /\ d.n = c.n
    BY <1>1 DEF Configuration
  <2> HIDE DEF d
  <2>3. e \in Configuration /\ e.n = 0
    BY <2>2 DEF Configuration
  <2> HIDE DEF e
  <2>4. OptionSet(c, o) = [e EXCEPT !.I = FALSE]
    BY <2>1 DEF d, e
  <2>5. OptionSet(c, o) \in Configuration /\ OptionSet(c, o).n = e.n /\ ~ OptionSet(c, o).I
    BY <2>3, <2>4 DEF Configuration
  <2> QED
    BY <1>1, <1>3, <2>2, <2>3, <2>5 DEF BadOption
<1>4. CASE o.opt = "I"
  <2>1. OptionSet(c, o) = [c EXCEPT !.I = TRUE, !.n = 0, !.L = 0]
    BY <1>4 DEF OptionSet, Flag
  <2> DEFINE d == [c EXCEPT !.I = TRUE]
             e == [d EXCEPT !.n = 0]
  <2>2. d \in Configuration /\ d.n = c.n
    BY <1>1 DEF Configuration
  <2> HIDE DEF d
  <2>3. e \in Configuration /\ e.n = 0
    BY <2>2 DEF Configuration
  <2> HIDE DEF e
  <2>4. OptionSet(c, o) = [e EXCEPT !.L = 0]
    BY <2>1 DEF d, e
  <2>5. OptionSet(c, o) \in Configuration /\ OptionSet(c, o).n = e.n /\ OptionSet(c, o).L = 0
    BY <2>3, <2>4 DEF Configuration
  <2> QED
    BY <1>1, <1>4, <2>2, <2>3, <2>5 DEF BadOption
<1>5. CASE o.opt = "P"
  <2>1. OptionSet(c, o) = [c EXCEPT !.P = o.arg]
    BY <1>5 DEF OptionSet, Flag
  <2> QED
    BY <1>1, <1>5, <2>1 DEF Configuration, BadOption
<1>6. CASE o.opt = "s"
  <2>1. OptionSet(c, o) = [c EXCEPT !.s = o.arg]
    BY <1>6 DEF OptionSet, Flag
  <2> QED
    BY <1>1, <1>6, <2>1 DEF Configuration, BadOption
<1>7. CASE o.opt \in {"0", "d"}
  BY <1>1, <1>7 DEF OptionSet, Configuration
<1>8. CASE o.opt = "x"
  BY <1>1, <1>8 DEF OptionSet, Configuration, Flag
<1>9. CASE o.opt = "r"
  BY <1>1, <1>9 DEF OptionSet, Configuration, Flag
<1>10. CASE o.opt = "E"
  BY <1>1, <1>10 DEF OptionSet, Configuration, Flag
<1>11. CASE o.opt = "p"
  BY <1>1, <1>11 DEF OptionSet, Configuration, Flag
<1> QED
  BY <1>1, <1>2, <1>3, <1>4, <1>5, <1>6, <1>7, <1>8, <1>9, <1>10, <1>11 DEF OptionName, Flag

LEMMA ParsedTyped ==
  ASSUME NEW o \in Seq([opt : OptionName, arg : Int])
  PROVE  /\ Parsed(o) \in Configuration
         /\ (\A j \in DOMAIN o : ~ BadOption(o[j])) => Parsed(o).n >= 0
         /\ Parsed(o).I => Parsed(o).L = 0
<1> DEFINE n == Len(o)
           Good == \A j \in DOMAIN o : ~ BadOption(o[j])
           Option == [opt : OptionName, arg : Int]
<1> HIDE DEF Option
<1>1. n \in Nat /\ DOMAIN o = 1 .. n /\ \A i \in 1 .. n : o[i] \in Option
  <2>1. o \in Seq(Option)
    BY DEF Option
  <2> QED
    BY <2>1
<1> USE DEF Option
<1> HIDE DEF n
<1>2. PICK f : /\ f[0] = Defaults /\ Parsed(o) = f[n]
               /\ \A i \in 1 .. n : f[i] = OptionSet(f[i - 1], o[i])
  BY <1>1, ParsedSteps
<1> DEFINE T == {i \in 0 .. n : f[i] \in Configuration /\ (Good => f[i].n >= 0) /\ (f[i].I => f[i].L = 0)}
<1>3. 0 \in T /\ T \in SUBSET (0 .. n)
  <2>1. Defaults \in Configuration /\ Defaults.n >= 0 /\ ~ Defaults.I
    BY DEF Defaults, Configuration
  <2> QED
    BY <1>1, <1>2, <2>1
<1>4. ASSUME NEW k \in T, k < n PROVE k + 1 \in T
  <2> DEFINE i == k + 1
  <2>1. i \in 1 .. n /\ i \in 0 .. n /\ i - 1 = k
    BY <1>1, <1>4
  <2>2. f[k] \in Configuration /\ (Good => f[k].n >= 0) /\ (f[k].I => f[k].L = 0)
    OBVIOUS
  <2> HIDE DEF i
  <2>3. f[i] = OptionSet(f[k], o[i]) /\ o[i] \in [opt : OptionName, arg : Int] /\ (Good => ~ BadOption(o[i]))
    BY <1>1, <1>2, <2>1
  <2> HIDE DEF Good
  <2>4. f[i] \in Configuration /\ (Good => f[i].n >= 0) /\ (f[i].I => f[i].L = 0)
    BY <2>2, <2>3, OptionTyped
  <2>5. i \in T
    BY <2>1, <2>4
  <2> QED
    BY <2>5 DEF i
<1> HIDE DEF T
<1>5. T = 0 .. n
  BY <1>1, <1>3, <1>4, UpTo
<1>6. n \in 0 .. n
  BY <1>1
<1> HIDE DEF Good
<1>7. f[n] \in Configuration /\ (Good => f[n].n >= 0) /\ (f[n].I => f[n].L = 0)
  BY <1>5, <1>6 DEF T
<1> QED
  BY <1>2, <1>7 DEF Good

LEMMA LineItemTyped == ASSUME NEW s \in Seq(Nat) PROVE LineItem(s) \in Int
<1>1. s \in Seq(Int)
  OBVIOUS
<1> QED
  BY <1>1, LineItemGrows

LEMMA WholeLinesTyped == ASSUME NEW s \in Seq(Line) PROVE WholeLines(s) \in Seq(Int)
<1> DEFINE n == Len(s)
<1>1. n \in Nat /\ DOMAIN s = 1 .. n /\ \A i \in 1 .. n : s[i] \in Line
  OBVIOUS
<1> HIDE DEF n
<1>2. PICK f : /\ f[0] = <<>> /\ WholeLines(s) = f[n]
               /\ \A i \in 1 .. n : f[i] = AddLine(f[i - 1], s[i])
  BY <1>1, WholeLinesSteps
<1> DEFINE T == {i \in 0 .. n : f[i] \in Seq(Int)}
<1>3. 0 \in T /\ T \in SUBSET (0 .. n)
  <2>1. 0 \in 0 .. n /\ <<>> \in Seq(Int)
    BY <1>1
  <2> QED
    BY <1>2, <2>1
<1>4. ASSUME NEW k \in T, k < n PROVE k + 1 \in T
  <2> DEFINE i == k + 1
  <2>1. i \in 1 .. n /\ i \in 0 .. n /\ i - 1 = k
    BY <1>1, <1>4
  <2>2. f[k] \in Seq(Int)
    OBVIOUS
  <2> HIDE DEF i
  <2>3. f[i] = AddLine(f[k], s[i]) /\ s[i] \in Line
    BY <1>1, <1>2, <2>1
  <2>4. LineItem(s[i].words) \in Int
    BY <2>3, LineItemTyped DEF Line
  <2>5. f[i] \in Seq(Int)
    BY <2>2, <2>3, <2>4 DEF AddLine
  <2>6. i \in T
    BY <2>1, <2>5
  <2> QED
    BY <2>6 DEF i
<1> HIDE DEF T
<1>5. T = 0 .. n
  BY <1>1, <1>3, <1>4, UpTo
<1>6. n \in T
  BY <1>1, <1>5
<1> QED
  BY <1>2, <1>6 DEF T

-----------------------------------------------------------------------------
LEMMA WordsTyped ==
  ASSUME NEW s \in Seq(Line)
  PROVE  [i \in DOMAIN s |-> s[i].words] \in Seq(Seq(Int)) /\ Words(s) \in Seq(Int)
<1>1. \A i \in DOMAIN s : s[i].words \in Seq(Int)
  <2> TAKE i \in DOMAIN s
  <2>1. s[i] \in Line
    OBVIOUS
  <2>2. s[i].words \in Seq(Nat)
    BY <2>1 DEF Line
  <2> QED
    BY <2>2
<1>2. DOMAIN s = 1 .. Len(s) /\ Len(s) \in Nat
  OBVIOUS
<1>3. [i \in DOMAIN s |-> s[i].words] \in Seq(Seq(Int))
  BY <1>1, <1>2
<1> QED
  BY <1>3, FlattenTyped DEF Words

LEMMA BlankTyped == Blank \in Line /\ Blank.words = <<>>
BY DEF Blank, Line

LEMMA WordsAppend ==
  ASSUME NEW s \in Seq(Line), NEW l \in Line
  PROVE  Words(Append(s, l)) = Words(s) \o l.words /\ l.words \in Seq(Int)
<1> DEFINE r == Append(s, l)
           n == Len(s)
           sw == [i \in DOMAIN s |-> s[i].words]
           rw == [i \in DOMAIN r |-> r[i].words]
<1>1. r \in Seq(Line) /\ n \in Nat /\ DOMAIN s = 1 .. n /\ DOMAIN r = 1 .. n + 1 /\ r[n + 1] = l
      /\ \A i \in 1 .. n : r[i] = s[i]
  OBVIOUS
<1>2. sw \in Seq(Seq(Int)) /\ rw \in Seq(Seq(Int))
  BY <1>1, WordsTyped
<1> HIDE DEF r, n
<1>3. Len(sw) = n /\ Len(rw) = n + 1 /\ rw[n + 1] = l.words /\ \A i \in 1 .. n : rw[i] = sw[i]
  BY <1>1
<1> HIDE DEF sw, rw
<1>4. l.words \in Seq(Int)
  <2>1. l.words \in Seq(Nat)
    BY DEF Line
  <2> QED
    BY <2>1
<1>5. rw = Append(sw, l.words)
  <2>1. Append(sw, l.words) \in Seq(Seq(Int)) /\ Len(Append(sw, l.words)) = n + 1
    BY <1>2, <1>3, <1>4
  <2>2. \A i \in 1 .. n + 1 : rw[i] = Append(sw, l.words)[i]
    BY <1>1, <1>2, <1>3, <1>4
  <2> QED
    BY <1>2, <1>3, <2>1, <2>2, SeqEqual
<1>6. FlattenSeq(rw) = FlattenSeq(sw) \o l.words
  BY <1>2, <1>4, <1>5, FlattenAppend
<1> QED
  BY <1>4, <1>6 DEF Words, rw, sw, r

LEMMA PhysicalWords ==
  ASSUME NEW data \in [lines : Seq(Line), ended : BOOLEAN]
  PROVE  Physical(data) \in Seq(Line) /\ Words(Physical(data)) = Words(data.lines)
<1> DEFINE s == data.lines
<1>1. s \in Seq(Line) /\ data.ended \in BOOLEAN
  OBVIOUS
<1> HIDE DEF s
<1>2. CASE ~ data.ended
  BY <1>1, <1>2, ConcatEmptySeq DEF Physical, s
<1>3. CASE data.ended
  <2>1. Physical(data) = Append(s, Blank) /\ Append(s, Blank) \in Seq(Line)
    BY <1>1, <1>3, BlankTyped, AppendIsConcat DEF Physical, s
  <2>2. Words(Append(s, Blank)) = Words(s) \o <<>> /\ Words(s) \in Seq(Int)
    BY <1>1, BlankTyped, WordsAppend, WordsTyped
  <2>3. Words(s) \o <<>> = Words(s)
    BY <2>2, ConcatEmptySeq
  <2> QED
    BY <2>1, <2>2, <2>3 DEF s
<1> QED
  BY <1>1, <1>2, <1>3

-----------------------------------------------------------------------------
(* -L: what has been joined so far is the words read so far. *)
JoinKept(w, a) == /\ a.held \in Seq(Int) /\ a.lines \in Seq(Seq(Int))
                  /\ FlattenSeq(a.lines) \o a.held = w
                  /\ a = [held |-> a.held, open |-> a.open, lines |-> a.lines, quote |-> a.quote]

LEMMA Associative ==
  ASSUME NEW t \in Seq(Int), NEW h \in Seq(Int), NEW x \in Seq(Int)
  PROVE  (t \o h) \o x = t \o (h \o x)
OBVIOUS

LEMMA JoinStepKeeps ==
  ASSUME NEW w \in Seq(Int), NEW a, JoinKept(w, a), NEW l \in Line
  PROVE  /\ JoinKept(w \o l.words, JoinStep(a, l))
         /\ ~ l.joins => JoinStep(a, l).held = <<>>
<1> DEFINE words == a.held \o l.words
           b == JoinStep(a, l)
<1>1. l.words \in Seq(Int)
  <2>1. l.words \in Seq(Nat)
    BY DEF Line
  <2> QED
    BY <2>1
<1>2. a.held \in Seq(Int) /\ a.lines \in Seq(Seq(Int)) /\ FlattenSeq(a.lines) \in Seq(Int)
      /\ FlattenSeq(a.lines) \o a.held = w
  BY FlattenTyped DEF JoinKept
<1>3. words \in Seq(Int)
  BY <1>1, <1>2, ConcatProperties
<1>4. FlattenSeq(a.lines) \o words = w \o l.words
  <2> DEFINE t == FlattenSeq(a.lines)
             h == a.held
             x == l.words
  <2>1. t \in Seq(Int) /\ h \in Seq(Int) /\ x \in Seq(Int) /\ t \o h = w
    BY <1>1, <1>2
  <2> HIDE DEF t, h, x
  <2>2. (t \o h) \o x = t \o (h \o x)
    BY <2>1, Associative
  <2> QED
    BY <2>1, <2>2 DEF t, h, x
<1>5. CASE l.joins
  <2>1. b = [held |-> words, open |-> a.open \/ l.quote, lines |-> a.lines, quote |-> a.quote]
    BY <1>5 DEF JoinStep, JoinKept
  <2> HIDE DEF words, b
  <2> QED
    <3>1. b.held = words /\ b.lines = a.lines
          /\ b = [held |-> b.held, open |-> b.open, lines |-> b.lines, quote |-> b.quote]
      BY <2>1
    <3> QED
      BY <1>2, <1>3, <1>4, <1>5, <3>1 DEF JoinKept, b
<1>6. CASE ~ l.joins
  <2>0. b = [held |-> b.held, open |-> b.open, lines |-> b.lines, quote |-> b.quote]
    BY <1>6 DEF JoinStep
  <2>1. b.held = <<>> /\ b.lines = IF words = <<>> THEN a.lines ELSE Append(a.lines, words)
    BY <1>6 DEF JoinStep
  <2> HIDE DEF words, b
  <2>2. b.lines \in Seq(Seq(Int)) /\ FlattenSeq(b.lines) = w \o l.words
    <3>1. CASE words = <<>>
      <4>1. FlattenSeq(a.lines) \o words = FlattenSeq(a.lines)
        BY <1>2, <3>1, ConcatEmptySeq
      <4> QED
        BY <1>2, <1>4, <2>1, <3>1, <4>1
    <3>2. CASE words # <<>>
      <4>1. FlattenSeq(Append(a.lines, words)) = FlattenSeq(a.lines) \o words
        BY <1>2, <1>3, FlattenAppend
      <4> QED
        <5>1. b.lines = Append(a.lines, words)
          BY <2>1, <3>2
        <5>2. Append(a.lines, words) \in Seq(Seq(Int))
          BY <1>2, <1>3
        <5> QED
          BY <1>4, <4>1, <5>1, <5>2
    <3> QED
      BY <3>1, <3>2
  <2>3. w \o l.words \in Seq(Int) /\ <<>> \in Seq(Int)
    BY <1>1, ConcatProperties
  <2>4. FlattenSeq(b.lines) \o b.held = w \o l.words
    BY <2>1, <2>2, <2>3, ConcatEmptySeq
  <2> QED
    BY <2>0, <2>1, <2>2, <2>3, <2>4 DEF JoinKept, b
<1> QED
  BY <1>5, <1>6

(* The words of the first lines, line by line.                             *)
First(s, i) == Words(SubSeq(s, 1, i))
LEMMA FirstWords ==
  ASSUME NEW s \in Seq(Line), NEW i \in 1 .. Len(s)
  PROVE  /\ First(s, i) = First(s, i - 1) \o s[i].words
         /\ First(s, i) \in Seq(Int) /\ First(s, i - 1) \in Seq(Int) /\ s[i].words \in Seq(Int)
<1> DEFINE t == SubSeq(s, 1, i - 1)
           r == SubSeq(s, 1, i)
<1>1. t \in Seq(Line) /\ r \in Seq(Line) /\ s[i] \in Line
  OBVIOUS
<1>2. r = Append(t, s[i])
  <2>1. r = t \o <<s[i]>>
    BY Extended
  <2> HIDE DEF r, t
  <2> QED
    BY <1>1, <2>1, AppendIsConcat
<1> HIDE DEF t, r
<1> QED
  BY <1>1, <1>2, WordsAppend, WordsTyped DEF First, r, t

Marks(lines) == FlattenSeq([i \in DOMAIN lines |-> Ends1(lines[i])])

LEMMA EndsTyped ==
  ASSUME NEW s \in Seq(Int)
  PROVE  Ends1(s) \in Seq(BOOLEAN) /\ Len(Ends1(s)) = Len(s) /\ \A k \in 1 .. Len(s) : Ends1(s)[k] <=> k = Len(s)
<1> DEFINE n == Len(s)
           e == [k \in 1 .. n |-> k = n]
<1>1. n \in Nat /\ DOMAIN s = 1 .. n
  OBVIOUS
<1>2. Ends1(s) = e
  BY <1>1 DEF Ends1
<1> HIDE DEF n
<1>3. e \in Seq(BOOLEAN) /\ Len(e) = n
  BY <1>1
<1>4. \A k \in 1 .. n : e[k] <=> k = n
  BY Zenon
<1> HIDE DEF e
<1> QED
  BY <1>2, <1>3, <1>4, Zenon DEF n

LEMMA MarksTyped ==
  ASSUME NEW lines \in Seq(Seq(Int))
  PROVE  /\ [i \in DOMAIN lines |-> Ends1(lines[i])] \in Seq(Seq(BOOLEAN))
         /\ Marks(lines) \in Seq(BOOLEAN)
<1>1. \A i \in DOMAIN lines : Ends1(lines[i]) \in Seq(BOOLEAN)
  BY EndsTyped
<1>2. DOMAIN lines = 1 .. Len(lines) /\ Len(lines) \in Nat
  OBVIOUS
<1>3. [i \in DOMAIN lines |-> Ends1(lines[i])] \in Seq(Seq(BOOLEAN))
  BY <1>1, <1>2
<1> QED
  BY <1>3, FlattenTyped DEF Marks

LEMMA MarksAppend ==
  ASSUME NEW s \in Seq(Seq(Int)), NEW w \in Seq(Int)
  PROVE  Marks(Append(s, w)) = Marks(s) \o Ends1(w)
<1> DEFINE r == Append(s, w)
           n == Len(s)
           sm == [i \in DOMAIN s |-> Ends1(s[i])]
           rm == [i \in DOMAIN r |-> Ends1(r[i])]
<1>1. r \in Seq(Seq(Int)) /\ n \in Nat /\ DOMAIN s = 1 .. n /\ DOMAIN r = 1 .. n + 1 /\ r[n + 1] = w
      /\ \A i \in 1 .. n : r[i] = s[i]
  OBVIOUS
<1>2. sm \in Seq(Seq(BOOLEAN)) /\ rm \in Seq(Seq(BOOLEAN))
  BY <1>1, MarksTyped
<1> HIDE DEF r, n
<1>3. Len(sm) = n /\ Len(rm) = n + 1 /\ rm[n + 1] = Ends1(w) /\ \A i \in 1 .. n : rm[i] = sm[i]
  BY <1>1
<1> HIDE DEF sm, rm
<1>4. Ends1(w) \in Seq(BOOLEAN)
  BY EndsTyped
<1>5. rm = Append(sm, Ends1(w))
  <2>1. Append(sm, Ends1(w)) \in Seq(Seq(BOOLEAN)) /\ Len(Append(sm, Ends1(w))) = n + 1
    BY <1>2, <1>3, <1>4
  <2>2. \A i \in 1 .. n + 1 : rm[i] = Append(sm, Ends1(w))[i]
    BY <1>1, <1>2, <1>3, <1>4
  <2> QED
    BY <1>2, <1>3, <2>1, <2>2, SeqEqual
<1>6. FlattenSeq(rm) = FlattenSeq(sm) \o Ends1(w)
  BY <1>2, <1>4, <1>5, FlattenAppend
<1> QED
  BY <1>6 DEF Marks, rm, sm, r

(* What is marked of the lines joined so far is where they end.            *)
Marked(s, i, a) ==
  LET e == Marks(a.lines)
  IN /\ e \in Seq(BOOLEAN) /\ Len(e) = Len(FlattenSeq(a.lines)) /\ (e # <<>> => e[Len(e)])
     /\ \A q \in 1 .. i : ~ s[q].joins => Len(First(s, q)) <= Len(e)
     /\ \A k \in 1 .. Len(e) : e[k] <=> \E q \in 1 .. i : ~ s[q].joins /\ k = Len(First(s, q))

LEMMA JoinStepMarks ==
  ASSUME NEW s \in Seq(Line), NEW i \in 1 .. Len(s), NEW a,
         JoinKept(First(s, i - 1), a), Marked(s, i - 1, a)
  PROVE  Marked(s, i, JoinStep(a, s[i]))
<1> DEFINE l == s[i]
           words == a.held \o l.words
           b == JoinStep(a, l)
           e == Marks(a.lines)
           m == Len(e)
           F(q) == Len(First(s, q))
<1>0. i \in Int /\ i >= 1
  OBVIOUS
<1>1. /\ l.words \in Seq(Int) /\ First(s, i) = First(s, i - 1) \o l.words
      /\ First(s, i) \in Seq(Int) /\ First(s, i - 1) \in Seq(Int)
  BY FirstWords, Zenon
<1>2. a.held \in Seq(Int) /\ a.lines \in Seq(Seq(Int)) /\ FlattenSeq(a.lines) \in Seq(Int)
      /\ FlattenSeq(a.lines) \o a.held = First(s, i - 1)
  BY FlattenTyped DEF JoinKept
<1>3. /\ e \in Seq(BOOLEAN) /\ m = Len(FlattenSeq(a.lines)) /\ (e # <<>> => e[m]) /\ m \in Nat
      /\ \A q \in 1 .. i - 1 : ~ s[q].joins => F(q) <= m
      /\ \A k \in 1 .. m : e[k] <=> \E q \in 1 .. i - 1 : ~ s[q].joins /\ k = F(q)
  BY DEF Marked
<1>4. words \in Seq(Int) /\ Len(words) = Len(a.held) + Len(l.words) /\ F(i) = m + Len(words) /\ F(i) \in Nat
  <2>1. Len(First(s, i - 1)) = m + Len(a.held)
    <3>1. Len(FlattenSeq(a.lines) \o a.held) = Len(FlattenSeq(a.lines)) + Len(a.held)
      BY <1>2, ConcatProperties, Zenon
    <3> QED
      BY <1>2, <1>3, <3>1, Zenon
  <2>2. Len(First(s, i)) = Len(First(s, i - 1)) + Len(l.words)
    BY <1>1, ConcatProperties
  <2>3. words \in Seq(Int) /\ Len(words) = Len(a.held) + Len(l.words)
    BY <1>1, <1>2, ConcatProperties
  <2>4. Len(a.held) \in Nat /\ Len(l.words) \in Nat
    BY <1>1, <1>2
  <2>5. m \in Nat
    BY <1>3
  <2> DEFINE f0 == Len(First(s, i - 1))
             f1 == Len(First(s, i))
             h == Len(a.held)
             lw == Len(l.words)
             ww == Len(words)
  <2>6. f1 = m + ww /\ f1 \in Nat
    <3>1. f0 = m + h /\ f1 = f0 + lw /\ ww = h + lw /\ h \in Nat /\ lw \in Nat
      BY <2>1, <2>2, <2>3, <2>4
    <3> HIDE DEF f0, f1, h, lw, ww, m
    <3> QED
      BY <2>5, <3>1
  <2> QED
    BY <2>3, <2>6
<1>5. \A q \in 1 .. i : q \in 1 .. i - 1 \/ q = i
  BY <1>0
<1>6. \A q \in 1 .. i - 1 : q \in 1 .. i
  BY <1>0
<1>7. i \in 1 .. i
  BY <1>0
<1>8. s[i] = l
  OBVIOUS
<1>9. b.lines = IF l.joins \/ words = <<>> THEN a.lines ELSE Append(a.lines, words)
  BY DEF JoinStep
<1> HIDE DEF l, words, b, e, m, F
<1>10. CASE l.joins
  <2>1. b.lines = a.lines
    BY <1>9, <1>10
  <2>2. \A q \in 1 .. i : ~ s[q].joins => F(q) <= m
    BY <1>3, <1>5, <1>8, <1>10
  <2>3. \A k \in 1 .. m : e[k] <=> \E q \in 1 .. i : ~ s[q].joins /\ k = F(q)
    BY <1>3, <1>5, <1>6, <1>8, <1>10
  <2> QED
    BY <1>3, <2>1, <2>2, <2>3 DEF Marked, b, e, m, F, l
<1>11. CASE ~ l.joins /\ words = <<>>
  <2>1. b.lines = a.lines /\ F(i) = m
    <3>1. Len(words) = 0
      BY <1>4, <1>11, EmptySeq
    <3>2. m \in Nat /\ F(i) = m + Len(words)
      BY <1>3, <1>4
    <3> QED
      BY <1>9, <1>11, <3>1, <3>2
  <2>2. \A q \in 1 .. i : ~ s[q].joins => F(q) <= m
    BY <1>3, <1>5, <2>1
  <2>3. m \in 1 .. m => e[m]
    <3>1. m \in 1 .. m => m # 0
      BY <1>3
    <3>2. m # 0 => e # <<>>
      BY EmptySeq DEF m
    <3> QED
      BY <1>3, <3>1, <3>2, Zenon
  <2>4. \A k \in 1 .. m : e[k] <=> \E q \in 1 .. i : ~ s[q].joins /\ k = F(q)
    BY <1>3, <1>5, <1>6, <1>8, <1>11, <2>1, <2>3
  <2> QED
    BY <1>3, <2>1, <2>2, <2>4 DEF Marked, b, e, m, F, l
<1>12. CASE ~ l.joins /\ words # <<>>
  <2> DEFINE x == Ends1(words)
             n == Len(words)
             d == Marks(b.lines)
  <2>1. b.lines = Append(a.lines, words)
    BY <1>9, <1>12
  <2>2. /\ x \in Seq(BOOLEAN) /\ Len(x) = n /\ n \in Nat /\ n > 0
        /\ \A k \in 1 .. n : x[k] <=> k = n
    <3>1. n \in Nat /\ n # 0
      BY <1>4, <1>12, EmptySeq
    <3>2. n > 0
      BY <3>1
    <3> QED
      BY <1>4, <3>1, <3>2, EndsTyped, Zenon DEF n, x
  <2>3. d = e \o x
    BY <1>2, <1>4, <2>1, MarksAppend DEF e
  <2> HIDE DEF x, n, d
  <2>4. /\ d \in Seq(BOOLEAN) /\ Len(d) = m + n
        /\ \A k \in 1 .. m : d[k] <=> e[k]
        /\ \A k \in 1 .. m + n : k > m => (d[k] <=> k = m + n)
    <3>1. /\ d \in Seq(BOOLEAN) /\ Len(d) = m + n
          /\ \A k \in 1 .. m + n : d[k] = IF k <= m THEN e[k] ELSE x[k - m]
      <4>1. e \in Seq(BOOLEAN) /\ Len(e) = m
        BY <1>3 DEF m
      <4> QED
        BY <4>1, <2>2, <2>3, ConcatProperties, Zenon
    <3>2. \A k \in 1 .. m + n : k > m => (d[k] <=> k = m + n)
      <4> TAKE k \in 1 .. m + n
      <4> HAVE k > m
      <4>1. k - m \in 1 .. n /\ d[k] = x[k - m]
        BY <1>3, <2>2, <3>1
      <4>2. k - m = n <=> k = m + n
        BY <1>3, <2>2
      <4> QED
        BY <2>2, <4>1, <4>2, Zenon
    <3> QED
      BY <1>3, <2>2, <3>1, <3>2
  <2>5. Len(d) = Len(FlattenSeq(b.lines))
    <3>1. FlattenSeq(b.lines) = FlattenSeq(a.lines) \o words
      BY <1>2, <1>4, <2>1, FlattenAppend
    <3>2. Len(FlattenSeq(a.lines) \o words) = Len(FlattenSeq(a.lines)) + Len(words)
      BY <1>2, <1>4, ConcatProperties, Zenon
    <3> QED
      BY <1>3, <2>4, <3>1, <3>2, Zenon DEF n
  <2>6. F(i) = m + n
    BY <1>4 DEF n
  <2>7. \A q \in 1 .. i : ~ s[q].joins => F(q) <= m + n
    <3>1. \A q \in 1 .. i - 1 : F(q) \in Int
      <4> TAKE q \in 1 .. i - 1
      <4>1. q \in 1 .. Len(s)
        BY <1>1
      <4> QED
        BY <4>1, FirstWords DEF F
    <3> QED
      BY <1>3, <1>5, <2>2, <2>6, <3>1
  <2>8. \A k \in 1 .. m + n : d[k] <=> \E q \in 1 .. i : ~ s[q].joins /\ k = F(q)
    <3> TAKE k \in 1 .. m + n
    <3>1. CASE k <= m
      <4>1. k \in 1 .. m /\ k # F(i)
        BY <1>3, <2>2, <2>6, <3>1
      <4> QED
        BY <1>3, <1>5, <1>6, <2>4, <4>1
    <3>2. CASE k > m
      <4>1. d[k] <=> k = F(i)
        BY <2>4, <2>6, <3>2
      <4>2. \A q \in 1 .. i - 1 : ~ s[q].joins => k # F(q)
        BY <1>3, <3>2
      <4> QED
        BY <1>5, <1>7, <1>8, <1>12, <4>1, <4>2
    <3> QED
      BY <1>3, <2>2, <3>1, <3>2
  <2>9. d # <<>> => d[m + n]
    BY <1>3, <2>2, <2>4
  <2> QED
    BY <2>4, <2>5, <2>7, <2>8, <2>9 DEF Marked, b, d, F, l
<1> QED
  BY <1>10, <1>11, <1>12 DEF b, l

(* -L: the loop over the lines, to its end.                                *)
LEMMA JoinedLoop ==
  ASSUME NEW data \in [lines : Seq(Line), ended : BOOLEAN]
  PROVE  LET s == Physical(data)
             j == Joined(data)
         IN /\ JoinKept(Words(s), j) /\ Marked(s, Len(s), j)
            /\ (s = <<>> \/ ~ s[Len(s)].joins => j.held = <<>>)
<1> DEFINE s == Physical(data)
           n == Len(s)
<1>1. s \in Seq(Line)
  BY PhysicalWords
<1>0. s = Physical(data)
  OBVIOUS
<1> HIDE DEF s
<1>2. n \in Nat /\ DOMAIN s = 1 .. n /\ \A i \in 1 .. n : s[i] \in Line
  BY <1>1
<1>3. First(s, 0) = <<>> /\ First(s, n) = Words(s)
  <2>1. SubSeq(s, 1, 0) = <<>>
    BY <1>1
  <2>2. Words(<<>>) = <<>>
    <3>1. [i \in DOMAIN <<>> |-> <<>>[i].words] = <<>>
      OBVIOUS
    <3> QED
      BY <3>1, FlattenEmpty DEF Words
  <2> QED
    BY <1>1, <2>1, <2>2, SubSeqFull DEF First
<1> HIDE DEF n
<1>4. PICK f : /\ f[0] = NothingJoined /\ Joined(data) = f[n]
               /\ \A i \in 1 .. n : f[i] = JoinStep(f[i - 1], s[i])
  BY <1>0, <1>2, JoinedSteps
<1> DEFINE Done(i) == /\ JoinKept(First(s, i), f[i]) /\ Marked(s, i, f[i])
                      /\ (i = 0 \/ ~ s[i].joins => f[i].held = <<>>)
           T == {i \in 0 .. n : Done(i)}
<1>5. 0 \in T /\ T \in SUBSET (0 .. n)
  <2>1. f[0].held = <<>> /\ f[0].lines = <<>> /\ <<>> \in Seq(Int) /\ <<>> \in Seq(Seq(Int))
    BY <1>4 DEF NothingJoined
  <2>2. FlattenSeq(f[0].lines) \o f[0].held = <<>>
    BY <2>1, FlattenEmpty, ConcatEmptySeq
  <2>3. JoinKept(First(s, 0), f[0])
    <3>1. f[0] = [held |-> f[0].held, open |-> f[0].open, lines |-> f[0].lines, quote |-> f[0].quote]
      BY <1>4 DEF NothingJoined
    <3> QED
      BY <1>3, <2>1, <2>2, <3>1 DEF JoinKept
  <2>4. Marked(s, 0, f[0])
    <3>1. Marks(<<>>) = <<>>
      <4>1. [i \in DOMAIN <<>> |-> Ends1(<<>>[i])] = <<>>
        OBVIOUS
      <4> QED
        BY <4>1, FlattenEmpty DEF Marks
    <3>2. <<>> \in Seq(BOOLEAN) /\ Len(<<>>) = 0
      OBVIOUS
    <3>3. Marks(f[0].lines) = <<>> /\ FlattenSeq(f[0].lines) = <<>>
      BY <2>1, <3>1, FlattenEmpty, Zenon
    <3>4. 1 .. 0 = {}
      OBVIOUS
    <3> QED
      BY <3>2, <3>3, <3>4, Zenon DEF Marked
  <2>5. 0 \in 0 .. n
    BY <1>2
  <2> QED
    BY <2>1, <2>3, <2>4, <2>5
<1>6. ASSUME NEW k \in T, k < n PROVE k + 1 \in T
  <2> DEFINE i == k + 1
  <2>1. i \in 1 .. n /\ i \in 0 .. n /\ i - 1 = k /\ i # 0
    BY <1>2, <1>6
  <2>2. JoinKept(First(s, k), f[k]) /\ Marked(s, k, f[k])
    OBVIOUS
  <2> HIDE DEF i
  <2>3. f[i] = JoinStep(f[i - 1], s[i]) /\ s[i] \in Line /\ i \in 1 .. Len(s)
    BY <1>2, <1>4, <2>1 DEF n
  <2>4. JoinKept(First(s, i - 1), f[i - 1]) /\ Marked(s, i - 1, f[i - 1])
    BY <2>1, <2>2
  <2>5. First(s, i) = First(s, i - 1) \o s[i].words /\ First(s, i - 1) \in Seq(Int)
    BY <1>1, <2>3, FirstWords
  <2>6. JoinKept(First(s, i), f[i]) /\ (~ s[i].joins => f[i].held = <<>>)
    BY <2>3, <2>4, <2>5, JoinStepKeeps
  <2>7. Marked(s, i, f[i])
    BY <1>1, <2>3, <2>4, JoinStepMarks
  <2>8. i \in T
    BY <2>1, <2>6, <2>7
  <2> QED
    BY <2>8 DEF i
<1> HIDE DEF T
<1>7. T = 0 .. n
  BY <1>2, <1>5, <1>6, UpTo
<1>8. Done(n)
  <2>1. n \in 0 .. n
    BY <1>2
  <2> QED
    BY <1>7, <2>1 DEF T
<1>9. s = <<>> => n = 0
  BY DEF n
<1> QED
  BY <1>3, <1>4, <1>8, <1>9 DEF s, n

LEMMA JoinedRight ==
  ASSUME NEW data \in [lines : Seq(Line), ended : BOOLEAN],
         data.ended \/ data.lines = <<>> \/ ~ data.lines[Len(data.lines)].joins
  PROVE  LET lines == Joined(data).lines
             e == Marks(lines)
             w == Words(data.lines)
         IN /\ FlattenSeq(lines) = w /\ e \in Seq(BOOLEAN) /\ Len(e) = Len(w)
            /\ \A k \in 1 .. Len(e) :
                 e[k] <=> \/ k = Len(w)
                          \/ \E q \in DOMAIN data.lines :
                               ~ data.lines[q].joins /\ k = Len(Words(SubSeq(data.lines, 1, q)))
<1> DEFINE s == Physical(data)
           t == data.lines
           n == Len(s)
           m == Len(t)
           j == Joined(data)
           w == Words(t)
<1>1. s \in Seq(Line) /\ Words(s) = w /\ t \in Seq(Line) /\ m \in Nat /\ n \in Nat /\ DOMAIN t = 1 .. m
  <2>1. t \in Seq(Line)
    OBVIOUS
  <2>2. s \in Seq(Line) /\ Words(s) = w
    BY PhysicalWords
  <2> HIDE DEF s, t
  <2> QED
    BY <2>1, <2>2
<1>2. /\ \A q \in 1 .. m : q \in 1 .. n /\ s[q] = t[q] /\ SubSeq(s, 1, q) = SubSeq(t, 1, q)
      /\ n = m \/ (n = m + 1 /\ ~ s[n].joins)
      /\ s = <<>> \/ ~ s[n].joins
  <2>1. CASE data.ended
    <3>1. s = Append(t, Blank)
      BY <1>1, <2>1, BlankTyped, AppendIsConcat DEF Physical
    <3> HIDE DEF s, t
    <3>2. n = m + 1 /\ s[n] = Blank /\ s # <<>>
      BY <1>1, <3>1, BlankTyped
    <3>3. \A q \in 1 .. m : q \in 1 .. n /\ s[q] = t[q]
      BY <1>1, <3>1, <3>2, BlankTyped
    <3>4. ASSUME NEW q \in 1 .. m PROVE SubSeq(s, 1, q) = SubSeq(t, 1, q)
      <4>1. SubSeq(s, 1, q) \in Seq(Line) /\ SubSeq(t, 1, q) \in Seq(Line)
        BY <1>1, <3>3
      <4>2. Len(SubSeq(s, 1, q)) = q /\ Len(SubSeq(t, 1, q)) = q
        BY <1>1, <3>3
      <4>3. \A p \in 1 .. q : SubSeq(s, 1, q)[p] = SubSeq(t, 1, q)[p]
        BY <1>1, <3>3
      <4> QED
        BY <4>1, <4>2, <4>3, SeqEqual
    <3> QED
      BY <3>2, <3>3, <3>4 DEF Blank
  <2>2. CASE ~ data.ended
    <3>1. s = t
      BY <1>1, <2>2, ConcatEmptySeq DEF Physical
    <3>2. t = <<>> \/ ~ t[m].joins
      BY <2>2
    <3> HIDE DEF s, t
    <3> QED
      BY <1>1, <3>1, <3>2
  <2> QED
    BY <2>1, <2>2
<1>3. JoinKept(w, j) /\ Marked(s, n, j) /\ j.held = <<>>
  BY <1>1, <1>2, JoinedLoop
<1> DEFINE e == Marks(j.lines)
<1>4. FlattenSeq(j.lines) = w /\ w \in Seq(Int)
  BY <1>1, <1>3, FlattenTyped, WordsTyped, ConcatEmptySeq DEF JoinKept
<1>5. /\ e \in Seq(BOOLEAN) /\ Len(e) = Len(w) /\ (e # <<>> => e[Len(e)])
      /\ \A k \in 1 .. Len(e) : e[k] <=> \E q \in 1 .. n : ~ s[q].joins /\ k = Len(First(s, q))
  BY <1>3, <1>4 DEF Marked
<1>6. First(s, n) = w
  BY <1>1, SubSeqFull DEF First
<1>7. \A q \in 1 .. m : First(s, q) = Words(SubSeq(t, 1, q))
  BY <1>2 DEF First
<1> HIDE DEF s, t, n, m, j, w, e
<1>8. ASSUME NEW k \in 1 .. Len(e)
      PROVE  e[k] <=> k = Len(w) \/ \E q \in 1 .. m : ~ t[q].joins /\ k = Len(Words(SubSeq(t, 1, q)))
  <2>1. k = Len(w) => e[k]
    <3>1. e # <<>>
      OBVIOUS
    <3> QED
      BY <1>5, <3>1
  <2>2. ASSUME NEW q \in 1 .. n, ~ s[q].joins, k = Len(First(s, q))
        PROVE  k = Len(w) \/ \E p \in 1 .. m : ~ t[p].joins /\ k = Len(Words(SubSeq(t, 1, p)))
    <3>1. CASE q \in 1 .. m
      BY <1>2, <1>7, <2>2, <3>1
    <3>2. CASE q \notin 1 .. m
      <4>1. q = n
        BY <1>1, <1>2, <3>2
      <4> QED
        BY <1>6, <2>2, <4>1
    <3> QED
      BY <3>1, <3>2
  <2>3. ASSUME NEW q \in 1 .. m, ~ t[q].joins, k = Len(Words(SubSeq(t, 1, q))) PROVE e[k]
    <3>1. q \in 1 .. n /\ ~ s[q].joins /\ k = Len(First(s, q))
      BY <1>2, <1>7, <2>3
    <3> QED
      BY <1>5, <3>1
  <2> QED
    BY <1>5, <2>1, <2>2, <2>3
<1> QED
  BY <1>1, <1>4, <1>5, <1>8 DEF t, m, j, w, e

-----------------------------------------------------------------------------
(* The batching loop.  Each command line keeps to -n and -s, and none but  *)
(* the last could have held the item that follows it.                      *)
AtMost(c) == IF c.I THEN 1 ELSE c.n
Within(c, b) == /\ AtMost(c) > 0 => Len(b) <= AtMost(c)
                /\ c.s > 0 => Size(b) <= c.s \/ Len(b) <= 1
Tight(c, b, x) == \/ AtMost(c) > 0 /\ Len(b) = AtMost(c)
                  \/ c.s > 0 /\ Size(b) + x + 1 > c.s

MarksIn(M, from, to) == Cardinality({k \in from + 1 .. to : k \in M})

LEMMA MarksCount ==
  ASSUME NEW M, NEW from \in Int, NEW to \in Int
  PROVE  /\ MarksIn(M, from, to) \in Nat /\ (from >= to => MarksIn(M, from, to) = 0)
         /\ from < to =>
              MarksIn(M, from, to) = MarksIn(M, from, to - 1) + IF to \in M THEN 1 ELSE 0
<1> DEFINE S == {k \in from + 1 .. to : k \in M}
           R == {k \in from + 1 .. to - 1 : k \in M}
<1>1. IsFiniteSet(S) /\ IsFiniteSet(R)
  <2>1. IsFiniteSet(from + 1 .. to) /\ IsFiniteSet(from + 1 .. to - 1)
    BY FS_Interval
  <2> QED
    BY <2>1, FS_Subset
<1>2. from >= to => S = {}
  OBVIOUS
<1>3. from < to => S = IF to \in M THEN R \cup {to} ELSE R
  OBVIOUS
<1>4. to \notin R
  OBVIOUS
<1>5. MarksIn(M, from, to) = Cardinality(S) /\ MarksIn(M, from, to - 1) = Cardinality(R)
  BY DEF MarksIn
<1> HIDE DEF S, R
<1>6. Cardinality(S) \in Nat /\ Cardinality(R) \in Nat
  BY <1>1, FS_CardinalityType
<1>7. from < to => Cardinality(S) = Cardinality(R) + IF to \in M THEN 1 ELSE 0
  <2>1. Cardinality(R \cup {to}) = Cardinality(R) + 1
    BY <1>1, <1>4, FS_AddElement
  <2>2. CASE to \in M
    BY <1>3, <1>6, <2>1, <2>2
  <2>3. CASE to \notin M
    BY <1>3, <1>6, <2>3
  <2> QED
    BY <2>2, <2>3
<1> QED
  BY <1>2, <1>5, <1>6, <1>7, FS_EmptySet

LEMMA BeforeAppend ==
  ASSUME NEW D \in Seq(Seq(Int)), NEW C \in Seq(Int)
  PROVE  /\ \A j \in 1 .. Len(D) + 1 : Before(Append(D, C), j) = Before(D, j)
         /\ Before(D, Len(D) + 1) = Len(FlattenSeq(D))
         /\ Before(Append(D, C), Len(D) + 2) = Len(FlattenSeq(D)) + Len(C)
         /\ \A j \in 1 .. Len(D) + 1 : Before(D, j) \in Nat
         /\ Len(FlattenSeq(D)) \in Nat /\ Len(C) \in Nat
<1> DEFINE n == Len(D)
           B == Append(D, C)
<1>1. n \in Nat /\ B \in Seq(Seq(Int)) /\ Len(B) = n + 1 /\ \A k \in 1 .. n : B[k] = D[k]
  OBVIOUS
<1>2. SubSeq(D, 1, n) = D /\ SubSeq(B, 1, n + 1) = B
  <2> HIDE DEF B
  <2>1. SubSeq(B, 1, Len(B)) = B
    BY <1>1, SubSeqFull
  <2> QED
    BY <1>1, <2>1, SubSeqFull
<1>3. FlattenSeq(B) = FlattenSeq(D) \o C /\ FlattenSeq(D) \in Seq(Int)
  BY FlattenAppend, FlattenTyped
<1> HIDE DEF n, B
<1>4. ASSUME NEW j \in 1 .. n + 1 PROVE SubSeq(B, 1, j - 1) = SubSeq(D, 1, j - 1) /\ Before(D, j) \in Nat
  <2>1. SubSeq(B, 1, j - 1) \in Seq(Seq(Int)) /\ SubSeq(D, 1, j - 1) \in Seq(Seq(Int))
    BY <1>1 DEF n
  <2>2. Len(SubSeq(B, 1, j - 1)) = j - 1 /\ Len(SubSeq(D, 1, j - 1)) = j - 1
    BY <1>1 DEF n
  <2>3. \A k \in 1 .. j - 1 : SubSeq(B, 1, j - 1)[k] = SubSeq(D, 1, j - 1)[k]
    BY <1>1 DEF n
  <2>4. FlattenSeq(SubSeq(D, 1, j - 1)) \in Seq(Int)
    BY <2>1, FlattenTyped
  <2> QED
    BY <2>1, <2>2, <2>3, <2>4, SeqEqual DEF Before
<1>5. Len(FlattenSeq(D) \o C) = Len(FlattenSeq(D)) + Len(C) /\ Len(FlattenSeq(D)) \in Nat /\ Len(C) \in Nat
  BY <1>3, ConcatProperties
<1>6. n + 1 - 1 = n /\ n + 2 - 1 = n + 1
  BY <1>1
<1>7. Before(D, n + 1) = Len(FlattenSeq(D)) /\ Before(B, n + 2) = Len(FlattenSeq(D)) + Len(C)
  <2>1. Before(D, n + 1) = Len(FlattenSeq(SubSeq(D, 1, n)))
    <3> DEFINE p == n + 1
    <3>1. p - 1 = n
      BY <1>1
    <3> HIDE DEF p
    <3>2. Before(D, p) = Len(FlattenSeq(SubSeq(D, 1, n)))
      BY <3>1, Zenon DEF Before
    <3> QED
      BY <3>2 DEF p
  <2>2. Before(B, n + 2) = Len(FlattenSeq(SubSeq(B, 1, n + 1)))
    <3> DEFINE p == n + 2
    <3>1. p - 1 = n + 1
      BY <1>1
    <3> HIDE DEF p
    <3>2. Before(B, p) = Len(FlattenSeq(SubSeq(B, 1, n + 1)))
      BY <3>1, Zenon DEF Before
    <3> QED
      BY <3>2 DEF p
  <2> QED
    BY <1>2, <1>3, <1>5, <2>1, <2>2, Zenon
<1> QED
  BY <1>4, <1>5, <1>7 DEF Before, B, n

(* Each command line keeps to -L too: no line of the input ends in it more *)
(* than L times, the last of them with it.                                 *)
KeepsLines(c, M, b, j) == c.L > 0 => MarksIn(M, Before(b, j), Before(b, j + 1) - 1) < c.L
Stop(c, M, b, j) == /\ c.L > 0 /\ Before(b, j + 1) \in M
                    /\ MarksIn(M, Before(b, j), Before(b, j + 1)) = c.L
Shut(c, M, b, j, x) == Tight(c, b[j], x) \/ Stop(c, M, b, j)

BatchKept(c, M, items, i, a) ==
  /\ a.done \in Seq(Seq(Int)) /\ a.current \in Seq(Int)
  /\ FlattenSeq(a.done) \o a.current = SubSeq(items, 1, i)
  /\ a.len = Size(a.current)
  /\ (a.current = <<>> <=> i = 0) /\ Len(a.current) <= i /\ (i = 0 => a.done = <<>>)
  /\ Within(c, a.current) /\ \A j \in 1 .. Len(a.done) : Within(c, a.done[j])
  /\ \A j \in 1 .. Len(a.done) - 1 : Shut(c, M, a.done, j, a.done[j + 1][1])
  /\ a.done # <<>> => Shut(c, M, a.done, Len(a.done), a.current[1])
LinesKept(c, M, i, a) ==
  /\ a.used = MarksIn(M, Len(FlattenSeq(a.done)), i)
  /\ c.L > 0 => MarksIn(M, Len(FlattenSeq(a.done)), i - 1) < c.L
  /\ \A j \in 1 .. Len(a.done) : KeepsLines(c, M, a.done, j)
  /\ \A j \in 1 .. Len(a.done) + 1 : Before(a.done, j) <= i
Marking(c, items, ends, M) ==
  /\ ends \in Seq(BOOLEAN) /\ M = {k \in 1 .. Len(ends) : ends[k]}
  /\ c.L > 0 => Len(items) <= Len(ends) \/ Len(items) <= 1

(* Stop and KeepsLines look at the command lines before the last only.     *)
LEMMA AppendKeeps ==
  ASSUME NEW c, NEW M, NEW D \in Seq(Seq(Int)), NEW C \in Seq(Int), NEW j \in 1 .. Len(D)
  PROVE  /\ KeepsLines(c, M, Append(D, C), j) <=> KeepsLines(c, M, D, j)
         /\ \A x : Shut(c, M, Append(D, C), j, x) <=> Shut(c, M, D, j, x)
<1>1. Append(D, C)[j] = D[j] /\ j \in 1 .. Len(D) + 1 /\ j + 1 \in 1 .. Len(D) + 1
  OBVIOUS
<1>2. Before(Append(D, C), j) = Before(D, j) /\ Before(Append(D, C), j + 1) = Before(D, j + 1)
  BY <1>1, BeforeAppend
<1> QED
  BY <1>1, <1>2, Zenon DEF KeepsLines, Shut, Stop

(* One turn of the loop, as to lines.                                      *)
LEMMA LineStep ==
  ASSUME NEW c \in Configuration, NEW items \in Seq(Int), NEW ends, NEW M, Marking(c, items, ends, M),
         NEW i \in 1 .. Len(items), NEW n, NEW a, NEW D \in Seq(Seq(Int)), NEW C \in Seq(Int),
         D = a.done, C = a.current, LinesKept(c, M, i - 1, a),
         Len(FlattenSeq(D)) + Len(C) = i - 1, C = <<>> <=> i = 1
  PROVE  LET b == BatchStep(items, ends, n, c.L, c.s, a, i)
             due == c.L > 0 /\ i > 1 /\ ends[i - 1] /\ a.used >= c.L
         IN /\ b.done = D \/ b.done = Append(D, C) => LinesKept(c, M, i, b)
            /\ due => Stop(c, M, Append(D, C), Len(D) + 1)
<1> DEFINE b == BatchStep(items, ends, n, c.L, c.s, a, i)
           due == c.L > 0 /\ i > 1 /\ ends[i - 1] /\ a.used >= c.L
           F == Len(FlattenSeq(D))
           m == Len(D)
           L == c.L
           B == Append(D, C)
<1>1. L \in Int /\ Len(items) \in Nat /\ i \in Int /\ i >= 1 /\ i <= Len(items) /\ m \in Nat
  BY DEF Configuration
<1>2. /\ F \in Nat /\ F <= i - 1 /\ (i > 1 => F < i - 1) /\ (i = 1 => F = 0)
      /\ \A j \in 1 .. m + 1 : Before(B, j) = Before(D, j)
      /\ Before(D, m + 1) = F /\ Before(B, m + 2) = i - 1
  <2>1. /\ Len(C) \in Nat /\ F + Len(C) = i - 1 /\ (Len(C) = 0 <=> i = 1) /\ F \in Nat
    BY EmptySeq, BeforeAppend
  <2>2. /\ \A j \in 1 .. m + 1 : Before(B, j) = Before(D, j)
        /\ Before(D, m + 1) = F /\ Before(B, m + 2) = i - 1
    BY <2>1, BeforeAppend
  <2> HIDE DEF F, B, m
  <2> QED
    BY <1>1, <2>1, <2>2
<1>3. /\ a.used = MarksIn(M, F, i - 1) /\ (L > 0 => MarksIn(M, F, i - 1 - 1) < L)
      /\ \A j \in 1 .. m : KeepsLines(c, M, D, j)
      /\ \A j \in 1 .. m + 1 : Before(D, j) <= i - 1 /\ Before(D, j) \in Nat
  BY BeforeAppend DEF LinesKept
<1>4. ends \in Seq(BOOLEAN) /\ M = {k \in 1 .. Len(ends) : ends[k]} /\ Len(ends) \in Nat
      /\ (L > 0 => Len(items) <= Len(ends) \/ Len(items) <= 1)
  BY DEF Marking
<1>5. L > 0 /\ i > 1 => (ends[i - 1] <=> i - 1 \in M)
  <2>1. L > 0 /\ i > 1 => i - 1 \in 1 .. Len(ends)
    BY <1>1, <1>4
  <2> QED
    BY <1>4, <2>1, Zenon
<1>6. IF i \in M THEN i \in DOMAIN ends /\ ends[i] ELSE ~ (i \in DOMAIN ends /\ ends[i])
  BY <1>4
<1>7. /\ b.done = D \/ b.done = B
      /\ b.done = IF C /= <<>> /\ (Len(C) >= n \/ (c.s > 0 /\ a.len + items[i] + 1 > c.s) \/ due) THEN B ELSE D
      /\ b.used = (IF C /= <<>> /\ (Len(C) >= n \/ (c.s > 0 /\ a.len + items[i] + 1 > c.s) \/ due)
                   THEN 0 ELSE a.used) + (IF i \in M THEN 1 ELSE 0)
  BY <1>6 DEF BatchStep
<1> DEFINE new == C /= <<>> /\ (Len(C) >= n \/ (c.s > 0 /\ a.len + items[i] + 1 > c.s) \/ due)
           one == IF i \in M THEN 1 ELSE 0
<1>8. b.done = (IF new THEN B ELSE D) /\ b.used = (IF new THEN 0 ELSE a.used) + one /\ one \in {0, 1}
  BY <1>7
<1>9. due => i > 1 /\ L > 0 /\ i - 1 \in M /\ a.used >= L
  BY <1>5
<1>10. ~ new /\ C /= <<>> /\ L > 0 /\ i - 1 \in M => ~ (a.used >= L)
  BY <1>5, <1>1
<1>11. /\ MarksIn(M, F, i - 1) \in Nat /\ MarksIn(M, F, i - 1 - 1) \in Nat
       /\ (i > 1 => MarksIn(M, F, i - 1) = MarksIn(M, F, i - 1 - 1) + IF i - 1 \in M THEN 1 ELSE 0)
       /\ (i = 1 => MarksIn(M, F, i - 1) = 0)
       /\ MarksIn(M, F, i) = MarksIn(M, F, i - 1) + one
       /\ MarksIn(M, i - 1, i - 1) = 0 /\ MarksIn(M, i - 1, i) = one
  <2>1. F \in Int /\ i - 1 \in Int /\ i - 1 - 1 \in Int
    BY <1>1, <1>2
  <2> HIDE DEF F
  <2>2. MarksIn(M, F, i - 1) \in Nat /\ MarksIn(M, F, i - 1 - 1) \in Nat
    BY <2>1, MarksCount
  <2>3. i > 1 => MarksIn(M, F, i - 1) = MarksIn(M, F, i - 1 - 1) + IF i - 1 \in M THEN 1 ELSE 0
    BY <1>2, <2>1, MarksCount
  <2>4. i = 1 => MarksIn(M, F, i - 1) = 0
    BY <1>2, <2>1, MarksCount
  <2>5. MarksIn(M, F, i) = MarksIn(M, F, i - 1) + one
    BY <1>1, <1>2, <2>1, MarksCount
  <2>6. MarksIn(M, i - 1, i - 1) = 0 /\ MarksIn(M, i - 1, i) = MarksIn(M, i - 1, i - 1) + one
    BY <1>1, <2>1, MarksCount
  <2> QED
    BY <2>2, <2>3, <2>4, <2>5, <2>6, <1>8
<1>12. ASSUME due PROVE Stop(c, M, B, m + 1)
  <2>0. i > 1 /\ L > 0 /\ i - 1 \in M /\ a.used >= L
    BY <1>9, <1>12
  <2> HIDE DEF due, F, L, B, m
  <2>1. MarksIn(M, F, i - 1) = L /\ L > 0 /\ i - 1 \in M
    BY <1>1, <1>3, <1>11, <2>0
  <2>2. Before(B, m + 1 + 1) = i - 1 /\ Before(B, m + 1) = F
    <3>1. m + 1 \in 1 .. m + 1 /\ m + 1 + 1 = m + 2
      BY <1>1
    <3> QED
      BY <1>2, <3>1
  <2> QED
    BY <2>1, <2>2, Zenon DEF Stop, L
<1>13. CASE new
  <2>1. b.done = B /\ b.used = one
    BY <1>8, <1>13
  <2>2. Len(FlattenSeq(B)) = i - 1
    <3>1. FlattenSeq(B) = FlattenSeq(D) \o C /\ FlattenSeq(D) \in Seq(Int)
      BY FlattenAppend, FlattenTyped
    <3>2. Len(FlattenSeq(D) \o C) = Len(FlattenSeq(D)) + Len(C)
      BY <3>1, ConcatProperties, Zenon
    <3> QED
      BY <3>1, <3>2, Zenon
  <2>3. L > 0 => MarksIn(M, i - 1, i - 1) < L
    BY <1>1, <1>11
  <2>4. ASSUME NEW j \in 1 .. Len(B) PROVE KeepsLines(c, M, B, j)
    <3>1. CASE j \in 1 .. m
      BY <1>3, <3>1, AppendKeeps
    <3>2. CASE j \notin 1 .. m
      <4>0. Len(B) = m + 1
        OBVIOUS
      <4> HIDE DEF B, F, m
      <4>1. j = m + 1 /\ j + 1 = m + 2
        BY <1>1, <3>2, <4>0
      <4>2. Before(B, j) = F /\ Before(B, j + 1) - 1 = i - 1 - 1
        <5>1. m + 1 \in 1 .. m + 1
          BY <1>1
        <5> QED
          BY <1>2, <4>1, <5>1
      <4> QED
        BY <1>3, <4>2, Zenon DEF KeepsLines
    <3> QED
      BY <3>1, <3>2
  <2>5. ASSUME NEW j \in 1 .. Len(B) + 1 PROVE Before(B, j) <= i
    <3>1. Len(B) = m + 1
      OBVIOUS
    <3> HIDE DEF B, m, F
    <3>2. j \in 1 .. m + 1 \/ j = m + 2
      BY <1>1, <3>1
    <3>3. j \in 1 .. m + 1 => Before(B, j) <= i
      BY <1>1, <1>2, <1>3
    <3> QED
      BY <1>1, <1>2, <3>2, <3>3
  <2>6. LinesKept(c, M, i, b)
    BY <1>11, <2>1, <2>2, <2>3, <2>4, <2>5, Zenon DEF LinesKept
  <2> QED
    BY <1>12, <2>6
<1>14. CASE ~ new
  <2>1. b.done = D /\ b.used = a.used + one
    BY <1>8, <1>14
  <2>2. b.used = MarksIn(M, F, i)
    BY <1>3, <1>11, <2>1
  <2>3. ASSUME L > 0 PROVE MarksIn(M, F, i - 1) < L
    <3>1. CASE i = 1
      BY <1>1, <1>11, <2>3, <3>1
    <3>2. CASE i # 1
      <4>1. i > 1 /\ C # <<>>
        BY <1>1, <3>2
      <4>2. CASE i - 1 \in M
        <5>1. ~ (a.used >= L)
          BY <1>10, <1>14, <2>3, <4>1, <4>2
        <5> QED
          BY <1>1, <1>3, <1>11, <5>1
      <4>3. CASE i - 1 \notin M
        BY <1>1, <1>3, <1>11, <2>3, <4>1, <4>3
      <4> QED
        BY <4>2, <4>3
    <3> QED
      BY <3>1, <3>2
  <2>4. \A j \in 1 .. m + 1 : Before(D, j) <= i
    BY <1>1, <1>3
  <2>5. LinesKept(c, M, i, b)
    BY <1>3, <2>1, <2>2, <2>3, <2>4, Zenon DEF LinesKept
  <2> QED
    BY <1>12, <2>5
<1> QED
  BY <1>13, <1>14

LEMMA SizeOfOne == ASSUME NEW x \in Int PROVE Size(<<x>>) = Prefix + x + 1 /\ Size(<<x>>) \in Int
<1>1. <<>> \in Seq(Int) /\ <<x>> \in Seq(Int) /\ Append(<<>>, x) = <<x>>
  OBVIOUS
<1> QED
  BY <1>1, SizeGrows

(* One turn of the loop: a full command line is closed, and only then.     *)
LEMMA BatchStepKeeps ==
  ASSUME NEW c \in Configuration, c.n >= 0, NEW items \in Seq(Int), NEW ends, NEW M, Marking(c, items, ends, M),
         NEW i \in 1 .. Len(items), NEW a, BatchKept(c, M, items, i - 1, a), LinesKept(c, M, i - 1, a)
  PROVE  LET b == BatchStep(items, ends, Most(c, items), c.L, c.s, a, i)
         IN BatchKept(c, M, items, i, b) /\ LinesKept(c, M, i, b)
<1> DEFINE N == Most(c, items)
           x == items[i]
           D == a.done
           C == a.current
           full == \/ Len(C) >= N
                   \/ c.s > 0 /\ a.len + x + 1 > c.s
                   \/ c.L > 0 /\ i > 1 /\ ends[i - 1] /\ a.used >= c.L
           new == C /= <<>> /\ full
           b == BatchStep(items, ends, N, c.L, c.s, a, i)
<1>1. /\ c.n \in Nat /\ c.s \in Int /\ c.L \in Int /\ c.I \in BOOLEAN
      /\ x \in Int /\ Len(items) \in Nat /\ i \in Int /\ i >= 1 /\ i <= Len(items)
  BY DEF Configuration
<1>2. AtMost(c) \in Nat /\ N \in Nat /\ (AtMost(c) > 0 => N = AtMost(c)) /\ (AtMost(c) = 0 => N = Len(items))
  BY <1>1 DEF AtMost, Most
<1>3. /\ D \in Seq(Seq(Int)) /\ C \in Seq(Int) /\ FlattenSeq(D) \in Seq(Int)
      /\ FlattenSeq(D) \o C = SubSeq(items, 1, i - 1)
      /\ a.len = Size(C) /\ Size(C) \in Int /\ Len(C) \in Nat
      /\ (C = <<>> <=> i - 1 = 0) /\ Len(C) <= i - 1 /\ (i - 1 = 0 => D = <<>>)
  <2>1. /\ D \in Seq(Seq(Int)) /\ C \in Seq(Int)
        /\ FlattenSeq(D) \o C = SubSeq(items, 1, i - 1) /\ a.len = Size(C)
        /\ (C = <<>> <=> i - 1 = 0) /\ Len(C) <= i - 1 /\ (i - 1 = 0 => D = <<>>)
    BY DEF BatchKept
  <2> HIDE DEF D, C
  <2>2. FlattenSeq(D) \in Seq(Int)
    BY <2>1, FlattenTyped
  <2>3. Size(C) \in Int
    BY <2>1, SizeGrows
  <2>4. Len(C) \in Nat
    BY <2>1
  <2> QED
    BY <2>1, <2>2, <2>3, <2>4
<1>4. Within(c, C) /\ \A j \in 1 .. Len(D) : Within(c, D[j])
  BY DEF BatchKept
<1>5. /\ \A j \in 1 .. Len(D) - 1 : Shut(c, M, D, j, D[j + 1][1])
      /\ D # <<>> => Shut(c, M, D, Len(D), C[1])
  BY DEF BatchKept
<1>6. /\ b.done = IF new THEN Append(D, C) ELSE D
      /\ b.current = IF new THEN <<x>> ELSE Append(C, x)
      /\ b.len = (IF new THEN Prefix ELSE a.len) + x + 1
  BY DEF BatchStep
<1>7. SubSeq(items, 1, i) = SubSeq(items, 1, i - 1) \o <<x>>
  BY Extended
<1>8. /\ new => \/ Len(C) >= N \/ (c.s > 0 /\ Size(C) + x + 1 > c.s)
                \/ Stop(c, M, Append(D, C), Len(D) + 1)
      /\ LinesKept(c, M, i, b)
  <2> DEFINE due == c.L > 0 /\ i > 1 /\ ends[i - 1] /\ a.used >= c.L
  <2>1. Len(FlattenSeq(D)) + Len(C) = i - 1
    <3>1. Len(FlattenSeq(D) \o C) = Len(FlattenSeq(D)) + Len(C)
      BY <1>3, ConcatProperties, Zenon
    <3>2. Len(SubSeq(items, 1, i - 1)) = i - 1
      OBVIOUS
    <3> QED
      BY <1>3, <3>1, <3>2, Zenon
  <2>2. C = <<>> <=> i = 1
    BY <1>1, <1>3
  <2>3. b.done = D \/ b.done = Append(D, C)
    BY <1>6
  <2> HIDE DEF C, D, N
  <2>4. LinesKept(c, M, i, b) /\ (due => Stop(c, M, Append(D, C), Len(D) + 1))
    BY <1>3, <2>1, <2>2, <2>3, LineStep DEF C, D
  <2>5. new => Len(C) >= N \/ (c.s > 0 /\ Size(C) + x + 1 > c.s) \/ due
    BY <1>3, Zenon
  <2> QED
    BY <2>4, <2>5, Zenon
<1>9. ~ new => C = <<>> \/ (Len(C) < N /\ (c.s > 0 => Size(C) + x + 1 <= c.s))
  <2> DEFINE k == Len(C)
             z == Size(C)
  <2>1. k \in Nat /\ z \in Int /\ N \in Nat /\ x \in Int /\ c.s \in Int /\ a.len = z
    BY <1>1, <1>2, <1>3
  <2>2. ~ new => C = <<>> \/ (~ (k >= N) /\ ~ (c.s > 0 /\ z + x + 1 > c.s))
    BY <2>1
  <2> HIDE DEF N, x, k, z, new
  <2>3. ~ new => C = <<>> \/ (k < N /\ (c.s > 0 => z + x + 1 <= c.s))
    BY <2>1, <2>2
  <2> QED
    BY <2>3 DEF k, z
<1>10. FlattenSeq(D) \o Append(C, x) = SubSeq(items, 1, i)
  <2> HIDE DEF D, C, x
  <2>1. Append(C, x) = C \o <<x>> /\ <<x>> \in Seq(Int)
    <3>1. C \in Seq(Int) /\ x \in Int
      BY <1>1, <1>3
    <3> QED
      BY <3>1, AppendIsConcat
  <2>2. (FlattenSeq(D) \o C) \o <<x>> = FlattenSeq(D) \o (C \o <<x>>)
    BY <1>3, <2>1, Associative
  <2> QED
    BY <1>3, <1>7, <2>1, <2>2
<1> HIDE DEF N, x, full, new, b, D, C
<1>11. CASE new
  <2>1. b.done = Append(D, C) /\ b.current = <<x>> /\ b.len = Prefix + x + 1 /\ C # <<>>
    BY <1>6, <1>11 DEF new
  <2>2. Len(b.done) = Len(D) + 1 /\ b.done[Len(D) + 1] = C /\ Len(D) \in Nat
        /\ \A j \in 1 .. Len(D) : b.done[j] = D[j]
    BY <1>3, <2>1
  <2>3. b.done \in Seq(Seq(Int)) /\ b.current \in Seq(Int) /\ Len(b.current) = 1 /\ b.current[1] = x
    BY <1>1, <1>3, <2>1
  <2>4. FlattenSeq(b.done) \o b.current = SubSeq(items, 1, i)
    <3>1. FlattenSeq(Append(D, C)) = FlattenSeq(D) \o C
      BY <1>3, FlattenAppend
    <3> QED
      BY <1>3, <1>7, <2>1, <3>1
  <2>5. b.len = Size(b.current)
    BY <1>1, <2>1, SizeOfOne
  <2>6. b.current # <<>> /\ i # 0 /\ Len(b.current) <= i
    BY <1>1, <2>3
  <2>7. Within(c, b.current)
    BY <1>2, <2>3 DEF Within
  <2>8. \A j \in 1 .. Len(b.done) : Within(c, b.done[j])
    <3> TAKE j \in 1 .. Len(b.done)
    <3>1. CASE j = Len(D) + 1
      BY <1>4, <2>2, <3>1
    <3>2. CASE j # Len(D) + 1
      <4>1. j \in 1 .. Len(D)
        BY <2>2, <3>2
      <4> QED
        BY <1>4, <2>2, <4>1
    <3> QED
      BY <3>1, <3>2
  <2>9. Tight(c, C, x) \/ Stop(c, M, Append(D, C), Len(D) + 1)
    <3>1. CASE Len(C) >= N
      <4>1. AtMost(c) > 0
        BY <1>1, <1>2, <1>3, <3>1
      <4>2. Len(C) <= AtMost(c)
        BY <1>4, <4>1 DEF Within
      <4> QED
        BY <1>2, <1>3, <3>1, <4>1, <4>2 DEF Tight
    <3>2. CASE c.s > 0 /\ Size(C) + x + 1 > c.s
      BY <3>2 DEF Tight
    <3> QED
      BY <1>8, <1>11, <3>1, <3>2
  <2>10. ASSUME NEW j \in 1 .. Len(b.done) - 1 PROVE Shut(c, M, b.done, j, b.done[j + 1][1])
    <3>1. j \in 1 .. Len(D) /\ \A z : Shut(c, M, b.done, j, z) <=> Shut(c, M, D, j, z)
      <4>1. j \in 1 .. Len(D)
        BY <2>2
      <4>2. \A z : Shut(c, M, Append(D, C), j, z) <=> Shut(c, M, D, j, z)
        <5>1. D \in Seq(Seq(Int)) /\ C \in Seq(Int)
          BY <1>3
        <5> QED
          BY <4>1, <5>1, AppendKeeps
      <4> QED
        BY <2>1, <4>1, <4>2
    <3>2. CASE j = Len(D)
      <4>1. b.done[j + 1] = C /\ D # <<>>
        BY <1>3, <2>2, <3>1, <3>2
      <4> QED
        BY <1>5, <3>1, <3>2, <4>1
    <3>3. CASE j # Len(D)
      <4>1. j \in 1 .. Len(D) - 1 /\ j + 1 \in 1 .. Len(D)
        BY <2>2, <3>1, <3>3
      <4>2. b.done[j + 1] = D[j + 1]
        BY <2>2, <4>1
      <4> QED
        BY <1>5, <3>1, <4>1, <4>2
    <3> QED
      BY <3>2, <3>3
  <2>11. Shut(c, M, b.done, Len(b.done), b.current[1])
    BY <2>1, <2>2, <2>3, <2>9 DEF Shut
  <2>12. BatchKept(c, M, items, i, b)
    BY <2>3, <2>4, <2>5, <2>6, <2>7, <2>8, <2>10, <2>11 DEF BatchKept
  <2> QED
    BY <1>8, <2>12 DEF b, N
<1>12. CASE ~ new
  <2>1. b.done = D /\ b.current = Append(C, x) /\ b.len = a.len + x + 1
    BY <1>6, <1>12
  <2>2. b.current \in Seq(Int) /\ Len(b.current) = Len(C) + 1 /\ b.current[1] = IF C = <<>> THEN x ELSE C[1]
    BY <1>1, <1>3, <2>1
  <2>3. b.len = Size(b.current) /\ Size(b.current) = Size(C) + x + 1
    BY <1>1, <1>3, <2>1, SizeGrows
  <2>4. b.current # <<>> /\ i # 0 /\ Len(b.current) <= i
    <3> DEFINE k == Len(C)
    <3>1. k \in Nat /\ k <= i - 1 /\ Len(b.current) = k + 1
      BY <1>3, <2>2
    <3> HIDE DEF k
    <3>2. Len(b.current) # 0 /\ Len(b.current) <= i /\ i # 0
      BY <1>1, <3>1
    <3> QED
      BY <3>2
  <2>5. Within(c, b.current)
    <3>1. CASE C = <<>>
      BY <1>2, <2>2, <3>1 DEF Within
    <3>2. CASE C # <<>>
      <4>1. Len(C) < N /\ (c.s > 0 => Size(C) + x + 1 <= c.s)
        BY <1>9, <1>12, <3>2
      <4>2. Len(C) \in Nat /\ Size(C) \in Int /\ c.s \in Int
        BY <1>1, <1>3
      <4>3. AtMost(c) > 0 => Len(b.current) <= AtMost(c)
        BY <1>2, <2>2, <4>1, <4>2
      <4>4. c.s > 0 => Size(b.current) <= c.s
        BY <1>1, <2>3, <4>1, <4>2
      <4> QED
        BY <4>3, <4>4 DEF Within
    <3> QED
      BY <3>1, <3>2
  <2>6. ASSUME D # <<>> PROVE Shut(c, M, D, Len(D), b.current[1])
    <3>1. C # <<>>
      BY <1>3, <2>6
    <3> QED
      BY <1>5, <2>2, <2>6, <3>1
  <2>7. BatchKept(c, M, items, i, b)
    BY <1>3, <1>4, <1>5, <1>10, <2>1, <2>2, <2>3, <2>4, <2>5, <2>6 DEF BatchKept
  <2> QED
    BY <1>8, <2>7 DEF b, N
<1> QED
  BY <1>11, <1>12

(* The loop to its end, and the empty input, which makes one empty line.   *)
LEMMA BatchesRight ==
  ASSUME NEW c \in Configuration, c.n >= 0, NEW items \in Seq(Int), NEW ends, NEW M, Marking(c, items, ends, M)
  PROVE  LET b == Batches(c, items, ends)
         IN /\ b \in Seq(Seq(Int)) /\ FlattenSeq(b) = items
            /\ \A j \in DOMAIN b : Within(c, b[j]) /\ KeepsLines(c, M, b, j)
            /\ \A j \in 1 .. Len(b) - 1 : Shut(c, M, b, j, b[j + 1][1])
            /\ \A j \in 1 .. Len(b) + 1 : Before(b, j) \in Nat /\ Before(b, j) <= Len(items)
<1> DEFINE n == Len(items)
           B == Batches(c, items, ends)
<1>1. n \in Nat /\ DOMAIN items = 1 .. n
  OBVIOUS
<1>2. CASE items = <<>>
  <2>1. B = <<(<<>>)>>
    BY <1>2 DEF Batches
  <2>2. FlattenSeq(B) = <<>>
    <3>1. <<(<<>>)>> = Append(<<>>, <<>>) /\ <<>> \in Seq(Int) /\ <<>> \in Seq(Seq(Int))
      OBVIOUS
    <3>2. FlattenSeq(Append(<<>>, <<>>)) = <<>> \o <<>>
      BY <3>1, FlattenEmpty, FlattenAppend
    <3> QED
      BY <2>1, <3>1, <3>2, ConcatEmptySeq
  <2>3. DOMAIN B = 1 .. 1 /\ B[1] = <<>> /\ Len(B) = 1
    BY <2>1
  <2>4. AtMost(c) \in Int
    BY DEF AtMost, Configuration
  <2>5. Len(<<>>) = 0
    OBVIOUS
  <2>6. Within(c, <<>>)
    BY <2>4, <2>5 DEF Within
  <2> HIDE DEF B
  <2>7. B = Append(<<>>, <<>>) /\ <<>> \in Seq(Seq(Int)) /\ <<>> \in Seq(Int)
    BY <2>1
  <2>8. Before(B, 1) = 0 /\ Before(B, 2) = 0
    <3>1. /\ \A k \in 1 .. Len(<<>>) + 1 : Before(Append(<<>>, <<>>), k) = Before(<<>>, k)
          /\ Before(<<>>, Len(<<>>) + 1) = Len(FlattenSeq(<<>>))
          /\ Before(Append(<<>>, <<>>), Len(<<>>) + 2) = Len(FlattenSeq(<<>>)) + Len(<<>>)
      BY <2>7, BeforeAppend
    <3>2. Len(<<>>) + 1 = 1 /\ Len(<<>>) + 2 = 2 /\ 1 \in 1 .. 1 /\ 0 + 0 = 0
      BY <2>5
    <3> QED
      BY <2>5, <2>7, <3>1, <3>2, FlattenEmpty
  <2>9. KeepsLines(c, M, B, 1)
    <3>1. MarksIn(M, 0, 0 - 1) = 0
      BY MarksCount
    <3>2. Before(B, 1 + 1) = 0
      BY <2>8
    <3> QED
      BY <2>8, <3>1, <3>2 DEF KeepsLines
  <2>10. \A j \in 1 .. 2 : Before(B, j) \in Nat /\ Before(B, j) <= Len(items)
    <3>1. \A j \in 1 .. 2 : j = 1 \/ j = 2
      OBVIOUS
    <3> QED
      BY <1>1, <2>8, <3>1
  <2>11. \A j \in 1 .. Len(B) - 1 : FALSE
    BY <2>3
  <2>12. \A j \in DOMAIN B : j = 1
    BY <2>3
  <2>13. Len(B) + 1 = 2 /\ B \in Seq(Seq(Int))
    BY <2>3, <2>7
  <2> QED
    BY <1>2, <2>2, <2>3, <2>6, <2>9, <2>10, <2>11, <2>12, <2>13 DEF B
<1>3. CASE items # <<>>
  <2> HIDE DEF n
  <2>1. PICK f : BatchLoop(c, items, ends, n, f)
    BY <1>1, BatchSteps
  <2>3. /\ f[0] = NoBatch /\ Batches(c, items, ends) = Append(f[n].done, f[n].current)
        /\ \A i \in 1 .. n : f[i] = BatchStep(items, ends, Most(c, items), c.L, c.s, f[i - 1], i)
    BY <1>3, <2>1 DEF BatchLoop
  <2> DEFINE T == {i \in 0 .. n : BatchKept(c, M, items, i, f[i]) /\ LinesKept(c, M, i, f[i])}
  <2>4. 0 \in T /\ T \in SUBSET (0 .. n)
    <3>1. f[0].done = <<>> /\ f[0].current = <<>> /\ f[0].len = Prefix /\ f[0].used = 0
      BY <2>3 DEF NoBatch
    <3>2. <<>> \in Seq(Int) /\ <<>> \in Seq(Seq(Int)) /\ Len(<<>>) = 0
      OBVIOUS
    <3>3. FlattenSeq(<<>>) \o <<>> = SubSeq(items, 1, 0)
      <4>1. SubSeq(items, 1, 0) = <<>>
        OBVIOUS
      <4>2. <<>> \o <<>> = <<>>
        BY <3>2, ConcatEmptySeq
      <4> QED
        BY <4>1, <4>2, FlattenEmpty
    <3>4. AtMost(c) \in Int
      BY DEF AtMost, Configuration
    <3>5. Within(c, <<>>)
      BY <3>2, <3>4 DEF Within
    <3>6. Size(<<>>) = Prefix
      BY <3>2, SizeGrows
    <3>7. BatchKept(c, M, items, 0, f[0])
      BY <3>1, <3>2, <3>3, <3>5, <3>6 DEF BatchKept
    <3>8. 0 \in 0 .. n
      BY <1>1
    <3>9. LinesKept(c, M, 0, f[0])
      <4>1. MarksIn(M, 0, 0) = 0 /\ MarksIn(M, 0, 0 - 1) = 0
        BY MarksCount
      <4>2. Len(FlattenSeq(f[0].done)) = 0 /\ Len(f[0].done) = 0
        BY <3>1, <3>2, FlattenEmpty
      <4>3. c.L > 0 => 0 < c.L
        OBVIOUS
      <4>4. \A j \in 1 .. Len(f[0].done) : FALSE
        BY <4>2
      <4>5. \A j \in 1 .. Len(f[0].done) + 1 : Before(f[0].done, j) <= 0
        <5>1. Before(<<>>, Len(<<>>) + 1) = Len(FlattenSeq(<<>>))
          BY <3>2, BeforeAppend
        <5>2. Len(<<>>) + 1 = 1 /\ \A j \in 1 .. 0 + 1 : j = 1
          BY <3>2
        <5> QED
          BY <3>1, <4>2, <5>1, <5>2
      <4> QED
        BY <3>1, <4>1, <4>2, <4>3, <4>4, <4>5 DEF LinesKept
    <3> QED
      BY <3>7, <3>8, <3>9
  <2>5. ASSUME NEW k \in T, k < n PROVE k + 1 \in T
    <3> DEFINE i == k + 1
    <3>1. i \in 1 .. n /\ i \in 0 .. n /\ i - 1 = k
      BY <1>1, <2>5
    <3>2. BatchKept(c, M, items, k, f[k]) /\ LinesKept(c, M, k, f[k])
      OBVIOUS
    <3> HIDE DEF i
    <3>3. f[i] = BatchStep(items, ends, Most(c, items), c.L, c.s, f[k], i)
      BY <2>3, <3>1
    <3>4. BatchKept(c, M, items, i - 1, f[k]) /\ LinesKept(c, M, i - 1, f[k]) /\ i \in 1 .. Len(items)
      BY <3>1, <3>2 DEF n
    <3>5. BatchKept(c, M, items, i, f[i]) /\ LinesKept(c, M, i, f[i])
      BY <3>3, <3>4, BatchStepKeeps
    <3>6. i \in T
      BY <3>1, <3>5
    <3> QED
      BY <3>6 DEF i
  <2> HIDE DEF T
  <2>6. T = 0 .. n
    BY <1>1, <2>4, <2>5, UpTo
  <2>7. BatchKept(c, M, items, n, f[n]) /\ LinesKept(c, M, n, f[n])
    <3>1. n \in 0 .. n
      BY <1>1
    <3> QED
      BY <2>6, <3>1 DEF T
  <2> DEFINE D == f[n].done
             C == f[n].current
  <2>8. /\ D \in Seq(Seq(Int)) /\ C \in Seq(Int) /\ FlattenSeq(D) \o C = SubSeq(items, 1, n)
        /\ Within(c, C) /\ \A j \in 1 .. Len(D) : Within(c, D[j])
    BY <2>7 DEF BatchKept
  <2>9. /\ \A j \in 1 .. Len(D) - 1 : Shut(c, M, D, j, D[j + 1][1])
        /\ D # <<>> => Shut(c, M, D, Len(D), C[1])
        /\ \A j \in 1 .. Len(D) : KeepsLines(c, M, D, j)
        /\ c.L > 0 => MarksIn(M, Len(FlattenSeq(D)), n - 1) < c.L
        /\ \A j \in 1 .. Len(D) + 1 : Before(D, j) <= n
    BY <2>7 DEF BatchKept, LinesKept
  <2>10. B = Append(D, C)
    BY <1>3, <2>3
  <2> HIDE DEF D, C, B
  <2>11. FlattenSeq(B) = items
    <3>1. SubSeq(items, 1, n) = items
      BY SubSeqFull DEF n
    <3> QED
      BY <2>8, <2>10, <3>1, FlattenAppend
  <2>12. /\ Len(B) = Len(D) + 1 /\ DOMAIN B = 1 .. Len(D) + 1 /\ Len(D) \in Nat /\ B[Len(D) + 1] = C
         /\ B \in Seq(Seq(Int)) /\ \A j \in 1 .. Len(D) : B[j] = D[j]
    BY <2>8, <2>10
  <2>15. /\ \A j \in 1 .. Len(D) + 1 : Before(B, j) = Before(D, j) /\ Before(B, j) \in Nat
         /\ Before(B, Len(D) + 1) = Len(FlattenSeq(D)) /\ Before(B, Len(D) + 2) = n
    <3>1. Len(FlattenSeq(D)) + Len(C) = n
      <4>1. Len(FlattenSeq(D) \o C) = Len(FlattenSeq(D)) + Len(C)
        BY <2>8, FlattenTyped, ConcatProperties
      <4>2. Len(SubSeq(items, 1, n)) = n
        BY <1>1
      <4> QED
        BY <2>8, <4>1, <4>2
    <3>2. Len(D) + 1 \in 1 .. Len(D) + 1
      BY <2>12
    <3> QED
      BY <2>8, <2>10, <3>1, <3>2, BeforeAppend
  <2>16. ASSUME NEW j \in 1 .. Len(B) + 1 PROVE Before(B, j) \in Nat /\ Before(B, j) <= n
    <3>1. j \in 1 .. Len(D) + 1 \/ j = Len(D) + 2
      BY <2>12
    <3> QED
      BY <1>1, <2>9, <2>15, <3>1
  <2>13. ASSUME NEW j \in DOMAIN B PROVE Within(c, B[j]) /\ KeepsLines(c, M, B, j)
    <3>1. CASE j = Len(D) + 1
      <4>1. j + 1 = Len(D) + 2
        BY <2>12, <3>1
      <4>2. KeepsLines(c, M, B, j)
        BY <2>9, <2>15, <3>1, <4>1 DEF KeepsLines
      <4> QED
        BY <2>8, <2>12, <3>1, <4>2
    <3>2. CASE j # Len(D) + 1
      <4>1. j \in 1 .. Len(D)
        BY <2>12, <3>2
      <4>2. KeepsLines(c, M, B, j)
        BY <2>8, <2>9, <2>10, <4>1, AppendKeeps
      <4> QED
        BY <2>8, <2>12, <4>1, <4>2
    <3> QED
      BY <3>1, <3>2
  <2>14. ASSUME NEW j \in 1 .. Len(B) - 1 PROVE Shut(c, M, B, j, B[j + 1][1])
    <3>1. j \in 1 .. Len(D) /\ \A z : Shut(c, M, B, j, z) <=> Shut(c, M, D, j, z)
      <4>1. j \in 1 .. Len(D)
        BY <2>12
      <4> QED
        BY <2>8, <2>10, <4>1, AppendKeeps
    <3>2. CASE j = Len(D)
      <4>1. B[j + 1] = C /\ D # <<>>
        BY <2>8, <2>12, <3>1, <3>2
      <4> QED
        BY <2>9, <3>1, <3>2, <4>1
    <3>3. CASE j # Len(D)
      <4>1. j \in 1 .. Len(D) - 1 /\ j + 1 \in 1 .. Len(D)
        BY <2>12, <3>1, <3>3
      <4>2. B[j + 1] = D[j + 1]
        BY <2>12, <4>1
      <4> QED
        BY <2>9, <3>1, <4>1, <4>2
    <3> QED
      BY <3>2, <3>3
  <2> QED
    BY <2>11, <2>12, <2>13, <2>14, <2>16 DEF B, n
<1> QED
  BY <1>2, <1>3

-----------------------------------------------------------------------------
(* -E cuts at the first end-of-file string.                                *)
CutAt(items) == LET at == {i \in DOMAIN items : items[i] = EOF}
                IN IF at = {} THEN items
                   ELSE SubSeq(items, 1, (CHOOSE i \in at : \A j \in at : i <= j) - 1)

LEMMA CutRight ==
  ASSUME NEW items \in Seq(Int)
  PROVE  Cut(items) = CutAt(items) /\ Cut(items) \in Seq(Int)
<1> DEFINE at == {i \in 1 .. Len(items) : items[i] = EOF}
           m == CHOOSE i \in at : \A j \in at : i <= j
<1>1. DOMAIN items = 1 .. Len(items) /\ Len(items) \in Nat
  OBVIOUS
<1>2. CASE at = {}
  <2>1. SelectInSeq(items, LAMBDA w : w = EOF) = 0
    BY <1>2 DEF SelectInSeq
  <2>2. Cut(items) = items
    BY <1>2 DEF Cut, SelectInSeq
  <2>3. CutAt(items) = items
    BY <1>1, <1>2 DEF CutAt
  <2> QED
    BY <2>2, <2>3
<1>3. CASE at # {}
  <2>1. \E x \in at : \A y \in at : x <= y
    <3>1. at \in SUBSET (1 .. Len(items))
      OBVIOUS
    <3> HIDE DEF at
    <3> QED
      BY <1>1, <1>3, <3>1, Smallest
  <2>2. m \in at
    <3> HIDE DEF at
    <3> QED
      BY <2>1
  <2>3. m \in 1 .. Len(items) /\ m # 0
    <3> HIDE DEF m
    <3> QED
      BY <1>1, <2>2
  <2>4. Cut(items) = IF m = 0 THEN items ELSE SubSeq(items, 1, m - 1)
    BY <1>3 DEF Cut, SelectInSeq, Min
  <2>5. CutAt(items) = SubSeq(items, 1, m - 1)
    BY <1>1, <1>3 DEF CutAt
  <2> HIDE DEF m
  <2>6. SubSeq(items, 1, m - 1) \in Seq(Int)
    BY <1>1, <2>3
  <2> QED
    BY <2>3, <2>4, <2>5, <2>6
<1> QED
  BY <1>2, <1>3

(* The items are those asked for, however the input is split.              *)
Whole == IF Plan.I /\ Plan.split = "blanks" THEN WholeLines(call.data.lines) ELSE Words(call.data.lines)

LEMMA WantedIs == Wanted = IF Plan.E THEN CutAt(Whole) ELSE Whole
<1>1. CASE Plan.E
  BY <1>1 DEF Wanted, CutAt, Whole
<1>2. CASE ~ Plan.E
  BY <1>2 DEF Wanted, Whole
<1> QED
  BY <1>1, <1>2

LEMMA ItemsRight ==
  ASSUME NEW c \in Configuration, c = Plan, ~ Unflushed, c.I => c.L = 0,
         call.data \in [lines : Seq(Line), ended : BOOLEAN]
  PROVE  LET r == Items(c, call.data)
         IN /\ r.items = Whole /\ Whole \in Seq(Int) /\ r.lineEnds \in Seq(BOOLEAN)
            /\ c.split = "blanks" /\ c.L > 0 =>
                 /\ Len(r.lineEnds) = Len(Whole)
                 /\ \A k \in 1 .. Len(r.lineEnds) : r.lineEnds[k] <=> EndsLine(k)
<1> DEFINE d == call.data
           r == Items(c, call.data)
<1>1. d \in [lines : Seq(Line), ended : BOOLEAN] /\ d.lines \in Seq(Line) /\ d.ended \in BOOLEAN
  OBVIOUS
<1>2. c.L \in Int /\ c.I \in BOOLEAN
  BY DEF Configuration
<1> HIDE DEF d
<1>3. Whole \in Seq(Int) /\ <<>> \in Seq(BOOLEAN)
  <2>1. Words(d.lines) \in Seq(Int) /\ WholeLines(d.lines) \in Seq(Int)
    BY <1>1, WordsTyped, WholeLinesTyped, Zenon
  <2>2. Whole = WholeLines(d.lines) \/ Whole = Words(d.lines)
    BY DEF Whole, d
  <2>3. <<>> \in Seq(BOOLEAN)
    OBVIOUS
  <2> QED
    BY <2>1, <2>2, <2>3, Zenon
<1>4. CASE c.split /= "blanks"
  <2>1. r.items = Words(call.data.lines) /\ r.lineEnds = <<>>
    BY <1>4 DEF Items
  <2> QED
    BY <1>3, <1>4, <2>1 DEF Whole
<1>5. CASE c.split = "blanks" /\ c.I
  <2>1. r.items = WholeLines(call.data.lines) /\ r.lineEnds = <<>> /\ ~ (c.L > 0)
    BY <1>2, <1>5 DEF Items
  <2> QED
    BY <1>3, <1>5, <2>1 DEF Whole
<1>6. CASE c.split = "blanks" /\ ~ c.I /\ c.L > 0
  <2> DEFINE lines == Joined(d).lines
             e == Marks(lines)
             w == Words(d.lines)
  <2>1. d.ended \/ d.lines = <<>> \/ ~ d.lines[Len(d.lines)].joins
    BY <1>1, <1>6 DEF Unflushed, d
  <2>2. /\ FlattenSeq(lines) = w /\ e \in Seq(BOOLEAN) /\ Len(e) = Len(w)
        /\ \A k \in 1 .. Len(e) :
             e[k] <=> \/ k = Len(w)
                      \/ \E q \in DOMAIN d.lines : ~ d.lines[q].joins /\ k = Len(Words(SubSeq(d.lines, 1, q)))
    BY <1>1, <2>1, JoinedRight
  <2>3. r.items = FlattenSeq(lines) /\ r.lineEnds = e
    BY <1>6 DEF Items, Marks, d
  <2>4. Whole = w
    BY <1>6 DEF Whole, d
  <2> HIDE DEF e, lines, r
  <2>5. \A k \in 1 .. Len(e) : e[k] <=> EndsLine(k)
    BY <2>2, Zenon DEF EndsLine, w, d
  <2> QED
    BY <1>3, <2>2, <2>3, <2>4, <2>5 DEF r
<1>7. CASE c.split = "blanks" /\ ~ c.I /\ ~ (c.L > 0)
  <2>1. r.items = Words(call.data.lines) /\ r.lineEnds = <<>>
    BY <1>7 DEF Items
  <2> QED
    BY <1>3, <1>7, <2>1 DEF Whole
<1> QED
  BY <1>4, <1>5, <1>6, <1>7

(* Nothing but the first items is left by -E.                              *)
LEMMA CutShorter ==
  ASSUME NEW items \in Seq(Int)
  PROVE  Len(Cut(items)) <= Len(items)
<1> DEFINE at == {i \in 1 .. Len(items) : items[i] = EOF}
           m == CHOOSE i \in at : \A j \in at : i <= j
<1>1. DOMAIN items = 1 .. Len(items) /\ Len(items) \in Nat /\ Cut(items) = CutAt(items)
  BY CutRight
<1>2. CASE at = {}
  BY <1>1, <1>2 DEF CutAt
<1>3. CASE at # {}
  <2>1. \E x \in at : \A y \in at : x <= y
    <3>1. at \in SUBSET (1 .. Len(items))
      OBVIOUS
    <3> HIDE DEF at
    <3> QED
      BY <1>1, <1>3, <3>1, Smallest
  <2>2. m \in at
    <3> HIDE DEF at
    <3> QED
      BY <2>1
  <2>3. m \in 1 .. Len(items)
    <3> HIDE DEF m
    <3> QED
      BY <2>2
  <2>4. Cut(items) = SubSeq(items, 1, m - 1)
    BY <1>1, <1>3 DEF CutAt
  <2> HIDE DEF m
  <2>5. Len(SubSeq(items, 1, m - 1)) = m - 1
    BY <1>1, <2>3
  <2> QED
    BY <1>1, <2>3, <2>4, <2>5
<1> QED
  BY <1>2, <1>3

(* The marks the loop goes by are the ends of the lines: for -L over a     *)
(* split that has none, xargs runs at most one item.                       *)
LineMarks(M) ==
  /\ M \subseteq Nat \ {0}
  /\ Plan.L > 0 => \/ M = {} /\ Len(Wanted) <= 1
                   \/ \A k \in 1 .. Len(Wanted) : k \in M <=> EndsLine(k)

LEMMA RunOnce ==
  ASSUME call \in Invocations, work = Prepared(call), work.batches /= <<>>, ~ Unflushed
  PROVE  \E M :
           LET b == work.batches
               c == Plan
           IN /\ b \in Seq(Seq(Int)) /\ FlattenSeq(b) = Wanted /\ Len(Wanted) \in Nat /\ LineMarks(M)
              /\ \A i \in DOMAIN b : Within(c, b[i]) /\ KeepsLines(c, M, b, i)
              /\ \A i \in 1 .. Len(b) - 1 : Shut(c, M, b, i, b[i + 1][1])
              /\ \A i \in 1 .. Len(b) + 1 : Before(b, i) \in Nat /\ Before(b, i) <= Len(Wanted)
<1> DEFINE c == Plan
           o == call.options
           read == Items(c, call.data)
           items == IF c.E THEN Cut(read.items) ELSE read.items
           ends == read.lineEnds
           M == {k \in 1 .. Len(ends) : ends[k]}
<1>1. /\ o \in Seq([opt : OptionName, arg : Int])
      /\ call.data \in [lines : Seq(Line), ended : BOOLEAN]
  BY InvocationType
<1>2. /\ work.batches = Batches(c, items, ends) /\ \A j \in DOMAIN o : ~ BadOption(o[j])
      /\ ~ Panics(c, items)
  BY DEF Prepared, Plan
<1>3. c \in Configuration /\ c.n >= 0 /\ (c.I => c.L = 0) /\ c.L \in Int
  BY <1>1, <1>2, ParsedTyped DEF Plan, Configuration
<1>4. /\ read.items = Whole /\ Whole \in Seq(Int) /\ ends \in Seq(BOOLEAN)
      /\ c.split = "blanks" /\ c.L > 0 =>
           /\ Len(ends) = Len(Whole)
           /\ \A k \in 1 .. Len(ends) : ends[k] <=> EndsLine(k)
      /\ c.split /= "blanks" => ends = <<>>
  <2>1. c.split /= "blanks" => ends = <<>>
    BY DEF Items
  <2> HIDE DEF read
  <2> QED
    BY <1>1, <1>3, <2>1, ItemsRight DEF read
<1>5. items = Wanted /\ items \in Seq(Int) /\ Len(items) \in Nat /\ Len(items) <= Len(Whole)
  <2>1. items = Wanted /\ items \in Seq(Int)
    BY <1>4, CutRight, WantedIs
  <2>2. Len(items) <= Len(Whole)
    BY <1>4, CutShorter
  <2> HIDE DEF items
  <2> QED
    BY <2>1, <2>2
<1> HIDE DEF c, items, read, ends
<1>6. Marking(c, items, ends, M) /\ LineMarks(M)
  <2>1. Len(ends) \in Nat /\ M \subseteq Nat \ {0}
    BY <1>4
  <2>2. CASE ~ (c.L > 0)
    BY <1>4, <2>1, <2>2 DEF Marking, LineMarks, c
  <2>3. CASE c.L > 0 /\ c.split = "blanks"
    <3>1. Len(ends) = Len(Whole) /\ \A k \in 1 .. Len(ends) : ends[k] <=> EndsLine(k)
      BY <1>4, <2>3
    <3>2. \A k \in 1 .. Len(Wanted) : k \in M <=> EndsLine(k)
      BY <1>5, <2>1, <3>1
    <3> HIDE DEF M
    <3>3. LineMarks(M)
      BY <2>1, <3>2 DEF LineMarks
    <3> QED
      BY <1>4, <1>5, <3>1, <3>3 DEF Marking, M
  <2>4. CASE c.L > 0 /\ c.split /= "blanks"
    <3>1. ~ (Len(items) > 1) /\ ends = <<>>
      BY <1>2, <1>4, <2>4 DEF Panics
    <3>2. Len(items) <= 1 /\ M = {}
      BY <1>5, <3>1
    <3>3. LineMarks(M)
      BY <1>5, <2>1, <3>2 DEF LineMarks
    <3> QED
      BY <1>4, <3>2, <3>3 DEF Marking
  <2> QED
    BY <2>2, <2>3, <2>4
<1> HIDE DEF M
<1>7. LET b == work.batches
      IN /\ b \in Seq(Seq(Int)) /\ FlattenSeq(b) = items
         /\ \A j \in DOMAIN b : Within(c, b[j]) /\ KeepsLines(c, M, b, j)
         /\ \A j \in 1 .. Len(b) - 1 : Shut(c, M, b, j, b[j + 1][1])
         /\ \A j \in 1 .. Len(b) + 1 : Before(b, j) \in Nat /\ Before(b, j) <= Len(items)
  <2> DEFINE b == Batches(c, items, ends)
  <2>1. /\ b \in Seq(Seq(Int)) /\ FlattenSeq(b) = items
        /\ \A j \in DOMAIN b : Within(c, b[j]) /\ KeepsLines(c, M, b, j)
        /\ \A j \in 1 .. Len(b) - 1 : Shut(c, M, b, j, b[j + 1][1])
        /\ \A j \in 1 .. Len(b) + 1 : Before(b, j) \in Nat /\ Before(b, j) <= Len(items)
    BY <1>3, <1>5, <1>6, BatchesRight, Zenon
  <2> HIDE DEF b
  <2>2. work.batches = b
    BY <1>2 DEF b
  <2> QED
    BY <2>1, <2>2, Zenon
<1> QED
  BY <1>5, <1>6, <1>7 DEF c

(* Between two places of the input the marks are the ends of lines.        *)
LEMMA MarksAreEnds ==
  ASSUME NEW M, LineMarks(M), Plan.L > 0, Len(Wanted) \in Nat,
         NEW from \in Nat, NEW to \in Int, to <= Len(Wanted)
  PROVE  /\ MarksIn(M, from, to - 1) = Cardinality(LineEnds(from, to - 1))
         /\ to \in M => EndsLine(to) /\ MarksIn(M, from, to) = Cardinality(LineEnds(from, to))
<1>1. CASE M = {} /\ Len(Wanted) <= 1
  <2>1. \A k \in from + 1 .. to - 1 : FALSE
    BY <1>1
  <2>2. LineEnds(from, to - 1) = {} /\ {k \in from + 1 .. to - 1 : k \in M} = {}
    BY <2>1 DEF LineEnds
  <2> QED
    BY <1>1, <2>2 DEF MarksIn
<1>2. CASE \A k \in 1 .. Len(Wanted) : k \in M <=> EndsLine(k)
  <2>1. LineEnds(from, to - 1) = {k \in from + 1 .. to - 1 : k \in M}
    <3>1. \A k \in from + 1 .. to - 1 : k \in 1 .. Len(Wanted)
      OBVIOUS
    <3> QED
      BY <1>2, <3>1 DEF LineEnds
  <2>2. LineEnds(from, to) = {k \in from + 1 .. to : k \in M}
    <3>1. \A k \in from + 1 .. to : k \in 1 .. Len(Wanted)
      OBVIOUS
    <3> QED
      BY <1>2, <3>1 DEF LineEnds
  <2>3. to \in M => to \in 1 .. Len(Wanted)
    BY DEF LineMarks
  <2> QED
    BY <1>2, <2>1, <2>2, <2>3 DEF MarksIn
<1> QED
  BY <1>1, <1>2 DEF LineMarks

LEMMA BatchesImply ==
  ASSUME tool = "xargs" => call \in Invocations /\ work = Prepared(call)
  PROVE  ItemsRunOnce
<1> SUFFICES ASSUME tool = "xargs", work.batches /= <<>>, ~ Unflushed PROVE ItemsRunOnce
  BY DEF ItemsRunOnce
<1> DEFINE b == work.batches
           c == Plan
<1>1. PICK M :
        /\ b \in Seq(Seq(Int)) /\ FlattenSeq(b) = Wanted /\ Len(Wanted) \in Nat /\ LineMarks(M)
        /\ \A i \in DOMAIN b : Within(c, b[i]) /\ KeepsLines(c, M, b, i)
        /\ \A i \in 1 .. Len(b) - 1 : Shut(c, M, b, i, b[i + 1][1])
        /\ \A i \in 1 .. Len(b) + 1 : Before(b, i) \in Nat /\ Before(b, i) <= Len(Wanted)
  BY RunOnce
<1>3. Len(b) \in Nat /\ DOMAIN b = 1 .. Len(b)
  BY <1>1
<1> HIDE DEF b, c
<1>4. ASSUME NEW i \in DOMAIN b, c.L > 0
      PROVE  /\ MarksIn(M, Before(b, i), Before(b, i + 1) - 1)
                  = Cardinality(LineEnds(Before(b, i), Before(b, i + 1) - 1))
             /\ Before(b, i + 1) \in M =>
                  /\ EndsLine(Before(b, i + 1))
                  /\ MarksIn(M, Before(b, i), Before(b, i + 1))
                       = Cardinality(LineEnds(Before(b, i), Before(b, i + 1)))
  <2>1. i \in 1 .. Len(b) + 1 /\ i + 1 \in 1 .. Len(b) + 1
    BY <1>3
  <2>2. /\ Before(b, i) \in Nat /\ Before(b, i + 1) \in Nat /\ Before(b, i + 1) <= Len(Wanted)
        /\ Before(b, i + 1) \in Int
    BY <1>1, <2>1
  <2> QED
    BY <1>1, <1>4, <2>2, MarksAreEnds DEF c
<1>5. ASSUME NEW i \in DOMAIN b
      PROVE  /\ AtMost(c) > 0 => Len(b[i]) <= AtMost(c)
             /\ c.s > 0 => Size(b[i]) <= c.s \/ Len(b[i]) <= 1
             /\ c.L > 0 => Cardinality(LineEnds(Before(b, i), Before(b, i + 1) - 1)) < c.L
  BY <1>1, <1>4 DEF Within, KeepsLines
<1>6. ASSUME NEW i \in 1 .. Len(b) - 1
      PROVE  \/ AtMost(c) > 0 /\ Len(b[i]) = AtMost(c)
             \/ c.s > 0 /\ Size(b[i]) + b[i + 1][1] + 1 > c.s
             \/ /\ c.L > 0 /\ EndsLine(Before(b, i + 1))
                /\ Cardinality(LineEnds(Before(b, i), Before(b, i + 1))) = c.L
  <2>1. i \in DOMAIN b
    BY <1>3
  <2> QED
    BY <1>1, <1>4, <2>1 DEF Shut, Stop, Tight
<1> QED
  BY <1>1, <1>5, <1>6 DEF ItemsRunOnce, AtMost, b, c

(* xargs runs every item of its input once and in order, in command lines  *)
(* that keep to -n, -s and -L and could not have held one item more:       *)
(* cmdXargs and xargsBatches, for any input and any options, but for -L    *)
(* over a last line that ends in a blank and has no newline.               *)
THEOREM ItemsAlwaysRunOnce == Spec => []ItemsRunOnce
<1>1. ProcessesOK => ItemsRunOnce
  BY BatchesImply DEF ProcessesOK, BatchesOK
<1> QED
  BY <1>1, InitOK, StepOK, PTL DEF Spec
=============================================================================
