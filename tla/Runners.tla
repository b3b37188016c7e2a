------------------------------- MODULE Runners -------------------------------
(* The two commands that run one command in a process group of its own:    *)
(* timeout (priority_core.go) and `init COMMAND` (init_linux.go).  Child 1 *)
(* is the command; child 2 is a process it starts in its group; child 3    *)
(* one that has left the group, an orphan that init is the parent of.      *)
EXTENDS Children

CONSTANTS MaxSignals  \* bound: the signals the supervisor is sent

VARIABLES
  limits,    \* timeout: whether a duration and -k are given
  done,      \* timeout: the result of Wait is in the channel
  expired,   \* timeout: the timer whose channel is readable
  queue,     \* supervisor: the signals in its channel, in order
  arrived    \* how many have arrived

runner == <<limits, done, expired, queue, arrived>>

Command == 1
Helper == 2
Orphan == 3
Group == {Command, Helper}

ASSUME RunnersAssumption == {Command, Helper, Orphan} \subseteq Child

(* kill(-pid, 0): a group exists while a member does, a zombie too. *)
CommandExists == child[Command] \in {"running", "zombie"}
GroupExists == \E c \in Group : child[c] \in {"running", "zombie"}

RunnersInit ==
  /\ NoChildren
  /\ pc = "start" /\ status = -1
  /\ limits \in [duration : BOOLEAN, killAfter : BOOLEAN]
  /\ tool = "init" => limits = [duration |-> FALSE, killAfter |-> FALSE]
  /\ done = FALSE /\ expired = "no" /\ queue = <<>> /\ arrived = 0

Exit(s) == pc' = "end" /\ status' = s
Go(l) == pc' = l /\ UNCHANGED status

(* command.Start: the program may be missing, or not executable. *)
Start ==
  /\ pc = "start"
  /\ Started(Command) /\ Go("wait")
  /\ UNCHANGED <<tool, result, sent, runner>>

StartFails ==
  /\ pc = "start"
  /\ \E s \in IF tool = "init" THEN {127} ELSE {126, 127} : Exit(s)
  /\ UNCHANGED <<tool, kernel, runner>>

(* The command starts another process, in its group or (setsid) outside.   *)
(* A process of the group inherits a signal that is ignored, so it is not  *)
(* sent again.                                                             *)
Fork(c) ==
  /\ child[Command] = "running" /\ child[c] = "none"
  /\ c = Orphan => tool = "init"
  /\ Started(c)
  /\ UNCHANGED <<tool, pc, result, sent, status, runner>>

ProcessEnds(c) ==
  /\ ChildExits(c) \/ ChildDies(c)
  /\ UNCHANGED <<tool, pc, status, runner>>

(* ------------------------------- timeout ------------------------------- *)
(* go func() { done <- command.Wait() }() *)
WaitReturns ==
  /\ tool = "timeout" /\ child[Command] = "zombie"
  /\ Reaped({Command}) /\ done' = TRUE
  /\ UNCHANGED <<tool, pc, result, sent, status, limits, expired, queue, arrived>>

ExitCode == IF result[Command] < 0 THEN 255 ELSE result[Command]

CommandDone ==
  /\ tool = "timeout" /\ pc = "wait" /\ done
  /\ Exit(ExitCode)
  /\ UNCHANGED <<tool, kernel, runner>>

(* A timer fires whatever the command does; select takes either channel    *)
(* when both are ready.                                                    *)
TimerExpires ==
  /\ tool = "timeout" /\ expired = "no"
  /\ \/ pc = "wait" /\ limits.duration
     \/ pc = "signalled" /\ limits.killAfter
  /\ expired' = pc
  /\ UNCHANGED <<tool, pc, kernel, status, limits, done, queue, arrived>>

DurationOver ==
  /\ tool = "timeout" /\ pc = "wait" /\ expired = "wait"
  /\ Signalled(Group, "TERM") /\ Go("signalled") /\ expired' = "no"
  /\ UNCHANGED <<tool, child, result, limits, done, queue, arrived>>

SecondTerm ==
  /\ tool = "timeout" /\ pc = "signalled" /\ expired = "signalled"
  /\ Signalled(Group, "TERM") /\ Go("killed") /\ expired' = "no"
  /\ UNCHANGED <<tool, child, result, limits, done, queue, arrived>>

KillAfterOver ==
  /\ tool = "timeout" /\ pc = "signalled" /\ expired = "signalled"
  /\ Signalled(Group, "KILL") /\ Go("killed") /\ expired' = "no"
  /\ UNCHANGED <<tool, child, result, limits, done, queue, arrived>>

TimedOut ==
  /\ tool = "timeout" /\ pc \in {"signalled", "killed"} /\ done
  /\ Exit(124)
  /\ UNCHANGED <<tool, kernel, runner>>

(* ----------------------------- init COMMAND ----------------------------- *)
(* signal.Notify buffers 32 signals; more than MaxSignals do not come here. *)
SignalArrives ==
  /\ tool = "init" /\ pc = "wait" /\ arrived < MaxSignals
  /\ \E s \in Caught : queue' = Append(queue, s)
  /\ arrived' = arrived + 1
  /\ UNCHANGED <<tool, pc, kernel, status, limits, done, expired>>

(* reapInitChildren: every zombie whose parent init is, itself or by       *)
(* adoption once the command has ended.                                    *)
Adopted == InState("zombie") \cap (IF child[Command] = "running" THEN {Orphan} ELSE Child)

(* One turn of the loop: a signal is forwarded to the group, or the ticker *)
(* ticked; then every zombie is reaped, and when the command is among them *)
(* the group is ended.                                                     *)
Supervise ==
  /\ tool = "init" /\ pc = "wait"
  /\ \/ queue /= <<>> /\ Signalled(Group, Head(queue)) /\ queue' = Tail(queue)
     \/ UNCHANGED <<sent, queue>>
  /\ Reaped(Adopted)
  /\ Go(IF Command \in Adopted THEN "group" ELSE "wait")
  /\ UNCHANGED <<tool, result, limits, done, expired, arrived>>

SupervisorCode == IF result[Command] < 0 THEN 128 - result[Command] ELSE result[Command]

(* terminateInitGroup: nothing when the group is gone; else SIGTERM, two   *)
(* seconds of reaping, SIGKILL.                                            *)
GroupGone ==
  /\ tool = "init" /\ pc \in {"group", "ending"} /\ ~ GroupExists
  /\ Exit(SupervisorCode)
  /\ UNCHANGED <<tool, kernel, runner>>

TerminateGroup ==
  /\ tool = "init" /\ pc = "group" /\ GroupExists
  /\ Signalled(Group, "TERM") /\ Go("ending")
  /\ UNCHANGED <<tool, child, result, runner>>

ReapWhileEnding ==
  /\ tool = "init" /\ pc = "ending" /\ Adopted /= {}
  /\ Reaped(Adopted)
  /\ UNCHANGED <<tool, pc, result, sent, status, runner>>

DeadlineOver ==
  /\ tool = "init" /\ pc = "ending" /\ GroupExists
  /\ Signalled(Group, "KILL") /\ Exit(SupervisorCode)
  /\ UNCHANGED <<tool, child, result, runner>>

RunnersTool ==
  \/ Start \/ StartFails \/ WaitReturns \/ CommandDone \/ TimerExpires
  \/ DurationOver \/ KillAfterOver \/ TimedOut \/ Supervise \/ GroupGone
  \/ TerminateGroup \/ ReapWhileEnding \/ DeadlineOver

RunnersNext ==
  \/ RunnersTool \/ SignalArrives
  \/ \E c \in {Helper, Orphan} : Fork(c)
  \/ \E c \in Child : ProcessEnds(c)
=============================================================================
