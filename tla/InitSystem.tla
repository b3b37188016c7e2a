----------------------------- MODULE InitSystem -----------------------------
(***************************************************************************)
(* init as PID 1 in inittab mode: runSystemInit of init_linux.go, the     *)
(* entries it runs, the services it supervises and its shutdown sequence. *)
(*                                                                         *)
(* init is one goroutine.  pc is the place it has reached; a phase named  *)
(* after an inittab action is inside runInitActions for that action, and  *)
(* blocks while an entry of it runs.  The kernel's process table, the     *)
(* signals the runtime queues for init, the inittab on disk and the clock *)
(* move between any two steps of init.                                    *)
(*                                                                         *)
(* Time is counted in seconds; ages and delays saturate, so that time is  *)
(* unbounded and the state is not.                                        *)
(***************************************************************************)
EXTENDS Integers, Sequences

CONSTANTS
  Key,          \* inittab entries, an entry identified by its serviceKey
  Action,       \* the action field of every entry
  Emergency,    \* the built-in console shell used when no entry is usable
  Inittabs,     \* the files an administrator may install, as parsed
  PID,          \* process identifiers the kernel can hand out
  NoKey, NoPid, \* "none" for the two sets above
  SigCap,       \* capacity of the signal channel (32)
  MaxShift,     \* cap of the backoff exponent (5)
  StableAge,    \* a run this long clears the failure count (5)
  Grace,        \* seconds between SIGTERM and SIGKILL at shutdown (2)
  AdminSignals, \* the signals the administrator sends
  MaxAdmin      \* bound: signals the administrator sends

ServiceActions == {"respawn", "askfirst"}
JobActions == {"sysinit", "wait", "once", "ctrlaltdel", "powerokwait",
               "powerfail", "powerwait", "shutdown"}

Signal == {"CHLD", "HUP", "INT", "PWR", "TERM", "USR1", "USR2"}

ASSUME ActionAssumption == Action \in [Key -> ServiceActions \cup JobActions]
ASSUME KeyAssumption ==
  /\ Emergency \in Key /\ Action[Emergency] = "respawn"
  /\ NoKey \notin Key /\ NoPid \notin PID
  /\ Inittabs \subseteq Seq(Key)
  /\ AdminSignals \subseteq Signal \ {"CHLD"}
ASSUME NumberAssumption ==
  /\ SigCap \in Nat \ {0} /\ MaxShift \in 0..5
  /\ StableAge \in Nat /\ Grace \in Nat /\ MaxAdmin \in Nat


VARIABLES
  inittab,   \* the file on disk
  entries,   \* the entries init works with
  svc,       \* services: per key [on, pid, failures, delay, late]
  byPID,     \* servicesByPID: the service a pid was started for
  disabled,  \* pids of services dropped from the inittab, not yet reaped
  todo,      \* services startDueInitServices has still to start
  since,     \* seconds since it read the clock, once for all of them
  pc, at,    \* place of init; next entry runInitActions looks at
  jobPid,    \* the process runInitEntryAndWait waits for
  how,       \* the reboot command chosen
  grace,     \* seconds left before shutdownSystem sends SIGKILL
  dirty,     \* some write is not on disk yet
  proc,      \* kernel: per pid [st, key, age, sig]
  sigq,      \* the signal channel
  admin      \* administrator's signals left (bound)

svcVars  == <<svc, byPID, disabled>>
jobVars  == <<at, jobPid>>
diskVars == <<inittab, entries>>
dueVars == <<todo, since>>
vars == <<inittab, entries, svc, byPID, disabled, todo, since, pc, at, jobPid,
          how, grace, dirty, proc, sigq, admin>>

StartPhases == {"bootstart", "reloadstart", "start"}
KilledPhases == {"killgrace", "unmount", "sync", "reboot", "paused", "off"}
DownPhases == {"shutdown", "term", "grace", "kill"} \cup KilledPhases
Phases == JobActions \cup StartPhases \cup {"loop", "reap"} \cup DownPhases

(* failures saturates one past the last value that changes the delay. *)
MaxFailures == MaxShift + 2
Doubling == <<1, 2, 4, 8, 16, 32>>
MaxDelay == Doubling[MaxShift + 1]
MaxSince == IF StableAge < MaxDelay THEN MaxDelay ELSE StableAge

Process == [st : {"free", "run", "zombie"}, key : Key \cup {NoKey},
            age : 0..StableAge, sig : {"none", "term", "kill"}]
(* service.started is late seconds before the service's process was forked. *)
Service == [on : BOOLEAN, pid : PID \cup {NoPid}, failures : 0..MaxFailures,
            delay : 0..MaxDelay, late : 0..StableAge]

Free(p) == proc[p].st = "free"
NoProcess == [st |-> "free", key |-> NoKey, age |-> 0, sig |-> "none"]
Forked(k) == [st |-> "run", key |-> k, age |-> 0, sig |-> "none"]
NoService == [on |-> FALSE, pid |-> NoPid, failures |-> 0,
              delay |-> 0, late |-> 0]
NewService == [NoService EXCEPT !.on = TRUE]

-----------------------------------------------------------------------------
(* Services. *)

Least(a, b) == IF a < b THEN a ELSE b
Minus(a, b) == IF a > b THEN a - b ELSE 0

(* 2^(failures - 1) seconds, the exponent capped. *)
RespawnDelay(failures) ==
  IF failures < 1 THEN 0 ELSE Doubling[Least(failures, MaxShift + 1)]

(* The delay counts from a reading of the clock that is ago seconds old. *)
Failed(s, ago) ==
  LET n == Least(s.failures + 1, MaxFailures)
  IN [s EXCEPT !.pid = NoPid, !.failures = n, !.late = 0,
               !.delay = Minus(RespawnDelay(n), ago)]

Exited(s, runtime) ==
  IF runtime >= StableAge
  THEN [s EXCEPT !.pid = NoPid, !.failures = 0, !.delay = 0, !.late = 0]
  ELSE Failed(s, 0)

DueTooSoon(s) == {k \in Key : s[k].on /\ s[k].pid = NoPid}
DueOnce(s) == {k \in Key : s[k].on /\ s[k].pid = NoPid /\ s[k].failures = 0}
Due(s) == {k \in Key : s[k].on /\ s[k].pid = NoPid /\ s[k].delay = 0}

Desired(e) == {k \in Key : /\ Action[k] \in ServiceActions
                           /\ \E i \in DOMAIN e : e[i] = k}

ReconciledAfresh(e) ==
  [k \in Key |-> IF k \notin Desired(e) THEN NoService
                 ELSE IF svc[k].on THEN [NewService EXCEPT !.pid = svc[k].pid]
                 ELSE NewService]
Reconciled(e) ==
  [k \in Key |-> IF k \notin Desired(e) THEN NoService
                 ELSE IF svc[k].on THEN svc[k] ELSE NewService]

Dropped(e) == {p \in PID : \E k \in Key \ Desired(e) : svc[k].pid = p}

ReconcileWithoutKill(e) ==
  /\ svc' = Reconciled(e) /\ disabled' = disabled \cup Dropped(e)
  /\ todo' = Due(svc') /\ since' = 0 /\ UNCHANGED <<byPID, proc>>
(* Services no longer listed are disabled and their group gets SIGTERM;    *)
(* services still listed keep their process, failures and restart time.   *)
ReconcileInitServices(e) ==
  /\ svc' = Reconciled(e)
  /\ disabled' = disabled \cup Dropped(e)
  /\ proc' = [p \in PID |-> IF p \in Dropped(e) /\ proc[p].sig = "none"
                            THEN [proc[p] EXCEPT !.sig = "term"] ELSE proc[p]]
  /\ todo' = Due(svc') /\ since' = 0
  /\ UNCHANGED byPID

(* An open of a terminal may block, so that seconds pass before a start.  *)
(* The run is dated from the loop's reading of the clock all the same.    *)
Started(s, p) == [s EXCEPT !.pid = p, !.late = Least(since, StableAge)]
StartDueService(k, p) ==
  /\ pc \in StartPhases /\ k \in todo /\ Free(p)
  /\ todo' = todo \ {k}
  /\ svc' = [svc EXCEPT ![k] = Started(@, p)]
  /\ byPID' = [byPID EXCEPT ![p] = k]
  /\ proc' = [proc EXCEPT ![p] = Forked(k)]
  /\ UNCHANGED <<diskVars, disabled, since, pc, jobVars, how, grace, dirty,
                 sigq, admin>>

(* The terminal does not open, or the fork fails.  The delay counts from   *)
(* the same reading.                                                      *)
StartDueFails(k) ==
  /\ pc \in StartPhases /\ k \in todo
  /\ todo' = todo \ {k}
  /\ svc' = [svc EXCEPT ![k] = Failed(@, since)]
  /\ UNCHANGED <<diskVars, byPID, disabled, since, pc, jobVars, how, grace,
                 dirty, proc, sigq, admin>>

StartDueDone ==
  /\ pc \in StartPhases /\ todo = {}
  /\ pc' = IF pc = "reloadstart" THEN "reap" ELSE "loop"
  /\ since' = 0
  /\ UNCHANGED <<diskVars, svcVars, todo, jobVars, how, grace, dirty, proc,
                 sigq, admin>>

ReapStaleTable(p) ==
  /\ pc = "reap" /\ proc[p].st = "zombie"
  /\ proc' = [proc EXCEPT ![p] = NoProcess] /\ disabled' = disabled \ {p}
  /\ IF byPID[p] = NoKey \/ p \in disabled
     THEN UNCHANGED svc
     ELSE svc' = [svc EXCEPT ![byPID[p]] = Exited(@, proc[p].age + @.late)]
  /\ UNCHANGED <<diskVars, byPID, dueVars, pc, jobVars, how, grace, dirty,
                 sigq, admin>>

(* One round of the wait4 loop.  The run is measured up to this call. *)
ReapSystemChild(p) ==
  /\ pc = "reap" /\ proc[p].st = "zombie"
  /\ proc' = [proc EXCEPT ![p] = NoProcess]
  /\ byPID' = [byPID EXCEPT ![p] = NoKey]
  /\ disabled' = disabled \ {p}
  /\ IF byPID[p] = NoKey \/ p \in disabled
     THEN UNCHANGED svc
     ELSE svc' = [svc EXCEPT ![byPID[p]] = Exited(@, proc[p].age + @.late)]
  /\ UNCHANGED <<diskVars, dueVars, pc, jobVars, how, grace, dirty, sigq,
                 admin>>

ReapKnownDone ==
  /\ pc = "reap" /\ \A p \in PID : proc[p].st = "zombie" => byPID[p] = NoKey
  /\ pc' = "start" /\ todo' = Due(svc) /\ since' = 0
  /\ UNCHANGED <<diskVars, svcVars, jobVars, how, grace, dirty, proc, sigq,
                 admin>>

ReapSystemDone ==
  /\ pc = "reap" /\ \A p \in PID : proc[p].st # "zombie"
  /\ pc' = "start" /\ todo' = Due(svc) /\ since' = 0
  /\ UNCHANGED <<diskVars, svcVars, jobVars, how, grace, dirty, proc, sigq,
                 admin>>

-----------------------------------------------------------------------------
(* runInitActions: the entries of one action, in file order. *)

JobsLeft == {i \in at..Len(entries) : Action[entries[i]] = pc}

StartJob(p) ==
  /\ pc \in JobActions /\ jobPid = NoPid /\ Free(p)
  /\ \E i \in JobsLeft :
       /\ \A j \in JobsLeft : i <= j
       /\ at' = i + 1
       /\ proc' = [proc EXCEPT ![p] = Forked(entries[i])]
  /\ jobPid' = IF pc = "once" THEN NoPid ELSE p
  /\ UNCHANGED <<diskVars, svcVars, dueVars, pc, how, grace, dirty, sigq,
                 admin>>

StartJobFails ==
  /\ pc \in JobActions /\ jobPid = NoPid
  /\ \E i \in JobsLeft : (\A j \in JobsLeft : i <= j) /\ at' = i + 1
  /\ UNCHANGED <<diskVars, svcVars, dueVars, pc, jobPid, how, grace, dirty,
                 proc, sigq, admin>>

(* command.Wait reaps this process and no other. *)
WaitJob ==
  /\ jobPid # NoPid /\ proc[jobPid].st = "zombie"
  /\ proc' = [proc EXCEPT ![jobPid] = NoProcess]
  /\ jobPid' = NoPid
  /\ UNCHANGED <<diskVars, svcVars, dueVars, pc, at, how, grace, dirty, sigq,
                 admin>>

After == [a \in JobActions |->
  CASE a = "sysinit" -> "wait"          [] a = "wait" -> "once"
    [] a = "once" -> "bootstart"        [] a = "ctrlaltdel" -> "shutdown"
    [] a = "powerokwait" -> "reap"      [] a = "powerfail" -> "powerwait"
    [] a = "powerwait" -> "shutdown"    [] a = "shutdown" -> "term"]

JobsDone ==
  /\ pc \in JobActions /\ jobPid = NoPid /\ JobsLeft = {}
  /\ pc' = After[pc] /\ at' = 1
  /\ IF pc = "once"
     THEN ReconcileInitServices(entries)
     ELSE UNCHANGED <<svcVars, dueVars, proc>>
  /\ UNCHANGED <<diskVars, jobPid, how, grace, dirty, sigq, admin>>

-----------------------------------------------------------------------------
(* The select loop. *)

Enter(phase) == pc' = phase /\ at' = 1

Handle(s) ==
  \/ /\ s = "CHLD" /\ Enter("reap")
     /\ UNCHANGED <<entries, svcVars, dueVars, how, proc>>
  \/ /\ s = "HUP" /\ inittab = <<>> /\ Enter("reap")
     /\ UNCHANGED <<entries, svcVars, dueVars, how, proc>>
  \/ /\ s = "HUP" /\ inittab # <<>> /\ Enter("reloadstart")
     /\ entries' = inittab /\ ReconcileInitServices(inittab) /\ UNCHANGED how
  \/ /\ s = "INT" /\ Enter("ctrlaltdel") /\ how' = "restart"
     /\ UNCHANGED <<entries, svcVars, dueVars, proc>>
  \/ /\ s = "PWR" /\ Enter("powerokwait")
     /\ UNCHANGED <<entries, svcVars, dueVars, how, proc>>
  \/ /\ s = "PWR" /\ Enter("powerfail") /\ how' = "poweroff"
     /\ UNCHANGED <<entries, svcVars, dueVars, proc>>
  \/ /\ s \in {"TERM", "USR1", "USR2"} /\ Enter("shutdown")
     /\ how' = CASE s = "TERM" -> "restart" [] s = "USR1" -> "halt"
                 [] s = "USR2" -> "poweroff"
     /\ UNCHANGED <<entries, svcVars, dueVars, proc>>

Receive ==
  /\ pc = "loop" /\ sigq # <<>>
  /\ sigq' = Tail(sigq) /\ Handle(Head(sigq))
  /\ UNCHANGED <<inittab, jobPid, grace, dirty, admin>>

Ticker ==
  /\ pc = "loop" /\ Enter("reap")
  /\ UNCHANGED <<diskVars, svcVars, dueVars, jobPid, how, grace, dirty, proc,
                 sigq, admin>>

-----------------------------------------------------------------------------
(* shutdownSystem, after the shutdown entries have run.  Its reaping does *)
(* not look at the service tables.                                        *)

Broadcast(sig) ==
  proc' = [p \in PID |-> IF proc[p].st = "run" /\ proc[p].sig # "kill"
                         THEN [proc[p] EXCEPT !.sig = sig] ELSE proc[p]]

TermAll ==
  /\ pc = "term" /\ pc' = "grace"
  /\ dirty' = FALSE                              \* the first sync
  /\ Broadcast("term") /\ grace' = Grace
  /\ UNCHANGED <<diskVars, svcVars, dueVars, jobVars, how, sigq, admin>>

GraceAllGone ==
  /\ pc = "grace" /\ (\A p \in PID : Free(p)) /\ pc' = "kill"
  /\ UNCHANGED <<diskVars, svcVars, dueVars, jobVars, how, grace, dirty, proc,
                 sigq, admin>>

GraceOver ==
  /\ pc = "grace" /\ grace = 0 /\ pc' = "kill"
  /\ UNCHANGED <<diskVars, svcVars, dueVars, jobVars, how, grace, dirty, proc,
                 sigq, admin>>

KillAll ==
  /\ pc = "kill" /\ pc' = "killgrace" /\ Broadcast("kill")
  /\ UNCHANGED <<diskVars, svcVars, dueVars, jobVars, how, grace, dirty, sigq,
                 admin>>

ReapInitChildren(p) ==
  /\ pc \in {"grace", "killgrace"} /\ proc[p].st = "zombie"
  /\ proc' = [proc EXCEPT ![p] = NoProcess]
  /\ UNCHANGED <<diskVars, svcVars, dueVars, pc, jobVars, how, grace, dirty,
                 sigq, admin>>

UnmountForShutdown ==
  /\ pc = "killgrace" /\ pc' = "sync"
  /\ UNCHANGED <<diskVars, svcVars, dueVars, jobVars, how, grace, dirty, proc,
                 sigq, admin>>

SyncForgotten ==
  /\ pc = "sync" /\ pc' = "reboot"
  /\ UNCHANGED <<diskVars, svcVars, dueVars, jobVars, how, grace, dirty, proc,
                 sigq, admin>>

Sync ==
  /\ pc = "sync" /\ pc' = "reboot" /\ dirty' = FALSE
  /\ UNCHANGED <<diskVars, svcVars, dueVars, jobVars, how, grace, proc, sigq,
                 admin>>

RebootOrResume ==
  /\ pc = "reboot" /\ pc' \in {"off", "loop"}
  /\ UNCHANGED <<diskVars, svcVars, dueVars, jobVars, how, grace, dirty, proc,
                 sigq, admin>>

Reboot ==
  /\ pc = "reboot" /\ pc' \in {"off", "paused"}
  /\ UNCHANGED <<diskVars, svcVars, dueVars, jobVars, how, grace, dirty, proc,
                 sigq, admin>>

-----------------------------------------------------------------------------
(* The environment: processes, the administrator, the clock. *)

On == pc # "off"

(* The runtime never blocks on the channel: a signal that finds it full is *)
(* dropped.                                                                *)
Deliver(s) == sigq' = IF Len(sigq) < SigCap THEN Append(sigq, s) ELSE sigq

(* SIGCHLD may also be merged with one still pending in the kernel. *)
Exit(p) ==
  /\ On /\ proc[p].st = "run"
  /\ proc' = [proc EXCEPT ![p].st = "zombie"]
  /\ Deliver("CHLD") \/ UNCHANGED sigq
  /\ UNCHANGED <<diskVars, svcVars, dueVars, pc, jobVars, how, grace, dirty,
                 admin>>

(* An orphan is reparented to init. *)
Adopt(p) ==
  /\ On /\ Free(p)
  /\ proc' = [proc EXCEPT ![p] = [Forked(NoKey) EXCEPT
                !.sig = IF pc \in KilledPhases THEN "kill" ELSE "none"]]
  /\ UNCHANGED <<diskVars, svcVars, dueVars, pc, jobVars, how, grace, dirty,
                 sigq, admin>>

Write(p) ==
  /\ On /\ ~dirty /\ proc[p].st = "run" /\ proc[p].sig # "kill"
  /\ dirty' = TRUE
  /\ UNCHANGED <<diskVars, svcVars, dueVars, pc, jobVars, how, grace, proc,
                 sigq, admin>>

AdminSignal(s) ==
  /\ On /\ admin > 0 /\ admin' = admin - 1
  /\ Deliver(s)
  /\ UNCHANGED <<diskVars, svcVars, dueVars, pc, jobVars, how, grace, dirty,
                 proc>>

AdminEdit(file) ==
  /\ On /\ inittab' = file
  /\ UNCHANGED <<entries, svcVars, dueVars, pc, jobVars, how, grace, dirty,
                 proc, sigq, admin>>

Older(n, bound) == IF n < bound THEN n + 1 ELSE n
Down1(n) == Minus(n, 1)

Tick ==
  /\ On
  /\ svc' = [k \in Key |-> [svc[k] EXCEPT !.delay = Down1(@)]]
  /\ proc' = [p \in PID |-> IF Free(p) THEN proc[p]
                            ELSE [proc[p] EXCEPT !.age = Older(@, StableAge)]]
  /\ since' = IF pc \in StartPhases THEN Older(since, MaxSince) ELSE since
  /\ grace' = Down1(grace)
  /\ UNCHANGED <<diskVars, byPID, disabled, todo, pc, jobVars, how, dirty,
                 sigq, admin>>

-----------------------------------------------------------------------------
Init ==
  /\ inittab \in Inittabs
  /\ entries = IF inittab = <<>> THEN <<Emergency>> ELSE inittab
  /\ svc = [k \in Key |-> NoService]
  /\ byPID = [p \in PID |-> NoKey]
  /\ disabled = {} /\ todo = {} /\ since = 0
  /\ pc = "sysinit" /\ at = 1 /\ jobPid = NoPid
  /\ how = "restart" /\ grace = 0 /\ dirty = TRUE
  /\ proc = [p \in PID |-> NoProcess]
  /\ sigq = <<>> /\ admin = MaxAdmin

(* The steps of init's own goroutine, and those of everything else. *)
Services ==
  \/ \E k \in Key : StartDueFails(k) \/ \E p \in PID : StartDueService(k, p)
  \/ StartDueDone
  \/ \E p \in PID : ReapSystemChild(p)
  \/ ReapSystemDone

Jobs == StartJobFails \/ WaitJob \/ JobsDone \/ \E p \in PID : StartJob(p)

ShutdownStage ==
  TermAll \/ GraceOver \/ KillAll \/ UnmountForShutdown \/ Sync \/ Reboot

Shutdown == ShutdownStage \/ \E p \in PID : ReapInitChildren(p)

Environment ==
  \/ \E p \in PID : Exit(p) \/ Adopt(p) \/ Write(p)
  \/ \E s \in AdminSignals : AdminSignal(s)
  \/ \E file \in Inittabs : AdminEdit(file)
  \/ Tick

Next == Services \/ Jobs \/ Receive \/ Ticker \/ Shutdown \/ Environment

Spec == Init /\ [][Next]_vars

-----------------------------------------------------------------------------
(* Properties. *)

(* The shape of the state. *)
TypeOK ==
  /\ inittab \in Seq(Key) /\ entries \in Seq(Key)
  /\ svc \in [Key -> Service]
  /\ byPID \in [PID -> Key \cup {NoKey}]
  /\ disabled \in SUBSET PID /\ todo \in SUBSET Key /\ since \in 0..MaxSince
  /\ pc \in Phases /\ at \in Nat \ {0} /\ jobPid \in PID \cup {NoPid}
  /\ how \in {"restart", "halt", "poweroff"} /\ grace \in Nat
  /\ dirty \in BOOLEAN
  /\ proc \in [PID -> Process]
  /\ sigq \in Seq(Signal) /\ Len(sigq) <= SigCap
  /\ admin \in Nat

Supervising == pc \notin DownPhases

(* While init supervises, the two service tables and the kernel agree: an  *)
(* enabled service and its pid point at each other, the pid belongs to a  *)
(* process of that service that has not been reaped, and every pid in the *)
(* map that no enabled service points back at is a disabled service's.    *)
(* Then kill(-service.pid) on a reload never reaches a recycled pid, and  *)
(* a reaped pid is never charged to the wrong service.                    *)
TablesAgree ==
  Supervising =>
    /\ \A k \in Key : svc[k].pid # NoPid =>
         /\ svc[k].on /\ byPID[svc[k].pid] = k /\ svc[k].pid \notin disabled
    /\ \A p \in PID : byPID[p] # NoKey =>
         /\ ~Free(p) /\ proc[p].key = byPID[p]
         /\ p \in disabled \/ svc[byPID[p]].pid = p
    /\ \A p \in disabled : byPID[p] # NoKey

(* A service dropped from the inittab and listed again later starts a new *)
(* process while the old one may still be running; no more than one of   *)
(* them has not been told to stop.                                        *)
OneWantedProcess ==
  Supervising =>
    \A p, q \in PID :
      /\ proc[p].st = "run" /\ proc[p].sig = "none"
      /\ proc[q].st = "run" /\ proc[q].sig = "none"
      /\ proc[p].key = proc[q].key /\ proc[p].key # NoKey
      /\ Action[proc[p].key] \in ServiceActions
      => p = q

(* The failure count of a service goes down only when the service leaves   *)
(* the inittab, or when a process of it is reaped whose own age and the   *)
(* seconds its start was held up in the start loop add up to StableAge.   *)
(* The code promises no more: behind a terminal that took StableAge       *)
(* seconds to open, a process that crashed at once counts as stable.      *)
FailuresForgiven ==
  [][\A k \in Key : svc'[k].failures < svc[k].failures =>
       \/ ~svc'[k].on
       \/ /\ svc[k].pid # NoPid /\ svc'[k].pid = NoPid
          /\ proc[svc[k].pid].age + svc[k].late >= StableAge]_vars

(* When the machine goes off nothing written is still in memory only: the *)
(* last sync comes after the last process that could write was killed.   *)
FlushedAtPowerOff == pc \in {"reboot", "off"} => ~dirty

(* After the SIGKILL broadcast nothing runs that was not hit by it. *)
KilledBeforeUnmount ==
  pc \in KilledPhases => \A p \in PID : proc[p].st = "run" => proc[p].sig = "kill"

(* What TablesAgree and OneWantedProcess rest on: who is left to be started, *)
(* what init waits for, and that no service exists during the boot.       *)
StartsPending ==
  /\ todo # {} => pc \in StartPhases
  /\ \A k \in todo : svc[k].on /\ svc[k].pid = NoPid
JobApart ==
  Supervising /\ jobPid # NoPid =>
    pc \in JobActions /\ pc # "once" /\ ~Free(jobPid) /\ byPID[jobPid] = NoKey
BootAlone ==
  pc \in {"sysinit", "wait", "once"} =>
    \A k \in Key : ~svc[k].on /\ svc[k].pid = NoPid
WantedKnown ==
  Supervising =>
    \A p \in PID :
      /\ proc[p].st = "run" /\ proc[p].sig = "none"
      /\ proc[p].key # NoKey /\ Action[proc[p].key] \in ServiceActions
      => svc[proc[p].key].pid = p
Inductive == /\ TypeOK /\ TablesAgree /\ StartsPending /\ JobApart
             /\ BootAlone /\ WantedKnown

(* Refinement: init implements the abstract service manager. *)
Stage ==
  IF pc \in {"sysinit", "wait", "once"} THEN "boot"
  ELSE IF pc = "off" THEN "off"
  ELSE IF pc \in DownPhases \cup {"ctrlaltdel", "powerfail", "powerwait"} THEN "down"
  ELSE "up"
Wanted == {k \in Key : svc[k].on}
Active == {k \in Key : svc[k].pid # NoPid}
Manager == INSTANCE ServiceManager WITH
  Service <- Key, stage <- Stage, wanted <- Wanted, active <- Active
ManagerSpec == Manager!Spec

-----------------------------------------------------------------------------
(* Liveness.  init's goroutine is scheduled and the clock advances.  wait4 *)
(* takes the oldest dead child first, so each is reaped in its turn.       *)

ServiceFairness ==
  /\ WF_vars(StartDueDone) /\ WF_vars(ReapSystemDone) /\ WF_vars(Ticker)
  /\ \A p \in PID : WF_vars(ReapSystemChild(p))
  /\ WF_vars(\E k \in Key : StartDueFails(k) \/ \E p \in PID : StartDueService(k, p))
InitFairness ==
  /\ ServiceFairness
  /\ SF_vars(Receive) /\ WF_vars(Tick)
  /\ WF_vars(StartJobFails \/ \E p \in PID : StartJob(p))
  /\ WF_vars(WaitJob) /\ WF_vars(JobsDone)
  /\ WF_vars(ShutdownStage)
(* An entry init waits for does not run for ever. *)
JobsEnd == WF_vars(jobPid # NoPid /\ Exit(jobPid))
(* Orphans do not arrive for ever while init is in one loop of wait4.      *)
OrphansPause == []<>(pc # "reap") \/ <>[][\A p \in PID : ~Adopt(p)]_vars

(* Every dead child is reaped, whether init knows it or not, unless init  *)
(* has begun the shutdown.                                                *)
ZombiesReaped ==
  \A p \in PID : proc[p].st = "zombie" ~> proc[p].st # "zombie" \/ ~Supervising

(* Once the shutdown entries run, the machine is switched off or init     *)
(* stays alive because the reboot call failed.                            *)
ShutdownCompletes == pc = "shutdown" ~> pc \in {"off", "paused"}
=============================================================================
