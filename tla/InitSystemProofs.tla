-------------------------- MODULE InitSystemProofs --------------------------
(***************************************************************************)
(* Proofs of the safety properties of InitSystem, for every inittab, every *)
(* set of processes and every bound.                                      *)
(***************************************************************************)
EXTENDS MCInit, TLAPS

-----------------------------------------------------------------------------
(* The operators on services. *)

LEMMA DoublingType ==
  \A i \in 1..6, j \in 1..6 :
    i <= j => Doubling[i] \in Nat /\ Doubling[j] \in Nat /\ Doubling[i] <= Doubling[j]
BY DEF Doubling

LEMMA MaximaType == MaxFailures \in Nat /\ MaxDelay \in Nat /\ MaxSince \in Nat
<1>1. MaxShift + 1 \in 1..6
  BY NumberAssumption
<1>2. Doubling[MaxShift + 1] \in Nat
  BY <1>1, DoublingType
<1>. QED
  BY <1>2, NumberAssumption DEF MaxFailures, MaxDelay, MaxSince

(* respawnDelay stays within the largest delay, for any failure count. *)
LEMMA RespawnDelayType ==
  ASSUME NEW n \in 0..MaxFailures
  PROVE  RespawnDelay(n) \in 0..MaxDelay
<1>1. MaxShift \in 0..5
  BY NumberAssumption
<1>2. MaxShift + 1 \in 1..6
  BY <1>1
<1>3. CASE n < 1
  BY <1>3, MaximaType DEF RespawnDelay
<1>4. CASE ~(n < 1)
  <2>1. Least(n, MaxShift + 1) \in 1..(MaxShift + 1)
    BY <1>1, <1>4 DEF Least, MaxFailures
  <2>. QED
    BY <1>2, <1>4, <2>1, DoublingType DEF RespawnDelay, MaxDelay
<1>. QED
  BY <1>3, <1>4

(* A failed start or exit leaves a well-formed service. *)
LEMMA FailedType ==
  ASSUME NEW s \in Service, NEW ago \in Nat
  PROVE  /\ Failed(s, ago) \in Service
         /\ Failed(s, ago).on = s.on /\ Failed(s, ago).pid = NoPid
         /\ Failed(s, ago).failures >= s.failures
<1> DEFINE n == Least(s.failures + 1, MaxFailures)
<1>1. n \in 0..MaxFailures /\ n >= s.failures
  BY MaximaType, NumberAssumption DEF Service, Least, MaxFailures
<1>2. Minus(RespawnDelay(n), ago) \in 0..MaxDelay
  BY <1>1, RespawnDelayType, MaximaType DEF Minus
<1>3. /\ Failed(s, ago) = [s EXCEPT !.pid = NoPid, !.failures = n, !.late = 0,
                                    !.delay = Minus(RespawnDelay(n), ago)]
      /\ 0 \in 0..StableAge
  BY NumberAssumption DEF Failed
<1>. QED
  BY <1>1, <1>2, <1>3 DEF Service

(* A service with a process is what it was before but for pid and date. *)
LEMMA StartedType ==
  ASSUME NEW s \in Service, NEW p \in PID, since \in 0..MaxSince
  PROVE  /\ Started(s, p) \in Service
         /\ Started(s, p).on = s.on /\ Started(s, p).pid = p
         /\ Started(s, p).failures = s.failures
<1>1. Least(since, StableAge) \in 0..StableAge
  BY MaximaType, NumberAssumption DEF Least
<1>. QED
  BY <1>1 DEF Started, Service

(* So does a reaped child; a stable run clears the failure count. *)
LEMMA ExitedType ==
  ASSUME NEW s \in Service, NEW runtime \in Nat
  PROVE  /\ Exited(s, runtime) \in Service
         /\ Exited(s, runtime).on = s.on /\ Exited(s, runtime).pid = NoPid
         /\ Exited(s, runtime).failures >= s.failures \/ runtime >= StableAge
<1>1. 0 \in 0..MaxFailures /\ 0 \in 0..MaxDelay /\ 0 \in 0..StableAge
  BY MaximaType, NumberAssumption
<1>2. CASE runtime >= StableAge
  BY <1>1, <1>2 DEF Exited, Service
<1>3. CASE ~(runtime >= StableAge)
  BY <1>3, FailedType DEF Exited
<1>. QED
  BY <1>2, <1>3

LEMMA NoServiceType == NoService \in Service /\ NewService \in Service
<1>1. 0 \in 0..MaxFailures /\ 0 \in 0..MaxDelay /\ 0 \in 0..StableAge
  BY MaximaType, NumberAssumption
<1>2. NoService \in Service
  BY <1>1 DEF NoService, Service
<1>. QED
  BY <1>2 DEF NewService, Service

(* How long a run is taken to be, a number of seconds. *)
Runtime(p) == proc[p].age + svc[byPID[p]].late
LEMMA RuntimeType ==
  ASSUME TypeOK, NEW p \in PID, byPID[p] # NoKey
  PROVE  Runtime(p) \in Nat
BY NumberAssumption DEF Runtime, TypeOK, Process, Service

-----------------------------------------------------------------------------
(* Type correctness. *)

(* The part of TypeOK about services, after a reload. *)
LEMMA ReconcileType ==
  ASSUME TypeOK, NEW e, ReconcileInitServices(e)
  PROVE  /\ svc' \in [Key -> Service]
         /\ byPID' \in [PID -> Key \cup {NoKey}]
         /\ disabled' \in SUBSET PID /\ todo' \in SUBSET Key
         /\ since' \in 0..MaxSince /\ proc' \in [PID -> Process]
<1>1. svc' \in [Key -> Service]
  BY NoServiceType DEF TypeOK, ReconcileInitServices, Reconciled
<1>2. todo' \in SUBSET Key /\ disabled' \in SUBSET PID /\ UNCHANGED byPID
  BY DEF TypeOK, ReconcileInitServices, Due, Dropped
<1>3. proc' \in [PID -> Process]
  BY DEF TypeOK, ReconcileInitServices, Process
<1>4. since' \in 0..MaxSince
  BY MaximaType DEF ReconcileInitServices
<1>. QED
  BY <1>1, <1>2, <1>3, <1>4 DEF TypeOK

LEMMA ForkedType ==
  /\ NoProcess \in Process
  /\ \A k \in Key \cup {NoKey} : Forked(k) \in Process
BY NumberAssumption DEF NoProcess, Forked, Process

(* The signal channel never holds more than it has room for. *)
LEMMA DeliverType ==
  ASSUME TypeOK, NEW s \in Signal, Deliver(s)
  PROVE  sigq' \in Seq(Signal) /\ Len(sigq') <= SigCap
<1>1. CASE Len(sigq) < SigCap
  BY <1>1, NumberAssumption DEF TypeOK, Deliver
<1>2. CASE ~(Len(sigq) < SigCap)
  BY <1>2 DEF TypeOK, Deliver
<1>. QED
  BY <1>1, <1>2

LEMMA TypeInit == Init => TypeOK
<1>. SUFFICES ASSUME Init PROVE TypeOK
  OBVIOUS
<1>1. inittab \in Seq(Key) /\ entries \in Seq(Key)
  BY KeyAssumption DEF Init
<1>2. svc \in [Key -> Service] /\ proc \in [PID -> Process]
  BY NoServiceType, ForkedType DEF Init
<1>3. pc \in Phases
  BY DEF Init, Phases, JobActions
<1>4. sigq \in Seq(Signal) /\ Len(sigq) <= SigCap
  BY NumberAssumption DEF Init
<1>. QED
  BY <1>1, <1>2, <1>3, <1>4, NumberAssumption, MaximaType DEF Init, TypeOK
LEMMA TypeStep == TypeOK /\ [Next]_vars => TypeOK'
<1>. SUFFICES ASSUME TypeOK, [Next]_vars PROVE TypeOK'
  OBVIOUS
<1>. USE DEF svcVars, jobVars, diskVars, dueVars
<1>1. ASSUME NEW k \in Key, NEW p \in PID, StartDueService(k, p) PROVE TypeOK'
  <2>1. svc' \in [Key -> Service]
    BY <1>1, StartedType DEF TypeOK, StartDueService
  <2>2. byPID' \in [PID -> Key \cup {NoKey}] /\ proc' \in [PID -> Process]
    BY <1>1, ForkedType DEF TypeOK, StartDueService
  <2>. QED
    BY <1>1, <2>1, <2>2 DEF TypeOK, StartDueService
<1>2. ASSUME NEW k \in Key, StartDueFails(k) PROVE TypeOK'
  <2>1. svc' \in [Key -> Service]
    <3>1. since \in Nat
      BY MaximaType DEF TypeOK
    <3>. QED
      BY <1>2, <3>1, FailedType DEF TypeOK, StartDueFails
  <2>. QED
    BY <1>2, <2>1 DEF TypeOK, StartDueFails
<1>3. CASE StartDueDone
  BY <1>3, MaximaType DEF TypeOK, StartDueDone, Phases
<1>4. ASSUME NEW p \in PID, ReapSystemChild(p) PROVE TypeOK'
  <2>1. byPID[p] # NoKey => Runtime(p) \in Nat
    BY RuntimeType
  <2>2. svc' \in [Key -> Service]
    <3>1. CASE byPID[p] = NoKey \/ p \in disabled
      BY <1>4, <3>1 DEF TypeOK, ReapSystemChild
    <3>2. CASE ~(byPID[p] = NoKey \/ p \in disabled)
      <4>1. byPID[p] \in Key /\ svc[byPID[p]] \in Service
        BY <3>2 DEF TypeOK
      <4>2. Exited(svc[byPID[p]], Runtime(p)) \in Service
        BY <2>1, <3>2, <4>1, ExitedType
      <4>. QED
        BY <1>4, <3>2, <4>1, <4>2 DEF TypeOK, ReapSystemChild, Runtime
    <3>. QED
      BY <3>1, <3>2
  <2>3. byPID' \in [PID -> Key \cup {NoKey}] /\ proc' \in [PID -> Process]
    BY <1>4, ForkedType DEF TypeOK, ReapSystemChild
  <2>. QED
    BY <1>4, <2>2, <2>3 DEF TypeOK, ReapSystemChild
<1>5. CASE ReapSystemDone
  BY <1>5, MaximaType DEF TypeOK, ReapSystemDone, Phases, StartPhases, Due
<1>6. ASSUME NEW p \in PID, StartJob(p) PROVE TypeOK'
  <2>1. PICK i \in JobsLeft : at' = i + 1 /\ proc' = [proc EXCEPT ![p] = Forked(entries[i])]
    BY <1>6 DEF StartJob
  <2>2. i \in Nat \ {0} /\ entries[i] \in Key
    BY <2>1 DEF TypeOK, JobsLeft
  <2>3. proc' \in [PID -> Process] /\ at' \in Nat \ {0}
    BY <2>1, <2>2, ForkedType DEF TypeOK
  <2>. QED
    BY <1>6, <2>3 DEF TypeOK, StartJob
<1>7. CASE StartJobFails
  <2>1. at' \in Nat \ {0}
    BY <1>7 DEF TypeOK, StartJobFails, JobsLeft
  <2>. QED
    BY <1>7, <2>1 DEF TypeOK, StartJobFails
<1>8. CASE WaitJob
  <2>1. proc' \in [PID -> Process]
    BY <1>8, ForkedType DEF TypeOK, WaitJob
  <2>. QED
    BY <1>8, <2>1 DEF TypeOK, WaitJob
<1>9. CASE JobsDone
  <2>1. pc' \in Phases /\ at' \in Nat \ {0}
    BY <1>9 DEF JobsDone, After, JobActions, Phases, StartPhases, DownPhases
  <2>2. CASE pc = "once"
    BY <1>9, <2>1, <2>2, ReconcileType DEF TypeOK, JobsDone
  <2>3. CASE pc # "once"
    BY <1>9, <2>1, <2>3 DEF TypeOK, JobsDone
  <2>. QED
    BY <2>2, <2>3
<1>10. CASE Receive
  <2>1. sigq' \in Seq(Signal) /\ Len(sigq') <= SigCap
    BY <1>10, NumberAssumption DEF TypeOK, Receive
  <2>2. pc' \in Phases /\ at' \in Nat \ {0} /\ entries' \in Seq(Key)
    BY <1>10 DEF TypeOK, Receive, Handle, Enter, Phases, JobActions, StartPhases
  <2>3. how' \in {"restart", "halt", "poweroff"}
    BY <1>10 DEF TypeOK, Receive, Handle
  <2>4. CASE ReconcileInitServices(inittab)
    BY <1>10, <2>1, <2>2, <2>3, <2>4, ReconcileType DEF TypeOK, Receive
  <2>5. CASE UNCHANGED <<svcVars, dueVars, proc>>
    BY <1>10, <2>1, <2>2, <2>3, <2>5 DEF TypeOK, Receive
  <2>. QED
    BY <1>10, <2>4, <2>5 DEF Receive, Handle
<1>11. CASE Ticker
  BY <1>11 DEF TypeOK, Ticker, Enter, Phases
<1>12. CASE ShutdownStage
  <2>1. pc' \in Phases
    BY <1>12 DEF ShutdownStage, TermAll, GraceOver, KillAll, UnmountForShutdown,
                 Sync, Reboot, Phases, DownPhases, KilledPhases
  <2>2. CASE TermAll
    <3>1. proc' \in [PID -> Process]
      BY <2>2 DEF TermAll, Broadcast, TypeOK, Process
    <3>. QED
      BY <2>1, <2>2, <3>1, NumberAssumption DEF TermAll, TypeOK
  <2>3. CASE KillAll
    <3>1. proc' \in [PID -> Process]
      BY <2>3 DEF KillAll, Broadcast, TypeOK, Process
    <3>. QED
      BY <2>1, <2>3, <3>1 DEF KillAll, TypeOK
  <2>4. CASE GraceOver \/ UnmountForShutdown \/ Sync \/ Reboot
    BY <2>1, <2>4 DEF GraceOver, UnmountForShutdown, Sync, Reboot, TypeOK
  <2>. QED
    BY <1>12, <2>2, <2>3, <2>4 DEF ShutdownStage
<1>13. ASSUME NEW p \in PID, ReapInitChildren(p) PROVE TypeOK'
  <2>1. proc' \in [PID -> Process]
    BY <1>13, ForkedType DEF TypeOK, ReapInitChildren
  <2>. QED
    BY <1>13, <2>1 DEF TypeOK, ReapInitChildren
<1>14. ASSUME NEW p \in PID, Exit(p) PROVE TypeOK'
  <2>1. proc' \in [PID -> Process]
    BY <1>14 DEF TypeOK, Exit, Process
  <2>2. sigq' \in Seq(Signal) /\ Len(sigq') <= SigCap
    BY <1>14, DeliverType DEF TypeOK, Exit, Signal
  <2>. QED
    BY <1>14, <2>1, <2>2 DEF TypeOK, Exit
<1>15. ASSUME NEW p \in PID, Adopt(p) PROVE TypeOK'
  <2> DEFINE orphan == [Forked(NoKey) EXCEPT !.sig = IF pc \in KilledPhases THEN "kill" ELSE "none"]
  <2>0. orphan \in Process
    BY NumberAssumption DEF Forked, Process
  <2>1. proc' \in [PID -> Process]
    <3>1. proc \in [PID -> Process] /\ proc' = [proc EXCEPT ![p] = orphan]
      BY <1>15 DEF TypeOK, Adopt
    <3> HIDE DEF orphan
    <3>. QED
      BY <2>0, <3>1
  <2>. QED
    BY <1>15, <2>1 DEF TypeOK, Adopt
<1>16. ASSUME NEW p \in PID, Write(p) PROVE TypeOK'
  BY <1>16 DEF TypeOK, Write
<1>17. ASSUME NEW s \in AdminSignals, AdminSignal(s) PROVE TypeOK'
  <2>1. s \in Signal /\ admin' \in Nat
    BY <1>17, KeyAssumption DEF TypeOK, AdminSignal
  <2>2. sigq' \in Seq(Signal) /\ Len(sigq') <= SigCap
    BY <1>17, <2>1, DeliverType DEF AdminSignal
  <2>. QED
    BY <1>17, <2>1, <2>2 DEF TypeOK, AdminSignal
<1>18. ASSUME NEW file \in Inittabs, AdminEdit(file) PROVE TypeOK'
  BY <1>18, KeyAssumption DEF TypeOK, AdminEdit
<1>19. CASE Tick
  <2>1. svc' \in [Key -> Service]
    <3>1. \A s \in Service : [s EXCEPT !.delay = Down1(@)] \in Service
      BY MaximaType DEF Service, Down1, Minus
    <3>. QED
      BY <1>19, <3>1 DEF TypeOK, Tick
  <2>2. proc' \in [PID -> Process]
    <3>1. \A c \in Process : [c EXCEPT !.age = Older(@, StableAge)] \in Process
      BY NumberAssumption DEF Process, Older
    <3>. QED
      BY <1>19, <3>1 DEF TypeOK, Tick
  <2>3. since' \in 0..MaxSince
    BY <1>19, MaximaType DEF TypeOK, Tick, Older
  <2>. QED
    BY <1>19, <2>1, <2>2, <2>3 DEF TypeOK, Tick, Down1, Minus
<1>20. CASE UNCHANGED vars
  BY <1>20 DEF TypeOK, vars
<1>. QED
  BY <1>1, <1>2, <1>3, <1>4, <1>5, <1>6, <1>7, <1>8, <1>9, <1>10, <1>11, <1>12,
     <1>13, <1>14, <1>15, <1>16, <1>17, <1>18, <1>19, <1>20
  DEF Next, Services, Jobs, Shutdown, Environment

(* init's tables, its place and the kernel's process table keep their types *)
(* through every interleaving of init with its children and the clock.    *)
THEOREM TypeCorrect == Spec => []TypeOK
BY TypeInit, TypeStep, PTL DEF Spec
-----------------------------------------------------------------------------
(* The service tables.  The invariant is Inductive; Tables is the part of  *)
(* it that is not the type invariant.                                     *)

Tables == TablesAgree /\ StartsPending /\ JobApart /\ BootAlone /\ WantedKnown

LEMMA PhasesDisjoint ==
  /\ ServiceActions \cap JobActions = {} /\ JobActions \cap StartPhases = {}
  /\ StartPhases \cap DownPhases = {} /\ "once" \in JobActions
  /\ DownPhases \cap JobActions = {"shutdown"}
  /\ {"sysinit", "wait"} \subseteq JobActions
BY DEF ServiceActions, JobActions, StartPhases, DownPhases, KilledPhases

(* A step that touches no table and neither creates nor reaps a process.  *)
LEMMA TablesFrame ==
  ASSUME TypeOK, Tables,
         UNCHANGED <<byPID, disabled, jobPid>>, todo' \subseteq todo,
         \A k \in Key : svc'[k].on = svc[k].on /\ svc'[k].pid = svc[k].pid,
         \A p \in PID : /\ proc'[p].st = "free" <=> proc[p].st = "free"
                        /\ proc'[p].key = proc[p].key
                        /\ proc'[p].st = "run" /\ proc'[p].sig = "none" =>
                           proc[p].st = "run" /\ proc[p].sig = "none",
         Supervising' => Supervising,
         todo' # {} => pc' \in StartPhases,
         Supervising' /\ jobPid # NoPid => pc' \in JobActions /\ pc' # "once",
         pc' \in {"sysinit", "wait", "once"} => pc \in {"sysinit", "wait", "once"}
  PROVE  Tables'
<1>1. TablesAgree'
  <2>. SUFFICES ASSUME Supervising' PROVE TablesAgree'
    BY DEF TablesAgree
  <2>1. \A k \in Key : svc'[k].pid # NoPid =>
          /\ svc'[k].on /\ byPID'[svc'[k].pid] = k
          /\ svc'[k].pid \notin disabled'
    BY DEF Tables, TablesAgree
  <2>2. \A p \in PID : byPID'[p] # NoKey =>
          /\ proc'[p].st # "free" /\ proc'[p].key = byPID'[p]
          /\ p \in disabled' \/ svc'[byPID'[p]].pid = p
    BY DEF Tables, TablesAgree, Free, TypeOK
  <2>3. \A p \in disabled' : byPID'[p] # NoKey
    BY DEF Tables, TablesAgree
  <2>. QED
    BY <2>1, <2>2, <2>3 DEF TablesAgree, Free
<1>2. StartsPending'
  BY DEF Tables, StartsPending, TypeOK
<1>3. JobApart'
  BY DEF Tables, JobApart, TypeOK, Free
<1>4. BootAlone'
  BY DEF Tables, BootAlone
<1>5. WantedKnown'
  BY DEF Tables, WantedKnown, TypeOK, Process
<1>. QED
  BY <1>1, <1>2, <1>3, <1>4, <1>5 DEF Tables

(* The same when init is going down, whatever happens to processes. *)
LEMMA TablesDown ==
  ASSUME Tables, pc' \in DownPhases, pc \in DownPhases, UNCHANGED <<svc, todo>>
  PROVE  Tables'
<1>1. todo = {} /\ ~Supervising' /\ pc' \notin {"sysinit", "wait", "once"}
  BY PhasesDisjoint DEF Tables, StartsPending, Supervising, DownPhases, KilledPhases
<1>. QED
  BY <1>1 DEF Tables, TablesAgree, StartsPending, JobApart, BootAlone, WantedKnown

LEMMA TablesInit == Init => Tables
<1>. SUFFICES ASSUME Init PROVE Tables
  OBVIOUS
<1>1. TablesAgree /\ BootAlone
  BY DEF Init, TablesAgree, BootAlone, NoService
<1>2. StartsPending /\ JobApart /\ WantedKnown
  BY DEF Init, StartsPending, JobApart, WantedKnown, NoProcess
<1>. QED
  BY <1>1, <1>2 DEF Tables

(* A reload disables what is no longer listed and keeps the rest.  pc' is   *)
(* the start phase the reload ends in.                                    *)
LEMMA ReconcileTables ==
  ASSUME TypeOK, Tables, NEW e, ReconcileInitServices(e), Supervising,
         jobPid = NoPid, jobPid' = NoPid, pc' \in StartPhases
  PROVE  Tables'
<1>. USE PhasesDisjoint
<1>. DEFINE kept == {k \in Key : svc[k].on /\ k \in Desired(e)}
<1>1. /\ \A k \in kept : svc'[k] = svc[k]
      /\ \A k \in Key \ kept : svc'[k].pid = NoPid
  BY DEF ReconcileInitServices, Reconciled, NoService, NewService
<1>2. \A p \in PID : /\ proc'[p].st = proc[p].st /\ proc'[p].key = proc[p].key
                     /\ proc'[p].sig = "none" => proc[p].sig = "none" /\ p \notin Dropped(e)
  BY DEF ReconcileInitServices, TypeOK, Process
<1>3. \A k \in Key, p \in PID : svc[k].pid = p =>
        svc[k].on /\ byPID[p] = k /\ p \notin disabled
  BY KeyAssumption DEF Tables, TablesAgree
<1>4. \A k \in Key, p \in PID : svc'[k].pid = p => k \in kept /\ svc[k].pid = p
  BY <1>1, KeyAssumption
<1>5. \A k \in kept, p \in PID : svc[k].pid = p => p \notin Dropped(e)
  BY <1>3 DEF Dropped
<1>6. \A k \in Key, p \in PID :
        svc[k].pid = p => p \in Dropped(e) \/ svc'[k].pid = p
  BY <1>1, <1>3 DEF Dropped
<1>7. disabled' = disabled \cup Dropped(e) /\ byPID' = byPID
  BY DEF ReconcileInitServices
<1>8. TablesAgree'
  <2>1. \A k \in Key : svc'[k].pid # NoPid =>
          svc'[k].on /\ byPID'[svc'[k].pid] = k /\ svc'[k].pid \notin disabled'
    <3>. SUFFICES ASSUME NEW k \in Key, svc'[k].pid # NoPid
                  PROVE  svc'[k].on /\ byPID'[svc'[k].pid] = k
                         /\ svc'[k].pid \notin disabled'
      OBVIOUS
    <3>1. svc'[k] = svc[k] /\ k \in kept
      BY <1>1
    <3>2. svc[k].pid \in PID
      BY <3>1 DEF TypeOK, Service
    <3>. QED
      BY <3>1, <3>2, <1>3, <1>5, <1>7
  <2>2. \A p \in PID : byPID'[p] # NoKey =>
          /\ proc'[p].st # "free" /\ proc'[p].key = byPID'[p]
          /\ p \in disabled' \/ svc'[byPID'[p]].pid = p
    BY <1>2, <1>6, <1>7 DEF Tables, TablesAgree, Free, TypeOK
  <2>3. \A p \in disabled' : byPID'[p] # NoKey
    BY <1>3, <1>7, KeyAssumption DEF Tables, TablesAgree, Dropped
  <2>. QED
    BY <2>1, <2>2, <2>3 DEF TablesAgree, Free
<1>9. StartsPending'
  BY DEF ReconcileInitServices, StartsPending, Due
<1>10. JobApart' /\ BootAlone'
  BY DEF JobApart, BootAlone, StartPhases
<1>11. WantedKnown'
  <2>. SUFFICES ASSUME NEW p \in PID, proc'[p].st = "run", proc'[p].sig = "none",
                       proc'[p].key # NoKey, Action[proc'[p].key] \in ServiceActions
                PROVE  svc'[proc'[p].key].pid = p
    BY DEF WantedKnown
  <2>1. svc[proc[p].key].pid = p /\ proc[p].key \in Key /\ p \notin Dropped(e)
    BY <1>2 DEF Tables, WantedKnown, TypeOK, Process
  <2>. QED
    BY <1>2, <1>6, <2>1
<1>. QED
  BY <1>8, <1>9, <1>10, <1>11 DEF Tables
(* The steps that move a process in or out of the tables. *)
LEMMA StartTables ==
  ASSUME TypeOK, Tables, NEW k \in Key, NEW p \in PID, StartDueService(k, p)
  PROVE  Tables'
<1>. USE PhasesDisjoint
<1>1. /\ pc' = pc /\ pc \in StartPhases /\ Supervising /\ jobPid' = jobPid
      /\ svc[k].on /\ svc[k].pid = NoPid
      /\ proc[p].st = "free" /\ byPID[p] = NoKey /\ p \notin disabled
      /\ jobPid = NoPid \/ ~Supervising
  BY DEF StartDueService, Tables, TablesAgree, StartsPending, JobApart,
         Supervising, Free, jobVars, StartPhases, JobActions
<1>2. /\ svc' = [svc EXCEPT ![k] = Started(svc[k], p)]
      /\ Started(svc[k], p).on /\ Started(svc[k], p).pid = p
      /\ byPID' = [byPID EXCEPT ![p] = k]
      /\ proc' = [proc EXCEPT ![p] = Forked(k)] /\ disabled' = disabled
      /\ todo' = todo \ {k}
  BY <1>1, StartedType DEF StartDueService, TypeOK
<1>3. /\ svc'[k].on /\ svc'[k].pid = p /\ byPID'[p] = k
      /\ proc'[p].st = "run" /\ proc'[p].key = k
      /\ \A j \in Key \ {k} : svc'[j] = svc[j] /\ svc[j].pid # p
      /\ \A q \in PID \ {p} : proc'[q] = proc[q] /\ byPID'[q] = byPID[q]
  <2>1. \A j \in Key : svc[j].pid # p
    BY <1>1, KeyAssumption DEF Tables, TablesAgree
  <2>2. svc'[k] = Started(svc[k], p) /\ \A j \in Key \ {k} : svc'[j] = svc[j]
    BY <1>2 DEF TypeOK
  <2>3. /\ byPID'[p] = k /\ proc'[p].st = "run" /\ proc'[p].key = k
        /\ \A q \in PID \ {p} : proc'[q] = proc[q] /\ byPID'[q] = byPID[q]
    BY <1>2 DEF TypeOK, Forked
  <2>. QED
    BY <1>2, <2>1, <2>2, <2>3
<1>4. TablesAgree'
  <2>1. \A j \in Key : svc'[j].pid # NoPid =>
          /\ svc'[j].on /\ byPID'[svc'[j].pid] = j
          /\ svc'[j].pid \notin disabled'
    BY <1>1, <1>2, <1>3 DEF Tables, TablesAgree, TypeOK, Service
  <2>2. \A q \in PID : byPID'[q] # NoKey =>
          /\ proc'[q].st # "free" /\ proc'[q].key = byPID'[q]
          /\ q \in disabled' \/ svc'[byPID'[q]].pid = q
    BY <1>1, <1>2, <1>3, KeyAssumption DEF Tables, TablesAgree, TypeOK, Free
  <2>3. \A q \in disabled' : byPID'[q] # NoKey
    BY <1>1, <1>2, <1>3 DEF Tables, TablesAgree, TypeOK
  <2>. QED
    BY <2>1, <2>2, <2>3 DEF TablesAgree, Free
<1>5. StartsPending'
  BY <1>1, <1>2, <1>3 DEF Tables, StartsPending, TypeOK
<1>6. JobApart' /\ BootAlone'
  BY <1>1, KeyAssumption DEF JobApart, BootAlone, StartPhases, Supervising, DownPhases
<1>7. WantedKnown'
  <2>. SUFFICES ASSUME NEW q \in PID, proc'[q].st = "run",
                       proc'[q].sig = "none", proc'[q].key # NoKey,
                       Action[proc'[q].key] \in ServiceActions
                PROVE  svc'[proc'[q].key].pid = q
    BY DEF WantedKnown
  <2>1. CASE q = p
    BY <1>3, <2>1
  <2>2. CASE q # p
    <3>1. proc'[q] = proc[q] /\ proc[q].key \in Key /\ svc[proc[q].key].pid = q
      BY <1>1, <1>3, <2>2 DEF Tables, WantedKnown, TypeOK, Process
    <3>2. proc[q].key # k
      BY <1>1, <3>1, KeyAssumption
    <3>. QED
      BY <1>3, <3>1, <3>2
  <2>. QED
    BY <2>1, <2>2
<1>. QED
  BY <1>4, <1>5, <1>6, <1>7 DEF Tables

LEMMA ReapTables ==
  ASSUME TypeOK, Tables, NEW p \in PID, ReapSystemChild(p)
  PROVE  Tables'
<1>1. /\ pc' = pc /\ pc = "reap" /\ Supervising /\ jobPid' = jobPid
      /\ todo' = todo /\ todo = {} /\ jobPid = NoPid
  BY DEF ReapSystemChild, Tables, StartsPending, JobApart, Supervising, jobVars,
         dueVars, StartPhases, JobActions, DownPhases, KilledPhases
<1>2. /\ byPID' = [byPID EXCEPT ![p] = NoKey] /\ disabled' = disabled \ {p}
      /\ proc' = [proc EXCEPT ![p] = NoProcess]
      /\ byPID'[p] = NoKey /\ proc'[p].st = "free"
      /\ \A q \in PID \ {p} : proc'[q] = proc[q] /\ byPID'[q] = byPID[q]
  BY DEF ReapSystemChild, TypeOK, NoProcess
<1>3. \A j \in Key : /\ svc[j].pid # p => svc'[j] = svc[j]
                     /\ svc[j].pid = p => svc'[j].pid = NoPid
  <2>1. CASE byPID[p] = NoKey \/ p \in disabled
    BY <1>1, <2>1, KeyAssumption DEF ReapSystemChild, Tables, TablesAgree
  <2>2. CASE ~(byPID[p] = NoKey \/ p \in disabled)
    <3>1. byPID[p] \in Key /\ svc[byPID[p]] \in Service /\ Runtime(p) \in Nat
      BY <2>2, RuntimeType DEF TypeOK
    <3>2. \A j \in Key : svc[j].pid = p <=> j = byPID[p]
      BY <1>1, <2>2, <3>1, KeyAssumption DEF Tables, TablesAgree
    <3>3. Exited(svc[byPID[p]], Runtime(p)).pid = NoPid
      BY <3>1, ExitedType
    <3>. QED
      BY <2>2, <3>1, <3>2, <3>3 DEF ReapSystemChild, TypeOK, Runtime
  <2>. QED
    BY <2>1, <2>2
<1>4. TablesAgree'
  <2>1. \A j \in Key : svc'[j].pid # NoPid =>
          /\ svc'[j].on /\ byPID'[svc'[j].pid] = j
          /\ svc'[j].pid \notin disabled'
    BY <1>1, <1>2, <1>3 DEF Tables, TablesAgree, TypeOK, Service
  <2>2. \A q \in PID : byPID'[q] # NoKey =>
          /\ proc'[q].st # "free" /\ proc'[q].key = byPID'[q]
          /\ q \in disabled' \/ svc'[byPID'[q]].pid = q
    <3>. SUFFICES ASSUME NEW q \in PID, byPID'[q] # NoKey
                  PROVE  /\ proc'[q].st # "free" /\ proc'[q].key = byPID'[q]
                         /\ q \in disabled' \/ svc'[byPID'[q]].pid = q
      OBVIOUS
    <3>1. q # p /\ byPID'[q] = byPID[q] /\ proc'[q] = proc[q] /\ byPID[q] \in Key
      BY <1>2 DEF TypeOK
    <3>2. /\ proc[q].st # "free" /\ proc[q].key = byPID[q]
          /\ q \in disabled \/ svc[byPID[q]].pid = q
      BY <1>1, <3>1 DEF Tables, TablesAgree, Free
    <3>. QED
      BY <1>2, <1>3, <3>1, <3>2
  <2>3. \A q \in disabled' : byPID'[q] # NoKey
    BY <1>1, <1>2 DEF Tables, TablesAgree, TypeOK
  <2>. QED
    BY <2>1, <2>2, <2>3 DEF TablesAgree, Free
<1>5. StartsPending' /\ JobApart' /\ BootAlone'
  BY <1>1 DEF StartsPending, JobApart, BootAlone
<1>6. WantedKnown'
  <2>. SUFFICES ASSUME NEW q \in PID, proc'[q].st = "run",
                       proc'[q].sig = "none", proc'[q].key # NoKey,
                       Action[proc'[q].key] \in ServiceActions
                PROVE  svc'[proc'[q].key].pid = q
    BY DEF WantedKnown
  <2>1. q # p /\ proc'[q] = proc[q]
    BY <1>2
  <2>2. proc[q].key \in Key /\ svc[proc[q].key].pid = q
    BY <1>1, <2>1 DEF Tables, WantedKnown, TypeOK, Process
  <2>. QED
    BY <1>3, <2>1, <2>2
<1>. QED
  BY <1>4, <1>5, <1>6 DEF Tables

(* A process that is no service's comes or goes: a job, or an orphan. *)
LEMMA ProcessTables ==
  ASSUME TypeOK, Tables, NEW p \in PID, NEW c \in Process,
         byPID[p] = NoKey \/ ~Supervising,
         proc' = [proc EXCEPT ![p] = c],
         c.key = NoKey \/ Action[c.key] \in JobActions \/ c.st # "run",
         UNCHANGED <<svc, byPID, disabled, todo, pc>>,
         jobPid' = NoPid \/ (pc # "once" /\ jobPid' = p /\ c.st # "free" /\ pc \in JobActions)
           \/ (jobPid' = jobPid /\ c.st # "free")
  PROVE  Tables'
<1>1. Supervising' <=> Supervising
  BY DEF Supervising
<1>2. TablesAgree'
  BY <1>1 DEF Tables, TablesAgree, TypeOK, Free
<1>3. StartsPending' /\ BootAlone'
  BY DEF Tables, StartsPending, BootAlone
<1>4. JobApart'
  BY <1>1 DEF Tables, JobApart, TypeOK, Free
<1>5. WantedKnown'
  <2>. SUFFICES ASSUME NEW q \in PID, Supervising, proc'[q].st = "run",
                       proc'[q].sig = "none", proc'[q].key # NoKey,
                       Action[proc'[q].key] \in ServiceActions
                PROVE  svc[proc'[q].key].pid = q
    BY <1>1 DEF WantedKnown
  <2>1. CASE q = p
    <3>. proc'[q] = c
      BY <2>1 DEF TypeOK
    <3>. QED
      BY PhasesDisjoint
  <2>2. CASE q # p
    BY <2>2 DEF Tables, WantedKnown, TypeOK
  <2>. QED
    BY <2>1, <2>2
<1>. QED
  BY <1>2, <1>3, <1>4, <1>5 DEF Tables
LEMMA TablesStep == TypeOK /\ Tables /\ [Next]_vars => Tables'
<1>. SUFFICES ASSUME TypeOK, Tables, [Next]_vars PROVE Tables'
  OBVIOUS
<1>. USE DEF svcVars, jobVars, diskVars, dueVars
<1>a. pc \notin StartPhases => todo = {}
  BY DEF Tables, StartsPending
<1>b. Supervising /\ jobPid # NoPid =>
        pc \in JobActions /\ pc # "once" /\ ~Free(jobPid) /\ byPID[jobPid] = NoKey
  BY DEF Tables, JobApart
<1>c. Supervising => \A p \in PID : Free(p) => byPID[p] = NoKey
  BY DEF Tables, TablesAgree
<1>1. ASSUME NEW k \in Key, NEW p \in PID, StartDueService(k, p) PROVE Tables'
  BY <1>1, StartTables
<1>2. ASSUME NEW k \in Key, StartDueFails(k) PROVE Tables'
  <2>1. \A j \in Key : svc'[j].on = svc[j].on /\ svc'[j].pid = svc[j].pid
    <3>1. svc[k].pid = NoPid /\ svc[k] \in Service /\ since \in Nat
      BY <1>2, MaximaType DEF StartDueFails, Tables, StartsPending, TypeOK
    <3>. QED
      BY <1>2, <3>1, FailedType DEF StartDueFails, TypeOK
  <2>. QED
    BY <1>2, <2>1, <1>b, TablesFrame, PhasesDisjoint
    DEF StartDueFails, Supervising, Free, StartPhases
<1>3. CASE StartDueDone
  BY <1>3, <1>b, TablesFrame
  DEF StartDueDone, Supervising, StartPhases, JobActions, DownPhases, KilledPhases, Free
<1>4. ASSUME NEW p \in PID, ReapSystemChild(p) PROVE Tables'
  BY <1>4, ReapTables
<1>5. CASE ReapSystemDone
  <2>1. /\ StartsPending' /\ JobApart' /\ BootAlone'
    BY <1>5, <1>b
    DEF ReapSystemDone, StartsPending, JobApart, BootAlone, Due, StartPhases,
        Supervising, JobActions, DownPhases, KilledPhases
  <2>2. TablesAgree' /\ WantedKnown'
    BY <1>5
    DEF ReapSystemDone, Tables, TablesAgree, WantedKnown, Supervising, Free,
        DownPhases, KilledPhases
  <2>. QED
    BY <2>1, <2>2 DEF Tables
<1>6. ASSUME NEW p \in PID, StartJob(p) PROVE Tables'
  <2>1. PICK i \in JobsLeft : proc' = [proc EXCEPT ![p] = Forked(entries[i])]
    BY <1>6 DEF StartJob
  <2>2. /\ entries[i] \in Key /\ Action[entries[i]] \in JobActions
        /\ Forked(entries[i]) \in Process
    BY <1>6, <2>1, ForkedType DEF StartJob, JobsLeft, TypeOK
  <2>3. byPID[p] = NoKey \/ ~Supervising
    BY <1>6, <1>c DEF StartJob
  <2>. QED
    BY <1>6, <2>1, <2>2, <2>3, ProcessTables DEF StartJob, Forked
<1>7. CASE StartJobFails
  BY <1>7, <1>a, <1>b, TablesFrame, PhasesDisjoint
  DEF StartJobFails, Supervising, Free
<1>8. CASE WaitJob
  <2>1. jobPid \in PID /\ proc' = [proc EXCEPT ![jobPid] = NoProcess]
    BY <1>8 DEF WaitJob, TypeOK
  <2>. QED
    BY <1>8, <2>1, <1>b, ProcessTables, ForkedType DEF WaitJob, NoProcess
<1>9. CASE JobsDone
  <2>1. CASE pc = "once"
    BY <1>9, <2>1, ReconcileTables
    DEF JobsDone, After, StartPhases, JobActions, Supervising, DownPhases, KilledPhases
  <2>2. CASE pc # "once"
    BY <1>9, <2>2, <1>a, TablesFrame
    DEF JobsDone, After, Supervising, JobActions, StartPhases, DownPhases,
        KilledPhases, Free
  <2>. QED
    BY <2>1, <2>2
<1>10. CASE Receive
  <2>1. Supervising /\ jobPid = NoPid /\ jobPid' = jobPid /\ todo = {}
    BY <1>10, <1>a, <1>b
    DEF Receive, Supervising, JobActions, StartPhases, DownPhases, KilledPhases
  <2>2. CASE ReconcileInitServices(inittab) /\ pc' = "reloadstart"
    BY <2>1, <2>2, ReconcileTables DEF StartPhases
  <2>3. CASE UNCHANGED <<svcVars, dueVars, proc>>
    <3>1. pc' \notin {"sysinit", "wait", "once"}
      BY <1>10 DEF Receive, Handle, Enter
    <3>. QED
      BY <2>1, <2>3, <3>1, TablesFrame DEF Free
  <2>. QED
    BY <1>10, <2>2, <2>3 DEF Receive, Handle, Enter
<1>11. CASE Ticker
  BY <1>11, <1>a, <1>b, TablesFrame
  DEF Ticker, Enter, Supervising, JobActions, StartPhases, DownPhases, KilledPhases, Free
<1>12. CASE Shutdown
  <2>1. pc \in DownPhases /\ pc' \in DownPhases /\ UNCHANGED <<svc, todo>>
    BY <1>12
    DEF Shutdown, ShutdownStage, TermAll, GraceOver, KillAll, UnmountForShutdown,
        Sync, Reboot, ReapInitChildren, DownPhases, KilledPhases
  <2>. QED
    BY <2>1, TablesDown
<1>13. ASSUME NEW p \in PID, Exit(p) PROVE Tables'
  <2>1. \A q \in PID : /\ proc'[q].st = "free" <=> proc[q].st = "free"
                       /\ proc'[q].key = proc[q].key
                       /\ proc'[q].st = "run" => proc[q].st = "run" /\ proc'[q].sig = proc[q].sig
    <3>1. /\ proc'[p].st = "zombie" /\ proc'[p].key = proc[p].key
          /\ \A q \in PID \ {p} : proc'[q] = proc[q]
      <4>1. \A c \in Process : LET d == [c EXCEPT !.st = "zombie"]
                              IN d.st = "zombie" /\ d.key = c.key
        BY DEF Process
      <4>. QED
        BY <1>13, <4>1 DEF Exit, TypeOK
    <3>. QED
      BY <1>13, <3>1 DEF Exit
  <2>. QED
    BY <1>13, <2>1, <1>a, <1>b, TablesFrame DEF Exit, Supervising, Free
<1>14. ASSUME NEW p \in PID, Adopt(p) PROVE Tables'
  <2>1. PICK c \in Process : proc' = [proc EXCEPT ![p] = c] /\ c.key = NoKey /\ c.st = "run"
    <3> DEFINE c == [Forked(NoKey) EXCEPT
                       !.sig = IF pc \in KilledPhases THEN "kill" ELSE "none"]
    <3>1. c \in Process /\ c.key = NoKey /\ c.st = "run"
      BY NumberAssumption DEF Forked, Process
    <3>. QED
      BY <1>14, <3>1 DEF Adopt
  <2>2. byPID[p] = NoKey \/ ~Supervising
    BY <1>14, <1>c DEF Adopt
  <2>. QED
    BY <1>14, <2>1, <2>2, ProcessTables DEF Adopt
<1>15. CASE (\E p \in PID : Write(p)) \/ (\E s \in AdminSignals : AdminSignal(s))
            \/ (\E file \in Inittabs : AdminEdit(file)) \/ UNCHANGED vars
  <2>1. UNCHANGED <<svc, byPID, disabled, todo, pc, jobPid, proc>>
    BY <1>15 DEF Write, AdminSignal, AdminEdit, vars
  <2>. QED
    BY <2>1, <1>a, <1>b, TablesFrame DEF Supervising
<1>16. CASE Tick
  <2>1. \A k \in Key : svc'[k].on = svc[k].on /\ svc'[k].pid = svc[k].pid
    BY <1>16 DEF Tick, TypeOK, Service
  <2>2. \A q \in PID : /\ proc'[q].st = proc[q].st /\ proc'[q].key = proc[q].key
                       /\ proc'[q].sig = proc[q].sig
    BY <1>16 DEF Tick, TypeOK, Process
  <2>. QED
    BY <1>16, <2>1, <2>2, <1>a, <1>b, TablesFrame DEF Tick, Supervising, Free
<1>. QED
  BY <1>1, <1>2, <1>3, <1>4, <1>5, <1>6, <1>7, <1>8, <1>9, <1>10, <1>11, <1>12,
     <1>13, <1>14, <1>15, <1>16 DEF Next, Services, Jobs, Environment

LEMMA InductiveInvariant == Spec => []Inductive
<1>1. Init => Inductive
  BY TypeInit, TablesInit DEF Inductive, Tables
<1>2. Inductive /\ [Next]_vars => Inductive'
  BY TypeStep, TablesStep DEF Inductive, Tables
<1>. QED
  BY <1>1, <1>2, PTL DEF Spec

(* A reload never signals a recycled pid and an exit is never charged to   *)
(* the wrong service, for any number of services, processes and reloads.  *)
THEOREM TablesAlwaysAgree == Spec => []TablesAgree
<1>1. Inductive => TablesAgree
  BY DEF Inductive
<1>. QED
  BY <1>1, InductiveInvariant, PTL

(* However often a service is dropped and listed again, one process of it  *)
(* at most has not been told to stop.                                     *)
THEOREM NeverTwoWanted == Spec => []OneWantedProcess
<1>1. Inductive => OneWantedProcess
  BY DEF Inductive, OneWantedProcess, WantedKnown
<1>. QED
  BY <1>1, InductiveInvariant, PTL
-----------------------------------------------------------------------------
(* Failure counts. *)

(* A service that is not listed has no failures to forgive. *)
OffForgotten == \A k \in Key : ~svc[k].on => svc[k].failures = 0

(* The steps that leave every service alone. *)
SvcSteps ==
  \/ \E k \in Key : StartDueFails(k) \/ \E p \in PID : StartDueService(k, p)
  \/ \E p \in PID : ReapSystemChild(p)
  \/ \E e : ReconcileInitServices(e)
  \/ Tick

LEMMA OtherStepsKeepServices == [Next]_vars => SvcSteps \/ UNCHANGED svc
BY DEF SvcSteps, Next, Services, Jobs, Shutdown, ShutdownStage, Environment, vars,
       StartDueDone, ReapSystemDone, StartJob, StartJobFails, WaitJob, JobsDone,
       Receive, Handle, Ticker, TermAll, GraceOver, KillAll, UnmountForShutdown,
       Sync, Reboot, ReapInitChildren, Exit, Adopt, Write, AdminSignal, AdminEdit,
       svcVars, jobVars, diskVars, dueVars

LEMMA OffForgottenStep ==
  ASSUME Inductive, OffForgotten, [Next]_vars PROVE OffForgotten'
<1>1. ASSUME NEW j \in Key, NEW p \in PID, StartDueService(j, p) PROVE OffForgotten'
  <2>1. svc' = [svc EXCEPT ![j] = Started(svc[j], p)] /\ svc[j].on
    BY <1>1 DEF StartDueService, Inductive, StartsPending
  <2>. QED
    BY <2>1, StartedType DEF Inductive, TypeOK, OffForgotten
<1>2. ASSUME NEW j \in Key, StartDueFails(j) PROVE OffForgotten'
  <2>1. svc[j].on /\ svc' = [svc EXCEPT ![j] = Failed(svc[j], since)]
    BY <1>2 DEF StartDueFails, Inductive, StartsPending
  <2>2. Failed(svc[j], since).on = svc[j].on
    BY FailedType, MaximaType DEF Inductive, TypeOK
  <2>. QED
    BY <2>1, <2>2 DEF Inductive, TypeOK, OffForgotten
<1>3. ASSUME NEW p \in PID, ReapSystemChild(p) PROVE OffForgotten'
  <2>. SUFFICES ASSUME NEW k \in Key, ~svc'[k].on, svc'[k] # svc[k]
                PROVE  svc'[k].failures = 0
    BY DEF OffForgotten
  <2>1. k = byPID[p] /\ p \notin disabled /\ svc'[k] = Exited(svc[k], Runtime(p))
    BY <1>3 DEF ReapSystemChild, Inductive, TypeOK, Runtime
  <2>2. svc[k].pid = p /\ svc[k].on
    BY <1>3, <2>1, KeyAssumption
    DEF ReapSystemChild, Inductive, TablesAgree, Supervising, DownPhases, KilledPhases
  <2>3. Exited(svc[k], Runtime(p)).on = svc[k].on
    <3>1. Runtime(p) \in Nat
      BY <2>1, RuntimeType, KeyAssumption DEF Inductive
    <3>. QED
      BY <3>1, ExitedType DEF Inductive, TypeOK
  <2>. QED
    BY <2>1, <2>2, <2>3
<1>4. ASSUME NEW e, ReconcileInitServices(e) PROVE OffForgotten'
  BY <1>4 DEF ReconcileInitServices, Reconciled, NewService, NoService, OffForgotten
<1>5. CASE Tick
  BY <1>5 DEF Tick, Inductive, TypeOK, Service, OffForgotten
<1>. QED
  BY <1>1, <1>2, <1>3, <1>4, <1>5, OtherStepsKeepServices DEF SvcSteps, OffForgotten

LEMMA ForgivenStep ==
  ASSUME Inductive, OffForgotten, [Next]_vars, NEW k \in Key, svc'[k].failures < svc[k].failures
  PROVE  \/ ~svc'[k].on
         \/ /\ svc[k].pid # NoPid /\ svc'[k].pid = NoPid
            /\ proc[svc[k].pid].age + svc[k].late >= StableAge
<1>. USE DEF svcVars, jobVars, diskVars, dueVars
<1>1. svc[k] \in Service /\ svc'[k] # svc[k] /\ svc[k].failures \in 0..MaxFailures
  BY MaximaType DEF Inductive, TypeOK, Service
<1>2. ASSUME NEW j \in Key, NEW p \in PID, StartDueService(j, p) PROVE FALSE
  <2>1. k = j /\ svc'[k] = Started(svc[k], p)
    BY <1>1, <1>2 DEF StartDueService, Inductive, TypeOK
  <2>2. svc'[k].failures = svc[k].failures
    BY <1>1, <2>1, StartedType DEF Inductive, TypeOK
  <2>. QED
    BY <1>1, <2>2, MaximaType
<1>3. ASSUME NEW j \in Key, StartDueFails(j) PROVE FALSE
  <2>1. j = k /\ svc'[k] = Failed(svc[k], since)
    BY <1>1, <1>3 DEF StartDueFails, Inductive, TypeOK
  <2>2. /\ Failed(svc[k], since).failures >= svc[k].failures
        /\ Failed(svc[k], since) \in Service
    BY <1>1, FailedType, MaximaType DEF Inductive, TypeOK
  <2>3. Failed(svc[k], since).failures \in 0..MaxFailures
    BY <2>2 DEF Service
  <2>. QED
    BY <1>1, <2>1, <2>2, <2>3, MaximaType
<1>4. ASSUME NEW p \in PID, ReapSystemChild(p)
      PROVE  /\ svc[k].pid # NoPid /\ svc'[k].pid = NoPid
             /\ proc[svc[k].pid].age + svc[k].late >= StableAge
  <2>1. k = byPID[p] /\ p \notin disabled /\ svc'[k] = Exited(svc[k], Runtime(p))
    BY <1>1, <1>4 DEF ReapSystemChild, Inductive, TypeOK, Runtime
  <2>2. svc[k].pid = p
    BY <1>4, <2>1, KeyAssumption
    DEF ReapSystemChild, Inductive, TablesAgree, Supervising, DownPhases, KilledPhases
  <2>3. Runtime(p) \in Nat
    BY <2>1, RuntimeType, KeyAssumption DEF Inductive
  <2>4. /\ Exited(svc[k], Runtime(p)) \in Service
        /\ Exited(svc[k], Runtime(p)).pid = NoPid
        /\ Exited(svc[k], Runtime(p)).failures >= svc[k].failures \/ Runtime(p) >= StableAge
    BY <1>1, <2>3, ExitedType
  <2>5. Exited(svc[k], Runtime(p)).failures \in 0..MaxFailures
    BY <2>4 DEF Service
  <2>6. Runtime(p) >= StableAge
    BY <1>1, <2>1, <2>4, <2>5, MaximaType
  <2>. QED
    BY <2>1, <2>2, <2>4, <2>6, KeyAssumption DEF Runtime
<1>5. ASSUME NEW e, ReconcileInitServices(e) PROVE ~svc'[k].on
  BY <1>1, <1>5, MaximaType
  DEF ReconcileInitServices, Reconciled, NewService, NoService, OffForgotten
<1>6. CASE Tick
  BY <1>1, <1>6, MaximaType DEF Tick, Service
<1>7. ASSUME UNCHANGED svc PROVE FALSE
  BY <1>1, <1>7
<1>. QED
  BY <1>2, <1>3, <1>4, <1>5, <1>6, <1>7, OtherStepsKeepServices DEF SvcSteps

(* A failure count is only ever forgiven by taking the service out of the  *)
(* inittab, or for StableAge seconds since the start loop that started the *)
(* service read the clock.                                                *)
THEOREM FailuresOnlyForgiven == Spec => FailuresForgiven
<1>1. Init => OffForgotten
  BY DEF Init, OffForgotten, NoService
<1>2. Inductive /\ OffForgotten /\ [Next]_vars => OffForgotten'
  BY OffForgottenStep
<1>3. Inductive /\ OffForgotten /\ [Next]_vars =>
        [\A k \in Key : svc'[k].failures < svc[k].failures =>
           \/ ~svc'[k].on
           \/ /\ svc[k].pid # NoPid /\ svc'[k].pid = NoPid
              /\ proc[svc[k].pid].age + svc[k].late >= StableAge]_vars
  BY ForgivenStep
<1>. QED
  BY <1>1, <1>2, <1>3, InductiveInvariant, PTL DEF Spec, FailuresForgiven
-----------------------------------------------------------------------------
(* The shutdown sequence. *)

Flushed == KilledBeforeUnmount /\ FlushedAtPowerOff

LEMMA FlushedStep ==
  ASSUME TypeOK, StartsPending, Flushed, [Next]_vars PROVE Flushed'
<1>. USE DEF svcVars, jobVars, diskVars, dueVars
<1>1. CASE pc' \notin KilledPhases
  BY <1>1 DEF Flushed, KilledBeforeUnmount, FlushedAtPowerOff, KilledPhases
<1>2. CASE KillAll
  <2>1. \A p \in PID : proc'[p].st = "run" => proc'[p].sig = "kill"
    BY <1>2 DEF KillAll, Broadcast, TypeOK, Process
  <2>. QED
    BY <1>2, <2>1 DEF KillAll, Flushed, KilledBeforeUnmount, FlushedAtPowerOff
<1>3. CASE UnmountForShutdown
  BY <1>3 DEF UnmountForShutdown, Flushed, KilledBeforeUnmount, FlushedAtPowerOff,
              KilledPhases
<1>4. CASE Sync
  BY <1>4 DEF Sync, Flushed, KilledBeforeUnmount, FlushedAtPowerOff, KilledPhases
<1>5. CASE Reboot
  BY <1>5 DEF Reboot, Flushed, KilledBeforeUnmount, FlushedAtPowerOff, KilledPhases
<1>6. ASSUME NEW p \in PID, pc' \in KilledPhases,
             Exit(p) \/ Adopt(p) \/ ReapInitChildren(p)
      PROVE  Flushed'
  <2>1. pc' = pc /\ dirty' = dirty
    BY <1>6 DEF Exit, Adopt, ReapInitChildren
  <2>2. proc'[p].st = "run" => proc'[p].sig = "kill"
    BY <1>6, <2>1 DEF Exit, Adopt, ReapInitChildren, Forked, NoProcess, TypeOK, Process
  <2>3. \A q \in PID \ {p} : proc'[q] = proc[q]
    BY <1>6 DEF Exit, Adopt, ReapInitChildren, TypeOK
  <2>. QED
    BY <1>6, <2>1, <2>2, <2>3 DEF Flushed, KilledBeforeUnmount, FlushedAtPowerOff
<1>7. ASSUME NEW p \in PID, Write(p), pc' \in KilledPhases PROVE FALSE
  BY <1>7 DEF Write, Flushed, KilledBeforeUnmount
<1>8. CASE Tick
  <2>1. \A q \in PID : proc'[q].st = proc[q].st /\ proc'[q].sig = proc[q].sig
    BY <1>8 DEF Tick, TypeOK, Process
  <2>. QED
    BY <1>8, <2>1 DEF Tick, Flushed, KilledBeforeUnmount, FlushedAtPowerOff
<1>9. ASSUME UNCHANGED <<pc, dirty, proc>> PROVE Flushed'
  BY <1>9 DEF Flushed, KilledBeforeUnmount, FlushedAtPowerOff
<1>10. ASSUME Services \/ (Jobs /\ ~WaitJob) \/ Receive \/ Ticker, pc' \in KilledPhases PROVE FALSE
  <2>1. Services => pc' \in StartPhases \cup {"loop", "reap"}
    BY DEF Services, StartDueFails, StartDueService, StartDueDone, ReapSystemChild,
           ReapSystemDone, StartPhases
  <2>2. Jobs /\ ~WaitJob => pc' \in JobActions \cup StartPhases \cup {"reap", "term"}
    BY DEF Jobs, StartJob, StartJobFails, JobsDone, After, JobActions, StartPhases,
           WaitJob
  <2>3. Receive \/ Ticker => pc' \in JobActions \cup StartPhases \cup {"reap"}
    BY DEF Receive, Handle, Ticker, Enter, JobActions, StartPhases
  <2>. QED
    BY <1>10, <2>1, <2>2, <2>3 DEF KilledPhases, StartPhases, JobActions
<1>11. CASE WaitJob
  <2>1. jobPid \in PID /\ proc' = [proc EXCEPT ![jobPid] = NoProcess]
    BY <1>11 DEF WaitJob, TypeOK
  <2>. QED
    BY <1>11, <2>1
    DEF WaitJob, NoProcess, TypeOK, Flushed, KilledBeforeUnmount, FlushedAtPowerOff
<1>. QED
  BY <1>1, <1>2, <1>3, <1>4, <1>5, <1>6, <1>7, <1>8, <1>9, <1>10, <1>11
  DEF Next, Shutdown, ShutdownStage, Environment, vars, TermAll, GraceOver,
      AdminSignal, AdminEdit, KilledPhases

(* Nothing that SIGKILL did not hit runs while file systems are unmounted, *)
(* and what was written before is on disk when the machine goes off.      *)
THEOREM NothingLostAtShutdown == Spec => []KilledBeforeUnmount /\ []FlushedAtPowerOff
<1>1. Init => Flushed
  BY DEF Init, Flushed, KilledBeforeUnmount, FlushedAtPowerOff, KilledPhases
<1>2. Inductive /\ Flushed /\ [Next]_vars => Flushed'
  BY FlushedStep DEF Inductive
<1>3. Flushed => KilledBeforeUnmount /\ FlushedAtPowerOff
  BY DEF Flushed
<1>. QED
  BY <1>1, <1>2, <1>3, InductiveInvariant, PTL DEF Spec
-----------------------------------------------------------------------------
(* Refinement. *)

(* A step that keeps every service's pid and listing moves the stage only. *)
LEMMA StageOnly ==
  ASSUME Wanted' = Wanted, Active' = Active,
         \/ Stage' = Stage
         \/ Stage = "up" /\ Stage' = "down"
         \/ Stage = "down" /\ Stage' = "off"
  PROVE  [Manager!Next]_(Manager!vars)
BY DEF Manager!Next, Manager!GoDown, Manager!PowerOff, Manager!vars

LEMMA ReconcileRefines ==
  ASSUME Inductive, NEW e, ReconcileInitServices(e), pc' \in StartPhases,
         pc = "once" \/ pc = "loop"
  PROVE  [Manager!Next]_(Manager!vars)
<1>1. Wanted' \in SUBSET Key /\ Active' = Active \cap Wanted'
  BY DEF Wanted, Active, ReconcileInitServices, Reconciled, NewService, NoService,
         Inductive, TablesAgree, Supervising, DownPhases, KilledPhases
<1>2. Stage' = "up"
  BY DEF Stage, StartPhases, DownPhases, KilledPhases
<1>3. CASE pc = "once"
  <2>1. Stage = "boot" /\ Active = {}
    BY <1>3 DEF Stage, Active, Inductive, BootAlone
  <2>. QED
    BY <1>1, <1>2, <2>1 DEF Manager!Next, Manager!Boot
<1>4. CASE pc = "loop"
  <2>1. Stage = "up"
    BY <1>4 DEF Stage, DownPhases, KilledPhases
  <2>. QED
    BY <1>1, <1>2, <2>1 DEF Manager!Next, Manager!Reconfigure
<1>. QED
  BY <1>3, <1>4

LEMMA Refines == Inductive /\ [Next]_vars => [Manager!Next]_(Manager!vars)
<1>. SUFFICES ASSUME Inductive, [Next]_vars PROVE [Manager!Next]_(Manager!vars)
  OBVIOUS
<1>. USE DEF svcVars, jobVars, diskVars, dueVars
<1>1. ASSUME NEW k \in Key, NEW p \in PID, StartDueService(k, p)
      PROVE  [Manager!Next]_(Manager!vars)
  <2>1. Stage = "up" /\ Stage' = "up" /\ k \in Wanted \ Active
    BY <1>1 DEF StartDueService, Stage, Wanted, Active, StartPhases, DownPhases,
                KilledPhases, Inductive, StartsPending
  <2>2. Active' = Active \cup {k} /\ Wanted' = Wanted
    <3>1. svc' = [svc EXCEPT ![k] = Started(svc[k], p)]
      BY <1>1 DEF StartDueService
    <3>2. Started(svc[k], p).on = svc[k].on /\ Started(svc[k], p).pid = p /\ p # NoPid
      BY StartedType, KeyAssumption DEF Inductive, TypeOK
    <3>. QED
      BY <3>1, <3>2 DEF Wanted, Active, Inductive, TypeOK
  <2>. QED
    BY <2>1, <2>2 DEF Manager!Next, Manager!Start
<1>2. ASSUME NEW k \in Key, StartDueFails(k) PROVE [Manager!Next]_(Manager!vars)
  <2>1. Stage' = Stage
    BY <1>2 DEF StartDueFails, Stage
  <2>2. /\ svc[k].pid = NoPid /\ Failed(svc[k], since).on = svc[k].on
        /\ Failed(svc[k], since).pid = NoPid
    <3>1. since \in Nat /\ svc[k] \in Service
      BY MaximaType DEF Inductive, TypeOK
    <3>. QED
      BY <1>2, <3>1, FailedType DEF StartDueFails, Inductive, StartsPending
  <2>3. Wanted' = Wanted /\ Active' = Active
    BY <1>2, <2>2 DEF StartDueFails, Wanted, Active, Inductive, TypeOK
  <2>. QED
    BY <2>1, <2>3, StageOnly
<1>3. ASSUME NEW p \in PID, ReapSystemChild(p) PROVE [Manager!Next]_(Manager!vars)
  <2>1. Stage = "up" /\ Stage' = "up"
    BY <1>3 DEF ReapSystemChild, Stage, DownPhases, KilledPhases
  <2>2. CASE byPID[p] = NoKey \/ p \in disabled
    BY <1>3, <2>1, <2>2, StageOnly DEF ReapSystemChild, Wanted, Active
  <2>3. CASE ~(byPID[p] = NoKey \/ p \in disabled)
    <3>1. byPID[p] \in Key /\ svc' = [svc EXCEPT ![byPID[p]] = Exited(@, Runtime(p))]
      BY <1>3, <2>3 DEF ReapSystemChild, Inductive, TypeOK, Runtime
    <3>2. svc[byPID[p]].pid = p
      BY <1>3, <2>3, KeyAssumption
      DEF ReapSystemChild, Inductive, TablesAgree, Supervising, DownPhases, KilledPhases
    <3>3. /\ Exited(svc[byPID[p]], Runtime(p)).on = svc[byPID[p]].on
          /\ Exited(svc[byPID[p]], Runtime(p)).pid = NoPid
      BY <2>3, <3>1, ExitedType, RuntimeType DEF Inductive, TypeOK
    <3>4. /\ byPID[p] \in Active /\ Wanted' = Wanted
          /\ Active' = Active \ {byPID[p]}
      BY <3>1, <3>2, <3>3, KeyAssumption DEF Wanted, Active, Inductive, TypeOK
    <3>. QED
      BY <2>1, <3>1, <3>4 DEF Manager!Next, Manager!Stop
  <2>. QED
    BY <2>2, <2>3
<1>4. CASE Tick
  <2>1. Stage' = Stage /\ Wanted' = Wanted /\ Active' = Active
    BY <1>4 DEF Tick, Stage, Wanted, Active, Inductive, TypeOK, Service
  <2>. QED
    BY <2>1, StageOnly
<1>5. CASE JobsDone
  <2>1. CASE pc = "once"
    BY <1>5, <2>1, ReconcileRefines DEF JobsDone, After, JobActions, StartPhases
  <2>2. CASE pc # "once"
    <3>1. \/ Stage' = Stage
          \/ Stage = "up" /\ Stage' = "down"
      BY <1>5, <2>2 DEF JobsDone, After, JobActions, Stage, DownPhases, KilledPhases
    <3>. QED
      BY <1>5, <2>2, <3>1, StageOnly DEF JobsDone, Wanted, Active
  <2>. QED
    BY <2>1, <2>2
<1>6. CASE Receive
  <2>1. pc = "loop" /\ Stage = "up"
    BY <1>6 DEF Receive, Stage, DownPhases, KilledPhases
  <2>2. CASE ReconcileInitServices(inittab) /\ pc' = "reloadstart"
    BY <2>1, <2>2, ReconcileRefines DEF StartPhases
  <2>3. CASE UNCHANGED <<svcVars, dueVars, proc>> /\ pc' # "reloadstart"
    <3>1. pc' \in JobActions \cup {"reap"} /\ pc' \notin {"sysinit", "wait", "once"}
      BY <1>6, <2>3
      DEF Receive, Handle, Enter, JobActions
    <3>2. Stage' = "up" \/ Stage' = "down"
      BY <3>1 DEF Stage, JobActions, DownPhases, KilledPhases
    <3>. QED
      BY <2>1, <2>3, <3>2, StageOnly DEF Wanted, Active
  <2>. QED
    BY <1>6, <2>2, <2>3 DEF Receive, Handle, Enter
<1>7. CASE StartDueDone \/ ReapSystemDone \/ Ticker
  BY <1>7, StageOnly
  DEF StartDueDone, ReapSystemDone, Ticker, Enter, Stage, Wanted, Active,
      StartPhases, DownPhases, KilledPhases
<1>8. CASE ShutdownStage
  BY <1>8, StageOnly
  DEF ShutdownStage, TermAll, GraceOver, KillAll, UnmountForShutdown, Sync, Reboot,
      Stage, Wanted, Active, DownPhases, KilledPhases
<1>9. ASSUME UNCHANGED <<pc, svc>> PROVE [Manager!Next]_(Manager!vars)
  BY <1>9, StageOnly DEF Stage, Wanted, Active
<1>. QED
  BY <1>1, <1>2, <1>3, <1>4, <1>5, <1>6, <1>7, <1>8, <1>9
  DEF Next, Services, Jobs, Shutdown, Environment, vars, StartJob, StartJobFails,
      WaitJob, ReapInitChildren, Exit, Adopt, Write, AdminSignal, AdminEdit

(* init in all its detail is a service manager: services start only when   *)
(* listed, only between boot and shutdown, one process at a time, and a    *)
(* shutdown is never taken back.                                          *)
THEOREM ImplementsManager == Spec => ManagerSpec
<1>1. Init => Manager!Init
  BY DEF Init, Manager!Init, Stage, Wanted, Active, NoService
<1>. QED
  BY <1>1, Refines, InductiveInvariant, PTL DEF Spec, ManagerSpec, Manager!Spec

-----------------------------------------------------------------------------
(* Crash backoff.  The time a service has been left alone and the time it  *)
(* still has to wait add up to its respawnDelay, and who is due to be      *)
(* started has nothing left to wait.                                      *)

Rested(k) == svc[k].on /\ svc[k].pid = NoPid
               => quiet[k] + svc[k].delay >= RespawnDelay(svc[k].failures)
Honours ==
  /\ quiet \in [Key -> 0..MaxDelay]
  /\ \A k \in Key : Rested(k)
  /\ \A k \in todo : svc[k].delay = 0

(* After a failure what the service waits makes up the delay its failure   *)
(* count calls for, with the time since the clock was read.               *)
LEMMA DelayAfterFailure ==
  /\ \A s \in Service, ago \in Nat :
       ago + Failed(s, ago).delay >= RespawnDelay(Failed(s, ago).failures)
  /\ \A s \in Service, runtime \in Nat :
       Exited(s, runtime).delay = RespawnDelay(Exited(s, runtime).failures)
  /\ RespawnDelay(0) = 0
<1>1. ASSUME NEW s \in Service, NEW ago \in Nat
      PROVE  /\ RespawnDelay(Failed(s, ago).failures) \in Nat
             /\ Failed(s, ago).delay = Minus(RespawnDelay(Failed(s, ago).failures), ago)
  <2>1. Failed(s, ago).failures \in 0..MaxFailures
    BY FailedType DEF Service
  <2>. QED
    BY <2>1, RespawnDelayType, MaximaType DEF Failed, Service
<1>2. RespawnDelay(0) = 0
  BY DEF RespawnDelay
<1>3. ASSUME NEW s \in Service, NEW runtime \in Nat
      PROVE  Exited(s, runtime).delay = RespawnDelay(Exited(s, runtime).failures)
  <2>1. CASE runtime >= StableAge
    BY <1>2, <2>1 DEF Exited, Service
  <2>2. CASE ~(runtime >= StableAge)
    BY <1>1, <2>2 DEF Exited, Minus
  <2>. QED
    BY <2>1, <2>2
<1>4. ASSUME NEW s \in Service, NEW ago \in Nat
      PROVE  ago + Failed(s, ago).delay >= RespawnDelay(Failed(s, ago).failures)
  BY <1>1 DEF Minus
<1>. QED
  BY <1>2, <1>3, <1>4

LEMMA ServiceNumbers ==
  ASSUME TypeOK, NEW k \in Key
  PROVE  /\ svc[k].delay \in 0..MaxDelay /\ svc[k].failures \in 0..MaxFailures
         /\ RespawnDelay(svc[k].failures) \in 0..MaxDelay /\ svc[k] \in Service
BY RespawnDelayType DEF TypeOK, Service

(* What a step does to one service that keeps Rested: leave it and its     *)
(* quiet time alone, let a second pass, fail it, list it, or start it.     *)
LEMMA RestedStep ==
  ASSUME TypeOK, TypeOK', NEW k \in Key, Rested(k), quiet \in [Key -> 0..MaxDelay],
         NEW ticked \in BOOLEAN, Quieter(ticked),
         \/ ~svc'[k].on
         \/ svc'[k].pid # NoPid
         \/ ~svc[k].on /\ svc'[k] = NewService
         \/ svc'[k] = svc[k] /\ ~Reaped(k) /\ ~NotStarted(k)
         \/ /\ ticked /\ svc[k].pid = svc'[k].pid /\ svc[k].on = svc'[k].on
            /\ svc'[k].failures = svc[k].failures /\ svc'[k].delay = Down1(svc[k].delay)
            /\ ~Reaped(k) /\ ~NotStarted(k)
         \/ svc'[k].delay = RespawnDelay(svc'[k].failures)
         \/ /\ ~Reaped(k) /\ NotStarted(k)
            /\ since + svc'[k].delay >= RespawnDelay(svc'[k].failures)
  PROVE  Rested(k)' /\ quiet'[k] \in 0..MaxDelay
<1>1. /\ svc[k].delay \in 0..MaxDelay /\ RespawnDelay(svc[k].failures) \in 0..MaxDelay
      /\ svc'[k].delay \in 0..MaxDelay /\ RespawnDelay(svc'[k].failures) \in 0..MaxDelay
      /\ quiet[k] \in 0..MaxDelay /\ MaxDelay \in Nat /\ since \in Nat
  <2>1. \A s \in Service : /\ s.delay \in 0..MaxDelay
                            /\ RespawnDelay(s.failures) \in 0..MaxDelay
    BY RespawnDelayType DEF Service
  <2>. QED
    BY <2>1, MaximaType DEF TypeOK
<1>2. quiet'[k] = IF Reaped(k) THEN 0
                  ELSE IF NotStarted(k) THEN Least(since, MaxDelay)
                  ELSE IF ~svc[k].on THEN MaxDelay
                  ELSE IF ticked THEN Older(quiet[k], MaxDelay) ELSE quiet[k]
  BY DEF Quieter
<1>3. /\ Older(quiet[k], MaxDelay) \in 0..MaxDelay
      /\ (Older(quiet[k], MaxDelay) = quiet[k] + 1 \/ Older(quiet[k], MaxDelay) = MaxDelay)
      /\ Older(quiet[k], MaxDelay) >= quiet[k]
      /\ Least(since, MaxDelay) \in 0..MaxDelay
      /\ Least(since, MaxDelay) = since \/ Least(since, MaxDelay) = MaxDelay
  BY <1>1 DEF Older, Least
<1>4. quiet'[k] \in 0..MaxDelay
  BY <1>1, <1>2, <1>3
<1>5. CASE ~svc'[k].on \/ svc'[k].pid # NoPid
  BY <1>4, <1>5 DEF Rested
<1>6. CASE svc'[k].delay = RespawnDelay(svc'[k].failures)
  BY <1>1, <1>4, <1>6 DEF Rested
<1>7. CASE ~svc[k].on /\ svc'[k] = NewService
  <2>1. svc'[k].failures = 0
    BY <1>7 DEF NewService, NoService
  <2>. QED
    BY <1>1, <1>4, <2>1, DelayAfterFailure DEF Rested
<1>8. CASE svc'[k] = svc[k] /\ ~Reaped(k) /\ ~NotStarted(k)
  <2>1. quiet'[k] >= quiet[k]
    BY <1>1, <1>2, <1>3, <1>8
  <2>. QED
    BY <1>1, <1>4, <1>8, <2>1 DEF Rested
<1>9. CASE /\ ticked /\ svc[k].pid = svc'[k].pid /\ svc[k].on = svc'[k].on
           /\ svc'[k].failures = svc[k].failures /\ svc'[k].delay = Down1(svc[k].delay)
           /\ ~Reaped(k) /\ ~NotStarted(k)
  <2>1. quiet'[k] = quiet[k] + 1 \/ quiet'[k] = MaxDelay
    BY <1>1, <1>2, <1>3, <1>9
  <2>2. svc'[k].delay >= svc[k].delay - 1
    BY <1>1, <1>9 DEF Down1, Minus
  <2>. QED
    BY <1>1, <1>4, <1>9, <2>1, <2>2 DEF Rested
<1>10. CASE /\ ~Reaped(k) /\ NotStarted(k)
            /\ since + svc'[k].delay >= RespawnDelay(svc'[k].failures)
  <2>1. quiet'[k] = since \/ quiet'[k] = MaxDelay
    BY <1>2, <1>3, <1>10
  <2>. QED
    BY <1>1, <1>4, <1>10, <2>1 DEF Rested
<1>. QED
  BY <1>5, <1>6, <1>7, <1>8, <1>9, <1>10

(* Every step but the clock's. *)
Acts ==
  \/ Services \/ Jobs \/ Receive \/ Ticker \/ Shutdown
  \/ \E s \in AdminSignals : AdminSignal(s)
  \/ \E p \in PID : Exit(p) \/ Adopt(p) \/ Write(p)
  \/ \E file \in Inittabs : AdminEdit(file)

(* A step that leaves every service alone leaves todo alone, or computes it *)
(* when it is empty.                                                      *)
LEMMA QuietSteps ==
  ASSUME Inductive, Acts
  PROVE  \/ \E k \in Key : StartDueFails(k) \/ \E p \in PID : StartDueService(k, p)
         \/ \E p \in PID : ReapSystemChild(p)
         \/ \E e : ReconcileInitServices(e)
         \/ svc' = svc /\ (todo' = todo \/ (todo = {} /\ todo' = Due(svc)))
<1>. USE DEF svcVars, jobVars, diskVars, dueVars
<1>1. CASE StartDueDone \/ Ticker
  BY <1>1 DEF StartDueDone, Ticker
<1>2. CASE ReapSystemDone
  BY <1>2 DEF ReapSystemDone, Inductive, StartsPending, StartPhases
<1>3. CASE Jobs
  BY <1>3 DEF Jobs, StartJob, StartJobFails, WaitJob, JobsDone
<1>4. CASE Receive
  BY <1>4 DEF Receive, Handle
<1>5. CASE Shutdown
  BY <1>5 DEF Shutdown, ShutdownStage, TermAll, GraceOver, KillAll, UnmountForShutdown,
              Sync, Reboot, ReapInitChildren
<1>6. CASE \/ \E s \in AdminSignals : AdminSignal(s)
           \/ \E p \in PID : Exit(p) \/ Adopt(p) \/ Write(p)
           \/ \E file \in Inittabs : AdminEdit(file)
  BY <1>6 DEF AdminSignal, Exit, Adopt, Write, AdminEdit
<1>. QED
  BY <1>1, <1>2, <1>3, <1>4, <1>5, <1>6 DEF Acts, Services

LEMMA HonoursStep ==
  ASSUME Inductive, Inductive', Honours, [HNext]_historyVars
  PROVE  Honours'
<1>. USE DEF svcVars, jobVars, diskVars, dueVars
<1>a. TypeOK /\ TypeOK' /\ StartsPending
  BY DEF Inductive
<1>b. quiet \in [Key -> 0..MaxDelay]
  BY DEF Honours
<1>1. CASE UNCHANGED historyVars
  BY <1>1 DEF historyVars, vars, Honours, Rested, RespawnDelay, MaxDelay
<1>2. ASSUME NEW ticked \in BOOLEAN, Quieter(ticked), IF ticked THEN Tick ELSE Acts
      PROVE  Honours'
  <2>. DEFINE Step(k) ==
         \/ ~svc'[k].on
         \/ svc'[k].pid # NoPid
         \/ ~svc[k].on /\ svc'[k] = NewService
         \/ svc'[k] = svc[k] /\ ~Reaped(k) /\ ~NotStarted(k)
         \/ /\ ticked /\ svc[k].pid = svc'[k].pid /\ svc[k].on = svc'[k].on
            /\ svc'[k].failures = svc[k].failures /\ svc'[k].delay = Down1(svc[k].delay)
            /\ ~Reaped(k) /\ ~NotStarted(k)
         \/ svc'[k].delay = RespawnDelay(svc'[k].failures)
         \/ /\ ~Reaped(k) /\ NotStarted(k)
            /\ since + svc'[k].delay >= RespawnDelay(svc'[k].failures)
  <2>. DEFINE Kept == (\A k \in Key : Step(k)) /\ \A k \in todo' : svc'[k].delay = 0
  <2>1. ASSUME NEW j \in Key, NEW p \in PID, StartDueService(j, p) PROVE Kept
    <3>1. /\ svc' = [svc EXCEPT ![j] = Started(svc[j], p)] /\ todo' = todo \ {j}
          /\ Started(svc[j], p).pid = p
          /\ svc \in [Key -> Service] /\ p # NoPid
      BY <1>a, <2>1, StartedType, KeyAssumption DEF StartDueService, TypeOK
    <3>2. svc'[j].pid = p /\ \A k \in Key \ {j} : svc'[k] = svc[k]
      BY <3>1 DEF Service
    <3>3. \A k \in Key \ {j} : ~Reaped(k) /\ ~NotStarted(k)
      BY <3>1, <3>2 DEF Reaped, NotStarted, Attempted
    <3>. QED
      BY <1>a, <3>1, <3>2, <3>3 DEF Honours, TypeOK
  <2>2. ASSUME NEW j \in Key, StartDueFails(j) PROVE Kept
    <3>1. /\ svc' = [svc EXCEPT ![j] = Failed(svc[j], since)] /\ todo' = todo \ {j}
          /\ since \in Nat /\ j \in todo /\ svc[j].pid = NoPid
      BY <1>a, <2>2, MaximaType DEF StartDueFails, TypeOK, StartsPending
    <3>2. /\ since + svc'[j].delay >= RespawnDelay(svc'[j].failures)
          /\ svc'[j].pid = NoPid /\ ~Reaped(j) /\ NotStarted(j)
          /\ \A k \in Key \ {j} : svc'[k] = svc[k]
      BY <1>a, <3>1, DelayAfterFailure, FailedType DEF TypeOK, Reaped, NotStarted, Attempted
    <3>3. \A k \in Key \ {j} : ~Reaped(k) /\ ~NotStarted(k)
      BY <3>1, <3>2 DEF Reaped, NotStarted, Attempted
    <3>. QED
      BY <1>a, <3>1, <3>2, <3>3 DEF Honours, TypeOK
  <2>3. ASSUME NEW p \in PID, ReapSystemChild(p) PROVE Kept
    <3>1. todo' = {} /\ todo = {}
      BY <1>a, <2>3 DEF ReapSystemChild, StartsPending, StartPhases
    <3>2. ASSUME NEW k \in Key PROVE Step(k)
      <4>1. CASE svc'[k] = svc[k]
        BY <3>1, <4>1 DEF Reaped, NotStarted, Attempted
      <4>2. CASE svc'[k] # svc[k]
        <5>1. svc'[k] = Exited(svc[k], Runtime(p)) /\ byPID[p] # NoKey
          BY <1>a, <2>3, <4>2 DEF ReapSystemChild, TypeOK, Runtime
        <5>2. Runtime(p) \in Nat
          BY <1>a, <5>1, RuntimeType
        <5>. QED
          BY <1>a, <5>1, <5>2, DelayAfterFailure DEF TypeOK
      <4>. QED
        BY <4>1, <4>2
    <3>. QED
      BY <3>1, <3>2
  <2>4. ASSUME NEW e, ReconcileInitServices(e) PROVE Kept
    <3>1. svc' = Reconciled(e) /\ todo' = Due(svc')
      BY <2>4 DEF ReconcileInitServices
    <3>2. \A k \in todo' : svc'[k].delay = 0
      BY <3>1 DEF Due
    <3>3. ASSUME NEW k \in Key PROVE Step(k)
      <4>1. CASE k \in Desired(e) /\ svc[k].on
        <5>1. svc'[k] = svc[k]
          BY <3>1, <4>1 DEF Reconciled
        <5>2. k \in todo => k \in todo'
          BY <1>a, <3>1, <4>1, <5>1 DEF Due, StartsPending, Honours
        <5>. QED
          BY <5>1, <5>2 DEF Reaped, NotStarted, Attempted
      <4>2. CASE ~(k \in Desired(e) /\ svc[k].on)
        BY <3>1, <4>2 DEF Reconciled, NoService, NewService
      <4>. QED
        BY <4>1, <4>2
    <3>. QED
      BY <3>2, <3>3
  <2>5. ASSUME ticked PROVE Kept
    <3>1. /\ todo' = todo
          /\ \A k \in Key : /\ svc[k].pid = svc'[k].pid /\ svc[k].on = svc'[k].on
                            /\ svc'[k].failures = svc[k].failures
                            /\ svc'[k].delay = Down1(svc[k].delay)
      BY <1>a, <1>2, <2>5 DEF Tick, TypeOK, Service
    <3>2. \A k \in Key : ~Reaped(k) /\ ~NotStarted(k)
      BY <3>1 DEF Reaped, NotStarted, Attempted
    <3>3. \A k \in todo' : svc'[k].delay = 0
      <4>1. todo \subseteq Key /\ Down1(0) = 0
        BY <1>a DEF TypeOK, Down1, Minus
      <4>. QED
        BY <3>1, <4>1 DEF Honours
    <3>4. \A k \in Key : Step(k)
      BY <2>5, <3>1, <3>2
    <3>. HIDE DEF Step
    <3>. QED
      BY <3>3, <3>4
  <2>6. ASSUME svc' = svc /\ (todo' = todo \/ (todo = {} /\ todo' = Due(svc)))
        PROVE  Kept
    <3>2. \A k \in todo' : svc'[k].delay = 0
      BY <2>6 DEF Honours, Due
    <3>3. \A k \in Key : ~Reaped(k) /\ ~NotStarted(k)
      BY <2>6 DEF Reaped, NotStarted, Attempted
    <3>4. \A k \in Key : Step(k)
      BY <2>6, <3>3
    <3>. HIDE DEF Step
    <3>. QED
      BY <3>2, <3>4
  <2>7. Kept
    <3>. HIDE DEF Kept
    <3>1. ASSUME Acts PROVE Kept
      <4>1. ASSUME \E k \in Key : StartDueFails(k) \/ \E p \in PID : StartDueService(k, p)
           PROVE  Kept
        BY <2>1, <2>2, <4>1
      <4>2. ASSUME \E p \in PID : ReapSystemChild(p)
           PROVE  Kept
        BY <2>3, <4>2
      <4>3. ASSUME \E e : ReconcileInitServices(e)
           PROVE  Kept
        BY <2>4, <4>3
      <4>. QED
        BY <2>6, <3>1, <4>1, <4>2, <4>3, QuietSteps
    <3>. QED
      BY <1>2, <2>5, <3>1
  <2>8. \A k \in Key : Rested(k)' /\ quiet'[k] \in 0..MaxDelay
    <3>. SUFFICES ASSUME NEW k \in Key PROVE Rested(k)' /\ quiet'[k] \in 0..MaxDelay
      OBVIOUS
    <3>1. Step(k) /\ Rested(k)
      BY <2>7 DEF Honours
    <3>. QED
      BY <1>a, <1>b, <1>2, <3>1, RestedStep
  <2>9. quiet' \in [Key -> 0..MaxDelay]
    BY <1>2, <2>8 DEF Quieter
  <2>. QED
    BY <2>7, <2>8, <2>9 DEF Honours, MaxDelay
<1>. QED
  BY <1>1, <1>2 DEF HNext, Acts

(* Init and the steps of the instance with the history variable are init's. *)
LEMMA HistoryInductive == HSpec => []Inductive
<1>1. HInit => Init
  BY DEF HInit
<1>2. [HNext]_historyVars => [Next]_vars
  BY DEF HNext, historyVars, Next, Environment
<1>. QED
  BY <1>1, <1>2, InductiveInvariant, PTL DEF HSpec, Spec

LEMMA OnlyStartsRun ==
  ASSUME Inductive, [Next]_vars, NEW k \in Key, svc[k].pid = NoPid, svc'[k].pid # NoPid
  PROVE  \E p \in PID : StartDueService(k, p)
<1>1. svc[k] \in Service /\ svc'[k] # svc[k]
  BY DEF Inductive, TypeOK
<1>2. ASSUME NEW j \in Key, StartDueFails(j) PROVE FALSE
  <2>1. j = k /\ svc'[k] = Failed(svc[k], since) /\ since \in Nat
    BY <1>1, <1>2, MaximaType DEF StartDueFails, Inductive, TypeOK
  <2>. QED
    BY <1>1, <2>1, FailedType
<1>3. ASSUME NEW j \in Key, NEW p \in PID, StartDueService(j, p) PROVE j = k
  BY <1>1, <1>3 DEF StartDueService, Inductive, TypeOK
<1>4. ASSUME NEW p \in PID, ReapSystemChild(p) PROVE FALSE
  <2>1. svc'[k] = Exited(svc[k], Runtime(p)) /\ byPID[p] # NoKey
    BY <1>1, <1>4 DEF ReapSystemChild, Inductive, TypeOK, Runtime
  <2>2. Runtime(p) \in Nat
    BY <2>1, RuntimeType DEF Inductive
  <2>. QED
    BY <1>1, <2>1, <2>2, ExitedType
<1>5. ASSUME NEW e, ReconcileInitServices(e) PROVE FALSE
  BY <1>5 DEF ReconcileInitServices, Reconciled, NoService, NewService
<1>6. ASSUME Tick PROVE FALSE
  BY <1>1, <1>6 DEF Tick, Service
<1>. QED
  BY <1>1, <1>2, <1>3, <1>4, <1>5, <1>6, OtherStepsKeepServices DEF SvcSteps

(* No reload, late reap, failed or held-up start or tick of the clock makes *)
(* init try a service sooner after its nth failure in a row than           *)
(* respawnDelay(n) from the moment init dates the failure to, for any cap  *)
(* of the backoff and any number of services.                             *)
THEOREM BackoffAlwaysHonoured == HSpec => BackoffHonoured
<1>1. HInit => Honours
  BY MaximaType DEF Init, HInit, Honours, Rested, NoService
<1>2. Inductive /\ Inductive' /\ Honours /\ [HNext]_historyVars => Honours'
  BY HonoursStep
<1>3. Inductive /\ Honours /\ [HNext]_historyVars =>
        [\A k \in Key :
           Attempted(k) \/ (svc[k].pid = NoPid /\ svc'[k].pid # NoPid)
             => quiet[k] >= RespawnDelay(svc[k].failures)]_historyVars
  <2>. SUFFICES ASSUME Inductive, Honours, [Next]_vars, NEW k \in Key,
                       Attempted(k) \/ (svc[k].pid = NoPid /\ svc'[k].pid # NoPid)
                PROVE  quiet[k] >= RespawnDelay(svc[k].failures)
    BY DEF HNext, historyVars, Next, Environment
  <2>1. k \in todo
    BY OnlyStartsRun DEF Attempted, StartDueService
  <2>2. svc[k].delay = 0 /\ svc[k].on /\ svc[k].pid = NoPid
    BY <2>1 DEF Honours, Inductive, StartsPending
  <2>3. quiet[k] + 0 >= RespawnDelay(svc[k].failures) /\ quiet[k] \in Int
    BY <2>2, MaximaType DEF Honours, Rested
  <2>. QED
    BY <2>3
<1>. QED
  BY <1>1, <1>2, <1>3, HistoryInductive, PTL DEF HSpec, BackoffHonoured
=============================================================================
