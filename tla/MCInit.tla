------------------------------- MODULE MCInit -------------------------------
(***************************************************************************)
(* Instances of InitSystem small enough for TLC, with a history variable   *)
(* for the properties that compare a step of init with what happened       *)
(* before it.  init does not read it.                                      *)
(***************************************************************************)
EXTENDS InitSystem, TLC

CONSTANTS shell, setup, power, flush

MCAction == shell :> "respawn" @@ setup :> "sysinit" @@ power :> "powerokwait"
            @@ flush :> "shutdown"
MCInittabs == {<<setup, flush, shell, power>>, <<power>>, <<>>}
MCLiveInittabs == {<<shell, power>>}
MCSymmetry == Permutations(PID)

VARIABLE quiet  \* seconds since the service's process was last reaped, or since
                \* the clock reading of the last start loop that failed to start it

historyVars == <<vars, quiet>>

HInit == Init /\ quiet = [k \in Key |-> MaxDelay]

Reaped(k) ==
  svc[k].on /\ svc'[k].on /\ svc[k].pid # NoPid /\ svc'[k].pid = NoPid
Attempted(k) == k \in todo \ todo'
NotStarted(k) == Attempted(k) /\ svc'[k].pid = NoPid

Quieter(ticked) ==
  quiet' = [k \in Key |-> IF Reaped(k) THEN 0
                          ELSE IF NotStarted(k) THEN Least(since, MaxDelay)
                          ELSE IF ~svc[k].on THEN MaxDelay
                          ELSE IF ticked THEN Older(quiet[k], MaxDelay)
                          ELSE quiet[k]]

HNext ==
  \/ Tick /\ Quieter(TRUE)
  \/ /\ \/ Services \/ Jobs \/ Receive \/ Ticker \/ Shutdown
        \/ \E s \in AdminSignals : AdminSignal(s)
        \/ \E p \in PID : Exit(p) \/ Adopt(p) \/ Write(p)
        \/ \E file \in Inittabs : AdminEdit(file)
     /\ Quieter(FALSE)

HSpec == HInit /\ [][HNext]_historyVars

(* Liveness does not look at the history, which stands still. *)
FairSpec ==
  /\ HInit /\ [][Next /\ UNCHANGED quiet]_historyVars
  /\ InitFairness /\ JobsEnd /\ OrphansPause

(* Crash backoff survives whatever else init does between a failure and    *)
(* the next attempt to start the service, a reload of the inittab and      *)
(* starts that are held up included.  When a service has failed n times in *)
(* a row, respawnDelay(n) has passed by the next attempt: since the reap   *)
(* of its process, or, after a start that failed, since that start loop    *)
(* read the clock.  The code counts from that reading, so that an attempt  *)
(* held up for d seconds before it failed is followed by d seconds less.   *)
BackoffHonoured ==
  [][\A k \in Key :
       Attempted(k) \/ (svc[k].pid = NoPid /\ svc'[k].pid # NoPid)
         => quiet[k] >= RespawnDelay(svc[k].failures)]_historyVars

(* A service the inittab lists and that has no process is picked by a      *)
(* start loop again and again, and every loop gets round to the services   *)
(* it picked: none is forgotten by a reload, a failed start or a late reap. *)
ServicesRetried ==
  \A k \in Key :
    /\ svc[k].on /\ svc[k].pid = NoPid /\ k \notin todo
         ~> k \in todo \/ ~svc[k].on \/ ~Supervising
    /\ k \in todo ~> k \notin todo
=============================================================================
