--------------------------- MODULE ServiceManager ---------------------------
(***************************************************************************)
(* What a system initializer promises about services, whatever its tables *)
(* look like: README.md, "System init", and the init entry of help.go.    *)
(* Services run only between boot and shutdown, only while configured,    *)
(* one process at a time; a shutdown is never taken back.                 *)
(***************************************************************************)
CONSTANT Service

VARIABLES
  stage,    \* "boot", "up", "down" or "off"
  wanted,   \* services the configuration lists
  active    \* services that have a process

vars == <<stage, wanted, active>>

Init == stage = "boot" /\ wanted = {} /\ active = {}

Boot ==
  /\ stage = "boot" /\ stage' = "up"
  /\ wanted' \in SUBSET Service /\ UNCHANGED active

Start(s) ==
  /\ stage = "up" /\ s \in wanted \ active
  /\ active' = active \cup {s} /\ UNCHANGED <<stage, wanted>>

Stop(s) ==
  /\ stage = "up" /\ s \in active
  /\ active' = active \ {s} /\ UNCHANGED <<stage, wanted>>

Reconfigure ==
  /\ stage = "up"
  /\ wanted' \in SUBSET Service /\ active' = active \cap wanted'
  /\ UNCHANGED stage

GoDown == stage = "up" /\ stage' = "down" /\ UNCHANGED <<wanted, active>>

PowerOff == stage = "down" /\ stage' = "off" /\ UNCHANGED <<wanted, active>>

Next ==
  \/ Boot \/ Reconfigure \/ GoDown \/ PowerOff
  \/ \E s \in Service : Start(s) \/ Stop(s)

Spec == Init /\ [][Next]_vars
=============================================================================
