SPECIFICATION FairSpec
CONSTANTS
  shell = shell
  setup = setup
  power = power
  flush = flush
  Key = {shell, setup, power, flush}
  Emergency = shell
  Action <- MCAction
  Inittabs <- MCLiveInittabs
  PID = {p1, p2}
  NoKey = NoKey
  NoPid = NoPid
  SigCap = 1
  MaxShift = 0
  StableAge = 1
  Grace = 1
  MaxAdmin = 1
  AdminSignals = {"HUP", "INT", "PWR", "TERM", "USR1", "USR2"}
CHECK_DEADLOCK FALSE
PROPERTIES
  ZombiesReaped
  ShutdownCompletes
  ServicesRetried
