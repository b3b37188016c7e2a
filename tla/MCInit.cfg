SPECIFICATION HSpec
CONSTANTS
  shell = shell
  setup = setup
  power = power
  flush = flush
  Key = {shell, setup, power, flush}
  Emergency = shell
  Action <- MCAction
  Inittabs <- MCInittabs
  PID = {p1, p2}
  NoKey = NoKey
  NoPid = NoPid
  SigCap = 1
  MaxShift = 1
  StableAge = 1
  Grace = 1
  MaxAdmin = 2
  AdminSignals = {"HUP", "INT", "PWR", "TERM"}
SYMMETRY MCSymmetry
CHECK_DEADLOCK FALSE
INVARIANTS
  TablesAgree
  OneWantedProcess
  FlushedAtPowerOff
PROPERTIES
  BackoffHonoured
  ManagerSpec
  FailuresForgiven
