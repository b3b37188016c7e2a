SPECIFICATION Spec
CONSTANTS
  MaxChild = 5
  MaxSignals = 1
  Invocations <- MCInvocations
  User = {"root", "ann"}
  Secret = {"", "pw"}
  GettyOptions <- MCGettyOptions
  LoginOptions <- MCLoginOptions
  PasswdEntries <- MCPasswdEntries
  ShadowEntries <- MCShadowEntries
  FirstShadow <- MCFirstShadow
  MaxChanges = 1
  MaxSessions = 2
CHECK_DEADLOCK FALSE
INVARIANT SlotsApart
