SPECIFICATION Spec
CONSTANTS
  Tools = {"awkliteral"}
CHECK_DEADLOCK FALSE
PROPERTIES
  LiteralsAreText
