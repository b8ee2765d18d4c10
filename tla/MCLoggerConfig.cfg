SPECIFICATION Spec
CONSTANTS
  Documents <- MCDocuments
  Modules = {"m1", "m2"}
INVARIANTS
  ProfileOrderStaysLocal
CHECK_DEADLOCK FALSE
