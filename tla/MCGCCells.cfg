SPECIFICATION Spec
CONSTANTS
  MaxObj = 3
  Kinds = {"instance", "generator", "cell"}
  Reclassing = FALSE
  Subclasses = FALSE
INVARIANT NoDangling
CHECK_DEADLOCK FALSE
