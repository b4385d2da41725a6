SPECIFICATION Spec
CONSTANTS
  MaxObj = 3
  Kinds = {"class", "instance", "generator", "cell"}
  Reclassing = TRUE
  Subclasses = TRUE
CONSTRAINT NoFields
INVARIANT GarbageGoes
CHECK_DEADLOCK FALSE
