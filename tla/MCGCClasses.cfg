SPECIFICATION Spec
CONSTANTS
  MaxObj = 3
  Kinds = {"class", "instance"}
  Reclassing = FALSE
  Subclasses = FALSE
CONSTRAINT NoFields
PROPERTY SweepReadsLive
CHECK_DEADLOCK FALSE
