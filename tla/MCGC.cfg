SPECIFICATION FairSpec
CONSTANTS
  MaxObj = 3
  Kinds = {"string", "instance"}
  Reclassing = FALSE
  Subclasses = FALSE
INVARIANTS TypeOK NoDangling OneObjectPerText
PROPERTIES FreedWhenDead CollectionEnds
CHECK_DEADLOCK FALSE
