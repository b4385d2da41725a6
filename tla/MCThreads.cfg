SPECIFICATION MCFairSpec
CONSTANTS
  Thread = {t1, t2}
  Text = {name, bad, empty, message}
  Malformed = {bad}
  Empty = empty
  Message = message
  None = None
  Threads = {1, 2}
  Programs <- MCPrograms
  Unsound = {}
  MaxObjects = 9
INVARIANTS UniqueUnlessStray AnswersSettled LoadedOnce BindsRight
PROPERTIES LockComesFree ImportsEnd
CHECK_DEADLOCK FALSE
