CONSTANTS
  MaxArgs = 7
  MaxList = 2
SPECIFICATION FairSpec
INVARIANTS
  TypeOK
  AskedWasChecked
  ContextOutlivesCoroutine
PROPERTIES
  MethodEnds
