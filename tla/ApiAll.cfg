CONSTANTS
  a = a
  b = b
  i1 = i1
  Clients <- OneClient
  Ids <- OneId
  Offered <- Functions
  MaxOdd = 2
SPECIFICATION Spec
INVARIANTS
  TypeOK
  ValidatedBeforeUse
  StatusJustified
