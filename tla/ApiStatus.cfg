CONSTANTS
  a = a
  b = b
  i1 = i1
  Clients <- OneClient
  Ids <- OneId
  Offered <- Functions
  MaxOdd = 1
SPECIFICATION Spec
INVARIANTS
  StatusIsDocumented
