CONSTANTS
  a = a
  b = b
  i1 = i1
  Clients <- TwoClients
  Ids <- OneId
  Offered <- Racing
  MaxOdd = 0
SPECIFICATION Spec
INVARIANTS
  LogoutFences
