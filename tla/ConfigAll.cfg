CONSTANTS
  CoinsNum = 1
  InstancesNum = 1
  ItemsNum = 1
  Parts <- LoadParts
  Place <- LoadPlaces
  Documents <- LoadDocuments
  Sibling <- SiblingOf
SPECIFICATION Spec
INVARIANTS
  TypeOK
  AcceptedIsComplete
  
