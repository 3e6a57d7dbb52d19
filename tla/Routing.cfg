CONSTANTS
  Names <- ThreeNames
  CoinNames <- ThreeCoins
  Algorithm <- Algorithms
  MaxCoins = 2
  DefaultCoin = 2
  MaxRequests = 2
  MaxPath = 3
  MaxTokens = 2
SPECIFICATION Spec
INVARIANTS
  TypeOK
  LinkedAsConfigured
  RoutedAsAsked
  RefusedForCause
