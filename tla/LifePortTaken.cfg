CONSTANTS
  btc = btc
  bch = bch
  ltc = ltc
  sha256 = sha256
  scrypt = scrypt
  i1 = i1
  h1 = h1
  h2 = h2
  UnknownCoin = UnknownCoin
  None = None
  Coins <- TwoCoins
  Algorithms <- TwoAlgorithms
  Instances <- OneInstance
  HttpThreads <- OneThread
SPECIFICATION Spec
INVARIANTS
  InterruptStopsAll
