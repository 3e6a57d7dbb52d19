CONSTANTS
  c1 = c1
  h1 = h1
  h2 = h2
  btc = btc
  sha256 = sha256
  NoConn = NoConn
  UnknownCoin = UnknownCoin
  None = None
  Conns <- OneConn
  HttpThreads <- TwoThreads
  BufSize = 1
  MaxArrivals = 2
  Coins <- OneCoin
  Algorithms <- OneAlgorithm
  Instances <- NoInstance
SPECIFICATION ServiceFairSpec
INVARIANTS
  ServiceTypeOK
  QuietWhenDestroyed
  OnePartPerConnection
  UnansweredIsHeld
PROPERTIES
  AnsweredOrInterrupted
  EndsWithClients
