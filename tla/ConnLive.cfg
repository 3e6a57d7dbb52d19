CONSTANTS
  c1 = c1
  c2 = c2
  h1 = h1
  h2 = h2
  h3 = h3
  s1 = s1
  NoConn = NoConn
  Conns <- TwoConns
  HttpThreads <- TwoThreads
  Services <- OneService
  BufSize = 1
  MaxArrivals = 1
SPECIFICATION FairSpec
PROPERTIES
  RequestAnswered
  ConnectionFreed
  ListenerRearmed
