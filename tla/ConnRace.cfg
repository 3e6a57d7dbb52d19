CONSTANTS
  c1 = c1
  c2 = c2
  h1 = h1
  h2 = h2
  h3 = h3
  s1 = s1
  NoConn = NoConn
  Conns <- OneConn
  HttpThreads <- ThreeThreads
  Services <- OneService
  BufSize = 3
  MaxArrivals = 4
SPECIFICATION Spec
INVARIANTS
  TypeOK
  RefsAccount
  NoUseAfterFree
  DeletedOnce
  NeverForgotten
  BufferExclusive
  WindowExact
  ReplyNotCutOff
  ClosedOwesNothing
PROPERTIES
  LifetimeSpec
