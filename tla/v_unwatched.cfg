SPECIFICATION Spec
CONSTANTS
  c1 = c1  c2 = c2  h1 = h1  h2 = h2  d1 = d1  d2 = d2
  Conns <- TwoConns
  NoConn = nc
  Null = null
  Handlers <- TwoHandlers
  Drains <- OneDrain
  Unwanted <- NoneUnwanted
  Requests <- StatusOnly
  MaxMail = 3
  MaxEvents = 3
INVARIANTS WatchedWhenConnected
CHECK_DEADLOCK FALSE
