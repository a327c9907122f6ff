SPECIFICATION LiveSpec
CONSTANTS
  c1 = c1  c2 = c2  h1 = h1  h2 = h2  d1 = d1  d2 = d2
  Conns <- TwoConns
  NoConn = nc
  Null = null
  Handlers <- OneHandler
  Drains <- OneDrain
  Unwanted <- NoneUnwanted
  Requests <- AdminAndOutages
  MaxMail = 2
  MaxEvents = 3
INVARIANTS WorkerFollows
PROPERTIES MailReached
CHECK_DEADLOCK FALSE
