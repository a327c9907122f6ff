SPECIFICATION ScopedSpec
CONSTANTS
  a1 = a1  a2 = a2  bot = bot  tm1 = tm1  tm2 = tm2  h1 = h1  h2 = h2  cs = cs
  Agents <- TwoAgents
  Bot = bot
  Teams <- OneTeam
  Tickets <- TwoTickets
  Admins <- NoAgents
  Pullable <- AllPull
  Cap = 1
  SweepBatch = 2
  HookWorkers <- OneHook
  Sweeper = cs
  InitOwners <- OnlyBot
  InitOnline <- OneAgent
  Dtos <- PairOrStale
  MaxPatches = 2
  MaxReqs = 1
  MaxEvents = 3
INVARIANTS TypeOK LocksHold TimerCoherent
PROPERTIES QueueBetweenHumans TimersAreKept KeepsContract
CHECK_DEADLOCK FALSE
