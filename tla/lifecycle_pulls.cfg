SPECIFICATION Spec
CONSTANTS
  a1 = a1  a2 = a2  bot = bot  tm1 = tm1  tm2 = tm2  h1 = h1  h2 = h2  cs = cs
  Agents <- OneAgent
  Bot = bot
  Teams <- OneTeam
  Tickets <- FourTickets
  Admins <- NoAgents
  Pullable <- AllPull
  Cap = 1
  SweepBatch = 2
  HookWorkers <- TwoHooks
  Sweeper = cs
  InitOwners <- OnlyBot
  InitOnline <- NoAgents
  Dtos <- ResolveDtos
  MaxPatches = 2
  MaxReqs = 1
  MaxEvents = 3
INVARIANTS OvershootBounded
CHECK_DEADLOCK FALSE
