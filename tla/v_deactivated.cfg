SPECIFICATION LiveSpec
CONSTANTS
  a1 = a1  a2 = a2  bot = bot  tm1 = tm1  tm2 = tm2  h1 = h1  h2 = h2  cs = cs
  Agents <- OneAgent
  Bot = bot
  Teams <- OneTeam
  Tickets <- OneTicket
  Admins <- NoAgents
  Pullable <- AllPull
  Cap = 1
  SweepBatch = 2
  HookWorkers <- OneHook
  Sweeper = cs
  InitOwners <- BothOwners
  InitOnline <- OneAgent
  Dtos <- FollowupDtos
  MaxPatches = 1
  MaxReqs = 1
  MaxEvents = 2
PROPERTIES DeactivatedFollowupRequeued
CHECK_DEADLOCK FALSE
