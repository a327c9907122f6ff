SPECIFICATION Spec
CONSTANTS
  p1 = p1  p2 = p2  u1 = u1  r1 = r1  r2 = r2
  Phones <- AllPhones
  Short = {}
  OptOuts <- TheOptOuts
  Uploads <- OneUpload
  Rows <- TheFile
  UploadBatch = 2
  Starts <- TwoStarts
  Runs <- TwoRuns
  Requests <- TheRequests
  BatchSize = 1
  MaxTries = 2
  Scenarios <- SomeScenarios
  Tries = 2
  Templates <- AllTemplates
  AutomationsCases <- SomeAutomations
  a1 = a1  tm1 = tm1  tm2 = tm2  c1 = c1  c2 = c2  m1 = m1  m2 = m2  m3 = m3  h1 = h1  h2 = h2
  Agents <- OneAgent
  Bot = bot
  Teams <- TwoTeams
  Messages <- AllMessages
  Customers <- OneCustomer
  From <- FromOne
  Payloads <- Bodies
  Handlers <- TwoHandlers
  FirstRows <- SomeRows
  DefaultTeam = tm1
  Members <- AllMembers
  Cap = 1
  BotPaused <- Paused
  Dtos <- SomeDtos
  MaxEvents = 3
INVARIANTS UploadsSound BroadcastsSound EventsSound ThreadsSound
PROPERTIES RulesKeepTags AnnouncedOnce MessagingSettles
CHECK_DEADLOCK FALSE
