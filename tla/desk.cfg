SPECIFICATION Spec
CONSTANTS
  ann = ann  bob = bob  cy = cy  s1 = s1  s2 = s2  s3 = s3  b1 = b1  b2 = b2
  t0 = t0  t1 = t1  t2 = t2  ag = ag  bot = bot  r1 = r1  r2 = r2  f1 = f1  f2 = f2
  ch1 = ch1  ch2 = ch2
  Users <- People
  Subs <- ThreeSubs
  Browsers <- TwoBrowsers
  MaxTokens = 4
  TeamIds <- TheTeams
  DefaultTeam = t0
  Agents <- TwoAgents
  Bot = bot
  Rules <- TwoRules
  Facts <- TwoFacts
  Matches <- TheMatches
  Orders <- TheOrders
  Channels <- TheChannels
  Consents <- TheConsents
  Getters <- TheGetters
  MaxUpsets = 1
  MaxSecrets = 3
  Unset = Unset
  Cases <- TheCases
  tk1 = tk1  tk2 = tk2  NoTags = NoTags
  Tickets <- TwoTickets
  TagNames <- Names
  ConsoleCases <- TheConsoleCases
  ChannelTypes <- MCChannelTypes
  LastHour = 23
  LastDay = 3
  LongestDelay = 5
  MaxSaved = 2
  Functions = {"fn"}
  StepIds = {"a", "b", "c", "d", "e", "g", "x"}
  Flow0 <- MCFlow0
  Steps0 <- MCSteps0
  Conflicts <- MCConflicts
  Trees <- MCTrees
  Samples <- MCTickets
  Keys = {"t"}
  Contexts <- SomeContexts
  TemplateCases <- SomeTemplates
  MailCases <- TheMailCases
  PageSize = 2
  OrdersLimit = 2
  OrdersCases <- TheOrdersCases
  InboxCases <- TheInboxCases
  Events <- SomeEvents
  Says <- SomeSays
  Files <- SomeFiles
  MaxSaid = 3
INVARIANTS AccountsSound OfficeSound ConsoleSound InboxSound ShownSound EditorSound SendsSound
PROPERTIES SignedInKept ConsoleStepsSound AuthoredStays DeskAnswers
CHECK_DEADLOCK FALSE
