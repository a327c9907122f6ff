SPECIFICATION LiveSpec
CONSTANTS
  a1 = a1  a2 = a2  tm1 = tm1  tm2 = tm2  m1 = m1  m2 = m2  m3 = m3  w1 = w1  w2 = w2
  Agents <- OneAgent
  Bot = bot
  Teams <- TwoTeams
  Mails <- ThreeMails
  Sent <- LastSent
  Refs <- HalfThread
  Subject <- PairSubject
  Members <- AllMembers
  Workers <- TwoWorkers
  FirstMail = m1
  FirstRows <- AllRows
  Dtos <- StatusDtos
  MaxEvents = 2
INVARIANTS TypeOK MailsKept
PROPERTIES DecisionsHold KeepsContract IngestEnds
CHECK_DEADLOCK FALSE
