SPECIFICATION Spec
CONSTANTS
  a1 = a1  a2 = a2  tm1 = tm1  tm2 = tm2  m1 = m1  m2 = m2  m3 = m3  w1 = w1  w2 = w2
  Agents <- OneAgent
  Bot = bot
  Teams <- OneTeam
  Mails <- ThreeMails
  Sent <- NoSent
  Refs <- Thread
  Subject <- OwnSubjects
  Members <- AllMembers
  Workers <- OneWorker
  FirstMail = m1
  FirstRows <- Resolved
  Dtos <- NoDtos
  MaxEvents = 0
PROPERTIES MintsOnlyForDeadThreads
CHECK_DEADLOCK FALSE
