SPECIFICATION LiveSpec
CONSTANTS
  hello = hello  menu = menu  look = look  fork = fork  nap = nap
  human = human  close = close  draft = draft  c1 = c1  c2 = c2
  Steps <- FlowSteps
  Kind <- FlowKind
  Nexts <- FlowNexts
  First = hello
  End = null
  MaxTicks = 3
  Calls <- TwoCalls
  MaxEvents = 2
INVARIANTS TypeOK NeverAdrift
PROPERTIES EndedStaysEnded DelayStands SessionsMoveOn
CHECK_DEADLOCK FALSE
