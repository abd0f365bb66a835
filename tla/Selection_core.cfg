\* Two tokens of one creator, two processes, one fault; or three tokens, one process, no fault.
SPECIFICATION MCFairSpec
CONSTANTS
  t1 = t1
  t2 = t2
  t3 = t3
  p1 = p1
  dev = dev
  Tokens = {t1, t2, t3}
  Procs = {p1, p2}
  CreatorOf <- Creators
  NoCreator = NoCreator
  MaxPositions = 1
  NoToken = NoToken
  NoEvent = NoEvent
  MaxFaults = 1
  Crew = 3
INVARIANTS
  OneVerdict
  NothingForgotten
PROPERTIES
  EveryTokenDecided
CHECK_DEADLOCK FALSE
