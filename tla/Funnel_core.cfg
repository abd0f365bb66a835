\* One token that a rescan brings again, two processes, one fault.
SPECIFICATION MCFairSpec
CONSTANTS
  Tokens = {t1}
  Processes = 2
  Models = {"probability"}
  Retries = {}
  Rescans = {"rescan"}
  NoRun = NoRun
  MaxFaults = 1
  Crew = 2
INVARIANTS
  TypeOK
  OneRunCarries
PROPERTIES
  ImplementsScreening
  EveryTokenScreened
CHECK_DEADLOCK FALSE
