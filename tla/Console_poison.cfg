\* Two commands of the dashboard, no message to Telegram, no fault.
SPECIFICATION ConsoleFairSpec
CONSTANTS
  h1 = h1
  h2 = h2
  ann = ann
  bob = bob
  eve = eve
  Holdings = {h1, h2}
  Users = {ann, bob, eve}
  AllowedUserIDs = {ann}
  AllowedOperators = {ann, bob}
  Messages = {}
  Wishes <- MCWishes
  MaxRequests = 2
  MaxChallenges = 2
  MaxConsoleFaults = 0
PROPERTIES
  EveryCommandTerminates
CHECK_DEADLOCK FALSE
