\* One command of either source, no fault.
SPECIFICATION ConsoleSpec
CONSTANTS
  h1 = h1
  h2 = h2
  ann = ann
  bob = bob
  eve = eve
  Holdings = {h1, h2}
  Users = {ann, bob, eve}
  AllowedUserIDs = {ann}
  AllowedOperators = {ann, bob}
  Messages <- MCMessages
  Wishes <- MCWishes
  MaxRequests = 1
  MaxChallenges = 1
  MaxConsoleFaults = 0
PROPERTIES
  KillStopsSubmission
CHECK_DEADLOCK FALSE
