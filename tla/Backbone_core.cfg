\* The bus with two stage workers and a listener that answer before claims
\* time out; two controllers, both command sources, one command, one fault;
\* two tokens on the baselines of two others, one mishap; two requests to the
\* console, one of them confirmed, one fault.
SPECIFICATION BackboneSpec
CONSTANTS
  e1 = e1
  e2 = e2
  e3 = e3
  e4 = e4
  w1 = w1
  w2 = w2
  w3 = w3
  Events = {e1, e2, e3}
  NoEvent = NoEvent
  OutputOf <- MCOutputOf
  Refused = {}
  Handles <- MCHandles
  Roots = {e1, e3}
  Workers = {w1, w2, w3}
  Listeners = {w3}
  MaxRetries = 1
  MaxFaults = 1
  MaxRequeues = 1
  SlowHandlers = FALSE
  c1 = c1
  c2 = c2
  ex1 = ex1
  Controllers = {c1, c2}
  Operators <- MCOperators
  Requests = {"STRICT"}
  Executors = {ex1}
  MaxDrifts = 1
  MaxWindows = 1
  MaxCommands = 1
  MaxControlFaults = 1
  x1 = x1
  x2 = x2
  p1 = p1
  p2 = p2
  Tokens = {x1, x2}
  Past = {p1, p2}
  Kinds <- MCKinds
  About <- MCAbout
  Hydrated <- MCHydrated
  MinSamples = 2
  MinBars = 3
  MaxMishaps = 1
  h1 = h1
  h2 = h2
  ann = ann
  bob = bob
  eve = eve
  Holdings = {h1, h2}
  Users = {ann, bob, eve}
  AllowedUserIDs = {ann}
  AllowedOperators = {ann, bob}
  Messages <- MCMessages
  Wishes <- MCWishes
  MaxRequests = 2
  MaxChallenges = 1
  MaxConsoleFaults = 1
SYMMETRY MCSymmetry
INVARIANTS
  BackboneTypeOK
  NoEarlyBurial
  OneHolder
  OneMovePerWindow
  LateSubmissionsBounded
  BirthBlockedByPeers
  UnknownAgeNeedsInstability
  OncePerChallenge
  EveryUpdateHandled
PROPERTIES
  OperatorOutlivesWindow
CHECK_DEADLOCK FALSE
