\* A token at a time with one process and one fault, an hour of two ticks, a row that lives an hour, caps
\* of one token and one probe; two releases, two configurations and a proposal.
SPECIFICATION UpkeepSpec
CONSTANTS
  t1 = t1
  t2 = t2
  Tokens = {t1, t2}
  Bots = {b1}
  moon = moon
  NameOf <- Names
  NoName = NoName
  KnownNames = {}
  FreshCap = 1
  RescanCap = 1
  CreditCap = 3
  ProbeCost = 2
  Ttl = 1
  MaxAttempts = 1
  NoRequest = NoRequest
  Hour = 2
  MaxClock = 3
  ProbeFaults = 1
  Releases = {r1, r2}
  Configs = {v1, v2}
  Flat = {v1}
  Proposals = {c1}
  NoVersion = NoVersion
  MaxBoots = 4
INVARIANTS
  UpkeepTypeOK
  NoDeferralForgotten
  CurrentIsActive
PROPERTIES
  DueRowsEnd
CHECK_DEADLOCK FALSE
