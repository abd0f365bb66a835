\* Two families of two launches, other signatures that fill the batch of the recovery, one fault; six
\* tokens, one of them probed twice; two keys, windows of one value, two faults.
SPECIFICATION IntakeSpec
CONSTANTS
  l1 = l1
  l2 = l2
  l3 = l3
  l4 = l4
  amm = amm
  clmm = clmm
  wsol = wsol
  Launches = {l1, l2, l3, l4}
  Families = {amm, clmm}
  Launch <- LaunchTable
  Route <- Routes
  Verbatim = {clmm}
  StableMints = {wsol}
  NoMint = NoMint
  PoolSize = 1
  MaxGap = 1
  GapBatch = 2
  MaxSlot = 4
  MaxTraffic = 1
  IngestFaults = 1
  Keys = {1, 2}
  Batches = {{1}, {1, 2}}
  MaxLen = 1
  MaxWrites = 1
  Readings = {0, 1}
  BaselineFaults = 2
  Unknown = Unknown
  Nothing = Nothing
  Truths <- Tokens6
  Profiles <- ShippedProfiles
  Weights <- ShippedWeights
  Limits <- ShippedLimits
  MaxPasses = 2
INVARIANTS
  IntakeTypeOK
  WatermarkHasData
  AdmittedOnTruth
  LooserModesAdmit
PROPERTIES
  GapsClose
  DirtyWindowsAreSaved
CHECK_DEADLOCK FALSE
