\* Two events, the second with an output that is refused, two stages that may outlive their
\* claims, two faults, one requeue; three
\* endpoints of each kind, two programs and a caller.
SPECIFICATION DeliverySpec
CONSTANTS
  Slots = 3
  Programs = {P1, P2}
  Callers = {k1}
  FailThreshold = 2
  Room = 1
  MaxTries = 1
  e1 = e1
  e2 = e2
  e3 = e3
  e4 = e4
  w1 = w1
  w2 = w2
  w3 = w3
  Events = {e1, e2, e4}
  NoEvent = NoEvent
  Roots = {e1}
  OutputOf <- MCOutputOf
  Refused = {e4}
  Workers = {w1, w2}
  Handles <- MCHandles
  Listeners = {}
  MaxRetries = 1
  MaxFaults = 2
  MaxRequeues = 1
  SlowHandlers = TRUE
INVARIANTS
  NoSilentDrop
PROPERTIES
  ImplementsWorkQueue
  EveryEventSettles
  FailoverFindsService
CHECK_DEADLOCK FALSE
