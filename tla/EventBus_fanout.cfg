\* A listener shares the event types of a stage; nothing goes wrong.
SPECIFICATION Spec
CONSTANTS
  e1 = e1
  e2 = e2
  e3 = e3
  e4 = e4
  w1 = w1
  w2 = w2
  w3 = w3
  Events = {e1, e2}
  NoEvent = NoEvent
  Roots = {e1}
  OutputOf <- MCOutputOf
  Refused = {}
  Workers = {w1, w2}
  Handles <- MCHandles
  Listeners = {w2}
  MaxRetries = 1
  MaxFaults = 0
  MaxRequeues = 0
  SlowHandlers = FALSE
INVARIANTS
  NoSilentDrop
CHECK_DEADLOCK FALSE
