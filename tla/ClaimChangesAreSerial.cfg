SPECIFICATION TransactionsSpec
CONSTANTS
  g1 = g1
  a1 = a1
  Requests = {r1}
  Grants = {g1}
  Agents = {a1}
  Keys = {k1}
  AgentOf <- OneAgent
  DefaultGrant <- OneGrant
  Durations = {1}
  ReminderLead = 1
  MaxRetry = 0
  MaxTime = 0
  MaxOpened = 1
  MaxOverlap = 2
  NoRequest = NoRequest
  NoGrant = NoGrant
  NoKey = NoKey
SYMMETRY Symmetry
PROPERTY
  ChangesAreSerial
\* Requests, keys, retries and the clock are bounded: the system may stop.
CHECK_DEADLOCK FALSE
