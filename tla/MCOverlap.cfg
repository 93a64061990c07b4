SPECIFICATION TransactionsSpec
CONSTANTS
  g1 = g1
  a1 = a1
  Requests = {r1, r2}
  Grants = {g1, g2}
  Agents = {a1}
  Keys = {k1, k2}
  AgentOf <- OneAgent
  DefaultGrant <- OneGrant
  Durations = {1}
  ReminderLead = 1
  MaxRetry = 1
  MaxTime = 1
  MaxOpened = 1
  MaxOverlap = 2
  NoRequest = NoRequest
  NoGrant = NoGrant
  NoKey = NoKey
SYMMETRY Symmetry
CONSTRAINT Explored
INVARIANT
  SessionAuthorized
  OneFirstAttempt
  RevocationNotLost
PROPERTY
  LostByRollback
  ExtendedOncePerApproval
\* Requests, keys, retries and the clock are bounded: the system may stop.
CHECK_DEADLOCK FALSE
