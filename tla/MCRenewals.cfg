SPECIFICATION Spec
CONSTANTS
  g1 = g1
  a1 = a1
  Requests = {r1, r2, r3}
  Grants = {g1}
  Agents = {a1}
  Keys = {k1, k2, k3}
  AgentOf <- OneAgent
  DefaultGrant <- OneGrant
  Durations = {1}
  ReminderLead = 1
  MaxRetry = 0
  MaxTime = 2
  NoRequest = NoRequest
  NoGrant = NoGrant
  NoKey = NoKey
SYMMETRY Symmetry
INVARIANT OneOpenRenewal
PROPERTIES ExtendedByRenewal AnsweredOnce
\* Requests, keys, retries and the clock are bounded: the system may stop.
CHECK_DEADLOCK FALSE
