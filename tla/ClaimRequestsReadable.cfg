SPECIFICATION Spec
CONSTANTS
  g1 = g1
  a1 = a1
  Requests = {r1}
  Grants = {g1}
  Agents = {a1}
  Keys = {k1, k2}
  AgentOf <- OneAgent
  DefaultGrant <- OneGrant
  Durations = {1}
  ReminderLead = 1
  MaxRetry = 1
  MaxTime = 2
  NoRequest = NoRequest
  NoGrant = NoGrant
  NoKey = NoKey
INVARIANT RequestsReadable
\* Requests, keys, retries and the clock are bounded: the system may stop.
CHECK_DEADLOCK FALSE
