SPECIFICATION Spec
CONSTANTS
  g1 = g1
  a1 = a1
  Requests = {r1, r2}
  Grants = {g1}
  Agents = {a1}
  Keys = {k1, k2, k3}
  AgentOf <- OneAgent
  DefaultGrant <- OneGrant
  Durations = {0, 2}
  ReminderLead = 1
  MaxRetry = 1
  MaxTime = 3
  NoRequest = NoRequest
  NoGrant = NoGrant
  NoKey = NoKey
SYMMETRY Symmetry
INVARIANTS TypeOK SessionBacked RevocationTracked RetryBudget GrantMirrored RemindedOnce RetriesAreOffered
PROPERTIES RevocationFinal ActivatedByAttempt EndedIsFinal
\* Requests, keys, retries and the clock are bounded: the system may stop.
CHECK_DEADLOCK FALSE
