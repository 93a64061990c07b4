SPECIFICATION DelegationsSpec
CONSTANTS
  g1 = g1
  a1 = a1
  Requests = {r1}
  Grants = {g1}
  Agents = {a1}
  Keys = {k1}
  AgentOf <- OneAgent
  DefaultGrant <- OneGrant
  Durations = {1}
  ReminderLead = 0
  MaxRetry = 0
  MaxTime = 1
  NoRequest = NoRequest
  NoGrant = NoGrant
  NoKey = NoKey
  Users = {u1}
  DelegationIds = {d1}
  CallKeys = {c1}
  NoCallKey = NoCallKey
  NoUser = NoUser
  NoDelegation = NoDelegation
  Types = {doc, report}
  NoType = NoType
  doc = doc
  Capability <- OnlyDoc
  Expiries = {1}
SYMMETRY DelegationSymmetry
PROPERTY
  ProvisionedUnderDelegation
\* Requests, keys, retries and the clock are bounded: the system may stop.
CHECK_DEADLOCK FALSE
