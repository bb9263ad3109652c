SPECIFICATION Spec
CONSTANTS
  days15 = days15
  storage1 = storage1
  key1 = key1
  app2 = app2
  r1 = r1
  None = None
  Policies = {days15}
  SamplePolicies = {days15}
  Services = {storage1}
  Secrets = {key1, app2}
  PolicyOf <- MCPolicyOf
  ServiceOf <- MCServiceOf
  Associations <- MCAssociations
  Rotators = {r1}
  MaxSaves = 2
  MaxVersion = 2
  MaxSeeds = 2
INVARIANTS ReferencesResolve LoadsResolve ServiceKept NewestPolicyApplied
PROPERTIES VersionsKept
CHECK_DEADLOCK FALSE
