SPECIFICATION Spec
CONSTANTS
  Secrets = {x, y}
  Instances = {s1, s2}
  Texts = {m, n}
  NotAvailable = NotAvailable
  SecretsSection = secrets
  Sections = {secrets, policies}
  None = None
  Nothing = Nothing
  Untracked = Untracked
  NoDiff = NoDiff
INVARIANTS
  ViewCurrent
  NothingLeftOver
