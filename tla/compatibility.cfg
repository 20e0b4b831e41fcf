SPECIFICATION Spec
CONSTANTS
  Request = {1, 2}
  Descriptor <- TwoFields
INVARIANTS
  IndexExact
  DecisionAgrees
