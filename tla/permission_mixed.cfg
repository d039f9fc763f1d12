\* Safety of the Permission Engine: a rememberable call and a sensitive one.
SPECIFICATION Spec
CONSTANTS
  Calls <- MixedCalls
  Replies = {r1, r2}
  Rules <- MixedRules
  Class <- MixedClass
  RuleOf <- MixedRuleOf
  NoRule = "noRule"
  NoCall = "noCall"
SYMMETRY SameHandlers
INVARIANTS
  TypeOK
  RejectedNeverRuns
  NoUngrantedRule
  HealthyStoreAgrees
PROPERTIES
  AdmissionHasGrounds
  Implements
CHECK_DEADLOCK FALSE
