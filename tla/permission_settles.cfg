\* Answered and cancelled calls are settled: every kind of call.
SPECIFICATION FairSpec
CONSTANTS
  Calls <- OtherCalls
  Replies = {r1, r2}
  Rules <- OtherRules
  Class <- OtherClass
  RuleOf <- OtherRuleOf
  NoRule = "noRule"
  NoCall = "noCall"
PROPERTIES
  AnsweredCallSettles
CHECK_DEADLOCK FALSE
