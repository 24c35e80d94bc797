\* Passing the evidence: rounds, rules, unknown facts, plan review, criteria.
SPECIFICATION EvidenceSpec
CHECK_DEADLOCK FALSE
CONSTANT Settings <- MCScenes
INVARIANT SilenceIsNoTrap
PROPERTY PassesAreBacked
PROPERTY PlanHasItsPeer
