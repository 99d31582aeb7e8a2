SPECIFICATION Spec
CONSTANT Damages <- MCDamages
CONSTANT Others <- MCOthers
INVARIANTS SingleErrorRepaired NoMiscorrection ResultHonest
CHECK_DEADLOCK FALSE
