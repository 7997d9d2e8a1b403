CONSTANTS
  Levels = {1}
  RuleIds = {r1, r2}
  MinCooldown = 2
  MaxCooldown = 3
  Inputs <- MCInputs
  Patches <- MCPatches
  MaxPending = 2
  MaxChanges = 3
  MaxFaults = 1
SYMMETRY RuleSymmetry
SPECIFICATION AlertsSpec
INVARIANTS AlertsKnowTheWalls AlertsAreSpaced RulesFileFollows
