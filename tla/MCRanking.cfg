SPECIFICATION Spec
CONSTANTS
  Mems = {1, 2, 3}
  Weight <- MCWeight
  RrfK = 60
  Unit = 2000
  MaxBoost = 20
  Boosts <- MCBoosts
  Limit = 2
  Denominator = 238266
INVARIANTS DominanceIsKept BoostOnlyBreaksNearTies
CHECK_DEADLOCK FALSE
