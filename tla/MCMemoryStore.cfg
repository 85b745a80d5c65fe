SPECIFICATION Spec
CONSTANTS
  Writers = {w1}
  Readers = {r1}
  Owners <- MCOwners
  Entities = {1, 2, 3}
  Fold <- MCFold
  Stored <- MCStored
  Asked <- MCAsked
  MemIds = {1, 2, 3}
  AnchorLimit = 2
  BridgeLimit = 1
  HitLimit = 2
INVARIANTS TypeOK StoreIsAllOrNothing TrailIsOwnAndComplete GraphStaysWithOwner GraphFindsAnchors
