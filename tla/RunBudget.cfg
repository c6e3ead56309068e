SPECIFICATION FairSpec
CONSTANTS
  bounded = bounded
  unbounded = unbounded
  Calls = {bounded, unbounded}
  Tools = {t1, t2}
  Wish <- MCWish
  Input = 1
  Uses = {0, 2, 5}
  MaxTokens = 4
  MaxToolCalls = 3
  MaxTools = 1
  MaxCrashes = 1
CHECK_DEADLOCK FALSE
INVARIANTS SpentWithinLimit ToolsWithinLimit SlotsAreHandedOn
PROPERTIES SnapshotsOnlyAdvance CallersAreReleased
