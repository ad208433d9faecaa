SPECIFICATION FairSpec
CONSTANTS
  Writer = "User2"
  Reader = "User1"
  MaxTexts = 3
  MaxKills = 2
  Junk = Junk
CHECK_DEADLOCK FALSE
INVARIANTS
  TextsTakeTurns
  StuckOnlyAfterAKill
PROPERTIES
  TextsArrive
