SPECIFICATION FairSpec
CONSTANTS
  e1 = e1
  e2 = e2
  e3 = e3
  Examples = {e1, e2, e3}
  Dataset <- Three
  MaxTurns = 3
  Parallel = 2
  MaxStarts = 3
  Torn = Torn
  Garbled = Garbled
INVARIANTS TypeOK ParseErrorIsTwoInARow RowsTellHowTheyEnded
  NoExampleTwice LosesOnlyAtOpenTail
PROPERTIES RowsSurvive RunEnds
CHECK_DEADLOCK FALSE
