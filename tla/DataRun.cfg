SPECIFICATION Spec
CONSTANTS
  e1 = e1
  e2 = e2
  e3 = e3
  Examples = {e1, e2, e3}
  Dataset <- Three
  Generic <- TheGeneric
  YesNo = {e3}
  PeerShare = {e2}
  MaxToolCalls = 3
  MaxIterations = 2
  QualityFilter = TRUE
  Parallel = 1
  MaxStarts = 3
  Torn = Torn
  Garbled = Garbled
INVARIANTS TypeOK TrainsOnConfirmedSteps TrainedTwiceOnlyBehindOpenLine
  TrainingRowsLostToKills
CHECK_DEADLOCK FALSE
