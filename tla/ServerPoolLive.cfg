SPECIFICATION FairSpec
CONSTANTS
  Keys = {1, 2}
  Entries = {e1, e2}
  Callers = {a, b}
  Caps = {1, 2}
  Schedule <- OneTwo
  MaxWait = 1
  AffinityMax = 1
  Configs <- Swap
  FirstConfigs <- Single
  MaxEdits = 2
  EditsDuringStart = FALSE
  None = None
  Malformed = Malformed
PROPERTIES ChatReturns LastEditApplied
