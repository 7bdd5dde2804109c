SPECIFICATION Spec
CONSTANTS
  Keys = {1, 2}
  Entries = {e1, e2, e3}
  Callers = {a, b}
  Caps = {1, 2}
  Schedule <- OneTwo
  MaxWait = 1
  AffinityMax = 1
  Configs <- Edits
  FirstConfigs <- Start
  MaxEdits = 2
  EditsDuringStart = FALSE
  None = None
  Malformed = Malformed
SYMMETRY Symmetry
INVARIANTS TypeOK InFlightExact HeldIsListed NoIdleDraining
  CooldownWithinSchedule OneLateRequest
PROPERTY ImplementsSlots
