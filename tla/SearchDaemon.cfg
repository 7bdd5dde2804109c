SPECIFICATION Spec
CONSTANTS
  Clients = {a, b}
  Daemons = {d1, d2}
  Strategies = {concat}
  Calls = 2
  Crashes = TRUE
  None = None
INVARIANTS TypeOK OwnReply StaleOnlyAfterCrash
