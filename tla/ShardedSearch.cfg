SPECIFICATION Spec
CONSTANTS
  Corpora <- ShortCorpora
  Commands <- AllCommands
  Shards = 2
  Slow = TRUE
INVARIANTS TypeOK ExactWhereSafe NeverInvents
