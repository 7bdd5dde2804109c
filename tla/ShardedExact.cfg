SPECIFICATION Spec
CONSTANTS
  Corpora <- ShortCorpora
  Commands <- Divergent
  Shards = 2
  Slow = FALSE
INVARIANT ByteIdentical
