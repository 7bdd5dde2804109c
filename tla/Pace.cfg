CONSTANTS
  Fold <- FoldS
  Ascii <- AsciiLetters
  Corpora <- BothCorpora
  Commands <- SomeCommands
  MinTermLens = {2}
  Budgets <- SomeBudgets
  MaxReplaced = 1
  MaxBuilds = 2
  None = None
SPECIFICATION Spec
INVARIANTS TypeOK ExactWhenCoherent LookupExact
PROPERTIES OpenedDescribesCorpus
