CONSTANTS
  Fold <- FoldS
  Ascii <- AsciiLetters
  Corpora <- BothCorpora
  Commands <- ExactCommands
  MinTermLens = {1, 2}
  Budgets <- SomeBudgets
  MaxReplaced = 0
  MaxBuilds = 2
  None = None
SPECIFICATION Spec
INVARIANTS OutputPreserving
