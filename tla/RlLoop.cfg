SPECIFICATION Spec
CONSTANTS
  Metric = "f1"
  LengthDecay = TRUE
  Prompts <- AllPrompts
  Turns <- AllTurns
  Outputs <- AllOutputs
  Aborts = TRUE
  PromptLength = 4
  ResponseLength = 46
  MaxModelLen = 50
  MaxUserTurns = 3
  MaxAssistantTurns = 4
  MaxParallelCalls = 2
INVARIANTS TypeOK RefusesOnlyPrompts MaskTellsWhoWrote FullMarksForOwnAnswer NotCutShort
