SPECIFICATION Spec
CONSTANTS
  Metric = "f1"
  LengthDecay = FALSE
  Prompts <- FittingPrompts
  Turns <- AllTurns
  Outputs <- OneOutput
  Aborts = FALSE
  PromptLength = 4
  ResponseLength = 34
  MaxModelLen = 38
  MaxUserTurns = 2
  MaxAssistantTurns = 3
  MaxParallelCalls = 1
INVARIANT CutOffIsFailed
