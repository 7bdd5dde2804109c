SPECIFICATION Spec
CONSTANTS
  A = A
  B = B
  C = C
  Corpora = {A, B, C}
  Lines <- TheLines
  Counts = {2, 3}
  Faults = {"kill", "fail", "replace"}
  None = None
  Torn = Torn
INVARIANTS TypeOK BuiltIsTrue ShardsOfOneCut EngineServesWhole ReusedIsTrueOfWhole
