SPECIFICATION Spec
CONSTANTS
  Kinds = {"vllm", "mock", "triton", "tgi"}
  Calls = {c1, c2}
  Ids = {r1, r2}
  NoCall = NoCall
  Sessions <- SomeSessions
  MaxTokens = 2
  MaxChunks = 2
  Faults = {"unreadable", "blank"}
SYMMETRY Symmetry
INVARIANTS
  TypeOK
  Seamless
  WithinBudget
  RegistryIsLive
PROPERTIES
  AbortSilences
CHECK_DEADLOCK FALSE
