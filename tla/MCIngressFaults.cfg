SPECIFICATION Spec
SYMMETRY Symmetry
CONSTANTS
  s1 = s1
  s2 = s2
  f = f
  NoStream = NoStream
  Streams = {s1, s2, f}
  NonStreaming = {f}
  Ids = {s1, s2, f}
  IdOf <- OwnId
  OutputLen = 2
  MaxTokens = 2
  Unnumbered = {"active"}
  Faults = {"early_stop", "standby_outage", "garbled_line", "client_gone"}
INVARIANTS
  ExactlyOnce
  LedgerMatchesClient
  NoStrandedStream
  StateReclaimed
