SPECIFICATION FairSpec
CONSTANTS
  s1 = s1
  s2 = s2
  NoStream = NoStream
  Streams = {s1, s2}
  NonStreaming = {}
  Ids = {s1, s2}
  IdOf <- OwnId
  OutputLen = 2
  MaxTokens = 2
  Unnumbered = {}
  Faults = {"client_gone", "silent_stop"}
INVARIANTS
  WholeAnswer
PROPERTIES
  EveryRequestEnds
  ImplementsDelivery
