SPECIFICATION BrokerSpec
CONSTANTS
  Writes <- MCWrites
  Batch <- MCBatch
  StepLimit = 2
  Faults = {"statement", "step", "lost"}
  Usage = {}
  NoWrite = NoWrite
INVARIANTS BrokerInv GivenIsReceived
PROPERTIES ImplementsQueue EveryCallReturns
