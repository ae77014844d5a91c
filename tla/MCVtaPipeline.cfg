SPECIFICATION HostSpec
CONSTANTS
  Calls <- MCCalls
  Depths <- MCDepths
INVARIANTS TypeOK NoBufferRace QuiescentAtFinish FailsOnlyByTimeOut
PROPERTIES ImplementsReference ImplementsProtocol Finishes
