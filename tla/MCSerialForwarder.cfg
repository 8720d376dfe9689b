\* A failure, an unplugged device or a further connect, twice in any order.
CONSTANTS
  MaxFaults = 2
  MaxChunks = 2
SPECIFICATION Spec
INVARIANTS ForwarderTypeOK LoopsPaidFor ReadLoopGoesOn SocketToCome
PROPERTIES InboundRecovers OutboundRecovers
