\* One tunnel, two messages each way, every order of its goroutines' steps.
CONSTANT MaxMsgs = 2
SPECIFICATION FairSpec
INVARIANTS TypeOK PrefixDelivered CrashTakesBothEnds WaitingIsWatched
PROPERTIES EndOfEitherEndsTunnel SentArrives IsTunnel
CHECK_DEADLOCK FALSE
