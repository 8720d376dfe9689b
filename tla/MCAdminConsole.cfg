\* One browser and the server: a session of its own at most, one of another
\* participant, one call lost, page loaded anew, or session ended.
CONSTANTS
  MaxSessions = 3
  Boxes = {1, 2}
  MaxCalls = 2
  MaxFaults = 1
SPECIFICATION Spec
INVARIANTS ConsoleTypeOK
PROPERTIES OnlyDeadCookiesHurt StoreCatchesUp RouteSettles SummaryCatchesUp
