\* Requests against a refresh that never stops, with crashes and restarts.
CONSTANTS
  s1 = s1
  s2 = s2
  s3 = s3
  g1 = g1
  r1 = r1
  r2 = r2
  NoIP = NoIP
  V4 = {s1, s2, g1}
  V6 = {}
  MaxCap = 2
  Addresses <- TwoSandboxes
  ScaleDown = TRUE
  Reqs = {r1}
  MaxSessions = 1
  Kinds = {"login", "delete", "guac"}
  OverlappingAdmins = FALSE
SPECIFICATION FairSpec
PROPERTIES RequestsAnswered DiscoveredEventually LostEventually
