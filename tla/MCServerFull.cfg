\* Everything at once: two requests of every kind that overlap freely, also
\* admin operations, while sandboxes come and go and the server crashes.
CONSTANTS
  s1 = s1
  s2 = s2
  s3 = s3
  g1 = g1
  r1 = r1
  r2 = r2
  NoIP = NoIP
  V4 = {s1, s2}
  V6 = {}
  MaxCap = 4
  Addresses <- SandboxesOnly
  ScaleDown = TRUE
  Reqs = {r1, r2}
  MaxSessions = 1
  Kinds = {"login", "admin", "delete", "assign", "guac"}
  OverlappingAdmins = TRUE
SYMMETRY TwoSymmetry
SPECIFICATION Spec
INVARIANTS TypeOK StoreMatchesDiscovery NoDuplicateSandbox StoreBounded GuacNeverPanics
PROPERTIES RefreshKeepsReservations OnlyLostAreForgotten
