\* A sandbox goes away while sessions exist.
CONSTANTS
  s1 = s1
  s2 = s2
  s3 = s3
  g1 = g1
  r1 = r1
  r2 = r2
  NoIP = NoIP
  V4 = {s1, s2}
  V6 = {}
  MaxCap = 2
  Addresses <- SandboxesOnly
  ScaleDown = TRUE
  Reqs = {r1}
  MaxSessions = 1
  Kinds = {"login"}
  OverlappingAdmins = FALSE
SPECIFICATION Spec
PROPERTIES SessionsKept
