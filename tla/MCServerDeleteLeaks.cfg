\* Deleting a session after the store has grown.
CONSTANTS
  s1 = s1
  s2 = s2
  s3 = s3
  g1 = g1
  r1 = r1
  r2 = r2
  NoIP = NoIP
  V4 = {s1, s2}
  V6 = {}
  MaxCap = 2
  Addresses <- SandboxesOnly
  ScaleDown = FALSE
  Reqs = {r1}
  MaxSessions = 2
  Kinds = {"login", "delete"}
  OverlappingAdmins = FALSE
SPECIFICATION Spec
INVARIANTS NoSandboxLeaks
