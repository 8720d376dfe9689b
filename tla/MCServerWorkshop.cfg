\* A workshop: sandboxes are only added, one admin operation at a time,
\* sessions are deleted and never moved to another sandbox.
CONSTANTS
  s1 = s1
  s2 = s2
  s3 = s3
  g1 = g1
  r1 = r1
  r2 = r2
  NoIP = NoIP
  V4 = {s1, s2, s3}
  V6 = {}
  MaxCap = 4
  Addresses <- ThreeSandboxes
  ScaleDown = FALSE
  Reqs = {r1, r2}
  MaxSessions = 3
  Kinds = {"login", "delete", "guac"}
  OverlappingAdmins = FALSE
SYMMETRY ThreeSymmetry
SPECIFICATION Spec
INVARIANTS Exclusive AttachedIsReserved OnlyDeletionsLeak
PROPERTIES AllocatesSandboxes
