-------------------------- MODULE MCControlServer --------------------------
(* Instances of ControlServer for TLC. *)
EXTENDS ControlServer, TLC

CONSTANTS s1, s2, s3, g1, r1, r2

TwoSandboxes   == [s \in Services |-> IF s = "guacd" THEN {g1} ELSE {s1, s2}]
ThreeSandboxes == [s \in Services |-> IF s = "guacd" THEN {} ELSE {s1, s2, s3}]

(* Without guacd, whose addresses never reach the sandbox store. *)
SandboxesOnly  == [s \in Services |-> IF s = "guacd" THEN {} ELSE {s1, s2}]

(* Sandboxes and requests are interchangeable. *)
TwoSymmetry   == Permutations({s1, s2}) \cup Permutations({r1, r2})
ThreeSymmetry == Permutations({s1, s2, s3}) \cup Permutations({r1, r2})

=============================================================================
