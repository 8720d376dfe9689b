------------------------- MODULE SandboxAllocation -------------------------
(***************************************************************************)
(* What the control server promises its participants: a session gets one   *)
(* sandbox, which nobody else has, keeps it, and gives it back when it     *)
(* ends; sandboxes are added, and only a crash takes them all away.        *)
(*                                                                         *)
(* There are no arrays, no pointers, no marks and no requests here:        *)
(* ControlServer implements this (ControlServer!AllocatesSandboxes).       *)
(***************************************************************************)
CONSTANTS
  Sandboxes,  \* the addresses of sandboxes
  Sessions,   \* the sessions there can be
  None        \* no sandbox

VARIABLES
  pool,   \* the sandboxes the server knows
  fresh,  \* the sessions that may still get a sandbox
  holds   \* the sandbox of each session

allocationVars == <<pool, fresh, holds>>

Init ==
  /\ pool = {}
  /\ fresh = Sessions
  /\ holds = [s \in Sessions |-> None]

Register(b) ==
  /\ pool' = pool \cup {b}
  /\ UNCHANGED <<fresh, holds>>

Login(s, b) ==
  /\ s \in fresh
  /\ b \in pool /\ \A t \in Sessions : holds[t] # b
  /\ holds' = [holds EXCEPT ![s] = b]
  /\ fresh' = fresh \ {s}
  /\ UNCHANGED pool

Logout(s) ==
  /\ holds[s] # None
  /\ holds' = [holds EXCEPT ![s] = None]
  /\ UNCHANGED <<pool, fresh>>

(* A session that has its login behind it, or half of it, is over.         *)
Crash ==
  /\ pool' = {}
  /\ holds' = [s \in Sessions |-> None]
  /\ fresh' \subseteq fresh

Next ==
  \/ \E b \in Sandboxes : Register(b)
  \/ \E s \in Sessions, b \in Sandboxes : Login(s, b)
  \/ \E s \in Sessions : Logout(s)
  \/ Crash

Spec == Init /\ [][Next]_allocationVars

=============================================================================
