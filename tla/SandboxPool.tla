---------------------------- MODULE SandboxPool ----------------------------
(***************************************************************************)
(* The sandbox service (internal/sandbox/service.go): the slice of         *)
(* sandboxes the control server hands out.                                 *)
(*                                                                         *)
(* The service keeps `store []Sandbox`, and ReserveFree and Reserve return *)
(* a pointer to an element of it, which sessions then keep.  What such a   *)
(* pointer means after an append or a deletion depends on the array behind *)
(* the slice, so the array is part of the model:                           *)
(*   - append to a full slice copies it to an array of twice the capacity; *)
(*     older pointers keep pointing into the old array;                    *)
(*   - a deletion shrinks the slice only; the element beyond the new       *)
(*     length stays, until an append overwrites it in place.               *)
(* Capacities only grow during the life of the process, so an array is     *)
(* named by its capacity, and a pointer is <<capacity, position>>.         *)
(***************************************************************************)
EXTENDS Integers

CONSTANTS
  V4,       \* the IPv4 addresses sandboxes and guacd can have
  NoIP,     \* the address of a slot that was never written
  MaxCap    \* bound: the largest capacity of the array behind the store

ASSUME PoolAssumption == NoIP \notin V4 /\ MaxCap \in Nat

VARIABLES
  heap,     \* the slots of all the arrays the store has had, by pointer
  cap,      \* cap(s.store), which also names the current array
  len       \* len(s.store)

poolVars == <<heap, cap, len>>

Ptr  == {q \in (1 .. MaxCap) \X (1 .. MaxCap) : q[2] <= q[1]}
nil  == <<0, 0>>
Slot == [ip : V4 \cup {NoIP}, reserved : BOOLEAN]

PoolTypeOK ==
  /\ heap \in [Ptr -> Slot]
  /\ cap \in 0 .. MaxCap
  /\ len \in 0 .. cap

PoolInit ==
  /\ heap = [q \in Ptr |-> [ip |-> NoIP, reserved |-> FALSE]]
  /\ cap = 0
  /\ len = 0

PoolReset ==
  /\ heap' = [q \in Ptr |-> [ip |-> NoIP, reserved |-> FALSE]]
  /\ cap' = 0
  /\ len' = 0

----------------------------------------------------------------------------
(* Reading the store. *)

Live        == {q \in Ptr : q[1] = cap /\ q[2] <= len}
StoreIPs    == {heap[q].ip : q \in Live}
Matches(ip) == {q \in Live : heap[q].ip = ip}
Free        == {q \in Live : ~heap[q].reserved}

(* q is the element of S a loop over the store meets first. *)
IsFirst(q, S) == q \in S /\ \A p \in S : q[2] <= p[2]

getFree(q) == IsFirst(q, Free)
get(q, ip) == IsFirst(q, Matches(ip))

----------------------------------------------------------------------------
(* Changing the store. *)

SetReserved(q, b) ==
  /\ heap' = [heap EXCEPT ![q].reserved = b]
  /\ UNCHANGED <<cap, len>>

(* ReserveFree when a sandbox is free: q is the result. *)
ReserveFree(q) == getFree(q) /\ SetReserved(q, TRUE)

(* Reserve(ip) when ip is in the store and not reserved: q is the result. *)
Reserve(q, ip) == get(q, ip) /\ ~heap[q].reserved /\ SetReserved(q, TRUE)

(* ... and when it is not, which is an error. *)
ReserveRefused(ip) == \A q \in Live : get(q, ip) => heap[q].reserved

Release(q) == SetReserved(q, FALSE)

(* Mistake: append never grows the array. *)
NeverGrown(c) == c

(* The capacity append gives the array it grows a full one into. *)
Grown(c) == IF c = 0 THEN 1 ELSE 2 * c

(* Mistake: the store is rebuilt from addresses, as new sandboxes. *)
AddForgetsReservations(ip) ==
  LET newCap == IF len < cap THEN cap ELSE Grown(cap)
  IN  /\ newCap <= MaxCap
      /\ cap' = newCap
      /\ len' = len + 1
      /\ heap' = [q \in Ptr |->
                    IF q = <<newCap, len + 1>> THEN [ip |-> ip, reserved |-> FALSE]
                    ELSE IF q[1] = newCap /\ q[2] <= len
                      THEN [ip |-> heap[<<cap, q[2]>>].ip, reserved |-> FALSE]
                    ELSE heap[q]]

(* append(s.store, Sandbox{IP: ip}) *)
Add(ip) ==
  LET newCap == IF len < cap THEN cap ELSE Grown(cap)
      copied == {q \in Ptr : newCap # cap /\ q[1] = newCap /\ q[2] <= len}
  IN  /\ newCap <= MaxCap
      /\ cap' = newCap
      /\ len' = len + 1
      /\ heap' = [q \in Ptr |->
                    IF q = <<newCap, len + 1>> THEN [ip |-> ip, reserved |-> FALSE]
                    ELSE IF q \in copied       THEN heap[<<cap, q[2]>>]
                    ELSE heap[q]]

(***************************************************************************)
(* Delete ranges over the length the store had on entry and does not stop  *)
(* at the element it removes.  When that element is not the last one, the  *)
(* last round of the loop indexes one past the shortened slice and panics  *)
(* (after a swap nobody gets to see).  When it is the last one, the swap   *)
(* is with itself and the slice just gets shorter.                         *)
(***************************************************************************)
DeletePanics(ip) == \E q \in Matches(ip) : q[2] < len

(* Mistake: the last element is dropped, whichever was found. *)
DeleteLast(ip) ==
  /\ len' = IF Matches(ip) = {} THEN len ELSE len - 1
  /\ UNCHANGED <<heap, cap>>

Delete(ip) ==
  /\ ~DeletePanics(ip)
  /\ len' = IF Matches(ip) = {} THEN len ELSE len - 1
  /\ UNCHANGED <<heap, cap>>

----------------------------------------------------------------------------
(* No address is registered twice: Reserve(ip) and Delete(ip) look a       *)
(* sandbox up by address and would only ever see one of two copies.        *)
NoDuplicateSandbox ==
  \A p, q \in Live : heap[p].ip = heap[q].ip => p = q

=============================================================================
