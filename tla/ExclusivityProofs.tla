------------------------- MODULE ExclusivityProofs -------------------------
(***************************************************************************)
(* In a deployment whose sandboxes are only added and whose admin deletes  *)
(* sessions one at a time and moves none, no two sessions are ever on the  *)
(* same sandbox, for any number of sandboxes, sessions and requests.       *)
(*                                                                         *)
(* The argument: a session or a login in progress has a pointer, perhaps   *)
(* into an array the store has left; the slot of the current array at the  *)
(* same position still has the same address and is reserved, because a     *)
(* slot never moves while the store only grows; and no two have pointers   *)
(* to the same position, because ReserveFree picks a slot that is not      *)
(* reserved.                                                               *)
(***************************************************************************)
EXTENDS ControlServerProofs

(* The deployment these proofs are about. *)
OnlyGrows == ~ScaleDown /\ "assign" \notin Kinds /\ ~OverlappingAdmins

(* Nothing is ever lost. *)
Growth == lostIPs = {} /\ \A s \in Services : ipMap[s] \subseteq dns[s]

(* There is one admin operation, and the session it deletes is there. *)
OneAdmin ==
  /\ \A r \in Reqs : req[r].kind # "assign"
  /\ \A r, q \in Reqs : req[r].kind = "delete" /\ req[q].kind = "delete" => r = q
  /\ \A r \in Reqs : req[r].kind = "delete" /\ req[r].pc \in {"release", "delete"}
       => req[r].sid \in sessions
  /\ \A r \in Reqs : req[r].kind = "delete" => req[r].ptr = nil

(* The slot the store now has where p points to is the same sandbox, and reserved. *)
OwnedIn(h, c, l, p) ==
  /\ p \in Ptr
  /\ p[1] <= c /\ p[2] <= l
  /\ h[<<c, p[2]>>].ip = h[p].ip
  /\ h[<<c, p[2]>>].reserved

Owned(p)      == OwnedIn(heap, cap, len, p)
StillOwned(p) == OwnedIn(heap', cap', len', p)

Owners ==
  /\ \A s \in Settled : Owned(sess[s].sandbox)
  /\ \A r \in Reqs : req[r].ptr # nil => Owned(req[r].ptr)
  /\ \A s, t \in Settled : sess[s].sandbox[2] = sess[t].sandbox[2] => s = t
  /\ \A r, q \in Reqs : req[r].ptr # nil /\ req[q].ptr # nil /\ req[r].ptr[2] = req[q].ptr[2]
       => r = q
  /\ \A s \in Settled, r \in Reqs : req[r].ptr # nil => req[r].ptr[2] # sess[s].sandbox[2]

ExclusiveInv == ServerInv /\ Growth /\ OneAdmin /\ Owners

----------------------------------------------------------------------------
(* Growth *)

LEMMA GrowthStep ==
  ASSUME OnlyGrows, ServerInv, Growth, [Next]_vars
  PROVE  Growth'
<1> USE DEF Growth
<1>0. ipMap \in [Services -> SUBSET V4]
  BY DEF ServerInv, DiscoveryInv, DiscoveryTypeOK
<1>1. ASSUME UNCHANGED <<dns, ipMap, lostIPs>> PROVE Growth'
  BY <1>1
<1>2. ASSUME NEW r \in Reqs, Accept(r) PROVE Growth'
  BY <1>1, <1>2, AcceptInv DEF outside
<1>3. ASSUME NEW r \in Reqs, Handler(r) PROVE Growth'
  BY <1>1, <1>3 DEF Handler, Middleware, LoginReserve, Create, LoginAttach, AdminGet,
     AdminRelease, DeleteSession, AssignReserve, AssignAttach, GuacConfig, GuacDial
<1>4. CASE MapRace \/ LossPanic
  BY <1>4 DEF MapRace, LossPanic, Crash, DiscoveryCrash
<1>5. CASE Background
  <2>1. ASSUME NEW s \in Services, LookupOK(s) PROVE Growth'
    BY <1>0, <2>1 DEF LookupOK
  <2>2. ASSUME NEW s \in Services, NEW answer \in Answers(s), DnsChange(s, answer)
        PROVE  Growth'
    <3>1. dns' \in [Services -> SUBSET (V4 \cup V6)] /\ \A t \in Services : dns[t] \subseteq dns'[t]
      BY <2>2, DiscoveryAssumption DEF DnsChange, Answers, OnlyGrows, ServerInv, DiscoveryInv, DiscoveryTypeOK
    <3> QED BY <2>2, <3>1 DEF DnsChange
  <2>3. ASSUME NEW ip \in V4, OnDiscover(ip) \/ OnLost(ip) PROVE Growth'
    BY <2>3 DEF OnDiscover, OnLost
  <2>4. ASSUME NEW s \in Services, LookupError(s) PROVE Growth'
    BY <1>1, <2>4 DEF LookupError
  <2>5. CASE RefreshLock \/ RefreshUnlock \/ DiscoveryRestart
    BY <1>1, <2>5 DEF RefreshLock, RefreshUnlock, DiscoveryRestart
  <2> QED BY <1>5, <2>1, <2>2, <2>3, <2>4, <2>5 DEF Background, Refresh, Environment
<1>6. CASE UNCHANGED vars
  BY <1>1, <1>6 DEF vars
<1> QED BY <1>2, <1>3, <1>4, <1>5, <1>6 DEF Next

----------------------------------------------------------------------------
(* The pointers *)

(* While nothing is lost, a refresh moves no slot and frees none. *)
LEMMA RefreshOwned ==
  ASSUME ServerInv, Growth, Background, NEW p, Owned(p)
  PROVE  StillOwned(p) /\ heap'[p] = heap[p]
<1>0. PoolTypeOK /\ MaxCap \in Nat /\ cap \in Nat /\ len \in Nat /\ len <= cap
  BY PoolAssumption DEF ServerInv, DiscoveryInv, DiscoveryTypeOK, PoolTypeOK
<1>1. ASSUME UNCHANGED poolVars PROVE StillOwned(p) /\ heap'[p] = heap[p]
  BY <1>1 DEF Owned, StillOwned, OwnedIn, poolVars
<1>2. ASSUME NEW ip \in V4, Add(ip) PROVE StillOwned(p) /\ heap'[p] = heap[p]
  <2>1. /\ len' = len + 1
        /\ \A i \in 1 .. len : heap'[<<cap', i>>] = heap[<<cap, i>>]
    BY <1>0, <1>2, AddSlots
  <2>2. p \in Ptr /\ p[1] <= cap /\ p[2] <= len /\ p[2] \in 1 .. len
        /\ p[1] \in Nat /\ p[2] \in Nat
    BY <1>0 DEF Owned, StillOwned, OwnedIn, Ptr
  <2>3. cap' = (IF len < cap THEN cap ELSE Grown(cap)) /\ cap <= cap'
    BY <1>0, <1>2 DEF Add, Grown
  <2>4. heap'[p] = heap[p]
    <3>1. p # <<cap', len + 1>>
      BY <1>0, <2>2
    <3>2. ~(cap' # cap /\ p[1] = cap' /\ p[2] <= len)
      BY <1>0, <2>2, <2>3 DEF Grown
    <3>3. heap'[p] = IF p = <<cap', len + 1>> THEN [ip |-> ip, reserved |-> FALSE]
                     ELSE IF cap' # cap /\ p[1] = cap' /\ p[2] <= len THEN heap[<<cap, p[2]>>]
                     ELSE heap[p]
      BY <1>2, <2>2 DEF Add
    <3> QED BY <3>1, <3>2, <3>3
  <2>5. p[1] <= cap' /\ p[2] <= len'
    BY <1>0, <2>1, <2>2, <2>3 DEF Grown
  <2>6. heap'[<<cap', p[2]>>] = heap[<<cap, p[2]>>]
    BY <2>1, <2>2
  <2> QED BY <2>2, <2>4, <2>5, <2>6 DEF Owned, StillOwned, OwnedIn
<1>3. ASSUME NEW ip \in V4, OnDiscover(ip) PROVE StillOwned(p) /\ heap'[p] = heap[p]
  BY <1>1, <1>2, <1>3 DEF OnDiscover
<1>4. ASSUME NEW ip \in V4, OnLost(ip) PROVE FALSE
  BY <1>4 DEF OnLost, Growth
<1>5. CASE (\E s \in Services : LookupError(s) \/ LookupOK(s)) \/ RefreshLock \/ RefreshUnlock
  BY <1>1, <1>5 DEF LookupError, LookupOK, RefreshLock, RefreshUnlock, poolVars
<1>6. CASE DiscoveryRestart \/ Environment
  BY <1>1, <1>6 DEF DiscoveryRestart, Environment, DnsChange, poolVars
<1> QED BY <1>3, <1>4, <1>5, <1>6 DEF Background, Refresh

(* A slot of the store that no owner has may be marked or freed. *)
LEMMA MarkOwned ==
  ASSUME PoolTypeOK, NEW q \in Ptr, NEW b \in BOOLEAN, SetReserved(q, b),
         NEW p, Owned(p), b \/ p[2] # q[2]
  PROVE  StillOwned(p) /\ heap'[p].ip = heap[p].ip
<1>1. /\ cap' = cap /\ len' = len
      /\ \A x \in Ptr : heap'[x].ip = heap[x].ip
      /\ \A x \in Ptr : heap'[x].reserved = IF x = q THEN b ELSE heap[x].reserved
  BY SetReservedStore
<1>2. cap \in Nat /\ len \in Nat /\ len <= cap /\ cap <= MaxCap /\ MaxCap \in Nat
  BY PoolAssumption DEF PoolTypeOK
<1>3. p \in Ptr /\ <<cap, p[2]>> \in Ptr
  BY <1>2 DEF Owned, StillOwned, OwnedIn, Ptr
<1>4. heap'[<<cap, p[2]>>].reserved
  <2>1. CASE b
    BY <1>1, <1>3, <2>1 DEF Owned, StillOwned, OwnedIn
  <2>2. CASE p[2] # q[2]
    <3>1. <<cap, p[2]>> # q
      BY <2>2
    <3> QED BY <1>1, <1>3, <3>1 DEF Owned, StillOwned, OwnedIn
  <2> QED BY <2>1, <2>2
<1> QED BY <1>1, <1>3, <1>4 DEF Owned, StillOwned, OwnedIn

----------------------------------------------------------------------------
(* The requests *)

(* A handler's step changes its own request only, and never its kind or,   *)
(* but for the two steps that reserve, its pointer.                        *)
LEMMA HandlerRequest ==
  ASSUME ServerInv, NEW r \in Reqs, Handler(r)
  PROVE  /\ \A q \in Reqs : q # r => req'[q] = req[q]
         /\ \/ req'[r] = NoRequest
            \/ /\ req'[r].kind = req[r].kind
               /\ req'[r].ptr = req[r].ptr \/ LoginReserve(r) \/ AssignReserve(r)
<1> USE DEF ServerInv
<1>0. req \in [Reqs -> Request] /\ req[r] \in Request
  BY DEF ServerTypeOK
<1>1. ASSUME Respond(r)
      PROVE  req'[r] = NoRequest /\ \A q \in Reqs : q # r => req'[q] = req[q]
  BY <1>1, RespondFields
<1>2. ASSUME NEW pc \in Steps, pc # "attach", Goto(r, pc)
      PROVE  /\ \A q \in Reqs : q # r => req'[q] = req[q]
             /\ req'[r].kind = req[r].kind /\ req'[r].sid = req[r].sid /\ req'[r].ptr = req[r].ptr
  BY <1>2, GotoFields
<1>3. CASE Middleware(r) \/ AdminGet(r) \/ AdminRelease(r) \/ DeleteSession(r) \/ LoginAttach(r)
           \/ AssignAttach(r) \/ GuacDial(r)
  BY <1>1, <1>2, <1>3 DEF Steps, Middleware, AdminGet, AdminRelease, DeleteSession, LoginAttach,
     AssignAttach, GuacDial
<1>4. CASE LoginReserve(r)
  BY <1>0, <1>1, <1>4 DEF LoginReserve, At, Request
<1>5. CASE Create(r)
  BY <1>0, <1>5 DEF Create, Request
<1>6. CASE AssignReserve(r)
  BY <1>0, <1>1, <1>6 DEF AssignReserve, Request
<1>7. CASE GuacConfig(r)
  <2>1. Respond(r) \/ \E ip : req' = [req EXCEPT ![r] = [@ EXCEPT !.pc = "dial", !.ip = ip]]
    BY <1>7 DEF GuacConfig
  <2>2. ASSUME NEW ip, req' = [req EXCEPT ![r] = [@ EXCEPT !.pc = "dial", !.ip = ip]]
        PROVE  /\ \A q \in Reqs : q # r => req'[q] = req[q]
               /\ req'[r].kind = req[r].kind /\ req'[r].ptr = req[r].ptr
    BY <1>0, <2>2 DEF Request
  <2> QED BY <1>1, <2>1, <2>2
<1> QED BY <1>3, <1>4, <1>5, <1>6, <1>7 DEF Handler

LEMMA NoAssign ==
  ASSUME OneAdmin, NEW r \in Reqs
  PROVE  ~AssignReserve(r) /\ ~AssignAttach(r)
BY DEF OneAdmin, AssignReserve, AssignAttach, At

LEMMA OneAdminStep ==
  ASSUME OnlyGrows, ServerInv, OneAdmin, [Next]_vars
  PROVE  OneAdmin'
<1> USE DEF OneAdmin
<1>0. req \in [Reqs -> Request]
  BY DEF ServerInv, ServerTypeOK
<1>1. ASSUME UNCHANGED <<req, sessions>> PROVE OneAdmin'
  BY <1>1
<1>2. ASSUME NEW r \in Reqs, Accept(r) PROVE OneAdmin'
  <2>1. /\ req'[r].kind # "assign" /\ req'[r].pc = "middleware" /\ req'[r].ptr = nil
        /\ \A q \in Reqs : q # r => req'[q] = req[q]
        /\ req'[r].kind = "delete" => \A q \in Reqs : req[q].kind # "delete"
        /\ sessions' = sessions
    BY <1>2, AcceptInv DEF OnlyGrows, AdminKinds
  <2> QED BY <2>1
<1>3. ASSUME NEW r \in Reqs, Handler(r) PROVE OneAdmin'
  <2>1. /\ \A q \in Reqs : q # r => req'[q] = req[q]
        /\ \/ req'[r] = NoRequest
           \/ /\ req'[r].kind = req[r].kind
              /\ req'[r].ptr = req[r].ptr \/ LoginReserve(r)
    BY <1>3, HandlerRequest, NoAssign
  <2>2. NoRequest.kind = "none"
    BY DEF NoRequest
  <2>3. LoginReserve(r) => req[r].kind = "login"
    BY DEF LoginReserve, At
  <2>4. /\ \A q \in Reqs : req'[q].kind # "assign"
        /\ \A q \in Reqs : req'[q].kind = "delete" => req[q].kind = "delete" /\ req'[q].ptr = nil
    BY <2>1, <2>2, <2>3
  <2>5. \A q \in Reqs : req'[q].kind = "delete" /\ req'[q].pc \in {"release", "delete"}
          => req'[q].sid \in sessions'
    <3>1. CASE DeleteSession(r)
      <4>1. req[r].kind = "delete" /\ req'[r] = NoRequest
        BY <3>1, RespondFields DEF DeleteSession, At, ServerInv
      <4> QED BY <2>1, <2>2, <4>1
    <3>2. CASE AdminGet(r)
      <4>1. sessions' = sessions
        BY <3>2 DEF AdminGet
      <4>2. req'[r] = NoRequest \/ (req'[r].sid = req[r].sid /\ req[r].sid \in sessions)
        BY <3>2, GotoFields, RespondFields DEF AdminGet, Steps, ServerInv
      <4> QED BY <2>1, <2>2, <4>1, <4>2
    <3>3. CASE AdminRelease(r)
      <4>1. sessions' = sessions /\ req[r].pc = "release"
        BY <3>3 DEF AdminRelease, At
      <4>2. req'[r] = NoRequest \/ (req'[r].sid = req[r].sid /\ req'[r].kind = req[r].kind)
        BY <3>3, GotoFields, RespondFields DEF AdminRelease, Steps, ServerInv
      <4> QED BY <2>1, <2>2, <4>1, <4>2
    <3>4. CASE Middleware(r)
      <4>1. sessions' = sessions
        BY <3>4 DEF Middleware
      <4>2. req'[r] = NoRequest \/ req'[r].pc \notin {"release", "delete"}
        BY <3>4, GotoFields, RespondFields DEF Middleware, Steps, ServerInv
      <4> QED BY <2>1, <2>2, <4>1, <4>2
    <3>5. CASE LoginReserve(r) \/ Create(r) \/ LoginAttach(r) \/ GuacConfig(r) \/ GuacDial(r)
      <4>1. sessions \subseteq sessions' /\ req[r].kind # "delete"
        BY <3>5 DEF LoginReserve, Create, LoginAttach, GuacConfig, GuacDial, At, LoginKinds
      <4> QED BY <2>1, <2>4, <4>1
    <3> QED BY <1>3, <3>1, <3>2, <3>3, <3>4, <3>5, NoAssign DEF Handler
  <2> QED BY <2>4, <2>5
<1>4. CASE MapRace \/ LossPanic
  <2>1. req' = [r \in Reqs |-> NoRequest]
    BY <1>4 DEF MapRace, LossPanic, Crash
  <2> QED BY <2>1 DEF NoRequest
<1>5. CASE Background
  BY <1>1, <1>5 DEF Background, serverVars
<1>6. CASE UNCHANGED vars
  BY <1>1, <1>6 DEF vars
<1> QED BY <1>2, <1>3, <1>4, <1>5, <1>6 DEF Next

----------------------------------------------------------------------------
(* The owners *)

(* Owners only get fewer, and keep their pointers. *)
LEMMA FewerOwners ==
  ASSUME Owners,
         \A p : Owned(p) => StillOwned(p),
         \A s \in Settled' : s \in Settled /\ sess'[s].sandbox = sess[s].sandbox,
         \A r \in Reqs : req'[r].ptr # nil => req'[r].ptr = req[r].ptr
  PROVE  Owners'
<1>1. \A s \in Settled' : StillOwned(sess'[s].sandbox)
  BY DEF Owners
<1>2. \A r \in Reqs : req'[r].ptr # nil => StillOwned(req'[r].ptr)
  BY DEF Owners
<1>3. \A s, t \in Settled' : sess'[s].sandbox[2] = sess'[t].sandbox[2] => s = t
  BY DEF Owners
<1>4. \A r, q \in Reqs : req'[r].ptr # nil /\ req'[q].ptr # nil /\ req'[r].ptr[2] = req'[q].ptr[2]
        => r = q
  BY DEF Owners
<1>5. \A s \in Settled', r \in Reqs : req'[r].ptr # nil => req'[r].ptr[2] # sess'[s].sandbox[2]
  BY DEF Owners
<1> QED BY <1>1, <1>2, <1>3, <1>4, <1>5 DEF Owners, Owned, StillOwned

LEMMA SamePool == ASSUME UNCHANGED poolVars, NEW p, Owned(p) PROVE StillOwned(p)
BY DEF poolVars, Owned, StillOwned, OwnedIn

(* Which sessions are settled after a step that leaves them alone and      *)
(* takes no request out of an admin operation.                             *)
LEMMA SameSettled ==
  ASSUME UNCHANGED <<sessions, sess>>, \A s : BeingChanged(s) => BeingChanged(s)'
  PROVE  \A s \in Settled' : s \in Settled /\ sess'[s].sandbox = sess[s].sandbox
BY DEF Settled, Holders

(* A request that is not deleting or moving a session keeps none from      *)
(* being settled.                                                          *)
LEMMA NotChanging ==
  ASSUME NEW r \in Reqs, \A q \in Reqs : q # r => req'[q] = req[q],
         req[r].kind \notin AdminKinds \/ req[r].pc \notin {"delete", "reserve", "attach"}
  PROVE  \A s : BeingChanged(s) => BeingChanged(s)'
BY DEF BeingChanged

LEMMA AcceptOwners ==
  ASSUME ServerInv, Owners, NEW r \in Reqs, Accept(r)
  PROVE  Owners'
<1>1. /\ UNCHANGED poolVars /\ UNCHANGED <<sessions, sess>>
      /\ req[r] = NoRequest /\ req'[r].ptr = nil
      /\ \A q \in Reqs : q # r => req'[q] = req[q]
  BY AcceptInv
<1>2. \A s : BeingChanged(s) => BeingChanged(s)'
  BY <1>1, NotChanging DEF NoRequest, AdminKinds
<1>3. \A s \in Settled' : s \in Settled /\ sess'[s].sandbox = sess[s].sandbox
  BY <1>1, <1>2, SameSettled
<1> QED BY <1>1, <1>3, SamePool, FewerOwners

(* The steps that neither touch the store nor any session. *)
LEMMA ReadOwners ==
  ASSUME ServerInv, Owners, NEW r \in Reqs,
         Middleware(r) \/ AdminGet(r) \/ GuacConfig(r) \/ GuacDial(r)
  PROVE  Owners'
<1>1. UNCHANGED poolVars /\ UNCHANGED <<sessions, sess>>
  BY DEF Middleware, AdminGet, GuacConfig, GuacDial, poolVars
<1>2. /\ \A q \in Reqs : q # r => req'[q] = req[q]
      /\ req'[r].ptr # nil => req'[r].ptr = req[r].ptr
  <2>1. Handler(r) /\ ~LoginReserve(r) /\ ~AssignReserve(r)
    BY DEF Handler, Middleware, AdminGet, GuacConfig, GuacDial, LoginReserve, AssignReserve, At,
       AdminKinds
  <2> QED BY <2>1, HandlerRequest DEF NoRequest
<1>3. req[r].kind \notin AdminKinds \/ req[r].pc \notin {"delete", "reserve", "attach"}
  BY DEF Middleware, AdminGet, GuacConfig, GuacDial, At, AdminKinds
<1>4. \A s \in Settled' : s \in Settled /\ sess'[s].sandbox = sess[s].sandbox
  BY <1>1, <1>2, <1>3, NotChanging, SameSettled
<1> QED BY <1>1, <1>2, <1>4, SamePool, FewerOwners

LEMMA ReserveOwners ==
  ASSUME ServerInv, Owners, NEW r \in Reqs, LoginReserve(r)
  PROVE  Owners'
<1>1. /\ UNCHANGED <<sessions, sess>> /\ req[r].kind = "login"
      /\ PoolTypeOK /\ req \in [Reqs -> Request]
  BY DEF LoginReserve, At, ServerInv, DiscoveryInv, DiscoveryTypeOK, ServerTypeOK
<1>2. CASE Respond(r) /\ UNCHANGED poolVars
  <2>1. \A q \in Reqs : req'[q].ptr # nil => req'[q].ptr = req[q].ptr /\ req'[q] = req[q]
    BY <1>2, RespondFields DEF NoRequest, ServerInv
  <2>2. \A q \in Reqs : q # r => req'[q] = req[q]
    BY <1>2, RespondFields DEF ServerInv
  <2>3. \A s \in Settled' : s \in Settled /\ sess'[s].sandbox = sess[s].sandbox
    BY <1>1, <2>2, NotChanging, SameSettled DEF AdminKinds
  <2> QED BY <1>2, <2>1, <2>3, SamePool, FewerOwners
<1>3. ASSUME NEW q \in Ptr, ReserveFree(q),
             req' = [req EXCEPT ![r] = [@ EXCEPT !.pc = "create", !.ptr = q]]
      PROVE  Owners'
  <2>1. q \in Live /\ ~heap[q].reserved /\ SetReserved(q, TRUE)
    BY <1>3 DEF ReserveFree, getFree, IsFirst, Free
  <2>2. \A p : Owned(p) => StillOwned(p) /\ p[2] # q[2]
    <3> SUFFICES ASSUME NEW p, Owned(p) PROVE StillOwned(p) /\ p[2] # q[2]
      OBVIOUS
    <3>1. p[2] # q[2]
      BY <2>1 DEF Owned, StillOwned, OwnedIn, Live, Ptr
    <3> QED BY <1>1, <2>1, <3>1, MarkOwned
  <2>3. StillOwned(q)
    <3>1. cap' = cap /\ len' = len /\ heap'[q].reserved
      BY <1>1, <2>1, SetReservedStore
    <3>2. q = <<cap, q[2]>> /\ q[1] <= cap /\ q[2] <= len
      BY <1>1, <2>1 DEF Live, Ptr, PoolTypeOK
    <3> QED BY <3>1, <3>2 DEF Owned, StillOwned, OwnedIn
  <2>4. /\ req'[r].ptr = q
        /\ \A x \in Reqs : x # r => req'[x] = req[x]
    BY <1>1, <1>3 DEF Request
  <2>5. \A s \in Settled' : s \in Settled /\ sess'[s].sandbox = sess[s].sandbox
    BY <1>1, <2>4, NotChanging, SameSettled DEF AdminKinds
  <2>6. \A s \in Settled' : StillOwned(sess'[s].sandbox) /\ sess'[s].sandbox[2] # q[2]
    BY <2>2, <2>5 DEF Owners
  <2>7. \A x \in Reqs : req'[x].ptr # nil => StillOwned(req'[x].ptr) /\ (x # r => req'[x].ptr[2] # q[2])
    BY <2>2, <2>3, <2>4 DEF Owners
  <2>8. \A s, t \in Settled' : sess'[s].sandbox[2] = sess'[t].sandbox[2] => s = t
    BY <2>5 DEF Owners
  <2>9. \A x, y \in Reqs : req'[x].ptr # nil /\ req'[y].ptr # nil /\ req'[x].ptr[2] = req'[y].ptr[2]
          => x = y
    BY <2>4, <2>7 DEF Owners
  <2>10. \A s \in Settled', x \in Reqs : req'[x].ptr # nil => req'[x].ptr[2] # sess'[s].sandbox[2]
    BY <2>4, <2>5, <2>6 DEF Owners
  <2> QED BY <2>6, <2>7, <2>8, <2>9, <2>10 DEF Owners, Owned, StillOwned
<1> QED BY <1>2, <1>3 DEF LoginReserve

LEMMA CreateOwners ==
  ASSUME ServerInv, Owners, NEW r \in Reqs, Create(r)
  PROVE  Owners'
<1>1. /\ UNCHANGED poolVars /\ req[r].kind \in LoginKinds
      /\ sessions' = sessions \cup {issued'}
      /\ sess' = [sess EXCEPT ![issued'] = NoSession]
      /\ issued' = issued + 1 /\ issued < MaxSessions
  BY DEF Create, At, poolVars
<1>2. /\ \A q \in Reqs : q # r => req'[q] = req[q]
      /\ req'[r].ptr # nil => req'[r].ptr = req[r].ptr
  <2>1. Handler(r) /\ ~LoginReserve(r) /\ ~AssignReserve(r)
    BY DEF Handler, Create, LoginReserve, AssignReserve, At
  <2> QED BY <2>1, HandlerRequest DEF NoRequest
<1>3. \A s : BeingChanged(s) => BeingChanged(s)'
  BY <1>1, <1>2, NotChanging DEF LoginKinds, AdminKinds
<1>4. issued' \in SIDs /\ sess \in [SIDs -> Session]
  BY <1>1, ServerAssumption DEF ServerInv, ServerTypeOK, SIDs
<1>5. sess'[issued'].sandbox = nil /\ \A s \in SIDs : s # issued' => sess'[s] = sess[s]
  BY <1>1, <1>4 DEF NoSession
<1>6. \A s \in Settled' : s \in Settled /\ sess'[s].sandbox = sess[s].sandbox
  <2> SUFFICES ASSUME NEW s \in Settled'
               PROVE  s \in Settled /\ sess'[s].sandbox = sess[s].sandbox
    OBVIOUS
  <2>1. s # issued' /\ s \in sessions /\ sess'[s].sandbox # nil /\ ~BeingChanged(s)
    BY <1>1, <1>3, <1>5 DEF Settled, Holders
  <2>2. s \in SIDs
    BY <2>1 DEF ServerInv, ServerTypeOK
  <2> QED BY <1>5, <2>1, <2>2 DEF Settled, Holders
<1> QED BY <1>1, <1>2, <1>6, SamePool, FewerOwners

(* The pointer passes from the login to its session. *)
LEMMA AttachOwners ==
  ASSUME ServerInv, Owners, NEW r \in Reqs, LoginAttach(r)
  PROVE  Owners'
<1> DEFINE x == req[r].sid
<1>1. /\ UNCHANGED poolVars /\ UNCHANGED sessions /\ req[r].kind \in LoginKinds /\ Respond(r)
      /\ sess' = [sess EXCEPT ![x] = IF req[r].kind = "admin" THEN [@ EXCEPT !.admin = TRUE]
                                      ELSE [@ EXCEPT !.sandbox = req[r].ptr]]
  BY DEF LoginAttach, At, poolVars
<1>2. /\ req'[r].ptr = nil
      /\ \A q \in Reqs : q # r => req'[q] = req[q]
  BY <1>1, RespondFields DEF NoRequest, ServerInv
<1>3. \A s : BeingChanged(s) => BeingChanged(s)'
  BY <1>1, <1>2, NotChanging DEF LoginKinds, AdminKinds
<1>4. x \in SIDs /\ sess \in [SIDs -> Session] /\ sessions \subseteq SIDs
  BY DEF ServerInv, ServerTypeOK, SidsOK, Naming, LoginAttach, At
<1>5. /\ \A s \in SIDs : s # x => sess'[s] = sess[s]
      /\ sess'[x].sandbox = IF req[r].kind = "admin" THEN sess[x].sandbox ELSE req[r].ptr
  BY <1>1, <1>4 DEF Session
<1>6. \A s \in Settled' :
        \/ s \in Settled /\ sess'[s].sandbox = sess[s].sandbox
        \/ s = x /\ req[r].ptr # nil /\ sess'[s].sandbox = req[r].ptr
  <2> SUFFICES ASSUME NEW s \in Settled'
               PROVE  \/ s \in Settled /\ sess'[s].sandbox = sess[s].sandbox
                      \/ s = x /\ req[r].ptr # nil /\ sess'[s].sandbox = req[r].ptr
    OBVIOUS
  <2>1. s \in sessions /\ sess'[s].sandbox # nil /\ ~BeingChanged(s)
    BY <1>1, <1>3 DEF Settled, Holders
  <2> QED BY <1>4, <1>5, <2>1 DEF Settled, Holders
<1>7. \A p : Owned(p) => StillOwned(p)
  BY <1>1, SamePool
<1>8. \A q \in Reqs : req'[q].ptr # nil => q # r /\ req'[q].ptr = req[q].ptr
  BY <1>2
<1>9. \A s \in Settled' : StillOwned(sess'[s].sandbox)
  BY <1>6, <1>7 DEF Owners
<1>10. \A s, t \in Settled' : sess'[s].sandbox[2] = sess'[t].sandbox[2] => s = t
  BY <1>6 DEF Owners
<1>11. \A s \in Settled', q \in Reqs : req'[q].ptr # nil => req'[q].ptr[2] # sess'[s].sandbox[2]
  BY <1>6, <1>8 DEF Owners
<1>12. /\ \A q \in Reqs : req'[q].ptr # nil => StillOwned(req'[q].ptr)
       /\ \A q, y \in Reqs : req'[q].ptr # nil /\ req'[y].ptr # nil /\ req'[q].ptr[2] = req'[y].ptr[2]
            => q = y
  BY <1>7, <1>8 DEF Owners
<1> QED BY <1>9, <1>10, <1>11, <1>12 DEF Owners, Owned, StillOwned

(* The admin takes a sandbox from the session, which nobody else has. *)
LEMMA ReleaseOwners ==
  ASSUME ServerInv, OneAdmin, Owners, NEW r \in Reqs, AdminRelease(r)
  PROVE  Owners'
<1> DEFINE x == req[r].sid
           p == sess[x].sandbox
<1>1. /\ req[r].kind = "delete" /\ req[r].pc = "release" /\ x \in sessions
      /\ UNCHANGED <<sessions, sess>>
      /\ PoolTypeOK /\ sess \in [SIDs -> Session] /\ sessions \subseteq SIDs
  BY DEF AdminRelease, At, AdminKinds, OneAdmin, ServerInv, DiscoveryInv, DiscoveryTypeOK, ServerTypeOK
<1>2. CASE Respond(r) /\ UNCHANGED poolVars
  <2>1. /\ req'[r].ptr = nil
        /\ \A q \in Reqs : q # r => req'[q] = req[q]
    BY <1>2, RespondFields DEF NoRequest, ServerInv
  <2>2. \A s \in Settled' : s \in Settled /\ sess'[s].sandbox = sess[s].sandbox
    BY <1>1, <2>1, NotChanging, SameSettled
  <2> QED BY <1>2, <2>1, <2>2, SamePool, FewerOwners
<1>3. ASSUME p # nil, Release(p), Goto(r, "delete")
      PROVE  Owners'
  <2>1. p \in Ptr
    BY <1>1, <1>3 DEF Session
  <2>2. x \in Settled
    BY <1>1, <1>3 DEF OneAdmin, Settled, Holders, BeingChanged, AdminKinds
  <2>3. /\ req'[r].pc = "delete" /\ req'[r].kind = "delete" /\ req'[r].sid = x
        /\ req'[r].ptr = req[r].ptr
        /\ \A q \in Reqs : q # r => req'[q] = req[q]
    BY <1>1, <1>3, GotoFields DEF Steps, ServerInv
  <2>4. \A s \in Settled' : s \in Settled /\ sess'[s].sandbox = sess[s].sandbox /\ s # x
    <3>1. \A s : s = x => BeingChanged(s)'
      BY <2>3 DEF BeingChanged, AdminKinds
    <3>2. \A s : BeingChanged(s) => BeingChanged(s)'
      BY <1>1, <2>3, NotChanging
    <3>3. \A s \in Settled' : s \in Settled /\ sess'[s].sandbox = sess[s].sandbox
      BY <1>1, <3>2, SameSettled
    <3>4. x \notin Settled'
      BY <3>1 DEF Settled
    <3> HIDE DEF x
    <3> QED BY <3>3, <3>4
  <2>5. \A q \in Reqs : req'[q].ptr # nil => req'[q].ptr = req[q].ptr
    BY <2>3
  <2>6. ASSUME NEW o, Owned(o), o[2] # p[2] PROVE StillOwned(o)
    BY <1>1, <1>3, <2>1, <2>6, MarkOwned DEF Release
  <2>7. \A s \in Settled' : StillOwned(sess'[s].sandbox)
    BY <2>2, <2>4, <2>6 DEF Owners
  <2>8. \A q \in Reqs : req'[q].ptr # nil => StillOwned(req'[q].ptr)
    BY <2>2, <2>5, <2>6 DEF Owners
  <2>9. \A s, t \in Settled' : sess'[s].sandbox[2] = sess'[t].sandbox[2] => s = t
    BY <2>4 DEF Owners
  <2>10. \A q, y \in Reqs : req'[q].ptr # nil /\ req'[y].ptr # nil /\ req'[q].ptr[2] = req'[y].ptr[2]
           => q = y
    BY <2>5 DEF Owners
  <2>11. \A s \in Settled', q \in Reqs : req'[q].ptr # nil => req'[q].ptr[2] # sess'[s].sandbox[2]
    BY <2>4, <2>5 DEF Owners
  <2> QED BY <2>7, <2>8, <2>9, <2>10, <2>11 DEF Owners, Owned, StillOwned
<1> QED BY <1>1, <1>2, <1>3 DEF AdminRelease

LEMMA DeleteOwners ==
  ASSUME ServerInv, Owners, NEW r \in Reqs, DeleteSession(r)
  PROVE  Owners'
<1>1. /\ UNCHANGED poolVars /\ UNCHANGED sess /\ Respond(r)
      /\ sessions' = sessions \ {req[r].sid}
  BY DEF DeleteSession, poolVars
<1>2. /\ req'[r].ptr = nil
      /\ \A q \in Reqs : q # r => req'[q] = req[q]
  BY <1>1, RespondFields DEF NoRequest, ServerInv
<1>3. \A s : s # req[r].sid /\ BeingChanged(s) => BeingChanged(s)'
  BY <1>2 DEF BeingChanged
<1>4. \A s \in Settled' : s \in Settled /\ sess'[s].sandbox = sess[s].sandbox
  BY <1>1, <1>3 DEF Settled, Holders
<1> QED BY <1>1, <1>2, <1>4, SamePool, FewerOwners

LEMMA OwnersStep ==
  ASSUME OnlyGrows, ExclusiveInv, [Next]_vars
  PROVE  Owners'
<1> USE DEF ExclusiveInv
<1>1. ASSUME NEW r \in Reqs, Accept(r) PROVE Owners'
  BY <1>1, AcceptOwners
<1>2. ASSUME NEW r \in Reqs, Handler(r) PROVE Owners'
  BY <1>2, ReadOwners, ReserveOwners, CreateOwners, AttachOwners, ReleaseOwners, DeleteOwners,
     NoAssign DEF Handler
<1>3. CASE MapRace \/ LossPanic
  <2>1. sessions' = {} /\ req' = [r \in Reqs |-> NoRequest]
    BY <1>3 DEF MapRace, LossPanic, Crash
  <2>2. Settled' = {} /\ \A r \in Reqs : req'[r].ptr = nil
    BY <2>1 DEF Settled, Holders, NoRequest
  <2> QED BY <2>2 DEF Owners
<1>4. CASE Background
  <2>1. UNCHANGED <<sessions, sess, req>>
    BY <1>4 DEF Background, serverVars
  <2>2. \A s \in Settled' : s \in Settled /\ sess'[s].sandbox = sess[s].sandbox
    BY <2>1 DEF Settled, Holders, BeingChanged
  <2>3. \A p : Owned(p) => StillOwned(p)
    BY <1>4, RefreshOwned
  <2> QED BY <2>1, <2>2, <2>3, FewerOwners
<1>5. CASE UNCHANGED vars
  <2>1. UNCHANGED poolVars /\ UNCHANGED <<sessions, sess, req>>
    BY <1>5 DEF vars, poolVars
  <2>2. \A s \in Settled' : s \in Settled /\ sess'[s].sandbox = sess[s].sandbox
    BY <2>1 DEF Settled, Holders, BeingChanged
  <2> QED BY <2>1, <2>2, SamePool, FewerOwners
<1> QED BY <1>1, <1>2, <1>3, <1>4, <1>5 DEF Next

----------------------------------------------------------------------------
LEMMA ExclusiveInit == Init => ExclusiveInv
<1> SUFFICES ASSUME Init PROVE ExclusiveInv
  OBVIOUS
<1>1. /\ req = [r \in Reqs |-> NoRequest] /\ sessions = {}
      /\ lostIPs = {} /\ ipMap = [s \in Services |-> {}]
  BY DEF Init, DiscoveryInit, DiscoveryBoot
<1>2. Growth /\ OneAdmin
  BY <1>1 DEF Growth, OneAdmin, NoRequest
<1>3. Settled = {} /\ \A r \in Reqs : req[r].ptr = nil
  BY <1>1 DEF Settled, Holders, NoRequest
<1>4. Owners
  BY <1>3 DEF Owners
<1> QED BY <1>2, <1>4, InitInv DEF ExclusiveInv

LEMMA ExclusiveStep == OnlyGrows /\ ExclusiveInv /\ [Next]_vars => ExclusiveInv'
<1> SUFFICES ASSUME OnlyGrows, ExclusiveInv, [Next]_vars PROVE ExclusiveInv'
  OBVIOUS
<1>1. ServerInv' /\ Growth' /\ OneAdmin'
  BY ServerStep, GrowthStep, OneAdminStep DEF ExclusiveInv
<1>2. Owners'
  BY OwnersStep
<1> QED BY <1>1, <1>2 DEF ExclusiveInv

(* The sandbox of an owner is one slot of the store, and reserved. *)
LEMMA OwnedSlot ==
  ASSUME ServerInv, NEW p, Owned(p)
  PROVE  Matches(heap[p].ip) = {<<cap, p[2]>>} /\ heap[<<cap, p[2]>>].reserved
<1>1. PoolTypeOK /\ NoDuplicateSandbox /\ cap \in Nat /\ len \in Nat
  BY PoolAssumption DEF ServerInv, DiscoveryInv, DiscoveryTypeOK, FollowsDNS, PoolTypeOK
<1>2. <<cap, p[2]>> \in Live
  <2>1. p[2] \in 1 .. len
    BY <1>1 DEF Owned, OwnedIn, Ptr
  <2> QED BY <1>1, <2>1, LiveSlots
<1> QED BY <1>1, <1>2 DEF Owned, OwnedIn, Matches, NoDuplicateSandbox

(* A set of one slot determines the slot's index. *)
LEMMA SingletonSlot ==
  ASSUME NEW c, NEW m, NEW n, {<<c, m>>} = {<<c, n>>}
  PROVE  m = n
<1>1. <<c, m>> \in {<<c, n>>}
  OBVIOUS
<1>2. <<c, m>> = <<c, n>>
  BY <1>1
<1> QED BY <1>2

(* No two sessions are on the same sandbox: what the handlers owe the      *)
(* participants, in spite of stale pointers into arrays the store has      *)
(* left, and of logins, deletions and refreshes that overlap.              *)
THEOREM Exclusivity == ASSUME OnlyGrows PROVE Spec => []Exclusive
<1>1. ExclusiveInv => Exclusive
  <2> SUFFICES ASSUME ExclusiveInv, NEW s \in Settled, NEW t \in Settled,
                      SandboxOf(s) = SandboxOf(t)
               PROVE  s = t
    BY DEF Exclusive
  <2>1. Owned(sess[s].sandbox) /\ Owned(sess[t].sandbox)
    BY DEF ExclusiveInv, Owners
  <2>2. {<<cap, sess[s].sandbox[2]>>} = {<<cap, sess[t].sandbox[2]>>}
    BY <2>1, OwnedSlot DEF ExclusiveInv, SandboxOf
  <2>3. sess[s].sandbox[2] = sess[t].sandbox[2]
    BY <2>2, SingletonSlot
  <2> QED BY <2>3 DEF ExclusiveInv, Owners
<1> QED BY <1>1, ExclusiveInit, ExclusiveStep, PTL DEF Spec

(* What a session or a login in progress has, the store counts as reserved. *)
THEOREM Reservation == ASSUME OnlyGrows PROVE Spec => []AttachedIsReserved
<1>1. ExclusiveInv => AttachedIsReserved
  <2> SUFFICES ASSUME ExclusiveInv PROVE AttachedIsReserved
    OBVIOUS
  <2>1. ASSUME NEW s \in Settled PROVE \A q \in Matches(SandboxOf(s)) : heap[q].reserved
    <3>1. ServerInv /\ Owned(sess[s].sandbox)
      BY <2>1 DEF ExclusiveInv, Owners
    <3>2. /\ Matches(SandboxOf(s)) = {<<cap, sess[s].sandbox[2]>>}
          /\ heap[<<cap, sess[s].sandbox[2]>>].reserved
      BY <3>1, OwnedSlot DEF SandboxOf
    <3> QED BY <3>2
  <2>2. ASSUME NEW r \in Reqs, req[r].ptr # nil
        PROVE  \A q \in Matches(heap[req[r].ptr].ip) : heap[q].reserved
    <3>1. ServerInv /\ Owned(req[r].ptr)
      BY <2>2 DEF ExclusiveInv, Owners
    <3>2. /\ Matches(heap[req[r].ptr].ip) = {<<cap, req[r].ptr[2]>>}
          /\ heap[<<cap, req[r].ptr[2]>>].reserved
      BY <3>1, OwnedSlot
    <3> QED BY <3>2
  <2> QED BY <2>1, <2>2 DEF AttachedIsReserved
<1> QED BY <1>1, ExclusiveInit, ExclusiveStep, PTL DEF Spec

=============================================================================
