-------------------------- MODULE AllocationProofs --------------------------
(***************************************************************************)
(* In the deployment of ExclusivityProofs the control server implements    *)
(* SandboxAllocation: to the participants, its logins, deletions and       *)
(* refreshes are that specification's steps, or nothing.                   *)
(*                                                                         *)
(* The invariant of ExclusivityProofs says that what a login has reserved  *)
(* nobody else has; what is added here is that a session gets its sandbox  *)
(* once: the one a login is about to give it to has none, and the one an   *)
(* admin is about to delete has.                                           *)
(***************************************************************************)
EXTENDS ExclusivityProofs

Attaching(r) == req[r].kind \in LoginKinds /\ req[r].pc = "attach"

Once ==
  /\ \A s \in sessions : s <= issued
  /\ \A r \in Reqs : Attaching(r) =>
       req[r].sid \in sessions /\ sess[req[r].sid].sandbox = nil
  /\ \A r, q \in Reqs : Attaching(r) /\ Attaching(q) /\ req[r].sid = req[q].sid => r = q
  /\ \A s : BeingChanged(s) => s \in Holders
  /\ \A r \in Reqs : req[r].kind \in AdminKinds => req[r].pc \notin {"reserve", "attach"}

AllocationInv == ExclusiveInv /\ Once

----------------------------------------------------------------------------
(* Steps that change a session's sandbox for nobody. *)

LEMMA SameHolding ==
  ASSUME UNCHANGED <<issued, sessions>>, sessions \subseteq SIDs,
         \A s \in SIDs : sess'[s].sandbox = sess[s].sandbox,
         \A s \in Settled : heap'[sess[s].sandbox].ip = heap[sess[s].sandbox].ip,
         \A s : BeingChanged(s)' <=> BeingChanged(s)
  PROVE  Fresh' = Fresh /\ Holding' = Holding
<1>1. Holders' = Holders
  BY DEF Holders
<1>2. Settled' = Settled
  BY <1>1 DEF Settled
<1>3. \A s \in Settled : SandboxOf(s)' = SandboxOf(s)
  BY DEF SandboxOf, Settled, Holders
<1>4. Fresh' = Fresh
  BY <1>1 DEF Fresh
<1>5. Holding' = Holding
  BY <1>2, <1>3 DEF Holding
<1> QED BY <1>4, <1>5

(* A request that is in no admin operation's last steps, before and after. *)
Harmless(m) == m.kind \notin AdminKinds \/ m.pc \notin {"delete", "reserve", "attach"}

LEMMA SameChanging ==
  ASSUME NEW r \in Reqs, \A q \in Reqs : q # r => req'[q] = req[q],
         Harmless(req[r]), Harmless(req'[r])
  PROVE  \A s : BeingChanged(s)' <=> BeingChanged(s)
BY DEF BeingChanged, Harmless

LEMMA NoRequestHarmless == Harmless(NoRequest)
BY DEF Harmless, NoRequest, AdminKinds

LEMMA AcceptHolding ==
  ASSUME AllocationInv, NEW r \in Reqs, Accept(r)
  PROVE  StoreIPs' = StoreIPs /\ Fresh' = Fresh /\ Holding' = Holding /\ Once'
<1> USE DEF AllocationInv, ExclusiveInv
<1>1. /\ UNCHANGED poolVars /\ UNCHANGED <<issued, sessions, sess>>
      /\ req[r] = NoRequest /\ req'[r].pc = "middleware"
      /\ \A q \in Reqs : q # r => req'[q] = req[q]
  BY AcceptInv
<1>2. \A s : BeingChanged(s)' <=> BeingChanged(s)
  BY <1>1, SameChanging, NoRequestHarmless DEF Harmless
<1>3. Fresh' = Fresh /\ Holding' = Holding
  BY <1>1, <1>2, SameHolding DEF poolVars, ServerInv, ServerTypeOK
<1>4. Holders' = Holders /\ \A q \in Reqs : Attaching(q)' => q # r /\ Attaching(q)
  BY <1>1 DEF Holders, Attaching
<1>5. Once'
  BY <1>1, <1>2, <1>4 DEF Once
<1> QED BY <1>1, <1>3, <1>5 DEF poolVars, StoreIPs, Live

LEMMA ReadHolding ==
  ASSUME AllocationInv, NEW r \in Reqs,
         Middleware(r) \/ AdminGet(r) \/ GuacConfig(r) \/ GuacDial(r)
  PROVE  StoreIPs' = StoreIPs /\ Fresh' = Fresh /\ Holding' = Holding /\ Once'
<1> USE DEF AllocationInv, ExclusiveInv
<1>1. UNCHANGED poolVars /\ UNCHANGED <<issued, sessions, sess>>
  BY DEF Middleware, AdminGet, GuacConfig, GuacDial, poolVars
<1>2. /\ \A q \in Reqs : q # r => req'[q] = req[q]
      /\ \/ req'[r] = NoRequest
         \/ req'[r].kind = req[r].kind
    BY HandlerRequest DEF Handler
<1>3. Harmless(req[r]) /\ ~Attaching(r)
  BY DEF Middleware, AdminGet, GuacConfig, GuacDial, At, AdminKinds, LoginKinds, Harmless, Attaching
<1>4. req'[r] = NoRequest \/ req'[r].pc \notin {"delete", "reserve", "attach"}
  <2>1. req[r] \in Request /\ req \in [Reqs -> Request]
    BY DEF ServerInv, ServerTypeOK
  <2>2. CASE Middleware(r) \/ AdminGet(r)
    BY <2>2, GotoFields, RespondFields DEF Middleware, AdminGet, Steps, ServerInv
  <2>3. CASE GuacDial(r)
    BY <2>3, RespondFields DEF GuacDial, ServerInv
  <2>4. CASE GuacConfig(r)
    <3>1. Respond(r) \/ \E ip : req' = [req EXCEPT ![r] = [@ EXCEPT !.pc = "dial", !.ip = ip]]
      BY <2>4 DEF GuacConfig
    <3>2. ASSUME NEW ip, req' = [req EXCEPT ![r] = [@ EXCEPT !.pc = "dial", !.ip = ip]]
          PROVE  req'[r].pc = "dial"
      BY <2>1, <3>2 DEF Request
    <3> QED BY <3>1, <3>2, RespondFields DEF ServerInv
  <2> QED BY <2>2, <2>3, <2>4
<1>5. \A s : BeingChanged(s)' <=> BeingChanged(s)
  BY <1>2, <1>3, <1>4, SameChanging, NoRequestHarmless DEF Harmless
<1>6. Fresh' = Fresh /\ Holding' = Holding
  BY <1>1, <1>5, SameHolding DEF poolVars, ServerInv, ServerTypeOK
<1>7. /\ Holders' = Holders /\ \A q \in Reqs : Attaching(q)' => q # r /\ Attaching(q)
      /\ req'[r].kind \in AdminKinds => req'[r].pc \notin {"reserve", "attach"}
  BY <1>1, <1>2, <1>4 DEF Holders, Attaching, NoRequest, LoginKinds, AdminKinds
<1>8. Once'
  BY <1>1, <1>2, <1>5, <1>7 DEF Once
<1> QED BY <1>1, <1>6, <1>8 DEF poolVars, StoreIPs, Live

(* Marking a slot changes no address. *)
LEMMA MarkedAddresses ==
  ASSUME PoolTypeOK, NEW q \in Ptr, NEW b \in BOOLEAN, SetReserved(q, b)
  PROVE  StoreIPs' = StoreIPs /\ \A p \in Ptr : heap'[p].ip = heap[p].ip
BY SetReservedStore

LEMMA SettledPtr ==
  ASSUME ServerInv, NEW s \in Settled
  PROVE  s \in SIDs /\ s \in sessions /\ sess[s].sandbox \in Ptr
BY DEF ServerInv, ServerTypeOK, Settled, Holders, Session

LEMMA ReserveHolding ==
  ASSUME AllocationInv, NEW r \in Reqs, LoginReserve(r)
  PROVE  StoreIPs' = StoreIPs /\ Fresh' = Fresh /\ Holding' = Holding /\ Once'
<1> USE DEF AllocationInv, ExclusiveInv
<1>1. /\ UNCHANGED <<issued, sessions, sess>> /\ req[r].kind = "login" /\ ~Attaching(r)
      /\ PoolTypeOK /\ req \in [Reqs -> Request] /\ req[r] \in Request
  BY DEF LoginReserve, At, Attaching, ServerInv, DiscoveryInv, DiscoveryTypeOK, ServerTypeOK
<1>2. /\ StoreIPs' = StoreIPs
      /\ \A p \in Ptr : heap'[p].ip = heap[p].ip
  <2>1. ASSUME UNCHANGED poolVars PROVE <1>2!1 /\ <1>2!2
    BY <2>1 DEF poolVars, StoreIPs, Live
  <2>2. ASSUME NEW q \in Ptr, ReserveFree(q) PROVE <1>2!1 /\ <1>2!2
    BY <1>1, <2>2, MarkedAddresses DEF ReserveFree
  <2> QED BY <2>1, <2>2 DEF LoginReserve
<1>3. /\ \A q \in Reqs : q # r => req'[q] = req[q]
      /\ req'[r] = NoRequest \/ (req'[r].kind = "login" /\ req'[r].pc = "create")
  <2>1. CASE Respond(r)
    BY <2>1, RespondFields DEF ServerInv
  <2>2. ASSUME NEW q \in Ptr, req' = [req EXCEPT ![r] = [@ EXCEPT !.pc = "create", !.ptr = q]]
        PROVE  <1>3!1 /\ <1>3!2
    BY <1>1, <2>2 DEF Request
  <2> QED BY <2>1, <2>2 DEF LoginReserve
<1>4. \A s : BeingChanged(s)' <=> BeingChanged(s)
  BY <1>1, <1>3, SameChanging, NoRequestHarmless DEF Harmless, AdminKinds
<1>5. Fresh' = Fresh /\ Holding' = Holding
  BY <1>1, <1>2, <1>4, SameHolding, SettledPtr DEF ServerInv, ServerTypeOK
<1>6. /\ Holders' = Holders /\ \A q \in Reqs : Attaching(q)' => q # r /\ Attaching(q)
      /\ req'[r].kind \notin AdminKinds
  BY <1>1, <1>3 DEF Holders, Attaching, NoRequest, LoginKinds, AdminKinds
<1>7. Once'
  BY <1>1, <1>3, <1>4, <1>6 DEF Once
<1> QED BY <1>2, <1>5, <1>7

(* A session that is created has no sandbox, as it had none before. *)
LEMMA CreateHolding ==
  ASSUME AllocationInv, NEW r \in Reqs, Create(r)
  PROVE  StoreIPs' = StoreIPs /\ Fresh' = Fresh /\ Holding' = Holding /\ Once'
<1> USE DEF AllocationInv, ExclusiveInv
<1>1. /\ UNCHANGED poolVars /\ req[r].kind \in LoginKinds /\ req[r].pc = "create"
      /\ issued' = issued + 1 /\ sessions' = sessions \cup {issued'}
      /\ sess' = [sess EXCEPT ![issued'] = NoSession]
      /\ req' = [req EXCEPT ![r] = [@ EXCEPT !.pc = "attach", !.sid = issued']]
      /\ issued < MaxSessions
  BY DEF Create, At, poolVars
<1>2. /\ issued \in Nat /\ issued' \in SIDs /\ sess \in [SIDs -> Session] /\ sessions \subseteq SIDs
      /\ req \in [Reqs -> Request] /\ req[r] \in Request
  BY <1>1, ServerAssumption DEF ServerInv, ServerTypeOK, SIDs
<1>3. /\ \A q \in Reqs : q # r => req'[q] = req[q]
      /\ req'[r].kind = req[r].kind /\ req'[r].pc = "attach" /\ req'[r].sid = issued'
  BY <1>1, <1>2 DEF Request
<1>4. \A s : BeingChanged(s)' <=> BeingChanged(s)
  BY <1>1, <1>3, SameChanging DEF Harmless, LoginKinds, AdminKinds
<1>5. /\ issued' \notin sessions
      /\ sess'[issued'].sandbox = nil
      /\ \A s \in SIDs : s # issued' => sess'[s] = sess[s]
  BY <1>1, <1>2 DEF Once, NoSession
<1>6. Holders' = Holders
  BY <1>1, <1>2, <1>5 DEF Holders
<1>7. Fresh' = Fresh
  <2>1. \A s \in SIDs : issued' < s \/ s = issued' <=> issued < s
    BY <1>1, <1>2 DEF SIDs
  <2>2. issued' \notin Holders
    BY <1>5 DEF Holders
  <2> QED BY <1>1, <1>6, <2>1, <2>2 DEF Fresh
<1>8. Holding' = Holding
  <2>1. Settled' = Settled /\ issued' \notin Settled
    BY <1>4, <1>5, <1>6 DEF Settled, Holders
  <2>2. \A s \in Settled : SandboxOf(s)' = SandboxOf(s)
    BY <1>1, <1>2, <1>5, <2>1 DEF SandboxOf, Settled, Holders, poolVars
  <2> QED BY <2>1, <2>2 DEF Holding
<1>9. Once'
  <2>1. \A s \in sessions' : s <= issued'
    BY <1>1, <1>2 DEF Once, SIDs
  <2>2. \A q \in Reqs : Attaching(q)' =>
          \/ q = r /\ req'[q].sid = issued'
          \/ q # r /\ Attaching(q) /\ req'[q].sid = req[q].sid /\ req[q].sid \in sessions
    BY <1>3 DEF Attaching, Once
  <2>3. \A q \in Reqs : Attaching(q)' =>
          req'[q].sid \in sessions' /\ sess'[req'[q].sid].sandbox = nil
    BY <1>1, <1>2, <1>5, <2>2 DEF Once
  <2>4. \A p, q \in Reqs : Attaching(p)' /\ Attaching(q)' /\ req'[p].sid = req'[q].sid => p = q
    BY <1>5, <2>2 DEF Once
  <2>5. \A q \in Reqs : req'[q].kind \in AdminKinds => req'[q].pc \notin {"reserve", "attach"}
    BY <1>1, <1>3 DEF Once, LoginKinds, AdminKinds
  <2> QED BY <1>4, <1>6, <2>1, <2>3, <2>4, <2>5 DEF Once
<1> QED BY <1>1, <1>7, <1>8, <1>9 DEF poolVars, StoreIPs, Live

----------------------------------------------------------------------------
(* Steps that give a session its sandbox, or take it away. *)

(* The sandbox of an owner is in the store, and not the address of a slot  *)
(* that was never written.                                                 *)
LEMMA OwnedAddress ==
  ASSUME ServerInv, NEW p, Owned(p)
  PROVE  heap[p].ip \in StoreIPs /\ heap[p].ip \in V4 /\ heap[p].ip # NoIP
<1>1. Matches(heap[p].ip) # {}
  BY OwnedSlot
<1>2. heap[p].ip \in StoreIPs
  BY <1>1 DEF Matches, StoreIPs
<1>3. StoreIPs \subseteq V4
  <2>1. ipMap["sandbox"] \subseteq V4 /\ lostIPs \subseteq V4
    BY DEF ServerInv, DiscoveryInv, DiscoveryTypeOK, Services
  <2> QED BY <2>1 DEF ServerInv, DiscoveryInv, FollowsDNS, Announced
<1> QED BY <1>2, <1>3, PoolAssumption

(* Two owners at different positions have different sandboxes. *)
LEMMA OwnedApart ==
  ASSUME ServerInv, NEW p, NEW q, Owned(p), Owned(q), heap[p].ip = heap[q].ip
  PROVE  p[2] = q[2]
<1>1. {<<cap, p[2]>>} = {<<cap, q[2]>>}
  BY OwnedSlot
<1> QED BY <1>1, SingletonSlot

LEMMA AttachHolding ==
  ASSUME AllocationInv, NEW r \in Reqs, LoginAttach(r)
  PROVE  /\ StoreIPs' = StoreIPs /\ Once'
         /\ \/ Fresh' = Fresh /\ Holding' = Holding
            \/ \E s \in SIDs, b \in V4 : Allocation!Login(s, b)
<1> USE DEF AllocationInv, ExclusiveInv
<1> DEFINE x == req[r].sid
<1>1. /\ UNCHANGED poolVars /\ UNCHANGED <<issued, sessions>> /\ Attaching(r) /\ Respond(r)
      /\ sess' = [sess EXCEPT ![x] = IF req[r].kind = "admin" THEN [@ EXCEPT !.admin = TRUE]
                                      ELSE [@ EXCEPT !.sandbox = req[r].ptr]]
  BY DEF LoginAttach, At, Attaching, poolVars
<1>2. /\ x \in SIDs /\ sess \in [SIDs -> Session] /\ sessions \subseteq SIDs
      /\ issued \in Nat
      /\ x \in sessions /\ sess[x].sandbox = nil
  BY <1>1 DEF ServerInv, ServerTypeOK, Once
<1>3. /\ req'[r] = NoRequest
      /\ \A q \in Reqs : q # r => req'[q] = req[q]
  BY <1>1, RespondFields DEF ServerInv
<1>4. \A s : BeingChanged(s)' <=> BeingChanged(s)
  BY <1>1, <1>3, SameChanging, NoRequestHarmless DEF Harmless, Attaching, LoginKinds, AdminKinds
<1>5. /\ \A s \in SIDs : s # x => sess'[s] = sess[s]
      /\ sess'[x].sandbox = IF req[r].kind = "admin" THEN nil ELSE req[r].ptr
  BY <1>1, <1>2 DEF Session
<1>6. x \notin Holders /\ ~BeingChanged(x)
  BY <1>2 DEF Holders, Once
<1>7. StoreIPs' = StoreIPs
  BY <1>1 DEF poolVars, StoreIPs, Live
<1>8. Once'
  <2>1. \A q \in Reqs : Attaching(q)' => q # r /\ Attaching(q) /\ req'[q] = req[q] /\ req[q].sid # x
    BY <1>1, <1>3 DEF Attaching, NoRequest, LoginKinds, Once
  <2>2. Holders \subseteq Holders'
    BY <1>1, <1>2, <1>5, <1>6 DEF Holders
  <2>3. /\ \A q \in Reqs : Attaching(q)' => req'[q].sid \in sessions' /\ sess'[req'[q].sid].sandbox = nil
        /\ \A p, q \in Reqs : Attaching(p)' /\ Attaching(q)' /\ req'[p].sid = req'[q].sid => p = q
    BY <1>1, <1>2, <1>5, <2>1 DEF Once
  <2>4. \A s \in sessions' : s <= issued'
    BY <1>1 DEF Once
  <2>5. \A q \in Reqs : req'[q].kind \in AdminKinds => req'[q].pc \notin {"reserve", "attach"}
    BY <1>3 DEF Once, NoRequest, AdminKinds
  <2>6. \A s : BeingChanged(s)' => s \in Holders'
    BY <1>4, <2>2 DEF Once
  <2> QED BY <2>3, <2>4, <2>5, <2>6 DEF Once
<1>9. CASE sess'[x].sandbox = nil
  <2>1. \A s \in SIDs : sess'[s].sandbox = sess[s].sandbox
    BY <1>2, <1>5, <1>9
  <2>2. \A s \in Settled : heap'[sess[s].sandbox].ip = heap[sess[s].sandbox].ip
    BY <1>1 DEF poolVars
  <2>3. Fresh' = Fresh /\ Holding' = Holding
    BY <1>1, <1>2, <1>4, <2>1, <2>2, SameHolding
  <2> QED BY <1>7, <1>8, <2>3
<1>10. CASE sess'[x].sandbox # nil
  <2> DEFINE b == heap[req[r].ptr].ip
  <2>1. sess'[x].sandbox = req[r].ptr /\ req[r].ptr # nil /\ Owned(req[r].ptr)
    BY <1>5, <1>10 DEF Owners
  <2>2. b \in StoreIPs /\ b \in V4
    BY <2>1, OwnedAddress
  <2>3. Holders' = Holders \cup {x}
    BY <1>1, <1>2, <1>5, <1>10 DEF Holders
  <2>4. Settled' = Settled \cup {x}
    BY <1>4, <1>6, <2>3 DEF Settled
  <2>5. x \in Fresh /\ Fresh' = Fresh \ {x}
    <3>1. ~(issued < x)
      BY <1>2 DEF Once, SIDs
    <3>2. sessions' \ Holders' = (sessions \ Holders) \ {x}
      BY <1>1, <2>3
    <3> QED BY <1>1, <1>2, <1>6, <3>1, <3>2 DEF Fresh
  <2>6. Holding' = [Holding EXCEPT ![x] = b]
    <3>1. \A s \in Settled : s # x /\ SandboxOf(s)' = SandboxOf(s)
      BY <1>1, <1>5, <1>6, SettledPtr DEF SandboxOf, poolVars, Settled
    <3>2. heap'[sess'[x].sandbox].ip = b
      BY <1>1, <2>1 DEF poolVars
    <3> QED BY <1>2, <2>4, <3>1, <3>2 DEF Holding, SandboxOf
  <2>7. ASSUME NEW t \in SIDs PROVE Holding[t] # b
    <3>1. CASE t \notin Settled
      BY <2>1, <3>1, OwnedAddress DEF Holding
    <3>2. CASE t \in Settled
      <4>1. Owned(sess[t].sandbox) /\ req[r].ptr[2] # sess[t].sandbox[2]
        BY <2>1, <3>2 DEF Owners
      <4> QED BY <2>1, <3>2, <4>1, OwnedApart DEF Holding, SandboxOf
    <3> QED BY <3>1, <3>2
  <2>8. Allocation!Login(x, b)
    BY <1>7, <2>2, <2>5, <2>6, <2>7 DEF Allocation!Login
  <2> QED BY <1>2, <1>7, <1>8, <2>2, <2>8
<1> QED BY <1>9, <1>10

LEMMA ReleaseHolding ==
  ASSUME AllocationInv, NEW r \in Reqs, AdminRelease(r)
  PROVE  /\ StoreIPs' = StoreIPs /\ Once'
         /\ \/ Fresh' = Fresh /\ Holding' = Holding
            \/ \E s \in SIDs : Allocation!Logout(s)
<1> USE DEF AllocationInv, ExclusiveInv
<1> DEFINE x == req[r].sid
           p == sess[x].sandbox
<1>1. /\ req[r].kind = "delete" /\ req[r].pc = "release" /\ x \in sessions
      /\ UNCHANGED <<issued, sessions, sess>>
      /\ PoolTypeOK /\ sess \in [SIDs -> Session] /\ sessions \subseteq SIDs
  BY DEF AdminRelease, At, AdminKinds, OneAdmin, ServerInv, DiscoveryInv, DiscoveryTypeOK, ServerTypeOK
<1>2. Holders' = Holders /\ Harmless(req[r]) /\ ~Attaching(r)
  BY <1>1 DEF Holders, Harmless, Attaching, LoginKinds
<1>3. CASE Respond(r) /\ UNCHANGED poolVars
  <2>1. /\ req'[r] = NoRequest
        /\ \A q \in Reqs : q # r => req'[q] = req[q]
    BY <1>3, RespondFields DEF ServerInv
  <2>2. \A s : BeingChanged(s)' <=> BeingChanged(s)
    BY <1>2, <2>1, SameChanging, NoRequestHarmless
  <2>3. Fresh' = Fresh /\ Holding' = Holding
    BY <1>1, <1>3, <2>2, SameHolding DEF poolVars
  <2>4. \A q \in Reqs : Attaching(q)' => q # r /\ Attaching(q)
    BY <2>1 DEF Attaching, NoRequest, LoginKinds
  <2>5. Once'
    BY <1>1, <1>2, <2>1, <2>2, <2>4 DEF Once, NoRequest, AdminKinds
  <2> QED BY <1>3, <2>3, <2>5 DEF poolVars, StoreIPs, Live
<1>4. ASSUME p # nil, Release(p), Goto(r, "delete")
      PROVE  /\ StoreIPs' = StoreIPs /\ Once'
             /\ \E s \in SIDs : Allocation!Logout(s)
  <2>1. x \in Settled
    BY <1>1, <1>4 DEF OneAdmin, Settled, Holders, BeingChanged, AdminKinds
  <2>2. p \in Ptr /\ x \in SIDs
    BY <2>1, SettledPtr
  <2>3. /\ req'[r].pc = "delete" /\ req'[r].kind = "delete" /\ req'[r].sid = x
        /\ \A q \in Reqs : q # r => req'[q] = req[q]
    BY <1>1, <1>4, GotoFields DEF Steps, ServerInv
  <2>4. \A s : BeingChanged(s)' <=> BeingChanged(s) \/ s = x
    BY <1>2, <2>3 DEF BeingChanged, AdminKinds, Harmless
  <2>5. StoreIPs' = StoreIPs /\ \A q \in Ptr : heap'[q].ip = heap[q].ip
    BY <1>1, <1>4, <2>2, MarkedAddresses DEF Release
  <2>6. Settled' = Settled \ {x}
    BY <1>2, <2>4 DEF Settled
  <2>7. \A s \in Settled : SandboxOf(s)' = SandboxOf(s)
    BY <1>1, <2>5, SettledPtr DEF SandboxOf
  <2>8. Holding' = [Holding EXCEPT ![x] = NoIP]
    BY <2>2, <2>6, <2>7 DEF Holding
  <2>9. Fresh' = Fresh
    BY <1>1, <1>2 DEF Fresh
  <2>10. Holding[x] # NoIP
    <3>1. Owned(p)
      BY <2>1 DEF Owners
    <3> QED BY <2>1, <2>2, <3>1, OwnedAddress DEF Holding, SandboxOf
  <2>11. Allocation!Logout(x)
    BY <2>5, <2>8, <2>9, <2>10 DEF Allocation!Logout
  <2>12. \A q \in Reqs : Attaching(q)' => q # r /\ Attaching(q)
    BY <2>3 DEF Attaching, LoginKinds
  <2>13. x \in Holders
    BY <2>1 DEF Settled
  <2>14. Once'
    BY <1>1, <1>2, <2>3, <2>4, <2>12, <2>13 DEF Once
  <2> QED BY <2>2, <2>5, <2>11, <2>14
<1> QED BY <1>1, <1>3, <1>4 DEF AdminRelease

(* By the time its session is deleted, the sandbox has been given back. *)
LEMMA DeleteHolding ==
  ASSUME AllocationInv, NEW r \in Reqs, DeleteSession(r)
  PROVE  StoreIPs' = StoreIPs /\ Fresh' = Fresh /\ Holding' = Holding /\ Once'
<1> USE DEF AllocationInv, ExclusiveInv
<1> DEFINE x == req[r].sid
<1>1. /\ UNCHANGED poolVars /\ UNCHANGED <<issued, sess>> /\ Respond(r)
      /\ sessions' = sessions \ {x}
      /\ req[r].kind = "delete" /\ req[r].pc = "delete"
  BY DEF DeleteSession, At, poolVars
<1>2. /\ req'[r] = NoRequest
      /\ \A q \in Reqs : q # r => req'[q] = req[q]
  BY <1>1, RespondFields DEF ServerInv
<1>3. BeingChanged(x) /\ x \in Holders /\ x \notin Settled
  BY <1>1 DEF BeingChanged, AdminKinds, Once, Settled
<1>4. \A s : BeingChanged(s)' => BeingChanged(s) /\ s # x
  <2>1. \A q \in Reqs : req'[q].kind \in AdminKinds => q # r /\ req[q].kind = "delete" /\ req'[q] = req[q]
    BY <1>2 DEF OneAdmin, NoRequest, AdminKinds
  <2>2. \A q \in Reqs : req'[q].kind \notin AdminKinds
    BY <1>1, <2>1 DEF OneAdmin
  <2> QED BY <2>2 DEF BeingChanged
<1>5. Holders' = Holders \ {x}
  BY <1>1 DEF Holders
<1>6. Settled' = Settled
  <2>1. \A s \in Settled' : s \in Settled
    BY <1>1, <1>2, <1>3, <1>5 DEF Settled, BeingChanged, NoRequest, AdminKinds
  <2>2. \A s \in Settled : s \in Settled'
    BY <1>3, <1>4, <1>5 DEF Settled
  <2> QED BY <2>1, <2>2
<1>7. Holding' = Holding
  BY <1>1, <1>6 DEF Holding, SandboxOf, poolVars
<1>8. Fresh' = Fresh
  BY <1>1, <1>3, <1>5 DEF Fresh
<1>9. \A q \in Reqs : Attaching(q)' => q # r /\ Attaching(q) /\ req[q].sid # x
  BY <1>1, <1>2, <1>3 DEF Attaching, NoRequest, LoginKinds, Once, Holders
<1>10. Once'
  BY <1>1, <1>2, <1>4, <1>5, <1>9 DEF Once, NoRequest, AdminKinds
<1> QED BY <1>1, <1>7, <1>8, <1>10 DEF poolVars, StoreIPs, Live

----------------------------------------------------------------------------
(* The refinement. *)

(* A refresh adds a sandbox, or changes nothing a participant sees. *)
LEMMA BackgroundHolding ==
  ASSUME AllocationInv, Background
  PROVE  /\ Fresh' = Fresh /\ Holding' = Holding /\ Once'
         /\ \/ StoreIPs' = StoreIPs
            \/ \E b \in V4 : StoreIPs' = StoreIPs \cup {b}
<1> USE DEF AllocationInv, ExclusiveInv
<1>1. UNCHANGED <<issued, sessions, sess, req>>
  BY DEF Background, serverVars
<1>2. \A s : BeingChanged(s)' <=> BeingChanged(s)
  BY <1>1 DEF BeingChanged
<1>3. \A s \in Settled : heap'[sess[s].sandbox].ip = heap[sess[s].sandbox].ip
  BY RefreshOwned DEF Owners
<1>4. sessions \subseteq SIDs
  BY DEF ServerInv, ServerTypeOK
<1>5. Fresh' = Fresh /\ Holding' = Holding
  BY <1>1, <1>2, <1>3, <1>4, SameHolding
<1>6. Once'
  BY <1>1, <1>2 DEF Once, Attaching, Holders
<1>7. \/ StoreIPs' = StoreIPs
      \/ \E b \in V4 : StoreIPs' = StoreIPs \cup {b}
  <2>1. CASE DiscoveryRestart \/ Environment
    BY <2>1, OutsideInv DEF ServerInv
  <2>2. CASE (\E s \in Services : LookupError(s) \/ LookupOK(s)) \/ RefreshLock \/ RefreshUnlock
    BY <2>2 DEF LookupError, LookupOK, RefreshLock, RefreshUnlock, StoreIPs, Live
  <2>3. ASSUME NEW b \in V4, OnDiscover(b) PROVE <1>7
    <3>1. CASE UNCHANGED poolVars
      BY <3>1 DEF poolVars, StoreIPs, Live
    <3>2. CASE Add(b)
      BY <3>2, AddStore DEF ServerInv, DiscoveryInv, DiscoveryTypeOK
    <3> QED BY <2>3, <3>1, <3>2 DEF OnDiscover
  <2>4. ASSUME NEW b \in V4, OnLost(b) PROVE FALSE
    BY <2>4 DEF OnLost, Growth
  <2> QED BY <2>1, <2>2, <2>3, <2>4 DEF Background, Refresh
<1> QED BY <1>5, <1>6, <1>7

LEMMA CrashHolding ==
  ASSUME AllocationInv, Crash
  PROVE  Allocation!Crash /\ Once'
<1>1. /\ sessions' = {} /\ issued' = issued /\ req' = [r \in Reqs |-> NoRequest]
      /\ cap' = 0 /\ len' = 0
  BY DEF Crash, DiscoveryCrash, PoolReset
<1>2. StoreIPs' = {}
  BY <1>1, PoolAssumption DEF StoreIPs, Live, Ptr
<1>3. Settled' = {}
  BY <1>1 DEF Settled, Holders
<1>4. Holding' = [s \in SIDs |-> NoIP]
  BY <1>3 DEF Holding
<1>5. Fresh' \subseteq Fresh
  BY <1>1 DEF Fresh
<1>6. \A r \in Reqs : req'[r] = NoRequest /\ NoRequest.kind = "none"
  BY <1>1 DEF NoRequest
<1>7. Once'
  BY <1>1, <1>6 DEF Once, Attaching, BeingChanged, LoginKinds, AdminKinds
<1> QED BY <1>2, <1>4, <1>5, <1>7 DEF Allocation!Crash

LEMMA StepAllocates ==
  ASSUME OnlyGrows, AllocationInv, [Next]_vars
  PROVE  [Allocation!Next]_Allocation!allocationVars /\ Once'
<1> USE DEF Allocation!allocationVars
<1>1. ASSUME NEW r \in Reqs, Accept(r) PROVE UNCHANGED <<StoreIPs, Fresh, Holding>> /\ Once'
  BY <1>1, AcceptHolding
<1>2. ASSUME NEW r \in Reqs, Handler(r)
      PROVE  [Allocation!Next]_Allocation!allocationVars /\ Once'
  <2>1. CASE Middleware(r) \/ AdminGet(r) \/ GuacConfig(r) \/ GuacDial(r)
    BY <2>1, ReadHolding
  <2>2. CASE LoginReserve(r) \/ Create(r) \/ DeleteSession(r)
    BY <2>2, ReserveHolding, CreateHolding, DeleteHolding
  <2>3. CASE LoginAttach(r)
    BY <2>3, AttachHolding DEF Allocation!Next
  <2>4. CASE AdminRelease(r)
    BY <2>4, ReleaseHolding DEF Allocation!Next
  <2>5. ~AssignReserve(r) /\ ~AssignAttach(r)
    BY NoAssign DEF AllocationInv, ExclusiveInv
  <2> QED BY <1>2, <2>1, <2>2, <2>3, <2>4, <2>5 DEF Handler
<1>3. CASE MapRace \/ LossPanic
  BY <1>3, CrashHolding DEF MapRace, LossPanic, Allocation!Next
<1>4. CASE Background
  <2>1. /\ Fresh' = Fresh /\ Holding' = Holding /\ Once'
        /\ \/ StoreIPs' = StoreIPs
           \/ \E b \in V4 : StoreIPs' = StoreIPs \cup {b}
    BY <1>4, BackgroundHolding
  <2> QED BY <2>1 DEF Allocation!Next, Allocation!Register
<1>5. CASE UNCHANGED vars
  <2>1. UNCHANGED <<heap, cap, len, issued, sessions, sess, req>>
    BY <1>5 DEF vars
  <2>2. StoreIPs' = StoreIPs
    BY <2>1 DEF StoreIPs, Live
  <2>3. Holders' = Holders /\ \A s : BeingChanged(s)' <=> BeingChanged(s)
    BY <2>1 DEF Holders, BeingChanged
  <2>4. Fresh' = Fresh /\ Holding' = Holding
    BY <2>1, <2>3 DEF Fresh, Holding, Settled, SandboxOf
  <2>5. Once'
    BY <2>1, <2>3 DEF AllocationInv, Once, Attaching
  <2> QED BY <2>2, <2>4, <2>5
<1> QED BY <1>1, <1>2, <1>3, <1>4, <1>5 DEF Next

LEMMA InitAllocates == Init => Allocation!Init /\ AllocationInv
<1> SUFFICES ASSUME Init PROVE Allocation!Init /\ AllocationInv
  OBVIOUS
<1>1. /\ issued = 0 /\ sessions = {} /\ req = [r \in Reqs |-> NoRequest]
      /\ StoreIPs = {}
  BY EmptyStore DEF Init, DiscoveryInit, DiscoveryBoot
<1>2. Settled = {} /\ Holders = {}
  BY <1>1 DEF Settled, Holders
<1>3. Fresh = SIDs
  BY <1>1 DEF Fresh, SIDs
<1>4. Holding = [s \in SIDs |-> NoIP]
  BY <1>2 DEF Holding
<1>5. \A r \in Reqs : req[r] = NoRequest /\ NoRequest.kind = "none"
  BY <1>1 DEF NoRequest
<1>6. Once
  BY <1>1, <1>5 DEF Once, Attaching, BeingChanged, LoginKinds, AdminKinds
<1> QED BY <1>1, <1>3, <1>4, <1>6, ExclusiveInit DEF Allocation!Init, AllocationInv

(* Every behaviour of the server, in a deployment that only adds sandboxes *)
(* and whose admin moves no session, is one of SandboxAllocation to its    *)
(* participants, for any number of sandboxes, sessions and requests.       *)
THEOREM Refinement == ASSUME OnlyGrows PROVE Spec => AllocatesSandboxes
<1>1. AllocationInv /\ [Next]_vars
        => AllocationInv' /\ [Allocation!Next]_Allocation!allocationVars
  BY ExclusiveStep, StepAllocates DEF AllocationInv
<1> QED BY <1>1, InitAllocates, PTL DEF Spec, AllocatesSandboxes, Allocation!Spec

----------------------------------------------------------------------------
(***************************************************************************)
(* What a login leaves behind.  A pointer, also that of a session that is  *)
(* gone, stays inside the arrays the store has had, so that refreshes do   *)
(* not overwrite the slot it points to; and a login passes its pointer on  *)
(* to a session that has none.                                             *)
(***************************************************************************)
Inside(p) == p \in Ptr /\ p[1] <= cap /\ p[2] <= len

HasOwner(a) ==
  \/ \E s \in SIDs : sess[s].sandbox # nil /\ SandboxOf(s) = a
  \/ \E r \in Reqs : req[r].ptr # nil /\ heap[req[r].ptr].ip = a

Pointers ==
  /\ \A s \in SIDs : sess[s].sandbox # nil => Inside(sess[s].sandbox) /\ s <= issued
  /\ \A r \in Reqs : req[r].ptr # nil =>
       Inside(req[r].ptr) /\ req[r].kind = "login" /\ req[r].pc \in {"create", "attach"}

LeakInv == AllocationInv /\ Pointers /\ \A a \in Reserved : HasOwner(a)

(* Slots inside the arrays keep their addresses, and a step marks none     *)
(* without giving it an owner.                                             *)
KeepsSlots ==
  /\ \A p : Inside(p) => Inside(p)' /\ heap'[p].ip = heap[p].ip
  /\ \A a \in Reserved' : a \in Reserved \/ HasOwner(a)'

(* A session keeps its pointer, a request keeps its own or passes it on.   *)
SessionKeeps(s) ==
  /\ sess[s].sandbox # nil => sess'[s].sandbox = sess[s].sandbox
  /\ sess'[s].sandbox # nil => Inside(sess[s].sandbox)' /\ s <= issued'

RequestKeeps(r) ==
  /\ req[r].ptr # nil =>
       \/ req'[r].ptr = req[r].ptr
       \/ \E s \in SIDs : sess'[s].sandbox = req[r].ptr
  /\ req'[r].ptr # nil =>
       Inside(req[r].ptr)' /\ req'[r].kind = "login" /\ req'[r].pc \in {"create", "attach"}

LEMMA PtrProper == \A p : Inside(p) => p # nil
BY PtrNotNil DEF Inside

LEMMA SameSlots == UNCHANGED poolVars => KeepsSlots
BY DEF poolVars, KeepsSlots, Inside, Live, Reserved

LEMMA SameSession ==
  ASSUME Pointers, KeepsSlots, issued \in Nat, issued' \in Nat, issued <= issued',
         NEW s \in SIDs, sess'[s].sandbox = sess[s].sandbox
  PROVE  SessionKeeps(s)
<1> SUFFICES ASSUME sess[s].sandbox # nil PROVE Inside(sess[s].sandbox)' /\ s <= issued'
  BY DEF SessionKeeps
<1>1. Inside(sess[s].sandbox) /\ s <= issued
  BY DEF Pointers
<1>2. PICK p : p = sess[s].sandbox
  OBVIOUS
<1>3. Inside(p)'
  BY <1>1, <1>2 DEF KeepsSlots
<1> QED BY <1>1, <1>2, <1>3 DEF SIDs, Inside

(* A request that has no pointer, or the same as before for a later step.  *)
LEMMA SamePointer ==
  ASSUME Pointers, KeepsSlots, NEW r \in Reqs,
         \/ req[r].ptr = nil /\ req'[r].ptr = nil
         \/ req'[r] = req[r]
         \/ /\ req'[r].ptr = req[r].ptr
            /\ req'[r].kind = "login" /\ req'[r].pc \in {"create", "attach"}
  PROVE  RequestKeeps(r)
<1> SUFFICES ASSUME req[r].ptr # nil, req'[r].ptr = req[r].ptr,
                    req'[r].kind = "login", req'[r].pc \in {"create", "attach"}
             PROVE  Inside(req[r].ptr)'
  BY DEF RequestKeeps, Pointers
<1>1. PICK p : p = req[r].ptr
  OBVIOUS
<1>2. Inside(p)'
  BY <1>1 DEF KeepsSlots, Pointers
<1> QED BY <1>1, <1>2 DEF Inside

LEMMA NoNewLeak ==
  ASSUME LeakInv, KeepsSlots, \A s \in SIDs : SessionKeeps(s), \A r \in Reqs : RequestKeeps(r)
  PROVE  Pointers' /\ \A a \in Reserved' : HasOwner(a)'
<1>1. Pointers'
  BY DEF Pointers, SessionKeeps, RequestKeeps
<1>2. ASSUME NEW a, HasOwner(a) PROVE HasOwner(a)'
  <2>1. ASSUME NEW s \in SIDs, sess[s].sandbox # nil, SandboxOf(s) = a PROVE HasOwner(a)'
    <3>1. sess'[s].sandbox = sess[s].sandbox
      BY <2>1 DEF SessionKeeps
    <3>2. heap'[sess'[s].sandbox].ip = a
      BY <2>1, <3>1 DEF LeakInv, Pointers, KeepsSlots, SandboxOf
    <3>3. SandboxOf(s)' = a /\ sess'[s].sandbox # nil
      BY <2>1, <3>1, <3>2 DEF SandboxOf
    <3> QED BY <3>3 DEF HasOwner
  <2>2. ASSUME NEW r \in Reqs, req[r].ptr # nil, heap[req[r].ptr].ip = a PROVE HasOwner(a)'
    <3>1. heap'[req[r].ptr].ip = a
      BY <2>2 DEF LeakInv, Pointers, KeepsSlots
    <3>2. CASE req'[r].ptr = req[r].ptr
      BY <2>2, <3>1, <3>2 DEF HasOwner
    <3>3. ASSUME NEW s \in SIDs, sess'[s].sandbox = req[r].ptr PROVE HasOwner(a)'
      <4>1. SandboxOf(s)' = a /\ sess'[s].sandbox # nil
        BY <2>2, <3>1, <3>3 DEF SandboxOf
      <4> QED BY <4>1 DEF HasOwner
    <3> QED BY <2>2, <3>2, <3>3 DEF RequestKeeps
  <2> QED BY <1>2, <2>1, <2>2 DEF HasOwner
<1> QED BY <1>1, <1>2 DEF LeakInv, KeepsSlots

LEMMA AddKeepsSlots ==
  ASSUME PoolTypeOK, NEW ip \in V4, Add(ip)
  PROVE  KeepsSlots
<1>0. MaxCap \in Nat /\ cap \in Nat /\ len \in Nat /\ len <= cap
  BY PoolAssumption DEF PoolTypeOK
<1>1. /\ PoolTypeOK' /\ len' = len + 1
      /\ \A i \in 1 .. len : heap'[<<cap', i>>] = heap[<<cap, i>>]
      /\ heap'[<<cap', len + 1>>] = [ip |-> ip, reserved |-> FALSE]
  BY AddSlots
<1>2. cap' = (IF len < cap THEN cap ELSE Grown(cap)) /\ cap <= cap' /\ cap' \in Nat
  BY <1>0 DEF Add, Grown
<1>3. ASSUME NEW p, Inside(p) PROVE Inside(p)' /\ heap'[p].ip = heap[p].ip
  <2>1. p \in Ptr /\ p[1] <= cap /\ p[2] <= len /\ p[1] \in Nat /\ p[2] \in Nat
    BY <1>0, <1>3 DEF Inside, Ptr
  <2>2. p # <<cap', len + 1>>
    BY <1>0, <2>1
  <2>3. ~(cap' # cap /\ p[1] = cap' /\ p[2] <= len)
    BY <1>0, <1>2, <2>1
  <2>4. heap'[p] = IF p = <<cap', len + 1>> THEN [ip |-> ip, reserved |-> FALSE]
                   ELSE IF cap' # cap /\ p[1] = cap' /\ p[2] <= len THEN heap[<<cap, p[2]>>]
                   ELSE heap[p]
    BY <2>1 DEF Add
  <2>5. Inside(p)'
    BY <1>0, <1>1, <1>2, <2>1 DEF Inside
  <2> QED BY <2>2, <2>3, <2>4, <2>5
<1>4. ASSUME NEW q \in Live', heap'[q].reserved
      PROVE  \E p \in Live : heap[p].reserved /\ heap[p].ip = heap'[q].ip
  <2>1. PICK i \in 1 .. len + 1 : q = <<cap', i>>
    BY <1>0, <1>1, <1>2, <1>4 DEF Live, Ptr
  <2>2. i # len + 1
    BY <1>1, <1>4, <2>1
  <2>3. i \in 1 .. len
    BY <1>0, <2>1, <2>2
  <2>4. <<cap, i>> \in Live /\ heap'[q] = heap[<<cap, i>>]
    BY <1>1, <2>1, <2>3, LiveSlots
  <2> QED BY <1>4, <2>4
<1> QED BY <1>3, <1>4 DEF KeepsSlots, Reserved

LEMMA MarkKeepsSlots ==
  ASSUME PoolTypeOK, NEW q \in Ptr, NEW b \in BOOLEAN, SetReserved(q, b),
         \A a : b /\ a = heap[q].ip => HasOwner(a)'
  PROVE  KeepsSlots
<1>1. /\ cap' = cap /\ len' = len /\ Live' = Live
      /\ \A p \in Ptr : heap'[p].ip = heap[p].ip
      /\ \A p \in Ptr : heap'[p].reserved = IF p = q THEN b ELSE heap[p].reserved
  BY SetReservedStore DEF Live
<1>2. \A p : Inside(p) => Inside(p)' /\ heap'[p].ip = heap[p].ip
  BY <1>1 DEF Inside
<1>3. ASSUME NEW a \in Reserved' PROVE a \in Reserved \/ HasOwner(a)'
  <2>1. PICK p \in Live' : heap'[p].reserved /\ a = heap'[p].ip
    BY DEF Reserved
  <2>2. p \in Ptr /\ p \in Live /\ a = heap[p].ip
    BY <1>1, <2>1, LivePtr
  <2>3. CASE p = q
    BY <1>1, <2>1, <2>2, <2>3
  <2>4. CASE p # q
    BY <1>1, <2>1, <2>2, <2>4 DEF Reserved
  <2> QED BY <2>3, <2>4
<1> QED BY <1>2, <1>3 DEF KeepsSlots

(* Steps that leave the sandboxes of sessions alone. *)
LEMMA LeakQuiet ==
  ASSUME LeakInv, KeepsSlots, UNCHANGED <<issued, sess>>, \A q \in Reqs : RequestKeeps(q)
  PROVE  Pointers' /\ \A a \in Reserved' : HasOwner(a)'
<1>1. issued \in Nat /\ issued' = issued
  BY DEF LeakInv, AllocationInv, ExclusiveInv, ServerInv, ServerTypeOK
<1>2. \A s \in SIDs : SessionKeeps(s)
  BY <1>1, SameSession DEF LeakInv
<1> QED BY <1>2, NoNewLeak

LEMMA LeakBackground ==
  ASSUME LeakInv, Background
  PROVE  Pointers' /\ \A a \in Reserved' : HasOwner(a)'
<1> USE DEF LeakInv, AllocationInv, ExclusiveInv
<1>1. UNCHANGED <<issued, sess, req>>
  BY DEF Background, serverVars
<1>2. KeepsSlots
  <2>1. ASSUME NEW ip \in V4, OnDiscover(ip) PROVE KeepsSlots
    BY <2>1, SameSlots, AddKeepsSlots DEF OnDiscover, ServerInv, DiscoveryInv, DiscoveryTypeOK
  <2>2. ASSUME NEW ip \in V4, OnLost(ip) PROVE FALSE
    BY <2>2 DEF OnLost, Growth
  <2>3. CASE RefreshLock \/ RefreshUnlock \/ \E s \in Services : LookupError(s) \/ LookupOK(s)
    BY <2>3, SameSlots DEF RefreshLock, RefreshUnlock, LookupError, LookupOK, poolVars
  <2>4. CASE DiscoveryRestart \/ Environment
    BY <2>4, SameSlots DEF DiscoveryRestart, Environment, DnsChange, poolVars
  <2> QED BY <2>1, <2>2, <2>3, <2>4 DEF Background, Refresh
<1> QED BY <1>1, <1>2, SamePointer, LeakQuiet

LEMMA LeakAccept ==
  ASSUME LeakInv, NEW r \in Reqs, Accept(r)
  PROVE  Pointers' /\ \A a \in Reserved' : HasOwner(a)'
<1> USE DEF LeakInv, AllocationInv, ExclusiveInv
<1>1. /\ UNCHANGED poolVars /\ UNCHANGED <<issued, sess>>
      /\ req[r].ptr = nil /\ req'[r].ptr = nil /\ \A q \in Reqs : q # r => req'[q] = req[q]
  BY AcceptInv DEF NoRequest
<1> QED BY <1>1, SameSlots, SamePointer, LeakQuiet

LEMMA LeakRead ==
  ASSUME LeakInv, NEW r \in Reqs,
         Middleware(r) \/ AdminGet(r) \/ GuacConfig(r) \/ GuacDial(r) \/ DeleteSession(r)
  PROVE  Pointers' /\ \A a \in Reserved' : HasOwner(a)'
<1> USE DEF LeakInv, AllocationInv, ExclusiveInv
<1>1. UNCHANGED poolVars /\ UNCHANGED <<issued, sess>>
  BY DEF Middleware, AdminGet, GuacConfig, GuacDial, DeleteSession, poolVars
<1>2. req[r].ptr = nil
  BY DEF Middleware, AdminGet, GuacConfig, GuacDial, DeleteSession, At, Pointers, AdminKinds
<1>3. /\ \A q \in Reqs : q # r => req'[q] = req[q]
      /\ req'[r] = NoRequest \/ req'[r].ptr = req[r].ptr
  BY HandlerRequest DEF Handler, Middleware, AdminGet, GuacConfig, GuacDial, DeleteSession,
     LoginReserve, AssignReserve, At, AdminKinds
<1> QED BY <1>1, <1>2, <1>3, SameSlots, SamePointer, LeakQuiet DEF NoRequest

LEMMA LeakReserve ==
  ASSUME LeakInv, NEW r \in Reqs, LoginReserve(r)
  PROVE  Pointers' /\ \A a \in Reserved' : HasOwner(a)'
<1> USE DEF LeakInv, AllocationInv, ExclusiveInv
<1>1. /\ UNCHANGED <<issued, sess>> /\ req[r].ptr = nil /\ req[r].kind = "login"
      /\ PoolTypeOK /\ req \in [Reqs -> Request] /\ req[r] \in Request
  BY DEF LoginReserve, At, Pointers, ServerInv, DiscoveryInv, DiscoveryTypeOK, ServerTypeOK
<1>2. \A q \in Reqs : q # r => req'[q] = req[q]
  BY HandlerRequest DEF Handler
<1>3. CASE Respond(r) /\ UNCHANGED poolVars
  <2>1. req'[r].ptr = nil
    BY <1>3, RespondFields DEF NoRequest, ServerInv
  <2> QED BY <1>1, <1>2, <1>3, <2>1, SameSlots, SamePointer, LeakQuiet
<1>4. ASSUME NEW p \in Ptr, ReserveFree(p),
             req' = [req EXCEPT ![r] = [@ EXCEPT !.pc = "create", !.ptr = p]]
      PROVE  Pointers' /\ \A a \in Reserved' : HasOwner(a)'
  <2>1. p \in Live /\ SetReserved(p, TRUE) /\ p # nil
    BY <1>4, PtrNotNil DEF ReserveFree, getFree, IsFirst, Free
  <2>2. /\ Live' = Live /\ \A q \in Ptr : heap'[q].ip = heap[q].ip
        /\ cap' = cap /\ len' = len
    BY <1>1, <2>1, SetReservedStore DEF Live
  <2>3. req'[r].ptr = p /\ req'[r].kind = "login" /\ req'[r].pc = "create"
    BY <1>1, <1>4 DEF Request
  <2>4. \A a : a = heap[p].ip => HasOwner(a)'
    BY <2>1, <2>2, <2>3 DEF HasOwner
  <2>5. KeepsSlots
    BY <1>1, <2>1, <2>4, MarkKeepsSlots
  <2>6. RequestKeeps(r)
    <3>1. cap \in Nat /\ len \in Nat /\ p \in Ptr /\ p[1] = cap /\ p[2] <= len
      BY <1>1, <2>1 DEF PoolTypeOK, Live
    <3>2. Inside(req[r].ptr)'
      BY <2>2, <2>3, <3>1, PoolAssumption DEF Inside, PoolTypeOK
    <3> QED BY <1>1, <2>3, <3>2 DEF RequestKeeps
  <2> QED BY <1>1, <1>2, <2>5, <2>6, SamePointer, LeakQuiet
<1> QED BY <1>3, <1>4 DEF LoginReserve

LEMMA LeakCreate ==
  ASSUME LeakInv, NEW r \in Reqs, Create(r)
  PROVE  Pointers' /\ \A a \in Reserved' : HasOwner(a)'
<1> USE DEF LeakInv, AllocationInv, ExclusiveInv
<1>1. /\ UNCHANGED poolVars /\ issued \in Nat /\ issued' = issued + 1 /\ issued' \in SIDs
      /\ sess \in [SIDs -> Session] /\ sess' = [sess EXCEPT ![issued'] = NoSession]
      /\ req \in [Reqs -> Request] /\ req[r] \in Request /\ req[r].kind \in LoginKinds
      /\ req' = [req EXCEPT ![r] = [@ EXCEPT !.pc = "attach", !.sid = issued']]
  BY ServerAssumption DEF Create, At, poolVars, ServerInv, ServerTypeOK, SIDs
<1>2. sess[issued'].sandbox = nil /\ sess'[issued'].sandbox = nil
  BY <1>1 DEF Pointers, NoSession
<1>3. ASSUME NEW s \in SIDs PROVE SessionKeeps(s)
  <2>1. sess'[s].sandbox = sess[s].sandbox
    BY <1>1, <1>2
  <2> QED BY <1>1, <2>1, SameSlots, SameSession
<1>4. ASSUME NEW q \in Reqs PROVE RequestKeeps(q)
  <2>1. CASE q # r
    BY <1>1, <2>1, SameSlots, SamePointer
  <2>2. req'[r].ptr = req[r].ptr /\ req'[r].pc = "attach" /\ req'[r].kind = req[r].kind
    BY <1>1 DEF Request
  <2>3. req[r].ptr = nil \/ req[r].kind = "login"
    BY DEF Pointers
  <2> QED BY <2>1, <2>2, <2>3, <1>1, SameSlots, SamePointer
<1> QED BY <1>1, <1>3, <1>4, SameSlots, NoNewLeak

(* The login's pointer becomes the session's, which had none. *)
LEMMA LeakAttach ==
  ASSUME LeakInv, NEW r \in Reqs, LoginAttach(r)
  PROVE  Pointers' /\ \A a \in Reserved' : HasOwner(a)'
<1> USE DEF LeakInv, AllocationInv, ExclusiveInv
<1>1. PICK x : x = req[r].sid
  OBVIOUS
<1>2. /\ UNCHANGED poolVars /\ issued' = issued /\ issued \in Nat /\ x \in SIDs /\ x <= issued
      /\ sess \in [SIDs -> Session] /\ sess[x].sandbox = nil /\ Respond(r)
      /\ sess' = [sess EXCEPT ![x] = IF req[r].kind = "admin" THEN [@ EXCEPT !.admin = TRUE]
                                      ELSE [@ EXCEPT !.sandbox = req[r].ptr]]
  <2>1. Attaching(r)
    BY DEF LoginAttach, At, Attaching
  <2> QED BY <1>1, <2>1 DEF LoginAttach, poolVars, ServerInv, ServerTypeOK, Once
<1>3. /\ \A s \in SIDs : s # x => sess'[s] = sess[s]
      /\ sess'[x].sandbox = req[r].ptr
  BY <1>2 DEF Session, Pointers
<1>4. req'[r] = NoRequest /\ \A q \in Reqs : q # r => req'[q] = req[q]
  BY <1>2, RespondFields DEF ServerInv
<1>5. ASSUME NEW s \in SIDs PROVE SessionKeeps(s)
  <2>1. CASE s # x
    BY <1>2, <1>3, <2>1, SameSlots, SameSession
  <2>2. CASE s = x
    <3>1. sess'[x].sandbox # nil => Inside(sess[x].sandbox)'
      BY <1>2, <1>3 DEF Pointers, Inside, poolVars
    <3> QED BY <1>2, <2>2, <3>1 DEF SessionKeeps
  <2> QED BY <2>1, <2>2
<1>6. ASSUME NEW q \in Reqs PROVE RequestKeeps(q)
  <2>1. CASE q # r
    BY <1>2, <1>4, <2>1, SameSlots, SamePointer
  <2>2. CASE q = r
    BY <1>2, <1>3, <1>4, <2>2 DEF RequestKeeps, NoRequest
  <2> QED BY <2>1, <2>2
<1> QED BY <1>2, <1>5, <1>6, SameSlots, NoNewLeak

LEMMA LeakRelease ==
  ASSUME LeakInv, NEW r \in Reqs, AdminRelease(r)
  PROVE  Pointers' /\ \A a \in Reserved' : HasOwner(a)'
<1> USE DEF LeakInv, AllocationInv, ExclusiveInv
<1>1. PICK p : p = sess[req[r].sid].sandbox
  OBVIOUS
<1>2. /\ UNCHANGED <<issued, sess>> /\ PoolTypeOK
      /\ p # nil => p \in Ptr
      /\ (UNCHANGED poolVars) \/ (p # nil /\ SetReserved(p, FALSE))
      /\ req[r].ptr = nil
  <2>1. req[r].kind \in AdminKinds /\ req[r].sid \in SIDs
    BY DEF AdminRelease, At, ServerInv, SidsOK, Naming
  <2> QED BY <1>1, <2>1 DEF AdminRelease, Release, Pointers, Inside, AdminKinds, ServerInv,
          DiscoveryInv, DiscoveryTypeOK
<1>3. KeepsSlots
  BY <1>2, SameSlots, MarkKeepsSlots
<1>4. /\ \A q \in Reqs : q # r => req'[q] = req[q]
      /\ req'[r] = NoRequest \/ req'[r].ptr = req[r].ptr
  BY HandlerRequest DEF Handler, AdminRelease, LoginReserve, AssignReserve, At, AdminKinds
<1> QED BY <1>2, <1>3, <1>4, SamePointer, LeakQuiet DEF NoRequest

LEMMA LeakCrash ==
  ASSUME LeakInv, Crash
  PROVE  Pointers' /\ \A a \in Reserved' : HasOwner(a)'
BY PoolAssumption DEF Crash, DiscoveryCrash, PoolReset, Pointers, NoSession, NoRequest, Reserved, Live

LEMMA LeakStep == OnlyGrows /\ LeakInv /\ [Next]_vars => LeakInv'
<1> SUFFICES ASSUME OnlyGrows, LeakInv, [Next]_vars PROVE LeakInv'
  OBVIOUS
<1>1. AllocationInv'
  BY ExclusiveStep, StepAllocates DEF LeakInv, AllocationInv
<1>2. ASSUME NEW r \in Reqs, Handler(r) PROVE Pointers' /\ \A a \in Reserved' : HasOwner(a)'
  BY <1>2, NoAssign, LeakRead, LeakReserve, LeakCreate, LeakAttach, LeakRelease
     DEF Handler, LeakInv, AllocationInv, ExclusiveInv
<1>3. CASE UNCHANGED vars
  <2>1. UNCHANGED poolVars /\ UNCHANGED <<issued, sess, req>>
    BY <1>3 DEF vars, poolVars
  <2> QED BY <1>1, <2>1, SameSlots, SamePointer, LeakQuiet DEF LeakInv
<1> QED BY <1>1, <1>2, <1>3, LeakAccept, LeakBackground, LeakCrash
    DEF Next, MapRace, LossPanic, LeakInv

(* No login, however it overlaps with refreshes and deletions, reserves a  *)
(* sandbox that no session ever gets.                                      *)
THEOREM LoginsLeakNothing == ASSUME OnlyGrows PROVE Spec => []OnlyDeletionsLeak
<1>1. Init => LeakInv
  <2>1. Init => AllocationInv
    BY InitAllocates
  <2>2. Init => Pointers /\ Reserved = {}
    BY PoolAssumption DEF Init, DiscoveryInit, DiscoveryBoot, PoolInit, Pointers, NoSession, NoRequest,
       Reserved, Live
  <2> QED BY <2>1, <2>2 DEF LeakInv
<1>2. LeakInv => OnlyDeletionsLeak
  BY DEF LeakInv, OnlyDeletionsLeak, HasOwner, Reserved
<1> QED BY <1>1, <1>2, LeakStep, PTL DEF Spec

=============================================================================
