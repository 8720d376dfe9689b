------------------------ MODULE ControlServerProofs ------------------------
(***************************************************************************)
(* Proofs about ControlServer, for any number of sandboxes, requests and   *)
(* sessions and for every mix of requests: its types, that the store       *)
(* follows discovery, that a refresh frees no sandbox that stays, and that *)
(* onGuacConnect never meets a session without a sandbox.                  *)
(***************************************************************************)
EXTENDS ControlServer, DiscoveryProofs

ServerTypeOK ==
  /\ issued \in 0 .. MaxSessions
  /\ sessions \in SUBSET SIDs
  /\ sess \in [SIDs -> Session]
  /\ cookies \in SUBSET SIDs
  /\ req \in [Reqs -> Request]

(* A request that names a session names an ID that was issued. *)
Naming(m) == m.kind \in AdminKinds \cup {"guac"} \/ m.pc = "attach"
SidsOK    == \A r \in Reqs : Naming(req[r]) => req[r].sid \in SIDs

ServerInv == DiscoveryInv /\ ServerTypeOK /\ SidsOK

----------------------------------------------------------------------------
(* What a handler's step does to the requests. *)

LEMMA ReqUpdate ==
  ASSUME ServerTypeOK, SidsOK, NEW r \in Reqs, NEW m \in Request,
         Naming(m) => m.sid \in SIDs, req' = [req EXCEPT ![r] = m]
  PROVE  /\ req' \in [Reqs -> Request] /\ SidsOK'
         /\ req'[r] = m
         /\ \A q \in Reqs : q # r => req'[q] = req[q]
<1>1. req' \in [Reqs -> Request] /\ req'[r] = m /\ \A q \in Reqs : q # r => req'[q] = req[q]
  BY DEF ServerTypeOK
<1>2. SidsOK'
  BY <1>1 DEF SidsOK, Naming
<1> QED BY <1>1, <1>2

LEMMA GotoFields ==
  ASSUME ServerTypeOK, SidsOK, NEW r \in Reqs, NEW pc \in Steps, Goto(r, pc),
         pc # "attach"
  PROVE  /\ req' \in [Reqs -> Request] /\ SidsOK'
         /\ req'[r].pc = pc
         /\ \A q \in Reqs : /\ req'[q].kind = req[q].kind /\ req'[q].sid = req[q].sid
                            /\ req'[q].ptr = req[q].ptr /\ req'[q].ip = req[q].ip
                            /\ q # r => req'[q] = req[q]
<1> DEFINE m == [req[r] EXCEPT !.pc = pc]
<1>1. req[r] \in Request
  BY DEF ServerTypeOK
<1>2. m \in Request /\ m.pc = pc /\ m.kind = req[r].kind /\ m.sid = req[r].sid
      /\ m.ptr = req[r].ptr /\ m.ip = req[r].ip
  BY <1>1 DEF Request
<1>3. Naming(m) => m.sid \in SIDs
  BY <1>2 DEF Naming, SidsOK
<1>4. req' = [req EXCEPT ![r] = m]
  BY DEF Goto
<1> HIDE DEF m
<1>5. req' \in [Reqs -> Request] /\ SidsOK' /\ req'[r] = m
      /\ \A q \in Reqs : q # r => req'[q] = req[q]
  BY <1>2, <1>3, <1>4, ReqUpdate
<1> QED BY <1>2, <1>5

LEMMA NoRequestType == NoRequest \in Request /\ ~Naming(NoRequest)
BY DEF NoRequest, Request, Steps, Naming, AdminKinds

LEMMA RespondFields ==
  ASSUME ServerTypeOK, SidsOK, NEW r \in Reqs, Respond(r)
  PROVE  /\ req' \in [Reqs -> Request] /\ SidsOK'
         /\ req'[r] = NoRequest
         /\ \A q \in Reqs : q # r => req'[q] = req[q]
BY NoRequestType, ReqUpdate DEF Respond

LEMMA BeginFields ==
  ASSUME ServerTypeOK, SidsOK, NEW r \in Reqs, NEW kind \in AllKinds, NEW sid \in SIDs \cup {0},
         NEW ip \in V4 \cup {NoIP}, Begin(r, kind, sid, ip),
         kind \in LoginKinds \/ sid \in SIDs
  PROVE  /\ req' \in [Reqs -> Request] /\ SidsOK'
         /\ req[r] = NoRequest
         /\ req'[r] = [kind |-> kind, pc |-> "middleware", sid |-> sid, ptr |-> nil, ip |-> ip]
         /\ \A q \in Reqs : q # r => req'[q] = req[q]
<1> DEFINE m == [kind |-> kind, pc |-> "middleware", sid |-> sid, ptr |-> nil, ip |-> ip]
<1>1. m \in Request
  BY DEF Request, Steps
<1>2. Naming(m) => m.sid \in SIDs
  BY DEF Naming, LoginKinds, AdminKinds
<1>3. req' = [req EXCEPT ![r] = m] /\ req[r] = NoRequest
  BY DEF Begin
<1> HIDE DEF m
<1>4. /\ req' \in [Reqs -> Request] /\ SidsOK' /\ req'[r] = m
      /\ \A q \in Reqs : q # r => req'[q] = req[q]
  BY <1>1, <1>2, <1>3, ReqUpdate
<1> QED BY <1>3, <1>4 DEF m

----------------------------------------------------------------------------
(* What a handler's step does to discovery: nothing, or it marks a slot. *)

outside == <<up, dns, ipMap, locked, todo, cur, newIPs, lostIPs>>

LEMMA SameDiscovery ==
  ASSUME DiscoveryInv, UNCHANGED poolVars, UNCHANGED outside
  PROVE  DiscoveryInv'
BY QuietInv DEF poolVars, outside, DiscoveryInv, DiscoveryTypeOK

LEMMA MarkedDiscovery ==
  ASSUME DiscoveryInv, NEW q \in Ptr, NEW b \in BOOLEAN, SetReserved(q, b), UNCHANGED outside
  PROVE  DiscoveryInv'
<1>1. PoolTypeOK
  BY DEF DiscoveryInv, DiscoveryTypeOK
<1>2. PoolTypeOK' /\ StoreIPs' = StoreIPs /\ (NoDuplicateSandbox => NoDuplicateSandbox')
  BY <1>1, SetReservedStore
<1>3. DiscoveryTypeOK'
  BY <1>2 DEF DiscoveryInv, DiscoveryTypeOK, outside
<1>4. FollowsDNS'
  BY <1>2 DEF DiscoveryInv, FollowsDNS, Announced, outside
<1> QED BY <1>3, <1>4 DEF DiscoveryInv

(* The slots of the store are pointers, and so is what a session has. *)
LEMMA LivePtr == \A q \in Live : q \in Ptr
BY DEF Live

----------------------------------------------------------------------------
LEMMA InitInv == Init => ServerInv
<1> SUFFICES ASSUME Init PROVE ServerInv
  OBVIOUS
<1>1. DiscoveryInv
  BY DiscoveryInitInv DEF Init
<1>2. NoSession \in Session
  BY DEF NoSession, Session
<1>3. ServerTypeOK /\ SidsOK
  BY <1>2, NoRequestType, ServerAssumption DEF Init, ServerTypeOK, SidsOK
<1> QED BY <1>1, <1>3 DEF ServerInv

LEMMA CrashServerInv == ServerInv /\ Crash => ServerInv'
<1> SUFFICES ASSUME ServerInv, Crash PROVE ServerInv'
  OBVIOUS
<1>1. DiscoveryInv'
  BY CrashInv DEF ServerInv, Crash
<1>2. NoSession \in Session
  BY DEF NoSession, Session
<1>3. ServerTypeOK'
  BY <1>2, NoRequestType DEF ServerInv, Crash, ServerTypeOK
<1>4. SidsOK'
  BY NoRequestType DEF Crash, SidsOK, Naming
<1> QED BY <1>1, <1>3, <1>4 DEF ServerInv

LEMMA AcceptInv ==
  ASSUME ServerInv, NEW r \in Reqs, Accept(r)
  PROVE  /\ ServerInv'
         /\ UNCHANGED poolVars /\ UNCHANGED outside
         /\ UNCHANGED <<issued, sessions, sess, cookies>>
         /\ req[r] = NoRequest
         /\ req'[r].kind \in Kinds /\ req'[r].pc = "middleware" /\ req'[r].ptr = nil
         /\ \A q \in Reqs : q # r => req'[q] = req[q]
         /\ req'[r].kind \in AdminKinds =>
              OverlappingAdmins \/ \A q \in Reqs : req[q].kind \notin AdminKinds
<1> USE DEF ServerInv
<1>1. PICK kind \in Kinds, sid \in SIDs \cup {0}, ip \in V4 \cup {NoIP} :
        /\ Begin(r, kind, sid, ip)
        /\ kind \in LoginKinds \/ sid \in SIDs
        /\ kind \in AdminKinds =>
             OverlappingAdmins \/ \A q \in Reqs : req[q].kind \notin AdminKinds
  <2>1. CASE AcceptLogin(r)
    BY <2>1 DEF AcceptLogin, LoginKinds, AdminKinds
  <2>2. CASE AcceptAdmin(r)
    <3>1. PICK kind \in Kinds \cap AdminKinds, sid \in 1 .. issued :
            /\ OverlappingAdmins \/ \A q \in Reqs : req[q].kind \notin AdminKinds
            /\ \E ip \in IF kind = "assign" THEN Addresses["sandbox"] \cap V4 ELSE {NoIP} :
                 Begin(r, kind, sid, ip)
      BY <2>2 DEF AcceptAdmin
    <3>2. sid \in SIDs
      BY ServerAssumption DEF ServerTypeOK, SIDs
    <3> QED BY <3>1, <3>2
  <2>3. CASE AcceptGuac(r)
    BY <2>3 DEF AcceptGuac, AdminKinds, ServerTypeOK
  <2> QED BY <2>1, <2>2, <2>3 DEF Accept
<1>2. UNCHANGED poolVars /\ UNCHANGED outside /\ UNCHANGED <<issued, sessions, sess, cookies>>
  BY <1>1 DEF Begin, poolVars, outside
<1>3. DiscoveryInv'
  BY <1>2, SameDiscovery
<1>4. kind \in AllKinds
  BY <1>1, ServerAssumption
<1>5. /\ req' \in [Reqs -> Request] /\ SidsOK'
      /\ req[r] = NoRequest
      /\ req'[r] = [kind |-> kind, pc |-> "middleware", sid |-> sid, ptr |-> nil, ip |-> ip]
      /\ \A q \in Reqs : q # r => req'[q] = req[q]
  BY <1>1, <1>4, BeginFields
<1>6. ServerTypeOK'
  BY <1>2, <1>5 DEF ServerTypeOK
<1> QED BY <1>1, <1>2, <1>3, <1>5, <1>6

LEMMA LoginStepInv ==
  ASSUME ServerInv, NEW r \in Reqs,
         LoginReserve(r) \/ Create(r) \/ LoginAttach(r)
  PROVE  ServerInv'
<1> USE DEF ServerInv
<1>0. req[r] \in Request
  BY DEF ServerTypeOK
<1>1. CASE LoginReserve(r)
  <2>1. UNCHANGED outside /\ UNCHANGED <<issued, sessions, sess, cookies>>
    BY <1>1 DEF LoginReserve, outside
  <2>2. CASE Respond(r) /\ UNCHANGED poolVars
    BY <2>1, <2>2, SameDiscovery, RespondFields DEF ServerTypeOK
  <2>3. ASSUME NEW q \in Ptr, ReserveFree(q),
               req' = [req EXCEPT ![r] = [@ EXCEPT !.pc = "create", !.ptr = q]]
        PROVE  ServerInv'
    <3> DEFINE m == [req[r] EXCEPT !.pc = "create", !.ptr = q]
    <3>1. DiscoveryInv'
      BY <2>1, <2>3, MarkedDiscovery DEF ReserveFree
    <3>2. m \in Request /\ (Naming(m) => m.sid \in SIDs)
      BY <1>0 DEF Request, Steps, Naming, SidsOK
    <3>3. req' = [req EXCEPT ![r] = m]
      BY <2>3
    <3> HIDE DEF m
    <3>4. req' \in [Reqs -> Request] /\ SidsOK'
      BY <3>2, <3>3, ReqUpdate
    <3> QED BY <2>1, <3>1, <3>4 DEF ServerTypeOK
  <2> QED BY <1>1, <2>2, <2>3 DEF LoginReserve
<1>2. CASE Create(r)
  <2> DEFINE m == [req[r] EXCEPT !.pc = "attach", !.sid = issued']
  <2>1. DiscoveryInv'
    BY <1>2, SameDiscovery DEF Create, poolVars, outside
  <2>2. issued' = issued + 1 /\ issued' \in 0 .. MaxSessions /\ issued' \in SIDs
    BY <1>2, ServerAssumption DEF Create, ServerTypeOK, SIDs
  <2>3. sessions' \in SUBSET SIDs /\ sess' \in [SIDs -> Session] /\ cookies' \in SUBSET SIDs
    BY <1>2, <2>2 DEF Create, ServerTypeOK, NoSession, Session
  <2>4. m \in Request /\ m.sid \in SIDs
    BY <1>0, <2>2 DEF Request, Steps
  <2>5. req' = [req EXCEPT ![r] = m]
    BY <1>2 DEF Create
  <2> HIDE DEF m
  <2>6. req' \in [Reqs -> Request] /\ SidsOK'
    BY <2>4, <2>5, ReqUpdate DEF Naming, SidsOK, ServerTypeOK
  <2> QED BY <2>1, <2>2, <2>3, <2>6 DEF ServerTypeOK
<1>3. CASE LoginAttach(r)
  <2>1. DiscoveryInv'
    BY <1>3, SameDiscovery DEF LoginAttach, poolVars, outside
  <2>2. req' \in [Reqs -> Request] /\ SidsOK'
    BY <1>3, RespondFields DEF LoginAttach
  <2>3. req[r].ptr \in Ptr \cup {nil} /\ req[r].sid \in SIDs
    BY <1>0, <1>3 DEF Request, LoginAttach, At, SidsOK, Naming
  <2>4. sess' \in [SIDs -> Session]
    BY <1>3, <2>3 DEF LoginAttach, ServerTypeOK, Session
  <2>5. issued' \in 0 .. MaxSessions /\ sessions' \in SUBSET SIDs /\ cookies' \in SUBSET SIDs
    BY <1>3, <2>3 DEF LoginAttach, ServerTypeOK
  <2> QED BY <2>1, <2>2, <2>4, <2>5 DEF ServerTypeOK
<1> QED BY <1>1, <1>2, <1>3

LEMMA AdminStepInv ==
  ASSUME ServerInv, NEW r \in Reqs,
         AdminGet(r) \/ AdminRelease(r) \/ DeleteSession(r) \/ AssignReserve(r) \/ AssignAttach(r)
  PROVE  ServerInv'
<1> USE DEF ServerInv
<1>0. req[r] \in Request
  BY DEF ServerTypeOK
<1>1. CASE AdminGet(r)
  <2>1. DiscoveryInv' /\ UNCHANGED <<issued, sessions, sess, cookies>>
    BY <1>1, SameDiscovery DEF AdminGet, poolVars, outside
  <2>2. req' \in [Reqs -> Request] /\ SidsOK'
    BY <1>1, GotoFields, RespondFields DEF AdminGet, Steps
  <2> QED BY <2>1, <2>2 DEF ServerTypeOK
<1>2. CASE AdminRelease(r)
  <2>1. UNCHANGED outside /\ UNCHANGED <<issued, sessions, sess, cookies>>
    BY <1>2 DEF AdminRelease, outside
  <2>2. CASE Respond(r) /\ UNCHANGED poolVars
    BY <2>1, <2>2, SameDiscovery, RespondFields DEF ServerTypeOK
  <2>3. ASSUME sess[req[r].sid].sandbox # nil, Release(sess[req[r].sid].sandbox),
               Goto(r, IF req[r].kind = "delete" THEN "delete" ELSE "reserve")
        PROVE  ServerInv'
    <3>1. req[r].sid \in SIDs
      BY <1>2 DEF AdminRelease, At, SidsOK, Naming
    <3>2. sess[req[r].sid].sandbox \in Ptr
      BY <2>3, <3>1 DEF ServerTypeOK, Session
    <3>3. DiscoveryInv'
      BY <2>1, <2>3, <3>2, MarkedDiscovery DEF Release
    <3>4. req' \in [Reqs -> Request] /\ SidsOK'
      BY <2>3, GotoFields DEF Steps
    <3> QED BY <2>1, <3>3, <3>4 DEF ServerTypeOK
  <2> QED BY <1>2, <2>2, <2>3 DEF AdminRelease
<1>3. CASE DeleteSession(r)
  <2>1. DiscoveryInv' /\ UNCHANGED <<issued, sess, cookies>> /\ sessions' \subseteq sessions
    BY <1>3, SameDiscovery DEF DeleteSession, poolVars, outside
  <2>2. req' \in [Reqs -> Request] /\ SidsOK'
    BY <1>3, RespondFields DEF DeleteSession
  <2> QED BY <2>1, <2>2 DEF ServerTypeOK
<1>4. CASE AssignReserve(r)
  <2>1. UNCHANGED outside /\ UNCHANGED <<issued, sessions, sess, cookies>>
    BY <1>4 DEF AssignReserve, outside
  <2>2. CASE Respond(r) /\ UNCHANGED poolVars
    BY <2>1, <2>2, SameDiscovery, RespondFields DEF ServerTypeOK
  <2>3. ASSUME NEW q \in Ptr, Reserve(q, req[r].ip),
               req' = [req EXCEPT ![r] = [@ EXCEPT !.pc = "attach", !.ptr = q]]
        PROVE  ServerInv'
    <3> DEFINE m == [req[r] EXCEPT !.pc = "attach", !.ptr = q]
    <3>1. DiscoveryInv'
      BY <2>1, <2>3, MarkedDiscovery DEF Reserve
    <3>2. req[r].sid \in SIDs
      BY <1>4 DEF AssignReserve, At, SidsOK, Naming, AdminKinds
    <3>3. m \in Request /\ m.sid \in SIDs
      BY <1>0, <3>2 DEF Request, Steps
    <3>4. req' = [req EXCEPT ![r] = m]
      BY <2>3
    <3> HIDE DEF m
    <3>5. req' \in [Reqs -> Request] /\ SidsOK'
      BY <3>3, <3>4, ReqUpdate
    <3> QED BY <2>1, <3>1, <3>5 DEF ServerTypeOK
  <2> QED BY <1>4, <2>2, <2>3 DEF AssignReserve
<1>5. CASE AssignAttach(r)
  <2>1. DiscoveryInv' /\ UNCHANGED <<issued, sessions, cookies>>
    BY <1>5, SameDiscovery DEF AssignAttach, poolVars, outside
  <2>2. req' \in [Reqs -> Request] /\ SidsOK'
    BY <1>5, RespondFields DEF AssignAttach
  <2>3. sess' \in [SIDs -> Session]
    BY <1>0, <1>5 DEF AssignAttach, ServerTypeOK, Session, Request
  <2> QED BY <2>1, <2>2, <2>3 DEF ServerTypeOK
<1> QED BY <1>1, <1>2, <1>3, <1>4, <1>5

LEMMA OtherStepInv ==
  ASSUME ServerInv, NEW r \in Reqs, Middleware(r) \/ GuacConfig(r) \/ GuacDial(r)
  PROVE  /\ ServerInv'
         /\ UNCHANGED poolVars /\ UNCHANGED outside
         /\ UNCHANGED <<issued, sessions, sess, cookies>>
<1> USE DEF ServerInv
<1>0. req[r] \in Request
  BY DEF ServerTypeOK
<1>1. UNCHANGED poolVars /\ UNCHANGED outside /\ UNCHANGED <<issued, sessions, sess, cookies>>
  BY DEF Middleware, GuacConfig, GuacDial, poolVars, outside
<1>2. DiscoveryInv'
  BY <1>1, SameDiscovery
<1>3. req' \in [Reqs -> Request] /\ SidsOK'
  <2>1. CASE Middleware(r)
    BY <2>1, GotoFields, RespondFields DEF Middleware, Steps
  <2>2. CASE GuacDial(r)
    BY <2>2, RespondFields DEF GuacDial
  <2>3. CASE GuacConfig(r)
    <3>1. CASE Respond(r)
      BY <3>1, RespondFields
    <3>2. ASSUME NEW ip \in IF sess[req[r].sid].admin
                               THEN Addresses["sandbox"] \cap V4
                               ELSE {heap[sess[req[r].sid].sandbox].ip},
                 ~GuacPanics(r),
                 req' = [req EXCEPT ![r] = [@ EXCEPT !.pc = "dial", !.ip = ip]]
          PROVE  req' \in [Reqs -> Request] /\ SidsOK'
      <4> DEFINE m == [req[r] EXCEPT !.pc = "dial", !.ip = ip]
      <4>1. At(r, {"guac"}, "config") /\ req[r].sid \in SIDs
        BY <2>3 DEF GuacConfig, At, SidsOK, Naming
      <4>2. sess[req[r].sid].admin \/ sess[req[r].sid].sandbox \in Ptr
        BY <3>2, <4>1 DEF GuacPanics, ServerTypeOK, Session
      <4>3. ip \in V4 \cup {NoIP}
        BY <4>2 DEF DiscoveryInv, DiscoveryTypeOK, PoolTypeOK, Slot
      <4>4. m \in Request /\ m.sid \in SIDs
        BY <1>0, <4>1, <4>3 DEF Request, Steps
      <4>5. req' = [req EXCEPT ![r] = m]
        BY <3>2
      <4> HIDE DEF m
      <4> QED BY <4>4, <4>5, ReqUpdate
    <3> QED BY <2>3, <3>1, <3>2 DEF GuacConfig
  <2> QED BY <2>1, <2>2, <2>3
<1> QED BY <1>1, <1>2, <1>3 DEF ServerTypeOK

LEMMA ServerStep == ServerInv /\ [Next]_vars => ServerInv'
<1> SUFFICES ASSUME ServerInv, [Next]_vars PROVE ServerInv'
  OBVIOUS
<1>1. ASSUME NEW r \in Reqs, Accept(r) PROVE ServerInv'
  BY <1>1, AcceptInv
<1>2. ASSUME NEW r \in Reqs, Handler(r) PROVE ServerInv'
  BY <1>2, LoginStepInv, AdminStepInv, OtherStepInv DEF Handler
<1>3. CASE MapRace \/ LossPanic
  BY <1>3, CrashServerInv DEF MapRace, LossPanic
<1>4. CASE Background
  <2>1. DiscoveryInv' /\ UNCHANGED serverVars
    BY <1>4, RefreshInv, OutsideInv DEF Background, ServerInv
  <2> QED BY <2>1 DEF ServerInv, ServerTypeOK, SidsOK, serverVars
<1>5. CASE UNCHANGED vars
  <2>1. DiscoveryInv' /\ UNCHANGED serverVars
    BY <1>5, SameDiscovery DEF vars, ServerInv, poolVars, outside, serverVars
  <2> QED BY <2>1 DEF ServerInv, ServerTypeOK, SidsOK, serverVars
<1> QED BY <1>1, <1>2, <1>3, <1>4, <1>5 DEF Next

THEOREM ServerInvariant == Spec => []ServerInv
BY InitInv, ServerStep, PTL DEF Spec

(* The server's state is well typed, whatever requests overlap. *)
THEOREM ServerTypes == Spec => []TypeOK
<1>1. ServerInv => TypeOK
  BY DEF ServerInv, DiscoveryInv, ServerTypeOK, TypeOK
<1> QED BY <1>1, ServerInvariant, PTL

(* Requests that reserve and release sandboxes between two callbacks of a  *)
(* refresh do not keep the store from following the DNS answers.           *)
THEOREM ServerFollowsDNS == Spec => []StoreMatchesDiscovery
<1>1. ServerInv => StoreMatchesDiscovery
  BY DEF ServerInv, DiscoveryInv, FollowsDNS, StoreMatchesDiscovery, Announced
<1> QED BY <1>1, ServerInvariant, PTL

----------------------------------------------------------------------------
(* A request adds no slot to the store: it marks one, or reads.            *)
LEMMA HandlerStore ==
  ASSUME ServerInv, NEW r \in Reqs, Accept(r) \/ Handler(r)
  PROVE  StoreIPs' = StoreIPs /\ cap' = cap /\ ipMap' = ipMap
<1>0. PoolTypeOK /\ sess \in [SIDs -> Session]
  BY DEF ServerInv, DiscoveryInv, DiscoveryTypeOK, ServerTypeOK
<1>1. CASE UNCHANGED poolVars /\ UNCHANGED outside
  BY <1>1 DEF poolVars, outside, StoreIPs, Live
<1>2. ASSUME NEW q \in Ptr, NEW b \in BOOLEAN, SetReserved(q, b), UNCHANGED outside
      PROVE  StoreIPs' = StoreIPs /\ cap' = cap /\ ipMap' = ipMap
  BY <1>0, <1>2, SetReservedStore DEF outside
<1>3. CASE Accept(r)
  BY <1>1, <1>3, AcceptInv
<1>4. CASE Middleware(r) \/ GuacConfig(r) \/ GuacDial(r)
  BY <1>1, <1>4, OtherStepInv
<1>5. CASE LoginReserve(r)
  BY <1>1, <1>2, <1>5 DEF LoginReserve, ReserveFree, getFree, IsFirst, Free, Live, outside
<1>6. CASE Create(r) \/ LoginAttach(r) \/ AdminGet(r) \/ DeleteSession(r) \/ AssignAttach(r)
  <2>1. UNCHANGED poolVars /\ UNCHANGED outside
    BY <1>6 DEF Create, LoginAttach, AdminGet, DeleteSession, AssignAttach, poolVars, outside
  <2> QED BY <1>1, <2>1
<1>7. CASE AdminRelease(r)
  <2>1. UNCHANGED outside
    BY <1>7 DEF AdminRelease, outside
  <2>2. CASE UNCHANGED poolVars
    BY <1>1, <2>1, <2>2
  <2>3. CASE sess[req[r].sid].sandbox # nil /\ Release(sess[req[r].sid].sandbox)
    <3>1. req[r].sid \in SIDs
      BY <1>7 DEF ServerInv, AdminRelease, At, SidsOK, Naming
    <3>2. sess[req[r].sid].sandbox \in Ptr
      BY <1>0, <2>3, <3>1 DEF Session
    <3> QED BY <1>2, <2>1, <2>3, <3>2 DEF Release
  <2> QED BY <1>7, <2>2, <2>3 DEF AdminRelease
<1>8. CASE AssignReserve(r)
  BY <1>1, <1>2, <1>8 DEF AssignReserve, Reserve, get, IsFirst, Matches, Live, outside
<1> QED BY <1>3, <1>4, <1>5, <1>6, <1>7, <1>8 DEF Handler

(* Nor do requests between the callbacks, whatever they are, keep the      *)
(* store from staying as small as discovery makes it.                      *)
THEOREM ServerStoreBounded == Spec => []StoreBounded
<1>1. Init => SizeInv
  BY SizeInit DEF Init
<1>2. ServerInv /\ SizeInv /\ [Next]_vars => SizeInv'
  <2> SUFFICES ASSUME ServerInv, SizeInv, [Next]_vars PROVE SizeInv'
    OBVIOUS
  <2>0. DiscoveryInv
    BY DEF ServerInv
  <2>1. ASSUME NEW r \in Reqs, Accept(r) \/ Handler(r) PROVE SizeInv'
    BY <2>1, HandlerStore, SizeQuiet
  <2>2. CASE MapRace \/ LossPanic
    BY <2>0, <2>2, SizeCrash DEF MapRace, LossPanic, Crash
  <2>3. CASE Background
    BY <2>0, <2>3, SizeStep DEF Background
  <2>4. CASE UNCHANGED vars
    <3>1. StoreIPs' = StoreIPs /\ cap' = cap /\ ipMap' = ipMap
      BY <2>4 DEF vars, StoreIPs, Live
    <3> QED BY <3>1, SizeQuiet
  <2> QED BY <2>1, <2>2, <2>3, <2>4 DEF Next
<1>3. SizeInv => StoreBounded
  BY DEF SizeInv
<1> QED BY <1>1, <1>2, <1>3, ServerInvariant, PTL DEF Spec

(* No sandbox is registered twice, whatever requests overlap. *)
THEOREM ServerNoDuplicates == Spec => []NoDuplicateSandbox
<1>1. ServerInv => NoDuplicateSandbox
  BY DEF ServerInv, DiscoveryInv, FollowsDNS
<1> QED BY <1>1, ServerInvariant, PTL

(* No request makes a running server forget a sandbox, and a refresh only  *)
(* those that the answer it works on does not have.                        *)
THEOREM ServerForgetting == Spec => OnlyLostAreForgotten
<1>1. ServerInv /\ [Next]_vars => [Forgets]_discoveryVars
  <2> SUFFICES ASSUME ServerInv, [Next]_vars PROVE [Forgets]_discoveryVars
    OBVIOUS
  <2>0. DiscoveryInv
    BY DEF ServerInv
  <2>1. ASSUME NEW r \in Reqs, Accept(r) \/ Handler(r) PROVE Forgets
    BY <2>1, HandlerStore DEF Forgets
  <2>2. CASE MapRace \/ LossPanic
    BY <2>2 DEF MapRace, LossPanic, Crash, DiscoveryCrash, Forgets
  <2>3. CASE Background
    BY <2>0, <2>3, RefreshInv, OutsideInv DEF Background, Forgets
  <2>4. CASE UNCHANGED vars
    BY <2>4 DEF vars, discoveryVars
  <2> QED BY <2>1, <2>2, <2>3, <2>4 DEF Next
<1>2. [Forgets]_discoveryVars <=>
        [up' => \A ip \in StoreIPs : ip \in StoreIPs' \/ ip \notin ipMap["sandbox"]]_discoveryVars
  BY DEF Forgets
<1> QED BY <1>1, <1>2, ServerInvariant, PTL DEF Spec, OnlyLostAreForgotten

----------------------------------------------------------------------------
(* No request takes a step without moving on: steps that leave req as it   *)
(* is are a refresh's, or the world's.                                     *)
LEMMA HandlerMoves == ASSUME ServerInv, NEW r \in Reqs, Handler(r) PROVE req' # req
<1>1. req \in [Reqs -> Request]
  BY DEF ServerInv, ServerTypeOK
<1>2. ASSUME NEW pc \in Steps, Goto(r, pc), req[r].pc # pc PROVE req' # req
  <2>1. req'[r].pc = pc
    BY <1>1, <1>2 DEF Goto, Request
  <2> QED BY <1>2, <2>1
<1>3. ASSUME Respond(r), req[r].pc # "idle" PROVE req' # req
  <2>1. req'[r].pc = "idle"
    BY <1>1, <1>3 DEF Respond, NoRequest
  <2> QED BY <1>3, <2>1
<1>4. ASSUME NEW m, req' = [req EXCEPT ![r] = m], m.pc # req[r].pc PROVE req' # req
  <2>1. req'[r] = m
    BY <1>1, <1>4
  <2> QED BY <1>4, <2>1
<1>5. CASE Middleware(r)
  BY <1>2, <1>3, <1>5 DEF Middleware, At, Steps
<1>6. CASE LoginReserve(r)
  <2>1. ASSUME NEW q \in Ptr, req' = [req EXCEPT ![r] = [@ EXCEPT !.pc = "create", !.ptr = q]]
        PROVE  req' # req
    <3>1. req'[r].pc = "create"
      BY <1>1, <2>1 DEF Request
    <3> QED BY <1>6, <3>1 DEF LoginReserve, At
  <2> QED BY <1>3, <1>6, <2>1 DEF LoginReserve, At
<1>7. CASE Create(r)
  <2>1. req'[r].pc = "attach"
    BY <1>1, <1>7 DEF Create, Request
  <2> QED BY <1>7, <2>1 DEF Create, At
<1>8. CASE LoginAttach(r) \/ DeleteSession(r) \/ AssignAttach(r) \/ GuacDial(r)
  BY <1>3, <1>8 DEF LoginAttach, DeleteSession, AssignAttach, GuacDial, At
<1>9. CASE AdminGet(r) \/ AdminRelease(r)
  BY <1>2, <1>3, <1>9 DEF AdminGet, AdminRelease, At, Steps
<1>10. CASE AssignReserve(r)
  <2>1. ASSUME NEW q \in Ptr, req' = [req EXCEPT ![r] = [@ EXCEPT !.pc = "attach", !.ptr = q]]
        PROVE  req' # req
    <3>1. req'[r].pc = "attach"
      BY <1>1, <2>1 DEF Request
    <3> QED BY <1>10, <3>1 DEF AssignReserve, At
  <2> QED BY <1>3, <1>10, <2>1 DEF AssignReserve, At
<1>11. CASE GuacConfig(r)
  <2>1. ASSUME NEW ip, req' = [req EXCEPT ![r] = [@ EXCEPT !.pc = "dial", !.ip = ip]]
        PROVE  req' # req
    <3>1. req'[r].pc = "dial"
      BY <1>1, <2>1 DEF Request
    <3> QED BY <1>11, <3>1 DEF GuacConfig, At
  <2> QED BY <1>3, <1>11, <2>1 DEF GuacConfig, At
<1> QED BY <1>5, <1>6, <1>7, <1>8, <1>9, <1>10, <1>11 DEF Handler

KeepsReservations == \A ip \in Reserved \cap StoreIPs' : ip \in Reserved'

(* append finds the marks where it copied them.                            *)
LEMMA AddKeeps == ASSUME PoolTypeOK, NEW ip \in V4, Add(ip) PROVE KeepsReservations
<1>1. /\ PoolTypeOK' /\ len' = len + 1
      /\ \A i \in 1 .. len : heap'[<<cap', i>>] = heap[<<cap, i>>]
  BY AddSlots
<1>2. /\ Live = {<<cap, i>> : i \in 1 .. len} /\ len \in Nat
      /\ Live' = {<<cap', i>> : i \in 1 .. len'}
  BY <1>1, LiveSlots, PoolAssumption DEF Live, Ptr, PoolTypeOK
<1>3. ASSUME NEW a \in Reserved PROVE a \in Reserved'
  <2>1. PICK i \in 1 .. len : heap[<<cap, i>>].reserved /\ heap[<<cap, i>>].ip = a
    BY <1>2, <1>3 DEF Reserved
  <2>2. <<cap', i>> \in Live' /\ heap'[<<cap', i>>] = heap[<<cap, i>>]
    BY <1>1, <1>2
  <2> QED BY <2>1, <2>2 DEF Reserved
<1> QED BY <1>3 DEF KeepsReservations

(* A deletion leaves every other slot, and no two have one address.        *)
LEMMA DeleteKeeps ==
  ASSUME PoolTypeOK, NoDuplicateSandbox, NEW ip \in V4, Delete(ip)
  PROVE  KeepsReservations
<1>1. Live' \subseteq Live /\ heap' = heap
  BY DeleteStore
<1>2. ASSUME NEW a \in Reserved, a \in StoreIPs' PROVE a \in Reserved'
  <2>1. PICK q \in Live' : heap[q].ip = a
    BY <1>1, <1>2 DEF StoreIPs
  <2>2. PICK p \in Live : heap[p].reserved /\ heap[p].ip = a
    BY <1>2 DEF Reserved
  <2>3. p = q
    BY <1>1, <2>1, <2>2 DEF NoDuplicateSandbox
  <2> QED BY <1>1, <2>1, <2>2, <2>3 DEF Reserved
<1> QED BY <1>2 DEF KeepsReservations

(* No refresh frees a sandbox that stays in the store, whatever requests   *)
(* are between its callbacks.                                              *)
THEOREM ReservationsKept == Spec => RefreshKeepsReservations
<1> DEFINE A == up' /\ req' = req => KeepsReservations
<1>1. ServerInv /\ [Next]_vars => [A]_vars
  <2> SUFFICES ASSUME ServerInv, Next, up', req' = req PROVE KeepsReservations
    OBVIOUS
  <2>1. PoolTypeOK /\ NoDuplicateSandbox
    BY DEF ServerInv, DiscoveryInv, DiscoveryTypeOK, FollowsDNS
  <2>2. CASE UNCHANGED poolVars
    BY <2>2 DEF KeepsReservations, Reserved, Live, StoreIPs, poolVars
  <2>3. ASSUME NEW r \in Reqs, Accept(r) PROVE FALSE
    <3>1. req[r] = NoRequest /\ req'[r].pc = "middleware"
      BY <2>3, AcceptInv
    <3> QED BY <3>1 DEF NoRequest
  <2>4. ASSUME NEW r \in Reqs, Handler(r) PROVE FALSE
    BY <2>4, HandlerMoves
  <2>5. ~MapRace /\ ~LossPanic
    BY DEF MapRace, LossPanic, Crash, DiscoveryCrash
  <2>6. CASE Refresh
    <3>1. CASE UNCHANGED poolVars
      BY <2>2, <3>1
    <3>2. ASSUME NEW ip \in V4, OnDiscover(ip) PROVE KeepsReservations
      BY <2>1, <2>2, <3>2, AddKeeps DEF OnDiscover
    <3>3. ASSUME NEW ip \in V4, OnLost(ip) PROVE KeepsReservations
      BY <2>1, <2>2, <3>3, DeleteKeeps DEF OnLost
    <3>4. (RefreshLock \/ (\E s \in Services : LookupError(s) \/ LookupOK(s)) \/ RefreshUnlock)
            => UNCHANGED poolVars
      BY DEF RefreshLock, LookupError, LookupOK, RefreshUnlock, poolVars
    <3> QED BY <2>6, <3>1, <3>2, <3>3, <3>4 DEF Refresh
  <2>7. CASE DiscoveryRestart \/ Environment
    <3>1. UNCHANGED poolVars
      BY <2>7 DEF DiscoveryRestart, Environment, DnsChange, poolVars
    <3> QED BY <2>2, <3>1
  <2> QED BY <2>3, <2>4, <2>5, <2>6, <2>7 DEF Next, Background
<1>2. [A]_vars <=> [up' /\ req' = req => \A ip \in Reserved \cap StoreIPs' : ip \in Reserved']_vars
  BY DEF KeepsReservations
<1> QED BY <1>1, <1>2, ServerInvariant, PTL DEF Spec, RefreshKeepsReservations

----------------------------------------------------------------------------
(***************************************************************************)
(* onGuacConnect never dereferences a session's nil sandbox.  A session is *)
(* in the store before it has a sandbox or its admin mark, but its cookie  *)
(* is out only after; what a session once had it never loses, though it    *)
(* may come to point to another sandbox; and a session found before its    *)
(* deletion keeps what it had.                                             *)
(***************************************************************************)
Equipped(s) == sess[s].admin \/ sess[s].sandbox # nil

(* What is known of a request by the step it has reached. *)
Sound(r) ==
  /\ Naming(req[r]) => req[r].sid <= issued
  /\ req[r].kind = "guac" /\ req[r].pc = "middleware" => req[r].sid \in cookies
  /\ req[r].kind = "guac" /\ req[r].pc = "config" => Equipped(req[r].sid)
  /\ req[r].kind = "login" /\ req[r].pc \in {"create", "attach"} => req[r].ptr # nil
  /\ req[r].kind = "assign" /\ req[r].pc = "attach" => req[r].ptr # nil

EquippedFirst ==
  /\ \A s \in sessions \cup cookies : s <= issued
  /\ \A s \in sessions \cap cookies : Equipped(s)
  /\ \A r \in Reqs : Sound(r)

GuacInv == ServerInv /\ EquippedFirst

LEMMA NoRequestSound == ASSUME NEW r \in Reqs, req[r] = NoRequest PROVE Sound(r)
BY DEF Sound, NoRequest, Naming, AdminKinds

LEMMA GuacInit == Init => EquippedFirst
BY NoRequestSound DEF Init, EquippedFirst

LEMMA GuacCrash == GuacInv /\ Crash => EquippedFirst'
<1> SUFFICES ASSUME GuacInv, Crash PROVE EquippedFirst'
  OBVIOUS
<1>1. \A s \in cookies' : s <= issued'
  BY DEF Crash, GuacInv, EquippedFirst
<1>2. sessions' = {} /\ \A r \in Reqs : req'[r] = NoRequest
  BY DEF Crash
<1>3. \A r \in Reqs : Sound(r)'
  BY <1>2 DEF Sound, NoRequest, Naming, AdminKinds
<1> QED BY <1>1, <1>2, <1>3 DEF EquippedFirst

(* A request that has not moved stays sound when sessions are only added   *)
(* and keep what they have.                                                *)
Kept ==
  /\ issued <= issued' /\ cookies \subseteq cookies'
  /\ \A s \in SIDs : s <= issued /\ Equipped(s) => Equipped(s)'

LEMMA OthersSound ==
  ASSUME GuacInv, Kept, issued' \in Nat, NEW q \in Reqs, req'[q] = req[q]
  PROVE  Sound(q)'
<1>1. Sound(q)
  BY DEF GuacInv, EquippedFirst
<1>2. req[q] \in Request /\ issued \in Nat /\ SIDs \subseteq Nat
  BY DEF GuacInv, ServerInv, ServerTypeOK, SIDs
<1>3. Naming(req[q]) => req[q].sid \in SIDs
  BY DEF GuacInv, ServerInv, SidsOK
<1>4. Naming(req[q]) => req[q].sid \in SIDs /\ req[q].sid <= issued'
  <2>1. ASSUME Naming(req[q]) PROVE req[q].sid \in SIDs /\ req[q].sid <= issued'
    <3>1. req[q].sid \in Nat /\ req[q].sid \in SIDs /\ req[q].sid <= issued
      BY <1>1, <1>2, <1>3, <2>1 DEF Sound
    <3> QED BY <1>2, <3>1 DEF Kept
  <2> QED BY <2>1
<1>5. req[q].kind = "guac" /\ req[q].pc = "config" => Equipped(req[q].sid)'
  BY <1>1, <1>3 DEF Kept, Sound, Naming
<1> QED BY <1>1, <1>4, <1>5 DEF Kept, Sound, Naming

(* The steps that change no session. *)
LEMMA SameSessions ==
  ASSUME GuacInv, UNCHANGED <<issued, sess, cookies>>, sessions' \subseteq sessions,
         NEW r \in Reqs, Sound(r)', \A q \in Reqs : q # r => req'[q] = req[q]
  PROVE  EquippedFirst'
<1>1. Kept /\ issued' \in Nat
  BY DEF Kept, Equipped, GuacInv, ServerInv, ServerTypeOK
<1>2. \A q \in Reqs : Sound(q)'
  BY <1>1, OthersSound
<1>3. \A s \in sessions' \cup cookies' : s <= issued'
  BY DEF GuacInv, EquippedFirst
<1>4. \A s \in sessions' \cap cookies' : Equipped(s)'
  BY DEF GuacInv, EquippedFirst, Equipped
<1> QED BY <1>2, <1>3, <1>4 DEF EquippedFirst

LEMMA GuacAccept ==
  ASSUME GuacInv, NEW r \in Reqs, Accept(r)
  PROVE  EquippedFirst'
<1>1. /\ UNCHANGED <<issued, sessions, sess, cookies>>
      /\ req'[r].pc = "middleware"
      /\ \A q \in Reqs : q # r => req'[q] = req[q]
  BY AcceptInv DEF GuacInv
<1>2. /\ req'[r].kind = "guac" => req'[r].sid \in cookies
      /\ req'[r].kind \in AdminKinds => req'[r].sid \in 1 .. issued
  <2>1. CASE AcceptLogin(r)
    BY <2>1 DEF AcceptLogin, Begin, LoginKinds, AdminKinds, GuacInv, ServerInv, ServerTypeOK
  <2>2. CASE AcceptAdmin(r)
    <3>1. PICK kind \in Kinds \cap AdminKinds, sid \in 1 .. issued :
            \E ip \in IF kind = "assign" THEN Addresses["sandbox"] \cap V4 ELSE {NoIP} :
              Begin(r, kind, sid, ip)
      BY <2>2 DEF AcceptAdmin
    <3>2. req'[r].kind = kind /\ req'[r].sid = sid
      BY <3>1 DEF Begin, GuacInv, ServerInv, ServerTypeOK
    <3> QED BY <3>2 DEF AdminKinds
  <2>3. CASE AcceptGuac(r)
    BY <2>3 DEF AcceptGuac, Begin, AdminKinds, GuacInv, ServerInv, ServerTypeOK
  <2> QED BY <2>1, <2>2, <2>3 DEF Accept
<1>3. Naming(req'[r]) => req'[r].sid <= issued'
  BY <1>1, <1>2 DEF Naming, GuacInv, EquippedFirst, ServerInv, ServerTypeOK
<1>4. Sound(r)'
  BY <1>1, <1>2, <1>3 DEF Sound
<1> QED BY <1>1, <1>4, SameSessions

LEMMA GuacResponds ==
  ASSUME GuacInv, NEW r \in Reqs, Respond(r),
         UNCHANGED <<issued, sess, cookies>>, sessions' \subseteq sessions
  PROVE  EquippedFirst'
<1>1. req'[r] = NoRequest /\ \A q \in Reqs : q # r => req'[q] = req[q]
  BY RespondFields DEF GuacInv, ServerInv
<1>2. Sound(r)'
  BY <1>1 DEF Sound, NoRequest, Naming, AdminKinds
<1> QED BY <1>1, <1>2, SameSessions

(* A step that takes request r on to m and changes no session. *)
LEMMA GuacMoves ==
  ASSUME GuacInv, NEW r \in Reqs, NEW m \in Request, req' = [req EXCEPT ![r] = m],
         UNCHANGED <<issued, sessions, sess, cookies>>,
         m.kind = req[r].kind, m.sid = req[r].sid, m.pc # "middleware",
         m.pc = "attach" => m.kind = "assign",
         m.pc \in {"create", "attach"} /\ m.kind \in {"login", "assign"} => m.ptr # nil,
         m.pc = "config" => Equipped(m.sid)
  PROVE  EquippedFirst'
<1>1. Sound(r) /\ req \in [Reqs -> Request]
  BY DEF GuacInv, EquippedFirst, ServerInv, ServerTypeOK
<1>2. req'[r] = m /\ \A q \in Reqs : q # r => req'[q] = req[q]
  BY <1>1
<1>3. Naming(m) => m.sid <= issued
  BY <1>1 DEF Sound, Naming, AdminKinds
<1>4. m.pc = "config" => Equipped(m.sid)'
  BY DEF Equipped
<1>5. Sound(r)'
  BY <1>2, <1>3, <1>4 DEF Sound
<1> QED BY <1>2, <1>5, SameSessions

LEMMA GuacGoto ==
  ASSUME GuacInv, NEW r \in Reqs, NEW pc \in Steps, Goto(r, pc),
         UNCHANGED <<issued, sessions, sess, cookies>>,
         pc \notin {"middleware", "attach"},
         pc = "create" => req[r].kind = "admin",
         pc = "config" => Equipped(req[r].sid)
  PROVE  EquippedFirst'
<1> DEFINE m == [req[r] EXCEPT !.pc = pc]
<1>1. req[r] \in Request
  BY DEF GuacInv, ServerInv, ServerTypeOK
<1>2. m \in Request /\ m.pc = pc /\ m.kind = req[r].kind /\ m.sid = req[r].sid
  BY <1>1 DEF Request
<1>3. req' = [req EXCEPT ![r] = m]
  BY DEF Goto
<1> HIDE DEF m
<1> QED BY <1>2, <1>3, GuacMoves

LEMMA PtrNotNil == \A q \in Ptr : q # nil
BY DEF Ptr, nil

(* The steps that change no session: all but the two that attach and the   *)
(* creation.                                                               *)
LEMMA GuacQuiet ==
  ASSUME GuacInv, NEW r \in Reqs,
         \/ Middleware(r) \/ LoginReserve(r)
         \/ AdminGet(r) \/ AdminRelease(r) \/ DeleteSession(r) \/ AssignReserve(r)
         \/ GuacConfig(r) \/ GuacDial(r)
  PROVE  EquippedFirst'
<1>1. UNCHANGED <<issued, sess, cookies>> /\ sessions' \subseteq sessions
  BY DEF Middleware, LoginReserve, AdminGet, AdminRelease, DeleteSession, AssignReserve,
         GuacConfig, GuacDial
<1>2. Sound(r) /\ req[r] \in Request
  BY DEF GuacInv, EquippedFirst, ServerInv, ServerTypeOK
<1>3. CASE Respond(r)
  BY <1>1, <1>3, GuacResponds
<1>4. CASE Middleware(r)
  <2>1. UNCHANGED sessions
    BY <1>4 DEF Middleware
  <2>2. CASE At(r, {"login"}, "middleware") /\ Goto(r, "reserveFree")
    BY <1>1, <2>1, <2>2, GuacGoto DEF Steps
  <2>3. CASE At(r, {"admin"}, "middleware") /\ Goto(r, "create")
    BY <1>1, <2>1, <2>3, GuacGoto DEF Steps, At
  <2>4. CASE At(r, AdminKinds, "middleware") /\ Goto(r, "get")
    BY <1>1, <2>1, <2>4, GuacGoto DEF Steps
  <2>5. CASE At(r, {"guac"}, "middleware") /\ req[r].sid \in sessions /\ Goto(r, "config")
    <3>1. Equipped(req[r].sid)
      BY <1>2, <2>5 DEF At, Sound, GuacInv, EquippedFirst
    <3> QED BY <1>1, <2>1, <2>5, <3>1, GuacGoto DEF Steps
  <2> QED BY <1>3, <1>4, <2>2, <2>3, <2>4, <2>5 DEF Middleware
<1>5. CASE LoginReserve(r)
  <2>1. ASSUME NEW q \in Ptr, req' = [req EXCEPT ![r] = [@ EXCEPT !.pc = "create", !.ptr = q]]
        PROVE  EquippedFirst'
    <3> DEFINE m == [req[r] EXCEPT !.pc = "create", !.ptr = q]
    <3>1. m \in Request /\ m.pc = "create" /\ m.kind = req[r].kind /\ m.sid = req[r].sid /\ m.ptr = q
      BY <1>2 DEF Request, Steps
    <3>2. req' = [req EXCEPT ![r] = m] /\ UNCHANGED sessions
      BY <1>5, <2>1 DEF LoginReserve
    <3> HIDE DEF m
    <3> QED BY <1>1, <3>1, <3>2, PtrNotNil, GuacMoves
  <2> QED BY <1>3, <1>5, <2>1 DEF LoginReserve
<1>6. CASE AdminGet(r)
  BY <1>1, <1>3, <1>6, GuacGoto DEF AdminGet, Steps
<1>7. CASE AdminRelease(r)
  <2>1. UNCHANGED sessions
    BY <1>7 DEF AdminRelease
  <2>2. CASE Goto(r, IF req[r].kind = "delete" THEN "delete" ELSE "reserve")
    BY <1>1, <2>1, <2>2, GuacGoto DEF Steps
  <2> QED BY <1>3, <1>7, <2>2 DEF AdminRelease
<1>8. CASE DeleteSession(r) \/ GuacDial(r)
  BY <1>3, <1>8 DEF DeleteSession, GuacDial
<1>9. CASE AssignReserve(r)
  <2>1. ASSUME NEW q \in Ptr, req' = [req EXCEPT ![r] = [@ EXCEPT !.pc = "attach", !.ptr = q]]
        PROVE  EquippedFirst'
    <3> DEFINE m == [req[r] EXCEPT !.pc = "attach", !.ptr = q]
    <3>1. m \in Request /\ m.pc = "attach" /\ m.kind = req[r].kind /\ m.sid = req[r].sid /\ m.ptr = q
      BY <1>2 DEF Request, Steps
    <3>2. req' = [req EXCEPT ![r] = m] /\ UNCHANGED sessions /\ req[r].kind = "assign"
      BY <1>9, <2>1 DEF AssignReserve, At
    <3> HIDE DEF m
    <3> QED BY <1>1, <3>1, <3>2, PtrNotNil, GuacMoves
  <2> QED BY <1>3, <1>9, <2>1 DEF AssignReserve
<1>10. CASE GuacConfig(r)
  <2>1. ASSUME NEW ip \in V4 \cup {NoIP}, req' = [req EXCEPT ![r] = [@ EXCEPT !.pc = "dial", !.ip = ip]]
        PROVE  EquippedFirst'
    <3> DEFINE m == [req[r] EXCEPT !.pc = "dial", !.ip = ip]
    <3>1. m \in Request /\ m.pc = "dial" /\ m.kind = req[r].kind /\ m.sid = req[r].sid
      BY <1>2 DEF Request, Steps
    <3>2. req' = [req EXCEPT ![r] = m] /\ UNCHANGED sessions
      BY <1>10, <2>1 DEF GuacConfig
    <3> HIDE DEF m
    <3> QED BY <1>1, <3>1, <3>2, GuacMoves
  <2>2. req[r].sid \in SIDs
    BY <1>10 DEF GuacConfig, At, Naming, SidsOK, GuacInv, ServerInv
  <2>3. ~GuacPanics(r) =>
          (IF sess[req[r].sid].admin THEN Addresses["sandbox"] \cap V4
                                     ELSE {heap[sess[req[r].sid].sandbox].ip}) \subseteq V4 \cup {NoIP}
    BY <1>10, <2>2 DEF GuacConfig, GuacPanics, GuacInv, ServerInv, ServerTypeOK, Session,
                       DiscoveryInv, DiscoveryTypeOK, PoolTypeOK, Slot
  <2> QED BY <1>3, <1>10, <2>1, <2>3 DEF GuacConfig
<1> QED BY <1>4, <1>5, <1>6, <1>7, <1>8, <1>9, <1>10

(* A new session is nobody's yet: its cookie is not out. *)
LEMMA GuacCreate ==
  ASSUME GuacInv, NEW r \in Reqs, Create(r)
  PROVE  EquippedFirst'
<1> DEFINE m == [req[r] EXCEPT !.pc = "attach", !.sid = issued']
<1>1. /\ Sound(r) /\ req \in [Reqs -> Request] /\ req[r] \in Request
      /\ issued \in Nat /\ cookies \subseteq SIDs /\ sessions \subseteq SIDs
      /\ sess \in [SIDs -> Session] /\ SIDs \subseteq Nat
  BY DEF GuacInv, EquippedFirst, ServerInv, ServerTypeOK, SIDs
<1>2. /\ issued' = issued + 1 /\ cookies' = cookies /\ sessions' = sessions \cup {issued'}
      /\ \A s \in SIDs : s # issued' => sess'[s] = sess[s]
  BY <1>1 DEF Create
<1>3. /\ req'[r] = m /\ m.pc = "attach" /\ m.sid = issued' /\ m.kind = req[r].kind /\ m.ptr = req[r].ptr
      /\ \A q \in Reqs : q # r => req'[q] = req[q]
  BY <1>1 DEF Create, Request
<1>4. Kept /\ issued' \in Nat
  BY <1>1, <1>2 DEF Kept, Equipped
<1>5. Sound(r)'
  <2>1. req[r].kind \in LoginKinds /\ req[r].pc = "create"
    BY DEF Create, At
  <2> HIDE DEF m
  <2> QED BY <1>1, <1>2, <1>3, <1>4, <2>1 DEF Sound, LoginKinds
<1>6. \A q \in Reqs : Sound(q)'
  BY <1>3, <1>4, <1>5, OthersSound
<1>7. \A s \in sessions' \cup cookies' : s <= issued'
  BY <1>1, <1>2 DEF GuacInv, EquippedFirst
<1>8. \A s \in cookies : s \in SIDs /\ s <= issued
  BY <1>1 DEF GuacInv, EquippedFirst
<1>9. \A s \in sessions' \cap cookies' : Equipped(s)'
  BY <1>1, <1>2, <1>4, <1>8 DEF Kept, GuacInv, EquippedFirst
<1> QED BY <1>6, <1>7, <1>9 DEF EquippedFirst

LEMMA GuacAttach ==
  ASSUME GuacInv, NEW r \in Reqs, LoginAttach(r) \/ AssignAttach(r)
  PROVE  EquippedFirst'
<1>0. PICK sid : sid = req[r].sid
  OBVIOUS
<1>1. /\ Sound(r) /\ req[r] \in Request /\ sid \in SIDs /\ sid <= issued
      /\ issued \in Nat /\ sess \in [SIDs -> Session] /\ sessions \subseteq SIDs /\ cookies \subseteq SIDs
  <2>1. req[r].pc = "attach"
    BY DEF LoginAttach, AssignAttach, At
  <2> QED BY <1>0, <2>1 DEF GuacInv, EquippedFirst, ServerInv, ServerTypeOK, SidsOK, Naming, Sound
<1>2. /\ issued' = issued /\ sessions' = sessions /\ cookies' \in {cookies, cookies \cup {sid}}
      /\ Respond(r)
      /\ \A s \in SIDs : s # sid => sess'[s] = sess[s]
  BY <1>0, <1>1 DEF LoginAttach, AssignAttach
<1>3. Equipped(sid)'
  <2>1. CASE LoginAttach(r) /\ req[r].kind = "admin"
    <3>1. sess' = [sess EXCEPT ![sid].admin = TRUE]
      BY <1>0, <2>1 DEF LoginAttach
    <3> QED BY <1>1, <3>1 DEF Equipped, Session
  <2>2. CASE LoginAttach(r) /\ req[r].kind # "admin"
    <3>1. req[r].kind = "login" /\ req[r].pc = "attach"
      BY <2>2 DEF LoginAttach, At, LoginKinds
    <3>2. req[r].ptr # nil
      BY <1>1, <3>1 DEF Sound
    <3>3. sess' = [sess EXCEPT ![sid].sandbox = req[r].ptr]
      BY <1>0, <2>2 DEF LoginAttach
    <3> QED BY <1>1, <3>2, <3>3 DEF Equipped, Session
  <2>3. CASE AssignAttach(r)
    <3>1. req[r].ptr # nil
      BY <1>1, <2>3 DEF AssignAttach, At, Sound
    <3>2. sess' = [sess EXCEPT ![sid].sandbox = req[r].ptr]
      BY <1>0, <2>3 DEF AssignAttach
    <3> QED BY <1>1, <3>1, <3>2 DEF Equipped, Session
  <2> QED BY <2>1, <2>2, <2>3
<1>4. Kept /\ issued' \in Nat
  BY <1>1, <1>2, <1>3 DEF Kept, Equipped
<1>5. req'[r] = NoRequest /\ \A q \in Reqs : q # r => req'[q] = req[q]
  BY <1>2, RespondFields DEF GuacInv, ServerInv
<1>6. Sound(r)'
  BY <1>5 DEF Sound, NoRequest, Naming, AdminKinds
<1>7. \A q \in Reqs : Sound(q)'
  BY <1>4, <1>5, <1>6, OthersSound
<1>8. \A s \in sessions' \cup cookies' : s <= issued'
  BY <1>1, <1>2 DEF GuacInv, EquippedFirst
<1>9. \A s \in sessions' \cap cookies' : Equipped(s)'
  BY <1>1, <1>2, <1>3, <1>4, <1>8 DEF Kept, GuacInv, EquippedFirst
<1> QED BY <1>7, <1>8, <1>9 DEF EquippedFirst

LEMMA GuacStep == GuacInv /\ [Next]_vars => GuacInv'
<1> SUFFICES ASSUME GuacInv, [Next]_vars PROVE GuacInv'
  OBVIOUS
<1>1. ServerInv'
  BY ServerStep DEF GuacInv
<1>2. ASSUME NEW r \in Reqs, Accept(r) PROVE EquippedFirst'
  BY <1>2, GuacAccept
<1>3. ASSUME NEW r \in Reqs, Handler(r) PROVE EquippedFirst'
  BY <1>3, GuacQuiet, GuacCreate, GuacAttach DEF Handler
<1>4. ASSUME MapRace \/ LossPanic PROVE EquippedFirst'
  BY <1>4, GuacCrash DEF MapRace, LossPanic
<1>5. ASSUME UNCHANGED serverVars PROVE EquippedFirst'
  BY <1>5 DEF serverVars, GuacInv, EquippedFirst, Sound, Equipped
<1>6. ASSUME Background \/ UNCHANGED vars PROVE EquippedFirst'
  BY <1>5, <1>6 DEF Background, vars, serverVars
<1>7. EquippedFirst'
  BY <1>2, <1>3, <1>4, <1>6 DEF Next
<1> QED BY <1>1, <1>7 DEF GuacInv

(* Whatever requests of every kind overlap with refreshes and crashes, a   *)
(* tunnel's session has a sandbox or is an admin's when                    *)
(* guacdConfigFromSession looks.                                           *)
THEOREM NoNilSandbox == Spec => []GuacNeverPanics
<1>1. Init => GuacInv
  BY InitInv, GuacInit DEF GuacInv
<1>2. GuacInv => GuacNeverPanics
  BY DEF GuacInv, EquippedFirst, Sound, Equipped, GuacNeverPanics, GuacPanics, At
<1>3. Spec => []GuacInv
  BY <1>1, GuacStep, PTL DEF Spec
<1> QED BY <1>2, <1>3, PTL

=============================================================================
