-------------------------- MODULE DiscoveryProofs --------------------------
(***************************************************************************)
(* Proofs about Discovery: for any set of addresses, any deployment and    *)
(* any bound on the store, the sandbox store follows the DNS answers.      *)
(*                                                                         *)
(* The inductive invariant relates the store to ipMap in the middle of a   *)
(* refresh, when the two differ by the callbacks still to be made.         *)
(***************************************************************************)
EXTENDS Discovery, FunctionTheorems, FiniteSetTheorems, TLAPS

----------------------------------------------------------------------------
(* What one call does to the store of sandboxes: the lemmas these proofs   *)
(* and those about the control server rest on.                             *)

(* The live slots are the first len ones of the current array. *)
LEMMA LiveSlots ==
  PoolTypeOK => /\ Live = {<<cap, i>> : i \in 1 .. len}
                /\ \A i \in 1 .. len : <<cap, i>> \in Ptr /\ heap[<<cap, i>>] \in Slot
BY PoolAssumption DEF PoolTypeOK, Live, Ptr

LEMMA StoreAddresses ==
  PoolTypeOK => StoreIPs = {heap[<<cap, i>>].ip : i \in 1 .. len}
BY LiveSlots DEF StoreIPs

(* append, whether it copies the array or not, leaves the old elements     *)
(* where the new slice finds them and puts the new one behind them.        *)
LEMMA AddSlots ==
  ASSUME PoolTypeOK, NEW ip \in V4, Add(ip)
  PROVE  /\ PoolTypeOK'
         /\ len' = len + 1
         /\ \A i \in 1 .. len : heap'[<<cap', i>>] = heap[<<cap, i>>]
         /\ heap'[<<cap', len + 1>>] = [ip |-> ip, reserved |-> FALSE]
<1> DEFINE newCap == IF len < cap THEN cap ELSE Grown(cap)
<1>1. /\ cap \in Nat /\ len \in Nat /\ len <= cap /\ MaxCap \in Nat /\ cap <= MaxCap
      /\ heap \in [Ptr -> Slot]
  BY PoolAssumption DEF PoolTypeOK
<1>2. /\ cap' = newCap /\ newCap <= MaxCap /\ len' = len + 1
      /\ newCap \in Nat /\ len + 1 <= newCap /\ cap <= newCap
  BY <1>1 DEF Add, Grown
<1>3. \A q \in Ptr :
        heap'[q] = IF q = <<newCap, len + 1>> THEN [ip |-> ip, reserved |-> FALSE]
                   ELSE IF newCap # cap /\ q[1] = newCap /\ q[2] <= len THEN heap[<<cap, q[2]>>]
                   ELSE heap[q]
  BY DEF Add
<1>4. heap' \in [Ptr -> Slot]
  <2>1. [ip |-> ip, reserved |-> FALSE] \in Slot
    BY DEF Slot
  <2>2. \A q \in Ptr : q[2] <= len => <<cap, q[2]>> \in Ptr
    BY <1>1 DEF Ptr
  <2>3. \A q \in Ptr : heap'[q] \in Slot
    BY <1>1, <1>3, <2>1, <2>2
  <2>4. heap' = [q \in Ptr |-> heap'[q]]
    BY DEF Add
  <2> QED BY <2>3, <2>4
<1>5. ASSUME NEW i \in 1 .. len
      PROVE  heap'[<<cap', i>>] = heap[<<cap, i>>]
  <2>1. <<newCap, i>> \in Ptr /\ i # len + 1
    BY <1>1, <1>2 DEF Ptr
  <2> QED BY <1>2, <1>3, <2>1
<1>6. heap'[<<cap', len + 1>>] = [ip |-> ip, reserved |-> FALSE]
  <2>1. <<newCap, len + 1>> \in Ptr
    BY <1>1, <1>2 DEF Ptr
  <2> QED BY <1>2, <1>3, <2>1
<1>7. PoolTypeOK'
  BY <1>1, <1>2, <1>4 DEF PoolTypeOK
<1> QED BY <1>2, <1>5, <1>6, <1>7

(* Add registers its address and no other, once if it is new. *)
LEMMA AddStore ==
  ASSUME PoolTypeOK, NEW ip \in V4, Add(ip)
  PROVE  /\ PoolTypeOK'
         /\ StoreIPs' = StoreIPs \cup {ip}
         /\ NoDuplicateSandbox /\ ip \notin StoreIPs => NoDuplicateSandbox'
<1>1. /\ PoolTypeOK' /\ len' = len + 1 /\ len \in Nat
      /\ \A i \in 1 .. len : heap'[<<cap', i>>] = heap[<<cap, i>>]
      /\ heap'[<<cap', len + 1>>].ip = ip
  <2>1. len \in Nat
    BY PoolAssumption DEF PoolTypeOK
  <2>2. /\ PoolTypeOK' /\ len' = len + 1
        /\ \A i \in 1 .. len : heap'[<<cap', i>>] = heap[<<cap, i>>]
        /\ heap'[<<cap', len + 1>>] = [ip |-> ip, reserved |-> FALSE]
    BY AddSlots
  <2> QED BY <2>1, <2>2
<1>2. StoreIPs = {heap[<<cap, i>>].ip : i \in 1 .. len}
  BY StoreAddresses
<1>3. Live = {<<cap, i>> : i \in 1 .. len}
  BY LiveSlots
<1>4. Live' = {<<cap', i>> : i \in 1 .. len'}
  BY <1>1, PoolAssumption DEF Live, Ptr, PoolTypeOK
<1>5. StoreIPs' = {heap'[<<cap', i>>].ip : i \in 1 .. len'}
  BY <1>4 DEF StoreIPs
<1>6. 1 .. len' = (1 .. len) \cup {len + 1}
  BY <1>1
<1>7. StoreIPs' = StoreIPs \cup {ip}
  BY <1>1, <1>2, <1>5, <1>6
<1>8. ASSUME NoDuplicateSandbox, ip \notin StoreIPs
      PROVE  NoDuplicateSandbox'
  <2>1. ASSUME NEW i \in 1 .. len', NEW j \in 1 .. len',
               heap'[<<cap', i>>].ip = heap'[<<cap', j>>].ip
        PROVE  i = j
    <3>1. \A k \in 1 .. len : heap'[<<cap', k>>].ip # ip
      BY <1>1, <1>2, <1>8
    <3>2. CASE i \in 1 .. len /\ j \in 1 .. len
      <4>1. heap[<<cap, i>>].ip = heap[<<cap, j>>].ip
        BY <1>1, <2>1, <3>2
      <4>2. <<cap, i>> = <<cap, j>>
        BY <1>3, <1>8, <3>2, <4>1 DEF NoDuplicateSandbox
      <4> QED BY <4>2
    <3> QED BY <1>1, <1>6, <2>1, <3>1, <3>2
  <2> QED BY <1>4, <2>1 DEF NoDuplicateSandbox
<1> QED BY <1>1, <1>7, <1>8

(* A deletion that does not panic removes the last slot, and with it its   *)
(* address, when that is the address to delete; otherwise there is nothing *)
(* to delete.                                                              *)
LEMMA DeleteStore ==
  ASSUME PoolTypeOK, NoDuplicateSandbox, NEW ip \in V4, Delete(ip)
  PROVE  /\ PoolTypeOK'
         /\ StoreIPs' = StoreIPs \ {ip}
         /\ NoDuplicateSandbox'
         /\ Live' \subseteq Live
         /\ heap' = heap
<1>1. /\ heap' = heap /\ cap' = cap
      /\ len \in Nat /\ cap \in Nat /\ len <= cap
      /\ len' = IF Matches(ip) = {} THEN len ELSE len - 1
  BY PoolAssumption DEF Delete, PoolTypeOK
<1>2. Live = {<<cap, i>> : i \in 1 .. len}
  BY LiveSlots
<1>3. Matches(ip) # {} => len > 0
  BY <1>1, <1>2 DEF Matches
<1>4. PoolTypeOK'
  BY <1>1, <1>3, PoolAssumption DEF PoolTypeOK
<1>5. Live' = {<<cap', i>> : i \in 1 .. len'}
  BY <1>4, PoolAssumption DEF Live, Ptr, PoolTypeOK
<1>6. Live' \subseteq Live
  BY <1>1, <1>2, <1>3, <1>5
<1>7. NoDuplicateSandbox'
  BY <1>1, <1>6 DEF NoDuplicateSandbox
<1>8. StoreIPs' = StoreIPs \ {ip}
  <2>1. CASE Matches(ip) = {}
    <3>1. Live' = Live
      BY <1>1, <1>2, <1>5, <2>1
    <3>2. ip \notin StoreIPs
      BY <2>1 DEF Matches, StoreIPs
    <3> QED BY <1>1, <3>1, <3>2 DEF StoreIPs
  <2>2. CASE Matches(ip) # {}
    <3>1. PICK m \in Matches(ip) : TRUE
      BY <2>2
    <3>2. m \in Live /\ heap[m].ip = ip
      BY <3>1 DEF Matches
    <3>3. ~(m[2] < len)
      BY <3>1 DEF Delete, DeletePanics
    <3>4. m = <<cap, len>>
      BY <1>1, <1>2, <3>2, <3>3
    <3>5. Live' = Live \ {m}
      BY <1>1, <1>2, <1>5, <2>2, <3>2, <3>4
    <3>6. \A q \in Live : heap[q].ip = ip => q = m
      BY <3>2 DEF NoDuplicateSandbox
    <3>7. StoreIPs' = {heap[q].ip : q \in Live \ {m}}
      BY <1>1, <3>5 DEF StoreIPs
    <3> QED BY <3>2, <3>6, <3>7 DEF StoreIPs
  <2> QED BY <2>1, <2>2
<1> QED BY <1>1, <1>4, <1>6, <1>7, <1>8

(* Marking a slot changes neither what is registered nor where. *)
LEMMA SetReservedStore ==
  ASSUME PoolTypeOK, NEW q \in Ptr, NEW b \in BOOLEAN, SetReserved(q, b)
  PROVE  /\ PoolTypeOK'
         /\ cap' = cap /\ len' = len
         /\ \A p \in Ptr : heap'[p].ip = heap[p].ip
         /\ \A p \in Ptr : heap'[p].reserved = IF p = q THEN b ELSE heap[p].reserved
         /\ Live' = Live
         /\ StoreIPs' = StoreIPs
         /\ NoDuplicateSandbox => NoDuplicateSandbox'
<1>1. /\ cap' = cap /\ len' = len
      /\ heap' = [heap EXCEPT ![q].reserved = b]
      /\ heap \in [Ptr -> Slot]
  BY DEF SetReserved, PoolTypeOK
<1>2. heap' \in [Ptr -> Slot]
  BY <1>1 DEF Slot
<1>3. \A p \in Ptr : heap'[p].ip = heap[p].ip
  BY <1>1 DEF Slot
<1>4. \A p \in Ptr : heap'[p].reserved = IF p = q THEN b ELSE heap[p].reserved
  BY <1>1 DEF Slot
<1>5. Live' = Live
  BY <1>1 DEF Live
<1>6. \A p \in Live : heap'[p].ip = heap[p].ip
  BY <1>3 DEF Live
<1>7. StoreIPs' = StoreIPs
  BY <1>5, <1>6 DEF StoreIPs
<1>8. NoDuplicateSandbox => NoDuplicateSandbox'
  BY <1>5, <1>6 DEF NoDuplicateSandbox
<1>9. PoolTypeOK'
  BY <1>1, <1>2 DEF PoolTypeOK
<1> QED BY <1>1, <1>3, <1>4, <1>5, <1>7, <1>8, <1>9

----------------------------------------------------------------------------
(* The store and the DNS answers. *)

FollowsDNS ==
  /\ StoreIPs = Announced
  /\ NoDuplicateSandbox
  /\ newIPs \subseteq ipMap[cur]
  /\ lostIPs \cap ipMap[cur] = {}
  /\ ~locked => newIPs = {} /\ lostIPs = {}

DiscoveryInv == DiscoveryTypeOK /\ FollowsDNS

(* A process that starts has an empty store and has announced nothing. *)
LEMMA EmptyStore ==
  ASSUME PoolInit
  PROVE  PoolTypeOK /\ StoreIPs = {} /\ NoDuplicateSandbox
<1>1. PoolTypeOK
  BY PoolAssumption DEF PoolInit, PoolTypeOK, Slot
<1>2. Live = {}
  BY DEF PoolInit, Live, Ptr
<1> QED BY <1>1, <1>2 DEF StoreIPs, NoDuplicateSandbox

LEMMA DiscoveryInitInv == DiscoveryInit => DiscoveryInv
<1> SUFFICES ASSUME DiscoveryInit PROVE DiscoveryInv
  OBVIOUS
<1>1. PoolTypeOK /\ StoreIPs = {} /\ NoDuplicateSandbox
  BY EmptyStore DEF DiscoveryInit, DiscoveryBoot
<1>2. DiscoveryTypeOK
  BY <1>1 DEF DiscoveryInit, DiscoveryBoot, DiscoveryTypeOK, Services
<1>3. FollowsDNS
  BY <1>1 DEF DiscoveryInit, DiscoveryBoot, FollowsDNS, Announced, Services
<1> QED BY <1>2, <1>3 DEF DiscoveryInv

LEMMA CrashInv == DiscoveryInv /\ DiscoveryCrash => DiscoveryInv'
<1> SUFFICES ASSUME DiscoveryInv, DiscoveryCrash PROVE DiscoveryInv'
  OBVIOUS
<1>1. /\ heap' = [q \in Ptr |-> [ip |-> NoIP, reserved |-> FALSE]] /\ cap' = 0 /\ len' = 0
      /\ up' = FALSE /\ dns' = dns /\ locked' = FALSE /\ todo' = {} /\ cur' = "guacd"
      /\ newIPs' = {} /\ lostIPs' = {} /\ ipMap' = [s \in Services |-> {}]
  BY DEF DiscoveryCrash, PoolReset
<1>2. PoolTypeOK'
  BY <1>1, PoolAssumption DEF PoolTypeOK, Slot
<1>3. Live' = {}
  BY <1>1 DEF Live, Ptr
<1>4. StoreIPs' = {} /\ NoDuplicateSandbox'
  BY <1>3 DEF StoreIPs, NoDuplicateSandbox
<1>5. DiscoveryTypeOK'
  BY <1>1, <1>2 DEF DiscoveryTypeOK, DiscoveryInv, Services
<1>6. FollowsDNS'
  BY <1>1, <1>4 DEF FollowsDNS, Announced, Services
<1> QED BY <1>5, <1>6 DEF DiscoveryInv

(* Steps that leave the store and ipMap alone. *)
LEMMA QuietInv ==
  ASSUME DiscoveryInv, UNCHANGED <<heap, cap, len, ipMap, cur, newIPs, lostIPs>>,
         up' \in BOOLEAN, locked' \in BOOLEAN, todo' \in SUBSET Services,
         dns' \in [Services -> SUBSET (V4 \cup V6)], \A s \in Services : dns'[s] \in Answers(s),
         locked' \/ ~locked \/ AtLoopHead
  PROVE  DiscoveryInv' /\ StoreIPs' = StoreIPs
<1>1. Live' = Live
  BY DEF Live
<1>2. StoreIPs' = StoreIPs /\ (NoDuplicateSandbox => NoDuplicateSandbox')
  BY <1>1 DEF StoreIPs, NoDuplicateSandbox
<1>3. DiscoveryTypeOK'
  BY DEF DiscoveryInv, DiscoveryTypeOK, PoolTypeOK
<1>4. FollowsDNS'
  BY <1>2 DEF DiscoveryInv, FollowsDNS, Announced, AtLoopHead
<1> QED BY <1>2, <1>3, <1>4 DEF DiscoveryInv

LEMMA LookupInv ==
  ASSUME DiscoveryInv, NEW s \in Services, LookupOK(s)
  PROVE  DiscoveryInv' /\ StoreIPs' = StoreIPs
<1> DEFINE ips == dns[s] \cap V4
<1>1. /\ UNCHANGED <<heap, cap, len, up, dns, locked>>
      /\ todo' = todo \ {s} /\ cur' = s
      /\ newIPs' = ips \ ipMap[s] /\ lostIPs' = ipMap[s] \ ips
      /\ ipMap' = [ipMap EXCEPT ![s] = ips]
      /\ locked /\ newIPs = {} /\ lostIPs = {}
  BY DEF LookupOK, AtLoopHead
<1>2. ipMap \in [Services -> SUBSET V4] /\ ips \in SUBSET V4
  BY DEF DiscoveryInv, DiscoveryTypeOK
<1>3. Live' = Live
  BY <1>1 DEF Live
<1>4. StoreIPs' = StoreIPs /\ NoDuplicateSandbox'
  BY <1>1, <1>3 DEF StoreIPs, NoDuplicateSandbox, DiscoveryInv, FollowsDNS
<1>5. StoreIPs = ipMap["sandbox"]
  BY <1>1 DEF DiscoveryInv, FollowsDNS, Announced
<1>6. Announced' = ipMap["sandbox"]
  BY <1>1, <1>2 DEF Announced, Services
<1>7. DiscoveryTypeOK'
  <2>1. PoolTypeOK'
    BY <1>1 DEF DiscoveryInv, DiscoveryTypeOK, PoolTypeOK
  <2>2. ipMap' \in [Services -> SUBSET V4] /\ newIPs' \in SUBSET V4 /\ lostIPs' \in SUBSET V4
    BY <1>1, <1>2
  <2> QED BY <1>1, <2>1, <2>2 DEF DiscoveryInv, DiscoveryTypeOK
<1>8. FollowsDNS'
  BY <1>1, <1>2, <1>4, <1>5, <1>6 DEF FollowsDNS
<1> QED BY <1>4, <1>7, <1>8 DEF DiscoveryInv

LEMMA OnDiscoverInv ==
  ASSUME DiscoveryInv, NEW ip \in V4, OnDiscover(ip)
  PROVE  DiscoveryInv' /\ StoreIPs \subseteq StoreIPs'
<1>1. /\ UNCHANGED <<up, dns, ipMap, locked, todo, cur, lostIPs>>
      /\ ip \in newIPs /\ newIPs' = newIPs \ {ip}
      /\ IF cur = "guacd" THEN UNCHANGED poolVars ELSE Add(ip)
  BY DEF OnDiscover
<1>2. /\ PoolTypeOK /\ cur \in Services /\ StoreIPs = Announced /\ NoDuplicateSandbox
      /\ ip \in ipMap[cur] /\ ip \notin lostIPs /\ locked
  BY <1>1 DEF DiscoveryInv, DiscoveryTypeOK, FollowsDNS
<1>3. /\ PoolTypeOK' /\ NoDuplicateSandbox' /\ StoreIPs' = Announced'
      /\ StoreIPs \subseteq StoreIPs'
  <2>1. CASE cur = "guacd"
    <3>1. UNCHANGED <<heap, cap, len>>
      BY <1>1, <2>1 DEF poolVars
    <3>2. Live' = Live
      BY <3>1 DEF Live
    <3>3. PoolTypeOK' /\ StoreIPs' = StoreIPs /\ NoDuplicateSandbox'
      BY <1>2, <3>1, <3>2 DEF PoolTypeOK, StoreIPs, NoDuplicateSandbox
    <3>4. Announced' = Announced
      BY <1>1, <2>1 DEF Announced
    <3> QED BY <1>2, <3>3, <3>4
  <2>2. CASE cur = "sandbox"
    <3>1. Announced = (ipMap["sandbox"] \ newIPs) \cup lostIPs
      BY <2>2 DEF Announced
    <3>2. ip \notin StoreIPs
      BY <1>1, <1>2, <3>1
    <3>3. PoolTypeOK' /\ StoreIPs' = StoreIPs \cup {ip} /\ NoDuplicateSandbox'
      BY <1>1, <1>2, <2>2, <3>2, AddStore
    <3>4. Announced' = Announced \cup {ip}
      BY <1>1, <1>2, <2>2 DEF Announced
    <3> QED BY <1>2, <3>3, <3>4
  <2> QED BY <1>2, <2>1, <2>2 DEF Services
<1>4. DiscoveryTypeOK'
  BY <1>1, <1>3 DEF DiscoveryInv, DiscoveryTypeOK
<1>5. FollowsDNS'
  BY <1>1, <1>2, <1>3 DEF DiscoveryInv, FollowsDNS
<1> QED BY <1>3, <1>4, <1>5 DEF DiscoveryInv

LEMMA OnLostInv ==
  ASSUME DiscoveryInv, NEW ip \in V4, OnLost(ip)
  PROVE  /\ DiscoveryInv'
         /\ \A a \in StoreIPs : a \in StoreIPs' \/ a \notin ipMap["sandbox"]
<1>1. /\ UNCHANGED <<up, dns, ipMap, locked, todo, cur, newIPs>>
      /\ newIPs = {} /\ ip \in lostIPs /\ lostIPs' = lostIPs \ {ip}
      /\ IF cur = "guacd" THEN UNCHANGED poolVars ELSE Delete(ip)
  BY DEF OnLost
<1>2. /\ PoolTypeOK /\ cur \in Services /\ StoreIPs = Announced /\ NoDuplicateSandbox
      /\ ip \notin ipMap[cur] /\ locked
  BY <1>1 DEF DiscoveryInv, DiscoveryTypeOK, FollowsDNS
<1>3. /\ PoolTypeOK' /\ NoDuplicateSandbox' /\ StoreIPs' = Announced'
      /\ \A a \in StoreIPs : a \in StoreIPs' \/ a \notin ipMap["sandbox"]
  <2>1. CASE cur = "guacd"
    <3>1. UNCHANGED <<heap, cap, len>>
      BY <1>1, <2>1 DEF poolVars
    <3>2. Live' = Live
      BY <3>1 DEF Live
    <3>3. PoolTypeOK' /\ StoreIPs' = StoreIPs /\ NoDuplicateSandbox'
      BY <1>2, <3>1, <3>2 DEF PoolTypeOK, StoreIPs, NoDuplicateSandbox
    <3>4. Announced' = Announced
      BY <1>1, <2>1 DEF Announced
    <3> QED BY <1>2, <3>3, <3>4
  <2>2. CASE cur = "sandbox"
    <3>1. PoolTypeOK' /\ StoreIPs' = StoreIPs \ {ip} /\ NoDuplicateSandbox'
      BY <1>1, <1>2, <2>2, DeleteStore
    <3>2. Announced' = Announced \ {ip}
      BY <1>1, <1>2, <2>2 DEF Announced
    <3> QED BY <1>2, <2>2, <3>1, <3>2
  <2> QED BY <1>2, <2>1, <2>2 DEF Services
<1>4. DiscoveryTypeOK'
  BY <1>1, <1>3 DEF DiscoveryInv, DiscoveryTypeOK
<1>5. FollowsDNS'
  BY <1>1, <1>2, <1>3 DEF DiscoveryInv, FollowsDNS
<1> QED BY <1>3, <1>4, <1>5 DEF DiscoveryInv

----------------------------------------------------------------------------
Forgets == up' => \A ip \in StoreIPs : ip \in StoreIPs' \/ ip \notin ipMap["sandbox"]

(* One step of a refresh. *)
LEMMA RefreshInv == DiscoveryInv /\ Refresh => DiscoveryInv' /\ Forgets
<1> SUFFICES ASSUME DiscoveryInv, Refresh PROVE DiscoveryInv' /\ Forgets
  OBVIOUS
<1> USE DEF Forgets
<1>0. /\ up \in BOOLEAN /\ locked \in BOOLEAN /\ todo \in SUBSET Services
      /\ dns \in [Services -> SUBSET (V4 \cup V6)]
      /\ \A s \in Services : dns[s] \in Answers(s)
  BY DEF DiscoveryInv, DiscoveryTypeOK
<1>1. CASE RefreshLock
  <2>1. DiscoveryInv' /\ StoreIPs' = StoreIPs
    BY <1>0, <1>1, QuietInv DEF RefreshLock
  <2> QED BY <2>1
<1>2. ASSUME NEW s \in Services, LookupError(s)
      PROVE  DiscoveryInv' /\ Forgets
  <2>1. DiscoveryInv' /\ StoreIPs' = StoreIPs
    BY <1>0, <1>2, QuietInv DEF LookupError
  <2> QED BY <2>1
<1>3. ASSUME NEW s \in Services, LookupOK(s)
      PROVE  DiscoveryInv' /\ Forgets
  BY <1>3, LookupInv
<1>4. ASSUME NEW ip \in V4, OnDiscover(ip)
      PROVE  DiscoveryInv' /\ Forgets
  BY <1>4, OnDiscoverInv
<1>5. ASSUME NEW ip \in V4, OnLost(ip)
      PROVE  DiscoveryInv' /\ Forgets
  BY <1>5, OnLostInv
<1>6. CASE RefreshUnlock
  <2>1. DiscoveryInv' /\ StoreIPs' = StoreIPs
    BY <1>0, <1>6, QuietInv DEF RefreshUnlock
  <2> QED BY <2>1
<1> QED BY <1>1, <1>2, <1>3, <1>4, <1>5, <1>6 DEF Refresh

(* A step of the world around the process. *)
LEMMA OutsideInv ==
  DiscoveryInv /\ (DiscoveryRestart \/ Environment) => DiscoveryInv' /\ StoreIPs' = StoreIPs
<1> SUFFICES ASSUME DiscoveryInv, DiscoveryRestart \/ Environment
             PROVE  DiscoveryInv' /\ StoreIPs' = StoreIPs
  OBVIOUS
<1>0. /\ up \in BOOLEAN /\ locked \in BOOLEAN /\ todo \in SUBSET Services
      /\ dns \in [Services -> SUBSET (V4 \cup V6)]
      /\ \A s \in Services : dns[s] \in Answers(s)
  BY DEF DiscoveryInv, DiscoveryTypeOK
<1>1. CASE DiscoveryRestart
  BY <1>0, <1>1, QuietInv DEF DiscoveryRestart
<1>2. ASSUME NEW s \in Services, NEW answer \in Answers(s), DnsChange(s, answer)
      PROVE  DiscoveryInv' /\ StoreIPs' = StoreIPs
  <2>1. dns' \in [Services -> SUBSET (V4 \cup V6)] /\ \A t \in Services : dns'[t] \in Answers(t)
    BY <1>0, <1>2, DiscoveryAssumption DEF DnsChange, Answers
  <2> QED BY <1>0, <1>2, <2>1, QuietInv DEF DnsChange
<1> QED BY <1>1, <1>2 DEF Environment

LEMMA DiscoveryStep == DiscoveryInv /\ [DiscoveryNext]_discoveryVars => DiscoveryInv'
<1> SUFFICES ASSUME DiscoveryInv, [DiscoveryNext]_discoveryVars PROVE DiscoveryInv'
  OBVIOUS
<1>1. CASE Refresh
  BY <1>1, RefreshInv
<1>2. CASE DiscoveryPanic
  BY <1>2, CrashInv DEF DiscoveryPanic
<1>3. CASE DiscoveryRestart \/ Environment
  BY <1>3, OutsideInv
<1>4. CASE UNCHANGED discoveryVars
  BY <1>4, QuietInv DEF discoveryVars, DiscoveryInv, DiscoveryTypeOK
<1> QED BY <1>1, <1>2, <1>3, <1>4 DEF DiscoveryNext

THEOREM DiscoveryInvariant == DiscoverySpec => []DiscoveryInv
BY DiscoveryInitInv, DiscoveryStep, PTL DEF DiscoverySpec

(* Every state of the discovery loop is well typed; in particular the      *)
(* store never outgrows the array behind it.                               *)
THEOREM DiscoveryTypes == DiscoverySpec => []DiscoveryTypeOK
<1>1. DiscoveryInv => DiscoveryTypeOK
  BY DEF DiscoveryInv
<1> QED BY <1>1, DiscoveryInvariant, PTL

(* Between two refreshes the store holds exactly the sandboxes of the last *)
(* DNS answer, whatever came, went, failed or crashed before.              *)
THEOREM StoreFollowsDNS == DiscoverySpec => []StoreMatchesDiscovery
<1>1. DiscoveryInv => StoreMatchesDiscovery
  BY DEF DiscoveryInv, FollowsDNS, StoreMatchesDiscovery, Announced
<1> QED BY <1>1, DiscoveryInvariant, PTL

(* No sandbox is registered twice. *)
THEOREM NoDuplicates == DiscoverySpec => []NoDuplicateSandbox
<1>1. DiscoveryInv => NoDuplicateSandbox
  BY DEF DiscoveryInv, FollowsDNS
<1> QED BY <1>1, DiscoveryInvariant, PTL

(* A running server only forgets sandboxes that the answer it works on     *)
(* does not have.                                                          *)
THEOREM Forgetting == DiscoverySpec => OnlyLostAreForgotten
<1>1. DiscoveryInv /\ [DiscoveryNext]_discoveryVars => [Forgets]_discoveryVars
  <2> SUFFICES ASSUME DiscoveryInv, DiscoveryNext PROVE Forgets
    OBVIOUS
  <2>1. CASE Refresh
    BY <2>1, RefreshInv
  <2>2. CASE DiscoveryPanic
    BY <2>2 DEF DiscoveryPanic, DiscoveryCrash, Forgets
  <2>3. CASE DiscoveryRestart \/ Environment
    BY <2>3, OutsideInv DEF Forgets
  <2> QED BY <2>1, <2>2, <2>3 DEF DiscoveryNext
<1>2. [Forgets]_discoveryVars <=>
        [up' => \A ip \in StoreIPs : ip \in StoreIPs' \/ ip \notin ipMap["sandbox"]]_discoveryVars
  BY DEF Forgets
<1> QED BY <1>1, <1>2, DiscoveryInvariant, PTL DEF DiscoverySpec, OnlyLostAreForgotten

----------------------------------------------------------------------------
(* The size of the store. *)

(* The store has as many slots as addresses. *)
LEMMA StoreCounted ==
  ASSUME PoolTypeOK, NoDuplicateSandbox
  PROVE  IsFiniteSet(StoreIPs) /\ Cardinality(StoreIPs) = len
<1> DEFINE slots == 1 .. len
           ipAt  == [i \in slots |-> heap[<<cap, i>>].ip]
<1>1. len \in Nat
  BY PoolAssumption DEF PoolTypeOK
<1>2. StoreIPs = {ipAt[i] : i \in slots}
  BY StoreAddresses
<1>3. \A i, j \in slots : ipAt[i] = ipAt[j] => i = j
  <2> SUFFICES ASSUME NEW i \in slots, NEW j \in slots, ipAt[i] = ipAt[j]
               PROVE  i = j
    OBVIOUS
  <2>1. <<cap, i>> \in Live /\ <<cap, j>> \in Live
    BY LiveSlots
  <2>2. <<cap, i>> = <<cap, j>>
    BY <2>1 DEF NoDuplicateSandbox
  <2> QED BY <2>2
<1>4. ExistsBijection(slots, StoreIPs)
  <2>1. ipAt \in [slots -> StoreIPs] /\ \A a \in StoreIPs : \E i \in slots : ipAt[i] = a
    BY <1>2
  <2>2. ipAt \in Bijection(slots, StoreIPs)
    <3> HIDE DEF ipAt, slots
    <3> QED BY <1>3, <2>1, Fun_IsBij
  <2> QED BY <2>2, Fun_ExistsBij
<1>5. IsFiniteSet(slots) /\ Cardinality(slots) = len
  BY <1>1, FS_Interval
<1> QED BY <1>4, <1>5, FS_Bijection

(* What the store and ipMap have are sandboxes. *)
SizeInv ==
  /\ StoreIPs \subseteq Sandboxes
  /\ ipMap["sandbox"] \subseteq Sandboxes
  /\ StoreBounded

LEMMA SizeInit == DiscoveryInit => SizeInv
<1> SUFFICES ASSUME DiscoveryInit PROVE SizeInv
  OBVIOUS
<1>1. StoreIPs = {}
  BY EmptyStore DEF DiscoveryInit, DiscoveryBoot
<1>2. cap = 0 /\ ipMap["sandbox"] = {}
  BY DEF DiscoveryInit, DiscoveryBoot, PoolInit, Services
<1> QED BY <1>1, <1>2 DEF SizeInv, StoreBounded

LEMMA SizeCrash == DiscoveryInv /\ DiscoveryCrash => SizeInv'
<1> SUFFICES ASSUME DiscoveryInv, DiscoveryCrash PROVE SizeInv'
  OBVIOUS
<1>1. cap' = 0 /\ len' = 0 /\ ipMap' = [s \in Services |-> {}]
  BY DEF DiscoveryCrash, PoolReset
<1>2. Live' = {}
  BY <1>1 DEF Live, Ptr
<1>3. StoreIPs' = {} /\ ipMap'["sandbox"] = {}
  BY <1>1, <1>2 DEF StoreIPs, Services
<1> QED BY <1>1, <1>3 DEF SizeInv, StoreBounded

(* Steps that leave addresses and array alone; also requests' are such.    *)
LEMMA SizeQuiet ==
  ASSUME SizeInv, StoreIPs' = StoreIPs, cap' = cap, ipMap' = ipMap
  PROVE  SizeInv'
BY DEF SizeInv, StoreBounded

(* append doubles a full array only, and then each of its slots has an     *)
(* address of its own, and none the new one.                               *)
LEMMA SizeAdd ==
  ASSUME PoolTypeOK, NoDuplicateSandbox, StoreIPs \subseteq Sandboxes, StoreBounded,
         NEW ip \in Sandboxes, ip \notin StoreIPs, Add(ip)
  PROVE  StoreBounded' /\ StoreIPs' \subseteq Sandboxes
<1> DEFINE n == Cardinality(Sandboxes)
<1>1. ip \in V4 /\ IsFiniteSet(Sandboxes) /\ n \in Nat
  BY SandboxesAssumption, FS_CardinalityType DEF Sandboxes
<1>2. StoreIPs' \subseteq Sandboxes
  BY <1>1, AddStore
<1>3. len + 1 <= n
  <2>1. IsFiniteSet(StoreIPs) /\ Cardinality(StoreIPs) = len
    BY StoreCounted
  <2>2. Cardinality(StoreIPs \cup {ip}) = len + 1
    BY <2>1, FS_AddElement
  <2>3. StoreIPs \cup {ip} \in SUBSET Sandboxes
    OBVIOUS
  <2> QED BY <1>1, <2>2, <2>3, FS_Subset
<1>4. cap \in Nat /\ len \in Nat /\ len <= cap /\ cap' = IF len < cap THEN cap ELSE Grown(cap)
  BY PoolAssumption DEF PoolTypeOK, Add
<1>5. cap' \in {0, 1} \/ cap' <= 2 * (n - 1)
  <2>1. CASE len < cap
    BY <1>4, <2>1 DEF StoreBounded
  <2>2. CASE len = cap
    <3> HIDE DEF n
    <3> QED BY <1>1, <1>3, <1>4, <2>2 DEF Grown
  <2> QED BY <1>4, <2>1, <2>2
<1> QED BY <1>2, <1>5 DEF StoreBounded

LEMMA SizeStep ==
  ASSUME DiscoveryInv, SizeInv, Refresh \/ DiscoveryRestart \/ Environment
  PROVE  SizeInv'
<1>1. /\ PoolTypeOK /\ NoDuplicateSandbox
      /\ cur \in Services
      /\ ipMap \in [Services -> SUBSET V4]
      /\ \A s \in Services : dns[s] \subseteq Addresses[s]
      /\ newIPs \subseteq ipMap[cur]
      /\ StoreIPs = Announced
  BY DEF DiscoveryInv, DiscoveryTypeOK, FollowsDNS, Answers
<1>2. CASE UNCHANGED poolVars /\ ipMap' = ipMap
  BY <1>2, SizeQuiet DEF poolVars, StoreIPs, Live
<1>3. ASSUME NEW s \in Services, LookupOK(s) PROVE SizeInv'
  <2>1. StoreIPs' = StoreIPs /\ cap' = cap
    BY <1>3, LookupInv DEF LookupOK
  <2>2. ipMap' = [ipMap EXCEPT ![s] = dns[s] \cap V4]
    BY <1>3 DEF LookupOK
  <2>3. ipMap'["sandbox"] \subseteq Sandboxes
    BY <1>1, <2>2 DEF SizeInv, Sandboxes, Services
  <2> QED BY <2>1, <2>3 DEF SizeInv, StoreBounded
<1>4. ASSUME NEW ip \in V4, OnDiscover(ip), cur = "sandbox" PROVE SizeInv'
  <2>1. ip \in newIPs /\ Add(ip) /\ ipMap' = ipMap
    BY <1>4 DEF OnDiscover
  <2>2. ip \in ipMap["sandbox"] /\ ip \in Sandboxes
    BY <1>1, <1>4, <2>1 DEF SizeInv
  <2>3. ip \notin StoreIPs
    BY <1>1, <1>4, <2>1 DEF DiscoveryInv, FollowsDNS, Announced
  <2>4. StoreBounded' /\ StoreIPs' \subseteq Sandboxes
    BY <1>1, <2>1, <2>2, <2>3, SizeAdd DEF SizeInv
  <2> QED BY <2>1, <2>4 DEF SizeInv
<1>5. ASSUME NEW ip \in V4, OnLost(ip), cur = "sandbox" PROVE SizeInv'
  <2>1. StoreIPs' \subseteq StoreIPs
    BY <1>1, <1>5, DeleteStore DEF OnLost
  <2>2. cap' = cap /\ ipMap' = ipMap
    BY <1>5 DEF OnLost, Delete
  <2> QED BY <2>1, <2>2 DEF SizeInv, StoreBounded
<1>6. CASE Refresh
  <2>1. (RefreshLock \/ (\E s \in Services : LookupError(s)) \/ RefreshUnlock)
          => UNCHANGED poolVars /\ ipMap' = ipMap
    BY DEF RefreshLock, LookupError, RefreshUnlock, poolVars
  <2>2. \A ip \in V4 : cur = "guacd" /\ (OnDiscover(ip) \/ OnLost(ip))
          => UNCHANGED poolVars /\ ipMap' = ipMap
    BY DEF OnDiscover, OnLost
  <2> QED BY <1>1, <1>2, <1>3, <1>4, <1>5, <1>6, <2>1, <2>2 DEF Refresh, Services
<1>7. CASE DiscoveryRestart \/ Environment
  <2>1. UNCHANGED poolVars /\ ipMap' = ipMap
    BY <1>7 DEF DiscoveryRestart, Environment, DnsChange, poolVars
  <2> QED BY <1>2, <2>1
<1> QED BY <1>6, <1>7

(* However often sandboxes come and go, the array behind the store stays   *)
(* within what the deployment's sandboxes need.                            *)
THEOREM StoreStaysBounded == DiscoverySpec => []StoreBounded
<1>1. DiscoveryInv /\ SizeInv /\ [DiscoveryNext]_discoveryVars => SizeInv'
  <2> SUFFICES ASSUME DiscoveryInv, SizeInv, [DiscoveryNext]_discoveryVars PROVE SizeInv'
    OBVIOUS
  <2>1. CASE DiscoveryPanic
    BY <2>1, SizeCrash DEF DiscoveryPanic
  <2>2. CASE UNCHANGED discoveryVars
    <3>1. StoreIPs' = StoreIPs /\ cap' = cap /\ ipMap' = ipMap
      BY <2>2 DEF discoveryVars, StoreIPs, Live
    <3> QED BY <3>1, SizeQuiet
  <2> QED BY <2>1, <2>2, SizeStep DEF DiscoveryNext
<1>2. SizeInv => StoreBounded
  BY DEF SizeInv
<1> QED BY <1>1, <1>2, SizeInit, DiscoveryInvariant, PTL DEF DiscoverySpec

=============================================================================
