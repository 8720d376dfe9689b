----------------------------- MODULE Discovery -----------------------------
(***************************************************************************)
(* Service discovery (internal/discovery) and the goroutine that drives it *)
(* (startServiceDiscovery, onServiceDiscovered and onServiceLost in        *)
(* internal/application/service.go), down to the sandbox store it feeds.   *)
(*                                                                         *)
(* Refresh holds svcLock from its first lookup to its last callback.  Each *)
(* callback takes the lock of the sandbox store for itself, so requests    *)
(* interleave with the callbacks of one refresh, which is why each is a    *)
(* step.  The order of the addresses in a DNS answer is arbitrary, and so  *)
(* is the order in which Go ranges over ipMap: answers are sets.           *)
(***************************************************************************)
EXTENDS SandboxPool, FiniteSets

CONSTANTS
  V6,        \* IPv6 addresses an answer may contain, which Refresh filters out
  Addresses, \* for each service, the addresses its machines can have
  ScaleDown  \* whether the deployment ever removes an address from DNS

Services == {"guacd", "sandbox"}

ASSUME DiscoveryAssumption ==
  /\ V4 \cap V6 = {}
  /\ Addresses \in [Services -> SUBSET (V4 \cup V6)]
  /\ ScaleDown \in BOOLEAN

(* The addresses that can reach the sandbox store; a deployment has        *)
(* finitely many.                                                          *)
Sandboxes == Addresses["sandbox"] \cap V4

ASSUME SandboxesAssumption == IsFiniteSet(Sandboxes)

VARIABLES
  up,        \* the control server's process is running
  dns,       \* the addresses DNS has for each service
  ipMap,     \* Service.ipMap
  locked,    \* svcLock is held, by Refresh
  todo,      \* services Refresh has still to look up
  cur,       \* the service whose callbacks are being made
  newIPs,    \* addresses OnDiscover has still to be called with
  lostIPs    \* addresses OnLost has still to be called with

refreshVars   == <<locked, todo, cur, newIPs, lostIPs>>
discoveryVars == <<heap, cap, len, up, dns, ipMap, locked, todo, cur, newIPs, lostIPs>>

Answers(s) == SUBSET Addresses[s]

DiscoveryTypeOK ==
  /\ PoolTypeOK
  /\ up \in BOOLEAN
  /\ dns \in [Services -> SUBSET (V4 \cup V6)]
  /\ \A s \in Services : dns[s] \in Answers(s)
  /\ ipMap \in [Services -> SUBSET V4]
  /\ locked \in BOOLEAN
  /\ todo \in SUBSET Services
  /\ cur \in Services
  /\ newIPs \in SUBSET V4
  /\ lostIPs \in SUBSET V4

----------------------------------------------------------------------------
(* The memory of a process that starts: discovery.New and the two calls of *)
(* Add in application.New, and an empty sandbox store.                     *)
DiscoveryBoot ==
  /\ PoolInit
  /\ ipMap = [s \in Services |-> {}]
  /\ locked = FALSE
  /\ todo = {}
  /\ cur = "guacd"
  /\ newIPs = {}
  /\ lostIPs = {}

DiscoveryInit ==
  /\ DiscoveryBoot
  /\ up = TRUE
  /\ dns \in {d \in [Services -> SUBSET (V4 \cup V6)] : \A s \in Services : d[s] \in Answers(s)}

(* The process dies; its memory is gone, DNS is not. *)
DiscoveryCrash ==
  /\ up
  /\ up' = FALSE
  /\ PoolReset
  /\ ipMap' = [s \in Services |-> {}]
  /\ locked' = FALSE
  /\ todo' = {}
  /\ cur' = "guacd"
  /\ newIPs' = {}
  /\ lostIPs' = {}
  /\ UNCHANGED dns

(* The deployment runs one control task and starts it again when it stops. *)
DiscoveryRestart ==
  /\ ~up
  /\ up' = TRUE
  /\ UNCHANGED <<heap, cap, len, dns, ipMap, locked, todo, cur, newIPs, lostIPs>>

(* Machines come and go. *)
DnsChange(s, answer) ==
  /\ dns[s] # answer
  /\ ScaleDown \/ dns[s] \subseteq answer
  /\ dns' = [dns EXCEPT ![s] = answer]
  /\ UNCHANGED <<heap, cap, len, up, ipMap, locked, todo, cur, newIPs, lostIPs>>

----------------------------------------------------------------------------
(* Refresh, called once at the start and then on every tick. *)

RefreshLock ==
  /\ up
  /\ ~locked
  /\ locked' = TRUE
  /\ todo' = Services
  /\ UNCHANGED <<heap, cap, len, up, dns, ipMap, cur, newIPs, lostIPs>>

(* Mistake: the listeners of a loss are not waited for. *)
LossesIgnored == locked /\ newIPs = {}

(* Between two rounds of the loop over ipMap. *)
AtLoopHead == locked /\ newIPs = {} /\ lostIPs = {}

(* The lookup fails, as it also does for a name without any address: the   *)
(* round is skipped and what was known is kept.                            *)
LookupError(s) ==
  /\ up
  /\ AtLoopHead
  /\ s \in todo
  /\ todo' = todo \ {s}
  /\ UNCHANGED <<heap, cap, len, up, dns, ipMap, locked, cur, newIPs, lostIPs>>

(* A lookup that keeps `ips` of the answer and announces another delta:    *)
(* what the mistakes below have in common.                                 *)
Lookup(s, ips, new, lost) ==
  /\ up
  /\ AtLoopHead
  /\ s \in todo
  /\ dns[s] # {}
  /\ todo' = todo \ {s}
  /\ cur' = s
  /\ newIPs' = new
  /\ lostIPs' = lost
  /\ ipMap' = [ipMap EXCEPT ![s] = ips]
  /\ UNCHANGED <<heap, cap, len, up, dns, locked>>

(* Mistakes: every address is announced on every tick; the losses are      *)
(* computed when ipMap has already been updated; only the first answer is  *)
(* announced.                                                              *)
LookupUndiffed(s)    == Lookup(s, dns[s] \cap V4, dns[s] \cap V4, ipMap[s] \ dns[s])
LookupLosesLate(s)   == Lookup(s, dns[s] \cap V4, (dns[s] \cap V4) \ ipMap[s], {})
LookupFirstAnswer(s) ==
  Lookup(s, dns[s] \cap V4, IF ipMap[s] = {} THEN dns[s] \cap V4 ELSE {}, ipMap[s] \ dns[s])

LookupOK(s) ==
  LET ips == dns[s] \cap V4
  IN  /\ up
      /\ AtLoopHead
      /\ s \in todo
      /\ dns[s] # {}
      /\ todo' = todo \ {s}
      /\ cur' = s
      /\ newIPs' = ips \ ipMap[s]
      /\ lostIPs' = ipMap[s] \ ips
      /\ ipMap' = [ipMap EXCEPT ![s] = ips]
      /\ UNCHANGED <<heap, cap, len, up, dns, locked>>

(* onServiceDiscovered: a guacd address only matters in ipMap. *)
OnDiscover(ip) ==
  /\ up
  /\ ip \in newIPs
  /\ newIPs' = newIPs \ {ip}
  /\ IF cur = "guacd" THEN UNCHANGED poolVars ELSE Add(ip)
  /\ UNCHANGED <<up, dns, ipMap, locked, todo, cur, lostIPs>>

(* onServiceLost, after every OnDiscover of the round. *)
OnLost(ip) ==
  /\ up
  /\ newIPs = {}
  /\ ip \in lostIPs
  /\ lostIPs' = lostIPs \ {ip}
  /\ IF cur = "guacd" THEN UNCHANGED poolVars ELSE Delete(ip)
  /\ UNCHANGED <<up, dns, ipMap, locked, todo, cur, newIPs>>

(* ... or Delete panics: nothing recovers in the discovery goroutine, so   *)
(* the panic ends the process.                                             *)
OnLostPanics(ip) ==
  /\ newIPs = {}
  /\ ip \in lostIPs
  /\ cur = "sandbox"
  /\ DeletePanics(ip)

(* Mistake: Refresh loops inside its lock. *)
RefreshKeepsLock ==
  /\ up
  /\ AtLoopHead
  /\ todo = {}
  /\ todo' = Services
  /\ UNCHANGED <<heap, cap, len, up, dns, ipMap, locked, cur, newIPs, lostIPs>>

RefreshUnlock ==
  /\ up
  /\ AtLoopHead
  /\ todo = {}
  /\ locked' = FALSE
  /\ UNCHANGED <<heap, cap, len, up, dns, ipMap, todo, cur, newIPs, lostIPs>>

Refresh ==
  \/ RefreshLock
  \/ \E s \in Services : LookupError(s) \/ LookupOK(s)
  \/ \E ip \in V4 : OnDiscover(ip) \/ OnLost(ip)
  \/ RefreshUnlock

DiscoveryPanic == \E ip \in V4 : OnLostPanics(ip) /\ DiscoveryCrash

Environment == \E s \in Services : \E answer \in Answers(s) : DnsChange(s, answer)

DiscoveryNext == Refresh \/ DiscoveryPanic \/ DiscoveryRestart \/ Environment

DiscoverySpec == DiscoveryInit /\ [][DiscoveryNext]_discoveryVars

(***************************************************************************)
(* The goroutine keeps running, its ticker keeps ticking and a task that   *)
(* stopped is started again (weak fairness).  That a lookup which can be   *)
(* answered is not refused forever is an assumption on the resolver        *)
(* (strong fairness of LookupOK); the retry on every tick is the code's.   *)
(***************************************************************************)
RefreshFairness ==
  /\ WF_discoveryVars(RefreshLock)
  /\ WF_discoveryVars(RefreshUnlock)
  /\ WF_discoveryVars(\E ip \in V4 : OnDiscover(ip) \/ OnLost(ip))
  /\ WF_discoveryVars(DiscoveryPanic)
  /\ WF_discoveryVars(DiscoveryRestart)
  /\ WF_discoveryVars(\E s \in Services : LookupError(s) \/ LookupOK(s))
  /\ \A s \in Services : SF_discoveryVars(LookupOK(s))

----------------------------------------------------------------------------
(* What discovery has told the sandbox store so far: the last answer,      *)
(* without the discoveries and with the losses still to be announced.      *)
Announced ==
  IF cur = "sandbox" THEN (ipMap["sandbox"] \ newIPs) \cup lostIPs
                     ELSE ipMap["sandbox"]

(* Whenever no refresh is under way, the store holds exactly the sandboxes *)
(* of the last DNS answer: the delta computed in Refresh, replayed through *)
(* one callback per address (and through crashes and restarts), never      *)
(* drifts from ipMap.                                                      *)
StoreMatchesDiscovery ==
  (up /\ ~locked) => StoreIPs = ipMap["sandbox"]

(* A running server forgets a sandbox only because the answer it is        *)
(* working on does not have it: the deletion of one sandbox never takes    *)
(* another one with it.                                                    *)
OnlyLostAreForgotten ==
  [][up' => \A ip \in StoreIPs : ip \in StoreIPs' \/ ip \notin ipMap["sandbox"]]_discoveryVars

(* However often sandboxes come and go, the array behind the store never   *)
(* has room for more than twice the sandboxes the deployment can have, but *)
(* one: it is full of different addresses each time append doubles it.     *)
StoreBounded == cap \in {0, 1} \/ cap <= 2 * (Cardinality(Sandboxes) - 1)

(* A sandbox that stays in DNS is registered, again after each crash. *)
DiscoveredEventually ==
  \A ip \in V4 : <>[](ip \in dns["sandbox"]) => []<>(ip \in StoreIPs)

(* A sandbox that stays out of DNS is forgotten, as long as the name keeps *)
(* some address (an empty answer is an error, and changes nothing).        *)
LostEventually ==
  \A ip \in V4 :
    <>[](dns["sandbox"] # {} /\ ip \notin dns["sandbox"]) => <>[](ip \notin StoreIPs)

=============================================================================
