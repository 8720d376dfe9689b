--------------------------- MODULE ControlServer ---------------------------
(***************************************************************************)
(* The control server (internal/application): the HTTP handlers that give  *)
(* sandboxes to sessions, the session store they share                     *)
(* (internal/session), and the discovery loop that changes the sandbox     *)
(* store under them (module Discovery).                                    *)
(*                                                                         *)
(* net/http runs each request in a goroutine of its own.  The session      *)
(* store has no lock at all, and the sandbox store's covers one call at a  *)
(* time, so a handler is a sequence of steps, one for each access to       *)
(* shared state, that interleave with those of the other requests and with *)
(* a refresh.  A panic in a handler is recovered by net/http and only ends *)
(* that request.                                                           *)
(***************************************************************************)
EXTENDS Discovery, FiniteSets

CONSTANTS
  Reqs,              \* bound: the requests that can be in progress together
  MaxSessions,       \* bound: the session IDs ever issued
  Kinds,             \* the requests the clients of this deployment make
  OverlappingAdmins  \* whether two admin operations can be in progress

AdminKinds == {"delete", "assign"}
LoginKinds == {"login", "admin"}
AllKinds   == LoginKinds \cup AdminKinds \cup {"guac"}

ASSUME ServerAssumption ==
  /\ MaxSessions \in Nat
  /\ Kinds \subseteq AllKinds
  /\ OverlappingAdmins \in BOOLEAN

VARIABLES
  issued,    \* the last session ID issued (IDs are random and never reused)
  sessions,  \* the keys of session.Service.store
  sess,      \* the Session objects, which handlers may hold after a deletion
  cookies,   \* the session IDs clients have been given in a cookie
  req        \* the requests in progress

serverVars == <<issued, sessions, sess, cookies, req>>
vars       == <<heap, cap, len, up, dns, ipMap, locked, todo, cur, newIPs, lostIPs,
                issued, sessions, sess, cookies, req>>

SIDs    == 1 .. MaxSessions
Session == [admin : BOOLEAN, sandbox : Ptr \cup {nil}]
Steps   == {"idle", "middleware", "reserveFree", "create", "attach",
            "get", "release", "delete", "reserve", "config", "dial"}
Request == [kind : AllKinds \cup {"none"}, pc : Steps, sid : SIDs \cup {0},
            ptr : Ptr \cup {nil}, ip : V4 \cup {NoIP}]

NoSession == [admin |-> FALSE, sandbox |-> nil]
NoRequest == [kind |-> "none", pc |-> "idle", sid |-> 0, ptr |-> nil, ip |-> NoIP]

TypeOK ==
  /\ DiscoveryTypeOK
  /\ issued \in 0 .. MaxSessions
  /\ sessions \in SUBSET SIDs
  /\ sess \in [SIDs -> Session]
  /\ cookies \in SUBSET SIDs
  /\ req \in [Reqs -> Request]

Init ==
  /\ DiscoveryInit
  /\ issued = 0
  /\ sessions = {}
  /\ sess = [s \in SIDs |-> NoSession]
  /\ cookies = {}
  /\ req = [r \in Reqs |-> NoRequest]

(* Sessions and handlers die with the process; cookies and the IDs spent   *)
(* do not.                                                                 *)
Crash ==
  /\ DiscoveryCrash
  /\ sessions' = {}
  /\ sess' = [s \in SIDs |-> NoSession]
  /\ req' = [r \in Reqs |-> NoRequest]
  /\ UNCHANGED <<issued, cookies>>

----------------------------------------------------------------------------
(* The life of a request. *)

At(r, k, pc) == up /\ req[r].kind \in k /\ req[r].pc = pc

Goto(r, pc) == req' = [req EXCEPT ![r].pc = pc]

(* The handler returns, or panics and is recovered. *)
Respond(r) == req' = [req EXCEPT ![r] = NoRequest]

Begin(r, kind, sid, ip) ==
  /\ up
  /\ req[r] = NoRequest
  /\ req' = [req EXCEPT ![r] =
       [kind |-> kind, pc |-> "middleware", sid |-> sid, ptr |-> nil, ip |-> ip]]
  /\ UNCHANGED <<heap, cap, len, up, dns, ipMap, locked, todo, cur, newIPs, lostIPs,
                 issued, sessions, sess, cookies>>

LoggingIn(r) == req[r].kind \in LoginKinds /\ req[r].pc # "attach"

(* POST /api/sessions with the workshop's code or the admin's. *)
AcceptLogin(r) ==
  \E kind \in Kinds \cap LoginKinds :
    /\ issued + Cardinality({q \in Reqs : LoggingIn(q)}) < MaxSessions
    /\ Begin(r, kind, 0, NoIP)

(* DELETE /api/sessions/{sid} and POST /api/sessions/{sid}/sandbox: the    *)
(* console sends IDs and addresses of a summary that may be out of date.   *)
AcceptAdmin(r) ==
  \E kind \in Kinds \cap AdminKinds, sid \in 1 .. issued :
    /\ OverlappingAdmins \/ \A q \in Reqs : req[q].kind \notin AdminKinds
    /\ \E ip \in IF kind = "assign" THEN Addresses["sandbox"] \cap V4 ELSE {NoIP} :
         Begin(r, kind, sid, ip)

(* GET /api/ws/guacamole with a session cookie. *)
AcceptGuac(r) ==
  \E kind \in Kinds \cap {"guac"}, sid \in cookies : Begin(r, kind, sid, NoIP)

(* sessionMiddleware looks the cookie up, in every request; what it finds  *)
(* matters to onGuacConnect alone.                                         *)
Middleware(r) ==
  /\ At(r, AllKinds, "middleware")
  /\ \/ At(r, {"login"}, "middleware") /\ Goto(r, "reserveFree")
     \/ At(r, {"admin"}, "middleware") /\ Goto(r, "create")
     \/ At(r, AdminKinds, "middleware") /\ Goto(r, "get")
     \/ At(r, {"guac"}, "middleware") /\ req[r].sid \in sessions /\ Goto(r, "config")
     \/ At(r, {"guac"}, "middleware") /\ req[r].sid \notin sessions /\ Respond(r)
  /\ UNCHANGED <<heap, cap, len, up, dns, ipMap, locked, todo, cur, newIPs, lostIPs,
                 issued, sessions, sess, cookies>>

----------------------------------------------------------------------------
(* httpCreateSession *)

LoginReserve(r) ==
  /\ At(r, {"login"}, "reserveFree")
  /\ \/ Free = {} /\ Respond(r) /\ UNCHANGED poolVars
     \/ \E q \in Ptr :
          /\ ReserveFree(q)
          /\ req' = [req EXCEPT ![r] = [@ EXCEPT !.pc = "create", !.ptr = q]]
  /\ UNCHANGED <<up, dns, ipMap, locked, todo, cur, newIPs, lostIPs,
                 issued, sessions, sess, cookies>>

(* Mistake: the client gets its cookie when the session is created. *)
CreateWithCookie(r) ==
  /\ At(r, LoginKinds, "create")
  /\ issued < MaxSessions
  /\ issued' = issued + 1
  /\ sessions' = sessions \cup {issued'}
  /\ sess' = [sess EXCEPT ![issued'] = NoSession]
  /\ cookies' = cookies \cup {issued'}
  /\ req' = [req EXCEPT ![r] = [@ EXCEPT !.pc = "attach", !.sid = issued']]
  /\ UNCHANGED <<heap, cap, len, up, dns, ipMap, locked, todo, cur, newIPs, lostIPs>>

(* sessions.Create: from here on the session is in the store.  (The bound  *)
(* on the IDs never holds a request up: AcceptLogin has seen to that.)     *)
Create(r) ==
  /\ At(r, LoginKinds, "create")
  /\ issued < MaxSessions
  /\ issued' = issued + 1
  /\ sessions' = sessions \cup {issued'}
  /\ sess' = [sess EXCEPT ![issued'] = NoSession]
  /\ req' = [req EXCEPT ![r] = [@ EXCEPT !.pc = "attach", !.sid = issued']]
  /\ UNCHANGED <<heap, cap, len, up, dns, ipMap, locked, todo, cur, newIPs, lostIPs, cookies>>

(* Mistake: the sandbox is reserved and not given to the session. *)
LoginForgetsSandbox(r) ==
  /\ At(r, LoginKinds, "attach")
  /\ sess' = [sess EXCEPT ![req[r].sid].admin = (req[r].kind = "admin")]
  /\ cookies' = cookies \cup {req[r].sid}
  /\ Respond(r)
  /\ UNCHANGED <<heap, cap, len, up, dns, ipMap, locked, todo, cur, newIPs, lostIPs,
                 issued, sessions>>

(* The session gets its sandbox or its admin mark, then the client its cookie. *)
LoginAttach(r) ==
  /\ At(r, LoginKinds, "attach")
  /\ sess' = [sess EXCEPT ![req[r].sid] =
                IF req[r].kind = "admin" THEN [@ EXCEPT !.admin = TRUE]
                                         ELSE [@ EXCEPT !.sandbox = req[r].ptr]]
  /\ cookies' = cookies \cup {req[r].sid}
  /\ Respond(r)
  /\ UNCHANGED <<heap, cap, len, up, dns, ipMap, locked, todo, cur, newIPs, lostIPs,
                 issued, sessions>>

----------------------------------------------------------------------------
(* httpDeleteSession and httpAssignSandbox *)

(* An ID that is not in the store is an error to the one handler, a nil    *)
(* session and a panic to the other.                                       *)
AdminGet(r) ==
  /\ At(r, AdminKinds, "get")
  /\ IF req[r].sid \in sessions THEN Goto(r, "release") ELSE Respond(r)
  /\ UNCHANGED <<heap, cap, len, up, dns, ipMap, locked, todo, cur, newIPs, lostIPs,
                 issued, sessions, sess, cookies>>

(* sandbox.Release, without the store's lock; nil panics. *)
AdminRelease(r) ==
  LET p == sess[req[r].sid].sandbox
  IN  /\ At(r, AdminKinds, "release")
      /\ \/ p = nil /\ Respond(r) /\ UNCHANGED poolVars
         \/ /\ p # nil
            /\ Release(p)
            /\ Goto(r, IF req[r].kind = "delete" THEN "delete" ELSE "reserve")
      /\ UNCHANGED <<up, dns, ipMap, locked, todo, cur, newIPs, lostIPs,
                     issued, sessions, sess, cookies>>

(* Mistake: the sandbox is released and the session stays. *)
ReleaseWithoutDelete(r) ==
  /\ At(r, {"delete"}, "delete")
  /\ Respond(r)
  /\ UNCHANGED <<heap, cap, len, up, dns, ipMap, locked, todo, cur, newIPs, lostIPs,
                 issued, sessions, sess, cookies>>

DeleteSession(r) ==
  /\ At(r, {"delete"}, "delete")
  /\ sessions' = sessions \ {req[r].sid}
  /\ Respond(r)
  /\ UNCHANGED <<heap, cap, len, up, dns, ipMap, locked, todo, cur, newIPs, lostIPs,
                 issued, sess, cookies>>

(* sandbox.Reserve: on either error the session keeps its old pointer. *)
AssignReserve(r) ==
  /\ At(r, {"assign"}, "reserve")
  /\ \/ ReserveRefused(req[r].ip) /\ Respond(r) /\ UNCHANGED poolVars
     \/ \E q \in Ptr :
          /\ Reserve(q, req[r].ip)
          /\ req' = [req EXCEPT ![r] = [@ EXCEPT !.pc = "attach", !.ptr = q]]
  /\ UNCHANGED <<up, dns, ipMap, locked, todo, cur, newIPs, lostIPs,
                 issued, sessions, sess, cookies>>

AssignAttach(r) ==
  /\ At(r, {"assign"}, "attach")
  /\ sess' = [sess EXCEPT ![req[r].sid].sandbox = req[r].ptr]
  /\ Respond(r)
  /\ UNCHANGED <<heap, cap, len, up, dns, ipMap, locked, todo, cur, newIPs, lostIPs,
                 issued, sessions, cookies>>

----------------------------------------------------------------------------
(* onGuacConnect *)

(* An admin names the host; a participant's is read through the pointer of *)
(* the session, without a test for nil.                                    *)
GuacPanics(r) ==
  /\ At(r, {"guac"}, "config")
  /\ ~sess[req[r].sid].admin
  /\ sess[req[r].sid].sandbox = nil

GuacConfig(r) ==
  /\ At(r, {"guac"}, "config")
  /\ \/ GuacPanics(r) /\ Respond(r)
     \/ /\ ~GuacPanics(r)
        /\ \E ip \in IF sess[req[r].sid].admin
                       THEN Addresses["sandbox"] \cap V4
                       ELSE {heap[sess[req[r].sid].sandbox].ip} :
             req' = [req EXCEPT ![r] = [@ EXCEPT !.pc = "dial", !.ip = ip]]
  /\ UNCHANGED <<heap, cap, len, up, dns, ipMap, locked, todo, cur, newIPs, lostIPs,
                 issued, sessions, sess, cookies>>

(* discovery.Get waits for svcLock; then the tunnel is opened through one  *)
(* of the guacd addresses, or refused for want of one.                     *)
GuacDial(r) ==
  /\ At(r, {"guac"}, "dial")
  /\ ~locked
  /\ Respond(r)
  /\ UNCHANGED <<heap, cap, len, up, dns, ipMap, locked, todo, cur, newIPs, lostIPs,
                 issued, sessions, sess, cookies>>

----------------------------------------------------------------------------
(***************************************************************************)
(* Two requests are about to access the session map, at least one of them  *)
(* to change it.  Nothing orders them: Go may detect the race, which kills *)
(* the process and cannot be recovered, or they happen to take turns,      *)
(* which the steps above are.                                              *)
(***************************************************************************)
MapWrites == {"create", "delete"}
MapReads  == {"middleware", "get"}

MapRace ==
  /\ \E p, q \in Reqs : /\ p # q
                        /\ req[p].pc \in MapWrites
                        /\ req[q].pc \in MapWrites \cup MapReads
  /\ Crash

Accept(r)  == AcceptLogin(r) \/ AcceptAdmin(r) \/ AcceptGuac(r)
Handler(r) ==
  \/ Middleware(r)
  \/ LoginReserve(r) \/ Create(r) \/ LoginAttach(r)
  \/ AdminGet(r) \/ AdminRelease(r) \/ DeleteSession(r)
  \/ AssignReserve(r) \/ AssignAttach(r)
  \/ GuacConfig(r) \/ GuacDial(r)

Background ==
  /\ Refresh \/ DiscoveryRestart \/ Environment
  /\ UNCHANGED serverVars

LossPanic == (\E ip \in V4 : OnLostPanics(ip)) /\ Crash

Next ==
  \/ \E r \in Reqs : Accept(r) \/ Handler(r)
  \/ MapRace
  \/ Background
  \/ LossPanic

Spec == Init /\ [][Next]_vars

(***************************************************************************)
(* Goroutines keep running.  Handlers waiting for svcLock are served in    *)
(* turn (sync.Mutex hands the lock over to a starving waiter), hence the   *)
(* strong fairness of GuacDial: Refresh takes the lock again and again.    *)
(* RefreshFairness is about the same steps here: no request takes them.    *)
(***************************************************************************)
Fairness ==
  /\ RefreshFairness
  /\ \A r \in Reqs : WF_vars(Handler(r)) /\ SF_vars(GuacDial(r))

FairSpec == Spec /\ Fairness

----------------------------------------------------------------------------
(* Properties. *)

(* An admin operation on session s is between its release and its end.     *)
BeingChanged(s) ==
  \E r \in Reqs : /\ req[r].kind \in AdminKinds
                 /\ req[r].sid = s
                 /\ req[r].pc \in {"delete", "reserve", "attach"}

Holders    == {s \in sessions : sess[s].sandbox # nil}
Settled    == {s \in Holders : ~BeingChanged(s)}
SandboxOf(s) == heap[sess[s].sandbox].ip

(* No two sessions are on the same sandbox.  A session's pointer may point *)
(* into an array the store has long left, the store's reservation is in    *)
(* another, and logins run while a refresh grows the store and while an    *)
(* admin deletes sessions: still ReserveFree never hands out a sandbox     *)
(* some session has.                                                       *)
Exclusive ==
  \A s, t \in Settled : SandboxOf(s) = SandboxOf(t) => s = t

(* What a session has is marked as reserved in the store (not just in the  *)
(* slot its pointer happens to point to), also while its login is running. *)
AttachedIsReserved ==
  /\ \A s \in Settled : \A q \in Matches(SandboxOf(s)) : heap[q].reserved
  /\ \A r \in Reqs : req[r].ptr # nil =>
       \A q \in Matches(heap[req[r].ptr].ip) : heap[q].reserved

(* What the participants see: the sandbox of each session (that of one an  *)
(* admin is deleting is given back), and the sessions that may get one.    *)
Holding == [s \in SIDs |-> IF s \in Settled THEN SandboxOf(s) ELSE NoIP]
Fresh   == {s \in SIDs : issued < s \/ s \in sessions \ Holders}

Allocation == INSTANCE SandboxAllocation WITH
  Sandboxes <- V4, Sessions <- SIDs, None <- NoIP,
  pool <- StoreIPs, fresh <- Fresh, holds <- Holding

(* Logins of three steps, pointers into arrays the store has left, marks,  *)
(* refreshes and deletions that overlap: to the participants it is the     *)
(* allocation of sandboxes that SandboxAllocation describes.               *)
AllocatesSandboxes == Allocation!Spec

(* A sandbox the store counts as reserved is the sandbox of some session,  *)
(* or of one that is being created: it can be given back one day.          *)
NoSandboxLeaks ==
  \A q \in Live : heap[q].reserved =>
    \/ \E s \in Holders : SandboxOf(s) = heap[q].ip
    \/ \E r \in Reqs : req[r].ptr # nil /\ heap[req[r].ptr].ip = heap[q].ip

(* The sandbox of a session that is gone may stay reserved for good (see   *)
(* NoSandboxLeaks); a login, however it overlaps with refreshes and        *)
(* deletions, never leaves one behind that no session has ever had.        *)
OnlyDeletionsLeak ==
  \A q \in Live : heap[q].reserved =>
    \/ \E s \in SIDs : sess[s].sandbox # nil /\ SandboxOf(s) = heap[q].ip
    \/ \E r \in Reqs : req[r].ptr # nil /\ heap[req[r].ptr].ip = heap[q].ip

(* guacdConfigFromSession dereferences session.Sandbox unchecked: Create   *)
(* stores the session before it has a sandbox or its admin mark, so this   *)
(* rests on the cookie being set last, and on sessions that are deleted or *)
(* that lose their sandbox keeping the pointer.                            *)
GuacNeverPanics == \A r \in Reqs : ~GuacPanics(r)

Reserved == {heap[q].ip : q \in {p \in Live : heap[p].reserved}}

(* A refresh never frees a sandbox that stays in the store: neither the    *)
(* copy made by append nor the removal of another sandbox loses the mark   *)
(* of a reservation, whatever requests did between two callbacks.          *)
RefreshKeepsReservations ==
  [][up' /\ req' = req => \A ip \in Reserved \cap StoreIPs' : ip \in Reserved']_vars

(* A session disappears only when an admin deletes it.                     *)
SessionsKept ==
  [][\A s \in sessions \ sessions' :
       \E r \in Reqs : req[r].kind = "delete" /\ req[r].pc = "delete" /\ req[r].sid = s]_vars

(* Every request is answered: a handler that waits for svcLock gets it,    *)
(* however many refreshes compete for it (or the server dies).             *)
RequestsAnswered ==
  \A r \in Reqs : req[r].pc # "idle" ~> req[r].pc = "idle"

=============================================================================
