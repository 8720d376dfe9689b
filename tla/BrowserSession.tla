--------------------------- MODULE BrowserSession ---------------------------
(***************************************************************************)
(* A browser and its session: the cookie, the store of the page            *)
(* (client/src/services/store/session.ts), the routes that depend on it    *)
(* (app.tsx, pages/login.tsx) and the calls to the server, whose answers   *)
(* arrive in any order or not at all.  The server's part is the session    *)
(* middleware, httpGetSession and httpCreateSession                        *)
(* (internal/application/routes.go), one step for each request: module     *)
(* ControlServer has their details.                                        *)
(***************************************************************************)
EXTENDS Integers, FiniteSets, Bags

CONSTANTS
  MaxSessions,  \* bound: the sessions ever created
  Boxes,        \* the sandboxes, as numbers
  MaxCalls,     \* bound: the calls of the page under way at one time
  MaxFaults     \* bound: lost calls, reloads, moves of the user and sessions ended by others

ASSUME BrowserAssumption ==
  /\ MaxSessions \in Nat \ {0} /\ MaxCalls \in Nat /\ MaxFaults \in Nat
  /\ Boxes \subseteq Nat \ {0}

SIDs      == 1 .. MaxSessions
null      == 0
undefined == -1

VARIABLES
  issued,   \* the last session ID
  live,     \* the sessions in the server's store
  admins,   \* the sessions made with the admin's code
  box,      \* the sandbox of each session
  cookie,   \* the session ID in the browser's cookie, or null
  session,  \* the page's session (its data; named by its ID), null or undefined
  page,     \* the path of the page
  calls,    \* the calls of the page under way, a bag
  faults

serverVars  == <<issued, live, admins, box>>
browserVars == <<cookie, session, page, calls>>

Pages == {"/", "/viewer", "/admin"}   \* and /test, which depends on nothing
Codes == {"user", "admin"}            \* a wrong one is refused like a user's

(* The sandbox of every participant's session, 0 if it has none, and -1    *)
(* where there is no session.                                              *)
NoTable == [s \in SIDs |-> -1]
Table   == [s \in SIDs |-> IF s \in live \ admins THEN box[s] ELSE -1]

(* A call: what it asks, the cookie it carries, and its answer: whether it *)
(* is a success, the cookie it sets (0 for none, -1 to delete it), and a   *)
(* session or a summary.                                                   *)
Call ==
  [kind : {"poll", "login", "summary", "destroy", "assign"},
   phase : {"sent", "answered", "body"},
   cookie : SIDs \cup {null}, code : Codes \cup {"-"}, sid : SIDs \cup {null},
   box : Boxes \cup {0}, ok : BOOLEAN, set : SIDs \cup {0, -1},
   who : SIDs \cup {null}, table : [SIDs -> Boxes \cup {0, -1}]]

NewCall(kind) ==
  [kind |-> kind, phase |-> "sent", cookie |-> cookie, code |-> "-", sid |-> null,
   box |-> 0, ok |-> FALSE, set |-> 0, who |-> null, table |-> NoTable]

SessionTypeOK ==
  /\ issued \in 0 .. MaxSessions
  /\ live \subseteq 1 .. issued
  /\ admins \subseteq 1 .. issued
  /\ box \in [SIDs -> Boxes \cup {0}]
  /\ cookie \in 0 .. issued
  /\ session \in undefined .. issued
  /\ page \in Pages
  /\ IsABag(calls) /\ BagToSet(calls) \subseteq Call
  /\ faults \in 0 .. MaxFaults

(* The browser comes to any page, with the cookie of a session that is     *)
(* over, or without.                                                       *)
SessionInit ==
  /\ issued = 1 /\ live = {} /\ admins = {}
  /\ box = [s \in SIDs |-> 0]
  /\ cookie \in {null, 1}
  /\ session = undefined
  /\ page \in Pages
  /\ calls = EmptyBag
  /\ faults = 0

Fault == faults < MaxFaults /\ faults' = faults + 1

Room           == BagCardinality(calls) < MaxCalls
Without(c)     == calls (-) SetToBag({c})
Send(c)        == Room /\ calls' = calls (+) SetToBag({c})
Becomes(c, d)  == calls' = Without(c) (+) SetToBag({d})
InFlight(kind, phase) == {c \in BagToSet(calls) : c.kind = kind /\ c.phase = phase}

----------------------------------------------------------------------------
(* The page. *)

(* validateSession, when the page is loaded and every 15 seconds. *)
Poll ==
  /\ Send(NewCall("poll"))
  /\ UNCHANGED <<serverVars, cookie, session, page, faults>>

(* Whether the bound on the sessions leaves one for a further login. *)
AnotherLogin ==
  issued + BagCardinality([c \in InFlight("login", "sent") |-> calls[c]]) < MaxSessions

(* handleSubmit and startSession: nothing keeps the form from being        *)
(* submitted again before the answer.                                      *)
HandleSubmit ==
  /\ page = "/" /\ session # undefined
  /\ AnotherLogin
  /\ \E code \in Codes : Send([NewCall("login") EXCEPT !.code = code])
  /\ UNCHANGED <<serverVars, cookie, session, page, faults>>

LoggedIn == session \in SIDs
IsAdmin  == session \in admins

(* Mistake: everybody is sent to the admin's page. *)
LoginEffectAdmin ==
  /\ page = "/" /\ LoggedIn
  /\ page' = "/admin"
  /\ UNCHANGED <<serverVars, cookie, session, calls, faults>>

(* LoginPage *)
LoginEffect ==
  /\ page = "/" /\ LoggedIn
  /\ page' = IF IsAdmin THEN "/admin" ELSE "/viewer"
  /\ UNCHANGED <<serverVars, cookie, session, calls, faults>>

(* ProtectedRoute and AdminRoute.  Nothing is rendered before the first    *)
(* answer.                                                                 *)
RedirectEffect ==
  /\ session # undefined
  /\ \/ page = "/viewer" /\ ~LoggedIn
     \/ page = "/admin" /\ ~IsAdmin
  /\ page' = "/"
  /\ UNCHANGED <<serverVars, cookie, session, calls, faults>>

(* The user goes back or forward; the page is not loaded anew. *)
Navigate ==
  /\ Fault
  /\ page' \in Pages \ {page}
  /\ UNCHANGED <<serverVars, cookie, session, calls>>

(* The page is loaded anew. *)
Reload ==
  /\ Fault
  /\ session' = undefined
  /\ calls' = EmptyBag
  /\ page' \in Pages
  /\ UNCHANGED <<serverVars, cookie>>

----------------------------------------------------------------------------
(* The server. *)

(* Mistake: a request without a cookie has its cookie deleted, too. *)
MiddlewareDeletesAny(c) == IF c.cookie \notin live THEN -1 ELSE 0

(* sessionMiddleware: the cookie of a session that is not in the store is  *)
(* to be deleted.                                                          *)
Middleware(c) == IF c.cookie # null /\ c.cookie \notin live THEN -1 ELSE 0

(* What the call asked for is of no interest any more.                     *)
Answer(c, ok) ==
  [c EXCEPT !.phase = "answered", !.ok = ok, !.set = Middleware(c),
            !.code = "-", !.sid = null, !.box = 0]

ServePoll(c) ==
  /\ Becomes(c, [Answer(c, c.cookie \in live) EXCEPT
                   !.who = IF c.cookie \in live THEN c.cookie ELSE null])
  /\ UNCHANGED <<serverVars, cookie, session, page, faults>>

(* httpCreateSession.  Of the cookies its answer sets the session's is the *)
(* last.  Whether there is a sandbox left is the store's business.         *)
LoginRefused(c) ==
  /\ c.code # "admin"
  /\ Becomes(c, Answer(c, FALSE))
  /\ UNCHANGED <<serverVars, cookie, session, page, faults>>

LoginAccepted(c) ==
  /\ issued < MaxSessions
  /\ issued' = issued + 1
  /\ live' = live \cup {issued'}
  /\ admins' = IF c.code = "admin" THEN admins \cup {issued'} ELSE admins
  /\ \E b \in IF c.code = "admin" THEN {0} ELSE Boxes :
       box' = [box EXCEPT ![issued'] = b]
  /\ Becomes(c, [Answer(c, TRUE) EXCEPT !.set = issued'])
  /\ UNCHANGED <<cookie, session, page, faults>>

(* Another participant logs in. *)
OtherLogin ==
  /\ issued < MaxSessions /\ AnotherLogin
  /\ issued' = issued + 1
  /\ live' = live \cup {issued'}
  /\ \E b \in Boxes : box' = [box EXCEPT ![issued'] = b]
  /\ UNCHANGED <<admins, browserVars, faults>>

(* sessions.Delete, of each; what sandbox they had is forgotten with them. *)
EndOf(gone) ==
  /\ live' = live \ gone
  /\ box' = [s \in SIDs |-> IF s \in gone THEN 0 ELSE box[s]]

(* Another admin destroys sessions, or the server restarts. *)
SessionsEnd ==
  /\ Fault
  /\ \E gone \in (SUBSET live) \ {{}} : EndOf(gone)
  /\ UNCHANGED <<issued, admins, browserVars>>

----------------------------------------------------------------------------
(* Answers. *)

(* Mistake: the deletion is stored as the cookie's new value. *)
SetCookieRaw(c) == cookie' = IF c.set = 0 THEN cookie ELSE c.set

(* The browser sees to the cookie before the page gets the answer. *)
SetCookie(c) ==
  cookie' = CASE c.set = 0 -> cookie [] c.set = -1 -> null [] OTHER -> c.set

(* Mistake: an answer that there is no session changes nothing. *)
PollAnsweredKeeps(c) ==
  /\ SetCookie(c)
  /\ IF c.ok THEN Becomes(c, [c EXCEPT !.phase = "body"]) ELSE calls' = Without(c)
  /\ UNCHANGED <<serverVars, session, page, faults>>

PollAnswered(c) ==
  /\ SetCookie(c)
  /\ IF c.ok
       THEN Becomes(c, [c EXCEPT !.phase = "body"]) /\ UNCHANGED session
       ELSE calls' = Without(c) /\ session' = null
  /\ UNCHANGED <<serverVars, page, faults>>

(* The session's data have arrived. *)
PollBody(c) ==
  /\ session' = c.who
  /\ calls' = Without(c)
  /\ UNCHANGED <<serverVars, cookie, page, faults>>

(* A login that succeeds goes on with validateSession; one that does not   *)
(* shows an error for a while.                                             *)
LoginAnswered(c) ==
  /\ SetCookie(c)
  /\ IF c.ok
       THEN Becomes(c, [NewCall("poll") EXCEPT !.cookie = cookie'])
       ELSE calls' = Without(c)
  /\ UNCHANGED <<serverVars, session, page, faults>>

(* The request or its answer is lost, and the call throws. *)
Lost(c) ==
  /\ Fault
  /\ calls' = Without(c)
  /\ UNCHANGED <<serverVars, cookie, session, page>>

Serve ==
  \/ \E c \in InFlight("poll", "sent")  : ServePoll(c)
  \/ \E c \in InFlight("login", "sent") : LoginRefused(c) \/ LoginAccepted(c)

Arrive ==
  \/ \E c \in InFlight("poll", "answered")  : PollAnswered(c)
  \/ \E c \in InFlight("poll", "body")      : PollBody(c)
  \/ \E c \in InFlight("login", "answered") : LoginAnswered(c)

(* All but Reload, which also forgets what the rest of the page keeps. *)
SessionStep ==
  \/ Poll \/ HandleSubmit
  \/ LoginEffect \/ RedirectEffect \/ Navigate
  \/ Serve \/ Arrive
  \/ OtherLogin \/ SessionsEnd
  \/ \E c \in BagToSet(calls) : Lost(c)

=============================================================================
