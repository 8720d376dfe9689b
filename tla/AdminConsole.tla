---------------------------- MODULE AdminConsole ----------------------------
(***************************************************************************)
(* The admin's page (client/src/pages/admin, services/store/admin.ts) in   *)
(* the browser of module BrowserSession: a summary fetched again and       *)
(* again, a session and a sandbox selected in its tables, and the          *)
(* operations on them.  The server's part is httpAdminSummary,             *)
(* httpDeleteSession and httpAssignSandbox, one step for each request.     *)
(***************************************************************************)
EXTENDS BrowserSession

VARIABLES
  summary,     \* adminSummary: the sandbox of each participant's session
  selSession,  \* selectedSession, by its ID, or null
  selSandbox   \* selectedSandbox, or 0

consoleVars == <<summary, selSession, selSandbox>>
vars == <<issued, live, admins, box, cookie, session, page, calls, faults,
          summary, selSession, selSandbox>>

NoSummary == <<>>   \* undefined

ConsoleTypeOK ==
  /\ SessionTypeOK
  /\ summary \in [SIDs -> Boxes \cup {0, -1}] \cup {NoSummary}
  /\ selSession \in 0 .. issued
  /\ selSandbox \in Boxes \cup {0}

ConsoleEmpty == summary = NoSummary /\ selSession = null /\ selSandbox = 0

Init == SessionInit /\ ConsoleEmpty

Mounted == page = "/admin" /\ IsAdmin

----------------------------------------------------------------------------
(* The page. *)

(* Mistake: the summary is fetched when there is none, and no interval is set. *)
SummaryOnce ==
  /\ Mounted /\ summary = NoSummary
  /\ Send(NewCall("summary"))
  /\ UNCHANGED <<serverVars, cookie, session, page, faults, consoleVars>>

(* fetchAdminSummary, when the page is mounted and every 5 seconds. *)
SummaryTimer ==
  /\ Mounted
  /\ Send(NewCall("summary"))
  /\ UNCHANGED <<serverVars, cookie, session, page, faults, consoleVars>>

(* A click on an entry selects it; a click on the selected one undoes it.  *)
(* What is selected stays so when a later summary does not have it.        *)
SelectSession ==
  /\ Mounted /\ summary # NoSummary
  /\ \E s \in {t \in SIDs : summary[t] # -1} :
       selSession' = IF s = selSession THEN null ELSE s
  /\ UNCHANGED <<serverVars, browserVars, faults, summary, selSandbox>>

SelectSandbox ==
  /\ Mounted /\ summary # NoSummary
  /\ \E b \in Boxes : selSandbox' = IF b = selSandbox THEN 0 ELSE b
  /\ UNCHANGED <<serverVars, browserVars, faults, summary, selSession>>

(* "Destroy session" *)
DestroySession ==
  /\ Mounted /\ selSession # null
  /\ Send([NewCall("destroy") EXCEPT !.sid = selSession])
  /\ UNCHANGED <<serverVars, cookie, session, page, faults, consoleVars>>

(* "Set sandbox to session" *)
AssignSandbox ==
  /\ Mounted /\ selSession # null /\ selSandbox # 0
  /\ Send([NewCall("assign") EXCEPT !.sid = selSession, !.box = selSandbox])
  /\ UNCHANGED <<serverVars, cookie, session, page, faults, consoleVars>>

ConsoleReload ==
  /\ Reload
  /\ summary' = NoSummary /\ selSession' = null /\ selSandbox' = 0

----------------------------------------------------------------------------
(* The server. *)

ServeSummary(c) ==
  /\ Becomes(c, [Answer(c, TRUE) EXCEPT !.table = Table])
  /\ UNCHANGED <<serverVars, cookie, session, page, faults, consoleVars>>

(* The session is deleted, or not found. *)
ServeDestroy(c) ==
  /\ EndOf({c.sid})
  /\ Becomes(c, Answer(c, c.sid \in live))
  /\ UNCHANGED <<issued, admins, cookie, session, page, faults, consoleVars>>

(* Whether the sandbox can be reserved is the store's business; a session  *)
(* that is gone panics, and the connection is closed without an answer.    *)
ServeAssign(c) ==
  /\ \/ /\ c.sid \notin live
        /\ calls' = Without(c) /\ UNCHANGED box
     \/ /\ c.sid \in live
        /\ Becomes(c, Answer(c, FALSE)) /\ UNCHANGED box
     \/ /\ c.sid \in live
        /\ box' = [box EXCEPT ![c.sid] = c.box]
        /\ Becomes(c, Answer(c, TRUE))
  /\ UNCHANGED <<issued, live, admins, cookie, session, page, faults, consoleVars>>

----------------------------------------------------------------------------
(* Answers. *)

SummaryAnswered(c) ==
  /\ SetCookie(c)
  /\ Becomes(c, [c EXCEPT !.phase = "body", !.set = 0])
  /\ UNCHANGED <<serverVars, session, page, faults, consoleVars>>

SummaryBody(c) ==
  /\ summary' = c.table
  /\ calls' = Without(c)
  /\ UNCHANGED <<serverVars, cookie, session, page, faults, selSession, selSandbox>>

(* An operation that succeeds goes on with fetchAdminSummary.              *)
ThenSummary(c) ==
  IF c.ok THEN Becomes(c, [NewCall("summary") EXCEPT !.cookie = cookie'])
          ELSE calls' = Without(c)

(* Whatever is selected by now is not any more. *)
DestroyAnswered(c) ==
  /\ SetCookie(c) /\ ThenSummary(c)
  /\ selSession' = IF c.ok THEN null ELSE selSession
  /\ UNCHANGED <<serverVars, session, page, faults, summary, selSandbox>>

AssignAnswered(c) ==
  /\ SetCookie(c) /\ ThenSummary(c)
  /\ UNCHANGED <<serverVars, session, page, faults, consoleVars>>

ConsoleServe ==
  \/ \E c \in InFlight("summary", "sent") : ServeSummary(c)
  \/ \E c \in InFlight("destroy", "sent") : ServeDestroy(c)
  \/ \E c \in InFlight("assign", "sent")  : ServeAssign(c)

ConsoleArrive ==
  \/ \E c \in InFlight("summary", "answered") : SummaryAnswered(c)
  \/ \E c \in InFlight("summary", "body")     : SummaryBody(c)
  \/ \E c \in InFlight("destroy", "answered") : DestroyAnswered(c)
  \/ \E c \in InFlight("assign", "answered")  : AssignAnswered(c)

Session(A) == A /\ UNCHANGED consoleVars

Next ==
  \/ Session(SessionStep)
  \/ SummaryTimer \/ SelectSession \/ SelectSandbox
  \/ DestroySession \/ AssignSandbox \/ ConsoleReload
  \/ ConsoleServe \/ ConsoleArrive

(***************************************************************************)
(* Every kind of request is served and its answers arrive, unless they are *)
(* lost, and the effects of a rendered page run.  The timers go off for    *)
(* ever; that their calls wait for others to end is the bound's doing,     *)
(* hence the strong fairness.                                              *)
(***************************************************************************)
Fairness ==
  /\ WF_vars(\E c \in InFlight("poll", "sent") : Session(ServePoll(c)))
  /\ WF_vars(\E c \in InFlight("poll", "answered") : Session(PollAnswered(c)))
  /\ WF_vars(\E c \in InFlight("poll", "body") : Session(PollBody(c)))
  /\ WF_vars(\E c \in InFlight("login", "sent") : Session(LoginRefused(c) \/ LoginAccepted(c)))
  /\ WF_vars(\E c \in InFlight("login", "answered") : Session(LoginAnswered(c)))
  /\ WF_vars(ConsoleServe) /\ WF_vars(ConsoleArrive)
  /\ WF_vars(Session(LoginEffect)) /\ WF_vars(Session(RedirectEffect))
  /\ SF_vars(Session(Poll)) /\ SF_vars(SummaryTimer)

Spec == Init /\ [][Next]_vars /\ Fairness

----------------------------------------------------------------------------
(* Properties. *)

(* c's answer may take the cookie of a session that still exists: it is a  *)
(* login's, or the session c was asked with is over by now.                *)
MayTakeCookie(c) ==
  /\ c.phase = "answered"
  /\ \/ c.kind = "login" /\ c.ok
     \/ c.cookie # null /\ c.cookie \notin live

(* Whenever the browser loses the cookie of a session that still exists,   *)
(* there is an answer to a login under way, or one to a call asked with a  *)
(* cookie whose session is over by now (httpCreateSession, deleteCookie in *)
(* sessionMiddleware).  Answers to calls asked without a cookie, or with   *)
(* that of a session that lives on, never do it, in whatever order they    *)
(* arrive.                                                                 *)
OnlyDeadCookiesHurt ==
  [][(cookie' # cookie /\ cookie \in live) =>
       \E c \in BagToSet(calls) : MayTakeCookie(c)]_vars

(* What the server says of the cookie the browser has. *)
Truth == IF cookie \in live THEN cookie ELSE null

(* Once nothing interferes any more, the page's session is the one the     *)
(* server has for the browser's cookie, though answers to polls sent       *)
(* before a login, before its end or with another cookie arrive in any     *)
(* order and overwrite one another (store/session.ts).                     *)
StoreCatchesUp == <>[](session = Truth)

Fits(p) ==
  /\ p = "/" => ~LoggedIn
  /\ p = "/viewer" => LoggedIn
  /\ p = "/admin" => IsAdmin

(* LoginPage, ProtectedRoute and AdminRoute redirect one to the other: the *)
(* page ends at a path its session may see, and does not go round.         *)
RouteSettles == <>[]Fits(page)

(* As long as the admin's page stays open and the sandboxes are not moved  *)
(* any more, it ends with a summary of the sessions there are, in spite of *)
(* summaries that are lost and of those that arrive after a newer one.     *)
SummaryCatchesUp ==
  <>[]Mounted /\ <>[][UNCHANGED box]_vars => <>[](summary = Table)

=============================================================================
