------------------------- MODULE AdminConsoleProofs -------------------------
(***************************************************************************)
(* Proofs about AdminConsole, for any number of sessions, sandboxes, calls *)
(* and faults: types, and what it takes for a browser to lose its cookie.  *)
(***************************************************************************)
EXTENDS AdminConsole, TLAPS

(* What any call says, sent or answered, is about sessions that have been  *)
(* issued, and its answer meddles with the cookie only if it is a login's, *)
(* or if the cookie it was sent with is that of a session that is over     *)
(* (and no session ever comes back).  n is the last ID, alive the store.   *)
Known(table, n) == \A s \in SIDs : table[s] # -1 => s <= n

CallFits(c, n, alive) ==
  /\ c \in Call
  /\ c.cookie \in 0 .. n /\ c.who \in 0 .. n /\ c.set \in -1 .. n
  /\ Known(c.table, n)
  /\ c.set = -1 => c.cookie # null /\ c.cookie \notin alive
  /\ c.set > 0 => c.kind = "login" /\ c.ok

CallsFit == IsABag(calls) /\ \A c \in BagToSet(calls) : CallFits(c, issued, live)

ServerTypes ==
  /\ issued \in 0 .. MaxSessions
  /\ live \subseteq 1 .. issued
  /\ admins \subseteq 1 .. issued
  /\ box \in [SIDs -> Boxes \cup {0}]

PageTypes ==
  /\ cookie \in 0 .. issued
  /\ session \in undefined .. issued
  /\ page \in Pages
  /\ faults \in 0 .. MaxFaults

SummaryTypes ==
  /\ \/ summary = NoSummary
     \/ summary \in [SIDs -> Boxes \cup {0, -1}] /\ Known(summary, issued)
  /\ selSession \in 0 .. issued
  /\ selSandbox \in Boxes \cup {0}

ConsoleInv == ServerTypes /\ PageTypes /\ CallsFit /\ SummaryTypes

(* What any step may do to the sessions: IDs are issued in order, and a    *)
(* session that is over stays so.                                          *)
SessionsGoOn ==
  /\ issued' \in issued .. issued + 1 /\ issued' <= MaxSessions
  /\ live' \cap (1 .. issued) \subseteq live

LEMMA Numbers ==
  ConsoleInv =>
    /\ MaxSessions \in Nat \ {0} /\ SIDs = 1 .. MaxSessions
    /\ issued \in Nat /\ issued <= MaxSessions /\ cookie \in Nat
    /\ live \subseteq SIDs /\ admins \subseteq SIDs
    /\ null = 0 /\ undefined = -1
    /\ Boxes \subseteq Nat \ {0}
BY BrowserAssumption DEF ConsoleInv, ServerTypes, PageTypes, SIDs, null, undefined

----------------------------------------------------------------------------
(* Bags of calls. *)

LEMMA OneMore ==
  ASSUME NEW b, IsABag(b), NEW d
  PROVE  /\ IsABag(b (+) SetToBag({d}))
         /\ BagToSet(b (+) SetToBag({d})) = BagToSet(b) \cup {d}
BY DEF IsABag, BagToSet, SetToBag, (+)

LEMMA OneLess ==
  ASSUME NEW b, IsABag(b), NEW d
  PROVE  /\ IsABag(b (-) SetToBag({d}))
         /\ BagToSet(b (-) SetToBag({d})) \subseteq BagToSet(b)
BY DEF IsABag, BagToSet, SetToBag, (-)

LEMMA NoCalls == IsABag(EmptyBag) /\ BagToSet(EmptyBag) = {}
BY DEF EmptyBag, IsABag, BagToSet, SetToBag

(* A call that fits goes on to. *)
LEMMA FitsOn ==
  ASSUME ConsoleInv, SessionsGoOn, NEW c, CallFits(c, issued, live)
  PROVE  CallFits(c, issued', live')
<1>1. issued \in Nat /\ issued' \in Nat /\ issued <= issued'
  BY Numbers DEF SessionsGoOn
<1>2. /\ c \in Call /\ c.cookie \in 0 .. issued' /\ c.who \in 0 .. issued'
      /\ c.set \in -1 .. issued'
  BY <1>1 DEF CallFits
<1>3. Known(c.table, issued')
  <2>1. ASSUME NEW s \in SIDs, c.table[s] # -1 PROVE s <= issued'
    <3>1. s <= issued /\ s \in Nat
      BY <2>1, Numbers DEF CallFits, Known
    <3> QED BY <1>1, <3>1
  <2> QED BY <2>1 DEF Known
<1>4. c.set = -1 => c.cookie # null /\ c.cookie \notin live'
  BY <1>1, Numbers DEF CallFits, SessionsGoOn
<1> QED BY <1>2, <1>3, <1>4 DEF CallFits

LEMMA FitKept ==
  ASSUME ConsoleInv, SessionsGoOn, calls' = calls
  PROVE  CallsFit'
BY FitsOn DEF ConsoleInv, CallsFit

LEMMA FitWithout ==
  ASSUME ConsoleInv, SessionsGoOn, NEW c, calls' = Without(c)
  PROVE  CallsFit'
<1>1. IsABag(calls') /\ BagToSet(calls') \subseteq BagToSet(calls)
  BY OneLess DEF ConsoleInv, CallsFit, Without
<1> QED BY <1>1, FitsOn DEF ConsoleInv, CallsFit

LEMMA FitBecomes ==
  ASSUME ConsoleInv, SessionsGoOn, NEW c, NEW d, Becomes(c, d),
         CallFits(d, issued', live')
  PROVE  CallsFit'
<1>1. IsABag(Without(c)) /\ BagToSet(Without(c)) \subseteq BagToSet(calls)
  BY OneLess DEF ConsoleInv, CallsFit, Without
<1>2. IsABag(calls') /\ BagToSet(calls') = BagToSet(Without(c)) \cup {d}
  BY <1>1, OneMore DEF Becomes
<1> QED BY <1>1, <1>2, FitsOn DEF ConsoleInv, CallsFit

LEMMA FitSend ==
  ASSUME ConsoleInv, SessionsGoOn, NEW d, Send(d), CallFits(d, issued', live')
  PROVE  CallsFit'
<1>1. IsABag(calls') /\ BagToSet(calls') = BagToSet(calls) \cup {d}
  BY OneMore DEF ConsoleInv, CallsFit, Send
<1> QED BY <1>1, FitsOn DEF ConsoleInv, CallsFit

(* What the page sends. *)
LEMMA RequestFits ==
  ASSUME ConsoleInv, NEW d \in Call, d.cookie \in 0 .. issued, d.set = 0, d.who = null,
         d.table = NoTable
  PROVE  CallFits(d, issued, live)
BY Numbers DEF CallFits, Known, NoTable

LEMMA NewCallIsCall ==
  ASSUME ConsoleInv, NEW kind \in {"poll", "login", "summary", "destroy", "assign"}
  PROVE  /\ NewCall(kind) \in Call
         /\ NewCall(kind).cookie = cookie /\ NewCall(kind).set = 0
         /\ NewCall(kind).who = null /\ NewCall(kind).table = NoTable
<1>1. cookie \in SIDs \cup {null}
  BY Numbers DEF ConsoleInv, PageTypes
<1>2. NoTable \in [SIDs -> Boxes \cup {0, -1}]
  BY DEF NoTable
<1> QED BY <1>1, <1>2 DEF NewCall, Call, null

(* What becomes of a call: an answer to it. *)
LEMMA AnswerFits ==
  ASSUME ConsoleInv, NEW c, CallFits(c, issued, live), NEW d \in Call,
         d.cookie = c.cookie, d.set \in {0, Middleware(c)}, d.who \in 0 .. issued,
         Known(d.table, issued)
  PROVE  CallFits(d, issued, live)
<1>1. d.set \in {0, -1} /\ (d.set = -1 => c.cookie # null /\ c.cookie \notin live)
  BY DEF Middleware
<1>2. d.set \in -1 .. issued /\ ~(d.set > 0)
  BY <1>1, Numbers
<1> QED BY <1>1, <1>2 DEF CallFits

LEMMA AnswerIsCall ==
  ASSUME ConsoleInv, NEW c \in Call, NEW ok \in BOOLEAN
  PROVE  /\ Answer(c, ok) \in Call
         /\ Answer(c, ok).cookie = c.cookie /\ Answer(c, ok).set = Middleware(c)
         /\ Answer(c, ok).who = c.who /\ Answer(c, ok).table = c.table
         /\ Answer(c, ok).kind = c.kind /\ Answer(c, ok).ok = ok
<1>1. Middleware(c) \in SIDs \cup {0, -1}
  BY DEF Middleware
<1> HIDE DEF Middleware
<1>2. Answer(c, ok) = [c EXCEPT !.phase = "answered", !.ok = ok, !.set = Middleware(c),
                                !.code = "-", !.sid = null, !.box = 0]
  BY DEF Answer
<1> QED BY <1>1, <1>2 DEF Call, null

LEMMA PlainAnswerFits ==
  ASSUME ConsoleInv, NEW c, CallFits(c, issued, live), NEW ok \in BOOLEAN
  PROVE  CallFits(Answer(c, ok), issued, live)
<1>1. c \in Call /\ c.who \in 0 .. issued /\ Known(c.table, issued)
  BY DEF CallFits
<1> QED BY <1>1, AnswerIsCall, AnswerFits

LEMMA UnderWay ==
  ASSUME ConsoleInv, NEW kind, NEW phase, NEW c \in InFlight(kind, phase)
  PROVE  /\ c \in BagToSet(calls) /\ CallFits(c, issued, live) /\ c \in Call
         /\ c.kind = kind /\ c.phase = phase
<1>1. c \in BagToSet(calls) /\ c.kind = kind /\ c.phase = phase
  BY DEF InFlight
<1>2. CallFits(c, issued, live)
  BY <1>1 DEF ConsoleInv, CallsFit
<1> QED BY <1>1, <1>2 DEF CallFits

LEMMA CookieSet ==
  ASSUME ConsoleInv, NEW c, CallFits(c, issued, live), SetCookie(c)
  PROVE  cookie' \in 0 .. issued
<1>1. c.set \in -1 .. issued /\ cookie \in 0 .. issued
  BY DEF CallFits, ConsoleInv, PageTypes
<1> QED BY <1>1, Numbers DEF SetCookie

(* Steps that leave the server, the page or the summary alone. *)
LEMMA ServerKept ==
  ASSUME ConsoleInv, UNCHANGED serverVars
  PROVE  SessionsGoOn /\ ServerTypes' /\ issued' = issued /\ live' = live
<1>1. issued' = issued /\ live' = live /\ admins' = admins /\ box' = box
  BY DEF serverVars
<1> QED BY <1>1, Numbers DEF SessionsGoOn, ConsoleInv, ServerTypes

LEMMA PageKept ==
  ASSUME ConsoleInv, SessionsGoOn, UNCHANGED <<cookie, session, page>>,
         faults' \in 0 .. MaxFaults
  PROVE  PageTypes'
<1>1. issued \in Nat /\ issued' \in Nat /\ issued <= issued'
  BY Numbers DEF SessionsGoOn
<1>2. cookie' \in 0 .. issued' /\ session' \in undefined .. issued'
  BY <1>1, Numbers DEF ConsoleInv, PageTypes
<1> QED BY <1>2 DEF ConsoleInv, PageTypes

LEMMA SummaryKept ==
  ASSUME ConsoleInv, SessionsGoOn, UNCHANGED consoleVars
  PROVE  SummaryTypes'
<1>1. issued \in Nat /\ issued' \in Nat /\ issued <= issued'
  BY Numbers DEF SessionsGoOn
<1>2. summary' = summary /\ selSession' = selSession /\ selSandbox' = selSandbox
  BY DEF consoleVars
<1>3. SummaryTypes
  BY DEF ConsoleInv
<1>4. selSession' \in 0 .. issued'
  BY <1>1, <1>2, <1>3 DEF SummaryTypes
<1>5. Known(summary, issued) => Known(summary', issued')
  <2>1. ASSUME NEW s \in SIDs, s <= issued PROVE s <= issued'
    BY <1>1, <2>1, Numbers
  <2> QED BY <1>2, <2>1 DEF Known
<1> QED BY <1>2, <1>3, <1>4, <1>5 DEF SummaryTypes

LEMMA Faults ==
  ASSUME ConsoleInv, Fault \/ UNCHANGED faults
  PROVE  faults' \in 0 .. MaxFaults
BY BrowserAssumption DEF ConsoleInv, PageTypes, Fault

----------------------------------------------------------------------------
(* The steps of the session: BrowserInv is what they keep. *)

BrowserInv == ServerTypes /\ PageTypes /\ CallsFit

LEMMA SendKeeps ==
  ASSUME ConsoleInv, NEW d, Send(d), CallFits(d, issued, live),
         UNCHANGED <<serverVars, cookie, session, page, faults>>
  PROVE  BrowserInv' /\ SessionsGoOn
<1>1. SessionsGoOn /\ ServerTypes' /\ issued' = issued /\ live' = live
  BY ServerKept
<1>2. PageTypes'
  BY <1>1, Faults, PageKept
<1>3. CallsFit'
  BY <1>1, FitSend
<1> QED BY <1>1, <1>2, <1>3 DEF BrowserInv

LEMMA PollKeeps == ConsoleInv /\ Poll => BrowserInv' /\ SessionsGoOn
<1> SUFFICES ASSUME ConsoleInv, Poll PROVE BrowserInv' /\ SessionsGoOn
  OBVIOUS
<1>1. /\ Send(NewCall("poll")) /\ UNCHANGED <<serverVars, cookie, session, page, faults>>
  BY DEF Poll
<1>2. CallFits(NewCall("poll"), issued, live)
  <2>1. cookie \in 0 .. issued
    BY DEF ConsoleInv, PageTypes
  <2> QED BY <2>1, NewCallIsCall, RequestFits
<1> QED BY <1>1, <1>2, SendKeeps

LEMMA HandleSubmitKeeps == ConsoleInv /\ HandleSubmit => BrowserInv' /\ SessionsGoOn
<1> SUFFICES ASSUME ConsoleInv, HandleSubmit PROVE BrowserInv' /\ SessionsGoOn
  OBVIOUS
<1>1. PICK code \in Codes : Send([NewCall("login") EXCEPT !.code = code])
  BY DEF HandleSubmit
<1> DEFINE q == NewCall("login")
           d == [q EXCEPT !.code = code]
<1>2. UNCHANGED <<serverVars, cookie, session, page, faults>> /\ cookie \in 0 .. issued
  BY DEF HandleSubmit, ConsoleInv, PageTypes
<1>3. /\ q \in Call /\ q.cookie = cookie /\ q.set = 0 /\ q.who = null /\ q.table = NoTable
      /\ Send(d)
  BY <1>1, NewCallIsCall
<1> HIDE DEF q
<1>4. /\ d \in Call /\ d.cookie = cookie /\ d.set = 0 /\ d.who = null /\ d.table = NoTable
  BY <1>3 DEF Call
<1> HIDE DEF d
<1>5. CallFits(d, issued, live)
  BY <1>2, <1>4, RequestFits
<1> QED BY <1>2, <1>3, <1>5, SendKeeps

LEMMA MovesKeep ==
  ConsoleInv /\ (LoginEffect \/ RedirectEffect \/ Navigate) => BrowserInv' /\ SessionsGoOn
<1> SUFFICES ASSUME ConsoleInv, LoginEffect \/ RedirectEffect \/ Navigate
             PROVE  BrowserInv' /\ SessionsGoOn
  OBVIOUS
<1>1. UNCHANGED <<serverVars, cookie, session, calls>> /\ page' \in Pages
  BY DEF LoginEffect, RedirectEffect, Navigate, Pages
<1>2. faults' \in 0 .. MaxFaults
  BY Faults DEF LoginEffect, RedirectEffect, Navigate
<1>3. SessionsGoOn /\ ServerTypes' /\ issued' = issued /\ live' = live
  BY <1>1, ServerKept
<1>4. PageTypes'
  BY <1>1, <1>2, <1>3 DEF ConsoleInv, PageTypes
<1>5. CallsFit'
  BY <1>1, <1>3, FitKept
<1> QED BY <1>3, <1>4, <1>5 DEF BrowserInv

(* The server's answers; live' is what the request leaves of the store. *)
LEMMA ServePollKeeps ==
  ASSUME ConsoleInv, NEW c \in InFlight("poll", "sent"), ServePoll(c)
  PROVE  BrowserInv' /\ SessionsGoOn
<1> DEFINE known == c.cookie \in live
           a == Answer(c, known)
           w == IF c.cookie \in live THEN c.cookie ELSE null
           d == [a EXCEPT !.who = w]
<1>1. CallFits(c, issued, live) /\ c \in Call
  BY UnderWay
<1>2. /\ a \in Call /\ a.cookie = c.cookie /\ a.set = Middleware(c) /\ a.table = c.table
  <2>1. known \in BOOLEAN
    OBVIOUS
  <2> HIDE DEF known
  <2> QED BY <1>1, <2>1, AnswerIsCall
<1>3. w \in 0 .. issued /\ w \in SIDs \cup {null}
  <2>1. c.cookie \in 0 .. issued
    BY <1>1 DEF CallFits
  <2> QED BY <2>1, Numbers
<1>4. Becomes(c, d) /\ UNCHANGED <<serverVars, cookie, session, page, faults>>
  BY DEF ServePoll
<1> HIDE DEF a, w
<1>5. d \in Call /\ d.cookie = c.cookie /\ d.set = Middleware(c) /\ d.who = w /\ d.table = c.table
  BY <1>2, <1>3 DEF Call
<1> HIDE DEF d
<1>6. CallFits(d, issued, live)
  BY <1>1, <1>3, <1>5, AnswerFits DEF CallFits
<1>7. SessionsGoOn /\ ServerTypes' /\ issued' = issued /\ live' = live
  BY <1>4, ServerKept
<1>8. PageTypes' /\ CallsFit'
  BY <1>4, <1>6, <1>7, Faults, PageKept, FitBecomes
<1> QED BY <1>7, <1>8 DEF BrowserInv

LEMMA LoginRefusedKeeps ==
  ASSUME ConsoleInv, NEW c \in InFlight("login", "sent"), LoginRefused(c)
  PROVE  BrowserInv' /\ SessionsGoOn
<1>1. CallFits(c, issued, live)
  BY UnderWay
<1>2. Becomes(c, Answer(c, FALSE)) /\ UNCHANGED <<serverVars, cookie, session, page, faults>>
  BY DEF LoginRefused
<1>3. CallFits(Answer(c, FALSE), issued, live)
  BY <1>1, PlainAnswerFits
<1>4. SessionsGoOn /\ ServerTypes' /\ issued' = issued /\ live' = live
  BY <1>2, ServerKept
<1>5. PageTypes' /\ CallsFit'
  BY <1>2, <1>3, <1>4, Faults, PageKept, FitBecomes
<1> QED BY <1>4, <1>5 DEF BrowserInv

(* A session that is made. *)
LEMMA SessionMade ==
  ASSUME ConsoleInv, issued < MaxSessions, issued' = issued + 1, live' = live \cup {issued'},
         admins' \in {admins, admins \cup {issued'}},
         NEW b \in Boxes \cup {0}, box' = [box EXCEPT ![issued'] = b]
  PROVE  SessionsGoOn /\ ServerTypes'
<1> DEFINE n == issued + 1
<1>1. issued \in Nat /\ n \in 1 .. MaxSessions /\ n > issued
  BY Numbers
<1>2. ServerTypes
  BY DEF ConsoleInv
<1>3. SessionsGoOn
  BY <1>1, <1>2 DEF SessionsGoOn, ServerTypes
<1>4. live' \subseteq 1 .. issued' /\ admins' \subseteq 1 .. issued'
  BY <1>1, <1>2 DEF ServerTypes
<1>5. box' \in [SIDs -> Boxes \cup {0}]
  BY <1>2 DEF ServerTypes
<1>6. issued' \in 0 .. MaxSessions
  BY <1>1, Numbers
<1> QED BY <1>3, <1>4, <1>5, <1>6 DEF ServerTypes

LEMMA LoginAcceptedKeeps ==
  ASSUME ConsoleInv, NEW c \in InFlight("login", "sent"), LoginAccepted(c)
  PROVE  BrowserInv' /\ SessionsGoOn
<1> DEFINE n == issued'
           a == Answer(c, TRUE)
           d == [a EXCEPT !.set = n]
<1>1. CallFits(c, issued, live) /\ c \in Call /\ c.kind = "login"
  BY UnderWay
<1>2. PICK b \in IF c.code = "admin" THEN {0} ELSE Boxes : box' = [box EXCEPT ![issued'] = b]
  BY DEF LoginAccepted
<1>3. /\ issued < MaxSessions /\ issued' = issued + 1 /\ live' = live \cup {issued'}
      /\ admins' \in {admins, admins \cup {issued'}}
      /\ b \in Boxes \cup {0}
      /\ Becomes(c, d) /\ UNCHANGED <<cookie, session, page, faults>>
  BY <1>2 DEF LoginAccepted
<1>4. SessionsGoOn /\ ServerTypes'
  BY <1>2, <1>3, SessionMade
<1>5. n \in SIDs /\ n > 0 /\ n \in -1 .. n
  BY <1>3, Numbers
<1>6. /\ a \in Call /\ a.cookie = c.cookie /\ a.who = c.who /\ a.table = c.table
      /\ a.kind = c.kind /\ a.ok = TRUE
  BY <1>1, AnswerIsCall
<1>7. CallFits(c, issued', live')
  BY <1>1, <1>4, FitsOn
<1> HIDE DEF a, n
<1>8. /\ d \in Call /\ d.cookie = c.cookie /\ d.who = c.who /\ d.table = c.table
      /\ d.kind = c.kind /\ d.ok = TRUE /\ d.set = n
  BY <1>5, <1>6 DEF Call
<1> HIDE DEF d
<1>9. CallFits(d, n, live')
  <2>1. n = issued'
    BY DEF n
  <2>2. d.set # -1
    BY <1>5, <1>8
  <2> QED BY <1>1, <1>5, <1>7, <1>8, <2>1, <2>2 DEF CallFits
<1>10. CallsFit'
  BY <1>3, <1>4, <1>9, FitBecomes DEF n
<1>11. PageTypes'
  BY <1>3, <1>4, Faults, PageKept
<1> QED BY <1>4, <1>10, <1>11 DEF BrowserInv

(* The end of sessions leaves the others, and the sandboxes they have.     *)
LEMMA EndKeeps ==
  ASSUME ConsoleInv, NEW gone, EndOf(gone), UNCHANGED <<issued, admins>>
  PROVE  SessionsGoOn /\ ServerTypes'
<1>1. live' \subseteq live
  BY DEF EndOf
<1>2. box' \in [SIDs -> Boxes \cup {0}]
  BY DEF EndOf, ConsoleInv, ServerTypes
<1> QED BY <1>1, <1>2, Numbers DEF SessionsGoOn, ConsoleInv, ServerTypes

LEMMA OthersKeep == ConsoleInv /\ (OtherLogin \/ SessionsEnd) => BrowserInv' /\ SessionsGoOn
<1> SUFFICES ASSUME ConsoleInv, OtherLogin \/ SessionsEnd PROVE BrowserInv' /\ SessionsGoOn
  OBVIOUS
<1>1. UNCHANGED <<cookie, session, page, calls>> /\ faults' \in 0 .. MaxFaults
  BY Faults DEF OtherLogin, SessionsEnd, browserVars
<1>2. SessionsGoOn /\ ServerTypes'
  <2>1. CASE OtherLogin
    <3>1. PICK b \in Boxes : box' = [box EXCEPT ![issued'] = b]
      BY <2>1 DEF OtherLogin
    <3> QED BY <2>1, <3>1, SessionMade DEF OtherLogin
  <2>2. CASE SessionsEnd
    <3>1. PICK gone \in (SUBSET live) \ {{}} : EndOf(gone)
      BY <2>2 DEF SessionsEnd
    <3>2. UNCHANGED <<issued, admins>>
      BY <2>2 DEF SessionsEnd
    <3> QED BY <3>1, <3>2, EndKeeps
  <2> QED BY <2>1, <2>2
<1>3. PageTypes' /\ CallsFit'
  BY <1>1, <1>2, PageKept, FitKept
<1> QED BY <1>2, <1>3 DEF BrowserInv

(* What the browser makes of an answer. *)

LEMMA AnswerTaken ==
  ASSUME ConsoleInv, NEW c, CallFits(c, issued, live), SetCookie(c),
         session' \in {session, null}, UNCHANGED <<serverVars, page, faults>>
  PROVE  SessionsGoOn /\ ServerTypes' /\ PageTypes' /\ issued' = issued /\ live' = live
<1>1. SessionsGoOn /\ ServerTypes' /\ issued' = issued /\ live' = live
  BY ServerKept
<1>2. cookie' \in 0 .. issued
  BY CookieSet
<1>3. session' \in undefined .. issued
  BY Numbers DEF ConsoleInv, PageTypes
<1>4. PageTypes'
  BY <1>1, <1>2, <1>3 DEF ConsoleInv, PageTypes
<1> QED BY <1>1, <1>4

LEMMA PollAnsweredFits ==
  ASSUME ConsoleInv, NEW c \in InFlight("poll", "answered"), PollAnswered(c)
  PROVE  BrowserInv' /\ SessionsGoOn
<1> DEFINE d == [c EXCEPT !.phase = "body"]
<1>1. CallFits(c, issued, live) /\ c \in Call
  BY UnderWay
<1>2. /\ SetCookie(c) /\ session' \in {session, null} /\ UNCHANGED <<serverVars, page, faults>>
      /\ Becomes(c, d) \/ calls' = Without(c)
  BY DEF PollAnswered
<1>3. SessionsGoOn /\ ServerTypes' /\ PageTypes' /\ issued' = issued /\ live' = live
  BY <1>1, <1>2, AnswerTaken
<1>4. /\ d \in Call /\ d.cookie = c.cookie /\ d.set = c.set /\ d.who = c.who
      /\ d.table = c.table /\ d.kind = c.kind /\ d.ok = c.ok
  BY <1>1 DEF Call
<1> HIDE DEF d
<1>5. CallFits(d, issued, live)
  BY <1>1, <1>4 DEF CallFits
<1>6. CallsFit'
  BY <1>2, <1>3, <1>5, FitBecomes, FitWithout
<1> QED BY <1>3, <1>6 DEF BrowserInv

LEMMA PollBodyKeeps ==
  ASSUME ConsoleInv, NEW c \in InFlight("poll", "body"), PollBody(c)
  PROVE  BrowserInv' /\ SessionsGoOn
<1>1. CallFits(c, issued, live)
  BY UnderWay
<1>2. /\ session' = c.who /\ calls' = Without(c)
      /\ UNCHANGED <<serverVars, cookie, page, faults>>
  BY DEF PollBody
<1>3. SessionsGoOn /\ ServerTypes' /\ issued' = issued /\ live' = live
  BY <1>2, ServerKept
<1>4. session' \in undefined .. issued
  BY <1>1, <1>2, Numbers DEF CallFits
<1>5. PageTypes' /\ CallsFit'
  BY <1>2, <1>3, <1>4, FitWithout DEF ConsoleInv, PageTypes
<1> QED BY <1>3, <1>5 DEF BrowserInv

(* What an operation that succeeds goes on with, with the new cookie. *)
LEMMA NextRequest ==
  ASSUME ConsoleInv, NEW kind \in {"poll", "summary"}, NEW ck \in 0 .. issued
  PROVE  CallFits([NewCall(kind) EXCEPT !.cookie = ck], issued, live)
<1> DEFINE q == NewCall(kind)
           d == [q EXCEPT !.cookie = ck]
<1>1. /\ q \in Call /\ q.set = 0 /\ q.who = null /\ q.table = NoTable
  BY NewCallIsCall
<1>2. ck \in SIDs \cup {null}
  BY Numbers
<1> HIDE DEF q
<1>3. /\ d \in Call /\ d.cookie = ck /\ d.set = 0 /\ d.who = null /\ d.table = NoTable
  BY <1>1, <1>2 DEF Call
<1> HIDE DEF d
<1>4. CallFits(d, issued, live)
  BY <1>3, RequestFits
<1> QED BY <1>4 DEF d, q

LEMMA LoginAnsweredKeeps ==
  ASSUME ConsoleInv, NEW c \in InFlight("login", "answered"), LoginAnswered(c)
  PROVE  BrowserInv' /\ SessionsGoOn
<1> DEFINE ck == cookie'
           d == [NewCall("poll") EXCEPT !.cookie = ck]
<1>1. CallFits(c, issued, live)
  BY UnderWay
<1>2. /\ SetCookie(c) /\ session' = session /\ UNCHANGED <<serverVars, page, faults>>
      /\ Becomes(c, d) \/ calls' = Without(c)
  BY DEF LoginAnswered
<1>3. SessionsGoOn /\ ServerTypes' /\ PageTypes' /\ issued' = issued /\ live' = live
  BY <1>1, <1>2, AnswerTaken
<1>4. ck \in 0 .. issued
  BY <1>1, <1>2, CookieSet
<1> HIDE DEF ck
<1>5. CallFits(d, issued, live)
  BY <1>4, NextRequest
<1> HIDE DEF d
<1>6. CallsFit'
  BY <1>2, <1>3, <1>5, FitBecomes, FitWithout
<1> QED BY <1>3, <1>6 DEF BrowserInv

LEMMA LostKeeps ==
  ASSUME ConsoleInv, NEW c, Lost(c)
  PROVE  BrowserInv' /\ SessionsGoOn
<1>1. SessionsGoOn /\ ServerTypes'
  BY ServerKept DEF Lost
<1>2. PageTypes' /\ CallsFit'
  BY <1>1, Faults, PageKept, FitWithout DEF Lost
<1> QED BY <1>1, <1>2 DEF BrowserInv

LEMMA SessionStepKeeps == ConsoleInv /\ SessionStep => BrowserInv' /\ SessionsGoOn
<1> SUFFICES ASSUME ConsoleInv, SessionStep PROVE BrowserInv' /\ SessionsGoOn
  OBVIOUS
<1>1. CASE Poll \/ HandleSubmit \/ LoginEffect \/ RedirectEffect \/ Navigate
  BY <1>1, PollKeeps, HandleSubmitKeeps, MovesKeep
<1>2. CASE Serve
  BY <1>2, ServePollKeeps, LoginRefusedKeeps, LoginAcceptedKeeps DEF Serve
<1>3. CASE Arrive
  BY <1>3, PollAnsweredFits, PollBodyKeeps, LoginAnsweredKeeps DEF Arrive
<1>4. CASE OtherLogin \/ SessionsEnd
  BY <1>4, OthersKeep
<1>5. ASSUME NEW c \in BagToSet(calls), Lost(c) PROVE BrowserInv' /\ SessionsGoOn
  BY <1>5, LostKeeps
<1> QED BY <1>1, <1>2, <1>3, <1>4, <1>5 DEF SessionStep

----------------------------------------------------------------------------
(* The steps of the console. *)

LEMMA SummaryTimerKeeps == ConsoleInv /\ SummaryTimer => ConsoleInv'
<1> SUFFICES ASSUME ConsoleInv, SummaryTimer PROVE ConsoleInv'
  OBVIOUS
<1>1. /\ Send(NewCall("summary"))
      /\ UNCHANGED <<serverVars, cookie, session, page, faults>> /\ UNCHANGED consoleVars
  BY DEF SummaryTimer
<1>2. CallFits(NewCall("summary"), issued, live)
  <2>1. cookie \in 0 .. issued
    BY DEF ConsoleInv, PageTypes
  <2> QED BY <2>1, NewCallIsCall, RequestFits
<1> QED BY <1>1, <1>2, SendKeeps, SummaryKept DEF BrowserInv, ConsoleInv

(* A table has sessions that have been issued only, so that is what can be *)
(* selected.                                                               *)
LEMMA SelectionsKeep == ConsoleInv /\ (SelectSession \/ SelectSandbox) => ConsoleInv'
<1> SUFFICES ASSUME ConsoleInv, SelectSession \/ SelectSandbox PROVE ConsoleInv'
  OBVIOUS
<1>1. /\ UNCHANGED serverVars /\ UNCHANGED browserVars /\ faults' = faults
      /\ summary' = summary /\ summary # NoSummary
  BY DEF SelectSession, SelectSandbox
<1>2. UNCHANGED <<cookie, session, page>> /\ calls' = calls
  BY <1>1 DEF browserVars
<1>3. SessionsGoOn /\ ServerTypes' /\ issued' = issued
  BY <1>1, ServerKept
<1>4. PageTypes' /\ CallsFit'
  BY <1>1, <1>2, <1>3, Faults, PageKept, FitKept
<1>5. SummaryTypes /\ Known(summary, issued) /\ 0 \in 0 .. issued
  BY <1>1, Numbers DEF ConsoleInv, SummaryTypes
<1>6. CASE SelectSession
  <2>1. PICK s \in {t \in SIDs : summary[t] # -1} :
          selSession' = IF s = selSession THEN null ELSE s
    BY <1>6 DEF SelectSession
  <2>2. s \in 0 .. issued
    BY <1>5, Numbers DEF Known
  <2>3. selSession' \in 0 .. issued /\ selSandbox' = selSandbox
    BY <1>5, <1>6, <2>1, <2>2 DEF SelectSession, null
  <2> QED BY <1>1, <1>3, <1>4, <1>5, <2>3 DEF SummaryTypes, ConsoleInv
<1>7. CASE SelectSandbox
  <2>1. selSandbox' \in Boxes \cup {0} /\ selSession' = selSession
    BY <1>7 DEF SelectSandbox
  <2> QED BY <1>1, <1>3, <1>4, <1>5, <2>1 DEF SummaryTypes, ConsoleInv
<1> QED BY <1>6, <1>7

LEMMA OperationsKeep == ConsoleInv /\ (DestroySession \/ AssignSandbox) => ConsoleInv'
<1> SUFFICES ASSUME ConsoleInv, DestroySession \/ AssignSandbox PROVE ConsoleInv'
  OBVIOUS
<1>1. /\ selSession \in SIDs \cup {null} /\ selSandbox \in Boxes \cup {0}
      /\ cookie \in 0 .. issued
  BY Numbers DEF ConsoleInv, SummaryTypes, PageTypes
<1> DEFINE Sent(d) == d \in Call /\ d.cookie = cookie /\ d.set = 0 /\ d.who = null
                      /\ d.table = NoTable
<1>2. ASSUME NEW d, Send(d), Sent(d),
             UNCHANGED <<serverVars, cookie, session, page, faults>>, UNCHANGED consoleVars
      PROVE  ConsoleInv'
  <2>1. CallFits(d, issued, live)
    BY <1>1, <1>2, RequestFits
  <2> QED BY <1>2, <2>1, SendKeeps, SummaryKept DEF BrowserInv, ConsoleInv
<1>3. CASE DestroySession
  <2> DEFINE q == NewCall("destroy")
             d == [q EXCEPT !.sid = selSession]
  <2>1. Sent(q)
    BY NewCallIsCall
  <2>2. /\ Send(d) /\ UNCHANGED <<serverVars, cookie, session, page, faults>>
        /\ UNCHANGED consoleVars
    BY <1>3 DEF DestroySession
  <2> HIDE DEF q
  <2>3. Sent(d)
    BY <1>1, <2>1 DEF Call
  <2> HIDE DEF d, Sent
  <2> QED BY <1>2, <2>2, <2>3
<1>4. CASE AssignSandbox
  <2> DEFINE q == NewCall("assign")
             d == [q EXCEPT !.sid = selSession, !.box = selSandbox]
  <2>1. Sent(q)
    BY NewCallIsCall
  <2>2. /\ Send(d) /\ UNCHANGED <<serverVars, cookie, session, page, faults>>
        /\ UNCHANGED consoleVars
    BY <1>4 DEF AssignSandbox
  <2> HIDE DEF q
  <2>3. Sent(d)
    BY <1>1, <2>1 DEF Call
  <2> HIDE DEF d, Sent
  <2> QED BY <1>2, <2>2, <2>3
<1> QED BY <1>3, <1>4

LEMMA ConsoleReloadKeeps == ConsoleInv /\ ConsoleReload => ConsoleInv'
<1> SUFFICES ASSUME ConsoleInv, ConsoleReload PROVE ConsoleInv'
  OBVIOUS
<1>1. /\ UNCHANGED serverVars /\ cookie' = cookie /\ session' = undefined /\ page' \in Pages
      /\ calls' = EmptyBag /\ summary' = NoSummary /\ selSession' = 0 /\ selSandbox' = 0
  BY DEF ConsoleReload, Reload, null
<1>2. faults' \in 0 .. MaxFaults
  BY Faults DEF ConsoleReload, Reload
<1>3. ServerTypes' /\ issued' = issued
  BY <1>1, ServerKept
<1>4. PageTypes'
  BY <1>1, <1>2, <1>3, Numbers DEF ConsoleInv, PageTypes
<1>5. CallsFit'
  BY <1>1, NoCalls DEF CallsFit
<1>6. SummaryTypes'
  BY <1>1, <1>3, Numbers DEF SummaryTypes
<1> QED BY <1>3, <1>4, <1>5, <1>6 DEF ConsoleInv

LEMMA ServeSummaryKeeps ==
  ASSUME ConsoleInv, NEW c \in InFlight("summary", "sent"), ServeSummary(c)
  PROVE  ConsoleInv'
<1> DEFINE a == Answer(c, TRUE)
           d == [a EXCEPT !.table = Table]
<1>1. CallFits(c, issued, live) /\ c \in Call
  BY UnderWay
<1>2. a \in Call /\ a.cookie = c.cookie /\ a.set = Middleware(c) /\ a.who = c.who
  BY <1>1, AnswerIsCall
<1>3. Table \in [SIDs -> Boxes \cup {0, -1}] /\ Known(Table, issued)
  <2>1. box \in [SIDs -> Boxes \cup {0}] /\ live \subseteq 1 .. issued
    BY DEF ConsoleInv, ServerTypes
  <2>2. Table \in [SIDs -> Boxes \cup {0, -1}]
    BY <2>1 DEF Table
  <2>3. ASSUME NEW s \in SIDs, Table[s] # -1 PROVE s <= issued
    <3>1. s \in live
      BY <2>3 DEF Table
    <3> QED BY <2>1, <3>1, Numbers
  <2> QED BY <2>2, <2>3 DEF Known
<1>4. /\ Becomes(c, d) /\ UNCHANGED <<serverVars, cookie, session, page, faults>>
      /\ UNCHANGED consoleVars
  BY DEF ServeSummary
<1> HIDE DEF a
<1>5. /\ d \in Call /\ d.cookie = c.cookie /\ d.set = Middleware(c) /\ d.who = c.who
      /\ d.table = Table
  BY <1>2, <1>3 DEF Call
<1> HIDE DEF d
<1>6. CallFits(d, issued, live)
  BY <1>1, <1>3, <1>5, AnswerFits DEF CallFits
<1>7. SessionsGoOn /\ ServerTypes' /\ issued' = issued /\ live' = live
  BY <1>4, ServerKept
<1>8. PageTypes' /\ CallsFit' /\ SummaryTypes'
  BY <1>4, <1>6, <1>7, Faults, PageKept, SummaryKept, FitBecomes
<1> QED BY <1>7, <1>8 DEF ConsoleInv

LEMMA ServeDestroyKeeps ==
  ASSUME ConsoleInv, NEW c \in InFlight("destroy", "sent"), ServeDestroy(c)
  PROVE  ConsoleInv'
<1> DEFINE found == c.sid \in live
           d == Answer(c, found)
<1>1. CallFits(c, issued, live) /\ found \in BOOLEAN
  BY UnderWay
<1>2. /\ EndOf({c.sid}) /\ Becomes(c, d)
      /\ UNCHANGED <<issued, admins, cookie, session, page, faults>>
      /\ UNCHANGED consoleVars
  BY DEF ServeDestroy
<1> HIDE DEF found
<1>3. SessionsGoOn /\ ServerTypes'
  BY <1>2, EndKeeps
<1>4. CallFits(d, issued, live)
  BY <1>1, PlainAnswerFits
<1> HIDE DEF d
<1>5. CallFits(d, issued', live')
  BY <1>3, <1>4, FitsOn
<1>6. PageTypes' /\ CallsFit' /\ SummaryTypes'
  BY <1>2, <1>3, <1>5, Faults, PageKept, SummaryKept, FitBecomes
<1> QED BY <1>3, <1>6 DEF ConsoleInv

LEMMA ServeAssignKeeps ==
  ASSUME ConsoleInv, NEW c \in InFlight("assign", "sent"), ServeAssign(c)
  PROVE  ConsoleInv'
<1>1. CallFits(c, issued, live) /\ c \in Call
  BY UnderWay
<1>2. /\ UNCHANGED <<issued, live, admins, cookie, session, page, faults>>
      /\ UNCHANGED consoleVars
      /\ box' = box \/ box' = [box EXCEPT ![c.sid] = c.box]
      /\ \/ calls' = Without(c) \/ Becomes(c, Answer(c, FALSE)) \/ Becomes(c, Answer(c, TRUE))
  BY DEF ServeAssign
<1>3. SessionsGoOn /\ ServerTypes'
  <2>1. c.box \in Boxes \cup {0}
    BY <1>1 DEF Call
  <2> QED BY <1>2, <2>1, Numbers DEF SessionsGoOn, ConsoleInv, ServerTypes
<1>4. CallFits(Answer(c, FALSE), issued, live) /\ CallFits(Answer(c, TRUE), issued, live)
  BY <1>1, PlainAnswerFits
<1>5. CallsFit'
  <2>1. issued' = issued /\ live' = live
    BY <1>2
  <2> QED BY <1>2, <1>3, <1>4, <2>1, FitBecomes, FitWithout
<1>6. PageTypes' /\ SummaryTypes'
  BY <1>2, <1>3, Faults, PageKept, SummaryKept
<1> QED BY <1>3, <1>5, <1>6 DEF ConsoleInv

(* The answers. *)

LEMMA SummaryAnsweredKeeps ==
  ASSUME ConsoleInv, NEW c \in InFlight("summary", "answered"), SummaryAnswered(c)
  PROVE  ConsoleInv'
<1> DEFINE d == [c EXCEPT !.phase = "body", !.set = 0]
<1>1. CallFits(c, issued, live) /\ c \in Call
  BY UnderWay
<1>2. /\ SetCookie(c) /\ Becomes(c, d) /\ session' = session
      /\ UNCHANGED <<serverVars, page, faults>> /\ UNCHANGED consoleVars
  BY DEF SummaryAnswered
<1>3. SessionsGoOn /\ ServerTypes' /\ PageTypes' /\ issued' = issued /\ live' = live
  BY <1>1, <1>2, AnswerTaken
<1>4. /\ d \in Call /\ d.cookie = c.cookie /\ d.set = 0 /\ d.who = c.who /\ d.table = c.table
  BY <1>1 DEF Call
<1> HIDE DEF d
<1>5. CallFits(d, issued, live)
  BY <1>1, <1>4, AnswerFits DEF CallFits
<1>6. CallsFit' /\ SummaryTypes'
  BY <1>2, <1>3, <1>5, FitBecomes, SummaryKept
<1> QED BY <1>3, <1>6 DEF ConsoleInv

LEMMA SummaryBodyKeeps ==
  ASSUME ConsoleInv, NEW c \in InFlight("summary", "body"), SummaryBody(c)
  PROVE  ConsoleInv'
<1>1. CallFits(c, issued, live)
  BY UnderWay
<1>2. /\ summary' = c.table /\ calls' = Without(c)
      /\ UNCHANGED <<serverVars, cookie, session, page, faults, selSession, selSandbox>>
  BY DEF SummaryBody
<1>3. SessionsGoOn /\ ServerTypes' /\ issued' = issued /\ live' = live
  BY <1>2, ServerKept
<1>4. summary' \in [SIDs -> Boxes \cup {0, -1}] /\ Known(summary', issued)
  BY <1>1, <1>2 DEF CallFits, Call
<1>5. SummaryTypes'
  BY <1>2, <1>3, <1>4 DEF SummaryTypes, ConsoleInv
<1>6. PageTypes' /\ CallsFit'
  BY <1>2, <1>3, Faults, PageKept, FitWithout
<1> QED BY <1>3, <1>5, <1>6 DEF ConsoleInv

LEMMA OperationAnsweredKeeps ==
  ASSUME ConsoleInv, NEW c, CallFits(c, issued, live), SetCookie(c), ThenSummary(c),
         selSession' \in {selSession, null},
         UNCHANGED <<serverVars, session, page, faults, summary, selSandbox>>
  PROVE  ConsoleInv'
<1> DEFINE ck == cookie'
           d == [NewCall("summary") EXCEPT !.cookie = ck]
<1>1. Becomes(c, d) \/ calls' = Without(c)
  BY DEF ThenSummary
<1>2. SessionsGoOn /\ ServerTypes' /\ PageTypes' /\ issued' = issued /\ live' = live
  BY AnswerTaken
<1>3. ck \in 0 .. issued
  BY CookieSet
<1> HIDE DEF ck
<1>4. CallFits(d, issued, live)
  BY <1>3, NextRequest
<1> HIDE DEF d
<1>5. CallsFit'
  BY <1>1, <1>2, <1>4, FitBecomes, FitWithout
<1>6. SummaryTypes'
  BY <1>2, Numbers DEF SummaryTypes, ConsoleInv
<1> QED BY <1>2, <1>5, <1>6 DEF ConsoleInv

LEMMA ConsoleStepKeeps == ConsoleInv /\ [Next]_vars => ConsoleInv'
<1> SUFFICES ASSUME ConsoleInv, [Next]_vars PROVE ConsoleInv'
  OBVIOUS
<1>1. CASE Session(SessionStep)
  BY <1>1, SessionStepKeeps, SummaryKept DEF Session, BrowserInv, ConsoleInv
<1>2. CASE SummaryTimer \/ SelectSession \/ SelectSandbox
  BY <1>2, SummaryTimerKeeps, SelectionsKeep
<1>3. CASE DestroySession \/ AssignSandbox \/ ConsoleReload
  BY <1>3, OperationsKeep, ConsoleReloadKeeps
<1>4. CASE ConsoleServe
  BY <1>4, ServeSummaryKeeps, ServeDestroyKeeps, ServeAssignKeeps DEF ConsoleServe
<1>5. CASE ConsoleArrive
  <2>1. ASSUME NEW c \in InFlight("destroy", "answered"), DestroyAnswered(c)
        PROVE  ConsoleInv'
    BY <2>1, UnderWay, OperationAnsweredKeeps DEF DestroyAnswered
  <2>2. ASSUME NEW c \in InFlight("assign", "answered"), AssignAnswered(c)
        PROVE  ConsoleInv'
    BY <2>2, UnderWay, OperationAnsweredKeeps DEF AssignAnswered, consoleVars
  <2> QED BY <1>5, <2>1, <2>2, SummaryAnsweredKeeps, SummaryBodyKeeps DEF ConsoleArrive
<1>6. CASE UNCHANGED vars
  <2>1. /\ UNCHANGED serverVars /\ UNCHANGED <<cookie, session, page>> /\ calls' = calls
        /\ faults' = faults /\ UNCHANGED consoleVars
    BY <1>6 DEF vars, serverVars, consoleVars
  <2> QED BY <2>1, ServerKept, Faults, PageKept, SummaryKept, FitKept DEF ConsoleInv
<1> QED BY <1>1, <1>2, <1>3, <1>4, <1>5, <1>6 DEF Next

LEMMA ConsoleInit == Init => ConsoleInv
<1> SUFFICES ASSUME Init PROVE ConsoleInv
  OBVIOUS
<1>1. /\ issued = 1 /\ live = {} /\ admins = {} /\ box = [s \in SIDs |-> 0]
      /\ cookie \in {0, 1} /\ session = -1 /\ page \in Pages /\ calls = EmptyBag
      /\ faults = 0 /\ summary = NoSummary /\ selSession = 0 /\ selSandbox = 0
  BY DEF Init, SessionInit, ConsoleEmpty, null, undefined
<1>2. ServerTypes
  BY <1>1, BrowserAssumption DEF ServerTypes
<1>3. PageTypes
  BY <1>1, BrowserAssumption DEF PageTypes, undefined
<1>4. CallsFit
  BY <1>1, NoCalls DEF CallsFit
<1>5. SummaryTypes
  BY <1>1 DEF SummaryTypes
<1> QED BY <1>2, <1>3, <1>4, <1>5 DEF ConsoleInv

LEMMA ConsoleInvariant == Spec => []ConsoleInv
BY ConsoleInit, ConsoleStepKeeps, PTL DEF Spec

(* The browser, the server and the calls between them keep their types,    *)
(* whatever overtakes what: the page's session, its cookie and what can be *)
(* selected are always sessions that have been issued.                     *)
THEOREM ConsoleTypes == Spec => []ConsoleTypeOK
<1>1. ConsoleInv => ConsoleTypeOK
  <2> SUFFICES ASSUME ConsoleInv PROVE ConsoleTypeOK
    OBVIOUS
  <2>1. IsABag(calls) /\ BagToSet(calls) \subseteq Call
    BY DEF ConsoleInv, CallsFit, CallFits
  <2>2. SessionTypeOK
    BY <2>1 DEF ConsoleInv, ServerTypes, PageTypes, SessionTypeOK
  <2> QED BY <2>2 DEF ConsoleInv, SummaryTypes, ConsoleTypeOK
<1> QED BY <1>1, ConsoleInvariant, PTL

----------------------------------------------------------------------------
(* The cookie. *)

LEMMA TakesCookie ==
  ASSUME ConsoleInv, NEW kind, NEW c \in InFlight(kind, "answered"), SetCookie(c),
         cookie' # cookie
  PROVE  c \in BagToSet(calls) /\ MayTakeCookie(c)
<1>1. /\ c \in BagToSet(calls) /\ CallFits(c, issued, live) /\ c.phase = "answered"
  BY UnderWay
<1>2. c.set # 0
  BY DEF SetCookie
<1>3. c.set = -1 \/ c.set > 0
  BY <1>1, <1>2, Numbers DEF CallFits
<1> QED BY <1>1, <1>3 DEF CallFits, MayTakeCookie

LEMMA CookieStep ==
  ConsoleInv /\ [Next]_vars =>
    [(cookie' # cookie /\ cookie \in live) =>
       \E c \in BagToSet(calls) : MayTakeCookie(c)]_vars
<1> SUFFICES ASSUME ConsoleInv, Next, cookie' # cookie
             PROVE  \E c \in BagToSet(calls) : MayTakeCookie(c)
  BY DEF vars
<1>1. CASE Session(SessionStep)
  <2>1. CASE Poll \/ HandleSubmit \/ LoginEffect \/ RedirectEffect \/ Navigate
    BY <2>1 DEF Poll, HandleSubmit, LoginEffect, RedirectEffect, Navigate
  <2>2. CASE Serve
    BY <2>2 DEF Serve, ServePoll, LoginRefused, LoginAccepted
  <2>3. CASE Arrive
    <3>1. ASSUME NEW c \in InFlight("poll", "body"), PollBody(c) PROVE FALSE
      BY <3>1 DEF PollBody
    <3> QED BY <2>3, <3>1, TakesCookie DEF Arrive, PollAnswered, LoginAnswered
  <2>4. CASE OtherLogin \/ SessionsEnd \/ \E c \in BagToSet(calls) : Lost(c)
    BY <2>4 DEF OtherLogin, SessionsEnd, Lost, browserVars
  <2> QED BY <1>1, <2>1, <2>2, <2>3, <2>4 DEF Session, SessionStep
<1>2. CASE \/ SummaryTimer \/ SelectSession \/ SelectSandbox
          \/ DestroySession \/ AssignSandbox \/ ConsoleReload
  BY <1>2 DEF SummaryTimer, SelectSession, SelectSandbox, DestroySession, AssignSandbox,
              ConsoleReload, Reload, browserVars
<1>3. CASE ConsoleServe
  BY <1>3 DEF ConsoleServe, ServeSummary, ServeDestroy, ServeAssign
<1>4. CASE ConsoleArrive
  <2>1. ASSUME NEW c \in InFlight("summary", "body"), SummaryBody(c) PROVE FALSE
    BY <2>1 DEF SummaryBody
  <2> QED BY <1>4, <2>1, TakesCookie
          DEF ConsoleArrive, SummaryAnswered, DestroyAnswered, AssignAnswered
<1> QED BY <1>1, <1>2, <1>3, <1>4 DEF Next

(* A browser loses the cookie of a session that still exists to a login's  *)
(* answer, or to one that deletes the cookie of a session that is over     *)
(* (setCookie in httpCreateSession, deleteCookie in sessionMiddleware),    *)
(* however many calls overlap and whichever answer comes first.            *)
THEOREM CookiesKept == Spec => OnlyDeadCookiesHurt
BY ConsoleInvariant, CookieStep, PTL DEF Spec, OnlyDeadCookiesHurt

=============================================================================
