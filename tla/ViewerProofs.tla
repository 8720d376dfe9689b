---------------------------- MODULE ViewerProofs ----------------------------
(***************************************************************************)
(* Proofs about Viewer, for any texts, any number of copies and any bound  *)
(* on the reads under way: a page makes one Guacamole client, is stranded  *)
(* by nothing but the end of that client's tunnel, and has clipboard       *)
(* handlers only on a connected client it has been given control of.       *)
(***************************************************************************)
EXTENDS Viewer, SequenceTheorems, TLAPS

(* The page's state says how far the one attempt has come. *)
Attempt ==
  /\ asking \in Nat /\ opening \in Nat /\ clients \in Nat
  /\ \/ state = "Disconnected" /\ asking + opening = 0 /\ clients = 0
     \/ state = "Connecting" /\ asking + opening = 1 /\ clients = 0
     \/ state = "Ready" /\ asking + opening = 0 /\ clients = 1

LEMMA AttemptInit == Init => Attempt
BY DEF Init, Attempt

LEMMA AttemptStep == Attempt /\ [Next]_vars => Attempt'
<1> SUFFICES ASSUME Attempt, [Next]_vars PROVE Attempt'
  OBVIOUS
<1> USE DEF Attempt
<1>1. CASE KeyHandler \/ RemoveKeyListeners
  BY <1>1 DEF KeyHandler, RemoveKeyListeners
<1>2. CASE OnConnectClick
  BY <1>2 DEF OnConnectClick, HasButton, ConnectRemoteDesktop
<1>3. CASE PortRefused
  BY <1>3 DEF PortRefused, ConnectRemoteDesktop
<1>4. CASE PortChosen
  BY <1>4 DEF PortChosen
<1>5. CASE ForwarderConnected
  BY <1>5 DEF ForwarderConnected, ConnectRemoteDesktop
<1>6. CASE OnConnectFailed
  BY <1>6 DEF OnConnectFailed
<1>7. CASE OnRemoteDesktopConnect \/ OnTunnelError
  BY <1>7 DEF OnRemoteDesktopConnect, OnTunnelError
<1>8. CASE Reload
  BY <1>8 DEF Reload
<1>9. CASE ClipboardInPage \/ UNCHANGED vars
  BY <1>9 DEF ClipboardInPage, pageVars, vars
<1> QED BY <1>1, <1>2, <1>3, <1>4, <1>5, <1>6, <1>7, <1>8, <1>9 DEF Next

LEMMA AttemptInvariant == Spec => []Attempt
BY AttemptInit, AttemptStep, PTL DEF Spec

(* However often an attempt fails and is made again, a page makes one      *)
(* Guacamole client (startConnect in viewer.tsx).                          *)
THEOREM ClientsOfAPage == Spec => []OneClient
<1>1. Attempt => OneClient
  BY DEF Attempt, OneClient
<1> QED BY <1>1, AttemptInvariant, PTL

(* An attempt that fails brings the button back, and one that ends without *)
(* an exception has made a client that waits for its connection            *)
(* (startConnect and onConnectFailed in viewer.tsx): no step but the end   *)
(* of the client's tunnel leaves a page with nothing to click, to await or *)
(* to look at.                                                             *)
THEOREM NeverStrandedByAttempt == Spec => OnlyTunnelStrands
<1> DEFINE Ends == client \in {"waiting", "connected"} /\ client' = "dead"
<1>1. ASSUME Attempt, Next, ~Stranded, Stranded' PROVE Ends
  <2>1. /\ state' # "Disconnected" /\ asking' + opening' = 0
        /\ client' \notin {"waiting", "connected"}
    BY <1>1 DEF Stranded, HasButton
  <2>2. ASSUME UNCHANGED <<state, asking, opening, client>> PROVE FALSE
    BY <1>1, <2>1, <2>2 DEF Stranded, HasButton
  <2>3. CASE KeyHandler \/ RemoveKeyListeners \/ ClipboardInPage
    BY <2>2, <2>3 DEF KeyHandler, RemoveKeyListeners, ClipboardInPage, pageVars
  <2>4. CASE OnConnectClick
    <3>1. asking' = asking + 1 /\ opening' = opening
      BY <2>1, <2>4 DEF OnConnectClick, ConnectRemoteDesktop
    <3> QED BY <1>1, <2>1, <3>1 DEF Attempt
  <2>5. CASE PortRefused \/ ForwarderConnected
    BY <2>1, <2>5 DEF PortRefused, ForwarderConnected, ConnectRemoteDesktop
  <2>6. CASE PortChosen
    <3>1. asking' + opening' = asking + opening /\ asking + opening > 0
      BY <1>1, <2>6 DEF PortChosen, Attempt
    <3> QED BY <2>1, <3>1
  <2>7. CASE OnConnectFailed \/ Reload
    BY <2>1, <2>7 DEF OnConnectFailed, Reload
  <2>8. CASE OnRemoteDesktopConnect
    BY <2>1, <2>8 DEF OnRemoteDesktopConnect
  <2>9. CASE OnTunnelError
    BY <2>9 DEF OnTunnelError
  <2> QED BY <1>1, <2>3, <2>4, <2>5, <2>6, <2>7, <2>8, <2>9 DEF Next
<1>2. Attempt /\ [Next]_vars => [~Stranded /\ Stranded' => Ends]_vars
  BY <1>1
<1> QED BY <1>2, AttemptInvariant, PTL DEF Spec, OnlyTunnelStrands

----------------------------------------------------------------------------
(* The clipboard: what is under way keeps its types and its bound. *)

(* Before install nothing is read or written, so nothing is sent. *)
ClipboardInv == ClipboardTypeOK /\ (~installed => toRemote = <<>>)

LEMMA Appended ==
  ASSUME NEW S, NEW q \in Seq(S), NEW e \in S
  PROVE  Append(q, e) \in Seq(S) /\ Len(q) \in Nat /\ Len(Append(q, e)) = Len(q) + 1
OBVIOUS

LEMMA Taken ==
  ASSUME NEW S, NEW q \in Seq(S), q # <<>>
  PROVE  /\ Head(q) \in S /\ Tail(q) \in Seq(S)
         /\ Len(q) \in Nat \ {0} /\ Len(Tail(q)) = Len(q) - 1
BY HeadTailProperties, EmptySeq

LEMMA Lengths ==
  ClipboardTypeOK => /\ Len(reads) \in Nat /\ Len(answers) \in Nat /\ Len(toRemote) \in Nat
                     /\ MaxReads \in Nat \ {0} /\ MaxCopies \in Nat
                     /\ Image \notin Texts
BY LenProperties, ClipboardAssumption DEF ClipboardTypeOK

(* update, also when the page gets the focus. *)
LEMMA ReadTypes ==
  ASSUME ClipboardInv, NEW push \in BOOLEAN, Read(push), RoomToRead, installed,
         focused' \in BOOLEAN,
         UNCHANGED <<installed, local, remote, cache, answers, writes, toRemote, toLocal, copies>>
  PROVE  ClipboardInv'
<1>1. ClipboardTypeOK /\ reads \in Seq(BOOLEAN) /\ reads' = Append(reads, push)
  BY DEF ClipboardInv, ClipboardTypeOK, Read
<1>2. reads' \in Seq(BOOLEAN) /\ Len(reads') = Len(reads) + 1
  BY <1>1, Appended
<1>3. Len(reads') + Len(answers') + Len(toRemote') <= MaxReads
  BY <1>1, <1>2, Lengths DEF RoomToRead
<1> QED BY <1>1, <1>2, <1>3 DEF ClipboardInv, ClipboardTypeOK

LEMMA InstallTypes ==
  ASSUME ClipboardInv, ~installed, Install
  PROVE  ClipboardInv' /\ installed'
<1>1. /\ ClipboardTypeOK /\ reads \in Seq(BOOLEAN) /\ reads' = Append(reads, FALSE)
      /\ reads = <<>> /\ answers = <<>> /\ toRemote = <<>> /\ installed' = TRUE
      /\ UNCHANGED <<focused, local, remote, cache, answers, writes, toRemote, toLocal, copies>>
  BY DEF ClipboardInv, ClipboardTypeOK, Install, Read
<1>2. reads' \in Seq(BOOLEAN) /\ Len(reads') = Len(reads) + 1
  BY <1>1, Appended
<1>3. Len(reads') + Len(answers') + Len(toRemote') <= MaxReads
  BY <1>1, <1>2, Lengths, EmptySeq
<1> QED BY <1>1, <1>2, <1>3 DEF ClipboardInv, ClipboardTypeOK

LEMMA ReadTextTypes == ClipboardInv /\ (ReadText \/ ReadRefused) => ClipboardInv'
<1> SUFFICES ASSUME ClipboardInv, ReadText \/ ReadRefused PROVE ClipboardInv'
  OBVIOUS
<1> DEFINE a == [push |-> Head(reads), text |-> local]
<1>1. /\ ClipboardTypeOK /\ reads \in Seq(BOOLEAN) /\ answers \in Seq(Answer) /\ local \in Texts
      /\ reads # <<>> /\ reads' = Tail(reads)
      /\ UNCHANGED <<installed, focused, local, remote, cache, writes, toRemote, toLocal, copies>>
      /\ answers' = Append(answers, a) \/ answers' = answers
  BY DEF ClipboardInv, ClipboardTypeOK, ReadText, ReadRefused
<1>2. Head(reads) \in BOOLEAN /\ reads' \in Seq(BOOLEAN) /\ Len(reads') = Len(reads) - 1
  BY <1>1, Taken
<1>3. a \in Answer
  BY <1>1, <1>2 DEF Answer
<1> HIDE DEF a
<1>4. answers' \in Seq(Answer) /\ Len(answers') \in {Len(answers), Len(answers) + 1}
  BY <1>1, <1>3, Appended
<1>5. Len(reads') + Len(answers') + Len(toRemote') <= MaxReads
  BY <1>1, <1>2, <1>4, Lengths DEF ClipboardTypeOK
<1>6. installed
  BY <1>1 DEF ClipboardTypeOK
<1> QED BY <1>1, <1>2, <1>4, <1>5, <1>6 DEF ClipboardInv, ClipboardTypeOK

LEMMA AnsweredTypes ==
  ASSUME ClipboardInv, NEW tunnel, Answered(tunnel)
  PROVE  ClipboardInv'
<1>1. /\ ClipboardTypeOK /\ answers \in Seq(Answer) /\ toRemote \in Seq(Texts)
      /\ answers # <<>> /\ answers' = Tail(answers) /\ cache' = Head(answers).text
      /\ toRemote' = Append(toRemote, cache') \/ toRemote' = toRemote
      /\ UNCHANGED <<installed, focused, local, remote, reads, writes, toLocal, copies>>
  BY DEF ClipboardInv, ClipboardTypeOK, Answered
<1>2. Head(answers) \in Answer /\ answers' \in Seq(Answer) /\ Len(answers') = Len(answers) - 1
  BY <1>1, Taken
<1>3. cache' \in Texts
  BY <1>1, <1>2 DEF Answer
<1>4. toRemote' \in Seq(Texts) /\ Len(toRemote') \in {Len(toRemote), Len(toRemote) + 1}
  <2> DEFINE t == cache'
  <2>1. t \in Texts
    BY <1>3
  <2> HIDE DEF t
  <2>2. Append(toRemote, t) \in Seq(Texts) /\ Len(Append(toRemote, t)) = Len(toRemote) + 1
    BY <1>1, <2>1, Appended
  <2>3. toRemote' = Append(toRemote, t) \/ toRemote' = toRemote
    BY <1>1 DEF t
  <2> QED BY <1>1, <2>2, <2>3
<1>5. Len(reads') + Len(answers') + Len(toRemote') <= MaxReads
  BY <1>1, <1>2, <1>4, Lengths DEF ClipboardTypeOK
<1>6. installed
  BY <1>1 DEF ClipboardTypeOK
<1> QED BY <1>1, <1>2, <1>3, <1>4, <1>5, <1>6 DEF ClipboardInv, ClipboardTypeOK

LEMMA OnClipboardTypes == ClipboardInv /\ OnClipboard => ClipboardInv'
<1> SUFFICES ASSUME ClipboardInv, OnClipboard PROVE ClipboardInv'
  OBVIOUS
<1> DEFINE t == Head(toLocal)
<1>1. /\ ClipboardTypeOK /\ toLocal \in Seq(Texts \cup {Image}) /\ writes \in Seq(Texts)
      /\ toLocal # <<>> /\ toLocal' = Tail(toLocal)
      /\ \/ installed /\ t # Image /\ writes' = Append(writes, t)
         \/ writes' = writes
      /\ UNCHANGED <<installed, focused, local, remote, cache, reads, answers, toRemote, copies>>
  BY DEF ClipboardInv, ClipboardTypeOK, OnClipboard
<1>2. t \in Texts \cup {Image} /\ toLocal' \in Seq(Texts \cup {Image})
  BY <1>1, Taken
<1> HIDE DEF t
<1>3. writes' \in Seq(Texts)
  BY <1>1, <1>2, Appended
<1> QED BY <1>1, <1>2, <1>3 DEF ClipboardInv, ClipboardTypeOK

LEMMA WriteTextTypes == ClipboardInv /\ WriteText => ClipboardInv'
<1> SUFFICES ASSUME ClipboardInv, WriteText PROVE ClipboardInv'
  OBVIOUS
<1>1. /\ ClipboardTypeOK /\ writes \in Seq(Texts) /\ writes # <<>> /\ local \in Texts
      /\ writes' = Tail(writes) /\ local' \in {Head(writes), local}
      /\ UNCHANGED <<installed, focused, remote, cache, reads, answers, toRemote, toLocal, copies>>
  BY DEF ClipboardInv, ClipboardTypeOK, WriteText
<1>2. Head(writes) \in Texts /\ writes' \in Seq(Texts)
  BY <1>1, Taken
<1>3. installed /\ local' \in Texts
  BY <1>1, <1>2 DEF ClipboardTypeOK
<1> QED BY <1>1, <1>2, <1>3 DEF ClipboardInv, ClipboardTypeOK

LEMMA RemoteReceivesTypes == ClipboardInv /\ RemoteReceives => ClipboardInv'
<1> SUFFICES ASSUME ClipboardInv, RemoteReceives PROVE ClipboardInv'
  OBVIOUS
<1>1. /\ ClipboardTypeOK /\ toRemote \in Seq(Texts) /\ toRemote # <<>>
      /\ toRemote' = Tail(toRemote) /\ remote' = Head(toRemote)
      /\ UNCHANGED <<installed, focused, local, cache, reads, answers, writes, toLocal, copies>>
  BY DEF ClipboardInv, ClipboardTypeOK, RemoteReceives
<1>2. remote' \in Texts /\ toRemote' \in Seq(Texts) /\ Len(toRemote') = Len(toRemote) - 1
  BY <1>1, Taken
<1>3. Len(reads') + Len(answers') + Len(toRemote') <= MaxReads
  BY <1>1, <1>2, Lengths DEF ClipboardTypeOK
<1>4. installed
  BY <1>1 DEF ClipboardInv
<1> QED BY <1>1, <1>2, <1>3, <1>4 DEF ClipboardInv, ClipboardTypeOK

LEMMA RemoteCopyTypes ==
  ASSUME ClipboardInv, NEW tunnel, RemoteCopy(tunnel)
  PROVE  ClipboardInv'
<1>1. PICK t \in Texts \cup {Image} :
        remote' = t /\ toLocal' = IF tunnel THEN Append(toLocal, t) ELSE toLocal
  BY DEF RemoteCopy
<1>2. /\ ClipboardTypeOK /\ toLocal \in Seq(Texts \cup {Image}) /\ copies \in 0 .. MaxCopies
      /\ copies < MaxCopies /\ copies' = copies + 1
      /\ UNCHANGED <<installed, focused, local, cache, reads, answers, writes, toRemote>>
  BY DEF ClipboardInv, ClipboardTypeOK, RemoteCopy
<1>3. toLocal' \in Seq(Texts \cup {Image})
  BY <1>1, <1>2, Appended
<1>4. copies' \in 0 .. MaxCopies
  BY <1>2, Lengths
<1> QED BY <1>1, <1>2, <1>3, <1>4 DEF ClipboardInv, ClipboardTypeOK

LEMMA ClipboardStepTypes ==
  ASSUME ClipboardInv, NEW tunnel, ClipboardStep(tunnel)
  PROVE  ClipboardInv' /\ installed' = installed
<1>1. CASE Relay(tunnel)
  BY <1>1, ReadTextTypes, AnsweredTypes, OnClipboardTypes, WriteTextTypes, RemoteReceivesTypes
     DEF Relay, ReadText, ReadRefused, Answered, OnClipboard, WriteText, RemoteReceives
<1>2. CASE Update
  BY <1>2, ReadTypes DEF Update, ClipboardInv, ClipboardTypeOK
<1>3. CASE Focus
  <2>1. CASE Read(TRUE) /\ RoomToRead /\ installed
    BY <1>3, <2>1, ReadTypes DEF Focus
  <2>2. CASE UNCHANGED reads
    BY <1>3, <2>2 DEF Focus, ClipboardInv, ClipboardTypeOK
  <2> QED BY <1>3, <2>1, <2>2 DEF Focus
<1>4. CASE Blur
  BY <1>4 DEF Blur, ClipboardInv, ClipboardTypeOK
<1>5. CASE LocalCopy
  <2>1. copies' \in 0 .. MaxCopies
    BY <1>5, Lengths DEF LocalCopy, ClipboardInv, ClipboardTypeOK
  <2> QED BY <1>5, <2>1 DEF LocalCopy, ClipboardInv, ClipboardTypeOK
<1>6. CASE RemoteCopy(tunnel)
  BY <1>6, RemoteCopyTypes DEF RemoteCopy
<1> QED BY <1>1, <1>2, <1>3, <1>4, <1>5, <1>6 DEF ClipboardStep

(* Nothing is under way in a new page, nor on a tunnel that has ended. *)
LEMMA NothingUnderWay ==
  /\ ClipboardInit => ClipboardInv /\ ~installed
  /\ ClipboardInv /\ ClipboardReset => ClipboardInv' /\ ~installed'
<1>1. 0 \in Nat /\ MaxReads \in Nat /\ 0 \in 0 .. MaxCopies
  BY ClipboardAssumption
<1>2. /\ <<>> \in Seq(BOOLEAN) /\ <<>> \in Seq(Answer) /\ <<>> \in Seq(Texts)
      /\ <<>> \in Seq(Texts \cup {Image}) /\ Len(<<>>) = 0
  BY EmptySeq
<1>3. ASSUME ClipboardInit PROVE ClipboardInv /\ ~installed
  <2>1. Len(reads) + Len(answers) + Len(toRemote) <= MaxReads
    BY <1>1, <1>2, <1>3 DEF ClipboardInit
  <2> QED BY <1>1, <1>2, <1>3, <2>1 DEF ClipboardInit, ClipboardInv, ClipboardTypeOK
<1>4. ASSUME ClipboardInv, ClipboardReset PROVE ClipboardInv' /\ ~installed'
  <2>1. Len(reads') + Len(answers') + Len(toRemote') <= MaxReads
    BY <1>1, <1>2, <1>4 DEF ClipboardReset
  <2> QED BY <1>1, <1>2, <1>4, <2>1 DEF ClipboardReset, ClipboardInv, ClipboardTypeOK
<1> QED BY <1>3, <1>4

LEMMA StreamsLostTypes == ClipboardInv /\ StreamsLost => ClipboardInv'
<1> SUFFICES ASSUME ClipboardInv, StreamsLost PROVE ClipboardInv'
  OBVIOUS
<1>1. /\ toRemote' = <<>> /\ toLocal' = <<>>
      /\ UNCHANGED <<installed, focused, local, remote, cache, reads, answers, writes, copies>>
  BY DEF StreamsLost
<1>2. /\ toRemote' \in Seq(Texts) /\ toLocal' \in Seq(Texts \cup {Image})
      /\ Len(toRemote') = 0
  BY <1>1, EmptySeq
<1>3. Len(reads') + Len(answers') + Len(toRemote') <= MaxReads
  BY <1>1, <1>2, Lengths DEF ClipboardInv, ClipboardTypeOK
<1> QED BY <1>1, <1>2, <1>3 DEF ClipboardInv, ClipboardTypeOK

----------------------------------------------------------------------------
(* The page's handlers. *)

(* A page makes its client before it is connected, and a display mounts    *)
(* the handlers of a connected client it has control of.  Install does     *)
(* not ask whether it has run before.                                      *)
HandlersOnce ==
  /\ clients = 0 => client = "none"
  /\ client \in {"none", "waiting"} => ~installed
  /\ installed => shown = "with control"

PageTypeOK ==
  /\ state \in State
  /\ control \in ControlState
  /\ listening \in BOOLEAN
  /\ clicked \in ControlState
  /\ client \in {"none", "waiting", "connected", "dead"}
  /\ shown \in {"nothing", "with control", "view only"}
  /\ reloading \in BOOLEAN

ViewerInv == Attempt /\ ClipboardInv /\ PageTypeOK /\ HandlersOnce

LEMMA ViewerInit == Init => ViewerInv
<1> SUFFICES ASSUME Init PROVE ViewerInv
  OBVIOUS
<1>1. Attempt /\ ClipboardInv /\ ~installed
  BY AttemptInit, NothingUnderWay DEF Init
<1>2. PageTypeOK
  BY DEF Init, PageTypeOK, State, ControlState
<1>3. HandlersOnce
  BY <1>1 DEF Init, HandlersOnce
<1> QED BY <1>1, <1>2, <1>3 DEF ViewerInv

(* The steps of the page that do not touch the clipboard. *)
LEMMA ClipboardKept == ClipboardInv /\ UNCHANGED clipboardVars => ClipboardInv'
BY DEF ClipboardInv, ClipboardTypeOK, clipboardVars

LEMMA ButtonSteps ==
  ASSUME ViewerInv,
         \/ KeyHandler \/ RemoveKeyListeners \/ OnConnectClick
         \/ PortRefused \/ PortChosen \/ ForwarderConnected \/ OnConnectFailed
  PROVE  ClipboardInv' /\ PageTypeOK' /\ HandlersOnce'
<1>1. Attempt /\ ClipboardInv /\ PageTypeOK /\ HandlersOnce
  BY DEF ViewerInv
<1>2. UNCHANGED clipboardVars /\ installed' = installed /\ shown' = shown
  BY DEF KeyHandler, RemoveKeyListeners, OnConnectClick, PortRefused, PortChosen,
         ForwarderConnected, OnConnectFailed, clipboardVars
<1>3. ClipboardInv'
  BY <1>1, <1>2, ClipboardKept
<1>4. PageTypeOK'
  BY <1>1 DEF PageTypeOK, State, ControlState, ConnectRemoteDesktop,
       KeyHandler, RemoveKeyListeners, OnConnectClick, PortRefused, PortChosen,
       ForwarderConnected, OnConnectFailed
<1>5. HandlersOnce'
  <2>1. CASE UNCHANGED <<clients, client>>
    BY <1>1, <1>2, <2>1 DEF HandlersOnce
  <2>2. CASE clients = 0 /\ ConnectRemoteDesktop
    <3>1. clients' # 0 /\ client' = "waiting"
      BY <2>2 DEF ConnectRemoteDesktop
    <3>2. client = "none"
      BY <1>1, <2>2 DEF HandlersOnce
    <3>3. ~installed
      BY <1>1, <3>2 DEF HandlersOnce
    <3> QED BY <1>2, <3>1, <3>3 DEF HandlersOnce
  <2>3. HasButton \/ asking > 0 \/ opening > 0 => clients = 0
    BY <1>1 DEF Attempt, HasButton
  <2> QED BY <2>1, <2>2, <2>3
          DEF KeyHandler, RemoveKeyListeners, OnConnectClick, PortRefused, PortChosen,
              ForwarderConnected, OnConnectFailed
<1> QED BY <1>3, <1>4, <1>5

LEMMA DisplaySteps ==
  ASSUME ViewerInv, OnRemoteDesktopConnect \/ OnTunnelError
  PROVE  ClipboardInv' /\ PageTypeOK' /\ HandlersOnce'
<1>1. Attempt /\ ClipboardInv /\ PageTypeOK /\ HandlersOnce
  BY DEF ViewerInv
<1>2. CASE OnRemoteDesktopConnect
  <2>1. ~installed /\ clients # 0 /\ clients' = clients /\ client' = "connected"
    BY <1>1, <1>2 DEF OnRemoteDesktopConnect, HandlersOnce
  <2>2. CASE shown' = "with control" /\ Install
    BY <1>1, <1>2, <2>1, <2>2, InstallTypes DEF OnRemoteDesktopConnect, PageTypeOK, HandlersOnce
  <2>3. CASE shown' = "view only" /\ UNCHANGED clipboardVars
    <3>1. ClipboardInv' /\ installed' = installed
      BY <1>1, <2>3, ClipboardKept DEF clipboardVars
    <3> QED BY <1>1, <1>2, <2>1, <2>3, <3>1 DEF OnRemoteDesktopConnect, PageTypeOK, HandlersOnce
  <2> QED BY <1>2, <2>2, <2>3 DEF OnRemoteDesktopConnect
<1>3. CASE OnTunnelError
  <2>1. ClipboardInv' /\ installed' = installed /\ client' = "dead" /\ clients # 0
    BY <1>1, <1>3, StreamsLostTypes DEF OnTunnelError, StreamsLost, HandlersOnce
  <2> QED BY <1>1, <1>3, <2>1 DEF OnTunnelError, PageTypeOK, HandlersOnce
<1> QED BY <1>2, <1>3

LEMMA ViewerStep == ViewerInv /\ [Next]_vars => ViewerInv'
<1> SUFFICES ASSUME ViewerInv, [Next]_vars PROVE ViewerInv'
  OBVIOUS
<1>1. Attempt /\ ClipboardInv /\ PageTypeOK /\ HandlersOnce /\ Attempt'
  BY AttemptStep DEF ViewerInv
<1>2. CASE \/ KeyHandler \/ RemoveKeyListeners \/ OnConnectClick
          \/ PortRefused \/ PortChosen \/ ForwarderConnected \/ OnConnectFailed
  BY <1>1, <1>2, ButtonSteps DEF ViewerInv
<1>3. CASE OnRemoteDesktopConnect \/ OnTunnelError
  BY <1>1, <1>3, DisplaySteps DEF ViewerInv
<1>4. CASE Reload
  <2>1. ClipboardInv' /\ ~installed'
    BY <1>1, <1>4, NothingUnderWay DEF Reload
  <2>2. PageTypeOK' /\ HandlersOnce'
    BY <1>4, <2>1 DEF Reload, PageTypeOK, State, ControlState, HandlersOnce
  <2> QED BY <1>1, <2>1, <2>2 DEF ViewerInv
<1>5. CASE ClipboardInPage
  <2>1. ClipboardInv' /\ installed' = installed /\ UNCHANGED pageVars
    BY <1>1, <1>5, ClipboardStepTypes DEF ClipboardInPage
  <2>2. PageTypeOK' /\ HandlersOnce'
    BY <1>1, <2>1 DEF pageVars, PageTypeOK, HandlersOnce
  <2> QED BY <1>1, <2>1, <2>2 DEF ViewerInv
<1>6. CASE UNCHANGED vars
  <2>1. UNCHANGED clipboardVars /\ UNCHANGED pageVars /\ installed' = installed
    BY <1>6 DEF vars, clipboardVars, pageVars
  <2>2. ClipboardInv' /\ PageTypeOK' /\ HandlersOnce'
    BY <1>1, <2>1, ClipboardKept DEF pageVars, PageTypeOK, HandlersOnce
  <2> QED BY <1>1, <2>2 DEF ViewerInv
<1> QED BY <1>2, <1>3, <1>4, <1>5, <1>6 DEF Next

LEMMA ViewerInvariant == Spec => []ViewerInv
BY ViewerInit, ViewerStep, PTL DEF Spec

(* The page and its clipboard keep their types; what is under way between  *)
(* the two clipboards stays within its bound, there is nothing of it       *)
(* before install, and handlers are mounted with control only.             *)
THEOREM ViewerTypes == Spec => []ViewerTypeOK
<1>1. ViewerInv => ViewerTypeOK
  BY DEF ViewerInv, ClipboardInv, PageTypeOK, HandlersOnce, Attempt, ViewerTypeOK
<1> QED BY <1>1, ViewerInvariant, PTL

(* No step installs clipboard and keyboard handlers on top of others: they *)
(* are never removed, and each pair would relay every text again           *)
(* (display.tsx, clipboard.ts).                                            *)
THEOREM HandlersMountedOnce ==
  Spec => [][OnRemoteDesktopConnect => ~installed /\ reads = <<>> /\ writes = <<>>]_vars
<1>1. ViewerInv /\ [Next]_vars =>
        [OnRemoteDesktopConnect => ~installed /\ reads = <<>> /\ writes = <<>>]_vars
  BY DEF ViewerInv, HandlersOnce, OnRemoteDesktopConnect, ClipboardInv, ClipboardTypeOK
<1> QED BY <1>1, ViewerInvariant, PTL DEF Spec

=============================================================================
