------------------------------- MODULE Viewer -------------------------------
(***************************************************************************)
(* A viewer page (client/src/pages/viewer.tsx): the connect button, the    *)
(* attempt a click starts, the Guacamole client it makes                   *)
(* (services/remote-desktop.ts), its display (components/display.tsx) and  *)
(* the clipboard the display installs (module Clipboard).  Of the serial   *)
(* forwarder (module SerialForwarder) only the outcome of connect matters  *)
(* here.                                                                   *)
(*                                                                         *)
(* The page also has listeners that would bring the button back, for       *)
(* events 'disconnect' of the forwarder and of the remote desktop.  Nobody *)
(* emits them, so neither the listeners nor the two disconnect methods     *)
(* they call can run.                                                      *)
(***************************************************************************)
EXTENDS Clipboard

VARIABLES
  state,      \* the page's state
  control,    \* what the modifier keys ask for
  listening,  \* the page listens to keys
  asking,     \* the calls of startConnect that wait for the user's choice of a port
  opening,    \* and those that wait for the port to open
  clicked,    \* the value of control at the last click
  clients,    \* the Guacamole clients this page has made
  client,     \* the state of the last one
  shown,      \* how the display has rendered it
  reloading   \* location.reload was called

pageVars == <<state, control, listening, asking, opening, clicked, clients, client,
              shown, reloading>>
vars     == <<installed, focused, local, remote, cache, reads, answers, writes, toRemote,
              toLocal, copies, state, control, listening, asking, opening, clicked, clients,
              client, shown, reloading>>

State        == {"Disconnected", "Connecting", "Ready"}
ControlState == {"ControlAndSerial", "ControlOnly", "ViewOnly"}

(* The page renders ConnectButton, which can be clicked. *)
HasButton == state = "Disconnected"

ViewerTypeOK ==
  /\ ClipboardTypeOK
  /\ state \in State
  /\ control \in ControlState
  /\ listening \in BOOLEAN
  /\ asking \in Nat /\ opening \in Nat
  /\ clicked \in ControlState
  /\ clients \in Nat
  /\ client \in {"none", "waiting", "connected", "dead"}
  /\ shown \in {"nothing", "with control", "view only"}
  /\ reloading \in BOOLEAN
  /\ installed => shown = "with control"

Init ==
  /\ ClipboardInit
  /\ state = "Disconnected"
  /\ control = "ControlAndSerial" /\ clicked = "ControlAndSerial"
  /\ listening = TRUE
  /\ asking = 0 /\ opening = 0
  /\ clients = 0 /\ client = "none" /\ shown = "nothing"
  /\ reloading = FALSE

(* keyHandler: every key that goes down or up says which modifiers are     *)
(* held, whether an attempt is under way or not.                           *)
KeyHandler ==
  /\ listening
  /\ control' \in ControlState
  /\ UNCHANGED <<clipboardVars, state, listening, asking, opening, clicked, clients, client,
                 shown, reloading>>

(* The effect that listens to keys is cleaned up some time after the page  *)
(* has rendered its new state.                                             *)
RemoveKeyListeners ==
  /\ listening /\ state = "Ready"
  /\ listening' = FALSE
  /\ UNCHANGED <<clipboardVars, state, control, asking, opening, clicked, clients, client,
                 shown, reloading>>

----------------------------------------------------------------------------
(* The connect button and startConnect. *)

(* The second half of startConnect: remoteDesktop.connect makes a client   *)
(* and does not wait for its connection.                                   *)
ConnectRemoteDesktop ==
  /\ clients' = clients + 1
  /\ client' = "waiting"
  /\ state' = "Ready"

(* Mistake: the button stays while an attempt is under way. *)
ClickKeepsButton ==
  /\ HasButton
  /\ clicked' = control
  /\ \/ /\ control = "ControlAndSerial"
        /\ asking' = asking + 1
        /\ UNCHANGED <<state, clients, client>>
     \/ control # "ControlAndSerial" /\ ConnectRemoteDesktop /\ UNCHANGED asking
  /\ UNCHANGED <<clipboardVars, control, listening, opening, shown, reloading>>

(* The forwarder is only awaited in the one mode; otherwise the whole      *)
(* attempt is over before anything else can happen.                        *)
OnConnectClick ==
  /\ HasButton
  /\ clicked' = control
  /\ \/ /\ control = "ControlAndSerial"
        /\ state' = "Connecting"
        /\ asking' = asking + 1
        /\ UNCHANGED <<clients, client>>
     \/ control # "ControlAndSerial" /\ ConnectRemoteDesktop /\ UNCHANGED asking
  /\ UNCHANGED <<clipboardVars, control, listening, opening, shown, reloading>>

(* The user picks no serial port: the page is to be reloaded, and the      *)
(* forwarder's connect returns as if all were well.                        *)
PortRefused ==
  /\ asking > 0
  /\ asking' = asking - 1
  /\ reloading' = TRUE
  /\ ConnectRemoteDesktop
  /\ UNCHANGED <<clipboardVars, control, listening, opening, clicked, shown>>

PortChosen ==
  /\ asking > 0
  /\ asking' = asking - 1
  /\ opening' = opening + 1
  /\ UNCHANGED <<clipboardVars, state, control, listening, clicked, clients, client,
                 shown, reloading>>

ForwarderConnected ==
  /\ opening > 0
  /\ opening' = opening - 1
  /\ ConnectRemoteDesktop
  /\ UNCHANGED <<clipboardVars, control, listening, asking, clicked, shown, reloading>>

(* Mistake: nobody catches what startConnect throws. *)
ConnectUncaught ==
  /\ opening > 0
  /\ opening' = opening - 1
  /\ reloading' = TRUE
  /\ UNCHANGED <<clipboardVars, state, control, listening, asking, clicked, clients, client, shown>>

(* onConnectFailed: the port could not be opened.  The page is to be       *)
(* reloaded then as well, but the button is back before.                   *)
OnConnectFailed ==
  /\ opening > 0
  /\ opening' = opening - 1
  /\ state' = "Disconnected"
  /\ reloading' = TRUE
  /\ UNCHANGED <<clipboardVars, control, listening, asking, clicked, clients, client, shown>>

----------------------------------------------------------------------------
(* The Guacamole client and its display. *)

(* Mistake: the display's handlers are mounted without looking at control. *)
MountAlways ==
  /\ client = "waiting"
  /\ client' = "connected"
  /\ shown' = IF control # "ViewOnly" THEN "with control" ELSE "view only"
  /\ Install
  /\ UNCHANGED <<state, control, listening, asking, opening, clicked, clients, reloading>>

(* Client state 3, 'connect', setClient, and the display's effect, which   *)
(* sees control as it is now.                                              *)
OnRemoteDesktopConnect ==
  /\ client = "waiting"
  /\ client' = "connected"
  /\ IF control # "ViewOnly"
       THEN shown' = "with control" /\ Install
       ELSE shown' = "view only" /\ UNCHANGED clipboardVars
  /\ UNCHANGED <<state, control, listening, asking, opening, clicked, clients, reloading>>

(* The tunnel fails or ends.  The events 'error' have no listener: the     *)
(* page stays as it is, without a button.                                  *)
OnTunnelError ==
  /\ client \in {"waiting", "connected"}
  /\ client' = "dead"
  /\ StreamsLost
  /\ UNCHANGED <<state, control, listening, asking, opening, clicked, clients, shown, reloading>>

(* The page's own reload, or the user's at any time. *)
Reload ==
  /\ ClipboardReset
  /\ state' = "Disconnected"
  /\ control' = "ControlAndSerial" /\ clicked' = "ControlAndSerial"
  /\ listening' = TRUE
  /\ asking' = 0 /\ opening' = 0
  /\ clients' = 0 /\ client' = "none" /\ shown' = "nothing"
  /\ reloading' = FALSE

ClipboardInPage == ClipboardStep(client = "connected") /\ UNCHANGED pageVars

Next ==
  \/ KeyHandler \/ RemoveKeyListeners
  \/ OnConnectClick
  \/ PortRefused \/ PortChosen \/ ForwarderConnected \/ OnConnectFailed
  \/ OnRemoteDesktopConnect \/ OnTunnelError
  \/ Reload
  \/ ClipboardInPage

(***************************************************************************)
(* Effects run, a page that is to be reloaded is, and what the page and    *)
(* the tunnel have under way arrives.  A read is answered sooner or later  *)
(* if the page has the focus again and again.  Users do as they please.    *)
(***************************************************************************)
Fairness ==
  /\ WF_vars(RemoveKeyListeners)
  /\ WF_vars(reloading /\ Reload)
  /\ WF_vars(OnClipboard /\ UNCHANGED pageVars)
  /\ WF_vars(WriteText /\ UNCHANGED pageVars)
  /\ WF_vars(RemoteReceives /\ UNCHANGED pageVars)
  /\ WF_vars(Answered(client = "connected") /\ UNCHANGED pageVars)
  /\ SF_vars(ReadText /\ UNCHANGED pageVars)

Spec == Init /\ [][Next]_vars /\ Fairness

----------------------------------------------------------------------------
(* Properties. *)

(* A page makes one Guacamole client, however often its serial part fails  *)
(* and is tried again: two would each mount keyboard and clipboard         *)
(* handlers, which are never removed.                                      *)
OneClient == clients <= 1

(* Nothing to click, no attempt under way and no client that lives.  Only  *)
(* a reload by the user gets the page out of it.                           *)
Stranded ==
  /\ ~HasButton
  /\ asking + opening = 0
  /\ client \notin {"waiting", "connected"}

(* No step of an attempt strands the page, whichever of them fails and     *)
(* whether it throws or just returns: only the end of the client's tunnel  *)
(* does.                                                                   *)
OnlyTunnelStrands ==
  [][~Stranded /\ Stranded' => client \in {"waiting", "connected"} /\ client' = "dead"]_vars

(* When people stop copying and go on switching between the page and other *)
(* programs, the two clipboards end up with the same text, whatever reads, *)
(* refused writes and streams were under way when they last copied.        *)
ClipboardsAgree ==
  /\ <>[](installed /\ client = "connected")
  /\ []<>focused /\ []<>~focused
  => <>[](local = remote)

(* A click on a button that says 'Connect view-only' never makes a         *)
(* connection with control.                                                *)
ViewOnlyStaysViewOnly == clicked = "ViewOnly" => shown # "with control"

=============================================================================
