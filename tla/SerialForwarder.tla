-------------------------- MODULE SerialForwarder --------------------------
(***************************************************************************)
(* The browser's end of the serial tunnel                                  *)
(* (client/src/services/serial-forwarder.ts): a WebSocket to the control   *)
(* server, a serial port, and a loop that reads the one and sends on the   *)
(* other.  One page runs it.  JavaScript tasks do not interleave, so an    *)
(* action is a task, from a callback, a timer or the answer to an await,   *)
(* to the next await or the end.                                           *)
(*                                                                         *)
(* Nothing ties a callback or a timer to the socket or port it was made    *)
(* for: they all work on this.ws and this.serialRead as they find them.    *)
(*                                                                         *)
(* The method disconnect is called only by listeners of events nobody      *)
(* emits (module Viewer), and has no action here.                          *)
(***************************************************************************)
EXTENDS Naturals

CONSTANTS
  MaxFaults,  \* bound: failures, unplugged devices and further calls of connect
  MaxChunks   \* bound: the chunks the device writes

ASSUME ForwarderAssumption == MaxFaults \in Nat /\ MaxChunks \in Nat

(* Every fault leaves at most one socket, port or loop more than before,   *)
(* so there are names enough; closed sockets and lost ports give theirs up.*)
Names     == 1 .. MaxFaults + 1
undefined == 0

VARIABLES
  sock,          \* the WebSockets the page has made and that are not closed
  ws,            \* this.ws
  wsTimers,      \* pending calls of connectWebsocket
  port,          \* the calls of connectSerialPort and the ports they got
  serial,        \* this.serialPort, serialRead and serialWrite
  serialTimers,  \* pending calls of connectSerialPort
  readLoopAlive,
  loopTimers,    \* pending calls of pipeSerialToWS
  reads,         \* the loops that await a chunk, by port
  made,          \* the number of chunks the device has written
  taken,         \* the last chunk that was read (or lost with its port)
  intact,        \* the port has been read without loss since it was opened
  inbound,       \* what became of the last message of the server
  connected,     \* connect was called
  reloading,     \* location.reload was called
  unplugged,     \* history: how often the device in use was unplugged
  faults

wsVars     == <<sock, ws, wsTimers>>
portVars   == <<port, serial, serialTimers>>
loopVars   == <<readLoopAlive, loopTimers, reads>>
deviceVars == <<made, taken, intact>>
pageVars   == <<connected, reloading, unplugged>>
vars       == <<sock, ws, wsTimers, port, serial, serialTimers, readLoopAlive,
                loopTimers, reads, made, taken, intact, inbound,
                connected, reloading, unplugged, faults>>

ForwarderTypeOK ==
  /\ sock \in [Names -> {"none", "connecting", "open"}]
  /\ ws \in {undefined} \cup {s \in Names : sock[s] = "open"}
  /\ wsTimers \in 0 .. MaxFaults + 1
  /\ port \in [Names -> {"none", "requested", "opening", "open", "broken"}]
  /\ serial \in {undefined} \cup {p \in Names : port[p] \in {"open", "broken"}}
  /\ serialTimers \in 0 .. MaxFaults
  /\ readLoopAlive \in BOOLEAN
  /\ loopTimers \in 0 .. MaxFaults + 1
  /\ reads \in [Names -> 0 .. MaxFaults + 1]
  /\ made \in 0 .. MaxChunks
  /\ taken \in 0 .. made
  /\ intact \in BOOLEAN
  /\ inbound \in {"none", "written", "dropped"}
  /\ connected \in BOOLEAN
  /\ reloading \in BOOLEAN
  /\ faults \in 0 .. MaxFaults
  /\ unplugged \in 0 .. faults

(* A page that has just been loaded. *)
Fresh ==
  [sock |-> [s \in Names |-> "none"], port |-> [p \in Names |-> "none"],
   reads |-> [p \in Names |-> 0]]

Init ==
  /\ sock = Fresh.sock /\ ws = undefined /\ wsTimers = 0
  /\ port = Fresh.port /\ serial = undefined /\ serialTimers = 0
  /\ readLoopAlive = FALSE /\ loopTimers = 0 /\ reads = Fresh.reads
  /\ made = 0 /\ taken = 0 /\ intact = FALSE
  /\ inbound = "none"
  /\ connected = FALSE /\ reloading = FALSE /\ unplugged = 0
  /\ faults = 0

Unused(f) == CHOOSE x \in Names : f[x] = "none"
Fault     == faults < MaxFaults /\ faults' = faults + 1

----------------------------------------------------------------------------
(* The WebSocket. *)

(* A call of connectWebsocket. *)
NewSocket == sock' = [sock EXCEPT ![Unused(sock)] = "connecting"]

WsTimer ==
  /\ wsTimers > 0
  /\ wsTimers' = wsTimers - 1
  /\ NewSocket
  /\ UNCHANGED <<ws, portVars, loopVars, deviceVars, inbound, pageVars, faults>>

(* Mistake: onopen starts the loop again, whether or not one still waits. *)
OnOpenRestartsLoop(s) ==
  /\ sock[s] = "connecting"
  /\ sock' = [sock EXCEPT ![s] = "open"]
  /\ ws' = s
  /\ loopTimers' = loopTimers + (IF readLoopAlive THEN 1 ELSE 0)
  /\ UNCHANGED <<wsTimers, portVars, readLoopAlive, reads, deviceVars, inbound, pageVars, faults>>

OnOpen(s) ==
  /\ sock[s] = "connecting"
  /\ sock' = [sock EXCEPT ![s] = "open"]
  /\ ws' = s
  /\ UNCHANGED <<wsTimers, portVars, loopVars, deviceVars, inbound, pageVars, faults>>

(* Mistake: a socket that is not the current one is closed without a       *)
(* reconnection, and the current one is forgotten all the same.            *)
OnCloseOfCurrent(s) ==
  /\ sock[s] # "none"
  /\ Fault
  /\ sock' = [sock EXCEPT ![s] = "none"]
  /\ ws' = undefined
  /\ \E events \in IF sock[s] = "open" THEN {1, 2} ELSE {2} :
       wsTimers' = IF ws = s THEN wsTimers + events ELSE wsTimers
  /\ UNCHANGED <<portVars, loopVars, deviceVars, inbound, pageVars>>

(* Mistake: the handler leaves this.ws to the next onopen. *)
OnCloseKeepsDead(s) ==
  /\ sock[s] # "none"
  /\ Fault
  /\ sock' = [sock EXCEPT ![s] = "none"]
  /\ ws' = ws
  /\ \E events \in IF sock[s] = "open" THEN {1, 2} ELSE {2} :
       wsTimers' = wsTimers + events
  /\ UNCHANGED <<portVars, loopVars, deviceVars, inbound, pageVars>>

(* The same handler is onclose and onerror: a clean close is one event,    *)
(* any failure is two, so that two sockets take the place of one.          *)
OnClose(s) ==
  /\ sock[s] # "none"
  /\ Fault
  /\ sock' = [sock EXCEPT ![s] = "none"]
  /\ ws' = undefined
  /\ \E events \in IF sock[s] = "open" THEN {1, 2} ELSE {2} :
       wsTimers' = wsTimers + events
  /\ UNCHANGED <<portVars, loopVars, deviceVars, inbound, pageVars>>

(* onWebsocketData: any open socket will do, whichever this.ws is. *)
OnMessage(s) ==
  /\ sock[s] = "open"
  /\ inbound' = IF serial # undefined /\ ws # undefined THEN "written" ELSE "dropped"
  /\ UNCHANGED <<wsVars, portVars, loopVars, deviceVars, pageVars, faults>>

----------------------------------------------------------------------------
(* The serial port. *)

NewRequest == port' = [port EXCEPT ![Unused(port)] = "requested"]

SerialTimer ==
  /\ serialTimers > 0
  /\ serialTimers' = serialTimers - 1
  /\ NewRequest
  /\ UNCHANGED <<wsVars, serial, loopVars, deviceVars, inbound, pageVars, faults>>

(* The user picks the device, or does not (or there is none, or the page   *)
(* may not ask): then the page is to be reloaded and the call just ends.   *)
ChoosePort(p) ==
  /\ port[p] = "requested"
  /\ \/ port' = [port EXCEPT ![p] = "opening"] /\ UNCHANGED reloading
     \/ port' = [port EXCEPT ![p] = "none"] /\ reloading' = TRUE
  /\ UNCHANGED <<wsVars, serial, serialTimers, loopVars, deviceVars, inbound,
                 connected, unplugged, faults>>

(* pipeSerialToWS up to its first await, when rd is this.serialRead and    *)
(* alive is readLoopAlive, and others loops wait in timers.  A read of a   *)
(* broken port ends at once, and the loop with it.                         *)
Poll(rd, alive, others) ==
  IF rd # undefined /\ ws # undefined
    THEN /\ loopTimers' = others
         /\ reads' = IF port[rd] = "broken" THEN reads ELSE [reads EXCEPT ![rd] = @ + 1]
    ELSE /\ loopTimers' = IF alive THEN others + 1 ELSE others
         /\ reads' = reads

(* There is one device, which cannot be opened while it is open. *)
Held == \E q \in Names : port[q] \in {"open", "broken"}

OpenPort(p) ==
  /\ port[p] = "opening"
  /\ ~Held
  /\ port' = [port EXCEPT ![p] = "open"]
  /\ serial' = p
  /\ readLoopAlive' = TRUE
  /\ Poll(p, TRUE, loopTimers)
  /\ taken' = made
  /\ intact' = TRUE
  /\ UNCHANGED <<wsVars, serialTimers, made, inbound, pageVars, faults>>

(* The page is to be reloaded, and the call throws: there are no streams,  *)
(* or those of the open device are in use.  Where reading has failed there *)
(* may be a new stream, and then its reader is set before that.            *)
OpenFails(p) ==
  /\ port[p] = "opening"
  /\ \/ port' = [port EXCEPT ![p] = "none"]
     \/ \E q \in Names : port[q] = "broken" /\ port' = [port EXCEPT ![p] = "none", ![q] = "open"]
  /\ reloading' = TRUE
  /\ UNCHANGED <<wsVars, serial, serialTimers, loopVars, deviceVars, inbound,
                 connected, unplugged, faults>>

(* ondisconnect; the reads that wait for the port are rejected. *)
OnDisconnect(p) ==
  /\ port[p] \in {"open", "broken"}
  /\ Fault
  /\ port' = [port EXCEPT ![p] = "none"]
  /\ serial' = undefined
  /\ serialTimers' = serialTimers + 1
  /\ reads' = [reads EXCEPT ![p] = 0]
  /\ intact' = FALSE
  /\ unplugged' = unplugged + 1
  /\ UNCHANGED <<wsVars, readLoopAlive, loopTimers, made, taken, inbound, connected, reloading>>

(* The stream fails (a framing error, an overrun) or is closed: the loops  *)
(* that wait for it end, by what read throws or as done, and so does every *)
(* later read of the reader this.serialRead keeps.                         *)
ReadFails(p) ==
  /\ port[p] = "open"
  /\ Fault
  /\ port' = [port EXCEPT ![p] = "broken"]
  /\ reads' = [reads EXCEPT ![p] = 0]
  /\ intact' = FALSE
  /\ UNCHANGED <<wsVars, serial, serialTimers, readLoopAlive, loopTimers, made,
                 taken, inbound, pageVars>>

----------------------------------------------------------------------------
(* The loop. *)

(* Mistake: without a socket the loop ends instead of trying again. *)
LoopTimerGivesUp ==
  /\ loopTimers > 0
  /\ Poll(serial, FALSE, loopTimers - 1)
  /\ UNCHANGED <<wsVars, portVars, readLoopAlive, deviceVars, inbound, pageVars, faults>>

LoopTimer ==
  /\ loopTimers > 0
  /\ Poll(serial, readLoopAlive, loopTimers - 1)
  /\ UNCHANGED <<wsVars, portVars, readLoopAlive, deviceVars, inbound, pageVars, faults>>

(* A chunk for the loop that has waited longest.  It is sent on this.ws as *)
(* it is now; without one the loop throws, and chunk and loop are gone.    *)
ReadChunk(p) ==
  /\ reads[p] > 0
  /\ made > taken
  /\ taken' = taken + 1
  /\ reads' = [reads EXCEPT ![p] = @ - 1]
  /\ IF ws # undefined
       THEN /\ loopTimers' = loopTimers + (IF readLoopAlive THEN 1 ELSE 0)
            /\ intact' = intact
       ELSE /\ loopTimers' = loopTimers
            /\ intact' = FALSE
  /\ UNCHANGED <<wsVars, portVars, readLoopAlive, made, inbound, pageVars, faults>>

(* A read that brings no value, and is not done. *)
ReadNothing(p) ==
  /\ reads[p] > 0
  /\ reads' = [reads EXCEPT ![p] = @ - 1]
  /\ loopTimers' = loopTimers + (IF readLoopAlive THEN 1 ELSE 0)
  /\ UNCHANGED <<wsVars, portVars, readLoopAlive, deviceVars, inbound, pageVars, faults>>

----------------------------------------------------------------------------
(* The callers, the device and the page. *)

(* connect, by the viewer's button.  The forwarder belongs to the page: a  *)
(* viewer that is mounted again, after a logout and a login without a      *)
(* reload, or whose button is back before a reload, calls connect again,   *)
(* beside whatever the calls before have left.                             *)
Connect ==
  /\ IF connected THEN Fault ELSE UNCHANGED faults
  /\ connected' = TRUE
  /\ NewSocket
  /\ NewRequest
  /\ UNCHANGED <<ws, wsTimers, serial, serialTimers, loopVars, deviceVars, inbound,
                 reloading, unplugged>>

DeviceWrites ==
  /\ Held
  /\ made < MaxChunks
  /\ made' = made + 1
  /\ UNCHANGED <<wsVars, portVars, loopVars, taken, intact, inbound, pageVars, faults>>

(* The new page has nothing of the old one. *)
Reload ==
  /\ reloading
  /\ sock' = Fresh.sock /\ ws' = undefined /\ wsTimers' = 0
  /\ port' = Fresh.port /\ serial' = undefined /\ serialTimers' = 0
  /\ readLoopAlive' = FALSE /\ loopTimers' = 0 /\ reads' = Fresh.reads
  /\ inbound' = "none"
  /\ intact' = FALSE
  /\ connected' = FALSE /\ reloading' = FALSE /\ unplugged' = 0
  /\ UNCHANGED <<made, taken, faults>>

Callbacks ==
  \/ WsTimer \/ SerialTimer \/ LoopTimer
  \/ \E s \in Names : OnOpen(s) \/ OnMessage(s)
  \/ \E p \in Names : ReadChunk(p) \/ ReadNothing(p)

Next ==
  \/ Callbacks
  \/ \E s \in Names : OnClose(s)
  \/ \E p \in Names : \/ ChoosePort(p) \/ OpenPort(p) \/ OpenFails(p)
                      \/ OnDisconnect(p) \/ ReadFails(p)
  \/ Connect \/ DeviceWrites \/ Reload

(***************************************************************************)
(* Timers run out, a page that is to be reloaded is, what the device wrote *)
(* reaches a read, and, as long as the network does not fail, sockets open *)
(* and the server's messages arrive.  Nothing makes the user pick a port,  *)
(* the device write or anything fail.                                      *)
(***************************************************************************)
Fairness ==
  /\ WF_vars(WsTimer) /\ WF_vars(SerialTimer) /\ WF_vars(LoopTimer) /\ WF_vars(Reload)
  /\ \A n \in Names : WF_vars(OnOpen(n)) /\ WF_vars(OnMessage(n)) /\ SF_vars(ReadChunk(n))

Spec == Init /\ [][Next]_vars /\ Fairness

----------------------------------------------------------------------------
(* Properties. *)

(* There is one loop, and one more for each time the device in use was     *)
(* unplugged (a loop that waits in a timer then survives, and the port     *)
(* that is opened next starts another): no reconnection, no lost socket,   *)
(* no read that fails and no further connect adds one.                     *)
LoopsPaidFor == \A p \in Names : loopTimers + reads[p] <= unplugged + 1

(* While nothing has been lost since the port was opened, there is a loop  *)
(* that reads it or is to: no reconnection, and no chunk that brings       *)
(* nothing, ends the last one (what OutboundRecovers rests on).            *)
ReadLoopGoesOn ==
  intact => /\ readLoopAlive
            /\ serial # undefined /\ port[serial] = "open"
            /\ loopTimers > 0 \/ reads[serial] > 0

(* Once connect was called the page has a socket or is to get one,         *)
(* whichever of its sockets ends, and whatever that end has forgotten      *)
(* (what InboundRecovers rests on).                                        *)
SocketToCome ==
  connected => ws # undefined \/ wsTimers > 0 \/ \E s \in Names : sock[s] = "connecting"

(* The tunnel survives the network: once it stops failing, messages of the *)
(* server are written to the port again, although the end of any socket    *)
(* forgets the current one, and each failure adds a socket.                *)
InboundRecovers ==
  <>[](serial # undefined) => <>[](inbound = "written")

(* What the device writes is read, through any number of reconnections,    *)
(* unless a chunk has arrived while there was no socket: that chunk is     *)
(* lost and the loop with it, until the device is plugged in again.        *)
OutboundRecovers ==
  intact /\ made > taken ~> ~intact \/ made = taken

=============================================================================
