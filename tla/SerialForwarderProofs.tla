----------------------- MODULE SerialForwarderProofs -----------------------
(***************************************************************************)
(* Proofs about SerialForwarder, for any number of faults and chunks: its  *)
(* sockets, ports and timers multiply no faster than the faults, its loops *)
(* no faster than the device is unplugged; and whichever callback runs, a  *)
(* socket and a loop are there or to come.                                 *)
(***************************************************************************)
EXTENDS SerialForwarder, FiniteSets, FiniteSetTheorems, TLAPS

(* Types, and the count of what callbacks and timers leave behind. *)

Sockets == {s \in Names : sock[s] # "none"}
Ports   == {p \in Names : port[p] # "none"}
NotYet  == IF connected THEN 0 ELSE 1
Holding == IF Held THEN 1 ELSE 0

(* There is one device: one port holds it, and only a port that works has  *)
(* loops waiting for a chunk.                                              *)
OneDevice ==
  /\ \A p, q \in Names :
       port[p] \in {"open", "broken"} /\ port[q] \in {"open", "broken"} => p = q
  /\ \A p \in Names : reads[p] > 0 => port[p] = "open"

(* Every socket there is or is to be, and every call that is to get a port *)
(* or has got it, belongs to the first connection or to a fault of its     *)
(* own.  Every loop belongs to the port that is open or to one that was    *)
(* unplugged.                                                              *)
SocketsCounted == Cardinality(Sockets) + wsTimers + NotYet <= faults + 1
PortsCounted   == /\ Cardinality(Ports) + serialTimers + NotYet <= faults + 1
                  /\ serialTimers <= faults
LoopsCounted   == \A p \in Names : loopTimers + reads[p] <= unplugged + Holding

(* ForwarderTypeOK without the bounds, which the counts give. *)
SocketShape ==
  /\ sock \in [Names -> {"none", "connecting", "open"}]
  /\ (ws = undefined) \/ (ws \in Names /\ sock[ws] = "open")
  /\ wsTimers \in Nat

PortShape ==
  /\ port \in [Names -> {"none", "requested", "opening", "open", "broken"}]
  /\ (serial = undefined) \/ (serial \in Names /\ port[serial] \in {"open", "broken"})
  /\ serialTimers \in Nat

LoopShape ==
  /\ readLoopAlive \in BOOLEAN
  /\ loopTimers \in Nat
  /\ reads \in [Names -> Nat]

DeviceShape ==
  /\ made \in 0 .. MaxChunks
  /\ taken \in 0 .. made
  /\ intact \in BOOLEAN
  /\ inbound \in {"none", "written", "dropped"}

PageShape ==
  /\ connected \in BOOLEAN
  /\ reloading \in BOOLEAN
  /\ faults \in 0 .. MaxFaults
  /\ unplugged \in 0 .. faults

Shape == SocketShape /\ PortShape /\ LoopShape /\ DeviceShape /\ PageShape

ForwarderInv ==
  Shape /\ OneDevice /\ SocketsCounted /\ PortsCounted /\ LoopsCounted

LEMMA NamesFinite ==
  /\ MaxFaults \in Nat /\ 1 \in Names /\ undefined \notin Names
  /\ IsFiniteSet(Names) /\ Cardinality(Names) = MaxFaults + 1
<1>1. MaxFaults \in Nat /\ Names = 1 .. MaxFaults + 1
  BY ForwarderAssumption DEF Names
<1>2. 1 \in Names /\ undefined \notin Names
  BY <1>1 DEF undefined
<1>3. IsFiniteSet(1 .. MaxFaults + 1) /\ Cardinality(1 .. MaxFaults + 1) = MaxFaults + 1
  BY <1>1, FS_Interval
<1> QED BY <1>1, <1>2, <1>3

LEMMA SomeNames ==
  ASSUME NEW T \in SUBSET Names
  PROVE  /\ Cardinality(T) \in 0 .. MaxFaults + 1
         /\ Cardinality(T) <= MaxFaults => \E x \in Names : x \notin T
<1>1. IsFiniteSet(T) /\ Cardinality(T) <= MaxFaults + 1
  BY NamesFinite, FS_Subset
<1>2. Cardinality(T) \in Nat
  BY <1>1, FS_CardinalityType
<1>3. ASSUME Cardinality(T) <= MaxFaults PROVE \E x \in Names : x \notin T
  <2>1. T # Names
    BY <1>2, <1>3, NamesFinite
  <2> QED BY <2>1
<1> QED BY <1>1, <1>2, <1>3, NamesFinite

LEMMA OneNameMore ==
  ASSUME NEW T \in SUBSET Names, NEW x \in Names, x \notin T
  PROVE  Cardinality(T \cup {x}) = Cardinality(T) + 1
<1>1. IsFiniteSet(T)
  BY NamesFinite, FS_Subset
<1> QED BY <1>1, FS_AddElement

LEMMA OneNameLess ==
  ASSUME NEW T \in SUBSET Names, NEW x \in T
  PROVE  Cardinality(T \ {x}) = Cardinality(T) - 1
<1>1. IsFiniteSet(T)
  BY NamesFinite, FS_Subset
<1> QED BY <1>1, FS_RemoveElement

(* The name a new socket or port takes is free, as long as one is. *)
LEMMA UnusedIsFree ==
  ASSUME NEW f, Cardinality({x \in Names : f[x] # "none"}) <= MaxFaults
  PROVE  Unused(f) \in Names /\ f[Unused(f)] = "none"
<1> DEFINE T == {x \in Names : f[x] # "none"}
<1>1. T \in SUBSET Names
  OBVIOUS
<1>2. \E x \in Names : x \notin T
  BY <1>1, SomeNames
<1>3. \E x \in Names : f[x] = "none"
  BY <1>2
<1> QED BY <1>3 DEF Unused

LEMMA CountsInit == Init => ForwarderInv
<1> SUFFICES ASSUME Init PROVE ForwarderInv
  OBVIOUS
<1>1. SocketShape /\ PortShape
  <2>1. /\ sock \in [Names -> {"none", "connecting", "open"}]
        /\ port \in [Names -> {"none", "requested", "opening", "open", "broken"}]
    BY DEF Init, Fresh
  <2>2. ws = undefined /\ wsTimers \in Nat /\ serial = undefined /\ serialTimers \in Nat
    BY DEF Init
  <2> QED BY <2>1, <2>2 DEF SocketShape, PortShape
<1>2. LoopShape /\ PageShape
  <2>1. reads \in [Names -> Nat]
    BY DEF Init, Fresh
  <2>2. loopTimers \in Nat /\ faults \in 0 .. MaxFaults /\ unplugged \in 0 .. faults
    BY NamesFinite DEF Init
  <2>3. readLoopAlive \in BOOLEAN /\ connected \in BOOLEAN /\ reloading \in BOOLEAN
    BY DEF Init
  <2> QED BY <2>1, <2>2, <2>3 DEF LoopShape, PageShape
<1>3. DeviceShape
  <2>1. made \in 0 .. MaxChunks /\ taken \in 0 .. made
    BY ForwarderAssumption DEF Init
  <2>2. intact \in BOOLEAN /\ inbound \in {"none", "written", "dropped"}
    BY DEF Init
  <2> QED BY <2>1, <2>2 DEF DeviceShape
<1>4. Sockets = {} /\ Ports = {} /\ NotYet = 1 /\ Holding = 0
  BY DEF Init, Fresh, Sockets, Ports, NotYet, Holding, Held
<1>5. OneDevice /\ SocketsCounted /\ PortsCounted /\ LoopsCounted
  BY <1>4, FS_EmptySet
     DEF Init, Fresh, OneDevice, SocketsCounted, PortsCounted, LoopsCounted
<1> QED BY <1>1, <1>2, <1>3, <1>5 DEF ForwarderInv, Shape

LEMMA Counted ==
  ForwarderInv =>
    /\ Cardinality(Sockets) \in Nat /\ Cardinality(Ports) \in Nat
    /\ NotYet \in {0, 1} /\ Holding \in {0, 1}
    /\ wsTimers \in Nat /\ serialTimers \in Nat /\ loopTimers \in Nat
    /\ faults \in Nat /\ faults <= MaxFaults /\ MaxFaults \in Nat
    /\ unplugged \in Nat /\ unplugged <= faults
    /\ \A p \in Names : reads[p] \in Nat
<1> SUFFICES ASSUME ForwarderInv
             PROVE  Counted!2
  OBVIOUS
<1>1. Sockets \in SUBSET Names /\ Ports \in SUBSET Names
  BY DEF Sockets, Ports
<1>2. Cardinality(Sockets) \in Nat /\ Cardinality(Ports) \in Nat
  BY <1>1, SomeNames
<1>3. Shape
  BY DEF ForwarderInv
<1> QED BY <1>2, <1>3, NamesFinite
        DEF Shape, SocketShape, PortShape, LoopShape, PageShape, NotYet, Holding

(* The bounds in ForwarderTypeOK are consequences of the counts. *)
LEMMA CountsBound == ForwarderInv => ForwarderTypeOK
<1> SUFFICES ASSUME ForwarderInv PROVE ForwarderTypeOK
  OBVIOUS
<1>1. Shape /\ SocketsCounted /\ PortsCounted /\ LoopsCounted
  BY DEF ForwarderInv
<1>2. wsTimers \in 0 .. MaxFaults + 1 /\ serialTimers \in 0 .. MaxFaults
  BY <1>1, Counted DEF SocketsCounted, PortsCounted
<1>3. loopTimers \in 0 .. MaxFaults + 1
  BY <1>1, Counted, NamesFinite DEF LoopsCounted
<1>4. \A p \in Names : reads[p] \in 0 .. MaxFaults + 1
  BY <1>1, Counted DEF LoopsCounted
<1>5. reads \in [Names -> 0 .. MaxFaults + 1]
  BY <1>1, <1>4 DEF Shape, LoopShape
<1>6. /\ sock \in [Names -> {"none", "connecting", "open"}]
      /\ ws \in {undefined} \cup {s \in Names : sock[s] = "open"}
  BY <1>1 DEF Shape, SocketShape
<1>7. /\ port \in [Names -> {"none", "requested", "opening", "open", "broken"}]
      /\ serial \in {undefined} \cup {p \in Names : port[p] \in {"open", "broken"}}
  BY <1>1 DEF Shape, PortShape
<1>8. readLoopAlive \in BOOLEAN /\ DeviceShape /\ PageShape
  BY <1>1 DEF Shape, LoopShape
<1> QED BY <1>2, <1>3, <1>5, <1>6, <1>7, <1>8
        DEF ForwarderTypeOK, DeviceShape, PageShape

(* Steps that leave one part alone, and make the faults no fewer. *)
LEMMA SocketsKept ==
  ASSUME ForwarderInv, UNCHANGED <<wsVars, connected>>, faults' \in {faults, faults + 1}
  PROVE  SocketShape' /\ SocketsCounted'
<1>1. Sockets' = Sockets /\ NotYet' = NotYet
  BY DEF Sockets, NotYet, wsVars
<1>2. SocketShape'
  BY DEF ForwarderInv, Shape, SocketShape, wsVars
<1>3. SocketsCounted'
  BY <1>1, Counted DEF ForwarderInv, SocketsCounted, wsVars
<1> QED BY <1>2, <1>3

LEMMA PortsKept ==
  ASSUME ForwarderInv, UNCHANGED <<portVars, connected>>, faults' \in {faults, faults + 1}
  PROVE  PortShape' /\ PortsCounted'
<1>1. Ports' = Ports /\ NotYet' = NotYet
  BY DEF Ports, NotYet, portVars
<1>2. PortShape'
  BY DEF ForwarderInv, Shape, PortShape, portVars
<1>3. PortsCounted'
  BY <1>1, Counted DEF ForwarderInv, PortsCounted, portVars
<1> QED BY <1>1, <1>2, <1>3

LEMMA LoopsKept ==
  ASSUME ForwarderInv, UNCHANGED <<portVars, loopVars, unplugged>>
  PROVE  OneDevice' /\ LoopShape' /\ LoopsCounted'
<1>1. Holding' = Holding
  BY DEF Holding, Held, portVars
<1>2. LoopShape'
  BY DEF ForwarderInv, Shape, LoopShape, loopVars
<1>3. OneDevice'
  BY DEF ForwarderInv, OneDevice, portVars, loopVars
<1>4. LoopsCounted'
  <2>1. loopTimers' = loopTimers /\ reads' = reads
    BY DEF loopVars
  <2> QED BY <1>1, <2>1 DEF ForwarderInv, LoopsCounted
<1> QED BY <1>2, <1>3, <1>4

(* The WebSocket. *)

(* A new socket, which wsTimers or NotYet has counted before, or which has *)
(* a fault of its own.                                                     *)
LEMMA NewSocketCounted ==
  ASSUME ForwarderInv, NewSocket, ws' = ws, wsTimers' \in Nat,
         NotYet' \in {0, 1}, faults' \in faults .. MaxFaults,
         wsTimers' + NotYet' + 1 + faults <= wsTimers + NotYet + faults'
  PROVE  SocketShape' /\ SocketsCounted'
<1> DEFINE u == Unused(sock)
<1>1. /\ Cardinality(Sockets) + wsTimers + NotYet <= faults + 1
      /\ SocketShape /\ Sockets \in SUBSET Names
  BY DEF ForwarderInv, SocketsCounted, Shape, Sockets
<1>2. Cardinality(Sockets) <= MaxFaults
  BY <1>1, Counted
<1>3. u \in Names /\ sock[u] = "none"
  BY <1>2, UnusedIsFree DEF Sockets
<1> HIDE DEF u
<1>4. sock' = [sock EXCEPT ![u] = "connecting"]
  BY DEF NewSocket, u
<1>5. Sockets' = Sockets \cup {u} /\ u \notin Sockets
  BY <1>1, <1>3, <1>4 DEF Sockets, SocketShape
<1>6. Cardinality(Sockets') = Cardinality(Sockets) + 1
  BY <1>1, <1>3, <1>5, OneNameMore
<1>7. SocketShape'
  BY <1>1, <1>3, <1>4 DEF SocketShape
<1>8. SocketsCounted'
  <2>1. Cardinality(Sockets') + wsTimers' + NotYet' <= faults' + 1
    BY <1>1, <1>6, Counted
  <2> QED BY <2>1 DEF SocketsCounted
<1> QED BY <1>7, <1>8

LEMMA CountsWsTimer == ForwarderInv /\ WsTimer => ForwarderInv'
<1> SUFFICES ASSUME ForwarderInv, WsTimer PROVE ForwarderInv'
  OBVIOUS
<1>1. /\ wsTimers > 0 /\ wsTimers' = wsTimers - 1 /\ NewSocket
      /\ UNCHANGED <<ws, portVars, loopVars, deviceVars, inbound, pageVars, faults>>
  BY DEF WsTimer
<1>2. UNCHANGED <<connected, unplugged>> /\ UNCHANGED <<made, taken, intact>>
  BY <1>1 DEF pageVars, deviceVars
<1>3. SocketShape' /\ SocketsCounted'
  <2>1. NotYet' = NotYet
    BY <1>2 DEF NotYet
  <2>2. /\ wsTimers' \in Nat /\ NotYet' \in {0, 1} /\ faults' \in faults .. MaxFaults
        /\ wsTimers' + NotYet' + 1 + faults <= wsTimers + NotYet + faults'
    BY <1>1, <2>1, Counted
  <2> QED BY <1>1, <2>2, NewSocketCounted
<1>4. PortShape' /\ PortsCounted' /\ OneDevice' /\ LoopShape' /\ LoopsCounted'
  BY <1>1, <1>2, PortsKept, LoopsKept
<1>5. DeviceShape' /\ PageShape'
  BY <1>1, <1>2 DEF ForwarderInv, Shape, DeviceShape, PageShape, pageVars
<1> QED BY <1>3, <1>4, <1>5 DEF ForwarderInv, Shape

LEMMA CountsOnOpen ==
  ASSUME ForwarderInv, NEW s \in Names, OnOpen(s)
  PROVE  ForwarderInv'
<1>1. /\ sock[s] = "connecting" /\ sock' = [sock EXCEPT ![s] = "open"] /\ ws' = s
      /\ UNCHANGED <<wsTimers, portVars, loopVars, deviceVars, inbound, pageVars, faults>>
  BY DEF OnOpen
<1>2. UNCHANGED <<connected, unplugged>> /\ UNCHANGED <<made, taken, intact>>
  BY <1>1 DEF pageVars, deviceVars
<1>3. SocketShape'
  BY <1>1 DEF ForwarderInv, Shape, SocketShape
<1>4. SocketsCounted'
  <2>1. Sockets' = Sockets
    BY <1>1 DEF ForwarderInv, Shape, SocketShape, Sockets
  <2>2. NotYet' = NotYet
    BY <1>2 DEF NotYet
  <2> QED BY <1>1, <2>1, <2>2 DEF ForwarderInv, SocketsCounted
<1>5. PortShape' /\ PortsCounted' /\ OneDevice' /\ LoopShape' /\ LoopsCounted'
  BY <1>1, <1>2, PortsKept, LoopsKept
<1>6. DeviceShape' /\ PageShape'
  BY <1>1, <1>2 DEF ForwarderInv, Shape, DeviceShape, PageShape, pageVars
<1> QED BY <1>3, <1>4, <1>5, <1>6 DEF ForwarderInv, Shape

(* A socket that ends is one less, for two timers at most and a fault. *)
LEMMA CountsOnClose ==
  ASSUME ForwarderInv, NEW s \in Names, OnClose(s)
  PROVE  ForwarderInv'
<1>1. /\ sock[s] # "none" /\ sock' = [sock EXCEPT ![s] = "none"] /\ ws' = undefined
      /\ faults < MaxFaults /\ faults' = faults + 1
      /\ wsTimers' \in {wsTimers + 1, wsTimers + 2}
      /\ UNCHANGED <<portVars, loopVars, deviceVars, inbound, pageVars>>
  BY DEF OnClose, Fault
<1>2. UNCHANGED <<connected, unplugged>> /\ UNCHANGED <<made, taken, intact>>
  BY <1>1 DEF pageVars, deviceVars
<1>3. SocketShape'
  BY <1>1 DEF ForwarderInv, Shape, SocketShape
<1>4. SocketsCounted'
  <2>1. Sockets' = Sockets \ {s} /\ s \in Sockets /\ Sockets \in SUBSET Names
    BY <1>1 DEF ForwarderInv, Shape, SocketShape, Sockets
  <2>2. NotYet' = NotYet
    BY <1>2 DEF NotYet
  <2>3. Cardinality(Sockets') = Cardinality(Sockets) - 1
    BY <2>1, OneNameLess
  <2>4. Cardinality(Sockets) + wsTimers + NotYet <= faults + 1
    BY DEF ForwarderInv, SocketsCounted
  <2>5. Cardinality(Sockets') + wsTimers' + NotYet' <= faults' + 1
    BY <1>1, <2>2, <2>3, <2>4, Counted
  <2> QED BY <2>5 DEF SocketsCounted
<1>5. PortShape' /\ PortsCounted' /\ OneDevice' /\ LoopShape' /\ LoopsCounted'
  BY <1>1, <1>2, PortsKept, LoopsKept
<1>6. DeviceShape' /\ PageShape'
  <2>1. faults' \in 0 .. MaxFaults
    BY <1>1, Counted
  <2> QED BY <1>1, <1>2, <2>1 DEF ForwarderInv, Shape, DeviceShape, PageShape, pageVars
<1> QED BY <1>3, <1>4, <1>5, <1>6 DEF ForwarderInv, Shape

LEMMA CountsOnMessage ==
  ASSUME ForwarderInv, NEW s \in Names, OnMessage(s)
  PROVE  ForwarderInv'
<1>1. /\ UNCHANGED <<wsVars, portVars, loopVars, deviceVars, pageVars, faults>>
      /\ inbound' \in {"written", "dropped"}
  BY DEF OnMessage
<1>2. UNCHANGED <<connected, unplugged>> /\ UNCHANGED <<made, taken, intact>>
  BY <1>1 DEF pageVars, deviceVars
<1>3. /\ SocketShape' /\ SocketsCounted' /\ PortShape' /\ PortsCounted'
      /\ OneDevice' /\ LoopShape' /\ LoopsCounted'
  BY <1>1, <1>2, SocketsKept, PortsKept, LoopsKept
<1>4. DeviceShape' /\ PageShape'
  BY <1>1, <1>2 DEF ForwarderInv, Shape, DeviceShape, PageShape, pageVars
<1> QED BY <1>3, <1>4 DEF ForwarderInv, Shape

(* The serial port. *)

(* A new call of connectSerialPort, counted before by serialTimers or      *)
(* NotYet, or with a fault of its own.                                     *)
LEMMA NewRequestCounted ==
  ASSUME ForwarderInv, NewRequest, UNCHANGED <<serial, loopVars, unplugged>>,
         serialTimers' \in Nat, serialTimers' <= serialTimers,
         NotYet' \in {0, 1}, faults' \in faults .. MaxFaults,
         serialTimers' + NotYet' + 1 + faults <= serialTimers + NotYet + faults'
  PROVE  /\ PortShape' /\ PortsCounted'
         /\ OneDevice' /\ LoopShape' /\ LoopsCounted'
<1> DEFINE u == Unused(port)
<1>1. /\ Cardinality(Ports) + serialTimers + NotYet <= faults + 1 /\ serialTimers <= faults
      /\ PortShape /\ LoopShape /\ OneDevice /\ LoopsCounted
      /\ Ports \in SUBSET Names
  BY DEF ForwarderInv, PortsCounted, Shape, Ports
<1>2. Cardinality(Ports) <= MaxFaults
  BY <1>1, Counted
<1>3. u \in Names /\ port[u] = "none"
  BY <1>2, UnusedIsFree DEF Ports
<1> HIDE DEF u
<1>4. port' = [port EXCEPT ![u] = "requested"]
  BY DEF NewRequest, u
<1>5. Ports' = Ports \cup {u} /\ u \notin Ports
  BY <1>1, <1>3, <1>4 DEF Ports, PortShape
<1>6. Cardinality(Ports') = Cardinality(Ports) + 1
  BY <1>1, <1>3, <1>5, OneNameMore
<1>7. reads' = reads /\ loopTimers' = loopTimers /\ readLoopAlive' = readLoopAlive
  BY DEF loopVars
<1>8. PortShape' /\ OneDevice'
  BY <1>1, <1>3, <1>4, <1>7 DEF PortShape, OneDevice
<1>9. PortsCounted'
  <2>1. /\ Cardinality(Ports') + serialTimers' + NotYet' <= faults' + 1
        /\ serialTimers' <= faults'
    BY <1>1, <1>6, Counted
  <2> QED BY <2>1 DEF PortsCounted
<1>10. LoopShape'
  BY <1>1, <1>7 DEF LoopShape
<1>11. LoopsCounted'
  <2>1. Holding' = Holding
    BY <1>1, <1>3, <1>4 DEF Holding, Held, PortShape
  <2> QED BY <1>1, <1>7, <2>1 DEF LoopsCounted
<1> QED BY <1>8, <1>9, <1>10, <1>11

LEMMA CountsSerialTimer == ForwarderInv /\ SerialTimer => ForwarderInv'
<1> SUFFICES ASSUME ForwarderInv, SerialTimer PROVE ForwarderInv'
  OBVIOUS
<1>1. /\ serialTimers > 0 /\ serialTimers' = serialTimers - 1 /\ NewRequest
      /\ UNCHANGED <<wsVars, serial, loopVars, deviceVars, inbound, pageVars, faults>>
  BY DEF SerialTimer
<1>2. UNCHANGED <<connected, unplugged>> /\ UNCHANGED <<made, taken, intact>>
  BY <1>1 DEF pageVars, deviceVars
<1>3. SocketShape' /\ SocketsCounted'
  BY <1>1, <1>2, SocketsKept
<1>4. PortShape' /\ PortsCounted' /\ OneDevice' /\ LoopShape' /\ LoopsCounted'
  <2>1. NotYet' = NotYet
    BY <1>2 DEF NotYet
  <2>2. /\ serialTimers' \in Nat /\ serialTimers' <= serialTimers /\ NotYet' \in {0, 1}
        /\ serialTimers' + NotYet' + 1 + faults <= serialTimers + NotYet + faults'
        /\ faults' \in faults .. MaxFaults
    BY <1>1, <2>1, Counted
  <2> QED BY <1>1, <1>2, <2>2, NewRequestCounted
<1>5. DeviceShape' /\ PageShape'
  BY <1>1, <1>2 DEF ForwarderInv, Shape, DeviceShape, PageShape, pageVars
<1> QED BY <1>3, <1>4, <1>5 DEF ForwarderInv, Shape

(* A call that gets a port goes on, one that does not gives its name up:   *)
(* ChoosePort and OpenFails.                                               *)
LEMMA CallEnds ==
  ASSUME ForwarderInv, NEW p \in Names, ChoosePort(p) \/ OpenFails(p)
  PROVE  ForwarderInv'
<1>1. /\ port[p] \in {"requested", "opening"}
      /\ UNCHANGED <<wsVars, serial, serialTimers, loopVars, deviceVars, inbound,
                     connected, unplugged, faults>>
  BY DEF ChoosePort, OpenFails
<1>2. UNCHANGED <<made, taken, intact>> /\ NotYet' = NotYet
  BY <1>1 DEF deviceVars, NotYet
<1>3. /\ PortShape /\ LoopShape /\ OneDevice /\ LoopsCounted /\ PortsCounted
      /\ Ports \in SUBSET Names
  BY DEF ForwarderInv, Shape, Ports
<1>4. SocketShape' /\ SocketsCounted'
  BY <1>1, SocketsKept
<1>5. reads' = reads /\ loopTimers' = loopTimers /\ readLoopAlive' = readLoopAlive
  BY <1>1 DEF loopVars
<1>6. /\ port' \in [Names -> {"none", "requested", "opening", "open", "broken"}]
      /\ \A q \in Names : port[q] \in {"open", "broken"} <=> port'[q] \in {"open", "broken"}
      /\ \A q \in Names : port[q] = "open" => port'[q] = "open"
      /\ \A q \in Names \ {p} : port[q] = "none" <=> port'[q] = "none"
  <2>1. \/ port' = [port EXCEPT ![p] = "opening"]
        \/ port' = [port EXCEPT ![p] = "none"]
        \/ \E q \in Names : port[q] = "broken" /\ port' = [port EXCEPT ![p] = "none", ![q] = "open"]
    BY DEF ChoosePort, OpenFails
  <2>2. port \in [Names -> {"none", "requested", "opening", "open", "broken"}]
    BY <1>3 DEF PortShape
  <2> QED BY <1>1, <2>1, <2>2
<1>7. PortShape' /\ OneDevice'
  BY <1>1, <1>3, <1>5, <1>6 DEF PortShape, OneDevice
<1>8. PortsCounted'
  <2>1. Ports' = Ports \/ (p \in Ports /\ Ports' = Ports \ {p})
    BY <1>1, <1>3, <1>6 DEF Ports, PortShape
  <2>2. Cardinality(Ports') \in {Cardinality(Ports), Cardinality(Ports) - 1}
    BY <1>3, <2>1, OneNameLess
  <2>3. Cardinality(Ports) + serialTimers + NotYet <= faults + 1 /\ serialTimers <= faults
    BY <1>3 DEF PortsCounted
  <2>4. /\ Cardinality(Ports') + serialTimers' + NotYet' <= faults' + 1
        /\ serialTimers' <= faults'
    BY <1>1, <1>2, <2>2, <2>3, Counted
  <2> QED BY <2>4 DEF PortsCounted
<1>9. LoopShape' /\ LoopsCounted'
  <2>1. Holding' = Holding
    BY <1>6 DEF Holding, Held
  <2> QED BY <1>1, <1>3, <1>5, <2>1 DEF LoopShape, LoopsCounted
<1>10. DeviceShape' /\ PageShape'
  <2>1. reloading' \in BOOLEAN
    BY DEF ChoosePort, OpenFails, ForwarderInv, Shape, PageShape
  <2> QED BY <1>1, <1>2, <2>1 DEF ForwarderInv, Shape, DeviceShape, PageShape
<1> QED BY <1>4, <1>7, <1>8, <1>9, <1>10 DEF ForwarderInv, Shape

(* pipeSerialToWS up to its await adds one loop to the others at most. *)
LEMMA PollAdds ==
  ASSUME LoopShape, NEW rd, rd = undefined \/ rd \in Names, NEW alive \in BOOLEAN,
         NEW others \in Nat, Poll(rd, alive, others)
  PROVE  /\ loopTimers' \in Nat /\ reads' \in [Names -> Nat]
         /\ \A q \in Names : loopTimers' + reads'[q] <= others + reads[q] + 1
         /\ \A q \in Names : reads'[q] # reads[q] => q = rd /\ port[rd] # "broken"
<1>1. reads \in [Names -> Nat] /\ \A q \in Names : reads[q] \in Nat
  BY DEF LoopShape
<1>2. CASE loopTimers' \in {others, others + 1} /\ reads' = reads
  BY <1>1, <1>2
<1>3. CASE /\ rd \in Names /\ port[rd] # "broken"
           /\ loopTimers' = others /\ reads' = [reads EXCEPT ![rd] = @ + 1]
  <2>1. /\ reads' \in [Names -> Nat] /\ reads'[rd] = reads[rd] + 1
        /\ \A q \in Names : q # rd => reads'[q] = reads[q]
    BY <1>1, <1>3
  <2>2. ASSUME NEW q \in Names
        PROVE  loopTimers' + reads'[q] <= others + reads[q] + 1
    BY <1>1, <1>3, <2>1
  <2> QED BY <1>1, <1>3, <2>1, <2>2
<1> QED BY <1>2, <1>3, NamesFinite DEF Poll

LEMMA CountsOpenPort ==
  ASSUME ForwarderInv, NEW p \in Names, OpenPort(p)
  PROVE  ForwarderInv'
<1>1. /\ port[p] = "opening" /\ ~Held
      /\ port' = [port EXCEPT ![p] = "open"] /\ serial' = p /\ readLoopAlive' = TRUE
      /\ Poll(p, TRUE, loopTimers) /\ taken' = made /\ intact' = TRUE
      /\ UNCHANGED <<wsVars, serialTimers, made, inbound, pageVars, faults>>
  BY DEF OpenPort
<1>2. UNCHANGED <<connected, unplugged>> /\ NotYet' = NotYet
  BY <1>1 DEF pageVars, NotYet
<1>3. /\ PortShape /\ LoopShape /\ OneDevice /\ LoopsCounted /\ PortsCounted
      /\ Ports \in SUBSET Names
  BY DEF ForwarderInv, Shape, Ports
<1>4. SocketShape' /\ SocketsCounted'
  BY <1>1, <1>2, SocketsKept
<1>5. /\ loopTimers' \in Nat /\ reads' \in [Names -> Nat]
      /\ \A q \in Names : loopTimers' + reads'[q] <= loopTimers + reads[q] + 1
      /\ \A q \in Names : reads'[q] # reads[q] => q = p
  BY <1>1, <1>3, Counted, PollAdds
<1>6. PortShape' /\ LoopShape'
  BY <1>1, <1>3, <1>5 DEF PortShape, LoopShape
<1>7. OneDevice'
  BY <1>1, <1>3, <1>5 DEF PortShape, OneDevice, Held
<1>8. Ports' = Ports /\ Holding = 0 /\ Holding' = 1
  BY <1>1, <1>3 DEF PortShape, Ports, Holding, Held
<1>9. PortsCounted'
  BY <1>1, <1>2, <1>3, <1>8 DEF PortsCounted
<1>10. LoopsCounted'
  <2>1. ASSUME NEW q \in Names
        PROVE  loopTimers' + reads'[q] <= unplugged' + Holding'
    <3>1. loopTimers + reads[q] <= unplugged + Holding
      BY <1>3 DEF LoopsCounted
    <3>2. reads'[q] \in Nat /\ loopTimers' + reads'[q] <= loopTimers + reads[q] + 1
      BY <1>5
    <3> QED BY <1>2, <1>5, <1>8, <3>1, <3>2, Counted
  <2> QED BY <2>1 DEF LoopsCounted
<1>11. DeviceShape' /\ PageShape'
  BY <1>1 DEF ForwarderInv, Shape, DeviceShape, PageShape, pageVars
<1> QED BY <1>4, <1>6, <1>7, <1>9, <1>10, <1>11 DEF ForwarderInv, Shape

(* The device is unplugged, or a read fails: the waiting loops are gone.   *)
LEMMA CountsOnDisconnect ==
  ASSUME ForwarderInv, NEW p \in Names, OnDisconnect(p)
  PROVE  ForwarderInv'
<1>1. /\ port[p] \in {"open", "broken"} /\ faults < MaxFaults /\ faults' = faults + 1
      /\ port' = [port EXCEPT ![p] = "none"] /\ serial' = undefined
      /\ serialTimers' = serialTimers + 1 /\ reads' = [reads EXCEPT ![p] = 0]
      /\ intact' = FALSE /\ unplugged' = unplugged + 1
      /\ UNCHANGED <<wsVars, readLoopAlive, loopTimers, made, taken, inbound, connected, reloading>>
  BY DEF OnDisconnect, Fault
<1>2. UNCHANGED connected /\ NotYet' = NotYet
  BY <1>1 DEF NotYet
<1>3. /\ PortShape /\ LoopShape /\ OneDevice /\ LoopsCounted /\ PortsCounted
      /\ Ports \in SUBSET Names
  BY DEF ForwarderInv, Shape, Ports
<1>4. SocketShape' /\ SocketsCounted'
  BY <1>1, <1>2, SocketsKept
<1>5. PortShape' /\ OneDevice'
  BY <1>1, <1>3, Counted DEF PortShape, LoopShape, OneDevice
<1>6. LoopShape'
  BY <1>1, <1>3 DEF LoopShape
<1>7. /\ Ports' = Ports \ {p} /\ p \in Ports
      /\ Holding = 1 /\ Holding' = 0
  BY <1>1, <1>3 DEF PortShape, OneDevice, Ports, Holding, Held
<1>8. PortsCounted'
  <2>1. Cardinality(Ports') = Cardinality(Ports) - 1
    BY <1>3, <1>7, OneNameLess
  <2>2. Cardinality(Ports) + serialTimers + NotYet <= faults + 1 /\ serialTimers <= faults
    BY <1>3 DEF PortsCounted
  <2>3. /\ Cardinality(Ports') + serialTimers' + NotYet' <= faults' + 1
        /\ serialTimers' <= faults'
    BY <1>1, <1>2, <2>1, <2>2, Counted
  <2> QED BY <2>3 DEF PortsCounted
<1>9. LoopsCounted'
  <2>1. ASSUME NEW q \in Names
        PROVE  loopTimers' + reads'[q] <= unplugged' + Holding'
    <3>1. loopTimers + reads[q] <= unplugged + Holding
      BY <1>3 DEF LoopsCounted
    <3>2. reads'[q] \in Nat /\ reads'[q] <= reads[q]
      BY <1>1, <1>3, Counted DEF LoopShape
    <3> QED BY <1>1, <1>2, <1>7, <3>1, <3>2, Counted
  <2> QED BY <2>1 DEF LoopsCounted
<1>10. DeviceShape' /\ PageShape'
  <2>1. faults' \in 0 .. MaxFaults /\ unplugged' \in 0 .. faults'
    BY <1>1, Counted
  <2> QED BY <1>1, <2>1 DEF ForwarderInv, Shape, DeviceShape, PageShape, pageVars
<1> QED BY <1>4, <1>5, <1>6, <1>8, <1>9, <1>10 DEF ForwarderInv, Shape

LEMMA CountsReadFails ==
  ASSUME ForwarderInv, NEW p \in Names, ReadFails(p)
  PROVE  ForwarderInv'
<1>1. /\ port[p] = "open" /\ faults < MaxFaults /\ faults' = faults + 1
      /\ port' = [port EXCEPT ![p] = "broken"] /\ reads' = [reads EXCEPT ![p] = 0]
      /\ intact' = FALSE
      /\ UNCHANGED <<wsVars, serial, serialTimers, readLoopAlive, loopTimers, made,
                     taken, inbound, pageVars>>
  BY DEF ReadFails, Fault
<1>2. UNCHANGED <<connected, unplugged>> /\ NotYet' = NotYet
  BY <1>1 DEF pageVars, NotYet
<1>3. /\ PortShape /\ LoopShape /\ OneDevice /\ LoopsCounted /\ PortsCounted
  BY DEF ForwarderInv, Shape
<1>4. SocketShape' /\ SocketsCounted'
  BY <1>1, <1>2, SocketsKept
<1>5. PortShape' /\ OneDevice'
  BY <1>1, <1>3, Counted DEF PortShape, LoopShape, OneDevice
<1>6. LoopShape'
  BY <1>1, <1>3 DEF LoopShape
<1>7. Ports' = Ports /\ Holding' = Holding
  BY <1>1, <1>3 DEF PortShape, Ports, Holding, Held
<1>8. PortsCounted'
  BY <1>1, <1>2, <1>3, <1>7, Counted DEF PortsCounted
<1>9. LoopsCounted'
  <2>1. ASSUME NEW q \in Names
        PROVE  loopTimers' + reads'[q] <= unplugged' + Holding'
    <3>1. loopTimers + reads[q] <= unplugged + Holding
      BY <1>3 DEF LoopsCounted
    <3>2. reads'[q] \in Nat /\ reads'[q] <= reads[q]
      BY <1>1, <1>3, Counted DEF LoopShape
    <3> QED BY <1>1, <1>2, <1>7, <3>1, <3>2, Counted
  <2> QED BY <2>1 DEF LoopsCounted
<1>10. DeviceShape' /\ PageShape'
  <2>1. faults' \in 0 .. MaxFaults /\ unplugged' \in 0 .. faults'
    BY <1>1, <1>2, Counted
  <2> QED BY <1>1, <2>1 DEF ForwarderInv, Shape, DeviceShape, PageShape, pageVars
<1> QED BY <1>4, <1>5, <1>6, <1>8, <1>9, <1>10 DEF ForwarderInv, Shape

(* The loop. *)

LEMMA CountsLoopTimer == ForwarderInv /\ LoopTimer => ForwarderInv'
<1> SUFFICES ASSUME ForwarderInv, LoopTimer PROVE ForwarderInv'
  OBVIOUS
<1>1. /\ loopTimers > 0 /\ Poll(serial, readLoopAlive, loopTimers - 1)
      /\ UNCHANGED <<wsVars, portVars, readLoopAlive, deviceVars, inbound, pageVars, faults>>
  BY DEF LoopTimer
<1>2. /\ UNCHANGED <<connected, unplugged, made, taken, intact, port>>
      /\ Holding' = Holding
  BY <1>1 DEF pageVars, deviceVars, Holding, Held, portVars
<1>3. PortShape /\ LoopShape /\ OneDevice /\ LoopsCounted
  BY DEF ForwarderInv, Shape
<1>4. /\ SocketShape' /\ SocketsCounted' /\ PortShape' /\ PortsCounted'
  BY <1>1, <1>2, SocketsKept, PortsKept
<1>5. /\ loopTimers' \in Nat /\ reads' \in [Names -> Nat]
      /\ \A q \in Names : loopTimers' + reads'[q] <= loopTimers - 1 + reads[q] + 1
      /\ \A q \in Names : reads'[q] # reads[q] => q = serial /\ port[serial] # "broken"
  <2>1. loopTimers - 1 \in Nat /\ readLoopAlive \in BOOLEAN
    BY <1>1, <1>3, Counted DEF LoopShape
  <2>2. serial = undefined \/ serial \in Names
    BY <1>3 DEF PortShape
  <2> QED BY <1>1, <1>3, <2>1, <2>2, PollAdds
<1>6. LoopShape'
  BY <1>1, <1>3, <1>5 DEF LoopShape
<1>7. OneDevice'
  <2>1. ASSUME NEW q \in Names, reads'[q] > 0 PROVE port'[q] = "open"
    <3>1. CASE reads'[q] = reads[q]
      BY <1>2, <1>3, <2>1, <3>1 DEF OneDevice
    <3>2. CASE reads'[q] # reads[q]
      <4>1. q = serial /\ port[q] # "broken"
        BY <1>5, <3>2
      <4>2. port[q] \in {"open", "broken"}
        BY <1>3, <4>1, NamesFinite DEF PortShape
      <4> QED BY <1>2, <4>1, <4>2
    <3> QED BY <3>1, <3>2
  <2> QED BY <1>2, <1>3, <2>1 DEF OneDevice
<1>8. LoopsCounted'
  <2>1. ASSUME NEW q \in Names
        PROVE  loopTimers' + reads'[q] <= unplugged' + Holding'
    <3>1. loopTimers + reads[q] <= unplugged + Holding
      BY <1>3 DEF LoopsCounted
    <3>2. reads'[q] \in Nat /\ loopTimers' + reads'[q] <= loopTimers + reads[q]
      BY <1>5, Counted
    <3> QED BY <1>2, <1>5, <3>1, <3>2, Counted
  <2> QED BY <2>1 DEF LoopsCounted
<1>9. DeviceShape' /\ PageShape'
  BY <1>1, <1>2 DEF ForwarderInv, Shape, DeviceShape, PageShape, pageVars
<1> QED BY <1>4, <1>6, <1>7, <1>8, <1>9 DEF ForwarderInv, Shape

(* A loop whose read ends becomes a timer or is gone.  Loops wait at one   *)
(* port only, so that the others' reads cannot hide a loop too many.       *)
LEMMA ReadEnds ==
  ASSUME ForwarderInv, NEW p \in Names, reads[p] > 0,
         reads' = [reads EXCEPT ![p] = @ - 1], loopTimers' \in {loopTimers, loopTimers + 1},
         UNCHANGED <<wsVars, portVars, readLoopAlive, pageVars, faults>>
  PROVE  /\ SocketShape' /\ SocketsCounted' /\ PortShape' /\ PortsCounted'
         /\ OneDevice' /\ LoopShape' /\ LoopsCounted' /\ PageShape'
<1>1. UNCHANGED <<connected, unplugged, port>> /\ Holding' = Holding
  BY DEF pageVars, Holding, Held, portVars
<1>2. PortShape /\ LoopShape /\ OneDevice /\ LoopsCounted
  BY DEF ForwarderInv, Shape
<1>3. /\ SocketShape' /\ SocketsCounted' /\ PortShape' /\ PortsCounted'
  BY <1>1, SocketsKept, PortsKept
<1>4. LoopShape'
  BY <1>2, Counted DEF LoopShape
<1>5. \A q \in Names : q # p => reads[q] = 0
  BY <1>2, Counted DEF OneDevice
<1>6. /\ \A q \in Names : reads'[q] \in Nat /\ reads'[q] <= reads[q]
      /\ reads'[p] = reads[p] - 1
      /\ \A q \in Names : q # p => reads'[q] = reads[q]
  BY <1>2, Counted DEF LoopShape
<1>7. OneDevice'
  BY <1>1, <1>2, <1>6, Counted DEF OneDevice
<1>8. LoopsCounted'
  <2>1. loopTimers + reads[p] <= unplugged + Holding
    BY <1>2 DEF LoopsCounted
  <2>2. ASSUME NEW q \in Names
        PROVE  loopTimers' + reads'[q] <= unplugged' + Holding'
    <3>1. loopTimers' + reads'[q] <= loopTimers + reads[p] /\ reads'[q] \in Nat
      BY <1>5, <1>6, Counted
    <3> QED BY <1>1, <2>1, <3>1, Counted
  <2> QED BY <2>2 DEF LoopsCounted
<1>9. PageShape'
  BY DEF ForwarderInv, Shape, PageShape, pageVars
<1> QED BY <1>3, <1>4, <1>7, <1>8, <1>9

LEMMA CountsReadChunk ==
  ASSUME ForwarderInv, NEW p \in Names, ReadChunk(p) \/ ReadNothing(p)
  PROVE  ForwarderInv'
<1>1. /\ reads[p] > 0 /\ reads' = [reads EXCEPT ![p] = @ - 1]
      /\ loopTimers' \in {loopTimers, loopTimers + 1}
      /\ UNCHANGED <<wsVars, portVars, readLoopAlive, pageVars, faults, made, inbound>>
  <2>1. loopTimers + 0 = loopTimers
    BY Counted
  <2> QED BY <2>1 DEF ReadChunk, ReadNothing, deviceVars
<1>2. /\ SocketShape' /\ SocketsCounted' /\ PortShape' /\ PortsCounted'
      /\ OneDevice' /\ LoopShape' /\ LoopsCounted' /\ PageShape'
  BY <1>1, ReadEnds
<1>3. DeviceShape /\ MaxChunks \in Nat
  BY ForwarderAssumption DEF ForwarderInv, Shape
<1>4. DeviceShape'
  <2>1. CASE UNCHANGED <<taken, intact>>
    BY <1>1, <1>3, <2>1 DEF DeviceShape
  <2>2. CASE made > taken /\ taken' = taken + 1 /\ intact' \in {intact, FALSE}
    <3>1. taken' \in 0 .. made'
      BY <1>1, <1>3, <2>2 DEF DeviceShape
    <3> QED BY <1>1, <1>3, <2>2, <3>1 DEF DeviceShape
  <2> QED BY <2>1, <2>2 DEF ReadChunk, ReadNothing, deviceVars
<1> QED BY <1>2, <1>4 DEF ForwarderInv, Shape

----------------------------------------------------------------------------
(* The callers, the device and the page. *)

LEMMA CountsConnect == ForwarderInv /\ Connect => ForwarderInv'
<1> SUFFICES ASSUME ForwarderInv, Connect PROVE ForwarderInv'
  OBVIOUS
<1>1. /\ connected' = TRUE /\ NewSocket /\ NewRequest
      /\ UNCHANGED <<ws, wsTimers, serial, serialTimers, loopVars, deviceVars, inbound,
                     reloading, unplugged>>
  BY DEF Connect
<1>2. /\ NotYet' \in {0, 1} /\ faults' \in faults .. MaxFaults
      /\ NotYet' + 1 + faults <= NotYet + faults'
  <2>1. NotYet' = 0
    BY <1>1 DEF NotYet
  <2>2. CASE connected
    <3>1. NotYet = 0 /\ faults < MaxFaults /\ faults' = faults + 1
      BY <2>2 DEF NotYet, Connect, Fault
    <3> QED BY <2>1, <3>1, Counted
  <2>3. CASE ~connected
    <3>1. NotYet = 1 /\ faults' = faults
      BY <2>3 DEF NotYet, Connect
    <3> QED BY <2>1, <3>1, Counted
  <2> QED BY <2>2, <2>3
<1>3. SocketShape' /\ SocketsCounted'
  BY <1>1, <1>2, Counted, NewSocketCounted
<1>4. PortShape' /\ PortsCounted' /\ OneDevice' /\ LoopShape' /\ LoopsCounted'
  BY <1>1, <1>2, Counted, NewRequestCounted
<1>5. DeviceShape' /\ PageShape'
  BY <1>1, <1>2, Counted DEF ForwarderInv, Shape, DeviceShape, PageShape, deviceVars
<1> QED BY <1>3, <1>4, <1>5 DEF ForwarderInv, Shape

LEMMA CountsDeviceWrites == ForwarderInv /\ DeviceWrites => ForwarderInv'
<1> SUFFICES ASSUME ForwarderInv, DeviceWrites PROVE ForwarderInv'
  OBVIOUS
<1>1. /\ made < MaxChunks /\ made' = made + 1
      /\ UNCHANGED <<wsVars, portVars, loopVars, taken, intact, inbound, pageVars, faults>>
  BY DEF DeviceWrites
<1>2. UNCHANGED <<connected, unplugged>>
  BY <1>1 DEF pageVars
<1>3. /\ SocketShape' /\ SocketsCounted' /\ PortShape' /\ PortsCounted'
      /\ OneDevice' /\ LoopShape' /\ LoopsCounted'
  BY <1>1, <1>2, SocketsKept, PortsKept, LoopsKept
<1>4. DeviceShape'
  BY <1>1, ForwarderAssumption DEF ForwarderInv, Shape, DeviceShape
<1>5. PageShape'
  BY <1>1 DEF ForwarderInv, Shape, PageShape, pageVars
<1> QED BY <1>3, <1>4, <1>5 DEF ForwarderInv, Shape

LEMMA CountsReload == ForwarderInv /\ Reload => ForwarderInv'
<1> SUFFICES ASSUME ForwarderInv, Reload PROVE ForwarderInv'
  OBVIOUS
<1>1. /\ sock' = [s \in Names |-> "none"] /\ ws' = undefined /\ wsTimers' = 0
      /\ port' = [p \in Names |-> "none"] /\ serial' = undefined /\ serialTimers' = 0
      /\ readLoopAlive' = FALSE /\ loopTimers' = 0 /\ reads' = [p \in Names |-> 0]
  BY DEF Reload, Fresh
<1>2. /\ inbound' = "none" /\ intact' = FALSE /\ connected' = FALSE /\ reloading' = FALSE
      /\ unplugged' = 0 /\ UNCHANGED <<made, taken, faults>>
  BY DEF Reload
<1>3. SocketShape' /\ PortShape' /\ LoopShape'
  BY <1>1 DEF SocketShape, PortShape, LoopShape
<1>4. DeviceShape' /\ PageShape'
  <2>1. unplugged' \in 0 .. faults'
    BY <1>2, Counted
  <2> QED BY <1>2, <2>1 DEF ForwarderInv, Shape, DeviceShape, PageShape
<1>5. Sockets' = {} /\ Ports' = {} /\ NotYet' = 1 /\ Holding' = 0
  BY <1>1, <1>2 DEF Sockets, Ports, NotYet, Holding, Held
<1>6. Cardinality(Sockets') = 0 /\ Cardinality(Ports') = 0
  BY <1>5, FS_EmptySet
<1>7. OneDevice' /\ SocketsCounted' /\ PortsCounted' /\ LoopsCounted'
  BY <1>1, <1>2, <1>5, <1>6, Counted
     DEF OneDevice, SocketsCounted, PortsCounted, LoopsCounted
<1> QED BY <1>3, <1>4, <1>7 DEF ForwarderInv, Shape

LEMMA CountsStep == ForwarderInv /\ [Next]_vars => ForwarderInv'
<1> SUFFICES ASSUME ForwarderInv, [Next]_vars PROVE ForwarderInv'
  OBVIOUS
<1>1. CASE Callbacks
  BY <1>1, CountsWsTimer, CountsSerialTimer, CountsLoopTimer, CountsOnOpen, CountsOnMessage,
     CountsReadChunk DEF Callbacks
<1>2. ASSUME NEW s \in Names, OnClose(s) PROVE ForwarderInv'
  BY <1>2, CountsOnClose
<1>3. ASSUME NEW p \in Names, ChoosePort(p) \/ OpenFails(p) PROVE ForwarderInv'
  BY <1>3, CallEnds
<1>4. ASSUME NEW p \in Names, OpenPort(p) \/ OnDisconnect(p) \/ ReadFails(p)
      PROVE  ForwarderInv'
  BY <1>4, CountsOpenPort, CountsOnDisconnect, CountsReadFails
<1>5. CASE Connect \/ DeviceWrites \/ Reload
  BY <1>5, CountsConnect, CountsDeviceWrites, CountsReload
<1>6. CASE UNCHANGED vars
  <2>1. /\ UNCHANGED <<wsVars, portVars, loopVars, deviceVars, inbound, pageVars, faults>>
        /\ UNCHANGED <<connected, unplugged, made, taken, intact>>
    BY <1>6 DEF vars, wsVars, portVars, loopVars, deviceVars, pageVars
  <2>2. PageShape' /\ DeviceShape'
    BY <2>1 DEF ForwarderInv, Shape, DeviceShape, PageShape, pageVars
  <2> QED BY <2>1, <2>2, SocketsKept, PortsKept, LoopsKept DEF ForwarderInv, Shape
<1> QED BY <1>1, <1>2, <1>3, <1>4, <1>5, <1>6 DEF Next

(* Sockets, ports, loops and timers keep their types and the bounds the    *)
(* faults give them: a socket that ends, an unplugged device or a further  *)
(* connect never leaves more than one further socket, call or loop behind  *)
(* (serial-forwarder.ts).                                                  *)
THEOREM ForwarderTypes == Spec => []ForwarderTypeOK
<1>1. Spec => []ForwarderInv
  BY CountsInit, CountsStep, PTL DEF Spec
<1> QED BY <1>1, CountsBound, PTL

(* Though every failed socket is followed by two, and any callback or      *)
(* timer may work on a later socket or port than its own, they do not      *)
(* breed: each socket and call for a port beyond the first has a fault of  *)
(* its own (onclose, ondisconnect, a further connect), each loop beyond    *)
(* the first an unplugged device, and there are never two ports that hold  *)
(* the device, or loops that wait at a port that has stopped working.      *)
THEOREM FaultsPayForAll ==
  Spec => [](SocketsCounted /\ PortsCounted /\ LoopsCounted /\ OneDevice)
<1>1. Spec => []ForwarderInv
  BY CountsInit, CountsStep, PTL DEF Spec
<1>2. ForwarderInv => SocketsCounted /\ PortsCounted /\ LoopsCounted /\ OneDevice
  BY DEF ForwarderInv
<1> QED BY <1>1, <1>2, PTL

(* A page reads its device with one loop, and at most one more for each    *)
(* time it was unplugged: connectSerialPort starts a loop only for a       *)
(* device that could be opened, and whatever else runs pipeSerialToWS is   *)
(* the timer of a loop that has ended its turn.                            *)
THEOREM LoopsStayPaidFor == Spec => []LoopsPaidFor
<1>1. Spec => []ForwarderInv
  BY CountsInit, CountsStep, PTL DEF Spec
<1>2. ForwarderInv => LoopsPaidFor
  <2> SUFFICES ASSUME ForwarderInv, NEW p \in Names
               PROVE  loopTimers + reads[p] <= unplugged + 1
    BY DEF LoopsPaidFor
  <2>1. loopTimers + reads[p] <= unplugged + Holding
    BY DEF ForwarderInv, LoopsCounted
  <2> QED BY <2>1, Counted
<1> QED BY <1>1, <1>2, PTL

----------------------------------------------------------------------------
(* What the page still has after any of its callbacks: a socket, or one to *)
(* come, and a loop at a port that works.                                  *)

LEMMA ToComeStep == ForwarderInv /\ SocketToCome /\ [Next]_vars => SocketToCome'
<1> SUFFICES ASSUME ForwarderInv, SocketToCome, [Next]_vars, connected'
             PROVE  ws' # undefined \/ wsTimers' > 0 \/ \E s \in Names : sock'[s] = "connecting"
  BY DEF SocketToCome
<1>1. SocketShape /\ wsTimers \in Nat /\ undefined \notin Names
  BY NamesFinite DEF ForwarderInv, Shape, SocketShape
<1>2. CASE UNCHANGED <<wsVars, connected>>
  BY <1>2 DEF SocketToCome, wsVars
<1>3. ASSUME NewSocket, wsTimers + NotYet > 0 \/ faults < MaxFaults
      PROVE  \E s \in Names : sock'[s] = "connecting"
  <2> DEFINE u == Unused(sock)
  <2>1. Cardinality(Sockets) <= MaxFaults
    BY <1>3, Counted DEF ForwarderInv, SocketsCounted
  <2>2. u \in Names
    BY <2>1, UnusedIsFree DEF Sockets
  <2>3. sock' = [sock EXCEPT ![u] = "connecting"]
    BY <1>3 DEF NewSocket
  <2> HIDE DEF u
  <2>4. sock'[u] = "connecting"
    BY <1>1, <2>2, <2>3 DEF SocketShape
  <2> QED BY <2>2, <2>4
<1>4. CASE WsTimer
  <2>1. wsTimers + NotYet > 0
    BY <1>1, <1>4, Counted DEF WsTimer
  <2> QED BY <1>3, <1>4, <2>1 DEF WsTimer
<1>5. CASE Connect
  <2>1. wsTimers + NotYet > 0 \/ faults < MaxFaults
    BY <1>1, <1>5 DEF Connect, NotYet, Fault
  <2> QED BY <1>3, <1>5, <2>1 DEF Connect
<1>6. ASSUME NEW s \in Names, OnOpen(s) PROVE ws' # undefined
  BY <1>1, <1>6 DEF OnOpen
<1>7. ASSUME NEW s \in Names, OnClose(s) PROVE wsTimers' > 0
  BY <1>1, <1>7 DEF OnClose
<1>8. ASSUME Reload PROVE FALSE
  BY <1>8 DEF Reload
<1>9. CASE \E s \in Names : OnMessage(s)
  BY <1>2, <1>9 DEF OnMessage, pageVars
<1>10. CASE SerialTimer \/ LoopTimer \/ DeviceWrites
  BY <1>2, <1>10 DEF SerialTimer, LoopTimer, DeviceWrites, pageVars
<1>11. CASE \E p \in Names : ReadChunk(p) \/ ReadNothing(p)
  BY <1>2, <1>11 DEF ReadChunk, ReadNothing, pageVars
<1>12. CASE \E p \in Names : ChoosePort(p) \/ OpenPort(p) \/ OpenFails(p)
  BY <1>2, <1>12 DEF ChoosePort, OpenPort, OpenFails, pageVars
<1>13. CASE \E p \in Names : OnDisconnect(p) \/ ReadFails(p)
  BY <1>2, <1>13 DEF OnDisconnect, ReadFails, pageVars
<1>14. CASE UNCHANGED vars
  BY <1>2, <1>14 DEF vars, wsVars
<1> QED BY <1>4, <1>5, <1>6, <1>7, <1>8, <1>9, <1>10, <1>11, <1>12, <1>13, <1>14
        DEF Next, Callbacks

(* A read that ends at any port ends at the one the page uses, and the     *)
(* loop goes on in a timer.                                                *)
LEMMA ReadGoesOn ==
  ASSUME ForwarderInv, ReadLoopGoesOn, NEW p \in Names, ReadChunk(p) \/ ReadNothing(p), intact'
  PROVE  ReadLoopGoesOn'
<1>1. intact /\ loopTimers' = loopTimers + (IF readLoopAlive THEN 1 ELSE 0)
      /\ readLoopAlive' = readLoopAlive /\ serial' = serial /\ port' = port
  BY DEF ReadChunk, ReadNothing, deviceVars, portVars
<1>2. readLoopAlive /\ serial # undefined /\ port[serial] = "open"
  BY <1>1 DEF ReadLoopGoesOn
<1>3. loopTimers' > 0
  BY <1>1, <1>2, Counted
<1> QED BY <1>1, <1>2, <1>3 DEF ReadLoopGoesOn

LEMMA GoesOnStep == ForwarderInv /\ ReadLoopGoesOn /\ [Next]_vars => ReadLoopGoesOn'
<1> SUFFICES ASSUME ForwarderInv, ReadLoopGoesOn, [Next]_vars, intact'
             PROVE  ReadLoopGoesOn'
  BY DEF ReadLoopGoesOn
<1>1. /\ reads \in [Names -> Nat] /\ loopTimers \in Nat /\ undefined \notin Names
      /\ port \in [Names -> {"none", "requested", "opening", "open", "broken"}]
      /\ (serial = undefined) \/ (serial \in Names)
  BY NamesFinite DEF ForwarderInv, Shape, LoopShape, PortShape
<1>2. CASE UNCHANGED <<intact, readLoopAlive, serial, port, loopTimers, reads>>
  BY <1>2 DEF ReadLoopGoesOn
<1>3. ASSUME UNCHANGED <<intact, readLoopAlive, serial, loopTimers, reads>>,
             \A q \in Names : port[q] = "open" => port'[q] = "open"
      PROVE  ReadLoopGoesOn'
  BY <1>1, <1>3 DEF ReadLoopGoesOn
<1>4. ASSUME NewRequest, serialTimers + NotYet > 0 \/ faults < MaxFaults
      PROVE  \A q \in Names : port[q] = "open" => port'[q] = "open"
  <2> DEFINE u == Unused(port)
  <2>1. Cardinality(Ports) <= MaxFaults
    BY <1>4, Counted DEF ForwarderInv, PortsCounted
  <2>2. u \in Names /\ port[u] = "none"
    BY <2>1, UnusedIsFree DEF Ports
  <2>3. port' = [port EXCEPT ![u] = "requested"]
    BY <1>4 DEF NewRequest
  <2> HIDE DEF u
  <2> QED BY <1>1, <2>2, <2>3
<1>5. CASE SerialTimer \/ Connect
  <2>1. NewRequest /\ UNCHANGED <<intact, readLoopAlive, serial, loopTimers, reads>>
    BY <1>5 DEF SerialTimer, Connect, loopVars, deviceVars
  <2>2. serialTimers + NotYet > 0 \/ faults < MaxFaults
    BY <1>5, Counted DEF SerialTimer, Connect, NotYet, Fault
  <2> QED BY <1>3, <1>4, <2>1, <2>2
<1>6. CASE \E p \in Names : ChoosePort(p) \/ OpenFails(p)
  BY <1>1, <1>3, <1>6 DEF ChoosePort, OpenFails, loopVars, deviceVars
<1>7. ASSUME NEW p \in Names, OpenPort(p) PROVE ReadLoopGoesOn'
  <2>1. /\ port' = [port EXCEPT ![p] = "open"] /\ serial' = p /\ readLoopAlive' = TRUE
        /\ Poll(p, TRUE, loopTimers) /\ port[p] = "opening"
    BY <1>7 DEF OpenPort
  <2>2. port'[p] = "open" /\ p # undefined
    BY <1>1, <2>1
  <2>3. loopTimers' > 0 \/ reads'[p] > 0
    <3>1. CASE ws # undefined
      <4>1. reads' = [reads EXCEPT ![p] = @ + 1]
        BY <2>1, <2>2, <3>1 DEF Poll
      <4>2. reads'[p] = reads[p] + 1 /\ reads[p] \in Nat
        BY <1>1, <4>1
      <4> QED BY <4>2
    <3>2. CASE ws = undefined
      <4>1. loopTimers' = loopTimers + 1
        BY <2>1, <3>2 DEF Poll
      <4> QED BY <1>1, <4>1
    <3> QED BY <3>1, <3>2
  <2> QED BY <2>1, <2>2, <2>3 DEF ReadLoopGoesOn
<1>8. CASE LoopTimer
  <2>1. /\ loopTimers > 0 /\ Poll(serial, readLoopAlive, loopTimers - 1)
        /\ UNCHANGED <<intact, readLoopAlive, serial, port>>
    BY <1>8 DEF LoopTimer, deviceVars, portVars
  <2>2. readLoopAlive /\ serial \in Names /\ port[serial] = "open"
    BY <1>1, <2>1 DEF ReadLoopGoesOn
  <2>3. loopTimers - 1 \in Nat
    BY <1>1, <2>1
  <2>4. loopTimers' > 0 \/ reads'[serial] > 0
    <3>1. CASE ws # undefined
      <4>1. reads' = [reads EXCEPT ![serial] = @ + 1]
        BY <1>1, <2>1, <2>2, <3>1 DEF Poll
      <4>2. reads'[serial] = reads[serial] + 1 /\ reads[serial] \in Nat
        BY <1>1, <2>2, <4>1
      <4> QED BY <4>2
    <3>2. CASE ws = undefined
      <4>1. loopTimers' = loopTimers - 1 + 1
        BY <2>1, <2>2, <3>2 DEF Poll
      <4> QED BY <2>3, <4>1
    <3> QED BY <3>1, <3>2
  <2> QED BY <1>1, <2>1, <2>2, <2>4 DEF ReadLoopGoesOn
<1>9. ASSUME NEW p \in Names, ReadChunk(p) \/ ReadNothing(p) PROVE ReadLoopGoesOn'
  BY <1>9, ReadGoesOn
<1>10. ASSUME NEW p \in Names, OnDisconnect(p) \/ ReadFails(p) PROVE FALSE
  BY <1>10 DEF OnDisconnect, ReadFails
<1>11. ASSUME Reload PROVE FALSE
  BY <1>11 DEF Reload
<1>12. CASE WsTimer \/ DeviceWrites
  BY <1>2, <1>12 DEF WsTimer, DeviceWrites, loopVars, portVars, deviceVars
<1>13. CASE \E s \in Names : OnOpen(s) \/ OnMessage(s) \/ OnClose(s)
  BY <1>2, <1>13 DEF OnOpen, OnMessage, OnClose, loopVars, portVars, deviceVars
<1>14. CASE UNCHANGED vars
  BY <1>2, <1>14 DEF vars
<1> QED BY <1>5, <1>6, <1>7, <1>8, <1>9, <1>10, <1>11, <1>12, <1>13, <1>14
        DEF Next, Callbacks

(* Once connect was called the page is never left without a socket,        *)
(* present or to come, although onclose and onerror forget this.ws also    *)
(* for a socket that has long been replaced.                               *)
THEOREM SocketAlwaysToCome == Spec => []SocketToCome
<1>1. Init => SocketToCome
  BY DEF Init, SocketToCome
<1>2. Spec => []ForwarderInv
  BY CountsInit, CountsStep, PTL DEF Spec
<1> QED BY <1>1, <1>2, ToComeStep, PTL DEF Spec

(* As long as nothing has been lost, a loop reads the port this.serialPort *)
(* names or is to: of all that can happen only a lost chunk, a read error, *)
(* the device's removal and a reload end the last one.                     *)
THEOREM LoopGoesOnWhileIntact == Spec => []ReadLoopGoesOn
<1>1. Init => ReadLoopGoesOn
  BY DEF Init, ReadLoopGoesOn
<1>2. Spec => []ForwarderInv
  BY CountsInit, CountsStep, PTL DEF Spec
<1> QED BY <1>1, <1>2, GoesOnStep, PTL DEF Spec

=============================================================================
