---------------------------- MODULE SerialBroker ----------------------------
(***************************************************************************)
(* The serial tunnel (internal/serialbroker/broker.go): one WebSocket from *)
(* a browser, one TCP connection to the agent on its sandbox, and the      *)
(* three goroutines of HandleWebsocket: the handler, readPipe (WebSocket   *)
(* to TCP) and writePipe (TCP to WebSocket).  They share the unbuffered    *)
(* channel errC, the channel done, which a goroutine can only close, and   *)
(* the close handler the handler installs after it started the other two.  *)
(***************************************************************************)
EXTENDS Integers, Sequences

CONSTANT MaxMsgs   \* bound: messages the browser sends, and the agent

ASSUME BrokerAssumption == MaxMsgs \in Nat

VARIABLES
  h,           \* where the handler is
  caller,      \* what the request brings: a session and a destination, or not
  hooked,      \* SetCloseHandler was called
  done,        \* done is closed
  crashed,     \* a panic outside of the handler ended the process
  pc,          \* where readPipe ("read") and writePipe ("write") are
  buf,         \* the message each is passing on
  ws,          \* the WebSocket: "open", "closing" (the browser sent its close
               \* frame), "lost", or "closed" by the broker
  tcp,         \* the TCP connection: "none", "open", "lost" or "closed"
  sent,        \* messages sent by the browser ("read") and the agent ("write")
  queue,       \* what they sent and the broker has not read
  received     \* what the other end has received

vars == <<h, caller, hooked, done, crashed, pc, buf, ws, tcp, sent, queue, received>>

Pipes == {"read", "write"}
Close == 0                     \* the browser's close frame
Msgs  == 1 .. MaxMsgs

HandlerSteps == {"session", "destination", "dial", "spawn", "hook", "select", "parked",
                 "closeDone", "closeWS", "closeTCP", "returned", "panicked"}
PipeSteps    == {"none", "poll", "receive", "pass", "hook", "report", "exited"}

TypeOK ==
  /\ h \in HandlerSteps
  /\ caller \in {"nobody", "nowhere", "participant"}
  /\ hooked \in BOOLEAN /\ done \in BOOLEAN /\ crashed \in BOOLEAN
  /\ pc \in [Pipes -> PipeSteps]
  /\ buf \in [Pipes -> Msgs \cup {Close}]
  /\ ws \in {"open", "closing", "lost", "closed"}
  /\ tcp \in {"none", "open", "lost", "closed"}
  /\ sent \in [Pipes -> 0 .. MaxMsgs]
  /\ queue \in [Pipes -> Seq(Msgs \cup {Close})]
  /\ received \in [Pipes -> Seq(Msgs)]

Init ==
  /\ h = "session"
  /\ caller \in {"nobody", "nowhere", "participant"}
  /\ hooked = FALSE /\ done = FALSE /\ crashed = FALSE
  /\ pc = [p \in Pipes |-> "none"]
  /\ buf = [p \in Pipes |-> Close]
  /\ ws = "open" /\ tcp = "none"
  /\ sent = [p \in Pipes |-> 0]
  /\ queue = [p \in Pipes |-> <<>>]
  /\ received = [p \in Pipes |-> <<>>]

wire  == <<ws, tcp, sent, queue, received>>
pipes == <<pc, buf>>

----------------------------------------------------------------------------
(* The handler. *)

Handler(from) == ~crashed /\ h = from

(* The handler gives up and closes the WebSocket. *)
Refuse == h' = "returned" /\ ws' = "closed"

CheckSession ==
  /\ Handler("session")
  /\ IF caller = "nobody" THEN Refuse ELSE h' = "destination" /\ UNCHANGED ws
  /\ UNCHANGED <<caller, hooked, done, crashed, pc, buf, tcp, sent, queue, received>>

CheckDestination ==
  /\ Handler("destination")
  /\ IF caller = "nowhere" THEN Refuse ELSE h' = "dial" /\ UNCHANGED ws
  /\ UNCHANGED <<caller, hooked, done, crashed, pc, buf, tcp, sent, queue, received>>

Dial ==
  /\ Handler("dial")
  /\ \/ h' = "spawn" /\ tcp' = "open"
     \/ h' = "returned" /\ UNCHANGED tcp
  /\ UNCHANGED <<caller, hooked, done, crashed, pc, buf, ws, sent, queue, received>>

Spawn ==
  /\ Handler("spawn")
  /\ h' = "hook"
  /\ pc' = [p \in Pipes |-> "poll"]
  /\ UNCHANGED <<caller, hooked, done, crashed, buf>> /\ UNCHANGED wire

SetCloseHandler ==
  /\ Handler("hook")
  /\ h' = "select"
  /\ hooked' = TRUE
  /\ UNCHANGED <<caller, done, crashed>> /\ UNCHANGED pipes /\ UNCHANGED wire

(* The select finds errC or done ready, takes either of the two when both  *)
(* are, and parks when none is.  A parked handler is woken by what happens *)
(* first.                                                                  *)
Reporting == {p \in Pipes : pc[p] = "report"}

SelectDone ==
  /\ Handler("select")
  /\ done
  /\ h' = "closeWS"
  /\ UNCHANGED <<caller, hooked, done, crashed>> /\ UNCHANGED pipes /\ UNCHANGED wire

Park ==
  /\ Handler("select")
  /\ ~done /\ Reporting = {}
  /\ h' = "parked"
  /\ UNCHANGED <<caller, hooked, done, crashed>> /\ UNCHANGED pipes /\ UNCHANGED wire

(* errC <- err in pipe p meets the select. *)
Report(p) ==
  /\ ~crashed
  /\ h \in {"select", "parked"}
  /\ p \in Reporting
  /\ h' = "closeDone"
  /\ pc' = [pc EXCEPT ![p] = "exited"]
  /\ UNCHANGED <<caller, hooked, done, crashed, buf>> /\ UNCHANGED wire

(* close(done) panics when done is closed.  In the handler, net/http       *)
(* recovers, and the two Close calls are skipped.                          *)
CloseDone ==
  /\ Handler("closeDone")
  /\ h' = IF done THEN "panicked" ELSE "closeWS"
  /\ done' = TRUE
  /\ UNCHANGED <<caller, hooked, crashed>> /\ UNCHANGED pipes /\ UNCHANGED wire

CloseWS ==
  /\ Handler("closeWS")
  /\ h' = "closeTCP"
  /\ ws' = "closed"
  /\ UNCHANGED <<caller, hooked, done, crashed, pc, buf, tcp, sent, queue, received>>

CloseTCP ==
  /\ Handler("closeTCP")
  /\ h' = "returned"
  /\ tcp' = "closed"
  /\ UNCHANGED <<caller, hooked, done, crashed, pc, buf, ws, sent, queue, received>>

----------------------------------------------------------------------------
(* The two pipes. *)

Pipe(p, from) == ~crashed /\ pc[p] = from

Step(p, to) == pc' = [pc EXCEPT ![p] = to]

Source(p) == IF p = "read" THEN ws ELSE tcp
Sink(p)   == IF p = "read" THEN tcp ELSE ws

Poll(p) ==
  /\ Pipe(p, "poll")
  /\ Step(p, IF done THEN "exited" ELSE "receive")
  /\ UNCHANGED <<h, caller, hooked, done, crashed, buf>> /\ UNCHANGED wire

(* Mistakes: a close frame is passed on like a message; a read returns the *)
(* latest message and drops those before it.                               *)
ReceiveCloseAsData(p) ==
  /\ Pipe(p, "receive")
  /\ queue[p] # <<>>
  /\ buf' = [buf EXCEPT ![p] = Head(queue[p])]
  /\ queue' = [queue EXCEPT ![p] = Tail(@)]
  /\ Step(p, "pass")
  /\ UNCHANGED <<h, caller, hooked, done, crashed, ws, tcp, sent, received>>

ReceiveLatest(p) ==
  /\ Pipe(p, "receive")
  /\ queue[p] # <<>>
  /\ buf' = [buf EXCEPT ![p] = queue[p][Len(queue[p])]]
  /\ queue' = [queue EXCEPT ![p] = <<>>]
  /\ Step(p, IF buf'[p] = Close THEN "hook" ELSE "pass")
  /\ UNCHANGED <<h, caller, hooked, done, crashed, ws, tcp, sent, received>>

(* Reads take what the connection has buffered, also after it was lost or  *)
(* closed.  A close frame calls the close handler on the way.              *)
Receive(p) ==
  /\ Pipe(p, "receive")
  /\ queue[p] # <<>>
  /\ buf' = [buf EXCEPT ![p] = Head(queue[p])]
  /\ queue' = [queue EXCEPT ![p] = Tail(@)]
  /\ Step(p, IF Head(queue[p]) = Close THEN "hook" ELSE "pass")
  /\ UNCHANGED <<h, caller, hooked, done, crashed, ws, tcp, sent, received>>

(* Mistakes: reads have a deadline, and miss it; a pipe that cannot read   *)
(* any more just stops.                                                    *)
ReceiveDeadline(p) ==
  /\ Pipe(p, "receive")
  /\ Step(p, "report")
  /\ UNCHANGED <<h, caller, hooked, done, crashed, buf>> /\ UNCHANGED wire

ReceiveErrorUnreported(p) ==
  /\ Pipe(p, "receive")
  /\ Source(p) \in {"lost", "closed"}
  /\ Step(p, "exited")
  /\ UNCHANGED <<h, caller, hooked, done, crashed, buf>> /\ UNCHANGED wire

ReceiveError(p) ==
  /\ Pipe(p, "receive")
  /\ Source(p) \in {"lost", "closed"}
  /\ Step(p, "report")
  /\ UNCHANGED <<h, caller, hooked, done, crashed, buf>> /\ UNCHANGED wire

(* The close handler, called in readPipe's goroutine, where nothing        *)
(* recovers a panic of close(done); ReadMessage then returns an error.     *)
OnClose ==
  /\ Pipe("read", "hook")
  /\ crashed' = (hooked /\ done)
  /\ done' = (done \/ hooked)
  /\ h' = IF hooked /\ ~done /\ h = "parked" THEN "closeWS" ELSE h
  /\ Step("read", "report")
  /\ UNCHANGED <<caller, hooked, buf>> /\ UNCHANGED wire

(* The error of a write is ignored. *)
Pass(p) ==
  /\ Pipe(p, "pass")
  /\ received' = IF Sink(p) = "open" THEN [received EXCEPT ![p] = Append(@, buf[p])]
                                     ELSE received
  /\ Step(p, "poll")
  /\ UNCHANGED <<h, caller, hooked, done, crashed, buf, ws, tcp, sent, queue>>

----------------------------------------------------------------------------
(* The browser, the agent and the network. *)

Send(p) ==
  /\ Source(p) = "open"
  /\ sent[p] < MaxMsgs
  /\ sent' = [sent EXCEPT ![p] = @ + 1]
  /\ queue' = [queue EXCEPT ![p] = Append(@, sent'[p])]
  /\ UNCHANGED <<h, caller, hooked, done, crashed, pc, buf, ws, tcp, received>>

(* The browser closes: a frame, and nothing after it in either direction   *)
(* reaches the page.                                                       *)
BrowserCloses ==
  /\ ws = "open"
  /\ ws' = "closing"
  /\ queue' = [queue EXCEPT !["read"] = Append(@, Close)]
  /\ UNCHANGED <<h, caller, hooked, done, crashed, pc, buf, tcp, sent, received>>

Lose ==
  /\ \/ ws \in {"open", "closing"} /\ ws' = "lost" /\ UNCHANGED tcp
     \/ tcp = "open" /\ tcp' = "lost" /\ UNCHANGED ws
  /\ UNCHANGED <<h, caller, hooked, done, crashed, pc, buf, sent, queue, received>>

HandlerStep ==
  \/ CheckSession \/ CheckDestination \/ Dial \/ Spawn \/ SetCloseHandler
  \/ SelectDone \/ Park \/ CloseDone \/ CloseWS \/ CloseTCP

PipeStep(p) ==
  \/ Poll(p) \/ Receive(p) \/ ReceiveError(p) \/ Pass(p) \/ Report(p)
  \/ p = "read" /\ OnClose

Peers == BrowserCloses \/ Lose \/ \E p \in Pipes : Send(p)

Next == HandlerStep \/ (\E p \in Pipes : PipeStep(p)) \/ Peers

Spec == Init /\ [][Next]_vars

(* Goroutines keep running, and what a write is waiting for, the other     *)
(* end's reading, happens: Hijack cleared the server's deadlines, so a     *)
(* peer that stays connected and stops reading would stall a pipe.         *)
FairSpec ==
  /\ Spec
  /\ WF_vars(HandlerStep)
  /\ \A p \in Pipes : WF_vars(PipeStep(p))

----------------------------------------------------------------------------
Ended == h \in {"returned", "panicked"} \/ crashed

(* The pipes neither reorder nor drop a message out of the middle: though  *)
(* write errors are ignored and connections end at any moment, what one    *)
(* side has received is a prefix of what the other has sent.               *)
PrefixDelivered ==
  \A p \in Pipes :
    /\ Len(received[p]) <= sent[p]
    /\ \A i \in 1 .. Len(received[p]) : received[p][i] = i

(* The lines of SerialTunnel that deliver nothing any more: nobody is at   *)
(* the other end, or nothing is left of the tunnel to write to it.         *)
CutLines == {p \in Pipes : Sink(p) \notin {"none", "open"} \/ Ended}

Tunnel == INSTANCE SerialTunnel WITH Lines <- Pipes, cut <- CutLines

(* Goroutines, polls, ignored write errors and connections that close one  *)
(* after the other come to a tunnel that delivers in order without a gap   *)
(* and, once a message could not be delivered, delivers no later one: a    *)
(* direction that has failed does not come back, though its pipe goes on.  *)
IsTunnel == Tunnel!Spec

(* What was sent arrives, unless its receiver or the tunnel goes: messages *)
(* are not left in the broker while a pipe waits for an end to be noticed. *)
SentArrives ==
  \A p \in Pipes, n \in Msgs :
    sent[p] >= n ~> Len(received[p]) >= n \/ p \in CutLines

(* While the handler waits to be told of an end, both pipes are there to   *)
(* tell it, and the browser's close frame is before readPipe or in its     *)
(* hands; and a parked handler has not missed the closing of done.         *)
Closing(p) == queue[p] # <<>> /\ queue[p][Len(queue[p])] = Close

WaitingIsWatched ==
  /\ h = "parked" => ~done
  /\ h \in {"hook", "select", "parked"} /\ ~done =>
       /\ \A p \in Pipes : pc[p] \notin {"none", "exited"}
       /\ ws = "closing" => Closing("read") \/ pc["read"] \in {"hook", "report"}

(* The end of either connection ends the tunnel: whichever pipe notices,   *)
(* and in whatever step the handler is, nobody waits forever for the       *)
(* handler to give up the other connection.                                *)
EndOfEitherEndsTunnel ==
  (h \in {"hook", "select", "parked"} /\ (ws # "open" \/ tcp # "open")) ~> Ended

(* Only a close frame of the browser that meets the end of the agent's     *)
(* connection can end the process, and a handler that panics was told of   *)
(* the end both through errC and through done.                             *)
CrashTakesBothEnds ==
  /\ crashed => tcp # "open"
  /\ h = "panicked" => hooked /\ pc["read"] \in {"report", "exited"}

(* An error of a tunnel's sockets ends at most that tunnel (broker.go:14:  *)
(* it closes the WebSocket connection).                                    *)
ServerSurvives == ~crashed

=============================================================================
