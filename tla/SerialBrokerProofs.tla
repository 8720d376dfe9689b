------------------------- MODULE SerialBrokerProofs -------------------------
(***************************************************************************)
(* Proofs about one serial tunnel, for any number of messages: types, the  *)
(* order of what the broker delivers, and what it takes to crash it.       *)
(***************************************************************************)
EXTENDS SerialBroker, SequenceTheorems, TLAPS

(***************************************************************************)
(* PrefixDelivered is not inductive: what is still in the broker has to    *)
(* come in order too.  The first Taken(p) messages have left the queue;    *)
(* the queue has the others and perhaps a close frame behind them.  As     *)
(* long as writes can succeed, all that was taken has been passed on,      *)
(* except the one message in buf.                                          *)
(***************************************************************************)
Queued(p)  == IF Closing(p) THEN Len(queue[p]) - 1 ELSE Len(queue[p])
Taken(p)   == sent[p] - Queued(p)
Passing(p) == IF pc[p] = "pass" THEN 1 ELSE 0

InOrder(p) ==
  /\ Queued(p) <= sent[p]
  /\ \A i \in 1 .. Queued(p) : queue[p][i] = Taken(p) + i
  /\ Closing(p) => p = "read" /\ ws # "open"
  /\ pc[p] = "pass" => buf[p] = Taken(p)
  /\ Len(received[p]) <= Taken(p) - Passing(p)
  /\ Sink(p) \in {"none", "open"} => Len(received[p]) = Taken(p) - Passing(p)
  /\ \A i \in 1 .. Len(received[p]) : received[p][i] = i

(***************************************************************************)
(* Who closed done, and why: until readPipe has its own end to report,     *)
(* only the handler can have, told by writePipe of the agent's end; and    *)
(* when done is closed before the handler closes it, readPipe did that.    *)
(***************************************************************************)
Starting == h \in {"session", "destination", "dial", "spawn"}
Over     == pc["read"] \in {"report", "exited"}
AgentGone == tcp \in {"lost", "closed"}

(* The pipes start when there is an agent to talk to. *)
Dialled ==
  /\ h \in {"session", "destination", "dial"} => tcp = "none"
  /\ h = "spawn" => tcp # "none"
  /\ tcp = "none" => \A p \in Pipes : pc[p] = "none"

WhyDone ==
  /\ Starting => \A p \in Pipes : pc[p] = "none"
  /\ pc["write"] = "report" => AgentGone
  /\ h = "closeDone" /\ ~Over => AgentGone
  /\ done /\ ~Over => AgentGone
  /\ done /\ (Starting \/ h \in {"hook", "select", "parked", "closeDone"}) => hooked /\ Over

BrokerInv ==
  /\ TypeOK
  /\ \A p \in Pipes : InOrder(p)
  /\ Dialled /\ WhyDone
  /\ CrashTakesBothEnds

USE BrokerAssumption

----------------------------------------------------------------------------
LEMMA BrokerInit == Init => BrokerInv
<1> SUFFICES ASSUME Init PROVE BrokerInv
  OBVIOUS
<1>1. TypeOK
  <2>1. pc \in [Pipes -> PipeSteps] /\ buf \in [Pipes -> Msgs \cup {Close}]
    BY DEF Init, PipeSteps
  <2>2. sent \in [Pipes -> 0 .. MaxMsgs]
    BY DEF Init
  <2>3. queue \in [Pipes -> Seq(Msgs \cup {Close})] /\ received \in [Pipes -> Seq(Msgs)]
    BY DEF Init
  <2> QED BY <2>1, <2>2, <2>3 DEF Init, TypeOK, HandlerSteps
<1>2. ASSUME NEW p \in Pipes PROVE InOrder(p)
  <2>1. queue[p] = <<>> /\ sent[p] = 0 /\ received[p] = <<>> /\ pc[p] = "none"
    BY DEF Init
  <2>2. Passing(p) = 0 /\ ~Closing(p)
    BY <2>1 DEF Closing, Passing
  <2>3. Queued(p) = 0
    BY <2>1, <2>2 DEF Queued
  <2>4. Taken(p) = 0
    BY <2>1, <2>3 DEF Taken
  <2> QED BY <2>1, <2>2, <2>3, <2>4 DEF InOrder
<1>3. Dialled /\ WhyDone /\ CrashTakesBothEnds
  BY DEF Init, Dialled, WhyDone, Starting, Over, CrashTakesBothEnds, Pipes
<1> QED BY <1>1, <1>2, <1>3 DEF BrokerInv

(* A step that takes, adds and delivers nothing keeps the order, if no     *)
(* connection comes back.                                                  *)
LEMMA SameOrder ==
  ASSUME TypeOK, \A p \in Pipes : InOrder(p),
         UNCHANGED <<sent, queue, received, buf>>,
         \A p \in Pipes : (pc'[p] = "pass") <=> (pc[p] = "pass"),
         ws' = "open" => ws = "open", ws' # "none",
         tcp' \in {"none", "open"} => tcp \in {"none", "open"},
         NEW p \in Pipes
  PROVE  InOrder(p)'
<1>1. Queued(p)' = Queued(p) /\ Closing(p)' = Closing(p)
  BY DEF Queued, Closing
<1>2. Taken(p)' = Taken(p) /\ Passing(p)' = Passing(p)
  BY <1>1 DEF Taken, Passing
<1>3. Sink(p)' \in {"none", "open"} => Sink(p) \in {"none", "open"}
  BY DEF Sink
<1> QED BY <1>1, <1>2, <1>3 DEF InOrder

(* What the other pipe does is no matter.                                  *)
LEMMA OtherOrder ==
  ASSUME NEW p \in Pipes, InOrder(p), UNCHANGED <<ws, tcp>>,
         UNCHANGED <<sent[p], queue[p], received[p], buf[p], pc[p]>>
  PROVE  InOrder(p)'
<1>1. Queued(p)' = Queued(p) /\ Closing(p)' = Closing(p)
  BY DEF Queued, Closing
<1>2. Taken(p)' = Taken(p) /\ Passing(p)' = Passing(p) /\ Sink(p)' = Sink(p)
  BY <1>1 DEF Taken, Passing, Sink
<1> QED BY <1>1, <1>2 DEF InOrder

LEMMA TailOf ==
  ASSUME NEW S, NEW q \in Seq(S), q # <<>>
  PROVE  /\ Len(q) \in Nat \ {0} /\ Tail(q) \in Seq(S) /\ Len(Tail(q)) = Len(q) - 1
         /\ \A i \in 1 .. Len(q) - 1 : Tail(q)[i] = q[i + 1]
         /\ Tail(q) = <<>> <=> Len(q) = 1
         /\ Head(q) = q[1]
<1>1. Len(q) \in Nat \ {0} /\ Tail(q) \in Seq(S) /\ Len(Tail(q)) = Len(q) - 1 /\ Head(q) = q[1]
  BY EmptySeq, HeadTailProperties
<1>2. \A i \in 1 .. Len(q) - 1 : Tail(q)[i] = q[i + 1]
  OBVIOUS
<1>3. Tail(q) = <<>> <=> Len(q) = 1
  <2>1. \A s \in Seq(S) : s # <<>> => Len(s) \in Nat \ {0}
    BY EmptySeq
  <2>2. Tail(q) # <<>> => Len(Tail(q)) # 0
    BY <1>1, <2>1
  <2>3. Tail(q) = <<>> => Len(Tail(q)) = 0
    BY EmptySeq
  <2> QED BY <1>1, <2>2, <2>3
<1> QED BY <1>1, <1>2, <1>3

LEMMA ReceiveOrder ==
  ASSUME BrokerInv, NEW p \in Pipes, Receive(p)
  PROVE  InOrder(p)'
<1> DEFINE q == queue[p]
<1>1. /\ q \in Seq(Msgs \cup {Close}) /\ q # <<>> /\ Len(q) \in Nat \ {0}
      /\ sent[p] \in 0 .. MaxMsgs /\ received[p] \in Seq(Msgs) /\ Len(received[p]) \in Nat
  BY DEF BrokerInv, TypeOK, Receive
<1>2. /\ queue'[p] = Tail(q) /\ buf'[p] = q[1] /\ pc[p] = "receive"
      /\ pc'[p] = IF q[1] = Close THEN "hook" ELSE "pass"
      /\ UNCHANGED <<ws, tcp, sent, received>>
  BY DEF BrokerInv, TypeOK, Receive, Step, Pipe
<1>3. /\ Len(Tail(q)) = Len(q) - 1
      /\ Tail(q) = <<>> <=> Len(q) = 1
      /\ \A i \in 1 .. Len(q) - 1 : Tail(q)[i] = q[i + 1]
  BY <1>1, TailOf
<1>4. InOrder(p) /\ Passing(p) = 0
  BY <1>2 DEF BrokerInv, Passing
<1>5. /\ Queued(p) = IF Closing(p) THEN Len(q) - 1 ELSE Len(q)
      /\ Taken(p) = sent[p] - Queued(p)
      /\ Closing(p) <=> q[Len(q)] = Close
  BY <1>1 DEF Queued, Taken, Closing
<1>nat. Queued(p) \in Nat /\ Taken(p) \in Nat
  <2>1. Queued(p) \in Nat
    BY <1>1, <1>5
  <2>2. Queued(p) <= sent[p]
    BY <1>4 DEF InOrder
  <2> QED BY <1>1, <1>5, <2>1, <2>2
<1>  HIDE DEF q
<1>6. q[1] = Close <=> Queued(p) = 0
  <2>1. CASE Queued(p) = 0
    BY <1>1, <1>5, <2>1
  <2>2. CASE Queued(p) # 0
    <3>1. 1 \in 1 .. Queued(p) /\ Taken(p) \in Nat
      BY <1>nat, <2>2
    <3>2. q[1] = Taken(p) + 1
      BY <1>4, <3>1 DEF InOrder, q
    <3> QED BY <2>2, <3>1, <3>2 DEF Close
  <2> QED BY <2>1, <2>2
<1>7. CASE q[1] = Close
  <2>1. Len(q) = 1 /\ queue'[p] = <<>>
    BY <1>1, <1>2, <1>3, <1>5, <1>6, <1>7
  <2>2. ~Closing(p)' /\ Passing(p)' = 0
    BY <1>2, <1>7, <2>1 DEF Closing, Passing
  <2>3. Queued(p)' = 0
    BY <2>1, <2>2 DEF Queued
  <2>4. Taken(p)' = Taken(p)
    BY <1>2, <1>5, <1>6, <1>7, <2>3 DEF Taken
  <2>5. Sink(p)' = Sink(p)
    BY <1>2 DEF Sink
  <2> QED BY <1>1, <1>2, <1>4, <1>5, <1>7, <2>2, <2>3, <2>4, <2>5 DEF InOrder
<1>8. CASE q[1] # Close
  <2>1. Closing(p)' = Closing(p)
    <3>1. CASE Len(q) = 1
      <4>1. queue'[p] = <<>>
        BY <1>1, <1>2, <1>3, <3>1
      <4> QED BY <1>5, <1>8, <3>1, <4>1 DEF Closing
    <3>2. CASE Len(q) # 1
      <4>1. queue'[p] # <<>> /\ queue'[p][Len(queue'[p])] = q[Len(q)]
        BY <1>1, <1>2, <1>3, <3>2
      <4> QED BY <1>5, <4>1 DEF Closing
    <3> QED BY <3>1, <3>2
  <2>2. Queued(p)' = Queued(p) - 1 /\ Passing(p)' = 1
    BY <1>1, <1>2, <1>3, <1>5, <1>8, <2>1 DEF Queued, Passing
  <2>3. Taken(p)' = Taken(p) + 1
    BY <1>1, <1>2, <1>5, <2>2 DEF Taken
  <2>4. \A i \in 1 .. Queued(p)' : queue'[p][i] = Taken(p)' + i
    BY <1>1, <1>2, <1>3, <1>4, <1>5, <1>nat, <2>2, <2>3 DEF InOrder, q
  <2>5. buf'[p] = Taken(p)'
    <3>1. 1 \in 1 .. Queued(p)
      BY <1>nat, <1>6, <1>8
    <3>2. q[1] = Taken(p) + 1
      BY <1>4, <3>1 DEF InOrder, q
    <3> QED BY <1>2, <2>3, <3>2
  <2>6. Sink(p)' = Sink(p)
    BY <1>2 DEF Sink
  <2>7. Queued(p)' <= sent'[p] /\ (Closing(p)' => p = "read" /\ ws' # "open")
    BY <1>1, <1>2, <1>4, <1>5, <2>1, <2>2 DEF InOrder
  <2>8. /\ Len(received'[p]) <= Taken(p)' - Passing(p)'
        /\ Sink(p)' \in {"none", "open"} => Len(received'[p]) = Taken(p)' - Passing(p)'
        /\ \A i \in 1 .. Len(received'[p]) : received'[p][i] = i
    BY <1>1, <1>2, <1>4, <1>5, <2>2, <2>3, <2>6 DEF InOrder
  <2> QED BY <2>4, <2>5, <2>7, <2>8 DEF InOrder
<1> QED BY <1>7, <1>8

LEMMA PassOrder ==
  ASSUME BrokerInv, NEW p \in Pipes, Pass(p)
  PROVE  InOrder(p)' /\ buf[p] \in Msgs
<1>1. /\ sent[p] \in Nat /\ queue[p] \in Seq(Msgs \cup {Close}) /\ received[p] \in Seq(Msgs)
      /\ Len(received[p]) \in Nat /\ buf[p] \in Msgs \cup {Close}
  BY DEF BrokerInv, TypeOK
<1>2. /\ pc[p] = "pass" /\ pc'[p] = "poll" /\ UNCHANGED <<ws, tcp, sent, queue, buf>>
      /\ received'[p] = IF Sink(p) = "open" THEN Append(received[p], buf[p]) ELSE received[p]
  BY DEF BrokerInv, TypeOK, Pass, Pipe, Step
<1>3. InOrder(p) /\ Passing(p) = 1 /\ Passing(p)' = 0
  BY <1>2 DEF BrokerInv, Passing
<1>4. Queued(p)' = Queued(p) /\ Closing(p)' = Closing(p)
  BY <1>2 DEF Queued, Closing
<1>5. Taken(p)' = Taken(p) /\ Sink(p)' = Sink(p) /\ Taken(p) \in Int
  BY <1>1, <1>2, <1>4 DEF Taken, Sink, Queued
<1>6. buf[p] \in Msgs
  BY <1>1, <1>2, <1>3, <1>5 DEF InOrder, Close
<1>7. /\ Len(received'[p]) <= Taken(p)
      /\ Sink(p) \in {"none", "open"} => Len(received'[p]) = Taken(p)
      /\ \A i \in 1 .. Len(received'[p]) : received'[p][i] = i
  <2>1. CASE Sink(p) = "open"
    <3>1. Len(received[p]) = Taken(p) - 1 /\ buf[p] = Taken(p)
      BY <1>2, <1>3, <2>1 DEF InOrder
    <3>2. Len(received'[p]) = Len(received[p]) + 1
      BY <1>1, <1>2, <1>6, <2>1
    <3> QED BY <1>1, <1>2, <1>3, <1>5, <1>6, <2>1, <3>1, <3>2 DEF InOrder
  <2>2. CASE Sink(p) # "open"
    <3>1. Sink(p) # "none"
      BY <1>2 DEF BrokerInv, TypeOK, Dialled, Sink, Pipes
    <3> QED BY <1>1, <1>2, <1>3, <1>5, <2>2, <3>1 DEF InOrder
  <2> QED BY <2>1, <2>2
<1> QED BY <1>2, <1>3, <1>4, <1>5, <1>6, <1>7 DEF InOrder

LEMMA SendOrder ==
  ASSUME BrokerInv, NEW p \in Pipes, Send(p)
  PROVE  InOrder(p)'
<1> DEFINE q == queue[p]
<1>1. /\ q \in Seq(Msgs \cup {Close}) /\ Len(q) \in Nat /\ sent[p] \in Nat
      /\ pc[p] \in PipeSteps
  BY DEF BrokerInv, TypeOK
<1>2. /\ sent'[p] = sent[p] + 1 /\ queue'[p] = Append(q, sent[p] + 1)
      /\ UNCHANGED <<ws, tcp, received, buf, pc>> /\ Source(p) = "open"
  BY DEF BrokerInv, TypeOK, Send
<1>3. InOrder(p)
  BY DEF BrokerInv
<1>4. ~Closing(p)
  BY <1>2, <1>3 DEF InOrder, Source
<1> HIDE DEF q
<1>5. Queued(p) = Len(q) /\ Taken(p) = sent[p] - Len(q)
  BY <1>4 DEF Queued, Taken, q
<1>6. /\ queue'[p] # <<>> /\ Len(queue'[p]) = Len(q) + 1 /\ queue'[p][Len(q) + 1] = sent[p] + 1
      /\ \A i \in 1 .. Len(q) : queue'[p][i] = q[i]
  <2>1. sent[p] + 1 \in Msgs \cup {Close}
    BY DEF BrokerInv, TypeOK, Send, Msgs
  <2>2. queue'[p] \in Seq(Msgs \cup {Close}) /\ Len(queue'[p]) = Len(q) + 1
    BY <1>1, <1>2, <2>1
  <2>3. queue'[p] # <<>>
    BY <1>1, <2>2, EmptySeq
  <2> QED BY <1>1, <1>2, <2>1, <2>2, <2>3
<1>7. ~Closing(p)' /\ Queued(p)' = Len(q) + 1 /\ Taken(p)' = Taken(p)
  <2>1. ~Closing(p)'
    BY <1>1, <1>6 DEF Closing, Close
  <2>2. Queued(p)' = Len(q) + 1
    BY <1>6, <2>1 DEF Queued
  <2> QED BY <1>1, <1>2, <1>5, <2>1, <2>2 DEF Taken
<1>8. \A i \in 1 .. Queued(p)' : queue'[p][i] = Taken(p)' + i
  <2>1. \A i \in 1 .. Len(q) : q[i] = sent[p] - Len(q) + i
    BY <1>3, <1>5 DEF InOrder, q
  <2> QED BY <1>1, <1>5, <1>6, <1>7, <2>1
<1>9. Passing(p)' = Passing(p) /\ Sink(p)' = Sink(p)
  BY <1>2 DEF Passing, Sink
<1>10. Queued(p)' <= sent'[p]
  BY <1>1, <1>2, <1>3, <1>5, <1>7 DEF InOrder
<1> QED BY <1>2, <1>3, <1>7, <1>8, <1>9, <1>10 DEF InOrder

LEMMA CloseOrder ==
  ASSUME BrokerInv, BrowserCloses, NEW p \in Pipes
  PROVE  InOrder(p)'
<1>1. /\ queue[p] \in Seq(Msgs \cup {Close}) /\ Len(queue[p]) \in Nat /\ InOrder(p)
      /\ ws = "open" /\ ws' = "closing" /\ UNCHANGED <<pc, buf, tcp, sent, received>>
      /\ queue'[p] = IF p = "read" THEN Append(queue[p], Close) ELSE queue[p]
  BY DEF BrokerInv, TypeOK, BrowserCloses
<1>2. Passing(p)' = Passing(p) /\ (Sink(p)' \in {"none", "open"} => Sink(p) \in {"none", "open"})
  BY <1>1 DEF Passing, Sink
<1>3. ~Closing(p)
  BY <1>1 DEF InOrder
<1>4. CASE p = "read"
  <2>1. /\ queue'[p] \in Seq(Msgs \cup {Close}) /\ Len(queue'[p]) = Len(queue[p]) + 1
        /\ queue'[p][Len(queue[p]) + 1] = Close
        /\ \A i \in 1 .. Len(queue[p]) : queue'[p][i] = queue[p][i]
    BY <1>1, <1>4
  <2>2. queue'[p] # <<>>
    BY <1>1, <2>1, EmptySeq
  <2>3. Closing(p)'
    BY <2>1, <2>2 DEF Closing
  <2>4. Queued(p)' = Queued(p) /\ Queued(p) = Len(queue[p])
    BY <1>1, <1>3, <2>1, <2>3 DEF Queued
  <2>5. Taken(p)' = Taken(p)
    BY <1>1, <2>4 DEF Taken
  <2>6. \A i \in 1 .. Queued(p)' : queue'[p][i] = Taken(p)' + i
    BY <1>1, <2>1, <2>4, <2>5 DEF InOrder
  <2> QED BY <1>1, <1>2, <1>4, <2>4, <2>5, <2>6 DEF InOrder
<1>5. CASE p # "read"
  <2>1. Queued(p)' = Queued(p) /\ Closing(p)' = Closing(p)
    BY <1>1, <1>5 DEF Queued, Closing
  <2>2. Taken(p)' = Taken(p)
    BY <1>1, <2>1 DEF Taken
  <2> QED BY <1>1, <1>2, <1>3, <1>5, <2>1, <2>2 DEF InOrder
<1> QED BY <1>4, <1>5

LEMMA OrderStep == ASSUME BrokerInv, Next, NEW p \in Pipes PROVE InOrder(p)'
<1> USE DEF BrokerInv
<1>1. CASE HandlerStep
  <2>1. UNCHANGED <<sent, queue, received, buf>>
    BY <1>1 DEF HandlerStep, CheckSession, CheckDestination, Dial, Spawn, SetCloseHandler,
       SelectDone, Park, CloseDone, CloseWS, CloseTCP, wire, pipes
  <2>2. \A q \in Pipes : (pc'[q] = "pass") <=> (pc[q] = "pass")
    BY <1>1 DEF HandlerStep, CheckSession, CheckDestination, Dial, Spawn, SetCloseHandler,
       SelectDone, Park, CloseDone, CloseWS, CloseTCP, wire, pipes, Handler, WhyDone, Starting
  <2>3. /\ ws' = "open" => ws = "open"
        /\ ws' # "none"
        /\ tcp' \in {"none", "open"} => tcp \in {"none", "open"}
    BY <1>1 DEF HandlerStep, CheckSession, CheckDestination, Dial, Spawn, SetCloseHandler,
       SelectDone, Park, CloseDone, CloseWS, CloseTCP, wire, Handler, Refuse, Dialled,
       WhyDone, Starting, TypeOK
  <2> QED BY <2>1, <2>2, <2>3, SameOrder
<1>2. ASSUME NEW q \in Pipes, PipeStep(q) PROVE InOrder(p)'
  <2>1. CASE Receive(q)
    <3>1. CASE p = q
      BY <2>1, <3>1, ReceiveOrder
    <3>2. CASE p # q
      BY <2>1, <3>2, OtherOrder DEF Receive, Step, TypeOK
    <3> QED BY <3>1, <3>2
  <2>2. CASE Pass(q)
    <3>1. CASE p = q
      BY <2>2, <3>1, PassOrder
    <3>2. CASE p # q
      BY <2>2, <3>2, OtherOrder DEF Pass, Step, TypeOK
    <3> QED BY <3>1, <3>2
  <2>3. CASE Poll(q) \/ ReceiveError(q) \/ Report(q) \/ (q = "read" /\ OnClose)
    <3>1. UNCHANGED <<ws, tcp, sent, queue, received, buf>>
      BY <2>3 DEF Poll, ReceiveError, Report, OnClose, wire
    <3>2. \A r \in Pipes : (pc'[r] = "pass") <=> (pc[r] = "pass")
      BY <2>3 DEF Poll, ReceiveError, Report, OnClose, Pipe, Step, Reporting, TypeOK, Pipes
    <3>3. ws # "none"
      BY DEF TypeOK
    <3> QED BY <3>1, <3>2, <3>3, SameOrder
  <2> QED BY <1>2, <2>1, <2>2, <2>3 DEF PipeStep
<1>3. CASE Peers
  <2>1. CASE BrowserCloses
    BY <2>1, CloseOrder
  <2>2. CASE Lose
    <3>1. /\ UNCHANGED <<pc, buf, sent, queue, received>>
          /\ ws' = "open" => ws = "open"
          /\ ws' # "none"
          /\ tcp' \in {"none", "open"} => tcp \in {"none", "open"}
      BY <2>2 DEF Lose, TypeOK
    <3> QED BY <3>1, SameOrder
  <2>3. ASSUME NEW q \in Pipes, Send(q) PROVE InOrder(p)'
    <3>1. CASE p = q
      BY <2>3, <3>1, SendOrder
    <3>2. CASE p # q
      BY <2>3, <3>2, OtherOrder DEF Send, TypeOK
    <3> QED BY <3>1, <3>2
  <2> QED BY <1>3, <2>1, <2>2, <2>3 DEF Peers
<1> QED BY <1>1, <1>2, <1>3 DEF Next

----------------------------------------------------------------------------
LEMMA TypeStep == BrokerInv /\ Next => TypeOK'
<1> SUFFICES ASSUME BrokerInv, Next PROVE TypeOK'
  OBVIOUS
<1> USE DEF BrokerInv, TypeOK
<1>1. CASE HandlerStep
  <2>1. UNCHANGED <<caller, crashed, buf, sent, queue, received>>
    BY <1>1 DEF HandlerStep, CheckSession, CheckDestination, Dial, Spawn, SetCloseHandler,
       SelectDone, Park, CloseDone, CloseWS, CloseTCP, wire, pipes
  <2>2. h' \in HandlerSteps
    BY <1>1 DEF HandlerStep, CheckSession, CheckDestination, Dial, Spawn, SetCloseHandler,
       SelectDone, Park, CloseDone, CloseWS, CloseTCP, Refuse, HandlerSteps
  <2>3. /\ hooked' \in BOOLEAN /\ done' \in BOOLEAN
        /\ ws' \in {"open", "closing", "lost", "closed"}
        /\ tcp' \in {"none", "open", "lost", "closed"}
    BY <1>1 DEF HandlerStep, CheckSession, CheckDestination, Dial, Spawn, SetCloseHandler,
       SelectDone, Park, CloseDone, CloseWS, CloseTCP, Refuse, wire
  <2>4. pc' \in [Pipes -> PipeSteps]
    BY <1>1 DEF HandlerStep, CheckSession, CheckDestination, Dial, Spawn, SetCloseHandler,
       SelectDone, Park, CloseDone, CloseWS, CloseTCP, pipes, PipeSteps
  <2> QED BY <2>1, <2>2, <2>3, <2>4
<1>2. ASSUME NEW p \in Pipes, PipeStep(p) PROVE TypeOK'
  <2>1. CASE Receive(p)
    <3>1. Head(queue[p]) \in Msgs \cup {Close} /\ Tail(queue[p]) \in Seq(Msgs \cup {Close})
      BY <2>1, HeadTailProperties DEF Receive
    <3>2. /\ buf' \in [Pipes -> Msgs \cup {Close}] /\ queue' \in [Pipes -> Seq(Msgs \cup {Close})]
          /\ pc' \in [Pipes -> PipeSteps]
      BY <2>1, <3>1 DEF Receive, Step, PipeSteps
    <3> QED BY <2>1, <3>2 DEF Receive
  <2>2. CASE Pass(p)
    <3>1. buf[p] \in Msgs
      BY <2>2, PassOrder
    <3>2. received' \in [Pipes -> Seq(Msgs)]
      BY <2>2, <3>1 DEF Pass
    <3>3. pc' \in [Pipes -> PipeSteps]
      BY <2>2 DEF Pass, Step, PipeSteps
    <3> QED BY <2>2, <3>2, <3>3 DEF Pass
  <2>3. CASE Poll(p) \/ ReceiveError(p) \/ Report(p) \/ OnClose
    BY <2>3 DEF Poll, ReceiveError, Report, OnClose, Step, wire, HandlerSteps, PipeSteps, Pipes
  <2> QED BY <1>2, <2>1, <2>2, <2>3 DEF PipeStep
<1>3. CASE Peers
  <2>1. CASE BrowserCloses
    <3>1. Append(queue["read"], Close) \in Seq(Msgs \cup {Close})
      BY DEF Pipes
    <3>2. queue' \in [Pipes -> Seq(Msgs \cup {Close})]
      BY <2>1, <3>1 DEF BrowserCloses
    <3> QED BY <2>1, <3>2 DEF BrowserCloses
  <2>2. CASE Lose
    BY <2>2 DEF Lose
  <2>3. ASSUME NEW p \in Pipes, Send(p) PROVE TypeOK'
    <3>1. sent[p] + 1 \in Msgs /\ sent[p] + 1 \in 0 .. MaxMsgs
      BY <2>3 DEF Send, Msgs
    <3>2. sent' \in [Pipes -> 0 .. MaxMsgs] /\ sent'[p] = sent[p] + 1
      BY <2>3, <3>1 DEF Send
    <3>3. queue' \in [Pipes -> Seq(Msgs \cup {Close})]
      BY <2>3, <3>1, <3>2 DEF Send
    <3> QED BY <2>3, <3>2, <3>3 DEF Send
  <2> QED BY <1>3, <2>1, <2>2, <2>3 DEF Peers
<1> QED BY <1>1, <1>2, <1>3 DEF Next

LEMMA WhyStep == BrokerInv /\ Next => Dialled' /\ WhyDone' /\ CrashTakesBothEnds'
<1> SUFFICES ASSUME BrokerInv, Next PROVE Dialled' /\ WhyDone' /\ CrashTakesBothEnds'
  OBVIOUS
<1> USE DEF BrokerInv, Dialled, WhyDone, Starting, Over, AgentGone, CrashTakesBothEnds
<1>t. /\ pc \in [Pipes -> PipeSteps] /\ h \in HandlerSteps /\ Pipes = {"read", "write"}
      /\ tcp \in {"none", "open", "lost", "closed"} /\ done \in BOOLEAN /\ hooked \in BOOLEAN
      /\ crashed \in BOOLEAN
  BY DEF TypeOK, Pipes
<1>1. CASE CheckSession \/ CheckDestination \/ Dial \/ Spawn
  BY <1>1, <1>t DEF CheckSession, CheckDestination, Dial, Spawn, Handler, Refuse, wire
<1>2. CASE SetCloseHandler \/ SelectDone \/ Park
  BY <1>2, <1>t DEF SetCloseHandler, SelectDone, Park, Handler, pipes, wire
<1>3. CASE CloseDone
  BY <1>3, <1>t DEF CloseDone, Handler, pipes, wire
<1>4. CASE CloseWS \/ CloseTCP
  BY <1>4, <1>t DEF CloseWS, CloseTCP, Handler
<1>5. ASSUME NEW p \in Pipes, PipeStep(p)
      PROVE  Dialled' /\ WhyDone' /\ CrashTakesBothEnds'
  <2>1. CASE Poll(p)
    BY <1>t, <2>1 DEF Poll, Pipe, Step, wire
  <2>2. CASE Receive(p)
    BY <1>t, <2>2 DEF Receive, Pipe, Step
  <2>3. CASE ReceiveError(p)
    BY <1>t, <2>3 DEF ReceiveError, Pipe, Step, Source, wire
  <2>4. CASE Pass(p)
    BY <1>t, <2>4 DEF Pass, Pipe, Step
  <2>5. CASE Report(p)
    BY <1>t, <2>5 DEF Report, Reporting, wire
  <2>6. CASE p = "read" /\ OnClose
    BY <1>t, <2>6 DEF OnClose, Pipe, Step, wire
  <2> QED BY <1>5, <2>1, <2>2, <2>3, <2>4, <2>5, <2>6 DEF PipeStep
<1>6. CASE Peers
  BY <1>6, <1>t DEF Peers, BrowserCloses, Lose, Send
<1> QED BY <1>1, <1>2, <1>3, <1>4, <1>5, <1>6 DEF Next, HandlerStep

LEMMA BrokerInvariant == Spec => []BrokerInv
<1>1. BrokerInv /\ [Next]_vars => BrokerInv'
  <2> SUFFICES ASSUME BrokerInv, [Next]_vars PROVE BrokerInv'
    OBVIOUS
  <2>1. CASE Next
    <3>1. \A p \in Pipes : InOrder(p)'
      BY <2>1, OrderStep
    <3> QED BY <2>1, <3>1, TypeStep, WhyStep DEF BrokerInv
  <2>2. CASE UNCHANGED vars
    BY <2>2 DEF vars, BrokerInv, TypeOK, InOrder, Closing, Queued, Taken, Passing, Sink,
       Dialled, WhyDone, Starting, Over, AgentGone, CrashTakesBothEnds
  <2> QED BY <2>1, <2>2
<1> QED BY <1>1, BrokerInit, PTL DEF Spec

(* The broker keeps its types: what readPipe passes on is never a close    *)
(* frame.                                                                  *)
THEOREM BrokerTypes == Spec => []TypeOK
<1>1. BrokerInv => TypeOK
  BY DEF BrokerInv
<1> QED BY <1>1, BrokerInvariant, PTL

(* For any number of messages each way: both sides receive a prefix of     *)
(* what the other has sent.                                                *)
THEOREM Delivery == Spec => []PrefixDelivered
<1>1. BrokerInv => PrefixDelivered
  <2> SUFFICES ASSUME BrokerInv, NEW p \in Pipes
               PROVE  Len(received[p]) <= sent[p] /\ \A i \in 1 .. Len(received[p]) : received[p][i] = i
    BY DEF PrefixDelivered
  <2>1. InOrder(p) /\ sent[p] \in Nat /\ Len(received[p]) \in Nat /\ Len(queue[p]) \in Nat
    BY DEF BrokerInv, TypeOK
  <2>2. Queued(p) \in Int /\ (Closing(p) => Queued(p) = Len(queue[p]) - 1)
    BY <2>1 DEF Queued
  <2>3. Queued(p) >= 0
    <3>1. CASE Closing(p)
      <4>1. queue[p] # <<>> /\ queue[p] \in Seq(Msgs \cup {Close})
        BY <3>1 DEF Closing, BrokerInv, TypeOK
      <4>2. Len(queue[p]) # 0
        BY <4>1, EmptySeq
      <4> QED BY <2>1, <2>2, <3>1, <4>2
    <3>2. CASE ~Closing(p)
      BY <2>1, <3>2 DEF Queued
    <3> QED BY <3>1, <3>2
  <2>4. Passing(p) \in {0, 1} /\ Taken(p) = sent[p] - Queued(p)
    BY DEF Passing, Taken
  <2> QED BY <2>1, <2>2, <2>3, <2>4 DEF InOrder
<1> QED BY <1>1, BrokerInvariant, PTL

(* A tunnel ends the process only when the agent's connection has ended    *)
(* too, and its handler panics only after readPipe saw the browser's end.  *)
THEOREM CrashNeedsBothEnds == Spec => []CrashTakesBothEnds
<1>1. BrokerInv => CrashTakesBothEnds
  BY DEF BrokerInv
<1> QED BY <1>1, BrokerInvariant, PTL

----------------------------------------------------------------------------
(***************************************************************************)
(* The ends of a tunnel.  A close frame is in the queue or in readPipe's   *)
(* hands until readPipe has reported it; when the handler finds done       *)
(* closed, the browser has gone; and it returns with both connections      *)
(* closed, or without having started the pipes.                            *)
(***************************************************************************)
CloseSeen == ws = "closing" => Closing("read") \/ pc["read"] \in {"hook", "report", "exited"}

BrowserGone ==
  /\ pc["read"] = "hook" => ws # "open"
  /\ done /\ h \in {"hook", "select", "parked", "closeDone"} => ws # "open"
  /\ h = "panicked" => ws # "open"

BothClosed ==
  /\ h = "closeTCP" => ws = "closed"
  /\ h = "returned" => \/ \A p \in Pipes : pc[p] = "none"
                       \/ ws = "closed" /\ tcp = "closed"

AtWork ==
  /\ h = "parked" => ~done
  /\ h \in {"hook", "select", "parked"} /\ ~done =>
       \A p \in Pipes : pc[p] \notin {"none", "exited"}

EndInv == BrokerInv /\ CloseSeen /\ BrowserGone /\ BothClosed /\ AtWork

(* A close frame is the last of its queue, and the only one that makes     *)
(* readPipe call the close handler.                                        *)
LEMMA ReceiveCloses ==
  ASSUME BrokerInv, NEW p \in Pipes, Receive(p)
  PROVE  /\ Head(queue[p]) = Close => Closing(p)
         /\ Closing(p) /\ Head(queue[p]) # Close => Closing(p)'
<1>1. /\ queue[p] \in Seq(Msgs \cup {Close}) /\ queue[p] # <<>> /\ queue'[p] = Tail(queue[p])
      /\ sent[p] \in 0 .. MaxMsgs
  BY DEF BrokerInv, TypeOK, Receive
<1> DEFINE q == queue[p]
<1>2. /\ Len(q) \in Nat \ {0} /\ Tail(q) \in Seq(Msgs \cup {Close}) /\ Len(Tail(q)) = Len(q) - 1
      /\ \A i \in 1 .. Len(q) - 1 : Tail(q)[i] = q[i + 1]
      /\ Tail(q) = <<>> <=> Len(q) = 1
      /\ Head(q) = q[1]
  BY <1>1, TailOf
<1>3. ASSUME ~Closing(p) PROVE q[1] # Close
  <2>1. Queued(p) = Len(q) /\ Taken(p) = sent[p] - Len(q)
    BY <1>3 DEF Queued, Taken
  <2>2. InOrder(p)
    BY DEF BrokerInv
  <2>3. q[1] = Taken(p) + 1 /\ Len(q) <= sent[p]
    BY <1>2, <2>1, <2>2 DEF InOrder
  <2> QED BY <1>1, <1>2, <2>1, <2>3 DEF Close
<1>4. ASSUME Closing(p), q[1] # Close PROVE Closing(p)'
  <2>1. q[Len(q)] = Close
    BY <1>4 DEF Closing
  <2>2. Len(q) # 1
    BY <1>4, <2>1
  <2>3. Tail(q) # <<>> /\ Tail(q)[Len(q) - 1] = Close
    BY <1>2, <2>1, <2>2
  <2> QED BY <1>1, <1>2, <2>3 DEF Closing
<1> QED BY <1>2, <1>3, <1>4

LEMMA EndInit == Init => EndInv
<1>1. Init => CloseSeen /\ BrowserGone /\ BothClosed /\ AtWork
  BY DEF Init, CloseSeen, BrowserGone, BothClosed, AtWork, Pipes
<1> QED BY <1>1, BrokerInit DEF EndInv

LEMMA EndStep == EndInv /\ Next => CloseSeen' /\ BrowserGone' /\ BothClosed' /\ AtWork'
<1> SUFFICES ASSUME EndInv, Next
             PROVE  CloseSeen' /\ BrowserGone' /\ BothClosed' /\ AtWork'
  OBVIOUS
<1> USE DEF EndInv, BrowserGone, BothClosed, AtWork
<1>t. /\ pc \in [Pipes -> PipeSteps] /\ h \in HandlerSteps /\ Pipes = {"read", "write"}
      /\ ws \in {"open", "closing", "lost", "closed"}
      /\ tcp \in {"none", "open", "lost", "closed"} /\ done \in BOOLEAN /\ hooked \in BOOLEAN
      /\ crashed \in BOOLEAN /\ queue \in [Pipes -> Seq(Msgs \cup {Close})]
  BY DEF BrokerInv, TypeOK, Pipes
<1>w. WhyDone /\ Dialled
  BY DEF BrokerInv
<1>0. ASSUME UNCHANGED <<pc, queue>>, ws' = "closing" => ws = "closing" PROVE CloseSeen'
  BY <1>0 DEF CloseSeen, Closing
<1>1. CASE HandlerStep
  <2>1. CloseSeen'
    <3>1. CASE Spawn
      <4>1. pc["read"] = "none"
        BY <1>t, <1>w, <3>1 DEF WhyDone, Starting, Spawn, Handler
      <4> QED BY <3>1, <4>1 DEF Spawn, wire, CloseSeen, Closing
    <3>2. CASE ~Spawn
      BY <1>0, <1>1, <3>2 DEF HandlerStep, CheckSession, CheckDestination, Dial, SetCloseHandler,
         SelectDone, Park, CloseDone, CloseWS, CloseTCP, Refuse, wire, pipes
    <3> QED BY <3>1, <3>2
  <2>2. CASE CheckSession \/ CheckDestination \/ Dial \/ Spawn
    <3>1. ~done /\ \A p \in Pipes : pc[p] = "none"
      BY <1>t, <1>w, <2>2 DEF WhyDone, Starting, Over, CheckSession, CheckDestination, Dial,
         Spawn, Handler
    <3> QED BY <1>t, <2>1, <2>2, <3>1 DEF CheckSession, CheckDestination, Dial, Spawn, Handler,
            Refuse, wire
  <2>3. CASE SetCloseHandler \/ SelectDone \/ Park
    BY <1>t, <2>1, <2>3 DEF SetCloseHandler, SelectDone, Park, Handler, pipes, wire
  <2>4. CASE CloseDone
    BY <1>t, <2>1, <2>4 DEF CloseDone, Handler, pipes, wire
  <2>5. CASE CloseWS \/ CloseTCP
    BY <1>t, <2>1, <2>5 DEF CloseWS, CloseTCP, Handler
  <2> QED BY <1>1, <2>2, <2>3, <2>4, <2>5 DEF HandlerStep
<1>2. ASSUME NEW p \in Pipes, PipeStep(p)
      PROVE  CloseSeen' /\ BrowserGone' /\ BothClosed' /\ AtWork'
  <2>1. CASE Poll(p)
    BY <1>t, <2>1 DEF Poll, Pipe, Step, wire, CloseSeen, Closing
  <2>2. CASE Receive(p)
    <3>1. /\ pc[p] = "receive" /\ UNCHANGED <<h, done, ws, tcp>>
          /\ pc' = [pc EXCEPT ![p] = IF Head(queue[p]) = Close THEN "hook" ELSE "pass"]
          /\ queue' = [queue EXCEPT ![p] = Tail(@)]
      BY <2>2 DEF Receive, Pipe, Step
    <3>2. pc'[p] \in {"hook", "pass"} /\ \A q \in Pipes : q # p => pc'[q] = pc[q]
      BY <1>t, <3>1
    <3>3. CloseSeen'
      <4>1. CASE p = "read"
        <5>1. Closing(p) => Closing(p)' \/ pc'[p] = "hook"
          BY <1>t, <2>2, <3>1, ReceiveCloses
        <5> QED BY <3>1, <4>1, <5>1 DEF CloseSeen
      <4>2. CASE p = "write"
        BY <1>t, <3>1, <3>2, <4>2 DEF CloseSeen, Closing
      <4> QED BY <1>t, <4>1, <4>2
    <3>4. pc'["read"] = "hook" => ws # "open"
      <4>1. CASE p = "read"
        <5>1. pc'[p] = "hook" => Closing(p)
          BY <1>t, <2>2, <3>1, ReceiveCloses
        <5>2. Closing(p) => ws # "open"
          BY DEF BrokerInv, InOrder
        <5> QED BY <4>1, <5>1, <5>2
      <4>2. CASE p = "write"
        BY <1>t, <3>2, <4>2
      <4> QED BY <1>t, <4>1, <4>2
    <3> QED BY <1>t, <3>1, <3>2, <3>3, <3>4
  <2>3. CASE ReceiveError(p)
    BY <1>t, <2>3 DEF ReceiveError, Pipe, Step, Source, wire, CloseSeen, Closing
  <2>4. CASE Pass(p)
    BY <1>t, <2>4 DEF Pass, Pipe, Step, CloseSeen, Closing
  <2>5. CASE Report(p)
    BY <1>t, <2>5 DEF Report, Reporting, wire, CloseSeen, Closing, WhyDone, BrokerInv
  <2>6. CASE p = "read" /\ OnClose
    <3>1. CloseSeen'
      BY <1>t, <2>6 DEF OnClose, Pipe, Step, wire, CloseSeen, Closing
    <3> QED BY <1>t, <2>6, <3>1 DEF OnClose, Pipe, Step, wire
  <2> QED BY <1>2, <2>1, <2>2, <2>3, <2>4, <2>5, <2>6 DEF PipeStep
<1>3. CASE Peers
  <2>1. CASE BrowserCloses
    <3>1. /\ queue'["read"] = Append(queue["read"], Close) /\ ws = "open" /\ ws' = "closing"
          /\ UNCHANGED <<h, done, pc, tcp>>
      BY <1>t, <2>1 DEF BrowserCloses
    <3>2. Closing("read")'
      <4>1. queue["read"] \in Seq(Msgs \cup {Close})
        BY <1>t
      <4>2. /\ Len(queue'["read"]) = Len(queue["read"]) + 1 /\ Len(queue["read"]) \in Nat
            /\ queue'["read"] \in Seq(Msgs \cup {Close})
            /\ queue'["read"][Len(queue["read"]) + 1] = Close
        BY <3>1, <4>1
      <4>3. queue'["read"] # <<>>
        BY <4>2, EmptySeq
      <4> QED BY <4>2, <4>3 DEF Closing
    <3> QED BY <1>t, <3>1, <3>2 DEF CloseSeen
  <2>2. CASE Lose
    <3>1. CloseSeen'
      BY <1>0, <2>2 DEF Lose
    <3> QED BY <1>t, <2>2, <3>1 DEF Lose
  <2>3. ASSUME NEW p \in Pipes, Send(p)
        PROVE  CloseSeen' /\ BrowserGone' /\ BothClosed' /\ AtWork'
    <3>1. UNCHANGED <<h, done, pc, ws, tcp>>
      BY <2>3 DEF Send
    <3>2. CloseSeen'
      <4>1. CASE p = "read"
        BY <2>3, <3>1, <4>1 DEF Send, Source, CloseSeen
      <4>2. CASE p = "write"
        BY <1>t, <2>3, <3>1, <4>2 DEF Send, CloseSeen, Closing
      <4> QED BY <1>t, <4>1, <4>2
    <3> QED BY <3>1, <3>2
  <2> QED BY <1>3, <2>1, <2>2, <2>3 DEF Peers
<1> QED BY <1>1, <1>2, <1>3 DEF Next

LEMMA EndInvariant == Spec => []EndInv
<1>1. EndInv /\ [Next]_vars => (CloseSeen /\ BrowserGone /\ BothClosed /\ AtWork)'
  <2>1. CASE Next
    BY <2>1, EndStep
  <2>2. CASE UNCHANGED vars
    BY <2>2 DEF vars, EndInv, CloseSeen, Closing, BrowserGone, BothClosed, AtWork
  <2> QED BY <2>1, <2>2
<1>2. Init => CloseSeen /\ BrowserGone /\ BothClosed /\ AtWork
  BY EndInit DEF EndInv
<1>3. EndInv <=> BrokerInv /\ (CloseSeen /\ BrowserGone /\ BothClosed /\ AtWork)
  BY DEF EndInv
<1> QED BY <1>1, <1>2, <1>3, BrokerInvariant, PTL DEF Spec

(* The handler never waits with nobody left to wake it: as long as done is *)
(* open, readPipe and writePipe are both at work, and a close frame the    *)
(* browser has sent is still to be read or already noticed.                *)
THEOREM NobodyWaitsUnwatched == Spec => []WaitingIsWatched
<1>1. EndInv => WaitingIsWatched
  BY DEF EndInv, CloseSeen, AtWork, WaitingIsWatched, Pipes
<1> QED BY <1>1, EndInvariant, PTL

----------------------------------------------------------------------------
(* SerialBroker implements SerialTunnel. *)

LEMMA InitTunnel == Init => Tunnel!Init
<1> SUFFICES ASSUME Init PROVE Tunnel!Init
  OBVIOUS
<1>1. CutLines = {}
  BY DEF Init, CutLines, Sink, Ended, Pipes
<1> QED BY <1>1 DEF Init, Tunnel!Init

(* A line that is cut stays cut: connections do not come back, and what    *)
(* has returned or panicked does not go on.                                *)
LEMMA CutForGood ==
  ASSUME EndInv, Next
  PROVE  CutLines \subseteq CutLines'
<1>t. /\ h \in HandlerSteps /\ crashed \in BOOLEAN
      /\ ws \in {"open", "closing", "lost", "closed"}
      /\ tcp \in {"none", "open", "lost", "closed"} /\ Dialled
  BY DEF EndInv, BrokerInv, TypeOK
<1>1. /\ ws' \in {"none", "open"} => ws \in {"none", "open"}
      /\ tcp' \in {"none", "open"} => tcp \in {"none", "open"}
      /\ Ended => Ended'
  <2>1. CASE HandlerStep
    BY <1>t, <2>1 DEF HandlerStep, CheckSession, CheckDestination, Dial, Spawn, SetCloseHandler,
       SelectDone, Park, CloseDone, CloseWS, CloseTCP, Refuse, Handler, wire, Ended, Dialled
  <2>2. ASSUME NEW p \in Pipes, PipeStep(p)
        PROVE  UNCHANGED <<ws, tcp>> /\ (Ended => Ended')
    BY <1>t, <2>2 DEF PipeStep, Poll, Receive, ReceiveError, Pass, Report, OnClose, Pipe, wire, Ended
  <2>3. CASE Peers
    BY <1>t, <2>3 DEF Peers, BrowserCloses, Lose, Send, Ended
  <2> QED BY <2>1, <2>2, <2>3 DEF Next
<1>2. \A p \in Pipes : Sink(p)' \in {"none", "open"} => Sink(p) \in {"none", "open"}
  BY <1>1 DEF Sink
<1> QED BY <1>1, <1>2 DEF CutLines

(* A step that sends and delivers nothing can only cut. *)
LEMMA StepCuts ==
  ASSUME EndInv, Next, UNCHANGED <<sent, received>>
  PROVE  Tunnel!Cut
<1>1. CutLines' \in SUBSET Pipes
  BY DEF CutLines
<1> QED BY <1>1, CutForGood DEF Tunnel!Cut

(* A write that can succeed is one of a tunnel that has not ended.         *)
LEMMA WritesAreEarly ==
  ASSUME EndInv, NEW p \in Pipes, Pass(p), Sink(p) = "open"
  PROVE  ~Ended
<1>1. pc[p] = "pass" /\ ~crashed /\ p \in {"read", "write"}
  BY DEF Pass, Pipe, Pipes
<1>2. h # "returned"
  BY <1>1 DEF EndInv, BothClosed, Sink, Pipes
<1>3. h # "panicked"
  BY <1>1 DEF EndInv, BrokerInv, BrowserGone, CrashTakesBothEnds, Sink
<1> QED BY <1>1, <1>2, <1>3 DEF Ended

LEMMA PassDelivers ==
  ASSUME EndInv, NEW p \in Pipes, Pass(p), Sink(p) = "open"
  PROVE  Tunnel!Deliver(p)
<1>1. /\ pc[p] = "pass" /\ sent[p] \in Nat /\ Len(queue[p]) \in Nat
      /\ queue[p] \in Seq(Msgs \cup {Close}) /\ InOrder(p) /\ received \in [Pipes -> Seq(Msgs)]
      /\ Len(received[p]) \in Nat
  BY DEF EndInv, BrokerInv, TypeOK, Pass, Pipe
<1>2. /\ received' = [received EXCEPT ![p] = Append(@, buf[p])]
      /\ UNCHANGED <<h, crashed, ws, tcp, sent>>
  BY DEF Pass
<1>3. Queued(p) \in Nat
  <2>1. CASE Closing(p)
    <3>1. Len(queue[p]) # 0
      BY <1>1, <2>1, EmptySeq DEF Closing
    <3> QED BY <1>1, <2>1, <3>1 DEF Queued
  <2>2. CASE ~Closing(p)
    BY <1>1, <2>2 DEF Queued
  <2> QED BY <2>1, <2>2
<1>4. buf[p] = Len(received[p]) + 1 /\ Len(received[p]) < sent[p]
  <2>1. Passing(p) = 1 /\ Taken(p) = sent[p] - Queued(p) /\ buf[p] = Taken(p)
    BY <1>1 DEF Passing, Taken, InOrder
  <2>2. Len(received[p]) = Taken(p) - Passing(p)
    BY <1>1 DEF InOrder
  <2> QED BY <1>1, <1>3, <2>1, <2>2
<1>5. received' = [received EXCEPT ![p] = Append(@, Len(@) + 1)]
  BY <1>2, <1>4
<1>6. CutLines' = CutLines
  BY <1>2 DEF CutLines, Sink, Ended
<1>7. p \notin CutLines
  BY WritesAreEarly DEF CutLines
<1> QED BY <1>2, <1>4, <1>5, <1>6, <1>7 DEF Tunnel!Deliver

LEMMA StepTunnel == EndInv /\ [Next]_vars => [Tunnel!Next]_Tunnel!tunnelVars
<1> SUFFICES ASSUME EndInv, [Next]_vars
             PROVE  Tunnel!Next \/ UNCHANGED <<sent, received, CutLines>>
  BY DEF Tunnel!tunnelVars
<1>1. CASE UNCHANGED vars
  BY <1>1 DEF vars, CutLines, Sink, Ended
<1>2. ASSUME NEW p \in Pipes, Send(p) PROVE Tunnel!Next
  <2>1. UNCHANGED <<h, crashed, ws, tcp, received>>
    BY <1>2 DEF Send
  <2>2. CutLines' = CutLines
    BY <2>1 DEF CutLines, Sink, Ended
  <2>3. Tunnel!Send(p)
    BY <1>2, <2>1, <2>2 DEF Send, Tunnel!Send
  <2> QED BY <2>3 DEF Tunnel!Next
<1>3. ASSUME NEW p \in Pipes, Pass(p), Sink(p) = "open" PROVE Tunnel!Next
  BY <1>3, PassDelivers DEF Tunnel!Next
<1>4. ASSUME Next, UNCHANGED <<sent, received>> PROVE Tunnel!Next
  BY <1>4, StepCuts DEF Tunnel!Next
<1>5. CASE HandlerStep
  BY <1>4, <1>5 DEF Next, HandlerStep, CheckSession, CheckDestination, Dial, Spawn,
     SetCloseHandler, SelectDone, Park, CloseDone, CloseWS, CloseTCP, wire
<1>6. ASSUME NEW p \in Pipes, PipeStep(p)
      PROVE  Tunnel!Next \/ UNCHANGED <<sent, received, CutLines>>
  <2>1. CASE Pass(p)
    <3>1. CASE Sink(p) = "open"
      BY <1>3, <2>1, <3>1
    <3>2. CASE Sink(p) # "open"
      BY <1>4, <1>6, <2>1, <3>2 DEF Next, Pass
    <3> QED BY <3>1, <3>2
  <2>2. CASE Poll(p) \/ Receive(p) \/ ReceiveError(p) \/ Report(p) \/ (p = "read" /\ OnClose)
    BY <1>4, <1>6, <2>2 DEF Next, Poll, Receive, ReceiveError, Report, OnClose, wire
  <2> QED BY <1>6, <2>1, <2>2 DEF PipeStep
<1>7. CASE BrowserCloses \/ Lose
  BY <1>4, <1>7 DEF Next, Peers, BrowserCloses, Lose
<1>8. CASE Next
  BY <1>2, <1>5, <1>6, <1>7, <1>8 DEF Next, Peers
<1> QED BY <1>1, <1>8

(* For any number of messages the three goroutines and their two           *)
(* connections are a tunnel: each line delivers the next message or none,  *)
(* and none any more once its receiver or the handler is gone.             *)
THEOREM BrokerIsTunnel == Spec => IsTunnel
BY InitTunnel, StepTunnel, EndInvariant, PTL DEF Spec, IsTunnel, Tunnel!Spec

=============================================================================
