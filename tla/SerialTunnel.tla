---------------------------- MODULE SerialTunnel ----------------------------
(***************************************************************************)
(* What the serial tunnel promises a browser and the agent on its sandbox: *)
(* two lines, one each way, that deliver message after message, the next   *)
(* one or none, until they are cut, and nothing from then on.              *)
(*                                                                         *)
(* There are no goroutines, channels, connections or buffers here:         *)
(* SerialBroker implements this (SerialBroker!IsTunnel).                   *)
(***************************************************************************)
EXTENDS Naturals, Sequences

CONSTANTS
  Lines,    \* the two directions
  MaxMsgs   \* bound: messages sent on a line

VARIABLES
  sent,      \* the number of messages put on each line
  received,  \* the messages each has delivered
  cut        \* the lines that deliver nothing any more

tunnelVars == <<sent, received, cut>>

Init ==
  /\ sent = [p \in Lines |-> 0]
  /\ received = [p \in Lines |-> <<>>]
  /\ cut = {}

Send(p) ==
  /\ sent[p] < MaxMsgs
  /\ sent' = [sent EXCEPT ![p] = @ + 1]
  /\ UNCHANGED <<received, cut>>

(* The next message, and no other. *)
Deliver(p) ==
  /\ p \notin cut
  /\ Len(received[p]) < sent[p]
  /\ received' = [received EXCEPT ![p] = Append(@, Len(@) + 1)]
  /\ UNCHANGED <<sent, cut>>

(* One line or both: an end that receives nothing may still send. *)
Cut ==
  /\ cut' \in SUBSET Lines
  /\ cut \subseteq cut'
  /\ UNCHANGED <<sent, received>>

Next == Cut \/ \E p \in Lines : Send(p) \/ Deliver(p)

Spec == Init /\ [][Next]_tunnelVars

=============================================================================
