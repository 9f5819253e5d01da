------------------------------ MODULE Messaging ------------------------------
(***************************************************************************)
(* What becomes of a numbered message on its way through the gateway.  A   *)
(* station sends it again until it has its ack; the network loses and      *)
(* repeats messages and acks.  The gateway acks a message first, executes  *)
(* its command (or the events) then, and remembers nothing of it.  Its     *)
(* connection may be lost at the ack, and its process may end anywhere.    *)
(***************************************************************************)
EXTENDS Naturals

CONSTANTS Messages,  \* numbered messages to the gateway
          AckLike,   \* those whose text matches the pattern of an ack
          Crashes,   \* whether the process may end
          nil

ASSUME MessagesAssumption == AckLike \subseteq Messages /\ nil \notin Messages
ASSUME CrashesAssumption == Crashes \in BOOLEAN

VARIABLES station,   \* for each message: "new", "waiting" or "confirmed"
          wire,      \* messages on their way
          acks,      \* acks on their way
          connected, \* the gateway's connection
          current,   \* the message that OnReceivePacket handles, or nil
          step,      \* "ack", then "execute", or "unacked" if the ack failed
          executed,  \* how often a message was executed, up to 2
          troubled,  \* history: messages whose repetition the gateway could not avoid
          dropped    \* history: messages acked and lost with the process

vars == <<station, wire, acks, connected, current, step, executed, troubled, dropped>>
gateway == <<connected, current, step, executed>>
history == <<troubled, dropped>>

Init ==
    /\ station = [m \in Messages |-> "new"]
    /\ wire = {} /\ acks = {} /\ connected = TRUE
    /\ current = nil /\ step = "ack" /\ executed = [m \in Messages |-> 0]
    /\ troubled = {} /\ dropped = {}

-----------------------------------------------------------------------------
Send(m) ==
    /\ station[m] = "new" /\ station' = [station EXCEPT ![m] = "waiting"]
    /\ wire' = wire \cup {m}
    /\ UNCHANGED <<acks, gateway, history>>

\* A message may be sent again while it, or its ack, is still on the way.
Retry(m) ==
    /\ station[m] = "waiting" /\ wire' = wire \cup {m}
    /\ troubled' = IF m \in wire \cup acks \cup {current} THEN troubled \cup {m} ELSE troubled
    /\ UNCHANGED <<station, acks, gateway, dropped>>

Lose(m) ==
    /\ m \in wire /\ wire' = wire \ {m}
    /\ UNCHANGED <<station, acks, gateway, history>>

LoseAck(m) ==
    /\ m \in acks /\ acks' = acks \ {m} /\ troubled' = troubled \cup {m}
    /\ UNCHANGED <<station, wire, gateway, dropped>>

AckArrives(m) ==
    /\ m \in acks /\ acks' = acks \ {m}
    /\ station' = [station EXCEPT ![m] = "confirmed"]
    /\ UNCHANGED <<wire, gateway, history>>

\* The network delivers a message, and may repeat it.
Delivered(m) ==
    \/ wire' = wire \ {m} /\ UNCHANGED troubled
    \/ wire' = wire /\ troubled' = troubled \cup {m}

-----------------------------------------------------------------------------
\* OnReceivePacket looks at a message to its callsign ...
Receive(m) ==
    /\ connected /\ current = nil /\ m \in wire \ AckLike
    /\ Delivered(m) /\ current' = m /\ step' = "ack"
    /\ UNCHANGED <<station, acks, connected, executed, dropped>>

\* ... which is neither acked nor executed if it looks like an ack.
ReceiveAckLike(m) ==
    /\ connected /\ current = nil /\ m \in wire \cap AckLike
    /\ Delivered(m)
    /\ UNCHANGED <<station, acks, gateway, dropped>>

\* Mutant of SendMessageAck: the ack is not sent.
SendMessageAckNot ==
    /\ current # nil /\ step = "ack" /\ connected
    /\ step' = "execute"
    /\ UNCHANGED <<station, wire, acks, connected, current, executed, history>>

\* SendMessageAck, before anything else is done about the message.
SendMessageAck ==
    /\ current # nil /\ step = "ack" /\ connected
    /\ acks' = acks \cup {current} /\ step' = "execute"
    /\ UNCHANGED <<station, wire, connected, current, executed, history>>

\* The ack cannot be sent, which ends the connection; the message is executed.
SendMessageAckFails ==
    /\ current # nil /\ step = "ack"
    /\ connected' = FALSE /\ step' = "unacked" /\ troubled' = troubled \cup {current}
    /\ UNCHANGED <<station, wire, acks, current, executed, dropped>>

\* Mutant of Execute: a gateway that is no longer connected does not execute.
ExecuteConnected ==
    /\ current # nil /\ step # "ack"
    /\ executed' = [executed EXCEPT ![current] = IF connected /\ @ < 2 THEN @ + 1 ELSE @]
    /\ current' = nil
    /\ UNCHANGED <<station, wire, acks, connected, step, history>>

\* The command is executed, or OnReceiveMessage for a message without one.
Execute ==
    /\ current # nil /\ step # "ack"
    /\ executed' = [executed EXCEPT ![current] = IF @ < 2 THEN @ + 1 ELSE @]
    /\ current' = nil
    /\ UNCHANGED <<station, wire, acks, connected, step, history>>

\* The connection is lost anywhere; the message in hand is not affected.
ConnectionLost ==
    /\ connected /\ connected' = FALSE
    /\ UNCHANGED <<station, wire, acks, current, step, executed, history>>

\* Run is called again, or the script started.
Reconnect ==
    /\ ~connected /\ current = nil /\ connected' = TRUE
    /\ UNCHANGED <<station, wire, acks, current, step, executed, history>>

\* The process ends: a message in hand is gone, acked or not.
Crash ==
    /\ Crashes /\ current # nil
    /\ dropped' = IF step = "execute" THEN dropped \cup {current} ELSE dropped
    /\ current' = nil /\ connected' = FALSE
    /\ UNCHANGED <<station, wire, acks, step, executed, troubled>>

Next ==
    \/ \E m \in Messages :
         \/ Send(m) \/ Retry(m) \/ Lose(m) \/ LoseAck(m) \/ AckArrives(m)
         \/ Receive(m) \/ ReceiveAckLike(m)
    \/ SendMessageAck \/ SendMessageAckFails \/ Execute
    \/ ConnectionLost \/ Reconnect \/ Crash

Spec == Init /\ [][Next]_vars

\* A station does not give up and is not always late for the connection, the network
\* delivers what is sent again and again, and so the gateway's acks; the gateway
\* finishes what it has begun and connects again.
FairSpec ==
    /\ Spec
    /\ \A m \in Messages \ AckLike :
         /\ SF_vars(connected /\ current = nil /\ Retry(m))
         /\ SF_vars(Receive(m)) /\ SF_vars(current = m /\ SendMessageAck)
         /\ SF_vars(AckArrives(m))
    /\ WF_vars(SendMessageAck \/ SendMessageAckFails)
    /\ WF_vars(Execute) /\ WF_vars(Reconnect)

-----------------------------------------------------------------------------
\* The type invariant; what looks like an ack is nowhere but on the wire.
TypeOK ==
    /\ station \in [Messages -> {"new", "waiting", "confirmed"}]
    /\ wire \subseteq Messages /\ acks \subseteq Messages \ AckLike
    /\ connected \in BOOLEAN /\ step \in {"ack", "execute", "unacked"}
    /\ current \in (Messages \ AckLike) \cup {nil}
    /\ executed \in [Messages -> 0..2]
    /\ troubled \subseteq Messages /\ dropped \subseteq Messages
    /\ \A m \in Messages : m \in wire \cup acks \cup {current} => station[m] # "new"

\* A message that its station takes for delivered is executed, or in hand; it can
\* be lost only where the process ends between ack and command.
ConfirmedHandled ==
    \A m \in Messages :
      station[m] = "confirmed" \/ m \in acks =>
        executed[m] > 0 \/ (current = m /\ step = "execute") \/ m \in dropped

\* A message is executed more than once only if its ack was lost or not sent, the
\* network repeated it, or the station was too quick to send it again.
RepeatedByTrouble ==
    \A m \in Messages : executed[m] > 1 => m \in troubled

\* Every message that does not look like an ack is confirmed in the end, however
\* often it or its ack is lost, and executed, unless the process ended then.
MessagesDelivered ==
    \A m \in Messages \ AckLike :
      station[m] = "waiting" ~> station[m] = "confirmed" /\ (executed[m] > 0 \/ m \in dropped)
=============================================================================
