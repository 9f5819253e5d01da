------------------------------- MODULE Packets -------------------------------
(***************************************************************************)
(* The packet handed to OnReceivePacket.  aprs_is_read_packet returns the  *)
(* address of the one slot of its aprs_is object; the callbacks of the     *)
(* event all use it, Gateway's first, then those of SkipMonitor and of     *)
(* scripts.  Between them anything may be sent, and a send that fails      *)
(* disconnects and deletes the object, slot and all.  Messages and         *)
(* positions decoded from a packet are objects of their own.               *)
(***************************************************************************)
EXTENDS Naturals, FiniteSets

CONSTANTS Handles,    \* addresses of aprs_is objects
          Messages, Positions, Others,  \* the packets a server may send
          Monitors,   \* the number of callbacks after Gateway's
          nil, Freed  \* what a read of a deleted packet finds

Received == Messages \cup Positions \cup Others

VARIABLES place,   \* where Run is
          live,    \* the aprs_is objects that exist
          slot,    \* aprs_is.packet
          packet,  \* the object whose slot was handed out, or nil
          handed,  \* history: what was in it
          turn,    \* the callback after Gateway's that runs next
          objects, \* decoded objects that exist
          seen,    \* history: what the last of these callbacks found
          lost     \* history: the connection was lost since the packet was handed out

vars == <<place, live, slot, packet, handed, turn, objects, seen, lost>>
connection == <<live, slot, lost>>
received == <<packet, handed, turn, seen>>

Init ==
    /\ place = "stopped" /\ live = {} /\ slot = [h \in Handles |-> nil]
    /\ packet = nil /\ handed = nil /\ turn = 1 /\ objects = {} /\ seen = nil /\ lost = FALSE

Goes(from, to) == place = from /\ place' = to

\* Gateway.Private.APRS.IS.Connect
Connect(h) ==
    /\ Goes("stopped", "receive")
    /\ live' = {h} /\ slot' = [slot EXCEPT ![h] = nil] /\ lost' = FALSE
    /\ UNCHANGED <<received, objects>>

\* A callback of the script sends, or not; if that fails Disconnect deletes.
SendsOrNot ==
    \/ UNCHANGED connection
    \/ live # {} /\ live' = {} /\ lost' = TRUE /\ UNCHANGED slot

\* aprs_is_read_packet overwrites the slot and returns its address.
ReadPacket(p) ==
    /\ Goes("receive", "gateway")
    /\ \E h \in live : packet' = h /\ slot' = [slot EXCEPT ![h] = p]
    /\ handed' = p /\ turn' = 1 /\ seen' = nil /\ lost' = FALSE
    /\ UNCHANGED <<live, objects>>

\* OnUpdate, after the last packet.
Update ==
    /\ live # {} /\ Goes("receive", "receive") /\ SendsOrNot
    /\ UNCHANGED <<received, objects>>

Closed ==
    /\ live = {} /\ Goes("receive", "stopped")
    /\ UNCHANGED <<connection, received, objects>>

-----------------------------------------------------------------------------
\* Gateway's callback decodes a message, ...
DecodeMessage ==
    /\ Goes("gateway", "ack") /\ handed \in Messages
    /\ objects' = {"message"}
    /\ UNCHANGED <<connection, received>>

\* ... which may fail, ...
DecodeMessageFails ==
    /\ Goes("gateway", "release") /\ handed \in Messages
    /\ UNCHANGED <<connection, received, objects>>

\* ... leaves one that is not to its callsign or looks like an ack, ...
PassMessage ==
    /\ Goes("ack", "release")
    /\ UNCHANGED <<connection, received, objects>>

\* ... acks it if it has a number, ...
AckMessage ==
    /\ Goes("ack", "command") /\ SendsOrNot
    /\ UNCHANGED <<received, objects>>

\* Mutant of ExecuteCommand: a message that a command has taken is not released.
ExecuteCommandReturns ==
    /\ place = "command" /\ place' \in {"release", "monitor"} /\ SendsOrNot
    /\ UNCHANGED <<received, objects>>

\* ... executes its command or OnReceiveMessage ...
ExecuteCommand ==
    /\ Goes("command", "release") /\ SendsOrNot
    /\ UNCHANGED <<received, objects>>

\* ... and releases it, also if there is none.
ReleaseMessage ==
    /\ Goes("release", "monitor") /\ objects' = {}
    /\ UNCHANGED <<connection, received>>

\* A position is released before OnReceivePosition is executed; one that cannot be
\* decoded is no event.
HandlePosition ==
    /\ Goes("gateway", "monitor") /\ handed \in Positions
    /\ SendsOrNot
    /\ UNCHANGED <<received, objects>>

HandleOther ==
    /\ Goes("gateway", "monitor") /\ handed \in Others
    /\ UNCHANGED <<connection, received, objects>>

\* Another callback reads the packet, and may send then.
Monitor ==
    /\ place = "monitor" /\ turn <= Monitors
    /\ seen' = IF packet \in live THEN slot[packet] ELSE Freed
    /\ turn' = turn + 1 /\ SendsOrNot
    /\ UNCHANGED <<place, packet, handed, objects>>

MonitorsDone ==
    /\ Goes("monitor", "receive") /\ turn > Monitors
    /\ packet' = nil /\ seen' = nil
    /\ UNCHANGED <<connection, handed, turn, objects>>

Next ==
    \/ \E h \in Handles : Connect(h)
    \/ \E p \in Received : ReadPacket(p)
    \/ Update \/ Closed
    \/ DecodeMessage \/ DecodeMessageFails \/ PassMessage \/ AckMessage \/ ExecuteCommand
    \/ ReleaseMessage \/ HandlePosition \/ HandleOther \/ Monitor \/ MonitorsDone

Spec == Init /\ [][Next]_vars

-----------------------------------------------------------------------------
\* The type invariant of the packet and its callbacks.
TypeOK ==
    /\ place \in {"stopped", "receive", "gateway", "ack", "command", "release", "monitor"}
    /\ live \subseteq Handles /\ slot \in [Handles -> Received \cup {nil}]
    /\ packet \in Handles \cup {nil} /\ handed \in Received \cup {nil}
    /\ turn \in 1..(Monitors + 1) /\ lost \in BOOLEAN
    /\ seen \in Received \cup {nil, Freed}
    /\ objects \subseteq {"message"}

\* A decoded message does not outlive the callback that made it, whichever of its
\* branches is taken and whatever is sent in between.
DecodedReleased == objects # {} => place \in {"ack", "command", "release"}

\* Every callback of an event finds the packet that was read, unless one before it
\* has lost the connection.
SamePacketSeen == seen \in {nil, handed} \/ (seen = Freed /\ lost)

\* Gateway.lua:180 says of the callbacks of OnReceivePacket: "function(packet)";
\* each of them is to find a packet.
PacketForEachCallback == seen # Freed
=============================================================================
