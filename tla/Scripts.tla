------------------------------- MODULE Scripts -------------------------------
(***************************************************************************)
(* What scripts put around the gateway: callbacks that share the packet    *)
(* they are handed, messages from stations far away, the zones and sources *)
(* of FireWatch, SkipMonitor, and threads that use the console.  They      *)
(* share no state but the packet, which is an input of each of them: a     *)
(* behaviour here belongs to one of them, and the others rest.             *)
(***************************************************************************)
EXTENDS Integers, FiniteSets

CONSTANTS nil

\* Constants of FireZones, FireSources, SkipMonitor, Packets, Threads and Messaging.
CONSTANTS Trackers, Fires, Positions
CONSTANTS EndPoints
CONSTANTS Stations, Places, Threshold, Patterns
CONSTANTS Handles, Messages, Reports, Others, Monitors, Freed
CONSTANTS Main, Workers, Careless
CONSTANTS Numbered, AckLike, Crashes

ASSUME NilAssumption ==
    nil \notin Positions \cup Stations \cup Places \cup Handles \cup Messages \cup Reports
                 \cup Others \cup Workers \cup {Main} \cup Numbered
ASSUME SkipMonitorAssumption ==
    Places \subseteq Nat /\ Threshold \in Nat /\ Patterns \subseteq SUBSET Stations
ASSUME PacketsAssumption ==
    /\ Messages \cap Reports = {} /\ Others \cap (Messages \cup Reports) = {}
    /\ Freed \notin Messages \cup Reports \cup Others \cup {nil} /\ Monitors \in Nat \ {0}
ASSUME ThreadsAssumption == Main \notin Workers /\ Careless \subseteq Workers
ASSUME MessagingAssumption == AckLike \subseteq Numbered /\ Crashes \in BOOLEAN

VARIABLES used,  \* the one that is looked at
          burning, zones, stored, at, inside, changed,
          script, endPoints, listening, polling, timer, sockets, handle, tried,
          phase, packet, stations, ignored, skip, sent,
          place, live, slot, slot_of, handed, turn, decoded, seen, lost,
          pc, mutex, line, broken, objects, asked, joined, missed, raised,
          station, wire, acks, connected, current, step, executed, troubled, dropped

zoneVars == <<burning, zones, stored, at, inside, changed>>
sourceVars == <<script, endPoints, listening, polling, timer, sockets, handle, tried>>
skipVars == <<phase, packet, stations, ignored, skip, sent>>
packetVars == <<place, live, slot, slot_of, handed, turn, decoded, seen, lost>>
threadVars == <<pc, mutex, line, broken, objects, asked, joined, missed, raised>>
messageVars == <<station, wire, acks, connected, current, step, executed, troubled, dropped>>
vars == <<used, zoneVars, sourceVars, skipVars, packetVars, threadVars, messageVars>>

Z == INSTANCE FireZones WITH Stations <- Trackers
F == INSTANCE FireSources
M == INSTANCE SkipMonitor
P == INSTANCE Packets WITH Positions <- Reports, packet <- slot_of, objects <- decoded
T == INSTANCE Threads
G == INSTANCE Messaging WITH Messages <- Numbered

ASSUME NilIsNoRecord ==
    /\ nil \notin M!Packets
    /\ nil \notin [sender : Stations, receiver : Stations, distance : Nat]

Init ==
    /\ used \in {"FireZones", "FireSources", "SkipMonitor", "Packets", "Threads", "Messaging"}
    /\ Z!Init /\ F!Init /\ M!Init /\ P!Init /\ T!Init /\ G!Init
    /\ used # "FireSources" => listening = {}

Next ==
    /\ UNCHANGED used
    /\ \/ /\ used = "FireZones" /\ Z!Next
          /\ UNCHANGED <<sourceVars, skipVars, packetVars, threadVars, messageVars>>
       \/ /\ used = "FireSources" /\ F!Next
          /\ UNCHANGED <<zoneVars, skipVars, packetVars, threadVars, messageVars>>
       \/ /\ used = "SkipMonitor" /\ M!Next
          /\ UNCHANGED <<zoneVars, sourceVars, packetVars, threadVars, messageVars>>
       \/ /\ used = "Packets" /\ P!Next
          /\ UNCHANGED <<zoneVars, sourceVars, skipVars, threadVars, messageVars>>
       \/ /\ used = "Threads" /\ T!Next
          /\ UNCHANGED <<zoneVars, sourceVars, skipVars, packetVars, messageVars>>
       \/ /\ used = "Messaging" /\ G!Next
          /\ UNCHANGED <<zoneVars, sourceVars, skipVars, packetVars, threadVars>>

\* The fairness of FireSources and of Threads; that of Messaging is a run of its own.
Spec == Init /\ [][Next]_vars /\ F!Fairness /\ T!Fairness

-----------------------------------------------------------------------------
\* The type invariants.
TypeOK == Z!TypeOK /\ F!TypeOK /\ M!TypeOK /\ P!TypeOK /\ T!TypeOK /\ G!TypeOK

\* FireWatch: the events tell a script the zones a station is in, but for fires that
\* were added or updated since its last report.
ZonesKnown == Z!ZonesKnown

\* FireWatch: a source that is added and stays is tried, and no refused socket is
\* left open, unless an error ends the script.
SourcesPolled == [](used = "FireSources" => F!RefusedSocketsClosed) /\ F!SourcesTried

\* SkipMonitor: a skip is reported with the positions that were sent last.
SkipIsCurrent == M!SkipIsCurrent

\* Packets: every callback of an event finds the packet that was read, unless one
\* before it has lost the connection, and a decoded message does not outlive the
\* callback that made it.
PacketsHandled == P!SamePacketSeen /\ P!DecodedReleased

\* Thread: no running thread is deleted, what Join has joined has ended, and the
\* objects that leak are those of threads that ended before Join.
ThreadsJoined == T!JoinedEnded /\ T!LeakedWereMissed

\* Console: no line is written into the prompt at which another thread reads, and
\* whoever calls it gets through, unless an error has left the mutex locked for good
\* by the thread that holds it.
ConsoleServed == [](T!LinesWhole /\ T!MutexAbandoned) /\ T!ConsoleServes

\* Messaging: a message that its station takes for delivered is executed, or in hand;
\* it can be lost only where the process ends between ack and command.
ConfirmedHandled == G!ConfirmedHandled

\* Messaging: a message is executed more than once only if its ack was lost or not
\* sent, the network repeated it, or the station was too quick to send it again.
RepeatedByTrouble == G!RepeatedByTrouble
=============================================================================
