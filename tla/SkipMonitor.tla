----------------------------- MODULE SkipMonitor -----------------------------
(***************************************************************************)
(* The SkipMonitor plugin: it remembers the last position of each station  *)
(* and reports a packet that was heard from far away, by the first         *)
(* digipeater of its path or else by its gate to the internet.  The        *)
(* positions come from OnReceivePosition, which Gateway's callback of      *)
(* OnReceivePacket executes; the reports are made by a callback of the     *)
(* same event that was registered later.                                   *)
(***************************************************************************)
EXTENDS Integers

CONSTANTS Stations,   \* callsigns
          Places,     \* where stations are, as miles along a line
          Threshold,  \* threshold_miles
          Patterns,   \* patterns that are ignored: the callsigns each of them matches
          nil

VARIABLES phase,     \* where the execution of OnReceivePacket is
          packet,    \* the packet
          stations,  \* SkipMonitor.Private.Stations
          ignored,   \* IgnoredSenders, IgnoredDigis and IgnoredIGates
          skip,      \* what OnSkipDetected is executed with, or nil
          sent       \* history: the position in the last packet of each station

vars == <<phase, packet, stations, ignored, skip, sent>>

Lists == {"sender", "digi", "igate"}
Packets == [sender : Stations, digi : Stations \cup {nil}, igate : Stations,
            position : Places \cup {nil}]

\* IgnoreDigi of Init gives no set: the patterns are not there, and stay so.
Init ==
    /\ phase = "idle" /\ packet = nil /\ skip = nil
    /\ stations = [s \in Stations |-> nil] /\ sent = [s \in Stations |-> nil]
    /\ ignored = [l \in Lists |-> {}]

Distance(a, b) == IF a <= b THEN b - a ELSE a - b

IsIgnored(list, station) == \E pattern \in ignored[list] : station \in pattern

\* A packet arrives; its path names the digipeater that was first, if there was one.
ReceivePacket(p) ==
    /\ phase = "idle" /\ phase' = "gateway" /\ packet' = p
    /\ sent' = IF p.position = nil THEN sent ELSE [sent EXCEPT ![p.sender] = p.position]
    /\ UNCHANGED <<stations, ignored, skip>>

\* Mutant of SetStationPosition: a position that is known is kept.
SetStationPositionOnce ==
    stations' = IF packet.position = nil \/ stations[packet.sender] # nil THEN stations
                ELSE [stations EXCEPT ![packet.sender] = packet.position]

\* OnReceivePosition, for a packet with a position.
SetStationPosition ==
    stations' = IF packet.position = nil THEN stations
                ELSE [stations EXCEPT ![packet.sender] = packet.position]

GatewayCallback ==
    /\ phase = "gateway" /\ phase' = "skip"
    /\ SetStationPosition
    /\ UNCHANGED <<packet, ignored, skip, sent>>

\* The station that heard the packet: a digipeater hides the gate.
Receiver ==
    CASE packet.digi \notin {nil, packet.sender} -> [list |-> "digi", station |-> packet.digi]
      [] packet.digi \in {nil, packet.sender} /\ packet.igate # packet.sender ->
           [list |-> "igate", station |-> packet.igate]
      [] OTHER -> [list |-> "none", station |-> nil]

\* A station whose distance is known and reaches the threshold.
Far(s, t) ==
    stations[s] # nil /\ stations[t] # nil /\ Distance(stations[s], stations[t]) >= Threshold

Reported ==
    /\ ~IsIgnored("sender", packet.sender) /\ Receiver.list # "none"
    /\ ~IsIgnored(Receiver.list, Receiver.station)
    /\ Far(packet.sender, Receiver.station)

\* OnSkipDetected is executed ...
SkipDetected ==
    /\ phase = "skip" /\ Reported /\ phase' = "detected"
    /\ skip' = [sender |-> packet.sender, receiver |-> Receiver.station,
                distance |-> Distance(stations[packet.sender], stations[Receiver.station])]
    /\ UNCHANGED <<packet, stations, ignored, sent>>

\* ... or not.
NoSkip ==
    /\ phase = "skip" /\ ~Reported /\ phase' = "idle" /\ packet' = nil
    /\ UNCHANGED <<stations, ignored, skip, sent>>

SkipCallbacksReturn ==
    /\ phase = "detected" /\ phase' = "idle" /\ packet' = nil /\ skip' = nil
    /\ UNCHANGED <<stations, ignored, sent>>

\* IgnoreSender, IgnoreDigi and IgnoreIGate, by the script or in one of its callbacks.
Ignore(list, pattern, set) ==
    /\ phase # "skip"
    /\ ignored' = [ignored EXCEPT ![list] = IF set THEN @ \cup {pattern} ELSE @ \ {pattern}]
    /\ UNCHANGED <<phase, packet, stations, skip, sent>>

Next ==
    \/ \E p \in Packets : ReceivePacket(p)
    \/ GatewayCallback \/ SkipDetected \/ NoSkip \/ SkipCallbacksReturn
    \/ \E list \in Lists, pattern \in Patterns, set \in BOOLEAN : Ignore(list, pattern, set)

Spec == Init /\ [][Next]_vars

-----------------------------------------------------------------------------
\* The type invariant of the plugin; the positions it knows are those that were sent
\* last, but for the packet in hand.
TypeOK ==
    /\ phase \in {"idle", "gateway", "skip", "detected"}
    /\ packet \in Packets \cup {nil} /\ (packet = nil <=> phase = "idle")
    /\ stations \in [Stations -> Places \cup {nil}]
    /\ \A s \in Stations :
         stations[s] = sent[s] \/ (phase = "gateway" /\ s = packet.sender)
    /\ ignored \in [Lists -> SUBSET Patterns]
    /\ skip = nil <=> phase # "detected"

\* A skip is reported with the distance of the positions that both stations sent
\* last, the sender's in this very packet if it has one: the callback that stores
\* it was registered first.
SkipIsCurrent ==
    skip # nil =>
      /\ sent[skip.sender] # nil /\ sent[skip.receiver] # nil
      /\ skip.distance = Distance(sent[skip.sender], sent[skip.receiver])
=============================================================================
