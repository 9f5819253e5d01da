---------------------------- MODULE ScriptsProofs ----------------------------
(***************************************************************************)
(* Proofs about the modules under Scripts.  A step of Scripts is a step of *)
(* one of them and leaves the others as they are, so that each has its own *)
(* invariant (ZInv of FireZones, and so on), which is shown to hold of     *)
(* Scripts by Alone and the lemmas about that module.                      *)
(***************************************************************************)
EXTENDS Scripts, TLAPS

\* Seen from each of the modules, a step is one of its own or changes nothing.
LEMMA Alone ==
    ASSUME [Next]_vars
    PROVE  /\ [Z!Next]_zoneVars /\ [F!Next]_sourceVars /\ [M!Next]_skipVars
           /\ [P!Next]_packetVars /\ [T!Next]_threadVars /\ [G!Next]_messageVars
<1>1. CASE UNCHANGED vars
  BY <1>1 DEF vars
<1>2. CASE Next
  BY <1>2 DEF Next
<1> QED
  BY <1>1, <1>2

-----------------------------------------------------------------------------
(* FireZones *)

\* A station of which nothing is stored is in no zone, so far as the events tell,
\* but for those of fires that were changed since.
Forgotten == \A s \in Trackers : stored[s] = nil => inside[s] \subseteq changed[s]

\* Until its first report nothing is known of a station.
Unseen == \A s \in Trackers : at[s] = nil => stored[s] = nil

Placed == at \in [Trackers -> Positions \cup {nil}]

ZInv == Z!TypeOK /\ ZonesKnown /\ Forgotten /\ Unseen /\ Placed

LEMMA ZonesInit == Z!Init => ZInv
BY DEF Z!Init, ZInv, Z!TypeOK, ZonesKnown, Z!ZonesKnown, Forgotten, Unseen, Placed

\* A report, of a station that is known or not.
LEMMA ZonesReport ==
    ASSUME ZInv, NEW s \in Trackers, NEW p \in Positions, Z!OnReceivePosition(s, p)
    PROVE  ZInv'
<1> DEFINE fires == Z!FindFires(p)
           previous == IF stored[s] # nil THEN Z!FindFires(stored[s]) ELSE {}
<1>1. fires \subseteq Fires /\ previous \subseteq Fires /\ p # nil
  BY NilAssumption DEF ZInv, Z!TypeOK, Z!FindFires
<1>2. /\ burning' = burning /\ zones' = zones
      /\ stored' = [stored EXCEPT ![s] = IF stored[s] # nil /\ fires = {} THEN nil ELSE p]
      /\ inside' = [inside EXCEPT ![s] = (@ \cup fires) \ (previous \ fires)]
      /\ changed' = [changed EXCEPT ![s] = @ \ (fires \cup (previous \ fires))]
      /\ at' = [at EXCEPT ![s] = p]
  BY DEF Z!OnReceivePosition, Z!Report
<1>3. Z!TypeOK' /\ Placed' /\ Unseen'
  BY <1>1, <1>2 DEF ZInv, Z!TypeOK, Placed, Unseen
<1>4. previous = IF stored[s] # nil THEN Z!FindFires(at[s]) ELSE {}
  BY DEF ZInv, Z!TypeOK
<1>5. \A f \in inside[s] \ changed[s] : f \in previous
  BY <1>4 DEF ZInv, Z!TypeOK, ZonesKnown, Z!ZonesKnown, Forgotten, Unseen
<1>6. \A q : Z!FindFires(q)' = Z!FindFires(q)
  BY <1>2 DEF Z!FindFires
<1> HIDE DEF fires, previous
<1>7. ZonesKnown'
  <2> SUFFICES ASSUME NEW t \in Trackers, NEW f \in Fires, at'[t] # nil, f \notin changed'[t]
               PROVE  f \in inside'[t] <=> f \in Z!FindFires(at'[t])
    BY <1>6 DEF ZonesKnown, Z!ZonesKnown, Z!FindFires
  <2>1. CASE t = s
    <3>1. at'[s] = p /\ inside'[s] = (inside[s] \cup fires) \ (previous \ fires)
          /\ changed'[s] = changed[s] \ (fires \cup (previous \ fires))
      BY <1>2 DEF ZInv, Z!TypeOK, Placed
    <3> QED
      BY <2>1, <3>1, <1>5 DEF fires
  <2>2. CASE t # s
    BY <2>2, <1>2 DEF ZInv, Z!TypeOK, Placed, ZonesKnown, Z!ZonesKnown
  <2> QED
    BY <2>1, <2>2
<1>8. Forgotten'
  <2> SUFFICES ASSUME NEW t \in Trackers, stored'[t] = nil PROVE inside'[t] \subseteq changed'[t]
    BY DEF Forgotten
  <2>1. CASE t = s
    BY <2>1, <1>1, <1>2, <1>5 DEF ZInv, Z!TypeOK
  <2>2. CASE t # s
    BY <2>2, <1>2 DEF ZInv, Z!TypeOK, Forgotten
  <2> QED
    BY <2>1, <2>2
<1> QED
  BY <1>3, <1>7, <1>8 DEF ZInv

\* A fire that is added, updated or extinguished.
LEMMA ZonesFire ==
    ASSUME ZInv, NEW f \in Fires,
           \/ \E zone \in SUBSET Positions : Z!AddFire(f, zone) \/ Z!UpdateFire(f, zone)
           \/ Z!RemoveFire(f)
    PROVE  ZInv'
<1>1. ASSUME NEW zone \in SUBSET Positions, Z!AddFire(f, zone) \/ Z!UpdateFire(f, zone)
      PROVE  ZInv'
  <2>1. /\ burning' = burning \cup {f} /\ zones' = [zones EXCEPT ![f] = zone]
        /\ changed' = [s \in Trackers |-> changed[s] \cup {f}]
        /\ UNCHANGED <<stored, at, inside>>
    BY <1>1 DEF Z!AddFire, Z!UpdateFire, Z!Change
  <2>2. \A g \in Fires : \A q : g # f => (g \in Z!FindFires(q)' <=> g \in Z!FindFires(q))
    BY <2>1 DEF Z!FindFires, ZInv, Z!TypeOK
  <2> QED
    BY <2>1, <2>2 DEF ZInv, Z!TypeOK, ZonesKnown, Z!ZonesKnown, Forgotten, Unseen, Placed
<1>2. CASE Z!RemoveFire(f)
  <2>1. /\ burning' = burning \ {f} /\ zones' = [zones EXCEPT ![f] = {}]
        /\ inside' = [s \in Trackers |-> inside[s] \ {f}]
        /\ UNCHANGED <<stored, at, changed>>
    BY <1>2 DEF Z!RemoveFire
  <2>2. \A g, q : g \in Z!FindFires(q)' <=> g \in Z!FindFires(q) /\ g # f
    BY <2>1 DEF Z!FindFires, ZInv, Z!TypeOK
  <2> QED
    BY <2>1, <2>2 DEF ZInv, Z!TypeOK, ZonesKnown, Z!ZonesKnown, Forgotten, Unseen, Placed
<1> QED
  BY <1>1, <1>2

LEMMA ZonesInvariant == Spec => []ZInv
<1>1. Init => ZInv
  BY ZonesInit DEF Init
<1>2. ZInv /\ [Next]_vars => ZInv'
  <2> SUFFICES ASSUME ZInv, [Next]_vars PROVE ZInv'
    OBVIOUS
  <2>1. CASE UNCHANGED zoneVars
    BY <2>1 DEF zoneVars, ZInv, Z!TypeOK, ZonesKnown, Z!ZonesKnown, Z!FindFires, Forgotten,
               Unseen, Placed
  <2> QED
    BY <2>1, Alone, ZonesReport, ZonesFire DEF Z!Next
<1> QED
  BY <1>1, <1>2, PTL DEF Spec

\* Whatever fires and stations do, the events tell a script the zones of a station, but
\* for fires that were changed since its last report.
THEOREM ZonesAreKnown == Spec => []ZonesKnown
<1>1. ZInv => ZonesKnown
  BY DEF ZInv
<1> QED
  BY <1>1, ZonesInvariant, PTL

-----------------------------------------------------------------------------
(* FireSources *)

FInv == F!TypeOK /\ F!RefusedSocketsClosed

LEMMA SourcesInvariant == Spec => []FInv
<1>1. Init => FInv
  BY DEF Init, F!Init, FInv, F!TypeOK, F!RefusedSocketsClosed
<1>2. FInv /\ [Next]_vars => FInv'
  <2> SUFFICES ASSUME FInv, [Next]_vars PROVE FInv'
    OBVIOUS
  <2> USE DEF FInv, F!TypeOK, F!RefusedSocketsClosed
  <2>1. ASSUME NEW e \in EndPoints, F!Add(e) \/ F!Remove(e) \/ F!Toggle(e) PROVE FInv'
    BY <2>1 DEF F!Add, F!Remove, F!Toggle, F!poll
  <2>2. ASSUME NEW e \in EndPoints, F!ConnectFails(e) \/ F!ConnectRaises(e) PROVE FInv'
    BY <2>2 DEF F!ConnectFails, F!ConnectRaises
  <2>3. CASE F!Connected \/ F!TimerFires
    BY <2>3 DEF F!Connected, F!TimerFires, F!PollSources, F!Running
  <2>4. CASE F!DisconnectRaises \/ F!RunFails
    BY <2>4 DEF F!DisconnectRaises, F!RunFails, F!Running, F!poll
  <2>5. CASE UNCHANGED sourceVars
    BY <2>5 DEF sourceVars
  <2> QED
    BY <2>1, <2>2, <2>3, <2>4, <2>5, Alone DEF F!Next
<1> QED
  BY <1>1, <1>2, PTL DEF Spec

\* However often sources refuse, and whatever is added or removed between the polls,
\* the script that still runs has no socket open.
THEOREM RefusedAreClosed == Spec => []F!RefusedSocketsClosed
<1>1. FInv => F!RefusedSocketsClosed
  BY DEF FInv
<1> QED
  BY <1>1, SourcesInvariant, PTL

-----------------------------------------------------------------------------
(* SkipMonitor *)

\* While Gateway's callback has still to store the position of the packet in hand,
\* it is the one that was sent last; a packet without one leaves what is known.
PositionInHand ==
    phase = "gateway" =>
      sent[packet.sender] = IF packet.position = nil THEN stations[packet.sender]
                            ELSE packet.position

MInv == /\ M!TypeOK /\ M!SkipIsCurrent /\ PositionInHand
        /\ sent \in [Stations -> Places \cup {nil}]

LEMMA SkipInit == M!Init => MInv
BY DEF M!Init, MInv, M!TypeOK, M!SkipIsCurrent, PositionInHand, M!Lists

LEMMA SkipReceivePacket ==
    ASSUME MInv, NEW p \in M!Packets, M!ReceivePacket(p)
    PROVE  MInv'
<1>1. /\ p # nil /\ p.sender \in Stations /\ p.position \in Places \cup {nil}
      /\ phase = "idle" /\ phase' = "gateway" /\ packet' = p
      /\ sent' = IF p.position = nil THEN sent ELSE [sent EXCEPT ![p.sender] = p.position]
      /\ UNCHANGED <<stations, ignored, skip>>
  BY NilIsNoRecord DEF M!ReceivePacket, M!Packets
<1>2. \A s \in Stations : stations[s] = sent[s]
  BY <1>1 DEF MInv, M!TypeOK
<1>3. M!TypeOK' /\ sent' \in [Stations -> Places \cup {nil}]
  BY <1>1, <1>2 DEF MInv, M!TypeOK
<1>4. PositionInHand'
  BY <1>1, <1>2 DEF MInv, PositionInHand
<1>5. skip' = nil
  BY <1>1 DEF MInv, M!TypeOK
<1> QED
  BY <1>3, <1>4, <1>5 DEF MInv, M!SkipIsCurrent

LEMMA SkipGatewayCallback ==
    ASSUME MInv, M!GatewayCallback
    PROVE  MInv'
<1>1. /\ phase = "gateway" /\ phase' = "skip" /\ UNCHANGED <<packet, ignored, skip, sent>>
      /\ stations' = IF packet.position = nil THEN stations
                     ELSE [stations EXCEPT ![packet.sender] = packet.position]
  BY DEF M!GatewayCallback, M!SetStationPosition
<1>2. packet \in M!Packets
  BY <1>1 DEF MInv, M!TypeOK
<1>3. packet.sender \in Stations /\ packet.position \in Places \cup {nil}
  BY <1>2 DEF M!Packets
<1>4. \A s \in Stations : stations'[s] = sent[s]
  BY <1>1, <1>3 DEF MInv, M!TypeOK, PositionInHand
<1> QED
  BY <1>1, <1>3, <1>4 DEF MInv, M!TypeOK, M!SkipIsCurrent, PositionInHand

\* What is reported are two stations whose positions are known, and their distance.
LEMMA SkipDetects ==
    ASSUME MInv, M!SkipDetected
    PROVE  MInv'
<1> DEFINE r == M!Receiver.station
           d == M!Distance(stations[packet.sender], stations[r])
<1>1. /\ phase = "skip" /\ phase' = "detected" /\ UNCHANGED <<packet, stations, ignored, sent>>
      /\ skip' = [sender |-> packet.sender, receiver |-> r, distance |-> d]
      /\ M!Receiver.list # "none" /\ M!Far(packet.sender, r)
  BY DEF M!SkipDetected, M!Reported
<1>2. packet \in M!Packets
  BY <1>1 DEF MInv, M!TypeOK
<1>3. packet.sender \in Stations /\ packet.digi \in Stations \cup {nil} /\ packet.igate \in Stations
  BY <1>2 DEF M!Packets
<1>4. r \in Stations
  BY <1>1, <1>3 DEF M!Receiver
<1> HIDE DEF r, d
<1>5. stations[packet.sender] \in Nat /\ stations[r] \in Nat
  BY <1>1, <1>3, <1>4, SkipMonitorAssumption DEF MInv, M!TypeOK, M!Far
<1>6. d \in Nat
  BY <1>5 DEF d, M!Distance
<1>7. stations[packet.sender] = sent[packet.sender] /\ stations[r] = sent[r]
  BY <1>1, <1>3, <1>4 DEF MInv, M!TypeOK
<1>8. stations[packet.sender] # nil /\ stations[r] # nil
  BY <1>1 DEF M!Far
<1>9. skip' \in [sender : Stations, receiver : Stations, distance : Nat]
  BY <1>1, <1>3, <1>4, <1>6
<1>10. skip' # nil
  BY <1>9, NilIsNoRecord
<1>11. M!SkipIsCurrent'
  BY <1>1, <1>7, <1>8 DEF M!SkipIsCurrent, d, M!Distance
<1> QED
  BY <1>1, <1>10, <1>11 DEF MInv, M!TypeOK, PositionInHand

LEMMA SkipOther ==
    ASSUME MInv,
           \/ M!NoSkip \/ M!SkipCallbacksReturn
           \/ \E list \in M!Lists, pattern \in Patterns, set \in BOOLEAN :
                M!Ignore(list, pattern, set)
    PROVE  MInv'
<1>1. CASE M!NoSkip \/ M!SkipCallbacksReturn
  BY <1>1 DEF MInv, M!TypeOK, M!SkipIsCurrent, PositionInHand, M!NoSkip, M!SkipCallbacksReturn
<1>2. ASSUME NEW list \in M!Lists, NEW pattern \in Patterns, NEW set \in BOOLEAN,
             M!Ignore(list, pattern, set)
      PROVE  MInv'
  BY <1>2 DEF MInv, M!TypeOK, M!SkipIsCurrent, PositionInHand, M!Ignore
<1> QED
  BY <1>1, <1>2

LEMMA SkipInvariant == Spec => []MInv
<1>1. Init => MInv
  BY SkipInit DEF Init
<1>2. MInv /\ [Next]_vars => MInv'
  <2> SUFFICES ASSUME MInv, [Next]_vars PROVE MInv'
    OBVIOUS
  <2>1. CASE UNCHANGED skipVars
    BY <2>1 DEF skipVars, MInv, M!TypeOK, M!SkipIsCurrent, PositionInHand
  <2> QED
    BY <2>1, Alone, SkipReceivePacket, SkipGatewayCallback, SkipDetects, SkipOther DEF M!Next
<1> QED
  BY <1>1, <1>2, PTL DEF Spec

\* Whatever packets arrive and patterns are ignored, a skip is reported with the
\* positions that both stations sent last: Gateway's callback runs before SkipMonitor's.
THEOREM SkipsAreCurrent == Spec => []SkipIsCurrent
<1>1. MInv => SkipIsCurrent
  BY DEF MInv, SkipIsCurrent
<1> QED
  BY <1>1, SkipInvariant, PTL

-----------------------------------------------------------------------------
(* Packets *)

\* While the callbacks run, the slot they were handed holds the packet, as long as
\* its object exists; what ends the object is the loss of the connection.
Held ==
    IF place \in {"stopped", "receive"}
    THEN slot_of = nil /\ seen = nil
    ELSE /\ slot_of \in Handles
         /\ IF slot_of \in live THEN slot[slot_of] = handed ELSE lost

PInv == P!TypeOK /\ PacketsHandled /\ Held

LEMMA PacketsInit == P!Init => PInv
<1> SUFFICES ASSUME P!Init PROVE PInv
  OBVIOUS
<1>1. 1 \in 1..(Monitors + 1)
  BY PacketsAssumption
<1>2. P!TypeOK
  BY <1>1 DEF P!Init, P!TypeOK
<1>3. PacketsHandled
  BY DEF P!Init, PacketsHandled, P!SamePacketSeen, P!DecodedReleased
<1>4. Held
  BY DEF P!Init, Held
<1> QED
  BY <1>2, <1>3, <1>4 DEF PInv

\* The connection, with what may be sent in every callback.
LEMMA PacketsConnection ==
    ASSUME PInv,
           \/ \E h \in Handles : P!Connect(h)
           \/ \E p \in P!Received : P!ReadPacket(p)
           \/ P!Update \/ P!Closed
    PROVE  PInv'
<1> USE NilAssumption, PacketsAssumption
    DEF PInv, P!TypeOK, PacketsHandled, P!SamePacketSeen, P!DecodedReleased, Held, P!Goes
<1>1. ASSUME NEW h \in Handles, P!Connect(h) PROVE PInv'
  BY <1>1 DEF P!Connect, P!received
<1>2. ASSUME NEW p \in P!Received, P!ReadPacket(p) PROVE PInv'
  <2>1. PICK h \in live : slot_of' = h /\ slot' = [slot EXCEPT ![h] = p]
    BY <1>2 DEF P!ReadPacket
  <2>2. 1 \in 1..(Monitors + 1) /\ slot_of' \in Handles /\ slot'[slot_of'] = p
    BY <2>1
  <2>3. P!TypeOK'
    BY <1>2, <2>1, <2>2 DEF P!ReadPacket
  <2>4. PacketsHandled'
    BY <1>2 DEF P!ReadPacket
  <2>5. Held'
    BY <1>2, <2>2 DEF P!ReadPacket
  <2> QED
    BY <2>3, <2>4, <2>5
<1>3. CASE P!Update
  BY <1>3 DEF P!Update, P!SendsOrNot, P!connection, P!received
<1>4. CASE P!Closed
  BY <1>4 DEF P!Closed, P!connection, P!received
<1> QED
  BY <1>1, <1>2, <1>3, <1>4

\* Gateway's callback of OnReceivePacket, to the release of what it decoded.
LEMMA PacketsGateway ==
    ASSUME PInv,
           \/ P!DecodeMessage \/ P!DecodeMessageFails \/ P!PassMessage \/ P!AckMessage
           \/ P!ExecuteCommand \/ P!ReleaseMessage \/ P!HandlePosition \/ P!HandleOther
    PROVE  PInv'
<1> USE DEF PInv, P!TypeOK, PacketsHandled, P!SamePacketSeen, P!DecodedReleased, Held, P!Goes
<1>1. CASE P!DecodeMessage \/ P!DecodeMessageFails \/ P!PassMessage
  BY <1>1 DEF P!DecodeMessage, P!DecodeMessageFails, P!PassMessage, P!connection, P!received
<1>2. CASE P!AckMessage \/ P!ExecuteCommand
  BY <1>2 DEF P!AckMessage, P!ExecuteCommand, P!SendsOrNot, P!connection, P!received
<1>3. CASE P!ReleaseMessage \/ P!HandleOther
  BY <1>3 DEF P!ReleaseMessage, P!HandleOther, P!connection, P!received
<1>4. CASE P!HandlePosition
  <2>1. slot' = slot /\ \/ live' = live /\ lost' = lost
                        \/ live' = {} /\ lost' = TRUE
    BY <1>4 DEF P!HandlePosition, P!SendsOrNot, P!connection
  <2> QED
    BY <1>4, <2>1 DEF P!HandlePosition, P!received
<1> QED
  BY <1>1, <1>2, <1>3, <1>4

\* The callbacks after it.
LEMMA PacketsMonitors ==
    ASSUME PInv, P!Monitor \/ P!MonitorsDone
    PROVE  PInv'
<1> USE PacketsAssumption
    DEF PInv, P!TypeOK, PacketsHandled, P!SamePacketSeen, P!DecodedReleased, Held
<1>1. CASE P!Monitor
  <2>1. slot' = slot /\ \/ live' = live /\ lost' = lost
                        \/ live' = {} /\ lost' = TRUE
    BY <1>1 DEF P!Monitor, P!SendsOrNot, P!connection
  <2>2. IF slot_of \in live THEN seen' = handed ELSE seen' = Freed /\ lost
    BY <1>1 DEF P!Monitor
  <2>3. turn' \in 1..(Monitors + 1)
    BY <1>1 DEF P!Monitor
  <2> QED
    BY <1>1, <2>1, <2>2, <2>3 DEF P!Monitor
<1>2. CASE P!MonitorsDone
  BY <1>2 DEF P!MonitorsDone, P!Goes, P!connection
<1> QED
  BY <1>1, <1>2

LEMMA PacketsInvariant == Spec => []PInv
<1>1. Init => PInv
  BY PacketsInit DEF Init
<1>2. PInv /\ [Next]_vars => PInv'
  <2> SUFFICES ASSUME PInv, [Next]_vars PROVE PInv'
    OBVIOUS
  <2>1. CASE UNCHANGED packetVars
    BY <2>1 DEF packetVars, PInv, P!TypeOK, PacketsHandled, P!SamePacketSeen,
               P!DecodedReleased, Held
  <2> QED
    BY <2>1, Alone, PacketsConnection, PacketsGateway, PacketsMonitors DEF P!Next
<1> QED
  BY <1>1, <1>2, PTL DEF Spec

\* Whichever of its branches Gateway's callback takes, and whatever the callbacks send,
\* each of them finds the packet that was read unless the connection was lost since,
\* and no decoded message outlives the callback that made it.
THEOREM PacketsAreHandled == Spec => []PacketsHandled
<1>1. PInv => PacketsHandled
  BY DEF PInv
<1> QED
  BY <1>1, PacketsInvariant, PTL

-----------------------------------------------------------------------------
(* Threads *)

\* Whoever is inside a call holds the mutex, and the line that stands is the prompt
\* of the thread that reads.
InsideHolds ==
    \A t \in T!Everyone : pc[t] \in {"prompt", "read", "write", "unlock"} => mutex = t

PromptStands == line # nil => pc[line] = "read"

\* The worker that Main waits for was not joined before.
AskedOnce == asked \notin joined

TInv == /\ T!TypeOK /\ ThreadsJoined /\ T!LinesWhole /\ T!MutexAbandoned
        /\ InsideHolds /\ PromptStands /\ AskedOnce

LEMMA ThreadsInit == T!Init => TInv
BY NilAssumption, ThreadsAssumption
DEF T!Init, TInv, T!TypeOK, T!Everyone, ThreadsJoined, T!JoinedEnded, T!LeakedWereMissed,
    T!LinesWhole, T!MutexAbandoned, InsideHolds, PromptStands, AskedOnce

\* Thread.Start, Thread.Join and the end of a thread leave the console alone.
LEMMA ThreadsStartJoin ==
    ASSUME TInv,
           \/ \E w \in Workers :
                T!Start(w) \/ T!StartFails(w) \/ T!Ends(w) \/ T!JoinMissed(w) \/ T!Join(w)
           \/ T!JoinEnds \/ T!JoinTimesOut
    PROVE  TInv'
<1> USE NilAssumption, ThreadsAssumption
    DEF TInv, T!TypeOK, T!Everyone, ThreadsJoined, T!JoinedEnded, T!LeakedWereMissed,
        T!LinesWhole, T!MutexAbandoned, InsideHolds, PromptStands, AskedOnce,
        T!Goes, T!console, T!threads
<1>1. ASSUME NEW w \in Workers, T!Start(w) PROVE TInv'
  BY <1>1 DEF T!Start
<1>2. ASSUME NEW w \in Workers, T!StartFails(w) PROVE TInv'
  BY <1>2 DEF T!StartFails
<1>3. ASSUME NEW w \in Workers, T!Ends(w) PROVE TInv'
  BY <1>3 DEF T!Ends
<1>4. ASSUME NEW w \in Workers, T!JoinMissed(w) PROVE TInv'
  BY <1>4 DEF T!JoinMissed
<1>5. ASSUME NEW w \in Workers, T!Join(w) PROVE TInv'
  BY <1>5 DEF T!Join
<1>6. CASE T!JoinEnds
  BY <1>6 DEF T!JoinEnds
<1>7. CASE T!JoinTimesOut
  BY <1>7 DEF T!JoinTimesOut
<1> QED
  BY <1>1, <1>2, <1>3, <1>4, <1>5, <1>6, <1>7

\* ReadLine and WriteLine leave the thread objects alone.
LEMMA ThreadsConsole ==
    ASSUME TInv, NEW t \in T!Everyone, T!ReadLine(t) \/ T!WriteLine(t) \/ T!Unlock(t)
    PROVE  TInv'
<1> USE NilAssumption, ThreadsAssumption
    DEF TInv, T!TypeOK, T!Everyone, ThreadsJoined, T!JoinedEnded, T!LeakedWereMissed,
        T!LinesWhole, T!MutexAbandoned, InsideHolds, PromptStands, AskedOnce,
        T!Goes, T!console, T!threads
<1>1. ASSUME NEW lock \in {"lock_read", "lock_write"}, T!Call(t, lock) PROVE TInv'
  BY <1>1 DEF T!Call
<1>2. ASSUME NEW lock \in {"lock_read", "lock_write"}, NEW then \in {"prompt", "write"},
             T!Lock(t, lock, then)
      PROVE  TInv'
  BY <1>2 DEF T!Lock
<1>3. CASE T!Prompt(t)
  BY <1>3 DEF T!Prompt, T!Output
<1>4. CASE T!Read(t) \/ T!Write(t)
  BY <1>4 DEF T!Read, T!Write, T!Output
<1>5. CASE T!WriteRaises(t)
  BY <1>5 DEF T!WriteRaises
<1>6. CASE T!Unlock(t)
  BY <1>6 DEF T!Unlock
<1> QED
  BY <1>1, <1>2, <1>3, <1>4, <1>5, <1>6 DEF T!ReadLine, T!WriteLine

LEMMA ThreadsInvariant == Spec => []TInv
<1>1. Init => TInv
  BY ThreadsInit DEF Init
<1>2. TInv /\ [Next]_vars => TInv'
  <2> SUFFICES ASSUME TInv, [Next]_vars PROVE TInv'
    OBVIOUS
  <2>1. CASE UNCHANGED threadVars
    BY <2>1 DEF threadVars, TInv, T!TypeOK, ThreadsJoined, T!JoinedEnded, T!LeakedWereMissed,
               T!LinesWhole, T!MutexAbandoned, InsideHolds, PromptStands, AskedOnce
  <2> QED
    BY <2>1, Alone, ThreadsStartJoin, ThreadsConsole DEF T!Next
<1> QED
  BY <1>1, <1>2, PTL DEF Spec

\* However many threads run, and whenever the time of a Join is up, no running thread
\* is deleted, what was joined has ended, and what leaks had ended before.
THEOREM ThreadsAreJoined == Spec => []ThreadsJoined
<1>1. TInv => ThreadsJoined
  BY DEF TInv
<1> QED
  BY <1>1, ThreadsInvariant, PTL

\* No thread writes into the prompt of another, and the mutex is left locked only by
\* one that raised an error inside: the safety part of ConsoleServed.
THEOREM ConsoleIsKept == Spec => [](T!LinesWhole /\ T!MutexAbandoned)
<1>1. TInv => T!LinesWhole /\ T!MutexAbandoned
  BY DEF TInv
<1> QED
  BY <1>1, ThreadsInvariant, PTL

-----------------------------------------------------------------------------
(* Messaging *)

\* A message in hand was taken off the wire and is new to the gateway; one that was
\* executed is on neither, and its station has the ack or will.
UntroubledOnce(m) ==
    /\ executed[m] <= 1
    /\ executed[m] = 1 => m \notin wire /\ current # m
    /\ executed[m] = 1 => m \in acks \/ station[m] = "confirmed"
    /\ current = m => m \notin wire /\ executed[m] = 0
    /\ current = m => step = "ack" \/ m \in acks \/ station[m] = "confirmed"

Once == \A m \in Numbered : m \notin troubled => UntroubledOnce(m)

GInv == G!TypeOK /\ ConfirmedHandled /\ Once

LEMMA MessagesInit == G!Init => GInv
BY NilAssumption, MessagingAssumption
DEF G!Init, GInv, G!TypeOK, ConfirmedHandled, G!ConfirmedHandled, Once, UntroubledOnce

\* The stations and the network leave an untroubled message where it was.
LEMMA MessagesOnTheWire ==
    ASSUME GInv, NEW m \in Numbered,
           G!Send(m) \/ G!Retry(m) \/ G!Lose(m) \/ G!LoseAck(m) \/ G!AckArrives(m)
    PROVE  GInv'
<1> USE NilAssumption, MessagingAssumption
    DEF GInv, G!TypeOK, ConfirmedHandled, G!ConfirmedHandled, Once, UntroubledOnce
<1>1. CASE G!Send(m)
  BY <1>1 DEF G!Send, G!gateway, G!history
<1>2. CASE G!Retry(m)
  BY <1>2 DEF G!Retry, G!gateway
<1>3. CASE G!Lose(m)
  BY <1>3 DEF G!Lose, G!gateway, G!history
<1>4. CASE G!LoseAck(m)
  BY <1>4 DEF G!LoseAck, G!gateway
<1>5. CASE G!AckArrives(m)
  BY <1>5 DEF G!AckArrives, G!gateway, G!history
<1> QED
  BY <1>1, <1>2, <1>3, <1>4, <1>5

\* So does the gateway.
LEMMA MessagesInTheGateway ==
    ASSUME GInv,
           \/ \E m \in Numbered : G!Receive(m) \/ G!ReceiveAckLike(m)
           \/ G!SendMessageAck \/ G!SendMessageAckFails \/ G!Execute
           \/ G!ConnectionLost \/ G!Reconnect \/ G!Crash
    PROVE  GInv'
<1> USE NilAssumption, MessagingAssumption
    DEF GInv, G!TypeOK, ConfirmedHandled, G!ConfirmedHandled, Once, UntroubledOnce
<1>1. ASSUME NEW m \in Numbered, G!Receive(m) PROVE GInv'
  BY <1>1 DEF G!Receive, G!Delivered
<1>2. ASSUME NEW m \in Numbered, G!ReceiveAckLike(m) PROVE GInv'
  BY <1>2 DEF G!ReceiveAckLike, G!Delivered, G!gateway
<1>3. CASE G!SendMessageAck
  BY <1>3 DEF G!SendMessageAck, G!history
<1>4. CASE G!SendMessageAckFails
  BY <1>4 DEF G!SendMessageAckFails
<1>5. CASE G!Execute
  BY <1>5 DEF G!Execute, G!history
<1>6. CASE G!ConnectionLost \/ G!Reconnect
  BY <1>6 DEF G!ConnectionLost, G!Reconnect, G!history
<1>7. CASE G!Crash
  BY <1>7 DEF G!Crash
<1> QED
  BY <1>1, <1>2, <1>3, <1>4, <1>5, <1>6, <1>7

LEMMA MessagesInvariant == Spec => []GInv
<1>1. Init => GInv
  BY MessagesInit DEF Init
<1>2. GInv /\ [Next]_vars => GInv'
  <2> SUFFICES ASSUME GInv, [Next]_vars PROVE GInv'
    OBVIOUS
  <2>1. CASE UNCHANGED messageVars
    BY <2>1 DEF messageVars, GInv, G!TypeOK, ConfirmedHandled, G!ConfirmedHandled, Once,
               UntroubledOnce
  <2> QED
    BY <2>1, Alone, MessagesOnTheWire, MessagesInTheGateway DEF G!Next
<1> QED
  BY <1>1, <1>2, PTL DEF Spec

\* A message that its station takes for delivered has been executed, or will be
\* unless the process ends in the one step between ack and command.
THEOREM ConfirmedAreHandled == Spec => []ConfirmedHandled
<1>1. GInv => ConfirmedHandled
  BY DEF GInv
<1> QED
  BY <1>1, MessagesInvariant, PTL

\* A message is executed more than once only if its ack was lost or not sent, the
\* network repeated it, or its station sent it again before the ack could arrive.
THEOREM RepeatedOnlyByTrouble == Spec => []RepeatedByTrouble
<1>1. GInv => RepeatedByTrouble
  BY DEF GInv, G!TypeOK, Once, UntroubledOnce, RepeatedByTrouble, G!RepeatedByTrouble
<1> QED
  BY <1>1, MessagesInvariant, PTL

-----------------------------------------------------------------------------
\* Whatever callbacks, plugins, threads and stations do, every state has the types of
\* the modules, with what their type invariants say of the handlers in progress.
THEOREM TypeCorrect == Spec => []TypeOK
<1>1. ZInv /\ FInv /\ MInv /\ PInv /\ TInv /\ GInv => TypeOK
  BY DEF ZInv, FInv, MInv, PInv, TInv, GInv, TypeOK
<1> QED
  BY <1>1, ZonesInvariant, SourcesInvariant, SkipInvariant, PacketsInvariant,
     ThreadsInvariant, MessagesInvariant, PTL
=============================================================================
