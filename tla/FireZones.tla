------------------------------ MODULE FireZones ------------------------------
(***************************************************************************)
(* The fires and stations of the FireWatch plugin.  A position report is   *)
(* compared with the zones of the fires at that moment, and with the       *)
(* position the station was stored at before; events tell the script that  *)
(* the station entered, left or moved within a zone.  The packets of the   *)
(* sources are taken as inputs here; FireSources has what becomes of them. *)
(***************************************************************************)
EXTENDS FiniteSets

CONSTANTS Stations, Fires, Positions, nil

VARIABLES burning,  \* the keys of Private.Fires
          zones,    \* the positions in reach of a hotspot of a fire
          stored,   \* Private.StationPositions
          at,       \* history: where a station last reported itself
          inside,   \* history: the zones the events have a station in
          changed   \* history: fires added or updated since they last concerned the station

vars == <<burning, zones, stored, at, inside, changed>>

\* The fires with a hotspot whose radius reaches a position.
FindFires(position) == {f \in burning : position \in zones[f]}

Init ==
    /\ burning = {} /\ zones = [f \in Fires |-> {}]
    /\ stored = [s \in Stations |-> nil] /\ at = [s \in Stations |-> nil]
    /\ inside = [s \in Stations |-> {}] /\ changed = [s \in Stations |-> {}]

\* The events for a station that reports position, with previous the fires of its
\* stored position, are seen by the script.
Report(station, position, previous) ==
    LET fires == FindFires(position)
        left == previous \ fires
    IN  /\ inside' = [inside EXCEPT ![station] = (@ \cup fires) \ left]
        /\ changed' = [changed EXCEPT ![station] = @ \ (fires \cup left)]
        /\ at' = [at EXCEPT ![station] = position]

\* Mutant of OnReceivePosition: the stored position is read after it is set.
OnReceivePositionSetFirst(station, position) ==
    LET known == stored[station] # nil
    IN  /\ stored' = [stored EXCEPT ![station] =
                        IF known /\ FindFires(position) = {} THEN nil ELSE position]
        /\ Report(station, position, FindFires(position))
        /\ UNCHANGED <<burning, zones>>

\* A position report.  A station counts as entering if nothing is stored of it; a
\* known one that is in no zone is forgotten.
OnReceivePosition(station, position) ==
    LET known == stored[station] # nil
    IN  /\ stored' = [stored EXCEPT ![station] =
                        IF known /\ FindFires(position) = {} THEN nil ELSE position]
        /\ Report(station, position, IF known THEN FindFires(stored[station]) ELSE {})
        /\ UNCHANGED <<burning, zones>>

Change(fire) == changed' = [s \in Stations |-> changed[s] \cup {fire}]

\* AddFire also replaces a fire that is there.
AddFire(fire, zone) ==
    /\ burning' = burning \cup {fire}
    /\ zones' = [zones EXCEPT ![fire] = zone]
    /\ Change(fire)
    /\ UNCHANGED <<stored, at, inside>>

UpdateFire(fire, zone) ==
    /\ fire \in burning
    /\ zones' = [zones EXCEPT ![fire] = zone]
    /\ Change(fire)
    /\ UNCHANGED <<burning, stored, at, inside>>

\* RemoveFire: the script learns that the fire is extinguished.
RemoveFire(fire) ==
    /\ fire \in burning
    /\ burning' = burning \ {fire} /\ zones' = [zones EXCEPT ![fire] = {}]
    /\ inside' = [s \in Stations |-> inside[s] \ {fire}]
    /\ UNCHANGED <<stored, at, changed>>

Next ==
    \/ \E s \in Stations, p \in Positions : OnReceivePosition(s, p)
    \/ \E f \in Fires :
         \/ \E zone \in SUBSET Positions : AddFire(f, zone) \/ UpdateFire(f, zone)
         \/ RemoveFire(f)

Spec == Init /\ [][Next]_vars

-----------------------------------------------------------------------------
\* The type invariant; what is stored of a station is where it last was.
TypeOK ==
    /\ burning \subseteq Fires /\ zones \in [Fires -> SUBSET Positions]
    /\ stored \in [Stations -> Positions \cup {nil}]
    /\ \A s \in Stations : stored[s] \in {nil, at[s]}
    /\ inside \in [Stations -> SUBSET Fires] /\ changed \in [Stations -> SUBSET Fires]

\* A script that keeps the zones of a station by the events knows them, but for
\* fires that were added or updated in between: of a station that such a change
\* leaves outside no event ever tells that it has left.
ZonesKnown ==
    \A s \in Stations, f \in Fires :
      at[s] # nil /\ f \notin changed[s] => (f \in inside[s] <=> f \in FindFires(at[s]))
=============================================================================
