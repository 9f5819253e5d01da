----------------------------- MODULE FireSources -----------------------------
(***************************************************************************)
(* The sources of the FireWatch plugin.  Connected to APRS-IS, the gateway *)
(* executes PollSources, which arms a timer for the next poll and goes     *)
(* over the end points: a source that is not connected is connected to,    *)
(* one that is is asked for a packet.  The table of their sockets,         *)
(* Sources.Sockets, is nowhere created, so an end point that accepts the   *)
(* connection raises an error, which ends the script; so does the end of   *)
(* the gateway's connection, as Sources.Disconnect is not defined.         *)
(***************************************************************************)
EXTENDS FiniteSets

CONSTANTS EndPoints

VARIABLES script,     \* "init", "running", "raised" or "ended"
          endPoints,  \* Sources.EndPoints
          listening,  \* end points that accept connections
          polling,    \* those that Sources.Poll has still to look at
          timer,      \* whether PollSources is scheduled
          sockets,    \* end points with an open socket
          handle,     \* Gateway.Private.APRS.IS.Handle
          tried       \* history: end points tried in the last poll

vars == <<script, endPoints, listening, polling, timer, sockets, handle, tried>>
poll == <<polling, timer, sockets, tried>>

Running == script = "running" /\ polling = {}

Init ==
    /\ script = "init" /\ endPoints = {} /\ listening \in SUBSET EndPoints
    /\ polling = {} /\ timer = FALSE /\ sockets = {} /\ handle = FALSE
    /\ tried = {}

\* Sources.Add
Add(e) ==
    /\ script = "init" \/ Running
    /\ endPoints' = endPoints \cup {e}
    /\ UNCHANGED <<script, listening, handle, poll>>

\* Sources.Remove: IsSourceConnected is false without a table of sockets.
Remove(e) ==
    /\ script = "init" \/ Running
    /\ endPoints' = endPoints \ {e}
    /\ UNCHANGED <<script, listening, handle, poll>>

\* A source starts or stops listening.
Toggle(e) ==
    /\ script # "raised"
    /\ listening' = IF e \in listening THEN listening \ {e} ELSE listening \cup {e}
    /\ UNCHANGED <<script, endPoints, handle, poll>>

\* The callback of PollSources: the timer is armed before the poll.
PollSources ==
    /\ timer' = TRUE /\ polling' = endPoints /\ tried' = {}
    /\ UNCHANGED <<endPoints, listening, sockets>>

Connected ==
    /\ script = "init" /\ script' = "running" /\ handle' = TRUE
    /\ PollSources

TimerFires ==
    /\ Running /\ timer
    /\ PollSources /\ UNCHANGED <<script, handle>>

\* Mutant of ConnectFails: the socket is not closed.
ConnectFailsOpen(e) ==
    /\ script = "running" /\ e \in polling \ listening
    /\ polling' = polling \ {e} /\ tried' = tried \cup {e}
    /\ sockets' = sockets \cup {e}
    /\ UNCHANGED <<script, endPoints, listening, timer, handle>>

\* ConnectSource: the end point does not accept, the socket is closed.
ConnectFails(e) ==
    /\ script = "running" /\ e \in polling \ listening
    /\ polling' = polling \ {e} /\ tried' = tried \cup {e}
    /\ UNCHANGED <<script, endPoints, listening, timer, sockets, handle>>

\* ConnectSource: the end point accepts, and the socket cannot be stored.
ConnectRaises(e) ==
    /\ script = "running" /\ e \in polling \cap listening
    /\ script' = "raised"
    /\ sockets' = sockets \cup {e}
    /\ UNCHANGED <<endPoints, listening, polling, timer, handle, tried>>

\* Gateway.Private.APRS.IS.Disconnect: its handle is released after OnDisconnected.
DisconnectRaises ==
    /\ Running /\ script' = "raised"
    /\ UNCHANGED <<endPoints, listening, handle, poll>>

\* Gateway.Run fails before it connects.
RunFails ==
    /\ script = "init" /\ script' = "ended"
    /\ UNCHANGED <<endPoints, listening, handle, poll>>

Next ==
    \/ \E e \in EndPoints :
         Add(e) \/ Remove(e) \/ Toggle(e) \/ ConnectFails(e) \/ ConnectRaises(e)
    \/ Connected \/ TimerFires \/ DisconnectRaises \/ RunFails

Spec == Init /\ [][Next]_vars

\* Timers that are armed fire, and a poll goes on.
Fairness ==
    /\ WF_vars(TimerFires)
    /\ WF_vars(\E e \in EndPoints : ConnectFails(e) \/ ConnectRaises(e))

FairSpec == Spec /\ Fairness

-----------------------------------------------------------------------------
\* The type invariant; a timer and a poll are there only once the script has connected.
TypeOK ==
    /\ script \in {"init", "running", "raised", "ended"} /\ handle \in BOOLEAN
    /\ endPoints \cup listening \cup polling \cup sockets \cup tried \subseteq EndPoints
    /\ timer \in BOOLEAN
    /\ timer \/ polling # {} => script \in {"running", "raised"}

\* However often a source refuses, no socket is left open while the script runs.
RefusedSocketsClosed == script # "raised" => sockets = {}

\* A source that is added and stays is tried, and if it listens from then on the
\* poll reaches it, unless the script has ended before.
SourcesTried ==
    \A e \in EndPoints :
      (script = "running" /\ e \in endPoints) ~> (e \in tried \/ e \notin endPoints \/ script = "raised")
=============================================================================
