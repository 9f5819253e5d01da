------------------------------ MODULE Gateway ------------------------------
(***************************************************************************)
(* A session of Gateway.lua: Init, Run and its loop, the handling of       *)
(* received packets, the sends, and Disconnect with its re-entrant         *)
(* OnDisconnected event, over the APRS-IS binding of AprsIs.  Everything   *)
(* runs on the script's one thread; what interleaves with it is the server *)
(* and, at every event, the user's callbacks, which may send.              *)
(*                                                                         *)
(* Storage and the scheduled events have modules of their own              *)
(* (GatewayStorage, EventScheduler): here the database is open or closed   *)
(* and only the number of waiting SaveStorage events is kept.              *)
(***************************************************************************)
EXTENDS AprsIs

CONSTANTS Beacons,   \* the OnUpdate callbacks send in every update
          MaxInits,  \* bound: calls of Gateway.Init
          MaxRuns,   \* bound: calls of Gateway.Run
          MaxSaves,  \* bound: SaveStorage events waiting
          MaxNest    \* bound: depth of Disconnect called from OnDisconnected

ASSUME BeaconsAssumption == Beacons \in BOOLEAN
ASSUME BoundsAssumption ==
    {MaxInits, MaxRuns, MaxSaves, MaxNest} \subseteq Nat /\ MaxNest > 0

VARIABLES pc,         \* where the script is
          handle,     \* Gateway.Private.APRS.IS.Handle
          nest,       \* activations of Disconnect whose OnDisconnected runs
          round,      \* Gateway's OnReceivePacket callbacks yet to run
          handlers,   \* Gateway's callbacks registered, one pair per Init
          saves,      \* SaveStorage events waiting in the scheduler
          db,         \* Gateway.Private.Database.Handle is set
          exitCode,   \* the script's exit code
          inits, runs,  \* calls so far
          sent,       \* OnUpdate's beacon of this update has been sent
          acked,      \* history: the client took the ack of this message
          lostIn,     \* history: where the connection of this run was given up
          farewells,  \* history: OnDisconnected events of this run
          reentered   \* history: one of them was raised from within another

session == <<handlers, saves, db, exitCode, inits, runs>>
history == <<acked, lostIn, farewells, reentered>>
vars == <<apiVars, pc, handle, nest, round, session, sent, history>>

Init ==
    /\ ApiInit
    /\ pc = "start"
    /\ handle = NoHandle
    /\ nest = 0
    /\ round = 0
    /\ handlers = 0
    /\ saves = 0
    /\ db = FALSE
    /\ exitCode = "Success"
    /\ inits = 0
    /\ runs = 0
    /\ sent = FALSE
    /\ acked = FALSE
    /\ lostIn = "none"
    /\ farewells = 0
    /\ reentered = FALSE

\* The places where callbacks of the user run.
CallbackPhases == {"connected", "answer", "handlers", "timers", "onupdate"}

\* The places inside the receive loop of OnUpdate at which a packet is handled.
ReceivePhases == {"gateway", "answer", "handlers"}

LoopPhases == ReceivePhases \cup {"update", "receive", "timers", "onupdate"}

Stopped == {"start", "ended", "failed"}

IsConnected == handle # NoHandle

\* The script proper runs, not an OnDisconnected callback.
At(place) == pc = place /\ nest = 0

-----------------------------------------------------------------------------
\* Gateway.Init

InitSucceeds ==
    /\ pc \in Stopped /\ ~db
    /\ inits < MaxInits
    /\ db' = TRUE
    /\ handlers' = handlers + 1
    /\ inits' = inits + 1
    /\ pc' = "ready"
    /\ UNCHANGED <<apiVars, handle, nest, round, saves, exitCode, runs, sent, history>>

\* Database.Open fails, because it is open already or for a reason of its own,
\* or Storage.Load fails and closes it again.
InitFails ==
    /\ pc \in Stopped \cup {"ready"}
    /\ inits < MaxInits
    /\ exitCode' \in IF db THEN {"OpenFailed"} ELSE {"OpenFailed", "LoadFailed"}
    /\ inits' = inits + 1
    /\ UNCHANGED <<apiVars, pc, handle, nest, round, handlers, saves, db, runs, sent, history>>

-----------------------------------------------------------------------------
\* Gateway.Run, up to its loop.  A script may call it again.

RunConnects ==
    /\ pc \in {"ready", "ended", "failed"}
    /\ handlers > 0
    /\ runs < MaxRuns
    /\ \E h \in Handles : AprsInitConnect(h) /\ handle' = h
    /\ pc' = "connected"
    /\ runs' = runs + 1
    /\ lostIn' = "none"
    /\ farewells' = 0
    /\ reentered' = FALSE
    /\ UNCHANGED <<nest, round, handlers, saves, db, exitCode, inits, sent, acked>>

\* Mutant of RunConnectFails: the database stays open.
RunConnectFailsOpen ==
    /\ pc \in {"ready", "ended", "failed"}
    /\ handlers > 0
    /\ runs < MaxRuns
    /\ exitCode' = "ConnectionFailed"
    /\ pc' = "failed"
    /\ runs' = runs + 1
    /\ UNCHANGED <<apiVars, handle, nest, round, handlers, saves, db, inits, sent, history>>

\* Connect deletes the handle it made; Run closes the database.
RunConnectFails ==
    /\ pc \in {"ready", "ended", "failed"}
    /\ handlers > 0
    /\ runs < MaxRuns
    /\ db' = FALSE
    /\ exitCode' = "ConnectionFailed"
    /\ pc' = "failed"
    /\ runs' = runs + 1
    /\ UNCHANGED <<apiVars, handle, nest, round, handlers, saves, inits, sent, history>>

\* The OnConnected callbacks return: SaveStorage is scheduled, the loop begins.
LoopBegins ==
    /\ At("connected")
    /\ saves < MaxSaves
    /\ saves' = saves + 1
    /\ pc' = "update"
    /\ UNCHANGED <<apiVars, handle, nest, round, handlers, db, exitCode, inits, runs,
                   sent, history>>

-----------------------------------------------------------------------------
\* Disconnect, and the sends that call it.

\* Disconnect begins: the OnDisconnected callbacks start, the handle still set.
BeginDisconnect ==
    /\ nest' = nest + 1
    /\ farewells' = farewells + 1
    /\ reentered' = (reentered \/ nest > 0)
    /\ UNCHANGED <<acked, lostIn>>

\* Mutant of EndDisconnect: the handle is not reset.
EndDisconnectKeepsHandle ==
    /\ nest > 0
    /\ AprsRelease(handle)
    /\ nest' = nest - 1
    /\ lostIn' = IF IsConnected THEN pc ELSE lostIn
    /\ UNCHANGED <<pc, handle, round, session, sent, acked, farewells, reentered>>

\* The OnDisconnected callbacks return: the handle, read anew, is released.
EndDisconnect ==
    /\ nest > 0
    /\ AprsRelease(handle)
    /\ handle' = NoHandle
    /\ nest' = nest - 1
    /\ lostIn' = IF IsConnected THEN pc ELSE lostIn
    /\ UNCHANGED <<pc, round, session, sent, acked, farewells, reentered>>

\* A callback of the user calls SendPacket or SendMessage, which fails.  (One
\* that succeeds, or finds the gateway not connected, changes nothing here.)
CallbackSendFails ==
    /\ nest > 0 \/ pc \in CallbackPhases
    /\ nest < MaxNest
    /\ IsConnected
    /\ SendFails(handle)
    /\ BeginDisconnect
    /\ UNCHANGED <<pc, handle, round, session, sent>>

-----------------------------------------------------------------------------
\* OnUpdate, its receive loop, and the OnReceivePacket event.

BeginUpdate ==
    /\ At("update")
    /\ pc' = IF IsConnected THEN "receive" ELSE "leave"
    /\ UNCHANGED <<apiVars, handle, nest, round, session, sent, history>>

\* ReceivePacket returns a packet: the OnReceivePacket event begins, with the
\* callbacks that Gateway.Init registered.
ReceivePacket ==
    /\ At("receive") /\ IsConnected
    /\ ReadPacket(handle)
    /\ round' = handlers
    /\ pc' = "gateway"
    /\ UNCHANGED <<handle, nest, session, sent, history>>

\* ReceivePacket returns would_block, nil: the receive loop is left.
ReceiveWouldBlock ==
    /\ At("receive") /\ IsConnected
    /\ ReadNothing(handle) \/ ReadNotices(handle) \/ ReadThrows(handle)
    /\ pc' = "timers"
    /\ UNCHANGED <<handle, nest, round, session, sent, history>>

\* Mutant of ReceiveClosed: no exit code.
ReceiveClosedSilently ==
    /\ At("receive") /\ ~IsConnected
    /\ ReadNull
    /\ pc' = "leave"
    /\ UNCHANGED <<handle, nest, round, session, sent, history>>

\* A callback has lost the connection: ReadPacket(nil) returns false, nil.
ReceiveClosed ==
    /\ At("receive") /\ ~IsConnected
    /\ ReadNull
    /\ exitCode' = "ConnectionClosed"
    /\ pc' = "leave"
    /\ UNCHANGED <<handle, nest, round, handlers, saves, db, inits, runs, sent, history>>

\* Where Gateway's callback goes next: to OnReceiveMessage, a command or
\* OnReceivePosition, or to the end of the callback.
AfterPacket(answered) ==
    /\ round' = round - 1
    /\ pc' = IF answered THEN "answer" ELSE IF round > 1 THEN "gateway" ELSE "handlers"

\* A packet that asks for no ack: a message for us, a position, or one that is
\* ignored (a message for others or that looks like an ack, or undecodable).
HandlePacket ==
    /\ At("gateway")
    /\ read.packet # "acked"
    /\ AfterPacket(read.packet \in {"message", "position"})
    /\ acked' = FALSE
    /\ UNCHANGED <<apiVars, handle, nest, session, sent, lostIn, farewells, reentered>>

\* Mutant of HandleAckedMessage: the message is answered first.
HandleAckedMessageLate ==
    /\ At("gateway")
    /\ read.packet = "acked"
    /\ AfterPacket(TRUE)
    /\ acked' = FALSE
    /\ UNCHANGED <<apiVars, handle, nest, session, sent, lostIn, farewells, reentered>>

\* A message that asks for an ack: the ack is sent before anything else.
HandleAckedMessage ==
    /\ At("gateway")
    /\ read.packet = "acked"
    /\ AfterPacket(TRUE)
    /\ \/ /\ ~IsConnected
          /\ acked' = FALSE
          /\ UNCHANGED <<apiVars, nest, lostIn, farewells, reentered>>
       \/ /\ IsConnected /\ SendOk(handle)
          /\ acked' = TRUE
          /\ UNCHANGED <<nest, lostIn, farewells, reentered>>
       \/ /\ IsConnected /\ SendFails(handle)
          /\ acked' = FALSE
          /\ nest' = 1
          /\ farewells' = farewells + 1
          /\ UNCHANGED <<lostIn, reentered>>
    /\ UNCHANGED <<handle, session, sent>>

\* The callbacks that answer the packet return.
AnswerReturns ==
    /\ At("answer")
    /\ pc' = IF round > 0 THEN "gateway" ELSE "handlers"
    /\ UNCHANGED <<apiVars, handle, nest, round, session, sent, history>>

\* The user's own OnReceivePacket callbacks return; the next packet is read.
HandlersReturn ==
    /\ At("handlers")
    /\ pc' = "receive"
    /\ UNCHANGED <<apiVars, handle, nest, round, session, sent, history>>

\* Mutant of SaveStorageFires: the callback does not reschedule.
SaveStorageFiresOnce ==
    /\ At("timers")
    /\ saves > 0
    /\ saves' = saves - 1
    /\ UNCHANGED <<apiVars, pc, handle, nest, round, handlers, db, exitCode, inits, runs,
                   sent, history>>

\* A SaveStorage event is due: each registered callback saves and reschedules.
SaveStorageFires ==
    /\ At("timers")
    /\ saves > 0
    /\ saves - 1 + handlers <= MaxSaves
    /\ saves' = saves - 1 + handlers
    /\ UNCHANGED <<apiVars, pc, handle, nest, round, handlers, db, exitCode, inits, runs,
                   sent, history>>

TimersReturn ==
    /\ At("timers")
    /\ pc' = "onupdate"
    /\ sent' = FALSE
    /\ UNCHANGED <<apiVars, handle, nest, round, session, history>>

\* Mutant of Beacon: a failed send does not disconnect.
BeaconIgnoresFailure ==
    /\ At("onupdate")
    /\ Beacons /\ ~sent
    /\ sent' = TRUE
    /\ \/ ~IsConnected /\ UNCHANGED <<apiVars, nest, history>>
       \/ IsConnected /\ (SendOk(handle) \/ SendFails(handle)) /\ UNCHANGED <<nest, history>>
    /\ UNCHANGED <<pc, handle, round, session>>

\* The OnUpdate callback sends its beacon.
Beacon ==
    /\ At("onupdate")
    /\ Beacons /\ ~sent
    /\ sent' = TRUE
    /\ \/ ~IsConnected /\ UNCHANGED <<apiVars, nest, history>>
       \/ IsConnected /\ SendOk(handle) /\ UNCHANGED <<nest, history>>
       \/ IsConnected /\ SendFails(handle) /\ BeginDisconnect
    /\ UNCHANGED <<pc, handle, round, session>>

\* The OnUpdate callbacks return, OnUpdate returns true, Loop.Sync follows.
OnUpdateReturns ==
    /\ At("onupdate")
    /\ Beacons => sent
    /\ pc' = "update"
    /\ UNCHANGED <<apiVars, handle, nest, round, session, sent, history>>

-----------------------------------------------------------------------------
\* Gateway.Run after its loop.

RunDisconnects ==
    /\ At("leave")
    /\ pc' = "save"
    /\ IF IsConnected
         THEN BeginDisconnect
         ELSE UNCHANGED <<nest, history>>
    /\ UNCHANGED <<apiVars, handle, round, session, sent>>

RunReturns ==
    /\ At("save")
    /\ db' = FALSE
    /\ pc' = "ended"
    /\ UNCHANGED <<apiVars, handle, nest, round, handlers, saves, exitCode, inits, runs,
                   sent, history>>

-----------------------------------------------------------------------------
Server ==
    /\ \E h \in Handles : ServerCloses(h) \/ \E p \in Packets : PacketArrives(h, p)
    /\ UNCHANGED <<pc, handle, nest, round, session, sent, history>>

Next ==
    \/ Server
    \/ InitSucceeds \/ InitFails
    \/ RunConnects \/ RunConnectFails \/ LoopBegins
    \/ CallbackSendFails \/ EndDisconnect
    \/ BeginUpdate
    \/ ReceivePacket \/ ReceiveWouldBlock \/ ReceiveClosed
    \/ HandlePacket \/ HandleAckedMessage \/ AnswerReturns \/ HandlersReturn
    \/ SaveStorageFires \/ TimersReturn
    \/ Beacon \/ OnUpdateReturns
    \/ RunDisconnects \/ RunReturns

Spec == Init /\ [][Next]_vars

\* The script's thread goes on and callbacks return.  Nothing is assumed of the
\* server; SaveStorageFires needs none (EventScheduler: an update ends).
Fairness ==
    /\ WF_vars(LoopBegins) /\ WF_vars(EndDisconnect) /\ WF_vars(BeginUpdate)
    /\ WF_vars(ReceivePacket \/ ReceiveWouldBlock) /\ WF_vars(ReceiveClosed)
    /\ WF_vars(HandlePacket) /\ WF_vars(HandleAckedMessage)
    /\ WF_vars(AnswerReturns) /\ WF_vars(HandlersReturn)
    /\ WF_vars(TimersReturn) /\ WF_vars(Beacon) /\ WF_vars(OnUpdateReturns)
    /\ WF_vars(RunDisconnects) /\ WF_vars(RunReturns)

FairSpec == Spec /\ Fairness

\* Sends on a connection whose server is gone do not succeed for ever.
SendsFailEventually ==
    SF_vars(Beacon /\ nest' > nest /\ link[handle] # "up")

BeaconSpec == FairSpec /\ SendsFailEventually

-----------------------------------------------------------------------------
\* The type invariant of a session.
TypeOK ==
    /\ ApiTypeOK
    /\ pc \in CallbackPhases \cup LoopPhases \cup Stopped \cup {"ready", "leave", "save"}
    /\ handle \in Handles \cup {NoHandle}
    /\ nest \in 0..MaxNest
    /\ round \in 0..handlers
    /\ handlers \in 0..MaxInits
    /\ saves \in 0..MaxSaves
    /\ {db, sent, acked, reentered} \subseteq BOOLEAN
    /\ exitCode \in {"Success", "OpenFailed", "LoadFailed", "ConnectionFailed",
                     "ConnectionClosed"}
    /\ inits \in 0..MaxInits
    /\ runs \in 0..MaxRuns
    /\ lostIn \in {"none"} \cup CallbackPhases \cup LoopPhases \cup {"save"}
    /\ farewells \in 0..MaxNest

\* The handle the script holds is the only one allocated: however Disconnect is
\* re-entered, none is leaked and none is used or deleted after its release.
HandleOwned == Live = {handle} \ {NoHandle}

\* A connection ends with OnDisconnected: it is raised before the handle goes,
\* and once only unless an OnDisconnected callback itself sends.
Farewell ==
    /\ IsConnected /\ nest = 0 => farewells = 0
    /\ lostIn # "none" => farewells > 0
    /\ ~reentered => farewells <= 1

\* The loop is left only when a failed send has given the connection up, so the
\* Disconnect with which Run continues never finds one to end.
LoopEndsDisconnected == pc \in {"leave", "save"} => ~IsConnected /\ nest = 0

\* When Run returns, nothing is left open.
RunReleases == pc \in {"ended", "failed"} => Live = {} /\ ~db /\ nest = 0

\* The script is told ConnectionClosed only when a send failed while a packet
\* was handled; given up anywhere else, the loop ends without an exit code.
ExitCodeTellsReceive ==
    /\ pc = "save" /\ lostIn \in ReceivePhases => exitCode = "ConnectionClosed"
    /\ pc = "save" /\ runs = 1 /\ exitCode = "ConnectionClosed"
            => lostIn \in ReceivePhases

\* A message that asked for an ack is acted upon only when its ack was taken by
\* the client or the connection has been given up.
AnsweredAfterAck ==
    pc = "answer" /\ read.packet = "acked" => acked \/ nest > 0 \/ ~IsConnected

\* Every Run adds one chain of SaveStorage events and none dies or splits, as
\* long as Init has registered Gateway's callbacks once.
OneSaveChainPerRun ==
    handlers <= 1 =>
        /\ saves <= runs
        /\ pc \in LoopPhases => saves > 0

\* Gateway.lua:345: ReceivePacket returns false, nil on connection closed.
ClosedIsReported == read.closed => ~read.would_block /\ read.packet = NoPacket

\* Once the handle is gone the loop ends and Run returns.
RunEndsOnceDisconnected == pc \in LoopPhases /\ ~IsConnected ~> pc = "ended"

\* Once the server is gone Run returns, provided every update sends something.
RunEndsOnceServerGone ==
    pc \in LoopPhases /\ IsConnected /\ link[handle] # "up" ~> pc = "ended"

\* The handle is neither leaked nor released twice, and the end of a connection is
\* told once, however Disconnect is re-entered.
DisconnectedOnce == HandleOwned /\ Farewell

\* A loop is left without a connection, and a run with nothing open.
RunEndsClean == LoopEndsDisconnected /\ RunReleases

\* A run ends when its connection is lost, whoever notices first.
RunEnds == RunEndsOnceDisconnected /\ RunEndsOnceServerGone
=============================================================================
