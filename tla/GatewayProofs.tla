---------------------------- MODULE GatewayProofs ----------------------------
(***************************************************************************)
(* The safety of a gateway's session (module Gateway), proved for every    *)
(* set of handles and packets, however often the script calls Init and Run *)
(* and however deep its callbacks re-enter Disconnect.                     *)
(*                                                                         *)
(* The invariant says where a handle can be held and where Disconnect can  *)
(* be active (Places), that as many OnDisconnected events were raised as   *)
(* activations of Disconnect are open while the handle is set (Farewells), *)
(* and where the connection of this run was given up (Losses).             *)
(***************************************************************************)
EXTENDS Gateway, TLAPS

Resting == Stopped \cup {"ready", "leave", "save"}

\* Gateway's callbacks are registered before a run, and are run once a packet.
Registered ==
    /\ handlers <= inits
    /\ pc # "start" => handlers > 0
    /\ pc = "gateway" => round > 0

\* No handle is held and no Disconnect is active while the script rests;
\* Disconnect is active only where the callbacks of the user run.
Places ==
    /\ pc \in Resting => ~IsConnected
    /\ nest > 0 => pc \in CallbackPhases
    /\ pc \notin Stopped \cup {"ready"} => runs > 0
    /\ pc \in {"ended", "failed"} => ~db

\* While the handle is set every Disconnect of this run is still active.
Farewells ==
    /\ IsConnected => farewells = nest /\ lostIn = "none"
    /\ nest > 0 \/ lostIn # "none" => farewells > 0
    /\ ~reentered => farewells <= 1

\* Where the connection was given up decides the exit code.
Losses ==
    /\ pc \in ReceivePhases \cup {"receive"} /\ ~IsConnected => lostIn \in ReceivePhases
    /\ lostIn \in ReceivePhases =>
         \/ pc \in ReceivePhases \cup {"receive"}
         \/ pc \in {"leave", "save"} /\ exitCode = "ConnectionClosed"
         \/ pc \in Stopped \cup {"ready"}
    /\ exitCode = "ConnectionClosed" /\ runs <= 1
         => runs = 1 /\ ~IsConnected /\ lostIn \in ReceivePhases

\* Before a run's SaveStorage event is scheduled there is one chain per run.
Chains ==
    /\ OneSaveChainPerRun
    /\ handlers <= 1 /\ pc = "connected" => saves < runs

IInv == /\ TypeOK /\ HandleOwned /\ Registered /\ Places /\ Farewells /\ Losses
        /\ Chains /\ AnsweredAfterAck

-----------------------------------------------------------------------------
\* What the calls of the binding do to the set of allocated handles.

\* The server's steps leave the handles and the last result alone.
LEMMA ServerStep ==
  ASSUME ApiTypeOK, Server
  PROVE  ApiTypeOK' /\ Live' = Live /\ read' = read
<1>1. PICK h \in Handles : ServerCloses(h) \/ \E p \in Packets : PacketArrives(h, p)
  BY DEF Server
<1>2. CASE ServerCloses(h)
  BY <1>2 DEF ServerCloses, ApiTypeOK, Live, LinkStates
<1>3. ASSUME NEW p \in Packets, PacketArrives(h, p)
      PROVE  ApiTypeOK' /\ Live' = Live /\ read' = read
  <2>1. inbox' \in [Handles -> Seq(Packets)]
    BY <1>3 DEF PacketArrives, ApiTypeOK
  <2>2. \A g \in Handles : Len(inbox'[g]) <= MaxInbox
    BY <1>3, MaxInboxAssumption DEF PacketArrives, ApiTypeOK
  <2> QED  BY <1>3, <2>1, <2>2 DEF PacketArrives, ApiTypeOK, Live
<1> QED  BY <1>1, <1>2, <1>3

\* Connecting allocates the handle.
LEMMA ConnectStep ==
  ASSUME ApiTypeOK, NEW h \in Handles, AprsInitConnect(h)
  PROVE  ApiTypeOK' /\ Live' = Live \cup {h} /\ read' = read
BY DEF AprsInitConnect, ApiTypeOK, Live, LinkStates

\* Releasing frees the handle, and nothing when there is none.
LEMMA ReleaseStep ==
  ASSUME ApiTypeOK, NEW h \in Handles \cup {NoHandle}, AprsRelease(h)
  PROVE  ApiTypeOK' /\ Live' = Live \ {h} /\ read' = read
<1>1. CASE h = NoHandle
  BY <1>1, NoHandleAssumption DEF AprsRelease, ApiTypeOK, Live
<1>2. CASE h # NoHandle
  <2>1. inbox' \in [Handles -> Seq(Packets)]
    <3>1. << >> \in Seq(Packets)
      OBVIOUS
    <3> QED  BY <1>2, <3>1 DEF AprsRelease, ApiTypeOK
  <2>2. \A g \in Handles : Len(inbox'[g]) <= MaxInbox
    <3>1. \A g \in Handles : inbox'[g] = IF g = h THEN <<>> ELSE inbox[g]
      BY <1>2 DEF AprsRelease, ApiTypeOK
    <3> QED  BY <3>1, MaxInboxAssumption DEF ApiTypeOK
  <2>3. link' \in [Handles -> LinkStates] /\ read' = read
    BY <1>2 DEF AprsRelease, ApiTypeOK, LinkStates
  <2>4. Live' = Live \ {h}
    BY <1>2 DEF AprsRelease, ApiTypeOK, Live
  <2> QED  BY <2>1, <2>2, <2>3, <2>4 DEF ApiTypeOK
<1> QED  BY <1>1, <1>2

\* A read frees and allocates nothing.
LEMMA ReadStep ==
  ASSUME ApiTypeOK, NEW h \in Handles, Read(h)
  PROVE  ApiTypeOK' /\ Live' = Live
<1> DEFINE Results == [would_block : BOOLEAN, packet : Packets \cup {NoPacket},
                       closed : BOOLEAN]
<1>1. CASE ReadNothing(h) \/ ReadNotices(h)
  <2>1. read' \in Results
    <3>1. PICK b \in BOOLEAN :
            read' = [would_block |-> TRUE, packet |-> NoPacket, closed |-> b]
      BY <1>1, Zenon DEF ReadNothing, ReadNotices
    <3> QED  BY <3>1
  <2>2. inbox' = inbox /\ link' \in [Handles -> LinkStates] /\ Live' = Live
    BY <1>1 DEF ReadNothing, ReadNotices, ApiTypeOK, Live, LinkStates
  <2> QED  BY <2>1, <2>2 DEF ApiTypeOK
<1>2. CASE ReadPacket(h) \/ ReadThrows(h)
  <2>1. inbox[h] # <<>> /\ inbox[h] \in Seq(Packets) /\ Len(inbox[h]) <= MaxInbox
    BY <1>2 DEF ReadPacket, ReadThrows, ApiTypeOK
  <2>2. Head(inbox[h]) \in Packets /\ Tail(inbox[h]) \in Seq(Packets)
        /\ Len(Tail(inbox[h])) <= MaxInbox
    BY <2>1, MaxInboxAssumption
  <2>3. inbox' = [inbox EXCEPT ![h] = Tail(@)] /\ link' = link
    BY <1>2 DEF ReadPacket, ReadThrows
  <2>4. inbox' \in [Handles -> Seq(Packets)] /\ \A g \in Handles : Len(inbox'[g]) <= MaxInbox
    BY <2>2, <2>3 DEF ApiTypeOK
  <2>5. read' \in Results
    <3>1. PICK b \in BOOLEAN, p \in Packets \cup {NoPacket} :
            read' = [would_block |-> b, packet |-> p, closed |-> FALSE]
      BY <1>2, <2>2, Zenon DEF ReadPacket, ReadThrows
    <3> QED  BY <3>1
  <2> QED  BY <2>3, <2>4, <2>5 DEF ApiTypeOK, Live
<1> QED  BY <1>1, <1>2 DEF Read

\* The null read neither.
LEMMA ReadNullStep ==
  ASSUME ApiTypeOK, ReadNull
  PROVE  ApiTypeOK' /\ Live' = Live
BY DEF ReadNull, ApiTypeOK, Live

\* A send frees and allocates nothing, whatever it answers.
LEMMA SendStep ==
  ASSUME ApiTypeOK, NEW h \in Handles, SendOk(h) \/ SendFails(h)
  PROVE  ApiTypeOK' /\ Live' = Live /\ read' = read
<1>1. CASE UNCHANGED apiVars
  BY <1>1 DEF apiVars, ApiTypeOK, Live
<1>2. CASE SendRefused(h)
  BY <1>2 DEF SendRefused, ApiTypeOK, Live, LinkStates
<1> QED  BY <1>1, <1>2 DEF SendOk, SendFails, SendThrows

-----------------------------------------------------------------------------
\* The handle held stays the only one allocated.
LEMMA HandlesStep ==
  ASSUME TypeOK, HandleOwned, Places, [Next]_vars
  PROVE  ApiTypeOK' /\ HandleOwned' /\ handle' \in Handles \cup {NoHandle}
<1> USE DEF TypeOK
<1>0. IsConnected => handle \in Handles
  BY DEF IsConnected
<1>1. CASE Server
  <2>1. UNCHANGED handle
    BY <1>1 DEF Server
  <2> QED  BY <1>1, <2>1, ServerStep DEF HandleOwned
<1>2. CASE RunConnects
  <2>1. PICK h \in Handles : AprsInitConnect(h) /\ handle' = h
    BY <1>2 DEF RunConnects
  <2>2. handle = NoHandle
    BY <1>2 DEF RunConnects, Places, Resting, Stopped, IsConnected
  <2> QED  BY <2>1, <2>2, ConnectStep, NoHandleAssumption DEF HandleOwned
<1>3. CASE CallbackSendFails
  <2>1. UNCHANGED handle /\ SendFails(handle)
    BY <1>3 DEF CallbackSendFails
  <2> QED  BY <1>0, <1>3, <2>1, SendStep DEF HandleOwned, CallbackSendFails
<1>4. CASE EndDisconnect
  <2>1. handle' = NoHandle /\ AprsRelease(handle)
    BY <1>4 DEF EndDisconnect
  <2> QED  BY <2>1, ReleaseStep DEF HandleOwned
<1>5. CASE ReceivePacket \/ ReceiveWouldBlock
  <2>1. UNCHANGED handle /\ Read(handle)
    BY <1>5 DEF ReceivePacket, ReceiveWouldBlock, Read
  <2> QED  BY <1>0, <1>5, <2>1, ReadStep DEF HandleOwned, ReceivePacket, ReceiveWouldBlock
<1>6. CASE ReceiveClosed
  <2>1. UNCHANGED handle /\ ReadNull
    BY <1>6 DEF ReceiveClosed
  <2> QED  BY <2>1, ReadNullStep DEF HandleOwned
<1>7. CASE HandleAckedMessage \/ Beacon
  <2>1. UNCHANGED handle
        /\ \/ UNCHANGED apiVars
           \/ IsConnected /\ (SendOk(handle) \/ SendFails(handle))
    BY <1>7 DEF HandleAckedMessage, Beacon, apiVars
  <2>2. CASE UNCHANGED apiVars
    BY <2>1, <2>2 DEF HandleOwned, ApiTypeOK, apiVars, Live
  <2> QED  BY <1>0, <2>1, <2>2, SendStep DEF HandleOwned
<1>8. CASE UNCHANGED <<apiVars, handle>>
  BY <1>8 DEF HandleOwned, ApiTypeOK, apiVars, Live
<1>9. CASE \/ InitSucceeds \/ InitFails \/ RunConnectFails \/ LoopBegins \/ BeginUpdate
           \/ HandlePacket \/ AnswerReturns \/ HandlersReturn \/ SaveStorageFires
           \/ TimersReturn \/ OnUpdateReturns \/ RunDisconnects \/ RunReturns
  <2>1. UNCHANGED <<apiVars, handle>>
    BY <1>9 DEF InitSucceeds, InitFails, RunConnectFails, LoopBegins, BeginUpdate,
         HandlePacket, AnswerReturns, HandlersReturn, SaveStorageFires, TimersReturn,
         OnUpdateReturns, RunDisconnects, RunReturns
  <2> QED  BY <1>8, <2>1
<1> QED
  BY <1>1, <1>2, <1>3, <1>4, <1>5, <1>6, <1>7, <1>8, <1>9 DEF Next, vars


\* Every variable keeps its type; rounds and registrations stay in step.
LEMMA TypeStep ==
  ASSUME IInv, [Next]_vars
  PROVE  TypeOK' /\ Registered'
<1> USE BoundsAssumption DEF TypeOK, Registered
<1>0. ApiTypeOK' /\ handle' \in Handles \cup {NoHandle}
  BY HandlesStep DEF IInv
<1>1. CASE Server
  BY <1>0, <1>1 DEF IInv, Server, session, history
<1>2. CASE InitSucceeds
  BY <1>0, <1>2 DEF IInv, InitSucceeds, history, Stopped
<1>3. CASE InitFails
  BY <1>0, <1>3 DEF IInv, InitFails, history
<1>4. CASE RunConnects
  <2>1. {db, sent, acked, reentered}' \subseteq BOOLEAN
    BY <1>4, Zenon DEF IInv, RunConnects, CallbackPhases
  <2>2. Registered' /\ round' \in 0..handlers'
    BY <1>4 DEF IInv, RunConnects, CallbackPhases
  <2> QED  BY <1>0, <1>4, <2>1, <2>2 DEF IInv, RunConnects, CallbackPhases
<1>5. CASE RunConnectFails
  <2>1. {db, sent, acked, reentered}' \subseteq BOOLEAN
    BY <1>5, Zenon DEF IInv, RunConnectFails, history, Stopped
  <2>2. Registered' /\ round' \in 0..handlers'
    BY <1>5 DEF IInv, RunConnectFails, history, Stopped
  <2> QED  BY <1>0, <1>5, <2>1, <2>2 DEF IInv, RunConnectFails, history, Stopped
<1>6. CASE LoopBegins
  BY <1>0, <1>6 DEF IInv, LoopBegins, history, At, LoopPhases
<1>7. CASE CallbackSendFails
  BY <1>0, <1>7 DEF IInv, CallbackSendFails, BeginDisconnect, session, Farewells
<1>8. CASE EndDisconnect
  BY <1>0, <1>8 DEF IInv, EndDisconnect, session, Places
<1>9. CASE BeginUpdate
  BY <1>0, <1>9 DEF IInv, BeginUpdate, session, history, At, LoopPhases
<1>10. CASE ReceivePacket
  BY <1>0, <1>10 DEF IInv, ReceivePacket, session, history, At, LoopPhases, ReceivePhases
<1>11. CASE ReceiveWouldBlock
  BY <1>0, <1>11 DEF IInv, ReceiveWouldBlock, session, history, At, LoopPhases
<1>12. CASE ReceiveClosed
  BY <1>0, <1>12 DEF IInv, ReceiveClosed, history, At
<1>13. CASE HandlePacket
  <2>1. {db, sent, acked, reentered}' \subseteq BOOLEAN
    BY <1>13, Zenon DEF IInv, HandlePacket, AfterPacket, session, At, LoopPhases, ReceivePhases
  <2>2. Registered' /\ round' \in 0..handlers'
    BY <1>13 DEF IInv, HandlePacket, AfterPacket, session, At, LoopPhases, ReceivePhases
  <2> QED  BY <1>0, <1>13, <2>1, <2>2 DEF IInv, HandlePacket, AfterPacket, session, At, LoopPhases, ReceivePhases
<1>14. CASE HandleAckedMessage
  <2>1. {db, sent, acked, reentered}' \subseteq BOOLEAN
    BY <1>14, Zenon DEF IInv, HandleAckedMessage, AfterPacket, session, At, LoopPhases,
       ReceivePhases, Farewells
  <2>2. Registered' /\ round' \in 0..handlers'
    BY <1>14 DEF IInv, HandleAckedMessage, AfterPacket, session, At, LoopPhases,
       ReceivePhases, Farewells
  <2> QED  BY <1>0, <1>14, <2>1, <2>2 DEF IInv, HandleAckedMessage, AfterPacket, session, At, LoopPhases,
       ReceivePhases, Farewells
<1>15. CASE AnswerReturns
  BY <1>0, <1>15 DEF IInv, AnswerReturns, session, history, At, LoopPhases, ReceivePhases
<1>16. CASE HandlersReturn
  BY <1>0, <1>16 DEF IInv, HandlersReturn, session, history, At, LoopPhases
<1>17. CASE SaveStorageFires
  BY <1>0, <1>17 DEF IInv, SaveStorageFires, history, At
<1>18. CASE TimersReturn
  BY <1>0, <1>18 DEF IInv, TimersReturn, session, history, At, LoopPhases
<1>19. CASE Beacon
  BY <1>0, <1>19 DEF IInv, Beacon, BeginDisconnect, session, history, At, Farewells
<1>20. CASE OnUpdateReturns
  BY <1>0, <1>20 DEF IInv, OnUpdateReturns, session, history, At, LoopPhases
<1>21. CASE RunDisconnects
  BY <1>0, <1>21 DEF IInv, RunDisconnects, session, history, At, Places, Resting
<1>22. CASE RunReturns
  BY <1>0, <1>22 DEF IInv, RunReturns, history, At, Stopped
<1>23. CASE UNCHANGED vars
  BY <1>0, <1>23 DEF IInv, vars, session, history
<1> QED
  BY <1>1, <1>2, <1>3, <1>4, <1>5, <1>6, <1>7, <1>8, <1>9, <1>10, <1>11, <1>12, <1>13,
     <1>14, <1>15, <1>16, <1>17, <1>18, <1>19, <1>20, <1>21, <1>22, <1>23 DEF Next

\* A handle is held and Disconnect is active only where they may be.
LEMMA PlacesStep ==
  ASSUME IInv, [Next]_vars
  PROVE  Places'
<1> USE DEF IInv, TypeOK, Places, Resting, IsConnected, CallbackPhases, LoopPhases, ReceivePhases, Stopped
<1>1. CASE Server
  BY <1>1 DEF Server, session, history
<1>2. CASE InitSucceeds
  BY <1>2 DEF InitSucceeds, history
<1>3. CASE InitFails
  BY <1>3 DEF InitFails, history
<1>4. CASE RunConnects
  BY <1>4 DEF RunConnects
<1>5. CASE RunConnectFails
  BY <1>5 DEF RunConnectFails, history
<1>6. CASE LoopBegins
  BY <1>6 DEF LoopBegins, At, history
<1>7. CASE CallbackSendFails
  BY <1>7 DEF CallbackSendFails, BeginDisconnect, session
<1>8. CASE EndDisconnect
  BY <1>8 DEF EndDisconnect, session
<1>9. CASE BeginUpdate
  BY <1>9 DEF BeginUpdate, At, session, history
<1>10. CASE ReceivePacket
  BY <1>10 DEF ReceivePacket, At, session, history
<1>11. CASE ReceiveWouldBlock
  BY <1>11 DEF ReceiveWouldBlock, At, session, history
<1>12. CASE ReceiveClosed
  BY <1>12 DEF ReceiveClosed, At, history
<1>13. CASE HandlePacket
  BY <1>13 DEF HandlePacket, AfterPacket, At, session
<1>14. CASE HandleAckedMessage
  BY <1>14 DEF HandleAckedMessage, AfterPacket, At, session
<1>15. CASE AnswerReturns
  BY <1>15 DEF AnswerReturns, At, session, history
<1>16. CASE HandlersReturn
  BY <1>16 DEF HandlersReturn, At, session, history
<1>17. CASE SaveStorageFires
  BY <1>17 DEF SaveStorageFires, At, history
<1>18. CASE TimersReturn
  BY <1>18 DEF TimersReturn, At, session, history
<1>19. CASE Beacon
  BY <1>19 DEF Beacon, BeginDisconnect, At, session, history
<1>20. CASE OnUpdateReturns
  BY <1>20 DEF OnUpdateReturns, At, session, history
<1>21. CASE RunDisconnects
  BY <1>21 DEF RunDisconnects, BeginDisconnect, At, session, history
<1>22. CASE RunReturns
  BY <1>22 DEF RunReturns, At, history
<1>23. CASE UNCHANGED vars
  BY <1>23 DEF vars, session, history
<1> QED
  BY <1>1, <1>2, <1>3, <1>4, <1>5, <1>6, <1>7, <1>8, <1>9, <1>10, <1>11, <1>12,
     <1>13, <1>14, <1>15, <1>16, <1>17, <1>18, <1>19, <1>20, <1>21, <1>22, <1>23 DEF Next

\* OnDisconnected events stay in step with the open activations.
LEMMA FarewellsStep ==
  ASSUME IInv, [Next]_vars
  PROVE  Farewells'
<1> USE BoundsAssumption DEF IInv, TypeOK, Farewells, Places, Resting, IsConnected, CallbackPhases, LoopPhases, ReceivePhases, Stopped
<1>1. CASE Server
  BY <1>1 DEF Server, session, history
<1>2. CASE InitSucceeds
  BY <1>2 DEF InitSucceeds, history
<1>3. CASE InitFails
  BY <1>3 DEF InitFails, history
<1>4. CASE RunConnects
  BY <1>4 DEF RunConnects
<1>5. CASE RunConnectFails
  BY <1>5 DEF RunConnectFails, history
<1>6. CASE LoopBegins
  BY <1>6 DEF LoopBegins, At, history
<1>7. CASE CallbackSendFails
  <2>1. IsConnected /\ UNCHANGED <<handle, lostIn>> /\ nest \in Nat
    BY <1>7 DEF CallbackSendFails, BeginDisconnect
  <2>2. nest' = nest + 1 /\ farewells' = farewells + 1
    BY <1>7 DEF CallbackSendFails, BeginDisconnect
  <2>3. reentered' \/ nest = 0
    <3>1. nest > 0 \/ nest = 0
      BY <2>1
    <3>2. reentered' = (reentered \/ nest > 0)
      BY <1>7, Zenon DEF CallbackSendFails, BeginDisconnect
    <3> QED  BY <3>1, <3>2, Zenon
  <2> QED  BY <2>1, <2>2, <2>3
<1>8. CASE EndDisconnect
  BY <1>8 DEF EndDisconnect, session
<1>9. CASE BeginUpdate
  BY <1>9 DEF BeginUpdate, At, session, history
<1>10. CASE ReceivePacket
  BY <1>10 DEF ReceivePacket, At, session, history
<1>11. CASE ReceiveWouldBlock
  BY <1>11 DEF ReceiveWouldBlock, At, session, history
<1>12. CASE ReceiveClosed
  BY <1>12 DEF ReceiveClosed, At, history
<1>13. CASE HandlePacket
  BY <1>13 DEF HandlePacket, AfterPacket, At, session
<1>14. CASE HandleAckedMessage
  BY <1>14 DEF HandleAckedMessage, AfterPacket, At, session
<1>15. CASE AnswerReturns
  BY <1>15 DEF AnswerReturns, At, session, history
<1>16. CASE HandlersReturn
  BY <1>16 DEF HandlersReturn, At, session, history
<1>17. CASE SaveStorageFires
  BY <1>17 DEF SaveStorageFires, At, history
<1>18. CASE TimersReturn
  BY <1>18 DEF TimersReturn, At, session, history
<1>19. CASE Beacon
  BY <1>19 DEF Beacon, BeginDisconnect, At, session, history
<1>20. CASE OnUpdateReturns
  BY <1>20 DEF OnUpdateReturns, At, session, history
<1>21. CASE RunDisconnects
  BY <1>21 DEF RunDisconnects, BeginDisconnect, At, session, history
<1>22. CASE RunReturns
  BY <1>22 DEF RunReturns, At, history
<1>23. CASE UNCHANGED vars
  BY <1>23 DEF vars, session, history
<1> QED
  BY <1>1, <1>2, <1>3, <1>4, <1>5, <1>6, <1>7, <1>8, <1>9, <1>10, <1>11, <1>12,
     <1>13, <1>14, <1>15, <1>16, <1>17, <1>18, <1>19, <1>20, <1>21, <1>22, <1>23 DEF Next

\* The exit code stays in step with the place of the loss.
LEMMA LossesStep ==
  ASSUME IInv, [Next]_vars
  PROVE  Losses'
<1> USE BoundsAssumption DEF IInv, TypeOK, Losses, Farewells, Places, Resting, IsConnected, CallbackPhases, LoopPhases, ReceivePhases, Stopped
<1>1. CASE Server
  BY <1>1 DEF Server, session, history
<1>2. CASE InitSucceeds
  BY <1>2 DEF InitSucceeds, history
<1>3. CASE InitFails
  BY <1>3 DEF InitFails, history
<1>4. CASE RunConnects
  BY <1>4 DEF RunConnects
<1>5. CASE RunConnectFails
  BY <1>5 DEF RunConnectFails, history
<1>6. CASE LoopBegins
  BY <1>6 DEF LoopBegins, At, history
<1>7. CASE CallbackSendFails
  BY <1>7 DEF CallbackSendFails, BeginDisconnect, session
<1>8. CASE EndDisconnect
  BY <1>8 DEF EndDisconnect, session
<1>9. CASE BeginUpdate
  BY <1>9 DEF BeginUpdate, At, session, history
<1>10. CASE ReceivePacket
  BY <1>10 DEF ReceivePacket, At, session, history
<1>11. CASE ReceiveWouldBlock
  BY <1>11 DEF ReceiveWouldBlock, At, session, history
<1>12. CASE ReceiveClosed
  BY <1>12 DEF ReceiveClosed, At, history
<1>13. CASE HandlePacket
  BY <1>13 DEF HandlePacket, AfterPacket, At, session
<1>14. CASE HandleAckedMessage
  BY <1>14 DEF HandleAckedMessage, AfterPacket, At, session
<1>15. CASE AnswerReturns
  BY <1>15 DEF AnswerReturns, At, session, history
<1>16. CASE HandlersReturn
  BY <1>16 DEF HandlersReturn, At, session, history
<1>17. CASE SaveStorageFires
  BY <1>17 DEF SaveStorageFires, At, history
<1>18. CASE TimersReturn
  BY <1>18 DEF TimersReturn, At, session, history
<1>19. CASE Beacon
  BY <1>19 DEF Beacon, BeginDisconnect, At, session, history
<1>20. CASE OnUpdateReturns
  BY <1>20 DEF OnUpdateReturns, At, session, history
<1>21. CASE RunDisconnects
  BY <1>21 DEF RunDisconnects, BeginDisconnect, At, session, history
<1>22. CASE RunReturns
  BY <1>22 DEF RunReturns, At, history
<1>23. CASE UNCHANGED vars
  BY <1>23 DEF vars, session, history
<1> QED
  BY <1>1, <1>2, <1>3, <1>4, <1>5, <1>6, <1>7, <1>8, <1>9, <1>10, <1>11, <1>12,
     <1>13, <1>14, <1>15, <1>16, <1>17, <1>18, <1>19, <1>20, <1>21, <1>22, <1>23 DEF Next

\* Each run has one chain of SaveStorage events.
LEMMA ChainsStep ==
  ASSUME IInv, [Next]_vars
  PROVE  Chains'
<1> USE BoundsAssumption DEF IInv, TypeOK, Chains, OneSaveChainPerRun, Registered, CallbackPhases, LoopPhases, ReceivePhases, Stopped
<1>1. CASE Server
  BY <1>1 DEF Server, session, history
<1>2. CASE InitSucceeds
  BY <1>2 DEF InitSucceeds, history
<1>3. CASE InitFails
  BY <1>3 DEF InitFails, history
<1>4. CASE RunConnects
  BY <1>4 DEF RunConnects
<1>5. CASE RunConnectFails
  BY <1>5 DEF RunConnectFails, history
<1>6. CASE LoopBegins
  BY <1>6 DEF LoopBegins, At, history
<1>7. CASE CallbackSendFails
  BY <1>7 DEF CallbackSendFails, BeginDisconnect, session
<1>8. CASE EndDisconnect
  BY <1>8 DEF EndDisconnect, session
<1>9. CASE BeginUpdate
  BY <1>9 DEF BeginUpdate, At, session, history
<1>10. CASE ReceivePacket
  BY <1>10 DEF ReceivePacket, At, session, history
<1>11. CASE ReceiveWouldBlock
  BY <1>11 DEF ReceiveWouldBlock, At, session, history
<1>12. CASE ReceiveClosed
  BY <1>12 DEF ReceiveClosed, At, history
<1>13. CASE HandlePacket
  BY <1>13 DEF HandlePacket, AfterPacket, At, session
<1>14. CASE HandleAckedMessage
  BY <1>14 DEF HandleAckedMessage, AfterPacket, At, session
<1>15. CASE AnswerReturns
  BY <1>15 DEF AnswerReturns, At, session, history
<1>16. CASE HandlersReturn
  BY <1>16 DEF HandlersReturn, At, session, history
<1>17. CASE SaveStorageFires
  BY <1>17 DEF SaveStorageFires, At, history
<1>18. CASE TimersReturn
  BY <1>18 DEF TimersReturn, At, session, history
<1>19. CASE Beacon
  BY <1>19 DEF Beacon, BeginDisconnect, At, session, history
<1>20. CASE OnUpdateReturns
  BY <1>20 DEF OnUpdateReturns, At, session, history
<1>21. CASE RunDisconnects
  BY <1>21 DEF RunDisconnects, BeginDisconnect, At, session, history
<1>22. CASE RunReturns
  BY <1>22 DEF RunReturns, At, history
<1>23. CASE UNCHANGED vars
  BY <1>23 DEF vars, session, history
<1> QED
  BY <1>1, <1>2, <1>3, <1>4, <1>5, <1>6, <1>7, <1>8, <1>9, <1>10, <1>11, <1>12,
     <1>13, <1>14, <1>15, <1>16, <1>17, <1>18, <1>19, <1>20, <1>21, <1>22, <1>23 DEF Next

\* A message is answered after its ack.
LEMMA AnsweredStep ==
  ASSUME IInv, [Next]_vars
  PROVE  AnsweredAfterAck'
<1> USE BoundsAssumption DEF IInv, TypeOK, AnsweredAfterAck, IsConnected
<1>1. CASE Server
  BY <1>1, ServerStep DEF Server, session, history
<1>2. CASE InitSucceeds
  BY <1>2 DEF InitSucceeds, history
<1>3. CASE InitFails
  BY <1>3 DEF InitFails, history, apiVars
<1>4. CASE RunConnects
  BY <1>4 DEF RunConnects
<1>5. CASE RunConnectFails
  BY <1>5 DEF RunConnectFails, history
<1>6. CASE LoopBegins
  BY <1>6 DEF LoopBegins, At, history
<1>7. CASE CallbackSendFails
  BY <1>7 DEF CallbackSendFails, BeginDisconnect, session
<1>8. CASE EndDisconnect
  BY <1>8 DEF EndDisconnect, session
<1>9. CASE BeginUpdate
  BY <1>9 DEF BeginUpdate, At, session, history
<1>10. CASE ReceivePacket
  BY <1>10 DEF ReceivePacket, At, session, history
<1>11. CASE ReceiveWouldBlock
  BY <1>11 DEF ReceiveWouldBlock, At, session, history
<1>12. CASE ReceiveClosed
  BY <1>12 DEF ReceiveClosed, At, history
<1>13. CASE HandlePacket
  BY <1>13 DEF HandlePacket, AfterPacket, At, session, apiVars
<1>14. CASE HandleAckedMessage
  BY <1>14 DEF HandleAckedMessage, AfterPacket, At, session
<1>15. CASE AnswerReturns
  BY <1>15 DEF AnswerReturns, At, session, history
<1>16. CASE HandlersReturn
  BY <1>16 DEF HandlersReturn, At, session, history
<1>17. CASE SaveStorageFires
  BY <1>17 DEF SaveStorageFires, At, history
<1>18. CASE TimersReturn
  BY <1>18 DEF TimersReturn, At, session, history
<1>19. CASE Beacon
  BY <1>19 DEF Beacon, BeginDisconnect, At, session, history
<1>20. CASE OnUpdateReturns
  BY <1>20 DEF OnUpdateReturns, At, session, history
<1>21. CASE RunDisconnects
  BY <1>21 DEF RunDisconnects, BeginDisconnect, At, session, history
<1>22. CASE RunReturns
  BY <1>22 DEF RunReturns, At, history
<1>23. CASE UNCHANGED vars
  BY <1>23 DEF vars, session, history, apiVars
<1> QED
  BY <1>1, <1>2, <1>3, <1>4, <1>5, <1>6, <1>7, <1>8, <1>9, <1>10, <1>11, <1>12,
     <1>13, <1>14, <1>15, <1>16, <1>17, <1>18, <1>19, <1>20, <1>21, <1>22, <1>23 DEF Next

-----------------------------------------------------------------------------
\* IInv holds in every reachable state.
THEOREM Invariant == Spec => []IInv
<1>1. Init => IInv
  <2> SUFFICES ASSUME Init PROVE IInv
    OBVIOUS
  <2> USE BoundsAssumption DEF Init
  <2>1. ApiTypeOK /\ Live = {}
    <3>1. << >> \in Seq(Packets) /\ Len(<< >>) = 0
      OBVIOUS
    <3> QED  BY <3>1, MaxInboxAssumption DEF ApiInit, ApiTypeOK, LinkStates, Live
  <2>2. TypeOK
    <3>1. {db, sent, acked, reentered} \subseteq BOOLEAN
      BY Zenon
    <3> QED  BY <2>1, <3>1 DEF TypeOK, Stopped
  <2>3. HandleOwned
    BY <2>1 DEF HandleOwned
  <2>4. Registered /\ Places /\ Farewells
    BY DEF Registered, Places, Farewells, Resting, Stopped, IsConnected
  <2>5. Losses /\ Chains /\ AnsweredAfterAck
    BY DEF Losses, Chains, OneSaveChainPerRun, AnsweredAfterAck, ReceivePhases,
           LoopPhases, Stopped
  <2> QED  BY <2>2, <2>3, <2>4, <2>5 DEF IInv
<1>2. IInv /\ [Next]_vars => IInv'
  BY HandlesStep, TypeStep, PlacesStep, FarewellsStep, LossesStep, ChainsStep, AnsweredStep
     DEF IInv
<1> QED  BY <1>1, <1>2, PTL DEF Spec

\* Every variable keeps its type.
THEOREM TypeCorrect == Spec => []TypeOK
<1>1. IInv => TypeOK
  BY DEF IInv
<1> QED  BY <1>1, Invariant, PTL

\* No handle leaks and none is used after its release, however Disconnect nests
\* (Gateway.lua:289-296).
THEOREM HandlesAreOwned == Spec => []HandleOwned
<1>1. IInv => HandleOwned
  BY DEF IInv
<1> QED  BY <1>1, Invariant, PTL

\* A connection ends with OnDisconnected, once unless a callback of it sends.
THEOREM OneFarewell == Spec => []Farewell
<1>1. IInv => Farewell
  BY DEF IInv, TypeOK, Farewells, Farewell
<1> QED  BY <1>1, Invariant, PTL

\* The Disconnect with which Run continues after its loop finds no connection.
THEOREM LoopLeftDisconnected == Spec => []LoopEndsDisconnected
<1>1. IInv => LoopEndsDisconnected
  BY BoundsAssumption DEF IInv, TypeOK, Places, Resting, CallbackPhases, LoopEndsDisconnected
<1> QED  BY <1>1, Invariant, PTL

\* When Run returns, the handle and the database are closed.
THEOREM NothingLeftOpen == Spec => []RunReleases
<1>1. IInv => RunReleases
  <2> SUFFICES ASSUME IInv, pc \in {"ended", "failed"} PROVE Live = {} /\ ~db /\ nest = 0
    BY DEF RunReleases
  <2>1. handle = NoHandle /\ ~db
    BY DEF IInv, Places, Resting, Stopped, IsConnected
  <2>2. nest = 0
    BY BoundsAssumption DEF IInv, TypeOK, Places, CallbackPhases
  <2> QED  BY <2>1, <2>2 DEF IInv, HandleOwned
<1> QED  BY <1>1, Invariant, PTL

\* ConnectionClosed says that the connection was given up within the receive loop.
THEOREM ExitCodeMeaning == Spec => []ExitCodeTellsReceive
<1>1. IInv => ExitCodeTellsReceive
  BY DEF IInv, Losses, ExitCodeTellsReceive, Stopped, ReceivePhases
<1> QED  BY <1>1, Invariant, PTL

\* No message is acted upon before its ack, while the connection lasts.
THEOREM AckFirst == Spec => []AnsweredAfterAck
<1>1. IInv => AnsweredAfterAck
  BY DEF IInv
<1> QED  BY <1>1, Invariant, PTL

\* Every Run adds one chain of SaveStorage events and none dies or splits.
THEOREM SaveChains == Spec => []OneSaveChainPerRun
<1>1. IInv => OneSaveChainPerRun
  BY DEF IInv, Chains
<1> QED  BY <1>1, Invariant, PTL

\* However Disconnect is re-entered, the handle is released once and the script told.
THEOREM DisconnectsOnce == Spec => []DisconnectedOnce
BY HandlesAreOwned, OneFarewell, PTL DEF DisconnectedOnce

\* Whatever ended it, a run leaves neither a connection nor the database open.
THEOREM CleanEnd == Spec => []RunEndsClean
BY LoopLeftDisconnected, NothingLeftOpen, PTL DEF RunEndsClean
=============================================================================
