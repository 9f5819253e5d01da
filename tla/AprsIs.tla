------------------------------- MODULE AprsIs -------------------------------
(***************************************************************************)
(* The APRS-IS binding of API.cpp (aprs_is_init ... aprs_is_send_position),*)
(* the functions behind APRS-IS.lua.  A handle is the aprs_is object that  *)
(* aprs_is_init allocates and aprs_is_deinit deletes; it owns the client   *)
(* of libAPRS-IS and the one packet slot that aprs_is_read_packet hands    *)
(* out.                                                                    *)
(*                                                                         *)
(* libAPRS-IS is not part of the repository.  It is modelled from its use: *)
(* Update delivers at most one packet to the slot, may throw, and may be   *)
(* the first to notice that the server is gone; a send answers true, false *)
(* or throws.  The slot is filled and emptied within aprs_is_read_packet,  *)
(* so between calls only its owner matters.                                *)
(***************************************************************************)
EXTENDS Naturals, Sequences

CONSTANTS Handles,   \* the addresses new can return
          NoHandle,  \* nil
          Packets,   \* the packets a server can send
          NoPacket,  \* nil
          MaxInbox   \* bound: packets under way to a client

ASSUME NoHandleAssumption == NoHandle \notin Handles
ASSUME NoPacketAssumption == NoPacket \notin Packets
ASSUME MaxInboxAssumption == MaxInbox \in Nat

VARIABLES link,   \* per handle: free, or the state of its client's connection
          inbox,  \* per handle: packets received by its host and not yet read
          read    \* the last result of aprs_is_read_packet, and whether its
                  \* client was disconnected when it returned

apiVars == <<link, inbox, read>>

\* "lost": the server is gone and the client has not noticed.
LinkStates == {"free", "up", "lost", "down"}

Live == {h \in Handles : link[h] # "free"}

ApiInit ==
    /\ link = [h \in Handles |-> "free"]
    /\ inbox = [h \in Handles |-> <<>>]
    /\ read = [would_block |-> TRUE, packet |-> NoPacket, closed |-> FALSE]

-----------------------------------------------------------------------------
\* The server and the network.

PacketArrives(h, p) ==
    /\ link[h] = "up"
    /\ Len(inbox[h]) < MaxInbox
    /\ inbox' = [inbox EXCEPT ![h] = Append(@, p)]
    /\ UNCHANGED <<link, read>>

ServerCloses(h) ==
    /\ link[h] = "up"
    /\ link' = [link EXCEPT ![h] = "lost"]
    /\ UNCHANGED <<inbox, read>>

-----------------------------------------------------------------------------
\* The calls.

\* aprs_is_init, and aprs_is_connect answers true: DNS and Connect succeed.
AprsInitConnect(h) ==
    /\ link[h] = "free"
    /\ link' = [link EXCEPT ![h] = "up"]
    /\ UNCHANGED <<inbox, read>>

\* aprs_is_disconnect and aprs_is_deinit; both accept a null handle.
AprsRelease(h) ==
    /\ IF h = NoHandle
         THEN UNCHANGED <<link, inbox>>
         ELSE /\ link' = [link EXCEPT ![h] = "free"]
              /\ inbox' = [inbox EXCEPT ![h] = <<>>]
    /\ UNCHANGED read

\* aprs_is_read_packet(nullptr)
ReadNull ==
    /\ read' = [would_block |-> FALSE, packet |-> NoPacket, closed |-> TRUE]
    /\ UNCHANGED <<link, inbox>>

\* Update delivers a packet: the slot is set and handed out.
ReadPacket(h) ==
    /\ link[h] \in {"up", "lost"}
    /\ inbox[h] # <<>>
    /\ inbox' = [inbox EXCEPT ![h] = Tail(@)]
    /\ read' = [would_block |-> FALSE, packet |-> Head(inbox[h]), closed |-> FALSE]
    /\ UNCHANGED link

\* Update has nothing to deliver: the slot stays empty.
ReadNothing(h) ==
    /\ inbox[h] = <<>>
    /\ read' = [would_block |-> TRUE, packet |-> NoPacket,
                closed |-> link[h] \notin {"up", "lost"}]
    /\ UNCHANGED <<link, inbox>>

\* Update notices that the server is gone, by throwing or not: the exception is
\* swallowed and the answer is that of an empty slot.
ReadNotices(h) ==
    /\ link[h] = "lost"
    /\ inbox[h] = <<>>
    /\ link' = [link EXCEPT ![h] = "down"]
    /\ read' = [would_block |-> TRUE, packet |-> NoPacket, closed |-> TRUE]
    /\ UNCHANGED inbox

\* Update throws on a packet it cannot decode.
ReadThrows(h) ==
    /\ link[h] \in {"up", "lost"}
    /\ inbox[h] # <<>>
    /\ inbox' = [inbox EXCEPT ![h] = Tail(@)]
    /\ read' = [would_block |-> TRUE, packet |-> NoPacket, closed |-> FALSE]
    /\ UNCHANGED link

Read(h) == ReadPacket(h) \/ ReadNothing(h) \/ ReadNotices(h) \/ ReadThrows(h)

\* aprs_is_write_packet, aprs_is_send_message, aprs_is_send_position: true.
SendOk(h) ==
    /\ link[h] \in {"up", "lost"}
    /\ UNCHANGED apiVars

\* The client refuses: it is disconnected and the answer is false.
SendRefused(h) ==
    /\ link[h] \in {"lost", "down"}
    /\ link' = [link EXCEPT ![h] = "down"]
    /\ UNCHANGED <<inbox, read>>

\* The client throws: the answer is false and the client is left as it is.
SendThrows(h) ==
    /\ link[h] \in {"up", "lost", "down"}
    /\ UNCHANGED apiVars

SendFails(h) == SendRefused(h) \/ SendThrows(h)

-----------------------------------------------------------------------------
ApiTypeOK ==
    /\ link \in [Handles -> LinkStates]
    /\ inbox \in [Handles -> Seq(Packets)]
    /\ \A h \in Handles : Len(inbox[h]) <= MaxInbox
    /\ read \in [would_block : BOOLEAN, packet : Packets \cup {NoPacket},
                 closed : BOOLEAN]
=============================================================================
