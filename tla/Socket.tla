------------------------------- MODULE Socket -------------------------------
(***************************************************************************)
(* The Socket extension: sockets whose descriptor exists from Connect to   *)
(* Close, sends and receives of a script on them, and the buffers which    *)
(* the wrappers of Socket.lua allocate for what is received.               *)
(*                                                                         *)
(* A script is in one call at a time.  The loops of socket_send_all and    *)
(* socket_receive_all are left by a step for every turn, as datagrams may  *)
(* arrive and errors may occur between two turns.  A TCP stream is a queue *)
(* of bytes; a UDP socket has a queue of datagrams from any peer, and what *)
(* of a datagram does not fit into the buffer is lost.                     *)
(***************************************************************************)
EXTENDS Integers, Sequences, FiniteSets

CONSTANTS Sockets,      \* addresses of _socket objects
          Descriptors,  \* addresses of AL's TcpSocket and UdpSocket objects
          Buffers,      \* byte buffers
          Peers,        \* end points
          Capacity,     \* bound: the size of every buffer
          MaxArrivals,  \* bound: datagrams, or bytes of a stream, that arrive
          nil

VARIABLES socket,   \* the _socket objects, nil where there is none
          heap,     \* the descriptors, nil where there is none
          inbox,    \* what waits at a descriptor: [id, from, size]
          closed,   \* the descriptors whose peer has closed the stream
          arrivals, \* datagrams that have arrived so far
          live,     \* the allocated byte buffers
          held,     \* those of them that the script has
          call,     \* the transfer under way, or the last one, and its result
          wire,     \* what it sent: the end point and the place of every byte
          memory    \* the buffer it received into

vars == <<socket, heap, inbox, closed, arrivals, live, held, call, wire, memory>>
network == <<inbox, closed, arrivals>>
buffers == <<live, held>>
transfer == <<call, wire, memory>>

Types == {"TCP", "UDP"}
Sizes == 0..Capacity
Blank == [i \in 1..Capacity |-> nil]

\* What a transfer of a script looks like when it begins.
Transfer(op, s, size, b) ==
    [op |-> op, on |-> s, size |-> size, buffer |-> b, total |-> 0,
     running |-> FALSE, closed |-> FALSE, would_block |-> FALSE]

Idle == ~call.running
Open_(s) == Idle /\ socket[s] # nil
Connected(s) == socket[s].is_connected
Descriptor(s) == socket[s].descriptor

Init ==
    /\ socket = [s \in Sockets |-> nil]
    /\ heap = [d \in Descriptors |-> nil]
    /\ inbox = [d \in Descriptors |-> <<>>]
    /\ closed = {} /\ arrivals = 0
    /\ live = {} /\ held = {}
    /\ call = Transfer("none", nil, 0, nil) /\ wire = <<>> /\ memory = Blank

\* _socket_open
Open(s, type) ==
    /\ Idle /\ socket[s] = nil
    /\ socket' = [socket EXCEPT ![s] =
                    [type |-> type, is_blocking |-> TRUE, is_connected |-> FALSE,
                     is_listening |-> FALSE, descriptor |-> nil, end_point |-> nil]]
    /\ UNCHANGED <<heap, network, buffers, transfer>>

\* _socket_close: closes and deletes the descriptor, if there is one, and the
\* object.
Close(s) ==
    /\ Open_(s)
    /\ heap' = [d \in Descriptors |-> IF d = Descriptor(s) THEN nil ELSE heap[d]]
    /\ inbox' = [d \in Descriptors |-> IF d = Descriptor(s) THEN <<>> ELSE inbox[d]]
    /\ closed' = closed \ {Descriptor(s)}
    /\ socket' = [socket EXCEPT ![s] = nil]
    /\ UNCHANGED <<arrivals, buffers, transfer>>

\* _socket_set_blocking: a descriptor that refuses leaves the flag as it is.
SetBlocking(s, value) ==
    /\ Open_(s)
    /\ \/ /\ ~Connected(s)
          /\ socket' = [socket EXCEPT ![s].is_blocking = value]
          /\ UNCHANGED heap
       \/ /\ Connected(s)
          /\ socket' = [socket EXCEPT ![s].is_blocking = value]
          /\ heap' = [heap EXCEPT ![Descriptor(s)].blocking = value,
                                  ![Descriptor(s)].set = TRUE]
       \/ Connected(s) /\ UNCHANGED <<socket, heap>>
    /\ UNCHANGED <<network, buffers, transfer>>

\* _socket_listen: implemented for neither type; it marks a UDP socket.
Listen(s) ==
    /\ Open_(s) /\ socket[s].type = "UDP"
    /\ socket' = [socket EXCEPT ![s].is_listening = TRUE]
    /\ UNCHANGED <<heap, network, buffers, transfer>>

\* _socket_connect on a socket that is not connected and fails: the name is not
\* resolved, or the descriptor is not opened, connected or set to its mode, and
\* is deleted again.
ConnectFails(s, peer) ==
    /\ Open_(s) /\ ~Connected(s)
    /\ socket' = [socket EXCEPT ![s].end_point = peer]
    /\ UNCHANGED <<heap, network, buffers, transfer>>

\* _socket_connect: a TCP descriptor takes the mode of the socket, a UDP
\* descriptor stays in the mode in which it was opened.
Connect(s, peer, d) ==
    /\ Open_(s) /\ ~Connected(s)
    /\ heap[d] = nil
    /\ heap' = [heap EXCEPT ![d] =
                  [type |-> socket[s].type, set |-> FALSE,
                   blocking |-> socket[s].type = "UDP" \/ socket[s].is_blocking]]
    /\ socket' = [socket EXCEPT ![s].end_point = peer, ![s].is_connected = TRUE,
                                ![s].descriptor = d]
    /\ UNCHANGED <<network, buffers, transfer>>

-----------------------------------------------------------------------------
\* The network: datagrams of any peer, the bytes of the one peer of a stream.
Arrive(d, from, size) ==
    /\ heap[d] # nil /\ d \notin closed /\ arrivals < MaxArrivals
    /\ heap[d].type = "TCP" =>
         size = 1 /\ \E s \in Sockets : socket[s] # nil /\ Descriptor(s) = d /\ socket[s].end_point = from
    /\ arrivals' = arrivals + 1
    /\ inbox' = [inbox EXCEPT ![d] = Append(@, [id |-> arrivals', from |-> from, size |-> size])]
    /\ UNCHANGED <<socket, heap, closed, buffers, transfer>>

PeerCloses(d) ==
    /\ heap[d] # nil /\ heap[d].type = "TCP" /\ d \notin closed
    /\ closed' = closed \cup {d}
    /\ UNCHANGED <<socket, heap, inbox, arrivals, buffers, transfer>>

-----------------------------------------------------------------------------
\* What a call on a socket that is not connected does: nothing, with a result
\* that says neither that the connection is closed nor that it would block.
NothingSent(op, s, size) ==
    /\ Open_(s) /\ ~Connected(s)
    /\ call' = Transfer(op, s, size, nil) /\ wire' = <<>> /\ memory' = Blank
    /\ UNCHANGED <<socket, heap, network, buffers>>

\* The bytes of the buffer from first on, as they go out at the socket.
Outgoing(s, first, count) ==
    [i \in 1..count |-> [to |-> socket[s].end_point, at |-> first + i]]

\* _socket_send: some of the bytes, or an error, which reads as closed.
Send(s, size) ==
    /\ Open_(s) /\ Connected(s)
    /\ \/ \E sent \in 0..size :
            /\ socket[s].type = "UDP" => sent = size
            /\ call' = [Transfer("send", s, size, nil) EXCEPT !.total = sent]
            /\ wire' = Outgoing(s, 0, sent)
       \/ /\ call' = [Transfer("send", s, size, nil) EXCEPT !.closed = TRUE]
          /\ wire' = <<>>
    /\ memory' = Blank
    /\ UNCHANGED <<socket, heap, network, buffers>>

\* _socket_send_all is called.
SendAll(s, size) ==
    /\ Open_(s) /\ Connected(s)
    /\ call' = [Transfer("send_all", s, size, nil) EXCEPT !.running = (size > 0)]
    /\ wire' = <<>> /\ memory' = Blank
    /\ UNCHANGED <<socket, heap, network, buffers>>

Sending == call.running /\ call.op = "send_all"
Receiving == call.running /\ call.op = "receive_all"

\* A turn of its loop: some of the rest is sent, or an error ends it.
SendAllTurn ==
    /\ Sending
    /\ \/ \E sent \in 1..(call.size - call.total) :
            /\ call' = [call EXCEPT !.total = @ + sent,
                                    !.running = (call.total + sent < call.size)]
            /\ wire' = wire \o Outgoing(call.on, call.total, sent)
       \/ /\ call' = [call EXCEPT !.closed = TRUE, !.running = FALSE]
          /\ UNCHANGED wire
    /\ UNCHANGED <<socket, heap, network, buffers, memory>>

-----------------------------------------------------------------------------
\* The first count bytes of a datagram, or of a stream.
BytesOf(d, count) ==
    IF heap[d].type = "UDP"
      THEN [i \in 1..count |-> [id |-> inbox[d][1].id, at |-> i, of |-> inbox[d][1].size]]
      ELSE [i \in 1..count |-> [id |-> inbox[d][i].id, at |-> 1, of |-> 1]]

\* The numbers of bytes that AL's Receive may return for what waits at d.
Receivable(d, room) ==
    LET first == inbox[d][1].size
    IN  IF inbox[d] = <<>> THEN {}
        ELSE IF heap[d].type = "UDP" THEN {IF first < room THEN first ELSE room}
        ELSE {count \in 1..room : count <= Len(inbox[d])}

\* A descriptor hands over count bytes: a datagram goes as a whole, and its
\* sender becomes the end point of the socket.
Take(s, d, count) ==
    IF heap[d].type = "UDP"
      THEN /\ inbox' = [inbox EXCEPT ![d] = Tail(@)]
           /\ socket' = [socket EXCEPT ![s].end_point = inbox[d][1].from]
      ELSE /\ inbox' = [inbox EXCEPT ![d] = SubSeq(@, count + 1, Len(@))]
           /\ UNCHANGED socket

\* Bytes put into a buffer from place total + 1 on.
Filled(buffer, total, bytes) ==
    [i \in 1..Capacity |-> IF i \in total + 1 .. total + Len(bytes)
                             THEN bytes[i - total] ELSE buffer[i]]

\* Mutant of Receive: the buffer is released when the connection is closed only.
ReceiveKeepsEmpty(s, size, b) ==
    LET d == Descriptor(s)
        new == Transfer("receive", s, size, b)
    IN  /\ Open_(s) /\ b \notin live
        /\ \/ /\ ~Connected(s)
              /\ call' = new /\ memory' = Blank
              /\ live' = live \cup {b} /\ held' = held \cup {b}
              /\ UNCHANGED <<socket, inbox>>
           \/ /\ Connected(s) /\ ~heap[d].blocking /\ inbox[d] = <<>> /\ d \notin closed
              /\ call' = [new EXCEPT !.would_block = TRUE] /\ memory' = Blank
              /\ live' = live \cup {b}
              /\ UNCHANGED <<socket, inbox, held>>
        /\ wire' = <<>>
        /\ UNCHANGED <<heap, closed, arrivals>>

\* Receive of Socket.lua, with _socket_receive: allocates a buffer, and hands it
\* to the script if something was received, or the socket is not connected.
Receive(s, size, b) ==
    LET d == Descriptor(s)
        new == Transfer("receive", s, size, b)
    IN  /\ Open_(s) /\ b \notin live
        /\ \/ /\ ~Connected(s)
              /\ call' = new /\ memory' = Blank
              /\ live' = live \cup {b} /\ held' = held \cup {b}
              /\ UNCHANGED <<socket, inbox>>
           \/ /\ Connected(s)
              /\ \E count \in Receivable(d, size) :
                   /\ Take(s, d, count)
                   /\ call' = [new EXCEPT !.total = count, !.would_block = (count = 0)]
                   /\ memory' = Filled(Blank, 0, BytesOf(d, count))
                   /\ live' = IF count = 0 THEN live ELSE live \cup {b}
                   /\ held' = IF count = 0 THEN held ELSE held \cup {b}
           \/ /\ Connected(s) /\ ~heap[d].blocking /\ inbox[d] = <<>> /\ d \notin closed
              /\ call' = [new EXCEPT !.would_block = TRUE] /\ memory' = Blank
              /\ UNCHANGED <<socket, inbox, live, held>>
           \/ /\ Connected(s)
              /\ call' = [new EXCEPT !.closed = TRUE] /\ memory' = Blank
              /\ UNCHANGED <<socket, inbox, live, held>>
        /\ wire' = <<>>
        /\ UNCHANGED <<heap, closed, arrivals>>

\* ReceiveAll of Socket.lua is called: allocates a buffer, which a socket that
\* is not connected leaves as it is.
ReceiveAll(s, size, b) ==
    /\ Open_(s) /\ b \notin live
    /\ call' = [Transfer("receive_all", s, size, b) EXCEPT !.running = (Connected(s) /\ size > 0)]
    /\ memory' = Blank /\ wire' = <<>>
    /\ live' = live \cup {b}
    /\ held' = IF call'.running THEN held ELSE held \cup {b}
    /\ UNCHANGED <<socket, heap, network>>

\* Mutant of ReceiveAllTurn: every turn writes to the begin of the buffer.
ReceiveAllTurnFromStart ==
    LET d == Descriptor(call.on)
    IN  /\ Receiving
        /\ \E count \in Receivable(d, call.size - call.total) :
             /\ Take(call.on, d, count)
             /\ call' = [call EXCEPT !.total = @ + count,
                                     !.running = (call.total + count < call.size)]
             /\ memory' = Filled(memory, 0, BytesOf(d, count))
             /\ held' = IF call'.running THEN held ELSE held \cup {call.buffer}
             /\ UNCHANGED live
        /\ UNCHANGED <<heap, closed, arrivals, wire>>

\* A turn of its loop: something is received behind what was received before,
\* or an error or the end of the stream ends it, which releases the buffer.
ReceiveAllTurn ==
    LET d == Descriptor(call.on)
    IN  /\ Receiving
        /\ \/ \E count \in Receivable(d, call.size - call.total) :
                /\ Take(call.on, d, count)
                /\ call' = [call EXCEPT !.total = @ + count,
                                        !.running = (call.total + count < call.size)]
                /\ memory' = Filled(memory, call.total, BytesOf(d, count))
                /\ held' = IF call'.running THEN held ELSE held \cup {call.buffer}
                /\ UNCHANGED live
           \/ /\ call' = [call EXCEPT !.closed = TRUE, !.running = FALSE]
              /\ live' = live \ {call.buffer}
              /\ UNCHANGED <<socket, inbox, held, memory>>
        /\ UNCHANGED <<heap, closed, arrivals, wire>>

\* The script releases a buffer it has.
Release(b) ==
    /\ Idle /\ b \in held
    /\ live' = live \ {b} /\ held' = held \ {b}
    /\ UNCHANGED <<socket, heap, network, transfer>>

Next ==
    \/ \E s \in Sockets :
         \/ \E type \in Types : Open(s, type)
         \/ Close(s)
         \/ \E value \in BOOLEAN : SetBlocking(s, value)
         \/ Listen(s)
         \/ \E peer \in Peers : ConnectFails(s, peer)
         \/ \E peer \in Peers, d \in Descriptors : Connect(s, peer, d)
         \/ \E op \in {"send", "send_all"}, size \in Sizes : NothingSent(op, s, size)
         \/ \E size \in Sizes : Send(s, size) \/ SendAll(s, size)
         \/ \E size \in Sizes \ {0}, b \in Buffers : Receive(s, size, b) \/ ReceiveAll(s, size, b)
    \/ SendAllTurn
    \/ ReceiveAllTurn
    \/ \E b \in Buffers : Release(b)
    \/ \E d \in Descriptors :
         \/ \E from \in Peers, size \in Sizes : Arrive(d, from, size)
         \/ PeerCloses(d)

Spec == Init /\ [][Next]_vars

-----------------------------------------------------------------------------
SocketObject ==
    [type : Types, is_blocking : BOOLEAN, is_connected : BOOLEAN, is_listening : BOOLEAN,
     descriptor : Descriptors \cup {nil}, end_point : Peers \cup {nil}]

Byte == [id : 1..MaxArrivals, at : 1..Capacity, of : Sizes]

\* The type invariant of sockets, descriptors and transfers.
TypeOK ==
    /\ socket \in [Sockets -> SocketObject \cup {nil}]
    /\ heap \in [Descriptors -> [type : Types, blocking : BOOLEAN, set : BOOLEAN] \cup {nil}]
    /\ inbox \in [Descriptors -> Seq([id : 1..MaxArrivals, from : Peers, size : Sizes])]
    /\ closed \subseteq Descriptors /\ arrivals \in 0..MaxArrivals
    /\ held \subseteq live /\ live \subseteq Buffers
    /\ call \in [op : {"none", "send", "send_all", "receive", "receive_all"},
                 on : Sockets \cup {nil}, size : Sizes, buffer : Buffers \cup {nil},
                 total : Sizes, running : BOOLEAN, closed : BOOLEAN, would_block : BOOLEAN]
    /\ wire \in Seq([to : Peers, at : 1..Capacity])
    /\ memory \in [1..Capacity -> Byte \cup {nil}]

\* However opening, connecting, failing and closing follow each other, every
\* descriptor belongs to one socket, which is connected, and a socket that says
\* it is connected has one of its type: none is leaked or deleted twice.
DescriptorsOwned ==
    /\ \A s \in Sockets : socket[s] # nil =>
         /\ Connected(s) <=> Descriptor(s) # nil
         /\ Connected(s) => heap[Descriptor(s)] # nil /\ heap[Descriptor(s)].type = socket[s].type
    /\ \A d \in Descriptors : heap[d] # nil =>
         \E s \in Sockets : \A t \in Sockets :
           (socket[t] # nil /\ Descriptor(t) = d) <=> t = s

\* A connected socket is in the mode that IsBlocking tells, except for a UDP
\* socket whose mode was set before Connect and not since: Connect passes the
\* mode on to a TCP descriptor only.
ModeAgrees ==
    \A s \in Sockets : socket[s] # nil /\ Connected(s) =>
      \/ socket[s].is_blocking = heap[Descriptor(s)].blocking
      \/ socket[s].type = "UDP" /\ ~heap[Descriptor(s)].set

\* Every buffer that the wrappers allocate is with the script, released, or the
\* one being filled: no way out of a receive loses one.
BuffersAccounted ==
    live = held \cup (IF Receiving THEN {call.buffer} ELSE {})

\* What a send has sent at any time is the begin of the buffer, each byte once,
\* all to one end point; and socket_send_all that ends without an error on a
\* connected socket has sent everything.
SentOnceInOrder ==
    /\ \E peer \in Peers : wire = [i \in 1..Len(wire) |-> [to |-> peer, at |-> i]]
    /\ call.op \in {"send", "send_all"} => Len(wire) = call.total
    /\ call.op = "send_all" /\ ~call.running /\ ~call.closed =>
         call.total \in {0, call.size}

\* What a receive returns are bytes as they arrived, without a gap before the
\* place it returns: of a datagram only what lies behind the end of the buffer
\* is missing, and of a stream nothing.
ReceivedInOrder ==
    /\ \A i \in 1..Capacity : i <= call.total /\ call.op \in {"receive", "receive_all"} <=> memory[i] # nil
    /\ \A i \in 1..Capacity - 1 : memory[i + 1] # nil =>
         \/ memory[i + 1] = [memory[i] EXCEPT !.at = @ + 1]
         \/ /\ memory[i].at = memory[i].of
            /\ memory[i + 1].at = 1 /\ memory[i + 1].id > memory[i].id
    /\ call.op = "receive_all" /\ ~call.running /\ ~call.closed => call.total \in {0, call.size}

\* A socket that has connected stays connected, to the same descriptor, until it
\* is closed, although its connection may long be gone: it cannot be connected
\* again.
OneConnectionPerSocket ==
    [][\A s \in Sockets : socket[s] # nil /\ Connected(s) /\ socket'[s] # nil =>
         socket'[s].is_connected /\ socket'[s].descriptor = socket[s].descriptor]_vars
=============================================================================
