----------------------------- MODULE Extensions -----------------------------
(***************************************************************************)
(* The host that runs a script and loads extensions, and three extensions  *)
(* that every plugin may use: sockets, byte buffers and the loop.  They    *)
(* share no state, so that what a script does with all of them is, seen    *)
(* from one of them, what a script does that uses this one alone: a        *)
(* behaviour here belongs to one of them, and the others rest.             *)
(***************************************************************************)
EXTENDS Integers, Sequences, FiniteSets, TLC

CONSTANTS nil

\* Constants of Socket; Datas are the buffers its wrappers allocate.
CONSTANTS Sockets, Descriptors, Datas, Peers, Size, MaxArrivals

\* Constants of ByteBuffer, of Host and of Loop.
CONSTANTS Base, MachineIs, Buffers, Capacity, Widths, Values, MaxCalls
CONSTANTS Libraries, Forgetful, Requirers, Shared, Handles, ExitCodes, MaxLoads
CONSTANTS TicksPerMs, Interval, Starts, Works, Lates, MaxNow

ASSUME NilAssumption ==
    nil \notin Sockets \cup Descriptors \cup Datas \cup Peers \cup Buffers
                 \cup Libraries \cup Handles
ASSUME SocketAssumption == Size \in Nat \ {0} /\ MaxArrivals \in Nat /\ Peers # {}
ASSUME ByteBufferAssumption ==
    /\ Base \in Nat \ {0, 1} /\ Base % 2 = 0 /\ MachineIs \in {"BIG", "LITTLE"}
    /\ Widths \subseteq Nat \ {0} /\ Values \subseteq Nat /\ Capacity \in Nat
\* Arithmetic, which a proof needs to be told: it knows nothing of powers.
ASSUME PowersAreNumbers ==
    \A width \in Widths : \A place \in 0..width : Base ^ place \in Nat \ {0}
ASSUME HostAssumption ==
    /\ Shared \in Libraries /\ Requirers \subseteq Libraries \ {Shared}
    /\ Forgetful \subseteq Libraries /\ MaxLoads \in Nat /\ ExitCodes \subseteq Int
ASSUME LoopAssumption ==
    /\ TicksPerMs \in Nat \ {0} /\ Interval \in Nat /\ MaxNow \in Nat
    /\ Starts \subseteq Nat /\ Works \subseteq Nat /\ Lates \subseteq Nat

VARIABLES used,  \* the one that the script uses
          socket, heap, inbox, closed, arrivals, live, held, call, wire, memory,
          buffer, value, intact, calls,
          pc, fileExists, result, exitCode, status, lua,
          extension, processes, images, globals, required, stale, loads,
          now, last_update, next_update, start, syncs, reported

socketVars == <<socket, heap, inbox, closed, arrivals, live, held, call, wire, memory>>
bufferVars == <<buffer, value, intact, calls>>
hostVars == <<pc, fileExists, result, exitCode, status, lua,
              extension, processes, images, globals, required, stale, loads>>
loopVars == <<now, last_update, next_update, start, syncs, reported>>
vars == <<used, socketVars, bufferVars, hostVars, loopVars>>

S == INSTANCE Socket WITH Buffers <- Datas, Capacity <- Size
B == INSTANCE ByteBuffer WITH result <- value
H == INSTANCE Host
L == INSTANCE Loop

ASSUME NilIsNoRecord ==
    /\ nil \notin BOOLEAN
    /\ nil \notin S!SocketObject \cup S!Byte \cup B!BufferObject
    /\ nil \notin [type : S!Types, blocking : BOOLEAN, set : BOOLEAN]
    /\ nil \notin [library : Libraries, stage : H!Stages]

Init ==
    /\ used \in {"Socket", "ByteBuffer", "Host", "Loop"}
    /\ S!Init /\ B!Init /\ H!Init /\ L!Init
    /\ used # "Host" => fileExists
    /\ used # "Loop" => \A ticks \in Starts : now <= ticks

Next ==
    /\ UNCHANGED used
    /\ \/ used = "Socket" /\ S!Next /\ UNCHANGED <<bufferVars, hostVars, loopVars>>
       \/ used = "ByteBuffer" /\ B!Next /\ UNCHANGED <<socketVars, hostVars, loopVars>>
       \/ used = "Host" /\ H!Next /\ UNCHANGED <<socketVars, bufferVars, loopVars>>
       \/ used = "Loop" /\ L!Next /\ UNCHANGED <<socketVars, bufferVars, hostVars>>

Spec == Init /\ [][Next]_vars

\* No action tells descriptors, peers or byte buffers apart.
Symmetry == Permutations(Descriptors) \cup Permutations(Peers) \cup Permutations(Buffers)

-----------------------------------------------------------------------------
\* The type invariants.
TypeOK == S!TypeOK /\ B!TypeOK /\ H!TypeOK /\ L!TypeOK

\* Socket: no descriptor is leaked, shared or deleted twice, a socket keeps the one
\* it has until it is closed and tells its mode, and no receive loses its buffer.
SocketsOwned ==
    /\ [](S!DescriptorsOwned /\ S!ModeAgrees /\ S!BuffersAccounted)
    /\ S!OneConnectionPerSocket

\* Socket: a send sends the begin of the buffer, each byte once, to one end point; a
\* receive fills the buffer without a gap with bytes as they arrived.
TransfersInOrder == S!SentOnceInOrder /\ S!ReceivedInOrder

\* ByteBuffer: a value whose bytes were not overwritten is found where it was put,
\* and a read returns it, cut down to its type.
IntegersKept == [](used = "ByteBuffer" => B!WrittenStays) /\ B!ReadsBackWritten

\* Host: an open process or a loaded library belongs to an extension that is loaded
\* or being loaded, whichever stage of loading fails.
ResourcesBalanced == H!ResourcesBalanced

\* Host: the globals of a loaded extension are defined, unless another extension of
\* its library has been unloaded; they outlive the library only if it forgets them;
\* and constants are missed only of a module that was required too early.
GlobalsFollowLibraries ==
    H!DanglingOnlyForgotten /\ H!GlobalsDefined /\ H!ConstantsCaptured

\* Loop: Sync is never too fast, however late its calls were, and the clock made of
\* what it returns does not run ahead.
TimeKept == L!PaceHeld /\ L!ClockNeverAhead

\* Loop: a call that finds time left is back on the schedule of loop_init.
OnScheduleAgain == L!OnScheduleAgain
=============================================================================
