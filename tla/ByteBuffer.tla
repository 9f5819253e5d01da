----------------------------- MODULE ByteBuffer -----------------------------
(***************************************************************************)
(* The ByteBuffer extension: buffers with a byte order, a place to read    *)
(* and a place to write, integers of several widths and signs in them, and *)
(* buffers cut out of and copied into each other as bytes.                 *)
(*                                                                         *)
(* A byte has Base values (256 in the code).  The history variable intact  *)
(* tells which values a script wrote whose bytes it has not overwritten.   *)
(* Strings and floating point numbers are left out: their layout is AL's.  *)
(***************************************************************************)
EXTENDS Integers, FiniteSets, FiniteSetsExt

CONSTANTS Base,      \* values of a byte
          MachineIs, \* the byte order of the machine, "BIG" or "LITTLE"
          Buffers,   \* addresses of byte_buffer objects
          Capacity,  \* bound: the largest capacity
          Widths,    \* bytes of the integer types: 1, 2, 4 and 8 in the code
          Values,    \* numbers that scripts write
          MaxCalls,  \* bound: the calls of a script
          nil

VARIABLES buffer,   \* the byte_buffer objects, nil where there is none
          result,   \* what the last read returned
          intact,   \* history: values written and not overwritten since
          calls     \* bound

vars == <<buffer, result, intact, calls>>

Endians == {"BIG", "LITTLE", "MACHINE"}
Types == [width : Widths, signed : BOOLEAN]

Order(endian) == IF endian = "MACHINE" THEN MachineIs ELSE endian

\* The value a type has for a number: as many bits as it is wide, and in two's
\* complement if it is signed.
Wrap(type, number) ==
    LET unsigned == number % (Base ^ type.width)
    IN  IF type.signed /\ 2 * unsigned >= Base ^ type.width
          THEN unsigned - Base ^ type.width ELSE unsigned

\* The weight of the byte at a place of a number.
Weight(endian, width, place) ==
    IF Order(endian) = "BIG" THEN Base ^ (width - 1 - place) ELSE Base ^ place

\* Mutant of Encode: MACHINE is taken for BIG.
EncodeMachineBig(endian, type, number) ==
    [place \in 0..type.width - 1 |->
       ((number % (Base ^ type.width)) \div
          (IF endian = "LITTLE" THEN Base ^ place ELSE Base ^ (type.width - 1 - place))) % Base]

\* The bytes of a number as the Write functions store them.
Encode(endian, type, number) ==
    [place \in 0..type.width - 1 |->
       ((number % (Base ^ type.width)) \div Weight(endian, type.width, place)) % Base]

\* The value that the Read functions find at a place.
Decode(endian, type, memory, at) ==
    Wrap(type, MapThenSumSet(LAMBDA place : memory[at + place] * Weight(endian, type.width, place),
                             0..type.width - 1))

\* A memory with count bytes, those of a function from 0 on, put at a place.
Stored(memory, at, bytes, count) ==
    [i \in DOMAIN memory |-> IF i \in at .. at + count - 1 THEN bytes[i - at] ELSE memory[i]]

Overlaps(entry, at, count) == entry.at < at + count /\ at < entry.at + entry.type.width

\* The entries that lie within count bytes from a place, moved by an offset.
Moved(entries, at, count, offset) ==
    {[entry EXCEPT !.at = @ + offset] :
       entry \in {e \in entries : e.at >= at /\ e.at + e.type.width <= at + count}}

New(endian, capacity) ==
    [endian |-> endian, capacity |-> capacity, memory |-> [i \in 0..capacity - 1 |-> 0],
     read |-> 0, write |-> 0]

Live == {b \in Buffers : buffer[b] # nil}
NoResult == [success |-> FALSE, value |-> nil]
Call == calls < MaxCalls /\ calls' = calls + 1

Init ==
    /\ buffer = [b \in Buffers |-> nil]
    /\ result = NoResult
    /\ intact = [b \in Buffers |-> {}]
    /\ calls = 0

\* byte_buffer_allocate
Allocate(b, endian, capacity) ==
    /\ Call /\ b \notin Live
    /\ buffer' = [buffer EXCEPT ![b] = New(endian, capacity)]
    /\ UNCHANGED <<result, intact>>

\* byte_buffer_release
Release(b) ==
    /\ Call /\ b \in Live
    /\ buffer' = [buffer EXCEPT ![b] = nil]
    /\ intact' = [intact EXCEPT ![b] = {}]
    /\ UNCHANGED result

\* byte_buffer_set_read_offset and byte_buffer_set_write_offset, to a place in
\* the buffer.
SetReadOffset(b, offset) ==
    /\ Call /\ b \in Live /\ offset <= buffer[b].capacity
    /\ buffer' = [buffer EXCEPT ![b].read = offset]
    /\ UNCHANGED <<result, intact>>

SetWriteOffset(b, offset) ==
    /\ Call /\ b \in Live /\ offset <= buffer[b].capacity
    /\ buffer' = [buffer EXCEPT ![b].write = offset]
    /\ UNCHANGED <<result, intact>>

\* byte_buffer_read_int8 ... byte_buffer_read_uint64: the next value, if the
\* buffer has as many bytes left.
ReadInteger(b, type) ==
    /\ Call /\ b \in Live
    /\ IF buffer[b].read + type.width <= buffer[b].capacity
         THEN /\ result' = [success |-> TRUE,
                            value |-> Decode(buffer[b].endian, type, buffer[b].memory, buffer[b].read)]
              /\ buffer' = [buffer EXCEPT ![b].read = @ + type.width]
         ELSE /\ result' = [success |-> FALSE, value |-> 0]
              /\ UNCHANGED buffer
    /\ UNCHANGED intact

\* Mutant of WriteInteger: writes if there is room for a byte.
WriteIntegerBeyond(b, type, number) ==
    LET at == buffer[b].write
    IN  /\ Call /\ b \in Live
        /\ at < buffer[b].capacity
        /\ buffer' = [buffer EXCEPT
              ![b].memory = Stored(@, at, Encode(buffer[b].endian, type, number), type.width),
              ![b].write = @ + type.width]
        /\ UNCHANGED <<intact, result>>

\* byte_buffer_write_int8 ... byte_buffer_write_uint64
WriteInteger(b, type, number) ==
    LET at == buffer[b].write
    IN  /\ Call /\ b \in Live
        /\ IF at + type.width <= buffer[b].capacity
             THEN /\ buffer' = [buffer EXCEPT
                       ![b].memory = Stored(@, at, Encode(buffer[b].endian, type, number), type.width),
                       ![b].write = @ + type.width]
                  /\ intact' = [intact EXCEPT ![b] =
                       {e \in @ : ~Overlaps(e, at, type.width)}
                         \cup {[at |-> at, type |-> type, value |-> Wrap(type, number)]}]
             ELSE UNCHANGED <<buffer, intact>>
        /\ UNCHANGED result

\* byte_buffer_read: a buffer of the same byte order with the next bytes.  It is
\* allocated, and returned, also if there are not as many.
Read(b, new, size) ==
    LET from == buffer[b].read
        got  == New(buffer[b].endian, size)
    IN  /\ Call /\ b \in Live /\ new \notin Live
        /\ IF from + size <= buffer[b].capacity
             THEN /\ buffer' = [buffer EXCEPT
                       ![b].read = @ + size,
                       ![new] = [got EXCEPT !.memory = [i \in 0..size - 1 |-> buffer[b].memory[from + i]]]]
                  /\ intact' = [intact EXCEPT ![new] = Moved(intact[b], from, size, -from)]
             ELSE /\ buffer' = [buffer EXCEPT ![new] = got]
                  /\ UNCHANGED intact
        /\ UNCHANGED result

\* byte_buffer_write: the first bytes of another buffer, which keep their order:
\* in a buffer of the other byte order only its single bytes keep their value.
Write(b, source, size) ==
    LET at == buffer[b].write
        kept == {e \in intact[source] : Order(buffer[b].endian) = Order(buffer[source].endian)
                                          \/ e.type.width = 1}
    IN  /\ Call /\ b \in Live /\ source \in Live \ {b} /\ size <= buffer[source].capacity
        /\ IF at + size <= buffer[b].capacity
             THEN /\ buffer' = [buffer EXCEPT
                       ![b].memory = Stored(@, at, buffer[source].memory, size),
                       ![b].write = @ + size]
                  /\ intact' = [intact EXCEPT ![b] =
                       {e \in @ : ~Overlaps(e, at, size)} \cup Moved(kept, 0, size, at)]
             ELSE UNCHANGED <<buffer, intact>>
        /\ UNCHANGED result

Next ==
    \E b \in Buffers :
      \/ \E endian \in Endians, capacity \in 1..Capacity : Allocate(b, endian, capacity)
      \/ Release(b)
      \/ \E offset \in 0..Capacity : SetReadOffset(b, offset) \/ SetWriteOffset(b, offset)
      \/ \E type \in Types : ReadInteger(b, type)
      \/ \E type \in Types, number \in Values : WriteInteger(b, type, number)
      \/ \E other \in Buffers, size \in 0..Capacity : Read(b, other, size) \/ Write(b, other, size)

Spec == Init /\ [][Next]_vars

-----------------------------------------------------------------------------
BufferObject ==
    [endian : Endians, capacity : 0..Capacity, read : 0..Capacity, write : 0..Capacity,
     memory : UNION {[0..capacity - 1 -> 0..Base - 1] : capacity \in 0..Capacity}]

\* The type invariant of buffers: no place lies beyond the capacity.
TypeOK ==
    /\ buffer \in [Buffers -> BufferObject \cup {nil}]
    /\ \A b \in Live :
      /\ {buffer[b].read, buffer[b].write} \subseteq 0..buffer[b].capacity
      /\ buffer[b].memory \in [0..buffer[b].capacity - 1 -> 0..Base - 1]

\* Whatever was written, cut out and copied in between, a value whose bytes were
\* not overwritten is found where it was put: in every byte order, width and
\* sign, and cut down to its type as two's complement cuts it.
WrittenStays ==
    \A b \in Live : \A entry \in intact[b] :
      Decode(buffer[b].endian, entry.type, buffer[b].memory, entry.at) = entry.value

\* A read of the type that was written returns the value, and one of the same
\* width and the other sign a value of the same bits.
ReadsBackWritten ==
    [][\A b \in Live, type \in Types : ReadInteger(b, type) =>
         \A entry \in intact[b] :
           entry.at = buffer[b].read /\ entry.type.width = type.width =>
             result' = [success |-> TRUE, value |-> Wrap(type, entry.value)]]_vars
=============================================================================
