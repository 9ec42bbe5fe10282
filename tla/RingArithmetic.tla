--------------------------- MODULE RingArithmetic ---------------------------
(***************************************************************************)
(* The ring buffers of a Session (Session.h): `head` is the next slot to   *)
(* read, `tail` the next slot to write, and one slot always stays free.    *)
(***************************************************************************)
EXTENDS Naturals, Sequences

MinOf(a, b) == IF a =< b THEN a ELSE b

GetRingBufferSize(bufferCapacity, head, tail) ==
    IF head =< tail THEN tail - head ELSE bufferCapacity - head + tail

\* The slots that may still be written.
Available(bufferCapacity, head, tail) ==
    bufferCapacity - GetRingBufferSize(bufferCapacity, head, tail) - 1

\* Whether `size` slots can be read.
Readable(bufferCapacity, head, tail, size) ==
    GetRingBufferSize(bufferCapacity, head, tail) >= size

\* The slots from head on that are in one piece: what one WSASend can take.
Contiguous(bufferCapacity, head, tail) ==
    IF tail >= head THEN tail - head ELSE bufferCapacity - head

Advance(bufferCapacity, position, size) == (position + size) % bufferCapacity

\* `size` slots read from `head` on.
Read(buffer, bufferCapacity, head, size) ==
    [i \in 1..size |-> buffer[Advance(bufferCapacity, head, i - 1)]]

\* The buffer after the elements of `data` are written from `tail` on.
Write(buffer, bufferCapacity, tail, data) ==
    [slot \in DOMAIN buffer |->
        LET offset == (slot + bufferCapacity - tail) % bufferCapacity
        IN IF offset < Len(data) THEN data[offset + 1] ELSE buffer[slot]]
=============================================================================
