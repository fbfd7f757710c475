-------------------------------- MODULE Buffer --------------------------------
(***************************************************************************)
(* fx::Buffer as operators.  A buffer is the size of its vector, the two      *)
(* indices, and the bytes below write_index_.                                *)
(***************************************************************************)
EXTENDS Integers, Sequences

CONSTANTS
    InitialSize,    \* kDefaultReservedSize
    SizeRange       \* 2^w, where w is the width of size_t

ASSUME BufferAssumption == InitialSize \in Nat /\ SizeRange \in Nat \ {0}

NewBuffer == [size |-> InitialSize, read |-> 0, write |-> 0, bytes |-> <<>>]

BytesCanWrite(b) == b.size - b.write
BytesToRead(b) == b.write - b.read
Content(b) == SubSeq(b.bytes, b.read + 1, b.write)

Clear(b) == [b EXCEPT !.read = 0, !.write = 0, !.bytes = <<>>]

ConsumeBytesAll(b, n) == Clear(b)      \* mutant: the unread rest is dropped

\* All read: both indices start again.  Otherwise the read part stays, and is
\* never used again before everything is read.
ConsumeBytes(b, n) ==
    IF b.read + n = b.write THEN Clear(b) ELSE [b EXCEPT !.read = @ + n]

\* Bytes that readv has put behind write_index_.
AddBytes(b, bytes) ==
    [b EXCEPT !.write = @ + Len(bytes), !.bytes = @ \o bytes]

\* The vector's size after EnsureSpace, in the arithmetic of size_t.
EnsureSpace(b, n) ==
    IF BytesCanWrite(b) < n
    THEN (b.size + (n - BytesCanWrite(b)) * 2) % SizeRange
    ELSE b.size

\* The assertion of Append after EnsureSpace.
Appends(b, n) == EnsureSpace(b, n) - b.write >= n

AppendBytes(b, bytes) ==
    AddBytes([b EXCEPT !.size = EnsureSpace(b, Len(bytes))], bytes)
=============================================================================
