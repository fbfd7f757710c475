---------------------------- MODULE TcpClientProofs ----------------------------
(***************************************************************************)
(* Theorems about TcpClient, for any number of connections and descriptors,   *)
(* writes of any size and buffers that grow.                                 *)
(*                                                                         *)
(* The invariant has parts that hold always (the connections' buffers and     *)
(* wires, the pointers, the assertions) and parts that hold while the process *)
(* runs (the poller's map, the phases of an iteration, what is left to do in  *)
(* it).  A handler changes one connection: it is shown once, from record to   *)
(* record, and then once for all its callers that the rest is kept.           *)
(***************************************************************************)
EXTENDS TcpClient, SequenceTheorems, TLAPS

(***************************************************************************)
(* The inductive invariant.                                                  *)
(***************************************************************************)
IsConn(r) == DOMAIN r = DOMAIN Unconnected

\* The indices of a buffer are in order, and below the size of its vector.
IsBuffer(b) ==
    /\ DOMAIN b = {"size", "read", "write", "bytes"}
    /\ b.size \in Nat /\ b.read \in Nat /\ b.write \in Nat /\ b.bytes \in Seq(Int)
    /\ b.read <= b.write /\ b.write <= b.size /\ b.size < SizeRange
    /\ Len(b.bytes) = b.write

\* What has left the connection, of the bytes of Write and of the file.
Sent(r) == r.written - BytesToRead(r.wbuf)
FileSent(r) == IF r.zdone = -1 THEN r.filed ELSE r.zdone

\* y may follow x on the wire.
InTurn(x, y, mark, overtaken) ==
    /\ x > 0 /\ y > 0 => x < y
    /\ x < 0 /\ y < 0 => x > y
    /\ x < 0 /\ y \in 1 .. mark => overtaken

Ordered(w, mark, overtaken) ==
    \A i, j \in DOMAIN w : i < j => InTurn(w[i], w[j], mark, overtaken)

Counts(r) ==
    /\ IsBuffer(r.wbuf)
    /\ r.written \in 0 .. MaxWritten
    /\ Sent(r) \in Nat /\ r.wbuf.read <= Sent(r)
    /\ r.filed \in {0, FileLen} /\ r.zdone \in -1 .. r.filed
    /\ r.zdone # -1 => r.filed = FileLen
    /\ r.mark \in 0 .. r.written

\* The bytes of s are those after the first n.
Numbered(s, n) == \A k \in 1 .. Len(s) : s[k] = n + k

Unsent(r) == Numbered(Content(r.wbuf), Sent(r))

Wired(r) ==
    /\ r.wire \in Seq(Int)
    /\ Range(r.wire) = (1 .. Sent(r)) \cup (-FileSent(r) .. -1)
    /\ Ordered(r.wire, r.mark, r.overtaken)

\* The file is behind what was written before it, or has overtaken it.
Marked(r) == FileSent(r) > 0 => r.overtaken \/ r.mark <= Sent(r)
DoneInv(r) == r.done => BytesToRead(r.wbuf) = 0 /\ r.zdone = -1

Sending(r) == Counts(r) /\ Unsent(r) /\ Wired(r) /\ Marked(r) /\ DoneInv(r)

\* What has arrived is read, in the buffer or in the socket, in order.
Receiving(r) ==
    /\ IsBuffer(r.rbuf)
    /\ r.sent \in 0 .. MaxInput /\ r.got \in Nat /\ r.input \in Seq(Int)
    /\ r.rbuf.read <= r.got
    /\ r.got + BytesToRead(r.rbuf) + Len(r.input) <= r.sent
    /\ r.sock # "down" => r.got + BytesToRead(r.rbuf) + Len(r.input) = r.sent
    /\ Numbered(Content(r.rbuf), r.got)
    /\ Numbered(r.input, r.got + BytesToRead(r.rbuf))

-----------------------------------------------------------------------------
(* Buffers *)

LEMMA SmallMod ==
    ASSUME NEW x \in Nat, NEW s \in Nat \ {0}, x < s
    PROVE  x % s = x
  OBVIOUS

LEMMA ConcatInt ==
    ASSUME NEW s \in Seq(Int), NEW t \in Seq(Int)
    PROVE  /\ s \o t \in Seq(Int) /\ Len(s \o t) = Len(s) + Len(t)
           /\ Len(s) \in Nat /\ Len(t) \in Nat
           /\ \A i \in 1 .. Len(s) : (s \o t)[i] = s[i]
           /\ \A i \in 1 .. Len(t) : (s \o t)[Len(s) + i] = t[i]
<1>1. /\ s \o t \in Seq(Int) /\ Len(s \o t) = Len(s) + Len(t)
      /\ \A i \in 1 .. Len(s) + Len(t) :
            (s \o t)[i] = IF i <= Len(s) THEN s[i] ELSE t[i - Len(s)]
  BY ConcatProperties
<1>2. Len(s) \in Nat /\ Len(t) \in Nat
  OBVIOUS
<1>3. ASSUME NEW i \in 1 .. Len(s) PROVE (s \o t)[i] = s[i]
  BY <1>1, <1>2
<1>4. ASSUME NEW i \in 1 .. Len(t) PROVE (s \o t)[Len(s) + i] = t[i]
  <2>1. Len(s) + i \in 1 .. Len(s) + Len(t) /\ ~(Len(s) + i <= Len(s)) /\ (Len(s) + i) - Len(s) = i
    BY <1>2
  <2> QED
    BY <1>1, <2>1
<1> QED
  BY <1>1, <1>2, <1>3, <1>4

LEMMA SubSeqInt ==
    ASSUME NEW s \in Seq(Int), NEW m \in 1 .. Len(s) + 1, NEW n \in 0 .. Len(s), m <= n + 1
    PROVE  /\ SubSeq(s, m, n) \in Seq(Int)
           /\ Len(SubSeq(s, m, n)) = (n + 1) - m
           /\ \A k \in 1 .. (n + 1) - m : SubSeq(s, m, n)[k] = s[(m - 1) + k]
<1>1. \A i \in m .. n : s[i] \in Int
  BY ElementOfSeq
<1>2. m \in Int /\ n \in Int
  OBVIOUS
<1> DEFINE t == SubSeq(s, m, n)
<1>3. /\ t \in Seq(Int) /\ Len(t) = IF m <= n THEN n-m+1 ELSE 0
      /\ \A i \in 1 .. n-m+1 : t[i] = s[m+i-1]
  BY <1>1, <1>2, SubSeqProperties
<1> HIDE DEF t
<1>4. Len(t) = (n + 1) - m
  BY <1>2, <1>3
<1>5. ASSUME NEW k \in 1 .. (n + 1) - m
      PROVE  t[k] = s[(m - 1) + k]
  <2>1. (m+k)-1 = (m - 1) + k /\ k \in 1 .. (n-m)+1
    BY <1>2
  <2> QED
    BY <1>3, <2>1
<1> QED
  BY <1>3, <1>4, <1>5 DEF t

LEMMA ContentIs ==
    ASSUME NEW b, IsBuffer(b)
    PROVE  /\ Content(b) \in Seq(Int) /\ Len(Content(b)) = BytesToRead(b)
           /\ BytesToRead(b) \in Nat
           /\ \A k \in 1 .. BytesToRead(b) : Content(b)[k] = b.bytes[b.read + k]
<1>1. b.read \in Nat /\ b.write \in Nat /\ b.read <= b.write /\ Len(b.bytes) = b.write
  BY DEF IsBuffer
<1>2. b.bytes \in Seq(Int)
  BY DEF IsBuffer
<1> DEFINE t == SubSeq(b.bytes, b.read + 1, b.write)
<1>3. b.read + 1 \in 1 .. Len(b.bytes) + 1 /\ b.write \in 0 .. Len(b.bytes)
      /\ b.read + 1 <= b.write + 1
  BY <1>1
<1>4. /\ t \in Seq(Int) /\ Len(t) = (b.write + 1) - (b.read + 1)
      /\ \A k \in 1 .. (b.write + 1) - (b.read + 1) : t[k] = b.bytes[((b.read + 1) - 1) + k]
  BY <1>2, <1>3, SubSeqInt
<1> HIDE DEF t
<1>5. (b.write + 1) - (b.read + 1) = b.write - b.read /\ (b.read + 1) - 1 = b.read
  BY <1>1
<1>6. t \in Seq(Int) /\ Len(t) = b.write - b.read
      /\ \A k \in 1 .. b.write - b.read : t[k] = b.bytes[b.read + k]
  BY <1>4, <1>5
<1>7. b.write - b.read \in Nat
  BY <1>1
<1> QED
  BY <1>6, <1>7 DEF Content, BytesToRead, t

LEMMA NumberedConcat ==
    ASSUME NEW s \in Seq(Int), NEW t \in Seq(Int), NEW n \in Int,
           Numbered(s, n), Numbered(t, n + Len(s))
    PROVE  Numbered(s \o t, n)
<1>1. /\ Len(s \o t) = Len(s) + Len(t) /\ Len(s) \in Nat /\ Len(t) \in Nat
      /\ \A i \in 1 .. Len(s) : (s \o t)[i] = s[i]
      /\ \A i \in 1 .. Len(t) : (s \o t)[Len(s) + i] = t[i]
  BY ConcatInt
<1>2. ASSUME NEW k \in 1 .. Len(s) + Len(t)
      PROVE  (s \o t)[k] = n + k
  <2>1. CASE k <= Len(s)
    <3>1. k \in 1 .. Len(s)
      BY <1>1, <2>1
    <3> QED
      BY <1>1, <3>1 DEF Numbered
  <2>2. CASE k > Len(s)
    <3> DEFINE i == k - Len(s)
    <3>1. i \in 1 .. Len(t) /\ k = Len(s) + i
      BY <1>1, <2>2
    <3> HIDE DEF i
    <3>2. (s \o t)[Len(s) + i] = t[i] /\ t[i] = (n + Len(s)) + i
      BY <1>1, <3>1 DEF Numbered
    <3> QED
      BY <1>1, <3>1, <3>2
  <2> QED
    BY <1>1, <2>1, <2>2
<1> QED
  BY <1>1, <1>2 DEF Numbered

\* The first k bytes, and the rest.
LEMMA NumberedSplit ==
    ASSUME NEW s \in Seq(Int), NEW n \in Int, Numbered(s, n), NEW k \in 0 .. Len(s)
    PROVE  /\ SubSeq(s, 1, k) \in Seq(Int) /\ Len(SubSeq(s, 1, k)) = k
           /\ Numbered(SubSeq(s, 1, k), n)
           /\ SubSeq(s, k + 1, Len(s)) \in Seq(Int)
           /\ Len(SubSeq(s, k + 1, Len(s))) = Len(s) - k
           /\ Numbered(SubSeq(s, k + 1, Len(s)), n + k)
<1>1. Len(s) \in Nat
  OBVIOUS
<1> DEFINE a == SubSeq(s, 1, k)
<1> DEFINE b == SubSeq(s, k + 1, Len(s))
<1>2. /\ a \in Seq(Int) /\ Len(a) = (k + 1) - 1
      /\ \A i \in 1 .. (k + 1) - 1 : a[i] = s[(1 - 1) + i]
  <2>1. 1 \in 1 .. Len(s) + 1 /\ k \in 0 .. Len(s) /\ 1 <= k + 1
    BY <1>1
  <2> QED
    BY <2>1, SubSeqInt
<1>3. /\ b \in Seq(Int) /\ Len(b) = (Len(s) + 1) - (k + 1)
      /\ \A i \in 1 .. (Len(s) + 1) - (k + 1) : b[i] = s[((k + 1) - 1) + i]
  <2>1. k + 1 \in 1 .. Len(s) + 1 /\ Len(s) \in 0 .. Len(s) /\ k + 1 <= Len(s) + 1
    BY <1>1
  <2> QED
    BY <2>1, SubSeqInt
<1> HIDE DEF a, b
<1>4. Len(a) = k /\ Len(b) = Len(s) - k
  BY <1>1, <1>2, <1>3
<1>5. Numbered(a, n)
  <2> SUFFICES ASSUME NEW i \in 1 .. k PROVE a[i] = n + i
    BY <1>4 DEF Numbered
  <2>1. i \in 1 .. (k + 1) - 1 /\ (1 - 1) + i = i /\ i \in 1 .. Len(s)
    BY <1>1
  <2> QED
    BY <1>2, <2>1 DEF Numbered
<1>6. Numbered(b, n + k)
  <2> SUFFICES ASSUME NEW i \in 1 .. Len(s) - k PROVE b[i] = (n + k) + i
    BY <1>4 DEF Numbered
  <2>1. i \in 1 .. (Len(s) + 1) - (k + 1) /\ ((k + 1) - 1) + i = k + i
        /\ k + i \in 1 .. Len(s) /\ i \in Int
    BY <1>1
  <2>2. b[i] = s[k + i] /\ s[k + i] = n + (k + i)
    BY <1>3, <2>1 DEF Numbered
  <2> QED
    BY <1>1, <2>1, <2>2
<1> QED
  BY <1>2, <1>3, <1>4, <1>5, <1>6 DEF a, b

LEMMA NumberedIs ==
    ASSUME NEW s \in Seq(Int), NEW n \in Int, Numbered(s, n)
    PROVE  s = [k \in 1 .. Len(s) |-> n + k]
<1> DEFINE t == [k \in 1 .. Len(s) |-> n + k]
<1>1. Len(s) \in Nat
  OBVIOUS
<1>2. t \in Seq(Int) /\ Len(t) = Len(s) /\ \A k \in 1 .. Len(s) : t[k] = n + k
  BY <1>1
<1> HIDE DEF t
<1>3. \A k \in 1 .. Len(s) : s[k] = t[k]
  BY <1>2 DEF Numbered
<1>4. s = t
  BY <1>2, <1>3, SeqEqual
<1> QED
  BY <1>4 DEF t

LEMMA RangeOfNumbered ==
    ASSUME NEW s \in Seq(Int), NEW n \in Int, Numbered(s, n)
    PROVE  Range(s) = n + 1 .. n + Len(s)
<1>1. Len(s) \in Nat /\ DOMAIN s = 1 .. Len(s)
  OBVIOUS
<1>2. \A k \in 1 .. Len(s) : s[k] = n + k
  BY DEF Numbered
<1>3. ASSUME NEW x \in Range(s) PROVE x \in n + 1 .. n + Len(s)
  BY <1>1, <1>2 DEF Range
<1>4. ASSUME NEW x \in n + 1 .. n + Len(s) PROVE x \in Range(s)
  <2>1. x - n \in 1 .. Len(s) /\ n + (x - n) = x
    BY <1>1
  <2>2. s[x - n] = x
    BY <1>2, <2>1
  <2> QED
    BY <1>1, <2>1, <2>2 DEF Range
<1> QED
  BY <1>3, <1>4

LEMMA NewBufferIsBuffer == IsBuffer(NewBuffer) /\ BytesToRead(NewBuffer) = 0 /\ NewBuffer.read = 0
<1>1. <<>> \in Seq(Int) /\ Len(<<>>) = 0
  OBVIOUS
<1> QED
  BY <1>1, BufferAssumption, SizesFit DEF IsBuffer, NewBuffer, BytesToRead

\* Append makes room; nothing wraps as long as twice the bytes fit.
LEMMA AppendKeeps ==
    ASSUME NEW b, IsBuffer(b), NEW s \in Seq(Int), 2 * (b.write + Len(s)) < SizeRange,
           NEW q, q = AppendBytes(b, s)
    PROVE  /\ IsBuffer(q) /\ q.read = b.read /\ q.write = b.write + Len(s)
           /\ q.bytes = b.bytes \o s /\ Appends(b, Len(s))
<1>1. Len(s) \in Nat /\ SizeRange \in Nat \ {0}
  BY BufferAssumption
<1>2. b.size \in Nat /\ b.read \in Nat /\ b.write \in Nat /\ b.bytes \in Seq(Int)
      /\ b.read <= b.write /\ b.write <= b.size /\ b.size < SizeRange
      /\ Len(b.bytes) = b.write /\ DOMAIN b = {"size", "read", "write", "bytes"}
  BY DEF IsBuffer
<1> DEFINE grown == EnsureSpace(b, Len(s))
<1>3. grown \in Nat /\ grown < SizeRange /\ grown >= b.write + Len(s)
  <2>1. CASE b.size - b.write < Len(s)
    <3>1. b.size + (Len(s) - (b.size - b.write)) * 2 = 2 * (b.write + Len(s)) - b.size
      BY <1>1, <1>2
    <3> DEFINE x == 2 * (b.write + Len(s)) - b.size
    <3>2. x \in Nat /\ x < SizeRange /\ x >= b.write + Len(s)
      BY <1>1, <1>2, <2>1
    <3>3. x % SizeRange = x
      BY <1>1, <3>2, SmallMod
    <3>4. grown = x
      BY <2>1, <3>1, <3>3 DEF EnsureSpace, BytesCanWrite
    <3> QED
      BY <3>2, <3>4
  <2>2. CASE ~(b.size - b.write < Len(s))
    <3>1. grown = b.size
      BY <2>2 DEF EnsureSpace, BytesCanWrite
    <3> QED
      BY <1>1, <1>2, <2>2, <3>1
  <2> QED
    BY <2>1, <2>2
<1>6. Appends(b, Len(s))
  <2> HIDE DEF grown
  <2>1. grown - b.write >= Len(s)
    BY <1>1, <1>2, <1>3
  <2> QED
    BY <2>1 DEF Appends, grown
<1> HIDE DEF grown
<1>4. q.read = b.read /\ q.size = grown /\ q.write = b.write + Len(s)
      /\ q.bytes = b.bytes \o s /\ DOMAIN q = {"size", "read", "write", "bytes"}
  BY <1>2 DEF AppendBytes, AddBytes, grown
<1>5. b.bytes \o s \in Seq(Int) /\ Len(b.bytes \o s) = b.write + Len(s)
  <2>1. b.bytes \in Seq(Int)
    BY <1>2
  <2>2. b.bytes \o s \in Seq(Int) /\ Len(b.bytes \o s) = Len(b.bytes) + Len(s)
    BY <2>1, ConcatInt
  <2> QED
    BY <1>2, <2>2
<1> QED
  BY <1>1, <1>2, <1>3, <1>4, <1>5, <1>6 DEF IsBuffer

\* Bytes put behind write_index_ where there is room.
LEMMA AddKeeps ==
    ASSUME NEW b, IsBuffer(b), NEW s \in Seq(Int), Len(s) <= BytesCanWrite(b),
           NEW q, q = AddBytes(b, s)
    PROVE  /\ IsBuffer(q) /\ q.read = b.read /\ q.write = b.write + Len(s)
           /\ q.bytes = b.bytes \o s /\ q.size = b.size
<1>1. b.size \in Nat /\ b.read \in Nat /\ b.write \in Nat /\ b.bytes \in Seq(Int)
      /\ b.read <= b.write /\ b.write <= b.size /\ b.size < SizeRange
      /\ Len(b.bytes) = b.write /\ DOMAIN b = {"size", "read", "write", "bytes"}
  BY DEF IsBuffer
<1>2. q.read = b.read /\ q.size = b.size /\ q.write = b.write + Len(s)
      /\ q.bytes = b.bytes \o s /\ DOMAIN q = {"size", "read", "write", "bytes"}
  BY <1>1 DEF AddBytes
<1>3. b.bytes \o s \in Seq(Int) /\ Len(b.bytes \o s) = b.write + Len(s) /\ Len(s) \in Nat
  <2>1. b.bytes \in Seq(Int)
    BY <1>1
  <2>2. /\ b.bytes \o s \in Seq(Int) /\ Len(b.bytes \o s) = Len(b.bytes) + Len(s)
        /\ Len(s) \in Nat
    BY <2>1, ConcatInt
  <2> QED
    BY <1>1, <2>2
<1> QED
  BY <1>1, <1>2, <1>3 DEF IsBuffer, BytesCanWrite

\* The unread bytes, when bytes are put behind them.
LEMMA UnreadOfConcat ==
    ASSUME NEW b, IsBuffer(b), NEW q, IsBuffer(q), NEW s \in Seq(Int), q.read = b.read,
           q.write = b.write + Len(s), q.bytes = b.bytes \o s
    PROVE  /\ BytesToRead(q) = BytesToRead(b) + Len(s)
           /\ Content(q) = Content(b) \o s
<1>1. b.read \in Nat /\ b.write \in Nat /\ b.read <= b.write /\ Len(b.bytes) = b.write
      /\ Len(s) \in Nat
  BY DEF IsBuffer
<1>2. BytesToRead(b) = b.write - b.read /\ BytesToRead(q) = (b.write + Len(s)) - b.read
  BY DEF BytesToRead
<1>3. b.bytes \in Seq(Int)
  BY DEF IsBuffer
<1>4. /\ \A i \in 1 .. Len(b.bytes) : (b.bytes \o s)[i] = b.bytes[i]
      /\ \A i \in 1 .. Len(s) : (b.bytes \o s)[Len(b.bytes) + i] = s[i]
  BY <1>3, ConcatInt
<1>5. /\ Content(b) \in Seq(Int) /\ Len(Content(b)) = BytesToRead(b)
      /\ \A k \in 1 .. BytesToRead(b) : Content(b)[k] = b.bytes[b.read + k]
  BY ContentIs
<1>6. /\ Content(q) \in Seq(Int) /\ Len(Content(q)) = BytesToRead(q)
      /\ \A k \in 1 .. BytesToRead(q) : Content(q)[k] = q.bytes[q.read + k]
  BY ContentIs
<1> DEFINE t == Content(b) \o s
<1>7. /\ t \in Seq(Int) /\ Len(t) = Len(Content(b)) + Len(s)
      /\ \A i \in 1 .. Len(Content(b)) : t[i] = Content(b)[i]
      /\ \A i \in 1 .. Len(s) : t[Len(Content(b)) + i] = s[i]
  BY <1>5, ConcatInt
<1> HIDE DEF t
<1>8. BytesToRead(q) = BytesToRead(b) + Len(s)
  BY <1>1, <1>2
<1>9. ASSUME NEW k \in 1 .. BytesToRead(b) + Len(s)
      PROVE  Content(q)[k] = t[k]
  <2>1. Content(q)[k] = (b.bytes \o s)[b.read + k]
    BY <1>6, <1>8
  <2>2. CASE k <= BytesToRead(b)
    <3>1. k \in 1 .. BytesToRead(b) /\ b.read + k \in 1 .. Len(b.bytes)
      BY <1>1, <1>2, <2>2
    <3>2. (b.bytes \o s)[b.read + k] = b.bytes[b.read + k]
      BY <1>4, <3>1
    <3> QED
      BY <1>5, <1>7, <2>1, <3>1, <3>2
  <2>3. CASE k > BytesToRead(b)
    <3> DEFINE i == k - BytesToRead(b)
    <3>1. i \in 1 .. Len(s) /\ b.read + k = Len(b.bytes) + i /\ k = Len(Content(b)) + i
      <4>1. i \in 1 .. Len(s) /\ b.read + k = Len(b.bytes) + i /\ k = BytesToRead(b) + i
        <5>1. BytesToRead(b) = Len(b.bytes) - b.read /\ b.read \in Nat /\ Len(b.bytes) \in Nat
              /\ Len(s) \in Nat /\ BytesToRead(b) \in Nat
          BY <1>1, <1>2
        <5>2. k \in Nat /\ BytesToRead(b) < k /\ k <= BytesToRead(b) + Len(s)
          BY <2>3, <5>1
        <5> HIDE DEF i
        <5>3. i = k - BytesToRead(b)
          BY DEF i
        <5>4. i \in 1 .. Len(s) /\ k = BytesToRead(b) + i
          <6> DEFINE t0 == BytesToRead(b)
          <6>1. /\ t0 \in Nat /\ Len(s) \in Nat /\ k \in Nat /\ i = k - t0
                /\ t0 < k /\ k <= t0 + Len(s)
            BY <5>1, <5>2, <5>3
          <6> HIDE DEF t0
          <6>2. i \in 1 .. Len(s) /\ k = t0 + i
            BY <6>1
          <6> QED
            BY <6>2 DEF t0
        <5>5. i \in Nat
          BY <5>1, <5>4
        <5>6. b.read + k = Len(b.bytes) + i
          BY <5>1, <5>4, <5>5, SMTT(30)
        <5> QED
          BY <5>4, <5>6
      <4> QED
        BY <1>5, <4>1
    <3> HIDE DEF i
    <3>2. (b.bytes \o s)[Len(b.bytes) + i] = s[i] /\ t[Len(Content(b)) + i] = s[i]
      BY <1>4, <1>7, <3>1
    <3> QED
      BY <2>1, <3>1, <3>2
  <2> QED
    BY <1>1, <1>2, <2>2, <2>3
<1>10. Content(q) = t
  <2>1. Content(q) \in Seq(Int) /\ t \in Seq(Int) /\ Len(Content(q)) = Len(t)
    BY <1>5, <1>6, <1>7, <1>8
  <2>2. \A k \in 1 .. Len(Content(q)) : Content(q)[k] = t[k]
    BY <1>6, <1>8, <1>9
  <2> QED
    BY <2>1, <2>2, SeqEqual
<1> QED
  BY <1>8, <1>10 DEF t

LEMMA ConsumeKeeps ==
    ASSUME NEW b, IsBuffer(b), NEW n \in 0 .. BytesToRead(b), NEW q, q = ConsumeBytes(b, n)
    PROVE  /\ IsBuffer(q) /\ BytesToRead(q) = BytesToRead(b) - n /\ q.read <= b.read + n
           /\ Content(q) = SubSeq(Content(b), n + 1, Len(Content(b)))
<1>1. b.size \in Nat /\ b.read \in Nat /\ b.write \in Nat /\ b.bytes \in Seq(Int)
      /\ b.read <= b.write /\ b.write <= b.size /\ b.size < SizeRange
      /\ Len(b.bytes) = b.write /\ DOMAIN b = {"size", "read", "write", "bytes"}
  BY DEF IsBuffer
<1>2. BytesToRead(b) = b.write - b.read /\ n \in Nat
  BY <1>1 DEF BytesToRead
<1>3. /\ Content(b) \in Seq(Int) /\ Len(Content(b)) = BytesToRead(b)
      /\ \A k \in 1 .. BytesToRead(b) : Content(b)[k] = b.bytes[b.read + k]
  BY ContentIs
<1> DEFINE t == SubSeq(Content(b), n + 1, Len(Content(b)))
<1>4. /\ t \in Seq(Int) /\ Len(t) = (Len(Content(b)) + 1) - (n + 1)
      /\ \A k \in 1 .. (Len(Content(b)) + 1) - (n + 1) : t[k] = Content(b)[((n + 1) - 1) + k]
  <2>1. n + 1 \in 1 .. Len(Content(b)) + 1 /\ Len(Content(b)) \in 0 .. Len(Content(b))
        /\ n + 1 <= Len(Content(b)) + 1
    BY <1>1, <1>2, <1>3
  <2> QED
    BY <1>3, <2>1, SubSeqInt
<1> HIDE DEF t
<1>5. /\ IsBuffer(q) /\ BytesToRead(q) = BytesToRead(b) - n /\ q.read <= b.read + n
      /\ \A k \in 1 .. BytesToRead(q) : q.bytes[q.read + k] = b.bytes[b.read + (n + k)]
  <2>1. CASE b.read + n = b.write
    <3>1. <<>> \in Seq(Int) /\ Len(<<>>) = 0
      OBVIOUS
    <3>2. q.size = b.size /\ q.read = 0 /\ q.write = 0 /\ q.bytes = <<>>
          /\ DOMAIN q = {"size", "read", "write", "bytes"}
      BY <1>1, <2>1 DEF ConsumeBytes, Clear
    <3>3. IsBuffer(q) /\ BytesToRead(q) = 0
      BY <1>1, <3>1, <3>2 DEF IsBuffer, BytesToRead
    <3> QED
      BY <1>1, <1>2, <2>1, <3>2, <3>3
  <2>2. CASE b.read + n # b.write
    <3>1. q.size = b.size /\ q.read = b.read + n /\ q.write = b.write /\ q.bytes = b.bytes
          /\ DOMAIN q = {"size", "read", "write", "bytes"}
      BY <1>1, <2>2 DEF ConsumeBytes
    <3>2. IsBuffer(q) /\ BytesToRead(q) = BytesToRead(b) - n
      BY <1>1, <1>2, <3>1 DEF IsBuffer, BytesToRead
    <3>3. ASSUME NEW k \in 1 .. BytesToRead(q)
          PROVE  q.bytes[q.read + k] = b.bytes[b.read + (n + k)]
      <4>1. k \in Int
        BY <1>1, <1>2, <3>2
      <4>2. q.read + k = b.read + (n + k)
        BY <1>1, <1>2, <3>1, <4>1
      <4> QED
        BY <3>1, <4>2
    <3> QED
      BY <1>1, <3>1, <3>2, <3>3
  <2> QED
    BY <2>1, <2>2
<1>6. /\ Content(q) \in Seq(Int) /\ Len(Content(q)) = BytesToRead(q)
      /\ \A k \in 1 .. BytesToRead(q) : Content(q)[k] = q.bytes[q.read + k]
  BY <1>5, ContentIs
<1>7. ASSUME NEW k \in 1 .. BytesToRead(q)
      PROVE  Content(q)[k] = t[k]
  <2>1. k \in 1 .. (Len(Content(b)) + 1) - (n + 1) /\ ((n + 1) - 1) + k = n + k
        /\ n + k \in 1 .. BytesToRead(b)
    <3>1. Len(Content(b)) = BytesToRead(b) /\ BytesToRead(q) = BytesToRead(b) - n
      BY <1>3, <1>5
    <3>2. BytesToRead(b) \in Nat
      BY <1>1, <1>2
    <3> QED
      BY <1>2, <3>1, <3>2
  <2>2. t[k] = Content(b)[n + k]
    BY <1>4, <2>1
  <2>3. Content(b)[n + k] = b.bytes[b.read + (n + k)]
    BY <1>3, <2>1
  <2> QED
    BY <1>5, <1>6, <2>2, <2>3
<1>8. Content(q) = t
  <2>1. Len(Content(q)) = Len(t) /\ Content(q) \in Seq(Int) /\ t \in Seq(Int)
    BY <1>1, <1>2, <1>3, <1>4, <1>5, <1>6
  <2>2. \A k \in 1 .. Len(Content(q)) : Content(q)[k] = t[k]
    BY <1>6, <1>7
  <2> QED
    BY <2>1, <2>2, SeqEqual
<1> QED
  BY <1>5, <1>8 DEF t

-----------------------------------------------------------------------------
(* Writing *)

SameSending(q, r) ==
    /\ q.wbuf = r.wbuf /\ q.zdone = r.zdone /\ q.filed = r.filed /\ q.mark = r.mark
    /\ q.wire = r.wire /\ q.written = r.written
    /\ q.done = r.done /\ q.overtaken = r.overtaken

SameReceiving(q, r) ==
    /\ q.rbuf = r.rbuf /\ q.got = r.got /\ q.sent = r.sent /\ q.input = r.input

SameSocket(q, r) == q.sock = r.sock /\ q.fin = r.fin /\ q.fd = r.fd

LEMMA SendingCopied ==
    ASSUME NEW r, NEW q, Sending(r), SameSending(q, r)
    PROVE  Sending(q)
<1>1. BytesToRead(q.wbuf) = BytesToRead(r.wbuf) /\ Sent(q) = Sent(r) /\ FileSent(q) = FileSent(r)
  BY DEF SameSending, Sent, FileSent
<1>2. Counts(q)
  BY <1>1 DEF Sending, Counts, SameSending
<1>3. Unsent(q)
  BY <1>1 DEF Sending, Unsent, SameSending
<1>4. Wired(q)
  BY <1>1 DEF Sending, Wired, SameSending
<1>5. Marked(q) /\ DoneInv(q)
  BY <1>1 DEF Sending, Marked, DoneInv, SameSending
<1> QED
  BY <1>2, <1>3, <1>4, <1>5 DEF Sending

LEMMA ReceivingCopied ==
    ASSUME NEW r, NEW q, Receiving(r), SameReceiving(q, r), q.sock = r.sock
    PROVE  Receiving(q)
  BY DEF Receiving, SameReceiving

\* ActiveClose changes the state and the events, and fails for two reasons.
LEMMA CloseKeeps ==
    ASSUME NEW r, IsConn(r), NEW q, q = ActiveClose(r)
    PROVE  /\ IsConn(q) /\ SameSending(q, r) /\ SameReceiving(q, r) /\ SameSocket(q, r)
           /\ q.state \in {"disconnected", "failed"}
           /\ q.state = "failed" => r.state = "disconnected" \/ r.sock = "down"
<1>1. CASE r.state = "disconnected" \/ (r.state = "connected" /\ r.sock = "down")
  BY <1>1 DEF IsConn, Unconnected, ActiveClose, Fails, SameSending, SameReceiving, SameSocket
<1>2. CASE ~(r.state = "disconnected" \/ (r.state = "connected" /\ r.sock = "down"))
  BY <1>2 DEF IsConn, Unconnected, ActiveClose, SameSending, SameReceiving, SameSocket
<1> QED
  BY <1>1, <1>2

LEMMA PassiveCloseKeeps ==
    ASSUME NEW r, IsConn(r), NEW q, q = PassiveClose(r)
    PROVE  /\ IsConn(q) /\ SameSending(q, r) /\ SameReceiving(q, r) /\ SameSocket(q, r)
           /\ q.state = "disconnected"
  BY DEF IsConn, Unconnected, PassiveClose, SameSending, SameReceiving, SameSocket

LEMMA FailsKeeps ==
    ASSUME NEW r, IsConn(r), NEW q, q = Fails(r)
    PROVE  /\ IsConn(q) /\ SameSending(q, r) /\ SameReceiving(q, r) /\ SameSocket(q, r)
           /\ q.state = "failed"
  BY DEF IsConn, Unconnected, Fails, SameSending, SameReceiving, SameSocket

LEMMA WriteKeeps ==
    ASSUME NEW r, IsConn(r), Sending(r), NEW n \in Nat \ {0}, r.written + n <= MaxWritten,
           NEW q, q = Write(r, n)
    PROVE  /\ IsConn(q) /\ Sending(q) /\ SameReceiving(q, r) /\ SameSocket(q, r)
           /\ q.state = r.state /\ q.filed = r.filed
<1> DEFINE s == [i \in 1 .. n |-> r.written + i]
           x == AppendBytes(r.wbuf, s)
<1>2. r.written \in 0 .. MaxWritten /\ Sent(r) \in Nat /\ r.wbuf.read <= Sent(r)
      /\ IsBuffer(r.wbuf) /\ MaxWritten \in Nat
  BY ClientAssumption DEF Sending, Counts
<1>3. s \in Seq(Int) /\ Len(s) = n /\ \A k \in 1 .. n : s[k] = r.written + k
  BY <1>2
<1> HIDE DEF s
<1>4. r.wbuf.read \in Nat /\ r.wbuf.write \in Nat /\ r.wbuf.read <= r.wbuf.write
  BY <1>2 DEF IsBuffer
<1>5. BytesToRead(r.wbuf) = r.wbuf.write - r.wbuf.read
      /\ Sent(r) = r.written - BytesToRead(r.wbuf)
  BY DEF BytesToRead, Sent
<1>6. r.wbuf.write <= r.written
  BY <1>2, <1>4, <1>5
<1>7. 2 * (r.wbuf.write + Len(s)) < SizeRange
  <2>1. Len(s) = n
    BY <1>3
  <2>2. r.wbuf.write + n <= MaxWritten
    BY <1>2, <1>4, <1>6
  <2> QED
    BY <1>2, <1>4, <2>1, <2>2, SizesFit, BufferAssumption
<1> HIDE DEF x
<1>15. /\ IsBuffer(x) /\ x.read = r.wbuf.read /\ x.write = r.wbuf.write + Len(s)
       /\ x.bytes = r.wbuf.bytes \o s /\ Appends(r.wbuf, Len(s))
  <2>1. IsBuffer(r.wbuf) /\ s \in Seq(Int) /\ x = AppendBytes(r.wbuf, s)
    BY <1>2, <1>3 DEF x
  <2> QED
    BY <1>7, <2>1, AppendKeeps
<1>1. /\ IsConn(q) /\ SameReceiving(q, r) /\ SameSocket(q, r) /\ q.state = r.state
      /\ q.zdone = r.zdone /\ q.filed = r.filed /\ q.mark = r.mark /\ q.wire = r.wire
      /\ q.written = r.written + n /\ q.done = FALSE /\ q.overtaken = r.overtaken
      /\ q.wbuf = x
  <2>1. Appends(r.wbuf, n)
    BY <1>3, <1>15
  <2>2. q = [r EXCEPT !.wbuf = x, !.events = @ \cup {"out"},
                      !.written = @ + n, !.done = FALSE]
    BY <2>1 DEF Write, x, s
  <2> QED
    BY <2>2 DEF IsConn, Unconnected, SameReceiving, SameSocket
<1>8. /\ IsBuffer(q.wbuf) /\ q.wbuf.read = r.wbuf.read
      /\ q.wbuf.write = r.wbuf.write + Len(s) /\ q.wbuf.bytes = r.wbuf.bytes \o s
  BY <1>1, <1>15
<1>9. BytesToRead(q.wbuf) = BytesToRead(r.wbuf) + n /\ Content(q.wbuf) = Content(r.wbuf) \o s
  <2>1. IsBuffer(r.wbuf) /\ s \in Seq(Int)
    BY <1>2, <1>3
  <2>2. BytesToRead(q.wbuf) = BytesToRead(r.wbuf) + Len(s) /\ Content(q.wbuf) = Content(r.wbuf) \o s
    BY <1>8, <2>1, UnreadOfConcat
  <2> QED
    BY <1>3, <2>2
<1>10. Sent(q) = Sent(r) /\ FileSent(q) = FileSent(r)
  BY <1>1, <1>2, <1>4, <1>5, <1>9 DEF Sent, FileSent
<1>11. Counts(q)
  BY <1>1, <1>2, <1>8, <1>10 DEF Sending, Counts
<1>12. Unsent(q)
  <2>1. Content(r.wbuf) \in Seq(Int) /\ Len(Content(r.wbuf)) = BytesToRead(r.wbuf)
    BY <1>2, ContentIs
  <2>2. Sent(r) + Len(Content(r.wbuf)) = r.written
    BY <1>2, <1>4, <1>5, <2>1
  <2>3. Numbered(s, Sent(r) + Len(Content(r.wbuf)))
    BY <1>3, <2>2 DEF Numbered
  <2>4. Numbered(Content(r.wbuf), Sent(r)) /\ Sent(r) \in Int
    BY <1>2 DEF Sending, Unsent
  <2>5. Numbered(Content(r.wbuf) \o s, Sent(r))
    BY <1>3, <2>1, <2>3, <2>4, NumberedConcat
  <2> QED
    BY <1>9, <1>10, <2>5 DEF Unsent
<1>13. Wired(q)
  BY <1>1, <1>10 DEF Sending, Wired
<1>14. Marked(q) /\ DoneInv(q)
  BY <1>1, <1>10 DEF Sending, Marked, DoneInv
<1> QED
  BY <1>1, <1>11, <1>12, <1>13, <1>14 DEF Sending

\* The first file of a connection: nothing of it is on the wire.
LEMMA ZeroCopyKeeps ==
    ASSUME NEW r, IsConn(r), Sending(r), r.filed = 0, NEW q, q = ZeroCopyWrite(r)
    PROVE  /\ IsConn(q) /\ Sending(q) /\ SameReceiving(q, r) /\ SameSocket(q, r)
           /\ q.state = r.state
<1>1. /\ IsConn(q) /\ SameReceiving(q, r) /\ SameSocket(q, r) /\ q.state = r.state
      /\ q.zdone = 0 /\ q.filed = FileLen /\ q.mark = r.written /\ q.wire = r.wire
      /\ q.written = r.written /\ q.done = FALSE /\ q.overtaken = r.overtaken
      /\ q.wbuf = r.wbuf
  BY DEF IsConn, Unconnected, ZeroCopyWrite, SameReceiving, SameSocket
<1>2. FileLen \in Nat \ {0} /\ r.zdone \in -1 .. 0 /\ r.written \in 0 .. MaxWritten
      /\ MaxWritten \in Nat
  BY ClientAssumption DEF Sending, Counts
<1>3. FileSent(r) = 0
  BY <1>2 DEF FileSent
<1>4. FileSent(q) = 0 /\ Sent(q) = Sent(r)
  BY <1>1 DEF FileSent, Sent
<1>5. Counts(q)
  BY <1>1, <1>2, <1>4 DEF Sending, Counts
<1>6. Unsent(q)
  BY <1>1, <1>4 DEF Sending, Unsent
<1>7. Wired(q)
  <2>1. r.wire \in Seq(Int) /\ Range(r.wire) = (1 .. Sent(r)) \cup (-0 .. -1)
    BY <1>3 DEF Sending, Wired
  <2>2. \A i \in DOMAIN r.wire : r.wire[i] \in Range(r.wire)
    BY DEF Range
  <2>3. \A i \in DOMAIN r.wire : ~(r.wire[i] < 0)
    BY <2>1, <2>2 DEF Sending, Counts
  <2>4. Ordered(r.wire, r.mark, r.overtaken)
    BY DEF Sending, Wired
  <2>5. Ordered(r.wire, r.written, r.overtaken)
    BY <2>3, <2>4 DEF Ordered, InTurn
  <2> QED
    BY <1>1, <1>3, <1>4, <2>5 DEF Sending, Wired
<1>8. Marked(q) /\ DoneInv(q)
  BY <1>1, <1>4 DEF Marked, DoneInv
<1> QED
  BY <1>1, <1>5, <1>6, <1>7, <1>8 DEF Sending

-----------------------------------------------------------------------------
(* The wire *)

LEMMA OrderedConcat ==
    ASSUME NEW s \in Seq(Int), NEW t \in Seq(Int), NEW m, NEW o,
           Ordered(s, m, o), Ordered(t, m, o),
           \A x \in Range(s) : \A y \in Range(t) : InTurn(x, y, m, o)
    PROVE  Ordered(s \o t, m, o)
<1>1. /\ Len(s \o t) = Len(s) + Len(t) /\ Len(s) \in Nat /\ Len(t) \in Nat
      /\ s \o t \in Seq(Int)
      /\ \A i \in 1 .. Len(s) : (s \o t)[i] = s[i]
      /\ \A i \in 1 .. Len(t) : (s \o t)[Len(s) + i] = t[i]
  BY ConcatInt
<1>2. DOMAIN s = 1 .. Len(s) /\ DOMAIN t = 1 .. Len(t) /\ DOMAIN (s \o t) = 1 .. Len(s) + Len(t)
  BY <1>1
<1> SUFFICES ASSUME NEW i \in 1 .. Len(s) + Len(t), NEW j \in 1 .. Len(s) + Len(t), i < j
             PROVE  InTurn((s \o t)[i], (s \o t)[j], m, o)
  BY <1>2 DEF Ordered
<1>3. CASE j <= Len(s)
  <2>1. i \in 1 .. Len(s) /\ j \in 1 .. Len(s)
    BY <1>1, <1>3
  <2>2. (s \o t)[i] = s[i] /\ (s \o t)[j] = s[j]
    BY <1>1, <2>1
  <2> QED
    BY <1>2, <2>1, <2>2 DEF Ordered
<1>4. CASE i <= Len(s) /\ j > Len(s)
  <2> DEFINE b == j - Len(s)
  <2>1. i \in 1 .. Len(s) /\ b \in 1 .. Len(t) /\ j = Len(s) + b
    BY <1>1, <1>4
  <2> HIDE DEF b
  <2>2. (s \o t)[i] = s[i] /\ (s \o t)[j] = t[b]
    BY <1>1, <2>1
  <2>3. s[i] \in Range(s) /\ t[b] \in Range(t)
    BY <1>2, <2>1 DEF Range
  <2> QED
    BY <2>2, <2>3
<1>5. CASE i > Len(s)
  <2> DEFINE a == i - Len(s)
  <2> DEFINE b == j - Len(s)
  <2>1. a \in 1 .. Len(t) /\ b \in 1 .. Len(t) /\ i = Len(s) + a /\ j = Len(s) + b /\ a < b
    BY <1>1, <1>5
  <2> HIDE DEF a, b
  <2>2. (s \o t)[i] = t[a] /\ (s \o t)[j] = t[b]
    BY <1>1, <2>1
  <2> QED
    BY <1>2, <2>1, <2>2 DEF Ordered
<1> QED
  BY <1>1, <1>3, <1>4, <1>5

LEMMA RangeOfConcat ==
    ASSUME NEW s \in Seq(Int), NEW t \in Seq(Int)
    PROVE  Range(s \o t) = Range(s) \cup Range(t)
  BY RangeConcatenation

LEMMA NumberedIsOrdered ==
    ASSUME NEW s \in Seq(Int), NEW n \in Nat, Numbered(s, n), NEW m, NEW o
    PROVE  Ordered(s, m, o)
<1>1. Len(s) \in Nat /\ DOMAIN s = 1 .. Len(s)
  OBVIOUS
<1> SUFFICES ASSUME NEW i \in 1 .. Len(s), NEW j \in 1 .. Len(s), i < j
             PROVE  InTurn(s[i], s[j], m, o)
  BY <1>1 DEF Ordered
<1>2. s[i] = n + i /\ s[j] = n + j
  BY DEF Numbered
<1>3. n + i > 0 /\ n + i < n + j
  BY <1>1
<1> QED
  BY <1>1, <1>2, <1>3 DEF InTurn

\* The bytes of a file from the n-th on.
FileBytes(s, n) == \A k \in 1 .. Len(s) : s[k] = -(n + k)

LEMMA FileBytesOnWire ==
    ASSUME NEW s \in Seq(Int), NEW n \in Nat, FileBytes(s, n), NEW m, NEW o
    PROVE  /\ Ordered(s, m, o)
           /\ Range(s) = -(n + Len(s)) .. -(n + 1)
<1>1. Len(s) \in Nat /\ DOMAIN s = 1 .. Len(s)
  OBVIOUS
<1>2. \A k \in 1 .. Len(s) : s[k] = -(n + k)
  BY DEF FileBytes
<1>3. ASSUME NEW i \in 1 .. Len(s), NEW j \in 1 .. Len(s), i < j
      PROVE  InTurn(s[i], s[j], m, o)
  <2>1. s[i] = -(n + i) /\ s[j] = -(n + j)
    BY <1>2
  <2>2. -(n + i) < 0 /\ -(n + j) < 0 /\ -(n + i) > -(n + j)
    BY <1>1, <1>3
  <2> QED
    BY <1>1, <2>1, <2>2 DEF InTurn
<1>4. ASSUME NEW x \in Range(s) PROVE x \in -(n + Len(s)) .. -(n + 1)
  BY <1>1, <1>2 DEF Range
<1>5. ASSUME NEW x \in -(n + Len(s)) .. -(n + 1) PROVE x \in Range(s)
  <2> DEFINE k == -x - n
  <2>1. k \in 1 .. Len(s) /\ -(n + k) = x
    BY <1>1
  <2> HIDE DEF k
  <2>2. s[k] = x
    BY <1>2, <2>1
  <2> QED
    BY <1>1, <2>1, <2>2 DEF Range
<1> QED
  BY <1>1, <1>3, <1>4, <1>5 DEF Ordered

\* Bytes of Write that leave the buffer come behind what is on the wire.
LEMMA BytesFollow ==
    ASSUME NEW r, Sending(r), NEW s \in Seq(Int), Numbered(s, Sent(r))
    PROVE  /\ r.wire \o s \in Seq(Int)
           /\ Range(r.wire \o s) = (1 .. Sent(r) + Len(s)) \cup (-FileSent(r) .. -1)
           /\ Ordered(r.wire \o s, r.mark, r.overtaken)
<1>1. r.wire \in Seq(Int) /\ Range(r.wire) = (1 .. Sent(r)) \cup (-FileSent(r) .. -1)
      /\ Ordered(r.wire, r.mark, r.overtaken)
  BY DEF Sending, Wired
<1>2. Sent(r) \in Nat /\ r.mark \in Nat /\ FileSent(r) \in Nat /\ Len(s) \in Nat
  BY ClientAssumption DEF Sending, Counts, FileSent
<1>3. Range(s) = Sent(r) + 1 .. Sent(r) + Len(s)
  BY <1>2, RangeOfNumbered
<1>4. Ordered(s, r.mark, r.overtaken)
  BY <1>2, NumberedIsOrdered
<1>5. FileSent(r) > 0 => r.overtaken \/ r.mark <= Sent(r)
  BY DEF Sending, Marked
<1>6. ASSUME NEW x \in Range(r.wire), NEW y \in Range(s)
      PROVE  InTurn(x, y, r.mark, r.overtaken)
  BY <1>1, <1>2, <1>3, <1>5 DEF InTurn
<1>7. Ordered(r.wire \o s, r.mark, r.overtaken)
  <2>1. r.wire \in Seq(Int) /\ Ordered(r.wire, r.mark, r.overtaken)
    BY <1>1
  <2> QED
    BY <1>4, <1>6, <2>1, OrderedConcat
<1>8. Range(r.wire \o s) = Range(r.wire) \cup Range(s) /\ r.wire \o s \in Seq(Int)
  <2>1. r.wire \in Seq(Int)
    BY <1>1
  <2> QED
    BY <2>1, RangeOfConcat, ConcatInt
<1>9. Range(r.wire \o s) = (1 .. Sent(r) + Len(s)) \cup (-FileSent(r) .. -1)
  BY <1>1, <1>2, <1>3, <1>8
<1> QED
  BY <1>7, <1>8, <1>9

\* Bytes of the file come behind those before it, or overtake them.
LEMMA FileFollows ==
    ASSUME NEW r, Sending(r), NEW s \in Seq(Int), FileBytes(s, FileSent(r)), NEW o \in BOOLEAN,
           r.overtaken => o, s # <<>> => o \/ r.mark <= Sent(r)
    PROVE  /\ r.wire \o s \in Seq(Int)
           /\ Range(r.wire \o s) = (1 .. Sent(r)) \cup (-(FileSent(r) + Len(s)) .. -1)
           /\ Ordered(r.wire \o s, r.mark, o)
<1>1. r.wire \in Seq(Int) /\ Range(r.wire) = (1 .. Sent(r)) \cup (-FileSent(r) .. -1)
      /\ Ordered(r.wire, r.mark, r.overtaken)
  BY DEF Sending, Wired
<1>2. Sent(r) \in Nat /\ r.mark \in Nat /\ FileSent(r) \in Nat /\ Len(s) \in Nat
  BY ClientAssumption DEF Sending, Counts, FileSent
<1>3. Range(s) = -(FileSent(r) + Len(s)) .. -(FileSent(r) + 1) /\ Ordered(s, r.mark, o)
  BY <1>2, FileBytesOnWire
<1>4. Ordered(r.wire, r.mark, o)
  BY <1>1 DEF Ordered, InTurn
<1>5. ASSUME NEW x \in Range(r.wire), NEW y \in Range(s)
      PROVE  InTurn(x, y, r.mark, o)
  <2>1. y \in -(FileSent(r) + Len(s)) .. -(FileSent(r) + 1)
        /\ x \in (1 .. Sent(r)) \cup (-FileSent(r) .. -1)
    BY <1>1, <1>3
  <2> QED
    BY <1>2, <2>1 DEF InTurn
<1>6. Ordered(r.wire \o s, r.mark, o)
  <2>1. r.wire \in Seq(Int)
    BY <1>1
  <2> QED
    BY <1>3, <1>4, <1>5, <2>1, OrderedConcat
<1>7. Range(r.wire \o s) = Range(r.wire) \cup Range(s) /\ r.wire \o s \in Seq(Int)
  <2>1. r.wire \in Seq(Int)
    BY <1>1
  <2> QED
    BY <2>1, RangeOfConcat, ConcatInt
<1>8. Range(r.wire \o s) = (1 .. Sent(r)) \cup (-(FileSent(r) + Len(s)) .. -1)
  BY <1>1, <1>2, <1>3, <1>7
<1> QED
  BY <1>6, <1>7, <1>8

-----------------------------------------------------------------------------
(* What a handler makes of a connection *)

Good(r) == IsConn(r) /\ Sending(r) /\ Receiving(r)

\* A connection may be closed, or end the process for a reason.
Moves(r, q) ==
    /\ q.state \in {r.state, "disconnected", "failed", "spinning"}
    /\ q.state = "failed" => r.state = "failed" \/ r.sock = "down"
    /\ q.state = "spinning" => r.state = "spinning" \/ truncated

Handled(r, q) == Good(q) /\ SameReceiving(q, r) /\ SameSocket(q, r) /\ Moves(r, q)

LEMMA HandledCopied ==
    ASSUME NEW r, Good(r), NEW q, IsConn(q), SameSending(q, r), SameReceiving(q, r),
           SameSocket(q, r), Moves(r, q)
    PROVE  Handled(r, q)
  BY SendingCopied, ReceivingCopied DEF Good, Handled, SameSocket

LEMMA HandledItself == ASSUME NEW r, Good(r) PROVE Handled(r, r)
  BY DEF Handled, SameReceiving, SameSocket, Moves

LEMMA HandledTwice ==
    ASSUME NEW r, NEW x, NEW q, Handled(r, x), Handled(x, q)
    PROVE  Handled(r, q)
<1>1. Moves(r, q)
  BY DEF Handled, Moves, SameSocket
<1> QED
  BY <1>1 DEF Handled, SameReceiving, SameSocket

LEMMA ClosedIsHandled ==
    ASSUME NEW r, Good(r), r.state # "disconnected", NEW q, q = ActiveClose(r)
    PROVE  Handled(r, q)
<1>1. /\ IsConn(q) /\ SameSending(q, r) /\ SameReceiving(q, r) /\ SameSocket(q, r)
      /\ q.state \in {"disconnected", "failed"}
      /\ q.state = "failed" => r.state = "disconnected" \/ r.sock = "down"
  BY CloseKeeps DEF Good
<1>2. Moves(r, q)
  BY <1>1 DEF Moves
<1> QED
  BY <1>1, <1>2, HandledCopied

LEMMA ReactKeeps ==
    ASSUME NEW r, Good(r), NEW name, NEW q \in React(r, name)
    PROVE  Handled(r, q)
<1> DEFINE writes == {Write(r, n) : n \in {k \in WriteSizes : r.written + k <= MaxWritten}}
           files == {ZeroCopyWrite(w) : w \in {v \in writes : v.filed = 0}}
           open == (({r} \cup writes) \cup files)
<1>1. ASSUME NEW w \in writes PROVE Handled(r, w) /\ w.state = r.state
  <2>1. PICK n \in WriteSizes : r.written + n <= MaxWritten /\ w = Write(r, n)
    BY <1>1
  <2>2. n \in Nat \ {0}
    BY ClientAssumption
  <2>3. /\ IsConn(w) /\ Sending(w) /\ SameReceiving(w, r) /\ SameSocket(w, r)
        /\ w.state = r.state
    BY <2>1, <2>2, WriteKeeps DEF Good
  <2>4. Receiving(w)
    BY <2>3, ReceivingCopied DEF Good, SameSocket
  <2> QED
    BY <2>3, <2>4 DEF Handled, Good, Moves
<1>2. ASSUME NEW f \in files PROVE Handled(r, f) /\ f.state = r.state
  <2>1. PICK w \in writes : w.filed = 0 /\ f = ZeroCopyWrite(w)
    BY <1>2
  <2>2. Handled(r, w) /\ w.state = r.state
    BY <1>1
  <2> HIDE DEF writes
  <2>3. /\ IsConn(f) /\ Sending(f) /\ SameReceiving(f, w) /\ SameSocket(f, w)
        /\ f.state = w.state
    BY <2>1, <2>2, ZeroCopyKeeps DEF Handled, Good
  <2>4. Receiving(f)
    BY <2>2, <2>3, ReceivingCopied DEF Handled, Good, SameSocket
  <2>5. Handled(w, f)
    BY <2>3, <2>4 DEF Handled, Good, Moves
  <2> QED
    BY <2>2, <2>3, <2>5, HandledTwice
<1>3. ASSUME NEW w \in open PROVE Handled(r, w) /\ w.state = r.state
  <2> HIDE DEF writes, files
  <2> QED
    BY <1>1, <1>2, HandledItself
<1>4. q \in open \/ \E w \in open : w.state = "connected"
                                   /\ q = ActiveClose([w EXCEPT !.closedIn = name])
  BY DEF React
<1> HIDE DEF open
<1>5. ASSUME NEW w \in open, w.state = "connected",
             q = ActiveClose([w EXCEPT !.closedIn = name])
      PROVE  Handled(r, q)
  <2> DEFINE v == [w EXCEPT !.closedIn = name]
  <2>1. Handled(r, w)
    BY <1>3
  <2>2. IsConn(v) /\ SameSending(v, w) /\ SameReceiving(v, w) /\ SameSocket(v, w)
        /\ v.state = w.state
    BY <2>1 DEF Handled, Good, IsConn, Unconnected, SameSending, SameReceiving, SameSocket
  <2> HIDE DEF v
  <2>3. Handled(w, v)
    BY <2>1, <2>2, HandledCopied DEF Handled, Moves
  <2>4. q = ActiveClose(v)
    BY <1>5 DEF v
  <2>5. Handled(v, q)
    BY <1>5, <2>2, <2>3, <2>4, ClosedIsHandled DEF Handled
  <2> QED
    BY <2>1, <2>3, <2>5, HandledTwice
<1> QED
  BY <1>3, <1>4, <1>5

LEMMA SendFailedKeeps ==
    ASSUME NEW r, Good(r), NEW q, q = SendFailed(r)
    PROVE  Handled(r, q)
  BY HandledItself, ClosedIsHandled DEF SendFailed

\* write() takes the first n unread bytes.
LEMMA SendBufferKeeps ==
    ASSUME NEW r, Good(r), NEW q \in SendBuffer(r)
    PROVE  Handled(r, q)
<1>1. CASE q = r \/ q = SendFailed(r)
  BY <1>1, HandledItself, SendFailedKeeps
<1>2. ASSUME NEW n \in 0 .. BytesToRead(r.wbuf),
             q = [r EXCEPT !.wbuf = IF n = 0 THEN @ ELSE ConsumeBytes(@, n),
                           !.wire = @ \o SubSeq(Content(r.wbuf), 1, n)],
             BytesToRead(r.wbuf) # 0
      PROVE  Handled(r, q)
  <2> DEFINE s == SubSeq(Content(r.wbuf), 1, n)
             rest == SubSeq(Content(r.wbuf), n + 1, Len(Content(r.wbuf)))
  <2>1. /\ IsConn(q) /\ SameReceiving(q, r) /\ SameSocket(q, r) /\ q.state = r.state
        /\ q.zdone = r.zdone /\ q.filed = r.filed /\ q.mark = r.mark
        /\ q.written = r.written /\ q.done = r.done /\ q.overtaken = r.overtaken
    BY <1>2 DEF Good, IsConn, Unconnected, SameReceiving, SameSocket
  <2>2. q.wire = r.wire \o s /\ q.wbuf = IF n = 0 THEN r.wbuf ELSE ConsumeBytes(r.wbuf, n)
    BY <1>2 DEF Good, IsConn, Unconnected
  <2>3. IsBuffer(r.wbuf) /\ Numbered(Content(r.wbuf), Sent(r)) /\ Sent(r) \in Nat
    BY DEF Good, Sending, Counts, Unsent
  <2>4. Content(r.wbuf) \in Seq(Int) /\ Len(Content(r.wbuf)) = BytesToRead(r.wbuf)
        /\ BytesToRead(r.wbuf) \in Nat
    BY <2>3, ContentIs
  <2>5. /\ s \in Seq(Int) /\ Len(s) = n /\ Numbered(s, Sent(r))
        /\ Numbered(rest, Sent(r) + n)
    BY <2>3, <2>4, NumberedSplit
  <2>6. /\ IsBuffer(q.wbuf) /\ BytesToRead(q.wbuf) = BytesToRead(r.wbuf) - n
        /\ q.wbuf.read <= r.wbuf.read + n /\ Content(q.wbuf) = rest
    <3>1. CASE n = 0
      <4>1. rest = Content(r.wbuf)
        BY <2>4, <3>1, SubSeqFull
      <4>2. r.wbuf.read <= r.wbuf.read + 0 /\ BytesToRead(r.wbuf) = BytesToRead(r.wbuf) - 0
        BY <2>3, <2>4 DEF IsBuffer
      <4> QED
        BY <2>2, <2>3, <3>1, <4>1, <4>2
    <3>2. CASE n # 0
      BY <2>2, <2>3, <3>2, ConsumeKeeps
    <3> QED
      BY <3>1, <3>2
  <2> HIDE DEF s, rest
  <2>7. Sent(q) = Sent(r) + n /\ FileSent(q) = FileSent(r)
    <3>1. r.written \in Nat /\ n \in Nat
      BY <2>4, ClientAssumption DEF Good, Sending, Counts
    <3> QED
      BY <2>1, <2>4, <2>6, <3>1 DEF Sent, FileSent
  <2>8. Counts(q)
    <3>1. n \in Nat /\ r.wbuf.read \in Nat /\ q.wbuf.read \in Nat /\ r.wbuf.read <= Sent(r)
      BY <2>3, <2>4, <2>6 DEF IsBuffer, Good, Sending, Counts
    <3>2. Sent(q) \in Nat /\ q.wbuf.read <= Sent(q)
      BY <2>3, <2>6, <2>7, <3>1
    <3> QED
      BY <2>1, <2>6, <3>2 DEF Good, Sending, Counts
  <2>9. Unsent(q)
    BY <2>5, <2>6, <2>7 DEF Unsent
  <2>10. Wired(q)
    BY <2>1, <2>2, <2>5, <2>7, BytesFollow DEF Good, Wired
  <2>11. Marked(q) /\ DoneInv(q)
    <3>1. n \in Nat /\ r.mark \in Int /\ (r.done => n = 0)
      BY <1>2, <2>4, ClientAssumption DEF Good, Sending, Counts, DoneInv
    <3> QED
      BY <2>1, <2>3, <2>6, <2>7, <3>1, <1>2 DEF Good, Sending, Marked, DoneInv
  <2>12. Sending(q)
    BY <2>8, <2>9, <2>10, <2>11 DEF Sending
  <2>13. Receiving(q)
    BY <2>1, ReceivingCopied DEF Good, SameSocket
  <2> QED
    BY <2>1, <2>12, <2>13 DEF Good, Handled, Moves
<1> QED
  BY <1>1, <1>2 DEF SendBuffer

\* sendfile takes the next m bytes of the file.
LEMMA FileTakesKeeps ==
    ASSUME NEW r, Good(r), r.zdone \notin {-1, FileLen}, NEW m \in 0 .. FileLen - r.zdone,
           NEW q, q = FileTakes(r, m)
    PROVE  Handled(r, q)
<1> DEFINE s == [i \in 1 .. m |-> -(r.zdone + i)]
           o == r.overtaken \/ (m > 0 /\ BytesToRead(r.wbuf) > 0)
<1>1. /\ IsConn(q) /\ SameReceiving(q, r) /\ SameSocket(q, r) /\ q.state = r.state
      /\ q.filed = r.filed /\ q.mark = r.mark /\ q.written = r.written
      /\ q.done = r.done /\ q.wbuf = r.wbuf /\ q.zdone = r.zdone + m
  BY DEF FileTakes, Good, IsConn, Unconnected, SameReceiving, SameSocket
<1>2. q.wire = r.wire \o s /\ q.overtaken = o
  BY DEF FileTakes, Good, IsConn, Unconnected
<1>3. /\ r.filed = FileLen /\ FileLen \in Nat /\ r.zdone \in 0 .. FileLen - 1 /\ m \in Nat
      /\ r.zdone + m \in 0 .. FileLen /\ r.mark \in 0 .. r.written /\ r.written \in Nat
  BY ClientAssumption DEF Good, Sending, Counts
<1>4. s \in Seq(Int) /\ Len(s) = m /\ FileBytes(s, r.zdone)
  BY <1>3 DEF FileBytes
<1> HIDE DEF s
<1>5. FileSent(r) = r.zdone /\ FileSent(q) = r.zdone + m /\ Sent(q) = Sent(r)
  BY <1>1, <1>3 DEF FileSent, Sent
<1>6. BytesToRead(r.wbuf) \in Nat /\ Sent(r) = r.written - BytesToRead(r.wbuf)
  BY ContentIs DEF Good, Sending, Counts, Sent
<1>7. m > 0 => o \/ r.mark <= Sent(r)
  BY <1>3, <1>6
<1>8. Counts(q)
  BY <1>1, <1>3, <1>5 DEF Good, Sending, Counts
<1>9. Unsent(q)
  BY <1>1, <1>5 DEF Good, Sending, Unsent
<1>10. Wired(q)
  <2>1. s # <<>> => o \/ r.mark <= Sent(r)
    BY <1>3, <1>4, <1>7
  <2>2. o \in BOOLEAN /\ (r.overtaken => o)
    OBVIOUS
  <2> HIDE DEF o
  <2>3. /\ r.wire \o s \in Seq(Int)
        /\ Range(r.wire \o s) = (1 .. Sent(r)) \cup (-(FileSent(r) + Len(s)) .. -1)
        /\ Ordered(r.wire \o s, r.mark, o)
    BY <1>4, <1>5, <2>1, <2>2, FileFollows DEF Good
  <2> QED
    BY <1>1, <1>2, <1>4, <1>5, <2>3 DEF Wired
<1>11. Marked(q) /\ DoneInv(q)
  <2>1. ~r.done
    BY <1>3 DEF Good, Sending, DoneInv
  <2>2. r.zdone > 0 => r.overtaken \/ r.mark <= Sent(r)
    BY <1>5 DEF Good, Sending, Marked
  <2>3. r.zdone + m > 0 => o \/ r.mark <= Sent(r)
    BY <1>3, <1>7, <2>2
  <2> HIDE DEF o
  <2> QED
    BY <1>1, <1>2, <1>5, <2>1, <2>3 DEF Marked, DoneInv
<1>12. Sending(q) /\ Receiving(q)
  BY <1>1, <1>8, <1>9, <1>10, <1>11, ReceivingCopied DEF Sending, Good, SameSocket
<1> QED
  BY <1>1, <1>12 DEF Good, Handled, Moves

LEMMA SpinsKeeps ==
    ASSUME NEW r, Good(r), truncated, NEW q, q = Spins(r)
    PROVE  Handled(r, q)
<1>1. IsConn(q) /\ SameSending(q, r) /\ SameReceiving(q, r) /\ SameSocket(q, r)
      /\ q.state = "spinning"
  BY DEF Spins, Good, IsConn, Unconnected, SameSending, SameReceiving, SameSocket
<1> QED
  BY <1>1, HandledCopied DEF Moves

\* The rest of a whole file is sent, or some of it; a truncated one may end first.
LEMMA SendFileKeeps ==
    ASSUME NEW r, Good(r), NEW q \in SendFile(r)
    PROVE  Handled(r, q)
<1>1. CASE q = r \/ q = SendFailed(r)
  BY <1>1, HandledItself, SendFailedKeeps
<1>2. ASSUME r.zdone \notin {-1, FileLen}, NEW n \in 0 .. FileLen - r.zdone,
             q \in SendUpTo(r, n), n = FileLen - r.zdone \/ truncated
      PROVE  Handled(r, q)
  <2>1. r.zdone \in 0 .. FileLen /\ FileLen \in Nat /\ n \in Nat
    BY <1>2, ClientAssumption DEF Good, Sending, Counts
  <2>2. ASSUME NEW m \in 0 .. n PROVE Handled(r, FileTakes(r, m))
    <3>1. m \in 0 .. FileLen - r.zdone
      BY <2>1, <2>2
    <3> QED
      BY <1>2, <3>1, FileTakesKeeps
  <2>3. CASE \E m \in 0 .. n : q = FileTakes(r, m)
    BY <2>2, <2>3
  <2>4. CASE q = Spins(FileTakes(r, n)) /\ FileTakes(r, n).zdone # FileLen
    <3> DEFINE x == FileTakes(r, n)
    <3>1. Handled(r, x)
      BY <2>1, <2>2
    <3>2. x.zdone = r.zdone + n
      BY DEF FileTakes, Good, IsConn, Unconnected
    <3>3. truncated
      BY <1>2, <2>1, <2>4, <3>2
    <3> HIDE DEF x
    <3>4. Handled(x, q)
      BY <2>4, <3>1, <3>3, SpinsKeeps DEF Handled, x
    <3> QED
      BY <3>1, <3>4, HandledTwice
  <2>5. \/ q = SendFailed(r)
        \/ \E m \in 0 .. n : q = FileTakes(r, m)
        \/ q = Spins(FileTakes(r, n)) /\ FileTakes(r, n).zdone # FileLen
    <3>1. 0 .. n - 1 \subseteq 0 .. n /\ n \in 0 .. n
      BY <2>1
    <3> QED
      BY <1>2, <3>1 DEF SendUpTo
  <2> QED
    BY <1>1, <2>3, <2>4, <2>5
<1>3. q = r \/ \E n \in 0 .. FileLen - r.zdone :
                  /\ r.zdone \notin {-1, FileLen} /\ q \in SendUpTo(r, n)
                  /\ n = FileLen - r.zdone \/ truncated
  <2>1. CASE r.state = "failed" \/ r.zdone \in {-1, FileLen}
    BY <2>1 DEF SendFile
  <2>2. CASE ~(r.state = "failed" \/ r.zdone \in {-1, FileLen})
    <3> DEFINE left == FileLen - r.zdone
    <3>1. r.zdone \in 0 .. FileLen /\ FileLen \in Nat
      BY <2>2, ClientAssumption DEF Good, Sending, Counts
    <3>2. left \in Nat /\ left \in 0 .. left /\ 0 .. left - 1 \subseteq 0 .. left
      BY <3>1
    <3>3. PICK n \in IF truncated THEN 0 .. left - 1 ELSE {left} : q \in SendUpTo(r, n)
      BY <2>2 DEF SendFile
    <3> QED
      BY <2>2, <3>2, <3>3
  <2> QED
    BY <2>1, <2>2
<1> QED
  BY <1>1, <1>2, <1>3

\* Everything is sent: the file is forgotten, and the callback may be called.
LEMMA DoneKeeps ==
    ASSUME NEW r, Good(r), AllWritten(r),
           NEW q, q = [r EXCEPT !.zdone = -1, !.events = @ \ {"out"}, !.done = TRUE]
    PROVE  Handled(r, q) /\ q.state = r.state
<1>1. /\ IsConn(q) /\ SameReceiving(q, r) /\ SameSocket(q, r) /\ q.state = r.state
      /\ q.filed = r.filed /\ q.mark = r.mark /\ q.written = r.written
      /\ q.done = TRUE /\ q.wbuf = r.wbuf /\ q.zdone = -1 /\ q.wire = r.wire
      /\ q.overtaken = r.overtaken
  BY DEF Good, IsConn, Unconnected, SameReceiving, SameSocket
<1>2. FileLen \in Nat \ {0} /\ r.filed \in {0, FileLen}
  BY ClientAssumption DEF Good, Sending, Counts
<1>3. FileSent(q) = FileSent(r) /\ Sent(q) = Sent(r)
  BY <1>1, <1>2 DEF FileSent, Sent, AllWritten, Good, Sending, Counts
<1>4. Counts(q)
  BY <1>1, <1>2, <1>3 DEF Good, Sending, Counts
<1>5. Unsent(q)
  BY <1>1, <1>3 DEF Good, Sending, Unsent
<1>6. Wired(q)
  BY <1>1, <1>3 DEF Good, Sending, Wired
<1>7. Marked(q) /\ DoneInv(q)
  BY <1>1, <1>3 DEF Good, Sending, Marked, DoneInv, AllWritten
<1>8. Sending(q) /\ Receiving(q)
  BY <1>1, <1>4, <1>5, <1>6, <1>7, ReceivingCopied DEF Sending, Good, SameSocket
<1> QED
  BY <1>1, <1>8 DEF Good, Handled, Moves

LEMMA WriteToPeerKeeps ==
    ASSUME NEW r, Good(r), NEW q \in WriteToPeer(r)
    PROVE  Handled(r, q)
<1> DEFINE done(x) == [x EXCEPT !.zdone = -1, !.events = @ \ {"out"}, !.done = TRUE]
<1>1. PICK y \in SendBuffer(r) : \E x \in SendFile(y) :
         IF x.state \in {"failed", "spinning"} \/ ~AllWritten(x) THEN q = x
         ELSE q \in React(done(x), "writer")
  BY DEF WriteToPeer
<1>2. PICK x \in SendFile(y) :
         IF x.state \in {"failed", "spinning"} \/ ~AllWritten(x) THEN q = x
         ELSE q \in React(done(x), "writer")
  BY <1>1
<1>3. Handled(r, y)
  BY SendBufferKeeps
<1>4. Handled(y, x)
  BY <1>3, SendFileKeeps DEF Handled
<1>5. Handled(r, x)
  BY <1>3, <1>4, HandledTwice
<1>6. CASE q = x
  BY <1>5, <1>6
<1>7. CASE AllWritten(x) /\ q \in React(done(x), "writer")
  <2> DEFINE v == done(x)
  <2>1. Handled(x, v)
    BY <1>5, <1>7, DoneKeeps DEF Handled
  <2>2. q \in React(v, "writer")
    BY <1>7
  <2> HIDE DEF v
  <2>3. Handled(v, q)
    BY <2>1, <2>2, ReactKeeps DEF Handled
  <2> QED
    BY <1>5, <2>1, <2>3, HandledTwice
<1> QED
  BY <1>2, <1>6, <1>7

\* A reset takes the input that was not read.
LEMMA ResetKeeps ==
    ASSUME NEW r, Good(r), NEW q, IsConn(q), SameSending(q, r), q.sock = "down",
           q.rbuf = r.rbuf, q.got = r.got, q.sent = r.sent, q.input = <<>>
    PROVE  Good(q)
<1>1. /\ IsBuffer(r.rbuf) /\ r.input \in Seq(Int) /\ r.rbuf.read <= r.got
      /\ Numbered(Content(r.rbuf), r.got)
  BY DEF Good, Receiving
<1>2. r.sent \in 0 .. MaxInput /\ r.got \in Nat
      /\ r.got + BytesToRead(r.rbuf) + Len(r.input) <= r.sent
  BY DEF Good, Receiving
<1>3. BytesToRead(r.rbuf) \in Nat /\ Len(r.input) \in Nat
  BY <1>1, ContentIs
<1>4. q.input \in Seq(Int) /\ Len(q.input) = 0
  OBVIOUS
<1>5. q.got + BytesToRead(q.rbuf) + Len(q.input) <= q.sent
  <2>1. r.sent \in Nat
    BY <1>2, ClientAssumption
  <2> QED
    BY <1>2, <1>3, <1>4, <2>1
<1>6. Numbered(q.input, q.got + BytesToRead(q.rbuf))
  BY <1>4 DEF Numbered
<1>7. Receiving(q)
  BY <1>1, <1>2, <1>4, <1>5, <1>6 DEF Receiving
<1> QED
  BY <1>7, SendingCopied DEF Good

LEMMA AddressLostKeeps ==
    ASSUME NEW r, Good(r), NEW q, q = AddressLost(r)
    PROVE  Good(q) /\ q.state = "failed" /\ q.sock = "down"
<1>1. /\ IsConn(q) /\ SameSending(q, r) /\ q.sock = "down" /\ q.state = "failed"
      /\ q.rbuf = r.rbuf /\ q.got = r.got /\ q.sent = r.sent /\ q.input = <<>>
  BY DEF AddressLost, Fails, Good, IsConn, Unconnected, SameSending
<1> QED
  BY <1>1, ResetKeeps

LEMMA ConnectedToPeerKeeps ==
    ASSUME NEW r, Good(r), r.state = "connecting", NEW q \in ConnectedToPeer(r)
    PROVE  /\ Good(q)
           /\ q.state \in {"connected", "disconnected", "failed", "spinning"}
           /\ q.state # "failed" => SameReceiving(q, r) /\ SameSocket(q, r)
           /\ q.state = "failed" => q.sock = "down"
           /\ q.state = "spinning" => truncated
<1>1. CASE r.sock = "down"
  <2>1. q = ActiveClose(r)
    BY <1>1 DEF ConnectedToPeer
  <2>2. Handled(r, q) /\ q.state \in {"disconnected", "failed"}
    BY <2>1, ClosedIsHandled, CloseKeeps DEF Good
  <2> QED
    BY <1>1, <2>2 DEF Handled, SameSocket
<1>2. CASE r.sock # "down" /\ q = AddressLost(r)
  BY <1>2, AddressLostKeeps
<1>3. CASE r.sock # "down" /\ q # AddressLost(r)
  <2> DEFINE v == [r EXCEPT !.state = "connected", !.events = {"in"}]
  <2>1. q \in React(v, "connected")
    BY <1>3 DEF ConnectedToPeer
  <2>2. IsConn(v) /\ SameSending(v, r) /\ SameReceiving(v, r) /\ SameSocket(v, r)
        /\ v.state = "connected"
    BY DEF Good, IsConn, Unconnected, SameSending, SameReceiving, SameSocket
  <2> HIDE DEF v
  <2>3. Good(v)
    BY <2>2, SendingCopied, ReceivingCopied DEF Good, SameSocket
  <2>4. Handled(v, q)
    BY <2>1, <2>3, ReactKeeps
  <2> QED
    BY <2>2, <2>4 DEF Handled, Moves, SameReceiving, SameSocket
<1> QED
  BY <1>1, <1>2, <1>3

-----------------------------------------------------------------------------
(* Reading *)

LEMMA MinOfTwo ==
    ASSUME NEW a \in Nat, NEW b \in Nat
    PROVE  Min({a, b}) \in {a, b} /\ Min({a, b}) <= a /\ Min({a, b}) <= b
<1>1. \E x \in {a, b} : \A y \in {a, b} : x <= y
  OBVIOUS
<1>2. Min({a, b}) \in {a, b} /\ \A y \in {a, b} : Min({a, b}) <= y
  BY <1>1 DEF Min
<1> QED
  BY <1>2

HasInput(r) == r.input # <<>> \/ r.fin \/ r.sock = "down" \/ r.state = "disconnected"

\* readv takes all the input: what fits into the buffer, and the rest into an
\* array, which is then appended.
LEMMA ReadIsWhole ==
    ASSUME NEW r, Good(r), NEW n, n = Min({BytesCanWrite(r.rbuf), Len(r.input)}),
           NEW x, x = AppendBytes(AddBytes(r.rbuf, SubSeq(r.input, 1, n)),
                                  SubSeq(r.input, n + 1, Len(r.input)))
    PROVE  /\ IsBuffer(x) /\ x.read = r.rbuf.read
           /\ BytesToRead(x) = BytesToRead(r.rbuf) + Len(r.input)
           /\ Numbered(Content(x), r.got)
           /\ Appends(AddBytes(r.rbuf, SubSeq(r.input, 1, n)),
                      Len(SubSeq(r.input, n + 1, Len(r.input))))
<1>1. /\ IsBuffer(r.rbuf) /\ r.sent \in 0 .. MaxInput /\ r.got \in Nat /\ r.input \in Seq(Int)
      /\ r.rbuf.read <= r.got
      /\ r.got + BytesToRead(r.rbuf) + Len(r.input) <= r.sent
      /\ Numbered(Content(r.rbuf), r.got)
      /\ Numbered(r.input, r.got + BytesToRead(r.rbuf))
  BY DEF Good, Receiving
<1>2. r.input \in Seq(Int) /\ IsBuffer(r.rbuf)
  BY <1>1
<1>3. Len(r.input) \in Nat
  BY <1>2
<1>4. /\ r.rbuf.size \in Nat /\ r.rbuf.read \in Nat /\ r.rbuf.write \in Nat
      /\ r.rbuf.read <= r.rbuf.write /\ r.rbuf.write <= r.rbuf.size
  BY <1>2 DEF IsBuffer
<1>5. BytesCanWrite(r.rbuf) \in Nat /\ BytesToRead(r.rbuf) = r.rbuf.write - r.rbuf.read
      /\ BytesToRead(r.rbuf) \in Nat
  BY <1>4 DEF BytesCanWrite, BytesToRead
<1>6. n \in 0 .. Len(r.input) /\ n <= BytesCanWrite(r.rbuf)
  <2>1. Min({BytesCanWrite(r.rbuf), Len(r.input)}) \in {BytesCanWrite(r.rbuf), Len(r.input)}
        /\ Min({BytesCanWrite(r.rbuf), Len(r.input)}) <= BytesCanWrite(r.rbuf)
        /\ Min({BytesCanWrite(r.rbuf), Len(r.input)}) <= Len(r.input)
    BY <1>3, <1>5, MinOfTwo
  <2> QED
    BY <1>3, <1>5, <2>1
<1> DEFINE from == r.got + BytesToRead(r.rbuf)
           s == SubSeq(r.input, 1, n)
           t == SubSeq(r.input, n + 1, Len(r.input))
           f == AddBytes(r.rbuf, s)
<1>7. from \in Nat /\ Numbered(r.input, from)
  BY <1>1, <1>5
<1> HIDE DEF from
<1>8. /\ s \in Seq(Int) /\ Len(s) = n /\ Numbered(s, from)
      /\ t \in Seq(Int) /\ Len(t) = Len(r.input) - n /\ Numbered(t, from + n)
  <2>1. n \in 0 .. Len(r.input) /\ from \in Int
    BY <1>6, <1>7
  <2> QED
    BY <1>2, <1>7, <2>1, NumberedSplit
<1> HIDE DEF s, t
<1>9. /\ IsBuffer(f) /\ f.read = r.rbuf.read /\ f.write = r.rbuf.write + Len(s)
      /\ f.bytes = r.rbuf.bytes \o s
  <2>1. s \in Seq(Int) /\ Len(s) <= BytesCanWrite(r.rbuf)
    BY <1>6, <1>8
  <2> QED
    BY <1>2, <2>1, AddKeeps
<1> HIDE DEF f
<1>10. BytesToRead(f) = BytesToRead(r.rbuf) + Len(s) /\ Content(f) = Content(r.rbuf) \o s
  BY <1>2, <1>8, <1>9, UnreadOfConcat
<1>11. x = AppendBytes(f, t)
  BY DEF f, s, t
<1>12. 2 * (f.write + Len(t)) < SizeRange
  <2>1. f.write + Len(t) = r.rbuf.write + Len(r.input)
    <3>1. /\ f.write = r.rbuf.write + Len(s) /\ Len(s) = n /\ n \in Nat
          /\ Len(t) = Len(r.input) - n
      BY <1>3, <1>6, <1>8, <1>9
    <3> QED
      BY <1>3, <1>4, <3>1
  <2>2. r.rbuf.write + Len(r.input) <= MaxInput
    <3>1. r.got \in Nat /\ r.rbuf.read <= r.got /\ r.sent \in 0 .. MaxInput
          /\ (r.got + BytesToRead(r.rbuf)) + Len(r.input) <= r.sent
      BY <1>1
    <3> QED
      <4>1. r.sent <= MaxInput /\ r.sent \in Nat
        BY <3>1, ClientAssumption
      <4>2. BytesToRead(r.rbuf) = r.rbuf.write - r.rbuf.read
        BY <1>5
      <4>3. /\ r.got \in Nat /\ r.rbuf.read <= r.got
            /\ (r.got + BytesToRead(r.rbuf)) + Len(r.input) <= r.sent
        BY <3>1
      <4> QED
        BY <1>3, <1>4, <4>1, <4>2, <4>3, ClientAssumption, SMTT(30)
  <2> QED
    BY <1>3, <1>4, <2>1, <2>2, ClientAssumption, SizesFit, BufferAssumption
<1>13. /\ IsBuffer(x) /\ x.read = f.read /\ x.write = f.write + Len(t)
       /\ x.bytes = f.bytes \o t /\ Appends(f, Len(t))
  <2>1. t \in Seq(Int) /\ IsBuffer(f)
    BY <1>8, <1>9
  <2> QED
    BY <1>11, <1>12, <2>1, AppendKeeps
<1>14. BytesToRead(x) = BytesToRead(f) + Len(t) /\ Content(x) = Content(f) \o t
  BY <1>8, <1>9, <1>13, UnreadOfConcat
<1>15. BytesToRead(x) = BytesToRead(r.rbuf) + Len(r.input)
  <2>1. Len(s) = n /\ n \in Nat /\ Len(t) = Len(r.input) - n
    BY <1>3, <1>6, <1>8
  <2>2. BytesToRead(f) = BytesToRead(r.rbuf) + Len(s)
    BY <1>10
  <2>3. BytesToRead(x) = BytesToRead(f) + Len(t)
    BY <1>14
  <2> QED
    BY <1>3, <1>5, <2>1, <2>2, <2>3
<1>16. Numbered(Content(x), r.got)
  <2>1. Content(r.rbuf) \in Seq(Int) /\ Len(Content(r.rbuf)) = BytesToRead(r.rbuf)
    BY <1>2, ContentIs
  <2>2. Numbered(Content(r.rbuf), r.got) /\ r.got \in Int
        /\ r.got + Len(Content(r.rbuf)) = from
    BY <1>1, <2>1 DEF from
  <2>3. Numbered(Content(f), r.got)
    BY <1>8, <1>10, <2>1, <2>2, NumberedConcat
  <2>4. Content(f) \in Seq(Int) /\ Len(Content(f)) = BytesToRead(f)
    BY <1>9, ContentIs
  <2>5. r.got + Len(Content(f)) = from + n
    BY <1>5, <1>6, <1>8, <1>10, <2>2, <2>4 DEF from
  <2>6. Numbered(t, r.got + Len(Content(f)))
    BY <1>8, <2>5
  <2> QED
    BY <1>8, <1>14, <2>2, <2>3, <2>4, <2>6, NumberedConcat
<1> QED
  BY <1>9, <1>13, <1>15, <1>16 DEF f, s, t

\* The read callback consumes k bytes.
LEMMA ConsumedKeeps ==
    ASSUME NEW r, Good(r), NEW x, IsBuffer(x), x.read = r.rbuf.read,
           BytesToRead(x) = BytesToRead(r.rbuf) + Len(r.input), Numbered(Content(x), r.got),
           NEW k \in 0 .. BytesToRead(x),
           NEW q, IsConn(q), SameSending(q, r), SameSocket(q, r), q.sent = r.sent,
           q.input = <<>>, q.got = r.got + k,
           q.rbuf = IF k = 0 THEN x ELSE ConsumeBytes(x, k)
    PROVE  Good(q)
<1>1. /\ IsConn(q) /\ SameSending(q, r) /\ SameSocket(q, r)
      /\ q.sent = r.sent /\ q.input = <<>> /\ q.got = r.got + k
      /\ q.rbuf = IF k = 0 THEN x ELSE ConsumeBytes(x, k)
  OBVIOUS
<1>2. /\ Content(x) \in Seq(Int) /\ Len(Content(x)) = BytesToRead(x) /\ BytesToRead(x) \in Nat
  BY ContentIs
<1>3. /\ r.sent \in 0 .. MaxInput /\ r.got \in Nat /\ r.rbuf.read <= r.got
      /\ (r.got + BytesToRead(r.rbuf)) + Len(r.input) <= r.sent
      /\ r.sock # "down" => (r.got + BytesToRead(r.rbuf)) + Len(r.input) = r.sent
  BY DEF Good, Receiving
<1>4. Len(r.input) \in Nat /\ BytesToRead(r.rbuf) \in Nat
  <2>1. r.input \in Seq(Int) /\ IsBuffer(r.rbuf)
    BY DEF Good, Receiving
  <2> QED
    BY <2>1, ContentIs
<1> DEFINE rest == SubSeq(Content(x), k + 1, Len(Content(x)))
<1>5. /\ IsBuffer(q.rbuf) /\ BytesToRead(q.rbuf) = BytesToRead(x) - k
      /\ q.rbuf.read <= x.read + k /\ Content(q.rbuf) = rest
  <2>1. CASE k = 0
    <3>1. rest = Content(x)
      BY <1>2, <2>1, SubSeqFull
    <3>2. x.read <= x.read + 0 /\ BytesToRead(x) = BytesToRead(x) - 0
      BY <1>2 DEF IsBuffer
    <3> QED
      BY <1>1, <2>1, <3>1, <3>2
  <2>2. CASE k # 0
    BY <1>1, <2>2, ConsumeKeeps
  <2> QED
    BY <2>1, <2>2
<1>6. Numbered(rest, r.got + k)
  <2>1. k \in 0 .. Len(Content(x)) /\ r.got \in Int
    BY <1>2, <1>3
  <2> QED
    BY <1>2, <2>1, NumberedSplit
<1> HIDE DEF rest
<1>7. Len(<<>>) = 0 /\ <<>> \in Seq(Int)
  OBVIOUS
<1>8. Numbered(q.input, q.got + BytesToRead(q.rbuf))
  BY <1>1, <1>7 DEF Numbered
<1>9. q.got \in Nat /\ q.rbuf.read <= q.got
  <2>1. q.rbuf.read \in Nat /\ k \in Nat /\ x.read \in Nat
    BY <1>2, <1>5 DEF IsBuffer
  <2> QED
    BY <1>1, <1>3, <1>5, <2>1
<1>10. /\ q.got + BytesToRead(q.rbuf) + Len(q.input) <= q.sent
       /\ q.sock # "down" => q.got + BytesToRead(q.rbuf) + Len(q.input) = q.sent
  <2>1. k \in Nat /\ r.sent \in Nat /\ q.sock = r.sock /\ q.sent = r.sent
        /\ q.got = r.got + k /\ Len(q.input) = 0
    BY <1>1, <1>2, <1>3, <1>7, ClientAssumption DEF SameSocket
  <2>2. (q.got + BytesToRead(q.rbuf)) + Len(q.input)
           = (r.got + BytesToRead(r.rbuf)) + Len(r.input)
    <3>1. BytesToRead(q.rbuf) = BytesToRead(x) - k /\ BytesToRead(x) \in Nat /\ r.got \in Nat
      BY <1>2, <1>3, <1>5
    <3> QED
      BY <1>4, <2>1, <3>1
  <2> QED
    BY <1>3, <2>1, <2>2
<1>11. Receiving(q)
  <2>1. q.input \in Seq(Int) /\ q.sent \in 0 .. MaxInput
    BY <1>1, <1>3, <1>7
  <2>2. Numbered(Content(q.rbuf), q.got)
    BY <1>1, <1>5, <1>6
  <2> QED
    BY <1>5, <1>8, <1>9, <1>10, <2>1, <2>2 DEF Receiving
<1>12. Sending(q)
  BY <1>1, SendingCopied DEF Good
<1> QED
  BY <1>1, <1>11, <1>12 DEF Good

LEMMA ReadDataKeeps ==
    ASSUME NEW r, Good(r), NEW q \in ReadData(r)
    PROVE  Good(q) /\ SameSocket(q, r) /\ Moves(r, q)
<1> DEFINE n == Min({BytesCanWrite(r.rbuf), Len(r.input)})
           x == AppendBytes(AddBytes(r.rbuf, SubSeq(r.input, 1, n)),
                            SubSeq(r.input, n + 1, Len(r.input)))
           consumed(k) == [r EXCEPT !.input = <<>>, !.got = @ + k,
                              !.rbuf = IF k = 0 THEN x ELSE ConsumeBytes(x, k)]
<1>2. /\ IsBuffer(x) /\ x.read = r.rbuf.read
      /\ BytesToRead(x) = BytesToRead(r.rbuf) + Len(r.input)
      /\ Numbered(Content(x), r.got)
  <2> HIDE DEF n
  <2> QED
    BY ReadIsWhole DEF n
<1>7. Appends(AddBytes(r.rbuf, SubSeq(r.input, 1, n)), Len(SubSeq(r.input, n + 1, Len(r.input))))
  <2> HIDE DEF n
  <2> QED
    BY ReadIsWhole DEF n
<1>1. PICK k \in 0 .. BytesToRead(x) : q \in React(consumed(k), "reader")
  BY <1>7 DEF ReadData
<1> HIDE DEF n, x
<1> DEFINE v == consumed(k)
<1>3. /\ IsConn(v) /\ SameSending(v, r) /\ SameSocket(v, r) /\ v.state = r.state
      /\ v.sent = r.sent /\ v.input = <<>> /\ v.got = r.got + k
      /\ v.rbuf = IF k = 0 THEN x ELSE ConsumeBytes(x, k)
  BY DEF Good, IsConn, Unconnected, SameSending, SameSocket
<1>4. q \in React(v, "reader")
  BY <1>1
<1> HIDE DEF v, consumed
<1>5. Good(v)
  <2>1. k \in 0 .. BytesToRead(x)
    BY <1>1
  <2> QED
    BY <1>2, <1>3, <2>1, ConsumedKeeps
<1>6. Handled(v, q)
  BY <1>4, <1>5, ReactKeeps
<1> QED
  BY <1>3, <1>6 DEF Handled, Moves, SameSocket

LEMMA ReadFromPeerKeeps ==
    ASSUME NEW r, Good(r), NEW q \in ReadFromPeer(r)
    PROVE  /\ Good(q) /\ SameSocket(q, r)
           /\ q.state \in {r.state, "disconnected", "failed", "spinning"}
           /\ q.state = "failed" => r.state = "failed" \/ r.sock = "down" \/ ~HasInput(r)
           /\ q.state = "spinning" => r.state = "spinning" \/ truncated
<1>1. CASE r.input # <<>>
  BY <1>1, ReadDataKeeps DEF ReadFromPeer, Moves
<1>2. CASE r.input = <<>> /\ (r.fin \/ r.sock = "down" \/ r.state = "disconnected")
  <2>1. q = PassiveClose(r)
    BY <1>2 DEF ReadFromPeer
  <2>2. /\ IsConn(q) /\ SameSending(q, r) /\ SameReceiving(q, r) /\ SameSocket(q, r)
        /\ q.state = "disconnected"
    BY <2>1, PassiveCloseKeeps DEF Good
  <2>3. Handled(r, q)
    BY <2>2, HandledCopied DEF Moves
  <2> QED
    BY <2>2, <2>3 DEF Handled
<1>3. CASE r.input = <<>> /\ ~(r.fin \/ r.sock = "down" \/ r.state = "disconnected")
  <2>1. q = r \/ q = Fails(r)
    BY <1>3 DEF ReadFromPeer, ReadNothing
  <2>2. CASE q = r
    BY <2>2 DEF SameSocket
  <2>3. CASE q = Fails(r)
    <3>1. /\ IsConn(q) /\ SameSending(q, r) /\ SameReceiving(q, r) /\ SameSocket(q, r)
          /\ q.state = "failed"
      BY <2>3, FailsKeeps DEF Good
    <3>2. Good(q)
      BY <3>1, SendingCopied, ReceivingCopied DEF Good, SameSocket
    <3> QED
      BY <1>3, <3>1, <3>2 DEF HasInput
  <2> QED
    BY <2>1, <2>2, <2>3
<1> QED
  BY <1>1, <1>2, <1>3

Open == {"connecting", "connected", "disconnected"}
Ended == {"failed", "spinning"}

\* A handler on an open connection.
LEMMA HandleKeeps ==
    ASSUME NEW op \in {"connected", "write", "read"}, NEW r, Good(r), r.state \in Open,
           op = "connected" => r.state = "connecting", NEW q \in Handle(op, r)
    PROVE  /\ Good(q) /\ q.state \in Open \cup Ended
           /\ q.state \notin Ended => SameSocket(q, r) /\ (op # "read" => SameReceiving(q, r))
           /\ r.state = "disconnected" => q.state \in {"disconnected"} \cup Ended
           /\ q.state = "connecting" => r.state = "connecting"
           /\ q.state = "failed" => q.sock = "down" \/ (op = "read" /\ ~HasInput(r))
           /\ q.state = "spinning" => truncated
<1>1. CASE op = "connected"
  <2>1. q \in ConnectedToPeer(r)
    BY <1>1 DEF Handle
  <2> QED
    BY <1>1, <2>1, ConnectedToPeerKeeps DEF Open, Ended
<1>2. CASE op = "write"
  <2>1. q \in WriteToPeer(r)
    BY <1>2 DEF Handle
  <2>2. Handled(r, q)
    BY <2>1, WriteToPeerKeeps
  <2> QED
    BY <1>2, <2>2 DEF Handled, Moves, SameSocket, Open, Ended
<1>3. CASE op = "read"
  <2>1. q \in ReadFromPeer(r)
    BY <1>3 DEF Handle
  <2> QED
    BY <1>3, <2>1, ReadFromPeerKeeps DEF SameSocket, Open, Ended
<1> QED
  BY <1>1, <1>2, <1>3

-----------------------------------------------------------------------------
(* Sequences of calls *)

Distinct(s) == \A i, j \in DOMAIN s : s[i] = s[j] => i = j

LEMMA TailOf ==
    ASSUME NEW S, NEW s \in Seq(S), s # <<>>
    PROVE  /\ Tail(s) \in Seq(S) /\ Head(s) \in S /\ Head(s) = s[1] /\ 1 \in DOMAIN s
           /\ Len(Tail(s)) = Len(s) - 1 /\ Len(s) \in Nat
           /\ \A i \in DOMAIN Tail(s) : i \in Nat \ {0} /\ i + 1 \in DOMAIN s
                                        /\ Tail(s)[i] = s[i + 1]
           /\ Range(Tail(s)) \subseteq Range(s) /\ Head(s) \in Range(s)
           /\ Range(s) \subseteq Range(Tail(s)) \cup {Head(s)}
<1>1. /\ Tail(s) \in Seq(S) /\ Head(s) \in S /\ Head(s) = s[1]
      /\ Len(Tail(s)) = Len(s) - 1 /\ Len(s) \in Nat /\ Len(s) > 0
  BY HeadTailProperties, EmptySeq
<1>2. DOMAIN s = 1 .. Len(s) /\ DOMAIN Tail(s) = 1 .. Len(s) - 1
  BY <1>1
<1>3. \A i \in 1 .. Len(s) - 1 : Tail(s)[i] = s[i + 1]
  BY HeadTailProperties, EmptySeq
<1>4. ASSUME NEW i \in DOMAIN Tail(s)
      PROVE  i \in Nat \ {0} /\ i + 1 \in DOMAIN s /\ Tail(s)[i] = s[i + 1]
  BY <1>1, <1>2, <1>3
<1>5. Range(Tail(s)) \subseteq Range(s)
  BY <1>4 DEF Range
<1>6. 1 \in DOMAIN s /\ Head(s) \in Range(s)
  BY <1>1, <1>2 DEF Range
<1>7. ASSUME NEW i \in DOMAIN s
      PROVE  s[i] \in Range(Tail(s)) \cup {Head(s)}
  <2>1. CASE i = 1
    BY <1>1, <2>1
  <2>2. CASE i # 1
    <3>1. i - 1 \in DOMAIN Tail(s) /\ (i - 1) + 1 = i
      BY <1>1, <1>2, <2>2
    <3>2. Tail(s)[i - 1] = s[i]
      BY <1>4, <3>1
    <3> QED
      BY <3>1, <3>2 DEF Range
  <2> QED
    BY <2>1, <2>2
<1> QED
  BY <1>1, <1>4, <1>5, <1>6, <1>7 DEF Range

LEMMA TailDistinct ==
    ASSUME NEW S, NEW s \in Seq(S), s # <<>>, Distinct(s)
    PROVE  Distinct(Tail(s)) /\ Range(Tail(s)) = Range(s) \ {Head(s)}
<1>1. /\ Head(s) = s[1] /\ 1 \in DOMAIN s
      /\ \A i \in DOMAIN Tail(s) : i \in Nat \ {0} /\ i + 1 \in DOMAIN s
                                   /\ Tail(s)[i] = s[i + 1]
      /\ Range(Tail(s)) \subseteq Range(s)
      /\ Range(s) \subseteq Range(Tail(s)) \cup {Head(s)}
  BY TailOf
<1>2. ASSUME NEW i \in DOMAIN Tail(s), NEW j \in DOMAIN Tail(s), Tail(s)[i] = Tail(s)[j]
      PROVE  i = j
  <2>1. i + 1 = j + 1
    BY <1>1, <1>2 DEF Distinct
  <2> QED
    BY <1>1, <2>1
<1>3. ASSUME NEW i \in DOMAIN Tail(s)
      PROVE  Tail(s)[i] # Head(s)
  <2>1. i + 1 # 1 /\ i + 1 \in DOMAIN s
    BY <1>1
  <2> QED
    BY <1>1, <2>1 DEF Distinct
<1>4. Distinct(Tail(s))
  BY <1>2 DEF Distinct
<1>5. Head(s) \notin Range(Tail(s))
  BY <1>3 DEF Range
<1> QED
  BY <1>1, <1>4, <1>5

LEMMA RangeIsIn ==
    ASSUME NEW S, NEW s \in Seq(S)
    PROVE  Range(s) \subseteq S
  BY DEF Range

LEMMA SeqOfMore ==
    ASSUME NEW S, NEW T, S \subseteq T, NEW s \in Seq(S)
    PROVE  s \in Seq(T)
  OBVIOUS

LEMMA AppendOf ==
    ASSUME NEW S, NEW s \in Seq(S), NEW x \in S
    PROVE  /\ Append(s, x) \in Seq(S)
           /\ Range(Append(s, x)) = Range(s) \cup {x}
           /\ Distinct(s) /\ x \notin Range(s) => Distinct(Append(s, x))
<1>1. /\ Append(s, x) \in Seq(S) /\ Len(Append(s, x)) = Len(s) + 1 /\ Len(s) \in Nat
      /\ \A i \in 1 .. Len(s) : Append(s, x)[i] = s[i]
      /\ Append(s, x)[Len(s) + 1] = x
  BY AppendProperties
<1>2. DOMAIN s = 1 .. Len(s) /\ DOMAIN Append(s, x) = 1 .. Len(s) + 1
  BY <1>1
<1>3. \A i \in DOMAIN Append(s, x) :
         \/ i \in DOMAIN s /\ Append(s, x)[i] = s[i]
         \/ i = Len(s) + 1 /\ Append(s, x)[i] = x
  BY <1>1, <1>2
<1>4. DOMAIN s \subseteq DOMAIN Append(s, x) /\ Len(s) + 1 \in DOMAIN Append(s, x)
  BY <1>1, <1>2
<1>5. Range(Append(s, x)) = Range(s) \cup {x}
  BY <1>1, <1>2, <1>3, <1>4 DEF Range
<1>6. Distinct(s) /\ x \notin Range(s) => Distinct(Append(s, x))
  BY <1>3 DEF Distinct, Range
<1> QED
  BY <1>1, <1>5, <1>6

-----------------------------------------------------------------------------
(* The inductive invariant *)

Phases == {"poll", "handlers", "functors", "timers"}
HandlerCalls == [op : {"connected", "write", "read"}, c : Conns]
FunctorCalls == [op : {"connect", "destroy"}, c : Conns]
InState(S) == {c \in Conns : conn[c].state \in S}

TypeInv ==
    /\ phase \in Phases \cup Ended \cup {"noSocket", "badAddress"}
    /\ todo \in Seq(HandlerCalls) /\ queue \in Seq(FunctorCalls)
    /\ batch \in Seq(FunctorCalls)
    /\ channels_ \subseteq Conns /\ connections_ \subseteq Conns
    /\ DOMAIN conn = Conns

Pointers ==
    /\ channels_ \subseteq Alive /\ DOMAIN active \subseteq Alive
    /\ \A call \in (Range(todo) \cup Range(queue)) \cup Range(batch) : call.c \in Alive

\* The map holds the connections that are connecting or connected, and the
\* poller knows only connections that were made and not deleted.
MapInv ==
    /\ connections_ = InState({"connecting", "connected"})
    /\ channels_ \subseteq InState(Open)
    /\ InState(Ended) = {}

PhaseInv ==
    /\ phase # "handlers" => active = <<>> /\ todo = <<>>
    /\ phase # "functors" => batch = <<>>

\* A connection is connected once and destroyed once, and a closed one whose
\* channel is in the poller is about to be destroyed.
WorkInv ==
    LET works == Range(queue) \cup Range(batch) IN
        /\ Distinct(queue) /\ Distinct(batch) /\ Range(queue) \cap Range(batch) = {}
        /\ \A w \in works : w.op = "connect" => conn[w.c].state = "requested"
        /\ \A w \in works : w.op = "destroy" => /\ w.c \in channels_
                                                /\ conn[w.c].state = "disconnected"
        /\ \A c \in channels_ : conn[c].state = "disconnected"
                                => [op |-> "destroy", c |-> c] \in works

\* A channel is in the list of active channels, or its handlers are being
\* called, or neither; what Poll found to read is still there.
ActiveInv ==
    /\ DOMAIN active \subseteq channels_
    /\ \A c \in DOMAIN active : active[c].in => spurious \/ HasInput(conn[c])

TodoInv ==
    \A i \in DOMAIN todo :
        /\ todo[i].c \in channels_ \ DOMAIN active
        /\ todo[i].op = "connected" => i = 1 /\ conn[todo[i].c].state = "connecting"
        /\ todo[i].op = "read" => i = Len(todo) /\ (spurious \/ HasInput(conn[todo[i].c]))

Control == MapInv /\ PhaseInv /\ WorkInv /\ ActiveInv /\ TodoInv

IInv ==
    /\ TypeInv
    /\ \A c \in Conns : Good(conn[c])
    /\ Pointers
    /\ AssertionsHold
    /\ Running => Control

LEMMA FreshIsGood ==
    ASSUME NEW r, IsConn(r), SameSending(r, Unconnected), SameReceiving(r, Unconnected)
    PROVE  Good(r)
<1>1. IsBuffer(NewBuffer) /\ BytesToRead(NewBuffer) = 0 /\ NewBuffer.read = 0
  BY NewBufferIsBuffer
<1>2. Content(NewBuffer) \in Seq(Int) /\ Len(Content(NewBuffer)) = 0
  BY <1>1, ContentIs
<1>3. \A n : Numbered(Content(NewBuffer), n)
  BY <1>2 DEF Numbered
<1>4. /\ r.wbuf = NewBuffer /\ r.zdone = -1 /\ r.filed = 0 /\ r.mark = 0 /\ r.wire = <<>>
      /\ r.written = 0 /\ r.done = FALSE
  BY DEF SameSending, Unconnected
<1>5. r.rbuf = NewBuffer /\ r.got = 0 /\ r.sent = 0 /\ r.input = <<>>
  BY DEF SameReceiving, Unconnected
<1>6. <<>> \in Seq(Int) /\ Len(<<>>) = 0 /\ DOMAIN <<>> = {}
  OBVIOUS
<1>7. Sent(r) = 0 /\ FileSent(r) = 0
  BY <1>1, <1>4 DEF Sent, FileSent
<1>8. Counts(r)
  BY <1>1, <1>4, <1>7, ClientAssumption DEF Counts
<1>9. Unsent(r)
  BY <1>3, <1>4 DEF Unsent
<1>10. Wired(r)
  <2>1. (1 .. 0) \cup (-0 .. -1) = {}
    OBVIOUS
  <2>2. Range(r.wire) = {}
    BY <1>4, <1>6 DEF Range
  <2>3. Ordered(r.wire, r.mark, r.overtaken)
    BY <1>4, <1>6 DEF Ordered
  <2> QED
    BY <1>4, <1>6, <1>7, <2>1, <2>2, <2>3 DEF Wired
<1>11. Marked(r) /\ DoneInv(r)
  BY <1>4, <1>7 DEF Marked, DoneInv
<1>12. Receiving(r)
  <2>1. Numbered(Content(r.rbuf), r.got)
    BY <1>3, <1>5
  <2>2. Numbered(r.input, r.got + BytesToRead(r.rbuf))
    BY <1>5, <1>6 DEF Numbered
  <2>3. r.got + BytesToRead(r.rbuf) + Len(r.input) = 0
    BY <1>1, <1>5, <1>6
  <2> QED
    BY <1>1, <1>5, <1>6, <2>1, <2>2, <2>3, ClientAssumption DEF Receiving
<1> QED
  BY <1>8, <1>9, <1>10, <1>11, <1>12 DEF Good, Sending

LEMMA InitIInv == Init => IInv
<1> SUFFICES ASSUME Init PROVE IInv
  OBVIOUS
<1>1. DOMAIN conn = Conns /\ \A c \in Conns : conn[c] = Unconnected
  BY DEF Init
<1>2. Good(Unconnected) /\ Unconnected.state = "none"
  <2>1. SameSending(Unconnected, Unconnected) /\ SameReceiving(Unconnected, Unconnected)
        /\ IsConn(Unconnected)
    BY DEF SameSending, SameReceiving, IsConn
  <2> QED
    BY <2>1, FreshIsGood DEF Unconnected
<1>3. active = <<>> /\ todo = <<>> /\ queue = <<>> /\ batch = <<>>
  BY DEF Init
<1>4. DOMAIN active = {} /\ DOMAIN todo = {} /\ DOMAIN queue = {} /\ DOMAIN batch = {}
      /\ Range(todo) = {} /\ Range(queue) = {} /\ Range(batch) = {}
  BY <1>3 DEF Range
<1>5. TypeInv
  BY <1>1 DEF Init, TypeInv, Phases
<1>6. Pointers /\ AssertionsHold
  BY <1>4 DEF Init, Pointers, AssertionsHold, Running
<1>7. MapInv
  BY <1>1, <1>2 DEF Init, MapInv, InState, Ended
<1>8. PhaseInv /\ WorkInv /\ ActiveInv /\ TodoInv
  BY <1>3, <1>4 DEF Init, PhaseInv, WorkInv, ActiveInv, TodoInv, Distinct
<1> QED
  BY <1>1, <1>2, <1>5, <1>6, <1>7, <1>8 DEF IInv, Control

-----------------------------------------------------------------------------
(* What the steps have in common *)

\* The functors that are left when the one at the head has been called.
Left(rest, c) ==
    /\ rest \in Seq(FunctorCalls) /\ Distinct(rest)
    /\ Range(rest) \subseteq Range(batch)
    /\ [op |-> "connect", c |-> c] \notin Range(queue) \cup Range(rest)
    /\ [op |-> "destroy", c |-> c] \in Range(batch) => [op |-> "destroy", c |-> c] \in Range(rest)
    /\ \A w \in Range(batch) : w.c # c => w \in Range(rest)

\* Connection c, of the map or new to it, becomes r.
Follows(c, r, map) ==
    /\ Good(r) /\ r.state \in Open \cup Ended
    /\ conn[c].state \in {"requested"} \cup Open
    /\ map = connections_ \cup (IF conn[c].state = "requested" THEN {c} ELSE {})
    /\ conn[c].state = "disconnected" => c \in channels_
    /\ conn[c].state = "disconnected" => r.state \in {"disconnected"} \cup Ended
    /\ r.state = "failed" => spurious \/ r.sock = "down"
    /\ r.state = "spinning" => truncated

LEMMA BecomesKeeps ==
    ASSUME IInv, Running, NEW c \in Conns, NEW r, NEW map, Follows(c, r, map),
           Becomes(c, r, map), Left(batch', c), todo' \in Seq(HandlerCalls),
           Range(todo') \subseteq Range(todo), UNCHANGED <<active, truncated, spurious>>
    PROVE  /\ TypeInv' /\ (\A d \in Conns : Good(conn'[d])) /\ Pointers' /\ AssertionsHold'
           /\ Running' => MapInv' /\ WorkInv' /\ phase' = phase
           /\ channels_ \subseteq channels_'
           /\ conn'[c] = r /\ \A d \in Conns : d # c => conn'[d] = conn[d]
<1> DEFINE closing == r.state = "disconnected" /\ conn[c].state # "disconnected"
           destroy == [op |-> "destroy", c |-> c]
<1>1. TypeInv /\ MapInv /\ WorkInv /\ Pointers /\ \A d \in Conns : Good(conn[d])
  BY DEF IInv, Control
<1>2. conn' = [conn EXCEPT ![c] = r]
  BY DEF Becomes
<1>3. DOMAIN conn' = Conns /\ conn'[c] = r /\ \A d \in Conns : d # c => conn'[d] = conn[d]
  BY <1>1, <1>2 DEF TypeInv
<1>4. closing => c \in map
  BY <1>1 DEF Follows, MapInv, InState, Open
<1>5. phase' = IF r.state \in Ended THEN r.state ELSE phase
  BY <1>4 DEF Becomes, Ended
<1>6. channels_ \subseteq channels_' /\ channels_' \subseteq channels_ \cup {c}
      /\ (r.state # "connected" => c \in channels_')
  BY DEF Becomes
<1>7. connections_' = IF closing THEN map \ {c} ELSE map
  BY DEF Becomes
<1>8. queue' = IF closing THEN Append(queue, destroy) ELSE queue
  BY DEF Becomes
<1>9. queue \in Seq(FunctorCalls) /\ Distinct(queue) /\ destroy \in FunctorCalls
  BY <1>1 DEF TypeInv, WorkInv, FunctorCalls
<1>10. closing => destroy \notin Range(queue) \cup Range(batch)
  BY <1>1 DEF WorkInv
<1>11. /\ queue' \in Seq(FunctorCalls) /\ Distinct(queue')
       /\ Range(queue') = Range(queue) \cup (IF closing THEN {destroy} ELSE {})
  BY <1>8, <1>9, <1>10, AppendOf
<1> HIDE DEF closing, destroy
<1>12. TypeInv'
  <2>1. phase' \in Phases \cup Ended \cup {"noSocket", "badAddress"}
    BY <1>1, <1>5 DEF TypeInv
  <2>2. channels_' \subseteq Conns /\ connections_' \subseteq Conns
    BY <1>1, <1>6, <1>7 DEF TypeInv, Follows
  <2> QED
    BY <1>3, <1>11, <2>1, <2>2 DEF TypeInv, Left
<1>13. \A d \in Conns : Good(conn'[d])
  BY <1>1, <1>3 DEF Follows
<1>14. Alive \cup {c} \subseteq Alive'
  BY <1>3 DEF Alive, Follows, Open, Ended
<1>15. \A w \in Range(queue') : w \in Range(queue) \/ (w.c = c /\ closing)
  BY <1>11 DEF destroy
<1>16. Pointers'
  <2>1. channels_' \subseteq Alive' /\ DOMAIN active' \subseteq Alive'
    BY <1>1, <1>6, <1>14 DEF Pointers
  <2>2. ASSUME NEW w \in (Range(todo') \cup Range(queue')) \cup Range(batch')
        PROVE  w.c \in Alive'
    BY <1>1, <1>14, <1>15 DEF Pointers, Left
  <2> QED
    BY <2>1, <2>2 DEF Pointers
<1>17. AssertionsHold'
  <2>1. phase \notin Ended
    BY DEF Running, Ended
  <2>2. phase' = "failed" => r.state = "failed"
    BY <1>5, <2>1 DEF Ended
  <2>3. phase' = "spinning" => r.state = "spinning"
    BY <1>5, <2>1 DEF Ended
  <2>4. CASE phase' = phase
    BY <2>4 DEF AssertionsHold, Running
  <2>5. CASE phase' = "failed"
    BY <1>3, <2>2, <2>5 DEF AssertionsHold, Follows
  <2>6. CASE phase' = "spinning"
    BY <2>3, <2>6 DEF AssertionsHold, Follows
  <2> QED
    BY <1>5, <2>4, <2>5, <2>6 DEF Ended
<1>18. ASSUME Running' PROVE MapInv' /\ WorkInv' /\ phase' = phase
  <2>1. r.state \in Open /\ r.state \notin Ended /\ phase' = phase
    BY <1>5, <1>18 DEF Running, Ended, Open, Follows
  <2>2. MapInv'
    <3>1. connections_' = InState({"connecting", "connected"})'
      <4>1. \A d \in Conns : d # c => (d \in connections_' <=> d \in connections_)
        BY <1>7 DEF Follows
      <4>2. c \in connections_' <=> r.state \in {"connecting", "connected"}
        BY <1>1, <1>4, <1>7, <2>1 DEF Follows, MapInv, InState, Open, closing
      <4>3. connections_' \subseteq Conns
        BY <1>12 DEF TypeInv
      <4>4. \A d \in Conns : d \in connections_ <=> conn[d].state \in {"connecting", "connected"}
        BY <1>1 DEF MapInv, InState
      <4>5. \A d \in Conns : d \in connections_' <=> conn'[d].state \in {"connecting", "connected"}
        BY <1>3, <4>1, <4>2, <4>4
      <4> QED
        BY <4>3, <4>5 DEF InState
    <3>2. channels_' \subseteq InState(Open)'
      BY <1>1, <1>3, <1>6, <2>1 DEF MapInv, InState
    <3>3. InState(Ended)' = {}
      BY <1>1, <1>3, <2>1 DEF MapInv, InState
    <3> QED
      BY <3>1, <3>2, <3>3 DEF MapInv
  <2>3. ASSUME NEW w \in Range(queue') \cup Range(batch')
        PROVE  \/ w \in Range(queue) \cup Range(batch)
               \/ closing /\ w = destroy
    BY <1>11, <2>3 DEF Left
  <2>4. Distinct(queue') /\ Distinct(batch') /\ Range(queue') \cap Range(batch') = {}
    BY <1>1, <1>10, <1>11 DEF Left, WorkInv
  <2>5. ASSUME NEW w \in Range(queue') \cup Range(batch'), w.op = "connect"
        PROVE  conn'[w.c].state = "requested"
    <3>1. w \in Range(queue) \cup Range(batch)
      BY <2>3, <2>5 DEF destroy
    <3>2. conn[w.c].state = "requested" /\ w \in FunctorCalls
      BY <1>1, <2>5, <3>1, RangeIsIn DEF WorkInv, TypeInv
    <3>3. w = [op |-> "connect", c |-> w.c] /\ w.c \in Conns
      BY <2>5, <3>2 DEF FunctorCalls
    <3>4. w \in Range(queue) \cup Range(batch')
      BY <1>11, <2>5 DEF destroy
    <3>5. w.c # c
      BY <3>3, <3>4 DEF Left
    <3> QED
      BY <1>3, <3>2, <3>3, <3>5
  <2>6. ASSUME NEW w \in Range(queue') \cup Range(batch'), w.op = "destroy"
        PROVE  w.c \in channels_' /\ conn'[w.c].state = "disconnected"
    <3>1. CASE closing /\ w = destroy
      BY <1>3, <1>6, <3>1 DEF destroy, closing
    <3>2. CASE w \in Range(queue) \cup Range(batch)
      <4>1. w.c \in channels_ /\ conn[w.c].state = "disconnected" /\ w.c \in Conns
        BY <1>1, <2>6, <3>2 DEF WorkInv, TypeInv
      <4>2. CASE w.c = c
        BY <1>3, <1>6, <2>1, <4>1, <4>2 DEF Follows, Open, Ended
      <4> QED
        BY <1>3, <1>6, <4>1, <4>2
    <3> QED
      BY <2>3, <3>1, <3>2
  <2>7. ASSUME NEW d \in channels_', conn'[d].state = "disconnected"
        PROVE  [op |-> "destroy", c |-> d] \in Range(queue') \cup Range(batch')
    <3>1. CASE d = c /\ closing
      BY <1>11, <3>1 DEF destroy
    <3>2. CASE d = c /\ ~closing
      <4>1. conn[c].state = "disconnected" /\ c \in channels_
        BY <1>3, <2>7, <3>2 DEF closing, Follows
      <4>2. [op |-> "destroy", c |-> c] \in Range(queue) \cup Range(batch)
        BY <1>1, <4>1 DEF WorkInv
      <4> QED
        BY <1>11, <3>2, <4>2 DEF Left
    <3>3. CASE d # c
      <4>1. d \in channels_ /\ d \in Conns /\ conn[d].state = "disconnected"
        BY <1>1, <1>3, <1>6, <2>7, <3>3 DEF TypeInv
      <4>2. [op |-> "destroy", c |-> d] \in Range(queue) \cup Range(batch)
        BY <1>1, <4>1 DEF WorkInv
      <4> QED
        BY <1>11, <3>3, <4>2 DEF Left
    <3> QED
      BY <3>1, <3>2, <3>3
  <2>8. WorkInv'
    BY <2>4, <2>5, <2>6, <2>7 DEF WorkInv
  <2> QED
    BY <2>1, <2>2, <2>8
<1> QED
  BY <1>3, <1>6, <1>12, <1>13, <1>16, <1>17, <1>18

-----------------------------------------------------------------------------
(* The handlers and the timers *)

LEMMA RunHandlerKeeps == IInv /\ RunHandler => IInv'
<1> SUFFICES ASSUME IInv, RunHandler PROVE IInv'
  OBVIOUS
<1> DEFINE op == Head(todo).op
           c == Head(todo).c
<1>1. /\ phase = "handlers" /\ todo # <<>> /\ todo' = Tail(todo)
      /\ UNCHANGED <<active, batch, truncated, spurious>>
  BY DEF RunHandler
<1>2. PICK r \in Handle(op, conn[c]) : Becomes(c, r, connections_)
  BY DEF RunHandler
<1>3. Running /\ TypeInv /\ Control
  BY <1>1 DEF IInv, Running
<1>4. /\ Tail(todo) \in Seq(HandlerCalls) /\ Head(todo) \in HandlerCalls
      /\ Head(todo) = todo[1] /\ 1 \in DOMAIN todo
      /\ Len(Tail(todo)) = Len(todo) - 1 /\ Len(todo) \in Nat
      /\ \A i \in DOMAIN Tail(todo) : i \in Nat \ {0} /\ i + 1 \in DOMAIN todo
                                      /\ Tail(todo)[i] = todo[i + 1]
      /\ Range(Tail(todo)) \subseteq Range(todo)
  BY <1>1, <1>3, TailOf DEF TypeInv
<1>5. c \in Conns /\ op \in {"connected", "write", "read"}
  BY <1>4 DEF HandlerCalls
<1>6. /\ c \in channels_ \ DOMAIN active
      /\ op = "connected" => conn[c].state = "connecting"
      /\ op = "read" => Len(todo) = 1 /\ (spurious \/ HasInput(conn[c]))
  BY <1>3, <1>4 DEF Control, TodoInv
<1>7. Good(conn[c]) /\ conn[c].state \in Open
  BY <1>3, <1>5, <1>6 DEF IInv, Control, MapInv, InState
<1> HIDE DEF op, c
<1>8. /\ Good(r) /\ r.state \in Open \cup Ended
      /\ r.state \notin Ended =>
            SameSocket(r, conn[c]) /\ (op # "read" => SameReceiving(r, conn[c]))
      /\ conn[c].state = "disconnected" => r.state \in {"disconnected"} \cup Ended
      /\ r.state = "failed" => r.sock = "down" \/ (op = "read" /\ ~HasInput(conn[c]))
      /\ r.state = "spinning" => truncated
  BY <1>2, <1>5, <1>6, <1>7, HandleKeeps
<1>9. Follows(c, r, connections_)
  <2>1. connections_ = connections_ \cup (IF conn[c].state = "requested" THEN {c} ELSE {})
    BY <1>7 DEF Open
  <2>2. r.state = "failed" => spurious \/ r.sock = "down"
    BY <1>6, <1>8
  <2> QED
    BY <1>6, <1>7, <1>8, <2>1, <2>2 DEF Follows
<1>10. Left(batch', c)
  <2>1. batch' = <<>> /\ batch = <<>> /\ Range(batch) = {} /\ batch \in Seq(FunctorCalls)
    BY <1>1, <1>3 DEF Control, PhaseInv, Range, TypeInv
  <2>2. [op |-> "connect", c |-> c] \notin Range(queue)
    BY <1>3, <1>7 DEF Control, WorkInv, Open
  <2> QED
    BY <2>1, <2>2 DEF Left, Distinct
<1>11. /\ TypeInv' /\ (\A d \in Conns : Good(conn'[d])) /\ Pointers' /\ AssertionsHold'
       /\ Running' => MapInv' /\ WorkInv' /\ phase' = phase
       /\ channels_ \subseteq channels_'
       /\ conn'[c] = r /\ \A d \in Conns : d # c => conn'[d] = conn[d]
  BY <1>1, <1>2, <1>3, <1>4, <1>5, <1>9, <1>10, BecomesKeeps
<1>12. ASSUME Running' PROVE Control'
  <2>1. PhaseInv'
    BY <1>1, <1>3, <1>11, <1>12 DEF Control, PhaseInv
  <2>2. ActiveInv'
    <3>1. DOMAIN active \subseteq Conns /\ DOMAIN active' \subseteq channels_'
      BY <1>1, <1>3, <1>11 DEF Control, ActiveInv, TypeInv
    <3>2. ASSUME NEW d \in DOMAIN active', active'[d].in
          PROVE  spurious' \/ HasInput(conn'[d])
      <4>1. d # c /\ d \in Conns /\ d \in DOMAIN active /\ active[d].in
        BY <1>1, <1>6, <3>1, <3>2
      <4> QED
        BY <1>1, <1>3, <1>11, <4>1 DEF Control, ActiveInv
    <3> QED
      BY <3>1, <3>2 DEF ActiveInv
  <2>3. TodoInv'
    <3> SUFFICES ASSUME NEW i \in DOMAIN Tail(todo)
                 PROVE  /\ todo[i + 1].c \in channels_' \ DOMAIN active
                        /\ todo[i + 1].op # "connected"
                        /\ todo[i + 1].op = "read" =>
                              i = Len(Tail(todo))
                              /\ (spurious \/ HasInput(conn'[todo[i + 1].c]))
      BY <1>1, <1>4 DEF TodoInv
    <3>1. i + 1 \in DOMAIN todo /\ i \in Nat \ {0} /\ i + 1 # 1
      BY <1>4
    <3>2. /\ todo[i + 1].c \in channels_ \ DOMAIN active /\ todo[i + 1].op # "connected"
          /\ todo[i + 1].op = "read" =>
                i + 1 = Len(todo) /\ (spurious \/ HasInput(conn[todo[i + 1].c]))
      BY <1>3, <3>1 DEF Control, TodoInv
    <3>3. op # "read"
      <4>1. i + 1 \in 1 .. Len(todo)
        BY <1>3, <3>1 DEF TypeInv
      <4> QED
        BY <1>4, <1>6, <3>1, <4>1
    <3>4. HasInput(conn[c]) => HasInput(r)
      <4>1. SameReceiving(r, conn[c]) /\ SameSocket(r, conn[c])
            /\ (conn[c].state = "disconnected" => r.state = "disconnected")
        <5>1. r.state \notin Ended
          BY <1>5, <1>11, <1>12 DEF MapInv, InState
        <5> QED
          BY <1>8, <3>3, <5>1
      <4> QED
        BY <4>1 DEF HasInput, SameReceiving, SameSocket
    <3>5. todo[i + 1].c \in Conns
      BY <1>3, <3>2 DEF TypeInv
    <3>6. i + 1 = Len(todo) => i = Len(Tail(todo))
      <4>1. Len(Tail(todo)) = Len(todo) - 1 /\ Len(todo) \in Nat /\ i \in Nat
        BY <1>4
      <4> QED
        BY <4>1
    <3> QED
      BY <1>11, <3>2, <3>4, <3>5, <3>6
  <2> QED
    BY <1>11, <1>12, <2>1, <2>2, <2>3 DEF Control
<1> QED
  BY <1>11, <1>12 DEF IInv

LEMMA TimerFiresKeeps == ASSUME NEW c \in Conns PROVE IInv /\ TimerFires(c) => IInv'
<1> SUFFICES ASSUME IInv, TimerFires(c) PROVE IInv'
  OBVIOUS
<1> DEFINE v == [conn[c] EXCEPT !.closedIn = "timer"]
           r == ActiveClose(v)
<1>1. /\ phase = "timers" /\ conn[c].state = "connected" /\ Becomes(c, r, connections_)
      /\ UNCHANGED <<active, todo, batch, truncated, spurious>>
  BY DEF TimerFires
<1>2. Running /\ TypeInv /\ Control /\ Good(conn[c])
  BY <1>1 DEF IInv, Running
<1>3. IsConn(v) /\ SameSending(v, conn[c]) /\ SameReceiving(v, conn[c])
      /\ SameSocket(v, conn[c]) /\ v.state = "connected"
  BY <1>1, <1>2 DEF Good, IsConn, Unconnected, SameSending, SameReceiving, SameSocket
<1> HIDE DEF v
<1>4. Good(v)
  BY <1>2, <1>3, SendingCopied, ReceivingCopied DEF Good, SameSocket
<1>5. Handled(v, r) /\ r.state \in {"disconnected", "failed"}
  BY <1>3, <1>4, ClosedIsHandled, CloseKeeps
<1> HIDE DEF r
<1>6. Follows(c, r, connections_)
  BY <1>1, <1>3, <1>5 DEF Follows, Handled, Moves, SameSocket, Open, Ended
<1>7. active = <<>> /\ todo = <<>> /\ batch = <<>>
  BY <1>1, <1>2 DEF Control, PhaseInv
<1>8. Left(batch', c)
  <2>1. batch' = <<>> /\ Range(batch) = {} /\ batch \in Seq(FunctorCalls)
    BY <1>1, <1>2, <1>7 DEF Range, TypeInv
  <2>2. [op |-> "connect", c |-> c] \notin Range(queue)
    BY <1>1, <1>2 DEF Control, WorkInv
  <2> QED
    BY <1>7, <2>1, <2>2 DEF Left, Distinct
<1>9. /\ TypeInv' /\ (\A d \in Conns : Good(conn'[d])) /\ Pointers' /\ AssertionsHold'
      /\ Running' => MapInv' /\ WorkInv' /\ phase' = phase
  <2>1. todo' \in Seq(HandlerCalls) /\ Range(todo') \subseteq Range(todo)
    BY <1>1, <1>2 DEF TypeInv
  <2> QED
    BY <1>1, <1>2, <1>6, <1>8, <2>1, BecomesKeeps
<1>10. Running' => Control'
  BY <1>1, <1>7, <1>9 DEF Control, PhaseInv, ActiveInv, TodoInv
<1> QED
  BY <1>9, <1>10 DEF IInv

LEMMA EndIterationKeeps == IInv /\ EndIteration => IInv'
<1> SUFFICES ASSUME IInv, EndIteration PROVE IInv'
  OBVIOUS
<1>1. /\ phase = "timers" /\ phase' = "poll"
      /\ UNCHANGED <<active, todo, queue, batch, wake, channels_, connections_,
                     conn, truncated, spurious>>
  BY DEF EndIteration
<1>2. Control /\ TypeInv
  BY <1>1 DEF IInv, Running
<1>3. active' = <<>> /\ todo' = <<>> /\ batch' = <<>>
  BY <1>1, <1>2 DEF Control, PhaseInv
<1>4. TypeInv' /\ (\A d \in Conns : Good(conn'[d]))
  BY <1>1 DEF IInv, TypeInv, Phases
<1>5. Pointers' /\ AssertionsHold'
  BY <1>1 DEF IInv, Pointers, Alive, AssertionsHold, Running
<1>6. MapInv' /\ WorkInv'
  BY <1>1, <1>2 DEF Control, MapInv, InState, WorkInv
<1>7. PhaseInv' /\ ActiveInv' /\ TodoInv'
  BY <1>3 DEF PhaseInv, ActiveInv, TodoInv
<1> QED
  BY <1>4, <1>5, <1>6, <1>7 DEF IInv, Control

-----------------------------------------------------------------------------
(* Poll, and the lists of an iteration *)

LEMMA PollKeeps ==
    ASSUME NEW writable \in SUBSET channels_, NEW phantom \in SUBSET channels_
    PROVE  IInv /\ Poll(writable, phantom) => IInv'
<1> SUFFICES ASSUME IInv, Poll(writable, phantom) PROVE IInv'
  OBVIOUS
<1> DEFINE in == {c \in channels_ : InputReady(conn[c])} \cup phantom
           out == {c \in channels_ : Connectable(conn[c])} \cup writable
<1>1. /\ phase = "poll" /\ phase' = "handlers"
      /\ active' = [c \in in \cup out |-> [in |-> c \in in, out |-> c \in out]]
      /\ spurious' = (spurious \/ \E c \in phantom : ~InputReady(conn[c]))
      /\ UNCHANGED <<todo, queue, batch, channels_, connections_, conn, truncated>>
  BY DEF Poll
<1>2. Control /\ TypeInv /\ Pointers
  BY <1>1 DEF IInv, Running
<1>3. DOMAIN active' \subseteq channels_ /\ \A c \in DOMAIN active' : active'[c].in = (c \in in)
  BY <1>1
<1>4. todo' = <<>> /\ DOMAIN todo' = {} /\ batch' = <<>>
  BY <1>1, <1>2 DEF Control, PhaseInv
<1>5. TypeInv' /\ (\A d \in Conns : Good(conn'[d]))
  BY <1>1 DEF IInv, TypeInv, Phases
<1>6. Pointers' /\ AssertionsHold'
  BY <1>1, <1>2, <1>3 DEF Pointers, Alive, AssertionsHold, Running
<1>7. MapInv' /\ WorkInv'
  BY <1>1, <1>2 DEF Control, MapInv, InState, WorkInv
<1>8. ASSUME NEW c \in DOMAIN active', active'[c].in
      PROVE  spurious' \/ HasInput(conn'[c])
  <2>1. InputReady(conn[c]) \/ c \in phantom
    BY <1>3, <1>8
  <2>2. CASE InputReady(conn[c])
    BY <1>1, <2>2 DEF InputReady, HasInput
  <2>3. CASE c \in phantom /\ ~InputReady(conn[c])
    BY <1>1, <2>3
  <2> QED
    BY <2>1, <2>2, <2>3
<1> HIDE DEF in, out
<1>9. PhaseInv' /\ ActiveInv' /\ TodoInv'
  BY <1>1, <1>3, <1>4, <1>8 DEF PhaseInv, ActiveInv, TodoInv
<1> QED
  BY <1>5, <1>6, <1>7, <1>9 DEF IInv, Control

\* The handlers of a channel, in the order they are called.
LEMMA CallsOf ==
    ASSUME NEW w \in HandlerCalls, NEW r \in HandlerCalls, NEW a \in {<<>>, <<w>>},
           NEW b \in {<<>>, <<r>>}, NEW t, t = a \o b
    PROVE  /\ t \in Seq(HandlerCalls)
           /\ \A k \in DOMAIN t : \/ k = 1 /\ t[k] = w
                                  \/ k = Len(t) /\ t[k] = r /\ b = <<r>>
<1>1. CASE a = <<w>> /\ b = <<r>>
  <2>1. t = <<w>> \o <<r>>
    BY <1>1
  <2>2. <<w>> \in Seq(HandlerCalls) /\ <<r>> \in Seq(HandlerCalls)
        /\ Len(<<w>>) = 1 /\ Len(<<r>>) = 1 /\ <<w>>[1] = w /\ <<r>>[1] = r
    OBVIOUS
  <2>3. /\ t \in Seq(HandlerCalls) /\ Len(t) = 2
        /\ \A k \in 1 .. 2 : t[k] = IF k <= 1 THEN <<w>>[k] ELSE <<r>>[k - 1]
    BY <2>1, <2>2, ConcatProperties
  <2>4. t[1] = w /\ t[2] = r
    BY <2>2, <2>3
  <2>5. \A k \in DOMAIN t : k = 1 \/ k = 2
    BY <2>3
  <2> QED
    BY <1>1, <2>3, <2>4, <2>5
<1>2. CASE a = <<w>> /\ b = <<>>
  <2>1. t = <<w>>
    BY <1>2, ConcatEmptySeq
  <2>2. t \in Seq(HandlerCalls) /\ t[1] = w /\ \A k \in DOMAIN t : k = 1
    BY <2>1
  <2> QED
    BY <2>2
<1>3. CASE a = <<>> /\ b = <<r>>
  <2>1. t = <<r>>
    BY <1>3, ConcatEmptySeq
  <2> QED
    BY <1>3, <2>1
<1>4. CASE a = <<>> /\ b = <<>>
  <2>1. t = <<>>
    BY <1>4, ConcatEmptySeq
  <2> QED
    BY <2>1
<1> QED
  BY <1>1, <1>2, <1>3, <1>4

LEMMA HandleEventsKeeps == IInv /\ HandleEvents => IInv'
<1> SUFFICES ASSUME IInv, HandleEvents PROVE IInv'
  OBVIOUS
<1>1. /\ phase = "handlers" /\ todo = <<>>
      /\ UNCHANGED <<phase, queue, batch, wake, channels_, connections_, conn,
                     truncated, spurious>>
  BY DEF HandleEvents
<1>2. Control /\ TypeInv /\ Pointers
  BY <1>1 DEF IInv, Running
<1> DEFINE writer(c) == IF conn[c].state = "connecting" THEN "connected" ELSE "write"
<1>3. PICK c \in DOMAIN active :
         /\ active' = [d \in DOMAIN active \ {c} |-> active[d]]
         /\ todo' = (IF active[c].out THEN <<[op |-> writer(c), c |-> c]>> ELSE <<>>)
                    \o (IF active[c].in THEN <<[op |-> "read", c |-> c]>> ELSE <<>>)
  BY DEF HandleEvents
<1>4. c \in channels_ /\ c \in Conns
  BY <1>2, <1>3 DEF Control, ActiveInv, TypeInv
<1> DEFINE w == [op |-> writer(c), c |-> c]
           r == [op |-> "read", c |-> c]
<1>5. w \in HandlerCalls /\ r \in HandlerCalls /\ w.c = c /\ r.c = c /\ r.op = "read"
      /\ w.op # "read" /\ (w.op = "connected" => conn[c].state = "connecting")
  BY <1>4 DEF HandlerCalls
<1> DEFINE first == IF active[c].out THEN <<w>> ELSE <<>>
           second == IF active[c].in THEN <<r>> ELSE <<>>
<1>6. todo' = first \o second
  BY <1>3
<1> HIDE DEF w, r
<1>7. /\ todo' \in Seq(HandlerCalls)
      /\ \A k \in DOMAIN todo' : \/ k = 1 /\ todo'[k] = w
                                 \/ k = Len(todo') /\ todo'[k] = r /\ active[c].in
  <2>1. first \in {<<>>, <<w>>} /\ second \in {<<>>, <<r>>}
    OBVIOUS
  <2>2. second = <<r>> => active[c].in
    OBVIOUS
  <2> HIDE DEF first, second
  <2>3. /\ todo' \in Seq(HandlerCalls)
        /\ \A k \in DOMAIN todo' : \/ k = 1 /\ todo'[k] = w
                                   \/ k = Len(todo') /\ todo'[k] = r /\ second = <<r>>
    BY <1>5, <1>6, <2>1, CallsOf
  <2> QED
    BY <2>2, <2>3
<1> HIDE DEF first, second
<1>8. DOMAIN active' = DOMAIN active \ {c} /\ \A d \in DOMAIN active' : active'[d] = active[d]
  BY <1>3
<1>9. TypeInv' /\ (\A d \in Conns : Good(conn'[d]))
  BY <1>1, <1>7 DEF IInv, TypeInv
<1>10. Pointers'
  <2>1. \A call \in Range(todo') : call.c \in Alive
    BY <1>2, <1>3, <1>5, <1>7 DEF Range, Pointers
  <2> QED
    BY <1>1, <1>2, <1>8, <2>1 DEF Pointers, Alive
<1>11. AssertionsHold'
  BY <1>1 DEF AssertionsHold, Running
<1>12. MapInv' /\ WorkInv' /\ PhaseInv'
  BY <1>1, <1>2 DEF Control, MapInv, InState, WorkInv, PhaseInv
<1>13. ActiveInv'
  BY <1>1, <1>2, <1>8 DEF Control, ActiveInv
<1>14. TodoInv'
  <2>1. ASSUME NEW k \in DOMAIN todo'
        PROVE  /\ todo'[k].c \in channels_' \ DOMAIN active'
               /\ todo'[k].op = "connected" => k = 1 /\ conn'[todo'[k].c].state = "connecting"
               /\ todo'[k].op = "read" =>
                     k = Len(todo') /\ (spurious' \/ HasInput(conn'[todo'[k].c]))
    <3>1. active[c].in => spurious \/ HasInput(conn[c])
      BY <1>2, <1>3 DEF Control, ActiveInv
    <3> QED
      BY <1>1, <1>4, <1>5, <1>7, <1>8, <3>1
  <2> QED
    BY <2>1 DEF TodoInv
<1> QED
  BY <1>9, <1>10, <1>11, <1>12, <1>13, <1>14 DEF IInv, Control

LEMMA SwapFunctorsKeeps == IInv /\ SwapFunctors => IInv'
<1> SUFFICES ASSUME IInv, SwapFunctors PROVE IInv'
  OBVIOUS
<1>1. /\ phase = "handlers" /\ phase' = "functors" /\ batch' = queue /\ queue' = <<>>
      /\ todo = <<>> /\ active = <<>>
      /\ UNCHANGED <<active, todo, wake, channels_, connections_, conn, truncated,
                     spurious>>
  BY DEF SwapFunctors
<1>2. Control /\ TypeInv /\ Pointers
  BY <1>1 DEF IInv, Running
<1>3. Range(queue') = {} /\ Range(batch') = Range(queue) /\ Range(batch) = {}
      /\ DOMAIN queue' = {}
  BY <1>1, <1>2 DEF Control, PhaseInv, Range
<1>4. TypeInv' /\ (\A d \in Conns : Good(conn'[d]))
  BY <1>1 DEF IInv, TypeInv, Phases
<1>5. Pointers' /\ AssertionsHold'
  BY <1>1, <1>2, <1>3 DEF Pointers, Alive, AssertionsHold, Running
<1>6. MapInv'
  BY <1>1, <1>2 DEF Control, MapInv, InState
<1>7. WorkInv'
  BY <1>1, <1>2, <1>3 DEF Control, WorkInv, Distinct
<1>8. PhaseInv' /\ ActiveInv' /\ TodoInv'
  BY <1>1, <1>2 DEF Control, PhaseInv, ActiveInv, TodoInv
<1> QED
  BY <1>4, <1>5, <1>6, <1>7, <1>8 DEF IInv, Control

LEMMA EndFunctorsKeeps == IInv /\ EndFunctors => IInv'
<1> SUFFICES ASSUME IInv, EndFunctors PROVE IInv'
  OBVIOUS
<1> DEFINE kept == connections_ \cup {call.c : call \in Range(queue)}
           freed == [Unconnected EXCEPT !.state = "freed"]
<1>1. /\ phase = "functors" /\ batch = <<>> /\ phase' = "timers"
      /\ conn' = [c \in Conns |-> IF conn[c].state = "disconnected" /\ c \notin kept
                                  THEN freed ELSE conn[c]]
      /\ UNCHANGED <<active, todo, queue, batch, wake, channels_, connections_,
                     truncated, spurious>>
  BY DEF EndFunctors
<1>2. Control /\ TypeInv /\ Pointers
  BY <1>1 DEF IInv, Running
<1>3. Good(freed) /\ freed.state = "freed"
  <2>1. SameSending(freed, Unconnected) /\ SameReceiving(freed, Unconnected)
        /\ IsConn(freed) /\ freed.state = "freed"
    BY DEF SameSending, SameReceiving, IsConn, Unconnected
  <2> QED
    BY <2>1, FreshIsGood
<1> HIDE DEF freed
<1>4. /\ DOMAIN conn' = Conns
      /\ \A d \in Conns : conn'[d] = IF conn[d].state = "disconnected" /\ d \notin kept
                                     THEN freed ELSE conn[d]
  BY <1>1
<1>5. Range(batch) = {} /\ active = <<>> /\ todo = <<>> /\ DOMAIN active = {}
      /\ DOMAIN todo = {} /\ Range(todo) = {}
  BY <1>1, <1>2 DEF Control, PhaseInv, Range
<1>6. ASSUME NEW d \in channels_ PROVE conn'[d] = conn[d] /\ d \in Conns
  <2>1. d \in Conns
    BY <1>2 DEF TypeInv
  <2>2. CASE conn[d].state = "disconnected"
    <3>1. [op |-> "destroy", c |-> d] \in Range(queue)
      BY <1>2, <1>5, <2>2 DEF Control, WorkInv
    <3>2. d \in kept
      BY <3>1
    <3> QED
      BY <1>4, <2>1, <3>2
  <2> QED
    BY <1>4, <2>1, <2>2
<1>7. ASSUME NEW w \in Range(queue) PROVE conn'[w.c] = conn[w.c] /\ w.c \in Conns
  <2>1. w.c \in kept
    OBVIOUS
  <2>2. w \in FunctorCalls
    BY <1>2, RangeIsIn DEF TypeInv
  <2>3. w.c \in Conns
    BY <2>2 DEF FunctorCalls
  <2> QED
    BY <1>4, <2>1, <2>3
<1>8. TypeInv'
  BY <1>1, <1>2, <1>4 DEF TypeInv, Phases
<1>9. \A d \in Conns : Good(conn'[d])
  BY <1>3, <1>4 DEF IInv
<1> HIDE DEF kept
<1>10. Pointers'
  <2>1. channels_ \subseteq Alive'
    BY <1>2, <1>6 DEF Pointers, Alive
  <2>2. \A w \in Range(queue) : w.c \in Alive'
    BY <1>2, <1>7 DEF Pointers, Alive
  <2> QED
    BY <1>1, <1>5, <2>1, <2>2 DEF Pointers
<1>11. AssertionsHold'
  BY <1>1 DEF AssertionsHold, Running
<1>12. MapInv'
  <2>1. \A d \in Conns : conn'[d] = conn[d]
                         \/ (conn[d].state = "disconnected" /\ conn'[d].state = "freed")
    BY <1>3, <1>4
  <2> QED
    BY <1>1, <1>2, <1>6, <2>1 DEF Control, MapInv, InState, Ended
<1>13. WorkInv'
  BY <1>1, <1>2, <1>5, <1>6, <1>7 DEF Control, WorkInv
<1>14. PhaseInv' /\ ActiveInv' /\ TodoInv'
  BY <1>1, <1>5 DEF PhaseInv, ActiveInv, TodoInv
<1> QED
  BY <1>8, <1>9, <1>10, <1>11, <1>12, <1>13, <1>14 DEF IInv, Control

-----------------------------------------------------------------------------
(* The functors *)

\* Functor op of connection c is called: no other handler is at work, and what
\* is left does not hold the functor again.
LEMMA FunctorKeeps ==
    ASSUME IInv, NEW op, NEW c \in Conns, Functor(op, c)
    PROVE  /\ Running /\ Control /\ TypeInv /\ Pointers /\ phase = "functors"
           /\ UNCHANGED <<active, todo, truncated, spurious>>
           /\ active = <<>> /\ todo = <<>> /\ DOMAIN active = {} /\ DOMAIN todo = {}
           /\ [op |-> op, c |-> c] \in Range(batch)
           /\ [op |-> op, c |-> c] \notin Range(queue) \cup Range(batch')
           /\ batch' \in Seq(FunctorCalls) /\ Distinct(batch')
           /\ Range(batch') = Range(batch) \ {[op |-> op, c |-> c]}
<1>1. /\ phase = "functors" /\ batch # <<>> /\ Head(batch) = [op |-> op, c |-> c]
      /\ batch' = Tail(batch) /\ UNCHANGED <<active, todo, truncated, spurious>>
  BY DEF Functor
<1>2. Running /\ Control /\ TypeInv /\ Pointers
  BY <1>1 DEF IInv, Running
<1>3. active = <<>> /\ todo = <<>>
  BY <1>1, <1>2 DEF Control, PhaseInv
<1>4. batch \in Seq(FunctorCalls) /\ Distinct(batch)
  BY <1>2 DEF TypeInv, Control, WorkInv
<1>5. /\ Tail(batch) \in Seq(FunctorCalls) /\ Head(batch) \in Range(batch)
      /\ Distinct(Tail(batch)) /\ Range(Tail(batch)) = Range(batch) \ {Head(batch)}
  BY <1>1, <1>4, TailOf, TailDistinct
<1>6. Head(batch) \notin Range(queue)
  BY <1>2, <1>5 DEF Control, WorkInv
<1> QED
  BY <1>1, <1>2, <1>3, <1>5, <1>6

LEMMA ConnectKeeps == ASSUME NEW c \in Conns PROVE IInv /\ Connect(c) => IInv'
<1> SUFFICES ASSUME IInv, Connect(c) PROVE IInv'
  OBVIOUS
<1>1. /\ Running /\ Control /\ TypeInv /\ Pointers /\ phase = "functors"
      /\ UNCHANGED <<active, todo, truncated, spurious>>
      /\ active = <<>> /\ todo = <<>> /\ DOMAIN active = {} /\ DOMAIN todo = {}
      /\ [op |-> "connect", c |-> c] \in Range(batch)
      /\ [op |-> "connect", c |-> c] \notin Range(queue) \cup Range(batch')
      /\ batch' \in Seq(FunctorCalls) /\ Distinct(batch')
      /\ Range(batch') = Range(batch) \ {[op |-> "connect", c |-> c]}
  BY FunctorKeeps DEF Connect
<1>2. conn[c].state = "requested"
  BY <1>1 DEF Control, WorkInv
<1> DEFINE new(f) == [Unconnected EXCEPT !.fd = f]
           connected(f) == [new(f) EXCEPT !.state = "connected", !.sock = "up",
                                          !.immediate = TRUE]
           connecting(f) == [new(f) EXCEPT !.state = "connecting",
                                           !.sock = "pending", !.events = {"out"}]
<1>3. PICK f \in Fds :
         /\ IsLeast(f, FreeFds(c))
         /\ \/ \E d \in connections_ : conn[d].fd = f
            \/ \E r \in React(connected(f), "connected")
                         \cup {AddressLost(connected(f)), connecting(f)} :
                  Becomes(c, r, connections_ \cup {c})
  BY DEF Connect
\* socket() returns a descriptor that no connection of the map has.
<1>4. ~ \E d \in connections_ : conn[d].fd = f
  <2>1. \A d \in Alive \ {c} : conn[d].fd # f
    BY <1>3 DEF IsLeast, FreeFds
  <2>2. connections_ \subseteq Alive \ {c}
    BY <1>1, <1>2 DEF Control, MapInv, InState, Alive
  <2> QED
    BY <2>1, <2>2
<1>5. PICK r \in React(connected(f), "connected")
                \cup {AddressLost(connected(f)), connecting(f)} :
         Becomes(c, r, connections_ \cup {c})
  BY <1>3, <1>4
<1>6. Good(r) /\ r.state \in Open \cup Ended /\ (r.state = "failed" => r.sock = "down")
      /\ (r.state = "spinning" => truncated)
  <2>1. CASE r = connecting(f)
    <3>1. IsConn(r) /\ SameSending(r, Unconnected) /\ SameReceiving(r, Unconnected)
          /\ r.state = "connecting"
      BY <2>1 DEF IsConn, Unconnected, SameSending, SameReceiving
    <3> QED
      BY <3>1, FreshIsGood DEF Open, Ended
  <2>2. CASE r \in React(connected(f), "connected") \cup {AddressLost(connected(f))}
    <3> DEFINE v == connected(f)
    <3>1. IsConn(v) /\ SameSending(v, Unconnected) /\ SameReceiving(v, Unconnected)
          /\ v.state = "connected" /\ v.sock = "up"
      BY DEF IsConn, Unconnected, SameSending, SameReceiving
    <3> HIDE DEF v
    <3>2. Good(v)
      BY <3>1, FreshIsGood
    <3>3. r \in React(v, "connected") \/ r = AddressLost(v)
      BY <2>2 DEF v
    <3>4. CASE r \in React(v, "connected")
      <4>1. Handled(v, r)
        BY <3>2, <3>4, ReactKeeps
      <4> QED
        BY <3>1, <4>1 DEF Handled, Moves, Open, Ended
    <3>5. CASE r = AddressLost(v)
      BY <3>2, <3>5, AddressLostKeeps DEF Open, Ended
    <3> QED
      BY <3>3, <3>4, <3>5
  <2> QED
    BY <1>5, <2>1, <2>2
<1> HIDE DEF connected, connecting, new
<1>7. Follows(c, r, connections_ \cup {c})
  BY <1>2, <1>6 DEF Follows
<1>8. Left(batch', c)
  <2>1. \A w \in Range(batch) : w.c # c => w \in Range(batch')
    BY <1>1
  <2>2. [op |-> "destroy", c |-> c] # [op |-> "connect", c |-> c]
    OBVIOUS
  <2> QED
    BY <1>1, <2>1, <2>2 DEF Left
<1>9. /\ TypeInv' /\ (\A d \in Conns : Good(conn'[d])) /\ Pointers' /\ AssertionsHold'
      /\ Running' => MapInv' /\ WorkInv' /\ phase' = phase
  <2>1. todo' \in Seq(HandlerCalls) /\ Range(todo') \subseteq Range(todo)
    BY <1>1 DEF TypeInv
  <2> QED
    BY <1>1, <1>5, <1>7, <1>8, <2>1, BecomesKeeps
<1>10. Running' => Control'
  BY <1>1, <1>9 DEF Control, PhaseInv, ActiveInv, TodoInv
<1> QED
  BY <1>9, <1>10 DEF IInv

LEMMA ConnectFailsKeeps == ASSUME NEW c \in Conns PROVE IInv /\ ConnectFails(c) => IInv'
<1> SUFFICES ASSUME IInv, ConnectFails(c) PROVE IInv'
  OBVIOUS
<1>1. /\ Running /\ Control /\ TypeInv /\ Pointers /\ phase = "functors"
      /\ UNCHANGED <<active, todo, truncated, spurious>>
      /\ active = <<>> /\ todo = <<>> /\ DOMAIN active = {} /\ DOMAIN todo = {}
      /\ [op |-> "connect", c |-> c] \in Range(batch)
      /\ [op |-> "connect", c |-> c] \notin Range(queue) \cup Range(batch')
      /\ batch' \in Seq(FunctorCalls) /\ Distinct(batch')
      /\ Range(batch') = Range(batch) \ {[op |-> "connect", c |-> c]}
  BY FunctorKeeps DEF ConnectFails
<1>2. conn' = [conn EXCEPT ![c].state = "freed"]
      /\ UNCHANGED <<phase, queue, wake, channels_, connections_>>
  BY DEF ConnectFails
<1>3. conn[c].state = "requested" /\ Good(conn[c])
  BY <1>1 DEF Control, WorkInv, IInv
<1>4. conn'[c] = [conn[c] EXCEPT !.state = "freed"] /\ DOMAIN conn' = Conns
      /\ \A d \in Conns : d # c => conn'[d] = conn[d]
  BY <1>1, <1>2 DEF TypeInv
<1>5. Good(conn'[c]) /\ conn'[c].state = "freed"
  <2>1. IsConn(conn'[c]) /\ SameSending(conn'[c], conn[c]) /\ SameReceiving(conn'[c], conn[c])
        /\ conn'[c].sock = conn[c].sock /\ conn'[c].state = "freed"
    BY <1>3, <1>4 DEF Good, IsConn, Unconnected, SameSending, SameReceiving
  <2> QED
    BY <1>3, <2>1, SendingCopied, ReceivingCopied DEF Good
<1>6. c \notin channels_ /\ c \notin connections_
  BY <1>1, <1>3 DEF Control, MapInv, InState, Open
<1>7. ASSUME NEW w \in Range(queue) \cup Range(batch')
      PROVE  w.c \in Conns /\ w.c # c /\ w \in Range(queue) \cup Range(batch)
  <2>1. w \in FunctorCalls /\ w \in Range(queue) \cup Range(batch)
    BY <1>1, RangeIsIn DEF TypeInv
  <2>2. w.c \in Conns /\ (w = [op |-> "connect", c |-> w.c] \/ w.op = "destroy")
    BY <2>1 DEF FunctorCalls
  <2>3. CASE w = [op |-> "connect", c |-> w.c]
    BY <1>1, <2>1, <2>2, <2>3
  <2>4. CASE w.op = "destroy"
    BY <1>1, <1>3, <2>1, <2>2, <2>4 DEF Control, WorkInv
  <2> QED
    BY <2>2, <2>3, <2>4
<1>8. TypeInv' /\ \A d \in Conns : Good(conn'[d])
  BY <1>1, <1>2, <1>4, <1>5 DEF IInv, TypeInv
<1>9. Pointers'
  <2>1. \A d \in Alive : d # c => d \in Alive'
    BY <1>4 DEF Alive
  <2>2. \A w \in Range(queue) \cup Range(batch') : w.c \in Alive'
    BY <1>1, <1>7, <2>1 DEF Pointers
  <2>3. Range(todo') = {}
    BY <1>1 DEF Range
  <2> QED
    BY <1>1, <1>2, <1>6, <2>1, <2>2, <2>3 DEF Pointers
<1>10. AssertionsHold'
  BY <1>1, <1>2 DEF AssertionsHold, Running
<1>11. MapInv'
  BY <1>1, <1>2, <1>3, <1>4, <1>5, <1>6 DEF Control, MapInv, InState, Open, Ended, TypeInv
<1>12. WorkInv'
  <2>1. Distinct(queue') /\ Distinct(batch') /\ Range(queue') \cap Range(batch') = {}
    BY <1>1, <1>2 DEF Control, WorkInv
  <2>2. ASSUME NEW w \in Range(queue') \cup Range(batch')
        PROVE  /\ w.op = "connect" => conn'[w.c].state = "requested"
               /\ w.op = "destroy" => w.c \in channels_' /\ conn'[w.c].state = "disconnected"
    BY <1>1, <1>2, <1>4, <1>7 DEF Control, WorkInv
  <2>3. ASSUME NEW d \in channels_', conn'[d].state = "disconnected"
        PROVE  [op |-> "destroy", c |-> d] \in Range(queue') \cup Range(batch')
    <3>1. d \in channels_ /\ d \in Conns /\ d # c
      BY <1>1, <1>2, <1>6 DEF TypeInv
    <3>2. [op |-> "destroy", c |-> d] \in Range(queue) \cup Range(batch)
      BY <1>1, <1>4, <2>3, <3>1 DEF Control, WorkInv
    <3>3. [op |-> "destroy", c |-> d] # [op |-> "connect", c |-> c]
      OBVIOUS
    <3> QED
      BY <1>1, <1>2, <3>2, <3>3
  <2> QED
    BY <2>1, <2>2, <2>3 DEF WorkInv
<1>13. PhaseInv' /\ ActiveInv' /\ TodoInv'
  BY <1>1, <1>2 DEF PhaseInv, ActiveInv, TodoInv
<1> QED
  BY <1>8, <1>9, <1>10, <1>11, <1>12, <1>13 DEF IInv, Control

LEMMA ConnectEndsKeeps == ASSUME NEW c \in Conns PROVE IInv /\ ConnectEnds(c) => IInv'
<1> SUFFICES ASSUME IInv, ConnectEnds(c) PROVE IInv'
  OBVIOUS
<1>1. /\ TypeInv /\ Pointers /\ UNCHANGED <<active, todo, truncated, spurious>>
      /\ batch' \in Seq(FunctorCalls) /\ Range(batch') \subseteq Range(batch)
  BY FunctorKeeps DEF ConnectEnds
<1>2. phase' \in {"noSocket", "badAddress"}
      /\ UNCHANGED <<queue, wake, channels_, connections_, conn>>
  BY DEF ConnectEnds
<1>3. TypeInv' /\ \A d \in Conns : Good(conn'[d])
  BY <1>1, <1>2 DEF IInv, TypeInv
<1>4. Pointers'
  BY <1>1, <1>2 DEF Pointers, Alive
<1>5. AssertionsHold' /\ ~Running'
  BY <1>2 DEF AssertionsHold, Running
<1> QED
  BY <1>3, <1>4, <1>5 DEF IInv

LEMMA DestroyKeeps == ASSUME NEW c \in Conns PROVE IInv /\ Destroy(c) => IInv'
<1> SUFFICES ASSUME IInv, Destroy(c) PROVE IInv'
  OBVIOUS
<1>1. /\ Running /\ Control /\ TypeInv /\ Pointers /\ phase = "functors"
      /\ UNCHANGED <<active, todo, truncated, spurious>>
      /\ active = <<>> /\ todo = <<>> /\ DOMAIN active = {} /\ DOMAIN todo = {}
      /\ [op |-> "destroy", c |-> c] \in Range(batch)
      /\ [op |-> "destroy", c |-> c] \notin Range(queue) \cup Range(batch')
      /\ batch' \in Seq(FunctorCalls) /\ Distinct(batch')
      /\ Range(batch') = Range(batch) \ {[op |-> "destroy", c |-> c]}
  BY FunctorKeeps DEF Destroy
<1>2. UNCHANGED <<queue, wake, connections_, conn>>
  BY DEF Destroy
<1>3. c \in channels_ /\ conn[c].state = "disconnected"
  BY <1>1 DEF Control, WorkInv
<1>4. \/ conn[c].sock = "down" /\ phase' = "failed" /\ UNCHANGED channels_
      \/ channels_' = channels_ \ {c} /\ UNCHANGED phase
  BY <1>3 DEF Destroy
<1>5. TypeInv' /\ \A d \in Conns : Good(conn'[d])
  BY <1>1, <1>2, <1>4 DEF IInv, TypeInv, Ended
<1>6. Pointers'
  BY <1>1, <1>2, <1>4 DEF Pointers, Alive
<1>7. AssertionsHold'
  BY <1>1, <1>2, <1>3, <1>4 DEF AssertionsHold, Running
<1>8. ASSUME Running' PROVE Control'
  <2>1. channels_' = channels_ \ {c} /\ UNCHANGED phase
    BY <1>4, <1>8 DEF Running
  <2>2. MapInv'
    BY <1>1, <1>2, <2>1 DEF Control, MapInv, InState
  <2>3. ASSUME NEW w \in Range(queue') \cup Range(batch')
        PROVE  /\ w.op = "connect" => conn'[w.c].state = "requested"
               /\ w.op = "destroy" => w.c \in channels_' /\ conn'[w.c].state = "disconnected"
    <3>1. w \in Range(queue) \cup Range(batch) /\ w \in FunctorCalls
          /\ w # [op |-> "destroy", c |-> c]
      BY <1>1, <1>2, RangeIsIn DEF TypeInv
    <3>2. w.op = "destroy" => w.c # c
      BY <3>1 DEF FunctorCalls
    <3> QED
      BY <1>1, <1>2, <2>1, <3>1, <3>2 DEF Control, WorkInv
  <2>4. ASSUME NEW d \in channels_', conn'[d].state = "disconnected"
        PROVE  [op |-> "destroy", c |-> d] \in Range(queue') \cup Range(batch')
    <3>1. d \in channels_ /\ d # c /\ [op |-> "destroy", c |-> d] \in Range(queue) \cup Range(batch)
      BY <1>1, <1>2, <2>1, <2>4 DEF Control, WorkInv
    <3> QED
      BY <1>1, <1>2, <3>1
  <2>5. WorkInv'
    BY <1>1, <1>2, <2>3, <2>4 DEF Control, WorkInv
  <2>6. PhaseInv' /\ ActiveInv' /\ TodoInv'
    BY <1>1, <2>1 DEF PhaseInv, ActiveInv, TodoInv
  <2> QED
    BY <2>2, <2>5, <2>6 DEF Control
<1> QED
  BY <1>5, <1>6, <1>7, <1>8 DEF IInv

-----------------------------------------------------------------------------
(* Other threads, the peers and the file *)

LEMMA ConnectToKeeps == ASSUME NEW c \in Conns PROVE IInv /\ ConnectTo(c) => IInv'
<1> SUFFICES ASSUME IInv, ConnectTo(c) PROVE IInv'
  OBVIOUS
<1> DEFINE call == [op |-> "connect", c |-> c]
<1>1. /\ Running /\ conn[c].state = "none"
      /\ conn' = [conn EXCEPT ![c].state = "requested"]
      /\ queue' = Append(queue, call)
      /\ UNCHANGED <<phase, active, todo, batch, channels_, connections_,
                     truncated, spurious>>
  BY DEF ConnectTo, IsLeast
<1>2. Control /\ TypeInv /\ Pointers /\ Good(conn[c])
  BY <1>1 DEF IInv
<1>3. conn'[c] = [conn[c] EXCEPT !.state = "requested"] /\ DOMAIN conn' = Conns
      /\ \A d \in Conns : d # c => conn'[d] = conn[d]
  BY <1>1, <1>2 DEF TypeInv
<1>4. Good(conn'[c]) /\ conn'[c].state = "requested"
  <2>1. IsConn(conn'[c]) /\ SameSending(conn'[c], conn[c]) /\ SameReceiving(conn'[c], conn[c])
        /\ conn'[c].sock = conn[c].sock /\ conn'[c].state = "requested"
    BY <1>2, <1>3 DEF Good, IsConn, Unconnected, SameSending, SameReceiving
  <2> QED
    BY <1>2, <2>1, SendingCopied, ReceivingCopied DEF Good
<1>5. c \notin Alive /\ c \notin channels_ /\ c \notin connections_ /\ c \notin DOMAIN active
      /\ \A w \in (Range(todo) \cup Range(queue)) \cup Range(batch) : w.c # c
  BY <1>1, <1>2 DEF Pointers, Alive, Control, MapInv, InState
<1>6. queue \in Seq(FunctorCalls) /\ Distinct(queue) /\ call \in FunctorCalls
      /\ call.c = c /\ call.op = "connect"
  BY <1>2 DEF TypeInv, Control, WorkInv, FunctorCalls
<1>7. call \notin Range(queue) \cup Range(batch)
  BY <1>5, <1>6
<1>8. queue' \in Seq(FunctorCalls) /\ Distinct(queue') /\ Range(queue') = Range(queue) \cup {call}
  BY <1>1, <1>6, <1>7, AppendOf
<1> HIDE DEF call
<1>9. TypeInv' /\ \A d \in Conns : Good(conn'[d])
  BY <1>1, <1>2, <1>3, <1>4, <1>8 DEF IInv, TypeInv
<1>10. Alive \cup {c} \subseteq Alive'
  BY <1>3, <1>4 DEF Alive
<1>11. Pointers'
  BY <1>1, <1>2, <1>6, <1>8, <1>10 DEF Pointers
<1>12. AssertionsHold'
  BY <1>1 DEF AssertionsHold, Running
<1>13. MapInv'
  <2>1. \A d \in Conns : d # c => conn'[d].state = conn[d].state
    BY <1>3
  <2> QED
    BY <1>1, <1>2, <1>4, <1>5, <2>1 DEF Control, MapInv, InState, Ended, Open, TypeInv
<1>14. WorkInv'
  <2>1. ASSUME NEW w \in Range(queue) \cup Range(batch)
        PROVE  w.c \in Conns /\ conn'[w.c] = conn[w.c]
    <3>1. w \in FunctorCalls /\ w.c # c
      BY <1>2, <1>5, RangeIsIn DEF TypeInv
    <3>2. w.c \in Conns
      BY <3>1 DEF FunctorCalls
    <3> QED
      BY <1>3, <3>1, <3>2
  <2>2. \A d \in channels_ : conn'[d] = conn[d]
    BY <1>2, <1>3, <1>5 DEF TypeInv
  <2>3. Distinct(queue') /\ Distinct(batch') /\ Range(queue') \cap Range(batch') = {}
    BY <1>1, <1>2, <1>7, <1>8 DEF Control, WorkInv
  <2>4. ASSUME NEW w \in Range(queue') \cup Range(batch')
        PROVE  /\ w.op = "connect" => conn'[w.c].state = "requested"
               /\ w.op = "destroy" => w.c \in channels_' /\ conn'[w.c].state = "disconnected"
    <3>1. CASE w = call
      BY <1>4, <1>6, <3>1
    <3>2. CASE w \in Range(queue) \cup Range(batch)
      BY <1>1, <1>2, <2>1, <3>2 DEF Control, WorkInv
    <3> QED
      BY <1>1, <1>8, <3>1, <3>2
  <2>5. ASSUME NEW d \in channels_', conn'[d].state = "disconnected"
        PROVE  [op |-> "destroy", c |-> d] \in Range(queue') \cup Range(batch')
    BY <1>1, <1>2, <1>8, <2>2, <2>5 DEF Control, WorkInv
  <2> QED
    BY <2>3, <2>4, <2>5 DEF WorkInv
<1>15. PhaseInv'
  BY <1>1, <1>2 DEF Control, PhaseInv
<1>16. ActiveInv'
  <2>1. \A d \in DOMAIN active : conn'[d] = conn[d]
    BY <1>2, <1>3, <1>5 DEF Control, ActiveInv, TypeInv
  <2> QED
    BY <1>1, <1>2, <2>1 DEF Control, ActiveInv
<1>17. TodoInv'
  <2>1. \A i \in DOMAIN todo : conn'[todo[i].c] = conn[todo[i].c]
    BY <1>2, <1>3, <1>5 DEF Control, TodoInv, TypeInv
  <2> QED
    BY <1>1, <1>2, <2>1 DEF Control, TodoInv
<1> QED
  BY <1>9, <1>11, <1>12, <1>13, <1>14, <1>15, <1>16, <1>17 DEF IInv, Control

\* A peer changes a socket, and takes back no input that epoll has reported.
LEMMA PeerDoesKeeps ==
    ASSUME IInv, NEW c \in Conns, NEW r, PeerDoes(c, r), Good(r),
           r.state = conn[c].state, HasInput(conn[c]) => HasInput(r)
    PROVE  IInv'
<1>1. /\ Running /\ conn' = [conn EXCEPT ![c] = r]
      /\ UNCHANGED <<phase, active, todo, queue, batch, wake, channels_,
                     connections_, truncated, spurious>>
  BY DEF PeerDoes
<1>2. Control /\ TypeInv /\ Pointers
  BY <1>1 DEF IInv
<1>3. /\ DOMAIN conn' = Conns /\ conn'[c] = r
      /\ \A d \in Conns : conn'[d] = IF d = c THEN r ELSE conn[d]
  BY <1>1, <1>2 DEF TypeInv
<1>4. \A d \in Conns : conn'[d].state = conn[d].state
  BY <1>3
<1>5. \A d \in Conns : HasInput(conn[d]) => HasInput(conn'[d])
  BY <1>3
<1>6. TypeInv' /\ \A d \in Conns : Good(conn'[d])
  BY <1>1, <1>2, <1>3 DEF IInv, TypeInv
<1>7. Pointers'
  <2>1. Alive' = Alive
    BY <1>4 DEF Alive
  <2> QED
    BY <1>1, <1>2, <2>1 DEF Pointers
<1>8. AssertionsHold'
  BY <1>1 DEF AssertionsHold, Running
<1>9. MapInv' /\ PhaseInv'
  BY <1>1, <1>2, <1>4 DEF Control, MapInv, InState, PhaseInv
<1>10. WorkInv'
  <2>1. ASSUME NEW w \in Range(queue) \cup Range(batch)
        PROVE  conn'[w.c].state = conn[w.c].state
    <3>1. w \in FunctorCalls
      BY <1>2, RangeIsIn DEF TypeInv
    <3> QED
      BY <1>4, <3>1 DEF FunctorCalls
  <2>2. \A d \in channels_ : conn'[d].state = conn[d].state
    BY <1>2, <1>4 DEF TypeInv
  <2> QED
    BY <1>1, <1>2, <2>1, <2>2 DEF Control, WorkInv
<1>11. ActiveInv'
  <2>1. DOMAIN active \subseteq Conns
    BY <1>2 DEF Control, ActiveInv, TypeInv
  <2> QED
    BY <1>1, <1>2, <1>5, <2>1 DEF Control, ActiveInv
<1>12. TodoInv'
  <2>1. \A i \in DOMAIN todo : todo[i].c \in Conns
    BY <1>2 DEF Control, TodoInv, TypeInv
  <2> QED
    BY <1>1, <1>2, <1>4, <1>5, <2>1 DEF Control, TodoInv
<1> QED
  BY <1>6, <1>7, <1>8, <1>9, <1>10, <1>11, <1>12 DEF IInv, Control

LEMMA EstablishKeeps == ASSUME NEW c \in Conns PROVE IInv /\ Establish(c) => IInv'
<1> SUFFICES ASSUME IInv, Establish(c) PROVE IInv'
  OBVIOUS
<1> DEFINE r == [conn[c] EXCEPT !.sock = "up"]
<1>1. conn[c].sock = "pending" /\ PeerDoes(c, r) /\ Good(conn[c])
  BY DEF Establish, IInv
<1>2. /\ IsConn(r) /\ SameSending(r, conn[c]) /\ SameReceiving(r, conn[c])
      /\ r.fin = conn[c].fin /\ r.state = conn[c].state /\ r.sock = "up"
  BY <1>1 DEF Good, IsConn, Unconnected, SameSending, SameReceiving
<1> HIDE DEF r
<1>3. Receiving(r)
  BY <1>1, <1>2 DEF Good, Receiving, SameReceiving
<1>4. Good(r) /\ (HasInput(conn[c]) => HasInput(r))
  BY <1>1, <1>2, <1>3, SendingCopied DEF Good, HasInput, SameReceiving
<1> QED
  BY <1>1, <1>2, <1>4, PeerDoesKeeps

LEMMA PeerSendsKeeps == ASSUME NEW c \in Conns PROVE IInv /\ PeerSends(c) => IInv'
<1> SUFFICES ASSUME IInv, PeerSends(c) PROVE IInv'
  OBVIOUS
<1> DEFINE q == conn[c]
           r == [q EXCEPT !.input = Append(@, q.sent + 1), !.sent = @ + 1]
<1>1. q.sock = "up" /\ q.sent < MaxInput /\ PeerDoes(c, r) /\ Good(q)
  BY DEF PeerSends, IInv
<1>2. /\ IsConn(r) /\ SameSending(r, q) /\ SameSocket(r, q) /\ r.state = q.state
      /\ r.rbuf = q.rbuf /\ r.got = q.got /\ r.sent = q.sent + 1
      /\ r.input = Append(q.input, q.sent + 1)
  BY <1>1 DEF Good, IsConn, Unconnected, SameSending, SameSocket
<1> HIDE DEF q, r
<1>3. /\ IsBuffer(q.rbuf) /\ q.input \in Seq(Int) /\ q.rbuf.read <= q.got
      /\ Numbered(Content(q.rbuf), q.got)
      /\ Numbered(q.input, q.got + BytesToRead(q.rbuf))
  BY <1>1 DEF Good, Receiving
<1>4. q.sent \in 0 .. MaxInput /\ q.got \in Nat
      /\ q.got + BytesToRead(q.rbuf) + Len(q.input) = q.sent
  BY <1>1 DEF Good, Receiving
<1>5. BytesToRead(q.rbuf) \in Nat /\ Len(q.input) \in Nat
  BY <1>3, ContentIs
<1>6. q.sent + 1 \in 0 .. MaxInput /\ q.sent + 1 \in Int
  BY <1>1, <1>4, ClientAssumption
<1>7. /\ r.input \in Seq(Int) /\ Len(r.input) = Len(q.input) + 1
      /\ r.input[Len(q.input) + 1] = q.sent + 1
      /\ \A k \in 1 .. Len(q.input) : r.input[k] = q.input[k]
  BY <1>2, <1>3, <1>6, AppendProperties
<1>8. ASSUME NEW k \in 1 .. Len(r.input)
      PROVE  r.input[k] = (q.got + BytesToRead(q.rbuf)) + k
  <2>1. CASE k = Len(q.input) + 1
    <3>1. r.input[k] = q.sent + 1
      BY <1>7, <2>1
    <3> QED
      BY <1>4, <1>5, <2>1, <3>1
  <2>2. CASE k # Len(q.input) + 1
    <3>1. Len(r.input) = Len(q.input) + 1
      BY <1>7
    <3>2. k \in 1 .. Len(q.input)
      BY <1>5, <2>2, <3>1
    <3> QED
      BY <1>3, <1>7, <3>2 DEF Numbered
  <2> QED
    BY <2>1, <2>2
<1>9. Numbered(r.input, r.got + BytesToRead(r.rbuf))
  BY <1>2, <1>8 DEF Numbered
<1>10. (r.got + BytesToRead(r.rbuf)) + Len(r.input) = r.sent
  <2>1. Len(r.input) = Len(q.input) + 1
    BY <1>7
  <2> QED
    BY <1>2, <1>4, <1>5, <2>1
<1>11. Receiving(r)
  <2>1. r.input \in Seq(Int)
    BY <1>7
  <2>2. r.sent \in 0 .. MaxInput /\ r.sent \in Nat
    BY <1>2, <1>4, <1>6
  <2> QED
    BY <1>2, <1>3, <1>4, <1>9, <1>10, <2>1, <2>2 DEF Receiving
<1>12. HasInput(r)
  <2>1. r.input # <<>>
    <3>1. Len(r.input) # 0
      BY <1>5, <1>7
    <3> QED
      BY <3>1
  <2> QED
    BY <2>1 DEF HasInput
<1>13. Good(r)
  BY <1>1, <1>2, <1>11, SendingCopied DEF Good
<1>14. PeerDoes(c, r) /\ r.state = conn[c].state
  BY <1>1, <1>2 DEF q
<1> QED
  BY <1>12, <1>13, <1>14, PeerDoesKeeps

LEMMA PeerClosesKeeps == ASSUME NEW c \in Conns PROVE IInv /\ PeerCloses(c) => IInv'
<1> SUFFICES ASSUME IInv, PeerCloses(c) PROVE IInv'
  OBVIOUS
<1> DEFINE r == [conn[c] EXCEPT !.fin = TRUE]
<1>1. PeerDoes(c, r) /\ Good(conn[c])
  BY DEF PeerCloses, IInv
<1>2. /\ IsConn(r) /\ SameSending(r, conn[c]) /\ SameReceiving(r, conn[c])
      /\ r.fin = TRUE /\ r.state = conn[c].state /\ r.sock = conn[c].sock
  BY <1>1 DEF Good, IsConn, Unconnected, SameSending, SameReceiving
<1> HIDE DEF r
<1>3. Good(r) /\ HasInput(r)
  BY <1>1, <1>2, SendingCopied, ReceivingCopied DEF Good, HasInput
<1> QED
  BY <1>1, <1>2, <1>3, PeerDoesKeeps

LEMMA PeerRefusesKeeps == ASSUME NEW c \in Conns PROVE IInv /\ PeerRefuses(c) => IInv'
<1> SUFFICES ASSUME IInv, PeerRefuses(c) PROVE IInv'
  OBVIOUS
<1> DEFINE q == conn[c]
           r == [q EXCEPT !.sock = "down", !.input = <<>>]
<1>1. PeerDoes(c, r) /\ Good(q)
  BY DEF PeerRefuses, IInv
<1>2. /\ IsConn(r) /\ SameSending(r, q) /\ r.sock = "down" /\ r.state = q.state
      /\ r.rbuf = q.rbuf /\ r.got = q.got /\ r.sent = q.sent /\ r.input = <<>>
  BY <1>1 DEF Good, IsConn, Unconnected, SameSending
<1> HIDE DEF q, r
<1>3. Good(r) /\ HasInput(r)
  BY <1>1, <1>2, ResetKeeps DEF HasInput
<1>4. PeerDoes(c, r) /\ r.state = conn[c].state
  BY <1>1, <1>2 DEF q
<1> QED
  BY <1>3, <1>4, PeerDoesKeeps

LEMMA TruncateKeeps == IInv /\ Truncate => IInv'
<1> SUFFICES ASSUME IInv, Truncate PROVE IInv'
  OBVIOUS
<1>1. /\ Running
      /\ UNCHANGED <<phase, active, todo, queue, batch, wake, channels_,
                     connections_, conn, spurious>>
  BY DEF Truncate
<1>2. Control /\ TypeInv /\ Pointers
  BY <1>1 DEF IInv
<1>3. TypeInv' /\ (\A d \in Conns : Good(conn'[d])) /\ Pointers' /\ AssertionsHold'
  BY <1>1 DEF IInv, TypeInv, Pointers, Alive, AssertionsHold, Running
<1>4. Control'
  BY <1>1, <1>2
  DEF Control, MapInv, InState, PhaseInv, WorkInv, ActiveInv, TodoInv
<1> QED
  BY <1>3, <1>4 DEF IInv

-----------------------------------------------------------------------------
(* The theorems *)

LEMMA NextIInv == IInv /\ [Next]_vars => IInv'
<1> SUFFICES ASSUME IInv, [Next]_vars PROVE IInv'
  OBVIOUS
<1>1. CASE LoopStep
  BY <1>1, HandleEventsKeeps, RunHandlerKeeps, SwapFunctorsKeeps, EndFunctorsKeeps,
     EndIterationKeeps, ConnectKeeps, ConnectFailsKeeps, ConnectEndsKeeps,
     DestroyKeeps DEF LoopStep
<1>2. CASE PollReturns
  <2>1. PICK writable \in SUBSET channels_, phantom \in SUBSET channels_ :
           Poll(writable, phantom)
    BY <1>2 DEF PollReturns
  <2> QED
    BY <2>1, PollKeeps
<1>3. CASE Environment
  BY <1>3, TruncateKeeps, ConnectToKeeps, TimerFiresKeeps, EstablishKeeps,
     PeerSendsKeeps, PeerClosesKeeps, PeerRefusesKeeps DEF Environment
<1>4. CASE UNCHANGED vars
  <2>1. UNCHANGED <<phase, active, todo, queue, batch, wake, channels_, connections_,
                    conn, truncated, spurious>>
    BY <1>4 DEF vars
  <2> QED
    BY <2>1
    DEF IInv, TypeInv, Pointers, Alive, AssertionsHold, Running, Control, MapInv,
        InState, PhaseInv, WorkInv, ActiveInv, TodoInv
<1> QED
  BY <1>1, <1>2, <1>3, <1>4 DEF Next

\* The inductive invariant of the client: its calls are queued once, its map
\* holds the open connections, and each connection's numbers and buffers agree.
THEOREM Safety == Spec => []IInv
  BY InitIInv, NextIInv, PTL DEF Spec

\* No channel, handler or functor the loop still knows belongs to a connection
\* that was deleted (TcpClient::OnCloseConnection keeps it until Destroy).
THEOREM NothingDangles == Spec => []NoDanglingPointers
<1>1. IInv => NoDanglingPointers
  <2> SUFFICES ASSUME IInv PROVE NoDanglingPointers
    OBVIOUS
  <2>1. TypeInv /\ Pointers
    BY DEF IInv
  <2> DEFINE calls == [op : {"connected", "write", "read", "connect", "destroy"}, c : Conns]
  <2>2. todo \in Seq(calls) /\ queue \in Seq(calls) /\ batch \in Seq(calls)
    <3>1. HandlerCalls \subseteq calls /\ FunctorCalls \subseteq calls
      BY DEF HandlerCalls, FunctorCalls
    <3> HIDE DEF calls
    <3> QED
      BY <2>1, <3>1, SeqOfMore DEF TypeInv
  <2> HIDE DEF calls
  <2>3. todo \o queue \in Seq(calls)
    BY <2>2, ConcatProperties
  <2>4. Range((todo \o queue) \o batch) = (Range(todo) \cup Range(queue)) \cup Range(batch)
    <3>1. Range(todo \o queue) = Range(todo) \cup Range(queue)
      BY <2>2, RangeConcatenation
    <3>2. Range((todo \o queue) \o batch) = Range(todo \o queue) \cup Range(batch)
      <4> DEFINE s == todo \o queue
      <4>1. s \in Seq(calls) /\ batch \in Seq(calls)
        BY <2>2, <2>3
      <4> HIDE DEF s
      <4>2. Range(s \o batch) = Range(s) \cup Range(batch)
        BY <4>1, RangeConcatenation
      <4> QED
        BY <4>2 DEF s
    <3> QED
      BY <3>1, <3>2
  <2> QED
    BY <2>1, <2>4 DEF NoDanglingPointers, Pointers
<1> QED
  BY <1>1, Safety, PTL

\* The assertions and PCHECKs of Connector, TcpConnection and Buffer end the
\* process for the five reasons AssertionsHold names, and for no other.
THEOREM KnownEnds == Spec => []AssertionsHold
<1>1. IInv => AssertionsHold
  BY DEF IInv
<1> QED
  BY <1>1, Safety, PTL

\* Each connection sends the bytes of Write in order, the file where it was
\* put unless a write that would block lets it pass (HandleWriteToPeer).
THEOREM SendsInOrder == Spec => []SentInOrder
<1>1. IInv => SentInOrder
  <2> SUFFICES ASSUME IInv, NEW c \in Alive
               PROVE  LET r == conn[c]
                          unsent == BytesToRead(r.wbuf)
                      IN  /\ Content(r.wbuf) = [k \in 1 .. unsent |-> r.written - unsent + k]
                          /\ \E file \in 0 .. r.filed :
                                /\ Range(r.wire) = (1 .. r.written - unsent) \cup (-file .. -1)
                                /\ r.done => unsent = 0 /\ file = r.filed
                          /\ \A i, j \in DOMAIN r.wire :
                                i < j =>
                                   /\ r.wire[i] > 0 /\ r.wire[j] > 0 => r.wire[i] < r.wire[j]
                                   /\ r.wire[i] < 0 /\ r.wire[j] < 0 => r.wire[i] > r.wire[j]
                                   /\ r.wire[i] < 0 /\ r.wire[j] \in 1 .. r.mark => r.overtaken
    BY DEF SentInOrder
  <2> DEFINE r == conn[c]
             unsent == BytesToRead(r.wbuf)
  <2>1. Sending(r)
    BY DEF IInv, Alive, Good
  <2> HIDE DEF r
  <2>2. /\ Content(r.wbuf) \in Seq(Int) /\ Len(Content(r.wbuf)) = unsent
        /\ Numbered(Content(r.wbuf), Sent(r)) /\ Sent(r) \in Int
    BY <2>1, ContentIs DEF Sending, Counts, Unsent
  <2>3. Content(r.wbuf) = [k \in 1 .. unsent |-> Sent(r) + k]
    BY <2>2, NumberedIs
  <2>4. FileSent(r) \in 0 .. r.filed
    BY <2>1, ClientAssumption DEF Sending, Counts, FileSent
  <2>5. Range(r.wire) = (1 .. Sent(r)) \cup (-FileSent(r) .. -1)
    BY <2>1 DEF Sending, Wired
  <2>6. r.done => unsent = 0 /\ FileSent(r) = r.filed
    BY <2>1 DEF Sending, DoneInv, FileSent
  <2>7. \A i, j \in DOMAIN r.wire : i < j => InTurn(r.wire[i], r.wire[j], r.mark, r.overtaken)
    BY <2>1 DEF Sending, Wired, Ordered
  <2>8. Sent(r) = r.written - unsent
    BY DEF Sent
  <2> HIDE DEF unsent
  <2>9. Content(r.wbuf) = [k \in 1 .. unsent |-> r.written - unsent + k]
    BY <2>3, <2>8
  <2>10. \E file \in 0 .. r.filed :
            /\ Range(r.wire) = (1 .. r.written - unsent) \cup (-file .. -1)
            /\ r.done => unsent = 0 /\ file = r.filed
    BY <2>4, <2>5, <2>6, <2>8
  <2>11. \A i, j \in DOMAIN r.wire :
            i < j =>
               /\ r.wire[i] > 0 /\ r.wire[j] > 0 => r.wire[i] < r.wire[j]
               /\ r.wire[i] < 0 /\ r.wire[j] < 0 => r.wire[i] > r.wire[j]
               /\ r.wire[i] < 0 /\ r.wire[j] \in 1 .. r.mark => r.overtaken
    BY <2>7 DEF InTurn
  <2> QED
    BY <2>9, <2>10, <2>11 DEF r, unsent
<1> QED
  BY <1>1, Safety, PTL

\* Each connection's reader is given what its peer has sent, in order and once
\* (HandleReadFromPeer, Buffer::ReadFrom).
THEOREM ReceivesInOrder == Spec => []ReceivedInOrder
<1>1. IInv => ReceivedInOrder
  <2> SUFFICES ASSUME IInv, NEW c \in Alive, conn[c].sock # "down"
               PROVE  Content(conn[c].rbuf) \o conn[c].input
                         = [i \in 1 .. conn[c].sent - conn[c].got |-> conn[c].got + i]
    BY DEF ReceivedInOrder
  <2> DEFINE r == conn[c]
             t == Content(r.rbuf) \o r.input
  <2>1. Receiving(r) /\ r.sock # "down"
    BY DEF IInv, Alive, Good
  <2> HIDE DEF r
  <2>2. /\ Content(r.rbuf) \in Seq(Int) /\ Len(Content(r.rbuf)) = BytesToRead(r.rbuf)
        /\ BytesToRead(r.rbuf) \in Nat
    BY <2>1, ContentIs DEF Receiving
  <2>3. /\ r.input \in Seq(Int) /\ Numbered(Content(r.rbuf), r.got)
        /\ Numbered(r.input, r.got + BytesToRead(r.rbuf))
    BY <2>1 DEF Receiving
  <2>4. /\ r.got \in Int /\ r.got + BytesToRead(r.rbuf) + Len(r.input) = r.sent
    BY <2>1 DEF Receiving
  <2>5. t \in Seq(Int) /\ Len(t) = BytesToRead(r.rbuf) + Len(r.input) /\ Len(r.input) \in Nat
    <3> DEFINE a == Content(r.rbuf)
               b == r.input
    <3>1. a \in Seq(Int) /\ b \in Seq(Int) /\ Len(a) = BytesToRead(r.rbuf)
      BY <2>2, <2>3
    <3>2. t = a \o b
      OBVIOUS
    <3> HIDE DEF a, b, t
    <3>3. t \in Seq(Int) /\ Len(t) = Len(a) + Len(b) /\ Len(b) \in Nat
      BY <3>1, <3>2, ConcatInt
    <3> QED
      BY <3>1, <3>3 DEF b
  <2>6. Numbered(t, r.got)
    <3>1. Numbered(r.input, r.got + Len(Content(r.rbuf)))
      BY <2>2, <2>3
    <3> QED
      BY <2>2, <2>3, <2>4, <3>1, NumberedConcat
  <2> HIDE DEF t
  <2>7. t = [i \in 1 .. Len(t) |-> r.got + i]
    BY <2>4, <2>5, <2>6, NumberedIs
  <2>8. Len(t) = r.sent - r.got
    BY <2>2, <2>4, <2>5
  <2> QED
    BY <2>7, <2>8 DEF t, r
<1> QED
  BY <1>1, Safety, PTL

=============================================================================
