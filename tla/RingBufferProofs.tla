-------------------------- MODULE RingBufferProofs --------------------------
(***************************************************************************)
(* Theorems about RingBuffer, for a ring, a header, messages and a size of   *)
(* any width and any number of pushes: the types, the size, and that what is *)
(* popped is what was pushed.                                               *)
(***************************************************************************)
EXTENDS RingBuffer, SequenceTheorems, TLAPS

-----------------------------------------------------------------------------
(* Division *)

\* A positive multiple of r is at least r.
LEMMA MultAtLeast ==
    ASSUME NEW r \in Nat \ {0}, NEW z \in Int, z >= 1
    PROVE  r * z >= r
  OBVIOUS

\* Every integer is a multiple of r and a remainder in 0 .. r - 1.
LEMMA DivMod ==
    ASSUME NEW r \in Nat \ {0}, NEW a \in Int
    PROVE  /\ a \div r \in Int
           /\ a % r \in 0 .. r - 1
           /\ a = r * (a \div r) + (a % r)
  OBVIOUS

\* The remainder is the only number in 0 .. r - 1 that differs from a by a
\* multiple of r.
LEMMA RemainderIsUnique ==
    ASSUME NEW r \in Nat \ {0}, NEW a \in Int, NEW q \in Int, NEW m \in 0 .. r - 1,
           a = r * q + m
    PROVE  a % r = m
<1> DEFINE k == a \div r
<1>1. k \in Int /\ a % r \in 0 .. r - 1 /\ a = r * k + (a % r)
  BY DivMod
<1> HIDE DEF k
<1>2. r * (q - k) = r * q - r * k /\ r * (k - q) = r * k - r * q
  BY <1>1
<1>3. CASE q - k >= 1
  <2>1. r * (q - k) >= r
    BY <1>1, <1>3, MultAtLeast
  <2> QED
    BY <1>1, <1>2, <2>1
<1>4. CASE k - q >= 1
  <2>1. r * (k - q) >= r
    BY <1>1, <1>4, MultAtLeast
  <2> QED
    BY <1>1, <1>2, <2>1
<1>5. CASE q = k
  BY <1>1, <1>5
<1> QED
  BY <1>1, <1>3, <1>4, <1>5

\* A step up or down may be taken before or after the remainder.
LEMMA RemainderStep ==
    ASSUME NEW r \in Nat \ {0}, NEW n \in Int, NEW d \in {1, -1}
    PROVE  ((n % r) + d) % r = (n + d) % r
<1> DEFINE m == n % r
           k == n \div r
           b == (m + d) % r
           j == (m + d) \div r
<1>1. k \in Int /\ m \in 0 .. r - 1 /\ n = r * k + m
  BY DivMod
<1> HIDE DEF m, k
<1>2. j \in Int /\ b \in 0 .. r - 1 /\ m + d = r * j + b
  BY <1>1, DivMod
<1> HIDE DEF b, j
<1>3. n + d = r * (k + j) + b
  BY <1>1, <1>2
<1>4. (n + d) % r = b
  BY <1>1, <1>2, <1>3, RemainderIsUnique
<1> QED
  BY <1>4 DEF b, m

-----------------------------------------------------------------------------
(* Positions *)

\* Wrap takes what lies at most one length beyond the end into the ring.
LEMMA WrapInRing ==
    ASSUME NEW p \in 0 .. 2 * Capacity
    PROVE  Wrap(p) \in 0 .. Capacity
  BY CapacityAssumption DEF Wrap

\* Behind any record of an allowed length front is in the ring.
LEMMA FrontAfterInRing ==
    ASSUME NEW p \in 0 .. Capacity, NEW len \in Lengths
    PROVE  FrontAfter(p + HeaderLength, len) \in 0 .. Capacity
<1>1. /\ Capacity \in Nat /\ HeaderLength \in Nat /\ len \in Nat
      /\ HeaderLength + len <= Capacity
  BY CapacityAssumption, LengthsAssumption
<1>2. CASE p + HeaderLength > Capacity
  BY <1>1, <1>2 DEF FrontAfter
<1>3. CASE ~(p + HeaderLength > Capacity)
  <2>1. p + HeaderLength + len \in 0 .. 2 * Capacity
    BY <1>1
  <2>2. Wrap(p + HeaderLength + len) \in 0 .. Capacity
    BY <2>1, WrapInRing
  <2> QED
    BY <1>3, <2>2 DEF FrontAfter
<1> QED
  BY <1>2, <1>3

-----------------------------------------------------------------------------
(* Types *)

\* A step of the producer keeps the types.
LEMMA PushKeepsTypes ==
    ASSUME TypeOK, Push
    PROVE  TypeOK'
<1> USE CapacityAssumption, LengthsAssumption, MaxPushesAssumption
<1>1. CASE \E len \in Lengths : PushCopy(len)
  <2>1. PICK len \in Lengths : PushCopy(len)
    BY <1>1
  <2>2. len \in Nat /\ HeaderLength + len <= Capacity
    OBVIOUS
  <2>3. sent' \in Seq(Lengths) /\ Len(sent') = Len(sent) + 1 /\ Len(sent') <= MaxPushes
    BY <2>1 DEF PushCopy, TypeOK
  <2>4. mem' \in [Addresses -> (0 .. MaxPushes) \X (0 .. Capacity)]
    <3> DEFINE k(a) == (IF a >= back THEN a - back ELSE a - back + Capacity) + 1
               byte(a) == IF a \in Span(back, HeaderLength + len)
                          THEN <<Len(sent) + 1, k(a)>> ELSE mem[a]
    <3>1. Len(sent) + 1 \in 0 .. MaxPushes
      BY <2>3 DEF TypeOK
    <3>2. \A a \in Addresses : k(a) \in 0 .. Capacity
      <4>1. Addresses = 0 .. Capacity - 1 /\ Capacity \in Nat /\ back \in 0 .. Capacity
        BY DEF TypeOK, Addresses
      <4> QED
        BY <4>1
    <3>3. \A a \in Addresses : mem[a] \in (0 .. MaxPushes) \X (0 .. Capacity)
      BY DEF TypeOK
    <3>4. mem' = [a \in Addresses |-> byte(a)]
      BY <2>1 DEF PushCopy
    <3> HIDE DEF k
    <3>5. \A a \in Addresses : byte(a) \in (0 .. MaxPushes) \X (0 .. Capacity)
      BY <3>1, <3>2, <3>3
    <3> QED
      BY <3>4, <3>5
  <2>5. newBack' \in 0 .. Capacity
    <3>1. back + HeaderLength + len \in 0 .. 2 * Capacity
      BY <2>2 DEF TypeOK
    <3> QED
      BY <2>1, <3>1, WrapInRing DEF PushCopy
  <2>6. got' \in Seq(0 .. Len(sent')) /\ taken' \in 0 .. Len(sent')
    <3>1. 0 .. Len(sent) \subseteq 0 .. Len(sent')
      BY <2>3 DEF TypeOK
    <3>2. got \in Seq(0 .. Len(sent')) /\ taken \in 0 .. Len(sent')
      BY <3>1, SeqMonotonic DEF TypeOK
    <3> QED
      BY <2>1, <3>2 DEF PushCopy, consumerVars
  <2>7. sound' \in BOOLEAN
    BY <2>1 DEF PushCopy, TypeOK
  <2> QED
    BY <2>1, <2>3, <2>4, <2>5, <2>6, <2>7 DEF PushCopy, TypeOK, consumerVars
<1>2. CASE PushPublish
  BY <1>2 DEF PushPublish, TypeOK, consumerVars
<1>3. CASE PushLoadSize
  BY <1>3 DEF PushLoadSize, TypeOK, consumerVars
<1>4. CASE PushStoreSize
  <2>0. psize + 1 \in Int
    BY DEF TypeOK
  <2>1. (psize + 1) % SizeRange \in 0 .. SizeRange - 1
    BY <2>0, DivMod
  <2> QED
    BY <1>4, <2>1 DEF PushStoreSize, TypeOK, consumerVars
<1> QED
  BY <1>1, <1>2, <1>3, <1>4 DEF Push, FinishPush

\* A step of the consumer keeps the types.
LEMMA PopKeepsTypes ==
    ASSUME TypeOK, Pop
    PROVE  TypeOK'
<1> USE CapacityAssumption, LengthsAssumption, MaxPushesAssumption
<1>1. CASE PopCopy
  <2>1. PICK m \in 1 .. Len(sent) :
            /\ taken' \in {m, Garbled}
            /\ newFront' = FrontAfter(front + HeaderLength, sent[m])
    BY <1>1 DEF PopCopy
  <2>2. sent[m] \in Lengths
    BY <2>1 DEF TypeOK
  <2>3. newFront' \in 0 .. Capacity
    BY <2>1, <2>2, FrontAfterInRing DEF TypeOK
  <2>4. taken' \in 0 .. Len(sent)
    BY <2>1 DEF TypeOK, Garbled
  <2> QED
    BY <1>1, <2>3, <2>4 DEF PopCopy, TypeOK, producerVars
<1>2. CASE PopFails
  BY <1>2 DEF PopFails, TypeOK, producerVars
<1>3. CASE PopRelease
  BY <1>3 DEF PopRelease, TypeOK, producerVars
<1>4. CASE PopLoadSize
  BY <1>4 DEF PopLoadSize, TypeOK, producerVars
<1>5. CASE PopStoreSize
  <2>0. csize - 1 \in Int
    BY DEF TypeOK
  <2>1. (csize - 1) % SizeRange \in 0 .. SizeRange - 1
    BY <2>0, DivMod
  <2>2. got' \in Seq(0 .. Len(sent))
    BY <1>5 DEF PopStoreSize, TypeOK
  <2> QED
    BY <1>5, <2>1, <2>2 DEF PopStoreSize, TypeOK, producerVars
<1> QED
  BY <1>1, <1>2, <1>3, <1>4, <1>5 DEF Pop

\* The pointers of both processes stay within the ring, whatever is pushed.
THEOREM TypeCorrect == Spec => []TypeOK
<1>1. Init => TypeOK
  <2> SUFFICES ASSUME Init
               PROVE  TypeOK
    OBVIOUS
  <2> USE CapacityAssumption, MaxPushesAssumption
  <2>1. mem \in [Addresses -> (0 .. MaxPushes) \X (0 .. Capacity)]
    BY DEF Init, Blank
  <2>2. sent \in Seq(Lengths) /\ Len(sent) = 0 /\ got \in Seq(0 .. Len(sent))
    BY DEF Init
  <2> QED
    <3>1. {element_size, psize, csize} \subseteq 0 .. SizeRange - 1
      BY DEF Init
    <3>2. /\ front \in 0 .. Capacity /\ back \in 0 .. Capacity
          /\ newBack \in 0 .. Capacity /\ newFront \in 0 .. Capacity
      BY DEF Init
    <3>3. /\ ppc = "idle" /\ cpc = "idle" /\ taken = 0
          /\ sound \in BOOLEAN /\ overlapped \in BOOLEAN
      BY DEF Init, Garbled
    <3> QED
      BY <2>1, <2>2, <3>1, <3>2, <3>3 DEF TypeOK
<1>2. TypeOK /\ [Next]_vars => TypeOK'
  <2> SUFFICES ASSUME TypeOK, [Next]_vars
               PROVE  TypeOK'
    OBVIOUS
  <2>1. CASE UNCHANGED vars
    BY <2>1 DEF TypeOK, vars, producerVars, consumerVars
  <2> QED
    BY <2>1, PushKeepsTypes, PopKeepsTypes DEF Next
<1> QED
  BY <1>1, <1>2, PTL DEF Spec

-----------------------------------------------------------------------------
(* The size *)

\* The pushes whose element_size has been stored, and their difference to the
\* pops whose element_size has.
Counted == Len(sent) - (IF ppc = "idle" THEN 0 ELSE 1)
Difference == Counted - Len(got)

\* As long as no two updates have overlapped, at most one process is between its
\* load and its store, what it has loaded is current, and element_size is the
\* difference of the updates stored.
SizeInv ==
    ~overlapped =>
        /\ ~(ppc = "store" /\ cpc = "store")
        /\ ppc = "store" => psize = element_size
        /\ cpc = "store" => csize = element_size
        /\ element_size = Difference % SizeRange

\* A step of the producer keeps the size right.
LEMMA PushKeepsSize ==
    ASSUME TypeOK, SizeInv, Push
    PROVE  SizeInv'
<1> USE MaxPushesAssumption
<1>0. Len(sent) \in Nat /\ Len(got) \in Nat /\ Difference \in Int
  BY DEF TypeOK, Difference, Counted
<1>1. CASE \E len \in Lengths : PushCopy(len)
  <2>1. PICK len \in Lengths : PushCopy(len)
    BY <1>1
  <2>2. Len(sent') = Len(sent) + 1
    BY <2>1 DEF PushCopy, TypeOK
  <2>3. Difference' = Difference
    BY <1>0, <2>1, <2>2 DEF PushCopy, Difference, Counted, consumerVars
  <2> QED
    BY <2>1, <2>3 DEF PushCopy, SizeInv, consumerVars
<1>2. CASE PushPublish
  <2>1. Difference' = Difference
    BY <1>2 DEF PushPublish, Difference, Counted, consumerVars
  <2> QED
    BY <1>2, <2>1 DEF PushPublish, SizeInv, consumerVars
<1>3. CASE PushLoadSize
  <2>1. Difference' = Difference
    BY <1>3 DEF PushLoadSize, Difference, Counted, consumerVars
  <2> QED
    BY <1>3, <2>1 DEF PushLoadSize, SizeInv, consumerVars
<1>4. CASE PushStoreSize
  <2>1. Difference' = Difference + 1
    BY <1>0, <1>4 DEF PushStoreSize, Difference, Counted, consumerVars
  <2>2. ((Difference % SizeRange) + 1) % SizeRange = (Difference + 1) % SizeRange
    BY <1>0, RemainderStep
  <2> QED
    BY <1>4, <2>1, <2>2 DEF PushStoreSize, SizeInv, consumerVars
<1> QED
  BY <1>1, <1>2, <1>3, <1>4 DEF Push, FinishPush

\* A step of the consumer keeps the size right.
LEMMA PopKeepsSize ==
    ASSUME TypeOK, SizeInv, Pop
    PROVE  SizeInv'
<1> USE MaxPushesAssumption
<1>0. Len(sent) \in Nat /\ Len(got) \in Nat /\ Difference \in Int
  BY DEF TypeOK, Difference, Counted
<1>1. CASE PopCopy \/ PopFails \/ PopRelease \/ PopLoadSize
  <2>1. Difference' = Difference
    BY <1>1 DEF PopCopy, PopFails, PopRelease, PopLoadSize, Difference, Counted, producerVars
  <2>2. CASE PopLoadSize
    BY <2>1, <2>2 DEF PopLoadSize, SizeInv, producerVars
  <2>3. CASE PopCopy \/ PopFails \/ PopRelease
    BY <2>1, <2>3 DEF PopCopy, PopFails, PopRelease, SizeInv, producerVars
  <2> QED
    BY <1>1, <2>2, <2>3
<1>2. CASE PopStoreSize
  <2>1. Len(got') = Len(got) + 1
    BY <1>2 DEF PopStoreSize, TypeOK
  <2>2. Difference' = Difference - 1
    BY <1>0, <1>2, <2>1 DEF PopStoreSize, Difference, Counted, producerVars
  <2>3. ((Difference % SizeRange) + (-1)) % SizeRange = (Difference + (-1)) % SizeRange
    BY <1>0, RemainderStep
  <2>4. ((Difference % SizeRange) - 1) % SizeRange = (Difference - 1) % SizeRange
    BY <1>0, <2>3
  <2> QED
    BY <1>2, <2>2, <2>4 DEF PopStoreSize, SizeInv, producerVars
<1> QED
  BY <1>1, <1>2 DEF Pop

\* element_size is right, modulo its width, whenever no push or pop is in
\* progress, unless two updates of it have overlapped: only that can spoil it.
THEOREM SizeIsRight == Spec => []SizeCounts
<1>1. Init => SizeInv
  <2> SUFFICES ASSUME Init
               PROVE  SizeInv
    OBVIOUS
  <2>1. Difference = 0
    BY DEF Init, Difference, Counted
  <2>2. 0 % SizeRange = 0
    BY MaxPushesAssumption
  <2> QED
    BY <2>1, <2>2 DEF Init, SizeInv
<1>2. TypeOK /\ SizeInv /\ [Next]_vars => SizeInv'
  <2> SUFFICES ASSUME TypeOK, SizeInv, [Next]_vars
               PROVE  SizeInv'
    OBVIOUS
  <2>1. CASE UNCHANGED vars
    BY <2>1 DEF SizeInv, Difference, Counted, vars, producerVars, consumerVars
  <2> QED
    BY <2>1, PushKeepsSize, PopKeepsSize DEF Next
<1>3. TypeOK /\ SizeInv => SizeCounts
  BY DEF TypeOK, SizeInv, SizeCounts, Difference, Counted
<1> QED
  BY <1>1, <1>2, <1>3, TypeCorrect, PTL DEF Spec

-----------------------------------------------------------------------------
(* The records in the ring *)

\* The first pointer offset of each record, as a distance from front: records
\* follow one another, and leave a byte of the ring free.
Offsets == [1 .. MaxPushes + 1 -> Nat]

RecordLength(m) == HeaderLength + sent[m]

InARow(off) ==
    /\ off[Oldest] = 0 /\ off[Len(sent) + 1] <= Capacity - 1
    /\ \A m \in Oldest .. Len(sent) : off[m + 1] = off[m] + RecordLength(m)
    /\ \A m \in Oldest .. Len(sent), n \in Oldest .. Len(sent) + 1 :
          m < n => off[m] + RecordLength(m) <= off[n]

\* The bytes of each record are in the ring, and its header does not meet the
\* end.
Stored(off) ==
    \A m \in Oldest .. Len(sent) :
        /\ Wrap(front + off[m]) + HeaderLength <= Capacity
        /\ \A k \in 1 .. RecordLength(m) : mem[Address(front + off[m] + k - 1)] = <<m, k>>

\* Where the producer's pointers are.
ProducerAt(off) ==
    /\ back = Wrap(front + off[Published + 1])
    /\ ppc = "publish" => newBack = Wrap(front + off[Len(sent) + 1])

\* What the consumer has copied, and where it moves front.
ConsumerAt(off) ==
    /\ cpc # "lost" /\ got = [i \in 1 .. Len(got) |-> i]
    /\ cpc = "release" => /\ Oldest <= Published /\ taken = Oldest
                          /\ newFront = Wrap(front + off[Oldest + 1])
    /\ cpc \in {"load", "store"} => taken = Len(got) + 1

Ring(off) ==
    /\ Oldest <= Published + 1
    /\ InARow(off) /\ Stored(off) /\ ProducerAt(off) /\ ConsumerAt(off)

RingInv == sound => \E off \in Offsets : Ring(off)

\* Distances of less than the capacity lead to different addresses.
LEMMA AddressesApart ==
    ASSUME NEW p \in 0 .. Capacity, NEW x \in 0 .. Capacity - 1
    PROVE  /\ Address(p + x) \in Addresses
           /\ \A y \in 0 .. Capacity - 1 : Address(p + x) = Address(p + y) => x = y
  BY CapacityAssumption DEF Address, Addresses

\* The distance from a pointer is what PushCopy makes of the address.
LEMMA DistanceOf ==
    ASSUME NEW p \in 0 .. Capacity, NEW x \in 0 .. Capacity - 1, NEW a, a = Address(p + x)
    PROVE  (IF a >= p THEN a - p ELSE a - p + Capacity) = x
  BY CapacityAssumption DEF Address

\* A pointer may be wrapped before it is moved on.
LEMMA WrappedFirst ==
    ASSUME NEW p \in 0 .. 2 * Capacity, NEW i \in Nat, p + i < 2 * Capacity
    PROVE  Address(Wrap(p) + i) = Address(p + i) /\ Wrap(Wrap(p) + i) = Wrap(p + i)
  BY CapacityAssumption DEF Address, Wrap

\* The numbers of a record that has not been released.
LEMMA RecordFacts ==
    ASSUME TypeOK, NEW off \in Offsets, Ring(off)
    PROVE  /\ Oldest \in Nat \ {0} /\ Oldest <= Published + 1
           /\ Len(sent) \in Nat /\ Published \in Int /\ Published <= Len(sent)
           /\ Oldest <= Len(sent) + 1 /\ Len(sent) <= MaxPushes /\ MaxPushes \in Nat
           /\ \A m \in Oldest .. Len(sent) + 1 : off[m] \in 0 .. Capacity - 1
           /\ \A m \in Oldest .. Len(sent) :
                 /\ RecordLength(m) \in Nat /\ HeaderLength + 1 <= RecordLength(m)
                 /\ sent[m] \in Nat \ {0} /\ RecordLength(m) = HeaderLength + sent[m]
                 /\ off[m] + RecordLength(m) <= off[Len(sent) + 1]
                 /\ off[m] + RecordLength(m) \in 0 .. Capacity - 1
<1>1. /\ Len(sent) \in Nat /\ Len(got) \in Nat /\ Len(sent) <= MaxPushes /\ MaxPushes \in Nat
      /\ Capacity \in Nat \ {0} /\ HeaderLength \in Nat \ {0}
  BY CapacityAssumption, MaxPushesAssumption DEF TypeOK
<1>2. /\ Oldest \in Nat \ {0} /\ Oldest <= Published + 1
      /\ Published \in Int /\ Published <= Len(sent) /\ Oldest <= Len(sent) + 1
  <2>1. /\ Oldest = Len(got) + 1 \/ Oldest = Len(got) + 2
        /\ Published = Len(sent) \/ Published = Len(sent) - 1
    BY <1>1 DEF Oldest, Published
  <2>2. Oldest <= Published + 1
    BY DEF Ring
  <2> QED
    BY <1>1, <2>1, <2>2
<1>3. ASSUME NEW m \in Oldest .. Len(sent)
      PROVE  /\ RecordLength(m) \in Nat /\ HeaderLength + 1 <= RecordLength(m)
             /\ sent[m] \in Nat \ {0} /\ RecordLength(m) = HeaderLength + sent[m]
  <2>1. m \in 1 .. Len(sent)
    BY <1>1, <1>2
  <2>2. sent[m] \in Lengths
    BY <2>1 DEF TypeOK
  <2>3. sent[m] \in Nat \ {0}
    BY <2>2, LengthsAssumption
  <2> QED
    BY <1>1, <2>3 DEF RecordLength
<1>4. \A m \in Oldest .. Len(sent) + 1 : off[m] \in Nat
  BY <1>1, <1>2 DEF Offsets
<1>5. off[Len(sent) + 1] <= Capacity - 1
  BY DEF Ring, InARow
<1>6. \A m \in Oldest .. Len(sent) : off[m] + RecordLength(m) <= off[Len(sent) + 1]
  BY <1>1, <1>2 DEF Ring, InARow
<1>7. \A m \in Oldest .. Len(sent) : off[m] + RecordLength(m) \in 0 .. Capacity - 1
  <2> TAKE m \in Oldest .. Len(sent)
  <2>1. /\ RecordLength(m) \in Nat /\ off[m] + RecordLength(m) <= off[Len(sent) + 1]
        /\ off[m] \in Nat /\ off[Len(sent) + 1] \in Nat
    BY <1>1, <1>2, <1>3, <1>4, <1>6
  <2> QED
    BY <1>1, <1>5, <2>1
<1>8. \A m \in Oldest .. Len(sent) + 1 : off[m] \in 0 .. Capacity - 1
  <2>1. ASSUME NEW m \in Oldest .. Len(sent) PROVE off[m] \in 0 .. Capacity - 1
    BY <1>1, <1>2, <1>3, <1>4, <1>7
  <2>2. off[Len(sent) + 1] \in 0 .. Capacity - 1
    BY <1>1, <1>2, <1>4, <1>5
  <2> QED
    BY <1>1, <1>2, <2>1, <2>2, SMTT(30)
<1> QED
  BY <1>1, <1>2, <1>3, <1>6, <1>7, <1>8

\* What is free, but for the byte that keeps a full ring from looking empty.
LEMMA SpaceLeftIs ==
    ASSUME TypeOK, NEW off \in Offsets, Ring(off), ppc = "idle"
    PROVE  space_left = Capacity - 1 - off[Len(sent) + 1]
<1> DEFINE u == off[Len(sent) + 1]
<1>1. u \in 0 .. Capacity - 1 /\ Capacity \in Nat /\ front \in 0 .. Capacity
  BY RecordFacts, CapacityAssumption DEF TypeOK
<1>2. back = Wrap(front + u)
  BY RecordFacts DEF Ring, ProducerAt, Published
<1> HIDE DEF u
<1>3. space_left = Capacity - 1 - u
  BY <1>1, <1>2 DEF space_left, Wrap
<1> QED
  BY <1>3 DEF u

\* The ring looks empty exactly when all that is published was released;
\* otherwise the header at front is the one of the oldest record.
LEMMA AtFront ==
    ASSUME TypeOK, NEW off \in Offsets, Ring(off)
    PROVE  /\ empty <=> Oldest = Published + 1
           /\ Oldest <= Len(sent) =>
                 /\ HeaderAt(Oldest) /\ \A m \in 1 .. Len(sent) : HeaderAt(m) => m = Oldest
                 /\ Bytes(front + HeaderLength, sent[Oldest])
                       = RecordBytes(Oldest, HeaderLength, sent[Oldest])
                 /\ front + HeaderLength <= Capacity
                 /\ FrontAfter(front + HeaderLength, sent[Oldest])
                       = Wrap(front + off[Oldest + 1])
<1>1. /\ front \in 0 .. Capacity /\ Capacity \in Nat \ {0} /\ HeaderLength \in Nat \ {0}
      /\ off[Oldest] = 0
  BY CapacityAssumption DEF TypeOK, Ring, InARow
<1>2. empty <=> Oldest = Published + 1
  <2> DEFINE p == Published + 1
  <2>1. /\ p \in Oldest .. Len(sent) + 1 /\ Oldest \in Nat
        /\ off[p] \in 0 .. Capacity - 1 /\ back = Wrap(front + off[p])
    BY RecordFacts DEF Ring, ProducerAt
  <2>2. empty <=> off[p] = 0
    BY <1>1, <2>1 DEF empty, Wrap
  <2>3. ASSUME p # Oldest PROVE off[p] # 0
    <3>1. Oldest \in Oldest .. Len(sent) /\ Oldest < p
      BY <2>1, <2>3, RecordFacts
    <3>2. off[Oldest] + RecordLength(Oldest) <= off[p]
      BY <2>1, <3>1 DEF Ring, InARow
    <3>3. RecordLength(Oldest) \in Nat /\ HeaderLength + 1 <= RecordLength(Oldest)
      BY <3>1, RecordFacts
    <3> QED
      BY <1>1, <2>1, <3>2, <3>3
  <2> QED
    BY <1>1, <2>2, <2>3
<1>3. ASSUME Oldest <= Len(sent)
      PROVE  /\ HeaderAt(Oldest) /\ \A m \in 1 .. Len(sent) : HeaderAt(m) => m = Oldest
             /\ Bytes(front + HeaderLength, sent[Oldest])
                   = RecordBytes(Oldest, HeaderLength, sent[Oldest])
             /\ front + HeaderLength <= Capacity
             /\ FrontAfter(front + HeaderLength, sent[Oldest]) = Wrap(front + off[Oldest + 1])
  <2>1. /\ Oldest \in Oldest .. Len(sent) /\ sent[Oldest] \in Nat \ {0}
        /\ RecordLength(Oldest) = HeaderLength + sent[Oldest]
    BY <1>3, RecordFacts
  <2>2. /\ Wrap(front + 0) + HeaderLength <= Capacity
        /\ \A k \in 1 .. HeaderLength + sent[Oldest] :
              mem[Address(front + 0 + k - 1)] = <<Oldest, k>>
    BY <1>1, <2>1 DEF Ring, Stored
  <2>3. \A k \in 1 .. HeaderLength + sent[Oldest] :
           mem[Address(front + k - 1)] = <<Oldest, k>>
    BY <1>1, <2>1, <2>2
  <2>4. front + HeaderLength <= Capacity
    BY <1>1, <2>2 DEF Wrap
  <2>5. HeaderAt(Oldest)
    <3>1. \A i \in 1 .. HeaderLength : mem[Address(front + i - 1)] = <<Oldest, 0 + i>>
      <4> TAKE i \in 1 .. HeaderLength
      <4>1. i \in 1 .. HeaderLength + sent[Oldest] /\ 0 + i = i
        BY <1>1, <2>1
      <4> QED
        BY <2>3, <4>1
    <3> QED
      BY <3>1 DEF HeaderAt, Bytes, RecordBytes
  <2>6. ASSUME NEW m \in 1 .. Len(sent), HeaderAt(m) PROVE m = Oldest
    <3>1. [i \in 1 .. HeaderLength |-> mem[Address(front + i - 1)]]
             = [i \in 1 .. HeaderLength |-> <<m, 0 + i>>]
      BY <2>6 DEF HeaderAt, Bytes, RecordBytes
    <3>2. 1 \in 1 .. HeaderLength /\ 1 \in 1 .. HeaderLength + sent[Oldest]
      BY <1>1, <2>1
    <3>3. mem[Address(front + 1 - 1)] = <<m, 0 + 1>>
      BY <3>1, <3>2
    <3> QED
      <4>1. mem[Address(front + 1 - 1)] = <<Oldest, 1>>
        BY <2>3, <3>2
      <4>2. <<m, 0 + 1>> = <<Oldest, 1>>
        BY <3>3, <4>1
      <4> QED
        BY <4>2
  <2>7. Bytes(front + HeaderLength, sent[Oldest])
           = RecordBytes(Oldest, HeaderLength, sent[Oldest])
    <3>1. \A i \in 1 .. sent[Oldest] :
             mem[Address(front + HeaderLength + i - 1)] = <<Oldest, HeaderLength + i>>
      <4> TAKE i \in 1 .. sent[Oldest]
      <4>1. /\ HeaderLength + i \in 1 .. HeaderLength + sent[Oldest]
            /\ front + (HeaderLength + i) - 1 = front + HeaderLength + i - 1
        BY <1>1, <2>1
      <4> QED
        BY <2>3, <4>1
    <3> QED
      BY <3>1 DEF Bytes, RecordBytes
  <2>8. FrontAfter(front + HeaderLength, sent[Oldest]) = Wrap(front + off[Oldest + 1])
    <3>1. off[Oldest + 1] = 0 + (HeaderLength + sent[Oldest])
      BY <1>1, <2>1 DEF Ring, InARow
    <3>2. front + off[Oldest + 1] = front + HeaderLength + sent[Oldest]
      BY <1>1, <2>1, <3>1
    <3> QED
      BY <1>1, <2>1, <2>4, <3>2 DEF FrontAfter
  <2> QED
    BY <2>4, <2>5, <2>6, <2>7, <2>8
<1> QED
  BY <1>2, <1>3

\* A push of a record that fits.
LEMMA PushCopyKeepsRing ==
    ASSUME TypeOK, TypeOK', RingInv, NEW len \in Lengths, PushCopy(len)
    PROVE  RingInv'
<1> SUFFICES ASSUME sound'
             PROVE  \E new \in Offsets : Ring(new)'
  BY DEF RingInv
<1>1. /\ sound /\ HeaderLength + len <= space_left /\ back + HeaderLength <= Capacity
      /\ ppc = "idle" /\ ppc' = "publish" /\ Len(sent) < MaxPushes
      /\ UNCHANGED <<front, back, cpc, newFront, taken, got>>
  BY DEF PushCopy, consumerVars
<1>2. PICK off \in Offsets : Ring(off)
  BY <1>1 DEF RingInv
<1>n. PICK n \in Nat : n = Len(sent)
  BY DEF TypeOK
<1> DEFINE size == HeaderLength + len
           u == off[n + 1]
           new == [off EXCEPT ![n + 2] = u + size]
<1>3. /\ n \in Nat /\ n < MaxPushes /\ MaxPushes \in Nat /\ Published = n
      /\ Oldest \in Nat \ {0} /\ Oldest <= n + 1
      /\ Capacity \in Nat \ {0} /\ HeaderLength \in Nat \ {0} /\ len \in Nat \ {0}
      /\ size \in Nat /\ front \in 0 .. Capacity
      /\ u \in 0 .. Capacity - 1
      /\ \A m \in Oldest .. n + 1 : off[m] \in 0 .. Capacity - 1
      /\ \A m \in Oldest .. n : /\ RecordLength(m) \in Nat
                                /\ off[m] + RecordLength(m) <= u
  <2>1. len \in Nat \ {0}
    BY LengthsAssumption
  <2>2. Published = n
    BY <1>1, <1>n DEF Published
  <2> QED
    BY <1>1, <1>2, <1>n, <2>1, <2>2, RecordFacts, CapacityAssumption, SMTT(30) DEF TypeOK
<1>4. u + size <= Capacity - 1
  BY <1>1, <1>2, <1>3, <1>n, SpaceLeftIs
<1>5. /\ n + 2 \in 1 .. MaxPushes + 1 /\ new \in Offsets /\ new[n + 2] = u + size
      /\ \A m \in Oldest .. n + 1 : new[m] = off[m]
  <2>1. n + 2 \in 1 .. MaxPushes + 1 /\ u + size \in Nat
    BY <1>3
  <2>2. \A m \in Oldest .. n + 1 : m \in 1 .. MaxPushes + 1 /\ m # n + 2
    BY <1>3
  <2> QED
    BY <2>1, <2>2 DEF Offsets
<1>6. /\ Len(sent') = n + 1 /\ sent'[n + 1] = len
      /\ \A m \in Oldest .. n : sent'[m] = sent[m]
  <2>1. sent' = Append(sent, len)
    BY DEF PushCopy
  <2>2. sent \in Seq(Lengths)
    BY DEF TypeOK
  <2>3. \A m \in Oldest .. n : m \in 1 .. Len(sent)
    BY <1>3, <1>n
  <2> QED
    BY <1>n, <2>1, <2>2, <2>3
<1>7. /\ RecordLength(n + 1)' = size
      /\ \A m \in Oldest .. n : RecordLength(m)' = RecordLength(m)
  BY <1>6 DEF RecordLength
<1>8. Oldest' = Oldest /\ Published' = n
  BY <1>1, <1>3, <1>6, <1>n DEF Oldest, Published
<1>9. back = Wrap(front + u)
  BY <1>1, <1>2, <1>3, <1>n DEF Ring, ProducerAt
<1> HIDE DEF size, new, u
<1>10. InARow(new)'
  <2>1. new[Oldest] = 0 /\ new[n + 2] <= Capacity - 1
    <3>1. off[Oldest] = 0
      BY <1>2 DEF Ring, InARow
    <3>2. Oldest \in Oldest .. n + 1
      BY <1>3
    <3> QED
      BY <1>4, <1>5, <3>1, <3>2
  <2>2. ASSUME NEW m \in Oldest .. n + 1 PROVE new[m + 1] = new[m] + RecordLength(m)'
    <3>1. CASE m = n + 1
      BY <1>3, <1>5, <1>7, <3>1 DEF u
    <3>2. CASE m \in Oldest .. n
      <4>1. off[m + 1] = off[m] + RecordLength(m)
        BY <1>2, <1>n, <3>2 DEF Ring, InARow
      <4>2. m + 1 \in Oldest .. n + 1
        BY <1>3, <3>2
      <4> QED
        BY <1>5, <1>7, <2>2, <3>2, <4>1, <4>2
    <3> QED
      BY <1>3, <3>1, <3>2
  <2>3. ASSUME NEW m \in Oldest .. n + 1, NEW k \in Oldest .. n + 2, m < k
        PROVE  new[m] + RecordLength(m)' <= new[k]
    <3>1. CASE m = n + 1
      <4>1. k = n + 2 /\ m + 1 = n + 2
        BY <1>3, <2>3, <3>1
      <4>2. new[k] = new[m] + RecordLength(m)'
        BY <2>2, <4>1
      <4>3. new[k] \in Nat
        BY <1>3, <1>5, <4>1
      <4> QED
        BY <4>2, <4>3
    <3>2. CASE m \in Oldest .. n /\ k \in Oldest .. n + 1
      <4>1. off[m] + RecordLength(m) <= off[k]
        BY <1>2, <1>n, <2>3, <3>2 DEF Ring, InARow
      <4> QED
        BY <1>5, <1>7, <2>3, <3>2, <4>1
    <3>3. CASE m \in Oldest .. n /\ k = n + 2
      <4>1. off[m] + RecordLength(m) <= u /\ off[m] \in Nat /\ RecordLength(m) \in Nat
        BY <1>3, <3>3
      <4>2. new[m] = off[m] /\ RecordLength(m)' = RecordLength(m) /\ new[k] = u + size
        BY <1>5, <1>7, <2>3, <3>3
      <4> QED
        BY <1>3, <4>1, <4>2
    <3> QED
      BY <1>3, <3>1, <3>2, <3>3
  <2>4. n + 1 + 1 = n + 2
    BY <1>3
  <2> QED
    BY <1>6, <1>8, <2>1, <2>2, <2>3, <2>4 DEF InARow
<1>11. ASSUME NEW x \in 0 .. Capacity - 1
       PROVE  mem'[Address(front + x)] =
                 IF x \in u .. u + size - 1 THEN <<n + 1, x - u + 1>>
                 ELSE mem[Address(front + x)]
  <2> DEFINE a == Address(front + x)
             place == (IF a >= back THEN a - back ELSE a - back + Capacity) + 1
  <2>1. a \in Addresses
    BY <1>3, AddressesApart
  <2>2. mem'[a] = IF a \in Span(back, size) THEN <<n + 1, place>> ELSE mem[a]
    BY <1>n, <2>1 DEF PushCopy, size
  <2>3. /\ back \in 0 .. Capacity
        /\ \A i \in 0 .. size - 1 : /\ i \in 0 .. Capacity - 1 /\ u + i \in 0 .. Capacity - 1
                                    /\ Address(back + i) = Address(front + (u + i))
    <3>1. back \in 0 .. Capacity
      BY DEF TypeOK
    <3>2. ASSUME NEW i \in 0 .. size - 1
          PROVE  /\ i \in 0 .. Capacity - 1 /\ u + i \in 0 .. Capacity - 1
                 /\ Address(back + i) = Address(front + (u + i))
      <4>1. /\ i \in 0 .. Capacity - 1 /\ u + i \in 0 .. Capacity - 1 /\ i \in Nat
            /\ front + u \in 0 .. 2 * Capacity /\ front + u + i < 2 * Capacity
            /\ front + u + i = front + (u + i)
        BY <1>3, <1>4
      <4>2. Address(Wrap(front + u) + i) = Address(front + u + i)
        BY <4>1, WrappedFirst
      <4> QED
        BY <1>9, <4>1, <4>2
    <3> QED
      BY <3>1, <3>2
  <2>4. ASSUME x \in u .. u + size - 1
        PROVE  a \in Span(back, size) /\ place = x - u + 1
    <3>1. x - u \in 0 .. size - 1 /\ u + (x - u) = x
      BY <1>3, <2>4
    <3>2. a = Address(back + (x - u)) /\ x - u \in 0 .. Capacity - 1
      BY <2>3, <3>1
    <3>3. a \in Span(back, size)
      BY <3>1, <3>2 DEF Span
    <3>4. (IF a >= back THEN a - back ELSE a - back + Capacity) = x - u
      BY <2>3, <3>2, DistanceOf
    <3> QED
      BY <3>3, <3>4
  <2>5. ASSUME a \in Span(back, size)
        PROVE  x \in u .. u + size - 1
    <3>1. PICK i \in 0 .. size - 1 : a = Address(back + i)
      BY <2>5 DEF Span
    <3>2. Address(front + x) = Address(front + (u + i)) /\ u + i \in 0 .. Capacity - 1
      BY <2>3, <3>1
    <3>3. x = u + i
      BY <1>3, <3>2, AddressesApart
    <3> QED
      BY <1>3, <3>3
  <2> HIDE DEF a, place
  <2>6. mem'[a] = IF x \in u .. u + size - 1 THEN <<n + 1, x - u + 1>> ELSE mem[a]
    <3>1. CASE x \in u .. u + size - 1
      BY <2>2, <2>4, <3>1
    <3>2. CASE x \notin u .. u + size - 1
      BY <2>2, <2>5, <3>2
    <3> QED
      BY <3>1, <3>2
  <2> QED
    BY <2>6 DEF a
<1>12. Stored(new)'
  <2>1. ASSUME NEW m \in Oldest .. n
        PROVE  /\ Wrap(front + new[m]) + HeaderLength <= Capacity
               /\ \A k \in 1 .. RecordLength(m)' :
                     mem'[Address(front + new[m] + k - 1)] = <<m, k>>
    <3>1. /\ new[m] = off[m] /\ RecordLength(m)' = RecordLength(m)
          /\ off[m] \in 0 .. Capacity - 1 /\ RecordLength(m) \in Nat
          /\ off[m] + RecordLength(m) <= u
      BY <1>3, <1>5, <1>7
    <3>2. /\ Wrap(front + off[m]) + HeaderLength <= Capacity
          /\ \A k \in 1 .. RecordLength(m) : mem[Address(front + off[m] + k - 1)] = <<m, k>>
      BY <1>2, <1>n DEF Ring, Stored
    <3>3. ASSUME NEW k \in 1 .. RecordLength(m)
          PROVE  mem'[Address(front + off[m] + k - 1)] = <<m, k>>
      <4>1. /\ off[m] + k - 1 \in 0 .. Capacity - 1 /\ off[m] + k - 1 < u
            /\ front + (off[m] + k - 1) = front + off[m] + k - 1
        BY <1>3, <3>1
      <4>2. off[m] + k - 1 \notin u .. u + size - 1
        BY <1>3, <4>1
      <4>3. mem'[Address(front + (off[m] + k - 1))] = mem[Address(front + (off[m] + k - 1))]
        BY <1>11, <4>1, <4>2
      <4> QED
        BY <3>2, <4>1, <4>3
    <3> QED
      BY <3>1, <3>2, <3>3
  <2>2. /\ Wrap(front + new[n + 1]) + HeaderLength <= Capacity
        /\ \A k \in 1 .. RecordLength(n + 1)' :
              mem'[Address(front + new[n + 1] + k - 1)] = <<n + 1, k>>
    <3>1. new[n + 1] = u
      <4>1. n + 1 \in Oldest .. n + 1
        BY <1>3
      <4> QED
        BY <1>5, <4>1 DEF u
    <3>2. ASSUME NEW k \in 1 .. size
          PROVE  mem'[Address(front + u + k - 1)] = <<n + 1, k>>
      <4> DEFINE x == u + k - 1
      <4>1. /\ x \in 0 .. Capacity - 1 /\ x \in u .. u + size - 1
            /\ front + x = front + u + k - 1 /\ x - u + 1 = k
        BY <1>3, <1>4
      <4> HIDE DEF x
      <4>2. mem'[Address(front + x)] = <<n + 1, x - u + 1>>
        BY <1>11, <4>1
      <4> QED
        BY <4>1, <4>2
    <3> QED
      BY <1>1, <1>7, <1>9, <3>1, <3>2
  <2>3. \A m \in Oldest .. n + 1 : m = n + 1 \/ m \in Oldest .. n
    BY <1>3
  <2>4. \A m \in Oldest .. n + 1 :
           /\ Wrap(front + new[m]) + HeaderLength <= Capacity
           /\ \A k \in 1 .. RecordLength(m)' :
                 mem'[Address(front + new[m] + k - 1)] = <<m, k>>
    BY <2>1, <2>2, <2>3
  <2> QED
    BY <1>1, <1>6, <1>8, <2>4 DEF Stored
<1>13. ProducerAt(new)'
  <2>1. back' = Wrap(front' + new[n + 1])
    <3>1. n + 1 \in Oldest .. n + 1
      BY <1>3
    <3> QED
      BY <1>1, <1>5, <1>9, <3>1 DEF u
  <2>2. newBack' = Wrap(front' + new[n + 2])
    <3>1. /\ front + u \in 0 .. 2 * Capacity /\ size \in Nat /\ front + u + size < 2 * Capacity
          /\ front + u + size = front + (u + size)
      BY <1>3, <1>4
    <3>2. Wrap(Wrap(front + u) + size) = Wrap(front + (u + size))
      BY <3>1, WrappedFirst
    <3>3. newBack' = Wrap(back + size)
      <4>1. back + HeaderLength + len = back + size
        BY <1>3 DEF size, TypeOK
      <4> QED
        BY <4>1 DEF PushCopy
    <3> QED
      BY <1>1, <1>5, <1>9, <3>2, <3>3
  <2>3. n + 1 + 1 = n + 2
    BY <1>3
  <2> QED
    BY <1>6, <1>8, <2>1, <2>2, <2>3 DEF ProducerAt
<1>14. ConsumerAt(new)'
  <2>1. ASSUME cpc = "release" PROVE new[Oldest + 1] = off[Oldest + 1]
    <3>1. Oldest <= n
      BY <1>2, <1>3, <2>1 DEF Ring, ConsumerAt
    <3>2. Oldest + 1 \in Oldest .. n + 1
      BY <1>3, <3>1
    <3> QED
      BY <1>5, <3>2
  <2> QED
    BY <1>1, <1>2, <1>3, <1>8, <2>1 DEF Ring, ConsumerAt
<1> QED
  <2>1. Oldest' <= Published' + 1
    BY <1>3, <1>8
  <2>2. Ring(new)'
    BY <1>10, <1>12, <1>13, <1>14, <2>1 DEF Ring
  <2> QED
    BY <1>5, <2>2

\* The consumer releases the record at front: the distances shrink by its
\* length.
LEMMA PopReleaseKeepsRing ==
    ASSUME TypeOK, TypeOK', RingInv, PopRelease
    PROVE  RingInv'
<1> SUFFICES ASSUME sound'
             PROVE  \E new \in Offsets : Ring(new)'
  BY DEF RingInv
<1>1. /\ sound /\ cpc = "release" /\ cpc' = "load" /\ front' = newFront
      /\ UNCHANGED <<mem, back, producerVars, taken, got, newFront>>
  BY DEF PopRelease
<1>2. PICK off \in Offsets : Ring(off)
  BY <1>1 DEF RingInv
<1>n. PICK n \in Nat, o \in Nat : n = Len(sent) /\ o = Oldest
  BY <1>2, RecordFacts DEF TypeOK
<1> DEFINE d == off[o + 1]
           new == [m \in 1 .. MaxPushes + 1 |-> IF m \in o + 1 .. n + 1 THEN off[m] - d ELSE 0]
<1>3. /\ Published \in Int /\ Published <= n /\ o <= Published /\ o >= 1
      /\ n <= MaxPushes /\ MaxPushes \in Nat
      /\ Capacity \in Nat \ {0} /\ front \in 0 .. Capacity
      /\ \A m \in o .. n + 1 : off[m] \in 0 .. Capacity - 1
      /\ \A m \in o .. n : /\ RecordLength(m) \in Nat
                           /\ off[m] + RecordLength(m) \in 0 .. Capacity - 1
      /\ taken = o /\ newFront = Wrap(front + d) /\ Len(got) + 1 = o
  <2>1. Oldest <= Published /\ taken = Oldest /\ newFront = Wrap(front + off[Oldest + 1])
    BY <1>1, <1>2 DEF Ring, ConsumerAt
  <2>2. Len(got) + 1 = Oldest
    BY <1>1 DEF Oldest
  <2>3. /\ Published \in Int /\ Published <= n /\ o >= 1 /\ n <= MaxPushes /\ MaxPushes \in Nat
        /\ \A m \in o .. n + 1 : off[m] \in 0 .. Capacity - 1
        /\ \A m \in o .. n : /\ RecordLength(m) \in Nat
                             /\ off[m] + RecordLength(m) \in 0 .. Capacity - 1
    BY <1>2, <1>n, RecordFacts
  <2>4. Capacity \in Nat \ {0} /\ front \in 0 .. Capacity
    BY CapacityAssumption DEF TypeOK
  <2> QED
    BY <1>n, <2>1, <2>2, <2>3, <2>4
<1>4. d \in 0 .. Capacity - 1 /\ o + 1 \in o .. n + 1
  BY <1>3
<1>5. \A m, k \in o .. n + 1 : m < k /\ m \in o .. n => off[m] + RecordLength(m) <= off[k]
  BY <1>2, <1>n DEF Ring, InARow
<1>6. ASSUME NEW m \in o + 1 .. n + 1
      PROVE  /\ m \in 1 .. MaxPushes + 1 /\ m \in o .. n + 1
             /\ off[m] \in 0 .. Capacity - 1 /\ off[m] - d \in 0 .. Capacity - 1
             /\ new[m] = off[m] - d
  <2>1. m \in 1 .. MaxPushes + 1 /\ m \in o .. n + 1 /\ m >= o + 1
    BY <1>3
  <2>2. off[m] \in 0 .. Capacity - 1 /\ off[m] >= d
    <3>1. CASE m = o + 1
      BY <1>4, <3>1
    <3>2. CASE m > o + 1
      <4>1. o + 1 \in o .. n + 1 /\ o + 1 \in o .. n /\ o + 1 < m
        BY <1>3, <2>1, <3>2
      <4>2. d + RecordLength(o + 1) <= off[m] /\ RecordLength(o + 1) \in Nat
        BY <1>3, <1>5, <2>1, <4>1
      <4>3. off[m] \in 0 .. Capacity - 1
        BY <1>3, <2>1
      <4> QED
        BY <1>4, <4>2, <4>3
    <3> QED
      BY <1>3, <2>1, <3>1, <3>2
  <2> QED
    BY <1>3, <1>4, <2>1, <2>2
<1>7. new \in Offsets
  <2>1. ASSUME NEW m \in 1 .. MaxPushes + 1
        PROVE  (IF m \in o + 1 .. n + 1 THEN off[m] - d ELSE 0) \in Nat
    <3>1. CASE m \in o + 1 .. n + 1
      <4>1. off[m] - d \in 0 .. Capacity - 1
        BY <1>6, <3>1
      <4>2. off[m] - d \in Nat
        BY <4>1
      <4> QED
        BY <3>1, <4>2
    <3>2. CASE m \notin o + 1 .. n + 1
      BY <3>2
    <3> QED
      BY <3>1, <3>2
  <2> QED
    BY <2>1 DEF Offsets
<1>8. Oldest' = o + 1 /\ sent' = sent /\ Len(sent') = n /\ Published' = Published
  BY <1>1, <1>3, <1>n DEF Oldest, Published, producerVars
<1>9. \A m : RecordLength(m)' = RecordLength(m)
  BY <1>8 DEF RecordLength
<1>10. ASSUME NEW m \in o + 1 .. n + 1, NEW i \in Nat, off[m] + i \in 0 .. Capacity - 1
       PROVE  /\ Address(front' + new[m] + i) = Address(front + off[m] + i)
              /\ Wrap(front' + new[m]) = Wrap(front + off[m])
  <2> DEFINE p == front + d
  <2>1. /\ p \in 0 .. 2 * Capacity /\ new[m] + i \in Nat /\ new[m] \in Nat
        /\ p + (new[m] + i) = front + off[m] + i /\ p + new[m] = front + off[m]
        /\ p + (new[m] + i) < 2 * Capacity /\ p + new[m] < 2 * Capacity
    <3>1. /\ off[m] \in Nat /\ new[m] = off[m] - d /\ off[m] - d \in 0 .. Capacity - 1
      BY <1>6
    <3> HIDE DEF new
    <3>2. new[m] \in Nat /\ new[m] + d = off[m] /\ d \in 0 .. Capacity - 1
      BY <1>4, <3>1
    <3> HIDE DEF d, p
    <3>3. PICK f \in 0 .. Capacity, e \in 0 .. Capacity - 1, x \in Nat, y \in Nat :
             front = f /\ d = e /\ new[m] = x /\ off[m] = y
      BY <1>3, <3>1, <3>2
    <3>4. x + e = y /\ y + i \in 0 .. Capacity - 1
      BY <1>10, <3>2, <3>3
    <3>5. /\ f + e \in 0 .. 2 * Capacity /\ x + i \in Nat
          /\ f + e + (x + i) = f + y + i /\ f + e + x = f + y
          /\ f + e + (x + i) < 2 * Capacity /\ f + e + x < 2 * Capacity
      BY <3>4, CapacityAssumption
    <3> QED
      BY <3>2, <3>3, <3>5 DEF p
  <2>2. front' = Wrap(p) /\ front' \in 0 .. Capacity
    BY <1>1, <1>3 DEF TypeOK
  <2> HIDE DEF p, new
  <2>3. front' + (new[m] + i) = front' + new[m] + i
    BY <2>1, <2>2, <1>6
  <2>4. Address(Wrap(p) + (new[m] + i)) = Address(p + (new[m] + i))
    BY <2>1, WrappedFirst
  <2>5. Wrap(Wrap(p) + new[m]) = Wrap(p + new[m])
    BY <2>1, WrappedFirst
  <2> QED
    BY <2>1, <2>2, <2>3, <2>4, <2>5
<1> HIDE DEF new
<1>11. InARow(new)'
  <2>1. new[o + 1] = 0 /\ o + 1 \in o + 1 .. n + 1
    <3>1. o + 1 \in o + 1 .. n + 1
      BY <1>3
    <3> QED
      BY <1>4, <1>6, <3>1
  <2>2. new[n + 1] <= Capacity - 1
    <3>1. n + 1 \in o + 1 .. n + 1
      BY <1>3
    <3> QED
      BY <1>3, <1>6, <3>1
  <2>3. ASSUME NEW m \in o + 1 .. n PROVE new[m + 1] = new[m] + RecordLength(m)
    <3>1. m \in o .. n /\ m \in o + 1 .. n + 1 /\ m + 1 \in o + 1 .. n + 1
      BY <1>3
    <3>2. off[m + 1] = off[m] + RecordLength(m) /\ RecordLength(m) \in Nat
      BY <1>2, <1>3, <1>n, <3>1 DEF Ring, InARow
    <3>3. /\ new[m + 1] = off[m + 1] - d /\ new[m] = off[m] - d
          /\ off[m + 1] \in Nat /\ off[m] \in Nat
      BY <1>6, <3>1
    <3> QED
      BY <1>4, <3>2, <3>3
  <2>4. ASSUME NEW m \in o + 1 .. n, NEW k \in o + 1 .. n + 1, m < k
        PROVE  new[m] + RecordLength(m) <= new[k]
    <3>1. m \in o .. n /\ m \in o .. n + 1 /\ k \in o .. n + 1 /\ m \in o + 1 .. n + 1
      BY <1>3
    <3>2. off[m] + RecordLength(m) <= off[k] /\ RecordLength(m) \in Nat
      BY <1>3, <1>5, <2>4, <3>1
    <3>3. /\ new[k] = off[k] - d /\ new[m] = off[m] - d
          /\ off[k] \in Nat /\ off[m] \in Nat
      BY <1>6, <3>1
    <3> QED
      BY <1>4, <3>2, <3>3
  <2> QED
    BY <1>8, <1>9, <2>1, <2>2, <2>3, <2>4 DEF InARow
<1>12. Stored(new)'
  <2>1. ASSUME NEW m \in o + 1 .. n
        PROVE  /\ Wrap(front' + new[m]) + HeaderLength <= Capacity
               /\ \A k \in 1 .. RecordLength(m) :
                     mem[Address(front' + new[m] + k - 1)] = <<m, k>>
    <3>1. /\ m \in o .. n /\ m \in o + 1 .. n + 1
          /\ off[m] \in 0 .. Capacity - 1 /\ RecordLength(m) \in Nat
          /\ off[m] + RecordLength(m) \in 0 .. Capacity - 1 /\ new[m] \in Nat
      BY <1>3, <1>6
    <3>2. /\ Wrap(front + off[m]) + HeaderLength <= Capacity
          /\ \A k \in 1 .. RecordLength(m) : mem[Address(front + off[m] + k - 1)] = <<m, k>>
      BY <1>2, <1>n, <3>1 DEF Ring, Stored
    <3>3. off[m] + 0 \in 0 .. Capacity - 1 /\ 0 \in Nat
      BY <3>1
    <3>4. ASSUME NEW k \in 1 .. RecordLength(m)
          PROVE  mem[Address(front' + new[m] + k - 1)] = <<m, k>>
      <4>1. /\ k - 1 \in Nat /\ off[m] + (k - 1) \in 0 .. Capacity - 1
            /\ front + off[m] + (k - 1) = front + off[m] + k - 1
            /\ front' + new[m] + (k - 1) = front' + new[m] + k - 1
        <5>1. front' \in 0 .. Capacity
          BY DEF TypeOK
        <5>2. \A f \in Nat, x \in Nat, j \in Nat : f + x + (j - 1) = f + x + j - 1
          OBVIOUS
        <5>3. front' \in Nat /\ k \in Nat
          BY <1>3, <5>1
        <5>4. front' + new[m] + (k - 1) = front' + new[m] + k - 1
          BY <3>1, <5>2, <5>3
        <5>5. \A f \in Nat, x \in Nat : f + x + (k - 1) = f + x + k - 1
          BY <5>3
        <5>6. front \in Nat /\ off[m] \in Nat
          BY <1>3, <3>1
        <5>7. k - 1 \in Nat /\ front + off[m] + (k - 1) = front + off[m] + k - 1
          BY <5>3, <5>5, <5>6
        <5>8. off[m] + (k - 1) \in 0 .. Capacity - 1
          <6>1. PICK x \in Nat, r \in Nat : off[m] = x /\ RecordLength(m) = r
            BY <3>1, <5>6
          <6>2. x + r \in 0 .. Capacity - 1 /\ k \in 1 .. r
            BY <3>1, <6>1
          <6>3. x + (k - 1) \in 0 .. Capacity - 1
            BY <1>3, <6>2
          <6> QED
            BY <6>1, <6>3
        <5> QED
          BY <5>4, <5>7, <5>8
      <4>2. Address(front' + new[m] + (k - 1)) = Address(front + off[m] + (k - 1))
        BY <1>10, <3>1, <4>1
      <4> QED
        BY <3>2, <4>1, <4>2
    <3> QED
      BY <1>10, <3>1, <3>2, <3>3, <3>4
  <2> QED
    BY <1>1, <1>8, <1>9, <2>1 DEF Stored
<1>13. ProducerAt(new)'
  <2>1. /\ Published + 1 \in o + 1 .. n + 1 /\ n + 1 \in o + 1 .. n + 1 /\ 0 \in Nat
        /\ \A m \in o + 1 .. n + 1 : off[m] + 0 \in 0 .. Capacity - 1
    BY <1>3, <1>6
  <2>2. /\ Wrap(front' + new[Published + 1]) = Wrap(front + off[Published + 1])
        /\ Wrap(front' + new[n + 1]) = Wrap(front + off[n + 1])
    BY <1>10, <2>1
  <2> QED
    BY <1>1, <1>2, <1>8, <1>n, <2>2 DEF Ring, ProducerAt, producerVars
<1>14. ConsumerAt(new)'
  BY <1>1, <1>2, <1>3 DEF Ring, ConsumerAt
<1> QED
  <2>1. Oldest' <= Published' + 1
    BY <1>3, <1>8
  <2>2. Ring(new)'
    BY <1>11, <1>12, <1>13, <1>14, <2>1 DEF Ring
  <2> QED
    BY <1>7, <2>2

\* No message is too long for Read.
Readable == sound => \A m \in 1 .. Len(sent) : sent[m] <= MaxBodyLength

LEMMA ReadableKept == TypeOK /\ Readable /\ [Next]_vars => Readable'
<1> SUFFICES ASSUME TypeOK, Readable, [Next]_vars PROVE Readable'
  OBVIOUS
<1>1. CASE \E len \in Lengths : PushCopy(len)
  <2>1. PICK len \in Lengths : PushCopy(len)
    BY <1>1
  <2> SUFFICES ASSUME sound', NEW m \in 1 .. Len(sent')
               PROVE  sent'[m] <= MaxBodyLength
    BY DEF Readable
  <2>2. sound /\ len <= MaxBodyLength /\ sent' = Append(sent, len) /\ sent \in Seq(Lengths)
    BY <2>1 DEF PushCopy, TypeOK
  <2>3. /\ Len(sent') = Len(sent) + 1 /\ sent'[Len(sent) + 1] = len
        /\ \A k \in 1 .. Len(sent) : sent'[k] = sent[k]
    BY <2>2, AppendProperties
  <2>4. m \in 1 .. Len(sent) \/ m = Len(sent) + 1
    BY <2>2, <2>3
  <2> QED
    BY <2>2, <2>3, <2>4 DEF Readable
<1>2. CASE UNCHANGED <<sent, sound>>
  BY <1>2 DEF Readable
<1> QED
  BY <1>1, <1>2 DEF Next, Push, FinishPush, PushPublish, PushLoadSize, PushStoreSize, Pop,
     PopCopy, PopFails, PopRelease, PopLoadSize, PopStoreSize, vars, producerVars,
     consumerVars

\* The other steps move no record and no pointer but back.
LEMMA OthersKeepRing ==
    ASSUME TypeOK, TypeOK', RingInv, Readable,
           FinishPush \/ PopCopy \/ PopFails \/ PopLoadSize \/ PopStoreSize \/ UNCHANGED vars
    PROVE  RingInv'
<1> SUFFICES ASSUME sound'
             PROVE  \E off \in Offsets : Ring(off)'
  BY DEF RingInv
<1>1. UNCHANGED <<mem, front, sent, sound>>
  BY DEF FinishPush, PushPublish, PushLoadSize, PushStoreSize, PopCopy, PopFails,
         PopLoadSize, PopStoreSize, vars, producerVars, consumerVars
<1>2. PICK off \in Offsets : Ring(off)
  BY <1>1 DEF RingInv
<1>3. /\ \A m : RecordLength(m)' = RecordLength(m)
      /\ Len(sent) \in Nat /\ Len(got) \in Nat
  BY <1>1, SMTT(30) DEF RecordLength, TypeOK
<1>4. ASSUME Oldest' = Oldest
      PROVE  InARow(off)' /\ Stored(off)'
  BY <1>1, <1>2, <1>3, <1>4 DEF Ring, InARow, Stored
<1>5. CASE PushPublish
  <2>1. Oldest' = Oldest /\ Published' = Len(sent) /\ Published = Len(sent) - 1
    BY <1>1, <1>5 DEF PushPublish, consumerVars, Oldest, Published
  <2>2. ProducerAt(off)'
    BY <1>1, <1>2, <1>5, <2>1 DEF PushPublish, Ring, ProducerAt
  <2>3. ConsumerAt(off)'
    <3>1. UNCHANGED <<cpc, newFront, taken, got>> /\ ConsumerAt(off)
      BY <1>2, <1>5 DEF PushPublish, consumerVars, Ring
    <3>2. cpc = "release" => Oldest' <= Published'
      BY <1>2, <1>3, <2>1, <3>1, RecordFacts DEF ConsumerAt
    <3> QED
      BY <1>1, <2>1, <3>1, <3>2 DEF ConsumerAt
  <2>4. Oldest' <= Published' + 1
    BY <1>2, <1>3, <2>1, RecordFacts
  <2> QED
    BY <1>2, <1>4, <2>1, <2>2, <2>3, <2>4 DEF Ring
<1>6. ASSUME Oldest' = Oldest, Published' = Published, UNCHANGED back,
             ppc' = "publish" => ppc = "publish" /\ newBack' = newBack, ConsumerAt(off)'
      PROVE  \E new \in Offsets : Ring(new)'
  <2>1. ProducerAt(off)'
    BY <1>1, <1>2, <1>6 DEF Ring, ProducerAt
  <2> QED
    BY <1>2, <1>4, <1>6, <2>1 DEF Ring
<1>7. CASE PushLoadSize \/ PushStoreSize \/ UNCHANGED vars
  <2>1. /\ UNCHANGED <<back, newBack, cpc, newFront, taken, got>>
        /\ Oldest' = Oldest /\ Published' = Published
        /\ ppc' = "publish" => ppc = "publish"
    BY <1>1, <1>7 DEF PushLoadSize, PushStoreSize, consumerVars, producerVars, vars, Oldest,
                      Published
  <2>2. ConsumerAt(off)'
    BY <1>1, <1>2, <2>1 DEF Ring, ConsumerAt
  <2> QED
    BY <1>6, <2>1, <2>2
<1>8. CASE PopCopy
  <2>1. /\ cpc = "idle" /\ cpc' = "release" /\ ~empty /\ UNCHANGED <<back, newBack, ppc, got>>
        /\ Oldest' = Oldest /\ Published' = Published
    BY <1>1, <1>8 DEF PopCopy, producerVars, Oldest, Published
  <2>2. Oldest <= Published /\ Oldest <= Len(sent)
    <3>1. /\ Oldest # Published + 1 /\ Oldest <= Published + 1 /\ Oldest \in Nat
          /\ Published \in Int /\ Published <= Len(sent)
      BY <1>2, <2>1, AtFront, RecordFacts
    <3> QED
      BY <1>3, <3>1
  <2>3. PICK m \in 1 .. Len(sent) :
           /\ HeaderAt(m)
           /\ taken' = IF Bytes(front + HeaderLength, sent[m])
                          = RecordBytes(m, HeaderLength, sent[m])
                       THEN m ELSE Garbled
           /\ newFront' = FrontAfter(front + HeaderLength, sent[m])
    BY <1>8 DEF PopCopy
  <2>4. m = Oldest
    BY <1>2, <2>2, <2>3, AtFront
  <2>5. taken' = Oldest /\ newFront' = Wrap(front + off[Oldest + 1])
    BY <1>2, <2>2, <2>3, <2>4, AtFront
  <2>6. ConsumerAt(off)'
    BY <1>1, <1>2, <2>1, <2>2, <2>5 DEF Ring, ConsumerAt
  <2> QED
    BY <1>6, <2>1, <2>6
<1>9. CASE PopFails
  <2>1. ~empty /\ cpc = "idle" /\ \A m \in 1 .. Len(sent) : ~HeaderAt(m)
    <3> SUFFICES ASSUME NEW m \in 1 .. Len(sent), HeaderAt(m) PROVE FALSE
      BY <1>9 DEF PopFails
    <3>1. sent[m] > MaxBodyLength /\ sent[m] <= MaxBodyLength
      BY <1>1, <1>9 DEF PopFails, Readable
    <3>2. sent[m] \in Nat
      <4>1. sent \in Seq(Lengths)
        BY DEF TypeOK
      <4>2. sent[m] \in Lengths
        BY <4>1, ElementOfSeq
      <4> QED
        BY <4>2, LengthsAssumption
    <3> QED
      BY <3>1, <3>2, MaxBodyAssumption
  <2>2. /\ Oldest # Published + 1 /\ Oldest <= Published + 1 /\ Oldest \in Nat \ {0}
        /\ Published \in Int /\ Published <= Len(sent)
    BY <1>2, <2>1, AtFront, RecordFacts
  <2>3. Oldest \in 1 .. Len(sent)
    BY <1>3, <2>2
  <2> QED
    BY <1>2, <2>1, <2>3, AtFront
<1>10. CASE PopLoadSize
  <2>1. /\ cpc = "load" /\ cpc' = "store" /\ UNCHANGED <<back, newBack, ppc, taken, got>>
        /\ Oldest' = Oldest /\ Published' = Published
    BY <1>1, <1>10 DEF PopLoadSize, producerVars, Oldest, Published
  <2>2. ConsumerAt(off)'
    BY <1>1, <1>2, <2>1 DEF Ring, ConsumerAt
  <2> QED
    BY <1>6, <2>1, <2>2
<1>11. CASE PopStoreSize
  <2>1. /\ cpc = "store" /\ cpc' = "idle" /\ UNCHANGED <<back, newBack, ppc>>
        /\ got' = Append(got, taken) /\ taken = Len(got) + 1
        /\ got = [i \in 1 .. Len(got) |-> i]
    BY <1>1, <1>2, <1>11 DEF PopStoreSize, producerVars, Ring, ConsumerAt
  <2>2. /\ Len(got') = Len(got) + 1 /\ got'[Len(got) + 1] = Len(got) + 1
        /\ \A i \in 1 .. Len(got) : got'[i] = got[i]
        /\ got' \in Seq(Nat)
    <3>1. got \in Seq(Nat) /\ taken \in Nat
      <4>1. 0 .. Len(sent) \subseteq Nat
        BY <1>3
      <4> QED
        BY <4>1, SeqMonotonic DEF TypeOK
    <3> QED
      BY <2>1, <3>1, AppendProperties
  <2>3. \A i \in 1 .. Len(got) + 1 : got'[i] = i
    <3>1. \A i \in 1 .. Len(got) : got[i] = i
      BY <2>1
    <3>2. \A i \in 1 .. Len(got) + 1 : i \in 1 .. Len(got) \/ i = Len(got) + 1
      BY <1>3
    <3> QED
      BY <2>2, <3>1, <3>2
  <2>4. got' = [i \in 1 .. Len(got') |-> i]
    <3>1. DOMAIN got' = 1 .. Len(got') /\ got' = [i \in DOMAIN got' |-> got'[i]]
      BY <2>2
    <3> QED
      BY <2>2, <2>3, <3>1
  <2>5. Oldest' = Oldest /\ Published' = Published
    BY <1>1, <1>3, <2>1, <2>2 DEF Oldest, Published
  <2>6. ConsumerAt(off)'
    BY <2>1, <2>4 DEF ConsumerAt
  <2> QED
    BY <1>6, <2>1, <2>5, <2>6
<1> QED
  BY <1>5, <1>7, <1>8, <1>9, <1>10, <1>11 DEF FinishPush

LEMMA InitReadable == Init => Readable
  BY DEF Init, Readable

\* The ring is empty at first.
LEMMA InitRing == Init => RingInv
<1> SUFFICES ASSUME Init
             PROVE  \E off \in Offsets : Ring(off)
  BY DEF RingInv
<1> DEFINE off == [m \in 1 .. MaxPushes + 1 |-> 0]
<1>1. /\ MaxPushes \in Nat /\ Capacity \in Nat \ {0} /\ Len(sent) = 0 /\ Len(got) = 0
      /\ Oldest = 1 /\ Published = 0 /\ front = 0 /\ back = 0
      /\ cpc = "idle" /\ ppc = "idle" /\ got = <<>>
  BY MaxPushesAssumption, CapacityAssumption DEF Init, Oldest, Published
<1>2. off \in Offsets /\ off[1] = 0
  BY <1>1 DEF Offsets
<1> HIDE DEF off
<1>3. InARow(off) /\ Stored(off)
  <2>1. 1 .. 0 = {}
    OBVIOUS
  <2> QED
    BY <1>1, <1>2, <2>1 DEF InARow, Stored
<1>4. ProducerAt(off)
  BY <1>1, <1>2 DEF ProducerAt, Wrap
<1>5. ConsumerAt(off)
  <2>1. got = [i \in 1 .. 0 |-> i]
    BY <1>1
  <2> QED
    BY <1>1, <2>1 DEF ConsumerAt
<1> QED
  BY <1>1, <1>2, <1>3, <1>4, <1>5 DEF Ring

\* Every step keeps the records in their places.
LEMMA NextRing == TypeOK /\ TypeOK' /\ Readable /\ RingInv /\ [Next]_vars => RingInv'
  BY PushCopyKeepsRing, PopReleaseKeepsRing, OthersKeepRing DEF Next, Push, Pop

\* Push and Pop run in two processes and share nothing but the ring and its
\* two pointers: as long as each record fits with its header, no header reaches
\* beyond the end and no message is too long for Read, Pop returns what was
\* pushed, in order, whole.
THEOREM PoppedInOrder == Spec => []PopsInOrder
<1>1. RingInv => PopsInOrder
  BY DEF RingInv, Ring, ConsumerAt, PopsInOrder
<1> QED
  BY <1>1, InitReadable, ReadableKept, InitRing, NextRing, TypeCorrect, PTL DEF Spec

\* front = back is how Pop sees that there is nothing to read: it is so only
\* when everything published was popped, and so never when the ring is full.
THEOREM EmptyIsDrained == Spec => []EmptyMeansDrained
<1>1. TypeOK /\ RingInv => EmptyMeansDrained
  BY AtFront DEF RingInv, EmptyMeansDrained
<1> QED
  BY <1>1, InitReadable, ReadableKept, InitRing, NextRing, TypeCorrect, PTL DEF Spec

\* The header of each record that waits is in the ring.
HeadersStored ==
    sound => \A m \in Oldest .. Len(sent), k \in 1 .. HeaderLength :
                \E a \in Addresses : mem[a] = <<m, k>>

LEMMA RecordsHaveHeaders == TypeOK /\ RingInv => HeadersStored
<1> SUFFICES ASSUME TypeOK, RingInv, sound,
                    NEW m \in Oldest .. Len(sent), NEW k \in 1 .. HeaderLength
             PROVE  \E a \in Addresses : mem[a] = <<m, k>>
  BY DEF HeadersStored
<1>1. PICK off \in Offsets : Ring(off)
  BY DEF RingInv
<1> DEFINE x == off[m] + k - 1
<1>2. /\ HeaderLength \in Nat \ {0} /\ Capacity \in Nat \ {0} /\ front \in 0 .. Capacity
      /\ RecordLength(m) \in Nat /\ HeaderLength + 1 <= RecordLength(m)
      /\ off[m] \in 0 .. Capacity - 1 /\ off[m] + RecordLength(m) \in 0 .. Capacity - 1
  <2>1. m \in Oldest .. Len(sent) + 1
    BY <1>1, RecordFacts
  <2> QED
    BY <1>1, <2>1, RecordFacts, CapacityAssumption DEF TypeOK
<1>3. /\ k \in 1 .. RecordLength(m) /\ x \in 0 .. Capacity - 1
      /\ front + x = front + off[m] + k - 1
  BY <1>2, SMTT(30)
<1>4. mem[Address(front + off[m] + k - 1)] = <<m, k>>
  BY <1>1, <1>3 DEF Ring, Stored
<1> HIDE DEF x
<1>5. Address(front + x) \in Addresses
  BY <1>2, <1>3, AddressesApart
<1> QED
  BY <1>3, <1>4, <1>5

\* Push writes only where no record waits: no header that is in the ring
\* disappears before its record is released.
THEOREM NothingOverwritten == Spec => RecordsStay
<1> DEFINE Stay ==
        \A m \in Oldest .. Len(sent), k \in 1 .. HeaderLength :
           sound' /\ (\E a \in Addresses : mem[a] = <<m, k>>)
               => \E a \in Addresses : mem'[a] = <<m, k>>
<1>1. TypeOK /\ HeadersStored' /\ [Next]_vars => Stay
  <2> SUFFICES ASSUME TypeOK, HeadersStored', [Next]_vars,
                      NEW m \in Oldest .. Len(sent), NEW k \in 1 .. HeaderLength, sound',
                      NEW a \in Addresses, mem[a] = <<m, k>>
               PROVE  \E b \in Addresses : mem'[b] = <<m, k>>
    OBVIOUS
  <2>1. CASE UNCHANGED mem
    BY <2>1
  <2>2. CASE \E len \in Lengths : PushCopy(len)
    <3>1. PICK len \in Lengths : PushCopy(len)
      BY <2>2
    <3>2. /\ Oldest' = Oldest /\ Len(sent') = Len(sent) + 1 /\ Len(sent) \in Nat
          /\ Oldest \in Int
      BY <3>1 DEF PushCopy, consumerVars, TypeOK, Oldest
    <3>3. m \in Oldest' .. Len(sent')
      BY <3>2
    <3> QED
      BY <3>3 DEF HeadersStored
  <2> QED
    BY <2>1, <2>2 DEF Next, Push, FinishPush, PushPublish, PushLoadSize, PushStoreSize, Pop,
       PopCopy, PopFails, PopRelease, PopLoadSize, PopStoreSize, vars
<1> QED
  BY <1>1, RecordsHaveHeaders, InitReadable, ReadableKept, InitRing, NextRing,
     TypeCorrect, PTL DEF Spec, RecordsStay
=============================================================================
