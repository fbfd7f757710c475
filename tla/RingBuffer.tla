----------------------------- MODULE RingBuffer -----------------------------
(***************************************************************************)
(* fx::base::RingBuffer: a ring of bytes in shared memory through which one  *)
(* process pushes messages to another.  A record is a header, the length of  *)
(* the message, and the message.  front and back are pointers into the ring, *)
(* each stored by one of the processes; element_size is stored by both.      *)
(*                                                                         *)
(* The k-th byte of the m-th record pushed is the pair <<m, k>>.             *)
(***************************************************************************)
EXTENDS Integers, Sequences, FiniteSets

CONSTANTS
    Capacity,       \* bytes between start_ and end_
    HeaderLength,   \* kBufferHeaderLength
    Lengths,        \* lengths of the messages pushed
    MaxBodyLength,  \* kMaxBufferBodyLength
    SizeRange,      \* element_size counts modulo this
    MaxPushes       \* bound: messages pushed

ASSUME CapacityAssumption == Capacity \in Nat \ {0} /\ HeaderLength \in Nat \ {0}
ASSUME LengthsAssumption ==
    Lengths \subseteq Nat \ {0} /\ \A len \in Lengths : HeaderLength + len <= Capacity
ASSUME MaxBodyAssumption == MaxBodyLength \in Nat
ASSUME MaxPushesAssumption == MaxPushes \in Nat /\ SizeRange \in Nat \ {0}

VARIABLES
    mem,            \* the bytes of the ring
    front,          \* front_offset: where the consumer reads
    back,           \* back_offset: where the producer writes
    element_size,
    ppc, cpc,       \* what the producer and the consumer do next
    newBack,        \* in Write: the back to be stored
    newFront,       \* in Read: the front to be stored
    psize, csize,   \* the element_size the producer and the consumer loaded
    taken,          \* local_buf: the message Read has copied
    sent,           \* history: lengths of the messages pushed
    got,            \* history: messages Pop returned
    sound,          \* history: every record fitted, no header met the end, and
                    \* no message was longer than Read's buffer
    overlapped      \* history: two updates of element_size have overlapped

producerVars == <<ppc, newBack, psize, sent>>
consumerVars == <<cpc, newFront, csize, taken, got>>
vars == <<mem, front, back, element_size, producerVars, consumerVars, sound,
          overlapped>>

Addresses == 0 .. Capacity - 1
Blank == <<0, 0>>
Garbled == 0        \* what is popped where no message is

Init ==
    /\ mem = [a \in Addresses |-> Blank]
    /\ front = 0
    /\ back = 0
    /\ element_size = 0
    /\ ppc = "idle"
    /\ cpc = "idle"
    /\ newBack = 0
    /\ newFront = 0
    /\ psize = 0
    /\ csize = 0
    /\ taken = Garbled
    /\ sent = <<>>
    /\ got = <<>>
    /\ sound = TRUE
    /\ overlapped = FALSE

-----------------------------------------------------------------------------
(* Positions *)

\* The address of a byte that begins at pointer p; the end is the start.
Address(p) == IF p < Capacity THEN p ELSE p - Capacity

\* Where a pointer moved to p ends up: it may stay at the end.
WrapNever(p) == p       \* mutant
Wrap(p) == IF p <= Capacity THEN p ELSE p - Capacity

SpaceLeftUnreserved ==      \* mutant: without kExtraSpace
    IF back >= front THEN Capacity - back + front ELSE front - back

SpaceLeftUnwrapped == Capacity - back + front - 1      \* mutant

space_left ==
    IF back >= front THEN Capacity - back + front - 1 ELSE front - back - 1

EmptyUnlessAhead == back <= front      \* mutant
empty == front = back

\* The addresses of n bytes from pointer p on.
Span(p, n) == {Address(p + i) : i \in 0 .. n - 1}

\* The n bytes from pointer p on.
Bytes(p, n) == [i \in 1 .. n |-> mem[Address(p + i - 1)]]

\* n bytes of record m after its first k.
RecordBytes(m, k, n) == [i \in 1 .. n |-> <<m, k + i>>]

-----------------------------------------------------------------------------
(* The producer: Push *)

\* Push succeeds when the message, without its header, fits, though it be longer
\* than Read can take; Write copies the record ...
PushCopy(len) ==
    /\ ppc = "idle" /\ Len(sent) < MaxPushes
    /\ len <= space_left
    /\ mem' = [a \in Addresses |->
                  IF a \in Span(back, HeaderLength + len)
                  THEN <<Len(sent) + 1,
                         (IF a >= back THEN a - back ELSE a - back + Capacity) + 1>>
                  ELSE mem[a]]
    /\ newBack' = Wrap(back + HeaderLength + len)
    /\ sent' = Append(sent, len)
    /\ sound' = /\ sound
                /\ HeaderLength + len <= space_left
                /\ back + HeaderLength <= Capacity
                /\ len <= MaxBodyLength
    /\ ppc' = "publish"
    /\ UNCHANGED <<front, back, element_size, psize, consumerVars, overlapped>>

\* ... and moves back past it.
PushPublish ==
    /\ ppc = "publish"
    /\ back' = newBack
    /\ ppc' = "load"
    /\ UNCHANGED <<mem, front, element_size, newBack, psize, sent, consumerVars,
                   sound, overlapped>>

PushLoadSize ==
    /\ ppc = "load"
    /\ psize' = element_size
    /\ ppc' = "store"
    /\ overlapped' = (overlapped \/ cpc = "store")
    /\ UNCHANGED <<mem, front, back, element_size, newBack, sent, consumerVars,
                   sound>>

PushStoreSize ==
    /\ ppc = "store"
    /\ element_size' = (psize + 1) % SizeRange
    /\ ppc' = "idle"
    /\ UNCHANGED <<mem, front, back, newBack, psize, sent, consumerVars, sound,
                   overlapped>>

-----------------------------------------------------------------------------
(* The consumer: Pop *)

\* The record whose header is at front.
HeaderAt(m) == Bytes(front, HeaderLength) = RecordBytes(m, 0, HeaderLength)

\* What Read moves front to: past the message, unless the header itself
\* reaches beyond the end, when it stops behind the header.
FrontAfterHeader(content, len) == Wrap(content)      \* mutant

FrontAfter(content, len) ==
    IF content > Capacity THEN content - Capacity ELSE Wrap(content + len)

\* Pop finds a record; Read copies its message to the consumer's memory ...
PopCopy ==
    /\ cpc = "idle" /\ ~empty
    /\ \E m \in 1 .. Len(sent) :
          LET content == front + HeaderLength IN
              /\ HeaderAt(m) /\ sent[m] <= MaxBodyLength
              /\ taken' = IF Bytes(content, sent[m]) = RecordBytes(m, HeaderLength, sent[m])
                          THEN m ELSE Garbled
              /\ newFront' = FrontAfter(content, sent[m])
    /\ cpc' = "release"
    /\ UNCHANGED <<mem, front, back, element_size, producerVars, csize, got, sound,
                   overlapped>>

\* ... or finds a message too long for local_buf, and an assertion fails; or it
\* takes some other bytes for a header, and anything may follow.  The model stops
\* the consumer.
PopFails ==
    /\ cpc = "idle" /\ ~empty
    /\ \A m \in 1 .. Len(sent) : HeaderAt(m) => sent[m] > MaxBodyLength
    /\ cpc' = "lost"
    /\ UNCHANGED <<mem, front, back, element_size, producerVars, newFront, csize,
                   taken, got, sound, overlapped>>

\* ... and moves front.
PopRelease ==
    /\ cpc = "release"
    /\ front' = newFront
    /\ cpc' = "load"
    /\ UNCHANGED <<mem, back, element_size, producerVars, newFront, csize, taken,
                   got, sound, overlapped>>

PopLoadSize ==
    /\ cpc = "load"
    /\ csize' = element_size
    /\ cpc' = "store"
    /\ overlapped' = (overlapped \/ ppc = "store")
    /\ UNCHANGED <<mem, front, back, element_size, producerVars, newFront, taken,
                   got, sound>>

PopStoreSizeUnchanged ==    \* mutant
    /\ cpc = "store"
    /\ element_size' = csize
    /\ got' = Append(got, taken)
    /\ cpc' = "idle"
    /\ UNCHANGED <<mem, front, back, producerVars, newFront, csize, taken, sound,
                   overlapped>>

\* The size is stored and Pop returns the message.
PopStoreSize ==
    /\ cpc = "store"
    /\ element_size' = (csize - 1) % SizeRange
    /\ got' = Append(got, taken)
    /\ cpc' = "idle"
    /\ UNCHANGED <<mem, front, back, producerVars, newFront, csize, taken, sound,
                   overlapped>>

-----------------------------------------------------------------------------
(* Specification *)

FinishPush == PushPublish \/ PushLoadSize \/ PushStoreSize
Push == FinishPush \/ \E len \in Lengths : PushCopy(len)
Pop == PopCopy \/ PopFails \/ PopRelease \/ PopLoadSize \/ PopStoreSize

Next == Push \/ Pop

\* The consumer polls for ever; a push that has begun is finished.
Spec == Init /\ [][Next]_vars
FairSpec == Spec /\ WF_vars(Pop) /\ WF_vars(FinishPush)

-----------------------------------------------------------------------------
(* Properties *)

\* Every variable keeps its type: the pointers Push and Pop store stay within
\* the ring, whose end they may reach.
TypeOK ==
    /\ mem \in [Addresses -> (0 .. MaxPushes) \X (0 .. Capacity)]
    /\ front \in 0 .. Capacity /\ back \in 0 .. Capacity
    /\ newBack \in 0 .. Capacity /\ newFront \in 0 .. Capacity
    /\ {element_size, psize, csize} \subseteq 0 .. SizeRange - 1
    /\ ppc \in {"idle", "publish", "load", "store"}
    /\ cpc \in {"idle", "release", "load", "store", "lost"}
    /\ sent \in Seq(Lengths) /\ Len(sent) <= MaxPushes
    /\ got \in Seq(0 .. Len(sent)) /\ taken \in 0 .. Len(sent)
    /\ sound \in BOOLEAN /\ overlapped \in BOOLEAN

\* The first message whose record the consumer has not released.
Oldest == Len(got) + (IF cpc \in {"load", "store"} THEN 2 ELSE 1)
Published == Len(sent) - (IF ppc = "publish" THEN 1 ELSE 0)

\* Pop returns the messages in the order of the pushes, none missing, doubled
\* or torn, however the two processes interleave, as long as every record
\* fitted, no header reached beyond the end and no message was too long.
PopsInOrder ==
    sound => cpc # "lost" /\ got = [i \in 1 .. Len(got) |-> i]

\* Under the same condition nothing is dropped: the buffer is empty only when
\* everything published was popped.
EmptyMeansDrained == sound /\ empty => Oldest = Published + 1

\* A record the consumer has not released is never written over.
RecordsStay ==
    [][\A m \in Oldest .. Len(sent), k \in 1 .. HeaderLength :
          sound' /\ (\E a \in Addresses : mem[a] = <<m, k>>)
              => \E a \in Addresses : mem'[a] = <<m, k>>]_vars

\* element_size counts the messages when no push or pop is in progress, as long
\* as no two updates of it have overlapped.
SizeCounts ==
    sound /\ ~overlapped /\ ppc = "idle" /\ cpc = "idle"
        => element_size = (Len(sent) - Len(got)) % SizeRange

\* What is pushed is popped in the end, by a consumer that keeps polling.
Delivered ==
    \A i \in 1 .. MaxPushes : (Len(sent) >= i /\ sound) ~> (Len(got) >= i \/ ~sound)
=============================================================================
