------------------------------ MODULE ProcessBus ------------------------------
(***************************************************************************)
(* A fx::base::ProcessBus: one process pushes, another pops, through a ring  *)
(* in a mapped file that outlives both.  Either may die between any two      *)
(* steps and attach again, by Listen (which discards what is in the ring),   *)
(* Connect (which keeps it, or creates the file) or TryRecover (which keeps  *)
(* it if the file has its full size).                                        *)
(*                                                                         *)
(* The ring is abstracted to records of one slot: RingBuffer has its bytes   *)
(* and its element_size.                                                     *)
(***************************************************************************)
EXTENDS Integers, Sequences, FiniteSets, SequencesExt

CONSTANTS
    Slots,          \* records that would fill the ring
    MaxPushes,      \* bound: messages pushed
    MaxDeaths       \* bound: processes that end on their own account

ASSUME SlotsAssumption == Slots \in Nat /\ Slots > 1
ASSUME BoundsAssumption == MaxPushes \in Nat /\ MaxDeaths \in Nat

VARIABLES
    file,           \* the file: absent, empty, or of mmap_len_ bytes
    padded,         \* mmap_len_ is not a whole number of pages
    front, back,    \* the offsets in the file
    ring,           \* the messages in the file's slots
    pc,             \* per process: what it does next
    target,         \* per process: the offset Push or Pop is about to store
    taken,          \* local_buf of the consumer
    checked,        \* history: processes that did not just open what was there
    deaths,         \* history: processes that ended on their own account
    sent,           \* history: number of messages published
    got,            \* history: messages Pop returned
    missing,        \* history: messages that no Pop need return
    disturbed       \* history: a Listen was cut in two, or met its peer at work

shared == <<file, padded, front, back, ring>>
history == <<checked, deaths, sent, got, missing, disturbed>>
vars == <<shared, pc, target, taken, history>>

Producer == "producer"
Consumer == "consumer"
Procs == {Producer, Consumer}
Positions == 0 .. Slots - 1
Blank == 0
Attached == {"ready", "copied", "moved"}

\* A file that ftruncate has just grown is all zeros, which is what the ring's
\* constructor writes: it is an empty ring.
Init ==
    /\ file = "absent"
    /\ padded \in BOOLEAN
    /\ front = 0 /\ back = 0
    /\ ring = [s \in Positions |-> Blank]
    /\ pc = [p \in Procs |-> "down"]
    /\ target = [p \in Procs |-> 0]
    /\ taken = Blank
    /\ checked = {}
    /\ deaths = 0
    /\ sent = 0
    /\ got = <<>>
    /\ missing = {}
    /\ disturbed = FALSE

-----------------------------------------------------------------------------
(* The ring *)

Advance(s) == (s + 1) % Slots
Used(f, b) == (b - f) % Slots
Visible(f, b) == {ring[(f + i) % Slots] : i \in 0 .. Used(f, b) - 1}

Goto(p, where) == pc' = [pc EXCEPT ![p] = where]
Other(p) == CHOOSE q \in Procs : q # p

\* The ring's end is one sizeof(Header) beyond the mapping's: the last record
\* lies in part outside, where only the rest of a page may make up for it.
Reachable(s) == padded \/ s # Slots - 1

-----------------------------------------------------------------------------
(* Attaching *)

Start(p) ==
    /\ pc[p] = "down"
    /\ Goto(p, "start")
    /\ checked' = checked \ {p}
    /\ UNCHANGED <<shared, target, taken, deaths, sent, got, missing, disturbed>>

\* open with O_CREAT
Created == IF file = "absent" THEN "empty" ELSE file

Listen(p) ==
    /\ pc[p] = "start"
    /\ file' = Created
    /\ Goto(p, "truncate")
    /\ UNCHANGED <<padded, front, back, ring, target, taken, history>>

Truncate(p) ==
    /\ pc[p] = "truncate"
    /\ file' = "full"
    /\ Goto(p, "setFront")
    /\ UNCHANGED <<padded, front, back, ring, target, taken, history>>

\* Process p has begun to discard: what is to go is in the ring, once more and
\* from another message on.
HalfReset(p) == pc[p] = "setBack" /\ back # 0

\* The constructor of RingBuffer discards what is in the ring, in two steps.
SetFront(p) ==
    /\ pc[p] = "setFront"
    /\ front' = 0
    /\ missing' = missing \cup Visible(front, back)
    /\ disturbed' = (disturbed \/ pc[Other(p)] = "copied")
    /\ Goto(p, "setBack")
    /\ UNCHANGED <<file, padded, back, ring, target, taken, checked, deaths, sent,
                   got>>

SetBack(p) ==
    /\ pc[p] = "setBack"
    /\ back' = 0
    /\ missing' = missing \cup Visible(front, back)
    /\ disturbed' = (disturbed \/ pc[Other(p)] = "copied")
    /\ checked' = checked \cup {p}
    /\ Goto(p, "ready")
    /\ UNCHANGED <<file, padded, front, ring, target, taken, deaths, sent, got>>

\* Connect maps what it finds, whatever its size, and creates what it does not
\* find.
Connect(p) ==
    /\ pc[p] = "start"
    /\ Goto(p, IF file = "absent" THEN "create" ELSE "ready")
    /\ UNCHANGED <<shared, target, taken, history>>

CreateAgain(p) ==      \* mutant: the exclusive open is tried for ever
    /\ pc[p] = "create"
    /\ file' = Created
    /\ Goto(p, IF file = "absent" THEN "truncate" ELSE "create")
    /\ UNCHANGED <<padded, front, back, ring, target, taken, history>>

\* open with O_EXCL: when the other process was faster, Connect gives up, and
\* may be called again.
Create(p) ==
    /\ pc[p] = "create"
    /\ file' = Created
    /\ Goto(p, IF file = "absent" THEN "truncate" ELSE "start")
    /\ UNCHANGED <<padded, front, back, ring, target, taken, history>>

\* TryRecover opens the file, creating it, and looks at its size.
TryRecover(p) ==
    /\ pc[p] = "start"
    /\ file' = Created
    /\ Goto(p, "stat")
    /\ UNCHANGED <<padded, front, back, ring, target, taken, history>>

RecoverUnchecked(p) ==      \* mutant
    /\ pc[p] = "stat"
    /\ Goto(p, "ready")
    /\ checked' = checked \cup {p}
    /\ UNCHANGED <<shared, target, taken, deaths, sent, got, missing, disturbed>>

Recover(p) ==
    /\ pc[p] = "stat"
    /\ IF file = "full"
       THEN Goto(p, "ready") /\ checked' = checked \cup {p}
       ELSE Goto(p, "failed") /\ UNCHANGED checked
    /\ UNCHANGED <<shared, target, taken, deaths, sent, got, missing, disturbed>>

\* A TryRecover that returned -3 keeps its descriptor, so that another attempt
\* on the same bus fails the assertion not Inited().
AttachAgain(p) ==
    /\ pc[p] = "failed"
    /\ Goto(p, "down")
    /\ UNCHANGED <<shared, target, taken, history>>

Attach(p) ==
    \/ Start(p) \/ Listen(p) \/ Truncate(p) \/ SetFront(p) \/ SetBack(p)
    \/ Connect(p) \/ Create(p) \/ TryRecover(p) \/ Recover(p) \/ AttachAgain(p)

-----------------------------------------------------------------------------
(* Writing and reading *)

\* Write: the record is copied, back is moved, size is counted.
WriteCopy ==
    /\ pc[Producer] = "ready" /\ file = "full"
    /\ sent < MaxPushes
    /\ Used(front, back) < Slots - 1 /\ Reachable(back)
    /\ ring' = [ring EXCEPT ![back] = sent + 1]
    /\ target' = [target EXCEPT ![Producer] = Advance(back)]
    /\ Goto(Producer, "copied")
    /\ UNCHANGED <<file, padded, front, back, taken, history>>

WritePublish ==
    /\ pc[Producer] = "copied"
    /\ back' = target[Producer]
    /\ sent' = sent + 1
    /\ Goto(Producer, "moved")
    /\ UNCHANGED <<file, padded, front, ring, target, taken, checked, deaths, got,
                   missing, disturbed>>

WriteReturn ==
    /\ pc[Producer] = "moved"
    /\ Goto(Producer, "ready")
    /\ UNCHANGED <<shared, target, taken, history>>

ReadCopyReleased ==      \* mutant: front is moved first
    /\ pc[Consumer] = "ready" /\ file = "full"
    /\ front # back /\ Reachable(front)
    /\ front' = Advance(front)
    /\ taken' = ring[front]
    /\ target' = [target EXCEPT ![Consumer] = Advance(front)]
    /\ disturbed' = (disturbed \/ HalfReset(Producer))
    /\ Goto(Consumer, "copied")
    /\ UNCHANGED <<file, padded, back, ring, checked, deaths, sent, got, missing>>

\* Read: the record is copied, front is moved, size is counted.
ReadCopy ==
    /\ pc[Consumer] = "ready" /\ file = "full"
    /\ front # back /\ Reachable(front)
    /\ taken' = ring[front]
    /\ target' = [target EXCEPT ![Consumer] = Advance(front)]
    /\ disturbed' = (disturbed \/ HalfReset(Producer))
    /\ Goto(Consumer, "copied")
    /\ UNCHANGED <<shared, checked, deaths, sent, got, missing>>

ReadRelease ==
    /\ pc[Consumer] = "copied"
    /\ front' = target[Consumer]
    /\ Goto(Consumer, "moved")
    /\ UNCHANGED <<file, padded, back, ring, target, taken, history>>

ReadReturn ==
    /\ pc[Consumer] = "moved"
    /\ got' = IF disturbed THEN got ELSE Append(got, taken)
    /\ Goto(Consumer, "ready")
    /\ UNCHANGED <<shared, target, taken, checked, deaths, sent, missing, disturbed>>

\* An access to a page the file does not have, or beyond the mapping, ends the
\* process by a signal.
Faults(p) ==
    \/ file = "empty"
    \/ p = Producer /\ Used(front, back) < Slots - 1 /\ ~Reachable(back)
    \/ p = Consumer /\ front # back /\ ~Reachable(front)

Fault(p) ==
    /\ pc[p] = "ready" /\ Faults(p)
    /\ Goto(p, "down")
    /\ UNCHANGED <<shared, target, taken, history>>

\* A process crashes, or exits: munmap and close leave the file as it is.  A
\* message Pop has released and not returned dies with it.
Die(p) ==
    /\ pc[p] # "down" /\ deaths < MaxDeaths
    /\ deaths' = deaths + 1
    /\ missing' = IF p = Consumer /\ pc[p] = "moved" THEN missing \cup {taken}
                  ELSE missing
    /\ disturbed' = (disturbed \/ HalfReset(p))
    /\ Goto(p, "down")
    /\ UNCHANGED <<shared, target, taken, checked, sent, got>>

-----------------------------------------------------------------------------
(* Specification *)

Write == WriteCopy \/ WritePublish \/ WriteReturn
Read == ReadCopy \/ ReadRelease \/ ReadReturn

Next ==
    \/ Write \/ Read
    \/ \E p \in Procs : Attach(p) \/ Fault(p) \/ Die(p)

Spec == Init /\ [][Next]_vars

\* The consumer, however often it dies, is started again, attaches and polls.
FairSpec == Spec /\ WF_vars(Read) /\ WF_vars(Attach(Consumer))

-----------------------------------------------------------------------------
(* Properties *)

Increasing(s) == \A i, j \in 1 .. Len(s) : i < j => s[i] < s[j]

\* Messages survive the death of either process at any step: Pop returns them
\* in order, none twice, none that was not pushed, and leaves out only those
\* that a Listen discarded or that died with the consumer.
SurvivorsInOrder ==
    ~disturbed =>
        /\ Increasing(got)
        /\ \A i \in 1 .. Len(got) : got[i] \in 1 .. sent
        /\ \A m \in 1 .. sent :
              \/ m \in Range(got) \cup missing \cup Visible(front, back)
              \/ pc[Consumer] = "moved" /\ taken = m

\* A bus that was recovered or created is usable, however many creators died
\* half way: nobody who checked the file is ended by a fault in it.
CheckedSegmentsWork ==
    \A p \in checked : pc[p] \in Attached => file = "full"

\* What was published is popped in the end by a consumer that is started again
\* whenever it dies.
Redelivered ==
    \A m \in 1 .. MaxPushes :
        sent >= m ~> (m \in Range(got) \cup missing \/ disturbed \/ ~padded)
=============================================================================
