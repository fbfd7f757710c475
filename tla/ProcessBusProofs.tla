--------------------------- MODULE ProcessBusProofs ---------------------------
(***************************************************************************)
(* Theorems about ProcessBus, for a ring of any size and any number of       *)
(* messages and deaths: attached segments work, and messages survive.       *)
(***************************************************************************)
EXTENDS ProcessBus, TLAPS

\* The file only grows, and who is past its ftruncate or has seen its size
\* relies on nothing else.
FullInv ==
    /\ checked \subseteq Procs
    /\ \A p \in Procs : pc[p] \in {"setFront", "setBack"} \/ p \in checked => file = "full"
    /\ pc \in [Procs -> {"down", "start", "truncate", "setFront", "setBack", "create",
                         "stat", "failed", "ready", "copied", "moved"}]

\* A step that does not shrink the file, and sends process p to a place where it
\* may rely on the size only if the file has it.
LEMMA GotoKeeps ==
    ASSUME FullInv, NEW p \in Procs,
           NEW place \in {"down", "start", "truncate", "setFront", "setBack", "create",
                          "stat", "failed", "ready", "copied", "moved"},
           Goto(p, place),
           file = "full" => file' = "full",
           place \in {"setFront", "setBack"} => file' = "full",
           checked' \subseteq checked \cup {p},
           p \in checked' => p \in checked \/ file' = "full"
    PROVE  FullInv'
  BY DEF FullInv, Goto

LEMMA FullStep == FullInv /\ [Next]_vars => FullInv'
<1> SUFFICES ASSUME FullInv, [Next]_vars PROVE FullInv'
  OBVIOUS
<1> USE DEF shared, history
<1>1. ASSUME NEW p \in Procs, Start(p)
      PROVE  FullInv'
  BY <1>1, GotoKeeps DEF Start
<1>2. ASSUME NEW p \in Procs, Listen(p) \/ TryRecover(p)
      PROVE  FullInv'
  BY <1>2, GotoKeeps DEF Listen, TryRecover, Created
<1>3. ASSUME NEW p \in Procs, Truncate(p)
      PROVE  FullInv'
  BY <1>3, GotoKeeps DEF Truncate
<1>4. ASSUME NEW p \in Procs, SetFront(p) \/ SetBack(p)
      PROVE  FullInv'
  <2>1. file = "full"
    BY <1>4 DEF FullInv, SetFront, SetBack
  <2> QED
    BY <1>4, <2>1, GotoKeeps DEF SetFront, SetBack
<1>5. ASSUME NEW p \in Procs, Connect(p) \/ AttachAgain(p)
      PROVE  FullInv'
  BY <1>5, GotoKeeps DEF Connect, AttachAgain
<1>6. ASSUME NEW p \in Procs, Create(p)
      PROVE  FullInv'
  BY <1>6, GotoKeeps DEF Create, Created
<1>7. ASSUME NEW p \in Procs, Recover(p)
      PROVE  FullInv'
  BY <1>7, GotoKeeps DEF Recover
<1>8. ASSUME Write \/ Read
      PROVE  FullInv'
  <2>1. Producer \in Procs /\ Consumer \in Procs
    BY DEF Procs
  <2>2. CASE Write
    BY <2>1, <2>2, GotoKeeps DEF Write, WriteCopy, WritePublish, WriteReturn
  <2>3. CASE Read
    BY <2>1, <2>3, GotoKeeps DEF Read, ReadCopy, ReadRelease, ReadReturn
  <2> QED
    BY <1>8, <2>2, <2>3
<1>9. ASSUME NEW p \in Procs, Fault(p) \/ Die(p)
      PROVE  FullInv'
  BY <1>9, GotoKeeps DEF Fault, Die
<1>10. ASSUME UNCHANGED vars
       PROVE  FullInv'
  BY <1>10 DEF FullInv, vars
<1> QED
  BY <1>1, <1>2, <1>3, <1>4, <1>5, <1>6, <1>7, <1>8, <1>9, <1>10 DEF Next, Attach

\* A process that created the segment, or recovered it, never reads or writes
\* beyond the end of its file, whoever died half way and whatever the other
\* process does to the file.
THEOREM CheckedAreSafe == Spec => []CheckedSegmentsWork
<1>1. Init => FullInv
  BY DEF Init, FullInv
<1>2. FullInv => CheckedSegmentsWork
  BY DEF FullInv, CheckedSegmentsWork
<1> QED
  BY <1>1, <1>2, FullStep, PTL DEF Spec

-----------------------------------------------------------------------------
(* The ring *)

LEMMA MultAtLeast ==
    ASSUME NEW r \in Nat, NEW d \in Int, d >= 1
    PROVE  r * d >= r
  OBVIOUS

\* The remainder of a number less than one round away from the ring.
LEMMA Remainder ==
    ASSUME NEW r \in Nat \ {0}, NEW a \in Int, -r <= a, a < 2 * r
    PROVE  a % r = IF a < 0 THEN a + r ELSE IF a < r THEN a ELSE a - r
<1> DEFINE k == a \div r
           m == a % r
<1>1. k \in Int /\ m \in 0 .. r - 1 /\ a = r * k + m
  OBVIOUS
<1> HIDE DEF k, m
<1>2. CASE k >= 2
  <2>1. r * (k - 1) >= r /\ r * (k - 1) = r * k - r
    BY <1>1, <1>2, MultAtLeast
  <2> QED
    BY <1>1, <2>1
<1>3. CASE k <= -2
  <2>1. r * ((-k) - 1) >= r /\ r * ((-k) - 1) = -(r * k) - r
    BY <1>1, <1>3, MultAtLeast
  <2> QED
    BY <1>1, <2>1
<1>4. CASE k \in {-1, 0, 1}
  <2>1. m = IF a < 0 THEN a + r ELSE IF a < r THEN a ELSE a - r
    BY <1>1, <1>4
  <2> QED
    BY <2>1 DEF m
<1> QED
  BY <1>1, <1>2, <1>3, <1>4

LEMMA RemainderInRing ==
    ASSUME NEW a \in Int, -Slots <= a, a < 2 * Slots
    PROVE  a % Slots =
              IF a < 0 THEN a + Slots ELSE IF a < Slots THEN a ELSE a - Slots
<1>1. Slots \in Nat \ {0}
  BY SlotsAssumption
<1> QED
  BY <1>1, Remainder

\* What the operators on positions are, without remainders.
LEMMA AdvanceIs ==
    ASSUME NEW s \in Positions
    PROVE  Advance(s) = IF s = Slots - 1 THEN 0 ELSE s + 1
<1> DEFINE a == s + 1
<1>1. a \in Int /\ -Slots <= a /\ a < 2 * Slots
  BY SlotsAssumption DEF Positions
<1>2. Advance(s) = a % Slots
  BY DEF Advance
<1> HIDE DEF a
<1>3. a % Slots = IF a < 0 THEN a + Slots ELSE IF a < Slots THEN a ELSE a - Slots
  BY <1>1, RemainderInRing
<1> QED
  BY <1>2, <1>3, SlotsAssumption DEF a, Positions

LEMMA UsedIs ==
    ASSUME NEW f \in Positions, NEW b \in Positions
    PROVE  Used(f, b) = IF f <= b THEN b - f ELSE b - f + Slots
<1> DEFINE a == b - f
<1>1. a \in Int /\ -Slots <= a /\ a < 2 * Slots
  BY SlotsAssumption DEF Positions
<1>2. Used(f, b) = a % Slots
  BY DEF Used
<1> HIDE DEF a
<1>3. a % Slots = IF a < 0 THEN a + Slots ELSE IF a < Slots THEN a ELSE a - Slots
  BY <1>1, RemainderInRing
<1> QED
  BY <1>2, <1>3, SlotsAssumption DEF a, Positions

\* Slot s is between front and back.
Shown(s) == s \in Positions /\ Used(front, s) < Used(front, back)

LEMMA ShownIsVisible ==
    ASSUME front \in Positions, back \in Positions, NEW s, Shown(s)
    PROVE  ring[s] \in Visible(front, back)
<1> DEFINE i == Used(front, s)
<1>1. i = IF front <= s THEN s - front ELSE s - front + Slots
  BY UsedIs DEF Shown
<1>2. Used(front, back) \in 0 .. Slots - 1
  BY UsedIs, SlotsAssumption DEF Positions
<1>3. i \in 0 .. Used(front, back) - 1
  BY <1>1, <1>2, SlotsAssumption DEF Shown, Positions
<1>4. (front + i) % Slots = s
  <2> DEFINE a == front + i
  <2>1. a \in Int /\ -Slots <= a /\ a < 2 * Slots
    BY <1>1, SlotsAssumption DEF Shown, Positions
  <2>2. a = IF front <= s THEN s ELSE s + Slots
    BY <1>1, SlotsAssumption DEF Shown, Positions
  <2> HIDE DEF a
  <2>3. a % Slots = IF a < 0 THEN a + Slots ELSE IF a < Slots THEN a ELSE a - Slots
    BY <2>1, RemainderInRing
  <2>4. a % Slots = s
    BY <2>2, <2>3, SlotsAssumption DEF Shown, Positions
  <2> QED
    BY <2>4 DEF a
<1> QED
  BY <1>3, <1>4 DEF Visible

-----------------------------------------------------------------------------
(* The messages *)

Places == {"down", "start", "truncate", "setFront", "setBack", "create", "stat",
           "failed", "ready", "copied", "moved"}

Types ==
    /\ front \in Positions /\ back \in Positions
    /\ ring \in [Positions -> Nat]
    /\ pc \in [Procs -> Places]
    /\ target \in [Procs -> Positions]
    /\ taken \in Nat /\ sent \in Nat
    /\ got \in Seq(Nat)
    /\ disturbed \in BOOLEAN

\* A Listen begins by moving front to 0, where it stays.
ResetInv == \A p \in Procs : pc[p] = "setBack" => front = 0

\* The record a Write has copied lies behind the others, where there is room.
WriteInv ==
    pc[Producer] = "copied" =>
        /\ target[Producer] = Advance(back)
        /\ ring[back] = sent + 1
        /\ Used(front, back) < Slots - 1

\* The record a Read has copied is the first one.
ReadInv ==
    pc[Consumer] = "copied" =>
        /\ pc[Producer] # "setBack"
        /\ front # back
        /\ target[Consumer] = Advance(front)
        /\ taken = ring[front]

\* What was popped, with what Pop is about to return, is in order.
GotInv ==
    /\ Increasing(got)
    /\ \A i \in 1 .. Len(got) : got[i] \in 1 .. sent
    /\ pc[Consumer] = "moved" =>
          taken \in 1 .. sent /\ \A i \in 1 .. Len(got) : got[i] < taken

\* What is in the ring is in order and newer than what was popped.
Ordered ==
    \A s \in Positions : Shown(s) =>
        /\ ring[s] \in 1 .. sent
        /\ \A i \in 1 .. Len(got) : got[i] < ring[s]
        /\ pc[Consumer] = "moved" => taken < ring[s]
        /\ \A t \in Positions :
              Shown(t) /\ Used(front, s) < Used(front, t) => ring[s] < ring[t]

\* Message m is where it should be.
Kept(m) ==
    \/ m \in Range(got) \cup missing
    \/ pc[Consumer] = "moved" /\ taken = m
    \/ \E s \in Positions : Shown(s) /\ ring[s] = m

Undisturbed ==
    /\ ResetInv /\ WriteInv /\ ReadInv /\ GotInv
    /\ (\A p \in Procs : ~HalfReset(p)) => Ordered
    /\ \A m \in 1 .. sent : Kept(m)

RingInv == Types /\ (~disturbed => Undisturbed)

\* How far slots are from front: each slot differs, and moving front or back
\* by one slot changes the distance by one.
LEMMA UsedBasics ==
    ASSUME NEW f \in Positions, NEW s \in Positions, NEW t \in Positions
    PROVE  /\ Used(f, s) \in 0 .. Slots - 1
           /\ Used(f, s) = 0 <=> s = f
           /\ Used(f, s) = Used(f, t) => s = t
<1>1. /\ Used(f, s) = IF f <= s THEN s - f ELSE s - f + Slots
      /\ Used(f, t) = IF f <= t THEN t - f ELSE t - f + Slots
  BY UsedIs
<1> QED
  BY <1>1, SlotsAssumption DEF Positions

LEMMA FrontMoves ==
    ASSUME NEW f \in Positions, NEW s \in Positions
    PROVE  /\ Advance(f) \in Positions
           /\ s # f => Used(Advance(f), s) = Used(f, s) - 1
           /\ Used(Advance(f), f) = Slots - 1
<1>1. Advance(f) \in Positions
  BY AdvanceIs, SlotsAssumption DEF Positions
<1>2. /\ Used(f, s) = IF f <= s THEN s - f ELSE s - f + Slots
      /\ Used(Advance(f), s) = IF Advance(f) <= s THEN s - Advance(f)
                               ELSE s - Advance(f) + Slots
      /\ Used(Advance(f), f) = IF Advance(f) <= f THEN f - Advance(f)
                               ELSE f - Advance(f) + Slots
  BY <1>1, UsedIs
<1> QED
  BY <1>1, <1>2, AdvanceIs, SlotsAssumption DEF Positions

LEMMA BackMoves ==
    ASSUME NEW f \in Positions, NEW b \in Positions, Used(f, b) < Slots - 1
    PROVE  /\ Advance(b) \in Positions
           /\ Used(f, Advance(b)) = Used(f, b) + 1
<1>1. Advance(b) \in Positions
  BY FrontMoves
<1>2. /\ Used(f, b) = IF f <= b THEN b - f ELSE b - f + Slots
      /\ Used(f, Advance(b)) = IF f <= Advance(b) THEN Advance(b) - f
                               ELSE Advance(b) - f + Slots
  BY <1>1, UsedIs
<1> QED
  BY <1>1, <1>2, AdvanceIs, SlotsAssumption DEF Positions

LEMMA TwoProcs ==
    /\ Procs = {Producer, Consumer} /\ Producer # Consumer
    /\ Other(Producer) = Consumer /\ Other(Consumer) = Producer
  BY DEF Procs, Producer, Consumer, Other

\* Every variable keeps its type.
LEMMA TypesStep == Types /\ [Next]_vars => Types'
<1> SUFFICES ASSUME Types, [Next]_vars PROVE Types'
  OBVIOUS
<1> USE DEF shared, history, Types, Goto
<1>0. 0 \in Positions /\ \A s \in Positions : Advance(s) \in Positions
  BY FrontMoves, SlotsAssumption DEF Positions
<1>1. ASSUME NEW p \in Procs, Attach(p)
      PROVE  Types'
  <2>1. CASE Start(p) \/ Listen(p) \/ Truncate(p) \/ Connect(p)
    BY <2>1 DEF Start, Listen, Truncate, Connect, Places
  <2>2. CASE Create(p) \/ TryRecover(p) \/ Recover(p) \/ AttachAgain(p)
    BY <2>2 DEF Create, TryRecover, Recover, AttachAgain, Places
  <2>3. CASE SetFront(p)
    BY <1>0, <2>3, Zenon DEF SetFront, Places
  <2>4. CASE SetBack(p)
    BY <1>0, <2>4, Zenon DEF SetBack, Places
  <2> QED
    BY <1>1, <2>1, <2>2, <2>3, <2>4 DEF Attach
<1>2. ASSUME Write
      PROVE  Types'
  <2>1. CASE WriteCopy
    <3>1. ring' \in [Positions -> Nat]
      BY <2>1 DEF WriteCopy
    <3>2. Advance(back) \in Positions
      BY <1>0
    <3>3. target' \in [Procs -> Positions]
      BY <2>1, <3>2 DEF WriteCopy
    <3> QED
      BY <2>1, <3>1, <3>3 DEF WriteCopy, Places
  <2>2. CASE WritePublish
    BY <2>2, TwoProcs DEF WritePublish, Places
  <2>3. CASE WriteReturn
    BY <2>3 DEF WriteReturn, Places
  <2> QED
    BY <1>2, <2>1, <2>2, <2>3 DEF Write
<1>3. ASSUME Read
      PROVE  Types'
  <2>1. CASE ReadCopy
    <3>1. target' \in [Procs -> Positions] /\ taken' \in Nat
      BY <1>0, <2>1 DEF ReadCopy
    <3>2. disturbed' \in BOOLEAN
      BY <2>1, Zenon DEF ReadCopy
    <3> QED
      BY <2>1, <3>1, <3>2 DEF ReadCopy, Places
  <2>2. CASE ReadRelease
    BY <2>2, TwoProcs DEF ReadRelease, Places
  <2>3. CASE ReadReturn
    <3>1. got' \in Seq(Nat)
      BY <2>3 DEF ReadReturn
    <3> QED
      BY <2>3, <3>1 DEF ReadReturn, Places
  <2> QED
    BY <1>3, <2>1, <2>2, <2>3 DEF Read
<1>4. ASSUME NEW p \in Procs, Fault(p)
      PROVE  Types'
  BY <1>4 DEF Fault, Places
<1>5. ASSUME NEW p \in Procs, Die(p)
      PROVE  Types'
  <2>1. disturbed' \in BOOLEAN
    BY <1>5, Zenon DEF Die
  <2> QED
    BY <1>5, <2>1 DEF Die, Places
<1>6. ASSUME UNCHANGED vars
      PROVE  Types'
  BY <1>6 DEF vars
<1> QED
  BY <1>1, <1>2, <1>3, <1>4, <1>5, <1>6 DEF Next

\* Process p goes to a place where it relies on nothing in the ring, and the
\* ring stays as it is.
LEMMA PlainStep ==
    ASSUME Types, Undisturbed, NEW p \in Procs,
           NEW place \in Places \ {"setBack", "copied", "moved"},
           Goto(p, place), ~HalfReset(p),
           UNCHANGED <<front, back, ring, target, taken, sent, got>>,
           missing \subseteq missing',
           p = Consumer /\ pc[p] = "moved" => taken \in missing'
    PROVE  Undisturbed'
<1>1. \A q \in Procs :
          pc'[q] \in {"setBack", "copied", "moved"} => q # p /\ pc'[q] = pc[q]
  BY DEF Goto, Types
<1>2. \A q \in Procs : q # p => pc'[q] = pc[q]
  BY DEF Goto, Types
<1>3. ResetInv' /\ WriteInv' /\ ReadInv' /\ GotInv'
  <2>1. ResetInv'
    BY <1>1 DEF Undisturbed, ResetInv
  <2>2. WriteInv'
    BY <1>1, TwoProcs DEF Undisturbed, WriteInv
  <2>3. ReadInv'
    BY <1>1, TwoProcs DEF Undisturbed, ReadInv
  <2>4. GotInv'
    BY <1>1, TwoProcs DEF Undisturbed, GotInv, Increasing
  <2> QED
    BY <2>1, <2>2, <2>3, <2>4
<1>4. (\A q \in Procs : ~HalfReset(q)') => Ordered'
  <2>1. ASSUME \A q \in Procs : ~HalfReset(q)' PROVE Ordered
    BY <1>2, <2>1 DEF Undisturbed, HalfReset
  <2>2. ASSUME Ordered PROVE Ordered'
    BY <1>1, <2>2, TwoProcs DEF Ordered, Shown
  <2> QED
    BY <2>1, <2>2
<1>5. ASSUME NEW m \in 1 .. sent' PROVE Kept(m)'
  <2>1. Kept(m)
    BY <1>5 DEF Undisturbed
  <2> QED
    BY <1>2, <2>1, TwoProcs DEF Kept, Shown
<1> QED
  BY <1>3, <1>4, <1>5 DEF Undisturbed

\* Listen begins to discard.
LEMMA SetFrontStep ==
    ASSUME Types, Undisturbed, NEW p \in Procs, SetFront(p), ~disturbed'
    PROVE  Undisturbed'
<1> USE DEF shared, history
<1>1. /\ front' = 0 /\ pc[p] = "setFront" /\ pc[Other(p)] # "copied"
      /\ pc' = [pc EXCEPT ![p] = "setBack"]
      /\ missing' = missing \cup Visible(front, back)
      /\ UNCHANGED <<back, ring, target, taken, sent, got>>
  BY DEF SetFront, Goto
<1>2. pc'[p] = "setBack" /\ \A q \in Procs : q # p => pc'[q] = pc[q]
  BY <1>1 DEF Types
<1>3. pc'[Producer] # "copied" /\ pc'[Consumer] # "copied"
  BY <1>1, <1>2, TwoProcs
<1>4. ResetInv' /\ WriteInv' /\ ReadInv'
  BY <1>1, <1>3 DEF ResetInv, WriteInv, ReadInv
<1>5. GotInv'
  BY <1>1, <1>2, TwoProcs DEF Undisturbed, GotInv, Increasing
<1>6. (\A q \in Procs : ~HalfReset(q)') => Ordered'
  <2>1. SUFFICES ASSUME back' = 0 PROVE Ordered'
    BY <1>2 DEF HalfReset
  <2>2. 0 \in Positions
    BY SlotsAssumption DEF Positions
  <2>3. \A s \in Positions : ~(Used(0, s) < Used(0, 0))
    BY <2>2, UsedBasics
  <2> QED
    BY <1>1, <2>1, <2>3 DEF Ordered, Shown
<1>7. ASSUME NEW m \in 1 .. sent' PROVE Kept(m)'
  <2>1. Kept(m)
    BY <1>1, <1>7 DEF Undisturbed
  <2>2. CASE m \in Range(got) \cup missing
    BY <1>1, <2>2 DEF Kept
  <2>3. CASE pc[Consumer] = "moved" /\ taken = m
    BY <1>1, <1>2, <2>3, TwoProcs DEF Kept
  <2>4. ASSUME NEW s \in Positions, Shown(s), ring[s] = m PROVE Kept(m)'
    <3>1. m \in Visible(front, back)
      BY <2>4, ShownIsVisible DEF Types
    <3> QED
      BY <1>1, <3>1 DEF Kept
  <2> QED
    BY <2>1, <2>2, <2>3, <2>4 DEF Kept
<1> QED
  BY <1>4, <1>5, <1>6, <1>7 DEF Undisturbed

\* Listen has discarded: the ring is empty.
LEMMA SetBackStep ==
    ASSUME Types, Undisturbed, NEW p \in Procs, SetBack(p), ~disturbed'
    PROVE  Undisturbed'
<1> USE DEF shared, history
<1>1. /\ back' = 0 /\ pc[p] = "setBack" /\ pc[Other(p)] # "copied"
      /\ pc' = [pc EXCEPT ![p] = "ready"]
      /\ missing' = missing \cup Visible(front, back)
      /\ UNCHANGED <<front, ring, target, taken, sent, got>>
  BY DEF SetBack, Goto
<1>2. pc'[p] = "ready" /\ \A q \in Procs : q # p => pc'[q] = pc[q]
  BY <1>1 DEF Types
<1>3. pc'[Producer] # "copied" /\ pc'[Consumer] # "copied"
  BY <1>1, <1>2, TwoProcs
<1>4. ResetInv' /\ WriteInv' /\ ReadInv'
  BY <1>1, <1>2, <1>3 DEF Undisturbed, ResetInv, WriteInv, ReadInv
<1>5. GotInv'
  BY <1>1, <1>2, TwoProcs DEF Undisturbed, GotInv, Increasing
<1>6. Ordered'
  <2>1. front' = 0
    BY <1>1 DEF Undisturbed, ResetInv
  <2>2. 0 \in Positions
    BY SlotsAssumption DEF Positions
  <2>3. \A s \in Positions : ~(Used(0, s) < Used(0, 0))
    BY <2>2, UsedBasics
  <2> QED
    BY <1>1, <2>1, <2>3 DEF Ordered, Shown
<1>7. ASSUME NEW m \in 1 .. sent' PROVE Kept(m)'
  <2>1. Kept(m)
    BY <1>1, <1>7 DEF Undisturbed
  <2>2. CASE m \in Range(got) \cup missing
    BY <1>1, <2>2 DEF Kept
  <2>3. CASE pc[Consumer] = "moved" /\ taken = m
    BY <1>1, <1>2, <2>3, TwoProcs DEF Kept
  <2>4. ASSUME NEW s \in Positions, Shown(s), ring[s] = m PROVE Kept(m)'
    <3>1. m \in Visible(front, back)
      BY <2>4, ShownIsVisible DEF Types
    <3> QED
      BY <1>1, <3>1 DEF Kept
  <2> QED
    BY <2>1, <2>2, <2>3, <2>4 DEF Kept
<1> QED
  BY <1>4, <1>5, <1>6, <1>7 DEF Undisturbed

\* The record is copied behind the others.
LEMMA WriteCopyStep ==
    ASSUME Types, Undisturbed, WriteCopy
    PROVE  Undisturbed'
<1> USE DEF shared, history
<1>1. /\ pc' = [pc EXCEPT ![Producer] = "copied"]
      /\ Used(front, back) < Slots - 1
      /\ ring' = [ring EXCEPT ![back] = sent + 1]
      /\ target' = [target EXCEPT ![Producer] = Advance(back)]
      /\ UNCHANGED <<front, back, taken, sent, got, missing>>
      /\ pc[Producer] = "ready"
  BY DEF WriteCopy, Goto
<1>2. pc'[Producer] = "copied" /\ pc'[Consumer] = pc[Consumer]
  BY <1>1, TwoProcs DEF Types
<1>3. \A s \in Positions : (Shown(s)' <=> Shown(s)) /\ (Shown(s) => ring'[s] = ring[s])
  <2>1. Used(front, back) \in Int
    BY UsedBasics DEF Types
  <2> QED
    BY <1>1, <2>1 DEF Shown, Types
<1>4. ResetInv'
  BY <1>1, <1>2, TwoProcs DEF Undisturbed, ResetInv
<1>5. WriteInv'
  BY <1>1, TwoProcs DEF WriteInv, Types
<1>6. ReadInv'
  <2>1. SUFFICES ASSUME pc[Consumer] = "copied" PROVE ReadInv'
    BY <1>2 DEF ReadInv
  <2>2. ring'[front] = ring[front] /\ target'[Consumer] = target[Consumer]
    BY <1>1, <2>1, TwoProcs DEF Undisturbed, ReadInv, Types
  <2> QED
    BY <1>1, <1>2, <2>1, <2>2 DEF Undisturbed, ReadInv
<1>7. GotInv'
  BY <1>1, <1>2 DEF Undisturbed, GotInv, Increasing
<1>8. (\A q \in Procs : ~HalfReset(q)') => Ordered'
  <2>1. ASSUME \A q \in Procs : ~HalfReset(q)' PROVE Ordered
    BY <1>1, <1>2, <2>1, TwoProcs DEF Undisturbed, HalfReset
  <2>2. ASSUME Ordered PROVE Ordered'
    BY <1>1, <1>2, <1>3, <2>2 DEF Ordered
  <2> QED
    BY <2>1, <2>2
<1>9. ASSUME NEW m \in 1 .. sent' PROVE Kept(m)'
  <2>1. Kept(m)
    BY <1>1, <1>9 DEF Undisturbed
  <2> QED
    BY <1>1, <1>2, <1>3, <2>1 DEF Kept
<1> QED
  BY <1>4, <1>5, <1>6, <1>7, <1>8, <1>9 DEF Undisturbed

\* The record is shown, and is the newest.
LEMMA WritePublishStep ==
    ASSUME Types, Undisturbed, WritePublish
    PROVE  Undisturbed'
<1> USE DEF shared, history
<1>1. /\ pc' = [pc EXCEPT ![Producer] = "moved"]
      /\ back' = Advance(back) /\ sent' = sent + 1 /\ ring[back] = sent + 1
      /\ Used(front, back) < Slots - 1
      /\ UNCHANGED <<front, ring, target, taken, got, missing>>
      /\ pc[Producer] = "copied"
  BY DEF WritePublish, Goto, Undisturbed, WriteInv
<1>2. pc'[Producer] = "moved" /\ pc'[Consumer] = pc[Consumer]
  BY <1>1, TwoProcs DEF Types
<1>3. back' \in Positions /\ Used(front, back') = Used(front, back) + 1
  BY <1>1, BackMoves DEF Types
<1>4. \A s \in Positions : Shown(s)' <=> Shown(s) \/ s = back
  <2>1. ASSUME NEW s \in Positions PROVE Shown(s)' <=> Shown(s) \/ s = back
    <3>1. /\ Used(front, s) \in Int /\ Used(front, back) \in Int
          /\ Used(front, s) = Used(front, back) => s = back
      BY UsedBasics DEF Types
    <3> QED
      BY <1>1, <1>3, <3>1 DEF Shown
  <2> QED
    BY <2>1
<1>5. sent \in Nat
  BY DEF Types
<1>6. ResetInv' /\ WriteInv'
  BY <1>1, <1>2, TwoProcs DEF Undisturbed, ResetInv, WriteInv
<1>7. ReadInv'
  <2>1. front # back'
    BY <1>3, UsedBasics DEF Types
  <2> QED
    BY <1>1, <1>2, <2>1 DEF Undisturbed, ReadInv
<1>8. GotInv'
  BY <1>1, <1>2, <1>5 DEF Undisturbed, GotInv, Increasing
<1>9. (\A q \in Procs : ~HalfReset(q)') => Ordered'
  <2>1. SUFFICES ASSUME \A q \in Procs : ~HalfReset(q)' PROVE Ordered'
    OBVIOUS
  <2>2. Ordered
    \* The consumer is not in the middle of a Listen: back would have come
    \* round to 0, where front is, without room for it.
    <3>1. pc[Consumer] # "setBack"
      <4>1. SUFFICES ASSUME pc[Consumer] = "setBack" PROVE FALSE
        OBVIOUS
      <4>2. back' = 0 /\ front = 0
        BY <1>2, <2>1, <4>1, TwoProcs DEF HalfReset, Undisturbed, ResetInv
      <4>3. Used(front, back') = 0 /\ Used(front, back) \in Nat
        BY <4>2, UsedBasics DEF Types
      <4> QED
        BY <1>3, <4>3
    <3> QED
      BY <1>1, <3>1, TwoProcs DEF Undisturbed, HalfReset
  <2>3. ASSUME NEW s \in Positions, Shown(s)'
        PROVE  /\ ring[s] \in 1 .. sent'
               /\ \A i \in 1 .. Len(got) : got[i] < ring[s]
               /\ pc[Consumer] = "moved" => taken < ring[s]
    <3>1. CASE Shown(s)
      BY <1>1, <1>5, <2>2, <3>1 DEF Ordered
    <3>2. CASE s = back
      BY <1>1, <1>5, <3>2 DEF Undisturbed, GotInv
    <3> QED
      BY <1>4, <2>3, <3>1, <3>2
  <2>4. ASSUME NEW s \in Positions, NEW t \in Positions, Shown(s)', Shown(t)',
               Used(front, s) < Used(front, t)
        PROVE  ring[s] < ring[t]
    <3>1. /\ Used(front, s) \in Int /\ Used(front, t) \in Int
          /\ Used(front, back) \in Int
      BY UsedBasics DEF Types
    <3>2. Shown(s)
      <4>1. Used(front, t) <= Used(front, back)
        BY <1>1, <1>3, <2>4, <3>1 DEF Shown
      <4> QED
        BY <2>4, <3>1, <4>1 DEF Shown
    <3>3. CASE Shown(t)
      BY <2>2, <2>4, <3>2, <3>3 DEF Ordered
    <3>4. CASE t = back
      BY <1>1, <1>5, <2>2, <3>2, <3>4 DEF Ordered
    <3> QED
      BY <1>4, <2>4, <3>3, <3>4
  <2> QED
    BY <1>1, <1>2, <2>3, <2>4 DEF Ordered
<1>10. ASSUME NEW m \in 1 .. sent' PROVE Kept(m)'
  <2>1. CASE m \in 1 .. sent
    <3>1. Kept(m)
      BY <2>1 DEF Undisturbed
    <3> QED
      BY <1>1, <1>2, <1>4, <3>1 DEF Kept
  <2>2. CASE m = sent + 1
    BY <1>1, <1>4, <2>2 DEF Kept, Types
  <2> QED
    BY <1>1, <1>5, <1>10, <2>1, <2>2
<1> QED
  BY <1>6, <1>7, <1>8, <1>9, <1>10 DEF Undisturbed

\* The first record is copied.
LEMMA ReadCopyStep ==
    ASSUME Types, Undisturbed, ReadCopy, ~disturbed'
    PROVE  Undisturbed'
<1> USE DEF shared, history
<1>1. /\ pc' = [pc EXCEPT ![Consumer] = "copied"]
      /\ front # back /\ ~HalfReset(Producer)
      /\ taken' = ring[front]
      /\ target' = [target EXCEPT ![Consumer] = Advance(front)]
      /\ UNCHANGED <<front, back, ring, sent, got, missing>>
      /\ pc[Consumer] = "ready"
  BY DEF ReadCopy, Goto
<1>2. pc'[Consumer] = "copied" /\ pc'[Producer] = pc[Producer]
  BY <1>1, TwoProcs DEF Types
<1>3. ResetInv'
  BY <1>1, <1>2, TwoProcs DEF Undisturbed, ResetInv
<1>4. WriteInv'
  BY <1>1, <1>2, TwoProcs DEF Undisturbed, WriteInv, Types
<1>5. ReadInv'
  <2>1. pc[Producer] # "setBack"
    BY <1>1, TwoProcs DEF HalfReset, Undisturbed, ResetInv
  <2> QED
    BY <1>1, <1>2, <2>1, TwoProcs DEF ReadInv, Types
<1>6. GotInv'
  BY <1>1, <1>2 DEF Undisturbed, GotInv, Increasing
<1>7. Ordered'
  <2>1. Ordered
    BY <1>1, TwoProcs DEF Undisturbed, HalfReset
  <2> QED
    BY <1>1, <1>2, <2>1 DEF Ordered, Shown
<1>8. ASSUME NEW m \in 1 .. sent' PROVE Kept(m)'
  <2>1. Kept(m)
    BY <1>1, <1>8 DEF Undisturbed
  <2> QED
    BY <1>1, <1>2, <2>1 DEF Kept, Shown
<1> QED
  BY <1>3, <1>4, <1>5, <1>6, <1>7, <1>8 DEF Undisturbed

\* The first record is released: Pop is about to return it.
LEMMA ReadReleaseStep ==
    ASSUME Types, Undisturbed, ReadRelease
    PROVE  Undisturbed'
<1> USE DEF shared, history
<1>1. /\ pc' = [pc EXCEPT ![Consumer] = "moved"]
      /\ pc[Consumer] = "copied"
      /\ front # back /\ taken = ring[front] /\ front' = Advance(front)
      /\ pc[Producer] # "setBack"
      /\ UNCHANGED <<back, ring, target, taken, sent, got, missing>>
  BY DEF ReadRelease, Goto, Undisturbed, ReadInv
<1>2. pc'[Consumer] = "moved" /\ pc'[Producer] = pc[Producer]
  BY <1>1, TwoProcs DEF Types
<1>3. /\ front' \in Positions
      /\ Used(front', front) = Slots - 1
      /\ \A s \in Positions : s # front => Used(front', s) = Used(front, s) - 1
  BY <1>1, FrontMoves DEF Types
<1>4. \A s \in Positions : Used(front, s) \in 0 .. Slots - 1
  BY UsedBasics DEF Types
<1>5. Used(front', back) = Used(front, back) - 1
  BY <1>1, <1>3 DEF Types
<1>6. \A s \in Positions : Shown(s)' <=> Shown(s) /\ s # front
  <2>1. ASSUME NEW s \in Positions PROVE Shown(s)' <=> Shown(s) /\ s # front
    BY <1>1, <1>3, <1>4, <1>5, SlotsAssumption DEF Shown, Types
  <2> QED
    BY <2>1
<1>7. Shown(front) /\ Ordered
  <2>1. Used(front, front) = 0 /\ Used(front, back) # 0
    BY <1>1, UsedBasics DEF Types
  <2>2. Shown(front)
    BY <1>4, <2>1 DEF Shown, Types
  <2>3. Ordered
    BY <1>1, TwoProcs DEF Undisturbed, HalfReset
  <2> QED
    BY <2>2, <2>3
<1>8. taken \in 1 .. sent /\ \A i \in 1 .. Len(got) : got[i] < taken
  BY <1>1, <1>7 DEF Ordered, Types
<1>9. ResetInv' /\ WriteInv' /\ ReadInv'
  <2>1. ResetInv'
    BY <1>1, <1>2, TwoProcs DEF ResetInv
  <2>2. WriteInv'
    <3>1. Used(front, back) \in Int
      BY <1>4 DEF Types
    <3> QED
      BY <1>1, <1>2, <1>5, <3>1, SlotsAssumption DEF Undisturbed, WriteInv
  <2>3. ReadInv'
    BY <1>2 DEF ReadInv
  <2> QED
    BY <2>1, <2>2, <2>3
<1>10. GotInv'
  BY <1>1, <1>2, <1>8 DEF Undisturbed, GotInv, Increasing
<1>11. Ordered'
  <2>1. ASSUME NEW s \in Positions, Shown(s)'
        PROVE  /\ ring[s] \in 1 .. sent
               /\ \A i \in 1 .. Len(got) : got[i] < ring[s]
               /\ taken < ring[s]
    <3>1. Shown(s) /\ s # front
      BY <1>6, <2>1
    <3>2. Used(front, front) < Used(front, s)
      <4>1. Used(front, front) = 0 /\ Used(front, s) # 0
        BY <3>1, UsedBasics DEF Types
      <4> QED
        BY <1>4, <4>1
    <3> QED
      BY <1>1, <1>7, <3>1, <3>2 DEF Ordered, Types
  <2>2. ASSUME NEW s \in Positions, NEW t \in Positions, Shown(s)', Shown(t)',
               Used(front', s) < Used(front', t)
        PROVE  ring[s] < ring[t]
    <3>1. Shown(s) /\ Shown(t) /\ s # front /\ t # front
      BY <1>6, <2>2
    <3>2. Used(front, s) < Used(front, t)
      BY <1>3, <1>4, <2>2, <3>1
    <3> QED
      BY <1>7, <3>1, <3>2 DEF Ordered
  <2> QED
    BY <1>1, <2>1, <2>2 DEF Ordered
<1>12. ASSUME NEW m \in 1 .. sent' PROVE Kept(m)'
  <2>1. Kept(m)
    BY <1>1, <1>12 DEF Undisturbed
  <2>2. ASSUME NEW s \in Positions, Shown(s), ring[s] = m PROVE Kept(m)'
    <3>1. CASE s = front
      BY <1>1, <1>2, <2>2, <3>1 DEF Kept
    <3>2. CASE s # front
      BY <1>1, <1>6, <2>2, <3>2 DEF Kept
    <3> QED
      BY <3>1, <3>2
  <2> QED
    BY <1>1, <2>1, <2>2 DEF Kept
<1> QED
  BY <1>9, <1>10, <1>11, <1>12 DEF Undisturbed

\* Pop returns the message.
LEMMA ReadReturnStep ==
    ASSUME Types, Undisturbed, ReadReturn, ~disturbed
    PROVE  Undisturbed'
<1> USE DEF shared, history
<1>1. /\ pc' = [pc EXCEPT ![Consumer] = "ready"]
      /\ pc[Consumer] = "moved"
      /\ got' = Append(got, taken)
      /\ UNCHANGED <<front, back, ring, target, taken, sent, missing>>
  BY DEF ReadReturn, Goto
<1>2. pc'[Consumer] = "ready" /\ pc'[Producer] = pc[Producer]
  BY <1>1, TwoProcs DEF Types
<1>3. /\ Len(got') = Len(got) + 1 /\ Len(got) \in Nat
      /\ \A i \in 1 .. Len(got) : got'[i] = got[i]
      /\ got'[Len(got) + 1] = taken
      /\ DOMAIN got' = 1 .. Len(got')
      /\ DOMAIN got = 1 .. Len(got)
  BY <1>1 DEF Types
<1>4. taken \in 1 .. sent /\ \A i \in 1 .. Len(got) : got[i] < taken
  BY <1>1 DEF Undisturbed, GotInv
<1>5. ResetInv' /\ WriteInv' /\ ReadInv'
  BY <1>1, <1>2, TwoProcs DEF Undisturbed, ResetInv, WriteInv, ReadInv
<1>6. GotInv'
  <2>1. Increasing(got')
    <3>1. Increasing(got)
      BY DEF Undisturbed, GotInv
    <3>2. ASSUME NEW i \in 1 .. Len(got'), NEW j \in 1 .. Len(got'), i < j
          PROVE  got'[i] < got'[j]
      <4>1. CASE j = Len(got) + 1
        <5>1. i \in 1 .. Len(got)
          BY <1>3, <3>2, <4>1
        <5> QED
          BY <1>3, <1>4, <4>1, <5>1
      <4>2. CASE j \in 1 .. Len(got)
        <5>1. i \in 1 .. Len(got)
          BY <1>3, <3>2, <4>2
        <5> QED
          BY <1>3, <3>1, <3>2, <4>2, <5>1 DEF Increasing
      <4> QED
        BY <1>3, <3>2, <4>1, <4>2
    <3> QED
      BY <3>2 DEF Increasing
  <2>2. ASSUME NEW i \in 1 .. Len(got') PROVE got'[i] \in 1 .. sent'
    <3>1. CASE i = Len(got) + 1
      BY <1>1, <1>3, <1>4, <3>1
    <3>2. CASE i \in 1 .. Len(got)
      BY <1>1, <1>3, <3>2 DEF Undisturbed, GotInv
    <3> QED
      BY <1>3, <2>2, <3>1, <3>2
  <2> QED
    BY <1>2, <2>1, <2>2 DEF GotInv
<1>7. (\A q \in Procs : ~HalfReset(q)') => Ordered'
  <2>1. SUFFICES ASSUME \A q \in Procs : ~HalfReset(q)' PROVE Ordered'
    OBVIOUS
  <2>2. Ordered
    BY <1>1, <1>2, <2>1, TwoProcs DEF Undisturbed, HalfReset
  <2>3. ASSUME NEW s \in Positions, Shown(s), NEW i \in 1 .. Len(got')
        PROVE  got'[i] < ring[s]
    <3>1. CASE i = Len(got) + 1
      BY <1>1, <1>3, <2>2, <2>3, <3>1 DEF Ordered
    <3>2. CASE i \in 1 .. Len(got)
      BY <1>3, <2>2, <2>3, <3>2 DEF Ordered
    <3> QED
      BY <1>3, <2>3, <3>1, <3>2
  <2> QED
    BY <1>1, <1>2, <2>2, <2>3 DEF Ordered, Shown
<1>8. ASSUME NEW m \in 1 .. sent' PROVE Kept(m)'
  <2>1. Kept(m)
    BY <1>1, <1>8 DEF Undisturbed
  <2>2. Range(got) \cup {taken} \subseteq Range(got')
    BY <1>3 DEF Range
  <2> QED
    BY <1>1, <2>1, <2>2 DEF Kept, Shown
<1> QED
  BY <1>5, <1>6, <1>7, <1>8 DEF Undisturbed

\* Once a bus is disturbed it stays so, and until then every step keeps the
\* messages.
LEMMA RingStep == RingInv /\ [Next]_vars => RingInv'
<1> SUFFICES ASSUME RingInv, [Next]_vars, ~disturbed' PROVE Undisturbed'
  BY TypesStep DEF RingInv
<1> USE DEF shared, history
<1>1. Types /\ Types'
  BY TypesStep DEF RingInv
<1>2. ~disturbed => Undisturbed
  BY DEF RingInv
<1>3. ASSUME NEW p \in Procs, Attach(p)
      PROVE  Undisturbed'
  <2>1. CASE Start(p) \/ Listen(p) \/ Truncate(p) \/ Connect(p)
    <3>1. PICK place \in Places \ {"setBack", "copied", "moved"} : Goto(p, place)
      BY <2>1 DEF Start, Listen, Truncate, Connect, Places
    <3>2. ~HalfReset(p) /\ pc[p] # "moved"
      BY <2>1 DEF Start, Listen, Truncate, Connect, HalfReset
    <3> QED
      BY <1>1, <1>2, <2>1, <3>1, <3>2, PlainStep
      DEF Start, Listen, Truncate, Connect
  <2>2. CASE Create(p) \/ TryRecover(p) \/ Recover(p) \/ AttachAgain(p)
    <3>1. PICK place \in Places \ {"setBack", "copied", "moved"} : Goto(p, place)
      BY <2>2 DEF Create, TryRecover, Recover, AttachAgain, Places
    <3>2. ~HalfReset(p) /\ pc[p] # "moved"
      BY <2>2 DEF Create, TryRecover, Recover, AttachAgain, HalfReset
    <3> QED
      BY <1>1, <1>2, <2>2, <3>1, <3>2, PlainStep
      DEF Create, TryRecover, Recover, AttachAgain
  <2>3. CASE SetFront(p)
    <3>1. ~disturbed
      BY <2>3, Zenon DEF SetFront
    <3> QED
      BY <1>1, <1>2, <2>3, <3>1, SetFrontStep
  <2>4. CASE SetBack(p)
    <3>1. ~disturbed
      BY <2>4, Zenon DEF SetBack
    <3> QED
      BY <1>1, <1>2, <2>4, <3>1, SetBackStep
  <2> QED
    BY <1>3, <2>1, <2>2, <2>3, <2>4 DEF Attach
<1>4. ASSUME Write
      PROVE  Undisturbed'
  <2>1. CASE WriteCopy
    BY <1>1, <1>2, <2>1, WriteCopyStep DEF WriteCopy
  <2>2. CASE WritePublish
    BY <1>1, <1>2, <2>2, WritePublishStep DEF WritePublish
  <2>3. CASE WriteReturn
    <3>1. "ready" \in Places \ {"setBack", "copied", "moved"} /\ ~HalfReset(Producer)
      BY <2>3 DEF WriteReturn, Places, HalfReset
    <3> QED
      BY <1>1, <1>2, <2>3, <3>1, PlainStep, TwoProcs DEF WriteReturn
  <2> QED
    BY <1>4, <2>1, <2>2, <2>3 DEF Write
<1>5. ASSUME Read
      PROVE  Undisturbed'
  <2>1. CASE ReadCopy
    <3>1. ~disturbed
      BY <2>1, Zenon DEF ReadCopy
    <3> QED
      BY <1>1, <1>2, <2>1, <3>1, ReadCopyStep
  <2>2. CASE ReadRelease
    BY <1>1, <1>2, <2>2, ReadReleaseStep DEF ReadRelease
  <2>3. CASE ReadReturn
    BY <1>1, <1>2, <2>3, ReadReturnStep DEF ReadReturn
  <2> QED
    BY <1>5, <2>1, <2>2, <2>3 DEF Read
<1>6. ASSUME NEW p \in Procs, Fault(p)
      PROVE  Undisturbed'
  <2>1. "down" \in Places \ {"setBack", "copied", "moved"} /\ ~HalfReset(p)
    BY <1>6 DEF Fault, Places, HalfReset
  <2> QED
    BY <1>1, <1>2, <1>6, <2>1, PlainStep DEF Fault
<1>7. ASSUME NEW p \in Procs, Die(p)
      PROVE  Undisturbed'
  <2>1. ~disturbed /\ ~HalfReset(p)
    BY <1>7, Zenon DEF Die
  <2>2. "down" \in Places \ {"setBack", "copied", "moved"}
    BY DEF Places
  <2>3. missing \subseteq missing' /\ (p = Consumer /\ pc[p] = "moved" => taken \in missing')
    BY <1>7 DEF Die
  <2> QED
    BY <1>1, <1>2, <1>7, <2>1, <2>2, <2>3, PlainStep DEF Die
<1>8. ASSUME UNCHANGED vars
      PROVE  Undisturbed'
  <2>1. Undisturbed
    BY <1>2, <1>8 DEF vars
  <2> QED
    BY <1>8, <2>1 DEF vars, Undisturbed, ResetInv, WriteInv, ReadInv, GotInv,
                      Increasing, Ordered, Shown, Kept, HalfReset
<1> QED
  BY <1>3, <1>4, <1>5, <1>6, <1>7, <1>8 DEF Next

\* Messages survive the death of either process at any step: what Pop returns is
\* in order and was pushed, and what it does not return a Listen discarded or
\* died with the consumer.
THEOREM MessagesSurvive == Spec => []SurvivorsInOrder
<1>1. Init => RingInv
  <2>1. SUFFICES ASSUME Init PROVE RingInv
    OBVIOUS
  <2>2. 0 \in Positions
    BY SlotsAssumption DEF Positions
  <2>3. \A s \in Positions : ~(Used(0, s) < Used(0, 0))
    BY <2>2, UsedBasics
  <2>4. Types
    BY <2>1, <2>2 DEF Init, Types, Places, Blank
  <2>5. ResetInv /\ WriteInv /\ ReadInv /\ GotInv
    BY <2>1, TwoProcs DEF Init, ResetInv, WriteInv, ReadInv, GotInv, Increasing
  <2>6. Ordered
    BY <2>1, <2>3 DEF Init, Ordered, Shown
  <2>7. \A m \in 1 .. sent : Kept(m)
    BY <2>1 DEF Init
  <2> QED
    BY <2>4, <2>5, <2>6, <2>7 DEF RingInv, Undisturbed
<1>2. RingInv => SurvivorsInOrder
  <2>1. SUFFICES ASSUME RingInv, ~disturbed PROVE SurvivorsInOrder
    BY DEF SurvivorsInOrder
  <2>2. ASSUME NEW m \in 1 .. sent
        PROVE  \/ m \in Range(got) \cup missing \cup Visible(front, back)
               \/ pc[Consumer] = "moved" /\ taken = m
    <3>1. Kept(m)
      BY <2>1 DEF RingInv, Undisturbed
    <3> QED
      BY <2>1, <3>1, ShownIsVisible DEF Kept, RingInv, Types
  <2> QED
    BY <2>1, <2>2 DEF SurvivorsInOrder, RingInv, Undisturbed, GotInv
<1> QED
  BY <1>1, <1>2, RingStep, PTL DEF Spec
=============================================================================
