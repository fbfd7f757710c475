------------------------------ MODULE HttpProofs ------------------------------
(***************************************************************************)
(* Theorems about HttpServer, and about SliceFind, the search its codec finds *)
(* the ends of lines with.                                                   *)
(*                                                                         *)
(* SliceFind, for texts and patterns of any length over any characters.  For  *)
(* find the argument is that of Knuth, Morris and Pratt as far as the code    *)
(* follows it: whatever the table holds is a border, so that a shift keeps    *)
(* what is matched; that the border is the longest, which the code does not   *)
(* ensure, is not needed for what is proved here.  For InternalFind it is:    *)
(* column by column the automaton leads to the longest state, character by    *)
(* character its state is the longest end of the text that starts the         *)
(* pattern.                                                                  *)
(*                                                                         *)
(* HttpServer, for streams of any symbols and length, cut into reads in any   *)
(* way, and any files.  The grammar's definitions look at a whole sequence,   *)
(* the parser at the rest of one: an invariant ties the parser to the prefix  *)
(* it has consumed.  That more bytes may come, or end, at any time is met by  *)
(* lemmas on how lines, heads and requests of a sequence extend to a longer   *)
(* one; what one call of the parser does is one lemma, FuncSteps.             *)
(***************************************************************************)
EXTENDS HttpServer, SliceFind, SequenceTheorems, WellFoundedInduction, TLAPS

-----------------------------------------------------------------------------
(* Numbers *)

\* A set of numbers has a least one.
Less == OpToRel(<, Nat)

LEMMA LeastNat ==
    ASSUME NEW T \in SUBSET Nat, T # {}
    PROVE  \E x \in T : \A y \in T : x <= y
<1>1. IsWellFoundedOn(Less, Nat)
  BY NatLessThanWellFounded DEF Less
<1>2. \A x \in Nat, y \in Nat : y < x => <<y, x>> \in Less
  BY DEF OpToRel, Less
<1>3. PICK x \in T : \A y \in T : ~ (<<y, x>> \in Less)
  BY <1>1, WFMin
<1>4. \A y \in T : x <= y
  <2> TAKE y \in T
  <2>1. ~(y < x)
    BY <1>2, <1>3
  <2> QED
    BY <2>1
<1> QED
  BY <1>4

-----------------------------------------------------------------------------
(* The inductive invariant *)

Entries == 0 .. PatternLength - 1

\* The first n characters of the pattern are the last n of those up to k.
Border(k, n) ==
    /\ n \in Nat /\ n <= k
    /\ \A j \in 0 .. n - 1 : p(k + 1 - n + j) = p(j)

FindTypeInv ==
    /\ text \in Seq(Char) /\ pattern \in Seq(Char)
    /\ loop \in {"table", "fallback", "search", "done"}
    /\ next \in [Entries -> Nat]
    /\ pos \in Nat /\ pos >= 2 /\ base \in Nat
    /\ m \in Nat /\ i \in Nat
    /\ result \in Nat \cup {npos}

TableInv == \A k \in Entries : Border(k, next[k])

FallbackInv ==
    loop = "fallback" => pos < PatternLength /\ base > 0 /\ Border(pos - 1, base)

\* The first i characters of the pattern match the text from m on.
Match ==
    /\ m + i <= Length
    /\ \A j \in 0 .. i - 1 : buf(m + j) = p(j)

SearchInv ==
    /\ loop \in {"table", "fallback"} => m = 0 /\ i = 0
    /\ loop = "search" =>
          /\ PatternLength <= Length
          /\ i < PatternLength \/ (PatternLength = 0 /\ i = 0)
          /\ Match
    /\ loop \in {"table", "fallback"} => PatternLength <= Length

\* The first character does not occur in the pattern again.
UniqueStart ==
    PatternLength > 0 /\ \A k \in 1 .. PatternLength - 1 : p(k) # p(0)

FirstInv ==
    UniqueStart =>
        /\ loop = "search" => \A q \in 0 .. m - 1 : ~OccursAt(q)
        /\ loop = "done" => IsFirst(result)

FindInv ==
    FindTypeInv /\ TableInv /\ FallbackInv /\ SearchInv /\ FoundIsOccurrence /\ FirstInv

-----------------------------------------------------------------------------
(* Borders *)

LEMMA LengthsAreNat ==
    ASSUME FindTypeInv
    PROVE  PatternLength \in Nat /\ Length \in Nat
  BY DEF FindTypeInv, PatternLength, Length

\* The entry the table starts from, and the two it can put there when it has
\* nothing to fall back to.
LEMMA EmptyBorder ==
    ASSUME NEW k \in Nat
    PROVE  Border(k, 0)
  BY DEF Border

LEMMA FirstBorder ==
    ASSUME NEW k \in Nat, k >= 1, p(k) = p(0)
    PROVE  Border(k, 1)
  BY DEF Border

\* A border that goes on by the character that follows is one of the longer part.
LEMMA BorderGrows ==
    ASSUME NEW k \in Nat, k >= 1, NEW n, Border(k - 1, n), p(k) = p(n)
    PROVE  Border(k, n + 1)
<1>1. n \in Nat /\ n <= k - 1 /\ \A j \in 0 .. n - 1 : p(k - n + j) = p(j)
  BY DEF Border
<1>2. ASSUME NEW j \in 0 .. n
      PROVE  p(k + 1 - (n + 1) + j) = p(j)
  <2>1. k + 1 - (n + 1) + j = k - n + j
    BY <1>1
  <2>2. CASE j = n
    <3>1. k - n + j = k
      BY <1>1, <2>2
    <3> QED
      BY <2>1, <2>2, <3>1
  <2>3. CASE j # n
    BY <1>1, <2>1, <2>3
  <2> QED
    BY <2>2, <2>3
<1> QED
  BY <1>1, <1>2 DEF Border

\* A border of a border is a border.
LEMMA BorderOfBorder ==
    ASSUME NEW k \in Nat, NEW b \in Nat \ {0}, Border(k, b), NEW n, Border(b - 1, n)
    PROVE  Border(k, n)
<1>1. b <= k /\ \A j \in 0 .. b - 1 : p(k + 1 - b + j) = p(j)
  BY DEF Border
<1>2. n \in Nat /\ n <= b - 1 /\ \A j \in 0 .. n - 1 : p(b - n + j) = p(j)
  BY DEF Border
<1>3. ASSUME NEW j \in 0 .. n - 1
      PROVE  p(k + 1 - n + j) = p(j)
  <2>1. b - n + j \in 0 .. b - 1
    BY <1>2
  <2>2. p(k + 1 - b + (b - n + j)) = p(b - n + j)
    BY <1>1, <2>1
  <2>3. k + 1 - b + (b - n + j) = k + 1 - n + j
    BY <1>2
  <2> QED
    BY <1>2, <2>2, <2>3
<1> QED
  BY <1>1, <1>2, <1>3 DEF Border

\* No border begins with a character that does not occur again.
LEMMA UniqueStartHasNoBorder ==
    ASSUME UniqueStart, NEW k \in Nat, k < PatternLength, PatternLength \in Nat,
           NEW n, Border(k, n)
    PROVE  n = 0
<1> SUFFICES ASSUME n # 0 PROVE FALSE
  OBVIOUS
<1>1. n \in Nat /\ n <= k /\ p(k + 1 - n + 0) = p(0)
  BY DEF Border
<1>2. k + 1 - n + 0 = k + 1 - n /\ k + 1 - n \in 1 .. PatternLength - 1
  BY <1>1
<1> QED
  BY <1>1, <1>2 DEF UniqueStart

-----------------------------------------------------------------------------
(* Occurrences *)

\* Where m matches as far as i, no occurrence of a pattern with a unique first
\* character begins between m and m + i.
LEMMA NoneInside ==
    ASSUME FindTypeInv, UniqueStart, Match, i <= PatternLength,
           NEW q \in Nat, m < q, q < m + i
    PROVE  ~OccursAt(q)
<1> SUFFICES ASSUME OccursAt(q) PROVE FALSE
  OBVIOUS
<1>0. m \in Nat /\ i \in Nat /\ PatternLength \in Nat
  BY LengthsAreNat DEF FindTypeInv
<1>1. buf(q + 0) = p(0)
  BY <1>0 DEF OccursAt, UniqueStart
<1>2. buf(m + (q - m)) = p(q - m)
  BY <1>0 DEF Match
<1>3. q + 0 = q /\ m + (q - m) = q /\ q - m \in 1 .. PatternLength - 1
  BY <1>0
<1> QED
  BY <1>1, <1>2, <1>3 DEF UniqueStart

-----------------------------------------------------------------------------
(* The invariant is inductive *)

LEMMA InitFindInv == FindInit => FindInv
<1> SUFFICES ASSUME FindInit PROVE FindInv
  OBVIOUS
<1>1. text \in Seq(Char) /\ pattern \in Seq(Char)
  BY TextsAssumption DEF FindInit
<1>2. FindTypeInv
  BY <1>1 DEF FindInit, FindTypeInv, Entries
<1>3. PatternLength \in Nat /\ Length \in Nat
  BY <1>2, LengthsAreNat
<1>4. TableInv
  BY <1>3, EmptyBorder DEF FindInit, TableInv, Entries
<1>5. FallbackInv /\ SearchInv /\ FoundIsOccurrence
  BY <1>3 DEF FindInit, FallbackInv, SearchInv, FoundIsOccurrence
<1>6. FirstInv
  BY <1>3 DEF FindInit, FirstInv, IsFirst, OccursAt, UniqueStart
<1> QED
  BY <1>2, <1>4, <1>5, <1>6 DEF FindInv

\* What is said of the arguments alone is as true after a step as before it.
LEMMA ArgumentsStay ==
    ASSUME UNCHANGED args
    PROVE  /\ Entries' = Entries /\ PatternLength' = PatternLength /\ Length' = Length
           /\ \A k : p(k)' = p(k) /\ buf(k)' = buf(k)
           /\ \A k, n : Border(k, n)' <=> Border(k, n)
           /\ \A k : OccursAt(k)' <=> OccursAt(k)
           /\ \A k : IsFirst(k)' <=> IsFirst(k)
           /\ UniqueStart' <=> UniqueStart
<1> USE DEF args
<1>1. Entries' = Entries /\ PatternLength' = PatternLength /\ Length' = Length
  BY DEF Entries, PatternLength, Length
<1>2. \A k : p(k)' = p(k) /\ buf(k)' = buf(k)
  BY DEF p, buf
<1>3. \A k, n : Border(k, n)' <=> Border(k, n)
  BY DEF Border, p
<1>4. \A k : OccursAt(k)' <=> OccursAt(k)
  BY DEF OccursAt, p, buf, PatternLength, Length
<1>5. \A k : IsFirst(k)' <=> IsFirst(k)
  BY DEF IsFirst, OccursAt, p, buf, PatternLength, Length
<1>6. UniqueStart' <=> UniqueStart
  BY DEF UniqueStart, p, PatternLength
<1> QED
  BY <1>1, <1>2, <1>3, <1>4, <1>5, <1>6

\* Setting an entry to a border of its prefix keeps the table one of borders.
LEMMA SetNextKeeps ==
    ASSUME FindTypeInv, TableInv, NEW v, pos < PatternLength, Border(pos, v), SetNext(v),
           UNCHANGED args
    PROVE  /\ next' \in [Entries' -> Nat] /\ TableInv'
           /\ loop' = "table" /\ pos' = pos + 1
<1>1. PatternLength \in Nat /\ pos \in Entries /\ v \in Nat
  BY LengthsAreNat DEF FindTypeInv, Entries, Border
<1>2. next' = [next EXCEPT ![pos] = v] /\ next \in [Entries -> Nat]
  BY DEF SetNext, FindTypeInv
<1>3. ASSUME NEW k \in Entries
      PROVE  Border(k, next'[k])
  BY <1>1, <1>2, <1>3 DEF TableInv
<1> QED
  BY <1>1, <1>2, <1>3, ArgumentsStay DEF TableInv, SetNext

LEMMA TableEntryKeeps == FindInv /\ TableEntry => FindInv'
<1> SUFFICES ASSUME FindInv, TableEntry PROVE FindInv'
  OBVIOUS
<1> USE DEF FindInv
<1>1. UNCHANGED <<args, m, i, result>> /\ loop = "table" /\ pos < PatternLength
  BY DEF TableEntry
<1>2. pos \in Nat /\ pos >= 2 /\ PatternLength \in Nat /\ Length \in Nat
  BY LengthsAreNat DEF FindTypeInv
<1>3. pos - 1 \in Entries /\ base' = next[pos - 1] /\ base' \in Nat
      /\ Border(pos - 1, base')
  BY <1>1, <1>2 DEF TableEntry, FindTypeInv, TableInv, Entries
<1>4. /\ next' \in [Entries' -> Nat] /\ TableInv'
      /\ loop' \in {"table", "fallback"} /\ pos' \in Nat /\ pos' >= 2
      /\ FallbackInv'
  <2>1. CASE base' = 0
    <3> DEFINE v == IF p(pos) = p(0) THEN 1 ELSE 0
    <3>1. Border(pos, v)
      BY <1>2, EmptyBorder, FirstBorder
    <3>2. SetNext(v)
      BY <2>1 DEF TableEntry
    <3> HIDE DEF v
    <3> QED
      BY <1>1, <1>2, <3>1, <3>2, SetNextKeeps DEF FallbackInv
  <2>2. CASE base' # 0
    <3>1. loop' = "fallback" /\ UNCHANGED <<next, pos>>
      BY <2>2 DEF TableEntry
    <3> QED
      BY <1>1, <1>2, <1>3, <2>2, <3>1, ArgumentsStay
      DEF FallbackInv, TableInv, FindTypeInv
  <2> QED
    BY <2>1, <2>2
<1>5. FindTypeInv'
  BY <1>1, <1>3, <1>4 DEF FindTypeInv, args
<1>6. SearchInv' /\ FoundIsOccurrence' /\ FirstInv'
  BY <1>1, <1>4, ArgumentsStay DEF SearchInv, FoundIsOccurrence, FirstInv
<1> QED
  BY <1>4, <1>5, <1>6

LEMMA FallbackKeeps == FindInv /\ Fallback => FindInv'
<1> SUFFICES ASSUME FindInv, Fallback PROVE FindInv'
  OBVIOUS
<1> USE DEF FindInv
<1>1. UNCHANGED <<args, m, i, result>> /\ loop = "fallback"
  BY DEF Fallback
<1>2. pos \in Nat /\ pos >= 2 /\ PatternLength \in Nat /\ Length \in Nat
  BY LengthsAreNat DEF FindTypeInv
<1>3. pos < PatternLength /\ base \in Nat \ {0} /\ Border(pos - 1, base)
  BY <1>1 DEF FallbackInv, FindTypeInv
<1>4. base <= pos - 1
  BY <1>3 DEF Border
<1>5. /\ next' \in [Entries' -> Nat] /\ TableInv'
      /\ loop' \in {"table", "fallback"} /\ pos' \in Nat /\ pos' >= 2
      /\ FallbackInv' /\ base' \in Nat
  <2>1. CASE p(pos) = p(base)
    <3>1. Border(pos, base + 1)
      BY <1>2, <1>3, <2>1, BorderGrows
    <3>2. SetNext(base + 1) /\ base' = base
      BY <2>1 DEF Fallback
    <3> QED
      BY <1>1, <1>2, <1>3, <3>1, <3>2, SetNextKeeps DEF FallbackInv
  <2>2. CASE p(pos) # p(base)
    <3>1. base' = next[base - 1] /\ base - 1 \in Entries
      BY <1>2, <1>3, <1>4, <2>2 DEF Fallback, Entries
    <3>2. base' \in Nat /\ Border(base - 1, base')
      BY <3>1 DEF FindTypeInv, TableInv
    <3>3. Border(pos - 1, base')
      BY <1>2, <1>3, <3>2, BorderOfBorder
    <3>4. CASE base' = 0
      <4>1. SetNext(0) /\ Border(pos, 0)
        BY <1>2, <2>2, <3>4, EmptyBorder DEF Fallback
      <4> QED
        BY <1>1, <1>2, <1>3, <3>2, <4>1, SetNextKeeps DEF FallbackInv
    <3>5. CASE base' # 0
      <4>1. UNCHANGED <<loop, next, pos>>
        BY <2>2, <3>5 DEF Fallback
      <4> QED
        BY <1>1, <1>2, <1>3, <3>2, <3>3, <3>5, <4>1, ArgumentsStay
        DEF FallbackInv, TableInv, FindTypeInv
    <3> QED
      BY <3>4, <3>5
  <2> QED
    BY <2>1, <2>2
<1>6. FindTypeInv'
  BY <1>1, <1>5 DEF FindTypeInv, args
<1>7. SearchInv' /\ FoundIsOccurrence' /\ FirstInv'
  BY <1>1, <1>5, ArgumentsStay DEF SearchInv, FoundIsOccurrence, FirstInv
<1> QED
  BY <1>5, <1>6, <1>7

\* What the steps of the search leave alone.
LEMMA SearchKeepsTable ==
    ASSUME FindInv, UNCHANGED <<args, next, pos, base>>, loop' \in {"search", "done"},
           m' \in Nat, i' \in Nat, result' \in Nat \cup {npos}
    PROVE  FindTypeInv' /\ TableInv' /\ FallbackInv'
<1>1. FindTypeInv' /\ FallbackInv'
  BY ArgumentsStay DEF FindInv, FindTypeInv, FallbackInv, args
<1>2. TableInv'
  BY ArgumentsStay DEF FindInv, TableInv
<1> QED
  BY <1>1, <1>2

LEMMA StartSearchKeeps == FindInv /\ StartSearch => FindInv'
<1> SUFFICES ASSUME FindInv, StartSearch PROVE FindInv'
  OBVIOUS
<1> USE DEF FindInv
<1>1. /\ UNCHANGED <<args, next, pos, base, m, i, result>>
      /\ loop = "table" /\ loop' = "search" /\ m = 0 /\ i = 0
      /\ PatternLength <= Length
  BY DEF StartSearch, SearchInv
<1>2. PatternLength \in Nat /\ Length \in Nat
  BY LengthsAreNat
<1>3. FindTypeInv' /\ TableInv' /\ FallbackInv'
  BY <1>1, SearchKeepsTable DEF FindTypeInv
<1>4. SearchInv'
  BY <1>1, <1>2, ArgumentsStay DEF SearchInv, Match
<1>5. FoundIsOccurrence' /\ FirstInv'
  BY <1>1, <1>2, ArgumentsStay DEF FoundIsOccurrence, FirstInv
<1> QED
  BY <1>3, <1>4, <1>5

\* The state of a search that is not over, in one place.
LEMMA Searching ==
    ASSUME FindInv, loop = "search"
    PROVE  /\ PatternLength \in Nat /\ Length \in Nat /\ m \in Nat /\ i \in Nat
           /\ PatternLength <= Length /\ m + i <= Length
           /\ i < PatternLength \/ (PatternLength = 0 /\ i = 0)
           /\ \A j \in 0 .. i - 1 : buf(m + j) = p(j)
           /\ UniqueStart => \A q \in 0 .. m - 1 : ~OccursAt(q)
  BY LengthsAreNat DEF FindInv, FindTypeInv, SearchInv, Match, FirstInv

LEMMA MatchOneKeeps == FindInv /\ MatchOne => FindInv'
<1> SUFFICES ASSUME FindInv, MatchOne PROVE FindInv'
  OBVIOUS
<1>1. /\ UNCHANGED <<args, next, pos, base, m>> /\ loop = "search"
      /\ i' = i + 1 /\ m + i < Length /\ i < PatternLength /\ buf(m + i) = p(i)
  BY DEF MatchOne
<1>2. /\ PatternLength \in Nat /\ Length \in Nat /\ m \in Nat /\ i \in Nat
      /\ PatternLength <= Length
      /\ \A j \in 0 .. i - 1 : buf(m + j) = p(j)
      /\ UniqueStart => \A q \in 0 .. m - 1 : ~OccursAt(q)
  BY <1>1, Searching
<1>3. \A j \in 0 .. i : buf(m + j) = p(j)
  BY <1>1, <1>2
<1>4. CASE i + 1 = PatternLength
  <2>1. loop' = "done" /\ result' = m
    BY <1>1, <1>4 DEF MatchOne
  <2>2. OccursAt(m)
    BY <1>1, <1>2, <1>3, <1>4 DEF OccursAt
  <2>3. FindTypeInv' /\ TableInv' /\ FallbackInv'
    BY <1>1, <1>2, <2>1, SearchKeepsTable
  <2>4. SearchInv' /\ FoundIsOccurrence'
    BY <1>2, <2>1, <2>2, ArgumentsStay, <1>1 DEF SearchInv, FoundIsOccurrence
  <2>5. UniqueStart => IsFirst(m)
    BY <1>2, <2>2, TextsAssumption DEF IsFirst
  <2> QED
    BY <1>1, <2>1, <2>3, <2>4, <2>5, ArgumentsStay DEF FindInv, FirstInv
<1>5. CASE i + 1 # PatternLength
  <2>1. UNCHANGED <<loop, result>>
    BY <1>1, <1>5 DEF MatchOne
  <2>2. FindTypeInv' /\ TableInv' /\ FallbackInv'
    BY <1>1, <1>2, <2>1, SearchKeepsTable DEF FindInv, FindTypeInv
  <2>3. SearchInv'
    BY <1>1, <1>2, <1>3, <1>5, <2>1, ArgumentsStay DEF SearchInv, Match
  <2>4. FoundIsOccurrence' /\ FirstInv'
    BY <1>1, <1>2, <2>1, ArgumentsStay DEF FoundIsOccurrence, FirstInv
  <2> QED
    BY <2>2, <2>3, <2>4 DEF FindInv
<1> QED
  BY <1>4, <1>5

\* The pattern moves on to the next place where its first characters match.
LEMMA MismatchKeeps == FindInv /\ Mismatch => FindInv'
<1> SUFFICES ASSUME FindInv, Mismatch PROVE FindInv'
  OBVIOUS
<1>1. /\ UNCHANGED <<args, loop, next, pos, base, result>> /\ loop = "search" /\ Shift
      /\ m + i < Length /\ (i < PatternLength => buf(m + i) # p(i))
  BY DEF Mismatch
<1>2. /\ PatternLength \in Nat /\ Length \in Nat /\ m \in Nat /\ i \in Nat
      /\ PatternLength <= Length
      /\ i < PatternLength \/ (PatternLength = 0 /\ i = 0)
      /\ \A j \in 0 .. i - 1 : buf(m + j) = p(j)
      /\ UniqueStart => \A q \in 0 .. m - 1 : ~OccursAt(q)
  BY <1>1, Searching
<1>3. UniqueStart => ~OccursAt(m)
  BY <1>1, <1>2 DEF UniqueStart, OccursAt
<1>4. CASE i = 0
  <2>1. m' = m + 1 /\ i' = 0
    BY <1>1, <1>4 DEF Shift
  <2>2. FindTypeInv' /\ TableInv' /\ FallbackInv'
    BY <1>1, <1>2, <2>1, SearchKeepsTable DEF FindInv, FindTypeInv
  <2>3. SearchInv'
    BY <1>1, <1>2, <1>4, <2>1, ArgumentsStay DEF SearchInv, Match
  <2>4. FirstInv' /\ FoundIsOccurrence'
    BY <1>1, <1>2, <1>3, <2>1, ArgumentsStay DEF FirstInv, FoundIsOccurrence
  <2> QED
    BY <2>2, <2>3, <2>4 DEF FindInv
<1>5. CASE i # 0
  <2> DEFINE n == next[i - 1]
  <2>1. m' = m + (i - n) /\ i' = n
    BY <1>1, <1>5 DEF Shift
  <2>2. i - 1 \in Entries /\ i < PatternLength
    BY <1>2, <1>5 DEF Entries
  <2>3. n \in Nat /\ Border(i - 1, n)
    BY <2>2 DEF FindInv, FindTypeInv, TableInv
  <2>4. n <= i - 1 /\ \A j \in 0 .. n - 1 : p(i - n + j) = p(j)
    BY <1>2, <2>3 DEF Border
  <2>5. UniqueStart => n = 0
    BY <1>2, <1>5, <2>2, <2>3, UniqueStartHasNoBorder
  <2> HIDE DEF n
  <2>6. m' \in Nat /\ m' + n = m + i
    BY <1>2, <2>1, <2>3, <2>4
  <2>7. ASSUME NEW j \in 0 .. n - 1
        PROVE  buf(m' + j) = p(j)
    <3>1. i - n + j \in 0 .. i - 1
      BY <1>2, <2>3, <2>4
    <3>2. buf(m + (i - n + j)) = p(i - n + j)
      BY <1>2, <3>1
    <3>3. m' + j = m + (i - n + j)
      BY <1>2, <2>1, <2>3
    <3> QED
      BY <2>4, <3>2, <3>3
  <2>8. FindTypeInv' /\ TableInv' /\ FallbackInv'
    BY <1>1, <2>1, <2>3, <2>6, SearchKeepsTable DEF FindInv, FindTypeInv
  <2>9. SearchInv'
    BY <1>1, <1>2, <2>1, <2>2, <2>3, <2>4, <2>6, <2>7, ArgumentsStay
    DEF SearchInv, Match
  <2>10. UniqueStart => \A q \in 0 .. m' - 1 : ~OccursAt(q)
    <3> SUFFICES ASSUME UniqueStart, NEW q \in 0 .. m' - 1 PROVE ~OccursAt(q)
      OBVIOUS
    <3>1. m' = m + i
      BY <1>2, <2>1, <2>5
    <3>2. Match /\ FindTypeInv /\ i <= PatternLength
      BY <1>1, <1>2 DEF FindInv, SearchInv
    <3>3. CASE q < m
      BY <1>2, <3>3
    <3>4. CASE q = m
      BY <1>3, <3>4
    <3>5. CASE q > m
      BY <1>2, <3>1, <3>2, <3>5, NoneInside
    <3> QED
      BY <1>2, <3>3, <3>4, <3>5
  <2>11. FirstInv' /\ FoundIsOccurrence'
    BY <1>1, <2>10, ArgumentsStay DEF FirstInv, FoundIsOccurrence
  <2> QED
    BY <2>8, <2>9, <2>11 DEF FindInv
<1> QED
  BY <1>4, <1>5

LEMMA EndOfTextKeeps == FindInv /\ EndOfText => FindInv'
<1> SUFFICES ASSUME FindInv, EndOfText PROVE FindInv'
  OBVIOUS
<1>1. /\ UNCHANGED <<args, next, pos, base, m, i>> /\ loop = "search" /\ loop' = "done"
      /\ m + i >= Length
      /\ result' = IF m + i = Length /\ i = PatternLength THEN m ELSE npos
  BY DEF EndOfText
<1>2. /\ PatternLength \in Nat /\ Length \in Nat /\ m \in Nat /\ i \in Nat
      /\ PatternLength <= Length
      /\ i < PatternLength \/ (PatternLength = 0 /\ i = 0)
      /\ \A j \in 0 .. i - 1 : buf(m + j) = p(j)
      /\ UniqueStart => \A q \in 0 .. m - 1 : ~OccursAt(q)
  BY <1>1, Searching
<1>3. FindTypeInv' /\ TableInv' /\ FallbackInv'
  BY <1>1, <1>2, SearchKeepsTable
<1>4. result' # npos => result' \in Nat /\ OccursAt(result')
  BY <1>1, <1>2 DEF OccursAt
<1>5. SearchInv' /\ FoundIsOccurrence'
  BY <1>1, <1>4, ArgumentsStay DEF SearchInv, FoundIsOccurrence
<1>6. UniqueStart => IsFirst(result')
  <2> SUFFICES ASSUME UniqueStart PROVE IsFirst(result')
    OBVIOUS
  <2>1. i < PatternLength /\ result' = npos
    BY <1>1, <1>2 DEF UniqueStart
  <2>2. ASSUME NEW q \in 0 .. Length
        PROVE  ~OccursAt(q)
    <3>1. CASE q < m
      BY <1>2, <3>1
    <3>2. CASE q > m /\ q < m + i
      <4>1. Match /\ FindTypeInv
        BY <1>1 DEF FindInv, SearchInv
      <4> QED
        BY <1>2, <2>1, <3>2, <4>1, NoneInside
    <3>3. CASE q = m \/ q >= m + i
      BY <1>1, <1>2, <2>1, <3>3 DEF OccursAt
    <3> QED
      BY <1>2, <3>1, <3>2, <3>3
  <2> QED
    BY <2>1, <2>2 DEF IsFirst
<1>7. FirstInv'
  BY <1>1, <1>6, ArgumentsStay DEF FirstInv
<1> QED
  BY <1>3, <1>5, <1>7 DEF FindInv

LEMMA StutterKeeps == FindInv /\ UNCHANGED findVars => FindInv'
<1> SUFFICES ASSUME FindInv, UNCHANGED findVars PROVE FindInv'
  OBVIOUS
<1>1. UNCHANGED <<args, loop, next, pos, base, m, i, result>>
  BY DEF findVars
<1>2. FindTypeInv' /\ TableInv' /\ FallbackInv'
  BY <1>1, ArgumentsStay DEF FindInv, FindTypeInv, TableInv, FallbackInv, args
<1>3. SearchInv' /\ FoundIsOccurrence' /\ FirstInv'
  BY <1>1, ArgumentsStay DEF FindInv, SearchInv, Match, FoundIsOccurrence, FirstInv
<1> QED
  BY <1>2, <1>3 DEF FindInv

\* The table holds borders, and the search never moves past a match.
THEOREM FindSafety == FindSpec => []FindInv
<1>1. FindInv /\ [FindNext]_findVars => FindInv'
  BY TableEntryKeeps, FallbackKeeps, StartSearchKeeps, MatchOneKeeps, MismatchKeeps,
     EndOfTextKeeps, StutterKeeps DEF FindNext
<1> QED
  BY <1>1, InitFindInv, PTL DEF FindSpec

-----------------------------------------------------------------------------
(* The automaton of InternalFind *)

\* Induction up to a bound.
LEMMA InductUpTo ==
    ASSUME NEW n \in Nat, NEW T, 0 \in T, \A k \in 0 .. n - 1 : k \in T => k + 1 \in T
    PROVE  0 .. n \subseteq T
<1> DEFINE U == (0 .. n) \ T
<1> SUFFICES ASSUME U # {} PROVE FALSE
  OBVIOUS
<1>1. PICK x \in U : \A y \in U : x <= y
  <2>1. U \in SUBSET Nat
    OBVIOUS
  <2> HIDE DEF U
  <2> QED
    BY <2>1, LeastNat
<1>2. x # 0 /\ x \in 0 .. n /\ x \notin T
  OBVIOUS
<1>3. x - 1 \in 0 .. n - 1 /\ x - 1 + 1 = x /\ x - 1 \in 0 .. n /\ ~(x <= x - 1)
  BY <1>2
<1>4. x - 1 \in T
  BY <1>1, <1>3
<1> QED
  BY <1>2, <1>3, <1>4

\* The first n characters of the pattern are the last of its first k.
Suffix(k, n) ==
    n <= k /\ \A j \in 0 .. n - 1 : p(k - n + j) = p(j)

\* The first n characters of the pattern are the last of the text's first k.
Ends(k, n) ==
    n <= k /\ \A j \in 0 .. n - 1 : buf(k - n + j) = p(j)

\* A suffix of a suffix.
LEMMA SuffixOfSuffix ==
    ASSUME NEW k \in Nat, NEW n \in Nat, Suffix(k, n), NEW j \in Nat, j <= n
    PROVE  Suffix(k, j) <=> Suffix(n, j)
<1>1. n <= k
  BY DEF Suffix
<1>2. ASSUME NEW h \in 0 .. j - 1
      PROVE  p(k - j + h) = p(n - j + h)
  <2>1. n - j + h \in 0 .. n - 1 /\ k - n + (n - j + h) = k - j + h
    BY <1>1
  <2>2. p(k - n + (n - j + h)) = p(n - j + h)
    BY <2>1 DEF Suffix
  <2> QED
    BY <2>1, <2>2
<1> QED
  BY <1>1, <1>2 DEF Suffix

\* A suffix of what the text ends with.
LEMMA SuffixOfEnd ==
    ASSUME NEW k \in Nat, NEW n \in Nat, Ends(k, n), NEW j \in Nat, j <= n
    PROVE  Ends(k, j) <=> Suffix(n, j)
<1>1. n <= k
  BY DEF Ends
<1>2. ASSUME NEW h \in 0 .. j - 1
      PROVE  buf(k - j + h) = p(n - j + h)
  <2>1. n - j + h \in 0 .. n - 1 /\ k - n + (n - j + h) = k - j + h
    BY <1>1
  <2>2. buf(k - n + (n - j + h)) = p(n - j + h)
    BY <2>1 DEF Ends
  <2> QED
    BY <2>1, <2>2
<1> QED
  BY <1>1, <1>2 DEF Suffix, Ends

\* A character more.
LEMMA SuffixGrows ==
    ASSUME NEW k \in Nat, NEW n \in Nat
    PROVE  Suffix(k + 1, n + 1) <=> Suffix(k, n) /\ p(n) = p(k)
<1>1. /\ \A j \in 0 .. n : j \in 0 .. n - 1 \/ j = n
      /\ \A j \in Int : (k + 1) - (n + 1) + j = k - n + j
      /\ k - n + n = k
  OBVIOUS
<1>2. ASSUME Suffix(k + 1, n + 1)
      PROVE  Suffix(k, n) /\ p(n) = p(k)
  <2>1. n <= k /\ \A j \in 0 .. n : p((k + 1) - (n + 1) + j) = p(j)
    BY <1>2 DEF Suffix
  <2>2. \A j \in 0 .. n : p(k - n + j) = p(j)
    BY <1>1, <2>1
  <2>3. p(k - n + n) = p(n)
    BY <2>2
  <2> QED
    BY <1>1, <2>1, <2>2, <2>3 DEF Suffix
<1>3. ASSUME Suffix(k, n), p(n) = p(k)
      PROVE  Suffix(k + 1, n + 1)
  <2>1. n <= k /\ \A j \in 0 .. n - 1 : p(k - n + j) = p(j)
    BY <1>3 DEF Suffix
  <2>2. \A j \in 0 .. n : p(k - n + j) = p(j)
    BY <1>1, <1>3, <2>1
  <2>3. \A j \in 0 .. n : p((k + 1) - (n + 1) + j) = p(j)
    BY <1>1, <2>2
  <2>4. n + 1 - 1 = n /\ n + 1 <= k + 1
    BY <2>1
  <2> QED
    BY <2>3, <2>4 DEF Suffix
<1> QED
  BY <1>2, <1>3

LEMMA EndGrows ==
    ASSUME NEW k \in Nat, NEW n \in Nat
    PROVE  Ends(k + 1, n + 1) <=> Ends(k, n) /\ buf(k) = p(n)
<1>1. /\ \A j \in 0 .. n : j \in 0 .. n - 1 \/ j = n
      /\ \A j \in Int : (k + 1) - (n + 1) + j = k - n + j
      /\ k - n + n = k
  OBVIOUS
<1>2. ASSUME Ends(k + 1, n + 1)
      PROVE  Ends(k, n) /\ buf(k) = p(n)
  <2>1. n <= k /\ \A j \in 0 .. n : buf((k + 1) - (n + 1) + j) = p(j)
    BY <1>2 DEF Ends
  <2>2. \A j \in 0 .. n : buf(k - n + j) = p(j)
    BY <1>1, <2>1
  <2>3. buf(k - n + n) = p(n)
    BY <2>2
  <2> QED
    BY <1>1, <2>1, <2>2, <2>3 DEF Ends
<1>3. ASSUME Ends(k, n), buf(k) = p(n)
      PROVE  Ends(k + 1, n + 1)
  <2>1. n <= k /\ \A j \in 0 .. n - 1 : buf(k - n + j) = p(j)
    BY <1>3 DEF Ends
  <2>2. \A j \in 0 .. n : buf(k - n + j) = p(j)
    BY <1>1, <1>3, <2>1
  <2>3. \A j \in 0 .. n : buf((k + 1) - (n + 1) + j) = p(j)
    BY <1>1, <2>2
  <2>4. n + 1 - 1 = n /\ n + 1 <= k + 1
    BY <2>1
  <2> QED
    BY <2>3, <2>4 DEF Ends
<1> QED
  BY <1>2, <1>3

\* In the state of the first k characters, c leads to the state n.
LeadsTo(k, c, n) == n = 0 \/ (Suffix(k, n - 1) /\ p(n - 1) = c)

\* The greatest of these states, and the longest suffix that is shorter.
LongestStep(k, c, n) ==
    n \in 0 .. k + 1 /\ LeadsTo(k, c, n) /\ \A j \in 0 .. k + 1 : LeadsTo(k, c, j) => j <= n
LongestBorder(k, x) ==
    x \in 0 .. k - 1 /\ Suffix(k, x) /\ \A j \in 0 .. k - 1 : Suffix(k, j) => j <= x

\* What a column of the automaton holds.
GoodColumn(k, col) ==
    /\ LongestBorder(k + 1, col.x)
    /\ col.to \in [Char -> Nat] /\ \A c \in Char : LongestStep(k, c, col.to[c])

\* The right-hand sides of the definition of Column.
FirstColumn == [x |-> 0, to |-> [c \in Char |-> IF c = p(0) THEN 1 ELSE 0]]
ColumnFrom(copied, idx) ==
    [x |-> copied[p(idx)], to |-> [copied EXCEPT ![p(idx)] = idx + 1]]

LEMMA PatternIs ==
    ASSUME FindTypeInv
    PROVE  /\ PatternLength \in Nat /\ Length \in Nat
           /\ \A k \in 0 .. PatternLength - 1 : p(k) \in Char
           /\ \A k \in 0 .. Length - 1 : buf(k) \in Char
<1>1. PatternLength \in Nat /\ Length \in Nat
  BY LengthsAreNat
<1>2. ASSUME NEW k \in 0 .. PatternLength - 1
      PROVE  p(k) \in Char
  <2>1. k + 1 \in 1 .. Len(pattern)
    BY <1>1 DEF PatternLength
  <2> QED
    BY <2>1 DEF FindTypeInv, p
<1>3. ASSUME NEW k \in 0 .. Length - 1
      PROVE  buf(k) \in Char
  <2>1. k + 1 \in 1 .. Len(text)
    BY <1>1 DEF Length
  <2> QED
    BY <2>1 DEF FindTypeInv, buf
<1> QED
  BY <1>1, <1>2, <1>3

\* The first column.
LEMMA FirstColumnIsGood == GoodColumn(0, FirstColumn)
<1>1. LongestBorder(1, 0)
  BY DEF LongestBorder, Suffix
<1>2. ASSUME NEW c \in Char
      PROVE  LongestStep(0, c, IF c = p(0) THEN 1 ELSE 0)
  <2>1. Suffix(0, 0)
    BY DEF Suffix
  <2>2. LeadsTo(0, c, 0) /\ (LeadsTo(0, c, 1) <=> c = p(0))
    BY <2>1 DEF LeadsTo
  <2>3. \A j \in 0 .. 0 + 1 : j = 0 \/ j = 1
    OBVIOUS
  <2> QED
    BY <2>2, <2>3 DEF LongestStep
<1>3. /\ FirstColumn.x = 0 /\ FirstColumn.to \in [Char -> Nat]
      /\ \A c \in Char : FirstColumn.to[c] = IF c = p(0) THEN 1 ELSE 0
  BY DEF FirstColumn
<1> QED
  BY <1>1, <1>2, <1>3 DEF GoodColumn

\* From a shorter suffix a character leads to the same states, all of them but
\* the next of the pattern.
LEMMA LeadsFromBorder ==
    ASSUME NEW k \in Nat, NEW x, LongestBorder(k, x), NEW c, NEW n \in 0 .. k
    PROVE  /\ LeadsTo(k, c, n) => n <= x + 1
           /\ n <= x + 1 => (LeadsTo(k, c, n) <=> LeadsTo(x, c, n))
<1>1. x \in Nat /\ Suffix(k, x) /\ x <= k - 1
  BY DEF LongestBorder
<1>2. CASE n = 0
  BY <1>1, <1>2 DEF LeadsTo
<1>3. CASE n # 0
  <2>1. n - 1 \in 0 .. k - 1 /\ n - 1 \in Nat
    BY <1>3
  <2>2. Suffix(k, n - 1) => n - 1 <= x
    BY <2>1 DEF LongestBorder
  <2>3. n - 1 <= x => (Suffix(k, n - 1) <=> Suffix(x, n - 1))
    <3> PICK j \in Nat : j = n - 1
      BY <2>1
    <3>1. j <= x => (Suffix(k, j) <=> Suffix(x, j))
      BY <1>1, SuffixOfSuffix
    <3> QED
      BY <3>1
  <2>4. n - 1 <= x <=> n <= x + 1
    BY <1>1
  <2> QED
    BY <1>3, <2>2, <2>3, <2>4 DEF LeadsTo
<1> QED
  BY <1>2, <1>3

\* A column is the copy of an earlier one, but for the character that matches.
LEMMA NextColumnIsGood ==
    ASSUME FindTypeInv, NEW k \in 1 .. PatternLength - 1, NEW x, LongestBorder(k, x),
           NEW copied \in [Char -> Nat], \A c \in Char : LongestStep(x, c, copied[c])
    PROVE  GoodColumn(k, ColumnFrom(copied, k))
<1> DEFINE d == p(k)
           to == [copied EXCEPT ![d] = k + 1]
<1>1. k \in Nat \ {0} /\ d \in Char /\ x \in 0 .. k - 1
  BY PatternIs DEF LongestBorder
<1> HIDE DEF d
<1>2. ASSUME NEW c \in Char, NEW n, LongestStep(x, c, n)
      PROVE  /\ n \in 0 .. k /\ LeadsTo(k, c, n)
             /\ \A j \in 0 .. k : LeadsTo(k, c, j) => j <= n
  <2>1. n \in 0 .. x + 1 /\ n \in 0 .. k /\ LeadsTo(x, c, n)
    BY <1>1, <1>2 DEF LongestStep
  <2>2. LeadsTo(k, c, n)
    BY <1>1, <2>1, LeadsFromBorder
  <2>3. ASSUME NEW j \in 0 .. k, LeadsTo(k, c, j)
        PROVE  j <= n
    <3>1. j <= x + 1 /\ LeadsTo(x, c, j)
      BY <1>1, <2>3, LeadsFromBorder
    <3>2. j \in 0 .. x + 1
      BY <1>1, <3>1
    <3> QED
      BY <1>2, <3>1, <3>2 DEF LongestStep
  <2> QED
    BY <2>1, <2>2, <2>3
<1>3. ASSUME NEW c \in Char
      PROVE  LongestStep(k, c, to[c])
  <2>1. LeadsTo(k, c, k + 1) <=> c = d
    <3>1. k + 1 # 0 /\ k + 1 - 1 = k /\ Suffix(k, k)
      <4>1. \A j \in 0 .. k - 1 : k - k + j = j
        BY <1>1
      <4> QED
        BY <1>1, <4>1 DEF Suffix
    <3> QED
      BY <3>1 DEF LeadsTo, d
  <2>2. \A j \in 0 .. k + 1 : j \in 0 .. k \/ j = k + 1
    BY <1>1
  <2>3. CASE c = d
    <3>1. to[c] = k + 1 /\ k + 1 \in 0 .. k + 1 /\ \A j \in 0 .. k + 1 : j <= k + 1
      BY <1>1, <2>3
    <3> QED
      BY <2>1, <2>3, <3>1 DEF LongestStep
  <2>4. CASE c # d
    <3>1. to[c] = copied[c]
      BY <2>4
    <3>2. /\ copied[c] \in 0 .. k /\ LeadsTo(k, c, copied[c])
          /\ \A j \in 0 .. k : LeadsTo(k, c, j) => j <= copied[c]
      BY <1>2
    <3>3. copied[c] \in 0 .. k + 1
      BY <1>1, <3>2
    <3> QED
      BY <2>1, <2>2, <2>4, <3>1, <3>2, <3>3 DEF LongestStep
  <2> QED
    BY <2>3, <2>4
<1>4. LongestBorder(k + 1, copied[d])
  <2> DEFINE n == copied[d]
  <2>1. /\ n \in 0 .. k /\ LeadsTo(k, d, n)
        /\ \A j \in 0 .. k : LeadsTo(k, d, j) => j <= n
    BY <1>1, <1>2
  <2> HIDE DEF n
  <2>2. ASSUME NEW j \in 0 .. k
        PROVE  LeadsTo(k, d, j) <=> Suffix(k + 1, j)
    <3>1. CASE j = 0
      BY <1>1, <3>1 DEF LeadsTo, Suffix
    <3>2. CASE j # 0
      <4> PICK h \in Nat : j = h + 1
        <5>1. j - 1 \in Nat /\ j = (j - 1) + 1
          BY <3>2
        <5> QED
          BY <5>1
      <4>1. Suffix(k + 1, h + 1) <=> Suffix(k, h) /\ p(h) = d
        BY <1>1, SuffixGrows DEF d
      <4>2. j - 1 = h
        OBVIOUS
      <4> QED
        BY <3>2, <4>1, <4>2 DEF LeadsTo
    <3> QED
      BY <3>1, <3>2
  <2>3. k + 1 - 1 = k
    BY <1>1
  <2>4. LongestBorder(k + 1, n)
    BY <2>1, <2>2, <2>3 DEF LongestBorder
  <2> QED
    BY <2>4 DEF n
<1>5. to \in [Char -> Nat]
  BY <1>1
<1>6. ColumnFrom(copied, k).x = copied[d] /\ ColumnFrom(copied, k).to = to
  BY DEF ColumnFrom, d
<1> HIDE DEF to
<1> QED
  BY <1>3, <1>4, <1>5, <1>6 DEF GoodColumn

\* Columns 0 to n, each from the ones before it.
Columns == [x : Nat, to : [Char -> Nat]]
FirstColumns(n, g) ==
    /\ g \in [0 .. n -> Columns]
    /\ g[0] = FirstColumn
    /\ \A k \in 1 .. n : g[k] = ColumnFrom(g[g[k - 1].x].to, k)

LEMMA ColumnsAreGood ==
    ASSUME FindTypeInv, NEW n \in 0 .. PatternLength - 1, NEW g, FirstColumns(n, g)
    PROVE  \A k \in 0 .. n : GoodColumn(k, g[k])
<1> DEFINE T == {k \in 0 .. n : \A j \in 0 .. k : GoodColumn(j, g[j])}
<1>1. n \in Nat /\ PatternLength \in Nat
  BY PatternIs
<1>2. 0 \in T
  BY <1>1, FirstColumnIsGood DEF FirstColumns
<1>3. ASSUME NEW k \in 0 .. n - 1, k \in T
      PROVE  k + 1 \in T
  <2> DEFINE x == g[k].x
  <2>1. k \in 0 .. n /\ k + 1 \in 0 .. n /\ k + 1 \in 1 .. PatternLength - 1
    BY <1>1
  <2>2. LongestBorder(k + 1, x) /\ x \in 0 .. k
    <3>1. GoodColumn(k, g[k])
      BY <1>3, <2>1
    <3>2. LongestBorder(k + 1, x)
      BY <3>1 DEF GoodColumn
    <3>3. k + 1 - 1 = k
      BY <2>1
    <3> QED
      BY <3>2, <3>3 DEF LongestBorder
  <2>3. k + 1 - 1 = k
    BY <2>1
  <2>4. g[k + 1] = ColumnFrom(g[x].to, k + 1)
    BY <2>1, <2>3 DEF FirstColumns
  <2> HIDE DEF x
  <2>5. g[x].to \in [Char -> Nat] /\ \A c \in Char : LongestStep(x, c, g[x].to[c])
    <3>1. GoodColumn(x, g[x])
      BY <1>3, <2>2
    <3> QED
      BY <3>1 DEF GoodColumn
  <2>6. GoodColumn(k + 1, g[k + 1])
    <3> DEFINE copied == g[x].to
    <3>1. copied \in [Char -> Nat] /\ \A c \in Char : LongestStep(x, c, copied[c])
      BY <2>5
    <3> HIDE DEF copied
    <3>2. GoodColumn(k + 1, ColumnFrom(copied, k + 1))
      BY <2>1, <2>2, <3>1, NextColumnIsGood
    <3> QED
      BY <2>4, <3>2 DEF copied
  <2>7. \A j \in 0 .. k + 1 : j \in 0 .. k \/ j = k + 1
    BY <2>1
  <2> QED
    BY <1>3, <2>1, <2>6, <2>7
<1>4. 0 .. n \subseteq T
  <2> HIDE DEF T
  <2> QED
    BY <1>1, <1>2, <1>3, InductUpTo
<1> QED
  BY <1>4

\* There are as many columns as the pattern has characters.
LEMMA AllColumns ==
    ASSUME FindTypeInv, PatternLength > 0
    PROVE  \E g : FirstColumns(PatternLength - 1, g)
<1> DEFINE N == PatternLength - 1
           T == {n \in 0 .. N : \E g : FirstColumns(n, g)}
<1>1. N \in Nat /\ \A k \in 0 .. N : p(k) \in Char
  BY PatternIs
<1>2. 0 \in T
  <2>1. FirstColumn \in Columns
    BY DEF FirstColumn, Columns
  <2>2. FirstColumns(0, [k \in 0 .. 0 |-> FirstColumn])
    BY <2>1 DEF FirstColumns
  <2> QED
    BY <1>1, <2>2
<1>3. ASSUME NEW n \in 0 .. N - 1, n \in T
      PROVE  n + 1 \in T
  <2> PICK g : FirstColumns(n, g)
    BY <1>3
  <2> DEFINE x == g[n].x
             col == ColumnFrom(g[x].to, n + 1)
             f == [k \in 0 .. n + 1 |-> IF k = n + 1 THEN col ELSE g[k]]
  <2>1. n \in 0 .. N /\ n \in Nat /\ n + 1 \in 0 .. N /\ n + 1 - 1 = n
    BY <1>1
  <2>2. \A k \in 0 .. n : g[k] \in Columns /\ GoodColumn(k, g[k]) /\ g[k].x \in 0 .. k
    <3> TAKE k \in 0 .. n
    <3>1. GoodColumn(k, g[k])
      BY <2>1, ColumnsAreGood
    <3>2. g[k] \in Columns
      BY DEF FirstColumns
    <3>3. g[k].x \in 0 .. k + 1 - 1
      BY <3>1 DEF GoodColumn, LongestBorder
    <3> QED
      BY <2>1, <3>1, <3>2, <3>3
  <2>3. x \in 0 .. n /\ n \in 0 .. n
    BY <2>1, <2>2
  <2>4. col \in Columns
    <3>1. g[x].to \in [Char -> Nat]
      BY <2>2, <2>3 DEF Columns
    <3>2. p(n + 1) \in Char
      BY <1>1, <2>1
    <3> HIDE DEF x
    <3> QED
      BY <2>1, <3>1, <3>2 DEF ColumnFrom, Columns
  <2>5. f \in [0 .. n + 1 -> Columns]
    <3> HIDE DEF col
    <3>1. \A k \in 0 .. n + 1 : k # n + 1 => k \in 0 .. n
      BY <2>1
    <3> QED
      BY <2>2, <2>4, <3>1
  <2>6. /\ f[0] = g[0] /\ f[n + 1] = col
        /\ \A k \in 0 .. n : f[k] = g[k]
    <3> HIDE DEF col
    <3> QED
      BY <2>1
  <2> HIDE DEF f
  <2>7. ASSUME NEW k \in 1 .. n + 1
        PROVE  f[k] = ColumnFrom(f[f[k - 1].x].to, k)
    <3>1. k - 1 \in 0 .. n /\ k \in Nat
      BY <2>1
    <3> DEFINE y == g[k - 1].x
    <3>2. f[k - 1] = g[k - 1] /\ y \in 0 .. n
      <4>1. y \in 0 .. k - 1
        BY <2>2, <3>1
      <4> QED
        BY <2>1, <2>6, <3>1, <4>1
    <3>3. f[y] = g[y]
      BY <2>6, <3>2
    <3>4. CASE k = n + 1
      BY <2>1, <2>6, <3>2, <3>3, <3>4
    <3>5. CASE k # n + 1
      <4>1. k \in 1 .. n /\ k \in 0 .. n
        BY <2>1, <3>5
      <4>2. g[k] = ColumnFrom(g[y].to, k)
        BY <4>1 DEF FirstColumns
      <4> QED
        BY <2>6, <3>2, <3>3, <4>1, <4>2
    <3> QED
      BY <3>4, <3>5
  <2>8. FirstColumns(n + 1, f)
    BY <2>5, <2>6, <2>7 DEF FirstColumns
  <2> QED
    BY <2>1, <2>8
<1>4. N \in T
  <2> HIDE DEF T
  <2>1. 0 .. N \subseteq T
    BY <1>1, <1>2, <1>3, InductUpTo
  <2> QED
    BY <1>1, <2>1
<1> QED
  BY <1>4

\* The columns of the automaton are such columns, for these satisfy its equation.
LEMMA ColumnIs ==
    ASSUME FindTypeInv, PatternLength > 0
    PROVE  \A k \in 0 .. PatternLength - 1 : GoodColumn(k, Column[k])
<1> DEFINE N == PatternLength - 1
           Rhs(f, k) == IF k = 0 THEN FirstColumn ELSE ColumnFrom(f[f[k - 1].x].to, k)
           Equation(f) == f = [k \in 0 .. N |-> Rhs(f, k)]
<1>1. N \in Nat
  BY PatternIs
<1>2. PICK g : FirstColumns(N, g)
  BY AllColumns
<1>3. Equation(g)
  <2>1. g \in [0 .. N -> Columns]
    BY <1>2 DEF FirstColumns
  <2>2. \A k \in 0 .. N : g[k] = Rhs(g, k)
    BY <1>1, <1>2 DEF FirstColumns
  <2> HIDE DEF Rhs
  <2> QED
    BY <2>1, <2>2
<1>4. Column = CHOOSE f : Equation(f)
  BY DEF Column, FirstColumn, ColumnFrom
<1>5. Equation(Column)
  <2> HIDE DEF Equation
  <2> QED
    BY <1>3, <1>4
<1> DEFINE T == {k \in 0 .. N : \A j \in 0 .. k : Column[j] = g[j]}
<1>6. \A k \in 0 .. N : Column[k] = Rhs(Column, k)
  <2> HIDE DEF Rhs
  <2> QED
    BY <1>5
<1>7. \A k \in 0 .. N : GoodColumn(k, g[k])
  BY <1>1, <1>2, ColumnsAreGood
<1>8. 0 \in T
  BY <1>1, <1>2, <1>6 DEF FirstColumns
<1>9. ASSUME NEW k \in 0 .. N - 1, k \in T
      PROVE  k + 1 \in T
  <2>1. k \in 0 .. N /\ k + 1 \in 1 .. N /\ k + 1 \in 0 .. N /\ k + 1 - 1 = k /\ k + 1 # 0
    BY <1>1
  <2>2. g[k].x \in 0 .. k
    <3>1. LongestBorder(k + 1, g[k].x)
      BY <1>7, <2>1 DEF GoodColumn
    <3> QED
      BY <2>1, <3>1 DEF LongestBorder
  <2>3. Column[k] = g[k] /\ Column[g[k].x] = g[g[k].x]
    BY <1>9, <2>1, <2>2
  <2>4. Column[k + 1] = ColumnFrom(Column[Column[k].x].to, k + 1)
    BY <1>6, <2>1
  <2>5. g[k + 1] = ColumnFrom(g[g[k].x].to, k + 1)
    BY <1>2, <2>1 DEF FirstColumns
  <2>6. \A j \in 0 .. k + 1 : j \in 0 .. k \/ j = k + 1
    BY <2>1
  <2>7. Column[k + 1] = g[k + 1]
    BY <2>3, <2>4, <2>5
  <2> QED
    BY <1>9, <2>1, <2>6, <2>7
<1>10. 0 .. N \subseteq T
  <2> HIDE DEF T, N
  <2> QED
    BY <1>1, <1>8, <1>9, InductUpTo
<1>11. \A k \in 0 .. N : Column[k] = g[k]
  BY <1>1, <1>10
<1> QED
  BY <1>7, <1>11

\* What the state says after idx characters: the longest end of them that starts
\* the pattern, unless the whole pattern has been among them.
GoodState(idx, s) ==
    /\ s \in 0 .. PatternLength
    /\ s < PatternLength =>
          /\ Ends(idx, s) /\ \A j \in 0 .. PatternLength : Ends(idx, j) => j <= s
          /\ \A e \in 0 .. idx : ~Ends(e, PatternLength)
    /\ s = PatternLength => \E e \in 0 .. idx : Ends(e, PatternLength)

\* The right-hand side of the definition of StateAfter.
StateFrom(s, idx) ==
    IF s = PatternLength THEN s ELSE Column[s].to[buf(idx - 1)]

LEMMA StateFromIs ==
    ASSUME FindTypeInv, PatternLength > 0, NEW s \in 0 .. PatternLength, NEW idx \in 1 .. Length
    PROVE  /\ StateFrom(s, idx) \in 0 .. PatternLength
           /\ s = PatternLength => StateFrom(s, idx) = s
           /\ s < PatternLength => LongestStep(s, buf(idx - 1), StateFrom(s, idx))
<1>1. PatternLength \in Nat /\ Length \in Nat
  BY PatternIs
<1>2. CASE s = PatternLength
  BY <1>1, <1>2 DEF StateFrom
<1>3. CASE s < PatternLength
  <2>1. s \in 0 .. PatternLength - 1 /\ idx - 1 \in 0 .. Length - 1 /\ s # PatternLength
    BY <1>1, <1>3
  <2>2. buf(idx - 1) \in Char
    BY <2>1, PatternIs
  <2>3. GoodColumn(s, Column[s])
    BY <2>1, ColumnIs
  <2>4. LongestStep(s, buf(idx - 1), Column[s].to[buf(idx - 1)])
    BY <2>2, <2>3 DEF GoodColumn
  <2>5. StateFrom(s, idx) = Column[s].to[buf(idx - 1)]
    BY <2>1 DEF StateFrom
  <2>6. StateFrom(s, idx) \in 0 .. s + 1
    BY <2>4, <2>5 DEF LongestStep
  <2> QED
    BY <1>1, <2>1, <2>4, <2>5, <2>6
<1> QED
  BY <1>1, <1>2, <1>3

\* One more character keeps the state good.
LEMMA NextStateIsGood ==
    ASSUME FindTypeInv, PatternLength > 0, NEW k \in 0 .. Length - 1, NEW s, GoodState(k, s)
    PROVE  GoodState(k + 1, StateFrom(s, k + 1))
<1> DEFINE c == buf(k)
           n == StateFrom(s, k + 1)
<1>1. /\ PatternLength \in Nat /\ k \in Nat /\ s \in 0 .. PatternLength
      /\ k + 1 \in 1 .. Length /\ k + 1 - 1 = k
  BY PatternIs DEF GoodState
<1>2. CASE s = PatternLength
  <2>1. n = PatternLength
    BY <1>1, <1>2, StateFromIs
  <2>2. PICK e \in 0 .. k : Ends(e, PatternLength)
    BY <1>2 DEF GoodState
  <2>3. e \in 0 .. k + 1
    BY <1>1
  <2> HIDE DEF n
  <2>4. GoodState(k + 1, n)
    BY <1>1, <2>1, <2>2, <2>3 DEF GoodState
  <2> QED
    BY <2>4 DEF n
<1>3. CASE s < PatternLength
  <2>1. n \in 0 .. PatternLength /\ LongestStep(s, c, n)
    BY <1>1, <1>3, StateFromIs
  <2> HIDE DEF n
  <2>2. /\ Ends(k, s) /\ \A j \in 0 .. PatternLength : Ends(k, j) => j <= s
        /\ \A e \in 0 .. k : ~Ends(e, PatternLength)
    BY <1>3 DEF GoodState
  <2>3. ASSUME NEW j \in 0 .. PatternLength
        PROVE  /\ j <= s + 1 => (Ends(k + 1, j) <=> LeadsTo(s, c, j))
               /\ Ends(k + 1, j) => j <= s + 1
    <3>1. CASE j = 0
      <4>1. Ends(k + 1, 0)
        BY <1>1 DEF Ends
      <4> QED
        BY <1>1, <3>1, <4>1 DEF LeadsTo
    <3>2. CASE j # 0
      <4> PICK h \in Nat : j = h + 1
        <5>1. j - 1 \in Nat /\ j = (j - 1) + 1
          BY <1>1, <3>2
        <5> QED
          BY <5>1
      <4>1. j - 1 = h /\ h \in 0 .. PatternLength /\ (j <= s + 1 <=> h <= s)
        BY <1>1
      <4>2. Ends(k + 1, j) <=> Ends(k, h) /\ c = p(h)
        BY <1>1, EndGrows
      <4>3. Ends(k, h) => h <= s
        BY <2>2, <4>1
      <4>4. h <= s => (Ends(k, h) <=> Suffix(s, h))
        BY <1>1, <2>2, SuffixOfEnd
      <4>5. LeadsTo(s, c, j) <=> Suffix(s, h) /\ p(h) = c
        BY <3>2, <4>1 DEF LeadsTo
      <4> HIDE DEF c
      <4> QED
        BY <4>1, <4>2, <4>3, <4>4, <4>5
    <3> QED
      BY <3>1, <3>2
  <2>4. n \in 0 .. s + 1 /\ n <= s + 1 /\ LeadsTo(s, c, n)
        /\ \A j \in 0 .. s + 1 : LeadsTo(s, c, j) => j <= n
    BY <1>1, <2>1 DEF LongestStep
  <2>5. Ends(k + 1, n)
    BY <2>1, <2>3, <2>4
  <2>6. ASSUME NEW j \in 0 .. PatternLength, Ends(k + 1, j)
        PROVE  j <= n
    <3>1. j <= s + 1 /\ LeadsTo(s, c, j)
      BY <2>3, <2>6
    <3>2. j \in 0 .. s + 1
      BY <1>1, <3>1
    <3> QED
      BY <2>4, <3>1, <3>2
  <2>7. CASE n = PatternLength
    <3>1. k + 1 \in 0 .. k + 1
      BY <1>1
    <3>2. \E e \in 0 .. k + 1 : Ends(e, PatternLength)
      BY <2>5, <2>7, <3>1
    <3>3. ~(n < PatternLength)
      BY <1>1, <2>7
    <3>4. GoodState(k + 1, n)
      BY <2>1, <3>2, <3>3 DEF GoodState
    <3> QED
      BY <3>4 DEF n
  <2>8. CASE n < PatternLength
    <3>1. ~Ends(k + 1, PatternLength)
      <4>1. PatternLength \in 0 .. PatternLength /\ ~(PatternLength <= n)
        BY <1>1, <2>1, <2>8
      <4> QED
        BY <2>6, <4>1
    <3>2. \A e \in 0 .. k + 1 : e \in 0 .. k \/ e = k + 1
      BY <1>1
    <3>3. \A e \in 0 .. k + 1 : ~Ends(e, PatternLength)
      BY <2>2, <3>1, <3>2
    <3>4. n # PatternLength
      BY <1>1, <2>1, <2>8
    <3>5. GoodState(k + 1, n)
      BY <2>1, <2>5, <2>6, <3>3, <3>4 DEF GoodState
    <3> QED
      BY <3>5 DEF n
  <2> QED
    BY <1>1, <2>1, <2>7, <2>8
<1> QED
  BY <1>1, <1>2, <1>3

\* The states after the first n characters, and that there are states after all.
FirstStates(n, g) ==
    /\ g \in [0 .. n -> 0 .. PatternLength]
    /\ g[0] = 0
    /\ \A k \in 1 .. n : g[k] = StateFrom(g[k - 1], k)

LEMMA AllStates ==
    ASSUME FindTypeInv, PatternLength > 0
    PROVE  \E g : FirstStates(Length, g)
<1> DEFINE T == {n \in 0 .. Length : \E g : FirstStates(n, g)}
<1>1. Length \in Nat /\ PatternLength \in Nat
  BY PatternIs
<1>2. 0 \in T
  <2>1. FirstStates(0, [k \in 0 .. 0 |-> 0])
    BY <1>1 DEF FirstStates
  <2> QED
    BY <1>1, <2>1
<1>3. ASSUME NEW n \in 0 .. Length - 1, n \in T
      PROVE  n + 1 \in T
  <2> PICK g : FirstStates(n, g)
    BY <1>3
  <2> DEFINE s == StateFrom(g[n], n + 1)
             f == [k \in 0 .. n + 1 |-> IF k = n + 1 THEN s ELSE g[k]]
  <2>1. n \in Nat /\ n \in 0 .. n /\ n + 1 \in 0 .. Length /\ n + 1 \in 1 .. Length /\ n + 1 - 1 = n
    BY <1>1
  <2>2. g \in [0 .. n -> 0 .. PatternLength]
    BY DEF FirstStates
  <2>3. s \in 0 .. PatternLength
    <3>1. g[n] \in 0 .. PatternLength
      BY <2>1, <2>2
    <3> QED
      BY <2>1, <3>1, StateFromIs
  <2> HIDE DEF s
  <2>4. \A k \in 0 .. n + 1 : k # n + 1 => k \in 0 .. n
    BY <2>1
  <2>5. f \in [0 .. n + 1 -> 0 .. PatternLength]
    BY <2>2, <2>3, <2>4
  <2>6. f[n + 1] = s /\ \A k \in 0 .. n : f[k] = g[k]
    BY <2>1
  <2> HIDE DEF f
  <2>7. ASSUME NEW k \in 1 .. n + 1
        PROVE  f[k] = StateFrom(f[k - 1], k)
    <3>1. k - 1 \in 0 .. n /\ f[k - 1] = g[k - 1]
      BY <2>1, <2>6
    <3>2. CASE k = n + 1
      BY <2>1, <2>6, <3>1, <3>2 DEF s
    <3>3. CASE k # n + 1
      <4>1. k \in 1 .. n /\ k \in 0 .. n
        BY <2>1, <3>3
      <4> QED
        BY <2>6, <3>1, <4>1 DEF FirstStates
    <3> QED
      BY <3>2, <3>3
  <2>8. f[0] = 0
    BY <2>1, <2>6 DEF FirstStates
  <2>9. FirstStates(n + 1, f)
    BY <2>5, <2>7, <2>8 DEF FirstStates
  <2> QED
    BY <2>1, <2>9
<1>4. Length \in T
  <2> HIDE DEF T
  <2>1. 0 .. Length \subseteq T
    BY <1>1, <1>2, <1>3, InductUpTo
  <2> QED
    BY <1>1, <2>1
<1> QED
  BY <1>4

LEMMA StateAfterIs ==
    ASSUME FindTypeInv, PatternLength > 0
    PROVE  \A idx \in 0 .. Length : GoodState(idx, StateAfter[idx])
<1> DEFINE Rhs(f, k) == IF k = 0 THEN 0 ELSE StateFrom(f[k - 1], k)
           Equation(f) == f = [k \in 0 .. Length |-> Rhs(f, k)]
           T == {k \in 0 .. Length : GoodState(k, StateAfter[k])}
<1>1. Length \in Nat /\ PatternLength \in Nat
  BY PatternIs
<1>2. PICK g : FirstStates(Length, g)
  BY AllStates
<1>3. Equation(g)
  <2>1. g \in [0 .. Length -> 0 .. PatternLength]
    BY <1>2 DEF FirstStates
  <2>2. \A k \in 0 .. Length : g[k] = Rhs(g, k)
    BY <1>1, <1>2 DEF FirstStates
  <2> HIDE DEF Rhs
  <2> QED
    BY <2>1, <2>2
<1>4. StateAfter = CHOOSE f : Equation(f)
  BY DEF StateAfter, StateFrom
<1>5. Equation(StateAfter)
  <2> HIDE DEF Equation
  <2> QED
    BY <1>3, <1>4
<1>6. \A k \in 0 .. Length : StateAfter[k] = Rhs(StateAfter, k)
  <2> HIDE DEF Rhs
  <2> QED
    BY <1>5
<1>7. 0 \in T
  <2>1. Ends(0, 0) /\ \A j \in 0 .. PatternLength : Ends(0, j) => j <= 0
    BY <1>1 DEF Ends
  <2>2. \A e \in 0 .. 0 : ~Ends(e, PatternLength)
    BY <1>1 DEF Ends
  <2>3. 0 \in 0 .. Length /\ 0 \in 0 .. PatternLength /\ 0 # PatternLength
    BY <1>1
  <2>4. StateAfter[0] = 0
    BY <1>6, <2>3
  <2>5. GoodState(0, 0)
    BY <2>1, <2>2, <2>3 DEF GoodState
  <2> QED
    BY <2>3, <2>4, <2>5
<1>8. ASSUME NEW k \in 0 .. Length - 1, k \in T
      PROVE  k + 1 \in T
  <2>1. k + 1 \in 0 .. Length /\ k + 1 # 0 /\ k + 1 - 1 = k
    BY <1>1
  <2>2. StateAfter[k + 1] = StateFrom(StateAfter[k], k + 1)
    BY <1>6, <2>1
  <2>3. GoodState(k + 1, StateFrom(StateAfter[k], k + 1))
    BY <1>8, NextStateIsGood
  <2> QED
    BY <2>1, <2>2, <2>3
<1>9. 0 .. Length \subseteq T
  <2> HIDE DEF T
  <2> QED
    BY <1>1, <1>7, <1>8, InductUpTo
<1> QED
  BY <1>9

\* The automaton finds the first occurrence, for the first place where its state
\* is the full match is the end of that occurrence.
LEMMA AutomatonFindsFirst ==
    ASSUME FindTypeInv, PatternLength > 0
    PROVE  IsFirst(InternalFind)
<1> DEFINE PL == PatternLength
<1>1. Length \in Nat /\ PL \in Nat
  BY PatternIs
<1>2. \A idx \in 0 .. Length : GoodState(idx, StateAfter[idx])
  BY StateAfterIs
<1>3. ASSUME NEW k \in Nat
      PROVE  OccursAt(k) <=> k + PL <= Length /\ Ends(k + PL, PL)
  <2>1. \A j \in 0 .. PL - 1 : (k + PL) - PL + j = k + j
    BY <1>1
  <2>2. PL <= k + PL
    BY <1>1
  <2> QED
    BY <2>1, <2>2 DEF OccursAt, Ends
<1>4. ASSUME NEW idx \in 0 .. Length, idx \notin Matched, NEW e \in 0 .. idx
      PROVE  ~Ends(e, PL)
  <2>1. GoodState(idx, StateAfter[idx]) /\ StateAfter[idx] # PL
    BY <1>2, <1>4 DEF Matched
  <2>2. StateAfter[idx] < PL
    BY <1>1, <2>1 DEF GoodState
  <2> QED
    BY <2>1, <2>2 DEF GoodState
<1>5. CASE Matched = {}
  <2>1. Length \in 0 .. Length /\ Length \notin Matched
    BY <1>1, <1>5
  <2>2. ASSUME NEW k \in 0 .. Length
        PROVE  ~OccursAt(k)
    <3>1. k \in Nat /\ (k + PL <= Length => k + PL \in 0 .. Length)
      BY <1>1
    <3>2. \A e \in 0 .. Length : ~Ends(e, PL)
      BY <1>4, <2>1
    <3> HIDE DEF PL
    <3> QED
      BY <1>3, <3>1, <3>2
  <2>3. InternalFind = npos
    BY <1>5 DEF InternalFind
  <2> QED
    BY <2>2, <2>3 DEF IsFirst
<1>6. CASE Matched # {}
  <2> DEFINE f == FirstMatched
  <2>1. f \in Matched /\ \A k \in Matched : f <= k
    <3>1. Matched \in SUBSET Nat
      BY <1>1 DEF Matched
    <3>2. \E x \in Matched : \A k \in Matched : x <= k
      BY <1>6, <3>1, LeastNat
    <3> HIDE DEF f
    <3> QED
      BY <3>2 DEF FirstMatched, f
  <2> HIDE DEF f
  <2>2. f \in 0 .. Length /\ GoodState(f, StateAfter[f]) /\ StateAfter[f] = PL
    BY <1>2, <2>1 DEF Matched
  <2>3. ASSUME NEW e \in 0 .. Length, e < f
        PROVE  ~Ends(e, PL)
    <3>1. e \notin Matched
      BY <2>1, <2>2, <2>3
    <3>2. e \in 0 .. e
      BY <1>1
    <3> QED
      BY <1>4, <3>1, <3>2
  <2>4. PICK e \in 0 .. f : Ends(e, PL)
    BY <2>2 DEF GoodState
  <2>5. e = f
    <3>1. e \in 0 .. Length /\ (e < f \/ e = f)
      BY <1>1, <2>2
    <3> QED
      BY <2>3, <2>4, <3>1
  <2>6. Ends(f, PL) /\ PL <= f
    BY <2>4, <2>5 DEF Ends
  <2>7. f - PL \in Nat /\ f - PL + PL = f
    BY <1>1, <2>2, <2>6
  <2>8. OccursAt(f - PL)
    BY <1>3, <2>2, <2>6, <2>7
  <2>9. ASSUME NEW k \in 0 .. f - PL - 1
        PROVE  ~OccursAt(k)
    <3>1. k \in Nat /\ k + PL \in 0 .. Length /\ k + PL < f
      BY <1>1, <2>2
    <3>2. ~Ends(k + PL, PL)
      BY <2>3, <3>1
    <3> QED
      BY <1>3, <3>1, <3>2
  <2>10. InternalFind = f - PL /\ InternalFind # npos
    BY <1>6, <2>7, TextsAssumption DEF InternalFind, f
  <2> QED
    BY <2>8, <2>9, <2>10 DEF IsFirst
<1> QED
  BY <1>5, <1>6

-----------------------------------------------------------------------------
(* The theorems *)

\* Where Slice::find says that the pattern is, it is: for every text and every
\* pattern, whatever find misses.
THEOREM FoundIsThere == FindSpec => []FoundIsOccurrence
<1>1. FindInv => FoundIsOccurrence
  BY DEF FindInv
<1> QED
  BY <1>1, FindSafety, PTL

\* Slice::find agrees with std::string::find on every text, for every pattern
\* whose first character does not occur in it again.
THEOREM FirstIsFound == FindSpec => []FindsFirst
<1>1. FindInv => FindsFirst
  BY DEF FindInv, FirstInv, FindsFirst, UniqueStart
<1> QED
  BY <1>1, FindSafety, PTL

\* The search with the automaton (lines 169 to 199) finds the first occurrence of
\* every pattern, where find() misses some.
THEOREM AutomatonRight == FindSpec => []InternalFindsFirst
<1>1. FindInv => InternalFindsFirst
  BY AutomatonFindsFirst DEF FindInv, InternalFindsFirst
<1> QED
  BY <1>1, FindSafety, PTL

-----------------------------------------------------------------------------
(* The parser, against what has arrived *)

Keys == {"host", "content-length"}

\* The kind of the line that ends at e, and whether it is an error there, as in Verdict.
KindOf(s, e) == IF Len(Text(s, e)) = 1 THEN Text(s, e)[1].kind ELSE "bytes"
Wrong(s, e) ==
    IF e = Min(LineEnds(s)) THEN KindOf(s, e) # "request"
    ELSE Text(s, e) # << >> /\ KindOf(s, e) # "header"

\* Line e has the header key; it is the first line that has it.
IsHeader(s, e, key) == Text(s, e)[1].kind = "header" /\ Text(s, e)[1].key = key
FirstHeader(s, e, key) ==
    IsHeader(s, e, key) /\ \A d \in LineEnds(s) : d < e => ~IsHeader(s, d, key)

\* The lines of s that end before position n are right, and q has their contents.
HeadFits(s, n, q) ==
    /\ \A e \in LineEnds(s) : e < n => Text(s, e) # << >> /\ ~Wrong(s, e)
    /\ q.line = s[1]
    /\ \A key \in Keys :
          /\ key \in DOMAIN q.headers =>
                \E e \in LineEnds(s) :
                   e < n /\ FirstHeader(s, e, key) /\ q.headers[key] = Text(s, e)[1].value
          /\ key \notin DOMAIN q.headers =>
                \A e \in LineEnds(s) : e < n => ~IsHeader(s, e, key)

\* The blank line behind the headers ends at b.
BlankAt(s, b) == b \in LineEnds(s) /\ Text(s, b) = << >> /\ b # Min(LineEnds(s))

IsParser(q) == q = [f \in {"status", "line", "headers", "length", "body"} |-> q[f]]

\* Parser q has taken the first k symbols of s.
ParserFits(s, k, q) ==
    /\ IsParser(q)
    /\ q.body = << >>
    /\ \/ q.status \in {"kInit", "kParsingRequestLine"} /\ k = 0 /\ q.headers = << >>
       \/ q.status = "kParsingRequestHeader" /\ k - 1 \in LineEnds(s) /\ HeadFits(s, k, q)
       \/ /\ q.status = "kParsingRequestBody"
          /\ BlankAt(s, k - 1) /\ HeadFits(s, k - 1, q)
          /\ "content-length" \in DOMAIN q.headers
          /\ q.length = q.headers["content-length"] /\ q.length \in Nat

\* The first k symbols of s are request q.
RequestFits(s, k, q) ==
    LET b == k - 1 - Len(q.body)
    IN  /\ IsParser(q)
        /\ k <= Len(s)
        /\ q.body \in Seq(Symbols)
        /\ BlankAt(s, b) /\ HeadFits(s, b, q)
        /\ q.body = SubSeq(s, b + 2, k)
        /\ IF "content-length" \in DOMAIN q.headers
           THEN q.body # << >> /\ q.headers["content-length"] = Len(q.body)
           ELSE q.body = << >>

-----------------------------------------------------------------------------
(* The invariant *)

\* s without its first k symbols, and how many have been consumed.
Rest(s, k) == SubSeq(s, k + 1, Len(s))
Taken == Len(received) - Len(readBuf)

Statuses == {"200", "400", "403", "404", "500", "501"}

TypeInv ==
    /\ {sameLoop, fin, reading, writing, closeOnWritten, aborted} \subseteq BOOLEAN
    /\ toSend \in Seq(Symbols) /\ socket \in Seq(Symbols)
    /\ received \in Seq(Symbols) /\ readBuf \in Seq(Symbols)
    /\ pc \in {"poll", "write", "read", "parse", "check", "load", "functors", "ended"}
    /\ revents \subseteq {"in", "out"}
    /\ state \in {"kConnected", "kDisconnected"}
    /\ destroy \in {"no", "asked", "queued", "done"}
    /\ unsent \in Nat /\ changes \in Nat
    /\ answers \in Seq(Statuses)

\* The parser, or the request that was taken, is what has been consumed of the bytes read.
ParsedInv ==
    /\ Taken \in Nat /\ readBuf = Rest(received, Taken)
    /\ context # None => ParserFits(received, Taken, context) /\ request = None
    /\ context = None => RequestFits(received, Taken, request) /\ pc # "parse"

\* What has been answered is what the next call of the parser would say: 400 when it
\* is at an error, nothing when it waits; to a request that was taken, one answer.
AnswersInv ==
    /\ context # None =>
          /\ \A k \in DOMAIN answers : answers[k] = "400"
          /\ pc # "parse" /\ ~aborted =>
                func(context, readBuf).res =
                    IF answers = << >> THEN "kParseNeedMore" ELSE "kParseError"
          /\ pc = "parse" /\ answers # << >> => func(context, readBuf).res = "kParseError"
    /\ context = None /\ ~aborted => Len(answers) = IF pc \in {"check", "load"} THEN 0 ELSE 1
    /\ pc \in {"check", "load"} => context = None /\ state = "kConnected"
    /\ pc = "load" => changes > 0 \/ files[chosen] \in {"empty", "small", "large"}

\* How far the connection's closing is, and what may be left of it in the iteration.
CloseInv ==
    /\ aborted => pc = "ended" /\ destroy # "done"
    /\ destroy = "no" <=> state = "kConnected"
    /\ destroy = "done" => pc = "ended"
    /\ state = "kDisconnected" =>
          /\ ~reading
          /\ sameLoop => destroy # "asked" /\ pc \notin {"poll", "write"}
          /\ writing => context # None
          /\ pc \in {"read", "parse"} => answers # << >>
    /\ writing => closeOnWritten /\ answers # << >>
    /\ pc = "write" => writing
    /\ pc = "read" => "in" \in revents
    /\ pc \in {"write", "read"} /\ "in" \in revents => socket # << >> \/ fin
    /\ ~fin /\ ~writing => unsent = 0

IInv == TypeInv /\ ParsedInv /\ AnswersInv /\ CloseInv /\ ProperRequestsSurvived

-----------------------------------------------------------------------------
(* Sequences *)

LEMMA SubSeqIs ==
    ASSUME NEW S, NEW s \in Seq(S), NEW a \in Nat \ {0}, NEW b \in Nat, b <= Len(s)
    PROVE  /\ SubSeq(s, a, b) \in Seq(S)
           /\ a <= b + 1 => Len(SubSeq(s, a, b)) = (b + 1) - a
           /\ b < a => SubSeq(s, a, b) = << >>
           /\ \A k \in 1 .. (b + 1) - a : SubSeq(s, a, b)[k] = s[(a - 1) + k]
<1>1. Len(s) \in Nat /\ \A k \in 1 .. Len(s) : s[k] \in S
  OBVIOUS
<1>2. \A k \in a .. b : s[k] \in S
  BY <1>1
<1>3. a \in Int /\ b \in Int
  OBVIOUS
<1> DEFINE t == SubSeq(s, a, b)
<1>4. /\ t \in Seq(S) /\ Len(t) = IF a <= b THEN b - a + 1 ELSE 0
      /\ \A k \in 1 .. b - a + 1 : t[k] = s[a + k - 1]
  BY <1>2, <1>3, SubSeqProperties
<1>5. b < a => t = << >>
  BY <1>3, SubSeqEmpty
<1> HIDE DEF t
<1>6. a <= b + 1 => Len(t) = (b + 1) - a
  BY <1>3, <1>4
<1>7. \A k \in 1 .. (b + 1) - a : t[k] = s[(a - 1) + k]
  <2> TAKE k \in 1 .. (b + 1) - a
  <2>1. k \in 1 .. b - a + 1 /\ a + k - 1 = (a - 1) + k
    BY <1>3
  <2> QED
    BY <1>4, <2>1
<1> QED
  BY <1>4, <1>5, <1>6, <1>7 DEF t

\* u is s, or s and more.
Extends(u, s) == Len(s) <= Len(u) /\ \A k \in 1 .. Len(s) : u[k] = s[k]

LEMMA ConcatExtends ==
    ASSUME NEW S, NEW s \in Seq(S), NEW t \in Seq(S)
    PROVE  /\ s \o t \in Seq(S) /\ Len(s \o t) = Len(s) + Len(t)
           /\ Extends(s \o t, s)
           /\ \A k \in 1 .. Len(t) : (s \o t)[Len(s) + k] = t[k]
<1> DEFINE u == s \o t
<1>1. /\ u \in Seq(S) /\ Len(u) = Len(s) + Len(t)
      /\ \A k \in 1 .. Len(s) + Len(t) : u[k] = IF k <= Len(s) THEN s[k] ELSE t[k - Len(s)]
  BY ConcatProperties
<1>2. Len(s) \in Nat /\ Len(t) \in Nat
  OBVIOUS
<1> HIDE DEF u
<1>3. \A k \in 1 .. Len(s) : u[k] = s[k]
  BY <1>1, <1>2
<1>4. \A k \in 1 .. Len(t) : u[Len(s) + k] = t[k]
  <2> TAKE k \in 1 .. Len(t)
  <2>1. Len(s) + k \in 1 .. Len(s) + Len(t) /\ ~(Len(s) + k <= Len(s)) /\ (Len(s) + k) - Len(s) = k
    BY <1>2
  <2> QED
    BY <1>1, <2>1
<1> QED
  BY <1>1, <1>2, <1>3, <1>4 DEF u, Extends

LEMMA PrefixExtended ==
    ASSUME NEW S, NEW s \in Seq(S), NEW n \in 0 .. Len(s)
    PROVE  /\ SubSeq(s, 1, n) \in Seq(S) /\ Len(SubSeq(s, 1, n)) = n
           /\ Extends(s, SubSeq(s, 1, n))
<1>1. Len(s) \in Nat /\ n \in Nat /\ n <= Len(s) /\ 1 <= n + 1
  OBVIOUS
<1> DEFINE t == SubSeq(s, 1, n)
<1>2. t \in Seq(S) /\ Len(t) = (n + 1) - 1 /\ \A k \in 1 .. (n + 1) - 1 : t[k] = s[(1 - 1) + k]
  BY <1>1, SubSeqIs
<1> HIDE DEF t
<1>3. Len(t) = n /\ \A k \in 1 .. n : t[k] = s[k]
  BY <1>1, <1>2
<1> QED
  BY <1>1, <1>2, <1>3 DEF Extends, t

LEMMA RestIs ==
    ASSUME NEW S, NEW s \in Seq(S), NEW n \in 0 .. Len(s)
    PROVE  /\ Rest(s, n) \in Seq(S) /\ Len(Rest(s, n)) = Len(s) - n
           /\ \A k \in 1 .. Len(s) - n : Rest(s, n)[k] = s[n + k]
<1>1. Len(s) \in Nat /\ n \in Nat /\ n <= Len(s) /\ n + 1 <= Len(s) + 1 /\ n + 1 \in Nat \ {0}
  OBVIOUS
<1> DEFINE t == SubSeq(s, n + 1, Len(s))
<1>2. /\ t \in Seq(S) /\ Len(t) = (Len(s) + 1) - (n + 1)
      /\ \A k \in 1 .. (Len(s) + 1) - (n + 1) : t[k] = s[((n + 1) - 1) + k]
  BY <1>1, SubSeqIs
<1> HIDE DEF t
<1>3. Len(t) = Len(s) - n /\ \A k \in 1 .. Len(s) - n : t[k] = s[n + k]
  BY <1>1, <1>2
<1> QED
  BY <1>2, <1>3 DEF Rest, t

LEMMA RestOfRest ==
    ASSUME NEW S, NEW s \in Seq(S), NEW n \in 0 .. Len(s), NEW d \in 0 .. Len(s) - n
    PROVE  Rest(Rest(s, n), d) = Rest(s, n + d)
<1>1. /\ Rest(s, n) \in Seq(S) /\ Len(Rest(s, n)) = Len(s) - n
      /\ \A k \in 1 .. Len(s) - n : Rest(s, n)[k] = s[n + k]
  BY RestIs
<1>2. Len(s) \in Nat /\ n \in Nat /\ d \in Nat /\ n <= Len(s) /\ d <= Len(s) - n
  OBVIOUS
<1> DEFINE t == Rest(s, n)
<1> HIDE DEF t
<1>3. d \in 0 .. Len(t)
  BY <1>1, <1>2 DEF t
<1>4. /\ Rest(t, d) \in Seq(S) /\ Len(Rest(t, d)) = Len(t) - d
      /\ \A k \in 1 .. Len(t) - d : Rest(t, d)[k] = t[d + k]
  BY <1>1, <1>3, RestIs DEF t
<1>5. n + d \in 0 .. Len(s)
  BY <1>2
<1>6. /\ Rest(s, n + d) \in Seq(S) /\ Len(Rest(s, n + d)) = Len(s) - (n + d)
      /\ \A k \in 1 .. Len(s) - (n + d) : Rest(s, n + d)[k] = s[(n + d) + k]
  BY <1>5, RestIs
<1>7. Len(Rest(t, d)) = Len(Rest(s, n + d)) /\ Len(Rest(t, d)) = Len(s) - (n + d)
  <2>1. Len(t) = Len(s) - n
    BY <1>1 DEF t
  <2>2. Len(t) - d = Len(s) - (n + d)
    BY <1>2, <2>1
  <2> QED
    BY <1>4, <1>6, <2>2
<1>8. ASSUME NEW k \in 1 .. Len(s) - (n + d)
      PROVE  Rest(t, d)[k] = Rest(s, n + d)[k]
  <2>1. k \in 1 .. Len(t) - d /\ d + k \in 1 .. Len(s) - n /\ n + (d + k) = (n + d) + k
    BY <1>1, <1>2 DEF t
  <2>2. Rest(t, d)[k] = t[d + k] /\ t[d + k] = s[n + (d + k)]
    BY <1>1, <1>4, <2>1 DEF t
  <2> QED
    BY <1>6, <2>1, <2>2
<1>9. Rest(t, d) = Rest(s, n + d)
  BY <1>4, <1>6, <1>7, <1>8, SeqEqual
<1> QED
  BY <1>9 DEF t

LEMMA RestOfConcat ==
    ASSUME NEW S, NEW s \in Seq(S), NEW t \in Seq(S), NEW n \in 0 .. Len(s)
    PROVE  Rest(s \o t, n) = Rest(s, n) \o t
<1>1. Len(s) \in Nat /\ Len(t) \in Nat /\ n \in Nat /\ n <= Len(s)
  OBVIOUS
<1> DEFINE u == s \o t
<1> DEFINE v == Rest(s, n)
<1> DEFINE w == v \o t
<1>2. /\ u \in Seq(S) /\ Len(u) = Len(s) + Len(t) /\ \A k \in 1 .. Len(s) : u[k] = s[k]
      /\ \A k \in 1 .. Len(t) : u[Len(s) + k] = t[k]
  BY ConcatExtends DEF Extends
<1>3. v \in Seq(S) /\ Len(v) = Len(s) - n /\ \A k \in 1 .. Len(s) - n : v[k] = s[n + k]
  BY RestIs
<1> HIDE DEF v
<1>4. /\ w \in Seq(S) /\ Len(w) = Len(v) + Len(t) /\ \A k \in 1 .. Len(v) : w[k] = v[k]
      /\ \A k \in 1 .. Len(t) : w[Len(v) + k] = t[k]
  <2>1. v \in Seq(S)
    BY <1>3
  <2> HIDE DEF u
  <2> QED
    BY <2>1, ConcatExtends DEF Extends
<1> HIDE DEF u, w
<1>5. n \in 0 .. Len(u)
  BY <1>1, <1>2
<1>6. Rest(u, n) \in Seq(S) /\ Len(Rest(u, n)) = Len(u) - n
      /\ \A k \in 1 .. Len(u) - n : Rest(u, n)[k] = u[n + k]
  BY <1>2, <1>5, RestIs
<1>7. Len(Rest(u, n)) = Len(w)
  BY <1>1, <1>2, <1>3, <1>4, <1>6
<1>8. ASSUME NEW k \in 1 .. Len(w)
      PROVE  Rest(u, n)[k] = w[k]
  <2>1. k \in 1 .. Len(u) - n /\ Rest(u, n)[k] = u[n + k]
    BY <1>6, <1>7
  <2>2. CASE k <= Len(s) - n
    <3>1. k \in 1 .. Len(s) - n /\ n + k \in 1 .. Len(s) /\ k \in 1 .. Len(v)
      BY <1>1, <1>3, <2>2
    <3> QED
      BY <1>2, <1>3, <1>4, <2>1, <3>1
  <2>3. CASE k > Len(s) - n
    <3> DEFINE j == k - (Len(s) - n)
    <3>1. j \in 1 .. Len(t) /\ n + k = Len(s) + j /\ k = Len(v) + j
      BY <1>1, <1>2, <1>3, <2>1, <2>3
    <3> HIDE DEF j
    <3> QED
      BY <1>2, <1>4, <2>1, <3>1
  <2> QED
    BY <1>1, <2>2, <2>3
<1>9. Rest(u, n) = w
  BY <1>4, <1>6, <1>7, <1>8, SeqEqual
<1> QED
  BY <1>9 DEF u, v, w
-----------------------------------------------------------------------------
(* Lines *)

LEMMA MinIs ==
    ASSUME NEW T, NEW x \in T, T \subseteq Nat, \A y \in T : x <= y
    PROVE  Min(T) = x
<1>1. Min(T) \in T /\ \A y \in T : Min(T) <= y
  BY DEF Min
<1>2. Min(T) <= x /\ x <= Min(T) /\ x \in Nat /\ Min(T) \in Nat
  BY <1>1
<1> QED
  BY <1>2

LEMMA MaxIs ==
    ASSUME NEW T, NEW x \in T, T \subseteq Nat, \A y \in T : y <= x
    PROVE  Max(T) = x
<1>1. Max(T) \in T /\ \A y \in T : Max(T) >= y
  BY DEF Max
<1>2. Max(T) >= x /\ Max(T) <= x /\ x \in Nat /\ Max(T) \in Nat
  BY <1>1
<1> QED
  BY <1>2

LEMMA EndsAre ==
    ASSUME NEW S, NEW s \in Seq(S)
    PROVE  /\ LineEnds(s) \subseteq Nat
           /\ \A e : e \in LineEnds(s) <=>
                        e \in Nat /\ 1 <= e /\ e + 1 <= Len(s) /\ s[e] = CR /\ s[e + 1] = LF
<1>1. Len(s) \in Nat
  OBVIOUS
<1>2. \A e : e \in 1 .. Len(s) - 1 <=> e \in Nat /\ 1 <= e /\ e + 1 <= Len(s)
  BY <1>1
<1> QED
  BY <1>2 DEF LineEnds

LEMMA FirstEnd ==
    ASSUME NEW S, NEW s \in Seq(S), LineEnds(s) # {}
    PROVE  Min(LineEnds(s)) \in LineEnds(s) /\ \A e \in LineEnds(s) : Min(LineEnds(s)) <= e
<1>1. LineEnds(s) \in SUBSET Nat
  BY EndsAre
<1>2. PICK x \in LineEnds(s) : \A y \in LineEnds(s) : x <= y
  BY <1>1, LeastNat
<1>3. Min(LineEnds(s)) = x
  BY <1>1, <1>2, MinIs
<1> QED
  BY <1>2, <1>3

EndsBefore(s, n) == {e \in LineEnds(s) : e < n}

\* There is a last line that ends before n, if any does.
LEMMA LastEndBefore ==
    ASSUME NEW S, NEW s \in Seq(S), NEW n \in Nat, EndsBefore(s, n) # {}
    PROVE  \E d \in EndsBefore(s, n) : \A e \in EndsBefore(s, n) : e <= d
<1> DEFINE T == {n - e : e \in EndsBefore(s, n)}
<1>1. \A e \in EndsBefore(s, n) : e \in Nat /\ e < n /\ n - e \in Nat
  BY EndsAre DEF EndsBefore
<1>2. T \in SUBSET Nat /\ T # {}
  BY <1>1
<1>3. PICK x \in T : \A y \in T : x <= y
  <2> HIDE DEF T
  <2> QED
    BY <1>2, LeastNat
<1>4. PICK d \in EndsBefore(s, n) : x = n - d
  BY <1>3
<1>5. \A e \in EndsBefore(s, n) : e <= d
  <2> TAKE e \in EndsBefore(s, n)
  <2>1. n - e \in T
    OBVIOUS
  <2>2. n - d <= n - e
    BY <1>3, <1>4, <2>1
  <2> QED
    BY <1>1, <2>2
<1> QED
  BY <1>5

\* A line's text lies between the end before it and its own.
LEMMA TextIs ==
    ASSUME NEW S, NEW s \in Seq(S), NEW e \in LineEnds(s)
    PROVE  /\ EndsBefore(s, e) = {} => Text(s, e) = SubSeq(s, 1, e - 1)
           /\ \A d \in EndsBefore(s, e) :
                 (\A c \in EndsBefore(s, e) : c <= d) =>
                    Text(s, e) = SubSeq(s, d + 2, e - 1) /\ d + 2 <= e
<1>1. EndsBefore(s, e) = {} => Text(s, e) = SubSeq(s, 1, e - 1)
  BY DEF Text, EndsBefore
<1>2. ASSUME NEW d \in EndsBefore(s, e), \A c \in EndsBefore(s, e) : c <= d
      PROVE  Text(s, e) = SubSeq(s, d + 2, e - 1) /\ d + 2 <= e
  <2>1. EndsBefore(s, e) \subseteq Nat /\ EndsBefore(s, e) # {}
    BY EndsAre DEF EndsBefore
  <2>2. Max(EndsBefore(s, e)) = d
    BY <1>2, <2>1, MaxIs
  <2>3. Text(s, e) = SubSeq(s, d + 2, e - 1)
    BY <2>1, <2>2 DEF Text, EndsBefore
  <2>4. d \in Nat /\ e \in Nat /\ d < e /\ s[d + 1] = LF /\ s[e] = CR
    BY EndsAre DEF EndsBefore
  <2>5. d + 1 # e
    <3>1. CR.kind # LF.kind
      BY DEF CR, LF
    <3> QED
      BY <2>4, <3>1
  <2> QED
    BY <2>3, <2>4, <2>5
<1> QED
  BY <1>1, <1>2

LEMMA TextIsText ==
    ASSUME NEW S, NEW s \in Seq(S), NEW e \in LineEnds(s)
    PROVE  Text(s, e) \in Seq(S)
<1>1. e \in Nat /\ 1 <= e /\ e + 1 <= Len(s) /\ Len(s) \in Nat
  BY EndsAre
<1>2. CASE EndsBefore(s, e) = {}
  BY <1>1, <1>2, TextIs, SubSeqIs
<1>3. CASE EndsBefore(s, e) # {}
  <2>1. PICK d \in EndsBefore(s, e) : \A c \in EndsBefore(s, e) : c <= d
    BY <1>1, <1>3, LastEndBefore
  <2>2. d \in Nat
    BY EndsAre DEF EndsBefore
  <2>3. Text(s, e) = SubSeq(s, d + 2, e - 1) /\ d + 2 <= e
    BY <2>1, TextIs
  <2> QED
    BY <1>1, <2>2, <2>3, SubSeqIs
<1> QED
  BY <1>2, <1>3

-----------------------------------------------------------------------------
(* What has arrived, and what more arrives *)

LEMMA SubSeqExtended ==
    ASSUME NEW S, NEW s \in Seq(S), NEW u \in Seq(S), Extends(u, s),
           NEW a \in Nat \ {0}, NEW b \in Nat, b <= Len(s)
    PROVE  SubSeq(u, a, b) = SubSeq(s, a, b)
<1>1. Len(s) \in Nat /\ Len(u) \in Nat /\ b <= Len(u) /\ \A k \in 1 .. Len(s) : u[k] = s[k]
  BY DEF Extends
<1> DEFINE v == SubSeq(s, a, b)
<1> DEFINE w == SubSeq(u, a, b)
<1>2. /\ v \in Seq(S) /\ (a <= b + 1 => Len(v) = (b + 1) - a) /\ (b < a => v = << >>)
      /\ \A k \in 1 .. (b + 1) - a : v[k] = s[(a - 1) + k]
  BY SubSeqIs
<1>3. /\ w \in Seq(S) /\ (a <= b + 1 => Len(w) = (b + 1) - a) /\ (b < a => w = << >>)
      /\ \A k \in 1 .. (b + 1) - a : w[k] = u[(a - 1) + k]
  BY <1>1, SubSeqIs
<1> HIDE DEF v, w
<1>4. CASE b < a
  BY <1>2, <1>3, <1>4 DEF v, w
<1>5. CASE a <= b
  <2>1. Len(v) = Len(w) /\ Len(v) = (b + 1) - a
    BY <1>2, <1>3, <1>5
  <2>2. ASSUME NEW k \in 1 .. (b + 1) - a PROVE v[k] = w[k]
    <3>1. (a - 1) + k \in 1 .. Len(s)
      BY <1>1
    <3> QED
      BY <1>1, <1>2, <1>3, <3>1
  <2>3. v = w
    BY <1>2, <1>3, <2>1, <2>2, SeqEqual
  <2> QED
    BY <2>3 DEF v, w
<1> QED
  BY <1>4, <1>5

LEMMA EndsExtended ==
    ASSUME NEW S, NEW s \in Seq(S), NEW u \in Seq(S), Extends(u, s)
    PROVE  \A e : e \in LineEnds(s) <=> e \in LineEnds(u) /\ e + 1 <= Len(s)
<1>1. Len(s) \in Nat /\ Len(u) \in Nat /\ Len(s) <= Len(u) /\ \A k \in 1 .. Len(s) : u[k] = s[k]
  BY DEF Extends
<1> SUFFICES ASSUME NEW e \in Nat, 1 <= e, e + 1 <= Len(s)
             PROVE  e \in LineEnds(s) <=> e \in LineEnds(u)
  BY <1>1, EndsAre
<1>2. e \in 1 .. Len(s) /\ e + 1 \in 1 .. Len(s) /\ e + 1 <= Len(u)
  BY <1>1
<1> QED
  BY <1>1, <1>2, EndsAre

LEMMA LineExtended ==
    ASSUME NEW S, NEW s \in Seq(S), NEW u \in Seq(S), Extends(u, s), NEW e \in LineEnds(s)
    PROVE  /\ e \in LineEnds(u)
           /\ Text(u, e) = Text(s, e)
           /\ Wrong(u, e) <=> Wrong(s, e)
           /\ Min(LineEnds(u)) = Min(LineEnds(s))
<1>1. Len(s) \in Nat /\ e \in Nat /\ 1 <= e /\ e + 1 <= Len(s)
  BY EndsAre
<1>2. \A d : d \in LineEnds(s) <=> d \in LineEnds(u) /\ d + 1 <= Len(s)
  BY EndsExtended
<1>3. e \in LineEnds(u) /\ LineEnds(s) \subseteq Nat /\ LineEnds(u) \subseteq Nat
  BY <1>2, EndsAre
<1>4. EndsBefore(u, e) = EndsBefore(s, e)
  <2>1. \A d \in LineEnds(u) : d < e => d + 1 <= Len(s)
    BY <1>1, <1>3
  <2> QED
    BY <1>2, <2>1 DEF EndsBefore
<1>5. Text(u, e) = Text(s, e)
  <2>1. CASE EndsBefore(s, e) = {}
    <3>1. Text(s, e) = SubSeq(s, 1, e - 1) /\ Text(u, e) = SubSeq(u, 1, e - 1)
      BY <1>3, <1>4, <2>1, TextIs
    <3>2. e - 1 \in Nat /\ e - 1 <= Len(s) /\ 1 \in Nat \ {0}
      BY <1>1
    <3> QED
      BY <3>1, <3>2, SubSeqExtended
  <2>2. CASE EndsBefore(s, e) # {}
    <3>1. PICK d \in EndsBefore(s, e) : \A c \in EndsBefore(s, e) : c <= d
      BY <1>1, <2>2, LastEndBefore
    <3>2. Text(s, e) = SubSeq(s, d + 2, e - 1)
      BY <3>1, TextIs
    <3>3. Text(u, e) = SubSeq(u, d + 2, e - 1)
      BY <1>3, <1>4, <3>1, TextIs
    <3>4. e - 1 \in Nat /\ e - 1 <= Len(s) /\ d + 2 \in Nat \ {0}
      BY <1>1, <1>3 DEF EndsBefore
    <3> QED
      BY <3>2, <3>3, <3>4, SubSeqExtended
  <2> QED
    BY <2>1, <2>2
<1>6. Min(LineEnds(u)) = Min(LineEnds(s))
  <2>1. Min(LineEnds(s)) \in LineEnds(s) /\ \A d \in LineEnds(s) : Min(LineEnds(s)) <= d
    BY FirstEnd
  <2>2. ASSUME NEW d \in LineEnds(u) PROVE Min(LineEnds(s)) <= d
    <3>1. Min(LineEnds(s)) + 1 <= Len(s) /\ d \in Nat /\ Min(LineEnds(s)) \in Nat
      BY <1>2, <1>3, <2>1
    <3>2. CASE d + 1 <= Len(s)
      BY <1>2, <2>1, <3>2
    <3>3. CASE ~(d + 1 <= Len(s))
      BY <1>1, <3>1, <3>3
    <3> QED
      BY <3>2, <3>3
  <2>3. Min(LineEnds(s)) \in LineEnds(u)
    BY <1>2, <2>1
  <2> QED
    BY <1>3, <2>2, <2>3, MinIs
<1>7. Wrong(u, e) <=> Wrong(s, e)
  BY <1>5, <1>6 DEF Wrong, KindOf
<1> QED
  BY <1>3, <1>5, <1>6, <1>7
LEMMA HeadersExtended ==
    ASSUME NEW S, NEW s \in Seq(S), NEW u \in Seq(S), Extends(u, s), NEW e \in LineEnds(s),
           NEW key
    PROVE  /\ IsHeader(u, e, key) <=> IsHeader(s, e, key)
           /\ FirstHeader(u, e, key) <=> FirstHeader(s, e, key)
<1>1. \A d \in LineEnds(s) : IsHeader(u, d, key) <=> IsHeader(s, d, key)
  BY LineExtended DEF IsHeader
<1>2. \A d \in LineEnds(u) : d < e => d \in LineEnds(s)
  <2>1. Len(s) \in Nat /\ e \in Nat /\ e + 1 <= Len(s) /\ LineEnds(u) \subseteq Nat
    BY EndsAre
  <2> QED
    BY <2>1, EndsExtended
<1>3. \A d \in LineEnds(s) : d \in LineEnds(u)
  BY EndsExtended
<1> QED
  BY <1>1, <1>2, <1>3 DEF FirstHeader

LEMMA HeadExtended ==
    ASSUME NEW S, NEW s \in Seq(S), NEW u \in Seq(S), Extends(u, s),
           NEW n \in Nat, n <= Len(s), s # << >>, NEW q
    PROVE  HeadFits(u, n, q) <=> HeadFits(s, n, q)
<1>1. Len(s) \in Nat /\ u[1] = s[1]
  BY DEF Extends
<1>2. \A e : e \in LineEnds(s) /\ e < n <=> e \in LineEnds(u) /\ e < n
  <2>1. \A e \in LineEnds(u) : e \in Nat /\ (e < n => e + 1 <= Len(s))
    BY <1>1, EndsAre
  <2> QED
    BY <2>1, EndsExtended
<1>3. \A e \in LineEnds(s) : /\ Text(u, e) = Text(s, e)
                             /\ Wrong(u, e) <=> Wrong(s, e)
  BY LineExtended
<1>4. \A e \in LineEnds(s), key \in Keys :
         /\ IsHeader(u, e, key) <=> IsHeader(s, e, key)
         /\ FirstHeader(u, e, key) <=> FirstHeader(s, e, key)
  BY HeadersExtended
<1>5. /\ \A e \in LineEnds(s) : e < n => Text(s, e) # << >> /\ ~Wrong(s, e)
      <=> \A e \in LineEnds(u) : e < n => Text(u, e) # << >> /\ ~Wrong(u, e)
  BY <1>2, <1>3
<1>6. ASSUME NEW key \in Keys
      PROVE  /\ (\E e \in LineEnds(s) :
                   e < n /\ FirstHeader(s, e, key) /\ q.headers[key] = Text(s, e)[1].value)
                <=> (\E e \in LineEnds(u) :
                   e < n /\ FirstHeader(u, e, key) /\ q.headers[key] = Text(u, e)[1].value)
             /\ (\A e \in LineEnds(s) : e < n => ~IsHeader(s, e, key))
                <=> (\A e \in LineEnds(u) : e < n => ~IsHeader(u, e, key))
  BY <1>2, <1>3, <1>4
<1> QED
  BY <1>1, <1>5, <1>6 DEF HeadFits

LEMMA BlankExtended ==
    ASSUME NEW S, NEW s \in Seq(S), NEW u \in Seq(S), Extends(u, s), NEW b, b + 1 <= Len(s)
    PROVE  BlankAt(u, b) <=> BlankAt(s, b)
<1>1. b \in LineEnds(u) <=> b \in LineEnds(s)
  BY EndsExtended
<1> QED
  BY <1>1, LineExtended DEF BlankAt

LEMMA HasEnd ==
    ASSUME NEW S, NEW s \in Seq(S), NEW e \in LineEnds(s)
    PROVE  s # << >> /\ e \in Nat /\ 1 <= e /\ e + 1 <= Len(s) /\ Len(s) \in Nat
BY EndsAre

LEMMA ParserExtended ==
    ASSUME NEW S, NEW s \in Seq(S), NEW u \in Seq(S), Extends(u, s),
           NEW k \in Nat, k <= Len(s), NEW q, ParserFits(s, k, q)
    PROVE  ParserFits(u, k, q)
<1>1. CASE q.status = "kParsingRequestHeader" /\ k - 1 \in LineEnds(s) /\ HeadFits(s, k, q)
  <2>1. s # << >> /\ k - 1 \in LineEnds(u)
    BY <1>1, HasEnd, EndsExtended
  <2>2. HeadFits(u, k, q)
    BY <1>1, <2>1, HeadExtended
  <2> QED
    BY <1>1, <2>1, <2>2 DEF ParserFits
<1>2. CASE /\ q.status = "kParsingRequestBody" /\ BlankAt(s, k - 1) /\ HeadFits(s, k - 1, q)
           /\ "content-length" \in DOMAIN q.headers
           /\ q.length = q.headers["content-length"] /\ q.length \in Nat
  <2>1. s # << >> /\ k - 1 \in Nat /\ k - 1 <= Len(s) /\ k - 1 + 1 <= Len(s)
    BY <1>2, HasEnd DEF BlankAt
  <2>2. BlankAt(u, k - 1) /\ HeadFits(u, k - 1, q)
    BY <1>2, <2>1, BlankExtended, HeadExtended
  <2> QED
    BY <1>2, <2>2 DEF ParserFits
<1>3. CASE q.status \in {"kInit", "kParsingRequestLine"} /\ k = 0 /\ q.headers = << >>
  BY <1>3 DEF ParserFits
<1> QED
  BY <1>1, <1>2, <1>3 DEF ParserFits

\* Of a request, what follows it is not seen.
LEMMA RequestExtended ==
    ASSUME NEW s \in Seq(Symbols), NEW u \in Seq(Symbols), Extends(u, s),
           NEW k \in Nat, k <= Len(s), NEW q
    PROVE  RequestFits(u, k, q) <=> RequestFits(s, k, q)
<1> DEFINE b == k - 1 - Len(q.body)
<1>1. Len(s) \in Nat /\ Len(u) \in Nat /\ Len(s) <= Len(u)
  BY DEF Extends
<1> SUFFICES ASSUME q.body \in Seq(Symbols)
             PROVE  RequestFits(u, k, q) <=> RequestFits(s, k, q)
  BY DEF RequestFits
<1>2. Len(q.body) \in Nat
  OBVIOUS
<1>3. b + 1 <= Len(s) /\ b \in Int
  BY <1>1, <1>2
<1> HIDE DEF b
<1>4. BlankAt(u, b) <=> BlankAt(s, b)
  BY <1>3, BlankExtended
<1>5. ASSUME BlankAt(s, b)
      PROVE  /\ HeadFits(u, b, q) <=> HeadFits(s, b, q)
             /\ SubSeq(u, b + 2, k) = SubSeq(s, b + 2, k)
  <2>1. s # << >> /\ b \in Nat /\ b <= Len(s) /\ b + 2 \in Nat \ {0}
    BY <1>5, HasEnd DEF BlankAt
  <2> QED
    <3>1. HeadFits(u, b, q) <=> HeadFits(s, b, q)
      BY <2>1, HeadExtended
    <3>2. SubSeq(u, b + 2, k) = SubSeq(s, b + 2, k)
      <4> DEFINE a == b + 2
      <4>1. a \in Nat \ {0}
        BY <2>1
      <4> HIDE DEF a
      <4>2. SubSeq(u, a, k) = SubSeq(s, a, k)
        BY <4>1, SubSeqExtended
      <4> QED
        BY <4>2 DEF a
    <3> QED
      BY <3>1, <3>2
<1>6. /\ RequestFits(s, k, q) <=>
             /\ IsParser(q) /\ BlankAt(s, b) /\ HeadFits(s, b, q) /\ q.body = SubSeq(s, b + 2, k)
             /\ IF "content-length" \in DOMAIN q.headers
                THEN q.body # << >> /\ q.headers["content-length"] = Len(q.body)
                ELSE q.body = << >>
      /\ RequestFits(u, k, q) <=>
             /\ IsParser(q) /\ BlankAt(u, b) /\ HeadFits(u, b, q) /\ q.body = SubSeq(u, b + 2, k)
             /\ IF "content-length" \in DOMAIN q.headers
                THEN q.body # << >> /\ q.headers["content-length"] = Len(q.body)
                ELSE q.body = << >>
  <2>1. k <= Len(u)
    BY <1>1
  <2> QED
    BY <1>1, <2>1 DEF RequestFits, b
<1> QED
  BY <1>4, <1>5, <1>6
-----------------------------------------------------------------------------
(* The verdict *)

LEMMA VerdictIs ==
    ASSUME NEW s
    PROVE  Verdict(s) =
               IF \E e \in HeadLines(s) : Wrong(s, e) THEN "error"
               ELSE IF Blanks(s) = {} THEN "more"
               ELSE IF NotANumber \in Values(s, "content-length") THEN "error"
               ELSE IF \E e \in Blanks(s), v \in Values(s, "content-length") :
                          e + 1 + v > Len(s)
               THEN "more" ELSE "done"
BY DEF Verdict, Wrong, KindOf

LEMMA HeadUnfinished ==
    ASSUME NEW s, \A e \in LineEnds(s) : Text(s, e) # << >> /\ ~Wrong(s, e)
    PROVE  Verdict(s) = "more"
<1>1. HeadLines(s) \subseteq LineEnds(s) /\ Blanks(s) = {}
  BY DEF HeadLines, Blanks
<1>2. ~ \E e \in HeadLines(s) : Wrong(s, e)
  BY <1>1
<1> QED
  BY <1>1, <1>2, VerdictIs

LEMMA WrongIsError ==
    ASSUME NEW s, NEW e \in LineEnds(s), Wrong(s, e),
           \A d \in LineEnds(s) : d < e => Text(s, d) # << >>
    PROVE  Verdict(s) = "error"
<1>1. e \in HeadLines(s)
  BY DEF HeadLines
<1> QED
  BY <1>1, VerdictIs

\* The lines of a head that ends with the blank line at b.
LEMMA HeadIs ==
    ASSUME NEW S, NEW s \in Seq(S), NEW b, BlankAt(s, b), NEW q, HeadFits(s, b, q)
    PROVE  /\ Blanks(s) = {b}
           /\ \A e \in HeadLines(s) : ~Wrong(s, e)
           /\ \A key \in Keys :
                 Values(s, key) = IF key \in DOMAIN q.headers THEN {q.headers[key]} ELSE {}
<1>1. b \in LineEnds(s) /\ Text(s, b) = << >> /\ b # Min(LineEnds(s)) /\ LineEnds(s) \subseteq Nat
  BY EndsAre DEF BlankAt
<1>2. \A e \in LineEnds(s) : e < b => Text(s, e) # << >> /\ ~Wrong(s, e)
  BY DEF HeadFits
<1>3. \A e : e \in HeadLines(s) <=> e \in LineEnds(s) /\ e <= b
  <2>1. ASSUME NEW e \in LineEnds(s), e <= b
        PROVE  \A d \in LineEnds(s) : d < e => Text(s, d) # << >>
    <3> TAKE d \in LineEnds(s)
    <3>1. d < e => d < b
      BY <1>1, <2>1
    <3> QED
      BY <1>2, <3>1
  <2>2. ASSUME NEW e \in HeadLines(s) PROVE e <= b
    <3>1. e \in LineEnds(s) /\ ~(b < e)
      BY <1>1 DEF HeadLines
    <3> QED
      BY <1>1, <3>1
  <2> QED
    BY <2>1, <2>2 DEF HeadLines
<1>4. \A e : e \in Blanks(s) <=> e = b
  <2>1. \A e \in LineEnds(s) : e <= b /\ e # b => e < b
    BY <1>1
  <2>2. b <= b
    BY <1>1
  <2> QED
    BY <1>1, <1>2, <1>3, <2>1, <2>2 DEF Blanks
<1>5. \A e \in HeadLines(s) : ~Wrong(s, e)
  <2>1. ~Wrong(s, b)
    BY <1>1 DEF Wrong
  <2>2. \A e \in LineEnds(s) : e <= b /\ e # b => e < b
    BY <1>1
  <2> QED
    BY <1>2, <1>3, <2>1, <2>2
<1>6. ASSUME NEW key \in Keys
      PROVE  Values(s, key) = IF key \in DOMAIN q.headers THEN {q.headers[key]} ELSE {}
  <2> DEFINE L == HeadLines(s) \ Blanks(s)
  <2> DEFINE F == {e \in L : /\ Text(s, e)[1].kind = "header" /\ Text(s, e)[1].key = key
                             /\ \A d \in L : d < e /\ Text(s, d)[1].kind = "header"
                                                => Text(s, d)[1].key # key}
  <2>1. Values(s, key) = {Text(s, e)[1].value : e \in F}
    BY DEF Values
  <2>2. \A e : e \in L <=> e \in LineEnds(s) /\ e < b
    BY <1>1, <1>3, <1>4
  <2> HIDE DEF L
  <2>3. \A e : e \in F <=> e \in LineEnds(s) /\ e < b /\ FirstHeader(s, e, key)
    <3>1. ASSUME NEW e \in LineEnds(s), e < b
          PROVE  \A d \in LineEnds(s) : d < e => d < b
      BY <1>1, <3>1
    <3> QED
      BY <2>2, <3>1 DEF FirstHeader, IsHeader
  <2> HIDE DEF F
  <2>4. CASE key \in DOMAIN q.headers
    <3>1. PICK e \in LineEnds(s) :
             e < b /\ FirstHeader(s, e, key) /\ q.headers[key] = Text(s, e)[1].value
      BY <2>4 DEF HeadFits
    <3>2. \A d \in F : d = e
      <4> TAKE d \in F
      <4>1. d \in LineEnds(s) /\ FirstHeader(s, d, key) /\ d \in Nat /\ e \in Nat
        BY <1>1, <2>3
      <4>2. ~(d < e) /\ ~(e < d)
        BY <3>1, <4>1 DEF FirstHeader
      <4> QED
        BY <4>1, <4>2
    <3>3. F = {e}
      BY <2>3, <3>1, <3>2
    <3> QED
      BY <2>1, <2>4, <3>1, <3>3
  <2>5. CASE key \notin DOMAIN q.headers
    <3>1. F = {}
      BY <2>3, <2>5 DEF HeadFits, FirstHeader
    <3> QED
      BY <2>1, <2>5, <3>1
  <2> QED
    BY <2>4, <2>5
<1> QED
  BY <1>4, <1>5, <1>6

\* With the head at hand, the verdict is the length's.
LEMMA HeadGivesVerdict ==
    ASSUME NEW s \in Seq(Symbols), NEW b, BlankAt(s, b), NEW q, HeadFits(s, b, q)
    PROVE  /\ "content-length" \notin DOMAIN q.headers => Verdict(s) = "done"
           /\ "content-length" \in DOMAIN q.headers /\ q.headers["content-length"] = NotANumber =>
                 Verdict(s) = "error"
           /\ "content-length" \in DOMAIN q.headers /\ q.headers["content-length"] \in Nat =>
                 Verdict(s) = IF b + 1 + q.headers["content-length"] > Len(s)
                              THEN "more" ELSE "done"
<1> DEFINE V == Values(s, "content-length")
<1>1. Blanks(s) = {b} /\ \A e \in HeadLines(s) : ~Wrong(s, e)
  BY HeadIs
<1>2. V = IF "content-length" \in DOMAIN q.headers THEN {q.headers["content-length"]} ELSE {}
  BY HeadIs DEF Keys
<1> HIDE DEF V
<1>3. Verdict(s) = IF NotANumber \in V THEN "error"
                   ELSE IF \E v \in V : b + 1 + v > Len(s) THEN "more" ELSE "done"
  <2>1. /\ ~ \E e \in HeadLines(s) : Wrong(s, e)
        /\ Blanks(s) # {}
        /\ (\E e \in Blanks(s), v \in V : e + 1 + v > Len(s)) <=> \E v \in V : b + 1 + v > Len(s)
    BY <1>1
  <2> QED
    BY <2>1, VerdictIs DEF V
<1>4. CASE "content-length" \notin DOMAIN q.headers
  BY <1>2, <1>3, <1>4
<1>5. CASE "content-length" \in DOMAIN q.headers
  <2>1. V = {q.headers["content-length"]}
    BY <1>2, <1>5
  <2>2. NotANumber \notin Nat
    BY DEF NotANumber
  <2> QED
    BY <1>3, <1>5, <2>1, <2>2
<1> QED
  BY <1>4, <1>5

LEMMA ParserHasNone == ASSUME NEW q, IsParser(q) PROVE q # None
<1>1. DOMAIN q = {"status", "line", "headers", "length", "body"} /\ DOMAIN None = {"kind"}
  BY DEF IsParser, None
<1> QED
  BY <1>1
-----------------------------------------------------------------------------
(* A request that has been taken is the request at the start of the stream *)

LEMMA RequestVerdict ==
    ASSUME NEW s \in Seq(Symbols), NEW k \in Nat, NEW q, RequestFits(s, k, q)
    PROVE  Verdict(s) = "done"
<1> DEFINE b == k - 1 - Len(q.body)
<1>1. BlankAt(s, b) /\ HeadFits(s, b, q) /\ q.body \in Seq(Symbols) /\ k <= Len(s)
  BY DEF RequestFits
<1>2. Len(q.body) \in Nat /\ Len(s) \in Nat /\ b + 1 + Len(q.body) = k
  BY <1>1
<1> HIDE DEF b
<1>3. CASE "content-length" \notin DOMAIN q.headers
  BY <1>1, <1>3, HeadGivesVerdict
<1>4. CASE "content-length" \in DOMAIN q.headers
  <2>1. q.headers["content-length"] = Len(q.body)
    BY <1>4 DEF RequestFits
  <2>2. ~(b + 1 + Len(q.body) > Len(s))
    BY <1>1, <1>2
  <2> QED
    BY <1>1, <1>2, <1>4, <2>1, <2>2, HeadGivesVerdict
<1> QED
  BY <1>3, <1>4

LEMMA PrefixVerdict ==
    ASSUME NEW s \in Seq(Symbols), NEW k \in Nat, NEW q, RequestFits(s, k, q),
           NEW j \in Nat, j < k
    PROVE  Verdict(SubSeq(s, 1, j)) = "more"
<1> DEFINE b == k - 1 - Len(q.body)
<1> DEFINE u == SubSeq(s, 1, j)
<1>1. BlankAt(s, b) /\ HeadFits(s, b, q) /\ q.body \in Seq(Symbols) /\ k <= Len(s)
  BY DEF RequestFits
<1>2. Len(q.body) \in Nat /\ Len(s) \in Nat /\ b + 1 + Len(q.body) = k /\ j \in 0 .. Len(s)
  BY <1>1
<1>3. b \in LineEnds(s) /\ b \in Nat /\ 1 <= b
  BY <1>1, HasEnd DEF BlankAt
<1>4. u \in Seq(Symbols) /\ Len(u) = j /\ Extends(s, u)
  BY <1>2, PrefixExtended
<1> HIDE DEF b, u
<1>5. CASE b + 1 <= j
  <2>1. "content-length" \in DOMAIN q.headers /\ q.headers["content-length"] = Len(q.body)
    <3>1. Len(q.body) # 0
      <4> DEFINE l == Len(q.body)
      <4>1. l \in Nat /\ b \in Nat /\ b + 1 + l = k
        BY <1>2, <1>3
      <4> HIDE DEF l
      <4>2. l # 0
        BY <1>5, <4>1
      <4> QED
        BY <4>2 DEF l
    <3>2. q.body # << >>
      BY <3>1
    <3> QED
      BY <3>2 DEF RequestFits
  <2>2. BlankAt(u, b)
    BY <1>1, <1>4, <1>5, BlankExtended
  <2>3. HeadFits(u, b, q)
    <3>1. u # << >> /\ b <= Len(u)
      BY <1>3, <1>4, <1>5
    <3> QED
      BY <1>1, <1>3, <1>4, <3>1, HeadExtended
  <2>4. b + 1 + Len(q.body) > Len(u)
    BY <1>2, <1>4
  <2> QED
    BY <1>2, <1>4, <2>1, <2>2, <2>3, <2>4, HeadGivesVerdict DEF u
<1>6. CASE j <= b
  <2>1. \A e \in LineEnds(u) : Text(u, e) # << >> /\ ~Wrong(u, e)
    <3> TAKE e \in LineEnds(u)
    <3>1. e \in LineEnds(s) /\ Text(s, e) = Text(u, e) /\ (Wrong(s, e) <=> Wrong(u, e))
      BY <1>4, LineExtended
    <3>2. e < b
      BY <1>3, <1>4, <1>6, HasEnd
    <3> QED
      BY <1>1, <3>1, <3>2 DEF HeadFits
  <2> QED
    BY <2>1, HeadUnfinished DEF u
<1> QED
  BY <1>2, <1>3, <1>5, <1>6

LEMMA RequestLengthIs ==
    ASSUME NEW s \in Seq(Symbols), NEW k \in Nat, NEW q, RequestFits(s, k, q)
    PROVE  RequestLength(s) = k
<1>1. Len(s) \in Nat /\ k <= Len(s)
  BY DEF RequestFits
<1>2. 1 <= k
  <2>1. BlankAt(s, k - 1 - Len(q.body)) /\ q.body \in Seq(Symbols)
    BY DEF RequestFits
  <2>2. Len(q.body) \in Nat
    BY <2>1
  <2>3. k - 1 - Len(q.body) \in LineEnds(s)
    BY <2>1 DEF BlankAt
  <2>4. 1 <= k - 1 - Len(q.body)
    BY <2>3, HasEnd
  <2> QED
    BY <2>2, <2>4
<1>3. ASSUME NEW j \in Nat, k <= j, j <= Len(s)
      PROVE  Verdict(SubSeq(s, 1, j)) = "done"
  <2> DEFINE u == SubSeq(s, 1, j)
  <2>1. u \in Seq(Symbols) /\ Len(u) = j /\ Extends(s, u)
    BY <1>1, <1>3, PrefixExtended
  <2> HIDE DEF u
  <2>2. RequestFits(u, k, q)
    BY <1>3, <2>1, RequestExtended
  <2> QED
    BY <2>1, <2>2, RequestVerdict DEF u
<1> DEFINE Is(n) == Verdict(SubSeq(s, 1, n)) = "done" /\ Verdict(SubSeq(s, 1, n - 1)) = "more"
<1>4. Is(k)
  BY <1>1, <1>2, <1>3, PrefixVerdict
<1>5. \A n \in 1 .. Len(s) : Is(n) => n = k
  <2> SUFFICES ASSUME NEW n \in 1 .. Len(s), Is(n) PROVE n = k
    OBVIOUS
  <2>1. ~(n < k)
    BY PrefixVerdict
  <2>2. ~(k < n)
    <3>1. k < n => n - 1 \in Nat /\ k <= n - 1 /\ n - 1 <= Len(s)
      BY <1>1
    <3> QED
      BY <1>3, <3>1
  <2> QED
    BY <2>1, <2>2
<1> HIDE DEF Is
<1>6. k \in 1 .. Len(s)
  BY <1>1, <1>2
<1>7. RequestLength(s) = CHOOSE n \in 1 .. Len(s) : Is(n)
  BY DEF RequestLength, Is
<1> QED
  BY <1>4, <1>5, <1>6, <1>7

-----------------------------------------------------------------------------
(* The next line *)

\* A line starts behind the first k symbols of s.
AtLine(s, k) == k = 0 \/ k - 1 \in LineEnds(s)

\* It is f symbols long.
NextLine(s, k, f) ==
    f \in Nat /\ k + f + 1 \in LineEnds(s) /\ \A d \in LineEnds(s) : d < k + f + 1 => d < k

LEMMA FindIsNext ==
    ASSUME NEW S, NEW s \in Seq(S), NEW k \in 0 .. Len(s), AtLine(s, k)
    PROVE  \/ find(Rest(s, k)) = -1 /\ \A d \in LineEnds(s) : d < k
           \/ NextLine(s, k, find(Rest(s, k)))
<1> DEFINE t == Rest(s, k)
<1>1. /\ t \in Seq(S) /\ Len(t) = Len(s) - k
      /\ \A j \in 1 .. Len(s) - k : t[j] = s[k + j]
  BY RestIs
<1>2. Len(s) \in Nat /\ k \in Nat /\ k <= Len(s)
  OBVIOUS
<1> HIDE DEF t
<1>3. \A j \in Nat : j \in LineEnds(t) <=> j # 0 /\ k + j \in LineEnds(s)
  <2> TAKE j \in Nat
  <2>1. j + 1 <= Len(t) <=> k + j + 1 <= Len(s)
    BY <1>1, <1>2
  <2>2. ASSUME 1 <= j, j + 1 <= Len(t) PROVE t[j] = s[k + j] /\ t[j + 1] = s[k + j + 1]
    <3>1. j \in 1 .. Len(s) - k /\ j + 1 \in 1 .. Len(s) - k /\ k + (j + 1) = k + j + 1
      BY <1>1, <1>2, <2>2
    <3> QED
      BY <1>1, <3>1
  <2>3. k + j \in Nat /\ (j # 0 <=> 1 <= j) /\ (1 <= j => 1 <= k + j)
    BY <1>2
  <2> QED
    BY <1>1, <2>1, <2>2, <2>3, EndsAre
<1>4. k \notin LineEnds(s)
  <2>1. CASE k = 0
    BY <2>1, EndsAre
  <2>2. CASE k - 1 \in LineEnds(s)
    <3>1. s[k - 1 + 1] = LF /\ k - 1 + 1 = k
      BY <2>2, EndsAre
    <3>2. CR.kind # LF.kind
      BY DEF CR, LF
    <3> QED
      BY <3>1, <3>2, EndsAre
  <2> QED
    BY <2>1, <2>2 DEF AtLine
<1>5. LineEnds(s) \subseteq Nat /\ LineEnds(t) \subseteq Nat
  BY <1>1, EndsAre
<1>6. ASSUME NEW d \in LineEnds(s), ~(d < k) PROVE d - k \in LineEnds(t)
  <2>1. d - k \in Nat /\ d - k # 0 /\ k + (d - k) = d
    BY <1>2, <1>4, <1>5, <1>6
  <2> QED
    BY <1>3, <2>1
<1>7. CASE LineEnds(t) = {}
  <2>1. find(t) = -1
    BY <1>7 DEF find, LineEnds
  <2> QED
    BY <1>6, <1>7, <2>1 DEF t
<1>8. CASE LineEnds(t) # {}
  <2> DEFINE f == find(t)
  <2> DEFINE c == Min(LineEnds(t))
  <2>1. f = c - 1
    BY <1>8 DEF find, LineEnds
  <2>2. c \in LineEnds(t) /\ \A d \in LineEnds(t) : c <= d
    BY <1>1, <1>8, FirstEnd
  <2> HIDE DEF f, c
  <2>3. c \in Nat /\ c # 0 /\ k + c \in LineEnds(s)
    BY <1>3, <1>5, <2>2
  <2>4. f \in Nat /\ k + f + 1 = k + c
    BY <1>2, <2>1, <2>3
  <2>5. \A d \in LineEnds(s) : d < k + c => d < k
    <3> TAKE d \in LineEnds(s)
    <3>1. ASSUME ~(d < k) PROVE ~(d < k + c)
      <4>1. c <= d - k /\ d \in Nat
        BY <1>5, <1>6, <2>2, <3>1
      <4> QED
        BY <1>2, <2>3, <4>1
    <3> QED
      BY <3>1
  <2> QED
    BY <2>3, <2>4, <2>5 DEF NextLine, f, t
<1> QED
  BY <1>7, <1>8

LEMMA NextLineIs ==
    ASSUME NEW S, NEW s \in Seq(S), NEW k \in 0 .. Len(s), AtLine(s, k),
           NEW f, NextLine(s, k, f)
    PROVE  /\ k + f + 2 <= Len(s)
           /\ Text(s, k + f + 1) \in Seq(S) /\ Len(Text(s, k + f + 1)) = f
           /\ \A j \in 1 .. f : Text(s, k + f + 1)[j] = s[k + j]
           /\ k + f + 1 = Min(LineEnds(s)) <=> k = 0
<1> DEFINE e == k + f + 1
<1>1. f \in Nat /\ e \in LineEnds(s) /\ \A d \in LineEnds(s) : d < e => d < k
  BY DEF NextLine
<1>2. k \in Nat /\ Len(s) \in Nat /\ e \in Nat /\ e + 1 <= Len(s) /\ LineEnds(s) \subseteq Nat
  BY <1>1, EndsAre
<1>3. e - 1 \in Nat /\ e - 1 <= Len(s) /\ k + 1 \in Nat \ {0} /\ k + 1 <= (e - 1) + 1
  BY <1>1, <1>2
<1>4. Text(s, e) = SubSeq(s, k + 1, e - 1)
  <2> HIDE DEF e
  <2>1. CASE k = 0
    <3>1. EndsBefore(s, e) = {}
      BY <1>1, <1>2, <2>1 DEF EndsBefore
    <3> QED
      BY <1>1, <2>1, <3>1, TextIs
  <2>2. CASE k - 1 \in LineEnds(s)
    <3>1. k - 1 \in EndsBefore(s, e)
      BY <1>2, <1>3, <2>2 DEF EndsBefore
    <3>2. \A c \in EndsBefore(s, e) : c <= k - 1
      <4> TAKE c \in EndsBefore(s, e)
      <4>1. c < k /\ c \in Nat
        BY <1>1, <1>2 DEF EndsBefore
      <4> QED
        BY <1>2, <4>1
    <3>3. Text(s, e) = SubSeq(s, k - 1 + 2, e - 1)
      BY <1>1, <3>1, <3>2, TextIs
    <3>4. k - 1 + 2 = k + 1
      BY <1>2
    <3> QED
      BY <3>3, <3>4
  <2> QED
    BY <2>1, <2>2 DEF AtLine
<1>5. e = Min(LineEnds(s)) <=> k = 0
  <2>1. CASE k = 0
    <3>1. \A d \in LineEnds(s) : e <= d
      BY <1>1, <1>2, <2>1
    <3> QED
      BY <1>1, <1>2, <2>1, <3>1, MinIs
  <2>2. CASE k - 1 \in LineEnds(s) /\ k # 0
    <3>1. Min(LineEnds(s)) <= k - 1 /\ Min(LineEnds(s)) \in Nat
      BY <1>2, <2>2, FirstEnd
    <3>2. k - 1 < e
      BY <1>1, <1>2
    <3> QED
      BY <1>2, <2>2, <3>1, <3>2
  <2> QED
    BY <2>1, <2>2 DEF AtLine
<1> DEFINE t == SubSeq(s, k + 1, e - 1)
<1>6. /\ t \in Seq(S) /\ Len(t) = ((e - 1) + 1) - (k + 1)
      /\ \A j \in 1 .. ((e - 1) + 1) - (k + 1) : t[j] = s[((k + 1) - 1) + j]
  <2> HIDE DEF e
  <2> QED
    BY <1>3, SubSeqIs
<1> HIDE DEF t
<1>7. ((e - 1) + 1) - (k + 1) = f /\ \A j \in 1 .. f : ((k + 1) - 1) + j = k + j
  BY <1>1, <1>2
<1>8. k + f + 2 <= Len(s)
  BY <1>1, <1>2
<1> QED
  BY <1>4, <1>5, <1>6, <1>7, <1>8 DEF t
-----------------------------------------------------------------------------
(* One call of state->func *)
LEMMA AfterLineIs ==
    ASSUME NEW S, NEW s \in Seq(S), NEW k \in 0 .. Len(s), AtLine(s, k),
           NextLine(s, k, find(Rest(s, k)))
    PROVE  /\ k + find(Rest(s, k)) + 2 \in k .. Len(s)
           /\ AfterLine(Rest(s, k)) = Rest(s, k + find(Rest(s, k)) + 2)
<1> DEFINE f == find(Rest(s, k))
<1> DEFINE t == Rest(s, k)
<1>1. t \in Seq(S) /\ Len(t) = Len(s) - k
  BY RestIs
<1>2. f \in Nat /\ k + f + 2 <= Len(s)
  BY NextLineIs DEF NextLine
<1>3. AfterLine(t) = SubSeq(t, f + 3, Len(t))
  BY DEF AfterLine
<1> HIDE DEF f
<1>4. AfterLine(t) = Rest(t, f + 2)
  <2>1. f + 2 + 1 = f + 3
    BY <1>2
  <2> QED
    BY <1>3, <2>1 DEF Rest
<1>5. f + 2 \in 0 .. Len(s) - k /\ k + (f + 2) = k + f + 2 /\ k + f + 2 \in k .. Len(s)
  BY <1>2
<1>6. Rest(t, f + 2) = Rest(s, k + (f + 2))
  BY <1>5, RestOfRest
<1> QED
  BY <1>4, <1>5, <1>6 DEF f

\* The parser sees the kind of the line.
LEMMA LineKind ==
    ASSUME NEW S, NEW s \in Seq(S), NEW k \in 0 .. Len(s), AtLine(s, k),
           NEW f, f = find(Rest(s, k)), NextLine(s, k, f), NEW kind, kind # "bytes"
    PROVE  /\ IsLine(Rest(s, k), kind) <=> KindOf(s, k + f + 1) = kind
           /\ IsLine(Rest(s, k), kind) =>
                 /\ f = 1 /\ Text(s, k + f + 1) # << >> /\ Text(s, k + f + 1)[1].kind = kind
                 /\ Text(s, k + f + 1)[1] = Rest(s, k)[1] /\ Rest(s, k)[1] = s[k + 1]
           /\ f = 0 <=> Text(s, k + f + 1) = << >>
<1> DEFINE t == Rest(s, k)
<1> DEFINE x == Text(s, k + f + 1)
<1>1. /\ k + f + 2 <= Len(s) /\ x \in Seq(S) /\ Len(x) = f
      /\ \A j \in 1 .. f : x[j] = s[k + j]
  <2>1. Text(s, k + f + 1) \in Seq(S) /\ Len(Text(s, k + f + 1)) = f /\ k + f + 2 <= Len(s)
    BY NextLineIs
  <2>2. \A j \in 1 .. f : Text(s, k + f + 1)[j] = s[k + j]
    BY NextLineIs
  <2> QED
    BY <2>1, <2>2
<1>2. f \in Nat /\ k \in Nat /\ Len(s) \in Nat
  BY DEF NextLine
<1>3. \A j \in 1 .. Len(s) - k : t[j] = s[k + j]
  BY RestIs
<1>4. IsLine(t, kind) <=> f = 1 /\ t[1].kind = kind
  BY DEF IsLine
<1>5. KindOf(s, k + f + 1) = IF Len(x) = 1 THEN x[1].kind ELSE "bytes"
  BY DEF KindOf
<1> HIDE DEF t, x
<1>6. f = 1 => x[1] = s[k + 1] /\ t[1] = s[k + 1]
  BY <1>1, <1>2, <1>3
<1>7. f = 0 <=> x = << >>
  BY <1>1
<1>8. f = 1 => x # << >>
  BY <1>7
<1>9. IsLine(t, kind) <=> KindOf(s, k + f + 1) = kind
  BY <1>1, <1>4, <1>5, <1>6
<1>10. IsLine(t, kind) => f = 1 /\ x # << >> /\ x[1].kind = kind /\ x[1] = t[1] /\ t[1] = s[k + 1]
  BY <1>4, <1>6, <1>8
<1> QED
  BY <1>7, <1>9, <1>10 DEF t, x

LEMMA HeadRises ==
    ASSUME NEW s, NEW k, NEW f, NextLine(s, k, f), NEW q, HeadFits(s, k, q),
           k \in Nat, LineEnds(s) \subseteq Nat
    PROVE  HeadFits(s, k + f + 1, q)
<1>1. \A d \in LineEnds(s) : d < k + f + 1 <=> d < k
  <2>1. f \in Nat /\ \A d \in LineEnds(s) : d < k + f + 1 => d < k
    BY DEF NextLine
  <2>2. \A d \in LineEnds(s) : d < k => d < k + f + 1
    BY <2>1
  <2> QED
    BY <2>1, <2>2
<1> HIDE DEF NextLine
<1> QED
  BY <1>1 DEF HeadFits

\* One more line of the head.
LEMMA LineAdded ==
    ASSUME NEW S, NEW s \in Seq(S), NEW e \in LineEnds(s), NEW q, HeadFits(s, e, q),
           Text(s, e) # << >>, ~Wrong(s, e), NEW r, r.line = q.line,
           r.headers = IF Text(s, e)[1].kind = "header"
                       THEN AddHeader(q.headers, Text(s, e)[1].key, Text(s, e)[1].value)
                       ELSE q.headers
    PROVE  HeadFits(s, e + 1, r)
<1>1. \A d \in LineEnds(s) : d < e + 1 <=> d < e \/ d = e
  <2>1. LineEnds(s) \subseteq Nat
    BY EndsAre
  <2> QED
    BY <2>1
<1>2. \A d \in LineEnds(s) : d < e + 1 => Text(s, d) # << >> /\ ~Wrong(s, d)
  BY <1>1 DEF HeadFits
<1>3. r.line = s[1]
  BY DEF HeadFits
<1> DEFINE y == Text(s, e)[1]
<1>0. r.headers = IF y.kind = "header" THEN AddHeader(q.headers, y.key, y.value) ELSE q.headers
  OBVIOUS
<1> HIDE DEF y
<1>4. /\ y.kind = "header" => /\ DOMAIN r.headers = DOMAIN q.headers \cup {y.key}
                              /\ y.key \notin DOMAIN q.headers => r.headers[y.key] = y.value
      /\ y.kind # "header" => r.headers = q.headers
  BY <1>0 DEF AddHeader
<1>5. \A key \in DOMAIN q.headers : r.headers[key] = q.headers[key]
  BY <1>0 DEF AddHeader
<1>6. \A key : IsHeader(s, e, key) <=> y.kind = "header" /\ y.key = key
  BY DEF IsHeader, y
<1>7. ASSUME NEW key \in Keys
      PROVE  /\ key \in DOMAIN r.headers =>
                   \E d \in LineEnds(s) : /\ d < e + 1 /\ FirstHeader(s, d, key)
                                          /\ r.headers[key] = Text(s, d)[1].value
             /\ key \notin DOMAIN r.headers =>
                   \A d \in LineEnds(s) : d < e + 1 => ~IsHeader(s, d, key)
  <2>1. CASE key \in DOMAIN q.headers
    <3>1. PICK d \in LineEnds(s) :
             d < e /\ FirstHeader(s, d, key) /\ q.headers[key] = Text(s, d)[1].value
      BY <2>1 DEF HeadFits
    <3>2. key \in DOMAIN r.headers /\ r.headers[key] = q.headers[key]
      BY <1>4, <1>5, <2>1
    <3> QED
      BY <1>1, <3>1, <3>2
  <2>2. CASE key \notin DOMAIN q.headers /\ ~IsHeader(s, e, key)
    <3>1. key \notin DOMAIN r.headers
      BY <1>4, <1>6, <2>2
    <3>2. \A d \in LineEnds(s) : d < e => ~IsHeader(s, d, key)
      BY <2>2 DEF HeadFits
    <3> QED
      BY <1>1, <2>2, <3>1, <3>2
  <2>3. CASE key \notin DOMAIN q.headers /\ IsHeader(s, e, key)
    <3>1. key \in DOMAIN r.headers /\ r.headers[key] = Text(s, e)[1].value
      BY <1>4, <1>6, <2>3 DEF y
    <3>2. \A d \in LineEnds(s) : d < e => ~IsHeader(s, d, key)
      BY <2>3 DEF HeadFits
    <3> QED
      BY <1>1, <2>3, <3>1, <3>2 DEF FirstHeader
  <2> QED
    BY <2>1, <2>2, <2>3
<1> QED
  BY <1>2, <1>3, <1>7 DEF HeadFits

\* A call leaves things as they are, for a reason, or takes a part of a request.
Steps(s, k, q, out) ==
    \/ /\ out.res \in {"kParseNeedMore", "kParseError", "abort"}
       /\ out.parser = q /\ out.buf = Rest(s, k)
       /\ out.res = "kParseNeedMore" => Verdict(s) = "more"
       /\ out.res = "kParseError" => Verdict(s) = "error"
       /\ out.res = "abort" => q.status = "kParsingRequestBody" /\ q.length = 0
    \/ /\ out.res = "kParseOK"
       /\ \E j \in k .. Len(s) :
             /\ out.buf = Rest(s, j)
             /\ \/ ParserFits(s, j, out.parser)
                \/ out.parser.status = "kParsingDone" /\ RequestFits(s, j, out.parser)

LEMMA OutcomeIs ==
    ASSUME NEW res, NEW q, NEW t
    PROVE  /\ Outcome(res, q, t).res = res /\ Outcome(res, q, t).parser = q
           /\ Outcome(res, q, t).buf = t
BY DEF Outcome

LEMMA StartSteps ==
    ASSUME NEW s \in Seq(Symbols), NEW k \in 0 .. Len(s), NEW q, ParserFits(s, k, q),
           q.status = "kInit"
    PROVE  Steps(s, k, q, StartParsing(q, Rest(s, k)))
<1>1. k = 0 /\ q.headers = << >> /\ q.body = << >> /\ IsParser(q)
  BY DEF ParserFits
<1> DEFINE t == Rest(s, k)
<1> DEFINE out == StartParsing(q, t)
<1>2. t \in Seq(Symbols) /\ Len(t) = Len(s) - k
  BY RestIs
<1>3. CASE t = << >>
  <2>1. out = Outcome("kParseNeedMore", q, t)
    BY <1>3 DEF StartParsing
  <2>2. Len(s) = 0 /\ LineEnds(s) = {}
    <3>1. Len(s) = 0
      BY <1>1, <1>2, <1>3
    <3>2. ASSUME NEW d \in LineEnds(s) PROVE FALSE
      <4>1. d \in Nat /\ 1 <= d /\ d + 1 <= Len(s)
        BY EndsAre
      <4> QED
        BY <3>1, <4>1
    <3> QED
      BY <3>1, <3>2
  <2>3. Verdict(s) = "more"
    BY <2>2, HeadUnfinished
  <2> HIDE DEF t, out
  <2> QED
    BY <2>1, <2>3, OutcomeIs DEF Steps, out, t
<1>4. CASE t # << >>
  <2> DEFINE r == [q EXCEPT !.status = "kParsingRequestLine"]
  <2>1. out = Outcome("kParseOK", r, t)
    BY <1>4 DEF StartParsing
  <2>2. /\ IsParser(r) /\ r.status = "kParsingRequestLine" /\ r.headers = << >>
        /\ r.body = << >>
    BY <1>1 DEF IsParser
  <2> HIDE DEF r
  <2>3. ParserFits(s, k, r)
    BY <1>1, <2>2 DEF ParserFits
  <2>4. k \in k .. Len(s)
    OBVIOUS
  <2> HIDE DEF out
  <2>5. out.res = "kParseOK" /\ out.parser = r /\ out.buf = Rest(s, k)
    BY <2>1, OutcomeIs
  <2> QED
    BY <2>3, <2>4, <2>5 DEF Steps, out
<1> QED
  BY <1>3, <1>4

LEMMA RequestLineSteps ==
    ASSUME NEW s \in Seq(Symbols), NEW k \in 0 .. Len(s), NEW q, ParserFits(s, k, q),
           q.status = "kParsingRequestLine"
    PROVE  Steps(s, k, q, ReadRequestLine(q, Rest(s, k)))
<1>1. k = 0 /\ q.headers = << >> /\ q.body = << >> /\ IsParser(q) /\ AtLine(s, k)
  BY DEF ParserFits, AtLine
<1> DEFINE t == Rest(s, k)
<1> DEFINE f == find(t)
<1> DEFINE e == k + f + 1
<1> DEFINE out == ReadRequestLine(q, t)
<1>2. LineEnds(s) \subseteq Nat
  BY EndsAre
<1>3. CASE f = -1 /\ \A d \in LineEnds(s) : d < k
  <2>1. out = Outcome("kParseNeedMore", q, t)
    BY <1>3 DEF ReadRequestLine, IsLine
  <2>2. LineEnds(s) = {}
    BY <1>1, <1>2, <1>3
  <2>3. Verdict(s) = "more"
    BY <2>2, HeadUnfinished
  <2> HIDE DEF out
  <2> QED
    BY <2>1, <2>3, OutcomeIs DEF Steps, out
<1>4. CASE NextLine(s, k, f)
  <2>1. f \in Nat /\ e \in LineEnds(s) /\ \A d \in LineEnds(s) : ~(d < e)
    BY <1>1, <1>2, <1>4 DEF NextLine
  <2>2. e = Min(LineEnds(s))
    BY <1>1, <1>4, NextLineIs
  <2>3. CASE IsLine(t, "request")
    <3> DEFINE r == [q EXCEPT !.status = "kParsingRequestHeader", !.line = t[1]]
    <3> DEFINE j == k + f + 2
    <3>1. out = Outcome("kParseOK", r, AfterLine(t))
      BY <2>1, <2>3 DEF ReadRequestLine, IsLine
    <3>2. /\ IsParser(r) /\ r.status = "kParsingRequestHeader" /\ r.line = t[1]
          /\ r.headers = << >> /\ r.body = << >>
      BY <1>1 DEF IsParser
    <3>3. /\ Text(s, e) # << >> /\ Text(s, e)[1].kind = "request" /\ t[1] = s[k + 1]
          /\ KindOf(s, e) = "request"
      BY <1>1, <1>4, <2>3, LineKind
    <3>4. j \in k .. Len(s) /\ AfterLine(t) = Rest(s, j)
      BY <1>1, <1>4, AfterLineIs
    <3>5. j - 1 = e /\ e + 1 = j /\ k + 1 = 1
      BY <1>1, <2>1
    <3> HIDE DEF r, out
    <3>6. HeadFits(s, e, r)
      BY <2>1, <3>2, <3>3, <3>5 DEF HeadFits
    <3>7. ~Wrong(s, e)
      BY <2>2, <3>3 DEF Wrong
    <3>8. HeadFits(s, e + 1, r)
      <4> HIDE DEF e
      <4> QED
        BY <2>1, <3>3, <3>6, <3>7, LineAdded
    <3> HIDE DEF e, j
    <3>9. ParserFits(s, j, r)
      BY <2>1, <3>2, <3>5, <3>8 DEF ParserFits
    <3>10. out.res = "kParseOK" /\ out.parser = r /\ out.buf = Rest(s, j)
      BY <3>1, <3>4, OutcomeIs
    <3> QED
      BY <3>4, <3>9, <3>10 DEF Steps, out
  <2>4. CASE ~IsLine(t, "request")
    <3>1. out = Outcome("kParseError", q, t)
      BY <2>1, <2>4 DEF ReadRequestLine, IsLine
    <3>2. KindOf(s, e) # "request"
      BY <1>1, <1>4, <2>4, LineKind
    <3>3. Wrong(s, e)
      BY <2>2, <3>2 DEF Wrong
    <3>4. Verdict(s) = "error"
      <4> HIDE DEF e
      <4> QED
        BY <2>1, <3>3, WrongIsError
    <3> HIDE DEF out
    <3> QED
      BY <3>1, <3>4, OutcomeIs DEF Steps, out
  <2> QED
    BY <2>3, <2>4
<1> QED
  BY <1>1, <1>3, <1>4, FindIsNext
LEMMA HeaderIsValued ==
    ASSUME NEW s \in Seq(Symbols), NEW n, NEW q, HeadFits(s, n, q),
           NEW key \in Keys, key \in DOMAIN q.headers
    PROVE  q.headers[key] \in Nat \/ q.headers[key] = NotANumber
<1>1. PICK e \in LineEnds(s) :
         e < n /\ FirstHeader(s, e, key) /\ q.headers[key] = Text(s, e)[1].value
  BY DEF HeadFits
<1> DEFINE x == Text(s, e)
<1>2. x \in Seq(Symbols) /\ x # << >> /\ x[1].kind = "header"
  BY <1>1, TextIsText DEF HeadFits, FirstHeader, IsHeader
<1>3. q.headers[key] = x[1].value
  BY <1>1
<1> HIDE DEF x
<1>4. x[1] \in Symbols
  BY <1>2
<1>5. \A y \in Symbols : y.kind = "header" => y.value \in Nat \/ y.value = NotANumber
  BY DEF Symbols, CR, LF
<1> QED
  BY <1>2, <1>3, <1>4, <1>5

LEMMA EndHeadersSteps ==
    ASSUME NEW s \in Seq(Symbols), NEW k \in 0 .. Len(s), NEW q, ParserFits(s, k, q),
           q.status = "kParsingRequestHeader", find(Rest(s, k)) = 0, NextLine(s, k, 0)
    PROVE  Steps(s, k, q, EndHeaders(q, Rest(s, k)))
<1>1. k - 1 \in LineEnds(s) /\ HeadFits(s, k, q) /\ q.body = << >> /\ IsParser(q) /\ AtLine(s, k)
  BY DEF ParserFits, AtLine
<1> DEFINE t == Rest(s, k)
<1> DEFINE e == k + 1
<1> DEFINE j == k + 2
<1> DEFINE out == EndHeaders(q, t)
<1>2. LineEnds(s) \subseteq Nat /\ k \in Nat /\ k # 0
  BY <1>1, EndsAre
<1>3. e \in LineEnds(s) /\ e = k + 0 + 1 /\ j = e + 1 /\ j - 1 = e /\ e \in Nat
  BY <1>2 DEF NextLine
<1>4. Text(s, e) = << >>
  <2>1. Text(s, k + 0 + 1) \in Seq(Symbols) /\ Len(Text(s, k + 0 + 1)) = 0
    BY <1>1, NextLineIs
  <2>2. Text(s, e) \in Seq(Symbols) /\ Len(Text(s, e)) = 0
    BY <1>3, <2>1
  <2> QED
    BY <2>2
<1>5. e # Min(LineEnds(s))
  BY <1>1, <1>2, <1>3, NextLineIs
<1>6. BlankAt(s, e)
  BY <1>3, <1>4, <1>5 DEF BlankAt
<1>7. HeadFits(s, e, q)
  BY <1>1, <1>2, <1>3, HeadRises
<1>8. j \in k .. Len(s) /\ AfterLine(t) = Rest(s, j)
  <2>1. k + 0 + 2 = j
    BY <1>2
  <2>2. k + 0 + 2 \in k .. Len(s) /\ AfterLine(t) = Rest(s, k + 0 + 2)
    BY <1>1, AfterLineIs
  <2> QED
    BY <2>1, <2>2
<1>9. CASE "content-length" \notin DOMAIN q.headers
  <2> DEFINE r == [q EXCEPT !.status = "kParsingDone"]
  <2>1. out = Outcome("kParseOK", r, AfterLine(t))
    BY <1>9 DEF EndHeaders
  <2>2. /\ IsParser(r) /\ r.status = "kParsingDone" /\ r.line = q.line
        /\ r.headers = q.headers /\ r.body = << >>
    BY <1>1 DEF IsParser
  <2> HIDE DEF r, out
  <2>3. j - 1 - Len(r.body) = e /\ r.body \in Seq(Symbols)
    BY <1>3, <2>2
  <2>4. HeadFits(s, e, r)
    <3> HIDE DEF e
    <3> QED
      BY <1>7, <2>2 DEF HeadFits
  <2>5. SubSeq(s, e + 2, j) = << >>
    <3>1. j < e + 2 /\ e + 2 \in Int /\ j \in Int
      BY <1>2
    <3> QED
      BY <3>1, SubSeqEmpty
  <2> HIDE DEF e, j
  <2>6. RequestFits(s, j, r)
    BY <1>6, <1>8, <1>9, <2>2, <2>3, <2>4, <2>5 DEF RequestFits
  <2>7. out.res = "kParseOK" /\ out.parser = r /\ out.buf = Rest(s, j)
    BY <1>8, <2>1, OutcomeIs
  <2> QED
    BY <1>8, <2>2, <2>6, <2>7 DEF Steps, out
<1>10. CASE "content-length" \in DOMAIN q.headers
  <2> DEFINE length == q.headers["content-length"]
  <2>1. length \in Nat \/ length = NotANumber
    BY <1>1, <1>10, HeaderIsValued DEF Keys
  <2>2. CASE length = NotANumber
    <3>1. out = Outcome("kParseError", q, t)
      BY <1>10, <2>2 DEF EndHeaders
    <3>2. Verdict(s) = "error"
      <4> HIDE DEF e
      <4> QED
        BY <1>6, <1>7, <1>10, <2>2, HeadGivesVerdict
    <3> HIDE DEF out
    <3> QED
      BY <3>1, <3>2, OutcomeIs DEF Steps, out
  <2>3. CASE length # NotANumber
    <3> DEFINE r == [q EXCEPT !.status = "kParsingRequestBody", !.length = length]
    <3>1. out = Outcome("kParseOK", r, AfterLine(t))
      BY <1>10, <2>3 DEF EndHeaders
    <3>2. /\ IsParser(r) /\ r.status = "kParsingRequestBody" /\ r.line = q.line
          /\ r.headers = q.headers /\ r.body = << >> /\ r.length = length
      BY <1>1 DEF IsParser
    <3> HIDE DEF r, out
    <3>3. HeadFits(s, e, r)
      <4> HIDE DEF e
      <4> QED
        BY <1>7, <3>2 DEF HeadFits
    <3>4. BlankAt(s, j - 1) /\ HeadFits(s, j - 1, r)
      <4> HIDE DEF e, j
      <4> QED
        BY <1>3, <1>6, <3>3
    <3> HIDE DEF e, j
    <3>5. ParserFits(s, j, r)
      BY <1>10, <2>1, <2>3, <3>2, <3>4 DEF ParserFits
    <3>6. out.res = "kParseOK" /\ out.parser = r /\ out.buf = Rest(s, j)
      BY <1>8, <3>1, OutcomeIs
    <3> QED
      BY <1>8, <3>5, <3>6 DEF Steps, out
  <2> QED
    BY <2>2, <2>3
<1> QED
  BY <1>9, <1>10

LEMMA HeaderSteps ==
    ASSUME NEW s \in Seq(Symbols), NEW k \in 0 .. Len(s), NEW q, ParserFits(s, k, q),
           q.status = "kParsingRequestHeader"
    PROVE  Steps(s, k, q, ReadRequestHeader(q, Rest(s, k)))
<1>1. k - 1 \in LineEnds(s) /\ HeadFits(s, k, q) /\ q.body = << >> /\ IsParser(q) /\ AtLine(s, k)
  BY DEF ParserFits, AtLine
<1> DEFINE t == Rest(s, k)
<1> DEFINE f == find(t)
<1> DEFINE e == k + f + 1
<1> DEFINE out == ReadRequestHeader(q, t)
<1>2. LineEnds(s) \subseteq Nat /\ k \in Nat /\ k # 0
  BY <1>1, EndsAre
<1>3. CASE f = -1 /\ \A d \in LineEnds(s) : d < k
  <2>1. out = Outcome("kParseNeedMore", q, t)
    BY <1>3 DEF ReadRequestHeader, IsLine
  <2>2. Verdict(s) = "more"
    BY <1>1, <1>3, HeadUnfinished DEF HeadFits
  <2> HIDE DEF out
  <2> QED
    BY <2>1, <2>2, OutcomeIs DEF Steps, out
<1>4. CASE NextLine(s, k, f)
  <2>1. f \in Nat /\ e \in LineEnds(s) /\ \A d \in LineEnds(s) : d < e => d < k
    BY <1>4 DEF NextLine
  <2>2. e # Min(LineEnds(s))
    BY <1>1, <1>2, <1>4, NextLineIs
  <2>3. HeadFits(s, e, q)
    BY <1>1, <1>2, <1>4, HeadRises
  <2>4. CASE f = 0
    <3>1. out = EndHeaders(q, t)
      BY <2>4 DEF ReadRequestHeader, IsLine
    <3>2. NextLine(s, k, 0) /\ find(Rest(s, k)) = 0
      BY <1>4, <2>4
    <3> QED
      BY <3>1, <3>2, EndHeadersSteps
  <2>5. CASE IsLine(t, "header")
    <3> DEFINE h == AddHeader(q.headers, t[1].key, t[1].value)
    <3> DEFINE r == [q EXCEPT !.headers = h]
    <3> DEFINE j == k + f + 2
    <3>1. out = Outcome("kParseOK", r, AfterLine(t))
      BY <2>5, <1>1 DEF ReadRequestHeader, IsLine, IsParser
    <3>2. /\ IsParser(r) /\ r.status = "kParsingRequestHeader" /\ r.line = q.line
          /\ r.headers = h /\ r.body = << >>
      <4> HIDE DEF h
      <4> QED
        BY <1>1 DEF IsParser
    <3>3. /\ Text(s, e) # << >> /\ Text(s, e)[1].kind = "header" /\ Text(s, e)[1] = t[1]
          /\ KindOf(s, e) = "header"
      BY <1>1, <1>4, <2>5, LineKind
    <3>4. j \in k .. Len(s) /\ AfterLine(t) = Rest(s, j)
      BY <1>1, <1>4, AfterLineIs
    <3>5. j - 1 = e /\ e + 1 = j
      BY <1>2, <2>1
    <3> HIDE DEF r, out
    <3>6. ~Wrong(s, e)
      BY <2>2, <3>3 DEF Wrong
    <3>7. r.headers = IF Text(s, e)[1].kind = "header"
                      THEN AddHeader(q.headers, Text(s, e)[1].key, Text(s, e)[1].value)
                      ELSE q.headers
      BY <3>2, <3>3
    <3>8. HeadFits(s, e + 1, r)
      <4> HIDE DEF e
      <4> QED
        BY <2>1, <2>3, <3>2, <3>3, <3>6, <3>7, LineAdded
    <3> HIDE DEF e, j
    <3>9. ParserFits(s, j, r)
      BY <2>1, <3>2, <3>5, <3>8 DEF ParserFits
    <3>10. out.res = "kParseOK" /\ out.parser = r /\ out.buf = Rest(s, j)
      BY <3>1, <3>4, OutcomeIs
    <3> QED
      BY <3>4, <3>9, <3>10 DEF Steps, out
  <2>6. CASE ~IsLine(t, "header") /\ f # 0
    <3>1. out = Outcome("kParseError", q, t)
      BY <2>1, <2>6 DEF ReadRequestHeader
    <3>2. KindOf(s, e) # "header" /\ Text(s, e) # << >>
      BY <1>1, <1>4, <2>6, LineKind
    <3>3. Wrong(s, e)
      BY <2>2, <3>2 DEF Wrong
    <3>4. \A d \in LineEnds(s) : d < e => Text(s, d) # << >>
      BY <1>1, <2>1 DEF HeadFits
    <3>5. Verdict(s) = "error"
      <4> HIDE DEF e
      <4> QED
        BY <2>1, <3>3, <3>4, WrongIsError
    <3> HIDE DEF out
    <3> QED
      BY <3>1, <3>5, OutcomeIs DEF Steps, out
  <2> QED
    BY <2>4, <2>5, <2>6
<1> QED
  BY <1>1, <1>3, <1>4, FindIsNext

LEMMA BodySteps ==
    ASSUME NEW s \in Seq(Symbols), NEW k \in 0 .. Len(s), NEW q, ParserFits(s, k, q),
           q.status = "kParsingRequestBody"
    PROVE  Steps(s, k, q, ReadRequestBody(q, Rest(s, k)))
<1>1. /\ BlankAt(s, k - 1) /\ HeadFits(s, k - 1, q) /\ q.body = << >> /\ IsParser(q)
      /\ "content-length" \in DOMAIN q.headers
      /\ q.length = q.headers["content-length"] /\ q.length \in Nat
  BY DEF ParserFits
<1> DEFINE t == Rest(s, k)
<1> DEFINE out == ReadRequestBody(q, t)
<1> DEFINE n == q.length
<1>2. k \in Nat /\ Len(s) \in Nat /\ n \in Nat
  BY <1>1
<1>3. /\ t \in Seq(Symbols) /\ Len(t) = Len(s) - k
      /\ \A j \in 1 .. Len(s) - k : t[j] = s[k + j]
  BY RestIs
<1>4. CASE n = 0
  <2>1. out = Outcome("abort", q, t)
    <3>1. ~(q.length > Len(t))
      BY <1>3, <1>4
    <3> QED
      BY <1>4, <3>1 DEF ReadRequestBody
  <2> HIDE DEF out
  <2> QED
    BY <1>4, <2>1, OutcomeIs DEF Steps, out
<1>5. CASE n # 0 /\ n > Len(t)
  <2>1. out = Outcome("kParseNeedMore", q, t)
    BY <1>5 DEF ReadRequestBody
  <2>2. k - 1 + 1 + n > Len(s)
    <3> HIDE DEF n, t
    <3> QED
      BY <1>2, <1>3, <1>5
  <2>3. Verdict(s) = "more"
    BY <1>1, <2>2, HeadGivesVerdict
  <2> HIDE DEF out
  <2> QED
    BY <2>1, <2>3, OutcomeIs DEF Steps, out
<1>6. CASE n # 0 /\ ~(n > Len(t))
  <2> DEFINE c == SubSeq(t, 1, n)
  <2> DEFINE j == k + n
  <2> DEFINE r == [q EXCEPT !.status = "kParsingDone", !.body = c]
  <2>1. out = Outcome("kParseOK", r, Rest(t, n))
    BY <1>6 DEF ReadRequestBody, Rest
  <2>2. /\ IsParser(r) /\ r.status = "kParsingDone" /\ r.line = q.line
        /\ r.headers = q.headers /\ r.body = c
    <3> HIDE DEF c
    <3> QED
      BY <1>1 DEF IsParser
  <2>3. n \in 0 .. Len(s) - k /\ n \in 0 .. Len(t) /\ j \in k .. Len(s) /\ j \in Nat
    <3> HIDE DEF n, t
    <3> QED
      BY <1>2, <1>3, <1>6
  <2>4. Rest(t, n) = Rest(s, j)
    BY <2>3, RestOfRest
  <2>5. c \in Seq(Symbols) /\ Len(c) = n /\ \A x \in 1 .. n : c[x] = t[x]
    <3>1. Len(c) = n /\ c \in Seq(Symbols) /\ Extends(t, c)
      <4> HIDE DEF n, t
      <4> QED
        BY <1>3, <2>3, PrefixExtended
    <3> QED
      BY <3>1 DEF Extends
  <2> DEFINE w == SubSeq(s, k + 1, j)
  <2>6. w \in Seq(Symbols) /\ Len(w) = n /\ \A x \in 1 .. n : w[x] = s[k + x]
    <3> HIDE DEF n, j
    <3>1. k + 1 \in Nat \ {0} /\ j \in Nat /\ j <= Len(s) /\ k + 1 <= j + 1
      BY <1>2, <2>3
    <3>2. /\ w \in Seq(Symbols) /\ Len(w) = (j + 1) - (k + 1)
          /\ \A x \in 1 .. (j + 1) - (k + 1) : w[x] = s[((k + 1) - 1) + x]
      BY <3>1, SubSeqIs
    <3>3. (j + 1) - (k + 1) = n /\ \A x \in 1 .. n : ((k + 1) - 1) + x = k + x
      BY <1>2 DEF j
    <3> QED
      BY <3>2, <3>3
  <2> HIDE DEF c, w
  <2>7. c = w
    <3>1. \A x \in 1 .. n : c[x] = w[x]
      <4> TAKE x \in 1 .. n
      <4>1. x \in 1 .. Len(s) - k
        BY <1>2, <2>3
      <4> QED
        BY <1>3, <2>5, <2>6, <4>1
    <3> QED
      BY <2>5, <2>6, <3>1, SeqEqual
  <2> DEFINE b == j - 1 - Len(r.body)
  <2>8. b = k - 1 /\ b + 2 = k + 1
    <3>1. Len(r.body) = n
      BY <2>2, <2>5
    <3> HIDE DEF r
    <3> QED
      BY <1>2, <3>1
  <2> HIDE DEF r, out
  <2>9. BlankAt(s, b) /\ HeadFits(s, b, r)
    <3>1. BlankAt(s, k - 1) /\ HeadFits(s, k - 1, r)
      BY <1>1, <2>2 DEF HeadFits
    <3> HIDE DEF b
    <3> QED
      BY <2>8, <3>1
  <2>10. r.body = SubSeq(s, b + 2, j)
    <3> HIDE DEF b, j
    <3> QED
      BY <2>2, <2>7, <2>8 DEF w
  <2>11. r.body # << >> /\ r.body \in Seq(Symbols) /\ r.headers["content-length"] = Len(r.body)
    <3>1. c # << >>
      BY <1>6, <2>5
    <3> QED
      BY <1>1, <2>2, <2>5, <3>1
  <2>12. RequestFits(s, j, r)
    <3>1. j <= Len(s)
      BY <2>3
    <3> HIDE DEF j
    <3> QED
      BY <1>1, <2>2, <2>9, <2>10, <2>11, <3>1 DEF RequestFits, b
  <2>13. out.res = "kParseOK" /\ out.parser = r /\ out.buf = Rest(s, j)
    BY <2>1, <2>4, OutcomeIs
  <2> HIDE DEF j
  <2> QED
    BY <2>2, <2>3, <2>12, <2>13 DEF Steps, out
<1> QED
  BY <1>4, <1>5, <1>6

LEMMA FuncSteps ==
    ASSUME NEW s \in Seq(Symbols), NEW k \in 0 .. Len(s), NEW q, ParserFits(s, k, q)
    PROVE  Steps(s, k, q, func(q, Rest(s, k)))
<1>1. CASE q.status = "kInit"
  BY <1>1, StartSteps DEF func
<1>2. CASE q.status = "kParsingRequestLine"
  BY <1>2, RequestLineSteps DEF func
<1>3. CASE q.status = "kParsingRequestHeader"
  BY <1>3, HeaderSteps DEF func
<1>4. CASE q.status = "kParsingRequestBody"
  BY <1>4, BodySteps DEF func
<1> QED
  BY <1>1, <1>2, <1>3, <1>4 DEF ParserFits
-----------------------------------------------------------------------------
(* What a call has seen, it sees again when more has arrived *)

LEMMA LineSeenAgain ==
    ASSUME NEW S, NEW s \in Seq(S), NEW u \in Seq(S), Extends(u, s),
           NEW k \in 0 .. Len(s), AtLine(s, k), find(Rest(s, k)) # -1, NEW kind
    PROVE  /\ find(Rest(u, k)) = find(Rest(s, k))
           /\ IsLine(Rest(u, k), kind) <=> IsLine(Rest(s, k), kind)
<1> DEFINE f == find(Rest(s, k))
<1> DEFINE g == find(Rest(u, k))
<1> DEFINE e == k + f + 1
<1>1. Len(s) \in Nat /\ Len(u) \in Nat /\ Len(s) <= Len(u) /\ k \in Nat /\ k <= Len(s)
      /\ \A j \in 1 .. Len(s) : u[j] = s[j]
  BY DEF Extends
<1>2. NextLine(s, k, f)
  BY FindIsNext
<1>3. \A d : d \in LineEnds(s) <=> d \in LineEnds(u) /\ d + 1 <= Len(s)
  BY EndsExtended
<1>4. AtLine(u, k) /\ k \in 0 .. Len(u)
  BY <1>1, <1>3 DEF AtLine
<1>5. f \in Nat /\ e \in LineEnds(s) /\ e + 1 <= Len(s) /\ LineEnds(u) \subseteq Nat
  BY <1>2, EndsAre DEF NextLine
<1>6. g # -1
  <2>1. e \in LineEnds(u) /\ ~(e < k)
    BY <1>1, <1>3, <1>5
  <2> HIDE DEF e
  <2>2. ~ \A d \in LineEnds(u) : d < k
    BY <2>1
  <2> HIDE DEF g
  <2> QED
    BY <1>4, <2>2, FindIsNext DEF g, NextLine
<1>7. NextLine(u, k, g)
  BY <1>4, <1>6, FindIsNext
<1>8. g = f
  <2> DEFINE c == k + g + 1
  <2>1. g \in Nat /\ c \in LineEnds(u) /\ \A d \in LineEnds(u) : d < c => d < k
    BY <1>7 DEF NextLine
  <2>2. \A d \in LineEnds(s) : d < e => d < k
    BY <1>2 DEF NextLine
  <2> HIDE DEF g, f
  <2>3. ~(e < k) /\ ~(c < k)
    BY <1>1, <1>5, <2>1
  <2>4. ~(e < c)
    <3> HIDE DEF e, c
    <3> QED
      BY <1>3, <1>5, <2>1, <2>3
  <2>5. ~(c < e)
    <3>1. c < e => c + 1 <= Len(s)
      BY <1>1, <1>5, <2>1
    <3> HIDE DEF e, c
    <3> QED
      BY <1>3, <2>1, <2>2, <2>3, <3>1
  <2> QED
    BY <1>1, <1>5, <2>1, <2>4, <2>5
<1>9. f = 1 => Rest(u, k)[1] = Rest(s, k)[1]
  <2> SUFFICES ASSUME f = 1 PROVE Rest(u, k)[1] = Rest(s, k)[1]
    OBVIOUS
  <2>1. k + 1 <= Len(s)
    <3> HIDE DEF f
    <3> QED
      BY <1>1, <1>5
  <2>2. 1 \in 1 .. Len(s) - k /\ 1 \in 1 .. Len(u) - k /\ k + 1 \in 1 .. Len(s)
    BY <1>1, <2>1
  <2>3. Rest(s, k)[1] = s[k + 1]
    BY <2>2, RestIs
  <2>4. Rest(u, k)[1] = u[k + 1]
    BY <1>4, <2>2, RestIs
  <2> QED
    BY <1>1, <2>2, <2>3, <2>4
<1> HIDE DEF f, g, e
<1>10. /\ IsLine(Rest(s, k), kind) <=> f = 1 /\ Rest(s, k)[1].kind = kind
       /\ IsLine(Rest(u, k), kind) <=> g = 1 /\ Rest(u, k)[1].kind = kind
  BY DEF IsLine, f, g
<1>11. IsLine(Rest(u, k), kind) <=> IsLine(Rest(s, k), kind)
  BY <1>8, <1>9, <1>10
<1> QED
  BY <1>8, <1>11 DEF f, g

LEMMA ErrorStays ==
    ASSUME NEW s \in Seq(Symbols), NEW u \in Seq(Symbols), Extends(u, s),
           NEW k \in 0 .. Len(s), NEW q, ParserFits(s, k, q),
           func(q, Rest(s, k)).res = "kParseError"
    PROVE  func(q, Rest(u, k)).res = "kParseError"
<1> DEFINE t == Rest(s, k)
<1> DEFINE v == Rest(u, k)
<1>1. CASE q.status = "kInit"
  <2>1. func(q, t) = StartParsing(q, t)
    BY <1>1 DEF func
  <2> QED
    BY <2>1, OutcomeIs DEF StartParsing
<1>2. CASE q.status = "kParsingRequestLine"
  <2>1. func(q, t) = ReadRequestLine(q, t) /\ func(q, v) = ReadRequestLine(q, v) /\ AtLine(s, k)
    BY <1>2 DEF func, ParserFits, AtLine
  <2> HIDE DEF t, v
  <2>2. find(t) # -1 /\ ~IsLine(t, "request")
    BY <2>1, OutcomeIs DEF ReadRequestLine, IsLine, t
  <2>3. find(v) # -1 /\ ~IsLine(v, "request")
    BY <2>1, <2>2, LineSeenAgain DEF t, v
  <2>4. ReadRequestLine(q, v) = Outcome("kParseError", q, v)
    BY <2>3 DEF ReadRequestLine
  <2> QED
    BY <2>1, <2>4, OutcomeIs DEF v
<1>3. CASE q.status = "kParsingRequestHeader"
  <2>1. func(q, t) = ReadRequestHeader(q, t) /\ func(q, v) = ReadRequestHeader(q, v)
        /\ AtLine(s, k)
    BY <1>3 DEF func, ParserFits, AtLine
  <2>2. CASE find(t) = 0
    <3>1. find(v) = 0
      BY <2>1, <2>2, LineSeenAgain
    <3> HIDE DEF t, v
    <3>2. func(q, t) = EndHeaders(q, t) /\ func(q, v) = EndHeaders(q, v)
      BY <2>1, <2>2, <3>1 DEF ReadRequestHeader, IsLine
    <3>3. "content-length" \in DOMAIN q.headers /\ q.headers["content-length"] = NotANumber
      BY <3>2, OutcomeIs DEF EndHeaders, t
    <3>4. func(q, v) = Outcome("kParseError", q, v)
      BY <3>2, <3>3 DEF EndHeaders
    <3> QED
      BY <3>4, OutcomeIs DEF v
  <2>3. CASE find(t) # 0
    <3> HIDE DEF t, v
    <3>1. find(t) # -1 /\ ~IsLine(t, "header")
      BY <2>1, <2>3, OutcomeIs DEF ReadRequestHeader, IsLine, t
    <3>2. find(v) # -1 /\ find(v) # 0 /\ ~IsLine(v, "header")
      BY <2>1, <2>3, <3>1, LineSeenAgain DEF t, v
    <3>3. ReadRequestHeader(q, v) = Outcome("kParseError", q, v)
      BY <3>2 DEF ReadRequestHeader
    <3> QED
      BY <2>1, <3>3, OutcomeIs DEF v
  <2> QED
    BY <2>2, <2>3
<1>4. CASE q.status = "kParsingRequestBody"
  <2>1. func(q, t) = ReadRequestBody(q, t)
    BY <1>4 DEF func
  <2>2. q.length \in Nat /\ Len(t) \in Nat
    BY <1>4, RestIs DEF ParserFits
  <2>3. ReadRequestBody(q, t).res # "kParseError"
    <3> HIDE DEF t
    <3>1. CASE q.length = 0
      <4>1. ReadRequestBody(q, t) = Outcome("abort", q, t)
        BY <2>2, <3>1 DEF ReadRequestBody
      <4> QED
        BY <4>1, OutcomeIs
    <3>2. CASE q.length # 0 /\ q.length > Len(t)
      <4>1. ReadRequestBody(q, t) = Outcome("kParseNeedMore", q, t)
        BY <3>2 DEF ReadRequestBody
      <4> QED
        BY <4>1, OutcomeIs
    <3>3. CASE q.length # 0 /\ ~(q.length > Len(t))
      BY <3>3, OutcomeIs DEF ReadRequestBody
    <3> QED
      BY <3>1, <3>2, <3>3
  <2> QED
    BY <2>1, <2>3
<1> QED
  BY <1>1, <1>2, <1>3, <1>4 DEF ParserFits

\* A request with an empty body is one request, and names no error.
LEMMA EmptyBodyVerdict ==
    ASSUME NEW s \in Seq(Symbols), NEW u \in Seq(Symbols), Extends(u, s),
           NEW k \in 0 .. Len(s), NEW q, ParserFits(s, k, q),
           q.status = "kParsingRequestBody", q.length = 0
    PROVE  Verdict(u) = "done" /\ 0 \in Values(u, "content-length")
<1>1. Len(s) \in Nat /\ Len(u) \in Nat /\ k \in Nat /\ k <= Len(s) /\ k <= Len(u)
  BY DEF Extends
<1>2. ParserFits(u, k, q)
  BY <1>1, ParserExtended
<1>3. /\ BlankAt(u, k - 1) /\ HeadFits(u, k - 1, q)
      /\ "content-length" \in DOMAIN q.headers /\ q.headers["content-length"] = 0
  BY <1>2 DEF ParserFits
<1>4. ~(k - 1 + 1 + 0 > Len(u)) /\ 0 \in Nat
  BY <1>1
<1>5. Verdict(u) = "done"
  BY <1>3, <1>4, HeadGivesVerdict
<1>6. Values(u, "content-length") = {0}
  BY <1>3, HeadIs DEF Keys
<1> QED
  BY <1>5, <1>6
-----------------------------------------------------------------------------
(* The steps of the connection *)

LEMMA StreamIs ==
    ASSUME TypeInv
    PROVE  /\ Stream \in Seq(Symbols) /\ Extends(Stream, received)
           /\ Len(Stream) = Len(received) + (Len(socket) + Len(toSend))
<1> DEFINE rest == socket \o toSend
<1>1. rest \in Seq(Symbols) /\ Len(rest) = Len(socket) + Len(toSend)
  BY ConcatExtends DEF TypeInv
<1>2. received \in Seq(Symbols)
  BY DEF TypeInv
<1> HIDE DEF rest
<1>3. /\ received \o rest \in Seq(Symbols) /\ Extends(received \o rest, received)
      /\ Len(received \o rest) = Len(received) + Len(rest)
  BY <1>1, <1>2, ConcatExtends
<1>4. Stream = received \o rest
  BY ConcatAssociative DEF TypeInv, Stream, rest
<1> QED
  BY <1>1, <1>3, <1>4

LEMMA TakenIs ==
    ASSUME TypeInv, ParsedInv
    PROVE  Taken \in 0 .. Len(received) /\ Len(received) \in Nat /\ readBuf = Rest(received, Taken)
<1>1. Taken \in Nat /\ readBuf = Rest(received, Taken)
  BY DEF ParsedInv
<1>2. Len(received) \in Nat /\ Len(readBuf) \in Nat /\ Taken = Len(received) - Len(readBuf)
  BY DEF TypeInv, Taken
<1> QED
  BY <1>1, <1>2

\* Once a request is complete or in error, the stream is known.
LEMMA RequestKnown ==
    ASSUME NEW s \in Seq(Symbols), NEW u \in Seq(Symbols), Extends(u, s),
           NEW k \in Nat, NEW q, RequestFits(s, k, q)
    PROVE  /\ Verdict(u) = "done" /\ RequestLength(u) = k /\ Len(s) <= Len(u)
           /\ k <= Len(s) /\ u[1] = q.line
<1>1. k <= Len(s)
  BY DEF RequestFits
<1>2. RequestFits(u, k, q)
  BY <1>1, RequestExtended
<1>3. u[1] = q.line
  BY <1>2 DEF RequestFits, HeadFits
<1> QED
  BY <1>1, <1>2, <1>3, RequestVerdict, RequestLengthIs DEF Extends

LEMMA ErrorKnown ==
    ASSUME NEW s \in Seq(Symbols), NEW u \in Seq(Symbols), Extends(u, s),
           NEW k \in 0 .. Len(s), NEW q, ParserFits(s, k, q),
           func(q, Rest(s, k)).res = "kParseError"
    PROVE  Verdict(u) = "error"
<1>1. Len(s) \in Nat /\ Len(u) \in Nat /\ Len(s) <= Len(u) /\ k \in Nat /\ k <= Len(s)
  BY DEF Extends
<1>2. k \in 0 .. Len(u) /\ ParserFits(u, k, q)
  BY <1>1, ParserExtended
<1>3. func(q, Rest(u, k)).res = "kParseError"
  BY ErrorStays
<1> QED
  BY <1>2, <1>3, FuncSteps DEF Steps

LEMMA InitIInv == Init => IInv
<1> SUFFICES ASSUME Init PROVE IInv
  OBVIOUS
<1>1. toSend \in Seq(Symbols)
  BY StreamsAssumption DEF Init
<1>2. TypeInv
  <2>1. /\ sameLoop \in BOOLEAN /\ fin = FALSE /\ reading = TRUE /\ writing = FALSE
        /\ closeOnWritten = FALSE /\ aborted = FALSE
    BY DEF Init
  <2>2. {sameLoop, fin, reading, writing, closeOnWritten, aborted} \subseteq BOOLEAN
    BY <2>1
  <2>3. << >> \in Seq(Symbols) /\ << >> \in Seq(Statuses)
    OBVIOUS
  <2>4. /\ socket = << >> /\ received = << >> /\ readBuf = << >> /\ answers = << >>
        /\ pc = "poll" /\ revents = {} /\ state = "kConnected" /\ destroy = "no"
        /\ unsent = 0 /\ changes = 0
    BY DEF Init
  <2> QED
    BY <1>1, <2>2, <2>3, <2>4 DEF TypeInv
<1>3. IsParser(InitialParser) /\ InitialParser # None
  BY ParserHasNone DEF IsParser, InitialParser
<1>4. Taken = 0 /\ readBuf = Rest(received, Taken)
  <2>1. Taken = 0 /\ Len(received) = 0
    BY DEF Init, Taken
  <2>2. Rest(received, 0) = << >>
    BY <2>1, SubSeqEmpty DEF Rest
  <2> QED
    BY <2>1, <2>2 DEF Init
<1>5. ParserFits(received, Taken, context)
  BY <1>3, <1>4 DEF Init, ParserFits, InitialParser
<1>6. ParsedInv
  BY <1>3, <1>4, <1>5 DEF ParsedInv, Init
<1>7. func(context, readBuf).res = "kParseNeedMore"
  <2>1. func(context, readBuf) = Outcome("kParseNeedMore", context, readBuf)
    BY DEF Init, func, StartParsing, InitialParser
  <2> QED
    BY <2>1, OutcomeIs
<1>8. AnswersInv
  BY <1>3, <1>7 DEF AnswersInv, Init
<1>9. CloseInv /\ ProperRequestsSurvived
  BY DEF CloseInv, ProperRequestsSurvived, Init
<1> QED
  BY <1>2, <1>6, <1>8, <1>9 DEF IInv

\* What a step that does not parse, answer or abort leaves to be shown.
LEMMA NothingParsed ==
    ASSUME IInv, UNCHANGED <<received, readBuf, context, request>>,
           pc' = "parse" => context # None
    PROVE  ParsedInv'
<1>1. Taken' = Taken
  BY DEF Taken
<1> QED
  BY <1>1 DEF IInv, ParsedInv

LEMMA NothingAnswered ==
    ASSUME IInv, UNCHANGED <<readBuf, context, answers, aborted, chosen, state, changes, files>>,
           pc' \in {pc, "poll", "write", "read", "functors", "ended"},
           pc \notin {"parse", "check", "load"} \/ pc' = pc
    PROVE  AnswersInv'
BY DEF IInv, AnswersInv, ParsedInv

LEMMA StillSurvived ==
    ASSUME IInv, UNCHANGED <<aborted, received, socket, toSend, sameLoop>>,
           changes' \in {changes, changes + 1}
    PROVE  ProperRequestsSurvived'
<1>1. Stream' = Stream
  BY DEF Stream
<1>2. changes \in Nat /\ ProperRequestsSurvived
  BY DEF IInv, TypeInv
<1>3. changes > 0 => changes' > 0
  BY <1>2
<1> QED
  BY <1>1, <1>2, <1>3 DEF ProperRequestsSurvived

LEMMA ClientSendsKeeps == IInv /\ ClientSends => IInv'
<1> SUFFICES ASSUME IInv, ClientSends PROVE IInv'
  OBVIOUS
<1>1. PICK n \in 1 .. Len(toSend) :
         socket' = socket \o SubSeq(toSend, 1, n) /\ toSend' = SubSeq(toSend, n + 1, Len(toSend))
  BY DEF ClientSends
<1> DEFINE a == SubSeq(toSend, 1, n)
<1> DEFINE b == Rest(toSend, n)
<1>2. toSend \in Seq(Symbols) /\ socket \in Seq(Symbols) /\ received \in Seq(Symbols)
  BY DEF IInv, TypeInv
<1>3. n \in 0 .. Len(toSend) /\ n \in Nat /\ 1 <= n
  BY <1>2
<1>4. a \in Seq(Symbols) /\ Len(a) = n /\ Extends(toSend, a)
  BY <1>2, <1>3, PrefixExtended
<1>5. b \in Seq(Symbols) /\ Len(b) = Len(toSend) - n
      /\ \A k \in 1 .. Len(toSend) - n : b[k] = toSend[n + k]
  BY <1>2, <1>3, RestIs
<1>6. socket' = socket \o a /\ toSend' = b
  BY <1>1 DEF Rest
<1> HIDE DEF a, b
<1>7. a \o b = toSend
  <2> DEFINE c == a \o b
  <2>1. /\ c \in Seq(Symbols) /\ Len(c) = Len(a) + Len(b)
        /\ \A k \in 1 .. Len(a) : c[k] = a[k]
        /\ \A k \in 1 .. Len(b) : c[Len(a) + k] = b[k]
    <3>1. a \in Seq(Symbols) /\ b \in Seq(Symbols)
      BY <1>4, <1>5
    <3> QED
      BY <3>1, ConcatExtends DEF Extends
  <2> HIDE DEF c
  <2>2. Len(toSend) \in Nat /\ Len(c) = Len(toSend)
    BY <1>2, <1>3, <1>4, <1>5, <2>1
  <2>3. ASSUME NEW k \in 1 .. Len(c) PROVE c[k] = toSend[k]
    <3>1. CASE k <= n
      <4>1. k \in 1 .. Len(a)
        BY <1>4, <3>1
      <4> QED
        BY <1>4, <2>1, <4>1 DEF Extends
    <3>2. CASE ~(k <= n)
      <4> DEFINE j == k - n
      <4>1. j \in 1 .. Len(toSend) - n /\ n + j = k
        BY <1>3, <2>2, <3>2
      <4> HIDE DEF j
      <4> QED
        BY <1>4, <1>5, <2>1, <4>1
    <3> QED
      BY <3>1, <3>2
  <2>4. c = toSend
    BY <1>2, <2>1, <2>2, <2>3, SeqEqual
  <2> QED
    BY <2>4 DEF c
<1>8. socket' \in Seq(Symbols) /\ Len(socket') = Len(socket) + n
  BY <1>2, <1>4, <1>6, ConcatExtends
<1>9. Stream' = Stream
  <2>1. Stream' = (received \o (socket \o a)) \o b
    BY <1>6 DEF Stream, ClientSends
  <2>2. (received \o (socket \o a)) \o b = received \o ((socket \o a) \o b)
    <3> DEFINE y == socket \o a
    <3>1. y \in Seq(Symbols) /\ b \in Seq(Symbols) /\ received \in Seq(Symbols)
      BY <1>2, <1>5, <1>6, <1>8
    <3> HIDE DEF y
    <3>2. (received \o y) \o b = received \o (y \o b)
      BY <3>1, ConcatAssociative
    <3> QED
      BY <3>2 DEF y
  <2>3. (socket \o a) \o b = socket \o toSend
    <3>1. socket \in Seq(Symbols) /\ a \in Seq(Symbols) /\ b \in Seq(Symbols)
      BY <1>2, <1>4, <1>5
    <3>2. (socket \o a) \o b = socket \o (a \o b)
      BY <3>1, ConcatAssociative
    <3> QED
      BY <1>7, <3>2
  <2>4. (received \o socket) \o toSend = received \o (socket \o toSend)
    BY <1>2, ConcatAssociative
  <2> QED
    BY <2>1, <2>2, <2>3, <2>4 DEF Stream
<1>10. TypeInv'
  BY <1>5, <1>6, <1>8 DEF IInv, TypeInv, ClientSends, client, channel
<1>11. ParsedInv'
  BY NothingParsed DEF ClientSends, IInv, ParsedInv
<1>12. AnswersInv'
  BY NothingAnswered DEF ClientSends
<1>13. CloseInv'
  <2>1. socket' # << >>
    <3>1. Len(socket') # 0
      BY <1>2, <1>3, <1>8
    <3> QED
      BY <3>1
  <2> QED
    BY <2>1 DEF IInv, CloseInv, ClientSends, client, channel
<1>14. ProperRequestsSurvived'
  BY <1>9 DEF IInv, ProperRequestsSurvived, ClientSends, client
<1> QED
  BY <1>10, <1>11, <1>12, <1>13, <1>14 DEF IInv

LEMMA ClientEndsKeeps == IInv /\ ClientEnds => IInv'
<1> SUFFICES ASSUME IInv, ClientEnds PROVE IInv'
  OBVIOUS
<1>1. TypeInv'
  BY DEF IInv, TypeInv, ClientEnds, client, channel
<1>2. ParsedInv'
  BY NothingParsed DEF ClientEnds, IInv, ParsedInv
<1>3. AnswersInv'
  BY NothingAnswered DEF ClientEnds
<1>4. CloseInv'
  BY DEF IInv, CloseInv, ClientEnds, client, channel
<1>5. ProperRequestsSurvived'
  BY StillSurvived DEF ClientEnds, client
<1> QED
  BY <1>1, <1>2, <1>3, <1>4, <1>5 DEF IInv

LEMMA FileChangesKeeps == IInv /\ FileChanges => IInv'
<1> SUFFICES ASSUME IInv, FileChanges PROVE IInv'
  OBVIOUS
<1>1. changes \in Nat /\ changes' = changes + 1 /\ changes' > 0 /\ pc = "load"
  BY DEF IInv, TypeInv, FileChanges, client, channel
<1>2. TypeInv'
  BY <1>1 DEF IInv, TypeInv, FileChanges, client, channel
<1>3. ParsedInv'
  BY <1>1, NothingParsed DEF FileChanges
<1>4. AnswersInv'
  BY <1>1 DEF IInv, AnswersInv, FileChanges
<1>5. CloseInv'
  BY DEF IInv, CloseInv, FileChanges, client, channel
<1>6. ProperRequestsSurvived'
  BY <1>1 DEF ProperRequestsSurvived
<1> QED
  BY <1>2, <1>3, <1>4, <1>5, <1>6 DEF IInv

LEMMA ReadCutFileKeeps == IInv /\ ReadCutFile => IInv'
<1> SUFFICES ASSUME IInv, ReadCutFile PROVE IInv'
  OBVIOUS
<1>1. /\ changes \in Nat /\ changes' = changes + 1 /\ changes' > 0 /\ pc = "load"
      /\ aborted' = TRUE /\ pc' = "ended"
  BY DEF IInv, TypeInv, ReadCutFile, Abort
<1>2. UNCHANGED <<sameLoop, toSend, fin, socket, revents, state, reading, writing, readBuf,
                  unsent, context, request, chosen, closeOnWritten, destroy, received, answers>>
  BY DEF ReadCutFile, client, channel
<1>3. PICK kind \in {"empty", "small"} : files' = [files EXCEPT ![chosen] = kind]
  BY DEF ReadCutFile
<1>4. kind \in FileKinds
  BY DEF FileKinds
<1>5. TypeInv'
  BY <1>1, <1>2, <1>3, <1>4 DEF IInv, TypeInv
<1>6. ParsedInv'
  BY <1>1, <1>2, NothingParsed
<1>7. AnswersInv'
  BY <1>1, <1>2 DEF IInv, AnswersInv
<1>8. CloseInv'
  BY <1>1, <1>2 DEF IInv, CloseInv
<1>9. ProperRequestsSurvived'
  BY <1>1 DEF ProperRequestsSurvived
<1> QED
  BY <1>5, <1>6, <1>7, <1>8, <1>9 DEF IInv

LEMMA HandleConnectionCloseKeeps == IInv /\ HandleConnectionClose => IInv'
<1> SUFFICES ASSUME IInv, HandleConnectionClose PROVE IInv'
  OBVIOUS
<1>1. TypeInv'
  BY DEF IInv, TypeInv, HandleConnectionClose, client, channel
<1>2. ParsedInv'
  BY NothingParsed DEF HandleConnectionClose, IInv, ParsedInv
<1>3. AnswersInv'
  BY NothingAnswered DEF HandleConnectionClose
<1>4. CloseInv'
  BY DEF IInv, CloseInv, TypeInv, HandleConnectionClose, client, channel
<1>5. ProperRequestsSurvived'
  BY StillSurvived DEF HandleConnectionClose, client
<1> QED
  BY <1>1, <1>2, <1>3, <1>4, <1>5 DEF IInv

LEMMA PollKeeps == ASSUME NEW room \in BOOLEAN PROVE IInv /\ Poll(room) => IInv'
<1> SUFFICES ASSUME IInv, Poll(room) PROVE IInv'
  OBVIOUS
<1>1. /\ pc = "poll" /\ (room => writing)
      /\ revents' \subseteq {"in", "out"}
      /\ "in" \in revents' => reading /\ (socket # << >> \/ fin)
      /\ pc' = IF room THEN "write" ELSE IF "in" \in revents' THEN "read" ELSE "functors"
      /\ UNCHANGED <<sameLoop, client, socket, files, state, channel, readBuf, unsent,
                     context, request, chosen, closeOnWritten, destroy, aborted, received,
                     answers, changes>>
  BY DEF Poll
<1>2. pc' \in {"write", "read", "functors"}
  BY <1>1
<1>3. TypeInv'
  BY <1>1, <1>2 DEF IInv, TypeInv, client, channel
<1>4. ParsedInv'
  BY <1>1, <1>2, NothingParsed
<1>5. AnswersInv'
  BY <1>1, <1>2, NothingAnswered
<1>6. CloseInv'
  BY <1>1, <1>2 DEF IInv, CloseInv, TypeInv, client, channel
<1>7. ProperRequestsSurvived'
  BY <1>1, StillSurvived DEF client
<1> QED
  BY <1>3, <1>4, <1>5, <1>6, <1>7 DEF IInv

LEMMA WriteSomeKeeps == IInv /\ WriteSome => IInv'
<1> SUFFICES ASSUME IInv, WriteSome PROVE IInv'
  OBVIOUS
<1>1. unsent' \in Nat
  BY DEF WriteSome, IInv, TypeInv
<1>2. pc = "write" /\ pc' = IF "in" \in revents THEN "read" ELSE "functors"
  BY DEF WriteSome, AfterWrite
<1>3. pc' \in {"read", "functors"}
  BY <1>2
<1>4. TypeInv'
  BY <1>1, <1>3 DEF IInv, TypeInv, WriteSome, client, channel
<1>5. ParsedInv'
  BY <1>3, NothingParsed DEF WriteSome
<1>6. AnswersInv'
  BY <1>2, <1>3, NothingAnswered DEF WriteSome
<1>7. CloseInv'
  BY <1>2, <1>3 DEF IInv, CloseInv, TypeInv, WriteSome, client, channel
<1>8. ProperRequestsSurvived'
  BY StillSurvived DEF WriteSome, client
<1> QED
  BY <1>4, <1>5, <1>6, <1>7, <1>8 DEF IInv
\* An answer in error decides the stream.
LEMMA ErrorAnswered ==
    ASSUME IInv, context # None, pc # "parse", ~aborted, answers # << >>
    PROVE  Verdict(Stream) = "error" /\ ~Proper(Stream)
<1>1. ParserFits(received, Taken, context)
  BY DEF IInv, ParsedInv
<1>2. func(context, readBuf).res = "kParseError"
  BY DEF IInv, AnswersInv
<1>3. Taken \in 0 .. Len(received) /\ readBuf = Rest(received, Taken)
  BY TakenIs DEF IInv
<1>4. received \in Seq(Symbols) /\ Stream \in Seq(Symbols) /\ Extends(Stream, received)
  BY StreamIs DEF IInv, TypeInv
<1>5. Verdict(Stream) = "error"
  BY <1>1, <1>2, <1>3, <1>4, ErrorKnown
<1> QED
  BY <1>5 DEF Proper

LEMMA WriteAllKeeps == IInv /\ WriteAll => IInv'
<1> SUFFICES ASSUME IInv, WriteAll PROVE IInv'
  OBVIOUS
<1>1. /\ pc = "write" /\ writing /\ closeOnWritten /\ answers # << >> /\ ~aborted
      /\ (state = "kDisconnected" => context # None /\ ~sameLoop)
      /\ destroy # "done"
  BY DEF WriteAll, IInv, CloseInv, TypeInv
<1>2. /\ unsent' = 0 /\ writing' = FALSE /\ WriteResponseDone
      /\ UNCHANGED <<sameLoop, client, socket, files, revents, readBuf, context, request,
                     chosen, closeOnWritten, received, answers, changes>>
  BY <1>1 DEF WriteAll
<1>3. UNCHANGED <<toSend, fin>>
  BY <1>2 DEF client
<1>4. CASE state = "kDisconnected"
  <2>1. aborted' = TRUE /\ pc' = "ended" /\ UNCHANGED <<state, destroy, reading>>
    BY <1>2, <1>4 DEF WriteResponseDone, Abort
  <2>2. TypeInv'
    BY <1>2, <1>3, <2>1 DEF IInv, TypeInv
  <2>3. ParsedInv'
    BY <1>2, <2>1, NothingParsed
  <2>4. AnswersInv'
    BY <1>1, <1>2, <2>1 DEF IInv, AnswersInv
  <2>5. CloseInv'
    BY <1>1, <1>2, <1>3, <2>1 DEF IInv, CloseInv
  <2>6. ProperRequestsSurvived'
    <3>1. ~Proper(Stream)
      BY <1>1, <1>4, ErrorAnswered
    <3>2. Stream' = Stream
      BY <1>2, <1>3 DEF Stream
    <3> QED
      BY <1>1, <1>2, <1>4, <3>1, <3>2 DEF ProperRequestsSurvived
  <2> QED
    BY <2>2, <2>3, <2>4, <2>5, <2>6 DEF IInv
<1>5. CASE state # "kDisconnected"
  <2>1. /\ state' = "kDisconnected" /\ destroy' = (IF sameLoop THEN "queued" ELSE "asked")
        /\ reading' = FALSE /\ pc' = (IF "in" \in revents THEN "read" ELSE "functors")
        /\ aborted' = aborted
    BY <1>2, <1>5 DEF WriteResponseDone, CloseCallback, AfterWrite
  <2>2. pc' \in {"read", "functors"} /\ destroy' \in {"queued", "asked"}
    BY <2>1
  <2>3. TypeInv'
    BY <1>2, <1>3, <2>1, <2>2 DEF IInv, TypeInv
  <2>4. ParsedInv'
    BY <1>2, <2>2, NothingParsed
  <2>5. AnswersInv'
    BY <1>1, <1>2, <2>1, <2>2 DEF IInv, AnswersInv
  <2>6. CloseInv'
    BY <1>1, <1>2, <1>3, <2>1, <2>2 DEF IInv, CloseInv
  <2>7. ProperRequestsSurvived'
    BY <1>1, <2>1 DEF ProperRequestsSurvived
  <2> QED
    BY <2>3, <2>4, <2>5, <2>6, <2>7 DEF IInv
<1> QED
  BY <1>4, <1>5

LEMMA ReadEndKeeps == IInv /\ ReadEnd => IInv'
<1> SUFFICES ASSUME IInv, ReadEnd PROVE IInv'
  OBVIOUS
<1>1. /\ pc = "read" /\ socket = << >> /\ pc' = "functors" /\ fin /\ ~aborted
      /\ destroy # "done"
  BY DEF ReadEnd, IInv, CloseInv
<1>2. UNCHANGED <<sameLoop, toSend, fin, socket, files, revents, readBuf, unsent, context,
                  request, chosen, closeOnWritten, aborted, received, answers, changes>>
  BY DEF ReadEnd, client
<1>3. CASE state = "kDisconnected"
  <2>1. UNCHANGED <<state, destroy, reading, writing>>
    BY <1>3 DEF ReadEnd, channel
  <2>2. TypeInv'
    BY <1>1, <1>2, <2>1 DEF IInv, TypeInv
  <2>3. CloseInv'
    BY <1>1, <1>2, <1>3, <2>1 DEF IInv, CloseInv
  <2>4. AnswersInv'
    BY <1>1, <1>2, <2>1, NothingAnswered
  <2>5. ParsedInv' /\ ProperRequestsSurvived'
    BY <1>1, <1>2, NothingParsed, StillSurvived
  <2> QED
    BY <2>2, <2>3, <2>4, <2>5 DEF IInv
<1>4. CASE state # "kDisconnected"
  <2>1. /\ state' = "kDisconnected" /\ destroy' = (IF sameLoop THEN "queued" ELSE "asked")
        /\ reading' = FALSE /\ writing' = FALSE
    BY <1>4 DEF ReadEnd, CloseCallback
  <2>2. destroy' \in {"queued", "asked"}
    BY <2>1
  <2>3. TypeInv'
    BY <1>1, <1>2, <2>1, <2>2 DEF IInv, TypeInv
  <2>4. CloseInv'
    BY <1>1, <1>2, <2>1, <2>2 DEF IInv, CloseInv
  <2>5. AnswersInv'
    BY <1>1, <1>2, <2>1 DEF IInv, AnswersInv
  <2>6. ParsedInv' /\ ProperRequestsSurvived'
    BY <1>1, <1>2, NothingParsed, StillSurvived
  <2> QED
    BY <2>3, <2>4, <2>5, <2>6 DEF IInv
<1> QED
  BY <1>3, <1>4

LEMMA ReadMessageKeeps == IInv /\ ReadMessage => IInv'
<1> SUFFICES ASSUME IInv, ReadMessage PROVE IInv'
  OBVIOUS
<1>1. pc = "read" /\ socket # << >> /\ ~aborted /\ destroy # "done" /\ Len(socket) # 0
  BY DEF ReadMessage, IInv, CloseInv, TypeInv
<1>2. socket' = << >> /\ received' = received \o socket /\ readBuf' = readBuf \o socket
  BY DEF ReadMessage
<1>3. UNCHANGED <<sameLoop, toSend, fin, files, revents, state, reading, writing, unsent,
                  context, request, chosen, closeOnWritten, destroy, answers, changes>>
  BY DEF ReadMessage, client, channel
<1>4. /\ received \in Seq(Symbols) /\ socket \in Seq(Symbols) /\ readBuf \in Seq(Symbols)
      /\ toSend \in Seq(Symbols)
  BY DEF IInv, TypeInv
<1>5. /\ received' \in Seq(Symbols) /\ Len(received') = Len(received) + Len(socket)
      /\ Extends(received', received)
  BY <1>2, <1>4, ConcatExtends
<1>6. readBuf' \in Seq(Symbols) /\ Len(readBuf') = Len(readBuf) + Len(socket)
  BY <1>2, <1>4, ConcatExtends
<1>7. Taken \in 0 .. Len(received) /\ Taken \in Nat /\ Taken <= Len(received)
      /\ readBuf = Rest(received, Taken)
  BY TakenIs DEF IInv
<1>8. Taken' = Taken
  <2>1. Len(received) \in Nat /\ Len(readBuf) \in Nat /\ Len(socket) \in Nat
    BY <1>4
  <2>2. Taken' = Len(received') - Len(readBuf') /\ Taken = Len(received) - Len(readBuf)
    BY DEF Taken
  <2> QED
    BY <1>5, <1>6, <2>1, <2>2
<1>9. readBuf' = Rest(received', Taken)
  BY <1>2, <1>4, <1>7, RestOfConcat
<1>10. /\ Stream' \in Seq(Symbols) /\ Extends(Stream', received')
       /\ Len(received') <= Len(Stream')
  <2>1. /\ received' \o toSend \in Seq(Symbols) /\ Extends(received' \o toSend, received')
    BY <1>4, <1>5, ConcatExtends
  <2>2. received' \o << >> = received'
    BY <1>5, ConcatEmptySeq
  <2>3. Stream' = received' \o toSend
    BY <1>2, <1>3, <2>2 DEF Stream
  <2> QED
    BY <2>1, <2>3 DEF Extends
<1>11. CASE context = None
  <2>1. aborted' = TRUE /\ pc' = "ended"
    BY <1>11 DEF ReadMessage, Abort
  <2>2. TypeInv'
    BY <1>2, <1>3, <1>4, <1>5, <1>6, <2>1 DEF IInv, TypeInv
  <2>3. RequestFits(received, Taken, request)
    BY <1>11 DEF IInv, ParsedInv
  <2>4. RequestFits(received', Taken, request)
    BY <1>4, <1>5, <1>7, <2>3, RequestExtended
  <2>5. ParsedInv'
    BY <1>3, <1>7, <1>8, <1>9, <1>11, <2>1, <2>4 DEF ParsedInv
  <2>6. AnswersInv'
    BY <1>3, <1>11, <2>1 DEF IInv, AnswersInv
  <2>7. CloseInv'
    BY <1>1, <1>3, <2>1 DEF IInv, CloseInv
  <2>8. Verdict(Stream') = "done" /\ RequestLength(Stream') = Taken
    BY <1>5, <1>7, <1>10, <2>4, RequestKnown
  <2>9. Taken < Len(Stream') /\ Len(Stream') \in Nat
    <3>1. Len(received) \in Nat /\ Len(socket) \in Nat /\ Len(Stream') \in Nat
      BY <1>4, <1>10
    <3> QED
      BY <1>1, <1>5, <1>7, <1>10, <3>1
  <2>10. ~Proper(Stream')
    BY <1>7, <2>8, <2>9 DEF Proper
  <2>11. ProperRequestsSurvived'
    BY <2>8, <2>10 DEF ProperRequestsSurvived
  <2> QED
    BY <2>2, <2>5, <2>6, <2>7, <2>11 DEF IInv
<1>12. CASE context # None
  <2>1. aborted' = aborted /\ pc' = "parse"
    BY <1>12 DEF ReadMessage
  <2>2. TypeInv'
    BY <1>2, <1>3, <1>4, <1>5, <1>6, <2>1 DEF IInv, TypeInv
  <2>3. ParserFits(received, Taken, context) /\ request = None
    BY <1>12 DEF IInv, ParsedInv
  <2>4. ParserFits(received', Taken, context)
    BY <1>4, <1>5, <1>7, <2>3, ParserExtended
  <2>5. ParsedInv'
    BY <1>3, <1>7, <1>8, <1>9, <1>12, <2>1, <2>3, <2>4 DEF ParsedInv
  <2>6. AnswersInv'
    <3>1. answers # << >> => func(context, readBuf').res = "kParseError"
      <4> SUFFICES ASSUME answers # << >> PROVE func(context, readBuf').res = "kParseError"
        OBVIOUS
      <4>1. func(context, Rest(received, Taken)).res = "kParseError"
        BY <1>1, <1>7, <1>12 DEF IInv, AnswersInv
      <4> QED
        BY <1>4, <1>5, <1>7, <1>9, <2>3, <4>1, ErrorStays
    <3>2. \A k \in DOMAIN answers : answers[k] = "400"
      BY <1>12 DEF IInv, AnswersInv
    <3> QED
      BY <1>3, <1>12, <2>1, <3>1, <3>2 DEF AnswersInv
  <2>7. CloseInv'
    BY <1>1, <1>3, <2>1 DEF IInv, CloseInv
  <2>8. ProperRequestsSurvived'
    BY <1>1, <2>1 DEF ProperRequestsSurvived
  <2> QED
    BY <2>2, <2>5, <2>6, <2>7, <2>8 DEF IInv
<1> QED
  BY <1>11, <1>12

LEMMA FunctorsKeeps == IInv /\ Functors => IInv'
<1> SUFFICES ASSUME IInv, Functors PROVE IInv'
  OBVIOUS
<1>1. pc = "functors" /\ ~aborted
  BY DEF Functors, IInv, CloseInv
<1>2. UNCHANGED <<sameLoop, toSend, fin, socket, files, revents, state, reading, writing,
                  readBuf, unsent, context, request, chosen, closeOnWritten, aborted, received,
                  answers, changes>>
  BY DEF Functors, client, channel
<1>3. \/ destroy = "queued" /\ destroy' = "done" /\ pc' = "ended"
      \/ destroy # "queued" /\ destroy' = destroy /\ pc' = "poll"
  BY DEF Functors
<1>4. TypeInv'
  BY <1>2, <1>3 DEF IInv, TypeInv
<1>5. ParsedInv' /\ ProperRequestsSurvived'
  BY <1>2, <1>3, NothingParsed, StillSurvived
<1>6. AnswersInv'
  BY <1>1, <1>2, <1>3, NothingAnswered
<1>7. CloseInv'
  BY <1>1, <1>2, <1>3 DEF IInv, CloseInv, TypeInv
<1> QED
  BY <1>4, <1>5, <1>6, <1>7 DEF IInv

\* An answer given on an open connection, which leaves the loop at its functors.
LEMMA AnswerGiven ==
    ASSUME IInv, NEW status \in Statuses, NEW body \in BOOLEAN,
           WriteResponseAndClose(status, body), ~aborted, destroy # "done",
           UNCHANGED <<sameLoop, toSend, fin, socket, revents, state, reading, destroy, aborted,
                       received, changes>>,
           readBuf' \in Seq(Symbols),
           state = "kDisconnected" => context' # None
    PROVE  /\ TypeInv' /\ CloseInv' /\ ProperRequestsSurvived'
           /\ Len(answers') = Len(answers) + 1 /\ answers' # << >> /\ pc' = "functors"
           /\ answers \in Seq(Statuses) /\ answers' = Append(answers, status)
<1>1. /\ answers' = Append(answers, status) /\ unsent' = unsent + (IF body THEN 2 ELSE 1)
      /\ writing' = TRUE /\ closeOnWritten' = TRUE /\ pc' = "functors"
  BY DEF WriteResponseAndClose
<1>2. answers \in Seq(Statuses) /\ unsent \in Nat
  BY DEF IInv, TypeInv
<1>3. unsent' \in Nat
  BY <1>1, <1>2
<1>4. answers' \in Seq(Statuses) /\ Len(answers') = Len(answers) + 1
  BY <1>1, <1>2
<1>5. answers' # << >>
  <2>1. Len(answers') # 0
    BY <1>2, <1>4
  <2> QED
    BY <2>1
<1>6. TypeInv'
  BY <1>1, <1>3, <1>4 DEF IInv, TypeInv
<1>7. CloseInv'
  BY <1>1, <1>5 DEF IInv, CloseInv
<1>8. ProperRequestsSurvived'
  BY DEF ProperRequestsSurvived
<1> QED
  BY <1>1, <1>2, <1>4, <1>5, <1>6, <1>7, <1>8

LEMMA ValidateIs ==
    ASSUME NEW req
    PROVE  /\ Validate(req) \in Statuses \cup {"abort", "ok"}
           /\ Validate(req) = "abort" => req.line.version = "2.0" \/ req.line.path = "empty"
<1>1. Validate(req) \in {"abort", "400", "501", "ok"}
  BY DEF Validate
<1>2. Validate(req) = "abort" => req.line.version = "2.0" \/ req.line.path = "empty"
  BY DEF Validate
<1> QED
  BY <1>1, <1>2 DEF Statuses

\* The request is complete.
LEMMA RequestTaken ==
    ASSUME IInv, ParseRound, func(context, readBuf).parser.status = "kParsingDone",
           NEW j \in Taken .. Len(received),
           readBuf' = Rest(received, j), answers = << >>, state = "kConnected",
           RequestFits(received, j, func(context, readBuf).parser)
    PROVE  IInv'
<1> DEFINE out == func(context, readBuf)
<1> DEFINE q == out.parser
<1>1. pc = "parse" /\ ~aborted /\ destroy # "done" /\ context' = None
  BY DEF ParseRound, IInv, CloseInv
<1>2. UNCHANGED <<sameLoop, toSend, fin, socket, files, revents, state, reading, chosen, destroy,
                  received, changes>>
  BY DEF ParseRound, client
<1>3. Taken \in 0 .. Len(received) /\ Len(received) \in Nat /\ received \in Seq(Symbols)
  BY TakenIs DEF IInv, TypeInv
<1>4. j \in 0 .. Len(received) /\ j \in Nat
  BY <1>3
<1>5. readBuf' \in Seq(Symbols) /\ Len(readBuf') = Len(received) - j
  BY <1>3, <1>4, RestIs
<1>6. Taken' = j
  <2>1. Taken' = Len(received) - Len(readBuf')
    BY <1>2 DEF Taken
  <2> QED
    BY <1>3, <1>4, <1>5, <2>1
<1>7. IsParser(q) /\ q # None
  BY ParserHasNone DEF RequestFits
<1>8. OnRequest(q)
  <2>1. \/ OnRequest(q)
        \/ out.res = "kParseError"
        \/ out.res = "abort"
    BY DEF ParseRound
  <2>2. out.res = "kParseOK"
    <3>1. ParserFits(received, Taken, context) /\ readBuf = Rest(received, Taken)
      BY <1>1 DEF IInv, ParsedInv
    <3>2. Steps(received, Taken, context, out)
      BY <1>3, <3>1, FuncSteps
    <3>3. context.status # "kParsingDone"
      BY <3>1 DEF ParserFits
    <3> QED
      BY <3>2, <3>3 DEF Steps
  <2> QED
    BY <2>1, <2>2
<1> HIDE DEF out, q
<1>9. /\ Verdict(Stream) = "done" /\ Stream[1] = q.line /\ Stream' = Stream
  <2>1. received \in Seq(Symbols) /\ Stream \in Seq(Symbols) /\ Extends(Stream, received)
    BY <1>3, StreamIs DEF IInv
  <2>2. RequestFits(received, j, q)
    BY DEF q, out
  <2>3. Verdict(Stream) = "done" /\ Stream[1] = q.line
    BY <1>4, <2>1, <2>2, RequestKnown
  <2>4. Stream' = Stream
    BY <1>2 DEF Stream
  <2> QED
    BY <2>3, <2>4
<1>10. request' = q
  BY <1>8 DEF OnRequest
<1>11. pc' # "parse" => ParsedInv'
  <2> SUFFICES ASSUME pc' # "parse" PROVE ParsedInv'
    OBVIOUS
  <2>1. RequestFits(received, j, q)
    BY DEF q, out
  <2>2. RequestFits(received', Taken', request')
    BY <1>2, <1>6, <1>10, <2>1
  <2>3. Taken' \in Nat /\ readBuf' = Rest(received', Taken')
    BY <1>2, <1>4, <1>6
  <2> QED
    BY <1>1, <2>2, <2>3 DEF ParsedInv
<1>12. /\ Validate(q) \in Statuses \cup {"abort", "ok"}
       /\ Validate(q) = "abort" => q.line.version = "2.0" \/ q.line.path = "empty"
  BY ValidateIs
<1>13. CASE Validate(q) = "abort"
  <2>1. /\ aborted' = TRUE /\ pc' = "ended"
        /\ UNCHANGED <<answers, unsent, writing, closeOnWritten>>
    BY <1>8, <1>13 DEF OnRequest, Abort
  <2>2. TypeInv'
    BY <1>2, <1>5, <2>1 DEF IInv, TypeInv
  <2>3. AnswersInv'
    BY <1>1, <2>1 DEF AnswersInv
  <2>4. CloseInv'
    BY <1>1, <1>2, <2>1 DEF IInv, CloseInv
  <2>5. ~Proper(Stream)
    BY <1>9, <1>12, <1>13 DEF Proper
  <2>6. ProperRequestsSurvived'
    BY <1>9, <2>5 DEF ProperRequestsSurvived
  <2> QED
    BY <1>11, <2>1, <2>2, <2>3, <2>4, <2>6 DEF IInv
<1>14. CASE Validate(q) = "ok"
  <2>1. /\ pc' = "check"
        /\ UNCHANGED <<aborted, answers, unsent, writing, closeOnWritten>>
    BY <1>8, <1>14 DEF OnRequest
  <2>2. TypeInv'
    BY <1>2, <1>5, <2>1 DEF IInv, TypeInv
  <2>3. AnswersInv'
    BY <1>1, <1>2, <2>1 DEF AnswersInv
  <2>4. CloseInv'
    BY <1>1, <1>2, <2>1 DEF IInv, CloseInv
  <2>5. ProperRequestsSurvived'
    BY <1>1, <2>1 DEF ProperRequestsSurvived
  <2> QED
    BY <1>11, <2>1, <2>2, <2>3, <2>4, <2>5 DEF IInv
<1>15. CASE Validate(q) \notin {"abort", "ok"}
  <2>1. WriteResponseAndClose(Validate(q), FALSE) /\ UNCHANGED aborted
    BY <1>8, <1>15 DEF OnRequest
  <2>2. /\ TypeInv' /\ CloseInv' /\ ProperRequestsSurvived'
        /\ Len(answers') = Len(answers) + 1 /\ pc' = "functors"
    <3>1. Validate(q) \in Statuses /\ FALSE \in BOOLEAN
      BY <1>12, <1>15
    <3> QED
      BY <1>1, <1>2, <1>5, <2>1, <3>1, AnswerGiven
  <2>3. Len(answers') = 1
    BY <2>2
  <2>4. AnswersInv'
    BY <1>1, <2>2, <2>3 DEF AnswersInv
  <2> QED
    BY <1>11, <2>2, <2>4 DEF IInv
<1> QED
  BY <1>13, <1>14, <1>15

\* The round ends before the request is complete.
LEMMA RoundUnfinished ==
    ASSUME IInv, ParseRound, func(context, readBuf).parser.status # "kParsingDone"
    PROVE  IInv'
<1> DEFINE out == func(context, readBuf)
<1>1. pc = "parse" /\ ~aborted /\ destroy # "done" /\ context # None
  BY DEF ParseRound, IInv, CloseInv, ParsedInv
<1>2. UNCHANGED <<sameLoop, toSend, fin, socket, files, revents, state, reading, chosen, destroy,
                  received, changes>>
  BY DEF ParseRound, client
<1>3. Taken \in 0 .. Len(received) /\ Len(received) \in Nat /\ received \in Seq(Symbols)
      /\ readBuf = Rest(received, Taken) /\ readBuf \in Seq(Symbols)
  BY TakenIs DEF IInv, TypeInv
<1>4. ParserFits(received, Taken, context) /\ request = None
  BY <1>1 DEF IInv, ParsedInv
<1>5. Steps(received, Taken, context, out)
  BY <1>3, <1>4, FuncSteps
<1>6. /\ readBuf' = out.buf /\ context' = out.parser /\ request' = request
  BY DEF ParseRound
<1>7. \/ out.res = "kParseError" /\ WriteResponseAndClose("400", FALSE) /\ UNCHANGED aborted
      \/ /\ out.res = "abort" /\ Abort
         /\ UNCHANGED <<answers, unsent, writing, closeOnWritten>>
      \/ /\ out.res \in {"kParseOK", "kParseNeedMore"}
         /\ pc' = (IF out.res = "kParseOK" THEN "parse" ELSE "functors")
         /\ UNCHANGED <<aborted, answers, unsent, writing, closeOnWritten>>
  BY DEF ParseRound
<1>8. answers # << >> => out.res = "kParseError"
  BY <1>1 DEF IInv, AnswersInv
<1>9. \A k \in DOMAIN answers : answers[k] = "400"
  BY <1>1 DEF IInv, AnswersInv
<1>10. out.parser.status # "kParsingDone"
  OBVIOUS
<1>11. ASSUME out.res # "kParseOK"
       PROVE  /\ readBuf' = readBuf /\ context' = context
              /\ func(context', readBuf') = out
              /\ ParsedInv'
  <2>1. out.parser = context /\ out.buf = readBuf
    BY <1>3, <1>5, <1>11 DEF Steps
  <2>2. readBuf' = readBuf /\ context' = context
    BY <1>6, <2>1
  <2>3. pc' = "parse" => context # None
    BY <1>1
  <2>4. ParsedInv'
    BY <1>2, <1>6, <2>2, <2>3, NothingParsed
  <2> QED
    BY <2>2, <2>4
<1>12. CASE out.res = "kParseError"
  <2> HIDE DEF out
  <2>1. WriteResponseAndClose("400", FALSE) /\ UNCHANGED aborted
    BY <1>7, <1>12
  <2>2. readBuf' \in Seq(Symbols) /\ context' # None
    BY <1>1, <1>3, <1>11, <1>12
  <2>3. /\ TypeInv' /\ CloseInv' /\ ProperRequestsSurvived'
        /\ answers' # << >> /\ pc' = "functors"
        /\ answers \in Seq(Statuses) /\ answers' = Append(answers, "400")
    <3>1. "400" \in Statuses /\ FALSE \in BOOLEAN
      BY DEF Statuses
    <3> QED
      BY <1>1, <1>2, <2>1, <2>2, <3>1, AnswerGiven
  <2>4. \A k \in DOMAIN answers' : answers'[k] = "400"
    <3>1. ASSUME NEW k \in 1 .. Len(answers) + 1 PROVE Append(answers, "400")[k] = "400"
      <4>1. k <= Len(answers) => k \in DOMAIN answers
        BY <2>3
      <4> QED
        BY <1>9, <2>3, <4>1
    <3>2. DOMAIN answers' = 1 .. Len(answers) + 1
      BY <2>3
    <3> QED
      BY <2>3, <3>1, <3>2
  <2>5. func(context', readBuf').res = "kParseError"
    BY <1>11, <1>12
  <2>6. AnswersInv'
    BY <2>2, <2>3, <2>4, <2>5 DEF AnswersInv
  <2> QED
    BY <1>11, <1>12, <2>3, <2>6 DEF IInv
<1>13. CASE out.res = "abort"
  <2>1. aborted' = TRUE /\ pc' = "ended" /\ UNCHANGED <<answers, unsent, writing, closeOnWritten>>
    BY <1>7, <1>13 DEF Abort
  <2>2. context.status = "kParsingRequestBody" /\ context.length = 0
    BY <1>5, <1>13 DEF Steps
  <2> HIDE DEF out
  <2>3. readBuf' = readBuf /\ context' = context /\ ParsedInv'
    BY <1>11, <1>13
  <2>4. TypeInv'
    BY <1>2, <2>1, <2>3 DEF IInv, TypeInv
  <2>5. AnswersInv'
    BY <1>1, <1>9, <2>1, <2>3 DEF AnswersInv
  <2>6. CloseInv'
    BY <1>1, <1>2, <2>1, <2>3 DEF IInv, CloseInv
  <2>7. Verdict(Stream) = "done" /\ 0 \in Values(Stream, "content-length")
    <3>1. Stream \in Seq(Symbols) /\ Extends(Stream, received)
      BY StreamIs DEF IInv
    <3> QED
      BY <1>3, <1>4, <2>2, <3>1, EmptyBodyVerdict
  <2>8. Stream' = Stream
    BY <1>2 DEF Stream
  <2>9. ProperRequestsSurvived'
    BY <2>7, <2>8 DEF ProperRequestsSurvived, Proper
  <2> QED
    BY <2>3, <2>4, <2>5, <2>6, <2>9 DEF IInv
<1>14. CASE out.res \in {"kParseOK", "kParseNeedMore"}
  <2>1. /\ pc' = (IF out.res = "kParseOK" THEN "parse" ELSE "functors")
        /\ UNCHANGED <<aborted, answers, unsent, writing, closeOnWritten>>
    BY <1>7, <1>14
  <2>2. answers = << >> /\ pc' \in {"parse", "functors"}
    BY <1>8, <1>14, <2>1
  <2>3. state # "kDisconnected"
    BY <1>1, <2>2 DEF IInv, CloseInv
  <2>4. PICK j \in Taken .. Len(received) :
           readBuf' = Rest(received, j) /\ ParserFits(received, j, context')
    <3>1. CASE out.res = "kParseOK"
      BY <1>5, <1>6, <1>10, <3>1 DEF Steps
    <3>2. CASE out.res # "kParseOK"
      <4>1. Taken \in Taken .. Len(received)
        BY <1>3
      <4> QED
        BY <1>3, <1>4, <1>11, <3>2, <4>1
    <3> QED
      BY <3>1, <3>2
  <2>5. j \in 0 .. Len(received) /\ j \in Nat
    BY <1>3
  <2>6. readBuf' \in Seq(Symbols) /\ Len(readBuf') = Len(received) - j
    BY <1>3, <2>4, <2>5, RestIs
  <2>7. Taken' = j
    <3>1. Taken' = Len(received) - Len(readBuf')
      BY <1>2 DEF Taken
    <3> QED
      BY <1>3, <2>5, <2>6, <3>1
  <2>8. context' # None
    BY <2>4, ParserHasNone DEF ParserFits
  <2>9. TypeInv'
    BY <1>2, <2>1, <2>2, <2>6 DEF IInv, TypeInv
  <2>10. ParsedInv'
    BY <1>2, <1>4, <1>6, <2>4, <2>5, <2>7, <2>8 DEF ParsedInv
  <2>11. AnswersInv'
    <3>1. pc' = "functors" => func(context', readBuf').res = "kParseNeedMore"
      <4>1. pc' = "functors" => out.res = "kParseNeedMore"
        BY <1>14, <2>1
      <4> QED
        BY <1>11, <4>1
    <3> HIDE DEF out
    <3> QED
      BY <1>9, <2>1, <2>2, <2>8, <3>1 DEF AnswersInv
  <2>12. CloseInv'
    BY <1>1, <1>2, <2>1, <2>2, <2>3, <2>8 DEF IInv, CloseInv
  <2>13. ProperRequestsSurvived'
    BY <1>1, <2>1 DEF ProperRequestsSurvived
  <2> QED
    BY <2>9, <2>10, <2>11, <2>12, <2>13 DEF IInv
<1> QED
  <2> HIDE DEF out
  <2> QED
    BY <1>7, <1>12, <1>13, <1>14

LEMMA ParseRoundKeeps == IInv /\ ParseRound => IInv'
<1> SUFFICES ASSUME IInv, ParseRound PROVE IInv'
  OBVIOUS
<1> DEFINE out == func(context, readBuf)
<1>1. pc = "parse" /\ context # None
  BY DEF ParseRound, IInv, ParsedInv
<1>2. ParserFits(received, Taken, context)
  BY <1>1 DEF IInv, ParsedInv
<1>3. Taken \in 0 .. Len(received) /\ received \in Seq(Symbols) /\ readBuf = Rest(received, Taken)
  BY TakenIs DEF IInv, TypeInv
<1>4. Steps(received, Taken, context, out)
  BY <1>2, <1>3, FuncSteps
<1>5. CASE out.parser.status = "kParsingDone"
  <2>1. context.status # "kParsingDone"
    BY <1>2 DEF ParserFits
  <2>2. out.res = "kParseOK"
    BY <1>4, <1>5, <2>1 DEF Steps
  <2>3. PICK j \in Taken .. Len(received) :
           out.buf = Rest(received, j) /\ RequestFits(received, j, out.parser)
    <3>1. \A j \in Nat : ~ParserFits(received, j, out.parser)
      BY <1>5 DEF ParserFits
    <3>2. \A j \in Taken .. Len(received) : j \in Nat
      BY <1>3
    <3> QED
      BY <1>4, <2>2, <3>1, <3>2 DEF Steps
  <2>4. readBuf' = Rest(received, j)
    BY <2>3 DEF ParseRound
  <2>5. answers = << >>
    BY <1>1, <2>2 DEF IInv, AnswersInv
  <2>6. state = "kConnected"
    BY <1>1, <2>5 DEF IInv, CloseInv, TypeInv
  <2> QED
    BY <1>5, <2>3, <2>4, <2>5, <2>6, RequestTaken
<1>6. CASE out.parser.status # "kParsingDone"
  BY <1>6, RoundUnfinished
<1> QED
  BY <1>5, <1>6

LEMMA CheckFileKeeps == IInv /\ CheckFile => IInv'
<1> SUFFICES ASSUME IInv, CheckFile PROVE IInv'
  OBVIOUS
<1>1. /\ pc = "check" /\ ~aborted /\ destroy # "done" /\ context = None
      /\ state = "kConnected" /\ Len(answers) = 0
  BY DEF CheckFile, IInv, CloseInv, AnswersInv
<1>2. UNCHANGED <<sameLoop, toSend, fin, socket, files, revents, state, reading, readBuf,
                  context, request, destroy, aborted, received, changes>>
  BY DEF CheckFile, client
<1> DEFINE found == {k \in DOMAIN Candidates(request) : files[Candidates(request)[k]] # "absent"}
<1> DEFINE file == Candidates(request)[Min(found)]
<1> DEFINE status == IF found = {} THEN "404"
                     ELSE IF files[file] = "forbidden" THEN "403"
                     ELSE IF files[file] = "directory" THEN "400" ELSE "500"
<1>3. \/ /\ files[file] \in {"empty", "small", "large"} /\ chosen' = file /\ pc' = "load"
         /\ UNCHANGED <<answers, unsent, writing, closeOnWritten>>
      \/ WriteResponseAndClose(status, FALSE)
  BY DEF CheckFile
<1>4. status \in Statuses
  BY DEF Statuses
<1> HIDE DEF found, file, status
<1>5. CASE WriteResponseAndClose(status, FALSE)
  <2>1. readBuf' \in Seq(Symbols) /\ FALSE \in BOOLEAN
    BY <1>2 DEF IInv, TypeInv
  <2>2. /\ TypeInv' /\ CloseInv' /\ ProperRequestsSurvived'
        /\ Len(answers') = Len(answers) + 1 /\ pc' = "functors"
    BY <1>1, <1>2, <1>4, <1>5, <2>1, AnswerGiven
  <2>3. Len(answers') = 1
    BY <1>1, <2>2
  <2>4. ParsedInv'
    BY <1>2, <2>2, NothingParsed
  <2>5. AnswersInv'
    BY <1>1, <1>2, <2>2, <2>3 DEF AnswersInv
  <2> QED
    BY <2>2, <2>4, <2>5 DEF IInv
<1>6. CASE /\ files[file] \in {"empty", "small", "large"} /\ chosen' = file /\ pc' = "load"
           /\ UNCHANGED <<answers, unsent, writing, closeOnWritten>>
  <2>1. TypeInv'
    BY <1>2, <1>6 DEF IInv, TypeInv
  <2>2. ParsedInv'
    BY <1>2, <1>6, NothingParsed
  <2>3. AnswersInv'
    BY <1>1, <1>2, <1>6 DEF AnswersInv
  <2>4. CloseInv'
    BY <1>1, <1>2, <1>6 DEF IInv, CloseInv
  <2>5. ProperRequestsSurvived'
    BY <1>1, <1>2 DEF ProperRequestsSurvived
  <2> QED
    BY <2>1, <2>2, <2>3, <2>4, <2>5 DEF IInv
<1> QED
  BY <1>3, <1>5, <1>6

LEMMA ReadFileKeeps == IInv /\ ReadFile => IInv'
<1> SUFFICES ASSUME IInv, ReadFile PROVE IInv'
  OBVIOUS
<1>1. /\ pc = "load" /\ ~aborted /\ destroy # "done" /\ context = None
      /\ state = "kConnected" /\ Len(answers) = 0
      /\ changes > 0 \/ files[chosen] \in {"empty", "small", "large"}
  BY DEF ReadFile, IInv, CloseInv, AnswersInv
<1>2. UNCHANGED <<sameLoop, toSend, fin, socket, files, revents, state, reading, readBuf,
                  context, request, chosen, destroy, received, changes>>
  BY DEF ReadFile, client
<1>3. CASE files[chosen] \notin {"empty", "small", "large"}
  <2>1. aborted' = TRUE /\ pc' = "ended" /\ UNCHANGED <<answers, unsent, writing, closeOnWritten>>
    BY <1>3 DEF ReadFile, Abort
  <2>2. TypeInv'
    BY <1>2, <2>1 DEF IInv, TypeInv
  <2>3. ParsedInv'
    BY <1>2, <2>1, NothingParsed
  <2>4. AnswersInv'
    BY <1>1, <1>2, <2>1 DEF AnswersInv
  <2>5. CloseInv'
    BY <1>1, <1>2, <2>1 DEF IInv, CloseInv
  <2>6. ProperRequestsSurvived'
    BY <1>1, <1>2, <1>3 DEF ProperRequestsSurvived
  <2> QED
    BY <2>2, <2>3, <2>4, <2>5, <2>6 DEF IInv
<1>4. CASE files[chosen] \in {"empty", "small", "large"}
  <2>1. PICK opened \in BOOLEAN :
           WriteResponseAndClose("200", opened /\ files[chosen] = "small")
    BY <1>4 DEF ReadFile
  <2>2. aborted' = aborted
    BY <1>4 DEF ReadFile
  <2> DEFINE body == opened /\ files[chosen] = "small"
  <2>3. "200" \in Statuses /\ body \in BOOLEAN
    BY DEF Statuses
  <2>4. WriteResponseAndClose("200", body)
    BY <2>1
  <2> HIDE DEF body
  <2>5. readBuf' \in Seq(Symbols)
    BY <1>2 DEF IInv, TypeInv
  <2>6. /\ TypeInv' /\ CloseInv' /\ ProperRequestsSurvived'
        /\ Len(answers') = Len(answers) + 1 /\ pc' = "functors"
    BY <1>1, <1>2, <2>2, <2>3, <2>4, <2>5, AnswerGiven
  <2>7. Len(answers') = 1
    BY <1>1, <2>6
  <2>8. ParsedInv'
    BY <1>2, <2>6, NothingParsed
  <2>9. AnswersInv'
    BY <1>1, <1>2, <2>6, <2>7 DEF AnswersInv
  <2> QED
    BY <2>6, <2>8, <2>9 DEF IInv
<1> QED
  BY <1>3, <1>4

LEMMA NextIInv == IInv /\ [Next]_vars => IInv'
<1> SUFFICES ASSUME IInv, [Next]_vars PROVE IInv'
  OBVIOUS
<1>1. CASE ClientSends
  BY <1>1, ClientSendsKeeps
<1>2. CASE ClientEnds
  BY <1>2, ClientEndsKeeps
<1>3. CASE FileChanges
  BY <1>3, FileChangesKeeps
<1>4. CASE HandleConnectionClose
  BY <1>4, HandleConnectionCloseKeeps
<1>5. CASE \E room \in BOOLEAN : Poll(room)
  BY <1>5, PollKeeps
<1>6. CASE WriteSome
  BY <1>6, WriteSomeKeeps
<1>7. CASE WriteAll
  BY <1>7, WriteAllKeeps
<1>8. CASE ReadEnd
  BY <1>8, ReadEndKeeps
<1>9. CASE ReadMessage
  BY <1>9, ReadMessageKeeps
<1>10. CASE ParseRound
  BY <1>10, ParseRoundKeeps
<1>11. CASE CheckFile
  BY <1>11, CheckFileKeeps
<1>12. CASE ReadFile
  BY <1>12, ReadFileKeeps
<1>13. CASE Functors
  BY <1>13, FunctorsKeeps
<1>15. CASE ReadCutFile
  BY <1>15, ReadCutFileKeeps
<1>14. CASE UNCHANGED vars
  <2>1. UNCHANGED <<sameLoop, toSend, fin, socket, files, pc, revents, state, reading, writing,
                    readBuf, unsent, context, request, chosen, closeOnWritten, destroy, aborted,
                    received, answers, changes>>
    BY <1>14 DEF vars, client, channel
  <2>2. ParsedInv'
    BY <2>1, NothingParsed DEF IInv, ParsedInv
  <2>3. AnswersInv'
    BY <2>1 DEF IInv, AnswersInv
  <2>4. TypeInv'
    BY <2>1 DEF IInv, TypeInv
  <2>5. CloseInv'
    BY <2>1 DEF IInv, CloseInv
  <2>6. ProperRequestsSurvived'
    BY <2>1, StillSurvived
  <2> QED
    BY <2>2, <2>3, <2>4, <2>5, <2>6 DEF IInv
<1> QED
  BY <1>1, <1>2, <1>3, <1>4, <1>5, <1>6, <1>7, <1>8, <1>9, <1>10, <1>11, <1>12, <1>13, <1>14,
     <1>15 DEF Next, Handlers

\* The parser, the answers and the removal agree with what has arrived in every
\* state: OnMessage, WriteResponseAndClose and the callbacks, in whatever pieces
\* the stream comes and wherever the client ends it (http_codec.cc, http_server.cc).
THEOREM Safety == Spec => []IInv
<1>1. Init => IInv
  BY InitIInv
<1>2. IInv /\ [Next]_vars => IInv'
  BY NextIInv
<1> QED
  BY <1>1, <1>2, PTL DEF Spec

-----------------------------------------------------------------------------
(* The properties *)

LEMMA FitsNow == IInv => AnswersFitInput
<1> SUFFICES ASSUME IInv, pc = "poll" PROVE AnswersFitInput
  BY DEF AnswersFitInput
<1>1. ~aborted /\ received \in Seq(Symbols) /\ answers \in Seq(Statuses)
  BY DEF IInv, CloseInv, TypeInv
<1>2. Taken \in 0 .. Len(received) /\ Len(received) \in Nat /\ readBuf = Rest(received, Taken)
  BY TakenIs DEF IInv
<1>3. CASE context # None
  <2>1. ParserFits(received, Taken, context) /\ request = None
    BY <1>3 DEF IInv, ParsedInv
  <2> DEFINE out == func(context, readBuf)
  <2>2. Steps(received, Taken, context, out)
    BY <1>1, <1>2, <2>1, FuncSteps
  <2>3. out.res = IF answers = << >> THEN "kParseNeedMore" ELSE "kParseError"
    BY <1>1, <1>3 DEF IInv, AnswersInv
  <2>4. CASE answers = << >>
    <3>1. Verdict(received) = "more"
      BY <2>2, <2>3, <2>4 DEF Steps
    <3> QED
      BY <2>1, <2>4, <3>1 DEF AnswersFitInput
  <2>5. CASE answers # << >>
    <3>1. Verdict(received) = "error"
      BY <2>2, <2>3, <2>5 DEF Steps
    <3>2. \A k \in DOMAIN answers : answers[k] = "400"
      BY <1>3 DEF IInv, AnswersInv
    <3>3. 1 \in DOMAIN answers
      BY <1>1, <2>5
    <3>4. {answers[k] : k \in DOMAIN answers} = {"400"}
      BY <3>2, <3>3
    <3> QED
      BY <2>1, <2>5, <3>1, <3>4 DEF AnswersFitInput
  <2> QED
    BY <2>4, <2>5
<1>4. CASE context = None
  <2> DEFINE q == request
  <2> DEFINE b == Taken - 1 - Len(q.body)
  <2>1. RequestFits(received, Taken, q)
    BY <1>4 DEF IInv, ParsedInv
  <2>2. Verdict(received) = "done" /\ RequestLength(received) = Taken
    <3>1. Taken \in Nat
      BY <1>2
    <3> QED
      BY <1>1, <2>1, <3>1, RequestVerdict, RequestLengthIs
  <2>3. Len(answers) = 1
    BY <1>1, <1>4 DEF IInv, AnswersInv
  <2>4. /\ BlankAt(received, b) /\ HeadFits(received, b, q) /\ q.body \in Seq(Symbols)
        /\ q.body = SubSeq(received, b + 2, Taken)
        /\ IF "content-length" \in DOMAIN q.headers
           THEN q.headers["content-length"] = Len(q.body) ELSE TRUE
    BY <2>1 DEF RequestFits
  <2>5. b + 2 = Taken - Len(q.body) + 1
    <3>1. Len(q.body) \in Nat /\ Taken \in Nat
      BY <1>2, <2>4
    <3> QED
      BY <3>1
  <2> HIDE DEF b
  <2>6. q.line = received[1]
    BY <2>4 DEF HeadFits
  <2>7. \A key \in Keys :
           Values(received, key) = IF key \in DOMAIN q.headers THEN {q.headers[key]} ELSE {}
    BY <1>1, <2>4, HeadIs
  <2>8. Values(received, "content-length") \subseteq {Len(q.body)}
    BY <2>4, <2>7 DEF Keys
  <2> QED
    BY <2>2, <2>3, <2>4, <2>5, <2>6, <2>7, <2>8 DEF AnswersFitInput, Keys
<1> QED
  BY <1>3, <1>4

\* Whenever the loop waits, exactly one answer stands for a complete request and it
\* is the request's that the bytes say; a stream in error has 400 only; and nothing
\* is answered while more is needed: OnMessage's loop over state->func, fed with
\* reads of any size (http_codec.cc:86).
THEOREM AnswersFit == Spec => []AnswersFitInput
BY Safety, FitsNow, PTL

LEMMA WrittenNow == IInv => AnswerWritten
<1> SUFFICES ASSUME IInv, destroy = "done", ~fin, Verdict(received) = "done"
             PROVE  Len(answers) = 1 /\ unsent = 0
  BY DEF AnswerWritten
<1>1. pc = "ended" /\ ~aborted /\ state = "kDisconnected"
  BY DEF IInv, CloseInv, TypeInv
<1>2. context = None
  <2> SUFFICES ASSUME context # None PROVE FALSE
    OBVIOUS
  <2>1. ParserFits(received, Taken, context)
    BY DEF IInv, ParsedInv
  <2>2. Taken \in 0 .. Len(received) /\ readBuf = Rest(received, Taken)
    BY TakenIs DEF IInv
  <2>3. received \in Seq(Symbols)
    BY DEF IInv, TypeInv
  <2>4. Steps(received, Taken, context, func(context, readBuf))
    BY <2>1, <2>2, <2>3, FuncSteps
  <2>5. func(context, readBuf).res \in {"kParseNeedMore", "kParseError"}
    BY <1>1 DEF IInv, AnswersInv
  <2>6. Verdict(received) \in {"more", "error"}
    BY <2>4, <2>5 DEF Steps
  <2> QED
    BY <2>6
<1>3. Len(answers) = 1
  BY <1>1, <1>2 DEF IInv, AnswersInv
<1>4. ~writing
  BY <1>1, <1>2 DEF IInv, CloseInv
<1>5. unsent = 0
  BY <1>4 DEF IInv, CloseInv
<1> QED
  BY <1>3, <1>5

\* Unless the client has ended its stream, a connection whose request is complete
\* is destroyed only with the whole answer in the socket: WriteResponseDone closes
\* in the write-done callback (http_server.cc:121).
THEOREM AnswersWritten == Spec => []AnswerWritten
BY Safety, WrittenNow, PTL

\* One proper request is served without an assertion or an exception, unless a
\* file changes meanwhile, and so is a request in error on the base loop: what the
\* modules assert and OnMessage throws depends on the stream alone.
THEOREM RequestsSurvive == Spec => []ProperRequestsSurvived
<1>1. IInv => ProperRequestsSurvived
  BY DEF IInv
<1> QED
  BY <1>1, Safety, PTL
=============================================================================
