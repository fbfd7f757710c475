------------------------------ MODULE SliceFind ------------------------------
(***************************************************************************)
(* fx::Slice::find: the Knuth-Morris-Pratt search for a C string, one round   *)
(* of a loop a step, for every text and pattern.  Indices count from 0 as in  *)
(* the code.                                                                *)
(***************************************************************************)
EXTENDS Integers, Sequences

CONSTANTS
    Char,           \* characters, without NUL
    Texts,          \* slices to search in
    Patterns,       \* C strings to search for
    npos            \* what find returns when it finds nothing

ASSUME TextsAssumption ==
    Texts \subseteq Seq(Char) /\ Patterns \subseteq Seq(Char) /\ npos \notin Nat

VARIABLES
    text, pattern,  \* the arguments
    loop,             \* the loop find is in
    next,           \* the KMP table
    pos, base,      \* of the loop that builds it
    m, i,           \* index in the text, index in the pattern
    result

args == <<text, pattern>>
findVars == <<args, loop, next, pos, base, m, i, result>>

Length == Len(text)
PatternLength == Len(pattern)
buf(k) == text[k + 1]
p(k) == pattern[k + 1]

FindInit ==
    /\ text \in Texts /\ pattern \in Patterns
    /\ loop = IF Length < PatternLength THEN "done" ELSE "table"
    /\ next = [k \in 0 .. PatternLength - 1 |-> 0]
    /\ pos = 2 /\ base = 0
    /\ m = 0 /\ i = 0
    /\ result = npos

\* Entry pos of the table is v, if it is assigned at all.
SetNext(v) ==
    /\ next' = [next EXCEPT ![pos] = v]
    /\ pos' = pos + 1
    /\ loop' = "table"

\* The next entry starts from the entry before it.
TableEntry ==
    /\ loop = "table" /\ pos < PatternLength
    /\ base' = next[pos - 1]
    /\ IF base' = 0
       THEN SetNext(IF p(pos) = p(0) THEN 1 ELSE 0)
       ELSE loop' = "fallback" /\ UNCHANGED <<next, pos>>
    /\ UNCHANGED <<args, m, i, result>>

\* When it falls back to 0, the first character is not compared again.
Fallback ==
    /\ loop = "fallback"
    /\ IF p(pos) = p(base)
       THEN SetNext(base + 1) /\ UNCHANGED base
       ELSE /\ base' = next[base - 1]
            /\ IF base' = 0 THEN SetNext(0) ELSE UNCHANGED <<loop, next, pos>>
    /\ UNCHANGED <<args, m, i, result>>

StartSearch ==
    /\ loop = "table" /\ pos >= PatternLength
    /\ loop' = "search"
    /\ UNCHANGED <<args, next, pos, base, m, i, result>>

MatchOne ==
    /\ loop = "search" /\ m + i < Length
    /\ i < PatternLength /\ buf(m + i) = p(i)
    /\ i' = i + 1
    /\ IF i' = PatternLength
       THEN loop' = "done" /\ result' = m
       ELSE UNCHANGED <<loop, result>>
    /\ UNCHANGED <<args, next, pos, base, m>>

ShiftByOne ==      \* mutant: the rest is not compared again
    m' = m + 1 /\ i' = IF i = 0 THEN 0 ELSE i - 1

ShiftTooFar ==      \* mutant: off by one
    IF i = 0 THEN m' = m + 1 /\ UNCHANGED i
    ELSE m' = m + i + 1 - next[i - 1] /\ i' = next[i - 1]

\* The pattern moves along the text; of an empty one p(0) is the NUL behind it.
Shift ==
    IF i = 0 THEN m' = m + 1 /\ UNCHANGED i
    ELSE m' = m + (i - next[i - 1]) /\ i' = next[i - 1]

Mismatch ==
    /\ loop = "search" /\ m + i < Length
    /\ i < PatternLength => buf(m + i) # p(i)
    /\ Shift
    /\ UNCHANGED <<args, loop, next, pos, base, result>>

\* The text is at its end: only an empty pattern is matched, there.
EndOfText ==
    /\ loop = "search" /\ m + i >= Length
    /\ loop' = "done"
    /\ result' = IF m + i = Length /\ i = PatternLength THEN m ELSE npos
    /\ UNCHANGED <<args, next, pos, base, m, i>>

FindNext ==
    \/ TableEntry \/ Fallback \/ StartSearch
    \/ MatchOne \/ Mismatch \/ EndOfText

FindSpec == FindInit /\ [][FindNext]_findVars

-----------------------------------------------------------------------------
(* InternalFind: the same search with an automaton. *)

\* Column idx of the automaton, with the state x to copy it from: entry c is
\* the state after character c.  A column is the copy of column x but for the
\* character that matches.
Column[idx \in 0 .. PatternLength - 1] ==
    IF idx = 0
    THEN [x |-> 0, to |-> [c \in Char |-> IF c = p(0) THEN 1 ELSE 0]]
    ELSE LET x == Column[idx - 1].x
             copied == Column[x].to
         IN  [x |-> copied[p(idx)], to |-> [copied EXCEPT ![p(idx)] = idx + 1]]

\* The state after the first idx characters, the full match absorbing.
StateAfter[idx \in 0 .. Length] ==
    IF idx = 0 THEN 0
    ELSE LET s == StateAfter[idx - 1] IN
         IF s = PatternLength THEN s ELSE Column[s].to[buf(idx - 1)]

Matched == {idx \in 0 .. Length : StateAfter[idx] = PatternLength}
FirstMatched == CHOOSE idx \in Matched : \A k \in Matched : idx <= k

InternalFindEnd == IF Matched = {} THEN npos ELSE FirstMatched      \* mutant
InternalFind == IF Matched = {} THEN npos ELSE FirstMatched - PatternLength

-----------------------------------------------------------------------------
(* Properties *)

\* The pattern occurs in the text at position k.
OccursAt(k) ==
    /\ k + PatternLength <= Length
    /\ \A j \in 0 .. PatternLength - 1 : buf(k + j) = p(j)

\* What std::string::find, with which the code compares itself, returns.
IsFirst(r) ==
    IF r = npos THEN \A k \in 0 .. Length : ~OccursAt(k)
    ELSE OccursAt(r) /\ \A k \in 0 .. r - 1 : ~OccursAt(k)

\* Where find says that the pattern is, it is, for all patterns, also those of
\* which find misses occurrences.
FoundIsOccurrence ==
    loop = "done" /\ result # npos => result \in Nat /\ OccursAt(result)

\* find returns the first occurrence, as its assertions (lines 152 and 157) say,
\* of any pattern whose first character does not occur in it again, such as the
\* CR LF the HTTP codec looks for; of other patterns it may miss some.
FindsFirst ==
    loop = "done" /\ PatternLength > 0
    /\ (\A k \in 1 .. PatternLength - 1 : p(k) # p(0))
        => IsFirst(result)

\* The automaton has no such exception.
InternalFindsFirst ==
    loop = "done" /\ PatternLength > 0 => IsFirst(InternalFind)
=============================================================================
