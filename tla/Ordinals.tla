-------------------------------- MODULE Ordinals --------------------------------
(* The ordinals that keep the elements of a list in order: strings compared        *)
(* lexicographically, here sequences of character indexes. The recursion of        *)
(* findOrdinalBetween makes this a module for TLC only.                            *)
EXTENDS Naturals, Sequences, SequencesExt

Base == 36                                    \* the characters 0-9 and a-z, as digits
LastCharacter == Base                         \* '¤', never part of an ordinal
NoOrdinal == <<>>                             \* undefined, or an error was thrown

Precedes(a, b) ==
    \E n \in 0..Len(a) :
        /\ n <= Len(b)
        /\ \A i \in 1..n : a[i] = b[i]
        /\ \/ n = Len(a) /\ n < Len(b)
           \/ n < Len(a) /\ n < Len(b) /\ a[n + 1] < b[n + 1]

PadEnd(s, n, character) == [i \in 1..(IF Len(s) < n THEN n ELSE Len(s)) |->
                              IF i <= Len(s) THEN s[i] ELSE character]

FindMiddleCharacterBetween(a, b) == (a + b) \div 2

\* Character by character, until the ordinal falls strictly between the two; a middle
\* character equal to that of ordinalA sends the search one character further.
RECURSIVE FindOrdinalBetween(_, _)
FindOrdinalBetween(ordinalA, ordinalB) ==
    LET longest == 1 + (CHOOSE n \in {Len(ordinalA), Len(ordinalB)} : n >= Len(ordinalA) /\ n >= Len(ordinalB))
        A == PadEnd(ordinalA, longest, 0)
        B == PadEnd(ordinalB, longest, LastCharacter)
        Found(o) == Precedes(A, o) /\ Precedes(o, B)
        Further(o, i) ==
            LET middle == FindMiddleCharacterBetween(A[i], B[i])
                next == IF middle = A[i] THEN FindOrdinalBetween(A, PadEnd(Append(o, middle), longest, LastCharacter))
                                         ELSE Append(o, middle)
            IN IF next = A THEN Append(next, FindMiddleCharacterBetween(0, LastCharacter)) ELSE next
        step[i \in 0..longest] ==
            IF i = 0 THEN <<>>
            ELSE LET so_far == step[i - 1]
                 IN IF Found(so_far) THEN so_far
                    ELSE IF A[i] = B[i] THEN Append(so_far, A[i])
                    ELSE Further(so_far, i)
        ordinal == step[longest]
    IN IF Precedes(ordinalA, ordinalB) /\ Found(ordinal) THEN ordinal ELSE NoOrdinal

-----------------------------------------------------------------------------
\* Base-36 numbers, as sequences of digits.

WithoutLeadingZeros(o) ==
    LET zeros == CHOOSE n \in 0..Len(o) : /\ \A i \in 1..n : o[i] = 0
                                          /\ n < Len(o) => o[n + 1] # 0
    IN SubSeq(o, zeros + 1, Len(o))

PlusOne(n) ==
    LET digits == IF \A i \in DOMAIN n : n[i] = Base - 1 THEN <<0>> \o n ELSE n
        last == CHOOSE i \in DOMAIN digits : digits[i] # Base - 1 /\ \A j \in DOMAIN digits : j > i => digits[j] = Base - 1
    IN [i \in DOMAIN digits |-> IF i < last THEN digits[i] ELSE IF i = last THEN digits[i] + 1 ELSE 0]

\* Numbers are doubles, exact below 2^53, and toString(36) writes zeros for the digits
\* it cannot represent: what is left are the digits whose number is below 2^53 (give
\* or take one in the last of them, the rounding that the model leaves out).
MaxExact == <<2, 16, 24, 28, 10, 7, 25, 10, 2, 16, 32>>       \* 2^53
AsDouble(n) ==
    LET Exact(k) == k < Len(MaxExact) \/ (k = Len(MaxExact) /\ Precedes(SubSeq(n, 1, k), MaxExact))
        kept == CHOOSE k \in 0..Len(n) : Exact(k) /\ (k < Len(n) => ~Exact(k + 1))
    IN [i \in DOMAIN n |-> IF i <= kept THEN n[i] ELSE 0]

\* The ordinals whose successor, as a number, is exact.
IsExact(o) == LET next == PlusOne(WithoutLeadingZeros(o)) IN AsDouble(next) = next

FindNextLastOrdinal(o) ==
    LET next == AsDouble(PlusOne(WithoutLeadingZeros(o)))
    IN IF Len(o) < 4 \/ Len(next) > Len(o) THEN Append(o, 1) ELSE next

\* The ordinal of an element added to a list, given the ordinals in use.
GetNextHighestOrdinal(ordinals) ==
    IF ordinals = {} THEN <<1>>
    ELSE FindNextLastOrdinal(CHOOSE o \in ordinals : \A p \in ordinals : p = o \/ Precedes(p, o))

\* A mutant: the element itself is left among those it is placed between.
FindNewOrdinalInPlace(id, ordered, position) ==
    LET newOrdinal == IF Len(ordered) < position - 1 THEN Len(ordered) - 1 ELSE position - 1
        before == IF newOrdinal = 0 THEN <<0>> ELSE ordered[newOrdinal].ordinal
        after == IF newOrdinal < Len(ordered) THEN ordered[newOrdinal + 1].ordinal
                 ELSE GetNextHighestOrdinal({ordered[i].ordinal : i \in DOMAIN ordered})
    IN IF newOrdinal < Len(ordered) /\ ordered[newOrdinal + 1].id = id THEN NoOrdinal
       ELSE FindOrdinalBetween(before, after)

\* Where the element takes place `position` (from 1) among the ordered elements, the
\* ordinal it gets: NoOrdinal when it stays where it is or when an error is thrown.
FindNewOrdinal(id, ordered, position) ==
    LET newOrdinal == IF Len(ordered) < position - 1 THEN Len(ordered) - 1 ELSE position - 1
        isBefore == \E i \in 1..newOrdinal : i <= Len(ordered) /\ ordered[i].id = id
        others == IF isBefore THEN SelectSeq(ordered, LAMBDA e : e.id # id) ELSE ordered
        before == IF newOrdinal = 0 THEN <<0>> ELSE others[newOrdinal].ordinal
        after == IF newOrdinal < Len(others) THEN others[newOrdinal + 1].ordinal
                 ELSE GetNextHighestOrdinal({others[i].ordinal : i \in DOMAIN others})
        precedent == IF newOrdinal = 0 THEN 1 ELSE newOrdinal
        ordinal == FindOrdinalBetween(before, after)
    IN CASE newOrdinal < Len(ordered) /\ ordered[newOrdinal + 1].id = id -> NoOrdinal
         [] newOrdinal > Len(others) -> NoOrdinal        \* the precedent element is undefined
         [] precedent <= Len(others) /\ others[precedent].ordinal = ordinal -> NoOrdinal
         [] OTHER -> ordinal
=============================================================================
