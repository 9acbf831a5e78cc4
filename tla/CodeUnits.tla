----------------------------- MODULE CodeUnits -----------------------------
(***************************************************************************)
(* UTF-16 code units as ustring.c sees them: the two ICU macros it adjusts *)
(* indices with (unicode/utf16.h), the comparison that stops at U+0000     *)
(* (u_strncmp), and runs of white space.  A block of memory is a function  *)
(* of 0-based indices, a text is a sequence.                               *)
(***************************************************************************)
EXTENDS Integers, Sequences, FiniteSets

CONSTANTS
    Units,      \* the code units that occur
    Leads,      \* lead surrogates
    Trails,     \* trail surrogates
    Spaces,     \* units u_isUWhiteSpace holds of
    Nul,        \* U+0000, which is also the sentinel
    Junk        \* what malloc left in a cell nobody has written

ASSUME UnitsAssumption ==
    /\ Leads \cup Trails \cup Spaces \subseteq Units
    /\ Leads \cap Trails = {} /\ Leads \cap Spaces = {} /\ Trails \cap Spaces = {}
    /\ Nul \in Units \ (Leads \cup Trails \cup Spaces)
    /\ Junk \notin Units

\* U16_SET_CP_START(p, 0, i): from the middle of a pair to its first half.
SetCpStart(p, i) == IF i > 0 /\ p[i] \in Trails /\ p[i - 1] \in Leads THEN i - 1 ELSE i

\* U16_SET_CP_LIMIT(p, 0, i, n): from the middle of a pair to its end.
SetCpLimit(p, i, n) ==
    IF 0 < i /\ i < n /\ p[i - 1] \in Leads /\ p[i] \in Trails THEN i + 1 ELSE i

\* u_strFindFirst takes n units at index i for an occurrence only if neither end
\* is in the middle of a pair.
OnBoundaries(p, i, n, limit) ==
    /\ ~(i > 0 /\ p[i - 1] \in Leads /\ p[i] \in Trails)
    /\ ~(i + n < limit /\ p[i + n - 1] \in Leads /\ p[i + n] \in Trails)

\* Every surrogate is half of a pair.
WellFormed(x) ==
    \A i \in 1 .. Len(x) :
        /\ x[i] \in Leads => i < Len(x) /\ x[i + 1] \in Trails
        /\ x[i] \in Trails => i > 1 /\ x[i - 1] \in Leads

\* u_strncmp(x, p, Len(x)) = 0: no unit differs before a U+0000 in both.
SameToNul(x, p) ==
    \A i \in 1 .. Len(x) :
        (\A j \in 1 .. i - 1 : x[j] = p[j - 1] /\ x[j] # Nul) => x[i] = p[i - 1]

\* x starts, or ends, with k spaces and no more.
LeadingSpaces(x, k) ==
    /\ \A i \in 1 .. k : x[i] \in Spaces
    /\ k < Len(x) => x[k + 1] \notin Spaces

TrailingSpaces(x, k) ==
    /\ \A i \in Len(x) - k + 1 .. Len(x) : x[i] \in Spaces
    /\ k < Len(x) => x[Len(x) - k] \notin Spaces

\* Units of the code point that starts, or ends, at position i of x.
WidthFrom(x, i) == IF x[i] \in Leads /\ i < Len(x) /\ x[i + 1] \in Trails THEN 2 ELSE 1

WidthUpTo(x, i) == IF x[i] \in Trails /\ i > 1 /\ x[i - 1] \in Leads THEN 2 ELSE 1

\* A set of indices as a sequence, the least first.
InOrder(S) ==
    LET at(k) == {i \in S : Cardinality({j \in S : j < i}) = k - 1}
    IN [k \in 1 .. Cardinality(S) |-> CHOOSE i \in at(k) : TRUE]
=============================================================================
