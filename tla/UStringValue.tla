---------------------------- MODULE UStringValue ----------------------------
(***************************************************************************)
(* What the mutating half of UString promises a Ruby program: a string is  *)
(* a text, and an operation puts together texts the strings had before it. *)
(* No block, capacity or sentinel shows.                                   *)
(***************************************************************************)
EXTENDS CodeUnits

CONSTANTS
    Strings,        \* variables of the Ruby program that hold a UString
    Sources,        \* texts that converters, literals and formatters produce
    Forms(_),       \* results a case mapping or normalisation may have
    MaxLen          \* bound: code units in a string

VARIABLE value      \* the text of each string

Texts == {x \in Seq(Units) : Len(x) <= MaxLen}

\* x with del units after the first start replaced by y.
Spliced(x, start, del, y) ==
    [i \in 1 .. Len(x) - del + Len(y) |->
        IF i <= start THEN x[i]
        ELSE IF i <= start + Len(y) THEN y[i - start]
        ELSE x[i - Len(y) + del]]

Repeated(x, n) == [i \in 1 .. n * Len(x) |-> x[((i - 1) % Len(x)) + 1]]

Init == value = [s \in Strings |-> << >>]

\* String s comes to hold one of the texts X, and no other string changes.
Becomes(s, X) ==
    LET new == value' IN
    \A r \in Strings : IF r = s THEN new[r] \in X ELSE new[r] = value[r]

\* A new string in d, from outside.
Create(d) == Becomes(d, Sources)

\* dup, replace, initialize_copy.
Copy(d, s) == Becomes(d, {value[s]})

Clear(s) == Becomes(s, {<< >>})

\* d = s + r, which is r spliced in after s, and d = s * n.
Join(d, s, r) == Becomes(d, {Spliced(value[s], Len(value[s]), 0, value[r])})

Repeat(d, s) == Becomes(d, {Repeated(value[s], n) : n \in 0 .. MaxLen})

\* The ranges of a text, as an index and a length.
Ranges(x) == {g \in (0 .. Len(x)) \X (0 .. Len(x)) : g[1] + g[2] <= Len(x)}

\* insert, []=, <<: r, as it was, takes the place of a range of s.
Splice(s, r) ==
    Becomes(s, {Spliced(value[s], g[1], g[2], value[r]) : g \in Ranges(value[s])})

\* d = s[beg, len].
Cut(x, g) == [i \in 1 .. g[2] |-> x[g[1] + i]]

Slice(d, s) == Becomes(d, {Cut(value[s], g) : g \in Ranges(value[s])})

\* The range of d = s.slice!(beg, len) is the one s loses.
Extract(d, s) ==
    LET new == value' IN
    /\ d # s
    /\ \A r \in Strings \ {d, s} : new[r] = value[r]
    /\ \E g \in Ranges(value[s]) :
        /\ new[d] = Cut(value[s], g)
        /\ new[s] = Spliced(value[s], g[1], g[2], << >>)

\* lstrip!, rstrip!, strip!: the spaces at an end go, and nothing else.
Trim(s) ==
    LET x == value[s]
        Ends == {e \in Ranges(x) : /\ e[1] = 0 \/ LeadingSpaces(x, e[1])
                                   /\ e[2] = 0 \/ TrailingSpaces(x, e[2])}
    IN Becomes(s, {Cut(x, <<e[1], Len(x) - e[1] - e[2]>>) : e \in Ends})

\* upcase!, downcase!, normalize and its kin, foldcase.
Transform(d, s) == Becomes(d, Forms(value[s]))

Step ==
    \/ \E d, s \in Strings : Copy(d, s)
    \/ \E s, r \in Strings : Splice(s, r)
    \/ \E d, s \in Strings : Slice(d, s)
    \/ \E d, s \in Strings : Extract(d, s)
    \/ \E d, s \in Strings : Transform(d, s)
    \/ \E d, s \in Strings : Repeat(d, s)
    \/ \E d, s, r \in Strings : Join(d, s, r)
    \/ \E s \in Strings : Create(s) \/ Clear(s) \/ Trim(s)

Next == value' \in [Strings -> Texts] /\ Step

Spec == Init /\ [][Next]_value
=============================================================================
