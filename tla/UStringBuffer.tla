---------------------------- MODULE UStringBuffer ----------------------------
(***************************************************************************)
(* How ustring.c stores a UString: an ICUString {len, capa, ptr} and the   *)
(* block ptr points at, with a U+0000 sentinel behind the last unit.  All  *)
(* in-place methods go through ustr_splice_units, which grows or shrinks   *)
(* the block by what capa says of it; the case mappings replace the block  *)
(* and leave capa as it was.                                               *)
(*                                                                         *)
(* The strings are neither frozen nor busy (UStringIteration has those),   *)
(* and each method is one step: none of them calls back into Ruby.  A      *)
(* store outside the block is undefined behaviour: the model does not      *)
(* follow a step that makes one (Fits), and StoresFit says which strings   *)
(* can come to that.                                                       *)
(***************************************************************************)
EXTENDS CodeUnits

CONSTANTS
    Strings,        \* variables of the Ruby program that hold a UString
    Sources,        \* texts that converters, literals and formatters produce
    Forms(_),       \* results a case mapping or normalisation may have
    MaxLen,         \* bound: code units in a string
    StartLen,       \* START_BUF_LEN: 16
    Slack,          \* spare units a block may keep: 1024
    Headroom        \* units icu_ustr_normalize first allows for: 20

Cells == Units \cup {Junk}

ASSUME SourcesAssumption == Sources \subseteq Seq(Units) /\ MaxLen \in Nat

\* A mapping makes units of units, and treats what it reads as units.
ASSUME FormsAssumption ==
    \A n \in 0 .. MaxLen, U \in {Units, Cells} : \A x \in [1 .. n -> U] :
        Forms(x) \subseteq Seq(U)

ASSUME BlockAssumption ==
    /\ StartLen \in Nat \ {0}
    /\ Slack \in Nat /\ Slack >= StartLen
    /\ Headroom \in Nat \ {0}

VARIABLES
    object,     \* per string: len, capa, units allocated, and the block itself
    recased     \* history: the block came from a case mapping, not from capa

vars == <<object, recased>>

-----------------------------------------------------------------------------
AtLeast(n, m) == IF n < m THEN m ELSE n

Text(o) == [i \in 1 .. o.len |-> o.cells[i - 1]]

\* The units from index beg on; cell o.len is the sentinel.
Slice(o, beg, len) == [i \in 1 .. len |-> o.cells[beg + i - 1]]

\* icu_ustr_alloc_and_wrap, ICU_SET: a block the caller has filled.
WrapSet(x, capa) ==
    [len |-> Len(x), capa |-> capa, alloc |-> capa,
     cells |-> [i \in 0 .. capa - 1 |->
        IF i < Len(x) THEN x[i + 1] ELSE IF i = Len(x) THEN Nul ELSE Junk]]

\* Mutant: a capacity that is no more than the length is not corrected.
Wrap_NoSentinelRoom(x, capa) == WrapSet(x, AtLeast(capa, StartLen))

\* icu_ustr_alloc_and_wrap, ICU_COPY.
Wrap(x, capa) ==
    WrapSet(x, IF AtLeast(capa, StartLen) <= Len(x) THEN Len(x) + 1
                                                    ELSE AtLeast(capa, StartLen))

\* ustr_capa_resize: realloc keeps what fits.
Reallocates(o, n) == o.capa < n \/ o.capa - n > Slack

\* Mutant: the block is reallocated and capa is left as it was.
CapaResize_StaleCapa(o, n) ==
    LET m == AtLeast(n, StartLen) IN
    IF Reallocates(o, n)
    THEN [len |-> o.len, capa |-> o.capa, alloc |-> m,
          cells |-> [i \in 0 .. m - 1 |-> IF i < o.alloc THEN o.cells[i] ELSE Junk]]
    ELSE o

CapaResize(o, n) ==
    LET m == AtLeast(n, StartLen) IN
    IF Reallocates(o, n)
    THEN [len |-> o.len, capa |-> m, alloc |-> m,
          cells |-> [i \in 0 .. m - 1 |-> IF i < o.alloc THEN o.cells[i] ELSE Junk]]
    ELSE o

\* The same block, with other units in it.
With(o, len, cells) == [len |-> len, capa |-> o.capa, alloc |-> o.alloc, cells |-> cells]

MoveTail(o, start, del, n) ==
    With(o, o.len, [i \in 0 .. o.alloc - 1 |->
        IF start + n <= i /\ i < o.len - del + n THEN o.cells[i - n + del]
                                                 ELSE o.cells[i]])

\* Mutant: the last unit is not copied.
CopyIn_OneShort(o, start, y) ==
    With(o, o.len, [i \in 0 .. o.alloc - 1 |->
        IF start <= i /\ i < start + Len(y) - 1 THEN y[i - start + 1] ELSE o.cells[i]])

CopyIn(o, start, y) ==
    With(o, o.len, [i \in 0 .. o.alloc - 1 |->
        IF start <= i /\ i < start + Len(y) THEN y[i - start + 1] ELSE o.cells[i]])

\* Mutant: the length is set and the sentinel is not.
Terminate_NoSentinel(o, n) == With(o, n, o.cells)

\* str->len = n and the sentinel.
Terminate(o, n) ==
    With(o, n, [i \in 0 .. o.alloc - 1 |-> IF i = n THEN Nul ELSE o.cells[i]])

\* Mutant: the units are read through a pointer into the block that realloc has
\* just replaced.
Replacement_Dangling(o, grown, y, self) ==
    IF self /\ grown # o THEN [i \in 1 .. Len(y) |-> Junk] ELSE y

\* A string spliced into itself is copied out before its block can move.
Replacement(o, grown, y, self) == y

\* ustr_splice_units(str, start, del, y, Len(y)); self: y is str's own block.
SpliceUnits(o, start, del, y, self) ==
    LET n == Len(y)
        new == o.len - del + n
        grown == IF n >= del THEN CapaResize(o, new + 1) ELSE o
        moved == MoveTail(grown, start, del, n)
        copied == CopyIn(moved, start, Replacement(o, grown, y, self))
        fitted == IF n < del THEN CapaResize(copied, new + 1) ELSE copied
    IN IF del = 0 /\ n = 0 THEN o ELSE Terminate(fitted, new)

\* Every store of such a splice, the sentinel last, is inside the block.
Fits(o, new) == new < CapaResize(o, new + 1).alloc

-----------------------------------------------------------------------------
Init ==
    /\ object = [s \in Strings |-> Wrap(<< >>, 0)]
    /\ recased = [s \in Strings |-> FALSE]

\* Variable d is given a new object, with a block of the size capa says.
Bind(d, o) ==
    /\ o.len <= MaxLen
    /\ object' = [object EXCEPT ![d] = o]
    /\ recased' = [recased EXCEPT ![d] = FALSE]

\* icu_ustr_new and icu_ustr_new_set: capa is one more than the length, or what
\* a first guess at the length came to.
New(d) ==
    \E x \in Sources :
        \/ Bind(d, Wrap(x, Len(x) + 1))
        \/ \E spare \in 1 .. Headroom : Bind(d, WrapSet(x, Len(x) + spare))

Dup(d, s) == Bind(d, Wrap(Text(object[s]), object[s].len + 1))

\* str1 + str2
Plus(d, s, r) ==
    LET both == object[s].len + object[r].len
        copy == Wrap(Text(object[s]), both)
    IN Bind(d, SpliceUnits(copy, object[s].len, 0, Text(object[r]), FALSE))

\* str * n: however the capacity moves while the copies are put in, the block
\* ends up as large as one made for the result (TimesIsItsLoop).
Multiple(o, n) ==
    LET x == [i \in 1 .. n * o.len |-> o.cells[(i - 1) % o.len]]
    IN Wrap(x, Len(x) + 1)

Times(d, s, n) == Bind(d, Multiple(object[s], n))

\* str[beg, len], beg counted from the end if negative.
SubstrUnits(o, beg, len) ==
    LET from == IF beg < 0 THEN beg + o.len ELSE beg
        size == IF from + len > o.len THEN o.len - from ELSE len
        start == SetCpStart(o.cells, from)
        limit == SetCpLimit(o.cells, size, o.len)
    IN IF size = 0 THEN << >> ELSE Slice(o, start, limit)

InRange(o, beg) == -o.len <= beg /\ beg <= o.len

Indices == -MaxLen .. MaxLen

Substr(d, s, beg, len) ==
    /\ InRange(object[s], beg)
    /\ LET x == SubstrUnits(object[s], beg, len) IN Bind(d, Wrap(x, Len(x) + 1))

\* normalize and its kin: a guess at the length, and exactly one unit more if it
\* was too small.  A result just as long as the guess raises.
Normalize(d, s) ==
    \E x \in Forms(Text(object[s])) :
        LET guess == object[s].len + Headroom IN
        /\ Len(x) # guess
        /\ Bind(d, WrapSet(x, IF Len(x) < guess THEN guess ELSE Len(x) + 1))

\* foldcase: the guess is the string's own length, and the block has one more.
Foldcase(d, s) ==
    \E x \in Forms(Text(object[s])) :
        Bind(d, WrapSet(x, AtLeast(Len(x), object[s].len) + 1))

-----------------------------------------------------------------------------
\* An in-place splice of r's units, which are s's own if self; realloc makes
\* block and capa agree again.
Store(s, start, del, r, self) ==
    LET o == object[s]
        new == o.len - del + object[r].len
        untouched == del = 0 /\ object[r].len = 0
    IN
    /\ new <= MaxLen
    /\ untouched \/ Fits(o, new)
    /\ object' = [object EXCEPT
                    ![s] = SpliceUnits(o, start, del, Text(object[r]), self)]
    /\ recased' = [recased EXCEPT
                    ![s] = @ /\ (untouched \/ ~Reallocates(o, new + 1))]

Replace(s, r) == s # r /\ Store(s, 0, object[s].len, r, FALSE)

Concat(s, r) == object[r].len > 0 /\ Store(s, object[s].len, 0, r, s = r)

\* icu_ustr_resize(str, 0)
Clear(s) ==
    /\ object' = [object EXCEPT ![s] = Terminate(CapaResize(object[s], 0), 0)]
    /\ recased' = [recased EXCEPT ![s] = @ /\ ~Reallocates(object[s], 0)]

\* icu_ustr_splice: the range is moved to code point boundaries, its length as
\* though it were an index.  A string put into itself is dup'ed first.
SpliceAt(s, beg, len, r) ==
    LET o == object[s]
        from == IF beg < 0 THEN beg + o.len ELSE beg
        size == IF o.len < from + len THEN o.len - from ELSE len
    IN
    /\ InRange(o, beg)
    /\ Store(s, SetCpStart(o.cells, from), SetCpLimit(o.cells, size, o.len), r,
             FALSE)

Insert(s, pos, r) ==
    SpliceAt(s, IF pos = -1 THEN object[s].len
                ELSE IF pos < 0 THEN pos + 1 ELSE pos, 0, r)

\* s[i] = r, and s[beg, len] = r and the range form.
SetAt(s, i, r) == i < object[s].len /\ SpliceAt(s, i, 1, r)

SetRange(s, beg, len, r) == SpliceAt(s, beg, len, r)

\* s[re, n] = r: a group of a match, from start to end.  A group that had no part
\* in the match has start -1, and the store in front of the block that follows is
\* undefined: the model does not follow it.
SetMatch(s, start, end, r) ==
    LET o == object[s] IN
    /\ 0 <= start /\ start <= end /\ end <= o.len
    /\ Store(s, SetCpStart(o.cells, start), SetCpLimit(o.cells, end - start, o.len), r,
             s = r)

\* s[t] = r: the first occurrence of t in s, which is at 0 for an empty t.
SetSubstring(s, t, r) ==
    LET o == object[s]
        n == object[t].len
        found == {b \in 0 .. o.len - n :
                    /\ Slice(o, b, n) = Text(object[t])
                    /\ n > 0 => OnBoundaries(o.cells, b, n, o.len)}
    IN \E b \in found : (\A c \in found : b <= c) /\ Store(s, b, n, r, s = r)

\* d = s.slice!(beg, len): the range is looked up twice, and removed.
SliceBang(d, s, beg, len) ==
    LET o == object[s]
        x == SubstrUnits(o, beg, len)
        from == IF beg < 0 THEN beg + o.len ELSE beg
        size == IF o.len < from + len THEN o.len - from ELSE len
        del == SetCpLimit(o.cells, size, o.len)
    IN
    /\ d # s
    /\ InRange(o, beg)
    /\ object' = [object EXCEPT
                    ![d] = Wrap(x, Len(x) + 1),
                    ![s] = SpliceUnits(o, SetCpStart(o.cells, from), del, << >>, FALSE)]
    /\ recased' = [recased EXCEPT
                    ![d] = FALSE,
                    ![s] = @ /\ (del = 0 \/ ~Reallocates(o, o.len - del + 1))]

-----------------------------------------------------------------------------
\* The spaces, and whatever else the index has been moved over by its last step
\* back (--i, ++i): that step is one unit, not one code point.
DropLeading(o, k) ==
    LET drop == IF k = o.len THEN k ELSE k + WidthFrom(Text(o), k + 1) - 1 IN
    IF k = 0 THEN o
    ELSE Terminate(With(o, o.len, [i \in 0 .. o.alloc - 1 |->
                       IF i < o.len - drop THEN o.cells[i + drop] ELSE o.cells[i]]),
                   o.len - drop)

DropTrailing(o, k) ==
    LET keep == IF k = o.len THEN 0
                ELSE o.len - k - WidthUpTo(Text(o), o.len - k) + 1 IN
    IF k = 0 THEN o ELSE Terminate(o, keep)

Reshape(s, o) == object' = [object EXCEPT ![s] = o] /\ UNCHANGED recased

Lstrip(s) ==
    \E k \in 1 .. object[s].len :
        /\ LeadingSpaces(Text(object[s]), k)
        /\ Reshape(s, DropLeading(object[s], k))

Rstrip(s) ==
    \E k \in 1 .. object[s].len :
        /\ TrailingSpaces(Text(object[s]), k)
        /\ Reshape(s, DropTrailing(object[s], k))

\* strip! is lstrip! and then rstrip!.
Strip(s) ==
    \E k, j \in 0 .. object[s].len :
        LET l == DropLeading(object[s], k) IN
        /\ LeadingSpaces(Text(object[s]), k)
        /\ j <= l.len /\ TrailingSpaces(Text(l), j)
        /\ Reshape(s, DropTrailing(l, j))

\* upcase!, downcase!: the result is written to a new block of the old length
\* and one more, or of its own length and one more if it is longer; ICU ends it
\* with U+0000 only if it was told of room for that.
CaseBlock(o, x) ==
    LET alloc == AtLeast(Len(x), o.len) + 1 IN
    [len |-> Len(x), capa |-> o.capa, alloc |-> alloc,
     cells |-> [i \in 0 .. alloc - 1 |->
        IF i < Len(x) THEN x[i + 1]
        ELSE IF i = Len(x) /\ Len(x) < o.len THEN Nul ELSE Junk]]

ChangeCase(s) ==
    \E x \in Forms(Text(object[s])) :
        /\ Len(x) <= MaxLen
        /\ ~SameToNul(x, object[s].cells)
        /\ object' = [object EXCEPT ![s] = CaseBlock(object[s], x)]
        /\ recased' = [recased EXCEPT ![s] = TRUE]

-----------------------------------------------------------------------------
Next ==
    \/ \E s \in Strings : New(s) \/ Clear(s) \/ Lstrip(s) \/ Rstrip(s) \/ Strip(s)
                          \/ ChangeCase(s)
    \/ \E d, s \in Strings :
        \/ Dup(d, s) \/ Normalize(d, s) \/ Foldcase(d, s)
        \/ \E n \in 0 .. MaxLen : Times(d, s, n)
        \/ Replace(d, s) \/ Concat(d, s)
        \/ \E i \in Indices : Insert(s, i, d) \/ SetAt(s, i, d)
        \/ \E beg \in Indices, len \in 0 .. MaxLen :
            \/ Substr(d, s, beg, len)
            \/ SetRange(s, beg, len, d)
            \/ SetMatch(s, beg, len, d)
            \/ SliceBang(d, s, beg, len)
        \/ \E r \in Strings : Plus(d, s, r) \/ SetSubstring(s, r, d)

Spec == Init /\ [][Next]_vars

-----------------------------------------------------------------------------
IsObject(o) ==
    /\ o = [len |-> o.len, capa |-> o.capa, alloc |-> o.alloc, cells |-> o.cells]
    /\ o.len \in Nat /\ o.capa \in Nat /\ o.alloc \in Nat
    /\ o.cells \in [0 .. o.alloc - 1 -> Cells]
    /\ o.len < o.alloc

\* A length, a block that is longer, and units or leftovers in its cells.
TypeOK ==
    /\ object = [s \in Strings |-> object[s]]
    /\ \A s \in Strings : IsObject(object[s]) /\ object[s].len <= MaxLen
    /\ recased \in [Strings -> BOOLEAN]

Roomy(o) == o.capa = o.alloc /\ o.cells[o.len] = Nul

\* A string whose block was made by the allocator or by ustr_capa_resize has
\* the room that capa says, and its sentinel: no sequence of methods that skips
\* upcase! and downcase! stores outside the block, since capa is what
\* ustr_splice_units goes by.
CapacityHolds ==
    \A s \in Strings : ~recased[s] => Roomy(object[s])

\* The same from the stores' side: whatever is spliced into such a string, the
\* splice fits.
StoresFit ==
    \A s \in Strings, new \in 0 .. MaxLen : ~recased[s] => Fits(object[s], new)

\* The loop of icu_ustr_times: one splice per copy, each of which may shrink or
\* grow the block.
TimesLoop(o, n) ==
    LET put[i \in 0 .. n] ==
            IF i = 0 THEN Wrap(<< >>, n * o.len)
            ELSE SpliceUnits(put[i - 1], (i - 1) * o.len, 0, Text(o), FALSE)
    IN put[n]

\* The loop of str * n leaves the block that Times says: no spare capacity and
\* no shortage accumulates, and every copy lies where the last one ended.
TimesIsItsLoop ==
    \A s \in Strings, n \in 0 .. MaxLen : object[s].len > 0 =>
        LET made == Multiple(object[s], n)
            loop == TimesLoop(object[s], n)
        IN /\ [made EXCEPT !.cells = Text(made)] = [loop EXCEPT !.cells = Text(loop)]
           /\ loop.cells[loop.len] = Nul

\* Text by text, the strings do what UStringValue promises: no unit is lost,
\* doubled or taken from a place that has already been overwritten.
Promise == INSTANCE UStringValue WITH value <- [s \in Strings |-> Text(object[s])]

ImplementsPromise == Promise!Spec

\* What the check in icu_ustr_alloc_and_wrap demands of a string it makes.
CapacityAboveLength == \A s \in Strings : object[s].capa > object[s].len

\* What "adjust to codepoint boundaries" is there for: no method takes one half
\* of a surrogate pair and leaves the other.
PairsStayWhole == \A s \in Strings : WellFormed(Text(object[s]))
=============================================================================
