-------------------------- MODULE UStringReadersProofs --------------------------
(***************************************************************************)
(* UStringReaders keeps what UTextWalk promises, a step of a walk being a  *)
(* step of UTextWalk and any other one changing nothing of it; and the     *)
(* loop of unescape stays inside the text and reads what its escapes stand *)
(* for, whatever the text and whichever escapes fail.                      *)
(***************************************************************************)
EXTENDS UStringReaders, UTextWalkProofs

\* The walks are the same as without the reading by code points.
LEMMA ReadersBegin == ReadersInit => Init
BY DEF ReadersInit, WalkParked

LEMMA ReadersStep == [ReadersNext]_readerVars => [Next]_vars
BY DEF ReadersNext, readerVars

LEMMA ReadersWalk == ReadersSpec => []IInv
<1>1. IInv /\ [ReadersNext]_readerVars => IInv'
    BY NextKeepsWalk, ReadersStep
<1>2. ReadersInit => IInv
    BY InitIsWalk, ReadersBegin
<1> QED BY <1>1, <1>2, PTL DEF ReadersSpec

\* Each walk takes the leftmost matches that do not overlap, and index and rindex
\* find the first and the last that they should (icu_reg_search, uregex_findNext,
\* ustr_gsub), in a program that also reads texts by code points.
THEOREM ReadersFindMatches ==
    ReadersSpec => [](TakesLeftmost /\ RindexIsLastOfWalk /\ IndexFindsFirst)
<1>1. ReadersInit => IndexFindsFirst
    BY ReadersBegin DEF Init, NoCall, IndexFindsFirst
<1>2. IInv /\ IndexFindsFirst /\ [ReadersNext]_readerVars => IndexFindsFirst'
    BY NextFindsFirst, ReadersStep
<1> QED BY <1>1, <1>2, ReadersWalk, WalkTakesLeftmost, WalkFindsLast, PTL DEF ReadersSpec

\* And gsub puts in for each match what its template means (icu_reg_get_replacement).
THEOREM ReadersSubstitute == ReadersSpec => []OutIsSubstitution
<1>1. ReadersInit => FillInv
    BY InitFills, ReadersBegin
<1>2. FillInv /\ [ReadersNext]_readerVars => FillInv'
    BY NextFills, ReadersStep
<1> QED BY <1>1, <1>2, FilledIsSubstitution, PTL DEF ReadersSpec

\* And split hands out what lies between the matches (icu_ustr_split_m), and every
\* index stays inside the text.
THEOREM ReadersSplit == ReadersSpec => [](TypeOK /\ SplitDivides)
<1>1. ReadersInit => TypeInv /\ SplitDivides
    BY InitTyped, InitDivides, ReadersBegin
<1>2. TypeInv /\ [ReadersNext]_readerVars => TypeInv'
    BY NextTyped, ReadersStep
<1>3. TypeInv /\ SplitDivides /\ [ReadersNext]_readerVars => SplitDivides'
    BY NextDivides, ReadersStep DEF TypeInv
<1> QED BY <1>1, <1>2, <1>3, TypeInvIsTypeOK, PTL DEF ReadersSpec

-----------------------------------------------------------------------------
\* Where unescape may be.
InText ==
    /\ text \in PointTexts /\ request.escapes \in EscapesOf(text)
    /\ offset \in Nat /\ segment \in Nat
    /\ segment <= offset /\ offset <= Len(text)

PointsInv ==
    /\ text \in PointTexts \cup {NoText}
    /\ request.method = "none" => offset = 0 /\ segment = 0
    /\ request.method = "unescape" => InText

\* An escape that does not fail ends behind its backslash and inside the text.
LEMMA EscapeEndsInside ==
    ASSUME NEW x \in PointTexts, NEW f \in EscapesOf(x), NEW i \in 1 .. Len(x),
           x[i] = EscapeChar, f[i] # Invalid
    PROVE  f[i].end \in Nat /\ i <= f[i].end /\ f[i].end <= Len(x)
<1>1. x \in Seq(Units) /\ Len(x) \in Nat
    BY PointTextsAssumption
<1>2. f[i] \in EscapesAt(x, i)
    BY DEF EscapesOf
<1>3. i # Len(x)
    BY <1>2 DEF EscapesAt
<1>4. WidthFrom(x, i + 1) \in {1, 2} /\ i + WidthFrom(x, i + 1) <= Len(x)
    BY <1>1, <1>3 DEF WidthFrom
<1>5. \/ f[i] \in [end : i + 2 .. Len(x), point : Decoded]
      \/ f[i] \in [end : {i + WidthFrom(x, i + 1)}, point : Decoded]
    BY <1>2, <1>3 DEF EscapesAt
<1> QED BY <1>1, <1>4, <1>5

LEMMA GetsKeepsPoints ==
    ASSUME PointsInv, NEW r, NEW x, Gets(r, x),
           r.method # "none", r.method = "unescape" => r.escapes \in EscapesOf(text)
    PROVE  PointsInv'
<1>1. /\ text' = text /\ offset' = offset /\ segment' = segment /\ request' = r
      /\ text \in PointTexts /\ offset = 0 /\ segment = 0
    BY DEF Gets, PointsInv
<1>2. Len(text) \in Nat
    BY <1>1, PointTextsAssumption
<1> QED BY <1>1, <1>2 DEF PointsInv, InText

LEMMA UnescapeKeepsPoints == PointsInv /\ Unescape => PointsInv'
<1> SUFFICES ASSUME PointsInv, Unescape PROVE PointsInv'
    OBVIOUS
<1>1. request' = request /\ text' = text /\ request.method = "unescape" /\ InText
    BY DEF Unescape, PlainUnit, Escape, InvalidEscape, UnescapeReturns, OnlyReads,
           Unescaping, PointsInv
<1>2. Len(text) \in Nat
    BY <1>1, PointTextsAssumption DEF InText
<1>3. CASE PlainUnit
    BY <1>1, <1>2, <1>3 DEF PlainUnit, PointsInv, InText
<1>4. CASE Escape
    <2> DEFINE e == request.escapes[offset + 1]
    <2>1. offset + 1 \in 1 .. Len(text) /\ text[offset + 1] = EscapeChar /\ e # Invalid
        BY <1>1, <1>2, <1>4 DEF Escape, AtBackslash, InText
    <2>2. e.end \in Nat /\ e.end <= Len(text)
        BY <1>1, <2>1, EscapeEndsInside DEF InText
    <2>3. offset' = e.end /\ segment' = e.end
        BY <1>4 DEF Escape, NextSegment
    <2> QED BY <1>1, <2>2, <2>3 DEF PointsInv, InText
<1>5. CASE InvalidEscape
    BY <1>1, <1>2, <1>5 DEF InvalidEscape, AfterInvalid, PointsInv, InText
<1>6. CASE UnescapeReturns
    BY <1>1, <1>6 DEF UnescapeReturns, PointsInv, InText
<1> QED BY <1>3, <1>4, <1>5, <1>6 DEF Unescape

LEMMA PointsKeepPoints == PointsInv /\ PointsNext => PointsInv'
<1> SUFFICES ASSUME PointsInv, PointsNext PROVE PointsInv'
    OBVIOUS
<1>1. ASSUME NEW first, NEW last, NEW excl,
             ConvUnitRange(first, last, excl) \/ ConvPointRange(first, last, excl)
      PROVE  PointsInv'
    BY <1>1, GetsKeepsPoints DEF ConvUnitRange, ConvPointRange
<1>2. ASSUME NEW k, NEW n, CharSpan(k, n) PROVE PointsInv'
    BY <1>2, GetsKeepsPoints DEF CharSpan
<1>3. CASE UnescapeBegin
    BY <1>3, GetsKeepsPoints DEF UnescapeBegin
<1>4. CASE Unescape
    BY <1>4, UnescapeKeepsPoints
<1>5. CASE ForgetPoints
    BY <1>5 DEF ForgetPoints, PointsInv
<1> QED BY <1>1, <1>2, <1>3, <1>4, <1>5 DEF PointsNext

\* Between two escapes, and behind one that fails, at the end of the text included,
\* unescape copies units of the text only: ustr_splice_units is never given a
\* negative length or one that goes beyond the end.
THEOREM AlwaysStaysInside == ReadersSpec => []UnescapeStaysInside
<1>1. ReadersInit => PointsInv
    BY DEF ReadersInit, PointsParked, PointsInit, NothingRead, PointsInv
<1>2. PointsInv /\ [ReadersNext]_readerVars => PointsInv'
    <2>1. ASSUME PointsInv, UNCHANGED pointVars PROVE PointsInv'
        BY <2>1 DEF pointVars, PointsInv, InText
    <2> QED BY <2>1, PointsKeepPoints DEF ReadersNext, readerVars
<1>3. PointsInv => UnescapeStaysInside
    BY DEF PointsInv, InText, UnescapeStaysInside
<1> QED BY <1>1, <1>2, <1>3, PTL DEF ReadersSpec
-----------------------------------------------------------------------------
\* What the text reads as from each index on.
Rests(x, escapes) ==
    LET rest[i \in 0 .. Len(x)] ==
            IF i = Len(x) THEN Text(<< >>)
            ELSE IF x[i + 1] # EscapeChar
                 THEN [rest[i + 1] EXCEPT !.value = <<x[i + 1]>> \o @]
            ELSE IF escapes[i + 1] = Invalid THEN Raised
            ELSE [rest[escapes[i + 1].end] EXCEPT !.value = escapes[i + 1].point \o @]
    IN rest

\* What unescape can come to.
Readings == [kind : {"text", "raised"}, value : Seq(Units)]

\* An escape that is one stands for a code point of the text.
LEMMA EscapePoint ==
    ASSUME NEW x \in PointTexts, NEW f \in EscapesOf(x), NEW i \in 1 .. Len(x),
           x[i] = EscapeChar, f[i] # Invalid
    PROVE  f[i].point \in Seq(Units)
<1>1. Decoded \subseteq Seq(Units)
    BY PointTextsAssumption
<1>2. f[i] \in EscapesAt(x, i)
    BY DEF EscapesOf
<1>3. \/ f[i] \in [end : i + 2 .. Len(x), point : Decoded]
      \/ f[i] \in [end : {i + WidthFrom(x, i + 1)}, point : Decoded]
    BY <1>2 DEF EscapesAt
<1> QED BY <1>1, <1>3

\* From index i it reads as the unit or escape there, and what is read behind it.
ReadsOn(r, x, escapes, i) ==
    LET u == x[i + 1]
        e == escapes[i + 1]
    IN  /\ u # EscapeChar => r[i].kind = r[i + 1].kind /\ r[i].value = <<u>> \o r[i + 1].value
        /\ u = EscapeChar /\ e = Invalid => r[i] = Raised
        /\ u = EscapeChar /\ e # Invalid =>
                r[i].kind = r[e.end].kind /\ r[i].value = e.point \o r[e.end].value

\* The recursion has a solution, which takes each index to a reading.
LEMMA RestsAre ==
    ASSUME NEW x \in PointTexts, NEW escapes \in EscapesOf(x)
    PROVE  /\ Rests(x, escapes) \in [0 .. Len(x) -> Readings]
           /\ Rests(x, escapes)[Len(x)] = Text(<< >>)
           /\ \A i \in 0 .. Len(x) - 1 : ReadsOn(Rests(x, escapes), x, escapes, i)
<1> DEFINE n == Len(x)
           plain(i) == x[i + 1] # EscapeChar
           fails(i) == escapes[i + 1] = Invalid
           next == [i \in 0 .. n - 1 |->
                        IF plain(i) \/ fails(i) THEN i + 1 ELSE escapes[i + 1].end]
           step == [i \in 0 .. n - 1 |-> [a \in Readings |->
                        IF plain(i) THEN [a EXCEPT !.value = <<x[i + 1]>> \o @]
                        ELSE IF fails(i) THEN Raised
                        ELSE [a EXCEPT !.value = escapes[i + 1].point \o @]]]
           Is(m) == m = [i \in 0 .. n |->
                IF i = n THEN Text(<< >>)
                ELSE IF x[i + 1] # EscapeChar
                     THEN [m[i + 1] EXCEPT !.value = <<x[i + 1]>> \o @]
                ELSE IF escapes[i + 1] = Invalid THEN Raised
                ELSE [m[escapes[i + 1].end] EXCEPT !.value = escapes[i + 1].point \o @]]
<1>1. /\ x \in Seq(Units) /\ n \in Nat
      /\ \A i \in 0 .. n - 1 : i + 1 \in 1 .. n /\ <<x[i + 1]>> \in Seq(Units)
    BY PointTextsAssumption
<1>2. ASSUME NEW i \in 0 .. n - 1, ~plain(i), ~fails(i)
      PROVE  /\ escapes[i + 1].end \in i + 1 .. n
             /\ escapes[i + 1].point \in Seq(Units)
    <2>1. i + 1 \in 1 .. Len(x) /\ x[i + 1] = EscapeChar /\ escapes[i + 1] # Invalid
        BY <1>1, <1>2
    <2>2. escapes[i + 1].end \in Nat /\ i + 1 <= escapes[i + 1].end /\ escapes[i + 1].end <= Len(x)
        BY <2>1, EscapeEndsInside
    <2>3. escapes[i + 1].point \in Seq(Units)
        BY <2>1, EscapePoint
    <2> QED BY <2>2, <2>3
<1>3. Text(<< >>) \in Readings /\ Raised \in Readings
    BY EmptySeq DEF Text, Raised, Readings
<1>4. ASSUME NEW a \in Readings, NEW u \in Seq(Units)
      PROVE  [a EXCEPT !.value = u \o @] \in Readings
    <2>1. u \o a.value \in Seq(Units)
        BY ConcatProperties DEF Readings
    <2> QED BY <2>1 DEF Readings
<1>5. next \in [0 .. n - 1 -> 1 .. n] /\ \A i \in 0 .. n - 1 : next[i] > i
    <2> SUFFICES ASSUME NEW i \in 0 .. n - 1
        PROVE  (IF plain(i) \/ fails(i) THEN i + 1 ELSE escapes[i + 1].end) \in i + 1 .. n
        BY <1>1
    <2> HIDE DEF plain, fails
    <2> QED BY <1>1, <1>2
<1>6. step \in [0 .. n - 1 -> [Readings -> Readings]]
    <2> SUFFICES ASSUME NEW i \in 0 .. n - 1, NEW a \in Readings
        PROVE  (IF plain(i) THEN [a EXCEPT !.value = <<x[i + 1]>> \o @]
                ELSE IF fails(i) THEN Raised
                ELSE [a EXCEPT !.value = escapes[i + 1].point \o @]) \in Readings
        BY Zenon
    <2>1. CASE plain(i)
        BY <1>1, <1>4, <2>1
    <2>2. CASE ~plain(i) /\ fails(i)
        BY <1>3, <2>2
    <2>3. CASE ~plain(i) /\ ~fails(i)
        BY <1>2, <1>4, <2>3
    <2> QED BY <2>1, <2>2, <2>3
<1>7. PICK f \in [0 .. n -> Readings] :
        f[n] = Text(<< >>) /\ \A i \in 0 .. n - 1 : f[i] = step[i][f[next[i]]]
    <2> DEFINE a == Text(<< >>)
    <2>1. a \in Readings /\ n \in Nat
        BY <1>1, <1>3
    <2> HIDE DEF n, next, step, Is, plain, fails, a
    <2>2. Above(next, n)
        BY <1>5 DEF Above
    <2>3. \E f \in [0 .. n -> Readings] : CountsDown(f, a, n, next, step)
        BY <1>6, <2>1, <2>2, CountdownExists
    <2> QED BY <2>3 DEF CountsDown, a
<1>8. Is(f)
    <2>1. f = [i \in 0 .. n |-> f[i]]
        OBVIOUS
    <2>2. ASSUME NEW i \in 0 .. n
          PROVE  f[i] = IF i = n THEN Text(<< >>)
                ELSE IF x[i + 1] # EscapeChar
                     THEN [f[i + 1] EXCEPT !.value = <<x[i + 1]>> \o @]
                ELSE IF escapes[i + 1] = Invalid THEN Raised
                ELSE [f[escapes[i + 1].end] EXCEPT !.value = escapes[i + 1].point \o @]
        <3>1. CASE i = n
            BY <1>7, <3>1
        <3>2. CASE i # n
            <4>1. i \in 0 .. n - 1
                BY <1>1, <3>2
            <4>2. next[i] \in 0 .. n
                <5> HIDE DEF next, n
                <5> QED BY <1>1, <1>5, <4>1
            <4>3. f[next[i]] \in Readings /\ f[i] = step[i][f[next[i]]]
                BY <1>7, <4>1, <4>2
            <4>4. step[i][f[next[i]]] =
                        IF plain(i) THEN [f[next[i]] EXCEPT !.value = <<x[i + 1]>> \o @]
                        ELSE IF fails(i) THEN Raised
                        ELSE [f[next[i]] EXCEPT !.value = escapes[i + 1].point \o @]
                <5> HIDE DEF next, plain, fails, n
                <5> QED BY <4>1, <4>3
            <4>5. next[i] = IF plain(i) \/ fails(i) THEN i + 1 ELSE escapes[i + 1].end
                BY <4>1
            <4> HIDE DEF next, step
            <4> QED BY <3>2, <4>3, <4>4, <4>5
        <3> QED BY <3>1, <3>2
    <2> HIDE DEF n
    <2> QED BY <2>1, <2>2
<1>9. Rests(x, escapes) = CHOOSE m : Is(m)
    BY DEF Rests
<1> HIDE DEF Is
<1>10. Is(Rests(x, escapes))
    BY <1>8, <1>9
<1> DEFINE r == Rests(x, escapes)
<1> HIDE DEF r
<1>11. r = [i \in 0 .. n |->
                IF i = n THEN Text(<< >>)
                ELSE IF x[i + 1] # EscapeChar
                     THEN [r[i + 1] EXCEPT !.value = <<x[i + 1]>> \o @]
                ELSE IF escapes[i + 1] = Invalid THEN Raised
                ELSE [r[escapes[i + 1].end] EXCEPT !.value = escapes[i + 1].point \o @]]
    BY <1>10 DEF Is, r
<1>12. r[n] = Text(<< >>)
    <2>1. n \in 0 .. n
        BY <1>1
    <2> HIDE DEF n
    <2> QED BY <1>11, <2>1
<1>13. ASSUME NEW i \in 0 .. n - 1
      PROVE  /\ plain(i) => r[i] = [r[i + 1] EXCEPT !.value = <<x[i + 1]>> \o @]
             /\ ~plain(i) /\ fails(i) => r[i] = Raised
             /\ ~plain(i) /\ ~fails(i) =>
                    r[i] = [r[escapes[i + 1].end] EXCEPT !.value = escapes[i + 1].point \o @]
    <2>1. i \in 0 .. n /\ i # n
        BY <1>1
    <2> HIDE DEF n
    <2> QED BY <1>11, <2>1
<1>14. \A i \in 0 .. n : r[i] \in Readings
    <2> DEFINE Q == {i \in 0 .. n : r[i] \in Readings}
    <2>1. n \in Q
        BY <1>1, <1>3, <1>12
    <2>2. ASSUME NEW i \in 0 .. n - 1, \A j \in i + 1 .. n : j \in Q PROVE i \in Q
        <3> SUFFICES r[i] \in Readings
            BY <1>1
        <3>1. CASE plain(i)
            <4>1. r[i + 1] \in Readings
                BY <1>1, <2>2
            <4>2. [r[i + 1] EXCEPT !.value = <<x[i + 1]>> \o @] \in Readings
                BY <1>1, <1>4, <4>1
            <4> QED BY <1>13, <3>1, <4>2
        <3>2. CASE ~plain(i) /\ fails(i)
            BY <1>3, <1>13, <3>2
        <3>3. CASE ~plain(i) /\ ~fails(i)
            <4>1. r[escapes[i + 1].end] \in Readings
                BY <1>2, <2>2, <3>3
            <4>2. [r[escapes[i + 1].end] EXCEPT !.value = escapes[i + 1].point \o @] \in Readings
                BY <1>2, <1>4, <3>3, <4>1
            <4> QED BY <1>13, <3>3, <4>2
        <3> QED BY <3>1, <3>2, <3>3
    <2> HIDE DEF Q
    <2>3. 0 .. n \subseteq Q
        BY <1>1, <2>1, <2>2, InductionDown
    <2> QED BY <2>3 DEF Q
<1>15. r \in [0 .. n -> Readings]
    BY <1>11, <1>14
<1>16. ASSUME NEW i \in 0 .. n - 1 PROVE ReadsOn(r, x, escapes, i)
    <2>1. plain(i) => r[i + 1] \in Readings
        BY <1>1, <1>14
    <2>2. ~plain(i) /\ ~fails(i) => r[escapes[i + 1].end] \in Readings
        BY <1>1, <1>2, <1>14
    <2> QED BY <1>13, <2>1, <2>2 DEF ReadsOn, Readings
<1> QED BY <1>12, <1>15, <1>16 DEF r

-----------------------------------------------------------------------------
\* What unescape has put together, what it has read since, and what the text reads as
\* from where it is, are together what the text reads as.
Decoding ==
    LET rests == Rests(text, request.escapes) IN
    /\ ret \in Seq(Units)
    /\ got = Nil /\ rests[0].kind = "text" =>
        /\ rests[offset].kind = "text"
        /\ rests[0].value = ret \o (Segment \o rests[offset].value)
    /\ got # Nil /\ rests[0].kind = "text" => got = rests[0]

DecodeInv ==
    /\ PointsInv
    /\ request.method = "none" => ret = << >>
    /\ request.method = "unescape" => Decoding

\* A part of a text, one unit longer.
LEMMA PartGrows ==
    ASSUME NEW x \in Seq(Units), NEW i \in 0 .. Len(x), NEW j \in i .. Len(x)
    PROVE  /\ SubSeq(x, i + 1, j) \in Seq(Units)
           /\ j < Len(x) => SubSeq(x, i + 1, j + 1) = SubSeq(x, i + 1, j) \o <<x[j + 1]>>
           /\ SubSeq(x, j + 1, j) = << >>
<1>1. Len(x) \in Nat /\ i + 1 \in Int /\ j \in Int /\ j + 1 \in Int
    OBVIOUS
<1>2. \A k \in i + 1 .. j : x[k] \in Units
    BY <1>1
<1>3. SubSeq(x, i + 1, j) \in Seq(Units)
    BY <1>1, <1>2, SubSeqProperties
<1>4. SubSeq(x, j + 1, j) = << >>
    BY <1>1, SubSeqEmpty
<1>5. ASSUME j < Len(x)
      PROVE  SubSeq(x, i + 1, j + 1) = SubSeq(x, i + 1, j) \o <<x[j + 1]>>
    <2>1. i + 1 \in 1 .. Len(x) /\ j + 1 \in i + 1 .. Len(x) /\ (j + 1) - 1 = j
        BY <1>1, <1>5
    <2>2. SubSeq(x, i + 1, j + 1) = SubSeq(x, i + 1, (j + 1) - 1) \o <<x[j + 1]>>
        BY <2>1, SubSeqRecursiveSecond
    <2> QED BY <2>1, <2>2
<1> QED BY <1>3, <1>4, <1>5

\* What holds in the middle of unescape.
LEMMA Midway ==
    ASSUME DecodeInv, Unescaping
    PROVE  /\ text \in PointTexts /\ text \in Seq(Units) /\ request.escapes \in EscapesOf(text)
           /\ Len(text) \in Nat /\ segment \in 0 .. Len(text) /\ offset \in segment .. Len(text)
           /\ ret \in Seq(Units) /\ Segment \in Seq(Units)
           /\ Rests(text, request.escapes) \in [0 .. Len(text) -> Readings]
           /\ Decoding /\ got = Nil
<1>1. InText /\ Decoding /\ got = Nil
    BY DEF DecodeInv, PointsInv, Unescaping
<1>2. text \in Seq(Units)
    BY <1>1, PointTextsAssumption DEF InText
<1>3. segment \in 0 .. Len(text) /\ offset \in segment .. Len(text) /\ Len(text) \in Nat
    BY <1>1, <1>2 DEF InText
<1>4. Segment \in Seq(Units)
    BY <1>2, <1>3, PartGrows DEF Segment
<1>5. Rests(text, request.escapes) \in [0 .. Len(text) -> Readings]
    BY <1>1, RestsAre DEF InText
<1> QED BY <1>1, <1>2, <1>3, <1>4, <1>5 DEF InText, Decoding

\* A unit that begins no escape is read as itself.
LEMMA PlainDecodes == ASSUME DecodeInv, PlainUnit PROVE Decoding'
<1> DEFINE r == Rests(text, request.escapes)
           u == text[offset + 1]
<1>1. Unescaping /\ offset < Len(text) /\ u # EscapeChar
    BY DEF PlainUnit, AtBackslash
<1>2. /\ text \in PointTexts /\ text \in Seq(Units) /\ request.escapes \in EscapesOf(text)
      /\ Len(text) \in Nat /\ segment \in 0 .. Len(text) /\ offset \in segment .. Len(text)
      /\ ret \in Seq(Units) /\ Segment \in Seq(Units) /\ r \in [0 .. Len(text) -> Readings]
      /\ Decoding /\ got = Nil
    BY <1>1, Midway
<1>3. /\ offset' = offset + 1 /\ segment' = segment /\ ret' = ret /\ got' = got
      /\ text' = text /\ request' = request
    BY DEF PlainUnit, OnlyReads
<1>4. r[offset].kind = r[offset + 1].kind /\ r[offset].value = <<u>> \o r[offset + 1].value
    <2>1. offset \in 0 .. Len(text) - 1
        BY <1>1, <1>2
    <2>2. ReadsOn(r, text, request.escapes, offset)
        BY <1>2, <2>1, RestsAre
    <2> HIDE DEF r
    <2> QED BY <1>1, <2>2 DEF ReadsOn
<1>5. Segment' = Segment \o <<u>>
    BY <1>1, <1>2, <1>3, PartGrows DEF Segment
<1>6. u \in Units /\ <<u>> \in Seq(Units) /\ r[offset + 1] \in Readings
    <2>1. offset + 1 \in 1 .. Len(text) /\ offset + 1 \in 0 .. Len(text)
        BY <1>1, <1>2
    <2> QED BY <1>2, <2>1, SMTT(40)
<1> HIDE DEF r, u
<1>7. /\ r[offset].kind = r[offset + 1].kind
      /\ r[offset].value = <<u>> \o r[offset + 1].value
      /\ r[offset + 1].value \in Seq(Units)
    BY <1>4, <1>6 DEF Readings
<1>8. Segment \o (<<u>> \o r[offset + 1].value) = (Segment \o <<u>>) \o r[offset + 1].value
    BY <1>2, <1>6, <1>7, UnitsAssociate
<1>9. r[0].kind = "text" =>
        r[offset].kind = "text" /\ r[0].value = ret \o (Segment \o r[offset].value)
    BY <1>2 DEF Decoding, r
<1>10. Rests(text, request.escapes)' = r
    BY <1>3 DEF r
<1> QED BY <1>2, <1>3, <1>5, <1>7, <1>8, <1>9, <1>10 DEF Decoding

\* An escape is read as its code point, and goes on behind it.
LEMMA EscapeDecodes == ASSUME DecodeInv, Escape PROVE Decoding'
<1> DEFINE r == Rests(text, request.escapes)
           e == request.escapes[offset + 1]
<1>1. Unescaping /\ offset < Len(text) /\ text[offset + 1] = EscapeChar /\ e # Invalid
    BY DEF Escape, AtBackslash
<1>2. /\ text \in PointTexts /\ text \in Seq(Units) /\ request.escapes \in EscapesOf(text)
      /\ Len(text) \in Nat /\ segment \in 0 .. Len(text) /\ offset \in segment .. Len(text)
      /\ ret \in Seq(Units) /\ Segment \in Seq(Units) /\ r \in [0 .. Len(text) -> Readings]
      /\ Decoding /\ got = Nil
    BY <1>1, Midway
<1>3. /\ offset' = e.end /\ segment' = e.end /\ ret' = ret \o Segment \o e.point /\ got' = got
      /\ text' = text /\ request' = request
    BY DEF Escape, NextSegment, OnlyReads
<1>4. offset \in 0 .. Len(text) - 1 /\ offset + 1 \in 1 .. Len(text)
    BY <1>1, <1>2
<1>5. r[offset].kind = r[e.end].kind /\ r[offset].value = e.point \o r[e.end].value
    <2>1. ReadsOn(r, text, request.escapes, offset)
        BY <1>2, <1>4, RestsAre
    <2> HIDE DEF r
    <2> QED BY <1>1, <2>1 DEF ReadsOn
<1>6. e.end \in 0 .. Len(text) /\ e.point \in Seq(Units)
    <2>1. e.end \in Nat /\ e.end <= Len(text)
        BY <1>1, <1>2, <1>4, EscapeEndsInside
    <2>2. e.point \in Seq(Units)
        BY <1>1, <1>2, <1>4, EscapePoint
    <2> QED BY <1>2, <2>1, <2>2
<1> HIDE DEF r, e
<1>7. /\ r[offset].kind = r[e.end].kind
      /\ r[offset].value = e.point \o r[e.end].value
      /\ r[e.end].value \in Seq(Units)
    BY <1>2, <1>5, <1>6 DEF Readings
<1>8. Segment' = << >>
    <2>1. SubSeq(text, e.end + 1, e.end) = << >>
        BY <1>2, <1>6, PartGrows
    <2> QED BY <1>3, <2>1 DEF Segment
<1> DEFINE v == r[e.end].value
<1>9. /\ ret \o Segment \in Seq(Units) /\ ret \o Segment \o e.point \in Seq(Units)
      /\ e.point \o v \in Seq(Units) /\ << >> \o v = v
    <2>1. ret \o Segment \in Seq(Units) /\ e.point \o v \in Seq(Units)
        BY <1>2, <1>6, <1>7, ConcatProperties
    <2>2. (ret \o Segment) \o e.point \in Seq(Units)
        BY <1>6, <2>1, ConcatProperties
    <2> QED BY <1>7, <2>1, <2>2, ConcatEmptySeq
<1>10. ret \o (Segment \o (e.point \o v)) = (ret \o Segment \o e.point) \o (<< >> \o v)
    <2> HIDE DEF v
    <2>1. ret \o (Segment \o (e.point \o v)) = (ret \o Segment) \o (e.point \o v)
        BY <1>2, <1>9, UnitsAssociate, ZenonT(60)
    <2>2. v \in Seq(Units)
        BY <1>7 DEF v
    <2>3. (ret \o Segment) \o (e.point \o v) = ((ret \o Segment) \o e.point) \o v
        BY <1>6, <1>9, <2>2, UnitsAssociate, ZenonT(60)
    <2> QED BY <1>9, <2>1, <2>3
<1>11. r[0].kind = "text" =>
        r[offset].kind = "text" /\ r[0].value = ret \o (Segment \o r[offset].value)
    BY <1>2 DEF Decoding, r
<1>12. Rests(text, request.escapes)' = r
    BY <1>3 DEF r
<1> QED BY <1>2, <1>3, <1>7, <1>8, <1>9, <1>10, <1>11, <1>12 DEF Decoding

\* An escape that is none makes the reading fail.
LEMMA InvalidDecodes == ASSUME DecodeInv, InvalidEscape PROVE Decoding'
<1> DEFINE r == Rests(text, request.escapes)
<1>1. Unescaping /\ offset < Len(text) /\ text[offset + 1] = EscapeChar
      /\ request.escapes[offset + 1] = Invalid
    BY DEF InvalidEscape, AtBackslash
<1>2. /\ text \in PointTexts /\ request.escapes \in EscapesOf(text)
      /\ Len(text) \in Nat /\ segment \in 0 .. Len(text) /\ offset \in segment .. Len(text)
      /\ ret \in Seq(Units) /\ Segment \in Seq(Units) /\ Decoding /\ got = Nil
    BY <1>1, Midway
<1>3. /\ ret' = ret \o Segment /\ got' = got /\ text' = text /\ request' = request
    BY DEF InvalidEscape, OnlyReads
<1>4. r[offset] = Raised
    <2>1. offset \in 0 .. Len(text) - 1
        BY <1>1, <1>2
    <2>2. ReadsOn(r, text, request.escapes, offset)
        BY <1>2, <2>1, RestsAre
    <2> HIDE DEF r
    <2> QED BY <1>1, <2>2 DEF ReadsOn
<1>5. r[0].kind # "text"
    BY <1>2, <1>4 DEF Decoding, Raised
<1>6. ret \o Segment \in Seq(Units)
    BY <1>2, ConcatProperties
<1>7. Rests(text, request.escapes)' = r
    BY <1>3
<1> QED BY <1>3, <1>5, <1>6, <1>7 DEF Decoding

\* A loop that has come to the end has read the text.
LEMMA ReturnDecodes == ASSUME DecodeInv, UnescapeReturns PROVE Decoding'
<1> DEFINE r == Rests(text, request.escapes)
<1>1. Unescaping /\ offset = Len(text)
    BY DEF UnescapeReturns
<1>2. /\ text \in PointTexts /\ request.escapes \in EscapesOf(text) /\ Len(text) \in Nat
      /\ ret \in Seq(Units) /\ Segment \in Seq(Units) /\ r \in [0 .. Len(text) -> Readings]
      /\ Decoding /\ got = Nil
    BY <1>1, Midway
<1>3. /\ ret' = ret /\ got' = Text(ret \o Segment) /\ text' = text /\ request' = request
    BY DEF UnescapeReturns, OnlyReads
<1>4. r[offset] = Text(<< >>) /\ r[0] \in Readings
    <2>1. 0 \in 0 .. Len(text)
        BY <1>2
    <2> QED BY <1>1, <1>2, <2>1, RestsAre
<1>5. r[0].kind = "text" => r[0].value = ret \o (Segment \o << >>)
    BY <1>2, <1>4 DEF Decoding, Text
<1>6. Segment \o << >> = Segment
    BY <1>2, ConcatEmptySeq
<1> HIDE DEF r
<1>7. r[0].kind = "text" => r[0] = Text(ret \o Segment)
    BY <1>4, <1>5, <1>6 DEF Readings, Text
<1>8. Text(ret \o Segment) # Nil
    BY DEF Text, Nil
<1>9. Rests(text, request.escapes)' = r
    BY <1>3 DEF r
<1> QED BY <1>2, <1>3, <1>7, <1>8, <1>9 DEF Decoding

\* The loop begins with all of the text to read.
LEMMA BeginDecodes == ASSUME DecodeInv, UnescapeBegin PROVE DecodeInv'
<1>1. PICK escapes \in EscapesOf(text) : Gets([method |-> "unescape", escapes |-> escapes], Nil)
    BY DEF UnescapeBegin
<1>2. /\ request'.method = "unescape" /\ request'.escapes = escapes /\ got' = Nil
      /\ text' = text /\ offset' = offset /\ segment' = segment /\ ret' = ret
      /\ text \in PointTexts /\ offset = 0 /\ segment = 0 /\ ret = << >>
    BY <1>1 DEF Gets, DecodeInv, PointsInv
<1>3. PointsInv'
    BY PointsKeepPoints DEF DecodeInv, PointsNext
<1> DEFINE r == Rests(text, escapes)
<1>4. /\ text \in Seq(Units) /\ Len(text) \in Nat /\ r \in [0 .. Len(text) -> Readings]
    BY <1>1, <1>2, PointTextsAssumption, RestsAre
<1>5. r[0].value \in Seq(Units)
    <2>1. 0 \in 0 .. Len(text)
        BY <1>4
    <2> QED BY <1>4, <2>1 DEF Readings
<1> HIDE DEF r
<1>6. << >> \o (<< >> \o r[0].value) = r[0].value
    BY <1>5, ConcatEmptySeq
<1>7. Segment' = << >>
    <2>1. SubSeq(text, 0 + 1, 0) = << >>
        BY <1>4, PartGrows
    <2> QED BY <1>2, <2>1 DEF Segment
<1>8. Rests(text, request.escapes)' = r
    BY <1>2 DEF r
<1>9. Decoding'
    BY <1>2, <1>6, <1>7, <1>8, EmptySeq DEF Decoding
<1> QED BY <1>2, <1>3, <1>9 DEF DecodeInv

\* Every step of the loop leaves what is read and what is left to read together.
LEMMA PointsKeepDecoding == ASSUME DecodeInv, PointsNext PROVE DecodeInv'
<1>0. PointsInv'
    BY PointsKeepPoints DEF DecodeInv
<1>1. ASSUME NEW first, NEW last, NEW excl,
             ConvUnitRange(first, last, excl) \/ ConvPointRange(first, last, excl)
      PROVE  DecodeInv'
    BY <1>0, <1>1 DEF ConvUnitRange, ConvPointRange, Gets, DecodeInv
<1>2. ASSUME NEW k, NEW n, CharSpan(k, n) PROVE DecodeInv'
    BY <1>0, <1>2 DEF CharSpan, Gets, DecodeInv
<1>3. CASE UnescapeBegin
    BY <1>3, BeginDecodes
<1>4. CASE Unescape
    <2>1. request'.method = "unescape"
        BY <1>4 DEF Unescape, PlainUnit, Escape, InvalidEscape, UnescapeReturns, OnlyReads,
            Unescaping
    <2> QED BY <1>0, <1>4, <2>1, PlainDecodes, EscapeDecodes, InvalidDecodes, ReturnDecodes
            DEF DecodeInv, Unescape
<1>5. CASE ForgetPoints
    BY <1>0, <1>5 DEF ForgetPoints, DecodeInv
<1> QED BY <1>1, <1>2, <1>3, <1>4, <1>5 DEF PointsNext

\* unescape copies what stands between two escapes, once and in order, and puts each
\* escape's code point in its place, whatever the text and however far its escapes
\* reach; of a text with an escape that fails nothing is said (icu_ustr_unescape).
THEOREM AlwaysDecodes == ReadersSpec => []UnescapeDecodes
<1>1. ReadersInit => DecodeInv
    BY DEF ReadersInit, PointsParked, PointsInit, NothingRead, PointsInv, DecodeInv
<1>2. DecodeInv /\ [ReadersNext]_readerVars => DecodeInv'
    <2>1. ASSUME DecodeInv, UNCHANGED pointVars PROVE DecodeInv'
        BY <2>1 DEF pointVars, DecodeInv, PointsInv, InText, Decoding, Segment
    <2> QED BY <2>1, PointsKeepDecoding DEF ReadersNext, readerVars
<1>3. DecodeInv => UnescapeDecodes
    <2> SUFFICES ASSUME DecodeInv, request.method = "unescape", got.kind = "text",
                        Reading.kind = "text"
        PROVE  got = Reading
        BY DEF UnescapeDecodes
    <2>1. got # Nil
        BY DEF Nil
    <2>2. Reading = Rests(text, request.escapes)[0]
        BY DEF Reading, Rests
    <2> QED BY <2>1, <2>2 DEF DecodeInv, Decoding
<1> QED BY <1>1, <1>2, <1>3, PTL DEF ReadersSpec

-----------------------------------------------------------------------------
\* A part of a sequence.
LEMMA PartIs ==
    ASSUME NEW S, NEW x \in Seq(S), NEW i \in 0 .. Len(x), NEW j \in i .. Len(x)
    PROVE  /\ SubSeq(x, i + 1, j) \in Seq(S)
           /\ Len(SubSeq(x, i + 1, j)) = j - i
           /\ \A k \in 1 .. j - i : SubSeq(x, i + 1, j)[k] = x[i + k]
<1>1. Len(x) \in Nat /\ i + 1 \in Int /\ j \in Int
    OBVIOUS
<1>2. \A k \in i + 1 .. j : x[k] \in S
    <2>1. \A k \in i + 1 .. j : k \in 1 .. Len(x)
        BY <1>1
    <2> QED BY <2>1
<1> DEFINE lo == i + 1
<1>3. lo \in Int /\ \A k \in lo .. j : x[k] \in S
    BY <1>1, <1>2
<1> HIDE DEF lo
<1>4. /\ SubSeq(x, lo, j) \in Seq(S)
      /\ Len(SubSeq(x, lo, j)) = IF lo <= j THEN j - lo + 1 ELSE 0
      /\ \A k \in 1 .. j - lo + 1 : SubSeq(x, lo, j)[k] = x[lo + k - 1]
    BY <1>1, <1>3, SubSeqProperties
<1>5. Len(SubSeq(x, lo, j)) = j - i
    BY <1>1, <1>4 DEF lo
<1>6. ASSUME NEW k \in 1 .. j - i PROVE SubSeq(x, lo, j)[k] = x[i + k]
    <2>1. k \in 1 .. j - lo + 1 /\ lo + k - 1 = i + k
        BY <1>1 DEF lo
    <2>2. SubSeq(x, lo, j)[k] = x[lo + k - 1]
        BY <1>4, <2>1
    <2> QED BY <2>1, <2>2
<1> QED BY <1>4, <1>5, <1>6 DEF lo

\* Two parts that meet.
LEMMA PartsJoin ==
    ASSUME NEW S, NEW x \in Seq(S), NEW i \in 0 .. Len(x), NEW j \in i .. Len(x),
           NEW k \in j .. Len(x)
    PROVE  SubSeq(x, i + 1, j) \o SubSeq(x, j + 1, k) = SubSeq(x, i + 1, k)
<1> DEFINE a == SubSeq(x, i + 1, j)
           b == SubSeq(x, j + 1, k)
           c == SubSeq(x, i + 1, k)
<1>1. Len(x) \in Nat /\ i \in Nat /\ j \in Nat /\ k \in Nat /\ i <= j /\ j <= k
      /\ j \in 0 .. Len(x) /\ k \in i .. Len(x)
    OBVIOUS
<1>2. a \in Seq(S) /\ Len(a) = j - i /\ \A q \in 1 .. j - i : a[q] = x[i + q]
    BY PartIs
<1>3. b \in Seq(S) /\ Len(b) = k - j /\ \A q \in 1 .. k - j : b[q] = x[j + q]
    BY <1>1, PartIs
<1>4. c \in Seq(S) /\ Len(c) = k - i /\ \A q \in 1 .. k - i : c[q] = x[i + q]
    BY <1>1, PartIs
<1> HIDE DEF a, b, c
<1>5. \A u, v \in Seq(S) :
        /\ u \o v \in Seq(S) /\ Len(u \o v) = Len(u) + Len(v)
        /\ \A q \in 1 .. Len(u) + Len(v) :
                (u \o v)[q] = IF q <= Len(u) THEN u[q] ELSE v[q - Len(u)]
    BY ConcatProperties
<1>6. /\ a \o b \in Seq(S) /\ Len(a \o b) = Len(a) + Len(b)
      /\ \A q \in 1 .. Len(a) + Len(b) :
            (a \o b)[q] = IF q <= Len(a) THEN a[q] ELSE b[q - Len(a)]
    BY <1>2, <1>3, <1>5, Zenon
<1>7. Len(a) + Len(b) = k - i
    BY <1>1, <1>2, <1>3
<1>8. ASSUME NEW q \in 1 .. k - i PROVE (a \o b)[q] = c[q]
    <2>1. CASE q <= j - i
        <3>1. q \in 1 .. j - i /\ q \in 1 .. Len(a) + Len(b) /\ q <= Len(a)
            BY <1>1, <1>2, <1>7, <2>1
        <3>2. (a \o b)[q] = a[q]
            BY <1>6, <3>1
        <3> QED BY <1>2, <1>4, <3>1, <3>2
    <2>2. CASE ~(q <= j - i)
        <3>1. q \in 1 .. Len(a) + Len(b) /\ ~(q <= Len(a)) /\ q - Len(a) \in 1 .. k - j
              /\ j + (q - Len(a)) = i + q
            BY <1>1, <1>2, <1>7, <2>2
        <3>2. (a \o b)[q] = b[q - Len(a)]
            BY <1>6, <3>1
        <3>3. b[q - Len(a)] = x[j + (q - Len(a))]
            BY <1>3, <3>1
        <3> QED BY <1>4, <3>1, <3>2, <3>3
    <2> QED BY <2>1, <2>2
<1>9. a \o b = c
    <2>1. \A q \in 1 .. Len(a \o b) : (a \o b)[q] = c[q]
        BY <1>6, <1>7, <1>8
    <2> QED BY <1>4, <1>6, <1>7, <2>1, SeqEqual
<1> QED BY <1>9 DEF a, b, c

\* The sequence cut at each of n + 1 places gives n pieces.
Cuts(x, at, n, parts) ==
    /\ n \in Nat /\ Len(parts) = n
    /\ \A k \in 1 .. n + 1 : at[k] \in 0 .. Len(x)
    /\ \A k \in 1 .. n : at[k] <= at[k + 1] /\ parts[k] = SubSeq(x, at[k] + 1, at[k + 1])

\* What pieces a + 1 to b make, put together.
Joins(x, at, parts, a, b) ==
    /\ at[a + 1] <= at[b + 1]
    /\ FlattenSeq(SubSeq(parts, a + 1, b)) = SubSeq(x, at[a + 1] + 1, at[b + 1])

\* They make the part of the sequence from the first's place to the last's.
LEMMA PiecesJoin ==
    ASSUME NEW S, NEW T, T = Seq(S), NEW x \in Seq(S), NEW ps \in Seq(T), NEW at, NEW n, Cuts(x, at, n, ps),
           NEW a \in 0 .. n, NEW b \in a .. n
    PROVE  Joins(x, at, ps, a, b)
<1>1. /\ n \in Nat /\ Len(ps) = n /\ Len(x) \in Nat
      /\ \A k \in 1 .. n + 1 : at[k] \in 0 .. Len(x)
      /\ \A k \in 1 .. n : at[k] <= at[k + 1] /\ ps[k] = SubSeq(x, at[k] + 1, at[k + 1])
    BY DEF Cuts
<1> DEFINE Joined(k) == /\ at[a + 1] <= at[k + 1]
                        /\ FlattenSeq(SubSeq(ps, a + 1, k)) = SubSeq(x, at[a + 1] + 1, at[k + 1])
           P == {k \in Nat : a + k <= n => Joined(a + k)}
<1>2. 0 \in P
    <2>1. a + 0 = a /\ a + 1 \in 1 .. n + 1 /\ a \in 0 .. Len(ps) /\ a \in a .. Len(ps)
        BY <1>1
    <2>2. at[a + 1] \in 0 .. Len(x) /\ at[a + 1] \in at[a + 1] .. Len(x)
        BY <1>1, <2>1
    <2>3. SubSeq(ps, a + 1, a) \in Seq(T) /\ Len(SubSeq(ps, a + 1, a)) = a - a
        BY <2>1, PartIs
    <2>4. SubSeq(ps, a + 1, a) = << >>
        <3>1. a - a = 0
            BY <1>1
        <3> QED BY <2>3, <3>1, EmptySeq
    <2>5. SubSeq(x, at[a + 1] + 1, at[a + 1]) \in Seq(S)
          /\ Len(SubSeq(x, at[a + 1] + 1, at[a + 1])) = at[a + 1] - at[a + 1]
        BY <2>2, PartIs
    <2>6. SubSeq(x, at[a + 1] + 1, at[a + 1]) = << >>
        <3>1. at[a + 1] - at[a + 1] = 0
            BY <1>1, <2>2
        <3> QED BY <2>5, <3>1, EmptySeq
    <2>7. Joined(a)
        <3>1. at[a + 1] <= at[a + 1]
            BY <1>1, <2>2
        <3>2. FlattenSeq(SubSeq(ps, a + 1, a)) = SubSeq(x, at[a + 1] + 1, at[a + 1])
            BY <2>4, <2>6, FlattenEmpty, Zenon
        <3> QED BY <3>1, <3>2
    <2> QED BY <2>1, <2>7
<1>3. ASSUME NEW k \in Nat, k \in P PROVE k + 1 \in P
    <2> DEFINE q == a + k
    <2> SUFFICES ASSUME q + 1 <= n PROVE Joined(q + 1)
        BY <1>1
    <2>1. q \in Nat /\ q \in a .. Len(ps) /\ q + 1 \in 1 .. n /\ q + 1 \in 1 .. n + 1
          /\ q + 2 \in 1 .. n + 1 /\ (q + 1) + 1 = q + 2 /\ a + 1 \in 1 .. n + 1
          /\ a \in 0 .. Len(ps) /\ q \in 0 .. Len(ps) /\ q + 1 \in q .. Len(ps)
        BY <1>1
    <2>2. Joined(q)
        <3>1. a + k <= n
            BY <1>1, <2>1
        <3> HIDE DEF Joined
        <3> QED BY <1>3, <3>1
    <2> HIDE DEF q
    <2> DEFINE u == SubSeq(ps, a + 1, q)
               v == SubSeq(ps, q + 1, q + 1)
               i == at[a + 1]
               j == at[q + 1]
               h == at[q + 2]
    <2>3. u \o v = SubSeq(ps, a + 1, q + 1) /\ u \in Seq(T)
        BY <2>1, PartsJoin, PartIs
    <2>4. v = <<ps[q + 1]>> /\ ps[q + 1] \in T
        <3>1. v \in Seq(T) /\ Len(v) = (q + 1) - q /\ \A m \in 1 .. (q + 1) - q : v[m] = ps[q + m]
            BY <2>1, PartIs
        <3>2. Len(v) = 1 /\ v[1] = ps[q + 1]
            BY <2>1, <3>1
        <3>3. ps[q + 1] \in T
            BY <1>1, <2>1, ElementOfSeq
        <3> HIDE DEF v
        <3>4. v = <<v[1]>>
            <4>1. <<v[1]>> \in Seq(T) /\ Len(<<v[1]>>) = 1 /\ <<v[1]>>[1] = v[1]
                BY <3>2, <3>3
            <4>2. \A m \in 1 .. Len(v) : v[m] = <<v[1]>>[m]
                BY <3>2, <4>1
            <4> HIDE DEF v
            <4> QED BY <3>1, <3>2, <4>1, <4>2, SeqEqual
        <3> QED BY <3>2, <3>3, <3>4
    <2>5. ps[q + 1] = SubSeq(x, j + 1, h) /\ j <= h
        BY <1>1, <2>1
    <2>6. i \in 0 .. Len(x) /\ j \in 0 .. Len(x) /\ h \in 0 .. Len(x) /\ i <= j
        BY <1>1, <2>1, <2>2
    <2>7. FlattenSeq(u) = SubSeq(x, i + 1, j)
        BY <2>2
    <2> HIDE DEF u, v, i, j, h
    <2>8. FlattenSeq(u \o v) = FlattenSeq(u) \o ps[q + 1]
        <3>1. v \in Seq(T) /\ FlattenSeq(v) = ps[q + 1]
            BY <2>4, FlattenOne
        <3>2. FlattenSeq(u \o v) = FlattenSeq(u) \o FlattenSeq(v)
            <4> HIDE DEF u, v
            <4>1. u \in Seq(T) /\ v \in Seq(T) /\ T = Seq(S)
                BY <2>3, <3>1
            <4> QED BY <4>1, FlattenConcatIn
        <3> QED BY <3>1, <3>2
    <2>9. j \in i .. Len(x) /\ h \in j .. Len(x)
        BY <1>1, <2>5, <2>6
    <2>10. SubSeq(x, i + 1, j) \o SubSeq(x, j + 1, h) = SubSeq(x, i + 1, h) /\ i <= h
        BY <1>1, <2>6, <2>9, PartsJoin
    <2>11. FlattenSeq(SubSeq(ps, a + 1, q + 1)) = SubSeq(x, i + 1, h) /\ i <= h
        BY <2>3, <2>5, <2>7, <2>8, <2>10
    <2> QED BY <2>1, <2>11 DEF i, h
<1> HIDE DEF P
<1>4. b - a \in P
    <2>1. b - a \in Nat
        BY <1>1
    <2> QED BY <1>2, <1>3, <2>1, InductionOver
<1>5. a + (b - a) = b
    BY <1>1
<1>6. Joined(b)
    BY <1>1, <1>4, <1>5 DEF P
<1> QED BY <1>6 DEF Joins

-----------------------------------------------------------------------------
\* The states char_span's loop goes through.
Visits(clusters, k, n) ==
    LET after[i \in 0 .. Len(clusters)] ==
            IF i = 0 THEN [total |-> 0, init |-> -1, end |-> -1]
            ELSE Visit(after[i - 1], clusters[i], k, n)
    IN after

\* What they are: the span begins once cluster k + 1 is visited, and ends once
\* cluster k + n is.
Visited(at, k, n, j) ==
    [total |-> j,
     init |-> IF j > k THEN at[k + 1] ELSE -1,
     end |-> IF n > 0 /\ k + n <= j THEN at[k + n + 1] ELSE -1]

\* One visit more.
LEMMA VisitedNext ==
    ASSUME NEW at, NEW k \in Nat, NEW n \in Int, NEW j \in Nat, j > 0, NEW c, c = <<at[j], at[j + 1]>>
    PROVE  Visit(Visited(at, k, n, j - 1), c, k, n) = Visited(at, k, n, j)
<1>1. (j - 1) + 1 = j /\ j - 1 \in Nat
    OBVIOUS
<1>2. (IF j - 1 = k THEN c[1] ELSE IF j - 1 > k THEN at[k + 1] ELSE -1) =
            IF j > k THEN at[k + 1] ELSE -1
    <2>1. CASE j - 1 = k
        <3>1. j = k + 1 /\ j > k
            BY <2>1
        <3> QED BY <2>1, <3>1
    <2>2. CASE j - 1 # k
        <3>1. j - 1 > k <=> j > k
            BY <2>2
        <3> QED BY <2>2, <3>1
    <2> QED BY <2>1, <2>2
<1>3. (IF n > 0 /\ j = k + n THEN c[2]
       ELSE IF n > 0 /\ k + n <= j - 1 THEN at[k + n + 1] ELSE -1) =
            IF n > 0 /\ k + n <= j THEN at[k + n + 1] ELSE -1
    <2>1. CASE n > 0 /\ j = k + n
        <3>1. j + 1 = k + n + 1 /\ k + n <= j
            BY <2>1
        <3> QED BY <2>1, <3>1
    <2>2. CASE ~(n > 0 /\ j = k + n)
        <3>1. n > 0 => (k + n <= j - 1 <=> k + n <= j)
            BY <2>2
        <3> QED BY <2>2, <3>1
    <2> QED BY <2>1, <2>2
<1> QED BY <1>1, <1>2, <1>3 DEF Visit, Visited

\* All of them.
LEMMA VisitsAre ==
    ASSUME NEW cl, NEW at, NEW k \in Nat, NEW n \in Int, Len(cl) \in Nat,
           \A i \in 1 .. Len(cl) : cl[i] = <<at[i], at[i + 1]>>
    PROVE  Visits(cl, k, n)[Len(cl)] = Visited(at, k, n, Len(cl))
<1> DEFINE m == Len(cl)
           first == [total |-> 0, init |-> -1, end |-> -1]
           Solves(f) == f = [i \in 0 .. m |-> IF i = 0 THEN first
                                            ELSE Visit(f[i - 1], cl[i], k, n)]
           g == [j \in 0 .. m |-> Visited(at, k, n, j)]
           after == Visits(cl, k, n)
<1>1. after = CHOOSE f : Solves(f)
    BY DEF Visits
<1>2. Visited(at, k, n, 0) = first
    BY DEF Visited
<1>3. ASSUME NEW j \in 1 .. m PROVE Visit(Visited(at, k, n, j - 1), cl[j], k, n) = Visited(at, k, n, j)
    <2>1. j \in Nat /\ j > 0
        OBVIOUS
    <2>2. cl[j] = <<at[j], at[j + 1]>>
        OBVIOUS
    <2> QED BY <2>1, <2>2, VisitedNext
<1> HIDE DEF first
<1>4. Solves(g)
    <2>1. ASSUME NEW i \in 0 .. m
          PROVE  g[i] = IF i = 0 THEN first ELSE Visit(g[i - 1], cl[i], k, n)
        <3>1. CASE i = 0
            BY <1>2, <3>1
        <3>2. CASE i # 0
            <4>1. i \in 1 .. m /\ i - 1 \in 0 .. m
                BY <3>2
            <4>2. g[i] = Visited(at, k, n, i) /\ g[i - 1] = Visited(at, k, n, i - 1)
                BY <4>1
            <4> QED BY <1>3, <3>2, <4>1, <4>2
        <3> QED BY <3>1, <3>2
    <2> QED BY <2>1, Zenon
<1> HIDE DEF g
<1>5. Solves(after)
    <2> HIDE DEF Solves, after
    <2> QED BY <1>1, <1>4
<1> HIDE DEF after
<1>6. ASSUME NEW i \in 0 .. m
      PROVE  after[i] = IF i = 0 THEN first ELSE Visit(after[i - 1], cl[i], k, n)
    BY <1>5
<1> DEFINE P == {j \in Nat : j <= m => after[j] = Visited(at, k, n, j)}
<1>7. 0 \in P
    BY <1>2, <1>6
<1>8. ASSUME NEW j \in Nat, j \in P PROVE j + 1 \in P
    <2> SUFFICES ASSUME j + 1 <= m PROVE after[j + 1] = Visited(at, k, n, j + 1)
        OBVIOUS
    <2>1. j + 1 \in 1 .. m /\ j + 1 \in 0 .. m /\ j + 1 # 0 /\ (j + 1) - 1 = j /\ j <= m
        OBVIOUS
    <2>2. after[j] = Visited(at, k, n, j)
        BY <1>8, <2>1
    <2>3. after[j + 1] = Visit(after[(j + 1) - 1], cl[j + 1], k, n)
        BY <1>6, <2>1
    <2>4. Visit(Visited(at, k, n, (j + 1) - 1), cl[j + 1], k, n) = Visited(at, k, n, j + 1)
        BY <1>3, <2>1
    <2> QED BY <2>1, <2>2, <2>3, <2>4
<1> HIDE DEF P
<1>9. m \in P
    BY <1>7, <1>8, InductionOver
<1>10. m <= m
    OBVIOUS
<1>11. after[m] = Visited(at, k, n, m)
    BY <1>9, <1>10 DEF P
<1> QED BY <1>11 DEF after

\* The places graphemes begin and end at, first to last.
LEMMA BreaksInOrder ==
    ASSUME NEW S, NEW x \in Seq(S), NEW breaks, breaks \in BreaksOf(x), NEW at, at = InOrder(breaks)
    PROVE  /\ Len(at) \in Nat \ {0} /\ DOMAIN at = 1 .. Len(at)
           /\ \A i \in 1 .. Len(at) : at[i] \in 0 .. Len(x)
           /\ \A i \in 1 .. Len(at) - 1 : at[i] <= at[i + 1]
           /\ at[Len(at)] = Len(x)
<1> DEFINE c == Cardinality(breaks)
           n == Len(x) + 1
<1>1. Len(x) \in Nat /\ n \in Nat /\ 0 .. n - 1 = 0 .. Len(x)
    OBVIOUS
<1>2. breaks \subseteq 0 .. Len(x) /\ 0 \in breaks /\ Len(x) \in breaks
    <2>1. PICK b \in SUBSET {i \in 1 .. Len(x) - 1 : WidthUpTo(x, i + 1) = 1} :
                breaks = {0, Len(x)} \cup b
        BY DEF BreaksOf
    <2>2. b \subseteq 1 .. Len(x) - 1
        OBVIOUS
    <2>3. 0 \in breaks /\ Len(x) \in breaks
        BY <2>1, Zenon
    <2>4. ASSUME NEW i \in breaks PROVE i \in 0 .. Len(x)
        <3>1. i = 0 \/ i = Len(x) \/ i \in b
            BY <2>1, Zenon
        <3>2. i \in b => i \in 1 .. Len(x) - 1
            BY <2>2, Zenon
        <3> QED BY <1>1, <3>1, <3>2
    <2> QED BY <2>3, <2>4, Zenon
<1>3. Lists(breaks)
    <2> HIDE DEF n
    <2> QED BY <1>1, <1>2, InOrderLists
<1>4. /\ c \in Nat /\ Len(at) = c /\ DOMAIN at = 1 .. c
      /\ \A k \in 1 .. c : at[k] \in breaks
      /\ \A j, k \in 1 .. c : j < k => at[j] < at[k]
      /\ \A i \in breaks : \E k \in 1 .. c : at[k] = i
    BY <1>3 DEF Lists
<1> HIDE DEF c
<1>5. PICK e \in 1 .. c : at[e] = Len(x)
    BY <1>2, <1>4
<1>6. c # 0 /\ c \in 1 .. c
    BY <1>4
<1>7. \A i \in 1 .. c : at[i] \in 0 .. Len(x)
    BY <1>2, <1>4
<1>8. ASSUME NEW i \in 1 .. c - 1 PROVE at[i] <= at[i + 1]
    <2>1. i \in 1 .. c /\ i + 1 \in 1 .. c /\ i < i + 1
        BY <1>4
    <2>2. at[i] < at[i + 1] /\ at[i] \in 0 .. Len(x) /\ at[i + 1] \in 0 .. Len(x)
        BY <1>4, <1>7, <2>1
    <2> QED BY <1>1, <2>2
<1>9. at[c] = Len(x)
    <2>1. CASE e = c
        BY <1>5, <2>1
    <2>2. CASE e # c
        <3>1. e < c
            BY <1>4, <2>2
        <3>2. at[e] < at[c]
            BY <1>4, <1>6, <3>1
        <3> QED BY <1>1, <1>5, <1>6, <1>7, <3>2
    <2> QED BY <2>1, <2>2
<1> QED BY <1>4, <1>6, <1>7, <1>8, <1>9

\* The text of each grapheme.
CharsOf(x, breaks) ==
    [i \in DOMAIN Clusters(breaks) |->
        LET c == Clusters(breaks)[i] IN SubSeq(x, c[1] + 1, c[2])]

\* They lie side by side from the first to the last.
LEMMA CharsAre ==
    ASSUME NEW S, NEW T, T = Seq(S), NEW x \in Seq(S), NEW breaks \in BreaksOf(x),
           NEW at, at = InOrder(breaks), NEW m, m = Len(at) - 1
    PROVE  /\ m \in Nat /\ Len(Clusters(breaks)) = m
           /\ \A i \in 1 .. m : Clusters(breaks)[i] = <<at[i], at[i + 1]>>
           /\ CharsOf(x, breaks) \in Seq(T)
           /\ Cuts(x, at, m, CharsOf(x, breaks))
           /\ at[m + 1] = Len(x)
<1> DEFINE cl == Clusters(breaks)
           ch == CharsOf(x, breaks)
<1>1. /\ Len(at) \in Nat \ {0} /\ DOMAIN at = 1 .. Len(at)
      /\ \A i \in 1 .. Len(at) : at[i] \in 0 .. Len(x)
      /\ \A i \in 1 .. Len(at) - 1 : at[i] <= at[i + 1]
      /\ at[Len(at)] = Len(x)
    BY BreaksInOrder
<1>2. m \in Nat /\ m + 1 = Len(at) /\ Len(x) \in Nat
    BY <1>1
<1>3. cl = [i \in 1 .. m |-> <<at[i], at[i + 1]>>]
    BY DEF Clusters
<1>4. Len(cl) = m /\ DOMAIN cl = 1 .. m /\ \A i \in 1 .. m : cl[i] = <<at[i], at[i + 1]>>
    BY <1>2, <1>3
<1>5. ASSUME NEW i \in 1 .. m PROVE cl[i][1] = at[i] /\ cl[i][2] = at[i + 1]
    BY <1>4
<1> HIDE DEF cl
<1>6. ch = [i \in 1 .. m |-> SubSeq(x, cl[i][1] + 1, cl[i][2])]
    BY <1>4 DEF CharsOf, cl
<1>7. ASSUME NEW i \in 1 .. m
      PROVE  ch[i] = SubSeq(x, at[i] + 1, at[i + 1]) /\ ch[i] \in T /\ at[i] <= at[i + 1]
    <2>1. ch[i] = SubSeq(x, at[i] + 1, at[i + 1])
        BY <1>5, <1>6, ZenonT(60)
    <2>2. i \in 1 .. Len(at) /\ i + 1 \in 1 .. Len(at) /\ i \in 1 .. Len(at) - 1
        BY <1>2
    <2>3. at[i] \in 0 .. Len(x) /\ at[i + 1] \in 0 .. Len(x) /\ at[i] <= at[i + 1]
        BY <1>1, <2>2
    <2> DEFINE p == at[i]
               q == at[i + 1]
    <2>4. p \in 0 .. Len(x) /\ q \in p .. Len(x)
        BY <1>2, <2>3
    <2> HIDE DEF p, q
    <2>5. SubSeq(x, p + 1, q) \in Seq(S)
        BY <2>4, PartIs
    <2> QED BY <2>1, <2>3, <2>5 DEF p, q
<1>8. Len(ch) = m /\ ch \in Seq(T)
    <2>1. DOMAIN ch = 1 .. m
        BY <1>6
    <2> HIDE DEF ch
    <2>2. Len(ch) = m
        BY <1>2, <1>6, <2>1 DEF ch
    <2>3. ch = [i \in 1 .. m |-> ch[i]]
        BY <1>6 DEF ch
    <2>4. [i \in 1 .. m |-> ch[i]] \in Seq(T)
        BY <1>2, <1>7
    <2> QED BY <2>2, <2>3, <2>4
<1> HIDE DEF ch
<1>9. \A i \in 1 .. m + 1 : at[i] \in 0 .. Len(x)
    BY <1>1, <1>2
<1>10. Cuts(x, at, m, ch)
    BY <1>2, <1>7, <1>8, <1>9 DEF Cuts
<1> QED BY <1>1, <1>2, <1>4, <1>8, <1>10 DEF cl, ch

-----------------------------------------------------------------------------
\* A text has so many graphemes.
LEMMA CharsCount ==
    ASSUME text \in PointTexts, NEW breaks \in BreaksOf(Nfc[text])
    PROVE  Len(CharsOf(Nfc[text], breaks)) \in Nat
<1>1. Nfc[text] \in Seq(Units)
    BY PointTextsAssumption
<1>2. CharsOf(Nfc[text], breaks) \in Seq(Seq(Units))
    BY <1>1, CharsAre
<1> QED BY <1>2

\* What char_span gives, for any text and its graphemes, from a start that is not
\* negative.
LEMMA SpannedIsChars ==
    ASSUME text \in PointTexts, NEW k \in Nat, NEW n \in Int,
           NEW breaks, breaks \in BreaksOf(Nfc[text])
    PROVE  LET chars == CharsOf(Nfc[text], breaks)
               most == IF n <= 0 THEN Len(chars) ELSE k + n
               end == IF most < Len(chars) THEN most ELSE Len(chars)
           IN Spanned(k, n, breaks) =
                    IF k >= Len(chars) THEN Raised
                    ELSE Text(FlattenSeq(SubSeq(chars, k + 1, end)))
<1> DEFINE x == Nfc[text]
           T == Seq(Units)
           at == InOrder(breaks)
           m == Len(at) - 1
           cl == Clusters(breaks)
           chars == CharsOf(x, breaks)
           most == IF n <= 0 THEN Len(chars) ELSE k + n
           end == IF most < Len(chars) THEN most ELSE Len(chars)
           s == Visits(cl, k, n)[Len(cl)]
<1>1. x \in Seq(Units) /\ breaks \in BreaksOf(x)
    BY PointTextsAssumption
<1>2. Spanned(k, n, breaks) =
        IF s.init = -1 THEN Raised
        ELSE Text(SubSeq(x, s.init + 1, IF s.end = -1 THEN Len(x) ELSE s.end))
    <2>1. Spanned(k, n, breaks) =
            IF k < 0 \/ s.init = -1 THEN Raised
            ELSE Text(SubSeq(x, s.init + 1, IF s.end = -1 THEN Len(x) ELSE s.end))
        BY DEF Spanned, Visits
    <2>2. ~(k < 0)
        OBVIOUS
    <2> HIDE DEF s
    <2> QED BY <2>1, <2>2
<1>3. T = Seq(Units) /\ at = InOrder(breaks) /\ m = Len(at) - 1
    OBVIOUS
<1> HIDE DEF x, T, at, m
<1>4. /\ m \in Nat /\ Len(cl) = m
      /\ \A i \in 1 .. m : cl[i] = <<at[i], at[i + 1]>>
      /\ chars \in Seq(T)
      /\ Cuts(x, at, m, chars)
      /\ at[m + 1] = Len(x)
    BY <1>1, <1>3, CharsAre
<1> HIDE DEF cl, chars
<1>5. s = Visited(at, k, n, m)
    BY <1>4, VisitsAre
<1> HIDE DEF s
<1>6. /\ s.init = IF m > k THEN at[k + 1] ELSE -1
      /\ s.end = IF n > 0 /\ k + n <= m THEN at[k + n + 1] ELSE -1
    BY <1>5 DEF Visited
<1>7. /\ Len(chars) = m /\ Len(x) \in Nat
      /\ \A i \in 1 .. m + 1 : at[i] \in 0 .. Len(x)
    BY <1>1, <1>4 DEF Cuts
<1>8. CASE k >= m
    BY <1>2, <1>4, <1>6, <1>7, <1>8 DEF x, chars
<1>9. CASE ~(k >= m)
    <2>1. end \in k .. m /\ k \in 0 .. m /\ k + 1 \in 1 .. m + 1 /\ m > k
        BY <1>4, <1>7, <1>9
    <2>2. s.init = at[k + 1] /\ s.init # -1
        BY <1>6, <1>7, <2>1
    <2>3. (IF s.end = -1 THEN Len(x) ELSE s.end) = at[end + 1]
        <3>1. CASE n > 0 /\ k + n <= m
            <4>1. end = k + n /\ k + n + 1 \in 1 .. m + 1
                BY <1>4, <1>7, <1>9, <3>1
            <4>2. s.end = at[k + n + 1] /\ s.end # -1
                BY <1>6, <1>7, <3>1, <4>1
            <4> QED BY <4>1, <4>2
        <3>2. CASE ~(n > 0 /\ k + n <= m)
            <4>1. end = m
                BY <1>4, <1>7, <3>2
            <4>2. s.end = -1
                BY <1>6, <3>2
            <4> HIDE DEF end
            <4> QED BY <1>4, <4>1, <4>2
        <3> QED BY <3>1, <3>2
    <2> HIDE DEF end
    <2>4. FlattenSeq(SubSeq(chars, k + 1, end)) = SubSeq(x, at[k + 1] + 1, at[end + 1])
        <3>1. T = Seq(Units) /\ x \in Seq(Units) /\ chars \in Seq(T) /\ Cuts(x, at, m, chars)
            BY <1>1, <1>3, <1>4
        <3>2. k \in 0 .. m /\ end \in k .. m
            BY <2>1
        <3>3. Joins(x, at, chars, k, end)
            BY <3>1, <3>2, PiecesJoin
        <3> QED BY <3>3 DEF Joins
    <2>5. Spanned(k, n, breaks) = Text(FlattenSeq(SubSeq(chars, k + 1, end)))
        BY <1>2, <2>2, <2>3, <2>4
    <2> QED BY <1>7, <1>9, <2>5 DEF x, chars, end
<1> QED BY <1>8, <1>9

SpanInv == PointsInv /\ SpanIsChars

\* No other step disturbs it.
LEMMA PointsKeepSpans == ASSUME SpanInv, PointsNext PROVE SpanIsChars'
<1>1. PointsInv /\ SpanIsChars
    BY DEF SpanInv
<1>2. CASE request'.method # "char_span"
    BY <1>2 DEF SpanIsChars
<1>3. ASSUME NEW k \in Around, NEW n \in Around, CharSpan(k, n) PROVE SpanIsChars'
    <2>1. PICK breaks \in BreaksOf(Nfc[text]) :
            Gets([method |-> "char_span", start |-> k, len |-> n, breaks |-> breaks],
                 Spanned(k, n, breaks))
        BY <1>3 DEF CharSpan
    <2>2. /\ text' = text /\ text \in PointTexts
          /\ request'.start = k /\ request'.len = n /\ request'.breaks = breaks
          /\ got' = Spanned(k, n, breaks)
        BY <1>1, <2>1 DEF Gets, PointsInv
    <2>3. k \in Int /\ n \in Int
        <3>1. text \in Seq(Units) /\ text # NoText
            BY <2>2, PointTextsAssumption
        <3>2. Len(text) \in Nat
            BY <3>1
        <3>3. k \in -(Len(text) + 1) .. Len(text) + 1 /\ n \in -(Len(text) + 1) .. Len(text) + 1
            BY <1>3, <3>1 DEF Around
        <3> QED BY <1>3, <3>2, <3>3
    <2>4. LET chars == CharsOf(Nfc[text], breaks)
              most == IF n <= 0 THEN Len(chars) ELSE k + n
              end == IF most < Len(chars) THEN most ELSE Len(chars)
          IN Spanned(k, n, breaks) =
                IF k \notin 0 .. Len(chars) - 1 THEN Raised
                ELSE Text(FlattenSeq(SubSeq(chars, k + 1, end)))
        <3> DEFINE chars == CharsOf(Nfc[text], breaks)
                   end == LET most == IF n <= 0 THEN Len(chars) ELSE k + n
                          IN IF most < Len(chars) THEN most ELSE Len(chars)
                   whole == Text(FlattenSeq(SubSeq(chars, k + 1, end)))
        <3>1. CASE k < 0
            <4>1. Spanned(k, n, breaks) = Raised
                BY <3>1 DEF Spanned
            <4>2. k \notin 0 .. Len(chars) - 1
                BY <2>3, <3>1
            <4> QED BY <4>1, <4>2
        <3>2. CASE ~(k < 0)
            <4>1. k \in Nat
                BY <2>3, <3>2
            <4>2. Spanned(k, n, breaks) = IF k >= Len(chars) THEN Raised ELSE whole
                BY <2>1, <2>2, <2>3, <4>1, SpannedIsChars
            <4>3. Len(chars) \in Nat
                BY <2>1, <2>2, CharsCount
            <4> HIDE DEF chars, whole
            <4>4. k >= Len(chars) <=> k \notin 0 .. Len(chars) - 1
                BY <4>1, <4>3
            <4> QED BY <4>2, <4>4 DEF chars, whole
        <3> QED BY <3>1, <3>2
    <2> QED BY <2>2, <2>4 DEF SpanIsChars, CharsOf
<1>4. CASE Unescape
    <2>1. request' = request /\ request.method = "unescape"
        BY <1>4 DEF Unescape, PlainUnit, Escape, InvalidEscape, UnescapeReturns, OnlyReads,
                    Unescaping
    <2> QED BY <1>2, <2>1
<1>5. CASE UnescapeBegin
    <2>1. request'.method = "unescape"
        BY <1>5 DEF UnescapeBegin, Gets
    <2> QED BY <1>2, <2>1
<1>6. CASE ForgetPoints
    <2>1. request'.method = "none"
        BY <1>6 DEF ForgetPoints
    <2> QED BY <1>2, <2>1
<1>7. ASSUME NEW first, NEW last, NEW excl,
             ConvUnitRange(first, last, excl) \/ ConvPointRange(first, last, excl)
      PROVE  SpanIsChars'
    <2>1. request'.method \in {"conv_unit_range", "conv_point_range"}
        BY <1>7 DEF ConvUnitRange, ConvPointRange, Gets
    <2> QED BY <1>2, <2>1
<1> QED BY <1>3, <1>4, <1>5, <1>6, <1>7 DEF PointsNext

\* char_span(k, n) is n graphemes of the NFC form from the k-th on, or all there are,
\* whatever the text and wherever ICU finds graphemes (ustr_char_span).
THEOREM ReadersSpan == ReadersSpec => []SpanIsChars
<1>1. ReadersInit => SpanInv
    BY DEF ReadersInit, PointsParked, PointsInit, NothingRead, PointsInv, SpanIsChars, SpanInv
<1>2. SpanInv /\ [ReadersNext]_readerVars => SpanInv'
    <2>1. ASSUME SpanInv, UNCHANGED pointVars PROVE SpanInv'
        BY <2>1 DEF pointVars, SpanInv, PointsInv, InText, SpanIsChars
    <2>2. ASSUME SpanInv, PointsNext PROVE SpanInv'
        BY <2>2, PointsKeepSpans, PointsKeepPoints DEF SpanInv
    <2> QED BY <2>1, <2>2 DEF ReadersNext, readerVars
<1>3. SpanInv => SpanIsChars
    BY DEF SpanInv
<1> QED BY <1>1, <1>2, <1>3, PTL DEF ReadersSpec

-----------------------------------------------------------------------------
\* Where a code point begins, and the end of the text.
Marks(x) == {i \in 0 .. Len(x) : i = Len(x) \/ WidthUpTo(x, i + 1) = 1}

\* From an index before the end, WidthFrom leads to the next mark.
LEMMA NextMark ==
    ASSUME NEW S, NEW x \in Seq(S), NEW i \in 0 .. Len(x) - 1, NEW w, w = WidthFrom(x, i + 1)
    PROVE  /\ w \in {1, 2} /\ i + w <= Len(x) /\ i + w \in Marks(x)
           /\ w = 2 => i + 1 \notin Marks(x)
<1>1. Len(x) \in Nat /\ i \in Nat /\ i + 1 <= Len(x)
    OBVIOUS
<1>2. CASE x[i + 1] \in Leads /\ i + 1 < Len(x) /\ x[i + 2] \in Trails
    <2>1. w = 2 /\ i + 2 <= Len(x)
        BY <1>1, <1>2 DEF WidthFrom
    <2>2. i + 1 \notin Marks(x)
        <3>1. (i + 1) + 1 = i + 2 /\ i + 2 > 1 /\ (i + 2) - 1 = i + 1 /\ i + 1 # Len(x)
            BY <1>1, <1>2
        <3>2. WidthUpTo(x, (i + 1) + 1) = 2
            BY <1>2, <3>1 DEF WidthUpTo
        <3> QED BY <3>1, <3>2 DEF Marks
    <2>3. i + 2 \in Marks(x)
        <3>1. x[i + 2] \notin Leads
            BY <1>2, UnitsAssumption
        <3>2. i + 2 \in 0 .. Len(x) /\ ((i + 2) + 1) - 1 = i + 2
            BY <1>1, <1>2
        <3>3. WidthUpTo(x, (i + 2) + 1) = 1
            BY <3>1, <3>2 DEF WidthUpTo
        <3> QED BY <3>2, <3>3 DEF Marks
    <2> QED BY <1>1, <2>1, <2>2, <2>3
<1>3. CASE ~(x[i + 1] \in Leads /\ i + 1 < Len(x) /\ x[i + 2] \in Trails)
    <2>1. w = 1
        BY <1>1, <1>3 DEF WidthFrom
    <2>2. i + 1 \in Marks(x)
        <3>1. i + 1 \in 0 .. Len(x) /\ (i + 1) + 1 = i + 2 /\ (i + 2) - 1 = i + 1
            BY <1>1
        <3>2. CASE i + 1 = Len(x)
            BY <3>1, <3>2 DEF Marks
        <3>3. CASE i + 1 # Len(x)
            <4>1. i + 1 < Len(x)
                BY <1>1, <3>3
            <4>2. WidthUpTo(x, (i + 1) + 1) = 1
                BY <1>3, <3>1, <4>1 DEF WidthUpTo
            <4> QED BY <3>1, <4>2 DEF Marks
        <3> QED BY <3>2, <3>3
    <2> QED BY <1>1, <2>1, <2>2
<1> QED BY <1>2, <1>3

\* The marks in their order: from 0 to the end of the text, each once.
Marked(x, at) ==
    /\ Len(at) \in Nat \ {0} /\ Len(x) \in Nat
    /\ \A k \in 1 .. Len(at) : at[k] \in 0 .. Len(x) /\ at[k] \in Marks(x)
    /\ \A j, k \in 1 .. Len(at) : j < k => at[j] < at[k]
    /\ \A i \in Marks(x) : \E k \in 1 .. Len(at) : at[k] = i
    /\ at[1] = 0 /\ at[Len(at)] = Len(x)

\* Sorted, the marks of a text are in that order.
LEMMA MarksInOrder ==
    ASSUME NEW S, NEW x \in Seq(S)
    PROVE  Marked(x, InOrder(Marks(x)))
<1> DEFINE at == InOrder(Marks(x))
           c == Cardinality(Marks(x))
           n == Len(x) + 1
<1>1. Len(x) \in Nat /\ n \in Nat /\ Marks(x) \subseteq 0 .. n - 1
    BY DEF Marks
<1>2. Lists(Marks(x))
    <2> HIDE DEF n
    <2> QED BY <1>1, InOrderLists
<1>3. /\ c \in Nat /\ Len(at) = c
      /\ \A k \in 1 .. c : at[k] \in Marks(x)
      /\ \A j, k \in 1 .. c : j < k => at[j] < at[k]
      /\ \A i \in Marks(x) : \E k \in 1 .. c : at[k] = i
    BY <1>2 DEF Lists
<1>4. 0 \in Marks(x) /\ Len(x) \in Marks(x) /\ \A i \in Marks(x) : i \in 0 .. Len(x)
    BY <1>1 DEF Marks, WidthUpTo
<1> HIDE DEF at, c
<1>5. \A k \in 1 .. c : at[k] \in 0 .. Len(x)
    BY <1>3, <1>4
<1>6. PICK b \in 1 .. c : at[b] = 0
    BY <1>3, <1>4
<1>7. PICK e \in 1 .. c : at[e] = Len(x)
    BY <1>3, <1>4
<1>8. c # 0 /\ 1 \in 1 .. c /\ c \in 1 .. c
    BY <1>3
<1>9. at[1] = 0
    <2>1. b > 1 => at[1] < at[b]
        BY <1>3, <1>8
    <2>2. at[1] \in 0 .. Len(x)
        BY <1>5, <1>8
    <2> QED BY <1>1, <1>6, <2>1, <2>2
<1>10. at[c] = Len(x)
    <2>1. e < c => at[e] < at[c]
        BY <1>3, <1>8
    <2>2. at[c] \in 0 .. Len(x)
        BY <1>5, <1>8
    <2> QED BY <1>1, <1>3, <1>7, <2>1, <2>2
<1> QED BY <1>1, <1>3, <1>5, <1>8, <1>9, <1>10 DEF Marked, at

\* WidthFrom leads from one to the next.
LEMMA NextAt ==
    ASSUME NEW S, NEW x \in Seq(S), NEW at, Marked(x, at), NEW k \in 1 .. Len(at) - 1
    PROVE  /\ at[k] \in 0 .. Len(x) - 1
           /\ at[k + 1] = at[k] + WidthFrom(x, at[k] + 1)
<1> DEFINE c == Len(at)
           i == at[k]
           j == at[k + 1]
           w == WidthFrom(x, i + 1)
<1>1. /\ c \in Nat /\ Len(x) \in Nat
      /\ \A h \in 1 .. c : at[h] \in 0 .. Len(x) /\ at[h] \in Marks(x)
      /\ \A g, h \in 1 .. c : g < h => at[g] < at[h]
      /\ \A l \in Marks(x) : \E h \in 1 .. c : at[h] = l
    BY DEF Marked
<1>2. k \in 1 .. c /\ k + 1 \in 1 .. c /\ k \in Nat
    BY <1>1
<1> HIDE DEF c
<1>3. i \in 0 .. Len(x) /\ j \in 0 .. Len(x) /\ i < j /\ j \in Marks(x)
    BY <1>1, <1>2
<1> HIDE DEF i, j
<1>4. i \in 0 .. Len(x) - 1
    BY <1>1, <1>3
<1>5. /\ w \in {1, 2} /\ i + w \in Marks(x)
      /\ w = 2 => i + 1 \notin Marks(x)
    BY <1>4, NextMark
<1> HIDE DEF w
<1>6. PICK h \in 1 .. c : at[h] = i + w
    BY <1>1, <1>5
<1>7. j <= i + w
    <2>1. h > k
        <3>1. CASE h = k
            BY <1>3, <1>5, <1>6, <3>1 DEF i
        <3>2. CASE h < k
            <4>1. at[h] < i
                BY <1>1, <1>2, <3>2 DEF i
            <4> QED BY <1>3, <1>5, <1>6, <4>1
        <3> QED BY <1>2, <3>1, <3>2
    <2>2. CASE h = k + 1
        BY <1>3, <1>6, <2>2 DEF j
    <2>3. CASE h > k + 1
        <3>1. j < at[h]
            BY <1>1, <1>2, <2>3 DEF j
        <3> QED BY <1>3, <1>5, <1>6, <3>1
    <2> QED BY <1>2, <2>1, <2>2, <2>3
<1>8. j = i + w
    <2>1. w = 2 => j # i + 1
        BY <1>3, <1>5
    <2> QED BY <1>3, <1>5, <1>7, <2>1
<1> QED BY <1>4, <1>8 DEF i, j, w

-----------------------------------------------------------------------------
\* A sequence, its first element put before the others.
LEMMA FirstAndOthers ==
    ASSUME NEW T, NEW n \in Nat, NEW f \in Seq(T), Len(f) = n + 1
    PROVE  <<f[1]>> \o [j \in 1 .. n |-> f[j + 1]] = f
<1> DEFINE u == <<f[1]>>
           v == [j \in 1 .. n |-> f[j + 1]]
<1>1. f[1] \in T /\ \A j \in 1 .. n : f[j + 1] \in T
    OBVIOUS
<1>2. u \in Seq(T) /\ Len(u) = 1 /\ u[1] = f[1]
    BY <1>1
<1>3. v \in Seq(T) /\ Len(v) = n /\ \A j \in 1 .. n : v[j] = f[j + 1]
    BY <1>1
<1> HIDE DEF u, v
<1>4. \A a, b \in Seq(T) :
        /\ a \o b \in Seq(T) /\ Len(a \o b) = Len(a) + Len(b)
        /\ \A q \in 1 .. Len(a) + Len(b) :
                (a \o b)[q] = IF q <= Len(a) THEN a[q] ELSE b[q - Len(a)]
    BY ConcatProperties
<1>5. /\ u \o v \in Seq(T) /\ Len(u \o v) = Len(u) + Len(v)
      /\ \A q \in 1 .. Len(u) + Len(v) :
            (u \o v)[q] = IF q <= Len(u) THEN u[q] ELSE v[q - Len(u)]
    BY <1>2, <1>3, <1>4, Zenon
<1>6. Len(u) + Len(v) = n + 1
    BY <1>2, <1>3
<1>7. ASSUME NEW q \in 1 .. n + 1 PROVE (u \o v)[q] = f[q]
    <2>1. q \in 1 .. Len(u) + Len(v)
        BY <1>6
    <2>2. (u \o v)[q] = IF q <= Len(u) THEN u[q] ELSE v[q - Len(u)]
        BY <1>5, <2>1
    <2>3. CASE q = 1
        BY <1>2, <2>2, <2>3
    <2>4. CASE q # 1
        <3>1. ~(q <= Len(u)) /\ q - Len(u) = q - 1 /\ q - 1 \in 1 .. n /\ (q - 1) + 1 = q
            BY <1>2, <2>4
        <3>2. v[q - 1] = f[(q - 1) + 1]
            BY <1>3, <3>1
        <3> QED BY <2>2, <3>1, <3>2
    <2> QED BY <2>3, <2>4
<1>8. u \o v = f
    <2>1. Len(u \o v) = Len(f) /\ \A q \in 1 .. Len(u \o v) : (u \o v)[q] = f[q]
        BY <1>5, <1>6, <1>7
    <2> QED BY <1>5, <2>1, SeqEqual
<1> QED BY <1>8 DEF u, v

\* What PointsOf says of each position.
PointRests(x) ==
    LET rest[i \in 1 .. Len(x) + 1] ==
            IF i > Len(x) THEN << >>
            ELSE <<SubSeq(x, i, i + WidthFrom(x, i) - 1)>> \o rest[i + WidthFrom(x, i)]
    IN rest

\* The recursion has a solution.
LEMMA PointRestsAre ==
    ASSUME NEW S, NEW x \in Seq(S)
    PROVE  \A i \in 1 .. Len(x) + 1 :
              PointRests(x)[i] =
                IF i > Len(x) THEN << >>
                ELSE <<SubSeq(x, i, i + WidthFrom(x, i) - 1)>> \o
                        PointRests(x)[i + WidthFrom(x, i)]
<1> DEFINE n == Len(x)
           W(i) == WidthFrom(x, i)
           Put(f, i) == IF i > n THEN << >> ELSE <<SubSeq(x, i, i + W(i) - 1)>> \o f[i + W(i)]
           Is(f, k) == f = [i \in n + 1 - k .. n + 1 |-> Put(f, i)]
           P == {k \in Nat : k <= n => \E f : Is(f, k)}
<1>0. n \in Nat
    OBVIOUS
<1>1. ASSUME NEW i \in 1 .. n PROVE W(i) \in {1, 2} /\ i + W(i) \in i + 1 .. n + 1
    <2>1. i - 1 \in 0 .. Len(x) - 1 /\ (i - 1) + 1 = i
        BY <1>0
    <2>2. W(i) \in {1, 2} /\ (i - 1) + W(i) <= Len(x)
        BY <2>1, NextMark
    <2> QED BY <1>0, <2>2
<1> HIDE DEF n
<1>2. 0 \in P
    <2> DEFINE f == [i \in n + 1 - 0 .. n + 1 |-> << >>]
    <2>1. ASSUME NEW i \in n + 1 - 0 .. n + 1 PROVE Put(f, i) = << >>
        BY <1>0
    <2> HIDE DEF Put
    <2>2. Is(f, 0)
        BY <2>1
    <2> QED BY <2>2
<1>3. ASSUME NEW k \in Nat, k \in P PROVE k + 1 \in P
    <2> SUFFICES ASSUME k + 1 <= n PROVE \E f : Is(f, k + 1)
        OBVIOUS
    <2>1. PICK f : Is(f, k)
        BY <1>0, <1>3, SMTT(40)
    <2> DEFINE g == [i \in n + 1 - (k + 1) .. n + 1 |-> IF i >= n + 1 - k THEN f[i] ELSE Put(f, i)]
    <2>2. ASSUME NEW i \in n + 1 - (k + 1) .. n + 1 PROVE g[i] = Put(g, i)
        <3>1. g[i] = Put(f, i)
            <4> HIDE DEF Put
            <4>1. CASE i >= n + 1 - k
                <5>1. i \in n + 1 - k .. n + 1
                    BY <1>0, <4>1
                <5>2. f[i] = Put(f, i)
                    BY <2>1, <5>1
                <5> QED BY <4>1, <5>2
            <4>2. CASE ~(i >= n + 1 - k)
                BY <4>2
            <4> QED BY <4>1, <4>2
        <3>2. Put(f, i) = Put(g, i)
            <4>1. CASE i > n
                BY <4>1
            <4>2. CASE ~(i > n)
                <5> DEFINE j == i + W(i)
                <5>1. i \in 1 .. n
                    BY <1>0, <4>2
                <5>2. j \in i + 1 .. n + 1
                    BY <1>1, <5>1
                <5> HIDE DEF j, W
                <5>3. j \in n + 1 - (k + 1) .. n + 1 /\ j >= n + 1 - k
                    BY <1>0, <5>1, <5>2
                <5>4. g[j] = f[j]
                    BY <5>3
                <5> HIDE DEF g
                <5> QED BY <4>2, <5>4 DEF j
            <4> QED BY <4>1, <4>2
        <3> QED BY <3>1, <3>2
    <2> HIDE DEF Put
    <2>3. g = [i \in n + 1 - (k + 1) .. n + 1 |-> g[i]]
        OBVIOUS
    <2> HIDE DEF g
    <2>4. Is(g, k + 1)
        BY <2>2, <2>3
    <2> QED BY <2>4
<1>4. \E f : Is(f, n)
    <2> HIDE DEF P, Is
    <2>1. n \in P
        BY <1>0, <1>2, <1>3, InductionOver
    <2>2. n <= n
        BY <1>0
    <2> QED BY <2>1, <2>2 DEF P
<1> DEFINE rest == PointRests(x)
           Solves(f) == f = [i \in 1 .. n + 1 |-> Put(f, i)]
<1>5. rest = CHOOSE f : Solves(f)
    BY DEF PointRests, n
<1>6. \E f : Solves(f)
    <2>1. n + 1 - n = 1
        BY <1>0
    <2> HIDE DEF Put
    <2> QED BY <1>4, <2>1
<1>7. Solves(rest)
    <2> HIDE DEF Solves, rest
    <2> QED BY <1>5, <1>6
<1> HIDE DEF rest, Put
<1>8. \A i \in 1 .. n + 1 : rest[i] = Put(rest, i)
    BY <1>7
<1> QED BY <1>8 DEF rest, Put, n

\* The code points lie side by side between the marks.
LEMMA PointsAre ==
    ASSUME NEW S, NEW T, T = Seq(S), NEW x \in Seq(S), NEW at, Marked(x, at),
           NEW m, m = Len(at) - 1
    PROVE  PointsOf(x) \in Seq(T) /\ Cuts(x, at, m, PointsOf(x))
<1> DEFINE rest == PointRests(x)
           piece(k) == SubSeq(x, at[k] + 1, at[k + 1])
           from(q) == [j \in 1 .. q |-> piece(m - q + j)]
           P == {q \in Nat : q <= m => rest[at[m + 1 - q] + 1] = from(q)}
<1>1. /\ m \in Nat /\ Len(at) = m + 1 /\ Len(x) \in Nat
      /\ \A k \in 1 .. m + 1 : at[k] \in 0 .. Len(x)
      /\ \A j, k \in 1 .. m + 1 : j < k => at[j] < at[k]
      /\ at[1] = 0 /\ at[m + 1] = Len(x)
    BY DEF Marked
<1>2. ASSUME NEW k \in 1 .. m
      PROVE  /\ piece(k) \in T /\ at[k] <= at[k + 1]
             /\ at[k] \in 0 .. Len(x) - 1 /\ at[k + 1] = at[k] + WidthFrom(x, at[k] + 1)
    <2>1. k \in 1 .. Len(at) - 1 /\ k \in 1 .. m + 1 /\ k + 1 \in 1 .. m + 1 /\ k < k + 1
        BY <1>1
    <2> DEFINE i == at[k]
               j == at[k + 1]
    <2>2. i \in 0 .. Len(x) /\ j \in 0 .. Len(x) /\ i < j
        BY <1>1, <2>1
    <2> HIDE DEF i, j
    <2>3. i \in 0 .. Len(x) /\ j \in i .. Len(x)
        BY <2>2
    <2>4. SubSeq(x, i + 1, j) \in Seq(S)
        BY <2>3, PartIs
    <2>5. i <= j
        BY <2>3
    <2> QED BY <2>1, <2>4, <2>5, NextAt DEF i, j
<1>3. \A i \in 1 .. Len(x) + 1 :
        rest[i] = IF i > Len(x) THEN << >>
                  ELSE <<SubSeq(x, i, i + WidthFrom(x, i) - 1)>> \o rest[i + WidthFrom(x, i)]
    BY PointRestsAre
<1> HIDE DEF rest
<1>4. ASSUME NEW q \in 0 .. m PROVE from(q) \in Seq(T) /\ Len(from(q)) = q
    <2>1. \A j \in 1 .. q : m - q + j \in 1 .. m
        BY <1>1
    <2> HIDE DEF piece
    <2>2. \A j \in 1 .. q : piece(m - q + j) \in T
        BY <1>2, <2>1
    <2>3. q \in Nat
        BY <1>1
    <2> QED BY <2>2, <2>3
<1> HIDE DEF piece
<1>5. 0 \in P
    <2>1. m + 1 - 0 = m + 1 /\ Len(x) + 1 \in 1 .. Len(x) + 1 /\ Len(x) + 1 > Len(x) /\ 0 \in 0 .. m
        BY <1>1
    <2>2. rest[Len(x) + 1] = << >>
        BY <1>3, <2>1
    <2>3. from(0) = << >>
        BY <1>4, <2>1, EmptySeq
    <2> HIDE DEF from
    <2> QED BY <1>1, <2>1, <2>2, <2>3
<1>6. ASSUME NEW q \in Nat, q \in P PROVE q + 1 \in P
    <2> SUFFICES ASSUME q + 1 <= m PROVE rest[at[m + 1 - (q + 1)] + 1] = from(q + 1)
        OBVIOUS
    <2> DEFINE k == m - q
               i == at[k] + 1
               f == from(q + 1)
    <2>1. /\ k \in 1 .. m /\ m + 1 - (q + 1) = k /\ m + 1 - q = k + 1
          /\ q \in 0 .. m /\ q + 1 \in 0 .. m /\ q <= m
        BY <1>1
    <2>2. rest[at[k + 1] + 1] = from(q)
        BY <1>6, <2>1
    <2>3. f \in Seq(T) /\ Len(f) = q + 1
        BY <1>4, <2>1
    <2>4. f[1] = piece(k)
        <3>1. m - (q + 1) + 1 = k /\ 1 \in 1 .. q + 1
            BY <1>1
        <3> QED BY <3>1, Zenon
    <2>5. [j \in 1 .. q |-> f[j + 1]] = from(q)
        <3>1. ASSUME NEW j \in 1 .. q PROVE f[j + 1] = piece(m - q + j)
            <4>1. m - (q + 1) + (j + 1) = m - q + j /\ j + 1 \in 1 .. q + 1
                BY <1>1
            <4> QED BY <4>1, Zenon
        <3> HIDE DEF f
        <3> QED BY <3>1
    <2> HIDE DEF k, f, from
    <2>6. <<f[1]>> \o [j \in 1 .. q |-> f[j + 1]] = f
        BY <2>3, FirstAndOthers
    <2>7. /\ i \in 1 .. Len(x) + 1 /\ ~(i > Len(x))
          /\ i + WidthFrom(x, i) = at[k + 1] + 1 /\ i + WidthFrom(x, i) - 1 = at[k + 1]
        <3> DEFINE w == WidthFrom(x, at[k] + 1)
                   a == at[k]
                   b == at[k + 1]
        <3>1. at[k] \in 0 .. Len(x) - 1 /\ at[k + 1] = at[k] + w /\ at[k + 1] \in 0 .. Len(x)
            <4>1. k + 1 \in 1 .. m + 1
                BY <1>1, <2>1
            <4> QED BY <1>1, <1>2, <2>1, <4>1
        <3>2. w \in {1, 2}
            BY DEF WidthFrom
        <3> HIDE DEF w, a, b
        <3>3. a \in 0 .. Len(x) - 1 /\ b = a + w /\ b \in 0 .. Len(x)
            BY <3>1 DEF a, b
        <3>4. /\ a + 1 \in 1 .. Len(x) + 1 /\ ~(a + 1 > Len(x))
              /\ (a + 1) + w = b + 1 /\ (a + 1) + w - 1 = b
            BY <1>1, <3>2, <3>3
        <3> QED BY <3>4 DEF w, a, b
    <2>8. rest[i] = <<SubSeq(x, i, at[k + 1])>> \o rest[at[k + 1] + 1]
        BY <1>3, <2>7
    <2>9. SubSeq(x, i, at[k + 1]) = piece(k)
        BY DEF piece
    <2>10. rest[i] = f
        BY <2>2, <2>4, <2>5, <2>6, <2>8, <2>9
    <2> QED BY <2>1, <2>10 DEF f
<1>7. m \in P
    <2> HIDE DEF P
    <2> QED BY <1>1, <1>5, <1>6, InductionOver
<1>8. rest[1] = from(m)
    <2>1. m <= m /\ m + 1 - m = 1 /\ at[1] + 1 = 1
        BY <1>1
    <2>2. rest[at[m + 1 - m] + 1] = from(m)
        BY <1>7, <2>1
    <2> HIDE DEF from
    <2> QED BY <2>1, <2>2
<1>9. PointsOf(x) = from(m)
    BY <1>8 DEF PointsOf, PointRests, rest
<1>10. from(m) \in Seq(T) /\ Len(from(m)) = m
    <2>1. m \in 0 .. m
        BY <1>1
    <2> QED BY <1>4, <2>1
<1>11. ASSUME NEW k \in 1 .. m PROVE from(m)[k] = piece(k)
    <2>1. m - m + k = k
        BY <1>1
    <2> QED BY <2>1, Zenon
<1> HIDE DEF from
<1> QED BY <1>1, <1>2, <1>9, <1>10, <1>11 DEF Cuts, piece

-----------------------------------------------------------------------------
\* What U16_FWD_N does turn by turn.
FwdSteps(x, i, n) ==
    LET after[k \in 0 .. n] ==
            IF k = 0 THEN i
            ELSE IF after[k - 1] < Len(x)
                 THEN after[k - 1] + WidthFrom(x, after[k - 1] + 1)
            ELSE after[k - 1]
    IN after

\* The mark that is n marks on from the k-th, or the end of the text.
Forward(at, k, n, e) ==
    LET m == Len(at) - 1
    IN k \in 0 .. m /\ n \in Nat /\ e = IF k + n < m THEN k + n ELSE m

\* From a mark, U16_FWD_N goes to that one.
LEMMA FwdIs ==
    ASSUME NEW S, NEW x \in Seq(S), NEW at, Marked(x, at),
           NEW k, NEW n, NEW e, Forward(at, k, n, e)
    PROVE  FwdN(x, at[k + 1], n) = at[e + 1]
<1> DEFINE m == Len(at) - 1
           L == Len(x)
           i == at[k + 1]
           mark(j) == IF k + j < m THEN k + j + 1 ELSE m + 1
           go(v) == IF v < L THEN v + WidthFrom(x, v + 1) ELSE v
           Put(f, j) == IF j = 0 THEN i
                        ELSE IF f[j - 1] < L
                             THEN f[j - 1] + WidthFrom(x, f[j - 1] + 1)
                        ELSE f[j - 1]
           Is(f) == f = [j \in 0 .. n |-> Put(f, j)]
           g == [j \in 0 .. n |-> at[mark(j)]]
           after == FwdSteps(x, i, n)
           P == {j \in Nat : j <= n => after[j] = at[mark(j)]}
<1>0. k \in 0 .. m /\ n \in Nat /\ e = IF k + n < m THEN k + n ELSE m
    BY DEF Forward
<1>1. /\ m \in Nat /\ Len(at) = m + 1 /\ L \in Nat
      /\ \A h \in 1 .. m + 1 : at[h] \in 0 .. L
      /\ at[m + 1] = L
    BY DEF Marked
<1> HIDE DEF m
<1>2. ASSUME NEW j \in 1 .. n PROVE at[mark(j)] = go(at[mark(j - 1)])
    <2>1. CASE k + (j - 1) < m
        <3> DEFINE h == k + j
        <3>1. mark(j - 1) = h /\ h \in 1 .. Len(at) - 1 /\ mark(j) = h + 1
            BY <1>0, <1>1, <2>1
        <3> HIDE DEF h, mark, L
        <3>2. at[h] \in 0 .. Len(x) - 1 /\ at[h + 1] = at[h] + WidthFrom(x, at[h] + 1)
            BY <3>1, NextAt
        <3>3. at[h] < L
            BY <1>1, <3>2 DEF L
        <3>4. go(at[h]) = at[h] + WidthFrom(x, at[h] + 1)
            BY <3>3
        <3> QED BY <3>1, <3>2, <3>4
    <2>2. CASE ~(k + (j - 1) < m)
        <3>1. mark(j - 1) = m + 1 /\ mark(j) = m + 1
            BY <1>0, <1>1, <2>2
        <3>2. ~(L < L)
            BY <1>1
        <3> HIDE DEF mark, L
        <3> QED BY <1>1, <3>1, <3>2
    <2> QED BY <2>1, <2>2
<1>3. mark(0) = k + 1
    BY <1>0, <1>1
<1>4. mark(n) = e + 1
    BY <1>0, <1>1
<1>5. after = CHOOSE f : Is(f)
    BY DEF FwdSteps
<1>6. \A f : \A j \in 0 .. n : Put(f, j) = IF j = 0 THEN i ELSE go(f[j - 1])
    BY <1>0
<1> HIDE DEF mark, go, Put, i
<1>7. Is(g)
    <2>1. ASSUME NEW j \in 0 .. n PROVE at[mark(j)] = Put(g, j)
        <3>1. CASE j = 0
            BY <1>3, <1>6, <3>1 DEF i
        <3>2. CASE j # 0
            <4>1. j \in 1 .. n /\ j - 1 \in 0 .. n
                BY <1>0, <3>2
            <4>2. g[j - 1] = at[mark(j - 1)]
                BY <4>1
            <4> HIDE DEF g
            <4> QED BY <1>2, <1>6, <3>2, <4>1, <4>2
        <3> QED BY <3>1, <3>2
    <2>2. \A j \in 0 .. n : g[j] = at[mark(j)]
        BY <1>0
    <2>3. g = [j \in 0 .. n |-> g[j]]
        BY <1>0
    <2> HIDE DEF g
    <2> QED BY <2>1, <2>2, <2>3
<1> HIDE DEF g
<1>8. Is(after)
    <2> HIDE DEF Is, after
    <2> QED BY <1>5, <1>7
<1> HIDE DEF after
<1>9. \A j \in 0 .. n : after[j] = IF j = 0 THEN i ELSE go(after[j - 1])
    BY <1>6, <1>8
<1>10. 0 \in P
    <2>1. 0 \in 0 .. n
        BY <1>0
    <2>2. after[0] = i
        BY <1>9, <2>1
    <2> QED BY <1>3, <2>2 DEF i
<1>11. ASSUME NEW j \in Nat, j \in P PROVE j + 1 \in P
    <2> SUFFICES ASSUME j + 1 <= n PROVE after[j + 1] = at[mark(j + 1)]
        BY <1>0
    <2>1. j + 1 \in 1 .. n /\ j + 1 \in 0 .. n /\ j + 1 # 0 /\ (j + 1) - 1 = j /\ j <= n
        BY <1>0
    <2>2. after[j] = at[mark(j)]
        BY <1>11, <2>1
    <2>3. after[j + 1] = go(after[(j + 1) - 1])
        BY <1>9, <2>1, Zenon
    <2>4. at[mark(j + 1)] = go(at[mark((j + 1) - 1)])
        BY <1>2, <2>1
    <2> QED BY <2>1, <2>2, <2>3, <2>4
<1>12. after[n] = at[mark(n)]
    <2> HIDE DEF P
    <2>1. n \in P
        BY <1>0, <1>10, <1>11, InductionOver
    <2>2. n <= n
        BY <1>0
    <2> QED BY <2>1, <2>2 DEF P
<1>13. FwdN(x, i, n) = after[n]
    BY DEF FwdN, FwdSteps, after
<1> QED BY <1>4, <1>12, <1>13 DEF i

\* The first mark that is not before an index q.
Reaches(x, at, k, e, q) ==
    /\ k \in 0 .. Len(at) - 1 /\ e \in k .. Len(at) - 1 /\ q \in at[k + 1] .. Len(x)
    /\ q <= at[e + 1]
    /\ e > k => at[e] < q

\* From a mark to an index, units that are not the second of a pair are as many as the
\* marks in between.
LEMMA CountIs ==
    ASSUME NEW S, NEW x \in Seq(S), NEW at, Marked(x, at), NEW k, NEW e, NEW q,
           Reaches(x, at, k, e, q)
    PROVE  CountChar32(SubSeq(x, at[k + 1] + 1, q)) = e - k
<1> DEFINE m == Len(at) - 1
           p == at[k + 1]
           y == SubSeq(x, p + 1, q)
           D == {i \in DOMAIN y : WidthUpTo(y, i) = 1}
           f == [j \in 1 .. e - k |-> at[k + j] - p + 1]
<1>1. /\ m \in Nat /\ Len(at) = m + 1 /\ Len(x) \in Nat
      /\ \A h \in 1 .. m + 1 : at[h] \in 0 .. Len(x) /\ at[h] \in Marks(x)
      /\ \A g, h \in 1 .. m + 1 : g < h => at[g] < at[h]
      /\ \A i \in Marks(x) : \E h \in 1 .. m + 1 : at[h] = i
    BY DEF Marked
<1>0. /\ k \in 0 .. m /\ e \in k .. m /\ q \in at[k + 1] .. Len(x)
      /\ q <= at[e + 1] /\ (e > k => at[e] < q)
    BY DEF Reaches
<1> HIDE DEF m
<1>2. k + 1 \in 1 .. m + 1 /\ e + 1 \in 1 .. m + 1 /\ k \in Nat /\ e \in Nat /\ e - k \in Nat
    BY <1>0, <1>1
<1>3. p \in 0 .. Len(x) /\ p \in Marks(x) /\ q \in p .. Len(x)
    BY <1>0, <1>1, <1>2
<1> HIDE DEF p
<1>4. /\ y \in Seq(S) /\ Len(y) = q - p /\ DOMAIN y = 1 .. q - p
      /\ \A i \in 1 .. q - p : y[i] = x[p + i]
    <2>1. /\ y \in Seq(S) /\ Len(y) = q - p
          /\ \A i \in 1 .. q - p : y[i] = x[p + i]
        BY <1>3, PartIs
    <2> HIDE DEF y
    <2>2. DOMAIN y = 1 .. Len(y)
        BY <2>1
    <2> QED BY <2>1, <2>2
<1> HIDE DEF y
<1>5. ASSUME NEW i \in 1 .. q - p
      PROVE  WidthUpTo(y, i) = 1 <=> p + i - 1 \in Marks(x)
    <2>1. /\ p + i - 1 \in 0 .. Len(x) /\ p + i - 1 # Len(x) /\ (p + i - 1) + 1 = p + i
          /\ y[i] = x[p + i]
        <3>1. y[i] = x[p + i]
            BY <1>4
        <3>2. p + i - 1 \in 0 .. Len(x) /\ p + i - 1 # Len(x) /\ (p + i - 1) + 1 = p + i
            BY <1>1, <1>3
        <3> QED BY <3>1, <3>2
    <2>2. p + i - 1 \in Marks(x) <=> WidthUpTo(x, p + i) = 1
        BY <2>1 DEF Marks
    <2>3. CASE i = 1
        <3>1. p + i - 1 = p
            BY <1>3, <2>3
        <3>2. WidthUpTo(y, i) = 1
            BY <2>3 DEF WidthUpTo
        <3> QED BY <1>3, <3>1, <3>2
    <2>4. CASE i # 1
        <3>1. i - 1 \in 1 .. q - p /\ i > 1 /\ p + i > 1 /\ p + (i - 1) = (p + i) - 1
            BY <1>3, <2>4
        <3>2. y[i - 1] = x[(p + i) - 1]
            BY <1>4, <3>1
        <3>3. WidthUpTo(y, i) = WidthUpTo(x, p + i)
            BY <2>1, <3>1, <3>2 DEF WidthUpTo
        <3> QED BY <2>2, <3>3
    <2> QED BY <2>3, <2>4
<1>6. ASSUME NEW j \in 1 .. e - k
      PROVE  /\ k + j \in 1 .. m + 1 /\ at[k + j] - p + 1 \in 1 .. q - p
             /\ at[k + j] - p + 1 \in D
    <2>1. k + j \in 1 .. m + 1 /\ k + j >= k + 1 /\ k + j <= e /\ e > k /\ e \in 1 .. m + 1
        BY <1>1, <1>2
    <2> DEFINE a == at[k + j]
    <2>2. p <= a
        <3>1. CASE k + j = k + 1
            BY <1>3, <3>1 DEF p
        <3>2. CASE k + j # k + 1
            <4>1. k + 1 < k + j
                BY <1>2, <2>1, <3>2
            <4> QED BY <1>1, <1>2, <1>3, <2>1, <4>1, SMTT(40) DEF p
        <3> QED BY <3>1, <3>2
    <2>3. a < q
        <3>1. at[e] < q /\ at[e] \in 0 .. Len(x) /\ a \in 0 .. Len(x)
            BY <1>0, <1>1, <2>1
        <3>2. CASE k + j = e
            BY <3>1, <3>2
        <3>3. CASE k + j # e
            <4>1. k + j < e
                BY <2>1, <3>3
            <4>2. a < at[e]
                BY <1>1, <2>1, <4>1
            <4> QED BY <1>3, <3>1, <4>2
        <3> QED BY <3>2, <3>3
    <2>4. a \in 0 .. Len(x) /\ a \in Marks(x)
        BY <1>1, <2>1
    <2> HIDE DEF a
    <2>5. a - p + 1 \in 1 .. q - p /\ p + (a - p + 1) - 1 = a
        BY <1>1, <1>3, <2>2, <2>3, <2>4
    <2>6. WidthUpTo(y, a - p + 1) = 1
        BY <1>5, <2>4, <2>5
    <2> QED BY <1>4, <2>1, <2>5, <2>6 DEF a
<1>7. ASSUME NEW i \in D PROVE \E j \in 1 .. e - k : at[k + j] - p + 1 = i
    <2>1. i \in 1 .. q - p /\ p + i - 1 \in Marks(x)
        BY <1>4, <1>5
    <2>2. PICK h \in 1 .. m + 1 : at[h] = p + i - 1
        BY <1>1, <2>1
    <2>3. p <= at[h] /\ at[h] < q
        BY <1>3, <2>1, <2>2
    <2>4. h >= k + 1
        <3> SUFFICES ASSUME h < k + 1 PROVE FALSE
            BY <1>2
        <3>1. at[h] < p
            BY <1>1, <1>2 DEF p
        <3> QED BY <1>3, <2>1, <2>2, <2>3, <3>1
    <2>5. h <= e
        <3> SUFFICES ASSUME ~(h <= e) PROVE FALSE
            OBVIOUS
        <3>1. h = e + 1 \/ e + 1 < h
            BY <1>2
        <3>2. at[e + 1] <= at[h]
            BY <1>1, <1>2, <3>1, SMTT(40)
        <3>3. at[e + 1] \in 0 .. Len(x) /\ at[h] \in 0 .. Len(x)
            BY <1>1, <1>2
        <3> QED BY <1>0, <1>1, <1>3, <2>3, <3>2, <3>3, SMTT(40)
    <2>6. h - k \in 1 .. e - k /\ k + (h - k) = h
        BY <1>2, <2>4, <2>5
    <2>7. at[h] - p + 1 = i
        BY <1>3, <2>1, <2>2
    <2> QED BY <2>6, <2>7
<1>8. ASSUME NEW j \in 1 .. e - k, NEW l \in 1 .. e - k,
             at[k + j] - p + 1 = at[k + l] - p + 1
      PROVE  j = l
    <2>1. k + j \in 1 .. m + 1 /\ k + l \in 1 .. m + 1
        BY <1>6
    <2>2. at[k + j] \in 0 .. Len(x) /\ at[k + l] \in 0 .. Len(x)
        BY <1>1, <2>1
    <2>3. at[k + j] = at[k + l]
        <3> DEFINE a == at[k + j]
                   b == at[k + l]
        <3>1. a - p + 1 = b - p + 1
            BY <1>8, Zenon
        <3>2. a \in 0 .. Len(x) /\ b \in 0 .. Len(x)
            BY <2>2
        <3> HIDE DEF a, b
        <3>3. a = b
            BY <1>1, <1>3, <3>1, <3>2
        <3> QED BY <3>3 DEF a, b
    <2>4. ~(k + j < k + l) /\ ~(k + l < k + j)
        BY <1>1, <2>1, <2>2, <2>3
    <2> QED BY <1>2, <2>4
<1> HIDE DEF D
<1>9. f \in Bijection(1 .. e - k, D)
    <2>1. f \in [1 .. e - k -> D]
        BY <1>6
    <2>2. \A j, l \in 1 .. e - k : f[j] = f[l] => j = l
        BY <1>8
    <2>3. \A i \in D : \E j \in 1 .. e - k : f[j] = i
        BY <1>7
    <2> HIDE DEF f
    <2>4. IsInjective(f)
        BY <2>1, <2>2 DEF IsInjective
    <2> QED BY <2>1, <2>3, <2>4 DEF Bijection, Injection, Surjection
<1>10. Cardinality(D) = e - k
    <2> HIDE DEF f
    <2>1. ExistsBijection(1 .. e - k, D)
        BY <1>9 DEF ExistsBijection
    <2> QED BY <1>2, <2>1, FS_CountingElements
<1> QED BY <1>10 DEF CountChar32, D, y, p

-----------------------------------------------------------------------------
\* A whole sequence is a part of itself.
LEMMA WholePart ==
    ASSUME NEW S, NEW x \in Seq(S)
    PROVE  SubSeq(x, 1, Len(x)) = x
<1>1. 0 \in 0 .. Len(x) /\ Len(x) \in 0 .. Len(x) /\ Len(x) \in Nat /\ 0 + 1 = 1 /\ Len(x) - 0 = Len(x)
    OBVIOUS
<1> DEFINE y == SubSeq(x, 0 + 1, Len(x))
<1>2. y \in Seq(S) /\ Len(y) = Len(x) - 0 /\ \A k \in 1 .. Len(x) - 0 : y[k] = x[0 + k]
    BY <1>1, PartIs
<1> HIDE DEF y
<1>3. \A k \in 1 .. Len(y) : y[k] = x[k]
    <2>1. \A k \in 1 .. Len(x) : 0 + k = k
        OBVIOUS
    <2> QED BY <1>1, <1>2, <2>1
<1>4. y = x
    BY <1>1, <1>2, <1>3, SeqEqual
<1> QED BY <1>1, <1>4 DEF y

\* A part without its last element.
LEMMA PartFront ==
    ASSUME NEW S, NEW x \in Seq(S), NEW i \in 0 .. Len(x), NEW j \in i .. Len(x) - 1
    PROVE  LET y == SubSeq(x, i + 1, j + 1) IN
           y # << >> /\ Front(y) = SubSeq(x, i + 1, j) /\ Last(y) = x[j + 1]
<1> DEFINE y == SubSeq(x, i + 1, j + 1)
           z == SubSeq(x, i + 1, j)
           f == SubSeq(y, 0 + 1, j - i)
<1>1. /\ Len(x) \in Nat /\ j \in i .. Len(x) /\ j + 1 \in i .. Len(x) /\ (j + 1) - i = j - i + 1
      /\ j - i \in Nat /\ i + (j - i + 1) = j + 1 /\ (j - i) - 0 = j - i /\ i \in Nat
    OBVIOUS
<1>2. y \in Seq(S) /\ Len(y) = j - i + 1 /\ \A q \in 1 .. j - i + 1 : y[q] = x[i + q]
    BY <1>1, PartIs
<1>3. z \in Seq(S) /\ Len(z) = j - i /\ \A q \in 1 .. j - i : z[q] = x[i + q]
    BY <1>1, PartIs
<1> HIDE DEF y, z
<1>4. 0 \in 0 .. Len(y) /\ j - i \in 0 .. Len(y)
    BY <1>1, <1>2
<1>5. f \in Seq(S) /\ Len(f) = j - i /\ \A q \in 1 .. j - i : f[q] = y[0 + q]
    BY <1>1, <1>2, <1>4, PartIs
<1>6. Front(y) = f
    <2>1. Len(y) - 1 = j - i /\ 0 + 1 = 1
        BY <1>1, <1>2
    <2> QED BY <2>1 DEF Front
<1> HIDE DEF f
<1>7. f = z
    <2>1. ASSUME NEW q \in 1 .. j - i PROVE f[q] = z[q]
        <3>1. 0 + q = q /\ q \in 1 .. j - i + 1
            BY <1>1
        <3> QED BY <1>2, <1>3, <1>5, <3>1
    <2> QED BY <1>3, <1>5, <2>1, SeqEqual
<1>8. Last(y) = x[j + 1] /\ y # << >>
    <2>1. j - i + 1 \in 1 .. j - i + 1 /\ j - i + 1 # 0
        BY <1>1
    <2>2. y[j - i + 1] = x[i + (j - i + 1)]
        BY <1>2, <2>1
    <2> QED BY <1>1, <1>2, <2>1, <2>2 DEF Last
<1> QED BY <1>6, <1>7, <1>8 DEF y, z

\* Every index from a mark on has such a mark.
LEMMA MarkReached ==
    ASSUME NEW S, NEW x \in Seq(S), NEW at, Marked(x, at),
           NEW k \in 0 .. Len(at) - 1, NEW q \in at[k + 1] .. Len(x)
    PROVE  \E e : Reaches(x, at, k, e, q)
<1> DEFINE m == Len(at) - 1
           D == {e \in k .. m : q <= at[e + 1]}
<1>1. m \in Nat /\ Len(x) \in Nat /\ at[m + 1] = Len(x) /\ k \in 0 .. m
      /\ \A h \in 1 .. m + 1 : at[h] \in 0 .. Len(x)
    BY DEF Marked
<1> HIDE DEF m
<1>2. k + 1 \in 1 .. m + 1
    BY <1>1
<1>3. q \in Nat /\ q <= Len(x)
    <2>1. at[k + 1] \in 0 .. Len(x)
        BY <1>1, <1>2
    <2> QED BY <2>1
<1>4. m \in D
    BY <1>1, <1>3
<1>5. D \subseteq Nat /\ D # {}
    <2>1. ASSUME NEW h \in D PROVE h \in Nat
        BY <1>1
    <2> HIDE DEF D
    <2> QED BY <1>4, <2>1
<1>6. PICK e \in D : \A h \in D : e <= h
    <2> HIDE DEF D
    <2> QED BY <1>5, LeastMember
<1>7. e > k => at[e] < q
    <2> SUFFICES ASSUME e > k PROVE at[e] < q
        OBVIOUS
    <2>1. e - 1 \in k .. m /\ (e - 1) + 1 = e /\ e \in 1 .. m + 1 /\ ~(e <= e - 1)
        BY <1>1
    <2>2. e - 1 \notin D
        BY <1>6, <2>1
    <2>3. ~(q <= at[e])
        BY <2>1, <2>2
    <2>4. at[e] \in 0 .. Len(x)
        BY <1>1, <2>1
    <2> QED BY <1>3, <2>3, <2>4
<1>8. Reaches(x, at, k, e, q)
    BY <1>1, <1>6, <1>7 DEF Reaches, m
<1> QED BY <1>8

\* An index is a mark, or it is inside a pair whose end is the next one.
LEMMA ReachedIs ==
    ASSUME NEW S, NEW x \in Seq(S), NEW at, Marked(x, at), NEW k, NEW e, NEW q,
           Reaches(x, at, k, e, q)
    PROVE  \/ at[e + 1] = q
           \/ at[e + 1] = q + 1 /\ q + 1 <= Len(x) /\ x[q + 1] \in Trails
<1> DEFINE m == Len(at) - 1
<1>1. /\ m \in Nat /\ Len(x) \in Nat /\ Len(at) = m + 1
      /\ \A h \in 1 .. m + 1 : at[h] \in 0 .. Len(x) /\ at[h] \in Marks(x)
      /\ \A g, h \in 1 .. m + 1 : g < h => at[g] < at[h]
      /\ \A i \in Marks(x) : \E h \in 1 .. m + 1 : at[h] = i
    BY DEF Marked
<1>2. /\ k \in 0 .. m /\ e \in k .. m /\ q \in at[k + 1] .. Len(x)
      /\ q <= at[e + 1] /\ (e > k => at[e] < q)
    BY DEF Reaches
<1> HIDE DEF m
<1>3. k + 1 \in 1 .. m + 1 /\ e + 1 \in 1 .. m + 1 /\ k \in Nat /\ e \in Nat
    BY <1>1, <1>2
<1>4. at[k + 1] \in 0 .. Len(x) /\ at[e + 1] \in 0 .. Len(x)
    BY <1>1, <1>3
<1>5. q \in 0 .. Len(x) /\ at[k + 1] <= q
    BY <1>2, <1>4
<1>6. CASE e = k
    <2>1. at[e + 1] = q
        BY <1>2, <1>4, <1>5, <1>6
    <2> QED BY <2>1
<1>7. CASE e # k
    <2>1. e > k /\ e \in 1 .. m + 1 /\ e \in 1 .. Len(at) - 1
        BY <1>1, <1>2, <1>3, <1>7
    <2>2. at[e] < q /\ at[e] \in 0 .. Len(x)
        BY <1>1, <1>2, <2>1
    <2> DEFINE w == WidthFrom(x, at[e] + 1)
    <2>3. at[e] \in 0 .. Len(x) - 1 /\ at[e + 1] = at[e] + w
        BY <2>1, NextAt
    <2>4. w \in {1, 2} /\ (w = 2 => at[e] + 1 \notin Marks(x))
        BY <2>3, NextMark
    <2> HIDE DEF w
    <2>5. at[e + 1] = q \/ (w = 2 /\ q = at[e] + 1 /\ at[e + 1] = q + 1)
        BY <1>2, <1>4, <1>5, <2>2, <2>3, <2>4, SMTT(40)
    <2>6. CASE w = 2 /\ q = at[e] + 1 /\ at[e + 1] = q + 1
        <3>1. q \notin Marks(x) /\ q + 1 <= Len(x)
            BY <1>4, <2>4, <2>6
        <3>2. WidthUpTo(x, q + 1) # 1
            BY <1>5, <3>1 DEF Marks
        <3>3. x[q + 1] \in Trails
            BY <3>2 DEF WidthUpTo
        <3> QED BY <2>6, <3>1, <3>3
    <2> QED BY <2>5, <2>6
<1> QED BY <1>6, <1>7

-----------------------------------------------------------------------------
\* What rb_range_beg_len gives.
LEMMA BegLenIs ==
    ASSUME NEW first \in Int, NEW last \in Int, NEW excl \in BOOLEAN, NEW n \in Nat,
           NEW r, r = BegLen(first, last, excl, n), r.ok
    PROVE  r.beg \in 0 .. n /\ r.len \in Nat /\ r.beg + r.len <= n + 1
<1> DEFINE beg == IF first < 0 THEN first + n ELSE first
           near == IF last > n THEN n ELSE last
           one == IF excl THEN 0 ELSE 1
           end == (IF near < 0 THEN near + n ELSE near) + one
<1>1. r = [ok |-> beg \in 0 .. n, beg |-> beg, len |-> IF end < beg THEN 0 ELSE end - beg]
    BY DEF BegLen
<1>2. beg \in 0 .. n
    <2> DEFINE inside == beg \in 0 .. n
               len == IF end < beg THEN 0 ELSE end - beg
    <2>1. r = [ok |-> inside, beg |-> beg, len |-> len]
        BY <1>1
    <2> HIDE DEF beg, end, inside, len
    <2>2. r.ok = inside
        BY <2>1
    <2> QED BY <2>2 DEF inside
<1>3. one \in {0, 1}
    OBVIOUS
<1>4. end \in Int /\ end <= n + 1
    <2>1. near \in Int /\ near <= n
        OBVIOUS
    <2> HIDE DEF near, one
    <2> QED BY <1>3, <2>1
<1>5. r.beg = beg /\ r.len = IF end < beg THEN 0 ELSE end - beg
    BY <1>1
<1> HIDE DEF beg, end
<1> QED BY <1>2, <1>4, <1>5

\* Indices inside the text stand for themselves.
LEMMA BegLenInside ==
    ASSUME NEW n \in Nat, NEW a \in 0 .. n, NEW b \in a .. n
    PROVE  BegLen(a, b, FALSE, n) = [ok |-> TRUE, beg |-> a, len |-> b + 1 - a]
<1> DEFINE beg == IF a < 0 THEN a + n ELSE a
           near == IF b > n THEN n ELSE b
           end == (IF near < 0 THEN near + n ELSE near) + (IF FALSE THEN 0 ELSE 1)
<1>1. BegLen(a, b, FALSE, n) =
        [ok |-> beg \in 0 .. n, beg |-> beg, len |-> IF end < beg THEN 0 ELSE end - beg]
    BY DEF BegLen
<1>2. beg = a /\ near = b /\ end = b + 1 /\ ~(end < beg) /\ end - beg = b + 1 - a
    OBVIOUS
<1>3. (beg \in 0 .. n) = TRUE
    BY <1>2
<1> HIDE DEF beg, near, end
<1> QED BY <1>1, <1>2, <1>3

\* The smaller one of two numbers.
LEMMA MinIs ==
    ASSUME NEW a \in Int, NEW b \in Int
    PROVE  Min({a, b}) = IF a < b THEN a ELSE b
<1>1. Min({a, b}) = CHOOSE y \in {a, b} : \A z \in {a, b} : y <= z
    BY DEF Min
<1>2. \E y \in {a, b} : \A z \in {a, b} : y <= z
    OBVIOUS
<1> QED BY <1>1, <1>2

-----------------------------------------------------------------------------
\* A text that is cut at a mark has as many code points as there are marks before it.
LEMMA CountUpTo ==
    ASSUME NEW S, NEW x \in Seq(S), NEW at, Marked(x, at), NEW k \in 0 .. Len(at) - 1
    PROVE  CountChar32(SubSeq(x, 1, at[k + 1])) = k
<1> DEFINE m == Len(at) - 1
           o == 0
           q == at[k + 1]
<1>1. /\ m \in Nat /\ Len(at) = m + 1
      /\ \A h \in 1 .. m + 1 : at[h] \in 0 .. Len(x)
      /\ \A g, h \in 1 .. m + 1 : g < h => at[g] < at[h]
      /\ at[1] = 0
    BY DEF Marked
<1>2. k + 1 \in 1 .. m + 1 /\ o \in 0 .. m /\ k \in o .. m /\ o + 1 = 1 /\ k \in Nat
    BY <1>1
<1>3. q \in 0 .. Len(x)
    BY <1>1, <1>2
<1>4. q \in at[o + 1] .. Len(x) /\ q <= at[k + 1]
    BY <1>1, <1>2, <1>3
<1>5. k > o => at[k] < q
    <2>1. k > o => k \in 1 .. m + 1 /\ k < k + 1
        BY <1>1, <1>2
    <2> QED BY <1>1, <1>2, <2>1
<1>6. Reaches(x, at, o, k, q)
    BY <1>2, <1>4, <1>5 DEF Reaches
<1> HIDE DEF m, o, q
<1>7. CountChar32(SubSeq(x, at[o + 1] + 1, q)) = k - o
    BY <1>6, CountIs
<1>8. at[o + 1] + 1 = 1 /\ k - o = k
    BY <1>1, <1>2 DEF o
<1> QED BY <1>7, <1>8 DEF q

\* u_countChar32 of a whole text.
LEMMA CountAll ==
    ASSUME NEW S, NEW x \in Seq(S), NEW at, Marked(x, at)
    PROVE  CountChar32(x) = Len(at) - 1
<1> DEFINE m == Len(at) - 1
<1>1. m \in 0 .. Len(at) - 1 /\ at[m + 1] = Len(x)
    BY DEF Marked
<1>2. SubSeq(x, 1, Len(x)) = x
    BY WholePart
<1> HIDE DEF m
<1>3. CountChar32(SubSeq(x, 1, at[m + 1])) = m
    BY <1>1, CountUpTo
<1> QED BY <1>1, <1>2, <1>3 DEF m

\* Where a range from rb_range_beg_len ends in a text of n units.
EndsAt(r, n, q) == r.ok /\ q = IF r.beg + r.len < n THEN r.beg + r.len ELSE n

\* conv_unit_range from a mark: the code points up to the first mark that is not before
\* the end of the range.
LEMMA UnitRangeIs ==
    ASSUME text \in PointTexts, NEW at, Marked(text, at),
           NEW first \in Int, NEW last \in Int, NEW excl \in BOOLEAN,
           NEW r, r = BegLen(first, last, excl, Len(text)),
           NEW k, NEW e, NEW q, Reaches(text, at, k, e, q), r.beg = at[k + 1],
           EndsAt(r, Len(text), q)
    PROVE  UnitRange(first, last, excl) = Span(k, e - 1)
<1> DEFINE x == text
           m == Len(at) - 1
           len == IF r.beg + r.len > Len(x) THEN r.len - 1 ELSE r.len
<1>1. x \in Seq(Units) /\ Len(x) \in Nat
    BY PointTextsAssumption
<1>2. r.beg \in 0 .. Len(x) /\ r.len \in Nat /\ r.beg + r.len <= Len(x) + 1 /\ r.ok
    BY <1>1, BegLenIs DEF EndsAt
<1>3. r.beg + len = q
    BY <1>1, <1>2 DEF EndsAt
<1>4. UnitRange(first, last, excl) =
        Span(CountChar32(SubSeq(x, 1, r.beg)),
             CountChar32(SubSeq(x, 1, r.beg)) + CountChar32(SubSeq(x, r.beg + 1, r.beg + len)) - 1)
    BY <1>2 DEF UnitRange
<1>5. /\ k \in 0 .. m /\ e \in k .. m /\ q \in at[k + 1] .. Len(x)
      /\ q <= at[e + 1] /\ (e > k => at[e] < q) /\ m = Len(at) - 1
    BY DEF Reaches
<1> HIDE DEF x, m, len
<1>6. CountChar32(SubSeq(x, 1, at[k + 1])) = k
    BY <1>1, <1>5, CountUpTo DEF x
<1>7. CountChar32(SubSeq(x, at[k + 1] + 1, q)) = e - k
    BY <1>1, CountIs DEF x
<1>8. k + (e - k) - 1 = e - 1
    <2>1. m \in Nat
        BY <1>5 DEF Marked
    <2> QED BY <1>5, <2>1
<1> QED BY <1>3, <1>4, <1>6, <1>7, <1>8

\* What conv_point_range makes of it.
SpansPoints(at, first, last, excl, r, e) ==
    /\ r.beg \in 0 .. Len(at) - 1 /\ e \in r.beg .. Len(at) - 1
    /\ PointRange(first, last, excl) = Span(at[r.beg + 1], at[e + 1] - 1)

\* conv_point_range: from the mark of the first code point to that behind the last.
LEMMA PointRangeIs ==
    ASSUME text \in PointTexts, NEW at, Marked(text, at), NEW m, m = Len(at) - 1,
           NEW first \in Int, NEW last \in Int, NEW excl \in BOOLEAN,
           NEW r, r = BegLen(first, last, excl, m), NEW e, EndsAt(r, m, e)
    PROVE  SpansPoints(at, first, last, excl, r, e)
<1>0. r.ok /\ e = IF r.beg + r.len < m THEN r.beg + r.len ELSE m
    BY DEF EndsAt
<1> DEFINE x == text
           k == r.beg
           o == 0
<1>1. x \in Seq(Units) /\ m \in Nat /\ at[1] = 0
    BY PointTextsAssumption DEF Marked
<1>2. CountChar32(x) = m
    BY <1>1, CountAll
<1>3. k \in 0 .. m /\ r.len \in Nat
    BY <1>0, <1>1, BegLenIs
<1>4. PointRange(first, last, excl) =
        Span(FwdN(x, 0, r.beg), FwdN(x, FwdN(x, 0, r.beg), r.len) - 1)
    BY <1>0, <1>2 DEF PointRange
<1>5. o \in 0 .. m /\ k \in Nat /\ (k = IF o + k < m THEN o + k ELSE m) /\ at[o + 1] = 0
    BY <1>1, <1>3
<1> HIDE DEF x, o
<1>6. FwdN(x, at[o + 1], k) = at[k + 1]
    <2> DEFINE l == k
    <2>1. l \in Nat /\ k = IF o + l < m THEN o + l ELSE m
        BY <1>5
    <2> HIDE DEF l
    <2>2. Forward(at, o, l, k)
        BY <1>5, <2>1 DEF Forward
    <2> HIDE DEF k
    <2>3. FwdN(x, at[o + 1], l) = at[k + 1]
        BY <1>1, <2>2, FwdIs DEF x
    <2> QED BY <2>3 DEF l
<1>7. FwdN(x, at[k + 1], r.len) = at[e + 1]
    <2> DEFINE l == r.len
    <2>1. l \in Nat /\ e = IF k + l < m THEN k + l ELSE m
        BY <1>0, <1>3
    <2> HIDE DEF l, k
    <2>2. Forward(at, k, l, e)
        BY <1>3, <2>1 DEF Forward
    <2>3. FwdN(x, at[k + 1], l) = at[e + 1]
        BY <1>1, <2>2, FwdIs DEF x
    <2> QED BY <2>3 DEF l
<1>8. e \in k .. m
    BY <1>0, <1>1, <1>3
<1> QED BY <1>3, <1>4, <1>5, <1>6, <1>7, <1>8 DEF SpansPoints

-----------------------------------------------------------------------------
\* What conv_unit_range and conv_point_range have returned.
Args == request.first \in Int /\ request.last \in Int /\ request.excl \in BOOLEAN

RangeInv ==
    /\ PointsInv
    /\ request.method = "conv_unit_range" =>
        /\ text \in PointTexts /\ Args
        /\ got = UnitRange(request.first, request.last, request.excl)
    /\ request.method = "conv_point_range" =>
        /\ text \in PointTexts /\ Args
        /\ got = PointRange(request.first, request.last, request.excl)
    /\ request.method \notin {"conv_unit_range", "conv_point_range"} => got.kind # "range"

\* The units from one mark to another, and the code points in between.
PointsBetween(x, at, a, b) ==
    /\ at[a + 1] \in 0 .. Len(x) /\ at[b + 1] \in at[a + 1] .. Len(x)
    /\ FlattenSeq(SubSeq(PointsOf(x), a + 1, b)) = SubSeq(x, at[a + 1] + 1, at[b + 1])

\* The code points between two marks are made of the units between them.
LEMMA UnitsOfPoints ==
    ASSUME NEW S, NEW x \in Seq(S), NEW at, Marked(x, at), NEW m, m = Len(at) - 1,
           NEW a \in 0 .. m, NEW b \in a .. m
    PROVE  PointsBetween(x, at, a, b)
<1> DEFINE T == Seq(S)
           ps == PointsOf(x)
<1>1. T = Seq(S)
    OBVIOUS
<1> HIDE DEF T, ps
<1>2. ps \in Seq(T) /\ Cuts(x, at, m, ps)
    BY <1>1, PointsAre DEF ps
<1>3. /\ at[a + 1] <= at[b + 1]
      /\ FlattenSeq(SubSeq(ps, a + 1, b)) = SubSeq(x, at[a + 1] + 1, at[b + 1])
    <2>1. T = Seq(S) /\ x \in Seq(S) /\ ps \in Seq(T) /\ Cuts(x, at, m, ps)
        BY <1>1, <1>2
    <2>2. a \in 0 .. m /\ b \in a .. m
        OBVIOUS
    <2>3. Joins(x, at, ps, a, b)
        BY <2>1, <2>2, PiecesJoin
    <2> QED BY <2>3 DEF Joins
<1>4. at[a + 1] \in 0 .. Len(x) /\ at[b + 1] \in 0 .. Len(x)
    <2>1. m \in Nat /\ Len(at) = m + 1 /\ \A h \in 1 .. Len(at) : at[h] \in 0 .. Len(x)
        BY DEF Marked
    <2>2. a + 1 \in 1 .. Len(at) /\ b + 1 \in 1 .. Len(at)
        BY <2>1
    <2> QED BY <2>1, <2>2
<1>5. at[b + 1] \in at[a + 1] .. Len(x)
    BY <1>3, <1>4
<1> QED BY <1>3, <1>4, <1>5 DEF ps, PointsBetween

\* A text has as many code points as marks, the end left out.
LEMMA PointsLen ==
    ASSUME NEW S, NEW x \in Seq(S), NEW at, Marked(x, at)
    PROVE  Len(PointsOf(x)) = Len(at) - 1
<1> DEFINE T == Seq(S)
           m == Len(at) - 1
           ps == PointsOf(x)
<1>1. T = Seq(S) /\ m = Len(at) - 1
    OBVIOUS
<1> HIDE DEF T, m, ps
<1>2. Cuts(x, at, m, ps)
    BY <1>1, PointsAre DEF ps
<1> QED BY <1>1, <1>2 DEF Cuts, ps

-----------------------------------------------------------------------------
\* A range of units that begins at a mark.
LEMMA UnitsAgree ==
    ASSUME RangeInv, request.method = "conv_unit_range", got.kind = "range",
           NEW r, r = BegLen(request.first, request.last, request.excl, Len(text)),
           r.beg = Len(text) \/ WidthUpTo(text, r.beg + 1) = 1
    PROVE  LET from == got.value[1]
               to == got.value[2]
               named == SubSeq(PointsOf(text), from + 1, to + 1)
           IN /\ SameAs(Meant(text), named)
              /\ Meant(text) = FlattenSeq(named) /\ from <= to =>
                    PointRange(from, to, FALSE) = Span(r.beg, r.beg + Len(Meant(text)) - 1)
<1> DEFINE x == text
           at == InOrder(Marks(x))
           m == Len(at) - 1
           last == r.beg + r.len
           q == IF last < Len(x) THEN last ELSE Len(x)
           ps == PointsOf(x)
<1>1. /\ text \in PointTexts /\ x \in Seq(Units) /\ Len(x) \in Nat
      /\ request.first \in Int /\ request.last \in Int /\ request.excl \in BOOLEAN
      /\ got = UnitRange(request.first, request.last, request.excl)
    BY PointTextsAssumption DEF RangeInv, Args
<1>2. r.ok
    <2> SUFFICES ASSUME ~r.ok PROVE FALSE
        OBVIOUS
    <2>1. got = Nil
        BY <1>1 DEF UnitRange
    <2> QED BY <2>1 DEF Nil
<1>3. r.beg \in 0 .. Len(x) /\ r.len \in Nat /\ last <= Len(x) + 1
    BY <1>1, <1>2, BegLenIs
<1>4. r.beg \in Marks(x)
    BY <1>3 DEF Marks
<1>5. Marked(x, at)
    BY <1>1, MarksInOrder
<1>6. Meant(x) = SubSeq(x, r.beg + 1, q)
    <2>1. last \in Int
        BY <1>3
    <2>2. Min({last, Len(x)}) = q
        <3> HIDE DEF last, x
        <3> QED BY <1>1, <2>1, MinIs
    <2> QED BY <2>2 DEF Meant
<1>7. q \in r.beg .. Len(x) /\ q \in Nat
    BY <1>1, <1>3
<1>8. m = Len(at) - 1
    OBVIOUS
<1> HIDE DEF at, m, q, ps
<1>9. /\ m \in Nat /\ Len(at) = m + 1
      /\ \A i \in Marks(x) : \E h \in 1 .. m + 1 : at[h] = i
      /\ \A h \in 1 .. m + 1 : at[h] \in 0 .. Len(x)
    BY <1>5, <1>8 DEF Marked
<1>10. PICK k \in 0 .. m : at[k + 1] = r.beg
    <2>1. PICK h \in 1 .. m + 1 : at[h] = r.beg
        BY <1>4, <1>9
    <2>2. h - 1 \in 0 .. m /\ (h - 1) + 1 = h
        BY <1>9
    <2> QED BY <2>1, <2>2
<1>11. PICK e : Reaches(x, at, k, e, q)
    <2>1. k \in 0 .. Len(at) - 1 /\ q \in at[k + 1] .. Len(x)
        BY <1>7, <1>8, <1>10
    <2> QED BY <1>1, <1>5, <2>1, MarkReached
<1>12. got = Span(k, e - 1)
    <2>1. EndsAt(r, Len(text), q)
        BY <1>2 DEF q, EndsAt
    <2>2. Marked(text, at) /\ Reaches(text, at, k, e, q) /\ r.beg = at[k + 1]
        BY <1>5, <1>10, <1>11
    <2>3. UnitRange(request.first, request.last, request.excl) = Span(k, e - 1)
        BY <1>1, <2>1, <2>2, UnitRangeIs
    <2> QED BY <1>1, <2>3
<1>13. e \in k .. m /\ e \in Int /\ k \in Nat /\ (e - 1) + 1 = e /\ m \in Nat
    BY <1>8, <1>9, <1>11 DEF Reaches
<1>14. got.value[1] = k /\ got.value[2] = e - 1
    BY <1>12 DEF Span
<1> DEFINE b == at[k + 1]
           h == at[e + 1]
           whole == FlattenSeq(SubSeq(ps, k + 1, e))
<1>15. b \in 0 .. Len(x) /\ h \in b .. Len(x) /\ whole = SubSeq(x, b + 1, h)
    <2>1. PointsBetween(x, at, k, e)
        BY <1>1, <1>5, <1>8, <1>13, UnitsOfPoints
    <2> QED BY <2>1 DEF PointsBetween, ps
<1>16. h = q \/ (h = q + 1 /\ q + 1 <= Len(x) /\ x[q + 1] \in Trails)
    BY <1>1, <1>5, <1>11, ReachedIs
<1> HIDE DEF x, b, h, whole
<1>17. b = r.beg /\ Meant(x) = SubSeq(x, b + 1, q) /\ q \in b .. Len(x)
    BY <1>6, <1>7, <1>10 DEF b
<1>18. Meant(x) = whole \/ (whole # << >> /\ Meant(x) = Front(whole) /\ Last(whole) \in Trails)
    <2>1. CASE h = q
        BY <1>15, <1>17, <2>1
    <2>2. CASE h = q + 1 /\ q + 1 <= Len(x) /\ x[q + 1] \in Trails
        <3>1. q \in b .. Len(x) - 1
            BY <1>1, <1>7, <1>17, <2>2
        <3>2. /\ SubSeq(x, b + 1, q + 1) # << >>
              /\ Front(SubSeq(x, b + 1, q + 1)) = SubSeq(x, b + 1, q)
              /\ Last(SubSeq(x, b + 1, q + 1)) = x[q + 1]
            BY <1>1, <1>15, <3>1, PartFront
        <3> QED BY <1>15, <1>17, <2>2, <3>2
    <2> QED BY <1>16, <2>1, <2>2
<1>19. Len(Meant(x)) = q - b /\ Len(whole) = h - b
    <2>1. Len(SubSeq(x, b + 1, q)) = q - b
        BY <1>1, <1>15, <1>17, PartIs, SMTT(40)
    <2>2. Len(SubSeq(x, b + 1, h)) = h - b
        BY <1>1, <1>15, PartIs
    <2> QED BY <1>15, <1>17, <2>1, <2>2
<1>20. ASSUME Meant(x) = whole, k <= e - 1
       PROVE  PointRange(k, e - 1, FALSE) = Span(b, b + Len(Meant(x)) - 1)
    <2>1. h = q
        <3>1. q - b = h - b
            BY <1>19, <1>20, Zenon
        <3> QED BY <1>1, <1>7, <1>15, <3>1
    <2> DEFINE g == e - 1
               no == FALSE
               s == BegLen(k, g, no, m)
    <2>2. g \in k .. m /\ k \in 0 .. m /\ g + 1 - k = e - k /\ k \in Int /\ g \in Int
        BY <1>9, <1>13, <1>20
    <2>3. s = [ok |-> TRUE, beg |-> k, len |-> g + 1 - k]
        <3> HIDE DEF g
        <3> QED BY <1>9, <2>2, BegLenInside
    <2>6. no \in BOOLEAN
        OBVIOUS
    <2> HIDE DEF g, s, no
    <2>4. s.ok /\ s.beg = k /\ s.len = e - k
        BY <2>2, <2>3
    <2>5. EndsAt(s, m, e)
        <3>1. k + (e - k) = e /\ e <= m /\ (~(e < m) => e = m)
            BY <1>13
        <3> QED BY <2>4, <3>1 DEF EndsAt
    <2>7. s = BegLen(k, g, no, m)
        BY DEF s
    <2>8. PointRange(k, g, no) = Span(at[s.beg + 1], at[e + 1] - 1)
        <3>1. Marked(text, at) /\ m = Len(at) - 1
            BY <1>5, <1>8 DEF x
        <3>2. SpansPoints(at, k, g, no, s, e)
            BY <1>1, <2>2, <2>5, <2>6, <2>7, <3>1, PointRangeIs
        <3> QED BY <3>2 DEF SpansPoints
    <2>9. PointRange(k, g, no) = Span(b, h - 1)
        BY <2>4, <2>8 DEF b, h
    <2>10. b + Len(Meant(x)) - 1 = h - 1
        BY <1>7, <1>15, <1>17, <1>19, <2>1, SMTT(40)
    <2> QED BY <2>9, <2>10 DEF g, no
<1> DEFINE named == SubSeq(ps, k + 1, e)
<1>21. SubSeq(PointsOf(x), got.value[1] + 1, got.value[2] + 1) = named
    BY <1>13, <1>14 DEF ps
<1>22. whole = FlattenSeq(named)
    BY DEF whole
<1> HIDE DEF named
<1>23. SameAs(Meant(x), named)
    BY <1>18, <1>22 DEF SameAs
<1> QED BY <1>14, <1>17, <1>20, <1>21, <1>22, <1>23 DEF x

\* A range of code points.
LEMMA PointsAgree ==
    ASSUME RangeInv, request.method = "conv_point_range", got.kind = "range"
    PROVE  LET from == got.value[1]
               to == got.value[2]
               points == PointsOf(text)
           IN /\ SubSeq(text, from + 1, to + 1) = FlattenSeq(Meant(points))
              /\ from <= to =>
                    LET back == UnitRange(from, to, FALSE).value IN
                    SubSeq(points, back[1] + 1, back[2] + 1) = Meant(points)
<1> DEFINE x == text
           at == InOrder(Marks(x))
           m == Len(at) - 1
           ps == PointsOf(x)
           r == BegLen(request.first, request.last, request.excl, m)
           last == r.beg + r.len
           e == IF last < m THEN last ELSE m
           k == r.beg
           b == at[k + 1]
           h == at[e + 1]
<1>1. /\ text \in PointTexts /\ x \in Seq(Units) /\ Len(x) \in Nat
      /\ request.first \in Int /\ request.last \in Int /\ request.excl \in BOOLEAN
      /\ got = PointRange(request.first, request.last, request.excl)
    BY PointTextsAssumption DEF RangeInv, Args
<1>2. Marked(x, at) /\ m = Len(at) - 1
    BY <1>1, MarksInOrder
<1>3. CountChar32(x) = m /\ Len(ps) = m
    <2> HIDE DEF at, x
    <2> QED BY <1>1, <1>2, CountAll, PointsLen
<1>4. r.ok
    <2> SUFFICES ASSUME ~r.ok PROVE FALSE
        OBVIOUS
    <2>1. got = Nil
        BY <1>1, <1>3 DEF PointRange
    <2> QED BY <2>1 DEF Nil
<1>5. m \in Nat
    BY <1>2 DEF Marked
<1>6. r = BegLen(request.first, request.last, request.excl, m) /\ EndsAt(r, m, e)
    BY <1>4 DEF EndsAt
<1>7. Meant(ps) = SubSeq(ps, k + 1, e)
    <2>1. r.len \in Nat /\ r.beg \in 0 .. m
        <3> HIDE DEF r, m
        <3> QED BY <1>1, <1>4, <1>5, <1>6, BegLenIs
    <2>2. last \in Int
        BY <2>1
    <2>3. Min({last, m}) = e
        <3> HIDE DEF last, m
        <3> QED BY <1>5, <2>2, MinIs
    <2> QED BY <1>3, <2>3 DEF Meant
<1> HIDE DEF at, m, ps, r, e
<1>8. k \in 0 .. m /\ e \in k .. m /\ got = Span(b, h - 1)
    <2> DEFINE first == request.first
               end == request.last
               excl == request.excl
    <2>1. first \in Int /\ end \in Int /\ excl \in BOOLEAN /\ r = BegLen(first, end, excl, m)
          /\ got = PointRange(first, end, excl)
        BY <1>1, <1>6
    <2> HIDE DEF first, end, excl
    <2>2. Marked(text, at) /\ m = Len(at) - 1
        BY <1>2
    <2> HIDE DEF k, b, h
    <2>4. SpansPoints(at, first, end, excl, r, e)
        BY <1>1, <1>6, <2>1, <2>2, PointRangeIs
    <2>3. /\ r.beg \in 0 .. m /\ e \in r.beg .. m
          /\ PointRange(first, end, excl) = Span(at[r.beg + 1], at[e + 1] - 1)
        BY <2>2, <2>4 DEF SpansPoints
    <2> QED BY <2>1, <2>3 DEF k, b, h
<1> HIDE DEF k
<1>9. b \in 0 .. Len(x) /\ h \in b .. Len(x) /\ FlattenSeq(SubSeq(ps, k + 1, e)) = SubSeq(x, b + 1, h)
    <2>1. PointsBetween(x, at, k, e)
        BY <1>1, <1>2, <1>8, UnitsOfPoints
    <2> QED BY <2>1 DEF PointsBetween, ps
<1> HIDE DEF x
<1>10. k + 1 \in 1 .. m + 1 /\ e + 1 \in 1 .. m + 1 /\ k \in Nat /\ e \in Nat /\ Len(at) = m + 1
    BY <1>2, <1>5, <1>8
<1>11. got.value[1] = b /\ got.value[2] = h - 1
    BY <1>8 DEF Span
<1> HIDE DEF b, h
<1>12. (h - 1) + 1 = h /\ b \in Nat /\ h \in Nat /\ (e - 1) + 1 = e
    BY <1>1, <1>9, <1>10
<1>13. ASSUME b <= h - 1
       PROVE  LET back == UnitRange(b, h - 1, FALSE).value IN
              SubSeq(ps, back[1] + 1, back[2] + 1) = Meant(ps)
    <2> DEFINE n == Len(x)
               g == h - 1
               no == FALSE
               s == BegLen(b, g, no, n)
    <2>1. n \in Nat /\ b \in 0 .. n /\ g \in b .. n /\ g + 1 - b = h - b /\ b \in Int /\ g \in Int
          /\ b + (h - b) = h /\ h <= n
        BY <1>1, <1>9, <1>12, <1>13
    <2>2. s = [ok |-> TRUE, beg |-> b, len |-> g + 1 - b]
        <3> HIDE DEF g, n
        <3> QED BY <2>1, BegLenInside
    <2>10. no \in BOOLEAN
        OBVIOUS
    <2> HIDE DEF g, s, no, n
    <2>3. s.ok /\ s.beg = b /\ s.len = h - b
        BY <2>1, <2>2
    <2>4. s.beg = at[k + 1]
        BY <2>3 DEF b
    <2>5. EndsAt(s, n, h)
        <3>1. ~(h < n) => h = n
            BY <2>1
        <3> QED BY <2>1, <2>3, <3>1 DEF EndsAt
    <2>6. Reaches(x, at, k, e, h)
        <3>1. h \in at[k + 1] .. Len(x) /\ h = at[e + 1]
            BY <1>9 DEF b, h
        <3>2. e > k => at[e] < h
            <4> SUFFICES ASSUME e > k PROVE at[e] < at[e + 1]
                BY DEF h
            <4>1. e \in 1 .. Len(at) /\ e + 1 \in 1 .. Len(at) /\ e < e + 1
                BY <1>10
            <4> QED BY <1>2, <4>1 DEF Marked
        <3>3. h <= at[e + 1]
            <4>1. h <= h
                BY <1>12
            <4> QED BY <3>1, <4>1
        <3> QED BY <1>2, <1>8, <3>1, <3>2, <3>3 DEF Reaches
    <2>7. /\ s = BegLen(b, g, no, Len(text)) /\ EndsAt(s, Len(text), h)
          /\ Reaches(text, at, k, e, h) /\ Marked(text, at)
        BY <1>2, <2>5, <2>6 DEF x, s, n
    <2>8. UnitRange(b, g, no) = Span(k, e - 1)
        BY <1>1, <2>1, <2>4, <2>7, <2>10, UnitRangeIs
    <2>9. UnitRange(b, g, no).value[1] = k /\ UnitRange(b, g, no).value[2] = e - 1
        BY <2>8 DEF Span
    <2> QED BY <1>7, <1>12, <2>9 DEF g, no, k
<1>14. SubSeq(x, b + 1, (h - 1) + 1) = FlattenSeq(Meant(ps))
    BY <1>7, <1>9, <1>12 DEF k
<1> QED BY <1>11, <1>13, <1>14 DEF x, ps

\* So the two conversions agree.
LEMMA RangeInvAgrees == RangeInv => RangesAgree
<1> SUFFICES ASSUME RangeInv, got.kind = "range" PROVE RangesAgree
    BY DEF RangesAgree
<1>1. request.method \in {"conv_unit_range", "conv_point_range"}
    BY DEF RangeInv
<1>2. CASE request.method = "conv_unit_range"
    <2> DEFINE r == BegLen(request.first, request.last, request.excl, Len(text))
    <2>1. CASE r.beg = Len(text) \/ WidthUpTo(text, r.beg + 1) = 1
        <3>1. r = BegLen(request.first, request.last, request.excl, Len(text))
            OBVIOUS
        <3> HIDE DEF r
        <3>2. LET from == got.value[1]
                  to == got.value[2]
                  named == SubSeq(PointsOf(text), from + 1, to + 1)
              IN /\ SameAs(Meant(text), named)
                 /\ Meant(text) = FlattenSeq(named) /\ from <= to =>
                    PointRange(from, to, FALSE) = Span(r.beg, r.beg + Len(Meant(text)) - 1)
            BY <1>2, <2>1, <3>1, UnitsAgree
        <3> QED BY <1>2, <3>2 DEF RangesAgree, r
    <2>2. CASE ~(r.beg = Len(text) \/ WidthUpTo(text, r.beg + 1) = 1)
        BY <1>2, <2>2 DEF RangesAgree
    <2> QED BY <2>1, <2>2
<1>3. CASE request.method = "conv_point_range"
    <2>1. request.method # "conv_unit_range"
        BY <1>3
    <2> QED BY <1>3, <2>1, PointsAgree DEF RangesAgree
<1> QED BY <1>1, <1>2, <1>3

-----------------------------------------------------------------------------
\* A method that takes one step leaves its arguments beside what it returns.
LEMMA RangeInvAfter ==
    ASSUME PointsInv', NEW r, NEW x, Gets(r, x), text \in PointTexts,
           r.method = "conv_unit_range" =>
               /\ r.first \in Int /\ r.last \in Int /\ r.excl \in BOOLEAN
               /\ x = UnitRange(r.first, r.last, r.excl),
           r.method = "conv_point_range" =>
               /\ r.first \in Int /\ r.last \in Int /\ r.excl \in BOOLEAN
               /\ x = PointRange(r.first, r.last, r.excl),
           r.method \notin {"conv_unit_range", "conv_point_range"} => x.kind # "range"
    PROVE  RangeInv'
<1>1. request' = r /\ got' = x /\ text' = text
    BY DEF Gets
<1>2. text' \in PointTexts
    BY <1>1
<1> QED BY <1>1, <1>2 DEF RangeInv, Args, UnitRange, PointRange

\* Arguments are integers.
LEMMA AroundIsInt ==
    ASSUME text \in PointTexts, NEW i \in Around
    PROVE  i \in Int
<1>1. text \in Seq(Units) /\ text # NoText
    BY PointTextsAssumption
<1>2. Len(text) \in Nat
    BY <1>1
<1>3. i \in -(Len(text) + 1) .. Len(text) + 1
    BY <1>1 DEF Around
<1> QED BY <1>2, <1>3

\* Every method keeps to it.
LEMMA PointsKeepRanges == RangeInv /\ PointsNext => RangeInv'
<1> SUFFICES ASSUME RangeInv, PointsNext PROVE RangeInv'
    OBVIOUS
<1>1. PointsInv /\ PointsInv'
    BY PointsKeepPoints DEF RangeInv
<1>2. ASSUME NEW r, NEW x, Gets(r, x)
      PROVE  text \in PointTexts
    BY <1>1, <1>2 DEF Gets, PointsInv
<1>3. ASSUME NEW first \in Around, NEW last \in Around, NEW excl \in BOOLEAN,
             ConvUnitRange(first, last, excl)
      PROVE  RangeInv'
    <2> DEFINE r == [method |-> "conv_unit_range", first |-> first, last |-> last,
                     excl |-> excl]
    <2>1. Gets(r, UnitRange(first, last, excl)) /\ text \in PointTexts
        BY <1>2, <1>3 DEF ConvUnitRange
    <2>2. first \in Int /\ last \in Int
        BY <2>1, AroundIsInt
    <2>3. /\ r.method = "conv_unit_range"
          /\ r.first = first /\ r.last = last /\ r.excl = excl
        OBVIOUS
    <2> HIDE DEF r
    <2> QED BY <1>1, <1>3, <2>1, <2>2, <2>3, RangeInvAfter
<1>4. ASSUME NEW first \in Around, NEW last \in Around, NEW excl \in BOOLEAN,
             ConvPointRange(first, last, excl)
      PROVE  RangeInv'
    <2> DEFINE r == [method |-> "conv_point_range", first |-> first, last |-> last,
                     excl |-> excl]
    <2>1. Gets(r, PointRange(first, last, excl)) /\ text \in PointTexts
        BY <1>2, <1>4 DEF ConvPointRange
    <2>2. first \in Int /\ last \in Int
        BY <2>1, AroundIsInt
    <2>3. /\ r.method = "conv_point_range"
          /\ r.first = first /\ r.last = last /\ r.excl = excl
        OBVIOUS
    <2> HIDE DEF r
    <2> QED BY <1>1, <1>4, <2>1, <2>2, <2>3, RangeInvAfter
<1>5. ASSUME NEW k, NEW n, CharSpan(k, n)
      PROVE  RangeInv'
    <2>1. PICK breaks \in BreaksOf(Nfc[text]) :
            Gets([method |-> "char_span", start |-> k, len |-> n, breaks |-> breaks],
                 Spanned(k, n, breaks))
        BY <1>5 DEF CharSpan
    <2>2. Spanned(k, n, breaks).kind # "range"
        <3>1. \E x : Spanned(k, n, breaks) \in {Raised, Text(x)}
            BY DEF Spanned
        <3> QED BY <3>1 DEF Raised, Text
    <2> DEFINE r == [method |-> "char_span", start |-> k, len |-> n, breaks |-> breaks]
    <2>3. r.method = "char_span"
        OBVIOUS
    <2> HIDE DEF r
    <2>4. Gets(r, Spanned(k, n, breaks))
        BY <2>1 DEF r
    <2> QED BY <1>1, <1>2, <2>2, <2>3, <2>4, RangeInvAfter
<1>6. CASE UnescapeBegin
    <2>1. PICK escapes \in EscapesOf(text) :
            Gets([method |-> "unescape", escapes |-> escapes], Nil)
        BY <1>6 DEF UnescapeBegin
    <2> DEFINE r == [method |-> "unescape", escapes |-> escapes]
    <2>2. r.method = "unescape" /\ Nil.kind # "range"
        BY DEF Nil
    <2> HIDE DEF r
    <2>3. Gets(r, Nil)
        BY <2>1 DEF r
    <2> QED BY <1>1, <1>2, <2>2, <2>3, RangeInvAfter
<1>7. CASE Unescape
    <2>1. /\ request' = request /\ request.method = "unescape"
          /\ got' = got \/ \E x : got' = Text(x)
        BY <1>7 DEF Unescape, PlainUnit, Escape, InvalidEscape, UnescapeReturns, OnlyReads,
                    Unescaping
    <2>2. got'.kind # "range"
        BY <2>1 DEF RangeInv, Text
    <2> QED BY <1>1, <2>1, <2>2 DEF RangeInv
<1>8. CASE ForgetPoints
    <2>1. request'.method = "none" /\ got'.kind = "nil"
        BY <1>8 DEF ForgetPoints, Nil
    <2> QED BY <1>1, <2>1 DEF RangeInv
<1> QED BY <1>3, <1>4, <1>5, <1>6, <1>7, <1>8 DEF PointsNext

\* A range of units and the range of code points it is converted to name the same
\* characters, whatever the text and wherever the range begins and ends
\* (conv_unit_range and conv_point_range).
THEOREM ReadersRanges == ReadersSpec => []RangesAgree
<1>1. ReadersInit => RangeInv
    BY DEF ReadersInit, PointsParked, PointsInit, NothingRead, PointsInv, Nil, RangeInv
<1>2. RangeInv /\ [ReadersNext]_readerVars => RangeInv'
    <2>1. ASSUME RangeInv, UNCHANGED pointVars PROVE RangeInv'
        BY <2>1 DEF pointVars, RangeInv, PointsInv, InText, Args, UnitRange, PointRange
    <2>2. ASSUME RangeInv, PointsNext PROVE RangeInv'
        BY <2>2, PointsKeepRanges
    <2> QED BY <2>1, <2>2 DEF ReadersNext, readerVars
<1>3. RangeInv => RangesAgree
    BY RangeInvAgrees
<1> QED BY <1>1, <1>2, <1>3, PTL DEF ReadersSpec
=============================================================================
