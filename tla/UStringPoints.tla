----------------------------- MODULE UStringPoints -----------------------------
(***************************************************************************)
(* The methods of ustring.c that read a text by code points or graphemes:  *)
(* conv_unit_range and conv_point_range, char_span, and unescape, whose    *)
(* loop copies a segment whenever it comes to a backslash.                 *)
(*                                                                         *)
(* Indices are 0-based as in the code.  What ICU says of the text (where   *)
(* graphemes end, what stands behind a backslash) is chosen with the call; *)
(* unescape takes a step for an iteration of its loop.                     *)
(***************************************************************************)
EXTENDS CodeUnits, SequencesExt, FiniteSetsExt

CONSTANTS
    PointTexts,     \* texts that are read
    Nfc,            \* the NFC form of each
    EscapeChar,     \* the backslash
    Numeric,        \* units that announce digits behind a backslash: u, U, x
    Decoded,        \* code points that an escape may stand for
    NoText,         \* no text is read by code points
    Invalid         \* u_unescapeAt fails

ASSUME PointTextsAssumption ==
    /\ PointTexts \cup Decoded \subseteq Seq(Units) /\ NoText \notin PointTexts
    /\ Nfc \in [PointTexts -> Seq(Units)]

VARIABLES
    text,       \* the UString
    request,    \* the method that was called, with its arguments and what ICU says
    offset,     \* unescape: the index it is at
    segment,    \* and its segment_start
    ret,        \* and what it has put together
    got         \* what the method has returned

pointVars == <<text, request, offset, segment, ret, got>>

-----------------------------------------------------------------------------
\* Code points of x from U16_NEXT to U16_NEXT.
PointsOf(x) ==
    LET rest[i \in 1 .. Len(x) + 1] ==
            IF i > Len(x) THEN << >>
            ELSE <<SubSeq(x, i, i + WidthFrom(x, i) - 1)>> \o rest[i + WidthFrom(x, i)]
    IN rest[1]

\* u_countChar32: units that are not the second of a pair.
CountChar32(x) == Cardinality({i \in DOMAIN x : WidthUpTo(x, i) = 1})

\* U16_FWD_N: n code points on from index i, but not behind the end.
FwdN(x, i, n) ==
    LET after[k \in 0 .. n] ==
            IF k = 0 THEN i
            ELSE IF after[k - 1] < Len(x)
                 THEN after[k - 1] + WidthFrom(x, after[k - 1] + 1)
            ELSE after[k - 1]
    IN after[n]

\* rb_range_beg_len, of Ruby 1.8: an index behind the end stands for the end, which
\* a range that includes it then goes beyond by one.
BegLen(first, last, excl, n) ==
    LET beg == IF first < 0 THEN first + n ELSE first
        near == IF last > n THEN n ELSE last
        end == (IF near < 0 THEN near + n ELSE near) + (IF excl THEN 0 ELSE 1)
    IN [ok |-> beg \in 0 .. n, beg |-> beg, len |-> IF end < beg THEN 0 ELSE end - beg]

\* Where a grapheme begins and ends, in their order.
Clusters(breaks) ==
    LET at == InOrder(breaks)
    IN [k \in 1 .. Len(at) - 1 |-> <<at[k], at[k + 1]>>]

Span(from, to) == [kind |-> "range", value |-> <<from, to>>]

Nil == [kind |-> "nil", value |-> << >>]

Text(x) == [kind |-> "text", value |-> x]

Raised == [kind |-> "raised", value |-> << >>]

-----------------------------------------------------------------------------
\* The index behind a backslash: at the end of the text there is no escape, digits
\* may be missing behind a u, and any other code point stands for one.  How far an
\* escape reaches is ICU's.
EscapesAt(x, i) ==
    LET reach(ends) == [end : ends, point : Decoded] IN
    IF i = Len(x) THEN {Invalid}
    ELSE IF x[i + 1] \in Numeric THEN {Invalid} \cup reach(i + 2 .. Len(x))
    ELSE reach({i + WidthFrom(x, i + 1)})

EscapesOf(x) ==
    LET behind == {i \in 1 .. Len(x) : x[i] = EscapeChar} IN
    {f \in [behind -> UNION {EscapesAt(x, i) : i \in behind}] :
        \A i \in behind : f[i] \in EscapesAt(x, i)}

BreaksOf(x) ==
    {{0, Len(x)} \cup b : b \in SUBSET {i \in 1 .. Len(x) - 1 : WidthUpTo(x, i + 1) = 1}}

NothingRead ==
    /\ request = [method |-> "none"]
    /\ offset = 0 /\ segment = 0 /\ ret = << >> /\ got = Nil

PointsInit == text \in PointTexts /\ NothingRead

PointsParked == text = NoText /\ NothingRead

Unescaping == request.method = "unescape" /\ got = Nil

\* A method that takes one step.
Gets(r, x) ==
    /\ request.method = "none" /\ text # NoText
    /\ request' = r /\ got' = x
    /\ UNCHANGED <<text, offset, segment, ret>>

\* The program has its answer; nothing is kept of the call.
ForgetPoints ==
    /\ request.method # "none" /\ ~Unescaping
    /\ request' = [method |-> "none"]
    /\ offset' = 0 /\ segment' = 0 /\ ret' = << >> /\ got' = Nil
    /\ UNCHANGED text

\* conv_unit_range.
UnitRange(first, last, excl) ==
    LET r == BegLen(first, last, excl, Len(text))
        len == IF r.beg + r.len > Len(text) THEN r.len - 1 ELSE r.len
        start == CountChar32(SubSeq(text, 1, r.beg))
    IN IF ~r.ok THEN Nil
       ELSE Span(start, start + CountChar32(SubSeq(text, r.beg + 1, r.beg + len)) - 1)

\* Mutant: the end is counted from the start of the text.
PointRange_FromZero(first, last, excl) ==
    LET r == BegLen(first, last, excl, CountChar32(text))
    IN IF ~r.ok THEN Nil ELSE Span(FwdN(text, 0, r.beg), FwdN(text, 0, r.len) - 1)

\* conv_point_range.
PointRange(first, last, excl) ==
    LET r == BegLen(first, last, excl, CountChar32(text))
        start == FwdN(text, 0, r.beg)
    IN IF ~r.ok THEN Nil ELSE Span(start, FwdN(text, start, r.len) - 1)

ConvUnitRange(first, last, excl) ==
    Gets([method |-> "conv_unit_range", first |-> first, last |-> last, excl |-> excl],
         UnitRange(first, last, excl))

ConvPointRange(first, last, excl) ==
    Gets([method |-> "conv_point_range", first |-> first, last |-> last, excl |-> excl],
         PointRange(first, last, excl))

-----------------------------------------------------------------------------
\* Mutant: total_chars is compared before it is counted up.
Visit_Early(s, c, k, n) ==
    [total |-> s.total + 1,
     init |-> IF s.total = k THEN c[1] ELSE s.init,
     end |-> IF n > 0 /\ s.total = k + n THEN c[2] ELSE s.end]

\* A turn of the loop of char_span: where the span begins, and where it ends if it
\* has a length.
Visit(s, c, k, n) ==
    [total |-> s.total + 1,
     init |-> IF s.total = k THEN c[1] ELSE s.init,
     end |-> IF n > 0 /\ s.total + 1 = k + n THEN c[2] ELSE s.end]

\* char_span, of the NFC form.  A length of 0 or less stands for none; a negative
\* start raises, as one behind the last grapheme does.
Spanned(k, n, breaks) ==
    LET x == Nfc[text]
        clusters == Clusters(breaks)
        after[i \in 0 .. Len(clusters)] ==
            IF i = 0 THEN [total |-> 0, init |-> -1, end |-> -1]
            ELSE Visit(after[i - 1], clusters[i], k, n)
        s == after[Len(clusters)]
    IN IF k < 0 \/ s.init = -1 THEN Raised
       ELSE Text(SubSeq(x, s.init + 1, IF s.end = -1 THEN Len(x) ELSE s.end))

CharSpan(k, n) ==
    \E breaks \in BreaksOf(Nfc[text]) :
        Gets([method |-> "char_span", start |-> k, len |-> n, breaks |-> breaks],
             Spanned(k, n, breaks))

-----------------------------------------------------------------------------
UnescapeBegin ==
    \E escapes \in EscapesOf(text) :
        Gets([method |-> "unescape", escapes |-> escapes], Nil)

AtBackslash == text[offset + 1] = EscapeChar

Segment == SubSeq(text, segment + 1, offset)

OnlyReads == UNCHANGED <<text, request>>

PlainUnit ==
    /\ Unescaping /\ offset < Len(text) /\ ~AtBackslash
    /\ offset' = offset + 1
    /\ OnlyReads /\ UNCHANGED <<segment, ret, got>>

\* Mutant: segment_start stays.
NextSegment_Stays(end) == segment

NextSegment(end) == end

\* What was read since the last escape is appended, and the code point.
Escape ==
    LET e == request.escapes[offset + 1] IN
    /\ Unescaping /\ offset < Len(text) /\ AtBackslash
    /\ e # Invalid
    /\ ret' = ret \o Segment \o e.point
    /\ offset' = e.end /\ segment' = NextSegment(e.end)
    /\ OnlyReads /\ UNCHANGED got

\* Mutant: u_unescapeAt has put offset back, and the loop does not step on.
AfterInvalid_Back == offset

\* Mutant: it is stepped over.
AfterInvalid_Skips == offset + 2

AfterInvalid == offset + 1

\* An escape that is not one: what was read has been appended already, and the
\* segment goes on.
InvalidEscape ==
    /\ Unescaping /\ offset < Len(text) /\ AtBackslash
    /\ request.escapes[offset + 1] = Invalid
    /\ ret' = ret \o Segment
    /\ offset' = AfterInvalid
    /\ OnlyReads /\ UNCHANGED <<segment, got>>

UnescapeReturns ==
    /\ Unescaping /\ offset = Len(text)
    /\ got' = Text(ret \o Segment)
    /\ OnlyReads /\ UNCHANGED <<offset, segment, ret>>

Unescape == PlainUnit \/ Escape \/ InvalidEscape \/ UnescapeReturns

\* Arguments on either side of the ends of the text.
Around == IF text = NoText THEN {} ELSE -(Len(text) + 1) .. Len(text) + 1

PointsNext ==
    \/ \E first, last \in Around, excl \in BOOLEAN :
        ConvUnitRange(first, last, excl) \/ ConvPointRange(first, last, excl)
    \/ \E k, n \in Around : CharSpan(k, n)
    \/ UnescapeBegin
    \/ Unescape
    \/ ForgetPoints

-----------------------------------------------------------------------------
\* The units or code points that a range of arguments stands for.
Meant(x) ==
    LET r == BegLen(request.first, request.last, request.excl, Len(x)) IN
    SubSeq(x, r.beg + 1, Min({r.beg + r.len, Len(x)}))

\* A range of units is converted to the code points it touches, and a range of code
\* points to all of their units; and unless it is empty, conv_point_range takes a
\* range of whole code points back to where it came from, and the other way round.
\* A range of units that begins in the middle of a pair is left out.
SameAs(units, points) ==
    LET whole == FlattenSeq(points) IN
    units = whole \/ (whole # << >> /\ units = Front(whole) /\ Last(whole) \in Trails)

RangesAgree ==
    got.kind = "range" =>
        LET points == PointsOf(text)
            from == got.value[1]
            to == got.value[2]
            r == BegLen(request.first, request.last, request.excl, Len(text))
        IN IF request.method = "conv_unit_range"
           THEN r.beg = Len(text) \/ WidthUpTo(text, r.beg + 1) = 1 =>
                LET named == SubSeq(points, from + 1, to + 1) IN
                /\ SameAs(Meant(text), named)
                /\ Meant(text) = FlattenSeq(named) /\ from <= to =>
                    PointRange(from, to, FALSE) = Span(r.beg, r.beg + Len(Meant(text)) - 1)
           ELSE /\ SubSeq(text, from + 1, to + 1) = FlattenSeq(Meant(points))
                /\ from <= to =>
                    LET back == UnitRange(from, to, FALSE).value IN
                    SubSeq(points, back[1] + 1, back[2] + 1) = Meant(points)

\* char_span(k, n) is n graphemes from the k-th on, or all there are; it raises if
\* there is no k-th.
SpanIsChars ==
    request.method = "char_span" =>
        LET chars == [i \in DOMAIN Clusters(request.breaks) |->
                         LET c == Clusters(request.breaks)[i]
                         IN SubSeq(Nfc[text], c[1] + 1, c[2])]
            most == IF request.len <= 0 THEN Len(chars) ELSE request.start + request.len
            end == IF most < Len(chars) THEN most ELSE Len(chars)
        IN got = IF request.start \notin 0 .. Len(chars) - 1 THEN Raised
                 ELSE Text(FlattenSeq(SubSeq(chars, request.start + 1, end)))

\* unescape copies from inside the text only: segments have no negative length, and
\* an escape at the very end does not take the loop beyond it.
UnescapeStaysInside ==
    request.method = "unescape" =>
        0 <= segment /\ segment <= offset /\ offset <= Len(text)

\* The text with every escape decoded, if there is none that fails.
Reading ==
    LET rest[i \in 0 .. Len(text)] ==
            IF i = Len(text) THEN Text(<< >>)
            ELSE IF text[i + 1] # EscapeChar
                 THEN [rest[i + 1] EXCEPT !.value = <<text[i + 1]>> \o @]
            ELSE IF request.escapes[i + 1] = Invalid THEN Raised
            ELSE [rest[request.escapes[i + 1].end] EXCEPT !.value = request.escapes[i + 1].point \o @]
    IN rest[0]

\* unescape copies what stands between two escapes, once and in order, and puts
\* each escape's code point in its place.
UnescapeDecodes ==
    request.method = "unescape" /\ got.kind = "text" /\ Reading.kind = "text" =>
        got = Reading

\* unescape ends, also with escapes that fail, at the end of the text included.
UnescapeEnds == Unescaping ~> ~Unescaping
=============================================================================
