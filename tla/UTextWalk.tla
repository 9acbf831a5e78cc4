------------------------------ MODULE UTextWalk ------------------------------
(***************************************************************************)
(* The methods of ustring.c that walk a string from match to match of a    *)
(* URegexp: scan (ustr_scan_once), sub and gsub with a replacement string  *)
(* (ustr_gsub, icu_reg_get_replacement), rindex (icu_reg_search from       *)
(* right to left), split (icu_reg_split), and index, which stops at the    *)
(* first.  Each goes on from the last match in its own way: scan starts a  *)
(* new search at an offset it computes, the others leave it to             *)
(* uregex_findNext.                                                        *)
(*                                                                         *)
(* The matcher is ICU's: a pattern is what it matches in this text, anchor *)
(* by anchor.  One iteration of a loop is one step.  No block runs and the *)
(* text does not change under the walk: UStringIteration has that, and the *)
(* store gsub! makes of its result.  What scan collects is the matches it  *)
(* has taken.                                                              *)
(***************************************************************************)
EXTENDS CodeUnits, SequencesExt

CONSTANTS
    Subjects,       \* texts that are searched
    Templates,      \* replacement texts, as the items they are written with
    Words,          \* texts that index and rindex are asked for
    Limits,         \* second arguments of split; 0 is also none
    Groups,         \* capture groups a pattern has at most
    Dollar, Backslash,
    DigitValue,     \* the value of each unit that is a digit
    NoMatch,        \* the pattern does not match at an index
    NoRange         \* a group that had no part in a match

VARIABLES
    subject,    \* the UString
    pattern,    \* the URegexp: what it matches at each index of the subject
    call,       \* the method that was called, with its arguments
    pc,         \* no method is called, one is running, or has returned
    match,      \* the matcher handle: the match it stands at
    start,      \* scan's *start; gsub's end; icu_reg_search's cur_pos
    out,        \* gsub's buf
    answer,     \* what index and rindex return
    pieces,     \* what split returns
    visited     \* history: the indices of the matches taken

vars == <<subject, pattern, call, pc, match, start, out, answer, pieces, visited>>

-----------------------------------------------------------------------------
\* The units of the subject from index i up to j.
Stretch(i, j) == SubSeq(subject, i + 1, j)

Boundary(x, i) ==
    ~(0 < i /\ i < Len(x) /\ x[i] \in Leads /\ x[i + 1] \in Trails)

Found(m) == m # NoMatch

From(m) == m[0][1]

To(m) == m[0][2]

\* Where a match at each index may end: behind a whole code point, if it is not
\* empty.
Ends(x) ==
    {f \in [0 .. Len(x) -> -1 .. Len(x)] :
        \A i \in 0 .. Len(x) : f[i] # -1 => i <= f[i] /\ (f[i] = i \/ Boundary(x, f[i]))}

\* A pattern of n groups: at each index no match, or one that ends there; the
\* groups had no part in some of the matches.
Pattern(f, n, part) ==
    [i \in DOMAIN f |->
        IF f[i] = -1 THEN NoMatch
        ELSE [g \in 0 .. n |-> IF g = 0 \/ i \in part THEN <<i, f[i]>> ELSE NoRange]]

NoCall == [method |-> "none"]

Init ==
    /\ subject \in Subjects
    /\ \E f \in Ends(subject) : \E part \in SUBSET {i \in DOMAIN f : f[i] # -1} :
       \E n \in 0 .. Groups : pattern = Pattern(f, n, part)
    /\ call = NoCall
    /\ pc = "idle"
    /\ match = NoMatch
    /\ start = 0
    /\ out = << >>
    /\ answer = -1
    /\ pieces = << >>
    /\ visited = {}

-----------------------------------------------------------------------------
\* uregex_find from index i: the first match at i or at a code point behind it.
FindFrom(i) ==
    LET hits == {j \in i .. Len(subject) :
                    (j = i \/ Boundary(subject, j)) /\ Found(pattern[j])}
    IN IF hits = {} THEN NoMatch ELSE pattern[Min(hits)]

\* uregex_findNext: from the end of the match, or from the code point behind an
\* empty one.
FindNext(m) ==
    IF From(m) < To(m) THEN FindFrom(To(m))
    ELSE IF To(m) = Len(subject) THEN NoMatch
    ELSE FindFrom(To(m) + WidthFrom(subject, To(m) + 1))

\* uregex_start and uregex_end of a group: nothing to put in if it had no part in
\* the match, or if there is no group of that number.
Group(m, n) ==
    IF n \in DOMAIN m /\ m[n] # NoRange THEN Stretch(m[n][1], m[n][2]) ELSE << >>

-----------------------------------------------------------------------------
\* Replacement texts.

IsDigit(u) == u \in DOMAIN DigitValue

Number(ds) == FoldLeft(LAMBDA n, d : 10 * n + DigitValue[d], 0, ds)

\* Digits of a group number from position i of r: three at most.
DigitsAt(r, i) ==
    Max({n \in 0 .. 3 : i + n - 1 <= Len(r) /\ \A j \in i .. i + n - 1 : IsDigit(r[j])})

\* icu_reg_get_replacement, from each position of r on.
Replacement(r, m) ==
    LET rest[i \in 1 .. Len(r) + 1] ==
            IF i > Len(r) THEN << >>
            ELSE IF r[i] = Backslash
                 THEN IF i = Len(r) THEN << >> ELSE <<r[i + 1]>> \o rest[i + 2]
            ELSE IF r[i] # Dollar \/ DigitsAt(r, i + 1) = 0 THEN <<r[i]>> \o rest[i + 1]
            ELSE LET n == DigitsAt(r, i + 1)
                 IN Group(m, Number(SubSeq(r, i + 1, i + n))) \o rest[i + n + 1]
    IN rest[1]

\* What the Ruby program writes: a unit, a unit behind a backslash, a group, or a
\* backslash at the very end.  A dollar sign alone is a group of no digits.
Raw(item) ==
    CASE item.kind = "unit" -> item.units
      [] item.kind = "quoted" -> <<Backslash>> \o item.units
      [] item.kind = "group" -> <<Dollar>> \o item.units
      [] item.kind = "end" -> <<Backslash>>

\* What each item stands for.
Meaning(item, m) ==
    CASE item.kind \in {"unit", "quoted"} -> item.units
      [] item.kind = "group" -> IF item.units = << >> THEN <<Dollar>>
                                ELSE Group(m, Number(item.units))
      [] item.kind = "end" -> << >>

Items == [kind : {"unit", "quoted", "group", "end"}, units : Seq(Units)]

\* The items can be told apart: no digit follows a group number that could be
\* longer.
IsTemplate(t) ==
    /\ t \in Seq(Items)
    /\ \A i \in 1 .. Len(t) :
        /\ t[i].kind \in {"unit", "quoted"} => Len(t[i].units) = 1
        /\ t[i].kind = "unit" => t[i].units[1] \notin {Dollar, Backslash}
        /\ t[i].kind = "end" => i = Len(t)
        /\ t[i].kind = "group" =>
              Len(t[i].units) <= 3 /\ \A j \in 1 .. Len(t[i].units) : IsDigit(t[i].units[j])
        /\ t[i].kind = "group" /\ i < Len(t) /\ Len(t[i].units) < 3 =>
              ~(t[i + 1].kind = "unit" /\ IsDigit(t[i + 1].units[1]))

ASSUME TextsAssumption == Subjects \cup Words \subseteq Seq(Units)

ASSUME LimitsAssumption == Limits \subseteq Int

ASSUME TemplatesAssumption ==
    /\ Groups \in Nat
    /\ Dollar # Backslash /\ {Dollar, Backslash} \subseteq Units \ DOMAIN DigitValue
    /\ \A t \in Templates : IsTemplate(t)

Written(t) == FlattenSeq([i \in 1 .. Len(t) |-> Raw(t[i])])

-----------------------------------------------------------------------------
Calls(c) ==
    /\ pc = "idle"
    /\ call' = c
    /\ visited' = {}
    /\ UNCHANGED <<subject, pattern>>

\* The program has its answer; nothing is kept of the call.
Forget ==
    /\ pc = "returned"
    /\ pc' = "idle" /\ call' = NoCall
    /\ match' = NoMatch /\ start' = 0 /\ out' = << >> /\ answer' = -1
    /\ pieces' = << >> /\ visited' = {}
    /\ UNCHANGED <<subject, pattern>>

\* A method that takes one step.
Answers(c) ==
    /\ Calls(c)
    /\ pc' = "returned"
    /\ match' = NoMatch /\ start' = 0 /\ out' = << >>

Running(method) == pc = "running" /\ call.method = method

Goes(state) == pc' = state /\ UNCHANGED <<subject, pattern, call, pieces>>

ScanBegin ==
    /\ Calls([method |-> "scan"])
    /\ pc' = "running"
    /\ match' = NoMatch /\ start' = 0
    /\ out' = << >> /\ answer' = -1 /\ pieces' = << >>

\* Mutant: an empty match is not stepped over.
NextStart_Stuck(m) == To(m)

\* Mutant: any match is stepped over by a unit more.
NextStart_TooFar(m) == To(m) + 1

\* Where scan goes on: one unit behind an empty match.
NextStart(m) == IF From(m) = To(m) THEN To(m) + 1 ELSE To(m)

\* ustr_scan_once finds a match.
ScanOnce ==
    LET m == FindFrom(start) IN
    /\ Running("scan")
    /\ Found(m)
    /\ match' = m
    /\ start' = NextStart(m)
    /\ visited' = visited \cup {From(m)}
    /\ Goes("running")
    /\ UNCHANGED <<out, answer>>

ScanEnd ==
    /\ Running("scan")
    /\ ~Found(FindFrom(start))
    /\ match' = NoMatch
    /\ Goes("returned")
    /\ UNCHANGED <<start, out, answer, visited>>

-----------------------------------------------------------------------------
\* ustr_gsub with a replacement string; without a match the result is a copy.
GsubBegin(t, once) ==
    LET m == FindFrom(0) IN
    /\ Calls([method |-> "gsub", template |-> t, repl |-> Written(t),
              once |-> once])
    /\ pc' = IF Found(m) THEN "running" ELSE "returned"
    /\ match' = m /\ start' = 0
    /\ out' = IF Found(m) THEN << >> ELSE subject
    /\ answer' = -1 /\ pieces' = << >>

\* One match put into buf: what lies before it, and its replacement.
Replaced == out \o Stretch(start, From(match)) \o Replacement(call.repl, match)

\* Mutant: sub looks at the matcher, which has been moved on, for its tail.
Rest_OfMatcher(m, next) ==
    Stretch(IF Found(next) THEN To(next) ELSE To(m), Len(subject))

Rest(m, next) == Stretch(To(m), Len(subject))

\* Mutant: the loop does not look at what uregex_findNext returned.
GoesOn_Blindly(next) == ~call.once

\* while (icu_reg_find_next(pat) && !once)
GoesOn(next) == Found(next) /\ ~call.once

\* Also sub asks for the next match before it ends.
GsubOnce ==
    LET next == FindNext(match)
        more == GoesOn(next)
    IN
    /\ Running("gsub")
    /\ match' = next
    /\ start' = To(match)
    /\ visited' = visited \cup {From(match)}
    /\ out' = IF more THEN Replaced ELSE Replaced \o Rest(match, next)
    /\ Goes(IF more THEN "running" ELSE "returned")
    /\ UNCHANGED answer

-----------------------------------------------------------------------------
\* Mutant: a negative offset is one short of the end it counts from.
FromEnd_OneLess(pos) == IF pos < 0 THEN pos + Len(subject) - 1 ELSE pos

\* A negative offset counts from the end.
FromEnd(pos) == IF pos < 0 THEN pos + Len(subject) ELSE pos

\* Where a match that rindex returns may start at most: negative if the argument
\* points in front of the text, and then the answer is nil.
LastStart(pos) == Min({FromEnd(pos), Len(subject)})

\* rindex with a URegexp: from left to right, up to the first match behind pos.
RindexBegin(pos) ==
    LET m == IF LastStart(pos) < 0 THEN NoMatch ELSE FindFrom(0) IN
    /\ Calls([method |-> "rindex", pos |-> pos])
    /\ pc' = IF Found(m) THEN "running" ELSE "returned"
    /\ match' = m /\ start' = (IF Found(m) THEN From(m) ELSE 0)
    /\ out' = << >> /\ answer' = -1 /\ pieces' = << >>

\* Mutant: a match that starts at pos is too far.
Behind_AtPos(m) == From(m) >= LastStart(call.pos)

Behind(m) == From(m) > LastStart(call.pos)

RindexOnce ==
    LET next == FindNext(match)
        more == Found(next) /\ ~Behind(next)
    IN
    /\ Running("rindex")
    /\ match' = next
    /\ start' = IF more THEN From(next) ELSE start
    /\ answer' = IF more \/ start > LastStart(call.pos) THEN -1 ELSE start
    /\ visited' = visited \cup {From(match)}
    /\ Goes(IF more THEN "running" ELSE "returned")
    /\ UNCHANGED out

\* Where u_strFindFirst and u_strFindLast see w in the units from index i up to j,
\* which are all they are given.
HitsWithin(i, j, w) ==
    LET p == [k \in 0 .. j - i - 1 |-> subject[i + k + 1]] IN
    {k \in i .. j - Len(w) :
        Stretch(k, k + Len(w)) = w /\ OnBoundaries(p, k - i, Len(w), j - i)}

\* u_strFindLast: the last occurrence of w in the first n units of the subject.
FindLast(n, w) ==
    LET hits == HitsWithin(0, n, w) IN IF hits = {} THEN -1 ELSE Max(hits)

\* rindex with a UString: where an occurrence may start is passed as the length of
\* the text.  u_strFindLast sees an empty text at the start.
RindexWord(w, pos) ==
    LET last == LastStart(pos)
        limit == Min({last, Len(subject) - Len(w)})
    IN
    /\ Answers([method |-> "rindex_word", word |-> w, pos |-> pos])
    /\ answer' = IF last < 0 \/ Len(subject) < Len(w) THEN -1
                 ELSE IF w = << >> THEN 0 ELSE FindLast(limit, w)
    /\ pieces' = << >>

-----------------------------------------------------------------------------
\* index with a URegexp: uregex_find fails of a start outside the text.
Index(pos) ==
    LET i == FromEnd(pos)
        m == IF i \in 0 .. Len(subject) THEN FindFrom(i) ELSE NoMatch
    IN
    /\ Answers([method |-> "index", pos |-> pos])
    /\ answer' = IF Found(m) THEN From(m) ELSE -1
    /\ pieces' = << >>

\* u_strFindFirst: the first occurrence of w in the text from index i.
FindFirst(i, w) ==
    LET hits == HitsWithin(i, Len(subject), w) IN
    IF hits = {} THEN -1 ELSE Min(hits)

\* index with a UString: icu_ustr_index counts from the end once more.
IndexWord(w, pos) ==
    LET i == FromEnd(FromEnd(pos)) IN
    /\ Answers([method |-> "index_word", word |-> w, pos |-> pos])
    /\ answer' = IF i < 0 \/ Len(subject) - i < Len(w) THEN -1
                 ELSE IF w = << >> THEN i ELSE FindFirst(i, w)
    /\ pieces' = << >>

-----------------------------------------------------------------------------
\* The matches of a walk with uregex_findNext, from m on.
MatchesFrom(m) ==
    LET rest[i \in {j \in DOMAIN pattern : Found(pattern[j])}] ==
            LET next == FindNext(pattern[i])
            IN <<pattern[i]>> \o (IF Found(next) THEN rest[From(next)] ELSE << >>)
    IN IF Found(m) THEN rest[From(m)] ELSE << >>

\* uregex_split comes to a match m, with room for n fields: one is what lies before
\* it, and its groups are fields too, unless the last one must take the rest.
Divide(s, m, n) ==
    IF Len(s.fields) >= n - 1 \/ s.end = Len(subject) THEN s
    ELSE [fields |-> Append(s.fields, Stretch(s.end, From(m)))
                        \o [g \in DOMAIN m \ {0} |-> Group(m, g)],
          end |-> To(m)]

\* The rest of the text is a field, there being more matches in it or not; a text
\* that ends with a match has none.
WithRest(s, n) ==
    IF s.end = Len(subject) THEN SubSeq(s.fields, 1, Min({n, Len(s.fields)}))
    ELSE Append(SubSeq(s.fields, 1, Min({n - 1, Len(s.fields)})),
                Stretch(s.end, Len(subject)))

\* uregex_split into n fields at most.
Fields(n) ==
    LET matches == MatchesFrom(FindFrom(0))
        upTo[k \in 0 .. Len(matches)] ==
            IF k = 0 THEN [fields |-> << >>, end |-> 0]
            ELSE Divide(upTo[k - 1], matches[k], n)
    IN WithRest(upTo[Len(matches)], n)

\* icu_ustr_new2: a field ends with its first U+0000.
ToNul(x) == SubSeq(x, 1, Max({k \in 0 .. Len(x) : \A j \in 1 .. k : x[j] # Nul}))

\* Mutant: as many fields as the text has units.
FieldsFor_Units(limit) == IF limit > 0 THEN limit ELSE Len(subject)

\* Fields icu_reg_split makes room for.
FieldsFor(limit) == IF limit > 0 THEN limit ELSE Len(subject) + 1

\* icu_ustr_split_m drops empty pieces at the end if there is no limit.
Trimmed(fields) ==
    SubSeq(fields, 1, Max({0} \cup {k \in DOMAIN fields : fields[k] # << >>}))

Split(limit) ==
    LET fields == Fields(FieldsFor(limit))
        texts == [k \in DOMAIN fields |-> ToNul(fields[k])]
    IN
    /\ Answers([method |-> "split", limit |-> limit])
    /\ pieces' = IF limit = 0 THEN Trimmed(texts) ELSE texts
    /\ answer' = -1

-----------------------------------------------------------------------------
Step == ScanOnce \/ ScanEnd \/ GsubOnce \/ RindexOnce

Next ==
    \/ ScanBegin
    \/ \E t \in Templates, once \in BOOLEAN : GsubBegin(t, once)
    \/ \E pos \in -(Len(subject) + 1) .. Len(subject) + 1 :
        \/ RindexBegin(pos) \/ Index(pos)
        \/ \E w \in Words \cup {<< >>} : RindexWord(w, pos) \/ IndexWord(w, pos)
    \/ \E limit \in Limits : Split(limit)
    \/ Step
    \/ Forget

\* A C loop that has begun runs on.
Spec == Init /\ [][Next]_vars /\ WF_vars(Step)

-----------------------------------------------------------------------------
\* Types of the variables; a walk that goes on from a match stands at one.
TypeOK ==
    /\ subject \in Subjects
    /\ \A i \in 0 .. Len(subject) :
        Found(pattern[i]) => /\ From(pattern[i]) = i
                             /\ To(pattern[i]) \in i .. Len(subject)
    /\ pc \in {"idle", "running", "returned"}
    /\ match \in {NoMatch} \cup {pattern[i] : i \in 0 .. Len(subject)}
    /\ (Running("gsub") \/ Running("rindex")) => Found(match)
    /\ start \in 0 .. Len(subject) + 1
    /\ out \in Seq(Units)
    /\ answer \in -1 .. Len(subject)
    /\ pieces \in Seq(Seq(Units))
    /\ visited \subseteq {i \in 0 .. Len(subject) : Found(pattern[i])}

\* Pattern p matches x at i and none of its matches in S reaches over that start.
Free(x, p, S, i) ==
    /\ Boundary(x, i)
    /\ Found(p[i])
    /\ \A j \in S : j < i => To(p[j]) <= i

\* The matches of a walk from left to right that do not overlap.
Leftmost ==
    CHOOSE S \in SUBSET (0 .. Len(subject)) :
        \A i \in 0 .. Len(subject) : i \in S <=> Free(subject, pattern, S, i)

\* A walk takes each of these matches, in their order, and no other.  Scan, which
\* steps one unit over an empty match, does so where no pair follows one.
StepsOverPair ==
    \E i \in 0 .. Len(subject) : /\ Found(pattern[i]) /\ To(pattern[i]) = i
                                 /\ ~Boundary(subject, i + 1)

RanThrough ==
    /\ pc = "returned"
    /\ \/ call.method = "scan"
       \/ call.method = "gsub" /\ ~call.once

TakesLeftmost ==
    (call.method # "scan" \/ ~StepsOverPair) =>
        /\ visited \subseteq Leftmost
        /\ \A i \in Leftmost \ visited, j \in visited : j < i
        /\ RanThrough => visited = Leftmost

\* What gsub has put together: the text up to the last match replaced, with what
\* the template means in the place of each match, and in the end all of the text.
\* No unit between two matches is lost or doubled, sub's tail included.
Substituted ==
    LET at == InOrder(visited)
        gap(k) == Stretch(IF k = 1 THEN 0 ELSE To(pattern[at[k - 1]]), at[k])
        t == call.template
        meant(k) == FlattenSeq([i \in 1 .. Len(t) |-> Meaning(t[i], pattern[at[k]])])
    IN FlattenSeq([k \in 1 .. Len(at) |-> gap(k) \o meant(k)])

OutIsSubstitution ==
    call.method = "gsub" =>
        out = Substituted \o (IF pc = "running" THEN << >> ELSE Stretch(start, Len(subject)))

\* rindex with a URegexp answers with the last match of such a walk that starts at
\* pos or before it; a negative pos counts from the end of the text, and in front of
\* it there is none.
RindexIsLastOfWalk ==
    LET last == IF call.pos < 0 THEN Len(subject) + call.pos ELSE call.pos
        upTo == {i \in Leftmost : i <= last}
    IN
    call.method = "rindex" /\ pc = "returned" =>
        answer = IF upTo = {} THEN -1 ELSE Max(upTo)

\* index answers with the first occurrence at the offset or behind it, or nil; a
\* negative offset counts from the end of the text, and a pattern is not found from
\* one that is still in front of it.
Occurs(i) ==
    /\ Boundary(subject, i)
    /\ IF call.method \in {"index", "rindex"} THEN Found(pattern[i])
       ELSE LET j == i + Len(call.word)
            IN j <= Len(subject) /\ Boundary(subject, j) /\ Stretch(i, j) = call.word

IndexFindsFirst ==
    call.method \in {"index", "index_word"} =>
        LET i == IF call.pos < 0 THEN Len(subject) + call.pos ELSE call.pos
            from == {j \in i .. Len(subject) : Occurs(j)}
        IN /\ call.method = "index" /\ i < 0 => answer = -1
           /\ 0 <= i /\ Boundary(subject, i) =>
                answer = IF from = {} THEN -1 ELSE Min(from)

\* split by a pattern without groups: each piece is what stands between two
\* matches, up to a U+0000, and the last one allowed takes the rest.  A piece that
\* would start at the end of the text, or behind the limit, is left out; no other is,
\* but for empty ones at the end if the limit is 0.
FirstAt(k) == IF k = 1 THEN 0 ELSE To(pattern[InOrder(Leftmost)[k - 1]])

Between ==
    LET at == InOrder(Leftmost)
    IN [k \in 1 .. Len(at) + 1 |->
            Stretch(FirstAt(k), IF k > Len(at) \/ k = call.limit THEN Len(subject) ELSE at[k])]

SplitDivides ==
    call.method = "split" /\ (\A i \in Leftmost : DOMAIN pattern[i] = {0}) =>
        LET Due(k) == FirstAt(k) # Len(subject) /\ (call.limit > 0 => k <= call.limit) IN
        /\ DOMAIN pieces \subseteq DOMAIN Between
        /\ \A k \in DOMAIN Between :
            IF k \in DOMAIN pieces THEN Due(k) /\ pieces[k] = ToNul(Between[k])
            ELSE Due(k) => call.limit = 0 /\ ToNul(Between[k]) = << >>
        /\ call.limit = 0 /\ pieces # << >> => Last(pieces) # << >>

\* Every method returns: empty matches do not hold a walk up.
EveryCallReturns == (pc = "running") ~> (pc = "returned")

\* rindex without a second argument "returns the index of the last occurrence of
\* the given substring, character or pattern".
RindexFindsLast ==
    pc = "returned" /\ (call.method = "rindex"
                          \/ (call.method = "rindex_word" /\ call.word # << >>)) =>
        LET all == {i \in 0 .. Len(subject) : Occurs(i)}
        IN call.pos = Len(subject) /\ all # {} => answer = Max(all)
=============================================================================
