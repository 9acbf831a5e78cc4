# A TLA+ model of icu4r

icu4r is a Ruby 1.8 extension in C over ICU: UTF-16 strings (`UString`), regular
expressions (`URegexp`, `UMatch`), converters, calendars, collators, resource
bundles and formatting. This directory holds a model of the part that has logic
of its own, the TLC configurations that check it, and TLAPS proofs about it.

    tlc -config MCUStringIteration.cfg MCUStringIteration.tla     # likewise the others
    tlapm UStringIterationProofs.tla

## The system

| component | source | state it keeps | operations |
|---|---|---|---|
| UString buffer | `ustring.c`, `icu_common.h` | `ICUString {len, capa, busy, ptr}` and the block behind `ptr`, with a U+0000 sentinel | `new`, `dup`, `replace`, `clear`, `<<`, `+`, `*`, `insert`, `[]`, `[]=`, `slice!`, `*strip!`, `upcase!`, `downcase!`, `normalize`, `foldcase` |
| UString iteration | `ustring.c`, `uregex.c` | `busy`, the freeze flag, C frames across `rb_yield`, the matcher a `URegexp` owns | `each_*`, `scan`, `sub`, `gsub` and their `!` forms, all in-place methods |
| Text walks | `ustring.c`, `uregex.c` | the match a matcher stands at, offsets, the buffer a result is put together in | `scan`, `sub`, `gsub`, `split`, `index`, `rindex`, replacement texts |
| Reading by code points | `ustring.c` | offsets and the text put together, on the C stack | `conv_unit_range`, `conv_point_range`, `char_span`, `chars`, `codepoints`, `unescape` |
| Search and comparison | `ustring.c` | none | `search`, `==`, `<=>`, `casecmp`, `hash`, `include?` |
| URegexp, UMatch | `uregex.c`, `uregex.h` | one ICU matcher handle per URegexp; copies of the groups per UMatch | `new`, `match`, `=~`, `===`, `split`, `[]`, `range` |
| Result buffers | `ustring.c`, `uregex.c`, `converter.c`, `collator.c`, `calendar.c`, `fmt.cpp`, `ucore_ext.c` | a block, a length, a status while a call lasts | guess or preflight, overflow, retry, what is freed on the way out |
| UConverter | `converter.c` | an ICU converter with its own shift state | `to_u`, `from_u`, `convert`, `reset` |
| UCalendar | `calendar.c` | an ICU calendar; the process's default zone | `add`, `roll`, `set`, `get`, `clone`, ... |
| UCollator | `collator.c` | an ICU collator | attributes, `strcoll`, `sort_key` |
| UResourceBundle | `ubundle.c` | an ICU bundle | `[]`, conversion of resources |
| Formatting | `fmt.cpp` | none | message format, number and date parsing, transliteration |
| Ruby glue | `ucore_ext.c`, `icu4r.c` | none | `String#to_u`, `ULocale`, method tables |

How they interact:

- A method of UString that takes a block calls `rb_yield` in the middle of its
  loop. The block is any Ruby program: it may call any method of the same string
  and the same URegexp, and let other threads run.
- In-place methods call `icu_check_frozen`, which raises when the string is
  frozen or `busy`. Iterators count themselves in `busy`.
- In-place methods that splice go through `ustr_splice_units`, which sizes the
  block by what `capa` says of it.
- A URegexp is a single ICU matcher. Every search gives it a text and moves it;
  `gsub` takes the matcher over and leaves a clone in the URegexp
  (`icu_reg_clone`).
- Converters, calendars, collators and bundles wrap one ICU handle each in
  `DATA_PTR`; the collector closes it when the object dies, and may run inside any
  C function that makes a Ruby value. `UConverter#convert` runs two converters at
  once and leaves them in the state it ends in.
- `UResourceBundle#[]` reads a resource by calling itself for every element, with a
  handle per level and one ICU status for all calls of a level.
- Whatever ICU computes comes back through a block the method has made too large or
  too small: the method guesses, asks, and asks once more.

What is hard here: there is no parallelism (Ruby 1.8 runs one thread at a time and
switches only inside `rb_yield`), but iterators of several threads and several
depths interleave over the same strings and regexps; they are left by `break`,
`throw` and exceptions; the counter that protects a walk is eight bits wide; a
buffer's capacity is remembered in one place and the block replaced in another;
indices are code units and have to be kept off the middle of a surrogate pair;
loops over matches have to get past empty ones; handles and blocks have to be let
go on every way out of a function, by an exception above all; and a converter keeps
the middle of a character from one call to the next. There are no messages,
persistent data or timeouts.

What makes each part correct:

- *iteration*: nothing moves, frees or changes a buffer while a C frame walks it;
  `busy` is the number of walks outstanding; every matcher has one owner; a frozen
  string keeps its text.
- *buffer*: `capa` is the size of the block, the sentinel is there, no store
  leaves the block, and text by text each method does what it promises.
- *text walks*: the matches taken are the leftmost ones that do not overlap, no
  unit of the text is lost or doubled, a replacement is read as it was written,
  and the loop ends.
- *reading by code points*: conversions of ranges lose nothing and take whole code
  points back, `char_span` cuts where a grapheme ends, `unescape` copies every unit
  once and ends.
- *result buffers*: ICU never stores outside the block it was given, what is
  returned is whole, its capacity is the block's, and the block, the converter and
  the arguments are let go.
- *native handles*: what an object or a running call holds is open and held once; a
  handle gets lost in known ways only; `convert` returns the whole encoding whatever
  the converters were left in; a resource that is read has no hole.

`PROJECT.json` lists every component with what is and is not modelled, and under
`hazards` each place where the code could go wrong in a way a test would hardly
reach.

## Modules

| module | what it is |
|---|---|
| `UStringIteration` | iterators, `busy`, freeze, matcher ownership |
| `UStringIterationProofs` | its theorems |
| `CodeUnits` | the ICU macros and comparisons `ustring.c` uses on code units |
| `UStringValue` | abstract specification: a UString is a text |
| `UStringBuffer` | `ICUString` and its block, method by method; implements `UStringValue` |
| `UStringBufferProofs` | its theorems |
| `UStringRefinementProofs` | that it implements `UStringValue` |
| `UTextWalk` | the match loops of `scan`, `sub`, `gsub`, `rindex`, replacement texts, `index` and `split` |
| `UTextWalkProofs` | its theorems |
| `UStringPoints` | range conversions, `char_span`, `unescape` |
| `UStringReaders` | `UTextWalk` and `UStringPoints` put together |
| `UStringReadersProofs` | theorems about both |
| `ResultBuffers` | 17 ways to get a result of unknown length out of ICU |
| `ResultBuffersProofs` | its theorems |
| `IcuHandles` | objects that own an ICU handle: allocation, `initialize`, copies, parsing, the collector |
| `UConverter` | the state of a converter, and `convert` chunk by chunk |
| `UResourceBundle` | the recursive reading of a resource |
| `IcuObjects` | the last three put together |
| `IcuObjectsProofs` | its theorems |
| `SequenceFacts` | induction, existence of recursive functions, `FlattenSeq`: lemmas the proofs share |
| `MC*` | small instances of these for TLC |

### UStringIteration

A C function is one step from one `rb_yield` to the next. `frame[<<t, d>>]` is what
an iterator of thread `t` at depth `d` keeps on the C stack (`seen` is the pointer and
text it works on), `buffer[s]` a string's pointer and text, `matcher[re]` the handle
of a URegexp and `target[h]` the text and match a handle stands at. `XBegin`, `XNext`
and `XEnd` are the stretches of `icu_ustr_each_mode`, `icu_ustr_scan` and `ustr_gsub`;
`GsubModified` is `ustr_mod_check` raising, `Abandon` is any way of leaving the block
without returning from it, or a search that raises when it has returned.
`ScanBeginRaises` and `GsubBeginRaises` raise behind `++busy` and before the first
`rb_yield` (`RaiseBusy`): the search of a URegexp without a matcher, a failing
`icu_reg_clone`. `ReinitializeFails` is how a URegexp comes to have none: `initialize`
closes the handle and stores NULL (`NoHandle`) before it raises. In-place methods appear by what they do to the block: same
block or realloc (`ModifyUnits`), shrink in place (`Strip`), always another one
(`ChangeCase`). `malloc` may return any address that is not in use, an address that
has been freed included, which is what `ustr_mod_check` is exposed to.

`abandoned` is a history variable: increments of `busy` that nobody will undo.

### UStringBuffer and UStringValue

`object[s]` is `len`, `capa`, the real size of the block (`alloc`) and its cells.
Each method is one step, composed of `CapaResize`, `MoveTail`, `CopyIn` and
`Terminate` as `ustr_splice_units` is of realloc, memmove, memcpy and the sentinel.
`Junk` is what a cell holds that nobody has written. What ICU computes is left to
`Forms`: any result a case mapping or normalisation may have. `recased` is a history
variable: the block came from `upcase!` or `downcase!`, which leave `capa` as it was.
A splice that would store outside the block is undefined and not followed (`Fits`);
`StoresFit` says which strings cannot come to one.

`UStringValue` is what the methods promise: a text is put together of texts the
strings had before the call. `ImplementsPromise` is that specification under
`value[s] = Text(object[s])`.

### UTextWalk

`pattern` is the URegexp as it behaves on this one text: at each index no match, or
one that ends somewhere. `uregex_find`, `uregex_findNext` and `u_strFindLast` are ICU's
and marked external in the map. One iteration of a loop is one step: `ScanOnce` with
the offset `ustr_scan_once` computes, `GsubOnce` with `findNext`, `RindexOnce`. `FromEnd`
and `LastStart` are what `index` and `rindex` make of a negative position and one behind
the text. `index`
and `split` are one step each: the loop of the first is ICU's, that of the second is
`uregex_split` (`Fields`, external: it comes to one match after the other, `Divide`, and
ends with `WithRest`) and what `icu_ustr_split_m` makes of its fields
(`pieces`). `Replacement` is `icu_reg_get_replacement`, which reads a replacement unit
by unit; its reference is `Meaning`, item by item of what the program wrote. A template
is one that can be read in one way (`IsTemplate`): its group numbers are of three digits at
most and no digit follows one that could be longer. `Forget`
is the program going on with the answer: no variable of a call outlives it.

### UStringPoints and UStringReaders

`request` is the method called, its arguments and what ICU says of the text: where
graphemes end, what stands behind each backslash and how far it reaches. The range
conversions and `char_span` are one step, the loop of the latter being the recursive
function `after` of `Spanned`, turn by turn `Visit`; `unescape` takes one per turn of its loop,
`offset` and `segment` being its `offset` and `segment_start`. `BegLen` is Ruby's
`rb_range_beg_len`, whose length may go one beyond the end, as the code allows for.
`UStringReaders` runs either the walks or the reading by code points: they share
nothing but a text that neither changes, so a behaviour is of one kind, with the other
parked.

### ResultBuffers

A protocol is a record that says of one method what it makes, tells ICU, looks at and
frees, at each stage of a call: refusing arguments, opening a converter or formatter,
asking ICU once or twice, wrapping or copying the result. The actions are the stages,
written once (`icu_ustr_to_rstr` has all of them), and each of the 17 protocols is read
off its own function. A result is a length. `extent` is the history of how far ICU has
stored, `held` what the call has to let go. `AskFails` is ICU stopping half way.

### IcuHandles, UConverter, UResourceBundle, IcuObjects

`class[o]` and `ptr[o]` are an object and its `DATA_PTR`, `open` the handles ICU has
open, `call` and `users` the C function under way and the objects on its stack. The
collector may close any other object at any time, also in the middle of a call.
`stream[h]` is what a converter keeps between calls: a byte of half a character, a shift
state, bytes that had no room. `Convert` is the loop of `icu4r_cnv_convert_to`, and
`FillPivot`, `WriteLeft`, `WriteNext`, `WriteShiftBack` the steps of `ucnv_convertEx`,
which is ICU's. `stack` holds one record per nested call of `icu_bundle_read`: the kind
of resource, its handle, what it has still to get, and the one status
(`UErrorCode`) that serves all calls of ICU at that level. With `return_locale` the
answer goes into a pair with the name of the locale; that touches no handle but the one
`icu_bundle_aref` closes anyway, so it is part of `Return`, and of `ConversionRaises` if
it raises.

## Runs

| run | instance | shows |
|---|---|---|
| `iteration` | 2 threads, 2 strings, 1 URegexp, 2 walks, `busy` mod 3 | `BusyCounts`, `IterationStable`, `GsubKeepsItsMatch`, `FrozenKeepsItsText` |
| `iteration_round` | 1 thread, 1 string, 2 URegexps, 2 walks, `busy` mod 2 | with the counter coming round: `BusyCountsModulo`, `HandlesHaveOneOwner` |
| `buffer` | 2 strings of at most 3 units, a pair and a U+0000 among them | `CapacityHolds`, `StoresFit`, `TimesIsItsLoop` |
| `buffer_promise` | 2 strings of at most 3 units | `ImplementsPromise` |
| `text_walk` | texts of 0 and 3 units (one with a pair, one with a U+0000), every pattern with a group or none, 3 templates, 2 words and the empty one, positions from one in front of the text to one behind it, limits -1, 0, 1, 2; 6 texts of up to 5 units read by code points | `TakesLeftmost`, `OutIsSubstitution`, `RindexIsLastOfWalk`, `IndexFindsFirst`, `SplitDivides`, `EveryCallReturns`; `RangesAgree`, `SpanIsChars`, `UnescapeStaysInside`, `UnescapeDecodes`, `UnescapeEnds` |
| `result_buffers` | sources of 0 to 3 units, results of up to 8 | `StoresInBlock`, `ReturnsWhole`, `CapacityIsTrue`, `RefusesExactGuess`, `LosesNothingElse`, `EveryCallEnds` |
| `icu_objects` | 2 objects, 4 handles, 4 texts of up to 3 characters, 2 substitution texts, buffers of 2 bytes, resources of up to 2 elements, 3 levels deep | `HeldIsOpen`, `HeldOnce`, `ConvertsWhole`, `NilsFollowAFailure`, `LosesOnlyKnown`, `EveryCallEnds` |
| `iteration_wrap` | as `iteration`, 3 increments, `busy` mod 3 | violation: a store goes through under a walk |
| `iteration_leak` | as `iteration` | violation: busy after the last walk was left |
| `buffer_capa` | as `buffer` | violation: `capa <= len` after a case mapping |
| `buffer_pairs` | as `buffer`, mappings that keep code points whole | violation: half a surrogate pair |
| `text_walk_rindex` | one text of 2 units | violation: `rindex` misses a suffix |

Bounds, and why they are enough:

- Two walks of two threads over two strings already give every pair: same thread
  nested, other thread, same string, other string, same URegexp, other. Three
  addresses let a string move to a block another one has just left. `BusyMod` is a
  parameter; the width 256 is only ever compared with the number of outstanding
  walks (`MaxOutstanding`), below it in `iteration`, at or above it in the others.
- `StartLen = 2`, `Slack = 2`, `Headroom = 1` stand for 16, 1024 and 20: with three
  units a block crosses both thresholds of `ustr_capa_resize`. `TimesIsItsLoop` is asked
  of products of up to nine units, so that the splices of `str * n` also shrink the block
  they were given room in. Each splice takes a
  start, a deletion and an insertion, whose order on three units is every order.
  Two strings are needed for splices of one into the other and into itself; `Plus`
  and `SetSubstring` take three arguments, of which two then coincide.
- Three units hold a match, an empty match beside it and one behind that; or a pair
  with an empty match on each side. All 4-index patterns are enumerated. Offsets go
  from one in front of the text to one behind it, so that negative ones, both ends and
  what is outside occur; limits are none, none with the empty pieces kept, the whole
  text, and one cut.
- The texts read by code points are five units at most: two pairs around a unit, halves
  of a pair that are none, and escapes with digits, without any, at either end and one
  behind another. Every range around each text is converted, with every set of grapheme
  boundaries and every way the escapes may fail.
- A result of 8 is longer than any first guess for 3 units, exactly as long as some
  (`Slack = 2` stands for the 20 of `normalize`) and one longer than others.
- `BufSize = 2` stands for the 1024 bytes of `convert`: a wide character of two bytes
  with its shift fills more than one buffer, ends in the middle of one, or exactly with
  it. Two objects and four handles give a clone and its original, two converters or one
  used as both, and a handle lost beside them. Three levels of resources have an outer,
  an inner and one between.
- Views leave out what is overwritten before it is read: cells behind the sentinel,
  and the text of a handle that no gsub is using.

Fairness: `UTextWalk` has `WF_vars(Step)`, `UStringReaders` that and the same of
`Unescape`, `ResultBuffers` and `IcuObjects` have `WF_vars(Proceed)`: a C function that
has begun runs on, nothing else being able to run in between but the collector. Failures
are never fair. `UStringIteration` and `UStringBuffer` are for safety only: whether a
block ever returns is the Ruby program's business.

## Proofs

For all values of the constants, under the assumptions stated with them:

- `UStringIterationProofs`: `TypeOK`, and `FrozenKeepsItsText`; with
  `MaxOutstanding < BusyMod`, `BusyCounts`, `IterationStable` and
  `GsubKeepsItsMatch`. The added assumption says that fewer walks of a string are
  outstanding than `busy` has values: `iteration_wrap` shows that it is needed.
  The inductive invariant is the conjunction. Stability needs `BusyCounts`: a
  string under a walk is in `Active(s)`, so its count is positive, so
  `MayModify` fails; and the final replace of a `gsub!`, which comes after its own
  decrement, goes through only if the count was one, that is, if no other walk is
  on the string. The counting step is a fact about cardinality: pushing or popping
  a frame adds or removes one slot of one string. Without any assumption on the number of
  walks: `HandlesHaveOneOwner`, which needs none of that, and `BusyCountsModulo`, where
  `++busy` and `--busy` are shown to be counting up and down modulo `BusyMod`.
- `UStringBufferProofs`: `TypeOK`, `CapacityHolds`, `StoresFit` and `TimesIsItsLoop`. The
  invariant is `TypeOK /\ CapacityHolds`; it holds through a splice because `CapaResize`
  makes the block `capa` units long whenever it reallocates, and a block it leaves alone
  is long enough already if `capa` was right. The lemmas on `SpliceUnits` also give
  the text it leaves, as `UStringValue` has it. `TimesIsItsLoop` needs no more of a state
  than its types: after `i` splices the object holds `i` copies, with a capacity between
  `StartLen` and that of the result (`CopiedTo`), and the last splice brings it there.
- `UStringRefinementProofs`: with `Leads = {}`, `Spec => ImplementsPromise`. The
  invariant adds `LegalTexts`, that no text has a unit nobody wrote: without it a
  step could be a promised one and leave `Junk` in a text. Each method has a lemma
  that names the promise it keeps and the range or text that witnesses it; `strip!`
  needs that the spaces `rstrip!` finds in what `lstrip!` left were at the end of the
  string before, which holds because what `lstrip!` leaves does not begin with one.
  With surrogate pairs the theorem is false, by the code: the adjusted range may end
  one unit past the text (`SpliceArgs`), and the sentinel is then taken for text.
- `UTextWalkProofs`: `TakesLeftmost`, `RindexIsLastOfWalk`, `IndexFindsFirst`,
  `OutIsSubstitution`, `SplitDivides` and `TypeOK`, for any text, pattern, template and
  limit.
  - The first three have the invariant `PatternOK` (a match ends inside the text, on a
    boundary), `Standing` (a walk that goes on stands at a match), `Scanning` and `Seeking`
    (no match lies between the last one taken and where the walk goes on), and `Sought` and
    `GsubReturned` for what has been answered. `Leftmost` is a set chosen by a property; two
    sets with it have no least index at which they differ, so there is one, and each step
    adds its next member.
  - `OutIsSubstitution` adds `Substituting` (`FillInv`): halfway, `out` is what the matches
    taken so far are filled in with, and `start` is the end of the last one. That
    `Replacement`, reading units, gives what the items mean is `ReplacementMeans`, by
    induction on the items from the last one back: at the place where an item is written
    the reading does what the item says and goes on at the next, because of `IsTemplate`.
  - `SplitDivides`: the pieces are exactly those between the matches that begin before the
    end of the text and within the limit (`Due`), but for empty ones at the end of a split
    whose limit is 0. It is a fact about one step, since `split` is one: the walk of
    `MatchesFrom` takes the leftmost matches in their order (`MatchesAreLeftmost`), which
    lie one behind another (`LeftmostLies`); with `k` of them divided there is a piece for
    each until the room or the text ends (`DividedTo`), so all of the pieces are known
    (`LaidOut`, `Lays`), also as cut at a U+0000 and with empty ones dropped (`Shows`).
  - `TypeOK` is `TypeInv`: `FillInv` for the results that are put together, and `Typed`.
- `UStringReadersProofs`: the same of `ReadersSpec`, which is the specification the run
  checks (`ReadersFindMatches`, `ReadersSubstitute`, `ReadersSplit`); and of the reading
  by code points:
  - `UnescapeStaysInside`, from `PointsInv`: the segment begins at or before the offset,
    which an escape moves to where ICU says it ends, inside the text by the external
    definition of `EscapesAt`.
  - `UnescapeDecodes`, from `Decoding`: what has been put together, what has been read since,
    and what the rest of the text reads as, are together what the text reads as.
  - `SpanIsChars`: the state of the loop after `j` graphemes in closed form (`Visited`), and
    that pieces that lie side by side make the text they are cut from (`PiecesJoin`).
  - `RangesAgree`. The places where code points begin, and the end, are the marks of a text
    (`Marks`); in their order (`Marked`) `PointsOf` cuts at each (`PointsAre`), `U16_FWD_N`
    goes from one to the next (`FwdIs`), and `u_countChar32` of what begins at a mark counts
    those inside (`CountIs`). So either conversion is given by the two marks its range
    reaches to (`UnitRangeIs`, `PointRangeIs`), and each undoes the other. `RangeInv` ties
    what was returned to its arguments.
- `ResultBuffersProofs`: `TypeOK`, `StoresInBlock`, `ReturnsWhole`, `CapacityIsTrue`,
  `RefusesExactGuess`, `LosesNothingElse`, for any lengths and slack. One lemma per
  question goes through the 17 protocols; the invariant says what is held at each stage
  (`Underway`), what the last attempt has done (`Progress`), and what is left at the end
  (`Ended`).
- `IcuObjectsProofs`: `TypeOK`, `HeldIsOpen`, `HeldOnce`, `NilsFollowAFailure`,
  `LosesOnlyKnown`, for any objects, handles and depth. The invariant adds `OuterWait`:
  in every level but the innermost the call of the next one is under way.
  `ConvertsWhole`, for any text, substitution text and buffer size, has `WholeInv`: a
  conversion under way has come behind some character `k` of its source (`Come`): the pivot
  and what is still to be read are the text from there on, and what was returned, the buffer
  and what had no room in it are the bytes up to there, or those of all of the text with the
  shift back at its end. A turn of `ucnv_convertEx` goes to `k + 1` or moves bytes on, so it
  is no matter where the buffer is full; what a failed conversion left in a converter does
  not come in because `convert` resets both.
- `SequenceFacts` is what those proofs rest on. Induction is stated with a set of numbers
  in the place of a predicate (`InductionOver`, `InductionDown`), so no operator is passed
  to a theorem. TLA+ takes `f[n] == ...f[n - 1]...` for a choice of some function with that
  property. `IterationExists` shows that there is one where a value depends on the value
  before, `CountdownExists` where it depends on one further on, whatever the distance; for
  `FwdN`, `PointsOf` and `Spanned` a solution is built where it is needed. The laws of
  `FlattenSeq` come from the same.

The named assumptions of the modules say what the code gives: texts are of code units,
limits are integers, `Backslash` and `Dollar` are two units and no digits, templates are
`IsTemplate`, the leads, trails, spaces and U+0000 are different units, mappings make
units of units, the blocks and buffers are not of size 0 and `Slack` is not below
`StartLen`. Every run evaluates those of its modules.

What is only model-checked is liveness: `EveryCallReturns`, `UnescapeEnds` and
`EveryCallEnds` of both modules, which are out of the prover's reach. Every invariant and
every action property of a run that passes is proved: `ImplementsPromise` with `Leads = {}`,
and the three that rest on the count of walks with `MaxOutstanding < BusyMod`, as said above.

## What the violations say

Each run that ends in a violation states what the code's own comments, messages or
docs say and shows where the code departs from it; `PROJECT.json` quotes the lines.
In short: 256 outstanding walks make a string look idle; a walk left through its
block keeps the string busy for good; `upcase!` and `downcase!` leave a stale
`capa`; adjustments meant to keep surrogate pairs whole split them; `rindex` does not
see a suffix. Further disagreements met on the way and recorded without a run: `scan`
with one group; group numbers of more digits than the pattern has groups;
`s[re, n] =` with a group that took no part in the match; `split` without a limit
that runs out of room when the pattern has groups, and cuts each piece at its first
U+0000; `index`, which counts an offset in front of the text from the end twice;
`==`, which does not see what is behind a U+0000, where `hash` does; `unescape`, which
repeats the text in front of an escape that fails; and the range conversions, whose
empty result at the start of a text is a range that means all of it.

## Not modelled

- What ICU does: matching, case mapping, normalisation, breaking, collation, formatting.
  Their results are arbitrary values of the right kind; `uregex_split`, `ucnv_convertEx`
  and the like, whose steps the properties are about, are modelled from how the code uses
  them and marked external.
- `search`, `==`, `<=>`, `casecmp`, `strcoll`, `hash`, `include?`, `inspect`, `to_i`,
  `to_f`: they change nothing and take one call of ICU each, or a loop that only collects
  what ICU finds.
- What `scan` collects of each match, the accessors of `UMatch` (copies of what the matcher
  says when it is made), the options of `URegexp`.
- The fields of a calendar (`add`, `roll`, `set`, `get`, ...), the attributes of a collator,
  and the process-wide default zone: one call of ICU each, which checks its arguments.
- `ULocale` and the method tables, which have no logic; tools and samples.
- A string that is garbage-collected while something still points at it: Ruby's
  conservative collector sees the C frames. The objects with handles are modelled with
  the same assumption (`users`).
- The store of `s[re, n] =` in front of its block, and any other undefined one.
- The break iterator that `each_*` leaves open when its block is left by `break` or
  `throw`: the increment of `busy` that is left behind is modelled, the handle is not.

Modelled, but outside what a property claims, because the code and its documentation
disagree there (see above): `index` of a UString from an offset in front of the text,
`split` by a pattern with groups, texts with escapes that fail (`UnescapeDecodes`), and
ranges that are empty or begin inside a pair (`RangesAgree`).

## Plan

Done: the iteration protocol, the buffer, the abstract value and the refinement, the match
loops with `index` and `split`, reading by code points, result buffers, native handles
with the streaming of `UConverter` and the reading of resources, and the theorems of all
of them. In order of what is next:

1. Comparison (`==`, `<=>`, `hash`) against a reference, for texts with U+0000.
2. What `scan` collects and a `UMatch` keeps, with patterns of two groups.
3. The walks under blocks: `UTextWalk` inside the frames of `UStringIteration`.
