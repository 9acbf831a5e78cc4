-------------------------- MODULE UStringIteration --------------------------
(***************************************************************************)
(* UString iterators that hand control back to Ruby in the middle of a     *)
(* walk over the string's own buffer: each_char and its kin (ustring.c     *)
(* icu_ustr_each_mode), scan with a block, and sub/gsub with a block.      *)
(*                                                                         *)
(* The walk is protected by ICUString.busy, an unsigned char that the      *)
(* iterator increments before the first rb_yield and decrements after the  *)
(* last one; every in-place method calls icu_check_frozen first and raises *)
(* while busy > 0.  An exception, a break or a throw out of the block      *)
(* leaves the iterator without its decrement.  A URegexp is one ICU        *)
(* matcher handle; gsub takes the handle over and leaves a clone in its    *)
(* place (icu_reg_clone), because the block may use the same URegexp.      *)
(*                                                                         *)
(* Ruby 1.8 runs one thread at a time and switches only inside rb_yield, so *)
(* a C function is one step between two yields.  A thread's iterators      *)
(* nest: only the innermost one can be resumed.  A call that raises before *)
(* it changes anything is no step at all.                                  *)
(***************************************************************************)
EXTENDS Naturals, Sequences, FiniteSets

CONSTANTS
    Strings,        \* UString objects
    Regexps,        \* URegexp objects that Ruby code can reach
    Threads,        \* Ruby threads
    MaxDepth,       \* bound: iterators nested in one thread
    MaxWalks,       \* bound: iterators under way in all threads
    MaxOutstanding, \* bound: increments of one string's busy not yet undone
    BusyMod,        \* values of an unsigned char: 256 in icu_common.h
    Texts,          \* contents of a string: sequences of code units
    Ptrs,           \* addresses malloc can return for a buffer
    Handles,        \* addresses of URegularExpression structs
    NoFrame,        \* no iterator in a slot
    NoPattern,      \* an iterator over boundaries, or over a private URegexp
    NoHandle,       \* NULL: what a URegexp holds after a failed initialize
    NoBuffer        \* a matcher that was given no text

ASSUME BoundsAssumption ==
    /\ MaxDepth \in Nat
    /\ MaxWalks \in Nat
    /\ MaxOutstanding \in Nat
    /\ BusyMod \in Nat \ {0}

ASSUME FiniteAssumption == IsFiniteSet(Threads)

ASSUME TextsAssumption == \A x \in Texts : Len(x) \in Nat

ASSUME SentinelAssumption ==
    /\ NoFrame \notin [kind : {"each", "scan", "gsub", "gsub!", "sub!"},
                      str : Strings, seen : [ptr : Ptrs, text : Texts], n : Nat,
                      pat : Regexps \cup Handles \cup {NoPattern}]
    /\ NoBuffer \notin [ptr : Ptrs, text : Texts]
    /\ NoHandle \notin Handles

VARIABLES
    busy,       \* ICUString.busy
    frozen,     \* the object's FL_FREEZE flag
    buffer,     \* ICUString.ptr, and the units it points at (len is Len(text))
    matcher,    \* ICURegexp.pattern: the matcher handle a URegexp owns
    target,     \* per handle: the text it was given and the match it stands at
    depth,      \* iterators a thread is inside
    frame,      \* their C stack frames
    abandoned   \* history: iterators left by an exception, break or throw

vars == <<busy, frozen, buffer, matcher, target, depth, frame, abandoned>>

-----------------------------------------------------------------------------
Buffers == [ptr : Ptrs, text : Texts]

Kinds == {"each", "scan", "gsub", "gsub!", "sub!"}

InPlace == {"gsub!", "sub!"}

Slots == Threads \X (1 .. MaxDepth)

\* What an iterator keeps on the C stack across rb_yield: the string, the
\* buffer it walks, the elements yielded so far, and the URegexp a scan
\* searches with or the matcher handle a gsub took over.
Frames == [kind : Kinds, str : Strings, seen : Buffers, n : Nat,
           pat : Regexps \cup Handles \cup {NoPattern}]

Targets == [buf : Buffers \cup {NoBuffer}, pos : Nat]

NoText == [buf |-> NoBuffer, pos |-> 0]

IsGsub(f) == f.kind \in {"gsub"} \cup InPlace

Occupied == {p \in Slots : frame[p] # NoFrame}

Active(s) == {p \in Occupied : frame[p].str = s}

Outstanding(s) == Cardinality(Active(s)) + abandoned[s]

GsubSlots == {p \in Occupied : IsGsub(frame[p])}

FreeHandles ==
    Handles \ ({matcher[re] : re \in Regexps} \cup {frame[p].pat : p \in GsubSlots})

\* The address of a new matcher: which one is of no consequence, for nothing
\* keeps the address of a closed one.
NewHandle == CHOOSE h \in FreeHandles : TRUE

FreePtrs == Ptrs \ {buffer[s].ptr : s \in Strings}

\* The library refuses to work with a matcher that is NULL, and the caller
\* raises.
Usable(pat) == pat # NoPattern => matcher[pat] # NoHandle

\* What the handles point at once these have been opened or closed.
Without(hs) == [h \in Handles |-> IF h \in hs THEN NoText ELSE target[h]]

Top(t) == <<t, depth[t]>>

\* ++busy and --busy on an unsigned char.
Inc(b) == IF b + 1 = BusyMod THEN 0 ELSE b + 1

Dec(b) == IF b = 0 THEN BusyMod - 1 ELSE b - 1

\* icu_check_frozen(1, str) returns.
MayModify(s) == ~frozen[s] /\ busy[s] = 0

-----------------------------------------------------------------------------
Init ==
    /\ busy = [s \in Strings |-> 0]
    /\ frozen = [s \in Strings |-> FALSE]
    /\ buffer \in [Strings -> Buffers]
    /\ \A r, s \in Strings : r # s => buffer[r].ptr # buffer[s].ptr
    /\ matcher \in [Regexps -> Handles]
    /\ \A q, r \in Regexps : q # r => matcher[q] # matcher[r]
    /\ target = [h \in Handles |-> NoText]
    /\ depth = [t \in Threads |-> 0]
    /\ frame = [p \in Slots |-> NoFrame]
    /\ abandoned = [s \in Strings |-> 0]

-----------------------------------------------------------------------------
\* ++busy, and the C frame that will be resumed after the block.
Push(t, f) ==
    /\ depth[t] < MaxDepth
    /\ Cardinality(Occupied) < MaxWalks
    /\ Outstanding(f.str) < MaxOutstanding
    /\ depth' = [depth EXCEPT ![t] = @ + 1]
    /\ frame' = [frame EXCEPT ![<<t, depth[t] + 1>>] = f]
    /\ busy' = [busy EXCEPT ![f.str] = Inc(@)]
    /\ UNCHANGED abandoned

\* ++busy, and a raise before the first rb_yield: nothing will undo it.
RaiseBusy(s) ==
    /\ Outstanding(s) < MaxOutstanding
    /\ busy' = [busy EXCEPT ![s] = Inc(@)]
    /\ abandoned' = [abandoned EXCEPT ![s] = @ + 1]
    /\ UNCHANGED <<depth, frame>>

\* Mutant: the frame is cleared and the thread still counts it.
Pop_KeepsDepth(t) ==
    /\ frame' = [frame EXCEPT ![Top(t)] = NoFrame]
    /\ UNCHANGED depth

\* The C frame is left; the caller says what becomes of busy.
Pop(t) ==
    /\ depth' = [depth EXCEPT ![t] = @ - 1]
    /\ frame' = [frame EXCEPT ![Top(t)] = NoFrame]

\* Mutant: a return in front of --busy.
Release_NoDecrement(t) ==
    /\ Pop(t)
    /\ UNCHANGED <<busy, abandoned>>

\* --busy on the way out of a completed walk.
Release(t) ==
    /\ Pop(t)
    /\ busy' = [busy EXCEPT ![frame[Top(t)].str] = Dec(@)]
    /\ UNCHANGED abandoned

\* The innermost iterator of t is one of these kinds.
Inside(t, kinds) == depth[t] > 0 /\ frame[Top(t)].kind \in kinds

\* The block has returned to the iterator, which hands out the next element.
Yield(t, f) ==
    /\ frame' = [frame EXCEPT ![Top(t)] = f]
    /\ UNCHANGED <<busy, depth, abandoned>>

-----------------------------------------------------------------------------
\* each_char, each_word, each_line_break, each_sentence.  An empty string has
\* no boundary to stop at, and is never handed to the block.
EachBegin(t, s) ==
    /\ Len(buffer[s].text) > 0
    /\ Push(t, [kind |-> "each", str |-> s, seen |-> buffer[s], n |-> 1,
                pat |-> NoPattern])
    /\ UNCHANGED <<frozen, buffer, matcher, target>>

\* The break iterator finds another boundary in the text it was opened on.
EachNext(t) ==
    LET f == frame[Top(t)] IN
    /\ Inside(t, {"each"})
    /\ f.n < Len(f.seen.text)
    /\ Yield(t, [f EXCEPT !.n = @ + 1])
    /\ UNCHANGED <<frozen, buffer, matcher, target>>

EachEnd(t) ==
    /\ Inside(t, {"each"})
    /\ Release(t)
    /\ UNCHANGED <<frozen, buffer, matcher, target>>

-----------------------------------------------------------------------------
\* icu_reg_search: give the handle the string's text and look for a match;
\* pos 0 stands for no match.
Search(h, s, pos) == target' = [target EXCEPT ![h] = [buf |-> buffer[s], pos |-> pos]]

\* get_pat: a URegexp is used as it is, a UString is compiled to a URegexp
\* nobody else has.
SearchWith(pat, s, pos) ==
    IF pat = NoPattern THEN UNCHANGED target ELSE Search(matcher[pat], s, pos)

ScanBegin(t, s, pat) ==
    /\ Usable(pat)
    /\ Push(t, [kind |-> "scan", str |-> s, seen |-> buffer[s], n |-> 1, pat |-> pat])
    /\ SearchWith(pat, s, 1)
    /\ UNCHANGED <<frozen, buffer, matcher>>

\* The first search comes after ++busy.
ScanBeginRaises(s, pat) ==
    /\ ~Usable(pat)
    /\ RaiseBusy(s)
    /\ UNCHANGED <<frozen, buffer, matcher, target>>

\* ustr_scan_once searches the string's present buffer from its own offset,
\* with whatever handle the URegexp owns by now.  If it has none by now, the
\* search raises out of the walk: Abandon.
ScanNext(t) ==
    LET f == frame[Top(t)] IN
    /\ Inside(t, {"scan"})
    /\ Usable(f.pat)
    /\ f.n <= Len(buffer[f.str].text)
    /\ Yield(t, [f EXCEPT !.n = @ + 1])
    /\ SearchWith(f.pat, f.str, f.n + 1)
    /\ UNCHANGED <<frozen, buffer, matcher>>

ScanEnd(t) ==
    LET f == frame[Top(t)] IN
    /\ Inside(t, {"scan"})
    /\ Usable(f.pat)
    /\ Release(t)
    /\ SearchWith(f.pat, f.str, 0)
    /\ UNCHANGED <<frozen, buffer, matcher>>

-----------------------------------------------------------------------------
\* ustr_splice_units and icu_ustr_resize put units in the same block, or in one
\* realloc has moved.
Store(s, x) ==
    \E p \in FreePtrs \cup {buffer[s].ptr} :
        buffer' = [buffer EXCEPT ![s] = [ptr |-> p, text |-> x]]

\* icu_reg_clone: the handle the walk goes on with ...
TakenOver(pat, h) == IF pat = NoPattern THEN h ELSE matcher[pat]

\* Mutant: gsub and the URegexp share the handle.
LeftBehind_NoClone(pat, h) == matcher

\* ... and what the URegexp argument owns from now on.
LeftBehind(pat, h) ==
    IF pat = NoPattern THEN matcher ELSE [matcher EXCEPT ![pat] = h]

\* Sub and gsub with a block, up to the first rb_yield.  Only gsub! looks at
\* frozen and busy before it starts.
GsubBegin(t, s, kind, pat) ==
    /\ kind = "gsub!" => MayModify(s)
    /\ Usable(pat)
    /\ FreeHandles # {}
    /\ Push(t, [kind |-> kind, str |-> s, seen |-> buffer[s], n |-> 1,
                pat |-> TakenOver(pat, NewHandle)])
    /\ matcher' = LeftBehind(pat, NewHandle)
    /\ target' = [target EXCEPT
                    ![NewHandle] = NoText,
                    ![TakenOver(pat, NewHandle)] = [buf |-> buffer[s], pos |-> 1]]
    /\ UNCHANGED <<frozen, buffer>>

\* There is a match, and uregex_clone fails after ++busy: icu_reg_clone raises
\* before it has moved a handle.  So too with a replacement string.
GsubBeginRaises(s, kind, pat) ==
    /\ kind = "gsub!" => MayModify(s)
    /\ Usable(pat)
    /\ RaiseBusy(s)
    /\ SearchWith(pat, s, 1)
    /\ UNCHANGED <<frozen, buffer, matcher>>

\* ustr_mod_check compares the pointer and the length, not the units.
ModCheck(f) ==
    /\ buffer[f.str].ptr = f.seen.ptr
    /\ Len(buffer[f.str].text) = Len(f.seen.text)

\* A walk that ends drops its handle, if it had one.
DropHandle(f) ==
    target' = IF IsGsub(f) THEN [target EXCEPT ![f.pat] = NoText] ELSE target

\* The block returned, uregex_findNext finds another match in the text the
\* handle was given, and the block gets it.  sub! stops after one.
GsubNext(t) ==
    LET f == frame[Top(t)] IN
    /\ Inside(t, {"gsub", "gsub!"})
    /\ ModCheck(f)
    /\ f.n <= Len(target[f.pat].buf.text)
    /\ Yield(t, [f EXCEPT !.n = @ + 1, !.seen = buffer[f.str]])
    /\ target' = [target EXCEPT ![f.pat] = [buf |-> @.buf, pos |-> @.pos + 1]]
    /\ UNCHANGED <<frozen, buffer, matcher>>

\* The block returned and ustr_mod_check raises.
GsubModified(t) ==
    LET f == frame[Top(t)] IN
    /\ Inside(t, {"gsub"} \cup InPlace)
    /\ ~ModCheck(f)
    /\ Pop(t)
    /\ abandoned' = [abandoned EXCEPT ![f.str] = @ + 1]
    /\ DropHandle(f)
    /\ UNCHANGED <<busy, frozen, buffer, matcher>>

\* Mutants: the check before the final replace looks at one of the two only.
MayReplace_FrozenOnly(s) == ~frozen[s]

MayReplace_BusyOnly(s) == Dec(busy[s]) = 0

\* What icu_ustr_replace finds after --busy.
MayReplace(s) == ~frozen[s] /\ Dec(busy[s]) = 0

\* No further match.  The in-place forms store the result, unless the string
\* has been frozen or is being walked by someone else by now: then they raise
\* after --busy.
GsubFinish(t) ==
    LET f == frame[Top(t)] IN
    /\ Inside(t, {"gsub"} \cup InPlace)
    /\ ModCheck(f)
    /\ Release(t)
    /\ DropHandle(f)
    /\ IF f.kind \in InPlace /\ MayReplace(f.str)
         THEN \E x \in Texts : Store(f.str, x)
         ELSE UNCHANGED buffer
    /\ UNCHANGED <<frozen, matcher>>

\* Sub and gsub with a replacement string: no block, so one step.  The
\* URegexp is left with a clone that has no text.
GsubString(s, kind, pat) ==
    /\ kind = "gsub!" => MayModify(s)
    /\ Usable(pat)
    /\ FreeHandles # {}
    /\ matcher' = [matcher EXCEPT ![pat] = NewHandle]
    /\ target' = Without({NewHandle, matcher[pat]})
    /\ IF kind \in InPlace /\ MayModify(s)
         THEN \E x \in Texts : Store(s, x)
         ELSE UNCHANGED buffer
    /\ UNCHANGED <<busy, frozen, depth, frame, abandoned>>

-----------------------------------------------------------------------------
\* An exception (re-raised by my_ubrk_close or not), a break or a throw, or a
\* raise of the iterator itself once the block has returned, leaves
\* the innermost block of t, and the iterator with it: --busy is skipped.
Abandon(t) ==
    LET f == frame[Top(t)] IN
    /\ Inside(t, Kinds)
    /\ Pop(t)
    /\ abandoned' = [abandoned EXCEPT ![f.str] = @ + 1]
    /\ DropHandle(f)
    /\ UNCHANGED <<busy, frozen, buffer, matcher>>

Freeze(s) ==
    /\ ~frozen[s]
    /\ frozen' = [frozen EXCEPT ![s] = TRUE]
    /\ UNCHANGED <<busy, buffer, matcher, target, depth, frame, abandoned>>

Unmoved == <<busy, frozen, matcher, target, depth, frame, abandoned>>

\* replace, clear, <<, insert, []=, slice!.
ModifyUnits(s) ==
    /\ MayModify(s)
    /\ \E x \in Texts : Store(s, x)
    /\ UNCHANGED Unmoved

\* lstrip!, rstrip!, strip!: the block stays and the length shrinks.
Strip(s) ==
    /\ MayModify(s)
    /\ \E x \in Texts :
        /\ Len(x) < Len(buffer[s].text)
        /\ buffer' = [buffer EXCEPT ![s].text = x]
    /\ UNCHANGED Unmoved

\* upcase!, downcase!: the result is built in a new block while the old one
\* is still allocated.
ChangeCase(s) ==
    /\ MayModify(s)
    /\ \E x \in Texts, p \in FreePtrs :
        buffer' = [buffer EXCEPT ![s] = [ptr |-> p, text |-> x]]
    /\ UNCHANGED Unmoved

\* match, =~, ===, split, index, [] with a URegexp.
UseRegexp(re, s, pos) ==
    /\ Usable(re)
    /\ Search(matcher[re], s, pos)
    /\ UNCHANGED <<busy, frozen, buffer, matcher, depth, frame, abandoned>>

\* URegexp#initialize on an object that already has a pattern closes it.
Reinitialize(re) ==
    /\ FreeHandles # {}
    /\ matcher' = [matcher EXCEPT ![re] = NewHandle]
    /\ target' = Without({NewHandle, matcher[re]})
    /\ UNCHANGED <<busy, frozen, buffer, depth, frame, abandoned>>

\* uregex_open rejects the pattern: the old handle is closed and NULL stored
\* before icu_reg_initialize raises.
ReinitializeFails(re) ==
    /\ matcher' = [matcher EXCEPT ![re] = NoHandle]
    /\ target' = Without({matcher[re]})
    /\ UNCHANGED <<busy, frozen, buffer, depth, frame, abandoned>>

-----------------------------------------------------------------------------
\* The innermost block of t returns to its iterator.
Resume(t) ==
    \/ EachNext(t) \/ EachEnd(t)
    \/ ScanNext(t) \/ ScanEnd(t)
    \/ GsubNext(t) \/ GsubModified(t) \/ GsubFinish(t)

Next ==
    \/ \E t \in Threads, s \in Strings : EachBegin(t, s)
    \/ \E t \in Threads, s \in Strings, pat \in Regexps \cup {NoPattern} :
        \/ ScanBegin(t, s, pat)
        \/ \E kind \in {"gsub"} \cup InPlace : GsubBegin(t, s, kind, pat)
    \/ \E s \in Strings, pat \in Regexps \cup {NoPattern} :
        \/ ScanBeginRaises(s, pat)
        \/ \E kind \in {"gsub"} \cup InPlace : GsubBeginRaises(s, kind, pat)
    \/ \E t \in Threads : Resume(t) \/ Abandon(t)
    \/ \E s \in Strings : Freeze(s) \/ ModifyUnits(s) \/ Strip(s) \/ ChangeCase(s)
    \/ \E re \in Regexps, s \in Strings :
        \/ \E pos \in {0, 1} : UseRegexp(re, s, pos)
        \/ \E kind \in {"gsub"} \cup InPlace : GsubString(s, kind, re)
    \/ \E re \in Regexps : Reinitialize(re) \/ ReinitializeFails(re)

Spec == Init /\ [][Next]_vars

-----------------------------------------------------------------------------
\* Types of the variables; a slot is occupied exactly up to its thread's depth.
TypeOK ==
    /\ busy \in [Strings -> 0 .. BusyMod - 1]
    /\ frozen \in [Strings -> BOOLEAN]
    /\ buffer \in [Strings -> Buffers]
    /\ matcher \in [Regexps -> Handles \cup {NoHandle}]
    /\ target \in [Handles -> Targets]
    /\ depth \in [Threads -> 0 .. MaxDepth]
    /\ frame \in [Slots -> Frames \cup {NoFrame}]
    /\ Occupied = {p \in Slots : p[2] <= depth[p[1]]}
    /\ \A p \in Occupied :
        IF IsGsub(frame[p]) THEN frame[p].pat \in Handles
                            ELSE frame[p].pat \in Regexps \cup {NoPattern}
    /\ abandoned \in [Strings -> Nat]

\* busy counts the walks that are under way and those that were left through
\* the block, as long as no more than BusyMod - 1 are outstanding: no path
\* through an iterator, a failing final replace included, decrements twice or
\* for a walk of another string.
BusyCounts == \A s \in Strings : busy[s] = Outstanding(s)

\* Without that bound busy is right only modulo the width of its counter: also
\* when it has come round, and a store has gone through under a walk, no walk
\* leaves more or fewer increments behind than one if it was abandoned and none
\* if it was not, a gsub that ustr_mod_check stops included.
BusyCountsModulo == \A s \in Strings : busy[s] = Outstanding(s) % BusyMod

\* The buffer a walk was started on is still the string's buffer, in place and
\* unchanged, whatever blocks and other threads did since: the break iterator,
\* the matcher and ICU_PTR(str) + start all read live memory.
IterationStable ==
    \A p \in Occupied : frame[p].seen = buffer[frame[p].str]

\* Every matcher handle has one owner, a URegexp or a gsub under way.
HandlesHaveOneOwner ==
    /\ \A q, r \in Regexps : q # r /\ matcher[q] = matcher[r] => matcher[q] = NoHandle
    /\ \A p \in GsubSlots, r \in Regexps : matcher[r] # frame[p].pat
    /\ \A p, q \in GsubSlots : q # p => frame[q].pat # frame[p].pat

\* A gsub goes on from its own last match: nested use of the same URegexp, by
\* match, scan, split, another gsub or initialize, never moves its handle to
\* another text or position and never closes it.
GsubKeepsItsMatch ==
    /\ HandlesHaveOneOwner
    /\ \A p \in GsubSlots :
         target[frame[p].pat] = [buf |-> frame[p].seen, pos |-> frame[p].n]

\* A frozen string keeps its units and its block: also when it was frozen from
\* the block of a gsub! or sub! that is about to store its result.
FrozenKeepsItsText ==
    [][\A s \in Strings : frozen[s] => buffer'[s] = buffer[s]]_vars

\* What the message of icu_check_frozen says of a string it refuses to change:
\* it is busy, that is, some iterator is walking it.  So once the last walk over
\* a string is left, however that comes about, the string can be changed again.
BusyEndsWithTheWalk ==
    [][\A s \in Strings : Active(s) # {} /\ Active(s)' = {} => busy'[s] = 0]_vars
=============================================================================
