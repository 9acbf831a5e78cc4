---------------------------- MODULE ResultBuffers ----------------------------
(***************************************************************************)
(* How icu4r gets a text of unknown length out of ICU.  Each method makes  *)
(* a block of a size it guesses, tells ICU a capacity, and if the result   *)
(* does not fit makes the block larger and asks again; then it hands the   *)
(* block to a new UString, or copies it and frees it.  A converter or a    *)
(* formatter may be open meanwhile.  The methods do this each in its own   *)
(* way, and an exception may leave each of them half way.                  *)
(*                                                                         *)
(* A protocol says of one call what it makes, tells, looks at and frees; n *)
(* is the length of what is converted, need the length of the result.      *)
(* What ICU computes is left out: lengths are all that counts here.        *)
(***************************************************************************)
EXTENDS Integers

CONSTANTS
    Lengths,    \* lengths of texts, arrays and byte strings that are converted
    MaxNeed,    \* bound: length of a result
    Slack       \* what normalize adds to the length for its guess: 20

ASSUME SizesAssumption == Lengths \subseteq Nat /\ MaxNeed \in Nat /\ Slack \in Nat \ {0}

VARIABLES
    call,       \* the method called last, and the two lengths
    pc,         \* how far it is
    tries,      \* attempts ICU has made in this call
    block,      \* units in the block; 0 if there is none
    extent,     \* history: units of the block that the last attempt has stored
    report,     \* the length ICU returned last
    status,     \* and its status
    held,       \* what the call has allocated or opened and not let go of
    outcome,    \* how the call ended
    result      \* the UString that owns the block: its length and capacity

vars == <<call, pc, tries, block, extent, report, status, held, outcome, result>>

-----------------------------------------------------------------------------
\* Protocols.  The two members of a pair are for the first and for a later
\* attempt.
\*   early, refusing     what is held when an argument may be refused, and what
\*                       of it is freed then
\*   before, opens       what is held when a converter or a formatter is opened
\*   unopened            what is freed if that fails
\*   asks                what is held when ICU is asked first
\*   blocks, told        units in the block, and the capacity ICU is told
\*   looks, failing      a failure is noticed, and what is freed then
\*   claims              the capacity icu_ustr_new_set is told; 0 stands for one
\*                       more than the length ICU has returned
\*   by, ending          how the result is made, and what is freed when it is
Copies == [early |-> {}, refusing |-> {}, before |-> {"buf"}, opens |-> {},
           unopened |-> {}, asks |-> {"buf"}, blocks |-> <<0, 0>>, told |-> <<0, 0>>,
           looks |-> <<TRUE, TRUE>>, failing |-> {"buf"}, claims |-> <<0, 0>>,
           by |-> "copy", ending |-> {"buf"}]

Adopts == [Copies EXCEPT !.by = "adopt", !.ending = {}]

\* Mutant: Array#to_u wraps a block that the result has filled.
ArrayToU_NotToppedUp(n, need) ==
    [Adopts EXCEPT !.early = {"src"}, !.refusing = {"src"}, !.before = {"src", "buf"},
        !.blocks = <<n + 1, need + 1>>, !.told = <<n + 1, need + 1>>,
        !.claims = <<n + 1, need + 1>>, !.failing = {"src", "buf"}, !.ending = {"src"}]

\* Array#to_u: the block is made a unit longer if the result has filled it.
ArrayToU(n, need) ==
    [Adopts EXCEPT !.early = {"src"}, !.refusing = {"src"}, !.before = {"src", "buf"},
        !.blocks = <<n + 1, need + 1>>, !.told = <<n + 1, need + 1>>,
        !.claims = <<IF need < n + 1 THEN n + 1 ELSE n + 2, need + 1>>,
        !.failing = {"src", "buf"}, !.ending = {"src"}]

\* Mutant: a unit less, to have one for the sentinel, that the block has already.
Utf8ToU_OneLess(n, need) ==
    [Adopts EXCEPT !.blocks = <<n + 1, n + 1>>, !.told = <<n - 1, n - 1>>,
        !.claims = <<n + 1, n + 1>>]

\* String#to_u, from UTF-8.
Utf8ToU(n, need) ==
    [Adopts EXCEPT !.blocks = <<n + 1, n + 1>>, !.told = <<n, n>>,
        !.claims = <<n + 1, n + 1>>]

\* String#to_u(encoding).
EncodedToU(n, need) ==
    [Adopts EXCEPT !.opens = {"converter"},
        !.blocks = <<n + 1, need + 1>>, !.told = <<n, need>>, !.looks = <<FALSE, TRUE>>,
        !.claims = <<n + 1, need + 1>>, !.ending = {"converter"}]

\* UString#to_s, to UTF-8.
ToUtf8(n, need) ==
    [Copies EXCEPT !.blocks = <<n + 1, need + 1>>, !.told = <<n + 1, need>>]

\* UString#to_s(encoding).
ToEncoded(n, need) ==
    [Copies EXCEPT !.opens = {"converter"}, !.unopened = {"buf"},
        !.blocks = <<n + 1, need + 1>>, !.told = <<n + 1, need>>,
        !.ending = {"converter", "buf"}]

\* UConverter#from_u.
FromU(n, need) ==
    [Copies EXCEPT !.blocks = <<n + 1, need + 1>>, !.told = <<n, need>>, !.ending = {}]

\* Mutant: the block is made as long as the result, and claimed to be longer.
ConverterToU_NoSentinel(n, need) ==
    [Adopts EXCEPT !.blocks = <<n + 1, need>>, !.told = <<n, need>>,
        !.looks = <<FALSE, TRUE>>, !.claims = <<n + 1, need + 1>>]

\* UConverter#to_u.
ConverterToU(n, need) ==
    [Adopts EXCEPT !.blocks = <<n + 1, need + 1>>, !.told = <<n, need>>,
        !.looks = <<FALSE, TRUE>>, !.claims = <<n + 1, need + 1>>]

\* UConverter.convert asks for the length first.
Convert(n, need) ==
    [Copies EXCEPT !.before = {}, !.asks = {},
        !.blocks = <<0, need + 1>>, !.told = <<0, need + 1>>]

\* Mutant: the block is made longer, but ICU is told the same capacity.
Normalize_SameCapa(n, need) ==
    [Adopts EXCEPT !.blocks = <<n + Slack, need + 1>>, !.told = <<n + Slack, n + Slack>>,
        !.failing = {}, !.claims = <<n + Slack, n + Slack>>]

\* UString#normalize and its kin go on until the result fits.
Normalize(n, need) ==
    [Adopts EXCEPT !.blocks = <<n + Slack, need + 1>>, !.told = <<n + Slack, need + 1>>,
        !.failing = {}, !.claims = <<n + Slack, need + 1>>]

\* Mutant: likewise, and nobody looks at the status.
Foldcase_SameCapa(n, need) ==
    [Adopts EXCEPT !.blocks = <<n + 1, need + 1>>, !.told = <<n, n>>,
        !.looks = <<FALSE, FALSE>>, !.claims = <<n + 1, need + 1>>]

Foldcase(n, need) ==
    [Adopts EXCEPT !.blocks = <<n + 1, need + 1>>, !.told = <<n, need + 1>>,
        !.looks = <<FALSE, FALSE>>, !.claims = <<n + 1, need + 1>>]

\* upcase!, downcase!: the block takes the place of the string's, if it differs.
ChangeCase(n, need) ==
    [Adopts EXCEPT !.early = {"buf"}, !.blocks = <<n + 1, need + 1>>,
        !.told = <<n, need>>, !.looks = <<FALSE, FALSE>>, !.by = "swap"]

\* UCalendar.default_tz and UCalendar#time_zone ask for the length first.
ZoneName(n, need) ==
    [Adopts EXCEPT !.before = {}, !.asks = {}, !.blocks = <<0, need + 1>>,
        !.told = <<0, need>>, !.looks = <<TRUE, FALSE>>]

\* UCalendar#format: a UString made of a failed attempt is left to the collector.
FormatDate(n, need) ==
    [Adopts EXCEPT !.before = {}, !.opens = {"format"}, !.asks = {},
        !.blocks = <<0, need + 1>>, !.told = <<0, need>>,
        !.failing = {"format", "buf"}, !.ending = {"format"}]

\* Mutant: the block is not made longer for the second attempt.
SortKey_SameBlock(n, need) ==
    [Copies EXCEPT !.blocks = <<n, n>>, !.told = <<n, need>>, !.looks = <<FALSE, FALSE>>]

\* UCollator#sort_key.
SortKey(n, need) ==
    [Copies EXCEPT !.blocks = <<n, need>>, !.told = <<n, need>>, !.looks = <<FALSE, FALSE>>]

\* Mutant: the table of pieces is forgotten if the pattern fails.
Split_KeepsFields(n, need) ==
    [Copies EXCEPT !.before = {"fields", "buf"}, !.blocks = <<2 * n + 2, need>>,
        !.told = <<2 * n, need>>, !.ending = {"fields", "buf"}]

\* URegexp#split: all pieces are put into one block.
Split(n, need) ==
    [Copies EXCEPT !.before = {"fields", "buf"}, !.blocks = <<2 * n + 2, need>>,
        !.told = <<2 * n, need>>, !.failing = {"fields", "buf"},
        !.ending = {"fields", "buf"}]

\* UString#format: the length is known when the block is made.
FormatMessage(n, need) ==
    [Copies EXCEPT !.early = {"arguments"}, !.refusing = {"arguments"},
        !.before = {"arguments"}, !.blocks = <<need + 1, need + 1>>,
        !.told = <<need, need>>, !.failing = {"arguments", "buf"},
        !.ending = {"arguments", "buf"}]

\* UString#translit: here too.
Transliterate(n, need) ==
    [Adopts EXCEPT !.before = {}, !.opens = {"transliterator"},
        !.blocks = <<need + 1, need + 1>>, !.told = <<need, need>>,
        !.looks = <<FALSE, FALSE>>, !.claims = <<need + 1, need + 1>>,
        !.ending = {"transliterator"}]

Methods == {"Array#to_u", "String#to_u", "String#to_u(enc)", "to_s", "to_s(enc)",
            "from_u", "to_u", "convert", "normalize", "foldcase", "upcase!",
            "time_zone", "format_date", "sort_key", "split", "format", "translit"}

Protocol(m, n, need) ==
    CASE m = "Array#to_u" -> ArrayToU(n, need)
      [] m = "String#to_u" -> Utf8ToU(n, need)
      [] m = "String#to_u(enc)" -> EncodedToU(n, need)
      [] m = "to_s" -> ToUtf8(n, need)
      [] m = "to_s(enc)" -> ToEncoded(n, need)
      [] m = "from_u" -> FromU(n, need)
      [] m = "to_u" -> ConverterToU(n, need)
      [] m = "convert" -> Convert(n, need)
      [] m = "normalize" -> Normalize(n, need)
      [] m = "foldcase" -> Foldcase(n, need)
      [] m = "upcase!" -> ChangeCase(n, need)
      [] m = "time_zone" -> ZoneName(n, need)
      [] m = "format_date" -> FormatDate(n, need)
      [] m = "sort_key" -> SortKey(n, need)
      [] m = "split" -> Split(n, need)
      [] m = "format" -> FormatMessage(n, need)
      [] m = "translit" -> Transliterate(n, need)

\* How long the results may be: a code point has one or two units, one of two
\* units has four bytes in UTF-8, any other one to three; a sort key ends with a
\* zero byte.
Needs(m, n) ==
    {k \in 0 .. MaxNeed :
        CASE m = "Array#to_u" -> n <= k /\ k <= 2 * n
          [] m = "String#to_u" -> k <= n
          [] m = "to_s" -> n <= k /\ k <= 3 * n
          [] m = "sort_key" -> k >= 1
          [] OTHER -> TRUE}

-----------------------------------------------------------------------------
NoCall == [method |-> "none", len |-> 0, need |-> 0]

NoResult == [len |-> 0, capa |-> 0]

P == Protocol(call.method, call.len, call.need)

\* The attempt that is made, or was made last.
Later == IF tries = 0 THEN 1 ELSE 2

Last == IF tries = 1 THEN 1 ELSE 2

Init ==
    /\ call = NoCall /\ pc = "ended" /\ outcome = "none"
    /\ tries = 0 /\ block = 0 /\ extent = 0 /\ report = 0 /\ status = "ok"
    /\ held = {} /\ result = NoResult

Ends(how) == pc' = "ended" /\ outcome' = how

Goes(where) == pc' = where /\ UNCHANGED <<outcome, result>>

Attempt == <<tries, block, extent, report, status>>

\* What an earlier call has lost stays lost: held is of this call only.
Begin(m, n, need) ==
    LET early == Protocol(m, n, need).early IN
    /\ pc = "ended"
    /\ call' = [method |-> m, len |-> n, need |-> need]
    /\ pc' = "arguments" /\ outcome' = "none" /\ result' = NoResult
    /\ held' = early
    /\ tries' = 0 /\ block' = 0 /\ extent' = 0 /\ report' = 0 /\ status' = "ok"

\* An argument is refused when something has been allocated already.
Refuse ==
    /\ pc = "arguments"
    /\ P.early # {}
    /\ held' = held \ P.refusing
    /\ Ends("wrong_type")
    /\ UNCHANGED <<call, Attempt, result>>

\* format calls to_f of its arguments, which may raise.
ArgumentRaises ==
    /\ pc = "arguments"
    /\ call.method = "format"
    /\ Ends("argument_raised")
    /\ UNCHANGED <<call, Attempt, held, result>>

Accept ==
    /\ pc = "arguments"
    /\ held' = P.before
    /\ Goes("opening")
    /\ UNCHANGED <<call, Attempt>>

Open ==
    /\ pc = "opening"
    /\ held' = held \cup P.opens
    /\ Goes("asking")
    /\ UNCHANGED <<call, Attempt>>

\* Nothing is opened, and there is nothing to close.
OpenFails ==
    /\ pc = "opening"
    /\ P.opens # {}
    /\ held' = held \ P.unopened
    /\ Ends("not_opened")
    /\ UNCHANGED <<call, Attempt, result>>

\* An attempt: the block is made, or made longer, and ICU is told a capacity.
Asks ==
    /\ pc = "asking"
    /\ tries' = Later
    /\ block' = P.blocks[Later]
    /\ held' = held \cup (IF tries = 0 THEN P.asks ELSE {"buf"})
    /\ UNCHANGED call

\* ICU stores what there is room for, and a zero behind it if there is room for
\* that.  normalize asks until the result fits, the others twice.
Ask ==
    LET told == P.told[Later]
        need == call.need
    IN
    /\ Asks
    /\ status' = IF need > told THEN "overflow" ELSE "ok"
    /\ report' = need
    /\ extent' = IF need < told THEN need + 1 ELSE told
    /\ Goes(IF need > told /\ (tries = 0 \/ call.method = "normalize")
            THEN "asking" ELSE "asked")

\* ICU stops half way: a source it cannot convert, or memory it cannot get.
AskFails ==
    /\ Asks
    /\ status' = "error"
    /\ report' \in {k \in 0 .. call.need : k <= P.told[Later]}
    /\ extent' = report'
    /\ Goes("asked")

Noticed == status # "ok" /\ P.looks[Last]

Raise ==
    /\ pc = "asked"
    /\ Noticed
    /\ held' = held \ P.failing
    /\ Ends("icu_error")
    /\ UNCHANGED <<call, Attempt, result>>

\* The first question for a length is answered with 0.
Nothing == tries = 1 /\ P.asks = {}

ReturnNothing ==
    /\ pc = "asked"
    /\ ~Noticed
    /\ Nothing
    /\ held' = held \ P.ending
    /\ Ends(IF P.by = "adopt" THEN "nil" ELSE "text")
    /\ UNCHANGED <<call, Attempt, result>>

\* rb_str_new or icu_ustr_new.
ReturnCopy ==
    /\ pc = "asked"
    /\ ~Noticed
    /\ ~Nothing /\ P.by = "copy"
    /\ held' = held \ P.ending
    /\ result' = [len |-> report, capa |-> report + 1]
    /\ Ends("text")
    /\ UNCHANGED <<call, Attempt>>

\* icu_ustr_new_set, with what Array#to_u does to a block that is full.
Topped == IF call.method = "Array#to_u" /\ block <= report THEN block + 1 ELSE block

ReturnAdopted ==
    LET claim == IF P.claims[Last] = 0 THEN report + 1 ELSE P.claims[Last] IN
    /\ pc = "asked"
    /\ ~Noticed
    /\ ~Nothing /\ P.by = "adopt"
    /\ block' = Topped
    /\ IF claim <= report
       THEN Ends("no_room") /\ UNCHANGED <<held, result>>
       ELSE /\ Ends("text")
            /\ held' = held \ (P.ending \cup {"buf"})
            /\ result' = [len |-> report, capa |-> claim]
    /\ UNCHANGED <<call, tries, extent, report, status>>

\* upcase!, downcase!: the string keeps the capacity it had.
ReturnSwapped ==
    /\ pc = "asked"
    /\ ~Noticed
    /\ P.by = "swap"
    /\ \/ Ends("nil") /\ UNCHANGED <<held, result>>
       \/ /\ Ends("text")
          /\ held' = held \ {"buf"}
          /\ result' = [len |-> report, capa |-> 0]
    /\ UNCHANGED <<call, Attempt>>

Proceed ==
    \/ Accept \/ Open \/ Ask \/ Raise \/ ReturnNothing \/ ReturnCopy \/ ReturnAdopted
    \/ ReturnSwapped

Fail == Refuse \/ ArgumentRaises \/ OpenFails \/ AskFails

Next ==
    \/ \E m \in Methods, n \in Lengths : \E need \in Needs(m, n) : Begin(m, n, need)
    \/ Proceed
    \/ Fail

\* A C function that has begun runs on, and need not fail to get on.
Spec == Init /\ [][Next]_vars /\ WF_vars(Proceed)

-----------------------------------------------------------------------------
\* Types of the variables.
TypeOK ==
    /\ call \in {NoCall} \cup [method : Methods, len : Lengths, need : 0 .. MaxNeed]
    /\ pc \in {"arguments", "opening", "asking", "asked", "ended"}
    /\ pc # "ended" => call.method \in Methods
    /\ tries \in 0 .. 2
    /\ {block, extent, report} \subseteq Nat
    /\ status \in {"ok", "overflow", "error"}
    /\ outcome \in {"none", "wrong_type", "argument_raised", "not_opened", "icu_error",
                    "no_room", "nil", "text"}
    /\ result \in [len : Nat, capa : Nat]

\* ICU is never told of more room than the block has, in no attempt: it stores
\* inside the block, its zero included.
StoresInBlock == extent <= block

\* A text that is returned is all of the result, whichever attempt got it, and in
\* no case has it a unit that ICU has not stored.
ReturnsWhole ==
    outcome = "text" =>
        /\ result.len <= extent
        /\ status # "error" => result.len = call.need

\* The UString that takes over the block knows the block's size, and has room for
\* the sentinel: the capacity is the one the block has been given last.
CapacityIsTrue ==
    outcome = "text" /\ P.by = "adopt" /\ ~Nothing =>
        /\ result.len < result.capa /\ result.capa <= block
        /\ status # "error" => result.capa = block

\* "Capacity is not large then len" is what one method says of one length: the
\* guess of normalize, met exactly.
RefusesExactGuess ==
    pc = "ended" /\ outcome # "none" =>
        (outcome = "no_room" <=>
            call.method = "normalize" /\ status = "ok" /\ call.need = call.len + Slack)

\* What a call leaves behind, for whom and how it ends.
Losses == {
    <<"String#to_u(enc)", "not_opened", "buf">>, <<"String#to_u(enc)", "icu_error", "converter">>,
    <<"to_s(enc)", "icu_error", "converter">>, <<"from_u", "text", "buf">>,
    <<"normalize", "icu_error", "buf">>, <<"normalize", "no_room", "buf">>,
    <<"upcase!", "wrong_type", "buf">>, <<"upcase!", "nil", "buf">>,
    <<"format", "argument_raised", "arguments">>}

\* No other way through a call leaves a block, a converter or a formatter behind.
LosesNothingElse ==
    pc = "ended" => \A x \in held : <<call.method, outcome, x>> \in Losses

\* Every call ends: asking again gets nearer to the result.
EveryCallEnds == (pc # "ended") ~> (pc = "ended")
=============================================================================
