-------------------------- MODULE IcuObjectsProofs --------------------------
(***************************************************************************)
(* Proofs about IcuObjects, for any objects, handles, texts, buffer sizes  *)
(* and resources.  The type invariant, HeldIsOpen, HeldOnce and            *)
(* NilsFollowAFailure are inductive together, once it is added that an     *)
(* array with a failed element waits for no other: a handle that is opened *)
(* is new because everything held is open, and what is closed is closed    *)
(* for all because it is held once.  ConvertsWhole needs what holds in the *)
(* middle of a conversion (WholeInv): up to the character it has come to,  *)
(* the bytes are in the string, the buffer or the converter.               *)
(***************************************************************************)
EXTENDS IcuObjects, SequenceFacts, TLAPS

\* A resource whose element is being read.
Waits(r) == ~r.failed /\ Len(r.got) < r.size

OuterWait == \A i \in 1 .. Depth - 1 : Waits(stack[i])

IInv == TypeOK /\ HeldIsOpen /\ HeldOnce /\ NilsFollowAFailure /\ OuterWait

\* The part that is about objects and handles only.
Objective ==
    /\ class \in [Objects -> Classes \cup {"none"}]
    /\ ptr \in [Objects -> Handles \cup {NoHandle}]
    /\ \A o \in Objects : Unborn(o) => ptr[o] = NoHandle
    /\ open \subseteq Handles
    /\ users \subseteq Objects

\* What is opened is new.
LEMMA NewIsNew ==
    ASSUME ~Exhausted
    PROVE  NewHandle \in Handles /\ NewHandle \notin open /\ NewHandle # NoHandle
BY HandlesAssumption DEF Exhausted, NewHandle

\* When no resource is being read, no handle is in use.
LEMMA NothingInUse == ASSUME stack = <<>> PROVE InUse = {}
BY DEF InUse

\* The initial values of a converter's state and of a conversion.
LEMMA FreshTypes ==
    /\ Fresh \in Streams /\ NoConversion \in Conversions
    /\ Len(NoConversion.chunk) <= BufSize
<1>1. \A S : <<>> \in Seq(S)
    OBVIOUS
<1>2. <<"?">> \in Seq(Bytes)
    BY DEF Bytes
<1>3. Fresh \in Streams
    BY <1>1, <1>2 DEF Fresh, Streams
<1>4. NoConversion \in Conversions
    BY <1>1 DEF NoConversion, Conversions
<1>5. Len(NoConversion.chunk) = 0
    BY DEF NoConversion
<1>6. QED
    BY <1>3, <1>4, <1>5, ConversionAssumption

\* Initially there is nothing.
LEMMA InitIInv == Init => IInv
<1> SUFFICES ASSUME Init PROVE IInv
    OBVIOUS
<1>1. Owned = {} /\ InUse = {}
    BY NothingInUse DEF Init, HandlesInit, ReadInit, Owned
<1>2. Fresh \in Streams /\ NoConversion \in Conversions /\ Len(NoConversion.chunk) <= BufSize
    BY FreshTypes
<1>3. TypeOK
    BY <1>1, <1>2 DEF Init, HandlesInit, ReadInit, ConverterInit, TypeOK, Idle, Reading, Unborn
<1>4. HeldIsOpen /\ HeldOnce /\ NilsFollowAFailure /\ OuterWait
    BY <1>1 DEF Init, HandlesInit, ReadInit, HeldIsOpen, HeldOnce, NilsFollowAFailure, Converting,
                OuterWait, Depth
<1>5. QED
    BY <1>3, <1>4 DEF IInv

-----------------------------------------------------------------------------
\* The streams follow the handles.
LEMMA StreamsKept ==
    ASSUME IInv, StreamsFollow
    PROVE  /\ stream' \in [Handles -> Streams]
           /\ \A h \in Handles \ Owned' : stream'[h] = Fresh
           /\ conv' \in Conversions /\ Len(conv'.chunk) <= BufSize
           /\ Converting => conv' = conv
<1>1. Fresh \in Streams /\ NoConversion \in Conversions /\ Len(NoConversion.chunk) <= BufSize
    BY FreshTypes
<1>2. QED
    BY <1>1 DEF StreamsFollow, IInv, TypeOK, Converting

\* A step on the objects keeps the invariant if it keeps what is about them.
LEMMA HandlesKept ==
    ASSUME IInv, StreamsFollow, UNCHANGED stack, Objective', NoCall \/ (Idle /\ Raises),
           (Owned \cup InUse)' \subseteq open',
           \A o \in users : ptr'[o] = ptr[o],
           \A o, p \in Objects : o # p /\ ptr'[o] # NoHandle => ptr'[o] # ptr'[p],
           (Owned \cap InUse)' = {}
    PROVE  IInv'
<1>1. /\ call' \in {"none", "raised", "convert", "read"}
      /\ (~Idle => call' = call /\ users' = users) /\ (Idle => Idle')
      /\ (Idle' => users' = {}) /\ (Reading' <=> Reading) /\ (Converting' => Converting)
    BY DEF IInv, TypeOK, NoCall, Raises, Idle, Reading, Converting
<1>2. TypeOK'
    BY <1>1, StreamsKept DEF IInv, TypeOK, Objective
<1>3. Converting' => {conv'.from, conv'.to} \subseteq {ptr'[o] : o \in users'} \ {NoHandle}
    <2> SUFFICES ASSUME Converting' PROVE {conv'.from, conv'.to} \subseteq {ptr'[o] : o \in users'} \ {NoHandle}
        OBVIOUS
    <2>1. Converting /\ users' = users /\ conv' = conv
        BY <1>1, StreamsKept DEF Converting, Idle
    <2>2. {conv.from, conv.to} \subseteq {ptr[o] : o \in users} \ {NoHandle}
        BY <2>1 DEF IInv, HeldIsOpen
    <2>3. {ptr[o] : o \in users} = {ptr'[o] : o \in users'}
        BY <2>1
    <2>4. QED
        BY <2>1, <2>2, <2>3
<1>4. HeldIsOpen' /\ HeldOnce'
    BY <1>3 DEF HeldIsOpen, HeldOnce, IInv
<1>5. NilsFollowAFailure' /\ OuterWait'
    BY DEF IInv, NilsFollowAFailure, OuterWait, Depth
<1>6. QED
    BY <1>2, <1>4, <1>5 DEF IInv

\* An object gets what has been opened, or what it has gets out of reach.
LEMMA GivenKeeps ==
    ASSUME IInv, Idle, UNCHANGED stack, StreamsFollow, ~Exhausted, NoCall,
           NEW o \in Objects, NEW c \in Classes, class' = [class EXCEPT ![o] = c],
           ptr' = [ptr EXCEPT ![o] = NewHandle], open' = open \cup {NewHandle}
    PROVE  IInv' /\ Lost' \subseteq Lost \cup ({ptr[o]} \ {NoHandle})
<1>1. NewHandle \in Handles /\ NewHandle \notin open /\ NewHandle # NoHandle
    BY NewIsNew
<1>2. stack = <<>> /\ InUse = {} /\ InUse' = {} /\ users = {} /\ users' = {}
    BY NothingInUse DEF IInv, TypeOK, Idle, Reading, InUse, NoCall
<1>3. ptr \in [Objects -> Handles \cup {NoHandle}] /\ Owned \subseteq open /\ open \subseteq Handles
    BY DEF IInv, TypeOK, HeldIsOpen
<1>4. Owned' \subseteq Owned \cup {NewHandle} /\ NewHandle \in Owned'
    BY <1>1, <1>3 DEF Owned
<1>5. \A q \in Objects : ptr[q] # NewHandle
    BY <1>1, <1>3 DEF Owned
<1>6. \A q, p \in Objects : q # p /\ ptr'[q] # NoHandle => ptr'[q] # ptr'[p]
    BY <1>3, <1>5 DEF IInv, HeldOnce
<1>7. Objective' /\ (Owned \cup InUse)' \subseteq open' /\ (Owned \cap InUse)' = {}
    <2>1. class' \in [Objects -> Classes \cup {"none"}]
        BY DEF IInv, TypeOK
    <2>2. \A q \in Objects : Unborn(q)' => ptr'[q] = NoHandle
        BY DEF IInv, TypeOK, Unborn, Classes, Allocated
    <2>3. QED
        BY <1>1, <1>2, <1>3, <1>4, <2>1, <2>2 DEF Objective
<1>8. IInv'
    BY <1>2, <1>6, <1>7, HandlesKept
<1>9. Owned \subseteq Owned' \cup {ptr[o]}
    BY <1>3 DEF Owned
<1>10. NoHandle \notin open
    BY <1>3, HandlesAssumption
<1>11. QED
    BY <1>2, <1>4, <1>8, <1>9, <1>10 DEF Lost

\* Allocate.
LEMMA AllocateKeeps ==
    ASSUME IInv, UNCHANGED stack, StreamsFollow,
           NEW o \in Objects, NEW c \in Allocated, Allocate(o, c)
    PROVE  IInv' /\ LossIsKnown
<1>1. /\ ptr \in [Objects -> Handles \cup {NoHandle}] /\ ptr[o] = NoHandle
      /\ users = {} /\ InUse' = InUse
    BY DEF IInv, TypeOK, Allocate, InUse
<1>2. ptr' = ptr /\ open' = open /\ NoCall
    BY <1>1 DEF Allocate, Wrap
<1>3. Owned' = Owned
    BY <1>2 DEF Owned
<1>4. Objective'
    BY <1>1, <1>2 DEF Objective, IInv, TypeOK, Allocate, Wrap, Unborn, Classes, NoCall
<1>5. IInv'
    BY <1>1, <1>2, <1>3, <1>4, HandlesKept DEF IInv, HeldIsOpen, HeldOnce
<1>6. QED
    BY <1>1, <1>2, <1>3, <1>5 DEF LossIsKnown, Lost

\* initialize.
LEMMA InitializeKeeps ==
    ASSUME IInv, UNCHANGED stack, StreamsFollow, NEW o \in Objects, Initialize(o)
    PROVE  IInv' /\ LossIsKnown
<1>1. /\ Idle /\ ~Exhausted /\ NoCall /\ class[o] \in Classes
      /\ class' = [class EXCEPT ![o] = class[o]]
      /\ ptr' = [ptr EXCEPT ![o] = NewHandle] /\ open' = open \cup {NewHandle}
    BY DEF Initialize, Classes, IInv, TypeOK
<1>2. IInv' /\ Lost' \subseteq Lost \cup ({ptr[o]} \ {NoHandle})
    BY <1>1, GivenKeeps
<1>3. ptr[o] # NoHandle => Overwrites(ptr[o])
    <2>1. ptr \in [Objects -> Handles \cup {NoHandle}] /\ class \in [Objects -> Classes \cup {"none"}]
        BY DEF IInv, TypeOK
    <2>2. ASSUME ptr[o] # NoHandle PROVE ptr'[o] # ptr[o]
        <3>1. ptr[o] \in open
            BY <2>1, <2>2 DEF IInv, HeldIsOpen, Owned
        <3>2. QED
            BY <1>1, <2>1, <3>1, NewIsNew
    <2>3. QED
        BY <1>1, <2>1, <2>2 DEF Overwrites
<1>4. QED
    BY <1>2, <1>3 DEF LossIsKnown

\* CloneCalendar, ParseDate and OpenBundle: an object there was not.
LEMMA WrapKeeps ==
    ASSUME IInv, UNCHANGED stack, StreamsFollow, NEW o \in Objects, NEW c \in Classes,
           Idle, ~Exhausted, NoCall, Unborn(o), Wrap(o, c, NewHandle),
           open' = open \cup {NewHandle}
    PROVE  IInv' /\ LossIsKnown
<1>1. ptr[o] = NoHandle
    BY DEF IInv, TypeOK
<1>2. IInv' /\ Lost' \subseteq Lost \cup ({ptr[o]} \ {NoHandle})
    BY GivenKeeps DEF Wrap
<1>3. QED
    BY <1>1, <1>2 DEF LossIsKnown

\* A date whose pattern is none.
LEMMA NoFormatterKeeps ==
    ASSUME IInv, UNCHANGED stack, StreamsFollow, ParseDateNoFormatter
    PROVE  IInv' /\ LossIsKnown
<1>1. /\ Idle /\ ~Exhausted /\ Raises /\ ptr' = ptr /\ class' = class
      /\ open' = open \cup {NewHandle}
    BY DEF ParseDateNoFormatter
<1>2. NewHandle \in Handles /\ NewHandle \notin open
    BY <1>1, NewIsNew
<1>3. Owned' = Owned /\ InUse' = InUse /\ users = {} /\ ~Reading
    BY <1>1 DEF Owned, InUse, IInv, TypeOK, Idle, Reading
<1>4. Objective'
    BY <1>1, <1>2 DEF Objective, IInv, TypeOK, Unborn, Raises
<1>5. IInv'
    BY <1>1, <1>3, <1>4, HandlesKept DEF IInv, HeldIsOpen, HeldOnce
<1>6. \A h \in Lost' \ Lost : h \notin open
    BY <1>1, <1>3 DEF Lost
<1>7. QED
    BY <1>1, <1>3, <1>5, <1>6 DEF LossIsKnown, Raises

\* The collector.
LEMMA CollectKeeps ==
    ASSUME IInv, UNCHANGED stack, StreamsFollow, NEW o \in Objects, Collect(o)
    PROVE  IInv' /\ LossIsKnown
<1>1. /\ ptr' = [ptr EXCEPT ![o] = NoHandle] /\ class' = [class EXCEPT ![o] = "none"]
      /\ open' = open \ {ptr[o]} /\ o \notin users /\ NoCall
    BY DEF Collect, Wrap
<1>2. /\ ptr \in [Objects -> Handles \cup {NoHandle}]
      /\ class \in [Objects -> Classes \cup {"none"}] /\ users \subseteq Objects
      /\ Owned \cup InUse \subseteq open /\ Owned \cap InUse = {} /\ InUse' = InUse
    BY DEF IInv, TypeOK, HeldIsOpen, HeldOnce, InUse
<1>3. \A p, q \in Objects : p # q /\ ptr[p] # NoHandle => ptr[p] # ptr[q]
    BY DEF IInv, HeldOnce
<1>4. Owned' = Owned \ {ptr[o]}
    BY <1>1, <1>2, <1>3 DEF Owned
<1>5. ptr[o] \notin InUse
    <2>1. NoHandle \notin open
        BY HandlesAssumption DEF IInv, TypeOK
    <2>2. CASE ptr[o] = NoHandle
        BY <1>2, <2>1, <2>2
    <2>3. CASE ptr[o] # NoHandle
        BY <1>2, <2>3 DEF Owned
    <2>4. QED
        BY <2>2, <2>3
<1>6. (Owned \cup InUse)' \subseteq open' /\ (Owned \cap InUse)' = {}
    BY <1>1, <1>2, <1>4, <1>5
<1>7. Objective'
    BY <1>1, <1>2 DEF Objective, IInv, TypeOK, Unborn, NoCall
<1>8. \A p, q \in Objects : p # q /\ ptr'[p] # NoHandle => ptr'[p] # ptr'[q]
    BY <1>1, <1>2, <1>3
<1>9. \A q \in users : ptr'[q] = ptr[q]
    BY <1>1, <1>2
<1>10. IInv'
    BY <1>1, <1>6, <1>7, <1>8, <1>9, HandlesKept
<1>11. Lost' \subseteq Lost
    BY <1>1, <1>2, <1>4 DEF Lost
<1>12. QED
    BY <1>10, <1>11 DEF LossIsKnown

\* Every step on the objects.
LEMMA HandleStepKeeps ==
    ASSUME IInv, HandleStep, StreamsFollow, UNCHANGED stack
    PROVE  IInv' /\ LossIsKnown
<1>1. ASSUME NEW o \in Objects, NEW c \in Allocated, Allocate(o, c)
      PROVE  IInv' /\ LossIsKnown
    BY <1>1, AllocateKeeps
<1>2. ASSUME NEW o \in Objects, Initialize(o) PROVE IInv' /\ LossIsKnown
    BY <1>2, InitializeKeeps
<1>3. ASSUME NEW o \in Objects, ParseDate(o) PROVE IInv' /\ LossIsKnown
    <2>1. "calendar" \in Classes
        BY DEF Classes, Allocated
    <2>2. QED
        BY <1>3, <2>1, WrapKeeps DEF ParseDate
<1>4. ASSUME NEW o \in Objects, OpenBundle(o) PROVE IInv' /\ LossIsKnown
    <2>1. "bundle" \in Classes
        BY DEF Classes
    <2>2. QED
        BY <1>4, <2>1, WrapKeeps DEF OpenBundle
<1>5. ASSUME NEW o \in Objects, Collect(o) PROVE IInv' /\ LossIsKnown
    BY <1>5, CollectKeeps
<1>6. ASSUME NEW o \in Objects, NEW p \in Objects, CloneCalendar(o, p)
      PROVE  IInv' /\ LossIsKnown
    <2>1. "calendar" \in Classes
        BY DEF Classes, Allocated
    <2>2. QED
        BY <1>6, <2>1, WrapKeeps DEF CloneCalendar
<1>7. QED
    BY <1>1, <1>2, <1>3, <1>4, <1>5, <1>6, NoFormatterKeeps DEF HandleStep

-----------------------------------------------------------------------------
\* A step of a converter keeps the invariant if it keeps what is about conversions.
LEMMA ConversionsKept ==
    ASSUME IInv, ~Reading, UNCHANGED <<class, ptr, open, stack>>,
           stream' \in [Handles -> Streams],
           \A h \in Handles \ Owned : stream'[h] = Fresh,
           conv' \in Conversions, Len(conv'.chunk) <= BufSize,
           call' \in {"none", "raised", "convert"}, users' \subseteq Objects,
           Idle' => users' = {},
           Converting' => {conv'.from, conv'.to} \subseteq {ptr[o] : o \in users'} \ {NoHandle}
    PROVE  IInv' /\ LossIsKnown
<1>1. Owned' = Owned /\ InUse' = InUse /\ Lost' = Lost
    BY DEF Owned, InUse, Lost
<1>2. ~Reading'
    BY DEF Reading
<1>3. TypeOK'
    BY <1>1, <1>2 DEF IInv, TypeOK, Unborn
<1>4. HeldIsOpen' /\ HeldOnce' /\ NilsFollowAFailure' /\ OuterWait'
    BY <1>1 DEF IInv, HeldIsOpen, HeldOnce, NilsFollowAFailure, OuterWait, Depth
<1>5. QED
    BY <1>1, <1>3, <1>4 DEF IInv, LossIsKnown

\* The state of one converter is changed.
LEMMA StreamSet ==
    ASSUME IInv, NEW h \in Owned, NEW x \in Streams, stream' = [stream EXCEPT ![h] = x]
    PROVE  /\ stream' \in [Handles -> Streams]
           /\ \A g \in Handles \ Owned : stream'[g] = Fresh
BY DEF IInv, TypeOK, HeldIsOpen

\* Resetting is well typed.
LEMMA ResetTypes ==
    ASSUME NEW s \in Streams
    PROVE  /\ ResetTo(s) \in Streams /\ ResetFrom(s) \in Streams /\ Reset(s) \in Streams
<1>1. <<>> \in Seq(Bytes)
    OBVIOUS
<1>2. ResetTo(s) \in Streams /\ ResetFrom(s) \in Streams
    BY <1>1 DEF ResetTo, ResetFrom, Streams
<1>3. QED
    BY <1>1 DEF Reset, ResetTo, ResetFrom, Streams

\* reset, subst_chars=, from_u and to_u.
LEMMA StreamStepsKeep ==
    ASSUME IInv, UNCHANGED stack, NEW o \in Objects,
           \/ ResetStream(o) \/ FromUnicode(o) \/ ToUnicode(o)
           \/ \E bytes \in Substs : SetSubstChars(o, bytes)
    PROVE  IInv' /\ LossIsKnown
<1> DEFINE h == ptr[o]
           s == stream[h]
<1>1. Idle /\ Converter(o) /\ OnlyStreams
    BY DEF ResetStream, FromUnicode, ToUnicode, SetSubstChars
<1>2. h \in Owned /\ h \in Handles /\ s \in Streams
    BY <1>1 DEF Owned, Converter, IInv, TypeOK, HeldIsOpen
<1>3. PICK x \in Streams : stream' = [stream EXCEPT ![h] = x]
    <2>1. CASE ResetStream(o)
        BY <2>1, <1>2, ResetTypes DEF ResetStream
    <2>2. CASE FromUnicode(o)
        <3>1. CASE stream' = [stream EXCEPT ![h] = ResetFrom(@)]
            BY <3>1, <1>2, ResetTypes
        <3>2. CASE stream' = [stream EXCEPT ![h].mode = "wide", ![h].over = <<"left">>]
            <4>1. <<"left">> \in Seq(Bytes)
                BY DEF Bytes
            <4>2. [s EXCEPT !.mode = "wide", !.over = <<"left">>] \in Streams
                BY <1>2, <4>1 DEF Streams
            <4>3. stream' = [stream EXCEPT ![h] = [s EXCEPT !.mode = "wide", !.over = <<"left">>]]
                BY <3>2, <1>2 DEF IInv, TypeOK
            <4>4. QED
                BY <4>2, <4>3
        <3>3. QED
            BY <2>2, <3>1, <3>2 DEF FromUnicode
    <2>3. CASE ToUnicode(o)
        <3>1. PICK to \in {"initial", "midway"} : stream' = [stream EXCEPT ![h].to = to]
            BY <2>3 DEF ToUnicode
        <3>2. [s EXCEPT !.to = to] \in Streams
            BY <1>2 DEF Streams
        <3>3. QED
            BY <3>1, <3>2
    <2>4. CASE \E bytes \in Substs : SetSubstChars(o, bytes)
        <3>1. PICK bytes \in Substs : stream' = [stream EXCEPT ![h].subst = bytes]
            BY <2>4 DEF SetSubstChars
        <3>2. [s EXCEPT !.subst = bytes] \in Streams
            BY <1>2, ConversionAssumption DEF Streams
        <3>3. QED
            BY <3>1, <3>2
    <2>5. QED
        BY <2>1, <2>2, <2>3, <2>4
<1>4. /\ stream' \in [Handles -> Streams]
      /\ \A g \in Handles \ Owned : stream'[g] = Fresh
    BY <1>2, <1>3, StreamSet
<1>5. conv' \in Conversions /\ Len(conv'.chunk) <= BufSize
    BY <1>1, FreshTypes DEF OnlyStreams
<1>6. call' = "none" /\ users' = users /\ users = {} /\ ~Reading
    BY <1>1 DEF OnlyStreams, NoCall, Idle, IInv, TypeOK, Reading
<1>7. QED
    BY <1>1, <1>4, <1>5, <1>6, ConversionsKept DEF OnlyStreams, Converting

\* The start of convert.
LEMMA ConvertBeginKeeps ==
    ASSUME IInv, UNCHANGED stack, NEW o \in Objects, NEW p \in Objects, NEW s \in Sources,
           ConvertBegin(o, p, s)
    PROVE  IInv' /\ LossIsKnown
<1>1. /\ Idle /\ call' = "convert" /\ users' = {o, p}
      /\ stream' = BothReset(ptr[o], ptr[p]) /\ UNCHANGED <<class, ptr, open>>
      /\ conv' = [NoConversion EXCEPT !.from = ptr[o], !.to = ptr[p], !.src = s,
                                      !.rest = s, !.subst = stream[ptr[p]].subst]
    BY DEF ConvertBegin
<1>2. /\ ptr[o] # NoHandle /\ ptr[p] # NoHandle
      /\ ptr[o] \in Owned /\ ptr[p] \in Owned /\ ptr[o] \in Handles /\ ptr[p] \in Handles
      /\ stream \in [Handles -> Streams] /\ \A g \in Handles \ Owned : stream[g] = Fresh
    BY DEF Owned, ConvertBegin, Converter, IInv, TypeOK, HeldIsOpen
<1>3. \A h \in Handles : stream'[h] \in Streams
    BY <1>1, <1>2, ResetTypes DEF BothReset
<1>4. /\ stream' \in [Handles -> Streams]
      /\ \A g \in Handles \ Owned : stream'[g] = Fresh
    BY <1>1, <1>2, <1>3 DEF BothReset
<1>5. conv' \in Conversions /\ conv'.from = ptr[o] /\ conv'.to = ptr[p] /\ conv'.chunk = <<>>
    <2>1. s \in Seq(Characters) /\ stream[ptr[p]].subst \in Seq(Bytes)
        BY <1>2, ConversionAssumption DEF Streams
    <2>2. <<>> \in Seq(Bytes) /\ <<>> \in Seq(Characters)
        OBVIOUS
    <2>3. QED
        BY <1>1, <1>2, <2>1, <2>2 DEF NoConversion, Conversions
<1>6. Len(conv'.chunk) <= BufSize
    BY <1>5, ConversionAssumption
<1>7. ~Reading /\ ~Idle'
    BY <1>1 DEF Idle, Reading
<1>8. QED
    BY <1>1, <1>2, <1>4, <1>5, <1>6, <1>7, ConversionsKept

\* What a conversion works with.
LEMMA WhileConverting ==
    ASSUME IInv, Converting
    PROVE  /\ conv.from \in Owned /\ conv.to \in Owned
           /\ conv.from \in Handles /\ conv.to \in Handles
           /\ stream[conv.from] \in Streams /\ Into \in Streams
           /\ conv \in Conversions /\ Room \in Nat /\ ~Reading /\ Len(conv.chunk) \in Nat
<1>1. {conv.from, conv.to} \subseteq {ptr[o] : o \in users} \ {NoHandle} /\ users \subseteq Objects
      /\ stream \in [Handles -> Streams]
      /\ conv \in Conversions /\ ptr \in [Objects -> Handles \cup {NoHandle}]
    BY DEF IInv, TypeOK, HeldIsOpen
<1>2. conv.chunk \in Seq(Bytes) /\ Len(conv.chunk) <= BufSize
    BY <1>1 DEF IInv, TypeOK, Conversions
<1>3. Room \in Nat /\ Len(conv.chunk) \in Nat
    BY <1>2, ConversionAssumption DEF Room
<1>4. ~Reading
    BY DEF Converting, Reading
<1>5. QED
    <2>1. {conv.from, conv.to} \subseteq Owned
        BY <1>1 DEF Owned
    <2>2. Owned \subseteq Handles
        BY <1>1 DEF Owned
    <2>3. QED
        BY <1>1, <1>3, <1>4, <2>1, <2>2 DEF Into

\* A step of a conversion changes the state of one of its converters.
LEMMA ConversionStepKeeps ==
    ASSUME IInv, Converting, UNCHANGED <<handleVars, stack>>,
           NEW h \in {conv.from, conv.to}, NEW x \in Streams,
           stream' = [stream EXCEPT ![h] = x],
           conv' \in Conversions, Len(conv'.chunk) <= BufSize,
           conv'.from = conv.from, conv'.to = conv.to
    PROVE  IInv' /\ LossIsKnown
<1>1. h \in Owned /\ ~Reading
    BY WhileConverting
<1>2. /\ stream' \in [Handles -> Streams]
      /\ \A g \in Handles \ Owned : stream'[g] = Fresh
    BY <1>1, StreamSet
<1>3. /\ call' = "convert" /\ users' = users /\ ~Idle'
      /\ {conv'.from, conv'.to} \subseteq {ptr[o] : o \in users'} \ {NoHandle}
      /\ users' \subseteq Objects
    BY DEF handleVars, Converting, Idle, IInv, TypeOK, HeldIsOpen
<1>4. QED
    BY <1>1, <1>2, <1>3, ConversionsKept DEF handleVars

\* Bytes go into the buffer as far as there is room.
LEMMA EmitFits ==
    ASSUME IInv, Converting, NEW bytes \in Seq(Bytes)
    PROVE  /\ Emit(bytes).put \in Seq(Bytes) /\ Emit(bytes).left \in Seq(Bytes)
           /\ Len(Emit(bytes).put) <= BufSize
<1> DEFINE n == IF Len(bytes) < Room THEN Len(bytes) ELSE Room
<1>1. /\ conv.chunk \in Seq(Bytes) /\ Room \in Nat /\ Len(conv.chunk) \in Nat
      /\ Room = BufSize - Len(conv.chunk) /\ BufSize \in Nat
    BY WhileConverting, ConversionAssumption DEF Conversions, Room
<1>2. Len(bytes) \in Nat
    BY LenProperties
<1>3. n \in 0 .. Len(bytes) /\ n <= Room
    <2>1. Room \in Nat
        BY <1>1
    <2>2. \A a, b \in Nat : LET k == IF a < b THEN a ELSE b IN k \in 0 .. a /\ k <= b
        OBVIOUS
    <2>3. QED
        BY <1>2, <2>1, <2>2
<1>4. /\ Emit(bytes).put = conv.chunk \o SubSeq(bytes, 1, n)
      /\ Emit(bytes).left = SubSeq(bytes, n + 1, Len(bytes))
    BY DEF Emit
<1> HIDE DEF n
<1>5. 1 \in Int /\ n \in Int /\ n + 1 \in Int /\ Len(bytes) \in Int
      /\ 1 \in 1 .. Len(bytes) + 1 /\ n \in 0 .. Len(bytes)
      /\ n + 1 \in 1 .. Len(bytes) + 1 /\ Len(bytes) \in 0 .. Len(bytes)
    BY <1>2, <1>3
<1>6. SubSeq(bytes, 1, n) \in Seq(Bytes) /\ Len(SubSeq(bytes, 1, n)) = n
    <2>1. CASE n = 0
        <3>1. SubSeq(bytes, 1, n) = <<>>
            BY <2>1, SubSeqProperties, <1>5
        <3>2. QED
            BY <2>1, <3>1
    <2>2. CASE n > 0
        BY <2>2, <1>5, SubSeqProperties
    <2>3. QED
        BY <1>5, <2>1, <2>2
<1>7. SubSeq(bytes, n + 1, Len(bytes)) \in Seq(Bytes)
    BY <1>5, SubSeqProperties
<1>8. /\ conv.chunk \o SubSeq(bytes, 1, n) \in Seq(Bytes)
      /\ Len(conv.chunk \o SubSeq(bytes, 1, n)) = Len(conv.chunk) + n
    BY <1>1, <1>6, ConcatProperties
<1>9. Len(conv.chunk) + n <= BufSize
    <2>1. \A a, b, r, k \in Int : r = b - a /\ k <= r => a + k <= b
        OBVIOUS
    <2>2. Len(conv.chunk) \in Int /\ BufSize \in Int /\ Room \in Int /\ n \in Int
          /\ Room = BufSize - Len(conv.chunk) /\ n <= Room
        BY <1>1, <1>3, <1>5
    <2>3. QED
        BY <2>1, <2>2
<1>10. QED
    BY <1>4, <1>7, <1>8, <1>9

\* The encoding of a character.
LEMMA EncodedTypes ==
    ASSUME NEW c \in Characters, NEW mode \in {"narrow", "wide"}, NEW subst \in Seq(Bytes)
    PROVE  Encoded(c, mode, subst) \in Seq(Bytes) /\ ModeAfter(c, mode) \in {"narrow", "wide"}
<1>1. CASE c = "alien"
    BY <1>1 DEF Encoded, ModeAfter
<1>2. CASE c # "alien"
    <2>1. c \in {"narrow", "wide"} /\ c \in Bytes /\ "shift" \in Bytes
        BY <1>2 DEF Characters, Bytes
    <2>2. <<c>> \in Seq(Bytes) /\ <<"shift", c>> \in Seq(Bytes)
        BY <2>1
    <2>3. CASE c = mode
        BY <1>2, <2>1, <2>2, <2>3 DEF Encoded, ModeAfter
    <2>4. CASE c # mode
        BY <1>2, <2>1, <2>2, <2>4 DEF Encoded, ModeAfter
    <2>5. QED
        BY <2>3, <2>4
<1>3. QED
    BY <1>1, <1>2

\* Into the pivot.
LEMMA FillPivotKeeps == ASSUME IInv, UNCHANGED stack, FillPivot PROVE IInv' /\ LossIsKnown
<1> DEFINE n == IF Len(conv.rest) < BufSize THEN Len(conv.rest) ELSE BufSize
           read == SubSeq(conv.rest, 1, n)
           spoiled == IF stream[conv.from].to = "midway" THEN <<"alien">> \o Tail(read) ELSE read
           left == SubSeq(conv.rest, n + 1, Len(conv.rest))
<1>1. Converting /\ conv.rest # <<>> /\ conv.rest \in Seq(Characters) /\ conv \in Conversions
      /\ stream[conv.from] \in Streams /\ conv.from \in Handles
    BY WhileConverting DEF FillPivot, Conversions
<1>2. Len(conv.rest) \in Nat /\ Len(conv.rest) > 0 /\ BufSize \in Nat \ {0}
    BY <1>1, ConversionAssumption
<1>3. n \in 1 .. Len(conv.rest)
    BY <1>2
<1>4. read \in Seq(Characters) /\ Len(read) = n
    <2> HIDE DEF n
    <2>1. QED
        BY <1>1, <1>2, <1>3, SubSeqProperties
<1>5. left \in Seq(Characters)
    <2> HIDE DEF n
    <2>1. QED
        BY <1>1, <1>2, <1>3, SubSeqProperties
<1>6. spoiled \in Seq(Characters)
    <2> HIDE DEF n, read
    <2>1. Tail(read) \in Seq(Characters)
        BY <1>3, <1>4, <1>2
    <2>2. <<"alien">> \in Seq(Characters)
        BY DEF Characters
    <2>3. <<"alien">> \o Tail(read) \in Seq(Characters)
        BY <2>1, <2>2, ConcatProperties
    <2>4. QED
        BY <1>4, <2>3
<1>7. /\ conv' = [conv EXCEPT !.pivot = spoiled, !.rest = left]
      /\ stream' = [stream EXCEPT ![conv.from].to = "initial"] /\ UNCHANGED handleVars
    BY DEF FillPivot
<1>8. /\ conv' \in Conversions /\ conv'.chunk = conv.chunk
      /\ conv'.from = conv.from /\ conv'.to = conv.to
    <2> HIDE DEF n, read, spoiled, left
    <2>1. QED
        BY <1>1, <1>5, <1>6, <1>7 DEF Conversions
<1>9. /\ stream' = [stream EXCEPT ![conv.from] = ResetTo(stream[conv.from])]
      /\ ResetTo(stream[conv.from]) \in Streams
    BY <1>1, <1>7, ResetTypes DEF ResetTo
<1>10. Len(conv'.chunk) <= BufSize
    BY <1>8 DEF IInv, TypeOK
<1>11. QED
    BY <1>1, <1>7, <1>8, <1>9, <1>10, ConversionStepKeeps

\* Bytes that had no room.
LEMMA WriteLeftKeeps == ASSUME IInv, UNCHANGED stack, WriteLeft PROVE IInv' /\ LossIsKnown
<1> DEFINE e == Emit(Into.over)
<1>1. Converting /\ conv \in Conversions /\ Into \in Streams /\ conv.to \in Handles
    BY WhileConverting DEF WriteLeft
<1>2. /\ conv' = [conv EXCEPT !.chunk = e.put] /\ UNCHANGED handleVars
      /\ stream' = [stream EXCEPT ![conv.to].over = e.left]
    BY DEF WriteLeft
<1>3. e.put \in Seq(Bytes) /\ e.left \in Seq(Bytes) /\ Len(e.put) <= BufSize
    BY <1>1, EmitFits DEF Streams
<1> HIDE DEF e
<1>4. /\ conv' \in Conversions /\ conv'.chunk = e.put
      /\ conv'.from = conv.from /\ conv'.to = conv.to
    BY <1>1, <1>2, <1>3 DEF Conversions
<1>5. /\ [Into EXCEPT !.over = e.left] \in Streams
      /\ stream' = [stream EXCEPT ![conv.to] = [Into EXCEPT !.over = e.left]]
    BY <1>1, <1>2, <1>3 DEF Streams, Into
<1>6. QED
    BY <1>1, <1>2, <1>3, <1>4, <1>5, ConversionStepKeeps

\* The bytes of a character.
LEMMA WriteNextKeeps == ASSUME IInv, UNCHANGED stack, WriteNext PROVE IInv' /\ LossIsKnown
<1> DEFINE c == Head(conv.pivot)
           e == Emit(Encoded(c, Into.mode, Into.subst))
<1>1. /\ Converting /\ conv \in Conversions /\ Into \in Streams /\ conv.to \in Handles
      /\ conv.pivot # <<>>
    BY WhileConverting DEF WriteNext
<1>2. /\ conv' = [conv EXCEPT !.chunk = e.put, !.pivot = Tail(conv.pivot)] /\ UNCHANGED handleVars
      /\ stream' = [stream EXCEPT ![conv.to].over = e.left,
                                  ![conv.to].mode = ModeAfter(c, @)]
    BY DEF WriteNext
<1>3. c \in Characters /\ Tail(conv.pivot) \in Seq(Characters)
    BY <1>1 DEF Conversions
<1>4. Encoded(c, Into.mode, Into.subst) \in Seq(Bytes) /\ ModeAfter(c, Into.mode) \in {"narrow", "wide"}
    BY <1>1, <1>3, EncodedTypes DEF Streams
<1>5. e.put \in Seq(Bytes) /\ e.left \in Seq(Bytes) /\ Len(e.put) <= BufSize
    BY <1>1, <1>4, EmitFits
<1> HIDE DEF e, c
<1>6. /\ conv' \in Conversions /\ conv'.chunk = e.put
      /\ conv'.from = conv.from /\ conv'.to = conv.to
    BY <1>1, <1>2, <1>3, <1>5 DEF Conversions
<1>7. [Into EXCEPT !.over = e.left, !.mode = ModeAfter(c, Into.mode)] \in Streams
    BY <1>1, <1>4, <1>5 DEF Streams
<1>8. stream' = [stream EXCEPT ![conv.to] =
                    [Into EXCEPT !.over = e.left, !.mode = ModeAfter(c, Into.mode)]]
    BY <1>1, <1>2 DEF Into, Streams, IInv, TypeOK
<1>9. QED
    BY <1>1, <1>2, <1>5, <1>6, <1>7, <1>8, ConversionStepKeeps

\* The shift back at the end.
LEMMA WriteShiftBackKeeps ==
    ASSUME IInv, UNCHANGED stack, WriteShiftBack
    PROVE  IInv' /\ LossIsKnown
<1>1. /\ Converting /\ conv \in Conversions /\ Into \in Streams /\ conv.to \in Handles
      /\ Room > 0 /\ Room \in Nat /\ Len(conv.chunk) \in Nat
    BY WhileConverting DEF WriteShiftBack
<1>2. /\ conv' = [conv EXCEPT !.chunk = Append(conv.chunk, "shift")] /\ UNCHANGED handleVars
      /\ stream' = [stream EXCEPT ![conv.to].mode = "narrow"]
    BY DEF WriteShiftBack
<1>3. conv.chunk \in Seq(Bytes) /\ "shift" \in Bytes
    BY <1>1 DEF Conversions, Bytes
<1>4. /\ Append(conv.chunk, "shift") \in Seq(Bytes)
      /\ Len(Append(conv.chunk, "shift")) = Len(conv.chunk) + 1
    BY <1>3, AppendProperties
<1>5. /\ conv' \in Conversions /\ conv'.chunk = Append(conv.chunk, "shift")
      /\ conv'.from = conv.from /\ conv'.to = conv.to
    BY <1>1, <1>2, <1>4 DEF Conversions
<1>6. Len(conv'.chunk) <= BufSize
    BY <1>1, <1>4, <1>5, ConversionAssumption DEF Room
<1>7. /\ [Into EXCEPT !.mode = "narrow"] \in Streams
      /\ stream' = [stream EXCEPT ![conv.to] = [Into EXCEPT !.mode = "narrow"]]
    BY <1>1, <1>2 DEF Streams, Into
<1>8. QED
    BY <1>1, <1>2, <1>5, <1>6, <1>7, ConversionStepKeeps

\* The end of a conversion, and the end of its buffer.
LEMMA ConversionEndsKeep ==
    ASSUME IInv, UNCHANGED stack, ConvertOverflows \/ ConvertReturns \/ ConvertFails
    PROVE  IInv' /\ LossIsKnown
<1>1. /\ Converting /\ conv \in Conversions /\ ~Reading
      /\ conv.from \in Owned /\ stream[conv.from] \in Streams
      /\ stream \in [Handles -> Streams] /\ \A g \in Handles \ Owned : stream[g] = Fresh
    BY WhileConverting DEF ConvertOverflows, ConvertReturns, ConvertFails, IInv, TypeOK
<1>2. /\ NextChunk \in Conversions /\ [NextChunk EXCEPT !.end = "text"] \in Conversions
      /\ NextChunk.chunk = <<>> /\ [NextChunk EXCEPT !.end = "text"].chunk = <<>>
      /\ NextChunk.from = conv.from /\ NextChunk.to = conv.to
    <2>1. conv.out \o conv.chunk \in Seq(Bytes) /\ <<>> \in Seq(Bytes)
        BY <1>1 DEF Conversions
    <2>2. QED
        BY <1>1, <2>1 DEF NextChunk, Conversions
<1>3. Len(<<>>) <= BufSize
    BY ConversionAssumption
<1>4. CASE ConvertOverflows
    <2>1. ~Idle /\ {conv.from, conv.to} \subseteq {ptr[o] : o \in users} \ {NoHandle}
          /\ users \subseteq Objects
        BY <1>1 DEF IInv, TypeOK, HeldIsOpen, Idle, Converting
    <2>2. /\ UNCHANGED <<class, ptr, open, call, users, stream>> /\ conv' = NextChunk
        BY <1>4 DEF ConvertOverflows, handleVars
    <2>3. ~Idle'
        BY <2>1, <2>2 DEF Idle
    <2>4. QED
        BY <1>1, <1>2, <1>3, <2>1, <2>2, <2>3, ConversionsKept DEF Converting
<1>5. CASE ConvertReturns
    <2>1. call' = "none" /\ users' = {} /\ ~Converting'
        BY <1>5 DEF ConvertReturns, Converting
    <2>2. QED
        BY <1>1, <1>2, <1>3, <1>5, <2>1, ConversionsKept DEF ConvertReturns
<1>6. CASE ConvertFails
    <2>1. PICK to \in {"initial", "midway"} : stream' = [stream EXCEPT ![conv.from].to = to]
        BY <1>6 DEF ConvertFails
    <2>2. [stream[conv.from] EXCEPT !.to = to] \in Streams
        BY <1>1 DEF Streams
    <2>3. /\ stream' \in [Handles -> Streams] /\ \A g \in Handles \ Owned : stream'[g] = Fresh
        BY <1>1, <2>1, <2>2, StreamSet
    <2>4. /\ call' = "raised" /\ users' = {} /\ ~Converting'
          /\ conv' \in Conversions /\ Len(conv'.chunk) <= BufSize
        BY <1>6, FreshTypes DEF ConvertFails, Raises, Converting
    <2>5. QED
        BY <1>1, <1>6, <2>3, <2>4, ConversionsKept DEF ConvertFails
<1>7. QED
    BY <1>4, <1>5, <1>6

\* Every step of the converters.
LEMMA ConverterStepKeeps ==
    ASSUME IInv, ConverterStep, UNCHANGED stack PROVE IInv' /\ LossIsKnown
<1>1. ASSUME NEW o \in Objects,
             \/ ResetStream(o) \/ FromUnicode(o) \/ ToUnicode(o)
             \/ \E bytes \in Substs : SetSubstChars(o, bytes)
      PROVE  IInv' /\ LossIsKnown
    BY <1>1, StreamStepsKeep
<1>2. ASSUME NEW o \in Objects, NEW p \in Objects, NEW s \in Sources, ConvertBegin(o, p, s)
      PROVE  IInv' /\ LossIsKnown
    BY <1>2, ConvertBeginKeeps
<1>3. CASE Convert
    BY <1>3, FillPivotKeeps, WriteLeftKeeps, WriteNextKeeps, WriteShiftBackKeeps,
       ConversionEndsKeep DEF Convert
<1>4. CASE ConvertFails
    BY <1>4, ConversionEndsKeep
<1>5. QED
    BY <1>1, <1>2, <1>3, <1>4 DEF ConverterStep

-----------------------------------------------------------------------------
\* A step of the reading keeps the invariant if it keeps what is about the stack.
LEMMA ReadsKept ==
    ASSUME IInv, StreamsFollow, ~Converting, UNCHANGED <<class, ptr>>,
           open' \subseteq Handles, users' \subseteq Objects,
           call' \in {"none", "raised", "read"}, Idle' => users' = {},
           stack' \in Seq(Resources), stack' # <<>> <=> Reading',
           (Owned \cup InUse)' \subseteq open', (Owned \cap InUse)' = {},
           \A i, j \in DOMAIN stack' : i # j => stack'[i].h # stack'[j].h,
           NilsFollowAFailure', OuterWait'
    PROVE  IInv'
<1>1. Owned' = Owned /\ ~Converting'
    BY DEF Owned, Converting
<1>2. TypeOK'
    BY <1>1, StreamsKept DEF IInv, TypeOK, Unborn
<1>3. HeldIsOpen' /\ HeldOnce'
    BY <1>1 DEF IInv, HeldIsOpen, HeldOnce
<1>4. QED
    BY <1>2, <1>3 DEF IInv

\* What is read is on the stack.
LEMMA WhileReading ==
    ASSUME IInv, Reading
    PROVE  /\ stack \in Seq(Resources) /\ Depth \in Nat /\ Depth > 0 /\ Depth = Len(stack)
           /\ DOMAIN stack = 1 .. Depth
           /\ \A i \in 1 .. Depth : stack[i] \in Resources /\ NilsAtTheEnd(stack[i])
           /\ Innermost \in Resources /\ NilsAtTheEnd(Innermost) /\ Innermost.h \in InUse
           /\ InUse \subseteq open /\ Owned \subseteq open /\ open \subseteq Handles
           /\ Owned \cap InUse = {} /\ ~Idle /\ ~Converting
<1>1. stack \in Seq(Resources) /\ stack # <<>> /\ ~Idle /\ ~Converting
    BY DEF IInv, TypeOK, Reading, Idle, Converting
<1>2. Depth \in Nat /\ Depth > 0 /\ DOMAIN stack = 1 .. Depth /\ Depth = Len(stack)
    BY <1>1 DEF Depth
<1>3. \A i \in 1 .. Depth : stack[i] \in Resources /\ NilsAtTheEnd(stack[i])
    BY <1>1, <1>2 DEF IInv, NilsFollowAFailure
<1>4. Depth \in 1 .. Depth
    BY <1>2
<1>5. Innermost \in Resources /\ NilsAtTheEnd(Innermost) /\ Innermost.h \in InUse
    BY <1>2, <1>3, <1>4 DEF Innermost, InUse
<1>6. QED
    BY <1>1, <1>2, <1>3, <1>5 DEF IInv, TypeOK, HeldIsOpen, HeldOnce

\* A resource is begun.
LEMMA PushKeeps ==
    ASSUME IInv, StreamsFollow, ~Exhausted, ~Converting, NEW r \in Resources,
           r.h = NewHandle, r.got = <<>>, open' = open \cup {NewHandle},
           stack' = Append(stack, r), call' = "read", users' \subseteq Objects,
           stack = <<>> \/ Waits(Innermost), UNCHANGED <<class, ptr>>
    PROVE  IInv' /\ LossIsKnown
<1>1. NewHandle \in Handles /\ NewHandle \notin open
    BY NewIsNew
<1>2. /\ stack \in Seq(Resources) /\ open \subseteq Handles
      /\ Owned \cup InUse \subseteq open /\ Owned \cap InUse = {}
      /\ \A i, j \in DOMAIN stack : i # j => stack[i].h # stack[j].h
    BY DEF IInv, TypeOK, HeldIsOpen, HeldOnce
<1>3. /\ stack' \in Seq(Resources) /\ Len(stack) \in Nat
      /\ DOMAIN stack = 1 .. Len(stack) /\ DOMAIN stack' = 1 .. Len(stack) + 1
      /\ Len(stack') = Len(stack) + 1 /\ stack'[Len(stack) + 1] = r
      /\ \A i \in 1 .. Len(stack) : stack'[i] = stack[i]
    BY <1>2, AppendProperties
<1> HIDE DEF NewHandle
<1>4. InUse' = InUse \cup {NewHandle}
    <2>1. \A i \in DOMAIN stack' : stack'[i].h \in InUse \cup {NewHandle}
        BY <1>3 DEF InUse
    <2>2. \A i \in DOMAIN stack : i \in DOMAIN stack' /\ stack'[i].h = stack[i].h
        BY <1>3
    <2>3. Len(stack) + 1 \in DOMAIN stack'
        BY <1>3
    <2>4. QED
        BY <1>3, <2>1, <2>2, <2>3 DEF InUse
<1>5. Owned' = Owned
    BY DEF Owned
<1>6. \A i, j \in DOMAIN stack' : i # j => stack'[i].h # stack'[j].h
    <2>1. \A i \in 1 .. Len(stack) : stack'[i].h \in open
        BY <1>2, <1>3 DEF InUse
    <2>2. QED
        BY <1>1, <1>2, <1>3, <2>1
<1>7. NilsFollowAFailure'
    <2>1. NilsAtTheEnd(r)
        BY DEF NilsAtTheEnd, Resources
    <2>2. \A i \in 1 .. Len(stack) : NilsAtTheEnd(stack[i])
        BY <1>3 DEF IInv, NilsFollowAFailure
    <2>3. \A i \in 1 .. Len(stack) + 1 : NilsAtTheEnd(stack'[i])
        BY <1>3, <2>1, <2>2
    <2>4. QED
        BY <1>3, <2>3 DEF NilsFollowAFailure
<1>8. OuterWait'
    <2>1. \A i \in 1 .. Len(stack) : Waits(stack[i])
        BY <1>3 DEF IInv, OuterWait, Innermost, Depth
    <2>2. QED
        BY <1>3, <2>1 DEF OuterWait, Depth
<1>9. IInv'
    <2>1. Reading' /\ ~Idle' /\ stack' # <<>>
        BY <1>3 DEF Reading, Idle
    <2>2. QED
        BY <1>1, <1>2, <1>3, <1>4, <1>5, <1>6, <1>7, <1>8, <2>1, ReadsKept
<1>10. Lost' = Lost
    BY <1>1, <1>2, <1>4, <1>5 DEF Lost
<1>11. QED
    BY <1>9, <1>10 DEF LossIsKnown

\* A resource that has been begun is one.
LEMMA ResourceTypes ==
    ASSUME NEW h \in Handles, NEW type \in {"simple", "table", "array", "list"},
           NEW element \in {"bundle", "call", "table", "array"}, NEW size \in 0 .. MaxSize
    PROVE  /\ Resource(h, type, element, size) \in Resources
           /\ Resource(h, type, element, size).h = h
           /\ Resource(h, type, element, size).got = <<>>
<1>1. <<>> \in Seq({"value", "nil"})
    OBVIOUS
<1>2. QED
    BY <1>1 DEF Resource, Resources

\* bundle[key], the lists, and an element of a table or an array.
LEMMA BeginsKeep ==
    ASSUME IInv, StreamsFollow,
           (\E o \in Objects : ArefBegin(o)) \/ ListBegin \/ NextElement
    PROVE  IInv' /\ LossIsKnown
<1>1. ~Exhausted /\ NewHandle \in Handles /\ UNCHANGED <<class, ptr>>
    BY NewIsNew DEF ArefBegin, ListBegin, NextElement
<1>2. ASSUME Idle PROVE stack = <<>> /\ ~Converting
    BY <1>2 DEF IInv, TypeOK, Idle, Reading, Converting
<1>3. ASSUME NEW element \in {"bundle", "call", "table", "array"}, Push(element)
      PROVE  \E r \in Resources : /\ r.h = NewHandle /\ r.got = <<>>
                                  /\ open' = open \cup {NewHandle}
                                  /\ stack' = Append(stack, r)
    <2>1. PICK type \in {"simple", "table", "array"}, size \in 0 .. MaxSize :
              /\ open' = open \cup {NewHandle}
              /\ stack' = Append(stack, Resource(NewHandle, type, element, size))
        BY <1>3 DEF Push
    <2>2. QED
        BY <1>1, <2>1, ResourceTypes
<1>4. ASSUME NEW o \in Objects, ArefBegin(o) PROVE IInv' /\ LossIsKnown
    BY <1>1, <1>2, <1>3, <1>4, PushKeeps DEF ArefBegin
<1>5. CASE ListBegin
    <2>1. PICK size \in 0 .. MaxSize :
              stack' = Append(stack, Resource(NewHandle, "list", "call", size))
        BY <1>5 DEF ListBegin
    <2>2. QED
        BY <1>1, <1>2, <1>5, <2>1, ResourceTypes, PushKeeps DEF ListBegin
<1>6. CASE NextElement
    <2>1. /\ Reading /\ Innermost.type \in {"table", "array"} /\ Push(Innermost.type)
          /\ Waits(Innermost) /\ call' = "read" /\ users' = users /\ users \subseteq Objects
        BY <1>6 DEF NextElement, Going, Waits, Reading, IInv, TypeOK
    <2>2. ~Converting
        BY <2>1, WhileReading
    <2>3. QED
        BY <1>1, <1>3, <2>1, <2>2, PushKeeps
<1>7. QED
    BY <1>4, <1>5, <1>6

\* What a resource gets is changed, the innermost one's.
LEMMA StoreKeeps ==
    ASSUME IInv, StreamsFollow, Reading, UNCHANGED handleVars, NEW r \in Resources,
           stack' = [stack EXCEPT ![Depth] = r], r.h = Innermost.h, NilsAtTheEnd(r)
    PROVE  IInv' /\ LossIsKnown
<1>1. /\ stack \in Seq(Resources) /\ Depth \in Nat /\ Depth > 0 /\ Depth = Len(stack)
      /\ DOMAIN stack = 1 .. Depth /\ ~Idle /\ ~Converting
      /\ \A i \in 1 .. Depth : NilsAtTheEnd(stack[i])
    BY WhileReading
<1>2. /\ stack' \in Seq(Resources) /\ Len(stack') = Depth /\ DOMAIN stack' = 1 .. Depth
      /\ stack'[Depth] = r /\ \A i \in 1 .. Depth - 1 : stack'[i] = stack[i]
    BY <1>1, ExceptSeq
<1>3. \A i \in 1 .. Depth : stack'[i].h = stack[i].h /\ NilsAtTheEnd(stack'[i])
    BY <1>1, <1>2 DEF Innermost
<1>4. InUse' = InUse /\ Owned' = Owned /\ Lost' = Lost
    <2>1. InUse' = InUse
        BY <1>1, <1>2, <1>3 DEF InUse
    <2>2. QED
        BY <2>1 DEF Owned, Lost, handleVars
<1>5. NilsFollowAFailure'
    BY <1>2, <1>3 DEF NilsFollowAFailure
<1>6. OuterWait'
    <2>1. \A i \in 1 .. Depth - 1 : Waits(stack[i])
        BY DEF IInv, OuterWait
    <2>2. Depth' = Depth
        BY <1>2 DEF Depth
    <2>3. QED
        BY <1>2, <2>1, <2>2 DEF OuterWait
<1>7. \A i, j \in DOMAIN stack' : i # j => stack'[i].h # stack'[j].h
    BY <1>1, <1>2, <1>3 DEF IInv, HeldOnce
<1>8. /\ users' \subseteq Objects /\ open' \subseteq Handles /\ call' = "read" /\ ~Idle'
      /\ Reading' /\ stack' # <<>>
      /\ (Owned \cup InUse)' \subseteq open' /\ (Owned \cap InUse)' = {}
    BY <1>1, <1>2, <1>4 DEF IInv, TypeOK, HeldIsOpen, HeldOnce, handleVars, Reading, Idle
<1>9. IInv'
    BY <1>1, <1>2, <1>5, <1>6, <1>7, <1>8, ReadsKept DEF handleVars
<1>10. QED
    BY <1>4, <1>9 DEF LossIsKnown

\* A value is stored where nothing failed, nil in an array.
LEMMA StoredAtTheEnd ==
    ASSUME NEW r \in Resources, NilsAtTheEnd(r), Len(r.got) < r.size
    PROVE  /\ ~r.failed \/ r.type # "array" =>
                  LET s == [r EXCEPT !.got = Append(r.got, "value")] IN
                  s \in Resources /\ NilsAtTheEnd(s)
           /\ r.type = "array" =>
                  LET s == [r EXCEPT !.got = Append(r.got, "nil"), !.failed = TRUE] IN
                  s \in Resources /\ NilsAtTheEnd(s)
<1>1. /\ r.got \in Seq({"value", "nil"}) /\ Len(r.got) \in Nat /\ r.size \in Nat
      /\ DOMAIN r.got = 1 .. Len(r.got)
    BY ReadBoundsAssumption DEF Resources
<1>2. ASSUME NEW x \in {"value", "nil"}
      PROVE  /\ Append(r.got, x) \in Seq({"value", "nil"})
             /\ Len(Append(r.got, x)) = Len(r.got) + 1
             /\ DOMAIN Append(r.got, x) = 1 .. Len(r.got) + 1
             /\ Append(r.got, x)[Len(r.got) + 1] = x
             /\ \A j \in 1 .. Len(r.got) : Append(r.got, x)[j] = r.got[j]
    <2>1. Append(r.got, x) \in Seq({"value", "nil"})
        BY <1>1
    <2>2. QED
        BY <1>1, <2>1, AppendProperties
<1>3. ASSUME ~r.failed \/ r.type # "array"
      PROVE  LET s == [r EXCEPT !.got = Append(r.got, "value")] IN
             s \in Resources /\ NilsAtTheEnd(s)
    <2> DEFINE g == Append(r.got, "value")
               s == [r EXCEPT !.got = g]
    <2>1. \A j \in 1 .. Len(r.got) : r.got[j] # "nil"
        BY <1>1, <1>3 DEF NilsAtTheEnd
    <2>2. /\ g \in Seq({"value", "nil"}) /\ Len(g) = Len(r.got) + 1
          /\ DOMAIN g = 1 .. Len(r.got) + 1
          /\ \A j \in 1 .. Len(r.got) + 1 : g[j] # "nil"
        BY <1>1, <1>2, <2>1
    <2> HIDE DEF g
    <2>3. s \in Resources /\ s.got = g /\ s.size = r.size
        BY <2>2 DEF Resources
    <2>4. NilsAtTheEnd(s)
        BY <1>1, <2>2, <2>3 DEF NilsAtTheEnd
    <2>5. QED
        BY <2>3, <2>4 DEF g
<1>4. ASSUME r.type = "array"
      PROVE  LET s == [r EXCEPT !.got = Append(r.got, "nil"), !.failed = TRUE] IN
             s \in Resources /\ NilsAtTheEnd(s)
    <2> DEFINE g == Append(r.got, "nil")
               s == [r EXCEPT !.got = g, !.failed = TRUE]
    <2>1. \A j, k \in 1 .. Len(r.got) : j < k /\ r.got[j] = "nil" => r.got[k] = "nil"
        BY <1>1 DEF NilsAtTheEnd
    <2>2. /\ g \in Seq({"value", "nil"}) /\ Len(g) = Len(r.got) + 1
          /\ DOMAIN g = 1 .. Len(r.got) + 1 /\ g[Len(r.got) + 1] = "nil"
          /\ \A j \in 1 .. Len(r.got) : g[j] = r.got[j]
        BY <1>1, <1>2
    <2> HIDE DEF g
    <2>3. \A j, k \in DOMAIN g : j < k /\ g[j] = "nil" => g[k] = "nil"
        BY <1>1, <2>1, <2>2
    <2>4. s \in Resources /\ s.got = g /\ s.size = r.size /\ s.failed /\ s.type = "array"
        BY <1>4, <2>2 DEF Resources
    <2>5. NilsAtTheEnd(s)
        BY <1>1, <2>2, <2>3, <2>4 DEF NilsAtTheEnd
    <2>6. QED
        BY <2>4, <2>5 DEF g
<1>5. QED
    BY <1>3, <1>4

\* A name of a list, and an element of an array that is not there.
LEMMA StoresKeep ==
    ASSUME IInv, StreamsFollow, NextName \/ MissingInArray
    PROVE  IInv' /\ LossIsKnown
<1>1. Reading /\ Len(Innermost.got) < Innermost.size /\ UNCHANGED handleVars
    BY DEF NextName, MissingInArray, Going
<1>2. /\ Innermost \in Resources /\ NilsAtTheEnd(Innermost) /\ stack \in Seq(Resources)
      /\ Depth \in DOMAIN stack /\ Innermost = stack[Depth]
    BY <1>1, WhileReading DEF Innermost
<1>3. CASE NextName
    <2> DEFINE r == [Innermost EXCEPT !.got = Append(Innermost.got, "value")]
    <2>1. r \in Resources /\ NilsAtTheEnd(r) /\ r.h = Innermost.h
        BY <1>1, <1>2, <1>3, StoredAtTheEnd DEF NextName, Resources
    <2>2. stack' = [stack EXCEPT ![Depth] = r]
        BY <1>2, <1>3 DEF NextName, Store
    <2> HIDE DEF r
    <2>3. QED
        BY <1>1, <2>1, <2>2, StoreKeeps
<1>4. CASE MissingInArray
    <2> DEFINE r == [Innermost EXCEPT !.got = Append(Innermost.got, "nil"), !.failed = TRUE]
    <2>1. r \in Resources /\ NilsAtTheEnd(r) /\ r.h = Innermost.h
        BY <1>1, <1>2, <1>4, StoredAtTheEnd DEF MissingInArray, Resources
    <2>2. stack' = [stack EXCEPT ![Depth] = r]
        BY <1>2, <1>4 DEF MissingInArray, Store
    <2> HIDE DEF r
    <2>3. QED
        BY <1>1, <2>1, <2>2, StoreKeeps
<1>5. QED
    BY <1>3, <1>4

\* The reading of a resource raises.
LEMMA UnwindsKeep ==
    ASSUME IInv, StreamsFollow, MissingInTable \/ ConversionRaises
    PROVE  IInv' /\ LossIsKnown
<1>1. /\ Reading /\ stack' = <<>> /\ call' = "raised" /\ users' = {}
      /\ UNCHANGED <<class, ptr, open>>
    BY DEF MissingInTable, ConversionRaises, Going, Unwinds, Raises
<1>2. /\ ~Converting /\ Owned \subseteq open /\ open \subseteq Handles
    BY <1>1, WhileReading
<1>3. Owned' = Owned /\ InUse' = {} /\ ~Reading'
    BY <1>1 DEF Owned, InUse, Reading
<1>4. stack' \in Seq(Resources) /\ NilsFollowAFailure' /\ OuterWait'
    BY <1>1 DEF NilsFollowAFailure, OuterWait, Depth
<1>5. IInv'
    BY <1>1, <1>2, <1>3, <1>4, ReadsKept
<1>6. \A h \in Lost' \ Lost : h \in InUse
    BY <1>1, <1>3 DEF Lost
<1>7. QED
    BY <1>1, <1>5, <1>6 DEF LossIsKnown

\* A resource has been read.
LEMMA ReturnKeeps == ASSUME IInv, StreamsFollow, Return PROVE IInv' /\ LossIsKnown
<1> DEFINE outer == SubSeq(stack, 1, Depth - 1)
           h == Innermost.h
<1>1. /\ Reading /\ UNCHANGED <<class, ptr>>
      /\ open' = IF Closes(Innermost) THEN open \ {h} ELSE open
    BY DEF Return
<1>2. /\ stack \in Seq(Resources) /\ Depth \in Nat /\ Depth > 0 /\ Depth = Len(stack)
      /\ DOMAIN stack = 1 .. Depth /\ h \in InUse /\ Innermost = stack[Depth]
      /\ \A i \in 1 .. Depth : stack[i] \in Resources /\ NilsAtTheEnd(stack[i])
      /\ InUse \subseteq open /\ Owned \subseteq open /\ open \subseteq Handles
      /\ Owned \cap InUse = {} /\ ~Converting /\ users \subseteq Objects
    BY <1>1, WhileReading DEF Innermost, IInv, TypeOK
<1>3. \A i, j \in 1 .. Depth : i # j => stack[i].h # stack[j].h
    BY <1>2 DEF IInv, HeldOnce
<1>4. Owned' = Owned
    BY <1>1 DEF Owned
<1>5. ~Closes(Innermost) => Innermost.element = "array"
    BY DEF Closes
<1>6. ASSUME InUse' = InUse \ {h}
      PROVE  (Owned \cup InUse)' \subseteq open' /\ (Owned \cap InUse)' = {} /\ LossIsKnown
    <2>1. (Owned \cup InUse)' \subseteq open' /\ (Owned \cap InUse)' = {}
        BY <1>1, <1>2, <1>4, <1>6
    <2>2. \A g \in Lost' \ Lost : g = h /\ ~Closes(Innermost)
        BY <1>1, <1>4, <1>6 DEF Lost
    <2>3. QED
        BY <1>1, <1>5, <2>1, <2>2 DEF LossIsKnown
<1>7. CASE Depth = 1
    <2>1. stack' = <<>> /\ call' = "none" /\ users' = {}
        BY <1>7 DEF Return
    <2>2. InUse = {h} /\ InUse' = {} /\ ~Reading'
        BY <1>2, <1>7, <2>1 DEF InUse, Reading
    <2>3. stack' \in Seq(Resources) /\ NilsFollowAFailure' /\ OuterWait'
        BY <2>1 DEF NilsFollowAFailure, OuterWait, Depth
    <2>4. (Owned \cup InUse)' \subseteq open' /\ (Owned \cap InUse)' = {} /\ LossIsKnown
        BY <1>6, <2>2
    <2>5. open' \subseteq Handles
        BY <1>1, <1>2
    <2>6. QED
        BY <1>1, <1>2, <2>1, <2>2, <2>3, <2>4, <2>5, ReadsKept
<1>8. CASE Depth # 1
    <2> DEFINE k == Depth - 1
               r == [outer[k] EXCEPT !.got = Append(outer[k].got, "value")]
    <2>1. k \in 1 .. Depth /\ k # Depth /\ k \in Nat /\ k < Depth /\ k >= 1
        BY <1>2, <1>8
    <2>2. /\ outer \in Seq(Resources) /\ Len(outer) = k
          /\ \A i \in 1 .. k : outer[i] = stack[i]
        <3> HIDE DEF k
        <3>1. /\ 1 \in Int /\ k \in Int /\ \A i \in 1 .. k : stack[i] \in Resources
            BY <1>2, <2>1
        <3>2. /\ SubSeq(stack, 1, k) \in Seq(Resources) /\ Len(SubSeq(stack, 1, k)) = k
              /\ \A i \in 1 .. k : SubSeq(stack, 1, k)[i] = stack[i]
            BY <2>1, <3>1, SubSeqProperties
        <3>3. QED
            BY <3>2 DEF k
    <2>3. Waits(stack[k])
        BY <1>2, <2>1 DEF IInv, OuterWait
    <2>4. outer[k] = stack[k] /\ outer[k] \in Resources /\ NilsAtTheEnd(outer[k])
        BY <1>2, <2>1, <2>2
    <2>5. r \in Resources /\ NilsAtTheEnd(r) /\ r.h = stack[k].h
        BY <2>3, <2>4, StoredAtTheEnd DEF Waits, Resources
    <2>6. stack' = [outer EXCEPT ![k] = r] /\ call' = "read" /\ users' = users
        BY <1>1, <1>8, <2>1, <2>2, <2>4 DEF Return, Reading
    <2> HIDE DEF outer, k, r, h
    <2>7. /\ stack' \in Seq(Resources) /\ Len(stack') = k /\ DOMAIN stack' = 1 .. k
          /\ stack'[k] = r /\ \A i \in 1 .. k : i # k => stack'[i] = stack[i]
        <3>1. k \in 1 .. Len(outer)
            BY <2>1, <2>2
        <3>2. QED
            BY <2>1, <2>2, <2>5, <2>6, <3>1, ExceptSeq
    <2>8. \A i \in 1 .. k : stack'[i].h = stack[i].h /\ NilsAtTheEnd(stack'[i]) /\ i \in 1 .. Depth
        BY <1>2, <2>1, <2>5, <2>7
    <2>9. k = Depth - 1 /\ h = stack[Depth].h
        BY <1>2 DEF k, h
    <2>10. InUse' = InUse \ {h}
        <3>1. InUse = {stack[i].h : i \in 1 .. Depth}
            BY <1>2 DEF InUse
        <3>2. InUse' = {stack[i].h : i \in 1 .. k}
            BY <2>7, <2>8 DEF InUse
        <3>3. \A i \in 1 .. Depth : i # Depth <=> i \in 1 .. k
            BY <1>2, <2>1, <2>9
        <3>4. Depth \in 1 .. Depth
            BY <1>2
        <3>5. QED
            BY <1>3, <2>8, <2>9, <3>1, <3>2, <3>3, <3>4
    <2>11. (Owned \cup InUse)' \subseteq open' /\ (Owned \cap InUse)' = {} /\ LossIsKnown
        BY <1>6, <2>10 DEF h
    <2>12. NilsFollowAFailure'
        BY <2>7, <2>8 DEF NilsFollowAFailure
    <2>13. OuterWait'
        <3>1. Depth' = k
            BY <2>7 DEF Depth
        <3>2. \A i \in 1 .. k - 1 : Waits(stack[i]) /\ stack'[i] = stack[i]
            BY <2>1, <2>7, <2>9 DEF IInv, OuterWait
        <3>3. QED
            BY <3>1, <3>2 DEF OuterWait
    <2>14. \A i, j \in DOMAIN stack' : i # j => stack'[i].h # stack'[j].h
        BY <1>3, <2>7, <2>8
    <2>15. open' \subseteq Handles /\ Reading' /\ ~Idle' /\ stack' # <<>> /\ users' \subseteq Objects
        BY <1>1, <1>2, <2>1, <2>6, <2>7 DEF Reading, Idle
    <2>16. QED
        BY <1>1, <1>2, <2>6, <2>7, <2>11, <2>12, <2>13, <2>14, <2>15, ReadsKept
<1>9. QED
    BY <1>7, <1>8

\* Every step of the reading.
LEMMA ReadStepKeeps == ASSUME IInv, ReadStep, StreamsFollow PROVE IInv' /\ LossIsKnown
<1>1. CASE (\E o \in Objects : ArefBegin(o)) \/ ListBegin \/ NextElement
    BY <1>1, BeginsKeep
<1>2. CASE NextName \/ MissingInArray
    BY <1>2, StoresKeep
<1>3. CASE MissingInTable \/ ConversionRaises
    BY <1>3, UnwindsKeep
<1>4. CASE Return
    BY <1>4, ReturnKeeps
<1>5. QED
    BY <1>1, <1>2, <1>3, <1>4 DEF ReadStep, Read

-----------------------------------------------------------------------------
\* Every step.
LEMMA NextKeeps == ASSUME IInv, [Next]_vars PROVE IInv' /\ (LossIsKnown \/ UNCHANGED vars)
<1>1. CASE Next
    BY <1>1, HandleStepKeeps, ConverterStepKeeps, ReadStepKeeps DEF Next
<1>2. CASE UNCHANGED vars
    <2>1. UNCHANGED <<class, ptr, open, call, users, stream, conv, stack>>
        BY <1>2 DEF vars, handleVars, converterVars
    <2>2. Owned' = Owned /\ InUse' = InUse /\ Idle' = Idle /\ Reading' = Reading
        BY <2>1 DEF Owned, InUse, Idle, Reading
    <2>3. TypeOK'
        BY <2>1, <2>2 DEF IInv, TypeOK, Unborn
    <2>4. HeldIsOpen'
        BY <2>1, <2>2 DEF IInv, HeldIsOpen, Converting
    <2>5. HeldOnce'
        BY <2>1, <2>2 DEF IInv, HeldOnce
    <2>6. NilsFollowAFailure' /\ OuterWait'
        BY <2>1 DEF IInv, NilsFollowAFailure, OuterWait, Depth
    <2>7. QED
        BY <1>2, <2>3, <2>4, <2>5, <2>6 DEF IInv
<1>3. QED
    BY <1>1, <1>2

\* The invariant.
LEMMA Invariant == Spec => []IInv
BY InitIInv, NextKeeps, PTL DEF Spec

\* The variables have their types: the state of a handle that nobody holds is that of
\* a new one, and the objects of a call that is over are free.
THEOREM ObjectsHaveTypes == Spec => []TypeOK
<1>1. IInv => TypeOK
    BY DEF IInv
<1>2. QED
    BY <1>1, Invariant, PTL

\* Whatever the order of initialize, clone, conversions that fail, resources that
\* cannot be read and collections, no object and no call is left with a handle that
\* has been closed.
THEOREM AlwaysHeldIsOpen == Spec => []HeldIsOpen
<1>1. IInv => HeldIsOpen
    BY DEF IInv
<1>2. QED
    BY <1>1, Invariant, PTL

\* No handle has two owners, which would close it twice.
THEOREM AlwaysHeldOnce == Spec => []HeldOnce
<1>1. IInv => HeldOnce
    BY DEF IInv
<1>2. QED
    BY <1>1, Invariant, PTL

\* In what is read of a resource the nils are at the end of an array, and a table has
\* none, at every depth.
THEOREM AlwaysNilsFollowAFailure == Spec => []NilsFollowAFailure
<1>1. IInv => NilsFollowAFailure
    BY DEF IInv
<1>2. QED
    BY <1>1, Invariant, PTL

\* Handles are lost in the three known ways only.
THEOREM AlwaysLosesOnlyKnown == Spec => LosesOnlyKnown
<1>1. IInv /\ [Next]_vars => [LossIsKnown]_vars
    BY NextKeeps
<1>2. QED
    BY <1>1, Invariant, PTL DEF Spec, LosesOnlyKnown

-----------------------------------------------------------------------------
\* The mode behind each character of a text, and the bytes of the first k.
ModesOf(text) ==
    LET mode[i \in 0 .. Len(text)] ==
            IF i = 0 THEN "narrow" ELSE ModeAfter(text[i], mode[i - 1])
    IN mode

EncodedAt(text, subst) ==
    [i \in 1 .. Len(text) |-> Encoded(text[i], ModesOf(text)[i - 1], subst)]

SoFar(text, subst, k) == FlattenSeq([i \in 1 .. k |-> EncodedAt(text, subst)[i]])

\* The modes run through the text from the narrow one.
LEMMA ModesAre ==
    ASSUME NEW text \in Seq(Characters)
    PROVE  /\ ModesOf(text) \in [0 .. Len(text) -> {"narrow", "wide"}]
           /\ ModesOf(text)[0] = "narrow"
           /\ \A i \in 1 .. Len(text) :
                ModesOf(text)[i] = ModeAfter(text[i], ModesOf(text)[i - 1])
<1> DEFINE n == Len(text)
           A == {"narrow", "wide"}
           step == [i \in 1 .. n |-> [a \in A |-> ModeAfter(text[i], a)]]
           Is(m) == m = [i \in 0 .. n |->
                            IF i = 0 THEN "narrow" ELSE ModeAfter(text[i], m[i - 1])]
<1>1. n \in Nat /\ \A i \in 1 .. n : text[i] \in Characters
    OBVIOUS
<1>2. step \in [1 .. n -> [A -> A]]
    BY <1>1, Zenon DEF ModeAfter, Characters
<1>3. PICK f \in [0 .. n -> A] :
        f[0] = "narrow" /\ \A i \in 1 .. n : f[i] = step[i][f[i - 1]]
    <2>1. "narrow" \in A /\ n \in Nat
        BY <1>1
    <2> HIDE DEF step, n, A, Is
    <2>2. \A s \in [1 .. n -> [A -> A]] : \E f \in [0 .. n -> A] :
            f[0] = "narrow" /\ \A i \in 1 .. n : f[i] = s[i][f[i - 1]]
        BY <2>1, IterationExists
    <2> QED BY <1>2, <2>2
<1>4. ASSUME NEW i \in 1 .. n PROVE f[i] = ModeAfter(text[i], f[i - 1])
    <2>1. f[i - 1] \in A
        BY <1>1
    <2> QED BY <1>3, <2>1
<1>5. Is(f)
    <2>1. f = [i \in 0 .. n |-> f[i]]
        OBVIOUS
    <2>2. \A i \in 0 .. n : f[i] = IF i = 0 THEN "narrow" ELSE ModeAfter(text[i], f[i - 1])
        BY <1>1, <1>3, <1>4
    <2> HIDE DEF n
    <2> QED BY <2>1, <2>2
<1>6. ModesOf(text) = CHOOSE m : Is(m)
    BY DEF ModesOf
<1> HIDE DEF Is
<1>7. Is(ModesOf(text))
    BY <1>5, <1>6
<1> DEFINE m == ModesOf(text)
<1> HIDE DEF m
<1>8. m = [i \in 0 .. n |-> IF i = 0 THEN "narrow" ELSE ModeAfter(text[i], m[i - 1])]
    BY <1>7 DEF Is, m
<1>9. m[0] = "narrow" /\ \A i \in 1 .. n : m[i] = ModeAfter(text[i], m[i - 1])
    BY <1>1, <1>8
<1>10. \A i \in 0 .. n : m[i] \in A
    <2> DEFINE P == {i \in Nat : i <= n => m[i] \in A}
    <2>1. 0 \in P
        BY <1>9
    <2>2. ASSUME NEW i \in Nat, i \in P PROVE i + 1 \in P
        <3> SUFFICES ASSUME i + 1 <= n PROVE m[i + 1] \in A
            OBVIOUS
        <3>1. i + 1 \in 1 .. n /\ (i + 1) - 1 = i /\ m[i] \in A
            BY <1>1, <2>2
        <3>2. m[i + 1] = ModeAfter(text[i + 1], m[i]) /\ text[i + 1] \in Characters
            BY <1>1, <1>9, <3>1
        <3> QED BY <3>1, <3>2 DEF ModeAfter, Characters
    <2> HIDE DEF P
    <2>3. Nat \subseteq P
        BY <2>1, <2>2, InductionOver
    <2> QED BY <1>1, <2>3 DEF P
<1>11. m \in [0 .. n -> A]
    BY <1>8, <1>10
<1> QED BY <1>9, <1>11 DEF m

\* Each character adds its bytes.
LEMMA SoFarGrows ==
    ASSUME NEW text \in Seq(Characters), NEW subst \in Seq(Bytes)
    PROVE  /\ SoFar(text, subst, 0) = <<>>
           /\ \A k \in 0 .. Len(text) - 1 :
                SoFar(text, subst, k + 1) =
                    SoFar(text, subst, k) \o Encoded(text[k + 1], ModesOf(text)[k], subst)
           /\ \A k \in 0 .. Len(text) : SoFar(text, subst, k) \in Seq(Bytes)
<1> DEFINE e == EncodedAt(text, subst)
<1>1. \A i \in 1 .. Len(text) :
        /\ e[i] = Encoded(text[i], ModesOf(text)[i - 1], subst)
        /\ e[i] \in Seq(Bytes)
    <2> SUFFICES ASSUME NEW i \in 1 .. Len(text)
        PROVE  /\ e[i] = Encoded(text[i], ModesOf(text)[i - 1], subst)
               /\ e[i] \in Seq(Bytes)
        OBVIOUS
    <2>1. text[i] \in Characters /\ i - 1 \in 0 .. Len(text)
        OBVIOUS
    <2>2. ModesOf(text)[i - 1] \in {"narrow", "wide"}
        BY <2>1, ModesAre
    <2> QED BY <2>1, <2>2, EncodedTypes DEF EncodedAt
<1> HIDE DEF e
<1>2. SoFar(text, subst, 0) = <<>>
    <2>1. [i \in 1 .. 0 |-> EncodedAt(text, subst)[i]] = <<>>
        OBVIOUS
    <2> QED BY <2>1, FlattenEmpty DEF SoFar
<1>3. ASSUME NEW k \in 0 .. Len(text) - 1
      PROVE  SoFar(text, subst, k + 1) =
                SoFar(text, subst, k) \o Encoded(text[k + 1], ModesOf(text)[k], subst)
    <2>1. k \in Nat /\ \A i \in 1 .. k + 1 : e[i] \in Seq(Bytes)
        BY <1>1
    <2>2. SoFar(text, subst, k + 1) = SoFar(text, subst, k) \o e[k + 1]
        BY <2>1, FlattenMore DEF SoFar, e
    <2>3. k + 1 \in 1 .. Len(text) /\ (k + 1) - 1 = k
        OBVIOUS
    <2> QED BY <1>1, <2>2, <2>3
<1>4. ASSUME NEW k \in 0 .. Len(text) PROVE SoFar(text, subst, k) \in Seq(Bytes)
    <2> DEFINE ss == [i \in 1 .. k |-> e[i]]
    <2>1. k \in Nat /\ \A i \in 1 .. k : e[i] \in Seq(Bytes)
        BY <1>1
    <2>2. ss \in Seq(Seq(Bytes))
        BY <2>1
    <2> HIDE DEF ss
    <2>3. FlattenSeq(ss) \in Seq(Bytes)
        BY <2>2, FlattenType
    <2> QED BY <2>3 DEF SoFar, ss, e
<1> QED BY <1>2, <1>3, <1>4

\* The encoding is the bytes of all characters, and the shift back.
LEMMA EncodingIs ==
    ASSUME NEW text \in Seq(Characters), NEW subst \in Seq(Bytes)
    PROVE  Encoding(text, subst) = SoFar(text, subst, Len(text))
                \o (IF ModesOf(text)[Len(text)] = "wide" THEN <<"shift">> ELSE <<>>)
<1> DEFINE f == [i \in 1 .. Len(text) |-> Encoded(text[i], ModesOf(text)[i - 1], subst)]
<1>1. Encoding(text, subst) = FlattenSeq(f)
                \o (IF ModesOf(text)[Len(text)] = "wide" THEN <<"shift">> ELSE <<>>)
    BY DEF Encoding, ModesOf
<1>2. f = [i \in 1 .. Len(text) |-> EncodedAt(text, subst)[i]]
    BY DEF EncodedAt
<1> HIDE DEF f
<1> QED BY <1>1, <1>2 DEF SoFar

-----------------------------------------------------------------------------
\* A conversion has come behind character k of its argument: all bytes so far are in
\* the string, the buffer or the converter, and perhaps the shift back at the end.
Come(k) ==
    LET mode == ModesOf(conv.src)[k]
        bytes == SoFar(conv.src, conv.subst, k)
    IN
    /\ conv.pivot \o conv.rest = SubSeq(conv.src, k + 1, Len(conv.src))
    /\ \/ Into.mode = mode /\ conv.out \o (conv.chunk \o Into.over) = bytes
       \/ /\ k = Len(conv.src) /\ mode = "wide"
          /\ Into.mode = "narrow" /\ Into.over = <<>>
          /\ conv.out \o conv.chunk = bytes \o <<"shift">>

Halfway ==
    /\ conv.end = "none" /\ stream[conv.from].to = "initial" /\ Into.subst = conv.subst
    /\ \E k \in 0 .. Len(conv.src) : Come(k)

WholeInv == (Converting => Halfway) /\ ConvertsWhole

\* For Zenon, which does not instantiate ConcatAssociative.
LEMMA BytesAssociate ==
    \A a, b, c \in Seq(Bytes) : (a \o b) \o c = a \o (b \o c)
BY ConcatAssociative

\* What Emit writes and what is left is all that it was given.
LEMMA EmitsAll ==
    ASSUME IInv, Converting, NEW bytes \in Seq(Bytes)
    PROVE  /\ Emit(bytes).put \in Seq(Bytes) /\ Emit(bytes).left \in Seq(Bytes)
           /\ Emit(bytes).put \o Emit(bytes).left = conv.chunk \o bytes
<1> DEFINE n == IF Len(bytes) < Room THEN Len(bytes) ELSE Room
           front == SubSeq(bytes, 1, n)
           back == SubSeq(bytes, n + 1, Len(bytes))
<1>1. Room \in Nat /\ conv.chunk \in Seq(Bytes) /\ Len(bytes) \in Nat
    BY WhileConverting DEF Conversions
<1>2. n \in 0 .. Len(bytes)
    BY <1>1
<1>3. front \in Seq(Bytes) /\ back \in Seq(Bytes) /\ front \o back = bytes
    <2> HIDE DEF n
    <2>1. 1 \in 1 .. Len(bytes) + 1 /\ n \in 1 - 1 .. Len(bytes) /\ Len(bytes) \in n .. Len(bytes)
        BY <1>1, <1>2
    <2>2. front \o back = SubSeq(bytes, 1, Len(bytes))
        BY <2>1, ConcatAdjacentSubSeq
    <2>3. SubSeq(bytes, 1, Len(bytes)) = bytes
        BY SubSeqFull
    <2>4. front \in Seq(Bytes)
        <3>1. \A i \in 1 .. n : bytes[i] \in Bytes
            BY <1>2
        <3> QED BY <3>1, <1>2, SubSeqProperties
    <2>5. back \in Seq(Bytes)
        <3>1. \A i \in n + 1 .. Len(bytes) : bytes[i] \in Bytes
            BY <1>2
        <3> QED BY <3>1, <1>2, SubSeqProperties
    <2> QED BY <2>2, <2>3, <2>4, <2>5
<1>4. Emit(bytes) = [put |-> conv.chunk \o front, left |-> back]
    BY Zenon DEF Emit
<1> HIDE DEF n, front, back
<1>5. (conv.chunk \o front) \o back = conv.chunk \o (front \o back)
    BY <1>1, <1>3, BytesAssociate, ZenonT(60)
<1>6. Emit(bytes).put = conv.chunk \o front /\ Emit(bytes).left = back
    BY <1>4
<1>7. conv.chunk \o front \in Seq(Bytes)
    BY <1>1, <1>3, ConcatProperties
<1> QED BY <1>3, <1>5, <1>6, <1>7, Zenon

\* A conversion begins before the first character, with both converters reset.
LEMMA BeginsWhole ==
    ASSUME IInv, NEW o \in Objects, NEW p \in Objects, NEW s \in Sources, ConvertBegin(o, p, s)
    PROVE  WholeInv'
<1>1. /\ ptr[o] \in Handles /\ ptr[p] \in Handles /\ s \in Seq(Characters)
      /\ stream \in [Handles -> Streams]
    BY ConversionAssumption DEF ConvertBegin, Converter, IInv, TypeOK
<1>2. /\ conv' = [NoConversion EXCEPT !.from = ptr[o], !.to = ptr[p], !.src = s,
                                      !.rest = s, !.subst = stream[ptr[p]].subst]
      /\ stream' = BothReset(ptr[o], ptr[p])
    BY DEF ConvertBegin
<1>3. /\ conv'.from = ptr[o] /\ conv'.to = ptr[p] /\ conv'.src = s /\ conv'.rest = s
      /\ conv'.pivot = <<>> /\ conv'.chunk = <<>> /\ conv'.out = <<>> /\ conv'.end = "none"
      /\ conv'.subst = stream[ptr[p]].subst
    BY <1>2 DEF NoConversion
<1>4. \A h \in {ptr[o], ptr[p]} : /\ stream'[h].to = "initial" /\ stream'[h].mode = "narrow"
                                  /\ stream'[h].over = <<>>
                                  /\ stream'[h].subst = stream[h].subst
    <2> SUFFICES ASSUME NEW h \in {ptr[o], ptr[p]}
        PROVE  /\ stream'[h].to = "initial" /\ stream'[h].mode = "narrow"
               /\ stream'[h].over = <<>> /\ stream'[h].subst = stream[h].subst
        OBVIOUS
    <2>1. stream'[h] = Reset(stream[h]) /\ stream[h] \in Streams
        BY <1>1, <1>2 DEF BothReset
    <2> QED BY <2>1 DEF Reset, ResetTo, ResetFrom, Streams
<1>5. stream[ptr[p]].subst \in Seq(Bytes)
    BY <1>1 DEF Streams
<1>6. Come(0)'
    <2>1. ModesOf(s)[0] = "narrow" /\ SoFar(s, stream[ptr[p]].subst, 0) = <<>>
        BY <1>1, <1>5, ModesAre, SoFarGrows
    <2>2. <<>> \o s = SubSeq(s, 1, Len(s))
        BY <1>1, SubSeqFull, ConcatEmptySeq
    <2>3. <<>> \o (<<>> \o <<>>) = <<>>
        OBVIOUS
    <2> QED BY <1>3, <1>4, <2>1, <2>2, <2>3 DEF Come, Into
<1>7. 0 \in 0 .. Len(conv'.src)
    BY <1>1, <1>3
<1> QED BY <1>3, <1>4, <1>6, <1>7 DEF WholeInv, Halfway, ConvertsWhole, Into

\* What is known in the middle of a conversion.
LEMMA Underway ==
    ASSUME IInv, WholeInv, Converting
    PROVE  /\ conv.src \in Seq(Characters) /\ conv.rest \in Seq(Characters)
           /\ conv.pivot \in Seq(Characters)
           /\ conv.chunk \in Seq(Bytes) /\ conv.out \in Seq(Bytes) /\ conv.subst \in Seq(Bytes)
           /\ Into.over \in Seq(Bytes) /\ Into.mode \in {"narrow", "wide"}
           /\ Into.subst = conv.subst /\ stream[conv.from].to = "initial" /\ conv.end = "none"
           /\ \E k \in 0 .. Len(conv.src) : Come(k)
<1>1. conv \in Conversions /\ Into \in Streams /\ Halfway
    BY WhileConverting DEF WholeInv
<1> QED BY <1>1 DEF Conversions, Streams, Halfway

\* A step goes on from where the conversion has come.
LEMMA GoesOn ==
    ASSUME Converting, UNCHANGED call, conv'.end = "none",
           conv'.src = conv.src, conv'.to = conv.to,
           stream'[conv'.from].to = "initial", Into'.subst = conv'.subst,
           NEW k \in 0 .. Len(conv.src), Come(k)'
    PROVE  WholeInv'
<1>1. Halfway'
    BY DEF Halfway
<1> QED BY <1>1 DEF WholeInv, ConvertsWhole

\* What is read into the pivot is still to be written.
LEMMA FillsWhole == ASSUME IInv, WholeInv, FillPivot PROVE WholeInv'
<1>1. /\ Converting /\ conv \in Conversions /\ conv.pivot = <<>> /\ conv.rest # <<>>
      /\ conv.from \in Handles /\ conv.to \in Handles /\ stream \in [Handles -> Streams]
    BY WhileConverting DEF FillPivot, IInv, TypeOK
<1> DEFINE rest == conv.rest
           n == IF Len(rest) < BufSize THEN Len(rest) ELSE BufSize
           read == SubSeq(rest, 1, n)
           left == SubSeq(rest, n + 1, Len(rest))
<1>2. stream[conv.from].to = "initial" /\ rest \in Seq(Characters) /\ conv.end = "none"
      /\ Into.subst = conv.subst
    BY <1>1, Underway
<1>3. /\ conv' = [conv EXCEPT !.pivot = read, !.rest = left]
      /\ stream' = [stream EXCEPT ![conv.from].to = "initial"] /\ call' = call
    BY <1>2 DEF FillPivot, handleVars
<1>4. n \in 0 .. Len(rest)
    BY <1>2, ConversionAssumption
<1> HIDE DEF n
<1>5. read \o left = rest
    <2>1. 1 \in 1 .. Len(rest) + 1 /\ n \in 1 - 1 .. Len(rest) /\ Len(rest) \in n .. Len(rest)
        BY <1>2, <1>4
    <2>2. read \o left = SubSeq(rest, 1, Len(rest))
        BY <1>2, <2>1, ConcatAdjacentSubSeq
    <2>3. SubSeq(rest, 1, Len(rest)) = rest
        BY <1>2, SubSeqFull
    <2> QED BY <2>2, <2>3
<1> HIDE DEF read, left
<1>6. /\ conv'.pivot = read /\ conv'.rest = left /\ conv'.from = conv.from
      /\ conv'.to = conv.to /\ conv'.src = conv.src /\ conv'.subst = conv.subst
      /\ conv'.out = conv.out /\ conv'.chunk = conv.chunk /\ conv'.end = conv.end
    BY <1>1, <1>3 DEF Conversions
<1>7. /\ stream'[conv.from].to = "initial" /\ Into'.mode = Into.mode
      /\ Into'.over = Into.over /\ Into'.subst = Into.subst
    BY <1>1, <1>3, <1>6 DEF Into, Streams
<1>8. PICK k \in 0 .. Len(conv.src) : Come(k)
    BY <1>1, Underway
<1>9. Come(k)'
    <2>1. <<>> \o rest = rest
        BY <1>2, ConcatEmptySeq
    <2> QED BY <1>1, <1>5, <1>6, <1>7, <1>8, <2>1 DEF Come
<1> QED BY <1>1, <1>2, <1>3, <1>6, <1>7, <1>8, <1>9, GoesOn

\* Bytes that had no room are part of the bytes so far.
LEMMA WritesLeftWhole == ASSUME IInv, WholeInv, WriteLeft PROVE WholeInv'
<1>1. /\ Converting /\ conv \in Conversions /\ Into.over # <<>>
      /\ conv.from \in Handles /\ conv.to \in Handles /\ stream \in [Handles -> Streams]
    BY WhileConverting DEF WriteLeft, IInv, TypeOK
<1> DEFINE e == Emit(Into.over)
<1>2. /\ stream[conv.from].to = "initial" /\ conv.end = "none" /\ Into.subst = conv.subst
      /\ Into.over \in Seq(Bytes)
    BY <1>1, Underway
<1>3. /\ conv' = [conv EXCEPT !.chunk = e.put] /\ call' = call
      /\ stream' = [stream EXCEPT ![conv.to].over = e.left]
    BY DEF WriteLeft, handleVars
<1>4. e.put \o e.left = conv.chunk \o Into.over
    BY <1>1, <1>2, EmitsAll
<1> HIDE DEF e
<1>5. /\ conv'.pivot = conv.pivot /\ conv'.rest = conv.rest /\ conv'.from = conv.from
      /\ conv'.to = conv.to /\ conv'.src = conv.src /\ conv'.subst = conv.subst
      /\ conv'.out = conv.out /\ conv'.chunk = e.put /\ conv'.end = conv.end
    BY <1>1, <1>3 DEF Conversions
<1>6. /\ stream'[conv.from].to = stream[conv.from].to /\ Into'.mode = Into.mode
      /\ Into'.over = e.left /\ Into'.subst = Into.subst
    BY <1>1, <1>3, <1>5 DEF Into, Streams
<1>7. PICK k \in 0 .. Len(conv.src) : Come(k)
    BY <1>1, Underway
<1>8. Come(k)'
    BY <1>1, <1>4, <1>5, <1>6, <1>7 DEF Come
<1> QED BY <1>1, <1>2, <1>3, <1>5, <1>6, <1>7, <1>8, GoesOn

\* Of what is still to be written the first character is the next of the text.
LEMMA NextCharacter ==
    ASSUME NEW src \in Seq(Characters), NEW k \in 0 .. Len(src),
           NEW p \in Seq(Characters), NEW r \in Seq(Characters),
           p \o r = SubSeq(src, k + 1, Len(src)), p # <<>>
    PROVE  /\ k \in 0 .. Len(src) - 1 /\ Head(p) = src[k + 1]
           /\ Tail(p) \o r = SubSeq(src, (k + 1) + 1, Len(src))
<1>1. Len(src) \in Nat /\ Len(p) \in Nat /\ Len(p) > 0 /\ Len(r) \in Nat
    OBVIOUS
<1>2. \A i \in k + 1 .. Len(src) : src[i] \in Characters
    BY <1>1
<1>3. /\ Len(SubSeq(src, k + 1, Len(src))) = Len(src) - k
      /\ \A i \in 1 .. Len(src) - k : SubSeq(src, k + 1, Len(src))[i] = src[k + i]
    <2>1. k + 1 \in Int /\ Len(src) \in Int /\ Len(src) - (k + 1) + 1 = Len(src) - k
          /\ \A i \in 1 .. Len(src) - k : (k + 1) + i - 1 = k + i
        BY <1>1
    <2>2. \A i \in 1 .. Len(src) - (k + 1) + 1 :
            SubSeq(src, k + 1, Len(src))[i] = src[(k + 1) + i - 1]
        BY <1>2, <2>1, SubSeqProperties
    <2>3. Len(SubSeq(src, k + 1, Len(src))) = IF k + 1 <= Len(src) THEN Len(src) - (k + 1) + 1 ELSE 0
        BY <1>2, <2>1, SubSeqProperties
    <2> DEFINE part == SubSeq(src, k + 1, Len(src))
               n == Len(src)
    <2>4. part = SubSeq(src, k + 1, n) /\ n \in Nat /\ k \in 0 .. n
        BY <1>1
    <2>5. Len(part) = IF k + 1 <= n THEN n - (k + 1) + 1 ELSE 0
        BY <2>3
    <2>6. \A i \in 1 .. n - k : part[i] = src[k + i]
        <3>1. n - (k + 1) + 1 = n - k
            BY <2>1
        <3> QED BY <2>1, <2>2, <3>1, Zenon
    <2> HIDE DEF part, n
    <2>7. Len(part) = n - k
        BY <2>4, <2>5
    <2> QED BY <2>6, <2>7 DEF part, n
<1>4. /\ Len(p \o r) = Len(p) + Len(r)
      /\ \A i \in 1 .. Len(p) + Len(r) :
            (p \o r)[i] = IF i <= Len(p) THEN p[i] ELSE r[i - Len(p)]
    BY ConcatProperties
<1>5. Len(p) + Len(r) = Len(src) - k /\ k \in 0 .. Len(src) - 1
    BY <1>1, <1>3, <1>4
<1>6. Head(p) = src[k + 1]
    <2>1. Head(p) = p[1] /\ (p \o r)[1] = p[1]
        BY <1>1, <1>4
    <2> QED BY <1>3, <1>5, <2>1
<1>7. /\ Tail(p) \in Seq(Characters) /\ Len(Tail(p)) = Len(p) - 1
      /\ \A i \in 1 .. Len(Tail(p)) : Tail(p)[i] = p[i + 1]
    BY HeadTailProperties
<1> DEFINE a == Tail(p) \o r
           b == SubSeq(src, (k + 1) + 1, Len(src))
<1>8. /\ a \in Seq(Characters) /\ Len(a) = Len(src) - (k + 1)
      /\ \A i \in 1 .. Len(a) : a[i] = IF i <= Len(p) - 1 THEN p[i + 1] ELSE r[i - (Len(p) - 1)]
    <2> DEFINE t == Tail(p)
    <2>1. t \in Seq(Characters) /\ Len(t) = Len(p) - 1
          /\ \A i \in 1 .. Len(t) : t[i] = p[i + 1]
        BY <1>7
    <2> HIDE DEF t
    <2>2. /\ t \o r \in Seq(Characters) /\ Len(t \o r) = Len(t) + Len(r)
          /\ \A i \in 1 .. Len(t) + Len(r) :
                (t \o r)[i] = IF i <= Len(t) THEN t[i] ELSE r[i - Len(t)]
        BY <2>1, ConcatProperties
    <2>3. \A i \in 1 .. Len(t) + Len(r) :
            (t \o r)[i] = IF i <= Len(p) - 1 THEN p[i + 1] ELSE r[i - (Len(p) - 1)]
        <3> SUFFICES ASSUME NEW i \in 1 .. Len(t) + Len(r)
            PROVE  (t \o r)[i] = IF i <= Len(p) - 1 THEN p[i + 1] ELSE r[i - (Len(p) - 1)]
            OBVIOUS
        <3>1. (t \o r)[i] = IF i <= Len(t) THEN t[i] ELSE r[i - Len(t)]
            BY <2>2
        <3>2. i <= Len(t) => t[i] = p[i + 1]
            <4>1. i <= Len(t) => i \in 1 .. Len(t)
                BY <1>1, <2>1
            <4> QED BY <2>1, <4>1
        <3> QED BY <2>1, <3>1, <3>2
    <2> QED BY <1>1, <1>5, <2>1, <2>2, <2>3 DEF t
<1>9. /\ b \in Seq(Characters) /\ Len(b) = Len(src) - (k + 1)
      /\ \A i \in 1 .. Len(b) : b[i] = src[(k + 1) + i]
    <2>1. (k + 1) + 1 \in Int /\ Len(src) \in Int
          /\ \A i \in (k + 1) + 1 .. Len(src) : src[i] \in Characters
        BY <1>1
    <2>2. /\ b \in Seq(Characters)
          /\ Len(b) = IF (k + 1) + 1 <= Len(src) THEN Len(src) - ((k + 1) + 1) + 1 ELSE 0
          /\ \A i \in 1 .. Len(src) - ((k + 1) + 1) + 1 : b[i] = src[((k + 1) + 1) + i - 1]
        BY <2>1, SubSeqProperties
    <2> DEFINE n == Len(src)
    <2>3. n \in Nat /\ k \in 0 .. n - 1
        BY <1>1, <1>5
    <2>4. Len(b) = IF (k + 1) + 1 <= n THEN n - ((k + 1) + 1) + 1 ELSE 0
        BY <2>2
    <2>5. \A i \in 1 .. n - ((k + 1) + 1) + 1 : b[i] = src[((k + 1) + 1) + i - 1]
        BY <2>2
    <2> HIDE DEF b, n
    <2>6. Len(b) = n - (k + 1)
        BY <2>3, <2>4
    <2>7. ASSUME NEW i \in 1 .. Len(b) PROVE b[i] = src[(k + 1) + i]
        <3>1. i \in 1 .. n - ((k + 1) + 1) + 1 /\ ((k + 1) + 1) + i - 1 = (k + 1) + i
            BY <2>3, <2>6, <2>7
        <3> QED BY <2>5, <3>1
    <2> QED BY <2>2, <2>6, <2>7 DEF n
<1> HIDE DEF a, b
<1>10. \A i \in 1 .. Len(a) : a[i] = b[i]
    <2> SUFFICES ASSUME NEW i \in 1 .. Len(a) PROVE a[i] = b[i]
        OBVIOUS
    <2>1. b[i] = src[k + (i + 1)] /\ i + 1 \in 1 .. Len(p) + Len(r)
        <3>1. i \in 1 .. Len(b) /\ i + 1 \in 1 .. Len(p) + Len(r) /\ i \in Int /\ k \in Int
            BY <1>1, <1>5, <1>8, <1>9
        <3>2. (k + 1) + i = k + (i + 1)
            BY <3>1
        <3>3. b[i] = src[(k + 1) + i]
            BY <1>9, <3>1
        <3> QED BY <3>1, <3>2, <3>3
    <2>2. src[k + (i + 1)] = IF i + 1 <= Len(p) THEN p[i + 1] ELSE r[(i + 1) - Len(p)]
        BY <1>3, <1>4, <1>5, <2>1
    <2>3. (i + 1 <= Len(p) <=> i <= Len(p) - 1) /\ (i + 1) - Len(p) = i - (Len(p) - 1)
        BY <1>1, <1>8
    <2> QED BY <1>8, <2>1, <2>2, <2>3
<1>11. a = b
    BY <1>8, <1>9, <1>10, SeqEqual
<1> QED BY <1>5, <1>6, <1>11 DEF a, b

\* With nothing more to read the conversion has come to the end of the text.
LEMMA AllComeIsAll ==
    ASSUME conv.src \in Seq(Characters), conv.pivot = <<>>, conv.rest = <<>>,
           NEW k \in 0 .. Len(conv.src), Come(k)
    PROVE  k = Len(conv.src)
<1>1. <<>> \o <<>> = SubSeq(conv.src, k + 1, Len(conv.src))
    BY DEF Come
<1>2. <<>> \o <<>> = <<>> /\ Len(<<>>) = 0
    OBVIOUS
<1>3. Len(SubSeq(conv.src, k + 1, Len(conv.src))) = 0
    BY <1>1, <1>2
<1>4. Len(conv.src) \in Nat /\ \A i \in k + 1 .. Len(conv.src) : conv.src[i] \in Characters
    OBVIOUS
<1>5. Len(SubSeq(conv.src, k + 1, Len(conv.src))) =
        IF k + 1 <= Len(conv.src) THEN Len(conv.src) - (k + 1) + 1 ELSE 0
    <2>1. k + 1 \in Int /\ Len(conv.src) \in Int
        BY <1>4
    <2> QED BY <1>4, <2>1, SubSeqProperties
<1> QED BY <1>3, <1>4, <1>5

\* One character further.
LEMMA WritesNextWhole == ASSUME IInv, WholeInv, WriteNext PROVE WholeInv'
<1>1. /\ Converting /\ conv \in Conversions /\ Into.over = <<>> /\ conv.pivot # <<>>
      /\ conv.from \in Handles /\ conv.to \in Handles /\ stream \in [Handles -> Streams]
    BY WhileConverting DEF WriteNext, IInv, TypeOK
<1>2. /\ conv.src \in Seq(Characters) /\ conv.pivot \in Seq(Characters)
      /\ conv.rest \in Seq(Characters) /\ conv.chunk \in Seq(Bytes) /\ conv.out \in Seq(Bytes)
      /\ conv.subst \in Seq(Bytes) /\ Into.subst = conv.subst /\ conv.end = "none"
      /\ stream[conv.from].to = "initial"
    BY <1>1, Underway
<1>3. PICK k \in 0 .. Len(conv.src) : Come(k)
    BY <1>1, Underway
<1>4. /\ k \in 0 .. Len(conv.src) - 1 /\ Head(conv.pivot) = conv.src[k + 1]
      /\ Tail(conv.pivot) \o conv.rest = SubSeq(conv.src, (k + 1) + 1, Len(conv.src))
    <2>1. conv.pivot \o conv.rest = SubSeq(conv.src, k + 1, Len(conv.src))
        BY <1>3 DEF Come
    <2> QED BY <1>1, <1>2, <2>1, NextCharacter
<1> DEFINE c == conv.src[k + 1]
           mode == ModesOf(conv.src)[k]
           bytes == Encoded(c, mode, conv.subst)
           e == Emit(bytes)
           before == SoFar(conv.src, conv.subst, k)
<1>5. c \in Characters /\ mode \in {"narrow", "wide"} /\ bytes \in Seq(Bytes)
      /\ before \in Seq(Bytes)
    <2>1. k + 1 \in 1 .. Len(conv.src) /\ k \in 0 .. Len(conv.src)
        BY <1>2, <1>4
    <2>2. c \in Characters
        BY <1>2, <2>1
    <2>3. mode \in {"narrow", "wide"}
        <3>1. ModesOf(conv.src) \in [0 .. Len(conv.src) -> {"narrow", "wide"}]
            BY <1>2, ModesAre
        <3> QED BY <2>1, <3>1
    <2> QED BY <1>2, <2>1, <2>2, <2>3, EncodedTypes, SoFarGrows
<1>6. k # Len(conv.src)
    BY <1>2, <1>4
<1>7. Into.mode = mode /\ conv.out \o conv.chunk = before
    <2>1. Into.mode = mode /\ conv.out \o (conv.chunk \o Into.over) = before
        BY <1>3, <1>6 DEF Come
    <2>2. conv.chunk \o <<>> = conv.chunk
        BY <1>2, ConcatEmptySeq
    <2> QED BY <1>1, <2>1, <2>2
<1>8. /\ conv' = [conv EXCEPT !.chunk = e.put, !.pivot = Tail(conv.pivot)] /\ call' = call
      /\ stream' = [stream EXCEPT ![conv.to].over = e.left, ![conv.to].mode = ModeAfter(c, @)]
    BY <1>2, <1>4, <1>7 DEF WriteNext, handleVars
<1>9. e.put \in Seq(Bytes) /\ e.left \in Seq(Bytes) /\ e.put \o e.left = conv.chunk \o bytes
    BY <1>1, <1>5, EmitsAll
<1>10. ModesOf(conv.src)[k + 1] = ModeAfter(c, mode)
    <2>1. k + 1 \in 1 .. Len(conv.src) /\ (k + 1) - 1 = k
        BY <1>2, <1>4
    <2> QED BY <1>2, <2>1, ModesAre
<1>11. SoFar(conv.src, conv.subst, k + 1) = before \o bytes
    BY <1>2, <1>4, SoFarGrows
<1> HIDE DEF e, c, mode, bytes, before
<1>12. /\ conv'.pivot = Tail(conv.pivot) /\ conv'.rest = conv.rest /\ conv'.from = conv.from
      /\ conv'.to = conv.to /\ conv'.src = conv.src /\ conv'.subst = conv.subst
      /\ conv'.out = conv.out /\ conv'.chunk = e.put /\ conv'.end = conv.end
    BY <1>1, <1>8 DEF Conversions
<1>13. /\ stream'[conv.from].to = stream[conv.from].to /\ Into'.mode = ModeAfter(c, mode)
      /\ Into'.over = e.left /\ Into'.subst = Into.subst
    BY <1>1, <1>7, <1>8, <1>12 DEF Into, Streams
<1>14. conv.out \o (e.put \o e.left) = before \o bytes
    <2>1. (conv.out \o conv.chunk) \o bytes = conv.out \o (conv.chunk \o bytes)
        BY <1>2, <1>5, BytesAssociate, ZenonT(60)
    <2> QED BY <1>7, <1>9, <2>1
<1>15. Come(k + 1)'
    BY <1>4, <1>10, <1>11, <1>12, <1>13, <1>14 DEF Come
<1>16. k + 1 \in 0 .. Len(conv.src)
    BY <1>2, <1>4
<1> QED BY <1>1, <1>2, <1>8, <1>12, <1>13, <1>15, <1>16, GoesOn

\* The shift back comes behind the last character.
LEMMA ShiftsBackWhole == ASSUME IInv, WholeInv, WriteShiftBack PROVE WholeInv'
<1>1. /\ Converting /\ conv \in Conversions /\ Into.over = <<>> /\ Into.mode = "wide"
      /\ conv.pivot = <<>> /\ conv.rest = <<>>
      /\ conv.from \in Handles /\ conv.to \in Handles /\ stream \in [Handles -> Streams]
    BY WhileConverting DEF WriteShiftBack, AllRead, IInv, TypeOK
<1>2. /\ conv.src \in Seq(Characters) /\ conv.chunk \in Seq(Bytes) /\ conv.out \in Seq(Bytes)
      /\ conv.subst \in Seq(Bytes) /\ Into.subst = conv.subst /\ conv.end = "none"
      /\ stream[conv.from].to = "initial"
    BY <1>1, Underway
<1>3. /\ conv' = [conv EXCEPT !.chunk = Append(conv.chunk, "shift")] /\ call' = call
      /\ stream' = [stream EXCEPT ![conv.to].mode = "narrow"]
    BY DEF WriteShiftBack, handleVars
<1> DEFINE put == Append(conv.chunk, "shift")
<1>4. put = conv.chunk \o <<"shift">> /\ <<"shift">> \in Seq(Bytes)
    BY <1>2, AppendIsConcat, SMTT(40) DEF Bytes
<1> HIDE DEF put
<1>5. /\ conv'.pivot = conv.pivot /\ conv'.rest = conv.rest /\ conv'.from = conv.from
      /\ conv'.to = conv.to /\ conv'.src = conv.src /\ conv'.subst = conv.subst
      /\ conv'.out = conv.out /\ conv'.chunk = put /\ conv'.end = conv.end
    BY <1>1, <1>3 DEF Conversions, put
<1>6. /\ stream'[conv.from].to = stream[conv.from].to /\ Into'.mode = "narrow"
      /\ Into'.over = <<>> /\ Into'.subst = Into.subst
    BY <1>1, <1>3, <1>5 DEF Into, Streams
<1>7. PICK k \in 0 .. Len(conv.src) : Come(k)
    BY <1>1, Underway
<1>8. k = Len(conv.src)
    BY <1>1, <1>2, <1>7, AllComeIsAll
<1> DEFINE bytes == SoFar(conv.src, conv.subst, k)
<1>9. ModesOf(conv.src)[k] = "wide" /\ conv.out \o conv.chunk = bytes
    <2>1. Into.mode = ModesOf(conv.src)[k] /\ conv.out \o (conv.chunk \o Into.over) = bytes
        BY <1>1, <1>7 DEF Come
    <2>2. conv.chunk \o <<>> = conv.chunk
        BY <1>2, ConcatEmptySeq
    <2> QED BY <1>1, <2>1, <2>2
<1>10. conv.out \o put = bytes \o <<"shift">>
    <2>1. (conv.out \o conv.chunk) \o <<"shift">> = conv.out \o (conv.chunk \o <<"shift">>)
        BY <1>2, <1>4, BytesAssociate
    <2> QED BY <1>4, <1>9, <2>1
<1> HIDE DEF bytes
<1>11. Come(k)'
    BY <1>5, <1>6, <1>7, <1>8, <1>9, <1>10 DEF Come, bytes
<1> QED BY <1>1, <1>2, <1>3, <1>5, <1>6, <1>7, <1>11, GoesOn

\* What was in the buffer is in the string.
LEMMA OverflowsWhole == ASSUME IInv, WholeInv, ConvertOverflows PROVE WholeInv'
<1>1. Converting /\ conv \in Conversions
    BY WhileConverting DEF ConvertOverflows
<1>2. /\ conv.chunk \in Seq(Bytes) /\ conv.out \in Seq(Bytes) /\ Into.over \in Seq(Bytes)
      /\ Into.subst = conv.subst /\ conv.end = "none" /\ stream[conv.from].to = "initial"
    BY <1>1, Underway
<1>3. /\ conv' = [conv EXCEPT !.out = conv.out \o conv.chunk, !.chunk = <<>>]
      /\ call' = call /\ stream' = stream
    BY DEF ConvertOverflows, NextChunk, handleVars
<1>4. /\ conv'.pivot = conv.pivot /\ conv'.rest = conv.rest /\ conv'.from = conv.from
      /\ conv'.to = conv.to /\ conv'.src = conv.src /\ conv'.subst = conv.subst
      /\ conv'.out = conv.out \o conv.chunk /\ conv'.chunk = <<>> /\ conv'.end = conv.end
    BY <1>1, <1>3 DEF Conversions
<1>5. PICK k \in 0 .. Len(conv.src) : Come(k)
    BY <1>1, Underway
<1>6. /\ (conv.out \o conv.chunk) \o (<<>> \o Into.over) = conv.out \o (conv.chunk \o Into.over)
      /\ (conv.out \o conv.chunk) \o <<>> = conv.out \o conv.chunk
    <2>1. (conv.out \o conv.chunk) \o Into.over = conv.out \o (conv.chunk \o Into.over)
        BY <1>2, BytesAssociate
    <2>2. <<>> \o Into.over = Into.over
        BY <1>2, ConcatEmptySeq
    <2>3. conv.out \o conv.chunk \in Seq(Bytes)
        BY <1>2, ConcatProperties
    <2>4. (conv.out \o conv.chunk) \o <<>> = conv.out \o conv.chunk
        BY <2>3, ConcatEmptySeq
    <2> QED BY <2>1, <2>2, <2>4
<1>7. Into' = Into
    BY <1>3, <1>4 DEF Into
<1>8. Come(k)'
    BY <1>4, <1>5, <1>6, <1>7 DEF Come
<1> QED BY <1>1, <1>2, <1>3, <1>4, <1>5, <1>7, <1>8, GoesOn

\* At the end nothing waits in the converter.
LEMMA ReturnsWhole == ASSUME IInv, WholeInv, ConvertReturns PROVE WholeInv'
<1>1. /\ Converting /\ conv \in Conversions /\ Into.over = <<>> /\ Into.mode = "narrow"
      /\ conv.pivot = <<>> /\ conv.rest = <<>>
    BY WhileConverting DEF ConvertReturns, AllWritten, AllRead
<1>2. /\ conv.src \in Seq(Characters) /\ conv.subst \in Seq(Bytes)
      /\ conv.chunk \in Seq(Bytes) /\ conv.out \in Seq(Bytes)
    BY <1>1, Underway
<1>3. /\ conv'.src = conv.src /\ conv'.subst = conv.subst
      /\ conv'.out = conv.out \o conv.chunk /\ ~Converting'
    BY <1>1 DEF ConvertReturns, NextChunk, Conversions, Converting
<1>4. PICK k \in 0 .. Len(conv.src) : Come(k)
    BY <1>1, Underway
<1>5. k = Len(conv.src)
    BY <1>1, <1>2, <1>4, AllComeIsAll
<1> DEFINE mode == ModesOf(conv.src)[k]
           bytes == SoFar(conv.src, conv.subst, k)
<1>6. bytes \in Seq(Bytes)
    BY <1>2, SoFarGrows
<1>7. conv.out \o conv.chunk = bytes \o (IF mode = "wide" THEN <<"shift">> ELSE <<>>)
    <2> HIDE DEF mode, bytes
    <2>1. conv.chunk \o <<>> = conv.chunk /\ bytes \o <<>> = bytes
        BY <1>2, <1>6, ConcatEmptySeq
    <2>2. \/ mode = "narrow" /\ conv.out \o (conv.chunk \o <<>>) = bytes
          \/ mode = "wide" /\ conv.out \o conv.chunk = bytes \o <<"shift">>
        BY <1>1, <1>4 DEF Come, mode, bytes
    <2> QED BY <2>1, <2>2
<1>8. conv'.out = Encoding(conv'.src, conv'.subst)
    BY <1>2, <1>3, <1>5, <1>7, EncodingIs
<1> QED BY <1>3, <1>8 DEF WholeInv, ConvertsWhole

\* Any other step: no conversion is under way, or it is not touched.
LEMMA ApartWhole ==
    ASSUME IInv, IInv', WholeInv,
           \/ ~Converting' /\ (conv' = NoConversion \/ conv' = conv)
           \/ UNCHANGED conv /\ UNCHANGED call /\ stream'[conv.from] = stream[conv.from]
                /\ stream'[conv.to] = stream[conv.to]
    PROVE  WholeInv'
<1>1. ConvertsWhole'
    BY DEF WholeInv, ConvertsWhole, NoConversion
<1>2. CASE ~Converting'
    BY <1>1, <1>2 DEF WholeInv
<1>3. CASE UNCHANGED conv /\ UNCHANGED call /\ stream'[conv.from] = stream[conv.from]
                /\ stream'[conv.to] = stream[conv.to]
    BY <1>1, <1>3 DEF WholeInv, Halfway, Come, Into, Converting
<1> QED BY <1>2, <1>3

\* The collector takes no converter that a conversion uses.
LEMMA HandleStepWhole ==
    ASSUME IInv, IInv', WholeInv, HandleStep, StreamsFollow PROVE WholeInv'
<1>1. CASE Converting'
    <2>1. call = "convert" /\ call' = "convert"
        BY <1>1 DEF Converting, HandleStep, Allocate, Initialize, ParseDate, OpenBundle,
            Collect, CloneCalendar, ParseDateNoFormatter, NoCall, Raises, Idle
    <2>2. conv' = conv
        BY <2>1 DEF StreamsFollow
    <2>3. conv.from \in Owned /\ conv.to \in Owned /\ conv.from \in Handles /\ conv.to \in Handles
        BY <2>1, WhileConverting DEF Converting
    <2>4. conv.from \in Owned' /\ conv.to \in Owned'
        BY <1>1, <2>2 DEF IInv, HeldIsOpen, TypeOK, Owned
    <2>5. stream'[conv.from] = stream[conv.from] /\ stream'[conv.to] = stream[conv.to]
        BY <2>3, <2>4 DEF StreamsFollow
    <2> QED BY <2>1, <2>2, <2>5, ApartWhole
<1>2. CASE ~Converting'
    BY <1>2, ApartWhole DEF StreamsFollow
<1> QED BY <1>1, <1>2

\* No conversion is under way while a resource is read.
LEMMA ReadStepWhole ==
    ASSUME IInv, IInv', WholeInv, ReadStep, StreamsFollow PROVE WholeInv'
<1>1. call' \in {"none", "raised", "read"}
    BY DEF ReadStep, ArefBegin, ListBegin, Read, NextName, NextElement, MissingInArray,
        MissingInTable, Return, ConversionRaises, Unwinds, Raises, Going, Reading, handleVars
<1>2. ~Converting'
    BY <1>1 DEF Converting
<1> QED BY <1>2, ApartWhole DEF StreamsFollow

\* Every step of the converters.
LEMMA ConverterStepWhole ==
    ASSUME IInv, IInv', WholeInv, ConverterStep PROVE WholeInv'
<1>1. ASSUME NEW o \in Objects,
             \/ ResetStream(o) \/ FromUnicode(o) \/ ToUnicode(o)
             \/ \E bytes \in Substs : SetSubstChars(o, bytes)
      PROVE  WholeInv'
    <2>1. ~Converting' /\ conv' = NoConversion
        BY <1>1 DEF ResetStream, FromUnicode, ToUnicode, SetSubstChars, OnlyStreams, NoCall,
            Idle, Converting
    <2> QED BY <2>1, ApartWhole
<1>2. ASSUME NEW o \in Objects, NEW p \in Objects, NEW s \in Sources, ConvertBegin(o, p, s)
      PROVE  WholeInv'
    BY <1>2, BeginsWhole
<1>3. CASE Convert
    BY <1>3, FillsWhole, WritesLeftWhole, WritesNextWhole, ShiftsBackWhole, OverflowsWhole,
       ReturnsWhole DEF Convert
<1>4. CASE ConvertFails
    <2>1. ~Converting' /\ conv' = NoConversion
        BY <1>4 DEF ConvertFails, Raises, Converting
    <2> QED BY <2>1, ApartWhole
<1> QED BY <1>1, <1>2, <1>3, <1>4 DEF ConverterStep

\* Every step.
LEMMA WholeKept == ASSUME IInv, IInv', WholeInv, [Next]_vars PROVE WholeInv'
<1>1. CASE UNCHANGED vars
    BY <1>1, ApartWhole DEF vars, handleVars, converterVars
<1> QED BY <1>1, HandleStepWhole, ReadStepWhole, ConverterStepWhole DEF Next

\* Nothing is being converted.
LEMMA InitWhole == Init => WholeInv
BY DEF Init, HandlesInit, ConverterInit, WholeInv, Converting, ConvertsWhole, NoConversion

\* What convert returns is the encoding of its argument, whole and in order, wherever
\* the buffer of 1024 bytes was full, if the converter it is called of is the one it is
\* given, and if conversions before have failed (icu4r_cnv_convert).
THEOREM AlwaysConvertsWhole == Spec => []ConvertsWhole
<1>1. IInv /\ IInv' /\ WholeInv /\ [Next]_vars => WholeInv'
    BY WholeKept
<1>2. WholeInv => ConvertsWhole
    BY DEF WholeInv
<1> QED BY <1>1, <1>2, InitWhole, Invariant, PTL DEF Spec
=============================================================================
