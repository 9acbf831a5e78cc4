----------------------------- MODULE UConverter -----------------------------
(***************************************************************************)
(* UConverter.  A converter keeps a state in each direction, which a       *)
(* conversion that failed leaves behind: half a character on the way in,   *)
(* a shift and bytes that had no room on the way out.  convert takes two   *)
(* converters, resets both, and works through a pivot and a buffer of      *)
(* fixed sizes, one ucnv_convertEx after the other, until nothing is left. *)
(*                                                                         *)
(* The encoding stands for a stateful one like ISO-2022: narrow and wide   *)
(* characters, a byte to shift to either, back to narrow at the end; a     *)
(* character it does not have is replaced by the substitution bytes.       *)
(***************************************************************************)
EXTENDS IcuHandles, SequencesExt

CONSTANTS
    Sources,    \* texts: sequences of "narrow", "wide" and "alien" characters
    Substs,     \* substitution bytes that may be set
    BufSize     \* bytes in the buffer, and units in the pivot: 1024

Characters == {"narrow", "wide", "alien"}

\* What is in an encoded text.
Bytes == {"narrow", "wide", "shift", "left", "?", "!"}

ASSUME ConversionAssumption ==
    /\ BufSize \in Nat \ {0}
    /\ Sources \subseteq Seq(Characters)
    /\ Substs \subseteq Seq(Bytes)

VARIABLES
    stream,     \* per handle: the states of a converter, and its substitution bytes
    conv        \* the conversion that is under way, or was last

converterVars == <<stream, conv>>

-----------------------------------------------------------------------------
Streams == [to : {"initial", "midway"}, mode : {"narrow", "wide"},
            over : Seq(Bytes), subst : Seq(Bytes)]

Fresh == [to |-> "initial", mode |-> "narrow", over |-> <<>>, subst |-> <<"?">>]

NoConversion == [from |-> NoHandle, to |-> NoHandle, src |-> <<>>, rest |-> <<>>,
                 pivot |-> <<>>, chunk |-> <<>>, out |-> <<>>, subst |-> <<>>,
                 end |-> "none"]

Conversions == [from : Handles \cup {NoHandle}, to : Handles \cup {NoHandle},
                src : Seq(Characters), rest : Seq(Characters), pivot : Seq(Characters),
                chunk : Seq(Bytes), out : Seq(Bytes), subst : Seq(Bytes),
                end : {"none", "text"}]

ConverterInit == stream = [h \in Handles |-> Fresh] /\ conv = NoConversion

\* What is opened has no history, and of what nobody holds it does not matter.  A
\* conversion that has ended is forgotten.
StreamsFollow ==
    /\ stream' = [h \in Handles |-> IF h \in Owned /\ h \in Owned' THEN stream[h] ELSE Fresh]
    /\ conv' = IF call = "convert" THEN conv ELSE NoConversion

OnlyStreams == NoCall /\ UNCHANGED <<class, ptr, open>> /\ conv' = NoConversion

Converter(o) == class[o] = "converter" /\ ptr[o] # NoHandle

ResetTo(s) == [s EXCEPT !.to = "initial"]

ResetFrom(s) == [s EXCEPT !.mode = "narrow", !.over = <<>>]

Reset(s) == ResetFrom(ResetTo(s))

ResetStream(o) ==
    /\ Idle /\ Converter(o)
    /\ stream' = [stream EXCEPT ![ptr[o]] = Reset(@)]
    /\ OnlyStreams

SetSubstChars(o, bytes) ==
    /\ Idle /\ Converter(o)
    /\ stream' = [stream EXCEPT ![ptr[o]].subst = bytes]
    /\ OnlyStreams

\* from_u and to_u: ICU resets the one direction first, and is back at the start
\* unless the conversion failed.
FromUnicode(o) ==
    /\ Idle /\ Converter(o)
    /\ \/ stream' = [stream EXCEPT ![ptr[o]] = ResetFrom(@)]
       \/ stream' = [stream EXCEPT ![ptr[o]].mode = "wide", ![ptr[o]].over = <<"left">>]
    /\ OnlyStreams

ToUnicode(o) ==
    /\ Idle /\ Converter(o)
    /\ \E to \in {"initial", "midway"} : stream' = [stream EXCEPT ![ptr[o]].to = to]
    /\ OnlyStreams

-----------------------------------------------------------------------------
Into == stream[conv.to]

\* A character's bytes, and the mode they leave.
Encoded(c, mode, subst) ==
    CASE c = "alien" -> subst
      [] c = mode -> <<c>>
      [] c # "alien" /\ c # mode -> <<"shift", c>>

ModeAfter(c, mode) == IF c = "alien" THEN mode ELSE c

\* Mutant: only the converter convert is called of is reset.
BothReset_SelfOnly(from, to) == [stream EXCEPT ![from] = Reset(@)]

BothReset(from, to) ==
    [h \in Handles |-> IF h \in {from, to} THEN Reset(stream[h]) ELSE stream[h]]

\* convert: the two may be the same.
ConvertBegin(o, p, s) ==
    /\ Idle /\ Converter(o) /\ Converter(p)
    /\ call' = "convert" /\ users' = {o, p}
    /\ stream' = BothReset(ptr[o], ptr[p])
    /\ conv' = [NoConversion EXCEPT !.from = ptr[o], !.to = ptr[p], !.src = s,
                                    !.rest = s, !.subst = stream[ptr[p]].subst]
    /\ UNCHANGED <<class, ptr, open>>

Converting == call = "convert"

\* Mutant: status is set once, before the loop: after an overflow ICU does nothing.
Room_StatusStays == IF conv.out = <<>> THEN BufSize - Len(conv.chunk) ELSE 0

Room == BufSize - Len(conv.chunk)

\* Into the pivot; half a character left from earlier spoils the first.
FillPivot ==
    LET n == IF Len(conv.rest) < BufSize THEN Len(conv.rest) ELSE BufSize
        read == SubSeq(conv.rest, 1, n)
    IN
    /\ Converting
    /\ conv.pivot = <<>> /\ conv.rest # <<>>
    /\ conv' = [conv EXCEPT
          !.pivot = IF stream[conv.from].to = "midway" THEN <<"alien">> \o Tail(read) ELSE read,
          !.rest = SubSeq(conv.rest, n + 1, Len(conv.rest))]
    /\ stream' = [stream EXCEPT ![conv.from].to = "initial"]
    /\ UNCHANGED handleVars

\* Bytes into the buffer; what has no room waits in the converter.
Emit(bytes) ==
    LET n == IF Len(bytes) < Room THEN Len(bytes) ELSE Room IN
    [put |-> conv.chunk \o SubSeq(bytes, 1, n), left |-> SubSeq(bytes, n + 1, Len(bytes))]

WriteLeft ==
    LET e == Emit(Into.over) IN
    /\ Converting /\ Into.over # <<>> /\ Room > 0
    /\ conv' = [conv EXCEPT !.chunk = e.put]
    /\ stream' = [stream EXCEPT ![conv.to].over = e.left]
    /\ UNCHANGED handleVars

WriteNext ==
    LET c == Head(conv.pivot)
        e == Emit(Encoded(c, Into.mode, Into.subst))
    IN
    /\ Converting /\ Into.over = <<>> /\ Room > 0
    /\ conv.pivot # <<>>
    /\ conv' = [conv EXCEPT !.chunk = e.put, !.pivot = Tail(@)]
    /\ stream' = [stream EXCEPT ![conv.to].over = e.left,
                                ![conv.to].mode = ModeAfter(c, @)]
    /\ UNCHANGED handleVars

AllRead == conv.pivot = <<>> /\ conv.rest = <<>>

\* The last call flushes: back to the narrow mode.
WriteShiftBack ==
    /\ Converting /\ AllRead /\ Into.over = <<>> /\ Into.mode = "wide" /\ Room > 0
    /\ conv' = [conv EXCEPT !.chunk = Append(@, "shift")]
    /\ stream' = [stream EXCEPT ![conv.to].mode = "narrow"]
    /\ UNCHANGED handleVars

AllWritten == AllRead /\ Into.over = <<>> /\ Into.mode = "narrow"

\* Appended to the string; the buffer is used again, the pivot goes on.
NextChunk == [conv EXCEPT !.out = @ \o conv.chunk, !.chunk = <<>>]

ConvertOverflows ==
    /\ Converting /\ Room = 0 /\ ~AllWritten
    /\ conv' = NextChunk
    /\ UNCHANGED <<handleVars, stream>>

ConvertReturns ==
    /\ Converting /\ AllWritten
    /\ conv' = [NextChunk EXCEPT !.end = "text"]
    /\ call' = "none" /\ users' = {}
    /\ UNCHANGED <<class, ptr, open, stream>>

\* Any other failure raises, and leaves both converters as they are.
ConvertFails ==
    /\ Converting
    /\ \E to \in {"initial", "midway"} : stream' = [stream EXCEPT ![conv.from].to = to]
    /\ conv' = NoConversion
    /\ Raises
    /\ UNCHANGED <<class, ptr, open>>

Convert ==
    \/ FillPivot \/ WriteLeft \/ WriteNext \/ WriteShiftBack \/ ConvertOverflows
    \/ ConvertReturns

ConverterStep ==
    \/ \E o \in Objects : ResetStream(o) \/ FromUnicode(o) \/ ToUnicode(o)
    \/ \E o \in Objects, bytes \in Substs : SetSubstChars(o, bytes)
    \/ \E o, p \in Objects, s \in Sources : ConvertBegin(o, p, s)
    \/ Convert \/ ConvertFails

-----------------------------------------------------------------------------
\* The bytes of a whole text, from a converter in its initial state.
Encoding(text, subst) ==
    LET mode[i \in 0 .. Len(text)] ==
            IF i = 0 THEN "narrow" ELSE ModeAfter(text[i], mode[i - 1])
        last == mode[Len(text)]
    IN  FlattenSeq([i \in 1 .. Len(text) |-> Encoded(text[i], mode[i - 1], subst)])
            \o (IF last = "wide" THEN <<"shift">> ELSE <<>>)

\* What convert returns is the encoding of its argument, whole and in order, and
\* whatever became of conversions before: wherever the buffer was full, if the two
\* converters are one, and if the ones before have failed.
ConvertsWhole == conv.end = "text" => conv.out = Encoding(conv.src, conv.subst)
=============================================================================
