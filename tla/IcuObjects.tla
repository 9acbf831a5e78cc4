----------------------------- MODULE IcuObjects -----------------------------
(***************************************************************************)
(* The objects with native handles, the conversions and the reading of     *)
(* resources put together.  One call is under way at a time; what it       *)
(* opens, loses or leaves in a converter, the next ones meet.              *)
(***************************************************************************)
EXTENDS UConverter, UResourceBundle

vars == <<handleVars, converterVars, stack>>

Init == HandlesInit /\ ConverterInit /\ ReadInit

Proceed ==
    \/ Convert /\ UNCHANGED stack
    \/ Read /\ StreamsFollow

Next ==
    \/ HandleStep /\ StreamsFollow /\ UNCHANGED stack
    \/ ConverterStep /\ UNCHANGED stack
    \/ ReadStep /\ StreamsFollow

\* A C function that has begun runs on.
Spec == Init /\ [][Next]_vars /\ WF_vars(Proceed)

-----------------------------------------------------------------------------
\* Types of the variables.
TypeOK ==
    /\ class \in [Objects -> Classes \cup {"none"}]
    /\ ptr \in [Objects -> Handles \cup {NoHandle}]
    /\ \A o \in Objects : Unborn(o) => ptr[o] = NoHandle
    /\ open \subseteq Handles
    /\ call \in {"none", "raised", "convert", "read"}
    /\ users \subseteq Objects
    /\ Idle => users = {}
    /\ stack \in Seq(Resources) /\ (stack # <<>> <=> Reading)
    /\ stream \in [Handles -> Streams] /\ \A h \in Handles \ Owned : stream[h] = Fresh
    /\ conv \in Conversions /\ Len(conv.chunk) <= BufSize

\* Nothing that an object or a running call holds has been closed, and so nothing
\* is closed twice: not by initialize, a copy, a call that fails or the collector.
HeldIsOpen ==
    /\ Owned \cup InUse \subseteq open
    /\ Converting => {conv.from, conv.to} \subseteq {ptr[o] : o \in users} \ {NoHandle}

\* A handle is held once: by one object, or by one call of icu_bundle_read.
HeldOnce ==
    /\ \A o, p \in Objects : o # p /\ ptr[o] # NoHandle => ptr[o] # ptr[p]
    /\ \A i, j \in DOMAIN stack : i # j => stack[i].h # stack[j].h
    /\ Owned \cap InUse = {}

Lost == open \ (Owned \cup InUse)

\* initialize called of an object that has a handle.
Overwrites(h) == \E o \in Objects : ptr[o] = h /\ class'[o] = class[o] /\ ptr'[o] # h

\* A handle gets out of reach in three ways only: it was overwritten by a second
\* initialize; it was opened for an element of an array; or the call that had opened
\* it raised, in the reading of a resource or for the pattern of a date.
LossIsKnown ==
    \A h \in Lost' \ Lost :
        \/ Overwrites(h)
        \/ Reading /\ h = Innermost.h /\ Innermost.element = "array"
        \/ call' = "raised" /\ (IF Reading THEN h \in InUse ELSE h \notin open)

LosesOnlyKnown == [][LossIsKnown]_vars

\* A conversion and the reading of a resource end.
EveryCallEnds == ~Idle ~> Idle
=============================================================================
