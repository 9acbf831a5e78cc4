-------------------------- MODULE UResourceBundle --------------------------
(***************************************************************************)
(* UResourceBundle#[]: a resource is read into Ruby values, tables and     *)
(* arrays by recursion, with a handle for every element.  The stack is the *)
(* C stack: the call of icu_bundle_read for each resource that is being    *)
(* read.  The lists of names and of time zones, one handle and a loop, are *)
(* here too.                                                               *)
(*                                                                         *)
(* icu_bundle_read has one status for all of its calls of ICU and never    *)
(* looks at it: when one has failed, the ones after it do nothing.         *)
(***************************************************************************)
EXTENDS IcuHandles

CONSTANTS
    MaxSize,        \* bound: elements of a table or an array, names in a list
    MaxNesting      \* bound: resources inside one another

ASSUME ReadBoundsAssumption == MaxSize \in Nat /\ MaxNesting \in Nat

VARIABLE stack      \* the resources being read, the innermost last

-----------------------------------------------------------------------------
\* element says what the resource is an element of, got what has been stored for
\* the elements of its own.
Resource(h, type, element, size) ==
    [h |-> h, type |-> type, element |-> element, size |-> size, got |-> <<>>,
     failed |-> FALSE]

Resources == [h : Handles, type : {"simple", "table", "array", "list"},
              element : {"bundle", "call", "table", "array"}, size : 0 .. MaxSize,
              got : Seq({"value", "nil"}), failed : BOOLEAN]

InUse == {stack[i].h : i \in DOMAIN stack}

Reading == call = "read"

Depth == Len(stack)

Innermost == stack[Depth]

Going == Reading /\ Len(Innermost.got) < Innermost.size

ReadInit == stack = <<>>

Push(element) ==
    \E type \in {"simple", "table", "array"}, size \in 0 .. MaxSize :
        /\ type = "simple" => size = 0
        /\ Depth + 1 = MaxNesting => type = "simple"
        /\ open' = open \cup {NewHandle}
        /\ stack' = Append(stack, Resource(NewHandle, type, element, size))

\* bundle[key]; a key that is missing is no step.
ArefBegin(o) ==
    /\ Idle /\ class[o] = "bundle" /\ ~Exhausted
    /\ call' = "read" /\ users' = {o}
    /\ Push("bundle")
    /\ UNCHANGED <<class, ptr>>

\* UConverter.std_names and all_names, UCalendar.time_zones and tz_for_country.
ListBegin ==
    /\ Idle /\ ~Exhausted
    /\ call' = "read" /\ users' = {}
    /\ open' = open \cup {NewHandle}
    /\ \E size \in 0 .. MaxSize :
          stack' = Append(stack, Resource(NewHandle, "list", "call", size))
    /\ UNCHANGED <<class, ptr>>

Store(x) == [stack EXCEPT ![Depth].got = Append(@, x)]

NextName ==
    /\ Going /\ Innermost.type = "list"
    /\ stack' = Store("value")
    /\ UNCHANGED handleVars

NextElement ==
    /\ Going /\ Innermost.type \in {"table", "array"}
    /\ ~Innermost.failed /\ ~Exhausted
    /\ Push(Innermost.type)
    /\ UNCHANGED <<class, ptr, call, users>>

\* An element of an array that cannot be read, and all the ones after it, are nil.
MissingInArray ==
    /\ Going /\ Innermost.type = "array"
    /\ stack' = [Store("nil") EXCEPT ![Depth].failed = TRUE]
    /\ UNCHANGED handleVars

\* Mutant: the exception is rescued, and the call goes on with nothing to read.
Unwinds_GoesOn ==
    /\ stack' = <<>>
    /\ UNCHANGED handleVars

\* What is open when a call raises stays open.
Unwinds ==
    /\ stack' = <<>> /\ Raises
    /\ UNCHANGED <<class, ptr, open>>

\* Mutant: a table stores nil too.
MissingInTable_StoresNil ==
    /\ Going /\ Innermost.type = "table"
    /\ stack' = Store("nil")
    /\ UNCHANGED handleVars

\* In a table it has no key, and rb_str_new2 raises.
MissingInTable ==
    /\ Going /\ Innermost.type = "table"
    /\ Unwinds

\* A value cannot be made: there is no memory.  When all has been read, that is the
\* name of the locale, if it was asked for.
ConversionRaises == Reading /\ Unwinds

\* Mutant: the resource that was asked for is not closed.
Closes_NotTheFirst(r) == r.element \notin {"array", "bundle"}

\* The handle of an element is closed by the loop over a table, and forgotten by
\* the one over an array.
Closes(r) == r.element # "array"

\* A resource has been read: what it is an element of stores it.  What the caller
\* asked for it gets, in a pair with the name of the locale if it wants that: making
\* the pair touches no handle but res, which is closed behind it.
Return ==
    LET outer == SubSeq(stack, 1, Depth - 1) IN
    /\ Reading /\ ~Going
    /\ open' = IF Closes(Innermost) THEN open \ {Innermost.h} ELSE open
    /\ IF Depth = 1
       THEN stack' = <<>> /\ call' = "none" /\ users' = {}
       ELSE /\ stack' = [outer EXCEPT ![Depth - 1].got = Append(@, "value")]
            /\ UNCHANGED <<call, users>>
    /\ UNCHANGED <<class, ptr>>

Read == NextName \/ NextElement \/ MissingInArray \/ MissingInTable \/ Return

ReadStep ==
    \/ \E o \in Objects : ArefBegin(o)
    \/ ListBegin \/ Read \/ ConversionRaises

-----------------------------------------------------------------------------
NilsAtTheEnd(r) ==
    /\ "nil" \in {r.got[j] : j \in DOMAIN r.got} => r.failed /\ r.type = "array"
    /\ \A j, k \in DOMAIN r.got : j < k /\ r.got[j] = "nil" => r.got[k] = "nil"
    /\ Len(r.got) <= r.size

\* An array is read from its start up to the first element that cannot be, and has
\* nil from there on, although later elements could be read; a table has no nil.
NilsFollowAFailure == \A i \in DOMAIN stack : NilsAtTheEnd(stack[i])
=============================================================================
