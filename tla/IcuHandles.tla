----------------------------- MODULE IcuHandles -----------------------------
(***************************************************************************)
(* Ruby objects that own a native ICU handle: UConverter, UCollator,       *)
(* UCalendar and UResourceBundle (URegexp, whose handle changes hands, is  *)
(* in UStringIteration).  An object is a pointer, NULL until initialize    *)
(* has opened something, and a function that the garbage collector calls   *)
(* to close it.  Nothing counts references: whatever is opened has to be   *)
(* owned by one object, or closed by the function that opened it.          *)
(*                                                                         *)
(* A C function runs alone, but the collector may run inside one that      *)
(* makes Ruby objects.  A call that raises before it has changed anything  *)
(* is no step.                                                             *)
(***************************************************************************)
EXTENDS Integers, Sequences

CONSTANTS
    Objects,    \* Ruby objects of the four classes
    Handles,    \* addresses of what ICU opens; with none left, opening fails
    NoHandle    \* NULL

ASSUME HandlesAssumption == NoHandle \notin Handles

VARIABLES
    class,      \* what an object is, "none" if there is no such object
    ptr,        \* its DATA_PTR
    open,       \* handles that have been opened and not closed
    call,       \* what kind of call is under way, or that the last one raised
    users       \* objects on its C stack

handleVars == <<class, ptr, open, call, users>>

-----------------------------------------------------------------------------
Allocated == {"converter", "collator", "calendar"}

Classes == Allocated \cup {"bundle"}

Owned == {ptr[o] : o \in Objects} \ {NoHandle}

Exhausted == Handles \subseteq open

\* Which address it is does not matter.
NewHandle == CHOOSE h \in Handles \ open : TRUE

Idle == call \in {"none", "raised"}

Unborn(o) == class[o] = "none"

Wrap(o, c, h) ==
    /\ class' = [class EXCEPT ![o] = c]
    /\ ptr' = [ptr EXCEPT ![o] = h]

\* A call that is over in one step.
NoCall == call' = (IF Idle THEN "none" ELSE call) /\ UNCHANGED users

Raises == call' = "raised" /\ users' = {}

HandlesInit ==
    /\ class = [o \in Objects |-> "none"]
    /\ ptr = [o \in Objects |-> NoHandle]
    /\ open = {} /\ call = "none" /\ users = {}

\* allocate, the first half of new; dup, and but for calendars clone, come to the
\* same: there is no initialize_copy.
Allocate(o, c) ==
    /\ Idle /\ Unborn(o)
    /\ Wrap(o, c, NoHandle)
    /\ NoCall /\ UNCHANGED open

\* Mutant: the old handle is closed first, and kept if the new one cannot be opened.
Initialize_ClosesFirst(o) ==
    /\ Idle /\ class[o] \in Allocated
    /\ \/ /\ ~Exhausted
          /\ ptr' = [ptr EXCEPT ![o] = NewHandle]
          /\ open' = (open \ {ptr[o]}) \cup {NewHandle}
       \/ open' = open \ {ptr[o]} /\ UNCHANGED ptr
    /\ NoCall /\ UNCHANGED class

\* initialize.  Called once more, it overwrites the pointer.
Initialize(o) ==
    /\ Idle /\ class[o] \in Allocated
    /\ ~Exhausted
    /\ ptr' = [ptr EXCEPT ![o] = NewHandle]
    /\ open' = open \cup {NewHandle}
    /\ NoCall /\ UNCHANGED class

\* Mutant: the copy gets the handle of the original.
CloneCalendar_Shares(o, p) ==
    /\ Idle /\ class[o] = "calendar" /\ ptr[o] # NoHandle
    /\ Unborn(p) /\ ~Exhausted
    /\ Wrap(p, "calendar", ptr[o])
    /\ NoCall /\ UNCHANGED open

\* UCalendar#clone.
CloneCalendar(o, p) ==
    /\ Idle /\ class[o] = "calendar" /\ ptr[o] # NoHandle
    /\ Unborn(p) /\ ~Exhausted
    /\ Wrap(p, "calendar", NewHandle)
    /\ open' = open \cup {NewHandle}
    /\ NoCall

\* UCalendar.parse opens a calendar before it looks at pattern and text.  If the
\* text does not fit the pattern, the calendar is closed.
ParseDate(p) ==
    /\ Idle /\ Unborn(p) /\ ~Exhausted
    /\ Wrap(p, "calendar", NewHandle)
    /\ open' = open \cup {NewHandle}
    /\ NoCall

\* If there is no formatter for the pattern, it is not.
ParseDateNoFormatter ==
    /\ Idle /\ ~Exhausted
    /\ open' = open \cup {NewHandle}
    /\ Raises /\ UNCHANGED <<class, ptr>>

\* UResourceBundle.open and open_direct.
OpenBundle(p) ==
    /\ Idle /\ Unborn(p) /\ ~Exhausted
    /\ Wrap(p, "bundle", NewHandle)
    /\ open' = open \cup {NewHandle}
    /\ NoCall

\* The collector, at any time, for an object that no call uses.
Collect(o) ==
    /\ ~Unborn(o) /\ o \notin users
    /\ Wrap(o, "none", NoHandle)
    /\ open' = open \ {ptr[o]}
    /\ NoCall

HandleStep ==
    \/ \E o \in Objects, c \in Allocated : Allocate(o, c)
    \/ \E o \in Objects : Initialize(o) \/ ParseDate(o) \/ OpenBundle(o) \/ Collect(o)
    \/ \E o, p \in Objects : CloneCalendar(o, p)
    \/ ParseDateNoFormatter
=============================================================================
