----------------------- MODULE UStringIterationProofs -----------------------
(***************************************************************************)
(* Proofs about UStringIteration for any number of strings, URegexps,      *)
(* threads and nested walks, as long as the 8-bit counter of a string does *)
(* not come round.                                                         *)
(***************************************************************************)
EXTENDS UStringIteration, FiniteSetTheorems, TLAPS

\* The shape of a frame's fourth field follows from its kind.
WellFormed(f) ==
    /\ f \in Frames
    /\ IF IsGsub(f) THEN f.pat \in Handles ELSE f.pat \in Regexps \cup {NoPattern}

NewSlot(t) == <<t, depth[t] + 1>>

\* TypeOK in two parts: the iterators, and the objects they work on.
StackOK ==
    /\ busy \in [Strings -> 0 .. BusyMod - 1]
    /\ depth \in [Threads -> 0 .. MaxDepth]
    /\ frame \in [Slots -> Frames \cup {NoFrame}]
    /\ Occupied = {p \in Slots : p[2] <= depth[p[1]]}
    /\ \A p \in Occupied : WellFormed(frame[p])
    /\ abandoned \in [Strings -> Nat]

ObjectsOK ==
    /\ frozen \in [Strings -> BOOLEAN]
    /\ buffer \in [Strings -> Buffers]
    /\ matcher \in [Regexps -> Handles \cup {NoHandle}]
    /\ target \in [Handles -> Targets]

-----------------------------------------------------------------------------
\* A push fills an empty slot of its thread and leaves the others alone.
LEMMA PushFills ==
    ASSUME TypeOK, NEW t \in Threads, NEW f, WellFormed(f), Push(t, f)
    PROVE  /\ NewSlot(t) \in Slots \ Occupied
           /\ depth' \in [Threads -> 0 .. MaxDepth]
           /\ frame' \in [Slots -> Frames \cup {NoFrame}]
           /\ frame'[NewSlot(t)] = f
           /\ \A p \in Slots : p # NewSlot(t) => frame'[p] = frame[p]
           /\ Occupied' = Occupied \cup {NewSlot(t)}
           /\ Occupied' = {p \in Slots : p[2] <= depth'[p[1]]}
<1> USE BoundsAssumption DEF Slots
<1>1. depth[t] \in 0 .. MaxDepth /\ depth[t] < MaxDepth
  BY DEF TypeOK, Push
<1>2. NewSlot(t) \in Slots
  BY <1>1 DEF NewSlot
<1>3. NewSlot(t) \notin Occupied
  BY <1>1, <1>2 DEF NewSlot, TypeOK
<1>4. depth' \in [Threads -> 0 .. MaxDepth]
  BY <1>1 DEF TypeOK, Push
<1>5. frame' = [frame EXCEPT ![NewSlot(t)] = f]
  BY DEF Push, NewSlot
<1>6. frame' \in [Slots -> Frames \cup {NoFrame}]
  BY <1>5, <1>2 DEF TypeOK, WellFormed
<1>7. frame'[NewSlot(t)] = f /\ \A p \in Slots : p # NewSlot(t) => frame'[p] = frame[p]
  BY <1>5, <1>2 DEF TypeOK
<1>8. f # NoFrame
  BY SentinelAssumption DEF WellFormed, Frames, Kinds, InPlace, Buffers
<1>9. Occupied' = Occupied \cup {NewSlot(t)}
  BY <1>7, <1>8, <1>2 DEF Occupied
<1>10. \A p \in Slots : p[2] <= depth'[p[1]] <=> p[2] <= depth[p[1]] \/ p = NewSlot(t)
  BY <1>1, SMTT(40) DEF NewSlot, Push, TypeOK
<1>11. Occupied' = {p \in Slots : p[2] <= depth'[p[1]]}
  BY <1>9, <1>10, <1>2 DEF TypeOK
<1> QED
  BY <1>2, <1>3, <1>4, <1>6, <1>7, <1>9, <1>11

\* A pop empties the top slot of its thread and leaves the others alone.
LEMMA PopEmpties ==
    ASSUME TypeOK, NEW t \in Threads, depth[t] > 0, Pop(t)
    PROVE  /\ Top(t) \in Occupied
           /\ depth' \in [Threads -> 0 .. MaxDepth]
           /\ frame' \in [Slots -> Frames \cup {NoFrame}]
           /\ \A p \in Slots : p # Top(t) => frame'[p] = frame[p]
           /\ Occupied' = Occupied \ {Top(t)}
           /\ Occupied' = {p \in Slots : p[2] <= depth'[p[1]]}
<1> USE BoundsAssumption DEF Slots
<1>1. depth[t] \in 1 .. MaxDepth
  BY DEF TypeOK
<1>2. Top(t) \in Slots
  BY <1>1 DEF Top
<1>3. Top(t) \in Occupied
  BY <1>1, <1>2 DEF Top, TypeOK
<1>4. depth' \in [Threads -> 0 .. MaxDepth]
  BY <1>1 DEF TypeOK, Pop
<1>5. frame' = [frame EXCEPT ![Top(t)] = NoFrame]
  BY DEF Pop
<1>6. frame' \in [Slots -> Frames \cup {NoFrame}]
  BY <1>5, <1>2 DEF TypeOK
<1>7. frame'[Top(t)] = NoFrame /\ \A p \in Slots : p # Top(t) => frame'[p] = frame[p]
  BY <1>5, <1>2 DEF TypeOK
<1>8. Occupied' = Occupied \ {Top(t)}
  BY <1>7, <1>2 DEF Occupied
<1>9. \A p \in Slots : p[2] <= depth'[p[1]] <=> p[2] <= depth[p[1]] /\ p # Top(t)
  BY <1>1 DEF Top, Pop, TypeOK
<1>10. Occupied' = {p \in Slots : p[2] <= depth'[p[1]]}
  BY <1>8, <1>9 DEF TypeOK
<1> QED
  BY <1>3, <1>4, <1>6, <1>7, <1>8, <1>10

-----------------------------------------------------------------------------
\* The type invariant, split into what concerns the stacks and what the objects.
LEMMA TypeParts == TypeOK <=> StackOK /\ ObjectsOK
<1>1. frame \in [Slots -> Frames \cup {NoFrame}] => \A p \in Occupied : frame[p] \in Frames
  BY DEF Occupied
<1> QED
  BY <1>1 DEF TypeOK, StackOK, ObjectsOK, WellFormed

\* The busy field stays in its width.
LEMMA IncDec ==
    ASSUME NEW b \in 0 .. BusyMod - 1
    PROVE  Inc(b) \in 0 .. BusyMod - 1 /\ Dec(b) \in 0 .. BusyMod - 1
BY BoundsAssumption DEF Inc, Dec

\* A frame on the top of its thread's stack is well-formed.
LEMMA TopFrame ==
    ASSUME TypeOK, NEW t \in Threads, depth[t] > 0
    PROVE  Top(t) \in Occupied /\ WellFormed(frame[Top(t)])
<1>1. depth[t] \in 1 .. MaxDepth
  BY BoundsAssumption DEF TypeOK
<1>2. Top(t) \in Slots
  BY <1>1, BoundsAssumption DEF Top, Slots
<1>3. Top(t) \in Occupied
  BY <1>1, <1>2 DEF Top, TypeOK
<1> QED
  BY <1>3, TypeParts DEF StackOK

\* A walk that starts.
LEMMA PushKeepsStack ==
    ASSUME TypeOK, NEW t \in Threads, NEW f, WellFormed(f), Push(t, f)
    PROVE  StackOK'
<1>1. f.str \in Strings
  BY DEF WellFormed, Frames
<1>2. busy' \in [Strings -> 0 .. BusyMod - 1]
  BY <1>1, IncDec DEF Push, TypeOK
<1>3. abandoned' \in [Strings -> Nat]
  BY DEF Push, TypeOK
<1>4. \A p \in Occupied' : WellFormed(frame'[p])
  BY PushFills, TypeParts DEF StackOK, Occupied
<1> QED
  BY <1>2, <1>3, <1>4, PushFills DEF StackOK, WellFormed, Slots

\* A walk that ends, whatever becomes of its busy count.
LEMMA PopKeepsStack ==
    ASSUME TypeOK, NEW t \in Threads, depth[t] > 0, Pop(t),
           busy' \in [Strings -> 0 .. BusyMod - 1], abandoned' \in [Strings -> Nat]
    PROVE  StackOK'
<1>1. \A p \in Occupied' : WellFormed(frame'[p])
  BY PopEmpties, TypeParts DEF StackOK, Occupied
<1> QED
  BY <1>1, PopEmpties DEF StackOK, WellFormed, Slots

\* A walk that ends in the way the code provides for.
LEMMA ReleaseKeepsStack ==
    ASSUME TypeOK, NEW t \in Threads, depth[t] > 0, Release(t)
    PROVE  StackOK'
<1>1. frame[Top(t)].str \in Strings
  BY TopFrame DEF WellFormed, Frames
<1>2. busy' \in [Strings -> 0 .. BusyMod - 1]
  BY <1>1, IncDec DEF Release, TypeOK
<1>3. abandoned' \in [Strings -> Nat] /\ Pop(t)
  BY DEF Release, TypeOK
<1> QED
  BY <1>2, <1>3, PopKeepsStack

\* Leaving through the block counts the walk as abandoned.
LEMMA LeaveKeepsStack ==
    ASSUME TypeOK, NEW t \in Threads, depth[t] > 0, Pop(t), UNCHANGED busy,
           abandoned' = [abandoned EXCEPT ![frame[Top(t)].str] = @ + 1]
    PROVE  StackOK'
<1>1. frame[Top(t)].str \in Strings
  BY TopFrame DEF WellFormed, Frames
<1>2. abandoned' \in [Strings -> Nat]
  BY <1>1 DEF TypeOK
<1>3. busy' \in [Strings -> 0 .. BusyMod - 1]
  BY DEF TypeOK
<1> QED
  BY <1>2, <1>3, PopKeepsStack

\* A walk that takes its next step: only its own frame changes.
LEMMA YieldKeepsStack ==
    ASSUME TypeOK, NEW t \in Threads, depth[t] > 0, NEW f, WellFormed(f), Yield(t, f)
    PROVE  /\ StackOK'
           /\ Occupied' = Occupied
           /\ frame'[Top(t)] = f
           /\ \A p \in Slots : p # Top(t) => frame'[p] = frame[p]
<1>1. Top(t) \in Slots /\ Top(t) \in Occupied
  BY TopFrame DEF Occupied
<1>2. frame' = [frame EXCEPT ![Top(t)] = f] /\ UNCHANGED <<busy, depth, abandoned>>
  BY DEF Yield
<1>3. frame' \in [Slots -> Frames \cup {NoFrame}]
  BY <1>1, <1>2 DEF TypeOK, WellFormed
<1>4. frame'[Top(t)] = f /\ \A p \in Slots : p # Top(t) => frame'[p] = frame[p]
  BY <1>1, <1>2 DEF TypeOK
<1>5. f # NoFrame
  BY SentinelAssumption DEF WellFormed, Frames, Kinds, InPlace, Buffers
<1>6. Occupied' = Occupied
  BY <1>1, <1>4, <1>5 DEF Occupied
<1>7. \A p \in Occupied' : WellFormed(frame'[p])
  BY <1>4, <1>6, TypeParts DEF StackOK, Occupied
<1>8. busy' = busy /\ depth' = depth /\ abandoned' = abandoned
  BY <1>2
<1> QED
  BY <1>3, <1>4, <1>6, <1>7, <1>8 DEF TypeOK, StackOK, WellFormed, Slots

\* A walk that raises before its first element is counted as abandoned.
LEMMA RaiseKeepsStack ==
    ASSUME TypeOK, NEW s \in Strings, RaiseBusy(s)
    PROVE  StackOK'
<1>1. busy' \in [Strings -> 0 .. BusyMod - 1]
  BY IncDec DEF RaiseBusy, TypeOK
<1>2. abandoned' \in [Strings -> Nat] /\ UNCHANGED <<depth, frame>>
  BY DEF RaiseBusy, TypeOK
<1> QED
  BY <1>1, <1>2, TypeParts DEF StackOK, WellFormed, Occupied, Slots

-----------------------------------------------------------------------------
\* The URegexp of a search that does not raise has a matcher.
LEMMA UsableHandle ==
    ASSUME TypeOK, NEW pat \in Regexps, Usable(pat), pat # NoPattern
    PROVE  matcher[pat] \in Handles
BY DEF TypeOK, Usable

\* Opening or closing handles leaves the others as they are.
LEMMA WithoutType ==
    ASSUME TypeOK, NEW hs
    PROVE  /\ Without(hs) \in [Handles -> Targets]
           /\ \A h \in Handles : h \notin hs => Without(hs)[h] = target[h]
<1>1. NoText \in Targets
  BY DEF NoText, Targets
<1> QED
  BY <1>1 DEF TypeOK, Without

\* An in-place change leaves a buffer.
LEMMA StoreType ==
    ASSUME TypeOK, NEW s \in Strings, NEW x \in Texts, Store(s, x)
    PROVE  buffer' \in [Strings -> Buffers]
BY DEF TypeOK, Store, FreePtrs, Buffers

\* A search points a matcher at the text searched.
LEMMA SearchType ==
    ASSUME TypeOK, NEW s \in Strings, NEW pos \in Nat,
           NEW pat \in Regexps \cup {NoPattern}, Usable(pat), SearchWith(pat, s, pos)
    PROVE  target' \in [Handles -> Targets]
<1>1. CASE pat = NoPattern
  BY <1>1 DEF SearchWith, TypeOK
<1>2. CASE pat # NoPattern
  <2>1. matcher[pat] \in Handles /\ buffer[s] \in Buffers
    BY <1>2, UsableHandle DEF TypeOK
  <2>2. [buf |-> buffer[s], pos |-> pos] \in Targets
    BY <2>1 DEF Targets
  <2> QED
    BY <1>2, <2>1, <2>2 DEF SearchWith, Search, TypeOK
<1> QED
  BY <1>1, <1>2

\* A matcher that has been told of no text.
LEMMA NoTextType == NoText \in Targets
BY DEF NoText, Targets

\* A gsub that ends gives its handle back.
LEMMA DropType ==
    ASSUME TypeOK, NEW f, WellFormed(f), DropHandle(f)
    PROVE  target' \in [Handles -> Targets]
BY NoTextType DEF TypeOK, DropHandle, WellFormed

\* A cloned URegexp gets a handle nobody has.
LEMMA NewHandleFree ==
    ASSUME FreeHandles # {}
    PROVE  NewHandle \in FreeHandles /\ NewHandle \in Handles
BY DEF NewHandle, FreeHandles

\* The frames the iterators push are well-formed.
LEMMA FirstFrames ==
    ASSUME TypeOK, NEW s \in Strings, NEW pat \in Regexps \cup {NoPattern}
    PROVE  /\ WellFormed([kind |-> "each", str |-> s, seen |-> buffer[s], n |-> 1,
                          pat |-> NoPattern])
           /\ WellFormed([kind |-> "scan", str |-> s, seen |-> buffer[s], n |-> 1,
                          pat |-> pat])
           /\ Usable(pat) => \A kind \in {"gsub"} \cup InPlace, h \in Handles :
                /\ TakenOver(pat, h) \in Handles
                /\ WellFormed([kind |-> kind, str |-> s, seen |-> buffer[s], n |-> 1,
                               pat |-> TakenOver(pat, h)])
<1>1. buffer[s] \in Buffers
  BY DEF TypeOK
<1>2. Usable(pat) => \A h \in Handles : TakenOver(pat, h) \in Handles
  BY DEF TakenOver, TypeOK, Usable
<1> QED
  BY <1>1, <1>2 DEF WellFormed, Frames, IsGsub, Kinds, InPlace

\* Advancing a walk keeps its frame well-formed.
LEMMA NextFrame ==
    ASSUME NEW f, WellFormed(f), NEW b \in Buffers
    PROVE  /\ WellFormed([f EXCEPT !.n = @ + 1])
           /\ WellFormed([f EXCEPT !.n = @ + 1, !.seen = b])
<1>1. f \in Frames /\ f.n + 1 \in Nat
  BY DEF WellFormed, Frames
<1>2. [f EXCEPT !.n = @ + 1] \in Frames
  BY <1>1 DEF Frames
<1>3. [f EXCEPT !.n = @ + 1, !.seen = b] \in Frames
  BY <1>1 DEF Frames
<1>4. /\ [f EXCEPT !.n = @ + 1].kind = f.kind
      /\ [f EXCEPT !.n = @ + 1].pat = f.pat
      /\ [f EXCEPT !.n = @ + 1, !.seen = b].kind = f.kind
      /\ [f EXCEPT !.n = @ + 1, !.seen = b].pat = f.pat
  BY <1>1 DEF Frames
<1> QED
  BY <1>2, <1>3, <1>4 DEF WellFormed, IsGsub

-----------------------------------------------------------------------------
\* Every step keeps both parts of the type invariant.
LEMMA PartsStep == TypeOK /\ [Next]_vars => StackOK' /\ ObjectsOK'
<1> SUFFICES ASSUME TypeOK, [Next]_vars
             PROVE  StackOK' /\ ObjectsOK'
  OBVIOUS
<1>0. StackOK /\ ObjectsOK
  BY TypeParts
<1>1. ASSUME NEW t \in Threads, NEW s \in Strings, EachBegin(t, s)
      PROVE  StackOK' /\ ObjectsOK'
  <2>1. StackOK'
    BY <1>1, FirstFrames, PushKeepsStack DEF EachBegin
  <2>2. ObjectsOK'
    BY <1>0, <1>1 DEF EachBegin, ObjectsOK
  <2> QED
    BY <2>1, <2>2
<1>2. ASSUME NEW t \in Threads, NEW s \in Strings,
             NEW pat \in Regexps \cup {NoPattern}, ScanBegin(t, s, pat)
      PROVE  StackOK' /\ ObjectsOK'
  <2>1. StackOK'
    BY <1>2, FirstFrames, PushKeepsStack DEF ScanBegin
  <2>2. ObjectsOK'
    BY <1>0, <1>2, SearchType DEF ScanBegin, ObjectsOK
  <2> QED
    BY <2>1, <2>2
<1>3. ASSUME NEW t \in Threads, NEW s \in Strings, NEW pat \in Regexps \cup {NoPattern},
             NEW kind \in {"gsub"} \cup InPlace, GsubBegin(t, s, kind, pat)
      PROVE  StackOK' /\ ObjectsOK'
  <2>1. NewHandle \in Handles
    BY <1>3, NewHandleFree DEF GsubBegin
  <2>2. StackOK'
    BY <1>3, <2>1, FirstFrames, PushKeepsStack DEF GsubBegin
  <2>3. matcher' \in [Regexps -> Handles \cup {NoHandle}]
    BY <1>3, <2>1 DEF GsubBegin, LeftBehind, TypeOK
  <2>4. target' \in [Handles -> Targets]
    <3>1. [buf |-> buffer[s], pos |-> 1] \in Targets
      BY DEF Targets, TypeOK
    <3> QED
      BY <1>3, <2>1, <3>1, NoTextType, FirstFrames DEF GsubBegin, TypeOK
  <2> QED
    BY <1>0, <1>3, <2>2, <2>3, <2>4 DEF GsubBegin, ObjectsOK
<1>4. ASSUME NEW t \in Threads, EachNext(t)
      PROVE  StackOK' /\ ObjectsOK'
  <2>1. depth[t] > 0
    BY <1>4 DEF EachNext, Inside
  <2>2. WellFormed([frame[Top(t)] EXCEPT !.n = @ + 1])
    BY <2>1, TopFrame DEF WellFormed, Frames, IsGsub, Kinds, InPlace
  <2>3. StackOK'
    BY <1>4, <2>1, <2>2, YieldKeepsStack DEF EachNext
  <2> QED
    BY <1>0, <1>4, <2>3 DEF EachNext, ObjectsOK
<1>5. ASSUME NEW t \in Threads, EachEnd(t)
      PROVE  StackOK' /\ ObjectsOK'
  <2>1. StackOK'
    BY <1>5, ReleaseKeepsStack DEF EachEnd, Inside
  <2> QED
    BY <1>0, <1>5, <2>1 DEF EachEnd, ObjectsOK
<1>6. ASSUME NEW t \in Threads, ScanNext(t) \/ ScanEnd(t)
      PROVE  StackOK' /\ ObjectsOK'
  <2> DEFINE f == frame[Top(t)]
  <2>1. depth[t] > 0 /\ f.kind = "scan"
    BY <1>6 DEF ScanNext, ScanEnd, Inside
  <2>2. WellFormed(f)
    BY <2>1, TopFrame
  <2>3. f.str \in Strings /\ f.n \in Nat /\ f.pat \in Regexps \cup {NoPattern}
    BY <2>1, <2>2 DEF WellFormed, Frames, IsGsub, InPlace
  <2>4. WellFormed([f EXCEPT !.n = @ + 1])
    BY <2>2 DEF WellFormed, Frames, IsGsub, Kinds, InPlace
  <2>5. StackOK'
    BY <1>6, <2>1, <2>4, YieldKeepsStack, ReleaseKeepsStack DEF ScanNext, ScanEnd
  <2>6. target' \in [Handles -> Targets]
    <3>1. Usable(f.pat) /\ \E pos \in Nat : SearchWith(f.pat, f.str, pos)
      BY <1>6, <2>3 DEF ScanNext, ScanEnd
    <3> QED
      BY <2>3, <3>1, SearchType
  <2> QED
    BY <1>0, <1>6, <2>5, <2>6 DEF ScanNext, ScanEnd, ObjectsOK
<1>7. ASSUME NEW t \in Threads, GsubNext(t)
      PROVE  StackOK' /\ ObjectsOK'
  <2> DEFINE f == frame[Top(t)]
  <2>1. depth[t] > 0 /\ IsGsub(f)
    BY <1>7 DEF GsubNext, Inside, IsGsub, InPlace
  <2>2. WellFormed(f) /\ f.pat \in Handles /\ f.str \in Strings
    BY <2>1, TopFrame DEF WellFormed, Frames
  <2>3. buffer[f.str] \in Buffers
    BY <2>2 DEF TypeOK
  <2>4. WellFormed([f EXCEPT !.n = @ + 1, !.seen = buffer[f.str]])
    BY <2>2, <2>3, NextFrame
  <2>5. StackOK'
    BY <1>7, <2>1, <2>4, YieldKeepsStack DEF GsubNext
  <2>6. target' \in [Handles -> Targets]
    BY <1>7, <2>2 DEF GsubNext, TypeOK, Targets
  <2> QED
    BY <1>0, <1>7, <2>5, <2>6 DEF GsubNext, ObjectsOK
<1>8. ASSUME NEW t \in Threads, GsubModified(t) \/ Abandon(t)
      PROVE  StackOK' /\ ObjectsOK'
  <2>1. depth[t] > 0
    BY <1>8 DEF GsubModified, Abandon, Inside
  <2>2. StackOK'
    BY <1>8, <2>1, LeaveKeepsStack DEF GsubModified, Abandon
  <2>3. target' \in [Handles -> Targets]
    BY <1>8, <2>1, TopFrame, DropType DEF GsubModified, Abandon
  <2> QED
    BY <1>0, <1>8, <2>2, <2>3 DEF GsubModified, Abandon, ObjectsOK
<1>9. ASSUME NEW t \in Threads, GsubFinish(t)
      PROVE  StackOK' /\ ObjectsOK'
  <2> DEFINE f == frame[Top(t)]
  <2>1. depth[t] > 0
    BY <1>9 DEF GsubFinish, Inside
  <2>2. WellFormed(f) /\ f.str \in Strings
    BY <2>1, TopFrame DEF WellFormed, Frames
  <2>3. StackOK'
    BY <1>9, <2>1, ReleaseKeepsStack DEF GsubFinish
  <2>4. target' \in [Handles -> Targets]
    BY <1>9, <2>2, DropType DEF GsubFinish
  <2>5. buffer' \in [Strings -> Buffers]
    <3>1. buffer' = buffer \/ \E x \in Texts : Store(f.str, x)
      BY <1>9 DEF GsubFinish
    <3> QED
      BY <2>2, <3>1, StoreType DEF TypeOK
  <2> QED
    BY <1>0, <1>9, <2>3, <2>4, <2>5 DEF GsubFinish, ObjectsOK
<1>10. ASSUME NEW s \in Strings, Freeze(s) \/ ModifyUnits(s) \/ Strip(s) \/ ChangeCase(s)
       PROVE  StackOK' /\ ObjectsOK'
  <2>1. UNCHANGED <<busy, depth, frame, abandoned, matcher, target>>
    BY <1>10 DEF Freeze, ModifyUnits, Strip, ChangeCase, Unmoved
  <2>2. StackOK'
    BY <1>0, <2>1 DEF StackOK, WellFormed, Occupied, Slots
  <2>3. frozen' \in [Strings -> BOOLEAN]
    BY <1>10 DEF Freeze, ModifyUnits, Strip, ChangeCase, Unmoved, TypeOK
  <2>4. CASE Freeze(s)
    BY <1>0, <2>1, <2>2, <2>3, <2>4 DEF Freeze, ObjectsOK
  <2>5. CASE ModifyUnits(s)
    <3>1. buffer' \in [Strings -> Buffers]
      BY <2>5, StoreType DEF ModifyUnits
    <3> QED
      BY <1>0, <2>1, <2>2, <2>3, <3>1 DEF ObjectsOK
  <2>6. CASE Strip(s)
    <3>1. buffer' \in [Strings -> Buffers]
      BY <2>6, ZenonT(60) DEF Strip, TypeOK, Buffers
    <3> QED
      BY <1>0, <2>1, <2>2, <2>3, <3>1 DEF ObjectsOK
  <2>7. CASE ChangeCase(s)
    <3>1. buffer' \in [Strings -> Buffers]
      BY <2>7 DEF ChangeCase, TypeOK, Buffers, FreePtrs
    <3> QED
      BY <1>0, <2>1, <2>2, <2>3, <3>1 DEF ObjectsOK
  <2> QED
    BY <1>10, <2>4, <2>5, <2>6, <2>7
<1>11. ASSUME NEW re \in Regexps, NEW s \in Strings, NEW pos \in {0, 1}, UseRegexp(re, s, pos)
       PROVE  StackOK' /\ ObjectsOK'
  <2>1. StackOK'
    BY <1>0, <1>11 DEF UseRegexp, StackOK, WellFormed, Occupied, Slots
  <2>2. [buf |-> buffer[s], pos |-> pos] \in Targets
    BY DEF Targets, TypeOK
  <2>3. target' \in [Handles -> Targets]
    BY <1>11, <2>2 DEF UseRegexp, Search, Usable, TypeOK
  <2> QED
    BY <1>0, <1>11, <2>1, <2>3 DEF UseRegexp, ObjectsOK
<1>12. ASSUME NEW re \in Regexps, NEW s \in Strings, NEW kind \in {"gsub"} \cup InPlace,
              GsubString(s, kind, re)
       PROVE  StackOK' /\ ObjectsOK'
  <2>1. StackOK'
    BY <1>0, <1>12 DEF GsubString, StackOK, WellFormed, Occupied, Slots
  <2>2. NewHandle \in Handles
    BY <1>12, NewHandleFree DEF GsubString
  <2>3. matcher' \in [Regexps -> Handles \cup {NoHandle}] /\ target' \in [Handles -> Targets]
    BY <1>12, <2>2, WithoutType DEF GsubString, TypeOK
  <2>4. buffer' \in [Strings -> Buffers]
    <3>1. buffer' = buffer \/ \E x \in Texts : Store(s, x)
      BY <1>12 DEF GsubString
    <3> QED
      BY <3>1, StoreType DEF TypeOK
  <2>5. frozen' = frozen
    BY <1>12 DEF GsubString, Freeze
  <2> QED
    BY <1>0, <2>1, <2>3, <2>4, <2>5 DEF ObjectsOK
<1>13. ASSUME NEW re \in Regexps, Reinitialize(re)
       PROVE  StackOK' /\ ObjectsOK'
  <2>1. StackOK'
    BY <1>0, <1>13 DEF Reinitialize, StackOK, WellFormed, Occupied, Slots
  <2>2. NewHandle \in Handles
    BY <1>13, NewHandleFree DEF Reinitialize
  <2>3. matcher' \in [Regexps -> Handles \cup {NoHandle}] /\ target' \in [Handles -> Targets]
    BY <1>13, <2>2, WithoutType DEF Reinitialize, TypeOK
  <2> QED
    BY <1>0, <1>13, <2>1, <2>3 DEF Reinitialize, ObjectsOK
<1>14. ASSUME NEW re \in Regexps, ReinitializeFails(re)
       PROVE  StackOK' /\ ObjectsOK'
  <2>1. StackOK'
    BY <1>0, <1>14 DEF ReinitializeFails, StackOK, WellFormed, Occupied, Slots
  <2>2. matcher' \in [Regexps -> Handles \cup {NoHandle}] /\ target' \in [Handles -> Targets]
    BY <1>14, WithoutType DEF ReinitializeFails, TypeOK
  <2> QED
    BY <1>0, <1>14, <2>1, <2>2 DEF ReinitializeFails, ObjectsOK
<1>15. ASSUME NEW s \in Strings, NEW pat \in Regexps \cup {NoPattern},
              ScanBeginRaises(s, pat)
       PROVE  StackOK' /\ ObjectsOK'
  BY <1>0, <1>15, RaiseKeepsStack DEF ScanBeginRaises, ObjectsOK
<1>16. ASSUME NEW s \in Strings, NEW pat \in Regexps \cup {NoPattern},
              NEW kind \in {"gsub"} \cup InPlace, GsubBeginRaises(s, kind, pat)
       PROVE  StackOK' /\ ObjectsOK'
  <2>1. target' \in [Handles -> Targets]
    BY <1>16, SearchType DEF GsubBeginRaises
  <2> QED
    BY <1>0, <1>16, <2>1, RaiseKeepsStack DEF GsubBeginRaises, ObjectsOK
<1>17. CASE UNCHANGED vars
  BY <1>0, <1>17 DEF vars, StackOK, ObjectsOK, WellFormed, Occupied, Slots
<1> QED
  BY <1>1, <1>2, <1>3, <1>4, <1>5, <1>6, <1>7, <1>8, <1>9, <1>10, <1>11, <1>12, <1>13,
     <1>14, <1>15, <1>16, <1>17 DEF Next, Resume

\* So every step keeps the type invariant.
LEMMA TypeStep == TypeOK /\ [Next]_vars => TypeOK'
BY PartsStep, TypeParts, PTL

\* It holds at the start.
LEMMA TypeInit == Init => TypeOK
<1> SUFFICES ASSUME Init PROVE TypeOK
  OBVIOUS
<1>1. Occupied = {} /\ {p \in Slots : p[2] <= depth[p[1]]} = {}
  BY BoundsAssumption DEF Init, Occupied, Slots
<1> QED
  BY <1>1, BoundsAssumption, NoTextType DEF Init, TypeOK

\* The variables keep their types, and a thread's frames are stacked: its slots
\* are occupied exactly up to its depth.
THEOREM IterationTypeOK == Spec => []TypeOK
BY TypeInit, TypeStep, PTL DEF Spec

-----------------------------------------------------------------------------
\* The walks over a string can be counted.
LEMMA ActiveFinite == \A s : IsFiniteSet(Active(s)) /\ Cardinality(Active(s)) \in Nat
<1>1. IsFiniteSet(1 .. MaxDepth)
  BY FS_Interval, BoundsAssumption
<1>2. IsFiniteSet(Slots)
  BY <1>1, FiniteAssumption, FS_Product DEF Slots
<1>3. \A s : Active(s) \in SUBSET Slots
  BY DEF Active, Occupied
<1>4. \A s : IsFiniteSet(Active(s))
  BY <1>2, <1>3, FS_Subset
<1> QED
  BY <1>4, FS_CardinalityType

\* How a push, a pop and a yield change the set of walks over one string.
LEMMA PushActive ==
    ASSUME TypeOK, NEW t \in Threads, NEW f, WellFormed(f), Push(t, f), NEW s \in Strings
    PROVE  /\ Active(s)' = IF s = f.str THEN Active(s) \cup {NewSlot(t)} ELSE Active(s)
           /\ NewSlot(t) \notin Active(s)
<1>1. /\ NewSlot(t) \in Slots \ Occupied
      /\ frame'[NewSlot(t)] = f
      /\ \A p \in Slots : p # NewSlot(t) => frame'[p] = frame[p]
      /\ Occupied' = Occupied \cup {NewSlot(t)}
  BY PushFills
<1>2. Occupied \subseteq Slots
  BY DEF Occupied
<1> QED
  BY <1>1, <1>2 DEF Active

\* A pop takes one walk from one string.
LEMMA PopActive ==
    ASSUME TypeOK, NEW t \in Threads, depth[t] > 0, Pop(t), NEW s \in Strings
    PROVE  /\ Active(s)' = IF s = frame[Top(t)].str THEN Active(s) \ {Top(t)} ELSE Active(s)
           /\ Top(t) \in Active(frame[Top(t)].str)
<1>1. /\ Top(t) \in Occupied
      /\ \A p \in Slots : p # Top(t) => frame'[p] = frame[p]
      /\ Occupied' = Occupied \ {Top(t)}
  BY PopEmpties
<1>2. Occupied \subseteq Slots
  BY DEF Occupied
<1> QED
  BY <1>1, <1>2 DEF Active

\* A walk that goes on is still over the same string.
LEMMA YieldActive ==
    ASSUME TypeOK, NEW t \in Threads, depth[t] > 0, NEW f, WellFormed(f), Yield(t, f),
           f.str = frame[Top(t)].str, NEW s \in Strings
    PROVE  Active(s)' = Active(s)
<1>1. /\ Top(t) \in Occupied
      /\ frame'[Top(t)] = f
      /\ \A p \in Slots : p # Top(t) => frame'[p] = frame[p]
      /\ Occupied' = Occupied
  BY YieldKeepsStack, TopFrame
<1>2. Occupied \subseteq Slots
  BY DEF Occupied
<1> QED
  BY <1>1, <1>2 DEF Active

\* A counted push does not bring the counter round.
LEMMA PushCounts ==
    ASSUME TypeOK, BusyCounts, MaxOutstanding < BusyMod,
           NEW t \in Threads, NEW f, WellFormed(f), Push(t, f)
    PROVE  BusyCounts'
<1> SUFFICES ASSUME NEW s \in Strings PROVE busy'[s] = Outstanding(s)'
  BY DEF BusyCounts
<1>1. f.str \in Strings
  BY DEF WellFormed, Frames
<1>2. /\ busy[s] = Cardinality(Active(s)) + abandoned[s]
      /\ abandoned'[s] = abandoned[s] /\ abandoned[s] \in Nat
      /\ Cardinality(Active(s)) \in Nat /\ IsFiniteSet(Active(s))
  BY ActiveFinite DEF BusyCounts, Outstanding, Push, TypeOK
<1>3. CASE s = f.str
  <2>1. busy[s] + 1 < BusyMod
    BY <1>2, <1>3, BoundsAssumption DEF Push, Outstanding
  <2>2. busy'[s] = busy[s] + 1
    BY <1>1, <1>3, <2>1 DEF Push, Inc, TypeOK
  <2>3. Cardinality(Active(s)') = Cardinality(Active(s)) + 1
    BY <1>2, <1>3, PushActive, FS_AddElement
  <2> QED
    BY <1>2, <2>2, <2>3 DEF Outstanding
<1>4. CASE s # f.str
  <2>1. busy'[s] = busy[s]
    BY <1>1, <1>4 DEF Push, TypeOK
  <2>2. Active(s)' = Active(s)
    BY <1>4, PushActive
  <2> QED
    BY <1>2, <2>1, <2>2 DEF Outstanding
<1> QED
  BY <1>3, <1>4

\* A walk that raises before its first element does not bring it round either.
LEMMA RaiseCounts ==
    ASSUME TypeOK, BusyCounts, MaxOutstanding < BusyMod, NEW r \in Strings, RaiseBusy(r)
    PROVE  BusyCounts'
<1> SUFFICES ASSUME NEW s \in Strings PROVE busy'[s] = Outstanding(s)'
  BY DEF BusyCounts
<1>1. /\ busy[s] = Cardinality(Active(s)) + abandoned[s]
      /\ abandoned[s] \in Nat
      /\ Cardinality(Active(s)) \in Nat
  BY ActiveFinite DEF BusyCounts, Outstanding, TypeOK
<1>2. Active(s)' = Active(s)
  BY DEF RaiseBusy, Active, Occupied, Slots
<1>3. CASE s = r
  <2>1. busy[s] + 1 < BusyMod
    BY <1>1, <1>3, BoundsAssumption DEF RaiseBusy, Outstanding
  <2>2. busy'[s] = busy[s] + 1 /\ abandoned'[s] = abandoned[s] + 1
    BY <1>3, <2>1 DEF RaiseBusy, Inc, TypeOK
  <2> QED
    BY <1>1, <1>2, <2>2 DEF Outstanding
<1>4. CASE s # r
  <2>1. busy'[s] = busy[s] /\ abandoned'[s] = abandoned[s]
    BY <1>4 DEF RaiseBusy, TypeOK
  <2> QED
    BY <1>1, <1>2, <2>1 DEF Outstanding
<1> QED
  BY <1>3, <1>4

\* A counted walk that ends takes its own increment back.
LEMMA ReleaseCounts ==
    ASSUME TypeOK, BusyCounts, NEW t \in Threads, depth[t] > 0, Release(t)
    PROVE  /\ BusyCounts'
           /\ busy'[frame[Top(t)].str] = Dec(busy[frame[Top(t)].str])
<1> DEFINE r == frame[Top(t)].str
<1>1. r \in Strings
  BY TopFrame DEF WellFormed, Frames
<1>2. Pop(t) /\ abandoned' = abandoned /\ busy' = [busy EXCEPT ![r] = Dec(busy[r])]
  BY DEF Release
<1>3. busy'[r] = Dec(busy[r]) /\ \A s \in Strings : s # r => busy'[s] = busy[s]
  BY <1>1, <1>2 DEF TypeOK
<1>4. ASSUME NEW s \in Strings PROVE busy'[s] = Outstanding(s)'
  <2>1. /\ busy[s] = Cardinality(Active(s)) + abandoned[s]
        /\ abandoned[s] \in Nat
        /\ Cardinality(Active(s)) \in Nat /\ IsFiniteSet(Active(s))
    BY ActiveFinite DEF BusyCounts, Outstanding, TypeOK
  <2>2. CASE s = r
    <3>1. Top(t) \in Active(s) /\ Active(s)' = Active(s) \ {Top(t)}
      BY <1>2, <2>2, PopActive
    <3>2. Cardinality(Active(s)') = Cardinality(Active(s)) - 1
      BY <2>1, <3>1, FS_RemoveElement
    <3>3. Cardinality(Active(s)) # 0
      BY <2>1, <3>1, FS_EmptySet
    <3>4. busy'[s] = busy[s] - 1
      BY <1>3, <2>1, <2>2, <3>3 DEF Dec
    <3> QED
      BY <1>2, <2>1, <3>2, <3>4 DEF Outstanding
  <2>3. CASE s # r
    <3>1. Active(s)' = Active(s)
      BY <1>2, <2>3, PopActive
    <3> QED
      BY <1>2, <1>3, <2>1, <2>3, <3>1 DEF Outstanding
  <2> QED
    BY <2>2, <2>3
<1> QED
  BY <1>3, <1>4 DEF BusyCounts

\* A walk left through its block moves from the active to the abandoned ones.
LEMMA LeaveCounts ==
    ASSUME TypeOK, BusyCounts, NEW t \in Threads, depth[t] > 0, Pop(t), UNCHANGED busy,
           abandoned' = [abandoned EXCEPT ![frame[Top(t)].str] = @ + 1]
    PROVE  BusyCounts'
<1> SUFFICES ASSUME NEW s \in Strings PROVE busy'[s] = Outstanding(s)'
  BY DEF BusyCounts
<1> DEFINE r == frame[Top(t)].str
<1>1. r \in Strings
  BY TopFrame DEF WellFormed, Frames
<1>2. /\ busy'[s] = Cardinality(Active(s)) + abandoned[s]
      /\ abandoned[s] \in Nat
      /\ Cardinality(Active(s)) \in Nat /\ IsFiniteSet(Active(s))
  BY ActiveFinite DEF BusyCounts, Outstanding, TypeOK
<1>3. CASE s = r
  <2>1. Top(t) \in Active(s) /\ Active(s)' = Active(s) \ {Top(t)}
    BY <1>3, PopActive
  <2>2. Cardinality(Active(s)') = Cardinality(Active(s)) - 1
    BY <1>2, <2>1, FS_RemoveElement
  <2>3. abandoned'[s] = abandoned[s] + 1
    BY <1>1, <1>3 DEF TypeOK
  <2> QED
    BY <1>2, <2>2, <2>3 DEF Outstanding
<1>4. CASE s # r
  <2>1. Active(s)' = Active(s)
    BY <1>4, PopActive
  <2>2. abandoned'[s] = abandoned[s]
    BY <1>1, <1>4 DEF TypeOK
  <2> QED
    BY <1>2, <2>1, <2>2 DEF Outstanding
<1> QED
  BY <1>3, <1>4

\* Nobody walks over a string whose counter is 0.
LEMMA IdleString ==
    TypeOK /\ BusyCounts => \A s \in Strings : busy[s] = 0 => Active(s) = {}
<1> SUFFICES ASSUME TypeOK, BusyCounts, NEW s \in Strings, busy[s] = 0
             PROVE  Active(s) = {}
  OBVIOUS
<1>1. /\ Cardinality(Active(s)) + abandoned[s] = 0
      /\ abandoned[s] \in Nat
      /\ Cardinality(Active(s)) \in Nat /\ IsFiniteSet(Active(s))
  BY ActiveFinite DEF BusyCounts, Outstanding, TypeOK
<1>2. Cardinality(Active(s)) = 0
  BY <1>1
<1> QED
  BY <1>1, <1>2, FS_EmptySet

-----------------------------------------------------------------------------
\* Storing into a string leaves the other strings' buffers alone.
LEMMA StoreOthers ==
    ASSUME TypeOK, NEW s \in Strings, NEW x \in Texts, Store(s, x)
    PROVE  \A r \in Strings : r # s => buffer'[r] = buffer[r]
BY DEF Store, TypeOK

\* The walks that go on see their buffer after a step that leaves frames alone
\* and writes at most to a string nobody walks over.
LEMMA QuietStable ==
    ASSUME TypeOK, IterationStable, UNCHANGED frame, NEW s \in Strings, Active(s) = {},
           \A r \in Strings : r # s => buffer'[r] = buffer[r]
    PROVE  IterationStable'
<1> SUFFICES ASSUME NEW p \in Occupied
             PROVE  frame[p].seen = buffer'[frame[p].str]
  BY DEF IterationStable, Occupied, Slots
<1>1. frame[p].str \in Strings
  BY TypeParts DEF StackOK, WellFormed, Frames
<1>2. frame[p].str # s
  BY DEF Active
<1> QED
  BY <1>1, <1>2 DEF IterationStable

\* A walk that starts has seen the string as it is.
LEMMA PushStable ==
    ASSUME TypeOK, IterationStable, UNCHANGED buffer, NEW t \in Threads, NEW f,
           WellFormed(f), Push(t, f), f.seen = buffer[f.str]
    PROVE  IterationStable'
BY PushFills DEF IterationStable, Occupied

\* So has one that goes on.
LEMMA YieldStable ==
    ASSUME TypeOK, IterationStable, UNCHANGED buffer, NEW t \in Threads, depth[t] > 0,
           NEW f, WellFormed(f), Yield(t, f), f.seen = buffer[f.str]
    PROVE  IterationStable'
BY YieldKeepsStack DEF IterationStable, Occupied

\* The others are not disturbed by one that ends.
LEMMA PopStable ==
    ASSUME TypeOK, IterationStable, UNCHANGED buffer, NEW t \in Threads, depth[t] > 0, Pop(t)
    PROVE  IterationStable'
BY PopEmpties DEF IterationStable, Occupied

\* The busy count and the walks it protects are kept together: as long as the
\* count cannot wrap, no string with a walk over it is stored into.
LEMMA StableStep ==
    ASSUME MaxOutstanding < BusyMod
    PROVE  TypeOK /\ BusyCounts /\ IterationStable /\ [Next]_vars
              => BusyCounts' /\ IterationStable'
<1> SUFFICES ASSUME TypeOK, BusyCounts, IterationStable, [Next]_vars
             PROVE  BusyCounts' /\ IterationStable'
  OBVIOUS
<1> USE DEF Kinds
<1>1. ASSUME NEW t \in Threads, NEW s \in Strings, EachBegin(t, s)
      PROVE  BusyCounts' /\ IterationStable'
  BY <1>1, FirstFrames, PushCounts, PushStable DEF EachBegin
<1>2. ASSUME NEW t \in Threads, NEW s \in Strings,
             NEW pat \in Regexps \cup {NoPattern}, ScanBegin(t, s, pat)
      PROVE  BusyCounts' /\ IterationStable'
  BY <1>2, FirstFrames, PushCounts, PushStable DEF ScanBegin
<1>3. ASSUME NEW t \in Threads, NEW s \in Strings, NEW pat \in Regexps \cup {NoPattern},
             NEW kind \in {"gsub"} \cup InPlace, GsubBegin(t, s, kind, pat)
      PROVE  BusyCounts' /\ IterationStable'
  BY <1>3, FirstFrames, NewHandleFree, PushCounts, PushStable DEF GsubBegin
<1>4. ASSUME NEW t \in Threads, EachNext(t) \/ ScanNext(t)
      PROVE  BusyCounts' /\ IterationStable'
  <2> DEFINE f == frame[Top(t)]
             g == [f EXCEPT !.n = @ + 1]
  <2>1. depth[t] > 0 /\ Yield(t, g) /\ UNCHANGED buffer
    BY <1>4 DEF EachNext, ScanNext, Inside
  <2>2. Top(t) \in Occupied /\ WellFormed(f)
    BY <2>1, TopFrame
  <2>3. f.str \in Strings /\ f.seen \in Buffers
    BY <2>2 DEF WellFormed, Frames
  <2>4. WellFormed(g)
    BY <2>2, <2>3, NextFrame
  <2>5. g.str = f.str /\ g.seen = f.seen
    BY <2>2 DEF WellFormed, Frames
  <2>6. g.seen = buffer[g.str]
    BY <2>2, <2>5 DEF IterationStable
  <2>7. IterationStable'
    BY <2>1, <2>4, <2>6, YieldStable
  <2>8. \A s \in Strings : Active(s)' = Active(s)
    BY <2>1, <2>4, <2>5, YieldActive
  <2>9. BusyCounts'
    BY <2>1, <2>8 DEF BusyCounts, Outstanding, Yield
  <2> QED
    BY <2>7, <2>9
<1>5. ASSUME NEW t \in Threads, GsubNext(t)
      PROVE  BusyCounts' /\ IterationStable'
  <2> DEFINE f == frame[Top(t)]
             g == [f EXCEPT !.n = @ + 1, !.seen = buffer[f.str]]
  <2>1. depth[t] > 0 /\ Yield(t, g) /\ UNCHANGED buffer
    BY <1>5 DEF GsubNext, Inside
  <2>2. WellFormed(f)
    BY <2>1, TopFrame
  <2>3. buffer[f.str] \in Buffers
    BY <2>2 DEF WellFormed, Frames, TypeOK
  <2>4. WellFormed(g)
    BY <2>2, <2>3, NextFrame
  <2>5. g.str = f.str /\ g.seen = buffer[g.str]
    BY <2>2 DEF WellFormed, Frames
  <2>6. IterationStable'
    BY <2>1, <2>4, <2>5, YieldStable
  <2>7. \A s \in Strings : Active(s)' = Active(s)
    BY <2>1, <2>4, <2>5, YieldActive
  <2>8. BusyCounts'
    BY <2>1, <2>7 DEF BusyCounts, Outstanding, Yield
  <2> QED
    BY <2>6, <2>8
<1>6. ASSUME NEW t \in Threads, EachEnd(t) \/ ScanEnd(t)
      PROVE  BusyCounts' /\ IterationStable'
  <2>1. depth[t] > 0 /\ Release(t) /\ UNCHANGED buffer
    BY <1>6 DEF EachEnd, ScanEnd, Inside
  <2>2. Pop(t)
    BY <2>1 DEF Release
  <2> QED
    BY <2>1, <2>2, ReleaseCounts, PopStable
<1>7. ASSUME NEW t \in Threads, GsubModified(t) \/ Abandon(t)
      PROVE  BusyCounts' /\ IterationStable'
  <2>1. /\ depth[t] > 0 /\ Pop(t) /\ UNCHANGED buffer /\ UNCHANGED busy
        /\ abandoned' = [abandoned EXCEPT ![frame[Top(t)].str] = @ + 1]
    BY <1>7 DEF GsubModified, Abandon, Inside
  <2> QED
    BY <2>1, LeaveCounts, PopStable
<1>8. ASSUME NEW t \in Threads, GsubFinish(t)
      PROVE  BusyCounts' /\ IterationStable'
  <2> DEFINE r == frame[Top(t)].str
  <2>1. depth[t] > 0 /\ Release(t) /\ Pop(t)
    BY <1>8 DEF GsubFinish, Inside, Release
  <2>2. BusyCounts' /\ busy'[r] = Dec(busy[r])
    BY <2>1, ReleaseCounts
  <2>3. CASE UNCHANGED buffer
    BY <2>1, <2>2, <2>3, PopStable
  <2>4. CASE MayReplace(r) /\ \E x \in Texts : Store(r, x)
    <3>1. PICK q \in Strings : q = r
      BY <2>1, TopFrame DEF WellFormed, Frames
    <3>2. busy'[q] = 0
      BY <2>2, <2>4, <3>1 DEF MayReplace
    <3>3. TypeOK'
      BY TypeStep
    <3>4. (TypeOK /\ BusyCounts => \A s \in Strings : busy[s] = 0 => Active(s) = {})'
      BY IdleString, PTL
    <3>5. Active(q)' = {}
      BY <2>2, <3>1, <3>2, <3>3, <3>4
    <3>6. \A s \in Strings : s # q => buffer'[s] = buffer[s]
      BY <2>4, <3>1, StoreOthers
    <3>7. ASSUME NEW p \in Occupied' PROVE frame'[p].seen = buffer'[frame'[p].str]
      <4>1. p \in Occupied /\ frame'[p] = frame[p]
        BY <2>1, <3>7, PopEmpties DEF Occupied
      <4>2. frame[p].str \in Strings
        BY <4>1, TypeParts DEF StackOK, WellFormed, Frames
      <4>3. frame[p].str # q
        BY <3>5, <3>7, <4>1 DEF Active
      <4> QED
        BY <3>6, <4>1, <4>2, <4>3 DEF IterationStable
    <3> QED
      BY <2>2, <3>7 DEF IterationStable
  <2> QED
    BY <1>8, <2>3, <2>4 DEF GsubFinish
<1>9. ASSUME NEW s \in Strings, ModifyUnits(s) \/ Strip(s) \/ ChangeCase(s)
      PROVE  BusyCounts' /\ IterationStable'
  <2>1. Active(s) = {}
    BY <1>9, IdleString DEF ModifyUnits, Strip, ChangeCase, MayModify
  <2>2. UNCHANGED <<busy, frame, abandoned>>
    BY <1>9 DEF ModifyUnits, Strip, ChangeCase, Unmoved
  <2>3. \A r \in Strings : r # s => buffer'[r] = buffer[r]
    <3>1. CASE ModifyUnits(s)
      BY <3>1, StoreOthers DEF ModifyUnits
    <3>2. CASE Strip(s) \/ ChangeCase(s)
      BY <3>2 DEF Strip, ChangeCase, TypeOK
    <3> QED
      BY <1>9, <3>1, <3>2
  <2>4. IterationStable'
    BY <2>1, <2>2, <2>3, QuietStable
  <2> QED
    BY <2>2, <2>4 DEF BusyCounts, Outstanding, Active, Occupied, Slots
<1>10. ASSUME NEW s \in Strings, NEW kind \in {"gsub"} \cup InPlace, NEW re \in Regexps,
              GsubString(s, kind, re)
       PROVE  BusyCounts' /\ IterationStable'
  <2>1. UNCHANGED <<busy, frame, abandoned>>
    BY <1>10 DEF GsubString
  <2>2. BusyCounts'
    BY <2>1 DEF BusyCounts, Outstanding, Active, Occupied, Slots
  <2>3. CASE UNCHANGED buffer
    BY <2>1, <2>2, <2>3 DEF IterationStable, Occupied, Slots
  <2>4. CASE MayModify(s) /\ \E x \in Texts : Store(s, x)
    <3>1. Active(s) = {}
      BY <2>4, IdleString DEF MayModify
    <3>2. \A r \in Strings : r # s => buffer'[r] = buffer[r]
      BY <2>4, StoreOthers
    <3> QED
      BY <2>1, <2>2, <3>1, <3>2, QuietStable
  <2> QED
    BY <1>10, <2>3, <2>4 DEF GsubString
<1>11. CASE UNCHANGED <<busy, frame, abandoned, buffer>>
  BY <1>11 DEF BusyCounts, Outstanding, Active, IterationStable, Occupied, Slots
<1>12. (\E s \in Strings : Freeze(s)) => UNCHANGED <<busy, frame, abandoned, buffer>>
  BY DEF Freeze
<1>13. (\E re \in Regexps, s \in Strings, pos \in {0, 1} : UseRegexp(re, s, pos))
         => UNCHANGED <<busy, frame, abandoned, buffer>>
  BY DEF UseRegexp
<1>14. (\E re \in Regexps : Reinitialize(re) \/ ReinitializeFails(re))
         => UNCHANGED <<busy, frame, abandoned, buffer>>
  BY DEF Reinitialize, ReinitializeFails
<1>15. UNCHANGED vars => UNCHANGED <<busy, frame, abandoned, buffer>>
  BY DEF vars
<1>16. ASSUME NEW s \in Strings, NEW pat \in Regexps \cup {NoPattern},
              \/ ScanBeginRaises(s, pat)
              \/ \E kind \in {"gsub"} \cup InPlace : GsubBeginRaises(s, kind, pat)
       PROVE  BusyCounts' /\ IterationStable'
  <2>1. RaiseBusy(s) /\ UNCHANGED <<frame, buffer>>
    BY <1>16 DEF ScanBeginRaises, GsubBeginRaises, RaiseBusy
  <2>2. IterationStable'
    BY <2>1 DEF IterationStable, Occupied, Slots
  <2> QED
    BY <2>1, <2>2, RaiseCounts
<1> QED
  BY <1>1, <1>2, <1>3, <1>4, <1>5, <1>6, <1>7, <1>8, <1>9, <1>10, <1>11, <1>12, <1>13,
     <1>14, <1>15, <1>16 DEF Next, Resume

\* No walk is under way at the start.
LEMMA StableInit == Init => BusyCounts /\ IterationStable
<1> SUFFICES ASSUME Init PROVE BusyCounts /\ IterationStable
  OBVIOUS
<1>1. Occupied = {}
  BY DEF Init, Occupied
<1>2. ASSUME NEW s \in Strings PROVE busy[s] = Outstanding(s)
  <2>1. Cardinality(Active(s)) = 0
    BY <1>1, FS_EmptySet DEF Active
  <2>2. busy[s] = 0 /\ abandoned[s] = 0
    BY DEF Init
  <2> QED
    BY <2>1, <2>2 DEF Outstanding
<1> QED
  BY <1>1, <1>2 DEF BusyCounts, IterationStable

\* The counter of a string is the number of walks over it that are under way or
\* were left through their block, if fewer than BusyMod are outstanding.
THEOREM IterationBusyCounts ==
    ASSUME MaxOutstanding < BusyMod
    PROVE  Spec => []BusyCounts
BY IterationTypeOK, StableInit, StableStep, PTL DEF Spec

\* No walk ever reads a buffer that has been changed, moved or freed since it
\* began, if fewer than BusyMod walks of a string are outstanding.
THEOREM IterationIsStable ==
    ASSUME MaxOutstanding < BusyMod
    PROVE  Spec => []IterationStable
BY IterationTypeOK, StableInit, StableStep, PTL DEF Spec

-----------------------------------------------------------------------------
\* What a step does to a buffer it may not do to a frozen string's.
LEMMA FrozenStep ==
    TypeOK /\ [Next]_vars
      => [\A s \in Strings : frozen[s] => buffer'[s] = buffer[s]]_vars
<1> SUFFICES ASSUME TypeOK, Next, NEW s \in Strings, frozen[s]
             PROVE  buffer'[s] = buffer[s]
  OBVIOUS
<1>1. ASSUME NEW t \in Threads, GsubFinish(t)
      PROVE  buffer'[s] = buffer[s]
  <2> DEFINE r == frame[Top(t)].str
  <2>1. r \in Strings
    BY <1>1, TopFrame DEF GsubFinish, Inside, WellFormed, Frames
  <2>2. CASE UNCHANGED buffer
    BY <2>2
  <2>3. CASE MayReplace(r) /\ \E x \in Texts : Store(r, x)
    <3>1. r # s
      BY <2>3 DEF MayReplace
    <3> QED
      BY <2>1, <2>3, <3>1, StoreOthers
  <2> QED
    BY <1>1, <2>2, <2>3 DEF GsubFinish
<1>2. ASSUME NEW r \in Strings, ModifyUnits(r) \/ Strip(r) \/ ChangeCase(r)
      PROVE  buffer'[s] = buffer[s]
  <2>1. r # s
    BY <1>2 DEF ModifyUnits, Strip, ChangeCase, MayModify
  <2>2. CASE ModifyUnits(r)
    BY <2>1, <2>2, StoreOthers DEF ModifyUnits
  <2>3. CASE Strip(r) \/ ChangeCase(r)
    BY <2>1, <2>3 DEF Strip, ChangeCase, TypeOK
  <2> QED
    BY <1>2, <2>2, <2>3
<1>3. ASSUME NEW r \in Strings, NEW kind \in {"gsub"} \cup InPlace, NEW re \in Regexps,
             GsubString(r, kind, re)
      PROVE  buffer'[s] = buffer[s]
  <2>1. buffer' = buffer \/ (~frozen[r] /\ \E x \in Texts : Store(r, x))
    BY <1>3 DEF GsubString, MayModify
  <2> QED
    BY <2>1, StoreOthers
<1>4. ASSUME NEW t \in Threads, EachNext(t) \/ EachEnd(t) \/ ScanNext(t) \/ ScanEnd(t)
               \/ GsubNext(t) \/ GsubModified(t) \/ Abandon(t)
      PROVE  buffer' = buffer
  BY <1>4 DEF EachNext, EachEnd, ScanNext, ScanEnd, GsubNext, GsubModified, Abandon
<1>5. ASSUME NEW t \in Threads, NEW r \in Strings, NEW pat \in Regexps \cup {NoPattern},
             EachBegin(t, r) \/ ScanBegin(t, r, pat)
               \/ \E kind \in {"gsub"} \cup InPlace : GsubBegin(t, r, kind, pat)
      PROVE  buffer' = buffer
  BY <1>5 DEF EachBegin, ScanBegin, GsubBegin
<1>6. ASSUME NEW re \in Regexps, NEW r \in Strings, NEW pos \in {0, 1},
             UseRegexp(re, r, pos)
      PROVE  buffer' = buffer
  BY <1>6 DEF UseRegexp
<1>7. /\ (\E r \in Strings : Freeze(r)) => buffer' = buffer
      /\ (\E re \in Regexps : Reinitialize(re) \/ ReinitializeFails(re)) => buffer' = buffer
  BY DEF Freeze, Reinitialize, ReinitializeFails
<1>8. (\E t \in Threads, r \in Strings : EachBegin(t, r)) => buffer' = buffer
  BY DEF EachBegin
<1>9. ASSUME NEW r \in Strings, NEW pat \in Regexps \cup {NoPattern},
             \/ ScanBeginRaises(r, pat)
             \/ \E kind \in {"gsub"} \cup InPlace : GsubBeginRaises(r, kind, pat)
      PROVE  buffer' = buffer
  BY <1>9 DEF ScanBeginRaises, GsubBeginRaises
<1> QED
  BY <1>1, <1>2, <1>3, <1>4, <1>5, <1>6, <1>7, <1>8, <1>9 DEF Next, Resume

\* A frozen string is never changed, not even by the gsub! or sub! whose block
\* froze it.
THEOREM FrozenStringsKeepTheirText == Spec => FrozenKeepsItsText
BY IterationTypeOK, FrozenStep, PTL DEF Spec, FrozenKeepsItsText

-----------------------------------------------------------------------------
\* A new handle is neither a URegexp's nor a gsub's.
LEMMA FreshHandle ==
    ASSUME TypeOK, FreeHandles # {}
    PROVE  /\ NewHandle \in Handles
           /\ \A re \in Regexps : matcher[re] # NewHandle
           /\ \A p \in GsubSlots : frame[p].pat # NewHandle
BY NewHandleFree DEF FreeHandles

\* What a gsub frame holds.
LEMMA GsubFrames ==
    ASSUME TypeOK
    PROVE  \A p \in GsubSlots : /\ p \in Slots /\ p \in Occupied
                                /\ IsGsub(frame[p])
                                /\ frame[p].pat \in Handles
BY DEF TypeOK, GsubSlots, Occupied

\* A step that only takes gsub frames away, and moves no handle of the ones
\* that stay, keeps the property.
LEMMA MatchKept ==
    ASSUME TypeOK, GsubKeepsItsMatch, GsubSlots' \subseteq GsubSlots,
           \A p \in GsubSlots' : /\ frame'[p] = frame[p]
                                 /\ target'[frame[p].pat] = target[frame[p].pat]
                                 /\ \A r \in Regexps : matcher'[r] # frame[p].pat,
           \A q, r \in Regexps : q # r /\ matcher'[q] = matcher'[r] => matcher'[q] = NoHandle
    PROVE  GsubKeepsItsMatch'
BY DEF GsubKeepsItsMatch, HandlesHaveOneOwner

\* A URegexp that gets a new handle owns it alone.
LEMMA NewOwner ==
    ASSUME TypeOK, HandlesHaveOneOwner, FreeHandles # {}, NEW re \in Regexps,
           matcher' = [matcher EXCEPT ![re] = NewHandle]
    PROVE  /\ \A q, r \in Regexps : q # r /\ matcher'[q] = matcher'[r] => matcher'[q] = NoHandle
           /\ \A p \in GsubSlots, r \in Regexps : matcher'[r] # frame[p].pat
           /\ \A r \in Regexps : matcher'[r] = IF r = re THEN NewHandle ELSE matcher[r]
<1>1. \A r \in Regexps : matcher'[r] = IF r = re THEN NewHandle ELSE matcher[r]
  BY DEF TypeOK
<1> QED
  BY <1>1, FreshHandle DEF HandlesHaveOneOwner

\* A URegexp that is left with none shares none.
LEMMA NullOwner ==
    ASSUME TypeOK, HandlesHaveOneOwner, NEW re \in Regexps,
           matcher' = [matcher EXCEPT ![re] = NoHandle]
    PROVE  /\ \A q, r \in Regexps : q # r /\ matcher'[q] = matcher'[r] => matcher'[q] = NoHandle
           /\ \A p \in GsubSlots, r \in Regexps : matcher'[r] # frame[p].pat
<1>1. \A r \in Regexps : matcher'[r] = IF r = re THEN NoHandle ELSE matcher[r]
  BY DEF TypeOK
<1> QED
  BY <1>1, SentinelAssumption, GsubFrames DEF HandlesHaveOneOwner

\* A gsub that takes a handle over owns it alone, and leaves a new one behind.
LEMMA TakenOverOwner ==
    ASSUME TypeOK, HandlesHaveOneOwner, FreeHandles # {},
           NEW pat \in Regexps \cup {NoPattern}, Usable(pat), matcher' = LeftBehind(pat, NewHandle)
    PROVE  /\ \A q, r \in Regexps : q # r /\ matcher'[q] = matcher'[r] => matcher'[q] = NoHandle
           /\ \A r \in Regexps : matcher'[r] # TakenOver(pat, NewHandle)
           /\ \A p \in GsubSlots : frame[p].pat # TakenOver(pat, NewHandle)
           /\ \A p \in GsubSlots, r \in Regexps : matcher'[r] # frame[p].pat
<1>1. CASE pat = NoPattern
  BY <1>1, FreshHandle DEF TakenOver, LeftBehind, HandlesHaveOneOwner
<1>2. CASE pat # NoPattern
  <2> DEFINE h == matcher[pat]
  <2>1. /\ pat \in Regexps /\ TakenOver(pat, NewHandle) = h
        /\ matcher' = [matcher EXCEPT ![pat] = NewHandle]
    BY <1>2 DEF TakenOver, LeftBehind
  <2>2. /\ \A q, r \in Regexps : q # r /\ matcher'[q] = matcher'[r] => matcher'[q] = NoHandle
        /\ \A p \in GsubSlots, r \in Regexps : matcher'[r] # frame[p].pat
        /\ \A r \in Regexps : matcher'[r] = IF r = pat THEN NewHandle ELSE matcher[r]
    BY <2>1, NewOwner
  <2>3. \A r \in Regexps : matcher'[r] # h
    BY <1>2, <2>1, <2>2, FreshHandle DEF HandlesHaveOneOwner, Usable
  <2>4. \A p \in GsubSlots : frame[p].pat # h
    BY <2>1 DEF HandlesHaveOneOwner
  <2> QED
    BY <2>1, <2>2, <2>3, <2>4
<1> QED
  BY <1>1, <1>2

\* A walk of another kind that is pushed, moved or popped is no gsub's business,
\* as long as it uses the handles of URegexps.
LEMMA SearchKept ==
    ASSUME TypeOK, GsubKeepsItsMatch, NEW s, NEW pos,
           NEW pat \in Regexps \cup {NoPattern}, Usable(pat), SearchWith(pat, s, pos)
    PROVE  \A p \in GsubSlots : target'[frame[p].pat] = target[frame[p].pat]
<1>1. CASE pat = NoPattern
  BY <1>1 DEF SearchWith
<1>2. CASE pat # NoPattern
  <2>1. pat \in Regexps /\ matcher[pat] \in Handles
    BY <1>2, UsableHandle
  <2>2. \A h \in Handles : h # matcher[pat] => target'[h] = target[h]
    BY <1>2, <2>1 DEF SearchWith, Search, TypeOK
  <2> QED
    BY <2>1, <2>2, GsubFrames DEF GsubKeepsItsMatch, HandlesHaveOneOwner
<1> QED
  BY <1>1, <1>2

\* How a push, a pop and a yield change the set of gsubs under way.
LEMMA PushGsubSlots ==
    ASSUME TypeOK, NEW t \in Threads, NEW f, WellFormed(f), Push(t, f)
    PROVE  /\ GsubSlots' = IF IsGsub(f) THEN GsubSlots \cup {NewSlot(t)} ELSE GsubSlots
           /\ NewSlot(t) \notin GsubSlots
           /\ frame'[NewSlot(t)] = f
           /\ \A p \in GsubSlots : frame'[p] = frame[p]
<1>1. /\ NewSlot(t) \in Slots \ Occupied
      /\ frame'[NewSlot(t)] = f
      /\ \A p \in Slots : p # NewSlot(t) => frame'[p] = frame[p]
      /\ Occupied' = Occupied \cup {NewSlot(t)}
  BY PushFills
<1>2. Occupied \subseteq Slots
  BY DEF Occupied
<1> QED
  BY <1>1, <1>2 DEF GsubSlots, IsGsub

\* A pop takes the walk on top, gsub or not.
LEMMA PopGsubSlots ==
    ASSUME TypeOK, NEW t \in Threads, depth[t] > 0, Pop(t)
    PROVE  /\ GsubSlots' = GsubSlots \ {Top(t)}
           /\ \A p \in GsubSlots' : frame'[p] = frame[p]
<1>1. /\ \A p \in Slots : p # Top(t) => frame'[p] = frame[p]
      /\ Occupied' = Occupied \ {Top(t)}
  BY PopEmpties
<1>2. Occupied \subseteq Slots
  BY DEF Occupied
<1> QED
  BY <1>1, <1>2 DEF GsubSlots, IsGsub

\* A yield leaves the set as it is.
LEMMA YieldGsubSlots ==
    ASSUME TypeOK, NEW t \in Threads, depth[t] > 0, NEW f, WellFormed(f), Yield(t, f),
           f.kind = frame[Top(t)].kind
    PROVE  /\ GsubSlots' = GsubSlots
           /\ frame'[Top(t)] = f
           /\ \A p \in GsubSlots : p # Top(t) => frame'[p] = frame[p]
<1>1. /\ Top(t) \in Occupied
      /\ frame'[Top(t)] = f
      /\ \A p \in Slots : p # Top(t) => frame'[p] = frame[p]
      /\ Occupied' = Occupied
  BY YieldKeepsStack, TopFrame
<1>2. Occupied \subseteq Slots
  BY DEF Occupied
<1> QED
  BY <1>1, <1>2 DEF GsubSlots, IsGsub

\* Dropping the handle of the walk on top leaves the other gsubs' handles alone.
LEMMA PopMatch ==
    ASSUME TypeOK, GsubKeepsItsMatch, NEW t \in Threads, depth[t] > 0, Pop(t),
           DropHandle(frame[Top(t)]), UNCHANGED matcher
    PROVE  GsubKeepsItsMatch'
<1> DEFINE f == frame[Top(t)]
<1>1. Top(t) \in Occupied /\ WellFormed(f)
  BY TopFrame
<1>2. GsubSlots' = GsubSlots \ {Top(t)} /\ \A p \in GsubSlots' : frame'[p] = frame[p]
  BY PopGsubSlots
<1>3. \A p \in GsubSlots' : target'[frame[p].pat] = target[frame[p].pat]
  <2>1. CASE ~IsGsub(f)
    BY <2>1 DEF DropHandle
  <2>2. CASE IsGsub(f)
    <3>1. Top(t) \in GsubSlots
      BY <1>1, <2>2 DEF GsubSlots
    <3>2. \A h \in Handles : h # f.pat => target'[h] = target[h]
      BY <2>2 DEF DropHandle, TypeOK
    <3> QED
      BY <1>2, <3>1, <3>2, GsubFrames DEF GsubKeepsItsMatch, HandlesHaveOneOwner
  <2> QED
    BY <2>1, <2>2
<1> QED
  BY <1>2, <1>3, MatchKept DEF GsubKeepsItsMatch, HandlesHaveOneOwner

\* Every step keeps each gsub's match where the gsub left it.
LEMMA MatchStep ==
    TypeOK /\ IterationStable /\ GsubKeepsItsMatch /\ [Next]_vars => GsubKeepsItsMatch'
<1> SUFFICES ASSUME TypeOK, IterationStable, GsubKeepsItsMatch, [Next]_vars
             PROVE  GsubKeepsItsMatch'
  OBVIOUS
<1>0. /\ \A q, r \in Regexps : q # r /\ matcher[q] = matcher[r] => matcher[q] = NoHandle
      /\ \A p \in GsubSlots, r \in Regexps : matcher[r] # frame[p].pat
      /\ \A p, q \in GsubSlots : q # p => frame[q].pat # frame[p].pat
      /\ \A p \in GsubSlots : target[frame[p].pat] = [buf |-> frame[p].seen, pos |-> frame[p].n]
  BY DEF GsubKeepsItsMatch, HandlesHaveOneOwner
<1>1. ASSUME NEW t \in Threads, NEW s \in Strings, EachBegin(t, s)
      PROVE  GsubKeepsItsMatch'
  <2> DEFINE f == [kind |-> "each", str |-> s, seen |-> buffer[s], n |-> 1,
                   pat |-> NoPattern]
  <2>1. WellFormed(f) /\ Push(t, f) /\ UNCHANGED <<matcher, target>>
    BY <1>1, FirstFrames DEF EachBegin
  <2>2. ~IsGsub(f)
    BY DEF IsGsub, InPlace
  <2>3. GsubSlots' = GsubSlots /\ \A p \in GsubSlots : frame'[p] = frame[p]
    BY <2>1, <2>2, PushGsubSlots
  <2> QED
    BY <1>0, <2>1, <2>3, MatchKept
<1>2. ASSUME NEW t \in Threads, NEW s \in Strings,
             NEW pat \in Regexps \cup {NoPattern}, ScanBegin(t, s, pat)
      PROVE  GsubKeepsItsMatch'
  <2> DEFINE f == [kind |-> "scan", str |-> s, seen |-> buffer[s], n |-> 1, pat |-> pat]
  <2>1. /\ WellFormed(f) /\ Push(t, f) /\ UNCHANGED matcher
        /\ Usable(pat) /\ SearchWith(pat, s, 1)
    BY <1>2, FirstFrames DEF ScanBegin
  <2>2. ~IsGsub(f)
    BY DEF IsGsub, InPlace
  <2>3. GsubSlots' = GsubSlots /\ \A p \in GsubSlots : frame'[p] = frame[p]
    BY <2>1, <2>2, PushGsubSlots
  <2>4. \A p \in GsubSlots : target'[frame[p].pat] = target[frame[p].pat]
    BY <2>1, SearchKept
  <2> QED
    BY <1>0, <2>1, <2>3, <2>4, MatchKept
<1>3. ASSUME NEW t \in Threads, NEW s \in Strings, NEW pat \in Regexps \cup {NoPattern},
             NEW kind \in {"gsub"} \cup InPlace, GsubBegin(t, s, kind, pat)
      PROVE  GsubKeepsItsMatch'
  <2> DEFINE h == TakenOver(pat, NewHandle)
             f == [kind |-> kind, str |-> s, seen |-> buffer[s], n |-> 1, pat |-> h]
             here == [buf |-> buffer[s], pos |-> 1]
  <2>1. Usable(pat) /\ FreeHandles # {} /\ Push(t, f) /\ matcher' = LeftBehind(pat, NewHandle)
    BY <1>3 DEF GsubBegin
  <2>2. target' = [target EXCEPT ![NewHandle] = NoText, ![h] = here]
    BY <1>3 DEF GsubBegin
  <2>3. WellFormed(f) /\ NewHandle \in Handles /\ h \in Handles
    BY <2>1, FreshHandle, FirstFrames
  <2>4. IsGsub(f)
    BY DEF IsGsub, InPlace
  <2>5. /\ GsubSlots' = GsubSlots \cup {NewSlot(t)} /\ NewSlot(t) \notin GsubSlots
        /\ frame'[NewSlot(t)] = f
        /\ \A p \in GsubSlots : frame'[p] = frame[p]
    BY <2>1, <2>3, <2>4, PushGsubSlots
  <2>6. /\ \A q, r \in Regexps : q # r /\ matcher'[q] = matcher'[r] => matcher'[q] = NoHandle
        /\ \A r \in Regexps : matcher'[r] # h
        /\ \A p \in GsubSlots : frame[p].pat # h
        /\ \A p \in GsubSlots, r \in Regexps : matcher'[r] # frame[p].pat
    BY <2>1, TakenOverOwner DEF GsubKeepsItsMatch
  <2>7. target'[h] = here
    BY <2>2, <2>3 DEF TypeOK
  <2>8. \A p \in GsubSlots : target'[frame[p].pat] = target[frame[p].pat]
    BY <2>1, <2>2, <2>3, <2>6, GsubFrames, FreshHandle DEF TypeOK
  <2>9. HandlesHaveOneOwner'
    BY <1>0, <2>5, <2>6 DEF HandlesHaveOneOwner
  <2>10. \A p \in GsubSlots' :
           target'[frame'[p].pat] = [buf |-> frame'[p].seen, pos |-> frame'[p].n]
    BY <1>0, <2>5, <2>7, <2>8
  <2> QED
    BY <2>9, <2>10 DEF GsubKeepsItsMatch
<1>4. ASSUME NEW t \in Threads, EachNext(t) \/ ScanNext(t)
      PROVE  GsubKeepsItsMatch'
  <2> DEFINE f == frame[Top(t)]
             g == [f EXCEPT !.n = @ + 1]
  <2>1. /\ depth[t] > 0 /\ f.kind \in {"each", "scan"} /\ Yield(t, g)
        /\ UNCHANGED matcher
    BY <1>4 DEF EachNext, ScanNext, Inside
  <2>2. Top(t) \in Occupied /\ WellFormed(f)
    BY <2>1, TopFrame
  <2>3. /\ WellFormed(g) /\ g.kind = f.kind
        /\ f.str \in Strings /\ f.seen \in Buffers
        /\ f.pat \in Regexps \cup {NoPattern}
    <3>1. f.str \in Strings /\ f.seen \in Buffers /\ g.kind = f.kind
      BY <2>2 DEF WellFormed, Frames
    <3>2. f.pat \in Regexps \cup {NoPattern}
      BY <2>1, <2>2 DEF WellFormed, IsGsub, InPlace
    <3> QED
      BY <2>2, <3>1, <3>2, NextFrame
  <2>4. Top(t) \notin GsubSlots
    BY <2>1 DEF GsubSlots, IsGsub, InPlace
  <2>5. GsubSlots' = GsubSlots /\ \A p \in GsubSlots : frame'[p] = frame[p]
    BY <2>1, <2>3, <2>4, YieldGsubSlots
  <2>6. \A p \in GsubSlots : target'[frame[p].pat] = target[frame[p].pat]
    <3>1. CASE EachNext(t)
      BY <3>1 DEF EachNext
    <3>2. CASE ScanNext(t)
      BY <2>3, <3>2, SearchKept DEF ScanNext
    <3> QED
      BY <1>4, <3>1, <3>2
  <2> QED
    BY <1>0, <2>1, <2>5, <2>6, MatchKept
<1>5. ASSUME NEW t \in Threads, EachEnd(t) \/ ScanEnd(t)
      PROVE  GsubKeepsItsMatch'
  <2> DEFINE f == frame[Top(t)]
  <2>1. depth[t] > 0 /\ f.kind \in {"each", "scan"} /\ Pop(t) /\ UNCHANGED matcher
    BY <1>5 DEF EachEnd, ScanEnd, Inside, Release
  <2>2. GsubSlots' \subseteq GsubSlots /\ \A p \in GsubSlots' : frame'[p] = frame[p]
    BY <2>1, PopGsubSlots
  <2>3. \A p \in GsubSlots : target'[frame[p].pat] = target[frame[p].pat]
    <3>1. CASE EachEnd(t)
      BY <3>1 DEF EachEnd
    <3>2. CASE ScanEnd(t)
      <4>1. f.pat \in Regexps \cup {NoPattern}
        BY <2>1, TopFrame DEF WellFormed, IsGsub, InPlace
      <4> QED
        BY <3>2, <4>1, SearchKept DEF ScanEnd
    <3> QED
      BY <1>5, <3>1, <3>2
  <2> QED
    BY <1>0, <2>1, <2>2, <2>3, MatchKept
<1>6. ASSUME NEW t \in Threads, GsubNext(t)
      PROVE  GsubKeepsItsMatch'
  <2> DEFINE f == frame[Top(t)]
             g == [f EXCEPT !.n = @ + 1, !.seen = buffer[f.str]]
  <2>1. depth[t] > 0 /\ IsGsub(f) /\ Yield(t, g) /\ UNCHANGED matcher
    BY <1>6 DEF GsubNext, Inside, IsGsub, InPlace
  <2>2. Top(t) \in Occupied /\ Top(t) \in GsubSlots /\ WellFormed(f) /\ f.pat \in Handles
    BY <2>1, TopFrame DEF GsubSlots, WellFormed
  <2>3. buffer[f.str] \in Buffers /\ f.seen = buffer[f.str]
    BY <2>2 DEF WellFormed, Frames, TypeOK, IterationStable
  <2>4. WellFormed(g)
    BY <2>2, <2>3, NextFrame
  <2>5. g.kind = f.kind /\ g.pat = f.pat /\ g.seen = f.seen /\ g.n = f.n + 1
    BY <2>2, <2>3 DEF WellFormed, Frames
  <2>6. /\ GsubSlots' = GsubSlots /\ frame'[Top(t)] = g
        /\ \A p \in GsubSlots : p # Top(t) => frame'[p] = frame[p]
    BY <2>1, <2>4, <2>5, YieldGsubSlots
  <2>7. target[f.pat] = [buf |-> f.seen, pos |-> f.n]
    BY <1>0, <2>2
  <2>8. target'[f.pat] = [buf |-> f.seen, pos |-> f.n + 1]
    BY <1>6, <2>2, <2>7 DEF GsubNext, TypeOK
  <2>9. \A p \in GsubSlots : p # Top(t) => target'[frame[p].pat] = target[frame[p].pat]
    <3>1. \A h \in Handles : h # f.pat => target'[h] = target[h]
      BY <1>6 DEF GsubNext, TypeOK
    <3> QED
      BY <1>0, <2>2, <3>1, GsubFrames
  <2>10. \A p \in GsubSlots : frame'[p].pat = frame[p].pat
    BY <2>5, <2>6
  <2>11. HandlesHaveOneOwner'
    BY <1>0, <2>1, <2>6, <2>10 DEF HandlesHaveOneOwner
  <2>12. \A p \in GsubSlots :
           target'[frame'[p].pat] = [buf |-> frame'[p].seen, pos |-> frame'[p].n]
    <3> SUFFICES ASSUME NEW p \in GsubSlots
                 PROVE  target'[frame'[p].pat] = [buf |-> frame'[p].seen, pos |-> frame'[p].n]
      OBVIOUS
    <3> HIDE DEF g
    <3>1. CASE p = Top(t)
      BY <2>5, <2>6, <2>8, <3>1
    <3>2. CASE p # Top(t)
      BY <1>0, <2>6, <2>9, <3>2
    <3> QED
      BY <3>1, <3>2
  <2> QED
    BY <2>6, <2>11, <2>12 DEF GsubKeepsItsMatch
<1>7. ASSUME NEW t \in Threads, GsubModified(t) \/ Abandon(t) \/ GsubFinish(t)
      PROVE  GsubKeepsItsMatch'
  <2>1. depth[t] > 0 /\ Pop(t) /\ DropHandle(frame[Top(t)]) /\ UNCHANGED matcher
    BY <1>7 DEF GsubModified, Abandon, GsubFinish, Inside, Release
  <2> QED
    BY <2>1, PopMatch
<1>8. ASSUME UNCHANGED <<frame, matcher, target>>
      PROVE  GsubKeepsItsMatch'
  <2>1. GsubSlots' = GsubSlots
    BY <1>8 DEF GsubSlots, Occupied, IsGsub, Slots
  <2> QED
    BY <1>0, <1>8, <2>1, MatchKept
<1>9. ASSUME NEW re \in Regexps, NEW s \in Strings, NEW pos \in {0, 1}, UseRegexp(re, s, pos)
      PROVE  GsubKeepsItsMatch'
  <2>1. GsubSlots' = GsubSlots /\ UNCHANGED <<frame, matcher>>
    BY <1>9 DEF UseRegexp, GsubSlots, Occupied, IsGsub, Slots
  <2>2. \A h \in Handles : h # matcher[re] => target'[h] = target[h]
    BY <1>9 DEF UseRegexp, Search, TypeOK
  <2>3. \A p \in GsubSlots : target'[frame[p].pat] = target[frame[p].pat]
    BY <1>0, <2>2, GsubFrames
  <2> QED
    BY <1>0, <2>1, <2>3, MatchKept
<1>10. ASSUME NEW re \in Regexps,
              \/ Reinitialize(re)
              \/ \E s \in Strings, kind \in {"gsub"} \cup InPlace : GsubString(s, kind, re)
       PROVE  GsubKeepsItsMatch'
  <2>1. /\ FreeHandles # {} /\ matcher' = [matcher EXCEPT ![re] = NewHandle]
        /\ UNCHANGED frame
    BY <1>10 DEF Reinitialize, GsubString
  <2>2. GsubSlots' = GsubSlots
    BY <2>1 DEF GsubSlots, Occupied, IsGsub, Slots
  <2>3. \A h \in Handles : h # matcher[re] /\ h # NewHandle => target'[h] = target[h]
    BY <1>10, WithoutType DEF Reinitialize, GsubString
  <2>4. \A p \in GsubSlots : target'[frame[p].pat] = target[frame[p].pat]
    BY <1>0, <2>1, <2>3, GsubFrames, FreshHandle
  <2> QED
    BY <2>1, <2>2, <2>4, NewOwner, MatchKept DEF GsubKeepsItsMatch
<1>11. (\E s \in Strings : Freeze(s) \/ ModifyUnits(s) \/ Strip(s) \/ ChangeCase(s))
         => UNCHANGED <<frame, matcher, target>>
  BY DEF Freeze, ModifyUnits, Strip, ChangeCase, Unmoved
<1>12. UNCHANGED vars => UNCHANGED <<frame, matcher, target>>
  BY DEF vars
<1>13. ASSUME NEW re \in Regexps, ReinitializeFails(re)
       PROVE  GsubKeepsItsMatch'
  <2>1. matcher' = [matcher EXCEPT ![re] = NoHandle] /\ UNCHANGED frame
    BY <1>13 DEF ReinitializeFails
  <2>2. GsubSlots' = GsubSlots
    BY <2>1 DEF GsubSlots, Occupied, IsGsub, Slots
  <2>3. \A h \in Handles : h # matcher[re] => target'[h] = target[h]
    BY <1>13, WithoutType DEF ReinitializeFails
  <2>4. \A p \in GsubSlots : target'[frame[p].pat] = target[frame[p].pat]
    BY <1>0, <2>3, GsubFrames
  <2> QED
    BY <2>1, <2>2, <2>4, NullOwner, MatchKept DEF GsubKeepsItsMatch
<1>14. ASSUME NEW s \in Strings, NEW pat \in Regexps \cup {NoPattern},
              ScanBeginRaises(s, pat)
       PROVE  GsubKeepsItsMatch'
  BY <1>8, <1>14 DEF ScanBeginRaises, RaiseBusy
<1>15. ASSUME NEW s \in Strings, NEW pat \in Regexps \cup {NoPattern},
              NEW kind \in {"gsub"} \cup InPlace, GsubBeginRaises(s, kind, pat)
       PROVE  GsubKeepsItsMatch'
  <2>1. Usable(pat) /\ SearchWith(pat, s, 1) /\ UNCHANGED <<frame, matcher>>
    BY <1>15 DEF GsubBeginRaises, RaiseBusy
  <2>2. GsubSlots' = GsubSlots
    BY <2>1 DEF GsubSlots, Occupied, IsGsub, Slots
  <2>3. \A p \in GsubSlots : target'[frame[p].pat] = target[frame[p].pat]
    BY <2>1, SearchKept
  <2> QED
    BY <1>0, <2>1, <2>2, <2>3, MatchKept
<1> QED
  BY <1>1, <1>2, <1>3, <1>4, <1>5, <1>6, <1>7, <1>8, <1>9, <1>10, <1>11, <1>12, <1>13,
     <1>14, <1>15 DEF Next, Resume

\* No gsub is under way at the start.
LEMMA MatchInit == Init => GsubKeepsItsMatch
<1> SUFFICES ASSUME Init PROVE GsubKeepsItsMatch
  OBVIOUS
<1>1. GsubSlots = {}
  BY DEF Init, GsubSlots, Occupied
<1> QED
  BY <1>1 DEF Init, GsubKeepsItsMatch, HandlesHaveOneOwner

\* A gsub's matcher is its own: whatever its block does with the same URegexp,
\* the next match is looked for after the gsub's last one, in the gsub's text.
THEOREM GsubIsUndisturbed ==
    ASSUME MaxOutstanding < BusyMod
    PROVE  Spec => []GsubKeepsItsMatch
BY IterationTypeOK, IterationIsStable, MatchInit, MatchStep, PTL DEF Spec

-----------------------------------------------------------------------------
\* Every step leaves each handle with one owner, also when the counter of a string
\* has come round and its buffer is changed under the walk.
LEMMA OwnerStep == TypeOK /\ HandlesHaveOneOwner /\ [Next]_vars => HandlesHaveOneOwner'
<1> SUFFICES ASSUME TypeOK, HandlesHaveOneOwner, [Next]_vars
             PROVE  HandlesHaveOneOwner'
  OBVIOUS
<1>0. /\ \A q, r \in Regexps : q # r /\ matcher[q] = matcher[r] => matcher[q] = NoHandle
      /\ \A p \in GsubSlots, r \in Regexps : matcher[r] # frame[p].pat
      /\ \A p, q \in GsubSlots : q # p => frame[q].pat # frame[p].pat
  BY DEF HandlesHaveOneOwner
<1>1. ASSUME UNCHANGED matcher, GsubSlots' \subseteq GsubSlots,
             \A p \in GsubSlots' : frame'[p].pat = frame[p].pat
      PROVE  HandlesHaveOneOwner'
  BY <1>0, <1>1 DEF HandlesHaveOneOwner
<1>2. ASSUME NEW t \in Threads, NEW f, WellFormed(f), ~IsGsub(f), Push(t, f),
             UNCHANGED matcher
      PROVE  HandlesHaveOneOwner'
  BY <1>1, <1>2, PushGsubSlots
<1>3. ASSUME NEW t \in Threads, NEW s \in Strings,
             EachBegin(t, s) \/ \E pat \in Regexps \cup {NoPattern} : ScanBegin(t, s, pat)
      PROVE  HandlesHaveOneOwner'
  <2>1. CASE EachBegin(t, s)
    BY <1>2, <2>1, FirstFrames DEF EachBegin, IsGsub, InPlace
  <2>2. ASSUME NEW pat \in Regexps \cup {NoPattern}, ScanBegin(t, s, pat)
        PROVE  HandlesHaveOneOwner'
    BY <1>2, <2>2, FirstFrames DEF ScanBegin, IsGsub, InPlace
  <2> QED
    BY <1>3, <2>1, <2>2
<1>4. ASSUME NEW t \in Threads, NEW s \in Strings, NEW pat \in Regexps \cup {NoPattern},
             NEW kind \in {"gsub"} \cup InPlace, GsubBegin(t, s, kind, pat)
      PROVE  HandlesHaveOneOwner'
  <2> DEFINE h == TakenOver(pat, NewHandle)
             f == [kind |-> kind, str |-> s, seen |-> buffer[s], n |-> 1, pat |-> h]
  <2>1. Usable(pat) /\ FreeHandles # {} /\ Push(t, f) /\ matcher' = LeftBehind(pat, NewHandle)
    BY <1>4 DEF GsubBegin
  <2>2. WellFormed(f) /\ IsGsub(f)
    BY <2>1, NewHandleFree, FirstFrames DEF IsGsub, InPlace
  <2>3. /\ GsubSlots' = GsubSlots \cup {NewSlot(t)}
        /\ frame'[NewSlot(t)] = f
        /\ \A p \in GsubSlots : frame'[p] = frame[p]
    BY <2>1, <2>2, PushGsubSlots
  <2> QED
    BY <1>0, <2>1, <2>3, TakenOverOwner DEF HandlesHaveOneOwner
<1>5. ASSUME NEW t \in Threads, EachNext(t) \/ ScanNext(t) \/ GsubNext(t)
      PROVE  HandlesHaveOneOwner'
  <2> DEFINE f == frame[Top(t)]
             g == [f EXCEPT !.n = @ + 1]
             k == [f EXCEPT !.n = @ + 1, !.seen = buffer[f.str]]
  <2>1. depth[t] > 0 /\ (Yield(t, g) \/ Yield(t, k)) /\ UNCHANGED matcher
    BY <1>5 DEF EachNext, ScanNext, GsubNext, Inside
  <2>2. WellFormed(f) /\ f \in Frames /\ buffer[f.str] \in Buffers
    BY <2>1, TopFrame DEF WellFormed, Frames, TypeOK
  <2>3. WellFormed(g) /\ WellFormed(k)
    BY <2>2, NextFrame
  <2>4. g.kind = f.kind /\ k.kind = f.kind /\ g.pat = f.pat /\ k.pat = f.pat
    BY <2>2 DEF Frames
  <2> HIDE DEF g, k
  <2>5. /\ GsubSlots' = GsubSlots
        /\ frame'[Top(t)].pat = f.pat
        /\ \A p \in GsubSlots : p # Top(t) => frame'[p] = frame[p]
    BY <2>1, <2>3, <2>4, YieldGsubSlots
  <2> QED
    BY <1>1, <2>1, <2>5
<1>6. ASSUME NEW t \in Threads,
             EachEnd(t) \/ ScanEnd(t) \/ GsubModified(t) \/ Abandon(t) \/ GsubFinish(t)
      PROVE  HandlesHaveOneOwner'
  <2>1. depth[t] > 0 /\ Pop(t) /\ UNCHANGED matcher
    BY <1>6 DEF EachEnd, ScanEnd, GsubModified, Abandon, GsubFinish, Inside, Release
  <2>2. GsubSlots' \subseteq GsubSlots /\ \A p \in GsubSlots' : frame'[p] = frame[p]
    BY <2>1, PopGsubSlots
  <2> QED
    BY <1>1, <2>1, <2>2
<1>7. ASSUME NEW re \in Regexps,
             \/ Reinitialize(re)
             \/ \E s \in Strings, kind \in {"gsub"} \cup InPlace : GsubString(s, kind, re)
      PROVE  HandlesHaveOneOwner'
  <2>1. /\ FreeHandles # {} /\ matcher' = [matcher EXCEPT ![re] = NewHandle]
        /\ UNCHANGED frame
    BY <1>7 DEF Reinitialize, GsubString
  <2>2. GsubSlots' = GsubSlots
    BY <2>1 DEF GsubSlots, Occupied, IsGsub, Slots
  <2>3. /\ \A q, r \in Regexps : q # r /\ matcher'[q] = matcher'[r] => matcher'[q] = NoHandle
        /\ \A p \in GsubSlots, r \in Regexps : matcher'[r] # frame[p].pat
    BY <2>1, NewOwner
  <2>4. \A p \in GsubSlots : frame'[p].pat = frame[p].pat
    BY <2>1
  <2> QED
    BY <1>0, <2>2, <2>3, <2>4 DEF HandlesHaveOneOwner
<1>8. ASSUME UNCHANGED <<frame, matcher>>
      PROVE  HandlesHaveOneOwner'
  <2>1. GsubSlots' = GsubSlots
    BY <1>8 DEF GsubSlots, Occupied, IsGsub, Slots
  <2> QED
    BY <1>1, <1>8, <2>1
<1>9. /\ (\E s \in Strings : Freeze(s) \/ ModifyUnits(s) \/ Strip(s) \/ ChangeCase(s))
            => UNCHANGED <<frame, matcher>>
      /\ (\E re \in Regexps, s \in Strings, pos \in {0, 1} : UseRegexp(re, s, pos))
            => UNCHANGED <<frame, matcher>>
      /\ UNCHANGED vars => UNCHANGED <<frame, matcher>>
  BY DEF Freeze, ModifyUnits, Strip, ChangeCase, Unmoved, UseRegexp, vars
<1>10. ASSUME NEW s \in Strings, NEW pat \in Regexps \cup {NoPattern},
              \/ ScanBeginRaises(s, pat)
              \/ \E kind \in {"gsub"} \cup InPlace : GsubBeginRaises(s, kind, pat)
       PROVE  HandlesHaveOneOwner'
  BY <1>8, <1>10 DEF ScanBeginRaises, GsubBeginRaises, RaiseBusy
<1>11. ASSUME NEW re \in Regexps, ReinitializeFails(re)
       PROVE  HandlesHaveOneOwner'
  <2>1. matcher' = [matcher EXCEPT ![re] = NoHandle] /\ UNCHANGED frame
    BY <1>11 DEF ReinitializeFails
  <2>2. GsubSlots' = GsubSlots
    BY <2>1 DEF GsubSlots, Occupied, IsGsub, Slots
  <2>3. \A p \in GsubSlots : frame'[p].pat = frame[p].pat
    BY <2>1
  <2>4. /\ \A q, r \in Regexps : q # r /\ matcher'[q] = matcher'[r] => matcher'[q] = NoHandle
        /\ \A p \in GsubSlots, r \in Regexps : matcher'[r] # frame[p].pat
    BY <2>1, NullOwner
  <2> QED
    BY <1>0, <2>2, <2>3, <2>4 DEF HandlesHaveOneOwner
<1> QED
  BY <1>3, <1>4, <1>5, <1>6, <1>7, <1>8, <1>9, <1>10, <1>11 DEF Next, Resume

\* Whatever a block does and however many walks are outstanding, a matcher handle is
\* a URegexp's or one gsub's: icu_reg_clone never leaves two with the same.
THEOREM HandlesAlwaysHaveOneOwner == Spec => []HandlesHaveOneOwner
<1>1. Init => HandlesHaveOneOwner
  BY MatchInit DEF GsubKeepsItsMatch
<1> QED
  BY <1>1, IterationTypeOK, OwnerStep, PTL DEF Spec

-----------------------------------------------------------------------------
\* A remainder determines itself.
LEMMA SameRemainder ==
    ASSUME NEW m \in Nat \ {0}, NEW q \in Nat, NEW p \in Nat,
           NEW r \in 0 .. m - 1, NEW s \in 0 .. m - 1, m * q + r = m * p + s
    PROVE  r = s
<1>1. ASSUME NEW x \in Nat, NEW y \in Nat, x < y
      PROVE  m * y >= m * x + m
  <2>1. y - x - 1 \in Nat /\ y = x + 1 + (y - x - 1)
    BY <1>1
  <2>2. PICK d \in Nat : y = x + 1 + d
    BY <2>1
  <2>3. m * y = m * x + m + m * d /\ m * d \in Nat
    BY <2>2
  <2> QED
    BY <2>3
<1>2. ~(q < p) /\ ~(p < q)
  BY <1>1
<1> QED
  BY <1>2

\* Counting one more on a counter of width m.
LEMMA OneMore ==
    ASSUME NEW m \in Nat \ {0}, NEW n \in Nat
    PROVE  /\ n % m \in 0 .. m - 1
           /\ (n + 1) % m = IF (n % m) + 1 = m THEN 0 ELSE (n % m) + 1
<1> DEFINE q == n \div m
           p == (n + 1) \div m
           r == n % m
           s == (n + 1) % m
<1>1. \A k \in Nat : /\ k = (m * (k \div m)) + (k % m)
                      /\ k \div m \in Nat
                      /\ k % m \in 0 .. m - 1
  OBVIOUS
<1>2. /\ n = m * q + r /\ q \in Nat /\ r \in 0 .. m - 1
      /\ n + 1 = m * p + s /\ p \in Nat /\ s \in 0 .. m - 1
  BY <1>1, n + 1 \in Nat
<1> HIDE DEF q, p, r, s
<1>3. CASE r + 1 = m
  <2>1. m * (q + 1) + 0 = m * p + s
    BY <1>2, <1>3
  <2>2. 0 = s
    BY <1>2, <2>1, q + 1 \in Nat, 0 \in 0 .. m - 1, SameRemainder
  <2> QED
    BY <1>2, <1>3, <2>2 DEF r, s
<1>4. CASE r + 1 # m
  <2>1. m * q + (r + 1) = m * p + s
    BY <1>2
  <2>2. r + 1 = s
    BY <1>2, <1>4, <2>1, r + 1 \in 0 .. m - 1, SameRemainder
  <2> QED
    BY <1>2, <1>4, <2>2 DEF r, s
<1> QED
  BY <1>3, <1>4

\* What ++busy and --busy do to a counter of walks that may have come round.
LEMMA IncDecModulo ==
    ASSUME NEW n \in Nat
    PROVE  /\ n % BusyMod \in 0 .. BusyMod - 1
           /\ Inc(n % BusyMod) = (n + 1) % BusyMod
           /\ Dec((n + 1) % BusyMod) = n % BusyMod
<1> DEFINE b == n % BusyMod
<1>1. b \in 0 .. BusyMod - 1 /\ (n + 1) % BusyMod = IF b + 1 = BusyMod THEN 0 ELSE b + 1
  BY OneMore, BoundsAssumption
<1> HIDE DEF b
<1>2. Inc(b) = (n + 1) % BusyMod /\ Dec((n + 1) % BusyMod) = b
  BY <1>1, BoundsAssumption DEF Inc, Dec
<1> QED
  BY <1>1, <1>2 DEF b

\* Outstanding walks are counted.
LEMMA OutstandingType == TypeOK => \A s \in Strings : Outstanding(s) \in Nat
BY ActiveFinite DEF Outstanding, TypeOK

\* A walk that begins is one more of its string.
LEMMA PushOutstanding ==
    ASSUME TypeOK, NEW t \in Threads, NEW f, WellFormed(f), Push(t, f), NEW s \in Strings
    PROVE  Outstanding(s)' = IF s = f.str THEN Outstanding(s) + 1 ELSE Outstanding(s)
<1>1. /\ Cardinality(Active(s)) \in Nat /\ IsFiniteSet(Active(s))
      /\ abandoned'[s] = abandoned[s] /\ abandoned[s] \in Nat
  BY ActiveFinite DEF Push, TypeOK
<1>2. CASE s = f.str
  <2>1. Cardinality(Active(s)') = Cardinality(Active(s)) + 1
    BY <1>1, <1>2, PushActive, FS_AddElement
  <2> QED
    BY <1>1, <1>2, <2>1 DEF Outstanding
<1>3. CASE s # f.str
  <2>1. Active(s)' = Active(s)
    BY <1>3, PushActive
  <2> QED
    BY <1>1, <1>3, <2>1 DEF Outstanding
<1> QED
  BY <1>2, <1>3

\* A walk that ends is one less among those under way.
LEMMA PopWalks ==
    ASSUME TypeOK, NEW t \in Threads, depth[t] > 0, Pop(t), NEW s \in Strings
    PROVE  /\ Cardinality(Active(s)') \in Nat
           /\ Cardinality(Active(s))
                = Cardinality(Active(s)') + IF s = frame[Top(t)].str THEN 1 ELSE 0
<1>1. Cardinality(Active(s)) \in Nat /\ IsFiniteSet(Active(s))
  BY ActiveFinite
<1>2. CASE s = frame[Top(t)].str
  <2>1. Top(t) \in Active(s) /\ Active(s)' = Active(s) \ {Top(t)}
    BY <1>2, PopActive
  <2>2. Cardinality(Active(s)') = Cardinality(Active(s)) - 1
    BY <1>1, <2>1, FS_RemoveElement
  <2>3. Cardinality(Active(s)) # 0
    BY <1>1, <2>1, FS_EmptySet
  <2> QED
    BY <1>1, <1>2, <2>2, <2>3
<1>3. CASE s # frame[Top(t)].str
  <2>1. Active(s)' = Active(s)
    BY <1>3, PopActive
  <2> QED
    BY <1>1, <1>3, <2>1
<1> QED
  BY <1>2, <1>3

\* Every step keeps the counter right but for its width.
LEMMA ModuloStep == TypeOK /\ BusyCountsModulo /\ [Next]_vars => BusyCountsModulo'
<1> SUFFICES ASSUME TypeOK, BusyCountsModulo, [Next]_vars
             PROVE  BusyCountsModulo'
  OBVIOUS
<1>0. \A s \in Strings : /\ busy[s] = Outstanding(s) % BusyMod
                          /\ Outstanding(s) \in Nat
                          /\ abandoned[s] \in Nat
  BY OutstandingType DEF BusyCountsModulo, TypeOK
<1>1. ASSUME NEW t \in Threads, NEW f, WellFormed(f), Push(t, f)
      PROVE  BusyCountsModulo'
  <2> SUFFICES ASSUME NEW s \in Strings PROVE busy'[s] = Outstanding(s)' % BusyMod
    BY DEF BusyCountsModulo
  <2>1. busy'[s] = IF s = f.str THEN Inc(busy[s]) ELSE busy[s]
    BY <1>1 DEF Push, TypeOK, WellFormed, Frames
  <2>2. Outstanding(s)' = IF s = f.str THEN Outstanding(s) + 1 ELSE Outstanding(s)
    BY <1>1, PushOutstanding
  <2>3. Inc(Outstanding(s) % BusyMod) = (Outstanding(s) + 1) % BusyMod
    BY <1>0, IncDecModulo
  <2> QED
    BY <1>0, <2>1, <2>2, <2>3
<1>2. ASSUME NEW t \in Threads, depth[t] > 0, Release(t)
      PROVE  BusyCountsModulo'
  <2> DEFINE r == frame[Top(t)].str
  <2> SUFFICES ASSUME NEW s \in Strings PROVE busy'[s] = Outstanding(s)' % BusyMod
    BY DEF BusyCountsModulo
  <2>1. busy'[s] = (IF s = r THEN Dec(busy[s]) ELSE busy[s]) /\ abandoned' = abandoned
    BY <1>2 DEF Release, TypeOK
  <2>2. /\ Cardinality(Active(s)') \in Nat
        /\ Cardinality(Active(s)) = Cardinality(Active(s)') + IF s = r THEN 1 ELSE 0
    BY <1>2, PopWalks DEF Release
  <2>3. /\ Outstanding(s)' \in Nat
        /\ Outstanding(s) = IF s = r THEN Outstanding(s)' + 1 ELSE Outstanding(s)'
    BY <1>0, <2>1, <2>2 DEF Outstanding
  <2>4. Dec((Outstanding(s)' + 1) % BusyMod) = Outstanding(s)' % BusyMod
    BY <2>3, IncDecModulo
  <2> QED
    BY <1>0, <2>1, <2>3, <2>4
<1>3. ASSUME NEW t \in Threads, GsubModified(t) \/ Abandon(t)
      PROVE  BusyCountsModulo'
  <2> DEFINE r == frame[Top(t)].str
  <2> SUFFICES ASSUME NEW s \in Strings PROVE busy'[s] = Outstanding(s)' % BusyMod
    BY DEF BusyCountsModulo
  <2>1. /\ depth[t] > 0 /\ Pop(t) /\ busy' = busy
        /\ abandoned' = [abandoned EXCEPT ![r] = @ + 1]
    BY <1>3 DEF GsubModified, Abandon, Inside
  <2>2. abandoned'[s] = abandoned[s] + IF s = r THEN 1 ELSE 0
    BY <1>0, <2>1 DEF TypeOK
  <2>3. /\ Cardinality(Active(s)') \in Nat
        /\ Cardinality(Active(s)) = Cardinality(Active(s)') + IF s = r THEN 1 ELSE 0
    BY <2>1, PopWalks
  <2>4. Outstanding(s)' = Outstanding(s)
    BY <1>0, <2>2, <2>3 DEF Outstanding
  <2> QED
    BY <1>0, <2>1, <2>4
<1>4. ASSUME NEW t \in Threads, NEW f, depth[t] > 0, WellFormed(f), Yield(t, f),
             f.str = frame[Top(t)].str
      PROVE  BusyCountsModulo'
  <2>1. \A s \in Strings : Active(s)' = Active(s)
    BY <1>4, YieldActive
  <2> QED
    BY <1>0, <1>4, <2>1 DEF BusyCountsModulo, Outstanding, Yield
<1>5. ASSUME NEW t \in Threads, EachNext(t) \/ ScanNext(t) \/ GsubNext(t)
      PROVE  BusyCountsModulo'
  <2> DEFINE f == frame[Top(t)]
             g == [f EXCEPT !.n = @ + 1]
             k == [f EXCEPT !.n = @ + 1, !.seen = buffer[f.str]]
  <2>1. depth[t] > 0 /\ (Yield(t, g) \/ Yield(t, k))
    BY <1>5 DEF EachNext, ScanNext, GsubNext, Inside
  <2>2. WellFormed(f) /\ f \in Frames /\ buffer[f.str] \in Buffers
    BY <2>1, TopFrame DEF WellFormed, Frames, TypeOK
  <2>3. WellFormed(g) /\ WellFormed(k) /\ g.str = f.str /\ k.str = f.str
    BY <2>2, NextFrame DEF Frames
  <2> QED
    BY <1>4, <2>1, <2>3
<1>6. ASSUME NEW t \in Threads, NEW s \in Strings,
             \/ EachBegin(t, s)
             \/ \E pat \in Regexps \cup {NoPattern} :
                   \/ ScanBegin(t, s, pat)
                   \/ \E kind \in {"gsub"} \cup InPlace : GsubBegin(t, s, kind, pat)
      PROVE  BusyCountsModulo'
  <2>1. \E f : WellFormed(f) /\ Push(t, f)
    BY <1>6, FirstFrames, NewHandleFree DEF EachBegin, ScanBegin, GsubBegin
  <2> QED
    BY <1>1, <2>1
<1>7. ASSUME NEW t \in Threads, EachEnd(t) \/ ScanEnd(t) \/ GsubFinish(t)
      PROVE  BusyCountsModulo'
  BY <1>2, <1>7 DEF EachEnd, ScanEnd, GsubFinish, Inside
<1>8. ASSUME UNCHANGED <<busy, frame, abandoned>>
      PROVE  BusyCountsModulo'
  BY <1>0, <1>8 DEF BusyCountsModulo, Outstanding, Active, Occupied, Slots
<1>9. /\ (\E s \in Strings : Freeze(s) \/ ModifyUnits(s) \/ Strip(s) \/ ChangeCase(s))
            => UNCHANGED <<busy, frame, abandoned>>
      /\ (\E re \in Regexps, s \in Strings :
             \/ \E pos \in {0, 1} : UseRegexp(re, s, pos)
             \/ \E kind \in {"gsub"} \cup InPlace : GsubString(s, kind, re))
            => UNCHANGED <<busy, frame, abandoned>>
      /\ (\E re \in Regexps : Reinitialize(re) \/ ReinitializeFails(re))
            => UNCHANGED <<busy, frame, abandoned>>
      /\ UNCHANGED vars => UNCHANGED <<busy, frame, abandoned>>
  BY DEF Freeze, ModifyUnits, Strip, ChangeCase, Unmoved, UseRegexp, GsubString,
         Reinitialize, ReinitializeFails, vars
<1>10. ASSUME NEW r \in Strings, RaiseBusy(r)
       PROVE  BusyCountsModulo'
  <2> SUFFICES ASSUME NEW s \in Strings PROVE busy'[s] = Outstanding(s)' % BusyMod
    BY DEF BusyCountsModulo
  <2>1. busy'[s] = IF s = r THEN Inc(busy[s]) ELSE busy[s]
    BY <1>10 DEF RaiseBusy, TypeOK
  <2>2. Outstanding(s)' = IF s = r THEN Outstanding(s) + 1 ELSE Outstanding(s)
    <3>1. Active(s)' = Active(s)
      BY <1>10 DEF RaiseBusy, Active, Occupied, Slots
    <3>2. abandoned'[s] = IF s = r THEN abandoned[s] + 1 ELSE abandoned[s]
      BY <1>10 DEF RaiseBusy, TypeOK
    <3>3. Cardinality(Active(s)) \in Nat /\ abandoned[s] \in Nat
      BY <1>0, ActiveFinite
    <3> QED
      BY <3>1, <3>2, <3>3 DEF Outstanding
  <2>3. Inc(Outstanding(s) % BusyMod) = (Outstanding(s) + 1) % BusyMod
    BY <1>0, IncDecModulo
  <2> QED
    BY <1>0, <2>1, <2>2, <2>3
<1>11. ASSUME NEW s \in Strings, NEW pat \in Regexps \cup {NoPattern},
              \/ ScanBeginRaises(s, pat)
              \/ \E kind \in {"gsub"} \cup InPlace : GsubBeginRaises(s, kind, pat)
       PROVE  BusyCountsModulo'
  BY <1>10, <1>11 DEF ScanBeginRaises, GsubBeginRaises
<1> QED
  BY <1>3, <1>5, <1>6, <1>7, <1>8, <1>9, <1>10, <1>11 DEF Next, Resume

\* For any number of walks: a string's busy is the number of its walks that are under
\* way or were left through their block, modulo the width of the counter.
THEOREM IterationBusyCountsModulo == Spec => []BusyCountsModulo
<1>1. Init => BusyCountsModulo
  <2> SUFFICES ASSUME Init, NEW s \in Strings PROVE busy[s] = Outstanding(s) % BusyMod
    BY DEF BusyCountsModulo
  <2>1. busy[s] = 0 /\ Outstanding(s) = 0
    BY StableInit DEF Init, BusyCounts
  <2>2. 0 % BusyMod = 0
    BY BoundsAssumption
  <2> QED
    BY <2>1, <2>2
<1> QED
  BY <1>1, IterationTypeOK, ModuloStep, PTL DEF Spec
=============================================================================
