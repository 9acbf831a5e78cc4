-------------------------- MODULE UTextWalkProofs --------------------------
(***************************************************************************)
(* Theorems about UTextWalk, for any texts and patterns: the walks of      *)
(* scan, sub, gsub and rindex take the leftmost matches that do not        *)
(* overlap, index and rindex answer with the first and the last of them    *)
(* that they should, and gsub puts in for each what its template means.    *)
(***************************************************************************)
EXTENDS UTextWalk, SequenceFacts, FiniteSetTheorems, TLAPS

LEMMA LeastIsMin ==
    ASSUME NEW D \in SUBSET Nat, D # {}
    PROVE  Min(D) \in D /\ \A e \in D : Min(D) <= e
<1>1. \E d \in D : \A e \in D : d <= e
    BY LeastMember
<1> QED BY <1>1 DEF Min

-----------------------------------------------------------------------------
\* S holds the matches of the walk that start before index n, and no others.
Greedy(x, p, S, n) ==
    /\ S \subseteq 0 .. n - 1
    /\ \A i \in 0 .. n - 1 : i \in S <=> Free(x, p, S, i)

LEMMA FreeLooksBelow ==
    ASSUME NEW x, NEW p, NEW S, NEW T, NEW i, \A j : j < i => (j \in S <=> j \in T)
    PROVE  Free(x, p, S, i) <=> Free(x, p, T, i)
BY DEF Free

\* There is one such set for each n.
LEMMA GreedyIsUnique ==
    ASSUME NEW x, NEW p, NEW n \in Nat, NEW m \in Nat, n <= m, NEW S, NEW T,
           Greedy(x, p, S, n), Greedy(x, p, T, m)
    PROVE  S = T \cap (0 .. n - 1)
<1> DEFINE D == {i \in 0 .. n - 1 : ~(i \in S <=> i \in T)}
<1>1. D = {}
    <2>1. SUFFICES ASSUME D # {} PROVE FALSE
        OBVIOUS
    <2>2. PICK d \in D : \A e \in D : d <= e
        <3>1. D \in SUBSET Nat
            OBVIOUS
        <3> QED BY <2>1, <3>1, LeastMember
    <2>3. \A j : j < d => (j \in S <=> j \in T)
        <3> SUFFICES ASSUME NEW j, j < d PROVE j \in S <=> j \in T
            OBVIOUS
        <3>1. CASE j \in 0 .. n - 1
            BY <2>2, <3>1
        <3>2. CASE j \notin 0 .. n - 1
            <4>1. j \notin S
                BY <3>2 DEF Greedy
            <4>2. j \notin T
                <5>1. SUFFICES ASSUME j \in T PROVE FALSE
                    OBVIOUS
                <5>2. j \in 0 .. m - 1
                    BY <5>1 DEF Greedy
                <5> QED BY <3>2, <5>2, <2>2
            <4> QED BY <4>1, <4>2
        <3> QED BY <3>1, <3>2
    <2>4. Free(x, p, S, d) <=> Free(x, p, T, d)
        BY <2>3, FreeLooksBelow
    <2>5. d \in 0 .. n - 1 /\ d \in 0 .. m - 1
        BY <2>2
    <2>6. (d \in S <=> Free(x, p, S, d)) /\ (d \in T <=> Free(x, p, T, d))
        BY <2>5 DEF Greedy
    <2> QED BY <2>2, <2>4, <2>6
<1>2. S \subseteq 0 .. n - 1
    BY DEF Greedy
<1> QED BY <1>1, <1>2

\* A walk that has come to n goes on to n + 1 by a match at n, or without one.
LEMMA GreedyGrows ==
    ASSUME NEW x, NEW p, NEW n \in Nat, NEW S, Greedy(x, p, S, n)
    PROVE  Greedy(x, p, IF Free(x, p, S, n) THEN S \cup {n} ELSE S, n + 1)
<1> DEFINE T == IF Free(x, p, S, n) THEN S \cup {n} ELSE S
<1>1. S \subseteq 0 .. n - 1
    BY DEF Greedy
<1>2. T \subseteq 0 .. (n + 1) - 1
    BY <1>1
<1>3. ASSUME NEW i \in 0 .. (n + 1) - 1 PROVE i \in T <=> Free(x, p, T, i)
    <2>1. \A j : j < i => (j \in S <=> j \in T)
        BY <1>1, <1>3
    <2>2. Free(x, p, S, i) <=> Free(x, p, T, i)
        BY <2>1, FreeLooksBelow
    <2>3. CASE i = n
        <3>1. n \notin S
            BY <1>1
        <3> QED BY <2>2, <2>3, <3>1
    <2>4. CASE i \in 0 .. n - 1
        <3>1. i \in S <=> Free(x, p, S, i)
            BY <2>4 DEF Greedy
        <3> QED BY <2>2, <2>4, <3>1
    <2> QED BY <2>3, <2>4
<1> HIDE DEF T
<1>4. Greedy(x, p, T, n + 1)
    BY <1>2, <1>3 DEF Greedy
<1> QED BY <1>4 DEF T

LEMMA GreedyExists ==
    ASSUME NEW x, NEW p, NEW n \in Nat
    PROVE  \E S : Greedy(x, p, S, n)
<1> DEFINE D == {k \in Nat : ~ \E S : Greedy(x, p, S, k)}
<1>1. D = {}
    <2>1. SUFFICES ASSUME D # {} PROVE FALSE
        OBVIOUS
    <2>2. PICK d \in D : \A e \in D : d <= e
        <3>1. D \in SUBSET Nat
            OBVIOUS
        <3> QED BY <2>1, <3>1, LeastMember
    <2>3. d # 0
        <3>1. Greedy(x, p, {}, 0)
            BY DEF Greedy
        <3> QED BY <3>1, <2>2
    <2>4. d - 1 \in Nat /\ d - 1 \notin D
        BY <2>2, <2>3
    <2>5. PICK S : Greedy(x, p, S, d - 1)
        BY <2>4
    <2>6. \E T : Greedy(x, p, T, (d - 1) + 1)
        BY <2>4, <2>5, GreedyGrows
    <2>7. (d - 1) + 1 = d
        BY <2>2
    <2> QED BY <2>2, <2>6, <2>7
<1> QED BY <1>1

LEMMA LeftmostIsGreedy ==
    ASSUME Len(subject) \in Nat
    PROVE  Greedy(subject, pattern, Leftmost, Len(subject) + 1)
<1> DEFINE P(S) == \A i \in 0 .. Len(subject) : i \in S <=> Free(subject, pattern, S, i)
<1>1. PICK S : Greedy(subject, pattern, S, Len(subject) + 1)
    BY GreedyExists
<1>2. 0 .. (Len(subject) + 1) - 1 = 0 .. Len(subject)
    OBVIOUS
<1>3. S \in SUBSET (0 .. Len(subject)) /\ P(S)
    BY <1>1, <1>2 DEF Greedy
<1>4. Leftmost = CHOOSE T \in SUBSET (0 .. Len(subject)) : P(T)
    BY DEF Leftmost
<1> HIDE DEF P
<1>5. Leftmost \in SUBSET (0 .. Len(subject)) /\ P(Leftmost)
    BY <1>3, <1>4
<1> QED BY <1>2, <1>5 DEF Greedy, P

\* What a walk has taken when it has come to n.
LEMMA GreedyIsLeftmost ==
    ASSUME Len(subject) \in Nat, NEW n \in 0 .. Len(subject) + 1,
           NEW S, Greedy(subject, pattern, S, n)
    PROVE  S = Leftmost \cap (0 .. n - 1) /\ Leftmost \subseteq 0 .. Len(subject)
<1>1. Greedy(subject, pattern, Leftmost, Len(subject) + 1)
    BY LeftmostIsGreedy
<1>2. S = Leftmost \cap (0 .. n - 1)
    BY <1>1, GreedyIsUnique
<1>3. Leftmost \subseteq 0 .. (Len(subject) + 1) - 1
    BY <1>1 DEF Greedy
<1> QED BY <1>2, <1>3

-----------------------------------------------------------------------------
\* A match is where the pattern is asked for it, and ends on a boundary unless it
\* is empty.
PatternOK(x, p) ==
    /\ x \in Seq(Units)
    /\ \A i \in 0 .. Len(x) : Found(p[i]) =>
        /\ From(p[i]) = i
        /\ To(p[i]) \in i .. Len(x)
        /\ To(p[i]) = i \/ Boundary(x, To(p[i]))

LEMMA GreedyStretches ==
    ASSUME NEW x, NEW p, NEW n \in Nat, NEW m \in Nat, n <= m, NEW S,
           Greedy(x, p, S, n), \A i \in n .. m - 1 : ~Free(x, p, S, i)
    PROVE  Greedy(x, p, S, m)
<1>1. S \subseteq 0 .. n - 1
    BY DEF Greedy
<1>2. S \subseteq 0 .. m - 1
    BY <1>1
<1>3. ASSUME NEW i \in 0 .. m - 1 PROVE i \in S <=> Free(x, p, S, i)
    <2>1. CASE i \in 0 .. n - 1
        BY <2>1 DEF Greedy
    <2>2. CASE i \in n .. m - 1
        BY <1>1, <2>2
    <2> QED BY <2>1, <2>2
<1> QED BY <1>2, <1>3 DEF Greedy

\* A search from e, which no match taken reaches over.
LEMMA SearchGoesOn ==
    ASSUME PatternOK(subject, pattern),
           NEW e \in 0 .. Len(subject) + 1, e <= Len(subject) => Boundary(subject, e),
           NEW S, Greedy(subject, pattern, S, e), \A j \in S : To(pattern[j]) <= e,
           NEW m, m = FindFrom(e)
    PROVE  IF Found(m)
           THEN /\ From(m) \in e .. Len(subject)
                /\ m = pattern[From(m)]
                /\ Greedy(subject, pattern, S, From(m))
                /\ Free(subject, pattern, S, From(m))
           ELSE Greedy(subject, pattern, S, Len(subject) + 1)
<1> DEFINE hits == {j \in e .. Len(subject) :
                        (j = e \/ Boundary(subject, j)) /\ Found(pattern[j])}
<1>1. Len(subject) \in Nat /\ e \in Nat
    BY DEF PatternOK
<1>2. m = IF hits = {} THEN NoMatch ELSE pattern[Min(hits)]
    BY DEF FindFrom
<1>3. S \subseteq 0 .. e - 1
    BY DEF Greedy
<1>4. ASSUME NEW j \in e .. Len(subject), j \notin hits
      PROVE  ~Free(subject, pattern, S, j)
    BY <1>4 DEF Free
<1>5. CASE hits = {}
    <2>1. ~Found(m)
        BY <1>2, <1>5 DEF Found
    <2>2. \A j \in e .. (Len(subject) + 1) - 1 : ~Free(subject, pattern, S, j)
        BY <1>1, <1>4, <1>5
    <2>3. Len(subject) + 1 \in Nat /\ e <= Len(subject) + 1
        BY <1>1
    <2>4. Greedy(subject, pattern, S, Len(subject) + 1)
        BY <1>1, <2>2, <2>3, GreedyStretches
    <2> QED BY <2>1, <2>4
<1>6. CASE hits # {}
    <2>1. Min(hits) \in hits /\ \A j \in hits : Min(hits) <= j
        <3>1. hits \in SUBSET Nat
            BY <1>1
        <3> QED BY <1>6, <3>1, LeastIsMin
    <2>2. PICK k \in hits : k = Min(hits)
        BY <2>1
    <2>3. k \in e .. Len(subject) /\ Found(pattern[k]) /\ Boundary(subject, k)
        OBVIOUS
    <2>4. m = pattern[k] /\ Found(m)
        BY <1>2, <1>6, <2>2, <2>3
    <2>5. From(m) = k
        BY <1>1, <2>3, <2>4 DEF PatternOK
    <2>6. Greedy(subject, pattern, S, k)
        <3>1. \A j \in e .. k - 1 : j \in e .. Len(subject) /\ j \notin hits
            BY <1>1, <2>1, <2>2, <2>3
        <3>2. \A j \in e .. k - 1 : ~Free(subject, pattern, S, j)
            BY <1>4, <3>1
        <3>3. k \in Nat /\ e <= k
            BY <1>1, <2>3
        <3> QED BY <1>1, <3>2, <3>3, GreedyStretches
    <2>7. Free(subject, pattern, S, k)
        <3>1. ASSUME NEW j \in S, j < k PROVE To(pattern[j]) <= k
            <4>1. j \in 0 .. Len(subject) /\ Found(pattern[j])
                <5>1. j \in 0 .. e - 1
                    BY <1>3
                <5>2. Free(subject, pattern, S, j)
                    BY <5>1 DEF Greedy
                <5> QED BY <1>1, <5>1, <5>2 DEF Free
            <4>2. To(pattern[j]) \in Int /\ To(pattern[j]) <= e
                BY <1>1, <4>1 DEF PatternOK
            <4> QED BY <1>1, <2>3, <4>2
        <3> QED BY <2>3, <3>1 DEF Free
    <2> QED BY <2>3, <2>4, <2>5, <2>6, <2>7
<1> QED BY <1>5, <1>6

\* The match at k is taken, and the walk goes on from e: what lies between has no
\* free match.
LEMMA MatchTaken ==
    ASSUME PatternOK(subject, pattern),
           NEW k \in 0 .. Len(subject), NEW S,
           Greedy(subject, pattern, S, k), Free(subject, pattern, S, k),
           NEW e \in k + 1 .. Len(subject) + 1, To(pattern[k]) <= e,
           \A i \in k + 1 .. e - 1 : i < To(pattern[k]) \/ ~Boundary(subject, i)
    PROVE  /\ Greedy(subject, pattern, S \cup {k}, e)
           /\ \A j \in S \cup {k} : To(pattern[j]) <= e
<1>1. Len(subject) \in Nat /\ k \in Nat /\ e \in Nat
    BY DEF PatternOK
<1>2. Greedy(subject, pattern, S \cup {k}, k + 1)
    BY <1>1, GreedyGrows
<1>3. To(pattern[k]) \in Int
    BY <1>1 DEF PatternOK, Free
<1>4. ASSUME NEW i \in k + 1 .. e - 1
      PROVE  ~Free(subject, pattern, S \cup {k}, i)
    <2>1. CASE ~Boundary(subject, i)
        BY <2>1 DEF Free
    <2>2. CASE i < To(pattern[k])
        <3>1. k \in S \cup {k} /\ k < i /\ ~(To(pattern[k]) <= i)
            BY <1>1, <1>3, <2>2
        <3> QED BY <3>1 DEF Free
    <2> QED BY <2>1, <2>2
<1>5. k + 1 \in Nat /\ k + 1 <= e
    BY <1>1
<1>6. Greedy(subject, pattern, S \cup {k}, e)
    BY <1>1, <1>2, <1>4, <1>5, GreedyStretches
<1>7. ASSUME NEW j \in S PROVE To(pattern[j]) <= e
    <2>1. j \in 0 .. k - 1
        BY DEF Greedy
    <2>2. To(pattern[j]) <= k
        BY <2>1 DEF Free
    <2>3. Free(subject, pattern, S, j)
        BY <2>1 DEF Greedy
    <2>4. To(pattern[j]) \in Int
        BY <1>1, <2>1, <2>3 DEF PatternOK, Free
    <2> QED BY <1>1, <2>2, <2>4
<1> QED BY <1>6, <1>7

\* The code point behind index i ends on a boundary, and is not cut by another.
LEMMA CodePointsAreWhole ==
    ASSUME NEW x \in Seq(Units), NEW i \in 0 .. Len(x) - 1,
           NEW e, e = i + WidthFrom(x, i + 1)
    PROVE  /\ e \in i + 1 .. Len(x)
           /\ Boundary(x, e)
           /\ \A j \in i + 1 .. e - 1 : ~Boundary(x, j)
<1>1. Leads \cap Trails = {}
    BY UnitsAssumption
<1>2. Len(x) \in Nat
    OBVIOUS
<1>3. CASE x[i + 1] \in Leads /\ i + 1 < Len(x) /\ x[i + 2] \in Trails
    <2>1. e = i + 2
        BY <1>3 DEF WidthFrom
    <2>2. x[i + 2] \notin Leads
        BY <1>1, <1>3
    <2>3. e \in i + 1 .. Len(x) /\ Boundary(x, e)
        BY <1>2, <1>3, <2>1, <2>2 DEF Boundary
    <2>4. ASSUME NEW j \in i + 1 .. e - 1 PROVE ~Boundary(x, j)
        <3>1. j = i + 1
            BY <2>1
        <3> QED BY <1>2, <1>3, <3>1 DEF Boundary
    <2> QED BY <2>3, <2>4
<1>4. CASE ~(x[i + 1] \in Leads /\ i + 1 < Len(x) /\ x[i + 2] \in Trails)
    <2>1. e = i + 1
        BY <1>4 DEF WidthFrom
    <2>2. e \in i + 1 .. Len(x) /\ Boundary(x, e)
        BY <1>2, <1>4, <2>1 DEF Boundary
    <2>3. i + 1 .. e - 1 = {}
        BY <2>1
    <2> QED BY <2>2, <2>3
<1> QED BY <1>3, <1>4

\* uregex_findNext goes on to the next match that is free.
LEMMA NextIsFree ==
    ASSUME PatternOK(subject, pattern),
           NEW k \in 0 .. Len(subject), NEW S,
           Greedy(subject, pattern, S, k), Free(subject, pattern, S, k),
           NEW next, next = FindNext(pattern[k])
    PROVE  IF Found(next)
           THEN /\ From(next) \in k + 1 .. Len(subject)
                /\ next = pattern[From(next)]
                /\ Greedy(subject, pattern, S \cup {k}, From(next))
                /\ Free(subject, pattern, S \cup {k}, From(next))
           ELSE Greedy(subject, pattern, S \cup {k}, Len(subject) + 1)
<1> DEFINE m == pattern[k]
<1>1. Len(subject) \in Nat /\ k \in Nat /\ subject \in Seq(Units)
    BY DEF PatternOK
<1>2. /\ From(m) = k /\ To(m) \in k .. Len(subject)
      /\ To(m) = k \/ Boundary(subject, To(m))
    BY DEF PatternOK, Free
<1>3. ASSUME NEW e \in k + 1 .. Len(subject) + 1, To(m) <= e,
             e <= Len(subject) => Boundary(subject, e),
             \A i \in k + 1 .. e - 1 : i < To(m) \/ ~Boundary(subject, i),
             next = FindFrom(e)
      PROVE  IF Found(next)
             THEN /\ From(next) \in e .. Len(subject)
                  /\ next = pattern[From(next)]
                  /\ Greedy(subject, pattern, S \cup {k}, From(next))
                  /\ Free(subject, pattern, S \cup {k}, From(next))
             ELSE Greedy(subject, pattern, S \cup {k}, Len(subject) + 1)
    <2>1. /\ Greedy(subject, pattern, S \cup {k}, e)
          /\ \A j \in S \cup {k} : To(pattern[j]) <= e
        BY <1>3, MatchTaken
    <2>2. e \in 0 .. Len(subject) + 1
        BY <1>1, <1>3
    <2> QED BY <1>3, <2>1, <2>2, SearchGoesOn
<1>4. CASE k < To(m)
    <2>1. next = FindFrom(To(m))
        BY <1>2, <1>4 DEF FindNext
    <2>2. To(m) \in k + 1 .. Len(subject) + 1 /\ To(m) <= To(m) /\ Boundary(subject, To(m))
        BY <1>1, <1>2, <1>4
    <2>3. \A i \in k + 1 .. To(m) - 1 : i < To(m)
        BY <1>2
    <2>4. \A j \in To(m) .. Len(subject) : j \in k + 1 .. Len(subject)
        BY <1>1, <2>2
    <2> QED BY <1>3, <2>1, <2>2, <2>3, <2>4
<1>5. CASE To(m) = k /\ k = Len(subject)
    <2>1. next = NoMatch
        BY <1>2, <1>5 DEF FindNext
    <2>2. Greedy(subject, pattern, S \cup {k}, k + 1)
        BY <1>1, GreedyGrows
    <2> QED BY <1>5, <2>1, <2>2 DEF Found
<1>6. CASE To(m) = k /\ k # Len(subject)
    <2> DEFINE e == k + WidthFrom(subject, k + 1)
    <2>1. next = FindFrom(e)
        BY <1>2, <1>6 DEF FindNext
    <2>2. k \in 0 .. Len(subject) - 1
        BY <1>1, <1>6
    <2>3. /\ e \in k + 1 .. Len(subject)
          /\ Boundary(subject, e)
          /\ \A j \in k + 1 .. e - 1 : ~Boundary(subject, j)
        BY <1>1, <2>2, CodePointsAreWhole
    <2> HIDE DEF e
    <2>4. e \in k + 1 .. Len(subject) + 1 /\ To(m) <= e
        BY <1>1, <1>6, <2>3
    <2>5. \A j \in e .. Len(subject) : j \in k + 1 .. Len(subject)
        BY <1>1, <2>3
    <2> QED BY <1>3, <2>1, <2>3, <2>4, <2>5
<1> QED BY <1>2, <1>4, <1>5, <1>6

-----------------------------------------------------------------------------
(***************************************************************************)
(* The inductive invariant.  What a walk has taken is the start of the     *)
(* greedy one: up to the match it stands at (gsub, rindex), which is free, *)
(* or up to where it searches next (scan).                                 *)
(***************************************************************************)
Taken(n) == Greedy(subject, pattern, visited, n)

Standing ==
    Running("gsub") \/ Running("rindex") =>
        /\ Found(match)
        /\ From(match) \in 0 .. Len(subject)
        /\ match = pattern[From(match)]
        /\ Taken(From(match))
        /\ Free(subject, pattern, visited, From(match))

Scanning ==
    call.method = "scan" /\ ~StepsOverPair =>
        IF pc = "returned" THEN Taken(Len(subject) + 1)
        ELSE /\ start \in 0 .. Len(subject) + 1
             /\ start <= Len(subject) => Boundary(subject, start)
             /\ Taken(start)
             /\ \A j \in visited : To(pattern[j]) <= start

GsubReturned ==
    call.method = "gsub" /\ pc = "returned" =>
        \E n \in 0 .. Len(subject) + 1 : Taken(n) /\ (call.once \/ n = Len(subject) + 1)

Seeking ==
    Running("rindex") => /\ start = From(match)
                         /\ call.pos \in Int
                         /\ visited # {} => start <= LastStart(call.pos)

Sought ==
    call.method = "rindex" /\ pc = "returned" =>
        /\ call.pos \in Int
        /\ \E n \in 0 .. Len(subject) + 1 :
            Taken(n) /\ (n > LastStart(call.pos) \/ n = Len(subject) + 1)
        /\ \/ answer = -1 /\ \A i \in visited : i > LastStart(call.pos)
           \/ /\ answer \in visited /\ answer <= LastStart(call.pos)
              /\ \A i \in visited : i <= answer

IInv ==
    /\ PatternOK(subject, pattern)
    /\ pc \in {"idle", "running", "returned"}
    /\ pc = "idle" => call.method = "none"
    /\ pc = "running" => call.method \in {"scan", "gsub", "rindex"}
    /\ call.method \notin {"scan", "gsub", "rindex"} => visited = {}
    /\ Standing /\ Scanning /\ GsubReturned /\ Seeking /\ Sought

LEMMA NothingTaken ==
    ASSUME NEW x, NEW p
    PROVE  Greedy(x, p, {}, 0)
BY DEF Greedy

\* Patterns are as the walks need them.
LEMMA InitIsWalk == Init => IInv
<1> SUFFICES ASSUME Init PROVE IInv
    OBVIOUS
<1>1. subject \in Seq(Units) /\ Len(subject) \in Nat
    BY TextsAssumption DEF Init
<1>2. PICK f \in Ends(subject) :
        \E part \in SUBSET {i \in DOMAIN f : f[i] # -1} :
        \E n \in 0 .. Groups : pattern = Pattern(f, n, part)
    BY Zenon DEF Init
<1>3. PICK part \in SUBSET {i \in DOMAIN f : f[i] # -1}, n \in 0 .. Groups :
        pattern = Pattern(f, n, part)
    BY <1>2, Zenon
<1>4. f \in [0 .. Len(subject) -> -1 .. Len(subject)]
    BY <1>2 DEF Ends
<1>5. ASSUME NEW i \in 0 .. Len(subject), Found(pattern[i])
      PROVE  /\ From(pattern[i]) = i
             /\ To(pattern[i]) \in i .. Len(subject)
             /\ To(pattern[i]) = i \/ Boundary(subject, To(pattern[i]))
    <2>1. 0 \in 0 .. n
        BY <1>3, TemplatesAssumption
    <2>2. f[i] # -1
        BY <1>3, <1>4, <1>5 DEF Found, Pattern
    <2>3. pattern[i] = [g \in 0 .. n |-> IF g = 0 \/ i \in part THEN <<i, f[i]>> ELSE NoRange]
        BY <1>3, <1>4, <2>2 DEF Pattern
    <2>4. pattern[i][0] = <<i, f[i]>>
        BY <2>1, <2>3
    <2>5. From(pattern[i]) = i /\ To(pattern[i]) = f[i]
        BY <2>4 DEF From, To
    <2>6. i <= f[i] /\ (f[i] = i \/ Boundary(subject, f[i]))
        BY <1>2, <2>2 DEF Ends
    <2>7. f[i] \in -1 .. Len(subject)
        BY <1>4
    <2> QED BY <1>1, <2>5, <2>6, <2>7
<1>6. PatternOK(subject, pattern)
    BY <1>1, <1>5 DEF PatternOK
<1> QED BY <1>6 DEF Init, NoCall, IInv, Standing, Scanning, GsubReturned, Seeking, Sought, Running

-----------------------------------------------------------------------------
\* Methods that answer in one step take no match.
LEMMA AnswersKeepsWalk ==
    ASSUME IInv, NEW c, Answers(c), c.method \notin {"scan", "gsub", "rindex"}
    PROVE  IInv'
<1>1. subject' = subject /\ pattern' = pattern
    BY DEF Answers, Calls
<1>2. pc' = "returned" /\ visited' = {} /\ call' = c
    BY DEF Answers, Calls
<1>3. PatternOK(subject, pattern)'
    BY <1>1 DEF IInv
<1> QED BY <1>2, <1>3 DEF IInv, Standing, Scanning, GsubReturned, Seeking, Sought, Running

LEMMA ForgetKeepsWalk == IInv /\ Forget => IInv'
<1> SUFFICES ASSUME IInv, Forget PROVE IInv'
    OBVIOUS
<1>1. subject' = subject /\ pattern' = pattern
    BY DEF Forget
<1>2. pc' = "idle" /\ visited' = {} /\ call'.method = "none"
    BY DEF Forget, NoCall
<1>3. PatternOK(subject, pattern)'
    BY <1>1 DEF IInv
<1> QED BY <1>2, <1>3 DEF IInv, Standing, Scanning, GsubReturned, Seeking, Sought, Running

LEMMA ScanBeginKeepsWalk == IInv /\ ScanBegin => IInv'
<1> SUFFICES ASSUME IInv, ScanBegin PROVE IInv'
    OBVIOUS
<1>1. subject' = subject /\ pattern' = pattern
    BY DEF ScanBegin, Calls
<1>2. pc' = "running" /\ visited' = {} /\ call'.method = "scan" /\ start' = 0
    BY DEF ScanBegin, Calls
<1>3. PatternOK(subject, pattern)'
    BY <1>1 DEF IInv
<1>4. Len(subject') \in Nat
    BY <1>3 DEF PatternOK
<1>5. Taken(start)' /\ Boundary(subject', 0)
    BY <1>2, NothingTaken DEF Taken, Boundary
<1>6. Scanning'
    BY <1>2, <1>4, <1>5 DEF Scanning
<1> QED BY <1>2, <1>3, <1>6 DEF IInv, Standing, GsubReturned, Seeking, Sought, Running

\* The first match, or no match at all.
LEMMA FirstSearch ==
    ASSUME PatternOK(subject, pattern), NEW m, m = FindFrom(0)
    PROVE  IF Found(m)
           THEN /\ From(m) \in 0 .. Len(subject)
                /\ m = pattern[From(m)]
                /\ Greedy(subject, pattern, {}, From(m))
                /\ Free(subject, pattern, {}, From(m))
           ELSE Greedy(subject, pattern, {}, Len(subject) + 1)
<1>1. Len(subject) \in Nat /\ 0 \in 0 .. Len(subject) + 1 /\ Boundary(subject, 0)
    BY DEF PatternOK, Boundary
<1> QED BY <1>1, NothingTaken, SearchGoesOn

LEMMA GsubBeginKeepsWalk ==
    ASSUME IInv, NEW t, NEW once \in BOOLEAN, GsubBegin(t, once)
    PROVE  IInv'
<1>1. subject' = subject /\ pattern' = pattern
    BY DEF GsubBegin, Calls
<1> DEFINE m == FindFrom(0)
<1>2. /\ pc' = IF Found(m) THEN "running" ELSE "returned"
      /\ visited' = {} /\ call'.method = "gsub" /\ match' = m
    BY DEF GsubBegin, Calls
<1>3. PatternOK(subject, pattern) /\ PatternOK(subject, pattern)'
    BY <1>1 DEF IInv
<1>4. Len(subject) \in Nat
    BY <1>3 DEF PatternOK
<1>5. IF Found(m)
      THEN /\ From(m) \in 0 .. Len(subject)
           /\ m = pattern[From(m)]
           /\ Greedy(subject, pattern, {}, From(m))
           /\ Free(subject, pattern, {}, From(m))
      ELSE Greedy(subject, pattern, {}, Len(subject) + 1)
    BY <1>3, FirstSearch
<1> HIDE DEF m
<1>6. Standing'
    BY <1>1, <1>2, <1>5 DEF Standing, Running, Taken
<1>7. GsubReturned'
    BY <1>1, <1>2, <1>4, <1>5 DEF GsubReturned, Taken
<1> QED BY <1>2, <1>3, <1>6, <1>7 DEF IInv, Scanning, Seeking, Sought, Running

LEMMA SmallestIsMin ==
    ASSUME NEW D \in SUBSET Int, NEW d \in D, \A e \in D : d <= e
    PROVE  Min(D) = d
<1>1. Min(D) \in D /\ \A e \in D : Min(D) <= e
    BY DEF Min
<1>2. Min(D) \in Int /\ d \in Int
    BY <1>1
<1>3. Min(D) <= d /\ d <= Min(D)
    BY <1>1
<1> QED BY <1>2, <1>3

\* Up to the end of the text, the clamp makes no difference.
LEMMA LastStartClamps ==
    ASSUME Len(subject) \in Nat, NEW pos \in Int
    PROVE  /\ LastStart(pos) \in Int
           /\ \A i \in Int : i <= Len(subject) => (i <= LastStart(pos) <=> i <= FromEnd(pos))
<1> DEFINE D == {FromEnd(pos), Len(subject)}
<1>1. FromEnd(pos) \in Int
    BY DEF FromEnd
<1>2. D \in SUBSET Int /\ FromEnd(pos) \in D /\ Len(subject) \in D
    BY <1>1
<1>3. CASE FromEnd(pos) <= Len(subject)
    <2>1. \A e \in D : FromEnd(pos) <= e
        BY <1>1, <1>3
    <2> HIDE DEF D
    <2>2. Min(D) = FromEnd(pos)
        BY <1>2, <2>1, SmallestIsMin
    <2>3. LastStart(pos) = FromEnd(pos)
        BY <2>2 DEF LastStart, D
    <2> QED BY <1>1, <2>3
<1>4. CASE Len(subject) < FromEnd(pos)
    <2>1. \A e \in D : Len(subject) <= e
        BY <1>1, <1>4
    <2> HIDE DEF D
    <2>2. Min(D) = Len(subject)
        BY <1>2, <2>1, SmallestIsMin
    <2>3. LastStart(pos) = Len(subject)
        BY <2>2 DEF LastStart, D
    <2> QED BY <1>1, <1>4, <2>3
<1> QED BY <1>1, <1>3, <1>4

LEMMA RindexBeginKeepsWalk ==
    ASSUME IInv, NEW pos \in Int, RindexBegin(pos)
    PROVE  IInv'
<1>1. subject' = subject /\ pattern' = pattern
    BY DEF RindexBegin, Calls
<1> DEFINE m == IF LastStart(pos) < 0 THEN NoMatch ELSE FindFrom(0)
<1>2. /\ pc' = IF Found(m) THEN "running" ELSE "returned"
      /\ visited' = {} /\ call'.method = "rindex" /\ call'.pos = pos
      /\ match' = m /\ answer' = -1 /\ start' = (IF Found(m) THEN From(m) ELSE 0)
    BY DEF RindexBegin, Calls
<1>3. PatternOK(subject, pattern) /\ PatternOK(subject, pattern)'
    BY <1>1 DEF IInv
<1>4. Len(subject) \in Nat
    BY <1>3 DEF PatternOK
<1>5. LastStart(pos) \in Int /\ (LastStart(call.pos)' = LastStart(pos))
    <2>1. LastStart(pos) \in Int
        BY <1>4, LastStartClamps
    <2>2. LastStart(call.pos)' = LastStart(pos)
        BY <1>1, <1>2 DEF LastStart, FromEnd
    <2> QED BY <2>1, <2>2
<1>6. Found(m) => /\ From(m) \in 0 .. Len(subject)
                  /\ m = pattern[From(m)]
                  /\ Greedy(subject, pattern, {}, From(m))
                  /\ Free(subject, pattern, {}, From(m))
    BY <1>3, FirstSearch DEF Found
<1>7. ASSUME ~Found(m)
      PROVE  \E n \in 0 .. Len(subject) + 1 :
                /\ Greedy(subject, pattern, {}, n)
                /\ n > LastStart(pos) \/ n = Len(subject) + 1
    <2>1. CASE LastStart(pos) < 0
        BY <1>4, <1>5, <2>1, NothingTaken
    <2>2. CASE ~(LastStart(pos) < 0)
        <3>1. Greedy(subject, pattern, {}, Len(subject) + 1)
            BY <1>3, <1>7, <2>2, FirstSearch
        <3>2. Len(subject) + 1 \in 0 .. Len(subject) + 1
            BY <1>4
        <3> QED BY <3>1, <3>2
    <2> QED BY <2>1, <2>2
<1> HIDE DEF m
<1>8. Standing'
    BY <1>1, <1>2, <1>6 DEF Standing, Running, Taken
<1>9. Seeking'
    BY <1>2 DEF Seeking, Running
<1>10. Sought'
    BY <1>1, <1>2, <1>5, <1>7 DEF Sought, Taken
<1> QED BY <1>2, <1>3, <1>8, <1>9, <1>10 DEF IInv, Scanning, GsubReturned, Running

-----------------------------------------------------------------------------
\* Where no pair follows an empty match, scan goes on from a boundary.
LEMMA ScanOnceKeepsWalk == IInv /\ ScanOnce => IInv'
<1> SUFFICES ASSUME IInv, ScanOnce PROVE IInv'
    OBVIOUS
<1> DEFINE m == FindFrom(start)
           k == From(m)
           e == NextStart(m)
<1>1. /\ subject' = subject /\ pattern' = pattern /\ call' = call
      /\ pc = "running" /\ pc' = "running" /\ call.method = "scan"
      /\ Found(m) /\ start' = e /\ visited' = visited \cup {k}
    BY DEF ScanOnce, Goes, Running
<1>2. PatternOK(subject, pattern) /\ PatternOK(subject, pattern)'
    BY <1>1 DEF IInv
<1>3. Len(subject) \in Nat
    BY <1>2 DEF PatternOK
<1>4. ASSUME ~StepsOverPair
      PROVE  /\ e \in 0 .. Len(subject) + 1
             /\ e <= Len(subject) => Boundary(subject, e)
             /\ Greedy(subject, pattern, visited \cup {k}, e)
             /\ \A j \in visited \cup {k} : To(pattern[j]) <= e
    <2>1. /\ start \in 0 .. Len(subject) + 1
          /\ start <= Len(subject) => Boundary(subject, start)
          /\ Greedy(subject, pattern, visited, start)
          /\ \A j \in visited : To(pattern[j]) <= start
        BY <1>1, <1>4 DEF IInv, Scanning, Taken
    <2>2. /\ k \in start .. Len(subject)
          /\ m = pattern[k]
          /\ Greedy(subject, pattern, visited, k)
          /\ Free(subject, pattern, visited, k)
        BY <1>1, <1>2, <2>1, SearchGoesOn
    <2>3. k \in 0 .. Len(subject)
        BY <1>3, <2>1, <2>2
    <2> HIDE DEF m
    <2>4. /\ To(m) \in k .. Len(subject)
          /\ To(m) = k \/ Boundary(subject, To(m))
        BY <1>1, <1>2, <2>2, <2>3 DEF PatternOK
    <2>5. /\ e \in k + 1 .. Len(subject) + 1 /\ To(pattern[k]) <= e
          /\ e <= Len(subject) => Boundary(subject, e)
          /\ \A i \in k + 1 .. e - 1 : i < To(pattern[k])
        <3>1. CASE To(m) = k
            <4>1. e = k + 1
                BY <3>1 DEF NextStart
            <4>2. Boundary(subject, k + 1)
                BY <1>1, <1>4, <2>2, <2>3, <3>1 DEF StepsOverPair
            <4> QED BY <1>3, <2>2, <2>3, <3>1, <4>1, <4>2
        <3>2. CASE To(m) # k
            <4>1. e = To(m)
                BY <3>2 DEF NextStart
            <4> QED BY <1>3, <2>2, <2>3, <2>4, <3>2, <4>1
        <3> QED BY <3>1, <3>2
    <2> HIDE DEF k, e
    <2>6. /\ Greedy(subject, pattern, visited \cup {k}, e)
          /\ \A j \in visited \cup {k} : To(pattern[j]) <= e
        BY <1>2, <2>2, <2>3, <2>5, MatchTaken
    <2>7. e \in 0 .. Len(subject) + 1
        BY <1>3, <2>3, <2>5
    <2> QED BY <2>5, <2>6, <2>7
<1> HIDE DEF m, k, e
<1>5. StepsOverPair' <=> StepsOverPair
    BY <1>1 DEF StepsOverPair, Boundary, To, Found
<1>6. Scanning'
    BY <1>1, <1>4, <1>5 DEF Scanning, Taken
<1> QED BY <1>1, <1>2, <1>6 DEF IInv, Standing, GsubReturned, Seeking, Sought, Running

LEMMA ScanEndKeepsWalk == IInv /\ ScanEnd => IInv'
<1> SUFFICES ASSUME IInv, ScanEnd PROVE IInv'
    OBVIOUS
<1> DEFINE m == FindFrom(start)
<1>1. /\ subject' = subject /\ pattern' = pattern /\ call' = call
      /\ pc = "running" /\ pc' = "returned" /\ call.method = "scan"
      /\ ~Found(m) /\ visited' = visited
    BY DEF ScanEnd, Goes, Running
<1>2. PatternOK(subject, pattern) /\ PatternOK(subject, pattern)'
    BY <1>1 DEF IInv
<1>3. ASSUME ~StepsOverPair
      PROVE  Greedy(subject, pattern, visited, Len(subject) + 1)
    <2>1. /\ start \in 0 .. Len(subject) + 1
          /\ start <= Len(subject) => Boundary(subject, start)
          /\ Greedy(subject, pattern, visited, start)
          /\ \A j \in visited : To(pattern[j]) <= start
        BY <1>1, <1>3 DEF IInv, Scanning, Taken
    <2> QED BY <1>1, <1>2, <2>1, SearchGoesOn
<1>4. StepsOverPair' <=> StepsOverPair
    BY <1>1 DEF StepsOverPair, Boundary, To, Found
<1>5. Scanning'
    BY <1>1, <1>3, <1>4 DEF Scanning, Taken
<1> QED BY <1>1, <1>2, <1>5 DEF IInv, Standing, GsubReturned, Seeking, Sought, Running

\* The match a walk stands at is taken, and the next is found.
LEMMA StandingGoesOn ==
    ASSUME IInv, Running("gsub") \/ Running("rindex"),
           NEW next, next = FindNext(match)
    PROVE  IF Found(next)
           THEN /\ From(next) \in From(match) + 1 .. Len(subject)
                /\ next = pattern[From(next)]
                /\ Greedy(subject, pattern, visited \cup {From(match)}, From(next))
                /\ Free(subject, pattern, visited \cup {From(match)}, From(next))
           ELSE Greedy(subject, pattern, visited \cup {From(match)}, Len(subject) + 1)
<1> DEFINE k == From(match)
<1>1. /\ PatternOK(subject, pattern)
      /\ k \in 0 .. Len(subject)
      /\ match = pattern[k]
      /\ Greedy(subject, pattern, visited, k)
      /\ Free(subject, pattern, visited, k)
    BY DEF IInv, Standing, Taken
<1> HIDE DEF k
<1>2. next = FindNext(pattern[k])
    BY <1>1
<1>3. IF Found(next)
      THEN /\ From(next) \in k + 1 .. Len(subject)
           /\ next = pattern[From(next)]
           /\ Greedy(subject, pattern, visited \cup {k}, From(next))
           /\ Free(subject, pattern, visited \cup {k}, From(next))
      ELSE Greedy(subject, pattern, visited \cup {k}, Len(subject) + 1)
    BY <1>1, <1>2, NextIsFree
<1> QED BY <1>3 DEF k

LEMMA GsubOnceKeepsWalk == IInv /\ GsubOnce => IInv'
<1> SUFFICES ASSUME IInv, GsubOnce PROVE IInv'
    OBVIOUS
<1> DEFINE next == FindNext(match)
           taken == visited \cup {From(match)}
<1>1. /\ subject' = subject /\ pattern' = pattern /\ call' = call
      /\ Running("gsub") /\ call.method = "gsub"
      /\ pc' = IF Found(next) /\ ~call.once THEN "running" ELSE "returned"
      /\ match' = next /\ visited' = taken
    BY DEF GsubOnce, Goes, GoesOn, Running
<1>2. PatternOK(subject, pattern) /\ PatternOK(subject, pattern)'
    BY <1>1 DEF IInv
<1>3. Len(subject) \in Nat
    BY <1>2 DEF PatternOK
<1>4. From(match) \in 0 .. Len(subject)
    BY <1>1 DEF IInv, Standing
<1>5. IF Found(next)
      THEN /\ From(next) \in From(match) + 1 .. Len(subject)
           /\ next = pattern[From(next)]
           /\ Greedy(subject, pattern, taken, From(next))
           /\ Free(subject, pattern, taken, From(next))
      ELSE Greedy(subject, pattern, taken, Len(subject) + 1)
    BY <1>1, StandingGoesOn
<1> HIDE DEF next, taken
<1>6. Found(next) => From(next) \in 0 .. Len(subject)
    BY <1>3, <1>4, <1>5
<1>7. Standing'
    BY <1>1, <1>5, <1>6 DEF Standing, Running, Taken
<1>8. GsubReturned'
    <2>1. ASSUME pc' = "returned"
          PROVE  \E n \in 0 .. Len(subject) + 1 :
                    Greedy(subject, pattern, taken, n) /\ (call.once \/ n = Len(subject) + 1)
        <3>1. CASE Found(next)
            <4>1. From(next) \in 0 .. Len(subject) + 1 /\ call.once
                BY <1>1, <1>3, <1>6, <2>1, <3>1
            <4> QED BY <1>5, <3>1, <4>1
        <3>2. CASE ~Found(next)
            <4>1. Len(subject) + 1 \in 0 .. Len(subject) + 1
                BY <1>3
            <4> QED BY <1>5, <3>2, <4>1
        <3> QED BY <3>1, <3>2
    <2> QED BY <1>1, <2>1 DEF GsubReturned, Taken
<1> QED BY <1>1, <1>2, <1>7, <1>8 DEF IInv, Scanning, Seeking, Sought, Running

\* rindex goes on while the next match is not behind its position.
LEMMA RindexOnceKeepsWalk == IInv /\ RindexOnce => IInv'
<1> SUFFICES ASSUME IInv, RindexOnce PROVE IInv'
    OBVIOUS
<1> DEFINE last == LastStart(call.pos)
           next == FindNext(match)
           taken == visited \cup {From(match)}
           more == Found(next) /\ ~(From(next) > last)
<1>1. /\ subject' = subject /\ pattern' = pattern /\ call' = call
      /\ Running("rindex") /\ call.method = "rindex"
      /\ pc' = (IF more THEN "running" ELSE "returned")
      /\ match' = next /\ visited' = taken
      /\ start' = (IF more THEN From(next) ELSE start)
      /\ answer' = (IF more \/ start > last THEN -1 ELSE start)
    BY DEF RindexOnce, Goes, Behind, Running
<1>2. PatternOK(subject, pattern) /\ PatternOK(subject, pattern)'
    BY <1>1 DEF IInv
<1>3. Len(subject) \in Nat
    BY <1>2 DEF PatternOK
<1>4. last \in Int /\ (LastStart(call.pos)' = last)
    <2>1. call.pos \in Int
        BY <1>1 DEF IInv, Seeking
    <2>2. LastStart(call.pos)' = LastStart(call.pos)
        BY <1>1 DEF LastStart, FromEnd
    <2> QED BY <1>3, <2>1, <2>2, LastStartClamps
<1>5. /\ From(match) \in 0 .. Len(subject)
      /\ start = From(match) /\ call.pos \in Int
      /\ visited # {} => start <= last
      /\ Greedy(subject, pattern, visited, From(match))
    BY <1>1 DEF IInv, Standing, Seeking, Taken
<1>6. IF Found(next)
      THEN /\ From(next) \in From(match) + 1 .. Len(subject)
           /\ next = pattern[From(next)]
           /\ Greedy(subject, pattern, taken, From(next))
           /\ Free(subject, pattern, taken, From(next))
      ELSE Greedy(subject, pattern, taken, Len(subject) + 1)
    BY <1>1, StandingGoesOn
<1>7. visited \subseteq 0 .. From(match) - 1
    BY <1>5 DEF Greedy
<1>8. taken = visited \cup {From(match)}
    OBVIOUS
<1> HIDE DEF last, next, taken
<1>9. Found(next) => From(next) \in 0 .. Len(subject)
    BY <1>3, <1>5, <1>6
<1>10. Standing'
    BY <1>1, <1>6, <1>9 DEF Standing, Running, Taken
<1>11. Seeking'
    BY <1>1, <1>4, <1>5, <1>9 DEF Seeking, Running
<1>12. Sought'
    <2>1. ASSUME pc' = "returned"
          PROVE  /\ \E n \in 0 .. Len(subject) + 1 :
                        /\ Greedy(subject, pattern, taken, n)
                        /\ n > last \/ n = Len(subject) + 1
                 /\ \/ answer' = -1 /\ \A i \in taken : i > last
                    \/ /\ answer' \in taken /\ answer' <= last
                       /\ \A i \in taken : i <= answer'
        <3>1. \E n \in 0 .. Len(subject) + 1 :
                /\ Greedy(subject, pattern, taken, n)
                /\ n > last \/ n = Len(subject) + 1
            <4>1. CASE Found(next)
                <5>1. From(next) \in 0 .. Len(subject) + 1 /\ From(next) > last
                    BY <1>1, <1>3, <1>9, <2>1, <4>1
                <5> QED BY <1>6, <4>1, <5>1
            <4>2. CASE ~Found(next)
                <5>1. Len(subject) + 1 \in 0 .. Len(subject) + 1
                    BY <1>3
                <5> QED BY <1>6, <4>2, <5>1
            <4> QED BY <4>1, <4>2
        <3>2. answer' = IF start > last THEN -1 ELSE start
            BY <1>1, <2>1
        <3>3. CASE start > last
            <4>1. visited = {}
                BY <1>3, <1>4, <1>5, <3>3
            <4> QED BY <1>5, <1>8, <3>1, <3>2, <3>3, <4>1
        <3>4. CASE ~(start > last)
            <4>1. start \in taken /\ start <= last
                BY <1>3, <1>4, <1>5, <1>8, <3>4
            <4>2. \A i \in taken : i <= start
                BY <1>5, <1>7, <1>8
            <4> QED BY <3>1, <3>2, <3>4, <4>1, <4>2
        <3> QED BY <3>3, <3>4
    <2> QED BY <1>1, <1>4, <1>5, <2>1 DEF Sought, Taken
<1> QED BY <1>1, <1>2, <1>10, <1>11, <1>12 DEF IInv, Scanning, GsubReturned, Running

-----------------------------------------------------------------------------
LEMMA UnchangedKeepsWalk == IInv /\ UNCHANGED vars => IInv'
<1> SUFFICES ASSUME IInv, UNCHANGED vars PROVE IInv'
    OBVIOUS
<1>1. /\ subject' = subject /\ pattern' = pattern /\ call' = call /\ pc' = pc
      /\ match' = match /\ start' = start /\ answer' = answer /\ visited' = visited
    BY DEF vars
<1>2. StepsOverPair' <=> StepsOverPair
    BY <1>1 DEF StepsOverPair, Boundary, To, Found
<1>3. PatternOK(subject, pattern)' /\ Standing'
    BY <1>1 DEF IInv, Standing, Running, Taken
<1>4. Scanning'
    BY <1>1, <1>2 DEF IInv, Scanning, Taken
<1>5. LastStart(call.pos)' = LastStart(call.pos)
    BY <1>1 DEF LastStart, FromEnd
<1>6. GsubReturned' /\ Seeking' /\ Sought'
    BY <1>1, <1>5 DEF IInv, GsubReturned, Seeking, Sought, Running, Taken
<1> QED BY <1>1, <1>3, <1>4, <1>6 DEF IInv

LEMMA NextKeepsWalk == IInv /\ [Next]_vars => IInv'
<1> SUFFICES ASSUME IInv, [Next]_vars PROVE IInv'
    OBVIOUS
<1>1. CASE ScanBegin
    BY <1>1, ScanBeginKeepsWalk
<1>2. CASE \E t \in Templates, once \in BOOLEAN : GsubBegin(t, once)
    BY <1>2, GsubBeginKeepsWalk
<1>3. Len(subject) \in Nat
    BY DEF IInv, PatternOK
<1>4. ASSUME NEW pos \in -(Len(subject) + 1) .. Len(subject) + 1, RindexBegin(pos)
      PROVE  IInv'
    BY <1>3, <1>4, RindexBeginKeepsWalk
<1>5. ASSUME NEW w, NEW pos, RindexWord(w, pos)
      PROVE  IInv'
    <2>1. Answers([method |-> "rindex_word", word |-> w, pos |-> pos])
        BY <1>5 DEF RindexWord
    <2> QED BY <2>1, AnswersKeepsWalk
<1>6. ASSUME NEW pos, Index(pos)
      PROVE  IInv'
    <2>1. Answers([method |-> "index", pos |-> pos])
        BY <1>6 DEF Index
    <2> QED BY <2>1, AnswersKeepsWalk
<1>7. ASSUME NEW w, NEW pos, IndexWord(w, pos)
      PROVE  IInv'
    <2>1. Answers([method |-> "index_word", word |-> w, pos |-> pos])
        BY <1>7 DEF IndexWord
    <2> QED BY <2>1, AnswersKeepsWalk
<1>8. ASSUME NEW limit, Split(limit)
      PROVE  IInv'
    <2>1. Answers([method |-> "split", limit |-> limit])
        BY <1>8 DEF Split
    <2> QED BY <2>1, AnswersKeepsWalk
<1>9. CASE Step
    BY <1>9, ScanOnceKeepsWalk, ScanEndKeepsWalk, GsubOnceKeepsWalk, RindexOnceKeepsWalk
       DEF Step
<1>10. CASE Forget
    BY <1>10, ForgetKeepsWalk
<1>11. CASE UNCHANGED vars
    BY <1>11, UnchangedKeepsWalk
<1> QED BY <1>1, <1>2, <1>4, <1>5, <1>6, <1>7, <1>8, <1>9, <1>10, <1>11 DEF Next

LEMMA WalkIsInvariant == Spec => []IInv
BY InitIsWalk, NextKeepsWalk, PTL DEF Spec

-----------------------------------------------------------------------------
LEMMA WalkTakesLeftmost == IInv => TakesLeftmost
<1> SUFFICES ASSUME IInv, call.method # "scan" \/ ~StepsOverPair
    PROVE  /\ visited \subseteq Leftmost
           /\ \A i \in Leftmost \ visited, j \in visited : j < i
           /\ RanThrough => visited = Leftmost
    BY DEF TakesLeftmost
<1>1. Len(subject) \in Nat
    BY DEF IInv, PatternOK
<1>2. \E n \in 0 .. Len(subject) + 1 :
        Taken(n) /\ (RanThrough => n = Len(subject) + 1)
    <2>1. CASE Running("gsub") \/ Running("rindex")
        <3>1. From(match) \in 0 .. Len(subject) + 1 /\ Taken(From(match)) /\ ~RanThrough
            BY <1>1, <2>1 DEF IInv, Standing, RanThrough, Running
        <3> QED BY <3>1
    <2>2. CASE call.method = "scan"
        <3>1. CASE pc = "returned"
            <4>1. Taken(Len(subject) + 1)
                BY <2>2, <3>1 DEF IInv, Scanning
            <4> QED BY <1>1, <4>1
        <3>2. CASE pc # "returned"
            <4>1. start \in 0 .. Len(subject) + 1 /\ Taken(start) /\ ~RanThrough
                BY <2>2, <3>2 DEF IInv, Scanning, RanThrough
            <4> QED BY <4>1
        <3> QED BY <3>1, <3>2
    <2>3. CASE call.method = "gsub" /\ pc = "returned"
        BY <2>3 DEF IInv, GsubReturned, RanThrough
    <2>4. CASE call.method = "rindex" /\ pc = "returned"
        BY <2>4 DEF IInv, Sought, RanThrough
    <2>5. CASE call.method \notin {"scan", "gsub", "rindex"}
        <3>1. Taken(0) /\ ~RanThrough
            BY <2>5, NothingTaken DEF IInv, Taken, RanThrough
        <3> QED BY <1>1, <3>1
    <2> QED BY <2>1, <2>2, <2>3, <2>4, <2>5 DEF IInv, Running
<1>3. PICK n \in 0 .. Len(subject) + 1 :
        Taken(n) /\ (RanThrough => n = Len(subject) + 1)
    BY <1>2
<1>4. visited = Leftmost \cap (0 .. n - 1) /\ Leftmost \subseteq 0 .. Len(subject)
    BY <1>1, <1>3, GreedyIsLeftmost DEF Taken
<1>5. n \in Int /\ \A i \in Leftmost : i \in Int /\ 0 <= i /\ i <= Len(subject)
    BY <1>1, <1>4
<1>6. ASSUME NEW i \in Leftmost, i \notin visited PROVE n <= i
    BY <1>4, <1>5, <1>6
<1>7. ASSUME NEW i \in Leftmost \ visited, NEW j \in visited PROVE j < i
    <2>1. n <= i /\ j \in 0 .. n - 1
        BY <1>4, <1>6
    <2> QED BY <1>5, <2>1
<1>8. ASSUME RanThrough PROVE visited = Leftmost
    <2>1. 0 .. n - 1 = 0 .. Len(subject)
        BY <1>1, <1>3, <1>8
    <2> QED BY <1>4, <2>1
<1> QED BY <1>4, <1>7, <1>8

\* For any text and pattern, each walk takes the leftmost matches that do not
\* overlap, in their order, and a scan or gsub that has returned has taken all;
\* scan, where no pair follows an empty match (ustr_scan_once steps one unit).
THEOREM AlwaysTakesLeftmost == Spec => []TakesLeftmost
BY WalkIsInvariant, WalkTakesLeftmost, PTL

LEMMA LargestIsMax ==
    ASSUME NEW D \in SUBSET Int, NEW d \in D, \A e \in D : e <= d
    PROVE  Max(D) = d
<1>1. Max(D) \in D /\ \A e \in D : Max(D) >= e
    BY DEF Max
<1>2. Max(D) \in Int /\ d \in Int
    BY <1>1
<1>3. Max(D) <= d /\ Max(D) >= d
    BY <1>1
<1> QED BY <1>2, <1>3

LEMMA WalkFindsLast == IInv => RindexIsLastOfWalk
<1> SUFFICES ASSUME IInv, call.method = "rindex", pc = "returned"
    PROVE  RindexIsLastOfWalk
    BY DEF RindexIsLastOfWalk
<1> DEFINE last == FromEnd(call.pos)
           upTo == {i \in Leftmost : i <= last}
<1>1. Len(subject) \in Nat /\ call.pos \in Int /\ last \in Int
    BY DEF IInv, PatternOK, Sought, FromEnd
<1>2. \A i \in Int : i <= Len(subject) => (i <= LastStart(call.pos) <=> i <= last)
    BY <1>1, LastStartClamps
<1>3. PICK n \in 0 .. Len(subject) + 1 :
        Taken(n) /\ (n > LastStart(call.pos) \/ n = Len(subject) + 1)
    BY DEF IInv, Sought
<1>4. visited = Leftmost \cap (0 .. n - 1) /\ Leftmost \subseteq 0 .. Len(subject)
    BY <1>1, <1>3, GreedyIsLeftmost DEF Taken
<1>5. LastStart(call.pos) \in Int
    BY <1>1, LastStartClamps
<1>6. \A i \in Leftmost : i \in Int /\ 0 <= i /\ (i <= LastStart(call.pos) <=> i <= last)
    BY <1>1, <1>2, <1>4
<1> HIDE DEF last
<1>7. upTo = {i \in visited : i <= last}
    <2>1. ASSUME NEW i \in Leftmost, i <= last PROVE i \in visited
        <3>1. i \in 0 .. n - 1
            BY <1>1, <1>3, <1>4, <1>5, <1>6, <2>1
        <3> QED BY <1>4, <3>1
    <2> QED BY <1>4, <2>1
<1>8. answer = IF upTo = {} THEN -1 ELSE Max(upTo)
    <2>1. CASE answer = -1 /\ \A i \in visited : i > LastStart(call.pos)
        <3>1. upTo = {}
            BY <1>1, <1>4, <1>5, <1>6, <1>7, <2>1
        <3> QED BY <2>1, <3>1
    <2>2. CASE /\ answer \in visited /\ answer <= LastStart(call.pos)
               /\ \A i \in visited : i <= answer
        <3>1. answer \in upTo /\ \A i \in upTo : i <= answer
            BY <1>4, <1>6, <1>7, <2>2
        <3>2. upTo \in SUBSET Int
            BY <1>6
        <3> HIDE DEF upTo
        <3>3. Max(upTo) = answer
            BY <3>1, <3>2, LargestIsMax
        <3>4. upTo # {}
            BY <3>1
        <3> QED BY <3>3, <3>4
    <2> QED BY <2>1, <2>2 DEF IInv, Sought
<1>9. last = IF call.pos < 0 THEN Len(subject) + call.pos ELSE call.pos
    BY <1>1 DEF last, FromEnd
<1> HIDE DEF upTo
<1> QED BY <1>8, <1>9, Zenon DEF RindexIsLastOfWalk, upTo

\* rindex answers with the last match of the walk that starts at its position or
\* before it (a negative one counts from the end of the text), and with nil if there
\* is none.
THEOREM AlwaysRindexIsLastOfWalk == Spec => []RindexIsLastOfWalk
BY WalkIsInvariant, WalkFindsLast, PTL

-----------------------------------------------------------------------------
\* What u_strFindFirst sees behind a boundary are the occurrences in the whole text.
LEMMA HitsAreOccurrences ==
    ASSUME subject \in Seq(Units), NEW i \in 0 .. Len(subject), Boundary(subject, i),
           NEW w \in Seq(Units), w # << >>,
           NEW k \in i .. Len(subject) - Len(w)
    PROVE  k \in HitsWithin(i, Len(subject), w) <=>
              /\ Boundary(subject, k) /\ Boundary(subject, k + Len(w))
              /\ Stretch(k, k + Len(w)) = w
<1> DEFINE n == Len(w)
           p == [j \in 0 .. Len(subject) - i - 1 |-> subject[i + j + 1]]
<1>1. Len(subject) \in Nat /\ n \in Nat /\ n > 0
    OBVIOUS
<1>2. k \in HitsWithin(i, Len(subject), w) <=>
        Stretch(k, k + n) = w /\ OnBoundaries(p, k - i, n, Len(subject) - i)
    BY DEF HitsWithin
<1>3. OnBoundaries(p, k - i, n, Len(subject) - i) <=>
        Boundary(subject, k) /\ Boundary(subject, k + n)
    <2>1. ASSUME NEW j \in i + 1 .. Len(subject) - 1
          PROVE  p[j - i - 1] = subject[j] /\ p[j - i] = subject[j + 1]
        <3>1. /\ j - i - 1 \in 0 .. Len(subject) - i - 1
              /\ j - i \in 0 .. Len(subject) - i - 1
              /\ i + (j - i - 1) + 1 = j /\ i + (j - i) + 1 = j + 1
            BY <1>1
        <3> QED BY <3>1
    <2> HIDE DEF p, n
    <2>2. Boundary(subject, k) <=>
            ~(k - i > 0 /\ p[k - i - 1] \in Leads /\ p[k - i] \in Trails)
        <3>1. CASE k = i
            BY <1>1, <3>1
        <3>2. CASE k > i
            <4>1. k \in i + 1 .. Len(subject) - 1
                BY <1>1, <3>2 DEF n
            <4>2. p[k - i - 1] = subject[k] /\ p[k - i] = subject[k + 1]
                BY <2>1, <4>1
            <4> QED BY <1>1, <3>2, <4>1, <4>2 DEF Boundary
        <3> QED BY <1>1, <3>1, <3>2
    <2>3. Boundary(subject, k + n) <=>
            ~(k - i + n < Len(subject) - i /\ p[k - i + n - 1] \in Leads
                                           /\ p[k - i + n] \in Trails)
        <3>1. CASE k + n = Len(subject)
            BY <1>1, <3>1 DEF Boundary
        <3>2. CASE k + n # Len(subject)
            <4>1. k + n \in i + 1 .. Len(subject) - 1
                BY <1>1, <3>2 DEF n
            <4>2. p[(k + n) - i - 1] = subject[k + n] /\ p[(k + n) - i] = subject[(k + n) + 1]
                BY <2>1, <4>1
            <4>3. (k + n) - i - 1 = k - i + n - 1 /\ (k + n) - i = k - i + n
                BY <1>1
            <4> QED BY <1>1, <4>1, <4>2, <4>3 DEF Boundary
        <3> QED BY <3>1, <3>2
    <2> QED BY <2>2, <2>3 DEF OnBoundaries
<1> QED BY <1>2, <1>3

LEMMA IndexIsFirst ==
    ASSUME IInv, NEW pos \in Int, Index(pos)
    PROVE  IndexFindsFirst'
<1> DEFINE i == FromEnd(pos)
           m == IF i \in 0 .. Len(subject) THEN FindFrom(i) ELSE NoMatch
           from == {j \in i .. Len(subject) : Boundary(subject, j) /\ Found(pattern[j])}
<1>1. /\ subject' = subject /\ pattern' = pattern
      /\ call' = [method |-> "index", pos |-> pos]
      /\ answer' = IF Found(m) THEN From(m) ELSE -1
    BY DEF Index, Answers, Calls
<1>2. PatternOK(subject, pattern) /\ Len(subject) \in Nat
    BY DEF IInv, PatternOK
<1>3. ASSUME 0 <= i, Boundary(subject, i)
      PROVE  answer' = IF from = {} THEN -1 ELSE Min(from)
    <2>1. i \in Nat
        BY <1>2, <1>3 DEF FromEnd
    <2>2. CASE i > Len(subject)
        BY <1>1, <1>2, <2>1, <2>2 DEF Found
    <2>3. CASE i \in 0 .. Len(subject)
        <3> DEFINE hits == {j \in i .. Len(subject) :
                                (j = i \/ Boundary(subject, j)) /\ Found(pattern[j])}
        <3>1. hits = from
            BY <1>3
        <3>2. m = IF from = {} THEN NoMatch ELSE pattern[Min(from)]
            BY <2>3, <3>1 DEF FindFrom
        <3>3. CASE from = {}
            BY <1>1, <3>2, <3>3 DEF Found
        <3>4. CASE from # {}
            <4>1. Min(from) \in from
                <5>1. from \in SUBSET Nat
                    BY <2>1, <1>2
                <5> QED BY <3>4, <5>1, LeastIsMin
            <4>2. Min(from) \in 0 .. Len(subject) /\ Found(pattern[Min(from)])
                BY <1>2, <2>1, <4>1
            <4> HIDE DEF from
            <4>3. From(pattern[Min(from)]) = Min(from)
                BY <1>2, <4>2 DEF PatternOK
            <4> QED BY <1>1, <3>2, <3>4, <4>2, <4>3
        <3> QED BY <3>3, <3>4
    <2> QED BY <1>2, <2>1, <2>2, <2>3
<1>4. i < 0 => answer' = -1
    BY <1>1, <1>2 DEF Found
<1> HIDE DEF m
<1>5. i = IF pos < 0 THEN Len(subject) + pos ELSE pos
    BY <1>2 DEF FromEnd
<1> HIDE DEF i
<1> QED BY <1>1, <1>3, <1>4, <1>5 DEF IndexFindsFirst, Occurs, Boundary, Found

LEMMA IndexWordIsFirst ==
    ASSUME IInv, NEW pos \in Int, NEW w \in Words \cup {<< >>}, IndexWord(w, pos)
    PROVE  IndexFindsFirst'
<1> DEFINE i == FromEnd(pos)
           n == Len(w)
           at(j) == /\ Boundary(subject, j) /\ j + n <= Len(subject)
                    /\ Boundary(subject, j + n) /\ Stretch(j, j + n) = w
           from == {j \in i .. Len(subject) : at(j)}
<1>1. /\ subject' = subject /\ pattern' = pattern
      /\ call' = [method |-> "index_word", word |-> w, pos |-> pos]
      /\ answer' = IF FromEnd(i) < 0 \/ Len(subject) - FromEnd(i) < n THEN -1
                   ELSE IF w = << >> THEN FromEnd(i) ELSE FindFirst(FromEnd(i), w)
    BY DEF IndexWord, Answers, Calls
<1>2. subject \in Seq(Units) /\ Len(subject) \in Nat
    BY DEF IInv, PatternOK
<1>3. w \in Seq(Units) /\ n \in Nat
    <2>1. << >> \in Seq(Units)
        OBVIOUS
    <2>2. w \in Seq(Units)
        BY <2>1, TextsAssumption, Zenon
    <2> QED BY <2>2
<1>4. ASSUME 0 <= i, Boundary(subject, i)
      PROVE  answer' = IF from = {} THEN -1 ELSE Min(from)
    <2>1. i \in Nat /\ FromEnd(i) = i
        BY <1>2, <1>4 DEF FromEnd
    <2> HIDE DEF i
    <2>2. CASE Len(subject) - i < n
        <3>1. from = {}
            BY <1>2, <1>3, <2>1, <2>2
        <3>2. answer' = -1
            BY <1>1, <2>1, <2>2
        <3> QED BY <3>1, <3>2
    <2>3. CASE Len(subject) - i >= n /\ w = << >>
        <3>1. n = 0 /\ i <= Len(subject)
            BY <1>2, <2>1, <2>3
        <3>2. Stretch(i, i) = << >>
            BY <1>2, <2>1, <3>1 DEF Stretch
        <3>3. i \in from /\ \A j \in from : i <= j
            BY <1>2, <1>4, <2>1, <2>3, <3>1, <3>2
        <3>4. from \in SUBSET Int
            BY <1>2, <2>1
        <3> HIDE DEF from
        <3>5. Min(from) = i /\ from # {}
            BY <3>3, <3>4, SmallestIsMin
        <3>6. answer' = i
            BY <1>1, <1>2, <2>1, <2>3, <3>1
        <3> QED BY <3>5, <3>6
    <2>4. CASE Len(subject) - i >= n /\ w # << >>
        <3> DEFINE hits == HitsWithin(i, Len(subject), w)
        <3>1. i \in 0 .. Len(subject)
            BY <1>2, <1>3, <2>1, <2>4
        <3>2. \A k \in i .. Len(subject) - n : k \in hits <=> at(k)
            <4> SUFFICES ASSUME NEW k \in i .. Len(subject) - n PROVE k \in hits <=> at(k)
                OBVIOUS
            <4>1. k + n <= Len(subject)
                BY <1>2, <1>3, <2>1
            <4> QED BY <1>2, <1>3, <1>4, <2>4, <3>1, <4>1, HitsAreOccurrences
        <3>3. hits \subseteq i .. Len(subject) - n
            BY DEF HitsWithin
        <3>4. from \subseteq i .. Len(subject) - n
            BY <1>2, <1>3, <2>1
        <3>5. \A k \in i .. Len(subject) - n : k \in i .. Len(subject)
            BY <1>2, <1>3, <2>1
        <3> HIDE DEF hits, at
        <3>6. hits = from
            BY <3>2, <3>3, <3>4, <3>5
        <3>7. answer' = FindFirst(i, w)
            BY <1>1, <1>2, <1>3, <2>1, <2>4
        <3> QED BY <3>6, <3>7 DEF FindFirst, hits
    <2> QED BY <1>2, <1>3, <2>1, <2>2, <2>3, <2>4
<1>5. i = IF pos < 0 THEN Len(subject) + pos ELSE pos
    BY <1>2 DEF FromEnd
<1> HIDE DEF i
<1> QED BY <1>1, <1>4, <1>5, ZenonT(60) DEF IndexFindsFirst, Occurs, Boundary, Stretch

LEMMA NextFindsFirst == IInv /\ IndexFindsFirst /\ [Next]_vars => IndexFindsFirst'
<1> SUFFICES ASSUME IInv, IndexFindsFirst, [Next]_vars PROVE IndexFindsFirst'
    OBVIOUS
<1>1. Len(subject) \in Nat
    BY DEF IInv, PatternOK
<1>2. ASSUME NEW pos \in -(Len(subject) + 1) .. Len(subject) + 1, Index(pos)
      PROVE  IndexFindsFirst'
    BY <1>1, <1>2, IndexIsFirst
<1>3. ASSUME NEW pos \in -(Len(subject) + 1) .. Len(subject) + 1,
             NEW w \in Words \cup {<< >>}, IndexWord(w, pos)
      PROVE  IndexFindsFirst'
    BY <1>1, <1>3, IndexWordIsFirst
<1>4. ASSUME call'.method \notin {"index", "index_word"}
      PROVE  IndexFindsFirst'
    BY <1>4 DEF IndexFindsFirst
<1>5. CASE ScanBegin
    BY <1>4, <1>5 DEF ScanBegin, Calls
<1>6. ASSUME NEW t, NEW once, GsubBegin(t, once) PROVE IndexFindsFirst'
    BY <1>4, <1>6 DEF GsubBegin, Calls
<1>7. ASSUME NEW pos, RindexBegin(pos) PROVE IndexFindsFirst'
    BY <1>4, <1>7 DEF RindexBegin, Calls
<1>8. ASSUME NEW w, NEW pos, RindexWord(w, pos) PROVE IndexFindsFirst'
    BY <1>4, <1>8 DEF RindexWord, Answers, Calls
<1>9. ASSUME NEW limit, Split(limit) PROVE IndexFindsFirst'
    BY <1>4, <1>9 DEF Split, Answers, Calls
<1>10. CASE Step
    <2>1. call' = call /\ call.method \in {"scan", "gsub", "rindex"}
        BY <1>10 DEF Step, ScanOnce, ScanEnd, GsubOnce, RindexOnce, Goes, Running
    <2> QED BY <1>4, <2>1
<1>11. CASE Forget
    BY <1>4, <1>11 DEF Forget, NoCall
<1>12. CASE UNCHANGED vars
    BY <1>12, ZenonT(60) DEF vars, IndexFindsFirst, Occurs, Boundary, Found, Stretch
<1> QED BY <1>2, <1>3, <1>5, <1>6, <1>7, <1>8, <1>9, <1>10, <1>11, <1>12 DEF Next

\* index answers with the first occurrence, of a pattern or a text, at the offset
\* or behind it, for every offset that does not reach in front of the text and is
\* not in the middle of a pair; a pattern is not found from one in front of it.
THEOREM AlwaysIndexFindsFirst == Spec => []IndexFindsFirst
<1>1. Init => IndexFindsFirst
    BY DEF Init, NoCall, IndexFindsFirst
<1> QED BY <1>1, WalkIsInvariant, NextFindsFirst, PTL DEF Spec

-----------------------------------------------------------------------------
\* The digits of a group number are there, and three at most.
LEMMA DigitsAreThere ==
    ASSUME NEW r \in Seq(Units), NEW i \in 1 .. Len(r) + 1
    PROVE  /\ DigitsAt(r, i) \in 0 .. 3
           /\ i + DigitsAt(r, i) - 1 <= Len(r)
<1> DEFINE D == {n \in 0 .. 3 : i + n - 1 <= Len(r) /\ \A j \in i .. i + n - 1 : IsDigit(r[j])}
<1>1. Len(r) \in Nat /\ D \in SUBSET (0 .. 3)
    OBVIOUS
<1>2. 0 \in D
    BY <1>1
<1> HIDE DEF D
<1>3. \E d \in D : \A e \in D : d >= e
    <2>1. CASE 3 \in D
        BY <1>1, <2>1
    <2>2. CASE 3 \notin D /\ 2 \in D
        BY <1>1, <2>2
    <2>3. CASE 3 \notin D /\ 2 \notin D /\ 1 \in D
        BY <1>1, <2>3
    <2>4. CASE 3 \notin D /\ 2 \notin D /\ 1 \notin D
        BY <1>1, <1>2, <2>4
    <2> QED BY <2>1, <2>2, <2>3, <2>4
<1>4. Max(D) \in D
    BY <1>3 DEF Max
<1>5. DigitsAt(r, i) = Max(D)
    BY DEF DigitsAt, D
<1> QED BY <1>4, <1>5 DEF D

\* What the units of a group number refer to.
Referred(r, m, i) == Group(m, Number(SubSeq(r, i + 1, i + DigitsAt(r, i + 1))))

\* f is what is put in for r from each position on.
RestOf(f, r, m) ==
    f = [i \in 1 .. Len(r) + 1 |->
            IF i > Len(r) THEN << >>
            ELSE IF r[i] = Backslash
                 THEN IF i = Len(r) THEN << >> ELSE <<r[i + 1]>> \o f[i + 2]
            ELSE IF r[i] # Dollar \/ DigitsAt(r, i + 1) = 0 THEN <<r[i]>> \o f[i + 1]
            ELSE Referred(r, m, i) \o f[i + DigitsAt(r, i + 1) + 1]]

\* There is such a function: each position refers to later ones.
LEMMA RestExists ==
    ASSUME NEW r \in Seq(Units), NEW m, \A g : Group(m, g) \in Seq(Units)
    PROVE  \E f \in [1 .. Len(r) + 1 -> Seq(Units)] : RestOf(f, r, m)
<1> DEFINE n == Len(r)
           quotes(i) == r[i + 1] = Backslash
           ends(i) == i + 1 = n
           plain(i) == r[i + 1] # Dollar \/ DigitsAt(r, i + 2) = 0
           next == [i \in 0 .. n - 1 |->
                        IF quotes(i) THEN IF ends(i) THEN n ELSE i + 2
                        ELSE IF plain(i) THEN i + 1
                        ELSE i + 1 + DigitsAt(r, i + 2)]
           head(i) == IF quotes(i) THEN <<r[i + 2]>>
                      ELSE IF plain(i) THEN <<r[i + 1]>>
                      ELSE Referred(r, m, i + 1)
           step == [i \in 0 .. n - 1 |-> [a \in Seq(Units) |->
                        IF quotes(i) /\ ends(i) THEN << >> ELSE head(i) \o a]]
<1>1. n \in Nat /\ \A i \in 1 .. n : r[i] \in Units /\ <<r[i]>> \in Seq(Units)
    OBVIOUS
<1>2. next \in [0 .. n - 1 -> 1 .. n] /\ \A i \in 0 .. n - 1 : next[i] > i
    <2> SUFFICES ASSUME NEW i \in 0 .. n - 1
        PROVE  (IF quotes(i) THEN IF ends(i) THEN n ELSE i + 2
                ELSE IF plain(i) THEN i + 1
                ELSE i + 1 + DigitsAt(r, i + 2)) \in i + 1 .. n
        BY <1>1
    <2>1. DigitsAt(r, i + 2) \in 0 .. 3 /\ (i + 2) + DigitsAt(r, i + 2) - 1 <= n
        <3>1. i + 2 \in 1 .. n + 1
            BY <1>1
        <3> QED BY <3>1, DigitsAreThere
    <2> QED BY <1>1, <2>1
<1>3. ASSUME NEW i \in 0 .. n - 1, ~(quotes(i) /\ ends(i)) PROVE head(i) \in Seq(Units)
    <2>1. CASE quotes(i)
        <3>1. i + 2 \in 1 .. n
            BY <1>1, <1>3, <2>1
        <3> QED BY <1>1, <2>1, <3>1
    <2>2. CASE ~quotes(i) /\ plain(i)
        <3>1. i + 1 \in 1 .. n
            BY <1>1
        <3> QED BY <1>1, <2>2, <3>1
    <2>3. CASE ~quotes(i) /\ ~plain(i)
        BY <2>3 DEF Referred
    <2> QED BY <2>1, <2>2, <2>3
<1>4. << >> \in Seq(Units)
    BY EmptySeq
<1>5. step \in [0 .. n - 1 -> [Seq(Units) -> Seq(Units)]]
    <2> SUFFICES ASSUME NEW i \in 0 .. n - 1, NEW a \in Seq(Units)
        PROVE  (IF quotes(i) /\ ends(i) THEN << >> ELSE head(i) \o a) \in Seq(Units)
        BY Zenon
    <2> HIDE DEF quotes, ends, head, n
    <2>1. CASE quotes(i) /\ ends(i)
        BY <1>4, <2>1
    <2>2. CASE ~(quotes(i) /\ ends(i))
        <3>1. head(i) \in Seq(Units)
            BY <1>3, <2>2
        <3>2. head(i) \o a \in Seq(Units)
            BY <3>1, ConcatProperties
        <3> QED BY <2>2, <3>2
    <2> QED BY <2>1, <2>2
<1>6. PICK h \in [0 .. n -> Seq(Units)] :
        h[n] = << >> /\ \A i \in 0 .. n - 1 : h[i] = step[i][h[next[i]]]
    <2> DEFINE a == << >>
               A == Seq(Units)
    <2>1. a \in A /\ n \in Nat
        BY <1>1, <1>4
    <2>2. step \in [0 .. n - 1 -> [A -> A]]
        BY <1>5
    <2> HIDE DEF n, next, step, quotes, ends, plain, head, a, A
    <2>3. Above(next, n)
        BY <1>2 DEF Above
    <2>4. \E h \in [0 .. n -> A] : CountsDown(h, a, n, next, step)
        BY <2>1, <2>2, <2>3, CountdownExists
    <2> QED BY <2>4 DEF CountsDown, a, A
<1> DEFINE f == [i \in 1 .. n + 1 |-> h[i - 1]]
<1>7. f \in [1 .. n + 1 -> Seq(Units)] /\ \A i \in 1 .. n + 1 : f[i] = h[i - 1]
    BY <1>1
<1> DEFINE is(i) == IF i > Len(r) THEN << >>
                    ELSE IF r[i] = Backslash
                         THEN IF i = Len(r) THEN << >> ELSE <<r[i + 1]>> \o f[i + 2]
                    ELSE IF r[i] # Dollar \/ DigitsAt(r, i + 1) = 0 THEN <<r[i]>> \o f[i + 1]
                    ELSE Referred(r, m, i) \o f[i + DigitsAt(r, i + 1) + 1]
<1>8. ASSUME NEW i \in 1 .. n + 1 PROVE f[i] = is(i)
    <2>1. CASE i = n + 1
        <3>1. f[i] = << >>
            BY <1>1, <1>6, <1>7, <2>1
        <3>2. i > Len(r)
            BY <1>1, <2>1
        <3> HIDE DEF f, n
        <3> QED BY <3>1, <3>2
    <2>2. CASE i # n + 1
        <3> DEFINE k == i - 1
        <3>1. k \in 0 .. n - 1 /\ i = k + 1 /\ i + 1 = k + 2 /\ ~(i > n)
            BY <1>1, <2>2
        <3> HIDE DEF k
        <3>2. next[k] \in 1 .. n
            <4> HIDE DEF next, n
            <4> QED BY <1>2, <3>1
        <3>3. f[i] = h[k] /\ h[k] = step[k][h[next[k]]] /\ h[next[k]] \in Seq(Units)
            <4> HIDE DEF next, step, f
            <4>1. i - 1 = k /\ next[k] \in 0 .. n
                BY <1>1, <3>1, <3>2
            <4> QED BY <1>6, <1>7, <3>1, <4>1
        <3>4. h[next[k]] = f[next[k] + 1]
            <4> HIDE DEF next, step, f
            <4>1. next[k] + 1 \in 1 .. n + 1 /\ (next[k] + 1) - 1 = next[k]
                BY <1>1, <3>2
            <4> QED BY <1>7, <4>1
        <3>5. step[k][h[next[k]]] =
                 IF quotes(k) /\ ends(k) THEN << >> ELSE head(k) \o h[next[k]]
            <4> HIDE DEF next, head, quotes, ends, n
            <4> QED BY <3>1, <3>3
        <3>6. f[i] = IF quotes(k) /\ ends(k) THEN << >> ELSE head(k) \o f[next[k] + 1]
            <4> HIDE DEF next, step, head, quotes, ends, f
            <4> QED BY <3>3, <3>4, <3>5
        <3>7. next[k] + 1 = IF quotes(k) THEN IF ends(k) THEN n + 1 ELSE k + 2 + 1
                            ELSE IF plain(k) THEN k + 1 + 1
                            ELSE k + 1 + DigitsAt(r, k + 2) + 1
            BY <3>1
        <3>8. /\ (quotes(k) <=> r[i] = Backslash) /\ (ends(k) <=> i = n)
              /\ (plain(k) <=> r[i] # Dollar \/ DigitsAt(r, i + 1) = 0)
              /\ head(k) = IF r[i] = Backslash THEN <<r[i + 1]>>
                           ELSE IF plain(k) THEN <<r[i]>> ELSE Referred(r, m, i)
            BY <3>1
        <3> HIDE DEF f, next, step, head, quotes, ends, plain
        <3>9. CASE r[i] = Backslash /\ i = n
            BY <3>1, <3>6, <3>8, <3>9
        <3>10. CASE r[i] = Backslash /\ i # n
            <4>1. next[k] + 1 = i + 2
                BY <1>1, <3>1, <3>7, <3>8, <3>10
            <4> QED BY <3>1, <3>6, <3>8, <3>10, <4>1
        <3>11. CASE r[i] # Backslash /\ plain(k)
            <4>1. next[k] + 1 = i + 1
                BY <1>1, <3>1, <3>7, <3>8, <3>11
            <4> QED BY <3>1, <3>6, <3>8, <3>11, <4>1
        <3>12. CASE r[i] # Backslash /\ ~plain(k)
            <4>1. next[k] + 1 = i + DigitsAt(r, i + 1) + 1
                BY <3>1, <3>7, <3>8, <3>12
            <4> QED BY <3>1, <3>6, <3>8, <3>12, <4>1
        <3> QED BY <3>9, <3>10, <3>11, <3>12
    <2> QED BY <2>1, <2>2
<1>9. f = [i \in 1 .. Len(r) + 1 |-> is(i)]
    <2> HIDE DEF is
    <2>1. f = [i \in 1 .. n + 1 |-> f[i]]
        BY <1>7
    <2> HIDE DEF f
    <2> QED BY <1>8, <2>1
<1>10. RestOf(f, r, m)
    <2> HIDE DEF f
    <2> QED BY <1>9 DEF RestOf
<1> HIDE DEF f
<1> QED BY <1>7, <1>10

\* Replacement is such a function at the first position.
LEMMA ReplacementIs ==
    ASSUME NEW r \in Seq(Units), NEW m, \A g : Group(m, g) \in Seq(Units)
    PROVE  \E f : RestOf(f, r, m) /\ Replacement(r, m) = f[1]
<1>1. PICK h : RestOf(h, r, m)
    BY RestExists
<1> DEFINE f == CHOOSE g : RestOf(g, r, m)
<1>2. RestOf(f, r, m)
    BY <1>1
<1>3. Replacement(r, m) = f[1]
    BY DEF Replacement, RestOf, Referred
<1> HIDE DEF f
<1> QED BY <1>2, <1>3
-----------------------------------------------------------------------------
\* What an item is written with, and what it stands for.
LEMMA RawIs ==
    ASSUME NEW item \in Items
    PROVE  /\ item.units \in Seq(Units) /\ Raw(item) \in Seq(Units)
           /\ item.kind = "unit" => Raw(item) = item.units
           /\ item.kind \in {"quoted", "group"} =>
                /\ Len(Raw(item)) = 1 + Len(item.units)
                /\ Raw(item)[1] = IF item.kind = "group" THEN Dollar ELSE Backslash
                /\ \A j \in 1 .. Len(item.units) : Raw(item)[1 + j] = item.units[j]
           /\ item.kind = "end" => Len(Raw(item)) = 1 /\ Raw(item)[1] = Backslash
<1> DEFINE u == item.units
<1>1. u \in Seq(Units) /\ Len(u) \in Nat /\ item.kind \in {"unit", "quoted", "group", "end"}
    BY DEF Items
<1>2. Dollar \in Units /\ Backslash \in Units
    BY TemplatesAssumption
<1>3. ASSUME NEW c \in Units
      PROVE  /\ <<c>> \o u \in Seq(Units) /\ Len(<<c>> \o u) = 1 + Len(u)
             /\ (<<c>> \o u)[1] = c
             /\ \A j \in 1 .. Len(u) : (<<c>> \o u)[1 + j] = u[j]
    <2> HIDE DEF u
    <2>1. <<c>> \in Seq(Units) /\ Len(<<c>>) = 1 /\ <<c>>[1] = c
        OBVIOUS
    <2>2. \A i \in 1 .. 1 + Len(u) :
            (<<c>> \o u)[i] = IF i <= 1 THEN c ELSE u[i - 1]
        BY <1>1, <2>1, ConcatProperties
    <2>3. <<c>> \o u \in Seq(Units) /\ Len(<<c>> \o u) = 1 + Len(u)
        BY <1>1, <2>1, ConcatProperties
    <2>4. ASSUME NEW j \in 1 .. Len(u) PROVE (<<c>> \o u)[1 + j] = u[j]
        BY <1>1, <2>2
    <2> QED BY <1>1, <2>2, <2>3, <2>4
<1>4. CASE item.kind = "unit"
    BY <1>1, <1>4 DEF Raw
<1>5. CASE item.kind = "quoted"
    <2>1. Raw(item) = <<Backslash>> \o u
        BY <1>5 DEF Raw
    <2> QED BY <1>1, <1>2, <1>3, <1>5, <2>1
<1>6. CASE item.kind = "group"
    <2>1. Raw(item) = <<Dollar>> \o u
        BY <1>6 DEF Raw
    <2> QED BY <1>1, <1>2, <1>3, <1>6, <2>1
<1>7. CASE item.kind = "end"
    <2>1. Raw(item) = <<Backslash>>
        BY <1>7 DEF Raw
    <2> QED BY <1>1, <1>2, <1>7, <2>1
<1> QED BY <1>1, <1>4, <1>5, <1>6, <1>7

\* What an item stands for is a text.
LEMMA MeaningIsText ==
    ASSUME NEW item \in Items, NEW m, \A g : Group(m, g) \in Seq(Units)
    PROVE  Meaning(item, m) \in Seq(Units)
<1>1. item.units \in Seq(Units) /\ item.kind \in {"unit", "quoted", "group", "end"}
    BY DEF Items
<1>2. << >> \in Seq(Units) /\ <<Dollar>> \in Seq(Units)
    BY TemplatesAssumption, EmptySeq
<1>3. CASE item.kind \in {"unit", "quoted"}
    BY <1>1, <1>3 DEF Meaning
<1>4. CASE item.kind = "group"
    BY <1>2, <1>4 DEF Meaning
<1>5. CASE item.kind = "end"
    BY <1>2, <1>5 DEF Meaning
<1> QED BY <1>1, <1>3, <1>4, <1>5

\* The first k items, as they are written and as they are meant.
Begun(t, k) == FlattenSeq([i \in 1 .. k |-> Raw(t[i])])

MeantTo(t, m, k) == FlattenSeq([i \in 1 .. k |-> Meaning(t[i], m)])

\* Before the first item.
LEMMA NothingBegun == \A t, m : Begun(t, 0) = << >> /\ MeantTo(t, m, 0) = << >>
<1> SUFFICES ASSUME NEW t, NEW m PROVE Begun(t, 0) = << >> /\ MeantTo(t, m, 0) = << >>
    OBVIOUS
<1>1. [i \in 1 .. 0 |-> Raw(t[i])] = << >> /\ [i \in 1 .. 0 |-> Meaning(t[i], m)] = << >>
    OBVIOUS
<1> QED BY <1>1, FlattenEmpty DEF Begun, MeantTo

\* For Zenon, which does not instantiate ConcatAssociative.
LEMMA UnitsAssociate == \A a, b, c \in Seq(Units) : (a \o b) \o c = a \o (b \o c)
BY ConcatAssociative

\* Their units.
LEMMA UnitsConcat ==
    \A a, b \in Seq(Units) :
        /\ a \o b \in Seq(Units) /\ Len(a \o b) = Len(a) + Len(b)
        /\ \A i \in 1 .. Len(a) + Len(b) :
                (a \o b)[i] = IF i <= Len(a) THEN a[i] ELSE b[i - Len(a)]
BY ConcatProperties

\* One item more is written.
LEMMA BegunGrows ==
    ASSUME NEW t \in Seq(Items), NEW k \in 0 .. Len(t) - 1
    PROVE  /\ Begun(t, k) \in Seq(Units) /\ Raw(t[k + 1]) \in Seq(Units)
           /\ Begun(t, k + 1) = Begun(t, k) \o Raw(t[k + 1])
<1> DEFINE f == [i \in 1 .. Len(t) |-> Raw(t[i])]
<1>1. \A i \in 1 .. Len(t) : t[i] \in Items
    OBVIOUS
<1>2. \A i \in 1 .. Len(t) : f[i] = Raw(t[i]) /\ f[i] \in Seq(Units)
    BY <1>1, RawIs
<1>3. k \in Nat /\ \A i \in 1 .. k + 1 : i \in 1 .. Len(t)
    OBVIOUS
<1>4. [i \in 1 .. k |-> Raw(t[i])] = [i \in 1 .. k |-> f[i]]
    BY <1>2, <1>3
<1>5. [i \in 1 .. k + 1 |-> Raw(t[i])] = [i \in 1 .. k + 1 |-> f[i]]
    BY <1>2, <1>3
<1> HIDE DEF f
<1>6. \A i \in 1 .. k + 1 : f[i] \in Seq(Units)
    BY <1>2, <1>3
<1>7. /\ [i \in 1 .. k |-> f[i]] \in Seq(Seq(Units))
      /\ FlattenSeq([i \in 1 .. k + 1 |-> f[i]]) =
             FlattenSeq([i \in 1 .. k |-> f[i]]) \o f[k + 1]
    BY <1>3, <1>6, FlattenMore
<1>8. FlattenSeq([i \in 1 .. k |-> f[i]]) \in Seq(Units)
    BY <1>7, FlattenType
<1>9. k + 1 \in 1 .. Len(t)
    OBVIOUS
<1> QED BY <1>2, <1>4, <1>5, <1>7, <1>8, <1>9 DEF Begun

\* One item more is meant.
LEMMA MeantGrows ==
    ASSUME NEW t \in Seq(Items), NEW k \in 0 .. Len(t) - 1,
           NEW m, \A g : Group(m, g) \in Seq(Units)
    PROVE  /\ MeantTo(t, m, k) \in Seq(Units) /\ Meaning(t[k + 1], m) \in Seq(Units)
           /\ MeantTo(t, m, k + 1) = MeantTo(t, m, k) \o Meaning(t[k + 1], m)
<1> DEFINE f == [i \in 1 .. Len(t) |-> Meaning(t[i], m)]
<1>1. \A i \in 1 .. Len(t) : t[i] \in Items
    OBVIOUS
<1>2. \A i \in 1 .. Len(t) : f[i] = Meaning(t[i], m) /\ f[i] \in Seq(Units)
    BY <1>1, MeaningIsText
<1>3. k \in Nat /\ \A i \in 1 .. k + 1 : i \in 1 .. Len(t)
    OBVIOUS
<1>4. [i \in 1 .. k |-> Meaning(t[i], m)] = [i \in 1 .. k |-> f[i]]
    BY <1>2, <1>3
<1>5. [i \in 1 .. k + 1 |-> Meaning(t[i], m)] = [i \in 1 .. k + 1 |-> f[i]]
    BY <1>2, <1>3
<1> HIDE DEF f
<1>6. \A i \in 1 .. k + 1 : f[i] \in Seq(Units)
    BY <1>2, <1>3
<1>7. /\ [i \in 1 .. k |-> f[i]] \in Seq(Seq(Units))
      /\ FlattenSeq([i \in 1 .. k + 1 |-> f[i]]) =
             FlattenSeq([i \in 1 .. k |-> f[i]]) \o f[k + 1]
    BY <1>3, <1>6, FlattenMore
<1>8. FlattenSeq([i \in 1 .. k |-> f[i]]) \in Seq(Units)
    BY <1>7, FlattenType
<1>9. k + 1 \in 1 .. Len(t)
    OBVIOUS
<1> QED BY <1>2, <1>4, <1>5, <1>7, <1>8, <1>9 DEF MeantTo
\* What is written of a template is a text.
LEMMA BegunIsText ==
    ASSUME NEW t \in Seq(Items), NEW k \in 0 .. Len(t)
    PROVE  Begun(t, k) \in Seq(Units)
<1>1. CASE k = 0
    BY <1>1, NothingBegun, EmptySeq
<1>2. CASE k # 0
    <2>1. k - 1 \in 0 .. Len(t) - 1 /\ (k - 1) + 1 = k
        BY <1>2
    <2>2. /\ Begun(t, k - 1) \in Seq(Units) /\ Raw(t[k]) \in Seq(Units)
          /\ Begun(t, k) = Begun(t, k - 1) \o Raw(t[k])
        BY <2>1, BegunGrows
    <2> QED BY <2>2, ConcatProperties
<1> QED BY <1>1, <1>2

\* A written text begins with its first items.
BeginsWith(t, k) == \E s \in Seq(Units) : Written(t) = Begun(t, k) \o s

\* The whole of it begins with what is written of its first items.
LEMMA WrittenBegins ==
    ASSUME NEW t \in Seq(Items)
    PROVE  /\ Written(t) = Begun(t, Len(t)) /\ Written(t) \in Seq(Units)
           /\ \A k \in 0 .. Len(t) : BeginsWith(t, k)
<1> DEFINE n == Len(t)
           Q == {k \in 0 .. n : BeginsWith(t, k)}
<1>1. n \in Nat /\ Written(t) = Begun(t, n)
    BY DEF Written, Begun
<1>2. Written(t) \in Seq(Units)
    BY <1>1, BegunIsText
<1>3. n \in Q
    <2>1. Written(t) = Begun(t, n) \o << >> /\ << >> \in Seq(Units)
        BY <1>1, <1>2, ConcatEmptySeq, EmptySeq
    <2>2. n \in 0 .. n
        BY <1>1
    <2> HIDE DEF n
    <2>3. BeginsWith(t, n)
        BY <2>1 DEF BeginsWith
    <2> QED BY <2>2, <2>3
<1>4. ASSUME NEW k \in 0 .. n - 1, \A j \in k + 1 .. n : j \in Q PROVE k \in Q
    <2>1. k + 1 \in Q /\ k \in 0 .. n
        BY <1>1, <1>4
    <2>2. PICK s \in Seq(Units) : Written(t) = Begun(t, k + 1) \o s
        BY <2>1 DEF BeginsWith
    <2>3. /\ Begun(t, k) \in Seq(Units) /\ Raw(t[k + 1]) \in Seq(Units)
          /\ Begun(t, k + 1) = Begun(t, k) \o Raw(t[k + 1])
        BY BegunGrows
    <2>4. Written(t) = Begun(t, k) \o (Raw(t[k + 1]) \o s)
        <3> DEFINE b == Begun(t, k)
                   u == Raw(t[k + 1])
        <3>1. Written(t) = (b \o u) \o s /\ b \in Seq(Units) /\ u \in Seq(Units)
            BY <2>2, <2>3
        <3> HIDE DEF b, u
        <3>2. Written(t) = b \o (u \o s)
            BY <3>1, UnitsAssociate, Zenon
        <3> QED BY <3>2 DEF b, u
    <2>5. Raw(t[k + 1]) \o s \in Seq(Units)
        BY <2>3, ConcatProperties
    <2> QED BY <2>1, <2>4, <2>5 DEF BeginsWith
<1> HIDE DEF Q
<1>5. 0 .. n \subseteq Q
    BY <1>1, <1>3, <1>4, InductionDown
<1> QED BY <1>1, <1>2, <1>5 DEF Q

\* An item is where the items before it end.
StandsAt(t, k, p, u) ==
    /\ p \in Nat /\ u \in Seq(Units)
    /\ Len(Begun(t, k + 1)) = p + Len(u)
    /\ p + Len(u) <= Len(Written(t))
    /\ \A j \in 1 .. Len(u) : Written(t)[p + j] = u[j]

\* Each item stands in the text behind those before it.
LEMMA ItemIsWritten ==
    ASSUME NEW t \in Seq(Items), NEW k \in 0 .. Len(t) - 1
    PROVE  StandsAt(t, k, Len(Begun(t, k)), Raw(t[k + 1]))
<1> DEFINE p == Len(Begun(t, k))
           u == Raw(t[k + 1])
           b == Begun(t, k)
           c == Begun(t, k + 1)
<1>1. b \in Seq(Units) /\ u \in Seq(Units) /\ c = b \o u
    BY BegunGrows
<1>2. k + 1 \in 0 .. Len(t)
    OBVIOUS
<1>3. PICK s \in Seq(Units) : Written(t) = c \o s
    BY <1>2, WrittenBegins DEF BeginsWith
<1>4. Len(b) = p
    OBVIOUS
<1> HIDE DEF b, c, p, u
<1>5. p \in Nat /\ Len(u) \in Nat /\ Len(s) \in Nat
    BY <1>1, <1>4
<1>6. /\ c \in Seq(Units) /\ Len(c) = p + Len(u)
      /\ \A i \in 1 .. p + Len(u) : c[i] = IF i <= p THEN b[i] ELSE u[i - p]
    BY <1>1, <1>4, UnitsConcat
<1>7. /\ Len(c \o s) = Len(c) + Len(s)
      /\ \A i \in 1 .. Len(c) + Len(s) : (c \o s)[i] = IF i <= Len(c) THEN c[i] ELSE s[i - Len(c)]
    BY <1>6, UnitsConcat
<1>8. ASSUME NEW j \in 1 .. Len(u) PROVE Written(t)[p + j] = u[j]
    <2>1. c[p + j] = u[j]
        <3>1. p + j \in 1 .. p + Len(u) /\ ~(p + j <= p) /\ (p + j) - p = j
            BY <1>5
        <3> QED BY <1>6, <3>1
    <2>2. p + j \in 1 .. Len(c) + Len(s) /\ p + j <= Len(c)
        BY <1>5, <1>6
    <2> QED BY <1>3, <1>7, <2>1, <2>2
<1>9. StandsAt(t, k, p, u)
    BY <1>1, <1>3, <1>5, <1>6, <1>7, <1>8, SMTT(40) DEF StandsAt, c
<1> QED BY <1>9 DEF p, u

\* The digits of a group number end where the item does.
LEMMA DigitsOfGroup ==
    ASSUME NEW t, IsTemplate(t), NEW k \in 0 .. Len(t) - 1, t[k + 1].kind = "group",
           NEW p, p = Len(Begun(t, k))
    PROVE  DigitsAt(Written(t), p + 2) = Len(t[k + 1].units)
<1> DEFINE r == Written(t)
           ds == t[k + 1].units
           d == Len(ds)
           u == Raw(t[k + 1])
           i == p + 2
           D == {n \in 0 .. 3 : i + n - 1 <= Len(r) /\ \A j \in i .. i + n - 1 : IsDigit(r[j])}
<1>1. /\ t \in Seq(Items) /\ k + 1 \in 1 .. Len(t) /\ t[k + 1] \in Items
      /\ r \in Seq(Units) /\ Len(r) \in Nat
    BY WrittenBegins DEF IsTemplate
<1>2. d <= 3 /\ \A j \in 1 .. d : IsDigit(ds[j])
    BY <1>1 DEF IsTemplate
<1>3. d \in Nat /\ Len(u) = 1 + d /\ \A j \in 1 .. d : u[1 + j] = ds[j]
    <2>1. ds \in Seq(Units)
        BY <1>1, RawIs
    <2> QED BY <1>1, <2>1, RawIs, SMTT(40)
<1>4. /\ p \in Nat /\ p + Len(u) <= Len(r) /\ Len(Begun(t, k + 1)) = p + Len(u)
      /\ \A j \in 1 .. Len(u) : r[p + j] = u[j]
    <2>1. StandsAt(t, k, p, u)
        BY <1>1, ItemIsWritten
    <2> QED BY <2>1 DEF StandsAt
<1> HIDE DEF r, ds, d, u
<1>5. d \in D
    <2>1. ASSUME NEW j \in i .. i + d - 1 PROVE IsDigit(r[j])
        <3>1. PICK l \in 1 .. d : j = p + (1 + l)
            <4>1. j - p - 1 \in 1 .. d /\ j = p + (1 + (j - p - 1))
                BY <1>3, <1>4
            <4> QED BY <4>1
        <3>2. 1 + l \in 1 .. Len(u)
            BY <1>3
        <3>3. r[j] = ds[l]
            BY <1>3, <1>4, <3>1, <3>2
        <3> QED BY <1>2, <3>3
    <2> QED BY <1>2, <1>3, <1>4, <2>1
<1>6. ASSUME NEW e \in D, ~(e <= d) PROVE FALSE
    <2>1. d < 3 /\ i + d <= Len(r) /\ IsDigit(r[i + d])
        <3>1. e \in 0 .. 3 /\ d < e /\ i + e - 1 <= Len(r)
            BY <1>3, <1>6
        <3>2. i + d \in i .. i + e - 1
            BY <1>3, <1>4, <3>1
        <3> QED BY <1>3, <1>4, <1>6, <3>1, <3>2, SMTT(40)
    <2>2. k + 1 \in 0 .. Len(t) - 1
        <3>1. CASE k + 1 = Len(t)
            <4>1. Len(Begun(t, k + 1)) = Len(r)
                BY <1>1, <3>1, WrittenBegins DEF r
            <4> QED BY <1>3, <1>4, <2>1, <4>1
        <3> QED BY <1>1, <3>1
    <2>3. t[k + 2] \in Items /\ (k + 1) + 1 = k + 2 /\ k + 2 \in 1 .. Len(t)
        BY <1>1, <2>2
    <2> DEFINE v == Raw(t[k + 2])
               q == p + Len(u)
    <2>4. v \in Seq(Units) /\ \A j \in 1 .. Len(v) : r[q + j] = v[j]
        <3>1. StandsAt(t, k + 1, Len(Begun(t, k + 1)), Raw(t[(k + 1) + 1]))
            BY <1>1, <2>2, ItemIsWritten
        <3>2. Len(Begun(t, k + 1)) = q
            BY <1>4
        <3>3. StandsAt(t, k + 1, q, v)
            BY <2>3, <3>1, <3>2
        <3> HIDE DEF v, q
        <3> QED BY <3>3 DEF StandsAt, r
    <2>5. Len(v) >= 1 /\ ~IsDigit(v[1])
        <3>1. t[k + 2].kind \in {"unit", "quoted", "group", "end"}
            BY <2>3 DEF Items
        <3>2. ~IsDigit(Dollar) /\ ~IsDigit(Backslash)
            BY TemplatesAssumption DEF IsDigit
        <3>3. CASE t[k + 2].kind = "unit"
            <4>1. v = t[k + 2].units
                BY <2>3, <3>3, RawIs
            <4>2. Len(v) = 1
                BY <1>1, <2>3, <3>3, <4>1 DEF IsTemplate
            <4>3. ~IsDigit(t[k + 2].units[1])
                <5>1. k + 1 < Len(t) /\ (k + 1) + 1 = k + 2
                    BY <2>2, <2>3
                <5> QED BY <1>1, <2>1, <3>3, <5>1 DEF IsTemplate, d, ds
            <4> QED BY <4>1, <4>2, <4>3
        <3>4. CASE t[k + 2].kind \in {"quoted", "group"}
            <4>1. Len(t[k + 2].units) \in Nat
                BY <2>3, RawIs
            <4> QED BY <2>3, <3>2, <3>4, <4>1, RawIs, SMTT(40)
        <3>5. CASE t[k + 2].kind = "end"
            BY <2>3, <3>2, <3>5, RawIs
        <3> QED BY <3>1, <3>3, <3>4, <3>5
    <2> HIDE DEF v
    <2>6. Len(v) \in Nat /\ 1 \in 1 .. Len(v)
        BY <2>4, <2>5
    <2>7. q + 1 = i + d
        BY <1>3, <1>4
    <2> QED BY <2>1, <2>4, <2>5, <2>6, <2>7
<1>7. D \in SUBSET Int
    OBVIOUS
<1>8. DigitsAt(r, i) = Max(D)
    BY DEF DigitsAt
<1> HIDE DEF D, i
<1>9. DigitsAt(r, i) = d
    BY <1>5, <1>6, <1>7, <1>8, LargestIsMax
<1> QED BY <1>9 DEF i, r, d, ds
\* What is put in for an item is what it stands for.
LEMMA ItemIsReplaced ==
    ASSUME NEW t, IsTemplate(t), NEW k \in 0 .. Len(t) - 1,
           NEW m, \A g : Group(m, g) \in Seq(Units), NEW f, RestOf(f, Written(t), m),
           f[Len(Begun(t, k + 1)) + 1] \in Seq(Units)
    PROVE  f[Len(Begun(t, k)) + 1] = Meaning(t[k + 1], m) \o f[Len(Begun(t, k + 1)) + 1]
<1> DEFINE r == Written(t)
           p == Len(Begun(t, k))
           q == Len(Begun(t, k + 1))
           u == Raw(t[k + 1])
           item == t[k + 1]
           s == f[q + 1]
<1>1. /\ t \in Seq(Items) /\ k + 1 \in 1 .. Len(t) /\ item \in Items
      /\ r \in Seq(Units) /\ Len(r) \in Nat
    BY WrittenBegins DEF IsTemplate
<1>2. StandsAt(t, k, p, u)
    BY <1>1, ItemIsWritten
<1> HIDE DEF u, p
<1>3. /\ p \in Nat /\ u \in Seq(Units) /\ Len(u) \in Nat /\ q = p + Len(u) /\ q <= Len(r)
      /\ Len(r) \in Nat /\ q \in Nat
    BY <1>1, <1>2 DEF StandsAt
<1>13. \A j \in 1 .. Len(u) : r[p + j] = u[j]
    BY <1>2 DEF StandsAt
<1> HIDE DEF r, q, s
<1> SUFFICES f[p + 1] = Meaning(item, m) \o s
    BY DEF p, q, s
<1>4. \A i \in 1 .. Len(r) + 1 :
        f[i] = IF i > Len(r) THEN << >>
               ELSE IF r[i] = Backslash
                    THEN IF i = Len(r) THEN << >> ELSE <<r[i + 1]>> \o f[i + 2]
               ELSE IF r[i] # Dollar \/ DigitsAt(r, i + 1) = 0 THEN <<r[i]>> \o f[i + 1]
               ELSE Referred(r, m, i) \o f[i + DigitsAt(r, i + 1) + 1]
    BY DEF RestOf, r
<1>5. /\ item.units \in Seq(Units) /\ Len(item.units) \in Nat
      /\ item.kind = "unit" => u = item.units
      /\ item.kind \in {"quoted", "group"} =>
            /\ Len(u) = 1 + Len(item.units)
            /\ u[1] = IF item.kind = "group" THEN Dollar ELSE Backslash
            /\ \A j \in 1 .. Len(item.units) : u[1 + j] = item.units[j]
      /\ item.kind = "end" => Len(u) = 1 /\ u[1] = Backslash
    <2>1. item.units \in Seq(Units)
        BY <1>1, RawIs
    <2>2. Len(item.units) \in Nat
        BY <2>1
    <2> QED BY <1>1, <2>1, <2>2, RawIs DEF u
<1>6. Dollar # Backslash
    BY TemplatesAssumption
<1>7. CASE item.kind = "unit"
    <2>1. Len(u) = 1 /\ u[1] \notin {Dollar, Backslash}
        BY <1>1, <1>5, <1>7 DEF IsTemplate
    <2>2. r[p + 1] = u[1] /\ q = p + 1 /\ p + 1 <= Len(r)
        <3>1. 1 \in 1 .. Len(u)
            BY <2>1
        <3>2. r[p + 1] = u[1]
            BY <1>13, <3>1
        <3> QED BY <1>3, <2>1, <3>2
    <2>3. f[p + 1] = <<r[p + 1]>> \o f[(p + 1) + 1]
        <3>1. p + 1 \in 1 .. Len(r) + 1 /\ ~(p + 1 > Len(r))
            BY <1>3, <2>2
        <3>2. r[p + 1] # Backslash /\ r[p + 1] # Dollar
            BY <2>1, <2>2
        <3> QED BY <1>4, <3>1, <3>2
    <2>8. (p + 1) + 1 = q + 1
        BY <2>2
    <2>4. <<u[1]>> = u
        BY <1>3, <2>1
    <2>5. Meaning(item, m) = u
        BY <1>5, <1>7 DEF Meaning
    <2> QED BY <2>2, <2>3, <2>4, <2>5, <2>8 DEF s
<1>8. CASE item.kind = "quoted"
    <2>1. Len(item.units) = 1
        BY <1>1, <1>8 DEF IsTemplate
    <2>2. Len(u) = 2 /\ u[1] = Backslash /\ u[2] = item.units[1]
        <3>1. u[1 + 1] = item.units[1]
            BY <1>5, <1>8, <2>1
        <3> QED BY <1>5, <1>8, <2>1, <3>1
    <2>3. r[p + 1] = Backslash /\ r[p + 2] = item.units[1] /\ q = p + 2 /\ p + 2 <= Len(r)
        <3>1. 1 \in 1 .. Len(u) /\ 2 \in 1 .. Len(u)
            BY <2>2
        <3>2. r[p + 1] = u[1] /\ r[p + 2] = u[2]
            BY <1>13, <3>1
        <3> QED BY <1>3, <2>2, <3>2
    <2>4. p + 1 \in 1 .. Len(r) + 1 /\ p + 1 # Len(r) /\ ~(p + 1 > Len(r))
          /\ (p + 1) + 1 = p + 2 /\ (p + 1) + 2 = q + 1
        BY <1>3, <2>3
    <2>5. f[p + 1] = <<r[p + 2]>> \o f[q + 1]
        BY <1>4, <2>3, <2>4
    <2>6. <<item.units[1]>> = item.units
        BY <1>5, <2>1
    <2>7. Meaning(item, m) = item.units
        BY <1>8 DEF Meaning
    <2> HIDE DEF item
    <2> QED BY <2>3, <2>5, <2>6, <2>7 DEF s
<1>9. CASE item.kind = "group"
    <2> DEFINE d == Len(item.units)
    <2>1. DigitsAt(r, p + 2) = d
        BY <1>9, DigitsOfGroup DEF r, p
    <2>2. d \in Nat /\ Len(u) = 1 + d /\ u[1] = Dollar /\ 1 \in 1 .. Len(u)
        BY <1>5, <1>9
    <2> HIDE DEF d
    <2>3. r[p + 1] = Dollar /\ q = p + 1 + d
        <3>1. r[p + 1] = Dollar
            BY <1>13, <2>2
        <3> QED BY <1>3, <2>2, <3>1
    <2>4. p + 1 \in 1 .. Len(r) + 1 /\ ~(p + 1 > Len(r)) /\ (p + 1) + 1 = p + 2
        BY <1>3, <2>2, <2>3
    <2>5. f[p + 1] = IF d = 0 THEN <<Dollar>> \o f[p + 2]
                     ELSE Referred(r, m, p + 1) \o f[(p + 1) + d + 1]
        <3> QED BY <1>4, <1>6, <2>1, <2>3, <2>4
    <2>6. CASE d = 0
        <3>1. item.units = << >>
            BY <1>5, <2>6 DEF d
        <3>2. Meaning(item, m) = <<Dollar>>
            BY <1>9, <3>1 DEF Meaning
        <3>3. q + 1 = p + 2
            BY <1>3, <2>3, <2>6
        <3> HIDE DEF item
        <3> QED BY <2>5, <2>6, <3>2, <3>3 DEF s
    <2>7. CASE d # 0
        <3>1. item.units # << >>
            BY <1>5, <2>7 DEF d
        <3> DEFINE x == SubSeq(r, p + 2, p + 1 + d)
        <3>2. x = item.units
            <4> DEFINE lo == p + 2
                       hi == p + 1 + d
            <4>1. ASSUME NEW i \in lo .. hi
                  PROVE  r[i] \in Units
                <5>1. i \in 1 .. Len(r)
                    BY <1>3, <2>2, <2>3
                <5> QED BY <1>1, <5>1
            <4>2. lo \in Int /\ hi \in Int /\ lo <= hi /\ hi - lo + 1 = d
                BY <1>3, <2>2, <2>7
            <4>3. x = SubSeq(r, lo, hi)
                OBVIOUS
            <4> HIDE DEF lo, hi, x
            <4>4. /\ SubSeq(r, lo, hi) \in Seq(Units)
                  /\ Len(SubSeq(r, lo, hi)) = IF lo <= hi THEN hi - lo + 1 ELSE 0
                  /\ \A i \in 1 .. hi - lo + 1 : SubSeq(r, lo, hi)[i] = r[lo + i - 1]
                BY <4>1, <4>2, SubSeqProperties
            <4>7. x \in Seq(Units) /\ Len(x) = d
                BY <4>2, <4>3, <4>4
            <4>5. ASSUME NEW i \in 1 .. d PROVE x[i] = item.units[i]
                <5>1. x[i] = r[p + 2 + i - 1]
                    <6>1. x[i] = r[lo + i - 1]
                        BY <4>2, <4>3, <4>4
                    <6> QED BY <6>1 DEF lo
                <5>2. p + 2 + i - 1 = p + (1 + i) /\ 1 + i \in 1 .. Len(u)
                    BY <1>3, <2>2
                <5>3. r[p + (1 + i)] = u[1 + i] /\ u[1 + i] = item.units[i]
                    BY <1>5, <1>9, <1>13, <5>2 DEF d
                <5> QED BY <5>1, <5>2, <5>3
            <4>6. Len(item.units) = d
                BY DEF d
            <4> HIDE DEF item
            <4> QED BY <1>5, <4>5, <4>6, <4>7, SeqEqual
        <3>3. Referred(r, m, p + 1) = Group(m, Number(x))
            <4>1. (p + 1) + 1 = p + 2 /\ DigitsAt(r, (p + 1) + 1) = d
                BY <2>1, <2>4
            <4> QED BY <4>1 DEF Referred
        <3>4. Meaning(item, m) = Group(m, Number(item.units))
            BY <1>9, <3>1 DEF Meaning
        <3>5. (p + 1) + d + 1 = q + 1
            BY <1>3, <2>2, <2>3
        <3> HIDE DEF x, item
        <3> QED BY <2>5, <2>7, <3>2, <3>3, <3>4, <3>5 DEF s
    <2> QED BY <2>6, <2>7
<1>10. CASE item.kind = "end"
    <2>1. k + 1 = Len(t)
        BY <1>1, <1>10 DEF IsTemplate
    <2>2. q = Len(r)
        BY <1>1, <2>1, WrittenBegins DEF q, r
    <2>3. r[p + 1] = Backslash /\ p + 1 = Len(r)
        <3>1. Len(u) = 1 /\ u[1] = Backslash /\ 1 \in 1 .. Len(u)
            <4>1. Len(u) = 1 /\ u[1] = Backslash
                BY <1>5, <1>10
            <4> QED BY <4>1
        <3>2. r[p + 1] = Backslash
            BY <1>13, <3>1
        <3> QED BY <1>3, <2>2, <3>1, <3>2
    <2>4. f[p + 1] = << >> /\ f[q + 1] = << >>
        <3>1. p + 1 \in 1 .. Len(r) + 1 /\ ~(p + 1 > Len(r))
              /\ q + 1 \in 1 .. Len(r) + 1 /\ q + 1 > Len(r)
            BY <1>3, <2>2, <2>3
        <3> QED BY <1>4, <2>3, <3>1
    <2>5. Meaning(item, m) = << >>
        BY <1>10 DEF Meaning
    <2>6. << >> = << >> \o << >>
        OBVIOUS
    <2> HIDE DEF item
    <2> QED BY <2>4, <2>5, <2>6 DEF s
<1>11. item.kind \in {"unit", "quoted", "group", "end"}
    BY <1>1 DEF Items
<1> HIDE DEF item
<1> QED BY <1>7, <1>8, <1>9, <1>10, <1>11

\* The text put in for a template is what its items stand for.
LEMMA ReplacementMeans ==
    ASSUME NEW t, IsTemplate(t), NEW m, \A g : Group(m, g) \in Seq(Units)
    PROVE  /\ Replacement(Written(t), m) = MeantTo(t, m, Len(t))
           /\ Replacement(Written(t), m) \in Seq(Units)
<1> DEFINE n == Len(t)
           r == Written(t)
           at(k) == Len(Begun(t, k)) + 1
<1>1. t \in Seq(Items) /\ n \in Nat /\ r \in Seq(Units) /\ Len(r) \in Nat
    BY WrittenBegins DEF IsTemplate
<1>2. PICK f : RestOf(f, r, m) /\ Replacement(r, m) = f[1]
    BY <1>1, ReplacementIs
<1> DEFINE Q == {k \in 0 .. n : f[at(k)] \in Seq(Units)
                                /\ MeantTo(t, m, k) \o f[at(k)] = MeantTo(t, m, n)}
<1>3. MeantTo(t, m, n) \in Seq(Units)
    <2>1. CASE n = 0
        BY <2>1, NothingBegun, EmptySeq
    <2>2. CASE n # 0
        <3>1. n - 1 \in 0 .. Len(t) - 1 /\ (n - 1) + 1 = n
            BY <1>1, <2>2
        <3>2. /\ MeantTo(t, m, n - 1) \in Seq(Units) /\ Meaning(t[n], m) \in Seq(Units)
              /\ MeantTo(t, m, n) = MeantTo(t, m, n - 1) \o Meaning(t[n], m)
            BY <1>1, <3>1, MeantGrows
        <3> QED BY <3>2, ConcatProperties
    <2> QED BY <2>1, <2>2
<1>4. n \in Q
    <2>1. at(n) = Len(r) + 1
        BY <1>1, WrittenBegins
    <2>2. f[Len(r) + 1] = << >>
        <3> HIDE DEF r
        <3> QED BY <1>1, <1>2 DEF RestOf
    <2>3. << >> \in Seq(Units) /\ MeantTo(t, m, n) \o << >> = MeantTo(t, m, n)
        BY <1>3, EmptySeq, ConcatEmptySeq
    <2>4. n \in 0 .. n
        BY <1>1
    <2> HIDE DEF n, r, at
    <2> QED BY <2>1, <2>2, <2>3, <2>4
<1>5. ASSUME NEW k \in 0 .. n - 1, \A j \in k + 1 .. n : j \in Q PROVE k \in Q
    <2>1. k + 1 \in Q /\ k \in 0 .. n
        BY <1>1, <1>5
    <2> DEFINE a == MeantTo(t, m, k)
               b == Meaning(t[k + 1], m)
               c == f[at(k + 1)]
    <2>2. c \in Seq(Units) /\ MeantTo(t, m, k + 1) \o c = MeantTo(t, m, n)
        BY <2>1
    <2>3. f[at(k)] = b \o c
        BY <1>2, <2>2, ItemIsReplaced
    <2>4. a \in Seq(Units) /\ b \in Seq(Units) /\ MeantTo(t, m, k + 1) = a \o b
        BY <1>1, MeantGrows
    <2> HIDE DEF a, b, c
    <2>5. b \o c \in Seq(Units) /\ a \o (b \o c) = (a \o b) \o c
        BY <2>2, <2>4, UnitsConcat, UnitsAssociate, SMTT(40)
    <2>6. MeantTo(t, m, k) \o f[at(k)] = MeantTo(t, m, n)
        BY <2>2, <2>3, <2>4, <2>5 DEF a
    <2> HIDE DEF at
    <2> QED BY <2>1, <2>3, <2>5, <2>6
<1> HIDE DEF Q
<1>6. 0 .. n \subseteq Q
    BY <1>1, <1>4, <1>5, InductionDown
<1>7. 0 \in Q
    BY <1>1, <1>6
<1>8. Begun(t, 0) = << >> /\ MeantTo(t, m, 0) = << >> /\ at(0) = 1
    <2>1. Begun(t, 0) = << >> /\ MeantTo(t, m, 0) = << >>
        BY NothingBegun
    <2> QED BY <2>1
<1>9. f[1] \in Seq(Units) /\ << >> \o f[1] = MeantTo(t, m, n)
    BY <1>7, <1>8 DEF Q
<1>10. << >> \o f[1] = f[1]
    BY <1>9, ConcatEmptySeq
<1> QED BY <1>2, <1>9, <1>10
-----------------------------------------------------------------------------
\* The indices in T are the c in S and one behind them.
OneMore(S, T, n, c) ==
    /\ c \in Nat /\ (c = 0 <=> S = {})
    /\ Cardinality(T) = c + 1
    /\ Len(InOrder(S)) = c /\ Len(InOrder(T)) = c + 1
    /\ InOrder(T)[c + 1] = n
    /\ \A k \in 1 .. c : InOrder(T)[k] = InOrder(S)[k]

\* One greater index comes last.
LEMMA InOrderGrows ==
    ASSUME NEW n \in Nat, NEW S, S \subseteq 0 .. n - 1
    PROVE  OneMore(S, S \cup {n}, n, Cardinality(S))
<1> DEFINE c == Cardinality(S)
           T == S \cup {n}
           below(U, i) == {j \in U : j < i}
           at(U, k) == {i \in U : Cardinality(below(U, i)) = k - 1}
           any(U) == CHOOSE i \in U : TRUE
<1>1. IsFiniteSet(S) /\ c \in Nat /\ (c = 0 <=> S = {}) /\ n \notin S
    <2>1. IsFiniteSet(0 .. n - 1)
        BY FS_Interval
    <2>2. IsFiniteSet(S)
        BY <2>1, FS_Subset
    <2>3. c \in Nat
        BY <2>2, FS_CardinalityType
    <2>4. c = 0 <=> S = {}
        BY <2>2, FS_EmptySet
    <2> QED BY <2>2, <2>3, <2>4
<1>2. Cardinality(T) = c + 1
    BY <1>1, FS_AddElement
<1>3. InOrder(S) = [k \in 1 .. c |-> any(at(S, k))]
    BY DEF InOrder
<1>4. InOrder(T) = [k \in 1 .. c + 1 |-> any(at(T, k))]
    BY <1>2 DEF InOrder
<1>5. \A i \in S : below(T, i) = below(S, i)
    OBVIOUS
<1>6. below(T, n) = S
    <2>1. \A j \in S : j \in T /\ j < n
        OBVIOUS
    <2>2. \A j \in T : j < n => j \in S
        OBVIOUS
    <2> QED BY <2>1, <2>2
<1>7. ASSUME NEW i \in S PROVE Cardinality(below(S, i)) # c
    <2>1. below(S, i) \in SUBSET S /\ i \notin below(S, i)
        OBVIOUS
    <2> HIDE DEF below
    <2> QED BY <1>1, <2>1, FS_Subset
<1>8. at(T, c + 1) = {n}
    <2>1. \A i \in T : i \in S \/ i = n
        OBVIOUS
    <2>2. n \in T /\ Cardinality(below(T, n)) = (c + 1) - 1
        BY <1>1, <1>6
    <2>3. ASSUME NEW i \in S PROVE Cardinality(below(T, i)) # (c + 1) - 1
        <3>1. (c + 1) - 1 = c
            BY <1>1
        <3>2. below(T, i) = below(S, i)
            BY <1>5
        <3> HIDE DEF below
        <3> QED BY <1>7, <3>1, <3>2
    <2> HIDE DEF below
    <2> QED BY <2>1, <2>2, <2>3
<1>9. ASSUME NEW k \in 1 .. c PROVE at(T, k) = at(S, k)
    <2>1. Cardinality(below(T, n)) # k - 1
        BY <1>1, <1>6
    <2> HIDE DEF below
    <2> QED BY <1>5, <2>1
<1>10. InOrder(T)[c + 1] = n
    <2>1. c + 1 \in 1 .. c + 1
        BY <1>1
    <2>2. any({n}) = n
        OBVIOUS
    <2> HIDE DEF at, any
    <2> QED BY <1>4, <1>8, <2>1, <2>2
<1>11. ASSUME NEW k \in 1 .. c PROVE InOrder(T)[k] = InOrder(S)[k]
    <2>1. k \in 1 .. c + 1
        BY <1>1
    <2> HIDE DEF at, any
    <2> QED BY <1>3, <1>4, <1>9, <2>1
<1>12. Len(InOrder(S)) = c /\ Len(InOrder(T)) = c + 1
    <2> HIDE DEF at, any
    <2> QED BY <1>1, <1>3, <1>4
<1> HIDE DEF c, T
<1>13. OneMore(S, T, n, c)
    BY <1>1, <1>2, <1>10, <1>11, <1>12 DEF OneMore
<1> QED BY <1>13 DEF c, T

\* Without one.
LEMMA InOrderEmpty == Cardinality({}) = 0 /\ Len(InOrder({})) = 0
BY FS_EmptySet DEF InOrder

-----------------------------------------------------------------------------
\* A group spans its match, or had no part in it.
GroupsOK(x, p) ==
    /\ DOMAIN p = 0 .. Len(x)
    /\ \A i \in 0 .. Len(x) : Found(p[i]) =>
        /\ \E n \in Nat : DOMAIN p[i] = 0 .. n
        /\ \A g \in DOMAIN p[i] : p[i][g] = NoRange \/ p[i][g] = <<i, To(p[i])>>

\* A stretch is a text.
LEMMA StretchIsText ==
    ASSUME subject \in Seq(Units), NEW i \in Nat, NEW j \in Int, j <= Len(subject)
    PROVE  Stretch(i, j) \in Seq(Units)
<1> DEFINE lo == i + 1
<1>1. lo \in Int /\ \A k \in lo .. j : subject[k] \in Units
    OBVIOUS
<1> HIDE DEF lo
<1>2. SubSeq(subject, lo, j) \in Seq(Units)
    BY <1>1, SubSeqProperties
<1> QED BY <1>2 DEF Stretch, lo

\* A group is a text.
LEMMA GroupIsText ==
    ASSUME PatternOK(subject, pattern), GroupsOK(subject, pattern),
           NEW i \in 0 .. Len(subject), Found(pattern[i]), NEW g
    PROVE  Group(pattern[i], g) \in Seq(Units)
<1> DEFINE m == pattern[i]
<1>1. subject \in Seq(Units) /\ Len(subject) \in Nat /\ To(m) \in i .. Len(subject)
    BY DEF PatternOK
<1>2. CASE g \in DOMAIN m /\ m[g] # NoRange
    <2>1. m[g] = <<i, To(m)>>
        BY <1>2 DEF GroupsOK
    <2>2. Group(m, g) = Stretch(i, To(m))
        BY <1>2, <2>1 DEF Group
    <2>3. i \in Nat /\ To(m) \in Int /\ To(m) <= Len(subject)
        BY <1>1
    <2> HIDE DEF m
    <2>4. Stretch(i, To(m)) \in Seq(Units)
        BY <1>1, <2>3, StretchIsText
    <2> QED BY <2>2, <2>4 DEF m
<1>3. CASE ~(g \in DOMAIN m /\ m[g] # NoRange)
    BY <1>3, EmptySeq DEF Group
<1> QED BY <1>2, <1>3

\* Patterns are such at the beginning.
LEMMA InitGroups == Init => GroupsOK(subject, pattern)
<1> SUFFICES ASSUME Init PROVE GroupsOK(subject, pattern)
    OBVIOUS
<1>1. subject \in Seq(Units) /\ Len(subject) \in Nat
    BY TextsAssumption DEF Init
<1>2. PICK f \in Ends(subject) :
        \E part \in SUBSET {i \in DOMAIN f : f[i] # -1} :
        \E n \in 0 .. Groups : pattern = Pattern(f, n, part)
    BY Zenon DEF Init
<1>3. PICK part \in SUBSET {i \in DOMAIN f : f[i] # -1}, n \in 0 .. Groups :
        pattern = Pattern(f, n, part)
    BY <1>2, Zenon
<1>4. f \in [0 .. Len(subject) -> -1 .. Len(subject)]
    BY <1>2 DEF Ends
<1>5. DOMAIN pattern = 0 .. Len(subject)
    BY <1>3, <1>4 DEF Pattern
<1>6. ASSUME NEW i \in 0 .. Len(subject), Found(pattern[i])
      PROVE  /\ \E k \in Nat : DOMAIN pattern[i] = 0 .. k
             /\ \A g \in DOMAIN pattern[i] :
                    pattern[i][g] = NoRange \/ pattern[i][g] = <<i, To(pattern[i])>>
    <2>1. 0 \in 0 .. n
        BY <1>3, TemplatesAssumption
    <2>2. f[i] # -1
        BY <1>3, <1>4, <1>6 DEF Found, Pattern
    <2>3. pattern[i] = [h \in 0 .. n |-> IF h = 0 \/ i \in part THEN <<i, f[i]>> ELSE NoRange]
        BY <1>3, <1>4, <2>2 DEF Pattern
    <2>4. pattern[i][0] = <<i, f[i]>>
        BY <2>1, <2>3
    <2>5. To(pattern[i]) = f[i]
        BY <2>4 DEF To
    <2>6. n \in Nat /\ DOMAIN pattern[i] = 0 .. n
        BY <1>3, <2>3, TemplatesAssumption
    <2>7. ASSUME NEW g \in DOMAIN pattern[i]
          PROVE  pattern[i][g] = NoRange \/ pattern[i][g] = <<i, To(pattern[i])>>
        <3>1. g \in 0 .. n
            BY <2>6
        <3> QED BY <2>3, <2>5, <3>1
    <2> QED BY <2>6, <2>7
<1> QED BY <1>5, <1>6 DEF GroupsOK
-----------------------------------------------------------------------------
\* The text before the k-th match in V and what is put in its place.
Filled(V, k) ==
    Stretch(IF k = 1 THEN 0 ELSE To(pattern[InOrder(V)[k - 1]]), InOrder(V)[k])
        \o MeantTo(call.template, pattern[InOrder(V)[k]], Len(call.template))

FilledTo(V) == FlattenSeq([k \in 1 .. Len(InOrder(V)) |-> Filled(V, k)])

\* Where the last match in V ends.
LastEnd(V) == IF V = {} THEN 0 ELSE To(pattern[InOrder(V)[Cardinality(V)]])

\* V are matches, and its sequence is of its members.
Matches(V) ==
    /\ V \subseteq {i \in 0 .. Len(subject) : Found(pattern[i])}
    /\ \A k \in 1 .. Cardinality(V) : InOrder(V)[k] \in V

\* Halfway, gsub has filled in the matches taken, and is at the end of the last.
Substituting ==
    call.method = "gsub" =>
        /\ call.template \in Templates /\ call.repl = Written(call.template)
        /\ Matches(visited)
        /\ out \in Seq(Units)
        /\ pc = "running" => start = LastEnd(visited) /\ out = FilledTo(visited)
        /\ pc = "returned" =>
            /\ start \in 0 .. Len(subject)
            /\ out = FilledTo(visited) \o Stretch(start, Len(subject))

FillInv == IInv /\ GroupsOK(subject, pattern) /\ Substituting

\* It is what OutIsSubstitution speaks of.
LEMMA SubstitutedIsFilled == Substituted = FilledTo(visited)
BY DEF Substituted, FilledTo, Filled, MeantTo

\* Nothing is filled in before the first match.
LEMMA NothingFilled == FilledTo({}) = << >> /\ LastEnd({}) = 0 /\ Matches({})
<1>1. [k \in 1 .. 0 |-> Filled({}, k)] = << >>
    OBVIOUS
<1>2. FilledTo({}) = << >>
    BY <1>1, InOrderEmpty, FlattenEmpty DEF FilledTo
<1> QED BY <1>2, InOrderEmpty DEF LastEnd, Matches

\* With one match more, what lies before it and what it is replaced with.
LEMMA FilledGrows ==
    ASSUME PatternOK(subject, pattern), GroupsOK(subject, pattern),
           call.template \in Templates,
           NEW n \in 0 .. Len(subject), Found(pattern[n]),
           NEW V, Matches(V), V \subseteq 0 .. n - 1,
           \A i \in V : To(pattern[i]) <= n,
           NEW U, U = V \cup {n}
    PROVE  /\ Matches(U)
           /\ LastEnd(U) = To(pattern[n])
           /\ LastEnd(V) \in 0 .. n
           /\ FilledTo(V) \in Seq(Units)
           /\ FilledTo(U) = FilledTo(V) \o
                (Stretch(LastEnd(V), n) \o MeantTo(call.template, pattern[n], Len(call.template)))
<1> DEFINE c == Cardinality(V)
           meant(i) == MeantTo(call.template, pattern[i], Len(call.template))
           f == [k \in 1 .. c + 1 |-> Filled(U, k)]
<1>1. subject \in Seq(Units) /\ Len(subject) \in Nat /\ n \in Nat
    BY DEF PatternOK
<1>2. /\ c \in Nat /\ (c = 0 <=> V = {})
      /\ Len(InOrder(V)) = c /\ Len(InOrder(U)) = c + 1
      /\ InOrder(U)[c + 1] = n
      /\ \A k \in 1 .. c : InOrder(U)[k] = InOrder(V)[k]
      /\ Cardinality(U) = c + 1
    <2>1. OneMore(V, U, n, c)
        BY <1>1, InOrderGrows
    <2> HIDE DEF c
    <2> QED BY <2>1 DEF OneMore
<1>17. c \in Nat /\ (c = 0 <=> V = {})
    BY <1>2
<1>3. Cardinality(U) = c + 1
    BY <1>2
<1> HIDE DEF c
<1>4. \A k \in 1 .. c : InOrder(V)[k] \in V
    BY DEF Matches, c
<1>5. Matches(U)
    <2>1. ASSUME NEW k \in 1 .. c + 1 PROVE InOrder(U)[k] \in U
        <3>1. CASE k = c + 1
            BY <1>2, <3>1
        <3>2. CASE k # c + 1
            <4>1. k \in 1 .. c
                BY <1>2, <3>2
            <4> QED BY <1>2, <1>4, <4>1
        <3> QED BY <3>1, <3>2
    <2>2. U \subseteq {i \in 0 .. Len(subject) : Found(pattern[i])}
        BY DEF Matches
    <2> QED BY <1>3, <2>1, <2>2 DEF Matches
<1>6. LastEnd(U) = To(pattern[n])
    <2>1. U # {}
        OBVIOUS
    <2> QED BY <1>2, <1>3, <2>1 DEF LastEnd
<1>7. \A i \in V : /\ i \in 0 .. n - 1 /\ i \in 0 .. Len(subject) /\ Found(pattern[i])
                   /\ To(pattern[i]) \in 0 .. n
    <2> SUFFICES ASSUME NEW i \in V
                 PROVE  /\ i \in 0 .. n - 1 /\ i \in 0 .. Len(subject) /\ Found(pattern[i])
                        /\ To(pattern[i]) \in 0 .. n
        OBVIOUS
    <2>1. i \in 0 .. n - 1 /\ i \in 0 .. Len(subject) /\ Found(pattern[i])
        BY DEF Matches
    <2>2. To(pattern[i]) \in i .. Len(subject) /\ To(pattern[i]) <= n
        BY <2>1 DEF PatternOK
    <2> QED BY <1>1, <2>1, <2>2
<1>8. LastEnd(V) \in 0 .. n
    <2>1. CASE V = {}
        BY <1>1, <2>1 DEF LastEnd
    <2>2. CASE V # {}
        <3>1. c \in 1 .. c
            <4>1. c # 0
                BY <1>17, <2>2
            <4> QED BY <1>17, <4>1
        <3> QED BY <1>4, <1>7, <2>2, <3>1 DEF LastEnd, c
    <2> QED BY <2>1, <2>2
<1>9. ASSUME NEW i \in 0 .. Len(subject), Found(pattern[i])
      PROVE  meant(i) \in Seq(Units)
    <2>1. \A g : Group(pattern[i], g) \in Seq(Units)
        BY <1>9, GroupIsText
    <2>2. IsTemplate(call.template)
        BY TemplatesAssumption
    <2> QED BY <2>1, <2>2, ReplacementMeans
<1> HIDE DEF meant
<1>10. ASSUME NEW k \in 1 .. c PROVE f[k] = Filled(V, k) /\ f[k] \in Seq(Units)
    <2>1. k \in 1 .. c + 1 /\ InOrder(U)[k] = InOrder(V)[k] /\ InOrder(V)[k] \in V
        <3>1. k \in 1 .. c + 1
            BY <1>17
        <3> QED BY <1>2, <1>4, <3>1
    <2>2. k # 1 => InOrder(U)[k - 1] = InOrder(V)[k - 1] /\ InOrder(V)[k - 1] \in V
        <3>1. k # 1 => k - 1 \in 1 .. c
            BY <1>2
        <3> QED BY <1>2, <1>4, <3>1
    <2> DEFINE e == IF k = 1 THEN 0 ELSE To(pattern[InOrder(V)[k - 1]])
               j == InOrder(V)[k]
    <2>3. Filled(V, k) = Stretch(e, j) \o meant(j)
        BY DEF Filled, meant
    <2>4. Filled(U, k) = Stretch(e, j) \o meant(j)
        <3>1. (IF k = 1 THEN 0 ELSE To(pattern[InOrder(U)[k - 1]])) = e
            BY <2>2
        <3> HIDE DEF e, j
        <3>2. InOrder(U)[k] = j
            BY <2>1 DEF j
        <3> QED BY <3>1, <3>2 DEF Filled, meant
    <2>5. e \in 0 .. n
        <3>1. CASE k = 1
            BY <1>1, <3>1
        <3>2. CASE k # 1
            BY <1>7, <2>2, <3>2
        <3> QED BY <3>1, <3>2
    <2>6. j \in 0 .. Len(subject) /\ Found(pattern[j])
        BY <1>7, <2>1
    <2> HIDE DEF e, j
    <2>7. Stretch(e, j) \in Seq(Units) /\ meant(j) \in Seq(Units)
        <3>1. e \in Nat /\ j \in Int /\ j <= Len(subject)
            BY <1>1, <2>5, <2>6
        <3> QED BY <1>1, <1>9, <2>6, <3>1, StretchIsText
    <2>8. Stretch(e, j) \o meant(j) \in Seq(Units)
        BY <2>7, UnitsConcat
    <2> QED BY <2>1, <2>3, <2>4, <2>8
<1>11. /\ f[c + 1] = Stretch(LastEnd(V), n) \o meant(n)
       /\ f[c + 1] \in Seq(Units)
    <2>1. c + 1 \in 1 .. c + 1 /\ (c + 1) - 1 = c
        BY <1>2
    <2>2. (IF c + 1 = 1 THEN 0 ELSE To(pattern[InOrder(U)[c]])) = LastEnd(V)
        <3>1. CASE c = 0
            BY <1>2, <3>1 DEF LastEnd
        <3>2. CASE c # 0
            <4>1. c \in 1 .. c /\ V # {} /\ c + 1 # 1
                BY <1>2, <3>2
            <4>2. InOrder(U)[c] = InOrder(V)[c]
                BY <1>2, <4>1
            <4> QED BY <4>1, <4>2 DEF LastEnd, c
        <3> QED BY <3>1, <3>2
    <2>3. Filled(U, c + 1) = Stretch(LastEnd(V), n) \o meant(n)
        BY <1>2, <2>1, <2>2 DEF Filled, meant
    <2>4. Stretch(LastEnd(V), n) \in Seq(Units) /\ meant(n) \in Seq(Units)
        <3>1. LastEnd(V) \in Nat /\ n \in Int /\ n <= Len(subject)
            BY <1>1, <1>8
        <3> QED BY <1>1, <1>9, <3>1, StretchIsText
    <2>5. Stretch(LastEnd(V), n) \o meant(n) \in Seq(Units)
        BY <2>4, UnitsConcat
    <2>6. f[c + 1] = Filled(U, c + 1)
        BY <2>1
    <2> HIDE DEF f
    <2> QED BY <2>3, <2>5, <2>6
<1>12. FilledTo(V) = FlattenSeq([k \in 1 .. c |-> f[k]])
    <2>1. [k \in 1 .. c |-> Filled(V, k)] = [k \in 1 .. c |-> f[k]]
        <3> HIDE DEF f
        <3> QED BY <1>10
    <2> HIDE DEF f
    <2> QED BY <1>2, <2>1 DEF FilledTo
<1>13. FilledTo(U) = FlattenSeq([k \in 1 .. c + 1 |-> f[k]])
    <2>1. [k \in 1 .. c + 1 |-> Filled(U, k)] = [k \in 1 .. c + 1 |-> f[k]]
        OBVIOUS
    <2> HIDE DEF f
    <2> QED BY <1>2, <2>1 DEF FilledTo
<1> HIDE DEF f
<1>14. \A k \in 1 .. c + 1 : f[k] \in Seq(Units)
    <2>1. \A k \in 1 .. c + 1 : k \in 1 .. c \/ k = c + 1
        BY <1>2
    <2> QED BY <1>10, <1>11, <2>1
<1>15. /\ [k \in 1 .. c |-> f[k]] \in Seq(Seq(Units))
       /\ FlattenSeq([k \in 1 .. c + 1 |-> f[k]]) = FlattenSeq([k \in 1 .. c |-> f[k]]) \o f[c + 1]
    BY <1>2, <1>14, FlattenMore
<1>16. FilledTo(V) \in Seq(Units)
    BY <1>12, <1>15, FlattenType
<1> QED BY <1>5, <1>6, <1>8, <1>11, <1>12, <1>13, <1>15, <1>16 DEF meant
-----------------------------------------------------------------------------
\* gsub begins with nothing filled in, or with all of a text without a match.
LEMMA GsubBeginFills ==
    ASSUME FillInv, NEW t \in Templates, NEW once, GsubBegin(t, once)
    PROVE  Substituting'
<1> DEFINE m == FindFrom(0)
<1>1. /\ subject' = subject /\ pattern' = pattern /\ visited' = {} /\ start' = 0
      /\ call' = [method |-> "gsub", template |-> t, repl |-> Written(t), once |-> once]
      /\ pc' = IF Found(m) THEN "running" ELSE "returned"
      /\ out' = IF Found(m) THEN << >> ELSE subject
    BY DEF GsubBegin, Calls
<1>2. call'.template = t /\ call'.repl = Written(t)
    BY <1>1
<1>3. subject \in Seq(Units) /\ Len(subject) \in Nat
    BY DEF FillInv, IInv, PatternOK
<1>4. FilledTo(visited)' = << >> /\ LastEnd(visited)' = 0 /\ Matches(visited)'
    <2>1. [k \in 1 .. 0 |-> Filled({}, k)'] = << >>
        OBVIOUS
    <2>2. FilledTo(visited)' = << >>
        BY <1>1, <2>1, InOrderEmpty, FlattenEmpty DEF FilledTo
    <2> QED BY <1>1, <2>2, InOrderEmpty DEF LastEnd, Matches
<1>5. Stretch(0, Len(subject)) = subject /\ << >> \o subject = subject
    BY <1>3, SubSeqFull, ConcatEmptySeq DEF Stretch
<1>6. << >> \in Seq(Units)
    BY EmptySeq
<1> HIDE DEF m
<1>7. out' \in Seq(Units)
    BY <1>1, <1>3, <1>6
<1>8. pc' = "running" => start' = LastEnd(visited)' /\ out' = FilledTo(visited)'
    BY <1>1, <1>4
<1>9. pc' = "returned" => /\ start' \in 0 .. Len(subject')
                          /\ out' = FilledTo(visited)' \o Stretch(start, Len(subject))'
    <2> SUFFICES ASSUME pc' = "returned"
                 PROVE  /\ start' \in 0 .. Len(subject')
                        /\ out' = FilledTo(visited)' \o Stretch(start, Len(subject))'
        OBVIOUS
    <2>1. out' = subject
        BY <1>1
    <2>2. Stretch(start, Len(subject))' = Stretch(0, Len(subject))
        BY <1>1 DEF Stretch
    <2> QED BY <1>1, <1>3, <1>4, <1>5, <2>1, <2>2
<1> QED BY <1>2, <1>4, <1>7, <1>8, <1>9 DEF Substituting

\* What is filled in for V depends on the text, the pattern and the template only.
LEMMA SameFilled ==
    ASSUME subject' = subject, pattern' = pattern, call' = call
    PROVE  /\ FilledTo(visited)' = FilledTo(visited')
           /\ LastEnd(visited)' = LastEnd(visited')
           /\ Matches(visited)' <=> Matches(visited')
<1> DEFINE t == call.template
           n == Len(call.template)
<1>1. ASSUME NEW item, NEW i PROVE Meaning(item, pattern[i])' = Meaning(item, pattern[i])
    BY DEF Meaning, Group, Stretch
<1>2. ASSUME NEW i
      PROVE  MeantTo(call.template, pattern[i], Len(call.template))' =
                MeantTo(call.template, pattern[i], Len(call.template))
    <2>1. [j \in 1 .. n |-> Meaning(t[j], pattern[i])]' = [j \in 1 .. n |-> Meaning(t[j], pattern[i])]
        BY <1>1
    <2> QED BY <2>1 DEF MeantTo
<1> QED BY <1>2 DEF FilledTo, Filled, LastEnd, Matches, Stretch

\* One match more is filled in, and with the last one the rest of the text.
LEMMA GsubOnceFills == ASSUME FillInv, GsubOnce PROVE Substituting'
<1> DEFINE n == From(match)
           t == call.template
           next == FindNext(match)
           more == Found(next) /\ ~call.once
           taken == visited \cup {n}
           tail == Stretch(To(match), Len(subject))
<1>1. /\ subject' = subject /\ pattern' = pattern /\ call' = call
      /\ Running("gsub") /\ pc = "running" /\ call.method = "gsub"
      /\ pc' = IF more THEN "running" ELSE "returned"
      /\ start' = To(match) /\ visited' = taken
      /\ out' = IF more THEN Replaced ELSE Replaced \o tail
    BY DEF GsubOnce, Goes, GoesOn, Running, Rest
<1>2. PatternOK(subject, pattern) /\ GroupsOK(subject, pattern)
    BY DEF FillInv, IInv
<1>3. /\ t \in Templates /\ call.repl = Written(t) /\ Matches(visited)
      /\ start = LastEnd(visited) /\ out = FilledTo(visited)
    BY <1>1 DEF FillInv, Substituting
<1>4. /\ n \in 0 .. Len(subject) /\ match = pattern[n] /\ Found(match)
      /\ visited \subseteq 0 .. n - 1 /\ Free(subject, pattern, visited, n)
    BY <1>1 DEF FillInv, IInv, Standing, Taken, Greedy
<1>5. Len(subject) \in Nat /\ subject \in Seq(Units) /\ To(match) \in n .. Len(subject)
    BY <1>2, <1>4 DEF PatternOK
<1> HIDE DEF n, t, next, more
<1>6. \A i \in visited : To(pattern[i]) <= n
    <2>1. \A i \in visited : i < n
        BY <1>4, <1>5
    <2> QED BY <1>4, <2>1 DEF Free
<1>7. /\ Matches(taken)
      /\ LastEnd(taken) = To(match)
      /\ LastEnd(visited) \in 0 .. n
      /\ FilledTo(visited) \in Seq(Units)
      /\ FilledTo(taken) = FilledTo(visited) \o
             (Stretch(LastEnd(visited), n) \o MeantTo(t, match, Len(t)))
    <2>1. /\ Matches(taken)
          /\ LastEnd(taken) = To(pattern[n])
          /\ LastEnd(visited) \in 0 .. n
          /\ FilledTo(visited) \in Seq(Units)
          /\ FilledTo(taken) = FilledTo(visited) \o
                 (Stretch(LastEnd(visited), n)
                    \o MeantTo(call.template, pattern[n], Len(call.template)))
        BY <1>2, <1>3, <1>4, <1>6, FilledGrows DEF t
    <2> QED BY <1>4, <2>1 DEF t
<1>8. Replacement(call.repl, match) = MeantTo(t, match, Len(t))
      /\ MeantTo(t, match, Len(t)) \in Seq(Units)
    <2>1. \A g : Group(match, g) \in Seq(Units)
        BY <1>2, <1>4, GroupIsText
    <2>2. IsTemplate(t)
        BY <1>3, TemplatesAssumption
    <2> QED BY <1>3, <2>1, <2>2, ReplacementMeans
<1>9. Replaced = FilledTo(taken) /\ Replaced \in Seq(Units)
    <2> DEFINE a == FilledTo(visited)
               b == Stretch(LastEnd(visited), n)
               c == MeantTo(t, match, Len(t))
    <2>1. a \in Seq(Units) /\ c \in Seq(Units)
        BY <1>7, <1>8
    <2>2. b \in Seq(Units)
        <3>1. LastEnd(visited) \in Nat /\ n \in Int /\ n <= Len(subject)
            BY <1>4, <1>5, <1>7
        <3> QED BY <1>5, <3>1, StretchIsText
    <2>3. Replaced = (a \o b) \o c
        BY <1>3, <1>8 DEF Replaced, n
    <2>4. FilledTo(taken) = a \o (b \o c)
        BY <1>7
    <2> HIDE DEF a, b, c
    <2>5. (a \o b) \o c = a \o (b \o c) /\ b \o c \in Seq(Units)
        BY <2>1, <2>2, UnitsAssociate, UnitsConcat, SMTT(40)
    <2>6. a \o (b \o c) \in Seq(Units)
        BY <2>1, <2>5, UnitsConcat
    <2> QED BY <2>3, <2>4, <2>5, <2>6
<1>10. tail \in Seq(Units)
    <2>1. To(match) \in Nat /\ Len(subject) \in Int /\ Len(subject) <= Len(subject)
        BY <1>4, <1>5
    <2> QED BY <1>5, <2>1, StretchIsText
<1> HIDE DEF taken, tail
<1>11. out' \in Seq(Units)
    BY <1>1, <1>9, <1>10, UnitsConcat
<1>12. /\ FilledTo(visited)' = FilledTo(taken) /\ LastEnd(visited)' = LastEnd(taken)
       /\ Matches(visited)'
    BY <1>1, <1>7, SameFilled
<1>13. Stretch(start, Len(subject))' = tail
    BY <1>1 DEF Stretch, tail
<1>14. start' \in 0 .. Len(subject')
    BY <1>1, <1>4, <1>5
<1>15. pc' = "running" => start' = LastEnd(visited)' /\ out' = FilledTo(visited)'
    BY <1>1, <1>7, <1>9, <1>12
<1>16. pc' = "returned" => out' = FilledTo(visited)' \o Stretch(start, Len(subject))'
    BY <1>1, <1>9, <1>12, <1>13
<1>17. call'.template \in Templates /\ call'.repl = Written(call'.template)
    BY <1>1, <1>3 DEF t
<1> QED BY <1>11, <1>12, <1>14, <1>15, <1>16, <1>17 DEF Substituting

\* Every step leaves the text filled in up to the last match taken.
LEMMA NextFills == ASSUME FillInv, [Next]_vars PROVE FillInv'
<1>1. IInv'
    BY NextKeepsWalk DEF FillInv
<1>2. GroupsOK(subject, pattern)'
    <2>1. subject' = subject /\ pattern' = pattern
        BY DEF Next, vars, ScanBegin, GsubBegin, RindexBegin, RindexWord, Index, IndexWord,
               Split, Step, ScanOnce, ScanEnd, GsubOnce, RindexOnce, Forget, Answers, Calls, Goes
    <2> QED BY <2>1 DEF FillInv, GroupsOK
<1>3. Substituting'
    <2>1. CASE UNCHANGED vars
        <3>1. /\ subject' = subject /\ pattern' = pattern /\ call' = call /\ pc' = pc
              /\ start' = start /\ out' = out /\ visited' = visited
            BY <2>1 DEF vars
        <3>2. /\ FilledTo(visited)' = FilledTo(visited) /\ LastEnd(visited)' = LastEnd(visited)
              /\ Matches(visited)' <=> Matches(visited)
            BY <3>1, SameFilled
        <3>3. Stretch(start, Len(subject))' = Stretch(start, Len(subject))
            BY <3>1 DEF Stretch
        <3> QED BY <3>1, <3>2, <3>3 DEF FillInv, Substituting
    <2>2. ASSUME call'.method # "gsub" PROVE Substituting'
        BY <2>2 DEF Substituting
    <2>3. CASE ScanBegin
        BY <2>2, <2>3 DEF ScanBegin, Calls
    <2>4. CASE \E t \in Templates, once \in BOOLEAN : GsubBegin(t, once)
        BY <2>4, GsubBeginFills
    <2>5. ASSUME NEW pos, RindexBegin(pos) \/ Index(pos) PROVE Substituting'
        BY <2>2, <2>5 DEF RindexBegin, Index, Answers, Calls
    <2>6. ASSUME NEW pos, NEW w, RindexWord(w, pos) \/ IndexWord(w, pos) PROVE Substituting'
        BY <2>2, <2>6 DEF RindexWord, IndexWord, Answers, Calls
    <2>7. ASSUME NEW limit \in Limits, Split(limit) PROVE Substituting'
        BY <2>2, <2>7 DEF Split, Answers, Calls
    <2>8. CASE ScanOnce \/ ScanEnd \/ RindexOnce
        BY <2>2, <2>8 DEF ScanOnce, ScanEnd, RindexOnce, Goes, Running
    <2>9. CASE GsubOnce
        BY <2>9, GsubOnceFills
    <2>10. CASE Forget
        BY <2>2, <2>10 DEF Forget, NoCall
    <2> QED BY <2>1, <2>3, <2>4, <2>5, <2>6, <2>7, <2>8, <2>9, <2>10 DEF Next, Step
<1> QED BY <1>1, <1>2, <1>3 DEF FillInv

\* It says what the property does.
LEMMA FilledIsSubstitution == FillInv => OutIsSubstitution
<1> SUFFICES ASSUME FillInv, call.method = "gsub"
             PROVE  out = Substituted \o (IF pc = "running" THEN << >>
                                          ELSE Stretch(start, Len(subject)))
    BY DEF OutIsSubstitution
<1>1. Substituted = FilledTo(visited)
    BY SubstitutedIsFilled
<1>2. pc \in {"running", "returned"}
    BY DEF FillInv, IInv
<1>3. CASE pc = "running"
    <2>1. out = FilledTo(visited) /\ out \in Seq(Units)
        BY <1>3 DEF FillInv, Substituting
    <2>2. out \o << >> = out
        BY <2>1, ConcatEmptySeq
    <2> QED BY <1>1, <1>3, <2>1, <2>2
<1>4. CASE pc = "returned"
    BY <1>1, <1>4 DEF FillInv, Substituting
<1> QED BY <1>2, <1>3, <1>4

\* At the beginning.
LEMMA InitFills == Init => FillInv
BY InitIsWalk, InitGroups DEF FillInv, Substituting, Init, NoCall

\* What gsub and sub return is the text with each match they took replaced by what
\* the template means there and nothing else changed, whatever the text, pattern and
\* template (ustr_gsub, icu_reg_get_replacement).
THEOREM AlwaysSubstitutes == Spec => []OutIsSubstitution
BY InitFills, NextFills, FilledIsSubstitution, PTL DEF Spec

-----------------------------------------------------------------------------
\* InOrder lists each index once, the least first.
Lists(S) ==
    LET at == InOrder(S)
        c == Cardinality(S)
    IN /\ c \in Nat /\ Len(at) = c /\ DOMAIN at = 1 .. c
       /\ \A k \in 1 .. c : at[k] \in S
       /\ \A j, k \in 1 .. c : j < k => at[j] < at[k]
       /\ \A i \in S : \E k \in 1 .. c : at[k] = i

\* One greater index.
LEMMA ListsOneMore ==
    ASSUME NEW n \in Nat, NEW S, S \subseteq 0 .. n - 1, Lists(S)
    PROVE  Lists(S \cup {n})
<1> DEFINE T == S \cup {n}
           c == Cardinality(S)
           a == InOrder(S)
           b == InOrder(T)
<1>1. OneMore(S, T, n, c)
    BY InOrderGrows
<1>2. \A i \in S : i \in Nat /\ i < n
    OBVIOUS
<1>3. DOMAIN b = 1 .. Cardinality(T)
    BY DEF InOrder
<1>4. n \in T /\ \A i \in S : i \in T
    OBVIOUS
<1>5. \A i \in T : i \in S \/ i = n
    OBVIOUS
<1>6. /\ c \in Nat /\ Len(a) = c
      /\ \A k \in 1 .. c : a[k] \in S
      /\ \A j, k \in 1 .. c : j < k => a[j] < a[k]
      /\ \A i \in S : \E k \in 1 .. c : a[k] = i
    BY DEF Lists
<1> HIDE DEF T, c, a, b
<1>7. /\ Cardinality(T) = c + 1 /\ Len(b) = c + 1 /\ b[c + 1] = n
      /\ \A k \in 1 .. c : b[k] = a[k]
    BY <1>1 DEF OneMore, a, b
<1>8. \A k \in 1 .. c + 1 : k \in 1 .. c \/ k = c + 1
    BY <1>6
<1>9. ASSUME NEW k \in 1 .. c + 1 PROVE b[k] \in T
    BY <1>4, <1>6, <1>7, <1>8
<1>10. ASSUME NEW j \in 1 .. c + 1, NEW k \in 1 .. c + 1, j < k PROVE b[j] < b[k]
    <2>1. j \in 1 .. c
        BY <1>6, <1>10
    <2>2. CASE k \in 1 .. c
        BY <1>6, <1>7, <1>10, <2>1, <2>2
    <2>3. CASE k = c + 1
        <3>1. b[j] \in S
            BY <1>6, <1>7, <2>1
        <3> QED BY <1>2, <1>7, <2>3, <3>1
    <2> QED BY <1>8, <2>2, <2>3
<1>11. ASSUME NEW i \in T PROVE \E k \in 1 .. c + 1 : b[k] = i
    <2>1. CASE i = n
        <3>1. c + 1 \in 1 .. c + 1
            BY <1>6
        <3> QED BY <1>7, <2>1, <3>1
    <2>2. CASE i \in S
        <3>1. PICK k \in 1 .. c : a[k] = i
            BY <1>6, <2>2
        <3>2. k \in 1 .. c + 1 /\ b[k] = i
            BY <1>6, <1>7, <3>1
        <3> QED BY <3>2
    <2> QED BY <1>5, <2>1, <2>2
<1>12. Lists(T)
    BY <1>3, <1>6, <1>7, <1>9, <1>10, <1>11 DEF Lists, b
<1> QED BY <1>12 DEF T

\* Any set of indices.
LEMMA InOrderLists ==
    ASSUME NEW n \in Nat, NEW S, S \subseteq 0 .. n - 1
    PROVE  Lists(S)
<1> DEFINE P == {k \in Nat : \A V \in SUBSET (0 .. k - 1) : Lists(V)}
<1>1. Lists({})
    BY FS_EmptySet DEF Lists, InOrder
<1>2. 0 \in P
    <2>1. \A V \in SUBSET (0 .. 0 - 1) : V = {}
        OBVIOUS
    <2> QED BY <1>1, <2>1
<1>3. ASSUME NEW k \in Nat, k \in P PROVE k + 1 \in P
    <2> SUFFICES ASSUME NEW V \in SUBSET (0 .. (k + 1) - 1) PROVE Lists(V)
        OBVIOUS
    <2>1. V \ {k} \in SUBSET (0 .. k - 1)
        OBVIOUS
    <2>2. Lists(V \ {k})
        BY <1>3, <2>1
    <2>3. CASE k \in V
        <3>1. V = (V \ {k}) \cup {k}
            BY <2>3
        <3>2. Lists((V \ {k}) \cup {k})
            BY <2>1, <2>2, ListsOneMore
        <3> QED BY <3>1, <3>2
    <2>4. CASE k \notin V
        <3>1. V = V \ {k}
            BY <2>4
        <3> QED BY <2>2, <3>1
    <2> QED BY <2>3, <2>4
<1> HIDE DEF P
<1>4. n \in P
    BY <1>2, <1>3, InductionOver
<1> QED BY <1>4 DEF P
-----------------------------------------------------------------------------
\* The leftmost match at i is a match, and uregex_findNext goes on to the next of them.
NextIs(i, next) ==
    /\ i \in 0 .. Len(subject) /\ Found(pattern[i]) /\ From(pattern[i]) = i
    /\ Found(next) =>
        /\ From(next) \in Leftmost /\ From(next) \in i + 1 .. Len(subject)
        /\ next = pattern[From(next)]
        /\ \A j \in Leftmost : j <= i \/ From(next) <= j
    /\ ~Found(next) => \A j \in Leftmost : j <= i

\* A free match behind what a walk has taken is one of them, the next one.
LEMMA FreeIsLeftmost ==
    ASSUME PatternOK(subject, pattern), NEW k \in 0 .. Len(subject),
           NEW S, Greedy(subject, pattern, S, k)
    PROVE  /\ S = Leftmost \cap (0 .. k - 1)
           /\ Leftmost \subseteq 0 .. Len(subject)
           /\ k \in Leftmost <=> Free(subject, pattern, S, k)
<1>1. Len(subject) \in Nat /\ k \in 0 .. Len(subject) + 1
    BY DEF PatternOK
<1>2. S = Leftmost \cap (0 .. k - 1) /\ Leftmost \subseteq 0 .. Len(subject)
    BY <1>1, GreedyIsLeftmost
<1>3. Greedy(subject, pattern, Leftmost, Len(subject) + 1)
    BY <1>1, LeftmostIsGreedy
<1>4. k \in Leftmost <=> Free(subject, pattern, Leftmost, k)
    BY <1>1, <1>3 DEF Greedy
<1>5. \A j : j < k => (j \in Leftmost <=> j \in S)
    <2> SUFFICES ASSUME NEW j, j < k, j \in Leftmost PROVE j \in S
        BY <1>2
    <2>1. j \in 0 .. Len(subject)
        BY <1>2
    <2>2. j \in 0 .. k - 1
        BY <1>1, <2>1
    <2> QED BY <1>2, <2>2
<1>6. Free(subject, pattern, Leftmost, k) <=> Free(subject, pattern, S, k)
    BY <1>5, FreeLooksBelow
<1> QED BY <1>2, <1>4, <1>6

LEMMA NextOfLeftmost ==
    ASSUME PatternOK(subject, pattern), NEW i \in Leftmost
    PROVE  NextIs(i, FindNext(pattern[i]))
<1> DEFINE next == FindNext(pattern[i])
<1>1. Len(subject) \in Nat
    BY DEF PatternOK
<1>2. i \in 0 .. Len(subject)
    BY <1>1, LeftmostIsGreedy DEF Greedy
<1>3. PICK S : Greedy(subject, pattern, S, i)
    <2>1. i \in Nat
        BY <1>2
    <2> QED BY <2>1, GreedyExists
<1>4. Free(subject, pattern, S, i) /\ S = Leftmost \cap (0 .. i - 1)
      /\ Leftmost \subseteq 0 .. Len(subject)
    BY <1>2, <1>3, FreeIsLeftmost
<1>5. Found(pattern[i]) /\ From(pattern[i]) = i
    BY <1>2, <1>4 DEF Free, PatternOK
<1>6. IF Found(next)
      THEN /\ From(next) \in i + 1 .. Len(subject)
           /\ next = pattern[From(next)]
           /\ Greedy(subject, pattern, S \cup {i}, From(next))
           /\ Free(subject, pattern, S \cup {i}, From(next))
      ELSE Greedy(subject, pattern, S \cup {i}, Len(subject) + 1)
    BY <1>2, <1>3, <1>4, NextIsFree
<1> HIDE DEF next
<1>7. ASSUME Found(next)
      PROVE  /\ From(next) \in Leftmost
             /\ \A j \in Leftmost : j <= i \/ From(next) <= j
    <2> DEFINE k == From(next)
    <2>1. k \in 0 .. Len(subject) /\ Greedy(subject, pattern, S \cup {i}, k)
          /\ Free(subject, pattern, S \cup {i}, k)
        BY <1>1, <1>2, <1>6, <1>7
    <2> HIDE DEF k
    <2>2. k \in Leftmost /\ S \cup {i} = Leftmost \cap (0 .. k - 1)
        BY <2>1, FreeIsLeftmost
    <2>3. ASSUME NEW j \in Leftmost, ~(k <= j) PROVE j <= i
        <3>1. j \in 0 .. Len(subject)
            BY <1>4
        <3>2. j \in 0 .. k - 1
            BY <1>1, <2>1, <2>3, <3>1
        <3>3. j \in S \cup {i}
            BY <2>2, <3>2
        <3>4. j \in 0 .. i - 1 \/ j = i
            BY <1>4, <3>3
        <3> QED BY <1>1, <1>2, <3>4
    <2> QED BY <2>2, <2>3 DEF k
<1>8. ASSUME ~Found(next), NEW j \in Leftmost PROVE j <= i
    <2>1. Greedy(subject, pattern, S \cup {i}, Len(subject) + 1)
        BY <1>6, <1>8
    <2>2. Len(subject) + 1 \in 0 .. Len(subject) + 1
        BY <1>1
    <2>3. S \cup {i} = Leftmost \cap (0 .. (Len(subject) + 1) - 1)
        BY <1>1, <2>1, <2>2, GreedyIsLeftmost
    <2>4. j \in 0 .. (Len(subject) + 1) - 1
        BY <1>1, <1>4
    <2>5. j \in 0 .. i - 1 \/ j = i
        BY <1>4, <2>3, <2>4
    <2> QED BY <1>1, <1>2, <2>5
<1>9. NextIs(i, next)
    BY <1>2, <1>5, <1>6, <1>7, <1>8 DEF NextIs
<1> QED BY <1>9 DEF next

\* The search from the start finds the first of them.
LEMMA FirstOfLeftmost ==
    ASSUME PatternOK(subject, pattern), NEW m, m = FindFrom(0)
    PROVE  /\ Found(m) => /\ From(m) \in Leftmost /\ m = pattern[From(m)]
                          /\ \A j \in Leftmost : From(m) <= j
           /\ ~Found(m) => Leftmost = {}
<1>1. Len(subject) \in Nat /\ 0 \in 0 .. Len(subject) + 1 /\ Boundary(subject, 0)
    BY DEF PatternOK, Boundary
<1>2. Greedy(subject, pattern, {}, 0)
    BY NothingTaken
<1>3. IF Found(m)
      THEN /\ From(m) \in 0 .. Len(subject)
           /\ m = pattern[From(m)]
           /\ Greedy(subject, pattern, {}, From(m))
           /\ Free(subject, pattern, {}, From(m))
      ELSE Greedy(subject, pattern, {}, Len(subject) + 1)
    BY <1>1, <1>2, SearchGoesOn
<1>4. ASSUME Found(m)
      PROVE  From(m) \in Leftmost /\ \A j \in Leftmost : From(m) <= j
    <2> DEFINE k == From(m)
    <2>1. /\ k \in 0 .. Len(subject) /\ Greedy(subject, pattern, {}, k)
          /\ Free(subject, pattern, {}, k)
        BY <1>3, <1>4
    <2> HIDE DEF k
    <2>2. k \in Leftmost /\ {} = Leftmost \cap (0 .. k - 1) /\ Leftmost \subseteq 0 .. Len(subject)
        BY <2>1, FreeIsLeftmost
    <2>3. ASSUME NEW j \in Leftmost PROVE k <= j
        <3>1. j \in 0 .. Len(subject) /\ j \notin 0 .. k - 1
            BY <2>2
        <3> QED BY <1>1, <2>1, <3>1
    <2> QED BY <2>2, <2>3 DEF k
<1>5. ASSUME ~Found(m) PROVE Leftmost = {}
    <2>1. Greedy(subject, pattern, {}, Len(subject) + 1)
        BY <1>3, <1>5
    <2>2. Len(subject) + 1 \in 0 .. Len(subject) + 1
        BY <1>1
    <2>3. {} = Leftmost \cap (0 .. (Len(subject) + 1) - 1) /\ Leftmost \subseteq 0 .. Len(subject)
        BY <1>1, <2>1, <2>2, GreedyIsLeftmost
    <2>4. \A j \in 0 .. Len(subject) : j \in 0 .. (Len(subject) + 1) - 1
        BY <1>1
    <2> QED BY <2>3, <2>4
<1> QED BY <1>3, <1>4, <1>5
-----------------------------------------------------------------------------
\* f is the matches of the walk from each match on.
WalksOn(f) ==
    f = [i \in {j \in DOMAIN pattern : Found(pattern[j])} |->
            LET next == FindNext(pattern[i])
            IN <<pattern[i]>> \o (IF Found(next) THEN f[From(next)] ELSE << >>)]

\* uregex_findNext of any match goes on behind where it starts.
LEMMA NextIsBehind ==
    ASSUME PatternOK(subject, pattern), NEW i \in 0 .. Len(subject), Found(pattern[i]),
           NEW next, next = FindNext(pattern[i]), Found(next)
    PROVE  /\ From(next) \in i + 1 .. Len(subject)
           /\ next = pattern[From(next)]
<1> DEFINE m == pattern[i]
<1>1. subject \in Seq(Units) /\ Len(subject) \in Nat
    BY DEF PatternOK
<1>2. From(m) = i /\ To(m) \in i .. Len(subject)
    BY DEF PatternOK
<1>3. ASSUME NEW e \in i + 1 .. Len(subject), next = FindFrom(e)
      PROVE  From(next) \in i + 1 .. Len(subject) /\ next = pattern[From(next)]
    <2> DEFINE hits == {j \in e .. Len(subject) :
                            (j = e \/ Boundary(subject, j)) /\ Found(pattern[j])}
    <2>1. next = IF hits = {} THEN NoMatch ELSE pattern[Min(hits)]
        BY <1>3 DEF FindFrom
    <2>2. hits \in SUBSET Nat
        BY <1>1, <1>3
    <2>3. \A j \in hits : j \in i + 1 .. Len(subject) /\ j \in 0 .. Len(subject) /\ Found(pattern[j])
        BY <1>1, <1>3
    <2> HIDE DEF hits
    <2>4. hits # {} /\ Min(hits) \in hits
        BY <2>1, <2>2, LeastIsMin DEF Found
    <2>5. next = pattern[Min(hits)]
        BY <2>1, <2>4
    <2>6. From(pattern[Min(hits)]) = Min(hits)
        BY <2>3, <2>4 DEF PatternOK
    <2> QED BY <2>3, <2>4, <2>5, <2>6
<1> HIDE DEF m
<1>4. CASE i < To(m)
    <2>1. next = FindFrom(To(m)) /\ To(m) \in i + 1 .. Len(subject)
        BY <1>1, <1>2, <1>4 DEF FindNext, m
    <2> QED BY <1>3, <2>1
<1>5. CASE To(m) = i /\ i # Len(subject)
    <2> DEFINE e == i + WidthFrom(subject, i + 1)
    <2>1. next = FindFrom(e)
        BY <1>2, <1>5 DEF FindNext, m
    <2>2. i \in 0 .. Len(subject) - 1
        BY <1>1, <1>5
    <2>3. e \in i + 1 .. Len(subject)
        BY <1>1, <2>2, CodePointsAreWhole
    <2> HIDE DEF e
    <2> QED BY <1>3, <2>1, <2>3
<1>6. ~(To(m) = i /\ i = Len(subject))
    BY <1>2 DEF FindNext, m, Found
<1> QED BY <1>1, <1>2, <1>4, <1>5, <1>6

\* There are such functions: a match refers to matches behind it.
LEMMA WalkExists ==
    ASSUME PatternOK(subject, pattern), GroupsOK(subject, pattern)
    PROVE  \E f : WalksOn(f)
<1> DEFINE n == Len(subject) + 1
           D == {j \in DOMAIN pattern : Found(pattern[j])}
           M == {pattern[i] : i \in D}
           after(i) == FindNext(pattern[i])
           next == [i \in 0 .. n - 1 |->
                        IF i \in D /\ Found(after(i)) THEN From(after(i)) ELSE n]
           step == [i \in 0 .. n - 1 |-> [s \in Seq(M) |->
                        IF i \in D THEN <<pattern[i]>> \o s ELSE s]]
<1>1. n \in Nat /\ n - 1 = Len(subject)
    BY DEF PatternOK
<1>2. \A i : i \in D <=> i \in 0 .. n - 1 /\ Found(pattern[i])
    BY <1>1 DEF GroupsOK
<1>3. ASSUME NEW i \in D, Found(after(i)) PROVE From(after(i)) \in i + 1 .. n - 1
    BY <1>1, <1>2, <1>3, NextIsBehind
<1>4. next \in [0 .. n - 1 -> 1 .. n] /\ \A i \in 0 .. n - 1 : next[i] > i
    <2> SUFFICES ASSUME NEW i \in 0 .. n - 1
        PROVE  (IF i \in D /\ Found(after(i)) THEN From(after(i)) ELSE n) \in i + 1 .. n
        BY <1>1
    <2> HIDE DEF n, D, after
    <2> QED BY <1>1, <1>3
<1>5. step \in [0 .. n - 1 -> [Seq(M) -> Seq(M)]]
    <2> SUFFICES ASSUME NEW i \in 0 .. n - 1, NEW s \in Seq(M)
        PROVE  (IF i \in D THEN <<pattern[i]>> \o s ELSE s) \in Seq(M)
        BY Zenon
    <2>1. ASSUME i \in D PROVE <<pattern[i]>> \o s \in Seq(M)
        <3>1. <<pattern[i]>> \in Seq(M)
            BY <2>1
        <3> HIDE DEF M
        <3> QED BY <3>1, ConcatProperties
    <2> QED BY <2>1
<1> DEFINE a == << >>
           A == Seq(M)
<1>6. PICK h \in [0 .. n -> A] : CountsDown(h, a, n, next, step)
    <2>1. a \in A
        BY EmptySeq
    <2>2. step \in [0 .. n - 1 -> [A -> A]]
        BY <1>5
    <2> HIDE DEF n, next, step, D, after, M, a, A
    <2>3. Above(next, n)
        BY <1>4 DEF Above
    <2> QED BY <1>1, <2>1, <2>2, <2>3, CountdownExists
<1> DEFINE f == [i \in D |-> h[i]]
           is(i) == <<pattern[i]>> \o (IF Found(after(i)) THEN f[From(after(i))] ELSE << >>)
<1>7. ASSUME NEW i \in D PROVE f[i] = is(i)
    <2>1. i \in 0 .. n - 1 /\ f[i] = h[i]
        BY <1>2
    <2>2. h[i] = step[i][h[next[i]]] /\ next[i] \in 0 .. n /\ h[next[i]] \in Seq(M)
        <3>1. next[i] \in 0 .. n
            <4> HIDE DEF next, n
            <4> QED BY <1>1, <1>4, <2>1
        <3> HIDE DEF next, step, n
        <3> QED BY <1>6, <2>1, <3>1 DEF CountsDown
    <2>3. step[i][h[next[i]]] = <<pattern[i]>> \o h[next[i]]
        <3> HIDE DEF next, n, M, D
        <3> QED BY <2>1, <2>2
    <2>4. CASE Found(after(i))
        <3> DEFINE k == From(after(i))
        <3>1. next[i] = k
            BY <2>1, <2>4
        <3>2. k \in D
            <4>1. k \in 0 .. n - 1
                BY <1>1, <1>2, <1>3, <2>1, <2>4
            <4>2. Found(pattern[k])
                <5>1. after(i) = pattern[k]
                    BY <1>1, <1>2, <2>4, NextIsBehind
                <5> QED BY <2>4, <5>1
            <4> QED BY <1>2, <4>1, <4>2
        <3>3. f[k] = h[k]
            BY <3>2
        <3> HIDE DEF next, f, after, step
        <3> QED BY <2>1, <2>2, <2>3, <2>4, <3>1, <3>3
    <2>5. CASE ~Found(after(i))
        <3>1. next[i] = n
            BY <2>1, <2>5
        <3>2. h[n] = << >>
            BY <1>6 DEF CountsDown
        <3> HIDE DEF next, f, after, step, n
        <3> QED BY <2>1, <2>2, <2>3, <2>5, <3>1, <3>2
    <2> QED BY <2>4, <2>5
<1>8. f = [i \in D |-> is(i)]
    <2> HIDE DEF is
    <2>1. f = [i \in D |-> f[i]]
        OBVIOUS
    <2> HIDE DEF f, D
    <2> QED BY <1>7, <2>1
<1>9. WalksOn(f)
    <2> HIDE DEF f
    <2> QED BY <1>8 DEF WalksOn
<1> HIDE DEF f
<1> QED BY <1>9

\* What the walk from the start takes is the leftmost matches, in their order.
LEMMA MatchesAreLeftmost ==
    ASSUME PatternOK(subject, pattern), GroupsOK(subject, pattern)
    PROVE  MatchesFrom(FindFrom(0)) =
                [k \in 1 .. Cardinality(Leftmost) |-> pattern[InOrder(Leftmost)[k]]]
<1> DEFINE at == InOrder(Leftmost)
           c == Cardinality(Leftmost)
           D == {j \in DOMAIN pattern : Found(pattern[j])}
           M == {pattern[i] : i \in Leftmost}
           R == CHOOSE f : f = [i \in D |->
                    LET next == FindNext(pattern[i])
                    IN <<pattern[i]>> \o (IF Found(next) THEN f[From(next)] ELSE << >>)]
           tail(k) == [j \in 1 .. c - k |-> pattern[at[k + j]]]
           m == FindFrom(0)
<1>1. MatchesFrom(m) = IF Found(m) THEN R[From(m)] ELSE << >>
    BY DEF MatchesFrom
<1>2. WalksOn(R)
    <2>1. \E f : WalksOn(f)
        BY WalkExists
    <2>2. R = CHOOSE f : WalksOn(f)
        BY DEF WalksOn
    <2> HIDE DEF R
    <2> QED BY <2>1, <2>2
<1>3. Len(subject) \in Nat /\ DOMAIN pattern = 0 .. Len(subject)
    BY DEF PatternOK, GroupsOK
<1>4. Leftmost \subseteq 0 .. Len(subject)
    BY <1>3, LeftmostIsGreedy DEF Greedy
<1>5. Lists(Leftmost)
    <2>1. Len(subject) + 1 \in Nat /\ Leftmost \subseteq 0 .. (Len(subject) + 1) - 1
        BY <1>3, <1>4
    <2> QED BY <2>1, InOrderLists
<1>6. /\ c \in Nat /\ DOMAIN at = 1 .. c
      /\ \A k \in 1 .. c : at[k] \in Leftmost
      /\ \A j, k \in 1 .. c : j < k => at[j] < at[k]
      /\ \A i \in Leftmost : \E k \in 1 .. c : at[k] = i
    BY <1>5 DEF Lists
<1> HIDE DEF at, c, R, m
<1>7. \A k \in 1 .. c : at[k] \in Nat
    <2>1. \A i \in Leftmost : i \in Nat
        BY <1>3, <1>4
    <2> QED BY <1>6, <2>1
<1>8. ASSUME NEW k \in 0 .. c PROVE tail(k) \in Seq(M)
    <2>1. ASSUME NEW j \in 1 .. c - k PROVE pattern[at[k + j]] \in M
        <3>1. k + j \in 1 .. c
            BY <1>6
        <3> QED BY <1>6, <3>1
    <2>2. c - k \in Nat
        BY <1>6
    <2> HIDE DEF M
    <2> QED BY <2>1, <2>2
<1> HIDE DEF M
<1>9. ASSUME NEW k \in 0 .. c - 1
      PROVE  tail(k) = <<pattern[at[k + 1]]>> \o tail(k + 1)
    <2> DEFINE x == <<pattern[at[k + 1]]>>
               y == tail(k + 1)
    <2>1. k \in 0 .. c /\ k + 1 \in 0 .. c /\ k + 1 \in 1 .. c /\ c - k \in Nat
          /\ c - (k + 1) \in Nat
        BY <1>6
    <2>2. x \in Seq(M) /\ Len(x) = 1 /\ x[1] = pattern[at[k + 1]]
        BY <1>6, <2>1 DEF M
    <2>3. y \in Seq(M) /\ tail(k) \in Seq(M)
        BY <1>8, <2>1
    <2>4. Len(y) = c - (k + 1) /\ \A j \in 1 .. c - (k + 1) : y[j] = pattern[at[(k + 1) + j]]
        BY <2>1
    <2>5. Len(tail(k)) = c - k /\ \A j \in 1 .. c - k : tail(k)[j] = pattern[at[k + j]]
        BY <2>1
    <2> DEFINE z == tail(k)
    <2> HIDE DEF x, y, z
    <2>6. /\ x \o y \in Seq(M) /\ Len(x \o y) = 1 + Len(y)
          /\ \A j \in 1 .. 1 + Len(y) : (x \o y)[j] = IF j <= 1 THEN x[j] ELSE y[j - 1]
        <3>1. \A a, b \in Seq(M) :
                /\ a \o b \in Seq(M) /\ Len(a \o b) = Len(a) + Len(b)
                /\ \A j \in 1 .. Len(a) + Len(b) :
                        (a \o b)[j] = IF j <= Len(a) THEN a[j] ELSE b[j - Len(a)]
            BY ConcatProperties
        <3>2. /\ x \o y \in Seq(M) /\ Len(x \o y) = Len(x) + Len(y)
              /\ \A j \in 1 .. Len(x) + Len(y) :
                    (x \o y)[j] = IF j <= Len(x) THEN x[j] ELSE y[j - Len(x)]
            BY <2>2, <2>3, <3>1, Zenon
        <3> QED BY <2>2, <3>2
    <2>7. ASSUME NEW j \in 1 .. c - k PROVE z[j] = (x \o y)[j]
        <3>1. CASE j = 1
            BY <1>6, <2>1, <2>2, <2>4, <2>5, <2>6, <3>1 DEF z
        <3>2. CASE j > 1
            <4>1. j \in 1 .. 1 + Len(y) /\ j - 1 \in 1 .. c - (k + 1) /\ (k + 1) + (j - 1) = k + j
                BY <1>6, <2>1, <2>4, <3>2
            <4>2. y[j - 1] = pattern[at[k + j]]
                BY <2>4, <4>1
            <4> QED BY <2>5, <2>6, <3>2, <4>1, <4>2 DEF z
        <3>3. j = 1 \/ j > 1
            OBVIOUS
        <3> QED BY <3>1, <3>2, <3>3
    <2>8. z \in Seq(M) /\ Len(z) = Len(x \o y) /\ \A j \in 1 .. Len(z) : z[j] = (x \o y)[j]
        <3>1. z \in Seq(M) /\ Len(z) = c - k
            BY <2>3, <2>5 DEF z
        <3>2. 1 + (c - (k + 1)) = c - k
            BY <1>6
        <3> QED BY <2>4, <2>6, <2>7, <3>1, <3>2
    <2>9. z = x \o y
        BY <2>6, <2>8, SeqEqual
    <2> QED BY <2>9 DEF x, y, z
<1>10. ASSUME NEW q \in 1 .. c, NEW r \in 1 .. c
       PROVE  at[q] < at[r] <=> q < r
    <2>1. q < r => at[q] < at[r]
        BY <1>6
    <2>2. r < q => at[r] < at[q]
        BY <1>6
    <2>3. at[q] \in Nat /\ at[r] \in Nat
        BY <1>7
    <2>4. q \in Nat /\ r \in Nat
        BY <1>6
    <2> QED BY <2>1, <2>2, <2>3, <2>4
<1> DEFINE Q == {k \in 0 .. c : k < c => R[at[k + 1]] = tail(k)}
<1> HIDE DEF tail
<1>11. c \in Q
    BY <1>6
<1>12. ASSUME NEW k \in 0 .. c - 1, \A j \in k + 1 .. c : j \in Q
       PROVE  k \in Q
    <2> DEFINE i == at[k + 1]
               next == FindNext(pattern[i])
    <2>1. k \in 0 .. c /\ k + 1 \in 1 .. c /\ k + 1 \in k + 1 .. c /\ i \in Leftmost
        BY <1>6
    <2>2. NextIs(i, next)
        BY <2>1, NextOfLeftmost
    <2>3. i \in D
        BY <1>3, <2>2 DEF NextIs
    <2>4. R[i] = <<pattern[i]>> \o (IF Found(next) THEN R[From(next)] ELSE << >>)
        BY <1>2, <2>3 DEF WalksOn
    <2> HIDE DEF next
    <2>5. CASE k + 1 < c
        <3>1. k + 2 \in 1 .. c /\ k + 1 \in Q /\ (k + 1) + 1 = k + 2
            BY <1>6, <1>12, <2>1, <2>5
        <3>2. i < at[k + 2] /\ at[k + 2] \in Leftmost
            BY <1>6, <2>1, <3>1
        <3>3. Found(next)
            BY <1>7, <2>1, <2>2, <3>1, <3>2 DEF NextIs
        <3>4. From(next) \in Leftmost /\ i < From(next) /\ From(next) <= at[k + 2]
            <4>1. From(next) \in i + 1 .. Len(subject) /\ i \in Nat /\ at[k + 2] \in Nat
                BY <1>7, <2>1, <2>2, <3>1, <3>3 DEF NextIs
            <4> QED BY <1>3, <2>2, <3>2, <3>3, <4>1 DEF NextIs
        <3>5. PICK q \in 1 .. c : at[q] = From(next)
            BY <1>6, <3>4
        <3>6. k + 1 < q
            BY <1>10, <2>1, <3>4, <3>5
        <3>7. ~(k + 2 < q)
            <4>1. k + 2 < q => at[k + 2] < at[q]
                BY <1>6, <3>1
            <4>2. at[k + 2] \in Nat /\ at[q] \in Nat
                BY <1>7, <3>1
            <4> QED BY <3>4, <3>5, <4>1, <4>2
        <3>8. q = k + 2
            BY <1>6, <3>6, <3>7
        <3>9. R[at[k + 2]] = tail(k + 1)
            BY <1>6, <2>5, <3>1
        <3> QED BY <1>9, <2>1, <2>4, <3>3, <3>5, <3>8, <3>9
    <2>6. CASE k + 1 = c
        <3>1. ~Found(next)
            <4> SUFFICES ASSUME Found(next) PROVE FALSE
                OBVIOUS
            <4>1. From(next) \in Leftmost /\ i < From(next)
                <5>1. From(next) \in i + 1 .. Len(subject) /\ i \in Nat
                    BY <1>7, <2>1, <2>2 DEF NextIs
                <5> QED BY <1>3, <2>2, <5>1 DEF NextIs
            <4>2. PICK q \in 1 .. c : at[q] = From(next)
                BY <1>6, <4>1
            <4>3. k + 1 < q
                BY <1>10, <2>1, <4>1, <4>2
            <4> QED BY <1>6, <2>6, <4>3
        <3>2. tail(k + 1) = << >>
            BY <1>6, <2>6 DEF tail
        <3> QED BY <1>9, <2>1, <2>4, <3>1, <3>2
    <2> QED BY <1>6, <2>5, <2>6
<1> HIDE DEF Q
<1>13. 0 \in Q
    <2>1. 0 .. c \subseteq Q
        BY <1>6, <1>11, <1>12, InductionDown
    <2> QED BY <1>6, <2>1
<1>14. tail(0) = [k \in 1 .. c |-> pattern[at[k]]]
    BY <1>6 DEF tail
<1>15. CASE Found(m)
    <2>1. From(m) \in Leftmost /\ \A j \in Leftmost : From(m) <= j
        BY <1>15, FirstOfLeftmost DEF m
    <2>2. PICK q \in 1 .. c : at[q] = From(m)
        BY <1>6, <2>1
    <2>3. 1 \in 1 .. c /\ at[1] \in Leftmost
        BY <1>6, <2>2
    <2>4. ~(1 < q)
        <3>1. 1 < q => at[1] < at[q]
            BY <1>6, <2>3
        <3>2. at[1] \in Nat /\ at[q] \in Nat
            BY <1>7, <2>3
        <3> QED BY <2>1, <2>2, <2>3, <3>1, <3>2
    <2>5. q = 1 /\ 0 < c /\ 0 + 1 = 1
        BY <1>6, <2>4
    <2>6. R[at[1]] = tail(0)
        BY <1>13, <2>5 DEF Q
    <2> QED BY <1>1, <1>14, <1>15, <2>2, <2>5, <2>6 DEF m, at, c
<1>16. CASE ~Found(m)
    <2>1. Leftmost = {}
        BY <1>16, FirstOfLeftmost DEF m
    <2>2. c = 0
        BY <2>1, InOrderEmpty DEF c
    <2>3. [k \in 1 .. c |-> pattern[at[k]]] = << >>
        BY <2>2
    <2> QED BY <1>1, <1>16, <2>3 DEF m, at, c
<1> QED BY <1>15, <1>16
-----------------------------------------------------------------------------
\* The leftmost matches as they lie in the text.
LiesBehind ==
    LET at == InOrder(Leftmost)
        c == Cardinality(Leftmost)
    IN /\ Len(subject) \in Nat /\ c \in Nat /\ DOMAIN at = 1 .. c /\ Len(at) = c
       /\ \A k \in 1 .. c : /\ at[k] \in Leftmost /\ at[k] \in k - 1 .. Len(subject)
                            /\ Found(pattern[at[k]]) /\ From(pattern[at[k]]) = at[k]
                            /\ To(pattern[at[k]]) \in at[k] .. Len(subject)
       /\ \A j, k \in 1 .. c : j < k => at[j] < at[k] /\ To(pattern[at[j]]) <= at[k]
       /\ \A k \in 1 .. c + 1 : FirstAt(k) \in 0 .. Len(subject)
       /\ \A k \in 1 .. c : FirstAt(k) <= at[k]
       /\ \A j, k \in 1 .. c + 1 : j <= k => FirstAt(j) <= FirstAt(k)

\* They do.
LEMMA LeftmostLies ==
    ASSUME PatternOK(subject, pattern), GroupsOK(subject, pattern)
    PROVE  LiesBehind
<1> DEFINE at == InOrder(Leftmost)
           c == Cardinality(Leftmost)
<1>1. Len(subject) \in Nat
    BY DEF PatternOK
<1>2. Greedy(subject, pattern, Leftmost, Len(subject) + 1)
    BY <1>1, LeftmostIsGreedy
<1>3. \A i \in Leftmost : i \in 0 .. Len(subject)
    BY <1>1, <1>2 DEF Greedy
<1>4. \A i \in Leftmost : Free(subject, pattern, Leftmost, i)
    <2>1. \A i \in 0 .. Len(subject) : i \in 0 .. (Len(subject) + 1) - 1
        BY <1>1
    <2> QED BY <1>2, <1>3, <2>1 DEF Greedy
<1>5. /\ c \in Nat /\ DOMAIN at = 1 .. c /\ Len(at) = c
      /\ \A k \in 1 .. c : at[k] \in Leftmost
      /\ \A j, k \in 1 .. c : j < k => at[j] < at[k]
    <2>1. Len(subject) + 1 \in Nat /\ Leftmost \subseteq 0 .. (Len(subject) + 1) - 1
        BY <1>1, <1>2 DEF Greedy
    <2>2. Lists(Leftmost)
        BY <2>1, InOrderLists
    <2> QED BY <2>2 DEF Lists
<1> HIDE DEF at, c
<1>6. ASSUME NEW k \in 1 .. c
      PROVE  /\ at[k] \in 0 .. Len(subject) /\ Found(pattern[at[k]])
             /\ From(pattern[at[k]]) = at[k]
             /\ To(pattern[at[k]]) \in at[k] .. Len(subject)
    <2>1. at[k] \in Leftmost
        BY <1>5
    <2>2. at[k] \in 0 .. Len(subject) /\ Found(pattern[at[k]])
        BY <1>3, <1>4, <2>1 DEF Free
    <2> QED BY <2>2 DEF PatternOK
<1>7. ASSUME NEW j \in 1 .. c, NEW k \in 1 .. c, j < k
      PROVE  at[j] < at[k] /\ To(pattern[at[j]]) <= at[k]
    <2>1. at[j] < at[k] /\ at[j] \in Leftmost /\ at[k] \in Leftmost
        BY <1>5, <1>7
    <2>2. Free(subject, pattern, Leftmost, at[k])
        BY <1>4, <2>1
    <2> QED BY <2>1, <2>2 DEF Free
<1>8. ASSUME NEW k \in 1 .. c PROVE at[k] >= k - 1
    <2> DEFINE P == {q \in Nat : q + 1 \in 1 .. c => at[q + 1] >= q}
    <2>1. 0 \in P
        BY <1>5, <1>6
    <2>2. ASSUME NEW q \in Nat, q \in P PROVE q + 1 \in P
        <3> SUFFICES ASSUME (q + 1) + 1 \in 1 .. c PROVE at[(q + 1) + 1] >= q + 1
            OBVIOUS
        <3>1. q + 1 \in 1 .. c /\ q + 1 < (q + 1) + 1
            BY <1>5
        <3>2. at[q + 1] < at[(q + 1) + 1] /\ at[q + 1] \in Nat /\ at[(q + 1) + 1] \in Nat
            BY <1>1, <1>6, <1>7, <3>1
        <3> QED BY <2>2, <3>1, <3>2
    <2> HIDE DEF P
    <2>3. k - 1 \in P
        <3>1. k - 1 \in Nat
            BY <1>5
        <3> QED BY <2>1, <2>2, <3>1, InductionOver
    <2>4. (k - 1) + 1 = k
        BY <1>5
    <2> QED BY <2>3, <2>4 DEF P
<1>9. ASSUME NEW k \in 1 .. c + 1 PROVE FirstAt(k) \in 0 .. Len(subject)
    <2>1. CASE k = 1
        BY <1>1, <2>1 DEF FirstAt
    <2>2. CASE k # 1
        <3>1. k - 1 \in 1 .. c
            BY <1>5, <2>2
        <3>2. To(pattern[at[k - 1]]) \in 0 .. Len(subject)
            BY <1>1, <1>6, <3>1
        <3> QED BY <2>2, <3>2 DEF FirstAt, at
    <2> QED BY <2>1, <2>2
<1>10. ASSUME NEW k \in 1 .. c PROVE FirstAt(k) <= at[k]
    <2>1. CASE k = 1
        BY <1>1, <1>6, <2>1 DEF FirstAt
    <2>2. CASE k # 1
        <3>1. k - 1 \in 1 .. c /\ k - 1 < k
            BY <1>5, <2>2
        <3> QED BY <1>7, <2>2, <3>1 DEF FirstAt, at
    <2> QED BY <2>1, <2>2
<1>11. ASSUME NEW j \in 1 .. c + 1, NEW k \in 1 .. c + 1, j <= k
       PROVE  FirstAt(j) <= FirstAt(k)
    <2>1. FirstAt(j) \in 0 .. Len(subject) /\ FirstAt(k) \in 0 .. Len(subject)
        BY <1>9
    <2>2. CASE j = k
        BY <1>1, <2>1, <2>2
    <2>3. CASE j = 1
        BY <1>1, <2>1, <2>3 DEF FirstAt
    <2>4. CASE j # 1 /\ j # k
        <3>1. j - 1 \in 1 .. c /\ k - 1 \in 1 .. c /\ j - 1 < k - 1 /\ k # 1
            BY <1>5, <1>11, <2>4
        <3>2. To(pattern[at[j - 1]]) <= at[k - 1]
            BY <1>7, <3>1
        <3>3. To(pattern[at[k - 1]]) \in at[k - 1] .. Len(subject) /\ at[k - 1] \in 0 .. Len(subject)
              /\ To(pattern[at[j - 1]]) \in at[j - 1] .. Len(subject) /\ at[j - 1] \in 0 .. Len(subject)
            BY <1>6, <3>1
        <3>4. FirstAt(j) = To(pattern[at[j - 1]]) /\ FirstAt(k) = To(pattern[at[k - 1]])
            BY <2>4, <3>1 DEF FirstAt, at
        <3> QED BY <1>1, <3>2, <3>3, <3>4
    <2> QED BY <2>2, <2>3, <2>4
<1>12. ASSUME NEW k \in 1 .. c PROVE at[k] \in k - 1 .. Len(subject)
    BY <1>1, <1>5, <1>6, <1>8
<1> QED BY <1>1, <1>5, <1>6, <1>7, <1>9, <1>10, <1>11, <1>12 DEF LiesBehind, at, c
-----------------------------------------------------------------------------
\* The least of two, and the first k of a sequence.
LEMMA MinOfTwo ==
    ASSUME NEW a \in Int, NEW b \in Int
    PROVE  Min({a, b}) = IF a <= b THEN a ELSE b
<1>1. {a, b} \in SUBSET Int
    OBVIOUS
<1>2. CASE a <= b
    BY <1>1, <1>2, SmallestIsMin
<1>3. CASE b < a
    <2>1. b \in {a, b} /\ \A e \in {a, b} : b <= e
        BY <1>3
    <2> QED BY <1>1, <1>3, <2>1, SmallestIsMin
<1> QED BY <1>2, <1>3

LEMMA FirstOfSeq ==
    ASSUME NEW S, NEW x \in Seq(S), NEW k \in Int, k <= Len(x)
    PROVE  /\ SubSeq(x, 1, k) \in Seq(S)
           /\ Len(SubSeq(x, 1, k)) = IF k < 0 THEN 0 ELSE k
           /\ \A j \in 1 .. k : SubSeq(x, 1, k)[j] = x[j]
<1>1. \A i \in 1 .. k : x[i] \in S
    <2>1. \A i \in 1 .. k : i \in 1 .. Len(x)
        OBVIOUS
    <2> QED BY <2>1
<1>2. /\ SubSeq(x, 1, k) \in Seq(S)
      /\ Len(SubSeq(x, 1, k)) = IF 1 <= k THEN k - 1 + 1 ELSE 0
      /\ \A i \in 1 .. k - 1 + 1 : SubSeq(x, 1, k)[i] = x[1 + i - 1]
    BY <1>1, SubSeqProperties
<1>3. ASSUME NEW i \in 1 .. k PROVE SubSeq(x, 1, k)[i] = x[i]
    <2>1. i \in 1 .. k - 1 + 1 /\ 1 + i - 1 = i
        OBVIOUS
    <2>2. SubSeq(x, 1, k)[i] = x[1 + i - 1]
        BY <1>2, <2>1
    <2> QED BY <2>1, <2>2
<1>4. Len(SubSeq(x, 1, k)) = IF k < 0 THEN 0 ELSE k
    BY <1>2
<1> QED BY <1>2, <1>3, <1>4

\* What split has divided when it comes to a match, and what it hands out.
Division == [fields : Seq(Seq(Units)), end : 0 .. Len(subject)]

\* The groups of a match, as fields.
LEMMA GroupsAreTexts ==
    ASSUME PatternOK(subject, pattern), GroupsOK(subject, pattern),
           NEW i \in 0 .. Len(subject), Found(pattern[i])
    PROVE  /\ [g \in DOMAIN pattern[i] \ {0} |-> Group(pattern[i], g)] \in Seq(Seq(Units))
           /\ DOMAIN pattern[i] = {0} =>
                [g \in DOMAIN pattern[i] \ {0} |-> Group(pattern[i], g)] = << >>
<1>1. PICK n \in Nat : DOMAIN pattern[i] = 0 .. n
    BY DEF GroupsOK
<1>2. DOMAIN pattern[i] \ {0} = 1 .. n
    BY <1>1
<1>3. \A g : Group(pattern[i], g) \in Seq(Units)
    BY GroupIsText
<1> DEFINE S == Seq(Units)
           groups == [g \in 1 .. n |-> Group(pattern[i], g)]
<1>4. groups \in Seq(S)
    <2> HIDE DEF S
    <2>1. \A g : Group(pattern[i], g) \in S
        BY <1>3 DEF S
    <2> QED BY <2>1
<1>5. ASSUME DOMAIN pattern[i] = {0} PROVE groups = << >>
    <2>1. n = 0
        <3>1. n \in 0 .. n
            OBVIOUS
        <3> QED BY <1>1, <1>5, <3>1
    <2> QED BY <2>1
<1> QED BY <1>2, <1>4, <1>5

\* One match more.
LEMMA DivideType ==
    ASSUME PatternOK(subject, pattern), GroupsOK(subject, pattern),
           NEW i \in 0 .. Len(subject), Found(pattern[i]), NEW n \in Int,
           NEW s \in Division
    PROVE  Divide(s, pattern[i], n) \in Division
<1> DEFINE S == Seq(Units)
           piece == Stretch(s.end, From(pattern[i]))
           groups == [g \in DOMAIN pattern[i] \ {0} |-> Group(pattern[i], g)]
           fields == Append(s.fields, piece) \o groups
<1>1. Len(subject) \in Nat /\ subject \in Seq(Units) /\ From(pattern[i]) = i
      /\ To(pattern[i]) \in 0 .. Len(subject)
    BY DEF PatternOK
<1>2. s.fields \in Seq(S) /\ s.end \in 0 .. Len(subject)
    BY DEF Division
<1>3. piece \in S
    <2>1. s.end \in Nat /\ i \in Int /\ i <= Len(subject)
        BY <1>1, <1>2
    <2>2. Stretch(s.end, i) \in Seq(Units)
        BY <1>1, <2>1, StretchIsText
    <2> QED BY <1>1, <2>2
<1>4. groups \in Seq(S)
    BY GroupsAreTexts
<1>5. fields \in Seq(S)
    <2> HIDE DEF S, groups, piece
    <2>1. Append(s.fields, piece) \in Seq(S)
        BY <1>2, <1>3, AppendProperties
    <2> QED BY <1>4, <2>1, ConcatProperties
<1>6. Divide(s, pattern[i], n) = s
      \/ Divide(s, pattern[i], n) = [fields |-> fields, end |-> To(pattern[i])]
    BY DEF Divide
<1> HIDE DEF fields
<1> QED BY <1>1, <1>5, <1>6 DEF Division

\* f is what is divided up to each of the matches.
Divides(f, n) ==
    LET c == Cardinality(Leftmost)
        at == InOrder(Leftmost)
    IN /\ f \in [0 .. c -> Division]
       /\ f[0] = [fields |-> << >>, end |-> 0]
       /\ \A k \in 1 .. c : f[k] = Divide(f[k - 1], pattern[at[k]], n)
       /\ Fields(n) = WithRest(f[c], n)

\* There is such a function, and it is what the split follows.
LEMMA FieldsAreDivided ==
    ASSUME PatternOK(subject, pattern), GroupsOK(subject, pattern), NEW n \in Int
    PROVE  \E f : Divides(f, n)
<1> DEFINE at == InOrder(Leftmost)
           c == Cardinality(Leftmost)
           ms == MatchesFrom(FindFrom(0))
           nothing == [fields |-> << >>, end |-> 0]
           Follows(f) == f = [k \in 0 .. Len(ms) |->
                            IF k = 0 THEN [fields |-> << >>, end |-> 0]
                            ELSE Divide(f[k - 1], ms[k], n)]
           step == [k \in 1 .. c |-> [s \in Division |-> Divide(s, pattern[at[k]], n)]]
           u == CHOOSE f : Follows(f)
<1>1. Fields(n) = WithRest(u[Len(ms)], n)
    BY DEF Fields
<1>2. /\ Len(subject) \in Nat /\ c \in Nat
      /\ \A k \in 1 .. c : at[k] \in 0 .. Len(subject) /\ Found(pattern[at[k]])
    <2>1. LiesBehind
        BY LeftmostLies
    <2>2. Len(subject) \in Nat /\ c \in Nat
        BY <2>1 DEF LiesBehind
    <2> HIDE DEF at, c
    <2>3. ASSUME NEW k \in 1 .. c PROVE at[k] \in 0 .. Len(subject) /\ Found(pattern[at[k]])
        <3>1. at[k] \in k - 1 .. Len(subject) /\ Found(pattern[at[k]])
            BY <2>1 DEF LiesBehind, at, c
        <3> QED BY <2>2, <3>1
    <2> QED BY <2>2, <2>3
<1>3. ms = [k \in 1 .. c |-> pattern[at[k]]]
    BY MatchesAreLeftmost
<1> HIDE DEF at, c, ms, u
<1>4. Len(ms) = c /\ \A k \in 1 .. c : ms[k] = pattern[at[k]]
    BY <1>2, <1>3
<1>5. nothing \in Division
    <2>1. << >> \in Seq(Seq(Units)) /\ 0 \in 0 .. Len(subject)
        BY <1>2
    <2> QED BY <2>1 DEF Division
<1>6. step \in [1 .. c -> [Division -> Division]]
    <2>1. ASSUME NEW k \in 1 .. c, NEW s \in Division
          PROVE  Divide(s, pattern[at[k]], n) \in Division
        BY <1>2, DivideType
    <2> QED BY <2>1
<1>7. PICK h \in [0 .. c -> Division] :
            h[0] = nothing /\ \A i \in 1 .. c : h[i] = step[i][h[i - 1]]
    <2> HIDE DEF step, nothing
    <2> QED BY <1>2, <1>5, <1>6, IterationExists
<1>8. \A k \in 0 .. c : k = 0 \/ (k \in 1 .. c /\ k - 1 \in 0 .. c)
    BY <1>2
<1>9. ASSUME NEW k \in 1 .. c PROVE h[k] = Divide(h[k - 1], pattern[at[k]], n)
    <2>1. k - 1 \in 0 .. c
        BY <1>2
    <2>2. h[k - 1] \in Division
        BY <1>7, <2>1
    <2> QED BY <1>7, <2>2
<1>10. Follows(h)
    <2>1. ASSUME NEW k \in 0 .. c
          PROVE  h[k] = IF k = 0 THEN [fields |-> << >>, end |-> 0] ELSE Divide(h[k - 1], ms[k], n)
        <3>1. k # 0 => k \in 1 .. c
            BY <1>8
        <3> QED BY <1>4, <1>7, <1>9, <3>1
    <2>2. h = [k \in 0 .. c |-> h[k]]
        BY <1>7
    <2> QED BY <1>4, <2>1, <2>2
<1>11. Follows(u)
    BY <1>10 DEF u
<1>12. u[0] = nothing /\ \A k \in 1 .. c : u[k] = Divide(u[k - 1], pattern[at[k]], n)
    <2>1. ASSUME NEW k \in 0 .. c
          PROVE  u[k] = IF k = 0 THEN [fields |-> << >>, end |-> 0] ELSE Divide(u[k - 1], ms[k], n)
        BY <1>4, <1>11
    <2>2. 0 \in 0 .. c /\ \A k \in 1 .. c : k \in 0 .. c /\ k # 0
        BY <1>2
    <2> QED BY <1>4, <2>1, <2>2
<1> DEFINE P == {k \in Nat : k \in 0 .. c => u[k] = h[k]}
<1>13. 0 \in P
    BY <1>7, <1>12
<1>14. ASSUME NEW k \in Nat, k \in P PROVE k + 1 \in P
    <2> SUFFICES ASSUME k + 1 \in 0 .. c PROVE u[k + 1] = h[k + 1]
        OBVIOUS
    <2>1. k + 1 \in 1 .. c /\ (k + 1) - 1 = k /\ k \in 0 .. c
        BY <1>2
    <2> QED BY <1>9, <1>12, <1>14, <2>1
<1> HIDE DEF P
<1>15. Nat \subseteq P
    BY <1>13, <1>14, InductionOver
<1>16. u[c] = h[c]
    <2>1. c \in P /\ c \in 0 .. c
        BY <1>2, <1>15
    <2> QED BY <2>1 DEF P
<1>17. Fields(n) = WithRest(h[c], n)
    BY <1>1, <1>4, <1>16
<1>18. Divides(h, n)
    <2> HIDE DEF step, Follows
    <2> QED BY <1>7, <1>9, <1>17 DEF Divides, at, c
<1> QED BY <1>18

\* The fields are texts.
LEMMA FieldsType ==
    ASSUME PatternOK(subject, pattern), GroupsOK(subject, pattern), NEW n \in Int
    PROVE  Fields(n) \in Seq(Seq(Units))
<1>1. PICK f : Divides(f, n)
    BY FieldsAreDivided
<1> DEFINE c == Cardinality(Leftmost)
           s == f[c]
           T == Seq(Units)
           first(k) == SubSeq(s.fields, 1, k)
           rest == Stretch(s.end, Len(subject))
<1>2. s \in Division /\ Fields(n) = WithRest(s, n)
    <2>1. LiesBehind
        BY LeftmostLies
    <2>2. c \in 0 .. c
        BY <2>1 DEF LiesBehind
    <2> QED BY <1>1, <2>2 DEF Divides
<1>3. Len(subject) \in Nat /\ subject \in Seq(Units)
    BY DEF PatternOK
<1> HIDE DEF s
<1>4. s.fields \in Seq(T) /\ Len(s.fields) \in Nat /\ s.end \in 0 .. Len(subject)
    BY <1>2 DEF Division
<1>5. rest \in T
    <2>1. s.end \in Nat /\ Len(subject) \in Int /\ Len(subject) <= Len(subject)
        BY <1>3, <1>4
    <2> QED BY <1>3, <2>1, StretchIsText
<1> HIDE DEF rest, T
<1>6. ASSUME NEW a \in Int PROVE first(Min({a, Len(s.fields)})) \in Seq(T)
    <2> DEFINE k == Min({a, Len(s.fields)})
    <2>1. k = IF a <= Len(s.fields) THEN a ELSE Len(s.fields)
        BY <1>4, MinOfTwo
    <2> HIDE DEF k
    <2>2. k \in Int /\ k <= Len(s.fields)
        BY <1>4, <2>1
    <2>3. first(k) \in Seq(T)
        BY <1>4, <2>2, FirstOfSeq
    <2> QED BY <2>3 DEF k
<1>7. first(Min({n, Len(s.fields)})) \in Seq(T)
    BY <1>6
<1>8. first(Min({n - 1, Len(s.fields)})) \in Seq(T)
    BY <1>6
<1>9. Append(first(Min({n - 1, Len(s.fields)})), rest) \in Seq(T)
    <2> DEFINE x == first(Min({n - 1, Len(s.fields)}))
    <2>1. x \in Seq(T)
        BY <1>8
    <2> HIDE DEF x
    <2> QED BY <1>5, <2>1, AppendProperties DEF x
<1>10. WithRest(s, n) = first(Min({n, Len(s.fields)}))
       \/ WithRest(s, n) = Append(first(Min({n - 1, Len(s.fields)})), rest)
    BY DEF WithRest, rest
<1> HIDE DEF first
<1> QED BY <1>2, <1>7, <1>9, <1>10 DEF T
-----------------------------------------------------------------------------
\* Up to match k of a pattern without groups there is a piece for each match, unless
\* there is room for no more or the text has ended.
DividedTo(s, k, n) ==
    LET at == InOrder(Leftmost)
        q == Len(s.fields)
    IN /\ s \in Division
       /\ q \in 0 .. k /\ q <= n - 1
       /\ \A j \in 1 .. q : /\ s.fields[j] = Stretch(FirstAt(j), at[j])
                            /\ FirstAt(j) # Len(subject)
       /\ s.end = FirstAt(q + 1)
       /\ q = k \/ q = n - 1 \/ s.end = Len(subject)

\* One match more.
LEMMA DividesOne ==
    ASSUME PatternOK(subject, pattern), GroupsOK(subject, pattern), LiesBehind,
           \A i \in Leftmost : DOMAIN pattern[i] = {0},
           NEW n \in Nat \ {0}, NEW k \in 1 .. Cardinality(Leftmost),
           NEW s, DividedTo(s, k - 1, n),
           NEW t, t = Divide(s, pattern[InOrder(Leftmost)[k]], n)
    PROVE  DividedTo(t, k, n)
<1> DEFINE at == InOrder(Leftmost)
           c == Cardinality(Leftmost)
           q == Len(s.fields)
           i == at[k]
<1>1. /\ Len(subject) \in Nat /\ c \in Nat
      /\ i \in Leftmost /\ i \in 0 .. Len(subject) /\ Found(pattern[i]) /\ From(pattern[i]) = i
    <2>1. i \in Leftmost /\ i \in k - 1 .. Len(subject) /\ Found(pattern[i]) /\ From(pattern[i]) = i
        BY DEF LiesBehind
    <2>2. Len(subject) \in Nat /\ c \in Nat
        BY DEF LiesBehind
    <2> HIDE DEF i, c
    <2> QED BY <2>1, <2>2
<1>2. /\ s \in Division
      /\ q \in 0 .. k - 1 /\ q <= n - 1
      /\ \A j \in 1 .. q : /\ s.fields[j] = Stretch(FirstAt(j), at[j])
                           /\ FirstAt(j) # Len(subject)
      /\ s.end = FirstAt(q + 1)
      /\ q = k - 1 \/ q = n - 1 \/ s.end = Len(subject)
    BY DEF DividedTo
<1>3. t \in Division
    BY <1>1, <1>2, DivideType
<1>4. CASE q >= n - 1 \/ s.end = Len(subject)
    <2>1. t = s
        BY <1>4 DEF Divide
    <2>2. q \in 0 .. k /\ (q = n - 1 \/ s.end = Len(subject))
        <3> HIDE DEF q, c
        <3> QED BY <1>1, <1>2, <1>4
    <2> QED BY <1>2, <2>1, <2>2 DEF DividedTo
<1>5. CASE ~(q >= n - 1 \/ s.end = Len(subject))
    <2> DEFINE piece == Stretch(s.end, i)
               x == Append(s.fields, piece)
               S == Seq(Units)
    <2>1. [g \in DOMAIN pattern[i] \ {0} |-> Group(pattern[i], g)] = << >>
        BY <1>1, GroupsAreTexts
    <2>2. t = [fields |-> x \o << >>, end |-> To(pattern[i])]
        BY <1>1, <1>5, <2>1 DEF Divide
    <2>3. s.fields \in Seq(S) /\ s.end \in 0 .. Len(subject)
        BY <1>2 DEF Division
    <2>4. piece \in S
        <3>1. s.end \in Nat /\ i \in Int /\ i <= Len(subject)
            BY <1>1, <2>3
        <3>2. subject \in Seq(Units)
            BY DEF PatternOK
        <3> QED BY <3>1, <3>2, StretchIsText
    <2> HIDE DEF piece, S
    <2>5. /\ x \in Seq(S) /\ Len(x) = q + 1 /\ x[q + 1] = piece
          /\ \A j \in 1 .. q : x[j] = s.fields[j]
        BY <2>3, <2>4, AppendProperties
    <2> HIDE DEF x
    <2>6. t.fields = x /\ t.end = To(pattern[i])
        BY <2>2, <2>5, ConcatEmptySeq
    <2>7. q = k - 1 /\ q + 1 = k /\ k \in 0 .. k /\ k <= n - 1 /\ k \in 1 .. c + 1 /\ k # 0
        <3>1. k \in 1 .. c /\ n \in Int
            OBVIOUS
        <3> HIDE DEF q, c
        <3> QED BY <1>1, <1>2, <1>5, <3>1
    <2>8. FirstAt(k + 1) = To(pattern[i])
        <3>1. k + 1 # 1 /\ (k + 1) - 1 = k
            BY <2>7
        <3> QED BY <3>1 DEF FirstAt
    <2>9. ASSUME NEW j \in 1 .. k
          PROVE  x[j] = Stretch(FirstAt(j), at[j]) /\ FirstAt(j) # Len(subject)
        <3>1. CASE j = k
            BY <1>2, <1>5, <2>5, <2>7, <3>1 DEF piece
        <3>2. CASE j # k
            <4>1. j \in 1 .. q
                <5> HIDE DEF q
                <5> QED BY <2>7, <3>2
            <4> QED BY <1>2, <2>5, <4>1
        <3> QED BY <3>1, <3>2
    <2>10. Len(t.fields) = k
        BY <2>5, <2>6, <2>7
    <2> HIDE DEF q, i
    <2> QED BY <1>3, <2>6, <2>7, <2>8, <2>9, <2>10 DEF DividedTo
<1> QED BY <1>4, <1>5

\* F are the pieces of a text split in n at most, there being room for one or more.
LaidOut(F, n) ==
    LET at == InOrder(Leftmost)
        c == Cardinality(Leftmost)
    IN \E q \in 0 .. c :
        /\ q <= n - 1
        /\ \A j \in 1 .. q : /\ F[j] = Stretch(FirstAt(j), at[j])
                             /\ FirstAt(j) # Len(subject)
        /\ \/ Len(F) = q /\ FirstAt(q + 1) = Len(subject)
           \/ /\ Len(F) = q + 1 /\ F[q + 1] = Stretch(FirstAt(q + 1), Len(subject))
              /\ FirstAt(q + 1) # Len(subject)
              /\ q = c \/ q = n - 1

\* That is what uregex_split makes of the text.
LEMMA FieldsLieOut ==
    ASSUME PatternOK(subject, pattern), GroupsOK(subject, pattern),
           \A i \in Leftmost : DOMAIN pattern[i] = {0}, NEW n \in Nat \ {0}
    PROVE  LaidOut(Fields(n), n)
<1> DEFINE at == InOrder(Leftmost)
           c == Cardinality(Leftmost)
<1>1. LiesBehind
    BY LeftmostLies
<1>2. c \in Nat /\ Len(subject) \in Nat
    BY <1>1 DEF LiesBehind
<1>3. PICK f : Divides(f, n)
    BY FieldsAreDivided
<1> DEFINE P == {k \in Nat : k \in 0 .. c => DividedTo(f[k], k, n)}
<1>4. 0 \in P
    <2>1. f[0] = [fields |-> << >>, end |-> 0] /\ f[0] \in Division
        BY <1>2, <1>3 DEF Divides
    <2>2. f[0].fields = << >> /\ f[0].end = 0 /\ Len(<< >>) = 0
        BY <2>1
    <2>3. FirstAt(0 + 1) = 0
        BY DEF FirstAt
    <2>4. DividedTo(f[0], 0, n)
        BY <2>1, <2>2, <2>3 DEF DividedTo
    <2> QED BY <2>4
<1>5. ASSUME NEW k \in Nat, k \in P PROVE k + 1 \in P
    <2> SUFFICES ASSUME k + 1 \in 0 .. c PROVE DividedTo(f[k + 1], k + 1, n)
        OBVIOUS
    <2>1. k + 1 \in 1 .. c /\ (k + 1) - 1 = k /\ k \in 0 .. c
        <3> HIDE DEF c
        <3> QED BY <1>2
    <2>2. f[k + 1] = Divide(f[k], pattern[at[k + 1]], n)
        BY <1>3, <2>1 DEF Divides
    <2>3. DividedTo(f[k], (k + 1) - 1, n)
        BY <1>5, <2>1
    <2> QED BY <1>1, <2>1, <2>2, <2>3, DividesOne
<1> HIDE DEF P
<1>6. DividedTo(f[c], c, n)
    <2>1. Nat \subseteq P
        BY <1>4, <1>5, InductionOver
    <2>2. c \in P /\ c \in 0 .. c
        <3> HIDE DEF c
        <3> QED BY <1>2, <2>1
    <2> QED BY <2>2 DEF P
<1> DEFINE s == f[c]
           q == Len(s.fields)
           S == Seq(Units)
           first(k) == SubSeq(s.fields, 1, k)
           rest == Stretch(s.end, Len(subject))
<1>7. Fields(n) = WithRest(s, n)
    BY <1>3 DEF Divides
<1>8. /\ s \in Division
      /\ q \in 0 .. c /\ q <= n - 1
      /\ \A j \in 1 .. q : /\ s.fields[j] = Stretch(FirstAt(j), at[j])
                           /\ FirstAt(j) # Len(subject)
      /\ s.end = FirstAt(q + 1)
      /\ q = c \/ q = n - 1 \/ s.end = Len(subject)
    BY <1>6 DEF DividedTo
<1> HIDE DEF s
<1>9. s.fields \in Seq(S) /\ s.end \in 0 .. Len(subject) /\ q \in Nat
    BY <1>8 DEF Division
<1>10. Min({n, q}) = q /\ Min({n - 1, q}) = q
    <2> HIDE DEF q
    <2>1. q \in Int /\ n \in Int /\ n - 1 \in Int /\ q <= n - 1 /\ q <= n
        BY <1>8, <1>9
    <2>2. Min({n, q}) = (IF n <= q THEN n ELSE q) /\ Min({n - 1, q}) = IF n - 1 <= q THEN n - 1 ELSE q
        BY <2>1, MinOfTwo
    <2> QED BY <2>1, <2>2
<1> HIDE DEF S
<1>11. first(q) = s.fields
    <2>1. q \in Int /\ q <= Len(s.fields) /\ ~(q < 0)
        BY <1>9
    <2>2. first(q) \in Seq(S) /\ Len(first(q)) = q /\ \A j \in 1 .. q : first(q)[j] = s.fields[j]
        BY <1>9, <2>1, FirstOfSeq
    <2> HIDE DEF first
    <2> QED BY <1>9, <2>2, SeqEqual
<1>12. CASE s.end = Len(subject)
    <2>1. Fields(n) = s.fields
        BY <1>7, <1>10, <1>11, <1>12 DEF WithRest
    <2> HIDE DEF c
    <2> QED BY <1>8, <1>12, <2>1 DEF LaidOut, c
<1>13. CASE s.end # Len(subject)
    <2>1. Fields(n) = Append(s.fields, rest)
        BY <1>7, <1>10, <1>11, <1>13 DEF WithRest
    <2>2. rest \in S
        <3>1. s.end \in Nat /\ Len(subject) \in Int /\ Len(subject) <= Len(subject)
            BY <1>2, <1>9
        <3>2. subject \in Seq(Units)
            BY DEF PatternOK
        <3> QED BY <3>1, <3>2, StretchIsText DEF S
    <2> HIDE DEF rest
    <2>3. /\ Len(Fields(n)) = q + 1 /\ Fields(n)[q + 1] = rest
          /\ \A j \in 1 .. q : Fields(n)[j] = s.fields[j]
        BY <1>9, <2>1, <2>2, AppendProperties
    <2> HIDE DEF c, q
    <2> QED BY <1>8, <1>13, <2>3 DEF LaidOut, c, rest
<1> QED BY <1>12, <1>13
-----------------------------------------------------------------------------
\* Piece k of a text split with this limit.
PieceIs(k, limit) ==
    Stretch(FirstAt(k),
            IF k > Cardinality(Leftmost) \/ k = limit THEN Len(subject) ELSE InOrder(Leftmost)[k])

\* One is due unless it would start at the end of the text or behind the limit.
PieceDue(k, limit) == FirstAt(k) # Len(subject) /\ (limit > 0 => k <= limit)

\* F are the pieces that are due.
Lays(F, limit) ==
    /\ \A k \in 1 .. Cardinality(Leftmost) + 1 :
        IF k \in 1 .. Len(F) THEN PieceDue(k, limit) /\ F[k] = PieceIs(k, limit)
        ELSE ~PieceDue(k, limit)
    /\ Len(F) \in 0 .. Cardinality(Leftmost) + 1

\* There is room for them.
LEMMA PiecesLieOut ==
    ASSUME LiesBehind, NEW limit \in Int, NEW F, LaidOut(F, FieldsFor(limit))
    PROVE  Lays(F, limit)
<1> DEFINE at == InOrder(Leftmost)
           c == Cardinality(Leftmost)
           n == FieldsFor(limit)
           length == Len(subject)
<1>1. /\ length \in Nat /\ c \in Nat
      /\ \A k \in 1 .. c : at[k] \in k - 1 .. length
      /\ \A k \in 1 .. c : To(pattern[at[k]]) \in at[k] .. length
      /\ \A j, k \in 1 .. c : j < k => at[j] < at[k]
      /\ \A k \in 1 .. c + 1 : FirstAt(k) \in 0 .. length
      /\ \A j, k \in 1 .. c + 1 : j <= k => FirstAt(j) <= FirstAt(k)
    BY DEF LiesBehind
<1>2. n = IF limit > 0 THEN limit ELSE length + 1
    BY DEF FieldsFor
<1>3. PICK q \in 0 .. c :
        /\ q <= n - 1
        /\ \A j \in 1 .. q : F[j] = Stretch(FirstAt(j), at[j]) /\ FirstAt(j) # length
        /\ \/ Len(F) = q /\ FirstAt(q + 1) = length
           \/ /\ Len(F) = q + 1 /\ F[q + 1] = Stretch(FirstAt(q + 1), length)
              /\ FirstAt(q + 1) # length
              /\ q = c \/ q = n - 1
    BY DEF LaidOut
<1>4. \A k : PieceIs(k, limit) = Stretch(FirstAt(k), IF k > c \/ k = limit THEN length ELSE at[k])
    BY DEF PieceIs
<1>5. /\ \A k \in 2 .. c + 1 : FirstAt(k) = To(pattern[at[k - 1]])
      /\ \A k : PieceDue(k, limit) <=> FirstAt(k) # length /\ (limit > 0 => k <= limit)
    BY DEF FirstAt, PieceDue
<1> HIDE DEF at, c, n, length
<1>6. n \in Int /\ n >= 1 /\ q \in Nat /\ q <= c
    BY <1>1, <1>2
<1>7. ASSUME NEW k \in q + 1 .. c + 1, NEW j \in q + 1 .. c + 1, j <= k, FirstAt(j) = length
      PROVE  ~PieceDue(k, limit)
    <2>1. j \in 1 .. c + 1 /\ k \in 1 .. c + 1
        BY <1>1, <1>6
    <2>2. FirstAt(k) \in 0 .. length /\ FirstAt(j) <= FirstAt(k)
        BY <1>1, <1>7, <2>1
    <2>3. FirstAt(k) = length
        BY <1>1, <1>7, <2>2
    <2> QED BY <1>5, <2>3
<1>8. ASSUME NEW k \in 1 .. q PROVE PieceDue(k, limit) /\ F[k] = PieceIs(k, limit)
    <2>1. k \in 1 .. c /\ ~(k > c) /\ k # limit /\ (limit > 0 => k <= limit)
        BY <1>1, <1>2, <1>3, <1>6
    <2> QED BY <1>3, <1>4, <1>5, <2>1
<1>9. CASE Len(F) = q /\ FirstAt(q + 1) = length
    <2>1. ASSUME NEW k \in 1 .. c + 1
          PROVE  IF k \in 1 .. Len(F) THEN PieceDue(k, limit) /\ F[k] = PieceIs(k, limit)
                 ELSE ~PieceDue(k, limit)
        <3>1. CASE k \in 1 .. q
            BY <1>8, <1>9, <3>1
        <3>2. CASE k \notin 1 .. q
            <4>1. k \in q + 1 .. c + 1 /\ q + 1 \in q + 1 .. c + 1 /\ q + 1 <= k
                BY <1>1, <1>6, <3>2
            <4>2. ~PieceDue(k, limit)
                BY <1>7, <1>9, <4>1
            <4> QED BY <1>9, <3>2, <4>2
        <3> QED BY <3>1, <3>2
    <2>2. Len(F) \in 0 .. c + 1
        BY <1>1, <1>6, <1>9
    <2> QED BY <2>1, <2>2 DEF Lays, c
<1>10. CASE /\ Len(F) = q + 1 /\ F[q + 1] = Stretch(FirstAt(q + 1), length)
            /\ FirstAt(q + 1) # length /\ (q = c \/ q = n - 1)
    \* Without a limit there is room for all but an empty match at the very end.
    <2>1. q = c \/ q + 1 = limit \/ (limit <= 0 /\ q + 1 \in 1 .. c /\ at[q + 1] = length)
        <3> SUFFICES ASSUME q # c, q + 1 # limit
                     PROVE  limit <= 0 /\ q + 1 \in 1 .. c /\ at[q + 1] = length
            OBVIOUS
        <3>0. q = n - 1 /\ q < c
            BY <1>1, <1>6, <1>10
        <3>1. limit <= 0 /\ q = length /\ q + 1 \in 1 .. c
            <4>1. limit <= 0
                BY <1>2, <1>6, <3>0
            <4>2. n = length + 1
                BY <1>2, <4>1
            <4>3. length \in Nat /\ c \in Nat
                BY <1>1
            <4> QED BY <1>6, <3>0, <4>1, <4>2, <4>3
        <3>2. at[q + 1] \in (q + 1) - 1 .. length
            BY <1>1, <3>1
        <3> QED BY <1>1, <3>1, <3>2
    <2>2. PieceDue(q + 1, limit) /\ F[q + 1] = PieceIs(q + 1, limit)
        <3>1. (IF q + 1 > c \/ q + 1 = limit THEN length ELSE at[q + 1]) = length
            BY <1>1, <1>6, <2>1
        <3>2. limit > 0 => q + 1 <= limit
            BY <1>2, <1>3, <1>6
        <3> QED BY <1>4, <1>5, <1>10, <3>1, <3>2
    <2>3. ASSUME NEW k \in q + 2 .. c + 1 PROVE ~PieceDue(k, limit)
        <3>1. q # c /\ k \in Int /\ q + 2 <= k
            BY <1>1, <1>6
        <3>2. CASE q + 1 = limit
            <4>1. limit > 0 /\ ~(k <= limit)
                BY <1>6, <3>1, <3>2
            <4> QED BY <1>5, <4>1
        <3>3. CASE q + 1 \in 1 .. c /\ at[q + 1] = length
            <4>1. q + 2 \in 2 .. c + 1 /\ (q + 2) - 1 = q + 1
                  /\ q + 2 \in q + 1 .. c + 1 /\ k \in q + 1 .. c + 1 /\ q + 2 <= k
                BY <1>1, <1>6, <3>1, <3>3
            <4>2. FirstAt(q + 2) = To(pattern[at[q + 1]])
                BY <1>5, <4>1
            <4>3. To(pattern[at[q + 1]]) \in at[q + 1] .. length
                BY <1>1, <3>3
            <4>4. FirstAt(q + 2) = length
                BY <1>1, <3>3, <4>2, <4>3
            <4> QED BY <1>7, <4>1, <4>4
        <3> QED BY <2>1, <3>1, <3>2, <3>3
    <2>4. ASSUME NEW k \in 1 .. c + 1
          PROVE  IF k \in 1 .. Len(F) THEN PieceDue(k, limit) /\ F[k] = PieceIs(k, limit)
                 ELSE ~PieceDue(k, limit)
        <3>1. k \in 1 .. q \/ k = q + 1 \/ k \in q + 2 .. c + 1
            BY <1>1, <1>6
        <3>2. k \in 1 .. q + 1 <=> k \in 1 .. q \/ k = q + 1
            BY <1>1, <1>6
        <3> QED BY <1>8, <1>10, <2>2, <2>3, <3>1, <3>2
    <2>5. Len(F) \in 0 .. c + 1
        BY <1>1, <1>6, <1>10
    <2> QED BY <2>4, <2>5 DEF Lays, c
<1> QED BY <1>3, <1>9, <1>10
-----------------------------------------------------------------------------
\* The greatest of a set of numbers up to n.
LEMMA GreatestIsMax ==
    ASSUME NEW n \in Nat, NEW D \in SUBSET (0 .. n), D # {}
    PROVE  Max(D) \in D /\ \A e \in D : e <= Max(D)
<1> DEFINE E == {n - d : d \in D}
<1>1. E \in SUBSET Nat /\ E # {}
    <2>1. \A d \in D : n - d \in Nat
        OBVIOUS
    <2>2. PICK d \in D : TRUE
        OBVIOUS
    <2>3. n - d \in E
        OBVIOUS
    <2> QED BY <2>1, <2>3
<1>2. PICK e \in E : \A f \in E : e <= f
    BY <1>1, LeastMember
<1>3. PICK d \in D : e = n - d
    BY <1>2
<1>4. \A f \in D : f <= d
    <2> SUFFICES ASSUME NEW f \in D PROVE f <= d
        OBVIOUS
    <2>1. n - f \in E
        OBVIOUS
    <2>2. n - d <= n - f
        BY <1>2, <1>3, <2>1
    <2>3. f \in 0 .. n /\ d \in 0 .. n
        OBVIOUS
    <2> QED BY <2>2, <2>3
<1>5. D \in SUBSET Int
    OBVIOUS
<1>6. Max(D) = d
    BY <1>4, <1>5, LargestIsMax
<1> QED BY <1>4, <1>6

\* A text up to its first U+0000 is a text.
LEMMA ToNulIsText == ASSUME NEW x \in Seq(Units) PROVE ToNul(x) \in Seq(Units)
<1> DEFINE D == {k \in 0 .. Len(x) : \A j \in 1 .. k : x[j] # Nul}
<1>1. D \in SUBSET (0 .. Len(x)) /\ 0 \in D /\ Len(x) \in Nat
    OBVIOUS
<1>2. ToNul(x) = SubSeq(x, 1, Max(D))
    BY DEF ToNul
<1> HIDE DEF D
<1>3. Max(D) \in 0 .. Len(x)
    BY <1>1, GreatestIsMax
<1>4. Max(D) \in Int /\ Max(D) <= Len(x)
    BY <1>1, <1>3
<1> QED BY <1>2, <1>4, FirstOfSeq

\* Without a limit the empty pieces at the end are cut off, and only they.
LEMMA TrimmedIs ==
    ASSUME NEW S, NEW F \in Seq(Seq(S)), NEW G, G = Trimmed(F)
    PROVE  /\ G \in Seq(Seq(S)) /\ Len(G) <= Len(F)
           /\ \A k \in 1 .. Len(G) : G[k] = F[k]
           /\ \A k \in 1 .. Len(F) : k \in 1 .. Len(G) \/ F[k] = << >>
           /\ G # << >> => Last(G) # << >>
<1> DEFINE D == {0} \cup {k \in DOMAIN F : F[k] # << >>}
           p == Max(D)
           T == Seq(S)
<1>1. Len(F) \in Nat /\ DOMAIN F = 1 .. Len(F)
    OBVIOUS
<1>2. D \in SUBSET (0 .. Len(F)) /\ 0 \in D
    BY <1>1
<1>3. \A k \in D : k = 0 \/ F[k] # << >>
    OBVIOUS
<1>4. \A k \in 1 .. Len(F) : F[k] # << >> => k \in D
    BY <1>1
<1>5. G = SubSeq(F, 1, p)
    BY DEF Trimmed
<1> HIDE DEF D
<1>6. p \in D /\ \A e \in D : e <= p
    BY <1>1, <1>2, GreatestIsMax
<1> HIDE DEF p
<1>7. p \in Int /\ p <= Len(F) /\ ~(p < 0)
    BY <1>1, <1>2, <1>6
<1>8. F \in Seq(T)
    OBVIOUS
<1> HIDE DEF T
<1>9. G \in Seq(T) /\ Len(G) = p /\ \A j \in 1 .. p : G[j] = F[j]
    BY <1>5, <1>7, <1>8, FirstOfSeq
<1>10. ASSUME NEW k \in 1 .. Len(F) PROVE k \in 1 .. p \/ F[k] = << >>
    <2>1. CASE F[k] # << >>
        <3>1. k <= p
            BY <1>4, <1>6, <2>1
        <3> QED BY <1>7, <3>1
    <2> QED BY <2>1
<1>11. ASSUME G # << >> PROVE Last(G) # << >>
    <2>1. p # 0
        BY <1>9, <1>11, EmptySeq
    <2>2. F[p] # << >> /\ p \in 1 .. p
        BY <1>3, <1>6, <1>7, <2>1
    <2>3. Last(G) = G[p]
        BY <1>9 DEF Last
    <2> QED BY <1>9, <2>2, <2>3
<1> QED BY <1>7, <1>9, <1>10, <1>11 DEF T
-----------------------------------------------------------------------------
\* What split hands out.
TextsOf(limit) == [k \in DOMAIN Fields(FieldsFor(limit)) |-> ToNul(Fields(FieldsFor(limit))[k])]

\* They are texts, one for each field.
LEMMA TextsAreTexts ==
    ASSUME PatternOK(subject, pattern), GroupsOK(subject, pattern), NEW limit \in Int
    PROVE  /\ FieldsFor(limit) \in Nat \ {0}
           /\ TextsOf(limit) \in Seq(Seq(Units))
           /\ Len(TextsOf(limit)) = Len(Fields(FieldsFor(limit)))
           /\ \A k \in 1 .. Len(TextsOf(limit)) :
                TextsOf(limit)[k] = ToNul(Fields(FieldsFor(limit))[k])
<1> DEFINE F == Fields(FieldsFor(limit))
           T == Seq(Units)
<1>1. FieldsFor(limit) \in Nat \ {0}
    BY DEF FieldsFor, PatternOK
<1>2. F \in Seq(T)
    BY <1>1, FieldsType
<1>3. \A x \in T : ToNul(x) \in T
    BY ToNulIsText
<1> HIDE DEF F, T
<1>4. /\ [k \in DOMAIN F |-> ToNul(F[k])] \in Seq(T)
      /\ Len([k \in DOMAIN F |-> ToNul(F[k])]) = Len(F)
    <2>1. DOMAIN F = 1 .. Len(F) /\ Len(F) \in Nat
        BY <1>2
    <2>2. \A k \in 1 .. Len(F) : ToNul(F[k]) \in T
        BY <1>2, <1>3
    <2> QED BY <2>1, <2>2
<1>5. \A k \in 1 .. Len(F) : [j \in DOMAIN F |-> ToNul(F[j])][k] = ToNul(F[k])
    BY <1>2
<1>6. TextsOf(limit) = [k \in DOMAIN F |-> ToNul(F[k])]
    BY DEF TextsOf, F
<1> QED BY <1>1, <1>4, <1>5, <1>6 DEF F, T

\* What split returns.
SplitInto(limit) == IF limit = 0 THEN Trimmed(TextsOf(limit)) ELSE TextsOf(limit)

\* They are texts.
LEMMA SplitIntoTexts ==
    ASSUME PatternOK(subject, pattern), GroupsOK(subject, pattern), NEW limit \in Int
    PROVE  SplitInto(limit) \in Seq(Seq(Units))
<1>1. TextsOf(limit) \in Seq(Seq(Units))
    BY TextsAreTexts
<1>2. Trimmed(TextsOf(limit)) \in Seq(Seq(Units))
    BY <1>1, TrimmedIs
<1> QED BY <1>1, <1>2 DEF SplitInto

\* F are the pieces as a program sees them.
Shows(F, limit) ==
    /\ DOMAIN F \subseteq 1 .. Cardinality(Leftmost) + 1
    /\ \A k \in 1 .. Cardinality(Leftmost) + 1 :
        IF k \in DOMAIN F THEN PieceDue(k, limit) /\ F[k] = ToNul(PieceIs(k, limit))
        ELSE PieceDue(k, limit) => limit = 0 /\ ToNul(PieceIs(k, limit)) = << >>
    /\ limit = 0 /\ F # << >> => Last(F) # << >>

\* Those are what split returns.
LEMMA SplitShows ==
    ASSUME PatternOK(subject, pattern), GroupsOK(subject, pattern), NEW limit \in Int,
           \A i \in Leftmost : DOMAIN pattern[i] = {0}
    PROVE  Shows(SplitInto(limit), limit)
<1> DEFINE c == Cardinality(Leftmost)
           n == FieldsFor(limit)
           F == Fields(n)
           X == TextsOf(limit)
           G == SplitInto(limit)
           piece(k) == PieceIs(k, limit)
<1>1. LiesBehind
    BY LeftmostLies
<1>2. c \in Nat
    BY <1>1 DEF LiesBehind
<1>3. /\ n \in Nat \ {0} /\ X \in Seq(Seq(Units)) /\ Len(X) = Len(F)
      /\ \A k \in 1 .. Len(X) : X[k] = ToNul(F[k])
    BY TextsAreTexts
<1>4. Lays(F, limit)
    <2>1. LaidOut(F, n)
        BY <1>3, FieldsLieOut
    <2> HIDE DEF F
    <2> QED BY <1>1, <2>1, PiecesLieOut
<1> HIDE DEF c, n, F, X, G, piece
<1>5. /\ \A k \in 1 .. c + 1 :
            IF k \in 1 .. Len(F) THEN PieceDue(k, limit) /\ F[k] = piece(k)
            ELSE ~PieceDue(k, limit)
      /\ Len(F) \in 0 .. c + 1
    BY <1>4 DEF Lays, c, piece
<1>6. ASSUME NEW k \in 1 .. c + 1
      PROVE  IF k \in 1 .. Len(X) THEN PieceDue(k, limit) /\ X[k] = ToNul(piece(k))
             ELSE ~PieceDue(k, limit)
    BY <1>3, <1>5
<1>7. /\ G \in Seq(Seq(Units)) /\ Len(G) <= Len(X)
      /\ \A k \in 1 .. Len(G) : G[k] = X[k]
      /\ \A k \in 1 .. Len(X) : k \in 1 .. Len(G) \/ (limit = 0 /\ X[k] = << >>)
      /\ limit = 0 /\ G # << >> => Last(G) # << >>
    <2>1. CASE limit = 0
        <3>1. G = Trimmed(X)
            BY <2>1 DEF G, SplitInto, X
        <3> QED BY <1>3, <2>1, <3>1, TrimmedIs
    <2>2. CASE limit # 0
        <3>1. G = X /\ Len(X) \in Nat
            BY <1>3, <2>2 DEF G, SplitInto, X
        <3> QED BY <1>3, <2>2, <3>1
    <2> QED BY <2>1, <2>2
<1>8. DOMAIN G = 1 .. Len(G) /\ Len(G) \in Nat /\ Len(X) \in Nat
    BY <1>3, <1>7
<1>9. ASSUME NEW k \in 1 .. c + 1
      PROVE  IF k \in DOMAIN G THEN PieceDue(k, limit) /\ G[k] = ToNul(piece(k))
             ELSE PieceDue(k, limit) => limit = 0 /\ ToNul(piece(k)) = << >>
    <2>1. CASE k \in 1 .. Len(G)
        <3>1. k \in 1 .. Len(X)
            BY <1>7, <1>8, <2>1
        <3> QED BY <1>6, <1>7, <1>8, <2>1, <3>1
    <2>2. CASE k \in 1 .. Len(X) /\ k \notin 1 .. Len(G)
        <3>1. limit = 0 /\ ToNul(piece(k)) = << >>
            BY <1>6, <1>7, <2>2
        <3> QED BY <1>8, <2>2, <3>1
    <2>3. CASE k \notin 1 .. Len(X)
        <3>1. k \notin 1 .. Len(G)
            BY <1>7, <1>8, <2>3
        <3> QED BY <1>6, <1>8, <2>3, <3>1
    <2> QED BY <2>1, <2>2, <2>3
<1>10. DOMAIN G \subseteq 1 .. c + 1
    <2>1. Len(G) <= c + 1
        BY <1>2, <1>3, <1>5, <1>7, <1>8
    <2> QED BY <1>2, <1>8, <2>1
<1> QED BY <1>7, <1>9, <1>10 DEF Shows, c, piece, G

-----------------------------------------------------------------------------
\* In the next state the text and the pattern are the same, and so the matches.
LEMMA SameLeftmost ==
    ASSUME subject' = subject, pattern' = pattern
    PROVE  Leftmost' = Leftmost
BY DEF Leftmost, Free, Boundary, Found, To
\* The step of split.
LEMMA SplitStepDivides ==
    ASSUME FillInv, NEW limit \in Limits, Split(limit)
    PROVE  SplitDivides'
<1>1. /\ subject' = subject /\ pattern' = pattern
      /\ call' = [method |-> "split", limit |-> limit]
      /\ pieces' = SplitInto(limit)
    BY DEF Split, Answers, Calls, SplitInto, TextsOf
<1>2. PatternOK(subject, pattern) /\ GroupsOK(subject, pattern) /\ limit \in Int
    BY LimitsAssumption DEF FillInv, IInv
<1>3. Leftmost' = Leftmost
    BY <1>1, SameLeftmost
<1>4. Cardinality(Leftmost) \in Nat
    BY <1>2, LeftmostLies DEF LiesBehind
<1> DEFINE c == Cardinality(Leftmost)
<1>5. Between' = [k \in 1 .. c + 1 |-> PieceIs(k, limit)]
    <2>1. Len(InOrder(Leftmost)) = c
        BY <1>2, LeftmostLies DEF LiesBehind
    <2> QED BY <1>1, <1>3, <2>1 DEF Between, PieceIs, FirstAt, Stretch, To
<1>6. /\ (DOMAIN Between)' = 1 .. c + 1
      /\ \A k \in 1 .. c + 1 : Between'[k] = PieceIs(k, limit)
    <2> HIDE DEF c
    <2>1. c \in Nat
        BY <1>4 DEF c
    <2> QED BY <1>5, <2>1
<1>7. (\A i \in Leftmost : DOMAIN pattern[i] = {0}) => Shows(SplitInto(limit), limit)
    BY <1>2, SplitShows
<1>8. \A k : FirstAt(k)' = FirstAt(k)
    BY <1>1, <1>3 DEF FirstAt, To
<1> QED BY <1>1, <1>3, <1>6, <1>7, <1>8 DEF SplitDivides, Shows, PieceDue

\* Other steps change the call, or nothing.
LEMMA NextDivides == ASSUME FillInv, SplitDivides, [Next]_vars PROVE SplitDivides'
<1>1. CASE UNCHANGED vars
    <2>1. subject' = subject /\ pattern' = pattern /\ call' = call /\ pieces' = pieces
        BY <1>1 DEF vars
    <2>2. Leftmost' = Leftmost
        BY <2>1, SameLeftmost
    <2>3. Between' = Between
        BY <2>1, <2>2 DEF Between, FirstAt, Stretch, To
    <2>4. \A k : FirstAt(k)' = FirstAt(k)
        BY <2>1, <2>2 DEF FirstAt, To
    <2> QED BY <2>1, <2>2, <2>3, <2>4 DEF SplitDivides
<1>2. ASSUME call'.method # "split" PROVE SplitDivides'
    BY <1>2 DEF SplitDivides
<1>3. CASE ScanBegin
    BY <1>2, <1>3 DEF ScanBegin, Calls
<1>4. CASE \E t \in Templates, once \in BOOLEAN : GsubBegin(t, once)
    BY <1>2, <1>4 DEF GsubBegin, Calls
<1>5. ASSUME NEW pos, RindexBegin(pos) \/ Index(pos) PROVE SplitDivides'
    BY <1>2, <1>5 DEF RindexBegin, Index, Answers, Calls
<1>6. ASSUME NEW pos, NEW w, RindexWord(w, pos) \/ IndexWord(w, pos) PROVE SplitDivides'
    BY <1>2, <1>6 DEF RindexWord, IndexWord, Answers, Calls
<1>7. ASSUME NEW limit \in Limits, Split(limit) PROVE SplitDivides'
    BY <1>7, SplitStepDivides
<1>8. CASE Step
    BY <1>2, <1>8 DEF Step, ScanOnce, ScanEnd, GsubOnce, RindexOnce, Goes, Running
<1>9. CASE Forget
    BY <1>2, <1>9 DEF Forget, NoCall
<1> QED BY <1>1, <1>3, <1>4, <1>5, <1>6, <1>7, <1>8, <1>9 DEF Next

\* At the beginning nothing is called.
LEMMA InitDivides == Init => SplitDivides
BY DEF Init, NoCall, SplitDivides

\* The pieces of a text split by a pattern without groups are what stands between its
\* matches, whatever the text, pattern and limit: those that start in front of the end
\* of the text and not behind the limit, but for empty ones at the end if it is 0; the
\* last one allowed takes the rest (icu_reg_split, icu_ustr_split_m).
THEOREM AlwaysSplitDivides == Spec => []SplitDivides
BY InitFills, NextFills, InitDivides, NextDivides, PTL DEF Spec
-----------------------------------------------------------------------------
\* What uregex_find finds is a match of the pattern.
LEMMA FoundIsMatch ==
    ASSUME PatternOK(subject, pattern), NEW e \in Nat, NEW m, m = FindFrom(e)
    PROVE  IF Found(m)
           THEN From(m) \in e .. Len(subject) /\ m = pattern[From(m)]
                /\ To(m) \in From(m) .. Len(subject)
           ELSE m = NoMatch
<1> DEFINE hits == {j \in e .. Len(subject) :
                        (j = e \/ Boundary(subject, j)) /\ Found(pattern[j])}
<1>1. m = IF hits = {} THEN NoMatch ELSE pattern[Min(hits)]
    BY DEF FindFrom
<1>2. Len(subject) \in Nat
    BY DEF PatternOK
<1>3. hits \in SUBSET Nat
    OBVIOUS
<1>4. \A j \in hits : j \in e .. Len(subject) /\ Found(pattern[j])
    OBVIOUS
<1>5. CASE hits = {}
    BY <1>1, <1>5 DEF Found
<1>6. CASE hits # {}
    <2> DEFINE k == Min(hits)
    <2>1. k \in hits
        <3> HIDE DEF hits
        <3> QED BY <1>3, <1>6, LeastIsMin
    <2> HIDE DEF hits, k
    <2>2. k \in e .. Len(subject) /\ Found(pattern[k])
        BY <1>4, <2>1
    <2>3. k \in 0 .. Len(subject)
        BY <1>2, <2>2
    <2>4. m = pattern[k]
        BY <1>1, <1>6 DEF k
    <2> QED BY <2>2, <2>3, <2>4 DEF PatternOK
<1> QED BY <1>5, <1>6

\* Where a walk is, and what it has: TypeOK but for what does not change.
Typed ==
    /\ match \in {NoMatch} \cup {pattern[i] : i \in 0 .. Len(subject)}
    /\ start \in 0 .. Len(subject) + 1
    /\ out \in Seq(Units)
    /\ answer \in -1 .. Len(subject)
    /\ pieces \in Seq(Seq(Units))
    /\ visited \subseteq {i \in 0 .. Len(subject) : Found(pattern[i])}

TypeInv == FillInv /\ subject \in Subjects /\ Typed

\* It says what TypeOK does.
LEMMA TypeInvIsTypeOK == TypeInv => TypeOK
BY DEF TypeInv, Typed, FillInv, IInv, PatternOK, Standing, TypeOK

\* At the beginning.
LEMMA InitTyped == Init => TypeInv
<1> SUFFICES ASSUME Init PROVE subject \in Subjects /\ Typed
    BY InitFills DEF TypeInv
<1>1. subject \in Seq(Units) /\ Len(subject) \in Nat
    BY TextsAssumption DEF Init
<1>2. << >> \in Seq(Units) /\ << >> \in Seq(Seq(Units))
    BY EmptySeq
<1> QED BY <1>1, <1>2 DEF Init, Typed

\* Scan goes on inside the text, or a unit behind it.
LEMMA ScanOnceTyped == ASSUME TypeInv, ScanOnce PROVE Typed'
<1> DEFINE m == FindFrom(start)
<1>1. /\ PatternOK(subject, pattern) /\ Len(subject) \in Nat /\ start \in Nat /\ Typed
    BY DEF TypeInv, Typed, FillInv, IInv, PatternOK
<1>2. /\ Found(m) /\ match' = m /\ start' = NextStart(m)
      /\ visited' = visited \cup {From(m)}
      /\ subject' = subject /\ pattern' = pattern /\ out' = out /\ answer' = answer
      /\ pieces' = pieces
    BY DEF ScanOnce, Goes
<1>3. From(m) \in 0 .. Len(subject) /\ m = pattern[From(m)]
      /\ To(m) \in 0 .. Len(subject)
    <2>1. From(m) \in start .. Len(subject) /\ m = pattern[From(m)]
          /\ To(m) \in From(m) .. Len(subject)
        BY <1>1, <1>2, FoundIsMatch
    <2> HIDE DEF m
    <2> QED BY <1>1, <2>1
<1> HIDE DEF m
<1>4. NextStart(m) \in 0 .. Len(subject) + 1
    BY <1>1, <1>3 DEF NextStart
<1>5. Found(pattern[From(m)])
    BY <1>2, <1>3
<1>6. match' \in {NoMatch} \cup {pattern[i] : i \in 0 .. Len(subject)}
    BY <1>2, <1>3
<1>7. visited' \subseteq {i \in 0 .. Len(subject) : Found(pattern[i])}
    BY <1>1, <1>2, <1>3, <1>5 DEF Typed
<1> QED BY <1>1, <1>2, <1>4, <1>6, <1>7 DEF Typed, Found

\* The matcher stands at a match, and the next one is a match or none.
LEMMA StandingTyped ==
    ASSUME TypeInv, Running("gsub") \/ Running("rindex"), NEW next, next = FindNext(match)
    PROVE  /\ From(match) \in 0 .. Len(subject) /\ Found(pattern[From(match)])
           /\ To(match) \in 0 .. Len(subject)
           /\ next \in {NoMatch} \cup {pattern[i] : i \in 0 .. Len(subject)}
           /\ Found(next) => From(next) \in 0 .. Len(subject)
<1>1. IInv /\ Len(subject) \in Nat /\ PatternOK(subject, pattern)
    BY DEF TypeInv, FillInv, IInv, PatternOK
<1>2. Found(match) /\ From(match) \in 0 .. Len(subject) /\ match = pattern[From(match)]
    BY <1>1 DEF IInv, Standing
<1>3. To(match) \in From(match) .. Len(subject)
    <2>1. To(pattern[From(match)]) \in From(match) .. Len(subject)
        BY <1>1, <1>2 DEF PatternOK
    <2> QED BY <1>2, <2>1
<1>4. Found(next) => From(next) \in From(match) + 1 .. Len(subject) /\ next = pattern[From(next)]
    BY <1>1, StandingGoesOn
<1>5. ~Found(next) => next = NoMatch
    BY DEF Found
<1>6. Found(next) => From(next) \in 0 .. Len(subject)
    BY <1>1, <1>2, <1>4
<1>7. next \in {NoMatch} \cup {pattern[i] : i \in 0 .. Len(subject)}
    BY <1>4, <1>5, <1>6
<1>8. Found(pattern[From(match)])
    BY <1>2
<1> QED BY <1>1, <1>2, <1>3, <1>6, <1>7, <1>8

\* gsub goes on from the end of its match.
LEMMA GsubOnceTyped == ASSUME TypeInv, FillInv', GsubOnce PROVE Typed'
<1> DEFINE next == FindNext(match)
<1>1. Len(subject) \in Nat /\ Typed
    BY DEF TypeInv, FillInv, IInv, PatternOK
<1>2. /\ Running("gsub") /\ match' = next /\ start' = To(match)
      /\ visited' = visited \cup {From(match)} /\ answer' = answer
      /\ subject' = subject /\ pattern' = pattern /\ call' = call /\ pieces' = pieces
    BY DEF GsubOnce, Goes
<1>3. /\ From(match) \in 0 .. Len(subject) /\ Found(pattern[From(match)])
      /\ To(match) \in 0 .. Len(subject)
      /\ next \in {NoMatch} \cup {pattern[i] : i \in 0 .. Len(subject)}
    BY <1>2, StandingTyped
<1> HIDE DEF next
<1>4. out' \in Seq(Units)
    <2>1. call'.method = "gsub"
        BY <1>2 DEF Running
    <2> QED BY <2>1 DEF FillInv, Substituting
<1>5. visited' \subseteq {i \in 0 .. Len(subject) : Found(pattern[i])}
    BY <1>1, <1>2, <1>3 DEF Typed
<1>6. start' \in 0 .. Len(subject) + 1
    BY <1>1, <1>2, <1>3
<1> QED BY <1>1, <1>2, <1>3, <1>4, <1>5, <1>6 DEF Typed, Found

\* rindex goes on from the start of the next one.
LEMMA RindexOnceTyped == ASSUME TypeInv, RindexOnce PROVE Typed'
<1> DEFINE next == FindNext(match)
<1>1. Len(subject) \in Nat /\ Typed
    BY DEF TypeInv, FillInv, IInv, PatternOK
<1>2. /\ Running("rindex") /\ match' = next
      /\ (start' = From(next) /\ Found(next)) \/ start' = start
      /\ answer' \in {-1, start}
      /\ visited' = visited \cup {From(match)} /\ out' = out
      /\ subject' = subject /\ pattern' = pattern /\ pieces' = pieces
    BY DEF RindexOnce, Goes
<1>3. /\ From(match) \in 0 .. Len(subject) /\ Found(pattern[From(match)])
      /\ next \in {NoMatch} \cup {pattern[i] : i \in 0 .. Len(subject)}
      /\ Found(next) => From(next) \in 0 .. Len(subject)
    BY <1>2, StandingTyped
<1> HIDE DEF next
<1>4. start = From(match)
    BY <1>2 DEF TypeInv, FillInv, IInv, Seeking
<1>5. start' \in 0 .. Len(subject) + 1 /\ answer' \in -1 .. Len(subject)
    BY <1>1, <1>2, <1>3, <1>4
<1>6. visited' \subseteq {i \in 0 .. Len(subject) : Found(pattern[i])}
    BY <1>1, <1>2, <1>3 DEF Typed
<1> QED BY <1>1, <1>2, <1>3, <1>5, <1>6 DEF Typed, Found

\* A method that goes over the text in one step.
LEMMA AnswersTyped ==
    ASSUME TypeInv, NEW c, Answers(c),
           answer' \in -1 .. Len(subject), pieces' \in Seq(Seq(Units))
    PROVE  Typed'
<1>1. Len(subject) \in Nat /\ << >> \in Seq(Units)
    BY EmptySeq DEF TypeInv, FillInv, IInv, PatternOK
<1>2. /\ match' = NoMatch /\ start' = 0 /\ out' = << >> /\ visited' = {}
      /\ subject' = subject /\ pattern' = pattern
    BY DEF Answers, Calls
<1>3. 0 \in 0 .. Len(subject) + 1
    BY <1>1
<1> QED BY <1>1, <1>2, <1>3 DEF Typed

\* u_strFindFirst and u_strFindLast find a place inside the text, or none.
LEMMA HitsTyped ==
    ASSUME subject \in Seq(Units), NEW i \in Nat, NEW n \in Int, n <= Len(subject),
           NEW w \in Seq(Units), NEW hits, hits = HitsWithin(i, n, w)
    PROVE  hits \in SUBSET (0 .. Len(subject))
           /\ (hits # {} => Min(hits) \in hits /\ Max(hits) \in hits)
<1>1. Len(w) \in Nat /\ Len(subject) \in Nat
    OBVIOUS
<1>2. \A k \in hits : k \in i .. n - Len(w)
    BY DEF HitsWithin
<1>3. \A k \in i .. n - Len(w) : k \in 0 .. Len(subject)
    BY <1>1
<1>4. hits \in SUBSET (0 .. Len(subject)) /\ hits \in SUBSET Nat
    BY <1>2, <1>3
<1> QED BY <1>1, <1>4, LeastIsMin, GreatestIsMax

\* The last occurrence lies inside.
LEMMA RindexWordTyped ==
    ASSUME TypeInv, NEW pos \in Int, NEW w \in Words \cup {<< >>}, RindexWord(w, pos)
    PROVE  Typed'
<1> DEFINE last == LastStart(pos)
           limit == Min({last, Len(subject) - Len(w)})
           hits == HitsWithin(0, limit, w)
<1>1. subject \in Seq(Units) /\ Len(subject) \in Nat /\ w \in Seq(Units) /\ Len(w) \in Nat
    <2>1. w \in Seq(Units)
        BY TextsAssumption, EmptySeq
    <2> QED BY <2>1 DEF TypeInv, FillInv, IInv, PatternOK
<1>2. /\ Answers([method |-> "rindex_word", word |-> w, pos |-> pos])
      /\ answer' = IF last < 0 \/ Len(subject) < Len(w) THEN -1
                   ELSE IF w = << >> THEN 0 ELSE FindLast(limit, w)
      /\ pieces' = << >>
    BY DEF RindexWord
<1>3. last \in Int
    BY <1>1, LastStartClamps
<1> HIDE DEF last
<1>4. limit \in Int /\ limit <= Len(subject) /\ 0 \in Nat
    <2> DEFINE ends == {last, Len(subject) - Len(w)}
    <2>1. Len(subject) - Len(w) \in ends /\ ends \in SUBSET Int
        BY <1>1, <1>3
    <2>2. Len(subject) - Len(w) <= Len(subject)
        BY <1>1
    <2>3. CASE last <= Len(subject) - Len(w)
        <3>1. last \in ends /\ \A e \in ends : last <= e
            BY <1>1, <1>3, <2>3
        <3> HIDE DEF ends
        <3>2. Min(ends) = last
            BY <2>1, <3>1, SmallestIsMin
        <3> QED BY <1>1, <1>3, <2>2, <2>3, <3>2 DEF ends
    <2>4. CASE ~(last <= Len(subject) - Len(w))
        <3>1. \A e \in ends : Len(subject) - Len(w) <= e
            BY <1>1, <1>3, <2>4
        <3> HIDE DEF ends
        <3>2. Min(ends) = Len(subject) - Len(w)
            BY <2>1, <3>1, SmallestIsMin
        <3> QED BY <1>1, <2>2, <3>2 DEF ends
    <2> QED BY <2>3, <2>4
<1>5. FindLast(limit, w) = IF hits = {} THEN -1 ELSE Max(hits)
    BY DEF FindLast
<1> HIDE DEF limit
<1>6. hits \in SUBSET (0 .. Len(subject)) /\ (hits # {} => Max(hits) \in hits)
    BY <1>1, <1>4, HitsTyped
<1> HIDE DEF hits
<1>7. answer' \in -1 .. Len(subject)
    BY <1>1, <1>2, <1>5, <1>6
<1>8. pieces' \in Seq(Seq(Units))
    BY <1>2, EmptySeq
<1> QED BY <1>2, <1>7, <1>8, AnswersTyped

\* The first match lies inside.
LEMMA IndexTyped ==
    ASSUME TypeInv, NEW pos \in Int, Index(pos)
    PROVE  Typed'
<1> DEFINE i == FromEnd(pos)
           m == IF i \in 0 .. Len(subject) THEN FindFrom(i) ELSE NoMatch
<1>1. PatternOK(subject, pattern) /\ Len(subject) \in Nat
    BY DEF TypeInv, FillInv, IInv, PatternOK
<1>2. /\ Answers([method |-> "index", pos |-> pos])
      /\ answer' = IF Found(m) THEN From(m) ELSE -1
      /\ pieces' = << >>
    BY DEF Index
<1>3. ASSUME Found(m) PROVE From(m) \in 0 .. Len(subject)
    <2>1. i \in 0 .. Len(subject) /\ m = FindFrom(i)
        BY <1>3 DEF Found
    <2> HIDE DEF i, m
    <2>2. From(m) \in i .. Len(subject)
        BY <1>1, <1>3, <2>1, FoundIsMatch
    <2> QED BY <1>1, <2>1, <2>2
<1> HIDE DEF m
<1>4. answer' \in -1 .. Len(subject)
    BY <1>1, <1>2, <1>3
<1>5. pieces' \in Seq(Seq(Units))
    BY <1>2, EmptySeq
<1> QED BY <1>2, <1>4, <1>5, AnswersTyped

\* The first occurrence lies inside.
LEMMA IndexWordTyped ==
    ASSUME TypeInv, NEW pos \in Int, NEW w \in Words \cup {<< >>}, IndexWord(w, pos)
    PROVE  Typed'
<1> DEFINE i == FromEnd(FromEnd(pos))
           hits == HitsWithin(i, Len(subject), w)
<1>1. subject \in Seq(Units) /\ Len(subject) \in Nat /\ w \in Seq(Units) /\ Len(w) \in Nat
    <2>1. << >> \in Seq(Units) /\ \A x \in Words : x \in Seq(Units)
        BY TextsAssumption, EmptySeq
    <2>2. w \in Seq(Units)
        BY <2>1
    <2> QED BY <2>2 DEF TypeInv, FillInv, IInv, PatternOK
<1>2. /\ Answers([method |-> "index_word", word |-> w, pos |-> pos])
      /\ answer' = IF i < 0 \/ Len(subject) - i < Len(w) THEN -1
                   ELSE IF w = << >> THEN i ELSE FindFirst(i, w)
      /\ pieces' = << >>
    BY DEF IndexWord
<1>3. i \in Int
    BY <1>1 DEF FromEnd
<1>4. FindFirst(i, w) = IF hits = {} THEN -1 ELSE Min(hits)
    BY DEF FindFirst
<1> HIDE DEF i
<1>5. CASE i < 0 \/ Len(subject) - i < Len(w)
    <2>1. answer' \in -1 .. Len(subject)
        BY <1>1, <1>2, <1>5
    <2>2. pieces' \in Seq(Seq(Units))
        BY <1>2, EmptySeq
    <2> QED BY <1>2, <2>1, <2>2, AnswersTyped
<1>6. CASE ~(i < 0 \/ Len(subject) - i < Len(w))
    <2>1. i \in Nat /\ i <= Len(subject) /\ Len(subject) \in Int
          /\ Len(subject) <= Len(subject)
        BY <1>1, <1>3, <1>6
    <2>2. hits \in SUBSET (0 .. Len(subject)) /\ (hits # {} => Min(hits) \in hits)
        BY <1>1, <2>1, HitsTyped
    <2> HIDE DEF hits
    <2>3. FindFirst(i, w) \in -1 .. Len(subject) /\ i \in -1 .. Len(subject)
        <3>1. CASE hits = {}
            BY <1>1, <1>4, <2>1, <3>1
        <3>2. CASE hits # {}
            <4>1. Min(hits) \in 0 .. Len(subject)
                BY <2>2, <3>2
            <4> QED BY <1>1, <1>4, <2>1, <3>2, <4>1
        <3> QED BY <3>1, <3>2
    <2>4. answer' \in -1 .. Len(subject)
        BY <1>2, <1>6, <2>3
    <2>5. pieces' \in Seq(Seq(Units))
        BY <1>2, EmptySeq
    <2> QED BY <1>2, <2>4, <2>5, AnswersTyped
<1> QED BY <1>5, <1>6

\* The pieces are texts.
LEMMA SplitTyped ==
    ASSUME TypeInv, NEW limit \in Limits, Split(limit)
    PROVE  Typed'
<1>1. /\ Answers([method |-> "split", limit |-> limit]) /\ answer' = -1
      /\ pieces' = SplitInto(limit)
    BY DEF Split, SplitInto, TextsOf
<1>2. PatternOK(subject, pattern) /\ GroupsOK(subject, pattern) /\ limit \in Int
      /\ Len(subject) \in Nat
    BY LimitsAssumption DEF TypeInv, FillInv, IInv, PatternOK
<1>3. pieces' \in Seq(Seq(Units))
    BY <1>1, <1>2, SplitIntoTexts
<1>4. answer' \in -1 .. Len(subject)
    BY <1>1, <1>2
<1> QED BY <1>1, <1>3, <1>4, AnswersTyped

\* sub, gsub and rindex begin with a search from the start, rindex in front of the text
\* with none.
LEMMA BeginsTyped ==
    ASSUME TypeInv, NEW c, Calls(c), match' \in {NoMatch, FindFrom(0)},
           start' = 0 \/ (Found(match') /\ start' = From(match')),
           out' \in {<< >>, subject}, answer' = -1, pieces' = << >>
    PROVE  Typed'
<1>1. PatternOK(subject, pattern) /\ subject \in Seq(Units) /\ Len(subject) \in Nat
    BY DEF TypeInv, FillInv, IInv, PatternOK
<1>2. visited' = {} /\ subject' = subject /\ pattern' = pattern
    BY DEF Calls
<1> DEFINE m == FindFrom(0)
<1>3. IF Found(m) THEN From(m) \in 0 .. Len(subject) /\ m = pattern[From(m)] ELSE m = NoMatch
    BY <1>1, FoundIsMatch
<1> HIDE DEF m
<1>4. match' \in {NoMatch, m}
    BY DEF m
<1>5. /\ match' \in {NoMatch} \cup {pattern[i] : i \in 0 .. Len(subject)}
      /\ Found(match') => match' = m /\ From(m) \in 0 .. Len(subject)
    BY <1>3, <1>4 DEF Found
<1>6. start' \in 0 .. Len(subject) + 1
    BY <1>1, <1>5
<1>7. out' \in Seq(Units) /\ pieces' \in Seq(Seq(Units))
    BY <1>1, EmptySeq
<1>8. answer' \in -1 .. Len(subject)
    BY <1>1
<1> QED BY <1>2, <1>5, <1>6, <1>7, <1>8 DEF Typed

\* Every step keeps the types.
LEMMA NextTyped == ASSUME TypeInv, [Next]_vars PROVE TypeInv'
<1>1. FillInv'
    BY NextFills DEF TypeInv
<1>2. subject' = subject /\ pattern' = pattern
    BY DEF Next, vars, ScanBegin, GsubBegin, RindexBegin, RindexWord, Index, IndexWord,
           Split, Step, ScanOnce, ScanEnd, GsubOnce, RindexOnce, Forget, Answers, Calls, Goes
<1>3. Len(subject) \in Nat /\ Typed
    BY DEF TypeInv, FillInv, IInv, PatternOK
<1>4. Typed'
    <2>1. CASE UNCHANGED vars
        BY <1>3, <2>1 DEF vars, Typed, Found
    <2>2. CASE ScanBegin
        <3>1. /\ match' = NoMatch /\ start' = 0 /\ out' = << >> /\ answer' = -1
              /\ pieces' = << >> /\ visited' = {}
            BY <2>2 DEF ScanBegin, Calls
        <3>2. out' \in Seq(Units) /\ pieces' \in Seq(Seq(Units))
            BY <3>1, EmptySeq
        <3> QED BY <1>2, <1>3, <3>1, <3>2 DEF Typed
    <2>3. ASSUME NEW t \in Templates, NEW once \in BOOLEAN, GsubBegin(t, once) PROVE Typed'
        <3> DEFINE c == [method |-> "gsub", template |-> t, repl |-> Written(t), once |-> once]
        <3>1. /\ Calls(c) /\ match' \in {NoMatch, FindFrom(0)} /\ start' = 0
              /\ out' \in {<< >>, subject} /\ answer' = -1 /\ pieces' = << >>
            BY <2>3 DEF GsubBegin
        <3> HIDE DEF c
        <3> QED BY <3>1, BeginsTyped
    <2>4. ASSUME NEW pos, RindexBegin(pos) PROVE Typed'
        <3> DEFINE c == [method |-> "rindex", pos |-> pos]
               m == IF LastStart(pos) < 0 THEN NoMatch ELSE FindFrom(0)
        <3>1. /\ Calls(c) /\ match' = m /\ start' = (IF Found(m) THEN From(m) ELSE 0)
              /\ out' = << >> /\ answer' = -1 /\ pieces' = << >>
            BY <2>4 DEF RindexBegin
        <3>2. m \in {NoMatch, FindFrom(0)}
            OBVIOUS
        <3> HIDE DEF c, m
        <3>3. start' = 0 \/ (Found(match') /\ start' = From(match'))
            BY <3>1 DEF Found, From
        <3> QED BY <3>1, <3>2, <3>3, BeginsTyped
    <2>5. ASSUME NEW pos \in -(Len(subject) + 1) .. Len(subject) + 1,
                 NEW w \in Words \cup {<< >>}, RindexWord(w, pos)
          PROVE  Typed'
        <3>1. pos \in Int
            BY <1>3
        <3> QED BY <2>5, <3>1, RindexWordTyped
    <2>6. ASSUME NEW pos \in -(Len(subject) + 1) .. Len(subject) + 1, Index(pos) PROVE Typed'
        <3>1. pos \in Int
            BY <1>3
        <3> QED BY <2>6, <3>1, IndexTyped
    <2>7. ASSUME NEW pos \in -(Len(subject) + 1) .. Len(subject) + 1,
                 NEW w \in Words \cup {<< >>}, IndexWord(w, pos)
          PROVE  Typed'
        <3>1. pos \in Int
            BY <1>3
        <3> QED BY <2>7, <3>1, IndexWordTyped
    <2>8. ASSUME NEW limit \in Limits, Split(limit) PROVE Typed'
        BY <2>8, SplitTyped
    <2>9. CASE ScanOnce
        BY <2>9, ScanOnceTyped
    <2>10. CASE ScanEnd
        BY <1>2, <1>3, <2>10 DEF ScanEnd, Goes, Typed, Found
    <2>11. CASE GsubOnce
        BY <1>1, <2>11, GsubOnceTyped
    <2>12. CASE RindexOnce
        BY <2>12, RindexOnceTyped
    <2>13. CASE Forget
        <3>1. /\ match' = NoMatch /\ start' = 0 /\ out' = << >> /\ answer' = -1
              /\ pieces' = << >> /\ visited' = {}
            BY <2>13 DEF Forget
        <3>2. out' \in Seq(Units) /\ pieces' \in Seq(Seq(Units))
            BY <3>1, EmptySeq
        <3> QED BY <1>2, <1>3, <3>1, <3>2 DEF Typed
    <2> QED BY <2>1, <2>2, <2>3, <2>4, <2>5, <2>6, <2>7, <2>8, <2>9, <2>10, <2>11, <2>12, <2>13
            DEF Next, Step
<1>5. subject' \in Subjects
    BY <1>2 DEF TypeInv
<1> QED BY <1>1, <1>4, <1>5 DEF TypeInv

\* The variables keep their types: the matcher stands at a match of this text when a
\* loop goes on from it (ustr_gsub, icu_reg_search), and no index leaves the text.
THEOREM AlwaysTyped == Spec => []TypeOK
BY InitTyped, NextTyped, TypeInvIsTypeOK, PTL DEF Spec
=============================================================================
