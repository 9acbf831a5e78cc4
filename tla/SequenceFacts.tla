----------------------------- MODULE SequenceFacts -----------------------------
(***************************************************************************)
(* Facts the other proofs rest on.  Induction over the natural numbers is  *)
(* stated with a set in the place of a predicate; with it a function       *)
(* defined by recursion is shown to exist, and so what FlattenSeq makes of *)
(* a sequence of sequences.                                                *)
(***************************************************************************)
EXTENDS Integers, SequencesExt, SequenceTheorems, WellFoundedInduction, TLAPS

\* Every nonempty set of numbers has a least one.
LEMMA LeastMember ==
    ASSUME NEW D \in SUBSET Nat, D # {}
    PROVE  \E d \in D : \A e \in D : d <= e
<1>1. \E d \in D : \A e \in D : <<e, d>> \notin OpToRel(<, Nat)
    BY NatLessThanWellFounded, WFMin, Zenon
<1>2. PICK d \in D : \A e \in D : <<e, d>> \notin OpToRel(<, Nat)
    BY <1>1
<1>3. ASSUME NEW e \in D PROVE d <= e
    <2>1. d \in Nat /\ e \in Nat
        OBVIOUS
    <2>2. <<e, d>> \in Nat \X Nat /\ <<e, d>>[1] = e /\ <<e, d>>[2] = d
        BY <2>1
    <2>3. ~(e < d)
        BY <1>2, <2>2 DEF OpToRel
    <2> QED BY <2>1, <2>3
<1> QED BY <1>3

\* Induction: P is the set of numbers that have the property.
LEMMA InductionOver ==
    ASSUME NEW P, 0 \in P, \A n \in Nat : n \in P => n + 1 \in P
    PROVE  Nat \subseteq P
<1> DEFINE D == Nat \ P
<1>1. SUFFICES ASSUME D # {} PROVE FALSE
    OBVIOUS
<1>2. PICK d \in D : \A e \in D : d <= e
    BY <1>1, LeastMember
<1>3. d # 0 /\ d \in Nat
    OBVIOUS
<1>4. d - 1 \in Nat /\ d - 1 \notin D
    BY <1>2, <1>3
<1>5. (d - 1) + 1 \in P
    BY <1>4
<1> QED BY <1>3, <1>5

\* A function defined by recursion: step[i] makes its value at i of the one before.
LEMMA IterationExists ==
    ASSUME NEW A, NEW a \in A, NEW n \in Nat, NEW step \in [1 .. n -> [A -> A]]
    PROVE  \E f \in [0 .. n -> A] : f[0] = a /\ \A i \in 1 .. n : f[i] = step[i][f[i - 1]]
<1> DEFINE Goes(f, k) == f[0] = a /\ \A i \in 1 .. k : f[i] = step[i][f[i - 1]]
           P == {k \in Nat : k <= n => \E f \in [0 .. k -> A] : Goes(f, k)}
<1>1. 0 \in P
    <2> DEFINE f == [i \in 0 .. 0 |-> a]
    <2>1. f \in [0 .. 0 -> A] /\ Goes(f, 0)
        OBVIOUS
    <2> QED BY <2>1
<1>2. ASSUME NEW k \in Nat, k \in P PROVE k + 1 \in P
    <2> SUFFICES ASSUME k + 1 <= n PROVE \E f \in [0 .. k + 1 -> A] : Goes(f, k + 1)
        OBVIOUS
    <2>1. PICK f \in [0 .. k -> A] : Goes(f, k)
        BY <1>2
    <2> DEFINE g == [i \in 0 .. k + 1 |-> IF i = k + 1 THEN step[k + 1][f[k]] ELSE f[i]]
    <2>2. step[k + 1][f[k]] \in A
        <3>1. k + 1 \in 1 .. n /\ k \in 0 .. k
            OBVIOUS
        <3> QED BY <3>1
    <2>3. g \in [0 .. k + 1 -> A]
        BY <2>2
    <2>4. g[0] = a
        BY <2>1
    <2>5. ASSUME NEW i \in 1 .. k + 1 PROVE g[i] = step[i][g[i - 1]]
        <3>1. CASE i = k + 1
            BY <3>1
        <3>2. CASE i \in 1 .. k
            BY <2>1, <3>2
        <3> QED BY <3>1, <3>2
    <2> HIDE DEF g
    <2> QED BY <2>3, <2>4, <2>5
<1> HIDE DEF P
<1>3. n \in P
    BY <1>1, <1>2, InductionOver
<1> QED BY <1>3 DEF P

\* Induction from n down to 0.
LEMMA InductionDown ==
    ASSUME NEW n \in Nat, NEW Q, n \in Q,
           \A i \in 0 .. n - 1 : (\A j \in i + 1 .. n : j \in Q) => i \in Q
    PROVE  0 .. n \subseteq Q
<1> DEFINE P == {k \in Nat : k <= n => \A j \in n - k .. n : j \in Q}
<1>1. 0 \in P
    OBVIOUS
<1>2. ASSUME NEW k \in Nat, k \in P PROVE k + 1 \in P
    <2> SUFFICES ASSUME k + 1 <= n, NEW j \in n - (k + 1) .. n PROVE j \in Q
        OBVIOUS
    <2>1. \A l \in n - k .. n : l \in Q
        BY <1>2
    <2>2. CASE j = n - (k + 1)
        <3>1. j \in 0 .. n - 1 /\ j + 1 = n - k
            BY <2>2
        <3> QED BY <2>1, <3>1
    <2>3. CASE j \in n - k .. n
        BY <2>1, <2>3
    <2> QED BY <2>2, <2>3
<1> HIDE DEF P
<1>3. n \in P
    BY <1>1, <1>2, InductionOver
<1>4. \A j \in n - n .. n : j \in Q
    BY <1>3 DEF P
<1> QED BY <1>4

\* A function defined by recursion from n down: step[i] makes its value at i of the one
\* at next[i], which is above i.
Above(next, n) == next \in [0 .. n - 1 -> 1 .. n] /\ \A i \in 0 .. n - 1 : next[i] > i

CountsDown(f, a, n, next, step) ==
    f[n] = a /\ \A i \in 0 .. n - 1 : f[i] = step[i][f[next[i]]]

LEMMA CountdownExists ==
    ASSUME NEW A, NEW a \in A, NEW n \in Nat, NEW next, Above(next, n),
           NEW step \in [0 .. n - 1 -> [A -> A]]
    PROVE  \E f \in [0 .. n -> A] : CountsDown(f, a, n, next, step)
<1> USE DEF Above
<1> DEFINE Goes(f, k) == f[n] = a /\ \A i \in k .. n - 1 : f[i] = step[i][f[next[i]]]
           P == {k \in Nat : k <= n => \E f \in [n - k .. n -> A] : Goes(f, n - k)}
<1>1. 0 \in P
    <2> DEFINE f == [i \in n - 0 .. n |-> a]
    <2>1. f \in [n - 0 .. n -> A] /\ Goes(f, n - 0)
        OBVIOUS
    <2> QED BY <2>1
<1>2. ASSUME NEW k \in Nat, k \in P PROVE k + 1 \in P
    <2> HIDE DEF Goes
    <2> SUFFICES ASSUME k + 1 <= n
        PROVE  \E f \in [n - (k + 1) .. n -> A] : Goes(f, n - (k + 1))
        OBVIOUS
    <2> USE DEF Goes
    <2>1. PICK f \in [n - k .. n -> A] : Goes(f, n - k)
        BY <1>2, SMTT(40)
    <2> DEFINE m == n - (k + 1)
               g == [i \in m .. n |-> IF i = m THEN step[m][f[next[m]]] ELSE f[i]]
    <2>2. m \in 0 .. n - 1 /\ m + 1 = n - k /\ next[m] \in n - k .. n
        OBVIOUS
    <2>3. step[m][f[next[m]]] \in A
        <3>1. f[next[m]] \in A /\ step[m] \in [A -> A]
            BY <2>1, <2>2
        <3> QED BY <3>1
    <2> HIDE DEF m
    <2>4. g \in [m .. n -> A]
        <3> SUFFICES ASSUME NEW i \in m .. n
            PROVE  (IF i = m THEN step[m][f[next[m]]] ELSE f[i]) \in A
            OBVIOUS
        <3>1. i # m => i \in n - k .. n
            BY <2>2
        <3> QED BY <2>1, <2>3, <3>1
    <2>5. g[n] = a /\ \A i \in n - k .. n : g[i] = f[i]
        BY <2>1, <2>2
    <2>6. g[m] = step[m][f[next[m]]]
        BY <2>2
    <2> HIDE DEF g
    <2>7. ASSUME NEW i \in m .. n - 1 PROVE g[i] = step[i][g[next[i]]]
        <3>1. CASE i = m
            BY <2>2, <2>5, <2>6, <3>1
        <3>2. CASE i \in n - k .. n - 1
            <4>1. i \in 0 .. n - 1 /\ i \in n - k .. n
                BY <2>2, <3>2
            <4>2. next[i] \in n - k .. n
                BY <2>2, <3>2, <4>1
            <4>3. f[i] = step[i][f[next[i]]]
                BY <2>1, <3>2
            <4> QED BY <2>5, <4>1, <4>2, <4>3
        <3>3. i = m \/ i \in n - k .. n - 1
            BY <2>2
        <3> QED BY <3>1, <3>2, <3>3
    <2> QED BY <2>4, <2>5, <2>7 DEF m
<1> HIDE DEF P
<1>3. n \in P
    BY <1>1, <1>2, InductionOver
<1>4. n <= n /\ n - n = 0
    OBVIOUS
<1> QED BY <1>3, <1>4 DEF P, CountsDown

-----------------------------------------------------------------------------
\* f is what FlattenSeq puts together of the first n sequences of ss, for each n.
Flattens(f, ss) == f = [i \in 1 .. Len(ss) |-> IF i = 1 THEN ss[i] ELSE f[i - 1] \o ss[i]]

\* One sequence more can be put behind.
LEMMA FlattensExtends ==
    ASSUME NEW S, NEW ss \in Seq(Seq(S)), Len(ss) > 0,
           NEW f \in [1 .. Len(ss) -> Seq(S)], Flattens(f, ss), NEW x \in Seq(S)
    PROVE  \E g \in [1 .. Len(ss) + 1 -> Seq(S)] :
                Flattens(g, Append(ss, x)) /\ g[Len(ss) + 1] = f[Len(ss)] \o x
<1> DEFINE tt == Append(ss, x)
           n == Len(ss)
           g == [i \in 1 .. n + 1 |-> IF i = n + 1 THEN f[n] \o x ELSE f[i]]
<1>1. /\ n \in Nat /\ n > 0 /\ Len(tt) = n + 1 /\ tt[n + 1] = x
      /\ \A i \in 1 .. n : tt[i] = ss[i]
    OBVIOUS
<1>2. f[n] \in Seq(S)
    <2>1. n \in 1 .. n
        BY <1>1
    <2> QED BY <2>1
<1>3. ASSUME NEW i \in 1 .. n + 1
      PROVE  g[i] = IF i = 1 THEN tt[i] ELSE g[i - 1] \o tt[i]
    <2>1. CASE i = n + 1
        <3>1. i # 1 /\ i - 1 = n /\ i - 1 \in 1 .. n + 1 /\ i - 1 # n + 1
            BY <2>1
        <3> HIDE DEF tt
        <3> QED BY <1>1, <2>1, <3>1
    <2>2. CASE i \in 1 .. n
        <3>1. f[i] = IF i = 1 THEN ss[i] ELSE f[i - 1] \o ss[i]
            BY <2>2 DEF Flattens
        <3>2. g[i] = f[i]
            BY <2>2
        <3>3. i # 1 => g[i - 1] = f[i - 1]
            BY <2>2
        <3> HIDE DEF tt
        <3> QED BY <1>1, <2>2, <3>1, <3>2, <3>3
    <2> QED BY <2>1, <2>2
<1>4. g \in [1 .. n + 1 -> Seq(S)]
    BY <1>2
<1>6. g[n + 1] = f[n] \o x
    BY <1>1
<1> HIDE DEF tt, g
<1>5. g = [i \in 1 .. Len(tt) |-> IF i = 1 THEN tt[i] ELSE g[i - 1] \o tt[i]]
    <2>1. g = [i \in 1 .. n + 1 |-> g[i]]
        BY <1>4
    <2> QED BY <1>1, <1>3, <2>1
<1>7. Flattens(g, Append(ss, x))
    BY <1>5, Zenon DEF Flattens, tt
<1> QED BY <1>4, <1>6, <1>7

\* There is such a function.
LEMMA FlattensExists ==
    ASSUME NEW S, NEW ss \in Seq(Seq(S)), Len(ss) > 0
    PROVE  \E f \in [1 .. Len(ss) -> Seq(S)] : Flattens(f, ss)
<1> DEFINE Has(n) == \A tt \in Seq(Seq(S)) : Len(tt) = n + 1 =>
                        \E f \in [1 .. n + 1 -> Seq(S)] : Flattens(f, tt)
           P == {n \in Nat : Has(n)}
<1>1. 0 \in P
    <2> SUFFICES ASSUME NEW tt \in Seq(Seq(S)), Len(tt) = 1
        PROVE  \E f \in [1 .. 1 -> Seq(S)] : Flattens(f, tt)
        OBVIOUS
    <2> DEFINE f == [i \in 1 .. 1 |-> tt[1]]
    <2>1. tt[1] \in Seq(S)
        <3>1. 1 \in 1 .. Len(tt)
            OBVIOUS
        <3> QED BY <3>1, ElementOfSeq, Zenon
    <2>2. f \in [1 .. 1 -> Seq(S)]
        BY <2>1
    <2>3. Flattens(f, tt)
        BY DEF Flattens
    <2> QED BY <2>2, <2>3
<1>2. ASSUME NEW n \in Nat, n \in P PROVE n + 1 \in P
    <2> SUFFICES ASSUME NEW tt \in Seq(Seq(S)), Len(tt) = (n + 1) + 1
        PROVE  \E f \in [1 .. (n + 1) + 1 -> Seq(S)] : Flattens(f, tt)
        OBVIOUS
    <2> DEFINE uu == SubSeq(tt, 1, n + 1)
               x == tt[n + 2]
    <2>1. uu \in Seq(Seq(S)) /\ Len(uu) = n + 1 /\ x \in Seq(S)
        OBVIOUS
    <2>2. tt = Append(uu, x)
        <3>1. Append(uu, x) \in Seq(Seq(S)) /\ Len(Append(uu, x)) = n + 2
            BY <2>1, AppendProperties
        <3>2. \A i \in 1 .. n + 1 : Append(uu, x)[i] = uu[i] /\ uu[i] = tt[i]
            BY <2>1, AppendProperties
        <3>3. Append(uu, x)[n + 2] = tt[n + 2]
            BY <2>1
        <3>4. \A i \in 1 .. n + 2 : i \in 1 .. n + 1 \/ i = n + 2
            OBVIOUS
        <3> HIDE DEF uu, x
        <3>5. Len(tt) = Len(Append(uu, x)) /\ \A i \in 1 .. Len(tt) : tt[i] = Append(uu, x)[i]
            BY <3>1, <3>2, <3>3, <3>4, SMTT(40)
        <3> QED BY <3>1, <3>5, SeqEqual
    <2>3. PICK f \in [1 .. n + 1 -> Seq(S)] : Flattens(f, uu)
        BY <1>2, <2>1
    <2> HIDE DEF uu, x
    <2>4. \E g \in [1 .. Len(uu) + 1 -> Seq(S)] : Flattens(g, Append(uu, x))
        <3>1. Len(uu) > 0 /\ f \in [1 .. Len(uu) -> Seq(S)]
            BY <2>1
        <3> QED BY <2>1, <2>3, <3>1, FlattensExtends
    <2> QED BY <2>1, <2>2, <2>4
<1> HIDE DEF P
<1>3. Len(ss) - 1 \in P
    BY <1>1, <1>2, InductionOver
<1>4. (Len(ss) - 1) + 1 = Len(ss)
    OBVIOUS
<1> QED BY <1>3, <1>4 DEF P

\* There is only one.
LEMMA FlattensIsUnique ==
    ASSUME NEW ss, Len(ss) \in Nat, NEW f, NEW g, Flattens(f, ss), Flattens(g, ss)
    PROVE  f = g
<1> DEFINE n == Len(ss)
           P == {k \in Nat : k + 1 \in 1 .. n => f[k + 1] = g[k + 1]}
<1>1. \A i \in 1 .. n : /\ f[i] = IF i = 1 THEN ss[i] ELSE f[i - 1] \o ss[i]
                        /\ g[i] = IF i = 1 THEN ss[i] ELSE g[i - 1] \o ss[i]
    BY DEF Flattens
<1>2. 0 \in P
    BY <1>1
<1>3. ASSUME NEW k \in Nat, k \in P PROVE k + 1 \in P
    <2> SUFFICES ASSUME (k + 1) + 1 \in 1 .. n PROVE f[(k + 1) + 1] = g[(k + 1) + 1]
        OBVIOUS
    <2>1. (k + 1) + 1 # 1 /\ ((k + 1) + 1) - 1 = k + 1 /\ k + 1 \in 1 .. n
        OBVIOUS
    <2> QED BY <1>1, <1>3, <2>1
<1> HIDE DEF P
<1>4. Nat \subseteq P
    BY <1>2, <1>3, InductionOver
<1>5. ASSUME NEW i \in 1 .. n PROVE f[i] = g[i]
    <2>1. i - 1 \in P /\ (i - 1) + 1 = i
        BY <1>4
    <2> QED BY <2>1 DEF P
<1>6. f = [i \in 1 .. n |-> f[i]] /\ g = [i \in 1 .. n |-> g[i]]
    BY Zenon DEF Flattens
<1> QED BY <1>5, <1>6

\* FlattenSeq is its last value.
LEMMA FlattenIs ==
    ASSUME NEW ss, Len(ss) \in Nat \ {0}, NEW f, Flattens(f, ss)
    PROVE  FlattenSeq(ss) = f[Len(ss)]
<1> DEFINE g == CHOOSE h : h = [i \in 1 .. Len(ss) |-> IF i = 1 THEN ss[i] ELSE h[i - 1] \o ss[i]]
<1>1. g = [i \in 1 .. Len(ss) |-> IF i = 1 THEN ss[i] ELSE g[i - 1] \o ss[i]]
    BY DEF Flattens
<1>2. FlattenSeq(ss) = g[Len(ss)]
    BY DEF FlattenSeq
<1> HIDE DEF g
<1>3. Flattens(g, ss)
    BY <1>1, Zenon DEF Flattens
<1>4. g = f
    BY <1>3, FlattensIsUnique
<1> QED BY <1>2, <1>4

\* Of no sequences.
LEMMA FlattenEmpty == FlattenSeq(<< >>) = << >>
BY DEF FlattenSeq

\* Of sequences of S it makes a sequence of S.
LEMMA FlattenType ==
    ASSUME NEW S, NEW ss \in Seq(Seq(S))
    PROVE  FlattenSeq(ss) \in Seq(S)
<1>1. CASE Len(ss) = 0
    <2>1. ss = << >> /\ << >> \in Seq(S)
        BY <1>1, EmptySeq
    <2> QED BY <2>1, FlattenEmpty
<1>2. CASE Len(ss) > 0
    <2>1. PICK f \in [1 .. Len(ss) -> Seq(S)] : Flattens(f, ss)
        BY <1>2, FlattensExists
    <2>2. FlattenSeq(ss) = f[Len(ss)]
        BY <1>2, <2>1, FlattenIs
    <2>3. Len(ss) \in 1 .. Len(ss)
        BY <1>2
    <2> QED BY <2>2, <2>3
<1> QED BY <1>1, <1>2

\* Of one sequence more.
LEMMA FlattenAppend ==
    ASSUME NEW S, NEW ss \in Seq(Seq(S)), NEW x \in Seq(S)
    PROVE  FlattenSeq(Append(ss, x)) = FlattenSeq(ss) \o x
<1> DEFINE tt == Append(ss, x)
<1>1. tt \in Seq(Seq(S)) /\ Len(tt) = Len(ss) + 1 /\ Len(ss) \in Nat
    BY AppendProperties
<1>2. CASE Len(ss) = 0
    <2>1. ss = << >> /\ FlattenSeq(ss) = << >> /\ Len(tt) = 1 /\ tt[1] = x
        BY <1>2, FlattenEmpty
    <2>2. PICK f \in [1 .. Len(tt) -> Seq(S)] : Flattens(f, tt)
        <3> HIDE DEF tt
        <3>1. Len(tt) > 0
            BY <2>1
        <3> QED BY <1>1, <3>1, FlattensExists
    <2>3. FlattenSeq(tt) = f[1] /\ f[1] = x
        <3> HIDE DEF tt
        <3>1. FlattenSeq(tt) = f[Len(tt)]
            BY <1>1, <2>1, <2>2, FlattenIs, SMTT(40)
        <3>2. f[1] = tt[1]
            BY <2>1, <2>2 DEF Flattens
        <3> QED BY <2>1, <3>1, <3>2
    <2> QED BY <2>1, <2>3
<1>3. CASE Len(ss) > 0
    <2> DEFINE n == Len(ss)
    <2>1. PICK f \in [1 .. n -> Seq(S)] : Flattens(f, ss)
        BY <1>3, FlattensExists
    <2>2. PICK g \in [1 .. n + 1 -> Seq(S)] : Flattens(g, tt) /\ g[n + 1] = f[n] \o x
        BY <1>3, <2>1, FlattensExtends
    <2> HIDE DEF tt
    <2>4. FlattenSeq(tt) = g[n + 1]
        <3>1. Len(tt) \in Nat \ {0} /\ Len(tt) = n + 1
            BY <1>1
        <3> QED BY <2>2, <3>1, FlattenIs
    <2>5. FlattenSeq(ss) = f[n]
        BY <1>1, <1>3, <2>1, FlattenIs
    <2> QED BY <2>2, <2>4, <2>5 DEF tt
<1> QED BY <1>1, <1>2, <1>3

\* Of two runs of sequences; T stands for Seq(S), which the provers do not see through.
LEMMA FlattenConcatIn ==
    ASSUME NEW S, NEW T, T = Seq(S), NEW ss \in Seq(T), NEW tt \in Seq(T)
    PROVE  FlattenSeq(ss \o tt) = FlattenSeq(ss) \o FlattenSeq(tt)
<1> DEFINE Holds(n) == \A uu \in Seq(T) : Len(uu) = n =>
                        FlattenSeq(ss \o uu) = FlattenSeq(ss) \o FlattenSeq(uu)
           P == {n \in Nat : Holds(n)}
<1>0. \A a, b, c \in Seq(S) : (a \o b) \o c = a \o (b \o c)
    BY ConcatAssociative, SMTT(40)
<1>1. 0 \in P
    <2> SUFFICES ASSUME NEW uu \in Seq(T), Len(uu) = 0
        PROVE  FlattenSeq(ss \o uu) = FlattenSeq(ss) \o FlattenSeq(uu)
        OBVIOUS
    <2>1. uu = << >> /\ ss \o << >> = ss
        BY EmptySeq, ConcatEmptySeq
    <2>2. FlattenSeq(ss) \in Seq(S)
        BY FlattenType
    <2>3. FlattenSeq(ss) \o << >> = FlattenSeq(ss)
        BY <2>2, ConcatEmptySeq
    <2> QED BY <2>1, <2>3, FlattenEmpty
<1>2. ASSUME NEW n \in Nat, n \in P PROVE n + 1 \in P
    <2> SUFFICES ASSUME NEW uu \in Seq(T), Len(uu) = n + 1
        PROVE  FlattenSeq(ss \o uu) = FlattenSeq(ss) \o FlattenSeq(uu)
        OBVIOUS
    <2>1. PICK vv \in Seq(T), x \in T : uu = Append(vv, x)
        <3>1. uu # << >>
            OBVIOUS
        <3> QED BY <3>1, SequenceEmptyOrAppend
    <2>2. Len(vv) = n
        BY <2>1, AppendProperties
    <2>3. ss \o vv \in Seq(T) /\ ss \o uu = Append(ss \o vv, x)
        <3>1. <<x>> \in Seq(T) /\ ss \o vv \in Seq(T)
            BY ConcatProperties
        <3>2. uu = vv \o <<x>> /\ Append(ss \o vv, x) = (ss \o vv) \o <<x>>
            BY <2>1, <3>1, AppendIsConcat
        <3>3. ss \o (vv \o <<x>>) = (ss \o vv) \o <<x>>
            BY <3>1, ConcatAssociative
        <3> QED BY <3>1, <3>2, <3>3
    <2>4. FlattenSeq(ss \o vv) = FlattenSeq(ss) \o FlattenSeq(vv)
        BY <1>2, <2>2
    <2>5. /\ FlattenSeq(ss \o uu) = (FlattenSeq(ss) \o FlattenSeq(vv)) \o x
          /\ FlattenSeq(uu) = FlattenSeq(vv) \o x
        BY <2>1, <2>3, <2>4, FlattenAppend
    <2>6. FlattenSeq(ss) \in Seq(S) /\ FlattenSeq(vv) \in Seq(S)
        BY FlattenType
    <2>7. (FlattenSeq(ss) \o FlattenSeq(vv)) \o x = FlattenSeq(ss) \o (FlattenSeq(vv) \o x)
        <3> DEFINE a == FlattenSeq(ss)
                   b == FlattenSeq(vv)
        <3>1. a \in Seq(S) /\ b \in Seq(S) /\ x \in Seq(S)
            BY <2>6
        <3> HIDE DEF a, b
        <3>2. (a \o b) \o x = a \o (b \o x)
            BY <1>0, <3>1, Zenon
        <3> QED BY <3>2 DEF a, b
    <2> QED BY <2>5, <2>7
<1> HIDE DEF P
<1>3. Nat \subseteq P
    BY <1>1, <1>2, InductionOver, Zenon
<1>4. Len(tt) \in Nat
    OBVIOUS
<1> QED BY <1>3, <1>4 DEF P

\* Of two runs of sequences.
LEMMA FlattenConcat ==
    ASSUME NEW S, NEW ss \in Seq(Seq(S)), NEW tt \in Seq(Seq(S))
    PROVE  FlattenSeq(ss \o tt) = FlattenSeq(ss) \o FlattenSeq(tt)
BY FlattenConcatIn

\* Of one sequence.
LEMMA FlattenOne == ASSUME NEW S, NEW x \in Seq(S) PROVE FlattenSeq(<<x>>) = x
<1>1. << >> \in Seq(Seq(S)) /\ Append(<< >>, x) = <<x>> /\ << >> \o x = x
    BY EmptySeq, ConcatEmptySeq
<1> QED BY <1>1, FlattenAppend, FlattenEmpty

\* One sequence more.
LEMMA FlattenMore ==
    ASSUME NEW S, NEW n \in Nat, NEW f, \A i \in 1 .. n + 1 : f[i] \in Seq(S)
    PROVE  /\ [i \in 1 .. n |-> f[i]] \in Seq(Seq(S))
           /\ FlattenSeq([i \in 1 .. n + 1 |-> f[i]]) =
                    FlattenSeq([i \in 1 .. n |-> f[i]]) \o f[n + 1]
<1> DEFINE ss == [i \in 1 .. n |-> f[i]]
           tt == [i \in 1 .. n + 1 |-> f[i]]
<1>1. ss \in Seq(Seq(S)) /\ tt \in Seq(Seq(S)) /\ Len(ss) = n /\ Len(tt) = n + 1
    OBVIOUS
<1>2. tt = Append(ss, f[n + 1])
    <2>1. f[n + 1] \in Seq(S)
        OBVIOUS
    <2>2. \A i \in 1 .. n : ss[i] = f[i]
        OBVIOUS
    <2>3. \A i \in 1 .. n + 1 : tt[i] = f[i]
        OBVIOUS
    <2> HIDE DEF ss, tt
    <2> DEFINE uu == Append(ss, f[n + 1])
    <2>4. uu \in Seq(Seq(S)) /\ Len(uu) = n + 1
        BY <1>1, <2>1, AppendProperties
    <2>5. \A i \in 1 .. n : uu[i] = ss[i]
        BY <1>1, <2>1, AppendProperties
    <2>6. uu[n + 1] = f[n + 1]
        BY <1>1, <2>1, AppendProperties
    <2> HIDE DEF uu
    <2>7. \A i \in 1 .. n + 1 : tt[i] = uu[i]
        <3>1. \A i \in 1 .. n + 1 : i \in 1 .. n \/ i = n + 1
            OBVIOUS
        <3> QED BY <2>2, <2>3, <2>5, <2>6, <3>1
    <2>8. tt = uu
        BY <1>1, <2>4, <2>7, SeqEqual
    <2> QED BY <2>8 DEF uu
<1> HIDE DEF ss, tt
<1>3. f[n + 1] \in Seq(S)
    OBVIOUS
<1>4. FlattenSeq(tt) = FlattenSeq(ss) \o f[n + 1]
    BY <1>1, <1>2, <1>3, FlattenAppend
<1> QED BY <1>1, <1>4 DEF ss, tt
=============================================================================
