-------------------------- MODULE UStringBufferProofs --------------------------
(***************************************************************************)
(* Proofs about UStringBuffer for any strings, units, START_BUF_LEN and    *)
(* slack: the block always holds its text, capa describes it unless a case *)
(* mapping came in between, and without surrogate pairs every method does  *)
(* to the texts what UStringValue promises.                                *)
(***************************************************************************)
EXTENDS UStringBuffer, SequenceFacts, TLAPS

-----------------------------------------------------------------------------
\* What the two index macros can return.
LEMMA BoundaryBounds ==
    ASSUME NEW p, NEW i \in Nat, NEW n \in Nat
    PROVE  /\ SetCpStart(p, i) \in Nat
           /\ SetCpStart(p, i) <= i
           /\ SetCpLimit(p, i, n) \in Nat
           /\ SetCpLimit(p, i, n) <= i + 1
           /\ i <= n => SetCpLimit(p, i, n) <= n
           /\ i = 0 => SetCpLimit(p, i, n) = 0
BY DEF SetCpStart, SetCpLimit

\* Without lead surrogates they return what they are given.
LEMMA BoundaryIdentity ==
    ASSUME Leads = {}, NEW p, NEW i \in Nat, NEW n \in Nat
    PROVE  SetCpStart(p, i) = i /\ SetCpLimit(p, i, n) = i
BY DEF SetCpStart, SetCpLimit

\* The units of an object, and slices up to the sentinel, are a sequence.
LEMMA SliceType ==
    ASSUME NEW o, IsObject(o), NEW beg \in Nat, NEW len \in Nat, beg + len <= o.len + 1
    PROVE  Slice(o, beg, len) \in Seq(Cells) /\ Len(Slice(o, beg, len)) = len
<1>1. \A i \in 1 .. len : o.cells[beg + i - 1] \in Cells
  BY SMTT(40) DEF IsObject
<1>2. Slice(o, beg, len) \in [1 .. len -> Cells]
  BY <1>1 DEF Slice
<1> QED BY <1>2

\* A text has the length the object says.
LEMMA TextType ==
    ASSUME NEW o, IsObject(o)
    PROVE  Text(o) \in Seq(Cells) /\ Len(Text(o)) = o.len
<1>1. \A i \in 1 .. o.len : o.cells[i - 1] \in Cells
  BY DEF IsObject
<1>2. Text(o) \in [1 .. o.len -> Cells] /\ o.len \in Nat
  BY <1>1 DEF Text, IsObject
<1> QED BY <1>2

-----------------------------------------------------------------------------
\* A block the caller has filled holds the text it was filled with.
LEMMA WrapSetObject ==
    ASSUME NEW x \in Seq(Cells), NEW capa \in Nat, Len(x) < capa
    PROVE  /\ IsObject(WrapSet(x, capa))
           /\ Roomy(WrapSet(x, capa))
           /\ WrapSet(x, capa).len = Len(x)
           /\ Text(WrapSet(x, capa)) = x
<1> DEFINE o == WrapSet(x, capa)
<1>1. o.len = Len(x) /\ o.capa = capa /\ o.alloc = capa /\ Len(x) \in Nat
  BY DEF WrapSet
<1>2. o.cells = [i \in 0 .. capa - 1 |->
                   IF i < Len(x) THEN x[i + 1] ELSE IF i = Len(x) THEN Nul ELSE Junk]
  BY DEF WrapSet
<1>3. Nul \in Cells /\ Junk \in Cells
  BY UnitsAssumption DEF Cells
<1>4. \A i \in 0 .. capa - 1 : i < Len(x) => x[i + 1] \in Cells
  OBVIOUS
<1>5. o.cells \in [0 .. capa - 1 -> Cells]
  BY <1>2, <1>3, <1>4
<1>6. o.cells[Len(x)] = Nul
  BY <1>1, <1>2
<1>7. o = [len |-> o.len, capa |-> o.capa, alloc |-> o.alloc, cells |-> o.cells]
  BY DEF WrapSet
<1>8. Text(o) = [i \in 1 .. Len(x) |-> x[i]]
  <2> HIDE DEF o
  <2>1. \A i \in 1 .. Len(x) : o.cells[i - 1] = x[i]
    BY <1>1, <1>2
  <2> QED BY <2>1, <1>1 DEF Text
<1>9. x = [i \in 1 .. Len(x) |-> x[i]]
  OBVIOUS
<1> QED
  <2> HIDE DEF o
  <2>1. IsObject(o) /\ Roomy(o)
    BY <1>1, <1>5, <1>6, <1>7 DEF IsObject, Roomy
  <2> QED BY <2>1, <1>1, <1>8, <1>9 DEF o

\* And so does one that the allocator has filled.
LEMMA WrapObject ==
    ASSUME NEW x \in Seq(Cells), NEW capa \in Nat
    PROVE  /\ IsObject(Wrap(x, capa))
           /\ Roomy(Wrap(x, capa))
           /\ Wrap(x, capa).len = Len(x)
           /\ Text(Wrap(x, capa)) = x
<1> DEFINE room == IF AtLeast(capa, StartLen) <= Len(x) THEN Len(x) + 1
                                                        ELSE AtLeast(capa, StartLen)
<1>1. room \in Nat /\ Len(x) < room
  BY BlockAssumption DEF AtLeast
<1>2. Wrap(x, capa) = WrapSet(x, room)
  BY DEF Wrap
<1> HIDE DEF room
<1> QED BY <1>1, <1>2, WrapSetObject

-----------------------------------------------------------------------------
\* An object but for its length.
IsBlock(o) ==
    /\ o = [len |-> o.len, capa |-> o.capa, alloc |-> o.alloc, cells |-> o.cells]
    /\ o.len \in Nat /\ o.capa \in Nat /\ o.alloc \in Nat
    /\ o.cells \in [0 .. o.alloc - 1 -> Cells]

\* ustr_capa_resize keeps the cells that both blocks have, and leaves the block
\* alone or makes capa its size.
LEMMA CapaResizeKeeps ==
    ASSUME NEW o, IsBlock(o), NEW n \in Nat, NEW r, r = CapaResize(o, n)
    PROVE  /\ IsBlock(r)
           /\ r.len = o.len
           /\ \A i \in 0 .. r.alloc - 1 : i < o.alloc => r.cells[i] = o.cells[i]
           /\ Reallocates(o, n) => r.capa = r.alloc /\ n <= r.alloc
           /\ ~Reallocates(o, n) => r = o
<1> DEFINE m == AtLeast(n, StartLen)
<1>1. CASE ~Reallocates(o, n)
  <2>1. r = o
    BY <1>1 DEF CapaResize
  <2> QED BY <2>1, <1>1
<1>2. CASE Reallocates(o, n)
  <2>1. m \in Nat /\ n <= m
    BY BlockAssumption DEF AtLeast
  <2> HIDE DEF m
  <2>2. r = [len |-> o.len, capa |-> m, alloc |-> m,
             cells |-> [i \in 0 .. m - 1 |-> IF i < o.alloc THEN o.cells[i] ELSE Junk]]
    BY <1>2 DEF CapaResize, m
  <2>3. Junk \in Cells /\ \A i \in 0 .. m - 1 : i < o.alloc => o.cells[i] \in Cells
    BY DEF Cells, IsBlock
  <2>4. [i \in 0 .. m - 1 |-> IF i < o.alloc THEN o.cells[i] ELSE Junk]
           \in [0 .. m - 1 -> Cells]
    BY <2>3
  <2>5. IsBlock(r) /\ r.len = o.len /\ r.capa = r.alloc /\ n <= r.alloc
    BY <2>1, <2>2, <2>4 DEF IsBlock
  <2>6. \A i \in 0 .. r.alloc - 1 : i < o.alloc => r.cells[i] = o.cells[i]
    BY <2>2, <2>1
  <2> QED BY <2>5, <2>6, <1>2
<1> QED BY <1>1, <1>2

\* New cells in the same block.
LEMMA WithBlock ==
    ASSUME NEW o, IsBlock(o), NEW n \in Nat, NEW c \in [0 .. o.alloc - 1 -> Cells]
    PROVE  /\ IsBlock(With(o, n, c))
           /\ With(o, n, c).len = n /\ With(o, n, c).capa = o.capa
           /\ With(o, n, c).alloc = o.alloc /\ With(o, n, c).cells = c
BY DEF With, IsBlock

\* The sentinel is the only cell that Terminate writes.
LEMMA TerminateKeeps ==
    ASSUME NEW o, IsBlock(o), NEW n \in Nat, n < o.alloc
    PROVE  LET r == Terminate(o, n) IN
           /\ IsObject(r)
           /\ r.len = n /\ r.capa = o.capa /\ r.alloc = o.alloc
           /\ r.cells[n] = Nul
           /\ \A i \in 0 .. n - 1 : r.cells[i] = o.cells[i]
<1> DEFINE c == [i \in 0 .. o.alloc - 1 |-> IF i = n THEN Nul ELSE o.cells[i]]
<1>1. Nul \in Cells
  BY UnitsAssumption DEF Cells
<1>2. c \in [0 .. o.alloc - 1 -> Cells]
  BY <1>1 DEF IsBlock
<1>3. o.alloc \in Nat
  BY DEF IsBlock
<1>4. c[n] = Nul /\ \A i \in 0 .. n - 1 : c[i] = o.cells[i]
  BY <1>3
<1>5. Terminate(o, n) = With(o, n, c)
  BY DEF Terminate
<1> HIDE DEF c
<1> QED BY <1>2, <1>4, <1>5, <1>3, WithBlock DEF IsBlock, IsObject

-----------------------------------------------------------------------------
\* The arguments with which ustr_splice_units is called: the range may reach one
\* unit past the end, which is what SetCpLimit can add to it.
SpliceArgs(o, start, del, y) ==
    /\ IsObject(o)
    /\ start \in Nat /\ del \in Nat /\ y \in Seq(Cells)
    /\ start <= o.len /\ del <= o.len /\ start + del <= o.len + 1
    /\ del # 0 \/ Len(y) # 0

NewLen(o, del, y) == o.len - del + Len(y)

Moved(o, start, del, y) ==
    LET grown == IF Len(y) >= del THEN CapaResize(o, NewLen(o, del, y) + 1) ELSE o
    IN CopyIn(MoveTail(grown, start, del, Len(y)), start, y)

\* Where the units stand once the tail has moved and the new ones are in.
LEMMA MovedBlock ==
    ASSUME NEW o, NEW start, NEW del, NEW y, SpliceArgs(o, start, del, y),
           Fits(o, NewLen(o, del, y))
    PROVE  LET c == Moved(o, start, del, y)
               new == NewLen(o, del, y)
           IN
           /\ new \in Nat
           /\ IsBlock(c)
           /\ c.len = o.len
           /\ new < c.alloc
           /\ IF Len(y) >= del /\ Reallocates(o, new + 1)
                THEN c.capa = c.alloc
                ELSE c.capa = o.capa /\ c.alloc = o.alloc
           /\ start + del <= o.len =>
                \A i \in 0 .. new - 1 :
                    c.cells[i] = IF i < start THEN o.cells[i]
                                 ELSE IF i < start + Len(y) THEN y[i - start + 1]
                                 ELSE o.cells[i - Len(y) + del]
<1> DEFINE n == Len(y)
           new == NewLen(o, del, y)
           g == IF n >= del THEN CapaResize(o, new + 1) ELSE o
           mc == [i \in 0 .. g.alloc - 1 |->
                    IF start + n <= i /\ i < g.len - del + n THEN g.cells[i - n + del]
                                                             ELSE g.cells[i]]
           m == With(g, g.len, mc)
           cc == [i \in 0 .. m.alloc - 1 |->
                    IF start <= i /\ i < start + n THEN y[i - start + 1] ELSE m.cells[i]]
           c == With(m, m.len, cc)
<1>1. /\ n \in Nat /\ start \in Nat /\ del \in Nat /\ new \in Nat
      /\ o.len \in Nat /\ o.alloc \in Nat /\ o.capa \in Nat /\ o.len < o.alloc
      /\ start <= o.len /\ del <= o.len
      /\ new = o.len - del + n
      /\ y \in Seq(Cells)
  BY DEF SpliceArgs, IsObject, NewLen
<1>2. IsBlock(o)
  BY DEF SpliceArgs, IsObject, IsBlock
<1>3. Moved(o, start, del, y) = c
  BY DEF Moved, MoveTail, CopyIn
<1>4. /\ IsBlock(g) /\ g.len = o.len
      /\ \A i \in 0 .. g.alloc - 1 : i < o.alloc => g.cells[i] = o.cells[i]
      /\ new < g.alloc
      /\ IF n >= del /\ Reallocates(o, new + 1) THEN g.capa = g.alloc ELSE g = o
  <2>1. CASE n >= del
    <3>1. g = CapaResize(o, new + 1)
      BY <2>1
    <3>2. new < g.alloc
      BY <3>1 DEF Fits
    <3> HIDE DEF g, new, n
    <3>3. new + 1 \in Nat
      BY <1>1
    <3>4. /\ IsBlock(g) /\ g.len = o.len
          /\ \A i \in 0 .. g.alloc - 1 : i < o.alloc => g.cells[i] = o.cells[i]
          /\ Reallocates(o, new + 1) => g.capa = g.alloc /\ new + 1 <= g.alloc
          /\ ~Reallocates(o, new + 1) => g = o
      BY <1>2, <3>1, <3>3, CapaResizeKeeps, Zenon
    <3> QED BY <2>1, <3>2, <3>4
  <2>2. CASE ~(n >= del)
    <3>1. g = o
      BY <2>2
    <3> HIDE DEF g, new
    <3> QED BY <1>1, <1>2, <2>2, <3>1
  <2> QED BY <2>1, <2>2
<1> HIDE DEF g, new
<1>5. g.alloc \in Nat /\ g.cells \in [0 .. g.alloc - 1 -> Cells] /\ g.len = o.len
  BY <1>4 DEF IsBlock
<1>6. g.len < g.alloc \/ n < del
  BY <1>1, <1>4, <1>5
<1>7. g.len < g.alloc
  BY <1>1, <1>4, <1>6
<1>8. mc \in [0 .. g.alloc - 1 -> Cells]
  <2> HIDE DEF n
  <2>1. ASSUME NEW i \in 0 .. g.alloc - 1, start + n <= i, i < g.len - del + n
        PROVE  g.cells[i - n + del] \in Cells
    <3>1. i - n + del \in 0 .. g.alloc - 1
      BY <1>1, <1>5, <1>7, <2>1
    <3> QED BY <3>1, <1>5
  <2> QED BY <2>1, <1>5
<1>9. IsBlock(m) /\ m.len = g.len /\ m.capa = g.capa /\ m.alloc = g.alloc /\ m.cells = mc
  <2> HIDE DEF mc
  <2> QED BY <1>4, <1>8, WithBlock DEF IsBlock
<1>10. cc \in [0 .. m.alloc - 1 -> Cells]
  <2>1. \A i \in 0 .. m.alloc - 1 : start <= i /\ i < start + n => y[i - start + 1] \in Cells
    BY <1>1, <1>9, <1>5
  <2>2. \A i \in 0 .. m.alloc - 1 : m.cells[i] \in Cells
    <3> HIDE DEF mc, m
    <3> QED BY <1>9, <1>8
  <2> HIDE DEF m, n
  <2> QED BY <2>1, <2>2
<1>11. IsBlock(c) /\ c.len = m.len /\ c.capa = m.capa /\ c.alloc = m.alloc /\ c.cells = cc
  <2> HIDE DEF cc, m
  <2>1. IsBlock(m) /\ m.len \in Nat /\ cc \in [0 .. m.alloc - 1 -> Cells]
    BY <1>9, <1>10 DEF IsBlock
  <2> QED BY <2>1, WithBlock
<1>12. ASSUME start + del <= o.len, NEW i \in 0 .. new - 1
       PROVE  cc[i] = IF i < start THEN o.cells[i]
                      ELSE IF i < start + n THEN y[i - start + 1]
                      ELSE o.cells[i - n + del]
  <2>1. i \in 0 .. g.alloc - 1
    BY <1>1, <1>4, <1>5
  <2>2. cc[i] = IF start <= i /\ i < start + n THEN y[i - start + 1] ELSE mc[i]
    <3> HIDE DEF mc, m, n
    <3> QED BY <1>9, <2>1
  <2>3. mc[i] = IF start + n <= i THEN g.cells[i - n + del] ELSE g.cells[i]
    BY <1>1, <1>5, <2>1, SMTT(40)
  <2>4. start + n <= i => g.cells[i - n + del] = o.cells[i - n + del]
    <3> HIDE DEF n, m, mc, cc, c
    <3>1. ASSUME start + n <= i PROVE i - n + del \in 0 .. g.alloc - 1 /\ i - n + del < o.alloc
      <4>1. /\ i \in Int /\ i < o.len - del + n
            /\ n \in Nat /\ del \in Nat /\ start \in Nat /\ o.len \in Nat /\ o.alloc \in Nat
        BY <1>1
      <4>2. i - n + del \in Int /\ i - n + del < o.len /\ 0 <= i - n + del
        BY <4>1, <3>1
      <4>3. o.len < g.alloc /\ g.alloc \in Nat /\ o.len < o.alloc
        BY <1>1, <1>5, <1>7
      <4> QED BY <4>1, <4>2, <4>3
    <3> QED BY <3>1, <1>4
  <2>5. i < start => g.cells[i] = o.cells[i]
    <3> HIDE DEF n, m, mc, cc, c
    <3>1. i < start => i < o.alloc
      BY <1>1, SMTT(40)
    <3> QED BY <3>1, <1>4, <2>1
  <2> HIDE DEF cc, mc, n
  <2> QED BY <2>2, <2>3, <2>4, <2>5, <1>1
<1> HIDE DEF c, cc, m, n
<1>13. \A i \in 0 .. new - 1 : start + del <= o.len =>
         c.cells[i] = IF i < start THEN o.cells[i]
                      ELSE IF i < start + n THEN y[i - start + 1]
                      ELSE o.cells[i - n + del]
  BY <1>11, <1>12
<1> QED
  BY <1>1, <1>3, <1>4, <1>5, <1>9, <1>11, <1>13 DEF new, n

\* ustr_splice_units: a longer block where one is needed, the sentinel behind the
\* new last unit, and the text that UStringValue promises.
LEMMA SpliceUnitsObject ==
    ASSUME NEW o, NEW start, NEW del, NEW y, NEW self,
           SpliceArgs(o, start, del, y), Fits(o, NewLen(o, del, y)),
           NEW r, r = SpliceUnits(o, start, del, y, self)
    PROVE  /\ IsObject(r)
           /\ r.len = NewLen(o, del, y)
           /\ Roomy(o) => Roomy(r)
           /\ Reallocates(o, NewLen(o, del, y) + 1) => Roomy(r)
           /\ start + del <= o.len => Text(r) = Promise!Spliced(Text(o), start, del, y)
<1> DEFINE n == Len(y)
           new == NewLen(o, del, y)
           c == Moved(o, start, del, y)
           f == IF n < del THEN CapaResize(c, new + 1) ELSE c
<1>1. /\ n \in Nat /\ start \in Nat /\ del \in Nat /\ new \in Nat
      /\ o.len \in Nat /\ o.alloc \in Nat /\ o.capa \in Nat
      /\ start <= o.len /\ del <= o.len
      /\ new = o.len - del + n
      /\ ~(del = 0 /\ n = 0)
  BY DEF SpliceArgs, IsObject, NewLen
<1>2. r = Terminate(f, new)
  BY <1>1 DEF SpliceUnits, Moved, NewLen, Replacement
<1>3. /\ IsBlock(c) /\ c.len = o.len /\ new < c.alloc
      /\ IF n >= del /\ Reallocates(o, new + 1)
           THEN c.capa = c.alloc
           ELSE c.capa = o.capa /\ c.alloc = o.alloc
  BY MovedBlock
<1>4. \A i \in 0 .. new - 1 : start + del <= o.len =>
         c.cells[i] = IF i < start THEN o.cells[i]
                      ELSE IF i < start + n THEN y[i - start + 1]
                      ELSE o.cells[i - n + del]
  BY MovedBlock
<1> HIDE DEF c, new, n
<1>5. /\ IsBlock(f)
      /\ new < f.alloc
      /\ o.capa = o.alloc => f.capa = f.alloc
      /\ Reallocates(o, new + 1) => f.capa = f.alloc
      /\ \A i \in 0 .. new - 1 : f.cells[i] = c.cells[i]
  <2>1. CASE n >= del
    <3>1. f = c
      BY <2>1, <1>1
    <3> HIDE DEF f
    <3> QED BY <2>1, <3>1, <1>3
  <2>2. CASE n < del
    <3>1. f = CapaResize(c, new + 1)
      BY <2>2
    <3>2. c.capa = o.capa /\ c.alloc = o.alloc
      BY <1>1, <1>3, <2>2
    <3>3. Reallocates(c, new + 1) <=> Reallocates(o, new + 1)
      BY <3>2 DEF Reallocates
    <3> HIDE DEF f
    <3>4. /\ IsBlock(f) /\ f.len = c.len
          /\ \A i \in 0 .. f.alloc - 1 : i < c.alloc => f.cells[i] = c.cells[i]
          /\ Reallocates(c, new + 1) => f.capa = f.alloc /\ new + 1 <= f.alloc
          /\ ~Reallocates(c, new + 1) => f = c
      <4>1. new + 1 \in Nat
        BY <1>1
      <4>2. IsBlock(c)
        BY <1>3
      <4> QED BY <3>1, <4>1, <4>2, CapaResizeKeeps, ZenonT(60)
    <3>5. f.alloc \in Nat /\ new < f.alloc
      BY <3>4, <1>1, <1>3, SMTT(40) DEF IsBlock
    <3>6. ASSUME NEW i \in 0 .. new - 1 PROVE f.cells[i] = c.cells[i]
      <4>1. i \in 0 .. f.alloc - 1 /\ i < c.alloc
        BY <3>5, <1>1, <3>2, <1>3
      <4> QED BY <3>4, <4>1
    <3> QED BY <3>2, <3>3, <3>4, <3>5, <3>6
  <2> QED BY <2>1, <2>2, <1>1
<1> HIDE DEF f
<1>6. /\ IsObject(r) /\ r.len = new /\ r.capa = f.capa /\ r.alloc = f.alloc
      /\ r.cells[new] = Nul
      /\ \A i \in 0 .. new - 1 : r.cells[i] = f.cells[i]
  BY <1>1, <1>2, <1>5, TerminateKeeps
<1>7. (Roomy(o) => Roomy(r)) /\ (Reallocates(o, new + 1) => Roomy(r))
  BY <1>5, <1>6 DEF Roomy
<1>8. ASSUME start + del <= o.len
      PROVE  Text(r) = Promise!Spliced(Text(o), start, del, y)
  <2>1. Len(Text(o)) = o.len
    BY TextType DEF SpliceArgs
  <2>2. ASSUME NEW i \in 1 .. new
        PROVE  r.cells[i - 1] = IF i <= start THEN Text(o)[i]
                                ELSE IF i <= start + n THEN y[i - start]
                                ELSE Text(o)[i - n + del]
    <3>1. r.cells[i - 1] = c.cells[i - 1]
      BY <1>1, <1>5, <1>6
    <3>2. c.cells[i - 1] = IF i - 1 < start THEN o.cells[i - 1]
                           ELSE IF i - 1 < start + n THEN y[(i - 1) - start + 1]
                           ELSE o.cells[(i - 1) - n + del]
      BY <1>1, <1>4, <1>8
    <3>3. i <= start => Text(o)[i] = o.cells[i - 1]
      BY <1>1 DEF Text
    <3>4. ~(i <= start + n) => Text(o)[i - n + del] = o.cells[(i - n + del) - 1]
      BY <1>1, SMTT(40) DEF Text
    <3>5. /\ i - 1 < start <=> i <= start
          /\ i - 1 < start + n <=> i <= start + n
          /\ (i - 1) - start + 1 = i - start
          /\ (i - 1) - n + del = (i - n + del) - 1
      BY <1>1
    <3> QED BY <3>1, <3>2, <3>3, <3>4, <3>5
  <2>3. Text(r) = [i \in 1 .. new |-> IF i <= start THEN Text(o)[i]
                                      ELSE IF i <= start + n THEN y[i - start]
                                      ELSE Text(o)[i - n + del]]
    BY <2>2, <1>6 DEF Text
  <2> QED BY <2>1, <2>3, <1>1 DEF Promise!Spliced, n
<1> QED BY <1>6, <1>7, <1>8 DEF new

\* What capa describes is enough to go by: any length fits.
LEMMA RoomyFits ==
    ASSUME NEW o, IsObject(o), Roomy(o), NEW new \in Nat
    PROVE  Fits(o, new)
<1>1. IsBlock(o) /\ o.capa \in Nat /\ o.capa = o.alloc
  BY DEF IsObject, IsBlock, Roomy
<1>2. new + 1 \in Nat
  OBVIOUS
<1> DEFINE r == CapaResize(o, new + 1)
<1>3. /\ IsBlock(r)
      /\ Reallocates(o, new + 1) => new + 1 <= r.alloc
      /\ ~Reallocates(o, new + 1) => r = o
  BY <1>1, <1>2, CapaResizeKeeps
<1> HIDE DEF r
<1>4. new < r.alloc
  BY <1>1, <1>3 DEF Reallocates, IsBlock
<1> QED BY <1>4 DEF Fits, r

-----------------------------------------------------------------------------
\* icu_ustr_resize(str, 0).
LEMMA ClearObject ==
    ASSUME NEW o, IsObject(o), NEW r, r = Terminate(CapaResize(o, 0), 0)
    PROVE  /\ IsObject(r) /\ r.len = 0
           /\ Roomy(o) => Roomy(r)
           /\ Reallocates(o, 0) => Roomy(r)
<1> DEFINE g == CapaResize(o, 0)
<1>1. IsBlock(o) /\ o.len < o.alloc /\ o.len \in Nat /\ o.alloc \in Nat
  BY DEF IsObject, IsBlock
<1>2. IsBlock(g) /\ (Reallocates(o, 0) => g.capa = g.alloc) /\ (~Reallocates(o, 0) => g = o)
  BY <1>1, CapaResizeKeeps
<1>3. 0 < g.alloc
  <2>1. CASE Reallocates(o, 0)
    <3>1. g.alloc = AtLeast(0, StartLen)
      BY <2>1 DEF CapaResize
    <3> QED BY <3>1, BlockAssumption DEF AtLeast
  <2>2. CASE ~Reallocates(o, 0)
    BY <2>2, <1>1, <1>2
  <2> QED BY <2>1, <2>2
<1> HIDE DEF g
<1>4. /\ IsObject(r) /\ r.len = 0 /\ r.capa = g.capa /\ r.alloc = g.alloc
      /\ r.cells[0] = Nul
  BY <1>2, <1>3, TerminateKeeps DEF g
<1> QED BY <1>2, <1>4 DEF Roomy

\* What lstrip! keeps: the units from drop on.
LEMMA DropLeadingObject ==
    ASSUME NEW o, IsObject(o), NEW k \in 1 .. o.len, NEW r, r = DropLeading(o, k)
    PROVE  \E drop \in 1 .. o.len :
           /\ IsObject(r) /\ r.len = o.len - drop
           /\ Roomy(o) => Roomy(r)
           /\ \A i \in 0 .. r.len - 1 : r.cells[i] = o.cells[i + drop]
           /\ Leads = {} => drop = k
<1> DEFINE drop == IF k = o.len THEN k ELSE k + WidthFrom(Text(o), k + 1) - 1
           n == o.len - drop
           c == [i \in 0 .. o.alloc - 1 |-> IF i < o.len - drop THEN o.cells[i + drop] ELSE o.cells[i]]
<1>1. o.len \in Nat /\ o.alloc \in Nat /\ o.len < o.alloc /\ IsBlock(o)
  BY DEF IsObject, IsBlock
<1>2. WidthFrom(Text(o), k + 1) \in {1, 2} /\ (Leads = {} => WidthFrom(Text(o), k + 1) = 1)
  BY DEF WidthFrom
<1>3. drop \in 1 .. o.len /\ (Leads = {} => drop = k)
  BY <1>1, <1>2
<1>4. r = Terminate(With(o, o.len, c), n)
  BY <1>1 DEF DropLeading
<1> HIDE DEF drop
<1>5. n \in Nat /\ n < o.alloc
  BY <1>1, <1>3
<1>6. c \in [0 .. o.alloc - 1 -> Cells]
  <2>1. \A i \in 0 .. o.alloc - 1 : i < o.len - drop => o.cells[i + drop] \in Cells
    BY <1>1, <1>3 DEF IsBlock
  <2> QED BY <2>1, <1>1 DEF IsBlock
<1>7. \A i \in 0 .. n - 1 : c[i] = o.cells[i + drop]
  BY <1>1, <1>5
<1> HIDE DEF c, n
<1>8. LET w == With(o, o.len, c) IN IsBlock(w) /\ w.capa = o.capa /\ w.alloc = o.alloc /\ w.cells = c
  BY <1>1, <1>6, WithBlock
<1>9. /\ IsObject(r) /\ r.len = n /\ r.capa = o.capa /\ r.alloc = o.alloc
      /\ r.cells[n] = Nul
      /\ \A i \in 0 .. n - 1 : r.cells[i] = c[i]
  BY <1>4, <1>5, <1>8, TerminateKeeps
<1>10. Roomy(o) => Roomy(r)
  BY <1>9 DEF Roomy
<1>11. \A i \in 0 .. n - 1 : r.cells[i] = o.cells[i + drop]
  BY <1>7, <1>9
<1> QED BY <1>3, <1>9, <1>10, <1>11 DEF n

\* What rstrip! keeps: the first units.
LEMMA DropTrailingObject ==
    ASSUME NEW o, IsObject(o), NEW k \in 1 .. o.len, NEW r, r = DropTrailing(o, k)
    PROVE  \E keep \in 0 .. o.len :
           /\ IsObject(r) /\ r.len = keep
           /\ Roomy(o) => Roomy(r)
           /\ \A i \in 0 .. r.len - 1 : r.cells[i] = o.cells[i]
           /\ Leads = {} => keep = o.len - k
<1> DEFINE keep == IF k = o.len THEN 0
                   ELSE o.len - k - WidthUpTo(Text(o), o.len - k) + 1
<1>1. o.len \in Nat /\ o.alloc \in Nat /\ o.len < o.alloc /\ IsBlock(o)
  BY DEF IsObject, IsBlock
<1>2. /\ WidthUpTo(Text(o), o.len - k) \in {1, 2}
      /\ Leads = {} => WidthUpTo(Text(o), o.len - k) = 1
  BY DEF WidthUpTo
<1>3. keep \in 0 .. o.len /\ (Leads = {} => keep = o.len - k)
  BY <1>1, <1>2
<1>4. r = Terminate(o, keep)
  BY <1>1 DEF DropTrailing
<1> HIDE DEF keep
<1>5. /\ IsObject(r) /\ r.len = keep /\ r.capa = o.capa /\ r.alloc = o.alloc
      /\ r.cells[keep] = Nul
      /\ \A i \in 0 .. keep - 1 : r.cells[i] = o.cells[i]
  BY <1>1, <1>3, <1>4, TerminateKeeps
<1>6. Roomy(o) => Roomy(r)
  BY <1>5 DEF Roomy
<1> QED BY <1>3, <1>5, <1>6

\* The new block of a case mapping is longer than its text.
LEMMA CaseBlockObject ==
    ASSUME NEW o, IsObject(o), NEW x \in Seq(Cells), NEW r, r = CaseBlock(o, x)
    PROVE  IsObject(r) /\ r.len = Len(x) /\ Text(r) = x
<1> DEFINE n == AtLeast(Len(x), o.len) + 1
           c == [i \in 0 .. n - 1 |->
                   IF i < Len(x) THEN x[i + 1]
                   ELSE IF i = Len(x) /\ Len(x) < o.len THEN Nul ELSE Junk]
<1>1. o.len \in Nat /\ o.capa \in Nat /\ Len(x) \in Nat
  BY DEF IsObject
<1>2. n \in Nat /\ Len(x) < n
  BY <1>1 DEF AtLeast
<1>3. r = [len |-> Len(x), capa |-> o.capa, alloc |-> n, cells |-> c]
  BY DEF CaseBlock
<1> HIDE DEF n
<1>4. c \in [0 .. n - 1 -> Cells]
  <2>1. Nul \in Cells /\ Junk \in Cells /\ \A i \in 0 .. n - 1 : i < Len(x) => x[i + 1] \in Cells
    BY UnitsAssumption DEF Cells
  <2> QED BY <2>1
<1>5. \A i \in 1 .. Len(x) : c[i - 1] = x[i]
  BY <1>1, <1>2
<1> HIDE DEF c
<1>6. IsObject(r) /\ r.len = Len(x) /\ r.cells = c
  BY <1>1, <1>2, <1>3, <1>4 DEF IsObject
<1>7. Text(r) = [i \in 1 .. Len(x) |-> x[i]]
  BY <1>5, <1>6 DEF Text
<1> QED BY <1>6, <1>7

-----------------------------------------------------------------------------
\* A range given to []= or to substr lies in the string.
RangeFrom(o, beg) == IF beg < 0 THEN beg + o.len ELSE beg

RangeSize(o, from, len) == IF o.len < from + len THEN o.len - from ELSE len

\* Which is what icu_ustr_splice checks before it splices.
LEMMA RangeInString ==
    ASSUME NEW o, IsObject(o), NEW beg \in Int, InRange(o, beg), NEW len \in Nat,
           NEW from, from = RangeFrom(o, beg), NEW size, size = RangeSize(o, from, len)
    PROVE  /\ from \in 0 .. o.len /\ size \in Nat /\ from + size <= o.len
           /\ len = 0 => size = 0
BY DEF IsObject, InRange, RangeFrom, RangeSize

\* The copy that substr makes ends at the sentinel at the latest.
LEMMA SubstrType ==
    ASSUME NEW o, IsObject(o), NEW beg \in Int, InRange(o, beg), NEW len \in Nat
    PROVE  SubstrUnits(o, beg, len) \in Seq(Cells)
<1> DEFINE from == RangeFrom(o, beg)
           size == RangeSize(o, from, len)
           start == SetCpStart(o.cells, from)
           limit == SetCpLimit(o.cells, size, o.len)
<1>1. from \in 0 .. o.len /\ size \in Nat /\ from + size <= o.len /\ o.len \in Nat
  BY RangeInString DEF IsObject
<1>2. SubstrUnits(o, beg, len) = IF size = 0 THEN << >> ELSE Slice(o, start, limit)
  BY <1>1 DEF SubstrUnits, RangeFrom, RangeSize
<1> HIDE DEF from, size
<1>3. start \in Nat /\ start <= from /\ limit \in Nat /\ limit <= size + 1
  BY <1>1, BoundaryBounds
<1> HIDE DEF start, limit
<1>4. start + limit <= o.len + 1
  BY <1>1, <1>3
<1> QED BY <1>2, <1>3, <1>4, SliceType

-----------------------------------------------------------------------------
\* The inductive invariant: types, and capa where no case mapping came between.
BufferInv == TypeOK /\ CapacityHolds

\* A step that gives one string a well made object.
GoodUpdate(s, o, b) ==
    /\ IsObject(o) /\ o.len <= MaxLen
    /\ b \in BOOLEAN /\ (~b => Roomy(o))
    /\ object' = [object EXCEPT ![s] = o]
    /\ recased' = [recased EXCEPT ![s] = b]

\* Such a step keeps the invariant.
LEMMA UpdateKeepsInv ==
    ASSUME BufferInv, NEW s \in Strings, NEW o, NEW b, GoodUpdate(s, o, b)
    PROVE  BufferInv'
<1>1. /\ object' = [r \in Strings |-> IF r = s THEN o ELSE object[r]]
      /\ recased' = [r \in Strings |-> IF r = s THEN b ELSE recased[r]]
  BY DEF BufferInv, TypeOK, GoodUpdate
<1>2. \A r \in Strings : object'[r] = IF r = s THEN o ELSE object[r]
  BY <1>1
<1>3. TypeOK'
  <2>1. \A r \in Strings : IsObject(object'[r]) /\ object'[r].len <= MaxLen
    BY <1>2 DEF BufferInv, TypeOK, GoodUpdate
  <2>2. recased' \in [Strings -> BOOLEAN]
    BY <1>1 DEF BufferInv, TypeOK, GoodUpdate
  <2>3. object' = [r \in Strings |-> object'[r]]
    BY <1>1
  <2> QED BY <2>1, <2>2, <2>3 DEF TypeOK
<1>4. CapacityHolds'
  <2>1. ASSUME NEW r \in Strings, ~recased'[r] PROVE Roomy(object'[r])
    BY <1>1, <1>2, <2>1 DEF BufferInv, CapacityHolds, GoodUpdate
  <2> QED BY <2>1 DEF CapacityHolds
<1> QED BY <1>3, <1>4 DEF BufferInv

\* A new object made of a text.
LEMMA BindWrap ==
    ASSUME BufferInv, NEW d \in Strings, NEW x \in Seq(Cells), NEW capa \in Nat,
           Bind(d, Wrap(x, capa))
    PROVE  GoodUpdate(d, Wrap(x, capa), FALSE)
<1> DEFINE o == Wrap(x, capa)
<1>1. IsObject(o) /\ Roomy(o)
  BY WrapObject
<1> HIDE DEF o
<1> QED BY <1>1 DEF Bind, GoodUpdate, o

\* A new object around a block the caller has filled.
LEMMA BindWrapSet ==
    ASSUME BufferInv, NEW d \in Strings, NEW x \in Seq(Cells), NEW capa \in Nat,
           Len(x) < capa, Bind(d, WrapSet(x, capa))
    PROVE  GoodUpdate(d, WrapSet(x, capa), FALSE)
<1> DEFINE o == WrapSet(x, capa)
<1>1. IsObject(o) /\ Roomy(o)
  BY WrapSetObject
<1> HIDE DEF o
<1> QED BY <1>1 DEF Bind, GoodUpdate, o

\* What the mappings make of a string is a text.
LEMMA FormsType ==
    ASSUME BufferInv, NEW s \in Strings
    PROVE  /\ Forms(Text(object[s])) \subseteq Seq(Cells)
           /\ Text(object[s]) \in Seq(Units) => Forms(Text(object[s])) \subseteq Seq(Units)
<1> DEFINE x == Text(object[s])
<1>1. x \in Seq(Cells) /\ Len(x) \in 0 .. MaxLen
  BY TextType, SourcesAssumption DEF BufferInv, TypeOK, IsObject
<1> HIDE DEF x
<1>2. x \in [1 .. Len(x) -> Cells]
  BY <1>1
<1>3. x \in Seq(Units) => x \in [1 .. Len(x) -> Units]
  OBVIOUS
<1>4. Forms(x) \subseteq Seq(Cells)
  BY <1>1, <1>2, FormsAssumption
<1>5. x \in Seq(Units) => Forms(x) \subseteq Seq(Units)
  BY <1>1, <1>3, FormsAssumption
<1> QED BY <1>4, <1>5 DEF x

-----------------------------------------------------------------------------
\* A new object, whichever way it is made, is well made.
LEMMA NewGood ==
    ASSUME BufferInv, NEW d \in Strings, New(d)
    PROVE  \E o : GoodUpdate(d, o, FALSE)
<1>1. PICK x \in Sources : \/ Bind(d, Wrap(x, Len(x) + 1))
                           \/ \E spare \in 1 .. Headroom : Bind(d, WrapSet(x, Len(x) + spare))
  BY DEF New
<1>2. x \in Seq(Units) /\ x \in Seq(Cells) /\ Len(x) \in Nat
  BY SourcesAssumption DEF Cells
<1>3. CASE Bind(d, Wrap(x, Len(x) + 1))
  <2>1. Len(x) + 1 \in Nat
    BY <1>2
  <2>2. GoodUpdate(d, Wrap(x, Len(x) + 1), FALSE)
    BY <1>2, <1>3, <2>1, BindWrap
  <2> QED BY <2>2
<1>4. ASSUME NEW spare \in 1 .. Headroom, Bind(d, WrapSet(x, Len(x) + spare))
      PROVE  \E o : GoodUpdate(d, o, FALSE)
  <2>1. Len(x) + spare \in Nat /\ Len(x) < Len(x) + spare
    BY <1>2, BlockAssumption
  <2> QED BY <1>2, <1>4, <2>1, BindWrapSet
<1> QED BY <1>1, <1>3, <1>4

\* dup.
LEMMA DupGood ==
    ASSUME BufferInv, NEW d \in Strings, NEW s \in Strings, Dup(d, s)
    PROVE  GoodUpdate(d, Wrap(Text(object[s]), object[s].len + 1), FALSE)
<1>1. IsObject(object[s]) /\ object[s].len + 1 \in Nat
  BY DEF BufferInv, TypeOK, IsObject
<1>2. Text(object[s]) \in Seq(Cells)
  BY <1>1, TextType
<1> QED BY <1>1, <1>2, BindWrap DEF Dup

\* str1 + str2: room is made a second time, for the sentinel.
PlusObject(s, r) ==
    SpliceUnits(Wrap(Text(object[s]), object[s].len + object[r].len),
                object[s].len, 0, Text(object[r]), FALSE)

\* The object that str1 + str2 makes, and its text.
LEMMA PlusMade ==
    ASSUME BufferInv, NEW s \in Strings, NEW r \in Strings
    PROVE  /\ IsObject(PlusObject(s, r)) /\ Roomy(PlusObject(s, r))
           /\ Text(PlusObject(s, r)) =
                Promise!Spliced(Text(object[s]), object[s].len, 0, Text(object[r]))
<1> DEFINE x == Text(object[s])
           y == Text(object[r])
           w == Wrap(x, object[s].len + object[r].len)
<1>1. /\ IsObject(object[s]) /\ IsObject(object[r])
      /\ object[s].len \in Nat /\ object[r].len \in Nat
  BY DEF BufferInv, TypeOK, IsObject
<1>2. x \in Seq(Cells) /\ Len(x) = object[s].len /\ y \in Seq(Cells) /\ Len(y) = object[r].len
  BY <1>1, TextType
<1>3. IsObject(w) /\ Roomy(w) /\ w.len = object[s].len /\ Text(w) = x
  <2> HIDE DEF x
  <2> QED BY <1>1, <1>2, WrapObject
<1> HIDE DEF x, y, w
<1>4. PlusObject(s, r) = SpliceUnits(w, object[s].len, 0, y, FALSE)
  BY DEF PlusObject, w, x, y
<1>5. CASE Len(y) = 0
  <2>1. SpliceUnits(w, object[s].len, 0, y, FALSE) = w
    BY <1>5 DEF SpliceUnits
  <2>2. Promise!Spliced(x, object[s].len, 0, y) = [i \in 1 .. Len(x) |-> x[i]]
    BY <1>1, <1>2, <1>5 DEF Promise!Spliced
  <2>3. x = [i \in 1 .. Len(x) |-> x[i]]
    BY <1>2
  <2> QED BY <1>3, <1>4, <2>1, <2>2, <2>3 DEF x, y
<1>6. CASE Len(y) # 0
  <2>1. SpliceArgs(w, object[s].len, 0, y)
    BY <1>1, <1>2, <1>3, <1>6 DEF SpliceArgs
  <2>2. NewLen(w, 0, y) \in Nat
    BY <1>1, <1>2, <1>3 DEF NewLen
  <2>3. Fits(w, NewLen(w, 0, y))
    BY <1>3, <2>2, RoomyFits
  <2>4. object[s].len + 0 <= w.len
    BY <1>1, <1>3
  <2> HIDE DEF NewLen
  <2> DEFINE no == FALSE
             p == PlusObject(s, r)
             at == object[s].len
             del == 0
  <2>6. p = SpliceUnits(w, at, del, y, no) /\ SpliceArgs(w, at, del, y) /\ Fits(w, NewLen(w, del, y))
    BY <1>4, <2>1, <2>3
  <2> HIDE DEF no, p, at, del
  <2>7. IsObject(p)
    BY <2>6, SpliceUnitsObject
  <2>8. Roomy(w) => Roomy(p)
    BY <2>6, SpliceUnitsObject
  <2>9. at + del <= w.len => Text(p) = Promise!Spliced(Text(w), at, del, y)
    BY <2>6, SpliceUnitsObject
  <2>5. /\ IsObject(PlusObject(s, r))
        /\ Roomy(w) => Roomy(PlusObject(s, r))
        /\ object[s].len + 0 <= w.len =>
             Text(PlusObject(s, r)) = Promise!Spliced(Text(w), object[s].len, 0, y)
    BY <2>7, <2>8, <2>9 DEF p, at, del
  <2> QED BY <1>3, <2>4, <2>5 DEF x, y
<1> QED BY <1>5, <1>6

\* It becomes the value of a variable.
LEMMA PlusGood ==
    ASSUME BufferInv, NEW d \in Strings, NEW s \in Strings, NEW r \in Strings, Plus(d, s, r)
    PROVE  GoodUpdate(d, PlusObject(s, r), FALSE)
<1>1. Bind(d, PlusObject(s, r))
  BY DEF Plus, PlusObject
<1>2. IsObject(PlusObject(s, r)) /\ Roomy(PlusObject(s, r))
  BY PlusMade
<1> HIDE DEF PlusObject
<1> QED BY <1>1, <1>2 DEF Bind, GoodUpdate

\* n copies of a string's units.
Copies(o, n) == [i \in 1 .. n * o.len |-> o.cells[(i - 1) % o.len]]

\* The copies are a text n times as long.
LEMMA CopiesType ==
    ASSUME NEW o, IsObject(o), NEW n \in Nat
    PROVE  Copies(o, n) \in Seq(Cells) /\ Len(Copies(o, n)) = n * o.len
<1>1. o.len \in Nat /\ o.alloc \in Nat /\ o.len < o.alloc /\ o.cells \in [0 .. o.alloc - 1 -> Cells]
  BY DEF IsObject
<1> DEFINE m == n * o.len
<1>2. m \in Nat /\ (o.len = 0 => m = 0)
  BY <1>1
<1> HIDE DEF m
<1>3. ASSUME NEW i \in 1 .. m PROVE o.cells[(i - 1) % o.len] \in Cells
  <2>1. o.len > 0 /\ i - 1 \in Nat
    BY <1>1, <1>2
  <2>2. (i - 1) % o.len \in 0 .. o.len - 1
    BY <1>1, <2>1
  <2>3. (i - 1) % o.len \in 0 .. o.alloc - 1
    BY <1>1, <2>2
  <2> QED BY <1>1, <2>3
<1>4. Copies(o, n) = [i \in 1 .. m |-> o.cells[(i - 1) % o.len]]
  BY DEF Copies, m
<1>5. Copies(o, n) \in [1 .. m -> Cells]
  BY <1>3, <1>4
<1> QED BY <1>2, <1>5 DEF m

\* str * n.
LEMMA TimesGood ==
    ASSUME BufferInv, NEW d \in Strings, NEW s \in Strings, NEW n \in 0 .. MaxLen,
           Times(d, s, n)
    PROVE  LET x == Copies(object[s], n) IN GoodUpdate(d, Wrap(x, Len(x) + 1), FALSE)
<1> DEFINE x == Copies(object[s], n)
<1>1. IsObject(object[s]) /\ n \in Nat
  BY SourcesAssumption DEF BufferInv, TypeOK
<1>2. x \in Seq(Cells)
  BY <1>1, CopiesType
<1>3. Bind(d, Wrap(x, Len(x) + 1))
  BY DEF Times, Multiple, Copies
<1> HIDE DEF x
<1>4. Len(x) + 1 \in Nat
  BY <1>2
<1>5. GoodUpdate(d, Wrap(x, Len(x) + 1), FALSE)
  BY <1>2, <1>3, <1>4, BindWrap
<1> QED BY <1>5 DEF x

\* str[beg, len].
LEMMA SubstrGood ==
    ASSUME BufferInv, NEW d \in Strings, NEW s \in Strings, NEW beg \in Indices,
           NEW len \in 0 .. MaxLen, Substr(d, s, beg, len)
    PROVE  LET x == SubstrUnits(object[s], beg, len) IN
           GoodUpdate(d, Wrap(x, Len(x) + 1), FALSE)
<1> DEFINE x == SubstrUnits(object[s], beg, len)
<1>1. IsObject(object[s]) /\ beg \in Int /\ len \in Nat /\ InRange(object[s], beg)
  BY SourcesAssumption DEF BufferInv, TypeOK, Indices, Substr
<1>2. x \in Seq(Cells)
  BY <1>1, SubstrType
<1>3. Bind(d, Wrap(x, Len(x) + 1))
  BY DEF Substr
<1> HIDE DEF x
<1>4. Len(x) + 1 \in Nat
  BY <1>2
<1>5. GoodUpdate(d, Wrap(x, Len(x) + 1), FALSE)
  BY <1>2, <1>3, <1>4, BindWrap
<1> QED BY <1>5 DEF x

\* normalize and foldcase give a block one unit longer at least.
LEMMA NormalizeGood ==
    ASSUME BufferInv, NEW d \in Strings, NEW s \in Strings, Normalize(d, s)
    PROVE  \E x \in Forms(Text(object[s])) :
              \E capa \in Nat : Len(x) < capa /\ GoodUpdate(d, WrapSet(x, capa), FALSE)
<1>1. PICK x \in Forms(Text(object[s])) :
        LET guess == object[s].len + Headroom IN
        /\ Len(x) # guess
        /\ Bind(d, WrapSet(x, IF Len(x) < guess THEN guess ELSE Len(x) + 1))
  BY DEF Normalize
<1>2. x \in Seq(Cells) /\ object[s].len \in Nat
  BY FormsType DEF BufferInv, TypeOK, IsObject
<1> DEFINE guess == object[s].len + Headroom
           capa == IF Len(x) < guess THEN guess ELSE Len(x) + 1
<1>3. Bind(d, WrapSet(x, capa))
  BY <1>1
<1>4. capa \in Nat /\ Len(x) < capa
  BY <1>2, BlockAssumption
<1> HIDE DEF capa
<1>5. GoodUpdate(d, WrapSet(x, capa), FALSE)
  BY <1>2, <1>3, <1>4, BindWrapSet
<1> QED BY <1>4, <1>5

\* foldcase.
LEMMA FoldcaseGood ==
    ASSUME BufferInv, NEW d \in Strings, NEW s \in Strings, Foldcase(d, s)
    PROVE  \E x \in Forms(Text(object[s])) :
              \E capa \in Nat : Len(x) < capa /\ GoodUpdate(d, WrapSet(x, capa), FALSE)
<1>1. PICK x \in Forms(Text(object[s])) :
        Bind(d, WrapSet(x, AtLeast(Len(x), object[s].len) + 1))
  BY DEF Foldcase
<1>2. x \in Seq(Cells) /\ object[s].len \in Nat
  BY FormsType DEF BufferInv, TypeOK, IsObject
<1> DEFINE capa == AtLeast(Len(x), object[s].len) + 1
<1>3. capa \in Nat /\ Len(x) < capa
  BY <1>2 DEF AtLeast
<1> HIDE DEF capa
<1>4. GoodUpdate(d, WrapSet(x, capa), FALSE)
  BY <1>1, <1>2, <1>3, BindWrapSet DEF capa
<1> QED BY <1>3, <1>4

-----------------------------------------------------------------------------
\* An in-place splice: nothing at all, or a well made object with its text.
StoreObject(s, start, del, r, self) ==
    SpliceUnits(object[s], start, del, Text(object[r]), self)

\* Whichever method calls ustr_splice_units.
LEMMA StoreGood ==
    ASSUME BufferInv, NEW s \in Strings, NEW r \in Strings, NEW self,
           NEW start \in Nat, NEW del \in Nat,
           start <= object[s].len, del <= object[s].len, start + del <= object[s].len + 1,
           Store(s, start, del, r, self)
    PROVE  /\ \E b : GoodUpdate(s, StoreObject(s, start, del, r, self), b)
           /\ start + del <= object[s].len =>
                Text(StoreObject(s, start, del, r, self)) =
                  Promise!Spliced(Text(object[s]), start, del, Text(object[r]))
<1> DEFINE o == object[s]
           y == Text(object[r])
           p == StoreObject(s, start, del, r, self)
           new == NewLen(o, del, y)
           same == del = 0 /\ object[r].len = 0
<1>1. /\ IsObject(o) /\ o.len <= MaxLen /\ IsObject(object[r])
      /\ o.len \in Nat /\ object[r].len \in Nat /\ recased[s] \in BOOLEAN
      /\ ~recased[s] => Roomy(o)
  BY DEF BufferInv, TypeOK, CapacityHolds, IsObject
<1>2. y \in Seq(Cells) /\ Len(y) = object[r].len
  BY <1>1, TextType
<1>3. new = o.len - del + object[r].len /\ new \in Nat
  <2>1. new = o.len - del + Len(y)
    BY DEF NewLen
  <2>2. del <= o.len
    OBVIOUS
  <2> HIDE DEF new, y, o
  <2>3. new = o.len - del + object[r].len
    BY <2>1, <1>2
  <2> QED BY <1>1, <2>2, <2>3
<1>4. p = SpliceUnits(o, start, del, y, self)
  BY DEF StoreObject
<1>5. /\ new <= MaxLen
      /\ same \/ Fits(o, new)
      /\ object' = [object EXCEPT ![s] = p]
      /\ recased' = [recased EXCEPT ![s] = recased[s] /\ (same \/ ~Reallocates(o, new + 1))]
  BY <1>3 DEF Store, StoreObject, BufferInv, TypeOK
<1> HIDE DEF p, new, o, y
<1>6. CASE same
  <2>1. p = o
    BY <1>2, <1>4, <1>6 DEF SpliceUnits
  <2>2. recased' = [recased EXCEPT ![s] = recased[s]]
    BY <1>5, <1>6, <1>1
  <2>3. GoodUpdate(s, p, recased[s])
    BY <1>1, <1>5, <2>1, <2>2 DEF GoodUpdate
  <2>4. start + del <= o.len => Text(p) = Promise!Spliced(Text(o), start, del, y)
    <3>1. Text(o) \in Seq(Cells)
      BY <1>1, TextType
    <3>2. Text(o) = [i \in 1 .. Len(Text(o)) |-> Text(o)[i]]
      BY <3>1
    <3>3. Promise!Spliced(Text(o), start, del, y) = [i \in 1 .. Len(Text(o)) |-> Text(o)[i]]
      <4> DEFINE x == Text(o)
      <4>1. Len(x) \in Nat /\ Len(x) - del + Len(y) = Len(x) /\ Len(y) = 0 /\ del = 0
        BY <1>2, <1>6, <3>1
      <4> HIDE DEF x
      <4>2. \A i \in 1 .. Len(x) : (IF i <= start THEN x[i]
                                    ELSE IF i <= start + Len(y) THEN y[i - start]
                                    ELSE x[i - Len(y) + del]) = x[i]
        BY <4>1
      <4>3. Promise!Spliced(x, start, del, y) = [i \in 1 .. Len(x) |-> x[i]]
        BY <4>1, <4>2 DEF Promise!Spliced
      <4> QED BY <4>3 DEF x
    <3> QED BY <2>1, <3>2, <3>3
  <2> QED BY <2>3, <2>4 DEF p, o, y
<1>7. CASE ~same
  <2>1. SpliceArgs(o, start, del, y)
    BY <1>1, <1>2, <1>7 DEF SpliceArgs, o
  <2>2. Fits(o, NewLen(o, del, y))
    BY <1>5, <1>7 DEF new
  <2>3. /\ IsObject(p) /\ p.len = new
        /\ Roomy(o) => Roomy(p)
        /\ Reallocates(o, new + 1) => Roomy(p)
    BY <2>1, <2>2, <1>4, SpliceUnitsObject DEF new
  <2>4. start + del <= o.len => Text(p) = Promise!Spliced(Text(o), start, del, y)
    BY <2>1, <2>2, <1>4, SpliceUnitsObject
  <2> DEFINE b == recased[s] /\ (same \/ ~Reallocates(o, new + 1))
  <2>5. b \in BOOLEAN /\ (~b => Roomy(p))
    BY <1>1, <1>7, <2>3
  <2>6. recased' = [recased EXCEPT ![s] = b]
    BY <1>5
  <2> HIDE DEF b
  <2>7. GoodUpdate(s, p, b)
    BY <1>5, <2>3, <2>5, <2>6 DEF GoodUpdate
  <2> QED BY <2>4, <2>7 DEF p, o, y
<1> QED BY <1>6, <1>7

-----------------------------------------------------------------------------
\* The range that one of the splicing methods hands to Store: inside the string,
\* or one unit past its end when a surrogate pair is in the way.
SplicesRange(s, r) ==
    \E start, del \in Nat, self \in BOOLEAN :
        /\ start <= object[s].len /\ del <= object[s].len
        /\ start + del <= object[s].len + 1
        /\ Leads = {} => start + del <= object[s].len
        /\ Store(s, start, del, r, self)

\* The range icu_ustr_splice computes from beg and len.
LEMMA SpliceAtRange ==
    ASSUME BufferInv, NEW s \in Strings, NEW r \in Strings, NEW beg \in Int, NEW len \in Nat,
           SpliceAt(s, beg, len, r)
    PROVE  SplicesRange(s, r)
<1> DEFINE o == object[s]
           from == RangeFrom(o, beg)
           size == RangeSize(o, from, len)
           start == SetCpStart(o.cells, from)
           del == SetCpLimit(o.cells, size, o.len)
<1>1. IsObject(o) /\ o.len \in Nat /\ InRange(o, beg)
  BY DEF BufferInv, TypeOK, IsObject, SpliceAt
<1>2. Store(s, start, del, r, FALSE)
  BY DEF SpliceAt, RangeFrom, RangeSize
<1>3. from \in 0 .. o.len /\ size \in Nat /\ from + size <= o.len
  BY <1>1, RangeInString
<1> HIDE DEF from, size
<1>4. /\ start \in Nat /\ start <= from
      /\ del \in Nat /\ del <= size + 1 /\ (size <= o.len => del <= o.len)
      /\ Leads = {} => start = from /\ del = size
  <2>1. from \in Nat
    BY <1>1, <1>3
  <2>2. start \in Nat /\ start <= from
    BY <1>1, <2>1, BoundaryBounds
  <2>3. del \in Nat /\ del <= size + 1 /\ (size <= o.len => del <= o.len)
    BY <1>1, <1>3, BoundaryBounds
  <2>4. Leads = {} => start = from /\ del = size
    BY <1>1, <1>3, <2>1, BoundaryIdentity
  <2> QED BY <2>2, <2>3, <2>4
<1> HIDE DEF start, del
<1>5. /\ start <= o.len /\ del <= o.len /\ start + del <= o.len + 1
      /\ Leads = {} => start + del <= o.len
  BY <1>1, <1>3, <1>4
<1> QED BY <1>2, <1>4, <1>5 DEF SplicesRange

\* The range icu_ustr_subpat_set takes from a match.
LEMMA SetMatchRange ==
    ASSUME BufferInv, NEW s \in Strings, NEW r \in Strings, NEW start \in Int, NEW end \in Nat,
           SetMatch(s, start, end, r)
    PROVE  SplicesRange(s, r)
<1> DEFINE o == object[s]
           from == SetCpStart(o.cells, start)
           del == SetCpLimit(o.cells, end - start, o.len)
<1>1. /\ o.len \in Nat /\ start \in Nat /\ start <= end /\ end <= o.len
      /\ end - start \in Nat
  BY DEF BufferInv, TypeOK, IsObject, SetMatch
<1>2. Store(s, from, del, r, s = r)
  BY DEF SetMatch
<1>3. /\ from \in Nat /\ from <= start
      /\ del \in Nat /\ del <= end - start + 1 /\ (end - start <= o.len => del <= o.len)
      /\ Leads = {} => from = start /\ del = end - start
  <2>2. from \in Nat /\ from <= start
    BY <1>1, BoundaryBounds
  <2> DEFINE size == end - start
  <2>1. size \in Nat /\ del = SetCpLimit(o.cells, size, o.len)
    BY <1>1
  <2> HIDE DEF size, del
  <2>5. del \in Nat /\ del <= size + 1 /\ (size <= o.len => del <= o.len)
    BY <1>1, <2>1, BoundaryBounds
  <2>3. del \in Nat /\ del <= end - start + 1 /\ (end - start <= o.len => del <= o.len)
    BY <2>5 DEF size
  <2>6. Leads = {} => from = start /\ del = size
    BY <1>1, <2>1, BoundaryIdentity
  <2>4. Leads = {} => from = start /\ del = end - start
    BY <2>6 DEF size
  <2> QED BY <2>2, <2>3, <2>4
<1> HIDE DEF from, del
<1>4. /\ from <= o.len /\ del <= o.len /\ from + del <= o.len + 1
      /\ Leads = {} => from + del <= o.len
  BY <1>1, <1>3
<1>5. (s = r) \in BOOLEAN
  OBVIOUS
<1> QED BY <1>2, <1>3, <1>4, <1>5, Zenon DEF SplicesRange

\* The range of an occurrence of a substring.
LEMMA SetSubstringRange ==
    ASSUME BufferInv, NEW s \in Strings, NEW t \in Strings, NEW r \in Strings,
           SetSubstring(s, t, r)
    PROVE  SplicesRange(s, r)
<1> DEFINE o == object[s]
<1>1. o.len \in Nat /\ object[t].len \in Nat
  BY DEF BufferInv, TypeOK, IsObject
<1>2. PICK b \in 0 .. o.len - object[t].len : Store(s, b, object[t].len, r, s = r)
  BY DEF SetSubstring
<1>3. /\ b \in Nat /\ b <= o.len /\ object[t].len <= o.len
      /\ b + object[t].len <= o.len + 1 /\ b + object[t].len <= o.len
  BY <1>1
<1>4. (s = r) \in BOOLEAN
  OBVIOUS
<1> QED BY <1>1, <1>2, <1>3, <1>4, Zenon DEF SplicesRange

\* << splices at the end.
LEMMA ConcatRange ==
    ASSUME BufferInv, NEW s \in Strings, NEW r \in Strings, Concat(s, r)
    PROVE  SplicesRange(s, r)
<1>1. object[s].len \in Nat /\ Store(s, object[s].len, 0, r, s = r)
  BY DEF BufferInv, TypeOK, IsObject, Concat
<1>2. /\ object[s].len <= object[s].len /\ 0 <= object[s].len /\ 0 \in Nat
      /\ object[s].len + 0 <= object[s].len + 1 /\ object[s].len + 0 <= object[s].len
  BY <1>1
<1>3. (s = r) \in BOOLEAN
  OBVIOUS
<1> QED BY <1>1, <1>2, <1>3, Zenon DEF SplicesRange

\* replace splices over everything.
LEMMA ReplaceRange ==
    ASSUME BufferInv, NEW s \in Strings, NEW r \in Strings, Replace(s, r)
    PROVE  SplicesRange(s, r)
<1>1. object[s].len \in Nat /\ Store(s, 0, object[s].len, r, FALSE)
  BY DEF BufferInv, TypeOK, IsObject, Replace
<1>2. /\ object[s].len <= object[s].len /\ 0 <= object[s].len /\ 0 \in Nat
      /\ 0 + object[s].len <= object[s].len + 1 /\ 0 + object[s].len <= object[s].len
  BY <1>1
<1>3. FALSE \in BOOLEAN
  OBVIOUS
<1> QED BY <1>1, <1>2, <1>3, Zenon DEF SplicesRange

\* Every method that splices one string into another.
Splices(d, s) ==
    \/ Replace(s, d) \/ Concat(s, d)
    \/ \E i \in Indices : Insert(s, i, d) \/ SetAt(s, i, d)
    \/ \E beg \in Indices, len \in 0 .. MaxLen : SetRange(s, beg, len, d) \/ SetMatch(s, beg, len, d)
    \/ \E t \in Strings : SetSubstring(s, t, d)

\* Every splicing method stays in that range.
LEMMA SplicesInRange ==
    ASSUME BufferInv, NEW s \in Strings, NEW d \in Strings, Splices(d, s)
    PROVE  SplicesRange(s, d)
<1> USE SourcesAssumption
<1>1. \A i \in Indices : i \in Int
  BY DEF Indices
<1>2. \A len \in 0 .. MaxLen : len \in Nat
  OBVIOUS
<1>3. CASE Replace(s, d)
  BY <1>3, ReplaceRange
<1>4. CASE Concat(s, d)
  BY <1>4, ConcatRange
<1>5. ASSUME NEW i \in Indices, Insert(s, i, d) PROVE SplicesRange(s, d)
  <2> DEFINE pos == IF i = -1 THEN object[s].len ELSE IF i < 0 THEN i + 1 ELSE i
  <2>1. pos \in Int
    BY <1>1 DEF BufferInv, TypeOK, IsObject
  <2>2. SpliceAt(s, pos, 0, d)
    BY <1>5 DEF Insert
  <2> HIDE DEF pos
  <2> QED BY <2>1, <2>2, SpliceAtRange
<1>6. ASSUME NEW i \in Indices, SetAt(s, i, d) PROVE SplicesRange(s, d)
  BY <1>1, <1>6, SpliceAtRange DEF SetAt
<1>7. ASSUME NEW beg \in Indices, NEW len \in 0 .. MaxLen, SetRange(s, beg, len, d)
      PROVE  SplicesRange(s, d)
  BY <1>1, <1>2, <1>7, SpliceAtRange DEF SetRange
<1>8. ASSUME NEW beg \in Indices, NEW len \in 0 .. MaxLen, SetMatch(s, beg, len, d)
      PROVE  SplicesRange(s, d)
  BY <1>1, <1>2, <1>8, SetMatchRange
<1>9. ASSUME NEW t \in Strings, SetSubstring(s, t, d) PROVE SplicesRange(s, d)
  BY <1>9, SetSubstringRange
<1> QED BY <1>3, <1>4, <1>5, <1>6, <1>7, <1>8, <1>9 DEF Splices

\* So every splice leaves a well made object.
LEMMA SplicesGood ==
    ASSUME BufferInv, NEW s \in Strings, NEW r \in Strings, SplicesRange(s, r)
    PROVE  \E o, b : GoodUpdate(s, o, b)
<1>1. PICK start \in Nat, del \in Nat, self \in BOOLEAN :
        /\ start <= object[s].len /\ del <= object[s].len
        /\ start + del <= object[s].len + 1
        /\ Store(s, start, del, r, self)
  BY DEF SplicesRange
<1>2. \E b : GoodUpdate(s, StoreObject(s, start, del, r, self), b)
  BY <1>1, StoreGood
<1> QED BY <1>2

\* clear.
LEMMA ClearGood ==
    ASSUME BufferInv, NEW s \in Strings, Clear(s)
    PROVE  \E o, b : GoodUpdate(s, o, b) /\ o.len = 0
<1> DEFINE o == Terminate(CapaResize(object[s], 0), 0)
           b == recased[s] /\ ~Reallocates(object[s], 0)
<1>1. IsObject(object[s]) /\ recased[s] \in BOOLEAN /\ (~recased[s] => Roomy(object[s]))
  BY DEF BufferInv, TypeOK, CapacityHolds
<1>2. /\ IsObject(o) /\ o.len = 0
      /\ Roomy(object[s]) => Roomy(o)
      /\ Reallocates(object[s], 0) => Roomy(o)
  BY <1>1, ClearObject
<1>3. object' = [object EXCEPT ![s] = o] /\ recased' = [recased EXCEPT ![s] = b]
  BY DEF Clear, BufferInv, TypeOK
<1>4. b \in BOOLEAN /\ (~b => Roomy(o))
  BY <1>1, <1>2
<1>5. 0 <= MaxLen
  BY SourcesAssumption
<1> HIDE DEF o, b
<1>6. GoodUpdate(s, o, b)
  BY <1>2, <1>3, <1>4, <1>5 DEF GoodUpdate
<1> QED BY <1>2, <1>6

\* A shorter object in the same block.
LEMMA ReshapeGood ==
    ASSUME BufferInv, NEW s \in Strings, NEW o, IsObject(o), o.len <= object[s].len,
           Roomy(object[s]) => Roomy(o), Reshape(s, o)
    PROVE  GoodUpdate(s, o, recased[s])
<1>1. recased' = [recased EXCEPT ![s] = recased[s]]
  BY DEF Reshape, BufferInv, TypeOK
<1>2. /\ object[s].len \in Nat /\ object[s].len <= MaxLen /\ recased[s] \in BOOLEAN
      /\ ~recased[s] => Roomy(object[s])
  BY DEF BufferInv, TypeOK, CapacityHolds, IsObject
<1>3. o.len \in Nat /\ o.len <= MaxLen
  BY <1>2, SourcesAssumption DEF IsObject
<1>4. object' = [object EXCEPT ![s] = o]
  BY DEF Reshape
<1> QED BY <1>1, <1>2, <1>3, <1>4 DEF GoodUpdate

\* lstrip!.
LEMMA LstripGood ==
    ASSUME BufferInv, NEW s \in Strings, Lstrip(s)
    PROVE  \E o, b : GoodUpdate(s, o, b)
<1>1. IsObject(object[s]) /\ object[s].len \in Nat
  BY DEF BufferInv, TypeOK, IsObject
<1>2. PICK k \in 1 .. object[s].len : Reshape(s, DropLeading(object[s], k))
  BY DEF Lstrip
<1> DEFINE o == DropLeading(object[s], k)
<1>3. \E drop \in 1 .. object[s].len :
         IsObject(o) /\ o.len = object[s].len - drop /\ (Roomy(object[s]) => Roomy(o))
  BY <1>1, DropLeadingObject
<1> HIDE DEF o
<1>4. IsObject(o) /\ o.len <= object[s].len /\ (Roomy(object[s]) => Roomy(o))
  BY <1>1, <1>3
<1>5. GoodUpdate(s, o, recased[s])
  BY <1>2, <1>4, ReshapeGood DEF o
<1> QED BY <1>5

\* rstrip!.
LEMMA RstripGood ==
    ASSUME BufferInv, NEW s \in Strings, Rstrip(s)
    PROVE  \E o, b : GoodUpdate(s, o, b)
<1>1. IsObject(object[s]) /\ object[s].len \in Nat
  BY DEF BufferInv, TypeOK, IsObject
<1>2. PICK k \in 1 .. object[s].len : Reshape(s, DropTrailing(object[s], k))
  BY DEF Rstrip
<1> DEFINE o == DropTrailing(object[s], k)
<1>3. \E keep \in 0 .. object[s].len :
         IsObject(o) /\ o.len = keep /\ (Roomy(object[s]) => Roomy(o))
  BY <1>1, DropTrailingObject
<1> HIDE DEF o
<1>4. IsObject(o) /\ o.len <= object[s].len /\ (Roomy(object[s]) => Roomy(o))
  BY <1>1, <1>3
<1>5. GoodUpdate(s, o, recased[s])
  BY <1>2, <1>4, ReshapeGood DEF o
<1> QED BY <1>5

\* strip!, which is one after the other.
LEMMA StripGood ==
    ASSUME BufferInv, NEW s \in Strings, Strip(s)
    PROVE  \E o, b : GoodUpdate(s, o, b)
<1>1. IsObject(object[s]) /\ object[s].len \in Nat
  BY DEF BufferInv, TypeOK, IsObject
<1>2. PICK k \in 0 .. object[s].len, j \in 0 .. object[s].len :
        LET l == DropLeading(object[s], k) IN
        j <= l.len /\ Reshape(s, DropTrailing(l, j))
  BY DEF Strip
<1> DEFINE l == DropLeading(object[s], k)
           o == DropTrailing(l, j)
<1>3. j <= l.len /\ Reshape(s, o)
  BY <1>2
<1>4. IsObject(l) /\ l.len <= object[s].len /\ (Roomy(object[s]) => Roomy(l))
  <2>1. CASE k = 0
    <3>1. l = object[s]
      BY <2>1 DEF DropLeading
    <3> QED BY <1>1, <3>1
  <2>2. CASE k # 0
    <3>1. k \in 1 .. object[s].len
      BY <2>2, <1>1
    <3>2. \E drop \in 1 .. object[s].len :
             IsObject(l) /\ l.len = object[s].len - drop /\ (Roomy(object[s]) => Roomy(l))
      BY <1>1, <3>1, DropLeadingObject
    <3> HIDE DEF l
    <3> QED BY <1>1, <3>2
  <2> QED BY <2>1, <2>2
<1> HIDE DEF l
<1>5. IsObject(o) /\ o.len <= l.len /\ (Roomy(l) => Roomy(o))
  <2>1. CASE j = 0
    <3>1. o = l
      BY <2>1 DEF DropTrailing
    <3> QED BY <1>4, <3>1 DEF IsObject
  <2>2. CASE j # 0
    <3>1. j \in 1 .. l.len /\ l.len \in Nat
      BY <2>2, <1>3, <1>4 DEF IsObject
    <3>2. \E keep \in 0 .. l.len : IsObject(o) /\ o.len = keep /\ (Roomy(l) => Roomy(o))
      BY <1>4, <3>1, DropTrailingObject
    <3> HIDE DEF o
    <3> QED BY <3>1, <3>2
  <2> QED BY <2>1, <2>2
<1> HIDE DEF o
<1>6. o.len <= object[s].len
  BY <1>1, <1>4, <1>5, SMTT(40) DEF IsObject
<1>7. GoodUpdate(s, o, recased[s])
  BY <1>3, <1>4, <1>5, <1>6, ReshapeGood
<1> QED BY <1>7

\* upcase! and downcase!: well made, but for capa and the sentinel.
LEMMA ChangeCaseGood ==
    ASSUME BufferInv, NEW s \in Strings, ChangeCase(s)
    PROVE  \E x \in Forms(Text(object[s])) :
              GoodUpdate(s, CaseBlock(object[s], x), TRUE) /\ Text(CaseBlock(object[s], x)) = x
<1>1. PICK x \in Forms(Text(object[s])) :
        /\ Len(x) <= MaxLen
        /\ object' = [object EXCEPT ![s] = CaseBlock(object[s], x)]
        /\ recased' = [recased EXCEPT ![s] = TRUE]
  BY DEF ChangeCase
<1>2. IsObject(object[s]) /\ x \in Seq(Cells)
  BY FormsType DEF BufferInv, TypeOK
<1> DEFINE o == CaseBlock(object[s], x)
<1>3. IsObject(o) /\ o.len = Len(x) /\ Text(o) = x
  BY <1>2, CaseBlockObject
<1> HIDE DEF o
<1>4. GoodUpdate(s, o, TRUE)
  BY <1>1, <1>3 DEF GoodUpdate, o
<1> QED BY <1>3, <1>4 DEF o

-----------------------------------------------------------------------------
\* A shorter text fits even where capa says too much.
LEMMA ShrinkFits ==
    ASSUME NEW o, IsObject(o), NEW new \in Nat, new <= o.len
    PROVE  Fits(o, new)
<1>1. IsBlock(o) /\ o.len \in Nat /\ o.alloc \in Nat /\ o.len < o.alloc
  BY DEF IsObject, IsBlock
<1>2. new + 1 \in Nat
  OBVIOUS
<1> DEFINE r == CapaResize(o, new + 1)
<1>3. /\ IsBlock(r)
      /\ Reallocates(o, new + 1) => new + 1 <= r.alloc
      /\ ~Reallocates(o, new + 1) => r = o
  BY <1>1, <1>2, CapaResizeKeeps
<1> HIDE DEF r
<1>4. new < r.alloc
  BY <1>1, <1>3 DEF IsBlock
<1> QED BY <1>4 DEF Fits, r

\* slice! gives two strings a well made object.
LEMMA TwoUpdatesKeepInv ==
    ASSUME BufferInv, NEW d \in Strings, NEW s \in Strings, d # s,
           NEW w, IsObject(w), Roomy(w), w.len <= MaxLen,
           NEW o, IsObject(o), o.len <= MaxLen,
           NEW b, b \in BOOLEAN, ~b => Roomy(o),
           object' = [object EXCEPT ![d] = w, ![s] = o],
           recased' = [recased EXCEPT ![d] = FALSE, ![s] = b]
    PROVE  BufferInv'
<1>1. /\ object' = [r \in Strings |-> IF r = s THEN o ELSE IF r = d THEN w ELSE object[r]]
      /\ recased' = [r \in Strings |-> IF r = s THEN b ELSE IF r = d THEN FALSE ELSE recased[r]]
  BY DEF BufferInv, TypeOK
<1>2. \A r \in Strings :
        object'[r] = IF r = s THEN o ELSE IF r = d THEN w ELSE object[r]
  BY <1>1
<1>3. TypeOK'
  <2>1. \A r \in Strings : IsObject(object'[r]) /\ object'[r].len <= MaxLen
    BY <1>2 DEF BufferInv, TypeOK
  <2>2. recased' \in [Strings -> BOOLEAN]
    BY <1>1 DEF BufferInv, TypeOK
  <2>3. object' = [r \in Strings |-> object'[r]]
    BY <1>1
  <2> QED BY <2>1, <2>2, <2>3 DEF TypeOK
<1>4. CapacityHolds'
  <2>1. ASSUME NEW r \in Strings, ~recased'[r] PROVE Roomy(object'[r])
    BY <1>1, <1>2, <2>1 DEF BufferInv, CapacityHolds
  <2> QED BY <2>1 DEF CapacityHolds
<1> QED BY <1>3, <1>4 DEF BufferInv

\* The two objects that s.slice!(beg, len) leaves behind, and their texts.
SliceRange(o, beg, len, start, del) ==
    LET from == RangeFrom(o, beg)
        size == RangeSize(o, from, len)
    IN start = SetCpStart(o.cells, from) /\ del = SetCpLimit(o.cells, size, o.len)

\* The range of slice! and the text it returns.
LEMMA SliceRangeInString ==
    ASSUME NEW o, IsObject(o), NEW beg \in Int, InRange(o, beg), NEW len \in Nat,
           NEW start, NEW del, SliceRange(o, beg, len, start, del)
    PROVE  /\ start \in Nat /\ del \in Nat /\ start <= o.len /\ del <= o.len
           /\ start + del <= o.len + 1
           /\ Leads = {} => start + del <= o.len
           /\ Leads = {} /\ del > 0 => SubstrUnits(o, beg, len) = Slice(o, start, del)
           /\ del = 0 => SubstrUnits(o, beg, len) = << >>
           /\ Len(SubstrUnits(o, beg, len)) <= o.len
           /\ SubstrUnits(o, beg, len) \in Seq(Cells)
<1> DEFINE from == RangeFrom(o, beg)
           size == RangeSize(o, from, len)
           x == SubstrUnits(o, beg, len)
<1>1. from \in 0 .. o.len /\ size \in Nat /\ from + size <= o.len /\ o.len \in Nat
  BY RangeInString DEF IsObject
<1>2. start = SetCpStart(o.cells, from) /\ del = SetCpLimit(o.cells, size, o.len)
  BY DEF SliceRange
<1>3. x = IF size = 0 THEN << >> ELSE Slice(o, start, del)
  BY <1>1, <1>2 DEF SubstrUnits, RangeFrom, RangeSize
<1> HIDE DEF from, size, x
<1>4. from \in Nat /\ size <= o.len
  BY <1>1
<1>5. start \in Nat /\ start <= from
  BY <1>1, <1>2, <1>4, BoundaryBounds
<1>6. del \in Nat /\ del <= size + 1 /\ del <= o.len /\ (size = 0 => del = 0)
  BY <1>1, <1>2, <1>4, BoundaryBounds
<1>7. Leads = {} => start = from /\ del = size
  BY <1>1, <1>2, <1>4, BoundaryIdentity
<1>8. start <= o.len /\ start + del <= o.len + 1 /\ (Leads = {} => start + del <= o.len)
  BY <1>1, <1>5, <1>6, <1>7
<1>9. del = 0 => size = 0
  BY <1>1, <1>2 DEF SetCpLimit
<1>10. x \in Seq(Cells) /\ Len(x) <= o.len
  <2>1. CASE size = 0
    BY <2>1, <1>1, <1>3
  <2>2. CASE size # 0
    BY <2>2, <1>3, <1>5, <1>6, <1>8, SliceType
  <2> QED BY <2>1, <2>2
<1> QED BY <1>3, <1>5, <1>6, <1>7, <1>8, <1>9, <1>10 DEF x

\* What slice! leaves of the string it is called on.
SliceRest(o, start, del) == SpliceUnits(o, start, del, << >>, FALSE)

\* The object it leaves.
LEMMA SliceRestObject ==
    ASSUME NEW o, IsObject(o), NEW start \in Nat, NEW del \in Nat,
           start <= o.len, del <= o.len, start + del <= o.len + 1,
           NEW r, r = SliceRest(o, start, del)
    PROVE  /\ IsObject(r) /\ r.len = o.len - del
           /\ Roomy(o) => Roomy(r)
           /\ del # 0 /\ Reallocates(o, o.len - del + 1) => Roomy(r)
           /\ start + del <= o.len =>
                Text(r) = Promise!Spliced(Text(o), start, del, << >>)
<1> DEFINE y == << >>
           no == FALSE
           new == NewLen(o, del, y)
<1>1. o.len \in Nat /\ y \in Seq(Cells) /\ Len(y) = 0
  BY DEF IsObject
<1>2. new = o.len - del /\ new \in Nat /\ new <= o.len
  BY <1>1 DEF NewLen
<1>3. r = SpliceUnits(o, start, del, y, no)
  BY DEF SliceRest
<1>4. Text(o) \in Seq(Cells) /\ Len(Text(o)) = o.len
  BY TextType
<1>5. CASE del = 0
  <2>1. r = o
    BY <1>3, <1>5 DEF SpliceUnits
  <2> DEFINE x == Text(o)
  <2>2. x = [i \in 1 .. Len(x) |-> x[i]]
    BY <1>4
  <2>3. Promise!Spliced(x, start, del, y) = [i \in 1 .. Len(x) |-> x[i]]
    <3> HIDE DEF x
    <3>1. Len(x) \in Nat /\ Len(x) - del + Len(y) = Len(x)
      BY <1>1, <1>4, <1>5 DEF x
    <3>2. \A i \in 1 .. Len(x) : (IF i <= start THEN x[i]
                                  ELSE IF i <= start + Len(y) THEN y[i - start]
                                  ELSE x[i - Len(y) + del]) = x[i]
      <4> HIDE DEF y
      <4> QED BY <1>1, <1>5, <3>1
    <3> HIDE DEF y
    <3> QED BY <3>1, <3>2 DEF Promise!Spliced
  <2>4. Text(r) = Promise!Spliced(Text(o), start, del, y)
    BY <2>1, <2>2, <2>3
  <2>5. o.len = o.len - del
    BY <1>1, <1>5
  <2> HIDE DEF x
  <2> QED BY <1>5, <2>1, <2>4, <2>5
<1>6. CASE del # 0
  <2>1. SpliceArgs(o, start, del, y)
    BY <1>1, <1>6 DEF SpliceArgs
  <2>2. Fits(o, new)
    BY <1>2, ShrinkFits
  <2> HIDE DEF no, y
  <2>3. /\ IsObject(r) /\ r.len = new
        /\ Roomy(o) => Roomy(r)
        /\ Reallocates(o, new + 1) => Roomy(r)
        /\ start + del <= o.len => Text(r) = Promise!Spliced(Text(o), start, del, y)
    BY <1>3, <2>1, <2>2, SpliceUnitsObject DEF new
  <2> HIDE DEF new
  <2> QED BY <1>2, <2>3 DEF y
<1> QED BY <1>5, <1>6

\* slice! keeps the invariant.
LEMMA SliceBangGood ==
    ASSUME BufferInv, NEW d \in Strings, NEW s \in Strings, NEW beg \in Indices,
           NEW len \in 0 .. MaxLen, SliceBang(d, s, beg, len)
    PROVE  BufferInv'
<1> DEFINE o == object[s]
           x == SubstrUnits(o, beg, len)
           start == SetCpStart(o.cells, RangeFrom(o, beg))
           del == SetCpLimit(o.cells, RangeSize(o, RangeFrom(o, beg), len), o.len)
           w == Wrap(x, Len(x) + 1)
           p == SliceRest(o, start, del)
           b == recased[s] /\ (del = 0 \/ ~Reallocates(o, o.len - del + 1))
<1>1. /\ IsObject(o) /\ o.len <= MaxLen /\ o.len \in Nat
      /\ beg \in Int /\ len \in Nat /\ InRange(o, beg) /\ d # s
      /\ recased[s] \in BOOLEAN /\ (~recased[s] => Roomy(o))
  BY SourcesAssumption DEF BufferInv, TypeOK, CapacityHolds, IsObject, Indices, SliceBang
<1>2. /\ object' = [object EXCEPT ![d] = w, ![s] = p]
      /\ recased' = [recased EXCEPT ![d] = FALSE, ![s] = b]
  BY <1>1 DEF SliceBang, RangeFrom, RangeSize, SliceRest, BufferInv, TypeOK
<1>3. SliceRange(o, beg, len, start, del)
  BY DEF SliceRange
<1> HIDE DEF start, del, o
<1>4. /\ start \in Nat /\ del \in Nat /\ start <= o.len /\ del <= o.len
      /\ start + del <= o.len + 1
      /\ x \in Seq(Cells) /\ Len(x) <= o.len
  BY <1>1, <1>3, SliceRangeInString
<1> HIDE DEF x, p
<1>5. IsObject(w) /\ Roomy(w) /\ w.len = Len(x)
  <2>1. Len(x) + 1 \in Nat
    BY <1>4
  <2> QED BY <1>4, <2>1, WrapObject
<1>6. /\ IsObject(p) /\ p.len = o.len - del
      /\ Roomy(o) => Roomy(p)
      /\ del # 0 /\ Reallocates(o, o.len - del + 1) => Roomy(p)
  BY <1>1, <1>4, SliceRestObject DEF p
<1>7. w.len <= MaxLen /\ p.len <= MaxLen
  BY <1>1, <1>4, <1>5, <1>6, SourcesAssumption, SMTT(40)
<1>8. b \in BOOLEAN /\ (~b => Roomy(p))
  BY <1>1, <1>6
<1> HIDE DEF w, b
<1> QED BY <1>1, <1>2, <1>5, <1>6, <1>7, <1>8, TwoUpdatesKeepInv

-----------------------------------------------------------------------------
\* A new string is well made.
LEMMA BufferInit == Init => BufferInv
<1> SUFFICES ASSUME Init PROVE BufferInv
  OBVIOUS
<1> DEFINE e == << >>
           w == Wrap(e, 0)
<1>1. e \in Seq(Cells) /\ Len(e) = 0 /\ 0 \in Nat /\ 0 <= MaxLen
  BY SourcesAssumption
<1>2. object = [s \in Strings |-> w] /\ recased = [s \in Strings |-> FALSE]
  BY DEF Init
<1> HIDE DEF e
<1>3. IsObject(w) /\ Roomy(w) /\ w.len = Len(e)
  BY <1>1, WrapObject
<1> HIDE DEF w
<1>4. \A s \in Strings : object[s] = w
  BY <1>2
<1>5. object = [s \in Strings |-> object[s]]
  BY <1>2
<1>6. TypeOK
  BY <1>1, <1>2, <1>3, <1>4, <1>5 DEF TypeOK
<1> QED BY <1>3, <1>4, <1>6 DEF BufferInv, CapacityHolds

\* A method that makes a new object in d.
Makes(d, s) ==
    \/ Dup(d, s) \/ Normalize(d, s) \/ Foldcase(d, s)
    \/ \E n \in 0 .. MaxLen : Times(d, s, n)
    \/ \E beg \in Indices, len \in 0 .. MaxLen : Substr(d, s, beg, len)
    \/ \E r \in Strings : Plus(d, s, r)

\* A method that works on s alone.
Works(s) ==
    New(s) \/ Clear(s) \/ Lstrip(s) \/ Rstrip(s) \/ Strip(s) \/ ChangeCase(s)

\* The methods fall into four groups.
LEMMA NextParts ==
    Next => \/ \E s \in Strings : Works(s)
            \/ \E d, s \in Strings : Makes(d, s) \/ Splices(d, s)
            \/ \E d, s \in Strings, beg \in Indices, len \in 0 .. MaxLen :
                 SliceBang(d, s, beg, len)
BY ZenonT(60) DEF Next, Works, Makes, Splices

\* The first group: a new object.
LEMMA MakesGood ==
    ASSUME BufferInv, NEW d \in Strings, NEW s \in Strings, Makes(d, s)
    PROVE  \E o : GoodUpdate(d, o, FALSE)
<1>1. CASE Dup(d, s)
  BY <1>1, DupGood, Zenon
<1>2. CASE Normalize(d, s)
  BY <1>2, NormalizeGood, Zenon
<1>3. CASE Foldcase(d, s)
  BY <1>3, FoldcaseGood, Zenon
<1>4. ASSUME NEW n \in 0 .. MaxLen, Times(d, s, n) PROVE \E o : GoodUpdate(d, o, FALSE)
  BY <1>4, TimesGood, Zenon
<1>5. ASSUME NEW beg \in Indices, NEW len \in 0 .. MaxLen, Substr(d, s, beg, len)
      PROVE  \E o : GoodUpdate(d, o, FALSE)
  BY <1>5, SubstrGood, Zenon
<1>6. ASSUME NEW r \in Strings, Plus(d, s, r) PROVE \E o : GoodUpdate(d, o, FALSE)
  BY <1>6, PlusGood, Zenon
<1> QED BY <1>1, <1>2, <1>3, <1>4, <1>5, <1>6, Zenon DEF Makes

\* The second: a method on one string.
LEMMA WorksGood ==
    ASSUME BufferInv, NEW s \in Strings, Works(s)
    PROVE  \E o, b : GoodUpdate(s, o, b)
<1>1. CASE New(s)
  BY <1>1, NewGood, Zenon
<1>2. CASE Clear(s)
  BY <1>2, ClearGood, Zenon
<1>3. CASE Lstrip(s)
  BY <1>3, LstripGood, Zenon
<1>4. CASE Rstrip(s)
  BY <1>4, RstripGood, Zenon
<1>5. CASE Strip(s)
  BY <1>5, StripGood, Zenon
<1>6. CASE ChangeCase(s)
  BY <1>6, ChangeCaseGood, Zenon
<1> QED BY <1>1, <1>2, <1>3, <1>4, <1>5, <1>6, Zenon DEF Works

\* The invariant is inductive.
LEMMA BufferStep == BufferInv /\ [Next]_vars => BufferInv'
<1> SUFFICES ASSUME BufferInv, [Next]_vars PROVE BufferInv'
  OBVIOUS
<1>1. CASE UNCHANGED vars
  BY <1>1 DEF vars, BufferInv, TypeOK, CapacityHolds, IsObject, Roomy
<1>2. ASSUME NEW s \in Strings, Works(s) PROVE BufferInv'
  BY <1>2, WorksGood, UpdateKeepsInv, Zenon
<1>3. ASSUME NEW d \in Strings, NEW s \in Strings, Makes(d, s) PROVE BufferInv'
  BY <1>3, MakesGood, UpdateKeepsInv, Zenon
<1>4. ASSUME NEW d \in Strings, NEW s \in Strings, Splices(d, s) PROVE BufferInv'
  <2>1. SplicesRange(s, d)
    BY <1>4, SplicesInRange, Zenon
  <2>2. \E o, b : GoodUpdate(s, o, b)
    BY <2>1, SplicesGood, Zenon
  <2> QED BY <2>2, UpdateKeepsInv, Zenon
<1>5. ASSUME NEW d \in Strings, NEW s \in Strings, NEW beg \in Indices,
             NEW len \in 0 .. MaxLen, SliceBang(d, s, beg, len)
      PROVE  BufferInv'
  BY <1>5, SliceBangGood, Zenon
<1> QED BY <1>1, <1>2, <1>3, <1>4, <1>5, NextParts, Zenon

\* So it always holds.
LEMMA BufferInvariant == Spec => []BufferInv
<1>1. Init => BufferInv
  BY BufferInit
<1>2. BufferInv /\ [Next]_vars => BufferInv'
  BY BufferStep
<1> QED BY <1>1, <1>2, PTL DEF Spec

\* Whatever the methods do in whatever order, each string has a block that is
\* longer than its text: str->len never reaches the end of what malloc gave.
THEOREM BufferTypeOK == Spec => []TypeOK
<1>1. BufferInv => TypeOK
  BY DEF BufferInv
<1> QED BY <1>1, BufferInvariant, PTL

\* capa is the size of the block, and the sentinel is in place, until upcase! or
\* downcase! replaces the block.
THEOREM CapacityAlwaysHolds == Spec => []CapacityHolds
<1>1. BufferInv => CapacityHolds
  BY DEF BufferInv
<1> QED BY <1>1, BufferInvariant, PTL

\* So no splice of ustr_splice_units into such a string stores outside its block.
THEOREM StoresAlwaysFit == Spec => []StoresFit
<1>1. BufferInv => StoresFit
  <2> SUFFICES ASSUME BufferInv, NEW s \in Strings, NEW new \in 0 .. MaxLen, ~recased[s]
               PROVE  Fits(object[s], new)
    BY DEF StoresFit
  <2>1. IsObject(object[s]) /\ Roomy(object[s]) /\ new \in Nat
    BY SourcesAssumption DEF BufferInv, TypeOK, CapacityHolds
  <2> QED BY <2>1, RoomyFits
<1> QED BY <1>1, BufferInvariant, PTL

-----------------------------------------------------------------------------
\* The object of icu_ustr_times after i of the n copies of o.
CopiedTo(t, o, n, i) ==
    /\ IsObject(t) /\ Roomy(t)
    /\ t.len = i * o.len
    /\ StartLen <= t.capa /\ t.capa <= AtLeast(n * o.len + 1, StartLen)
    /\ Text(t) = Copies(o, i)

\* Room is made for the copies, though not for the sentinel.
LEMMA TimesBegins ==
    ASSUME NEW o, IsObject(o), NEW n \in Nat
    PROVE  CopiedTo(Wrap(<< >>, n * o.len), o, n, 0)
<1> DEFINE m == n * o.len
           t == Wrap(<< >>, m)
<1>1. o.len \in Nat /\ m \in Nat /\ 0 * o.len = 0
  BY DEF IsObject
<1>2. << >> \in Seq(Cells) /\ Len(<< >>) = 0
  OBVIOUS
<1> HIDE DEF m
<1>3. IsObject(t) /\ Roomy(t) /\ t.len = 0 /\ Text(t) = << >>
  BY <1>1, <1>2, WrapObject
<1>4. t.capa = AtLeast(m, StartLen)
  <2>1. ~(AtLeast(m, StartLen) <= 0)
    BY <1>1, BlockAssumption DEF AtLeast
  <2> QED BY <1>2, <2>1 DEF Wrap, WrapSet
<1>5. StartLen <= t.capa /\ t.capa <= AtLeast(m + 1, StartLen)
  BY <1>1, <1>4, BlockAssumption DEF AtLeast
<1>6. Copies(o, 0) = << >>
  <2>1. Copies(o, 0) \in Seq(Cells) /\ Len(Copies(o, 0)) = 0 * o.len
    BY CopiesType
  <2> QED BY <1>1, <2>1
<1> QED BY <1>1, <1>3, <1>5, <1>6 DEF CopiedTo, m

\* A place in the copy behind k copies.
LEMMA PlaceInCopy ==
    ASSUME NEW l \in Nat \ {0}, NEW k \in Nat, NEW r \in 0 .. l - 1
    PROVE  (k * l + r) % l = r
OBVIOUS

\* A copy behind i copies makes i + 1.
LEMMA CopyBehindCopies ==
    ASSUME NEW o, IsObject(o), o.len > 0, NEW i \in Nat
    PROVE  Promise!Spliced(Copies(o, i), i * o.len, 0, Text(o)) = Copies(o, i + 1)
<1> DEFINE L == o.len
           m == i * L
           x == Copies(o, i)
           y == Text(o)
<1>1. L \in Nat \ {0} /\ m \in Nat /\ (i + 1) * L = m + L
  BY DEF IsObject
<1>2. /\ x = [j \in 1 .. m |-> o.cells[(j - 1) % L]]
      /\ y = [j \in 1 .. L |-> o.cells[j - 1]]
      /\ Len(x) = m /\ Len(y) = L
  BY CopiesType, TextType DEF Copies, Text
<1>3. Copies(o, i + 1) = [j \in 1 .. m + L |-> o.cells[(j - 1) % L]]
  BY <1>1 DEF Copies
<1>4. ASSUME NEW r \in 1 .. L PROVE (m + r - 1) % L = r - 1
  <2>1. r - 1 \in 0 .. L - 1
    BY <1>1
  <2>2. (i * L + (r - 1)) % L = r - 1
    <3> DEFINE q == r - 1
    <3> HIDE DEF q, L
    <3>1. q \in 0 .. L - 1
      BY <2>1 DEF q
    <3>2. (i * L + q) % L = q
      BY <1>1, <3>1, PlaceInCopy
    <3> QED BY <3>2 DEF q
  <2>3. i * L + (r - 1) = m + r - 1
    BY <1>1
  <2> QED BY <2>2, <2>3
<1>5. Promise!Spliced(x, m, 0, y) =
        [j \in 1 .. Len(x) - 0 + Len(y) |->
            IF j <= m THEN x[j] ELSE IF j <= m + Len(y) THEN y[j - m]
            ELSE x[j - Len(y) + 0]]
  BY DEF Promise!Spliced
<1> HIDE DEF L, m, x, y
<1>6. Len(x) - 0 + Len(y) = m + L
  BY <1>1, <1>2
<1>7. ASSUME NEW j \in 1 .. m + L
      PROVE  (IF j <= m THEN x[j] ELSE IF j <= m + Len(y) THEN y[j - m]
              ELSE x[j - Len(y) + 0]) = o.cells[(j - 1) % L]
  <2>1. CASE j <= m
    <3>1. j \in 1 .. m
      BY <1>1, <2>1
    <3> QED BY <1>2, <2>1, <3>1
  <2>2. CASE ~(j <= m)
    <3>1. j - m \in 1 .. L /\ j <= m + Len(y) /\ m + (j - m) - 1 = j - 1 /\ (j - m) - 1 = j - m - 1
      BY <1>1, <1>2, <2>2
    <3>2. (m + (j - m) - 1) % L = (j - m) - 1
      BY <1>4, <3>1
    <3>3. y[j - m] = o.cells[(j - m) - 1]
      BY <1>2, <3>1
    <3> QED BY <2>2, <3>1, <3>2, <3>3
  <2> QED BY <2>1, <2>2
<1>8. Promise!Spliced(x, m, 0, y) = Copies(o, i + 1)
  BY <1>3, <1>5, <1>6, <1>7
<1> QED BY <1>8 DEF x, y, m, L

\* What a splice that takes nothing out leaves of the capacity.
LEMMA GrownCapa ==
    ASSUME NEW t, NEW start, NEW y, Len(y) > 0, Len(y) \in Nat, NEW self
    PROVE  SpliceUnits(t, start, 0, y, self).capa =
                CapaResize(t, t.len - 0 + Len(y) + 1).capa
<1>1. Len(y) >= 0 /\ ~(Len(y) < 0) /\ ~(Len(y) = 0)
  OBVIOUS
<1> QED BY <1>1 DEF SpliceUnits, Terminate, CopyIn, MoveTail, With

\* One more copy.
LEMMA TimesGoesOn ==
    ASSUME NEW o, IsObject(o), o.len > 0, NEW n \in Nat, NEW i \in 0 .. n - 1,
           NEW t, CopiedTo(t, o, n, i)
    PROVE  CopiedTo(SpliceUnits(t, i * o.len, 0, Text(o), FALSE), o, n, i + 1)
<1> DEFINE y == Text(o)
           L == o.len
           start == i * L
           no == FALSE
           del == 0
           r == SpliceUnits(t, start, del, y, no)
<1>1. /\ L \in Nat /\ L > 0 /\ start \in Nat /\ start + L = (i + 1) * L
      /\ (i + 1) * L <= n * L /\ n * L \in Nat
  BY SMTT(40) DEF IsObject
<1>2. y \in Seq(Cells) /\ Len(y) = L
  BY TextType
<1>3. /\ IsObject(t) /\ Roomy(t) /\ t.len = start /\ Text(t) = Copies(o, i)
      /\ StartLen <= t.capa /\ t.capa <= AtLeast(n * L + 1, StartLen)
  BY DEF CopiedTo
<1> HIDE DEF y, L, start
<1>4. SpliceArgs(t, start, del, y)
  BY <1>1, <1>2, <1>3 DEF SpliceArgs
<1>5. NewLen(t, del, y) \in Nat /\ NewLen(t, del, y) = start + L
  BY <1>1, <1>2, <1>3 DEF NewLen
<1>6. Fits(t, NewLen(t, del, y))
  BY <1>3, <1>5, RoomyFits
<1>7. start + del <= t.len
  BY <1>1, <1>3
<1>8. r.capa = CapaResize(t, start + L + 1).capa
  <2>1. Len(y) > 0 /\ Len(y) \in Nat /\ t.len - 0 + Len(y) + 1 = start + L + 1
    BY <1>1, <1>2, <1>3
  <2> QED BY <2>1, GrownCapa
<1>9. r.capa = AtLeast(start + L + 1, StartLen) \/ r.capa = t.capa
  BY <1>8 DEF CapaResize
<1> HIDE DEF r, no, del, NewLen
<1>10. r = SpliceUnits(t, start, del, y, no)
  BY DEF r
<1>11. IsObject(r) /\ r.len = NewLen(t, del, y)
  BY <1>4, <1>6, <1>10, SpliceUnitsObject
<1>12. Roomy(t) => Roomy(r)
  BY <1>4, <1>6, <1>10, SpliceUnitsObject
<1>13. start + del <= t.len => Text(r) = Promise!Spliced(Text(t), start, del, y)
  BY <1>4, <1>6, <1>10, SpliceUnitsObject
<1>14. Text(r) = Copies(o, i + 1)
  <2>1. Promise!Spliced(Copies(o, i), start, 0, y) = Copies(o, i + 1)
    BY <1>1, CopyBehindCopies DEF start, y, L
  <2> QED BY <1>3, <1>7, <1>13, <2>1 DEF del
<1>15. StartLen <= r.capa /\ r.capa <= AtLeast(n * L + 1, StartLen)
  <2>1. AtLeast(start + L + 1, StartLen) <= AtLeast(n * L + 1, StartLen)
        /\ StartLen <= AtLeast(start + L + 1, StartLen)
    BY <1>1, BlockAssumption DEF AtLeast
  <2> QED BY <1>3, <1>9, <2>1
<1>16. CopiedTo(r, o, n, i + 1)
  BY <1>1, <1>3, <1>5, <1>11, <1>12, <1>14, <1>15 DEF CopiedTo, L
<1> QED BY <1>16 DEF r, y, start, L, no, del

-----------------------------------------------------------------------------
\* The objects that the loop of str * n goes through.
Puts(o, n) ==
    LET put[i \in 0 .. n] ==
            IF i = 0 THEN Wrap(<< >>, n * o.len)
            ELSE SpliceUnits(put[i - 1], (i - 1) * o.len, 0, Text(o), FALSE)
    IN put

\* The recursion has a solution.
LEMMA PutsAre ==
    ASSUME NEW o, NEW n \in Nat
    PROVE  \A i \in 0 .. n :
              Puts(o, n)[i] = IF i = 0 THEN Wrap(<< >>, n * o.len)
                              ELSE SpliceUnits(Puts(o, n)[i - 1], (i - 1) * o.len, 0, Text(o), FALSE)
<1> DEFINE Put(f, i) == IF i = 0 THEN Wrap(<< >>, n * o.len)
                        ELSE SpliceUnits(f[i - 1], (i - 1) * o.len, 0, Text(o), FALSE)
           Is(f, k) == f = [i \in 0 .. k |-> Put(f, i)]
           P == {k \in Nat : \E f : Is(f, k)}
<1>1. 0 \in P
  <2> DEFINE f == [i \in 0 .. 0 |-> Wrap(<< >>, n * o.len)]
  <2>1. \A i \in 0 .. 0 : Put(f, i) = Wrap(<< >>, n * o.len)
    OBVIOUS
  <2> HIDE DEF Put
  <2>2. f = [i \in 0 .. 0 |-> Put(f, i)]
    BY <2>1
  <2> HIDE DEF f
  <2> QED BY <2>2
<1>2. ASSUME NEW k \in Nat, k \in P PROVE k + 1 \in P
  <2>1. PICK f : Is(f, k)
    BY <1>2
  <2> DEFINE g == [i \in 0 .. k + 1 |-> IF i <= k THEN f[i] ELSE Put(f, i)]
  <2>2. ASSUME NEW i \in 0 .. k + 1 PROVE g[i] = Put(g, i)
    <3>1. g[i] = Put(f, i)
      <4>1. CASE i <= k
        <5>1. i \in 0 .. k
          BY <4>1
        <5> HIDE DEF Put
        <5> QED BY <2>1, <4>1, <5>1
      <4>2. CASE ~(i <= k)
        <5> HIDE DEF Put
        <5> QED BY <4>2
      <4> QED BY <4>1, <4>2
    <3>2. Put(f, i) = Put(g, i)
      <4>1. CASE i = 0
        BY <4>1
      <4>2. CASE i # 0
        <5>1. i - 1 \in 0 .. k + 1 /\ i - 1 <= k
          BY <4>2
        <5>2. g[i - 1] = f[i - 1]
          BY <5>1
        <5> HIDE DEF g
        <5> QED BY <4>2, <5>2
      <4> QED BY <4>1, <4>2
    <3> QED BY <3>1, <3>2
  <2> HIDE DEF Put
  <2>3. g = [i \in 0 .. k + 1 |-> g[i]]
    OBVIOUS
  <2> HIDE DEF g
  <2>4. Is(g, k + 1)
    BY <2>2, <2>3
  <2> QED BY <2>4
<1>3. \E f : Is(f, n)
  <2> HIDE DEF P, Is
  <2>1. n \in P
    BY <1>1, <1>2, InductionOver
  <2> QED BY <2>1 DEF P
<1>4. Puts(o, n) = CHOOSE f : Is(f, n)
  BY DEF Puts
<1> DEFINE put == Puts(o, n)
<1>5. Is(put, n)
  <2> HIDE DEF Is
  <2> QED BY <1>3, <1>4
<1> HIDE DEF put, Put
<1>6. \A i \in 0 .. n : put[i] = Put(put, i)
  BY <1>5
<1> QED BY <1>6 DEF put, Put

\* Turn by turn.
LEMMA PutsCopy ==
    ASSUME NEW o, IsObject(o), o.len > 0, NEW n \in Nat, NEW i \in 0 .. n
    PROVE  CopiedTo(Puts(o, n)[i], o, n, i)
<1> DEFINE put == Puts(o, n)
           P == {k \in Nat : k <= n => CopiedTo(put[k], o, n, k)}
<1>1. \A k \in 0 .. n :
         put[k] = IF k = 0 THEN Wrap(<< >>, n * o.len)
                  ELSE SpliceUnits(put[k - 1], (k - 1) * o.len, 0, Text(o), FALSE)
  BY PutsAre
<1> HIDE DEF put
<1>2. 0 \in P
  <2>1. 0 \in 0 .. n
    OBVIOUS
  <2>2. put[0] = Wrap(<< >>, n * o.len)
    BY <1>1, <2>1, Zenon
  <2> QED BY <2>2, TimesBegins
<1>3. ASSUME NEW k \in Nat, k \in P PROVE k + 1 \in P
  <2> SUFFICES ASSUME k + 1 <= n PROVE CopiedTo(put[k + 1], o, n, k + 1)
    OBVIOUS
  <2>1. k \in 0 .. n - 1 /\ k + 1 \in 0 .. n /\ k + 1 # 0 /\ (k + 1) - 1 = k
    OBVIOUS
  <2>2. CopiedTo(put[k], o, n, k)
    BY <1>3, <2>1
  <2>3. put[k + 1] = SpliceUnits(put[k], k * o.len, 0, Text(o), FALSE)
    BY <1>1, <2>1, Zenon
  <2> QED BY <2>1, <2>2, <2>3, TimesGoesOn
<1> HIDE DEF P
<1>4. i \in P
  BY <1>2, <1>3, InductionOver
<1> QED BY <1>4 DEF P, put

\* One object made for the result, and the loop's.
LEMMA LoopMakesMultiple ==
    ASSUME NEW o, IsObject(o), o.len > 0, NEW n \in Nat
    PROVE  LET made == Multiple(o, n)
               loop == TimesLoop(o, n)
           IN /\ made.len = loop.len /\ made.capa = loop.capa /\ made.alloc = loop.alloc
              /\ Text(made) = Text(loop)
              /\ IsObject(made) /\ IsObject(loop) /\ Roomy(loop)
<1> DEFINE made == Multiple(o, n)
           loop == TimesLoop(o, n)
           x == Copies(o, n)
           m == n * o.len
<1>1. m \in Nat /\ o.len \in Nat
  BY DEF IsObject
<1>2. x \in Seq(Cells) /\ Len(x) = m
  BY CopiesType
<1>3. made = Wrap(x, m + 1)
  BY <1>2 DEF Multiple, Copies
<1>4. loop = Puts(o, n)[n]
  BY DEF TimesLoop, Puts
<1>5. CopiedTo(loop, o, n, n)
  BY <1>4, PutsCopy
<1>6. /\ IsObject(loop) /\ Roomy(loop) /\ loop.len = m /\ Text(loop) = x
      /\ StartLen <= loop.capa /\ loop.capa <= AtLeast(m + 1, StartLen)
  BY <1>5 DEF CopiedTo
<1> HIDE DEF made, loop, x, m
<1>7. IsObject(made) /\ Roomy(made) /\ made.len = m /\ Text(made) = x
  BY <1>1, <1>2, <1>3, WrapObject
<1>8. made.capa = AtLeast(m + 1, StartLen)
  <2>1. ~(AtLeast(m + 1, StartLen) <= m)
    BY <1>1, BlockAssumption DEF AtLeast
  <2> QED BY <1>2, <1>3, <2>1 DEF Wrap, WrapSet
<1>9. loop.capa = loop.alloc /\ m < loop.alloc /\ made.capa = made.alloc
      /\ loop.alloc \in Nat
  BY <1>6, <1>7 DEF Roomy, IsObject
<1>10. loop.capa = AtLeast(m + 1, StartLen)
  BY <1>1, <1>6, <1>9, BlockAssumption DEF AtLeast
<1> QED BY <1>6, <1>7, <1>8, <1>9, <1>10 DEF made, loop

\* The loop of str * n leaves the block that Times says, whatever the string, the
\* factor, START_BUF_LEN and the slack: no spare capacity and no shortage
\* accumulates over its splices (icu_ustr_times).
THEOREM TimesIsAlwaysItsLoop == Spec => []TimesIsItsLoop
<1>1. BufferInv => TimesIsItsLoop
  <2> SUFFICES ASSUME BufferInv, NEW s \in Strings, NEW n \in 0 .. MaxLen, object[s].len > 0
               PROVE  LET made == Multiple(object[s], n)
                          loop == TimesLoop(object[s], n)
                      IN /\ [made EXCEPT !.cells = Text(made)] = [loop EXCEPT !.cells = Text(loop)]
                         /\ loop.cells[loop.len] = Nul
    BY DEF TimesIsItsLoop
  <2> DEFINE made == Multiple(object[s], n)
             loop == TimesLoop(object[s], n)
  <2>1. IsObject(object[s]) /\ n \in Nat
    BY SourcesAssumption DEF BufferInv, TypeOK
  <2>2. /\ made.len = loop.len /\ made.capa = loop.capa /\ made.alloc = loop.alloc
        /\ Text(made) = Text(loop)
        /\ IsObject(made) /\ IsObject(loop) /\ Roomy(loop)
    BY <2>1, LoopMakesMultiple
  <2> HIDE DEF made, loop
  <2> DEFINE x == Text(made)
  <2>3. x = Text(loop)
    BY <2>2
  <2> HIDE DEF x
  <2>4. [made EXCEPT !.cells = x] = [len |-> made.len, capa |-> made.capa, alloc |-> made.alloc, cells |-> x]
    BY <2>2 DEF IsObject
  <2>5. [loop EXCEPT !.cells = x] = [len |-> loop.len, capa |-> loop.capa, alloc |-> loop.alloc, cells |-> x]
    BY <2>2 DEF IsObject
  <2>6. loop.cells[loop.len] = Nul
    BY <2>2 DEF Roomy
  <2>7. [made EXCEPT !.cells = x] = [loop EXCEPT !.cells = x]
    BY <2>2, <2>4, <2>5
  <2> QED BY <2>3, <2>6, <2>7 DEF x, made, loop
<1> QED BY <1>1, BufferInvariant, PTL
=============================================================================
