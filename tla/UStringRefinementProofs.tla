------------------------ MODULE UStringRefinementProofs ------------------------
(***************************************************************************)
(* UStringBuffer implements UStringValue for texts without surrogate       *)
(* pairs: whatever realloc, memmove and memcpy do to the blocks, the texts *)
(* change as the methods promise, one string at a time.                    *)
(***************************************************************************)
EXTENDS UStringBufferProofs

-----------------------------------------------------------------------------
\* Every text is made of units: nothing that malloc left shows in one.
LegalTexts == \A s \in Strings : Text(object[s]) \in Seq(Units)

RefinementInv == BufferInv /\ LegalTexts

\* A method that gives one string a new object changes one text.
LEMMA UpdateBecomes ==
    ASSUME BufferInv, NEW s \in Strings, NEW o, NEW b, GoodUpdate(s, o, b),
           NEW X, Text(o) \in X
    PROVE  Promise!Becomes(s, X)
<1>1. object' = [object EXCEPT ![s] = o] /\ DOMAIN object = Strings
  BY DEF GoodUpdate, BufferInv, TypeOK
<1>2. \A r \in Strings : object'[r] = IF r = s THEN o ELSE object[r]
  BY <1>1
<1> QED BY <1>2 DEF Promise!Becomes

\* Texts of units that are not too long are the texts of the promise.
LEMMA TextsType ==
    ASSUME BufferInv', LegalTexts'
    PROVE  ([r \in Strings |-> Text(object[r])])' \in [Strings -> Promise!Texts]
<1>1. \A r \in Strings : Text(object'[r]) \in Promise!Texts
  <2> TAKE r \in Strings
  <2>1. IsObject(object'[r]) /\ object'[r].len <= MaxLen
    BY DEF BufferInv, TypeOK
  <2>2. Len(Text(object'[r])) = object'[r].len
    BY <2>1, TextType
  <2>3. Text(object'[r]) \in Seq(Units)
    BY DEF LegalTexts
  <2> QED BY <2>1, <2>2, <2>3 DEF Promise!Texts
<1> QED BY <1>1

\* It leaves texts of units behind, none of them too long.
LEMMA UpdateLegal ==
    ASSUME RefinementInv, NEW s \in Strings, NEW o, NEW b, GoodUpdate(s, o, b),
           Text(o) \in Seq(Units)
    PROVE  /\ LegalTexts'
           /\ ([r \in Strings |-> Text(object[r])])' \in [Strings -> Promise!Texts]
<1>1. object' = [object EXCEPT ![s] = o] /\ DOMAIN object = Strings
  BY DEF GoodUpdate, RefinementInv, BufferInv, TypeOK
<1>2. \A r \in Strings : object'[r] = IF r = s THEN o ELSE object[r]
  BY <1>1
<1>3. LegalTexts'
  BY <1>2 DEF LegalTexts, RefinementInv
<1>4. BufferInv'
  BY UpdateKeepsInv DEF RefinementInv
<1> QED BY <1>3, <1>4, TextsType

\* So it is enough to find the promise that the new text keeps.
LEMMA UpdateKept ==
    ASSUME RefinementInv, NEW s \in Strings, NEW o, NEW b, GoodUpdate(s, o, b),
           Text(o) \in Seq(Units), Promise!Step
    PROVE  LegalTexts' /\ Promise!Next
BY UpdateLegal DEF Promise!Next

-----------------------------------------------------------------------------
\* The texts the promises are made of are sequences of units.
LEMMA SplicedType ==
    ASSUME NEW x \in Seq(Units), NEW y \in Seq(Units), NEW start \in Nat, NEW del \in Nat,
           start + del <= Len(x)
    PROVE  Promise!Spliced(x, start, del, y) \in Seq(Units)
<1> DEFINE n == Len(x) - del + Len(y)
           z == Promise!Spliced(x, start, del, y)
<1>1. n \in Nat
  OBVIOUS
<1>2. \A i \in 1 .. n : (IF i <= start THEN x[i]
                         ELSE IF i <= start + Len(y) THEN y[i - start]
                         ELSE x[i - Len(y) + del]) \in Units
  OBVIOUS
<1>3. z \in [1 .. n -> Units]
  BY <1>2 DEF Promise!Spliced
<1> HIDE DEF z, n
<1> QED BY <1>1, <1>3 DEF z

\* So is the part of a text that a range names.
LEMMA CutType ==
    ASSUME NEW x \in Seq(Units), NEW g \in Promise!Ranges(x)
    PROVE  Promise!Cut(x, g) \in Seq(Units)
<1>1. g[1] \in Nat /\ g[2] \in Nat /\ g[1] + g[2] <= Len(x)
  BY DEF Promise!Ranges
<1>2. \A i \in 1 .. g[2] : x[g[1] + i] \in Units
  BY <1>1
<1>3. Promise!Cut(x, g) \in [1 .. g[2] -> Units]
  BY <1>2 DEF Promise!Cut
<1> QED BY <1>1, <1>3

\* A range is a pair of an index and a length inside the text.
LEMMA RangeOf ==
    ASSUME NEW x \in Seq(Units), NEW start \in Nat, NEW del \in Nat, start + del <= Len(x)
    PROVE  <<start, del>> \in Promise!Ranges(x)
<1>1. start \in 0 .. Len(x) /\ del \in 0 .. Len(x)
  OBVIOUS
<1> QED BY <1>1 DEF Promise!Ranges

-----------------------------------------------------------------------------
\* insert, []=, << and replace: one range of one text is replaced.
LEMMA SplicesKept ==
    ASSUME Leads = {}, RefinementInv, NEW s \in Strings, NEW r \in Strings,
           SplicesRange(s, r)
    PROVE  LegalTexts' /\ Promise!Next
<1>1. BufferInv /\ Text(object[s]) \in Seq(Units) /\ Text(object[r]) \in Seq(Units)
  BY DEF RefinementInv, LegalTexts
<1>2. IsObject(object[s]) /\ object[s].len \in Nat /\ Len(Text(object[s])) = object[s].len
  BY <1>1, TextType DEF BufferInv, TypeOK, IsObject
<1>3. PICK start \in Nat, del \in Nat, self \in BOOLEAN :
        /\ start <= object[s].len /\ del <= object[s].len
        /\ start + del <= object[s].len
        /\ Store(s, start, del, r, self)
  BY DEF SplicesRange
<1> DEFINE o == StoreObject(s, start, del, r, self)
           x == Text(object[s])
           y == Text(object[r])
<1>4. /\ \E b : GoodUpdate(s, o, b)
      /\ Text(o) = Promise!Spliced(x, start, del, y)
  BY <1>1, <1>2, <1>3, StoreGood
<1> HIDE DEF o
<1>5. PICK b : GoodUpdate(s, o, b)
  BY <1>4
<1>6. Text(o) \in Seq(Units)
  BY <1>1, <1>2, <1>3, <1>4, SplicedType
<1>7. <<start, del>> \in Promise!Ranges(x)
  BY <1>1, <1>2, <1>3, RangeOf
<1>8. Text(o) \in {Promise!Spliced(x, g[1], g[2], y) : g \in Promise!Ranges(x)}
  BY <1>4, <1>7
<1>9. Promise!Becomes(s, {Promise!Spliced(x, g[1], g[2], y) : g \in Promise!Ranges(x)})
  BY <1>1, <1>5, <1>8, UpdateBecomes
<1>10. Promise!Splice(s, r)
  BY <1>9 DEF Promise!Splice
<1>11. Promise!Step
  BY <1>10, Zenon DEF Promise!Step
<1> QED BY <1>5, <1>6, <1>11, UpdateKept

-----------------------------------------------------------------------------
\* Units are among the cells, so a text of units is what a block can hold.
LEMMA UnitsAreCells == Seq(Units) \subseteq Seq(Cells)
BY DEF Cells

\* A new string from outside.
LEMMA NewKept ==
    ASSUME RefinementInv, NEW d \in Strings, New(d)
    PROVE  LegalTexts' /\ Promise!Next
<1>1. BufferInv /\ Sources \subseteq Seq(Units) /\ Sources \subseteq Seq(Cells)
  BY SourcesAssumption, UnitsAreCells DEF RefinementInv
<1>2. PICK x \in Sources : \/ Bind(d, Wrap(x, Len(x) + 1))
                          \/ \E spare \in 1 .. Headroom : Bind(d, WrapSet(x, Len(x) + spare))
  BY DEF New
<1>3. x \in Seq(Cells) /\ Len(x) + 1 \in Nat
  BY <1>1
<1>4. \E o : GoodUpdate(d, o, FALSE) /\ Text(o) = x
  <2>1. CASE Bind(d, Wrap(x, Len(x) + 1))
    <3>1. GoodUpdate(d, Wrap(x, Len(x) + 1), FALSE)
      BY <1>1, <1>3, <2>1, BindWrap
    <3>2. Text(Wrap(x, Len(x) + 1)) = x
      BY <1>3, WrapObject
    <3> QED BY <3>1, <3>2
  <2>2. ASSUME NEW spare \in 1 .. Headroom, Bind(d, WrapSet(x, Len(x) + spare))
        PROVE  \E o : GoodUpdate(d, o, FALSE) /\ Text(o) = x
    <3>1. Len(x) + spare \in Nat /\ Len(x) < Len(x) + spare
      BY <1>3, BlockAssumption
    <3>2. GoodUpdate(d, WrapSet(x, Len(x) + spare), FALSE)
      BY <1>1, <1>3, <2>2, <3>1, BindWrapSet
    <3>3. Text(WrapSet(x, Len(x) + spare)) = x
      BY <1>3, <3>1, WrapSetObject
    <3> QED BY <3>2, <3>3
  <2> QED BY <1>2, <2>1, <2>2
<1>5. PICK o : GoodUpdate(d, o, FALSE) /\ Text(o) = x
  BY <1>4
<1>6. Promise!Becomes(d, Sources)
  BY <1>1, <1>5, UpdateBecomes
<1>7. Promise!Step
  BY <1>6, Zenon DEF Promise!Step, Promise!Create
<1> QED BY <1>1, <1>5, <1>7, UpdateKept

\* clear leaves no text.
LEMMA ClearKept ==
    ASSUME RefinementInv, NEW s \in Strings, Clear(s)
    PROVE  LegalTexts' /\ Promise!Next
<1>1. PICK o, b : GoodUpdate(s, o, b) /\ o.len = 0
  BY ClearGood DEF RefinementInv
<1>2. Text(o) = << >>
  BY <1>1 DEF Text
<1>3. Promise!Becomes(s, {<< >>})
  BY <1>1, <1>2, UpdateBecomes DEF RefinementInv
<1>4. Promise!Step
  BY <1>3, Zenon DEF Promise!Step, Promise!Clear
<1>5. << >> \in Seq(Units)
  OBVIOUS
<1>6. Text(o) \in Seq(Units)
  BY <1>2, <1>5
<1> QED BY <1>1, <1>6, <1>4, UpdateKept

\* upcase! and downcase!: the text is what the mapping made of it.
LEMMA ChangeCaseKept ==
    ASSUME RefinementInv, NEW s \in Strings, ChangeCase(s)
    PROVE  LegalTexts' /\ Promise!Next
<1> DEFINE x == Text(object[s])
<1>1. BufferInv /\ Forms(x) \subseteq Seq(Units)
  BY FormsType DEF RefinementInv, LegalTexts
<1>2. PICK y \in Forms(x) :
        GoodUpdate(s, CaseBlock(object[s], y), TRUE) /\ Text(CaseBlock(object[s], y)) = y
  BY <1>1, ChangeCaseGood
<1>3. Promise!Becomes(s, Forms(x))
  BY <1>1, <1>2, UpdateBecomes
<1>4. Promise!Transform(s, s)
  BY <1>3 DEF Promise!Transform
<1>5. Promise!Step
  BY <1>4, Zenon DEF Promise!Step
<1> QED BY <1>1, <1>2, <1>5, UpdateKept

\* normalize, its kin and foldcase.
LEMMA MappedKept ==
    ASSUME RefinementInv, NEW d \in Strings, NEW s \in Strings,
           Normalize(d, s) \/ Foldcase(d, s)
    PROVE  LegalTexts' /\ Promise!Next
<1> DEFINE x == Text(object[s])
<1>1. BufferInv /\ Forms(x) \subseteq Seq(Units)
  BY FormsType DEF RefinementInv, LegalTexts
<1>2. \E y \in Forms(x) : \E capa \in Nat :
         Len(y) < capa /\ GoodUpdate(d, WrapSet(y, capa), FALSE)
  BY <1>1, NormalizeGood, FoldcaseGood
<1>3. PICK y \in Forms(x), capa \in Nat :
         Len(y) < capa /\ GoodUpdate(d, WrapSet(y, capa), FALSE)
  BY <1>2
<1>4. Text(WrapSet(y, capa)) = y
  BY <1>1, <1>3, UnitsAreCells, WrapSetObject
<1>5. Promise!Becomes(d, Forms(x))
  BY <1>1, <1>3, <1>4, UpdateBecomes
<1>6. Promise!Transform(d, s)
  BY <1>5 DEF Promise!Transform
<1>7. Promise!Step
  BY <1>6, Zenon DEF Promise!Step
<1> QED BY <1>1, <1>3, <1>4, <1>7, UpdateKept

\* dup.
LEMMA DupKept ==
    ASSUME RefinementInv, NEW d \in Strings, NEW s \in Strings, Dup(d, s)
    PROVE  LegalTexts' /\ Promise!Next
<1> DEFINE x == Text(object[s])
           o == Wrap(x, object[s].len + 1)
<1>1. BufferInv /\ x \in Seq(Units) /\ object[s].len + 1 \in Nat
  BY SMTT(40) DEF RefinementInv, LegalTexts, BufferInv, TypeOK, IsObject
<1>2. GoodUpdate(d, o, FALSE)
  BY <1>1, DupGood
<1>3. Text(o) = x
  BY <1>1, UnitsAreCells, WrapObject
<1> HIDE DEF o
<1>4. Promise!Becomes(d, {x})
  BY <1>1, <1>2, <1>3, UpdateBecomes
<1>5. Promise!Copy(d, s)
  BY <1>4 DEF Promise!Copy
<1>6. Promise!Step
  BY <1>5, Zenon DEF Promise!Step
<1> QED BY <1>1, <1>2, <1>3, <1>6, UpdateKept

\* str1 + str2.
LEMMA PlusKept ==
    ASSUME RefinementInv, NEW d \in Strings, NEW s \in Strings, NEW r \in Strings,
           Plus(d, s, r)
    PROVE  LegalTexts' /\ Promise!Next
<1> DEFINE x == Text(object[s])
           y == Text(object[r])
           o == PlusObject(s, r)
<1>1. BufferInv /\ x \in Seq(Units) /\ y \in Seq(Units) /\ IsObject(object[s])
  BY DEF RefinementInv, LegalTexts, BufferInv, TypeOK
<1>2. Len(x) = object[s].len
  BY <1>1, TextType
<1>3. GoodUpdate(d, o, FALSE)
  BY <1>1, PlusGood
<1>4. Text(o) = Promise!Spliced(x, Len(x), 0, y)
  BY <1>1, <1>2, PlusMade
<1> HIDE DEF o
<1>5. Text(o) \in Seq(Units)
  <2>1. Len(x) \in Nat /\ Len(x) + 0 <= Len(x)
    BY <1>1
  <2> QED BY <1>1, <1>4, <2>1, SplicedType
<1>6. Promise!Becomes(d, {Promise!Spliced(x, Len(x), 0, y)})
  BY <1>1, <1>3, <1>4, UpdateBecomes
<1>7. Promise!Join(d, s, r)
  BY <1>6 DEF Promise!Join
<1>8. Promise!Step
  BY <1>7, Zenon DEF Promise!Step
<1> QED BY <1>1, <1>3, <1>5, <1>8, UpdateKept

\* str * n: unit i of the product is unit i modulo the length.
LEMMA CopiesRepeat ==
    ASSUME NEW o, IsObject(o), Text(o) \in Seq(Units), NEW n \in Nat
    PROVE  /\ Copies(o, n) = Promise!Repeated(Text(o), n)
           /\ Copies(o, n) \in Seq(Units)
<1> DEFINE x == Text(o)
           m == n * o.len
<1>1. o.len \in Nat /\ Len(x) = o.len
  BY TextType DEF IsObject
<1>2. m \in Nat /\ (o.len = 0 => m = 0)
  BY <1>1
<1>3. x = [i \in 1 .. o.len |-> o.cells[i - 1]]
  BY DEF Text
<1> HIDE DEF m, x
<1>4. ASSUME NEW i \in 1 .. m
      PROVE  /\ o.cells[(i - 1) % o.len] = x[((i - 1) % o.len) + 1]
             /\ x[((i - 1) % o.len) + 1] \in Units
  <2> DEFINE q == (i - 1) % o.len
  <2>1. o.len > 0 /\ i - 1 \in Nat
    BY <1>1, <1>2
  <2>2. q \in 0 .. o.len - 1
    BY <1>1, <2>1
  <2> HIDE DEF q
  <2>3. q + 1 \in 1 .. o.len /\ (q + 1) - 1 = q
    BY <1>1, <2>2
  <2>4. x[q + 1] = o.cells[q]
    BY <1>3, <2>3
  <2>5. x[q + 1] \in Units
    BY <1>1, <2>3 DEF x
  <2> QED BY <2>4, <2>5 DEF q
<1>5. Copies(o, n) = [i \in 1 .. m |-> o.cells[(i - 1) % o.len]]
  BY DEF Copies, m
<1>6. Promise!Repeated(x, n) = [i \in 1 .. m |-> x[((i - 1) % o.len) + 1]]
  BY <1>1 DEF Promise!Repeated, m
<1>7. Copies(o, n) = Promise!Repeated(x, n)
  BY <1>4, <1>5, <1>6
<1>8. Promise!Repeated(x, n) \in [1 .. m -> Units]
  BY <1>4, <1>6
<1> QED BY <1>2, <1>7, <1>8 DEF x

\* str * n.
LEMMA TimesKept ==
    ASSUME RefinementInv, NEW d \in Strings, NEW s \in Strings, NEW n \in 0 .. MaxLen,
           Times(d, s, n)
    PROVE  LegalTexts' /\ Promise!Next
<1> DEFINE x == Text(object[s])
           y == Copies(object[s], n)
           o == Wrap(y, Len(y) + 1)
<1>1. BufferInv /\ x \in Seq(Units) /\ IsObject(object[s]) /\ n \in Nat
  BY SourcesAssumption DEF RefinementInv, LegalTexts, BufferInv, TypeOK
<1>2. y = Promise!Repeated(x, n) /\ y \in Seq(Units)
  BY <1>1, CopiesRepeat
<1>3. GoodUpdate(d, o, FALSE)
  BY <1>1, TimesGood
<1> HIDE DEF y
<1>4. Text(o) = y
  <2>1. y \in Seq(Cells) /\ Len(y) + 1 \in Nat
    BY <1>2, UnitsAreCells
  <2> QED BY <2>1, WrapObject
<1> HIDE DEF o
<1>5. Text(o) \in {Promise!Repeated(x, m) : m \in 0 .. MaxLen}
  BY <1>2, <1>4
<1>6. Promise!Becomes(d, {Promise!Repeated(x, m) : m \in 0 .. MaxLen})
  BY <1>1, <1>3, <1>5, UpdateBecomes
<1>7. Promise!Repeat(d, s)
  BY <1>6 DEF Promise!Repeat
<1>8. Promise!Step
  BY <1>7, Zenon DEF Promise!Step
<1> QED BY <1>2, <1>3, <1>4, <1>8, UpdateKept

-----------------------------------------------------------------------------
\* The units from an index on are a part of the text.
LEMMA SliceIsCut ==
    ASSUME NEW o, IsObject(o), NEW beg \in Nat, NEW n \in Nat, beg + n <= o.len
    PROVE  Slice(o, beg, n) = Promise!Cut(Text(o), <<beg, n>>)
<1>1. o.len \in Nat
  BY DEF IsObject
<1>2. \A i \in 1 .. n : o.cells[beg + i - 1] = Text(o)[beg + i]
  BY <1>1 DEF Text
<1>3. Promise!Cut(Text(o), <<beg, n>>) = [i \in 1 .. n |-> Text(o)[beg + i]]
  BY DEF Promise!Cut
<1> QED BY <1>2, <1>3 DEF Slice

\* The range that str[beg, len] and slice! look up, where no surrogate can move
\* its ends.
LEMMA SubstrIsCut ==
    ASSUME Leads = {}, NEW o, IsObject(o), NEW beg \in Int, InRange(o, beg), NEW len \in Nat
    PROVE  \E start, del \in Nat :
              /\ start + del <= o.len
              /\ SliceRange(o, beg, len, start, del)
              /\ SubstrUnits(o, beg, len) = Promise!Cut(Text(o), <<start, del>>)
<1> DEFINE x == SubstrUnits(o, beg, len)
<1>1. PICK start, del : SliceRange(o, beg, len, start, del)
  BY DEF SliceRange
<1>2. /\ start \in Nat /\ del \in Nat /\ start + del <= o.len
      /\ del > 0 => x = Slice(o, start, del)
      /\ del = 0 => x = << >>
  <2>1. IsObject(o) /\ InRange(o, beg) /\ beg \in Int /\ len \in Nat
    OBVIOUS
  <2>2. start \in Nat /\ del \in Nat
    BY <1>1, <2>1, SliceRangeInString
  <2>3. Leads = {} => start + del <= o.len
    BY <1>1, <2>1, SliceRangeInString
  <2>4. Leads = {} /\ del > 0 => SubstrUnits(o, beg, len) = Slice(o, start, del)
    BY <1>1, <2>1, SliceRangeInString
  <2>5. del = 0 => x = << >>
    BY <1>1, <2>1, SliceRangeInString
  <2> QED BY <2>2, <2>3, <2>4, <2>5
<1> HIDE DEF x
<1>3. x = Promise!Cut(Text(o), <<start, del>>)
  <2>1. CASE del > 0
    BY <1>2, <2>1, SliceIsCut
  <2>2. CASE del = 0
    <3>1. Promise!Cut(Text(o), <<start, del>>) = [i \in 1 .. 0 |-> Text(o)[start + i]]
      BY <2>2 DEF Promise!Cut
    <3>2. [i \in 1 .. 0 |-> Text(o)[start + i]] = << >>
      OBVIOUS
    <3> QED BY <1>2, <2>2, <3>1, <3>2
  <2> QED BY <1>2, <2>1, <2>2
<1> QED BY <1>1, <1>2, <1>3 DEF x

\* str[beg, len].
LEMMA SubstrKept ==
    ASSUME Leads = {}, RefinementInv, NEW d \in Strings, NEW s \in Strings,
           NEW beg \in Indices, NEW len \in 0 .. MaxLen, Substr(d, s, beg, len)
    PROVE  LegalTexts' /\ Promise!Next
<1> DEFINE x == Text(object[s])
           y == SubstrUnits(object[s], beg, len)
           o == Wrap(y, Len(y) + 1)
<1>1. /\ BufferInv /\ x \in Seq(Units) /\ IsObject(object[s]) /\ Len(x) = object[s].len
      /\ beg \in Int /\ len \in Nat /\ InRange(object[s], beg)
  <2>1. BufferInv /\ x \in Seq(Units)
    BY DEF RefinementInv, LegalTexts
  <2>2. IsObject(object[s])
    BY <2>1 DEF BufferInv, TypeOK
  <2>3. Len(x) = object[s].len
    BY <2>2, TextType
  <2>4. beg \in Int /\ len \in Nat
    BY SourcesAssumption DEF Indices
  <2>5. InRange(object[s], beg)
    BY DEF Substr
  <2> HIDE DEF x
  <2> QED BY <2>1, <2>2, <2>3, <2>4, <2>5
<1>2. PICK start \in Nat, del \in Nat :
        start + del <= object[s].len /\ y = Promise!Cut(x, <<start, del>>)
  BY <1>1, SubstrIsCut
<1>3. <<start, del>> \in Promise!Ranges(x)
  BY <1>1, <1>2, RangeOf
<1>4. GoodUpdate(d, o, FALSE)
  BY <1>1, SubstrGood
<1> HIDE DEF y, x
<1>5. y \in Seq(Units)
  BY <1>1, <1>2, <1>3, CutType
<1>6. Text(o) = y
  <2>1. y \in Seq(Cells) /\ Len(y) + 1 \in Nat
    BY <1>5, UnitsAreCells
  <2> QED BY <2>1, WrapObject
<1> HIDE DEF o
<1>7. Text(o) \in {Promise!Cut(x, g) : g \in Promise!Ranges(x)}
  BY <1>2, <1>3, <1>6
<1>8. Promise!Becomes(d, {Promise!Cut(x, g) : g \in Promise!Ranges(x)})
  BY <1>1, <1>4, <1>7, UpdateBecomes
<1>9. Promise!Slice(d, s)
  BY <1>8 DEF Promise!Slice, x
<1>10. Promise!Step
  BY <1>9, Zenon DEF Promise!Step
<1> QED BY <1>4, <1>5, <1>6, <1>10, UpdateKept

-----------------------------------------------------------------------------
\* lstrip!, rstrip! and strip! leave the part of the text between k spaces at its
\* start and j at its end.
LEMMA TrimmedKept ==
    ASSUME RefinementInv, NEW s \in Strings, NEW k \in Nat, NEW j \in Nat,
           k + j <= object[s].len,
           k = 0 \/ LeadingSpaces(Text(object[s]), k),
           j = 0 \/ TrailingSpaces(Text(object[s]), j),
           NEW o, IsObject(o), Roomy(object[s]) => Roomy(o), Reshape(s, o),
           o.len = object[s].len - k - j,
           \A i \in 0 .. o.len - 1 : o.cells[i] = object[s].cells[i + k]
    PROVE  LegalTexts' /\ Promise!Next
<1> DEFINE x == Text(object[s])
           Ends == {e \in Promise!Ranges(x) : /\ e[1] = 0 \/ LeadingSpaces(x, e[1])
                                              /\ e[2] = 0 \/ TrailingSpaces(x, e[2])}
           Kept == {Promise!Cut(x, <<e[1], Len(x) - e[1] - e[2]>>) : e \in Ends}
           n == o.len
<1>1. /\ BufferInv /\ x \in Seq(Units) /\ Len(x) = object[s].len
      /\ object[s].len \in Nat /\ n \in Nat
  <2>1. BufferInv /\ x \in Seq(Units)
    BY DEF RefinementInv, LegalTexts
  <2>2. IsObject(object[s])
    BY <2>1 DEF BufferInv, TypeOK
  <2>3. object[s].len \in Nat /\ n \in Nat
    BY <2>2 DEF IsObject
  <2>4. Len(x) = object[s].len
    BY <2>2, TextType
  <2> HIDE DEF x, n
  <2> QED BY <2>1, <2>3, <2>4
<1>2. GoodUpdate(s, o, recased[s])
  BY <1>1, ReshapeGood
<1>3. Text(o) = Promise!Cut(x, <<k, n>>)
  <2>1. \A i \in 1 .. n : o.cells[i - 1] = x[k + i]
    <3> TAKE i \in 1 .. n
    <3>1. i - 1 \in 0 .. o.len - 1 /\ (i - 1) + k = (k + i) - 1 /\ k + i \in 1 .. object[s].len
      <4>1. n \in Nat /\ object[s].len \in Nat /\ n = object[s].len - k - j
        BY <1>1
      <4> DEFINE m == object[s].len
      <4>2. i \in Nat /\ 1 <= i /\ i <= n
        BY <4>1
      <4>3. i - 1 \in 0 .. n - 1 /\ (i - 1) + k = (k + i) - 1 /\ k + i \in 1 .. m
        <5>1. m \in Nat /\ n = m - k - j
          BY <4>1
        <5> HIDE DEF m, n
        <5> QED BY <4>1, <4>2, <5>1
      <4> QED BY <4>3
    <3>2. o.cells[i - 1] = object[s].cells[(k + i) - 1]
      BY <3>1
    <3> QED BY <3>1, <3>2 DEF Text
  <2>2. Promise!Cut(x, <<k, n>>) = [i \in 1 .. n |-> x[k + i]]
    BY DEF Promise!Cut
  <2> QED BY <2>1, <2>2 DEF Text
<1>4. <<k, j>> \in Promise!Ranges(x) /\ <<k, n>> \in Promise!Ranges(x)
  <2>1. k + j <= Len(x) /\ k + n <= Len(x)
    BY <1>1
  <2> QED BY <1>1, <2>1, RangeOf
<1>5. Text(o) \in Kept
  <2> DEFINE e == <<k, j>>
  <2>1. e \in Ends
    BY <1>4
  <2>2. Promise!Cut(x, <<k, n>>) = Promise!Cut(x, <<e[1], Len(x) - e[1] - e[2]>>)
    BY <1>1
  <2> HIDE DEF Ends, x, e
  <2> QED BY <1>3, <2>1, <2>2
<1>6. Text(o) \in Seq(Units)
  BY <1>1, <1>3, <1>4, CutType
<1> HIDE DEF Ends, n
<1>7. Promise!Becomes(s, Kept)
  BY <1>1, <1>2, <1>5, UpdateBecomes
<1>8. Promise!Trim(s)
  <2>1. [r \in Strings |-> Text(object[r])][s] = x
    OBVIOUS
  <2> HIDE DEF x
  <2>2. \A m : Promise!LeadingSpaces(x, m) <=> LeadingSpaces(x, m)
    BY Zenon DEF Promise!LeadingSpaces, LeadingSpaces
  <2>3. \A m : Promise!TrailingSpaces(x, m) <=> TrailingSpaces(x, m)
    BY Zenon DEF Promise!TrailingSpaces, TrailingSpaces
  <2> DEFINE E == {e \in Promise!Ranges(x) : /\ e[1] = 0 \/ Promise!LeadingSpaces(x, e[1])
                                             /\ e[2] = 0 \/ Promise!TrailingSpaces(x, e[2])}
  <2>4. E = Ends
    BY <2>2, <2>3 DEF Ends
  <2> HIDE DEF E
  <2>5. Promise!Becomes(s, {Promise!Cut(x, <<e[1], Len(x) - e[1] - e[2]>>) : e \in E})
    BY <1>7, <2>4
  <2> QED BY <2>1, <2>5, Zenon DEF Promise!Trim, E
<1>9. Promise!Step
  BY <1>8, Zenon DEF Promise!Step
<1> QED BY <1>2, <1>6, <1>9, UpdateKept

\* lstrip!.
LEMMA LstripKept ==
    ASSUME Leads = {}, RefinementInv, NEW s \in Strings, Lstrip(s)
    PROVE  LegalTexts' /\ Promise!Next
<1>1. IsObject(object[s]) /\ object[s].len \in Nat
  BY DEF RefinementInv, BufferInv, TypeOK, IsObject
<1>2. PICK k \in 1 .. object[s].len :
        /\ LeadingSpaces(Text(object[s]), k)
        /\ Reshape(s, DropLeading(object[s], k))
  BY DEF Lstrip
<1> DEFINE o == DropLeading(object[s], k)
           none == 0
<1>3. /\ IsObject(o) /\ o.len = object[s].len - k
      /\ Roomy(object[s]) => Roomy(o)
      /\ \A i \in 0 .. o.len - 1 : o.cells[i] = object[s].cells[i + k]
  <2> HIDE DEF o
  <2>1. \E drop \in 1 .. object[s].len :
           /\ IsObject(o) /\ o.len = object[s].len - drop
           /\ Roomy(object[s]) => Roomy(o)
           /\ \A i \in 0 .. o.len - 1 : o.cells[i] = object[s].cells[i + drop]
           /\ Leads = {} => drop = k
    BY <1>1, DropLeadingObject DEF o
  <2> QED BY <2>1
<1> HIDE DEF o
<1>4. k \in Nat /\ none \in Nat /\ k + none <= object[s].len /\ o.len = object[s].len - k - none
  BY <1>1, <1>3
<1>5. Reshape(s, o) /\ (none = 0 \/ TrailingSpaces(Text(object[s]), none))
  BY <1>2 DEF o
<1> HIDE DEF none
<1> QED BY <1>2, <1>3, <1>4, <1>5, TrimmedKept

\* rstrip!.
LEMMA RstripKept ==
    ASSUME Leads = {}, RefinementInv, NEW s \in Strings, Rstrip(s)
    PROVE  LegalTexts' /\ Promise!Next
<1>1. IsObject(object[s]) /\ object[s].len \in Nat
  BY DEF RefinementInv, BufferInv, TypeOK, IsObject
<1>2. PICK j \in 1 .. object[s].len :
        /\ TrailingSpaces(Text(object[s]), j)
        /\ Reshape(s, DropTrailing(object[s], j))
  BY DEF Rstrip
<1> DEFINE o == DropTrailing(object[s], j)
           none == 0
<1>3. /\ IsObject(o) /\ o.len = object[s].len - j
      /\ Roomy(object[s]) => Roomy(o)
      /\ \A i \in 0 .. o.len - 1 : o.cells[i] = object[s].cells[i]
  <2> HIDE DEF o
  <2>1. \E keep \in 0 .. object[s].len :
           /\ IsObject(o) /\ o.len = keep
           /\ Roomy(object[s]) => Roomy(o)
           /\ \A i \in 0 .. o.len - 1 : o.cells[i] = object[s].cells[i]
           /\ Leads = {} => keep = object[s].len - j
    BY <1>1, DropTrailingObject DEF o
  <2> QED BY <2>1
<1> HIDE DEF o
<1>4. /\ j \in Nat /\ none \in Nat /\ none + j <= object[s].len
      /\ o.len = object[s].len - none - j
      /\ \A i \in 0 .. o.len - 1 : o.cells[i] = object[s].cells[i + none]
  BY <1>1, <1>3
<1>5. Reshape(s, o) /\ (none = 0 \/ LeadingSpaces(Text(object[s]), none))
  BY <1>2 DEF o
<1> HIDE DEF none
<1> QED BY <1>2, <1>3, <1>4, <1>5, TrimmedKept

\* strip!: what rstrip! finds at the end of what lstrip! left was at the end of
\* the string before.
LEMMA StripKept ==
    ASSUME Leads = {}, RefinementInv, NEW s \in Strings, Strip(s)
    PROVE  LegalTexts' /\ Promise!Next
<1> DEFINE x == Text(object[s])
           full == object[s].len
<1>1. IsObject(object[s]) /\ full \in Nat /\ Len(x) = full
  BY TextType DEF RefinementInv, BufferInv, TypeOK, IsObject
<1>2. PICK k \in 0 .. full, j \in 0 .. full :
        LET l == DropLeading(object[s], k) IN
        /\ LeadingSpaces(x, k)
        /\ j <= l.len /\ TrailingSpaces(Text(l), j)
        /\ Reshape(s, DropTrailing(l, j))
  BY DEF Strip
<1> DEFINE l == DropLeading(object[s], k)
           o == DropTrailing(l, j)
<1>3. LeadingSpaces(x, k) /\ j <= l.len /\ TrailingSpaces(Text(l), j) /\ Reshape(s, o)
  BY <1>2
<1>4. /\ IsObject(l) /\ l.len = full - k
      /\ Roomy(object[s]) => Roomy(l)
      /\ \A i \in 0 .. l.len - 1 : l.cells[i] = object[s].cells[i + k]
  <2>1. CASE k = 0
    <3>1. l = object[s]
      BY <2>1 DEF DropLeading
    <3>2. \A i \in 0 .. full - 1 : i + k = i
      BY <1>1, <2>1
    <3> QED BY <1>1, <2>1, <3>1, <3>2
  <2>2. CASE k # 0
    <3>1. k \in 1 .. object[s].len
      BY <2>2, <1>1
    <3>2. \E drop \in 1 .. object[s].len :
             /\ IsObject(l) /\ l.len = object[s].len - drop
             /\ Roomy(object[s]) => Roomy(l)
             /\ \A i \in 0 .. l.len - 1 : l.cells[i] = object[s].cells[i + drop]
             /\ Leads = {} => drop = k
      BY <1>1, <3>1, DropLeadingObject
    <3> HIDE DEF l
    <3> QED BY <3>2
  <2> QED BY <2>1, <2>2
<1> HIDE DEF l
<1>5. /\ IsObject(o) /\ o.len = l.len - j
      /\ Roomy(l) => Roomy(o)
      /\ \A i \in 0 .. o.len - 1 : o.cells[i] = l.cells[i]
  <2>1. CASE j = 0
    <3>1. o = l
      BY <2>1 DEF DropTrailing
    <3> HIDE DEF o
    <3> QED BY <1>1, <1>4, <2>1, <3>1
  <2>2. CASE j # 0
    <3>1. j \in 1 .. l.len
      BY <1>1, <1>3, <1>4, <2>2
    <3>2. \E keep \in 0 .. l.len :
             /\ IsObject(o) /\ o.len = keep
             /\ Roomy(l) => Roomy(o)
             /\ \A i \in 0 .. o.len - 1 : o.cells[i] = l.cells[i]
             /\ Leads = {} => keep = l.len - j
      BY <1>4, <3>1, DropTrailingObject
    <3> HIDE DEF o
    <3> QED BY <3>2
  <2> QED BY <2>1, <2>2
<1> HIDE DEF o
<1>6. k \in Nat /\ j \in Nat /\ k + j <= full /\ o.len = full - k - j
  BY <1>1, <1>3, <1>4, <1>5
<1>7. \A i \in 0 .. o.len - 1 : o.cells[i] = object[s].cells[i + k]
  BY <1>1, <1>4, <1>5, <1>6
<1>8. j = 0 \/ TrailingSpaces(x, j)
  <2> SUFFICES ASSUME j # 0 PROVE TrailingSpaces(x, j)
    OBVIOUS
  <2> DEFINE z == Text(l)
  <2>1. Len(z) = full - k /\ Len(z) \in Nat /\ Len(x) = full
    BY <1>1, <1>4, <1>6, TextType
  <2>2. \A i \in 1 .. Len(z) : z[i] = x[i + k]
    <3> TAKE i \in 1 .. Len(z)
    <3>1. /\ i \in 1 .. l.len /\ i - 1 \in 0 .. l.len - 1 /\ i + k \in 1 .. full
          /\ (i - 1) + k = (i + k) - 1
      BY <1>1, <1>4, <1>6, <2>1
    <3>2. z[i] = l.cells[i - 1] /\ x[i + k] = object[s].cells[(i + k) - 1]
      BY <3>1 DEF Text
    <3>3. l.cells[i - 1] = object[s].cells[(i - 1) + k]
      BY <1>4, <3>1
    <3> QED BY <3>1, <3>2, <3>3
  <2>3. \A i \in Len(z) - j + 1 .. Len(z) : z[i] \in Spaces
    BY <1>3 DEF TrailingSpaces
  <2>4. j < Len(z) => z[Len(z) - j] \notin Spaces
    BY <1>3 DEF TrailingSpaces
  <2>5. k < Len(x) => x[k + 1] \notin Spaces
    BY <1>3 DEF LeadingSpaces
  <2> HIDE DEF z, x
  <2>6. j < Len(z)
    <3> SUFFICES ASSUME ~(j < Len(z)) PROVE FALSE
      OBVIOUS
    <3>1. j = Len(z) /\ 1 \in Len(z) - j + 1 .. Len(z) /\ 1 \in 1 .. Len(z) /\ k < Len(x)
      <4>1. j <= Len(z)
        BY <1>3, <1>4, <2>1
      <4>2. j = Len(z) /\ j \in Nat /\ j > 0
        BY <4>1, <1>6, <2>1
      <4>3. k < Len(x)
        <5>1. Len(z) = full - k /\ full \in Nat /\ k \in Nat /\ Len(x) = full
          BY <1>1, <1>6, <2>1
        <5> HIDE DEF full
        <5> QED BY <4>2, <5>1
      <4> QED BY <4>2, <4>3
    <3>2. z[1] \in Spaces /\ z[1] = x[1 + k]
      BY <2>2, <2>3, <3>1
    <3>3. 1 + k = k + 1
      BY <1>6
    <3> QED BY <2>5, <3>1, <3>2, <3>3
  <2>7. \A i \in Len(x) - j + 1 .. Len(x) : x[i] \in Spaces
    <3> TAKE i \in Len(x) - j + 1 .. Len(x)
    <3>1. /\ i - k \in Len(z) - j + 1 .. Len(z) /\ i - k \in 1 .. Len(z)
          /\ (i - k) + k = i
      <4>1. Len(x) \in Nat /\ k \in Nat /\ j \in Nat /\ j < Len(z) /\ Len(z) = Len(x) - k
        BY <1>1, <1>6, <2>1, <2>6
      <4>2. i \in Len(x) - j + 1 .. Len(x)
        OBVIOUS
      <4> QED BY <4>1, <4>2
    <3> QED BY <2>2, <2>3, <3>1
  <2>8. x[Len(x) - j] \notin Spaces
    <3>1. Len(z) - j \in 1 .. Len(z) /\ (Len(z) - j) + k = Len(x) - j
      BY <1>1, <1>6, <2>1, <2>6, SMTT(40)
    <3> QED BY <2>2, <2>4, <2>6, <3>1
  <2> QED BY <2>7, <2>8 DEF TrailingSpaces
<1>9. /\ k = 0 \/ LeadingSpaces(x, k)
      /\ Roomy(object[s]) => Roomy(o)
  BY <1>3, <1>4, <1>5
<1> QED BY <1>3, <1>5, <1>6, <1>7, <1>8, <1>9, TrimmedKept

-----------------------------------------------------------------------------
\* slice!: the new string is what the old one loses.
LEMMA SliceBangKept ==
    ASSUME Leads = {}, RefinementInv, NEW d \in Strings, NEW s \in Strings,
           NEW beg \in Indices, NEW len \in 0 .. MaxLen, SliceBang(d, s, beg, len)
    PROVE  LegalTexts' /\ Promise!Next
<1> DEFINE x == Text(object[s])
           y == SubstrUnits(object[s], beg, len)
           w == Wrap(y, Len(y) + 1)
<1>1. /\ BufferInv /\ x \in Seq(Units) /\ IsObject(object[s]) /\ Len(x) = object[s].len
      /\ beg \in Int /\ len \in Nat /\ InRange(object[s], beg) /\ d # s
      /\ object[s].len \in Nat /\ object = [r \in Strings |-> object[r]]
  <2>1. BufferInv /\ x \in Seq(Units)
    BY DEF RefinementInv, LegalTexts
  <2>2. IsObject(object[s]) /\ object = [r \in Strings |-> object[r]]
    BY <2>1 DEF BufferInv, TypeOK
  <2>3. object[s].len \in Nat
    BY <2>2 DEF IsObject
  <2>4. Len(x) = object[s].len
    BY <2>2, TextType
  <2>5. beg \in Int /\ len \in Nat
    BY SourcesAssumption DEF Indices
  <2>6. InRange(object[s], beg) /\ d # s
    BY DEF SliceBang
  <2> HIDE DEF x
  <2> QED BY <2>1, <2>2, <2>3, <2>4, <2>5, <2>6
<1>2. PICK start \in Nat, del \in Nat :
        /\ start + del <= object[s].len
        /\ SliceRange(object[s], beg, len, start, del)
        /\ y = Promise!Cut(x, <<start, del>>)
  BY <1>1, SubstrIsCut
<1> DEFINE p == SliceRest(object[s], start, del)
<1>3. object' = [object EXCEPT ![d] = w, ![s] = p]
  BY <1>2 DEF SliceBang, SliceRange, SliceRest, RangeFrom, RangeSize
<1>4. <<start, del>> \in Promise!Ranges(x)
  BY <1>1, <1>2, RangeOf
<1> HIDE DEF x, y, p
<1>5. y \in Seq(Units)
  BY <1>1, <1>2, <1>4, CutType
<1>6. Text(w) = y
  <2>1. y \in Seq(Cells) /\ Len(y) + 1 \in Nat
    BY <1>5, UnitsAreCells
  <2> QED BY <2>1, WrapObject
<1> HIDE DEF w
<1>7. Text(p) = Promise!Spliced(x, start, del, << >>)
  <2>1. start <= object[s].len /\ del <= object[s].len /\ start + del <= object[s].len + 1
    BY <1>1, <1>2
  <2>2. start + del <= object[s].len => Text(p) = Promise!Spliced(Text(object[s]), start, del, << >>)
    BY <1>1, <2>1, SliceRestObject DEF p
  <2> QED BY <1>2, <2>2 DEF x
<1>8. Text(p) \in Seq(Units)
  <2> DEFINE e == << >>
  <2>1. e \in Seq(Units) /\ start + del <= Len(x) /\ Text(p) = Promise!Spliced(x, start, del, e)
    BY <1>1, <1>2, <1>7
  <2> HIDE DEF e
  <2> QED BY <1>1, <2>1, SplicedType
<1>9. \A r \in Strings : object'[r] = IF r = s THEN p ELSE IF r = d THEN w ELSE object[r]
  BY <1>1, <1>3
<1>10. BufferInv'
  BY <1>1, SliceBangGood
<1>11. LegalTexts'
  BY <1>5, <1>6, <1>8, <1>9 DEF LegalTexts, RefinementInv
<1>12. ([r \in Strings |-> Text(object[r])])' \in [Strings -> Promise!Texts]
  BY <1>10, <1>11, TextsType
<1>13. Promise!Extract(d, s)
  <2> DEFINE g == <<start, del>>
  <2>1. /\ g \in Promise!Ranges(x)
        /\ Text(object'[d]) = Promise!Cut(x, g)
        /\ Text(object'[s]) = Promise!Spliced(x, g[1], g[2], << >>)
    BY <1>1, <1>2, <1>4, <1>6, <1>7, <1>9
  <2>2. \A r \in Strings \ {d, s} : Text(object'[r]) = Text(object[r])
    BY <1>9
  <2> HIDE DEF g
  <2> QED BY <1>1, <2>1, <2>2 DEF Promise!Extract, x
<1>14. Promise!Step
  BY <1>13, Zenon DEF Promise!Step
<1> QED BY <1>11, <1>12, <1>14 DEF Promise!Next

-----------------------------------------------------------------------------
\* At first every text is empty.
LEMMA RefinementInit == Init => RefinementInv /\ Promise!Init
<1> SUFFICES ASSUME Init PROVE RefinementInv /\ Promise!Init
  OBVIOUS
<1> DEFINE e == << >>
           w == Wrap(e, 0)
<1>1. e \in Seq(Cells) /\ e \in Seq(Units)
  OBVIOUS
<1>2. \A s \in Strings : object[s] = w
  BY DEF Init
<1> HIDE DEF e
<1>3. Text(w) = e
  BY <1>1, WrapObject
<1> HIDE DEF w
<1>4. [s \in Strings |-> Text(object[s])] = [s \in Strings |-> e]
  BY <1>2, <1>3
<1>5. Promise!Init
  BY <1>4 DEF Promise!Init, e
<1>6. LegalTexts
  BY <1>1, <1>2, <1>3 DEF LegalTexts
<1>7. BufferInv
  BY BufferInit
<1> QED BY <1>5, <1>6, <1>7 DEF RefinementInv

\* A method that makes a new object keeps the promise.
LEMMA MakesKept ==
    ASSUME Leads = {}, RefinementInv, NEW d \in Strings, NEW s \in Strings, Makes(d, s)
    PROVE  LegalTexts' /\ Promise!Next
<1>1. CASE Dup(d, s)
  BY <1>1, DupKept
<1>2. CASE Normalize(d, s) \/ Foldcase(d, s)
  BY <1>2, MappedKept
<1>3. ASSUME NEW n \in 0 .. MaxLen, Times(d, s, n) PROVE LegalTexts' /\ Promise!Next
  BY <1>3, TimesKept
<1>4. ASSUME NEW beg \in Indices, NEW len \in 0 .. MaxLen, Substr(d, s, beg, len)
      PROVE  LegalTexts' /\ Promise!Next
  BY <1>4, SubstrKept
<1>5. ASSUME NEW r \in Strings, Plus(d, s, r) PROVE LegalTexts' /\ Promise!Next
  BY <1>5, PlusKept
<1> QED BY <1>1, <1>2, <1>3, <1>4, <1>5, Zenon DEF Makes

\* And so does one that works on one string.
LEMMA WorksKept ==
    ASSUME Leads = {}, RefinementInv, NEW s \in Strings, Works(s)
    PROVE  LegalTexts' /\ Promise!Next
<1>1. CASE New(s)
  BY <1>1, NewKept
<1>2. CASE Clear(s)
  BY <1>2, ClearKept
<1>3. CASE Lstrip(s)
  BY <1>3, LstripKept
<1>4. CASE Rstrip(s)
  BY <1>4, RstripKept
<1>5. CASE Strip(s)
  BY <1>5, StripKept
<1>6. CASE ChangeCase(s)
  BY <1>6, ChangeCaseKept
<1> QED BY <1>1, <1>2, <1>3, <1>4, <1>5, <1>6, Zenon DEF Works

\* Every step of the methods is a step of the promise, or changes no text.
LEMMA RefinementStep ==
    ASSUME Leads = {}, RefinementInv, [Next]_vars
    PROVE  RefinementInv' /\ [Promise!Next]_([s \in Strings |-> Text(object[s])])
<1>1. BufferInv'
  BY BufferStep DEF RefinementInv
<1>2. CASE UNCHANGED vars
  <2>1. object' = object
    BY <1>2 DEF vars
  <2>2. LegalTexts'
    BY <2>1 DEF RefinementInv, LegalTexts
  <2>3. UNCHANGED [s \in Strings |-> Text(object[s])]
    BY <2>1
  <2> QED BY <1>1, <2>2, <2>3 DEF RefinementInv
<1>3. CASE Next
  <2>1. ASSUME NEW s \in Strings, Works(s) PROVE LegalTexts' /\ Promise!Next
    BY <2>1, WorksKept
  <2>2. ASSUME NEW d \in Strings, NEW s \in Strings, Makes(d, s)
        PROVE  LegalTexts' /\ Promise!Next
    BY <2>2, MakesKept
  <2>3. ASSUME NEW d \in Strings, NEW s \in Strings, Splices(d, s)
        PROVE  LegalTexts' /\ Promise!Next
    <3>1. SplicesRange(s, d)
      BY <2>3, SplicesInRange DEF RefinementInv
    <3> QED BY <3>1, SplicesKept
  <2>4. ASSUME NEW d \in Strings, NEW s \in Strings, NEW beg \in Indices,
               NEW len \in 0 .. MaxLen, SliceBang(d, s, beg, len)
        PROVE  LegalTexts' /\ Promise!Next
    BY <2>4, SliceBangKept
  <2>5. LegalTexts' /\ Promise!Next
    BY <1>3, <2>1, <2>2, <2>3, <2>4, NextParts, Zenon
  <2> QED BY <1>1, <2>5 DEF RefinementInv
<1> QED BY <1>2, <1>3

\* For strings without surrogate pairs, whatever their number and length and
\* whatever START_BUF_LEN and the slack are, the blocks do to the texts just what
\* UStringValue promises: each method changes the text of the one string it is
\* called on (slice! of two) to one made of texts that were there before.
THEOREM BufferImplementsPromise ==
    ASSUME Leads = {}
    PROVE  Spec => ImplementsPromise
<1>1. Init => RefinementInv /\ Promise!Init
  BY RefinementInit
<1>2. RefinementInv /\ [Next]_vars =>
        RefinementInv' /\ [Promise!Next]_([s \in Strings |-> Text(object[s])])
  BY RefinementStep
<1> QED BY <1>1, <1>2, PTL DEF Spec, ImplementsPromise, Promise!Spec

=============================================================================
