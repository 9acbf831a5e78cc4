------------------------- MODULE ResultBuffersProofs -------------------------
(***************************************************************************)
(* Proofs about ResultBuffers, for all lengths.  What a protocol must be   *)
(* like is said once (Sound), and shown of each of them; the invariants    *)
(* then follow from that, whichever method runs.                           *)
(***************************************************************************)
EXTENDS ResultBuffers, TLAPS

\* What is held when ICU has been asked, at most.
Holds(p) == p.before \cup p.opens \cup {"buf"}

\* The numbers of a protocol.
Numbers(p) ==
    /\ p.blocks[1] \in Nat /\ p.blocks[2] \in Nat
    /\ p.told[1] \in Nat /\ p.told[2] \in Nat
    /\ p.claims[1] \in Nat /\ p.claims[2] \in Nat
    /\ p.looks[1] \in BOOLEAN /\ p.looks[2] \in BOOLEAN
    /\ p.by \in {"copy", "adopt", "swap"}

\* The block is as large as ICU is told; the second attempt is enough.
Fits(p, need) ==
    /\ p.told[1] <= p.blocks[1]
    /\ need > p.told[1] => p.told[2] <= p.blocks[2] /\ need <= p.told[2]
    /\ p.asks = {} => p.told[1] = 0

\* A capacity that is claimed is the block's.
Claims(m, p, n, need) ==
    p.by = "adopt" =>
        /\ m \notin {"normalize", "Array#to_u"} /\ p.asks # {} =>
              p.claims[1] = p.blocks[1] /\ p.told[1] < p.claims[1]
        /\ m = "normalize" =>
              p.claims[1] = n + Slack /\ p.blocks[1] = n + Slack /\ p.asks # {} /\ p.looks[1]
        /\ m = "Array#to_u" =>
              /\ p.blocks[1] = n + 1 /\ p.told[1] = n + 1 /\ p.asks # {} /\ p.looks[1]
              /\ p.claims[1] = IF need < n + 1 THEN n + 1 ELSE n + 2
        /\ need > p.told[1] /\ p.claims[2] # 0 =>
              p.claims[2] = p.blocks[2] /\ need < p.claims[2]
        /\ need > p.told[1] /\ p.claims[2] = 0 => p.blocks[2] = need + 1

\* What is lost is among the known losses.
Frees(m, p) ==
    /\ \A x \in p.early \ p.refusing : <<m, "wrong_type", x>> \in Losses
    /\ m = "format" => p.early = {"arguments"}
    /\ p.opens # {} => \A x \in p.before \ p.unopened : <<m, "not_opened", x>> \in Losses
    /\ p.looks[1] \/ p.looks[2] =>
          \A x \in Holds(p) \ p.failing : <<m, "icu_error", x>> \in Losses
    /\ p.asks = {} => p.before \cup p.opens \subseteq p.ending
    /\ p.by = "copy" => \A x \in Holds(p) \ p.ending : <<m, "text", x>> \in Losses
    /\ p.by = "adopt" => Holds(p) \subseteq p.ending \cup {"buf"}
    /\ p.by = "swap" => m = "upcase!" /\ Holds(p) = {"buf"}
    /\ m = "normalize" => Holds(p) = {"buf"} /\ p.early = {} /\ p.opens = {}
                          /\ p.asks = {"buf"} /\ p.by = "adopt"
    /\ p.asks \subseteq {"buf"}

Sound(m, p, n, need) ==
    Numbers(p) /\ Fits(p, need) /\ Claims(m, p, n, need) /\ Frees(m, p)

USE DEF Copies, Adopts

\* Each of the protocols is sound.
LEMMA ProtocolsAreSound ==
    ASSUME NEW m \in Methods, NEW n \in Lengths, NEW need \in Needs(m, n)
    PROVE  Sound(m, Protocol(m, n, need), n, need)
<1>1. n \in Nat /\ need \in Nat /\ Slack \in Nat /\ Slack > 0
    BY SizesAssumption DEF Needs
<1>2. CASE m = "Array#to_u"
    <2>1. Protocol(m, n, need) = ArrayToU(n, need)
        BY <1>2 DEF Protocol
    <2>2. need <= 2 * n
        BY <1>2 DEF Needs
    <2>3. Numbers(ArrayToU(n, need)) /\ Fits(ArrayToU(n, need), need)
        BY <1>1, <1>2, <2>2 DEF ArrayToU, Numbers, Fits
    <2>4. Claims(m, ArrayToU(n, need), n, need)
        BY <1>1, <1>2, <2>2 DEF ArrayToU, Claims
    <2>5. Frees(m, ArrayToU(n, need))
        BY <1>2 DEF ArrayToU, Frees, Holds, Losses
    <2>6. QED
        BY <2>1, <2>3, <2>4, <2>5 DEF Sound
<1>3. CASE m = "String#to_u"
    <2>1. Protocol(m, n, need) = Utf8ToU(n, need)
        BY <1>3 DEF Protocol
    <2>2. need <= n
        BY <1>3 DEF Needs
    <2>3. Numbers(Utf8ToU(n, need)) /\ Fits(Utf8ToU(n, need), need)
        BY <1>1, <1>3, <2>2 DEF Utf8ToU, Numbers, Fits
    <2>4. Claims(m, Utf8ToU(n, need), n, need)
        BY <1>1, <1>3, <2>2 DEF Utf8ToU, Claims
    <2>5. Frees(m, Utf8ToU(n, need))
        BY <1>3 DEF Utf8ToU, Frees, Holds, Losses
    <2>6. QED
        BY <2>1, <2>3, <2>4, <2>5 DEF Sound
<1>4. CASE m = "String#to_u(enc)"
    <2>1. Protocol(m, n, need) = EncodedToU(n, need)
        BY <1>4 DEF Protocol
    <2>3. Numbers(EncodedToU(n, need)) /\ Fits(EncodedToU(n, need), need)
        BY <1>1, <1>4 DEF EncodedToU, Numbers, Fits
    <2>4. Claims(m, EncodedToU(n, need), n, need)
        BY <1>1, <1>4 DEF EncodedToU, Claims
    <2>5. Frees(m, EncodedToU(n, need))
        BY <1>4 DEF EncodedToU, Frees, Holds, Losses
    <2>6. QED
        BY <2>1, <2>3, <2>4, <2>5 DEF Sound
<1>5. CASE m = "to_s"
    <2>1. Protocol(m, n, need) = ToUtf8(n, need)
        BY <1>5 DEF Protocol
    <2>3. Numbers(ToUtf8(n, need)) /\ Fits(ToUtf8(n, need), need)
        BY <1>1, <1>5 DEF ToUtf8, Numbers, Fits
    <2>4. Claims(m, ToUtf8(n, need), n, need)
        BY <1>1, <1>5 DEF ToUtf8, Claims
    <2>5. Frees(m, ToUtf8(n, need))
        BY <1>5 DEF ToUtf8, Frees, Holds, Losses
    <2>6. QED
        BY <2>1, <2>3, <2>4, <2>5 DEF Sound
<1>6. CASE m = "to_s(enc)"
    <2>1. Protocol(m, n, need) = ToEncoded(n, need)
        BY <1>6 DEF Protocol
    <2>3. Numbers(ToEncoded(n, need)) /\ Fits(ToEncoded(n, need), need)
        BY <1>1, <1>6 DEF ToEncoded, Numbers, Fits
    <2>4. Claims(m, ToEncoded(n, need), n, need)
        BY <1>1, <1>6 DEF ToEncoded, Claims
    <2>5. Frees(m, ToEncoded(n, need))
        BY <1>6 DEF ToEncoded, Frees, Holds, Losses
    <2>6. QED
        BY <2>1, <2>3, <2>4, <2>5 DEF Sound
<1>7. CASE m = "from_u"
    <2>1. Protocol(m, n, need) = FromU(n, need)
        BY <1>7 DEF Protocol
    <2>3. Numbers(FromU(n, need)) /\ Fits(FromU(n, need), need)
        BY <1>1, <1>7 DEF FromU, Numbers, Fits
    <2>4. Claims(m, FromU(n, need), n, need)
        BY <1>1, <1>7 DEF FromU, Claims
    <2>5. Frees(m, FromU(n, need))
        BY <1>7 DEF FromU, Frees, Holds, Losses
    <2>6. QED
        BY <2>1, <2>3, <2>4, <2>5 DEF Sound
<1>8. CASE m = "to_u"
    <2>1. Protocol(m, n, need) = ConverterToU(n, need)
        BY <1>8 DEF Protocol
    <2>3. Numbers(ConverterToU(n, need)) /\ Fits(ConverterToU(n, need), need)
        BY <1>1, <1>8 DEF ConverterToU, Numbers, Fits
    <2>4. Claims(m, ConverterToU(n, need), n, need)
        BY <1>1, <1>8 DEF ConverterToU, Claims
    <2>5. Frees(m, ConverterToU(n, need))
        BY <1>8 DEF ConverterToU, Frees, Holds, Losses
    <2>6. QED
        BY <2>1, <2>3, <2>4, <2>5 DEF Sound
<1>9. CASE m = "convert"
    <2>1. Protocol(m, n, need) = Convert(n, need)
        BY <1>9 DEF Protocol
    <2>3. Numbers(Convert(n, need)) /\ Fits(Convert(n, need), need)
        BY <1>1, <1>9 DEF Convert, Numbers, Fits
    <2>4. Claims(m, Convert(n, need), n, need)
        BY <1>1, <1>9 DEF Convert, Claims
    <2>5. Frees(m, Convert(n, need))
        BY <1>9 DEF Convert, Frees, Holds, Losses
    <2>6. QED
        BY <2>1, <2>3, <2>4, <2>5 DEF Sound
<1>10. CASE m = "normalize"
    <2>1. Protocol(m, n, need) = Normalize(n, need)
        BY <1>10 DEF Protocol
    <2>3. Numbers(Normalize(n, need)) /\ Fits(Normalize(n, need), need)
        BY <1>1, <1>10 DEF Normalize, Numbers, Fits
    <2>4. Claims(m, Normalize(n, need), n, need)
        BY <1>1, <1>10 DEF Normalize, Claims
    <2>5. Frees(m, Normalize(n, need))
        BY <1>10 DEF Normalize, Frees, Holds, Losses
    <2>6. QED
        BY <2>1, <2>3, <2>4, <2>5 DEF Sound
<1>11. CASE m = "foldcase"
    <2>1. Protocol(m, n, need) = Foldcase(n, need)
        BY <1>11 DEF Protocol
    <2>3. Numbers(Foldcase(n, need)) /\ Fits(Foldcase(n, need), need)
        BY <1>1, <1>11 DEF Foldcase, Numbers, Fits
    <2>4. Claims(m, Foldcase(n, need), n, need)
        BY <1>1, <1>11 DEF Foldcase, Claims
    <2>5. Frees(m, Foldcase(n, need))
        BY <1>11 DEF Foldcase, Frees, Holds, Losses
    <2>6. QED
        BY <2>1, <2>3, <2>4, <2>5 DEF Sound
<1>12. CASE m = "upcase!"
    <2>1. Protocol(m, n, need) = ChangeCase(n, need)
        BY <1>12 DEF Protocol
    <2>3. Numbers(ChangeCase(n, need)) /\ Fits(ChangeCase(n, need), need)
        BY <1>1, <1>12 DEF ChangeCase, Numbers, Fits
    <2>4. Claims(m, ChangeCase(n, need), n, need)
        BY <1>1, <1>12 DEF ChangeCase, Claims
    <2>5. Frees(m, ChangeCase(n, need))
        BY <1>12 DEF ChangeCase, Frees, Holds, Losses
    <2>6. QED
        BY <2>1, <2>3, <2>4, <2>5 DEF Sound
<1>13. CASE m = "time_zone"
    <2>1. Protocol(m, n, need) = ZoneName(n, need)
        BY <1>13 DEF Protocol
    <2>3. Numbers(ZoneName(n, need)) /\ Fits(ZoneName(n, need), need)
        BY <1>1, <1>13 DEF ZoneName, Numbers, Fits
    <2>4. Claims(m, ZoneName(n, need), n, need)
        BY <1>1, <1>13 DEF ZoneName, Claims
    <2>5. Frees(m, ZoneName(n, need))
        BY <1>13 DEF ZoneName, Frees, Holds, Losses
    <2>6. QED
        BY <2>1, <2>3, <2>4, <2>5 DEF Sound
<1>14. CASE m = "format_date"
    <2>1. Protocol(m, n, need) = FormatDate(n, need)
        BY <1>14 DEF Protocol
    <2>3. Numbers(FormatDate(n, need)) /\ Fits(FormatDate(n, need), need)
        BY <1>1, <1>14 DEF FormatDate, Numbers, Fits
    <2>4. Claims(m, FormatDate(n, need), n, need)
        BY <1>1, <1>14 DEF FormatDate, Claims
    <2>5. Frees(m, FormatDate(n, need))
        BY <1>14 DEF FormatDate, Frees, Holds, Losses
    <2>6. QED
        BY <2>1, <2>3, <2>4, <2>5 DEF Sound
<1>15. CASE m = "sort_key"
    <2>1. Protocol(m, n, need) = SortKey(n, need)
        BY <1>15 DEF Protocol
    <2>3. Numbers(SortKey(n, need)) /\ Fits(SortKey(n, need), need)
        BY <1>1, <1>15 DEF SortKey, Numbers, Fits
    <2>4. Claims(m, SortKey(n, need), n, need)
        BY <1>1, <1>15 DEF SortKey, Claims
    <2>5. Frees(m, SortKey(n, need))
        BY <1>15 DEF SortKey, Frees, Holds, Losses
    <2>6. QED
        BY <2>1, <2>3, <2>4, <2>5 DEF Sound
<1>16. CASE m = "split"
    <2>1. Protocol(m, n, need) = Split(n, need)
        BY <1>16 DEF Protocol
    <2>3. Numbers(Split(n, need)) /\ Fits(Split(n, need), need)
        BY <1>1, <1>16 DEF Split, Numbers, Fits
    <2>4. Claims(m, Split(n, need), n, need)
        BY <1>1, <1>16 DEF Split, Claims
    <2>5. Frees(m, Split(n, need))
        BY <1>16 DEF Split, Frees, Holds, Losses
    <2>6. QED
        BY <2>1, <2>3, <2>4, <2>5 DEF Sound
<1>17. CASE m = "format"
    <2>1. Protocol(m, n, need) = FormatMessage(n, need)
        BY <1>17 DEF Protocol
    <2>3. Numbers(FormatMessage(n, need)) /\ Fits(FormatMessage(n, need), need)
        BY <1>1, <1>17 DEF FormatMessage, Numbers, Fits
    <2>4. Claims(m, FormatMessage(n, need), n, need)
        BY <1>1, <1>17 DEF FormatMessage, Claims
    <2>5. Frees(m, FormatMessage(n, need))
        BY <1>17 DEF FormatMessage, Frees, Holds, Losses
    <2>6. QED
        BY <2>1, <2>3, <2>4, <2>5 DEF Sound
<1>18. CASE m = "translit"
    <2>1. Protocol(m, n, need) = Transliterate(n, need)
        BY <1>18 DEF Protocol
    <2>3. Numbers(Transliterate(n, need)) /\ Fits(Transliterate(n, need), need)
        BY <1>1, <1>18 DEF Transliterate, Numbers, Fits
    <2>4. Claims(m, Transliterate(n, need), n, need)
        BY <1>1, <1>18 DEF Transliterate, Claims
    <2>5. Frees(m, Transliterate(n, need))
        BY <1>18 DEF Transliterate, Frees, Holds, Losses
    <2>6. QED
        BY <2>1, <2>3, <2>4, <2>5 DEF Sound
<1>19. QED
    BY <1>2, <1>3, <1>4, <1>5, <1>6, <1>7, <1>8, <1>9, <1>10, <1>11, <1>12, <1>13, <1>14, <1>15, <1>16, <1>17, <1>18 DEF Methods

-----------------------------------------------------------------------------
\* Under way: the method and the lengths are possible ones, nothing is returned.
Called ==
    /\ call.method \in Methods /\ call.len \in Lengths
    /\ call.need \in Needs(call.method, call.len)

Underway == pc # "ended" => Called /\ outcome = "none" /\ result = NoResult

\* What an attempt leaves.
Attempted ==
    /\ block = P.blocks[Last]
    /\ tries = 2 => call.need > P.told[1]
    /\ status = "ok" => /\ report = call.need /\ call.need <= extent
                        /\ call.need <= P.told[Last]
    /\ status = "error" => report <= call.need /\ report = extent /\ report <= P.told[Last]

Progress ==
    /\ pc \in {"arguments", "opening"} => tries = 0 /\ extent = 0
    /\ pc = "arguments" => held \subseteq P.early
    /\ pc = "opening" => held \subseteq P.before
    /\ pc = "asking" => /\ tries \in {0, 1}
                        /\ tries = 0 => extent = 0 /\ held \subseteq P.before \cup P.opens
                        /\ tries = 1 => call.need > P.told[1]
    /\ pc = "asked" => tries \in {1, 2} /\ status # "overflow" /\ Attempted
    /\ pc \in {"asking", "asked"} =>
          /\ held \subseteq Holds(P)
          /\ tries = 1 => held \subseteq P.before \cup P.opens \cup P.asks

\* A call that has ended.
Ended == outcome # "none" => Called

IInv ==
    /\ TypeOK /\ Underway /\ Progress /\ Ended
    /\ StoresInBlock /\ ReturnsWhole /\ CapacityIsTrue /\ RefusesExactGuess
    /\ LosesNothingElse

\* The protocol of the call is sound.
LEMMA CallIsSound ==
    ASSUME Called
    PROVE  /\ Sound(call.method, P, call.len, call.need)
           /\ call.len \in Nat /\ call.need \in Nat /\ call.need <= MaxNeed
           /\ Slack \in Nat \ {0}
BY ProtocolsAreSound, SizesAssumption DEF Called, P, Needs

\* Initially nothing has been called.
LEMMA InitIInv == Init => IInv
BY SizesAssumption
DEF Init, IInv, TypeOK, Underway, Progress, Ended, StoresInBlock, ReturnsWhole,
    CapacityIsTrue, RefusesExactGuess, LosesNothingElse, NoCall, NoResult

\* A method is called.
LEMMA BeginKeeps ==
    ASSUME IInv, NEW m \in Methods, NEW n \in Lengths, NEW need \in Needs(m, n),
           Begin(m, n, need)
    PROVE  IInv'
<1>1. call' = [method |-> m, len |-> n, need |-> need] /\ need \in 0 .. MaxNeed
    BY DEF Begin, Needs
<1>2. TypeOK'
    BY <1>1, SizesAssumption DEF IInv, TypeOK, Begin, NoResult
<1>3. Underway' /\ Ended'
    BY <1>1 DEF Underway, Ended, Called, Begin
<1>4. Progress'
    BY <1>1 DEF Progress, Begin, P
<1>5. StoresInBlock' /\ ReturnsWhole' /\ CapacityIsTrue' /\ RefusesExactGuess' /\ LosesNothingElse'
    BY DEF Begin, StoresInBlock, ReturnsWhole, CapacityIsTrue, RefusesExactGuess,
        LosesNothingElse
<1>6. QED
    BY <1>2, <1>3, <1>4, <1>5 DEF IInv

\* The properties of a call that has ended say nothing of one that runs.
LEMMA RunningKeeps ==
    ASSUME IInv, pc # "ended", pc' # "ended", UNCHANGED <<call, outcome, result>>,
           TypeOK', Progress', StoresInBlock'
    PROVE  IInv'
<1>1. Called /\ outcome = "none" /\ result = NoResult
    BY DEF IInv, Underway
<1>2. Underway' /\ Ended'
    BY <1>1 DEF Underway, Ended, Called
<1>3. ReturnsWhole' /\ CapacityIsTrue' /\ RefusesExactGuess' /\ LosesNothingElse'
    BY <1>1 DEF ReturnsWhole, CapacityIsTrue, RefusesExactGuess, LosesNothingElse
<1>4. QED
    BY <1>2, <1>3 DEF IInv

\* The steps before ICU is asked.
LEMMA AcceptKeeps == ASSUME IInv, Accept PROVE IInv'
<1>1. TypeOK'
    BY DEF IInv, TypeOK, Accept, Goes, Attempt
<1>2. P' = P /\ pc = "arguments"
    BY DEF Accept, P
<1>3. Progress'
    BY <1>2 DEF IInv, Progress, Accept, Goes, Attempt
<1>4. StoresInBlock'
    BY DEF IInv, StoresInBlock, Accept, Attempt
<1>5. QED
    BY <1>1, <1>3, <1>4, RunningKeeps DEF Accept, Goes

\* Likewise.
LEMMA OpenKeeps == ASSUME IInv, Open PROVE IInv'
<1>1. TypeOK'
    BY DEF IInv, TypeOK, Open, Goes, Attempt
<1>2. P' = P /\ pc = "opening"
    BY DEF Open, P
<1>3. Progress'
    BY <1>2 DEF IInv, Progress, Open, Goes, Attempt, Holds
<1>4. StoresInBlock'
    BY DEF IInv, StoresInBlock, Open, Attempt
<1>5. QED
    BY <1>1, <1>3, <1>4, RunningKeeps DEF Open, Goes

\* An attempt.  P' is P, and the attempt was the first or, if the first was not
\* enough, the second.
LEMMA AskKeeps == ASSUME IInv, Ask \/ AskFails PROVE IInv'
<1> DEFINE n == call.len
           need == call.need
<1>1. pc = "asking" /\ Called /\ P' = P /\ call' = call
    BY DEF Ask, AskFails, Asks, P, IInv, Underway
<1>2. /\ Sound(call.method, P, n, need) /\ need \in Nat
    BY <1>1, CallIsSound
<1>3. /\ tries \in {0, 1} /\ Later \in {1, 2} /\ (Later = 1 <=> tries = 0)
      /\ Later = 2 => need > P.told[1]
      /\ tries' = Later /\ Last' = Later /\ block' = P.blocks[Later]
    BY <1>1 DEF IInv, Progress, Later, Ask, AskFails, Asks, Last
<1>4. /\ P.told[Later] \in Nat /\ P.blocks[Later] \in Nat
      /\ P.told[Later] <= P.blocks[Later]
      /\ Later = 2 => need <= P.told[Later]
    BY <1>2, <1>3 DEF Sound, Numbers, Fits
<1>5. TypeOK' /\ extent' <= P.told[Later]
    <2>1. report' \in Nat /\ extent' \in Nat /\ extent' <= P.told[Later]
        BY <1>2, <1>4 DEF Ask, AskFails
    <2>2. status' \in {"ok", "overflow", "error"} /\ pc' \in {"asking", "asked"}
        BY DEF Ask, AskFails, Goes
    <2>3. QED
        BY <2>1, <2>2, <1>1, <1>3, <1>4 DEF IInv, TypeOK, Ask, AskFails, Asks, Goes
<1>6. StoresInBlock'
    BY <1>3, <1>4, <1>5 DEF StoresInBlock, IInv, TypeOK
<1>7. /\ pc' = "asking" => tries' = 1 /\ need > P.told[1]
      /\ pc' = "asked" => status' # "overflow"
      /\ pc' \in {"asking", "asked"}
    BY <1>2, <1>3, <1>4 DEF Ask, AskFails, Goes, Asks
<1>8. pc' = "asked" => Attempted'
    BY <1>1, <1>2, <1>3, <1>4 DEF Attempted, Ask, AskFails
<1>9. /\ held' \subseteq Holds(P)
      /\ tries' = 1 => held' \subseteq P.before \cup P.opens \cup P.asks
    <2>1. held \subseteq Holds(P)
        BY <1>1 DEF IInv, Progress
    <2>2. tries = 0 => held \subseteq P.before \cup P.opens
        BY <1>1 DEF IInv, Progress
    <2>3. P.asks \subseteq {"buf"}
        BY <1>2 DEF Sound, Frees
    <2>4. QED
        BY <1>3, <2>1, <2>2, <2>3 DEF Ask, AskFails, Asks, Holds
<1>10. Progress'
    <2>1. tries' \in {1, 2}
        BY <1>3
    <2>2. QED
        BY <2>1, <1>1, <1>7, <1>8, <1>9 DEF Progress
<1>11. QED
    BY <1>1, <1>5, <1>6, <1>7, <1>10, RunningKeeps DEF Ask, AskFails, Goes

-----------------------------------------------------------------------------
\* The end of a call.
LEMMA EndingKeeps ==
    ASSUME IInv, pc # "ended", pc' = "ended", outcome' # "none", call' = call,
           TypeOK', StoresInBlock', ReturnsWhole', CapacityIsTrue', RefusesExactGuess',
           LosesNothingElse'
    PROVE  IInv'
<1>1. Called
    BY DEF IInv, Underway
<1>2. Underway' /\ Ended' /\ Progress'
    BY <1>1 DEF Underway, Ended, Called, Progress
<1>3. QED
    BY <1>2 DEF IInv

\* A call that ends in an exception other than the one of icu_ustr_new_set returns
\* no text: only what it loses is in question.
LEMMA RaisingKeeps ==
    ASSUME IInv, pc # "ended", NEW how \in {"wrong_type", "argument_raised", "not_opened", "icu_error"},
           Ends(how), UNCHANGED <<call, Attempt, result>>,
           ~(call.method = "normalize" /\ status = "ok" /\ call.need = call.len + Slack),
           \A x \in held' : <<call.method, how, x>> \in Losses
    PROVE  IInv'
<1>1. TypeOK' /\ StoresInBlock'
    BY DEF IInv, TypeOK, StoresInBlock, Ends, Attempt
<1>2. ReturnsWhole' /\ CapacityIsTrue' /\ LosesNothingElse'
    BY DEF ReturnsWhole, CapacityIsTrue, LosesNothingElse, Ends
<1>3. RefusesExactGuess'
    BY DEF RefusesExactGuess, Ends, Attempt
<1>4. QED
    BY <1>1, <1>2, <1>3, EndingKeeps DEF Ends

\* Refuse, ArgumentRaises, OpenFails and Raise.
LEMMA FailuresKeep ==
    ASSUME IInv, Refuse \/ ArgumentRaises \/ OpenFails \/ Raise
    PROVE  IInv'
<1>1. pc # "ended" /\ Called /\ Sound(call.method, P, call.len, call.need)
    BY CallIsSound DEF Refuse, ArgumentRaises, OpenFails, Raise, IInv, Underway
<1>2. Frees(call.method, P)
    BY <1>1 DEF Sound
<1>3. CASE Refuse
    <2>1. held \subseteq P.early
        BY <1>3 DEF IInv, Progress, Refuse
    <2>2. \A x \in held' : <<call.method, "wrong_type", x>> \in Losses
        BY <1>2, <1>3, <2>1 DEF Frees, Refuse
    <2>3. call.method # "normalize"
        BY <1>2, <1>3 DEF Frees, Refuse
    <2>4. QED
        BY <1>1, <1>3, <2>2, <2>3, RaisingKeeps DEF Refuse
<1>4. CASE ArgumentRaises
    <2>1. held \subseteq P.early /\ held' = held
        BY <1>4 DEF IInv, Progress, ArgumentRaises
    <2>2. \A x \in held' : <<call.method, "argument_raised", x>> \in Losses
        BY <1>2, <1>4, <2>1 DEF Frees, ArgumentRaises, Losses
    <2>3. QED
        BY <1>1, <1>4, <2>2, RaisingKeeps DEF ArgumentRaises
<1>5. CASE OpenFails
    <2>1. held \subseteq P.before
        BY <1>5 DEF IInv, Progress, OpenFails
    <2>2. \A x \in held' : <<call.method, "not_opened", x>> \in Losses
        BY <1>2, <1>5, <2>1 DEF Frees, OpenFails
    <2>3. call.method # "normalize"
        BY <1>2, <1>5 DEF Frees, OpenFails
    <2>4. QED
        BY <1>1, <1>5, <2>2, <2>3, RaisingKeeps DEF OpenFails
<1>6. CASE Raise
    <2>1. held \subseteq Holds(P) /\ tries \in {1, 2}
        BY <1>6 DEF IInv, Progress, Raise
    <2>2. P.looks[1] \/ P.looks[2]
        BY <1>6, <2>1 DEF Raise, Noticed, Last
    <2>3. \A x \in held' : <<call.method, "icu_error", x>> \in Losses
        BY <1>2, <1>6, <2>1, <2>2 DEF Frees, Raise
    <2>4. status # "ok"
        BY <1>6 DEF Raise, Noticed
    <2>5. QED
        BY <1>1, <1>6, <2>3, <2>4, RaisingKeeps DEF Raise
<1>7. QED
    BY <1>3, <1>4, <1>5, <1>6

\* A call that returns: what is known when it does.
LEMMA WhenAsked ==
    ASSUME IInv, pc = "asked", ~Noticed
    PROVE  /\ Called /\ Sound(call.method, P, call.len, call.need)
           /\ call.len \in Nat /\ call.need \in Nat /\ Slack \in Nat \ {0}
           /\ extent \in Nat /\ report \in Nat /\ block \in Nat /\ extent <= block
           /\ tries \in {1, 2} /\ status \in {"ok", "error"} /\ Attempted
           /\ status = "error" => ~P.looks[Last]
           /\ held \subseteq Holds(P)
           /\ tries = 1 => held \subseteq P.before \cup P.opens \cup P.asks
<1>1. Called
    BY DEF IInv, Underway
<1>2. QED
    BY <1>1, CallIsSound DEF IInv, TypeOK, Progress, StoresInBlock, Noticed

\* A first question that is answered with 0.
LEMMA NothingKeeps == ASSUME IInv, ReturnNothing PROVE IInv'
<1>1. pc = "asked" /\ ~Noticed /\ Nothing /\ P' = P /\ Nothing' = Nothing
    BY DEF ReturnNothing, Nothing, P, Attempt
<1>2. /\ Sound(call.method, P, call.len, call.need) /\ call.need \in Nat
      /\ tries = 1 /\ P.asks = {} /\ held \subseteq P.before \cup P.opens
      /\ Attempted /\ extent \in Nat /\ status \in {"ok", "error"}
    BY <1>1, WhenAsked DEF Nothing
<1>3. call.need = 0 \/ status # "ok"
    BY <1>2 DEF Attempted, Sound, Fits, Last
<1>4. held' = {}
    BY <1>2 DEF Sound, Frees, ReturnNothing
<1>5. TypeOK' /\ StoresInBlock' /\ outcome' \in {"nil", "text"}
    BY DEF IInv, TypeOK, StoresInBlock, ReturnNothing, Ends, Attempt
<1>6. ReturnsWhole'
    <2>1. result = NoResult /\ result' = result /\ extent' = extent /\ status' = status
          /\ call' = call
        BY <1>1 DEF IInv, Underway, ReturnNothing, Attempt
    <2>2. status' \in {"ok", "error"} /\ result'.len = 0
        BY <1>2, <2>1 DEF NoResult
    <2>3. QED
        BY <1>2, <1>3, <2>1, <2>2 DEF ReturnsWhole
<1>7. CapacityIsTrue'
    BY <1>1 DEF CapacityIsTrue
<1>8. RefusesExactGuess'
    <2>1. call.method # "normalize"
        BY <1>2 DEF Sound, Frees
    <2>2. QED
        BY <2>1, <1>5 DEF RefusesExactGuess, ReturnNothing
<1>9. LosesNothingElse'
    BY <1>4 DEF LosesNothingElse
<1>10. QED
    BY <1>5, <1>6, <1>7, <1>8, <1>9, EndingKeeps DEF ReturnNothing, Ends

\* A result that is copied.
LEMMA CopyKeeps == ASSUME IInv, ReturnCopy PROVE IInv'
<1>1. pc = "asked" /\ ~Noticed /\ P' = P /\ P.by = "copy" /\ Nothing' = Nothing
    BY DEF ReturnCopy, P, Attempt, Nothing
<1>2. /\ Sound(call.method, P, call.len, call.need) /\ call.need \in Nat
      /\ report \in Nat /\ extent \in Nat /\ held \subseteq Holds(P)
      /\ Attempted /\ status \in {"ok", "error"}
    BY <1>1, WhenAsked
<1>3. TypeOK' /\ StoresInBlock'
    BY <1>2 DEF IInv, TypeOK, StoresInBlock, ReturnCopy, Ends, Attempt
<1>4. ReturnsWhole'
    <2>1. result'.len = report /\ extent' = extent /\ status' = status /\ call' = call
        BY DEF ReturnCopy, Attempt
    <2>2. report <= extent /\ (status # "error" => report = call.need)
        BY <1>2 DEF Attempted
    <2>3. QED
        BY <2>1, <2>2 DEF ReturnsWhole
<1>5. CapacityIsTrue'
    BY <1>1 DEF CapacityIsTrue
<1>6. call.method # "normalize"
    BY <1>1, <1>2 DEF Sound, Frees
<1>7. RefusesExactGuess'
    BY <1>6 DEF RefusesExactGuess, ReturnCopy, Ends
<1>8. LosesNothingElse'
    <2>1. \A x \in held' : <<call.method, "text", x>> \in Losses
        BY <1>1, <1>2 DEF Sound, Frees, ReturnCopy
    <2>2. QED
        BY <2>1 DEF LosesNothingElse, ReturnCopy, Ends
<1>9. QED
    BY <1>1, <1>3, <1>4, <1>5, <1>7, <1>8, EndingKeeps DEF ReturnCopy, Ends

\* A result that takes the place of a string's own text.
LEMMA SwappedKeeps == ASSUME IInv, ReturnSwapped PROVE IInv'
<1>1. pc = "asked" /\ ~Noticed /\ P' = P /\ P.by = "swap"
    BY DEF ReturnSwapped, P
<1>2. /\ Sound(call.method, P, call.len, call.need) /\ call.need \in Nat
      /\ report \in Nat /\ extent \in Nat /\ held \subseteq Holds(P)
      /\ Attempted /\ status \in {"ok", "error"}
    BY <1>1, WhenAsked
<1>3. call.method = "upcase!" /\ held \subseteq {"buf"}
    BY <1>1, <1>2 DEF Sound, Frees
<1>4. TypeOK' /\ StoresInBlock'
    BY <1>2 DEF IInv, TypeOK, StoresInBlock, ReturnSwapped, Ends, Attempt
<1>5. ReturnsWhole'
    <2>1. outcome' = "text" => result'.len = report
        BY DEF ReturnSwapped, Ends
    <2>2. extent' = extent /\ status' = status /\ call' = call
        BY DEF ReturnSwapped, Attempt
    <2>3. report <= extent /\ (status # "error" => report = call.need)
        BY <1>2 DEF Attempted
    <2>4. QED
        BY <2>1, <2>2, <2>3 DEF ReturnsWhole
<1>6. CapacityIsTrue'
    BY <1>1 DEF CapacityIsTrue
<1>7. RefusesExactGuess'
    BY <1>3 DEF RefusesExactGuess, ReturnSwapped, Ends
<1>8. LosesNothingElse'
    <2>1. CASE outcome' = "nil" /\ held' = held
        BY <1>3, <2>1 DEF LosesNothingElse, Losses, ReturnSwapped
    <2>2. CASE outcome' = "text" /\ held' = held \ {"buf"}
        BY <1>3, <2>2 DEF LosesNothingElse
    <2>3. QED
        BY <2>1, <2>2 DEF ReturnSwapped, Ends
<1>9. QED
    <2>1. pc' = "ended" /\ outcome' # "none" /\ call' = call
        BY DEF ReturnSwapped, Ends
    <2>2. QED
        BY <2>1, <1>1, <1>4, <1>5, <1>6, <1>7, <1>8, EndingKeeps

-----------------------------------------------------------------------------
\* The capacity that icu_ustr_new_set is told.
Claim == IF P.claims[Last] = 0 THEN report + 1 ELSE P.claims[Last]

\* What is claimed of a block that is adopted: it is the block's size, and more
\* than the length; but for the guess of normalize, met exactly.
LEMMA ClaimsAreTrue ==
    ASSUME IInv, pc = "asked", ~Noticed, ~Nothing, P.by = "adopt"
    PROVE  /\ Claim \in Nat /\ Topped \in Nat /\ Topped >= block
           /\ Claim <= report <=> /\ call.method = "normalize" /\ status = "ok"
                                  /\ call.need = call.len + Slack
           /\ Claim > report => /\ Claim <= Topped
                                /\ status # "error" => Claim = Topped
<1> DEFINE n == call.len
           need == call.need
<1>1. /\ Sound(call.method, P, n, need) /\ n \in Nat /\ need \in Nat
      /\ Slack \in Nat \ {0}
      /\ extent \in Nat /\ report \in Nat /\ block \in Nat /\ extent <= block
      /\ tries \in {1, 2} /\ status \in {"ok", "error"} /\ Attempted
      /\ status = "error" => ~P.looks[Last]
    BY WhenAsked
<1>2. /\ P.claims[1] \in Nat /\ P.claims[2] \in Nat
      /\ P.told[1] \in Nat /\ P.told[2] \in Nat
      /\ P.blocks[1] \in Nat /\ P.blocks[2] \in Nat
    BY <1>1 DEF Sound, Numbers
<1>3. Claims(call.method, P, n, need)
    BY <1>1 DEF Sound
<1>4. /\ block = P.blocks[Last]
      /\ tries = 2 => need > P.told[1]
      /\ status = "ok" => report = need /\ need <= extent /\ need <= P.told[Last]
      /\ status = "error" => report <= need /\ report <= P.told[Last]
    BY <1>1 DEF Attempted
<1>5. Topped \in Nat /\ Topped >= block
    BY <1>1 DEF Topped
<1>6. CASE tries = 2
    <2>1. Last = 2 /\ block = P.blocks[2] /\ need > P.told[1]
        BY <1>4, <1>6 DEF Last
    <2>2. CASE P.claims[2] # 0
        <3>1. P.claims[2] = block /\ need < block /\ Claim = block
            BY <1>3, <2>1, <2>2 DEF Claims, Claim
        <3>2. report <= need
            BY <1>1, <1>4
        <3>3. Claim > report /\ Topped = block
            BY <1>1, <3>1, <3>2 DEF Topped
        <3>4. call.method = "normalize" => need # n + Slack
            <4>1. ASSUME call.method = "normalize" PROVE P.told[1] = n + Slack
                BY <1>1, <4>1 DEF P, Protocol, Normalize
            <4>2. QED
                BY <1>1, <1>2, <2>1, <4>1
        <3>5. QED
            BY <1>1, <1>5, <3>1, <3>3, <3>4
    <2>3. CASE P.claims[2] = 0
        <3>1. block = need + 1 /\ Claim = report + 1
            BY <1>3, <2>1, <2>3 DEF Claims, Claim
        <3>2. report <= need /\ (status = "ok" => report = need)
            BY <1>1, <1>4
        <3>3. Claim > report /\ Topped = block /\ Claim <= block
            BY <1>1, <3>1, <3>2 DEF Topped
        <3>4. call.method # "normalize"
            <4>1. ASSUME call.method = "normalize" PROVE P.claims[2] = need + 1
                BY <1>1, <4>1 DEF P, Protocol, Normalize
            <4>2. QED
                BY <1>1, <2>3, <4>1
        <3>5. QED
            BY <1>1, <1>5, <3>1, <3>2, <3>3, <3>4
    <2>4. QED
        BY <2>2, <2>3
<1>7. CASE tries = 1
    <2>1. Last = 1 /\ block = P.blocks[1] /\ P.asks # {}
        BY <1>4, <1>7 DEF Last, Nothing
    <2>2. report <= need /\ report <= P.told[1] /\ (status = "ok" => report = need)
        BY <1>1, <1>2, <1>4, <2>1
    <2>3. CASE call.method \notin {"normalize", "Array#to_u"}
        <3>1. P.claims[1] = block /\ P.told[1] < P.claims[1]
            BY <1>3, <2>1, <2>3 DEF Claims
        <3>2. Claim = block /\ report < block
            BY <1>1, <1>2, <2>1, <2>2, <3>1 DEF Claim
        <3>3. Topped = block
            BY <2>3 DEF Topped
        <3>4. QED
            BY <1>1, <1>5, <2>3, <3>2, <3>3
    <2>4. CASE call.method = "normalize"
        <3>1. P.claims[1] = n + Slack /\ block = n + Slack /\ P.looks[1]
            BY <1>3, <2>1, <2>4 DEF Claims
        <3>2. Claim = n + Slack /\ status = "ok" /\ report = need
            BY <1>1, <2>1, <2>2, <3>1 DEF Claim
        <3>3. report <= n + Slack
            BY <1>1, <1>4, <3>1, <3>2
        <3>4. Topped = block
            BY <2>4 DEF Topped
        <3>5. QED
            BY <1>1, <1>5, <2>4, <3>1, <3>2, <3>3, <3>4
    <2>5. CASE call.method = "Array#to_u"
        <3>1. /\ block = n + 1 /\ P.told[1] = n + 1 /\ P.looks[1]
              /\ P.claims[1] = IF need < n + 1 THEN n + 1 ELSE n + 2
            BY <1>3, <2>1, <2>5 DEF Claims
        <3>2. status = "ok" /\ report = need /\ need <= n + 1
            BY <1>1, <2>1, <2>2, <3>1
        <3>3. Topped = IF block <= need THEN block + 1 ELSE block
            BY <2>5, <3>2 DEF Topped
        <3>4. Claim = Topped /\ Claim > report
            BY <1>1, <2>1, <3>1, <3>2, <3>3 DEF Claim
        <3>5. QED
            BY <1>1, <1>5, <2>5, <3>2, <3>4
    <2>6. QED
        BY <2>3, <2>4, <2>5
<1>8. QED
    BY <1>1, <1>6, <1>7

\* A result that is adopted, or refused for the capacity that is claimed.
LEMMA AdoptedKeeps == ASSUME IInv, ReturnAdopted PROVE IInv'
<1>1. /\ pc = "asked" /\ ~Noticed /\ ~Nothing /\ P' = P /\ P.by = "adopt"
      /\ Nothing' = Nothing
    BY DEF ReturnAdopted, P, Nothing
<1>2. /\ Sound(call.method, P, call.len, call.need) /\ call.need \in Nat
      /\ report \in Nat /\ extent \in Nat /\ block \in Nat /\ extent <= block
      /\ held \subseteq Holds(P) /\ Attempted /\ status \in {"ok", "error"}
    BY <1>1, WhenAsked
<1>3. /\ Claim \in Nat /\ Topped \in Nat /\ Topped >= block
      /\ Claim <= report <=> /\ call.method = "normalize" /\ status = "ok"
                             /\ call.need = call.len + Slack
      /\ Claim > report => /\ Claim <= Topped
                           /\ status # "error" => Claim = Topped
    BY <1>1, ClaimsAreTrue
<1>4. /\ block' = Topped /\ pc' = "ended" /\ status' = status /\ report' = report
      /\ extent' = extent /\ tries' = tries /\ call' = call
    BY DEF ReturnAdopted, Ends
<1>5. CASE Claim <= report
    <2>1. outcome' = "no_room" /\ held' = held /\ result' = result
        BY <1>5 DEF ReturnAdopted, Claim, Ends
    <2>2. TypeOK' /\ StoresInBlock'
        BY <2>1, <1>2, <1>3, <1>4 DEF IInv, TypeOK, StoresInBlock
    <2>3. ReturnsWhole' /\ CapacityIsTrue'
        BY <2>1 DEF ReturnsWhole, CapacityIsTrue
    <2>4. RefusesExactGuess'
        BY <2>1, <1>3, <1>4, <1>5 DEF RefusesExactGuess
    <2>5. LosesNothingElse'
        <3>1. held \subseteq {"buf"} /\ call.method = "normalize"
            BY <1>2, <1>3, <1>5 DEF Sound, Frees
        <3>2. QED
            BY <2>1, <1>4, <3>1 DEF LosesNothingElse, Losses
    <2>6. QED
        BY <1>1, <1>4, <2>1, <2>2, <2>3, <2>4, <2>5, EndingKeeps
<1>6. CASE ~(Claim <= report)
    <2>1. /\ outcome' = "text" /\ held' = held \ (P.ending \cup {"buf"})
          /\ result' = [len |-> report, capa |-> Claim]
        BY <1>6 DEF ReturnAdopted, Claim, Ends
    <2>2. TypeOK' /\ StoresInBlock'
        BY <2>1, <1>2, <1>3, <1>4 DEF IInv, TypeOK, StoresInBlock
    <2>3. ReturnsWhole'
        <3>1. report <= extent /\ (status # "error" => report = call.need)
            BY <1>2 DEF Attempted
        <3>2. QED
            BY <2>1, <1>4, <3>1 DEF ReturnsWhole
    <2>4. CapacityIsTrue'
        BY <2>1, <1>2, <1>3, <1>4, <1>6 DEF CapacityIsTrue
    <2>5. RefusesExactGuess'
        BY <2>1, <1>3, <1>4, <1>6 DEF RefusesExactGuess
    <2>6. LosesNothingElse'
        <3>1. held' = {}
            BY <1>1, <1>2, <2>1 DEF Sound, Frees
        <3>2. QED
            BY <3>1 DEF LosesNothingElse
    <2>7. QED
        BY <1>1, <1>4, <2>1, <2>2, <2>3, <2>4, <2>5, <2>6, EndingKeeps
<1>7. QED
    BY <1>5, <1>6

-----------------------------------------------------------------------------
\* Every step keeps the invariant.
LEMMA NextKeeps == ASSUME IInv, [Next]_vars PROVE IInv'
<1>1. CASE UNCHANGED vars
    BY <1>1
    DEF vars, IInv, TypeOK, Underway, Progress, Ended, Called, Attempted, P, Last, Nothing,
        StoresInBlock, ReturnsWhole, CapacityIsTrue, RefusesExactGuess, LosesNothingElse
<1>2. ASSUME NEW m \in Methods, NEW n \in Lengths, NEW need \in Needs(m, n),
             Begin(m, n, need)
      PROVE  IInv'
    BY <1>2, BeginKeeps
<1>3. CASE Proceed
    BY <1>3, AcceptKeeps, OpenKeeps, AskKeeps, FailuresKeep, NothingKeeps, CopyKeeps,
        AdoptedKeeps, SwappedKeeps DEF Proceed
<1>4. CASE Fail
    BY <1>4, FailuresKeep, AskKeeps DEF Fail
<1>5. QED
    BY <1>1, <1>2, <1>3, <1>4 DEF Next

\* Any behaviour keeps the invariant.
LEMMA Inductive == Spec => []IInv
BY InitIInv, NextKeeps, PTL DEF Spec

\* The types are kept: what the calls count with are natural numbers.
THEOREM BuffersHaveTypes == Spec => []TypeOK
<1>1. IInv => TypeOK
    BY DEF IInv
<1>2. QED
    BY <1>1, Inductive, PTL

\* No method, in no attempt, tells ICU of more room than its block has.
THEOREM AlwaysStoresInBlock == Spec => []StoresInBlock
<1>1. IInv => StoresInBlock
    BY DEF IInv
<1>2. QED
    BY <1>1, Inductive, PTL

\* What a method returns is all of the result, and nothing that was not stored.
THEOREM AlwaysReturnsWhole == Spec => []ReturnsWhole
<1>1. IInv => ReturnsWhole
    BY DEF IInv
<1>2. QED
    BY <1>1, Inductive, PTL

\* The capacity of a UString that took over a block is the block's size.
THEOREM AlwaysCapacityIsTrue == Spec => []CapacityIsTrue
<1>1. IInv => CapacityIsTrue
    BY DEF IInv
<1>2. QED
    BY <1>1, Inductive, PTL

\* icu_ustr_new_set refuses a result of normalize that meets the guess, and no other.
THEOREM AlwaysRefusesExactGuess == Spec => []RefusesExactGuess
<1>1. IInv => RefusesExactGuess
    BY DEF IInv
<1>2. QED
    BY <1>1, Inductive, PTL

\* The list of what calls leave behind is complete.
THEOREM AlwaysLosesNothingElse == Spec => []LosesNothingElse
<1>1. IInv => LosesNothingElse
    BY DEF IInv
<1>2. QED
    BY <1>1, Inductive, PTL
=============================================================================
