--------------------------- MODULE MCUStringReaders ---------------------------
(* A small instance of UStringReaders for TLC. *)
EXTENDS UStringReaders, MCUTextWalk

\* Two pairs around a unit, halves of a pair that are none, a pair of which half is
\* missing; a number with digits, one without, and a backslash at either end.
MCPointTexts == {
    << >>, <<"lead", "trail", "a", "lead", "trail">>, <<"trail", "lead", "lead", "trail">>,
    <<"a", "bslash", "u", "0", "a">>, <<"bslash", "b", "a", "bslash", "b">>,
    <<"bslash", "u", "a", "bslash">>}

\* Two units become one.
MCNfc == [x \in MCPointTexts |->
            IF x = <<"lead", "trail", "a", "lead", "trail">> THEN <<"a", "lead", "trail">>
            ELSE x]

MCDecoded == {<<"b">>, <<"lead", "trail">>}
=============================================================================
