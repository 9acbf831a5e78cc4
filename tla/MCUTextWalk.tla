---------------------------- MODULE MCUTextWalk ----------------------------
(* Small instances of UTextWalk for TLC. *)
EXTENDS UTextWalk

\* Nothing to search, a U+0000 in the middle, and a surrogate pair.
MCSubjects == {<< >>, <<"a", "nul", "a">>, <<"lead", "trail", "a">>}

MCPlainSubjects == {<<"a", "b">>}

MCDigitValue == [u \in {"0", "1"} |-> IF u = "1" THEN 1 ELSE 0]

Item(kind, units) == [kind |-> kind, units |-> units]

\* The match itself between two units; a group, a group there is not and a digit
\* that belongs to no number; quoted units, a dollar sign alone and a backslash at
\* the end.
MCTemplates == {
    <<Item("unit", <<"a">>), Item("group", <<"0">>), Item("unit", <<"b">>)>>,
    <<Item("group", <<"0", "0", "1">>), Item("unit", <<"1">>), Item("group", <<"1", "1">>)>>,
    <<Item("quoted", <<"$">>), Item("unit", <<"1">>), Item("group", <<>>),
      Item("quoted", <<"bslash">>), Item("end", << >>)>>}

\* A unit that comes twice, and half of a pair.
MCWords == {<<"a">>, <<"trail">>}

\* No limit with and without the empty pieces at the end, the whole text, and one
\* cut.
MCLimits == {-1, 0, 1, 2}

\* A text that the subject ends with.
MCSuffixes == {<<"b">>}
=============================================================================
