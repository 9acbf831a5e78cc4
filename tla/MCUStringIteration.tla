------------------------- MODULE MCUStringIteration -------------------------
(* Small instances of UStringIteration for TLC. *)
EXTENDS UStringIteration, TLC

\* Strings of one unit, which ustr_mod_check cannot tell apart in one block,
\* and the empty string.
MCTexts == {<<>>, <<"a">>}

\* Texts with a second boundary to stop at.
MCLongTexts == {<<>>, <<"a", "a">>}

MCTextsOfOneLength == {<<>>, <<"a">>, <<"b">>}

\* Every use of a URegexp starts with uregex_setText, so what its handle was
\* left at makes no difference; what a gsub's handle is left at does.
MCView ==
    <<busy, frozen, buffer, matcher, depth, frame, abandoned,
      [p \in GsubSlots |-> target[frame[p].pat]]>>

MCSymmetry ==
    Permutations(Ptrs) \cup Permutations(Strings) \cup Permutations(Threads)
        \cup Permutations(Regexps)
=============================================================================
