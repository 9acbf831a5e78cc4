-------------------------- MODULE MCUStringBuffer --------------------------
(* Small instances of UStringBuffer for TLC. *)
EXTENDS UStringBuffer, TLC, FiniteSets

\* A case mapping that lengthens and one that shortens.
MCForms(x) ==
    {[i \in 1 .. 2 * Len(x) |-> x[(i + 1) \div 2]], SubSeq(x, 2, Len(x))}

MCSources == {<<"a">>, <<" ", "nul">>}

MCShortSources == {<<"a">>, <<" ">>}

\* Case mappings of whole code points.
MCFormsOfPairs(x) == {[i \in 1 .. Len(x) |-> IF x[i] = "a" THEN " " ELSE x[i]]}

MCSourcesWithPairs == {<<" ">>, <<" ", "lead", "trail">>}

\* What lies behind the sentinel is never read before it is written.
Written(o) == {i \in 0 .. o.len : i < o.alloc}

MCView ==
    <<[s \in Strings |-> <<object[s].len, object[s].capa, object[s].alloc,
                           [i \in Written(object[s]) |-> object[s].cells[i]]>>],
      recased>>

MCSymmetry == Permutations(Strings)
=============================================================================
