----------------------------- MODULE MCIcuObjects -----------------------------
(* A small instance of IcuObjects for TLC. *)
EXTENDS IcuObjects

MCHandles == 1 .. 4

MCSources == {<<>>, <<"narrow", "wide", "alien">>, <<"wide", "wide", "narrow">>,
              <<"alien", "wide", "alien">>}

MCSubsts == {<<"?">>, <<"?", "!">>}
=============================================================================
