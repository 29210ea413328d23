------------------------------ MODULE MCStream ------------------------------
(* An instance of Stream for TLC: a surrogate that begins another one, and    *)
(* one that begins where another may end.                                     *)
EXTENDS Stream

MCSurrogates == {<<"a", "b">>, <<"a", "b", "c">>, <<"c", "a">>}
=============================================================================
