------------------------------ MODULE MCConsole ------------------------------
(* Console.tla for TLC: short texts with and without line ends.             *)
EXTENDS Console

ShortTexts == {<<"a">>, <<"b", Newline>>, <<Newline>>, <<Tab>>}
=============================================================================
