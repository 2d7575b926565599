------------------------------ MODULE MCStartup ------------------------------
(***************************************************************************)
(* Startup for TLC: three-bit numbers, up to four lines of configuration.  *)
(***************************************************************************)
EXTENDS Startup

\* Zero, a value in range, and the first that wraps to zero.
MCNumbers == {0, 1, Word}

MCCommandWords ==
    {<<>>, <<"e">>, <<"g">>, <<"g", "e">>, <<"g", "e", "n">>,
     <<"g", "e", "t">>, <<"a", "d">>, <<"p">>, <<"x">>,
     <<"g", "e", "t", "s">>}

MCGenerate == {<<"g", "e", "n">>}

=============================================================================
