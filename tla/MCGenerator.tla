----------------------------- MODULE MCGenerator -----------------------------
(***************************************************************************)
(* Generator for TLC: bytes of two bits, keys of two bytes.                *)
(***************************************************************************)
EXTENDS Generator

MCCharacterSets == {<<>>, <<"x", "y">>}

=============================================================================
