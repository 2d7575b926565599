----------------------------- MODULE MCGpgReader -----------------------------
(***************************************************************************)
(* GpgReader for TLC: two lines through a pipe that holds one.             *)
(***************************************************************************)
EXTENDS GpgReader

=============================================================================
