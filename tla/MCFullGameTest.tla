--------------------------- MODULE MCFullGameTest ---------------------------
(***************************************************************************)
(* The test with its one game address.                                     *)
(***************************************************************************)
EXTENDS FullGameTest

TestKeys == {gPda}

=============================================================================
