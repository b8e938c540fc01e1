--------------------------- MODULE MCChamberLoader ---------------------------
(***************************************************************************)
(* The drawing loop on a 12-bit word, every entropy: the coefficients are  *)
(* the program's, reduced modulo 2^12 (a larger word overflows the         *)
(* integers of TLC in the multiplication).                                 *)
(***************************************************************************)
EXTENDS ChamberLoader

Width == 12
MCModulus == 2 ^ Width
MCMultiplier == 1103515245 % (2 ^ Width)
MCIncrement == 12345 % (2 ^ Width)

=============================================================================
