------------------------------- MODULE Chamber -------------------------------
(***************************************************************************)
(* The six-chamber cylinder of a Shell Shock game.  The program keeps it   *)
(* as the low six bits of the byte `chamber_flags`; here it is the set of  *)
(* the positions whose bit is set.                                         *)
(***************************************************************************)
EXTENDS Integers, FiniteSets

Positions == 0..5

(***************************************************************************)
(* What initialize_round can leave in the cylinder: three bullets, and     *)
(* never all three in chambers of one parity.  The second half comes from  *)
(* the generator and not from a test in the code; module ChamberLoader     *)
(* shows that the drawing loop delivers exactly this.                      *)
(***************************************************************************)
Loads ==
  {chamber \in SUBSET Positions :
     /\ Cardinality(chamber) = 3
     /\ \E c \in chamber : c % 2 = 0
     /\ \E c \in chamber : c % 2 = 1}

=============================================================================
