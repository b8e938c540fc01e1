-------------------------- MODULE ShellshockEscrow --------------------------
(***************************************************************************)
(* The program implements the escrow: the refinement mapping forgets all   *)
(* of a game but its phase and its parties.                                *)
(***************************************************************************)
EXTENDS Shellshock

\* The two phases of a running game are one stage of the escrow.
StageOf(g) ==
  CASE g.phase = "Absent" -> "none"
    [] g.phase = "WaitingForPlayer" -> "open"
    [] g.phase \in {"WaitingForVrf", "Playing"} -> "matched"
    [] g.phase = "Finished" -> "decided"

E == INSTANCE Escrow WITH
       stage <- [k \in Keys |-> StageOf(game[k])],
       rival <- [k \in Keys |-> game[k].player_2],
       winner <- [k \in Keys |-> game[k].winner]

\* The instructions move the money as the escrow does: a game takes exactly
\* one stake from each of two different players, gives nothing back while it
\* is played, and pays everything to the winner, once.
ImplementsEscrow == E!Spec

=============================================================================
