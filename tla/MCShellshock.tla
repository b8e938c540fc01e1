---------------------------- MODULE MCShellshock ----------------------------
(***************************************************************************)
(* Two games for TLC, which share their players.                           *)
(***************************************************************************)
EXTENDS ShellshockEscrow

CONSTANTS Alice, Bob

\* Two addresses: each player creates one game and joins
\* the other.
TwoGames == {<<Alice, 1>>, <<Bob, 2>>}

\* With two games the product of their rounds is what grows: two loads, with
\* which the creator or the joiner can win in two rounds, and no more bullets
\* than they have.
QuickRounds ==
  \A k \in Keys :
    /\ game[k].phase = "Playing" /\ game[k].actions_this_round = 0 =>
         game[k].chamber_flags \in {{0, 1, 2}, {1, 2, 3}}
    /\ game[k].bullets_loaded <= 3

=============================================================================
