------------------------- MODULE MCShellshockRounds -------------------------
(***************************************************************************)
(* One game for TLC, with the history of its rounds.                       *)
(***************************************************************************)
EXTENDS ShellshockRounds

CONSTANTS Alice, Bob, Carol

\* One address, whose creator may find either of two opponents.
OneGame == {<<Alice, 1>>}

=============================================================================
