-------------------------- MODULE ShellshockRounds --------------------------
(***************************************************************************)
(* The program with a history: how often each player of a game has been    *)
(* hit since the game's last round began.  The history watches the steps   *)
(* of Shellshock and restrains none of them.                               *)
(***************************************************************************)
EXTENDS Shellshock

VARIABLE hits    \* the hits on the first and on the second player, by game

NoHits == [first |-> 0, second |-> 0]

\* A round begins in initialize_round; a closed game's last round is no
\* round of the next game at its address.
AnotherRound(k) == game'[k].round # game[k].round

\* What a step adds to a count: 1 if it lowers the health.
Hit(before, after) == IF after < before THEN 1 ELSE 0

HitsAfter(k) ==
  IF AnotherRound(k) THEN NoHits
  ELSE [first |-> hits[k].first +
                    Hit(game[k].player_1_health, game'[k].player_1_health),
        second |-> hits[k].second +
                    Hit(game[k].player_2_health, game'[k].player_2_health)]

RoundsInit == Init /\ hits = [k \in Keys |-> NoHits]

RoundsNext == Next /\ hits' = [k \in Keys |-> HitsAfter(k)]

RoundsSpec == RoundsInit /\ [][RoundsNext]_<<vars, hits>>

\* In no round, the first or a later one, is a player hit more than twice,
\* whatever is reloaded: a bullet put in by reload lies behind the hammer,
\* the round is over before the hammer comes back to it, and of the three
\* bullets initialize_round loads at most two lie in chambers of one parity.
TwoHitsARound ==
  \A k \in Keys : hits[k].first <= 2 /\ hits[k].second <= 2

=============================================================================
