--------------------------- MODULE MCObservedGame ---------------------------
(***************************************************************************)
(* An instance of ObservedGame for TLC.                                    *)
(***************************************************************************)
EXTENDS ObservedGame

CONSTANTS Alice, Bob

TheRoom == <<Alice, 1>>
TheKeys == {TheRoom}

\* Short games: the same load in every round, Alice fires her two bullets,
\* and otherwise both do with their turns what they like, but load no more,
\* and Bob uses no item.  What the relay sees of an instruction does not
\* depend on the cylinder or on the healths.
ShortGame ==
  game[Room].phase = "Playing" =>
    /\ game[Room].chamber_flags \subseteq 0..2
    /\ {0, 2} \cap game[Room].chamber_flags =
         {c \in {0, 2} : c >= game[Room].chamber_position}
    /\ game[Room].player_2_health \in {100, 70, 40, 10}

ShortSpec ==
  ObservedInit /\ [][ObservedNext /\ ShortGame']_observedVars /\ ObserverFairness

\* Transactions of one instruction, whose logs have its name and no other
\* word: what else is said of the room is said by Mention.
OnlyNames ==
  game' # game /\ logs' # logs =>
    Len(logs') > Len(logs) /\ logs'[Len(logs')] \in {"action", "other"}

PlainSpec ==
  ObservedInit /\ [][ObservedNext /\ ShortGame' /\ OnlyNames]_observedVars

=============================================================================
