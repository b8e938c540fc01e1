-------------------------------- MODULE Lobby --------------------------------
(***************************************************************************)
(* What the matchmaker promises, as if every request took effect at once:  *)
(* a free wallet waits alone with its bet, or is paired with the one that  *)
(* waits; a pair gets its room or expires.                                 *)
(***************************************************************************)
EXTENDS Naturals, Sequences

CONSTANTS Wallets, Bets

VARIABLES
  waiting,   \* the wallets that wait with every bet
  pairs      \* the pairs ever made, in order

lobbyVars == <<waiting, pairs>>

LobbyInit ==
  /\ waiting = [b \in Bets |-> {}]
  /\ pairs = <<>>

\* Neither waiting nor playing.
Free(w) ==
  /\ \A b \in Bets : w \notin waiting[b]
  /\ \A m \in DOMAIN pairs :
       pairs[m].state \in {"AwaitingRoomCreation", "RoomReady"} =>
         w \notin {pairs[m].creator, pairs[m].joiner}

Enter(w, b) ==
  /\ Free(w)
  /\ waiting[b] = {}
  /\ waiting' = [waiting EXCEPT ![b] = {w}]
  /\ UNCHANGED pairs

Meet(v, w, b) ==
  /\ Free(w)
  /\ waiting[b] = {v}
  /\ waiting' = [waiting EXCEPT ![b] = {}]
  /\ pairs' = Append(pairs, [creator |-> v, joiner |-> w, bet |-> b,
                             state |-> "AwaitingRoomCreation"])

Withdraw(b) ==
  /\ waiting' = [waiting EXCEPT ![b] = {}]
  /\ UNCHANGED pairs

Settle(m, state) ==
  /\ pairs[m].state = "AwaitingRoomCreation"
  /\ pairs' = [pairs EXCEPT ![m].state = state]
  /\ UNCHANGED waiting

\* The relay starts again: nobody waits or plays.
Forget ==
  /\ waiting' = [b \in Bets |-> {}]
  /\ pairs' = [m \in DOMAIN pairs |-> [pairs[m] EXCEPT !.state = "Forgotten"]]

LobbyNext ==
  \/ \E w \in Wallets, b \in Bets : Enter(w, b) \/ \E v \in Wallets : Meet(v, w, b)
  \/ \E b \in Bets : Withdraw(b)
  \/ \E m \in DOMAIN pairs, state \in {"RoomReady", "Expired"} : Settle(m, state)
  \/ Forget

LobbySpec == LobbyInit /\ [][LobbyNext]_lobbyVars

=============================================================================
