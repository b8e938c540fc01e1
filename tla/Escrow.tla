------------------------------- MODULE Escrow -------------------------------
(***************************************************************************)
(* What the on-chain program promises about money, with the game left out: *)
(* a creator puts a stake into an escrow, an opponent matches it, somehow  *)
(* one of the two is decided the winner, and the winner, nobody else and   *)
(* only once, is paid both stakes and the creator's rent.  Shellshock      *)
(* implements this, rounds and chambers being one way of deciding.         *)
(***************************************************************************)
EXTENDS Integers

CONSTANTS Players, NoPlayer, Keys, Rent, Funds

VARIABLES
  stage,    \* "none", "open", "matched" or "decided", for every address
  rival,    \* who matched the creator's stake
  winner,   \* who won
  vault,    \* lamports in escrow
  wallet    \* lamports of the players

vars == <<stage, rival, winner, vault, wallet>>

Init ==
  /\ stage = [k \in Keys |-> "none"]
  /\ rival = [k \in Keys |-> NoPlayer]
  /\ winner = [k \in Keys |-> NoPlayer]
  /\ vault = [k \in Keys |-> 0]
  /\ wallet = [p \in Players |-> Funds]

\* The creator of the address pays the stake and the rent.
Open(k) ==
  /\ stage[k] = "none"
  /\ wallet[k[1]] >= Rent + k[2]
  /\ stage' = [stage EXCEPT ![k] = "open"]
  /\ vault' = [vault EXCEPT ![k] = Rent + k[2]]
  /\ wallet' = [wallet EXCEPT ![k[1]] = @ - (Rent + k[2])]
  /\ UNCHANGED <<rival, winner>>

\* Somebody else pays the same stake.
Match(k, p) ==
  /\ stage[k] = "open"
  /\ p # k[1]
  /\ wallet[p] >= k[2]
  /\ stage' = [stage EXCEPT ![k] = "matched"]
  /\ rival' = [rival EXCEPT ![k] = p]
  /\ vault' = [vault EXCEPT ![k] = Rent + 2 * k[2]]
  /\ wallet' = [wallet EXCEPT ![p] = @ - k[2]]
  /\ UNCHANGED winner

\* One of the two wins; no money moves.
Decide(k, p) ==
  /\ stage[k] = "matched"
  /\ p \in {k[1], rival[k]}
  /\ stage' = [stage EXCEPT ![k] = "decided"]
  /\ winner' = [winner EXCEPT ![k] = p]
  /\ UNCHANGED <<rival, vault, wallet>>

\* The winner takes it all, and the address is free again.
Pay(k) ==
  /\ stage[k] = "decided"
  /\ stage' = [stage EXCEPT ![k] = "none"]
  /\ rival' = [rival EXCEPT ![k] = NoPlayer]
  /\ winner' = [winner EXCEPT ![k] = NoPlayer]
  /\ vault' = [vault EXCEPT ![k] = 0]
  /\ wallet' = [wallet EXCEPT ![winner[k]] = @ + Rent + 2 * k[2]]

Next ==
  \E k \in Keys :
    \/ Open(k)
    \/ Pay(k)
    \/ \E p \in Players : Match(k, p) \/ Decide(k, p)

Spec == Init /\ [][Next]_vars

=============================================================================
