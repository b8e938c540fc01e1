----------------------------- MODULE Shellshock -----------------------------
(***************************************************************************)
(* The on-chain program: any number of two-player games, each in a game    *)
(* account and a vault account.  One action is one instruction, and an     *)
(* instruction is atomic: its requirements are the guard of the action,    *)
(* because a failed requirement rolls the whole transaction back.          *)
(*                                                                         *)
(* The address of a game derives from its seeds, the creator and the bet,  *)
(* so games are indexed by the pairs <<creator, bet>> in Keys, and there   *)
(* is at most one game for a pair at a time.  The vault's address derives  *)
(* from the game's.                                                        *)
(***************************************************************************)
EXTENDS Chamber

CONSTANTS
  Players,     \* the wallets
  NoPlayer,    \* Pubkey::default(), and None for the winner
  Keys,        \* the addresses at which games may be created
  Rent,        \* lamports that keep the two accounts of a game alive
  Funds,       \* lamports a wallet starts with
  RoundMax,    \* the largest value of the round counter: 255 for a u8
  Items        \* item types that clients ask for; only 1 exists

ASSUME ShellshockAssumption ==
  /\ NoPlayer \notin Players
  /\ Keys \subseteq Players \X Nat
  /\ Rent \in Nat
  /\ Funds \in Nat
  /\ RoundMax \in Nat
  /\ Items \subseteq Nat

VARIABLES
  game,     \* the game account at every address
  vault,    \* the lamports held by the game's two accounts, rent included
  wallet    \* the lamports of every wallet

vars == <<game, vault, wallet>>

Phases == {"Absent", "WaitingForPlayer", "WaitingForVrf", "Playing", "Finished"}

Games ==
  [player_1 : Players \cup {NoPlayer}, player_2 : Players \cup {NoPlayer},
   bet_lamports : Nat, phase : Phases, turn : {0, 1},
   player_1_health : 0..100, player_2_health : 0..100,
   chamber_position : Positions, chamber_flags : SUBSET Positions,
   bullets_loaded : 0..6, actions_this_round : 0..6,
   round : 0..RoundMax, winner : Players \cup {NoPlayer}]

\* No account at the address: never created, or closed by claim_reward.
NoGame ==
  [player_1 |-> NoPlayer, player_2 |-> NoPlayer, bet_lamports |-> 0,
   phase |-> "Absent", turn |-> 0,
   player_1_health |-> 0, player_2_health |-> 0,
   chamber_position |-> 0, chamber_flags |-> {},
   bullets_loaded |-> 0, actions_this_round |-> 0,
   round |-> 0, winner |-> NoPlayer]

NewGame(p, bet) ==
  [NoGame EXCEPT !.player_1 = p, !.bet_lamports = bet,
                 !.phase = "WaitingForPlayer",
                 !.player_1_health = 100, !.player_2_health = 100]

Init ==
  /\ game = [k \in Keys |-> NoGame]
  /\ vault = [k \in Keys |-> 0]
  /\ wallet = [p \in Players |-> Funds]

\* The account constraint `seeds = [b"game", player_1, bet_lamports]`: the
\* address given is the one the stored seeds derive.
SeedsMatch(k) == <<game[k].player_1, game[k].bet_lamports>> = k

-----------------------------------------------------------------------------
(***************************************************************************)
(* What the instructions do to a game record.                              *)
(***************************************************************************)

\* Mutant of SaturatingSub: u8::wrapping_sub.
WrappingSub(a, b) == (a - b) % 256

\* u8::saturating_sub
SaturatingSub(a, b) == IF a > b THEN a - b ELSE 0

\* is_player_turn
OnTurn(g) == IF g.turn = 0 THEN g.player_1 ELSE g.player_2

BulletPresent(g) == g.chamber_position \in g.chamber_flags

\* The three ways advance_and_resolve_round ends: the game is over, the
\* round is over, or it is the other player's turn.
SomeoneDead(g) == g.player_1_health = 0 \/ g.player_2_health = 0

\* Mutant of RoundOver: only an empty cylinder ends the round.
RoundOverWhenEmpty(g) == g.bullets_loaded = 0

RoundOver(g) == g.bullets_loaded = 0 \/ g.actions_this_round >= 6

\* Mutant of Resolve: `player_1_health >= 0` picks the winner.
ResolveForFirst(g) ==
  CASE SomeoneDead(g) -> [g EXCEPT !.phase = "Finished", !.winner = g.player_1]
    [] ~SomeoneDead(g) /\ RoundOver(g) -> [g EXCEPT !.phase = "WaitingForVrf"]
    [] OTHER -> [g EXCEPT !.turn = 1 - g.turn]

Resolve(g) ==
  IF SomeoneDead(g)
    THEN [g EXCEPT !.phase = "Finished",
                   !.winner = IF g.player_1_health > 0 THEN g.player_1
                                                       ELSE g.player_2]
  ELSE IF RoundOver(g)
    THEN [g EXCEPT !.phase = "WaitingForVrf"]
    ELSE [g EXCEPT !.turn = 1 - g.turn]

\* Mutant of Advanced: the action counter is forgotten.
AdvancedChamber(g) == [g EXCEPT !.chamber_position = (@ + 1) % 6]

\* The counters move on before advance_and_resolve_round looks at them.
Advanced(g) ==
  [g EXCEPT !.actions_this_round = @ + 1,
            !.chamber_position = (@ + 1) % 6]

AdvanceAndResolve(g) == Resolve(Advanced(g))

\* The bullet in the chamber leaves it and costs the opponent 30.
Fired(g) ==
  IF ~BulletPresent(g) THEN g
  ELSE [g EXCEPT
         !.chamber_flags = @ \ {g.chamber_position},
         !.bullets_loaded = SaturatingSub(@, 1),
         !.player_1_health = IF g.turn = 1 THEN SaturatingSub(@, 30) ELSE @,
         !.player_2_health = IF g.turn = 0 THEN SaturatingSub(@, 30) ELSE @]

\* Mutant of Loaded: a loaded chamber is counted once more.
LoadedAnyway(g) ==
  [g EXCEPT !.chamber_flags = @ \cup {g.chamber_position}, !.bullets_loaded = @ + 1]

\* A bullet goes into the current chamber, unless one is there.
Loaded(g) ==
  IF BulletPresent(g) THEN g
  ELSE [g EXCEPT !.chamber_flags = @ \cup {g.chamber_position},
                 !.bullets_loaded = @ + 1]

\* saturating_add(20).min(100)
Heal(h) == IF h + 20 > 100 THEN 100 ELSE h + 20

\* Item 1 heals its user.
Healed(g) ==
  [g EXCEPT !.player_1_health = IF g.turn = 0 THEN Heal(@) ELSE @,
            !.player_2_health = IF g.turn = 1 THEN Heal(@) ELSE @]

\* Mutant of RoundBegun: the turn is left where the last round ended.
RoundBegunOnTurn(g, load) ==
  [g EXCEPT !.chamber_flags = load, !.bullets_loaded = 3,
            !.chamber_position = 0, !.actions_this_round = 0,
            !.phase = "Playing", !.round = @ + 1]

\* What initialize_round resets, with the chambers it has drawn.
RoundBegun(g, load) ==
  [g EXCEPT !.chamber_flags = load, !.bullets_loaded = 3,
            !.chamber_position = 0, !.actions_this_round = 0, !.turn = 0,
            !.phase = "Playing", !.round = @ + 1]

-----------------------------------------------------------------------------
(***************************************************************************)
(* The instructions.  Signers are chosen by the environment; lamports move *)
(* by system transfers, which fail when the payer cannot cover them.       *)
(***************************************************************************)

\* create_game: `init` needs both addresses free, and its payer is the
\* creator, who funds the rent and then the bet.
CreateGame(p, bet) ==
  LET k == <<p, bet>>
  IN  /\ k \in Keys
      /\ game[k].phase = "Absent"
      /\ bet > 0
      /\ wallet[p] >= Rent + bet
      /\ game' = [game EXCEPT ![k] = NewGame(p, bet)]
      /\ vault' = [vault EXCEPT ![k] = @ + Rent + bet]
      /\ wallet' = [wallet EXCEPT ![p] = @ - (Rent + bet)]

\* Mutant of JoinGame: the bet is not transferred.
JoinGameUnpaid(k, p) ==
  /\ SeedsMatch(k)
  /\ game[k].phase = "WaitingForPlayer"
  /\ p # game[k].player_1
  /\ game' = [game EXCEPT ![k].player_2 = p, ![k].phase = "WaitingForVrf"]
  /\ UNCHANGED <<vault, wallet>>

JoinGame(k, p) ==
  /\ SeedsMatch(k)
  /\ game[k].phase = "WaitingForPlayer"
  /\ game[k].player_2 = NoPlayer
  /\ p # game[k].player_1
  /\ wallet[p] >= game[k].bet_lamports
  /\ game' = [game EXCEPT ![k].player_2 = p, ![k].phase = "WaitingForVrf"]
  /\ vault' = [vault EXCEPT ![k] = @ + game[k].bet_lamports]
  /\ wallet' = [wallet EXCEPT ![p] = @ - game[k].bet_lamports]

\* initialize_round asks for no signer: whoever sends it picks the seed, and
\* with it any of the loads the generator can draw.  Past RoundMax the
\* checked_add fails and takes the transaction with it.
InitializeRound(k, load) ==
  /\ SeedsMatch(k)
  /\ game[k].phase = "WaitingForVrf"
  /\ game[k].player_2 # NoPlayer
  /\ load \in Loads
  /\ game[k].round < RoundMax
  /\ game' = [game EXCEPT ![k] = RoundBegun(@, load)]
  /\ UNCHANGED <<vault, wallet>>

\* What shoot, reload and use_item ask of their signer.
MayAct(k, p) ==
  /\ SeedsMatch(k)
  /\ game[k].phase = "Playing"
  /\ p = OnTurn(game[k])

Shoot(k, p) ==
  /\ MayAct(k, p)
  /\ game' = [game EXCEPT ![k] = AdvanceAndResolve(Fired(@))]
  /\ UNCHANGED <<vault, wallet>>

Reload(k, p) ==
  /\ MayAct(k, p)
  /\ game[k].bullets_loaded < 6
  /\ game' = [game EXCEPT ![k] = AdvanceAndResolve(Loaded(@))]
  /\ UNCHANGED <<vault, wallet>>

UseItem(k, p, item) ==
  /\ MayAct(k, p)
  /\ item = 1
  /\ game' = [game EXCEPT ![k] = AdvanceAndResolve(Healed(@))]
  /\ UNCHANGED <<vault, wallet>>

\* Mutant of ClaimReward: the pot goes to the creator, whoever has won.
ClaimRewardByCreator(k, p) ==
  /\ SeedsMatch(k)
  /\ game[k].phase = "Finished"
  /\ p = game[k].player_1
  /\ game' = [game EXCEPT ![k] = NoGame]
  /\ vault' = [vault EXCEPT ![k] = 0]
  /\ wallet' = [wallet EXCEPT ![p] = @ + vault[k]]

\* claim_reward: the handler only checks; both accounts are then closed to
\* the signer by their `close = winner` constraints.
ClaimReward(k, p) ==
  /\ SeedsMatch(k)
  /\ game[k].phase = "Finished"
  /\ p = game[k].winner
  /\ game' = [game EXCEPT ![k] = NoGame]
  /\ vault' = [vault EXCEPT ![k] = 0]
  /\ wallet' = [wallet EXCEPT ![p] = @ + vault[k]]

Next ==
  \E p \in Players, k \in Keys :
    \/ CreateGame(p, k[2])
    \/ JoinGame(k, p)
    \/ \E load \in Loads : InitializeRound(k, load)
    \/ Shoot(k, p)
    \/ Reload(k, p)
    \/ \E item \in Items : UseItem(k, p, item)
    \/ ClaimReward(k, p)

Spec == Init /\ [][Next]_vars

-----------------------------------------------------------------------------
(***************************************************************************)
(* Properties.                                                             *)
(***************************************************************************)

\* Every account holds what the Rust types and the constants allow; in
\* particular no health leaves 0..100 and no lamport count goes below zero.
TypeOK ==
  /\ game \in [Keys -> Games]
  /\ vault \in [Keys -> Nat]
  /\ wallet \in [Players -> Nat]

\* The counter bullets_loaded, on which shoot, reload and the end of the
\* round rely, is the number of bits set in chamber_flags after any sequence
\* of shots and reloads.
ChamberCount ==
  \A k \in Keys :
    game[k].bullets_loaded = Cardinality(game[k].chamber_flags)

\* While a round is played every instruction moves turn, position and action
\* counter together: the cylinder is passed through once, player 1 acting on
\* the even chambers and player 2 on the odd ones.
TurnMatchesChamber ==
  \A k \in Keys : game[k].phase = "Playing" =>
    /\ game[k].chamber_position = game[k].actions_this_round
    /\ game[k].turn = game[k].chamber_position % 2

\* A game is finished exactly when it has a winner, and then the winner is
\* the player who acted last, alive, with the opponent at zero.
WinnerSurvives ==
  \A k \in Keys :
    LET g == game[k]
    IN  /\ (g.phase = "Finished") <=> (g.winner # NoPlayer)
        /\ g.phase = "Finished" =>
             /\ g.winner = OnTurn(g)
             /\ g.turn = 0 => g.player_1_health > 0 /\ g.player_2_health = 0
             /\ g.turn = 1 => g.player_2_health > 0 /\ g.player_1_health = 0

\* The accounts of a game hold the bets its phase says were paid, and
\* nothing once it is closed: no instruction can fail for lack of money that
\* the game is owed, and two games never share a lamport.
PotMatchesPhase ==
  \A k \in Keys :
    vault[k] = CASE game[k].phase = "Absent" -> 0
                 [] game[k].phase = "WaitingForPlayer" -> Rent + k[2]
                 [] OTHER -> Rent + 2 * k[2]

\* How far a game has come: phases within rounds, rounds within the game.
Age(g) ==
  CASE g.phase = "Absent" -> 0
    [] g.phase = "WaitingForPlayer" -> 1
    [] g.phase = "WaitingForVrf" -> 8 * g.round + 2
    [] g.phase = "Playing" -> 8 * g.round - 5 + g.actions_this_round
    [] g.phase = "Finished" -> 8 * g.round + 3

\* Every instruction takes its game forward until claim_reward closes it: no
\* sequence of legal instructions brings a game back to an earlier point, so
\* a round has at most six actions and a game at most 255 rounds.
EveryInstructionAges ==
  [][\A k \in Keys : game'[k] # game[k] =>
       \/ Age(game'[k]) > Age(game[k])
       \/ game[k].phase = "Finished" /\ game'[k] = NoGame]_vars

=============================================================================
