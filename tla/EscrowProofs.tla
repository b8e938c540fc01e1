---------------------------- MODULE EscrowProofs ----------------------------
(***************************************************************************)
(* Shellshock implements Escrow: each instruction is a step of the escrow  *)
(* or leaves it alone.  The inductive invariant supplies what the mapping  *)
(* forgets: who the parties are, and what the vaults hold.                 *)
(***************************************************************************)
EXTENDS ShellshockProofs

\* The escrow's variables over the program's.
stages == [k \in Keys |-> StageOf(game[k])]
rivals == [k \in Keys |-> game[k].player_2]
winners == [k \in Keys |-> game[k].winner]

LEMMA Stages ==
  ASSUME NEW g
  PROVE  /\ g.phase = "Absent" => StageOf(g) = "none"
         /\ g.phase = "WaitingForPlayer" => StageOf(g) = "open"
         /\ g.phase \in {"WaitingForVrf", "Playing"} => StageOf(g) = "matched"
         /\ g.phase = "Finished" => StageOf(g) = "decided"
<1>1. CASE g.phase = "Absent"
  BY <1>1 DEF StageOf
<1>2. CASE g.phase = "WaitingForPlayer"
  BY <1>2 DEF StageOf
<1>3. CASE g.phase \in {"WaitingForVrf", "Playing"}
  BY <1>3 DEF StageOf
<1>4. CASE g.phase = "Finished"
  BY <1>4 DEF StageOf
<1> QED BY <1>1, <1>2, <1>3, <1>4

\* An action of a player decides the escrow when it ends the game, and is a
\* stuttering step otherwise.
LEMMA PlayerDecides ==
  ASSUME IInv, NEW k \in Keys, NEW p \in Players,
         Shoot(k, p) \/ Reload(k, p) \/ \E item \in Items : UseItem(k, p, item)
  PROVE  [E!Next]_E!vars
<1>1. PICK g : /\ Takes(k, g)
               /\ g.phase \in {"WaitingForVrf", "Playing", "Finished"}
               /\ g.player_2 = game[k].player_2
               /\ game[k].phase = "Playing"
               /\ UNCHANGED <<vault, wallet>>
  BY PlayerActs
<1>2. \A j \in Keys : game'[j] = IF j = k THEN g ELSE game[j]
  BY <1>1, OneRecordChanges
<1>3. Sound(k, game[k]) /\ Sound(k, g)
  BY <1>1 DEF IInv, Takes
<1>4. rivals' = rivals
  BY <1>1, <1>2 DEF rivals
<1>5. CASE g.phase = "Finished"
  <2>1. /\ k[1] \in Players
        /\ g.player_1 = k[1]
        /\ g.player_2 \in Players
        /\ g.winner \in {k[1], game[k].player_2}
    BY <1>1, <1>3, <1>5 DEF Sound, Seated, Decided, OnTurn
  <2>2. stages[k] = "matched"
    BY <1>1, Stages DEF stages
  <2>3. stages' = [stages EXCEPT ![k] = "decided"]
    BY <1>2, <1>5, Stages DEF stages
  <2>4. winners' = [winners EXCEPT ![k] = g.winner]
    BY <1>2 DEF winners
  <2>5. g.winner \in Players /\ g.winner \in {k[1], rivals[k]}
    BY <1>1, <2>1 DEF rivals
  <2>6. E!Decide(k, g.winner)
    BY <1>1, <1>4, <2>2, <2>3, <2>4, <2>5
       DEF E!Decide, stages, rivals, winners
  <2> QED BY <2>5, <2>6 DEF E!Next
<1>6. CASE g.phase # "Finished"
  <2>1. stages' = stages
    BY <1>1, <1>2, <1>6, Stages DEF stages
  <2>2. winners' = winners
    BY <1>1, <1>2, <1>3, <1>6 DEF winners, Sound, Undecided
  <2> QED BY <1>1, <1>4, <2>1, <2>2 DEF E!vars, stages, rivals, winners
<1> QED BY <1>5, <1>6

\* The other instructions, one by one.
LEMMA InstructionsImplement ==
  ASSUME IInv, [Next]_vars
  PROVE  [E!Next]_E!vars
<1>1. /\ game \in [Keys -> Games]
      /\ vault \in [Keys -> Nat]
      /\ wallet \in [Players -> Nat]
      /\ PotMatchesPhase
      /\ \A k \in Keys : Sound(k, game[k])
  BY DEF IInv, TypeOK
<1>2. \A k \in Keys : k[1] \in Players /\ k[2] \in Nat /\ k = <<k[1], k[2]>>
  BY ShellshockAssumption
<1>3. Rent \in Nat
  BY ShellshockAssumption
<1>4. ASSUME NEW p \in Players, NEW k \in Keys, CreateGame(p, k[2])
      PROVE  [E!Next]_E!vars
  <2> DEFINE c == <<p, k[2]>>
             g == NewGame(p, k[2])
  <2>1. /\ c \in Keys /\ game[c].phase = "Absent"
        /\ wallet[p] >= Rent + k[2]
        /\ game' = [game EXCEPT ![c] = g]
        /\ vault' = [vault EXCEPT ![c] = vault[c] + Rent + k[2]]
        /\ wallet' = [wallet EXCEPT ![p] = wallet[p] - (Rent + k[2])]
    BY <1>1, <1>4 DEF CreateGame
  <2>2. c[1] = p /\ c[2] = k[2]
    OBVIOUS
  <2>3. g.phase = "WaitingForPlayer" /\ g.player_2 = NoPlayer /\ g.winner = NoPlayer
    BY DEF NewGame, NoGame
  <2> HIDE DEF g, c
  <2>4. game[c].player_2 = NoPlayer /\ game[c].winner = NoPlayer /\ vault[c] = 0
    BY <1>1, <2>1 DEF Sound, Seated, Undecided, PotMatchesPhase
  <2>5. \A j \in Keys : game'[j] = IF j = c THEN g ELSE game[j]
    BY <1>1, <2>1
  <2>6. stages[c] = "none" /\ stages' = [stages EXCEPT ![c] = "open"]
    <3>1. StageOf(game[c]) = "none"
      BY <2>1, Stages
    <3>2. \A j \in Keys : StageOf(game'[j]) = IF j = c THEN "open" ELSE StageOf(game[j])
      BY <2>3, <2>5, Stages
    <3> QED BY <2>1, <3>1, <3>2 DEF stages
  <2>7. rivals' = rivals /\ winners' = winners
    BY <2>3, <2>4, <2>5 DEF rivals, winners
  <2>8. vault' = [vault EXCEPT ![c] = Rent + c[2]]
    <3>1. vault[c] + Rent + k[2] = Rent + c[2]
      BY <1>2, <1>3, <2>2, <2>4
    <3> QED BY <2>1, <3>1
  <2>9. E!Open(c)
    BY <2>1, <2>2, <2>6, <2>7, <2>8 DEF E!Open, stages, rivals, winners
  <2> QED BY <2>1, <2>9 DEF E!Next
<1>5. ASSUME NEW p \in Players, NEW k \in Keys, JoinGame(k, p)
      PROVE  [E!Next]_E!vars
  <2> DEFINE g == [game[k] EXCEPT !.player_2 = p, !.phase = "WaitingForVrf"]
  <2>1. /\ game[k].phase = "WaitingForPlayer"
        /\ p # k[1]
        /\ wallet[p] >= k[2]
        /\ game' = [game EXCEPT ![k] = g]
        /\ vault' = [vault EXCEPT ![k] = vault[k] + k[2]]
        /\ wallet' = [wallet EXCEPT ![p] = wallet[p] - k[2]]
    <3>1. game[k].player_1 = k[1] /\ game[k].bet_lamports = k[2]
      BY <1>5 DEF JoinGame, SeedsMatch
    <3> QED BY <1>1, <1>5, <3>1 DEF JoinGame, Games
  <2>2. g.phase = "WaitingForVrf" /\ g.player_2 = p /\ g.winner = game[k].winner
    BY <1>1 DEF Games
  <2> HIDE DEF g
  <2>3. vault[k] = Rent + k[2]
    BY <1>1, <2>1 DEF PotMatchesPhase
  <2>4. \A j \in Keys : game'[j] = IF j = k THEN g ELSE game[j]
    BY <1>1, <2>1
  <2>5. stages[k] = "open" /\ stages' = [stages EXCEPT ![k] = "matched"]
    <3>1. StageOf(game[k]) = "open"
      BY <2>1, Stages
    <3>2. \A j \in Keys : StageOf(game'[j]) = IF j = k THEN "matched" ELSE StageOf(game[j])
      BY <2>2, <2>4, Stages
    <3> QED BY <3>1, <3>2 DEF stages
  <2>6. rivals' = [rivals EXCEPT ![k] = p]
    BY <2>2, <2>4 DEF rivals
  <2>7. winners' = winners
    BY <2>2, <2>4 DEF winners
  <2>8. vault' = [vault EXCEPT ![k] = Rent + 2 * k[2]]
    <3>1. vault[k] + k[2] = Rent + 2 * k[2]
      BY <1>2, <1>3, <2>3
    <3> QED BY <2>1, <3>1
  <2>9. E!Match(k, p)
    BY <2>1, <2>5, <2>6, <2>7, <2>8 DEF E!Match, stages, rivals, winners
  <2> QED BY <2>9 DEF E!Next
<1>6. ASSUME NEW k \in Keys, NEW load \in Loads, InitializeRound(k, load)
      PROVE  [E!Next]_E!vars
  <2> DEFINE g == RoundBegun(game[k], load)
  <2>1. /\ game[k].phase = "WaitingForVrf"
        /\ game' = [game EXCEPT ![k] = g]
        /\ UNCHANGED <<vault, wallet>>
    BY <1>1, <1>6 DEF InitializeRound
  <2>2. /\ g.phase = "Playing"
        /\ g.player_2 = game[k].player_2
        /\ g.winner = game[k].winner
    BY <1>1 DEF Games, RoundBegun
  <2> HIDE DEF g
  <2>3. \A j \in Keys : game'[j] = IF j = k THEN g ELSE game[j]
    BY <1>1, <2>1
  <2>4. stages' = stages /\ rivals' = rivals /\ winners' = winners
    BY <2>1, <2>2, <2>3, Stages DEF stages, rivals, winners
  <2> QED BY <2>1, <2>4 DEF E!vars, stages, rivals, winners
<1>7. ASSUME NEW p \in Players, NEW k \in Keys,
             Shoot(k, p) \/ Reload(k, p) \/ \E item \in Items : UseItem(k, p, item)
      PROVE  [E!Next]_E!vars
  BY <1>7, PlayerDecides
<1>8. ASSUME NEW p \in Players, NEW k \in Keys, ClaimReward(k, p)
      PROVE  [E!Next]_E!vars
  <2>1. /\ game[k].phase = "Finished" /\ p = game[k].winner
        /\ game' = [game EXCEPT ![k] = NoGame]
        /\ vault' = [vault EXCEPT ![k] = 0]
        /\ wallet' = [wallet EXCEPT ![p] = wallet[p] + vault[k]]
    BY <1>1, <1>8 DEF ClaimReward
  <2>2. \A j \in Keys : game'[j] = IF j = k THEN NoGame ELSE game[j]
    BY <1>1, <2>1
  <2>3. NoGame.phase = "Absent" /\ NoGame.player_2 = NoPlayer /\ NoGame.winner = NoPlayer
    BY DEF NoGame
  <2>4. stages[k] = "decided" /\ stages' = [stages EXCEPT ![k] = "none"]
    <3>1. StageOf(game[k]) = "decided"
      BY <2>1, Stages
    <3>2. \A j \in Keys : StageOf(game'[j]) = IF j = k THEN "none" ELSE StageOf(game[j])
      BY <2>2, <2>3, Stages
    <3> QED BY <3>1, <3>2 DEF stages
  <2>5. /\ rivals' = [rivals EXCEPT ![k] = NoPlayer]
        /\ winners' = [winners EXCEPT ![k] = NoPlayer]
    BY <2>2, <2>3 DEF rivals, winners
  <2>6. wallet[p] + vault[k] = wallet[p] + Rent + 2 * k[2]
    BY <1>1, <1>2, <1>3, <2>1 DEF PotMatchesPhase
  <2>7. winners[k] = p
    BY <2>1 DEF winners
  <2>8. wallet' = [wallet EXCEPT ![winners[k]] = wallet[winners[k]] + Rent + 2 * k[2]]
    BY <2>1, <2>6, <2>7
  <2>9. E!Pay(k)
    BY <2>1, <2>4, <2>5, <2>8 DEF E!Pay, stages, rivals, winners
  <2> QED BY <2>9 DEF E!Next
<1>9. CASE UNCHANGED vars
  BY <1>9 DEF vars, E!vars
<1> QED BY <1>4, <1>5, <1>6, <1>7, <1>8, <1>9 DEF Next

\* The program's initial states are the escrow's.
LEMMA InitImplements == Init => E!Init
<1> SUFFICES ASSUME Init PROVE E!Init
  OBVIOUS
<1>1. \A k \in Keys : /\ StageOf(game[k]) = "none"
                      /\ game[k].player_2 = NoPlayer
                      /\ game[k].winner = NoPlayer
  BY Stages DEF Init, NoGame
<1> QED BY <1>1 DEF Init, E!Init

\* Whatever happens in the games, stakes are put in, matched and paid out as
\* the escrow says: to the winner alone, and once.
THEOREM EscrowIsImplemented == Spec => ImplementsEscrow
<1>1. IInv /\ [Next]_vars => [E!Next]_E!vars
  BY InstructionsImplement
<1> QED BY <1>1, InitImplements, Invariance, PTL DEF Spec, ImplementsEscrow, E!Spec

=============================================================================
