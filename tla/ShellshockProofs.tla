--------------------------- MODULE ShellshockProofs ---------------------------
(***************************************************************************)
(* Invariants of the on-chain program for any players, any addresses and   *)
(* any bound on the rounds.  Games do not interfere: what holds of a game  *)
(* is a property of its record, proved instruction by instruction and then *)
(* lifted to all addresses; the vaults are tied to the records last.       *)
(***************************************************************************)
EXTENDS ShellshockEscrow, ShellshockRounds, FiniteSetTheorems, TLAPS

-----------------------------------------------------------------------------
(***************************************************************************)
(* The inductive invariant of one game record, at the address k.           *)
(***************************************************************************)

\* Who sits at the game.
Seated(k, g) ==
  /\ g.phase = "Absent" => g = NoGame
  /\ g.phase # "Absent" =>
       g.player_1 \in Players /\ <<g.player_1, g.bet_lamports>> = k
  /\ g.phase \in {"Absent", "WaitingForPlayer"} => g.player_2 = NoPlayer
  /\ g.phase \in {"WaitingForVrf", "Playing", "Finished"} =>
       g.player_2 \in Players \ {g.player_1}

\* The counter agrees with the flags.
Counted(g) == g.bullets_loaded = Cardinality(g.chamber_flags)

\* Where the hammer is during a round.
Hammer(g) ==
  g.phase = "Playing" =>
    /\ g.actions_this_round < 6
    /\ g.round >= 1
    /\ g.chamber_position = g.actions_this_round
    /\ g.turn = g.chamber_position % 2

\* Everybody lives until the game is finished, and has no winner till then.
Undecided(g) ==
  g.phase # "Finished" =>
    /\ g.winner = NoPlayer
    /\ g.phase # "Absent" => g.player_1_health > 0 /\ g.player_2_health > 0

Decided(g) ==
  g.phase = "Finished" =>
    /\ g.winner = OnTurn(g)
    /\ g.turn = 0 => g.player_1_health > 0 /\ g.player_2_health = 0
    /\ g.turn = 1 => g.player_2_health > 0 /\ g.player_1_health = 0

\* The bullets in even and in odd chambers from position pos on: those that
\* player 1 and player 2 can still fire.
Bullet(g, c, pos) == IF c \in g.chamber_flags /\ c >= pos THEN 1 ELSE 0

EvenAhead(g, pos) == Bullet(g, 0, pos) + Bullet(g, 2, pos) + Bullet(g, 4, pos)

OddAhead(g, pos) == Bullet(g, 1, pos) + Bullet(g, 3, pos) + Bullet(g, 5, pos)

\* A player's health is never below 100 less two shots for every round; in
\* a round it is above that by the shots the opponent may still land.
HealthFloor(g, pos) ==
  /\ g.player_1_health >= 100 - 60 * g.round + 30 * OddAhead(g, pos)
  /\ g.player_2_health >= 100 - 60 * g.round + 30 * EvenAhead(g, pos)

Floors(g) ==
  /\ g.phase = "Playing" => HealthFloor(g, g.chamber_position)
  /\ g.phase # "Absent" =>
       /\ g.player_1_health >= 100 - 60 * g.round
       /\ g.player_2_health >= 100 - 60 * g.round

Sound(k, g) ==
  /\ g \in Games
  /\ Seated(k, g)
  /\ Counted(g)
  /\ Hammer(g)
  /\ Undecided(g)
  /\ Decided(g)
  /\ Floors(g)

\* The record of a game between the effect of an action and the call of
\* advance_and_resolve_round: only the player not on turn may be dead, and
\* the chamber under the hammer no longer counts.
Acted(k, g) ==
  /\ g \in Games
  /\ g.phase = "Playing"
  /\ Seated(k, g)
  /\ Counted(g)
  /\ Hammer(g)
  /\ g.winner = NoPlayer
  /\ g.turn = 0 => g.player_1_health > 0
  /\ g.turn = 1 => g.player_2_health > 0
  /\ HealthFloor(g, g.chamber_position + 1)

\* What no action changes before its ending.
SameTurn(g, f) ==
  /\ f.player_2 = g.player_2
  /\ f.round = g.round
  /\ f.actions_this_round = g.actions_this_round

-----------------------------------------------------------------------------
(***************************************************************************)
(* Lemmas about the cylinder.                                              *)
(***************************************************************************)

LEMMA PositionsFinite == IsFiniteSet(Positions)
<1>1. 0 \in Int /\ 5 \in Int
  OBVIOUS
<1> QED BY <1>1, FS_Interval, Zenon DEF Positions

LEMMA ChambersFinite ==
  ASSUME NEW chambers \in SUBSET Positions
  PROVE  IsFiniteSet(chambers) /\ Cardinality(chambers) \in Nat
BY PositionsFinite, FS_Subset, FS_CardinalityType

\* Three bullets of mixed parity: at most two of either.
LEMMA LoadsAreShared ==
  ASSUME NEW load \in Loads
  PROVE  ~({0, 2, 4} \subseteq load) /\ ~({1, 3, 5} \subseteq load)
<1>1. /\ IsFiniteSet(load)
      /\ Cardinality(load) = 3
      /\ \E c \in load : c % 2 = 0
      /\ \E c \in load : c % 2 = 1
  BY ChambersFinite DEF Loads
<1>2. ASSUME NEW a, NEW b, NEW c, a # b, b # c, a # c, {a, b, c} \subseteq load
      PROVE  load = {a, b, c}
  <2>1. Cardinality({a, b, c}) = 3
    <3>1. IsFiniteSet({}) /\ Cardinality({}) = 0
      BY FS_EmptySet
    <3>2. IsFiniteSet({a}) /\ Cardinality({a}) = 1
      BY FS_Singleton
    <3>3. IsFiniteSet({a} \cup {b}) /\ Cardinality({a} \cup {b}) = 2
      BY <1>2, <3>2, FS_AddElement
    <3>4. Cardinality(({a} \cup {b}) \cup {c}) = 3
      BY <1>2, <3>3, FS_AddElement
    <3>5. ({a} \cup {b}) \cup {c} = {a, b, c}
      OBVIOUS
    <3> QED BY <3>4, <3>5
  <2> QED BY <1>1, <1>2, <2>1, FS_Subset
<1>3. ~({0, 2, 4} \subseteq load)
  <2> SUFFICES ASSUME {0, 2, 4} \subseteq load PROVE FALSE
    OBVIOUS
  <2>1. load = {0, 2, 4}
    BY <1>2
  <2> QED BY <1>1, <2>1
<1>4. ~({1, 3, 5} \subseteq load)
  <2> SUFFICES ASSUME {1, 3, 5} \subseteq load PROVE FALSE
    OBVIOUS
  <2>1. load = {1, 3, 5}
    BY <1>2
  <2> QED BY <1>1, <2>1
<1> QED BY <1>3, <1>4

-----------------------------------------------------------------------------
(***************************************************************************)
(* Each effect on a record, and then the common ending of an action.       *)
(***************************************************************************)

\* Firing the chamber under the hammer: the opponent loses 30 at most when
\* the bullet leaves the count of those ahead.
LEMMA FiredActs ==
  ASSUME NEW k, NEW g, Sound(k, g), g.phase = "Playing"
  PROVE  Acted(k, Fired(g)) /\ SameTurn(g, Fired(g))
<1> DEFINE f == Fired(g)
<1>1. /\ g \in Games
      /\ g.chamber_position \in Positions
      /\ g.chamber_flags \in SUBSET Positions
      /\ g.turn \in {0, 1}
  BY DEF Sound, Games
<1>2. CASE ~BulletPresent(g)
  <2>1. f = g
    BY <1>2 DEF Fired
  <2>2. HealthFloor(g, g.chamber_position + 1)
    BY <1>1, <1>2 DEF Sound, Floors, HealthFloor, OddAhead, EvenAhead, Bullet,
                      BulletPresent, Games, Positions
  <2> QED BY <2>1, <2>2
         DEF Acted, SameTurn, Sound, Undecided, Seated, Counted, Hammer
<1>3. CASE BulletPresent(g)
  <2>1. /\ f.chamber_flags = g.chamber_flags \ {g.chamber_position}
        /\ f.bullets_loaded = SaturatingSub(g.bullets_loaded, 1)
        /\ f.player_1_health = IF g.turn = 1 THEN SaturatingSub(g.player_1_health, 30)
                                             ELSE g.player_1_health
        /\ f.player_2_health = IF g.turn = 0 THEN SaturatingSub(g.player_2_health, 30)
                                             ELSE g.player_2_health
        /\ f.player_1 = g.player_1
        /\ f.player_2 = g.player_2
        /\ f.bet_lamports = g.bet_lamports
        /\ f.phase = g.phase
        /\ f.turn = g.turn
        /\ f.chamber_position = g.chamber_position
        /\ f.actions_this_round = g.actions_this_round
        /\ f.round = g.round
        /\ f.winner = g.winner
    BY <1>1, <1>3 DEF Fired, Games
  <2>2. f \in Games
    <3>1. /\ f.chamber_flags \in SUBSET Positions
          /\ f.bullets_loaded \in 0..6
          /\ f.player_1_health \in 0..100
          /\ f.player_2_health \in 0..100
      BY <1>1, <2>1 DEF Games, SaturatingSub
    <3>2. f = [g EXCEPT !.chamber_flags = f.chamber_flags,
                        !.bullets_loaded = f.bullets_loaded,
                        !.player_1_health = f.player_1_health,
                        !.player_2_health = f.player_2_health]
      BY <1>1, <1>3 DEF Fired, Games
    <3> HIDE DEF f
    <3> QED BY <1>1, <3>1, <3>2 DEF Games
  <2>3. Counted(f)
    <3>1. Cardinality(f.chamber_flags) = Cardinality(g.chamber_flags) - 1
      BY <1>1, <1>3, <2>1, ChambersFinite, FS_RemoveElement DEF BulletPresent
    <3>2. Cardinality(g.chamber_flags) \in Nat /\ Cardinality(f.chamber_flags) \in Nat
      BY <1>1, <2>1, ChambersFinite
    <3>3. g.bullets_loaded = Cardinality(g.chamber_flags)
      BY DEF Sound, Counted
    <3> QED BY <2>1, <3>1, <3>2, <3>3 DEF Counted, SaturatingSub
  <2>4. Seated(k, f) /\ Hammer(f) /\ f.winner = NoPlayer
    BY <2>1 DEF Sound, Seated, Hammer, Undecided
  <2>5. /\ f.turn = 0 => f.player_1_health > 0
        /\ f.turn = 1 => f.player_2_health > 0
    BY <2>1 DEF Sound, Undecided
  <2>6. HealthFloor(f, f.chamber_position + 1)
    <3>1. /\ OddAhead(f, f.chamber_position + 1) =
               OddAhead(g, g.chamber_position) - (g.chamber_position % 2)
          /\ EvenAhead(f, f.chamber_position + 1) =
               EvenAhead(g, g.chamber_position) - (1 - (g.chamber_position % 2))
      BY <1>1, <1>3, <2>1 DEF OddAhead, EvenAhead, Bullet, BulletPresent, Positions
    <3>2. /\ g.turn = g.chamber_position % 2
          /\ HealthFloor(g, g.chamber_position)
      BY DEF Sound, Hammer, Floors
    <3>3. /\ OddAhead(g, g.chamber_position) \in Int
          /\ EvenAhead(g, g.chamber_position) \in Int
          /\ g.player_1_health \in Nat /\ g.player_2_health \in Nat
          /\ g.round \in Int
      BY <1>1, ShellshockAssumption DEF OddAhead, EvenAhead, Bullet, Games
    <3> QED BY <1>1, <2>1, <3>1, <3>2, <3>3 DEF HealthFloor, SaturatingSub
  <2> QED BY <2>1, <2>2, <2>3, <2>4, <2>5, <2>6 DEF Acted, SameTurn
<1> QED BY <1>2, <1>3

\* Loading the chamber under the hammer: it does not count as ahead.
LEMMA LoadedActs ==
  ASSUME NEW k, NEW g, Sound(k, g), g.phase = "Playing", g.bullets_loaded < 6
  PROVE  Acted(k, Loaded(g)) /\ SameTurn(g, Loaded(g))
<1> DEFINE f == Loaded(g)
<1>1. /\ g \in Games
      /\ g.chamber_position \in Positions
      /\ g.chamber_flags \in SUBSET Positions
  BY DEF Sound, Games
<1>2. CASE BulletPresent(g)
  <2>1. f = g
    BY <1>2 DEF Loaded
  <2>2. HealthFloor(g, g.chamber_position + 1)
    <3>1. /\ OddAhead(g, g.chamber_position + 1) <= OddAhead(g, g.chamber_position)
          /\ EvenAhead(g, g.chamber_position + 1) <= EvenAhead(g, g.chamber_position)
      BY <1>1 DEF OddAhead, EvenAhead, Bullet, Positions
    <3>2. /\ OddAhead(g, g.chamber_position) \in Int
          /\ OddAhead(g, g.chamber_position + 1) \in Int
          /\ EvenAhead(g, g.chamber_position) \in Int
          /\ EvenAhead(g, g.chamber_position + 1) \in Int
          /\ g.player_1_health \in Nat /\ g.player_2_health \in Nat
          /\ g.round \in Int
      BY <1>1, ShellshockAssumption DEF OddAhead, EvenAhead, Bullet, Games
    <3>3. HealthFloor(g, g.chamber_position)
      BY DEF Sound, Floors
    <3> QED BY <3>1, <3>2, <3>3 DEF HealthFloor
  <2> QED BY <2>1, <2>2
         DEF Acted, SameTurn, Sound, Undecided, Seated, Counted, Hammer
<1>3. CASE ~BulletPresent(g)
  <2>1. /\ f.chamber_flags = g.chamber_flags \cup {g.chamber_position}
        /\ f.bullets_loaded = g.bullets_loaded + 1
        /\ f.player_1_health = g.player_1_health
        /\ f.player_2_health = g.player_2_health
        /\ f.player_1 = g.player_1
        /\ f.player_2 = g.player_2
        /\ f.bet_lamports = g.bet_lamports
        /\ f.phase = g.phase
        /\ f.turn = g.turn
        /\ f.chamber_position = g.chamber_position
        /\ f.actions_this_round = g.actions_this_round
        /\ f.round = g.round
        /\ f.winner = g.winner
    BY <1>1, <1>3 DEF Loaded, Games
  <2>2. f \in Games
    <3>1. f.chamber_flags \in SUBSET Positions /\ f.bullets_loaded \in 0..6
      BY <1>1, <2>1 DEF Games
    <3>2. f = [g EXCEPT !.chamber_flags = f.chamber_flags,
                        !.bullets_loaded = f.bullets_loaded]
      BY <1>1, <1>3 DEF Loaded, Games
    <3> HIDE DEF f
    <3> QED BY <1>1, <3>1, <3>2 DEF Games
  <2>3. Counted(f)
    BY <1>1, <1>3, <2>1, ChambersFinite, FS_AddElement
       DEF Sound, Counted, BulletPresent
  <2>4. Seated(k, f) /\ Hammer(f) /\ f.winner = NoPlayer
    BY <2>1 DEF Sound, Seated, Hammer, Undecided
  <2>5. f.player_1_health > 0 /\ f.player_2_health > 0
    BY <2>1 DEF Sound, Undecided
  <2>6. HealthFloor(f, f.chamber_position + 1)
    <3>1. /\ OddAhead(f, f.chamber_position + 1) = OddAhead(g, g.chamber_position)
          /\ EvenAhead(f, f.chamber_position + 1) = EvenAhead(g, g.chamber_position)
      BY <1>1, <1>3, <2>1 DEF OddAhead, EvenAhead, Bullet, BulletPresent, Positions
    <3> QED BY <2>1, <3>1 DEF HealthFloor, Sound, Floors
  <2> QED BY <2>1, <2>2, <2>3, <2>4, <2>5, <2>6 DEF Acted, SameTurn
<1> QED BY <1>2, <1>3

\* An item only adds health; the hammer moves on over the chamber.
LEMMA HealedActs ==
  ASSUME NEW k, NEW g, Sound(k, g), g.phase = "Playing"
  PROVE  Acted(k, Healed(g)) /\ SameTurn(g, Healed(g))
<1> DEFINE f == Healed(g)
<1>1. /\ g \in Games
      /\ g.chamber_position \in Positions
      /\ g.chamber_flags \in SUBSET Positions
      /\ g.player_1_health \in 1..100
      /\ g.player_2_health \in 1..100
      /\ g.round \in Nat
  BY ShellshockAssumption DEF Sound, Undecided, Games
<1>2. /\ f.chamber_flags = g.chamber_flags
      /\ f.bullets_loaded = g.bullets_loaded
      /\ f.player_1_health = IF g.turn = 0 THEN Heal(g.player_1_health)
                                           ELSE g.player_1_health
      /\ f.player_2_health = IF g.turn = 1 THEN Heal(g.player_2_health)
                                           ELSE g.player_2_health
      /\ f.player_1 = g.player_1
      /\ f.player_2 = g.player_2
      /\ f.bet_lamports = g.bet_lamports
      /\ f.phase = g.phase
      /\ f.turn = g.turn
      /\ f.chamber_position = g.chamber_position
      /\ f.actions_this_round = g.actions_this_round
      /\ f.round = g.round
      /\ f.winner = g.winner
  BY <1>1 DEF Healed, Games
<1>3. /\ f.player_1_health \in 1..100 /\ f.player_1_health >= g.player_1_health
      /\ f.player_2_health \in 1..100 /\ f.player_2_health >= g.player_2_health
  BY <1>1, <1>2 DEF Heal
<1>4. f \in Games
  <2>1. f = [g EXCEPT !.player_1_health = f.player_1_health,
                      !.player_2_health = f.player_2_health]
    BY <1>1 DEF Healed, Games
  <2>2. f.player_1_health \in 0..100 /\ f.player_2_health \in 0..100
    BY <1>3
  <2> HIDE DEF f
  <2> QED BY <1>1, <2>1, <2>2 DEF Games
<1>5. Seated(k, f) /\ Hammer(f) /\ Counted(f) /\ f.winner = NoPlayer
  BY <1>2 DEF Sound, Seated, Hammer, Undecided, Counted
<1>6. HealthFloor(f, f.chamber_position + 1)
  <2>1. /\ OddAhead(f, f.chamber_position + 1) <= OddAhead(g, g.chamber_position)
        /\ EvenAhead(f, f.chamber_position + 1) <= EvenAhead(g, g.chamber_position)
    BY <1>1, <1>2 DEF OddAhead, EvenAhead, Bullet, Positions
  <2>2. /\ OddAhead(g, g.chamber_position) \in Int
        /\ OddAhead(f, f.chamber_position + 1) \in Int
        /\ EvenAhead(g, g.chamber_position) \in Int
        /\ EvenAhead(f, f.chamber_position + 1) \in Int
    BY DEF OddAhead, EvenAhead, Bullet
  <2>3. HealthFloor(g, g.chamber_position)
    BY DEF Sound, Floors
  <2> QED BY <1>1, <1>2, <1>3, <2>1, <2>2, <2>3 DEF HealthFloor
<1> QED BY <1>2, <1>3, <1>4, <1>5, <1>6 DEF Acted, SameTurn

\* The ending: whichever way the action ends, the record is sound again and
\* the game has come further.
LEMMA EndingIsSound ==
  ASSUME NEW k, NEW g, Acted(k, g)
  PROVE  /\ Sound(k, AdvanceAndResolve(g))
         /\ AdvanceAndResolve(g).phase \in {"WaitingForVrf", "Playing", "Finished"}
         /\ AdvanceAndResolve(g).player_2 = g.player_2
         /\ Age(AdvanceAndResolve(g)) > 8 * g.round - 5 + g.actions_this_round
<1> DEFINE a == Advanced(g)
           r == AdvanceAndResolve(g)
<1>1. /\ g \in Games
      /\ g.phase = "Playing"
      /\ g.actions_this_round \in 0..5
      /\ g.chamber_position = g.actions_this_round
      /\ g.turn = g.chamber_position % 2
      /\ g.turn \in {0, 1}
      /\ g.round \in Nat
      /\ g.round >= 1
      /\ g.player_1_health \in 0..100
      /\ g.player_2_health \in 0..100
      /\ g.chamber_flags \in SUBSET Positions
      /\ g.winner = NoPlayer
      /\ Counted(g)
      /\ g.player_1 \in Players
      /\ <<g.player_1, g.bet_lamports>> = k
      /\ g.player_2 \in Players \ {g.player_1}
  BY ShellshockAssumption DEF Acted, Seated, Hammer, Games
<1>2. /\ a.actions_this_round = g.actions_this_round + 1
      /\ a.chamber_position = (g.chamber_position + 1) % 6
      /\ a.chamber_flags = g.chamber_flags
      /\ a.bullets_loaded = g.bullets_loaded
      /\ a.player_1_health = g.player_1_health
      /\ a.player_2_health = g.player_2_health
      /\ a.player_1 = g.player_1
      /\ a.player_2 = g.player_2
      /\ a.bet_lamports = g.bet_lamports
      /\ a.phase = "Playing"
      /\ a.turn = g.turn
      /\ a.round = g.round
      /\ a.winner = NoPlayer
  BY <1>1 DEF Advanced, Games
<1>3. a \in Games
  <2>1. a.actions_this_round \in 0..6 /\ a.chamber_position \in Positions
    BY <1>1, <1>2 DEF Positions
  <2>2. a = [g EXCEPT !.actions_this_round = a.actions_this_round,
                      !.chamber_position = a.chamber_position]
    BY <1>1 DEF Advanced, Games
  <2> HIDE DEF a
  <2> QED BY <1>1, <2>1, <2>2 DEF Games
<1>4. r = Resolve(a)
  BY DEF AdvanceAndResolve
<1>5. /\ g.player_1_health >= 100 - 60 * g.round + 30 * OddAhead(g, g.chamber_position + 1)
      /\ g.player_2_health >= 100 - 60 * g.round + 30 * EvenAhead(g, g.chamber_position + 1)
      /\ OddAhead(g, g.chamber_position + 1) \in Nat
      /\ EvenAhead(g, g.chamber_position + 1) \in Nat
  BY DEF Acted, HealthFloor, OddAhead, EvenAhead, Bullet
<1>6. /\ g.player_1_health >= 100 - 60 * g.round
      /\ g.player_2_health >= 100 - 60 * g.round
  BY <1>1, <1>5
<1>7. CASE SomeoneDead(a)
  <2>1. /\ r.phase = "Finished"
        /\ r.winner = IF g.player_1_health > 0 THEN g.player_1 ELSE g.player_2
        /\ r.actions_this_round = a.actions_this_round
        /\ r.chamber_flags = g.chamber_flags
        /\ r.bullets_loaded = g.bullets_loaded
        /\ r.player_1_health = g.player_1_health
        /\ r.player_2_health = g.player_2_health
        /\ r.player_1 = g.player_1
        /\ r.player_2 = g.player_2
        /\ r.bet_lamports = g.bet_lamports
        /\ r.turn = g.turn
        /\ r.round = g.round
    BY <1>2, <1>3, <1>4, <1>7 DEF Resolve, Games
  <2>2. r \in Games
    <3>1. r = [a EXCEPT !.phase = "Finished", !.winner = r.winner]
      BY <1>3, <1>4, <1>7 DEF Resolve, Games
    <3>2. r.winner \in Players
      BY <1>1, <2>1
    <3> HIDE DEF r, a
    <3> QED BY <1>3, <3>1, <3>2 DEF Games, Phases
  <2>3. Seated(k, r) /\ Counted(r) /\ Hammer(r) /\ Undecided(r) /\ Floors(r)
    BY <1>1, <1>6, <2>1 DEF Seated, Counted, Hammer, Undecided, Floors
  <2>4. Decided(r)
    BY <1>1, <1>2, <1>7, <2>1 DEF Decided, OnTurn, SomeoneDead, Acted
  <2>5. Age(r) = 8 * g.round + 3
    BY <2>1 DEF Age
  <2> QED BY <1>1, <2>1, <2>2, <2>3, <2>4, <2>5 DEF Sound
<1>8. CASE ~SomeoneDead(a) /\ RoundOver(a)
  <2>1. /\ r.phase = "WaitingForVrf"
        /\ r.winner = NoPlayer
        /\ r.chamber_flags = g.chamber_flags
        /\ r.bullets_loaded = g.bullets_loaded
        /\ r.player_1_health = g.player_1_health
        /\ r.player_2_health = g.player_2_health
        /\ r.player_1 = g.player_1
        /\ r.player_2 = g.player_2
        /\ r.bet_lamports = g.bet_lamports
        /\ r.round = g.round
    BY <1>2, <1>3, <1>4, <1>8 DEF Resolve, Games
  <2>2. r \in Games
    <3>1. r = [a EXCEPT !.phase = "WaitingForVrf"]
      BY <1>4, <1>8 DEF Resolve
    <3> HIDE DEF r, a
    <3> QED BY <1>3, <3>1 DEF Games, Phases
  <2>3. Seated(k, r) /\ Counted(r) /\ Hammer(r) /\ Decided(r) /\ Floors(r)
    BY <1>1, <1>6, <2>1 DEF Seated, Counted, Hammer, Decided, Floors
  <2>4. Undecided(r)
    BY <1>1, <1>2, <1>8, <2>1 DEF Undecided, SomeoneDead
  <2>5. Age(r) = 8 * g.round + 2
    BY <2>1 DEF Age
  <2> QED BY <1>1, <2>1, <2>2, <2>3, <2>4, <2>5 DEF Sound
<1>9. CASE ~SomeoneDead(a) /\ ~RoundOver(a)
  <2>1. /\ r.phase = "Playing"
        /\ r.winner = NoPlayer
        /\ r.turn = 1 - g.turn
        /\ r.actions_this_round = g.actions_this_round + 1
        /\ r.chamber_position = (g.chamber_position + 1) % 6
        /\ r.chamber_flags = g.chamber_flags
        /\ r.bullets_loaded = g.bullets_loaded
        /\ r.player_1_health = g.player_1_health
        /\ r.player_2_health = g.player_2_health
        /\ r.player_1 = g.player_1
        /\ r.player_2 = g.player_2
        /\ r.bet_lamports = g.bet_lamports
        /\ r.round = g.round
    BY <1>2, <1>3, <1>4, <1>9 DEF Resolve, Games
  <2>2. r \in Games
    <3>1. r = [a EXCEPT !.turn = 1 - a.turn]
      BY <1>3, <1>4, <1>9 DEF Resolve, Games
    <3>2. 1 - a.turn \in {0, 1}
      BY <1>1, <1>2
    <3> HIDE DEF r, a
    <3> QED BY <1>3, <3>1, <3>2 DEF Games
  <2>3. r.actions_this_round \in 1..5 /\ r.chamber_position = r.actions_this_round
    BY <1>1, <1>2, <1>9, <2>1 DEF RoundOver
  <2>4. Hammer(r)
    BY <1>1, <2>1, <2>3 DEF Hammer
  <2>5. Seated(k, r) /\ Counted(r) /\ Decided(r)
    BY <1>1, <2>1 DEF Seated, Counted, Decided
  <2>6. Undecided(r)
    BY <1>1, <1>2, <1>9, <2>1 DEF Undecided, SomeoneDead
  <2>7. Floors(r)
    <3>1. r.chamber_position = g.chamber_position + 1
      BY <1>1, <2>1, <2>3
    <3>2. /\ OddAhead(r, r.chamber_position) = OddAhead(g, g.chamber_position + 1)
          /\ EvenAhead(r, r.chamber_position) = EvenAhead(g, g.chamber_position + 1)
      BY <2>1, <3>1 DEF OddAhead, EvenAhead, Bullet
    <3> QED BY <1>5, <1>6, <2>1, <3>1, <3>2 DEF Floors, HealthFloor
  <2>8. Age(r) = 8 * g.round - 5 + g.actions_this_round + 1
    BY <1>1, <2>1 DEF Age
  <2> QED BY <1>1, <2>1, <2>2, <2>4, <2>5, <2>6, <2>7, <2>8 DEF Sound
<1> QED BY <1>7, <1>8, <1>9

\* A round begins with the hammer before a load that is not all of one
\* parity, which leaves room for two hits on either side.
LEMMA RoundBegunIsSound ==
  ASSUME NEW k, NEW g, Sound(k, g), g.phase = "WaitingForVrf",
         g.round < RoundMax, NEW load \in Loads
  PROVE  /\ Sound(k, RoundBegun(g, load))
         /\ Age(RoundBegun(g, load)) > Age(g)
<1> DEFINE r == RoundBegun(g, load)
<1>1. /\ g \in Games
      /\ g.round \in Nat
      /\ g.player_1_health \in 1..100
      /\ g.player_2_health \in 1..100
      /\ g.player_1_health >= 100 - 60 * g.round
      /\ g.player_2_health >= 100 - 60 * g.round
      /\ g.winner = NoPlayer
      /\ g.player_1 \in Players
      /\ <<g.player_1, g.bet_lamports>> = k
      /\ g.player_2 \in Players \ {g.player_1}
  BY ShellshockAssumption DEF Sound, Seated, Undecided, Floors, Games
<1>2. /\ r.chamber_flags = load
      /\ r.bullets_loaded = 3
      /\ r.chamber_position = 0
      /\ r.actions_this_round = 0
      /\ r.turn = 0
      /\ r.phase = "Playing"
      /\ r.round = g.round + 1
      /\ r.player_1_health = g.player_1_health
      /\ r.player_2_health = g.player_2_health
      /\ r.player_1 = g.player_1
      /\ r.player_2 = g.player_2
      /\ r.bet_lamports = g.bet_lamports
      /\ r.winner = NoPlayer
  BY <1>1 DEF RoundBegun, Games
<1>3. r \in Games
  <2>1. /\ load \in SUBSET Positions
        /\ 0 \in Positions /\ 0 \in {0, 1} /\ 0 \in 0..6 /\ 3 \in 0..6
        /\ g.round + 1 \in 0..RoundMax
    BY <1>1, ShellshockAssumption DEF Loads, Positions, Games
  <2>2. r = [g EXCEPT !.chamber_flags = load, !.bullets_loaded = 3,
                      !.chamber_position = 0, !.actions_this_round = 0,
                      !.turn = 0, !.phase = "Playing", !.round = g.round + 1]
    BY <1>1 DEF RoundBegun, Games
  <2> HIDE DEF r
  <2> QED BY <1>1, <2>1, <2>2 DEF Games, Phases
<1>4. Counted(r)
  BY <1>2 DEF Counted, Loads
<1>5. Seated(k, r) /\ Hammer(r) /\ Undecided(r) /\ Decided(r)
  BY <1>1, <1>2 DEF Seated, Hammer, Undecided, Decided
<1>6. Floors(r)
  <2>1. OddAhead(r, 0) <= 2 /\ EvenAhead(r, 0) <= 2
    BY <1>2, LoadsAreShared DEF OddAhead, EvenAhead, Bullet
  <2>2. OddAhead(r, 0) \in Int /\ EvenAhead(r, 0) \in Int
    BY DEF OddAhead, EvenAhead, Bullet
  <2> HIDE DEF r
  <2>3. HealthFloor(r, 0)
    <3>1. ASSUME NEW h \in Int, NEW n \in Int, NEW shots \in Int,
                 h >= 100 - 60 * n, shots <= 2
          PROVE  h >= 100 - 60 * (n + 1) + 30 * shots
      BY <3>1
    <3>2. /\ g.player_1_health \in Int /\ g.player_1_health >= 100 - 60 * g.round
          /\ g.player_2_health \in Int /\ g.player_2_health >= 100 - 60 * g.round
          /\ g.round \in Int
      BY <1>1
    <3>3. g.player_1_health >= 100 - 60 * (g.round + 1) + 30 * OddAhead(r, 0)
      BY <2>1, <2>2, <3>1, <3>2
    <3>4. g.player_2_health >= 100 - 60 * (g.round + 1) + 30 * EvenAhead(r, 0)
      BY <2>1, <2>2, <3>1, <3>2
    <3> QED BY <1>2, <3>3, <3>4 DEF HealthFloor
  <2>4. r.player_1_health >= 100 - 60 * r.round /\ r.player_2_health >= 100 - 60 * r.round
    BY <1>1, <1>2
  <2> QED BY <1>2, <2>3, <2>4 DEF Floors
<1>7. Age(r) = 8 * (g.round + 1) - 5 /\ Age(g) = 8 * g.round + 2
  BY <1>1, <1>2 DEF Age
<1> QED BY <1>1, <1>3, <1>4, <1>5, <1>6, <1>7 DEF Sound

\* An empty address, a game just created and a game just joined are sound.
LEMMA NoGameIsSound ==
  ASSUME NEW k
  PROVE  Sound(k, NoGame)
<1>1. NoGame \in Games
  BY ShellshockAssumption DEF NoGame, Games, Phases, Positions
<1>2. Counted(NoGame)
  BY FS_EmptySet DEF Counted, NoGame
<1> QED BY <1>1, <1>2, ShellshockAssumption
        DEF Sound, Seated, Hammer, Undecided, Decided, Floors, NoGame

LEMMA NewGameIsSound ==
  ASSUME NEW p \in Players, NEW bet \in Nat
  PROVE  Sound(<<p, bet>>, NewGame(p, bet))
<1> DEFINE g == NewGame(p, bet)
<1>1. NoGame \in Games /\ NoGame.chamber_flags = {} /\ NoGame.bullets_loaded = 0
  BY NoGameIsSound DEF Sound, NoGame
<1>2. /\ g.player_1 = p
      /\ g.player_2 = NoPlayer
      /\ g.bet_lamports = bet
      /\ g.phase = "WaitingForPlayer"
      /\ g.player_1_health = 100
      /\ g.player_2_health = 100
      /\ g.chamber_flags = {}
      /\ g.bullets_loaded = 0
      /\ g.round = 0
      /\ g.winner = NoPlayer
  BY DEF NewGame, NoGame
<1>3. g \in Games
  <2>1. 100 \in 0..100 /\ "WaitingForPlayer" \in Phases
    BY DEF Phases
  <2>2. g = [NoGame EXCEPT !.player_1 = p, !.bet_lamports = bet,
                           !.phase = "WaitingForPlayer",
                           !.player_1_health = 100, !.player_2_health = 100]
    BY DEF NewGame
  <2>3. ASSUME NEW n \in Games
        PROVE  [n EXCEPT !.player_1 = p, !.bet_lamports = bet,
                         !.phase = "WaitingForPlayer",
                         !.player_1_health = 100, !.player_2_health = 100] \in Games
    BY <2>1, <2>3 DEF Games
  <2> HIDE DEF g
  <2> QED BY <1>1, <2>2, <2>3
<1> HIDE DEF g
<1>4. Counted(g)
  BY <1>2, FS_EmptySet DEF Counted
<1>5. Seated(<<p, bet>>, g) /\ Hammer(g) /\ Undecided(g) /\ Decided(g) /\ Floors(g)
  BY <1>2 DEF Seated, Hammer, Undecided, Decided, Floors
<1>6. Sound(<<p, bet>>, g)
  BY <1>3, <1>4, <1>5 DEF Sound
<1> QED BY <1>6 DEF g

LEMMA JoinedIsSound ==
  ASSUME NEW k, NEW g, Sound(k, g), g.phase = "WaitingForPlayer",
         NEW p \in Players, p # g.player_1
  PROVE  /\ Sound(k, [g EXCEPT !.player_2 = p, !.phase = "WaitingForVrf"])
         /\ Age([g EXCEPT !.player_2 = p, !.phase = "WaitingForVrf"]) > Age(g)
<1> DEFINE j == [g EXCEPT !.player_2 = p, !.phase = "WaitingForVrf"]
<1>1. g \in Games /\ g.round \in Nat
  BY ShellshockAssumption DEF Sound, Games
<1>2. /\ j.phase = "WaitingForVrf"
      /\ j.player_2 = p
      /\ j.player_1 = g.player_1
      /\ j.bet_lamports = g.bet_lamports
      /\ j.chamber_flags = g.chamber_flags
      /\ j.bullets_loaded = g.bullets_loaded
      /\ j.player_1_health = g.player_1_health
      /\ j.player_2_health = g.player_2_health
      /\ j.round = g.round
      /\ j.winner = g.winner
  BY <1>1 DEF Games
<1>3. j \in Games
  BY <1>1 DEF Games, Phases
<1>4. Counted(j) /\ Hammer(j) /\ Decided(j) /\ Floors(j)
  BY <1>2 DEF Sound, Counted, Hammer, Decided, Floors
<1>5. Seated(k, j) /\ Undecided(j)
  BY <1>2 DEF Sound, Seated, Undecided
<1>6. Age(j) = 8 * g.round + 2 /\ Age(g) = 1
  BY <1>2 DEF Age
<1> QED BY <1>1, <1>3, <1>4, <1>5, <1>6 DEF Sound

-----------------------------------------------------------------------------
(***************************************************************************)
(* From one record to the whole program.                                   *)
(***************************************************************************)

IInv ==
  /\ TypeOK
  /\ \A k \in Keys : Sound(k, game[k])
  /\ PotMatchesPhase

\* What an instruction on the game at k does to its record.
Takes(k, g) ==
  /\ game' = [game EXCEPT ![k] = g]
  /\ Sound(k, g)

Older(k, g) ==
  \/ Age(g) > Age(game[k])
  \/ game[k].phase = "Finished" /\ g = NoGame

\* An instruction that leaves one record sound leaves them all sound.
LEMMA OneRecordChanges ==
  ASSUME IInv, NEW k \in Keys, NEW g, Takes(k, g)
  PROVE  /\ game' \in [Keys -> Games]
         /\ \A j \in Keys : game'[j] = IF j = k THEN g ELSE game[j]
         /\ \A j \in Keys : Sound(j, game'[j])
<1>1. game \in [Keys -> Games] /\ g \in Games
  BY DEF IInv, TypeOK, Takes, Sound
<1>2. \A j \in Keys : game'[j] = IF j = k THEN g ELSE game[j]
  BY <1>1 DEF Takes
<1>3. game' \in [Keys -> Games]
  BY <1>1 DEF Takes
<1> QED BY <1>2, <1>3 DEF IInv, Takes

\* An action of the player on turn, whichever it is, is an effect on the
\* record followed by the common ending.
LEMMA ActionTakes ==
  ASSUME IInv, NEW k \in Keys, NEW f, game[k].phase = "Playing",
         Acted(k, f), SameTurn(game[k], f),
         game' = [game EXCEPT ![k] = AdvanceAndResolve(f)]
  PROVE  /\ Takes(k, AdvanceAndResolve(f))
         /\ Age(AdvanceAndResolve(f)) > Age(game[k])
         /\ AdvanceAndResolve(f).phase \in {"WaitingForVrf", "Playing", "Finished"}
         /\ AdvanceAndResolve(f).player_2 = game[k].player_2
<1>1. Age(game[k]) = 8 * game[k].round - 5 + game[k].actions_this_round
  BY DEF Age
<1> QED BY <1>1, EndingIsSound DEF Takes, SameTurn

\* The three actions of a player.
LEMMA PlayerActs ==
  ASSUME IInv, NEW k \in Keys, NEW p \in Players,
         Shoot(k, p) \/ Reload(k, p) \/ \E item \in Items : UseItem(k, p, item)
  PROVE  \E g : /\ Takes(k, g)
               /\ Age(g) > Age(game[k])
               /\ g.phase \in {"WaitingForVrf", "Playing", "Finished"}
               /\ g.player_2 = game[k].player_2
               /\ game[k].phase = "Playing"
               /\ UNCHANGED <<vault, wallet>>
<1>1. Sound(k, game[k]) /\ game \in [Keys -> Games]
  BY DEF IInv, TypeOK
<1>2. CASE Shoot(k, p)
  <2>1. /\ game[k].phase = "Playing"
        /\ game' = [game EXCEPT ![k] = AdvanceAndResolve(Fired(game[k]))]
        /\ UNCHANGED <<vault, wallet>>
    BY <1>1, <1>2 DEF Shoot, MayAct
  <2> QED BY <1>1, <2>1, FiredActs, ActionTakes
<1>3. CASE Reload(k, p)
  <2>1. /\ game[k].phase = "Playing" /\ game[k].bullets_loaded < 6
        /\ game' = [game EXCEPT ![k] = AdvanceAndResolve(Loaded(game[k]))]
        /\ UNCHANGED <<vault, wallet>>
    BY <1>1, <1>3 DEF Reload, MayAct
  <2> QED BY <1>1, <2>1, LoadedActs, ActionTakes
<1>4. ASSUME NEW item \in Items, UseItem(k, p, item)
      PROVE  /\ game[k].phase = "Playing"
             /\ game' = [game EXCEPT ![k] = AdvanceAndResolve(Healed(game[k]))]
             /\ UNCHANGED <<vault, wallet>>
  BY <1>1, <1>4 DEF UseItem, MayAct
<1>5. CASE \E item \in Items : UseItem(k, p, item)
  BY <1>1, <1>4, <1>5, HealedActs, ActionTakes
<1> QED BY <1>2, <1>3, <1>5

LEMMA InitIsSound == Init => IInv
<1> SUFFICES ASSUME Init PROVE IInv
  OBVIOUS
<1>1. \A k \in Keys : game[k] = NoGame /\ Sound(k, game[k])
  BY NoGameIsSound DEF Init
<1>2. NoGame \in Games /\ NoGame.phase = "Absent"
  BY NoGameIsSound DEF Sound, NoGame
<1>3. TypeOK
  BY <1>2, ShellshockAssumption DEF Init, TypeOK
<1>4. PotMatchesPhase
  BY <1>1, <1>2 DEF Init, PotMatchesPhase
<1> QED BY <1>1, <1>3, <1>4 DEF IInv

\* Every instruction keeps the invariant and ages its game.
LEMMA NextIsSound ==
  ASSUME IInv, [Next]_vars
  PROVE  /\ IInv'
         /\ \A k \in Keys : game'[k] # game[k] => Older(k, game'[k])
<1>1. TypeOK /\ PotMatchesPhase /\ \A k \in Keys : Sound(k, game[k])
  BY DEF IInv
<1>2. \A k \in Keys : k[1] \in Players /\ k[2] \in Nat /\ k = <<k[1], k[2]>>
  BY ShellshockAssumption
<1>3. Rent \in Nat
  BY ShellshockAssumption
<1>4. ASSUME NEW p \in Players, NEW k \in Keys, CreateGame(p, k[2])
      PROVE  IInv' /\ \A j \in Keys : game'[j] # game[j] => Older(j, game'[j])
  <2> DEFINE c == <<p, k[2]>>
             g == NewGame(p, k[2])
  <2>1. /\ c \in Keys /\ game[c].phase = "Absent" /\ k[2] \in Nat
        /\ wallet[p] >= Rent + k[2]
        /\ game' = [game EXCEPT ![c] = g]
        /\ vault' = [vault EXCEPT ![c] = vault[c] + Rent + k[2]]
        /\ wallet' = [wallet EXCEPT ![p] = wallet[p] - (Rent + k[2])]
    BY <1>1, <1>2, <1>4 DEF CreateGame, TypeOK
  <2>2. Takes(c, g)
    BY <2>1, NewGameIsSound DEF Takes
  <2>3. g.phase = "WaitingForPlayer" /\ Age(g) = 1 /\ Age(game[c]) = 0
    BY <2>1 DEF NewGame, NoGame, Age
  <2> HIDE DEF g
  <2>4. /\ game' \in [Keys -> Games]
        /\ \A j \in Keys : game'[j] = IF j = c THEN g ELSE game[j]
        /\ \A j \in Keys : Sound(j, game'[j])
    BY <2>1, <2>2, OneRecordChanges
  <2>5. vault[c] = 0 /\ c[2] = k[2]
    BY <1>1, <2>1 DEF PotMatchesPhase
  <2>6. TypeOK'
    BY <1>1, <1>3, <2>1, <2>4, <2>5 DEF TypeOK
  <2>7. PotMatchesPhase'
    BY <1>1, <1>3, <2>1, <2>3, <2>4, <2>5 DEF PotMatchesPhase, TypeOK
  <2> QED BY <2>3, <2>4, <2>6, <2>7 DEF IInv, Older
<1>5. ASSUME NEW p \in Players, NEW k \in Keys, JoinGame(k, p)
      PROVE  IInv' /\ \A j \in Keys : game'[j] # game[j] => Older(j, game'[j])
  <2> DEFINE g == [game[k] EXCEPT !.player_2 = p, !.phase = "WaitingForVrf"]
  <2>1. /\ game[k].phase = "WaitingForPlayer" /\ p # game[k].player_1
        /\ game[k].bet_lamports = k[2]
        /\ wallet[p] >= k[2]
        /\ game' = [game EXCEPT ![k] = g]
        /\ vault' = [vault EXCEPT ![k] = vault[k] + k[2]]
        /\ wallet' = [wallet EXCEPT ![p] = wallet[p] - k[2]]
    BY <1>1, <1>2, <1>5 DEF JoinGame, SeedsMatch, TypeOK, Games
  <2>2. Takes(k, g) /\ Age(g) > Age(game[k])
    BY <1>1, <2>1, JoinedIsSound DEF Takes
  <2>3. g.phase = "WaitingForVrf"
    BY <1>1 DEF TypeOK, Games
  <2> HIDE DEF g
  <2>4. /\ game' \in [Keys -> Games]
        /\ \A j \in Keys : game'[j] = IF j = k THEN g ELSE game[j]
        /\ \A j \in Keys : Sound(j, game'[j])
    BY <2>2, OneRecordChanges
  <2>5. vault[k] = Rent + k[2]
    BY <1>1, <2>1 DEF PotMatchesPhase
  <2>6. TypeOK'
    BY <1>1, <1>2, <1>3, <2>1, <2>4, <2>5 DEF TypeOK
  <2>7. PotMatchesPhase'
    BY <1>1, <1>2, <1>3, <2>1, <2>3, <2>4, <2>5 DEF PotMatchesPhase, TypeOK
  <2> QED BY <2>2, <2>4, <2>6, <2>7 DEF IInv, Older
<1>6. ASSUME NEW k \in Keys, NEW load \in Loads, InitializeRound(k, load)
      PROVE  IInv' /\ \A j \in Keys : game'[j] # game[j] => Older(j, game'[j])
  <2> DEFINE g == RoundBegun(game[k], load)
  <2>1. /\ game[k].phase = "WaitingForVrf" /\ game[k].round < RoundMax
        /\ game' = [game EXCEPT ![k] = g]
        /\ UNCHANGED <<vault, wallet>>
    BY <1>1, <1>6 DEF InitializeRound, TypeOK
  <2>2. Takes(k, g) /\ Age(g) > Age(game[k])
    BY <1>1, <2>1, RoundBegunIsSound DEF Takes
  <2>3. g.phase = "Playing"
    BY <1>1 DEF TypeOK, Games, RoundBegun
  <2> HIDE DEF g
  <2>4. /\ game' \in [Keys -> Games]
        /\ \A j \in Keys : game'[j] = IF j = k THEN g ELSE game[j]
        /\ \A j \in Keys : Sound(j, game'[j])
    BY <2>2, OneRecordChanges
  <2>5. TypeOK' /\ PotMatchesPhase'
    BY <1>1, <2>1, <2>3, <2>4 DEF TypeOK, PotMatchesPhase
  <2> QED BY <2>2, <2>4, <2>5 DEF IInv, Older
<1>7. ASSUME NEW p \in Players, NEW k \in Keys,
             Shoot(k, p) \/ Reload(k, p) \/ \E item \in Items : UseItem(k, p, item)
      PROVE  IInv' /\ \A j \in Keys : game'[j] # game[j] => Older(j, game'[j])
  <2>1. PICK g : /\ Takes(k, g)
                 /\ Age(g) > Age(game[k])
                 /\ g.phase \in {"WaitingForVrf", "Playing", "Finished"}
                 /\ game[k].phase = "Playing"
                 /\ UNCHANGED <<vault, wallet>>
    BY <1>7, PlayerActs
  <2>2. /\ game' \in [Keys -> Games]
        /\ \A j \in Keys : game'[j] = IF j = k THEN g ELSE game[j]
        /\ \A j \in Keys : Sound(j, game'[j])
    BY <2>1, OneRecordChanges
  <2>3. TypeOK' /\ PotMatchesPhase'
    BY <1>1, <2>1, <2>2 DEF TypeOK, PotMatchesPhase
  <2> QED BY <2>1, <2>2, <2>3 DEF IInv, Older
<1>8. ASSUME NEW p \in Players, NEW k \in Keys, ClaimReward(k, p)
      PROVE  IInv' /\ \A j \in Keys : game'[j] # game[j] => Older(j, game'[j])
  <2>1. /\ game[k].phase = "Finished"
        /\ game' = [game EXCEPT ![k] = NoGame]
        /\ vault' = [vault EXCEPT ![k] = 0]
        /\ wallet' = [wallet EXCEPT ![p] = wallet[p] + vault[k]]
    BY <1>1, <1>8 DEF ClaimReward, TypeOK
  <2>2. Takes(k, NoGame) /\ NoGame.phase = "Absent"
    BY <2>1, NoGameIsSound DEF Takes, NoGame
  <2>3. /\ game' \in [Keys -> Games]
        /\ \A j \in Keys : game'[j] = IF j = k THEN NoGame ELSE game[j]
        /\ \A j \in Keys : Sound(j, game'[j])
    BY <2>2, OneRecordChanges
  <2>4. TypeOK' /\ PotMatchesPhase'
    BY <1>1, <2>1, <2>2, <2>3 DEF TypeOK, PotMatchesPhase
  <2> QED BY <2>1, <2>3, <2>4 DEF IInv, Older
<1>9. CASE UNCHANGED vars
  <2>1. game' = game /\ vault' = vault /\ wallet' = wallet
    BY <1>9 DEF vars
  <2> QED BY <1>1, <2>1 DEF IInv, TypeOK, PotMatchesPhase
<1> QED BY <1>4, <1>5, <1>6, <1>7, <1>8, <1>9 DEF Next

-----------------------------------------------------------------------------
(***************************************************************************)
(* The results.                                                            *)
(***************************************************************************)

\* The invariant is one: every sequence of instructions keeps it.
THEOREM Invariance == Spec => []IInv
<1>1. IInv /\ [Next]_vars => IInv'
  BY NextIsSound
<1> QED BY <1>1, InitIsSound, PTL DEF Spec

\* No account ever leaves its type: healths stay in 0..100, the counters in
\* their ranges, and no lamport count goes below zero.
THEOREM TypeCorrect == Spec => []TypeOK
<1>1. IInv => TypeOK
  BY DEF IInv
<1> QED BY <1>1, Invariance, PTL

\* The cylinder's counter counts its bullets, in every game.
THEOREM CounterCounts == Spec => []ChamberCount
<1>1. IInv => ChamberCount
  BY DEF IInv, Sound, Counted, ChamberCount
<1> QED BY <1>1, Invariance, PTL

\* The hammer passes the cylinder once a round, the players in turn.
THEOREM TurnsFollowHammer == Spec => []TurnMatchesChamber
<1>1. IInv => TurnMatchesChamber
  BY DEF IInv, Sound, Hammer, TurnMatchesChamber
<1> QED BY <1>1, Invariance, PTL

\* Two hits a round are too few to kill in the first.
LEMMA FinishedLate ==
  ASSUME IInv, NEW k \in Keys, game[k].phase = "Finished"
  PROVE  game[k].round >= 2
<1>1. Sound(k, game[k])
  BY DEF IInv
<1>2. game[k].round \in Nat /\ game[k].turn \in {0, 1}
  BY <1>1, ShellshockAssumption DEF Sound, Games
<1>3. /\ game[k].player_1_health >= 100 - 60 * game[k].round
      /\ game[k].player_2_health >= 100 - 60 * game[k].round
  BY <1>1 DEF Sound, Floors
<1>4. game[k].player_1_health = 0 \/ game[k].player_2_health = 0
  BY <1>1, <1>2 DEF Sound, Decided
<1> QED BY <1>2, <1>3, <1>4

\* A game is never finished in its first round, which is what makes the
\* test "Creates and completes a full game" fail.
THEOREM NoFirstRoundKill ==
  Spec => [](\A k \in Keys : game[k].phase = "Finished" => game[k].round >= 2)
<1>1. IInv => \A k \in Keys : game[k].phase = "Finished" => game[k].round >= 2
  BY FinishedLate
<1> QED BY <1>1, Invariance, PTL

\* The winner is the survivor, and acted last.
THEOREM SurvivorWins == Spec => []WinnerSurvives
<1>1. IInv => WinnerSurvives
  <2> SUFFICES ASSUME IInv, NEW k \in Keys
               PROVE  LET g == game[k]
                      IN  /\ (g.phase = "Finished") <=> (g.winner # NoPlayer)
                          /\ g.phase = "Finished" =>
                               /\ g.winner = OnTurn(g)
                               /\ g.turn = 0 => g.player_1_health > 0 /\ g.player_2_health = 0
                               /\ g.turn = 1 => g.player_2_health > 0 /\ g.player_1_health = 0
    BY DEF WinnerSurvives
  <2>1. Sound(k, game[k])
    BY DEF IInv
  <2>2. game[k].phase = "Finished" => game[k].winner # NoPlayer
    BY <2>1, ShellshockAssumption DEF Sound, Decided, Seated, OnTurn
  <2> QED BY <2>1, <2>2 DEF Sound, Decided, Undecided
<1> QED BY <1>1, Invariance, PTL

\* Every game's accounts hold what has been staked in it.
THEOREM PotsAreCovered == Spec => []PotMatchesPhase
<1>1. IInv => PotMatchesPhase
  BY DEF IInv
<1> QED BY <1>1, Invariance, PTL

\* No instruction can ever be repeated to the same effect in one game.
THEOREM InstructionsAge == Spec => EveryInstructionAges
<1>1. IInv /\ [Next]_vars =>
        [\A k \in Keys : game'[k] # game[k] =>
             \/ Age(game'[k]) > Age(game[k])
             \/ game[k].phase = "Finished" /\ game'[k] = NoGame]_vars
  BY NextIsSound DEF Older
<1> QED BY <1>1, Invariance, PTL DEF Spec, EveryInstructionAges

-----------------------------------------------------------------------------
(***************************************************************************)
(* The hits of a round, over the history of ShellshockRounds.              *)
(***************************************************************************)

\* The inductive strengthening: while a round is played, the hits it has
\* brought and those the opponent may still land are two at most.
RoomForHits(g, h) ==
  /\ h \in [first : 0..2, second : 0..2]
  /\ g.phase = "Playing" =>
       /\ h.first + OddAhead(g, g.chamber_position) <= 2
       /\ h.second + EvenAhead(g, g.chamber_position) <= 2

RoundsInv ==
  /\ IInv
  /\ hits \in [Keys -> [first : 0..2, second : 0..2]]
  /\ \A k \in Keys : RoomForHits(game[k], hits[k])

\* The history of the game at k after its record has become g.
Scored(k, g) ==
  IF g.round # game[k].round THEN NoHits
  ELSE [first |-> hits[k].first + Hit(game[k].player_1_health, g.player_1_health),
        second |-> hits[k].second + Hit(game[k].player_2_health, g.player_2_health)]

LEMMA AheadIsInt ==
  ASSUME NEW g, NEW pos
  PROVE  OddAhead(g, pos) \in 0..3 /\ EvenAhead(g, pos) \in 0..3
BY DEF OddAhead, EvenAhead, Bullet

\* What the effect of an action takes from the players it takes from the
\* bullets ahead of the hammer.
LEMMA EffectSpends ==
  ASSUME NEW k, NEW g, Sound(k, g), g.phase = "Playing",
         NEW f \in {Fired(g), Loaded(g), Healed(g)}
  PROVE  /\ f.round = g.round
         /\ Hit(g.player_1_health, f.player_1_health) +
              OddAhead(f, g.chamber_position + 1) <= OddAhead(g, g.chamber_position)
         /\ Hit(g.player_2_health, f.player_2_health) +
              EvenAhead(f, g.chamber_position + 1) <= EvenAhead(g, g.chamber_position)
<1>1. /\ g \in Games
      /\ g.chamber_position \in Positions
      /\ g.chamber_flags \in SUBSET Positions
      /\ g.turn \in {0, 1}
      /\ g.turn = g.chamber_position % 2
      /\ g.player_1_health \in 0..100
      /\ g.player_2_health \in 0..100
  BY DEF Sound, Games, Hammer
<1>2. /\ OddAhead(g, g.chamber_position + 1) <= OddAhead(g, g.chamber_position)
      /\ EvenAhead(g, g.chamber_position + 1) <= EvenAhead(g, g.chamber_position)
  BY <1>1 DEF OddAhead, EvenAhead, Bullet, Positions
<1>3. ASSUME f.round = g.round, f.chamber_flags \ {g.chamber_position} =
               g.chamber_flags \ {g.chamber_position},
             f.player_1_health \in 0..100, f.player_1_health >= g.player_1_health,
             f.player_2_health \in 0..100, f.player_2_health >= g.player_2_health
      PROVE  /\ f.round = g.round
             /\ Hit(g.player_1_health, f.player_1_health) +
                  OddAhead(f, g.chamber_position + 1) <= OddAhead(g, g.chamber_position)
             /\ Hit(g.player_2_health, f.player_2_health) +
                  EvenAhead(f, g.chamber_position + 1) <= EvenAhead(g, g.chamber_position)
  <2>1. /\ OddAhead(f, g.chamber_position + 1) = OddAhead(g, g.chamber_position + 1)
        /\ EvenAhead(f, g.chamber_position + 1) = EvenAhead(g, g.chamber_position + 1)
    <3>1. \A c \in Positions : c >= g.chamber_position + 1 =>
             (c \in f.chamber_flags <=> c \in g.chamber_flags)
      BY <1>1, <1>3 DEF Positions
    <3> QED BY <1>1, <3>1 DEF OddAhead, EvenAhead, Bullet, Positions
  <2>2. /\ Hit(g.player_1_health, f.player_1_health) = 0
        /\ Hit(g.player_2_health, f.player_2_health) = 0
    BY <1>1, <1>3 DEF Hit
  <2> QED BY <1>2, <1>3, <2>1, <2>2, AheadIsInt
<1>4. CASE f = Loaded(g)
  <2>1. /\ f.round = g.round
        /\ f.chamber_flags = g.chamber_flags \/
             f.chamber_flags = g.chamber_flags \cup {g.chamber_position}
        /\ f.player_1_health = g.player_1_health
        /\ f.player_2_health = g.player_2_health
    BY <1>1, <1>4 DEF Loaded, Games
  <2> QED BY <1>1, <1>3, <2>1
<1>5. CASE f = Healed(g)
  <2>1. /\ f.round = g.round
        /\ f.chamber_flags = g.chamber_flags
        /\ f.player_1_health = IF g.turn = 0 THEN Heal(g.player_1_health)
                                             ELSE g.player_1_health
        /\ f.player_2_health = IF g.turn = 1 THEN Heal(g.player_2_health)
                                             ELSE g.player_2_health
    BY <1>1, <1>5 DEF Healed, Games
  <2>2. /\ f.player_1_health \in 0..100 /\ f.player_1_health >= g.player_1_health
        /\ f.player_2_health \in 0..100 /\ f.player_2_health >= g.player_2_health
    BY <1>1, <2>1 DEF Heal
  <2> QED BY <1>3, <2>1, <2>2
<1>6. CASE f = Fired(g)
  <2>1. CASE ~BulletPresent(g)
    <3>1. f = g
      BY <1>6, <2>1 DEF Fired
    <3> QED BY <1>1, <1>3, <3>1
  <2>2. CASE BulletPresent(g)
    <3>1. /\ f.round = g.round
          /\ f.chamber_flags = g.chamber_flags \ {g.chamber_position}
          /\ f.player_1_health = IF g.turn = 1 THEN SaturatingSub(g.player_1_health, 30)
                                               ELSE g.player_1_health
          /\ f.player_2_health = IF g.turn = 0 THEN SaturatingSub(g.player_2_health, 30)
                                               ELSE g.player_2_health
      BY <1>1, <1>6, <2>2 DEF Fired, Games
    <3>2. /\ OddAhead(f, g.chamber_position + 1) =
               OddAhead(g, g.chamber_position) - (g.chamber_position % 2)
          /\ EvenAhead(f, g.chamber_position + 1) =
               EvenAhead(g, g.chamber_position) - (1 - (g.chamber_position % 2))
      BY <1>1, <2>2, <3>1 DEF OddAhead, EvenAhead, Bullet, BulletPresent, Positions
    <3>3. /\ Hit(g.player_1_health, f.player_1_health) <= g.turn
          /\ Hit(g.player_2_health, f.player_2_health) <= 1 - g.turn
          /\ Hit(g.player_1_health, f.player_1_health) \in {0, 1}
          /\ Hit(g.player_2_health, f.player_2_health) \in {0, 1}
      BY <1>1, <3>1 DEF Hit
    <3> QED BY <1>1, <3>1, <3>2, <3>3, AheadIsInt
  <2> QED BY <2>1, <2>2
<1> QED BY <1>4, <1>5, <1>6

\* The ending of an action changes neither the healths nor the cylinder.
LEMMA EndingSpends ==
  ASSUME NEW k, NEW g, Sound(k, g), g.phase = "Playing",
         NEW f \in {Fired(g), Loaded(g), Healed(g)}, Acted(k, f),
         f.actions_this_round = g.actions_this_round,
         NEW r, r = AdvanceAndResolve(f)
  PROVE  /\ r.round = g.round
         /\ Hit(g.player_1_health, r.player_1_health) <= OddAhead(g, g.chamber_position)
         /\ Hit(g.player_2_health, r.player_2_health) <= EvenAhead(g, g.chamber_position)
         /\ r.phase = "Playing" =>
              /\ Hit(g.player_1_health, r.player_1_health) +
                   OddAhead(r, r.chamber_position) <= OddAhead(g, g.chamber_position)
              /\ Hit(g.player_2_health, r.player_2_health) +
                   EvenAhead(r, r.chamber_position) <= EvenAhead(g, g.chamber_position)
<1> DEFINE a == Advanced(f)
<1>1. /\ f \in Games
      /\ f.phase = "Playing"
      /\ f.actions_this_round \in 0..5
      /\ f.chamber_position = f.actions_this_round
      /\ g.chamber_position = f.chamber_position
  BY DEF Acted, Hammer, Sound, Games
<1>2. /\ a.actions_this_round = f.actions_this_round + 1
      /\ a.chamber_position = (f.chamber_position + 1) % 6
      /\ a.chamber_flags = f.chamber_flags
      /\ a.player_1_health = f.player_1_health
      /\ a.player_2_health = f.player_2_health
      /\ a.phase = "Playing"
      /\ a.round = f.round
  BY <1>1 DEF Advanced, Games
<1>3. /\ r.chamber_flags = f.chamber_flags
      /\ r.player_1_health = f.player_1_health
      /\ r.player_2_health = f.player_2_health
      /\ r.round = f.round
      /\ r.phase = "Playing" => r.chamber_position = f.chamber_position + 1
  <2>1. r = Resolve(a)
    BY DEF AdvanceAndResolve
  <2>2. CASE SomeoneDead(a)
    BY <1>1, <2>1, <2>2 DEF Resolve, Advanced, Games
  <2>3. CASE ~SomeoneDead(a) /\ RoundOver(a)
    BY <1>1, <2>1, <2>3 DEF Resolve, Advanced, Games
  <2>4. CASE ~SomeoneDead(a) /\ ~RoundOver(a)
    <3>1. a.chamber_position = f.chamber_position + 1
      BY <1>1, <1>2, <2>4 DEF RoundOver
    <3>2. /\ r.chamber_flags = a.chamber_flags
          /\ r.player_1_health = a.player_1_health
          /\ r.player_2_health = a.player_2_health
          /\ r.round = a.round
          /\ r.chamber_position = a.chamber_position
      BY <1>1, <2>1, <2>4 DEF Resolve, Advanced, Games
    <3> QED BY <1>2, <3>1, <3>2
  <2> QED BY <2>2, <2>3, <2>4
<1>4. /\ Hit(g.player_1_health, f.player_1_health) +
           OddAhead(f, g.chamber_position + 1) <= OddAhead(g, g.chamber_position)
      /\ Hit(g.player_2_health, f.player_2_health) +
           EvenAhead(f, g.chamber_position + 1) <= EvenAhead(g, g.chamber_position)
      /\ f.round = g.round
  BY EffectSpends
<1>5. /\ Hit(g.player_1_health, f.player_1_health) \in {0, 1}
      /\ Hit(g.player_2_health, f.player_2_health) \in {0, 1}
  BY DEF Hit
<1>6. ASSUME r.phase = "Playing"
      PROVE  /\ OddAhead(r, r.chamber_position) = OddAhead(f, g.chamber_position + 1)
             /\ EvenAhead(r, r.chamber_position) = EvenAhead(f, g.chamber_position + 1)
  BY <1>1, <1>3, <1>6 DEF OddAhead, EvenAhead, Bullet
<1>7. /\ OddAhead(f, g.chamber_position + 1) \in 0..3
      /\ EvenAhead(f, g.chamber_position + 1) \in 0..3
      /\ OddAhead(g, g.chamber_position) \in 0..3
      /\ EvenAhead(g, g.chamber_position) \in 0..3
  BY AheadIsInt
<1> QED BY <1>3, <1>4, <1>5, <1>6, <1>7

\* An action of the player on turn leaves room for the hits to come.
LEMMA ActionLeavesRoom ==
  ASSUME RoundsInv, NEW k \in Keys, game[k].phase = "Playing",
         NEW f \in {Fired(game[k]), Loaded(game[k]), Healed(game[k])},
         Acted(k, f), SameTurn(game[k], f)
  PROVE  RoomForHits(AdvanceAndResolve(f), Scored(k, AdvanceAndResolve(f)))
<1> DEFINE g == game[k]
           r == AdvanceAndResolve(f)
           h == hits[k]
           one == Hit(g.player_1_health, r.player_1_health)
           two == Hit(g.player_2_health, r.player_2_health)
<1>1. /\ Sound(k, g)
      /\ h \in [first : 0..2, second : 0..2]
      /\ h.first + OddAhead(g, g.chamber_position) <= 2
      /\ h.second + EvenAhead(g, g.chamber_position) <= 2
  BY DEF RoundsInv, IInv, RoomForHits
<1>2. /\ r.round = g.round
      /\ one <= OddAhead(g, g.chamber_position)
      /\ two <= EvenAhead(g, g.chamber_position)
      /\ r.phase = "Playing" =>
           /\ one + OddAhead(r, r.chamber_position) <= OddAhead(g, g.chamber_position)
           /\ two + EvenAhead(r, r.chamber_position) <= EvenAhead(g, g.chamber_position)
  BY <1>1, EndingSpends DEF SameTurn
<1>3. one \in {0, 1} /\ two \in {0, 1}
  BY DEF Hit
<1>4. Scored(k, r) = [first |-> h.first + one, second |-> h.second + two]
  BY <1>2 DEF Scored
<1>5. /\ OddAhead(r, r.chamber_position) \in 0..3
      /\ EvenAhead(r, r.chamber_position) \in 0..3
      /\ OddAhead(g, g.chamber_position) \in 0..3
      /\ EvenAhead(g, g.chamber_position) \in 0..3
  BY AheadIsInt
<1> HIDE DEF one, two, r, h
<1>6. h.first + one \in 0..2 /\ h.second + two \in 0..2
  BY <1>1, <1>2, <1>3, <1>5
<1>7. r.phase = "Playing" =>
        /\ h.first + one + OddAhead(r, r.chamber_position) <= 2
        /\ h.second + two + EvenAhead(r, r.chamber_position) <= 2
  BY <1>1, <1>2, <1>3, <1>5
<1>8. RoomForHits(r, Scored(k, r))
  BY <1>4, <1>6, <1>7 DEF RoomForHits
<1> QED BY <1>8 DEF r

LEMMA RoundLeavesRoom ==
  ASSUME IInv, NEW k \in Keys, NEW load \in Loads
  PROVE  RoomForHits(RoundBegun(game[k], load), Scored(k, RoundBegun(game[k], load)))
<1> DEFINE r == RoundBegun(game[k], load)
<1>1. game[k] \in Games /\ game[k].round \in Nat
  BY ShellshockAssumption DEF IInv, TypeOK, Games
<1>2. r.round = game[k].round + 1 /\ r.chamber_position = 0 /\ r.chamber_flags = load
  BY <1>1 DEF RoundBegun, Games
<1>3. Scored(k, r) = NoHits
  BY <1>1, <1>2 DEF Scored
<1>4. OddAhead(r, 0) <= 2 /\ EvenAhead(r, 0) <= 2
  BY <1>2, LoadsAreShared DEF OddAhead, EvenAhead, Bullet
<1>5. OddAhead(r, 0) \in 0..3 /\ EvenAhead(r, 0) \in 0..3
  BY AheadIsInt
<1> HIDE DEF r
<1>6. RoomForHits(r, Scored(k, r))
  BY <1>2, <1>3, <1>4, <1>5 DEF RoomForHits, NoHits
<1> QED BY <1>6 DEF r

\* Every step of the program leaves room.
LEMMA StepLeavesRoom ==
  ASSUME RoundsInv, Next, NEW k \in Keys
  PROVE  RoomForHits(game'[k], Scored(k, game'[k]))
<1>1. /\ IInv
      /\ game \in [Keys -> Games]
      /\ Sound(k, game[k])
      /\ RoomForHits(game[k], hits[k])
      /\ game[k].player_1_health \in 0..100 /\ game[k].player_2_health \in 0..100
  <2>1. IInv /\ RoomForHits(game[k], hits[k])
    BY DEF RoundsInv
  <2>2. game \in [Keys -> Games] /\ Sound(k, game[k])
    BY <2>1 DEF IInv, TypeOK
  <2>3. game[k].player_1_health \in 0..100 /\ game[k].player_2_health \in 0..100
    BY <2>2 DEF Games
  <2> QED BY <2>1, <2>2, <2>3
<1>2. RoomForHits(NoGame, NoHits)
  BY DEF RoomForHits, NoHits, NoGame
<1>3. CASE game'[k] = game[k]
  <2>1. /\ Hit(game[k].player_1_health, game[k].player_1_health) = 0
        /\ Hit(game[k].player_2_health, game[k].player_2_health) = 0
    BY <1>1 DEF Hit
  <2>2. Scored(k, game[k]) = hits[k]
    BY <1>1, <2>1 DEF Scored, RoomForHits
  <2> QED BY <1>1, <1>3, <2>2
<1>4. ASSUME NEW p \in Players, NEW j \in Keys, CreateGame(p, j[2])
      PROVE  RoomForHits(game'[k], Scored(k, game'[k]))
  <2> DEFINE c == <<p, j[2]>>
  <2>1. /\ c \in Keys /\ game[c].phase = "Absent"
        /\ game' = [game EXCEPT ![c] = NewGame(p, j[2])]
    BY <1>4 DEF CreateGame
  <2>2. CASE k = c
    <3> DEFINE g == NewGame(p, j[2])
    <3>1. game[k] = NoGame
      BY <1>1, <2>1, <2>2 DEF Sound, Seated
    <3>2. /\ game'[k] = g /\ g.round = 0 /\ g.phase = "WaitingForPlayer"
          /\ g.player_1_health = 100 /\ g.player_2_health = 100
      BY <1>1, <2>1, <2>2 DEF NewGame, NoGame
    <3>3. Scored(k, g) = [first |-> hits[k].first + 0, second |-> hits[k].second + 0]
      BY <3>1, <3>2 DEF Scored, NoGame, Hit
    <3> HIDE DEF g
    <3> QED BY <1>1, <3>2, <3>3 DEF RoomForHits
  <2> QED BY <1>1, <1>3, <2>1, <2>2
<1>5. ASSUME NEW p \in Players, NEW j \in Keys, JoinGame(j, p)
      PROVE  RoomForHits(game'[k], Scored(k, game'[k]))
  <2> DEFINE g == [game[j] EXCEPT !.player_2 = p, !.phase = "WaitingForVrf"]
  <2>1. game' = [game EXCEPT ![j] = g]
    BY <1>1, <1>5 DEF JoinGame
  <2>2. CASE k = j
    <3>1. /\ game'[k] = g /\ g.round = game[k].round /\ g.phase = "WaitingForVrf"
          /\ g.player_1_health = game[k].player_1_health
          /\ g.player_2_health = game[k].player_2_health
      BY <1>1, <2>1, <2>2 DEF Games
    <3>2. Scored(k, g) = [first |-> hits[k].first + 0, second |-> hits[k].second + 0]
      BY <1>1, <3>1 DEF Scored, Hit
    <3> HIDE DEF g
    <3> QED BY <1>1, <3>1, <3>2 DEF RoomForHits
  <2> QED BY <1>1, <1>3, <2>1, <2>2
<1>6. ASSUME NEW j \in Keys, NEW load \in Loads, InitializeRound(j, load)
      PROVE  RoomForHits(game'[k], Scored(k, game'[k]))
  <2>1. game' = [game EXCEPT ![j] = RoundBegun(game[j], load)]
    BY <1>1, <1>6 DEF InitializeRound
  <2>2. CASE k = j
    <3>1. game'[k] = RoundBegun(game[k], load)
      BY <1>1, <2>1, <2>2
    <3>2. RoomForHits(RoundBegun(game[k], load), Scored(k, RoundBegun(game[k], load)))
      BY <1>1, RoundLeavesRoom
    <3> QED BY <3>1, <3>2
  <2> QED BY <1>1, <1>3, <2>1, <2>2
<1>7. ASSUME NEW j \in Keys, NEW f, game[j].phase = "Playing",
             f \in {Fired(game[j]), Loaded(game[j]), Healed(game[j])},
             Acted(j, f), SameTurn(game[j], f),
             game' = [game EXCEPT ![j] = AdvanceAndResolve(f)]
      PROVE  RoomForHits(game'[k], Scored(k, game'[k]))
  <2>1. CASE k = j
    BY <1>1, <1>7, <2>1, ActionLeavesRoom
  <2> QED BY <1>1, <1>3, <1>7, <2>1
<1>8. ASSUME NEW p \in Players, NEW j \in Keys, Shoot(j, p)
      PROVE  RoomForHits(game'[k], Scored(k, game'[k]))
  <2>1. /\ game[j].phase = "Playing" /\ Sound(j, game[j])
        /\ game' = [game EXCEPT ![j] = AdvanceAndResolve(Fired(game[j]))]
    BY <1>1, <1>8 DEF Shoot, MayAct, IInv
  <2> QED BY <1>7, <2>1, FiredActs
<1>9. ASSUME NEW p \in Players, NEW j \in Keys, Reload(j, p)
      PROVE  RoomForHits(game'[k], Scored(k, game'[k]))
  <2>1. /\ game[j].phase = "Playing" /\ Sound(j, game[j])
        /\ game[j].bullets_loaded < 6
        /\ game' = [game EXCEPT ![j] = AdvanceAndResolve(Loaded(game[j]))]
    BY <1>1, <1>9 DEF Reload, MayAct, IInv
  <2> QED BY <1>7, <2>1, LoadedActs
<1>10. ASSUME NEW p \in Players, NEW j \in Keys, NEW item \in Items, UseItem(j, p, item)
       PROVE  RoomForHits(game'[k], Scored(k, game'[k]))
  <2>1. /\ game[j].phase = "Playing" /\ Sound(j, game[j])
        /\ game' = [game EXCEPT ![j] = AdvanceAndResolve(Healed(game[j]))]
    BY <1>1, <1>10 DEF UseItem, MayAct, IInv
  <2> QED BY <1>7, <2>1, HealedActs
<1>11. ASSUME NEW p \in Players, NEW j \in Keys, ClaimReward(j, p)
       PROVE  RoomForHits(game'[k], Scored(k, game'[k]))
  <2>1. /\ game[j].phase = "Finished"
        /\ game' = [game EXCEPT ![j] = NoGame]
    BY <1>1, <1>11 DEF ClaimReward
  <2>2. CASE k = j
    <3>1. game'[k] = NoGame /\ NoGame.round = 0
      BY <1>1, <2>1, <2>2 DEF NoGame
    <3>2. game[k].round >= 2
      BY <1>1, <2>1, <2>2, FinishedLate
    <3>3. Scored(k, NoGame) = NoHits
      BY <3>1, <3>2 DEF Scored
    <3> QED BY <1>2, <3>1, <3>3
  <2> QED BY <1>1, <1>3, <2>1, <2>2
<1> QED BY <1>4, <1>5, <1>6, <1>8, <1>9, <1>10, <1>11 DEF Next

\* No player of any game is hit more than twice in any round, whatever the
\* load, the reloads and the items.
THEOREM RoundsCostTwoHits == RoundsSpec => []TwoHitsARound
<1>1. RoundsInit => RoundsInv
  <2> SUFFICES ASSUME RoundsInit PROVE RoundsInv
    OBVIOUS
  <2>1. IInv
    BY InitIsSound DEF RoundsInit
  <2>2. hits \in [Keys -> [first : 0..2, second : 0..2]]
    BY DEF RoundsInit, NoHits
  <2>3. ASSUME NEW k \in Keys PROVE RoomForHits(game[k], hits[k])
    BY <2>2 DEF RoundsInit, Init, RoomForHits, NoGame
  <2> QED BY <2>1, <2>2, <2>3 DEF RoundsInv
<1>2. RoundsInv /\ [RoundsNext]_<<vars, hits>> => RoundsInv'
  <2> SUFFICES ASSUME RoundsInv, [RoundsNext]_<<vars, hits>> PROVE RoundsInv'
    OBVIOUS
  <2>1. CASE RoundsNext
    <3>1. IInv'
      BY <2>1, NextIsSound DEF RoundsInv, RoundsNext
    <3>2. \A k \in Keys : RoomForHits(game'[k], Scored(k, game'[k]))
      BY <2>1, StepLeavesRoom DEF RoundsNext
    <3>3. hits' = [k \in Keys |-> Scored(k, game'[k])]
      BY <2>1 DEF RoundsNext, HitsAfter, AnotherRound, Scored
    <3>4. \A k \in Keys : Scored(k, game'[k]) \in [first : 0..2, second : 0..2]
      BY <3>2 DEF RoomForHits
    <3>5. /\ hits' \in [Keys -> [first : 0..2, second : 0..2]]
          /\ \A k \in Keys : RoomForHits(game'[k], hits'[k])
      BY <3>2, <3>3, <3>4
    <3> QED BY <3>1, <3>5 DEF RoundsInv
  <2>2. CASE UNCHANGED <<vars, hits>>
    <3>1. game' = game /\ vault' = vault /\ wallet' = wallet /\ hits' = hits
      BY <2>2 DEF vars
    <3>2. IInv'
      BY <3>1, NextIsSound DEF RoundsInv, vars
    <3> QED BY <3>1, <3>2 DEF RoundsInv
  <2> QED BY <2>1, <2>2
<1>3. RoundsInv => TwoHitsARound
  BY DEF RoundsInv, TwoHitsARound
<1> QED BY <1>1, <1>2, <1>3, PTL DEF RoundsSpec

=============================================================================
