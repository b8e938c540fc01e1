---------------------------- MODULE FullGameTest ----------------------------
(***************************************************************************)
(* The test "Creates and completes a full game" of tests/shellshock.ts,    *)
(* driving the program: create, join, initialise one round, then shoot,    *)
(* or reload where shooting fails, until the game is finished.             *)
(***************************************************************************)
EXTENDS Shellshock

CONSTANTS
  P1, P2,       \* the test's two key pairs
  Bet,          \* its bet
  MaxAttempts   \* its bound on the loop, 20

VARIABLES
  pc,        \* the statement the test is at
  attempts   \* its loop counter

testVars == <<game, vault, wallet, pc, attempts>>

gPda == <<P1, Bet>>

TestInit ==
  /\ Init
  /\ pc = "create"
  /\ attempts = 0

\* Everything before the loop.  The seed is fixed but the slot and the time
\* are not, so the round may have any load.
Setup ==
  /\ \/ pc = "create" /\ pc' = "join" /\ CreateGame(P1, Bet)
     \/ pc = "join" /\ pc' = "initialize" /\ JoinGame(gPda, P2)
     \/ /\ pc = "initialize"
        /\ pc' = "loop"
        /\ \E load \in Loads : InitializeRound(gPda, load)
  /\ UNCHANGED attempts

\* `currentGame.turn === 0 ? p1 : p2`
ActivePlayer == IF game[gPda].turn = 0 THEN P1 ELSE P2

\* The guards of shoot and of reload, that is whether the call throws.
ShootFails == ~MayAct(gPda, ActivePlayer)
ReloadFails == ShootFails \/ game[gPda].bullets_loaded >= 6

\* One turn of the loop: try to shoot, reload in the catch block, and let
\* what reload throws end the test.
Attempt ==
  /\ pc = "loop"
  /\ attempts < MaxAttempts
  /\ game[gPda].phase # "Finished"
  /\ \/ /\ Shoot(gPda, ActivePlayer)
        /\ attempts' = attempts + 1
        /\ UNCHANGED pc
     \/ /\ ShootFails
        /\ Reload(gPda, ActivePlayer)
        /\ attempts' = attempts + 1
        /\ UNCHANGED pc
     \/ /\ ShootFails /\ ReloadFails
        /\ pc' = "thrown"
        /\ UNCHANGED <<game, vault, wallet, attempts>>

LeaveLoop ==
  /\ pc = "loop"
  /\ attempts = MaxAttempts \/ game[gPda].phase = "Finished"
  /\ pc' = "expect"
  /\ UNCHANGED <<game, vault, wallet, attempts>>

TestNext == Setup \/ Attempt \/ LeaveLoop

TestSpec == TestInit /\ [][TestNext]_testVars

\* What the test expects of the program after its loop: the phase is
\* finished.  One initialised round is never enough for that.
PlayedUntilFinished ==
  pc \in {"expect", "thrown"} => game[gPda].phase = "Finished"

=============================================================================
