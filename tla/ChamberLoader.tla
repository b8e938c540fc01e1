---------------------------- MODULE ChamberLoader ----------------------------
(***************************************************************************)
(* The drawing loop of initialize_round: a linear congruential generator,  *)
(* started from any entropy, is drawn from until three different chambers  *)
(* are loaded.  The program computes modulo 2^64 with multiplier           *)
(* 1103515245 and increment 12345; the modulus and both coefficients are   *)
(* parameters here, because all that matters below is their parity.        *)
(***************************************************************************)
EXTENDS Chamber

CONSTANTS
  Modulus,      \* 2^64 for u64::wrapping_mul and u64::wrapping_add
  Multiplier,   \* 1103515245
  Increment     \* 12345

ASSUME GeneratorAssumption ==
  /\ Modulus \in Nat \ {0}  /\ Modulus % 2 = 0
  /\ Multiplier \in Nat     /\ Multiplier % 2 = 1
  /\ Increment \in Nat      /\ Increment % 2 = 1

VARIABLES
  rng,     \* the generator's state
  flags,   \* the chambers loaded so far
  count    \* the loop's own count of them

vars == <<rng, flags, count>>

\* entropy = slot * seed + unix_timestamp, wrapping: any word at all, since
\* the caller of initialize_round chooses the seed.
Init ==
  /\ rng \in 0..(Modulus - 1)
  /\ flags = {}
  /\ count = 0

\* Mutants of Step: the product does not wrap, or nothing is added to it.
StepUnwrapped(word) == word * Multiplier + Increment
StepMultiplied(word) == (word * Multiplier) % Modulus

\* rng.wrapping_mul(1103515245).wrapping_add(12345)
Step(word) == (word * Multiplier + Increment) % Modulus

\* Mutant of Draw: a repeated draw counts.
DrawRepeated ==
  /\ count < 3
  /\ flags' = flags \cup {rng % 6}
  /\ count' = count + 1
  /\ rng' = Step(rng)

\* One turn of `while count < 3`: a chamber already loaded is drawn again.
Draw ==
  /\ count < 3
  /\ LET pos == rng % 6
     IN  IF pos \notin flags
           THEN flags' = flags \cup {pos} /\ count' = count + 1
           ELSE UNCHANGED <<flags, count>>
  /\ rng' = Step(rng)

Next == Draw

\* The loop is straight-line code of one instruction: it keeps running.
Spec == Init /\ [][Next]_vars /\ WF_vars(Next)

-----------------------------------------------------------------------------

TypeOK ==
  /\ rng \in 0..(Modulus - 1)
  /\ flags \in SUBSET Positions
  /\ count \in 0..3

\* When the loop is left the cylinder holds three bullets of mixed parity:
\* each player of the coming round, who only ever fires the chambers of one
\* parity, meets at least one of them and at most two.
LoadIsFair == count = 3 => flags \in Loads

\* The loop is left, whatever the entropy: the draws cannot cycle among
\* one or two chambers forever and keep the instruction from finishing.
LoopEnds == <>(count = 3)

=============================================================================
