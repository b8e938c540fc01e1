------------------------- MODULE ChamberLoaderProofs -------------------------
(***************************************************************************)
(* The drawing loop loads a fair cylinder for every even modulus and every *)
(* odd pair of coefficients, the program's 2^64, 1103515245 and 12345      *)
(* among them.  The argument: such a generator alternates between even and *)
(* odd words, so the second draw always hits a chamber of the other parity *)
(* than the first and the two can never be equal.                          *)
(***************************************************************************)
EXTENDS ChamberLoader, FiniteSetTheorems, TLAPS

\* The chambers are of both parities.
Mixed(chambers) ==
  /\ \E c \in chambers : c % 2 = 0
  /\ \E c \in chambers : c % 2 = 1

\* LoadIsFair strengthened: what holds of the cylinder before the last draw.
IInv ==
  /\ TypeOK
  /\ count = Cardinality(flags)
  /\ count = 0 => flags = {}
  /\ count = 1 => \E p \in Positions : flags = {p} /\ p % 2 # rng % 2
  /\ count >= 2 => Mixed(flags)

\* A number modulo an even number keeps its parity.
LEMMA EvenModulusKeepsParity ==
  ASSUME NEW x \in Nat, NEW m \in Nat \ {0}, m % 2 = 0
  PROVE  (x % m) % 2 = x % 2
<1>1. PICK h \in Nat : m = 2 * h
  <2>1. m = 2 * (m \div 2)
    OBVIOUS
  <2>2. m \div 2 \in Nat
    OBVIOUS
  <2> QED BY <2>1, <2>2
<1>2. /\ x % m \in Nat
      /\ x \div m \in Nat
      /\ x = m * (x \div m) + (x % m)
  OBVIOUS
<1>3. x = 2 * (h * (x \div m)) + (x % m)
  <2> DEFINE q == x \div m
             r == x % m
  <2>1. q \in Nat /\ r \in Nat /\ x = m * q + r
    BY <1>2
  <2> HIDE DEF q, r
  <2>2. m * q = 2 * (h * q)
    BY <1>1, <2>1
  <2> QED BY <2>1, <2>2 DEF q, r
<1>4. h * (x \div m) \in Nat
  BY <1>1, <1>2
<1> QED BY <1>2, <1>3, <1>4

\* One step of the generator flips the parity of its state.
LEMMA StepFlipsParity ==
  ASSUME NEW word \in Nat
  PROVE  /\ Step(word) \in 0..(Modulus - 1)
         /\ Step(word) % 2 # word % 2
<1> DEFINE sum == word * Multiplier + Increment
<1> USE GeneratorAssumption
<1>1. PICK a \in Nat : Multiplier = 2 * a + 1
  <2>1. Multiplier = 2 * (Multiplier \div 2) + 1 /\ Multiplier \div 2 \in Nat
    OBVIOUS
  <2> QED BY <2>1
<1>2. PICK c \in Nat : Increment = 2 * c + 1
  <2>1. Increment = 2 * (Increment \div 2) + 1 /\ Increment \div 2 \in Nat
    OBVIOUS
  <2> QED BY <2>1
<1>3. word * a \in Nat
  OBVIOUS
<1>4. sum = 2 * (word * a) + word + 2 * c + 1
  BY <1>1, <1>2
<1>5. sum \in Nat
  BY <1>3, <1>4
<1>6. sum % 2 # word % 2
  BY <1>3, <1>4
<1>7. (sum % Modulus) % 2 = sum % 2
  BY <1>5, EvenModulusKeepsParity
<1>8. sum % Modulus \in 0..(Modulus - 1)
  BY <1>5
<1> QED BY <1>6, <1>7, <1>8 DEF Step

\* A set of chambers is finite, and grows by one with a new chamber.
LEMMA AddChamber ==
  ASSUME NEW chambers \in SUBSET Positions,
         NEW pos \in Positions, pos \notin chambers
  PROVE  Cardinality(chambers \cup {pos}) = Cardinality(chambers) + 1
<1>1. IsFiniteSet(Positions)
  <2>1. 0 \in Int /\ 5 \in Int
    OBVIOUS
  <2> QED BY <2>1, FS_Interval, Zenon DEF Positions
<1>2. IsFiniteSet(chambers)
  BY <1>1, FS_Subset
<1> QED BY <1>2, FS_AddElement

\* The invariant holds at the start, every draw keeps it, and at the end of
\* the loop it is what the loop promises.
THEOREM LoadingIsFair == Spec => [](TypeOK /\ LoadIsFair)
<1>1. Init => IInv
  BY FS_EmptySet, GeneratorAssumption DEF Init, IInv, TypeOK, Positions
<1>2. IInv /\ [Next]_vars => IInv'
  <2> SUFFICES ASSUME IInv, [Next]_vars PROVE IInv'
    OBVIOUS
  <2> USE DEF IInv, TypeOK
  <2>1. CASE Draw
    <3> DEFINE pos == rng % 6
    <3>1. rng \in Nat
      BY GeneratorAssumption
    <3>2. pos \in Positions /\ pos % 2 = rng % 2
      BY <3>1, EvenModulusKeepsParity DEF Positions
    <3>3. rng' \in 0..(Modulus - 1) /\ rng' % 2 # rng % 2
      BY <2>1, <3>1, StepFlipsParity DEF Draw
    <3>4. CASE pos \in flags
      <4>1. UNCHANGED <<flags, count>>
        BY <2>1, <3>4 DEF Draw
      <4>2. count # 0 /\ count # 1
        BY <3>2, <3>4
      <4> QED BY <3>3, <4>1, <4>2
    <3>5. CASE pos \notin flags
      <4>1. /\ flags' = flags \cup {pos}
            /\ count' = count + 1
            /\ count' \in 1..3
        BY <2>1, <3>5 DEF Draw
      <4>2. flags' \in SUBSET Positions /\ count' = Cardinality(flags')
        BY <3>2, <3>5, <4>1, AddChamber
      <4>3. count' = 1 => flags' = {pos} /\ pos % 2 # rng' % 2
        <5>1. count' = 1 => count = 0
          BY <4>1
        <5>2. count' = 1 => flags' = {pos}
          BY <4>1, <5>1
        <5> QED BY <3>2, <3>3, <5>2
      <4>4. count' >= 2 => Mixed(flags')
        <5>1. CASE count = 1
          <6>1. PICK p \in Positions : flags = {p} /\ p % 2 # rng % 2
            BY <5>1
          <6>2. p % 2 \in {0, 1} /\ pos % 2 \in {0, 1} /\ p % 2 # pos % 2
            BY <3>2, <6>1 DEF Positions
          <6> QED BY <4>1, <6>1, <6>2 DEF Mixed
        <5>2. CASE count = 2
          BY <4>1, <5>2 DEF Mixed
        <5> QED BY <4>1, <5>1, <5>2
      <4>5. rng' \in 0..(Modulus - 1) /\ flags' \in SUBSET Positions /\ count' \in 0..3
        BY <3>3, <4>1, <4>2
      <4>6. count' # 0
        BY <4>1
      <4> QED BY <3>2, <4>2, <4>3, <4>4, <4>5, <4>6
    <3> QED BY <3>4, <3>5
  <2>2. CASE UNCHANGED vars
    BY <2>2 DEF vars, Mixed
  <2> QED BY <2>1, <2>2 DEF Next
<1>3. IInv => TypeOK /\ LoadIsFair
  BY DEF IInv, TypeOK, LoadIsFair, Loads, Mixed
<1> QED BY <1>1, <1>2, <1>3, PTL DEF Spec

\* Every loop of load_chamber that is started keeps its three variables in the
\* ranges of their types.
THEOREM LoaderTypes == Spec => []TypeOK
BY LoadingIsFair, PTL

=============================================================================
