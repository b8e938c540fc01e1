----------------------------- MODULE RelayProofs -----------------------------
(***************************************************************************)
(* Proofs about the relay, for any connections, wallets, bets, rooms,      *)
(* reports and bounds: what may stand in whose script, and from it that    *)
(* the maps hold what their types allow.                                   *)
(***************************************************************************)
EXTENDS Relay, SequenceTheorems, FiniteSetTheorems, TLAPS

-----------------------------------------------------------------------------
(***************************************************************************)
(* What may stand in whose script, when n matches were made, the rooms of  *)
(* R have entries, and K are the states of rooms announced so far.         *)
(***************************************************************************)

FiniteSubsets(S) == {T \in SUBSET S : IsFiniteSet(T)}

Deliveries(K) ==
  [do : {"tell"}, client : Clients, message : Notices \cup K]
    \cup [do : {"tell_wallet"}, wallet : Wallets, message : Notices]
    \cup [do : {"broadcast"}, room : Rooms, message : Notices \cup K]
    \cup [do : {"address"}, message : Notices \cup K,
          wallets : FiniteSubsets(Wallets), subscribers : FiniteSubsets(Clients)]

Errands(c, n, R) ==
  [do : {"spawn_timer"}, match : 1..n]
    \cup [do : {"observe"}, room : Rooms]
    \cup [do : {"snapshot"}, room : R]
    \cup [do : {"find_ticket"}, ticket : Nat]
    \cup [do : {"find_match"}, match : 1..n]
    \cup [do : {"subscribe"}, room : Rooms, wallet : {None, WalletOf[c]}]

HandlerSteps(c, n, R, K) == Errands(c, n, R) \cup Deliveries(K)

\* A subscription is followed by the request to observe its room, and a room
\* that is going to be observed has an entry or is about to get it.
Linked(q, R) ==
  \A i \in DOMAIN q :
    /\ q[i].do = "subscribe" =>
         /\ i + 1 \in DOMAIN q
         /\ q[i + 1] = [do |-> "observe", room |-> q[i].room]
    /\ q[i].do = "observe" =>
         \/ q[i].room \in R
         \/ i > 1 /\ q[i - 1].do = "subscribe" /\ q[i - 1].room = q[i].room

BindStep(c) == [do |-> "bind", wallet |-> WalletOf[c]]
CheckQueueStep(c) == [do |-> "check_queue", wallet |-> WalletOf[c]]
CheckMatchesStep(c) == [do |-> "check_matches", wallet |-> WalletOf[c]]
EnqueueStep(c, b) == [do |-> "enqueue", wallet |-> WalletOf[c], bet |-> b]
ResumeSteps(c, n) ==
  [do : {"resume"}, wallet : {WalletOf[c]}, room : Rooms \cup {None}, match : 0..n]

\* How handlers begin: nothing else stands in their scripts.
JoinOpening(c, q) ==
  \E b \in Bets :
    \/ q = <<BindStep(c), CheckQueueStep(c), CheckMatchesStep(c), EnqueueStep(c, b)>>
    \/ q = <<CheckQueueStep(c), CheckMatchesStep(c), EnqueueStep(c, b)>>
    \/ q = <<CheckMatchesStep(c), EnqueueStep(c, b)>>
    \/ q = <<EnqueueStep(c, b)>>

ResumeOpening(c, n, q) ==
  \E step \in ResumeSteps(c, n) : q = <<BindStep(c), step>> \/ q = <<step>>

OtherOpening(n, q) ==
  \/ q = <<[do |-> "unregister"], [do |-> "unsubscribe"]>>
  \/ q = <<[do |-> "unsubscribe"]>>
  \/ \E ticket \in Nat : q = <<[do |-> "leave", ticket |-> ticket]>>
  \/ \E m \in 1..n, r \in Rooms :
       q = <<[do |-> "register", match |-> m, room |-> r]>>

Opening(c, n, q) ==
  JoinOpening(c, q) \/ ResumeOpening(c, n, q) \/ OtherOpening(n, q)

HandlerScript(c, n, R, K, q) ==
  \/ Opening(c, n, q)
  \/ q \in Seq(HandlerSteps(c, n, R, K)) /\ Linked(q, R)

TimerSteps(m, n) ==
  {[do |-> "expire", match |-> m] : i \in {i \in 1..n : i = m}}
    \cup [do : {"tell"}, client : Clients, message : {Error("match_expired")}]
    \cup [do : {"tell_wallet"}, wallet : Wallets, message : {Error("match_expired")}]

ObserverSteps(r, R, K) ==
  [do : {"update"}, room : {r} \cap R, report : Reports] \cup Deliveries(K)

-----------------------------------------------------------------------------
(***************************************************************************)
(* The inductive invariant.                                                *)
(***************************************************************************)

Made == {r \in Rooms : rooms[r].phase \in RoomPhases}

Current == {RoomState(r, rooms[r]) : r \in Made}

Tickets == [ticket : 1..tickets, wallet : Wallets]

Matches ==
  [creator : Wallets, joiner : Wallets, bet : Bets,
   room : Rooms \cup {None}, state : MatchStates]

Sessions ==
  [ticket : 0..tickets, match : 0..Len(matches), room : Rooms \cup {None}]

RoomEntries ==
  [phase : RoomPhases \cup {None}, match : 0..Len(matches),
   wallets : FiniteSubsets(Wallets), subscribers : FiniteSubsets(Clients),
   stamp : Int, hash : Reports \cup {None}]

Links ==
  /\ life \in [Clients -> {"new", "open", "closed"}]
  /\ clients \subseteq Clients
  /\ bound \in [Wallets -> Clients \cup {None}]
  /\ restarts \in Nat

Matchmaker ==
  /\ tickets \in Nat
  /\ queue \in [Bets -> Seq(Tickets)]
  /\ \A b \in Bets : Len(queue[b]) <= 1
  /\ matches \in Seq(Matches)
  /\ Len(matches) <= MaxMatches
  /\ sessions \in [Wallets -> Sessions]

RoomMap ==
  /\ rooms \in [Rooms -> RoomEntries]
  /\ observers \subseteq Made

Scripts(K) ==
  /\ script = [t \in Tasks |-> script[t]]
  /\ \A c \in Clients : HandlerScript(c, Len(matches), Made, K, script[c])
  /\ \A m \in MatchIds : script[m] \in Seq(TimerSteps(m, Len(matches)))
  /\ \A r \in Rooms : script[r] \in Seq(ObserverSteps(r, Made, K))

Announced(K) ==
  /\ Current \subseteq K
  /\ K \subseteq RoomStates
  /\ told \in [Clients -> SUBSET (Notices \cup K)]

Typed(K) == Links /\ Matchmaker /\ RoomMap /\ Scripts(K) /\ Announced(K)

-----------------------------------------------------------------------------
(***************************************************************************)
(* Lemmas about sequences.                                                 *)
(***************************************************************************)

\* SetToSeq lists a finite set.
LEMMA SetToSeqLists ==
  ASSUME NEW S, IsFiniteSet(S)
  PROVE  /\ SetToSeq(S) \in Seq(S)
         /\ \A x \in S : \E i \in 1..Len(SetToSeq(S)) : SetToSeq(S)[i] = x
<1> DEFINE n == Cardinality(S)
<1>1. n \in Nat /\ ExistsBijection(1..n, S)
  BY FS_CardinalityType
<1>2. \E f \in [1..n -> S] : IsInjective(f)
  BY <1>1 DEF ExistsBijection, Bijection, Injection, Surjection, IsInjective
<1>3. SetToSeq(S) \in [1..n -> S] /\ IsInjective(SetToSeq(S))
  BY <1>2 DEF SetToSeq
<1>4. PICK f : f = SetToSeq(S)
  OBVIOUS
<1>5. f \in Injection(1..n, S)
  BY <1>3, <1>4 DEF Injection, IsInjective
<1>6. IsFiniteSet(1..n) /\ Cardinality(1..n) = n
  BY <1>1, FS_Interval
<1>7. f \in Surjection(1..n, S)
  BY <1>5, <1>6, FS_Injection
<1>8. f \in Seq(S) /\ Len(f) = n
  BY <1>1, <1>3, <1>4
<1> QED BY <1>4, <1>7, <1>8 DEF Surjection

\* What is left of a queue of one at most.
LEMMA RemoveAtOnly ==
  ASSUME NEW S, NEW s \in Seq(S), Len(s) <= 1, NEW i \in DOMAIN s
  PROVE  RemoveAt(s, i) = <<>>
<1>1. i = 1 /\ Len(s) = 1
  <2>1. PICK n \in Nat : n = Len(s)
    BY LenProperties
  <2>2. i \in 1..n /\ n <= 1
    BY <2>1, LenProperties
  <2> QED BY <2>1, <2>2
<1>2. SubSeq(s, 1, 0) = <<>> /\ SubSeq(s, 2, 1) = <<>>
  BY SubSeqEmpty
<1>3. <<>> \o <<>> = <<>>
  BY ConcatEmptySeq, EmptySeq
<1> QED BY <1>1, <1>2, <1>3 DEF RemoveAt

\* What follows the only element of a list is nothing.
LEMMA TailOfOnly ==
  ASSUME NEW S, NEW s \in Seq(S), Len(s) <= 1, s # <<>>
  PROVE  Tail(s) = <<>>
<1>1. Len(Tail(s)) = Len(s) - 1 /\ Tail(s) \in Seq(S)
  BY HeadTailProperties
<1>2. Len(s) \in Nat \ {0}
  BY EmptySeq
<1>3. Len(Tail(s)) = 0
  BY <1>1, <1>2
<1> QED BY <1>1, <1>3, EmptySeq

\* A step gives way to others, or leaves them for the end.
LEMMA Replaced ==
  ASSUME NEW S, NEW q \in Seq(S), q # <<>>, NEW new \in Seq(S)
  PROVE  /\ new \o Tail(q) \in Seq(S)
         /\ Tail(q) \o new \in Seq(S)
         /\ Tail(q) \in Seq(S)
         /\ Head(q) \in S
  BY HeadTailProperties, ConcatProperties

\* Two linked scripts in a row are a linked script.
LEMMA LinkedConcat ==
  ASSUME NEW S, NEW a \in Seq(S), NEW b \in Seq(S), NEW R, Linked(a, R), Linked(b, R)
  PROVE  Linked(a \o b, R)
<1> PICK n \in Nat : n = Len(a)
  OBVIOUS
<1> PICK k \in Nat : k = Len(b)
  OBVIOUS
<1> PICK ab : ab = a \o b
  OBVIOUS
<1>1. /\ DOMAIN a = 1..n /\ DOMAIN b = 1..k /\ DOMAIN ab = 1..(n + k)
      /\ \A i \in 1..n : ab[i] = a[i]
      /\ \A i \in 1..k : ab[n + i] = b[i]
  BY ConcatProperties, LenProperties
<1> SUFFICES ASSUME NEW i \in 1..(n + k)
             PROVE  /\ ab[i].do = "subscribe" =>
                         /\ i + 1 \in 1..(n + k)
                         /\ ab[i + 1] = [do |-> "observe", room |-> ab[i].room]
                    /\ ab[i].do = "observe" =>
                         \/ ab[i].room \in R
                         \/ i > 1 /\ ab[i - 1].do = "subscribe" /\ ab[i - 1].room = ab[i].room
  BY <1>1 DEF Linked
<1>2. CASE i <= n
  <2>1. i \in 1..n /\ ab[i] = a[i]
    BY <1>1, <1>2
  <2>2. i + 1 \in 1..n => i + 1 \in 1..(n + k) /\ ab[i + 1] = a[i + 1]
    BY <1>1
  <2>3. i > 1 => ab[i - 1] = a[i - 1]
    BY <1>1, <2>1
  <2> QED BY <1>1, <2>1, <2>2, <2>3 DEF Linked
<1>3. CASE i > n
  <2>1. PICK j \in 1..k : i = n + j /\ ab[i] = b[j]
    <3>1. i - n \in 1..k /\ i = n + (i - n)
      BY <1>3
    <3> QED BY <1>1, <3>1
  <2>2. j + 1 \in 1..k => i + 1 \in 1..(n + k) /\ ab[i + 1] = b[j + 1]
    <3>1. i + 1 = n + (j + 1)
      BY <2>1
    <3> QED BY <1>1, <3>1
  <2>3. j > 1 => i > 1 /\ ab[i - 1] = b[j - 1]
    <3>1. i - 1 = n + (j - 1)
      BY <2>1
    <3> QED BY <1>1, <3>1, <2>1
  <2>4. /\ b[j].do = "subscribe" =>
             j + 1 \in 1..k /\ b[j + 1] = [do |-> "observe", room |-> b[j].room]
        /\ b[j].do = "observe" =>
             \/ b[j].room \in R
             \/ j > 1 /\ b[j - 1].do = "subscribe" /\ b[j - 1].room = b[j].room
    BY <1>1, <2>1 DEF Linked
  <2> QED BY <2>1, <2>2, <2>3, <2>4
<1> QED BY <1>2, <1>3

\* What follows the first step of a linked script is linked, if a
\* subscription at its head has made its room by then.
LEMMA LinkedTail ==
  ASSUME NEW S, NEW q \in Seq(S), q # <<>>, NEW R, Linked(q, R),
         Head(q).do = "subscribe" => Head(q).room \in R
  PROVE  Linked(Tail(q), R)
<1> PICK n \in Nat : n = Len(q) /\ n > 0 /\ DOMAIN q = 1..n
  BY EmptySeq
<1> PICK t : t = Tail(q)
  OBVIOUS
<1>1. DOMAIN t = 1..(n - 1) /\ \A i \in 1..(n - 1) : t[i] = q[i + 1]
  BY HeadTailProperties
<1>2. Head(q) = q[1]
  OBVIOUS
<1> SUFFICES ASSUME NEW i \in 1..(n - 1)
             PROVE  /\ t[i].do = "subscribe" =>
                         /\ i + 1 \in 1..(n - 1)
                         /\ t[i + 1] = [do |-> "observe", room |-> t[i].room]
                    /\ t[i].do = "observe" =>
                         \/ t[i].room \in R
                         \/ i > 1 /\ t[i - 1].do = "subscribe" /\ t[i - 1].room = t[i].room
  BY <1>1 DEF Linked
<1>3. i + 1 \in 1..n /\ t[i] = q[i + 1] /\ (i + 1) - 1 = i
  BY <1>1
<1>4. i + 2 \in 1..n => i + 1 \in 1..(n - 1) /\ t[i + 1] = q[i + 2]
  BY <1>1
<1>5. i > 1 => t[i - 1] = q[i]
  BY <1>1
<1>6. /\ q[i + 1].do = "subscribe" =>
           /\ i + 2 \in 1..n
           /\ q[i + 2] = [do |-> "observe", room |-> q[i + 1].room]
      /\ q[i + 1].do = "observe" =>
           \/ q[i + 1].room \in R
           \/ q[i].do = "subscribe" /\ q[i].room = q[i + 1].room
  <2>1. (i + 1) + 1 = i + 2
    OBVIOUS
  <2> QED BY <1>3, <2>1 DEF Linked
<1>7. i = 1 /\ q[i].do = "subscribe" => q[i].room \in R
  BY <1>2
<1> QED BY <1>3, <1>4, <1>5, <1>6, <1>7

\* Deliveries alone are linked to nothing.
LEMMA LinkedElse ==
  ASSUME NEW q, NEW R, \A i \in DOMAIN q : q[i].do \notin {"subscribe", "observe"}
  PROVE  Linked(q, R)
  BY DEF Linked

-----------------------------------------------------------------------------
(***************************************************************************)
(* Lemmas about scripts.                                                   *)
(***************************************************************************)

\* The first element and the rest of the short lists the handlers write.
LEMMA Tuples ==
  ASSUME NEW a, NEW b, NEW c, NEW d
  PROVE  /\ Head(<<a, b, c, d>>) = a /\ Tail(<<a, b, c, d>>) = <<b, c, d>>
         /\ Head(<<a, b, c>>) = a    /\ Tail(<<a, b, c>>) = <<b, c>>
         /\ Head(<<a, b>>) = a       /\ Tail(<<a, b>>) = <<b>>
         /\ Head(<<a>>) = a          /\ Tail(<<a>>) = <<>>
         /\ <<>> \o <<>> = <<>>  /\ <<>> \o <<a>> = <<a>>  /\ <<>> \o <<a, b>> = <<a, b>>
         /\ <<>> \o <<a, b, c>> = <<a, b, c>>
  OBVIOUS

\* The steps of n matches are steps of more.
LEMMA StepsGrow ==
  ASSUME NEW c, NEW n \in Nat, NEW n2 \in Nat, n <= n2,
         NEW R, NEW R2, R \subseteq R2, NEW K, NEW K2, K \subseteq K2
  PROVE  /\ HandlerSteps(c, n, R, K) \subseteq HandlerSteps(c, n2, R2, K2)
         /\ TimerSteps(c, n) \subseteq TimerSteps(c, n2)
         /\ ObserverSteps(c, R, K) \subseteq ObserverSteps(c, R2, K2)
         /\ ResumeSteps(c, n) \subseteq ResumeSteps(c, n2)
<1>1. Deliveries(K) \subseteq Deliveries(K2)
  BY DEF Deliveries
<1>2. 1..n \subseteq 1..n2 /\ 0..n \subseteq 0..n2
  OBVIOUS
<1>3. Errands(c, n, R) \subseteq Errands(c, n2, R2)
  BY <1>2 DEF Errands
<1> QED BY <1>1, <1>2, <1>3 DEF HandlerSteps, TimerSteps, ObserverSteps, ResumeSteps

\* A script that fits the matches, rooms and announcements of a state fits
\* those of every later state.
LEMMA ScriptsGrow ==
  ASSUME NEW c, NEW n \in Nat, NEW n2 \in Nat, n <= n2,
         NEW R, NEW R2, R \subseteq R2, NEW K, NEW K2, K \subseteq K2,
         NEW q
  PROVE  /\ HandlerScript(c, n, R, K, q) => HandlerScript(c, n2, R2, K2, q)
         /\ q \in Seq(TimerSteps(c, n)) => q \in Seq(TimerSteps(c, n2))
         /\ q \in Seq(ObserverSteps(c, R, K)) => q \in Seq(ObserverSteps(c, R2, K2))
<1>1. Opening(c, n, q) => Opening(c, n2, q)
  <2>1. ResumeOpening(c, n, q) => ResumeOpening(c, n2, q)
    BY StepsGrow DEF ResumeOpening
  <2>2. OtherOpening(n, q) => OtherOpening(n2, q)
    BY DEF OtherOpening
  <2> QED BY <2>1, <2>2 DEF Opening
<1>2. q \in Seq(HandlerSteps(c, n, R, K)) => q \in Seq(HandlerSteps(c, n2, R2, K2))
  BY StepsGrow, SeqMonotonic
<1>3. Linked(q, R) => Linked(q, R2)
  BY DEF Linked
<1>4. /\ q \in Seq(TimerSteps(c, n)) => q \in Seq(TimerSteps(c, n2))
      /\ q \in Seq(ObserverSteps(c, R, K)) => q \in Seq(ObserverSteps(c, R2, K2))
  BY StepsGrow, SeqMonotonic
<1> QED BY <1>1, <1>2, <1>3, <1>4 DEF HandlerScript

\* A script past its opening holds errands and deliveries.
LEMMA PastOpening ==
  ASSUME NEW c, NEW n \in Nat, NEW R, NEW K, NEW q,
         HandlerScript(c, n, R, K, q), q # <<>>,
         Head(q).do \notin {"bind", "check_queue", "check_matches", "enqueue",
                            "resume", "unregister", "unsubscribe", "leave", "register"}
  PROVE  q \in Seq(HandlerSteps(c, n, R, K)) /\ Linked(q, R)
<1>1. ~JoinOpening(c, q)
  BY Tuples DEF JoinOpening, BindStep, CheckQueueStep, CheckMatchesStep, EnqueueStep
<1>2. ~ResumeOpening(c, n, q)
  BY Tuples DEF ResumeOpening, BindStep, ResumeSteps
<1>3. ~OtherOpening(n, q)
  BY Tuples DEF OtherOpening
<1> QED BY <1>1, <1>2, <1>3 DEF HandlerScript, Opening

\* One in its opening is known from its next step.
LEMMA InOpening ==
  ASSUME NEW c, NEW n \in Nat, NEW R, NEW K, NEW q,
         HandlerScript(c, n, R, K, q), q # <<>>,
         Head(q).do \in {"bind", "check_queue", "check_matches", "enqueue",
                         "resume", "unregister", "unsubscribe", "leave", "register"}
  PROVE  Opening(c, n, q)
<1>1. ASSUME q \in Seq(HandlerSteps(c, n, R, K)) PROVE FALSE
  <2>1. Head(q) \in HandlerSteps(c, n, R, K)
    BY <1>1, HeadTailProperties
  <2> QED BY <2>1 DEF HandlerSteps, Errands, Deliveries
<1> QED BY <1>1 DEF HandlerScript

\* Which step an opening starts with says what the rest of it is.
LEMMA OpeningByHead ==
  ASSUME NEW c, NEW n \in Nat, NEW q, Opening(c, n, q)
  PROVE  /\ q # <<>>
         /\ Head(q).do = "bind" =>
              Head(q) = BindStep(c) /\ Opening(c, n, Tail(q))
         /\ Head(q).do = "check_queue" =>
              Head(q) = CheckQueueStep(c) /\ Opening(c, n, Tail(q))
         /\ Head(q).do = "check_matches" =>
              Head(q) = CheckMatchesStep(c) /\ Opening(c, n, Tail(q))
         /\ Head(q).do = "enqueue" =>
              \E b \in Bets : Head(q) = EnqueueStep(c, b) /\ Tail(q) = <<>>
         /\ Head(q).do = "resume" => Head(q) \in ResumeSteps(c, n) /\ Tail(q) = <<>>
         /\ Head(q).do = "unregister" => Opening(c, n, Tail(q))
         /\ Head(q).do = "unsubscribe" => Tail(q) = <<>>
         /\ Head(q).do = "leave" =>
              \E ticket \in Nat : Head(q) = [do |-> "leave", ticket |-> ticket] /\ Tail(q) = <<>>
         /\ Head(q).do = "register" =>
              \E m \in 1..n, r \in Rooms :
                Head(q) = [do |-> "register", match |-> m, room |-> r] /\ Tail(q) = <<>>
<1>1. CASE JoinOpening(c, q)
  <2>1. PICK b \in Bets :
          \/ q = <<BindStep(c), CheckQueueStep(c), CheckMatchesStep(c), EnqueueStep(c, b)>>
          \/ q = <<CheckQueueStep(c), CheckMatchesStep(c), EnqueueStep(c, b)>>
          \/ q = <<CheckMatchesStep(c), EnqueueStep(c, b)>>
          \/ q = <<EnqueueStep(c, b)>>
    BY <1>1 DEF JoinOpening
  <2>2. /\ BindStep(c).do = "bind" /\ CheckQueueStep(c).do = "check_queue"
        /\ CheckMatchesStep(c).do = "check_matches" /\ EnqueueStep(c, b).do = "enqueue"
    BY DEF BindStep, CheckQueueStep, CheckMatchesStep, EnqueueStep
  <2>3. CASE q = <<BindStep(c), CheckQueueStep(c), CheckMatchesStep(c), EnqueueStep(c, b)>>
    <3>1. JoinOpening(c, Tail(q))
      BY <2>3, Tuples DEF JoinOpening
    <3> QED BY <2>2, <2>3, <3>1, Tuples DEF Opening
  <2>4. CASE q = <<CheckQueueStep(c), CheckMatchesStep(c), EnqueueStep(c, b)>>
    <3>1. JoinOpening(c, Tail(q))
      BY <2>4, Tuples DEF JoinOpening
    <3> QED BY <2>2, <2>4, <3>1, Tuples DEF Opening
  <2>5. CASE q = <<CheckMatchesStep(c), EnqueueStep(c, b)>>
    <3>1. JoinOpening(c, Tail(q))
      BY <2>5, Tuples DEF JoinOpening
    <3> QED BY <2>2, <2>5, <3>1, Tuples DEF Opening
  <2>6. CASE q = <<EnqueueStep(c, b)>>
    BY <2>2, <2>6, Tuples
  <2> QED BY <2>1, <2>3, <2>4, <2>5, <2>6
<1>2. CASE ResumeOpening(c, n, q)
  <2>1. PICK step \in ResumeSteps(c, n) : q = <<BindStep(c), step>> \/ q = <<step>>
    BY <1>2 DEF ResumeOpening
  <2>2. BindStep(c).do = "bind" /\ step.do = "resume"
    BY DEF BindStep, ResumeSteps
  <2>3. CASE q = <<BindStep(c), step>>
    <3>1. ResumeOpening(c, n, Tail(q))
      BY <2>3, Tuples DEF ResumeOpening
    <3> QED BY <2>2, <2>3, <3>1, Tuples DEF Opening
  <2>4. CASE q = <<step>>
    BY <2>2, <2>4, Tuples
  <2> QED BY <2>1, <2>3, <2>4
<1>3. CASE OtherOpening(n, q)
  <2>1. CASE q = <<[do |-> "unregister"], [do |-> "unsubscribe"]>>
    <3>1. OtherOpening(n, Tail(q))
      BY <2>1, Tuples DEF OtherOpening
    <3> QED BY <2>1, <3>1, Tuples DEF Opening
  <2>2. CASE q = <<[do |-> "unsubscribe"]>>
    BY <2>2, Tuples
  <2>3. CASE \E ticket \in Nat : q = <<[do |-> "leave", ticket |-> ticket]>>
    BY <2>3, Tuples
  <2>4. CASE \E m \in 1..n, r \in Rooms : q = <<[do |-> "register", match |-> m, room |-> r]>>
    BY <2>4, Tuples
  <2> QED BY <1>3, <2>1, <2>2, <2>3, <2>4 DEF OtherOpening
<1> QED BY <1>1, <1>2, <1>3 DEF Opening

\* Past the opening, a step may give way to others, before or after the rest.
LEMMA GoesOn ==
  ASSUME NEW c, NEW n \in Nat, NEW R, NEW K, NEW q,
         q \in Seq(HandlerSteps(c, n, R, K)), Linked(q, R), q # <<>>,
         Head(q).do = "subscribe" => Head(q).room \in R,
         NEW new, new \in Seq(HandlerSteps(c, n, R, K)), Linked(new, R)
  PROVE  /\ HandlerScript(c, n, R, K, new \o Tail(q))
         /\ HandlerScript(c, n, R, K, Tail(q) \o new)
         /\ HandlerScript(c, n, R, K, Tail(q))
<1> DEFINE S == HandlerSteps(c, n, R, K)
<1> HIDE DEF S
<1>1. q \in Seq(S) /\ new \in Seq(S)
  BY DEF S
<1>2. /\ new \o Tail(q) \in Seq(S)
      /\ Tail(q) \o new \in Seq(S)
      /\ Tail(q) \in Seq(S)
  BY <1>1, Replaced
<1>3. Linked(Tail(q), R)
  BY <1>1, LinkedTail
<1>4. Linked(new \o Tail(q), R) /\ Linked(Tail(q) \o new, R)
  BY <1>1, <1>2, <1>3, LinkedConcat
<1> QED BY <1>2, <1>3, <1>4 DEF HandlerScript, S

\* Deliveries are linked to nothing.
LEMMA DeliveriesLinked ==
  ASSUME NEW c, NEW n \in Nat, NEW R, NEW K, NEW new \in Seq(Deliveries(K))
  PROVE  new \in Seq(HandlerSteps(c, n, R, K)) /\ Linked(new, R)
<1>1. Deliveries(K) \subseteq HandlerSteps(c, n, R, K)
  BY DEF HandlerSteps
<1>2. new \in Seq(HandlerSteps(c, n, R, K))
  BY <1>1, SeqMonotonic
<1>3. ASSUME NEW i \in DOMAIN new PROVE new[i].do \notin {"subscribe", "observe"}
  <2>1. new[i] \in Deliveries(K)
    BY <1>3, ElementOfSeq, LenProperties
  <2> QED BY <2>1 DEF Deliveries
<1> QED BY <1>2, <1>3, LinkedElse

-----------------------------------------------------------------------------
(***************************************************************************)
(* One script at a time is rewritten.                                      *)
(***************************************************************************)

\* The model's matches only become more, and so do the rooms with entries
\* and the states announced.
Grown(K, K2) ==
  /\ Len(matches) \in Nat /\ Len(matches') \in Nat /\ Len(matches) <= Len(matches')
  /\ Made \subseteq Made'
  /\ K \subseteq K2

\* The scripts fit the next state as they stand.
LEMMA ScriptsKept ==
  ASSUME NEW K, NEW K2, Scripts(K), Grown(K, K2)
  PROVE  /\ \A c \in Clients : HandlerScript(c, Len(matches'), Made', K2, script[c])
         /\ \A m \in MatchIds : script[m] \in Seq(TimerSteps(m, Len(matches')))
         /\ \A r \in Rooms : script[r] \in Seq(ObserverSteps(r, Made', K2))
<1> PICK n : n = Len(matches)
  OBVIOUS
<1> PICK n2 : n2 = Len(matches')
  OBVIOUS
<1> PICK R : R = Made
  OBVIOUS
<1> PICK R2 : R2 = Made'
  OBVIOUS
<1>1. n \in Nat /\ n2 \in Nat /\ n <= n2 /\ R \subseteq R2 /\ K \subseteq K2
  BY DEF Grown
<1>2. /\ \A c \in Clients : HandlerScript(c, n, R, K, script[c])
      /\ \A m \in MatchIds : script[m] \in Seq(TimerSteps(m, n))
      /\ \A r \in Rooms : script[r] \in Seq(ObserverSteps(r, R, K))
  BY DEF Scripts
<1>3. \A c \in Clients : HandlerScript(c, n2, R2, K2, script[c])
  BY <1>1, <1>2, ScriptsGrow
<1>4. \A m \in MatchIds : script[m] \in Seq(TimerSteps(m, n2))
  BY <1>1, <1>2, ScriptsGrow
<1>5. \A r \in Rooms : script[r] \in Seq(ObserverSteps(r, R2, K2))
  BY <1>1, <1>2, ScriptsGrow
<1> QED BY <1>3, <1>4, <1>5

\* A step that rewrites the script of one connection keeps the scripts typed.
LEMMA HandlerRewritten ==
  ASSUME NEW K, NEW K2, Scripts(K), Grown(K, K2), NEW c \in Clients, NEW q,
         script' = [script EXCEPT ![c] = q],
         HandlerScript(c, Len(matches'), Made', K2, q)
  PROVE  Scripts(K2)'
<1>1. c \in Tasks /\ script = [t \in Tasks |-> script[t]]
  BY DEF Scripts, Tasks
<1>2. script'[c] = q /\ \A t \in Tasks \ {c} : script'[t] = script[t]
  BY <1>1
<1>3. script' = [t \in Tasks |-> script'[t]]
  BY <1>1
<1>4. \A d \in Clients : HandlerScript(d, Len(matches'), Made', K2, script'[d])
  BY <1>2, ScriptsKept DEF Tasks
<1>5. \A m \in MatchIds : script'[m] = script[m]
  BY <1>2, RelayAssumption DEF Tasks, MatchIds
<1>6. \A r \in Rooms : script'[r] = script[r]
  BY <1>2, RelayAssumption DEF Tasks
<1>7. /\ \A m \in MatchIds : script'[m] \in Seq(TimerSteps(m, Len(matches')))
      /\ \A r \in Rooms : script'[r] \in Seq(ObserverSteps(r, Made', K2))
  BY <1>5, <1>6, ScriptsKept
<1> QED BY <1>3, <1>4, <1>7 DEF Scripts

\* A step that rewrites the script of one timer keeps the scripts typed.
LEMMA TimerRewritten ==
  ASSUME NEW K, NEW K2, Scripts(K), Grown(K, K2), NEW m \in MatchIds, NEW q,
         script' = [script EXCEPT ![m] = q],
         q \in Seq(TimerSteps(m, Len(matches')))
  PROVE  Scripts(K2)'
<1>1. m \in Tasks /\ script = [t \in Tasks |-> script[t]]
  BY DEF Scripts, Tasks
<1>2. script'[m] = q /\ \A t \in Tasks \ {m} : script'[t] = script[t]
  BY <1>1
<1>3. script' = [t \in Tasks |-> script'[t]]
  BY <1>1
<1>4. \A k \in MatchIds : script'[k] \in Seq(TimerSteps(k, Len(matches')))
  BY <1>2, ScriptsKept DEF Tasks
<1>5. \A c \in Clients : script'[c] = script[c]
  BY <1>2, RelayAssumption DEF Tasks, MatchIds
<1>6. \A r \in Rooms : script'[r] = script[r]
  BY <1>2, RelayAssumption DEF Tasks, MatchIds
<1>7. /\ \A c \in Clients : HandlerScript(c, Len(matches'), Made', K2, script'[c])
      /\ \A r \in Rooms : script'[r] \in Seq(ObserverSteps(r, Made', K2))
  BY <1>5, <1>6, ScriptsKept
<1> QED BY <1>3, <1>4, <1>7 DEF Scripts

\* A step that rewrites the script of one observer keeps the scripts typed.
LEMMA ObserverRewritten ==
  ASSUME NEW K, NEW K2, Scripts(K), Grown(K, K2), NEW r \in Rooms, NEW q,
         script' = [script EXCEPT ![r] = q],
         q \in Seq(ObserverSteps(r, Made', K2))
  PROVE  Scripts(K2)'
<1>1. r \in Tasks /\ script = [t \in Tasks |-> script[t]]
  BY DEF Scripts, Tasks
<1>2. script'[r] = q /\ \A t \in Tasks \ {r} : script'[t] = script[t]
  BY <1>1
<1>3. script' = [t \in Tasks |-> script'[t]]
  BY <1>1
<1>4. \A s \in Rooms : script'[s] \in Seq(ObserverSteps(s, Made', K2))
  BY <1>2, ScriptsKept DEF Tasks
<1>5. \A c \in Clients : script'[c] = script[c]
  BY <1>2, RelayAssumption DEF Tasks
<1>6. \A m \in MatchIds : script'[m] = script[m]
  BY <1>2, RelayAssumption DEF Tasks, MatchIds
<1>7. /\ \A c \in Clients : HandlerScript(c, Len(matches'), Made', K2, script'[c])
      /\ \A m \in MatchIds : script'[m] \in Seq(TimerSteps(m, Len(matches')))
  BY <1>5, <1>6, ScriptsKept
<1> QED BY <1>3, <1>4, <1>7 DEF Scripts

-----------------------------------------------------------------------------
(***************************************************************************)
(* Sending.                                                                *)
(***************************************************************************)

DeliveryKinds == {"tell", "tell_wallet", "broadcast", "address"}

\* Nothing is announced that was not before while the maps stay as they are.
LEMMA MapsStay ==
  ASSUME NEW K, NEW K2, K2 = K \cup Current', Typed(K),
         UNCHANGED <<linkVars, matchVars, roomVars>>
  PROVE  /\ K2 = K
         /\ Links' /\ Matchmaker' /\ RoomMap'
         /\ Made' = Made /\ Current' = Current
         /\ Grown(K, K2)
<1>1. Made' = Made /\ Current' = Current
  BY DEF roomVars, Made, Current
<1>2. K2 = K
  BY <1>1 DEF Typed, Announced
<1>3. Links'
  BY DEF Typed, Links, linkVars
<1>4. Matchmaker'
  BY DEF Typed, Matchmaker, Tickets, Matches, Sessions, matchVars
<1>5. RoomMap'
  BY <1>1 DEF Typed, RoomMap, RoomEntries, matchVars, roomVars
<1>6. Grown(K, K2)
  BY <1>1, <1>2, LenProperties DEF Typed, Matchmaker, Grown, matchVars
<1> QED BY <1>1, <1>2, <1>3, <1>4, <1>5, <1>6

\* A connection or an observer that is about to deliver delivers something
\* that may be announced.
LEMMA HeadDelivery ==
  ASSUME NEW K, Typed(K), NEW t \in Clients \cup Rooms, script[t] # <<>>,
         Head(script[t]).do \in DeliveryKinds
  PROVE  Head(script[t]) \in Deliveries(K)
<1> PICK n \in Nat : n = Len(matches)
  BY LenProperties DEF Typed, Matchmaker
<1>1. CASE t \in Clients
  <2>1. HandlerScript(t, n, Made, K, script[t])
    BY <1>1 DEF Typed, Scripts
  <2>2. script[t] \in Seq(HandlerSteps(t, n, Made, K))
    BY <2>1, PastOpening DEF DeliveryKinds
  <2>3. Head(script[t]) \in HandlerSteps(t, n, Made, K)
    BY <2>2, HeadTailProperties
  <2> QED BY <2>3 DEF HandlerSteps, Errands, DeliveryKinds
<1>2. CASE t \in Rooms
  <2>1. Head(script[t]) \in ObserverSteps(t, Made, K)
    BY <1>2, HeadTailProperties DEF Typed, Scripts
  <2> QED BY <2>1 DEF ObserverSteps, DeliveryKinds
<1> QED BY <1>1, <1>2

\* A delivery replaced by further deliveries leaves the scripts typed.
LEMMA DeliveryGoesOn ==
  ASSUME NEW K, Typed(K), Grown(K, K), Made' = Made,
         NEW t \in Clients \cup Rooms, script[t] # <<>>,
         Head(script[t]).do \in DeliveryKinds,
         NEW new \in Seq(Deliveries(K)), Continue(t, new)
  PROVE  Scripts(K)'
<1> PICK n \in Nat : n = Len(matches)
  BY DEF Grown
<1> PICK n2 \in Nat : n2 = Len(matches')
  BY DEF Grown
<1>1. n <= n2
  BY DEF Grown
<1>2. script' = [script EXCEPT ![t] = new \o Tail(script[t])]
  BY DEF Continue
<1>3. Scripts(K)
  BY DEF Typed
<1>4. CASE t \in Clients
  <2>1. HandlerScript(t, n2, Made, K, script[t])
    BY <1>1, <1>3, <1>4, ScriptsGrow DEF Scripts
  <2>2. script[t] \in Seq(HandlerSteps(t, n2, Made, K)) /\ Linked(script[t], Made)
    BY <2>1, PastOpening DEF DeliveryKinds
  <2>3. HandlerScript(t, n2, Made, K, new \o Tail(script[t]))
    BY <2>2, GoesOn, DeliveriesLinked DEF DeliveryKinds
  <2> QED BY <1>2, <1>3, <1>4, <2>3, HandlerRewritten
<1>5. CASE t \in Rooms
  <2>1. script[t] \in Seq(ObserverSteps(t, Made, K))
    BY <1>3, <1>5 DEF Scripts
  <2>2. new \in Seq(ObserverSteps(t, Made, K))
    BY SeqMonotonic DEF ObserverSteps
  <2>3. new \o Tail(script[t]) \in Seq(ObserverSteps(t, Made, K))
    BY <2>1, <2>2, Replaced
  <2> QED BY <1>2, <1>3, <1>5, <2>3, ObserverRewritten
<1> QED BY <1>4, <1>5

\* The step of a timer replaced by further ones leaves the scripts typed.
LEMMA TimerGoesOn ==
  ASSUME NEW K, NEW K2, Typed(K), Grown(K, K2), NEW m \in MatchIds, script[m] # <<>>,
         NEW new \in Seq(TimerSteps(m, Len(matches'))), Continue(m, new)
  PROVE  Scripts(K2)'
<1> PICK n \in Nat : n = Len(matches)
  BY DEF Grown
<1> PICK n2 \in Nat : n2 = Len(matches')
  BY DEF Grown
<1>1. n <= n2
  BY DEF Grown
<1>2. script' = [script EXCEPT ![m] = new \o Tail(script[m])]
  BY DEF Continue
<1>3. script[m] \in Seq(TimerSteps(m, n2))
  BY <1>1, ScriptsGrow DEF Typed, Scripts
<1>4. new \o Tail(script[m]) \in Seq(TimerSteps(m, n2))
  BY <1>3, Replaced
<1> QED BY <1>2, <1>4, TimerRewritten DEF Typed

\* A message to a connection.
LEMMA SendToClientTyped ==
  ASSUME NEW K, NEW K2, K2 = K \cup Current', Typed(K),
         NEW t \in Tasks, SendToClient(t)
  PROVE  Typed(K2)'
<1> DEFINE step == Head(script[t])
<1>1. UNCHANGED <<linkVars, matchVars, roomVars>> /\ script[t] # <<>> /\ step.do = "tell" /\ Continue(t, <<>>)
  BY DEF SendToClient, At
<1>2. /\ K2 = K
      /\ Links' /\ Matchmaker' /\ RoomMap'
      /\ Made' = Made /\ Current' = Current
      /\ Grown(K, K2)
  BY <1>1, MapsStay
<1>3. step.client \in Clients /\ step.message \in Notices \cup K
  <2>1. CASE t \in Clients \cup Rooms
    <3>1. step \in Deliveries(K)
      BY <1>1, <2>1, HeadDelivery DEF DeliveryKinds
    <3> QED BY <1>1, <3>1 DEF Deliveries
  <2>2. CASE t \in MatchIds
    <3>1. step \in TimerSteps(t, Len(matches))
      BY <1>1, <2>2, HeadTailProperties DEF Typed, Scripts
    <3>2. step.client \in Clients /\ step.message = Error("match_expired")
      BY <1>1, <3>1 DEF TimerSteps
    <3> QED BY <3>2 DEF Error, Notices, ErrorCodes
  <2> QED BY <2>1, <2>2 DEF Tasks
<1>4. told' \in [Clients -> SUBSET (Notices \cup K)]
  BY <1>3 DEF SendToClient, Typed, Announced
<1>5. Announced(K2)'
  BY <1>2, <1>4 DEF Typed, Announced
<1>6. Scripts(K2)'
  <2>1. CASE t \in Clients \cup Rooms
    <3>1. <<>> \in Seq(Deliveries(K))
      BY EmptySeq
    <3> QED BY <1>1, <1>2, <2>1, <3>1, DeliveryGoesOn DEF DeliveryKinds
  <2>2. CASE t \in MatchIds
    <3>1. <<>> \in Seq(TimerSteps(t, Len(matches')))
      BY EmptySeq
    <3> QED BY <1>1, <1>2, <2>2, <3>1, TimerGoesOn
  <2> QED BY <2>1, <2>2 DEF Tasks
<1> QED BY <1>2, <1>5, <1>6 DEF Typed

\* The same when only the script of the task has changed.
LEMMA OnlyScript ==
  ASSUME NEW K, NEW K2, K2 = K \cup Current', Typed(K),
         UNCHANGED <<linkVars, matchVars, roomVars, told>>, Scripts(K)'
  PROVE  Typed(K2)'
<1>1. /\ K2 = K
      /\ Links' /\ Matchmaker' /\ RoomMap'
      /\ Made' = Made /\ Current' = Current
  BY MapsStay
<1>2. Announced(K2)'
  BY <1>1 DEF Typed, Announced
<1> QED BY <1>1, <1>2 DEF Typed

\* A message to a wallet.
LEMMA SendToWalletTyped ==
  ASSUME NEW K, NEW K2, K2 = K \cup Current', Typed(K),
         NEW t \in Clients \cup MatchIds, SendToWallet(t)
  PROVE  Typed(K2)'
<1> DEFINE step == Head(script[t])
           client == bound[step.wallet]
           new == IF client = None THEN <<>> ELSE <<Tell(client, step.message)>>
<1>1. /\ UNCHANGED <<linkVars, matchVars, roomVars, told>>
      /\ script[t] # <<>> /\ step.do = "tell_wallet" /\ Continue(t, new)
  BY DEF SendToWallet, At
<1>2. /\ K2 = K
      /\ Made' = Made
      /\ Grown(K, K2)
  BY <1>1, MapsStay
<1>3. CASE t \in Clients
  <2>1. step \in Deliveries(K)
    BY <1>1, <1>3, HeadDelivery DEF DeliveryKinds
  <2>2. step.wallet \in Wallets /\ step.message \in Notices
    BY <1>1, <2>1 DEF Deliveries
  <2>3. client \in Clients \cup {None}
    BY <2>2 DEF Typed, Links
  <2>4. client # None => Tell(client, step.message) \in Deliveries(K)
    BY <2>2, <2>3 DEF Tell, Deliveries
  <2>5. new \in Seq(Deliveries(K))
    BY <2>4, EmptySeq
  <2>6. Scripts(K)'
    BY <1>1, <1>2, <1>3, <2>5, DeliveryGoesOn DEF DeliveryKinds
  <2> QED BY <1>1, <2>6, OnlyScript
<1>4. CASE t \in MatchIds
  <2>1. step \in TimerSteps(t, Len(matches))
    BY <1>1, <1>4, HeadTailProperties DEF Typed, Scripts
  <2>2. step.wallet \in Wallets /\ step.message = Error("match_expired")
    BY <1>1, <2>1 DEF TimerSteps
  <2>3. client \in Clients \cup {None}
    BY <2>2 DEF Typed, Links
  <2>4. client # None => Tell(client, step.message) \in TimerSteps(t, Len(matches'))
    BY <2>2, <2>3 DEF Tell, TimerSteps
  <2>5. new \in Seq(TimerSteps(t, Len(matches')))
    BY <2>4, EmptySeq
  <2>6. Scripts(K)'
    BY <1>1, <1>2, <1>4, <2>5, TimerGoesOn
  <2> QED BY <1>1, <2>6, OnlyScript
<1> QED BY <1>3, <1>4

\* The first stage of a broadcast.
LEMMA ReadRoomTyped ==
  ASSUME NEW K, NEW K2, K2 = K \cup Current', Typed(K),
         NEW t \in Clients \cup Rooms, ReadRoom(t)
  PROVE  Typed(K2)'
<1> DEFINE step == Head(script[t])
           address == [do |-> "address", message |-> step.message,
                       wallets |-> rooms[step.room].wallets,
                       subscribers |-> rooms[step.room].subscribers]
<1>1. /\ UNCHANGED <<linkVars, matchVars, roomVars, told>>
      /\ script[t] # <<>> /\ step.do = "broadcast" /\ Continue(t, <<address>>)
  BY DEF ReadRoom, At
<1>2. /\ K2 = K
      /\ Made' = Made
      /\ Grown(K, K2)
  BY <1>1, MapsStay
<1>3. step.room \in Rooms /\ step.message \in Notices \cup K
  <2>1. step \in Deliveries(K)
    BY <1>1, HeadDelivery DEF DeliveryKinds
  <2> QED BY <1>1, <2>1 DEF Deliveries
<1>4. address \in Deliveries(K)
  BY <1>3 DEF Deliveries, Typed, RoomMap, RoomEntries
<1>5. <<address>> \in Seq(Deliveries(K))
  BY <1>4
<1>6. Scripts(K)'
  BY <1>1, <1>2, <1>5, DeliveryGoesOn DEF DeliveryKinds
<1> QED BY <1>1, <1>6, OnlyScript

\* A finite set has finitely many images.
LEMMA FiniteImage ==
  ASSUME NEW S, IsFiniteSet(S), NEW f
  PROVE  IsFiniteSet({f[x] : x \in S})
<1> DEFINE T == {f[x] : x \in S}
           g == [x \in S |-> f[x]]
<1>1. g \in Surjection(S, T)
  BY DEF Surjection
<1> QED BY <1>1, FS_Surjection

\* A message told to finitely many connections is finitely many tells.
LEMMA FiniteTells ==
  ASSUME NEW S, IsFiniteSet(S), NEW message
  PROVE  IsFiniteSet({Tell(c, message) : c \in S})
<1> DEFINE f == [c \in S |-> Tell(c, message)]
<1>1. IsFiniteSet({f[c] : c \in S})
  BY FiniteImage
<1>2. {f[c] : c \in S} = {Tell(c, message) : c \in S}
  OBVIOUS
<1> QED BY <1>1, <1>2

\* The second stage of a broadcast: everybody on the copied lists, and
\* nobody else, is going to be sent the message.
LEMMA AddressedTo ==
  ASSUME NEW K, Typed(K), NEW t \in Clients \cup Rooms, Address(t)
  PROVE  \E step, tells, recipients :
           /\ step = Head(script[t]) /\ step \in Deliveries(K) /\ step.do = "address"
           /\ recipients = ({bound[w] : w \in step.wallets} \ {None}) \cup step.subscribers
           /\ recipients \subseteq Clients
           /\ tells \in Seq({Tell(c, step.message) : c \in recipients})
           /\ tells \in Seq(Deliveries(K))
           /\ \A c \in recipients : \E i \in 1..Len(tells) : tells[i] = Tell(c, step.message)
           /\ script[t] # <<>>
           /\ Continue(t, tells)
<1> DEFINE step == Head(script[t])
           recipients == ({bound[w] : w \in step.wallets} \ {None}) \cup step.subscribers
           T == {Tell(c, step.message) : c \in recipients}
           tells == SetToSeq(T)
<1>1. script[t] # <<>> /\ step.do = "address" /\ Continue(t, tells)
  BY DEF Address, At
<1>2. step \in Deliveries(K)
  BY <1>1, HeadDelivery DEF DeliveryKinds
<1>3. /\ step.message \in Notices \cup K
      /\ step.wallets \subseteq Wallets /\ IsFiniteSet(step.wallets)
      /\ step.subscribers \subseteq Clients /\ IsFiniteSet(step.subscribers)
  BY <1>1, <1>2 DEF Deliveries, FiniteSubsets
<1>4. recipients \subseteq Clients
  BY <1>3 DEF Typed, Links
<1>5. IsFiniteSet(recipients)
  <2>1. IsFiniteSet({bound[w] : w \in step.wallets})
    BY <1>3, FiniteImage
  <2>2. IsFiniteSet({bound[w] : w \in step.wallets} \ {None})
    BY <2>1, FS_RemoveElement
  <2> QED BY <1>3, <2>2, FS_Union
<1>6. IsFiniteSet(T)
  BY <1>5, FiniteTells
<1>7. tells \in Seq(T) /\ \A x \in T : \E i \in 1..Len(tells) : tells[i] = x
  BY <1>6, SetToSeqLists
<1>8. T \subseteq Deliveries(K)
  BY <1>3, <1>4 DEF Tell, Deliveries
<1>9. tells \in Seq(Deliveries(K))
  BY <1>7, <1>8, SeqMonotonic
<1> HIDE DEF tells
<1> QED BY <1>1, <1>2, <1>4, <1>7, <1>9

\* Copying the lists of recipients (ws.rs broadcast) keeps everything typed.
LEMMA AddressTyped ==
  ASSUME NEW K, NEW K2, K2 = K \cup Current', Typed(K),
         NEW t \in Clients \cup Rooms, Address(t)
  PROVE  Typed(K2)'
<1>1. UNCHANGED <<linkVars, matchVars, roomVars, told>>
  BY DEF Address
<1>2. /\ K2 = K
      /\ Made' = Made
      /\ Grown(K, K2)
  BY <1>1, MapsStay
<1>3. PICK tells \in Seq(Deliveries(K)) :
        script[t] # <<>> /\ Head(script[t]).do = "address" /\ Continue(t, tells)
  BY AddressedTo
<1>4. Scripts(K)'
  BY <1>2, <1>3, DeliveryGoesOn DEF DeliveryKinds
<1> QED BY <1>1, <1>4, OnlyScript

-----------------------------------------------------------------------------
(***************************************************************************)
(* Connections and requests.                                               *)
(***************************************************************************)

\* What holds of matches, rooms and messages is untouched by the links.
LEMMA LinksOnly ==
  ASSUME NEW K, NEW K2, K2 = K \cup Current', Typed(K),
         UNCHANGED <<matchVars, roomVars, told>>, Links', Scripts(K)'
  PROVE  Typed(K2)'
<1>1. Made' = Made /\ Current' = Current
  BY DEF roomVars, Made, Current
<1>2. K2 = K
  BY <1>1 DEF Typed, Announced
<1>3. Matchmaker'
  BY DEF Typed, Matchmaker, Tickets, Matches, Sessions, matchVars
<1>4. RoomMap'
  BY <1>1 DEF Typed, RoomMap, RoomEntries, matchVars, roomVars
<1>5. Announced(K2)'
  BY <1>1, <1>2 DEF Typed, Announced
<1> QED BY <1>2, <1>3, <1>4, <1>5 DEF Typed

\* A step that leaves the matchmaker and the rooms alone leaves what the
\* scripts speak of alone.
LEMMA GrownAnyway ==
  ASSUME NEW K, Typed(K), UNCHANGED <<matchVars, roomVars>>
  PROVE  Grown(K, K) /\ Made' = Made
<1>1. Made' = Made
  BY DEF roomVars, Made
<1> QED BY <1>1, LenProperties DEF Typed, Matchmaker, Grown, matchVars

\* A new connection keeps everything typed.
LEMMA ConnectTyped ==
  ASSUME NEW K, NEW K2, K2 = K \cup Current', Typed(K), NEW c \in Clients, Connect(c)
  PROVE  Typed(K2)'
<1>1. UNCHANGED <<matchVars, roomVars, told, script>>
  BY DEF Connect
<1>2. Links'
  BY DEF Connect, Typed, Links
<1>3. Scripts(K)'
  BY <1>1, GrownAnyway, ScriptsKept DEF Typed, Scripts
<1> QED BY <1>1, <1>2, <1>3, LinksOnly

\* The end of a connection keeps everything typed.
LEMMA DisconnectTyped ==
  ASSUME NEW K, NEW K2, K2 = K \cup Current', Typed(K), NEW c \in Clients, Disconnect(c)
  PROVE  Typed(K2)'
<1> DEFINE q == <<[do |-> "unregister"], [do |-> "unsubscribe"]>>
<1>1. UNCHANGED <<matchVars, roomVars, told>> /\ script' = [script EXCEPT ![c] = q]
  BY DEF Disconnect, Finish
<1>2. Links'
  BY DEF Disconnect, Typed, Links
<1>3. HandlerScript(c, Len(matches'), Made', K, q)
  BY DEF HandlerScript, Opening, OtherOpening
<1>4. Scripts(K)'
  BY <1>1, <1>3, GrownAnyway, HandlerRewritten DEF Typed
<1> QED BY <1>1, <1>2, <1>4, LinksOnly

\* The next step in an opening is done.
LEMMA OpeningGoesOn ==
  ASSUME NEW K, Typed(K), Grown(K, K), NEW c \in Clients, script[c] # <<>>,
         Head(script[c]).do \in {"bind", "check_queue", "check_matches",
                                 "unregister", "unsubscribe"},
         Continue(c, <<>>)
  PROVE  Scripts(K)'
<1> PICK n \in Nat : n = Len(matches)
  BY DEF Grown
<1> PICK n2 \in Nat : n2 = Len(matches')
  BY DEF Grown
<1> PICK q : q = script[c]
  OBVIOUS
<1>1. n <= n2
  BY DEF Grown
<1>2. HandlerScript(c, n2, Made', K, q)
  BY <1>1, ScriptsGrow DEF Typed, Scripts, Grown
<1>3. Opening(c, n2, q)
  BY <1>2, InOpening
<1>4. Opening(c, n2, Tail(q)) \/ Tail(q) = <<>>
  BY <1>3, OpeningByHead
<1>5. <<>> \o Tail(q) = Tail(q)
  <2>1. CASE Tail(q) = <<>>
    BY <2>1, Tuples
  <2>2. CASE Opening(c, n2, Tail(q))
    <3>1. \E a, b, d, e : Tail(q) \in {<<a>>, <<a, b>>, <<a, b, d>>, <<a, b, d, e>>}
      BY <2>2 DEF Opening, JoinOpening, ResumeOpening, OtherOpening
    <3> QED BY <3>1, Tuples
  <2> QED BY <1>4, <2>1, <2>2
<1>6. HandlerScript(c, n2, Made', K, Tail(q))
  <2>1. <<>> \in Seq(HandlerSteps(c, n2, Made', K)) /\ Linked(<<>>, Made')
    BY EmptySeq DEF Linked
  <2> QED BY <1>4, <2>1 DEF HandlerScript
<1>7. script' = [script EXCEPT ![c] = Tail(q)]
  BY <1>5 DEF Continue
<1> QED BY <1>6, <1>7, HandlerRewritten DEF Typed

\* Removing the sender of a closed connection keeps everything typed.
LEMMA UnregisterTyped ==
  ASSUME NEW K, NEW K2, K2 = K \cup Current', Typed(K), NEW c \in Clients, Unregister(c)
  PROVE  Typed(K2)'
<1>1. /\ UNCHANGED <<matchVars, roomVars, told>>
      /\ script[c] # <<>> /\ Head(script[c]).do = "unregister" /\ Continue(c, <<>>)
  BY DEF Unregister, At
<1>2. Links'
  BY DEF Unregister, Typed, Links
<1>3. Scripts(K)'
  BY <1>1, GrownAnyway, OpeningGoesOn
<1> QED BY <1>1, <1>2, <1>3, LinksOnly

\* Binding a wallet to a connection keeps everything typed.
LEMMA BindTyped ==
  ASSUME NEW K, NEW K2, K2 = K \cup Current', Typed(K), NEW c \in Clients, Bind(c)
  PROVE  Typed(K2)'
<1>1. /\ UNCHANGED <<matchVars, roomVars, told>>
      /\ script[c] # <<>> /\ Head(script[c]).do = "bind" /\ Continue(c, <<>>)
  BY DEF Bind, At
<1>2. Links'
  BY DEF Bind, Typed, Links
<1>3. Scripts(K)'
  BY <1>1, GrownAnyway, OpeningGoesOn
<1> QED BY <1>1, <1>2, <1>3, LinksOnly

\* Dropping a closed connection from every room keeps everything typed.
LEMMA UnsubscribeTyped ==
  ASSUME NEW K, NEW K2, K2 = K \cup Current', Typed(K), NEW c \in Clients, Unsubscribe(c)
  PROVE  Typed(K2)'
<1>1. /\ UNCHANGED <<linkVars, matchVars, observers, told>>
      /\ rooms' = [r \in Rooms |-> [rooms[r] EXCEPT !.subscribers = @ \ {c}]]
      /\ script[c] # <<>> /\ Head(script[c]).do = "unsubscribe" /\ Continue(c, <<>>)
  BY DEF Unsubscribe, At
<1>2. rooms \in [Rooms -> RoomEntries]
  BY DEF Typed, RoomMap
<1>3. ASSUME NEW r \in Rooms
      PROVE  /\ rooms'[r] \in RoomEntries
             /\ rooms'[r].phase = rooms[r].phase /\ rooms'[r].stamp = rooms[r].stamp
  <2>1. rooms[r].subscribers \ {c} \in FiniteSubsets(Clients)
    BY <1>2, FS_RemoveElement DEF RoomEntries, FiniteSubsets
  <2> QED BY <1>1, <1>2, <2>1 DEF RoomEntries
<1>4. rooms' \in [Rooms -> RoomEntries']
  BY <1>1, <1>3 DEF RoomEntries, matchVars
<1>5. Made' = Made /\ Current' = Current
  BY <1>3 DEF Made, Current, RoomState
<1>6. K2 = K
  BY <1>5 DEF Typed, Announced
<1>7. Links' /\ Matchmaker'
  BY <1>1 DEF Typed, Links, Matchmaker, Tickets, Matches, Sessions, linkVars, matchVars
<1>8. RoomMap'
  BY <1>1, <1>4, <1>5 DEF Typed, RoomMap
<1>9. Scripts(K)'
  <2>1. Grown(K, K)
    BY <1>1, <1>5, LenProperties DEF Typed, Matchmaker, Grown, matchVars
  <2> QED BY <1>1, <2>1, OpeningGoesOn
<1>10. Announced(K2)'
  BY <1>1, <1>5, <1>6 DEF Typed, Announced
<1> QED BY <1>6, <1>7, <1>8, <1>9, <1>10 DEF Typed

\* A message is received: the script is one with which handlers begin.
LEMMA ReceiveTyped ==
  ASSUME NEW K, NEW K2, K2 = K \cup Current', Typed(K), NEW c \in Clients,
         NEW kind, NEW steps, Receive(c, kind, steps),
         HandlerScript(c, Len(matches), Made, K, steps)
  PROVE  Typed(K2)'
<1>1. /\ UNCHANGED <<linkVars, matchVars, roomVars, told>>
      /\ script' = [script EXCEPT ![c] = steps]
  BY DEF Receive, Finish
<1>2. /\ K2 = K
      /\ Made' = Made
      /\ Grown(K, K2)
  BY <1>1, MapsStay
<1>3. HandlerScript(c, Len(matches'), Made', K, steps)
  BY <1>1, <1>2 DEF matchVars
<1>4. Scripts(K)'
  BY <1>1, <1>2, <1>3, HandlerRewritten DEF Typed
<1> QED BY <1>1, <1>4, OnlyScript

\* Every request a client may send starts its handler on an opening.
LEMMA RequestTyped ==
  ASSUME NEW K, NEW K2, K2 = K \cup Current', Typed(K), NEW c \in Clients, Request(c)
  PROVE  Typed(K2)'
<1> PICK n \in Nat : n = Len(matches) /\ DOMAIN matches = 1..n
  BY LenProperties DEF Typed, Matchmaker
<1>1. ASSUME NEW b \in Bets, RequestJoin(c, b) PROVE Typed(K2)'
  <2> DEFINE q == <<BindStep(c), CheckQueueStep(c), CheckMatchesStep(c), EnqueueStep(c, b)>>
  <2>1. HandlerScript(c, Len(matches), Made, K, q)
    BY DEF HandlerScript, Opening, JoinOpening
  <2>2. Receive(c, "join", q)
    BY <1>1 DEF RequestJoin, BindStep, CheckQueueStep, CheckMatchesStep, EnqueueStep
  <2> QED BY <2>1, <2>2, ReceiveTyped
<1>2. ASSUME NEW ticket \in 1..tickets, RequestLeave(c, ticket) PROVE Typed(K2)'
  <2> DEFINE q == <<[do |-> "leave", ticket |-> ticket]>>
  <2>1. ticket \in Nat
    BY DEF Typed, Matchmaker
  <2>2. HandlerScript(c, Len(matches), Made, K, q)
    BY <2>1 DEF HandlerScript, Opening, OtherOpening
  <2>3. Receive(c, "leave", q)
    BY <1>2 DEF RequestLeave
  <2> QED BY <2>2, <2>3, ReceiveTyped
<1>3. ASSUME NEW m \in DOMAIN matches, NEW r \in Rooms, RequestRegister(c, m, r)
      PROVE  Typed(K2)'
  <2> DEFINE q == <<[do |-> "register", match |-> m, room |-> r]>>
  <2>1. HandlerScript(c, Len(matches), Made, K, q)
    BY DEF HandlerScript, Opening, OtherOpening
  <2>2. Receive(c, "register", q)
    BY <1>3 DEF RequestRegister
  <2> QED BY <2>1, <2>2, ReceiveTyped
<1>4. ASSUME NEW r \in Rooms, RequestSubscribe(c, r) PROVE Typed(K2)'
  <2> DEFINE a == [do |-> "subscribe", room |-> r, wallet |-> None]
             b == [do |-> "observe", room |-> r]
             q == <<a, b>>
  <2>1. a \in HandlerSteps(c, n, Made, K) /\ b \in HandlerSteps(c, n, Made, K)
    BY DEF HandlerSteps, Errands
  <2>2. q \in Seq(HandlerSteps(c, n, Made, K))
    BY <2>1
  <2>3. Linked(q, Made)
    BY DEF Linked
  <2>4. HandlerScript(c, Len(matches), Made, K, q)
    BY <2>2, <2>3 DEF HandlerScript
  <2>5. Receive(c, "subscribe", q)
    BY <1>4 DEF RequestSubscribe
  <2> QED BY <2>4, <2>5, ReceiveTyped
<1>5. ASSUME NEW r \in Rooms \cup {None}, NEW m \in 0..Len(matches), RequestResume(c, r, m)
      PROVE  Typed(K2)'
  <2> DEFINE a == [do |-> "resume", wallet |-> WalletOf[c], room |-> r, match |-> m]
             q == <<BindStep(c), a>>
             kind == IF r = None /\ m = 0 THEN "resume" ELSE "resume_named"
  <2>1. a \in ResumeSteps(c, n)
    BY DEF ResumeSteps
  <2>2. HandlerScript(c, Len(matches), Made, K, q)
    BY <2>1 DEF HandlerScript, Opening, ResumeOpening
  <2>3. Receive(c, kind, q)
    BY <1>5 DEF RequestResume, BindStep
  <2> QED BY <2>2, <2>3, ReceiveTyped
<1> QED BY <1>1, <1>2, <1>3, <1>4, <1>5 DEF Request

-----------------------------------------------------------------------------
(***************************************************************************)
(* The matchmaker.                                                         *)
(***************************************************************************)

\* Sending an answer is all that is left.
LEMMA AnswerAlone ==
  ASSUME NEW c \in Clients, NEW n \in Nat, NEW R, NEW K, NEW message \in Notices \cup K
  PROVE  HandlerScript(c, n, R, K, <<Tell(c, message)>>)
<1>1. Tell(c, message) \in Deliveries(K)
  BY DEF Tell, Deliveries
<1>2. <<Tell(c, message)>> \in Seq(Deliveries(K))
  BY <1>1
<1> QED BY <1>2, DeliveriesLinked DEF HandlerScript

\* The two checks.
LEMMA CheckTyped ==
  ASSUME NEW K, NEW K2, K2 = K \cup Current', Typed(K), NEW c \in Clients,
         CheckQueue(c) \/ CheckMatches(c)
  PROVE  Typed(K2)'
<1>1. /\ UNCHANGED <<linkVars, matchVars, roomVars, told>>
      /\ script[c] # <<>> /\ Head(script[c]).do \in {"check_queue", "check_matches"}
      /\ \/ Continue(c, <<>>)
         \/ \E code \in ErrorCodes : Finish(c, <<Tell(c, Error(code))>>)
  BY DEF CheckQueue, CheckMatches, At, ErrorCodes
<1>2. /\ K2 = K
      /\ Made' = Made
      /\ Grown(K, K)
  BY <1>1, MapsStay
<1>3. ASSUME NEW code \in ErrorCodes, Finish(c, <<Tell(c, Error(code))>>) PROVE Scripts(K)'
  <2>1. Error(code) \in Notices
    BY DEF Error, Notices
  <2>2. HandlerScript(c, Len(matches'), Made', K, <<Tell(c, Error(code))>>)
    BY <1>2, <2>1, AnswerAlone DEF Grown
  <2> QED BY <1>2, <1>3, <2>2, HandlerRewritten DEF Typed, Finish
<1>4. Scripts(K)'
  BY <1>1, <1>2, <1>3, OpeningGoesOn
<1> QED BY <1>1, <1>4, OnlyScript

\* The handler of a join that reaches the queue has nothing else to do.
LEMMA AtEnqueue ==
  ASSUME NEW K, Typed(K), NEW c \in Clients, At(c, "enqueue")
  PROVE  /\ \E b \in Bets : Head(script[c]) = EnqueueStep(c, b)
         /\ Tail(script[c]) = <<>>
<1> PICK n \in Nat : n = Len(matches)
  BY LenProperties DEF Typed, Matchmaker
<1> PICK q : q = script[c]
  OBVIOUS
<1>1. HandlerScript(c, n, Made, K, q) /\ q # <<>> /\ Head(q).do = "enqueue"
  BY DEF Typed, Scripts, At
<1>2. Opening(c, n, q)
  BY <1>1, InOpening
<1> QED BY <1>1, <1>2, OpeningByHead

\* The handler goes on with errands and deliveries only.
LEMMA HandlerProceeds ==
  ASSUME NEW K, NEW K2, Typed(K), Grown(K, K2), NEW c \in Clients, NEW new,
         new \in Seq(HandlerSteps(c, Len(matches'), Made', K2)), Linked(new, Made'),
         script' = [script EXCEPT ![c] = new]
  PROVE  Scripts(K2)'
<1>1. HandlerScript(c, Len(matches'), Made', K2, new)
  BY DEF HandlerScript
<1> QED BY <1>1, HandlerRewritten DEF Typed

\* With the rooms nothing is announced that was not before.
LEMMA RoomsStay ==
  ASSUME NEW K, NEW K2, K2 = K \cup Current', Typed(K),
         UNCHANGED <<linkVars, roomVars, told>>,
         Len(matches) \in Nat, Len(matches') \in Nat, Len(matches) <= Len(matches'),
         Matchmaker'
  PROVE  /\ K2 = K /\ Made' = Made /\ Grown(K, K2)
         /\ Scripts(K)' => Typed(K2)'
<1>1. Made' = Made /\ Current' = Current
  BY DEF roomVars, Made, Current
<1>2. K2 = K
  BY <1>1 DEF Typed, Announced
<1>3. Grown(K, K2)
  BY <1>1, <1>2 DEF Grown
<1>4. Links'
  BY DEF Typed, Links, linkVars
<1>5. RoomMap'
  <2>1. RoomEntries \subseteq RoomEntries'
    <3>1. 0..Len(matches) \subseteq 0..Len(matches')
      OBVIOUS
    <3> QED BY <3>1 DEF RoomEntries
  <2>2. rooms' = rooms /\ observers' = observers
    BY DEF roomVars
  <2> QED BY <1>1, <2>1, <2>2 DEF Typed, RoomMap
<1>6. Announced(K2)'
  BY <1>1, <1>2 DEF Typed, Announced
<1> QED BY <1>1, <1>2, <1>3, <1>4, <1>5, <1>6 DEF Typed

\* A join that finds nobody waiting keeps everything typed.
LEMMA WaitTyped ==
  ASSUME NEW K, NEW K2, K2 = K \cup Current', Typed(K), NEW c \in Clients, Wait(c)
  PROVE  Typed(K2)'
<1> PICK ticket : ticket = tickets + 1
  OBVIOUS
<1> PICK n \in Nat : n = Len(matches)
  BY LenProperties DEF Typed, Matchmaker
<1>1. PICK b \in Bets : Head(script[c]) = EnqueueStep(c, b) /\ Tail(script[c]) = <<>>
  BY AtEnqueue DEF Wait
<1> DEFINE entry == [ticket |-> ticket, wallet |-> WalletOf[c]]
           new == <<Tell(c, QueueJoined(ticket))>>
<1>2. /\ queue[b] = <<>>
      /\ queue' = [queue EXCEPT ![b] = Append(@, entry)]
      /\ sessions' = [sessions EXCEPT ![WalletOf[c]].ticket = ticket]
      /\ tickets' = ticket
      /\ script' = [script EXCEPT ![c] = new \o Tail(script[c])]
      /\ UNCHANGED <<linkVars, matches, roomVars, told>>
  <2>1. Head(script[c]).wallet = WalletOf[c] /\ Head(script[c]).bet = b
    BY <1>1 DEF EnqueueStep
  <2> QED BY <2>1 DEF Wait, Continue
<1>3. tickets \in Nat /\ ticket \in Nat /\ 1..tickets \subseteq 1..ticket /\ 0..tickets \subseteq 0..ticket
      /\ ticket \in 1..ticket /\ ticket \in 0..ticket
  BY DEF Typed, Matchmaker
<1>4. WalletOf[c] \in Wallets
  BY RelayAssumption
<1>5. Tickets \subseteq Tickets' /\ entry \in Tickets'
  BY <1>2, <1>3, <1>4 DEF Tickets
<1>6. \A d \in Bets : queue'[d] \in Seq(Tickets') /\ Len(queue'[d]) <= 1
  <2> TAKE d \in Bets
  <2>1. queue[d] \in Seq(Tickets) /\ Len(queue[d]) <= 1 /\ queue \in [Bets -> Seq(Tickets)]
    BY DEF Typed, Matchmaker
  <2>2. CASE d = b
    <3>1. queue'[d] = Append(<<>>, entry)
      BY <1>2, <2>1, <2>2
    <3>2. <<>> \in Seq(Tickets') /\ Len(<<>>) = 0
      BY EmptySeq
    <3>3. queue'[d] \in Seq(Tickets') /\ Len(queue'[d]) = 0 + 1
      BY <1>5, <3>1, <3>2, AppendProperties
    <3> QED BY <3>3
  <2>3. CASE d # b
    <3>1. queue'[d] = queue[d]
      BY <1>2, <2>1, <2>3
    <3> QED BY <1>5, <2>1, <3>1, SeqMonotonic
  <2> QED BY <2>2, <2>3
<1>7. queue' \in [Bets -> Seq(Tickets')]
  BY <1>2, <1>6 DEF Typed, Matchmaker
<1>8. sessions' \in [Wallets -> Sessions']
  BY <1>2, <1>3, <1>4 DEF Typed, Matchmaker, Sessions
<1>9. Matchmaker'
  BY <1>2, <1>3, <1>6, <1>7, <1>8 DEF Typed, Matchmaker, Matches
<1>10. /\ K2 = K /\ Made' = Made /\ Grown(K, K2)
       /\ Scripts(K)' => Typed(K2)'
  <2>1. Len(matches') = n /\ UNCHANGED <<linkVars, roomVars, told>>
    BY <1>2
  <2>2. Len(matches) \in Nat /\ Len(matches') \in Nat /\ Len(matches) <= Len(matches')
    BY <2>1
  <2> QED BY <1>9, <2>1, <2>2, RoomsStay
<1>11. Scripts(K)'
  <2>1. Tell(c, QueueJoined(ticket)) \in Deliveries(K)
    BY <1>3 DEF Tell, QueueJoined, Deliveries, Notices
  <2>2. new \in Seq(Deliveries(K))
    BY <2>1
  <2>3. new \in Seq(HandlerSteps(c, n, Made', K)) /\ Linked(new, Made')
    BY <2>2, DeliveriesLinked
  <2>4. script' = [script EXCEPT ![c] = new]
    BY <1>1, <1>2, <2>2, ConcatEmptySeq
  <2> QED BY <1>2, <1>10, <2>3, <2>4, HandlerProceeds
<1> QED BY <1>10, <1>11

\* A join that finds somebody waiting keeps everything typed.
LEMMA PairTyped ==
  ASSUME NEW K, NEW K2, K2 = K \cup Current', Typed(K), NEW c \in Clients, Pair(c)
  PROVE  Typed(K2)'
<1> PICK ticket : ticket = tickets + 1
  OBVIOUS
<1> PICK n \in Nat : n = Len(matches)
  BY LenProperties DEF Typed, Matchmaker
<1>1. PICK b \in Bets : Head(script[c]) = EnqueueStep(c, b) /\ Tail(script[c]) = <<>>
  BY AtEnqueue DEF Pair
<1> DEFINE m == n + 1
           creator == Head(queue[b]).wallet
           joiner == WalletOf[c]
           match == [creator |-> creator, joiner |-> joiner, bet |-> b,
                     room |-> None, state |-> "AwaitingRoomCreation"]
           t1 == Tell(c, QueueJoined(ticket))
           t2 == TellWallet(creator, MatchFound(m))
           t3 == TellWallet(joiner, MatchFound(m))
           t4 == [do |-> "spawn_timer", match |-> m]
           new == <<t1, t2, t3, t4>>
<1>2. /\ n < MaxMatches
      /\ queue[b] # <<>>
      /\ queue' = [queue EXCEPT ![b] = Tail(@)]
      /\ matches' = Append(matches, match)
      /\ sessions' = [w \in Wallets |->
           IF w \in {creator, joiner}
             THEN [sessions[w] EXCEPT !.ticket = 0, !.match = m]
             ELSE sessions[w]]
      /\ tickets' = ticket
      /\ script' = [script EXCEPT ![c] = new \o Tail(script[c])]
      /\ UNCHANGED <<linkVars, roomVars, told>>
  <2>1. Head(script[c]).wallet = WalletOf[c] /\ Head(script[c]).bet = b
    BY <1>1 DEF EnqueueStep
  <2> QED BY <2>1 DEF Pair, Continue
<1>3. tickets \in Nat /\ ticket \in Nat /\ 1..tickets \subseteq 1..ticket /\ 0..tickets \subseteq 0..ticket
      /\ 0 \in 0..ticket
  BY DEF Typed, Matchmaker
<1>4. queue[b] \in Seq(Tickets) /\ Len(queue[b]) <= 1 /\ queue \in [Bets -> Seq(Tickets)]
  BY DEF Typed, Matchmaker
<1>5. creator \in Wallets /\ joiner \in Wallets
  <2>1. Head(queue[b]) \in Tickets
    BY <1>2, <1>4, HeadTailProperties
  <2> QED BY <2>1, RelayAssumption DEF Tickets
<1>6. Tickets \subseteq Tickets'
  BY <1>2, <1>3 DEF Tickets
<1>7. \A d \in Bets : queue'[d] \in Seq(Tickets') /\ Len(queue'[d]) <= 1
  <2> TAKE d \in Bets
  <2>1. queue[d] \in Seq(Tickets) /\ Len(queue[d]) <= 1
    BY DEF Typed, Matchmaker
  <2>2. CASE d = b
    <3>1. queue'[d] = <<>>
      BY <1>2, <1>4, <2>2, TailOfOnly
    <3> QED BY <3>1, EmptySeq
  <2>3. CASE d # b
    <3>1. queue'[d] = queue[d]
      BY <1>2, <1>4, <2>3
    <3> QED BY <1>6, <2>1, <3>1, SeqMonotonic
  <2> QED BY <2>2, <2>3
<1>8. queue' \in [Bets -> Seq(Tickets')]
  BY <1>2, <1>4, <1>7
<1>9. match \in Matches
  BY <1>5 DEF Matches, MatchStates
<1>10. matches' \in Seq(Matches) /\ Len(matches') = m
  BY <1>2, <1>9, AppendProperties DEF Typed, Matchmaker
<1>11. m \in Nat /\ m <= MaxMatches /\ 0..n \subseteq 0..m /\ m \in 0..m /\ n <= m
  <2>1. n < MaxMatches /\ MaxMatches \in Nat
    BY <1>2, RelayAssumption
  <2> QED BY <2>1
<1>12. sessions' \in [Wallets -> Sessions']
  <2>1. ASSUME NEW w \in Wallets PROVE sessions'[w] \in Sessions'
    <3>1. sessions[w] \in [ticket : 0..tickets, match : 0..n, room : Rooms \cup {None}]
      BY DEF Typed, Matchmaker, Sessions
    <3>2. sessions[w] \in [ticket : 0..ticket, match : 0..m, room : Rooms \cup {None}]
      BY <1>3, <1>11, <3>1
    <3>3. [sessions[w] EXCEPT !.ticket = 0, !.match = m]
            \in [ticket : 0..ticket, match : 0..m, room : Rooms \cup {None}]
      BY <1>3, <1>11, <3>2
    <3>4. Sessions' = [ticket : 0..ticket, match : 0..m, room : Rooms \cup {None}]
      BY <1>2, <1>10 DEF Sessions
    <3> QED BY <1>2, <3>2, <3>3, <3>4
  <2> QED BY <1>2, <2>1
<1>13. Matchmaker'
  BY <1>2, <1>3, <1>7, <1>8, <1>10, <1>11, <1>12 DEF Matchmaker, Matches
<1>14. /\ K2 = K /\ Made' = Made /\ Grown(K, K2)
       /\ Scripts(K)' => Typed(K2)'
  BY <1>2, <1>10, <1>11, <1>13, RoomsStay
<1>15. Scripts(K)'
  <2> DEFINE S == HandlerSteps(c, m, Made', K)
  <2>1. m \in MatchIds /\ m \in 1..m
    BY <1>11 DEF MatchIds
  <2>2. t1 \in S /\ t2 \in S /\ t3 \in S
    BY <1>3, <1>5, <2>1 DEF Tell, TellWallet, QueueJoined, MatchFound, HandlerSteps, Deliveries, Notices
  <2>3. t4 \in S
    BY <2>1 DEF HandlerSteps, Errands
  <2>4. new \in Seq(S)
    BY <2>2, <2>3
  <2>5. Linked(new, Made')
    BY DEF Linked, Tell, TellWallet
  <2>6. script' = [script EXCEPT ![c] = new]
    BY <1>1, <1>2, <2>4, ConcatEmptySeq
  <2> QED BY <1>10, <1>14, <2>4, <2>5, <2>6, HandlerProceeds
<1> QED BY <1>14, <1>15

\* Starting the timer of a match keeps everything typed.
LEMMA SpawnTimerTyped ==
  ASSUME NEW K, NEW K2, K2 = K \cup Current', Typed(K), NEW c \in Clients, SpawnTimer(c)
  PROVE  Typed(K2)'
<1> DEFINE m == Head(script[c]).match
           q == <<[do |-> "expire", match |-> m]>>
<1> PICK n \in Nat : n = Len(matches)
  BY LenProperties DEF Typed, Matchmaker
<1>1. /\ UNCHANGED <<linkVars, matchVars, roomVars, told>>
      /\ script[c] # <<>> /\ Head(script[c]).do = "spawn_timer"
      /\ script' = [script EXCEPT ![c] = Tail(@), ![m] = q]
  BY DEF SpawnTimer, At
<1>2. Made' = Made /\ Grown(K, K) /\ K2 = K /\ matches' = matches
  BY <1>1, MapsStay DEF matchVars
<1>3. HandlerScript(c, n, Made, K, script[c])
  BY DEF Typed, Scripts
<1>4. script[c] \in Seq(HandlerSteps(c, n, Made, K)) /\ Linked(script[c], Made)
  BY <1>1, <1>3, PastOpening
<1>5. m \in 1..n
  <2>1. Head(script[c]) \in HandlerSteps(c, n, Made, K)
    BY <1>1, <1>4, HeadTailProperties
  <2> QED BY <1>1, <2>1 DEF HandlerSteps, Errands, Deliveries
<1>6. HandlerScript(c, n, Made, K, Tail(script[c]))
  <2>1. <<>> \in Seq(HandlerSteps(c, n, Made, K)) /\ Linked(<<>>, Made)
    BY EmptySeq DEF Linked
  <2> QED BY <1>1, <1>4, <2>1, GoesOn
<1>7. m \in MatchIds /\ m # c /\ m \notin Rooms /\ m \notin Clients /\ c \notin Rooms /\ c \notin MatchIds
  BY <1>5, RelayAssumption DEF Typed, Matchmaker, MatchIds
<1>8. q \in Seq(TimerSteps(m, n))
  <2>1. [do |-> "expire", match |-> m] \in TimerSteps(m, n)
    BY <1>5 DEF TimerSteps
  <2> QED BY <2>1
<1>9. Scripts(K)'
  <2>1. script = [t \in Tasks |-> script[t]] /\ c \in Tasks /\ m \in Tasks
    BY <1>7 DEF Typed, Scripts, Tasks
  <2>2. /\ script'[c] = Tail(script[c])
        /\ script'[m] = q
        /\ \A t \in Tasks \ {c, m} : script'[t] = script[t]
        /\ script' = [t \in Tasks |-> script'[t]]
    BY <1>1, <1>7, <2>1
  <2>3. \A d \in Clients : HandlerScript(d, n, Made, K, script'[d])
    BY <1>6, <1>7, <2>2 DEF Typed, Scripts, Tasks
  <2>4. \A k \in MatchIds : script'[k] \in Seq(TimerSteps(k, n))
    BY <1>7, <1>8, <2>2 DEF Typed, Scripts, Tasks
  <2>5. \A r \in Rooms : script'[r] \in Seq(ObserverSteps(r, Made, K))
    BY <1>7, <2>2 DEF Typed, Scripts, Tasks
  <2> QED BY <1>2, <2>2, <2>3, <2>4, <2>5 DEF Scripts
<1> QED BY <1>1, <1>9, OnlyScript

\* Leaving the queue keeps everything typed, whether the ticket is found or not.
LEMMA LeaveTyped ==
  ASSUME NEW K, NEW K2, K2 = K \cup Current', Typed(K), NEW c \in Clients, Leave(c)
  PROVE  Typed(K2)'
<1> PICK n \in Nat : n = Len(matches)
  BY LenProperties DEF Typed, Matchmaker
<1> DEFINE places == PlacesOf(Head(script[c]).ticket)
<1>1. /\ script[c] # <<>> /\ Head(script[c]).do = "leave"
      /\ UNCHANGED <<linkVars, matches, tickets, roomVars, told>>
  BY DEF Leave, At
<1>2. Tail(script[c]) = <<>>
  <2>1. HandlerScript(c, n, Made, K, script[c])
    BY DEF Typed, Scripts
  <2>2. Opening(c, n, script[c])
    BY <1>1, <2>1, InOpening
  <2> QED BY <1>1, <2>2, OpeningByHead
<1>3. Error("ticket_not_found") \in Notices
  BY DEF Error, Notices, ErrorCodes
<1>4. \E new : /\ new = <<>> \/ new = <<Tell(c, Error("ticket_not_found"))>>
               /\ script' = [script EXCEPT ![c] = new]
  <2>1. Continue(c, <<>>) \/ Continue(c, <<Tell(c, Error("ticket_not_found"))>>)
    BY DEF Leave
  <2>2. <<>> \o <<>> = <<>>
    BY Tuples
  <2>3. <<Tell(c, Error("ticket_not_found"))>> \o <<>> = <<Tell(c, Error("ticket_not_found"))>>
    OBVIOUS
  <2>4. \/ script' = [script EXCEPT ![c] = <<>>]
        \/ script' = [script EXCEPT ![c] = <<Tell(c, Error("ticket_not_found"))>>]
    BY <1>2, <2>1, <2>2, <2>3 DEF Continue
  <2> QED BY <2>4
<1>5. Len(matches') = n /\ Len(matches) \in Nat /\ Len(matches') \in Nat /\ Len(matches) <= Len(matches')
  BY <1>1
<1>6. Matchmaker'
  <2>1. CASE UNCHANGED <<queue, sessions>>
    BY <1>1, <2>1 DEF Typed, Matchmaker, Tickets, Matches, Sessions
  <2>2. CASE \E place \in places :
               LET w == queue[place[1]][place[2]].wallet
               IN  /\ queue' = [queue EXCEPT ![place[1]] = RemoveAt(@, place[2])]
                   /\ sessions' = [sessions EXCEPT ![w].ticket = 0]
    <3>1. PICK place \in places :
                 /\ queue' = [queue EXCEPT ![place[1]] = RemoveAt(@, place[2])]
                 /\ sessions' = [sessions EXCEPT ![queue[place[1]][place[2]].wallet].ticket = 0]
      BY <2>2
    <3>2. place[1] \in Bets /\ place[2] \in DOMAIN queue[place[1]]
      BY DEF PlacesOf, Entries
    <3>3. queue[place[1]] \in Seq(Tickets) /\ Len(queue[place[1]]) <= 1
      BY <3>2 DEF Typed, Matchmaker
    <3>4. queue' = [queue EXCEPT ![place[1]] = <<>>]
      BY <3>1, <3>2, <3>3, RemoveAtOnly
    <3>5. Tickets' = Tickets /\ Sessions' = Sessions
      BY <1>1 DEF Tickets, Sessions
    <3>6. queue' \in [Bets -> Seq(Tickets')] /\ \A b \in Bets : Len(queue'[b]) <= 1
      <4>1. queue \in [Bets -> Seq(Tickets)] /\ \A b \in Bets : Len(queue[b]) <= 1
        BY DEF Typed, Matchmaker
      <4>2. <<>> \in Seq(Tickets) /\ Len(<<>>) = 0
        BY EmptySeq
      <4> QED BY <3>2, <3>4, <3>5, <4>1, <4>2
    <3>7. sessions' \in [Wallets -> Sessions']
      <4>1. sessions \in [Wallets -> Sessions] /\ 0 \in 0..tickets
        BY DEF Typed, Matchmaker
      <4> QED BY <3>1, <3>5, <4>1 DEF Sessions
    <3> QED BY <1>1, <3>6, <3>7 DEF Typed, Matchmaker, Matches
  <2> QED BY <2>1, <2>2 DEF Leave
<1>7. /\ K2 = K /\ Made' = Made /\ Grown(K, K2)
      /\ Scripts(K)' => Typed(K2)'
  BY <1>1, <1>5, <1>6, RoomsStay
<1>8. Scripts(K)'
  <2>1. PICK new : /\ new = <<>> \/ new = <<Tell(c, Error("ticket_not_found"))>>
                   /\ script' = [script EXCEPT ![c] = new]
    BY <1>4
  <2>2. <<>> \in Seq(Deliveries(K)) /\ Tell(c, Error("ticket_not_found")) \in Deliveries(K)
    BY <1>3, EmptySeq DEF Tell, Deliveries
  <2>3. new \in Seq(Deliveries(K))
    <3>1. <<Tell(c, Error("ticket_not_found"))>> \in Seq(Deliveries(K))
      BY <2>2
    <3> QED BY <2>1, <2>2, <3>1
  <2>4. new \in Seq(HandlerSteps(c, n, Made', K)) /\ Linked(new, Made')
    BY <2>3, DeliveriesLinked
  <2> QED BY <1>5, <1>7, <2>1, <2>4, HandlerProceeds
<1> QED BY <1>7, <1>8

\* The timer of a match, in time or too late, keeps everything typed.
LEMMA ExpireTyped ==
  ASSUME NEW K, NEW K2, K2 = K \cup Current', Typed(K), NEW m \in MatchIds, Expire(m)
  PROVE  Typed(K2)'
<1> PICK n \in Nat : n = Len(matches)
  BY LenProperties DEF Typed, Matchmaker
<1> DEFINE t1 == TellWallet(matches[m].creator, Error("match_expired"))
           t2 == TellWallet(matches[m].joiner, Error("match_expired"))
<1>1. /\ script[m] # <<>> /\ Head(script[m]).do = "expire"
      /\ UNCHANGED <<linkVars, queue, sessions, tickets, roomVars, told>>
      /\ \/ Continue(m, <<>>) /\ UNCHANGED matches
         \/ Continue(m, <<t1, t2>>) /\ matches' = [matches EXCEPT ![m].state = "Expired"]
  BY DEF Expire, At
<1>2. m \in 1..n /\ matches \in Seq(Matches) /\ matches[m] \in Matches
  <2>1. Head(script[m]) \in TimerSteps(m, n)
    BY <1>1, HeadTailProperties DEF Typed, Scripts
  <2>2. m \in 1..n
    BY <1>1, <2>1 DEF TimerSteps
  <2>3. matches \in Seq(Matches)
    BY DEF Typed, Matchmaker
  <2> QED BY <2>2, <2>3, ElementOfSeq
<1>3. matches' \in Seq(Matches) /\ Len(matches') = n
  <2>1. CASE UNCHANGED matches
    BY <1>2, <2>1
  <2>2. CASE matches' = [matches EXCEPT ![m].state = "Expired"]
    <3> DEFINE e == [matches[m] EXCEPT !.state = "Expired"]
    <3>1. e \in Matches
      BY <1>2 DEF Matches, MatchStates
    <3>2. matches' = [matches EXCEPT ![m] = e]
      BY <2>2
    <3> HIDE DEF e
    <3> QED BY <1>2, <3>1, <3>2, ExceptSeq
  <2> QED BY <1>1, <2>1, <2>2
<1>4. Matchmaker'
  BY <1>1, <1>3 DEF Typed, Matchmaker, Tickets, Matches, Sessions
<1>5. Len(matches) \in Nat /\ Len(matches') \in Nat /\ Len(matches) <= Len(matches')
  BY <1>3
<1>6. /\ K2 = K /\ Made' = Made /\ Grown(K, K2)
      /\ Scripts(K)' => Typed(K2)'
  BY <1>1, <1>4, <1>5, RoomsStay
<1>7. Scripts(K)'
  <2>1. t1 \in TimerSteps(m, n) /\ t2 \in TimerSteps(m, n)
    BY <1>2 DEF TellWallet, TimerSteps, Matches
  <2>2. <<>> \in Seq(TimerSteps(m, n)) /\ <<t1, t2>> \in Seq(TimerSteps(m, n))
    BY <2>1, EmptySeq
  <2> HIDE DEF t1, t2
  <2> QED BY <1>1, <1>3, <1>6, <2>2, TimerGoesOn
<1> QED BY <1>6, <1>7

\* The entry of a room is made or changed.
LEMMA RoomWritten ==
  ASSUME NEW K, NEW K2, K2 = K \cup Current', Typed(K),
         Len(matches') = Len(matches), Matchmaker',
         UNCHANGED <<linkVars, told>>, observers' \subseteq Made',
         NEW r \in Rooms, NEW entry \in RoomEntries, entry.phase \in RoomPhases,
         rooms' = [rooms EXCEPT ![r] = entry]
  PROVE  /\ Made' = Made \cup {r}
         /\ RoomState(r, entry) \in K2
         /\ Grown(K, K2)
         /\ Scripts(K2)' => Typed(K2)'
<1>1. rooms \in [Rooms -> RoomEntries]
  BY DEF Typed, RoomMap
<1>2. rooms'[r] = entry /\ \A s \in Rooms \ {r} : rooms'[s] = rooms[s]
  BY <1>1
<1>3. Made' = Made \cup {r}
  BY <1>2 DEF Made
<1>4. RoomState(r, entry) \in K2
  BY <1>2, <1>3 DEF Current
<1>5. Len(matches) \in Nat
  BY LenProperties DEF Typed, Matchmaker
<1>6. Grown(K, K2)
  BY <1>3, <1>5 DEF Grown
<1>7. RoomMap'
  <2>1. RoomEntries' = RoomEntries
    BY DEF RoomEntries
  <2> QED BY <1>1, <2>1 DEF RoomMap
<1>8. Links'
  BY DEF Typed, Links, linkVars
<1>9. Announced(K2)'
  <2>1. K \subseteq RoomStates /\ told \in [Clients -> SUBSET (Notices \cup K)]
    BY DEF Typed, Announced
  <2>2. ASSUME NEW s \in Made' PROVE RoomState(s, rooms'[s]) \in RoomStates
    <3>1. s \in Rooms /\ rooms'[s] \in RoomEntries /\ rooms'[s].phase \in RoomPhases
      BY <1>1, <1>2, <2>2 DEF Made
    <3> QED BY <3>1 DEF RoomState, RoomStates, RoomEntries
  <2>3. Current' \subseteq RoomStates
    BY <2>2 DEF Current
  <2> QED BY <2>1, <2>3 DEF Announced
<1> QED BY <1>3, <1>4, <1>6, <1>7, <1>8, <1>9 DEF Typed

\* The handler of a registration speaks of a match there is, and of nothing
\* after it.
LEMMA AtRegister ==
  ASSUME NEW K, Typed(K), NEW c \in Clients, At(c, "register")
  PROVE  /\ Head(script[c]).match \in DOMAIN matches
         /\ Head(script[c]).room \in Rooms
         /\ Tail(script[c]) = <<>>
<1> PICK n \in Nat : n = Len(matches) /\ DOMAIN matches = 1..n
  BY LenProperties DEF Typed, Matchmaker
<1> PICK q : q = script[c]
  OBVIOUS
<1>1. HandlerScript(c, n, Made, K, q) /\ q # <<>> /\ Head(q).do = "register"
  BY DEF Typed, Scripts, At
<1>2. Opening(c, n, q)
  BY <1>1, InOpening
<1>3. PICK m \in 1..n, r \in Rooms :
        Head(q) = [do |-> "register", match |-> m, room |-> r] /\ Tail(q) = <<>>
  BY <1>1, <1>2, OpeningByHead
<1> QED BY <1>3

\* Registering a room for a match, or being refused, keeps everything typed.
LEMMA RegisterTyped ==
  ASSUME NEW K, NEW K2, K2 = K \cup Current', Typed(K), NEW c \in Clients, Register(c)
  PROVE  Typed(K2)'
<1> PICK n \in Nat : n = Len(matches) /\ DOMAIN matches = 1..n
  BY LenProperties DEF Typed, Matchmaker
<1> PICK m : m = Head(script[c]).match
  OBVIOUS
<1> PICK r : r = Head(script[c]).room
  OBVIOUS
<1>1. m \in 1..n /\ r \in Rooms /\ Tail(script[c]) = <<>>
  BY AtRegister DEF Register
<1>2. matches \in Seq(Matches) /\ matches[m] \in Matches
  BY <1>1, ElementOfSeq DEF Typed, Matchmaker
<1>3. UNCHANGED <<linkVars, queue, tickets, observers, told>>
  BY DEF Register
<1>4. CASE ~Active(matches[m])
  <2>1. PICK code \in ErrorCodes : Finish(c, <<Tell(c, Error(code))>>)
    BY <1>4 DEF Register, ErrorCodes
  <2>2. UNCHANGED <<matchVars, roomVars>>
    BY <1>3, <1>4 DEF Register, matchVars, roomVars
  <2>3. K2 = K /\ Made' = Made /\ Grown(K, K)
    BY <1>3, <2>2, MapsStay
  <2>4. Error(code) \in Notices
    BY DEF Error, Notices
  <2>5. HandlerScript(c, Len(matches'), Made', K, <<Tell(c, Error(code))>>)
    BY <2>3, <2>4, AnswerAlone DEF Grown
  <2>6. Scripts(K)'
    BY <2>1, <2>3, <2>5, HandlerRewritten DEF Typed, Finish
  <2> QED BY <1>3, <2>2, <2>6, OnlyScript
<1>5. CASE Active(matches[m])
  <2> PICK tick \in Ticks : rooms' = [rooms EXCEPT ![r] = RegisteredRoom(r, m, tick)]
    BY <1>5 DEF Register
  <2> DEFINE entry == RegisteredRoom(r, m, tick)
             t1 == TellWallet(matches[m].joiner, RoomReady(m, r))
             t2 == [do |-> "observe", room |-> r]
             t3 == [do |-> "snapshot", room |-> r]
             new == <<t1, t2, t3>>
             match == [matches[m] EXCEPT !.room = r, !.state = "RoomReady"]
  <2>1. /\ matches' = [matches EXCEPT ![m].room = r, ![m].state = "RoomReady"]
        /\ rooms' = [rooms EXCEPT ![r] = entry]
        /\ sessions' = [w \in Wallets |->
             IF w \in PlayersOf(matches[m]) THEN [sessions[w] EXCEPT !.room = r]
                                            ELSE sessions[w]]
        /\ script' = [script EXCEPT ![c] = new \o Tail(script[c])]
    BY <1>5 DEF Register, Continue
  <2>2. match \in Matches
    BY <1>1, <1>2 DEF Matches, MatchStates
  <2>3. matches' = [matches EXCEPT ![m] = match]
    BY <1>1, <1>2, <2>1
  <2>4. matches' \in Seq(Matches) /\ Len(matches') = n
    <3> HIDE DEF match
    <3> QED BY <1>1, <1>2, <2>2, <2>3, ExceptSeq
  <2>5. sessions' \in [Wallets -> Sessions']
    <3>1. Sessions' = Sessions
      BY <1>3, <2>4 DEF Sessions
    <3>2. ASSUME NEW w \in Wallets PROVE sessions'[w] \in Sessions
      <4>1. sessions[w] \in Sessions
        BY DEF Typed, Matchmaker
      <4>2. [sessions[w] EXCEPT !.room = r] \in Sessions
        BY <1>1, <4>1 DEF Sessions
      <4> QED BY <2>1, <4>1, <4>2
    <3> QED BY <2>1, <3>1, <3>2
  <2>6. Matchmaker'
    BY <1>3, <2>4, <2>5 DEF Typed, Matchmaker, Tickets, Matches
  <2>7. entry \in RoomEntries /\ entry.phase \in RoomPhases
    <3>1. rooms[r] \in RoomEntries
      BY <1>1 DEF Typed, RoomMap
    <3>2. rooms[r].wallets \cup PlayersOf(matches[m]) \in FiniteSubsets(Wallets)
      <4>1. IsFiniteSet({matches[m].creator}) /\ IsFiniteSet({matches[m].joiner})
        BY FS_Singleton
      <4>2. IsFiniteSet(PlayersOf(matches[m]))
        <5>1. PlayersOf(matches[m]) = {matches[m].creator} \cup {matches[m].joiner}
          BY DEF PlayersOf
        <5>2. IsFiniteSet({matches[m].creator} \cup {matches[m].joiner})
          BY <4>1, FS_Union
        <5> QED BY <5>1, <5>2
      <4>3. PlayersOf(matches[m]) \subseteq Wallets
        BY <1>2 DEF PlayersOf, Matches
      <4>4. rooms[r].wallets \in FiniteSubsets(Wallets)
        BY <3>1 DEF RoomEntries
      <4> QED BY <4>2, <4>3, <4>4, FS_Union DEF FiniteSubsets
    <3>3. m \in 0..Len(matches') /\ Len(matches') = Len(matches)
      BY <1>1, <2>4
    <3>4. PICK old \in RoomEntries : old = rooms[r]
      BY <3>1
    <3>5. PICK wallets \in FiniteSubsets(Wallets) :
            wallets = old.wallets \cup PlayersOf(matches[m])
      BY <3>2, <3>4
    <3>6. entry = [old EXCEPT !.match = m, !.wallets = wallets,
                              !.phase = "waiting_for_player", !.stamp = old.stamp + tick]
      BY <3>4, <3>5 DEF RegisteredRoom
    <3>7. m \in 0..Len(matches) /\ "waiting_for_player" \in RoomPhases
      BY <3>3 DEF RoomPhases
    <3>8. old.stamp + tick \in Int /\ old.subscribers \in FiniteSubsets(Clients)
          /\ old.hash \in Reports \cup {None}
      BY RelayAssumption DEF RoomEntries
    <3>9. entry = [phase |-> "waiting_for_player", match |-> m, wallets |-> wallets,
                   subscribers |-> old.subscribers, stamp |-> old.stamp + tick,
                   hash |-> old.hash]
      BY <3>6 DEF RoomEntries
    <3> HIDE DEF entry
    <3> QED BY <3>7, <3>8, <3>9 DEF RoomEntries
  <2>8. observers' \subseteq Made'
    <3>1. Made \subseteq Made'
      BY <1>1, <2>1, <2>7 DEF Typed, RoomMap, Made
    <3> QED BY <1>3, <3>1 DEF Typed, RoomMap
  <2>9. /\ Made' = Made \cup {r}
        /\ Grown(K, K2)
        /\ Scripts(K2)' => Typed(K2)'
    <3> HIDE DEF entry
    <3>1. UNCHANGED <<linkVars, told>>
      BY <1>3
    <3>2. Len(matches') = Len(matches)
      BY <2>4
    <3> QED BY <1>1, <2>1, <2>6, <2>7, <2>8, <3>1, <3>2, RoomWritten
  <2>10. Scripts(K2)'
    <3> DEFINE S == HandlerSteps(c, n, Made', K2)
    <3>1. m \in MatchIds
      BY <1>1, RelayAssumption DEF MatchIds, Typed, Matchmaker
    <3>2. t1 \in S
      BY <1>1, <1>2, <3>1 DEF TellWallet, RoomReady, Notices, Matches, HandlerSteps, Deliveries
    <3>3. t2 \in S /\ t3 \in S
      BY <1>1, <2>9 DEF HandlerSteps, Errands
    <3>4. new \in Seq(S)
      BY <3>2, <3>3
    <3>5. Linked(new, Made')
      BY <2>9 DEF Linked, TellWallet
    <3>6. script' = [script EXCEPT ![c] = new]
      BY <1>1, <2>1, <3>4, ConcatEmptySeq
    <3> QED BY <2>4, <2>9, <3>4, <3>5, <3>6, HandlerProceeds
  <2> QED BY <2>9, <2>10
<1> QED BY <1>4, <1>5

-----------------------------------------------------------------------------
(***************************************************************************)
(* Errands: steps past the opening of a handler.                           *)
(***************************************************************************)

ErrandKinds == {"observe", "snapshot", "find_ticket", "find_match", "subscribe"}

\* The next errand is one of this kind.
LEMMA AtErrand ==
  ASSUME NEW K, Typed(K), NEW c \in Clients, script[c] # <<>>,
         Head(script[c]).do \in ErrandKinds
  PROVE  /\ Head(script[c]) \in Errands(c, Len(matches), Made)
         /\ script[c] \in Seq(HandlerSteps(c, Len(matches), Made, K))
         /\ Linked(script[c], Made)
<1> PICK n \in Nat : n = Len(matches)
  BY LenProperties DEF Typed, Matchmaker
<1>1. HandlerScript(c, n, Made, K, script[c])
  BY DEF Typed, Scripts
<1>2. script[c] \in Seq(HandlerSteps(c, n, Made, K)) /\ Linked(script[c], Made)
  BY <1>1, PastOpening DEF ErrandKinds
<1>3. Head(script[c]) \in HandlerSteps(c, n, Made, K)
  BY <1>2, HeadTailProperties
<1>4. Head(script[c]) \in Errands(c, n, Made)
  BY <1>3 DEF HandlerSteps, Deliveries, ErrandKinds
<1> QED BY <1>2, <1>4

\* An errand gives way to other steps.
LEMMA ErrandGoesOn ==
  ASSUME NEW K, NEW K2, Typed(K), Grown(K, K2), NEW c \in Clients, script[c] # <<>>,
         Head(script[c]).do \in ErrandKinds,
         Head(script[c]).do = "subscribe" => Head(script[c]).room \in Made',
         NEW new, new \in Seq(HandlerSteps(c, Len(matches'), Made', K2)),
         Linked(new, Made'),
         Continue(c, new) \/ ContinueAndAnswer(c, new)
  PROVE  Scripts(K2)'
<1> PICK n \in Nat : n = Len(matches)
  BY DEF Grown
<1> PICK n2 \in Nat : n2 = Len(matches')
  BY DEF Grown
<1> PICK R2 : R2 = Made'
  OBVIOUS
<1>1. n <= n2 /\ Made \subseteq R2 /\ K \subseteq K2
  BY DEF Grown
<1>2. HandlerScript(c, n2, R2, K2, script[c])
  <2>1. HandlerScript(c, n, Made, K, script[c])
    BY DEF Typed, Scripts
  <2> QED BY <1>1, <2>1, ScriptsGrow
<1>3. script[c] \in Seq(HandlerSteps(c, n2, R2, K2)) /\ Linked(script[c], R2)
  BY <1>2, PastOpening DEF ErrandKinds
<1>4. /\ HandlerScript(c, n2, R2, K2, new \o Tail(script[c]))
      /\ HandlerScript(c, n2, R2, K2, Tail(script[c]) \o new)
  BY <1>3, GoesOn
<1>5. \/ script' = [script EXCEPT ![c] = new \o Tail(script[c])]
      \/ script' = [script EXCEPT ![c] = Tail(script[c]) \o new]
  BY DEF Continue, ContinueAndAnswer
<1> QED BY <1>4, <1>5, HandlerRewritten DEF Typed

\* A subscription makes the room's entry, or finds it.
LEMMA SubscribeTyped ==
  ASSUME NEW K, NEW K2, K2 = K \cup Current', Typed(K), NEW c \in Clients, Subscribe(c)
  PROVE  Typed(K2)'
<1> PICK r : r = Head(script[c]).room
  OBVIOUS
<1> PICK w : w = Head(script[c]).wallet
  OBVIOUS
<1> PICK entry : entry = Subscribed(r, c, w)
  OBVIOUS
<1>1. /\ script[c] # <<>> /\ Head(script[c]).do = "subscribe"
      /\ rooms' = [rooms EXCEPT ![r] = entry]
      /\ ContinueAndAnswer(c, <<Tell(c, RoomState(r, entry))>>)
      /\ UNCHANGED <<linkVars, matchVars, observers, told>>
  BY DEF Subscribe, At
<1>2. r \in Rooms /\ w \in {None, WalletOf[c]}
  BY <1>1, AtErrand DEF ErrandKinds, Errands
<1>3. entry \in RoomEntries /\ entry.phase \in RoomPhases
  <2>1. PICK old \in RoomEntries : old = rooms[r]
    BY <1>2 DEF Typed, RoomMap
  <2>2. PICK subscribers \in FiniteSubsets(Clients) :
          subscribers = old.subscribers \cup {c}
    <3>1. IsFiniteSet({c}) /\ old.subscribers \in FiniteSubsets(Clients)
      BY FS_Singleton DEF RoomEntries
    <3>2. IsFiniteSet(old.subscribers \cup {c})
      BY <3>1, FS_Union DEF FiniteSubsets
    <3> QED BY <3>1, <3>2 DEF FiniteSubsets
  <2>3. PICK wallets \in FiniteSubsets(Wallets) :
          wallets = IF w = None THEN old.wallets ELSE old.wallets \cup {w}
    <3>1. IsFiniteSet({w}) /\ old.wallets \in FiniteSubsets(Wallets)
      BY FS_Singleton DEF RoomEntries
    <3>2. IsFiniteSet(old.wallets \cup {w})
      BY <3>1, FS_Union DEF FiniteSubsets
    <3>3. WalletOf[c] \in Wallets
      BY RelayAssumption
    <3> QED BY <1>2, <3>1, <3>2, <3>3 DEF FiniteSubsets
  <2>4. PICK phase \in RoomPhases :
          phase = IF old.phase = None THEN "waiting_for_player" ELSE old.phase
    BY DEF RoomEntries, RoomPhases
  <2>5. entry = [phase |-> phase, match |-> old.match, wallets |-> wallets,
                 subscribers |-> subscribers, stamp |-> old.stamp, hash |-> old.hash]
    BY <2>1, <2>2, <2>3, <2>4 DEF Subscribed, RoomEntries
  <2> QED BY <2>5 DEF RoomEntries
<1>4. Matchmaker' /\ Len(matches') = Len(matches)
  BY <1>1 DEF Typed, Matchmaker, Tickets, Matches, Sessions, matchVars
<1>5. observers' \subseteq Made'
  <2>1. Made \subseteq Made'
    BY <1>1, <1>2, <1>3 DEF Typed, RoomMap, Made
  <2> QED BY <1>1, <2>1 DEF Typed, RoomMap
<1>6. /\ Made' = Made \cup {r}
      /\ RoomState(r, entry) \in K2
      /\ Grown(K, K2)
      /\ Scripts(K2)' => Typed(K2)'
  BY <1>1, <1>2, <1>3, <1>4, <1>5, RoomWritten
<1>7. Scripts(K2)'
  <2> PICK n2 \in Nat : n2 = Len(matches')
    BY <1>6 DEF Grown
  <2>1. <<Tell(c, RoomState(r, entry))>> \in Seq(Deliveries(K2))
    BY <1>6 DEF Tell, Deliveries
  <2>2. /\ <<Tell(c, RoomState(r, entry))>> \in Seq(HandlerSteps(c, n2, Made', K2))
        /\ Linked(<<Tell(c, RoomState(r, entry))>>, Made')
    BY <2>1, DeliveriesLinked
  <2> QED BY <1>1, <1>6, <2>2, ErrandGoesOn DEF ErrandKinds
<1> QED BY <1>6, <1>7

\* What is observed has an entry.
LEMMA ObserveTyped ==
  ASSUME NEW K, NEW K2, K2 = K \cup Current', Typed(K), NEW c \in Clients, Observe(c)
  PROVE  Typed(K2)'
<1> PICK r : r = Head(script[c]).room
  OBVIOUS
<1> PICK q : q = script[c]
  OBVIOUS
<1>1. /\ q # <<>> /\ Head(q).do = "observe"
      /\ observers' = observers \cup {r}
      /\ Continue(c, <<>>)
      /\ UNCHANGED <<linkVars, matchVars, rooms, told>>
  BY DEF Observe, At
<1>2. r \in Made
  <2>1. Linked(q, Made) /\ q \in Seq(HandlerSteps(c, Len(matches), Made, K))
    BY <1>1, AtErrand DEF ErrandKinds
  <2>2. 1 \in DOMAIN q /\ Head(q) = q[1]
    <3>1. PICK k \in Nat : k = Len(q) /\ k > 0 /\ DOMAIN q = 1..k
      BY <1>1, <2>1, EmptySeq, LenProperties
    <3> QED BY <1>1, <2>1, <3>1
  <2>3. q[1].do = "observe" /\ q[1].room = r
    BY <1>1, <2>2
  <2>4. q[1].do = "observe" => q[1].room \in Made \/ 1 > 1
    BY <2>1, <2>2 DEF Linked
  <2> QED BY <2>3, <2>4
<1>3. Made' = Made /\ Current' = Current
  BY <1>1 DEF Made, Current
<1>4. K2 = K /\ Grown(K, K2)
  BY <1>1, <1>3, LenProperties DEF Typed, Announced, Matchmaker, Grown, matchVars
<1>5. Links'
  BY <1>1 DEF Typed, Links, linkVars
<1>6. Matchmaker'
  BY <1>1 DEF Typed, Matchmaker, Tickets, Matches, Sessions, matchVars
<1>7. RoomMap'
  BY <1>1, <1>2, <1>3 DEF Typed, RoomMap, RoomEntries, matchVars
<1>8. Announced(K2)'
  BY <1>1, <1>3, <1>4 DEF Typed, Announced
<1>9. Scripts(K2)'
  <2>1. <<>> \in Seq(Deliveries(K2))
    BY EmptySeq
  <2> PICK n2 \in Nat : n2 = Len(matches')
    BY <1>4 DEF Grown
  <2>2. /\ <<>> \in Seq(HandlerSteps(c, n2, Made', K2))
        /\ Linked(<<>>, Made')
    BY <2>1, DeliveriesLinked
  <2> QED BY <1>1, <1>4, <2>2, ErrandGoesOn DEF ErrandKinds
<1> QED BY <1>5, <1>6, <1>7, <1>8, <1>9 DEF Typed

\* An errand that only answers.
LEMMA AnswerTyped ==
  ASSUME NEW K, NEW K2, K2 = K \cup Current', Typed(K), NEW c \in Clients,
         UNCHANGED <<linkVars, matchVars, roomVars, told>>,
         script[c] # <<>>, Head(script[c]).do \in ErrandKinds \ {"subscribe"},
         NEW new \in Seq(Deliveries(K)), Continue(c, new) \/ ContinueAndAnswer(c, new)
  PROVE  Typed(K2)'
<1>1. K2 = K /\ Grown(K, K)
  BY MapsStay
<1> PICK n2 \in Nat : n2 = Len(matches')
  BY <1>1 DEF Grown
<1>2. new \in Seq(HandlerSteps(c, n2, Made', K)) /\ Linked(new, Made')
  BY DeliveriesLinked
<1>3. Scripts(K)'
  BY <1>1, <1>2, ErrandGoesOn
<1> QED BY <1>3, OnlyScript

\* The copy of a room that is announced to it.
LEMMA SnapshotTyped ==
  ASSUME NEW K, NEW K2, K2 = K \cup Current', Typed(K), NEW c \in Clients, Snapshot(c)
  PROVE  Typed(K2)'
<1> PICK r : r = Head(script[c]).room
  OBVIOUS
<1>1. /\ script[c] # <<>> /\ Head(script[c]).do = "snapshot"
      /\ Continue(c, <<Broadcast(r, RoomState(r, rooms[r]))>>)
      /\ UNCHANGED <<linkVars, matchVars, roomVars, told>>
  BY DEF Snapshot, At
<1>2. r \in Made
  BY <1>1, AtErrand DEF ErrandKinds, Errands
<1>3. RoomState(r, rooms[r]) \in K
  BY <1>2 DEF Typed, Announced, Current
<1>4. <<Broadcast(r, RoomState(r, rooms[r]))>> \in Seq(Deliveries(K))
  BY <1>2, <1>3 DEF Broadcast, Deliveries, Made
<1> QED BY <1>1, <1>4, AnswerTyped DEF ErrandKinds

\* The answer about a ticket.
LEMMA FindTicketTyped ==
  ASSUME NEW K, NEW K2, K2 = K \cup Current', Typed(K), NEW c \in Clients, FindTicket(c)
  PROVE  Typed(K2)'
<1> PICK ticket : ticket = Head(script[c]).ticket
  OBVIOUS
<1>1. PICK new :
        /\ new = <<>> \/ new = <<Tell(c, QueueJoined(ticket))>>
        /\ ContinueAndAnswer(c, new)
  BY DEF FindTicket
<1>2. /\ script[c] # <<>> /\ Head(script[c]).do = "find_ticket"
      /\ UNCHANGED <<linkVars, matchVars, roomVars, told>>
  BY DEF FindTicket, At
<1>3. ticket \in Nat
  BY <1>2, AtErrand DEF ErrandKinds, Errands
<1>4. Tell(c, QueueJoined(ticket)) \in Deliveries(K)
  BY <1>3 DEF Tell, QueueJoined, Notices, Deliveries
<1>5. <<Tell(c, QueueJoined(ticket))>> \in Seq(Deliveries(K))
  BY <1>4
<1>6. new \in Seq(Deliveries(K))
  BY <1>1, <1>5, EmptySeq
<1> QED BY <1>1, <1>2, <1>6, AnswerTyped DEF ErrandKinds

\* The answer about a match.
LEMMA FindMatchTyped ==
  ASSUME NEW K, NEW K2, K2 = K \cup Current', Typed(K), NEW c \in Clients, FindMatch(c)
  PROVE  Typed(K2)'
<1> PICK m : m = Head(script[c]).match
  OBVIOUS
<1>1. PICK a, b :
        /\ a = <<>> \/ a = <<Tell(c, MatchFound(m))>>
        /\ b = <<>> \/ (matches[m].room # None /\ b = <<Tell(c, RoomReady(m, matches[m].room))>>)
        /\ ContinueAndAnswer(c, a \o b)
  BY DEF FindMatch
<1>2. /\ script[c] # <<>> /\ Head(script[c]).do = "find_match"
      /\ UNCHANGED <<linkVars, matchVars, roomVars, told>>
  BY DEF FindMatch, At
<1> PICK n \in Nat : n = Len(matches) /\ DOMAIN matches = 1..n
  BY LenProperties DEF Typed, Matchmaker
<1>3. m \in 1..n /\ m \in MatchIds
  <2>1. m \in 1..n
    BY <1>2, AtErrand DEF ErrandKinds, Errands
  <2> QED BY <2>1, RelayAssumption DEF MatchIds, Typed, Matchmaker
<1>4. matches[m] \in Matches
  BY <1>3, ElementOfSeq DEF Typed, Matchmaker
<1>5. Tell(c, MatchFound(m)) \in Deliveries(K)
  BY <1>3 DEF Tell, MatchFound, Notices, Deliveries
<1>6. matches[m].room # None => Tell(c, RoomReady(m, matches[m].room)) \in Deliveries(K)
  BY <1>3, <1>4 DEF Tell, RoomReady, Notices, Deliveries, Matches
<1>7. a \in Seq(Deliveries(K)) /\ b \in Seq(Deliveries(K))
  <2>1. <<Tell(c, MatchFound(m))>> \in Seq(Deliveries(K))
    BY <1>5
  <2>2. matches[m].room # None =>
          <<Tell(c, RoomReady(m, matches[m].room))>> \in Seq(Deliveries(K))
    BY <1>6
  <2> QED BY <1>1, <2>1, <2>2, EmptySeq
<1>8. a \o b \in Seq(Deliveries(K))
  BY <1>7, ConcatProperties
<1> QED BY <1>1, <1>2, <1>8, AnswerTyped DEF ErrandKinds

\* What session.resume found is looked into in turn.
LEMMA ResumeTyped ==
  ASSUME NEW K, NEW K2, K2 = K \cup Current', Typed(K), NEW c \in Clients, Resume(c)
  PROVE  /\ Typed(K2)'
         /\ script'[c] \in Seq(HandlerSteps(c, Len(matches), Made, K))
<1> PICK n \in Nat : n = Len(matches) /\ DOMAIN matches = 1..n
  BY LenProperties DEF Typed, Matchmaker
<1> PICK step : step = Head(script[c])
  OBVIOUS
<1> PICK session : session = sessions[step.wallet]
  OBVIOUS
<1> PICK m : m = IF step.match # 0 THEN step.match ELSE session.match
  OBVIOUS
<1> PICK r : r = IF step.room # None THEN step.room ELSE session.room
  OBVIOUS
<1> DEFINE find == [do |-> "find_ticket", ticket |-> session.ticket]
           match == [do |-> "find_match", match |-> m]
           subscribe == [do |-> "subscribe", room |-> r, wallet |-> step.wallet]
           observe == [do |-> "observe", room |-> r]
<1>1. PICK a, b, d :
        /\ a = IF session.ticket = 0 THEN <<>> ELSE <<find>>
        /\ b = IF m = 0 THEN <<>> ELSE <<match>>
        /\ d = IF r = None THEN <<>> ELSE <<subscribe, observe>>
        /\ Continue(c, (a \o b) \o d)
  BY DEF Resume
<1>2. /\ script[c] # <<>> /\ step.do = "resume"
      /\ UNCHANGED <<linkVars, matchVars, roomVars, told>>
  BY DEF Resume, At
<1>3. step \in ResumeSteps(c, n) /\ Tail(script[c]) = <<>>
  <2>1. HandlerScript(c, n, Made, K, script[c])
    BY DEF Typed, Scripts
  <2>2. Opening(c, n, script[c])
    BY <1>2, <2>1, InOpening
  <2> QED BY <1>2, <2>2, OpeningByHead
<1>4. step.wallet = WalletOf[c] /\ step.wallet \in Wallets
      /\ step.room \in Rooms \cup {None} /\ step.match \in 0..n
  BY <1>3, RelayAssumption DEF ResumeSteps
<1>5. /\ session.ticket \in 0..tickets
      /\ session.match \in 0..n
      /\ session.room \in Rooms \cup {None}
  BY <1>4 DEF Typed, Matchmaker, Sessions
<1>6. session.ticket \in Nat /\ m \in 0..n /\ r \in Rooms \cup {None}
  <2>1. tickets \in Nat
    BY DEF Typed, Matchmaker
  <2> QED BY <1>4, <1>5, <2>1
<1> DEFINE S == HandlerSteps(c, n, Made, K)
<1>7. a \in Seq(S) /\ Linked(a, Made)
  <2>1. find \in S
    BY <1>6 DEF HandlerSteps, Errands
  <2>2. <<find>> \in Seq(S) /\ Linked(<<find>>, Made)
    BY <2>1, LinkedElse
  <2>3. <<>> \in Seq(S) /\ Linked(<<>>, Made)
    BY EmptySeq, LinkedElse
  <2> HIDE DEF S, find
  <2> QED BY <1>1, <2>2, <2>3
<1>8. b \in Seq(S) /\ Linked(b, Made)
  <2>1. m # 0 => match \in S
    BY <1>6 DEF HandlerSteps, Errands
  <2>2. m # 0 => <<match>> \in Seq(S) /\ Linked(<<match>>, Made)
    BY <2>1, LinkedElse
  <2>3. <<>> \in Seq(S) /\ Linked(<<>>, Made)
    BY EmptySeq, LinkedElse
  <2> HIDE DEF S, match
  <2> QED BY <1>1, <2>2, <2>3
<1>9. d \in Seq(S) /\ Linked(d, Made)
  <2>1. r # None => subscribe \in S /\ observe \in S
    BY <1>4, <1>6 DEF HandlerSteps, Errands
  <2>2. r # None => <<subscribe, observe>> \in Seq(S)
    BY <2>1
  <2>3. Linked(<<subscribe, observe>>, Made)
    BY DEF Linked
  <2>4. <<>> \in Seq(S) /\ Linked(<<>>, Made)
    BY EmptySeq, LinkedElse
  <2> HIDE DEF S, subscribe, observe
  <2> QED BY <1>1, <2>2, <2>3, <2>4
<1> HIDE DEF S
<1>10. (a \o b) \o d \in Seq(S) /\ Linked((a \o b) \o d, Made)
  <2>1. a \o b \in Seq(S) /\ Linked(a \o b, Made)
    BY <1>7, <1>8, ConcatProperties, LinkedConcat
  <2> QED BY <1>9, <2>1, ConcatProperties, LinkedConcat
<1>11. script' = [script EXCEPT ![c] = (a \o b) \o d]
  <2>1. PICK new \in Seq(S) : new = (a \o b) \o d
    BY <1>10
  <2>2. new \o <<>> = new
    BY ConcatEmptySeq
  <2> QED BY <1>1, <1>3, <2>1, <2>2 DEF Continue
<1>12. Made' = Made /\ Grown(K, K) /\ Len(matches') = n
  BY <1>2, MapsStay DEF matchVars
<1>13. Scripts(K)'
  BY <1>10, <1>11, <1>12, HandlerProceeds DEF S
<1>14. script'[c] = (a \o b) \o d
  BY <1>11 DEF Typed, Scripts, Tasks
<1> QED BY <1>2, <1>10, <1>13, <1>14, OnlyScript DEF S

-----------------------------------------------------------------------------
(***************************************************************************)
(* Observers.                                                              *)
(***************************************************************************)

\* A report arrives at the observer of a room, which has an entry.
LEMMA NotifyTyped ==
  ASSUME NEW K, NEW K2, K2 = K \cup Current', Typed(K), NEW r \in Rooms,
         NEW report \in Reports, Notify(r, report)
  PROVE  Typed(K2)'
<1> DEFINE step == [do |-> "update", room |-> r, report |-> report]
<1>1. /\ UNCHANGED <<linkVars, matchVars, rooms, observers, told>>
      /\ script' = [script EXCEPT ![r] = <<step>>]
      /\ r \in observers
  BY DEF Notify, Finish
<1>2. r \in Made
  BY <1>1 DEF Typed, RoomMap
<1>3. Made' = Made /\ Current' = Current
  BY <1>1 DEF Made, Current
<1>4. K2 = K /\ Grown(K, K2)
  BY <1>1, <1>3, LenProperties DEF Typed, Announced, Matchmaker, Grown, matchVars
<1>5. Links'
  BY <1>1 DEF Typed, Links, linkVars
<1>6. Matchmaker'
  BY <1>1 DEF Typed, Matchmaker, Tickets, Matches, Sessions, matchVars
<1>7. RoomMap'
  BY <1>1, <1>3 DEF Typed, RoomMap, RoomEntries, matchVars
<1>8. Announced(K2)'
  BY <1>1, <1>3, <1>4 DEF Typed, Announced
<1>9. Scripts(K2)'
  <2>1. step \in ObserverSteps(r, Made', K2)
    BY <1>2, <1>3 DEF ObserverSteps
  <2>2. <<step>> \in Seq(ObserverSteps(r, Made', K2))
    BY <2>1
  <2> QED BY <1>1, <1>4, <2>2, ObserverRewritten DEF Typed
<1> QED BY <1>5, <1>6, <1>7, <1>8, <1>9 DEF Typed

\* What the observer makes of a room's entry is an entry.
LEMMA UpdatedEntry ==
  ASSUME NEW room \in RoomEntries, room.phase \in RoomPhases, NEW report \in Reports,
         NEW tick \in Ticks
  PROVE  /\ UpdatedRoom(room, report, tick) \in RoomEntries
         /\ UpdatedRoom(room, report, tick).phase \in RoomPhases
<1>1. room.stamp + tick \in Int
  BY RelayAssumption DEF RoomEntries
<1>2. CASE report \in LogClasses
  <2>1. InferredPhase(room.phase, report) \in RoomPhases
    BY <1>2 DEF InferredPhase, RoomPhases, LogClasses
  <2>2. PICK phase \in RoomPhases : phase = InferredPhase(room.phase, report)
    BY <2>1
  <2>3. UpdatedRoom(room, report, tick) = [room EXCEPT !.phase = phase, !.stamp = room.stamp + tick]
    BY <1>2, <2>2 DEF UpdatedRoom, LogUpdated, RoomEntries
  <2> QED BY <1>1, <2>3 DEF RoomEntries
<1>3. CASE report \notin LogClasses /\ room.hash = report
  BY <1>3 DEF UpdatedRoom
<1>4. CASE report \notin LogClasses /\ room.hash # report
  <2>1. PromotedPhase(room.phase) \in RoomPhases
    BY DEF PromotedPhase, RoomPhases
  <2>2. PICK phase \in RoomPhases : phase = PromotedPhase(room.phase)
    BY <2>1
  <2>3. UpdatedRoom(room, report, tick) =
          [room EXCEPT !.phase = phase, !.hash = report, !.stamp = room.stamp + tick]
    BY <1>4, <2>2 DEF UpdatedRoom, AccountUpdated, RoomEntries
  <2> QED BY <1>1, <2>3 DEF RoomEntries
<1> QED BY <1>2, <1>3, <1>4

\* The report is made out, and the state it led to is announced.
LEMMA UpdateTyped ==
  ASSUME NEW K, NEW K2, K2 = K \cup Current', Typed(K), NEW r \in Rooms, Update(r)
  PROVE  Typed(K2)'
<1> PICK step : step = Head(script[r])
  OBVIOUS
<1> PICK tick \in Ticks :
      LET room == UpdatedRoom(rooms[r], step.report, tick)
          event == Broadcast(r, RoomEvent(r, step.report))
      IN  /\ rooms' = [rooms EXCEPT ![r] = room]
          /\ \E new : /\ new = <<event>> \/ new = <<event, Broadcast(r, RoomState(r, room))>>
                      /\ Continue(r, new)
  BY DEF Update
<1> PICK entry : entry = UpdatedRoom(rooms[r], step.report, tick)
  OBVIOUS
<1> DEFINE event == Broadcast(r, RoomEvent(r, step.report))
           state == Broadcast(r, RoomState(r, entry))
<1>1. PICK new :
        /\ new = <<event>> \/ new = <<event, state>>
        /\ Continue(r, new)
  OBVIOUS
<1>2. /\ script[r] # <<>> /\ step.do = "update"
      /\ rooms' = [rooms EXCEPT ![r] = entry]
      /\ UNCHANGED <<linkVars, matchVars, observers, told>>
  BY DEF Update, At
<1>3. script[r] \in Seq(ObserverSteps(r, Made, K))
  BY DEF Typed, Scripts
<1>4. r \in Made /\ step.report \in Reports
  <2>1. step \in ObserverSteps(r, Made, K)
    BY <1>2, <1>3, HeadTailProperties
  <2> QED BY <1>2, <2>1 DEF ObserverSteps, Deliveries
<1>5. entry \in RoomEntries /\ entry.phase \in RoomPhases
  <2>1. rooms[r] \in RoomEntries /\ rooms[r].phase \in RoomPhases
    BY <1>4 DEF Typed, RoomMap, Made
  <2> QED BY <1>4, <2>1, UpdatedEntry
<1>6. Matchmaker' /\ Len(matches') = Len(matches)
  BY <1>2 DEF Typed, Matchmaker, Tickets, Matches, Sessions, matchVars
<1>7. observers' \subseteq Made'
  <2>1. Made \subseteq Made'
    BY <1>2, <1>5 DEF Typed, RoomMap, Made
  <2> QED BY <1>2, <2>1 DEF Typed, RoomMap
<1>8. /\ Made' = Made \cup {r}
      /\ RoomState(r, entry) \in K2
      /\ Grown(K, K2)
      /\ Scripts(K2)' => Typed(K2)'
  BY <1>2, <1>5, <1>6, <1>7, RoomWritten
<1>9. Scripts(K2)'
  <2> DEFINE S == ObserverSteps(r, Made', K2)
  <2>1. event \in S
    BY <1>4 DEF Broadcast, RoomEvent, Notices, Deliveries, ObserverSteps
  <2>2. state \in S
    BY <1>8 DEF Broadcast, Deliveries, ObserverSteps
  <2>3. <<event>> \in Seq(S) /\ <<event, state>> \in Seq(S)
    BY <2>1, <2>2
  <2>4. new \in Seq(S)
    BY <1>1, <2>3
  <2>5. script[r] \in Seq(S)
    <3>1. Made \subseteq Made' /\ K \subseteq K2
      BY <1>8
    <3>2. ObserverSteps(r, Made, K) \subseteq S
      BY <3>1 DEF ObserverSteps, Deliveries
    <3> HIDE DEF S
    <3> QED BY <1>3, <3>2, SeqMonotonic
  <2>6. new \o Tail(script[r]) \in Seq(S)
    <3> HIDE DEF S
    <3> QED BY <1>2, <2>4, <2>5, Replaced
  <2>7. script' = [script EXCEPT ![r] = new \o Tail(script[r])]
    BY <1>1 DEF Continue
  <2> QED BY <1>8, <2>6, <2>7, ObserverRewritten DEF Typed
<1> QED BY <1>8, <1>9

-----------------------------------------------------------------------------
(***************************************************************************)
(* The relay starts again.                                                 *)
(***************************************************************************)

\* A relay that starts again from empty maps is typed.
LEMMA RestartTyped ==
  ASSUME NEW K, NEW K2, K2 = K \cup Current', Typed(K), Restart
  PROVE  Typed(K2)'
<1> PICK n \in Nat : n = Len(matches) /\ DOMAIN matches = 1..n
  BY LenProperties DEF Typed, Matchmaker
<1>0. PICK tick \in Ticks :
        rooms' = [r \in Rooms |-> [NoRoom EXCEPT !.stamp = rooms[r].stamp + tick]]
  BY DEF Restart
<1>1. /\ \A r \in Rooms : rooms'[r] = [NoRoom EXCEPT !.stamp = rooms[r].stamp + tick]
      /\ rooms' = [r \in Rooms |-> rooms'[r]]
      /\ observers' = {}
  <2>1. observers' = {}
    BY DEF Restart
  <2>2. \A r \in Rooms : rooms'[r] = [NoRoom EXCEPT !.stamp = rooms[r].stamp + tick]
    BY <1>0
  <2>3. rooms' = [r \in Rooms |-> rooms'[r]]
    BY <1>0, Zenon
  <2> QED BY <2>1, <2>2, <2>3
<1>2. Made' = {} /\ Current' = {}
  <2>1. \A r \in Rooms : rooms'[r].phase = None
    BY <1>1 DEF NoRoom
  <2> QED BY <2>1, RelayAssumption DEF Made, Current
<1>3. K2 = K
  BY <1>2
<1>4. Links'
  <2>1. life' \in [Clients -> {"new", "open", "closed"}]
    BY DEF Restart
  <2>2. restarts' \in Nat
    <3>1. restarts \in Nat /\ restarts' = restarts + 1
      BY DEF Restart, Typed, Links
    <3> QED BY <3>1
  <2> QED BY <2>1, <2>2 DEF Restart, Links
<1>5. matches' \in Seq(Matches') /\ Len(matches') = n
  <2>1. ASSUME NEW m \in 1..n
        PROVE  [matches[m] EXCEPT !.room = None, !.state = "Forgotten"] \in Matches
    <3>1. matches[m] \in Matches
      BY <2>1, ElementOfSeq DEF Typed, Matchmaker
    <3> QED BY <3>1 DEF Matches, MatchStates
  <2>2. matches' \in [1..n -> Matches]
    BY <2>1 DEF Restart
  <2>3. Matches' = Matches
    BY DEF Matches
  <2> HIDE DEF Matches
  <2> QED BY <2>2, <2>3
<1>6. Matchmaker'
  <2>1. tickets' = tickets /\ tickets' \in Nat /\ Tickets' = Tickets
    BY DEF Restart, Typed, Matchmaker, Tickets
  <2>2. queue' \in [Bets -> Seq(Tickets')] /\ \A b \in Bets : Len(queue'[b]) <= 1
    <3>1. queue' = [b \in Bets |-> <<>>]
      BY DEF Restart
    <3>2. <<>> \in Seq(Tickets') /\ Len(<<>>) <= 1
      BY EmptySeq
    <3> QED BY <3>1, <3>2
  <2>3. sessions' \in [Wallets -> Sessions']
    <3>1. sessions' = [w \in Wallets |-> NoSession]
      BY DEF Restart
    <3>2. NoSession \in Sessions'
      BY <1>5, <2>1 DEF NoSession, Sessions
    <3> QED BY <3>1, <3>2
  <2>4. Len(matches') <= MaxMatches
    BY <1>5 DEF Typed, Matchmaker
  <2> QED BY <1>5, <2>1, <2>2, <2>3, <2>4 DEF Matchmaker
<1>7. RoomMap'
  <2>1. ASSUME NEW r \in Rooms PROVE rooms'[r] \in RoomEntries'
    <3>1. rooms[r].stamp + tick \in Int
      BY RelayAssumption DEF Typed, RoomMap, RoomEntries
    <3>2. {} \in FiniteSubsets(Wallets) /\ {} \in FiniteSubsets(Clients)
      BY FS_EmptySet DEF FiniteSubsets
    <3>3. rooms'[r] = [phase |-> None, match |-> 0, wallets |-> {}, subscribers |-> {},
                       stamp |-> rooms[r].stamp + tick, hash |-> None]
      BY <1>1 DEF NoRoom
    <3>4. 0 \in 0..Len(matches')
      BY <1>5
    <3> QED BY <3>1, <3>2, <3>3, <3>4 DEF RoomEntries
  <2> QED BY <1>1, <2>1 DEF RoomMap
<1>8. Scripts(K2)'
  <2>1. script' = [t \in Tasks |-> <<>>]
    BY DEF Restart
  <2>2. ASSUME NEW c \in Clients PROVE HandlerScript(c, Len(matches'), Made', K2, script'[c])
    <3>1. <<>> \in Seq(HandlerSteps(c, Len(matches'), Made', K2)) /\ Linked(<<>>, Made')
      BY EmptySeq, LinkedElse
    <3> QED BY <2>1, <3>1 DEF HandlerScript, Tasks
  <2> QED BY <2>1, <2>2, EmptySeq DEF Scripts, Tasks
<1>9. Announced(K2)'
  BY <1>2, <1>3 DEF Restart, Typed, Announced
<1> QED BY <1>4, <1>6, <1>7, <1>8, <1>9 DEF Typed

-----------------------------------------------------------------------------
(***************************************************************************)
(* Every step, every behaviour.                                            *)
(***************************************************************************)

\* Nothing is there and nothing is announced in the beginning.
LEMMA InitTyped == Init => Typed({})
<1> SUFFICES ASSUME Init PROVE Typed({})
  OBVIOUS
<1> USE DEF Init, RelayInit
<1>1. Made = {} /\ Current = {}
  <2>1. \A r \in Rooms : rooms[r].phase = None
    BY DEF NoRoom
  <2> QED BY <2>1, RelayAssumption DEF Made, Current
<1>2. Links
  BY DEF Links
<1>3. Len(matches) = 0 /\ matches \in Seq(Matches)
  BY EmptySeq
<1>4. Matchmaker
  <2>1. queue \in [Bets -> Seq(Tickets)] /\ \A b \in Bets : Len(queue[b]) <= 1
    <3>1. <<>> \in Seq(Tickets) /\ Len(<<>>) <= 1
      BY EmptySeq
    <3> QED BY <3>1
  <2>2. NoSession \in Sessions
    BY <1>3 DEF NoSession, Sessions
  <2>3. MaxMatches \in Nat
    BY RelayAssumption
  <2> QED BY <1>3, <2>1, <2>2, <2>3 DEF Matchmaker
<1>5. RoomMap
  <2>1. {} \in FiniteSubsets(Wallets) /\ {} \in FiniteSubsets(Clients)
    BY FS_EmptySet DEF FiniteSubsets
  <2>2. NoRoom \in RoomEntries
    BY <1>3, <2>1 DEF NoRoom, RoomEntries
  <2> QED BY <1>1, <2>2 DEF RoomMap
<1>6. Scripts({})
  <2>1. ASSUME NEW c \in Clients PROVE HandlerScript(c, Len(matches), Made, {}, <<>>)
    <3>1. <<>> \in Seq(HandlerSteps(c, Len(matches), Made, {})) /\ Linked(<<>>, Made)
      BY EmptySeq, LinkedElse
    <3> QED BY <3>1 DEF HandlerScript
  <2> QED BY <2>1, EmptySeq DEF Scripts, Tasks
<1>7. Announced({})
  BY <1>1 DEF Announced
<1> QED BY <1>2, <1>4, <1>5, <1>6, <1>7 DEF Typed

\* Every action keeps everything typed, and announces no state of a room but
\* the one it leaves the room in.
LEMMA NextTyped ==
  ASSUME NEW K, NEW K2, K2 = K \cup Current', Typed(K), [Next]_vars
  PROVE  Typed(K2)'
<1>1. ASSUME NEW c \in Clients, HandlerStep(c) PROVE Typed(K2)'
  <2>1. c \in Tasks
    BY DEF Tasks
  <2>2. CASE SendToClient(c)
    BY <2>1, <2>2, SendToClientTyped
  <2>3. CASE SendToWallet(c)
    BY <2>3, SendToWalletTyped
  <2>4. CASE Unregister(c) \/ Unsubscribe(c)
    BY <2>4, UnregisterTyped, UnsubscribeTyped
  <2>5. CASE Bind(c)
    BY <2>5, BindTyped
  <2>6. CASE CheckQueue(c) \/ CheckMatches(c)
    BY <2>6, CheckTyped
  <2>7. CASE Wait(c)
    BY <2>7, WaitTyped
  <2>8. CASE Pair(c)
    BY <2>8, PairTyped
  <2>9. CASE SpawnTimer(c)
    BY <2>9, SpawnTimerTyped
  <2>10. CASE Leave(c)
    BY <2>10, LeaveTyped
  <2>11. CASE Register(c)
    BY <2>11, RegisterTyped
  <2>12. CASE Snapshot(c)
    BY <2>12, SnapshotTyped
  <2>13. CASE Subscribe(c)
    BY <2>13, SubscribeTyped
  <2>14. CASE Observe(c)
    BY <2>14, ObserveTyped
  <2>15. CASE Resume(c)
    BY <2>15, ResumeTyped
  <2>16. CASE FindTicket(c)
    BY <2>16, FindTicketTyped
  <2>17. CASE FindMatch(c)
    BY <2>17, FindMatchTyped
  <2>18. CASE ReadRoom(c)
    BY <2>18, ReadRoomTyped
  <2>19. CASE Address(c)
    BY <2>19, AddressTyped
  <2> QED BY <1>1, <2>2, <2>3, <2>4, <2>5, <2>6, <2>7, <2>8, <2>9, <2>10, <2>11, <2>12,
             <2>13, <2>14, <2>15, <2>16, <2>17, <2>18, <2>19 DEF HandlerStep
<1>2. ASSUME NEW m \in MatchIds, TimerStep(m) PROVE Typed(K2)'
  <2>1. m \in Tasks
    BY DEF Tasks
  <2>2. CASE Expire(m)
    BY <2>2, ExpireTyped
  <2>3. CASE SendToWallet(m)
    BY <2>3, SendToWalletTyped
  <2>4. CASE SendToClient(m)
    BY <2>1, <2>4, SendToClientTyped
  <2> QED BY <1>2, <2>2, <2>3, <2>4 DEF TimerStep
<1>3. ASSUME NEW r \in Rooms, ObserverStep(r) PROVE Typed(K2)'
  <2>1. r \in Tasks
    BY DEF Tasks
  <2>2. CASE Update(r)
    BY <2>2, UpdateTyped
  <2>3. CASE ReadRoom(r)
    BY <2>3, ReadRoomTyped
  <2>4. CASE Address(r)
    BY <2>4, AddressTyped
  <2>5. CASE SendToClient(r)
    BY <2>1, <2>5, SendToClientTyped
  <2> QED BY <1>3, <2>2, <2>3, <2>4, <2>5 DEF ObserverStep
<1>4. ASSUME NEW c \in Clients, Connect(c) \/ Disconnect(c) \/ Request(c) PROVE Typed(K2)'
  BY <1>4, ConnectTyped, DisconnectTyped, RequestTyped
<1>5. ASSUME NEW r \in Rooms, NEW report \in Reports, Notify(r, report) PROVE Typed(K2)'
  BY <1>5, NotifyTyped
<1>6. CASE Restart
  BY <1>6, RestartTyped
<1>7. CASE UNCHANGED vars
  <2>1. UNCHANGED <<linkVars, matchVars, roomVars, told>> /\ script' = script
    BY <1>7 DEF vars
  <2>2. Made' = Made /\ matches' = matches
    BY <2>1 DEF Made, matchVars, roomVars
  <2>3. Scripts(K)'
    BY <2>1, <2>2 DEF Typed, Scripts
  <2> QED BY <2>1, <2>3, OnlyScript
<1> QED BY <1>1, <1>2, <1>3, <1>4, <1>5, <1>6, <1>7 DEF Next

\* Something was announced that makes everything typed.
IsTyped == \E K : Typed(K)

\* In every behaviour of the relay the scripts of its tasks, its maps and
\* what it announced fit together.
THEOREM EverythingIsTyped == Spec => []IsTyped
<1>1. Init => IsTyped
  BY InitTyped DEF IsTyped
<1>2. IsTyped /\ [Next]_vars => IsTyped'
  <2> SUFFICES ASSUME NEW K, Typed(K), [Next]_vars PROVE \E K2 : Typed(K2)'
    BY DEF IsTyped
  <2>1. PICK K2 : K2 = K \cup Current'
    OBVIOUS
  <2> QED BY <2>1, NextTyped
<1> QED BY <1>1, <1>2, PTL DEF Spec

\* The maps of the relay hold what their types allow, and every reference in
\* them leads to something, for any connections, wallets, bets and rooms.
THEOREM RelayTypes == Spec => []TypeOK
<1>1. IsTyped => TypeOK
  <2> SUFFICES ASSUME NEW K, Typed(K) PROVE TypeOK
    BY DEF IsTyped
  <2>1. \A m \in DOMAIN matches : matches[m] \in Matches
    BY ElementOfSeq, LenProperties DEF Typed, Matchmaker
  <2>2. rooms \in [Rooms -> [phase : RoomPhases \cup {None}, match : 0..Len(matches),
                          wallets : SUBSET Wallets, subscribers : SUBSET Clients,
                          stamp : Int, hash : Reports \cup {None}]]
    BY DEF Typed, RoomMap, RoomEntries, FiniteSubsets
  <2>3. \A c \in Clients : told[c] \subseteq Messages
    BY DEF Typed, Announced, Messages
  <2>4. observers \subseteq Rooms
    BY DEF Typed, RoomMap, Made
  <2> QED BY <2>1, <2>2, <2>3, <2>4 DEF TypeOK, Typed, Links, Matchmaker, Tickets, Matches, Sessions
<1> QED BY <1>1, EverythingIsTyped, PTL

\* Two wallets with the same bet never both wait, however many connections
\* join at once and wherever their handlers interleave.
THEOREM OneWaitsAtMost == Spec => []NobodyWaitsTogether
<1>1. IsTyped => NobodyWaitsTogether
  BY DEF IsTyped, Typed, Matchmaker, NobodyWaitsTogether
<1> QED BY <1>1, EverythingIsTyped, PTL

-----------------------------------------------------------------------------
(***************************************************************************)
(* Which step writes what.                                                 *)
(***************************************************************************)

\* Few steps write to the maps.
LEMMA Writers ==
  ASSUME [Next]_vars
  PROVE  \/ UNCHANGED <<matchVars, rooms, observers>>
         \/ Restart
         \/ \E c \in Clients :
              \/ Wait(c) \/ Pair(c) \/ Leave(c) \/ Register(c)
              \/ Subscribe(c) \/ Unsubscribe(c) \/ Observe(c)
         \/ \E m \in MatchIds : Expire(m)
         \/ \E r \in Rooms : Update(r)
<1> DEFINE Reads == UNCHANGED <<matchVars, rooms, observers>>
<1>1. ASSUME NEW t \in Tasks, SendToClient(t) \/ SendToWallet(t) \/ ReadRoom(t) \/ Address(t)
      PROVE  Reads
  BY <1>1 DEF SendToClient, SendToWallet, ReadRoom, Address, roomVars
<1>2. ASSUME NEW c \in Clients,
             \/ Connect(c) \/ Disconnect(c) \/ Unregister(c) \/ Bind(c)
             \/ CheckQueue(c) \/ CheckMatches(c) \/ SpawnTimer(c) \/ Snapshot(c)
             \/ Resume(c) \/ FindTicket(c) \/ FindMatch(c)
      PROVE  Reads
  BY <1>2 DEF Connect, Disconnect, Unregister, Bind, CheckQueue, CheckMatches, SpawnTimer,
              Snapshot, Resume, FindTicket, FindMatch, roomVars
<1>3. ASSUME NEW c \in Clients, Request(c) PROVE Reads
  BY <1>3 DEF Request, RequestJoin, RequestLeave, RequestRegister, RequestSubscribe,
              RequestResume, Receive, roomVars
<1>4. ASSUME NEW r \in Rooms, NEW report \in Reports, Notify(r, report) PROVE Reads
  BY <1>4 DEF Notify
<1>5. UNCHANGED vars => Reads
  BY DEF vars, roomVars
<1>6. Clients \subseteq Tasks /\ MatchIds \subseteq Tasks /\ Rooms \subseteq Tasks
  BY DEF Tasks
<1> QED BY <1>1, <1>2, <1>3, <1>4, <1>5, <1>6 DEF Next, HandlerStep, TimerStep, ObserverStep

\* The script of a task that is not a timer is written by its own steps.
Rewrites(t) == \E q : script' = [script EXCEPT ![t] = q]

\* Between two starts of the relay, only the steps of a connection or of an
\* observer change what it is going to do.
LEMMA StepsRewriteTheirOwn ==
  ASSUME NEW K, Typed(K), [Next]_vars, ~Restart,
         NEW own \in Clients \cup Rooms, script'[own] # script[own]
  PROVE  \/ own \in Clients /\ (Disconnect(own) \/ Request(own) \/ HandlerStep(own))
         \/ own \in Rooms /\ (ObserverStep(own) \/ \E report \in Reports : Notify(own, report))
<1>1. own \in Tasks /\ script = [t \in Tasks |-> script[t]]
  BY DEF Typed, Scripts, Tasks
<1>2. \A t \in Tasks \ {own} : ~Rewrites(t)
  BY <1>1 DEF Rewrites
<1>3. script' # script
  OBVIOUS
<1>4. ASSUME NEW t \in Tasks, SendToClient(t) \/ SendToWallet(t) \/ ReadRoom(t) \/ Address(t)
      PROVE  Rewrites(t)
  BY <1>4 DEF SendToClient, SendToWallet, ReadRoom, Address, Continue, Rewrites
<1>5. ASSUME NEW d \in Clients,
             \/ Unregister(d) \/ Unsubscribe(d) \/ Bind(d)
             \/ CheckQueue(d) \/ CheckMatches(d) \/ Wait(d) \/ Pair(d) \/ Leave(d)
             \/ Snapshot(d) \/ Subscribe(d) \/ Observe(d)
             \/ Resume(d) \/ FindTicket(d) \/ FindMatch(d)
      PROVE  Rewrites(d)
  BY <1>5 DEF Unregister, Unsubscribe, Bind, CheckQueue, CheckMatches, Wait, Pair, Leave,
              Snapshot, Subscribe, Observe, Resume, FindTicket, FindMatch,
              Continue, ContinueAndAnswer, Finish, Rewrites
<1>6. ASSUME NEW d \in Clients, Register(d) PROVE Rewrites(d)
  BY <1>6 DEF Register, Continue, Finish, Rewrites
<1>7. ASSUME NEW d \in Clients \ {own}, SpawnTimer(d) PROVE FALSE
  <2>1. Head(script[d]) \in [do : {"spawn_timer"}, match : 1..Len(matches)]
    <3> PICK n \in Nat : n = Len(matches)
      BY LenProperties DEF Typed, Matchmaker
    <3>1. HandlerScript(d, n, Made, K, script[d]) /\ script[d] # <<>> /\ Head(script[d]).do = "spawn_timer"
      BY <1>7 DEF SpawnTimer, At, Typed, Scripts
    <3>2. script[d] \in Seq(HandlerSteps(d, n, Made, K))
      BY <3>1, PastOpening
    <3>3. Head(script[d]) \in HandlerSteps(d, n, Made, K)
      BY <3>1, <3>2, HeadTailProperties
    <3> QED BY <3>1, <3>3 DEF HandlerSteps, Errands, Deliveries
  <2> PICK m : m = Head(script[d]).match
    OBVIOUS
  <2>2. m \in MatchIds
    BY <2>1, RelayAssumption, LenProperties DEF MatchIds, Typed, Matchmaker
  <2>3. own # m /\ own # d
    BY <2>2, RelayAssumption DEF MatchIds
  <2>4. PICK q, p : script' = [script EXCEPT ![d] = q, ![m] = p]
    BY <1>7 DEF SpawnTimer
  <2> QED BY <1>1, <2>3, <2>4
<1>8. ASSUME NEW d \in Clients, Connect(d) PROVE FALSE
  BY <1>8 DEF Connect
<1>9. ASSUME NEW d \in Clients, Disconnect(d) \/ Request(d) PROVE Rewrites(d)
  BY <1>9 DEF Disconnect, Request, RequestJoin, RequestLeave, RequestRegister,
              RequestSubscribe, RequestResume, Receive, Finish, Rewrites
<1>10. ASSUME NEW m \in MatchIds, Expire(m) PROVE Rewrites(m)
  BY <1>10 DEF Expire, Continue, Rewrites
<1>11. ASSUME NEW r \in Rooms, Update(r) \/ \E report \in Reports : Notify(r, report)
       PROVE  Rewrites(r)
  BY <1>11 DEF Update, Notify, Continue, Finish, Rewrites
<1>12. Clients \subseteq Tasks /\ MatchIds \subseteq Tasks /\ Rooms \subseteq Tasks
  BY DEF Tasks
<1>13. own \notin MatchIds
  BY RelayAssumption DEF MatchIds
<1>14. ~UNCHANGED vars
  BY <1>3 DEF vars
<1>15. ASSUME NEW d \in Clients, d # own PROVE ~HandlerStep(d)
  BY <1>2, <1>4, <1>5, <1>6, <1>7, <1>12, <1>15 DEF HandlerStep
<1>16. \A m \in MatchIds : ~TimerStep(m)
  BY <1>2, <1>4, <1>10, <1>12, <1>13 DEF TimerStep
<1>17. ASSUME NEW r \in Rooms, r # own
       PROVE  ~ObserverStep(r) /\ \A report \in Reports : ~Notify(r, report)
  BY <1>2, <1>4, <1>11, <1>12, <1>17 DEF ObserverStep
<1>18. \A d \in Clients \ {own} : ~Disconnect(d) /\ ~Request(d)
  BY <1>2, <1>9, <1>12
<1> QED BY <1>8, <1>14, <1>15, <1>16, <1>17, <1>18 DEF Next

\* So for the handler of a connection.
LEMMA HandlersRewriteTheirOwn ==
  ASSUME NEW K, Typed(K), [Next]_vars, ~Restart, NEW c \in Clients, script'[c] # script[c]
  PROVE  Disconnect(c) \/ Request(c) \/ HandlerStep(c)
<1>1. c \notin Rooms
  BY RelayAssumption
<1> QED BY <1>1, StepsRewriteTheirOwn

\* Connections change by the steps that are about them.
LEMMA LinkWriters ==
  ASSUME [Next]_vars, ~Restart, ~UNCHANGED linkVars
  PROVE  \E c \in Clients : Connect(c) \/ Disconnect(c) \/ Unregister(c) \/ Bind(c)
<1>1. ASSUME NEW t \in Tasks, SendToClient(t) \/ SendToWallet(t) \/ ReadRoom(t) \/ Address(t)
      PROVE  FALSE
  BY <1>1 DEF SendToClient, SendToWallet, ReadRoom, Address, linkVars
<1>2. ASSUME NEW c \in Clients,
             \/ Unsubscribe(c) \/ CheckQueue(c) \/ CheckMatches(c) \/ Wait(c) \/ Pair(c)
             \/ SpawnTimer(c) \/ Leave(c) \/ Register(c) \/ Snapshot(c) \/ Subscribe(c)
             \/ Observe(c) \/ Resume(c) \/ FindTicket(c) \/ FindMatch(c)
      PROVE  FALSE
  BY <1>2 DEF Unsubscribe, CheckQueue, CheckMatches, Wait, Pair, SpawnTimer, Leave,
     Register, Snapshot, Subscribe, Observe, Resume, FindTicket, FindMatch, linkVars
<1>3. ASSUME NEW c \in Clients, Request(c) PROVE FALSE
  BY <1>3 DEF Request, RequestJoin, RequestLeave, RequestRegister,
     RequestSubscribe, RequestResume, Receive, linkVars
<1>4. ASSUME NEW m \in MatchIds, Expire(m) PROVE FALSE
  BY <1>4 DEF Expire, linkVars
<1>5. ASSUME NEW r \in Rooms, Update(r) \/ \E report \in Reports : Notify(r, report)
      PROVE  FALSE
  BY <1>5 DEF Update, Notify, linkVars
<1>6. ~UNCHANGED vars
  BY DEF vars, linkVars
<1>7. Clients \subseteq Tasks /\ MatchIds \subseteq Tasks /\ Rooms \subseteq Tasks
  BY DEF Tasks
<1> QED BY <1>1, <1>2, <1>3, <1>4, <1>5, <1>6, <1>7
        DEF Next, HandlerStep, TimerStep, ObserverStep

\* What a client has been told it has been told.
LEMMA ToldGrows ==
  ASSUME NEW K, Typed(K), [Next]_vars, NEW c \in Clients
  PROVE  told[c] \subseteq told'[c]
<1>1. ASSUME NEW t \in Tasks, SendToClient(t) PROVE told[c] \subseteq told'[c]
  BY <1>1 DEF SendToClient, Typed, Announced
<1>2. ASSUME NEW t \in Tasks, SendToWallet(t) \/ ReadRoom(t) \/ Address(t) PROVE told' = told
  BY <1>2 DEF SendToWallet, ReadRoom, Address
<1>3. ASSUME NEW d \in Clients,
             \/ Connect(d) \/ Disconnect(d) \/ Unregister(d) \/ Unsubscribe(d) \/ Bind(d)
             \/ CheckQueue(d) \/ CheckMatches(d) \/ Wait(d) \/ Pair(d) \/ SpawnTimer(d)
             \/ Leave(d) \/ Register(d) \/ Snapshot(d) \/ Subscribe(d) \/ Observe(d)
             \/ Resume(d) \/ FindTicket(d) \/ FindMatch(d)
      PROVE  told' = told
  BY <1>3 DEF Connect, Disconnect, Unregister, Unsubscribe, Bind, CheckQueue, CheckMatches,
     Wait, Pair, SpawnTimer, Leave, Register, Snapshot, Subscribe, Observe, Resume,
     FindTicket, FindMatch
<1>4. ASSUME NEW d \in Clients, Request(d) PROVE told' = told
  BY <1>4 DEF Request, RequestJoin, RequestLeave, RequestRegister,
     RequestSubscribe, RequestResume, Receive
<1>5. ASSUME NEW m \in MatchIds, Expire(m) PROVE told' = told
  BY <1>5 DEF Expire
<1>6. ASSUME NEW r \in Rooms, Update(r) \/ \E report \in Reports : Notify(r, report)
      PROVE  told' = told
  BY <1>6 DEF Update, Notify
<1>7. Restart \/ UNCHANGED vars => told' = told
  BY DEF Restart, vars
<1>8. Clients \subseteq Tasks /\ MatchIds \subseteq Tasks /\ Rooms \subseteq Tasks
  BY DEF Tasks
<1> QED BY <1>1, <1>2, <1>3, <1>4, <1>5, <1>6, <1>7, <1>8
        DEF Next, HandlerStep, TimerStep, ObserverStep

=============================================================================
