-------------------------- MODULE MatchmakingProofs --------------------------
(***************************************************************************)
(* Proofs about the matchmaker, when the wallets that join do so from one  *)
(* connection each, as those of the run "matchmaking" do: that the two     *)
(* checks of queue.join, made under locks that it gives back, still hold   *)
(* when the wallet is queued or paired, that the matchmaker does what the  *)
(* lobby promises, and that nobody misses a match.                         *)
(***************************************************************************)
EXTENDS RoomProofs, RelayLobby

\* The hypothesis of this module.  A client that opens the page in two tabs
\* does not meet it: there the two joins of a wallet run between one another,
\* and the run "two_tabs" finds the wallet waiting and playing at once.
OneJoins ==
  \A c, d \in Clients :
    "join" \in Requests[c] /\ "join" \in Requests[d] /\ WalletOf[c] = WalletOf[d] => c = d

-----------------------------------------------------------------------------
(***************************************************************************)
(* The queue of a bet holds one entry at most.                             *)
(***************************************************************************)

Waits(w, b) == queue[b] # <<>> /\ queue[b][1].wallet = w

Queued(w) == \E b \in Bets : Waits(w, b)

\* A sequence of length one holds one element.
LEMMA OneElement ==
  ASSUME NEW S, NEW s \in Seq(S), Len(s) = 1
  PROVE  s = <<s[1]>> /\ s[1] \in S
<1>1. s[1] \in S
  BY ElementOfSeq
<1> PICK e : e = s[1]
  OBVIOUS
<1>2. <<e>> \in Seq(S) /\ Len(<<e>>) = 1 /\ <<e>>[1] = e
  BY <1>1
<1>3. \A i \in 1..Len(s) : s[i] = <<e>>[i]
  BY <1>2
<1>4. s = <<e>>
  BY <1>2, <1>3, SeqEqual
<1> QED BY <1>1, <1>4

\* What the entries are.
LEMMA TheEntries ==
  ASSUME NEW K, Typed(K)
  PROVE  /\ Entries = {<<b, 1>> : b \in {b \in Bets : queue[b] # <<>>}}
         /\ \A b \in Bets : queue[b] # <<>> =>
              queue[b] = <<queue[b][1]>> /\ queue[b][1] \in Tickets
<1>1. ASSUME NEW b \in Bets
      PROVE  /\ queue[b] = <<>> => DOMAIN queue[b] = {}
             /\ queue[b] # <<>> => /\ DOMAIN queue[b] = {1}
                                   /\ queue[b] = <<queue[b][1]>>
                                   /\ queue[b][1] \in Tickets
  <2>1. queue[b] \in Seq(Tickets) /\ Len(queue[b]) <= 1
    BY DEF Typed, Matchmaker
  <2>2. PICK n \in Nat : n = Len(queue[b]) /\ DOMAIN queue[b] = 1..n
    BY <2>1, LenProperties
  <2>3. CASE queue[b] = <<>>
    BY <2>3
  <2>4. CASE queue[b] # <<>>
    <3>1. Len(queue[b]) \in Nat \ {0}
      BY <2>1, <2>4, EmptySeq
    <3>2. n = 1 /\ Len(queue[b]) = 1
      <4>1. n \in Nat \ {0} /\ n <= 1
        BY <2>1, <2>2, <3>1
      <4>2. n = 1
        BY <4>1
      <4> QED BY <2>2, <4>2
    <3>3. queue[b] = <<queue[b][1]>> /\ queue[b][1] \in Tickets
      BY <2>1, <3>2, OneElement
    <3> QED BY <2>2, <2>4, <3>2, <3>3
  <2> QED BY <2>3, <2>4
<1>2. \A b \in Bets : {b} \X DOMAIN queue[b] =
                         IF queue[b] = <<>> THEN {} ELSE {<<b, 1>>}
  BY <1>1
<1>3. Entries = {<<b, 1>> : b \in {b \in Bets : queue[b] # <<>>}}
  <2>1. Entries = UNION {IF queue[b] = <<>> THEN {} ELSE {<<b, 1>>} : b \in Bets}
    BY <1>2 DEF Entries
  <2> QED BY <2>1
<1> QED BY <1>1, <1>3

\* A wallet is in the queue when it is the one that waits with some bet, and
\* its entries are the heads of those queues.
LEMMA QueuedIsInQueue ==
  ASSUME NEW K, Typed(K), NEW w
  PROVE  /\ InQueue(w) <=> Queued(w)
         /\ EntriesOf(w) = {<<b, 1>> : b \in {b \in Bets : Waits(w, b)}}
<1>1. EntriesOf(w) = {<<b, 1>> : b \in {b \in Bets : Waits(w, b)}}
  BY TheEntries DEF EntriesOf, Waits
<1> QED BY <1>1 DEF InQueue, Queued

-----------------------------------------------------------------------------
(***************************************************************************)
(* What the steps of the matchmaker do to the maps.                        *)
(***************************************************************************)

\* Nobody waited with the bet.
LEMMA Waited ==
  ASSUME NEW K, Typed(K), NEW c \in Clients, Wait(c)
  PROVE  \E b \in Bets :
           /\ queue[b] = <<>>
           /\ queue' = [queue EXCEPT ![b] =
                          <<[ticket |-> tickets + 1, wallet |-> WalletOf[c]]>>]
           /\ sessions' = [sessions EXCEPT ![WalletOf[c]].ticket = tickets + 1]
           /\ matches' = matches
<1>1. At(c, "enqueue") /\ matches' = matches
  BY DEF Wait
<1>2. PICK b \in Bets : Head(script[c]) = EnqueueStep(c, b)
  BY <1>1, AtEnqueue
<1>3. Head(script[c]).wallet = WalletOf[c] /\ Head(script[c]).bet = b
  BY <1>2 DEF EnqueueStep
<1> PICK entry : entry = [ticket |-> tickets + 1, wallet |-> WalletOf[c]]
  OBVIOUS
<1>4. /\ queue[b] = <<>>
      /\ queue' = [queue EXCEPT ![b] = Append(queue[b], entry)]
      /\ sessions' = [sessions EXCEPT ![WalletOf[c]].ticket = tickets + 1]
  BY <1>3 DEF Wait
<1>5. Append(<<>>, entry) = <<entry>>
  OBVIOUS
<1> QED BY <1>1, <1>4, <1>5

\* The pair of who waited with the bet and who comes.
NewMatch(v, w, b) ==
  [creator |-> v, joiner |-> w, bet |-> b, room |-> None, state |-> "AwaitingRoomCreation"]

\* Somebody waited with the bet: the two of them are a match, and no longer
\* wait.
LEMMA Paired ==
  ASSUME NEW K, Typed(K), NEW c \in Clients, Pair(c)
  PROVE  \E b \in Bets, v \in Wallets :
           /\ Waits(v, b)
           /\ queue' = [queue EXCEPT ![b] = <<>>]
           /\ matches' = Append(matches, NewMatch(v, WalletOf[c], b))
           /\ sessions' = [w \in Wallets |->
                IF w \in {v, WalletOf[c]}
                  THEN [sessions[w] EXCEPT !.ticket = 0, !.match = Len(matches) + 1]
                  ELSE sessions[w]]
<1>1. At(c, "enqueue")
  BY DEF Pair
<1>2. PICK b \in Bets : Head(script[c]) = EnqueueStep(c, b)
  BY <1>1, AtEnqueue
<1>3. Head(script[c]).wallet = WalletOf[c] /\ Head(script[c]).bet = b
  BY <1>2 DEF EnqueueStep
<1> PICK v : v = Head(queue[b]).wallet
  OBVIOUS
<1>4. /\ queue[b] # <<>>
      /\ queue' = [queue EXCEPT ![b] = Tail(queue[b])]
      /\ matches' = Append(matches, NewMatch(v, WalletOf[c], b))
      /\ sessions' = [w \in Wallets |->
           IF w \in {v, WalletOf[c]}
             THEN [sessions[w] EXCEPT !.ticket = 0, !.match = Len(matches) + 1]
             ELSE sessions[w]]
  BY <1>3 DEF Pair, NewMatch
<1>5. queue[b] \in Seq(Tickets) /\ Len(queue[b]) <= 1
  BY DEF Typed, Matchmaker
<1>6. Tail(queue[b]) = <<>>
  BY <1>4, <1>5, TailOfOnly
<1>7. Head(queue[b]) = queue[b][1] /\ queue[b][1] \in Tickets
  <2>1. queue[b] = <<queue[b][1]>> /\ queue[b][1] \in Tickets
    BY <1>4, TheEntries
  <2> PICK e : e = queue[b][1]
    OBVIOUS
  <2>2. Head(<<e>>) = e
    OBVIOUS
  <2> QED BY <2>1, <2>2
<1>8. v \in Wallets /\ Waits(v, b)
  BY <1>4, <1>7 DEF Tickets, Waits
<1> QED BY <1>4, <1>6, <1>8

\* Who waited with some bet does not any more.
LEMMA Left ==
  ASSUME NEW K, Typed(K), NEW c \in Clients, Leave(c)
  PROVE  /\ matches' = matches
         /\ \/ UNCHANGED <<queue, sessions>>
            \/ \E b \in Bets, v \in Wallets :
                 /\ Waits(v, b)
                 /\ queue' = [queue EXCEPT ![b] = <<>>]
                 /\ sessions' = [sessions EXCEPT ![v].ticket = 0]
<1>1. matches' = matches
  BY DEF Leave
<1>2. CASE UNCHANGED <<queue, sessions>>
  BY <1>1, <1>2
<1>3. CASE ~UNCHANGED <<queue, sessions>>
  <2>1. PICK place \in PlacesOf(Head(script[c]).ticket) :
          /\ queue' = [queue EXCEPT ![place[1]] = RemoveAt(@, place[2])]
          /\ sessions' = [sessions EXCEPT ![queue[place[1]][place[2]].wallet].ticket = 0]
    BY <1>3 DEF Leave
  <2>2. place \in Entries
    BY DEF PlacesOf
  <2>3. PICK b \in Bets : place = <<b, 1>> /\ queue[b] # <<>>
    BY <2>2, TheEntries
  <2>4. queue[b] \in Seq(Tickets) /\ Len(queue[b]) <= 1 /\ 1 \in DOMAIN queue[b]
    <3>1. queue[b] = <<queue[b][1]>>
      BY <2>3, TheEntries
    <3>2. DOMAIN queue[b] = {1}
      BY <3>1
    <3> QED BY <3>2 DEF Typed, Matchmaker
  <2>5. RemoveAt(queue[b], 1) = <<>>
    BY <2>4, RemoveAtOnly
  <2> PICK v : v = queue[b][1].wallet
    OBVIOUS
  <2>6. v \in Wallets /\ Waits(v, b)
    BY <2>3, TheEntries DEF Tickets, Waits
  <2>7. /\ queue' = [queue EXCEPT ![b] = <<>>]
        /\ sessions' = [sessions EXCEPT ![v].ticket = 0]
    BY <2>1, <2>3, <2>5
  <2> QED BY <1>1, <2>6, <2>7
<1> QED BY <1>2, <1>3

\* What a step, other than a restart, does to the queues, the matches and the
\* sessions.
Untouched == UNCHANGED <<queue, matches, sessions>>

Enters(w, b) ==
  /\ queue[b] = <<>>
  /\ queue' = [queue EXCEPT ![b] = <<[ticket |-> tickets + 1, wallet |-> w]>>]
  /\ sessions' = [sessions EXCEPT ![w].ticket = tickets + 1]
  /\ matches' = matches

Meets(v, w, b) ==
  /\ Waits(v, b)
  /\ queue' = [queue EXCEPT ![b] = <<>>]
  /\ matches' = Append(matches, NewMatch(v, w, b))
  /\ sessions' = [u \in Wallets |->
       IF u \in {v, w}
         THEN [sessions[u] EXCEPT !.ticket = 0, !.match = Len(matches) + 1]
         ELSE sessions[u]]

Withdraws(v, b) ==
  /\ Waits(v, b)
  /\ queue' = [queue EXCEPT ![b] = <<>>]
  /\ sessions' = [sessions EXCEPT ![v].ticket = 0]
  /\ matches' = matches

Readies(m, r) ==
  /\ Active(matches[m])
  /\ matches' = [matches EXCEPT ![m].room = r, ![m].state = "RoomReady"]
  /\ sessions' = [w \in Wallets |->
       IF w \in PlayersOf(matches[m]) THEN [sessions[w] EXCEPT !.room = r]
                                      ELSE sessions[w]]
  /\ queue' = queue

Expires(m) ==
  /\ matches[m].state = "AwaitingRoomCreation"
  /\ matches' = [matches EXCEPT ![m].state = "Expired"]
  /\ UNCHANGED <<queue, sessions>>

\* Every step of the relay, but for a restart, leaves the matchmaker alone or
\* changes it in one of five ways.
LEMMA MatchmakerSteps ==
  ASSUME NEW K, Typed(K), [Next]_vars, ~Restart
  PROVE  \/ Untouched
         \/ \E c \in Clients, b \in Bets : Wait(c) /\ Enters(WalletOf[c], b)
         \/ \E c \in Clients, b \in Bets, v \in Wallets :
              Pair(c) /\ Meets(v, WalletOf[c], b)
         \/ \E b \in Bets, v \in Wallets : Withdraws(v, b)
         \/ \E m \in DOMAIN matches, r \in Rooms : Readies(m, r)
         \/ \E m \in DOMAIN matches : Expires(m)
<1>1. ASSUME NEW c \in Clients, Wait(c)
      PROVE  \E b \in Bets : Enters(WalletOf[c], b)
  BY <1>1, Waited DEF Enters
<1>2. ASSUME NEW c \in Clients, Pair(c)
      PROVE  \E b \in Bets, v \in Wallets : Meets(v, WalletOf[c], b)
  BY <1>2, Paired DEF Meets
<1>3. ASSUME NEW c \in Clients, Leave(c)
      PROVE  Untouched \/ \E b \in Bets, v \in Wallets : Withdraws(v, b)
  BY <1>3, Left DEF Withdraws, Untouched
<1>4. ASSUME NEW c \in Clients, Register(c)
      PROVE  Untouched \/ \E m \in DOMAIN matches, r \in Rooms : Readies(m, r)
  <2>1. queue' = queue /\ At(c, "register")
    BY <1>4 DEF Register
  <2>2. PICK m \in DOMAIN matches, r \in Rooms :
          m = Head(script[c]).match /\ r = Head(script[c]).room
    BY <2>1, AtRegister
  <2>3. CASE ~Active(matches[m])
    BY <1>4, <2>1, <2>2, <2>3 DEF Register, Untouched
  <2>4. CASE Active(matches[m])
    BY <1>4, <2>1, <2>2, <2>4 DEF Register, Readies
  <2> QED BY <2>2, <2>3, <2>4
<1>5. ASSUME NEW m \in MatchIds, Expire(m)
      PROVE  Untouched \/ \E k \in DOMAIN matches : Expires(k)
  <2>1. At(m, "expire") /\ queue' = queue /\ sessions' = sessions
    BY <1>5 DEF Expire
  <2>2. CASE matches' = matches
    BY <2>1, <2>2 DEF Untouched
  <2>3. CASE matches' # matches
    <3>1. /\ matches[m].state = "AwaitingRoomCreation"
          /\ matches' = [matches EXCEPT ![m].state = "Expired"]
      BY <1>5, <2>3 DEF Expire
    <3>2. m \in DOMAIN matches
      <4> SUFFICES ASSUME m \notin DOMAIN matches PROVE FALSE
        OBVIOUS
      <4>1. matches \in Seq(Matches)
        BY DEF Typed, Matchmaker
      <4>2. matches = [k \in DOMAIN matches |-> matches[k]]
        BY <4>1
      <4> QED BY <2>3, <3>1, <4>2
    <3> QED BY <2>1, <3>1, <3>2 DEF Expires
  <2> QED BY <2>2, <2>3
<1>6. ASSUME \/ \E c \in Clients : Subscribe(c) \/ Unsubscribe(c) \/ Observe(c)
             \/ \E r \in Rooms : Update(r)
      PROVE  Untouched
  BY <1>6 DEF Subscribe, Unsubscribe, Observe, Update, matchVars, Untouched
<1>7. UNCHANGED <<matchVars, rooms, observers>> => Untouched
  BY DEF matchVars, Untouched
<1> QED BY <1>1, <1>2, <1>3, <1>4, <1>5, <1>6, <1>7, Writers

-----------------------------------------------------------------------------
(***************************************************************************)
(* The inductive invariant.                                                *)
(***************************************************************************)

\* What the checks of queue.join found of the wallet still holds later.
Checked ==
  \A c \in Clients :
    /\ JoinOpening(c, script[c]) => "join" \in Requests[c]
    /\ At(c, "check_matches") \/ At(c, "enqueue") => ~Queued(WalletOf[c])
    /\ At(c, "enqueue") => ~InMatch(WalletOf[c])

Mine(w) ==
  {m \in DOMAIN matches : w \in PlayersOf(matches[m]) /\ matches[m].state # "Forgotten"}

\* A wallet is in one place.
OnePlace ==
  /\ \A w \in Wallets, a, b \in Bets : Waits(w, a) /\ Waits(w, b) => a = b
  /\ \A w \in Wallets : Queued(w) => ~InMatch(w)
  /\ \A m \in DOMAIN matches : matches[m].creator # matches[m].joiner
  /\ \A m, k \in DOMAIN matches : \A w \in PlayersOf(matches[m]) :
       m < k /\ w \in PlayersOf(matches[k]) => ~Active(matches[m])

\* A session names the place of its wallet.
SessionFollows(w) ==
  /\ \A b \in Bets : Waits(w, b) => queue[b][1].ticket = sessions[w].ticket
  /\ ~Queued(w) => sessions[w].ticket = 0
  /\ \A m \in Mine(w) : m <= sessions[w].match
  /\ \/ sessions[w].match = 0 /\ sessions[w].room = None
     \/ /\ sessions[w].match \in Mine(w)
        /\ sessions[w].room = matches[sessions[w].match].room

\* A match has a room just when it is ready.
RoomsWhenReady ==
  \A m \in DOMAIN matches : matches[m].state = "RoomReady" <=> matches[m].room # None

\* The inductive invariant.
InOrder ==
  Checked /\ OnePlace /\ RoomsWhenReady /\ \A w \in Wallets : SessionFollows(w)

-----------------------------------------------------------------------------
(***************************************************************************)
(* The steps of queue.join.                                                *)
(***************************************************************************)

\* The opening of a join is a list of steps in order.
LEMMA JoinInOrder ==
  ASSUME NEW c, NEW q, JoinOpening(c, q)
  PROVE  /\ q # <<>>
         /\ \/ /\ Head(q) = BindStep(c) /\ Head(q).do = "bind"
               /\ Tail(q) # <<>> /\ Head(Tail(q)).do = "check_queue"
            \/ /\ Head(q) = CheckQueueStep(c) /\ Head(q).do = "check_queue"
               /\ Tail(q) # <<>> /\ Head(Tail(q)).do = "check_matches"
            \/ /\ Head(q) = CheckMatchesStep(c) /\ Head(q).do = "check_matches"
               /\ Tail(q) # <<>> /\ Head(Tail(q)).do = "enqueue"
            \/ Head(q).do = "enqueue" /\ Tail(q) = <<>>
<1>1. /\ BindStep(c).do = "bind" /\ CheckQueueStep(c).do = "check_queue"
      /\ CheckMatchesStep(c).do = "check_matches"
      /\ \A b : EnqueueStep(c, b).do = "enqueue"
  BY DEF BindStep, CheckQueueStep, CheckMatchesStep, EnqueueStep
<1>2. PICK b \in Bets :
        \/ q = <<BindStep(c), CheckQueueStep(c), CheckMatchesStep(c), EnqueueStep(c, b)>>
        \/ q = <<CheckQueueStep(c), CheckMatchesStep(c), EnqueueStep(c, b)>>
        \/ q = <<CheckMatchesStep(c), EnqueueStep(c, b)>>
        \/ q = <<EnqueueStep(c, b)>>
  BY DEF JoinOpening
<1> PICK x, y, z, e : /\ x = BindStep(c) /\ y = CheckQueueStep(c)
                      /\ z = CheckMatchesStep(c) /\ e = EnqueueStep(c, b)
  OBVIOUS
<1>3. CASE q = <<x, y, z, e>>
  BY <1>1, <1>3, Tuples
<1>4. CASE q = <<y, z, e>>
  BY <1>1, <1>4, Tuples
<1>5. CASE q = <<z, e>>
  BY <1>1, <1>5, Tuples
<1>6. CASE q = <<e>>
  BY <1>1, <1>6, Tuples
<1> QED BY <1>2, <1>3, <1>4, <1>5, <1>6

\* A handler at one of the checks or at the queue is in a join.
LEMMA AtJoin ==
  ASSUME NEW c, NEW n \in Nat, NEW R, NEW K, NEW q,
         HandlerScript(c, n, R, K, q), q # <<>>,
         Head(q).do \in {"check_queue", "check_matches", "enqueue"}
  PROVE  JoinOpening(c, q)
<1>1. Head(q).do \in {"check_queue", "check_matches", "enqueue"}
  OBVIOUS
<1>2. Opening(c, n, q)
  BY <1>1, InOpening
<1>3. ~ResumeOpening(c, n, q)
  <2> SUFFICES ASSUME NEW step \in ResumeSteps(c, n),
                      q = <<BindStep(c), step>> \/ q = <<step>>
               PROVE  FALSE
    BY DEF ResumeOpening
  <2>1. Head(q) = BindStep(c) \/ Head(q) = step
    BY Tuples
  <2> QED BY <1>1, <2>1 DEF ResumeSteps, BindStep
<1>4. ~OtherOpening(n, q)
  <2>1. ASSUME NEW x, NEW y, q = <<x>> \/ q = <<x, y>>
        PROVE  x.do \in {"check_queue", "check_matches", "enqueue"}
    BY <1>1, <2>1, Tuples
  <2> SUFFICES ASSUME OtherOpening(n, q) PROVE FALSE
    OBVIOUS
  <2>2. CASE \/ q = <<[do |-> "unregister"], [do |-> "unsubscribe"]>>
             \/ q = <<[do |-> "unsubscribe"]>>
    BY <2>1, <2>2
  <2>3. CASE \E ticket \in Nat : q = <<[do |-> "leave", ticket |-> ticket]>>
    BY <2>1, <2>3
  <2>4. CASE \E m \in 1..n, r \in Rooms :
               q = <<[do |-> "register", match |-> m, room |-> r]>>
    BY <2>1, <2>4
  <2> QED BY <2>2, <2>3, <2>4 DEF OtherOpening
<1> QED BY <1>2, <1>3, <1>4 DEF Opening

\* Past the opening a handler joins no queue.
LEMMA JoinsNoMore ==
  ASSUME NEW K, Typed(K), NEW c \in Clients, HandlerStep(c),
         Head(script[c]).do \notin OpeningKinds
  PROVE  ~JoinOpening(c, script'[c])
<1> PICK n \in Nat : n = Len(matches)
  BY LenProperties DEF Typed, Matchmaker
<1> PICK q, p : q = script[c] /\ p = script'[c]
  OBVIOUS
<1>1. PICK S : /\ \A step \in S : step.do \notin OpeningKinds
               /\ \E new \in Seq(S) : p = new \o Tail(q) \/ p = Tail(q) \o new
  BY PastOpeningProceeds DEF Proceeds
<1>2. PICK new : new \in Seq(S) /\ (p = new \o Tail(q) \/ p = Tail(q) \o new)
  BY <1>1
<1> PICK T : T = HandlerSteps(c, n, Made, K)
  OBVIOUS
<1>3. q # <<>>
  BY DEF HandlerStep, SendToClient, SendToWallet, Unregister, Unsubscribe, Bind, CheckQueue,
         CheckMatches, Wait, Pair, SpawnTimer, Leave, Register, Snapshot, Subscribe, Observe,
         Resume, FindTicket, FindMatch, ReadRoom, Address, At
<1>4. q \in Seq(T) /\ Tail(q) \in Seq(T)
  <2>1. HandlerScript(c, n, Made, K, q)
    BY DEF Typed, Scripts
  <2>2. q \in Seq(T)
    BY <1>3, <2>1, PastOpening DEF OpeningKinds
  <2> QED BY <1>3, <2>2, HeadTailProperties
<1>5. \A step \in T : step.do \notin OpeningKinds
  BY DEF HandlerSteps, Errands, Deliveries, OpeningKinds
<1> PICK U : U = S \cup T
  OBVIOUS
<1>6. p \in Seq(U)
  <2> PICK t : t = Tail(q)
    OBVIOUS
  <2>1. S \subseteq U /\ T \subseteq U
    OBVIOUS
  <2>2. new \in Seq(S) /\ t \in Seq(T)
    BY <1>2, <1>4
  <2>3. new \in Seq(U)
    BY <2>1, <2>2, SeqMonotonic
  <2>4. t \in Seq(U)
    BY <2>1, <2>2, SeqMonotonic
  <2>5. new \o t \in Seq(U) /\ t \o new \in Seq(U)
    BY <2>3, <2>4, ConcatProperties
  <2> QED BY <1>2, <2>5
<1>7. p # <<>> => Head(p) \in U
  BY <1>6, HeadTailProperties
<1> QED BY <1>1, <1>5, <1>7, JoinInOrder DEF OpeningKinds

\* Queueing is the last step of a join before the answers.
LEMMA JoinEnds ==
  ASSUME NEW K, Typed(K), NEW c \in Clients, Wait(c) \/ Pair(c)
  PROVE  \E x, y, z, e : /\ x.do = "tell"
                         /\ script'[c] = <<x>> \/ script'[c] = <<x, y, z, e>>
<1>1. c \in Tasks /\ script = [t \in Tasks |-> script[t]]
  BY DEF Typed, Scripts, Tasks
<1>2. At(c, "enqueue")
  BY DEF Wait, Pair
<1>3. Tail(script[c]) = <<>>
  BY <1>2, AtEnqueue
<1>4. \A d, message : Tell(d, message).do = "tell"
  BY DEF Tell
<1>5. PICK x, y, z, e :
        x.do = "tell" /\ (Continue(c, <<x>>) \/ Continue(c, <<x, y, z, e>>))
  <2>1. CASE Wait(c)
    <3>1. PICK x : x.do = "tell" /\ Continue(c, <<x>>)
      BY <1>4, <2>1 DEF Wait
    <3> QED BY <3>1
  <2>2. CASE Pair(c)
    <3>1. PICK x, y, z, e : x.do = "tell" /\ Continue(c, <<x, y, z, e>>)
      BY <1>4, <2>2 DEF Pair
    <3> QED BY <3>1
  <2> QED BY <2>1, <2>2
<1>6. script'[c] = <<x>> \o <<>> \/ script'[c] = <<x, y, z, e>> \o <<>>
  BY <1>1, <1>3, <1>5 DEF Continue
<1>7. <<x>> \in Seq({x}) /\ <<x, y, z, e>> \in Seq({x, y, z, e})
  OBVIOUS
<1> QED BY <1>5, <1>6, <1>7, ConcatEmptySeq

\* How a handler comes to be in a join: it receives queue.join, or one of the
\* checks before this step has found nothing.
LEMMA JoinsGoOn ==
  ASSUME NEW K, Typed(K), [Next]_vars, ~Restart, NEW c \in Clients,
         script'[c] # script[c], JoinOpening(c, script'[c])
  PROVE  \/ "join" \in Requests[c] /\ Head(script'[c]).do = "bind"
         \/ /\ JoinOpening(c, script[c])
            /\ \/ Head(script'[c]).do = "check_queue"
               \/ /\ Head(script'[c]).do = "check_matches" /\ ~InQueue(WalletOf[c])
                  /\ UNCHANGED matchVars
               \/ /\ Head(script'[c]).do = "enqueue" /\ ~InMatch(WalletOf[c])
                  /\ At(c, "check_matches") /\ UNCHANGED matchVars
<1> PICK n \in Nat : n = Len(matches)
  BY LenProperties DEF Typed, Matchmaker
<1> PICK q, p : q = script[c] /\ p = script'[c]
  OBVIOUS
<1>1. c \in Tasks /\ script = [t \in Tasks |-> script[t]]
  BY DEF Typed, Scripts, Tasks
<1>2. /\ p # <<>> /\ Head(p).do \in {"bind", "check_queue", "check_matches", "enqueue"}
      /\ Head(p).do = "bind" => Tail(p) # <<>> /\ Head(Tail(p)).do = "check_queue"
  <2>1. JoinOpening(c, p)
    OBVIOUS
  <2> HIDE DEF JoinOpening
  <2> QED BY <2>1, JoinInOrder
<1>3. \A x, y : /\ p = <<x>> \/ p = <<x, y>> => Head(p) = x
                /\ p = <<x, y>> => Tail(p) = <<y>> /\ Head(Tail(p)) = y
  <2> TAKE x, y
  <2>1. CASE p = <<x>>
    BY <2>1
  <2>2. CASE p = <<x, y>>
    BY <2>2, Tuples
  <2> QED BY <2>1, <2>2
<1>4. ~Disconnect(c)
  <2>1. Disconnect(c) => p = <<[do |-> "unregister"], [do |-> "unsubscribe"]>>
    BY <1>1 DEF Disconnect, Finish
  <2> QED BY <1>2, <1>3, <2>1
<1>5. ASSUME Request(c)
      PROVE  "join" \in Requests[c] /\ Head(p).do = "bind"
  <2>0. \A kind, steps : Receive(c, kind, steps) => kind \in Requests[c] /\ p = steps
    BY <1>1 DEF Receive, Finish
  <2>1. ASSUME NEW b, RequestJoin(c, b)
        PROVE  "join" \in Requests[c] /\ Head(p).do = "bind"
    <3>1. PICK x, y, z, e : /\ x.do = "bind" /\ "join" \in Requests[c]
                            /\ p = <<x, y, z, e>>
      BY <2>0, <2>1 DEF RequestJoin
    <3> QED BY <3>1, Tuples
  <2>2. ASSUME NEW ticket PROVE ~RequestLeave(c, ticket)
    <3>1. RequestLeave(c, ticket) => \E x : x.do = "leave" /\ p = <<x>>
      BY <2>0 DEF RequestLeave
    <3> QED BY <1>2, <1>3, <3>1
  <2>3. ASSUME NEW m, NEW r PROVE ~RequestRegister(c, m, r)
    <3>1. RequestRegister(c, m, r) => \E x : x.do = "register" /\ p = <<x>>
      BY <2>0 DEF RequestRegister
    <3> QED BY <1>2, <1>3, <3>1
  <2>4. ASSUME NEW r PROVE ~RequestSubscribe(c, r)
    <3>1. RequestSubscribe(c, r) => \E x, y : x.do = "subscribe" /\ p = <<x, y>>
      BY <2>0 DEF RequestSubscribe
    <3> QED BY <1>2, <1>3, <3>1
  <2>5. ASSUME NEW r, NEW m PROVE ~RequestResume(c, r, m)
    <3>1. RequestResume(c, r, m) =>
            \E x, y : x.do = "bind" /\ y.do = "resume" /\ p = <<x, y>>
      BY <2>0 DEF RequestResume
    <3> QED BY <1>2, <1>3, <3>1
  <2> QED BY <1>5, <2>1, <2>2, <2>3, <2>4, <2>5 DEF Request
<1>6. ASSUME HandlerStep(c)
      PROVE  /\ JoinOpening(c, q)
             /\ \/ Head(p).do = "check_queue"
                \/ /\ Head(p).do = "check_matches" /\ ~InQueue(WalletOf[c])
                   /\ UNCHANGED matchVars
                \/ /\ Head(p).do = "enqueue" /\ ~InMatch(WalletOf[c])
                   /\ At(c, "check_matches") /\ UNCHANGED matchVars
  <2>1. Head(q).do \in OpeningKinds
    BY <1>6, JoinsNoMore
  <2>2. \/ Unregister(c) \/ Unsubscribe(c) \/ Bind(c) \/ CheckQueue(c) \/ CheckMatches(c)
        \/ Wait(c) \/ Pair(c) \/ Leave(c) \/ Register(c) \/ Resume(c)
    BY <1>6, <2>1 DEF HandlerStep, SendToClient, SendToWallet, SpawnTimer, Snapshot, Subscribe,
       Observe, FindTicket, FindMatch, ReadRoom, Address, At, OpeningKinds
  <2>3. Opening(c, n, q)
    <3>1. HandlerScript(c, n, Made, K, q)
      BY DEF Typed, Scripts
    <3>2. q # <<>>
      BY <2>2 DEF Unregister, Unsubscribe, Bind, CheckQueue, CheckMatches, Wait, Pair, Leave,
                  Register, Resume, At
    <3> QED BY <2>1, <3>1, <3>2, InOpening DEF OpeningKinds
  <2>4. ASSUME NEW x, NEW y, NEW z, NEW e,
               x.do \in {"tell", "tell_wallet"}
        PROVE  p # <<x>> /\ p # <<x, y, z>> /\ p # <<x, y, z, e>>
    BY <1>2, <2>4, Tuples
  <2>5. \A d, w, message : /\ Tell(d, message).do = "tell"
                           /\ TellWallet(w, message).do = "tell_wallet"
    BY DEF Tell, TellWallet
  <2>6. ASSUME NEW new, Continue(c, new)
        PROVE  /\ p = new \o Tail(q)
               /\ new = <<>> => \A x : /\ Tail(q) = <<>> => p = <<>>
                                       /\ Tail(q) = <<x>> => p = <<x>>
    BY <1>1, <2>6, Tuples DEF Continue
  <2>7. CASE JoinOpening(c, q)
    <3>1. /\ Head(q).do = "bind" => Head(Tail(q)).do = "check_queue"
          /\ Head(q).do = "check_queue" =>
               Head(q).wallet = WalletOf[c] /\ Head(Tail(q)).do = "check_matches"
          /\ Head(q).do = "check_matches" =>
               Head(q).wallet = WalletOf[c] /\ Head(Tail(q)).do = "enqueue"
          /\ Head(q).do = "enqueue" => Tail(q) = <<>>
          /\ Head(q).do \in {"bind", "check_queue", "check_matches", "enqueue"}
      BY <2>7, JoinInOrder DEF CheckQueueStep, CheckMatchesStep
    <3>2. ASSUME Continue(c, <<>>) PROVE p = Tail(q)
      <4>1. PICK x, y, z, e : q = <<x, y, z, e>> \/ q = <<y, z, e>> \/ q = <<z, e>> \/ q = <<e>>
        BY <2>7 DEF JoinOpening
      <4>2. Tail(q) = <<y, z, e>> \/ Tail(q) = <<z, e>> \/ Tail(q) = <<e>> \/ Tail(q) = <<>>
        <5>1. CASE q = <<x, y, z, e>>
          BY <5>1, Tuples
        <5>2. CASE q = <<y, z, e>>
          BY <5>2, Tuples
        <5>3. CASE q = <<z, e>>
          BY <5>3, Tuples
        <5>4. CASE q = <<e>>
          BY <5>4, Tuples
        <5> QED BY <4>1, <5>1, <5>2, <5>3, <5>4
      <4>3. p = <<>> \o Tail(q)
        BY <1>1, <3>2 DEF Continue
      <4> QED BY <4>2, <4>3, Tuples
    <3>3. ASSUME Bind(c) PROVE Head(p).do = "check_queue"
      BY <3>1, <3>2, <3>3 DEF Bind, At
    <3>4. ASSUME CheckQueue(c)
          PROVE  /\ Head(p).do = "check_matches" /\ ~InQueue(WalletOf[c])
                 /\ UNCHANGED matchVars
      <4>1. Head(q).do = "check_queue" /\ UNCHANGED matchVars
        BY <3>4 DEF CheckQueue, At
      <4>2. CASE InQueue(WalletOf[c])
        BY <1>1, <2>4, <2>5, <3>1, <3>4, <4>1, <4>2 DEF CheckQueue, Finish
      <4>3. CASE ~InQueue(WalletOf[c])
        BY <3>1, <3>2, <3>4, <4>1, <4>3 DEF CheckQueue
      <4> QED BY <4>1, <4>2, <4>3
    <3>5. ASSUME CheckMatches(c)
          PROVE  /\ Head(p).do = "enqueue" /\ ~InMatch(WalletOf[c])
                 /\ At(c, "check_matches") /\ UNCHANGED matchVars
      <4>1. Head(q).do = "check_matches" /\ At(c, "check_matches") /\ UNCHANGED matchVars
        BY <3>5 DEF CheckMatches, At
      <4>2. CASE InMatch(WalletOf[c])
        BY <1>1, <2>4, <2>5, <3>1, <3>5, <4>1, <4>2 DEF CheckMatches, Finish
      <4>3. CASE ~InMatch(WalletOf[c])
        BY <3>1, <3>2, <3>5, <4>1, <4>3 DEF CheckMatches
      <4> QED BY <4>1, <4>2, <4>3
    <3>6. ~(Wait(c) \/ Pair(c))
      <4> SUFFICES ASSUME Wait(c) \/ Pair(c) PROVE FALSE
        OBVIOUS
      <4>1. \E x, y, z, e : /\ x.do = "tell"
                            /\ script'[c] = <<x>> \/ script'[c] = <<x, y, z, e>>
        BY JoinEnds
      <4>2. PICK x, y, z, e : x.do = "tell" /\ (p = <<x>> \/ p = <<x, y, z, e>>)
        BY <4>1
      <4> QED BY <2>4, <4>2
    <3>7. ~(\/ Unregister(c) \/ Unsubscribe(c) \/ Leave(c) \/ Register(c) \/ Resume(c))
      BY <3>1 DEF Unregister, Unsubscribe, Leave, Register, Resume, At
    <3> QED BY <2>2, <2>7, <3>3, <3>4, <3>5, <3>6, <3>7
  <2>8. ~ResumeOpening(c, n, q)
    <3> SUFFICES ASSUME NEW step \in ResumeSteps(c, n),
                        q = <<BindStep(c), step>> \/ q = <<step>>
                 PROVE  FALSE
      BY DEF ResumeOpening
    <3>1. step.do = "resume"
      BY DEF ResumeSteps
    <3>2. CASE q = <<BindStep(c), step>>
      <4>1. Head(q).do = "bind" /\ Tail(q) = <<step>>
        BY <3>2, Tuples DEF BindStep
      <4>2. Bind(c)
        BY <2>2, <4>1 DEF Unregister, Unsubscribe, CheckQueue, CheckMatches, Wait, Pair, Leave,
                          Register, Resume, At
      <4>3. p = <<step>>
        BY <2>6, <4>1, <4>2 DEF Bind
      <4> QED BY <1>2, <1>3, <3>1, <4>3
    <3>3. CASE q = <<step>>
      <4>1. Head(q).do = "resume"
        BY <3>1, <3>3
      <4>2. Resume(c)
        BY <2>2, <4>1 DEF Unregister, Unsubscribe, Bind, CheckQueue, CheckMatches, Wait, Pair,
                          Leave, Register, At
      <4> PICK K2 : K2 = K \cup Current'
        OBVIOUS
      <4> PICK T : T = HandlerSteps(c, n, Made, K)
        OBVIOUS
      <4>3. p \in Seq(T)
        BY <4>2, ResumeTyped
      <4>4. Head(p) \in T
        BY <1>2, <4>3, HeadTailProperties
      <4> QED BY <1>2, <4>4 DEF HandlerSteps, Errands, Deliveries
    <3> QED BY <3>2, <3>3
  <2>9. ~OtherOpening(n, q)
    <3> SUFFICES ASSUME OtherOpening(n, q) PROVE FALSE
      OBVIOUS
    <3>1. ASSUME NEW x, NEW y, q = <<x, y>>, x.do = "unregister", y.do = "unsubscribe"
          PROVE  FALSE
      <4>1. Head(q).do = "unregister" /\ Tail(q) = <<y>>
        BY <3>1, Tuples
      <4>2. Unregister(c)
        BY <2>2, <4>1 DEF Unsubscribe, Bind, CheckQueue, CheckMatches, Wait, Pair, Leave,
                          Register, Resume, At
      <4>3. p = <<y>>
        BY <2>6, <4>1, <4>2 DEF Unregister
      <4> QED BY <1>2, <1>3, <3>1, <4>3
    <3>2. ASSUME NEW x, q = <<x>>, x.do = "unsubscribe" PROVE FALSE
      <4>1. Head(q).do = "unsubscribe" /\ Tail(q) = <<>>
        BY <3>2, Tuples
      <4>2. Unsubscribe(c)
        BY <2>2, <4>1 DEF Unregister, Bind, CheckQueue, CheckMatches, Wait, Pair, Leave,
                          Register, Resume, At
      <4>3. p = <<>>
        BY <2>6, <4>1, <4>2 DEF Unsubscribe
      <4> QED BY <1>2, <4>3
    <3>3. ASSUME NEW x, q = <<x>>, x.do = "leave" PROVE FALSE
      <4>1. Head(q).do = "leave" /\ Tail(q) = <<>>
        BY <3>3, Tuples
      <4>2. Leave(c)
        BY <2>2, <4>1 DEF Unregister, Unsubscribe, Bind, CheckQueue, CheckMatches, Wait, Pair,
                          Register, Resume, At
      <4>3. Continue(c, <<>>) \/ \E y : y.do = "tell" /\ Continue(c, <<y>>)
        BY <2>5, <4>2 DEF Leave
      <4>4. p = <<>> \/ \E y : y.do = "tell" /\ p = <<y>> \o <<>>
        BY <2>6, <4>1, <4>3
      <4>5. \A y : <<y>> \in Seq({y})
        OBVIOUS
      <4>6. \A y : <<y>> \o <<>> = <<y>>
        BY <4>5, ConcatEmptySeq
      <4> QED BY <1>2, <2>4, <4>4, <4>6
    <3>4. ASSUME NEW x, q = <<x>>, x.do = "register" PROVE FALSE
      <4>1. Head(q).do = "register" /\ Tail(q) = <<>>
        BY <3>4, Tuples
      <4>2. Register(c)
        BY <2>2, <4>1 DEF Unregister, Unsubscribe, Bind, CheckQueue, CheckMatches, Wait, Pair,
                          Leave, Resume, At
      <4>3. \/ \E y : y.do = "tell" /\ script' = [script EXCEPT ![c] = <<y>>]
            \/ \E y, z, e : y.do = "tell_wallet" /\ Continue(c, <<y, z, e>>)
        <5>1. \/ \E code : Finish(c, <<Tell(c, Error(code))>>)
              \/ \E w, m, z, e : Continue(c, <<TellWallet(w, m), z, e>>)
          BY <4>2 DEF Register
        <5> QED BY <2>5, <5>1 DEF Finish
      <4>4. \A y, z, e : <<y, z, e>> \in Seq({y, z, e})
        OBVIOUS
      <4>5. \A y, z, e : <<y, z, e>> \o <<>> = <<y, z, e>>
        BY <4>4, ConcatEmptySeq
      <4>6. \/ \E y : y.do = "tell" /\ p = <<y>>
            \/ \E y, z, e : y.do = "tell_wallet" /\ p = <<y, z, e>>
        <5>1. ASSUME NEW y, y.do = "tell", script' = [script EXCEPT ![c] = <<y>>]
              PROVE  p = <<y>>
          BY <1>1, <5>1
        <5>2. ASSUME NEW y, NEW z, NEW e, Continue(c, <<y, z, e>>)
              PROVE  p = <<y, z, e>>
          BY <2>6, <4>1, <4>5, <5>2
        <5> QED BY <4>3, <5>1, <5>2
      <4> QED BY <2>4, <4>6
    <3>5. \/ \E x, y : q = <<x, y>> /\ x.do = "unregister" /\ y.do = "unsubscribe"
          \/ \E x : q = <<x>> /\ x.do \in {"unsubscribe", "leave", "register"}
      <4>1. CASE q = <<[do |-> "unregister"], [do |-> "unsubscribe"]>>
        BY <4>1
      <4>2. CASE q = <<[do |-> "unsubscribe"]>>
        BY <4>2
      <4>3. CASE \E ticket \in Nat : q = <<[do |-> "leave", ticket |-> ticket]>>
        BY <4>3
      <4>4. CASE \E m \in 1..n, r \in Rooms :
                   q = <<[do |-> "register", match |-> m, room |-> r]>>
        BY <4>4
      <4> QED BY <4>1, <4>2, <4>3, <4>4 DEF OtherOpening
    <3> QED BY <3>1, <3>2, <3>3, <3>4, <3>5
  <2> QED BY <2>3, <2>7, <2>8, <2>9 DEF Opening
<1> QED BY <1>4, <1>5, <1>6, HandlersRewriteTheirOwn

-----------------------------------------------------------------------------
(***************************************************************************)
(* What the steps make of the places of the wallets.                       *)
(***************************************************************************)

\* The shape of the matches, used below.
LEMMA TheMatches ==
  ASSUME NEW K, Typed(K)
  PROVE  /\ Len(matches) \in Nat /\ DOMAIN matches = 1..Len(matches)
         /\ \A m \in DOMAIN matches : matches[m] \in Matches
         /\ queue = [b \in Bets |-> queue[b]]
         /\ sessions = [w \in Wallets |-> sessions[w]]
         /\ \A w \in Wallets : sessions[w] \in Sessions
<1>1. matches \in Seq(Matches) /\ sessions \in [Wallets -> Sessions]
  BY DEF Typed, Matchmaker
<1>2. queue = [b \in Bets |-> queue[b]]
  BY DEF Typed, Matchmaker
<1>3. \A m \in 1..Len(matches) : matches[m] \in Matches
  BY <1>1, ElementOfSeq
<1> QED BY <1>1, <1>2, <1>3, LenProperties

SameMatches ==
  \A u : (InMatch(u)' <=> InMatch(u)) /\ Mine(u)' = Mine(u)

\* Who plays what depends on the matches alone.
LEMMA MatchesUnchanged ==
  ASSUME matches' = matches
  PROVE  SameMatches
BY DEF SameMatches, InMatch, Mine, Active, PlayersOf

\* The state after a wallet has entered the queue.
LEMMA AfterEnters ==
  ASSUME NEW K, Typed(K), NEW w \in Wallets, NEW b \in Bets, Enters(w, b)
  PROVE  /\ \A u : \A a \in Bets : Waits(u, a)' <=> Waits(u, a) \/ (u = w /\ a = b)
         /\ queue'[b][1].ticket = tickets + 1
         /\ \A a \in Bets \ {b} : queue'[a] = queue[a]
         /\ sessions'[w] = [sessions[w] EXCEPT !.ticket = tickets + 1]
         /\ \A u \in Wallets \ {w} : sessions'[u] = sessions[u]
<1>1. PICK e : e = [ticket |-> tickets + 1, wallet |-> w]
  OBVIOUS
<1>2. queue'[b] = <<e>> /\ queue[b] = <<>> /\ \A a \in Bets \ {b} : queue'[a] = queue[a]
  BY <1>1, TheMatches DEF Enters
<1>3. <<e>>[1] = e /\ <<e>> # <<>>
  OBVIOUS
<1>4. \A u : \A a \in Bets : Waits(u, a)' <=> Waits(u, a) \/ (u = w /\ a = b)
  BY <1>1, <1>2, <1>3 DEF Waits
<1>5. /\ sessions'[w] = [sessions[w] EXCEPT !.ticket = tickets + 1]
      /\ \A u \in Wallets \ {w} : sessions'[u] = sessions[u]
  BY TheMatches DEF Enters
<1> QED BY <1>1, <1>2, <1>3, <1>4, <1>5

\* The queue of the bet is empty afterwards.
LEMMA AfterEmptied ==
  ASSUME NEW K, Typed(K), NEW v, NEW b \in Bets, Waits(v, b),
         queue' = [queue EXCEPT ![b] = <<>>]
  PROVE  /\ \A u : \A a \in Bets : Waits(u, a)' <=> Waits(u, a) /\ a # b
         /\ \A u : Waits(u, b) => u = v
         /\ \A a \in Bets \ {b} : queue'[a] = queue[a]
<1>1. queue'[b] = <<>> /\ \A a \in Bets \ {b} : queue'[a] = queue[a]
  BY TheMatches
<1>2. \A u : \A a \in Bets : Waits(u, a)' <=> Waits(u, a) /\ a # b
  BY <1>1 DEF Waits
<1> QED BY <1>1, <1>2 DEF Waits

Met(n, v, w, b) ==
  /\ n = Len(matches) /\ DOMAIN matches = 1..n /\ DOMAIN matches' = 1..(n + 1)
  /\ \A m \in 1..n : matches'[m] = matches[m]
  /\ matches'[n + 1] = NewMatch(v, w, b)
  /\ PlayersOf(matches'[n + 1]) = {v, w}
  /\ Active(matches'[n + 1])
  /\ \A u : InMatch(u)' <=> InMatch(u) \/ u \in {v, w}
  /\ \A u : Mine(u)' = Mine(u) \cup (IF u \in {v, w} THEN {n + 1} ELSE {})
  /\ \A u \in {v, w} :
       sessions'[u] = [sessions[u] EXCEPT !.ticket = 0, !.match = n + 1]
  /\ \A u \in Wallets \ {v, w} : sessions'[u] = sessions[u]

\* The state after two wallets have been paired.
LEMMA AfterMeets ==
  ASSUME NEW K, Typed(K), NEW v \in Wallets, NEW w \in Wallets, NEW b \in Bets,
         Meets(v, w, b)
  PROVE  \E n \in Nat : Met(n, v, w, b)
<1>1. PICK n \in Nat : n = Len(matches) /\ DOMAIN matches = 1..n
  BY TheMatches
<1>2. PICK new : new = NewMatch(v, w, b)
  OBVIOUS
<1>3. matches \in Seq(Matches) /\ matches' = Append(matches, new)
  BY <1>2 DEF Typed, Matchmaker, Meets
<1>4. /\ DOMAIN matches' = 1..(n + 1) /\ matches'[n + 1] = new
      /\ \A m \in 1..n : matches'[m] = matches[m]
  BY <1>1, <1>3
<1>5. PlayersOf(new) = {v, w} /\ Active(new) /\ new.state # "Forgotten"
  BY <1>2 DEF PlayersOf, Active, NewMatch
<1>6. \A m : m \in 1..(n + 1) <=> m \in 1..n \/ m = n + 1
  BY <1>1
<1>7. \A u : InMatch(u)' <=> InMatch(u) \/ u \in {v, w}
  <2>1. \A u : InMatch(u)' <=> \E m \in DOMAIN matches' :
                 Active(matches'[m]) /\ u \in PlayersOf(matches'[m])
    BY DEF InMatch, Active, PlayersOf
  <2> QED BY <1>1, <1>4, <1>5, <1>6, <2>1 DEF InMatch
<1>8. \A u : Mine(u)' = Mine(u) \cup (IF u \in {v, w} THEN {n + 1} ELSE {})
  <2>1. \A u : Mine(u)' = {m \in DOMAIN matches' :
                 u \in PlayersOf(matches'[m]) /\ matches'[m].state # "Forgotten"}
    BY DEF Mine, PlayersOf
  <2> QED BY <1>1, <1>4, <1>5, <1>6, <2>1 DEF Mine
<1>9. /\ \A u \in {v, w} :
           sessions'[u] = [sessions[u] EXCEPT !.ticket = 0, !.match = n + 1]
      /\ \A u \in Wallets \ {v, w} : sessions'[u] = sessions[u]
  BY <1>1 DEF Meets
<1>10. Met(n, v, w, b)
  BY <1>1, <1>2, <1>4, <1>5, <1>7, <1>8, <1>9 DEF Met
<1> QED BY <1>1, <1>10

\* The state after a match has got its room.
LEMMA AfterReadies ==
  ASSUME NEW K, Typed(K), NEW m \in DOMAIN matches, NEW r \in Rooms, Readies(m, r)
  PROVE  /\ DOMAIN matches' = DOMAIN matches
         /\ matches'[m] = [matches[m] EXCEPT !.room = r, !.state = "RoomReady"]
         /\ matches'[m].room = r /\ matches'[m].state = "RoomReady"
         /\ \A k \in DOMAIN matches \ {m} : matches'[k] = matches[k]
         /\ \A k \in DOMAIN matches : /\ PlayersOf(matches'[k]) = PlayersOf(matches[k])
                                      /\ Active(matches'[k]) <=> Active(matches[k])
         /\ SameMatches
<1>1. /\ DOMAIN matches' = DOMAIN matches
      /\ matches'[m] = [matches[m] EXCEPT !.room = r, !.state = "RoomReady"]
      /\ \A k \in DOMAIN matches \ {m} : matches'[k] = matches[k]
  <2>1. matches = [k \in DOMAIN matches |-> matches[k]]
    BY DEF Typed, Matchmaker
  <2> QED BY <2>1 DEF Readies
<1>2. matches[m] \in Matches /\ Active(matches[m]) /\ matches[m].state # "Forgotten"
  BY TheMatches DEF Readies, Active
<1>3. /\ PlayersOf(matches'[m]) = PlayersOf(matches[m])
      /\ matches'[m].room = r /\ matches'[m].state = "RoomReady" /\ Active(matches'[m])
  BY <1>1, <1>2 DEF Matches, PlayersOf, Active
<1>4. \A k \in DOMAIN matches : /\ PlayersOf(matches'[k]) = PlayersOf(matches[k])
                                /\ Active(matches'[k]) <=> Active(matches[k])
                                /\ matches'[k].state = "Forgotten" <=> matches[k].state = "Forgotten"
  BY <1>1, <1>2, <1>3
<1>5. /\ \A u : InMatch(u)' <=> \E k \in DOMAIN matches' :
                  Active(matches'[k]) /\ u \in PlayersOf(matches'[k])
      /\ \A u : Mine(u)' = {k \in DOMAIN matches' :
                  u \in PlayersOf(matches'[k]) /\ matches'[k].state # "Forgotten"}
  BY DEF InMatch, Mine, Active, PlayersOf
<1>6. SameMatches
  BY <1>1, <1>4, <1>5 DEF SameMatches, InMatch, Mine
<1> QED BY <1>1, <1>3, <1>4, <1>6

\* The state after a match has expired.
LEMMA AfterExpires ==
  ASSUME NEW K, Typed(K), NEW m \in DOMAIN matches, Expires(m)
  PROVE  /\ DOMAIN matches' = DOMAIN matches
         /\ matches'[m].room = matches[m].room /\ matches'[m].state = "Expired"
         /\ \A k \in DOMAIN matches \ {m} : matches'[k] = matches[k]
         /\ \A k \in DOMAIN matches : /\ PlayersOf(matches'[k]) = PlayersOf(matches[k])
                                      /\ Active(matches'[k]) => Active(matches[k])
         /\ \A u : (InMatch(u)' => InMatch(u)) /\ Mine(u)' = Mine(u)
<1>1. /\ DOMAIN matches' = DOMAIN matches
      /\ matches'[m] = [matches[m] EXCEPT !.state = "Expired"]
      /\ \A k \in DOMAIN matches \ {m} : matches'[k] = matches[k]
  <2>1. matches = [k \in DOMAIN matches |-> matches[k]]
    BY DEF Typed, Matchmaker
  <2> QED BY <2>1 DEF Expires
<1>2. matches[m] \in Matches /\ matches[m].state = "AwaitingRoomCreation"
  BY TheMatches DEF Expires
<1>3. /\ PlayersOf(matches'[m]) = PlayersOf(matches[m])
      /\ matches'[m].room = matches[m].room
      /\ matches'[m].state = "Expired" /\ ~Active(matches'[m])
  BY <1>1, <1>2 DEF Matches, PlayersOf, Active
<1>4. \A k \in DOMAIN matches : /\ PlayersOf(matches'[k]) = PlayersOf(matches[k])
                                /\ Active(matches'[k]) => Active(matches[k])
                                /\ matches'[k].state = "Forgotten" <=> matches[k].state = "Forgotten"
  BY <1>1, <1>2, <1>3
<1>5. /\ \A u : InMatch(u)' <=> \E k \in DOMAIN matches' :
                  Active(matches'[k]) /\ u \in PlayersOf(matches'[k])
      /\ \A u : Mine(u)' = {k \in DOMAIN matches' :
                  u \in PlayersOf(matches'[k]) /\ matches'[k].state # "Forgotten"}
  BY DEF InMatch, Mine, Active, PlayersOf
<1>6. \A u : (InMatch(u)' => InMatch(u)) /\ Mine(u)' = Mine(u)
  BY <1>1, <1>4, <1>5 DEF InMatch, Mine
<1> QED BY <1>1, <1>3, <1>4, <1>6

-----------------------------------------------------------------------------
(***************************************************************************)
(* The invariant is kept.                                                  *)
(***************************************************************************)

\* Whoever queues is where the checks of queue.join lead to.
LEMMA WhoQueues ==
  ASSUME NEW K, Typed(K), Checked, NEW c \in Clients, Wait(c) \/ Pair(c)
  PROVE  /\ At(c, "enqueue")
         /\ "join" \in Requests[c]
         /\ WalletOf[c] \in Wallets
         /\ ~Queued(WalletOf[c]) /\ ~InMatch(WalletOf[c])
<1>1. At(c, "enqueue")
  BY DEF Wait, Pair
<1>2. JoinOpening(c, script[c])
  <2>1. HandlerScript(c, Len(matches), Made, K, script[c]) /\ Len(matches) \in Nat
    BY TheMatches DEF Typed, Scripts
  <2> QED BY <1>1, <2>1, AtJoin DEF At
<1> QED BY <1>1, <1>2, RelayAssumption DEF Checked

\* A wallet begins to wait or to play only by a step of the task that joins
\* for it, or, if it waits, by that of another wallet.
LEMMA Newcomers ==
  ASSUME NEW K, Typed(K), Checked, [Next]_vars, ~Restart, NEW w \in Wallets
  PROVE  /\ Queued(w)' /\ ~Queued(w) =>
              \E c \in Clients : Wait(c) /\ WalletOf[c] = w
         /\ InMatch(w)' /\ ~InMatch(w) =>
              Queued(w) \/ \E c \in Clients : Pair(c) /\ WalletOf[c] = w
<1>1. CASE Untouched
  BY <1>1 DEF Untouched, Queued, Waits, InMatch, Active, PlayersOf
<1>2. ASSUME NEW c \in Clients, NEW b \in Bets, Wait(c), Enters(WalletOf[c], b)
      PROVE  /\ Queued(w)' /\ ~Queued(w) => Wait(c) /\ WalletOf[c] = w
             /\ InMatch(w)' <=> InMatch(w)
  <2>1. WalletOf[c] \in Wallets
    BY RelayAssumption
  <2>2. Queued(w)' => Queued(w) \/ w = WalletOf[c]
    BY <1>2, <2>1, AfterEnters DEF Queued
  <2>3. InMatch(w)' <=> InMatch(w)
    BY <1>2, MatchesUnchanged DEF Enters, SameMatches
  <2> QED BY <1>2, <2>2, <2>3
<1>3. ASSUME NEW c \in Clients, NEW b \in Bets, NEW v \in Wallets,
             Pair(c), Meets(v, WalletOf[c], b)
      PROVE  /\ Queued(w)' => Queued(w)
             /\ InMatch(w)' /\ ~InMatch(w) => Queued(w) \/ (Pair(c) /\ WalletOf[c] = w)
  <2>1. WalletOf[c] \in Wallets
    BY RelayAssumption
  <2>2. Queued(w)' => Queued(w)
    <3>1. Waits(v, b) /\ queue' = [queue EXCEPT ![b] = <<>>]
      BY <1>3 DEF Meets
    <3> QED BY <3>1, AfterEmptied DEF Queued
  <2>3. InMatch(w)' => InMatch(w) \/ w \in {v, WalletOf[c]}
    <3>1. PICK n \in Nat : Met(n, v, WalletOf[c], b)
      BY <1>3, <2>1, AfterMeets
    <3> QED BY <3>1 DEF Met
  <2>4. Queued(v)
    BY <1>3 DEF Meets, Queued
  <2> QED BY <1>3, <2>2, <2>3, <2>4
<1>4. ASSUME NEW b \in Bets, NEW v \in Wallets, Withdraws(v, b)
      PROVE  (Queued(w)' => Queued(w)) /\ (InMatch(w)' <=> InMatch(w))
  <2>1. Queued(w)' => Queued(w)
    <3>1. Waits(v, b) /\ queue' = [queue EXCEPT ![b] = <<>>]
      BY <1>4 DEF Withdraws
    <3> QED BY <3>1, AfterEmptied DEF Queued
  <2>2. InMatch(w)' <=> InMatch(w)
    BY <1>4, MatchesUnchanged DEF Withdraws, SameMatches
  <2> QED BY <2>1, <2>2
<1>5. ASSUME NEW m \in DOMAIN matches,
             (\E r \in Rooms : Readies(m, r)) \/ Expires(m)
      PROVE  (Queued(w)' => Queued(w)) /\ (InMatch(w)' => InMatch(w))
  <2>1. queue' = queue
    BY <1>5 DEF Readies, Expires
  <2>2. InMatch(w)' => InMatch(w)
    BY <1>5, AfterReadies, AfterExpires DEF SameMatches
  <2> QED BY <2>1, <2>2 DEF Queued, Waits
<1> QED BY <1>1, <1>2, <1>3, <1>4, <1>5, MatchmakerSteps

\* What a join has checked stays true until it acts on it: between the
\* checks and the queue no other step puts its wallet in a queue or a match.
LEMMA CheckedStays ==
  ASSUME NEW K, NEW K2, Typed(K), Typed(K2)', OneJoins, Checked, [Next]_vars, ~Restart
  PROVE  Checked'
<1> SUFFICES ASSUME NEW c \in Clients
             PROVE  /\ JoinOpening(c, script'[c]) => "join" \in Requests[c]
                    /\ At(c, "check_matches")' \/ At(c, "enqueue")' => ~Queued(WalletOf[c])'
                    /\ At(c, "enqueue")' => ~InMatch(WalletOf[c])'
  BY DEF Checked
<1> PICK w \in Wallets : w = WalletOf[c]
  BY RelayAssumption
<1>1. JoinOpening(c, script'[c]) => "join" \in Requests[c]
  <2>1. CASE script'[c] = script[c]
    BY <2>1 DEF Checked
  <2>2. CASE script'[c] # script[c]
    BY <2>2, JoinsGoOn DEF Checked
  <2> QED BY <2>1, <2>2
<1>2. At(c, "check_matches")' \/ At(c, "enqueue")' => JoinOpening(c, script'[c])
  <2>1. Len(matches') \in Nat
    <3>1. matches' \in Seq(Matches')
      BY DEF Typed, Matchmaker
    <3> QED BY <3>1, LenProperties
  <2>2. HandlerScript(c, Len(matches'), Made', K2, script'[c])
    BY DEF Typed, Scripts
  <2> QED BY <2>1, <2>2, AtJoin DEF At
<1>3. CASE script'[c] # script[c]
  <2>1. UNCHANGED matchVars => /\ Queued(w)' <=> Queued(w)
                               /\ InMatch(w)' <=> InMatch(w)
    BY DEF matchVars, Queued, Waits, InMatch, Active, PlayersOf
  <2>2. InQueue(w) <=> Queued(w)
    BY QueuedIsInQueue
  <2>3. JoinOpening(c, script'[c]) =>
          \/ Head(script'[c]).do \in {"bind", "check_queue"}
          \/ /\ Head(script'[c]).do = "check_matches" /\ ~InQueue(w)
             /\ UNCHANGED matchVars
          \/ /\ Head(script'[c]).do = "enqueue" /\ ~InMatch(w)
             /\ At(c, "check_matches") /\ UNCHANGED matchVars
    BY <1>3, JoinsGoOn
  <2>4. /\ At(c, "check_matches")' => Head(script'[c]).do = "check_matches"
        /\ At(c, "enqueue")' => Head(script'[c]).do = "enqueue"
    BY DEF At
  <2>5. At(c, "check_matches")' => ~InQueue(w) /\ UNCHANGED matchVars
    BY <1>2, <2>3, <2>4
  <2>6. At(c, "enqueue")' => ~InMatch(w) /\ At(c, "check_matches") /\ UNCHANGED matchVars
    BY <1>2, <2>3, <2>4
  <2> QED BY <1>1, <2>1, <2>2, <2>5, <2>6 DEF Checked
<1>4. CASE script'[c] = script[c]
  <2>1. /\ At(c, "check_matches")' <=> At(c, "check_matches")
        /\ At(c, "enqueue")' <=> At(c, "enqueue")
    BY <1>4 DEF At
  <2>2. ASSUME At(c, "check_matches") \/ At(c, "enqueue"), NEW d \in Clients,
               Wait(d) \/ Pair(d), WalletOf[d] = w
        PROVE  FALSE
    <3>1. "join" \in Requests[c] /\ "join" \in Requests[d]
      BY <1>1, <1>2, <2>1, <2>2, WhoQueues
    <3>2. d = c
      BY <2>2, <3>1 DEF OneJoins
    <3>3. At(c, "enqueue")
      BY <2>2, <3>2, WhoQueues
    <3>4. PICK x, y, z, e : x.do = "tell" /\ (script'[c] = <<x>> \/ script'[c] = <<x, y, z, e>>)
      BY <2>2, <3>2, JoinEnds
    <3>5. Head(script'[c]).do = "tell"
      BY <3>4, Tuples
    <3> QED BY <1>4, <3>3, <3>5 DEF At
  <2> QED BY <1>1, <2>1, <2>2, Newcomers DEF Checked
<1> QED BY <1>3, <1>4

\* No step puts a wallet in two places.
LEMMA OnePlaceStays ==
  ASSUME NEW K, Typed(K), Checked, OnePlace, [Next]_vars, ~Restart
  PROVE  OnePlace'
<1> DEFINE Once == \A w \in Wallets, a, b \in Bets : Waits(w, a) /\ Waits(w, b) => a = b
           Apart == \A w \in Wallets : Queued(w) => ~InMatch(w)
           Two == \A m \in DOMAIN matches : matches[m].creator # matches[m].joiner
           Latest == \A m, k \in DOMAIN matches : \A w \in PlayersOf(matches[m]) :
                     m < k /\ w \in PlayersOf(matches[k]) => ~Active(matches[m])
<1>1. Once /\ Apart /\ Two /\ Latest
  BY DEF OnePlace
<1>2. Once' /\ Apart' /\ Two' /\ Latest' => OnePlace'
  BY DEF OnePlace
<1>3. matches' = matches => Two' /\ Latest' /\ SameMatches
  BY <1>1, MatchesUnchanged DEF PlayersOf, Active
<1>4. CASE Untouched
  <2>1. Once' /\ Apart'
    BY <1>1, <1>3, <1>4 DEF Untouched, Queued, Waits, SameMatches
  <2> QED BY <1>2, <1>3, <1>4, <2>1 DEF Untouched
<1>5. ASSUME NEW c \in Clients, NEW b \in Bets, Wait(c), Enters(WalletOf[c], b)
      PROVE  OnePlace'
  <2> PICK w \in Wallets : w = WalletOf[c]
    BY RelayAssumption
  <2>1. ~Queued(w) /\ ~InMatch(w)
    BY <1>5, WhoQueues
  <2>2. \A u : \A a \in Bets : Waits(u, a)' <=> Waits(u, a) \/ (u = w /\ a = b)
    BY <1>5, AfterEnters
  <2>3. Once'
    BY <1>1, <2>1, <2>2 DEF Queued
  <2>4. \A u : Queued(u)' => Queued(u) \/ u = w
    BY <2>2 DEF Queued
  <2>5. Two' /\ Latest' /\ SameMatches
    BY <1>3, <1>5 DEF Enters
  <2>6. Apart'
    BY <1>1, <2>1, <2>4, <2>5 DEF SameMatches
  <2> QED BY <1>2, <2>3, <2>5, <2>6
<1>6. ASSUME NEW c \in Clients, NEW b \in Bets, NEW v \in Wallets,
             Pair(c), Meets(v, WalletOf[c], b)
      PROVE  OnePlace'
  <2> PICK w \in Wallets : w = WalletOf[c]
    BY RelayAssumption
  <2>1. ~Queued(w) /\ ~InMatch(w)
    BY <1>6, WhoQueues
  <2>2. Waits(v, b) /\ Queued(v) /\ ~InMatch(v) /\ v # w
    BY <1>1, <1>6, <2>1 DEF Meets, Queued
  <2>3. \A u : \A a \in Bets : Waits(u, a)' <=> Waits(u, a) /\ a # b
    BY <1>6, <2>2, AfterEmptied DEF Meets
  <2>4. PICK n \in Nat :
          /\ DOMAIN matches = 1..n /\ DOMAIN matches' = 1..(n + 1)
          /\ \A m \in 1..n : matches'[m] = matches[m]
          /\ matches'[n + 1] = NewMatch(v, w, b)
          /\ PlayersOf(matches'[n + 1]) = {v, w}
          /\ \A u : InMatch(u)' <=> InMatch(u) \/ u \in {v, w}
    <3>1. PICK n \in Nat : Met(n, v, w, b)
      BY <1>6, AfterMeets
    <3> QED BY <3>1 DEF Met
  <2>5. Once'
    BY <1>1, <2>3
  <2>6. \A u : Queued(u)' => Queued(u)
    BY <2>3 DEF Queued
  <2>7. ~Queued(v)' /\ ~Queued(w)'
    BY <1>1, <2>1, <2>2, <2>3, <2>6 DEF Queued
  <2>8. Apart'
    BY <1>1, <2>4, <2>6, <2>7
  <2>9. Two'
    <3>1. NewMatch(v, w, b).creator # NewMatch(v, w, b).joiner
      BY <2>2 DEF NewMatch
    <3> SUFFICES ASSUME NEW m \in DOMAIN matches'
                 PROVE  matches'[m].creator # matches'[m].joiner
      OBVIOUS
    <3>2. m \in 1..n \/ m = n + 1
      BY <2>4
    <3> QED BY <1>1, <2>4, <3>1, <3>2
  <2>10. Latest'
    <3>1. \A m \in DOMAIN matches : \A u \in PlayersOf(matches[m]) :
            u \in {v, w} => ~Active(matches[m])
      BY <2>1, <2>2 DEF InMatch
    <3>2. \A m \in 1..n : /\ m \in DOMAIN matches
                          /\ PlayersOf(matches'[m]) = PlayersOf(matches[m])
                          /\ Active(matches'[m]) <=> Active(matches[m])
      BY <2>4
    <3> SUFFICES ASSUME NEW m \in DOMAIN matches', NEW k \in DOMAIN matches',
                        NEW u \in PlayersOf(matches'[m]),
                        m < k, u \in PlayersOf(matches'[k])
                 PROVE  ~Active(matches'[m])
      BY DEF PlayersOf, Active
    <3>3. m \in 1..n
      BY <2>4
    <3>4. k \in 1..n \/ k = n + 1
      BY <2>4
    <3> QED BY <1>1, <2>4, <3>1, <3>2, <3>3, <3>4
  <2> QED BY <1>2, <2>5, <2>8, <2>9, <2>10
<1>7. ASSUME NEW b \in Bets, NEW v \in Wallets, Withdraws(v, b)
      PROVE  OnePlace'
  <2>1. \A u : \A a \in Bets : Waits(u, a)' <=> Waits(u, a) /\ a # b
    BY <1>7, AfterEmptied DEF Withdraws
  <2>2. Once'
    BY <1>1, <2>1
  <2>3. \A u : Queued(u)' => Queued(u)
    BY <2>1 DEF Queued
  <2>4. Two' /\ Latest' /\ SameMatches
    BY <1>3, <1>7 DEF Withdraws
  <2>5. Apart'
    BY <1>1, <2>3, <2>4 DEF SameMatches
  <2> QED BY <1>2, <2>2, <2>4, <2>5
<1>8. ASSUME NEW m \in DOMAIN matches,
             (\E r \in Rooms : Readies(m, r)) \/ Expires(m)
      PROVE  OnePlace'
  <2>1. queue' = queue
    BY <1>8 DEF Readies, Expires
  <2>2. /\ DOMAIN matches' = DOMAIN matches
        /\ \A k \in DOMAIN matches : /\ PlayersOf(matches'[k]) = PlayersOf(matches[k])
                                     /\ Active(matches'[k]) => Active(matches[k])
        /\ \A u : InMatch(u)' => InMatch(u)
    BY <1>8, AfterReadies, AfterExpires DEF SameMatches
  <2>3. Once'
    BY <1>1, <2>1 DEF Waits
  <2>4. Apart'
    BY <1>1, <2>1, <2>2 DEF Queued, Waits
  <2>5. Two'
    <3>1. \A k \in DOMAIN matches :
            /\ matches'[k].creator = matches[k].creator
            /\ matches'[k].joiner = matches[k].joiner
      <4> SUFFICES ASSUME NEW k \in DOMAIN matches
                   PROVE  /\ matches'[k].creator = matches[k].creator
                          /\ matches'[k].joiner = matches[k].joiner
        OBVIOUS
      <4>1. matches[k] \in Matches
        BY TheMatches
      <4>2. matches = [i \in DOMAIN matches |-> matches[i]]
        BY DEF Typed, Matchmaker
      <4>3. ASSUME NEW r \in Rooms, Readies(m, r)
            PROVE  \/ matches'[k] = matches[k]
                   \/ matches'[k] = [matches[k] EXCEPT !.room = r, !.state = "RoomReady"]
        BY <4>2, <4>3 DEF Readies
      <4>4. ASSUME Expires(m)
            PROVE  \/ matches'[k] = matches[k]
                   \/ matches'[k] = [matches[k] EXCEPT !.state = "Expired"]
        BY <4>2, <4>4 DEF Expires
      <4> QED BY <1>8, <4>1, <4>3, <4>4 DEF Matches
    <3> QED BY <1>1, <2>2, <3>1
  <2>6. Latest'
    <3>1. \A k \in DOMAIN matches :
            /\ PlayersOf(matches[k])' = PlayersOf(matches'[k])
            /\ Active(matches[k])' <=> Active(matches'[k])
      BY DEF PlayersOf, Active
    <3> SUFFICES ASSUME NEW j \in DOMAIN matches', NEW k \in DOMAIN matches',
                        NEW u \in PlayersOf(matches'[j]),
                        j < k, u \in PlayersOf(matches'[k])
                 PROVE  ~Active(matches'[j])
      BY DEF PlayersOf, Active
    <3> QED BY <1>1, <2>2
  <2> QED BY <1>2, <2>3, <2>4, <2>5, <2>6
<1> QED BY <1>4, <1>5, <1>6, <1>7, <1>8, MatchmakerSteps

\* No step leaves a match without a room ready, nor one with a room waiting
\* for it.
LEMMA RoomsStayWhenReady ==
  ASSUME NEW K, Typed(K), RoomsWhenReady, [Next]_vars, ~Restart
  PROVE  RoomsWhenReady'
<1>1. matches' = matches => RoomsWhenReady'
  BY DEF RoomsWhenReady
<1>2. ASSUME NEW v \in Wallets, NEW w \in Wallets, NEW b \in Bets, Meets(v, w, b)
      PROVE  RoomsWhenReady'
  <2>1. PICK n \in Nat :
          /\ DOMAIN matches = 1..n /\ DOMAIN matches' = 1..(n + 1)
          /\ \A m \in 1..n : matches'[m] = matches[m]
          /\ matches'[n + 1] = NewMatch(v, w, b)
    <3>1. PICK n \in Nat : Met(n, v, w, b)
      BY <1>2, AfterMeets
    <3> QED BY <3>1 DEF Met
  <2>2. \A m \in 1..(n + 1) : m \in 1..n \/ m = n + 1
    OBVIOUS
  <2>3. NewMatch(v, w, b).room = None /\ NewMatch(v, w, b).state # "RoomReady"
    BY DEF NewMatch
  <2> QED BY <2>1, <2>2, <2>3 DEF RoomsWhenReady
<1>3. ASSUME NEW m \in DOMAIN matches, NEW r \in Rooms, Readies(m, r)
      PROVE  RoomsWhenReady'
  BY <1>3, AfterReadies, RelayAssumption DEF RoomsWhenReady
<1>4. ASSUME NEW m \in DOMAIN matches, Expires(m)
      PROVE  RoomsWhenReady'
  BY <1>4, AfterExpires DEF RoomsWhenReady, Expires
<1>5. \A c \in Clients : WalletOf[c] \in Wallets
  BY RelayAssumption
<1> QED BY <1>1, <1>2, <1>3, <1>4, <1>5, MatchmakerSteps DEF Untouched, Enters, Withdraws

\* A session goes on as it was where neither it nor the place of its wallet
\* changes.
LEMMA SessionKept ==
  ASSUME NEW u \in Wallets, SessionFollows(u), sessions'[u] = sessions[u],
         \A b \in Bets : Waits(u, b)' <=> Waits(u, b),
         \A b \in Bets : Waits(u, b) => queue'[b] = queue[b],
         Mine(u)' = Mine(u),
         \A m \in Mine(u) : matches'[m].room = matches[m].room
  PROVE  SessionFollows(u)'
<1>1. Queued(u)' <=> Queued(u)
  BY DEF Queued
<1>2. /\ \A b \in Bets : Waits(u, b) => queue[b][1].ticket = sessions[u].ticket
      /\ ~Queued(u) => sessions[u].ticket = 0
      /\ \A m \in Mine(u) : m <= sessions[u].match
      /\ \/ sessions[u].match = 0 /\ sessions[u].room = None
         \/ /\ sessions[u].match \in Mine(u)
            /\ sessions[u].room = matches[sessions[u].match].room
  BY DEF SessionFollows
<1>3. /\ \A b \in Bets : Waits(u, b)' => queue'[b][1].ticket = sessions'[u].ticket
      /\ ~Queued(u)' => sessions'[u].ticket = 0
      /\ \A m \in Mine(u)' : m <= sessions'[u].match
      /\ \/ sessions'[u].match = 0 /\ sessions'[u].room = None
         \/ /\ sessions'[u].match \in Mine(u)'
            /\ sessions'[u].room = matches'[sessions'[u].match].room
  BY <1>1, <1>2
<1> QED BY <1>3 DEF SessionFollows

\* The session of a wallet follows its ticket and its latest match through
\* every step.
LEMMA SessionsFollow ==
  ASSUME NEW K, Typed(K), Checked, OnePlace, RoomsWhenReady,
         \A w \in Wallets : SessionFollows(w), [Next]_vars, ~Restart,
         NEW u \in Wallets
  PROVE  SessionFollows(u)'
<1>1. /\ \A b \in Bets : Waits(u, b) => queue[b][1].ticket = sessions[u].ticket
      /\ ~Queued(u) => sessions[u].ticket = 0
      /\ \A m \in Mine(u) : m <= sessions[u].match
      /\ \/ sessions[u].match = 0 /\ sessions[u].room = None
         \/ /\ sessions[u].match \in Mine(u)
            /\ sessions[u].room = matches[sessions[u].match].room
  BY DEF SessionFollows
<1>2. sessions[u] \in Sessions
  BY TheMatches
<1>3. \A m \in Mine(u) : m \in DOMAIN matches
  BY DEF Mine
<1>4. CASE Untouched
  BY <1>4, SessionKept DEF Untouched, Waits, Mine, PlayersOf
<1>5. ASSUME NEW c \in Clients, NEW b \in Bets, Wait(c), Enters(WalletOf[c], b)
      PROVE  SessionFollows(u)'
  <2> PICK w \in Wallets : w = WalletOf[c]
    BY RelayAssumption
  <2>1. ~Queued(w)
    BY <1>5, WhoQueues
  <2>2. /\ \A v : \A a \in Bets : Waits(v, a)' <=> Waits(v, a) \/ (v = w /\ a = b)
        /\ queue'[b][1].ticket = tickets + 1
        /\ \A a \in Bets \ {b} : queue'[a] = queue[a]
        /\ sessions'[w] = [sessions[w] EXCEPT !.ticket = tickets + 1]
        /\ \A v \in Wallets \ {w} : sessions'[v] = sessions[v]
    BY <1>5, AfterEnters
  <2>3. matches' = matches /\ queue[b] = <<>>
    BY <1>5 DEF Enters
  <2>4. Mine(u)' = Mine(u)
    BY <2>3, MatchesUnchanged DEF SameMatches
  <2>5. CASE u # w
    <3>1. ~Waits(u, b)
      BY <2>3 DEF Waits
    <3> QED BY <2>2, <2>3, <2>4, <2>5, <3>1, SessionKept
  <2>6. CASE u = w
    <3>1. /\ sessions'[u].ticket = tickets + 1
          /\ sessions'[u].match = sessions[u].match /\ sessions'[u].room = sessions[u].room
      BY <1>2, <2>2, <2>6 DEF Sessions
    <3>2. \A a \in Bets : Waits(u, a)' <=> a = b
      BY <2>1, <2>2, <2>6 DEF Queued
    <3>3. Queued(u)'
      BY <3>2 DEF Queued
    <3> QED BY <1>1, <2>2, <2>3, <2>4, <3>1, <3>2, <3>3 DEF SessionFollows
  <2> QED BY <2>5, <2>6
<1>6. ASSUME NEW c \in Clients, NEW b \in Bets, NEW v \in Wallets,
             Pair(c), Meets(v, WalletOf[c], b)
      PROVE  SessionFollows(u)'
  <2> PICK w \in Wallets : w = WalletOf[c]
    BY RelayAssumption
  <2>1. ~Queued(w) /\ ~InMatch(w)
    BY <1>6, WhoQueues
  <2>2. Waits(v, b) /\ Queued(v) /\ ~InMatch(v)
    BY <1>6 DEF Meets, Queued, OnePlace
  <2>3. /\ \A x : \A a \in Bets : Waits(x, a)' <=> Waits(x, a) /\ a # b
        /\ \A x : Waits(x, b) => x = v
        /\ \A a \in Bets \ {b} : queue'[a] = queue[a]
    BY <1>6, <2>2, AfterEmptied DEF Meets
  <2>4. PICK n \in Nat : Met(n, v, w, b)
    BY <1>6, AfterMeets
  <2>5. CASE u \notin {v, w}
    <3>1. Mine(u)' = Mine(u) /\ sessions'[u] = sessions[u]
      BY <2>4, <2>5 DEF Met
    <3>2. \A m \in Mine(u) : matches'[m] = matches[m]
      BY <1>3, <2>4 DEF Met
    <3> QED BY <2>3, <2>5, <3>1, <3>2, SessionKept
  <2>6. CASE u \in {v, w}
    <3>1. /\ sessions'[u].ticket = 0 /\ sessions'[u].match = n + 1
          /\ sessions'[u].room = sessions[u].room
      <4>1. sessions'[u] = [sessions[u] EXCEPT !.ticket = 0, !.match = n + 1]
        BY <2>4, <2>6 DEF Met
      <4> QED BY <1>2, <4>1 DEF Sessions
    <3>2. ~InMatch(u)
      BY <2>1, <2>2, <2>6
    <3>3. sessions[u].room = None
      <4>1. CASE sessions[u].match = 0 /\ sessions[u].room = None
        BY <4>1
      <4>2. CASE /\ sessions[u].match \in Mine(u)
                 /\ sessions[u].room = matches[sessions[u].match].room
        <5> PICK m \in DOMAIN matches : m = sessions[u].match
          BY <1>3, <4>2
        <5>1. u \in PlayersOf(matches[m])
          BY <4>2 DEF Mine
        <5>2. matches[m].state # "RoomReady"
          BY <3>2, <5>1 DEF InMatch, Active
        <5> QED BY <4>2, <5>2 DEF RoomsWhenReady
      <4> QED BY <1>1, <4>1, <4>2
    <3>4. Mine(u)' = Mine(u) \cup {n + 1} /\ matches'[n + 1].room = None
      <4>1. NewMatch(v, w, b).room = None
        BY DEF NewMatch
      <4> QED BY <2>4, <2>6, <4>1 DEF Met
    <3>5. \A a \in Bets : ~Waits(u, a)'
      <4>1. \A a \in Bets : Waits(v, a) => a = b
        BY <2>2 DEF OnePlace
      <4> QED BY <2>1, <2>3, <2>6, <4>1 DEF Queued
    <3>6. \A m \in Mine(u) : m <= n + 1
      BY <1>3, <2>4 DEF Met
    <3>7. /\ \A a \in Bets : Waits(u, a)' => queue'[a][1].ticket = sessions'[u].ticket
          /\ ~Queued(u)' => sessions'[u].ticket = 0
          /\ \A m \in Mine(u)' : m <= sessions'[u].match
          /\ sessions'[u].match \in Mine(u)'
          /\ sessions'[u].room = matches'[sessions'[u].match].room
      BY <3>1, <3>3, <3>4, <3>5, <3>6
    <3> QED BY <3>7 DEF SessionFollows
  <2> QED BY <2>5, <2>6
<1>7. ASSUME NEW b \in Bets, NEW v \in Wallets, Withdraws(v, b)
      PROVE  SessionFollows(u)'
  <2>1. /\ \A x : \A a \in Bets : Waits(x, a)' <=> Waits(x, a) /\ a # b
        /\ \A x : Waits(x, b) => x = v
        /\ \A a \in Bets \ {b} : queue'[a] = queue[a]
    BY <1>7, AfterEmptied DEF Withdraws
  <2>2. Waits(v, b) /\ matches' = matches /\ sessions' = [sessions EXCEPT ![v].ticket = 0]
    BY <1>7 DEF Withdraws
  <2>3. Mine(u)' = Mine(u)
    BY <2>2, MatchesUnchanged DEF SameMatches
  <2>4. CASE u # v
    <3>1. sessions'[u] = sessions[u]
      BY <2>2, <2>4, TheMatches
    <3> QED BY <2>1, <2>2, <2>3, <2>4, <3>1, SessionKept
  <2>5. CASE u = v
    <3>1. sessions'[u] = [sessions[u] EXCEPT !.ticket = 0]
      BY <2>2, <2>5, TheMatches
    <3>2. /\ sessions'[u].ticket = 0
          /\ sessions'[u].match = sessions[u].match /\ sessions'[u].room = sessions[u].room
      BY <1>2, <3>1 DEF Sessions
    <3>3. \A a \in Bets : ~Waits(u, a)'
      BY <2>1, <2>2, <2>5 DEF OnePlace
    <3> QED BY <1>1, <2>2, <2>3, <3>2, <3>3 DEF SessionFollows
  <2> QED BY <2>4, <2>5
<1>8. ASSUME NEW m \in DOMAIN matches, NEW r \in Rooms, Readies(m, r)
      PROVE  SessionFollows(u)'
  <2>1. queue' = queue /\ Active(matches[m])
    BY <1>8 DEF Readies
  <2>2. /\ matches'[m].room = r
        /\ \A k \in DOMAIN matches \ {m} : matches'[k] = matches[k]
        /\ Mine(u)' = Mine(u)
    BY <1>8, AfterReadies DEF SameMatches
  <2>3. CASE u \notin PlayersOf(matches[m])
    <3>1. sessions'[u] = sessions[u]
      BY <1>8, <2>3 DEF Readies
    <3>2. m \notin Mine(u)
      BY <2>3 DEF Mine
    <3> QED BY <1>3, <2>1, <2>2, <3>1, <3>2, SessionKept DEF Waits
  <2>4. CASE u \in PlayersOf(matches[m])
    <3>1. sessions'[u] = [sessions[u] EXCEPT !.room = r]
      BY <1>8, <2>4 DEF Readies
    <3>2. /\ sessions'[u].room = r /\ sessions'[u].ticket = sessions[u].ticket
          /\ sessions'[u].match = sessions[u].match
      BY <1>2, <3>1 DEF Sessions
    <3>3. m \in Mine(u)
      BY <2>1, <2>4 DEF Mine, Active
    <3>4. sessions[u].match = m
      <4> PICK k : k = sessions[u].match
        OBVIOUS
      <4>1. m \in Nat /\ m > 0 /\ k \in Nat
        BY <1>2, TheMatches DEF Sessions
      <4>2. m <= k
        BY <1>1, <3>3
      <4>3. k \in DOMAIN matches /\ u \in PlayersOf(matches[k])
        BY <1>1, <4>1, <4>2 DEF Mine
      <4>4. ~(m < k)
        BY <2>1, <2>4, <4>3 DEF OnePlace
      <4> QED BY <4>1, <4>2, <4>4
    <3> QED BY <1>1, <2>1, <2>2, <3>2, <3>3, <3>4 DEF SessionFollows, Waits, Queued
  <2> QED BY <2>3, <2>4
<1>9. ASSUME NEW m \in DOMAIN matches, Expires(m)
      PROVE  SessionFollows(u)'
  <2>1. UNCHANGED <<queue, sessions>>
    BY <1>9 DEF Expires
  <2>2. /\ \A k \in DOMAIN matches : matches'[k].room = matches[k].room
        /\ Mine(u)' = Mine(u)
    BY <1>9, AfterExpires
  <2> QED BY <1>3, <2>1, <2>2, SessionKept DEF Waits
<1> QED BY <1>4, <1>5, <1>6, <1>7, <1>8, <1>9, MatchmakerSteps

\* The relay starts with nobody in any place, and starts again so.
LEMMA InOrderAnew ==
  ASSUME NEW K, NEW K2, Typed(K), Typed(K2)', OnePlace, Restart
  PROVE  InOrder'
<1>1. /\ queue' = [b \in Bets |-> <<>>]
      /\ matches' = [m \in DOMAIN matches |->
                       [matches[m] EXCEPT !.room = None, !.state = "Forgotten"]]
      /\ sessions' = [w \in Wallets |-> NoSession]
      /\ script' = [t \in Tasks |-> <<>>]
  BY DEF Restart
<1>2. \A u : \A a \in Bets : ~Waits(u, a)'
  BY <1>1 DEF Waits
<1>3. \A m \in DOMAIN matches :
        /\ m \in DOMAIN matches' /\ matches'[m].state = "Forgotten"
        /\ matches'[m].room = None
        /\ matches'[m].creator = matches[m].creator
        /\ matches'[m].joiner = matches[m].joiner
  BY <1>1, TheMatches DEF Matches
<1>4. DOMAIN matches' = DOMAIN matches
  BY <1>1
<1>5. \A c \in Clients : script'[c] = <<>>
  BY <1>1 DEF Tasks
<1>6. Checked'
  <2>1. \A c \in Clients : ~JoinOpening(c, script'[c])
    BY <1>5, JoinInOrder
  <2>2. \A c \in Clients : ~At(c, "check_matches")' /\ ~At(c, "enqueue")'
    BY <1>5 DEF At
  <2> QED BY <2>1, <2>2 DEF Checked
<1>7. OnePlace'
  <2>1. \A w : ~Queued(w)' /\ ~InMatch(w)'
    BY <1>2, <1>3, <1>4 DEF Queued, InMatch, Active
  <2> QED BY <1>2, <1>3, <1>4, <2>1 DEF OnePlace, Active, PlayersOf
<1>8. RoomsWhenReady'
  BY <1>3, <1>4 DEF RoomsWhenReady
<1>9. \A w \in Wallets : SessionFollows(w)'
  <2>1. \A w : Mine(w)' = {}
    BY <1>3, <1>4 DEF Mine
  <2>2. \A w \in Wallets : sessions'[w].ticket = 0 /\ sessions'[w].match = 0
                           /\ sessions'[w].room = None
    BY <1>1 DEF NoSession
  <2> QED BY <1>2, <2>1, <2>2 DEF SessionFollows
<1> QED BY <1>6, <1>7, <1>8, <1>9 DEF InOrder

\* A relay that has just started is in order.
LEMMA InitInOrder == Init => InOrder
<1> SUFFICES ASSUME Init PROVE InOrder
  OBVIOUS
<1>1. /\ queue = [b \in Bets |-> <<>>] /\ matches = <<>>
      /\ sessions = [w \in Wallets |-> NoSession]
      /\ script = [t \in Tasks |-> <<>>]
  BY DEF Init, RelayInit
<1>2. DOMAIN matches = {} /\ \A u : \A a \in Bets : ~Waits(u, a)
  BY <1>1 DEF Waits
<1>3. \A c \in Clients : script[c] = <<>>
  BY <1>1 DEF Tasks
<1>4. Checked
  <2>1. \A c \in Clients : ~JoinOpening(c, script[c])
    BY <1>3, JoinInOrder
  <2> QED BY <1>3, <2>1 DEF Checked, At
<1>5. OnePlace /\ RoomsWhenReady
  BY <1>2 DEF OnePlace, RoomsWhenReady, Queued
<1>6. \A w \in Wallets : SessionFollows(w)
  BY <1>1, <1>2 DEF SessionFollows, NoSession, Mine
<1> QED BY <1>4, <1>5, <1>6 DEF InOrder

\* The inductive invariant, of a relay that is typed.
IsInOrder == InOrder /\ \E K : Typed(K)

\* Every step, a restart included, leaves the relay in order.
LEMMA StaysInOrder ==
  ASSUME OneJoins, IsInOrder, [Next]_vars
  PROVE  IsInOrder'
<1> PICK K : Typed(K)
  BY DEF IsInOrder
<1> PICK K2 : K2 = K \cup Current'
  OBVIOUS
<1>1. Typed(K2)'
  BY NextTyped
<1>2. Checked /\ OnePlace /\ RoomsWhenReady /\ \A w \in Wallets : SessionFollows(w)
  BY DEF IsInOrder, InOrder
<1>3. CASE Restart
  BY <1>1, <1>2, <1>3, InOrderAnew DEF IsInOrder
<1>4. CASE ~Restart
  <2>1. Checked'
    BY <1>1, <1>2, <1>4, CheckedStays
  <2>2. OnePlace'
    BY <1>2, <1>4, OnePlaceStays
  <2>3. RoomsWhenReady'
    BY <1>2, <1>4, RoomsStayWhenReady
  <2>4. \A w \in Wallets : SessionFollows(w)'
    BY <1>2, <1>4, SessionsFollow
  <2> QED BY <1>1, <2>1, <2>2, <2>3, <2>4 DEF IsInOrder, InOrder
<1> QED BY <1>3, <1>4

-----------------------------------------------------------------------------
(***************************************************************************)
(* The theorems.                                                           *)
(***************************************************************************)

\* The checks of queue.join hold until they are acted on, as long as no wallet
\* joins from two connections: everything the matchmaker keeps is in order.
THEOREM EverythingIsInOrder ==
  ASSUME OneJoins
  PROVE  Spec => []IsInOrder
<1>1. Init => IsInOrder
  BY InitTyped, InitInOrder DEF IsInOrder
<1>2. IsInOrder /\ [Next]_vars => IsInOrder'
  BY StaysInOrder
<1> QED BY <1>1, <1>2, PTL DEF Spec

\* A wallet waits once or plays once, never both and never against itself.
THEOREM WalletsAreInOnePlace ==
  ASSUME OneJoins
  PROVE  Spec => []WalletInOnePlace
<1>1. IsInOrder => WalletInOnePlace
  <2> SUFFICES ASSUME OnePlace, NEW K, Typed(K), NEW w \in Wallets
               PROVE  Cardinality(EntriesOf(w)) + Cardinality(MatchesOf(w)) <= 1
    BY DEF IsInOrder, InOrder, OnePlace, WalletInOnePlace
  <2>1. EntriesOf(w) = {<<b, 1>> : b \in {b \in Bets : Waits(w, b)}}
    BY QueuedIsInQueue
  <2>2. CASE Queued(w)
    <3>1. PICK b \in Bets : Waits(w, b) /\ \A a \in Bets : Waits(w, a) => a = b
      BY <2>2 DEF Queued, OnePlace
    <3>2. EntriesOf(w) = {<<b, 1>>}
      BY <2>1, <3>1
    <3>3. MatchesOf(w) = {}
      BY <2>2 DEF OnePlace, InMatch, MatchesOf
    <3> PICK e : e = <<b, 1>>
      OBVIOUS
    <3>4. Cardinality({e}) = 1 /\ Cardinality({}) = 0
      BY FS_Singleton, FS_EmptySet
    <3> QED BY <3>2, <3>3, <3>4
  <2>3. CASE ~Queued(w)
    <3>1. EntriesOf(w) = {}
      BY <2>1, <2>3 DEF Queued
    <3>2. \A m, k \in MatchesOf(w) : m = k
      <4> SUFFICES ASSUME NEW m \in MatchesOf(w), NEW k \in MatchesOf(w) PROVE m = k
        OBVIOUS
      <4>1. m \in DOMAIN matches /\ k \in DOMAIN matches /\ m \in Nat /\ k \in Nat
        BY TheMatches DEF MatchesOf
      <4>2. ~(m < k) /\ ~(k < m)
        BY <4>1 DEF MatchesOf, OnePlace
      <4> QED BY <4>1, <4>2
    <3>3. MatchesOf(w) = {} \/ \E m : MatchesOf(w) = {m}
      BY <3>2
    <3>4. Cardinality({}) = 0 /\ \A m : Cardinality({m}) = 1
      BY FS_Singleton, FS_EmptySet
    <3> QED BY <3>1, <3>3, <3>4
  <2> QED BY <2>2, <2>3
<1> QED BY <1>1, EverythingIsInOrder, PTL

\* What session.resume reads in a session is never stale.
THEOREM SessionsDoAgree ==
  ASSUME OneJoins
  PROVE  Spec => []SessionsAgree
<1>1. IsInOrder => SessionsAgree
  <2> SUFFICES ASSUME NEW K, Typed(K), OnePlace, NEW w \in Wallets, SessionFollows(w)
               PROVE  /\ {queue[e[1]][e[2]].ticket : e \in EntriesOf(w)} =
                            {sessions[w].ticket} \ {0}
                      /\ sessions[w].match = Max(Mine(w) \cup {0})
                      /\ sessions[w].room = IF Mine(w) = {} THEN None
                                                            ELSE matches[Max(Mine(w))].room
    BY DEF IsInOrder, InOrder, SessionsAgree, Mine
  <2>1. EntriesOf(w) = {<<b, 1>> : b \in {b \in Bets : Waits(w, b)}}
    BY QueuedIsInQueue
  <2>2. {queue[e[1]][e[2]].ticket : e \in EntriesOf(w)} = {sessions[w].ticket} \ {0}
    <3>1. CASE Queued(w)
      <4>1. PICK b \in Bets : Waits(w, b) /\ \A a \in Bets : Waits(w, a) => a = b
        BY <3>1 DEF Queued, OnePlace
      <4>2. EntriesOf(w) = {<<b, 1>>}
        BY <2>1, <4>1
      <4>3. queue[b][1] \in Tickets /\ queue[b][1].ticket = sessions[w].ticket
        BY <4>1, TheEntries DEF Waits, SessionFollows
      <4>4. sessions[w].ticket # 0
        BY <4>3 DEF Tickets
      <4> QED BY <4>2, <4>3, <4>4
    <3>2. CASE ~Queued(w)
      BY <2>1, <3>2 DEF Queued, SessionFollows
    <3> QED BY <3>1, <3>2
  <2>3. \A m \in Mine(w) : m \in Nat /\ m > 0
    BY TheMatches DEF Mine
  <2>4. ASSUME NEW S \in SUBSET Nat, NEW k \in S, \A i \in S : i <= k
        PROVE  Max(S) = k
    <3>1. \A i \in S : k >= i
      BY <2>4
    <3>2. Max(S) \in S /\ \A i \in S : Max(S) >= i
      BY <3>1, Zenon DEF Max
    <3> PICK x : x = Max(S)
      OBVIOUS
    <3>3. x \in Nat /\ k \in Nat /\ x >= k /\ k >= x
      BY <2>4, <3>1, <3>2
    <3> QED BY <3>3
  <2>5. CASE sessions[w].match = 0 /\ sessions[w].room = None
    <3>1. Mine(w) = {}
      <4>1. \A m \in Mine(w) : m <= 0
        BY <2>5 DEF SessionFollows
      <4> QED BY <2>3, <4>1
    <3> QED BY <2>2, <2>4, <2>5, <3>1
  <2>6. CASE /\ sessions[w].match \in Mine(w)
             /\ sessions[w].room = matches[sessions[w].match].room
    <3>1. \A m \in Mine(w) : m <= sessions[w].match
      BY DEF SessionFollows
    <3> PICK k, M : k = sessions[w].match /\ M = Mine(w)
      OBVIOUS
    <3>2. Max(M) = k
      BY <2>3, <2>4, <2>6, <3>1
    <3>3. Max(M \cup {0}) = k
      BY <2>3, <2>4, <2>6, <3>1
    <3> QED BY <2>2, <2>6, <3>2, <3>3
  <2> QED BY <2>5, <2>6 DEF SessionFollows
<1> QED BY <1>1, EverythingIsInOrder, PTL

-----------------------------------------------------------------------------
(***************************************************************************)
(* The refinement: every step of the relay is a step of the lobby, or none *)
(* that the lobby sees.                                                    *)
(***************************************************************************)

\* Who waits in a queue of one or none.
LEMMA InALine ==
  /\ WalletsIn(<<>>) = {}
  /\ \A e : WalletsIn(<<e>>) = {e.wallet}
BY DEF WalletsIn

\* Who waits, as the lobby sees it: the wallet at the head of the queue.
LEMMA TheWaiting ==
  ASSUME NEW K, Typed(K)
  PROVE  /\ Waiting = [b \in Bets |-> Waiting[b]]
         /\ \A b \in Bets : queue[b] = <<>> => Waiting[b] = {}
         /\ \A b \in Bets : \A v : Waits(v, b) => Waiting[b] = {v}
         /\ \A b \in Bets : \A v \in Waiting[b] : Waits(v, b)
<1>1. \A b \in Bets : queue[b] = <<>> => Waiting[b] = {}
  BY InALine DEF Waiting
<1>2. ASSUME NEW b \in Bets, NEW v, Waits(v, b) PROVE Waiting[b] = {v}
  <2>1. queue[b] = <<queue[b][1]>> /\ queue[b][1].wallet = v
    BY <1>2, TheEntries DEF Waits
  <2> PICK e : e = queue[b][1]
    OBVIOUS
  <2>2. Waiting[b] = WalletsIn(<<e>>)
    BY <2>1 DEF Waiting
  <2> QED BY <2>1, <2>2, InALine
<1>3. ASSUME NEW b \in Bets, NEW v \in Waiting[b] PROVE Waits(v, b)
  <2>1. queue[b] # <<>>
    BY <1>1, <1>3
  <2>2. Waits(queue[b][1].wallet, b)
    BY <2>1 DEF Waits
  <2>3. Waiting[b] = {queue[b][1].wallet}
    BY <1>2, <2>2
  <2> QED BY <1>3, <2>2, <2>3
<1>4. Waiting = [b \in Bets |-> Waiting[b]]
  BY DEF Waiting
<1> QED BY <1>1, <1>2, <1>3, <1>4

\* Who is in no place is free.
LEMMA NowhereIsFree ==
  ASSUME NEW K, Typed(K), NEW w, ~Queued(w), ~InMatch(w)
  PROVE  L!Free(w)
<1>1. \A b \in Bets : w \notin Waiting[b]
  BY TheWaiting DEF Queued
<1>2. ASSUME NEW m \in DOMAIN Pairs, Pairs[m].state \in {"AwaitingRoomCreation", "RoomReady"}
      PROVE  w \notin {Pairs[m].creator, Pairs[m].joiner}
  <2>1. m \in DOMAIN matches /\ Pairs[m] = PairOf(matches[m])
    BY DEF Pairs
  <2>2. Active(matches[m])
    BY <1>2, <2>1 DEF PairOf, Active
  <2> QED BY <2>1, <2>2 DEF InMatch, PlayersOf, PairOf
<1> QED BY <1>1, <1>2 DEF L!Free

\* Where one bet's queue is replaced.
LEMMA OneLineChanges ==
  ASSUME NEW K, Typed(K), NEW b \in Bets, NEW q, queue' = [queue EXCEPT ![b] = q]
  PROVE  Waiting' = [Waiting EXCEPT ![b] = WalletsIn(q)]
<1>1. /\ queue'[b] = q /\ \A a \in Bets \ {b} : queue'[a] = queue[a]
  BY TheMatches
<1>2. Waiting' = [a \in Bets |-> WalletsIn(queue'[a])]
  BY DEF Waiting, WalletsIn
<1>3. \A a \in Bets : WalletsIn(queue'[a]) = IF a = b THEN WalletsIn(q) ELSE Waiting[a]
  BY <1>1 DEF Waiting
<1>4. Waiting = [a \in Bets |-> Waiting[a]]
  BY DEF Waiting
<1> PICK old, new, p : old = Waiting /\ new = Waiting' /\ p = WalletsIn(q)
  OBVIOUS
<1>5. new = [a \in Bets |-> IF a = b THEN p ELSE old[a]]
  BY <1>2, <1>3
<1>6. old = [a \in Bets |-> old[a]]
  BY <1>4
<1>7. new = [old EXCEPT ![b] = p]
  BY <1>5, <1>6
<1> QED BY <1>7

\* Every step of the relay is a step of the lobby, or none.
LEMMA LobbySteps ==
  ASSUME OneJoins, IsInOrder, [Next]_vars
  PROVE  [L!LobbyNext]_L!lobbyVars
<1> PICK K : Typed(K)
  BY DEF IsInOrder
<1>1. Checked /\ OnePlace
  BY DEF IsInOrder, InOrder
<1>2. matches' = matches => Pairs' = Pairs
  BY DEF Pairs, PairOf
<1>3. CASE Untouched
  <2>1. Waiting' = Waiting /\ Pairs' = Pairs
    BY <1>3 DEF Untouched, Waiting, Pairs, PairOf
  <2> QED BY <2>1 DEF L!lobbyVars
<1>4. ASSUME NEW c \in Clients, NEW b \in Bets, Wait(c), Enters(WalletOf[c], b)
      PROVE  L!LobbyNext
  <2> PICK w \in Wallets : w = WalletOf[c]
    BY RelayAssumption
  <2>1. L!Free(w)
    BY <1>1, <1>4, WhoQueues, NowhereIsFree
  <2>2. PICK e : e.wallet = w /\ queue' = [queue EXCEPT ![b] = <<e>>]
    BY <1>4 DEF Enters
  <2>3. Waiting' = [Waiting EXCEPT ![b] = {w}]
    BY <2>2, OneLineChanges, InALine
  <2>4. Waiting[b] = {} /\ Pairs' = Pairs
    BY <1>2, <1>4, TheWaiting DEF Enters
  <2>5. L!Enter(w, b)
    BY <2>1, <2>3, <2>4 DEF L!Enter
  <2> QED BY <2>5 DEF L!LobbyNext
<1>5. ASSUME NEW c \in Clients, NEW b \in Bets, NEW v \in Wallets,
             Pair(c), Meets(v, WalletOf[c], b)
      PROVE  L!LobbyNext
  <2> PICK w \in Wallets : w = WalletOf[c]
    BY RelayAssumption
  <2>1. L!Free(w)
    BY <1>1, <1>5, WhoQueues, NowhereIsFree
  <2>2. Waiting[b] = {v}
    BY <1>5, TheWaiting DEF Meets
  <2>3. Waiting' = [Waiting EXCEPT ![b] = {}]
    <3>1. queue' = [queue EXCEPT ![b] = <<>>]
      BY <1>5 DEF Meets
    <3> QED BY <3>1, OneLineChanges, InALine
  <2> PICK pair : pair = [creator |-> v, joiner |-> w, bet |-> b,
                          state |-> "AwaitingRoomCreation"]
    OBVIOUS
  <2>4. Pairs' = Append(Pairs, pair)
    <3>1. PICK n \in Nat : Met(n, v, w, b)
      BY <1>5, AfterMeets
    <3>2. /\ DOMAIN matches = 1..n /\ DOMAIN matches' = 1..(n + 1)
          /\ \A m \in 1..n : matches'[m] = matches[m]
          /\ matches'[n + 1] = NewMatch(v, w, b)
      BY <3>1 DEF Met
    <3>3. PairOf(matches'[n + 1]) = pair
      BY <3>2 DEF PairOf, NewMatch
    <3> PICK S : S = {Pairs[m] : m \in 1..n} \cup {pair}
      OBVIOUS
    <3>4. Pairs \in [1..n -> S] /\ pair \in S
      BY <3>2 DEF Pairs
    <3>5. Pairs \in Seq(S) /\ Len(Pairs) = n
      <4>1. Pairs \in Seq(S)
        BY <3>4, SeqDef
      <4> QED BY <3>4, <4>1, LenProperties
    <3>6. PICK p : p = Append(Pairs, pair)
      OBVIOUS
    <3>7. /\ p \in Seq(S) /\ Len(p) = n + 1 /\ p[n + 1] = pair
          /\ \A m \in 1..n : p[m] = Pairs[m]
      BY <3>4, <3>5, <3>6, AppendProperties
    <3>8. p = [m \in 1..(n + 1) |-> p[m]]
      BY <3>7, LenProperties
    <3>9. Pairs' = [m \in 1..(n + 1) |-> PairOf(matches'[m])]
      BY <3>2 DEF Pairs, PairOf
    <3>10. \A m \in 1..(n + 1) : PairOf(matches'[m]) = p[m]
      <4> SUFFICES ASSUME NEW m \in 1..(n + 1) PROVE PairOf(matches'[m]) = p[m]
        OBVIOUS
      <4>1. CASE m = n + 1
        BY <3>3, <3>7, <4>1
      <4>2. CASE m \in 1..n
        BY <3>2, <3>7, <4>2 DEF Pairs
      <4> QED BY <4>1, <4>2
    <3> QED BY <3>6, <3>8, <3>9, <3>10
  <2>5. L!Meet(v, w, b)
    BY <2>1, <2>2, <2>3, <2>4 DEF L!Meet
  <2> QED BY <2>5 DEF L!LobbyNext
<1>6. ASSUME NEW b \in Bets, NEW v \in Wallets, Withdraws(v, b)
      PROVE  L!LobbyNext
  <2>1. Waiting' = [Waiting EXCEPT ![b] = {}]
    <3>1. queue' = [queue EXCEPT ![b] = <<>>]
      BY <1>6 DEF Withdraws
    <3> QED BY <3>1, OneLineChanges, InALine
  <2>2. Pairs' = Pairs
    BY <1>2, <1>6 DEF Withdraws
  <2>3. L!Withdraw(b)
    BY <2>1, <2>2 DEF L!Withdraw
  <2> QED BY <2>3 DEF L!LobbyNext
<1>7. queue' = queue => Waiting' = Waiting
  BY DEF Waiting
<1>8. ASSUME NEW m \in DOMAIN matches, NEW state \in {"RoomReady", "Expired"},
             queue' = queue, DOMAIN matches' = DOMAIN matches,
             matches[m].state = "AwaitingRoomCreation",
             PairOf(matches'[m]) = [PairOf(matches[m]) EXCEPT !.state = state],
             \A k \in DOMAIN matches \ {m} : matches'[k] = matches[k]
      PROVE  L!LobbyNext
  <2>1. Pairs' = [k \in DOMAIN matches |-> PairOf(matches'[k])]
    BY <1>8 DEF Pairs, PairOf
  <2>2. Pairs' = [Pairs EXCEPT ![m].state = state]
    BY <1>8, <2>1 DEF Pairs
  <2>3. Pairs[m].state = "AwaitingRoomCreation" /\ m \in DOMAIN Pairs
    BY <1>8 DEF Pairs, PairOf
  <2>4. L!Settle(m, state)
    BY <1>7, <1>8, <2>2, <2>3 DEF L!Settle
  <2> QED BY <2>3, <2>4 DEF L!LobbyNext
<1>9. ASSUME NEW m \in DOMAIN matches, NEW r \in Rooms, Readies(m, r)
      PROVE  L!LobbyNext \/ UNCHANGED L!lobbyVars
  <2>1. /\ DOMAIN matches' = DOMAIN matches
        /\ matches'[m] = [matches[m] EXCEPT !.room = r, !.state = "RoomReady"]
        /\ \A k \in DOMAIN matches \ {m} : matches'[k] = matches[k]
    BY <1>9, AfterReadies
  <2>2. queue' = queue /\ matches[m] \in Matches /\ Active(matches[m])
    BY <1>9, TheMatches DEF Readies
  <2>3. PairOf(matches'[m]) = [PairOf(matches[m]) EXCEPT !.state = "RoomReady"]
    BY <2>1, <2>2 DEF PairOf, Matches
  <2>4. CASE matches[m].state = "AwaitingRoomCreation"
    BY <1>8, <2>1, <2>2, <2>3, <2>4
  <2>5. CASE matches[m].state = "RoomReady"
    <3>1. PairOf(matches'[m]) = PairOf(matches[m])
      BY <2>3, <2>5 DEF PairOf
    <3>2. Pairs' = [k \in DOMAIN matches |-> PairOf(matches'[k])]
      BY <2>1 DEF Pairs, PairOf
    <3>3. Pairs' = Pairs
      BY <2>1, <3>1, <3>2 DEF Pairs
    <3> QED BY <1>7, <2>2, <3>3 DEF L!lobbyVars
  <2> QED BY <2>2, <2>4, <2>5 DEF Matches, MatchStates, Active
<1>10. ASSUME NEW m \in DOMAIN matches, Expires(m)
       PROVE  L!LobbyNext
  <2>1. /\ DOMAIN matches' = DOMAIN matches
        /\ matches'[m] = [matches[m] EXCEPT !.state = "Expired"]
        /\ \A k \in DOMAIN matches \ {m} : matches'[k] = matches[k]
    <3>1. matches = [k \in DOMAIN matches |-> matches[k]]
      BY DEF Typed, Matchmaker
    <3> QED BY <1>10, <3>1 DEF Expires
  <2>2. queue' = queue /\ matches[m] \in Matches /\ matches[m].state = "AwaitingRoomCreation"
    BY <1>10, TheMatches DEF Expires
  <2>3. PairOf(matches'[m]) = [PairOf(matches[m]) EXCEPT !.state = "Expired"]
    BY <2>1, <2>2 DEF PairOf, Matches
  <2> QED BY <1>8, <2>1, <2>2, <2>3
<1>11. CASE Restart
  <2>1. Waiting' = [b \in Bets |-> {}]
    <3>1. queue' = [b \in Bets |-> <<>>]
      BY <1>11 DEF Restart
    <3>2. Waiting' = [b \in Bets |-> WalletsIn(queue'[b])]
      BY DEF Waiting, WalletsIn
    <3> QED BY <3>1, <3>2, InALine
  <2>2. matches' = [m \in DOMAIN matches |->
                      [matches[m] EXCEPT !.room = None, !.state = "Forgotten"]]
    BY <1>11 DEF Restart
  <2>3. Pairs' = [m \in DOMAIN Pairs |-> [Pairs[m] EXCEPT !.state = "Forgotten"]]
    <3>1. DOMAIN matches' = DOMAIN matches /\ DOMAIN Pairs = DOMAIN matches
      BY <2>2 DEF Pairs
    <3>2. \A m \in DOMAIN matches :
            PairOf(matches'[m]) = [PairOf(matches[m]) EXCEPT !.state = "Forgotten"]
      <4> SUFFICES ASSUME NEW m \in DOMAIN matches
                   PROVE  PairOf(matches'[m]) = [PairOf(matches[m]) EXCEPT !.state = "Forgotten"]
        OBVIOUS
      <4>1. matches[m] \in Matches
        BY TheMatches
      <4>2. matches'[m] = [matches[m] EXCEPT !.room = None, !.state = "Forgotten"]
        BY <2>2
      <4> QED BY <4>1, <4>2 DEF PairOf, Matches
    <3>3. Pairs' = [m \in DOMAIN matches |-> PairOf(matches'[m])]
      BY <3>1 DEF Pairs, PairOf
    <3> QED BY <3>1, <3>2, <3>3 DEF Pairs
  <2>4. L!Forget
    BY <2>1, <2>3 DEF L!Forget
  <2> QED BY <2>4 DEF L!LobbyNext
<1> QED BY <1>3, <1>4, <1>5, <1>6, <1>9, <1>10, <1>11, MatchmakerSteps

\* The relay implements the lobby: its requests take effect at once, though
\* queue.join looks at the queue and at the matches under locks it gives back,
\* as long as no wallet joins from two connections.
THEOREM RelayImplementsLobby ==
  ASSUME OneJoins
  PROVE  Spec => ImplementsLobby
<1>1. Init => L!LobbyInit
  <2> SUFFICES ASSUME Init PROVE L!LobbyInit
    OBVIOUS
  <2>1. queue = [b \in Bets |-> <<>>] /\ matches = <<>>
    BY DEF Init, RelayInit
  <2>2. Waiting = [b \in Bets |-> {}]
    BY <2>1, InALine DEF Waiting
  <2>3. Pairs = <<>>
    BY <2>1 DEF Pairs
  <2> QED BY <2>2, <2>3 DEF L!LobbyInit
<1>2. IsInOrder /\ [Next]_vars => [L!LobbyNext]_L!lobbyVars
  BY LobbySteps
<1> QED BY <1>1, <1>2, EverythingIsInOrder, PTL DEF Spec, ImplementsLobby, L!LobbySpec

-----------------------------------------------------------------------------
(***************************************************************************)
(* Nobody misses a match.                                                  *)
(***************************************************************************)

\* The other hypothesis of NobodyMissesIt: no client names a match when it
\* resumes.  One that does is told of the match it names, not of the one its
\* wallet is in (state.rs:434).
NamesNoMatch == \A c \in Clients : "resume_named" \notin Requests[c]

FindStep(m) == [do |-> "find_match", match |-> m]

\* The connection c of the wallet w has got the message, or will get it if it
\* goes on to speak for the wallet.
Heard(c, w, message) ==
  \/ message \in told[c]
  \/ \E t \in Clients :
       Holds(script[t], Tell(c, message)) \/ Holds(script[t], TellWallet(w, message))

\* A message does not get lost while the wallet keeps its connection.
LEMMA HeardStays ==
  ASSUME NEW K, Typed(K), [Next]_vars, ~Restart, NEW w \in Wallets, NEW c \in Clients,
         c = bound[w], c \in clients, NEW message, Heard(c, w, message)
  PROVE  Heard(c, w, message)'
<1>1. CASE message \in told[c]
  BY <1>1, ToldGrows DEF Heard
<1>2. ASSUME NEW t \in Clients, Holds(script[t], Tell(c, message))
      PROVE  Heard(c, w, message)'
  <2> PICK step : step = Tell(c, message)
    OBVIOUS
  <2>1. step.do = "tell" /\ step.do \notin OpeningKinds
    BY DEF Tell, OpeningKinds
  <2>2. CASE Takes(t, step)
    <3>1. SendToClient(t) /\ Head(script[t]).client = c /\ Head(script[t]).message = message
      BY <2>1, <2>2, TurnOf DEF Tell, Takes
    <3>2. message \in told'[c]
      BY <3>1 DEF SendToClient, Typed, Announced
    <3> QED BY <3>2 DEF Heard
  <2>3. Holds(script'[t], step) \/ Takes(t, step)
    BY <1>2, <2>1, StepIsKept
  <2> QED BY <2>2, <2>3 DEF Heard
<1>3. ASSUME NEW t \in Clients, Holds(script[t], TellWallet(w, message))
      PROVE  Heard(c, w, message)'
  <2> PICK step : step = TellWallet(w, message)
    OBVIOUS
  <2>1. step.do = "tell_wallet" /\ step.do \notin OpeningKinds
    BY DEF TellWallet, OpeningKinds
  <2>2. CASE Takes(t, step)
    <3>1. SendToWallet(t) /\ Head(script[t]).wallet = w /\ Head(script[t]).message = message
      BY <2>1, <2>2, TurnOf DEF TellWallet, Takes
    <3>2. Continue(t, <<Tell(c, message)>>)
      BY <3>1, RelayAssumption DEF SendToWallet
    <3>3. Holds(script'[t], Tell(c, message))
      BY <2>1, <2>2, <3>2, AddsStep DEF Takes
    <3> QED BY <3>3 DEF Heard
  <2>3. Holds(script'[t], step) \/ Takes(t, step)
    BY <1>3, <2>1, StepIsKept
  <2> QED BY <2>2, <2>3 DEF Heard
<1> QED BY <1>1, <1>2, <1>3 DEF Heard

\* The handler of c is about to look for the match m, or for any match of its
\* wallet.
Asks(c, m) ==
  \/ JoinOpening(c, script[c]) /\ (At(c, "check_queue") \/ At(c, "check_matches"))
  \/ At(c, "resume")
  \/ Holds(script[c], FindStep(m))

\* A connection that comes to speak for a wallet is that of its user, and
\* goes on to ask for its match.
LEMMA BindAsks ==
  ASSUME NEW K, Typed(K), NEW c \in Clients, Bind(c), NEW m
  PROVE  bound' = [bound EXCEPT ![WalletOf[c]] = c] /\ Asks(c, m)'
<1> PICK n \in Nat : n = Len(matches)
  BY LenProperties DEF Typed, Matchmaker
<1> PICK q, p : q = script[c] /\ p = script'[c]
  OBVIOUS
<1>1. c \in Tasks /\ script = [t \in Tasks |-> script[t]]
  BY DEF Typed, Scripts, Tasks
<1>2. q # <<>> /\ Head(q).do = "bind"
  BY DEF Bind, At
<1>3. Opening(c, n, q)
  <2>1. HandlerScript(c, n, Made, K, q)
    BY DEF Typed, Scripts
  <2> QED BY <1>2, <2>1, InOpening
<1>4. Head(q) = BindStep(c)
  BY <1>2, <1>3, OpeningByHead
<1>5. bound' = [bound EXCEPT ![WalletOf[c]] = c]
  <2>1. Head(script[c]).wallet = WalletOf[c]
    BY <1>4 DEF BindStep
  <2> QED BY <2>1 DEF Bind
<1>6. p = <<>> \o Tail(q)
  BY <1>1 DEF Bind, Continue
<1>7. CASE JoinOpening(c, q)
  <2> PICK x, y, z : x = BindStep(c) /\ y = CheckQueueStep(c) /\ z = CheckMatchesStep(c)
    OBVIOUS
  <2>1. PICK b \in Bets : \/ q = <<x, y, z, EnqueueStep(c, b)>> \/ q = <<y, z, EnqueueStep(c, b)>>
                          \/ q = <<z, EnqueueStep(c, b)>> \/ q = <<EnqueueStep(c, b)>>
    BY <1>7 DEF JoinOpening
  <2> PICK e : e = EnqueueStep(c, b)
    OBVIOUS
  <2>2. y.do = "check_queue" /\ z.do = "check_matches" /\ e.do = "enqueue"
    BY DEF CheckQueueStep, CheckMatchesStep, EnqueueStep
  <2>3. q = <<x, y, z, e>>
    BY <1>2, <2>1, <2>2, Tuples
  <2>4. p = <<y, z, e>>
    BY <1>6, <2>3, Tuples
  <2>5. JoinOpening(c, p)
    BY <2>4 DEF JoinOpening
  <2>6. p # <<>> /\ Head(p).do = "check_queue"
    BY <2>2, <2>4, Tuples
  <2> QED BY <1>5, <2>5, <2>6 DEF Asks, At
<1>8. CASE ResumeOpening(c, n, q)
  <2>1. PICK step \in ResumeSteps(c, n) : q = <<BindStep(c), step>> \/ q = <<step>>
    BY <1>8 DEF ResumeOpening
  <2>2. step.do = "resume"
    BY DEF ResumeSteps
  <2>3. q = <<BindStep(c), step>>
    BY <1>2, <2>1, <2>2, Tuples
  <2>4. p = <<step>>
    BY <1>6, <2>3, Tuples
  <2> QED BY <1>5, <2>2, <2>4 DEF Asks, At
<1>9. ~OtherOpening(n, q)
  <2>1. ASSUME NEW x, NEW y, q = <<x>> \/ q = <<x, y>> PROVE x.do = "bind"
    BY <1>2, <2>1, Tuples
  <2> SUFFICES ASSUME OtherOpening(n, q) PROVE FALSE
    OBVIOUS
  <2>2. CASE \/ q = <<[do |-> "unregister"], [do |-> "unsubscribe"]>>
             \/ q = <<[do |-> "unsubscribe"]>>
    BY <2>1, <2>2
  <2>3. CASE \E ticket \in Nat : q = <<[do |-> "leave", ticket |-> ticket]>>
    BY <2>1, <2>3
  <2>4. CASE \E m2 \in 1..n, r \in Rooms :
               q = <<[do |-> "register", match |-> m2, room |-> r]>>
    BY <2>1, <2>4
  <2> QED BY <2>2, <2>3, <2>4 DEF OtherOpening
<1> QED BY <1>3, <1>7, <1>8, <1>9 DEF Opening

\* Who speaks for a wallet changes only when another connection binds it.
LEMMA BindingsGoOn ==
  ASSUME NEW K, Typed(K), [Next]_vars, ~Restart, NEW w \in Wallets, NEW m
  PROVE  \/ bound'[w] = bound[w]
         \/ \E c \in Clients : bound'[w] = c /\ WalletOf[c] = w /\ Asks(c, m)'
<1>1. ASSUME NEW c \in Clients, Bind(c), bound'[w] # bound[w]
      PROVE  bound'[w] = c /\ WalletOf[c] = w /\ Asks(c, m)'
  <2>1. bound' = [bound EXCEPT ![WalletOf[c]] = c] /\ Asks(c, m)'
    BY <1>1, BindAsks
  <2> QED BY <1>1, <2>1 DEF Typed, Links
<1>2. bound' # bound => \E c \in Clients : Bind(c)
  BY LinkWriters DEF linkVars, Connect, Disconnect, Unregister
<1> QED BY <1>1, <1>2

\* Every connection speaks for the wallet of its user.
OwnWallets == \A w \in Wallets : bound[w] # None => WalletOf[bound[w]] = w

\* A handler's resume names no match, when its client does not.
Unnamed(c) ==
  \E S : script[c] \in Seq(S) /\ \A step \in S : step.do = "resume" => step.match = 0

\* What handlers add to their scripts are no openings.
Adds(c) ==
  \E S : /\ \A step \in S : step.do \notin OpeningKinds
         /\ \E new \in Seq(S) :
              \/ script'[c] = new
              \/ script'[c] = new \o Tail(script[c])
              \/ script'[c] = Tail(script[c]) \o new

\* It is so for each of their steps.
LEMMA HandlersAdd ==
  ASSUME NEW K, Typed(K), NEW c \in Clients, HandlerStep(c)
  PROVE  Adds(c)
<1>1. c \in Tasks /\ script = [t \in Tasks |-> script[t]]
  BY DEF Typed, Scripts, Tasks
<1>2. CASE Head(script[c]).do \notin OpeningKinds
  BY <1>2, PastOpeningProceeds DEF Proceeds, Adds
<1>3. ASSUME NEW S, \A step \in S : step.do \notin OpeningKinds,
             NEW new \in Seq(S), Continue(c, new) \/ Finish(c, new)
      PROVE  Adds(c)
  <2>1. script'[c] = new \o Tail(script[c]) \/ script'[c] = new
    BY <1>1, <1>3 DEF Continue, Finish
  <2> QED BY <1>3, <2>1 DEF Adds
<1>4. ASSUME Continue(c, <<>>) PROVE Adds(c)
  <2>1. <<>> \in Seq({})
    OBVIOUS
  <2> QED BY <1>3, <1>4, <2>1
<1>5. ASSUME NEW x, x.do \notin OpeningKinds, Continue(c, <<x>>) \/ Finish(c, <<x>>)
      PROVE  Adds(c)
  <2>1. <<x>> \in Seq({x})
    OBVIOUS
  <2> QED BY <1>3, <1>5, <2>1
<1>6. ASSUME NEW x, NEW y, NEW z, x.do \notin OpeningKinds, y.do \notin OpeningKinds,
             z.do \notin OpeningKinds, Continue(c, <<x, y, z>>)
      PROVE  Adds(c)
  <2>1. <<x, y, z>> \in Seq({x, y, z})
    OBVIOUS
  <2> QED BY <1>3, <1>6, <2>1
<1>7. ASSUME NEW x, NEW y, NEW z, NEW e, x.do \notin OpeningKinds, y.do \notin OpeningKinds,
             z.do \notin OpeningKinds, e.do \notin OpeningKinds, Continue(c, <<x, y, z, e>>)
      PROVE  Adds(c)
  <2>1. <<x, y, z, e>> \in Seq({x, y, z, e})
    OBVIOUS
  <2> QED BY <1>3, <1>7, <2>1
<1>8. \A d, w, message : /\ Tell(d, message).do \notin OpeningKinds
                         /\ TellWallet(w, message).do \notin OpeningKinds
  BY DEF Tell, TellWallet, OpeningKinds
<1>9. CASE Bind(c) \/ CheckQueue(c) \/ CheckMatches(c) \/ Unregister(c) \/ Unsubscribe(c)
  <2>1. Continue(c, <<>>) \/ \E code : Finish(c, <<Tell(c, Error(code))>>)
    BY <1>9 DEF Bind, CheckQueue, CheckMatches, Unregister, Unsubscribe
  <2> QED BY <1>4, <1>5, <1>8, <2>1
<1>10. CASE Wait(c) \/ Leave(c)
  <2>1. Continue(c, <<>>) \/ \E message : Continue(c, <<Tell(c, message)>>)
    BY <1>10 DEF Wait, Leave
  <2> QED BY <1>4, <1>5, <1>8, <2>1
<1>11. CASE Pair(c)
  <2>1. PICK a, v, w, b, d, m :
          Continue(c, <<Tell(c, a), TellWallet(v, b), TellWallet(w, d),
                        [do |-> "spawn_timer", match |-> m]>>)
    BY <1>11 DEF Pair
  <2>2. [do |-> "spawn_timer", match |-> m].do \notin OpeningKinds
    BY DEF OpeningKinds
  <2> QED BY <1>7, <1>8, <2>1, <2>2
<1>12. CASE Register(c)
  <2>1. \/ \E code : Finish(c, <<Tell(c, Error(code))>>)
        \/ \E w, a, r : Continue(c, <<TellWallet(w, a), [do |-> "observe", room |-> r],
                                      [do |-> "snapshot", room |-> r]>>)
    BY <1>12 DEF Register
  <2>2. \A r : /\ [do |-> "observe", room |-> r].do \notin OpeningKinds
               /\ [do |-> "snapshot", room |-> r].do \notin OpeningKinds
    BY DEF OpeningKinds
  <2> QED BY <1>5, <1>6, <1>8, <2>1, <2>2
<1>13. CASE Resume(c)
  <2> PICK T : T = HandlerSteps(c, Len(matches), Made, K)
    OBVIOUS
  <2> PICK K2 : K2 = K \cup Current'
    OBVIOUS
  <2>1. script'[c] \in Seq(T)
    BY <1>13, ResumeTyped
  <2>2. \A step \in T : step.do \notin OpeningKinds
    BY DEF HandlerSteps, Errands, Deliveries, OpeningKinds
  <2> QED BY <2>1, <2>2 DEF Adds
<1>14. CASE Head(script[c]).do \in OpeningKinds
  <2>1. \/ Unregister(c) \/ Unsubscribe(c) \/ Bind(c) \/ CheckQueue(c) \/ CheckMatches(c)
        \/ Wait(c) \/ Pair(c) \/ Leave(c) \/ Register(c) \/ Resume(c)
    BY <1>14 DEF HandlerStep, SendToClient, SendToWallet, SpawnTimer, Snapshot, Subscribe,
       Observe, FindTicket, FindMatch, ReadRoom, Address, At, OpeningKinds
  <2> QED BY <1>9, <1>10, <1>11, <1>12, <1>13, <2>1
<1> QED BY <1>2, <1>14

\* A handler whose client names no match never comes to one that does.
LEMMA StaysUnnamed ==
  ASSUME NamesNoMatch, NEW K, Typed(K), [Next]_vars, NEW c \in Clients, Unnamed(c)
  PROVE  Unnamed(c)'
<1>1. c \in Tasks /\ script = [t \in Tasks |-> script[t]]
  BY DEF Typed, Scripts, Tasks
<1>2. ASSUME NEW S, NEW q, q = script'[c], q \in Seq(S),
             \A step \in S : step.do = "resume" => step.match = 0
      PROVE  Unnamed(c)'
  BY <1>2 DEF Unnamed
<1>3. CASE Restart
  <2>1. script'[c] = <<>>
    BY <1>1, <1>3 DEF Restart, Tasks
  <2>2. script'[c] \in Seq({})
    BY <2>1
  <2> QED BY <1>2, <2>2
<1>4. CASE script'[c] = script[c]
  BY <1>4 DEF Unnamed
<1>5. CASE HandlerStep(c)
  <2>1. PICK S : script[c] \in Seq(S) /\ \A step \in S : step.do = "resume" => step.match = 0
    BY DEF Unnamed
  <2>2. PICK T : /\ \A step \in T : step.do \notin OpeningKinds
                 /\ \E new \in Seq(T) : \/ script'[c] = new
                                        \/ script'[c] = new \o Tail(script[c])
                                        \/ script'[c] = Tail(script[c]) \o new
    BY <1>5, HandlersAdd DEF Adds
  <2>3. PICK new \in Seq(T) : \/ script'[c] = new
                              \/ script'[c] = new \o Tail(script[c])
                              \/ script'[c] = Tail(script[c]) \o new
    BY <2>2
  <2> PICK U : U = S \cup T
    OBVIOUS
  <2>4. \A step \in U : step.do = "resume" => step.match = 0
    BY <2>1, <2>2 DEF OpeningKinds
  <2>5. script[c] # <<>>
    BY <1>5 DEF HandlerStep, SendToClient, SendToWallet, Unregister, Unsubscribe, Bind,
       CheckQueue, CheckMatches, Wait, Pair, SpawnTimer, Leave, Register, Snapshot, Subscribe,
       Observe, Resume, FindTicket, FindMatch, ReadRoom, Address, At
  <2>6. script[c] \in Seq(U) /\ new \in Seq(U)
    BY <2>1, SeqMonotonic
  <2>7. script'[c] \in Seq(U)
    BY <2>3, <2>5, <2>6, Replaced
  <2> QED BY <1>2, <2>4, <2>7
<1>6. ASSUME NEW kind, NEW steps, Receive(c, kind, steps)
      PROVE  kind \in Requests[c] /\ script'[c] = steps
  BY <1>1, <1>6 DEF Receive, Finish
<1>7. ASSUME NEW x, NEW y, NEW z, NEW e,
             \A step \in {x, y, z, e} : step.do = "resume" => step.match = 0,
             \/ script'[c] = <<x>> \/ script'[c] = <<x, y>> \/ script'[c] = <<x, y, z, e>>
      PROVE  Unnamed(c)'
  <2> PICK S : S = {x, y, z, e}
    OBVIOUS
  <2>1. <<x>> \in Seq(S) /\ <<x, y>> \in Seq(S) /\ <<x, y, z, e>> \in Seq(S)
    OBVIOUS
  <2>2. script'[c] \in Seq(S)
    BY <1>7, <2>1
  <2> QED BY <1>2, <1>7, <2>2
<1>8. CASE Disconnect(c)
  <2> PICK x, y : x = [do |-> "unregister"] /\ y = [do |-> "unsubscribe"]
    OBVIOUS
  <2>1. script'[c] = <<x, y>>
    BY <1>1, <1>8 DEF Disconnect, Finish
  <2> QED BY <1>7, <2>1
<1>9. ASSUME NEW b, RequestJoin(c, b) PROVE Unnamed(c)'
  <2>1. PICK x, y, z, e : /\ x.do = "bind" /\ y.do = "check_queue"
                          /\ z.do = "check_matches" /\ e.do = "enqueue"
                          /\ script'[c] = <<x, y, z, e>>
    BY <1>6, <1>9 DEF RequestJoin
  <2> QED BY <1>7, <2>1
<1>10. ASSUME \/ \E ticket : RequestLeave(c, ticket)
              \/ \E m, r : RequestRegister(c, m, r)
       PROVE  Unnamed(c)'
  <2>1. \A ticket : RequestLeave(c, ticket) =>
          \E x : x.do = "leave" /\ script'[c] = <<x>>
    BY <1>6 DEF RequestLeave
  <2>2. \A m, r : RequestRegister(c, m, r) =>
          \E x : x.do = "register" /\ script'[c] = <<x>>
    BY <1>6 DEF RequestRegister
  <2>3. PICK x : x.do \in {"leave", "register"} /\ script'[c] = <<x>>
    BY <1>10, <2>1, <2>2
  <2> QED BY <1>7, <2>3
<1>11. ASSUME NEW r, RequestSubscribe(c, r) PROVE Unnamed(c)'
  <2>1. PICK x, y : x.do = "subscribe" /\ y.do = "observe" /\ script'[c] = <<x, y>>
    BY <1>6, <1>11 DEF RequestSubscribe
  <2> QED BY <1>7, <2>1
<1>12. ASSUME NEW r, NEW m, RequestResume(c, r, m) PROVE Unnamed(c)'
  <2>1. PICK x, y : /\ x.do = "bind" /\ y.do = "resume" /\ y.match = m
                    /\ script'[c] = <<x, y>>
    BY <1>6, <1>12 DEF RequestResume
  <2>2. m = 0
    BY <1>6, <1>12 DEF RequestResume, NamesNoMatch
  <2> QED BY <1>7, <2>1, <2>2
<1>13. CASE Request(c)
  BY <1>9, <1>10, <1>11, <1>12, <1>13 DEF Request
<1> QED BY <1>3, <1>4, <1>5, <1>8, <1>13, HandlersRewriteTheirOwn

\* The connection c of the wallet w has been told, or is going to be, of the
\* match m, and of its room when the wallet joins it there.
Notified(c, w, m) ==
  /\ Heard(c, w, MatchFound(m))
  /\ w = matches[m].joiner /\ matches[m].state = "RoomReady" =>
       Heard(c, w, RoomReady(m, matches[m].room))

\* It learns of the match in one way or another.
Learns(c, w, m) ==
  \/ Heard(c, w, Error("wallet_already_in_match"))
  \/ Asks(c, m)
  \/ Notified(c, w, m)

\* The inductive invariant.
Followed ==
  \A w \in Wallets : \A c \in clients : \A m \in DOMAIN matches :
    c = bound[w] /\ m = sessions[w].match /\ matches[m].state # "Expired" =>
      Learns(c, w, m)

\* Who gets a room is announced it in the same step.
LEMMA RoomIsAnnounced ==
  ASSUME NEW K, Typed(K), [Next]_vars, ~Restart, NEW m \in DOMAIN matches,
         matches'[m] # matches[m], matches'[m].state # "Expired"
  PROVE  /\ matches'[m].joiner = matches[m].joiner
         /\ \E c \in Clients :
              Holds(script'[c], TellWallet(matches[m].joiner, RoomReady(m, matches'[m].room)))
<1>1. /\ Len(matches) \in Nat /\ DOMAIN matches = 1..Len(matches)
      /\ matches \in Seq(Matches) /\ matches[m] \in Matches
  BY TheMatches DEF Typed, Matchmaker
<1>2. \E c \in Clients : Register(c)
  <2>1. ASSUME NEW c \in Clients, Pair(c) PROVE matches'[m] = matches[m]
    <3>1. PICK new : matches' = Append(matches, new)
      BY <2>1 DEF Pair
    <3> QED BY <1>1, <3>1
  <2>2. ASSUME NEW k \in MatchIds, Expire(k) PROVE FALSE
    <3>1. matches' = matches \/ matches' = [matches EXCEPT ![k].state = "Expired"]
      BY <2>2 DEF Expire
    <3>2. matches'[m] = matches[m] \/ matches'[m] = [matches[m] EXCEPT !.state = "Expired"]
      BY <1>1, <3>1
    <3> QED BY <1>1, <3>2 DEF Matches
  <2>3. matches' = matches => FALSE
    OBVIOUS
  <2> QED BY <2>1, <2>2, <2>3, Writers DEF matchVars, roomVars, Wait, Leave, Subscribe,
             Unsubscribe, Observe, Update
<1>3. PICK c \in Clients : Register(c)
  BY <1>2
<1>4. /\ Head(script[c]).match \in DOMAIN matches /\ Head(script[c]).room \in Rooms
      /\ Tail(script[c]) = <<>>
  BY <1>3, AtRegister DEF Register
<1> PICK k \in DOMAIN matches, r \in Rooms : k = Head(script[c]).match /\ r = Head(script[c]).room
  BY <1>4
<1> PICK x, y, z : /\ x = TellWallet(matches[k].joiner, RoomReady(k, r))
                   /\ y = [do |-> "observe", room |-> r]
                   /\ z = [do |-> "snapshot", room |-> r]
  OBVIOUS
<1>5. /\ matches' = [matches EXCEPT ![k].room = r, ![k].state = "RoomReady"]
      /\ Continue(c, <<x, y, z>>)
  BY <1>3 DEF Register
<1>6. k = m
  BY <1>1, <1>5
<1>7. matches'[m] = [matches[m] EXCEPT !.room = r, !.state = "RoomReady"]
  BY <1>1, <1>5, <1>6
<1>8. matches'[m].room = r /\ matches'[m].joiner = matches[m].joiner
  BY <1>1, <1>7 DEF Matches
<1>9. script'[c] = <<x, y, z>> \o <<>>
  BY <1>4, <1>5 DEF Continue, Typed, Scripts, Tasks
<1>10. script'[c] = <<x, y, z>>
  BY <1>9, Tuples
<1>11. 1 \in DOMAIN script'[c] /\ script'[c][1] = x
  BY <1>10
<1> QED BY <1>6, <1>8, <1>11 DEF Holds

\* Both players of a new match are announced it in the same step.
LEMMA MatchIsAnnounced ==
  ASSUME NEW K, Typed(K), NEW c \in Clients, Pair(c), NEW b \in Bets, NEW v \in Wallets,
         Meets(v, WalletOf[c], b), NEW m, m = Len(matches) + 1, NEW w \in {v, WalletOf[c]}
  PROVE  Holds(script'[c], TellWallet(w, MatchFound(m)))
<1>1. /\ Len(matches) \in Nat /\ matches \in Seq(Matches)
  BY TheMatches DEF Typed, Matchmaker
<1>2. At(c, "enqueue") /\ script[c] # <<>> /\ Head(script[c]).do = "enqueue"
  BY DEF Pair, At
<1>3. PICK b2 \in Bets : Head(script[c]) = EnqueueStep(c, b2)
  BY <1>2, AtEnqueue
<1>4. Tail(script[c]) = <<>>
  BY <1>2, AtEnqueue
<1>5. Head(script[c]).wallet = WalletOf[c] /\ Head(script[c]).bet = b2
  BY <1>3 DEF EnqueueStep
<1> PICK u : u = Head(queue[b2]).wallet
  OBVIOUS
<1> PICK x, y, z, e : /\ x = Tell(c, QueueJoined(tickets + 1))
                      /\ y = TellWallet(u, MatchFound(m))
                      /\ z = TellWallet(WalletOf[c], MatchFound(m))
                      /\ e = [do |-> "spawn_timer", match |-> m]
  OBVIOUS
<1>6. /\ Continue(c, <<x, y, z, e>>)
      /\ \E new : /\ new.creator = u
                  /\ matches' = Append(matches, new)
  BY <1>5 DEF Pair
<1>7. u = v
  <2>1. PICK new : new.creator = u /\ matches' = Append(matches, new)
    BY <1>6
  <2>2. matches' = Append(matches, NewMatch(v, WalletOf[c], b))
    BY DEF Meets
  <2>3. new = NewMatch(v, WalletOf[c], b)
    <3>1. matches'[m] = new
      BY <1>1, <2>1
    <3>2. matches'[m] = NewMatch(v, WalletOf[c], b)
      BY <1>1, <2>2
    <3> QED BY <3>1, <3>2
  <2> QED BY <2>1, <2>3 DEF NewMatch
<1>8. script'[c] = <<x, y, z, e>> \o <<>>
  BY <1>4, <1>6 DEF Continue, Typed, Scripts, Tasks
<1>9. script'[c] = <<x, y, z, e>>
  <2>1. <<x, y, z, e>> \in Seq({x, y, z, e})
    OBVIOUS
  <2> QED BY <1>8, <2>1, ConcatEmptySeq
<1>10. /\ 2 \in DOMAIN script'[c] /\ script'[c][2] = y
       /\ 3 \in DOMAIN script'[c] /\ script'[c][3] = z
  BY <1>9
<1> QED BY <1>7, <1>10 DEF Holds

\* What stands between two lists is held.
LEMMA StandsBetween ==
  ASSUME NEW S, NEW a \in Seq(S), NEW b \in Seq(S), NEW y
  PROVE  Holds((a \o <<y>> \o b) \o <<>>, y)
<1> PICK T : T = S \cup {y}
  OBVIOUS
<1>1. a \in Seq(T) /\ b \in Seq(T) /\ <<y>> \in Seq(T)
  BY SeqMonotonic
<1>2. 1 \in 1..Len(<<y>>) /\ <<y>>[1] = y
  OBVIOUS
<1> PICK d : d = a \o <<y>>
  OBVIOUS
<1>3. d \in Seq(T)
  BY <1>1, ConcatProperties
<1>4. Holds(a \o <<y>>, <<y>>[1])
  BY <1>1, <1>2, AddedIsHeld
<1>5. PICK i \in DOMAIN d : d[i] = y
  BY <1>2, <1>4 DEF Holds
<1>6. i \in 1..Len(d)
  BY <1>3, <1>5, LenProperties
<1>7. Holds(d \o b, d[i])
  BY <1>1, <1>3, <1>6, AddedIsHeld
<1>8. d \o b \in Seq(T)
  BY <1>1, <1>3, ConcatProperties
<1>9. (d \o b) \o <<>> = d \o b
  BY <1>8, ConcatEmptySeq
<1> QED BY <1>5, <1>7, <1>9

\* A resume that names no match looks for the one of the session.
LEMMA ResumeFinds ==
  ASSUME NEW K, Typed(K), NEW c \in Clients, Unnamed(c), Resume(c),
         NEW m, m = sessions[WalletOf[c]].match, m # 0
  PROVE  Holds(script'[c], FindStep(m))
<1> PICK q, step : q = script[c] /\ step = Head(q)
  OBVIOUS
<1>1. c \in Tasks /\ script = [t \in Tasks |-> script[t]]
  BY DEF Typed, Scripts, Tasks
<1>2. q # <<>> /\ step.do = "resume"
  BY DEF Resume, At
<1>3. PICK S : q \in Seq(S) /\ \A x \in S : x.do = "resume" => x.match = 0
  BY DEF Unnamed
<1>4. step.match = 0
  <2>1. step \in S
    BY <1>2, <1>3, HeadTailProperties
  <2> QED BY <1>2, <1>3, <2>1
<1>5. step.wallet = WalletOf[c] /\ Tail(q) = <<>>
  <2> PICK n \in Nat : n = Len(matches)
    BY LenProperties DEF Typed, Matchmaker
  <2>1. HandlerScript(c, n, Made, K, q)
    BY DEF Typed, Scripts
  <2>2. Opening(c, n, q)
    BY <1>2, <2>1, InOpening
  <2>3. step \in ResumeSteps(c, n) /\ Tail(q) = <<>>
    BY <1>2, <2>2, OpeningByHead
  <2> QED BY <2>3 DEF ResumeSteps
<1>6. PICK S2, a, b :
        a \in Seq(S2) /\ b \in Seq(S2) /\ Continue(c, a \o <<FindStep(m)>> \o b)
  <2> PICK ticket, room : /\ ticket = sessions[WalletOf[c]].ticket
                          /\ room = IF step.room # None THEN step.room
                                                       ELSE sessions[WalletOf[c]].room
    OBVIOUS
  <2> PICK x, z, e :
        /\ x = [do |-> "find_ticket", ticket |-> ticket]
        /\ z = [do |-> "subscribe", room |-> room, wallet |-> WalletOf[c]]
        /\ e = [do |-> "observe", room |-> room]
    OBVIOUS
  <2>1. PICK a, b : /\ a = IF ticket = 0 THEN <<>> ELSE <<x>>
                    /\ b = IF room = None THEN <<>> ELSE <<z, e>>
    OBVIOUS
  <2>2. Continue(c, a \o <<FindStep(m)>> \o b)
    BY <1>4, <1>5, <2>1 DEF Resume, FindStep
  <2>3. (a = <<>> \/ a = <<x>>) /\ (b = <<>> \/ b = <<z, e>>)
    BY <2>1
  <2>4. <<>> \in Seq({x, z, e}) /\ <<x>> \in Seq({x, z, e}) /\ <<z, e>> \in Seq({x, z, e})
    OBVIOUS
  <2>5. a \in Seq({x, z, e}) /\ b \in Seq({x, z, e})
    BY <2>3, <2>4
  <2> QED BY <2>2, <2>5
<1>7. script'[c] = (a \o <<FindStep(m)>> \o b) \o <<>>
  <2> PICK s : s = a \o <<FindStep(m)>> \o b
    OBVIOUS
  <2>1. Continue(c, s)
    BY <1>6
  <2> QED BY <1>1, <1>5, <2>1 DEF Continue
<1> QED BY <1>6, <1>7, StandsBetween

\* Two answers in a row.
LEMMA OneAfterTheOther ==
  ASSUME NEW x, NEW y
  PROVE  <<x>> \o <<y>> = <<x, y>>
<1>1. <<x>> \in Seq({x, y}) /\ <<y>> \in Seq({x, y}) /\ <<x, y>> \in Seq({x, y})
  OBVIOUS
<1>2. Len(<<x>>) = 1 /\ Len(<<y>>) = 1 /\ Len(<<x, y>>) = 2
  OBVIOUS
<1>3. PICK s, u, v, w : s = u \o v /\ u = <<x>> /\ v = <<y>> /\ w = <<x, y>>
  OBVIOUS
<1>4. /\ s \in Seq({x, y}) /\ Len(s) = Len(u) + Len(v)
      /\ \A i \in 1..(Len(u) + Len(v)) :
           s[i] = IF i <= Len(u) THEN u[i] ELSE v[i - Len(u)]
  <2>1. u \in Seq({x, y}) /\ v \in Seq({x, y}) /\ s = u \o v
    BY <1>1, <1>3
  <2> QED BY <2>1, ConcatProperties
<1>5. Len(u) = 1 /\ Len(v) = 1 /\ Len(w) = 2 /\ u[1] = x /\ v[1] = y /\ w[1] = x /\ w[2] = y
  BY <1>2, <1>3
<1>6. Len(s) = 2 /\ s[1] = x /\ s[2] = y
  BY <1>4, <1>5
<1>7. w \in Seq({x, y}) /\ \A i \in 1..2 : s[i] = w[i]
  BY <1>1, <1>3, <1>5, <1>6
<1>8. s = w
  BY <1>4, <1>5, <1>6, <1>7, SeqEqual
<1> QED BY <1>3, <1>8

\* Whoever asks for the match of its wallet goes on asking or gets the answer.
LEMMA AsksOn ==
  ASSUME NEW K, Typed(K), [Next]_vars, ~Restart, OnePlace, OwnWallets,
         NEW w \in Wallets, NEW c \in Clients, c = bound[w], Unnamed(c),
         NEW m \in DOMAIN matches, m \in Mine(w), m = sessions[w].match,
         matches[m].state # "Expired", Asks(c, m), RoomsWhenReady
  PROVE  Learns(c, w, m)'
<1>1. c \in Tasks /\ script = [t \in Tasks |-> script[t]] /\ c # None
  BY RelayAssumption DEF Typed, Scripts, Tasks
<1>2. WalletOf[c] = w /\ m # 0 /\ InMatch(w) /\ matches[m].state # "Forgotten"
  <2>1. WalletOf[c] = w
    BY <1>1 DEF OwnWallets
  <2>2. m # 0
    BY TheMatches
  <2> QED BY <2>1, <2>2 DEF Mine, InMatch, Active
<1>3. ASSUME NEW steps, script' = [script EXCEPT ![c] = steps]
      PROVE  script'[c] = steps
  BY <1>1, <1>3
<1>4. CASE JoinOpening(c, script[c]) /\ (At(c, "check_queue") \/ At(c, "check_matches"))
  <2>1. CASE script'[c] = script[c]
    BY <1>4, <2>1 DEF Learns, Asks, At
  <2>2. CASE script'[c] # script[c]
    <3>1. ~Disconnect(c) /\ ~Request(c)
      BY <1>4 DEF Disconnect, Request, RequestJoin, RequestLeave, RequestRegister,
                  RequestSubscribe, RequestResume, Receive, At
    <3>2. HandlerStep(c)
      BY <2>2, <3>1, HandlersRewriteTheirOwn
    <3> PICK q : q = script[c]
      OBVIOUS
    <3>3. CASE At(c, "check_queue")
      <4>1. CheckQueue(c)
        BY <3>2, <3>3 DEF HandlerStep, SendToClient, SendToWallet, Unregister, Unsubscribe, Bind,
           CheckMatches, Wait, Pair, SpawnTimer, Leave, Register, Snapshot, Subscribe,
           Observe, Resume, FindTicket, FindMatch, ReadRoom, Address, At
      <4>2. /\ Head(q) = CheckQueueStep(c) /\ Tail(q) # <<>>
            /\ Head(Tail(q)).do = "check_matches"
        BY <1>4, <3>3, JoinInOrder DEF At
      <4>3. ~InQueue(Head(script[c]).wallet)
        BY <1>2, <4>2, QueuedIsInQueue DEF OnePlace, CheckQueueStep
      <4>4. Continue(c, <<>>)
        BY <4>1, <4>3 DEF CheckQueue
      <4>5. PICK b \in Bets :
              q = <<CheckQueueStep(c), CheckMatchesStep(c), EnqueueStep(c, b)>>
        <5> PICK x, y, z : /\ x = BindStep(c) /\ y = CheckQueueStep(c)
                           /\ z = CheckMatchesStep(c)
          OBVIOUS
        <5>1. PICK b \in Bets :
                \/ q = <<x, y, z, EnqueueStep(c, b)>> \/ q = <<y, z, EnqueueStep(c, b)>>
                \/ q = <<z, EnqueueStep(c, b)>> \/ q = <<EnqueueStep(c, b)>>
          BY <1>4 DEF JoinOpening
        <5> PICK e : e = EnqueueStep(c, b)
          OBVIOUS
        <5>2. x.do = "bind" /\ z.do = "check_matches" /\ e.do = "enqueue"
          BY DEF BindStep, CheckMatchesStep, EnqueueStep
        <5>3. Head(q).do = "check_queue"
          BY <3>3 DEF At
        <5>4. q = <<y, z, e>>
          BY <5>1, <5>2, <5>3, Tuples
        <5> QED BY <5>4
      <4>6. script'[c] = <<>> \o Tail(q)
        BY <1>1, <4>4 DEF Continue
      <4>7. Tail(q) = <<CheckMatchesStep(c), EnqueueStep(c, b)>>
        BY <4>5, Tuples
      <4>8. script'[c] = <<CheckMatchesStep(c), EnqueueStep(c, b)>>
        BY <4>6, <4>7, Tuples
      <4>9. JoinOpening(c, script'[c])
        BY <4>8 DEF JoinOpening
      <4>10. script'[c] # <<>> /\ Head(script'[c]).do = "check_matches"
        BY <4>2, <4>7, <4>8
      <4> QED BY <4>9, <4>10 DEF Learns, Asks, At
    <3>4. CASE At(c, "check_matches")
      <4>1. CheckMatches(c)
        BY <3>2, <3>4 DEF HandlerStep, SendToClient, SendToWallet, Unregister, Unsubscribe, Bind,
           CheckQueue, Wait, Pair, SpawnTimer, Leave, Register, Snapshot, Subscribe,
           Observe, Resume, FindTicket, FindMatch, ReadRoom, Address, At
      <4>2. Head(q) = CheckMatchesStep(c)
        BY <1>4, <3>4, JoinInOrder DEF At
      <4>3. InMatch(Head(script[c]).wallet)
        BY <1>2, <4>2 DEF CheckMatchesStep
      <4>4. script'[c] = <<Tell(c, Error("wallet_already_in_match"))>>
        BY <1>3, <4>1, <4>3 DEF CheckMatches, Finish
      <4>5. Holds(script'[c], Tell(c, Error("wallet_already_in_match")))
        BY <4>4 DEF Holds
      <4> QED BY <4>5 DEF Learns, Heard
    <3> QED BY <1>4, <3>3, <3>4
  <2> QED BY <2>1, <2>2
<1>5. CASE At(c, "resume")
  <2>1. CASE script'[c] = script[c]
    BY <1>5, <2>1 DEF Learns, Asks, At
  <2>2. CASE script'[c] # script[c]
    <3>1. ~Disconnect(c) /\ ~Request(c)
      BY <1>5 DEF Disconnect, Request, RequestJoin, RequestLeave, RequestRegister,
                  RequestSubscribe, RequestResume, Receive, At
    <3>2. HandlerStep(c)
      BY <2>2, <3>1, HandlersRewriteTheirOwn
    <3>3. Resume(c)
      BY <1>5, <3>2 DEF HandlerStep, SendToClient, SendToWallet, Unregister, Unsubscribe, Bind,
         CheckQueue, CheckMatches, Wait, Pair, SpawnTimer, Leave, Register, Snapshot, Subscribe,
         Observe, FindTicket, FindMatch, ReadRoom, Address, At
    <3>4. Holds(script'[c], FindStep(m))
      BY <1>2, <3>3, ResumeFinds
    <3> QED BY <3>4 DEF Learns, Asks
  <2> QED BY <2>1, <2>2
<1>6. CASE Holds(script[c], FindStep(m))
  <2> PICK step : step = FindStep(m)
    OBVIOUS
  <2>1. step.do = "find_match" /\ step.do \notin OpeningKinds
    BY DEF FindStep, OpeningKinds
  <2>2. CASE Holds(script'[c], step)
    BY <2>2 DEF Learns, Asks
  <2>3. CASE Takes(c, step)
    <3>1. FindMatch(c) /\ Head(script[c]).match = m /\ script[c] # <<>>
      BY <2>1, <2>3, TurnOf DEF FindStep, Takes
    <3>2. UNCHANGED matchVars
      BY <3>1 DEF FindMatch
    <3> PICK ready : ready = RoomReady(m, matches[m].room)
      OBVIOUS
    <3> PICK x, y : x = Tell(c, MatchFound(m)) /\ y = Tell(c, ready)
      OBVIOUS
    <3>3. \/ ContinueAndAnswer(c, <<x>> \o <<>>) /\ matches[m].room = None
          \/ ContinueAndAnswer(c, <<x>> \o <<y>>)
      BY <1>2, <3>1 DEF FindMatch
    <3>4. <<x>> \o <<>> = <<x>> /\ <<x>> \o <<y>> = <<x, y>>
      <4>1. <<x>> \in Seq({x})
        OBVIOUS
      <4>2. <<x>> \o <<>> = <<x>>
        BY <4>1, ConcatEmptySeq
      <4>3. <<x>> \o <<y>> = <<x, y>>
        BY OneAfterTheOther
      <4> QED BY <4>2, <4>3
    <3>5. \/ ContinueAndAnswer(c, <<x>>) /\ matches[m].room = None
          \/ ContinueAndAnswer(c, <<x, y>>)
      BY <3>3, <3>4
    <3>6. Head(script[c]).do \notin OpeningKinds
      BY <2>1, <2>3 DEF Takes
    <3>7. CASE ContinueAndAnswer(c, <<x>>) /\ matches[m].room = None
      <4>1. Holds(script'[c], x)
        BY <3>1, <3>6, <3>7, AddsStep
      <4>2. Heard(c, w, MatchFound(m))'
        BY <4>1 DEF Heard
      <4>3. matches[m].state # "RoomReady"
        BY <3>7 DEF RoomsWhenReady
      <4>4. matches'[m].state # "RoomReady"
        BY <3>2, <4>3 DEF matchVars
      <4> QED BY <4>2, <4>4 DEF Learns, Notified
    <3>8. CASE ContinueAndAnswer(c, <<x, y>>)
      <4>1. /\ <<x, y>> \in Seq({x, y}) /\ 1 \in 1..Len(<<x, y>>) /\ 2 \in 1..Len(<<x, y>>)
            /\ <<x, y>>[1] = x /\ <<x, y>>[2] = y
        OBVIOUS
      <4>2. Holds(script'[c], x) /\ Holds(script'[c], y)
        BY <3>1, <3>6, <3>8, <4>1, AddsSteps
      <4>3. Heard(c, w, MatchFound(m))' /\ Heard(c, w, ready)'
        BY <4>2 DEF Heard
      <4>4. ready = RoomReady(m, matches'[m].room)
        BY <3>2 DEF matchVars
      <4> QED BY <4>3, <4>4 DEF Learns, Notified
    <3> QED BY <3>5, <3>7, <3>8
  <2>4. Holds(script'[c], step) \/ Takes(c, step)
    BY <1>6, <2>1, StepIsKept
  <2> QED BY <2>2, <2>3, <2>4
<1> QED BY <1>4, <1>5, <1>6 DEF Asks

\* A connection keeps to the wallet of its user.
LEMMA OwnWalletsStay ==
  ASSUME NEW K, Typed(K), OwnWallets, [Next]_vars
  PROVE  OwnWallets'
<1>1. CASE Restart
  <2>1. \A w \in Wallets : bound'[w] = None
    BY <1>1 DEF Restart
  <2> QED BY <2>1 DEF OwnWallets
<1>2. CASE ~Restart
  <2> SUFFICES ASSUME NEW w \in Wallets, bound'[w] # None PROVE WalletOf[bound'[w]] = w
    BY DEF OwnWallets
  <2> PICK m : m = 0
    OBVIOUS
  <2>1. bound'[w] = bound[w] \/ \E c \in Clients : bound'[w] = c /\ WalletOf[c] = w
    BY <1>2, BindingsGoOn
  <2> QED BY <2>1 DEF OwnWallets
<1> QED BY <1>1, <1>2

\* The session of a wallet comes to name another match only when the wallet is
\* paired, and then both players are about to be told.
LEMMA NewMatchIsTold ==
  ASSUME NEW K, Typed(K), [Next]_vars, ~Restart, NEW w \in Wallets,
         sessions'[w].match # sessions[w].match, NEW m, m = sessions'[w].match
  PROVE  /\ m \in DOMAIN matches' /\ matches'[m].state = "AwaitingRoomCreation"
         /\ \E c \in Clients : Holds(script'[c], TellWallet(w, MatchFound(m)))
<1>1. \A u \in Wallets : sessions[u] \in Sessions
  BY TheMatches
<1>2. \E c \in Clients, b \in Bets, v \in Wallets : Pair(c) /\ Meets(v, WalletOf[c], b)
  <2>1. ~Untouched
    BY DEF Untouched
  <2>2. ASSUME NEW c \in Clients, NEW b \in Bets, Enters(WalletOf[c], b) PROVE FALSE
    <3>1. WalletOf[c] \in Wallets
      BY RelayAssumption
    <3>2. /\ sessions'[WalletOf[c]] = [sessions[WalletOf[c]] EXCEPT !.ticket = tickets + 1]
          /\ \A u \in Wallets \ {WalletOf[c]} : sessions'[u] = sessions[u]
      BY <2>2, <3>1, AfterEnters
    <3> QED BY <1>1, <3>1, <3>2 DEF Sessions
  <2>3. ASSUME NEW b \in Bets, NEW v \in Wallets, Withdraws(v, b) PROVE FALSE
    <3>1. sessions' = [sessions EXCEPT ![v].ticket = 0]
      BY <2>3 DEF Withdraws
    <3> QED BY <1>1, <3>1, TheMatches DEF Sessions
  <2>4. ASSUME NEW k \in DOMAIN matches, NEW r \in Rooms, Readies(k, r) PROVE FALSE
    <3>1. sessions'[w] = sessions[w] \/ sessions'[w] = [sessions[w] EXCEPT !.room = r]
      BY <2>4 DEF Readies
    <3> QED BY <1>1, <3>1 DEF Sessions
  <2>5. ASSUME NEW k \in DOMAIN matches, Expires(k) PROVE FALSE
    BY <2>5 DEF Expires
  <2> QED BY <2>1, <2>2, <2>3, <2>4, <2>5, MatchmakerSteps
<1>3. PICK c \in Clients, b \in Bets, v \in Wallets : Pair(c) /\ Meets(v, WalletOf[c], b)
  BY <1>2
<1>4. WalletOf[c] \in Wallets
  BY RelayAssumption
<1>5. PICK n \in Nat : Met(n, v, WalletOf[c], b)
  BY <1>3, <1>4, AfterMeets
<1>6. w \in {v, WalletOf[c]}
  BY <1>5 DEF Met
<1>7. m = n + 1 /\ m = Len(matches) + 1
  BY <1>1, <1>5, <1>6 DEF Met, Sessions
<1>8. m \in DOMAIN matches' /\ matches'[m].state = "AwaitingRoomCreation"
  BY <1>5, <1>7 DEF Met, NewMatch
<1>9. Holds(script'[c], TellWallet(w, MatchFound(m)))
  BY <1>3, <1>6, <1>7, MatchIsAnnounced
<1> QED BY <1>8, <1>9

\* Whoever has learnt of its match, or is going to, stays so.
LEMMA LearnsOn ==
  ASSUME NEW K, Typed(K), [Next]_vars, ~Restart, OnePlace, RoomsWhenReady, OwnWallets,
         NEW w \in Wallets, NEW c \in Clients, c = bound[w], c \in clients, Unnamed(c),
         NEW m \in DOMAIN matches, m \in Mine(w), m = sessions[w].match,
         matches'[m].state # "Expired", Learns(c, w, m)
  PROVE  Learns(c, w, m)'
<1>1. matches[m].state # "Expired"
  BY MatchesGoOn DEF Active
<1>2. CASE Heard(c, w, Error("wallet_already_in_match"))
  <2> PICK message : message = Error("wallet_already_in_match")
    OBVIOUS
  <2>1. Heard(c, w, message)'
    BY <1>2, HeardStays
  <2> QED BY <2>1 DEF Learns
<1>3. CASE Asks(c, m)
  BY <1>1, <1>3, AsksOn
<1>4. CASE Notified(c, w, m)
  <2> PICK found : found = MatchFound(m)
    OBVIOUS
  <2>1. Heard(c, w, found)'
    BY <1>4, HeardStays DEF Notified
  <2> PICK ready : ready = RoomReady(m, matches'[m].room)
    OBVIOUS
  <2>2. ASSUME w = matches'[m].joiner, matches'[m].state = "RoomReady"
        PROVE  Heard(c, w, ready)'
    <3>1. CASE matches'[m] = matches[m]
      <4>1. Heard(c, w, ready)
        BY <1>4, <2>2, <3>1 DEF Notified
      <4> QED BY <4>1, HeardStays
    <3>2. CASE matches'[m] # matches[m]
      <4>1. PICK t \in Clients : Holds(script'[t], TellWallet(w, ready))
        BY <2>2, <3>2, RoomIsAnnounced
      <4> QED BY <4>1 DEF Heard
    <3> QED BY <3>1, <3>2
  <2> QED BY <2>1, <2>2 DEF Learns, Notified
<1> QED BY <1>2, <1>3, <1>4 DEF Learns

\* Every connection follows the match of its wallet, through every step.
LEMMA FollowedStays ==
  ASSUME NEW K, Typed(K), NEW K2, Typed(K2)', InOrder, Fresh, OwnWallets,
         \A c \in Clients : Unnamed(c), Followed, [Next]_vars
  PROVE  Followed'
<1> SUFFICES ASSUME NEW w \in Wallets, NEW c \in clients', NEW m \in DOMAIN matches',
                    c = bound'[w], m = sessions'[w].match, matches'[m].state # "Expired"
             PROVE  Learns(c, w, m)'
  BY DEF Followed, Learns, Notified, Heard, Asks, At
<1>1. OnePlace /\ RoomsWhenReady /\ SessionFollows(w)
  BY DEF InOrder
<1>2. c \in Clients
  BY DEF Typed, Links
<1>3. CASE Restart
  BY <1>3 DEF Restart
<1>4. CASE ~Restart /\ bound'[w] # bound[w]
  <2>1. Asks(c, m)'
    BY <1>4, BindingsGoOn
  <2> QED BY <2>1 DEF Learns
<1>5. CASE ~Restart /\ bound'[w] = bound[w] /\ sessions'[w].match # sessions[w].match
  <2> PICK found : found = MatchFound(m)
    OBVIOUS
  <2>1. matches'[m].state # "RoomReady" /\ \E t \in Clients : Holds(script'[t], TellWallet(w, found))
    BY <1>5, NewMatchIsTold
  <2>2. Heard(c, w, found)'
    BY <2>1 DEF Heard
  <2> QED BY <2>1, <2>2 DEF Learns, Notified
<1>6. CASE ~Restart /\ bound'[w] = bound[w] /\ sessions'[w].match = sessions[w].match
  <2>1. c \in clients
    <3>1. ~Connect(c)
      BY <1>2, <1>6 DEF Connect, Fresh
    <3>2. ASSUME NEW d \in Clients, Connect(d) \/ Unregister(d) PROVE c \in clients
      BY <3>1, <3>2 DEF Connect, Unregister
    <3>3. clients' # clients => \E d \in Clients : Connect(d) \/ Unregister(d)
      BY <1>6, LinkWriters DEF linkVars, Disconnect, Bind
    <3> QED BY <3>2, <3>3
  <2>2. m \in Mine(w) /\ m \in DOMAIN matches
    <3>1. m # 0
      BY TheMatches, LenProperties DEF Typed, Matchmaker
    <3> QED BY <1>1, <1>6, <3>1 DEF SessionFollows, Mine
  <2>3. matches[m].state # "Expired"
    BY <1>6, <2>2, MatchesGoOn DEF Active
  <2>4. Learns(c, w, m)
    BY <1>6, <2>1, <2>2, <2>3 DEF Followed
  <2> QED BY <1>1, <1>2, <1>6, <2>1, <2>2, <2>4, LearnsOn
<1> QED BY <1>3, <1>4, <1>5, <1>6

\* What the theorem rests on.
IsFollowed ==
  /\ IsInOrder
  /\ Fresh
  /\ OwnWallets
  /\ \A c \in Clients : Unnamed(c)
  /\ Followed

\* The connection that speaks for a wallet has been told of its match once
\* nothing is under way, whichever connection of the wallet that is and
\* whether the match was made before it spoke for the wallet or after.
THEOREM NobodyMissesIt ==
  ASSUME OneJoins, NamesNoMatch
  PROVE  Spec => []NoLostMatch
<1>1. Init => IsFollowed
  <2> SUFFICES ASSUME Init PROVE IsFollowed
    OBVIOUS
  <2>1. IsInOrder
    BY InitTyped, InitInOrder DEF IsInOrder
  <2>2. /\ \A w \in Wallets : bound[w] = None
        /\ \A r \in Rooms : rooms[r].subscribers = {}
        /\ \A c \in Clients : script[c] = <<>>
        /\ clients = {}
    BY DEF Init, RelayInit, NoRoom, Tasks
  <2>3. Fresh
    BY <2>2, RelayAssumption DEF Fresh
  <2>4. \A c \in Clients : Unnamed(c)
    <3>1. <<>> \in Seq({})
      OBVIOUS
    <3> QED BY <2>2, <3>1 DEF Unnamed
  <2> QED BY <2>1, <2>2, <2>3, <2>4 DEF IsFollowed, OwnWallets, Followed
<1>2. IsFollowed /\ [Next]_vars => IsFollowed'
  <2> SUFFICES ASSUME IsFollowed, [Next]_vars PROVE IsFollowed'
    OBVIOUS
  <2>1. IsInOrder'
    BY StaysInOrder DEF IsFollowed
  <2> PICK K : Typed(K)
    BY DEF IsFollowed, IsInOrder
  <2> PICK K2 : Typed(K2)'
    BY <2>1 DEF IsInOrder
  <2>2. Fresh'
    BY FreshStays DEF IsFollowed
  <2>3. OwnWallets'
    BY OwnWalletsStay DEF IsFollowed
  <2>4. \A c \in Clients : Unnamed(c)'
    BY StaysUnnamed DEF IsFollowed
  <2>5. Followed'
    BY FollowedStays DEF IsFollowed, IsInOrder
  <2> QED BY <2>1, <2>2, <2>3, <2>4, <2>5 DEF IsFollowed
<1>3. IsFollowed => NoLostMatch
  <2> SUFFICES ASSUME IsFollowed, Quiet, NEW w \in Wallets, NEW c, c = bound[w], c \in clients,
                      NEW m, m = sessions[w].match, m # 0, matches[m].state # "Expired"
               PROVE  \/ Error("wallet_already_in_match") \in told[c]
                      \/ /\ MatchFound(m) \in told[c]
                         /\ w = matches[m].joiner /\ matches[m].state = "RoomReady" =>
                              RoomReady(m, matches[m].room) \in told[c]
    BY DEF NoLostMatch
  <2>1. m \in DOMAIN matches
    BY DEF IsFollowed, IsInOrder, InOrder, SessionFollows, Mine
  <2>2. Learns(c, w, m)
    BY <2>1 DEF IsFollowed, Followed
  <2>3. c \in Clients
    BY DEF IsFollowed, IsInOrder, Typed, Links
  <2>4. \A t \in Clients : script[t] = <<>> /\ \A step : ~Holds(script[t], step)
    BY DEF Quiet, Holds
  <2>5. ~Asks(c, m)
    BY <2>3, <2>4 DEF Asks, At
  <2>6. \A message : Heard(c, w, message) => message \in told[c]
    BY <2>4 DEF Heard
  <2> QED BY <2>2, <2>5, <2>6 DEF Learns, Notified
<1> QED BY <1>1, <1>2, <1>3, PTL DEF Spec

=============================================================================
