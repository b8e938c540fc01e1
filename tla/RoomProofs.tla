----------------------------- MODULE RoomProofs -----------------------------
(***************************************************************************)
(* Proofs about matches and their rooms, for any connections, wallets,     *)
(* bets, rooms, reports and bounds.                                        *)
(***************************************************************************)
EXTENDS RelayProofs

-----------------------------------------------------------------------------
(***************************************************************************)
(* The race between match.room_created and the timer.                      *)
(***************************************************************************)

\* What a step does to a match that is there already.
LEMMA MatchesGoOn ==
  ASSUME NEW K, Typed(K), [Next]_vars, NEW m \in DOMAIN matches
  PROVE  /\ m \in DOMAIN matches'
         /\ \/ matches'[m] = matches[m]
            \/ Restart
            \/ /\ matches[m].state = "AwaitingRoomCreation"
               /\ matches'[m] = [matches[m] EXCEPT !.state = "Expired"]
            \/ /\ Active(matches[m])
               /\ \E r \in Rooms :
                    matches'[m] = [matches[m] EXCEPT !.room = r, !.state = "RoomReady"]
<1> PICK n \in Nat : n = Len(matches) /\ DOMAIN matches = 1..n
  BY LenProperties DEF Typed, Matchmaker
<1>1. matches \in Seq(Matches) /\ matches[m] \in Matches /\ m \in 1..n
  BY ElementOfSeq DEF Typed, Matchmaker
<1>2. CASE matches' = matches
  BY <1>2
<1>3. CASE Restart
  BY <1>3 DEF Restart
<1>4. ASSUME NEW c \in Clients, Pair(c) PROVE m \in DOMAIN matches' /\ matches'[m] = matches[m]
  <2>1. PICK match : matches' = Append(matches, match)
    BY <1>4 DEF Pair
  <2>2. DOMAIN matches' = 1..(n + 1) /\ matches'[m] = matches[m]
    BY <1>1, <2>1
  <2> QED BY <1>1, <2>2
<1>5. ASSUME NEW c \in Clients, Register(c), matches' # matches
      PROVE  /\ m \in DOMAIN matches'
             /\ \/ matches'[m] = matches[m]
                \/ /\ Active(matches[m])
                   /\ \E r \in Rooms :
                        matches'[m] = [matches[m] EXCEPT !.room = r, !.state = "RoomReady"]
  <2>1. PICK k \in 1..n, r \in Rooms :
          /\ Active(matches[k])
          /\ matches' = [matches EXCEPT ![k].room = r, ![k].state = "RoomReady"]
    BY <1>5, AtRegister DEF Register
  <2> QED BY <1>1, <2>1
<1>6. ASSUME NEW k \in MatchIds, Expire(k), matches' # matches
      PROVE  /\ m \in DOMAIN matches'
             /\ \/ matches'[m] = matches[m]
                \/ /\ matches[m].state = "AwaitingRoomCreation"
                   /\ matches'[m] = [matches[m] EXCEPT !.state = "Expired"]
  <2>1. /\ matches' = [matches EXCEPT ![k].state = "Expired"]
        /\ matches[k].state = "AwaitingRoomCreation"
    BY <1>6 DEF Expire
  <2> QED BY <1>1, <2>1
<1>7. ASSUME matches' # matches, ~Restart
      PROVE  (\E c \in Clients : Pair(c) \/ Register(c)) \/ (\E k \in MatchIds : Expire(k))
  BY <1>7, Writers DEF matchVars, Wait, Leave, Subscribe, Unsubscribe, Observe, Update
<1> QED BY <1>2, <1>3, <1>4, <1>5, <1>6, <1>7

\* The race between the timer and match.room_created has one winner: a match
\* that got its room never expires, and one that expired never gets a room.
THEOREM RaceIsDecided == Spec => RaceHasOneWinner
<1> DEFINE Decided ==
      restarts' = restarts => \A m \in DOMAIN matches :
        /\ matches[m].state = "RoomReady" => matches'[m].state = "RoomReady"
        /\ matches[m].state = "Expired" => matches'[m] = matches[m]
        /\ matches[m].room # None => matches'[m].room # None
<1>1. IsTyped /\ [Next]_vars => Decided
  <2> SUFFICES ASSUME NEW K, Typed(K), [Next]_vars, restarts' = restarts,
                      NEW m \in DOMAIN matches
               PROVE  /\ matches[m].state = "RoomReady" => matches'[m].state = "RoomReady"
                      /\ matches[m].state = "Expired" => matches'[m] = matches[m]
                      /\ matches[m].room # None => matches'[m].room # None
    BY DEF IsTyped
  <2>1. matches[m] \in Matches
    BY ElementOfSeq, LenProperties DEF Typed, Matchmaker
  <2>2. ~Restart
    <3>1. restarts \in Nat /\ restarts + 1 # restarts
      BY DEF Typed, Links
    <3>2. Restart => restarts' = restarts + 1
      BY DEF Restart
    <3> QED BY <3>1, <3>2
  <2>3. CASE matches'[m] = matches[m]
    BY <2>3
  <2>4. CASE /\ matches[m].state = "AwaitingRoomCreation"
             /\ matches'[m] = [matches[m] EXCEPT !.state = "Expired"]
    BY <2>1, <2>4 DEF Matches
  <2>5. ASSUME NEW r \in Rooms, Active(matches[m]),
               matches'[m] = [matches[m] EXCEPT !.room = r, !.state = "RoomReady"]
        PROVE  /\ matches'[m].state = "RoomReady" /\ matches'[m].room # None
               /\ matches[m].state # "Expired"
    BY <2>1, <2>5, RelayAssumption DEF Matches, Active
  <2> QED BY <2>2, <2>3, <2>4, <2>5, MatchesGoOn
<1> QED BY <1>1, EverythingIsTyped, PTL DEF Spec, RaceHasOneWinner

-----------------------------------------------------------------------------
(***************************************************************************)
(* A room's list of wallets.                                               *)
(***************************************************************************)

\* Between restarts the list of a room only becomes longer.
LEMMA WalletsGrow ==
  ASSUME NEW K, Typed(K), [Next]_vars, ~Restart, NEW r \in Rooms
  PROVE  rooms[r].wallets \subseteq rooms'[r].wallets
<1>1. rooms \in [Rooms -> RoomEntries] /\ rooms[r] \in RoomEntries
  BY DEF Typed, RoomMap
<1>2. CASE rooms' = rooms
  BY <1>2
<1>3. ASSUME NEW c \in Clients, Register(c), rooms' # rooms
      PROVE  rooms[r].wallets \subseteq rooms'[r].wallets
  <2>1. PICK s, m, tick :
          tick \in Ticks /\ rooms' = [rooms EXCEPT ![s] = RegisteredRoom(s, m, tick)]
    BY <1>3 DEF Register
  <2>2. r = s => rooms[r].wallets \subseteq RegisteredRoom(s, m, tick).wallets
    BY <1>1 DEF RegisteredRoom, RoomEntries
  <2> QED BY <1>1, <2>1, <2>2
<1>4. ASSUME NEW c \in Clients, Subscribe(c)
      PROVE  rooms[r].wallets \subseteq rooms'[r].wallets
  <2>1. PICK s, w : rooms' = [rooms EXCEPT ![s] = Subscribed(s, c, w)]
    BY <1>4 DEF Subscribe
  <2>2. r = s => rooms[r].wallets \subseteq Subscribed(s, c, w).wallets
    BY <1>1 DEF Subscribed, RoomEntries
  <2> QED BY <1>1, <2>1, <2>2
<1>5. ASSUME NEW c \in Clients, Unsubscribe(c)
      PROVE  rooms[r].wallets \subseteq rooms'[r].wallets
  <2>1. rooms'[r] = [rooms[r] EXCEPT !.subscribers = @ \ {c}]
    BY <1>5 DEF Unsubscribe
  <2> QED BY <1>1, <2>1 DEF RoomEntries
<1>6. ASSUME NEW s \in Rooms, Update(s)
      PROVE  rooms[r].wallets \subseteq rooms'[r].wallets
  <2>1. PICK report, tick :
          tick \in Ticks /\ rooms' = [rooms EXCEPT ![s] = UpdatedRoom(rooms[s], report, tick)]
    BY <1>6 DEF Update
  <2>2. UpdatedRoom(rooms[r], report, tick).wallets = rooms[r].wallets
    BY <1>1 DEF UpdatedRoom, LogUpdated, AccountUpdated, RoomEntries
  <2> QED BY <1>1, <2>1, <2>2
<1>7. ASSUME rooms' # rooms
      PROVE  \/ \E c \in Clients : Register(c) \/ Subscribe(c) \/ Unsubscribe(c)
             \/ \E s \in Rooms : Update(s)
  BY <1>7, Writers DEF roomVars, Wait, Pair, Leave, Expire, Observe
<1> QED BY <1>2, <1>3, <1>4, <1>5, <1>6, <1>7

\* A registration writes its match, the sessions of both players and the
\* room together.
LEMMA Registered ==
  ASSUME NEW K, Typed(K), NEW c \in Clients, Register(c), matches' # matches \/ sessions' # sessions
  PROVE  \E m \in DOMAIN matches, r \in Rooms :
           /\ matches' = [matches EXCEPT ![m].room = r, ![m].state = "RoomReady"]
           /\ PlayersOf(matches[m]) \subseteq rooms'[r].wallets
           /\ sessions' = [w \in Wallets |->
                IF w \in PlayersOf(matches[m]) THEN [sessions[w] EXCEPT !.room = r]
                                               ELSE sessions[w]]
<1>1. PICK m \in DOMAIN matches, r \in Rooms, tick \in Ticks :
        /\ matches' = [matches EXCEPT ![m].room = r, ![m].state = "RoomReady"]
        /\ rooms' = [rooms EXCEPT ![r] = RegisteredRoom(r, m, tick)]
        /\ sessions' = [w \in Wallets |->
             IF w \in PlayersOf(matches[m]) THEN [sessions[w] EXCEPT !.room = r]
                                            ELSE sessions[w]]
  <2> PICK m, r : m = Head(script[c]).match /\ r = Head(script[c]).room
    OBVIOUS
  <2>1. m \in DOMAIN matches /\ r \in Rooms
    BY AtRegister DEF Register
  <2>2. Active(matches[m])
    BY DEF Register
  <2>3. PICK tick \in Ticks : rooms' = [rooms EXCEPT ![r] = RegisteredRoom(r, m, tick)]
    BY <2>2 DEF Register
  <2>4. /\ matches' = [matches EXCEPT ![m].room = r, ![m].state = "RoomReady"]
        /\ sessions' = [w \in Wallets |->
             IF w \in PlayersOf(matches[m]) THEN [sessions[w] EXCEPT !.room = r]
                                            ELSE sessions[w]]
    BY <2>2 DEF Register
  <2> QED BY <2>1, <2>3, <2>4
<1>2. rooms \in [Rooms -> RoomEntries] /\ rooms[r] \in RoomEntries
  BY DEF Typed, RoomMap
<1>3. PlayersOf(matches[m]) \subseteq RegisteredRoom(r, m, tick).wallets
  BY <1>2 DEF RegisteredRoom, RoomEntries
<1> QED BY <1>1, <1>2, <1>3

\* What a step does to the room of a session.
LEMMA SessionsGoOn ==
  ASSUME NEW K, Typed(K), [Next]_vars, ~Restart, NEW w \in Wallets
  PROVE  \/ sessions'[w].room = sessions[w].room
         \/ \E r \in Rooms : sessions'[w].room = r /\ w \in rooms'[r].wallets
<1>1. sessions \in [Wallets -> Sessions] /\ sessions[w] \in Sessions
  BY DEF Typed, Matchmaker
<1>2. ASSUME NEW c \in Clients, Wait(c) PROVE sessions'[w].room = sessions[w].room
  <2>1. PICK v, ticket : sessions' = [sessions EXCEPT ![v].ticket = ticket]
    BY <1>2 DEF Wait
  <2> QED BY <1>1, <2>1 DEF Sessions
<1>3. ASSUME NEW c \in Clients, Pair(c) PROVE sessions'[w].room = sessions[w].room
  <2>1. PICK m : \/ sessions'[w] = sessions[w]
                 \/ sessions'[w] = [sessions[w] EXCEPT !.ticket = 0, !.match = m]
    BY <1>3 DEF Pair
  <2> QED BY <1>1, <2>1 DEF Sessions
<1>4. ASSUME NEW c \in Clients, Leave(c) PROVE sessions'[w].room = sessions[w].room
  <2>1. PICK v : sessions' = sessions \/ sessions' = [sessions EXCEPT ![v].ticket = 0]
    BY <1>4 DEF Leave
  <2> QED BY <1>1, <2>1 DEF Sessions
<1>5. ASSUME NEW c \in Clients, Register(c), sessions' # sessions
      PROVE  \/ sessions'[w].room = sessions[w].room
             \/ \E r \in Rooms : sessions'[w].room = r /\ w \in rooms'[r].wallets
  <2>1. PICK m \in DOMAIN matches, r \in Rooms :
          /\ PlayersOf(matches[m]) \subseteq rooms'[r].wallets
          /\ sessions' = [v \in Wallets |->
               IF v \in PlayersOf(matches[m]) THEN [sessions[v] EXCEPT !.room = r]
                                              ELSE sessions[v]]
    BY <1>5, Registered
  <2> QED BY <1>1, <2>1 DEF Sessions
<1>6. CASE sessions' = sessions
  BY <1>6
<1> QED BY <1>2, <1>3, <1>4, <1>5, <1>6, Writers
        DEF matchVars, Expire, Subscribe, Unsubscribe, Observe, Update

\* What a step does to the room of a match.
LEMMA RoomsOfMatchesGoOn ==
  ASSUME NEW K, Typed(K), [Next]_vars, ~Restart, NEW m \in DOMAIN matches',
         matches'[m].room # None
  PROVE  \/ PlayersOf(matches'[m]) \subseteq rooms'[matches'[m].room].wallets
         \/ /\ m \in DOMAIN matches
            /\ matches'[m].room = matches[m].room
            /\ PlayersOf(matches'[m]) = PlayersOf(matches[m])
<1> PICK n \in Nat : n = Len(matches) /\ DOMAIN matches = 1..n
  BY LenProperties DEF Typed, Matchmaker
<1>1. matches \in Seq(Matches) /\ \A k \in 1..n : matches[k] \in Matches
  BY ElementOfSeq DEF Typed, Matchmaker
<1>2. CASE matches' = matches
  BY <1>2
<1>3. ASSUME NEW c \in Clients, Pair(c)
      PROVE  m \in DOMAIN matches /\ matches'[m] = matches[m]
  <2> PICK step : step = Head(script[c])
    OBVIOUS
  <2> DEFINE new(creator) == [creator |-> creator, joiner |-> step.wallet, bet |-> step.bet,
                              room |-> None, state |-> "AwaitingRoomCreation"]
  <2>1. PICK match : matches' = Append(matches, match) /\ match.room = None
    <3>1. matches' = Append(matches, new(Head(queue[step.bet]).wallet))
      BY <1>3 DEF Pair
    <3>2. new(Head(queue[step.bet]).wallet).room = None
      OBVIOUS
    <3> HIDE DEF new
    <3> QED BY <3>1, <3>2
  <2>2. DOMAIN matches' = 1..(n + 1) /\ matches'[n + 1] = match
        /\ \A k \in 1..n : matches'[k] = matches[k]
    BY <1>1, <2>1
  <2> QED BY <2>1, <2>2
<1>4. ASSUME NEW c \in Clients, Register(c), matches' # matches
      PROVE  \/ PlayersOf(matches'[m]) \subseteq rooms'[matches'[m].room].wallets
             \/ m \in DOMAIN matches /\ matches'[m] = matches[m]
  <2>1. PICK k \in 1..n, r \in Rooms :
          /\ matches' = [matches EXCEPT ![k].room = r, ![k].state = "RoomReady"]
          /\ PlayersOf(matches[k]) \subseteq rooms'[r].wallets
    BY <1>4, Registered
  <2>2. matches[k] \in Matches
    BY <1>1
  <2>3. CASE m = k
    <3>1. matches'[m] = [matches[k] EXCEPT !.room = r, !.state = "RoomReady"]
      BY <1>1, <2>1, <2>3
    <3>2. matches'[m].room = r /\ PlayersOf(matches'[m]) = PlayersOf(matches[k])
      BY <2>2, <3>1 DEF Matches, PlayersOf
    <3> QED BY <2>1, <3>2
  <2>4. CASE m # k
    BY <1>1, <2>1, <2>4
  <2> QED BY <2>3, <2>4
<1>5. ASSUME NEW k \in MatchIds, Expire(k), matches' # matches
      PROVE  /\ m \in DOMAIN matches
             /\ matches'[m].room = matches[m].room
             /\ PlayersOf(matches'[m]) = PlayersOf(matches[m])
  <2>1. matches' = [matches EXCEPT ![k].state = "Expired"] /\ DOMAIN matches' = 1..n
    BY <1>1, <1>5 DEF Expire
  <2>2. m \in 1..n /\ matches[m] \in Matches
    BY <1>1, <2>1
  <2>3. matches'[m] = matches[m] \/ matches'[m] = [matches[m] EXCEPT !.state = "Expired"]
    BY <1>1, <2>1, <2>2
  <2> QED BY <2>2, <2>3 DEF Matches, PlayersOf
<1>6. ASSUME matches' # matches
      PROVE  (\E c \in Clients : Pair(c) \/ Register(c)) \/ (\E k \in MatchIds : Expire(k))
  BY <1>6, Writers DEF matchVars, Wait, Leave, Subscribe, Unsubscribe, Observe, Update
<1> QED BY <1>2, <1>3, <1>4, <1>5, <1>6

\* A room that a match or a session names has both players on its list, so
\* every broadcast to the room is addressed to both.
THEOREM RoomsKeepTheirPlayers == Spec => []RoomHasItsPlayers
<1>1. Init => RoomHasItsPlayers
  <2>1. Init => DOMAIN matches = {}
    BY DEF Init, RelayInit
  <2>2. Init => \A w \in Wallets : sessions[w].room = None
    BY DEF Init, RelayInit, NoSession
  <2> QED BY <2>1, <2>2 DEF RoomHasItsPlayers
<1>2. IsTyped /\ IsTyped' /\ RoomHasItsPlayers /\ [Next]_vars => RoomHasItsPlayers'
  <2> SUFFICES ASSUME NEW K, Typed(K), IsTyped', RoomHasItsPlayers, [Next]_vars
               PROVE  RoomHasItsPlayers'
    BY DEF IsTyped
  <2>1. CASE Restart
    <3>1. \A m \in DOMAIN matches' : matches'[m].room = None
      <4>1. ASSUME NEW m \in DOMAIN matches
            PROVE  [matches[m] EXCEPT !.room = None, !.state = "Forgotten"].room = None
        <5>1. matches[m] \in Matches
          BY ElementOfSeq, LenProperties DEF Typed, Matchmaker
        <5> QED BY <5>1 DEF Matches
      <4> QED BY <2>1, <4>1 DEF Restart
    <3>2. \A w \in Wallets : sessions'[w].room = None
      BY <2>1 DEF Restart, NoSession
    <3> QED BY <3>1, <3>2 DEF RoomHasItsPlayers
  <2>2. CASE ~Restart
    <3>1. ASSUME NEW m \in DOMAIN matches', matches'[m].room # None
          PROVE  PlayersOf(matches'[m]) \subseteq rooms'[matches'[m].room].wallets
      <4>1. CASE /\ m \in DOMAIN matches
                 /\ matches'[m].room = matches[m].room
                 /\ PlayersOf(matches'[m]) = PlayersOf(matches[m])
        <5>1. matches[m].room \in Rooms
          <6>1. matches[m] \in Matches
            BY <4>1, ElementOfSeq, LenProperties DEF Typed, Matchmaker
          <6> QED BY <3>1, <4>1, <6>1 DEF Matches
        <5>2. PlayersOf(matches[m]) \subseteq rooms[matches[m].room].wallets
          BY <3>1, <4>1 DEF RoomHasItsPlayers
        <5> QED BY <2>2, <4>1, <5>1, <5>2, WalletsGrow
      <4> QED BY <2>2, <3>1, <4>1, RoomsOfMatchesGoOn
    <3>2. ASSUME NEW w \in Wallets, sessions'[w].room # None
          PROVE  w \in rooms'[sessions'[w].room].wallets
      <4>1. CASE sessions'[w].room = sessions[w].room
        <5>1. sessions[w].room \in Rooms
          BY <3>2, <4>1 DEF Typed, Matchmaker, Sessions
        <5>2. w \in rooms[sessions[w].room].wallets
          BY <3>2, <4>1 DEF RoomHasItsPlayers
        <5> QED BY <2>2, <4>1, <5>1, <5>2, WalletsGrow
      <4> QED BY <2>2, <4>1, SessionsGoOn
    <3> QED BY <3>1, <3>2 DEF RoomHasItsPlayers
  <2> QED BY <2>1, <2>2
<1> QED BY <1>1, <1>2, EverythingIsTyped, PTL DEF Spec

-----------------------------------------------------------------------------
(***************************************************************************)
(* The stamps of the states that are announced.                            *)
(***************************************************************************)

\* A step that changes the phase of a room stamps it anew, but for the one
\* that makes the room's entry: with a later moment, if the clock advances.
LEMMA StampsGoOn ==
  ASSUME NEW K, Typed(K), [Next]_vars, NEW r \in Rooms, ClockAdvances
  PROVE  \/ rooms'[r].stamp > rooms[r].stamp
         \/ rooms'[r].stamp = rooms[r].stamp /\ rooms'[r].phase = rooms[r].phase
         \/ rooms'[r].stamp = rooms[r].stamp /\ rooms[r].phase = None
<1>1. rooms \in [Rooms -> RoomEntries] /\ rooms[r] \in RoomEntries
  BY DEF Typed, RoomMap
<1>2. CASE rooms' = rooms
  BY <1>2
<1>later. rooms[r].stamp \in Int /\ \A tick \in Ticks : rooms[r].stamp + tick > rooms[r].stamp
  BY <1>1 DEF RoomEntries, ClockAdvances
<1>3. ASSUME NEW c \in Clients, Register(c), rooms' # rooms
      PROVE  rooms'[r] = rooms[r] \/ rooms'[r].stamp > rooms[r].stamp
  <2>1. PICK s, m, tick :
          tick \in Ticks /\ rooms' = [rooms EXCEPT ![s] = RegisteredRoom(s, m, tick)]
    BY <1>3 DEF Register
  <2>2. RegisteredRoom(r, m, tick).stamp = rooms[r].stamp + tick
    BY <1>1 DEF RegisteredRoom, RoomEntries
  <2> QED BY <1>later, <1>1, <2>1, <2>2
<1>4. ASSUME NEW c \in Clients, Subscribe(c)
      PROVE  /\ rooms'[r].stamp = rooms[r].stamp
             /\ rooms'[r].phase = rooms[r].phase \/ rooms[r].phase = None
  <2>1. PICK s, w : rooms' = [rooms EXCEPT ![s] = Subscribed(s, c, w)]
    BY <1>4 DEF Subscribe
  <2>2. /\ Subscribed(r, c, w).stamp = rooms[r].stamp
        /\ Subscribed(r, c, w).phase = rooms[r].phase \/ rooms[r].phase = None
    BY <1>1 DEF Subscribed, RoomEntries
  <2> QED BY <1>1, <2>1, <2>2
<1>5. ASSUME NEW c \in Clients, Unsubscribe(c)
      PROVE  rooms'[r].stamp = rooms[r].stamp /\ rooms'[r].phase = rooms[r].phase
  <2>1. rooms'[r] = [rooms[r] EXCEPT !.subscribers = @ \ {c}]
    BY <1>5 DEF Unsubscribe
  <2> QED BY <1>1, <2>1 DEF RoomEntries
<1>6. ASSUME NEW s \in Rooms, Update(s)
      PROVE  rooms'[r] = rooms[r] \/ rooms'[r].stamp > rooms[r].stamp
  <2>1. PICK report, tick :
          tick \in Ticks /\ rooms' = [rooms EXCEPT ![s] = UpdatedRoom(rooms[s], report, tick)]
    BY <1>6 DEF Update
  <2>2. \/ UpdatedRoom(rooms[r], report, tick) = rooms[r]
        \/ UpdatedRoom(rooms[r], report, tick).stamp = rooms[r].stamp + tick
    BY <1>1 DEF UpdatedRoom, LogUpdated, AccountUpdated, RoomEntries
  <2> QED BY <1>later, <1>1, <2>1, <2>2
<1>7. CASE Restart
  <2>1. PICK tick \in Ticks : rooms'[r] = [NoRoom EXCEPT !.stamp = rooms[r].stamp + tick]
    BY <1>7 DEF Restart
  <2> QED BY <1>later, <2>1 DEF NoRoom
<1>8. ASSUME rooms' # rooms, ~Restart
      PROVE  \/ \E c \in Clients : Register(c) \/ Subscribe(c) \/ Unsubscribe(c)
             \/ \E s \in Rooms : Update(s)
  BY <1>8, Writers DEF roomVars, Wait, Pair, Leave, Expire, Observe
<1> QED BY <1>2, <1>3, <1>4, <1>5, <1>6, <1>7, <1>8

\* No state announced is newer than its room, one as new is the room's, and
\* of two as new as each other both are the same.
Stamped(K) ==
  /\ \A x \in K :
       /\ x.stamp <= rooms[x.room].stamp
       /\ x.stamp = rooms[x.room].stamp => x.phase = rooms[x.room].phase
  /\ \A x, y \in K : x.room = y.room /\ x.stamp = y.stamp => x.phase = y.phase

\* So it is after every step, with the states that the step announces.
LEMMA StaysStamped ==
  ASSUME NEW K, NEW K2, K2 = K \cup Current', Typed(K), Typed(K2)', Stamped(K), [Next]_vars,
         ClockAdvances
  PROVE  Stamped(K2)'
<1>1. ASSUME NEW x \in K
      PROVE  /\ x.room \in Rooms /\ x.stamp \in Int
             /\ x.stamp <= rooms'[x.room].stamp
             /\ x.stamp = rooms'[x.room].stamp => x.phase = rooms'[x.room].phase
  <2>1. x \in RoomStates
    BY DEF Typed, Announced
  <2>2. x.room \in Rooms /\ x.stamp \in Int /\ x.phase \in RoomPhases
    BY <2>1 DEF RoomStates
  <2>3. rooms[x.room].stamp \in Int /\ rooms'[x.room].stamp \in Int
    BY <2>2 DEF Typed, RoomMap, RoomEntries
  <2>4. /\ x.stamp <= rooms[x.room].stamp
        /\ x.stamp = rooms[x.room].stamp => x.phase = rooms[x.room].phase
    BY DEF Stamped
  <2>5. None \notin RoomPhases
    BY RelayAssumption
  <2> QED BY <2>2, <2>3, <2>4, <2>5, StampsGoOn
<1>2. ASSUME NEW x \in Current'
      PROVE  /\ x.room \in Rooms
             /\ x.stamp = rooms'[x.room].stamp /\ x.phase = rooms'[x.room].phase
             /\ x.stamp \in Int
  <2>1. PICK r \in Rooms : x = RoomState(r, rooms'[r])
    BY DEF Current, Made
  <2>2. rooms'[r].stamp \in Int
    BY DEF Typed, RoomMap, RoomEntries
  <2> QED BY <2>1, <2>2 DEF RoomState
<1>3. \A x, y \in K : x.room = y.room /\ x.stamp = y.stamp => x.phase = y.phase
  BY DEF Stamped
<1>4. \A x \in K2 : /\ x.stamp <= rooms'[x.room].stamp
                    /\ x.stamp = rooms'[x.room].stamp => x.phase = rooms'[x.room].phase
  BY <1>1, <1>2
<1>5. \A x, y \in K2 : x.room = y.room /\ x.stamp = y.stamp => x.phase = y.phase
  BY <1>1, <1>2, <1>3
<1> QED BY <1>4, <1>5 DEF Stamped

IsStamped == \E K : Typed(K) /\ Stamped(K)

\* A client can tell the newer of two states of a room from their stamps: no
\* two that anybody was told have one stamp and different phases, whatever
\* overtook what, and however often the relay was started again, provided
\* that the clock advances.
THEOREM StampsAreTelling ==
  ASSUME ClockAdvances
  PROVE  Spec => []StampsTell
<1>1. Init => IsStamped
  BY InitTyped DEF IsStamped, Stamped
<1>2. IsStamped /\ [Next]_vars => IsStamped'
  <2> SUFFICES ASSUME NEW K, Typed(K), Stamped(K), [Next]_vars
               PROVE  \E K2 : Typed(K2)' /\ Stamped(K2)'
    BY DEF IsStamped
  <2>1. PICK K2 : K2 = K \cup Current'
    OBVIOUS
  <2>2. Typed(K2)'
    BY <2>1, NextTyped
  <2>3. Stamped(K2)'
    BY <2>1, <2>2, StaysStamped
  <2> QED BY <2>2, <2>3
<1>3. IsStamped => StampsTell
  <2> SUFFICES ASSUME NEW K, Typed(K), Stamped(K) PROVE StampsTell
    BY DEF IsStamped
  <2>1. ASSUME NEW message \in UNION Range(told), message.type = "room_state"
        PROVE  message \in K
    <3>1. PICK c \in Clients : message \in told[c]
      BY DEF Range, Typed, Announced
    <3>2. message \in Notices \cup K
      BY <3>1 DEF Typed, Announced
    <3> QED BY <2>1, <3>2 DEF Notices
  <2> QED BY <2>1 DEF StampsTell, Stamped
<1> QED BY <1>1, <1>2, <1>3, PTL DEF Spec

-----------------------------------------------------------------------------
(***************************************************************************)
(* Observers and subscribers.                                              *)
(***************************************************************************)

OpeningKinds ==
  {"bind", "check_queue", "check_matches", "enqueue", "resume", "unregister",
   "unsubscribe", "leave", "register"}

\* A handler that is past its opening goes on with the rest of its script, and
\* with no step that handlers begin with.
Proceeds(c) ==
  \E S : /\ \A step \in S : step.do \notin OpeningKinds
         /\ \E new \in Seq(S) :
              \/ script'[c] = new \o Tail(script[c])
              \/ script'[c] = Tail(script[c]) \o new

\* A handler past its opening drops the step it took, and adds deliveries
\* at either end.
LEMMA PastOpeningProceeds ==
  ASSUME NEW K, Typed(K), NEW c \in Clients, HandlerStep(c),
         Head(script[c]).do \notin OpeningKinds
  PROVE  Proceeds(c)
<1>1. c \in Tasks /\ script = [t \in Tasks |-> script[t]]
  BY DEF Typed, Scripts, Tasks
<1>2. ASSUME NEW S, \A step \in S : step.do \notin OpeningKinds,
             NEW new \in Seq(S), Continue(c, new) \/ ContinueAndAnswer(c, new)
      PROVE  Proceeds(c)
  <2>1. \/ script'[c] = new \o Tail(script[c])
        \/ script'[c] = Tail(script[c]) \o new
    BY <1>1, <1>2 DEF Continue, ContinueAndAnswer
  <2> QED BY <1>2, <2>1 DEF Proceeds
<1> DEFINE Later == {"tell", "broadcast", "address"}
<1>3. ASSUME NEW x, x.do \in Later, Continue(c, <<x>>) \/ ContinueAndAnswer(c, <<x>>)
      PROVE  Proceeds(c)
  <2>1. <<x>> \in Seq({x}) /\ x.do \notin OpeningKinds
    BY <1>3 DEF OpeningKinds
  <2> QED BY <1>2, <1>3, <2>1
<1>4. ASSUME Continue(c, <<>>) \/ ContinueAndAnswer(c, <<>>) PROVE Proceeds(c)
  <2>1. <<>> \in Seq({})
    BY EmptySeq
  <2> QED BY <1>2, <1>4, <2>1
<1>5. \A d, message : Tell(d, message).do \in Later
  BY DEF Tell
<1>5a. \A r, message : Broadcast(r, message).do \in Later
  BY DEF Broadcast
<1>5b. ASSUME ReadRoom(c) PROVE \E x : x.do \in Later /\ Continue(c, <<x>>)
  <2> DEFINE x == [do |-> "address", message |-> Head(script[c]).message,
                   wallets |-> rooms[Head(script[c]).room].wallets,
                   subscribers |-> rooms[Head(script[c]).room].subscribers]
  <2>1. Continue(c, <<x>>) /\ x.do \in Later
    BY <1>5b DEF ReadRoom
  <2> HIDE DEF x
  <2> QED BY <2>1
<1> HIDE DEF Later
<1>6. SendToClient(c) => Proceeds(c)
  BY <1>4 DEF SendToClient
<1>7. SendToWallet(c) => Proceeds(c)
  <2>1. SendToWallet(c) => Continue(c, <<>>) \/ \E d, message : Continue(c, <<Tell(d, message)>>)
    BY DEF SendToWallet
  <2> QED BY <1>3, <1>4, <1>5, <2>1
<1>8. Snapshot(c) => Proceeds(c)
  <2>1. Snapshot(c) => \E r, message : Continue(c, <<Broadcast(r, message)>>)
    BY DEF Snapshot
  <2> QED BY <1>3, <1>5a, <2>1
<1>9. Subscribe(c) => Proceeds(c)
  <2>1. Subscribe(c) => \E d, message : ContinueAndAnswer(c, <<Tell(d, message)>>)
    BY DEF Subscribe
  <2> QED BY <1>3, <1>5, <2>1
<1>10. Observe(c) => Proceeds(c)
  BY <1>4 DEF Observe
<1>11. FindTicket(c) => Proceeds(c)
  <2>1. FindTicket(c) => \/ ContinueAndAnswer(c, <<>>)
                         \/ \E d, message : ContinueAndAnswer(c, <<Tell(d, message)>>)
    BY DEF FindTicket
  <2> QED BY <1>3, <1>4, <1>5, <2>1
<1>12. FindMatch(c) => Proceeds(c)
  <2> DEFINE S == {Tell(c, message) : message \in
                     {MatchFound(Head(script[c]).match),
                      RoomReady(Head(script[c]).match, matches[Head(script[c]).match].room)}}
  <2>1. ASSUME FindMatch(c)
        PROVE  \E a, b : /\ a = <<>> \/ \E x \in S : a = <<x>>
                         /\ b = <<>> \/ \E x \in S : b = <<x>>
                         /\ ContinueAndAnswer(c, a \o b)
    BY <2>1 DEF FindMatch
  <2>2. ASSUME NEW a, a = <<>> \/ \E x \in S : a = <<x>> PROVE a \in Seq(S)
    <3>1. \A x \in S : <<x>> \in Seq(S)
      OBVIOUS
    <3> HIDE DEF S
    <3> QED BY <2>2, <3>1, EmptySeq
  <2>3. \A x \in S : x.do \notin OpeningKinds
    BY <1>5 DEF OpeningKinds, Later
  <2> HIDE DEF S
  <2> QED BY <1>2, <2>1, <2>2, <2>3, ConcatProperties
<1>13. ReadRoom(c) => Proceeds(c)
  BY <1>3, <1>5b
<1>14. Address(c) => Proceeds(c)
  <2>1. \A step \in Deliveries(K) : step.do \notin OpeningKinds
    BY DEF Deliveries, OpeningKinds
  <2> QED BY <1>2, <2>1, AddressedTo
<1>15. SpawnTimer(c) => Proceeds(c)
  <2> SUFFICES ASSUME SpawnTimer(c) PROVE Proceeds(c)
    OBVIOUS
  <2> PICK n \in Nat : n = Len(matches)
    BY LenProperties DEF Typed, Matchmaker
  <2>1. HandlerScript(c, n, Made, K, script[c]) /\ script[c] # <<>> /\ Head(script[c]).do = "spawn_timer"
    BY DEF SpawnTimer, At, Typed, Scripts
  <2>2. script[c] \in Seq(HandlerSteps(c, n, Made, K))
    BY <2>1, PastOpening
  <2>3. Head(script[c]) \in HandlerSteps(c, n, Made, K) /\ Tail(script[c]) \in Seq(HandlerSteps(c, n, Made, K))
    BY <2>1, <2>2, HeadTailProperties
  <2> PICK m : m = Head(script[c]).match
    OBVIOUS
  <2>4. m \in 1..n
    BY <2>1, <2>3 DEF HandlerSteps, Errands, Deliveries
  <2>5. c # m
    BY <2>4, RelayAssumption DEF Typed, Matchmaker
  <2>6. PICK p : script' = [script EXCEPT ![c] = Tail(script[c]), ![m] = p]
    BY DEF SpawnTimer
  <2>7. script'[c] = Tail(script[c])
    BY <1>1, <2>5, <2>6
  <2>8. <<>> \o Tail(script[c]) = Tail(script[c])
    BY <2>3, ConcatEmptySeq
  <2>9. <<>> \in Seq({})
    BY EmptySeq
  <2> QED BY <2>7, <2>8, <2>9 DEF Proceeds
<1>16. ~(\/ Unregister(c) \/ Unsubscribe(c) \/ Bind(c) \/ CheckQueue(c) \/ CheckMatches(c)
         \/ Wait(c) \/ Pair(c) \/ Leave(c) \/ Register(c) \/ Resume(c))
  BY DEF Unregister, Unsubscribe, Bind, CheckQueue, CheckMatches, Wait, Pair, Leave,
         Register, Resume, At, OpeningKinds
<1> QED BY <1>6, <1>7, <1>8, <1>9, <1>10, <1>11, <1>12, <1>13, <1>14, <1>15, <1>16
        DEF HandlerStep

Holds(q, step) == \E i \in DOMAIN q : q[i] = step

\* Then nothing but the step done goes away.
LEMMA RestIsKept ==
  ASSUME NEW S, NEW q \in Seq(S), NEW T, NEW new \in Seq(T),
         NEW i \in DOMAIN q, i # 1
  PROVE  Holds(new \o Tail(q), q[i]) /\ Holds(Tail(q) \o new, q[i])
<1>1. PICK n \in Nat : n = Len(q) /\ n > 0 /\ DOMAIN q = 1..n
  BY LenProperties
<1>2. PICK k \in Nat : k = Len(new)
  BY LenProperties
<1>3. PICK t : t = Tail(q)
  OBVIOUS
<1>4. t \in Seq(S \cup T) /\ new \in Seq(S \cup T) /\ Len(t) = n - 1 /\ t[i - 1] = q[i]
  <2>1. q # <<>>
    BY <1>1, EmptySeq
  <2>2. t \in Seq(S) /\ Len(t) = n - 1 /\ t[i - 1] = q[i]
    BY <1>1, <1>3, <2>1
  <2> QED BY <2>2, SeqMonotonic
<1>5. i - 1 \in 1..(n - 1)
  BY <1>1
<1>6. PICK a, b : a = new \o t /\ b = t \o new
  OBVIOUS
<1>7. /\ DOMAIN a = 1..(k + (n - 1)) /\ DOMAIN b = 1..((n - 1) + k)
      /\ \A j \in 1..(n - 1) : a[k + j] = t[j] /\ b[j] = t[j]
  <2>1. Len(t) = n - 1 /\ Len(new) = k
    BY <1>2, <1>4
  <2> PICK U : U = S \cup T
    OBVIOUS
  <2>0. t \in Seq(U) /\ new \in Seq(U)
    BY <1>4
  <2>2. /\ Len(a) = k + (n - 1) /\ a \in Seq(U)
        /\ \A j \in 1..(k + (n - 1)) : a[j] = IF j <= k THEN new[j] ELSE t[j - k]
    <3>1. /\ Len(a) = Len(new) + Len(t) /\ a \in Seq(U)
          /\ \A j \in 1..(Len(new) + Len(t)) :
               a[j] = IF j <= Len(new) THEN new[j] ELSE t[j - Len(new)]
      BY <1>6, <2>0, ConcatProperties
    <3> QED BY <2>1, <3>1
  <2>3. /\ Len(b) = (n - 1) + k /\ b \in Seq(U)
        /\ \A j \in 1..((n - 1) + k) : b[j] = IF j <= n - 1 THEN t[j] ELSE new[j - (n - 1)]
    BY <1>6, <2>0, <2>1, ConcatProperties
  <2>4. DOMAIN a = 1..(k + (n - 1)) /\ DOMAIN b = 1..((n - 1) + k)
    BY <2>2, <2>3, LenProperties
  <2>5. ASSUME NEW j \in 1..(n - 1) PROVE a[k + j] = t[j] /\ b[j] = t[j]
    <3>1. k + j \in 1..(k + (n - 1)) /\ ~(k + j <= k) /\ k + j - k = j
      BY <1>1, <1>2
    <3>2. j \in 1..((n - 1) + k) /\ j <= n - 1
      BY <1>1, <1>2
    <3> QED BY <2>2, <2>3, <3>1, <3>2
  <2> QED BY <2>4, <2>5
<1>8. /\ k + (i - 1) \in DOMAIN a /\ a[k + (i - 1)] = q[i]
      /\ i - 1 \in DOMAIN b /\ b[i - 1] = q[i]
  BY <1>1, <1>4, <1>5, <1>7
<1> QED BY <1>3, <1>6, <1>8 DEF Holds

ObserveStep(r) == [do |-> "observe", room |-> r]

\* The task of a connection is still about to have the room observed.
WillObserve(c, r) == Holds(script[c], ObserveStep(r))

\* Handlers begin with steps of their own kinds.
LEMMA OpeningsOpen ==
  ASSUME NEW c, NEW n, NEW q, Opening(c, n, q), NEW i \in DOMAIN q
  PROVE  q[i].do \in OpeningKinds
<1>1. CASE JoinOpening(c, q)
  BY <1>1 DEF JoinOpening, BindStep, CheckQueueStep, CheckMatchesStep, EnqueueStep, OpeningKinds
<1>2. CASE ResumeOpening(c, n, q)
  BY <1>2 DEF ResumeOpening, BindStep, ResumeSteps, OpeningKinds
<1>3. CASE OtherOpening(n, q)
  BY <1>3 DEF OtherOpening, OpeningKinds
<1> QED BY <1>1, <1>2, <1>3 DEF Opening

\* The next step of a connection or of an observer is this one, and now is
\* its turn.
Takes(t, step) ==
  /\ script[t] # <<>> /\ Head(script[t]) = step
  /\ \/ t \in Clients /\ HandlerStep(t)
     \/ t \in Rooms /\ ObserverStep(t)

\* What an observer goes through it goes through to the end.
LEMMA ObserverProceeds ==
  ASSUME NEW K, Typed(K), NEW r \in Rooms, ObserverStep(r)
  PROVE  \E S : \E new \in Seq(S) : script'[r] = new \o Tail(script[r])
<1>1. r \in Tasks /\ script = [t \in Tasks |-> script[t]]
  BY DEF Typed, Scripts, Tasks
<1>2. ASSUME NEW S, NEW new \in Seq(S), Continue(r, new)
      PROVE  script'[r] = new \o Tail(script[r])
  BY <1>1, <1>2 DEF Continue
<1>3. ASSUME SendToClient(r)
      PROVE  \E S : \E new \in Seq(S) : Continue(r, new)
  <2>1. Continue(r, <<>>) /\ <<>> \in Seq({})
    BY <1>3, EmptySeq DEF SendToClient
  <2> QED BY <2>1
<1>4. ASSUME ReadRoom(r)
      PROVE  \E S : \E new \in Seq(S) : Continue(r, new)
  <2>1. PICK x : Continue(r, <<x>>)
    BY <1>4 DEF ReadRoom
  <2>2. <<x>> \in Seq({x})
    OBVIOUS
  <2> QED BY <2>1, <2>2
<1>5. ASSUME Address(r)
      PROVE  \E S : \E new \in Seq(S) : Continue(r, new)
  BY <1>5, AddressedTo
<1>6. ASSUME Update(r)
      PROVE  \E S : \E new \in Seq(S) : Continue(r, new)
  <2>1. PICK x, y : Continue(r, <<x>>) \/ Continue(r, <<x, y>>)
    BY <1>6 DEF Update
  <2>2. <<x>> \in Seq({x, y}) /\ <<x, y>> \in Seq({x, y})
    OBVIOUS
  <2> QED BY <2>1, <2>2
<1>7. \E S : \E new \in Seq(S) : Continue(r, new)
  BY <1>3, <1>4, <1>5, <1>6 DEF ObserverStep
<1> QED BY <1>2, <1>7

\* What a task is about to do after its opening it goes on to do, or does.
LEMMA StepIsKept ==
  ASSUME NEW K, Typed(K), [Next]_vars, ~Restart, NEW t \in Clients \cup Rooms,
         NEW step, Holds(script[t], step), step.do \notin OpeningKinds
  PROVE  Holds(script'[t], step) \/ Takes(t, step)
<1>1. CASE script'[t] = script[t]
  BY <1>1
<1>2. CASE script'[t] # script[t]
  <2> PICK n \in Nat : n = Len(matches)
    BY LenProperties DEF Typed, Matchmaker
  <2> PICK q : q = script[t]
    OBVIOUS
  <2>1. PICK i \in DOMAIN q : q[i] = step
    BY DEF Holds
  <2>2. q # <<>> /\ script[t] # <<>>
    BY <2>1
  <2>3. \/ t \in Clients /\ HandlerStep(t)
        \/ t \in Rooms /\ ObserverStep(t)
    <3>1. t \in Clients => ~Disconnect(t) /\ ~Request(t)
      BY <2>2 DEF Disconnect, Request, RequestJoin, RequestLeave, RequestRegister,
                  RequestSubscribe, RequestResume, Receive
    <3>2. \A report \in Reports : ~Notify(t, report)
      BY <2>2 DEF Notify
    <3>3. CASE t \in Clients
      <4>1. Disconnect(t) \/ Request(t) \/ HandlerStep(t)
        BY <1>2, <3>3, HandlersRewriteTheirOwn
      <4> QED BY <3>1, <3>3, <4>1
    <3>4. CASE t \in Rooms /\ t \notin Clients
      <4>1. ObserverStep(t) \/ \E report \in Reports : Notify(t, report)
        BY <1>2, <3>4, StepsRewriteTheirOwn
      <4> QED BY <3>2, <3>4, <4>1
    <3> QED BY <3>3, <3>4
  <2>4. \E S : \E T : \E new \in Seq(T) :
          q \in Seq(S) /\ (script'[t] = new \o Tail(q) \/ script'[t] = Tail(q) \o new)
    <3>1. CASE t \in Clients /\ HandlerStep(t)
      <4>1. HandlerScript(t, n, Made, K, q)
        BY <3>1 DEF Typed, Scripts
      <4>2. ~Opening(t, n, q)
        BY <2>1, OpeningsOpen
      <4>3. Head(q).do \notin OpeningKinds /\ q \in Seq(HandlerSteps(t, n, Made, K))
        BY <2>2, <4>1, <4>2, InOpening DEF OpeningKinds, HandlerScript
      <4>4. Proceeds(t)
        BY <3>1, <4>3, PastOpeningProceeds
      <4> QED BY <4>3, <4>4 DEF Proceeds
    <3>2. CASE t \in Rooms /\ ObserverStep(t)
      <4>1. q \in Seq(ObserverSteps(t, Made, K))
        BY <3>2 DEF Typed, Scripts
      <4> QED BY <3>2, <4>1, ObserverProceeds
    <3> QED BY <2>3, <3>1, <3>2
  <2>5. PICK S, T : \E new \in Seq(T) :
          q \in Seq(S) /\ (script'[t] = new \o Tail(q) \/ script'[t] = Tail(q) \o new)
    BY <2>4
  <2>6. PICK new \in Seq(T) :
          q \in Seq(S) /\ (script'[t] = new \o Tail(q) \/ script'[t] = Tail(q) \o new)
    BY <2>5
  <2>7. CASE i # 1
    <3>1. Holds(new \o Tail(q), q[i]) /\ Holds(Tail(q) \o new, q[i])
      BY <2>1, <2>6, <2>7, RestIsKept
    <3> QED BY <2>1, <2>6, <3>1
  <2>8. CASE i = 1
    <3>1. Head(q) = step
      BY <2>1, <2>6, <2>8
    <3> QED BY <2>2, <2>3, <3>1 DEF Takes
  <2> QED BY <2>7, <2>8
<1> QED BY <1>1, <1>2

\* Only Observe writes to the set of observers, which only grows.
LEMMA ObserversGrow ==
  ASSUME [Next]_vars, ~Restart
  PROVE  observers \subseteq observers'
BY Writers DEF roomVars, Wait, Pair, Leave, Register, Subscribe, Unsubscribe, Observe, Expire, Update

\* What a handler is about to observe it goes on to, unless it is observed.
LEMMA ObserveIsKept ==
  ASSUME NEW K, Typed(K), [Next]_vars, ~Restart, NEW c \in Clients, NEW r, WillObserve(c, r)
  PROVE  r \in observers' \/ WillObserve(c, r)'
<1>1. ObserveStep(r).do = "observe" /\ ObserveStep(r).room = r
  BY DEF ObserveStep
<1>2. Holds(script'[c], ObserveStep(r)) \/ Takes(c, ObserveStep(r))
  BY <1>1, StepIsKept DEF WillObserve, OpeningKinds
<1>3. ASSUME Takes(c, ObserveStep(r)) PROVE r \in observers'
  <2>1. HandlerStep(c) /\ Head(script[c]).do = "observe" /\ Head(script[c]).room = r
    BY <1>1, <1>3, RelayAssumption DEF Takes
  <2>2. Observe(c)
    BY <2>1 DEF HandlerStep, SendToClient, SendToWallet, Unregister, Unsubscribe, Bind,
       CheckQueue, CheckMatches, Wait, Pair, SpawnTimer, Leave, Register, Snapshot,
       Subscribe, Resume, FindTicket, FindMatch, ReadRoom, Address, At
  <2> QED BY <2>1, <2>2 DEF Observe
<1> QED BY <1>2, <1>3 DEF WillObserve

\* A room gets its entry from a step that has it observed, or from one after
\* which the next step has.
LEMMA MadeIsObserved ==
  ASSUME NEW K, Typed(K), [Next]_vars, ~Restart, NEW r \in Rooms,
         r \notin Made, r \in Made'
  PROVE  \E c \in Clients : WillObserve(c, r) \/ WillObserve(c, r)'
<1>1. rooms \in [Rooms -> RoomEntries] /\ rooms[r].phase \notin RoomPhases
      /\ rooms'[r].phase \in RoomPhases
  BY DEF Typed, RoomMap, Made
<1>2. rooms'[r].phase # rooms[r].phase
  BY <1>1
<1>3. ASSUME NEW c \in Clients, Register(c) PROVE WillObserve(c, r)'
  <2>1. PICK m, s, tick :
          /\ s = Head(script[c]).room
          /\ rooms' = [rooms EXCEPT ![s] = RegisteredRoom(s, m, tick)]
          /\ Continue(c, <<TellWallet(matches[m].joiner, RoomReady(m, s)),
                           ObserveStep(s), [do |-> "snapshot", room |-> s]>>)
    BY <1>2, <1>3, AtRegister DEF Register, ObserveStep
  <2>2. r = s
    BY <1>1, <1>2, <2>1
  <2>3. Tail(script[c]) = <<>>
    BY <1>3, AtRegister DEF Register
  <2> PICK x, y : x = TellWallet(matches[m].joiner, RoomReady(m, s))
                  /\ y = [do |-> "snapshot", room |-> s]
    OBVIOUS
  <2>4. script'[c] = <<x, ObserveStep(s), y>> \o <<>>
    BY <2>1, <2>3 DEF Continue, Typed, Scripts, Tasks
  <2>5. <<x, ObserveStep(s), y>> \o <<>> = <<x, ObserveStep(s), y>>
    OBVIOUS
  <2>6. 2 \in DOMAIN script'[c] /\ script'[c][2] = ObserveStep(r)
    BY <2>2, <2>4, <2>5
  <2> QED BY <2>6 DEF WillObserve, Holds
<1>4. ASSUME NEW c \in Clients, Subscribe(c) PROVE WillObserve(c, r)
  <2> PICK q : q = script[c]
    OBVIOUS
  <2>1. PICK room : rooms' = [rooms EXCEPT ![Head(q).room] = room]
    BY <1>4 DEF Subscribe
  <2>2. Head(q).room = r
    BY <1>1, <1>2, <2>1
  <2>3. q # <<>> /\ Head(q).do = "subscribe"
    BY <1>4 DEF Subscribe, At
  <2>4. Linked(q, Made) /\ q \in Seq(HandlerSteps(c, Len(matches), Made, K))
    BY <2>3, AtErrand DEF ErrandKinds
  <2>5. 1 \in DOMAIN q /\ Head(q) = q[1]
    <3>1. PICK k \in Nat : k = Len(q) /\ k > 0 /\ DOMAIN q = 1..k
      BY <2>3, <2>4, EmptySeq, LenProperties
    <3> QED BY <2>3, <2>4, <3>1
  <2>6. 1 + 1 \in DOMAIN q /\ q[1 + 1] = [do |-> "observe", room |-> q[1].room]
    BY <2>3, <2>4, <2>5 DEF Linked
  <2> QED BY <2>2, <2>5, <2>6 DEF WillObserve, Holds, ObserveStep
<1>5. ASSUME NEW c \in Clients, Unsubscribe(c) PROVE FALSE
  <2>1. rooms'[r] = [rooms[r] EXCEPT !.subscribers = @ \ {c}]
    BY <1>5 DEF Unsubscribe
  <2> QED BY <1>1, <1>2, <2>1 DEF RoomEntries
<1>6. ASSUME NEW s \in Rooms, Update(s) PROVE FALSE
  <2>1. script[s] # <<>> /\ Head(script[s]).do = "update"
    BY <1>6 DEF Update, At
  <2>2. Head(script[s]) \in ObserverSteps(s, Made, K)
    BY <2>1, HeadTailProperties DEF Typed, Scripts
  <2>3. s \in Made
    BY <2>1, <2>2 DEF ObserverSteps, Deliveries
  <2>4. rooms'[r] = rooms[r]
    <3>1. PICK room : rooms' = [rooms EXCEPT ![s] = room]
      BY <1>6 DEF Update
    <3> QED BY <1>1, <2>3, <3>1
  <2> QED BY <1>2, <2>4
<1>7. rooms' # rooms
  BY <1>2
<1> QED BY <1>3, <1>4, <1>5, <1>6, <1>7, Writers
        DEF roomVars, Wait, Pair, Leave, Expire, Observe

\* A connection that is gone does nothing but take itself off the lists.
Leaving(q) ==
  \/ q = <<[do |-> "unregister"], [do |-> "unsubscribe"]>>
  \/ q = <<[do |-> "unsubscribe"]>>
  \/ q = <<>>

\* A closed connection goes on to drop its sender and then its subscriptions,
\* and the last step of that is Unsubscribe.
LEMMA GoneLeaves ==
  ASSUME NEW K, Typed(K), [Next]_vars, ~Restart, NEW c \in Clients,
         life[c] = "closed", Leaving(script[c])
  PROVE  /\ Leaving(script'[c])
         /\ script'[c] = <<>> => script[c] = <<>> \/ Unsubscribe(c)
<1> PICK q : q = script[c]
  OBVIOUS
<1>1. CASE script'[c] = q
  BY <1>1
<1>2. CASE script'[c] # q
  <2>1. HandlerStep(c)
    <3>1. ~Disconnect(c) /\ ~Request(c)
      BY DEF Disconnect, Request, RequestJoin, RequestLeave, RequestRegister,
             RequestSubscribe, RequestResume, Receive
    <3> QED BY <1>2, <3>1, HandlersRewriteTheirOwn
  <2>2. script = [t \in Tasks |-> script[t]] /\ c \in Tasks
    BY DEF Typed, Scripts, Tasks
  <2>3. CASE q = <<[do |-> "unregister"], [do |-> "unsubscribe"]>>
    <3>1. Head(q).do = "unregister" /\ Tail(q) = <<[do |-> "unsubscribe"]>>
      BY <2>3, Tuples
    <3>2. Unregister(c)
      BY <2>1, <3>1 DEF HandlerStep, SendToClient, SendToWallet, Unsubscribe, Bind,
         CheckQueue, CheckMatches, Wait, Pair, SpawnTimer, Leave, Register, Snapshot,
         Subscribe, Observe, Resume, FindTicket, FindMatch, ReadRoom, Address, At
    <3>3. script'[c] = <<>> \o <<[do |-> "unsubscribe"]>>
      BY <2>2, <3>1, <3>2 DEF Unregister, Continue
    <3>4. script'[c] = <<[do |-> "unsubscribe"]>>
      BY <3>3, Tuples
    <3> QED BY <3>4 DEF Leaving
  <2>4. CASE q = <<[do |-> "unsubscribe"]>>
    <3>1. Head(q).do = "unsubscribe" /\ Tail(q) = <<>>
      BY <2>4, Tuples
    <3>2. Unsubscribe(c)
      BY <2>1, <3>1 DEF HandlerStep, SendToClient, SendToWallet, Unregister, Bind,
         CheckQueue, CheckMatches, Wait, Pair, SpawnTimer, Leave, Register, Snapshot,
         Subscribe, Observe, Resume, FindTicket, FindMatch, ReadRoom, Address, At
    <3>3. script'[c] = <<>> \o <<>>
      BY <2>2, <3>1, <3>2 DEF Unsubscribe, Continue
    <3> QED BY <3>2, <3>3, Tuples DEF Leaving
  <2>5. CASE q = <<>>
    BY <2>1, <2>5 DEF HandlerStep, SendToClient, SendToWallet, Unregister, Unsubscribe, Bind,
       CheckQueue, CheckMatches, Wait, Pair, SpawnTimer, Leave, Register, Snapshot,
       Subscribe, Observe, Resume, FindTicket, FindMatch, ReadRoom, Address, At
  <2> QED BY <2>3, <2>4, <2>5 DEF Leaving
<1> QED BY <1>1, <1>2

\* Connections close by Disconnect, but for restarts.
LEMMA LivesGoOn ==
  ASSUME NEW K, Typed(K), [Next]_vars, ~Restart, NEW c \in Clients, life'[c] = "closed"
  PROVE  life[c] = "closed" \/ Disconnect(c)
<1>1. life \in [Clients -> {"new", "open", "closed"}]
  BY DEF Typed, Links
<1>2. CASE life' = life
  BY <1>2
<1>3. ASSUME NEW d \in Clients, Connect(d) PROVE life[c] = "closed"
  BY <1>1, <1>3 DEF Connect
<1>4. ASSUME NEW d \in Clients, Disconnect(d) PROVE life[c] = "closed" \/ d = c
  BY <1>1, <1>4 DEF Disconnect
<1>5. life' # life => \E d \in Clients : Connect(d) \/ Disconnect(d)
  BY LinkWriters DEF linkVars, Unregister, Bind
<1> QED BY <1>2, <1>3, <1>4, <1>5

\* What a step does to a room's subscribers.
LEMMA SubscribersGoOn ==
  ASSUME NEW K, Typed(K), [Next]_vars, ~Restart, NEW r \in Rooms,
         NEW c \in Clients, c \in rooms'[r].subscribers
  PROVE  /\ c \in rooms[r].subscribers \/ Subscribe(c)
         /\ ~Unsubscribe(c)
<1>1. rooms \in [Rooms -> RoomEntries] /\ rooms[r] \in RoomEntries
  BY DEF Typed, RoomMap
<1>2. rooms' = rooms => c \in rooms[r].subscribers
  OBVIOUS
<1>3. ASSUME NEW d \in Clients, Register(d) PROVE c \in rooms[r].subscribers
  <2>1. PICK s, m, tick :
          rooms' = rooms \/ rooms' = [rooms EXCEPT ![s] = RegisteredRoom(s, m, tick)]
    BY <1>3 DEF Register
  <2>2. RegisteredRoom(r, m, tick).subscribers = rooms[r].subscribers
    BY <1>1 DEF RegisteredRoom, RoomEntries
  <2> QED BY <1>1, <2>1, <2>2
<1>4. ASSUME NEW d \in Clients, Subscribe(d) PROVE c \in rooms[r].subscribers \/ c = d
  <2>1. PICK s, w : rooms' = [rooms EXCEPT ![s] = Subscribed(s, d, w)]
    BY <1>4 DEF Subscribe
  <2>2. Subscribed(r, d, w).subscribers = rooms[r].subscribers \cup {d}
    BY <1>1 DEF Subscribed, RoomEntries
  <2> QED BY <1>1, <2>1, <2>2
<1>5. ASSUME NEW d \in Clients, Unsubscribe(d) PROVE c \in rooms[r].subscribers /\ c # d
  <2>1. rooms'[r] = [rooms[r] EXCEPT !.subscribers = @ \ {d}]
    BY <1>5 DEF Unsubscribe
  <2> QED BY <1>1, <2>1 DEF RoomEntries
<1>6. ASSUME NEW s \in Rooms, Update(s) PROVE c \in rooms[r].subscribers
  <2>1. PICK report, tick :
          tick \in Ticks /\ rooms' = [rooms EXCEPT ![s] = UpdatedRoom(rooms[s], report, tick)]
    BY <1>6 DEF Update
  <2>2. UpdatedRoom(rooms[r], report, tick).subscribers = rooms[r].subscribers
    BY <1>1 DEF UpdatedRoom, LogUpdated, AccountUpdated, RoomEntries
  <2> QED BY <1>1, <2>1, <2>2
<1>7. ASSUME rooms' # rooms
      PROVE  \/ \E d \in Clients : Register(d) \/ Subscribe(d) \/ Unsubscribe(d)
             \/ \E s \in Rooms : Update(s)
  BY <1>7, Writers DEF roomVars, Wait, Pair, Leave, Expire, Observe
<1>8. ~Unsubscribe(c)
  BY <1>5
<1> QED BY <1>2, <1>3, <1>4, <1>5, <1>6, <1>7, <1>8

Tended ==
  /\ \A r \in Made : r \in observers \/ \E c \in Clients : WillObserve(c, r)
  /\ \A c \in Clients : life[c] = "closed" => Leaving(script[c])
  /\ \A r \in Rooms : \A c \in rooms[r].subscribers :
       life[c] = "closed" => script[c] # <<>>

\* Every room with an entry is observed, or the task that made the entry is
\* about to see to that; and no connection that has gone stays among the
\* subscribers once its handler is through.
THEOREM RoomsAreLookedAfter == Spec => []RoomsAreTended
<1>1. Init => Tended
  <2> SUFFICES ASSUME Init PROVE Tended
    OBVIOUS
  <2>1. \A r \in Rooms : rooms[r].phase = None /\ rooms[r].subscribers = {}
    BY DEF Init, RelayInit, NoRoom
  <2>2. \A c \in Clients : life[c] = "new"
    BY DEF Init, RelayInit
  <2> QED BY <2>1, <2>2, RelayAssumption DEF Tended, Made
<1>2. IsTyped /\ IsTyped' /\ Tended /\ [Next]_vars => Tended'
  <2> SUFFICES ASSUME NEW K, Typed(K), NEW K2, Typed(K2)', Tended, [Next]_vars
               PROVE  Tended'
    BY DEF IsTyped
  <2>1. CASE Restart
    <3>1. \A r \in Rooms : rooms'[r].phase = None /\ rooms'[r].subscribers = {}
      BY <2>1 DEF Restart, NoRoom
    <3>2. \A c \in Clients : script'[c] = <<>>
      BY <2>1 DEF Restart, Tasks
    <3>3. Made' = {}
      BY <3>1, RelayAssumption DEF Made
    <3> QED BY <3>1, <3>2, <3>3 DEF Tended, Leaving
  <2>2. CASE ~Restart
    <3>1. ASSUME NEW r \in Made'
          PROVE  r \in observers' \/ \E c \in Clients : WillObserve(c, r)'
      <4>1. CASE r \in Made
        <5>1. r \in observers \/ \E c \in Clients : WillObserve(c, r)
          BY <4>1 DEF Tended
        <5> QED BY <2>2, <5>1, ObserversGrow, ObserveIsKept
      <4>2. CASE r \notin Made
        <5>1. r \in Rooms
          BY <3>1 DEF Made
        <5>2. \E c \in Clients : WillObserve(c, r) \/ WillObserve(c, r)'
          BY <2>2, <3>1, <4>2, <5>1, MadeIsObserved
        <5> QED BY <2>2, <5>2, ObserveIsKept
      <4> QED BY <4>1, <4>2
    <3>2. ASSUME NEW c \in Clients, Disconnect(c)
          PROVE  Leaving(script'[c]) /\ script'[c] # <<>>
      <4>1. script'[c] = <<[do |-> "unregister"], [do |-> "unsubscribe"]>>
        BY <3>2 DEF Disconnect, Finish, Typed, Scripts, Tasks
      <4> QED BY <4>1 DEF Leaving
    <3>3. ASSUME NEW c \in Clients, life'[c] = "closed"
          PROVE  Leaving(script'[c])
      BY <2>2, <3>2, <3>3, LivesGoOn, GoneLeaves DEF Tended
    <3>4. ASSUME NEW r \in Rooms, NEW c \in rooms'[r].subscribers, life'[c] = "closed"
          PROVE  script'[c] # <<>>
      <4>1. c \in Clients
        BY <3>4 DEF Typed, RoomMap, RoomEntries, FiniteSubsets
      <4>2. CASE life[c] = "closed"
        <5>1. Leaving(script[c])
          BY <4>1, <4>2 DEF Tended
        <5>2. ~Subscribe(c)
          BY <5>1, Tuples DEF Leaving, Subscribe, At
        <5>3. c \in rooms[r].subscribers /\ ~Unsubscribe(c)
          BY <2>2, <4>1, <5>2, SubscribersGoOn
        <5>4. script[c] # <<>>
          BY <4>2, <5>3 DEF Tended
        <5> QED BY <2>2, <4>1, <4>2, <5>1, <5>3, <5>4, GoneLeaves
      <4>3. CASE Disconnect(c)
        BY <3>2, <4>1, <4>3
      <4> QED BY <2>2, <3>4, <4>1, <4>2, <4>3, LivesGoOn
    <3> QED BY <3>1, <3>3, <3>4 DEF Tended
  <2> QED BY <2>1, <2>2
<1>3. IsTyped /\ Tended => RoomsAreTended
  <2> SUFFICES ASSUME NEW K, Typed(K), Tended, NEW r \in Rooms, rooms[r].phase # None
               PROVE  /\ \/ r \in observers
                         \/ \E c \in Clients : \E i \in DOMAIN script[c] :
                              script[c][i] = [do |-> "observe", room |-> r]
                      /\ \A c \in rooms[r].subscribers :
                           life[c] = "closed" => script[c] # <<>>
    BY DEF IsTyped, RoomsAreTended
  <2>1. r \in Made
    BY DEF Made, Typed, RoomMap, RoomEntries
  <2> QED BY <2>1 DEF Tended, WillObserve, Holds, ObserveStep
<1> QED BY <1>1, <1>2, <1>3, EverythingIsTyped, PTL DEF Spec

-----------------------------------------------------------------------------
(***************************************************************************)
(* Deliveries.                                                             *)
(***************************************************************************)

\* Whose turn it is takes the action its step is for.
LEMMA TurnOf ==
  ASSUME NEW t, NEW step, Takes(t, step)
  PROVE  /\ step.do = "tell" => SendToClient(t)
         /\ step.do = "tell_wallet" => SendToWallet(t)
         /\ step.do = "broadcast" => ReadRoom(t)
         /\ step.do = "address" => Address(t)
         /\ step.do = "snapshot" => Snapshot(t)
         /\ step.do = "find_match" => FindMatch(t)
<1>1. Head(script[t]) = step /\ (HandlerStep(t) \/ ObserverStep(t))
  BY DEF Takes
<1>2. step.do \in {"tell", "tell_wallet", "broadcast", "address", "snapshot", "find_match"}
        => ~(\/ Unregister(t) \/ Unsubscribe(t) \/ Bind(t) \/ CheckQueue(t) \/ CheckMatches(t)
             \/ Wait(t) \/ Pair(t) \/ SpawnTimer(t) \/ Leave(t) \/ Register(t)
             \/ Subscribe(t) \/ Observe(t) \/ Resume(t) \/ FindTicket(t) \/ Update(t))
  BY <1>1 DEF Unregister, Unsubscribe, Bind, CheckQueue, CheckMatches, Wait, Pair,
     SpawnTimer, Leave, Register, Subscribe, Observe, Resume, FindTicket, Update, At
<1>3. /\ SendToClient(t) => step.do = "tell"
      /\ SendToWallet(t) => step.do = "tell_wallet"
      /\ ReadRoom(t) => step.do = "broadcast"
      /\ Address(t) => step.do = "address"
      /\ Snapshot(t) => step.do = "snapshot"
      /\ FindMatch(t) => step.do = "find_match"
  BY <1>1 DEF SendToClient, SendToWallet, ReadRoom, Address, Snapshot, FindMatch, At
<1> QED BY <1>1, <1>2, <1>3 DEF HandlerStep, ObserverStep

\* What is put before or after a script stands in the new one.
LEMMA AddedIsHeld ==
  ASSUME NEW S, NEW q \in Seq(S), NEW T, NEW new \in Seq(T), NEW i \in 1..Len(new)
  PROVE  Holds(new \o q, new[i]) /\ Holds(q \o new, new[i])
<1> PICK n \in Nat : n = Len(q)
  BY LenProperties
<1> PICK k \in Nat : k = Len(new)
  BY LenProperties
<1> PICK U : U = S \cup T
  OBVIOUS
<1>1. q \in Seq(U) /\ new \in Seq(U)
  BY SeqMonotonic
<1> PICK a, b : a = new \o q /\ b = q \o new
  OBVIOUS
<1>2. /\ Len(a) = k + n /\ a \in Seq(U)
      /\ \A j \in 1..(k + n) : a[j] = IF j <= k THEN new[j] ELSE q[j - k]
  <2>1. /\ Len(a) = Len(new) + Len(q) /\ a \in Seq(U)
        /\ \A j \in 1..(Len(new) + Len(q)) :
             a[j] = IF j <= Len(new) THEN new[j] ELSE q[j - Len(new)]
    BY <1>1, ConcatProperties
  <2> QED BY <2>1
<1>3. /\ Len(b) = n + k /\ b \in Seq(U)
      /\ \A j \in 1..(n + k) : b[j] = IF j <= n THEN q[j] ELSE new[j - n]
  <2>1. /\ Len(b) = Len(q) + Len(new) /\ b \in Seq(U)
        /\ \A j \in 1..(Len(q) + Len(new)) :
             b[j] = IF j <= Len(q) THEN q[j] ELSE new[j - Len(q)]
    BY <1>1, ConcatProperties
  <2> QED BY <2>1
<1>4. DOMAIN a = 1..(k + n) /\ DOMAIN b = 1..(n + k)
  BY <1>2, <1>3, LenProperties
<1>5. i \in 1..(k + n) /\ i <= k /\ a[i] = new[i]
  BY <1>2
<1>6. n + i \in 1..(n + k) /\ ~(n + i <= n) /\ n + i - n = i /\ b[n + i] = new[i]
  <2>1. n + i \in 1..(n + k) /\ ~(n + i <= n) /\ n + i - n = i
    OBVIOUS
  <2> QED BY <1>3, <2>1
<1> QED BY <1>4, <1>5, <1>6 DEF Holds

\* Past its opening, what a task adds to its script it is about to do.
LEMMA AddsSteps ==
  ASSUME NEW K, Typed(K), NEW t \in Clients \cup Rooms, script[t] # <<>>,
         Head(script[t]).do \notin OpeningKinds,
         NEW T, NEW new \in Seq(T), Continue(t, new) \/ ContinueAndAnswer(t, new),
         NEW i \in 1..Len(new)
  PROVE  Holds(script'[t], new[i])
<1>1. t \in Tasks /\ script = [u \in Tasks |-> script[u]]
  BY DEF Typed, Scripts, Tasks
<1>2. \E S : script[t] \in Seq(S)
  <2>1. CASE t \in Clients
    <3> PICK n \in Nat : n = Len(matches)
      BY LenProperties DEF Typed, Matchmaker
    <3>1. HandlerScript(t, n, Made, K, script[t])
      BY <2>1 DEF Typed, Scripts
    <3>2. script[t] \in Seq(HandlerSteps(t, n, Made, K))
      BY <3>1, PastOpening DEF OpeningKinds
    <3> QED BY <3>2
  <2>2. CASE t \in Rooms
    BY <2>2 DEF Typed, Scripts
  <2> QED BY <2>1, <2>2
<1>3. PICK S : script[t] \in Seq(S)
  BY <1>2
<1>4. Tail(script[t]) \in Seq(S)
  BY <1>3, HeadTailProperties
<1>5. \/ script'[t] = new \o Tail(script[t])
      \/ script'[t] = Tail(script[t]) \o new
  BY <1>1 DEF Continue, ContinueAndAnswer
<1> QED BY <1>4, <1>5, AddedIsHeld

\* The same for one step.
LEMMA AddsStep ==
  ASSUME NEW K, Typed(K), NEW t \in Clients \cup Rooms, script[t] # <<>>,
         Head(script[t]).do \notin OpeningKinds,
         NEW x, Continue(t, <<x>>) \/ ContinueAndAnswer(t, <<x>>)
  PROVE  Holds(script'[t], x)
<1>1. <<x>> \in Seq({x}) /\ 1 \in 1..Len(<<x>>) /\ <<x>>[1] = x
  OBVIOUS
<1> QED BY <1>1, AddsSteps

-----------------------------------------------------------------------------
(***************************************************************************)
(* Subscribers hear of every state of their rooms.                         *)
(***************************************************************************)

\* The steps from which a subscriber c is told the state s of a room.
Serves(step, c, s) ==
  \/ step = Tell(c, s)
  \/ step.do = "address" /\ step.message = s /\ c \in step.subscribers
  \/ step = Broadcast(s.room, s)
  \/ step = [do |-> "snapshot", room |-> s.room]

Served(c, s) ==
  \/ s \in told[c]
  \/ \E t \in Clients \cup Rooms : \E step : Holds(script[t], step) /\ Serves(step, c, s)

\* They come after the openings.
LEMMA ServingKinds ==
  ASSUME NEW step, NEW c, NEW s, Serves(step, c, s)
  PROVE  /\ step.do \in {"tell", "address", "broadcast", "snapshot"}
         /\ step.do \notin OpeningKinds
BY DEF Serves, Tell, Broadcast, OpeningKinds

\* One stage of a broadcast leads to the next, and the last to the client.
LEMMA ServedStays ==
  ASSUME NEW K, Typed(K), [Next]_vars, ~Restart,
         NEW r \in Rooms, NEW c \in Clients, c \in clients, c \in rooms[r].subscribers,
         NEW s, s = RoomState(r, rooms[r]), Served(c, s)
  PROVE  Served(c, s)'
<1>1. CASE s \in told[c]
  BY <1>1, ToldGrows DEF Served
<1>2. ASSUME NEW t \in Clients \cup Rooms, NEW step, Holds(script[t], step), Serves(step, c, s)
      PROVE  Served(c, s)'
  <2>1. step.do \in {"tell", "address", "broadcast", "snapshot"} /\ step.do \notin OpeningKinds
    BY <1>2, ServingKinds
  <2>2. CASE Holds(script'[t], step)
    BY <1>2, <2>2 DEF Served
  <2>3. ASSUME Takes(t, step), NEW x, Serves(x, c, s),
               Continue(t, <<x>>) \/ ContinueAndAnswer(t, <<x>>)
        PROVE  Served(c, s)'
    <3>1. Holds(script'[t], x)
      BY <2>1, <2>3, AddsStep DEF Takes
    <3> QED BY <2>3, <3>1 DEF Served
  <2>4. CASE Takes(t, step) /\ step = Tell(c, s)
    <3>1. SendToClient(t) /\ Head(script[t]).client = c /\ Head(script[t]).message = s
      BY <2>4, TurnOf DEF Tell, Takes
    <3>2. s \in told'[c]
      BY <3>1 DEF SendToClient, Typed, Announced
    <3> QED BY <3>2 DEF Served
  <2>5. CASE Takes(t, step) /\ step.do = "address" /\ step.message = s /\ c \in step.subscribers
    <3>1. Address(t)
      BY <2>5, TurnOf
    <3>2. PICK tells, T : /\ tells \in Seq(T)
                          /\ \E i \in 1..Len(tells) : tells[i] = Tell(c, s)
                          /\ Continue(t, tells)
      BY <2>5, <3>1, AddressedTo DEF Takes
    <3>3. Holds(script'[t], Tell(c, s))
      BY <2>1, <2>5, <3>2, AddsSteps DEF Takes
    <3> QED BY <3>3 DEF Served, Serves
  <2>6. CASE Takes(t, step) /\ step = Broadcast(s.room, s)
    <3>1. ReadRoom(t) /\ Head(script[t]).room = r /\ Head(script[t]).message = s
      BY <2>6, TurnOf DEF Broadcast, Takes, RoomState
    <3> PICK x : x = [do |-> "address", message |-> s, wallets |-> rooms[r].wallets,
                      subscribers |-> rooms[r].subscribers]
      OBVIOUS
    <3>2. Continue(t, <<x>>)
      BY <3>1 DEF ReadRoom
    <3>3. Serves(x, c, s)
      BY DEF Serves
    <3> QED BY <2>3, <2>6, <3>2, <3>3
  <2>7. CASE Takes(t, step) /\ step = [do |-> "snapshot", room |-> s.room]
    <3>1. Snapshot(t) /\ Head(script[t]).room = r
      BY <2>7, TurnOf DEF Takes, RoomState
    <3>2. Continue(t, <<Broadcast(s.room, s)>>)
      BY <3>1 DEF Snapshot, RoomState
    <3>3. Serves(Broadcast(s.room, s), c, s)
      BY DEF Serves
    <3> QED BY <2>3, <2>7, <3>2, <3>3
  <2>8. Holds(script'[t], step) \/ Takes(t, step)
    BY <1>2, <2>1, StepIsKept
  <2> QED BY <1>2, <2>2, <2>4, <2>5, <2>6, <2>7, <2>8 DEF Serves
<1> QED BY <1>1, <1>2 DEF Served

\* Whoever changes the state of a room has it told to the subscribers.
LEMMA EntriesGoOn ==
  ASSUME NEW K, Typed(K), [Next]_vars, ~Restart, NEW r \in Rooms
  PROVE  /\ r \in Made => r \in Made'
         /\ \/ RoomState(r, rooms'[r]) = RoomState(r, rooms[r])
            \/ r \notin Made /\ \E d \in Clients : Subscribe(d)
            \/ \E t \in Clients \cup Rooms :
                 \/ Holds(script'[t], [do |-> "snapshot", room |-> r])
                 \/ Holds(script'[t], Broadcast(r, RoomState(r, rooms'[r])))
<1> DEFINE Same == RoomState(r, rooms'[r]) = RoomState(r, rooms[r])
<1>1. rooms \in [Rooms -> RoomEntries] /\ rooms[r] \in RoomEntries
  BY DEF Typed, RoomMap
<1>2. rooms'[r].phase = rooms[r].phase /\ rooms'[r].stamp = rooms[r].stamp
        => Same /\ (r \in Made => r \in Made')
  BY DEF Made, RoomState
<1>3. ASSUME NEW c \in Clients, Register(c)
      PROVE  \/ rooms'[r] = rooms[r]
             \/ r \in Made' /\ Holds(script'[c], [do |-> "snapshot", room |-> r])
  <2>1. CASE rooms' = rooms
    BY <2>1
  <2>2. CASE rooms' # rooms
    <3>1. PICK m, s, tick :
            /\ rooms' = [rooms EXCEPT ![s] = RegisteredRoom(s, m, tick)]
            /\ Continue(c, <<TellWallet(matches[m].joiner, RoomReady(m, s)),
                             ObserveStep(s), [do |-> "snapshot", room |-> s]>>)
      BY <1>3, <2>2 DEF Register, ObserveStep
    <3>2. CASE r # s
      BY <1>1, <3>1, <3>2
    <3>3. CASE r = s
      <4>1. rooms'[r].phase = "waiting_for_player"
        BY <1>1, <3>1, <3>3 DEF RegisteredRoom, RoomEntries
      <4>2. Tail(script[c]) = <<>>
        BY <1>3, AtRegister DEF Register
      <4> PICK x, y, z : /\ x = TellWallet(matches[m].joiner, RoomReady(m, s))
                         /\ y = ObserveStep(s)
                         /\ z = [do |-> "snapshot", room |-> s]
        OBVIOUS
      <4>3. script'[c] = <<x, y, z>> \o <<>>
        BY <3>1, <4>2 DEF Continue, Typed, Scripts, Tasks
      <4>4. <<x, y, z>> \o <<>> = <<x, y, z>>
        OBVIOUS
      <4>5. 3 \in DOMAIN script'[c] /\ script'[c][3] = z
        BY <4>3, <4>4
      <4> QED BY <3>3, <4>1, <4>5 DEF Holds, Made, RoomPhases
    <3> QED BY <3>2, <3>3
  <2> QED BY <2>1, <2>2
<1>4. ASSUME NEW d \in Clients, Subscribe(d), r \in Made
      PROVE  rooms'[r].phase = rooms[r].phase /\ rooms'[r].stamp = rooms[r].stamp
  <2>1. PICK s, w : rooms' = [rooms EXCEPT ![s] = Subscribed(s, d, w)]
    BY <1>4 DEF Subscribe
  <2>2. rooms[r].phase # None
    BY <1>4, RelayAssumption DEF Made
  <2>3. /\ Subscribed(r, d, w).phase = rooms[r].phase
        /\ Subscribed(r, d, w).stamp = rooms[r].stamp
    BY <1>1, <2>2 DEF Subscribed, RoomEntries
  <2> QED BY <1>1, <2>1, <2>3
<1>5. ASSUME NEW d \in Clients, Unsubscribe(d)
      PROVE  rooms'[r].phase = rooms[r].phase /\ rooms'[r].stamp = rooms[r].stamp
  <2>1. rooms'[r] = [rooms[r] EXCEPT !.subscribers = @ \ {d}]
    BY <1>5 DEF Unsubscribe
  <2> QED BY <1>1, <2>1 DEF RoomEntries
<1>6. ASSUME NEW s \in Rooms, Update(s)
      PROVE  \/ rooms'[r] = rooms[r]
             \/ r \in Made' /\ Holds(script'[s], Broadcast(r, RoomState(r, rooms'[r])))
  <2>1. script[s] # <<>> /\ Head(script[s]).do = "update"
    BY <1>6 DEF Update, At
  <2>2. Head(script[s]) \in ObserverSteps(s, Made, K)
    BY <2>1, HeadTailProperties DEF Typed, Scripts
  <2>3. s \in Made /\ Head(script[s]).report \in Reports
    BY <2>1, <2>2 DEF ObserverSteps, Deliveries
  <2> PICK report : report = Head(script[s]).report
    OBVIOUS
  <2> PICK tick, room :
        /\ tick \in Ticks
        /\ room = UpdatedRoom(rooms[s], report, tick)
        /\ rooms' = [rooms EXCEPT ![s] = room]
        /\ report \in LogClasses \/ rooms[s].hash # report =>
             Continue(s, <<Broadcast(s, RoomEvent(s, report)), Broadcast(s, RoomState(s, room))>>)
    BY <1>6 DEF Update
  <2>4. rooms' = [rooms EXCEPT ![s] = room] /\ room.phase \in RoomPhases
    <3>1. rooms[s] \in RoomEntries /\ rooms[s].phase \in RoomPhases
      BY <1>1, <2>3 DEF Made
    <3>2. room.phase \in RoomPhases
      BY <2>3, <3>1, UpdatedEntry
    <3> QED BY <3>2
  <2>5. CASE r # s
    BY <1>1, <2>4, <2>5
  <2>6. CASE r = s /\ report \notin LogClasses /\ rooms[s].hash = report
    BY <1>1, <2>4, <2>6 DEF UpdatedRoom
  <2>7. CASE r = s /\ (report \in LogClasses \/ rooms[s].hash # report)
    <3>1. rooms'[r] = room /\ r \in Made'
      BY <1>1, <2>4, <2>7 DEF Made
    <3> PICK x, y : x = Broadcast(r, RoomEvent(r, report)) /\ y = Broadcast(r, RoomState(r, room))
      OBVIOUS
    <3>2. Continue(s, <<x, y>>)
      BY <2>7
    <3>3. <<x, y>> \in Seq({x, y}) /\ 2 \in 1..Len(<<x, y>>) /\ <<x, y>>[2] = y
      OBVIOUS
    <3>4. Holds(script'[s], y)
      BY <2>1, <3>2, <3>3, AddsSteps DEF OpeningKinds
    <3> QED BY <3>1, <3>4
  <2> QED BY <2>5, <2>6, <2>7
<1>7. ASSUME rooms' # rooms
      PROVE  \/ \E d \in Clients : Register(d) \/ Subscribe(d) \/ Unsubscribe(d)
             \/ \E s \in Rooms : Update(s)
  BY <1>7, Writers DEF roomVars, Wait, Pair, Leave, Expire, Observe
<1>8. CASE r \in Made /\ \E d \in Clients : Subscribe(d)
  BY <1>2, <1>4, <1>8
<1>9. CASE \E d \in Clients : Unsubscribe(d)
  BY <1>2, <1>5, <1>9
<1>10. CASE rooms'[r] = rooms[r]
  BY <1>2, <1>10
<1>11. CASE \E d \in Clients : Register(d)
  BY <1>3, <1>10, <1>11
<1>12. CASE \E s \in Rooms : Update(s)
  BY <1>6, <1>10, <1>12
<1> QED BY <1>7, <1>8, <1>9, <1>10, <1>11, <1>12

\* Who subscribes anew is sent the copy of the entry that Subscribe took.
LEMMA SubscriptionAnswered ==
  ASSUME NEW K, Typed(K), NEW c \in Clients, Subscribe(c), NEW r \in Rooms,
         rooms'[r] # rooms[r]
  PROVE  /\ Holds(script'[c], Tell(c, RoomState(r, rooms'[r])))
         /\ r \in Made'
<1>1. rooms \in [Rooms -> RoomEntries] /\ rooms[r] \in RoomEntries
  BY DEF Typed, RoomMap
<1>2. PICK s, w :
        /\ rooms' = [rooms EXCEPT ![s] = Subscribed(s, c, w)]
        /\ ContinueAndAnswer(c, <<Tell(c, RoomState(s, Subscribed(s, c, w)))>>)
  BY DEF Subscribe
<1>3. r = s /\ rooms'[r] = Subscribed(r, c, w)
  BY <1>1, <1>2
<1>4. script[c] # <<>> /\ Head(script[c]).do \notin OpeningKinds
  BY DEF Subscribe, At, OpeningKinds
<1>5. Holds(script'[c], Tell(c, RoomState(r, rooms'[r])))
  BY <1>2, <1>3, <1>4, AddsStep
<1>6. rooms'[r].phase \in RoomPhases
  BY <1>1, <1>3 DEF Subscribed, RoomEntries, RoomPhases
<1> QED BY <1>5, <1>6 DEF Made

\* A connection that was never opened does nothing, speaks for nobody and is
\* on no list.
Fresh ==
  \A c \in Clients : life[c] = "new" =>
    /\ script[c] = <<>>
    /\ \A w \in Wallets : bound[w] # c
    /\ \A r \in Rooms : c \notin rooms[r].subscribers

\* Connections do not become new again.
LEMMA FreshStays ==
  ASSUME NEW K, Typed(K), NEW K2, Typed(K2)', Fresh, [Next]_vars
  PROVE  Fresh'
<1> SUFFICES ASSUME NEW c \in Clients, life'[c] = "new"
             PROVE  /\ script'[c] = <<>>
                    /\ \A w \in Wallets : bound'[w] # c
                    /\ \A r \in Rooms : c \notin rooms'[r].subscribers
  BY DEF Fresh
<1>1. CASE Restart
  <2>1. script'[c] = <<>>
    BY <1>1 DEF Restart, Tasks
  <2>2. \A w \in Wallets : bound'[w] # c
    BY <1>1, RelayAssumption DEF Restart
  <2>3. \A r \in Rooms : rooms'[r].subscribers = {}
    BY <1>1 DEF Restart, NoRoom
  <2> QED BY <2>1, <2>2, <2>3
<1>2. CASE ~Restart
  <2>1. life[c] = "new"
    <3>1. ASSUME NEW d \in Clients, Connect(d) \/ Disconnect(d) PROVE life[c] = "new"
      BY <3>1 DEF Connect, Disconnect, Typed, Links
    <3>2. life' # life => \E d \in Clients : Connect(d) \/ Disconnect(d)
      BY <1>2, LinkWriters DEF linkVars, Unregister, Bind
    <3> QED BY <3>1, <3>2
  <2>2. /\ script[c] = <<>>
        /\ \A w \in Wallets : bound[w] # c
        /\ \A r \in Rooms : c \notin rooms[r].subscribers
    BY <2>1 DEF Fresh
  <2>3. script'[c] = <<>>
    <3>1. ~Disconnect(c) /\ ~Request(c)
      BY <2>1 DEF Disconnect, Request, RequestJoin, RequestLeave, RequestRegister,
                  RequestSubscribe, RequestResume, Receive
    <3>2. ~HandlerStep(c)
      BY <2>2 DEF HandlerStep, SendToClient, SendToWallet, Unregister, Unsubscribe, Bind,
         CheckQueue, CheckMatches, Wait, Pair, SpawnTimer, Leave, Register, Snapshot,
         Subscribe, Observe, Resume, FindTicket, FindMatch, ReadRoom, Address, At
    <3> QED BY <1>2, <2>2, <3>1, <3>2, HandlersRewriteTheirOwn
  <2>4. \A w \in Wallets : bound'[w] # c
    <3>1. ASSUME NEW d \in Clients, Bind(d) PROVE \A w \in Wallets : bound'[w] # c
      <4>1. d # c
        BY <2>2, <3>1 DEF Bind, At
      <4>2. PICK v : bound' = [bound EXCEPT ![v] = d]
        BY <3>1 DEF Bind
      <4> QED BY <2>2, <4>1, <4>2 DEF Typed, Links
    <3>2. bound' # bound => \E d \in Clients : Bind(d)
      BY <1>2, LinkWriters DEF linkVars, Connect, Disconnect, Unregister
    <3> QED BY <2>2, <3>1, <3>2
  <2>5. ASSUME NEW r \in Rooms, c \in rooms'[r].subscribers PROVE FALSE
    <3>1. ~Subscribe(c)
      BY <2>2 DEF Subscribe, At
    <3> QED BY <1>2, <2>2, <2>5, <3>1, SubscribersGoOn
  <2> QED BY <2>3, <2>4, <2>5
<1> QED BY <1>1, <1>2

\* Every subscriber of a room has been told its state, or is going to be.
Informed ==
  \A r \in Rooms : \A c \in rooms[r].subscribers :
    /\ r \in Made
    /\ c \in clients => Served(c, RoomState(r, rooms[r]))

\* It stays so through every step.
LEMMA InformedStays ==
  ASSUME NEW K, Typed(K), NEW K2, Typed(K2)', Fresh, Informed, [Next]_vars
  PROVE  Informed'
<1> SUFFICES ASSUME NEW r \in Rooms, NEW c \in rooms'[r].subscribers,
                    NEW s, s = RoomState(r, rooms'[r])
             PROVE  /\ r \in Made'
                    /\ c \in clients' => Served(c, s)'
  BY DEF Informed, Served
<1>0. c \in Clients /\ rooms \in [Rooms -> RoomEntries]
  BY DEF Typed, RoomMap, RoomEntries, FiniteSubsets
<1>1. CASE Restart
  <2>1. rooms'[r].subscribers = {}
    BY <1>1 DEF Restart, NoRoom
  <2> QED BY <2>1
<1>2. ASSUME NEW t \in Clients \cup Rooms, NEW step, Holds(script'[t], step), Serves(step, c, s)
      PROVE  Served(c, s)'
  BY <1>2 DEF Served
<1>3. CASE ~Restart /\ c \notin rooms[r].subscribers
  <2>1. Subscribe(c)
    BY <1>0, <1>3, SubscribersGoOn
  <2>2. Holds(script'[c], Tell(c, s)) /\ r \in Made'
    BY <1>0, <1>3, <2>1, SubscriptionAnswered
  <2>3. Serves(Tell(c, s), c, s)
    BY DEF Serves
  <2> QED BY <1>0, <1>2, <2>2, <2>3
<1>4. CASE ~Restart /\ c \in rooms[r].subscribers
  <2>1. r \in Made /\ (c \in clients => Served(c, RoomState(r, rooms[r])))
    BY <1>4 DEF Informed
  <2>2. r \in Made'
    BY <1>4, <2>1, EntriesGoOn
  <2>3. CASE s = RoomState(r, rooms[r])
    <3> SUFFICES ASSUME c \in clients' PROVE Served(c, s)'
      BY <2>2
    <3>1. c \in clients
      <4>1. ~Connect(c)
        BY <1>0, <1>4 DEF Connect, Fresh
      <4>2. ASSUME NEW d \in Clients, Connect(d) \/ Unregister(d) PROVE c \in clients
        BY <4>1, <4>2 DEF Connect, Unregister
      <4>3. clients' # clients => \E d \in Clients : Connect(d) \/ Unregister(d)
        BY <1>4, LinkWriters DEF linkVars, Disconnect, Bind
      <4> QED BY <4>2, <4>3
    <3> QED BY <1>0, <1>4, <2>1, <2>3, <3>1, ServedStays
  <2>4. CASE s # RoomState(r, rooms[r])
    <3>1. PICK t \in Clients \cup Rooms :
            \/ Holds(script'[t], [do |-> "snapshot", room |-> r])
            \/ Holds(script'[t], Broadcast(r, s))
      BY <1>4, <2>1, <2>4, EntriesGoOn
    <3>2. s.room = r
      BY DEF RoomState
    <3>3. /\ Serves([do |-> "snapshot", room |-> r], c, s)
          /\ Serves(Broadcast(r, s), c, s)
      BY <3>2 DEF Serves
    <3> QED BY <1>2, <2>2, <3>1, <3>3
  <2> QED BY <2>3, <2>4
<1> QED BY <1>1, <1>3, <1>4

\* Once nothing is under way, every connection subscribed to a room has been
\* told its latest state, whichever of subscription, registration and report
\* came first.
THEOREM SubscribersHearIt == Spec => []SubscribersAreCurrent
<1>1. Init => Fresh /\ Informed
  <2> SUFFICES ASSUME Init PROVE Fresh /\ Informed
    OBVIOUS
  <2>1. \A r \in Rooms : rooms[r].subscribers = {}
    BY DEF Init, RelayInit, NoRoom
  <2>2. \A c \in Clients : script[c] = <<>>
    BY DEF Init, RelayInit, Tasks
  <2>3. \A w \in Wallets : \A c \in Clients : bound[w] # c
    BY RelayAssumption DEF Init, RelayInit
  <2> QED BY <2>1, <2>2, <2>3 DEF Fresh, Informed
<1>2. IsTyped /\ IsTyped' /\ Fresh /\ Informed /\ [Next]_vars => Fresh' /\ Informed'
  BY FreshStays, InformedStays DEF IsTyped
<1>3. Informed => SubscribersAreCurrent
  <2> SUFFICES ASSUME Informed, Quiet, NEW r \in Rooms, NEW c \in rooms[r].subscribers \cap clients
               PROVE  RoomState(r, rooms[r]) \in told[c]
    BY DEF SubscribersAreCurrent
  <2>1. Served(c, RoomState(r, rooms[r]))
    BY DEF Informed
  <2>2. \A t \in Clients \cup Rooms : \A step : ~Holds(script[t], step)
    BY DEF Quiet, Holds
  <2> QED BY <2>1, <2>2 DEF Served
<1> QED BY <1>1, <1>2, <1>3, EverythingIsTyped, PTL DEF Spec

=============================================================================
