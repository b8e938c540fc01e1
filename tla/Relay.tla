-------------------------------- MODULE Relay --------------------------------
(***************************************************************************)
(* The relay: connections, matchmaker, rooms and observers together.       *)
(***************************************************************************)
EXTENDS RoomService

Init == RelayInit

\* A message from the user of a connection.
Request(c) ==
  \/ \E b \in Bets : RequestJoin(c, b)
  \/ \E ticket \in 1..tickets : RequestLeave(c, ticket)
  \/ \E m \in DOMAIN matches, r \in Rooms : RequestRegister(c, m, r)
  \/ \E r \in Rooms : RequestSubscribe(c, r)
  \/ \E r \in Rooms \cup {None}, m \in 0..Len(matches) : RequestResume(c, r, m)

\* The next critical section or send of a connection's handler.
HandlerStep(c) ==
  \/ SendToClient(c)   \/ SendToWallet(c)
  \/ Unregister(c)     \/ Unsubscribe(c)
  \/ Bind(c)           \/ CheckQueue(c)   \/ CheckMatches(c)
  \/ Wait(c)           \/ Pair(c)         \/ SpawnTimer(c)
  \/ Leave(c)          \/ Register(c)     \/ Snapshot(c)
  \/ Subscribe(c)      \/ Observe(c)
  \/ Resume(c)         \/ FindTicket(c)   \/ FindMatch(c)
  \/ ReadRoom(c)       \/ Address(c)

TimerStep(m) == Expire(m) \/ SendToWallet(m) \/ SendToClient(m)

ObserverStep(r) == Update(r) \/ ReadRoom(r) \/ Address(r) \/ SendToClient(r)

Next ==
  \/ \E c \in Clients : Connect(c) \/ Disconnect(c) \/ Request(c) \/ HandlerStep(c)
  \/ \E m \in MatchIds : TimerStep(m)
  \/ \E r \in Rooms : ObserverStep(r) \/ \E report \in Reports : Notify(r, report)
  \/ Restart

\* The tokio runtime polls every task that can go on, and the clock moves;
\* nobody has to connect, to send a message, to report anything or to stop
\* the relay.
Fairness ==
  /\ \A c \in Clients : WF_vars(HandlerStep(c))
  /\ \A m \in MatchIds : WF_vars(TimerStep(m))
  /\ \A r \in Rooms : WF_vars(ObserverStep(r))

Spec == Init /\ [][Next]_vars /\ Fairness

-----------------------------------------------------------------------------
(***************************************************************************)
(* Properties.                                                             *)
(***************************************************************************)

ErrorCodes ==
  {"wallet_already_queued", "wallet_already_in_match", "ticket_not_found",
   "match_not_found", "match_expired"}

Notices ==
  [type : {"queue_joined"}, ticket : Nat]
    \cup [type : {"match_found"}, match : MatchIds]
    \cup [type : {"room_ready"}, match : MatchIds, room : Rooms]
    \cup [type : {"room_event"}, room : Rooms, report : Reports]
    \cup [type : {"error"}, code : ErrorCodes]

RoomStates ==
  [type : {"room_state"}, room : Rooms, phase : RoomPhases, stamp : Int]

Messages == Notices \cup RoomStates

MatchStates == {"AwaitingRoomCreation", "RoomReady", "Expired", "Forgotten"}

\* The maps hold what their types allow, and every reference in them, from
\* sessions to matches and from matches to rooms, leads to something.
TypeOK ==
  /\ life \in [Clients -> {"new", "open", "closed"}]
  /\ clients \subseteq Clients
  /\ bound \in [Wallets -> Clients \cup {None}]
  /\ queue \in [Bets -> Seq([ticket : 1..tickets, wallet : Wallets])]
  /\ Len(matches) <= MaxMatches
  /\ \A m \in DOMAIN matches :
       matches[m] \in [creator : Wallets, joiner : Wallets, bet : Bets,
                       room : Rooms \cup {None}, state : MatchStates]
  /\ sessions \in [Wallets -> [ticket : 0..tickets, match : 0..Len(matches),
                               room : Rooms \cup {None}]]
  /\ rooms \in [Rooms -> [phase : RoomPhases \cup {None}, match : 0..Len(matches),
                          wallets : SUBSET Wallets, subscribers : SUBSET Clients,
                          stamp : Int, hash : Reports \cup {None}]]
  /\ observers \subseteq Rooms
  /\ \A c \in Clients : told[c] \subseteq Messages

MatchesOf(w) ==
  {m \in DOMAIN matches : Active(matches[m]) /\ w \in PlayersOf(matches[m])}

\* A wallet waits in one queue at most or plays in one match at most, never
\* both, and never against itself: what the two refusals of queue.join are
\* there to ensure ("this wallet is already waiting in queue", "this wallet
\* already has an active match", ws.rs:255-256).
WalletInOnePlace ==
  /\ \A w \in Wallets : Cardinality(EntriesOf(w)) + Cardinality(MatchesOf(w)) <= 1
  /\ \A m \in DOMAIN matches : matches[m].creator # matches[m].joiner

\* A wallet is refused for "already has an active match" (ws.rs:256) only
\* while a match of it is under way: waiting for its room, or with a room
\* that has not finished.
RefusedOnlyWhileActive ==
  [][\A c \in Clients :
       (/\ At(c, "check_matches")
        /\ script'[c] = <<Tell(c, Error("wallet_already_in_match"))>>) =>
         \E m \in MatchesOf(WalletOf[c]) :
           matches[m].room = None \/ rooms[matches[m].room].phase # "finished"]_vars

\* Two wallets with the same bet never both wait: each join either finds
\* the queue of its bet empty or leaves it empty.
NobodyWaitsTogether == \A b \in Bets : Len(queue[b]) <= 1

\* What session.resume tells a wallet from its session is never stale: the
\* ticket is the wallet's entry in the queue, the match is the last one made
\* with the wallet, and the room is the room of that match.  Pairing leaves
\* the room of the session alone, so this rests on queue.join refusing every
\* wallet that ever got a room.
SessionsAgree ==
  \A w \in Wallets :
    LET mine == {m \in DOMAIN matches : /\ w \in PlayersOf(matches[m])
                                         /\ matches[m].state # "Forgotten"}
    IN  /\ {queue[e[1]][e[2]].ticket : e \in EntriesOf(w)} =
             {sessions[w].ticket} \ {0}
        /\ sessions[w].match = Max(mine \cup {0})
        /\ sessions[w].room = IF mine = {} THEN None
                                           ELSE matches[Max(mine)].room

\* The race between the timer and match.room_created has one winner: a match
\* that got its room never expires, and a match that expired never gets one.
RaceHasOneWinner ==
  [][restarts' = restarts => \A m \in DOMAIN matches :
       /\ matches[m].state = "RoomReady" => matches'[m].state = "RoomReady"
       /\ matches[m].state = "Expired" => matches'[m] = matches[m]
       /\ matches[m].room # None => matches'[m].room # None]_vars

Awaits(m) ==
  m \in DOMAIN matches /\ matches[m].state = "AwaitingRoomCreation"

\* Every match is decided: its room is announced or it expires.  The timer
\* is started last, after the sends, and must be started all the same.
MatchIsDecided == \A m \in MatchIds : Awaits(m) ~> ~Awaits(m)

\* Nothing is under way but timers that sleep.
Quiet ==
  /\ \A c \in Clients : script[c] = <<>>
  /\ \A m \in MatchIds : script[m] # <<>> => At(m, "expire")
  /\ \A r \in Rooms : script[r] = <<>>

\* Nobody misses a match: once nothing is under way, the connection that
\* speaks for a wallet in an active match has been told of it, and a joiner
\* of the room when it is ready, whichever connection that was when the
\* match was made; or it was refused for being in one, and may resume.
NoLostMatch ==
  Quiet => \A w \in Wallets :
    LET c == bound[w]
        m == sessions[w].match
    IN  (c \in clients /\ m # 0 /\ matches[m].state # "Expired") =>
          \/ Error("wallet_already_in_match") \in told[c]
          \/ /\ MatchFound(m) \in told[c]
             /\ (w = matches[m].joiner /\ matches[m].state = "RoomReady") =>
                  RoomReady(m, matches[m].room) \in told[c]

\* A room with an entry is observed, unless the task that made the entry is
\* still about to see to that, and no connection that has gone stays among
\* its subscribers.
RoomsAreTended ==
  \A r \in Rooms : rooms[r].phase # None =>
    /\ \/ r \in observers
       \/ \E c \in Clients : \E i \in DOMAIN script[c] :
            script[c][i] = [do |-> "observe", room |-> r]
    /\ \A c \in rooms[r].subscribers :
         life[c] = "closed" => script[c] # <<>>

\* A room that a match or a session names has both players on its list.
RoomHasItsPlayers ==
  /\ \A m \in DOMAIN matches : matches[m].room # None =>
       PlayersOf(matches[m]) \subseteq rooms[matches[m].room].wallets
  /\ \A w \in Wallets : sessions[w].room # None =>
       w \in rooms[sessions[w].room].wallets

\* Once nothing is under way, every connection subscribed to a room has been
\* told its latest state, whichever of subscription, registration and report
\* came first.
SubscribersAreCurrent ==
  Quiet => \A r \in Rooms : \A c \in rooms[r].subscribers \cap clients :
    RoomState(r, rooms[r]) \in told[c]

\* The clock never shows the same moment twice, and is never set back.
ClockAdvances == Ticks \subseteq Nat \ {0}

\* A client can tell the newer of two states of a room from updated_at, in
\* whatever order they reach it (the answer to room.subscribe is an older copy
\* than a broadcast may be that overtakes it): no two states that anybody is
\* told have one stamp and different phases, not even those of two entries of
\* the room, before and after a restart.  The code can promise this only as
\* far as its clock advances: it says nothing under other Ticks.
StampsTell ==
  LET states == {message \in UNION Range(told) : message.type = "room_state"}
  IN  \A x, y \in states :
        x.room = y.room /\ x.stamp = y.stamp => x.phase = y.phase

=============================================================================
