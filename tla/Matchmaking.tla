----------------------------- MODULE Matchmaking -----------------------------
(***************************************************************************)
(* The matchmaker: queue.join, queue.leave, match.room_created and the     *)
(* timer that expires a match for which no room was created.               *)
(***************************************************************************)
EXTENDS RelayState

\* What a client is told here.
QueueJoined(ticket) == [type |-> "queue_joined", ticket |-> ticket]
MatchFound(m) == [type |-> "match_found", match |-> m]
RoomReady(m, r) == [type |-> "room_ready", match |-> m, room |-> r]

\* The players of a match, and whether it counts as active in queue_join.
PlayersOf(match) == {match.creator, match.joiner}
Active(match) == match.state \notin {"Expired", "Forgotten"}

\* The places in the queues, and those where a wallet waits.
Entries == UNION {{b} \X DOMAIN queue[b] : b \in Bets}

EntriesOf(w) == {e \in Entries : queue[e[1]][e[2]].wallet = w}

InQueue(w) == EntriesOf(w) # {}

\* Mutant of InMatch: the joiner's side is not looked at.
InMatchAsCreator(w) ==
  \E m \in DOMAIN matches : Active(matches[m]) /\ w = matches[m].creator

InMatch(w) ==
  \E m \in DOMAIN matches : Active(matches[m]) /\ w \in PlayersOf(matches[m])

-----------------------------------------------------------------------------
(***************************************************************************)
(* queue.join: bind_wallet, two checks and the queueing itself, each under *)
(* its own locks, and then the replies.                                    *)
(***************************************************************************)

\* Mutant of RequestJoin: the matches are checked before the queue.
RequestJoinMatchesFirst(c, bet) ==
  Receive(c, "join",
    <<[do |-> "bind", wallet |-> WalletOf[c]],
      [do |-> "check_matches", wallet |-> WalletOf[c]],
      [do |-> "check_queue", wallet |-> WalletOf[c]],
      [do |-> "enqueue", wallet |-> WalletOf[c], bet |-> bet]>>)

RequestJoin(c, bet) ==
  Receive(c, "join",
    <<[do |-> "bind", wallet |-> WalletOf[c]],
      [do |-> "check_queue", wallet |-> WalletOf[c]],
      [do |-> "check_matches", wallet |-> WalletOf[c]],
      [do |-> "enqueue", wallet |-> WalletOf[c], bet |-> bet]>>)

CheckQueue(c) ==
  /\ At(c, "check_queue")
  /\ IF InQueue(Head(script[c]).wallet)
       THEN Finish(c, <<Tell(c, Error("wallet_already_queued"))>>)
       ELSE Continue(c, <<>>)
  /\ UNCHANGED <<linkVars, matchVars, roomVars, told, sent>>

CheckMatches(c) ==
  /\ At(c, "check_matches")
  /\ IF InMatch(Head(script[c]).wallet)
       THEN Finish(c, <<Tell(c, Error("wallet_already_in_match"))>>)
       ELSE Continue(c, <<>>)
  /\ UNCHANGED <<linkVars, matchVars, roomVars, told, sent>>

\* Mutant of Wait: the entry is pushed without a look at the queue.
WaitAnyway(c) ==
  /\ At(c, "enqueue")
  /\ LET step == Head(script[c])
     IN  /\ queue' = [queue EXCEPT ![step.bet] =
                        Append(@, [ticket |-> tickets + 1, wallet |-> step.wallet])]
         /\ sessions' = [sessions EXCEPT ![step.wallet].ticket = tickets + 1]
         /\ tickets' = tickets + 1
         /\ Continue(c, <<Tell(c, QueueJoined(tickets + 1))>>)
  /\ UNCHANGED <<linkVars, matches, roomVars, told, sent>>

\* Nobody waits with this bet: the wallet is the first to.
Wait(c) ==
  /\ At(c, "enqueue")
  /\ LET step == Head(script[c])
         ticket == tickets + 1
     IN  /\ queue[step.bet] = <<>>
         /\ queue' = [queue EXCEPT ![step.bet] =
                        Append(@, [ticket |-> ticket, wallet |-> step.wallet])]
         /\ sessions' = [sessions EXCEPT ![step.wallet].ticket = ticket]
         /\ tickets' = ticket
         /\ Continue(c, <<Tell(c, QueueJoined(ticket))>>)
  /\ UNCHANGED <<linkVars, matches, roomVars, told, sent>>

\* Somebody waits: the first of them creates the room, this wallet joins it.
Pair(c) ==
  /\ At(c, "enqueue")
  /\ Len(matches) < MaxMatches
  /\ LET step == Head(script[c])
         ticket == tickets + 1
         creator == Head(queue[step.bet]).wallet
         joiner == step.wallet
         m == Len(matches) + 1
     IN  /\ queue[step.bet] # <<>>
         /\ queue' = [queue EXCEPT ![step.bet] = Tail(@)]
         /\ matches' = Append(matches,
              [creator |-> creator, joiner |-> joiner, bet |-> step.bet,
               room |-> None, state |-> "AwaitingRoomCreation"])
         /\ sessions' = [w \in Wallets |->
              IF w \in {creator, joiner}
                THEN [sessions[w] EXCEPT !.ticket = 0, !.match = m]
                ELSE sessions[w]]
         /\ tickets' = ticket
         /\ Continue(c,
              <<Tell(c, QueueJoined(ticket)),
                TellWallet(creator, MatchFound(m)),
                TellWallet(joiner, MatchFound(m)),
                [do |-> "spawn_timer", match |-> m]>>)
  /\ UNCHANGED <<linkVars, roomVars, told, sent>>

\* Mutant of SpawnTimer: the handler returns without starting it.
SpawnNothing(c) ==
  /\ At(c, "spawn_timer")
  /\ Continue(c, <<>>)
  /\ UNCHANGED <<linkVars, matchVars, roomVars, told, sent>>

\* tokio::spawn of the timer of the match.
SpawnTimer(c) ==
  /\ At(c, "spawn_timer")
  /\ LET m == Head(script[c]).match
     IN  script' = [script EXCEPT ![c] = Tail(@),
                                  ![m] = <<[do |-> "expire", match |-> m]>>]
  /\ UNCHANGED <<linkVars, matchVars, roomVars, told, sent>>

-----------------------------------------------------------------------------
(***************************************************************************)
(* queue.leave.                                                            *)
(***************************************************************************)

\* A ticket that some connection of the wallet has been given.
OwnTicket(c, ticket) ==
  \E d \in Clients :
    WalletOf[d] = WalletOf[c] /\ QueueJoined(ticket) \in told[d]

RequestLeave(c, ticket) ==
  /\ OwnTicket(c, ticket)
  /\ Receive(c, "leave", <<[do |-> "leave", ticket |-> ticket]>>)

\* The places in the queues of the entries with this ticket: one at most.
PlacesOf(ticket) ==
  {place \in Entries : queue[place[1]][place[2]].ticket = ticket}

\* Mutant of Leave: the session keeps its ticket.
LeaveKeepingTicket(c) ==
  /\ At(c, "leave")
  /\ LET places == PlacesOf(Head(script[c]).ticket)
     IN  \/ /\ \E place \in places :
                 queue' = [queue EXCEPT ![place[1]] = RemoveAt(@, place[2])]
            /\ Continue(c, <<>>)
         \/ /\ places = {}
            /\ UNCHANGED queue
            /\ Continue(c, <<Tell(c, Error("ticket_not_found"))>>)
  /\ UNCHANGED <<linkVars, matches, sessions, tickets, roomVars, told, sent>>

\* The entry is removed from its queue and the ticket from the session of
\* its wallet, whoever asks for it.
Leave(c) ==
  /\ At(c, "leave")
  /\ LET places == PlacesOf(Head(script[c]).ticket)
     IN  \/ /\ \E place \in places :
                 LET w == queue[place[1]][place[2]].wallet
                 IN  /\ queue' = [queue EXCEPT ![place[1]] = RemoveAt(@, place[2])]
                     /\ sessions' = [sessions EXCEPT ![w].ticket = 0]
            /\ Continue(c, <<>>)
         \/ /\ places = {}
            /\ UNCHANGED <<queue, sessions>>
            /\ Continue(c, <<Tell(c, Error("ticket_not_found"))>>)
  /\ UNCHANGED <<linkVars, matches, tickets, roomVars, told, sent>>

-----------------------------------------------------------------------------
(***************************************************************************)
(* match.room_created, and the timer that waits for it.                    *)
(***************************************************************************)

\* A match that some connection of the wallet has been told about.
KnownMatch(c, m) ==
  \E d \in Clients :
    WalletOf[d] = WalletOf[c] /\ MatchFound(m) \in told[d]

\* register_room_creation, then what handle_message does with its outcome.
RequestRegister(c, m, r) ==
  /\ KnownMatch(c, m)
  /\ Receive(c, "register", <<[do |-> "register", match |-> m, room |-> r]>>)

\* Mutant of RegisteredRoom: only the creator is put on the room's list.
RegisteredForCreator(r, m, tick) ==
  [rooms[r] EXCEPT !.match = m,
                   !.wallets = @ \cup {matches[m].creator},
                   !.phase = "waiting_for_player",
                   !.stamp = @ + tick]

\* The room's entry, made or reset for the match.
RegisteredRoom(r, m, tick) ==
  [rooms[r] EXCEPT !.match = m,
                   !.wallets = @ \cup PlayersOf(matches[m]),
                   !.phase = "waiting_for_player",
                   !.stamp = @ + tick]

Register(c) ==
  /\ At(c, "register")
  /\ LET m == Head(script[c]).match
         r == Head(script[c]).room
     IN  IF ~Active(matches[m])
           THEN /\ Finish(c, <<Tell(c, Error(IF matches[m].state = "Expired"
                                              THEN "match_expired"
                                              ELSE "match_not_found"))>>)
                /\ UNCHANGED <<matches, rooms, sessions>>
           ELSE /\ matches' = [matches EXCEPT ![m].room = r,
                                              ![m].state = "RoomReady"]
                /\ \E tick \in Ticks :
                     rooms' = [rooms EXCEPT ![r] = RegisteredRoom(r, m, tick)]
                /\ sessions' = [w \in Wallets |->
                     IF w \in PlayersOf(matches[m])
                       THEN [sessions[w] EXCEPT !.room = r]
                       ELSE sessions[w]]
                /\ Continue(c,
                     <<TellWallet(matches[m].joiner, RoomReady(m, r)),
                       [do |-> "observe", room |-> r],
                       [do |-> "snapshot", room |-> r]>>)
  /\ UNCHANGED <<linkVars, queue, tickets, observers, reports, told, sent>>

\* Mutant of Expire: the state of the match is not looked at.
ExpireAnyway(m) ==
  /\ At(m, "expire")
  /\ matches' = [matches EXCEPT ![m].state = "Expired"]
  /\ Continue(m, <<>>)
  /\ UNCHANGED <<linkVars, queue, sessions, tickets, roomVars, told, sent>>

\* expire_match, whenever the timer's sleep is over, and the two notices
\* when the match was still waiting.
Expire(m) ==
  /\ At(m, "expire")
  /\ IF matches[m].state # "AwaitingRoomCreation"
       THEN /\ Continue(m, <<>>)
            /\ UNCHANGED matches
       ELSE /\ matches' = [matches EXCEPT ![m].state = "Expired"]
            /\ Continue(m, <<TellWallet(matches[m].creator, Error("match_expired")),
                             TellWallet(matches[m].joiner, Error("match_expired"))>>)
  /\ UNCHANGED <<linkVars, queue, sessions, tickets, roomVars, told, sent>>

=============================================================================
