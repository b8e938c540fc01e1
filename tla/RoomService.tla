----------------------------- MODULE RoomService -----------------------------
(***************************************************************************)
(* The rooms: room.subscribe, session.resume, the observers of the chain,  *)
(* and the broadcasts that every change of a room ends in.                 *)
(***************************************************************************)
EXTENDS Matchmaking

RoomState(r, room) ==
  [type |-> "room_state", room |-> r, phase |-> room.phase, stamp |-> room.stamp]

\* The step of a task that sends a message to everybody in a room.
Broadcast(r, message) == [do |-> "broadcast", room |-> r, message |-> message]

-----------------------------------------------------------------------------
(***************************************************************************)
(* Subscribing and observing.                                              *)
(***************************************************************************)

\* Mutant of RequestSubscribe: no observer is asked for.
RequestSubscribeOnly(c, r) ==
  Receive(c, "subscribe", <<[do |-> "subscribe", room |-> r, wallet |-> None]>>)

RequestSubscribe(c, r) ==
  Receive(c, "subscribe",
    <<[do |-> "subscribe", room |-> r, wallet |-> None],
      [do |-> "observe", room |-> r]>>)

\* Mutant of Subscribed: a new entry begins without a phase.
SubscribedBlank(r, c, w) ==
  [rooms[r] EXCEPT !.subscribers = @ \cup {c},
                   !.wallets = IF w = None THEN @ ELSE @ \cup {w}]

\* subscribe_room makes the room's entry if there is none, and returns a
\* copy of it that the handler sends last.
Subscribed(r, c, w) ==
  [rooms[r] EXCEPT !.phase = IF @ = None THEN "waiting_for_player" ELSE @,
                   !.subscribers = @ \cup {c},
                   !.wallets = IF w = None THEN @ ELSE @ \cup {w}]

Subscribe(c) ==
  /\ At(c, "subscribe")
  /\ LET step == Head(script[c])
         room == Subscribed(step.room, c, step.wallet)
     IN  /\ rooms' = [rooms EXCEPT ![step.room] = room]
         /\ ContinueAndAnswer(c, <<Tell(c, RoomState(step.room, room))>>)
  /\ UNCHANGED <<linkVars, matchVars, observers, reports, told, sent>>

\* spawn_observer_if_needed: the task runs from now on, and is never ended.
Observe(c) ==
  /\ At(c, "observe")
  /\ observers' = observers \cup {Head(script[c]).room}
  /\ Continue(c, <<>>)
  /\ UNCHANGED <<linkVars, matchVars, rooms, reports, told, sent>>

\* current_room_snapshot, for the broadcast after a registration.
Snapshot(c) ==
  /\ At(c, "snapshot")
  /\ LET r == Head(script[c]).room
     IN  Continue(c, <<Broadcast(r, RoomState(r, rooms[r]))>>)
  /\ UNCHANGED <<linkVars, matchVars, roomVars, told, sent>>

-----------------------------------------------------------------------------
(***************************************************************************)
(* session.resume: bind, read the session, and collect answers about the   *)
(* ticket, the match and the room in it, which are sent at the end.        *)
(***************************************************************************)

\* Mutant of RequestResume: the session is read before the wallet is bound.
RequestResumeUnbound(c, r, m) ==
  /\ m # 0 => KnownMatch(c, m)
  /\ Receive(c, IF r = None /\ m = 0 THEN "resume" ELSE "resume_named",
       <<[do |-> "resume", wallet |-> WalletOf[c], room |-> r, match |-> m],
         [do |-> "bind", wallet |-> WalletOf[c]]>>)

\* The room and the match that a client names are optional.
RequestResume(c, r, m) ==
  /\ m # 0 => KnownMatch(c, m)
  /\ Receive(c, IF r = None /\ m = 0 THEN "resume" ELSE "resume_named",
       <<[do |-> "bind", wallet |-> WalletOf[c]],
         [do |-> "resume", wallet |-> WalletOf[c], room |-> r, match |-> m]>>)

Resume(c) ==
  /\ At(c, "resume")
  /\ LET step == Head(script[c])
         session == sessions[step.wallet]
         m == IF step.match # 0 THEN step.match ELSE session.match
         r == IF step.room # None THEN step.room ELSE session.room
     IN  Continue(c,
           (IF session.ticket = 0 THEN <<>>
            ELSE <<[do |-> "find_ticket", ticket |-> session.ticket]>>)
           \o
           (IF m = 0 THEN <<>> ELSE <<[do |-> "find_match", match |-> m]>>)
           \o
           (IF r = None THEN <<>>
            ELSE <<[do |-> "subscribe", room |-> r, wallet |-> step.wallet],
                   [do |-> "observe", room |-> r]>>))
  /\ UNCHANGED <<linkVars, matchVars, roomVars, told, sent>>

FindTicket(c) ==
  /\ At(c, "find_ticket")
  /\ LET ticket == Head(script[c]).ticket
     IN  ContinueAndAnswer(c,
           IF PlacesOf(ticket) = {} THEN <<>> ELSE <<Tell(c, QueueJoined(ticket))>>)
  /\ UNCHANGED <<linkVars, matchVars, roomVars, told, sent>>

\* A match in the map is announced whatever its state.
FindMatch(c) ==
  /\ At(c, "find_match")
  /\ LET m == Head(script[c]).match
     IN  ContinueAndAnswer(c,
           (IF matches[m].state = "Forgotten" THEN <<>>
            ELSE <<Tell(c, MatchFound(m))>>) \o
           (IF matches[m].room = None THEN <<>>
            ELSE <<Tell(c, RoomReady(m, matches[m].room))>>))
  /\ UNCHANGED <<linkVars, matchVars, roomVars, told, sent>>

-----------------------------------------------------------------------------
(***************************************************************************)
(* The observer of a room: a task that reports what the chain shows of the *)
(* room's account, one notification after the other.                       *)
(***************************************************************************)

RoomEvent(r, report) == [type |-> "room_event", room |-> r, report |-> report]

\* observe_room_once: the next notification arrives.  Notifications of a
\* connection that broke are lost, and the observer connects again.
Notify(r, report) ==
  /\ r \in observers
  /\ script[r] = <<>>
  /\ reports < MaxReports
  /\ reports' = reports + 1
  /\ Finish(r, <<[do |-> "update", room |-> r, report |-> report]>>)
  /\ UNCHANGED <<linkVars, matchVars, rooms, observers, told, sent>>

\* Mutant of UpdatedRoom: logs change the phase and leave updated_at alone.
UpdatedUnstamped(room, report, tick) ==
  IF report \in LogClasses
    THEN LogUpdated(room, report)
  ELSE IF room.hash = report
    THEN room
    ELSE [AccountUpdated(room, report) EXCEPT !.stamp = @ + tick]

\* A report is the class of a transaction's logs, or else the hash of the
\* changed account; a hash that is the last one seen changes nothing.
UpdatedRoom(room, report, tick) ==
  IF report \in LogClasses
    THEN [LogUpdated(room, report) EXCEPT !.stamp = @ + tick]
  ELSE IF room.hash = report
    THEN room
    ELSE [AccountUpdated(room, report) EXCEPT !.stamp = @ + tick]

\* The event is broadcast in any case, the state unless the hash is an old one.
Update(r) ==
  /\ At(r, "update")
  /\ \E tick \in Ticks :
       LET report == Head(script[r]).report
           room == UpdatedRoom(rooms[r], report, tick)
       IN  /\ rooms' = [rooms EXCEPT ![r] = room]
           /\ Continue(r,
                IF report \notin LogClasses /\ rooms[r].hash = report
                  THEN <<Broadcast(r, RoomEvent(r, report))>>
                  ELSE <<Broadcast(r, RoomEvent(r, report)),
                         Broadcast(r, RoomState(r, room))>>)
  /\ UNCHANGED <<linkVars, matchVars, observers, reports, told, sent>>

-----------------------------------------------------------------------------
(***************************************************************************)
(* broadcast_to_room: read the room, then the bindings of its wallets,     *)
(* then send to every recipient in turn.                                   *)
(***************************************************************************)

ReadRoom(t) ==
  /\ At(t, "broadcast")
  /\ LET step == Head(script[t])
     IN  Continue(t, <<[do |-> "address", message |-> step.message,
                        wallets |-> rooms[step.room].wallets,
                        subscribers |-> rooms[step.room].subscribers]>>)
  /\ UNCHANGED <<linkVars, matchVars, roomVars, told, sent>>

\* Mutant of Address: subscribers that brought no wallet are left out.
AddressPlayers(t) ==
  /\ At(t, "address")
  /\ LET step == Head(script[t])
         recipients == {bound[w] : w \in step.wallets} \ {None}
     IN  Continue(t, SetToSeq({Tell(c, step.message) : c \in recipients}))
  /\ UNCHANGED <<linkVars, matchVars, roomVars, told, sent>>

Address(t) ==
  /\ At(t, "address")
  /\ LET step == Head(script[t])
         recipients == ({bound[w] : w \in step.wallets} \ {None})
                         \cup step.subscribers
         tells == {Tell(c, step.message) : c \in recipients}
     IN  Continue(t, SetToSeq(tells))
  /\ UNCHANGED <<linkVars, matchVars, roomVars, told, sent>>

=============================================================================
