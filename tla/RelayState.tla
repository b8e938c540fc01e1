----------------------------- MODULE RelayState -----------------------------
(***************************************************************************)
(* The shared state of the off-chain relay (RuntimeState) and the steps    *)
(* all of its tasks have in common.                                        *)
(*                                                                         *)
(* A task (the handler loop of a client's socket, the timer of a match,    *)
(* the observer of a room) runs a script: the critical sections and the    *)
(* sends it still has to go through, in order.  One action of the          *)
(* specification is one critical section, that is what a task does between *)
(* taking a lock and releasing it, so tasks interleave exactly where the   *)
(* code can lose the processor to another task.                            *)
(***************************************************************************)
EXTENDS RoomPhase, Integers, FiniteSets, SequencesExt

CONSTANTS
  Clients,         \* connections, each used at most once
  Wallets,
  WalletOf,        \* the wallet a connection's user plays with
  Bets,
  Rooms,           \* room_pubkey values
  None,            \* Option::None
  Requests,        \* what the user of each connection does: message kinds, disconnect
  Reports,         \* what an observer may report: log classes and hashes
  Ticks,           \* how far Utc::now() may move from one reading to the next
  MaxRequests,     \* bound: messages of each connection
  MaxMatches,      \* bound: matches ever made
  MaxReports,      \* bound: reports ever made
  MaxRestarts      \* bound: times the relay stops and starts again

ASSUME RelayAssumption ==
  /\ WalletOf \in [Clients -> Wallets]
  /\ DOMAIN Requests = Clients
  /\ MaxMatches \in Nat
  /\ MaxRequests \in [Clients -> Nat]
  /\ MaxReports \in Nat
  /\ MaxRestarts \in Nat
  \* A wall clock: it may stand still and it may be set back.
  /\ Ticks \subseteq Int
  /\ None \notin Clients \cup Wallets \cup Rooms \cup RoomPhases
  \* A connection, a match and a room are three things.
  /\ Clients \cap Rooms = {}
  /\ (Clients \cup Rooms) \cap (1..MaxMatches) = {}

VARIABLES
  life,       \* the socket of a connection: "new", "open" or "closed"
  clients,    \* the connections in RuntimeState.clients
  bound,      \* wallet_bindings
  queue,      \* queue: the entries waiting with every bet
  matches,    \* matches, in the order they were made; the index is match_id
  sessions,   \* wallet_sessions
  rooms,      \* rooms
  observers,  \* observers
  script,     \* what every task still has to do
  told,       \* the messages put into every connection's channel
  tickets,    \* how many tickets were issued; ticket_id is a number
  sent,       \* how many messages every connection sent
  reports,    \* how many reports the observers made
  restarts    \* how many times the relay was started again

linkVars == <<life, clients, bound, restarts>>
matchVars == <<queue, matches, sessions, tickets>>
roomVars == <<rooms, observers, reports>>
vars == <<linkVars, matchVars, roomVars, script, told, sent>>

MatchIds == 1..MaxMatches

\* The tasks: one per connection, match timer and room observer.
Tasks == Clients \cup MatchIds \cup Rooms

\* A room without an entry in the map.  `stamp` is updated_at, read off the
\* clock whenever the entry is made or touched.
NoRoom ==
  [phase |-> None, match |-> 0, wallets |-> {}, subscribers |-> {},
   stamp |-> 0, hash |-> None]

NoSession == [ticket |-> 0, match |-> 0, room |-> None]

RelayInit ==
  /\ life = [c \in Clients |-> "new"]
  /\ clients = {}
  /\ bound = [w \in Wallets |-> None]
  /\ queue = [b \in Bets |-> <<>>]
  /\ matches = <<>>
  /\ sessions = [w \in Wallets |-> NoSession]
  /\ rooms = [r \in Rooms |-> NoRoom]
  /\ observers = {}
  /\ script = [t \in Tasks |-> <<>>]
  /\ told = [c \in Clients |-> {}]
  /\ tickets = 0
  /\ sent = [c \in Clients |-> 0]
  /\ reports = 0
  /\ restarts = 0

-----------------------------------------------------------------------------
(***************************************************************************)
(* Scripts.                                                                *)
(***************************************************************************)

\* The next step of task t is one of this kind.
At(t, kind) == script[t] # <<>> /\ Head(script[t]).do = kind

\* The step is done, and is replaced by others, in front of the rest.
Continue(t, steps) ==
  script' = [script EXCEPT ![t] = steps \o Tail(@)]

\* The step is done, and what it found is answered at the very end.
ContinueAndAnswer(t, steps) ==
  script' = [script EXCEPT ![t] = Tail(@) \o steps]

\* The handler returns early: only these steps are left.
Finish(t, steps) == script' = [script EXCEPT ![t] = steps]

Tell(c, message) == [do |-> "tell", client |-> c, message |-> message]
TellWallet(w, message) == [do |-> "tell_wallet", wallet |-> w, message |-> message]

\* system.error
Error(code) == [type |-> "error", code |-> code]

-----------------------------------------------------------------------------
(***************************************************************************)
(* Sending: a message to a connection that is gone is dropped, and a       *)
(* wallet is looked up before its connection is.                           *)
(***************************************************************************)

SendToClient(t) ==
  /\ At(t, "tell")
  /\ LET step == Head(script[t])
     IN  told' = IF step.client \in clients
                   THEN [told EXCEPT ![step.client] = @ \cup {step.message}]
                   ELSE told
  /\ Continue(t, <<>>)
  /\ UNCHANGED <<linkVars, matchVars, roomVars, sent>>

SendToWallet(t) ==
  /\ At(t, "tell_wallet")
  /\ LET step == Head(script[t])
         client == bound[step.wallet]
     IN  Continue(t, IF client = None THEN <<>> ELSE <<Tell(client, step.message)>>)
  /\ UNCHANGED <<linkVars, matchVars, roomVars, told, sent>>

-----------------------------------------------------------------------------
(***************************************************************************)
(* Connections.                                                            *)
(***************************************************************************)

\* handle_socket begins with register_client.
Connect(c) ==
  /\ life[c] = "new"
  /\ life' = [life EXCEPT ![c] = "open"]
  /\ clients' = clients \cup {c}
  /\ UNCHANGED <<bound, restarts, matchVars, roomVars, script, told, sent>>

\* Mutant of Disconnect: the handler ends and leaves its subscriptions.
DisconnectSubscribed(c) ==
  /\ "disconnect" \in Requests[c]
  /\ life[c] = "open"
  /\ script[c] = <<>>
  /\ life' = [life EXCEPT ![c] = "closed"]
  /\ Finish(c, <<[do |-> "unregister"]>>)
  /\ UNCHANGED <<clients, bound, restarts, matchVars, roomVars, told, sent>>

\* The reading loop ends, which it does between two messages only.
Disconnect(c) ==
  /\ "disconnect" \in Requests[c]
  /\ life[c] = "open"
  /\ script[c] = <<>>
  /\ life' = [life EXCEPT ![c] = "closed"]
  /\ Finish(c, <<[do |-> "unregister"], [do |-> "unsubscribe"]>>)
  /\ UNCHANGED <<clients, bound, restarts, matchVars, roomVars, told, sent>>

\* unregister_client, under the lock of clients and then that of rooms.  The
\* bindings and the queue entries of the connection stay.
Unregister(c) ==
  /\ At(c, "unregister")
  /\ clients' = clients \ {c}
  /\ Continue(c, <<>>)
  /\ UNCHANGED <<life, bound, restarts, matchVars, roomVars, told, sent>>

Unsubscribe(c) ==
  /\ At(c, "unsubscribe")
  /\ rooms' = [r \in Rooms |-> [rooms[r] EXCEPT !.subscribers = @ \ {c}]]
  /\ Continue(c, <<>>)
  /\ UNCHANGED <<linkVars, matchVars, observers, reports, told, sent>>

\* The reading loop hands the next message to handle_message, unless it is
\* still busy with the one before.
Receive(c, kind, steps) ==
  /\ kind \in Requests[c]
  /\ life[c] = "open"
  /\ script[c] = <<>>
  /\ sent[c] < MaxRequests[c]
  /\ sent' = [sent EXCEPT ![c] = @ + 1]
  /\ Finish(c, steps)
  /\ UNCHANGED <<linkVars, matchVars, roomVars, told>>

\* bind_wallet: the last connection to name a wallet speaks for it.
Bind(c) ==
  /\ At(c, "bind")
  /\ bound' = [bound EXCEPT ![Head(script[c]).wallet] = c]
  /\ Continue(c, <<>>)
  /\ UNCHANGED <<life, clients, restarts, matchVars, roomVars, told, sent>>

-----------------------------------------------------------------------------
(***************************************************************************)
(* The relay keeps nothing outside its memory: when it is stopped, at any  *)
(* point, its sockets close, its tasks end and AppState::new starts with   *)
(* empty maps.  The identifiers it gave away stay taken, so a forgotten    *)
(* match keeps its index; the clock is not the relay's, and what it shows  *)
(* when a room gets a new entry is chosen here.                            *)
(***************************************************************************)

Restart ==
  /\ restarts < MaxRestarts
  /\ restarts' = restarts + 1
  /\ life' = [c \in Clients |-> IF life[c] = "new" THEN "new" ELSE "closed"]
  /\ clients' = {}
  /\ bound' = [w \in Wallets |-> None]
  /\ queue' = [b \in Bets |-> <<>>]
  /\ matches' = [m \in DOMAIN matches |->
                   [matches[m] EXCEPT !.room = None, !.state = "Forgotten"]]
  /\ sessions' = [w \in Wallets |-> NoSession]
  /\ \E tick \in Ticks :
       rooms' = [r \in Rooms |-> [NoRoom EXCEPT !.stamp = rooms[r].stamp + tick]]
  /\ observers' = {}
  /\ script' = [t \in Tasks |-> <<>>]
  /\ UNCHANGED <<told, tickets, sent, reports>>

=============================================================================
