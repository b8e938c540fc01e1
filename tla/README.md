# Shell Shock: a verification development

TLA+ models, TLC runs and TLAPS proofs for the two programs of this repository:

* the **on-chain program** (`src/programs/shellshock/src/lib.rs`), an Anchor
  program that plays a two-player game of chance for a stake, and
* the **relay** (`src/src/*.rs`), a WebSocket service that pairs players,
  watches rooms on the chain and re-emits what it sees.

The paths below are those of the repository, prefixed with `src/` where the
project's manifest names them.

## 1. Inventory

| Component | State | Operations | What makes it correct |
|---|---|---|---|
| On-chain program, `lib.rs` | one `Game` and one `Vault` account per (creator, bet), wallets | `create_game`, `join_game`, `initialize_round`, `shoot`, `reload`, `use_item`, `claim_reward` | counters agree with the cylinder, turns alternate with the hammer, the survivor wins, the pot is paid once and to the winner |
| Drawing loop in `initialize_round`, `lib.rs:93-108` | generator word, flags, count | one draw per turn of the loop | it ends; the load is not lopsided |
| Relay: connections, `state.rs:111-156`, `ws.rs:24-82` | `clients`, `wallet_bindings`, a channel per connection | register, unregister, bind, send to a client or to a wallet | the connection that speaks for a wallet learns what concerns it |
| Relay: matchmaking, `state.rs:158-335, 479-487`, `ws.rs:86-218` | `queue`, `matches`, `wallet_sessions` | `queue.join`, `queue.leave`, `match.room_created`, the expiry timer | a wallet is in one place, nobody waits beside a partner, expiry and publication exclude each other, every match is decided |
| Relay: rooms and sessions, `state.rs:337-477, 524-675`, `ws.rs:219-251` | `rooms`, `observers` | `room.subscribe`, `session.resume`, account and log updates, broadcasts | rooms are observed, players are on the list, subscribers end with the latest state |
| Relay: phase inference, `state.rs:524-675` | a room's phase and last account hash | a log or an account change is reported | the phase follows the game, though it is guessed from words |
| Observer transport, `solana.rs` | a task and a connection per room | connect, subscribe twice, read, fail and sleep, close, connect again | whatever is lost, the task comes back to reading |
| Relay: locks, `state.rs` (all operations) | seven locks | each operation takes up to three at once | no operation blocks another for ever |
| Start, stop, HTTP endpoints, configuration (`main.rs`, `config.rs`) | all of the relay's memory | start and stop, `/healthz`, `/readyz`, `/config` | a restart loses what it loses, and no more; routing and parsing are not modelled |
| Integration tests, `tests/shellshock.ts` | the test's loop | the full-game test | what it expects of the program (section 5) |
| `API_DOCUMENTATION.md` | - | a REST service for a single player | nothing in the repository implements it |

How they interact: the clients send transactions to the chain and messages to
the relay; the relay never signs anything.  The tasks of the relay (one per
connection, per match timer and per observed room) share the maps above, each
behind its own lock, and reach the clients through unbounded channels.  The
chain reaches the relay only as notifications about a room's account.

Hard behaviours: check-then-act over several locks (`queue_join`), a lookup
followed by a send (`send_to_wallet`, `broadcast_to_room`), a timer against a
late answer, connections replaced while a message is on its way, handlers that
hold three locks, notifications that are lost, a relay that forgets everything
when it restarts, phases guessed from two feeds without an order, and on the
chain long sequences of legal instructions in which four counters must stay in
step.  `PROJECT.json` lists every hazard at its line with the properties that
watch it, and says of the others why no property does.

## 2. Modules

```
Chamber ── ChamberLoader ── MCChamberLoader, ChamberLoaderProofs
   └── Shellshock ── ShellshockEscrow ── MCShellshock
          │   │           └ INSTANCE Escrow
          │   ├── ShellshockRounds ── MCShellshockRounds
          │   └── FullGameTest ── MCFullGameTest
          └── ShellshockProofs (over ShellshockEscrow and ShellshockRounds) ── EscrowProofs

RoomPhase ── RelayState ── Matchmaking ── RoomService ── Relay ── RelayLobby ── MCRelay
   │                                                       │           └ INSTANCE Lobby
   │                                                       └── RelayProofs ── RoomProofs ── MatchmakingProofs
   │                                                                          (over RelayLobby, too)
   └── ObservedGame (over Shellshock, too) ── MCObservedGame
          └── ObservedGameProofs (over ShellshockProofs)

RelayLocks ── RelayLocksProofs
```

**Chamber** holds the cylinder (`chamber_flags`) as the set of loaded
positions, and the set `Loads` of what `initialize_round` can draw.

**ChamberLoader** is the drawing loop, one turn of `while count < 3` per step.
It justifies `Loads`: the modulus is even and both coefficients are odd, so
the parity of the generator alternates, `rng % 6` inherits it, and the three
chambers are never all of one parity.  As player 1 only ever fires the even
chambers and player 2 the odd ones, each meets one or two bullets.

**Shellshock** is the program.  An action is an instruction: its requirements
are the guard (a failed requirement rolls the transaction back), and the
record operators (`Fired`, `Loaded`, `Healed`, `Advanced`, `Resolve`,
`RoundBegun`) are the code's assignments in their order.  Games are indexed by
the pair <<creator, bet>> from which their address derives, so re-creation of
a claimed address is part of the model.  `vault[k]` is what both accounts of a
game hold together, rent included.  `load \in Loads` stands for the seed: the
instruction asks for no signer, so whoever sends it picks among the loads.

**ShellshockRounds** adds a history to the program: how often each player has
been hit since the round began.  It restrains no step.

**Escrow** is the abstract promise about money (open, match, decide, pay), and
**ShellshockEscrow** the refinement mapping.

**FullGameTest** drives Shellshock as the test "Creates and completes a full
game" does.

**RelayState** holds the relay's shared state and the steps all of its tasks
have in common.  A task runs a *script*: the critical sections and sends it
still has to go through.  One action is one critical section, that is what the
code does between taking a lock and giving it back; between two of them any
other task may run.  A handler's early return drops the rest of its script
(`Finish`); messages that `session.resume` collects in a vector and sends at
the end are appended to it (`ContinueAndAnswer`).

**Matchmaking** has `queue.join` as its four sections (bind, check the queue,
check the matches, queue or pair), `queue.leave`, `match.room_created` and the
timer.  **RoomService** has subscriptions, resumes, the observers' reports and
the broadcast as its three stages (copy the room, look up the bindings, send
one by one).  **Relay** puts them together and states the properties.

A restart (`Restart`) may come between any two steps: sockets close, tasks end,
the maps are empty again.  The clock that `updated_at` is read from moves by any
of the `Ticks` from one reading to the next; these may be zero or negative.

**RoomPhase** is what a report does to a room's phase: the search for words in
logs (`InferredPhase`) and the promotion by a changed account
(`PromotedPhase`).  RoomService and ObservedGame share it.

**ObservedGame** composes the program with the relay's view of one game.  The
RPC node announces the logs of every instruction of Shellshock (`Announce`), of
one transaction or of several in one, and the logs of any other transaction
that mentions the room (`Mention`): one that failed, a foreign one.  What the
logs of an instruction must have is its name, as Anchor writes it ("Instruction:
Shoot"); they may have any other of the words the relay looks for, from other
instructions or by chance in the base64 of an event, and other transactions may
have any (`Covering` says which classes logs with certain words may count as).
Apart from the logs the node announces what the account has become (`Change`),
at any time and with any contents, since it does so once per slot and since
anybody may transfer lamports to it.  Each feed keeps its order and the two
have none between them.  The observer task connects, asks for the one and then
for the other, and reads; the node accepts a subscription sooner or later or
never (`Accept`), as the task does not look at its replies; and the connection
is lost at any moment (with an error and a sleep, or by a Close frame and
without).

**Lobby** is the matchmaker as its clients may think of it, every request
taking effect at once, and **RelayLobby** the mapping under which the relay
with its separate locks implements it.

**RelayLocks** has one step per lock: each operation is the sequence of
sections of the code, each section the locks it takes one while holding the
other.  Elsewhere a section is one atomic action; this module shows that the
sections cannot block each other.

A definition whose comment begins with "Mutant of" is a plausible bug in the
definition after it.  Nothing uses it; substituted for the original, it breaks
the property that `PROJECT.json` pairs it with, which shows that the property
depends on that piece of the code.

### Abstractions

* On chain: lamports sent to the vault by outsiders, transaction fees, bump
  seeds and events are left out; a game's rent is one number, paid by the
  creator.  `entropy` is any load of `Loads`.
* Relay: UUIDs are numbers handed out in order; `client_id` in queue entries
  and matches, `last_signature` and `turn_wallet` (never set) are left out, and
  so are `queue.status` messages, which carry counts only.  A connection's
  channel is the set of messages ever put into it: order within a channel is
  not modelled.
* Users behave as the UI does: one wallet per connection, `queue.leave` with a
  ticket and `match.room_created` with a match that some connection of the
  wallet was told about.  Hence `match_not_found` occurs only for a match that
  was forgotten in a restart.  They may stop, disconnect, leave with an old
  ticket, publish a match late, again, or from the joiner's side.
* A restart empties the relay's maps and closes its sockets; identifiers given
  out before are not given out again (they are random).
* The clock: `updated_at` is `Utc::now()`, of which nothing is assumed but that
  it is a number (`Ticks \subseteq Int`).  The runs take `Ticks = {1}`, so that
  equal states of different age differ and `SubscribersAreCurrent` asks for the
  latest.  `StampsTell` is false of other clocks, and its theorem says so by the
  hypothesis `ClockAdvances`; no other theorem has it.
* ObservedGame: a log is one of the five classes that `infer_phase_from_logs`
  tells apart, an account content one of `Hashes`.  Which class the logs of a
  transaction have is left open as far as the code leaves it open, so nothing
  is assumed of who sends what.  An accepted subscription announces all that it
  should until the connection is lost; a node that drops single notifications
  is left out.  `word` and `ended` are histories.  Only one game is watched, and
  at most `MaxLag` announcements of each kind are under way.
* RelayLocks: read locks count as exclusive, which can only make tasks wait
  more.  Sends to several recipients in a row are written once.
* Room keys are valid public keys; the observer refuses others at once.

## 3. Runs

| Run | Module, cfg | Question | Bounds |
|---|---|---|---|
| `one_game` | MCShellshockRounds, MCShellshockRounds | the game and its money, play by play, with the hits of each round | 3 wallets, 1 address, 3 rounds, 2 lamports each, item types 1 and 2 |
| `two_games` | MCShellshock, MCTwoGames | refinement of `Escrow` by two games that share players | 2 wallets, 2 addresses, 2 rounds, loads and reloads restricted by `QuickRounds` |
| `chamber_loader` | MCChamberLoader | the drawing loop, every entropy | 12-bit words |
| `matchmaking` | MCRelay, MCMatchmaking | one place per wallet, no two waiting, sessions, the expiry race, refinement of `Lobby` | 3 players, 2 bets, 3 messages of the first, 1 of the others, 2 matches |
| `reconnect` | MCRelay, MCReconnect | matches survive a change of connection, what is left of the old one, every match is decided | 2 wallets, 3 connections, 2 messages each (the second connection 1), 2 matches |
| `rooms` | MCRelay, MCRooms | subscriptions, resumes and reports on one room, before and after a restart | 2 wallets, 3 connections, 1 message each (the publisher's 2), 1 match, 2 reports, 1 restart |
| `observed_game` | MCObservedGame, MCObservedGame | the relay's phase and the game's | 2 wallets, 1 address, 2 rounds, 2 hashes, 2 announcements of each kind under way, any number of losses and restarts |
| `relay_locks` | RelayLocks, MCRelayLocks | freedom from deadlock, every operation ends | 3 tasks, any operations in any number |
| `two_tabs` | MCRelay, MCTwoTabs | finding 1 | 2 wallets, 3 connections, 1 message each |
| `rematch` | MCRelay, MCRematch | finding 2 | 2 players, 3 messages each |
| `full_game_test` | MCFullGameTest | finding 3 | the test's own 20 attempts |
| `false_finish` | MCObservedGame, MCFalseFinish | finding 4 | as `observed_game`, with transactions of one instruction (`PlainSpec`) |

Why the bounds are enough to show something.  Three rounds allow a kill (the
fourth hit comes in round 2 at the earliest), healing between them and the
round limit itself; three wallets give a creator, a joiner and one who comes
second, and two lamports let a transfer fail.  Two games suffice for money of
one game to meet the other's.  `QuickRounds` leaves the loads {0, 1, 2} and {1,
2, 3}: with the one the creator fires two bullets in a round, with the other
the joiner does, so in two rounds either may win, in both games.  With 12 bits
all residues modulo 6 occur and 1365 entropies draw a chamber twice.  On the
relay, every race in the code is between two critical sections of two tasks:
three messages let a player join, leave or lose a match to the timer, and join
again; three players let one arrive while two are being paired;
two reports let one be outdated.  A restart closes every connection that has
been opened, and a connection is used once; so in `rooms` one is left after it
that subscribes to the room once more, but too few for two players to match
again: what two matches before and after a restart do to each other is left to
the theorems.  In `observed_game` the games are short (`ShortGame` in MCObservedGame: one
load, reloads only of chambers that were loaded, no item for the second
player), because what the relay sees of an instruction depends neither on the
cylinder nor on the healths; two rounds allow a kill and a claim, after which
the address is used again.  Three tasks with three locks each can form every
cycle of up to three tasks; for more there is the proof.

What each property says is in the comment above it.  In short:

* `ChamberCount`, `TurnMatchesChamber`: the redundant counters never disagree.
* `TwoHitsARound`: a reloaded bullet always lies behind the hammer; in no round
  is a player hit more than twice, so no game ends in its first round.
* `WinnerSurvives`, `PotMatchesPhase`, `EveryInstructionAges`,
  `ImplementsEscrow`: who wins, what is in the vault, no way back, and all of
  it as seen from the money.
* `LoadIsFair`, `LoopEnds`: the drawing loop.
* `WalletInOnePlace`, `NobodyWaitsTogether`, `SessionsAgree`,
  `RaceHasOneWinner`, `MatchIsDecided`: the matchmaker.  `WalletInOnePlace`
  depends on the order of the two checks of `queue_join`, and on there being
  one connection per wallet (finding 1).  `SessionsAgree` holds for the room of
  a session only because of finding 2: repairing that without clearing
  `current_room_pubkey` when pairing would make `session.resume` stale.
* `NoLostMatch`, `RoomHasItsPlayers`: what reconnecting players rely on.
* `RoomsAreTended`, `SubscribersAreCurrent`, `StampsTell`: what spectators and
  players see.  A client may be given an older state after a newer one;
  `StampsTell` says that it can tell which is which, as long as the clock of the
  relay advances.  In `rooms` this is seen to depend on the restart, too:
  stamps that began anew with the new entry would violate it.
* `ImplementsLobby`: what the checks of `queue_join` found still holds when the
  wallet is queued.  It depends on the order of the two checks: the queue
  first, the matches second, because a wallet moves from the one to the other.
* `CaughtUp`: how far a guessed phase can be trusted.  After a loss, one
  instruction announced in logs is enough for the room not to be shown as
  waiting when the game no longer is, and for a game in the middle of a round to
  be shown as played, unless other words have come; and no account change,
  late, merged or repeated, undoes it.  More is not true, and nothing in the
  repository says more: a game between two rounds may be shown as played, a
  finished one is until somebody is refused its reward, and see finding 4.
* `ObserverComesBack`: `README.md:45-46` of the repository, as far as it lies
  with the relay: both requests have been sent and the task is reading.  Whether
  the node serves them is not the relay's to say, and it does not look.
* `SomebodyGoesOn`, `OperationsEnd`: the locks.

Deadlock is checked in `observed_game` and `relay_locks`, where something can
always happen.  It is not in the others: a game at its round limit accepts no
instruction, the drawing loop and the test end, and users may stop sending.

**Fairness.** `ChamberLoader` is straight-line code: weak fairness of its step.
`Relay` assumes weak fairness of every handler, timer and observer task, that
is: tokio polls tasks that can run, locks are given back, and the clock passes
`turn_timeout_seconds`.  It assumes nothing of users or of the chain: no
fairness on connecting, sending, reports or restarts. `ObservedGame` assumes
that the observer task goes on when it can (weak fairness of waking and
reading) and that a node which is asked again and again takes the connection at
last (strong fairness of connecting and of sending the second request, since an
error may come first any number of times); it need not accept a subscription or
announce anything, nobody has to play, and connections may break any number of
times.  `RelayLocks` assumes for every task that what it can do again and again
it does at last (strong fairness of taking the next lock or giving all back):
tokio's mutexes and RwLocks serve who waits in turn.  Nobody has to begin an
operation.

## 4. Proofs

All in TLAPS, for every value of the constants that satisfies the modules'
named assumptions.

*Shellshock* (`ShellshockProofs`).  None of the properties is inductive alone.
The invariant `IInv` is `TypeOK` with `PotMatchesPhase` and, for every game
(`Sound`): the address matches the seeds (`Seated`), the counter counts
(`Counted`), turn and position follow the action counter (`Hammer`), nobody is
dead before the game is finished (`Undecided`) and only the loser is afterwards
(`Decided`), and the health floors (`Floors`).  The floors are the heart of it:
within a round, what a player can still lose is bounded by the loaded chambers
of the opponent's parity that lie *ahead* of the hammer (`OddAhead`,
`EvenAhead`), at most two when the round begins, and never raised by `reload`,
which loads the chamber the hammer is leaving.  Each instruction has a lemma;
`Invariance` combines them, and the theorems of the properties follow.
`RoundsCostTwoHits` adds to it, for the program with its history, that the hits
a player has taken in this round and those the opponent may still land
(`RoomForHits`) are at most two together.

*Escrow* (`EscrowProofs`).  `EscrowIsImplemented`: under `IInv`, every step of
Shellshock is a step of `Escrow` or leaves its mapped state alone.

*ChamberLoader* (`ChamberLoaderProofs`).  `LoadingIsFair`: the invariant says
that the chambers drawn so far and the word in hand agree with the alternation
of parities.  It needs only that the modulus is even and both coefficients odd,
so it covers 2^64 with 1103515245 and 12345.

*RelayLocks* (`RelayLocksProofs`).  `NeverStandsStill`, for any set of tasks.
The invariant (`Orderly`) says that tasks only ever go through the sections
that occur in the operations, with no more locks than a section has.  The
sections agree on one order (`LocksAreOrdered`: queue, matches, rooms,
sessions), so if everybody waited, who holds the last lock of the order that is
taken would wait for a later one, which somebody would have to hold.

*ObservedGame* (`ObservedGameProofs`).  `PhasesCatchUp`, for every lag and
every play of the game, not the short ones only, and for any announcements.
The invariant (`OInv`) adds to the on-chain `IInv` the types of the relay's
side (`Decent`), that a game in the middle of a round whose instructions are
announced has had a word (`WordGiven`), and that what is on its way makes up
for what the phase lacks (`Underway`): while it is still the first phase there
are logs to read, and if "action" has the last word, the room is shown as
played or such logs are on their way, with no other word behind them (`Quiet`).
Reading logs hands this on, and a promotion by an account change only ever
leaves a waiting phase.

*Relay* (`RelayProofs`, `RoomProofs`, `MatchmakingProofs`), for any number of
connections, wallets, bets, rooms, matches, messages, reports and restarts.
What makes these proofs long is that the next step of a task is in its script,
so every invariant of the maps needs one of the scripts.

* `Typed(K)` is that invariant, `K` being the states of rooms that have been
  broadcast or may still be.  A handler's script is either an *opening*, one
  of the sequences with which a request begins, as far as it is not yet run
  (`JoinOpening`, `ResumeOpening`, `OtherOpening`), or a sequence of *errands*
  and *deliveries* in any order, in which a subscription is followed by the
  errand to observe its room, and such an errand is for a room that has its
  entry or follows its subscription (`Linked`); a
  timer's script speaks of a match there is, an observer's is made of
  deliveries.  With it go the types of the maps.  One lemma per action
  (`...Typed`) shows that it is kept, `NextTyped` puts them together, and
  `EverythingIsTyped`, `RelayTypes` and `OneWaitsAtMost` follow: the queue of a
  bet holds one entry at most because pairing takes out the only one.
* `RaceIsDecided`, `RoomsKeepTheirPlayers`: each from `Typed(K)` and what a step
  can do to the matches (`MatchesGoOn`), the lists of players (`WalletsGrow`)
  and the sessions (`SessionsGoOn`).
* `StampsAreTelling`: every state in `K` is older than its room's entry or is
  the entry (`Stamped`), which holds through restarts as long as the
  clock advances (`ClockAdvances`).
* `RoomsAreLookedAfter`: a handler that has made a room has the errand to
  observe it further down its script, and what stands before it neither
  returns early nor drops it (`ObserveIsKept`); a closed connection that is
  still on a list has `unsubscribe` at the end of its script (`Leaving`).
* `SubscribersHearIt`: a subscriber has been told the state of its room's entry,
  or some script holds a step from which it will be (`Informed`, `Served`): the
  message itself, a broadcast of that state whose recipients are yet to be read
  or among whom it is, or a snapshot yet to be taken.  Each change of an entry
  leaves such a step behind, and running one leaves the next.  A connection
  that has never been opened does nothing, speaks for nobody and is on no list
  (`Fresh`), so that opening one does not bring back an old subscription.
* `WalletsAreInOnePlace`, `SessionsDoAgree`, `RelayImplementsLobby`, and the
  invariant `InOrder` they share, assume `OneJoins`: no wallet joins from two
  connections.  The code does not enforce it, and without it the three are
  false: that is finding 1.  `InOrder` says that what a join has checked is
  still so (`Checked`: past the first check the wallet is in no queue, past
  the second in no match), that the maps put each wallet in one place
  (`OnePlace`), that a match has a room just when it is ready
  (`RoomsWhenReady`), and that sessions follow (`SessionFollows`).  It was
  checked by TLC on the instances of the relay's runs before it was proved.
  `MatchmakerSteps` reduces the actions to the five things that can happen to
  queue, matches and sessions.  `LobbySteps` maps each to the step of the
  lobby that takes effect at once: a join takes effect in its third section.
* `NobodyMissesIt` says that once nothing is under way the connection that
  speaks for a wallet has been told of its match.  The invariant (`Followed`)
  says in which ways it comes to learn of it (`Learns`): it has heard that it
  is refused, or is about to be told so; its handler is still asking (the checks
  of a join, a resume, or the lookup a resume leads to); or the notices are
  there or on their way, to the connection or to its wallet (`Heard`).  Whoever
  comes to speak for a wallet does so in a join or a resume and is therefore
  asking (`BindAsks`), and asking ends with an answer (`AsksOn`); the notice of
  a room is sent by the step that gives the match its room (`RoomIsAnnounced`).
  It rests on `InOrder` and so on `OneJoins`, and on `NamesNoMatch`: no client
  names a match when it resumes.  TLC finds `NoLostMatch` violated when either
  is dropped.  Two tabs that both join let one be refused for being queued
  while the other is already matched, and a resume that names a match is told
  of that one, not of the one its wallet is in (hazard `src/state.rs:434`).
  The run `reconnect` meets both.

*Only model-checked.*  `LoopEnds`, `MatchIsDecided`, `ObserverComesBack` and
`OperationsEnd` are liveness, which is out of the prover's reach.  The four
properties of the runs that expect a violation are false.

## 5. Findings

1. `two_tabs`: two connections of one wallet that join at the same time both
   pass the checks of `queue_join` (`src/state.rs:166-184`) before either is
   queued (`201`), and the wallet is matched against itself.
2. `rematch`: a match that got its room is never released; its players are
   told "this wallet already has an active match" (`src/ws.rs:256`) also after
   the room has finished.
3. `full_game_test`: the test's loop "Play until finished"
   (`tests/shellshock.ts:220`) plays one round, and no game can finish in one
   round (theorem `NoFirstRoundKill`).
4. `false_finish`: "Este servicio no firma transacciones ni decide resultados"
   (`README.md:3`), but the relay calls a room finished on the words "finished"
   or "winner" in the logs of any transaction that mentions it
   (`src/state.rs:645`, `src/solana.rs:68-70`), a failed one too: a
   `claim_reward` without the signature of its account `winner`
   (`lib.rs:429-430`) is enough, in the middle of a game.

## 6. Not modelled

* The order of messages within one connection's channel.  Two hazards are about
  it (`ws.rs:94`, `ws.rs:127`): the repository promises no order and no meaning
  of a late `match_expired` notice, so there is nothing to hold the code to.
* Routing, CORS, tracing, environment parsing (`main.rs`, `config.rs`), JSON
  and ping frames: they change nothing the rest reads.
* The events' data (`emit!`): it changes no account, and all that the relay
  looks for in it are words that may be there by chance (ObservedGame).
* The integration tests other than the full game: each calls one instruction
  and expects what a guard of Shellshock says.
* `API_DOCUMENTATION.md` describes a service that no source file implements;
  build, deployment and migration files hold no logic.
* The relay's growth: it never removes an observer, a room, a match or a session
  (`state.rs:378`), and no document bounds them.
* Liveness of a game: no instruction cancels a game nobody joins or whose
  players stop (`lib.rs:50`), and no document promises one.

## 7. Plan

Done in this order: Chamber, ChamberLoader, Shellshock, Escrow, the test, the
relay; the proofs of the on-chain part; the observer (RoomPhase, ObservedGame),
restarts, the lobby, the locks, and the proofs about observer and locks; the
proofs about the relay: its types, its rooms, its matchmaker, the refinement of
the lobby, and what its clients hear.  Every safety property that a run checks
and finds to hold is now a theorem.  What could still be added:

1. What of the matchmaker survives two tabs: `RaceIsDecided`,
   `RoomsKeepTheirPlayers` and `OneWaitsAtMost` need no hypothesis, and a
   weaker form of `WalletInOnePlace` may hold of wallets that wait.
2. The safety half of the decision of a match: every match that awaits its
   room has a timer that is running or about to be started.
