---------------------------- MODULE ObservedGame ----------------------------
(***************************************************************************)
(* A game on the chain and the relay that watches it: the program of       *)
(* Shellshock, the RPC node that announces what happens to the room, the   *)
(* observer task of the relay with the connection it keeps making again,   *)
(* and the phase that the relay guesses from the announcements.            *)
(*                                                                         *)
(* The node announces the logs of every transaction that mentions the room *)
(* (failed ones and those of other programs too), and what the room's      *)
(* account has become.  Each kind comes in the order of the chain; between *)
(* the two kinds there is no order.                                        *)
(***************************************************************************)
EXTENDS Shellshock, RoomPhase, Sequences

CONSTANTS
  Room,     \* the address of the game the relay watches
  None,     \* Option::None
  Hashes,   \* the hashes of account contents that occur
  MaxLag    \* bound: announcements of either kind that are on their way

ASSUME ObservedGameAssumption ==
  /\ Room \in Keys
  /\ MaxLag \in Nat
  /\ None \notin RoomPhases \cup LogClasses

VARIABLES
  room,       \* the relay's entry for the room: phase and last_account_hash
  link,       \* where the observer task is with its connection
  feeds,      \* the subscriptions of this connection the node has accepted
  logs,       \* classes of logs that are on their way
  accounts,   \* hashes of account contents that are on their way
  word,       \* history: None until an instruction of the game is announced
              \* in logs, counted from where the entry was made or reset and
              \* the subscription accepted; then the class of the last logs
              \* that had one of the words, or "other" if none had
  ended       \* history: a game at the address has been finished

relayVars == <<room, link>>
feedVars == <<feeds, logs, accounts, word>>
observedVars == <<vars, relayVars, feedVars, ended>>

\* "none": there is no observer; "idle": it is about to connect; "half": it
\* has asked for account changes; "up": it has asked for logs, too, and
\* reads; "asleep": it waits before it tries again.
Links == {"none", "idle", "half", "up", "asleep"}

NoEntry == [phase |-> None, hash |-> None]

ObservedInit ==
  /\ Init
  /\ room = NoEntry
  /\ link = "none"
  /\ feeds = {}
  /\ logs = <<>>
  /\ accounts = <<>>
  /\ word = None
  /\ ended = FALSE

-----------------------------------------------------------------------------
(***************************************************************************)
(* The chain and the node.                                                 *)
(***************************************************************************)

\* The logs of a transaction that has the words of several classes count as
\* the first of these: what they count as if they have the words of `class`.
Covering(class) ==
  CASE class = "other" -> LogClasses
    [] class = "action" -> LogClasses \ {"other"}
    [] class = "vrf" -> {"finished", "round end", "vrf"}
    [] class = "round end" -> {"finished", "round end"}
    [] class = "finished" -> {"finished"}

\* The class that has the last say, logs without a word having none.
LastWord(class) == IF class = "other" THEN word ELSE class

\* An instruction is announced by the logs of its transaction, which is new
\* or the one announced last.  They have the instruction's name, and maybe
\* other words: of other instructions of the transaction, or by chance in
\* the base64 of an event.
Announce(class) ==
  \/ "logs" \notin feeds /\ UNCHANGED <<logs, word>>
  \/ /\ "logs" \in feeds
     /\ \E said \in Covering(class) :
          /\ \/ Len(logs) < MaxLag /\ logs' = Append(logs, said)
             \/ /\ logs # <<>>
                /\ said \in Covering(logs[Len(logs)])
                /\ logs' = [logs EXCEPT ![Len(logs)] = said]
          /\ word' = IF word = None THEN said ELSE LastWord(said)

\* The instructions whose names have none of the words.
Arrange(p) ==
  \/ p = Room[1] /\ CreateGame(p, Room[2])
  \/ JoinGame(Room, p)
  \/ \E load \in Loads : InitializeRound(Room, load)
  \/ ClaimReward(Room, p)

\* "Instruction: Shoot", "Instruction: Reload" and "Instruction: UseItem".
Move(p) ==
  \/ Shoot(Room, p)
  \/ Reload(Room, p)
  \/ \E item \in Items : UseItem(Room, p, item)

Execute(p) ==
  /\ \/ Arrange(p) /\ Announce("other")
     \/ Move(p) /\ Announce("action")
  /\ ended' = (ended \/ game'[Room].phase = "Finished")
  /\ UNCHANGED <<relayVars, feeds, accounts>>

\* Any other transaction that mentions the room: one that fails, with the
\* names of its instructions and of the requirement or the account it failed
\* on (a claim_reward without the winner's signature names the account
\* winner, whatever the phase), or one of another program.
Mention ==
  /\ "logs" \in feeds
  /\ Len(logs) < MaxLag
  /\ \E class \in LogClasses :
       /\ logs' = Append(logs, class)
       /\ word' = IF word = None THEN None ELSE LastWord(class)
  /\ UNCHANGED <<vars, relayVars, feeds, accounts, ended>>

\* The account's contents at the end of a slot that changed it: any number
\* of instructions, or a transfer of lamports, which anybody may make.
Change ==
  /\ "accounts" \in feeds
  /\ Len(accounts) < MaxLag
  /\ \E hash \in Hashes : accounts' = Append(accounts, hash)
  /\ UNCHANGED <<vars, relayVars, feeds, logs, word, ended>>

\* The node accepts a subscription it was asked for, sooner or later or
\* never: the relay does not look at its answers.
Accept ==
  /\ \E feed \in IF link = "up" THEN {"accounts", "logs"}
                ELSE IF link = "half" THEN {"accounts"} ELSE {} :
       /\ feed \notin feeds
       /\ feeds' = feeds \cup {feed}
  /\ UNCHANGED <<vars, relayVars, logs, accounts, word, ended>>

-----------------------------------------------------------------------------
(***************************************************************************)
(* The relay's entry for the room: made or reset by match.room_created,    *)
(* made by room.subscribe and session.resume, lost when the relay stops.   *)
(***************************************************************************)

\* spawn_observer_if_needed
Observed == link' = IF link = "none" THEN "idle" ELSE link

\* The creator publishes the room, at any time and as often as it likes.
Publish ==
  /\ room' = [room EXCEPT !.phase = "waiting_for_player"]
  /\ word' = None
  /\ Observed
  /\ UNCHANGED <<vars, feeds, logs, accounts, ended>>

\* A subscription or a resume that names the room.
Attach ==
  /\ room' = [room EXCEPT !.phase = IF @ = None THEN "waiting_for_player" ELSE @]
  /\ Observed
  /\ UNCHANGED <<vars, feedVars, ended>>

Disconnected ==
  /\ feeds' = {}
  /\ logs' = <<>>
  /\ accounts' = <<>>
  /\ word' = None

\* The relay stops at any time, and starts with empty maps and no tasks.
Restart ==
  /\ room' = NoEntry
  /\ link' = "none"
  /\ Disconnected
  /\ UNCHANGED <<vars, ended>>

-----------------------------------------------------------------------------
(***************************************************************************)
(* The observer task.                                                      *)
(***************************************************************************)

\* connect_async and the first subscription.
Connect ==
  /\ link = "idle"
  /\ link' = "half"
  /\ UNCHANGED <<vars, room, feedVars, ended>>

SubscribeLogs ==
  /\ link = "half"
  /\ link' = "up"
  /\ UNCHANGED <<vars, room, feedVars, ended>>

\* Mutant of Break: the task ends with the error.
BreakForGood ==
  /\ link \in {"idle", "half", "up"}
  /\ link' = "dead"
  /\ Disconnected
  /\ UNCHANGED <<vars, room, ended>>

\* Connecting, subscribing or reading fails: the task sleeps three seconds.
\* What was on its way is lost, and nobody asks for it again.
Break ==
  /\ link \in {"idle", "half", "up"}
  /\ link' = "asleep"
  /\ Disconnected
  /\ UNCHANGED <<vars, room, ended>>

\* A Close frame or the end of the stream is no error: it connects at once.
Close ==
  /\ link = "up"
  /\ link' = "idle"
  /\ Disconnected
  /\ UNCHANGED <<vars, room, ended>>

Wake ==
  /\ link = "asleep"
  /\ link' = "idle"
  /\ UNCHANGED <<vars, room, feedVars, ended>>

ReadLogs ==
  /\ link = "up"
  /\ logs # <<>>
  /\ room' = LogUpdated(room, Head(logs))
  /\ logs' = Tail(logs)
  /\ UNCHANGED <<vars, link, feeds, accounts, word, ended>>

ReadAccount ==
  /\ link = "up"
  /\ accounts # <<>>
  /\ room' = AccountUpdated(room, Head(accounts))
  /\ accounts' = Tail(accounts)
  /\ UNCHANGED <<vars, link, feeds, logs, word, ended>>

-----------------------------------------------------------------------------
ObservedNext ==
  \/ \E p \in Players : Execute(p)
  \/ Mention \/ Change \/ Accept
  \/ Publish \/ Attach \/ Restart
  \/ Connect \/ SubscribeLogs \/ Break \/ Close \/ Wake
  \/ ReadLogs \/ ReadAccount

\* The task goes on whenever it can, and a node that is connected to again
\* and again takes the connection at last; it need not accept or announce
\* anything, and nobody has to play.
ObserverFairness ==
  /\ WF_observedVars(Wake)
  /\ SF_observedVars(Connect)
  /\ SF_observedVars(SubscribeLogs)
  /\ WF_observedVars(ReadLogs)
  /\ WF_observedVars(ReadAccount)

ObservedSpec == ObservedInit /\ [][ObservedNext]_observedVars /\ ObserverFairness

-----------------------------------------------------------------------------
(***************************************************************************)
(* Properties.                                                             *)
(***************************************************************************)

\* Whatever was missed before (a lost connection, a subscription accepted
\* late, a restart, an entry that was reset), one instruction of the game in
\* the logs brings the relay to where the game is, as far as it can tell: a
\* room is shown as waiting for a player only while the game is, and a game
\* in the middle of a round is shown as being played, unless the last logs
\* with one of the words had another one.  Changes of the account, which
\* come in between, undo none of this.
CaughtUp ==
  logs = <<>> /\ word # None =>
    /\ game[Room].phase # "WaitingForPlayer" => room.phase # "waiting_for_player"
    /\ game[Room].phase = "Playing" /\ game[Room].actions_this_round > 0 =>
         room.phase = "playing" \/ word \in {"finished", "round end", "vrf"}

\* "Este servicio no firma transacciones ni decide resultados" (README.md:3):
\* the relay does not call a game finished that is being played, when no
\* game at the address has ended.  It does: all it goes by is the words
\* "finished" and "winner" in any logs that mention the room.
DecidesNoResult ==
  game[Room].phase = "Playing" /\ ~ended => room.phase # "finished"

\* "Si se cae el websocket RPC, el observer reintenta en bucle" and "las
\* rooms on-chain se pueden reanexar con session.resume" (README.md:45-46):
\* a room with an entry comes to be observed, after every loss of the
\* connection and after every restart, unless the relay stops again.  The
\* observer has then asked for both feeds, and reads.
ObserverComesBack ==
  room.phase # None ~> (link = "up" \/ room.phase = None)

=============================================================================
