------------------------- MODULE ObservedGameProofs -------------------------
(***************************************************************************)
(* Proofs about ObservedGame, for any lag, players, funds and round limit, *)
(* and for whatever the node announces, merges, delays or never accepts.   *)
(***************************************************************************)
EXTENDS ObservedGame, ShellshockProofs, SequenceTheorems

-----------------------------------------------------------------------------
(***************************************************************************)
(* The inductive invariant.                                                *)
(***************************************************************************)

Decent ==
  /\ room = [phase |-> room.phase, hash |-> room.hash]
  /\ room.phase \in RoomPhases \cup {None}
  /\ link \in Links
  /\ link # "none" => room.phase # None
  /\ "logs" \in feeds => link = "up"
  /\ logs \in Seq(LogClasses)
  /\ word \in LogClasses \cup {None}
  /\ word # None => "logs" \in feeds

\* A round that has had an action had it as its last instruction, and if
\* that was announced its logs had a word.
WordGiven ==
  /\ game[Room].phase = "Playing"
  /\ game[Room].actions_this_round > 0
  /\ word # None
  => word # "other"

\* Behind the i-th logs on their way there is nothing but actions.
Quiet(i) == \A j \in DOMAIN logs : j > i => logs[j] \in {"action", "other"}

\* What is on its way makes up for what the phase lacks.
Underway ==
  /\ word # None => room.phase # "waiting_for_player" \/ logs # <<>>
  /\ word = "action" =>
       \/ room.phase = "playing" /\ Quiet(0)
       \/ \E i \in DOMAIN logs : logs[i] = "action" /\ Quiet(i)

OInv == IInv /\ Decent /\ WordGiven /\ Underway

-----------------------------------------------------------------------------
(***************************************************************************)
(* The logs on their way.                                                  *)
(***************************************************************************)

\* New logs, or new words in the last ones: the last ones are now of the
\* class `said`, the others are what they were.
Extends(s, t, m, said) ==
  /\ m \in DOMAIN t
  /\ t[m] = said
  /\ \A j \in DOMAIN t : j <= m /\ (j # m => j \in DOMAIN s /\ t[j] = s[j])
  /\ \A j \in DOMAIN s : j \in DOMAIN t

LEMMA Appended ==
  ASSUME NEW S, NEW s \in Seq(S), NEW said \in S, NEW t, t = Append(s, said)
  PROVE  /\ t \in Seq(S) /\ t # <<>>
         /\ Len(s) + 1 \notin DOMAIN s
         /\ Extends(s, t, Len(s) + 1, said)
<1>1. Len(s) \in Nat /\ DOMAIN s = 1..Len(s)
  OBVIOUS
<1>2. /\ t \in Seq(S) /\ Len(t) = Len(s) + 1 /\ DOMAIN t = 1..(Len(s) + 1)
      /\ t[Len(s) + 1] = said
      /\ \A j \in 1..Len(s) : t[j] = s[j]
  BY AppendProperties
<1>3. t # <<>>
  BY <1>1, <1>2
<1>4. Extends(s, t, Len(s) + 1, said)
  BY <1>1, <1>2 DEF Extends
<1> QED BY <1>1, <1>2, <1>3, <1>4

LEMMA Reworded ==
  ASSUME NEW S, NEW s \in Seq(S), NEW said \in S, s # <<>>,
         NEW t, t = [s EXCEPT ![Len(s)] = said]
  PROVE  /\ t \in Seq(S) /\ t # <<>>
         /\ Len(s) \in DOMAIN s
         /\ Extends(s, t, Len(s), said)
<1>1. Len(s) \in Nat /\ DOMAIN s = 1..Len(s) /\ Len(s) # 0
  BY EmptySeq
<1>2. Len(s) \in 1..Len(s)
  BY <1>1
<1>3. t \in Seq(S) /\ Len(t) = Len(s)
  BY <1>2, ExceptSeq
<1>4. /\ DOMAIN t = 1..Len(s)
      /\ t[Len(s)] = said
      /\ \A j \in 1..Len(s) : j # Len(s) => t[j] = s[j]
  BY <1>1, <1>2
<1>5. t # <<>>
  BY <1>1, <1>3
<1>6. Extends(s, t, Len(s), said)
  <2>1. PICK n \in Nat : n = Len(s)
    BY <1>1
  <2>2. /\ n \in 1..n /\ DOMAIN s = 1..n /\ DOMAIN t = 1..n /\ t[n] = said
        /\ \A j \in 1..n : j # n => t[j] = s[j]
    BY <1>1, <1>2, <1>4, <2>1
  <2>3. \A j \in 1..n : j <= n
    BY <2>1
  <2>4. Extends(s, t, n, said)
    BY <2>2, <2>3, Zenon DEF Extends
  <2> QED BY <2>1, <2>4
<1> QED BY <1>1, <1>2, <1>3, <1>5, <1>6

\* Logs without a word change nothing, logs of an action settle the matter.
LEMMA LogsAreUnderway ==
  ASSUME OInv, NEW said \in LogClasses, room' = room,
         \/ logs' = Append(logs, said)
         \/ /\ logs # <<>>
            /\ said \in Covering(logs[Len(logs)])
            /\ logs' = [logs EXCEPT ![Len(logs)] = said],
         said = "other" => (word' = "action" => word = "action"),
         said # "other" => word' \in {None, said}
  PROVE  Underway'
<1>1. logs \in Seq(LogClasses)
  BY DEF OInv, Decent
<1>2. PICK m \in Int :
        /\ logs' \in Seq(LogClasses) /\ logs' # <<>>
        /\ Extends(logs, logs', m, said)
        /\ m \in DOMAIN logs => said \in Covering(logs[m])
  <2>1. CASE logs' = Append(logs, said)
    <3>1. Len(logs) + 1 \in Int
      BY <1>1
    <3> QED BY <1>1, <2>1, <3>1, Appended
  <2>2. CASE /\ logs # <<>>
             /\ said \in Covering(logs[Len(logs)])
             /\ logs' = [logs EXCEPT ![Len(logs)] = said]
    <3>1. Len(logs) \in Int
      BY <1>1
    <3> QED BY <1>1, <2>2, <3>1, Reworded
  <2> QED BY <2>1, <2>2
<1>3. /\ m \in DOMAIN logs' /\ logs'[m] = said
      /\ \A j \in DOMAIN logs' : j <= m /\ (j # m => j \in DOMAIN logs /\ logs'[j] = logs[j])
      /\ \A j \in DOMAIN logs : j \in DOMAIN logs'
      /\ DOMAIN logs' \subseteq Int
  <2>1. DOMAIN logs' \subseteq Int
    BY <1>2
  <2> QED BY <1>2, <2>1 DEF Extends
<1>4. CASE said = "action"
  <2>1. Quiet(m)'
    <3> SUFFICES ASSUME NEW j \in DOMAIN logs', j > m PROVE FALSE
      BY DEF Quiet
    <3> QED BY <1>3
  <2> QED BY <1>2, <1>3, <1>4, <2>1 DEF Underway
<1>5. CASE said \notin {"action", "other"}
  <2>1. word' # "action"
    BY <1>5, ObservedGameAssumption DEF LogClasses
  <2> QED BY <1>2, <2>1 DEF Underway
<1>6. CASE said = "other"
  <2> SUFFICES ASSUME word = "action"
               PROVE  \/ room.phase = "playing" /\ Quiet(0)'
                      \/ \E i \in DOMAIN logs' : logs'[i] = "action" /\ Quiet(i)'
    BY <1>2, <1>6 DEF Underway
  <2>1. \A i : Quiet(i) => Quiet(i)'
    BY <1>3, <1>6 DEF Quiet
  <2>2. ASSUME NEW i \in DOMAIN logs, logs[i] = "action"
        PROVE  i \in DOMAIN logs' /\ logs'[i] = "action"
    <3>1. i # m
      BY <1>2, <1>6, <2>2 DEF Covering, LogClasses
    <3> QED BY <1>3, <2>2, <3>1
  <2>3. CASE room.phase = "playing" /\ Quiet(0)
    BY <2>1, <2>3
  <2>4. CASE \E i \in DOMAIN logs : logs[i] = "action" /\ Quiet(i)
    BY <2>1, <2>2, <2>4
  <2> QED BY <2>3, <2>4 DEF OInv, Underway
<1> QED BY <1>4, <1>5, <1>6

-----------------------------------------------------------------------------
(***************************************************************************)
(* The chain and the node.                                                 *)
(***************************************************************************)

\* Every instruction is one of the program's.  Only a move leaves a round
\* played with an action behind it.
LEMMA InstructionsAreSteps ==
  ASSUME IInv, NEW p \in Players, Arrange(p) \/ Move(p)
  PROVE  /\ IInv'
         /\ Arrange(p) => ~( /\ game'[Room].phase = "Playing"
                             /\ game'[Room].actions_this_round > 0)
<1>1. /\ Room \in Keys /\ game \in [Keys -> Games]
      /\ Room[1] \in Players /\ Room = <<Room[1], Room[2]>>
  BY ObservedGameAssumption, ShellshockAssumption DEF IInv, TypeOK
<1>2. IInv'
  BY <1>1, NextIsSound DEF Arrange, Move, Next
<1>3. ASSUME Arrange(p)
      PROVE  game'[Room].phase # "Playing" \/ game'[Room].actions_this_round = 0
  <2>1. CASE p = Room[1] /\ CreateGame(p, Room[2])
    BY <1>1, <2>1 DEF CreateGame, NewGame, NoGame
  <2>2. CASE JoinGame(Room, p)
    BY <1>1, <2>2 DEF JoinGame, Games
  <2>3. ASSUME NEW load \in Loads, InitializeRound(Room, load)
        PROVE  game'[Room].actions_this_round = 0
    BY <1>1, <2>3 DEF InitializeRound, RoundBegun, Games
  <2>4. CASE ClaimReward(Room, p)
    BY <1>1, <2>4 DEF ClaimReward, NoGame
  <2> QED BY <1>3, <2>1, <2>2, <2>3, <2>4 DEF Arrange
<1> QED BY <1>2, <1>3

\* What keeps everything but the logs on their way.
LEMMA LogsKeepDecent ==
  ASSUME OInv, UNCHANGED <<room, link, feeds>>, "logs" \in feeds,
         logs' \in Seq(LogClasses), word' \in LogClasses \cup {None}
  PROVE  Decent'
BY DEF OInv, Decent

LEMMA LogsStaySeq ==
  ASSUME OInv, NEW said \in LogClasses,
         \/ logs' = Append(logs, said)
         \/ /\ logs # <<>>
            /\ said \in Covering(logs[Len(logs)])
            /\ logs' = [logs EXCEPT ![Len(logs)] = said]
  PROVE  logs' \in Seq(LogClasses)
<1>1. logs \in Seq(LogClasses)
  BY DEF OInv, Decent
<1> QED BY <1>1, Appended, Reworded

LEMMA ExecuteIsSound ==
  ASSUME OInv, NEW p \in Players, Execute(p)
  PROVE  OInv'
<1>1. PICK class \in {"action", "other"} :
        /\ Announce(class)
        /\ class = "other" => Arrange(p)
  BY DEF Execute
<1>2. /\ UNCHANGED <<room, link, feeds, accounts>>
      /\ Arrange(p) \/ Move(p)
  BY DEF Execute, relayVars
<1>3. /\ IInv'
      /\ Arrange(p) => ~( /\ game'[Room].phase = "Playing"
                          /\ game'[Room].actions_this_round > 0)
  BY <1>2, InstructionsAreSteps DEF OInv
<1>4. CASE "logs" \notin feeds
  <2>1. UNCHANGED <<logs, word>>
    BY <1>1, <1>4 DEF Announce
  <2>2. word = None
    BY <1>4 DEF OInv, Decent
  <2>3. Decent'
    BY <1>2, <2>1 DEF OInv, Decent
  <2>4. WordGiven' /\ Underway'
    BY <2>1, <2>2, ObservedGameAssumption DEF WordGiven, Underway, LogClasses
  <2> QED BY <1>3, <2>3, <2>4 DEF OInv
<1>5. CASE "logs" \in feeds
  <2>1. PICK said \in Covering(class) :
          /\ \/ logs' = Append(logs, said)
             \/ /\ logs # <<>>
                /\ said \in Covering(logs[Len(logs)])
                /\ logs' = [logs EXCEPT ![Len(logs)] = said]
          /\ word' = IF word = None THEN said ELSE LastWord(said)
    BY <1>1, <1>5 DEF Announce
  <2>2. said \in LogClasses /\ (class = "action" => said # "other")
    BY <1>1, <2>1 DEF Covering, LogClasses
  <2>3. /\ said # "other" => word' = said
        /\ said = "other" => word' \in {word, said}
        /\ word \in LogClasses \cup {None}
    BY <2>1 DEF LastWord, OInv, Decent
  <2>4. logs' \in Seq(LogClasses)
    BY <2>1, <2>2, LogsStaySeq
  <2>5. Decent'
    BY <1>2, <1>5, <2>2, <2>3, <2>4, LogsKeepDecent
  <2>6. Underway'
    BY <1>2, <2>1, <2>2, <2>3, LogsAreUnderway
  <2>7. WordGiven'
    BY <1>1, <1>3, <2>2, <2>3 DEF WordGiven
  <2> QED BY <1>3, <2>5, <2>6, <2>7 DEF OInv
<1> QED BY <1>4, <1>5

LEMMA NodeIsSound ==
  ASSUME OInv, Mention \/ Change \/ Accept
  PROVE  OInv'
<1>1. UNCHANGED <<vars, room, link>>
  BY DEF Mention, Change, Accept, relayVars
<1>2. IInv'
  BY <1>1 DEF OInv, vars, IInv, TypeOK, PotMatchesPhase
<1>3. CASE Mention
  <2>1. PICK class \in LogClasses :
          /\ logs' = Append(logs, class)
          /\ word' = IF word = None THEN None ELSE LastWord(class)
    BY <1>3 DEF Mention
  <2>2. "logs" \in feeds /\ feeds' = feeds
    BY <1>3 DEF Mention
  <2>3. /\ word \in LogClasses \cup {None}
        /\ word' \in LogClasses \cup {None}
        /\ class # "other" => word' \in {None, class}
        /\ class = "other" => word' = word
        /\ word' = "other" => word = "other" \/ word = None
        /\ word = None => word' = None
    BY <2>1 DEF LastWord, OInv, Decent
  <2>4. logs' \in Seq(LogClasses)
    BY <2>1, LogsStaySeq
  <2>5. Decent'
    BY <1>1, <2>2, <2>3, <2>4, LogsKeepDecent
  <2>6. Underway'
    BY <1>1, <2>1, <2>3, LogsAreUnderway
  <2>7. WordGiven'
    BY <1>1, <2>3 DEF OInv, WordGiven, vars
  <2> QED BY <1>2, <2>5, <2>6, <2>7 DEF OInv
<1>4. CASE Change \/ Accept
  <2>1. UNCHANGED <<logs, word>>
    BY <1>4 DEF Change, Accept
  <2>2. feeds' = feeds \/ \E feed : feed \in {"accounts", "logs"} /\ feeds' = feeds \cup {feed}
                             /\ (feed = "logs" => link = "up")
    BY <1>4 DEF Change, Accept
  <2>3. Decent'
    BY <1>1, <2>1, <2>2 DEF OInv, Decent
  <2>4. WordGiven' /\ Underway'
    BY <1>1, <2>1 DEF OInv, WordGiven, Underway, Quiet, vars
  <2> QED BY <1>2, <2>3, <2>4 DEF OInv
<1> QED BY <1>3, <1>4

-----------------------------------------------------------------------------
(***************************************************************************)
(* The relay.                                                              *)
(***************************************************************************)

\* Where no instruction has been announced, nothing is promised.
LEMMA NothingUnderway ==
  ASSUME OInv, UNCHANGED vars, Decent', word' = None
  PROVE  OInv'
BY ObservedGameAssumption
   DEF OInv, WordGiven, Underway, vars, IInv, TypeOK, PotMatchesPhase, LogClasses

LEMMA EntriesAreSound ==
  ASSUME OInv, Publish \/ Attach \/ Restart
  PROVE  OInv'
<1>1. CASE Publish
  <2>1. UNCHANGED <<vars, feeds, logs>> /\ word' = None
    BY <1>1 DEF Publish
  <2>2. Decent'
    BY <1>1, <2>1, ObservedGameAssumption
    DEF Publish, Observed, OInv, Decent, Links, RoomPhases
  <2> QED BY <2>1, <2>2, NothingUnderway
<1>2. CASE Restart
  <2>1. UNCHANGED vars /\ word' = None
    BY <1>2 DEF Restart, Disconnected
  <2>2. logs' \in Seq(LogClasses)
    BY <1>2 DEF Restart, Disconnected
  <2>3. room' = NoEntry /\ link' = "none" /\ feeds' = {}
    BY <1>2 DEF Restart, Disconnected
  <2>4. Decent'
    BY <2>1, <2>2, <2>3 DEF Decent, NoEntry, Links
  <2> QED BY <2>1, <2>4, NothingUnderway
<1>3. CASE Attach
  <2>1. UNCHANGED <<vars, feeds, logs, word>>
    BY <1>3 DEF Attach, feedVars
  <2>2. Decent'
    BY <1>3, <2>1, ObservedGameAssumption
    DEF Attach, Observed, OInv, Decent, Links, RoomPhases
  <2>3. CASE room.phase = None
    <3>1. word' = None
      BY <2>1, <2>3 DEF OInv, Decent
    <3> QED BY <2>1, <2>2, <3>1, NothingUnderway
  <2>4. CASE room.phase # None
    <3>1. room' = room
      BY <1>3, <2>4 DEF Attach, OInv, Decent
    <3> QED BY <2>1, <2>2, <3>1
        DEF OInv, WordGiven, Underway, Quiet, vars, IInv, TypeOK, PotMatchesPhase
  <2> QED BY <2>3, <2>4
<1> QED BY <1>1, <1>2, <1>3

LEMMA LinkIsSound ==
  ASSUME OInv, Connect \/ SubscribeLogs \/ Break \/ Close \/ Wake
  PROVE  OInv'
<1>1. UNCHANGED <<vars, room>> /\ link # "none" /\ link' \in Links
  BY DEF Connect, SubscribeLogs, Break, Close, Wake, Links
<1>2. \/ /\ UNCHANGED <<feeds, logs, word>>
         /\ link # "up"
      \/ feeds' = {} /\ logs' = <<>> /\ word' = None
  BY DEF Connect, SubscribeLogs, Break, Close, Wake, Disconnected, feedVars
<1>3. word' = None /\ "logs" \notin feeds'
  BY <1>2 DEF OInv, Decent
<1>4. logs' \in Seq(LogClasses)
  BY <1>2, EmptySeq, Zenon DEF OInv, Decent
<1>5. Decent'
  BY <1>1, <1>3, <1>4 DEF OInv, Decent
<1> QED BY <1>1, <1>3, <1>5, NothingUnderway

\* Any logs take a room out of waiting_for_player, and those of an action
\* make it playing.
LEMMA ReadLogsIsSound ==
  ASSUME OInv, ReadLogs
  PROVE  OInv'
<1> DEFINE class == Head(logs)
<1>1. /\ class \in LogClasses /\ logs' \in Seq(LogClasses)
      /\ class = logs[1] /\ 1 \in DOMAIN logs
      /\ \A i \in DOMAIN logs' : i \in Int /\ i + 1 \in DOMAIN logs /\ logs'[i] = logs[i + 1]
      /\ \A i \in DOMAIN logs : i \in Int /\ (i # 1 => i - 1 \in DOMAIN logs')
  BY HeadTailProperties DEF ReadLogs, OInv, Decent
<1>2. UNCHANGED <<vars, link, feeds, word>> /\ link = "up"
  BY DEF ReadLogs
<1>3. /\ room' = [phase |-> InferredPhase(room.phase, class), hash |-> room.hash]
      /\ room.phase \in RoomPhases
  BY <1>2 DEF ReadLogs, LogUpdated, OInv, Decent
<1>4. InferredPhase(room.phase, class) =
        CASE class = "finished" -> "finished"
          [] class = "round end" -> "round_end"
          [] class = "vrf" -> "waiting_for_vrf"
          [] class = "action" -> "playing"
          [] class = "other" -> IF room.phase = "waiting_for_player"
                                  THEN "waiting_for_vrf" ELSE room.phase
  BY <1>1 DEF InferredPhase, LogClasses
<1>5. /\ room'.phase \in RoomPhases
      /\ room'.phase # "waiting_for_player"
      /\ class = "action" => room'.phase = "playing"
      /\ class = "other" /\ room.phase = "playing" => room'.phase = "playing"
  BY <1>1, <1>3, <1>4 DEF RoomPhases, LogClasses
<1>6. Decent'
  BY <1>1, <1>2, <1>3, <1>5, ObservedGameAssumption DEF OInv, Decent
<1>7. WordGiven' /\ IInv'
  BY <1>2 DEF OInv, WordGiven, vars, IInv, TypeOK, PotMatchesPhase
<1>8. Underway'
  <2> SUFFICES ASSUME word = "action"
               PROVE  \/ room'.phase = "playing" /\ Quiet(0)'
                      \/ \E i \in DOMAIN logs' : logs'[i] = "action" /\ Quiet(i)'
    BY <1>2, <1>5 DEF Underway
  <2>1. ASSUME NEW i \in Int, Quiet(i) PROVE Quiet(i - 1)'
    BY <1>1, <2>1 DEF Quiet
  <2>2. CASE room.phase = "playing" /\ Quiet(0)
    <3>1. class \in {"action", "other"}
      BY <1>1, <2>2 DEF Quiet
    <3>2. Quiet(0)'
      BY <1>1, <2>2 DEF Quiet
    <3> QED BY <1>5, <2>2, <3>1, <3>2
  <2>3. ASSUME NEW i \in DOMAIN logs, logs[i] = "action", Quiet(i), i = 1
        PROVE  room'.phase = "playing" /\ Quiet(0)'
    BY <1>1, <1>5, <2>1, <2>3
  <2>4. ASSUME NEW i \in DOMAIN logs, logs[i] = "action", Quiet(i), i # 1
        PROVE  \E j \in DOMAIN logs' : logs'[j] = "action" /\ Quiet(j)'
    <3>1. i \in Int /\ i - 1 \in DOMAIN logs' /\ (i - 1) + 1 = i
      BY <1>1, <2>4
    <3>2. logs'[i - 1] = "action"
      BY <1>1, <2>4, <3>1
    <3>3. Quiet(i - 1)'
      BY <2>1, <2>4, <3>1
    <3> QED BY <3>1, <3>2, <3>3
  <2> QED BY <2>2, <2>3, <2>4 DEF OInv, Underway
<1> QED BY <1>6, <1>7, <1>8 DEF OInv

\* A changed account moves no room back, and none that is being played.
LEMMA ReadAccountIsSound ==
  ASSUME OInv, ReadAccount
  PROVE  OInv'
<1>1. UNCHANGED <<vars, link, feeds, logs, word>> /\ link = "up"
  BY DEF ReadAccount
<1>2. room.phase \in RoomPhases /\ room = [phase |-> room.phase, hash |-> room.hash]
  BY <1>1 DEF OInv, Decent
<1>3. PICK hash : room' = AccountUpdated(room, hash)
  BY DEF ReadAccount
<1>4. \/ room' = room
      \/ room' = [phase |-> PromotedPhase(room.phase), hash |-> hash]
  <2>1. CASE room.hash = hash
    BY <1>3, <2>1 DEF AccountUpdated
  <2>2. CASE room.hash # hash
    <3>1. room' = [room EXCEPT !.phase = PromotedPhase(@), !.hash = hash]
      BY <1>3, <2>2 DEF AccountUpdated
    <3> QED BY <1>2, <3>1
  <2> QED BY <2>1, <2>2
<1>5. /\ room' = [phase |-> room'.phase, hash |-> room'.hash]
      /\ room'.phase \in RoomPhases
      /\ room.phase # "waiting_for_player" => room'.phase # "waiting_for_player"
      /\ room.phase = "playing" => room'.phase = "playing"
  BY <1>2, <1>4 DEF PromotedPhase, RoomPhases
<1>6. Decent'
  BY <1>1, <1>5, ObservedGameAssumption DEF OInv, Decent
<1>7. WordGiven' /\ Underway' /\ IInv'
  BY <1>1, <1>5
  DEF OInv, WordGiven, Underway, Quiet, vars, IInv, TypeOK, PotMatchesPhase
<1> QED BY <1>6, <1>7 DEF OInv

-----------------------------------------------------------------------------
(***************************************************************************)
(* The results.                                                            *)
(***************************************************************************)

LEMMA ObservedInitIsSound == ObservedInit => OInv
<1> SUFFICES ASSUME ObservedInit PROVE OInv
  OBVIOUS
<1>1. /\ room = NoEntry /\ link = "none" /\ feeds = {} /\ logs = <<>> /\ word = None
  BY DEF ObservedInit
<1>2. IInv
  BY InitIsSound DEF ObservedInit
<1>3. logs \in Seq(LogClasses)
  BY <1>1, EmptySeq, Zenon
<1>4. Decent
  BY <1>1, <1>3 DEF Decent, NoEntry, Links
<1>5. WordGiven /\ Underway
  BY <1>1, ObservedGameAssumption DEF WordGiven, Underway, LogClasses
<1> QED BY <1>2, <1>4, <1>5 DEF OInv

LEMMA ObservedNextIsSound == OInv /\ [ObservedNext]_observedVars => OInv'
<1> SUFFICES ASSUME OInv, [ObservedNext]_observedVars PROVE OInv'
  OBVIOUS
<1>1. CASE UNCHANGED observedVars
  BY <1>1 DEF observedVars, vars, relayVars, feedVars, OInv, Decent, WordGiven,
              Underway, Quiet, IInv, TypeOK, PotMatchesPhase
<1>2. CASE ObservedNext
  BY <1>2, ExecuteIsSound, NodeIsSound, EntriesAreSound, LinkIsSound, ReadLogsIsSound,
     ReadAccountIsSound DEF ObservedNext
<1> QED BY <1>1, <1>2

\* The invariant holds throughout, whatever the observer loses.
THEOREM ObservedInvariance == ObservedSpec => []OInv
BY ObservedInitIsSound, ObservedNextIsSound, PTL DEF ObservedSpec

\* One instruction in the logs brings the relay's phase to where the game
\* is, as far as CaughtUp says, however much was lost before it, however
\* many announcements are under way at a time and whatever they say.
THEOREM PhasesCatchUp == ObservedSpec => []CaughtUp
<1>1. OInv => CaughtUp
  <2> SUFFICES ASSUME OInv, logs = <<>>, word # None
               PROVE  /\ room.phase # "waiting_for_player"
                      /\ game[Room].phase = "Playing" /\ game[Room].actions_this_round > 0 =>
                           room.phase = "playing" \/ word \in {"finished", "round end", "vrf"}
    BY DEF CaughtUp
  <2>1. room.phase # "waiting_for_player"
    BY DEF OInv, Underway
  <2>2. DOMAIN logs = {}
    OBVIOUS
  <2>3. word = "action" => room.phase = "playing"
    BY <2>2 DEF OInv, Underway
  <2>4. word \in LogClasses
    BY DEF OInv, Decent
  <2> QED BY <2>1, <2>3, <2>4 DEF OInv, WordGiven, LogClasses
<1> QED BY <1>1, ObservedInvariance, PTL

=============================================================================
