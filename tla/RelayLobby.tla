----------------------------- MODULE RelayLobby -----------------------------
(***************************************************************************)
(* The relay implements the lobby.                                         *)
(***************************************************************************)
EXTENDS Relay

\* The refinement mapping forgets tickets and rooms.
WalletsIn(q) == {q[i].wallet : i \in DOMAIN q}

Waiting == [b \in Bets |-> WalletsIn(queue[b])]

PairOf(match) ==
  [creator |-> match.creator, joiner |-> match.joiner,
   bet |-> match.bet, state |-> match.state]

Pairs == [m \in DOMAIN matches |-> PairOf(matches[m])]

L == INSTANCE Lobby WITH waiting <- Waiting, pairs <- Pairs

\* Though queue.join looks at the queue, at the matches and at the queue
\* again under locks it gives back in between, it takes effect at once: what
\* the two checks found of the wallet still holds when it is queued or
\* paired, as long as a wallet has one connection (finding two_tabs shows
\* the other case).  Every other request and the timer take effect at once,
\* too, and none of them undoes another.
ImplementsLobby == L!LobbySpec

=============================================================================
