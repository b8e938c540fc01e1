------------------------------- MODULE MCRelay -------------------------------
(***************************************************************************)
(* Instances of the relay for TLC.                                         *)
(***************************************************************************)
EXTENDS RelayLobby

CONSTANTS ana, ben, cleo, a1, a2, b1, c1, cellar, hash1

\* One connection for every wallet.
OneEach == [c \in {a1, b1, c1} \cap Clients |->
              IF c = a1 THEN ana ELSE IF c = b1 THEN ben ELSE cleo]

\* ana has two connections: another tab, or the one after a reconnect.
AnaTwice == (a1 :> ana) @@ (a2 :> ana) @@ (b1 :> ben)

\* How many messages they send.
Once == [c \in Clients |-> 1]
Thrice == [c \in Clients |-> 3]
AnaThrice == [c \in Clients |-> IF c = a1 THEN 3 ELSE 1]
TwiceThenOnce == [c \in Clients |-> IF c = a2 THEN 1 ELSE 2]
BenTwice == [c \in Clients |-> IF c = b1 THEN 2 ELSE 1]

\* What they do, run by run.
Matching ==
  [c \in Clients |-> IF c = c1 THEN {"join"} ELSE {"join", "leave", "register"}]
JoinAndRegister == [c \in Clients |-> {"join", "register"}]
Joining == [c \in Clients |-> {"join"}]
Reconnecting ==
  [c \in Clients |-> IF c = a1 THEN {"join", "resume", "disconnect"}
                    ELSE IF c = a2 THEN {"resume", "register"}
                    ELSE {"join", "register"}]
Watching ==
  [c \in Clients |-> IF c = a1 THEN {"join", "subscribe", "resume_named"}
                    ELSE IF c = a2 THEN {"subscribe"}
                    ELSE {"join", "register"}]

=============================================================================
