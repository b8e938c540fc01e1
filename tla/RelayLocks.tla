----------------------------- MODULE RelayLocks -----------------------------
(***************************************************************************)
(* The locks of RuntimeState, one step per lock, for any number of tasks.  *)
(*                                                                         *)
(* An operation is a sequence of sections; a section is the sequence of    *)
(* locks that the code takes one after the other, each while it keeps the  *)
(* ones before, and then gives back.  What the sections do with the maps   *)
(* is the matter of the other modules, where a section is one action.      *)
(***************************************************************************)
EXTENDS Naturals, Sequences

CONSTANT Tasks

VARIABLES
  todo,   \* the sections each task still has to go through
  held    \* how many locks of its current section the task has

lockVars == <<todo, held>>

-----------------------------------------------------------------------------
(***************************************************************************)
(* The operations.  Several sends in a row are written once: they go       *)
(* through the same sections again.                                        *)
(***************************************************************************)

Sending == << <<"clients">> >>
SendingToWallet == << <<"bindings">>, <<"clients">> >>
Broadcasting == << <<"rooms">>, <<"bindings">>, <<"clients">> >>

Registering == << <<"clients">> >>

Closing == << <<"clients">>, <<"rooms">> >>

Joining ==
  << <<"bindings">>, <<"queue">>, <<"matches">>, <<"queue", "matches", "sessions">> >>
    \o Sending \o SendingToWallet

\* Mutant of Leaving: the session is looked up first.
LeavingSessionFirst == << <<"sessions", "queue">> >> \o Sending

Leaving == << <<"queue", "sessions">> >> \o Sending

\* Mutant of Publishing: the sessions are locked first.
PublishingSessionsFirst ==
  << <<"sessions", "matches", "rooms">> >>
    \o SendingToWallet \o << <<"observers">>, <<"rooms">> >> \o Broadcasting

Publishing ==
  << <<"matches", "rooms", "sessions">> >>
    \o SendingToWallet \o << <<"observers">>, <<"rooms">> >> \o Broadcasting

Subscribing == << <<"rooms">>, <<"observers">> >> \o Sending

Resuming ==
  << <<"bindings">>, <<"sessions">>, <<"queue">>, <<"matches">>, <<"rooms">>,
     <<"observers">> >> \o Sending

Expiring == << <<"matches">> >> \o SendingToWallet

Updating == << <<"rooms">> >> \o Broadcasting

\* GET /readyz
Reporting == << <<"rooms">>, <<"queue">>, <<"matches">> >>

Operations ==
  {Registering, Closing, Joining, Leaving, Publishing, Subscribing, Resuming,
   Expiring, Updating, Reporting}

-----------------------------------------------------------------------------
Busy(t) == todo[t] # <<>>

Holding(t) == IF Busy(t) THEN {Head(todo[t])[i] : i \in 1..held[t]} ELSE {}

\* The task has all the locks of its section, or the next one is free.
HasAll(t) == held[t] = Len(Head(todo[t]))

NextIsFree(t) ==
  /\ held[t] < Len(Head(todo[t]))
  /\ \A u \in Tasks : Head(todo[t])[held[t] + 1] \notin Holding(u)

Begin(t) ==
  /\ ~Busy(t)
  /\ \E operation \in Operations : todo' = [todo EXCEPT ![t] = operation]
  /\ UNCHANGED held

\* lock().await, read().await and write().await; a read lock counts as
\* taken for itself, which can only keep others waiting longer.
Take(t) ==
  /\ Busy(t)
  /\ NextIsFree(t)
  /\ held' = [held EXCEPT ![t] = @ + 1]
  /\ UNCHANGED todo

\* The guards go out of scope.
Release(t) ==
  /\ Busy(t)
  /\ HasAll(t)
  /\ todo' = [todo EXCEPT ![t] = Tail(@)]
  /\ held' = [held EXCEPT ![t] = 0]

\* A branch without the section: an early return, a wallet without a
\* connection, a resume without a ticket.
Skip(t) ==
  /\ Busy(t)
  /\ held[t] = 0
  /\ todo' = [todo EXCEPT ![t] = Tail(@)]
  /\ UNCHANGED held

LocksInit ==
  /\ todo = [t \in Tasks |-> <<>>]
  /\ held = [t \in Tasks |-> 0]

LocksNext == \E t \in Tasks : Begin(t) \/ Take(t) \/ Release(t) \/ Skip(t)

\* A runnable task is polled, and tokio's locks serve who waits in turn.
LocksSpec ==
  /\ LocksInit /\ [][LocksNext]_lockVars
  /\ \A t \in Tasks : SF_lockVars(Take(t) \/ Release(t))

-----------------------------------------------------------------------------
(***************************************************************************)
(* Properties.                                                             *)
(***************************************************************************)

\* Whatever the tasks hold and wait for, one of them can go on, so the relay
\* never stands still: handlers that lock several maps (queue, matches and
\* sessions in queue_join; queue and sessions in queue_leave; matches, rooms
\* and sessions in register_room_creation) agree on one order.
SomebodyGoesOn ==
  (\E t \in Tasks : Busy(t)) =>
    \E t \in Tasks : Busy(t) /\ (HasAll(t) \/ NextIsFree(t))

\* Every operation comes to its end, whatever the others do.
OperationsEnd == \A t \in Tasks : Busy(t) ~> ~Busy(t)

=============================================================================
