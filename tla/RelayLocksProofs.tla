-------------------------- MODULE RelayLocksProofs --------------------------
(***************************************************************************)
(* Proofs about RelayLocks, for any set of tasks.                          *)
(***************************************************************************)
EXTENDS RelayLocks, SequenceTheorems, TLAPS

\* The sections that occur in the operations.
Sections ==
  { <<"clients">>, <<"bindings">>, <<"queue">>, <<"matches">>, <<"rooms">>,
    <<"sessions">>, <<"observers">>, <<"queue", "matches", "sessions">>,
    <<"queue", "sessions">>, <<"matches", "rooms", "sessions">> }

\* Tasks go through such sections, and have no more locks than they hold.
Orderly ==
  /\ todo \in [Tasks -> Seq(Sections)]
  /\ held \in [Tasks -> Nat]
  /\ \A t \in Tasks : IF Busy(t) THEN held[t] <= Len(Head(todo[t]))
                                 ELSE held[t] = 0

LEMMA OperationsHaveSections == \A operation \in Operations : operation \in Seq(Sections)
<1>1. /\ Sending \in Seq(Sections)
      /\ SendingToWallet \in Seq(Sections)
      /\ Broadcasting \in Seq(Sections)
  BY DEF Sending, SendingToWallet, Broadcasting, Sections
<1>2. /\ Registering \in Seq(Sections)
      /\ Closing \in Seq(Sections)
      /\ Reporting \in Seq(Sections)
  BY DEF Registering, Closing, Reporting, Sections
<1>3. Joining \in Seq(Sections)
  <2>1. << <<"bindings">>, <<"queue">>, <<"matches">>,
           <<"queue", "matches", "sessions">> >> \in Seq(Sections)
    BY DEF Sections
  <2> QED BY <1>1, <2>1, ConcatProperties DEF Joining
<1>4. Leaving \in Seq(Sections)
  <2>1. << <<"queue", "sessions">> >> \in Seq(Sections)
    BY DEF Sections
  <2> QED BY <1>1, <2>1, ConcatProperties DEF Leaving
<1>5. Publishing \in Seq(Sections)
  <2>1. /\ << <<"matches", "rooms", "sessions">> >> \in Seq(Sections)
        /\ << <<"observers">>, <<"rooms">> >> \in Seq(Sections)
    BY DEF Sections
  <2> QED BY <1>1, <2>1, ConcatProperties DEF Publishing
<1>6. Subscribing \in Seq(Sections)
  <2>1. << <<"rooms">>, <<"observers">> >> \in Seq(Sections)
    BY DEF Sections
  <2> QED BY <1>1, <2>1, ConcatProperties DEF Subscribing
<1>7. Resuming \in Seq(Sections)
  <2>1. << <<"bindings">>, <<"sessions">>, <<"queue">>, <<"matches">>, <<"rooms">>,
           <<"observers">> >> \in Seq(Sections)
    BY DEF Sections
  <2> QED BY <1>1, <2>1, ConcatProperties DEF Resuming
<1>8. Expiring \in Seq(Sections) /\ Updating \in Seq(Sections)
  <2>1. << <<"matches">> >> \in Seq(Sections) /\ << <<"rooms">> >> \in Seq(Sections)
    BY DEF Sections
  <2> QED BY <1>1, <2>1, ConcatProperties DEF Expiring, Updating
<1> QED BY <1>2, <1>3, <1>4, <1>5, <1>6, <1>7, <1>8 DEF Operations

LEMMA OrderlyInitially == LocksInit => Orderly
BY DEF LocksInit, Orderly, Busy

LEMMA OrderlyPreserved == Orderly /\ [LocksNext]_lockVars => Orderly'
<1> SUFFICES ASSUME Orderly, [LocksNext]_lockVars PROVE Orderly'
  OBVIOUS
<1>1. ASSUME NEW t \in Tasks, Begin(t) PROVE Orderly'
  BY <1>1, OperationsHaveSections DEF Begin, Orderly, Busy
<1>2. ASSUME NEW t \in Tasks, Take(t) PROVE Orderly'
  BY <1>2 DEF Take, NextIsFree, Orderly, Busy
<1>3. ASSUME NEW t \in Tasks, Busy(t), todo' = [todo EXCEPT ![t] = Tail(@)],
             held' = [held EXCEPT ![t] = 0]
      PROVE Orderly'
  <2>1. todo'[t] \in Seq(Sections)
    BY <1>3, HeadTailProperties DEF Orderly, Busy
  <2>2. ASSUME todo'[t] # <<>> PROVE Len(Head(todo'[t])) \in Nat
    <3>1. Head(todo'[t]) \in Sections
      BY <2>1, <2>2, HeadTailProperties
    <3> QED BY <3>1 DEF Sections
  <2> QED BY <1>3, <2>1, <2>2 DEF Orderly, Busy
<1>4. ASSUME NEW t \in Tasks, Release(t) PROVE Orderly'
  BY <1>3, <1>4 DEF Release
<1>5. ASSUME NEW t \in Tasks, Skip(t) PROVE Orderly'
  <2>1. held' = [held EXCEPT ![t] = 0]
    BY <1>5 DEF Skip, Orderly
  <2> QED BY <1>3, <1>5, <2>1 DEF Skip
<1>6. CASE UNCHANGED lockVars
  BY <1>6 DEF lockVars, Orderly, Busy
<1> QED BY <1>1, <1>2, <1>4, <1>5, <1>6 DEF LocksNext

\* The order of the locks: queue, matches, rooms, sessions.
LEMMA LocksAreOrdered ==
  ASSUME NEW s \in Sections, NEW n \in Nat, n < Len(s), NEW i \in 1..n
  PROVE  \/ s[i] = "queue" /\ s[n + 1] \in {"matches", "sessions"}
         \/ s[i] = "matches" /\ s[n + 1] \in {"rooms", "sessions"}
         \/ s[i] = "rooms" /\ s[n + 1] = "sessions"
BY DEF Sections

LEMMA OrderlyGoesOn == Orderly => SomebodyGoesOn
<1> SUFFICES ASSUME Orderly,
                    NEW t \in Tasks, Busy(t),
                    \A u \in Tasks : Busy(u) => ~HasAll(u) /\ ~NextIsFree(u)
             PROVE  FALSE
  BY DEF SomebodyGoesOn
<1> DEFINE Wanted(u) == Head(todo[u])[held[u] + 1]
           Taken == UNION {Holding(u) : u \in Tasks}
<1>1. ASSUME NEW u \in Tasks, Busy(u)
      PROVE  /\ Head(todo[u]) \in Sections
             /\ held[u] \in Nat
             /\ held[u] < Len(Head(todo[u]))
             /\ Wanted(u) \in Taken
  <2>1. Head(todo[u]) \in Sections
    BY <1>1, HeadTailProperties DEF Orderly, Busy
  <2>2. Len(Head(todo[u])) \in Nat
    BY <2>1 DEF Sections
  <2>3. held[u] \in Nat /\ held[u] < Len(Head(todo[u]))
    BY <1>1, <2>2 DEF Orderly, HasAll
  <2>4. Wanted(u) \in Taken
    BY <1>1, <2>3 DEF NextIsFree
  <2> QED BY <2>1, <2>3, <2>4
<1>2. ASSUME NEW lock \in Taken
      PROVE  \E next \in Taken :
               \/ lock = "queue" /\ next \in {"matches", "sessions"}
               \/ lock = "matches" /\ next \in {"rooms", "sessions"}
               \/ lock = "rooms" /\ next = "sessions"
  <2>1. PICK u \in Tasks : lock \in Holding(u)
    BY <1>2
  <2>2. Busy(u) /\ \E i \in 1..held[u] : lock = Head(todo[u])[i]
    BY <2>1 DEF Holding
  <2>3. PICK i \in 1..held[u] : lock = Head(todo[u])[i]
    BY <2>2
  <2> QED BY <1>1, <2>2, <2>3, LocksAreOrdered
<1>3. "sessions" \notin Taken
  BY <1>2
<1>4. "rooms" \notin Taken
  BY <1>2, <1>3
<1>5. "matches" \notin Taken
  BY <1>2, <1>3, <1>4
<1>6. Taken = {}
  BY <1>2, <1>3, <1>5
<1> QED BY <1>1, <1>6

\* No set of tasks, however many, can block each other on the locks of
\* RuntimeState: the order in which queue_join, queue_leave and
\* register_room_creation lock their maps is one order.
THEOREM NeverStandsStill == LocksSpec => []SomebodyGoesOn
<1>1. LocksSpec => []Orderly
  BY OrderlyInitially, OrderlyPreserved, PTL DEF LocksSpec
<1> QED BY <1>1, OrderlyGoesOn, PTL

=============================================================================
