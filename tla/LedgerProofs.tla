---------------------------- MODULE LedgerProofs ----------------------------
(***************************************************************************)
(* Proofs about the event ledger, for any number of tasks, sessions, keys, *)
(* events and faults.                                                      *)
(***************************************************************************)
EXTENDS Ledger, FiniteSetTheorems, WellFoundedInduction, TLAPS

-----------------------------------------------------------------------------
(* Replay, as a recursive function.  What would be induction over the      *)
(* history is a least counterexample.                                      *)

LEMMA LeastExists ==
  ASSUME NEW T \in SUBSET Nat, T # {}
  PROVE  \E m \in T : \A n \in T : m <= n
<1> DEFINE R == OpToRel(<, Nat)
<1>1. IsWellFoundedOn(R, Nat)
  BY NatLessThanWellFounded
<1>2. \A x, y \in Nat : x < y => <<x, y>> \in R
  BY DEF OpToRel
<1> HIDE DEF R
<1>3. PICK m \in T : \A n \in T : ~ (<<n, m>> \in R)
  BY <1>1, WFMin
<1>4. \A n \in T : ~ (n < m)
  BY <1>2, <1>3
<1> QED BY <1>4

NothingReplayed == [ok |-> TRUE, rows |-> [a \in Aggregates |-> NoRow]]

IsReplay(f, h, k) ==
  f = [n \in 0..k |-> IF n = 0 THEN NothingReplayed
                               ELSE ReplayStep(f[n - 1], h[n])]

(* There is a replay of every history, however long. *)
LEMMA ReplayExists ==
  ASSUME NEW h, NEW k \in Nat
  PROVE  \E f : IsReplay(f, h, k)
<1> DEFINE T == {n \in Nat : ~ \E f : IsReplay(f, h, n)}
<1> SUFFICES ASSUME T # {} PROVE FALSE
  OBVIOUS
<1>1. PICK m \in T : \A n \in T : m <= n
  BY LeastExists
<1>2. m # 0
  <2> DEFINE f == [n \in 0..0 |-> NothingReplayed]
  <2>1. IsReplay(f, h, 0)
    BY DEF IsReplay
  <2> QED BY <1>1, <2>1
<1>3. m - 1 \in Nat /\ m - 1 \notin T
  BY <1>1, <1>2
<1>4. PICK f : IsReplay(f, h, m - 1)
  BY <1>3
<1> DEFINE g == [n \in 0..m |-> IF n = m THEN ReplayStep(f[m - 1], h[m])
                                         ELSE f[n]]
<1>5. IsReplay(g, h, m)
  <2>1. \A n \in 0..(m - 1) : g[n] = f[n]
    BY <1>2, <1>3
  <2>2. \A n \in 0..m : g[n] = IF n = 0 THEN NothingReplayed
                                        ELSE ReplayStep(g[n - 1], h[n])
    <3> SUFFICES ASSUME NEW n \in 0..m
                 PROVE  g[n] = IF n = 0 THEN NothingReplayed
                                        ELSE ReplayStep(g[n - 1], h[n])
      OBVIOUS
    <3>1. CASE n = m
      <4>1. g[m - 1] = f[m - 1]
        BY <1>3, <2>1
      <4>2. g[m] = ReplayStep(f[m - 1], h[m])
        OBVIOUS
      <4> QED BY <1>2, <3>1, <4>1, <4>2
    <3>2. CASE n # m
      <4>1. n \in 0..(m - 1)
        BY <3>2
      <4>2. f[n] = IF n = 0 THEN NothingReplayed
                            ELSE ReplayStep(f[n - 1], h[n])
        BY <1>4, <4>1 DEF IsReplay
      <4>3. n # 0 => g[n - 1] = f[n - 1]
        BY <2>1, <4>1
      <4> QED BY <2>1, <4>1, <4>2, <4>3
    <3> QED BY <3>1, <3>2
  <2> HIDE DEF g
  <2>3. g = [n \in 0..m |-> g[n]]
    BY DEF g
  <2> QED BY <2>2, <2>3 DEF IsReplay
<1> QED BY <1>1, <1>5

LEMMA ReplayIs ==
  ASSUME NEW h, Len(h) \in Nat
  PROVE  /\ Replay(h)[0] = NothingReplayed
         /\ \A n \in 1..Len(h) :
              Replay(h)[n] = ReplayStep(Replay(h)[n - 1], h[n])
<1>1. PICK f : IsReplay(f, h, Len(h))
  BY ReplayExists
<1>2. IsReplay(Replay(h), h, Len(h))
  <2>1. Replay(h) = CHOOSE g : IsReplay(g, h, Len(h))
    BY DEF Replay, IsReplay, NothingReplayed
  <2> QED BY <1>1, <2>1, Zenon
<1> QED BY <1>2 DEF IsReplay

(* What was replayed stays replayed when events are appended. *)
LEMMA ReplayExtends ==
  ASSUME NEW h, NEW g, Len(h) \in Nat, Len(g) \in Nat, Len(h) <= Len(g),
         \A n \in 1..Len(h) : g[n] = h[n]
  PROVE  \A n \in 0..Len(h) : Replay(g)[n] = Replay(h)[n]
<1> DEFINE T == {n \in 0..Len(h) : Replay(g)[n] # Replay(h)[n]}
<1> SUFFICES ASSUME T # {} PROVE FALSE
  OBVIOUS
<1>1. PICK m \in T : \A n \in T : m <= n
  <2>1. T \in SUBSET Nat
    OBVIOUS
  <2> QED BY <2>1, LeastExists
<1>2. m # 0
  BY <1>1, ReplayIs
<1>3. m - 1 \in 0..Len(h) /\ m - 1 \notin T
  BY <1>1, <1>2
<1>4. Replay(g)[m - 1] = Replay(h)[m - 1]
  BY <1>3
<1>5. /\ Replay(h)[m] = ReplayStep(Replay(h)[m - 1], h[m])
      /\ Replay(g)[m] = ReplayStep(Replay(g)[m - 1], g[m])
  BY <1>1, <1>2, ReplayIs
<1>6. Replay(g)[m] = Replay(h)[m]
  BY <1>1, <1>2, <1>4, <1>5
<1> QED BY <1>1, <1>6

-----------------------------------------------------------------------------
(* The inductive invariant.                                                *)

StatesOf(a) ==
  IF a = "goal" THEN {"compiled"} ELSE IF a = "run" THEN LoopState
                                                    ELSE TaskState

RowOf(a) == {NoRow} \cup [state : StatesOf(a), version : Nat \ {0}]

AnyRow ==
  {NoRow} \cup [state : LoopState \cup TaskState, version : Nat \ {0}]

Scope ==
  {"goal.create", "run.create", "task.add", "run.event", "task.evidence",
   "task.delivery", "task.control"}

LedgerType ==
  /\ now \in 0..MaxNow
  /\ revoked_at \in [Sessions -> 0..Never]
  /\ events \in Seq(EventRow)
  /\ Len(events) <= MaxEvents
  /\ idempotency \subseteq Scope \X Aggregates \X Keys
  /\ rows \in [Aggregates -> AnyRow]
  /\ \A a \in Aggregates : rows[a] \in RowOf(a)
  /\ attempt_count \in [Tasks -> Nat]
  /\ attempts \in [Tasks -> Nat]
  /\ faults \in 0..MaxFaults

(* The versions of an aggregate, in the order of seq, and never ahead of it. *)
Versions ==
  /\ \A i \in DOMAIN events : events[i].version <= i
  /\ \A a \in Aggregates :
       /\ HeadVersion(a) \in Nat
       /\ {events[i].version : i \in HistoryOf(a)} = 1..HeadVersion(a)
       /\ \A i, j \in HistoryOf(a) :
            i < j => events[i].version < events[j].version

(***************************************************************************)
(* What verification asks of an event: the session may have ended, though  *)
(* not before the event was stamped.                                       *)
(***************************************************************************)
Stamps ==
  /\ \A i, j \in DOMAIN events : i < j =>
       events[i].occurred <= events[j].occurred
  /\ \A i \in DOMAIN events :
       /\ HandlerSupports(events[i])
       /\ events[i].role \in CoreRoles(events[i])
       /\ events[i].occurred <= now
       /\ revoked_at[events[i].session] >= events[i].occurred

(* Every prefix of the history replays, to the versions of its events. *)
Replays ==
  /\ \A n \in 0..Len(events) :
       /\ Replay(events)[n] = [ok |-> TRUE, rows |-> Replay(events)[n].rows]
       /\ Replay(events)[n].rows \in [Aggregates -> AnyRow]
       /\ \A a \in Aggregates : Replay(events)[n].rows[a] \in RowOf(a)
  /\ \A n \in DOMAIN events :
       Replay(events)[n].rows[events[n].agg].version = events[n].version
  /\ \A a \in Aggregates : Replayed.rows[a].version = HeadVersion(a)

(* A row is up to date, planted, or behind its history. *)
Planted(a) == /\ a \in Tasks
              /\ HeadVersion(a) = 0
              /\ rows[a] = Row(FirstState(a), 1)

RowsStand ==
  \A a \in Aggregates :
    \/ rows[a] = Replayed.rows[a]
    \/ faults # 0 /\ (Planted(a) \/ rows[a].version < HeadVersion(a))

(* The rows of attempts count the claims while the task's row is there. *)
AttemptsCount ==
  \A t \in Tasks :
    /\ Exists(t) => attempts[t] = Cardinality(Claims(t))
    /\ Claims(t) = {} => attempts[t] = 0

Answers ==
  /\ IsFiniteSet(idempotency)
  /\ AnswersApplied

Inv ==
  /\ LedgerType
  /\ Versions
  /\ Stamps
  /\ Replays
  /\ RowsStand
  /\ AttemptsCount
  /\ AttemptsNotForgotten
  /\ Answers

-----------------------------------------------------------------------------
(* Steps of the definitions.                                               *)

LEMMA Bounds ==
  /\ MaxNow \in Nat /\ MaxEvents \in Nat /\ MaxFaults \in Nat
  /\ Never \in Nat /\ Never = MaxNow + 1
  /\ "goal" \in Aggregates /\ "run" \in Aggregates
  /\ \A t \in Tasks : t \in Aggregates /\ t # "goal" /\ t # "run"
BY LedgerAssumption DEF Never, Aggregates

LEMMA MaxOfRange ==
  ASSUME NEW v \in Nat
  PROVE  Max({0} \cup 1..v) = v
<1>1. v \in {0} \cup 1..v /\ \A y \in {0} \cup 1..v : v >= y
  OBVIOUS
<1>2. \A x \in {0} \cup 1..v : (\A y \in {0} \cup 1..v : x >= y) => x = v
  <2> SUFFICES ASSUME NEW x \in {0} \cup 1..v,
                      \A y \in {0} \cup 1..v : x >= y
               PROVE  x = v
    OBVIOUS
  <2>1. x >= v /\ v >= x
    BY <1>1
  <2> QED BY <2>1
<1> QED BY <1>1, <1>2 DEF Max

LEMMA RowFacts ==
  ASSUME NEW a \in Aggregates
  PROVE  /\ NoRow.version = 0
         /\ \A r \in RowOf(a) : /\ r.version \in Nat
                                /\ r = NoRow <=> r.version = 0
                                /\ r # NoRow => r.state \in StatesOf(a)
         /\ \A st \in StatesOf(a), v \in Nat :
              v # 0 => /\ Row(st, v) \in RowOf(a)
                       /\ Row(st, v) \in AnyRow
                       /\ Row(st, v).version = v
                       /\ Row(st, v).state = st
<1>1. StatesOf(a) \subseteq LoopState \cup TaskState
  BY DEF StatesOf, LoopState, TaskState
<1>2. NoRow.version = 0
  BY DEF NoRow
<1>3. \A r \in RowOf(a) : /\ r.version \in Nat
                          /\ r = NoRow <=> r.version = 0
                          /\ r # NoRow => r.state \in StatesOf(a)
  BY <1>2 DEF RowOf
<1>4. \A st \in StatesOf(a), v \in Nat :
        v # 0 => /\ Row(st, v) \in RowOf(a)
                 /\ Row(st, v) \in AnyRow
                 /\ Row(st, v).version = v
                 /\ Row(st, v).state = st
  BY <1>1 DEF RowOf, AnyRow, Row
<1> QED BY <1>2, <1>3, <1>4

(* One event that follows. *)
LEMMA ReplayStepFollows ==
  ASSUME NEW r \in [Aggregates -> AnyRow], NEW e, NEW to,
         e.agg \in Aggregates,
         e.version = r[e.agg].version + 1,
         Successors(r, e) = {to}
  PROVE  ReplayStep([ok |-> TRUE, rows |-> r], e) =
           [ok |-> TRUE, rows |-> [r EXCEPT ![e.agg] = Row(to, e.version)]]
<1>1. Successors(r, e) # {} /\ (CHOOSE x \in Successors(r, e) : TRUE) = to
  OBVIOUS
<1> DEFINE acc == [ok |-> TRUE, rows |-> r]
<1>2. acc.ok /\ acc.rows = r
  OBVIOUS
<1>3. ReplayStep(acc, e) = [acc EXCEPT !.rows[e.agg] = Row(to, e.version)]
  BY <1>1, <1>2 DEF ReplayStep
<1> QED BY <1>3

-----------------------------------------------------------------------------
(* Appending.                                                              *)

(* The events table, and the k events of one aggregate a step adds to it. *)
Grown(a, k, v) ==
  /\ v = HeadVersion(a)
  /\ events' \in Seq(EventRow)
  /\ Len(events') = Len(events) + k
  /\ Len(events') <= MaxEvents
  /\ \A i \in 1..Len(events) : events'[i] = events[i]
  /\ \A i \in 1..k : /\ events'[Len(events) + i].agg = a
                     /\ events'[Len(events) + i].version = v + i

LEMMA GrownHistory ==
  ASSUME Inv, NEW a \in Aggregates, NEW k \in 1..2, NEW v, Grown(a, k, v)
  PROVE  /\ Len(events) \in Nat /\ DOMAIN events = 1..Len(events)
         /\ DOMAIN events' = 1..(Len(events) + k)
         /\ HistoryOf(a)' = HistoryOf(a) \cup {Len(events) + i : i \in 1..k}
         /\ \A b \in Aggregates : b # a => HistoryOf(b)' = HistoryOf(b)
<1>1. /\ Len(events) \in Nat /\ DOMAIN events = 1..Len(events)
      /\ DOMAIN events' = 1..(Len(events) + k)
  BY DEF Inv, LedgerType, Grown
<1>2. \A j \in 1..(Len(events) + k) :
        j \notin 1..Len(events) => \E i \in 1..k : j = Len(events) + i
  <2> SUFFICES ASSUME NEW j \in 1..(Len(events) + k),
                      j \notin 1..Len(events)
               PROVE  \E i \in 1..k : j = Len(events) + i
    OBVIOUS
  <2>1. j - Len(events) \in 1..k /\ j = Len(events) + (j - Len(events))
    BY <1>1
  <2> QED BY <2>1
<1>3. \A i \in 1..k : /\ Len(events) + i \in 1..(Len(events) + k)
                      /\ Len(events) + i \notin 1..Len(events)
  BY <1>1
<1>4. /\ \A j \in 1..Len(events) : events'[j] = events[j]
      /\ \A i \in 1..k : events'[Len(events) + i].agg = a
  BY DEF Grown
<1>5. ASSUME NEW b \in Aggregates, NEW j
      PROVE  j \in HistoryOf(b)' <=>
               \/ j \in HistoryOf(b)
               \/ b = a /\ j \in {Len(events) + i : i \in 1..k}
  <2>1. /\ j \in HistoryOf(b)' <=> /\ j \in 1..(Len(events) + k)
                                  /\ events'[j].agg = b
        /\ j \in HistoryOf(b) <=> j \in 1..Len(events) /\ events[j].agg = b
    BY <1>1 DEF HistoryOf
  <2>2. CASE j \in 1..Len(events)
    <3>1. j \in 1..(Len(events) + k)
      BY <1>1, <2>2
    <3>2. j \notin {Len(events) + i : i \in 1..k}
      BY <1>3, <2>2
    <3> QED BY <1>4, <2>1, <2>2, <3>1, <3>2
  <2>3. CASE j \notin 1..Len(events)
    <3>1. j \in 1..(Len(events) + k) <=>
            j \in {Len(events) + i : i \in 1..k}
      BY <1>2, <1>3, <2>3
    <3>2. j \in {Len(events) + i : i \in 1..k} => events'[j].agg = a
      BY <1>4
    <3> QED BY <2>1, <2>3, <3>1, <3>2
  <2> QED BY <2>2, <2>3
<1>6. HistoryOf(a)' = HistoryOf(a) \cup {Len(events) + i : i \in 1..k}
  BY <1>5
<1>7. \A b \in Aggregates : b # a => HistoryOf(b)' = HistoryOf(b)
  BY <1>5
<1> QED BY <1>1, <1>6, <1>7

LEMMA HeadBound ==
  ASSUME Inv, NEW a \in Aggregates
  PROVE  HeadVersion(a) \in Nat /\ HeadVersion(a) <= Len(events)
<1>1. /\ Len(events) \in Nat /\ DOMAIN events = 1..Len(events)
      /\ HeadVersion(a) \in Nat
      /\ {events[i].version : i \in HistoryOf(a)} = 1..HeadVersion(a)
      /\ \A i \in DOMAIN events : events[i].version <= i
  BY DEF Inv, LedgerType, Versions
<1>2. CASE HeadVersion(a) # 0
  <2>1. HeadVersion(a) \in 1..HeadVersion(a)
    BY <1>1, <1>2
  <2>2. PICK i \in HistoryOf(a) : HeadVersion(a) = events[i].version
    BY <1>1, <2>1
  <2>3. i \in 1..Len(events)
    BY <1>1 DEF HistoryOf
  <2> QED BY <1>1, <2>2, <2>3
<1> QED BY <1>1, <1>2

LEMMA GrownVersions ==
  ASSUME Inv, NEW a \in Aggregates, NEW k \in 1..2, NEW v, Grown(a, k, v)
  PROVE  /\ v \in Nat
         /\ HeadVersion(a)' = v + k
         /\ \A b \in Aggregates : b # a => HeadVersion(b)' = HeadVersion(b)
         /\ Versions'
<1> DEFINE L == Len(events)
<1>1. /\ L \in Nat /\ DOMAIN events = 1..L /\ DOMAIN events' = 1..(L + k)
      /\ HistoryOf(a)' = HistoryOf(a) \cup {L + i : i \in 1..k}
      /\ \A b \in Aggregates : b # a => HistoryOf(b)' = HistoryOf(b)
  BY GrownHistory
<1>2. /\ v \in Nat /\ v = HeadVersion(a)
      /\ {events[i].version : i \in HistoryOf(a)} = 1..v
      /\ \A i \in HistoryOf(a) : i \in 1..L /\ events'[i] = events[i]
      /\ \A i \in 1..k : events'[L + i].version = v + i
  BY <1>1 DEF Inv, Versions, Grown, HistoryOf
<1> HIDE DEF L
<1>3. \A b \in Aggregates : b # a =>
        /\ HeadVersion(b)' = HeadVersion(b)
        /\ {events'[i].version : i \in HistoryOf(b)'} =
             {events[i].version : i \in HistoryOf(b)}
  <2> SUFFICES ASSUME NEW b \in Aggregates, b # a
               PROVE  /\ HeadVersion(b)' = HeadVersion(b)
                      /\ {events'[i].version : i \in HistoryOf(b)'} =
                           {events[i].version : i \in HistoryOf(b)}
    OBVIOUS
  <2>1. \A i \in HistoryOf(b) : events'[i] = events[i]
    BY <1>1 DEF HistoryOf, Grown, L
  <2>2. {events'[i].version : i \in HistoryOf(b)'} =
          {events[i].version : i \in HistoryOf(b)}
    BY <1>1, <2>1
  <2> QED BY <2>2 DEF HeadVersion
<1>4. {events'[i].version : i \in HistoryOf(a)'} = 1..(v + k)
  <2>1. \A i \in HistoryOf(a) : events'[i].version \in 1..(v + k)
    <3>1. \A i \in HistoryOf(a) : events[i].version \in 1..v
      BY <1>2
    <3> QED BY <1>2, <3>1
  <2>2. \A i \in 1..k : events'[L + i].version \in 1..(v + k)
    BY <1>2
  <2>3. ASSUME NEW x \in 1..(v + k)
        PROVE  \E i \in HistoryOf(a)' : x = events'[i].version
    <3>1. CASE x \in 1..v
      <4>1. PICK i \in HistoryOf(a) : x = events[i].version
        BY <1>2, <3>1
      <4> QED BY <1>1, <1>2, <4>1
    <3>2. CASE x \notin 1..v
      <4>1. x - v \in 1..k /\ x = v + (x - v)
        BY <1>2, <3>2
      <4>2. L + (x - v) \in HistoryOf(a)'
        BY <1>1, <4>1
      <4> QED BY <1>2, <4>1, <4>2
    <3> QED BY <3>1, <3>2
  <2>4. \A i \in HistoryOf(a)' : events'[i].version \in 1..(v + k)
    BY <1>1, <2>1, <2>2
  <2> QED BY <2>3, <2>4
<1>5. HeadVersion(a)' = v + k
  <2>1. HeadVersion(a)' =
          Max({0} \cup {events'[i].version : i \in HistoryOf(a)'})
    BY DEF HeadVersion
  <2>2. HeadVersion(a)' = Max({0} \cup 1..(v + k))
    BY <1>4, <2>1, Zenon
  <2>3. v + k \in Nat
    BY <1>2
  <2> QED BY <2>2, <2>3, MaxOfRange
<1>6. \A i \in DOMAIN events' : events'[i].version <= i
  <2> SUFFICES ASSUME NEW j \in 1..(L + k) PROVE events'[j].version <= j
    BY <1>1
  <2>1. CASE j \in 1..L
    BY <1>1, <2>1 DEF Inv, Versions, Grown, L
  <2>2. CASE j \notin 1..L
    <3>1. j - L \in 1..k /\ j = L + (j - L)
      BY <1>1, <2>2
    <3>2. events'[j].version = v + (j - L)
      BY <1>2, <3>1
    <3>3. v <= L
      BY <1>2, HeadBound DEF L
    <3> QED BY <1>1, <1>2, <3>1, <3>2, <3>3
  <2> QED BY <2>1, <2>2
<1>7. \A i, j \in HistoryOf(a)' :
        i < j => events'[i].version < events'[j].version
  <2> SUFFICES ASSUME NEW i \in HistoryOf(a)', NEW j \in HistoryOf(a)', i < j
               PROVE  events'[i].version < events'[j].version
    OBVIOUS
  <2>1. CASE i \in HistoryOf(a) /\ j \in HistoryOf(a)
    BY <1>2, <2>1 DEF Inv, Versions
  <2>2. CASE i \in HistoryOf(a) /\ j \notin HistoryOf(a)
    <3>1. PICK n \in 1..k : j = L + n
      BY <1>1, <2>2
    <3>2. events'[i].version \in 1..v
      BY <1>2, <2>2
    <3>3. events'[j].version = v + n
      BY <1>2, <3>1
    <3> QED BY <1>2, <3>2, <3>3
  <2>3. CASE i \notin HistoryOf(a)
    <3>1. PICK m \in 1..k : i = L + m
      BY <1>1, <2>3
    <3>2. j \notin HistoryOf(a)
      BY <1>1, <1>2, <3>1
    <3>3. PICK n \in 1..k : j = L + n
      BY <1>1, <3>2
    <3>4. m < n
      BY <1>1, <3>1, <3>3
    <3> QED BY <1>2, <3>1, <3>3, <3>4
  <2> QED BY <2>1, <2>2, <2>3
<1>8. \A b \in Aggregates : b # a =>
        \A i, j \in HistoryOf(b)' :
          i < j => events'[i].version < events'[j].version
  BY <1>1 DEF Inv, Versions, Grown, HistoryOf, L
<1>9. Versions'
  <2> SUFFICES ASSUME NEW b \in Aggregates
               PROVE  /\ HeadVersion(b)' \in Nat
                      /\ {events'[i].version : i \in HistoryOf(b)'} =
                           1..(HeadVersion(b)')
                      /\ \A i, j \in HistoryOf(b)' :
                           i < j => events'[i].version < events'[j].version
    BY <1>6 DEF Versions
  <2>1. CASE b = a
    BY <1>2, <1>4, <1>5, <1>7, <2>1
  <2>2. CASE b # a
    <3>1. HeadVersion(b)' = HeadVersion(b)
      BY <1>3, <2>2
    <3>2. {events'[i].version : i \in HistoryOf(b)'} = 1..HeadVersion(b)
      BY <1>3, <2>2 DEF Inv, Versions
    <3>3. HeadVersion(b) \in Nat
      BY DEF Inv, Versions
    <3> QED BY <1>8, <2>2, <3>1, <3>2, <3>3
  <2> QED BY <2>1, <2>2
<1> QED BY <1>2, <1>3, <1>5, <1>9

(* The k events follow, one state after the other. *)
Follow(a, k, v, tos) ==
  /\ \A i \in 1..k : tos[i] \in StatesOf(a)
  /\ Successors(Replayed.rows, events'[Len(events) + 1]) = {tos[1]}
  /\ k = 2 => Successors([Replayed.rows EXCEPT ![a] = Row(tos[1], v + 1)],
                         events'[Len(events) + 2]) = {tos[2]}

LEMMA GrownReplay ==
  ASSUME Inv, NEW a \in Aggregates, NEW k \in 1..2, NEW v, Grown(a, k, v),
         NEW tos, Follow(a, k, v, tos)
  PROVE  /\ Replayed'.rows =
              [Replayed.rows EXCEPT ![a] = Row(tos[k], v + k)]
         /\ Replays'
<1> DEFINE L == Len(events)
           r == Replayed.rows
           r1 == [r EXCEPT ![a] = Row(tos[1], v + 1)]
           r2 == [r EXCEPT ![a] = Row(tos[2], v + 2)]
<1>1. /\ L \in Nat /\ DOMAIN events = 1..L /\ DOMAIN events' = 1..(L + k)
      /\ Len(events') = L + k
      /\ v \in Nat /\ HeadVersion(a)' = v + k
      /\ \A b \in Aggregates : b # a => HeadVersion(b)' = HeadVersion(b)
  BY GrownHistory, GrownVersions DEF Grown
<1>2. /\ Replay(events)[L] = [ok |-> TRUE, rows |-> r]
      /\ r \in [Aggregates -> AnyRow]
      /\ \A b \in Aggregates : r[b] \in RowOf(b) /\ r[b].version = HeadVersion(b)
  <2>1. L \in 0..L /\ Replayed = Replay(events)[L]
    BY <1>1 DEF Replayed
  <2> QED BY <2>1 DEF Inv, Replays
<1>3. r[a].version = v
  BY <1>2 DEF Grown
<1>4. \A i \in 1..k : /\ Row(tos[i], v + i) \in RowOf(a)
                      /\ Row(tos[i], v + i) \in AnyRow
                      /\ Row(tos[i], v + i).version = v + i
  <2> SUFFICES ASSUME NEW i \in 1..k
               PROVE  /\ Row(tos[i], v + i) \in RowOf(a)
                      /\ Row(tos[i], v + i) \in AnyRow
                      /\ Row(tos[i], v + i).version = v + i
    OBVIOUS
  <2>1. tos[i] \in StatesOf(a) /\ v + i \in Nat /\ v + i # 0
    BY <1>1 DEF Follow
  <2> QED BY <2>1, RowFacts
<1>5. \A n \in 0..L : Replay(events')[n] = Replay(events)[n]
  <2>1. /\ Len(events) \in Nat /\ Len(events') \in Nat
        /\ Len(events) <= Len(events')
    BY <1>1
  <2>2. \A n \in 1..Len(events) : events'[n] = events[n]
    BY DEF Grown
  <2> QED BY <2>1, <2>2, ReplayExtends
<1>6. \A n \in 1..(L + k) :
        Replay(events')[n] = ReplayStep(Replay(events')[n - 1], events'[n])
  BY <1>1, ReplayIs
<1>7. /\ \A n \in 1..L : events'[n] = events[n]
      /\ \A i \in 1..k : /\ events'[L + i].agg = a
                         /\ events'[L + i].version = v + i
  BY DEF Grown
<1>8. Replay(events')[L + 1] = [ok |-> TRUE, rows |-> r1]
  <2>1. Replay(events')[L + 1] = ReplayStep(Replay(events')[L], events'[L + 1])
    <3>1. L + 1 \in 1..(L + k) /\ (L + 1) - 1 = L
      BY <1>1
    <3> QED BY <1>6, <3>1
  <2>2. Replay(events')[L] = [ok |-> TRUE, rows |-> r]
    BY <1>1, <1>2, <1>5
  <2>3. /\ events'[L + 1].agg = a
        /\ events'[L + 1].version = v + 1
    BY <1>7
  <2>4. Successors(r, events'[L + 1]) = {tos[1]}
    BY DEF Follow
  <2> HIDE DEF L, r
  <2>5. /\ events'[L + 1].agg \in Aggregates
        /\ events'[L + 1].version = r[events'[L + 1].agg].version + 1
    BY <1>3, <2>3
  <2>6. ReplayStep([ok |-> TRUE, rows |-> r], events'[L + 1]) =
          [ok |-> TRUE,
           rows |-> [r EXCEPT ![events'[L + 1].agg] =
                       Row(tos[1], events'[L + 1].version)]]
    BY <1>2, <2>4, <2>5, ReplayStepFollows
  <2> QED BY <2>1, <2>2, <2>3, <2>6
<1>9. r1 \in [Aggregates -> AnyRow] /\ r1[a] = Row(tos[1], v + 1)
  <2>1. Row(tos[1], v + 1) \in AnyRow
    BY <1>4
  <2> HIDE DEF r
  <2> QED BY <1>2, <2>1
<1>10. k = 2 => Replay(events')[L + 2] = [ok |-> TRUE, rows |-> r2]
  <2> SUFFICES ASSUME k = 2
               PROVE  Replay(events')[L + 2] = [ok |-> TRUE, rows |-> r2]
    OBVIOUS
  <2>1. Replay(events')[L + 2] =
          ReplayStep(Replay(events')[L + 1], events'[L + 2])
    <3>1. L + 2 \in 1..(L + k) /\ (L + 2) - 1 = L + 1
      BY <1>1
    <3> QED BY <1>6, <3>1
  <2>2. /\ events'[L + 2].agg = a
        /\ events'[L + 2].version = v + 2
    BY <1>7
  <2>3. Successors(r1, events'[L + 2]) = {tos[2]}
    BY DEF Follow
  <2>4. v + 2 = r1[a].version + 1
    <3>1. r1[a].version = v + 1
      BY <1>4, <1>9
    <3> QED BY <1>1, <3>1
  <2>5. r2 = [r1 EXCEPT ![a] = Row(tos[2], v + 2)]
    <3> HIDE DEF r
    <3> QED BY <1>2
  <2> HIDE DEF L, r, r1, r2
  <2>6. ReplayStep([ok |-> TRUE, rows |-> r1], events'[L + 2]) =
          [ok |-> TRUE,
           rows |-> [r1 EXCEPT ![events'[L + 2].agg] =
                       Row(tos[2], events'[L + 2].version)]]
    BY <1>9, <2>2, <2>3, <2>4, ReplayStepFollows
  <2> QED BY <1>8, <2>1, <2>2, <2>5, <2>6
<1> DEFINE new(i) == [r EXCEPT ![a] = Row(tos[i], v + i)]
<1>11. \A i \in 1..k : /\ Replay(events')[L + i] = [ok |-> TRUE, rows |-> new(i)]
                       /\ new(i) \in [Aggregates -> AnyRow]
                       /\ new(i)[a] = Row(tos[i], v + i)
                       /\ \A b \in Aggregates : b # a => new(i)[b] = r[b]
  <2> SUFFICES ASSUME NEW i \in 1..k
               PROVE  /\ Replay(events')[L + i] = [ok |-> TRUE, rows |-> new(i)]
                      /\ new(i) \in [Aggregates -> AnyRow]
                      /\ new(i)[a] = Row(tos[i], v + i)
                      /\ \A b \in Aggregates : b # a => new(i)[b] = r[b]
    OBVIOUS
  <2>1. i = 1 \/ (i = 2 /\ k = 2)
    OBVIOUS
  <2>2. Replay(events')[L + i] = [ok |-> TRUE, rows |-> new(i)]
    BY <1>8, <1>10, <2>1
  <2>3. Row(tos[i], v + i) \in AnyRow
    BY <1>4
  <2> HIDE DEF r
  <2> QED BY <1>2, <2>2, <2>3
<1> HIDE DEF new, r, r1, r2
<1>12. Replayed'.rows = new(k)
  <2>1. Replayed' = Replay(events')[L + k]
    BY <1>1 DEF Replayed
  <2>2. k \in 1..k
    OBVIOUS
  <2>3. Replay(events')[L + k] = [ok |-> TRUE, rows |-> new(k)]
    BY <1>11, <2>2
  <2> QED BY <2>1, <2>3
<1>13. \A n \in 0..(L + k) :
         /\ Replay(events')[n] = [ok |-> TRUE, rows |-> Replay(events')[n].rows]
         /\ Replay(events')[n].rows \in [Aggregates -> AnyRow]
         /\ \A b \in Aggregates : Replay(events')[n].rows[b] \in RowOf(b)
  <2> SUFFICES ASSUME NEW n \in 0..(L + k)
               PROVE  /\ Replay(events')[n] =
                           [ok |-> TRUE, rows |-> Replay(events')[n].rows]
                      /\ Replay(events')[n].rows \in [Aggregates -> AnyRow]
                      /\ \A b \in Aggregates :
                           Replay(events')[n].rows[b] \in RowOf(b)
    OBVIOUS
  <2>1. CASE n \in 0..L
    BY <1>5, <2>1 DEF Inv, Replays
  <2>2. CASE n \notin 0..L
    <3>1. n - L \in 1..k /\ n = L + (n - L)
      BY <1>1, <2>2
    <3>2. PICK i \in 1..k : n = L + i
      BY <3>1
    <3>3. Replay(events')[n] = [ok |-> TRUE, rows |-> new(i)]
      BY <1>11, <3>2
    <3>4. \A b \in Aggregates : new(i)[b] \in RowOf(b)
      BY <1>2, <1>4, <1>11
    <3> QED BY <1>11, <3>3, <3>4
  <2> QED BY <2>1, <2>2
<1>14. \A n \in 1..(L + k) :
         Replay(events')[n].rows[events'[n].agg].version = events'[n].version
  <2> SUFFICES ASSUME NEW n \in 1..(L + k)
               PROVE  Replay(events')[n].rows[events'[n].agg].version
                        = events'[n].version
    OBVIOUS
  <2>1. CASE n \in 1..L
    BY <1>1, <1>5, <1>7, <2>1 DEF Inv, Replays
  <2>2. CASE n \notin 1..L
    <3>1. n - L \in 1..k /\ n = L + (n - L)
      BY <1>1, <2>2
    <3>2. PICK i \in 1..k : n = L + i
      BY <3>1
    <3>3. Replay(events')[n] = [ok |-> TRUE, rows |-> new(i)]
      BY <1>11, <3>2
    <3> QED BY <1>4, <1>7, <1>11, <3>2, <3>3
  <2> QED BY <2>1, <2>2
<1>15. \A b \in Aggregates : Replayed'.rows[b].version = HeadVersion(b)'
  <2> SUFFICES ASSUME NEW b \in Aggregates
               PROVE  new(k)[b].version = HeadVersion(b)'
    BY <1>12
  <2>1. k \in 1..k
    OBVIOUS
  <2>2. CASE b = a
    BY <1>1, <1>4, <1>11, <2>1, <2>2
  <2>3. CASE b # a
    BY <1>1, <1>2, <1>11, <2>1, <2>3
  <2> QED BY <2>2, <2>3
<1>16. Replays'
  BY <1>1, <1>13, <1>14, <1>15 DEF Replays
<1> QED BY <1>12, <1>16 DEF new, r

EventType ==
  {r.event : r \in LOOP_TRANSITIONS}
    \cup {"goal_created", "task_added", "task_state_changed"}

(* An event as a command hands it to append_event. *)
Draft ==
  [agg : Aggregates, type : EventType,
   from : TaskState \cup {"none"}, target : TaskState \cup {"none"},
   guards : SUBSET UNION {r.guards : r \in LOOP_TRANSITIONS},
   handler : {"runtime_kernel", "task_scheduler"}, session : Sessions,
   key : Keys \cup {"none"}]

SaysTheSame(e, d) ==
  /\ e.agg = d.agg /\ e.type = d.type /\ e.from = d.from
  /\ e.target = d.target /\ e.guards = d.guards /\ e.handler = d.handler
  /\ e.session = d.session /\ e.key = d.key

LEMMA StampedRow ==
  ASSUME NEW d \in Draft, NEW version \in 1..MaxEvents,
         NEW occurred \in 0..MaxNow,
         SessionRoles[d.session] \cap CoreRoles(d) # {}
  PROVE  /\ Stamped(d, version, occurred) \in EventRow
         /\ SaysTheSame(Stamped(d, version, occurred), d)
         /\ Stamped(d, version, occurred).version = version
         /\ Stamped(d, version, occurred).occurred = occurred
         /\ Stamped(d, version, occurred).role \in CoreRoles(d)
<1>1. AuthorizedRole(d) \in SessionRoles[d.session] \cap CoreRoles(d)
  BY DEF AuthorizedRole
<1>2. AuthorizedRole(d) \in Role
  BY <1>1, LedgerAssumption DEF Draft
<1> DEFINE e == Stamped(d, version, occurred)
<1>3. e \in EventRow
  BY <1>2 DEF Stamped, EventRow, Draft, EventType
<1>4. /\ SaysTheSame(e, d)
      /\ e.version = version /\ e.occurred = occurred
      /\ e.role = AuthorizedRole(d)
  BY DEF Stamped, SaysTheSame
<1> QED BY <1>1, <1>3, <1>4

LEMMA SameRoles ==
  ASSUME NEW e, NEW d, SaysTheSame(e, d)
  PROVE  /\ CoreRoles(e) = CoreRoles(d)
         /\ HandlerSupports(e) <=> HandlerSupports(d)
BY DEF SaysTheSame, CoreRoles, HandlerSupports

LEMMA AppendsGrow ==
  ASSUME Inv, NEW a \in Aggregates, NEW k \in 1..2, NEW new \in Seq(Draft),
         Len(new) = k, NEW v, NEW late \in 0..2,
         \A i \in 1..k : new[i].agg = a,
         Appends(new, v, late)
  PROVE  /\ Grown(a, k, v)
         /\ now' \in 0..MaxNow /\ now <= now'
         /\ \A i \in 1..k :
              LET e == events'[Len(events) + i] IN
              /\ SaysTheSame(e, new[i])
              /\ e.role \in CoreRoles(new[i])
              /\ HandlerSupports(new[i])
              /\ revoked_at[new[i].session] = Never
              /\ now <= e.occurred /\ e.occurred <= now'
         /\ k = 2 => events'[Len(events) + 1].occurred
                       <= events'[Len(events) + 2].occurred
<1> DEFINE L == Len(events)
           occ(i) == IF late # 0 /\ i >= late THEN now + 1 ELSE now
           st == [i \in DOMAIN new |-> Stamped(new[i], v + i, occ(i))]
<1>1. /\ DOMAIN new = 1..k /\ new[1].agg = a
      /\ \A i \in 1..k : new[i] \in Draft
  BY DEF Inv
<1>2. /\ L + k <= MaxEvents
      /\ late = 0 \/ now < MaxNow
      /\ v = HeadVersion(a)
      /\ \A i \in 1..k :
           Authorized(new[i], IF late # 0 /\ i > late THEN now + 1 ELSE now)
      /\ events' = AppendEvents(new, late)
      /\ now' = IF late = 0 THEN now ELSE now + 1
  BY <1>1 DEF Appends
<1>3. /\ now \in 0..MaxNow /\ MaxNow \in Nat /\ MaxEvents \in Nat
      /\ L \in Nat /\ events \in Seq(EventRow)
      /\ v \in Nat /\ v <= L
  BY <1>2, Bounds, HeadBound DEF Inv, LedgerType
<1>4. now' \in 0..MaxNow /\ now <= now'
  BY <1>2, <1>3
<1>5. \A i \in 1..k : /\ HandlerSupports(new[i])
                      /\ revoked_at[new[i].session] = Never
                      /\ SessionRoles[new[i].session] \cap CoreRoles(new[i]) # {}
  BY <1>2 DEF Authorized, Live
<1>6. \A i \in 1..k : /\ occ(i) \in 0..MaxNow
                      /\ now <= occ(i) /\ occ(i) <= now'
                      /\ v + i \in 1..MaxEvents
  BY <1>2, <1>3
<1>7. \A i, j \in 1..k : i <= j => occ(i) <= occ(j)
  BY <1>3
<1>8. events' = events \o st
  <2>1. \A i \in DOMAIN new : HeadVersion(new[i].agg) + i = v + i
    BY <1>1, <1>2
  <2>2. AppendEvents(new, late) =
          events \o [i \in DOMAIN new |->
                       Stamped(new[i], HeadVersion(new[i].agg) + i, occ(i))]
    BY DEF AppendEvents
  <2>3. [i \in DOMAIN new |->
           Stamped(new[i], HeadVersion(new[i].agg) + i, occ(i))] = st
    BY <2>1
  <2> QED BY <1>2, <2>2, <2>3
<1>9. \A i \in 1..k :
        /\ st[i] = Stamped(new[i], v + i, occ(i))
        /\ st[i] \in EventRow
        /\ SaysTheSame(st[i], new[i])
        /\ st[i].version = v + i
        /\ st[i].occurred = occ(i)
        /\ st[i].role \in CoreRoles(new[i])
  <2> SUFFICES ASSUME NEW i \in 1..k
               PROVE  /\ st[i] = Stamped(new[i], v + i, occ(i))
                      /\ st[i] \in EventRow
                      /\ SaysTheSame(st[i], new[i])
                      /\ st[i].version = v + i
                      /\ st[i].occurred = occ(i)
                      /\ st[i].role \in CoreRoles(new[i])
    OBVIOUS
  <2>1. st[i] = Stamped(new[i], v + i, occ(i))
    BY <1>1
  <2> HIDE DEF occ, st
  <2> QED BY <1>1, <1>5, <1>6, <2>1, StampedRow
<1> HIDE DEF occ
<1>10. st \in Seq(EventRow) /\ Len(st) = k
  <2>1. st \in [1..k -> EventRow]
    BY <1>1, <1>9
  <2> HIDE DEF st
  <2> QED BY <2>1
<1> HIDE DEF st
<1>11. /\ events' \in Seq(EventRow)
       /\ Len(events') = L + k
       /\ \A i \in 1..L : events'[i] = events[i]
       /\ \A i \in 1..k : events'[L + i] = st[i]
  BY <1>3, <1>8, <1>10
<1>12. \A i \in 1..k : events'[L + i].agg = a
  <2> SUFFICES ASSUME NEW i \in 1..k PROVE events'[L + i].agg = a
    OBVIOUS
  <2>1. SaysTheSame(st[i], new[i]) /\ new[i].agg = a
    BY <1>9
  <2>2. st[i].agg = a
    BY <2>1 DEF SaysTheSame
  <2>3. events'[L + i] = st[i]
    BY <1>11
  <2> QED BY <2>2, <2>3
<1>13. Grown(a, k, v)
  BY <1>2, <1>3, <1>9, <1>11, <1>12 DEF Grown
<1>14. k = 2 => events'[L + 1].occurred <= events'[L + 2].occurred
  BY <1>7, <1>9, <1>11
<1> QED BY <1>4, <1>5, <1>6, <1>9, <1>11, <1>13, <1>14

LEMMA SameSuccessors ==
  ASSUME NEW r, NEW e, NEW d, SaysTheSame(e, d)
  PROVE  Successors(r, e) = Successors(r, d)
BY DEF SaysTheSame, Successors

LEMMA AppendsStamps ==
  ASSUME Inv, NEW a \in Aggregates, NEW k \in 1..2, NEW new \in Seq(Draft),
         Len(new) = k, NEW v, NEW late \in 0..2,
         \A i \in 1..k : new[i].agg = a,
         Appends(new, v, late), UNCHANGED revoked_at
  PROVE  Stamps'
<1> DEFINE L == Len(events)
<1>1. /\ Grown(a, k, v)
      /\ now' \in 0..MaxNow /\ now <= now'
      /\ \A i \in 1..k : /\ SaysTheSame(events'[L + i], new[i])
                         /\ events'[L + i].role \in CoreRoles(new[i])
                         /\ HandlerSupports(new[i])
                         /\ revoked_at[new[i].session] = Never
                         /\ now <= events'[L + i].occurred
                         /\ events'[L + i].occurred <= now'
      /\ k = 2 => events'[L + 1].occurred <= events'[L + 2].occurred
  BY AppendsGrow
<1>2. /\ L \in Nat /\ DOMAIN events = 1..L /\ DOMAIN events' = 1..(L + k)
      /\ events' \in Seq(EventRow)
      /\ \A i \in 1..L : events'[i] = events[i]
  BY <1>1, GrownHistory DEF Grown
<1>3. /\ \A i \in 1..(L + k) : events'[i].occurred \in 0..MaxNow
      /\ MaxNow \in Nat /\ Never = MaxNow + 1 /\ now \in 0..MaxNow
  <2>1. \A i \in 1..(L + k) : events'[i] \in EventRow
    BY <1>1, <1>2 DEF Grown
  <2>2. \A e \in EventRow : e.occurred \in 0..MaxNow
    BY DEF EventRow
  <2> QED BY <2>1, <2>2, Bounds DEF Inv, LedgerType
<1> HIDE DEF L
<1>4. \A j \in 1..(L + k) :
        j \in 1..L \/ \E i \in 1..k : j = L + i
  <2> SUFFICES ASSUME NEW j \in 1..(L + k), j \notin 1..L
               PROVE  \E i \in 1..k : j = L + i
    OBVIOUS
  <2>1. j - L \in 1..k /\ j = L + (j - L)
    BY <1>2
  <2> QED BY <2>1
<1>5. \A i \in 1..L : /\ HandlerSupports(events[i])
                      /\ events[i].role \in CoreRoles(events[i])
                      /\ events[i].occurred <= now
                      /\ revoked_at[events[i].session] >= events[i].occurred
                      /\ \A j \in 1..L : i < j =>
                           events[i].occurred <= events[j].occurred
  BY <1>2 DEF Inv, Stamps
<1>6. \A j \in 1..(L + k) :
        /\ HandlerSupports(events'[j])
        /\ events'[j].role \in CoreRoles(events'[j])
        /\ events'[j].occurred <= now'
        /\ revoked_at[events'[j].session] >= events'[j].occurred
  <2> SUFFICES ASSUME NEW j \in 1..(L + k)
               PROVE  /\ HandlerSupports(events'[j])
                      /\ events'[j].role \in CoreRoles(events'[j])
                      /\ events'[j].occurred <= now'
                      /\ revoked_at[events'[j].session] >= events'[j].occurred
    OBVIOUS
  <2>1. CASE j \in 1..L
    <3>1. events'[j] = events[j] /\ events[j].occurred \in 0..MaxNow
      BY <1>2, <1>3, <2>1
    <3>2. events[j].occurred <= now'
      BY <1>1, <1>3, <1>5, <2>1, <3>1
    <3> QED BY <1>5, <2>1, <3>1, <3>2
  <2>2. CASE j \notin 1..L
    <3>1. PICK i \in 1..k : j = L + i
      BY <1>4, <2>2
    <3>2. SaysTheSame(events'[j], new[i])
      BY <1>1, <3>1
    <3>3. /\ CoreRoles(events'[j]) = CoreRoles(new[i])
          /\ HandlerSupports(events'[j]) <=> HandlerSupports(new[i])
      BY <3>2, SameRoles
    <3>4. events'[j].session = new[i].session
      BY <3>2 DEF SaysTheSame
    <3>5. Never >= events'[j].occurred
      BY <1>3
    <3> QED BY <1>1, <3>1, <3>3, <3>4, <3>5
  <2> QED BY <2>1, <2>2
<1>7. \A i, j \in 1..(L + k) : i < j =>
        events'[i].occurred <= events'[j].occurred
  <2> SUFFICES ASSUME NEW i \in 1..(L + k), NEW j \in 1..(L + k), i < j
               PROVE  events'[i].occurred <= events'[j].occurred
    OBVIOUS
  <2>1. CASE j \in 1..L
    <3>1. i \in 1..L
      BY <1>2, <2>1
    <3> QED BY <1>2, <1>5, <2>1, <3>1
  <2>2. CASE i \in 1..L /\ j \notin 1..L
    <3>1. PICK n \in 1..k : j = L + n
      BY <1>4, <2>2
    <3>2. events'[i].occurred <= now /\ now <= events'[j].occurred
      BY <1>1, <1>2, <1>5, <2>2, <3>1
    <3> QED BY <1>3, <3>2
  <2>3. CASE i \notin 1..L
    <3>1. PICK m \in 1..k : i = L + m
      BY <1>4, <2>3
    <3>2. j \notin 1..L
      BY <1>2, <2>3
    <3>3. PICK n \in 1..k : j = L + n
      BY <1>4, <3>2
    <3>4. k = 2 /\ m = 1 /\ n = 2
      BY <1>2, <3>1, <3>3
    <3> QED BY <1>1, <3>1, <3>3, <3>4
  <2> QED BY <2>1, <2>2, <2>3
<1> QED BY <1>2, <1>6, <1>7 DEF Stamps, CoreRoles, HandlerSupports

(***************************************************************************)
(* What every command does to the ledger and its own row: it appends k     *)
(* events that follow on what replay has of the aggregate, and leaves the  *)
(* row in the state after the last of them.                                *)
(***************************************************************************)
Commits(a, k, new, v, late, tos) ==
  /\ new \in Seq(Draft) /\ Len(new) = k
  /\ late \in 0..2
  /\ \A i \in 1..k : new[i].agg = a /\ tos[i] \in StatesOf(a)
  /\ Appends(new, v, late)
  /\ Successors(Replayed.rows, new[1]) = {tos[1]}
  /\ k = 2 => Successors([Replayed.rows EXCEPT ![a] = Row(tos[1], v + 1)],
                         new[2]) = {tos[2]}
  /\ UNCHANGED <<revoked_at, faults>>
  /\ rows' = [rows EXCEPT ![a] = Row(tos[k], v + k)]

LEMMA CommandKeeps ==
  ASSUME Inv, NEW a \in Aggregates, NEW k \in 1..2, NEW new, NEW v, NEW late,
         NEW tos, Commits(a, k, new, v, late, tos)
  PROVE  /\ Versions' /\ Stamps' /\ Replays' /\ RowsStand'
         /\ now' \in 0..MaxNow
         /\ revoked_at' \in [Sessions -> 0..Never]
         /\ events' \in Seq(EventRow)
         /\ Len(events') <= MaxEvents
         /\ rows' \in [Aggregates -> AnyRow]
         /\ \A b \in Aggregates : rows'[b] \in RowOf(b)
         /\ faults' \in 0..MaxFaults
<1>0. /\ new \in Seq(Draft) /\ Len(new) = k
      /\ late \in 0..2
      /\ \A i \in 1..k : new[i].agg = a /\ tos[i] \in StatesOf(a)
      /\ Appends(new, v, late)
      /\ Successors(Replayed.rows, new[1]) = {tos[1]}
      /\ k = 2 => Successors([Replayed.rows EXCEPT ![a] = Row(tos[1], v + 1)],
                             new[2]) = {tos[2]}
      /\ UNCHANGED <<revoked_at, faults>>
      /\ rows' = [rows EXCEPT ![a] = Row(tos[k], v + k)]
  BY DEF Commits
<1>1. /\ Grown(a, k, v)
      /\ now' \in 0..MaxNow
      /\ \A i \in 1..k : SaysTheSame(events'[Len(events) + i], new[i])
  BY <1>0, AppendsGrow
<1>2. Stamps'
  BY <1>0, AppendsStamps
<1>3. /\ v \in Nat
      /\ \A b \in Aggregates : b # a => HeadVersion(b)' = HeadVersion(b)
      /\ Versions'
  BY <1>1, GrownVersions
<1>4. Follow(a, k, v, tos)
  <2>1. SaysTheSame(events'[Len(events) + 1], new[1])
    BY <1>1
  <2>2. k = 2 => SaysTheSame(events'[Len(events) + 2], new[2])
    BY <1>1
  <2>3. Successors(Replayed.rows, events'[Len(events) + 1]) = {tos[1]}
    BY <1>0, <2>1, SameSuccessors
  <2>4. k = 2 => Successors([Replayed.rows EXCEPT ![a] = Row(tos[1], v + 1)],
                            events'[Len(events) + 2]) = {tos[2]}
    BY <1>0, <2>2, SameSuccessors
  <2> QED BY <1>0, <2>3, <2>4 DEF Follow
<1>5. /\ Replayed'.rows = [Replayed.rows EXCEPT ![a] = Row(tos[k], v + k)]
      /\ Replays'
  BY <1>1, <1>4, GrownReplay
<1>6. /\ Row(tos[k], v + k) \in RowOf(a)
      /\ Row(tos[k], v + k) \in AnyRow
  <2>1. tos[k] \in StatesOf(a) /\ v + k \in Nat /\ v + k # 0
    BY <1>0, <1>3
  <2> QED BY <2>1, RowFacts
<1>7. /\ rows \in [Aggregates -> AnyRow]
      /\ \A b \in Aggregates : rows[b] \in RowOf(b)
      /\ Replayed.rows \in [Aggregates -> AnyRow]
  <2>1. Len(events) \in 0..Len(events)
    BY DEF Inv, LedgerType
  <2> QED BY <2>1 DEF Inv, LedgerType, Replays, Replayed
<1>8. /\ rows' \in [Aggregates -> AnyRow]
      /\ \A b \in Aggregates : rows'[b] \in RowOf(b)
  BY <1>0, <1>6, <1>7
<1>9. RowsStand'
  <2> SUFFICES ASSUME NEW b \in Aggregates
               PROVE  \/ rows'[b] = Replayed'.rows[b]
                      \/ /\ faults' # 0
                         /\ Planted(b)' \/ rows'[b].version < HeadVersion(b)'
    BY DEF RowsStand
  <2>1. CASE b = a
    BY <1>0, <1>5, <1>7, <2>1
  <2>2. CASE b # a
    <3>1. /\ rows'[b] = rows[b] /\ Replayed'.rows[b] = Replayed.rows[b]
          /\ HeadVersion(b)' = HeadVersion(b) /\ faults' = faults
      BY <1>0, <1>3, <1>5, <1>7, <2>2
    <3>2. Planted(b) => Planted(b)'
      BY <3>1 DEF Planted
    <3> QED BY <3>1, <3>2 DEF Inv, RowsStand
  <2> QED BY <2>1, <2>2
<1>10. /\ events' \in Seq(EventRow) /\ Len(events') <= MaxEvents
       /\ revoked_at' \in [Sessions -> 0..Never]
       /\ faults' \in 0..MaxFaults
  BY <1>0, <1>1 DEF Grown, Inv, LedgerType
<1> QED BY <1>1, <1>2, <1>3, <1>5, <1>8, <1>9, <1>10

-----------------------------------------------------------------------------
(* Claims, attempts and answers.                                           *)

LEMMA FiniteClaims ==
  ASSUME Inv, NEW t
  PROVE  IsFiniteSet(Claims(t)) /\ Cardinality(Claims(t)) \in Nat
<1>1. Len(events) \in Nat /\ DOMAIN events = 1..Len(events)
  BY DEF Inv, LedgerType
<1>2. IsFiniteSet(1..Len(events))
  BY <1>1, FS_Interval
<1>3. Claims(t) \subseteq 1..Len(events)
  BY <1>1 DEF Claims, HistoryOf
<1> QED BY <1>2, <1>3, FS_Subset, FS_CardinalityType

LEMMA GrownClaims ==
  ASSUME Inv, NEW a \in Aggregates, NEW k \in 1..2, NEW v, Grown(a, k, v)
  PROVE  /\ \A b \in Aggregates : b # a => Claims(b)' = Claims(b)
         /\ Claims(a)' =
              Claims(a) \cup {Len(events) + i : i \in {j \in 1..k :
                /\ events'[Len(events) + j].from = "ready"
                /\ events'[Len(events) + j].target = "leased"}}
<1> DEFINE L == Len(events)
<1>1. /\ L \in Nat /\ DOMAIN events = 1..L
      /\ HistoryOf(a)' = HistoryOf(a) \cup {L + i : i \in 1..k}
      /\ \A b \in Aggregates : b # a => HistoryOf(b)' = HistoryOf(b)
  BY GrownHistory
<1>2. \A b : \A i \in HistoryOf(b) : events'[i] = events[i]
  BY <1>1 DEF Grown, HistoryOf
<1>3. \A b \in Aggregates : b # a => Claims(b)' = Claims(b)
  BY <1>1, <1>2 DEF Claims
<1> HIDE DEF L
<1>4. Claims(a)' = Claims(a) \cup {L + i : i \in {j \in 1..k :
                     /\ events'[L + j].from = "ready"
                     /\ events'[L + j].target = "leased"}}
  BY <1>1, <1>2 DEF Claims
<1> QED BY <1>3, <1>4 DEF L

LEMMA AttemptsKept ==
  ASSUME Inv, NEW a \in Aggregates, NEW k \in 1..2, NEW v, Grown(a, k, v),
         \A b \in Aggregates : b # a => rows'[b] = rows[b],
         \A t \in Tasks : t # a => /\ attempt_count'[t] = attempt_count[t]
                                   /\ attempts'[t] = attempts[t],
         a \in Tasks => /\ attempt_count'[a] = Cardinality(Claims(a)')
                        /\ attempts'[a] = Cardinality(Claims(a)')
  PROVE  AttemptsCount' /\ AttemptsNotForgotten'
<1>1. /\ \A b \in Aggregates : b # a => Claims(b)' = Claims(b)
      /\ \A b \in Aggregates : b # a => HeadVersion(b)' = HeadVersion(b)
  BY GrownClaims, GrownVersions
<1>2. ASSUME NEW t \in Tasks
      PROVE  /\ Exists(t)' => attempts'[t] = Cardinality(Claims(t)')
             /\ Claims(t)' = {} => attempts'[t] = 0
             /\ Exists(t)' /\ rows'[t].version = HeadVersion(t)' =>
                  attempt_count'[t] = Cardinality(Claims(t)')
  <2>1. CASE t # a
    <3>1. /\ Claims(t)' = Claims(t) /\ HeadVersion(t)' = HeadVersion(t)
          /\ rows'[t] = rows[t]
          /\ attempt_count'[t] = attempt_count[t]
          /\ attempts'[t] = attempts[t]
      BY <1>1, <2>1, Bounds
    <3>2. Exists(t)' <=> Exists(t)
      BY <3>1 DEF Exists
    <3>3. /\ Exists(t) => attempts[t] = Cardinality(Claims(t))
          /\ Claims(t) = {} => attempts[t] = 0
          /\ Exists(t) /\ rows[t].version = HeadVersion(t) =>
               attempt_count[t] = Cardinality(Claims(t))
      BY DEF Inv, AttemptsCount, AttemptsNotForgotten
    <3>4. Cardinality(Claims(t)') = Cardinality(Claims(t))
      BY <3>1, Zenon
    <3> QED BY <3>1, <3>2, <3>3, <3>4
  <2>2. CASE t = a
    <3>1. /\ attempt_count'[t] = Cardinality(Claims(t)')
          /\ attempts'[t] = Cardinality(Claims(t)')
      BY <2>2
    <3>2. Claims(t)' = {} => Cardinality(Claims(t)') = Cardinality({})
      BY Zenon
    <3>3. Cardinality({}) = 0
      BY FS_EmptySet
    <3> QED BY <3>1, <3>2, <3>3
  <2> QED BY <2>1, <2>2
<1>3. AttemptsCount'
  BY <1>2 DEF AttemptsCount
<1>4. AttemptsNotForgotten'
  BY <1>2 DEF AttemptsNotForgotten
<1> QED BY <1>3, <1>4

Keyed == {i \in DOMAIN events : events[i].key # "none"}

Answer(e) == <<ScopeOf(e), e.agg, e.key>>

LEMMA AnswersAre ==
  AnswersApplied <=> /\ {Answer(events[i]) : i \in Keyed} = idempotency
                     /\ Cardinality(Keyed) = Cardinality(idempotency)
BY DEF AnswersApplied, Keyed, Answer

LEMMA FiniteKeyed ==
  ASSUME Inv
  PROVE  IsFiniteSet(Keyed) /\ Keyed \subseteq 1..Len(events)
<1>1. Len(events) \in Nat /\ DOMAIN events = 1..Len(events)
  BY DEF Inv, LedgerType
<1>2. IsFiniteSet(1..Len(events))
  BY <1>1, FS_Interval
<1>3. Keyed \subseteq 1..Len(events)
  BY <1>1 DEF Keyed
<1> QED BY <1>2, <1>3, FS_Subset

(* A command that answers under its key. *)
LEMMA AnswerSaved ==
  ASSUME Inv, NEW a \in Aggregates, NEW v, Grown(a, 1, v),
         NEW scope, NEW key \in Keys,
         events'[Len(events) + 1].key = key,
         ScopeOf(events'[Len(events) + 1]) = scope,
         Unanswered(scope, a, key), SaveAnswer(scope, a, key)
  PROVE  Answers'
<1> DEFINE L == Len(events)
           x == <<scope, a, key>>
<1>1. /\ L \in Nat /\ DOMAIN events = 1..L /\ DOMAIN events' = 1..(L + 1)
      /\ \A i \in 1..L : events'[i] = events[i]
      /\ events'[L + 1].agg = a
  BY GrownHistory DEF Grown
<1>2. /\ IsFiniteSet(Keyed) /\ Keyed \subseteq 1..L
      /\ IsFiniteSet(idempotency)
      /\ {Answer(events[i]) : i \in Keyed} = idempotency
      /\ Cardinality(Keyed) = Cardinality(idempotency)
  BY FiniteKeyed, AnswersAre DEF Inv, Answers
<1>3. key # "none"
  BY LedgerAssumption
<1>4. Keyed' = Keyed \cup {L + 1} /\ L + 1 \notin Keyed
  <2>1. \A i : i \in 1..(L + 1) <=> i \in 1..L \/ i = L + 1
    BY <1>1
  <2> HIDE DEF L
  <2>2. Keyed' = {i \in 1..(L + 1) : events'[i].key # "none"}
    BY <1>1 DEF Keyed
  <2>3. Keyed = {i \in 1..L : events[i].key # "none"}
    BY <1>1 DEF Keyed
  <2>4. events'[L + 1].key # "none"
    BY <1>3 DEF L
  <2> QED BY <1>1, <2>1, <2>2, <2>3, <2>4
<1>5. Answer(events'[L + 1]) = x
  BY <1>1 DEF Answer
<1>6. /\ idempotency' = idempotency \cup {x}
      /\ x \notin idempotency
  BY DEF SaveAnswer, Unanswered
<1> HIDE DEF x, L
<1>7. {Answer(events'[i]) : i \in Keyed'} = idempotency'
  <2>1. \A i \in Keyed : Answer(events'[i]) = Answer(events[i])
    BY <1>1, <1>2
  <2> QED BY <1>2, <1>4, <1>5, <1>6, <2>1
<1>8. /\ IsFiniteSet(idempotency')
      /\ Cardinality(idempotency') = Cardinality(idempotency) + 1
  BY <1>2, <1>6, FS_AddElement
<1>9. Cardinality(Keyed') = Cardinality(Keyed) + 1
  BY <1>2, <1>4, FS_AddElement
<1>10. Cardinality(Keyed') = Cardinality(idempotency')
  BY <1>2, <1>8, <1>9
<1>11. AnswersApplied'
  <2>1. (/\ {Answer(events[i]) : i \in Keyed} = idempotency
         /\ Cardinality(Keyed) = Cardinality(idempotency))'
    BY <1>7, <1>10 DEF Answer, ScopeOf
  <2> QED BY <2>1 DEF AnswersApplied, Keyed, Answer
<1> QED BY <1>8, <1>11 DEF Answers

(* Moves of the scheduler carry no key. *)
LEMMA AnswersSame ==
  ASSUME Inv, NEW a \in Aggregates, NEW k \in 1..2, NEW v, Grown(a, k, v),
         \A i \in 1..k : events'[Len(events) + i].key = "none",
         UNCHANGED idempotency
  PROVE  Answers'
<1> DEFINE L == Len(events)
<1>1. /\ L \in Nat /\ DOMAIN events = 1..L /\ DOMAIN events' = 1..(L + k)
      /\ \A i \in 1..L : events'[i] = events[i]
  BY GrownHistory DEF Grown
<1>2. \A j \in 1..(L + k) : j \notin 1..L => events'[j].key = "none"
  <2> SUFFICES ASSUME NEW j \in 1..(L + k), j \notin 1..L
               PROVE  events'[j].key = "none"
    OBVIOUS
  <2>1. j - L \in 1..k /\ j = L + (j - L)
    BY <1>1
  <2> QED BY <2>1
<1>3. \A j \in 1..L : j \in 1..(L + k)
  BY <1>1
<1> HIDE DEF L
<1>4. Keyed' = Keyed /\ Keyed \subseteq 1..L
  BY <1>1, <1>2, <1>3 DEF Keyed
<1>5. \A i \in Keyed : events'[i] = events[i]
  BY <1>1, <1>4
<1>6. {Answer(events[i]) : i \in Keyed} = idempotency
      /\ Cardinality(Keyed) = Cardinality(idempotency)
      /\ IsFiniteSet(idempotency)
  BY AnswersAre DEF Inv, Answers
<1>7. {Answer(events'[i]) : i \in Keyed'} = idempotency'
  BY <1>4, <1>5, <1>6
<1>8. Cardinality(Keyed') = Cardinality(idempotency')
  BY <1>4, <1>6
<1>9. AnswersApplied'
  BY <1>7, <1>8 DEF AnswersApplied, Keyed, Answer
<1> QED BY <1>6, <1>9 DEF Answers

-----------------------------------------------------------------------------
(* Commands that append one event and answer.                              *)

LEMMA LedgerTyped ==
  ASSUME Inv,
         now' \in 0..MaxNow, revoked_at' \in [Sessions -> 0..Never],
         events' \in Seq(EventRow), Len(events') <= MaxEvents,
         rows' \in [Aggregates -> AnyRow],
         \A b \in Aggregates : rows'[b] \in RowOf(b),
         faults' \in 0..MaxFaults,
         idempotency' \subseteq Scope \X Aggregates \X Keys,
         attempt_count' \in [Tasks -> Nat], attempts' \in [Tasks -> Nat]
  PROVE  LedgerType'
BY DEF LedgerType

LEMMA EventTypes ==
  {"goal_created", "task_added", "task_state_changed", "owner_intent_received"}
    \subseteq EventType
<1>1. Rule("blocked_missing_state", "owner_intent_received", {}, "intake")
        \in LOOP_TRANSITIONS
  BY DEF LOOP_TRANSITIONS
<1>2. Rule("blocked_missing_state", "owner_intent_received", {}, "intake").event
        = "owner_intent_received"
  BY DEF Rule
<1> QED BY <1>1, <1>2 DEF EventType

(* A command of one event d under an idempotency key. *)
Answered(a, d, v, late, to, scope) ==
  /\ d \in Draft /\ d.agg = a
  /\ late \in 0..1
  /\ Appends(<<d>>, v, late)
  /\ to \in StatesOf(a)
  /\ Successors(Replayed.rows, d) = {to}
  /\ UNCHANGED <<revoked_at, faults, attempts>>
  /\ rows' = [rows EXCEPT ![a] = Row(to, v + 1)]
  /\ d.key \in Keys /\ scope \in Scope
  /\ Unanswered(scope, a, d.key)
  /\ SaveAnswer(scope, a, d.key)
  /\ \A e : SaysTheSame(e, d) /\ e.version = v + 1 => ScopeOf(e) = scope
  /\ ~ (d.from = "ready" /\ d.target = "leased")
  /\ attempt_count' \in [Tasks -> Nat]
  /\ \A t \in Tasks : t # a => attempt_count'[t] = attempt_count[t]
  /\ a \in Tasks => /\ attempt_count'[a] = Cardinality(Claims(a))
                    /\ attempts[a] = Cardinality(Claims(a))

LEMMA OneEvent ==
  ASSUME Inv, NEW a \in Aggregates, NEW d, NEW v, NEW late, NEW to, NEW scope,
         Answered(a, d, v, late, to, scope)
  PROVE  Inv'
<1> USE DEF Answered
<1> DEFINE new == <<d>>
           tos == <<to>>
<1>1. /\ new \in Seq(Draft) /\ Len(new) = 1 /\ new[1] = d
      /\ tos[1] = to /\ \A i \in 1..1 : i = 1
  OBVIOUS
<1>2. late \in 0..2 /\ 1 \in 1..2
  OBVIOUS
<1>3. Appends(new, v, late)
  OBVIOUS
<1> HIDE DEF new, tos
<1>4. /\ Grown(a, 1, v)
      /\ SaysTheSame(events'[Len(events) + 1], d)
  BY <1>1, <1>2, <1>3, AppendsGrow
<1>5. /\ Versions' /\ Stamps' /\ Replays' /\ RowsStand'
      /\ now' \in 0..MaxNow
      /\ revoked_at' \in [Sessions -> 0..Never]
      /\ events' \in Seq(EventRow)
      /\ Len(events') <= MaxEvents
      /\ rows' \in [Aggregates -> AnyRow]
      /\ \A b \in Aggregates : rows'[b] \in RowOf(b)
      /\ faults' \in 0..MaxFaults
  <2>1. Commits(a, 1, new, v, late, tos)
    BY <1>1, <1>2, <1>3 DEF Commits
  <2> QED BY <1>2, <2>1, CommandKeeps
<1>6. Answers'
  <2>1. events'[Len(events) + 1].version = v + 1
    BY <1>4 DEF Grown
  <2>2. /\ events'[Len(events) + 1].key = d.key
        /\ ScopeOf(events'[Len(events) + 1]) = scope
    <3>1. ScopeOf(events'[Len(events) + 1]) = scope
      BY <1>4, <2>1
    <3> QED BY <1>4, <3>1 DEF SaysTheSame
  <2> QED BY <1>4, <2>2, AnswerSaved
<1>7. AttemptsCount' /\ AttemptsNotForgotten'
  <2>1. Claims(a)' = Claims(a)
    <3>1. ~ (/\ events'[Len(events) + 1].from = "ready"
             /\ events'[Len(events) + 1].target = "leased")
      BY <1>4 DEF SaysTheSame
    <3>2. Claims(a)' =
            Claims(a) \cup {Len(events) + i : i \in {j \in 1..1 :
              /\ events'[Len(events) + j].from = "ready"
              /\ events'[Len(events) + j].target = "leased"}}
      BY <1>2, <1>4, GrownClaims
    <3> QED BY <1>1, <3>1, <3>2
  <2>2. Cardinality(Claims(a)') = Cardinality(Claims(a))
    BY <2>1, Zenon
  <2>3. \A b \in Aggregates : b # a => rows'[b] = rows[b]
    BY DEF Inv, LedgerType
  <2>4. /\ \A t \in Tasks : t # a => /\ attempt_count'[t] = attempt_count[t]
                                     /\ attempts'[t] = attempts[t]
        /\ a \in Tasks => /\ attempt_count'[a] = Cardinality(Claims(a)')
                          /\ attempts'[a] = Cardinality(Claims(a)')
    BY <2>2
  <2> QED BY <1>2, <1>4, <2>3, <2>4, AttemptsKept
<1>8. LedgerType'
  <2>1. idempotency' \subseteq Scope \X Aggregates \X Keys
    BY DEF SaveAnswer, Inv, LedgerType
  <2>2. attempts' \in [Tasks -> Nat]
    BY DEF Inv, LedgerType
  <2> QED BY <1>5, <2>1, <2>2, LedgerTyped
<1> QED BY <1>5, <1>6, <1>7, <1>8 DEF Inv

-----------------------------------------------------------------------------
(* What a command knows of the rows it has read.                           *)

LEMMA ReplayedRows ==
  ASSUME Inv, NEW a \in Aggregates
  PROVE  /\ Replayed.rows \in [Aggregates -> AnyRow]
         /\ Replayed.rows[a] \in RowOf(a) /\ rows[a] \in RowOf(a)
         /\ Replayed.rows[a].version = HeadVersion(a)
         /\ HeadVersion(a) \in Nat
<1>1. Len(events) \in 0..Len(events)
  BY DEF Inv, LedgerType
<1> QED BY <1>1 DEF Inv, LedgerType, Replays, Replayed, Versions

LEMMA UpToDate ==
  ASSUME Inv, NEW a \in Aggregates, Exists(a),
         rows[a].version = HeadVersion(a)
  PROVE  /\ rows[a] = Replayed.rows[a]
         /\ rows[a] # NoRow
         /\ rows[a].version \in Nat \ {0}
         /\ rows[a].state \in StatesOf(a)
<1>1. rows[a] \in RowOf(a) /\ rows[a] # NoRow
  BY ReplayedRows DEF Exists
<1>2. rows[a].version \in Nat \ {0} /\ rows[a].state \in StatesOf(a)
  BY <1>1, RowFacts
<1>3. ~ (rows[a].version < HeadVersion(a))
  BY <1>2
<1>4. ~ Planted(a)
  BY <1>2 DEF Planted
<1> QED BY <1>1, <1>2, <1>3, <1>4 DEF Inv, RowsStand

LEMMA NoHistory ==
  ASSUME Inv, NEW a \in Aggregates, HeadVersion(a) = 0
  PROVE  /\ Replayed.rows[a] = NoRow
         /\ Claims(a) = {}
         /\ Cardinality(Claims(a)) = 0
<1>1. Replayed.rows[a] = NoRow
  BY ReplayedRows, RowFacts
<1>2. {events[i].version : i \in HistoryOf(a)} = {}
  <2>1. {events[i].version : i \in HistoryOf(a)} = 1..HeadVersion(a)
    BY DEF Inv, Versions
  <2>2. 1..HeadVersion(a) = {}
    OBVIOUS
  <2> QED BY <2>1, <2>2
<1>3. Claims(a) = {}
  BY <1>2 DEF Claims
<1> QED BY <1>1, <1>3, FS_EmptySet

(* Rows of a goal or a run are not planted: what exists has a history. *)
LEMMA ParentReplayed ==
  ASSUME Inv, NEW a \in {"goal", "run"}, Exists(a)
  PROVE  Replayed.rows[a] # NoRow
<1>1. a \in Aggregates /\ ~ Planted(a)
  BY Bounds DEF Planted
<1>2. rows[a] \in RowOf(a) /\ Replayed.rows[a] \in RowOf(a) /\ rows[a] # NoRow
      /\ Replayed.rows[a].version = HeadVersion(a)
  BY <1>1, ReplayedRows DEF Exists
<1>3. rows[a].version \in Nat
  BY <1>1, <1>2, RowFacts
<1>4. NoRow.version = 0
  BY <1>1, RowFacts
<1> QED BY <1>1, <1>2, <1>3, <1>4 DEF Inv, RowsStand

-----------------------------------------------------------------------------
(* The commands.                                                           *)

LEMMA RuleFacts ==
  \A r \in LOOP_TRANSITIONS :
    /\ r.to \in LoopState
    /\ r.event \notin {"goal_created", "task_added"}
BY DEF LOOP_TRANSITIONS, Rule, LoopState

(* At most one rule leaves a state by an event. *)
LEMMA OneRule ==
  \A r, q \in LOOP_TRANSITIONS :
    r.from = q.from /\ r.event = q.event => r.to = q.to
<1> SUFFICES ASSUME NEW r \in LOOP_TRANSITIONS, NEW q \in LOOP_TRANSITIONS,
                    r.from = q.from, r.event = q.event
             PROVE  r.to = q.to
  OBVIOUS
<1> QED BY DEF LOOP_TRANSITIONS, Rule

LEMMA CreateGoalKeeps ==
  ASSUME Inv, NEW s \in Sessions, NEW key \in Keys, NEW late \in 0..1,
         CreateGoal(s, key, late)
  PROVE  Inv'
<1> DEFINE d == Event("goal", "goal_created", "none", "none", {},
                      "runtime_kernel", s, key)
<1>1. "goal" \in Aggregates /\ "goal" \notin Tasks
  BY Bounds
<1>2. /\ d \in Draft /\ d.agg = "goal" /\ d.type = "goal_created"
      /\ d.from = "none" /\ d.target = "none" /\ d.key = key
  BY <1>1, EventTypes DEF Event, Draft
<1>3. Appends(<<d>>, 0, late)
  BY DEF CreateGoal
<1> HIDE DEF d
<1>4. HeadVersion("goal") = 0
  BY <1>2, <1>3 DEF Appends
<1>5. Successors(Replayed.rows, d) = {"compiled"}
  <2>1. Replayed.rows["goal"] = NoRow
    BY <1>1, <1>4, NoHistory
  <2> QED BY <1>2, <2>1 DEF Successors, FirstState, FirstEvent, Parents
<1>6. \A e : SaysTheSame(e, d) /\ e.version = 0 + 1 => ScopeOf(e) = "goal.create"
  BY <1>2 DEF SaysTheSame, ScopeOf
<1>7. Answered("goal", d, 0, late, "compiled", "goal.create")
  <2>1. /\ rows' = [rows EXCEPT !["goal"] = Row("compiled", 0 + 1)]
        /\ Unanswered("goal.create", "goal", key)
        /\ SaveAnswer("goal.create", "goal", key)
        /\ UNCHANGED <<revoked_at, attempt_count, attempts, faults>>
    BY DEF CreateGoal
  <2>2. "compiled" \in StatesOf("goal") /\ "goal.create" \in Scope
    BY DEF StatesOf, Scope
  <2>3. attempt_count \in [Tasks -> Nat]
    BY DEF Inv, LedgerType
  <2> QED BY <1>1, <1>2, <1>3, <1>5, <1>6, <2>1, <2>2, <2>3 DEF Answered
<1> QED BY <1>1, <1>7, OneEvent

LEMMA CreateRunKeeps ==
  ASSUME Inv, NEW s \in Sessions, NEW key \in Keys, NEW late \in 0..1,
         CreateRun(s, key, late)
  PROVE  Inv'
<1> DEFINE d == Event("run", "owner_intent_received", "none", "none", {},
                      "runtime_kernel", s, key)
<1>1. "run" \in Aggregates /\ "run" \notin Tasks
  BY Bounds
<1>2. /\ d \in Draft /\ d.agg = "run" /\ d.type = "owner_intent_received"
      /\ d.from = "none" /\ d.target = "none" /\ d.key = key
  BY <1>1, EventTypes DEF Event, Draft
<1>3. Appends(<<d>>, 0, late)
  BY DEF CreateRun
<1> HIDE DEF d
<1>4. HeadVersion("run") = 0
  BY <1>2, <1>3 DEF Appends
<1>5. Successors(Replayed.rows, d) = {"intake"}
  <2>1. Replayed.rows["run"] = NoRow
    BY <1>1, <1>4, NoHistory
  <2>2. Replayed.rows["goal"] # NoRow
    BY ParentReplayed DEF CreateRun
  <2> QED BY <1>2, <2>1, <2>2 DEF Successors, FirstState, FirstEvent, Parents
<1>6. \A e : SaysTheSame(e, d) /\ e.version = 0 + 1 => ScopeOf(e) = "run.create"
  BY <1>2 DEF SaysTheSame, ScopeOf
<1>7. Answered("run", d, 0, late, "intake", "run.create")
  <2>1. /\ rows' = [rows EXCEPT !["run"] = Row("intake", 0 + 1)]
        /\ Unanswered("run.create", "run", key)
        /\ SaveAnswer("run.create", "run", key)
        /\ UNCHANGED <<revoked_at, attempt_count, attempts, faults>>
    BY DEF CreateRun
  <2>2. "intake" \in StatesOf("run") /\ "run.create" \in Scope
    BY DEF StatesOf, Scope, LoopState
  <2>3. attempt_count \in [Tasks -> Nat]
    BY DEF Inv, LedgerType
  <2> QED BY <1>1, <1>2, <1>3, <1>5, <1>6, <2>1, <2>2, <2>3 DEF Answered
<1> QED BY <1>1, <1>7, OneEvent

LEMMA AddTaskKeeps ==
  ASSUME Inv, NEW t \in Tasks, NEW s \in Sessions, NEW key \in Keys,
         NEW late \in 0..1, AddTask(t, s, key, late)
  PROVE  Inv'
<1> DEFINE d == Event(t, "task_added", "none", "none", {},
                      "runtime_kernel", s, key)
<1>1. t \in Aggregates /\ t # "goal" /\ t # "run"
  BY Bounds
<1>2. /\ d \in Draft /\ d.agg = t /\ d.type = "task_added"
      /\ d.from = "none" /\ d.target = "none" /\ d.key = key
  BY <1>1, EventTypes DEF Event, Draft
<1>3. Appends(<<d>>, 0, late)
  BY DEF AddTask
<1> HIDE DEF d
<1>4. HeadVersion(t) = 0
  BY <1>2, <1>3 DEF Appends
<1>5. /\ Replayed.rows[t] = NoRow
      /\ Claims(t) = {} /\ Cardinality(Claims(t)) = 0
  BY <1>1, <1>4, NoHistory
<1>6. Successors(Replayed.rows, d) = {"ready"}
  <2>1. Replayed.rows["goal"] # NoRow /\ Replayed.rows["run"] # NoRow
    BY ParentReplayed DEF AddTask
  <2> QED BY <1>1, <1>2, <1>5, <2>1
          DEF Successors, FirstState, FirstEvent, Parents
<1>7. \A e : SaysTheSame(e, d) /\ e.version = 0 + 1 => ScopeOf(e) = "task.add"
  BY <1>1, <1>2 DEF SaysTheSame, ScopeOf
<1>8. Answered(t, d, 0, late, "ready", "task.add")
  <2>1. /\ rows' = [rows EXCEPT ![t] = Row("ready", 0 + 1)]
        /\ Unanswered("task.add", t, key)
        /\ SaveAnswer("task.add", t, key)
        /\ attempt_count' = [attempt_count EXCEPT ![t] = 0]
        /\ UNCHANGED <<revoked_at, attempts, faults>>
    BY DEF AddTask
  <2>2. "ready" \in StatesOf(t) /\ "task.add" \in Scope
    BY <1>1 DEF StatesOf, Scope, TaskState
  <2>3. attempt_count \in [Tasks -> Nat] /\ attempts[t] = 0
    BY <1>5 DEF Inv, LedgerType, AttemptsCount
  <2>4. /\ attempt_count' \in [Tasks -> Nat] /\ attempt_count'[t] = 0
        /\ \A u \in Tasks : u # t => attempt_count'[u] = attempt_count[u]
    BY <2>1, <2>3
  <2> QED BY <1>1, <1>2, <1>3, <1>5, <1>6, <1>7, <2>1, <2>2, <2>3, <2>4
          DEF Answered
<1> QED BY <1>1, <1>8, OneEvent

LEMMA AdvanceLoopKeeps ==
  ASSUME Inv, NEW rule \in LOOP_TRANSITIONS, NEW s \in Sessions,
         NEW key \in Keys, NEW late \in 0..1,
         AdvanceLoop(rule, s, key, late)
  PROVE  Inv'
<1> DEFINE d == Event("run", rule.event, "none", "none", rule.guards,
                      "runtime_kernel", s, key)
           v == rows["run"].version
<1>1. "run" \in Aggregates /\ "run" \notin Tasks
  BY Bounds
<1>2. /\ d \in Draft /\ d.agg = "run" /\ d.type = rule.event
      /\ d.from = "none" /\ d.target = "none" /\ d.guards = rule.guards
      /\ d.key = key
  <2>1. /\ rule.event \in EventType
        /\ rule.guards \in SUBSET UNION {r.guards : r \in LOOP_TRANSITIONS}
    BY DEF EventType
  <2> QED BY <1>1, <2>1 DEF Event, Draft
<1>3. /\ Appends(<<d>>, v, late)
      /\ Exists("run") /\ rule.from = rows["run"].state
  BY DEF AdvanceLoop
<1> HIDE DEF d
<1>4. HeadVersion("run") = v
  BY <1>2, <1>3 DEF Appends
<1>5. /\ rows["run"] = Replayed.rows["run"] /\ rows["run"] # NoRow
      /\ v \in Nat \ {0}
  BY <1>1, <1>3, <1>4, UpToDate
<1>6. Successors(Replayed.rows, d) = {rule.to}
  <2>1. Successors(Replayed.rows, d) =
          {r.to : r \in {q \in LOOP_TRANSITIONS :
                /\ q.from = rule.from /\ q.event = rule.event
                /\ q.guards \subseteq rule.guards}}
    BY <1>2, <1>3, <1>5 DEF Successors
  <2> QED BY <2>1, OneRule
<1>7. \A e : SaysTheSame(e, d) /\ e.version = v + 1 => ScopeOf(e) = "run.event"
  <2>1. v + 1 # 1
    BY <1>5
  <2>2. rule.event \notin {"goal_created", "task_added"}
    BY RuleFacts
  <2> QED BY <1>2, <2>1, <2>2 DEF SaysTheSame, ScopeOf
<1>8. Answered("run", d, v, late, rule.to, "run.event")
  <2>1. /\ rows' = [rows EXCEPT !["run"] = Row(rule.to, v + 1)]
        /\ Unanswered("run.event", "run", key)
        /\ SaveAnswer("run.event", "run", key)
        /\ UNCHANGED <<revoked_at, attempt_count, attempts, faults>>
    BY DEF AdvanceLoop
  <2>2. rule.to \in StatesOf("run") /\ "run.event" \in Scope
    BY RuleFacts DEF StatesOf, Scope
  <2>3. attempt_count \in [Tasks -> Nat]
    BY DEF Inv, LedgerType
  <2> QED BY <1>1, <1>2, <1>3, <1>6, <1>7, <2>1, <2>2, <2>3 DEF Answered
<1> QED BY <1>1, <1>8, OneEvent

LEMMA KernelMoveKeeps ==
  ASSUME Inv, NEW t \in Tasks, NEW to \in TaskTargets, NEW s \in Sessions,
         NEW key \in Keys, NEW late \in 0..1, KernelMove(t, to, s, key, late)
  PROVE  Inv'
<1> DEFINE from == rows[t].state
           scope == KernelScope(from, to)
           v == rows[t].version
           d == Event(t, "task_state_changed", from, to, {},
                      "runtime_kernel", s, key)
<1>1. t \in Aggregates /\ t # "goal" /\ t # "run" /\ to \in TaskState
  BY Bounds, LedgerAssumption
<1>2. /\ Exists(t) /\ scope # "none" /\ Unanswered(scope, t, key)
      /\ TaskMayMove(from, to)
      /\ Appends(<<d>>, v, late)
      /\ rows' = [rows EXCEPT ![t] = Row(to, v + 1)]
      /\ SaveAnswer(scope, t, key)
      /\ UNCHANGED <<revoked_at, attempt_count, attempts, faults>>
  BY DEF KernelMove
<1>3. d.agg = t
  BY DEF Event
<1>4. HeadVersion(t) = v
  BY <1>2, <1>3 DEF Appends
<1>5. /\ rows[t] = Replayed.rows[t] /\ rows[t] # NoRow
      /\ from \in TaskState
  BY <1>1, <1>2, <1>4, UpToDate DEF StatesOf
<1>6. /\ d \in Draft /\ d.agg = t /\ d.type = "task_state_changed"
      /\ d.from = from /\ d.target = to /\ d.key = key
  BY <1>1, <1>5, EventTypes DEF Event, Draft
<1> HIDE DEF d
<1>7. Successors(Replayed.rows, d) = {to}
  BY <1>1, <1>2, <1>5, <1>6 DEF Successors
<1>8. \A e : SaysTheSame(e, d) /\ e.version = v + 1 => ScopeOf(e) = scope
  BY <1>1, <1>6 DEF SaysTheSame, ScopeOf
<1>9. scope \in Scope /\ ~ (from = "ready" /\ to = "leased")
  BY <1>2 DEF KernelScope, Scope
<1>10. Answered(t, d, v, late, to, scope)
  <2>1. to \in StatesOf(t)
    BY <1>1 DEF StatesOf
  <2>2. /\ attempt_count \in [Tasks -> Nat]
        /\ attempts[t] = Cardinality(Claims(t))
        /\ attempt_count[t] = Cardinality(Claims(t))
    BY <1>2, <1>4 DEF Inv, LedgerType, AttemptsCount, AttemptsNotForgotten
  <2> HIDE DEF from, scope, v
  <2> QED BY <1>2, <1>6, <1>7, <1>8, <1>9, <2>1, <2>2 DEF Answered
<1> QED BY <1>1, <1>10, OneEvent

(* The paths of the scheduler run along the task table. *)
PathOK(path) ==
  /\ Len(path) \in 2..3
  /\ path[1] \in TaskState /\ path[2] \in TaskState
  /\ TaskMayMove(path[1], path[2])
  /\ path[2] = "leased" => path[1] = "ready" /\ Len(path) = 2
  /\ path[1] = "ready" => path[2] = "leased"
  /\ Len(path) = 3 => /\ path[3] \in TaskState
                      /\ TaskMayMove(path[2], path[3])
                      /\ path[2] # "ready"

LEMMA PathFacts ==
  ASSUME NEW path \in SchedulerPaths
  PROVE  PathOK(path)
<1>1. \/ path = <<"ready", "leased">>
      \/ path = <<"leased", "running">>
      \/ path = <<"running", "evidence_pending">>
      \/ path = <<"running", "failed">>
      \/ path = <<"running", "failed", "retry_pending">>
      \/ path = <<"retry_pending", "ready">>
      \/ path = <<"leased", "retry_pending">>
      \/ path = <<"running", "retry_pending">>
      \/ path = <<"leased", "retry_pending", "failed">>
      \/ path = <<"running", "retry_pending", "failed">>
  BY DEF SchedulerPaths
<1>2. ASSUME NEW x, NEW y, path = <<x, y>>
      PROVE  /\ Len(path) = 2 /\ path[1] = x /\ path[2] = y
             /\ Len(path) \in 2..3 /\ Len(path) # 3
  BY <1>2
<1>3. ASSUME NEW x, NEW y, NEW z, path = <<x, y, z>>
      PROVE  /\ Len(path) = 3 /\ path[1] = x /\ path[2] = y /\ path[3] = z
             /\ Len(path) \in 2..3
  BY <1>3
<1>4. /\ TaskMayMove("ready", "leased") /\ TaskMayMove("leased", "running")
      /\ TaskMayMove("running", "evidence_pending")
      /\ TaskMayMove("running", "failed")
      /\ TaskMayMove("failed", "retry_pending")
      /\ TaskMayMove("retry_pending", "ready")
      /\ TaskMayMove("leased", "retry_pending")
      /\ TaskMayMove("running", "retry_pending")
      /\ TaskMayMove("retry_pending", "failed")
  BY DEF TaskMayMove, TASK_TRANSITIONS
<1>5. CASE path = <<"ready", "leased">>
  BY <1>2, <1>4, <1>5 DEF PathOK, TaskState
<1>6. CASE path = <<"leased", "running">>
  BY <1>2, <1>4, <1>6 DEF PathOK, TaskState
<1>7. CASE path = <<"running", "evidence_pending">>
  BY <1>2, <1>4, <1>7 DEF PathOK, TaskState
<1>8. CASE path = <<"running", "failed">>
  BY <1>2, <1>4, <1>8 DEF PathOK, TaskState
<1>9. CASE path = <<"running", "failed", "retry_pending">>
  BY <1>3, <1>4, <1>9 DEF PathOK, TaskState
<1>10. CASE path = <<"retry_pending", "ready">>
  BY <1>2, <1>4, <1>10 DEF PathOK, TaskState
<1>11. CASE path = <<"leased", "retry_pending">>
  BY <1>2, <1>4, <1>11 DEF PathOK, TaskState
<1>12. CASE path = <<"running", "retry_pending">>
  BY <1>2, <1>4, <1>12 DEF PathOK, TaskState
<1>13. CASE path = <<"leased", "retry_pending", "failed">>
  BY <1>3, <1>4, <1>13 DEF PathOK, TaskState
<1>14. CASE path = <<"running", "retry_pending", "failed">>
  BY <1>3, <1>4, <1>14 DEF PathOK, TaskState
<1> QED BY <1>1, <1>5, <1>6, <1>7, <1>8, <1>9, <1>10, <1>11, <1>12,
           <1>13, <1>14

LEMMA SchedulerMoveKeeps ==
  ASSUME Inv, NEW t \in Tasks, NEW path \in SchedulerPaths,
         NEW s \in Sessions, NEW late \in 0..2,
         SchedulerMove(t, path, s, late)
  PROVE  Inv'
<1> DEFINE k == Len(path) - 1
           v == rows[t].version
           opens == IF path[2] = "leased" THEN 1 ELSE 0
           moves == [i \in 1..k |->
                       Event(t, "task_state_changed", path[i], path[i + 1], {},
                             "task_scheduler", s, "none")]
           tos == [i \in 1..k |-> path[i + 1]]
           L == Len(events)
<1>1. t \in Aggregates /\ t # "goal" /\ t # "run"
  BY Bounds
<1>2. PathOK(path)
  BY PathFacts
<1>3. k \in 1..2 /\ Len(path) = k + 1
  BY <1>2 DEF PathOK
<1>4. \A i \in 1..k : path[i] \in TaskState /\ path[i + 1] \in TaskState
  BY <1>2, <1>3 DEF PathOK
<1>5. \A i \in 1..k :
        /\ moves[i] \in Draft /\ moves[i].agg = t
        /\ moves[i].type = "task_state_changed" /\ moves[i].key = "none"
        /\ moves[i].from = path[i] /\ moves[i].target = path[i + 1]
  <2> SUFFICES ASSUME NEW i \in 1..k
               PROVE  /\ moves[i] \in Draft /\ moves[i].agg = t
                      /\ moves[i].type = "task_state_changed"
                      /\ moves[i].key = "none"
                      /\ moves[i].from = path[i]
                      /\ moves[i].target = path[i + 1]
    OBVIOUS
  <2>1. moves[i] = Event(t, "task_state_changed", path[i], path[i + 1], {},
                         "task_scheduler", s, "none")
    OBVIOUS
  <2> HIDE DEF moves, k
  <2> QED BY <1>1, <1>4, <2>1, EventTypes DEF Event, Draft
<1>6. moves \in Seq(Draft) /\ Len(moves) = k
  <2>1. moves \in [1..k -> Draft]
    BY <1>5
  <2> HIDE DEF moves, k
  <2> QED BY <1>3, <2>1
<1>7. /\ Exists(t) /\ rows[t].state = path[1]
      /\ Appends(moves, v, late)
      /\ rows' = [rows EXCEPT ![t] = Row(path[Len(path)], v + Len(moves))]
      /\ attempt_count' = [attempt_count EXCEPT ![t] = @ + opens]
      /\ attempts' = [attempts EXCEPT ![t] = @ + opens]
      /\ UNCHANGED <<revoked_at, idempotency, faults>>
  BY DEF SchedulerMove
<1>8. /\ \A i \in 1..k : tos[i] = path[i + 1]
      /\ tos[k] = path[Len(path)]
  BY <1>3
<1> HIDE DEF k, moves, tos, opens
<1>9. HeadVersion(t) = v
  <2>1. moves[1].agg = t
    BY <1>3, <1>5
  <2> QED BY <1>7, <2>1 DEF Appends
<1>10. /\ rows[t] = Replayed.rows[t] /\ rows[t] # NoRow
       /\ v \in Nat \ {0}
  BY <1>1, <1>7, <1>9, UpToDate
<1>11. Commits(t, k, moves, v, late, tos)
  <2>1. \A i \in 1..k : tos[i] \in StatesOf(t)
    BY <1>1, <1>4, <1>8 DEF StatesOf
  <2>2. 1 \in 1..k /\ (k = 2 => 2 \in 1..k)
    BY <1>3
  <2>3. Successors(Replayed.rows, moves[1]) = {tos[1]}
    <3>1. /\ moves[1].agg = t /\ moves[1].type = "task_state_changed"
          /\ moves[1].from = path[1] /\ moves[1].target = path[2]
          /\ tos[1] = path[2]
      BY <1>5, <1>8, <2>2
    <3> QED BY <1>1, <1>2, <1>7, <1>10, <3>1 DEF Successors, PathOK
  <2>4. k = 2 => Successors([Replayed.rows EXCEPT ![t] = Row(tos[1], v + 1)],
                            moves[2]) = {tos[2]}
    <3> SUFFICES ASSUME k = 2
                 PROVE  Successors([Replayed.rows EXCEPT ![t] =
                                      Row(tos[1], v + 1)], moves[2]) = {tos[2]}
      OBVIOUS
    <3>1. /\ moves[2].agg = t /\ moves[2].type = "task_state_changed"
          /\ moves[2].from = path[2] /\ moves[2].target = path[3]
          /\ tos[1] = path[2] /\ tos[2] = path[3]
      BY <1>5, <1>8, <2>2
    <3>2. /\ Row(tos[1], v + 1).state = path[2]
          /\ Row(tos[1], v + 1) # NoRow
      <4>1. v + 1 # 0
        BY <1>10
      <4> QED BY <3>1, <4>1 DEF Row, NoRow
    <3>3. TaskMayMove(path[2], path[3])
      BY <1>2, <1>3 DEF PathOK
    <3> DEFINE x == Row(tos[1], v + 1)
    <3> HIDE DEF x
    <3>4. [Replayed.rows EXCEPT ![t] = x][t] = x
      BY <1>1, ReplayedRows
    <3> DEFINE r == [Replayed.rows EXCEPT ![t] = x]
    <3> HIDE DEF r
    <3>5. r[t].state = path[2] /\ r[t] # NoRow
      BY <3>2, <3>4 DEF r, x
    <3>6. Successors(r, moves[2]) = {tos[2]}
      BY <1>1, <3>1, <3>3, <3>5 DEF Successors
    <3> QED BY <3>6 DEF r, x
  <2>5. rows' = [rows EXCEPT ![t] = Row(tos[k], v + k)]
    BY <1>6, <1>7, <1>8
  <2> QED BY <1>5, <1>6, <1>7, <2>1, <2>3, <2>4, <2>5 DEF Commits
<1>12. /\ Versions' /\ Stamps' /\ Replays' /\ RowsStand'
       /\ now' \in 0..MaxNow
       /\ revoked_at' \in [Sessions -> 0..Never]
       /\ events' \in Seq(EventRow)
       /\ Len(events') <= MaxEvents
       /\ rows' \in [Aggregates -> AnyRow]
       /\ \A b \in Aggregates : rows'[b] \in RowOf(b)
       /\ faults' \in 0..MaxFaults
  BY <1>1, <1>3, <1>11, CommandKeeps
<1>13. /\ Grown(t, k, v)
       /\ \A i \in 1..k : SaysTheSame(events'[L + i], moves[i])
  <2> HIDE DEF v, L
  <2>1. \A i \in 1..k : moves[i].agg = t
    BY <1>5
  <2>2. Appends(moves, v, late)
    BY <1>7
  <2>3. /\ Grown(t, k, v)
        /\ \A i \in 1..k : SaysTheSame(events'[Len(events) + i], moves[i])
    BY <1>1, <1>3, <1>6, <2>1, <2>2, AppendsGrow
  <2> QED BY <2>3 DEF L
<1>14. Answers'
  <2>1. \A i \in 1..k : events'[Len(events) + i].key = "none"
    BY <1>5, <1>13 DEF SaysTheSame
  <2> QED BY <1>1, <1>3, <1>7, <1>13, <2>1, AnswersSame
<1>15. \A i \in 1..k : (/\ events'[L + i].from = "ready"
                        /\ events'[L + i].target = "leased")
                       <=> i = 1 /\ path[2] = "leased"
  <2> SUFFICES ASSUME NEW i \in 1..k
               PROVE  (/\ events'[L + i].from = "ready"
                       /\ events'[L + i].target = "leased")
                      <=> i = 1 /\ path[2] = "leased"
    OBVIOUS
  <2>1. events'[L + i].from = path[i] /\ events'[L + i].target = path[i + 1]
    BY <1>5, <1>13 DEF SaysTheSame
  <2>2. i = 1 \/ (i = 2 /\ Len(path) = 3)
    BY <1>3
  <2>3. CASE i = 1
    BY <1>2, <2>1, <2>3 DEF PathOK
  <2>4. CASE i = 2 /\ Len(path) = 3
    BY <1>2, <2>1, <2>4 DEF PathOK
  <2> QED BY <2>2, <2>3, <2>4
<1>16. /\ attempt_count \in [Tasks -> Nat] /\ attempts \in [Tasks -> Nat]
       /\ attempts[t] = Cardinality(Claims(t))
       /\ attempt_count[t] = Cardinality(Claims(t))
  BY <1>7, <1>9 DEF Inv, LedgerType, AttemptsCount, AttemptsNotForgotten
<1>17. Cardinality(Claims(t)') = Cardinality(Claims(t)) + opens
  <2>1. Claims(t)' =
          Claims(t) \cup {L + i : i \in {j \in 1..k :
            /\ events'[L + j].from = "ready"
            /\ events'[L + j].target = "leased"}}
    BY <1>1, <1>3, <1>13, GrownClaims
  <2>2. /\ IsFiniteSet(Claims(t)) /\ Cardinality(Claims(t)) \in Nat
        /\ L \in Nat /\ Claims(t) \subseteq 1..L
    <3>1. L \in Nat /\ DOMAIN events = 1..L
      BY DEF Inv, LedgerType
    <3>2. Claims(t) \subseteq 1..L
      BY <3>1 DEF Claims, HistoryOf
    <3> QED BY <3>1, <3>2, FiniteClaims
  <2> HIDE DEF L
  <2>3. CASE path[2] = "leased"
    <3>1. {j \in 1..k : /\ events'[L + j].from = "ready"
                        /\ events'[L + j].target = "leased"} = {1}
      BY <1>3, <1>15, <2>3
    <3>2. Claims(t)' = Claims(t) \cup {L + 1}
      BY <2>1, <3>1
    <3>3. L + 1 \notin Claims(t)
      BY <2>2
    <3>4. Cardinality(Claims(t) \cup {L + 1}) = Cardinality(Claims(t)) + 1
      BY <2>2, <3>3, FS_AddElement
    <3>5. Cardinality(Claims(t)') = Cardinality(Claims(t) \cup {L + 1})
      BY <3>2, Zenon
    <3> QED BY <2>3, <3>4, <3>5 DEF opens
  <2>4. CASE path[2] # "leased"
    <3>1. {j \in 1..k : /\ events'[L + j].from = "ready"
                        /\ events'[L + j].target = "leased"} = {}
      BY <1>15, <2>4
    <3>2. Claims(t)' = Claims(t)
      BY <2>1, <3>1
    <3>3. Cardinality(Claims(t)') = Cardinality(Claims(t))
      BY <3>2, Zenon
    <3> QED BY <2>2, <2>4, <3>3 DEF opens
  <2> QED BY <2>3, <2>4
<1>18. opens \in Nat
  BY DEF opens
<1>19. /\ attempt_count' \in [Tasks -> Nat] /\ attempts' \in [Tasks -> Nat]
       /\ attempt_count'[t] = Cardinality(Claims(t)')
       /\ attempts'[t] = Cardinality(Claims(t)')
       /\ \A u \in Tasks : u # t => /\ attempt_count'[u] = attempt_count[u]
                                    /\ attempts'[u] = attempts[u]
  BY <1>7, <1>16, <1>17, <1>18
<1>20. AttemptsCount' /\ AttemptsNotForgotten'
  <2>1. \A b \in Aggregates : b # t => rows'[b] = rows[b]
    BY <1>7 DEF Inv, LedgerType
  <2> QED BY <1>1, <1>3, <1>13, <1>19, <2>1, AttemptsKept
<1>21. LedgerType'
  <2>1. idempotency' \subseteq Scope \X Aggregates \X Keys
    BY <1>7 DEF Inv, LedgerType
  <2> QED BY <1>12, <1>19, <2>1, LedgerTyped
<1> QED BY <1>12, <1>14, <1>20, <1>21 DEF Inv

-----------------------------------------------------------------------------
(* Steps that append nothing.                                              *)

LEMMA SameLedger ==
  ASSUME Inv, UNCHANGED ledger
  PROVE  /\ Versions' /\ Replays' /\ Answers'
         /\ Replayed' = Replayed
         /\ events' = events /\ idempotency' = idempotency
         /\ \A a : /\ HeadVersion(a)' = HeadVersion(a)
                   /\ Claims(a)' = Claims(a)
<1>1. events' = events /\ idempotency' = idempotency
  BY DEF ledger
<1>2. \A a : HistoryOf(a)' = HistoryOf(a)
  BY <1>1 DEF HistoryOf
<1>3. \A a : HeadVersion(a)' = HeadVersion(a)
  BY <1>1, <1>2 DEF HeadVersion
<1>4. \A a : Claims(a)' = Claims(a)
  BY <1>1, <1>2 DEF Claims
<1>5. Replayed' = Replayed
  BY <1>1 DEF Replayed
<1>6. Versions'
  BY <1>1, <1>2, <1>3 DEF Inv, Versions
<1>7. Replays'
  BY <1>1, <1>3, <1>5 DEF Inv, Replays
<1>8. Answers'
  BY <1>1 DEF Inv, Answers, AnswersApplied
<1> QED BY <1>1, <1>3, <1>4, <1>5, <1>6, <1>7, <1>8

LEMMA SameProjections ==
  ASSUME Inv, UNCHANGED <<ledger, projections, faults>>
  PROVE  /\ Versions' /\ Replays' /\ Answers'
         /\ RowsStand' /\ AttemptsCount' /\ AttemptsNotForgotten'
<1>1. /\ Versions' /\ Replays' /\ Answers'
      /\ Replayed' = Replayed
      /\ \A a : HeadVersion(a)' = HeadVersion(a) /\ Claims(a)' = Claims(a)
  BY SameLedger
<1>2. UNCHANGED <<rows, attempt_count, attempts, faults>>
  BY DEF projections
<1>3. \A a : (Planted(a)' <=> Planted(a)) /\ (Exists(a)' <=> Exists(a))
  BY <1>1, <1>2 DEF Planted, Exists
<1>4. RowsStand'
  BY <1>1, <1>2, <1>3 DEF Inv, RowsStand
<1>5. AttemptsCount'
  BY <1>1, <1>2, <1>3 DEF Inv, AttemptsCount
<1>6. AttemptsNotForgotten'
  BY <1>1, <1>2, <1>3 DEF Inv, AttemptsNotForgotten
<1> QED BY <1>1, <1>4, <1>5, <1>6

LEMMA EventTimes ==
  ASSUME Inv
  PROVE  /\ \A i \in DOMAIN events : /\ events[i].occurred \in Nat
                                     /\ events[i].session \in Sessions
         /\ now \in 0..MaxNow /\ MaxNow \in Nat /\ Never = MaxNow + 1
         /\ revoked_at \in [Sessions -> 0..Never]
<1>1. \A e \in EventRow : e.occurred \in 0..MaxNow /\ e.session \in Sessions
  BY DEF EventRow
<1>2. \A i \in DOMAIN events : events[i] \in EventRow
  BY DEF Inv, LedgerType
<1> QED BY <1>1, <1>2, Bounds DEF Inv, LedgerType

LEMMA RevokeSessionKeeps ==
  ASSUME Inv, NEW s \in Sessions, RevokeSession(s)
  PROVE  Inv'
<1>1. /\ revoked_at' = [revoked_at EXCEPT ![s] = now] /\ now' = now
      /\ UNCHANGED <<ledger, projections, faults>>
  BY DEF RevokeSession
<1>2. /\ Versions' /\ Replays' /\ Answers'
      /\ RowsStand' /\ AttemptsCount' /\ AttemptsNotForgotten'
  BY <1>1, SameProjections
<1>3. revoked_at' \in [Sessions -> 0..Never]
  BY <1>1, EventTimes
<1>4. LedgerType'
  BY <1>1, <1>3 DEF Inv, LedgerType, ledger, projections
<1>5. Stamps'
  <2>1. events' = events
    BY <1>1 DEF ledger
  <2>2. \A i \in DOMAIN events :
          revoked_at'[events[i].session] >= events[i].occurred
    BY <1>1, EventTimes DEF Inv, Stamps
  <2> QED BY <1>1, <2>1, <2>2 DEF Inv, Stamps, HandlerSupports, CoreRoles
<1> QED BY <1>2, <1>4, <1>5 DEF Inv

LEMMA TickKeeps ==
  ASSUME Inv, Tick
  PROVE  Inv'
<1>1. /\ now < MaxNow /\ now' = now + 1 /\ revoked_at' = revoked_at
      /\ UNCHANGED <<ledger, projections, faults>>
  BY DEF Tick
<1>2. /\ Versions' /\ Replays' /\ Answers'
      /\ RowsStand' /\ AttemptsCount' /\ AttemptsNotForgotten'
  BY <1>1, SameProjections
<1>3. now' \in 0..MaxNow
  BY <1>1, EventTimes
<1>4. LedgerType'
  BY <1>1, <1>3 DEF Inv, LedgerType, ledger, projections
<1>5. Stamps'
  <2>1. events' = events
    BY <1>1 DEF ledger
  <2>2. \A i \in DOMAIN events : events[i].occurred <= now'
    BY <1>1, EventTimes DEF Inv, Stamps
  <2> QED BY <1>1, <2>1, <2>2 DEF Inv, Stamps, HandlerSupports, CoreRoles
<1> QED BY <1>2, <1>4, <1>5 DEF Inv

LEMMA SameStamps ==
  ASSUME Inv, UNCHANGED <<now, revoked_at, ledger>>
  PROVE  Stamps'
<1>1. events' = events
  BY DEF ledger
<1> QED BY <1>1 DEF Inv, Stamps, HandlerSupports, CoreRoles

LEMMA RepairKeeps ==
  ASSUME Inv, NEW s \in Sessions, Repair(s)
  PROVE  Inv'
<1> DEFINE missing == {t \in Tasks : Replayed.rows[t] # NoRow /\ ~ Exists(t)}
<1>1. /\ \A a \in Aggregates : Exists(a) => Replayed.rows[a] # NoRow
      /\ \A t \in missing : SafeToRebuild(t)
      /\ rows' = Replayed.rows
      /\ attempt_count' = [t \in Tasks |->
                             IF t \in missing THEN 0 ELSE attempt_count[t]]
      /\ \A t \in Tasks :
           Replayed.rows[t] # NoRow => attempt_count'[t] = attempts[t]
      /\ UNCHANGED <<now, revoked_at, ledger, attempts, faults>>
  BY DEF Repair, VerifyProjections
<1>2. /\ Versions' /\ Replays' /\ Answers'
      /\ Replayed' = Replayed
      /\ events' = events /\ idempotency' = idempotency
      /\ \A a : HeadVersion(a)' = HeadVersion(a) /\ Claims(a)' = Claims(a)
  BY <1>1, SameLedger
<1>3. /\ rows' \in [Aggregates -> AnyRow]
      /\ \A a \in Aggregates : rows'[a] \in RowOf(a)
  BY <1>1, ReplayedRows, Bounds
<1>4. attempt_count' \in [Tasks -> Nat]
  BY <1>1 DEF Inv, LedgerType
<1>5. LedgerType'
  BY <1>1, <1>2, <1>3, <1>4 DEF Inv, LedgerType
<1>6. Stamps'
  BY <1>1, SameStamps
<1>7. RowsStand'
  BY <1>1, <1>2 DEF RowsStand
<1>8. ASSUME NEW t \in Tasks, Replayed.rows[t] # NoRow
      PROVE  attempts[t] = Cardinality(Claims(t))
  <2>1. CASE Exists(t)
    BY <2>1 DEF Inv, AttemptsCount
  <2>2. CASE ~ Exists(t)
    <3>1. SafeToRebuild(t)
      BY <1>1, <1>8, <2>2
    <3>2. Claims(t) = {}
      BY <3>1 DEF SafeToRebuild, Claims, ExecutionStates
    <3>3. Cardinality(Claims(t)) = 0
      BY <3>2, FS_EmptySet
    <3> QED BY <3>1, <3>3 DEF SafeToRebuild
  <2> QED BY <2>1, <2>2
<1>9. \A t \in Tasks : Exists(t)' <=> Replayed.rows[t] # NoRow
  BY <1>1 DEF Exists
<1>10. AttemptsCount'
  <2> SUFFICES ASSUME NEW t \in Tasks
               PROVE  /\ Exists(t)' => attempts'[t] = Cardinality(Claims(t)')
                      /\ Claims(t)' = {} => attempts'[t] = 0
    BY DEF AttemptsCount
  <2>1. attempts' = attempts /\ Claims(t)' = Claims(t)
    BY <1>1, <1>2
  <2> QED BY <1>8, <1>9, <2>1 DEF Inv, AttemptsCount
<1>11. AttemptsNotForgotten'
  <2> SUFFICES ASSUME NEW t \in Tasks, Exists(t)'
               PROVE  attempt_count'[t] = Cardinality(Claims(t)')
    BY DEF AttemptsNotForgotten
  <2>1. Claims(t)' = Claims(t)
    BY <1>2
  <2> QED BY <1>1, <1>8, <1>9, <2>1
<1> QED BY <1>2, <1>5, <1>6, <1>7, <1>10, <1>11 DEF Inv

-----------------------------------------------------------------------------
(* The faults: row r takes the place of the row of a. *)

Damages(a, r) ==
  /\ faults < MaxFaults /\ faults' = faults + 1
  /\ UNCHANGED <<now, revoked_at, ledger>>
  /\ rows' = [rows EXCEPT ![a] = r]
  /\ r \in RowOf(a) /\ r \in AnyRow
  /\ \/ r = NoRow
     \/ a \in Tasks /\ HeadVersion(a) = 0 /\ r = Row(FirstState(a), 1)
     \/ r.version < HeadVersion(a)
  /\ attempt_count' \in [Tasks -> Nat] /\ attempts' \in [Tasks -> Nat]
  /\ \A t \in Tasks : t # a => /\ attempt_count'[t] = attempt_count[t]
                               /\ attempts'[t] = attempts[t]
  /\ a \in Tasks => /\ r # NoRow => attempts'[a] = Cardinality(Claims(a))
                    /\ Claims(a) = {} => attempts'[a] = 0

LEMMA DamageKeeps ==
  ASSUME Inv, NEW a \in Aggregates, NEW r, Damages(a, r)
  PROVE  Inv'
<1>1. /\ Versions' /\ Replays' /\ Answers'
      /\ Replayed' = Replayed
      /\ events' = events /\ idempotency' = idempotency
      /\ \A b : HeadVersion(b)' = HeadVersion(b) /\ Claims(b)' = Claims(b)
  BY SameLedger DEF Damages
<1>2. Stamps'
  BY SameStamps DEF Damages
<1>3. /\ rows \in [Aggregates -> AnyRow]
      /\ \A b \in Aggregates : rows[b] \in RowOf(b)
      /\ faults \in 0..MaxFaults /\ MaxFaults \in Nat
  BY Bounds DEF Inv, LedgerType
<1>4. /\ rows' \in [Aggregates -> AnyRow]
      /\ rows'[a] = r
      /\ \A b \in Aggregates : b # a => rows'[b] = rows[b]
  BY <1>3 DEF Damages
<1>5. faults' \in 0..MaxFaults /\ faults' # 0
  BY <1>3 DEF Damages
<1>6. \A b \in Aggregates : rows'[b] \in RowOf(b)
  BY <1>3, <1>4 DEF Damages
<1>7. LedgerType'
  BY <1>1, <1>4, <1>5, <1>6 DEF Inv, LedgerType, Damages
<1>8. /\ HeadVersion(a) \in Nat
      /\ NoRow.version = 0 /\ r.version \in Nat /\ (r = NoRow <=> r.version = 0)
      /\ HeadVersion(a) = 0 => Replayed.rows[a] = NoRow
  <2>1. HeadVersion(a) \in Nat
    BY ReplayedRows
  <2>2. r \in RowOf(a)
    BY DEF Damages
  <2>3. NoRow.version = 0 /\ r.version \in Nat /\ (r = NoRow <=> r.version = 0)
    BY <2>2, RowFacts
  <2>4. HeadVersion(a) = 0 => Replayed.rows[a] = NoRow
    BY NoHistory
  <2> QED BY <2>1, <2>3, <2>4
<1>9. RowsStand'
  <2> SUFFICES ASSUME NEW b \in Aggregates
               PROVE  \/ rows'[b] = Replayed'.rows[b]
                      \/ /\ faults' # 0
                         /\ \/ Planted(b)'
                            \/ rows'[b].version < HeadVersion(b)'
    BY DEF RowsStand
  <2>1. CASE b # a
    <3>1. Planted(b) => Planted(b)'
      BY <1>1, <1>4, <2>1 DEF Planted
    <3> QED BY <1>1, <1>4, <1>5, <2>1, <3>1 DEF Inv, RowsStand
  <2>2. CASE b = a
    <3>1. CASE r = NoRow
      <4>1. HeadVersion(a) = 0 \/ r.version < HeadVersion(a)
        BY <1>8, <3>1
      <4> QED BY <1>1, <1>4, <1>5, <1>8, <2>2, <3>1, <4>1
    <3>2. CASE a \in Tasks /\ HeadVersion(a) = 0 /\ r = Row(FirstState(a), 1)
      <4>1. Planted(a)'
        BY <1>1, <1>4, <3>2 DEF Planted
      <4> QED BY <1>5, <2>2, <4>1
    <3>3. CASE r.version < HeadVersion(a)
      BY <1>1, <1>4, <1>5, <2>2, <3>3
    <3> QED BY <3>1, <3>2, <3>3 DEF Damages
  <2> QED BY <2>1, <2>2
<1>10. \A t \in Tasks : t \in Aggregates
  BY Bounds
<1>11. AttemptsCount'
  <2> SUFFICES ASSUME NEW t \in Tasks
               PROVE  /\ Exists(t)' => attempts'[t] = Cardinality(Claims(t)')
                      /\ Claims(t)' = {} => attempts'[t] = 0
    BY DEF AttemptsCount
  <2>1. Claims(t)' = Claims(t)
    BY <1>1
  <2>2. CASE t # a
    <3>1. rows'[t] = rows[t] /\ attempts'[t] = attempts[t]
      BY <1>4, <1>10, <2>2 DEF Damages
    <3> QED BY <2>1, <3>1 DEF Inv, AttemptsCount, Exists
  <2>3. CASE t = a
    BY <1>4, <2>1, <2>3 DEF Damages, Exists
  <2> QED BY <2>2, <2>3
<1>12. AttemptsNotForgotten'
  <2> SUFFICES ASSUME NEW t \in Tasks, Exists(t)',
                      rows'[t].version = HeadVersion(t)'
               PROVE  attempt_count'[t] = Cardinality(Claims(t)')
    BY DEF AttemptsNotForgotten
  <2>1. Claims(t)' = Claims(t) /\ HeadVersion(t)' = HeadVersion(t)
    BY <1>1
  <2>2. t # a
    <3> SUFFICES ASSUME t = a PROVE FALSE
      OBVIOUS
    <3>1. r # NoRow /\ r.version = HeadVersion(a)
      BY <1>4, <2>1 DEF Exists
    <3>2. r.version # 0
      BY <1>8, <3>1
    <3>3. ~ (r.version < HeadVersion(a))
      BY <1>8, <3>1
    <3>4. HeadVersion(a) # 0
      BY <3>1, <3>2
    <3> QED BY <3>1, <3>3, <3>4 DEF Damages
  <2>3. rows'[t] = rows[t] /\ attempt_count'[t] = attempt_count[t]
    BY <1>4, <1>10, <2>2 DEF Damages
  <2> QED BY <2>1, <2>3 DEF Inv, AttemptsNotForgotten, Exists
<1> QED BY <1>1, <1>2, <1>7, <1>9, <1>11, <1>12 DEF Inv


(* An earlier event of the history is behind its head. *)
LEMMA StaleRowKeeps ==
  ASSUME Inv, NEW a \in Aggregates, NEW n \in HistoryOf(a), StaleRow(a, n)
  PROVE  Inv'
<1> DEFINE r == Replay(events)[n].rows[a]
<1>1. /\ faults < MaxFaults /\ faults' = faults + 1
      /\ Exists(a) /\ rows[a].version > events[n].version
      /\ rows' = [rows EXCEPT ![a] = r]
      /\ attempt_count' = [t \in Tasks |->
           IF t = a THEN Cardinality({i \in Claims(t) : i <= n})
                    ELSE attempt_count[t]]
      /\ UNCHANGED <<now, revoked_at, ledger, attempts>>
  BY DEF StaleRow
<1>2. n \in DOMAIN events /\ events[n].agg = a /\ n \in 0..Len(events)
  BY DEF HistoryOf, Inv, LedgerType
<1>3. r \in RowOf(a) /\ r \in AnyRow /\ r.version = events[n].version
  BY <1>2 DEF Inv, Replays
<1> HIDE DEF r
<1>4. events[n].version \in 1..HeadVersion(a) /\ HeadVersion(a) \in Nat
  <2>1. events[n].version \in {events[i].version : i \in HistoryOf(a)}
    OBVIOUS
  <2> QED BY <2>1 DEF Inv, Versions
<1>5. r.version < HeadVersion(a)
  <2>1. rows[a].version \in Nat
    BY ReplayedRows, RowFacts
  <2>2. ~ Planted(a)
    BY <1>4 DEF Planted
  <2>3. rows[a].version <= HeadVersion(a)
    <3>1. CASE rows[a] = Replayed.rows[a]
      BY <1>4, <3>1, ReplayedRows
    <3>2. CASE rows[a].version < HeadVersion(a)
      BY <1>4, <2>1, <3>2
    <3> QED BY <2>2, <3>1, <3>2 DEF Inv, RowsStand
  <2> QED BY <1>1, <1>3, <1>4, <2>1, <2>3
<1>6. attempt_count' \in [Tasks -> Nat]
  <2>1. \A t \in Tasks : Cardinality({i \in Claims(t) : i <= n}) \in Nat
    <3> SUFFICES ASSUME NEW t \in Tasks
                 PROVE  Cardinality({i \in Claims(t) : i <= n}) \in Nat
      OBVIOUS
    <3>1. IsFiniteSet(Claims(t))
      BY FiniteClaims
    <3>2. {i \in Claims(t) : i <= n} \in SUBSET Claims(t)
      OBVIOUS
    <3> QED BY <3>1, <3>2, FS_Subset, FS_CardinalityType
  <2>2. attempt_count \in [Tasks -> Nat]
    BY DEF Inv, LedgerType
  <2> QED BY <1>1, <2>1, <2>2
<1>7. attempts' = attempts /\ attempts \in [Tasks -> Nat]
  BY <1>1 DEF Inv, LedgerType
<1>8. \A t \in Tasks : t # a => attempt_count'[t] = attempt_count[t]
  BY <1>1
<1>9. a \in Tasks => /\ attempts[a] = Cardinality(Claims(a))
                     /\ Claims(a) = {} => attempts[a] = 0
  BY <1>1 DEF Inv, AttemptsCount
<1>10. Damages(a, r)
  BY <1>1, <1>3, <1>5, <1>6, <1>7, <1>8, <1>9 DEF Damages
<1> QED BY <1>10, DamageKeeps

LEMMA LoseRowKeeps ==
  ASSUME Inv, NEW a \in Aggregates, NEW alone \in BOOLEAN, LoseRow(a, alone)
  PROVE  Inv'
<1>1. /\ faults < MaxFaults /\ faults' = faults + 1
      /\ rows' = [rows EXCEPT ![a] = NoRow]
      /\ attempt_count' =
           [t \in Tasks |-> IF t = a THEN 0 ELSE attempt_count[t]]
      /\ attempts' =
           [t \in Tasks |-> IF t = a /\ ~ alone THEN 0 ELSE attempts[t]]
      /\ UNCHANGED <<now, revoked_at, ledger>>
  BY DEF LoseRow
<1>2. NoRow \in RowOf(a) /\ NoRow \in AnyRow
  BY DEF RowOf, AnyRow
<1>3. attempt_count \in [Tasks -> Nat] /\ attempts \in [Tasks -> Nat]
  BY DEF Inv, LedgerType
<1>4. attempt_count' \in [Tasks -> Nat] /\ attempts' \in [Tasks -> Nat]
  BY <1>1, <1>3
<1>5. a \in Tasks => (Claims(a) = {} => attempts'[a] = 0)
  BY <1>1 DEF Inv, AttemptsCount
<1>6. \A t \in Tasks : t # a => /\ attempt_count'[t] = attempt_count[t]
                                /\ attempts'[t] = attempts[t]
  BY <1>1
<1>7. Damages(a, NoRow)
  BY <1>1, <1>2, <1>4, <1>5, <1>6 DEF Damages
<1> QED BY <1>7, DamageKeeps

LEMMA PlantRowKeeps ==
  ASSUME Inv, NEW a \in Aggregates, PlantRow(a)
  PROVE  Inv'
<1>1. /\ faults < MaxFaults /\ faults' = faults + 1
      /\ a \in Tasks /\ HeadVersion(a) = 0
      /\ rows' = [rows EXCEPT ![a] = Row(FirstState(a), 1)]
      /\ UNCHANGED <<now, revoked_at, ledger, attempt_count, attempts>>
  BY DEF PlantRow
<1>2. Row(FirstState(a), 1) \in RowOf(a) /\ Row(FirstState(a), 1) \in AnyRow
  <2>1. FirstState(a) \in StatesOf(a)
    BY <1>1, Bounds DEF FirstState, StatesOf, TaskState
  <2> QED BY <2>1, RowFacts
<1>3. Claims(a) = {} /\ Cardinality(Claims(a)) = 0
  BY <1>1, NoHistory
<1>4. attempts[a] = Cardinality(Claims(a))
  BY <1>1, <1>3 DEF Inv, AttemptsCount
<1>5. attempt_count' \in [Tasks -> Nat] /\ attempts' \in [Tasks -> Nat]
  BY <1>1 DEF Inv, LedgerType
<1>6. Damages(a, Row(FirstState(a), 1))
  BY <1>1, <1>2, <1>3, <1>4, <1>5 DEF Damages
<1> QED BY <1>6, DamageKeeps

-----------------------------------------------------------------------------

LEMMA InvInit == Init => Inv
<1> SUFFICES ASSUME Init PROVE Inv
  OBVIOUS
<1>1. /\ now = 0 /\ revoked_at = [s \in Sessions |-> Never]
      /\ events = <<>> /\ idempotency = {} /\ faults = 0
      /\ rows = [a \in Aggregates |-> NoRow]
      /\ attempt_count = [t \in Tasks |-> 0] /\ attempts = [t \in Tasks |-> 0]
  BY DEF Init
<1>2. Len(events) = 0 /\ DOMAIN events = {} /\ events \in Seq(EventRow)
  BY <1>1
<1>3. \A a : HistoryOf(a) = {} /\ Claims(a) = {}
  BY <1>2 DEF HistoryOf, Claims
<1>4. \A a : /\ HeadVersion(a) = 0
             /\ {events[i].version : i \in HistoryOf(a)} = 1..HeadVersion(a)
  <2> SUFFICES ASSUME NEW a
               PROVE  /\ HeadVersion(a) = 0
                      /\ {events[i].version : i \in HistoryOf(a)}
                           = 1..HeadVersion(a)
    OBVIOUS
  <2>1. {events[i].version : i \in HistoryOf(a)} = 1..0
    BY <1>3
  <2>2. HeadVersion(a) = Max({0} \cup 1..0)
    BY <2>1 DEF HeadVersion
  <2>3. HeadVersion(a) = 0
    BY <2>2, MaxOfRange
  <2> QED BY <2>1, <2>3
<1>5. \A a \in Aggregates : NoRow \in RowOf(a) /\ NoRow \in AnyRow
  BY DEF RowOf, AnyRow
<1>6. LedgerType
  <2>1. revoked_at \in [Sessions -> 0..Never]
    BY <1>1, Bounds
  <2>2. idempotency \subseteq Scope \X Aggregates \X Keys
    BY <1>1
  <2> QED BY <1>1, <1>2, <1>5, <2>1, <2>2, Bounds DEF LedgerType
<1>7. Versions
  BY <1>2, <1>3, <1>4 DEF Versions
<1>8. Stamps
  BY <1>2 DEF Stamps
<1>9. Replay(events)[0] = NothingReplayed /\ Replayed = NothingReplayed
  <2>1. Replay(events)[0] = NothingReplayed
    BY <1>2, ReplayIs
  <2> QED BY <1>2, <2>1 DEF Replayed
<1>10. /\ NothingReplayed.rows = [a \in Aggregates |-> NoRow]
       /\ NothingReplayed = [ok |-> TRUE, rows |-> NothingReplayed.rows]
  BY DEF NothingReplayed
<1>11. Replays
  <2>1. NothingReplayed.rows \in [Aggregates -> AnyRow]
    BY <1>5, <1>10
  <2>2. \A n \in 0..Len(events) : n = 0
    BY <1>2
  <2>3. NoRow.version = 0
    BY DEF NoRow
  <2>4. \A a \in Aggregates : NothingReplayed.rows[a] = NoRow
    BY <1>10
  <2>5. \A n \in 0..Len(events) : Replay(events)[n] = NothingReplayed
    BY <1>9, <2>2
  <2>6. \A n \in 0..Len(events) :
          /\ Replay(events)[n] = [ok |-> TRUE, rows |-> Replay(events)[n].rows]
          /\ Replay(events)[n].rows \in [Aggregates -> AnyRow]
          /\ \A a \in Aggregates : Replay(events)[n].rows[a] \in RowOf(a)
    BY <1>5, <1>10, <2>1, <2>4, <2>5
  <2>7. \A a \in Aggregates : Replayed.rows[a].version = HeadVersion(a)
    BY <1>4, <1>9, <2>3, <2>4
  <2>8. \A n \in DOMAIN events :
          Replay(events)[n].rows[events[n].agg].version = events[n].version
    BY <1>2
  <2> QED BY <2>6, <2>7, <2>8 DEF Replays
<1>12. RowsStand
  BY <1>1, <1>9, <1>10 DEF RowsStand
<1>13. AttemptsCount /\ AttemptsNotForgotten
  BY <1>1, <1>3, Bounds DEF AttemptsCount, AttemptsNotForgotten, Exists
<1>14. Answers
  <2>1. Keyed = {}
    BY <1>2 DEF Keyed
  <2>2. /\ {Answer(events[i]) : i \in Keyed} = idempotency
        /\ Cardinality(Keyed) = Cardinality(idempotency)
    BY <1>1, <2>1
  <2>3. IsFiniteSet(idempotency)
    BY <1>1, FS_EmptySet
  <2> QED BY <2>2, <2>3 DEF Answers, AnswersApplied, Keyed, Answer
<1> QED BY <1>6, <1>7, <1>8, <1>11, <1>12, <1>13, <1>14 DEF Inv


LEMMA InvStep == Inv /\ [Next]_vars => Inv'
<1> SUFFICES ASSUME Inv, [Next]_vars PROVE Inv'
  OBVIOUS
<1>1. ASSUME NEW s \in Sessions, NEW late \in 0..1, NEW key \in Keys,
             Command(s, key, late)
      PROVE  Inv'
  <2>1. CASE CreateGoal(s, key, late)
    BY <2>1, CreateGoalKeeps
  <2>2. CASE CreateRun(s, key, late)
    BY <2>2, CreateRunKeeps
  <2>3. ASSUME NEW t \in Tasks, AddTask(t, s, key, late) PROVE Inv'
    BY <2>3, AddTaskKeeps
  <2>4. ASSUME NEW r \in LOOP_TRANSITIONS, AdvanceLoop(r, s, key, late)
        PROVE  Inv'
    BY <2>4, AdvanceLoopKeeps
  <2>5. ASSUME NEW t \in Tasks, NEW to \in TaskTargets,
               KernelMove(t, to, s, key, late)
        PROVE  Inv'
    BY <2>5, KernelMoveKeeps
  <2> QED BY <1>1, <2>1, <2>2, <2>3, <2>4, <2>5 DEF Command
<1>2. ASSUME NEW s \in Sessions, NEW late \in 0..2, Scheduled(s, late)
      PROVE  Inv'
  <2>1. PICK t \in Tasks, path \in SchedulerPaths :
          SchedulerMove(t, path, s, late)
    BY <1>2 DEF Scheduled
  <2> QED BY <2>1, SchedulerMoveKeeps
<1>3. ASSUME NEW s \in Sessions, RevokeSession(s) PROVE Inv'
  BY <1>3, RevokeSessionKeeps
<1>4. CASE Tick
  BY <1>4, TickKeeps
<1>5. ASSUME NEW s \in Sessions, Repair(s) PROVE Inv'
  BY <1>5, RepairKeeps
<1>6. CASE Fault
  <2>1. PICK a \in Faulty : \/ \E n \in HistoryOf(a) : StaleRow(a, n)
                            \/ \E alone \in BOOLEAN : LoseRow(a, alone)
                            \/ PlantRow(a)
    BY <1>6 DEF Fault
  <2>2. a \in Aggregates
    BY LedgerAssumption
  <2>3. ASSUME NEW n \in HistoryOf(a), StaleRow(a, n) PROVE Inv'
    BY <2>2, <2>3, StaleRowKeeps
  <2>4. ASSUME NEW alone \in BOOLEAN, LoseRow(a, alone) PROVE Inv'
    BY <2>2, <2>4, LoseRowKeeps
  <2>5. CASE PlantRow(a)
    BY <2>2, <2>5, PlantRowKeeps
  <2> QED BY <2>1, <2>3, <2>4, <2>5
<1>7. CASE UNCHANGED vars
  <2>1. UNCHANGED <<now, revoked_at, ledger, projections, faults>>
    BY <1>7 DEF vars
  <2>2. /\ Versions' /\ Replays' /\ Answers'
        /\ RowsStand' /\ AttemptsCount' /\ AttemptsNotForgotten'
    BY <2>1, SameProjections
  <2>3. Stamps'
    BY <2>1, SameStamps
  <2>4. LedgerType'
    BY <2>1 DEF Inv, LedgerType, ledger, projections
  <2> QED BY <2>2, <2>3, <2>4 DEF Inv
<1> QED BY <1>1, <1>2, <1>3, <1>4, <1>5, <1>6, <1>7 DEF Next

(***************************************************************************)
(* The invariant of the event store, the core commands, the scheduler's    *)
(* transitions, repair and the faults.                                     *)
(***************************************************************************)
THEOREM InvHolds == Spec => []Inv
BY InvInit, InvStep, PTL DEF Spec

(***************************************************************************)
(* Type correctness; append_event numbers the events of every aggregate    *)
(* without a gap or a duplicate and stamps them in the order of their seq. *)
(***************************************************************************)
THEOREM TypeCorrect == Spec => []TypeOK
<1>1. Inv => TypeOK
  <2> SUFFICES ASSUME Inv PROVE TypeOK
    OBVIOUS
  <2>1. \A i \in DOMAIN events : events[i] \in EventRow
    BY DEF Inv, LedgerType
  <2>2. \A a \in Aggregates :
          rows[a].version \in Nat
            /\ rows[a].state \in LoopState \cup TaskState \cup {"none"}
    <3>1. \A r \in AnyRow :
            /\ r.version \in Nat
            /\ r.state \in LoopState \cup TaskState \cup {"none"}
      BY DEF AnyRow, NoRow
    <3> QED BY <3>1 DEF Inv, LedgerType
  <2>3. idempotency \subseteq
          {"goal.create", "run.create", "task.add", "run.event",
           "task.evidence", "task.delivery", "task.control"}
            \X Aggregates \X Keys
    BY DEF Inv, LedgerType, Scope
  <2>4. /\ now \in 0..MaxNow /\ revoked_at \in [Sessions -> 0..Never]
        /\ attempt_count \in [Tasks -> Nat] /\ attempts \in [Tasks -> Nat]
        /\ faults \in 0..MaxFaults
    BY DEF Inv, LedgerType
  <2>5. \A a \in Aggregates :
          /\ {events[i].version : i \in HistoryOf(a)} = 1..HeadVersion(a)
          /\ \A i, j \in HistoryOf(a) :
               i < j => events[i].version < events[j].version
    BY DEF Inv, Versions
  <2>6. \A i, j \in DOMAIN events : i < j =>
          events[i].occurred <= events[j].occurred
    BY DEF Inv, Stamps
  <2> QED BY <2>1, <2>2, <2>3, <2>4, <2>5, <2>6 DEF TypeOK
<1> QED BY <1>1, InvHolds, PTL

(***************************************************************************)
(* The history replays whatever happened to the rows, and a row at the     *)
(* version of the head is the row the history stands for: a command that   *)
(* decided on a stale or planted row is refused by append_event, and the   *)
(* transitions of the kernel and the scheduler are those of the replay.    *)
(***************************************************************************)
THEOREM LedgerReplaysAlways == Spec => []LedgerReplays
<1>1. Inv => LedgerReplays
  <2> SUFFICES ASSUME Inv PROVE LedgerReplays
    OBVIOUS
  <2>1. Replayed.ok
    <3>1. Len(events) \in 0..Len(events)
      BY DEF Inv, LedgerType
    <3>2. Replayed = [ok |-> TRUE, rows |-> Replayed.rows]
      BY <3>1 DEF Inv, Replays, Replayed
    <3> QED BY <3>2
  <2>2. ASSUME NEW a \in Aggregates
        PROVE  \/ rows[a] = Replayed.rows[a]
               \/ faults # 0 /\ rows[a].version # HeadVersion(a)
    <3>1. rows[a].version \in Nat /\ HeadVersion(a) \in Nat
      BY ReplayedRows, RowFacts
    <3>2. Planted(a) => rows[a].version # HeadVersion(a)
      BY DEF Planted, Row
    <3>3. rows[a].version < HeadVersion(a) => rows[a].version # HeadVersion(a)
      BY <3>1
    <3> QED BY <3>2, <3>3 DEF Inv, RowsStand
  <2> QED BY <2>1, <2>2 DEF LedgerReplays
<1> QED BY <1>1, InvHolds, PTL

(***************************************************************************)
(* An up-to-date task has counted every claim of its history: repair gives *)
(* no task back the attempts it has used.                                  *)
(***************************************************************************)
THEOREM AttemptsRemembered == Spec => []AttemptsNotForgotten
<1>1. Inv => AttemptsNotForgotten
  BY DEF Inv
<1> QED BY <1>1, InvHolds, PTL

(***************************************************************************)
(* Expiry and revocation never unmake an event: what was stamped while its *)
(* session stood passes verify_event_chain for ever.                       *)
(***************************************************************************)
THEOREM HistoryKeepsVerifying == Spec => []HistoryVerifies
<1>1. Inv => HistoryVerifies
  BY DEF Inv, Stamps, HistoryVerifies, EventVerifies, SessionStoodThen
<1> QED BY <1>1, InvHolds, PTL

(***************************************************************************)
(* Every answer of save_idempotent_result stands for exactly one event and *)
(* every event under a key has its answer, through faults and repairs.     *)
(***************************************************************************)
THEOREM AnswersAreApplied == Spec => []AnswersApplied
<1>1. Inv => AnswersApplied
  BY DEF Inv, Answers
<1> QED BY <1>1, InvHolds, PTL


=============================================================================
