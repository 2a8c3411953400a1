----------------------------- MODULE FleetProofs -----------------------------
(***************************************************************************)
(* Theorems on Fleet, for every value of its constants.                    *)
(***************************************************************************)
EXTENDS Fleet, FiniteSetTheorems, SequenceTheorems, WellFoundedInduction, TLAPS

(* A set of numbers has a least one: the sets 0..n are well-founded by      *)
(* inclusion. It stands in for induction over the loops below.              *)
LEMMA Least ==
    ASSUME NEW N \in Nat, NEW T, T \subseteq 0..N, T # {}
    PROVE  \E x \in T : \A y \in T : x <= y
<1> DEFINE R == StrictSubsetOrdering(0..N)
           U == {0..n : n \in T}
<1>1. IsWellFoundedOn(R, SUBSET (0..N))
  <2>1. IsFiniteSet(0..N)
    BY FS_Interval
  <2>2. FiniteSubsetsOf(0..N) = SUBSET (0..N)
    BY <2>1, FS_FiniteSubsetsOfFinite
  <2> QED BY <2>2, FS_StrictSubsetOrderingWellFounded
<1>2. U \subseteq SUBSET (0..N)
  <2>1. ASSUME NEW n \in T PROVE 0..n \subseteq 0..N
    <3>1. n \in Nat /\ n <= N
      OBVIOUS
    <3> QED BY <3>1
  <2>2. ASSUME NEW X \in U PROVE X \in SUBSET (0..N)
    <3>1. PICK n \in T : X = 0..n
      BY DEF U
    <3> QED BY <2>1, <3>1
  <2> QED BY <2>2
<1>3. U # {}
  OBVIOUS
<1>4. \E X \in U : \A Y \in U : <<Y, X>> \notin R
  <2> HIDE DEF R, U
  <2> QED BY <1>1, <1>2, <1>3, WFMin
<1>5. PICK n \in T : \A Y \in U : <<Y, 0..n>> \notin R
  BY <1>4
<1>6. ASSUME NEW m \in T PROVE n <= m
  <2>1. 0..m \in U /\ n \in 0..N /\ m \in 0..N
    OBVIOUS
  <2>2. <<0..m, 0..n>> \notin R
    BY <1>5, <2>1
  <2>3. ASSUME m < n PROVE FALSE
    <3>1. 0..m \subseteq 0..n /\ n \in 0..n /\ n \notin 0..m
      BY <2>1, <2>3
    <3>2. 0..m \subseteq 0..N /\ 0..n \subseteq 0..N
      BY <2>1
    <3> QED BY <2>2, <3>1, <3>2 DEF StrictSubsetOrdering
  <2> QED BY <2>1, <2>3
<1> QED BY <1>5, <1>6
-----------------------------------------------------------------------------
(* The loop of #drain(): what it computes exists, and unfolds.              *)
DrainLoop(f, h, n) == h = [k \in 0..n |-> IF k = 0 THEN f ELSE DrainOne(h[k - 1])]

LEMMA DrainLoopExists ==
    ASSUME NEW f, NEW N \in Nat
    PROVE  \E h : DrainLoop(f, h, N)
<1> DEFINE T == {n \in 0..N : ~\E h : DrainLoop(f, h, n)}
<1>1. ASSUME T # {} PROVE FALSE
  <2>1. PICK n \in T : \A m \in T : n <= m
    BY <1>1, Least
  <2>2. n \in Nat /\ n <= N /\ ~\E h : DrainLoop(f, h, n)
    BY <2>1
  <2>3. CASE n = 0
    <3>1. [k \in 0..0 |-> f] = [k \in 0..0 |-> IF k = 0 THEN f ELSE DrainOne([i \in 0..0 |-> f][k - 1])]
      OBVIOUS
    <3> QED BY <2>2, <2>3, <3>1 DEF DrainLoop
  <2>4. CASE n # 0
    <3>1. n - 1 \in Nat /\ n - 1 \in 0..N /\ n - 1 \notin T
      BY <2>1, <2>2, <2>4
    <3>2. PICK h : DrainLoop(f, h, n - 1)
      BY <3>1
    <3> DEFINE g == [k \in 0..n |-> IF k = n THEN DrainOne(h[n - 1]) ELSE h[k]]
    <3>3. ASSUME NEW k \in 0..n PROVE g[k] = IF k = 0 THEN f ELSE DrainOne(g[k - 1])
      <4>1. CASE k = 0
        BY <2>4, <3>1, <3>2, <4>1 DEF DrainLoop
      <4>2. CASE k # 0 /\ k # n
        <5>1. k \in 0..(n - 1) /\ k - 1 \in 0..n /\ k - 1 # n
          BY <2>2, <4>2
        <5> QED BY <3>2, <4>2, <5>1 DEF DrainLoop
      <4>3. CASE k = n
        <5>1. n - 1 \in 0..n /\ n - 1 # n
          BY <2>2, <2>4
        <5> QED BY <2>4, <4>3, <5>1
      <4> QED BY <4>1, <4>2, <4>3
    <3>4. DrainLoop(f, g, n)
      <4>1. g = [k \in 0..n |-> g[k]]
        OBVIOUS
      <4> HIDE DEF g
      <4> QED BY <3>3, <4>1 DEF DrainLoop
    <3> HIDE DEF g
    <3> QED BY <2>2, <3>4
  <2> QED BY <2>3, <2>4
<1>2. N \in 0..N
  OBVIOUS
<1> QED BY <1>1, <1>2

LEMMA RoundsUnfold ==
    ASSUME NEW f, NEW n \in Nat
    PROVE  \E h : DrainLoop(f, h, n) /\ Rounds(f, n) = h[n]
<1> DEFINE g == CHOOSE h : h = [k \in 0..n |-> IF k = 0 THEN f ELSE DrainOne(h[k - 1])]
<1>1. \E h : h = [k \in 0..n |-> IF k = 0 THEN f ELSE DrainOne(h[k - 1])]
  BY DrainLoopExists DEF DrainLoop
<1>2. g = [k \in 0..n |-> IF k = 0 THEN f ELSE DrainOne(g[k - 1])]
  BY <1>1, Zenon
<1>3. Rounds(f, n) = g[n]
  BY Zenon DEF Rounds
<1> HIDE DEF g
<1> QED BY <1>2, <1>3 DEF DrainLoop

LEMMA DrainUnfolds ==
    ASSUME NEW f, Len(f.queue) \in Nat
    PROVE  \E h : DrainLoop(f, h, Len(f.queue)) /\ Drain(f) = h[Len(f.queue)]
BY RoundsUnfold DEF Drain
-----------------------------------------------------------------------------
(* The fleet record, and the books kept of its turns: the queue holds each  *)
(* queued turn once, and activeTurns counts the turns in flight.            *)
Ids == Agents \union {"none"}
ShardShape(r) ==
    r \in [backend : {r.backend}, tracked : {r.tracked}, proc : {r.proc}, members : Seq(Ids),
           mapped : {r.mapped}, sess : {r.sess}]
Rosters(table) == table = [s \in Shards |-> table[s]] /\ \A s \in Shards : ShardShape(table[s])
FleetShape(f) ==
    /\ f \in [agents : {f.agents}, shards : {f.shards}, turns : {f.turns}, queue : {f.queue},
              active : {f.active}, exceeded : {f.exceeded}, recoveries : {f.recoveries}]
    /\ Rosters(f.shards)
TurnShape(r) ==
    r \in [phase : {r.phase}, agent : Ids, prio : {r.prio}, shard : {r.shard}, session : {r.session}]
Shapes(f) ==
    /\ FleetShape(f)
    /\ f.turns = [t \in Turns |-> f.turns[t]]
    /\ \A t \in Turns : TurnShape(f.turns[t])
InFlightOf(f) == {t \in Turns : f.turns[t].phase \in InFlightPhases}
QueueIsExact(f) ==
    /\ f.queue \in Seq(Turns)
    /\ \A i, j \in 1..Len(f.queue) : f.queue[i] = f.queue[j] => i = j
    /\ \A i \in 1..Len(f.queue) : f.turns[f.queue[i]].phase = "queued"
    /\ \A t \in Turns : f.turns[t].phase = "queued" => \E i \in 1..Len(f.queue) : f.queue[i] = t
Limit == maxConcurrentTurns + (IF ListenersCall THEN 1 ELSE 0)
Counted(f) == f.active = Cardinality(InFlightOf(f)) /\ f.active <= Limit
Ledger(f) == Shapes(f) /\ QueueIsExact(f) /\ Counted(f)

(* g differs from f only in its agents, shards and recoveries.              *)
SameBooks(f, g) ==
    g.turns = f.turns /\ g.queue = f.queue /\ g.active = f.active /\ g.exceeded = f.exceeded
(* The same turns are queued, and the same turns are in flight.             *)
SameStanding(f, g) ==
    /\ g.queue = f.queue /\ g.active = f.active
    /\ \A t \in Turns :
         /\ g.turns[t].phase \in InFlightPhases <=> f.turns[t].phase \in InFlightPhases
         /\ g.turns[t].phase = "queued" <=> f.turns[t].phase = "queued"

LEMMA LimitIs ==
    /\ maxConcurrentTurns \in Nat \ {0} /\ Limit \in Nat /\ maxConcurrentTurns <= Limit
    /\ ListenersCall => Limit = maxConcurrentTurns + 1
<1>1. maxConcurrentTurns \in Nat \ {0}
  BY LimitsAssumption
<1>2. CASE ListenersCall
  BY <1>1, <1>2 DEF Limit
<1>3. CASE ~ListenersCall
  BY <1>1, <1>3 DEF Limit
<1> QED BY <1>1, <1>2, <1>3

LEMMA TurnsFinite == IsFiniteSet(Turns) /\ Turns \subseteq Nat
<1>1. MaxTurns \in Nat
  BY LimitsAssumption
<1> QED BY <1>1, FS_Interval DEF Turns

LEMMA Counts == ASSUME NEW f PROVE IsFiniteSet(InFlightOf(f)) /\ Cardinality(InFlightOf(f)) \in Nat
<1>1. InFlightOf(f) \subseteq Turns
  BY DEF InFlightOf
<1> QED BY <1>1, TurnsFinite, FS_Subset, FS_CardinalityType

LEMMA StandingKeepsLedger ==
    ASSUME NEW f, NEW g, Ledger(f), Shapes(g), SameStanding(f, g)
    PROVE  Ledger(g)
<1>1. InFlightOf(g) = InFlightOf(f)
  BY DEF SameStanding, InFlightOf
<1>2. Counted(g)
  BY <1>1 DEF Ledger, Counted, SameStanding
<1>3. QueueIsExact(g)
  <2>1. g.queue = f.queue /\ \A i \in 1..Len(f.queue) : f.queue[i] \in Turns
    BY DEF Ledger, QueueIsExact, SameStanding
  <2> QED BY <2>1 DEF Ledger, QueueIsExact, SameStanding
<1> QED BY <1>2, <1>3 DEF Ledger

LEMMA BooksKeepLedger ==
    ASSUME NEW f, NEW g, Ledger(f), FleetShape(g), SameBooks(f, g)
    PROVE  Ledger(g)
BY DEF Ledger, Shapes, SameBooks, QueueIsExact, Counted, InFlightOf

(* One shard of the table changes, and keeps a list of members.             *)
LEMMA RosterChange ==
    ASSUME NEW table, Rosters(table), NEW s, NEW z, s \in Shards => ShardShape(z)
    PROVE  Rosters([table EXCEPT ![s] = z])
BY DEF Rosters

LEMMA AcquireKeepsBooks ==
    ASSUME NEW f, FleetShape(f), NEW a \in Ids
    PROVE  FleetShape(Acquire(f, a)) /\ SameBooks(f, Acquire(f, a))
<1>1. CASE f.agents[a].shard # 0
  BY <1>1 DEF Acquire, SameBooks
<1>2. CASE f.agents[a].shard = 0
  <2> DEFINE room == WithRoom(f, BackendOf(a))
             s == IF room # {} THEN Min(room) ELSE Min(Uncreated(f))
             z == [f.shards[s] EXCEPT !.backend = BackendOf(a), !.tracked = TRUE, !.members = Append(@, a)]
             g == Acquire(f, a)
  <2>1. g = [f EXCEPT !.agents[a].shard = s, !.shards[s].backend = BackendOf(a), !.shards[s].tracked = TRUE,
                      !.shards[s].members = Append(@, a)]
    BY <1>2 DEF Acquire
  <2> HIDE DEF s, g, room
  <2>2. g.shards = [f.shards EXCEPT ![s] = z]
    BY <2>1 DEF FleetShape, Rosters
  <2>3. s \in Shards => ShardShape(z)
    <3>1. ASSUME s \in Shards PROVE ShardShape(f.shards[s])
      BY <3>1 DEF FleetShape, Rosters
    <3>2. ASSUME ShardShape(f.shards[s]) PROVE ShardShape(z)
      <4> DEFINE m == f.shards[s].members
      <4>1. m \in Seq(Ids)
        BY <3>2 DEF ShardShape
      <4>2. Append(m, a) \in Seq(Ids)
        <5> HIDE DEF m
        <5> QED BY <4>1
      <4>3. z = [f.shards[s] EXCEPT !.backend = BackendOf(a), !.tracked = TRUE, !.members = Append(m, a)]
        OBVIOUS
      <4> HIDE DEF z
      <4> QED BY <3>2, <4>2, <4>3 DEF ShardShape
    <3> QED BY <3>1, <3>2
  <2> HIDE DEF z
  <2>4. Rosters(g.shards)
    BY <2>2, <2>3, RosterChange DEF FleetShape
  <2>5. g \in [agents : {g.agents}, shards : {g.shards}, turns : {g.turns}, queue : {g.queue},
               active : {g.active}, exceeded : {g.exceeded}, recoveries : {g.recoveries}] /\ SameBooks(f, g)
    BY <2>1 DEF FleetShape, SameBooks
  <2> QED BY <2>4, <2>5 DEF FleetShape, g
<1> QED BY <1>1, <1>2

LEMMA StartKeepsBooks ==
    ASSUME NEW f, FleetShape(f), NEW s
    PROVE  FleetShape(Start(f, s)) /\ SameBooks(f, Start(f, s))
<1> DEFINE z == [f.shards[s] EXCEPT !.proc = IF @ = "idle" THEN "starting" ELSE @]
           g == Start(f, s)
<1>1. /\ g.shards = [f.shards EXCEPT ![s] = z] /\ SameBooks(f, g)
      /\ g \in [agents : {g.agents}, shards : {g.shards}, turns : {g.turns}, queue : {g.queue},
                active : {g.active}, exceeded : {g.exceeded}, recoveries : {g.recoveries}]
  BY DEF Start, FleetShape, Rosters, SameBooks
<1>2. s \in Shards => ShardShape(z)
  <2>1. ASSUME s \in Shards PROVE ShardShape(f.shards[s])
    BY <2>1 DEF FleetShape, Rosters
  <2>2. ASSUME ShardShape(f.shards[s]) PROVE ShardShape(z)
    BY <2>2 DEF ShardShape
  <2> QED BY <2>1, <2>2
<1> HIDE DEF z, g
<1>3. Rosters(g.shards)
  BY <1>1, <1>2, RosterChange DEF FleetShape
<1> QED BY <1>1, <1>3 DEF FleetShape, g
-----------------------------------------------------------------------------
(* An admission takes one entry out of the queue and starts its turn.       *)
LEMMA RemovedAt ==
    ASSUME NEW S, NEW q \in Seq(S), NEW i \in 1..Len(q)
    PROVE  /\ RemoveAt(q, i) \in Seq(S) /\ Len(RemoveAt(q, i)) = Len(q) - 1
           /\ \A j \in 1..(Len(q) - 1) : RemoveAt(q, i)[j] = IF j < i THEN q[j] ELSE q[j + 1]
<1> DEFINE a == SubSeq(q, 1, i - 1)
           b == SubSeq(q, i + 1, Len(q))
<1>1. Len(q) \in Nat /\ i \in Nat /\ 1 <= i /\ i <= Len(q)
  OBVIOUS
<1>2. a \in Seq(S) /\ Len(a) = i - 1 /\ \A j \in 1..(i - 1) : a[j] = q[j]
  BY <1>1
<1>3. b \in Seq(S) /\ Len(b) = Len(q) - i /\ \A j \in 1..(Len(q) - i) : b[j] = q[i + j]
  BY <1>1
<1>4. RemoveAt(q, i) = a \o b
  BY DEF RemoveAt
<1> HIDE DEF a, b
<1>5. /\ a \o b \in Seq(S) /\ Len(a \o b) = Len(q) - 1
      /\ \A j \in 1..(Len(q) - 1) : (a \o b)[j] = IF j <= i - 1 THEN a[j] ELSE b[j - (i - 1)]
  <2>1. /\ a \o b \in Seq(S) /\ Len(a \o b) = (i - 1) + (Len(q) - i)
        /\ \A j \in 1..((i - 1) + (Len(q) - i)) : (a \o b)[j] = IF j <= i - 1 THEN a[j] ELSE b[j - (i - 1)]
    <3>1. /\ a \o b \in Seq(S) /\ Len(a \o b) = Len(a) + Len(b)
          /\ \A j \in 1..(Len(a) + Len(b)) : (a \o b)[j] = IF j <= Len(a) THEN a[j] ELSE b[j - Len(a)]
      BY <1>2, <1>3, ConcatProperties
    <3> QED BY <1>2, <1>3, <3>1
  <2>2. (i - 1) + (Len(q) - i) = Len(q) - 1
    BY <1>1
  <2> QED BY <2>1, <2>2
<1>6. ASSUME NEW j \in 1..(Len(q) - 1) PROVE (a \o b)[j] = IF j < i THEN q[j] ELSE q[j + 1]
  <2>1. j \in Nat /\ 1 <= j /\ j <= Len(q) - 1
    BY <1>1
  <2>2. CASE j < i
    BY <1>1, <1>2, <1>5, <2>1, <2>2
  <2>3. CASE ~(j < i)
    <3>1. (a \o b)[j] = b[j - (i - 1)] /\ j - (i - 1) \in 1..(Len(q) - i) /\ i + (j - (i - 1)) = j + 1
      BY <1>1, <1>5, <2>1, <2>3
    <3> QED BY <1>1, <1>3, <2>1, <2>3, <3>1
  <2> QED BY <2>2, <2>3
<1> QED BY <1>4, <1>5, <1>6

LEMMA TakeEffect ==
    ASSUME NEW f, Shapes(f), NEW i \in 1..Len(f.queue), f.queue[i] \in Turns
    PROVE  LET g == Take(f, i)
               t == f.queue[i]
               z == [f.turns[t] EXCEPT !.phase = "taken"]
           IN /\ Shapes(g) /\ g = [f EXCEPT !.queue = RemoveAt(f.queue, i), !.turns = [f.turns EXCEPT ![t] = z]]
              /\ g.queue = RemoveAt(f.queue, i) /\ g.active = f.active /\ g.exceeded = f.exceeded
              /\ g.turns[t] = z /\ g.turns[t].phase = "taken" /\ g.turns[t].agent = f.turns[t].agent
              /\ \A u \in Turns : u # t => g.turns[u] = f.turns[u]
<1> DEFINE t == f.queue[i]
           z == [f.turns[t] EXCEPT !.phase = "taken"]
           g == Take(f, i)
<1>1. t \in Turns /\ TurnShape(f.turns[t]) /\ FleetShape(f) /\ f.turns = [u \in Turns |-> f.turns[u]]
  BY DEF Shapes
<1>2. TurnShape(z) /\ z.phase = "taken" /\ z.agent = f.turns[t].agent
  BY <1>1 DEF TurnShape
<1>3. /\ FleetShape(g) /\ g.turns = [f.turns EXCEPT ![t] = z]
      /\ g = [f EXCEPT !.queue = RemoveAt(f.queue, i), !.turns = [f.turns EXCEPT ![t] = z]]
      /\ g.queue = RemoveAt(f.queue, i) /\ g.active = f.active /\ g.exceeded = f.exceeded
  BY <1>1 DEF Take, FleetShape
<1> HIDE DEF g, z, t
<1>4. /\ g.turns = [u \in Turns |-> g.turns[u]]
      /\ g.turns[t] = z /\ \A u \in Turns : u # t => g.turns[u] = f.turns[u]
  BY <1>1, <1>3
<1>5. Shapes(g)
  BY <1>2, <1>3, <1>4 DEF Shapes
<1> QED BY <1>2, <1>3, <1>4, <1>5 DEF g, z, t

LEMMA TakeKeepsLedger ==
    ASSUME NEW f, Ledger(f), NEW i \in 1..Len(f.queue)
    PROVE  Ledger(Take(f, i)) /\ f.queue[i] \in Turns /\ f.turns[f.queue[i]].phase = "queued"
<1> DEFINE t == f.queue[i]
           g == Take(f, i)
           q == f.queue
           r == g.queue
<1>1. q \in Seq(Turns) /\ t \in Turns /\ f.turns[t].phase = "queued"
  BY DEF Ledger, QueueIsExact
<1>2. /\ Shapes(g) /\ r = RemoveAt(q, i) /\ g.active = f.active
      /\ g.turns[t].phase = "taken" /\ \A u \in Turns : u # t => g.turns[u] = f.turns[u]
  <2>1. Shapes(f)
    BY DEF Ledger
  <2> QED BY <1>1, <2>1, TakeEffect, Zenon
<1> HIDE DEF g, r
<1>3. /\ r \in Seq(Turns) /\ Len(r) = Len(q) - 1
      /\ \A j \in 1..Len(r) : r[j] = IF j < i THEN q[j] ELSE q[j + 1]
  <2>1. /\ RemoveAt(q, i) \in Seq(Turns) /\ Len(RemoveAt(q, i)) = Len(q) - 1
        /\ \A j \in 1..(Len(q) - 1) : RemoveAt(q, i)[j] = IF j < i THEN q[j] ELSE q[j + 1]
    BY <1>1, RemovedAt
  <2> QED BY <1>2, <2>1
<1>4. Len(q) \in Nat /\ i \in Nat /\ \A j, k \in 1..Len(q) : q[j] = q[k] => j = k
  BY <1>1 DEF Ledger, QueueIsExact
<1>5. QueueIsExact(g)
  <2>1. ASSUME NEW j \in 1..Len(r), NEW k \in 1..Len(r), r[j] = r[k] PROVE j = k
    <3>1. j \in Nat /\ k \in Nat /\ j <= Len(q) - 1 /\ k <= Len(q) - 1 /\ 1 <= j /\ 1 <= k
      BY <1>3, <1>4
    <3> DEFINE jj == IF j < i THEN j ELSE j + 1
               kk == IF k < i THEN k ELSE k + 1
    <3>2. jj \in 1..Len(q) /\ kk \in 1..Len(q) /\ q[jj] = q[kk]
      BY <1>3, <1>4, <2>1, <3>1
    <3>3. jj = kk
      BY <1>4, <3>2
    <3> QED BY <1>4, <3>1, <3>3
  <2>2. ASSUME NEW j \in 1..Len(r) PROVE r[j] # t /\ g.turns[r[j]].phase = "queued"
    <3> DEFINE k == IF j < i THEN j ELSE j + 1
    <3>0. k \in 1..Len(q) /\ k # i /\ r[j] = q[k]
      BY <1>3, <1>4
    <3> HIDE DEF k
    <3>1. r[j] # t
      BY <1>4, <3>0
    <3>2. f.turns[r[j]].phase = "queued"
      BY <3>0 DEF Ledger, QueueIsExact
    <3>3. r[j] \in Turns
      BY <1>1, <3>0
    <3> QED BY <1>2, <3>1, <3>2, <3>3
  <2>3. ASSUME NEW u \in Turns, g.turns[u].phase = "queued" PROVE \E j \in 1..Len(r) : r[j] = u
    <3>1. u # t /\ f.turns[u].phase = "queued"
      BY <1>2, <2>3
    <3>2. PICK k \in 1..Len(q) : q[k] = u
      BY <3>1 DEF Ledger, QueueIsExact
    <3>3. k # i
      BY <3>1, <3>2
    <3>4. CASE k < i
      <4>1. k \in 1..Len(r)
        BY <1>3, <1>4, <3>4
      <4> QED BY <1>3, <3>2, <3>4, <4>1
    <3>5. CASE k > i
      <4>1. k - 1 \in 1..Len(r) /\ ~(k - 1 < i) /\ (k - 1) + 1 = k
        BY <1>3, <1>4, <3>5
      <4> QED BY <1>3, <3>2, <4>1
    <3> QED BY <1>4, <3>3, <3>4, <3>5
  <2> QED BY <1>3, <2>1, <2>2, <2>3 DEF QueueIsExact, r
<1>6. Counted(g)
  <2>1. InFlightOf(g) = InFlightOf(f)
    BY <1>1, <1>2 DEF InFlightOf, InFlightPhases
  <2> QED BY <1>2, <2>1 DEF Ledger, Counted
<1> QED BY <1>1, <1>2, <1>5, <1>6 DEF Ledger, g

(* What #admit() makes of the entry: its turn is counted, and starts on the *)
(* agent's shard or is stranded.                                            *)
LEMMA AdmitEffect ==
    ASSUME NEW f, Shapes(f), NEW t \in Turns
    PROVE  LET g == Admit(f, t)
           IN /\ Shapes(g)
              /\ g.queue = f.queue /\ g.active = f.active + 1 /\ g.exceeded = f.exceeded
              /\ g.turns[t].phase \in {"starting", "stranded"}
              /\ \A u \in Turns : u # t => g.turns[u] = f.turns[u]
<1> DEFINE g == Acquire(f, f.turns[t].agent)
           s == g.agents[f.turns[t].agent].shard
           h == [g EXCEPT !.active = @ + 1, !.turns[t].phase = "starting", !.turns[t].shard = s]
           k == [f EXCEPT !.active = @ + 1, !.turns[t].phase = "stranded"]
<1>1. Admit(f, t) = IF HasShard(f, f.turns[t].agent) THEN Start(h, s) ELSE k
  BY DEF Admit
<1>2. FleetShape(g) /\ SameBooks(f, g)
  <2>1. f.turns[t].agent \in Ids
    BY DEF Shapes, TurnShape
  <2> QED BY <2>1, AcquireKeepsBooks DEF Shapes
<1> HIDE DEF g, s
<1>5. /\ FleetShape(h)
      /\ h.queue = f.queue /\ h.active = f.active + 1 /\ h.exceeded = f.exceeded
      /\ h.turns = [g.turns EXCEPT ![t].phase = "starting", ![t].shard = s]
  BY <1>2 DEF FleetShape, SameBooks
<1>6. /\ g.turns = [u \in Turns |-> f.turns[u]] /\ g.turns = f.turns /\ FleetShape(f)
      /\ \A u \in Turns : TurnShape(f.turns[u])
  BY <1>2 DEF Shapes, SameBooks
<1> HIDE DEF h
<1>7. /\ h.turns = [u \in Turns |-> h.turns[u]]
      /\ h.turns[t].phase = "starting" /\ TurnShape(h.turns[t])
      /\ \A u \in Turns : u # t => h.turns[u] = f.turns[u]
  <2> DEFINE p == f.turns[t]
             z == [[p EXCEPT !.phase = "starting"] EXCEPT !.shard = s]
  <2>1. h.turns = [g.turns EXCEPT ![t] = z]
    BY <1>5, <1>6
  <2>2. TurnShape(p)
    BY <1>6
  <2>3. z.phase = "starting" /\ TurnShape(z)
    BY <2>2 DEF TurnShape
  <2> HIDE DEF z, p
  <2> QED BY <1>6, <2>1, <2>3
<1>8. FleetShape(Start(h, s)) /\ SameBooks(h, Start(h, s))
  BY <1>5, StartKeepsBooks
<1>9. Shapes(Start(h, s))
  <2>1. \A u \in Turns : TurnShape(h.turns[u])
    BY <1>6, <1>7
  <2> QED BY <1>7, <1>8, <2>1 DEF Shapes, SameBooks
<1>10. /\ Start(h, s).queue = f.queue /\ Start(h, s).active = f.active + 1
       /\ Start(h, s).exceeded = f.exceeded /\ Start(h, s).turns = h.turns
  BY <1>5, <1>8 DEF SameBooks
<1>11. /\ Shapes(k) /\ k.queue = f.queue /\ k.active = f.active + 1 /\ k.exceeded = f.exceeded
       /\ k.turns[t].phase = "stranded" /\ \A u \in Turns : u # t => k.turns[u] = f.turns[u]
  <2> DEFINE p == f.turns[t]
             z == [p EXCEPT !.phase = "stranded"]
  <2>1. z.phase = "stranded" /\ TurnShape(z)
    BY <1>6 DEF TurnShape
  <2>2. /\ FleetShape(k) /\ k.turns = [f.turns EXCEPT ![t] = z]
        /\ k.queue = f.queue /\ k.active = f.active + 1 /\ k.exceeded = f.exceeded
    BY <1>6 DEF FleetShape
  <2> HIDE DEF k, z
  <2>3. k.turns = [u \in Turns |-> k.turns[u]] /\ k.turns[t] = z /\ \A u \in Turns : u # t => k.turns[u] = f.turns[u]
    BY <1>6, <2>2
  <2>4. \A u \in Turns : TurnShape(k.turns[u])
    BY <1>6, <2>1, <2>3
  <2> QED BY <2>1, <2>2, <2>3, <2>4 DEF Shapes
<1> HIDE DEF k
<1> QED BY <1>1, <1>7, <1>9, <1>10, <1>11

LEMMA AdmitKeepsLedger ==
    ASSUME NEW f, Ledger(f), f.active < Limit, NEW t \in Turns, f.turns[t].phase = "taken"
    PROVE  Ledger(Admit(f, t))
<1> DEFINE g == Admit(f, t)
<1>1. /\ Shapes(g) /\ g.queue = f.queue /\ g.active = f.active + 1
      /\ g.turns[t].phase \in {"starting", "stranded"} /\ \A u \in Turns : u # t => g.turns[u] = f.turns[u]
  BY AdmitEffect DEF Ledger
<1> HIDE DEF g
<1>2. QueueIsExact(g)
  <2>1. \A u \in Turns : g.turns[u].phase = "queued" <=> f.turns[u].phase = "queued"
    BY <1>1
  <2>2. \A i \in 1..Len(f.queue) : f.queue[i] \in Turns
    BY DEF Ledger, QueueIsExact
  <2> QED BY <1>1, <2>1, <2>2 DEF Ledger, QueueIsExact
<1>3. Counted(g)
  <2>1. InFlightOf(g) = InFlightOf(f) \union {t} /\ t \notin InFlightOf(f)
    BY <1>1 DEF InFlightOf, InFlightPhases
  <2>2. IsFiniteSet(InFlightOf(f)) /\ Cardinality(InFlightOf(f)) \in Nat
    BY Counts
  <2>3. Cardinality(InFlightOf(g)) = Cardinality(InFlightOf(f)) + 1
    BY <2>1, <2>2, FS_AddElement
  <2> QED BY <1>1, <2>2, <2>3, LimitIs DEF Ledger, Counted
<1> QED BY <1>1, <1>2, <1>3 DEF Ledger, g
-----------------------------------------------------------------------------
(* What every piece of the handlers does: it keeps the books, once the      *)
(* ceiling was reached it starts no turn, and from then on nothing is       *)
(* queued.                                                                  *)
Advances(f, g) ==
    /\ Ledger(g)
    /\ (f.exceeded => f.queue = <<>>) => (g.exceeded => g.queue = <<>>)
    /\ f.exceeded => /\ g.exceeded
                     /\ \A t \in Turns : f.turns[t].phase # "starting" => g.turns[t].phase # "starting"
(* What a drain does that may nest in another: moreover it leaves alone the *)
(* entry that the outer one has taken, and does not reach beyond the limit. *)
Nests(f, g) ==
    /\ Advances(f, g) /\ g.exceeded = f.exceeded
    /\ \A t \in Turns : f.turns[t].phase = "taken" => g.turns[t] = f.turns[t]
    /\ f.active <= maxConcurrentTurns => g.active <= maxConcurrentTurns

LEMMA AdvancesOn ==
    ASSUME NEW f, NEW g, NEW h, Advances(f, g), Advances(g, h)
    PROVE  Advances(f, h)
BY DEF Advances

LEMMA NestsSame == ASSUME NEW f, Ledger(f) PROVE Nests(f, f)
BY DEF Nests, Advances

LEMMA NestsOn ==
    ASSUME NEW f, NEW g, NEW h, Nests(f, g), Nests(g, h)
    PROVE  Nests(f, h)
<1>1. Advances(f, h)
  BY AdvancesOn DEF Nests
<1>2. ASSUME NEW t \in Turns, f.turns[t].phase = "taken" PROVE h.turns[t] = f.turns[t]
  <2>1. g.turns[t] = f.turns[t]
    BY <1>2 DEF Nests
  <2> QED BY <1>2, <2>1 DEF Nests
<1> QED BY <1>1, <1>2 DEF Nests

LEMMA BooksAdvance ==
    ASSUME NEW f, NEW g, Ledger(f), FleetShape(g), SameBooks(f, g)
    PROVE  Advances(f, g)
<1>1. Ledger(g)
  BY BooksKeepLedger
<1> QED BY <1>1 DEF Advances, SameBooks

(* A turn moves from one phase in flight to another, but is not started.    *)
LEMMA PhaseAdvances ==
    ASSUME NEW f, NEW g, NEW t \in Turns, NEW z, Ledger(f), FleetShape(g),
           f.turns[t].phase \in InFlightPhases, TurnShape(z), z.phase \in InFlightPhases \ {"starting"},
           g.turns = [f.turns EXCEPT ![t] = z],
           g.queue = f.queue, g.active = f.active, g.exceeded = f.exceeded
    PROVE  Advances(f, g)
<1>1. f.turns = [u \in Turns |-> f.turns[u]] /\ \A u \in Turns : TurnShape(f.turns[u])
  BY DEF Ledger, Shapes
<1>2. /\ g.turns = [u \in Turns |-> g.turns[u]]
      /\ g.turns[t] = z /\ \A u \in Turns : u # t => g.turns[u] = f.turns[u]
  BY <1>1
<1>3. Shapes(g)
  BY <1>1, <1>2 DEF Shapes
<1>4. SameStanding(f, g)
  BY <1>2 DEF SameStanding, InFlightPhases
<1>5. Ledger(g)
  BY <1>3, <1>4, StandingKeepsLedger
<1> QED BY <1>2, <1>5 DEF Advances

LEMMA ChosenIsReady ==
    ASSUME NEW f, Best(f) # {}
    PROVE  Chosen(f) \in 1..Len(f.queue) /\ Admissible(f, f.queue[Chosen(f)])
BY DEF Best, Chosen

(* An entry is taken where there is a place for it.                         *)
LEMMA TakenNests ==
    ASSUME NEW f, Ledger(f), ~Stuck(f)
    PROVE  LET t == f.queue[Chosen(f)]
               g == Take(f, Chosen(f))
           IN /\ t \in Turns /\ f.turns[t].phase = "queued"
              /\ Nests(f, g) /\ g.turns[t].phase = "taken" /\ ~g.exceeded
              /\ g.active < maxConcurrentTurns
<1> DEFINE i == Chosen(f)
           t == f.queue[i]
           g == Take(f, i)
<1>1. ~f.exceeded /\ Best(f) # {} /\ f.active < maxConcurrentTurns
  <2>1. f.active \in Nat /\ maxConcurrentTurns \in Nat
    BY Counts, LimitsAssumption DEF Ledger, Counted
  <2> QED BY <2>1 DEF Stuck
<1>2. i \in 1..Len(f.queue)
  BY <1>1, ChosenIsReady
<1> HIDE DEF i
<1>3. Ledger(g) /\ t \in Turns /\ f.turns[t].phase = "queued"
  BY <1>2, TakeKeepsLedger
<1>4. /\ g.active = f.active /\ g.exceeded = f.exceeded
      /\ g.turns[t].phase = "taken" /\ \A u \in Turns : u # t => g.turns[u] = f.turns[u]
  <2>1. Shapes(f)
    BY DEF Ledger
  <2> QED BY <1>2, <1>3, <2>1, TakeEffect, Zenon
<1> HIDE DEF g, t
<1>5. Nests(f, g)
  BY <1>1, <1>3, <1>4 DEF Nests, Advances
<1> QED BY <1>1, <1>3, <1>4, <1>5 DEF g, t, i

LEMMA AdmitAdvances ==
    ASSUME NEW f, Ledger(f), ~f.exceeded, f.active < Limit, NEW t \in Turns, f.turns[t].phase = "taken"
    PROVE  Advances(f, Admit(f, t))
<1>1. Ledger(Admit(f, t))
  BY AdmitKeepsLedger
<1>2. Admit(f, t).exceeded = f.exceeded
  BY AdmitEffect DEF Ledger
<1> QED BY <1>1, <1>2 DEF Advances

LEMMA DrainOneNests ==
    ASSUME NEW f, Ledger(f)
    PROVE  Nests(f, DrainOne(f))
<1>1. CASE Stuck(f)
  BY <1>1, NestsSame DEF DrainOne
<1>2. CASE ~Stuck(f)
  <2> DEFINE t == f.queue[Chosen(f)]
             g == Take(f, Chosen(f))
             h == Admit(g, t)
  <2>1. DrainOne(f) = h
    BY <1>2 DEF DrainOne
  <2>2. /\ t \in Turns /\ f.turns[t].phase = "queued" /\ Nests(f, g) /\ g.turns[t].phase = "taken"
        /\ ~g.exceeded /\ g.active < maxConcurrentTurns
    BY <1>2, TakenNests
  <2> HIDE DEF g, t
  <2>3. Ledger(g) /\ Shapes(g) /\ g.active \in Nat
    BY <2>2, Counts DEF Nests, Advances, Ledger, Counted
  <2>4. Advances(g, h)
    <3>1. g.active < Limit
      BY <2>2, <2>3, LimitIs
    <3> QED BY <2>2, <2>3, <3>1, AdmitAdvances
  <2>5. h.active = g.active + 1 /\ h.exceeded = g.exceeded /\ \A u \in Turns : u # t => h.turns[u] = g.turns[u]
    BY <2>2, <2>3, AdmitEffect
  <2> HIDE DEF h
  <2>6. h.active <= maxConcurrentTurns
    BY <2>2, <2>3, <2>5, LimitIs
  <2>7. Advances(f, h)
    BY <2>2, <2>4, AdvancesOn DEF Nests
  <2>8. \A u \in Turns : f.turns[u].phase = "taken" => h.turns[u] = f.turns[u]
    BY <2>2, <2>5 DEF Nests
  <2> QED BY <2>1, <2>2, <2>5, <2>6, <2>7, <2>8 DEF Nests
<1> QED BY <1>1, <1>2

LEMMA RoundsNest ==
    ASSUME NEW f, Ledger(f), NEW N \in Nat
    PROVE  Nests(f, Rounds(f, N))
<1>1. PICK h : DrainLoop(f, h, N) /\ Rounds(f, N) = h[N]
  BY RoundsUnfold
<1> DEFINE T == {n \in 0..N : ~Nests(f, h[n])}
<1>2. ASSUME T # {} PROVE FALSE
  <2>1. PICK n \in T : \A m \in T : n <= m
    BY <1>2, Least
  <2>2. n \in Nat /\ n <= N
    BY <2>1
  <2>3. CASE n = 0
    BY <1>1, <2>1, <2>3, NestsSame DEF DrainLoop
  <2>4. CASE n # 0
    <3>1. n - 1 \in 0..N /\ n - 1 \notin T
      BY <2>1, <2>2, <2>4
    <3>2. Nests(f, h[n - 1])
      BY <3>1
    <3>3. h[n] = DrainOne(h[n - 1])
      BY <1>1, <2>1, <2>2, <2>4 DEF DrainLoop
    <3>4. Nests(h[n - 1], h[n])
      BY <3>2, <3>3, DrainOneNests DEF Nests, Advances
    <3>5. Nests(f, h[n])
      BY <3>2, <3>4, NestsOn
    <3> QED BY <2>1, <3>5
  <2> QED BY <2>3, <2>4
<1>3. N \in 0..N
  OBVIOUS
<1> QED BY <1>1, <1>2, <1>3

LEMMA DrainNests ==
    ASSUME NEW f, Ledger(f)
    PROVE  Nests(f, Drain(f))
<1>1. Len(f.queue) \in Nat
  BY DEF Ledger, QueueIsExact
<1> QED BY <1>1, RoundsNest DEF Drain

(* run() by a listener: refused, or queued and drained.                     *)
LEMMA CallNests ==
    ASSUME NEW f, Ledger(f), NEW t \in Turns, NEW a \in Agents, NEW p, f.turns[t].phase = "new"
    PROVE  Nests(f, Refused(f, t, a, p)) /\ (~f.exceeded => Nests(f, Pushed(f, t, a, p)))
<1> DEFINE z(phase) == [NewTurn(a) EXCEPT !.phase = phase, !.prio = p]
           r == Refused(f, t, a, p)
           g == Pushed(f, t, a, p)
<1>1. f.turns[t].phase = "new"
  OBVIOUS
<1>2. /\ FleetShape(f) /\ f.turns = [u \in Turns |-> f.turns[u]]
      /\ \A u \in Turns : TurnShape(f.turns[u])
  BY DEF Ledger, Shapes
<1>3. ASSUME NEW phase PROVE TurnShape(z(phase)) /\ z(phase).phase = phase
  BY DEF NewTurn, TurnShape, Ids
<1>4. /\ FleetShape(r) /\ r.turns = [f.turns EXCEPT ![t] = z("refused")]
      /\ r.queue = f.queue /\ r.active = f.active /\ r.exceeded = f.exceeded
  BY <1>2 DEF Refused, FleetShape
<1>5. /\ FleetShape(g) /\ g.turns = [f.turns EXCEPT ![t] = z("queued")]
      /\ g.queue = Append(f.queue, t) /\ g.active = f.active /\ g.exceeded = f.exceeded
  BY <1>2 DEF Pushed, FleetShape
<1> HIDE DEF z, r, g
<1>6. Nests(f, r)
  <2>2. \A u \in Turns : r.turns[u] = IF u = t THEN z("refused") ELSE f.turns[u]
    BY <1>2, <1>4
  <2>3. r.turns = [u \in Turns |-> r.turns[u]]
    BY <1>2, <1>4
  <2>4. Shapes(r)
    BY <1>2, <1>3, <1>4, <2>2, <2>3 DEF Shapes
  <2>5. SameStanding(f, r)
    BY <1>1, <1>3, <1>4, <2>2 DEF SameStanding, InFlightPhases
  <2>6. Ledger(r)
    BY <2>4, <2>5, StandingKeepsLedger
  <2> QED BY <1>1, <1>3, <1>4, <2>2, <2>6 DEF Nests, Advances
<1>7. ASSUME ~f.exceeded PROVE Nests(f, g)
  <2>2. \A u \in Turns : g.turns[u] = IF u = t THEN z("queued") ELSE f.turns[u]
    BY <1>2, <1>5
  <2>3. g.turns = [u \in Turns |-> g.turns[u]]
    BY <1>2, <1>5
  <2>4. Shapes(g)
    BY <1>2, <1>3, <1>5, <2>2, <2>3 DEF Shapes
  <2>5. Counted(g)
    <3>1. InFlightOf(g) = InFlightOf(f)
      BY <1>1, <1>3, <2>2 DEF InFlightOf, InFlightPhases
    <3> QED BY <1>5, <3>1 DEF Ledger, Counted
  <2>6. QueueIsExact(g)
    <3> DEFINE o == f.queue
               q == Append(o, t)
    <3>1. o \in Seq(Turns) /\ Len(o) \in Nat /\ \A i \in 1..Len(o) : o[i] \in Turns /\ f.turns[o[i]].phase = "queued"
      BY DEF Ledger, QueueIsExact
    <3>a. \A k, l \in 1..Len(o) : o[k] = o[l] => k = l
      BY DEF Ledger, QueueIsExact
    <3>b. \A u \in Turns : f.turns[u].phase = "queued" => \E i \in 1..Len(o) : o[i] = u
      BY DEF Ledger, QueueIsExact
    <3>8. g.queue = q
      BY <1>5
    <3> HIDE DEF o
    <3>2. /\ q \in Seq(Turns) /\ Len(q) = Len(o) + 1
          /\ \A i \in 1..Len(o) : q[i] = o[i]
          /\ q[Len(o) + 1] = t
      BY <3>1
    <3> HIDE DEF q
    <3>3. \A i \in 1..Len(o) : o[i] # t
      BY <1>1, <3>1
    <3>4. \A i \in 1..Len(q) : i \in 1..Len(o) \/ i = Len(o) + 1
      BY <3>1, <3>2
    <3>5. ASSUME NEW i \in 1..Len(q), NEW j \in 1..Len(q), q[i] = q[j] PROVE i = j
      BY <3>2, <3>3, <3>4, <3>5, <3>a
    <3>6. ASSUME NEW i \in 1..Len(q) PROVE g.turns[q[i]].phase = "queued"
      BY <1>3, <2>2, <3>1, <3>2, <3>3, <3>4
    <3>7. ASSUME NEW u \in Turns, g.turns[u].phase = "queued" PROVE \E i \in 1..Len(q) : q[i] = u
      <4>1. CASE u = t
        <5>1. Len(o) + 1 \in 1..Len(q)
          BY <3>1, <3>2
        <5> QED BY <3>2, <4>1, <5>1
      <4>2. CASE u # t
        <5>1. f.turns[u].phase = "queued"
          BY <2>2, <3>7, <4>2
        <5>2. PICK i \in 1..Len(o) : o[i] = u
          BY <3>b, <5>1
        <5>3. i \in 1..Len(q)
          BY <3>1, <3>2
        <5> QED BY <3>2, <5>2, <5>3
      <4> QED BY <4>1, <4>2
    <3> QED BY <3>2, <3>5, <3>6, <3>7, <3>8 DEF QueueIsExact
  <2>7. Ledger(g)
    BY <2>4, <2>5, <2>6 DEF Ledger
  <2> QED BY <1>1, <1>5, <1>7, <2>2, <2>7 DEF Nests, Advances
<1> QED BY <1>6, <1>7 DEF r, g

LEMMA MinUnused ==
    ASSUME NEW f, Unused(f) # {}
    PROVE  Min(Unused(f)) \in Turns /\ f.turns[Min(Unused(f))].phase = "new"
<1>1. MaxTurns \in Nat /\ Unused(f) \subseteq 0..MaxTurns
  BY LimitsAssumption DEF Unused, Turns
<1>2. \E x \in Unused(f) : \A y \in Unused(f) : x <= y
  BY <1>1, Least
<1>3. Min(Unused(f)) \in Unused(f)
  BY <1>2 DEF Min
<1> QED BY <1>3 DEF Unused

LEMMA CalledNests ==
    ASSUME NEW f, Ledger(f), NEW c
    PROVE  Nests(f, Called(f, c))
<1>1. CASE Unused(f) = {} \/ c.agent \notin AgentsOf(f)
  BY <1>1, NestsSame DEF Called
<1>2. CASE ~(Unused(f) = {} \/ c.agent \notin AgentsOf(f))
  <2> DEFINE t == Min(Unused(f))
             g == Pushed(f, t, c.agent, c.prio)
  <2>1. t \in Turns /\ f.turns[t].phase = "new" /\ c.agent \in Agents
    BY <1>2, MinUnused DEF AgentsOf
  <2>2. \/ Called(f, c) = Refused(f, t, c.agent, c.prio)
        \/ ~f.exceeded /\ Called(f, c) = Drain(g)
    BY <1>2 DEF Called, Refuses
  <2> HIDE DEF t
  <2>3. Nests(f, Refused(f, t, c.agent, c.prio)) /\ (~f.exceeded => Nests(f, g))
    BY <2>1, CallNests
  <2> HIDE DEF g
  <2>4. Nests(f, g) => Nests(f, Drain(g))
    BY DrainNests, NestsOn DEF Nests, Advances
  <2> QED BY <2>2, <2>3, <2>4
<1> QED BY <1>1, <1>2

LEMMA HearsNests ==
    ASSUME NEW f, Ledger(f), NEW event, NEW n, NEW c
    PROVE  Nests(f, Hears(f, event, n, c))
BY CalledNests, NestsSame DEF Hears

(* A drain that is heard: only there may one entry go beyond the limit.     *)
IsCall(c) == c.at \in Nat /\ (c.event = "queueDepth" => ListenersCall)

LEMMA CallsAre ==
    ASSUME NEW first \in Nat, NEW c \in Calls(first)
    PROVE  IsCall(c)
<1>1. NoCall.at = 0 /\ NoCall.event = "none"
  BY DEF NoCall
<1> QED BY <1>1, LimitsAssumption DEF Calls, IsCall

(* The round of #drain() whose queueDepth event is answered by a call.      *)
HeardRound(f, c) == Admit(Called(Take(f, Chosen(f)), c), f.queue[Chosen(f)])

LEMMA DrainHeardIs ==
    ASSUME NEW f, NEW c
    PROVE  LET g == Rounds(f, c.at)
           IN \/ DrainHeard(f, c) = Drain(f) \/ DrainHeard(f, c) = Drain(Called(g, c))
              \/ /\ c.event = "queueDepth" /\ ~Stuck(g)
                 /\ DrainHeard(f, c) = Drain(HeardRound(g, c))
BY DEF DrainHeard, HeardRound

LEMMA HeardRoundAdvances ==
    ASSUME NEW f, Ledger(f), ~Stuck(f), NEW c, ListenersCall
    PROVE  /\ Ledger(Take(f, Chosen(f))) /\ Ledger(Called(Take(f, Chosen(f)), c))
           /\ f.queue[Chosen(f)] \in Turns /\ f.turns[f.queue[Chosen(f)]].phase = "queued"
           /\ Called(Take(f, Chosen(f)), c).turns[f.queue[Chosen(f)]] = Take(f, Chosen(f)).turns[f.queue[Chosen(f)]]
           /\ Take(f, Chosen(f)).turns[f.queue[Chosen(f)]].phase = "taken"
           /\ Advances(f, HeardRound(f, c))
<1> DEFINE t == f.queue[Chosen(f)]
           h == Take(f, Chosen(f))
           k == Called(h, c)
           m == Admit(k, t)
<1>1. /\ t \in Turns /\ f.turns[t].phase = "queued" /\ Nests(f, h) /\ h.turns[t].phase = "taken"
      /\ ~h.exceeded /\ h.active < maxConcurrentTurns
  BY TakenNests
<1>2. HeardRound(f, c) = m
  BY DEF HeardRound
<1> HIDE DEF h, t
<1>3. Ledger(h)
  BY <1>1 DEF Nests, Advances
<1>4. Nests(h, k)
  BY <1>3, CalledNests
<1> HIDE DEF k
<1>5. Ledger(k) /\ ~k.exceeded /\ k.turns[t] = h.turns[t]
  BY <1>1, <1>4 DEF Nests, Advances
<1>6. k.active < Limit
  <2>1. h.active \in Nat /\ k.active \in Nat
    BY <1>3, <1>5, Counts DEF Ledger, Counted
  <2>2. k.active <= maxConcurrentTurns
    BY <1>1, <1>4, <2>1, LimitIs DEF Nests
  <2> QED BY <2>1, <2>2, LimitIs
<1>7. Advances(k, m)
  BY <1>1, <1>5, <1>6, AdmitAdvances
<1> HIDE DEF m
<1>8. Advances(f, m)
  BY <1>1, <1>4, <1>7, AdvancesOn DEF Nests
<1> QED BY <1>1, <1>2, <1>3, <1>5, <1>8 DEF k, h, t

LEMMA DrainHeardAdvances ==
    ASSUME NEW f, Ledger(f), NEW c, IsCall(c)
    PROVE  Advances(f, DrainHeard(f, c))
<1> DEFINE g == Rounds(f, c.at)
<1>1. Ledger(g) /\ Advances(f, g)
  BY RoundsNest DEF IsCall, Nests, Advances
<1>2. ASSUME NEW k, Advances(f, k) PROVE Advances(f, Drain(k))
  BY <1>2, DrainNests, AdvancesOn DEF Nests, Advances
<1>3. Advances(f, Called(g, c))
  BY <1>1, CalledNests, AdvancesOn DEF Nests
<1>4. c.event = "queueDepth" /\ ~Stuck(g) => Advances(f, HeardRound(g, c))
  BY <1>1, HeardRoundAdvances, AdvancesOn DEF IsCall
<1>5. Advances(f, f)
  BY DEF Advances
<1> QED BY <1>2, <1>3, <1>4, <1>5, DrainHeardIs
-----------------------------------------------------------------------------
(* The pieces of the handlers.                                              *)
LEMMA NewTurnShape ==
    ASSUME NEW a \in Ids, NEW phase
    PROVE  LET z == [NewTurn(a) EXCEPT !.phase = phase] IN TurnShape(z) /\ z.phase = phase
BY DEF NewTurn, TurnShape

LEMMA FailingAdvances ==
    ASSUME NEW f, NEW t \in Turns, Ledger(f), f.turns[t].phase \in InFlightPhases
    PROVE  Advances(f, Failing(f, t)) /\ Failing(f, t).turns[t].phase = "failing"
<1> DEFINE g == Failing(f, t)
           z == [f.turns[t] EXCEPT !.phase = "failing"]
<1>1. TurnShape(f.turns[t]) /\ FleetShape(f) /\ f.turns = [u \in Turns |-> f.turns[u]]
  BY DEF Ledger, Shapes
<1>2. TurnShape(z) /\ z.phase = "failing"
  BY <1>1 DEF TurnShape
<1>3. /\ FleetShape(g) /\ g.turns = [f.turns EXCEPT ![t] = z]
      /\ g.queue = f.queue /\ g.active = f.active /\ g.exceeded = f.exceeded
  BY <1>1 DEF Failing, FleetShape
<1> HIDE DEF g, z
<1>4. "failing" \in InFlightPhases \ {"starting"}
  BY DEF InFlightPhases
<1>5. Advances(f, g)
  BY <1>2, <1>3, <1>4, PhaseAdvances
<1>6. g.turns[t].phase = "failing"
  BY <1>1, <1>2, <1>3
<1> QED BY <1>5, <1>6 DEF g

LEMMA OpenAdvances ==
    ASSUME NEW f, NEW t \in Turns, NEW x, Ledger(f), f.turns[t].phase \in InFlightPhases
    PROVE  Advances(f, Open(f, t, x))
<1> DEFINE g == Open(f, t, x)
           z == [f.turns[t] EXCEPT !.phase = "running", !.session = x]
<1>1. TurnShape(f.turns[t]) /\ FleetShape(f) /\ f.turns = [u \in Turns |-> f.turns[u]]
  BY DEF Ledger, Shapes
<1>2. TurnShape(z) /\ z.phase = "running"
  BY <1>1 DEF TurnShape
<1>3. FleetShape(g) /\ g.queue = f.queue /\ g.active = f.active /\ g.exceeded = f.exceeded
  <2> DEFINE s == f.turns[t].shard
             y == [f.shards[s] EXCEPT !.sess[x] = "open", !.mapped = @ \union {x}]
  <2>1. /\ g.shards = [f.shards EXCEPT ![s] = y]
        /\ g \in [agents : {g.agents}, shards : {g.shards}, turns : {g.turns}, queue : {g.queue},
                  active : {g.active}, exceeded : {g.exceeded}, recoveries : {g.recoveries}]
        /\ g.queue = f.queue /\ g.active = f.active /\ g.exceeded = f.exceeded
    BY <1>1, ZenonT(60) DEF Open, FleetShape, Rosters
  <2>2. s \in Shards => ShardShape(y)
    <3>1. ASSUME s \in Shards PROVE ShardShape(f.shards[s])
      BY <1>1, <3>1 DEF FleetShape, Rosters
    <3>2. ASSUME ShardShape(f.shards[s]) PROVE ShardShape(y)
      BY <3>2 DEF ShardShape
    <3> QED BY <3>1, <3>2
  <2> HIDE DEF s, y, g
  <2>3. Rosters(g.shards)
    BY <1>1, <2>1, <2>2, RosterChange DEF FleetShape
  <2> QED BY <2>1, <2>3 DEF FleetShape
<1>4. g.turns = [f.turns EXCEPT ![t] = z]
  BY <1>1 DEF Open, FleetShape
<1> HIDE DEF g, z
<1>5. "running" \in InFlightPhases \ {"starting"}
  BY DEF InFlightPhases
<1>6. Advances(f, g)
  BY <1>2, <1>3, <1>4, <1>5, PhaseAdvances
<1> QED BY <1>6 DEF g

LEMMA OnTurnEventAdvances ==
    ASSUME NEW f, NEW t, Ledger(f), NEW c, IsCall(c)
    PROVE  Advances(f, OnTurnEvent(f, t, c))
<1>1. Advances(f, f)
  BY DEF Advances
<1> QED BY <1>1, DrainHeardAdvances DEF OnTurnEvent

(* Whatever ends, its place is freed.                                       *)
LEMMA SettleAdvances ==
    ASSUME NEW f, NEW t \in Turns, Ledger(f), f.turns[t].phase \in InFlightPhases,
           NEW phase \in {"done", "failed"}
    PROVE  Advances(f, [Settle(f, t, phase) EXCEPT !.active = @ - 1])
<1> DEFINE z == [NewTurn(f.turns[t].agent) EXCEPT !.phase = phase]
           g == [Settle(f, t, phase) EXCEPT !.active = @ - 1]
<1>1. /\ FleetShape(f) /\ f.turns = [u \in Turns |-> f.turns[u]]
      /\ \A u \in Turns : TurnShape(f.turns[u])
  BY DEF Ledger, Shapes
<1>2. TurnShape(z) /\ z.phase = phase
  <2>1. f.turns[t].agent \in Ids
    BY <1>1 DEF TurnShape
  <2> QED BY <2>1, NewTurnShape
<1>3. /\ FleetShape(g) /\ g.turns = [f.turns EXCEPT ![t] = z]
      /\ g.queue = f.queue /\ g.active = f.active - 1 /\ g.exceeded = f.exceeded
  BY <1>1 DEF Settle, FleetShape
<1> HIDE DEF g, z
<1>5. /\ g.turns = [u \in Turns |-> g.turns[u]]
      /\ g.turns[t] = z /\ \A u \in Turns : u # t => g.turns[u] = f.turns[u]
  BY <1>1, <1>3
<1>6. phase \notin InFlightPhases /\ phase \notin {"queued", "starting"} /\ "queued" \notin InFlightPhases
  BY DEF InFlightPhases
<1>7. Shapes(g)
  BY <1>1, <1>2, <1>3, <1>5 DEF Shapes
<1>8. Counted(g)
  <2>1. InFlightOf(g) = InFlightOf(f) \ {t} /\ t \in InFlightOf(f)
    BY <1>2, <1>5, <1>6 DEF InFlightOf
  <2>2. IsFiniteSet(InFlightOf(f)) /\ Cardinality(InFlightOf(f)) \in Nat
    BY Counts
  <2>3. Cardinality(InFlightOf(g)) = Cardinality(InFlightOf(f)) - 1
    BY <2>1, <2>2, FS_RemoveElement
  <2> QED BY <1>3, <2>2, <2>3, LimitIs DEF Ledger, Counted
<1>9. QueueIsExact(g)
  <2>1. \A u \in Turns : g.turns[u].phase = "queued" <=> f.turns[u].phase = "queued"
    BY <1>2, <1>5, <1>6
  <2>2. \A i \in 1..Len(f.queue) : f.queue[i] \in Turns
    BY DEF Ledger, QueueIsExact
  <2> QED BY <1>3, <2>1, <2>2 DEF Ledger, QueueIsExact
<1>10. Advances(f, g)
  BY <1>2, <1>3, <1>5, <1>6, <1>7, <1>8, <1>9 DEF Advances, Ledger
<1> QED BY <1>10 DEF g

LEMMA FinallyAdvances ==
    ASSUME NEW f, NEW t \in Turns, Ledger(f), f.turns[t].phase \in InFlightPhases,
           NEW phase \in {"done", "failed"}, NEW c, IsCall(c)
    PROVE  Advances(f, Finally(f, t, phase, c))
<1> DEFINE g == [Settle(f, t, phase) EXCEPT !.active = @ - 1]
<1>1. Finally(f, t, phase, c) = DrainHeard(g, c)
  BY DEF Finally
<1>2. Advances(f, g)
  BY SettleAdvances
<1> HIDE DEF g
<1>3. Advances(g, DrainHeard(g, c))
  BY <1>2, DrainHeardAdvances DEF Advances
<1> QED BY <1>1, <1>2, <1>3, AdvancesOn

(* What waits is rejected, by the ceiling or by close().                    *)
LEMMA EmptyingAdvances ==
    ASSUME NEW f, NEW g, Ledger(f), FleetShape(g), g.queue = <<>>, g.active = f.active,
           f.exceeded => g.exceeded,
           g.turns = [t \in Turns |-> IF f.turns[t].phase = "queued"
                                       THEN [NewTurn(f.turns[t].agent) EXCEPT !.phase = "refused"]
                                       ELSE f.turns[t]]
    PROVE  Advances(f, g)
<1>1. \A t \in Turns : TurnShape(f.turns[t])
  BY DEF Ledger, Shapes
<1>2. ASSUME NEW t \in Turns
      PROVE  /\ TurnShape(g.turns[t])
             /\ g.turns[t].phase = IF f.turns[t].phase = "queued" THEN "refused" ELSE f.turns[t].phase
  <2> DEFINE z == [NewTurn(f.turns[t].agent) EXCEPT !.phase = "refused"]
  <2>1. TurnShape(z) /\ z.phase = "refused"
    <3>1. f.turns[t].agent \in Ids
      BY <1>1 DEF TurnShape
    <3> QED BY <3>1, NewTurnShape
  <2>2. g.turns[t] = IF f.turns[t].phase = "queued" THEN z ELSE f.turns[t]
    OBVIOUS
  <2> HIDE DEF z
  <2> QED BY <1>1, <2>1, <2>2
<1>3. Shapes(g)
  BY <1>2 DEF Shapes
<1>4. InFlightOf(g) = InFlightOf(f)
  BY <1>2 DEF InFlightOf, InFlightPhases
<1>5. Counted(g)
  BY <1>4 DEF Ledger, Counted
<1>6. \A t \in Turns : g.turns[t].phase # "queued"
  BY <1>2
<1>7. QueueIsExact(g)
  <2>1. g.queue \in Seq(Turns) /\ Len(g.queue) = 0
    OBVIOUS
  <2> QED BY <1>6, <2>1 DEF QueueIsExact
<1> QED BY <1>2, <1>3, <1>5, <1>7 DEF Advances, Ledger

LEMMA TripAdvances ==
    ASSUME NEW f, Ledger(f)
    PROVE  Advances(f, Trip(f))
<1>1. FleetShape(f)
  BY DEF Ledger, Shapes
<1>2. CASE f.exceeded
  BY <1>2 DEF Trip, Advances
<1>3. CASE ~f.exceeded
  <2> DEFINE g == Trip(f)
  <2>1. /\ FleetShape(g) /\ g.queue = <<>> /\ g.active = f.active
        /\ g.turns = [t \in Turns |-> IF f.turns[t].phase = "queued"
                                       THEN [NewTurn(f.turns[t].agent) EXCEPT !.phase = "refused"]
                                       ELSE f.turns[t]]
    BY <1>1, <1>3 DEF Trip, FleetShape
  <2> HIDE DEF g
  <2>2. Advances(f, g)
    BY <1>3, <2>1, EmptyingAdvances
  <2> QED BY <2>2 DEF g
<1> QED BY <1>2, <1>3

LEMMA RejectedAdvances ==
    ASSUME NEW f, NEW s, Ledger(f)
    PROVE  Advances(f, Rejected(f, s))
<1> DEFINE g == Rejected(f, s)
<1>1. FleetShape(f) /\ \A t \in Turns : TurnShape(f.turns[t])
  BY DEF Ledger, Shapes
<1>2. /\ FleetShape(g) /\ g.queue = f.queue /\ g.active = f.active /\ g.exceeded = f.exceeded
      /\ g.turns = [t \in Turns |->
            IF f.turns[t].shard = s /\ f.turns[t].phase \in {"starting", "opening", "running"}
              THEN [f.turns[t] EXCEPT !.phase = "failing"] ELSE f.turns[t]]
  BY <1>1 DEF Rejected, FleetShape
<1> HIDE DEF g
<1>3. ASSUME NEW t \in Turns
      PROVE  /\ TurnShape(g.turns[t])
             /\ \/ g.turns[t].phase = f.turns[t].phase
                \/ g.turns[t].phase = "failing" /\ f.turns[t].phase \in {"starting", "opening", "running"}
  BY <1>1, <1>2 DEF TurnShape
<1>4. Shapes(g)
  BY <1>2, <1>3 DEF Shapes
<1>5. SameStanding(f, g)
  BY <1>2, <1>3 DEF SameStanding, InFlightPhases
<1>6. Ledger(g)
  BY <1>4, <1>5, StandingKeepsLedger
<1>7. Advances(f, g)
  BY <1>2, <1>3, <1>6 DEF Advances
<1> QED BY <1>7 DEF g
-----------------------------------------------------------------------------
(* Moving the agents of a dead shard leaves the books alone.                *)
LEMMA RecoverAgentKeepsBooks ==
    ASSUME NEW f, FleetShape(f), NEW a \in Ids
    PROVE  FleetShape(RecoverAgent(f, a)) /\ SameBooks(f, RecoverAgent(f, a))
<1>1. CASE CanAssign(f, a)
  <2> DEFINE g == Acquire(f, a)
             s == g.agents[a].shard
             h == [g EXCEPT !.recoveries = @ \union {[agent |-> a, shard |-> s, phase |-> "starting", session |-> 0]}]
  <2>1. FleetShape(g) /\ SameBooks(f, g)
    BY AcquireKeepsBooks
  <2>2. RecoverAgent(f, a) = Start(h, s)
    BY <1>1 DEF RecoverAgent
  <2> HIDE DEF g, s
  <2>3. FleetShape(h) /\ SameBooks(f, h)
    BY <2>1 DEF FleetShape, SameBooks
  <2> HIDE DEF h
  <2>4. FleetShape(Start(h, s)) /\ SameBooks(h, Start(h, s))
    BY <2>3, StartKeepsBooks
  <2> QED BY <2>2, <2>3, <2>4 DEF SameBooks
<1>2. CASE ~CanAssign(f, a)
  BY <1>2 DEF RecoverAgent, FleetShape, SameBooks
<1> QED BY <1>1, <1>2

LEMMA LoseMemberAdvances ==
    ASSUME NEW f, Ledger(f), NEW a \in Ids, NEW n, NEW c
    PROVE  Advances(f, LoseMember(f, a, n, c))
<1> DEFINE g == [f EXCEPT !.agents[a].status = "lost"]
           h == [f EXCEPT !.agents[a].status = "recovering", !.agents[a].shard = 0]
           gg == Hears(g, "shardLost", n, c)
           hh == Hears(h, "shardLost", n, c)
           k == RecoverAgent(hh, a)
<1>1. FleetShape(g) /\ SameBooks(f, g) /\ FleetShape(h) /\ SameBooks(f, h)
  BY DEF Ledger, Shapes, FleetShape, SameBooks
<1>2. LoseMember(f, a, n, c) \in {f, gg, k, Hears(k, "agentLost", n, c)}
  BY DEF LoseMember
<1> HIDE DEF g, h
<1>3. Advances(f, f) /\ Advances(f, g) /\ Advances(f, h)
  BY <1>1, BooksAdvance DEF Advances
<1>4. Advances(f, gg) /\ Advances(f, hh)
  BY <1>3, HearsNests, AdvancesOn DEF Nests, Advances
<1> HIDE DEF gg, hh
<1>5. Advances(hh, k)
  <2>1. Ledger(hh) /\ FleetShape(hh)
    BY <1>4 DEF Advances, Ledger, Shapes
  <2>2. FleetShape(k) /\ SameBooks(hh, k)
    BY <2>1, RecoverAgentKeepsBooks
  <2> QED BY <2>1, <2>2, BooksAdvance
<1>6. Advances(f, k)
  BY <1>4, <1>5, AdvancesOn
<1> HIDE DEF k
<1>7. Advances(f, Hears(k, "agentLost", n, c))
  <2>1. Advances(k, Hears(k, "agentLost", n, c))
    BY <1>6, HearsNests DEF Nests, Advances
  <2> QED BY <1>6, <2>1, AdvancesOn
<1> QED BY <1>2, <1>3, <1>4, <1>6, <1>7

LoseLoop(f, list, c, h, n) == h = [k \in 0..n |-> IF k = 0 THEN f ELSE LoseMember(h[k - 1], list[k], k, c)]

LEMMA LoseLoopExists ==
    ASSUME NEW f, NEW list, NEW c, NEW N \in Nat
    PROVE  \E h : LoseLoop(f, list, c, h, N)
<1> DEFINE T == {n \in 0..N : ~\E h : LoseLoop(f, list, c, h, n)}
<1>1. ASSUME T # {} PROVE FALSE
  <2>1. PICK n \in T : \A m \in T : n <= m
    BY <1>1, Least
  <2>2. n \in Nat /\ n <= N /\ ~\E h : LoseLoop(f, list, c, h, n)
    BY <2>1
  <2>3. CASE n = 0
    <3>1. [k \in 0..0 |-> f]
            = [k \in 0..0 |-> IF k = 0 THEN f ELSE LoseMember([i \in 0..0 |-> f][k - 1], list[k], k, c)]
      OBVIOUS
    <3> QED BY <2>2, <2>3, <3>1 DEF LoseLoop
  <2>4. CASE n # 0
    <3>1. n - 1 \in Nat /\ n - 1 \in 0..N /\ n - 1 \notin T
      BY <2>1, <2>2, <2>4
    <3>2. PICK h : LoseLoop(f, list, c, h, n - 1)
      BY <3>1
    <3> DEFINE g == [k \in 0..n |-> IF k = n THEN LoseMember(h[n - 1], list[n], n, c) ELSE h[k]]
    <3>3. ASSUME NEW k \in 0..n PROVE g[k] = IF k = 0 THEN f ELSE LoseMember(g[k - 1], list[k], k, c)
      <4>1. CASE k = 0
        BY <2>4, <3>1, <3>2, <4>1 DEF LoseLoop
      <4>2. CASE k # 0 /\ k # n
        <5>1. k \in 0..(n - 1) /\ k - 1 \in 0..n /\ k - 1 # n
          BY <2>2, <4>2
        <5> QED BY <3>2, <4>2, <5>1 DEF LoseLoop
      <4>3. CASE k = n
        <5>1. n - 1 \in 0..n /\ n - 1 # n
          BY <2>2, <2>4
        <5> QED BY <2>4, <4>3, <5>1
      <4> QED BY <4>1, <4>2, <4>3
    <3>4. LoseLoop(f, list, c, g, n)
      <4>1. g = [k \in 0..n |-> g[k]]
        OBVIOUS
      <4> HIDE DEF g
      <4> QED BY <3>3, <4>1 DEF LoseLoop
    <3> HIDE DEF g
    <3> QED BY <2>2, <3>4
  <2> QED BY <2>3, <2>4
<1>2. N \in 0..N
  OBVIOUS
<1> QED BY <1>1, <1>2

LEMMA LoseMembersUnfold ==
    ASSUME NEW f, NEW list, NEW c, Len(list) \in Nat
    PROVE  \E h : LoseLoop(f, list, c, h, Len(list)) /\ LoseMembers(f, list, c) = h[Len(list)]
<1> DEFINE h == CHOOSE h : h = [k \in 0..Len(list) |-> IF k = 0 THEN f ELSE LoseMember(h[k - 1], list[k], k, c)]
<1>1. \E g : g = [k \in 0..Len(list) |-> IF k = 0 THEN f ELSE LoseMember(g[k - 1], list[k], k, c)]
  <2>1. \E g : LoseLoop(f, list, c, g, Len(list))
    BY LoseLoopExists
  <2> QED BY <2>1 DEF LoseLoop
<1>2. h = [k \in 0..Len(list) |-> IF k = 0 THEN f ELSE LoseMember(h[k - 1], list[k], k, c)]
  BY <1>1, Zenon
<1>3. LoseMembers(f, list, c) = h[Len(list)]
  BY Zenon DEF LoseMembers
<1> HIDE DEF h
<1> QED BY <1>2, <1>3 DEF LoseLoop

LEMMA LoseMembersAdvances ==
    ASSUME NEW f, Ledger(f), NEW list \in Seq(Ids), NEW c
    PROVE  Advances(f, LoseMembers(f, list, c))
<1> DEFINE N == Len(list)
<1>1. N \in Nat /\ \A k \in 1..N : list[k] \in Ids
  OBVIOUS
<1>2. PICK h : LoseLoop(f, list, c, h, N) /\ LoseMembers(f, list, c) = h[N]
  BY <1>1, LoseMembersUnfold
<1> HIDE DEF N
<1> DEFINE T == {n \in 0..N : ~Advances(f, h[n])}
<1>5. ASSUME T # {} PROVE FALSE
  <2>1. PICK n \in T : \A m \in T : n <= m
    BY <1>1, <1>5, Least
  <2>2. n \in Nat /\ n <= N
    BY <1>1, <2>1
  <2>3. CASE n = 0
    BY <1>1, <1>2, <2>1, <2>3 DEF LoseLoop, Advances
  <2>4. CASE n # 0
    <3>1. n - 1 \in 0..N /\ n - 1 \notin T
      BY <1>1, <2>1, <2>2, <2>4
    <3>2. Advances(f, h[n - 1])
      BY <3>1
    <3>3. h[n] = LoseMember(h[n - 1], list[n], n, c)
      BY <1>2, <2>1, <2>2, <2>4 DEF LoseLoop
    <3>4. Advances(h[n - 1], h[n])
      <4>1. list[n] \in Ids
        BY <1>1, <2>2, <2>4
      <4> QED BY <3>2, <3>3, <4>1, LoseMemberAdvances DEF Advances
    <3> QED BY <2>1, <3>2, <3>4, AdvancesOn
  <2> QED BY <2>3, <2>4
<1>6. N \in 0..N
  BY <1>1
<1> QED BY <1>2, <1>5, <1>6
-----------------------------------------------------------------------------
(* The steps. The record of the next state is what a handler has made of it. *)
LEMMA BecomesIs ==
    ASSUME NEW f, FleetShape(f), Becomes(f)
    PROVE  fleet' = f
BY DEF Becomes, fleet, FleetShape

LEMMA BecomesAdvances ==
    ASSUME NEW f, Advances(fleet, f), Becomes(f)
    PROVE  Advances(fleet, fleet')
<1>1. FleetShape(f)
  BY DEF Advances, Ledger, Shapes
<1> QED BY <1>1, BecomesIs

(* What leaves the turns, the queue and the counter alone.                  *)
LEMMA FrameAdvances ==
    ASSUME Ledger(fleet), UNCHANGED <<turns, queue, activeTurns, exceeded>>, Rosters(shards')
    PROVE  Advances(fleet, fleet')
<1>1. FleetShape(fleet') /\ SameBooks(fleet, fleet')
  BY DEF fleet, FleetShape, SameBooks
<1> QED BY <1>1, BooksAdvance

LEMMA InitialLedger == Init => Ledger(fleet)
<1> SUFFICES ASSUME Init PROVE Ledger(fleet)
  OBVIOUS
<1>1. Rosters(shards)
  <2>1. <<>> \in Seq(Ids)
    OBVIOUS
  <2>2. ShardShape(NewShard)
    BY <2>1 DEF NewShard, ShardShape
  <2> QED BY <2>2 DEF Init, Rosters
<1>2. Shapes(fleet)
  BY <1>1 DEF Init, fleet, Shapes, FleetShape, TurnShape, NewTurn, Ids
<1>3. QueueIsExact(fleet)
  BY DEF Init, fleet, QueueIsExact, NewTurn
<1>4. Counted(fleet)
  <2>1. InFlightOf(fleet) = {}
    BY DEF Init, fleet, InFlightOf, InFlightPhases, NewTurn
  <2>2. fleet.active = 0 /\ Cardinality({}) = 0
    BY FS_EmptySet DEF Init, fleet
  <2> QED BY <2>1, <2>2, LimitIs DEF Counted
<1> QED BY <1>2, <1>3, <1>4 DEF Ledger

(* A turn's own steps.                                                      *)
LEMMA FleetIsShaped ==
    ASSUME Ledger(fleet)
    PROVE  /\ FleetShape(fleet) /\ Rosters(shards) /\ turns = [u \in Turns |-> turns[u]]
           /\ \A u \in Turns : TurnShape(turns[u])
BY DEF Ledger, Shapes, FleetShape, fleet

(* f is the fleet, but for one shard that keeps its members.                *)
LEMMA OneShardAdvances ==
    ASSUME Ledger(fleet), NEW s, NEW z, NEW f,
           f = [fleet EXCEPT !.shards[s] = z], ShardShape(shards[s]) => ShardShape(z)
    PROVE  Advances(fleet, f)
<1>1. FleetShape(fleet) /\ Rosters(shards)
  BY FleetIsShaped
<1>2. s \in Shards => ShardShape(z)
  BY <1>1 DEF Rosters
<1>3. /\ f.shards = [shards EXCEPT ![s] = z] /\ SameBooks(fleet, f)
      /\ f \in [agents : {f.agents}, shards : {f.shards}, turns : {f.turns}, queue : {f.queue},
                active : {f.active}, exceeded : {f.exceeded}, recoveries : {f.recoveries}]
  BY DEF fleet, SameBooks
<1>4. Rosters(f.shards)
  BY <1>1, <1>2, <1>3, RosterChange
<1> QED BY <1>3, <1>4, BooksAdvance DEF FleetShape

LEMMA TurnStartAdvances ==
    ASSUME Ledger(fleet), NEW t \in Turns, TurnStart(t)
    PROVE  Advances(fleet, fleet')
<1> DEFINE opening(y) == [fleet EXCEPT !.turns[t].phase = "opening", !.turns[t].session = y]
<1>1. turns[t].phase \in InFlightPhases /\ fleet.turns = turns
  BY DEF TurnStart, InFlightPhases, fleet
<1>2. ASSUME NEW y PROVE Advances(fleet, opening(y))
  <2> DEFINE g == opening(y)
             z == [turns[t] EXCEPT !.phase = "opening", !.session = y]
  <2>1. TurnShape(turns[t]) /\ FleetShape(fleet) /\ turns = [u \in Turns |-> turns[u]]
    BY FleetIsShaped
  <2>2. TurnShape(z) /\ z.phase = "opening"
    BY <2>1 DEF TurnShape
  <2>3. /\ FleetShape(g) /\ g.turns = [fleet.turns EXCEPT ![t] = z]
        /\ g.queue = fleet.queue /\ g.active = fleet.active /\ g.exceeded = fleet.exceeded
    BY <2>1 DEF FleetShape, fleet
  <2>4. "opening" \in InFlightPhases \ {"starting"}
    BY DEF InFlightPhases
  <2> HIDE DEF g, z
  <2>5. Advances(fleet, g)
    BY <1>1, <2>2, <2>3, <2>4, PhaseAdvances
  <2> QED BY <2>5 DEF g
<1>3. Advances(fleet, Failing(fleet, t))
  BY <1>1, FailingAdvances
<1>4. Becomes(Failing(fleet, t)) \/ \E y : Becomes(opening(y))
  BY DEF TurnStart
<1> HIDE DEF opening
<1> QED BY <1>2, <1>3, <1>4, BecomesAdvances

LEMMA TurnReusesAdvances ==
    ASSUME Ledger(fleet), NEW t \in Turns, TurnReuses(t)
    PROVE  Advances(fleet, fleet')
<1>1. fleet.turns[t].phase \in InFlightPhases
  BY DEF TurnReuses, InFlightPhases, fleet
<1>2. Becomes(Failing(fleet, t)) \/ Becomes(Open(fleet, t, turns[t].session))
  BY DEF TurnReuses
<1> QED BY <1>1, <1>2, FailingAdvances, OpenAdvances, BecomesAdvances

LEMMA TurnOpensFreshAdvances ==
    ASSUME Ledger(fleet), NEW t \in Turns, TurnOpensFresh(t)
    PROVE  Advances(fleet, fleet')
<1> DEFINE s == ShardOf(t)
           x == turns[t].session
           z == [shards[s] EXCEPT !.sess[x] = "none"]
           f == [fleet EXCEPT !.shards[s].sess[x] = "none"]
<1>1. fleet.turns[t].phase \in InFlightPhases
  BY DEF TurnOpensFresh, InFlightPhases, fleet
<1>2. Becomes(Failing(fleet, t)) \/ Becomes(Open(f, t, t))
  BY DEF TurnOpensFresh
<1>3. f = [fleet EXCEPT !.shards[s] = z] /\ f.turns = fleet.turns
  BY DEF fleet
<1>4. ShardShape(shards[s]) => ShardShape(z)
  BY DEF ShardShape
<1> HIDE DEF f, z, s, x
<1>5. Advances(fleet, f)
  BY <1>3, <1>4, OneShardAdvances
<1>6. Advances(f, Open(f, t, t))
  BY <1>1, <1>3, <1>5, OpenAdvances DEF Advances
<1>7. Advances(fleet, Open(f, t, t))
  BY <1>5, <1>6, AdvancesOn
<1> QED BY <1>1, <1>2, <1>7, FailingAdvances, BecomesAdvances

LEMMA OthersAdvance ==
    ASSUME NEW f, NEW g, NEW A, NEW R, Ledger(f), g = [f EXCEPT !.agents = A, !.recoveries = R]
    PROVE  Advances(f, g)
<1>1. FleetShape(f)
  BY DEF Ledger, Shapes
<1>2. FleetShape(g) /\ SameBooks(f, g)
  BY <1>1 DEF FleetShape, SameBooks
<1> QED BY <1>2, BooksAdvance

(* The turn has completed, and its event has not been handled.              *)
Ended(t) ==
    LET s == ShardOf(t)
        x == turns[t].session
    IN [fleet EXCEPT !.turns[t].phase = "confirming",
                     !.shards[s].sess[x] = IF shards[s].backend = "codex" \/ @ = "none" THEN @ ELSE "stopped"]

LEMMA EndedAdvances ==
    ASSUME Ledger(fleet), NEW t \in Turns, fleet.turns[t].phase \in InFlightPhases
    PROVE  Advances(fleet, Ended(t))
<1> DEFINE s == ShardOf(t)
           x == turns[t].session
           y == [turns[t] EXCEPT !.phase = "confirming"]
           z == [shards[s] EXCEPT !.sess[x] = IF shards[s].backend = "codex" \/ @ = "none" THEN @ ELSE "stopped"]
           f == Ended(t)
<1>1. f = [fleet EXCEPT !.turns[t].phase = "confirming",
                        !.shards[s].sess[x] = IF shards[s].backend = "codex" \/ @ = "none" THEN @ ELSE "stopped"]
  BY DEF Ended
<1>3. /\ FleetShape(fleet) /\ Rosters(shards) /\ turns = [u \in Turns |-> turns[u]]
      /\ TurnShape(turns[t])
  BY FleetIsShaped
<1> HIDE DEF f
<1>4. Advances(fleet, f)
  <2>1. TurnShape(y) /\ y.phase = "confirming"
    BY <1>3 DEF TurnShape
  <2>2. s \in Shards => ShardShape(z)
    <3>1. ASSUME s \in Shards PROVE ShardShape(shards[s])
      BY <1>3, <3>1 DEF Rosters
    <3>2. ASSUME ShardShape(shards[s]) PROVE ShardShape(z)
      BY <3>2 DEF ShardShape
    <3> QED BY <3>1, <3>2
  <2>3. /\ f.shards = [shards EXCEPT ![s] = z] /\ f.turns = [fleet.turns EXCEPT ![t] = y]
        /\ f.queue = fleet.queue /\ f.active = fleet.active /\ f.exceeded = fleet.exceeded
        /\ f \in [agents : {f.agents}, shards : {f.shards}, turns : {f.turns}, queue : {f.queue},
                  active : {f.active}, exceeded : {f.exceeded}, recoveries : {f.recoveries}]
    BY <1>1, <1>3 DEF fleet
  <2> HIDE DEF y, z, s, x
  <2>4. FleetShape(f)
    <3>1. Rosters(f.shards)
      <4>1. Rosters([shards EXCEPT ![s] = z])
        BY <1>3, <2>2, RosterChange
      <4> QED BY <2>3, <4>1
    <3> QED BY <2>3, <3>1 DEF FleetShape
  <2>5. "confirming" \in InFlightPhases \ {"starting"}
    BY DEF InFlightPhases
  <2> QED BY <2>1, <2>3, <2>4, <2>5, PhaseAdvances
<1> QED BY <1>4 DEF f

LEMMA TurnCompletesAdvances ==
    ASSUME Ledger(fleet), NEW t \in Turns, TurnCompletes(t)
    PROVE  Advances(fleet, fleet')
<1> DEFINE x == turns[t].session
           f == Ended(t)
           g(c) == OnTurnEvent(f, t, c)
           h(c) == [g(c) EXCEPT !.agents[turns[t].agent].session = x]
<1>1. PICK c \in Calls(0) : Becomes(h(c))
  BY DEF TurnCompletes, Ended
<1>a. IsCall(c)
  BY CallsAre
<1>2. fleet.turns[t].phase \in InFlightPhases
  BY DEF TurnCompletes, InFlightPhases, fleet
<1>4. Advances(fleet, f)
  BY <1>2, EndedAdvances
<1> HIDE DEF f
<1>5. Advances(f, g(c))
  BY <1>4, <1>a, OnTurnEventAdvances DEF Advances
<1>6. Advances(g(c), h(c))
  <2>1. FleetShape(g(c)) /\ Ledger(g(c))
    BY <1>5 DEF Advances, Ledger, Shapes
  <2> DEFINE A == [g(c).agents EXCEPT ![turns[t].agent].session = x]
  <2> HIDE DEF g
  <2>2. h(c) = [g(c) EXCEPT !.agents = A, !.recoveries = g(c).recoveries]
    BY <2>1 DEF FleetShape
  <2> HIDE DEF A, h
  <2> QED BY <2>1, <2>2, OthersAdvance
<1> HIDE DEF g, h
<1>7. Advances(fleet, h(c))
  BY <1>4, <1>5, <1>6, AdvancesOn
<1> QED BY <1>1, <1>7, BecomesAdvances

LEMMA SessionAdvances ==
    ASSUME NEW f, Ledger(f), NEW s, NEW x, NEW v
    PROVE  Advances(f, [f EXCEPT !.shards[s].sess[x] = v])
<1> DEFINE g == [f EXCEPT !.shards[s].sess[x] = v]
           z == [f.shards[s] EXCEPT !.sess[x] = v]
<1>0. FleetShape(f)
  BY DEF Ledger, Shapes
<1>1. /\ g.shards = [f.shards EXCEPT ![s] = z] /\ SameBooks(f, g)
      /\ g \in [agents : {g.agents}, shards : {g.shards}, turns : {g.turns}, queue : {g.queue},
                active : {g.active}, exceeded : {g.exceeded}, recoveries : {g.recoveries}]
  BY <1>0 DEF FleetShape, SameBooks
<1>2. s \in Shards => ShardShape(z)
  <2>1. ASSUME s \in Shards PROVE ShardShape(f.shards[s])
    BY <1>0, <2>1 DEF FleetShape, Rosters
  <2>2. ASSUME ShardShape(f.shards[s]) PROVE ShardShape(z)
    BY <2>2 DEF ShardShape
  <2> QED BY <2>1, <2>2
<1> HIDE DEF g, z
<1>3. Rosters(g.shards)
  BY <1>0, <1>1, <1>2, RosterChange DEF FleetShape
<1>4. Advances(f, g)
  BY <1>1, <1>3, BooksAdvance DEF FleetShape
<1> QED BY <1>4 DEF g

LEMMA TurnFailsAdvances ==
    ASSUME Ledger(fleet), NEW t \in Turns, TurnFails(t)
    PROVE  Advances(fleet, fleet')
<1> DEFINE s == ShardOf(t)
           x == turns[t].session
           f == Failing(fleet, t)
           put(v) == [f EXCEPT !.shards[s].sess[x] = v]
<1>1. fleet.turns[t].phase \in InFlightPhases
  BY DEF TurnFails, InFlightPhases, fleet
<1>2. Advances(fleet, f)
  BY <1>1, FailingAdvances
<1>3. Ledger(f) /\ FleetShape(f)
  BY <1>2 DEF Advances, Ledger, Shapes
<1>4. \/ \E c \in Calls(0) : Becomes(OnTurnEvent(f, t, c))
      \/ \E v : Becomes(put(v)) \/ \E c \in Calls(0) : Becomes(OnTurnEvent(put(v), t, c))
  <2>1. \/ \E c \in Calls(0) : Becomes(OnTurnEvent(f, t, c))
        \/ Becomes([f EXCEPT !.shards[s].sess[x] = IF @ = "none" THEN @ ELSE "open"])
        \/ \E left \in {"none", shards[s].sess[x]}, c \in Calls(0) :
              Becomes(OnTurnEvent([f EXCEPT !.shards[s].sess[x] = left], t, c))
    BY DEF TurnFails
  <2>2. [f EXCEPT !.shards[s].sess[x] = IF @ = "none" THEN @ ELSE "open"]
          = put(IF f.shards[s].sess[x] = "none" THEN f.shards[s].sess[x] ELSE "open")
    OBVIOUS
  <2> QED BY <2>1, <2>2
<1> HIDE DEF f
<1>5. ASSUME NEW v PROVE Advances(f, put(v))
  BY <1>3, SessionAdvances
<1> HIDE DEF put
<1>6. ASSUME NEW v, NEW c \in Calls(0) PROVE Advances(fleet, OnTurnEvent(put(v), t, c))
  <2>1. Advances(fleet, put(v)) /\ Ledger(put(v))
    BY <1>2, <1>5, AdvancesOn DEF Advances
  <2>2. Advances(put(v), OnTurnEvent(put(v), t, c))
    BY <2>1, OnTurnEventAdvances, CallsAre
  <2> QED BY <2>1, <2>2, AdvancesOn
<1>7. ASSUME NEW v PROVE Advances(fleet, put(v))
  BY <1>2, <1>5, AdvancesOn
<1>8. ASSUME NEW c \in Calls(0) PROVE Advances(fleet, OnTurnEvent(f, t, c))
  BY <1>2, <1>3, OnTurnEventAdvances, CallsAre, AdvancesOn
<1> QED BY <1>4, <1>6, <1>7, <1>8, BecomesAdvances

LEMMA TurnEndsAdvances ==
    ASSUME Ledger(fleet), NEW t \in Turns, TurnResolves(t) \/ TurnRejects(t)
    PROVE  Advances(fleet, fleet')
<1> DEFINE s == ShardOf(t)
           x == turns[t].session
           z == [shards[s] EXCEPT !.sess[x] = "stopped"]
           f == [fleet EXCEPT !.shards[s].sess[x] = "stopped"]
<1>1. fleet.turns[t].phase \in InFlightPhases
  BY DEF TurnResolves, TurnRejects, InFlightPhases, fleet
<1>2. \E c \in Calls(0) : \/ Becomes(Finally(fleet, t, "failed", c)) \/ Becomes(Finally(fleet, t, "done", c))
                          \/ Becomes(Finally(f, t, "done", c))
  BY DEF TurnResolves, TurnRejects
<1>3. Advances(fleet, f) /\ f.turns = fleet.turns
  <2>1. f = [fleet EXCEPT !.shards[s] = z] /\ f.turns = fleet.turns
    BY DEF fleet
  <2>2. ShardShape(shards[s]) => ShardShape(z)
    BY DEF ShardShape
  <2> HIDE DEF f, z
  <2> QED BY <2>1, <2>2, OneShardAdvances
<1> HIDE DEF f
<1>4. ASSUME NEW c \in Calls(0) PROVE Advances(fleet, Finally(f, t, "done", c))
  <2>1. Advances(f, Finally(f, t, "done", c))
    BY <1>1, <1>3, FinallyAdvances, CallsAre DEF Advances
  <2> QED BY <1>3, <2>1, AdvancesOn
<1>5. \A p \in {"done", "failed"}, c \in Calls(0) : Advances(fleet, Finally(fleet, t, p, c))
  BY <1>1, FinallyAdvances, CallsAre
<1> QED BY <1>2, <1>4, <1>5, BecomesAdvances

LEMMA BackendCeilingAdvances ==
    ASSUME Ledger(fleet), NEW t \in Turns, BackendCeiling(t)
    PROVE  Advances(fleet, fleet')
<1> DEFINE g == Failing(fleet, t)
           f(c) == OnTurnEvent(g, t, c)
<1>1. fleet.turns[t].phase \in InFlightPhases
  BY DEF BackendCeiling, InFlightPhases, fleet
<1>2. PICK c \in Calls(0) : Becomes(f(c)) \/ Becomes(Trip(f(c)))
  BY DEF BackendCeiling
<1>a. IsCall(c)
  BY CallsAre
<1>3. Advances(fleet, g)
  BY <1>1, FailingAdvances
<1> HIDE DEF g
<1>4. Advances(g, f(c))
  BY <1>3, <1>a, OnTurnEventAdvances DEF Advances
<1> HIDE DEF f
<1>5. Advances(f(c), Trip(f(c)))
  BY <1>4, TripAdvances DEF Advances
<1>6. Advances(fleet, f(c)) /\ Advances(fleet, Trip(f(c)))
  BY <1>3, <1>4, <1>5, AdvancesOn
<1> QED BY <1>2, <1>6, BecomesAdvances
-----------------------------------------------------------------------------
(* Calls of the application, shards and recoveries.                         *)
LEMMA UsageAdvances ==
    ASSUME Ledger(fleet), NEW t \in Turns, NEW cost, Usage(t, cost)
    PROVE  Advances(fleet, fleet')
<1> DEFINE f == [fleet EXCEPT !.agents[turns[t].agent].cost = cost]
           A == [agents EXCEPT ![turns[t].agent].cost = cost]
<1>1. Becomes(f) \/ Becomes(Trip(f))
  BY DEF Usage, Recalculated
<1>2. f = [fleet EXCEPT !.agents = A, !.recoveries = fleet.recoveries]
  BY DEF fleet
<1> HIDE DEF f, A
<1>3. Advances(fleet, f)
  BY <1>2, OthersAdvance
<1>4. Advances(f, Trip(f))
  BY <1>3, TripAdvances DEF Advances
<1>5. Advances(fleet, Trip(f))
  BY <1>3, <1>4, AdvancesOn
<1> QED BY <1>1, <1>3, <1>5, BecomesAdvances

LEMMA RunAdvances ==
    ASSUME Ledger(fleet), NEW t \in Turns, NEW a \in Agents, NEW p, Run(t, a, p)
    PROVE  Advances(fleet, fleet')
<1> DEFINE f == Refused(fleet, t, a, p)
           g == Pushed(fleet, t, a, p)
<1>1. /\ fleet.turns[t].phase = "new"
      /\ Becomes(f) \/ (~fleet.exceeded /\ \E c \in Calls(0) : Becomes(DrainHeard(g, c)))
  BY DEF Run, Refuses, fleet
<1>2. Advances(fleet, f) /\ (~fleet.exceeded => Advances(fleet, g))
  BY <1>1, CallNests DEF Nests
<1> HIDE DEF f, g
<1>3. ASSUME ~fleet.exceeded, NEW c \in Calls(0) PROVE Advances(fleet, DrainHeard(g, c))
  <2>1. Advances(g, DrainHeard(g, c))
    BY <1>2, <1>3, DrainHeardAdvances, CallsAre DEF Advances
  <2> QED BY <1>2, <1>3, <2>1, AdvancesOn
<1> QED BY <1>1, <1>2, <1>3, BecomesAdvances

(* A shard takes another state, and perhaps what waits for it is rejected.  *)
LEMMA ShardAdvances ==
    ASSUME Ledger(fleet), NEW s, NEW z, ShardShape(shards[s]) => ShardShape(z),
           NEW f, f = [fleet EXCEPT !.shards[s] = z], Becomes(f) \/ Becomes(Rejected(f, s))
    PROVE  Advances(fleet, fleet')
<1>1. Advances(fleet, f)
  BY OneShardAdvances
<1>2. Advances(f, Rejected(f, s))
  BY <1>1, RejectedAdvances DEF Advances
<1>3. Advances(fleet, Rejected(f, s))
  BY <1>1, <1>2, AdvancesOn
<1> QED BY <1>1, <1>3, BecomesAdvances

LEMMA ShardStepAdvances ==
    ASSUME Ledger(fleet), NEW s, ShardStartUp(s) \/ StartFails(s) \/ CloseShard(s)
    PROVE  Advances(fleet, fleet')
<1>1. CASE ShardStartUp(s)
  <2> DEFINE z == [shards[s] EXCEPT !.proc = "up"]
  <2>1. shards' = [shards EXCEPT ![s] = z] /\ UNCHANGED <<turns, queue, activeTurns, exceeded>>
    BY <1>1 DEF ShardStartUp
  <2>2. ShardShape(shards[s]) => ShardShape(z)
    BY DEF ShardShape
  <2>3. Rosters(shards)
    BY FleetIsShaped
  <2> HIDE DEF z
  <2>4. Rosters([shards EXCEPT ![s] = z])
    <3>1. s \in Shards => ShardShape(z)
      BY <2>2, <2>3 DEF Rosters
    <3> QED BY <2>3, <3>1, RosterChange
  <2> QED BY <2>1, <2>4, FrameAdvances
<1>2. CASE StartFails(s)
  <2> DEFINE z == [shards[s] EXCEPT !.proc = "idle"]
             f == [fleet EXCEPT !.shards[s].proc = "idle"]
  <2>1. f = [fleet EXCEPT !.shards[s] = z]
    BY DEF fleet
  <2>2. ShardShape(shards[s]) => ShardShape(z)
    BY DEF ShardShape
  <2>3. Becomes(Rejected(f, s))
    BY <1>2 DEF StartFails
  <2> HIDE DEF f, z
  <2> QED BY <2>1, <2>2, <2>3, ShardAdvances
<1>3. CASE CloseShard(s)
  <2> DEFINE z == [shards[s] EXCEPT !.proc = "idle", !.sess = [x \in Sessions |-> "none"]]
             f == [fleet EXCEPT !.shards[s].proc = "idle", !.shards[s].sess = [x \in Sessions |-> "none"]]
  <2>1. f = [fleet EXCEPT !.shards[s] = z]
    BY DEF fleet
  <2>2. ShardShape(shards[s]) => ShardShape(z)
    BY DEF ShardShape
  <2>3. Becomes(Rejected(f, s))
    BY <1>3 DEF CloseShard
  <2> HIDE DEF f, z
  <2> QED BY <2>1, <2>2, <2>3, ShardAdvances
<1> QED BY <1>1, <1>2, <1>3

(* A process dies: what waits for it is rejected, the shard is untracked    *)
(* and its members are moved.                                               *)
Downed(s) == Rejected([fleet EXCEPT !.shards[s].proc = "down", !.shards[s].sess = [x \in Sessions |-> "none"]], s)
Untracked(s) == [Downed(s) EXCEPT !.shards[s].tracked = FALSE, !.shards[s].members = <<>>]
Orphaned(s, c) == LoseMembers(Hears(Untracked(s), "shardLost", 0, c), Downed(s).shards[s].members, c)

LEMMA UntrackedAdvances ==
    ASSUME Ledger(fleet), NEW s \in Shards
    PROVE  Downed(s).shards[s].members \in Seq(Ids) /\ Advances(fleet, Untracked(s))
<1> DEFINE f == [fleet EXCEPT !.shards[s].proc = "down", !.shards[s].sess = [x \in Sessions |-> "none"]]
           z == [shards[s] EXCEPT !.proc = "down", !.sess = [x \in Sessions |-> "none"]]
           g == Rejected(f, s)
           y == [g.shards[s] EXCEPT !.tracked = FALSE, !.members = <<>>]
           h == [g EXCEPT !.shards[s].tracked = FALSE, !.shards[s].members = <<>>]
<1>1. Downed(s) = g /\ Untracked(s) = h
  BY DEF Downed, Untracked
<1>2. Advances(fleet, f)
  <2>1. f = [fleet EXCEPT !.shards[s] = z]
    BY DEF fleet
  <2>2. ShardShape(shards[s]) => ShardShape(z)
    BY DEF ShardShape
  <2> HIDE DEF f, z
  <2> QED BY <2>1, <2>2, OneShardAdvances
<1> HIDE DEF f
<1>3. Advances(fleet, g)
  <2>1. Advances(f, g)
    BY <1>2, RejectedAdvances DEF Advances
  <2> QED BY <1>2, <2>1, AdvancesOn
<1> HIDE DEF g
<1>4. FleetShape(g) /\ ShardShape(g.shards[s]) /\ g.shards[s].members \in Seq(Ids)
  BY <1>3 DEF Advances, Ledger, Shapes, FleetShape, Rosters, ShardShape
<1>5. FleetShape(h) /\ SameBooks(g, h)
  <2>1. /\ h.shards = [g.shards EXCEPT ![s] = y] /\ SameBooks(g, h)
        /\ h \in [agents : {h.agents}, shards : {h.shards}, turns : {h.turns}, queue : {h.queue},
                  active : {h.active}, exceeded : {h.exceeded}, recoveries : {h.recoveries}]
    BY <1>4 DEF FleetShape, SameBooks
  <2>2. ShardShape(y)
    <3>1. <<>> \in Seq(Ids)
      OBVIOUS
    <3> QED BY <1>4, <3>1 DEF ShardShape
  <2> HIDE DEF y, h
  <2>3. Rosters([g.shards EXCEPT ![s] = y])
    <3>1. Rosters(g.shards)
      BY <1>4 DEF FleetShape
    <3> QED BY <2>2, <3>1, RosterChange
  <2> QED BY <2>1, <2>3 DEF FleetShape
<1> HIDE DEF h
<1>6. Advances(g, h)
  BY <1>3, <1>5, BooksAdvance DEF Advances
<1>7. Advances(fleet, h)
  BY <1>3, <1>6, AdvancesOn
<1> QED BY <1>1, <1>4, <1>7

LEMMA OrphanedAdvances ==
    ASSUME Ledger(fleet), NEW s \in Shards, NEW c
    PROVE  Advances(fleet, Orphaned(s, c))
<1> DEFINE f == Untracked(s)
           g == Hears(f, "shardLost", 0, c)
           list == Downed(s).shards[s].members
<1>1. list \in Seq(Ids) /\ Advances(fleet, f)
  BY UntrackedAdvances
<1>2. Orphaned(s, c) = LoseMembers(g, list, c)
  BY DEF Orphaned
<1> HIDE DEF f, list
<1>3. Advances(fleet, g)
  BY <1>1, HearsNests, AdvancesOn DEF Nests, Advances
<1> HIDE DEF g
<1>4. Advances(g, LoseMembers(g, list, c))
  BY <1>1, <1>3, LoseMembersAdvances DEF Advances
<1> QED BY <1>2, <1>3, <1>4, AdvancesOn

LEMMA ShardLostAdvances ==
    ASSUME Ledger(fleet), NEW s \in Shards, ShardLost(s)
    PROVE  Advances(fleet, fleet') /\ \E c \in Calls(1) : Becomes(DrainHeard(Orphaned(s, c), c))
<1>1. PICK c \in Calls(1) : Becomes(DrainHeard(Orphaned(s, c), c))
  BY DEF ShardLost, HandleShardLost, Downed, Untracked, Orphaned
<1>2. Advances(fleet, Orphaned(s, c))
  BY OrphanedAdvances
<1>3. Advances(Orphaned(s, c), DrainHeard(Orphaned(s, c), c))
  BY <1>2, DrainHeardAdvances, CallsAre DEF Advances
<1>4. Advances(fleet, DrainHeard(Orphaned(s, c), c))
  BY <1>2, <1>3, AdvancesOn
<1> QED BY <1>1, <1>4, BecomesAdvances

(* Everything but the books may change.                                     *)
LEMMA AsideAdvances ==
    ASSUME NEW f, NEW g, NEW A, NEW R, NEW table, Ledger(f), Rosters(table),
           g = [f EXCEPT !.agents = A, !.recoveries = R, !.shards = table]
    PROVE  Advances(f, g)
<1>1. FleetShape(f)
  BY DEF Ledger, Shapes
<1>2. /\ g.shards = table /\ SameBooks(f, g)
      /\ g \in [agents : {g.agents}, shards : {g.shards}, turns : {g.turns}, queue : {g.queue},
                active : {g.active}, exceeded : {g.exceeded}, recoveries : {g.recoveries}]
  BY <1>1 DEF FleetShape, SameBooks
<1>3. FleetShape(g)
  BY <1>2 DEF FleetShape
<1> QED BY <1>2, <1>3, BooksAdvance

(* The recovery has its answer, and nothing has been drained.               *)
Recovered(r) ==
    [fleet EXCEPT !.recoveries = @ \ {r},
                  !.shards[r.shard].sess[r.session] = "stopped",
                  !.shards[r.shard].mapped = @ \union {r.session},
                  !.agents[r.agent].session = r.session,
                  !.agents[r.agent].status = IF Registered(fleet, r.agent) THEN "ready" ELSE @]

LEMMA RecoveredAdvances ==
    ASSUME Ledger(fleet), NEW r
    PROVE  Advances(fleet, Recovered(r))
<1> DEFINE z == [shards[r.shard] EXCEPT !.sess[r.session] = "stopped", !.mapped = @ \union {r.session}]
           f == Recovered(r)
<1>0. Rosters(shards)
  BY FleetIsShaped
<1>1. /\ f.shards = [shards EXCEPT ![r.shard] = z] /\ SameBooks(fleet, f)
      /\ f \in [agents : {f.agents}, shards : {f.shards}, turns : {f.turns}, queue : {f.queue},
                active : {f.active}, exceeded : {f.exceeded}, recoveries : {f.recoveries}]
  BY ZenonT(60) DEF fleet, SameBooks, Recovered
<1>2. r.shard \in Shards => ShardShape(z)
  BY <1>0 DEF Rosters, ShardShape
<1> HIDE DEF f, z
<1>3. Rosters([shards EXCEPT ![r.shard] = z])
  BY <1>0, <1>2, RosterChange
<1>4. Advances(fleet, f)
  BY <1>1, <1>3, BooksAdvance DEF FleetShape
<1> QED BY <1>4 DEF f

LEMMA RecoveryStepAdvances ==
    ASSUME Ledger(fleet), NEW r, RecoveryStep(r)
    PROVE  Advances(fleet, fleet')
<1>1. Rosters(shards)
  BY FleetIsShaped
<1>2. CASE RecoveryResumes(r)
  <2> DEFINE x == agents[r.agent].session
             z == [shards[r.shard] EXCEPT !.mapped = @ \union {x}]
             f == [fleet EXCEPT !.recoveries = (@ \ {r}) \union {[r EXCEPT !.phase = "resuming", !.session = x]},
                                !.shards[r.shard].mapped = @ \union {x}]
  <2>1. /\ f.shards = [shards EXCEPT ![r.shard] = z] /\ SameBooks(fleet, f)
        /\ f \in [agents : {f.agents}, shards : {f.shards}, turns : {f.turns}, queue : {f.queue},
                  active : {f.active}, exceeded : {f.exceeded}, recoveries : {f.recoveries}]
    BY DEF fleet, SameBooks
  <2>2. Becomes(f)
    BY <1>2 DEF RecoveryResumes
  <2>3. r.shard \in Shards => ShardShape(z)
    BY <1>1 DEF Rosters, ShardShape
  <2> HIDE DEF f, z, x
  <2>4. Rosters([shards EXCEPT ![r.shard] = z])
    BY <1>1, <2>3, RosterChange
  <2>5. Advances(fleet, f)
    BY <2>1, <2>4, BooksAdvance DEF FleetShape
  <2> QED BY <2>2, <2>5, BecomesAdvances
<1>3. CASE RecoverySucceeds(r)
  <2> DEFINE f == Recovered(r)
  <2>1. PICK c \in Calls(0) : Becomes(DrainHeard(f, c))
    BY <1>3 DEF RecoverySucceeds, Recovered
  <2>2. Advances(fleet, f)
    BY RecoveredAdvances
  <2> HIDE DEF f
  <2>3. Advances(f, DrainHeard(f, c))
    BY <2>2, DrainHeardAdvances, CallsAre DEF Advances
  <2>4. Advances(fleet, DrainHeard(f, c))
    BY <2>2, <2>3, AdvancesOn
  <2> QED BY <2>1, <2>4, BecomesAdvances
<1>4. CASE RecoveryFails(r)
  <2> DEFINE R == recoveries \ {r}
             A == [agents EXCEPT ![r.agent].status = IF Registered(fleet, r.agent) THEN "lost" ELSE @]
             f == [fleet EXCEPT !.recoveries = @ \ {r},
                                !.agents[r.agent].status = IF Registered(fleet, r.agent) THEN "lost" ELSE @]
  <2>1. f = [fleet EXCEPT !.agents = A, !.recoveries = R] /\ Becomes(f)
    BY <1>4 DEF fleet, RecoveryFails
  <2> HIDE DEF f, A, R
  <2> QED BY <2>1, OthersAdvance, BecomesAdvances
<1> QED BY <1>2, <1>3, <1>4 DEF RecoveryStep

LEMMA RemovedFirst ==
    ASSUME NEW S, NEW q \in Seq(S), NEW e
    PROVE  RemoveFirst(q, e) \in Seq(S)
<1> DEFINE I == {i \in 1..Len(q) : q[i] = e}
           m == Min(I)
<1>1. CASE I = {}
  BY <1>1 DEF RemoveFirst
<1>2. CASE I # {}
  <2>1. Len(q) \in Nat /\ I \subseteq 0..Len(q)
    OBVIOUS
  <2>2. \E x \in I : \A y \in I : x <= y
    BY <1>2, <2>1, Least
  <2>3. m \in 1..Len(q)
    BY <2>2 DEF Min
  <2>4. RemoveFirst(q, e) = RemoveAt(q, m)
    BY <1>2 DEF RemoveFirst, SelectInSeq
  <2> HIDE DEF m
  <2> QED BY <2>3, <2>4, RemovedAt
<1> QED BY <1>1, <1>2

(* The agent is out of the tables.                                          *)
Forgotten(f, a, s) ==
    LET g == IF s = 0 THEN f
             ELSE [f EXCEPT !.shards[s].members = RemoveFirst(@, a),
                            !.shards[s].mapped = @ \ {f.agents[a].session}]
    IN [g EXCEPT !.agents[a].known = "gone", !.agents[a].status = "retired"]

LEMMA ForgottenAdvances ==
    ASSUME NEW f, NEW a, NEW s, Ledger(f)
    PROVE  Advances(f, Forgotten(f, a, s))
<1> DEFINE z == [f.shards[s] EXCEPT !.members = RemoveFirst(@, a), !.mapped = @ \ {f.agents[a].session}]
           g == IF s = 0 THEN f
                ELSE [f EXCEPT !.shards[s].members = RemoveFirst(@, a),
                               !.shards[s].mapped = @ \ {f.agents[a].session}]
           h == [g EXCEPT !.agents[a].known = "gone", !.agents[a].status = "retired"]
           A == [g.agents EXCEPT ![a].known = "gone", ![a].status = "retired"]
<1>1. Forgotten(f, a, s) = h
  BY DEF Forgotten
<1>2. FleetShape(f)
  BY DEF Ledger, Shapes
<1>3. Advances(f, g)
  <2>1. CASE s = 0
    BY <2>1 DEF Advances
  <2>2. CASE s # 0
    <3>1. g = [f EXCEPT !.agents = f.agents, !.recoveries = f.recoveries, !.shards = [f.shards EXCEPT ![s] = z]]
      BY <1>2, <2>2 DEF FleetShape
    <3>2. s \in Shards => ShardShape(z)
      <4>1. ASSUME s \in Shards PROVE ShardShape(f.shards[s])
        BY <1>2, <4>1 DEF FleetShape, Rosters
      <4>2. ASSUME ShardShape(f.shards[s]) PROVE ShardShape(z)
        <5> DEFINE m == RemoveFirst(f.shards[s].members, a)
        <5>1. m \in Seq(Ids)
          BY <4>2, RemovedFirst DEF ShardShape
        <5>2. z = [f.shards[s] EXCEPT !.members = m, !.mapped = @ \ {f.agents[a].session}]
          OBVIOUS
        <5> HIDE DEF m, z
        <5> QED BY <4>2, <5>1, <5>2 DEF ShardShape
      <4> QED BY <4>1, <4>2
    <3> HIDE DEF g, z
    <3>3. Rosters([f.shards EXCEPT ![s] = z])
      <4>1. Rosters(f.shards)
        BY <1>2 DEF FleetShape
      <4> QED BY <3>2, <4>1, RosterChange
    <3> QED BY <3>1, <3>3, AsideAdvances
  <2> QED BY <2>1, <2>2
<1> HIDE DEF g
<1>4. Advances(g, h)
  <2>1. FleetShape(g) /\ Ledger(g)
    BY <1>3 DEF Advances, Ledger, Shapes
  <2>2. h = [g EXCEPT !.agents = A, !.recoveries = g.recoveries]
    BY <2>1 DEF FleetShape
  <2> HIDE DEF h, A
  <2> QED BY <2>1, <2>2, OthersAdvance
<1> HIDE DEF h
<1> QED BY <1>1, <1>3, <1>4, AdvancesOn

LEMMA ForgetAdvances ==
    ASSUME NEW f, NEW a, NEW s, Ledger(f), NEW c, IsCall(c)
    PROVE  Advances(f, Forget(f, a, s, c))
<1>1. Forget(f, a, s, c) = DrainHeard(Forgotten(f, a, s), c)
  BY DEF Forget, Forgotten
<1>2. Advances(f, Forgotten(f, a, s))
  BY ForgottenAdvances
<1> QED BY <1>1, <1>2, DrainHeardAdvances, AdvancesOn DEF Advances

LEMMA AgentStepAdvances ==
    ASSUME Ledger(fleet), NEW a,
           RequestAgent(a) \/ RetireBegins(a) \/ RetireStep(a) \/ Quiesce(a)
    PROVE  Advances(fleet, fleet')
<1>1. Rosters(shards)
  BY FleetIsShaped
<1>2. CASE RequestAgent(a) \/ RetireFails(a)
  BY <1>1, <1>2, FrameAdvances DEF RequestAgent, RetireFails, fleetVars
<1>3. CASE RetireBegins(a)
  <2>1. (\E s, c : IsCall(c) /\ Becomes(Forget(fleet, a, s, c))) \/ UNCHANGED fleetVars
    BY <1>3, CallsAre DEF RetireBegins
  <2>2. CASE UNCHANGED fleetVars
    BY <1>1, <2>2, FrameAdvances DEF fleetVars
  <2> QED BY <2>1, <2>2, ForgetAdvances, BecomesAdvances
<1>4. CASE RetireQuiesced(a)
  <2> DEFINE s == retiring[a].shard
  <2>1. /\ UNCHANGED <<turns, queue, activeTurns, exceeded>>
        /\ \E v : shards' = [shards EXCEPT ![s].sess = v]
    BY <1>4 DEF RetireQuiesced
  <2>2. PICK v : shards' = [shards EXCEPT ![s].sess = v]
    BY <2>1
  <2> DEFINE z == [shards[s] EXCEPT !.sess = v]
  <2>3. s \in Shards => ShardShape(z)
    BY <1>1 DEF Rosters, ShardShape
  <2>4. shards' = [shards EXCEPT ![s] = z]
    BY <2>2
  <2> HIDE DEF z, s
  <2>5. Rosters(shards')
    BY <1>1, <2>3, <2>4, RosterChange
  <2> QED BY <2>1, <2>5, FrameAdvances
<1>5. CASE Released(a)
  <2> DEFINE s == retiring[a].shard
             y == retiring[a].session
             f == [fleet EXCEPT !.shards[s].sess[y] = IF shards[s].backend = "codex" THEN @ ELSE "none"]
             z == [shards[s] EXCEPT !.sess[y] = IF shards[s].backend = "codex" THEN @ ELSE "none"]
  <2>1. PICK c \in Calls(1) : Becomes(Forget(f, a, s, c))
    BY <1>5 DEF Released
  <2>2. f = [fleet EXCEPT !.shards[s] = z]
    BY DEF fleet
  <2>3. ShardShape(shards[s]) => ShardShape(z)
    BY DEF ShardShape
  <2> HIDE DEF f, z, s
  <2>4. Advances(fleet, f)
    BY <2>2, <2>3, OneShardAdvances
  <2>5. Advances(f, Forget(f, a, s, c))
    BY <2>4, ForgetAdvances, CallsAre DEF Advances
  <2>6. Advances(fleet, Forget(f, a, s, c))
    BY <2>4, <2>5, AdvancesOn
  <2> QED BY <2>1, <2>6, BecomesAdvances
<1>6. CASE Quiesce(a)
  <2> DEFINE s == agents[a].shard
             z == [shards[s] EXCEPT !.sess[agents[a].session] = "stopped"]
  <2>1. shards' = [shards EXCEPT ![s] = z] /\ UNCHANGED <<turns, queue, activeTurns, exceeded>>
    BY <1>6 DEF Quiesce
  <2>2. s \in Shards => ShardShape(z)
    BY <1>1 DEF Rosters, ShardShape
  <2> HIDE DEF z, s
  <2>3. Rosters([shards EXCEPT ![s] = z])
    BY <1>1, <2>2, RosterChange
  <2> QED BY <2>1, <2>3, FrameAdvances
<1> QED BY <1>2, <1>3, <1>4, <1>5, <1>6 DEF RetireStep

LEMMA CloseAdvances ==
    ASSUME Ledger(fleet), CloseBegins \/ CloseEnds
    PROVE  Advances(fleet, fleet')
<1>1. FleetShape(fleet) /\ Rosters(shards)
  BY FleetIsShaped
<1>2. CASE CloseBegins
  <2> DEFINE f == [fleet EXCEPT !.queue = <<>>,
                     !.turns = [t \in Turns |-> IF turns[t].phase = "queued"
                                                THEN [NewTurn(turns[t].agent) EXCEPT !.phase = "refused"]
                                                ELSE turns[t]]]
  <2>1. Becomes(f)
    BY <1>2 DEF CloseBegins
  <2>2. /\ FleetShape(f) /\ f.queue = <<>> /\ f.active = fleet.active /\ f.exceeded = fleet.exceeded
        /\ f.turns = [t \in Turns |-> IF fleet.turns[t].phase = "queued"
                                      THEN [NewTurn(fleet.turns[t].agent) EXCEPT !.phase = "refused"]
                                      ELSE fleet.turns[t]]
    BY <1>1 DEF fleet, FleetShape
  <2> HIDE DEF f
  <2>3. Advances(fleet, f)
    BY <2>2, EmptyingAdvances
  <2> QED BY <2>1, <2>3, BecomesAdvances
<1>3. CASE CloseEnds
  <2>1. /\ shards' = [s \in Shards |-> [shards[s] EXCEPT !.tracked = FALSE]]
        /\ UNCHANGED <<turns, queue, activeTurns, exceeded>>
    BY <1>3 DEF CloseEnds
  <2>2. \A s \in Shards : ShardShape([shards[s] EXCEPT !.tracked = FALSE])
    BY <1>1 DEF Rosters, ShardShape
  <2>3. Rosters(shards')
    BY <2>1, <2>2 DEF Rosters
  <2> QED BY <2>1, <2>3, FrameAdvances
<1> QED BY <1>2, <1>3

LEMMA FleetAdvances == Ledger(fleet) /\ [Next]_vars => Advances(fleet, fleet')
<1> SUFFICES ASSUME Ledger(fleet), [Next]_vars PROVE Advances(fleet, fleet')
  OBVIOUS
<1>1. ASSUME NEW t \in Turns, TurnStep(t) PROVE Advances(fleet, fleet')
  BY <1>1, TurnStartAdvances, TurnReusesAdvances, TurnOpensFreshAdvances, TurnCompletesAdvances,
     TurnFailsAdvances, TurnEndsAdvances, BackendCeilingAdvances DEF TurnStep
<1>2. ASSUME NEW s \in Shards, ShardStep(s) \/ ShardLost(s) \/ CloseShard(s) PROVE Advances(fleet, fleet')
  BY <1>2, ShardStepAdvances, ShardLostAdvances DEF ShardStep
<1>3. ASSUME NEW r \in recoveries, RecoveryStep(r) PROVE Advances(fleet, fleet')
  BY <1>3, RecoveryStepAdvances
<1>4. ASSUME NEW a \in Agents, RequestAgent(a) \/ RetireBegins(a) \/ RetireStep(a) \/ Quiesce(a)
      PROVE  Advances(fleet, fleet')
  BY <1>4, AgentStepAdvances
<1>5. ASSUME NEW t \in Turns, NEW a \in Agents, NEW p, Run(t, a, p) PROVE Advances(fleet, fleet')
  BY <1>5, RunAdvances
<1>6. ASSUME NEW t \in Turns, NEW cost, Usage(t, cost) PROVE Advances(fleet, fleet')
  BY <1>6, UsageAdvances
<1>7. CASE CloseBegins \/ CloseEnds
  BY <1>7, CloseAdvances
<1>8. CASE UNCHANGED vars
  <2>1. Rosters(shards)
    BY FleetIsShaped
  <2> QED BY <1>8, <2>1, FrameAdvances DEF vars, fleetVars
<1> QED BY <1>1, <1>2, <1>3, <1>4, <1>5, <1>6, <1>7, <1>8 DEF Next, Answer
-----------------------------------------------------------------------------
Books == Ledger(fleet)

LEMMA BooksAreKept == Spec => []Books
<1>1. Init => Books
  BY InitialLedger DEF Books
<1>2. Books /\ [Next]_vars => Books'
  <2> SUFFICES ASSUME Books, [Next]_vars PROVE Books'
    OBVIOUS
  <2>1. Ledger(fleet')
    BY FleetAdvances DEF Books, Advances
  <2> QED BY <2>1 DEF Books
<1> QED BY <1>1, <1>2, PTL DEF Spec

(* Nothing is queued any more.                                              *)
Shut == exceeded => queue = <<>>

LEMMA ShutStays == Books /\ Shut /\ [Next]_vars => Shut'
<1> SUFFICES ASSUME Books, Shut, [Next]_vars PROVE Shut'
  OBVIOUS
<1>1. Advances(fleet, fleet')
  BY FleetAdvances DEF Books
<1> QED BY <1>1 DEF Advances, Shut, fleet

LEMMA AlwaysShut == Spec => []Shut
<1>1. Init => Shut
  BY DEF Init, Shut
<1> QED BY <1>1, ShutStays, BooksAreKept, PTL DEF Spec

LEMMA BooksGiveAccounting == Books => Accounting
<1> SUFFICES ASSUME Books PROVE Accounting
  OBVIOUS
<1>1. activeTurns = Cardinality(InFlight) /\ activeTurns <= Limit
  BY DEF Books, Ledger, Counted, InFlightOf, InFlight, fleet
<1>2. /\ queue \in Seq(Turns)
      /\ \A i, j \in 1..Len(queue) : queue[i] = queue[j] => i = j
      /\ \A i \in 1..Len(queue) : turns[queue[i]].phase = "queued"
      /\ \A t \in Turns : turns[t].phase = "queued" => \E i \in 1..Len(queue) : queue[i] = t
  BY DEF Books, Ledger, QueueIsExact, fleet
<1>3. ASSUME NEW t \in Turns
      PROVE  Cardinality({i \in 1..Len(queue) : queue[i] = t}) = IF turns[t].phase = "queued" THEN 1 ELSE 0
  <2>1. CASE turns[t].phase = "queued"
    <3>1. PICK i \in 1..Len(queue) : queue[i] = t
      BY <1>2, <2>1
    <3>2. {j \in 1..Len(queue) : queue[j] = t} = {i}
      BY <1>2, <3>1
    <3> QED BY <2>1, <3>2, FS_Singleton
  <2>2. CASE turns[t].phase # "queued"
    <3>1. {j \in 1..Len(queue) : queue[j] = t} = {}
      BY <1>2, <2>2
    <3> QED BY <2>2, <3>1, FS_EmptySet
  <2> QED BY <2>1, <2>2
<1> QED BY <1>1, <1>3 DEF Accounting, Limit

(* However turns end and whatever the listeners of the fleet call in the    *)
(* middle of a drain, activeTurns is the number of turns in flight, stranded *)
(* ones included; it is within maxConcurrentTurns, by one beyond it where   *)
(* listeners call run(); and a run() that waits is in the queue, once       *)
(* (fleet.mjs:426-481).                                                     *)
THEOREM AccountingCorrect == Spec => []Accounting
BY BooksAreKept, BooksGiveAccounting, PTL

(* Once the spend ceiling was reached it stays reached, and no handler,     *)
(* however it nests its drains, starts another turn (fleet.mjs:320-347 and  *)
(* 426-445).                                                                *)
THEOREM AdmissionCorrect == Spec => AdmissionStops
<1>1. Books /\ [Next]_vars =>
        [exceeded => exceeded' /\ \A t \in Turns : turns[t].phase # "starting" => turns'[t].phase # "starting"]_vars
  <2> SUFFICES ASSUME Books, [Next]_vars
               PROVE  exceeded => exceeded' /\ \A t \in Turns : turns[t].phase # "starting" => turns'[t].phase # "starting"
    OBVIOUS
  <2>1. Advances(fleet, fleet')
    BY FleetAdvances DEF Books
  <2> QED BY <2>1 DEF Advances, fleet
<1> QED BY <1>1, BooksAreKept, PTL DEF Spec, AdmissionStops
-----------------------------------------------------------------------------
(* What the agents have spent: a sum over a finite set, whose loop takes one *)
(* agent after the other.                                                    *)
LEMMA SmallestSet ==
    ASSUME NEW A, IsFiniteSet(A), NEW T, T \subseteq SUBSET A, T # {}
    PROVE  \E s \in T : \A t \in T : t \subseteq s => t = s
<1> DEFINE R == StrictSubsetOrdering(A)
<1>1. IsWellFoundedOn(R, SUBSET A)
  <2>1. FiniteSubsetsOf(A) = SUBSET A
    BY FS_FiniteSubsetsOfFinite
  <2> QED BY <2>1, FS_StrictSubsetOrderingWellFounded
<1>2. PICK s \in T : \A t \in T : <<t, s>> \notin R
  <2> HIDE DEF R
  <2> QED BY <1>1, WFMin
<1>3. ASSUME NEW t \in T, t \subseteq s PROVE t = s
  <2>1. <<t, s>> \in (SUBSET A) \X (SUBSET A) /\ <<t, s>> \notin R
    BY <1>2
  <2> QED BY <1>3, <2>1 DEF StrictSubsetOrdering
<1> QED BY <1>3

One(s) == CHOOSE x \in s : TRUE
Cost(f, a) == f.agents[a].cost
Adds(f, g, s) == IF s = {} THEN 0 ELSE Cost(f, One(s)) + g[s \ {One(s)}]
Sums(f, S, g) == g = [s \in SUBSET S |-> Adds(f, g, s)]
Total(f, S) == (CHOOSE g : Sums(f, S, g))[S]

LEMMA SpentIsTotal == ASSUME NEW f PROVE Spent(f) = Total(f, AgentsOf(f))
BY DEF Spent, MapThenSumSet, MapThenFoldSet, Total, Sums, Adds, One, Cost

LEMMA OneOf == ASSUME NEW s, s # {} PROVE One(s) \in s
BY DEF One

LEMMA SumsExist ==
    ASSUME NEW f, NEW S, IsFiniteSet(S)
    PROVE  \E g : Sums(f, S, g)
<1> DEFINE Small(n) == {s \in SUBSET S : Cardinality(s) <= n}
           SumsTo(n, g) == g = [s \in Small(n) |-> Adds(f, g, s)]
           N == Cardinality(S)
           T == {n \in 0..N : ~\E g : SumsTo(n, g)}
<1>1. N \in Nat /\ \A s \in SUBSET S : IsFiniteSet(s) /\ Cardinality(s) \in Nat /\ Cardinality(s) <= N
  BY FS_Subset, FS_CardinalityType
<1> HIDE DEF N
<1>2. ASSUME T # {} PROVE FALSE
  <2>1. PICK n \in T : \A m \in T : n <= m
    <3> HIDE DEF T
    <3>1. T \subseteq 0..N
      BY DEF T
    <3> QED BY <1>1, <1>2, <3>1, Least
  <2>2. n \in Nat /\ n <= N /\ ~\E g : SumsTo(n, g)
    <3>1. n \in 0..N /\ ~\E g : SumsTo(n, g)
      <4> HIDE DEF SumsTo
      <4> QED BY <2>1
    <3> HIDE DEF SumsTo
    <3> QED BY <1>1, <3>1
  <2>3. CASE n = 0
    <3> DEFINE g == [s \in Small(0) |-> 0]
    <3>1. \A s \in Small(0) : s = {}
      BY <1>1, FS_EmptySet
    <3>2. \A s \in Small(0) : Adds(f, g, s) = 0
      BY <3>1 DEF Adds
    <3>3. SumsTo(0, g)
      BY <3>2
    <3> QED BY <2>2, <2>3, <3>3
  <2>4. CASE n # 0
    <3>1. n - 1 \in 0..N /\ ~(n <= n - 1) /\ n - 1 \in Nat
      <4> HIDE DEF SumsTo, T
      <4> QED BY <1>1, <2>2, <2>4
    <3>2. PICK h : SumsTo(n - 1, h)
      <4>1. n - 1 \notin T
        <5> HIDE DEF T
        <5> QED BY <2>1, <3>1
      <4> HIDE DEF SumsTo
      <4> QED BY <3>1, <4>1
    <3> DEFINE g == [s \in Small(n) |-> Adds(f, h, s)]
    <3>3. ASSUME NEW s \in Small(n), s # {} PROVE s \ {One(s)} \in Small(n - 1)
      <4>1. One(s) \in s /\ IsFiniteSet(s) /\ Cardinality(s) \in Nat /\ Cardinality(s) <= n
        BY <1>1, <3>3, OneOf
      <4>2. Cardinality(s \ {One(s)}) = Cardinality(s) - 1
        BY <4>1, FS_RemoveElement
      <4>3. Cardinality(s \ {One(s)}) <= n - 1
        BY <2>2, <4>1, <4>2
      <4> QED BY <4>3
    <3>4. ASSUME NEW s \in Small(n - 1) PROVE s \in Small(n)
      <4>1. Cardinality(s) \in Nat /\ Cardinality(s) <= n - 1
        BY <1>1
      <4> QED BY <2>2, <4>1
    <3>5. \A s \in Small(n - 1) : g[s] = h[s]
      <4>1. \A s \in Small(n - 1) : h[s] = Adds(f, h, s)
        BY <3>2
      <4> QED BY <3>4, <4>1
    <3>6. ASSUME NEW s \in Small(n) PROVE Adds(f, h, s) = Adds(f, g, s)
      <4> HIDE DEF g, Small
      <4> QED BY <3>3, <3>5 DEF Adds
    <3>7. SumsTo(n, g)
      BY <3>6
    <3> QED BY <2>2, <3>7
  <2> QED BY <2>3, <2>4
<1>3. PICK g : SumsTo(N, g)
  <2>1. N \in 0..N
    BY <1>1
  <2> QED BY <1>2, <2>1
<1>4. Small(N) = SUBSET S
  BY <1>1
<1> HIDE DEF Small
<1> QED BY <1>3, <1>4 DEF Sums

(* Two loops agree where the costs do.                                       *)
LEMMA SumsAgree ==
    ASSUME NEW f, NEW h, NEW S, IsFiniteSet(S), NEW R, R \subseteq S, NEW g, NEW k,
           Sums(f, S, g), Sums(h, R, k), \A a \in R : Cost(f, a) = Cost(h, a)
    PROVE  \A s \in SUBSET R : g[s] = k[s]
<1> DEFINE T == {s \in SUBSET R : g[s] # k[s]}
<1>1. ASSUME T # {} PROVE FALSE
  <2>1. PICK s \in T : \A t \in T : t \subseteq s => t = s
    <3>1. T \subseteq SUBSET S
      OBVIOUS
    <3> HIDE DEF T
    <3> QED BY <1>1, <3>1, SmallestSet
  <2>2. s \in SUBSET R /\ s \in SUBSET S /\ g[s] # k[s]
    BY <2>1
  <2>3. g[s] = Adds(f, g, s) /\ k[s] = Adds(h, k, s)
    BY <2>2 DEF Sums
  <2>4. CASE s = {}
    BY <2>2, <2>3, <2>4 DEF Adds
  <2>5. CASE s # {}
    <3> DEFINE x == One(s)
    <3>1. x \in s /\ x \in R
      BY <2>2, <2>5, OneOf
    <3>2. s \ {x} \in SUBSET R /\ s \ {x} \subseteq s /\ s \ {x} # s
      BY <2>2, <3>1
    <3>3. g[s \ {x}] = k[s \ {x}]
      BY <2>1, <3>2
    <3> QED BY <2>2, <2>3, <2>5, <3>1, <3>3 DEF Adds
  <2> QED BY <2>4, <2>5
<1> QED BY <1>1

LEMMA SameTotal ==
    ASSUME NEW f, NEW h, NEW S, IsFiniteSet(S), \A a \in S : Cost(f, a) = Cost(h, a)
    PROVE  Total(f, S) = Total(h, S)
<1>1. Sums(f, S, CHOOSE g : Sums(f, S, g)) /\ Sums(h, S, CHOOSE g : Sums(h, S, g))
  BY SumsExist
<1>2. S \in SUBSET S
  OBVIOUS
<1> QED BY <1>1, <1>2, SumsAgree DEF Total

LEMMA TotalUnfolds ==
    ASSUME NEW f, NEW S, IsFiniteSet(S)
    PROVE  /\ S = {} => Total(f, S) = 0
           /\ S # {} => One(S) \in S /\ Total(f, S) = Cost(f, One(S)) + Total(f, S \ {One(S)})
<1> DEFINE g == CHOOSE g : Sums(f, S, g)
           R == S \ {One(S)}
           k == CHOOSE k : Sums(f, R, k)
<1>1. Sums(f, S, g) /\ Total(f, S) = g[S]
  BY SumsExist DEF Total
<1>2. g[S] = Adds(f, g, S)
  <2> HIDE DEF g
  <2> QED BY <1>1 DEF Sums
<1>3. CASE S = {}
  BY <1>1, <1>2, <1>3 DEF Adds
<1>4. CASE S # {}
  <2>1. One(S) \in S /\ IsFiniteSet(R) /\ R \subseteq S
    BY <1>4, OneOf, FS_RemoveElement
  <2>2. Sums(f, R, k) /\ Total(f, R) = k[R]
    BY <2>1, SumsExist DEF Total
  <2>3. g[R] = k[R]
    <3>1. R \in SUBSET R
      OBVIOUS
    <3> HIDE DEF g, k, R
    <3> QED BY <1>1, <2>1, <2>2, <3>1, SumsAgree
  <2> HIDE DEF g, k
  <2> QED BY <1>1, <1>2, <1>4, <2>1, <2>2, <2>3 DEF Adds
<1> QED BY <1>3, <1>4

LEMMA TotalIsNat ==
    ASSUME NEW f, NEW S, IsFiniteSet(S), \A a \in S : Cost(f, a) \in Nat
    PROVE  Total(f, S) \in Nat
<1> DEFINE T == {s \in SUBSET S : Total(f, s) \notin Nat}
<1>1. ASSUME T # {} PROVE FALSE
  <2>1. PICK s \in T : \A t \in T : t \subseteq s => t = s
    <3>1. T \subseteq SUBSET S
      OBVIOUS
    <3> HIDE DEF T
    <3> QED BY <1>1, <3>1, SmallestSet
  <2>2. s \in SUBSET S /\ IsFiniteSet(s) /\ Total(f, s) \notin Nat
    BY <2>1, FS_Subset
  <2>3. s # {} /\ One(s) \in s /\ Total(f, s) = Cost(f, One(s)) + Total(f, s \ {One(s)})
    BY <2>2, TotalUnfolds
  <2>4. Total(f, s \ {One(s)}) \in Nat
    BY <2>1, <2>2, <2>3
  <2> QED BY <2>2, <2>3, <2>4
<1> QED BY <1>1

(* One agent's share of the sum, whichever the loop takes first.             *)
LEMMA TotalOfOne ==
    ASSUME NEW f, NEW S, IsFiniteSet(S), \A b \in S : Cost(f, b) \in Nat, NEW a \in S
    PROVE  Total(f, S) = Cost(f, a) + Total(f, S \ {a})
<1> DEFINE Off(s, b) == Total(f, s) # Cost(f, b) + Total(f, s \ {b})
           T == {s \in SUBSET S : \E b \in s : Off(s, b)}
<1>1. ASSUME T # {} PROVE FALSE
  <2>1. PICK s \in T : \A t \in T : t \subseteq s => t = s
    <3>1. T \subseteq SUBSET S
      OBVIOUS
    <3> HIDE DEF T
    <3> QED BY <1>1, <3>1, SmallestSet
  <2>2. s \in SUBSET S /\ \E b \in s : Off(s, b)
    BY <2>1
  <2>3. PICK b \in s : Off(s, b)
    BY <2>2
  <2>4. IsFiniteSet(s) /\ s # {}
    BY <2>2, <2>3, FS_Subset
  <2> DEFINE x == One(s)
             r == s \ {b}
             q == s \ {x}
             p == r \ {x}
  <2>5. x \in s /\ Total(f, s) = Cost(f, x) + Total(f, q)
    BY <2>4, TotalUnfolds
  <2> HIDE DEF x
  <2>6. x # b
    BY <2>3, <2>5
  <2>7. /\ r \in SUBSET S /\ q \in SUBSET S /\ p \in SUBSET S /\ p = q \ {b}
        /\ x \in r /\ b \in q /\ r \subseteq s /\ r # s /\ q \subseteq s /\ q # s
    BY <2>2, <2>3, <2>5, <2>6
  <2>8. r \notin T /\ q \notin T
    BY <2>1, <2>7
  <2>9. Total(f, r) = Cost(f, x) + Total(f, p) /\ Total(f, q) = Cost(f, b) + Total(f, p)
    BY <2>7, <2>8
  <2>10. Cost(f, x) \in Nat /\ Cost(f, b) \in Nat /\ Total(f, p) \in Nat
    <3>1. IsFiniteSet(p) /\ \A c \in p : Cost(f, c) \in Nat
      BY <2>4, <2>7, FS_Subset
    <3>2. Total(f, p) \in Nat
      BY <3>1, TotalIsNat
    <3> QED BY <2>2, <2>3, <2>5, <3>2
  <2>11. Total(f, s) # Cost(f, b) + Total(f, r)
    BY <2>3
  <2> HIDE DEF r, q, p
  <2> QED BY <2>5, <2>9, <2>10, <2>11
<1> QED BY <1>1
(* No more than the sum over a larger set.                                   *)
LEMMA TotalGrows ==
    ASSUME NEW f, NEW R, IsFiniteSet(R), \A b \in R : Cost(f, b) \in Nat, NEW S, S \subseteq R
    PROVE  Total(f, S) \in Nat /\ Total(f, R) \in Nat /\ Total(f, S) <= Total(f, R)
<1> DEFINE T == {s \in SUBSET R : S \subseteq s /\ ~(Total(f, S) <= Total(f, s))}
<1>1. ASSUME NEW s \in SUBSET R PROVE IsFiniteSet(s) /\ Total(f, s) \in Nat
  <2>1. IsFiniteSet(s) /\ \A b \in s : Cost(f, b) \in Nat
    BY FS_Subset
  <2> QED BY <2>1, TotalIsNat
<1>2. ASSUME T # {} PROVE FALSE
  <2>1. PICK s \in T : \A t \in T : t \subseteq s => t = s
    <3>1. T \subseteq SUBSET R
      OBVIOUS
    <3> HIDE DEF T
    <3> QED BY <1>2, <3>1, SmallestSet
  <2>2. s \in SUBSET R /\ S \subseteq s /\ ~(Total(f, S) <= Total(f, s))
    BY <2>1
  <2>3. Total(f, S) \in Nat /\ Total(f, s) \in Nat /\ IsFiniteSet(s)
    BY <1>1, <2>2
  <2>4. s # S
    BY <2>2, <2>3
  <2>5. PICK a \in s : a \notin S
    BY <2>2, <2>4
  <2> DEFINE r == s \ {a}
  <2>6. r \in SUBSET R /\ S \subseteq r /\ r \subseteq s /\ r # s /\ a \in R
    BY <2>2, <2>5
  <2>7. Total(f, s) = Cost(f, a) + Total(f, r)
    <3>1. \A b \in s : Cost(f, b) \in Nat
      BY <2>2
    <3> QED BY <2>3, <2>5, <3>1, TotalOfOne
  <2>8. Total(f, S) <= Total(f, r)
    BY <2>1, <2>6
  <2>9. Cost(f, a) \in Nat /\ Total(f, r) \in Nat
    BY <1>1, <2>6
  <2> HIDE DEF r
  <2> QED BY <2>2, <2>3, <2>7, <2>8, <2>9
<1>3. Total(f, S) \in Nat /\ Total(f, R) \in Nat
  BY <1>1
<1> QED BY <1>2, <1>3
-----------------------------------------------------------------------------
(* The pieces of the handlers once more: none of them touches what an agent *)
(* has spent, and an agent leaves the sum only for good.                    *)
AgentShape(r) ==
    r \in [known : {r.known}, status : {r.status}, shard : {r.shard}, session : {r.session}, cost : Nat]
Whole(f) ==
    f \in [agents : {f.agents}, shards : {f.shards}, turns : {f.turns}, queue : {f.queue},
           active : {f.active}, exceeded : {f.exceeded}, recoveries : {f.recoveries}]
Sheet(f) == Whole(f) /\ f.agents = [a \in Agents |-> f.agents[a]] /\ \A a \in Agents : AgentShape(f.agents[a])
SameBill(y, z) == z.cost = y.cost /\ z.known \in {y.known, "gone"}
Bills(f, g) == Sheet(f) => Sheet(g) /\ \A a \in Agents : SameBill(f.agents[a], g.agents[a])

LEMMA BillsSame == ASSUME NEW f PROVE Bills(f, f)
BY DEF Bills, SameBill

LEMMA BillsOn ==
    ASSUME NEW f, NEW g, NEW h, Bills(f, g), Bills(g, h)
    PROVE  Bills(f, h)
BY DEF Bills, SameBill

LEMMA BillsAside ==
    ASSUME NEW f, NEW g, Whole(f) => Whole(g) /\ g.agents = f.agents
    PROVE  Bills(f, g)
BY DEF Bills, Sheet, SameBill

(* One agent's record changes.                                              *)
LEMMA BillsOne ==
    ASSUME NEW f, NEW g, NEW a, NEW z,
           Whole(f) => Whole(g) /\ g.agents = [f.agents EXCEPT ![a] = z],
           a \in Agents /\ AgentShape(f.agents[a]) => AgentShape(z) /\ SameBill(f.agents[a], z)
    PROVE  Bills(f, g)
<1> SUFFICES ASSUME Sheet(f) PROVE Sheet(g) /\ \A b \in Agents : SameBill(f.agents[b], g.agents[b])
  BY DEF Bills
<1>1. /\ Whole(g) /\ g.agents = [f.agents EXCEPT ![a] = z]
      /\ f.agents = [b \in Agents |-> f.agents[b]] /\ \A b \in Agents : AgentShape(f.agents[b])
  BY DEF Sheet
<1>2. g.agents = [b \in Agents |-> g.agents[b]] /\ \A b \in Agents : g.agents[b] = IF b = a THEN z ELSE f.agents[b]
  BY <1>1
<1>3. ASSUME NEW b \in Agents PROVE AgentShape(g.agents[b]) /\ SameBill(f.agents[b], g.agents[b])
  <2>1. CASE b = a
    BY <1>1, <1>2, <2>1
  <2>2. CASE b # a
    BY <1>1, <1>2, <2>2 DEF SameBill
  <2> QED BY <2>1, <2>2
<1> QED BY <1>1, <1>2, <1>3 DEF Sheet

LEMMA AcquireBills == ASSUME NEW f, NEW a PROVE Bills(f, Acquire(f, a))
<1>1. CASE f.agents[a].shard # 0
  BY <1>1, BillsSame DEF Acquire
<1>2. CASE f.agents[a].shard = 0
  <2> DEFINE room == WithRoom(f, BackendOf(a))
             s == IF room # {} THEN Min(room) ELSE Min(Uncreated(f))
             g == Acquire(f, a)
             z == [f.agents[a] EXCEPT !.shard = s]
  <2>1. g = [f EXCEPT !.agents[a].shard = s, !.shards[s].backend = BackendOf(a), !.shards[s].tracked = TRUE,
                      !.shards[s].members = Append(@, a)]
    BY <1>2 DEF Acquire
  <2> HIDE DEF s, g, room
  <2>2. Whole(f) => Whole(g) /\ g.agents = [f.agents EXCEPT ![a] = z]
    BY <2>1 DEF Whole
  <2>3. AgentShape(f.agents[a]) => AgentShape(z) /\ SameBill(f.agents[a], z)
    BY DEF AgentShape, SameBill
  <2> HIDE DEF z
  <2>4. Bills(f, g)
    BY <2>2, <2>3, BillsOne
  <2> QED BY <2>4 DEF g
<1> QED BY <1>1, <1>2

LEMMA StartBills == ASSUME NEW f, NEW s PROVE Bills(f, Start(f, s))
BY BillsAside DEF Start, Whole

LEMMA TakeBills == ASSUME NEW f, NEW i PROVE Bills(f, Take(f, i))
<1>1. Whole(f) => Whole(Take(f, i)) /\ Take(f, i).agents = f.agents
  BY DEF Take, Whole
<1> QED BY <1>1, BillsAside

LEMMA AdmitBills == ASSUME NEW f, NEW t PROVE Bills(f, Admit(f, t))
<1> DEFINE g == Acquire(f, f.turns[t].agent)
           s == g.agents[f.turns[t].agent].shard
           h == [g EXCEPT !.active = @ + 1, !.turns[t].phase = "starting", !.turns[t].shard = s]
           k == [f EXCEPT !.active = @ + 1, !.turns[t].phase = "stranded"]
<1>1. Admit(f, t) = Start(h, s) \/ Admit(f, t) = k
  BY DEF Admit
<1>2. Bills(f, g)
  BY AcquireBills
<1> HIDE DEF g, s
<1>3. Whole(g) => Whole(h) /\ h.agents = g.agents
  BY DEF Whole
<1>4. Whole(f) => Whole(k) /\ k.agents = f.agents
  BY DEF Whole
<1> HIDE DEF h, k
<1>5. Bills(f, Start(h, s))
  BY <1>2, <1>3, BillsAside, StartBills, BillsOn
<1>6. Bills(f, k)
  BY <1>4, BillsAside
<1> QED BY <1>1, <1>5, <1>6

LEMMA DrainOneBills == ASSUME NEW f PROVE Bills(f, DrainOne(f))
BY BillsSame, TakeBills, AdmitBills, BillsOn DEF DrainOne

LEMMA RoundsBills ==
    ASSUME NEW f, NEW N \in Nat
    PROVE  Bills(f, Rounds(f, N))
<1>1. PICK h : DrainLoop(f, h, N) /\ Rounds(f, N) = h[N]
  BY RoundsUnfold
<1> DEFINE T == {n \in 0..N : ~Bills(f, h[n])}
<1>3. ASSUME T # {} PROVE FALSE
  <2>1. PICK n \in T : \A m \in T : n <= m
    BY <1>3, Least
  <2>2. n \in Nat /\ n <= N /\ ~Bills(f, h[n])
    BY <2>1
  <2>3. CASE n = 0
    BY <1>1, <2>1, <2>2, <2>3, BillsSame DEF DrainLoop
  <2>4. CASE n # 0
    <3>1. n - 1 \in 0..N /\ n - 1 \notin T
      BY <2>1, <2>2, <2>4
    <3>2. Bills(f, h[n - 1])
      BY <3>1
    <3>3. h[n] = DrainOne(h[n - 1])
      BY <1>1, <2>1, <2>2, <2>4 DEF DrainLoop
    <3> QED BY <2>2, <3>2, <3>3, DrainOneBills, BillsOn
  <2> QED BY <2>3, <2>4
<1>4. N \in 0..N
  OBVIOUS
<1> QED BY <1>1, <1>3, <1>4

LEMMA DrainBills == ASSUME NEW f, Ledger(f) PROVE Bills(f, Drain(f))
<1>1. Len(f.queue) \in Nat
  BY DEF Ledger, QueueIsExact
<1> QED BY <1>1, RoundsBills DEF Drain

LEMMA CallBills ==
    ASSUME NEW f, NEW t, NEW a, NEW p
    PROVE  Bills(f, Refused(f, t, a, p)) /\ Bills(f, Pushed(f, t, a, p))
<1>1. Whole(f) => Whole(Refused(f, t, a, p)) /\ Refused(f, t, a, p).agents = f.agents
  BY DEF Refused, Whole
<1>2. Whole(f) => Whole(Pushed(f, t, a, p)) /\ Pushed(f, t, a, p).agents = f.agents
  BY DEF Pushed, Whole
<1> QED BY <1>1, <1>2, BillsAside

LEMMA CalledBills == ASSUME NEW f, Ledger(f), NEW c PROVE Bills(f, Called(f, c))
<1>1. CASE Unused(f) = {} \/ c.agent \notin AgentsOf(f)
  BY <1>1, BillsSame DEF Called
<1>2. CASE ~(Unused(f) = {} \/ c.agent \notin AgentsOf(f))
  <2> DEFINE t == Min(Unused(f))
             g == Pushed(f, t, c.agent, c.prio)
  <2>1. t \in Turns /\ f.turns[t].phase = "new" /\ c.agent \in Agents
    BY <1>2, MinUnused DEF AgentsOf
  <2>2. \/ Called(f, c) = Refused(f, t, c.agent, c.prio)
        \/ ~f.exceeded /\ Called(f, c) = Drain(g)
    BY <1>2 DEF Called, Refuses
  <2> HIDE DEF t
  <2>3. ~f.exceeded => Ledger(g)
    BY <2>1, CallNests DEF Nests, Advances
  <2>4. Bills(f, Refused(f, t, c.agent, c.prio)) /\ Bills(f, g)
    BY CallBills
  <2> HIDE DEF g
  <2> QED BY <2>2, <2>3, <2>4, DrainBills, BillsOn
<1> QED BY <1>1, <1>2

LEMMA HearsBills ==
    ASSUME NEW f, Ledger(f), NEW event, NEW n, NEW c
    PROVE  Bills(f, Hears(f, event, n, c))
BY CalledBills, BillsSame DEF Hears

LEMMA DrainHeardBills ==
    ASSUME NEW f, Ledger(f), NEW c, IsCall(c)
    PROVE  Bills(f, DrainHeard(f, c))
<1> DEFINE g == Rounds(f, c.at)
<1>1. Ledger(g) /\ Bills(f, g)
  BY RoundsNest, RoundsBills DEF IsCall, Nests, Advances
<1>2. Bills(f, Drain(f))
  BY DrainBills
<1>3. Bills(f, Drain(Called(g, c)))
  <2>1. Ledger(Called(g, c))
    BY <1>1, CalledNests DEF Nests, Advances
  <2> QED BY <1>1, <2>1, CalledBills, DrainBills, BillsOn
<1>4. ASSUME c.event = "queueDepth", ~Stuck(g) PROVE Bills(f, Drain(HeardRound(g, c)))
  <2> HIDE DEF g
  <2> DEFINE h == Take(g, Chosen(g))
             k == Called(h, c)
             m == HeardRound(g, c)
  <2>1. Ledger(h) /\ Ledger(m)
    BY <1>1, <1>4, HeardRoundAdvances DEF IsCall, Advances
  <2>2. Bills(g, h)
    BY TakeBills
  <2>3. Bills(h, k)
    BY <2>1, CalledBills
  <2>4. m = Admit(k, g.queue[Chosen(g)])
    BY DEF HeardRound
  <2> HIDE DEF h, k, m
  <2>5. Bills(k, m) /\ Bills(m, Drain(m))
    BY <2>1, <2>4, AdmitBills, DrainBills
  <2> QED BY <1>1, <2>2, <2>3, <2>5, BillsOn DEF m
<1> QED BY <1>2, <1>3, <1>4, DrainHeardIs

LEMMA FailingBills == ASSUME NEW f, NEW t PROVE Bills(f, Failing(f, t))
BY BillsAside DEF Failing, Whole

LEMMA OpenBills == ASSUME NEW f, NEW t, NEW x PROVE Bills(f, Open(f, t, x))
<1> DEFINE a == f.turns[t].agent
           v == IF Registered(f, a) THEN "ready" ELSE f.agents[a].status
           z == [f.agents[a] EXCEPT !.session = x, !.status = v]
           g == Open(f, t, x)
<1>1. Whole(f) => Whole(g) /\ g.agents = [f.agents EXCEPT ![a] = z]
  BY ZenonT(60) DEF Open, Whole
<1>2. AgentShape(f.agents[a]) => AgentShape(z) /\ SameBill(f.agents[a], z)
  <2> HIDE DEF v
  <2> QED BY DEF AgentShape, SameBill
<1> HIDE DEF z, a, g
<1>3. Bills(f, g)
  BY <1>1, <1>2, BillsOne
<1> QED BY <1>3 DEF g

LEMMA EventBills ==
    ASSUME NEW f, Ledger(f), NEW t, NEW c, IsCall(c)
    PROVE  Bills(f, OnTurnEvent(f, t, c))
BY DrainHeardBills, BillsSame DEF OnTurnEvent

LEMMA FinallyBills ==
    ASSUME NEW f, NEW t \in Turns, Ledger(f), f.turns[t].phase \in InFlightPhases,
           NEW phase \in {"done", "failed"}, NEW c, IsCall(c)
    PROVE  Bills(f, Finally(f, t, phase, c))
<1> DEFINE g == [Settle(f, t, phase) EXCEPT !.active = @ - 1]
<1>1. Whole(f) => Whole(g) /\ g.agents = f.agents
  BY DEF Settle, Whole
<1>2. Finally(f, t, phase, c) = DrainHeard(g, c)
  BY DEF Finally
<1>3. Ledger(g)
  BY SettleAdvances DEF Advances
<1> HIDE DEF g
<1>4. Bills(f, g) /\ Bills(g, DrainHeard(g, c))
  BY <1>1, <1>3, BillsAside, DrainHeardBills
<1> QED BY <1>2, <1>4, BillsOn

LEMMA TripBills == ASSUME NEW f PROVE Bills(f, Trip(f))
<1>1. Whole(f) => Whole(Trip(f)) /\ Trip(f).agents = f.agents
  <2>1. CASE f.exceeded
    BY <2>1 DEF Trip
  <2>2. CASE ~f.exceeded
    BY <2>2, ZenonT(60) DEF Trip, Whole
  <2> QED BY <2>1, <2>2
<1> QED BY <1>1, BillsAside

LEMMA RejectedBills == ASSUME NEW f, NEW s PROVE Bills(f, Rejected(f, s))
<1>1. Whole(f) => Whole(Rejected(f, s)) /\ Rejected(f, s).agents = f.agents
  BY ZenonT(60) DEF Rejected, Whole
<1> QED BY <1>1, BillsAside

LEMMA StatusBills ==
    ASSUME NEW f, NEW a, NEW v
    PROVE  Bills(f, [f EXCEPT !.agents[a].status = v])
<1> DEFINE z == [f.agents[a] EXCEPT !.status = v]
           g == [f EXCEPT !.agents[a].status = v]
<1>1. Whole(f) => Whole(g) /\ g.agents = [f.agents EXCEPT ![a] = z]
  BY DEF Whole
<1>2. AgentShape(f.agents[a]) => AgentShape(z) /\ SameBill(f.agents[a], z)
  BY DEF AgentShape, SameBill
<1> HIDE DEF z, g
<1>3. Bills(f, g)
  BY <1>1, <1>2, BillsOne
<1> QED BY <1>3 DEF g

LEMMA RecoverAgentBills == ASSUME NEW f, NEW a PROVE Bills(f, RecoverAgent(f, a))
<1>1. CASE CanAssign(f, a)
  <2> DEFINE g == Acquire(f, a)
             s == g.agents[a].shard
             h == [g EXCEPT !.recoveries = @ \union {[agent |-> a, shard |-> s, phase |-> "starting", session |-> 0]}]
  <2>1. RecoverAgent(f, a) = Start(h, s)
    BY <1>1 DEF RecoverAgent
  <2>2. Bills(f, g)
    BY AcquireBills
  <2> HIDE DEF g, s
  <2>3. Bills(g, h)
    BY BillsAside DEF Whole
  <2> HIDE DEF h
  <2> QED BY <2>1, <2>2, <2>3, StartBills, BillsOn
<1>2. CASE ~CanAssign(f, a)
  BY <1>2, StatusBills DEF RecoverAgent
<1> QED BY <1>1, <1>2

LEMMA LoseMemberBills ==
    ASSUME NEW f, Ledger(f), NEW a \in Ids, NEW n, NEW c
    PROVE  Bills(f, LoseMember(f, a, n, c))
<1> DEFINE g == [f EXCEPT !.agents[a].status = "lost"]
           h == [f EXCEPT !.agents[a].status = "recovering", !.agents[a].shard = 0]
           gg == Hears(g, "shardLost", n, c)
           hh == Hears(h, "shardLost", n, c)
           k == RecoverAgent(hh, a)
           z == [f.agents[a] EXCEPT !.status = "recovering", !.shard = 0]
<1>1. LoseMember(f, a, n, c) \in {f, gg, k, Hears(k, "agentLost", n, c)}
  BY DEF LoseMember
<1>2. Ledger(g) /\ Ledger(h)
  <2>1. FleetShape(g) /\ SameBooks(f, g) /\ FleetShape(h) /\ SameBooks(f, h)
    BY DEF Ledger, Shapes, FleetShape, SameBooks
  <2> QED BY <2>1, BooksKeepLedger
<1>3. Bills(f, f) /\ Bills(f, g)
  BY BillsSame, StatusBills, Zenon
<1>4. Bills(f, h)
  <2>2. Whole(f) => Whole(h) /\ h.agents = [f.agents EXCEPT ![a] = z]
    BY DEF Whole
  <2>3. AgentShape(f.agents[a]) => AgentShape(z) /\ SameBill(f.agents[a], z)
    BY DEF AgentShape, SameBill
  <2> HIDE DEF z, h
  <2> QED BY <2>2, <2>3, BillsOne
<1> HIDE DEF g, h
<1>5. Ledger(hh) /\ Bills(f, gg) /\ Bills(f, hh)
  BY <1>2, <1>3, <1>4, HearsNests, HearsBills, BillsOn DEF Nests, Advances
<1> HIDE DEF gg, hh
<1>6. Ledger(k) /\ Bills(f, k)
  <2>1. FleetShape(k) /\ SameBooks(hh, k)
    BY <1>5, RecoverAgentKeepsBooks DEF Ledger, Shapes
  <2> QED BY <1>5, <2>1, BooksKeepLedger, RecoverAgentBills, BillsOn
<1> HIDE DEF k
<1>7. Bills(f, Hears(k, "agentLost", n, c))
  BY <1>6, HearsBills, BillsOn
<1> QED BY <1>1, <1>3, <1>5, <1>6, <1>7, Zenon

LEMMA LoseMembersBills ==
    ASSUME NEW f, Ledger(f), NEW list \in Seq(Ids), NEW c
    PROVE  Bills(f, LoseMembers(f, list, c))
<1> DEFINE N == Len(list)
<1>1. N \in Nat /\ \A k \in 1..N : list[k] \in Ids
  OBVIOUS
<1>2. PICK h : LoseLoop(f, list, c, h, N) /\ LoseMembers(f, list, c) = h[N]
  BY <1>1, LoseMembersUnfold
<1> HIDE DEF N
<1> DEFINE T == {n \in 0..N : ~(Ledger(h[n]) /\ Bills(f, h[n]))}
<1>5. ASSUME T # {} PROVE FALSE
  <2>1. PICK n \in T : \A m \in T : n <= m
    BY <1>1, <1>5, Least
  <2>2. n \in Nat /\ n <= N
    BY <1>1, <2>1
  <2>3. CASE n = 0
    BY <1>1, <1>2, <2>1, <2>3, BillsSame DEF LoseLoop
  <2>4. CASE n # 0
    <3>1. n - 1 \in 0..N /\ n - 1 \notin T
      BY <1>1, <2>1, <2>2, <2>4
    <3>2. Ledger(h[n - 1]) /\ Bills(f, h[n - 1])
      BY <3>1
    <3>3. h[n] = LoseMember(h[n - 1], list[n], n, c)
      BY <1>2, <2>1, <2>2, <2>4 DEF LoseLoop
    <3>4. list[n] \in Ids
      BY <1>1, <2>2, <2>4
    <3>5. Ledger(h[n])
      BY <3>2, <3>3, <3>4, LoseMemberAdvances DEF Advances
    <3>6. Bills(f, h[n])
      BY <3>2, <3>3, <3>4, LoseMemberBills, BillsOn
    <3> QED BY <2>1, <3>5, <3>6
  <2> QED BY <2>3, <2>4
<1>6. N \in 0..N
  BY <1>1
<1> QED BY <1>2, <1>5, <1>6

LEMMA ForgetBills ==
    ASSUME NEW f, NEW a, NEW s, Ledger(f), NEW c, IsCall(c)
    PROVE  Bills(f, Forget(f, a, s, c))
<1> DEFINE g == IF s = 0 THEN f
                ELSE [f EXCEPT !.shards[s].members = RemoveFirst(@, a),
                               !.shards[s].mapped = @ \ {f.agents[a].session}]
           h == [g EXCEPT !.agents[a].known = "gone", !.agents[a].status = "retired"]
           z == [g.agents[a] EXCEPT !.known = "gone", !.status = "retired"]
<1>1. Forget(f, a, s, c) = DrainHeard(h, c)
  BY DEF Forget
<1>a. Ledger(h)
  <2>1. h = Forgotten(f, a, s)
    BY DEF Forgotten
  <2> HIDE DEF h
  <2> QED BY <2>1, ForgottenAdvances DEF Advances
<1>2. Whole(f) => Whole(g) /\ g.agents = f.agents
  BY ZenonT(60) DEF Whole
<1> HIDE DEF g
<1>3. Whole(g) => Whole(h) /\ h.agents = [g.agents EXCEPT ![a] = z]
  BY DEF Whole
<1>4. AgentShape(g.agents[a]) => AgentShape(z) /\ SameBill(g.agents[a], z)
  BY DEF AgentShape, SameBill
<1> HIDE DEF h, z
<1>5. Bills(f, g) /\ Bills(g, h) /\ Bills(h, DrainHeard(h, c))
  BY <1>2, <1>3, <1>4, <1>a, BillsAside, BillsOne, DrainHeardBills
<1> QED BY <1>1, <1>5, BillsOn
(* The steps.                                                               *)
LEMMA BecomesBills ==
    ASSUME NEW f, Bills(fleet, f), Becomes(f)
    PROVE  Bills(fleet, fleet')
<1>1. Whole(fleet') /\ fleet'.agents = f.agents
  BY DEF Becomes, fleet, Whole
<1>2. Bills(f, fleet')
  BY <1>1, BillsAside
<1> QED BY <1>2, BillsOn

LEMMA FrameBills == agents' = agents => Bills(fleet, fleet')
<1> SUFFICES ASSUME agents' = agents PROVE Bills(fleet, fleet')
  OBVIOUS
<1>1. Whole(fleet') /\ fleet'.agents = fleet.agents
  BY DEF fleet, Whole
<1> QED BY <1>1, BillsAside

LEMMA TurnBeginsBills ==
    ASSUME NEW t, TurnStart(t) \/ TurnReuses(t) \/ TurnOpensFresh(t)
    PROVE  Bills(fleet, fleet')
<1> DEFINE opening(y) == [fleet EXCEPT !.turns[t].phase = "opening", !.turns[t].session = y]
           f == [fleet EXCEPT !.shards[ShardOf(t)].sess[turns[t].session] = "none"]
<1>1. \/ Becomes(Failing(fleet, t)) \/ \E y : Becomes(opening(y))
      \/ \E x : Becomes(Open(fleet, t, x)) \/ Becomes(Open(f, t, x))
  <2>1. CASE TurnStart(t)
    <3>1. Becomes(Failing(fleet, t)) \/ \E y : Becomes(opening(y))
      BY <2>1 DEF TurnStart
    <3> HIDE DEF opening
    <3> QED BY <3>1
  <2>2. CASE TurnReuses(t)
    <3>1. Becomes(Failing(fleet, t)) \/ Becomes(Open(fleet, t, turns[t].session))
      BY <2>2 DEF TurnReuses
    <3> QED BY <3>1
  <2>3. CASE TurnOpensFresh(t)
    <3>1. Becomes(Failing(fleet, t)) \/ Becomes(Open(f, t, t))
      BY <2>3 DEF TurnOpensFresh
    <3> HIDE DEF f
    <3> QED BY <3>1
  <2> QED BY <2>1, <2>2, <2>3
<1>2. ASSUME NEW y PROVE Bills(fleet, opening(y))
  <2>1. Whole(fleet) => Whole(opening(y)) /\ opening(y).agents = fleet.agents
    BY DEF Whole
  <2> HIDE DEF opening
  <2> QED BY <2>1, BillsAside
<1>3. Bills(fleet, f)
  BY BillsAside DEF Whole
<1> HIDE DEF f, opening
<1>4. ASSUME NEW x PROVE Bills(fleet, Open(fleet, t, x)) /\ Bills(fleet, Open(f, t, x))
  BY <1>3, OpenBills, BillsOn
<1> QED BY <1>1, <1>2, <1>4, FailingBills, BecomesBills

LEMMA TurnCompletesBills ==
    ASSUME Ledger(fleet), NEW t \in Turns, TurnCompletes(t)
    PROVE  Bills(fleet, fleet')
<1> DEFINE x == turns[t].session
           a == turns[t].agent
           f == Ended(t)
           g(c) == OnTurnEvent(f, t, c)
           z(c) == [g(c).agents[a] EXCEPT !.session = x]
           h(c) == [g(c) EXCEPT !.agents[a].session = x]
<1>1. PICK c \in Calls(0) : Becomes(h(c))
  BY DEF TurnCompletes, Ended
<1>2. Ledger(f)
  <2>1. fleet.turns[t].phase \in InFlightPhases
    BY DEF TurnCompletes, InFlightPhases, fleet
  <2> QED BY <2>1, EndedAdvances DEF Advances
<1>3. Whole(f) /\ f.agents = fleet.agents
  BY DEF fleet, Whole, Ended
<1> HIDE DEF f
<1>4. Bills(fleet, f) /\ Bills(f, g(c))
  BY <1>2, <1>3, BillsAside, EventBills, CallsAre
<1> HIDE DEF g, x, a
<1>5. Bills(g(c), h(c))
  <2>1. Whole(g(c)) => Whole(h(c)) /\ h(c).agents = [g(c).agents EXCEPT ![a] = z(c)]
    BY DEF Whole
  <2>2. AgentShape(g(c).agents[a]) => AgentShape(z(c)) /\ SameBill(g(c).agents[a], z(c))
    BY DEF AgentShape, SameBill
  <2> HIDE DEF z, h
  <2> QED BY <2>1, <2>2, BillsOne
<1> HIDE DEF h
<1> QED BY <1>1, <1>4, <1>5, BillsOn, BecomesBills

LEMMA TurnFailsBills ==
    ASSUME Ledger(fleet), NEW t \in Turns, TurnFails(t) \/ BackendCeiling(t)
    PROVE  Bills(fleet, fleet')
<1> DEFINE s == ShardOf(t)
           x == turns[t].session
           f == Failing(fleet, t)
           put(v) == [f EXCEPT !.shards[s].sess[x] = v]
<1>1. \/ \E c \in Calls(0) : Becomes(OnTurnEvent(f, t, c)) \/ Becomes(Trip(OnTurnEvent(f, t, c)))
      \/ \E v : Becomes(put(v)) \/ \E c \in Calls(0) : Becomes(OnTurnEvent(put(v), t, c))
  <2>1. CASE TurnFails(t)
    <3>1. \/ \E c \in Calls(0) : Becomes(OnTurnEvent(f, t, c))
          \/ Becomes([f EXCEPT !.shards[s].sess[x] = IF @ = "none" THEN @ ELSE "open"])
          \/ \E left \in {"none", shards[s].sess[x]}, c \in Calls(0) :
                Becomes(OnTurnEvent([f EXCEPT !.shards[s].sess[x] = left], t, c))
      BY <2>1 DEF TurnFails
    <3>2. [f EXCEPT !.shards[s].sess[x] = IF @ = "none" THEN @ ELSE "open"]
            = put(IF f.shards[s].sess[x] = "none" THEN f.shards[s].sess[x] ELSE "open")
      OBVIOUS
    <3> QED BY <3>1, <3>2
  <2>2. CASE BackendCeiling(t)
    BY <2>2 DEF BackendCeiling
  <2> QED BY <2>1, <2>2
<1>2. Bills(fleet, f) /\ Ledger(f)
  <2>1. fleet.turns[t].phase \in InFlightPhases
    BY DEF TurnFails, BackendCeiling, InFlightPhases, fleet
  <2> QED BY <2>1, FailingBills, FailingAdvances DEF Advances
<1> HIDE DEF f
<1>3. ASSUME NEW v PROVE Bills(fleet, put(v)) /\ Ledger(put(v))
  <2>1. Whole(f) => Whole(put(v)) /\ put(v).agents = f.agents
    BY DEF Whole
  <2>2. Ledger(put(v))
    BY <1>2, SessionAdvances DEF Advances
  <2> HIDE DEF put
  <2> QED BY <1>2, <2>1, <2>2, BillsAside, BillsOn
<1> HIDE DEF put
<1>4. ASSUME NEW v, NEW c \in Calls(0) PROVE Bills(fleet, OnTurnEvent(put(v), t, c))
  BY <1>3, EventBills, CallsAre, BillsOn
<1>5. ASSUME NEW c \in Calls(0)
      PROVE  Bills(fleet, OnTurnEvent(f, t, c)) /\ Bills(fleet, Trip(OnTurnEvent(f, t, c)))
  BY <1>2, EventBills, CallsAre, TripBills, BillsOn
<1> QED BY <1>1, <1>3, <1>4, <1>5, BecomesBills

LEMMA TurnEndsBills ==
    ASSUME Ledger(fleet), NEW t \in Turns, TurnResolves(t) \/ TurnRejects(t)
    PROVE  Bills(fleet, fleet')
<1> DEFINE f == [fleet EXCEPT !.shards[ShardOf(t)].sess[turns[t].session] = "stopped"]
<1>1. \E c \in Calls(0) : \/ Becomes(Finally(fleet, t, "failed", c)) \/ Becomes(Finally(fleet, t, "done", c))
                          \/ Becomes(Finally(f, t, "done", c))
  BY DEF TurnResolves, TurnRejects
<1>2. Whole(f) /\ f.agents = fleet.agents /\ f.turns = fleet.turns
  BY DEF fleet, Whole
<1>3. fleet.turns[t].phase \in InFlightPhases
  BY DEF TurnResolves, TurnRejects, InFlightPhases, fleet
<1>4. Ledger(f)
  BY SessionAdvances DEF Advances
<1> HIDE DEF f
<1>5. ASSUME NEW c \in Calls(0) PROVE Bills(fleet, Finally(f, t, "done", c))
  <2>1. Bills(fleet, f)
    BY <1>2, BillsAside
  <2>2. Bills(f, Finally(f, t, "done", c))
    BY <1>2, <1>3, <1>4, FinallyBills, CallsAre
  <2> QED BY <2>1, <2>2, BillsOn
<1>6. \A p \in {"done", "failed"}, c \in Calls(0) : Bills(fleet, Finally(fleet, t, p, c))
  BY <1>3, FinallyBills, CallsAre
<1> QED BY <1>1, <1>5, <1>6, BecomesBills

LEMMA RunBills ==
    ASSUME Ledger(fleet), NEW t \in Turns, NEW a \in Agents, NEW p, Run(t, a, p)
    PROVE  Bills(fleet, fleet')
<1> DEFINE f == Refused(fleet, t, a, p)
           g == Pushed(fleet, t, a, p)
<1>1. /\ fleet.turns[t].phase = "new"
      /\ Becomes(f) \/ (~fleet.exceeded /\ \E c \in Calls(0) : Becomes(DrainHeard(g, c)))
  BY DEF Run, Refuses, fleet
<1>2. Bills(fleet, f) /\ Bills(fleet, g)
  BY CallBills
<1>3. ~fleet.exceeded => Ledger(g)
  BY <1>1, CallNests DEF Nests, Advances
<1> HIDE DEF f, g
<1>4. ASSUME ~fleet.exceeded, NEW c \in Calls(0) PROVE Bills(fleet, DrainHeard(g, c))
  BY <1>2, <1>3, <1>4, DrainHeardBills, CallsAre, BillsOn
<1> QED BY <1>1, <1>2, <1>4, BecomesBills

LEMMA ShardBills ==
    ASSUME Ledger(fleet), NEW s \in Shards, ShardStep(s) \/ ShardLost(s) \/ CloseShard(s)
    PROVE  Bills(fleet, fleet')
<1> DEFINE f == [fleet EXCEPT !.shards[s].proc = "idle"]
           g == [fleet EXCEPT !.shards[s].proc = "idle", !.shards[s].sess = [x \in Sessions |-> "none"]]
           d == [fleet EXCEPT !.shards[s].proc = "down", !.shards[s].sess = [x \in Sessions |-> "none"]]
           h == Untracked(s)
<1>1. CASE ShardStartUp(s)
  BY <1>1, FrameBills DEF ShardStartUp
<1>2. CASE StartFails(s) \/ CloseShard(s)
  <2>1. Becomes(Rejected(f, s)) \/ Becomes(Rejected(g, s))
    BY <1>2 DEF StartFails, CloseShard
  <2>2. Bills(fleet, f) /\ Bills(fleet, g)
    <3>1. Bills(fleet, f)
      BY BillsAside DEF Whole
    <3>2. Bills(fleet, g)
      <4>1. Whole(fleet) => Whole(g) /\ g.agents = fleet.agents
        BY DEF Whole
      <4> HIDE DEF g
      <4> QED BY <4>1, BillsAside
    <3> QED BY <3>1, <3>2
  <2> HIDE DEF f, g
  <2> QED BY <2>1, <2>2, RejectedBills, BillsOn, BecomesBills
<1>3. CASE ShardLost(s)
  <2>1. PICK c \in Calls(1) : Becomes(DrainHeard(Orphaned(s, c), c))
    BY <1>3, ShardLostAdvances
  <2>2. Bills(fleet, Downed(s))
    <3>1. Bills(fleet, d)
      <4>1. Whole(fleet) => Whole(d) /\ d.agents = fleet.agents
        BY DEF Whole
      <4> HIDE DEF d
      <4> QED BY <4>1, BillsAside
    <3>2. Downed(s) = Rejected(d, s)
      BY DEF Downed
    <3> HIDE DEF d
    <3> QED BY <3>1, <3>2, RejectedBills, BillsOn
  <2>3. Bills(Downed(s), h)
    <3>1. Whole(Downed(s)) => Whole(h) /\ h.agents = Downed(s).agents
      BY DEF Whole, Untracked
    <3> HIDE DEF h
    <3> QED BY <3>1, BillsAside
  <2> DEFINE e == Hears(h, "shardLost", 0, c)
             list == Downed(s).shards[s].members
             k == Orphaned(s, c)
  <2>4. k = LoseMembers(e, list, c)
    BY DEF Orphaned
  <2>5. list \in Seq(Ids) /\ Ledger(h) /\ Ledger(k)
    BY UntrackedAdvances, OrphanedAdvances DEF Advances
  <2> HIDE DEF h, list, k
  <2>6. Ledger(e) /\ Bills(h, e)
    BY <2>5, HearsNests, HearsBills DEF Nests, Advances
  <2> HIDE DEF e
  <2>7. Bills(e, k)
    BY <2>4, <2>5, <2>6, LoseMembersBills
  <2>8. Bills(k, DrainHeard(k, c))
    BY <2>5, DrainHeardBills, CallsAre
  <2>9. Bills(fleet, DrainHeard(k, c))
    BY <2>2, <2>3, <2>6, <2>7, <2>8, BillsOn
  <2> QED BY <2>1, <2>9, BecomesBills DEF k
<1> QED BY <1>1, <1>2, <1>3 DEF ShardStep

LEMMA RecoveryBills ==
    ASSUME Ledger(fleet), NEW r, RecoveryStep(r)
    PROVE  Bills(fleet, fleet')
<1>1. CASE RecoveryResumes(r)
  <2> DEFINE x == agents[r.agent].session
             f == [fleet EXCEPT !.recoveries = (@ \ {r}) \union {[r EXCEPT !.phase = "resuming", !.session = x]},
                                !.shards[r.shard].mapped = @ \union {x}]
  <2>1. Becomes(f)
    BY <1>1 DEF RecoveryResumes
  <2>2. Bills(fleet, f)
    <3>1. Whole(fleet) => Whole(f) /\ f.agents = fleet.agents
      BY DEF Whole
    <3> HIDE DEF f
    <3> QED BY <3>1, BillsAside
  <2> HIDE DEF f
  <2> QED BY <2>1, <2>2, BecomesBills
<1>2. CASE RecoverySucceeds(r)
  <2> DEFINE f == Recovered(r)
             v == IF Registered(fleet, r.agent) THEN "ready" ELSE agents[r.agent].status
             z == [agents[r.agent] EXCEPT !.session = r.session, !.status = v]
  <2>1. PICK c \in Calls(0) : Becomes(DrainHeard(f, c))
    BY <1>2 DEF RecoverySucceeds, Recovered
  <2>2. Whole(f) /\ f.agents = [fleet.agents EXCEPT ![r.agent] = z]
    BY ZenonT(60) DEF fleet, Whole, Recovered
  <2>3. AgentShape(agents[r.agent]) => AgentShape(z) /\ SameBill(agents[r.agent], z)
    <3> HIDE DEF v
    <3> QED BY DEF AgentShape, SameBill
  <2>4. fleet.agents = agents
    BY DEF fleet
  <2>5. Ledger(f)
    BY RecoveredAdvances DEF Advances
  <2> HIDE DEF f, z
  <2>6. Bills(fleet, f)
    BY <2>2, <2>3, <2>4, BillsOne
  <2>7. Bills(f, DrainHeard(f, c))
    BY <2>5, DrainHeardBills, CallsAre
  <2> QED BY <2>1, <2>6, <2>7, BillsOn, BecomesBills
<1>3. CASE RecoveryFails(r)
  <2> DEFINE f == [fleet EXCEPT !.recoveries = @ \ {r}]
             v == IF Registered(fleet, r.agent) THEN "lost" ELSE agents[r.agent].status
             g == [f EXCEPT !.agents[r.agent].status = v]
  <2>1. Becomes(g)
    BY <1>3 DEF RecoveryFails, fleet
  <2>2. Bills(fleet, f)
    BY BillsAside DEF Whole
  <2> HIDE DEF f, v
  <2>3. Bills(f, g)
    BY StatusBills
  <2> HIDE DEF g
  <2> QED BY <2>1, <2>2, <2>3, BillsOn, BecomesBills
<1> QED BY <1>1, <1>2, <1>3 DEF RecoveryStep

LEMMA RetireBills ==
    ASSUME Ledger(fleet), NEW a, RetireBegins(a) \/ RetireStep(a) \/ Quiesce(a)
    PROVE  Bills(fleet, fleet')
<1>1. CASE RetireBegins(a)
  <2>1. (\E s, c : IsCall(c) /\ Becomes(Forget(fleet, a, s, c))) \/ UNCHANGED fleetVars
    BY <1>1, CallsAre DEF RetireBegins
  <2>2. CASE UNCHANGED fleetVars
    BY <2>2, FrameBills DEF fleetVars
  <2> QED BY <2>1, <2>2, ForgetBills, BecomesBills
<1>2. CASE RetireQuiesced(a) \/ RetireFails(a) \/ Quiesce(a)
  BY <1>2, FrameBills DEF RetireQuiesced, RetireFails, Quiesce, fleetVars
<1>3. CASE Released(a)
  <2> DEFINE s == retiring[a].shard
             y == retiring[a].session
             f == [fleet EXCEPT !.shards[s].sess[y] = IF shards[s].backend = "codex" THEN @ ELSE "none"]
  <2>1. PICK c \in Calls(1) : Becomes(Forget(f, a, s, c))
    BY <1>3 DEF Released
  <2>2. Whole(f) /\ f.agents = fleet.agents /\ Ledger(f)
    BY SessionAdvances DEF fleet, Whole, Advances
  <2> HIDE DEF f, s
  <2>3. Bills(fleet, f) /\ Bills(f, Forget(f, a, s, c))
    BY <2>2, BillsAside, ForgetBills, CallsAre
  <2> QED BY <2>1, <2>3, BillsOn, BecomesBills
<1> QED BY <1>1, <1>2, <1>3 DEF RetireStep

LEMMA CloseBills == CloseBegins \/ CloseEnds => Bills(fleet, fleet')
<1> SUFFICES ASSUME CloseBegins \/ CloseEnds PROVE agents' = agents
  BY FrameBills
<1> QED BY DEF CloseBegins, CloseEnds, Becomes, fleet
LEMMA StepBills ==
    ASSUME Ledger(fleet), [Next]_vars,
           \A a \in Agents : ~RequestAgent(a), \A t \in Turns, cost \in Costs : ~Usage(t, cost)
    PROVE  Bills(fleet, fleet')
<1>1. ASSUME NEW t \in Turns, TurnStep(t) PROVE Bills(fleet, fleet')
  BY <1>1, TurnBeginsBills, TurnCompletesBills, TurnFailsBills, TurnEndsBills DEF TurnStep
<1>2. ASSUME NEW s \in Shards, ShardStep(s) \/ ShardLost(s) \/ CloseShard(s) PROVE Bills(fleet, fleet')
  BY <1>2, ShardBills
<1>3. ASSUME NEW r \in recoveries, RecoveryStep(r) PROVE Bills(fleet, fleet')
  BY <1>3, RecoveryBills
<1>4. ASSUME NEW a \in Agents, RetireBegins(a) \/ RetireStep(a) \/ Quiesce(a) PROVE Bills(fleet, fleet')
  BY <1>4, RetireBills
<1>5. ASSUME NEW t \in Turns, NEW a \in Agents, NEW p, Run(t, a, p) PROVE Bills(fleet, fleet')
  BY <1>5, RunBills
<1>6. CASE CloseBegins \/ CloseEnds
  BY <1>6, CloseBills
<1>7. CASE UNCHANGED vars
  BY <1>7, FrameBills DEF vars, fleetVars
<1> QED BY <1>1, <1>2, <1>3, <1>4, <1>5, <1>6, <1>7 DEF Next, Answer
-----------------------------------------------------------------------------
(* What the sum stands on: every agent's cost is a number, finitely many    *)
(* agents have been requested, and one that was not has cost nothing.       *)
Account(f) ==
    /\ Sheet(f) /\ IsFiniteSet(AgentsOf(f))
    /\ \A a \in Agents : f.agents[a].known = "no" => f.agents[a].cost = 0

LEMMA SpentIsNat ==
    ASSUME NEW f, Account(f)
    PROVE  Spent(f) \in Nat /\ \A a \in Agents : Cost(f, a) \in Nat
<1>1. \A a \in Agents : Cost(f, a) \in Nat
  BY DEF Account, Sheet, AgentShape, Cost
<1>2. \A a \in AgentsOf(f) : Cost(f, a) \in Nat
  BY <1>1 DEF AgentsOf
<1> QED BY <1>1, <1>2, SpentIsTotal, TotalIsNat DEF Account

LEMMA BillsSpend ==
    ASSUME NEW f, NEW g, Account(f), Bills(f, g)
    PROVE  Account(g) /\ Spent(g) <= Spent(f)
<1>1. Sheet(g) /\ \A a \in Agents : SameBill(f.agents[a], g.agents[a])
  BY DEF Bills, Account
<1>2. AgentsOf(g) \subseteq AgentsOf(f)
  BY <1>1 DEF AgentsOf, Registered, SameBill
<1>3. IsFiniteSet(AgentsOf(f)) /\ IsFiniteSet(AgentsOf(g))
  BY <1>2, FS_Subset DEF Account
<1>4. Account(g)
  BY <1>1, <1>3 DEF Account, SameBill
<1>5. Total(g, AgentsOf(g)) = Total(f, AgentsOf(g))
  <2>1. \A a \in AgentsOf(g) : Cost(g, a) = Cost(f, a)
    BY <1>1 DEF Cost, SameBill, AgentsOf
  <2> QED BY <1>3, <2>1, SameTotal
<1>6. Total(f, AgentsOf(g)) <= Total(f, AgentsOf(f))
  <2>1. \A a \in AgentsOf(f) : Cost(f, a) \in Nat
    BY SpentIsNat DEF AgentsOf
  <2> QED BY <1>2, <1>3, <2>1, TotalGrows
<1> QED BY <1>4, <1>5, <1>6, SpentIsTotal

(* The ceiling has been noticed.                                            *)
Noticed(f) == ceiling # 0 /\ Spent(f) >= ceiling => f.exceeded

LEMMA RequestSpends ==
    ASSUME Account(fleet), Noticed(fleet), NEW a \in Agents, RequestAgent(a)
    PROVE  Account(fleet') /\ Noticed(fleet')
<1> DEFINE z == [agents[a] EXCEPT !.known = "yes"]
           R == AgentsOf(fleet)
<1>1. /\ agents = [b \in Agents |-> agents[b]] /\ \A b \in Agents : AgentShape(agents[b])
      /\ IsFiniteSet(R) /\ \A b \in Agents : agents[b].known = "no" => agents[b].cost = 0
  BY DEF Account, Sheet, fleet
<1>2. agents' = [agents EXCEPT ![a] = z] /\ agents[a].known = "no" /\ exceeded' = exceeded
  BY DEF RequestAgent
<1>3. AgentShape(z) /\ z.known = "yes" /\ z.cost = 0
  <2>1. AgentShape(agents[a]) /\ agents[a].cost = 0
    BY <1>1, <1>2
  <2> QED BY <2>1 DEF AgentShape
<1> HIDE DEF z
<1>4. /\ agents' = [b \in Agents |-> agents'[b]]
      /\ \A b \in Agents : agents'[b] = IF b = a THEN z ELSE agents[b]
  BY <1>1, <1>2
<1>5. Sheet(fleet')
  <2>1. Whole(fleet') /\ fleet'.agents = agents'
    BY DEF fleet, Whole
  <2>2. \A b \in Agents : AgentShape(agents'[b])
    BY <1>1, <1>3, <1>4
  <2> QED BY <1>4, <2>1, <2>2 DEF Sheet
<1>6. fleet.agents = agents /\ fleet'.agents = agents' /\ fleet'.exceeded = exceeded /\ fleet.exceeded = exceeded
  BY <1>2 DEF fleet
<1>7. AgentsOf(fleet') = R \union {a} /\ a \notin R
  BY <1>2, <1>3, <1>4, <1>6 DEF AgentsOf, Registered
<1>8. IsFiniteSet(AgentsOf(fleet'))
  BY <1>1, <1>7, FS_AddElement
<1>9. Account(fleet')
  BY <1>1, <1>3, <1>4, <1>5, <1>6, <1>8 DEF Account
<1> DEFINE S == AgentsOf(fleet')
<1>10. Spent(fleet') = Cost(fleet', a) + Total(fleet', S \ {a})
  <2>1. \A b \in S : Cost(fleet', b) \in Nat
    BY <1>9, SpentIsNat DEF AgentsOf
  <2>2. a \in S
    BY <1>7
  <2>3. Spent(fleet') = Total(fleet', S)
    BY SpentIsTotal
  <2> HIDE DEF S
  <2> QED BY <1>8, <2>1, <2>2, <2>3, TotalOfOne DEF S
<1>11. Cost(fleet', a) = 0 /\ S \ {a} = R
  BY <1>3, <1>4, <1>6, <1>7 DEF Cost
<1>12. Total(fleet', R) = Total(fleet, R)
  <2>1. \A b \in R : Cost(fleet', b) = Cost(fleet, b)
    BY <1>4, <1>6, <1>7 DEF Cost, AgentsOf
  <2> QED BY <1>1, <2>1, SameTotal
<1>13. Spent(fleet') = Spent(fleet)
  <2>1. Spent(fleet) = Total(fleet, R) /\ Spent(fleet) \in Nat
    BY SpentIsTotal, SpentIsNat
  <2> HIDE DEF R, S
  <2> QED BY <1>10, <1>11, <1>12, <2>1
<1> QED BY <1>6, <1>9, <1>13 DEF Noticed

LEMMA SpentOf ==
    ASSUME NEW f, NEW g, Account(f), Whole(g), g.agents = f.agents
    PROVE  Account(g) /\ Spent(g) = Spent(f)
<1>1. Bills(f, g)
  BY BillsAside
<1>2. Account(g) /\ Spent(g) <= Spent(f)
  BY <1>1, BillsSpend
<1>3. Bills(g, f)
  BY BillsAside DEF Account, Sheet
<1>4. Spent(f) <= Spent(g)
  BY <1>2, <1>3, BillsSpend
<1>5. Spent(f) \in Nat /\ Spent(g) \in Nat
  BY <1>2, SpentIsNat
<1> QED BY <1>2, <1>4, <1>5

LEMMA UsageSpends ==
    ASSUME Account(fleet), Noticed(fleet), NEW t, NEW cost \in Costs, Usage(t, cost)
    PROVE  Account(fleet') /\ Noticed(fleet')
<1> DEFINE a == turns[t].agent
           f == [fleet EXCEPT !.agents[a].cost = cost]
           z == [agents[a] EXCEPT !.cost = cost]
           g == IF ceiling = 0 THEN f ELSE Recalculated(f)
<1>1. Becomes(g)
  BY DEF Usage
<1>2. Whole(f) /\ f.agents = [agents EXCEPT ![a] = z]
  BY DEF fleet, Whole
<1>3. /\ agents = [b \in Agents |-> agents[b]] /\ \A b \in Agents : AgentShape(agents[b])
      /\ IsFiniteSet(AgentsOf(fleet)) /\ \A b \in Agents : agents[b].known = "no" => agents[b].cost = 0
      /\ fleet.agents = agents
  BY DEF Account, Sheet, fleet
<1>4. cost \in Nat /\ ceiling \in Nat
  BY LimitsAssumption
<1>5. AgentShape(agents[a]) => AgentShape(z) /\ z.known = agents[a].known /\ z.cost = cost
  BY <1>4 DEF AgentShape
<1>6. agents[a].known = "yes"
  BY <1>3 DEF Usage, Attributable, Registered
<1> HIDE DEF z, f, a
<1>7. /\ f.agents = [b \in Agents |-> f.agents[b]]
      /\ \A b \in Agents : f.agents[b] = IF b = a THEN z ELSE agents[b]
  BY <1>2, <1>3
<1>8. Account(f)
  <2>1. \A b \in Agents : AgentShape(f.agents[b]) /\ f.agents[b].known = agents[b].known
    BY <1>3, <1>5, <1>7
  <2>2. AgentsOf(f) = AgentsOf(fleet)
    BY <1>3, <2>1 DEF AgentsOf, Registered
  <2>3. \A b \in Agents : f.agents[b].known = "no" => f.agents[b].cost = 0
    BY <1>3, <1>6, <1>7, <2>1
  <2> QED BY <1>2, <1>3, <1>7, <2>1, <2>2, <2>3 DEF Account, Sheet
<1>9. Whole(g) /\ g.agents = f.agents /\ (ceiling = 0 \/ Spent(f) < ceiling \/ g.exceeded)
  <2>1. CASE ceiling = 0
    BY <1>2, <2>1
  <2>2. CASE ceiling # 0 /\ Spent(f) >= ceiling
    <3>1. g = Trip(f)
      BY <2>2 DEF Recalculated
    <3>2. Whole(Trip(f)) /\ Trip(f).agents = f.agents /\ Trip(f).exceeded
      <4>1. CASE f.exceeded
        BY <1>2, <4>1 DEF Trip
      <4>2. CASE ~f.exceeded
        BY <1>2, <4>2, ZenonT(60) DEF Trip, Whole
      <4> QED BY <4>1, <4>2
    <3> QED BY <3>1, <3>2
  <2>3. CASE ceiling # 0 /\ ~(Spent(f) >= ceiling)
    <3>1. g = f
      BY <2>3 DEF Recalculated
    <3>2. Spent(f) \in Nat
      BY <1>8, SpentIsNat
    <3> QED BY <1>2, <1>4, <2>3, <3>1, <3>2
  <2> QED BY <2>1, <2>2, <2>3
<1> HIDE DEF g
<1>10. Whole(fleet') /\ fleet'.agents = f.agents /\ fleet'.exceeded = g.exceeded
  BY <1>1, <1>9 DEF Becomes, fleet, Whole
<1>11. Account(fleet') /\ Spent(fleet') = Spent(f)
  BY <1>8, <1>10, SpentOf
<1>12. Spent(f) \in Nat
  BY <1>8, SpentIsNat
<1> QED BY <1>4, <1>9, <1>10, <1>11, <1>12 DEF Noticed

Billed == Books /\ Account(fleet) /\ Noticed(fleet)

LEMMA InitiallyBilled == Init => Billed
<1> SUFFICES ASSUME Init PROVE Billed
  OBVIOUS
<1>1. Books
  BY InitialLedger DEF Books
<1>2. Whole(fleet) /\ fleet.agents = [a \in Agents |-> NewAgent]
  BY DEF Init, fleet, Whole
<1>3. AgentShape(NewAgent) /\ NewAgent.known = "no" /\ NewAgent.cost = 0
  BY DEF AgentShape, NewAgent
<1>4. AgentsOf(fleet) = {}
  BY <1>2, <1>3 DEF AgentsOf, Registered
<1>5. Account(fleet)
  BY <1>2, <1>3, <1>4, FS_EmptySet DEF Account, Sheet
<1>6. Spent(fleet) = 0
  BY <1>4, FS_EmptySet, SpentIsTotal, TotalUnfolds
<1>7. ceiling \in Nat
  BY LimitsAssumption
<1> QED BY <1>1, <1>5, <1>6, <1>7 DEF Billed, Noticed

LEMMA StaysBilled == Billed /\ [Next]_vars => Billed'
<1> SUFFICES ASSUME Billed, [Next]_vars PROVE Billed'
  OBVIOUS
<1>1. Ledger(fleet) /\ Account(fleet) /\ Noticed(fleet)
  BY DEF Billed, Books
<1>2. Advances(fleet, fleet')
  BY <1>1, FleetAdvances
<1>3. Account(fleet') /\ Noticed(fleet')
  <2>1. CASE \E a \in Agents : RequestAgent(a)
    BY <1>1, <2>1, RequestSpends
  <2>2. CASE \E t \in Turns, cost \in Costs : Usage(t, cost)
    BY <1>1, <2>2, UsageSpends
  <2>3. CASE Bills(fleet, fleet')
    <3>1. Account(fleet') /\ Spent(fleet') <= Spent(fleet)
      BY <1>1, <2>3, BillsSpend
    <3>2. Spent(fleet) \in Nat /\ Spent(fleet') \in Nat /\ ceiling \in Nat
      BY <1>1, <3>1, SpentIsNat, LimitsAssumption
    <3>3. fleet.exceeded => fleet'.exceeded
      BY <1>2 DEF Advances
    <3> QED BY <1>1, <3>1, <3>2, <3>3 DEF Noticed
  <2> QED BY <1>1, <2>1, <2>2, <2>3, StepBills
<1> QED BY <1>2, <1>3 DEF Billed, Books, Advances

(* As soon as the agents of the fleet have spent the ceiling it is marked    *)
(* as reached, and from then on nothing waits for admission                 *)
(* (fleet.mjs:302-347).                                                     *)
THEOREM SpendCorrect == Spec => []SpendGate
<1>1. Billed /\ Shut => SpendGate
  BY DEF Billed, Noticed, Shut, SpendGate, fleet
<1> QED BY <1>1, InitiallyBilled, StaysBilled, AlwaysShut, PTL DEF Spec
=============================================================================
