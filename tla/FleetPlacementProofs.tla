------------------------ MODULE FleetPlacementProofs ------------------------
(***************************************************************************)
(* Theorems on where Fleet puts its agents, on what it knows of their      *)
(* sessions and on whom its queue lets wait, for every value of its        *)
(* constants.                                                              *)
(***************************************************************************)
EXTENDS FleetProofs

(* The types of the fleet record. A turn in flight has a shard, unless it   *)
(* is stranded: #admit() threw before it had one.                           *)
Sharded == InFlightPhases \ {"stranded"}
Typed(f) ==
    /\ f \in [agents : [Agents -> AgentRecords], shards : [Shards -> ShardRecords],
              turns : [Turns -> TurnRecords], queue : Seq(Turns), active : {f.active},
              exceeded : BOOLEAN, recoveries : SUBSET Recoveries]
    /\ \A t \in Turns : f.turns[t].phase \in Sharded => f.turns[t].shard # 0

(* Where the agents are: an agent that is not retired is a member of at     *)
(* most one shard, once, the one its shardId names, and of that one for     *)
(* certain while it is tracked.                                             *)
Holds(list, a) == \E i \in 1..Len(list) : list[i] = a
Once(list, a) == \A i, j \in 1..Len(list) : list[i] = a /\ list[j] = a => i = j
SeatOf(f, a, s) ==
    /\ Holds(f.shards[s].members, a) => f.agents[a].shard = s
    /\ f.agents[a].shard = s => /\ f.shards[s].backend = BackendOf(a)
                                /\ f.shards[s].tracked => Holds(f.shards[s].members, a)
    /\ Once(f.shards[s].members, a)
ShardFits(f, s) ==
    /\ f.shards[s].tracked => /\ f.shards[s].backend # "none"
                              /\ Len(f.shards[s].members) <= maxSessionsPerProcess
    /\ f.shards[s].backend = "none" => f.shards[s].members = <<>>
Seats(f) ==
    /\ \A b \in Backends : Cardinality(ShardList(f, b)) <= maxProcesses
    /\ \A s \in Shards : ShardFits(f, s)
    /\ \A a \in Agents : f.agents[a].known = "no" => f.agents[a].shard = 0
    /\ \A a \in Agents, s \in Shards : f.agents[a].known # "gone" => SeatOf(f, a, s)

(* At most k numbers are those of shards that are not in use any more.      *)
Room == 2 * maxProcesses + MaxCrashes
Dead(f) == {s \in Shards : f.shards[s].backend # "none" /\ ~f.shards[s].tracked}
Numbered(f, k) == k \in 0..Room /\ Cardinality(Dead(f)) <= k

LEMMA Limits ==
    /\ maxProcesses \in Nat /\ maxProcesses > 0 /\ maxSessionsPerProcess \in Nat /\ maxSessionsPerProcess > 0
    /\ MaxCrashes \in Nat /\ MaxTurns \in Nat /\ MaxShards \in Nat
    /\ MaxShards = 2 * maxProcesses + Room /\ Room \in Nat
BY LimitsAssumption DEF MaxShards, Room

LEMMA ShardsFinite ==
    /\ IsFiniteSet(Shards) /\ Cardinality(Shards) = MaxShards /\ 0 \notin Shards /\ Shards \subseteq Nat
    /\ \A S \in SUBSET Shards : IsFiniteSet(S) /\ Cardinality(S) \in Nat
<1>1. MaxShards \in Nat
  BY Limits
<1>2. IsFiniteSet(Shards) /\ Cardinality(Shards) = MaxShards
  BY <1>1, FS_Interval DEF Shards
<1>3. \A S \in SUBSET Shards : IsFiniteSet(S) /\ Cardinality(S) \in Nat
  BY <1>2, FS_Subset, FS_CardinalityType
<1> QED BY <1>1, <1>2, <1>3 DEF Shards

(* min of a nonempty set of shards is one of them.                          *)
LEMMA LeastShard ==
    ASSUME NEW S, S \subseteq Shards, S # {}
    PROVE  Min(S) \in S
<1>1. MaxShards \in Nat /\ S \subseteq 0..MaxShards
  BY Limits DEF Shards
<1>2. \E x \in S : \A y \in S : x <= y
  BY <1>1, Least, Zenon
<1> QED BY <1>2 DEF Min

(* Whatever #canAssign allows, there is a number for a new shard.           *)
LEMMA NumberLeft ==
    ASSUME NEW f, Typed(f), Seats(f), NEW k, k \in 0..Room, Numbered(f, k),
           NEW b \in Backends, Cardinality(ShardList(f, b)) < maxProcesses
    PROVE  Uncreated(f) # {}
<1> DEFINE L == ShardList(f, "codex")
           M == ShardList(f, "copilot")
           D == Dead(f)
<1>1. SUFFICES ASSUME Uncreated(f) = {} PROVE FALSE
  OBVIOUS
<1>2. Shards = (L \union M) \union D
  <2>1. \A s \in Shards : f.shards[s].backend \in {"codex", "copilot", "none"} /\ f.shards[s].tracked \in BOOLEAN
    BY DEF Typed, ShardRecords, Backends
  <2>2. \A s \in Shards : f.shards[s].backend # "none"
    BY <1>1 DEF Uncreated
  <2> QED BY <2>1, <2>2 DEF ShardList, Dead
<1>3. L \subseteq Shards /\ M \subseteq Shards /\ D \subseteq Shards
  BY DEF ShardList, Dead
<1>4. /\ Cardinality(L) \in Nat /\ Cardinality(M) \in Nat /\ Cardinality(D) \in Nat
      /\ Cardinality(L) <= maxProcesses /\ Cardinality(M) <= maxProcesses
      /\ Cardinality(L) < maxProcesses \/ Cardinality(M) < maxProcesses
      /\ Cardinality(D) <= k
  BY <1>3, ShardsFinite DEF Seats, Numbered, Backends
<1>5. \A S, T \in SUBSET Shards :
         Cardinality(S \union T) \in Nat /\ Cardinality(S \union T) <= Cardinality(S) + Cardinality(T)
  <2> TAKE S, T \in SUBSET Shards
  <2>1. IsFiniteSet(S) /\ IsFiniteSet(T) /\ IsFiniteSet(S \cap T)
    BY ShardsFinite
  <2>2. Cardinality(S \union T) = Cardinality(S) + Cardinality(T) - Cardinality(S \cap T)
    BY <2>1, FS_Union
  <2>3. S \cap T \in SUBSET Shards /\ S \union T \in SUBSET Shards
    OBVIOUS
  <2>4. Cardinality(S) \in Nat /\ Cardinality(T) \in Nat /\ Cardinality(S \cap T) \in Nat /\ Cardinality(S \union T) \in Nat
    BY <2>3, ShardsFinite
  <2> QED BY <2>2, <2>4
<1> HIDE DEF L, M, D
<1>6. /\ Cardinality(L \union M) \in Nat /\ Cardinality(L \union M) <= Cardinality(L) + Cardinality(M)
      /\ Cardinality((L \union M) \union D) <= Cardinality(L \union M) + Cardinality(D)
  BY <1>3, <1>5
<1>7. Cardinality(Shards) <= Cardinality(L) + Cardinality(M) + Cardinality(D)
  <2>1. Cardinality((L \union M) \union D) = Cardinality(Shards)
    BY <1>2
  <2>2. Cardinality(Shards) \in Nat
    BY Limits, ShardsFinite
  <2> QED BY <2>1, <2>2, <1>4, <1>6
<1>8. Cardinality(Shards) = 2 * maxProcesses + Room /\ Room \in Nat /\ maxProcesses \in Nat /\ k \in Nat /\ k <= Room
  BY Limits, ShardsFinite
<1> QED BY <1>4, <1>7, <1>8

LEMMA AppendedMember ==
    ASSUME NEW m \in Seq(Agents), NEW a \in Agents
    PROVE  /\ Append(m, a) \in Seq(Agents) /\ Len(Append(m, a)) = Len(m) + 1
           /\ Holds(Append(m, a), a) /\ (~Holds(m, a) => Once(Append(m, a), a))
           /\ \A c : c # a => /\ Holds(Append(m, a), c) <=> Holds(m, c)
                              /\ Once(m, c) => Once(Append(m, a), c)
<1> DEFINE n == Append(m, a)
<1>1. /\ n \in Seq(Agents) /\ Len(m) \in Nat /\ Len(n) = Len(m) + 1
      /\ \A i \in 1..Len(m) : n[i] = m[i]
      /\ n[Len(m) + 1] = a
  OBVIOUS
<1> HIDE DEF n
<1>2. /\ \A i \in 1..Len(n) : i \in 1..Len(m) \/ i = Len(m) + 1
      /\ Len(m) + 1 \in 1..Len(n) /\ \A i \in 1..Len(m) : i \in 1..Len(n)
  BY <1>1
<1>3. Holds(n, a)
  BY <1>1, <1>2 DEF Holds
<1>4. ~Holds(m, a) => Once(n, a)
  BY <1>1, <1>2 DEF Holds, Once
<1>5. ASSUME NEW c, c # a PROVE (Holds(n, c) <=> Holds(m, c)) /\ (Once(m, c) => Once(n, c))
  BY <1>1, <1>2, <1>5, Zenon DEF Holds, Once
<1> QED BY <1>1, <1>3, <1>4, <1>5 DEF n

(* A shard is assigned to no agent after a step that could not have been    *)
(* assigned to it before.                                                   *)
Crowds(f, g) == \A c \in Agents : CanAssign(g, c) => CanAssign(f, c)

(* #acquireShard, where #canAssign allows it: the agent is put on a tracked *)
(* shard with room, or on a new one; shards that are not tracked any more   *)
(* are left alone.                                                          *)
LEMMA AcquireSeats ==
    ASSUME NEW f, Typed(f), Seats(f), NEW k \in 0..Room, Numbered(f, k),
           NEW a \in Agents, f.agents[a].known = "yes", CanAssign(f, a)
    PROVE  LET g == Acquire(f, a)
           IN /\ Typed(g) /\ Seats(g) /\ Numbered(g, k)
              /\ g.agents[a].shard \in Shards
              /\ g.turns = f.turns /\ g.queue = f.queue /\ g.recoveries = f.recoveries
              /\ g.active = f.active /\ g.exceeded = f.exceeded
              /\ \A c \in Agents :
                    /\ c # a => g.agents[c] = f.agents[c]
                    /\ g.agents[c].known = f.agents[c].known /\ g.agents[c].status = f.agents[c].status
                    /\ g.agents[c].session = f.agents[c].session
              /\ \A r \in Shards : /\ g.shards[r].mapped = f.shards[r].mapped
                                   /\ r \in Dead(f) => g.shards[r] = f.shards[r]
              /\ Crowds(f, g)
<1>0. /\ f.agents \in [Agents -> AgentRecords] /\ f.shards \in [Shards -> ShardRecords]
      /\ f.agents[a].shard \in Shards \union {0} /\ 0 \notin Shards
      /\ BackendOf(a) \in Backends /\ "none" \notin Backends
  BY ShardsFinite DEF Typed, AgentRecords, BackendOf, Backends
<1>1. CASE f.agents[a].shard # 0
  BY <1>0, <1>1 DEF Acquire, Crowds
<1>2. CASE f.agents[a].shard = 0
  <2> DEFINE b == BackendOf(a)
             room == WithRoom(f, b)
             s == IF room # {} THEN Min(room) ELSE Min(Uncreated(f))
             m == f.shards[s].members
             z == [f.shards[s] EXCEPT !.backend = b, !.tracked = TRUE, !.members = Append(m, a)]
             y == [f.agents[a] EXCEPT !.shard = s]
             g == Acquire(f, a)
  <2>1. room # {} => s \in room
    <3>1. room \subseteq Shards
      BY DEF WithRoom, ShardList
    <3> QED BY <3>1, LeastShard
  <2>2. room = {} => s \in Uncreated(f) /\ Cardinality(ShardList(f, b)) < maxProcesses
    <3>1. ASSUME room = {} PROVE Cardinality(ShardList(f, b)) < maxProcesses
      BY <1>2, <3>1 DEF CanAssign
    <3>2. ASSUME room = {} PROVE Uncreated(f) # {}
      BY <1>0, <3>1, <3>2, NumberLeft
    <3>3. Uncreated(f) \subseteq Shards
      BY DEF Uncreated
    <3> QED BY <3>1, <3>2, <3>3, LeastShard
  <2>3. g = [f EXCEPT !.agents[a].shard = s, !.shards[s].backend = b, !.shards[s].tracked = TRUE,
                      !.shards[s].members = Append(@, a)]
    BY <1>2 DEF Acquire
  <2> HIDE DEF room, s, g
  <2>4. /\ s \in Shards /\ m \in Seq(Agents) /\ Len(m) < maxSessionsPerProcess
        /\ \/ f.shards[s].tracked /\ f.shards[s].backend = b
           \/ /\ f.shards[s].backend = "none" /\ ~f.shards[s].tracked
              /\ Cardinality(ShardList(f, b)) < maxProcesses
    <3>1. CASE room # {}
      BY <1>0, <2>1, <3>1 DEF room, WithRoom, ShardList, ShardRecords
    <3>2. CASE room = {}
      <4>1. s \in Shards /\ f.shards[s].backend = "none" /\ Cardinality(ShardList(f, b)) < maxProcesses
        BY <2>2, <3>2 DEF Uncreated
      <4>2. m = <<>> /\ ~f.shards[s].tracked
        BY <4>1 DEF Seats, ShardFits
      <4>3. Len(m) = 0 /\ m \in Seq(Agents)
        BY <4>2
      <4> QED BY <4>1, <4>2, <4>3, Limits
    <3> QED BY <3>1, <3>2
  <2>5. /\ g.agents = [f.agents EXCEPT ![a] = y] /\ g.shards = [f.shards EXCEPT ![s] = z]
        /\ g.turns = f.turns /\ g.queue = f.queue /\ g.recoveries = f.recoveries
        /\ g.active = f.active /\ g.exceeded = f.exceeded
        /\ g \in [agents : {g.agents}, shards : {g.shards}, turns : {f.turns}, queue : {f.queue},
                  active : {f.active}, exceeded : {f.exceeded}, recoveries : {f.recoveries}]
    BY <1>0, <2>3, <2>4, Zenon DEF Typed
  <2>6. /\ Append(m, a) \in Seq(Agents) /\ Len(Append(m, a)) = Len(m) + 1
        /\ Holds(Append(m, a), a) /\ (~Holds(m, a) => Once(Append(m, a), a))
        /\ \A c : c # a => /\ Holds(Append(m, a), c) <=> Holds(m, c)
                           /\ Once(m, c) => Once(Append(m, a), c)
    BY <2>4, AppendedMember
  <2> DEFINE n == Append(m, a)
  <2> HIDE DEF n
  <2>7. /\ z \in ShardRecords /\ z.backend = b /\ z.tracked = TRUE /\ z.members = n
        /\ z.mapped = f.shards[s].mapped
    <3>1. f.shards[s] \in ShardRecords
      BY <1>0, <2>4
    <3>2. z = [f.shards[s] EXCEPT !.backend = b, !.tracked = TRUE, !.members = n]
      BY DEF n
    <3>3. n \in Seq(Agents)
      BY <2>6 DEF n
    <3> HIDE DEF z
    <3> QED BY <1>0, <3>1, <3>2, <3>3, Zenon DEF ShardRecords
  <2>8. /\ y \in AgentRecords /\ y.shard = s /\ y.known = f.agents[a].known
        /\ y.status = f.agents[a].status /\ y.session = f.agents[a].session
    <3>1. f.agents[a] \in AgentRecords
      BY <1>0
    <3> QED BY <2>4, <3>1 DEF AgentRecords
  <2> HIDE DEF z, y, m
  <2>9. /\ g.agents \in [Agents -> AgentRecords] /\ g.shards \in [Shards -> ShardRecords]
        /\ g.agents[a] = y /\ \A c \in Agents : c # a => g.agents[c] = f.agents[c]
        /\ g.shards[s] = z /\ \A r \in Shards : r # s => g.shards[r] = f.shards[r]
    BY <1>0, <2>4, <2>5, <2>7, <2>8
  <2>10. Typed(g)
    BY <2>5, <2>9, Zenon DEF Typed
  <2>11. Seats(g)
    <3>1. ASSUME NEW c \in Backends PROVE Cardinality(ShardList(g, c)) <= maxProcesses
      <4>1. CASE f.shards[s].tracked /\ f.shards[s].backend = b
        <5>1. ShardList(g, c) = ShardList(f, c)
          BY <2>4, <2>7, <2>9, <4>1 DEF ShardList
        <5> QED BY <5>1 DEF Seats
      <4>2. CASE ~f.shards[s].tracked /\ Cardinality(ShardList(f, b)) < maxProcesses
        <5>1. CASE c # b
          <6>1. ShardList(g, c) = ShardList(f, c)
            BY <2>4, <2>7, <2>9, <4>2, <5>1 DEF ShardList
          <6> QED BY <6>1 DEF Seats
        <5>2. CASE c = b
          <6>1. ShardList(g, c) = ShardList(f, c) \union {s} /\ s \notin ShardList(f, c)
            BY <2>4, <2>7, <2>9, <4>2, <5>2 DEF ShardList
          <6>2. IsFiniteSet(ShardList(f, c)) /\ Cardinality(ShardList(f, c)) \in Nat
            BY ShardsFinite DEF ShardList
          <6>3. Cardinality(ShardList(g, c)) = Cardinality(ShardList(f, c)) + 1
            BY <6>1, <6>2, FS_AddElement, Zenon
          <6> QED BY <4>2, <5>2, <6>2, <6>3, Limits
        <5> QED BY <5>1, <5>2
      <4> QED BY <2>4, <4>1, <4>2
    <3>2. ASSUME NEW r \in Shards PROVE ShardFits(g, r)
      <4>1. CASE r = s
        <5>1. Len(n) <= maxSessionsPerProcess
          BY <2>4, <2>6, Limits DEF m, n
        <5> QED BY <1>0, <2>7, <2>9, <4>1, <5>1 DEF ShardFits
      <4>2. CASE r # s
        BY <2>9, <4>2 DEF Seats, ShardFits
      <4> QED BY <4>1, <4>2
    <3>3. ASSUME NEW c \in Agents, g.agents[c].known = "no" PROVE g.agents[c].shard = 0
      BY <2>8, <2>9, <3>3 DEF Seats
    <3>4. ASSUME NEW c \in Agents, NEW r \in Shards, g.agents[c].known # "gone" PROVE SeatOf(g, c, r)
      <4>1. f.agents[c].known # "gone" /\ SeatOf(f, c, r) /\ SeatOf(f, c, s)
        BY <2>4, <2>8, <2>9, <3>4 DEF Seats
      <4>2. CASE c = a
        <5>1. ~Holds(f.shards[r].members, a) /\ ~Holds(m, a)
          BY <1>0, <1>2, <2>4, <4>1, <4>2 DEF SeatOf, m
        <5>2. CASE r = s
          BY <2>6, <2>7, <2>8, <2>9, <4>2, <5>1, <5>2, Zenon DEF SeatOf, n
        <5>3. CASE r # s
          BY <2>8, <2>9, <4>1, <4>2, <5>1, <5>3 DEF SeatOf
        <5> QED BY <5>2, <5>3
      <4>3. CASE c # a
        <5>1. g.agents[c] = f.agents[c]
          BY <2>9, <4>3
        <5>2. CASE r # s
          BY <2>9, <4>1, <5>1, <5>2 DEF SeatOf
        <5>3. CASE r = s
          <6>1. (Holds(n, c) <=> Holds(m, c)) /\ (Once(m, c) => Once(n, c))
            BY <2>6, <4>3 DEF n
          <6>2. f.agents[c].shard = s => f.shards[s].tracked /\ f.shards[s].backend = b
            <7>1. BackendOf(c) # "none"
              BY DEF BackendOf
            <7> QED BY <2>4, <4>1, <7>1 DEF SeatOf
          <6> QED BY <2>7, <2>9, <4>1, <5>1, <5>3, <6>1, <6>2 DEF SeatOf, m
        <5> QED BY <5>2, <5>3
      <4> QED BY <4>2, <4>3
    <3> QED BY <3>1, <3>2, <3>3, <3>4 DEF Seats
  <2>12. Dead(g) = Dead(f)
    BY <1>0, <2>4, <2>7, <2>9 DEF Dead
  <2>13. Numbered(g, k)
    BY <2>12 DEF Numbered
  <2>14. \A r \in Shards : g.shards[r].mapped = f.shards[r].mapped /\ (r \in Dead(f) => g.shards[r] = f.shards[r])
    BY <1>0, <2>4, <2>7, <2>9 DEF Dead
  <2>15. ASSUME NEW c \in Agents, CanAssign(g, c) PROVE CanAssign(f, c)
    <3> DEFINE d == BackendOf(c)
    <3>1. d # "none"
      BY DEF BackendOf
    <3>2. CASE f.agents[c].shard # 0
      BY <3>2 DEF CanAssign
    <3>3. CASE c = a
      BY <3>3
    <3>4. CASE c # a /\ f.agents[c].shard = 0 /\ ~f.shards[s].tracked
      <4>1. CASE d = b
        BY <2>4, <3>4, <4>1 DEF CanAssign
      <4>2. CASE d # b
        <5> HIDE DEF d, b
        <5>1. ShardList(g, d) = ShardList(f, d)
          BY <2>4, <2>7, <2>9, <3>1, <3>4, <4>2, Zenon DEF ShardList
        <5>2. s \notin ShardList(f, d)
          BY <3>4 DEF ShardList
        <5>3. \A r \in ShardList(f, d) : g.shards[r] = f.shards[r]
          BY <2>9, <5>2 DEF ShardList
        <5>4. WithRoom(g, d) = WithRoom(f, d)
          BY <5>1, <5>3 DEF WithRoom
        <5> QED BY <2>9, <2>15, <3>4, <5>1, <5>4 DEF CanAssign, d
      <4> QED BY <4>1, <4>2
    <3>5. CASE c # a /\ f.agents[c].shard = 0 /\ f.shards[s].tracked
      <4> HIDE DEF d, b
      <4>1. f.shards[s].backend = b
        BY <2>4, <3>5
      <4>2. ShardList(g, d) = ShardList(f, d)
        BY <2>4, <2>7, <2>9, <3>5, <4>1 DEF ShardList
      <4>3. Len(z.members) = Len(f.shards[s].members) + 1 /\ Len(f.shards[s].members) \in Nat
        BY <2>4, <2>6, <2>7 DEF m, n
      <4>4. ASSUME NEW r \in WithRoom(g, d) PROVE r \in WithRoom(f, d)
        <5>1. r \in ShardList(f, d) /\ r \in Shards /\ Len(g.shards[r].members) < maxSessionsPerProcess
          BY <4>2 DEF WithRoom, ShardList
        <5>2. Len(f.shards[r].members) < maxSessionsPerProcess
          <6>1. CASE r = s
            BY <2>9, <4>3, <5>1, <6>1, Limits
          <6>2. CASE r # s
            BY <2>9, <5>1, <6>2
          <6> QED BY <6>1, <6>2
        <5> QED BY <5>1, <5>2 DEF WithRoom
      <4> QED BY <2>9, <2>15, <3>5, <4>2, <4>4 DEF CanAssign, d
    <3> QED BY <3>2, <3>3, <3>4, <3>5, <2>4, <1>0 DEF ShardRecords
  <2>16. Crowds(f, g)
    BY <2>15 DEF Crowds
  <2> QED BY <2>4, <2>5, <2>8, <2>9, <2>10, <2>11, <2>13, <2>14, <2>16 DEF g
<1> QED BY <1>1, <1>2
-----------------------------------------------------------------------------
(* What the fleet knows of sessions. A session x is that of the agent whose *)
(* turn x opened it.                                                        *)
Unopened == {"new", "queued", "taken", "starting", "opening", "stranded"}
Owns(f, a, x) == x # 0 => f.turns[x].agent = a /\ f.turns[x].phase \notin Unopened
Names(f) ==
    /\ \A t \in Turns : f.turns[t].phase # "new" => f.turns[t].agent \in Agents
    /\ \A i \in 1..Len(f.queue) : f.turns[f.queue[i]].agent \in Agents
    /\ \A a \in Agents : Owns(f, a, f.agents[a].session)
    /\ \A t \in Turns : Owns(f, f.turns[t].agent, f.turns[t].session)
    /\ \A r \in f.recoveries : Owns(f, r.agent, r.session)

(* What runs, or resumes, is mapped; no two turns run on one session.       *)
Mapped(f) ==
    /\ \A t \in Turns : f.turns[t].phase = "running" =>
          /\ f.turns[t].session # 0
          /\ f.agents[f.turns[t].agent].known # "gone" =>
                f.turns[t].session \in f.shards[f.turns[t].shard].mapped
    /\ \A r \in f.recoveries :
          r.phase = "resuming" /\ r.session # 0 /\ f.agents[r.agent].known # "gone" =>
             r.session \in f.shards[r.shard].mapped
Apart(f) ==
    \A t, u \in Turns : t # u /\ f.turns[t].phase = "running" /\ f.turns[u].phase = "running"
        => f.turns[t].shard # f.turns[u].shard \/ f.turns[t].session # f.turns[u].session

(* Who is recovering has a recovery under way.                              *)
Worked(f) ==
    \A a \in Agents : f.agents[a].status = "recovering" =>
        /\ f.agents[a].known # "no"
        /\ f.agents[a].known = "yes" => \E r \in f.recoveries : r.agent = a

Housed(f, k) == Typed(f) /\ Seats(f) /\ Numbered(f, k) /\ Names(f) /\ Mapped(f) /\ Apart(f)
Placed(f, k) == Housed(f, k) /\ Worked(f)

(* What leaves each part as it is. *)
KeepsSeats(f, g) ==
    /\ \A a \in Agents : g.agents[a].known = f.agents[a].known /\ g.agents[a].shard = f.agents[a].shard
    /\ \A s \in Shards : /\ g.shards[s].backend = f.shards[s].backend
                         /\ g.shards[s].tracked = f.shards[s].tracked
                         /\ g.shards[s].members = f.shards[s].members
KeepsNames(f, g) ==
    /\ \A t \in Turns : /\ g.turns[t].agent = f.turns[t].agent
                        /\ f.turns[t].phase \notin Unopened => g.turns[t].phase \notin Unopened
                        /\ g.turns[t].phase # "new" => f.turns[t].phase # "new"
                        /\ Owns(f, f.turns[t].agent, g.turns[t].session)
    /\ \A i \in 1..Len(g.queue) : \E j \in 1..Len(f.queue) : g.queue[i] = f.queue[j]
    /\ \A a \in Agents : Owns(f, a, g.agents[a].session)
    /\ \A r \in g.recoveries : Owns(f, r.agent, r.session)
KeepsRunning(f, g) ==
    \A t \in Turns : g.turns[t].phase = "running" =>
        /\ f.turns[t].phase = "running" /\ g.turns[t].agent = f.turns[t].agent
        /\ g.turns[t].shard = f.turns[t].shard /\ g.turns[t].session = f.turns[t].session
KeepsMapped(f, g) ==
    /\ \A a \in Agents : g.agents[a].known # "gone" => f.agents[a].known # "gone"
    /\ \A s \in Shards : f.shards[s].mapped \subseteq g.shards[s].mapped
    /\ \A r \in g.recoveries : r.phase = "resuming" => r \in f.recoveries
KeepsWorked(f, g) ==
    \A a \in Agents :
        /\ g.agents[a].known = f.agents[a].known
        /\ g.agents[a].status \in {f.agents[a].status, "unassigned", "ready", "lost", "retired"}
        /\ (\E r \in f.recoveries : r.agent = a) => \E r \in g.recoveries : r.agent = a

LEMMA SeatsKept ==
    ASSUME NEW f, NEW g, Seats(f), KeepsSeats(f, g), NEW k, Numbered(f, k)
    PROVE  Seats(g) /\ Numbered(g, k)
<1>1. \A b : ShardList(g, b) = ShardList(f, b)
  BY DEF KeepsSeats, ShardList
<1>2. Dead(g) = Dead(f)
  BY DEF KeepsSeats, Dead
<1>3. \A s \in Shards : ShardFits(g, s)
  BY DEF Seats, KeepsSeats, ShardFits
<1>4. ASSUME NEW a \in Agents, NEW s \in Shards, g.agents[a].known # "gone" PROVE SeatOf(g, a, s)
  <2>1. SeatOf(f, a, s)
    BY <1>4 DEF Seats, KeepsSeats
  <2> QED BY <2>1 DEF KeepsSeats, SeatOf
<1>5. \A a \in Agents : g.agents[a].known = "no" => g.agents[a].shard = 0
  BY DEF Seats, KeepsSeats
<1>6. Numbered(g, k)
  BY <1>2 DEF Numbered
<1>7. \A b \in Backends : Cardinality(ShardList(g, b)) <= maxProcesses
  BY <1>1 DEF Seats
<1> QED BY <1>3, <1>4, <1>5, <1>6, <1>7 DEF Seats

LEMMA NamesKept ==
    ASSUME NEW f, NEW g, Typed(f), Typed(g), Names(f), KeepsNames(f, g)
    PROVE  Names(g)
<1>0. /\ \A t \in Turns : /\ g.turns[t].agent = f.turns[t].agent
                          /\ f.turns[t].phase \notin Unopened => g.turns[t].phase \notin Unopened
                          /\ g.turns[t].phase # "new" => f.turns[t].phase # "new"
                          /\ Owns(f, f.turns[t].agent, g.turns[t].session)
      /\ \A a \in Agents : Owns(f, a, g.agents[a].session)
      /\ \A r \in g.recoveries : Owns(f, r.agent, r.session)
  BY DEF KeepsNames
<1>1. ASSUME NEW a, NEW x \in Sessions, Owns(f, a, x) PROVE Owns(g, a, x)
  <2>1. CASE x = 0
    BY <2>1 DEF Owns
  <2>2. CASE x # 0
    <3>1. x \in Turns
      BY <2>2, LimitsAssumption DEF Sessions, Turns
    <3>2. f.turns[x].agent = a /\ f.turns[x].phase \notin Unopened
      BY <1>1, <2>2 DEF Owns
    <3>3. g.turns[x].agent = a /\ g.turns[x].phase \notin Unopened
      BY <1>0, <3>1, <3>2
    <3> QED BY <3>3 DEF Owns
  <2> QED BY <2>1, <2>2
<1>2. /\ \A a \in Agents : g.agents[a].session \in Sessions
      /\ \A t \in Turns : g.turns[t].session \in Sessions
      /\ \A r \in g.recoveries : r.session \in Sessions
  BY DEF Typed, AgentRecords, TurnRecords, Recoveries
<1>3. \A a \in Agents : Owns(g, a, g.agents[a].session)
  BY <1>0, <1>1, <1>2
<1>4. ASSUME NEW t \in Turns PROVE Owns(g, g.turns[t].agent, g.turns[t].session)
  <2>1. Owns(g, f.turns[t].agent, g.turns[t].session)
    BY <1>0, <1>1, <1>2
  <2> QED BY <1>0, <2>1
<1>5. \A r \in g.recoveries : Owns(g, r.agent, r.session)
  BY <1>0, <1>1, <1>2
<1>6. ASSUME NEW i \in 1..Len(g.queue) PROVE g.turns[g.queue[i]].agent \in Agents
  <2>1. PICK j \in 1..Len(f.queue) : g.queue[i] = f.queue[j]
    BY DEF KeepsNames
  <2>2. f.queue[j] \in Turns /\ f.turns[f.queue[j]].agent \in Agents
    BY DEF Typed, Names
  <2> QED BY <1>0, <2>1, <2>2
<1>7. ASSUME NEW t \in Turns, g.turns[t].phase # "new" PROVE g.turns[t].agent \in Agents
  <2>1. f.turns[t].phase # "new"
    BY <1>0, <1>7
  <2>2. f.turns[t].agent \in Agents
    BY <2>1 DEF Names
  <2> QED BY <1>0, <2>2
<1> QED BY <1>3, <1>4, <1>5, <1>6, <1>7 DEF Names

LEMMA MappedKept ==
    ASSUME NEW f, NEW g, Typed(f), Typed(g), Names(f), Mapped(f), KeepsRunning(f, g), KeepsMapped(f, g)
    PROVE  Mapped(g)
<1>1. ASSUME NEW t \in Turns, g.turns[t].phase = "running"
      PROVE  /\ g.turns[t].session # 0
             /\ g.agents[g.turns[t].agent].known # "gone" =>
                   g.turns[t].session \in g.shards[g.turns[t].shard].mapped
  <2>1. /\ f.turns[t].phase = "running" /\ g.turns[t].agent = f.turns[t].agent
        /\ g.turns[t].shard = f.turns[t].shard /\ g.turns[t].session = f.turns[t].session
    BY <1>1 DEF KeepsRunning
  <2>2. f.turns[t].agent \in Agents /\ f.turns[t].shard \in Shards
    BY <2>1 DEF Names, Typed, TurnRecords, Sharded, InFlightPhases
  <2> QED BY <2>1, <2>2 DEF Mapped, KeepsMapped
<1>2. ASSUME NEW r \in g.recoveries, r.phase = "resuming", r.session # 0, g.agents[r.agent].known # "gone"
      PROVE  r.session \in g.shards[r.shard].mapped
  <2>1. r.agent \in Agents /\ r.shard \in Shards
    BY DEF Typed, Recoveries
  <2> QED BY <1>2, <2>1 DEF Mapped, KeepsMapped
<1> QED BY <1>1, <1>2 DEF Mapped

LEMMA ApartKept ==
    ASSUME NEW f, NEW g, Apart(f), KeepsRunning(f, g)
    PROVE  Apart(g)
BY DEF Apart, KeepsRunning

LEMMA WorkedKept ==
    ASSUME NEW f, NEW g, Worked(f), KeepsWorked(f, g)
    PROVE  Worked(g)
BY DEF Worked, KeepsWorked

(* What a handler leaves alone, when it does nothing of note.               *)
Frame(f, g) ==
    /\ KeepsSeats(f, g) /\ KeepsNames(f, g) /\ KeepsRunning(f, g)
    /\ KeepsMapped(f, g) /\ KeepsWorked(f, g)

LEMMA FramePlaced ==
    ASSUME NEW f, NEW g, NEW k, Placed(f, k), Typed(g), Frame(f, g)
    PROVE  Placed(g, k)
BY SeatsKept, NamesKept, MappedKept, ApartKept, WorkedKept DEF Placed, Housed, Frame

LEMMA FrameHoused ==
    ASSUME NEW f, NEW g, NEW k, Housed(f, k), Typed(g),
           KeepsSeats(f, g), KeepsNames(f, g), KeepsRunning(f, g), KeepsMapped(f, g)
    PROVE  Housed(g, k)
BY SeatsKept, NamesKept, MappedKept, ApartKept DEF Housed

IsFleet(g) ==
    g \in [agents : {g.agents}, shards : {g.shards}, turns : {g.turns}, queue : {g.queue},
           active : {g.active}, exceeded : {g.exceeded}, recoveries : {g.recoveries}]

LEMMA HousedIsTyped ==
    ASSUME NEW f, NEW k, Housed(f, k)
    PROVE  /\ IsFleet(f) /\ f.agents \in [Agents -> AgentRecords] /\ f.shards \in [Shards -> ShardRecords]
           /\ f.turns \in [Turns -> TurnRecords] /\ f.queue \in Seq(Turns)
           /\ f.exceeded \in BOOLEAN /\ f.recoveries \subseteq Recoveries
           /\ \A t \in Turns : f.turns[t].phase \in Sharded => f.turns[t].shard # 0
BY DEF Housed, Typed, IsFleet

LEMMA PlacedIsTyped ==
    ASSUME NEW f, NEW k, Placed(f, k)
    PROVE  /\ IsFleet(f) /\ f.agents \in [Agents -> AgentRecords] /\ f.shards \in [Shards -> ShardRecords]
           /\ f.turns \in [Turns -> TurnRecords] /\ f.queue \in Seq(Turns)
           /\ f.exceeded \in BOOLEAN /\ f.recoveries \subseteq Recoveries
           /\ \A t \in Turns : f.turns[t].phase \in Sharded => f.turns[t].shard # 0
BY HousedIsTyped DEF Placed

LEMMA TypedAgain ==
    ASSUME NEW g, IsFleet(g), g.agents \in [Agents -> AgentRecords], g.shards \in [Shards -> ShardRecords],
           g.turns \in [Turns -> TurnRecords], g.queue \in Seq(Turns),
           g.exceeded \in BOOLEAN, g.recoveries \subseteq Recoveries,
           \A t \in Turns : g.turns[t].phase \in Sharded => g.turns[t].shard # 0
    PROVE  Typed(g)
BY DEF Typed, IsFleet

(* One turn changes, and does not start to run by that.                     *)
LEMMA TurnHoused ==
    ASSUME NEW f, NEW g, NEW k, NEW t \in Turns, NEW z \in TurnRecords, Housed(f, k), IsFleet(g),
           g.turns = [f.turns EXCEPT ![t] = z], g.agents = f.agents, g.shards = f.shards,
           g.queue = f.queue, g.exceeded = f.exceeded, g.recoveries = f.recoveries,
           z.agent = f.turns[t].agent, f.turns[t].phase # "new", z.phase # "running",
           f.turns[t].phase \notin Unopened => z.phase \notin Unopened,
           z.phase \in Sharded => z.shard # 0, Owns(f, z.agent, z.session)
    PROVE  Housed(g, k) /\ (Worked(f) => Worked(g))
<1>1. /\ g.turns \in [Turns -> TurnRecords] /\ g.turns[t] = z
      /\ \A u \in Turns : u # t => g.turns[u] = f.turns[u]
  BY HousedIsTyped
<1>2. Typed(g)
  <2>1. \A u \in Turns : g.turns[u].phase \in Sharded => g.turns[u].shard # 0
    BY <1>1, HousedIsTyped
  <2> QED BY <1>1, <2>1, HousedIsTyped, TypedAgain, Zenon
<1>3. KeepsSeats(f, g) /\ KeepsMapped(f, g)
  BY DEF KeepsSeats, KeepsMapped
<1>4. KeepsRunning(f, g)
  BY <1>1 DEF KeepsRunning
<1>5. KeepsNames(f, g)
  <2>1. ASSUME NEW u \in Turns
        PROVE  /\ g.turns[u].agent = f.turns[u].agent
               /\ f.turns[u].phase \notin Unopened => g.turns[u].phase \notin Unopened
               /\ g.turns[u].phase # "new" => f.turns[u].phase # "new"
               /\ Owns(f, f.turns[u].agent, g.turns[u].session)
    <3>1. CASE u = t
      BY <1>1, <3>1
    <3>2. CASE u # t
      BY <1>1, <3>2 DEF Housed, Names
    <3> QED BY <3>1, <3>2
  <2>2. \A a \in Agents : Owns(f, a, g.agents[a].session)
    BY DEF Housed, Names
  <2>3. \A r \in g.recoveries : Owns(f, r.agent, r.session)
    BY DEF Housed, Names
  <2> QED BY <2>1, <2>2, <2>3 DEF KeepsNames
<1>6. Worked(f) => Worked(g)
  BY DEF Worked
<1> QED BY <1>2, <1>3, <1>4, <1>5, <1>6, FrameHoused

(* Whatever differs, the turns, the queue and the recoveries do not.        *)
LEMMA SameNames ==
    ASSUME NEW f, NEW g, Names(f), g.turns = f.turns, g.queue = f.queue, g.recoveries \subseteq f.recoveries,
           \A a \in Agents : Owns(f, a, g.agents[a].session)
    PROVE  KeepsNames(f, g) /\ KeepsRunning(f, g)
<1>1. \A t \in Turns : Owns(f, f.turns[t].agent, g.turns[t].session)
  BY DEF Names
<1>2. \A r \in g.recoveries : Owns(f, r.agent, r.session)
  BY DEF Names
<1> QED BY <1>1, <1>2 DEF KeepsNames, KeepsRunning

(* One shard changes, but for its backend, its members and who is mapped.   *)
LEMMA ShardHoused ==
    ASSUME NEW f, NEW g, NEW k, NEW s \in Shards, NEW z \in ShardRecords, Housed(f, k), IsFleet(g),
           g.shards = [f.shards EXCEPT ![s] = z], g.turns = f.turns, g.agents = f.agents,
           g.queue = f.queue, g.exceeded = f.exceeded, g.recoveries = f.recoveries,
           z.backend = f.shards[s].backend, z.tracked = f.shards[s].tracked,
           z.members = f.shards[s].members, f.shards[s].mapped \subseteq z.mapped
    PROVE  Housed(g, k) /\ (Worked(f) => Worked(g))
<1>1. /\ g.shards \in [Shards -> ShardRecords] /\ g.shards[s] = z
      /\ \A r \in Shards : r # s => g.shards[r] = f.shards[r]
  BY HousedIsTyped
<1>2. Typed(g)
  BY <1>1, HousedIsTyped, TypedAgain
<1>3. KeepsSeats(f, g)
  BY <1>1 DEF KeepsSeats
<1>4. KeepsMapped(f, g) /\ (Worked(f) => Worked(g))
  BY <1>1 DEF KeepsMapped, Worked
<1>5. \A a \in Agents : Owns(f, a, g.agents[a].session)
  BY DEF Housed, Names
<1> QED BY <1>2, <1>3, <1>4, <1>5, SameNames, FrameHoused DEF Housed

(* One agent changes, but for its shard.                                    *)
LEMMA AgentPlaced ==
    ASSUME NEW f, NEW g, NEW k, NEW a \in Agents, NEW y \in AgentRecords, Placed(f, k), IsFleet(g),
           g.agents = [f.agents EXCEPT ![a] = y], g.turns = f.turns, g.shards = f.shards,
           g.queue = f.queue, g.exceeded = f.exceeded, g.recoveries = f.recoveries,
           y.known = f.agents[a].known, y.shard = f.agents[a].shard, Owns(f, a, y.session),
           y.status \in {f.agents[a].status, "ready", "lost", "retired"}
    PROVE  Placed(g, k)
<1>1. /\ g.agents \in [Agents -> AgentRecords] /\ g.agents[a] = y
      /\ \A c \in Agents : c # a => g.agents[c] = f.agents[c]
  BY PlacedIsTyped
<1>2. Typed(g)
  BY <1>1, PlacedIsTyped, TypedAgain
<1>3. KeepsSeats(f, g) /\ KeepsMapped(f, g) /\ KeepsWorked(f, g)
  BY <1>1 DEF KeepsSeats, KeepsMapped, KeepsWorked
<1>4. ASSUME NEW c \in Agents PROVE Owns(f, c, g.agents[c].session)
  BY <1>1 DEF Placed, Housed, Names
<1> QED BY <1>2, <1>3, <1>4, SameNames, FramePlaced, Zenon DEF Frame, Placed, Housed
-----------------------------------------------------------------------------
(* Admission.                                                               *)
LEMMA AcquireHoused ==
    ASSUME NEW f, NEW k, Housed(f, k), NEW a \in Agents, f.agents[a].known = "yes", CanAssign(f, a)
    PROVE  LET g == Acquire(f, a)
           IN /\ Housed(g, k) /\ g.agents[a].shard \in Shards
              /\ g.turns = f.turns /\ g.queue = f.queue /\ g.recoveries = f.recoveries
              /\ g.active = f.active /\ g.exceeded = f.exceeded
              /\ \A c \in Agents : /\ c # a => g.agents[c] = f.agents[c]
                                   /\ g.agents[c].known = f.agents[c].known
                                   /\ g.agents[c].status = f.agents[c].status
                                   /\ g.agents[c].session = f.agents[c].session
              /\ \A r \in Dead(f) : g.shards[r] = f.shards[r]
              /\ Crowds(f, g)
<1> DEFINE g == Acquire(f, a)
<1>1. Typed(f) /\ Seats(f) /\ k \in 0..Room /\ Numbered(f, k) /\ Names(f) /\ Mapped(f) /\ Apart(f)
  BY DEF Housed, Numbered
<1>2. /\ Typed(g) /\ Seats(g) /\ Numbered(g, k)
      /\ g.agents[a].shard \in Shards
      /\ g.turns = f.turns /\ g.queue = f.queue /\ g.recoveries = f.recoveries
      /\ g.active = f.active /\ g.exceeded = f.exceeded
      /\ \A c \in Agents :
            /\ c # a => g.agents[c] = f.agents[c]
            /\ g.agents[c].known = f.agents[c].known /\ g.agents[c].status = f.agents[c].status
            /\ g.agents[c].session = f.agents[c].session
      /\ \A r \in Shards : /\ g.shards[r].mapped = f.shards[r].mapped
                           /\ r \in Dead(f) => g.shards[r] = f.shards[r]
      /\ Crowds(f, g)
  BY <1>1, AcquireSeats
<1> HIDE DEF g
<1>3. \A c \in Agents : Owns(f, c, g.agents[c].session)
  BY <1>1, <1>2 DEF Names
<1>4. KeepsNames(f, g) /\ KeepsRunning(f, g)
  BY <1>1, <1>2, <1>3, SameNames
<1>5. KeepsMapped(f, g)
  BY <1>2 DEF KeepsMapped
<1>6. Housed(g, k)
  BY <1>1, <1>2, <1>4, <1>5, NamesKept, MappedKept, ApartKept DEF Housed
<1>7. \A r \in Dead(f) : g.shards[r] = f.shards[r]
  BY <1>2 DEF Dead
<1> QED BY <1>2, <1>6, <1>7 DEF g

LEMMA StartEffect ==
    ASSUME NEW f, NEW s \in Shards, IsFleet(f), f.shards \in [Shards -> ShardRecords]
    PROVE  LET g == Start(f, s)
           IN /\ IsFleet(g) /\ g.agents = f.agents /\ g.turns = f.turns /\ g.queue = f.queue
              /\ g.active = f.active /\ g.exceeded = f.exceeded /\ g.recoveries = f.recoveries
              /\ \E z \in ShardRecords :
                    /\ g.shards = [f.shards EXCEPT ![s] = z]
                    /\ z.backend = f.shards[s].backend /\ z.tracked = f.shards[s].tracked
                    /\ z.members = f.shards[s].members /\ z.mapped = f.shards[s].mapped
<1> DEFINE g == Start(f, s)
           x == f.shards[s]
           z == [x EXCEPT !.proc = IF @ = "idle" THEN "starting" ELSE @]
<1>1. /\ IsFleet(g) /\ g.agents = f.agents /\ g.turns = f.turns /\ g.queue = f.queue
      /\ g.active = f.active /\ g.exceeded = f.exceeded /\ g.recoveries = f.recoveries
      /\ g.shards = [f.shards EXCEPT ![s] = z]
  BY DEF Start, IsFleet
<1>2. x \in ShardRecords
  OBVIOUS
<1> HIDE DEF g, x
<1>3. /\ z \in ShardRecords /\ z.backend = x.backend /\ z.tracked = x.tracked
      /\ z.members = x.members /\ z.mapped = x.mapped
  BY <1>2 DEF ShardRecords
<1> HIDE DEF z
<1> QED BY <1>1, <1>3, Zenon DEF g, x

LEMMA StartHoused ==
    ASSUME NEW f, NEW k, Housed(f, k), NEW s \in Shards
    PROVE  /\ Housed(Start(f, s), k) /\ (Worked(f) => Worked(Start(f, s)))
           /\ \A r \in Shards : /\ Start(f, s).shards[r].backend = f.shards[r].backend
                               /\ Start(f, s).shards[r].tracked = f.shards[r].tracked
                               /\ Start(f, s).shards[r].members = f.shards[r].members
<1> DEFINE g == Start(f, s)
<1>1. /\ IsFleet(g) /\ g.agents = f.agents /\ g.turns = f.turns /\ g.queue = f.queue
      /\ g.exceeded = f.exceeded /\ g.recoveries = f.recoveries
      /\ \E z \in ShardRecords :
            /\ g.shards = [f.shards EXCEPT ![s] = z]
            /\ z.backend = f.shards[s].backend /\ z.tracked = f.shards[s].tracked
            /\ z.members = f.shards[s].members /\ z.mapped = f.shards[s].mapped
  BY HousedIsTyped, StartEffect, Zenon
<1> HIDE DEF g
<1>2. PICK z \in ShardRecords :
            /\ g.shards = [f.shards EXCEPT ![s] = z]
            /\ z.backend = f.shards[s].backend /\ z.tracked = f.shards[s].tracked
            /\ z.members = f.shards[s].members /\ z.mapped = f.shards[s].mapped
  BY <1>1
<1>3. Housed(g, k) /\ (Worked(f) => Worked(g))
  BY <1>1, <1>2, ShardHoused, Zenon
<1>4. \A r \in Shards : g.shards[r] = IF r = s THEN z ELSE f.shards[r]
  BY <1>2, HousedIsTyped
<1>5. \A r \in Shards : /\ g.shards[r].backend = f.shards[r].backend
                        /\ g.shards[r].tracked = f.shards[r].tracked
                        /\ g.shards[r].members = f.shards[r].members
  BY <1>2, <1>4
<1> QED BY <1>3, <1>5 DEF g

-----------------------------------------------------------------------------
(* Admission. A drain, and what listeners call in it, fills places: it puts *)
(* agents without a shard on one, and otherwise changes neither agents nor  *)
(* recoveries, nor turns that were admitted before.                         *)
Fills(f, g) ==
    /\ g.recoveries = f.recoveries
    /\ \A c \in Agents :
          /\ g.agents[c].known = f.agents[c].known /\ g.agents[c].status = f.agents[c].status
          /\ g.agents[c].session = f.agents[c].session
          /\ f.agents[c].shard # 0 \/ f.agents[c].status \in {"lost", "recovering"}
                => g.agents[c].shard = f.agents[c].shard
    /\ \A r \in Dead(f) : r \in Dead(g) /\ g.shards[r].members = f.shards[r].members
    /\ \A t \in Turns : f.turns[t].phase \notin {"new", "queued", "taken"} => g.turns[t] = f.turns[t]
Grows(f, g, k) == Housed(g, k) /\ Ledger(g) /\ Fills(f, g)

LEMMA FillsSame == ASSUME NEW f PROVE Fills(f, f)
BY DEF Fills

LEMMA FillsOn ==
    ASSUME NEW f, NEW g, NEW h, Fills(f, g), Fills(g, h)
    PROVE  Fills(f, h)
<1>1. /\ h.recoveries = f.recoveries
      /\ \A r \in Dead(f) : r \in Dead(h) /\ h.shards[r].members = f.shards[r].members
  BY DEF Fills
<1>2. \A t \in Turns : f.turns[t].phase \notin {"new", "queued", "taken"} => h.turns[t] = f.turns[t]
  BY DEF Fills
<1>3. ASSUME NEW c \in Agents
      PROVE  /\ h.agents[c].known = f.agents[c].known /\ h.agents[c].status = f.agents[c].status
             /\ h.agents[c].session = f.agents[c].session
             /\ f.agents[c].shard # 0 \/ f.agents[c].status \in {"lost", "recovering"}
                   => h.agents[c].shard = f.agents[c].shard
  BY DEF Fills
<1> QED BY <1>1, <1>2, <1>3 DEF Fills

LEMMA GrowsOn ==
    ASSUME NEW f, NEW g, NEW h, NEW k, Grows(f, g, k), Grows(g, h, k)
    PROVE  Grows(f, h, k)
BY FillsOn DEF Grows

LEMMA FilledWorks ==
    ASSUME NEW f, NEW g, Worked(f), Fills(f, g)
    PROVE  Worked(g)
BY DEF Worked, Fills

(* An entry is taken out of the queue.                                      *)
LEMMA TakeHoused ==
    ASSUME NEW f, NEW k, Housed(f, k), Ledger(f), NEW i \in 1..Len(f.queue)
    PROVE  Grows(f, Take(f, i), k)
<1> DEFINE t == f.queue[i]
           z == [f.turns[t] EXCEPT !.phase = "taken"]
           h == Take(f, i)
<1>1. Ledger(h) /\ t \in Turns /\ f.turns[t].phase = "queued"
  BY TakeKeepsLedger
<1>2. /\ IsFleet(f) /\ f.turns \in [Turns -> TurnRecords] /\ f.queue \in Seq(Turns)
  BY HousedIsTyped
<1> HIDE DEF t
<1>3. /\ IsFleet(h) /\ h.queue = RemoveAt(f.queue, i) /\ h.turns = [f.turns EXCEPT ![t] = z]
      /\ h.agents = f.agents /\ h.shards = f.shards /\ h.recoveries = f.recoveries /\ h.exceeded = f.exceeded
  BY <1>2, Zenon DEF Take, IsFleet, t
<1>4. /\ z \in TurnRecords /\ z.agent = f.turns[t].agent /\ z.phase = "taken"
      /\ z.session = f.turns[t].session
  <2>1. f.turns[t] \in TurnRecords
    BY <1>1, <1>2
  <2> QED BY <2>1, Zenon DEF TurnRecords, Phases
<1> HIDE DEF h, z
<1>5. /\ h.turns \in [Turns -> TurnRecords] /\ h.turns[t] = z
      /\ \A u \in Turns : u # t => h.turns[u] = f.turns[u]
  BY <1>1, <1>2, <1>3, <1>4
<1>6. /\ h.queue \in Seq(Turns) /\ Len(h.queue) = Len(f.queue) - 1
      /\ \A j \in 1..Len(h.queue) : h.queue[j] = IF j < i THEN f.queue[j] ELSE f.queue[j + 1]
  <2>1. /\ RemoveAt(f.queue, i) \in Seq(Turns) /\ Len(RemoveAt(f.queue, i)) = Len(f.queue) - 1
        /\ \A j \in 1..(Len(f.queue) - 1) :
              RemoveAt(f.queue, i)[j] = IF j < i THEN f.queue[j] ELSE f.queue[j + 1]
    BY <1>2, RemovedAt, Zenon
  <2> QED BY <1>3, <2>1
<1>7. Typed(h)
  <2>1. ASSUME NEW u \in Turns, h.turns[u].phase \in Sharded PROVE h.turns[u].shard # 0
    <3>1. u # t
      BY <1>4, <1>5, <2>1 DEF Sharded, InFlightPhases
    <3> QED BY <1>5, <2>1, <3>1, HousedIsTyped
  <2> QED BY <1>3, <1>5, <1>6, <2>1, HousedIsTyped, TypedAgain, Zenon
<1>8. KeepsNames(f, h)
  <2>1. ASSUME NEW u \in Turns
        PROVE  /\ h.turns[u].agent = f.turns[u].agent
               /\ f.turns[u].phase \notin Unopened => h.turns[u].phase \notin Unopened
               /\ h.turns[u].phase # "new" => f.turns[u].phase # "new"
               /\ Owns(f, f.turns[u].agent, h.turns[u].session)
    <3>1. Owns(f, f.turns[u].agent, f.turns[u].session)
      BY DEF Housed, Names
    <3>2. CASE u = t
      BY <1>1, <1>4, <1>5, <3>1, <3>2 DEF Unopened
    <3>3. CASE u # t
      BY <1>5, <3>1, <3>3
    <3> QED BY <3>2, <3>3
  <2>2. \A c \in Agents : Owns(f, c, h.agents[c].session)
    BY <1>3 DEF Housed, Names
  <2>3. \A r \in h.recoveries : Owns(f, r.agent, r.session)
    BY <1>3 DEF Housed, Names
  <2>4. ASSUME NEW j \in 1..Len(h.queue) PROVE \E l \in 1..Len(f.queue) : h.queue[j] = f.queue[l]
    <3>1. Len(f.queue) \in Nat /\ i \in Nat
      BY <1>2
    <3>2. j \in 1..Len(f.queue) /\ j + 1 \in 1..Len(f.queue)
      BY <1>6, <3>1
    <3> QED BY <1>6, <3>2
  <2> QED BY <2>1, <2>2, <2>3, <2>4 DEF KeepsNames
<1>9. KeepsSeats(f, h) /\ KeepsMapped(f, h)
  BY <1>3 DEF KeepsSeats, KeepsMapped
<1>10. KeepsRunning(f, h)
  BY <1>4, <1>5 DEF KeepsRunning
<1>11. Housed(h, k)
  BY <1>7, <1>8, <1>9, <1>10, FrameHoused
<1>12. Fills(f, h)
  <2>1. \A u \in Turns : f.turns[u].phase \notin {"new", "queued", "taken"} => h.turns[u] = f.turns[u]
    BY <1>1, <1>5
  <2> QED BY <1>3, <2>1 DEF Fills, Dead
<1> QED BY <1>1, <1>11, <1>12 DEF Grows, h

LEMMA TakenAgent ==
    ASSUME NEW f, Shapes(f), NEW i \in 1..Len(f.queue), f.queue[i] \in Turns
    PROVE  Take(f, i).turns[f.queue[i]].agent = f.turns[f.queue[i]].agent
<1> DEFINE t == f.queue[i]
           z == [f.turns[t] EXCEPT !.phase = "taken"]
<1>1. /\ f = [q \in DOMAIN f |-> f[q]] /\ {"queue", "turns"} \subseteq DOMAIN f
      /\ t \in Turns /\ TurnShape(f.turns[t]) /\ f.turns = [u \in Turns |-> f.turns[u]]
  BY DEF Shapes, FleetShape
<1>2. Take(f, i).turns = [f.turns EXCEPT ![t] = z]
  BY <1>1 DEF Take
<1>3. z.agent = f.turns[t].agent
  BY <1>1 DEF TurnShape
<1> HIDE DEF z, t
<1>4. Take(f, i).turns[t] = z
  BY <1>1, <1>2
<1> QED BY <1>3, <1>4 DEF t

(* #admit() gives its agent a shard, or throws because there is none.       *)
LEMMA AdmitHoused ==
    ASSUME NEW f, NEW k, Housed(f, k), NEW t \in Turns, f.turns[t].phase = "taken", f.turns[t].agent \in Agents,
           f.agents[f.turns[t].agent].known = "yes",
           f.agents[f.turns[t].agent].status \notin {"lost", "recovering"}
    PROVE  Housed(Admit(f, t), k) /\ Fills(f, Admit(f, t))
<1> DEFINE a == f.turns[t].agent
           g == Acquire(f, a)
           s == g.agents[a].shard
           x == f.turns[t]
<1>1. x \in TurnRecords /\ Owns(f, a, x.session) /\ IsFleet(f) /\ f.turns \in [Turns -> TurnRecords]
  BY HousedIsTyped DEF Housed, Names
<1>2. CASE HasShard(f, a)
  <2> DEFINE z == [x EXCEPT !.phase = "starting", !.shard = s]
             h == [g EXCEPT !.active = @ + 1, !.turns[t].phase = "starting", !.turns[t].shard = s]
  <2>1. CanAssign(f, a)
    BY <1>2 DEF HasShard, CanAssign
  <2>2. /\ Housed(g, k) /\ s \in Shards
        /\ g.turns = f.turns /\ g.queue = f.queue /\ g.recoveries = f.recoveries
        /\ \A c \in Agents : /\ c # a => g.agents[c] = f.agents[c]
                             /\ g.agents[c].known = f.agents[c].known
                             /\ g.agents[c].status = f.agents[c].status
                             /\ g.agents[c].session = f.agents[c].session
        /\ \A r \in Dead(f) : g.shards[r] = f.shards[r]
    BY <2>1, AcquireHoused, ZenonT(60)
  <2>3. f.agents[a].shard # 0 => g = f
    BY DEF Acquire
  <2>4. Admit(f, t) = Start(h, s)
    BY <1>2, Zenon DEF Admit
  <2> HIDE DEF g, s
  <2>5. /\ IsFleet(h) /\ h.queue = g.queue /\ h.turns = [g.turns EXCEPT ![t] = z]
        /\ h.agents = g.agents /\ h.shards = g.shards /\ h.recoveries = g.recoveries /\ h.exceeded = g.exceeded
    <3>1. IsFleet(g) /\ g.turns \in [Turns -> TurnRecords] /\ g.turns = f.turns
      BY <2>2, HousedIsTyped
    <3> QED BY <3>1, Zenon DEF IsFleet
  <2>6. /\ z \in TurnRecords /\ z.agent = a /\ z.phase = "starting" /\ z.shard = s /\ z.session = x.session
    BY <1>1, <2>2, Zenon DEF TurnRecords, Phases, InFlightPhases
  <2> HIDE DEF h, z
  <2>7. Owns(g, z.agent, z.session)
    BY <1>1, <2>2, <2>6 DEF Owns
  <2>8. z.shard # 0
    BY <2>2, <2>6, ShardsFinite
  <2>9. g.turns[t].phase = "taken" /\ g.turns[t].agent = a
    BY <2>2
  <2>10. z.agent = g.turns[t].agent /\ g.turns[t].phase # "new" /\ z.phase # "running"
         /\ (g.turns[t].phase \notin Unopened => z.phase \notin Unopened)
    BY <2>6, <2>9 DEF Unopened
  <2>11. Housed(h, k)
    BY <2>2, <2>5, <2>6, <2>7, <2>8, <2>10, TurnHoused, Zenon
  <2>12. /\ Housed(Start(h, s), k)
         /\ \A r \in Shards : /\ Start(h, s).shards[r].backend = h.shards[r].backend
                              /\ Start(h, s).shards[r].tracked = h.shards[r].tracked
                              /\ Start(h, s).shards[r].members = h.shards[r].members
    BY <2>2, <2>11, StartHoused
  <2>13. /\ Start(h, s).agents = h.agents /\ Start(h, s).turns = h.turns
         /\ Start(h, s).recoveries = h.recoveries
    BY <2>2, <2>11, HousedIsTyped, StartEffect
  <2> DEFINE m == Start(h, s)
  <2> HIDE DEF m
  <2>14. ASSUME NEW r \in Dead(f) PROVE r \in Dead(m) /\ m.shards[r].members = f.shards[r].members
    <3>1. r \in Shards /\ g.shards[r] = f.shards[r] /\ h.shards[r] = g.shards[r]
      BY <2>2, <2>5 DEF Dead
    <3> QED BY <2>12, <3>1 DEF Dead, m
  <2>15. ASSUME NEW c \in Agents
         PROVE  /\ m.agents[c].known = f.agents[c].known /\ m.agents[c].status = f.agents[c].status
                /\ m.agents[c].session = f.agents[c].session
                /\ f.agents[c].shard # 0 \/ f.agents[c].status \in {"lost", "recovering"}
                      => m.agents[c].shard = f.agents[c].shard
    <3>1. m.agents = g.agents
      BY <2>5, <2>13 DEF m
    <3>2. CASE c = a
      BY <2>2, <2>3, <3>1, <3>2
    <3>3. CASE c # a
      BY <2>2, <3>1, <3>3
    <3> QED BY <3>2, <3>3
  <2>16. \A u \in Turns : f.turns[u].phase \notin {"new", "queued", "taken"} => m.turns[u] = f.turns[u]
    BY <1>1, <2>2, <2>5, <2>13 DEF m
  <2>17. Fills(f, m)
    BY <2>2, <2>5, <2>13, <2>14, <2>15, <2>16 DEF Fills, m
  <2> QED BY <2>4, <2>12, <2>17 DEF m
<1>3. CASE ~HasShard(f, a)
  <2> DEFINE h == [f EXCEPT !.active = @ + 1, !.turns[t].phase = "stranded"]
             z == [x EXCEPT !.phase = "stranded"]
  <2>1. Admit(f, t) = h
    BY <1>3, Zenon DEF Admit
  <2>2. /\ IsFleet(h) /\ h.queue = f.queue /\ h.turns = [f.turns EXCEPT ![t] = z]
        /\ h.agents = f.agents /\ h.shards = f.shards /\ h.recoveries = f.recoveries /\ h.exceeded = f.exceeded
    BY <1>1, Zenon DEF IsFleet
  <2> HIDE DEF h, x
  <2>3. z \in TurnRecords /\ z.agent = x.agent /\ z.phase = "stranded" /\ z.session = x.session
    BY <1>1, Zenon DEF TurnRecords, Phases, InFlightPhases
  <2> HIDE DEF z
  <2>4. /\ z.agent = f.turns[t].agent /\ f.turns[t].phase # "new" /\ z.phase # "running"
        /\ (f.turns[t].phase \notin Unopened => z.phase \notin Unopened)
        /\ (z.phase \in Sharded => z.shard # 0) /\ Owns(f, z.agent, z.session)
    BY <1>1, <2>3 DEF x, Unopened, Sharded
  <2>5. Housed(h, k)
    BY <2>2, <2>3, <2>4, TurnHoused, Zenon
  <2>6. \A u \in Turns : f.turns[u].phase \notin {"new", "queued", "taken"} => h.turns[u] = f.turns[u]
    BY <1>1, <2>2
  <2>7. Fills(f, h)
    BY <2>2, <2>6 DEF Fills, Dead
  <2> QED BY <2>1, <2>5, <2>7
<1> QED BY <1>2, <1>3

LEMMA DrainOneHoused ==
    ASSUME NEW f, NEW k, Housed(f, k), Ledger(f)
    PROVE  Grows(f, DrainOne(f), k)
<1>1. Ledger(DrainOne(f))
  BY DrainOneNests DEF Nests, Advances
<1>2. CASE Stuck(f)
  BY <1>2, FillsSame DEF DrainOne, Grows
<1>3. CASE ~Stuck(f)
  <2> DEFINE i == Chosen(f)
             t == f.queue[i]
             g == Take(f, i)
  <2>1. i \in 1..Len(f.queue) /\ Admissible(f, t) /\ t \in Turns /\ g.turns[t].phase = "taken"
    BY <1>3, ChosenIsReady, TakenNests DEF Stuck
  <2>2. DrainOne(f) = Admit(g, t)
    BY <1>3 DEF DrainOne
  <2> HIDE DEF i
  <2>3. Grows(f, g, k)
    BY <2>1, TakeHoused
  <2>4. g.turns[t].agent = f.turns[t].agent /\ f.turns[t].agent \in Agents
    <3>1. Shapes(f) /\ f.turns[f.queue[i]].agent \in Agents
      BY <2>1 DEF Ledger, Housed, Names
    <3>2. Take(f, i).turns[f.queue[i]].agent = f.turns[f.queue[i]].agent
      BY <2>1, <3>1, TakenAgent, Zenon
    <3> QED BY <3>1, <3>2
  <2> HIDE DEF g, t
  <2>5. g.agents[g.turns[t].agent].known = "yes" /\ g.agents[g.turns[t].agent].status \notin {"lost", "recovering"}
    BY <2>1, <2>3, <2>4 DEF Grows, Fills, Admissible, Registered
  <2>6. Housed(Admit(g, t), k) /\ Fills(g, Admit(g, t))
    BY <2>1, <2>3, <2>4, <2>5, AdmitHoused DEF Grows
  <2> QED BY <1>1, <2>2, <2>3, <2>6, FillsOn DEF Grows
<1> QED BY <1>2, <1>3

LEMMA RoundsHoused ==
    ASSUME NEW f, NEW k, Housed(f, k), Ledger(f), NEW N \in Nat
    PROVE  Grows(f, Rounds(f, N), k)
<1>1. PICK h : DrainLoop(f, h, N) /\ Rounds(f, N) = h[N]
  BY RoundsUnfold
<1> DEFINE T == {n \in 0..N : ~Grows(f, h[n], k)}
<1>2. ASSUME T # {} PROVE FALSE
  <2>1. PICK n \in T : \A m \in T : n <= m
    BY <1>2, Least, Zenon
  <2>2. n \in Nat /\ n <= N
    BY <2>1
  <2>3. CASE n = 0
    <3>1. h[n] = f
      BY <1>1, <2>3 DEF DrainLoop
    <3> QED BY <2>1, <3>1, FillsSame DEF Grows
  <2>4. CASE n # 0
    <3>1. n - 1 \in 0..N /\ n - 1 \notin T
      BY <2>1, <2>2, <2>4
    <3>2. Grows(f, h[n - 1], k)
      BY <3>1
    <3>3. h[n] = DrainOne(h[n - 1])
      BY <1>1, <2>1, <2>2, <2>4, Zenon DEF DrainLoop
    <3>4. Grows(h[n - 1], h[n], k)
      BY <3>2, <3>3, DrainOneHoused DEF Grows
    <3> QED BY <2>1, <3>2, <3>4, GrowsOn
  <2> QED BY <2>3, <2>4
<1>3. N \in 0..N
  OBVIOUS
<1> QED BY <1>1, <1>2, <1>3

LEMMA DrainHoused ==
    ASSUME NEW f, NEW k, Housed(f, k), Ledger(f)
    PROVE  Grows(f, Drain(f), k)
<1>1. Len(f.queue) \in Nat
  BY DEF Ledger, QueueIsExact
<1> QED BY <1>1, RoundsHoused DEF Drain

(* A new turn, which nobody names yet.                                      *)
LEMMA CallHoused ==
    ASSUME NEW f, NEW g, NEW k, NEW t \in Turns, NEW z \in TurnRecords, Housed(f, k), IsFleet(g),
           f.turns[t].phase = "new", g.turns = [f.turns EXCEPT ![t] = z], g.agents = f.agents,
           g.shards = f.shards, g.exceeded = f.exceeded, g.recoveries = f.recoveries,
           g.queue = f.queue \/ g.queue = Append(f.queue, t),
           z.agent \in Agents, z.phase \in {"queued", "refused"}, z.session = 0
    PROVE  Housed(g, k) /\ Fills(f, g)
<1>1. /\ g.turns \in [Turns -> TurnRecords] /\ g.turns[t] = z
      /\ \A u \in Turns : u # t => g.turns[u] = f.turns[u]
  BY HousedIsTyped
<1>2. Typed(f) /\ Seats(f) /\ Numbered(f, k) /\ Names(f) /\ Mapped(f) /\ Apart(f)
  BY DEF Housed
<1>3. g.queue \in Seq(Turns) /\ \A i \in 1..Len(g.queue) : g.queue[i] = t \/ \E j \in 1..Len(f.queue) : g.queue[i] = f.queue[j]
  <2>1. f.queue \in Seq(Turns)
    BY HousedIsTyped
  <2>2. CASE g.queue = f.queue
    BY <2>1, <2>2
  <2>3. CASE g.queue = Append(f.queue, t)
    <3> DEFINE q == f.queue
    <3>1. /\ Append(q, t) \in Seq(Turns) /\ Len(Append(q, t)) = Len(q) + 1 /\ Len(q) \in Nat
          /\ \A i \in 1..Len(q) : Append(q, t)[i] = q[i]
          /\ Append(q, t)[Len(q) + 1] = t
      BY <2>1
    <3> HIDE DEF q
    <3>2. \A i \in 1..Len(Append(q, t)) : i \in 1..Len(q) \/ i = Len(q) + 1
      BY <3>1
    <3>3. g.queue = Append(q, t)
      BY <2>3 DEF q
    <3> QED BY <3>1, <3>2, <3>3 DEF q
  <2> QED BY <2>2, <2>3
<1>4. Typed(g)
  <2>1. ASSUME NEW u \in Turns, g.turns[u].phase \in Sharded PROVE g.turns[u].shard # 0
    <3>1. u # t
      BY <1>1, <2>1 DEF Sharded, InFlightPhases
    <3> QED BY <1>1, <2>1, <3>1, HousedIsTyped
  <2> QED BY <1>1, <1>3, <2>1, HousedIsTyped, TypedAgain
<1>5. Seats(g) /\ Numbered(g, k)
  <2>1. KeepsSeats(f, g)
    BY DEF KeepsSeats
  <2> QED BY <1>2, <2>1, SeatsKept
<1>6. Names(g)
  <2>1. ASSUME NEW c, NEW q \in Sessions, Owns(f, c, q) PROVE Owns(g, c, q)
    <3>1. CASE q = 0
      BY <3>1 DEF Owns
    <3>2. CASE q # 0
      <4>1. q \in Turns
        BY <3>2, LimitsAssumption DEF Sessions, Turns
      <4>2. f.turns[q].agent = c /\ f.turns[q].phase \notin Unopened
        BY <2>1, <3>2 DEF Owns
      <4>3. q # t
        BY <4>2 DEF Unopened
      <4> QED BY <1>1, <4>1, <4>2, <4>3 DEF Owns
    <3> QED BY <3>1, <3>2
  <2>2. /\ \A c \in Agents : f.agents[c].session \in Sessions
        /\ \A u \in Turns : f.turns[u].session \in Sessions
        /\ \A r \in f.recoveries : r.session \in Sessions
    BY HousedIsTyped DEF AgentRecords, TurnRecords, Recoveries
  <2>3. ASSUME NEW c \in Agents PROVE Owns(g, c, g.agents[c].session)
    BY <1>2, <2>1, <2>2 DEF Names
  <2>4. ASSUME NEW u \in Turns PROVE Owns(g, g.turns[u].agent, g.turns[u].session)
    <3>1. CASE u = t
      BY <1>1, <3>1 DEF Owns
    <3>2. CASE u # t
      BY <1>1, <1>2, <2>1, <2>2, <3>2 DEF Names
    <3> QED BY <3>1, <3>2
  <2>5. ASSUME NEW r \in g.recoveries PROVE Owns(g, r.agent, r.session)
    BY <1>2, <2>1, <2>2 DEF Names
  <2>6. ASSUME NEW u \in Turns, u = t \/ f.turns[u].agent \in Agents PROVE g.turns[u].agent \in Agents
    BY <1>1, <2>6
  <2>7. ASSUME NEW u \in Turns, g.turns[u].phase # "new" PROVE g.turns[u].agent \in Agents
    BY <1>1, <1>2, <2>6, <2>7 DEF Names
  <2>8. ASSUME NEW i \in 1..Len(g.queue) PROVE g.turns[g.queue[i]].agent \in Agents
    <3>1. CASE g.queue[i] = t
      BY <2>6, <3>1
    <3>2. CASE \E j \in 1..Len(f.queue) : g.queue[i] = f.queue[j]
      <4>1. PICK j \in 1..Len(f.queue) : g.queue[i] = f.queue[j]
        BY <3>2
      <4>2. f.queue[j] \in Turns /\ f.turns[f.queue[j]].agent \in Agents
        BY <1>2, HousedIsTyped DEF Names
      <4> QED BY <2>6, <4>1, <4>2
    <3> QED BY <1>3, <3>1, <3>2
  <2> QED BY <2>3, <2>4, <2>5, <2>7, <2>8 DEF Names
<1>7. Mapped(g) /\ Apart(g)
  <2>1. KeepsRunning(f, g)
    BY <1>1 DEF KeepsRunning
  <2>2. KeepsMapped(f, g)
    BY DEF KeepsMapped
  <2> QED BY <1>2, <1>4, <2>1, <2>2, MappedKept, ApartKept
<1>8. Fills(f, g)
  BY <1>1 DEF Fills, Dead
<1> QED BY <1>4, <1>5, <1>6, <1>7, <1>8 DEF Housed

LEMMA RefusedHoused ==
    ASSUME NEW f, NEW k, Housed(f, k), Ledger(f), NEW t \in Turns, f.turns[t].phase = "new",
           NEW a \in Agents, NEW p \in Priorities \union {0}
    PROVE  /\ Grows(f, Refused(f, t, a, p), k)
           /\ ~f.exceeded => Grows(f, Pushed(f, t, a, p), k)
<1> DEFINE z(phase) == [NewTurn(a) EXCEPT !.phase = phase, !.prio = p]
           r == Refused(f, t, a, p)
           g == Pushed(f, t, a, p)
<1>1. IsFleet(f) /\ f.turns \in [Turns -> TurnRecords]
  BY HousedIsTyped
<1>2. \A phase \in {"queued", "refused"} :
         z(phase) \in TurnRecords /\ z(phase).agent = a /\ z(phase).phase = phase /\ z(phase).session = 0
  <2>1. 0 \in Sessions
    BY LimitsAssumption DEF Sessions
  <2> QED BY <2>1 DEF NewTurn, TurnRecords, Phases
<1>3. /\ IsFleet(r) /\ r.turns = [f.turns EXCEPT ![t] = z("refused")] /\ r.queue = f.queue
      /\ r.agents = f.agents /\ r.shards = f.shards /\ r.recoveries = f.recoveries /\ r.exceeded = f.exceeded
  BY <1>1, Zenon DEF Refused, IsFleet
<1>4. /\ IsFleet(g) /\ g.turns = [f.turns EXCEPT ![t] = z("queued")] /\ g.queue = Append(f.queue, t)
      /\ g.agents = f.agents /\ g.shards = f.shards /\ g.recoveries = f.recoveries /\ g.exceeded = f.exceeded
  BY <1>1, Zenon DEF Pushed, IsFleet
<1>5. Ledger(r) /\ (~f.exceeded => Ledger(g))
  BY CallNests, Zenon DEF Nests, Advances
<1> HIDE DEF z, r, g
<1>6. Housed(r, k) /\ Fills(f, r)
  <2>1. /\ z("refused") \in TurnRecords /\ z("refused").agent \in Agents
        /\ z("refused").phase \in {"queued", "refused"} /\ z("refused").session = 0
    BY <1>2
  <2> QED BY <1>3, <2>1, CallHoused, Zenon
<1>7. Housed(g, k) /\ Fills(f, g)
  <2>1. /\ z("queued") \in TurnRecords /\ z("queued").agent \in Agents
        /\ z("queued").phase \in {"queued", "refused"} /\ z("queued").session = 0
    BY <1>2
  <2> QED BY <1>4, <2>1, CallHoused, Zenon
<1> QED BY <1>5, <1>6, <1>7 DEF Grows, r, g

(* What a listener may call.                                                *)
Ranked(c) == IsCall(c) /\ c.prio \in Priorities \union {0}

LEMMA CallsRank ==
    ASSUME NEW first \in Nat, NEW c \in Calls(first)
    PROVE  Ranked(c)
<1>1. NoCall.prio = 0
  BY DEF NoCall
<1>2. IsCall(c)
  BY CallsAre
<1> QED BY <1>1, <1>2 DEF Calls, Ranked

LEMMA CalledHoused ==
    ASSUME NEW f, NEW k, Housed(f, k), Ledger(f), NEW c, Ranked(c)
    PROVE  Grows(f, Called(f, c), k)
<1>1. CASE Unused(f) = {} \/ c.agent \notin AgentsOf(f)
  BY <1>1, FillsSame DEF Called, Grows
<1>2. CASE ~(Unused(f) = {} \/ c.agent \notin AgentsOf(f))
  <2> DEFINE t == Min(Unused(f))
             g == Pushed(f, t, c.agent, c.prio)
  <2>1. t \in Turns /\ f.turns[t].phase = "new" /\ c.agent \in Agents
    BY <1>2, MinUnused DEF AgentsOf
  <2>2. \/ Called(f, c) = Refused(f, t, c.agent, c.prio)
        \/ ~f.exceeded /\ Called(f, c) = Drain(g)
    BY <1>2 DEF Called, Refuses
  <2> HIDE DEF t
  <2>3. Grows(f, Refused(f, t, c.agent, c.prio), k) /\ (~f.exceeded => Grows(f, g, k))
    BY <2>1, RefusedHoused DEF Ranked
  <2> HIDE DEF g
  <2>4. Grows(f, g, k) => Grows(f, Drain(g), k)
    BY DrainHoused, GrowsOn DEF Grows
  <2> QED BY <2>2, <2>3, <2>4
<1> QED BY <1>1, <1>2

LEMMA HearsHoused ==
    ASSUME NEW f, NEW k, Housed(f, k), Ledger(f), NEW event, NEW n, NEW c, Ranked(c)
    PROVE  Grows(f, Hears(f, event, n, c), k)
BY CalledHoused, FillsSame DEF Hears, Grows

LEMMA HeardRoundHoused ==
    ASSUME NEW f, NEW k, Housed(f, k), Ledger(f), ~Stuck(f), NEW c, Ranked(c), ListenersCall
    PROVE  Grows(f, HeardRound(f, c), k)
<1> DEFINE i == Chosen(f)
           t == f.queue[i]
           g == Take(f, i)
           h == Called(g, c)
           m == Admit(h, t)
<1>1. i \in 1..Len(f.queue) /\ Admissible(f, t)
  BY ChosenIsReady DEF Stuck
<1>2. /\ t \in Turns /\ Ledger(g) /\ h.turns[t] = g.turns[t] /\ g.turns[t].phase = "taken"
      /\ Ledger(m) /\ HeardRound(f, c) = m
  BY HeardRoundAdvances DEF Advances, HeardRound
<1> HIDE DEF i
<1>3. Grows(f, g, k)
  BY <1>1, TakeHoused
<1>4. g.turns[t].agent = f.turns[t].agent /\ f.turns[t].agent \in Agents
  <2>1. Shapes(f) /\ f.turns[f.queue[i]].agent \in Agents
    BY <1>1 DEF Ledger, Housed, Names
  <2>2. Take(f, i).turns[f.queue[i]].agent = f.turns[f.queue[i]].agent
    BY <1>1, <1>2, <2>1, TakenAgent, Zenon
  <2> QED BY <2>1, <2>2
<1> HIDE DEF g, t
<1>5. Grows(g, h, k)
  BY <1>2, <1>3, CalledHoused DEF Grows
<1> HIDE DEF h
<1>6. Grows(f, h, k)
  BY <1>3, <1>5, GrowsOn
<1>7. h.agents[h.turns[t].agent].known = "yes" /\ h.agents[h.turns[t].agent].status \notin {"lost", "recovering"}
  BY <1>1, <1>2, <1>4, <1>6 DEF Grows, Fills, Admissible, Registered
<1>8. Housed(m, k) /\ Fills(h, m)
  BY <1>2, <1>4, <1>6, <1>7, AdmitHoused DEF Grows
<1> QED BY <1>2, <1>6, <1>8, FillsOn DEF Grows

LEMMA DrainHeardHoused ==
    ASSUME NEW f, NEW k, Housed(f, k), Ledger(f), NEW c, Ranked(c)
    PROVE  Grows(f, DrainHeard(f, c), k)
<1> DEFINE g == Rounds(f, c.at)
<1>1. Grows(f, g, k)
  BY RoundsHoused DEF Ranked, IsCall
<1>2. ASSUME NEW h, Grows(f, h, k) PROVE Grows(f, Drain(h), k)
  BY <1>2, DrainHoused, GrowsOn DEF Grows
<1>3. Grows(f, Called(g, c), k)
  BY <1>1, CalledHoused, GrowsOn DEF Grows
<1>4. c.event = "queueDepth" /\ ~Stuck(g) => Grows(f, HeardRound(g, c), k)
  BY <1>1, HeardRoundHoused, GrowsOn DEF Grows, Ranked, IsCall
<1>5. Grows(f, f, k)
  BY FillsSame DEF Grows
<1> QED BY <1>2, <1>3, <1>4, <1>5, DrainHeardIs
-----------------------------------------------------------------------------
(* Both halves of the invariant of the fleet record.                        *)
Sound(f, k) == Placed(f, k) /\ Ledger(f)

LEMMA SoundShape ==
    ASSUME NEW g, Typed(g)
    PROVE  Shapes(g)
<1>1. /\ IsFleet(g) /\ g.shards \in [Shards -> ShardRecords] /\ g.turns \in [Turns -> TurnRecords]
  BY DEF Typed, IsFleet
<1>2. ASSUME NEW s \in Shards PROVE ShardShape(g.shards[s])
  <2> DEFINE x == g.shards[s]
  <2>1. x \in ShardRecords
    BY <1>1
  <2> HIDE DEF x
  <2>2. x.members \in Seq(Agents) /\ Agents \subseteq Ids
    BY <2>1 DEF ShardRecords, Ids
  <2>3. x.members \in Seq(Ids)
    BY <2>2
  <2>4. ShardShape(x)
    BY <2>1, <2>3 DEF ShardRecords, ShardShape
  <2> QED BY <2>4 DEF x
<1>3. ASSUME NEW t \in Turns PROVE TurnShape(g.turns[t])
  BY <1>1 DEF TurnRecords, TurnShape, Ids
<1> QED BY <1>1, <1>2, <1>3 DEF Shapes, FleetShape, Rosters, IsFleet

LEMMA StandingSound ==
    ASSUME NEW f, NEW g, NEW k, NEW l, Sound(f, k), Placed(g, l), SameStanding(f, g)
    PROVE  Sound(g, l)
<1>1. Shapes(g)
  BY SoundShape DEF Placed, Housed
<1> QED BY <1>1, StandingKeepsLedger DEF Sound

LEMMA BecomesSound ==
    ASSUME NEW f, NEW k, Sound(f, k), Becomes(f)
    PROVE  fleet' = f
<1>1. FleetShape(f)
  BY DEF Sound, Ledger, Shapes
<1> QED BY <1>1, BecomesIs

LEMMA TurnSound ==
    ASSUME NEW f, NEW g, NEW k, NEW t \in Turns, NEW z \in TurnRecords, Sound(f, k), IsFleet(g),
           g.turns = [f.turns EXCEPT ![t] = z], g.agents = f.agents, g.shards = f.shards,
           g.queue = f.queue, g.active = f.active, g.exceeded = f.exceeded, g.recoveries = f.recoveries,
           f.turns[t].phase \in Sharded, z.phase \in Sharded \ {"running"},
           z.agent = f.turns[t].agent, f.turns[t].phase \notin Unopened => z.phase \notin Unopened,
           z.shard # 0, Owns(f, z.agent, z.session)
    PROVE  Sound(g, k)
<1>1. f.turns[t].phase # "new" /\ z.phase # "running" /\ f.turns[t].phase # "queued" /\ z.phase # "queued"
  BY DEF Sharded, InFlightPhases
<1>2. Placed(g, k)
  <2>1. Housed(f, k) /\ Worked(f)
    BY DEF Sound, Placed
  <2>2. Housed(g, k) /\ (Worked(f) => Worked(g))
    BY <1>1, <2>1, TurnHoused
  <2> QED BY <2>1, <2>2 DEF Sound, Placed
<1>3. \A u \in Turns : g.turns[u] = IF u = t THEN z ELSE f.turns[u]
  BY PlacedIsTyped DEF Sound
<1>4. SameStanding(f, g)
  <2>1. f.turns[t].phase \in InFlightPhases /\ z.phase \in InFlightPhases
    BY DEF Sharded
  <2> QED BY <1>1, <1>3, <2>1 DEF SameStanding
<1> QED BY <1>2, <1>4, StandingSound

LEMMA ShardSound ==
    ASSUME NEW f, NEW g, NEW k, NEW s \in Shards, NEW z \in ShardRecords, Sound(f, k), IsFleet(g),
           g.shards = [f.shards EXCEPT ![s] = z], g.turns = f.turns, g.agents = f.agents,
           g.queue = f.queue, g.active = f.active, g.exceeded = f.exceeded, g.recoveries = f.recoveries,
           z.backend = f.shards[s].backend, z.tracked = f.shards[s].tracked,
           z.members = f.shards[s].members, f.shards[s].mapped \subseteq z.mapped
    PROVE  Sound(g, k)
<1>1. Placed(g, k)
  BY ShardHoused DEF Sound, Placed
<1>2. SameStanding(f, g)
  BY DEF SameStanding
<1> QED BY <1>1, <1>2, StandingSound

LEMMA AgentSound ==
    ASSUME NEW f, NEW g, NEW k, NEW a \in Agents, NEW y \in AgentRecords, Sound(f, k), IsFleet(g),
           g.agents = [f.agents EXCEPT ![a] = y], g.turns = f.turns, g.shards = f.shards,
           g.queue = f.queue, g.active = f.active, g.exceeded = f.exceeded, g.recoveries = f.recoveries,
           y.known = f.agents[a].known, y.shard = f.agents[a].shard, Owns(f, a, y.session),
           y.status \in {f.agents[a].status, "ready", "lost", "retired"}
    PROVE  Sound(g, k)
<1>1. Placed(g, k)
  BY AgentPlaced, Zenon DEF Sound
<1>2. SameStanding(f, g)
  BY DEF SameStanding
<1> QED BY <1>1, <1>2, StandingSound
-----------------------------------------------------------------------------
(* The pieces of the handlers.                                              *)
LEMMA GrowsSound ==
    ASSUME NEW f, NEW g, NEW k, Sound(f, k), Grows(f, g, k)
    PROVE  Sound(g, k)
BY FilledWorks DEF Sound, Placed, Grows

LEMMA DrainHeardSound ==
    ASSUME NEW f, NEW k, Sound(f, k), NEW c, Ranked(c)
    PROVE  Sound(DrainHeard(f, c), k) /\ Fills(f, DrainHeard(f, c))
<1>1. Grows(f, DrainHeard(f, c), k)
  BY DrainHeardHoused DEF Sound, Placed
<1> QED BY <1>1, GrowsSound DEF Grows

LEMMA HearsSound ==
    ASSUME NEW f, NEW k, Sound(f, k), NEW event, NEW n, NEW c, Ranked(c)
    PROVE  Sound(Hears(f, event, n, c), k) /\ Fills(f, Hears(f, event, n, c))
<1>1. Grows(f, Hears(f, event, n, c), k)
  BY HearsHoused DEF Sound, Placed
<1> QED BY <1>1, GrowsSound DEF Grows

LEMMA OnTurnEventSound ==
    ASSUME NEW f, NEW k, Sound(f, k), NEW t, NEW c, Ranked(c)
    PROVE  Sound(OnTurnEvent(f, t, c), k) /\ Fills(f, OnTurnEvent(f, t, c))
BY DrainHeardSound, FillsSame DEF OnTurnEvent

(* A turn in flight: where it is, and whose session it holds.               *)
LEMMA TurnIsTyped ==
    ASSUME NEW f, NEW k, Placed(f, k), NEW t \in Turns
    PROVE  /\ f.turns[t] \in TurnRecords /\ f.turns[t].session \in Sessions
           /\ f.turns[t].shard \in Shards \union {0} /\ Owns(f, f.turns[t].agent, f.turns[t].session)
           /\ f.turns[t].phase \in Sharded =>
                 /\ f.turns[t].shard \in Shards /\ f.turns[t].agent \in Agents
                 /\ f.turns[t].shard # 0
<1>1. /\ f.turns[t] \in TurnRecords
      /\ f.turns[t].phase \in Sharded => f.turns[t].shard # 0
  BY PlacedIsTyped
<1>2. /\ f.turns[t].session \in Sessions /\ f.turns[t].shard \in Shards \union {0}
      /\ f.turns[t].shard # 0 => f.turns[t].shard \in Shards
  BY <1>1 DEF TurnRecords
<1>3. /\ Owns(f, f.turns[t].agent, f.turns[t].session)
      /\ f.turns[t].phase # "new" => f.turns[t].agent \in Agents
  BY DEF Placed, Housed, Names
<1>4. "new" \notin Sharded
  BY DEF Sharded, InFlightPhases
<1> QED BY <1>1, <1>2, <1>3, <1>4

LEMMA MovesSound ==
    ASSUME NEW f, NEW k, Sound(f, k), NEW t \in Turns, f.turns[t].phase \in Sharded,
           NEW p \in {"failing", "confirming"}
    PROVE  Sound([f EXCEPT !.turns[t].phase = p], k)
<1> DEFINE g == [f EXCEPT !.turns[t].phase = p]
           x == f.turns[t]
           z == [x EXCEPT !.phase = p]
<1>1. /\ x \in TurnRecords /\ x.shard # 0 /\ Owns(f, x.agent, x.session)
  BY TurnIsTyped DEF Sound
<1>2. /\ IsFleet(g) /\ g.turns = [f.turns EXCEPT ![t] = z] /\ g.agents = f.agents /\ g.shards = f.shards
      /\ g.queue = f.queue /\ g.active = f.active /\ g.exceeded = f.exceeded /\ g.recoveries = f.recoveries
  <2>1. IsFleet(f) /\ f.turns \in [Turns -> TurnRecords]
    BY PlacedIsTyped DEF Sound
  <2> QED BY <2>1 DEF IsFleet
<1> HIDE DEF g, x
<1>3. /\ z \in TurnRecords /\ z.phase = p /\ z.agent = x.agent /\ z.shard = x.shard /\ z.session = x.session
  BY <1>1 DEF TurnRecords, Phases, Sharded, InFlightPhases
<1> HIDE DEF z
<1>4. p \in Sharded \ {"running"} /\ p \notin Unopened
  BY DEF Sharded, InFlightPhases, Unopened
<1>5. z.agent = f.turns[t].agent /\ z.shard # 0 /\ Owns(f, z.agent, z.session)
  BY <1>1, <1>3 DEF x
<1>6. z.phase \in Sharded \ {"running"} /\ z.phase \notin Unopened
  BY <1>3, <1>4
<1>7. Sound(g, k)
  BY <1>2, <1>3, <1>5, <1>6, TurnSound, Zenon
<1> QED BY <1>7 DEF g

LEMMA FailingSound ==
    ASSUME NEW f, NEW k, Sound(f, k), NEW t \in Turns, f.turns[t].phase \in Sharded
    PROVE  Sound(Failing(f, t), k)
BY MovesSound, Zenon DEF Failing

(* The registry of a runtime changes what it says of one session.           *)
LEMMA SessSound ==
    ASSUME NEW f, NEW k, Sound(f, k), NEW s \in Shards, NEW x, NEW v \in {"none", "open", "stopped"}
    PROVE  LET g == [f EXCEPT !.shards[s].sess[x] = v]
           IN Sound(g, k) /\ g.turns = f.turns /\ g.agents = f.agents
<1> DEFINE g == [f EXCEPT !.shards[s].sess[x] = v]
           y == f.shards[s]
           z == [y EXCEPT !.sess[x] = v]
<1>1. IsFleet(f) /\ f.shards \in [Shards -> ShardRecords]
  BY PlacedIsTyped DEF Sound
<1>2. /\ IsFleet(g) /\ g.shards = [f.shards EXCEPT ![s] = z] /\ g.turns = f.turns /\ g.agents = f.agents
      /\ g.queue = f.queue /\ g.active = f.active /\ g.exceeded = f.exceeded /\ g.recoveries = f.recoveries
  BY <1>1 DEF IsFleet
<1>3. y \in ShardRecords
  BY <1>1
<1> HIDE DEF g, y
<1>4. /\ z \in ShardRecords /\ z.backend = y.backend /\ z.tracked = y.tracked
      /\ z.members = y.members /\ z.mapped = y.mapped
  BY <1>3 DEF ShardRecords
<1> HIDE DEF z
<1>5. Sound(g, k)
  BY <1>2, <1>4, ShardSound, Zenon DEF y
<1> QED BY <1>2, <1>5 DEF g
(* Whatever ends gives its place to who waits.                              *)
LEMMA SettledSound ==
    ASSUME NEW f, NEW k, Sound(f, k), NEW t \in Turns, f.turns[t].phase \in Sharded,
           NEW phase \in {"done", "failed"}
    PROVE  Sound([Settle(f, t, phase) EXCEPT !.active = @ - 1], k)
<1> DEFINE g == [Settle(f, t, phase) EXCEPT !.active = @ - 1]
           a == f.turns[t].agent
           z == [NewTurn(a) EXCEPT !.phase = phase]
<1>1. IsFleet(f) /\ f.turns \in [Turns -> TurnRecords] /\ a \in Agents
  BY PlacedIsTyped, TurnIsTyped DEF Sound
<1>2. /\ IsFleet(g) /\ g.turns = [f.turns EXCEPT ![t] = z] /\ g.agents = f.agents /\ g.shards = f.shards
      /\ g.queue = f.queue /\ g.exceeded = f.exceeded /\ g.recoveries = f.recoveries
  BY <1>1, Zenon DEF Settle, IsFleet
<1>3. Ledger(g)
  BY SettleAdvances, Zenon DEF Sound, Advances, Sharded
<1> HIDE DEF g
<1>4. z \in TurnRecords /\ z.agent = a /\ z.session = 0 /\ z.phase = phase
  <2>1. 0 \in Sessions
    BY LimitsAssumption DEF Sessions
  <2> QED BY <1>1, <2>1 DEF NewTurn, TurnRecords, Phases
<1> HIDE DEF z
<1>5. Owns(f, z.agent, z.session)
  BY <1>4 DEF Owns
<1>6. phase \notin Sharded /\ phase \notin Unopened /\ phase # "running" /\ f.turns[t].phase # "new"
  BY DEF Sharded, InFlightPhases, Unopened
<1>7. Placed(g, k)
  BY <1>2, <1>4, <1>5, <1>6, TurnHoused, Zenon DEF Sound, Placed
<1> QED BY <1>3, <1>7 DEF Sound, g

LEMMA FinallySound ==
    ASSUME NEW f, NEW k, Sound(f, k), NEW t \in Turns, f.turns[t].phase \in Sharded,
           NEW phase \in {"done", "failed"}, NEW c, Ranked(c)
    PROVE  Sound(Finally(f, t, phase, c), k)
BY SettledSound, DrainHeardSound, Zenon DEF Finally

(* What waits is rejected.                                                  *)
LEMMA EmptiedSound ==
    ASSUME NEW f, NEW g, NEW k, Sound(f, k), IsFleet(g), g.queue = <<>>, g.active = f.active,
           g.exceeded \in BOOLEAN, f.exceeded => g.exceeded,
           g.agents = f.agents, g.shards = f.shards, g.recoveries = f.recoveries,
           g.turns = [t \in Turns |-> IF f.turns[t].phase = "queued"
                                       THEN [NewTurn(f.turns[t].agent) EXCEPT !.phase = "refused"]
                                       ELSE f.turns[t]]
    PROVE  Sound(g, k)
<1>1. Placed(f, k) /\ Typed(f) /\ Names(f)
  BY DEF Sound, Placed, Housed
<1>2. ASSUME NEW t \in Turns
      PROVE  /\ g.turns[t] \in TurnRecords /\ g.turns[t].agent = f.turns[t].agent
             /\ \/ g.turns[t] = f.turns[t]
                \/ f.turns[t].phase = "queued" /\ g.turns[t].phase = "refused" /\ g.turns[t].session = 0
  <2> DEFINE a == f.turns[t].agent
             z == [NewTurn(a) EXCEPT !.phase = "refused"]
  <2>1. f.turns[t] \in TurnRecords
    BY <1>1, PlacedIsTyped
  <2>2. g.turns[t] = IF f.turns[t].phase = "queued" THEN z ELSE f.turns[t]
    OBVIOUS
  <2>3. z \in TurnRecords /\ z.agent = a /\ z.session = 0 /\ z.phase = "refused"
    <3>1. 0 \in Sessions
      BY LimitsAssumption DEF Sessions
    <3>2. a \in Agents \union {"none"}
      BY <2>1 DEF TurnRecords
    <3> HIDE DEF a
    <3> QED BY <3>1, <3>2 DEF NewTurn, TurnRecords, Phases
  <2> HIDE DEF z
  <2> QED BY <2>1, <2>2, <2>3, Zenon
<1>3. Typed(g)
  <2>1. g.turns \in [Turns -> TurnRecords]
    BY <1>2
  <2>2. ASSUME NEW t \in Turns, g.turns[t].phase \in Sharded PROVE g.turns[t].shard # 0
    <3>1. g.turns[t] = f.turns[t]
      BY <1>2, <2>2 DEF Sharded, InFlightPhases
    <3>2. f.turns[t].phase \in Sharded
      BY <2>2, <3>1, Zenon
    <3>3. f.turns[t].shard # 0
      BY <1>1, <3>2, PlacedIsTyped
    <3> QED BY <3>1, <3>3, Zenon
  <2>3. g.queue \in Seq(Turns)
    OBVIOUS
  <2> QED BY <1>1, <2>1, <2>2, <2>3, PlacedIsTyped, TypedAgain, Zenon
<1>4. KeepsSeats(f, g) /\ KeepsMapped(f, g) /\ KeepsWorked(f, g)
  BY DEF KeepsSeats, KeepsMapped, KeepsWorked
<1>5. KeepsRunning(f, g)
  BY <1>2 DEF KeepsRunning
<1>6. KeepsNames(f, g)
  <2>1. ASSUME NEW t \in Turns
        PROVE  /\ g.turns[t].agent = f.turns[t].agent
               /\ f.turns[t].phase \notin Unopened => g.turns[t].phase \notin Unopened
               /\ g.turns[t].phase # "new" => f.turns[t].phase # "new"
               /\ Owns(f, f.turns[t].agent, g.turns[t].session)
    <3>1. CASE g.turns[t] = f.turns[t]
      BY <1>1, <3>1, Zenon DEF Names
    <3>2. CASE f.turns[t].phase = "queued" /\ g.turns[t].phase = "refused" /\ g.turns[t].session = 0
      BY <1>2, <3>2 DEF Owns, Unopened
    <3> QED BY <1>2, <3>1, <3>2
  <2>2. \A a \in Agents : Owns(f, a, g.agents[a].session)
    BY <1>1 DEF Names
  <2>3. \A r \in g.recoveries : Owns(f, r.agent, r.session)
    BY <1>1 DEF Names
  <2>4. Len(g.queue) = 0
    OBVIOUS
  <2> QED BY <2>1, <2>2, <2>3, <2>4 DEF KeepsNames
<1>7. Placed(g, k)
  BY <1>1, <1>3, <1>4, <1>5, <1>6, FramePlaced DEF Frame
<1>8. FleetShape(g)
  BY <1>3, SoundShape DEF Shapes
<1>9. Ledger(g)
  BY <1>8, EmptyingAdvances DEF Sound, Advances
<1> QED BY <1>7, <1>9 DEF Sound

LEMMA TripSound == ASSUME NEW f, NEW k, Sound(f, k) PROVE Sound(Trip(f), k)
<1>1. CASE f.exceeded
  BY <1>1 DEF Trip
<1>2. CASE ~f.exceeded
  <2> DEFINE g == Trip(f)
  <2>1. IsFleet(f)
    BY PlacedIsTyped DEF Sound
  <2>2. /\ IsFleet(g) /\ g.queue = <<>> /\ g.active = f.active /\ g.exceeded = TRUE
        /\ g.agents = f.agents /\ g.shards = f.shards /\ g.recoveries = f.recoveries
        /\ g.turns = [t \in Turns |-> IF f.turns[t].phase = "queued"
                                       THEN [NewTurn(f.turns[t].agent) EXCEPT !.phase = "refused"]
                                       ELSE f.turns[t]]
    BY <1>2, <2>1, Zenon DEF Trip, IsFleet
  <2> HIDE DEF g
  <2>3. Sound(g, k)
    BY <2>2, EmptiedSound, Zenon
  <2> QED BY <2>3 DEF g
<1> QED BY <1>1, <1>2

(* What waits for a runtime is going to reject.                             *)
LEMMA RejectedSound ==
    ASSUME NEW f, NEW k, Sound(f, k), NEW s
    PROVE  LET g == Rejected(f, s) IN Sound(g, k) /\ g.shards = f.shards /\ g.agents = f.agents
<1> DEFINE g == Rejected(f, s)
<1>1. IsFleet(f) /\ f.recoveries \subseteq Recoveries /\ Placed(f, k) /\ Typed(f) /\ Names(f) /\ Ledger(f)
  BY PlacedIsTyped DEF Sound, Placed, Housed
<1>2. /\ IsFleet(g) /\ g.agents = f.agents /\ g.shards = f.shards
      /\ g.queue = f.queue /\ g.active = f.active /\ g.exceeded = f.exceeded
      /\ g.turns = [t \in Turns |->
            IF f.turns[t].shard = s /\ f.turns[t].phase \in {"starting", "opening", "running"}
              THEN [f.turns[t] EXCEPT !.phase = "failing"] ELSE f.turns[t]]
      /\ g.recoveries = {IF r.shard = s THEN [r EXCEPT !.phase = "failing"] ELSE r : r \in f.recoveries}
  BY <1>1, Zenon DEF Rejected, IsFleet
<1>3. Ledger(g)
  BY <1>1, RejectedAdvances DEF Advances
<1> HIDE DEF g
<1>4. ASSUME NEW t \in Turns
      PROVE  /\ g.turns[t] \in TurnRecords /\ g.turns[t].agent = f.turns[t].agent
             /\ g.turns[t].session = f.turns[t].session /\ g.turns[t].shard = f.turns[t].shard
             /\ \/ g.turns[t].phase = f.turns[t].phase
                \/ g.turns[t].phase = "failing" /\ f.turns[t].phase \in {"starting", "opening", "running"}
  <2> DEFINE x == f.turns[t]
             z == [x EXCEPT !.phase = "failing"]
  <2>1. x \in TurnRecords
    BY <1>1, PlacedIsTyped
  <2>2. g.turns[t] = x \/ (g.turns[t] = z /\ x.phase \in {"starting", "opening", "running"})
    BY <1>2
  <2> HIDE DEF x
  <2>3. z \in TurnRecords /\ z.agent = x.agent /\ z.session = x.session /\ z.shard = x.shard /\ z.phase = "failing"
    BY <2>1 DEF TurnRecords, Phases, Sharded, InFlightPhases
  <2> HIDE DEF z
  <2> QED BY <2>1, <2>2, <2>3 DEF x
<1>5. /\ \A r \in g.recoveries : \E q \in f.recoveries :
            /\ r \in Recoveries /\ r.agent = q.agent /\ r.session = q.session /\ r.shard = q.shard
            /\ r = q \/ r.phase = "failing"
      /\ \A q \in f.recoveries : \E r \in g.recoveries : r.agent = q.agent
  <2> DEFINE mark(q) == IF q.shard = s THEN [q EXCEPT !.phase = "failing"] ELSE q
  <2>1. ASSUME NEW q \in f.recoveries
        PROVE  /\ mark(q) \in Recoveries /\ mark(q).agent = q.agent
               /\ mark(q).session = q.session /\ mark(q).shard = q.shard
               /\ mark(q) = q \/ mark(q).phase = "failing"
    <3>1. q \in Recoveries
      BY <1>1
    <3> QED BY <3>1 DEF Recoveries
  <2>2. g.recoveries = {mark(q) : q \in f.recoveries}
    BY <1>2
  <2> HIDE DEF mark
  <2>3. ASSUME NEW r \in g.recoveries
        PROVE  \E q \in f.recoveries :
                  /\ r \in Recoveries /\ r.agent = q.agent /\ r.session = q.session /\ r.shard = q.shard
                  /\ r = q \/ r.phase = "failing"
    <3>1. PICK q \in f.recoveries : r = mark(q)
      BY <2>2
    <3> QED BY <2>1, <3>1
  <2>4. ASSUME NEW q \in f.recoveries PROVE \E r \in g.recoveries : r.agent = q.agent
    BY <2>1, <2>2
  <2> QED BY <2>3, <2>4
<1>6. Typed(g)
  <2>1. g.turns \in [Turns -> TurnRecords]
    BY <1>2, <1>4
  <2>2. g.recoveries \subseteq Recoveries
    BY <1>5
  <2>3. ASSUME NEW t \in Turns, g.turns[t].phase \in Sharded PROVE g.turns[t].shard # 0
    <3>1. f.turns[t].phase \in Sharded
      BY <1>4, <2>3 DEF Sharded, InFlightPhases
    <3> QED BY <1>1, <1>4, <3>1, PlacedIsTyped
  <2> QED BY <1>1, <1>2, <2>1, <2>2, <2>3, PlacedIsTyped, TypedAgain, Zenon
<1>7. KeepsSeats(f, g) /\ KeepsMapped(f, g)
  BY <1>2, <1>5, Zenon DEF KeepsSeats, KeepsMapped
<1>8. KeepsWorked(f, g)
  BY <1>2, <1>5, ZenonT(60) DEF KeepsWorked
<1>9. KeepsRunning(f, g)
  BY <1>4 DEF KeepsRunning
<1>10. KeepsNames(f, g)
  <2>1. ASSUME NEW t \in Turns
        PROVE  /\ g.turns[t].agent = f.turns[t].agent
               /\ f.turns[t].phase \notin Unopened => g.turns[t].phase \notin Unopened
               /\ g.turns[t].phase # "new" => f.turns[t].phase # "new"
               /\ Owns(f, f.turns[t].agent, g.turns[t].session)
    <3>1. Owns(f, f.turns[t].agent, f.turns[t].session)
      BY <1>1 DEF Names
    <3> QED BY <1>4, <3>1 DEF Unopened
  <2>2. \A a \in Agents : Owns(f, a, g.agents[a].session)
    BY <1>1, <1>2 DEF Names
  <2>3. \A r \in g.recoveries : Owns(f, r.agent, r.session)
    BY <1>1, <1>5 DEF Names
  <2> QED BY <1>2, <2>1, <2>2, <2>3 DEF KeepsNames
<1>11. Placed(g, k)
  BY <1>1, <1>6, <1>7, <1>8, <1>9, <1>10, FramePlaced DEF Frame
<1> QED BY <1>2, <1>3, <1>11 DEF Sound, g
-----------------------------------------------------------------------------
(* The agents of a dead shard.                                              *)
LEMMA AgentHoused ==
    ASSUME NEW f, NEW g, NEW k, NEW a \in Agents, NEW y \in AgentRecords, Housed(f, k), IsFleet(g),
           g.agents = [f.agents EXCEPT ![a] = y], g.turns = f.turns, g.shards = f.shards,
           g.queue = f.queue, g.exceeded = f.exceeded, g.recoveries = f.recoveries,
           y.known = f.agents[a].known, y.session = f.agents[a].session,
           \/ y.shard = f.agents[a].shard
           \/ /\ y.known # "no" /\ y.shard = 0
              /\ \A r \in Shards : ~Holds(f.shards[r].members, a)
    PROVE  Housed(g, k)
<1>1. /\ g.agents \in [Agents -> AgentRecords] /\ g.agents[a] = y
      /\ \A c \in Agents : c # a => g.agents[c] = f.agents[c]
  BY HousedIsTyped
<1>2. Typed(g)
  BY <1>1, HousedIsTyped, TypedAgain
<1>3. Typed(f) /\ Seats(f) /\ Numbered(f, k) /\ Names(f) /\ Mapped(f) /\ Apart(f)
  BY DEF Housed
<1>4. Seats(g)
  <2>1. \A b : ShardList(g, b) = ShardList(f, b)
    BY DEF ShardList
  <2>2. \A s \in Shards : ShardFits(g, s)
    BY <1>3 DEF Seats, ShardFits
  <2>3. \A c \in Agents : g.agents[c].known = "no" => g.agents[c].shard = 0
    BY <1>1, <1>3 DEF Seats
  <2>4. ASSUME NEW c \in Agents, NEW r \in Shards, g.agents[c].known # "gone" PROVE SeatOf(g, c, r)
    <3>1. SeatOf(f, c, r)
      BY <1>1, <1>3, <2>4 DEF Seats
    <3>2. CASE g.agents[c].shard = f.agents[c].shard
      BY <3>1, <3>2 DEF SeatOf
    <3>3. CASE c = a /\ y.shard = 0 /\ \A q \in Shards : ~Holds(f.shards[q].members, a)
      <4>1. 0 \notin Shards
        BY ShardsFinite
      <4> QED BY <1>1, <3>1, <3>3, <4>1 DEF SeatOf
    <3> QED BY <1>1, <3>2, <3>3
  <2> QED BY <1>3, <2>1, <2>2, <2>3, <2>4 DEF Seats
<1>5. Numbered(g, k)
  BY <1>3 DEF Numbered, Dead
<1>6. ASSUME NEW c \in Agents PROVE Owns(f, c, g.agents[c].session)
  BY <1>1, <1>3 DEF Names
<1>7. KeepsNames(f, g) /\ KeepsRunning(f, g)
  BY <1>3, <1>6, SameNames, Zenon
<1>8. KeepsMapped(f, g)
  BY <1>1 DEF KeepsMapped
<1> QED BY <1>2, <1>3, <1>4, <1>5, <1>7, <1>8, NamesKept, MappedKept, ApartKept DEF Housed

(* What becomes of the member of a dead shard: at most one recovery is new,  *)
(* on the shard the agent is on now.                                        *)
Relocates(f, g, a) ==
    /\ g.turns = f.turns
    /\ \E q : q.agent = a /\ q.shard = g.agents[a].shard /\ g.recoveries \subseteq f.recoveries \union {q}

(* An agent that is recovering, from a shard that it is a member of no more. *)
LEMMA RecoverAgentPlaced ==
    ASSUME NEW f, NEW k, Housed(f, k), NEW a \in Agents, f.agents[a].known = "yes",
           \A c \in Agents \ {a} : f.agents[c].status = "recovering" =>
               /\ f.agents[c].known # "no"
               /\ f.agents[c].known = "yes" => \E r \in f.recoveries : r.agent = c
    PROVE  LET g == RecoverAgent(f, a)
           IN /\ Placed(g, k)
              /\ \A c \in Agents : /\ c # a => g.agents[c] = f.agents[c]
                                   /\ g.agents[c].known = f.agents[c].known
              /\ \A r \in Dead(f) : r \in Dead(g) /\ g.shards[r].members = f.shards[r].members
              /\ Relocates(f, g, a) /\ g.agents[a].status \in {"lost", f.agents[a].status}
<1>1. CASE CanAssign(f, a)
  <2> DEFINE g == Acquire(f, a)
             s == g.agents[a].shard
             r0 == [agent |-> a, shard |-> s, phase |-> "starting", session |-> 0]
             h == [g EXCEPT !.recoveries = @ \union {r0}]
             m == Start(h, s)
  <2>1. /\ Housed(g, k) /\ s \in Shards /\ g.recoveries = f.recoveries /\ g.turns = f.turns
        /\ \A c \in Agents : /\ c # a => g.agents[c] = f.agents[c]
                             /\ g.agents[c].known = f.agents[c].known
                             /\ g.agents[c].status = f.agents[c].status
        /\ \A r \in Dead(f) : g.shards[r] = f.shards[r]
    BY <1>1, AcquireHoused
  <2>2. RecoverAgent(f, a) = m
    BY <1>1 DEF RecoverAgent
  <2> HIDE DEF g, s
  <2>3. r0 \in Recoveries /\ r0.agent = a /\ r0.shard = s /\ r0.session = 0 /\ r0.phase = "starting"
    <3>1. 0 \in Sessions
      BY LimitsAssumption DEF Sessions
    <3> QED BY <2>1, <3>1 DEF Recoveries
  <2>4. /\ IsFleet(h) /\ h.agents = g.agents /\ h.shards = g.shards /\ h.turns = g.turns
        /\ h.queue = g.queue /\ h.exceeded = g.exceeded /\ h.recoveries = g.recoveries \union {r0}
    BY <2>1, HousedIsTyped DEF IsFleet
  <2> HIDE DEF h, r0
  <2>5. /\ Typed(g) /\ Seats(g) /\ Numbered(g, k) /\ Names(g) /\ Mapped(g) /\ Apart(g)
    BY <2>1 DEF Housed
  <2>6. Typed(h)
    <3>1. h.recoveries \subseteq Recoveries
      BY <2>1, <2>3, <2>4, HousedIsTyped
    <3> QED BY <2>1, <2>4, <3>1, HousedIsTyped, TypedAgain
  <2>7. Seats(h) /\ Numbered(h, k)
    <3>1. KeepsSeats(g, h)
      BY <2>4 DEF KeepsSeats
    <3> QED BY <2>5, <3>1, SeatsKept
  <2>8. Names(h)
    <3>1. \A r \in h.recoveries : Owns(h, r.agent, r.session)
      BY <2>3, <2>4, <2>5 DEF Names, Owns
    <3>2. \A t \in Turns : Owns(h, h.turns[t].agent, h.turns[t].session)
      BY <2>4, <2>5 DEF Names, Owns
    <3>3. \A c \in Agents : Owns(h, c, h.agents[c].session)
      BY <2>4, <2>5 DEF Names, Owns
    <3> QED BY <2>4, <2>5, <3>1, <3>2, <3>3 DEF Names
  <2>9. Mapped(h) /\ Apart(h)
    BY <2>3, <2>4, <2>5 DEF Mapped, Apart
  <2>10. Worked(h)
    <3>1. ASSUME NEW c \in Agents, h.agents[c].status = "recovering"
          PROVE  /\ h.agents[c].known # "no"
                 /\ h.agents[c].known = "yes" => \E r \in h.recoveries : r.agent = c
      <4>1. CASE c = a
        BY <2>1, <2>3, <2>4, <4>1
      <4>2. CASE c # a
        <5>1. f.agents[c].status = "recovering" /\ h.agents[c] = f.agents[c]
          BY <2>1, <2>4, <3>1, <4>2
        <5>2. /\ f.agents[c].known # "no"
              /\ f.agents[c].known = "yes" => \E r \in f.recoveries : r.agent = c
          BY <4>2, <5>1
        <5> QED BY <2>1, <2>4, <5>1, <5>2
      <4> QED BY <4>1, <4>2
    <3> QED BY <3>1 DEF Worked
  <2>11. Placed(h, k)
    BY <2>6, <2>7, <2>8, <2>9, <2>10 DEF Placed, Housed
  <2>12. Placed(m, k)
    <3>1. Housed(m, k) /\ (Worked(h) => Worked(m))
      BY <2>1, <2>11, StartHoused DEF Placed
    <3> QED BY <2>11, <3>1 DEF Placed
  <2>13. /\ m.agents = h.agents /\ m.turns = h.turns /\ m.recoveries = h.recoveries
         /\ \E z \in ShardRecords :
               /\ m.shards = [h.shards EXCEPT ![s] = z]
               /\ z.backend = h.shards[s].backend /\ z.tracked = h.shards[s].tracked
               /\ z.members = h.shards[s].members
    <3>1. IsFleet(h) /\ h.shards \in [Shards -> ShardRecords] /\ s \in Shards
      BY <2>1, <2>11, PlacedIsTyped
    <3>2. /\ m.agents = h.agents /\ m.turns = h.turns /\ m.recoveries = h.recoveries
          /\ \E z \in ShardRecords :
                /\ m.shards = [h.shards EXCEPT ![s] = z]
                /\ z.backend = h.shards[s].backend /\ z.tracked = h.shards[s].tracked
                /\ z.members = h.shards[s].members /\ z.mapped = h.shards[s].mapped
      BY <3>1, StartEffect, Zenon
    <3> HIDE DEF m
    <3> QED BY <3>2
  <2> HIDE DEF m
  <2>14. \A r \in Shards : /\ m.shards[r].backend = h.shards[r].backend
                           /\ m.shards[r].tracked = h.shards[r].tracked
                           /\ m.shards[r].members = h.shards[r].members
    <3>1. h.shards \in [Shards -> ShardRecords]
      BY <2>11, PlacedIsTyped
    <3> QED BY <2>1, <2>13, <3>1
  <2>15. \A r \in Dead(f) : r \in Dead(m) /\ m.shards[r].members = f.shards[r].members
    BY <2>1, <2>4, <2>14 DEF Dead
  <2>16. Relocates(f, m, a)
    <3>1. m.agents[a].shard = s
      BY <2>4, <2>13 DEF s
    <3>2. m.turns = f.turns /\ m.recoveries \subseteq f.recoveries \union {r0}
      BY <2>1, <2>4, <2>13
    <3> QED BY <2>3, <3>1, <3>2 DEF Relocates
  <2> QED BY <2>1, <2>2, <2>4, <2>12, <2>13, <2>15, <2>16
<1>2. CASE ~CanAssign(f, a)
  <2> DEFINE x == f.agents[a]
             y == [x EXCEPT !.status = "lost"]
             g == [f EXCEPT !.agents[a].status = "lost"]
  <2>1. RecoverAgent(f, a) = g
    BY <1>2 DEF RecoverAgent
  <2>2. /\ IsFleet(g) /\ g.agents = [f.agents EXCEPT ![a] = y] /\ g.turns = f.turns /\ g.shards = f.shards
        /\ g.queue = f.queue /\ g.exceeded = f.exceeded /\ g.recoveries = f.recoveries
    BY HousedIsTyped DEF IsFleet
  <2>3. x \in AgentRecords /\ f.agents \in [Agents -> AgentRecords]
    BY HousedIsTyped
  <2> HIDE DEF x, g
  <2>4. y \in AgentRecords /\ y.known = x.known /\ y.session = x.session /\ y.shard = x.shard /\ y.status = "lost"
    BY <2>3 DEF AgentRecords
  <2> HIDE DEF y
  <2>5. Housed(g, k)
    BY <2>2, <2>4, AgentHoused, ZenonT(60) DEF x
  <2>6. g.agents[a] = y /\ \A c \in Agents : c # a => g.agents[c] = f.agents[c]
    BY <2>2, <2>3
  <2>7. Worked(g)
    BY <2>2, <2>4, <2>6 DEF Worked
  <2>8. \A r \in Dead(f) : r \in Dead(g) /\ g.shards[r].members = f.shards[r].members
    BY <2>2 DEF Dead
  <2>9. \A c \in Agents : g.agents[c].known = f.agents[c].known
    BY <2>4, <2>6 DEF x
  <2>10. Relocates(f, g, a)
    <3> DEFINE q == [agent |-> a, shard |-> g.agents[a].shard]
    <3>1. q.agent = a /\ q.shard = g.agents[a].shard
      OBVIOUS
    <3> HIDE DEF q
    <3> QED BY <2>2, <3>1 DEF Relocates
  <2> QED BY <2>1, <2>4, <2>5, <2>6, <2>7, <2>8, <2>9, <2>10 DEF Placed
<1> QED BY <1>1, <1>2

(* A member of a dead shard that is marked as recovering has left it.       *)
LEMMA LeftHoused ==
    ASSUME NEW f, NEW k, Housed(f, k), Ledger(f), NEW a \in Agents, f.agents[a].known = "yes",
           NEW s \in Shards, f.agents[a].shard = s, f.shards[s].members = <<>>
    PROVE  LET h == [f EXCEPT !.agents[a].status = "recovering", !.agents[a].shard = 0]
           IN /\ Housed(h, k) /\ Ledger(h) /\ h.agents[a].status = "recovering" /\ h.agents[a].shard = 0
              /\ h.turns = f.turns /\ h.queue = f.queue /\ h.shards = f.shards /\ h.recoveries = f.recoveries
              /\ \A b \in Agents : /\ b # a => h.agents[b] = f.agents[b]
                                   /\ h.agents[b].known = f.agents[b].known
<1> DEFINE x == f.agents[a]
           y == [x EXCEPT !.status = "recovering", !.shard = 0]
           h == [f EXCEPT !.agents[a].status = "recovering", !.agents[a].shard = 0]
<1>1. x \in AgentRecords /\ f.agents \in [Agents -> AgentRecords] /\ IsFleet(f)
  BY HousedIsTyped
<1>2. /\ IsFleet(h) /\ h.agents = [f.agents EXCEPT ![a] = y] /\ h.turns = f.turns /\ h.shards = f.shards
      /\ h.queue = f.queue /\ h.active = f.active /\ h.exceeded = f.exceeded /\ h.recoveries = f.recoveries
  BY <1>1, Zenon DEF IsFleet
<1> HIDE DEF x, h
<1>3. y \in AgentRecords /\ y.known = x.known /\ y.session = x.session /\ y.shard = 0 /\ y.status = "recovering"
  BY <1>1, Zenon DEF AgentRecords
<1> HIDE DEF y
<1>4. ASSUME NEW r \in Shards PROVE ~Holds(f.shards[r].members, a)
  <2>1. SeatOf(f, a, r)
    BY DEF Housed, Seats
  <2>2. CASE r = s
    <3>1. Len(f.shards[r].members) = 0
      BY <2>2
    <3> QED BY <3>1 DEF Holds
  <2>3. CASE r # s
    BY <2>1, <2>3 DEF SeatOf
  <2> QED BY <2>2, <2>3
<1>5. Housed(h, k)
  <2>1. y.known = f.agents[a].known /\ y.session = f.agents[a].session /\ y.known # "no"
    BY <1>3 DEF x
  <2> QED BY <1>2, <1>3, <1>4, <2>1, AgentHoused, Zenon
<1>6. h.agents[a] = y /\ \A b \in Agents : b # a => h.agents[b] = f.agents[b]
  BY <1>1, <1>2
<1>7. Ledger(h)
  <2>1. Shapes(h) /\ SameStanding(f, h)
    BY <1>2, <1>5, SoundShape DEF Housed, SameStanding
  <2> QED BY <2>1, StandingKeepsLedger
<1>8. \A b \in Agents : h.agents[b].known = f.agents[b].known
  BY <1>3, <1>6 DEF x
<1> QED BY <1>2, <1>3, <1>5, <1>6, <1>7, <1>8 DEF h

LEMMA LoseMemberPlaced ==
    ASSUME NEW f, NEW k, Sound(f, k), NEW a \in Agents, NEW s \in Shards,
           s \in Dead(f), f.shards[s].members = <<>>,
           f.agents[a].known = "yes" => f.agents[a].shard = s, NEW n, NEW c, Ranked(c)
    PROVE  LET g == LoseMember(f, a, n, c)
           IN /\ Sound(g, k) /\ s \in Dead(g) /\ g.shards[s].members = <<>>
              /\ \A b \in Agents : /\ g.agents[b].known = f.agents[b].known
                                   /\ b # a /\ f.agents[b].shard # 0 => g.agents[b].shard = f.agents[b].shard
<1> DEFINE Fine(g) == /\ s \in Dead(g) /\ g.shards[s].members = <<>>
                      /\ \A b \in Agents : /\ g.agents[b].known = f.agents[b].known
                                           /\ b # a /\ f.agents[b].shard # 0 => g.agents[b].shard = f.agents[b].shard
<1>a. ASSUME NEW g, NEW h, Fine(g), Fills(g, h) PROVE Fine(h)
  BY <1>a DEF Fills
<1>1. CASE ~Registered(f, a)
  BY <1>1 DEF LoseMember, Registered
<1>2. CASE Registered(f, a) /\ (a \in Ephemeral \/ ~autoRecover)
  <2> DEFINE x == f.agents[a]
             y == [x EXCEPT !.status = "lost"]
             g == [f EXCEPT !.agents[a].status = "lost"]
  <2>1. x \in AgentRecords /\ f.agents \in [Agents -> AgentRecords] /\ IsFleet(f)
    BY PlacedIsTyped DEF Sound
  <2>2. /\ IsFleet(g) /\ g.agents = [f.agents EXCEPT ![a] = y] /\ g.turns = f.turns /\ g.shards = f.shards
        /\ g.queue = f.queue /\ g.active = f.active /\ g.exceeded = f.exceeded /\ g.recoveries = f.recoveries
    BY <2>1 DEF IsFleet
  <2>3. LoseMember(f, a, n, c) = Hears(g, "shardLost", n, c)
    BY <1>2, Zenon DEF LoseMember
  <2> HIDE DEF x, g
  <2>4. y \in AgentRecords /\ y.known = x.known /\ y.session = x.session /\ y.shard = x.shard /\ y.status = "lost"
    BY <2>1 DEF AgentRecords
  <2> HIDE DEF y
  <2>5. Owns(f, a, y.session)
    BY <2>4 DEF x, Sound, Placed, Housed, Names
  <2>6. Sound(g, k)
    <3>1. y.known = f.agents[a].known /\ y.shard = f.agents[a].shard
      BY <2>4 DEF x
    <3> QED BY <2>2, <2>4, <2>5, <3>1, AgentSound, Zenon
  <2>7. g.agents[a] = y /\ \A b \in Agents : b # a => g.agents[b] = f.agents[b]
    BY <2>1, <2>2
  <2>8. Fine(g)
    <3>1. s \in Dead(g) /\ g.shards[s].members = <<>>
      BY <2>2 DEF Dead
    <3>2. \A b \in Agents : g.agents[b].known = f.agents[b].known
      BY <2>4, <2>7 DEF x
    <3> QED BY <2>7, <3>1, <3>2
  <2> HIDE DEF Fine
  <2>9. Sound(Hears(g, "shardLost", n, c), k) /\ Fine(Hears(g, "shardLost", n, c))
    BY <1>a, <2>6, <2>8, HearsSound, Zenon
  <2> QED BY <2>3, <2>9 DEF Fine
<1>3. CASE Registered(f, a) /\ ~(a \in Ephemeral \/ ~autoRecover)
  <2> DEFINE h == [f EXCEPT !.agents[a].status = "recovering", !.agents[a].shard = 0]
             m == Hears(h, "shardLost", n, c)
             g == RecoverAgent(m, a)
  <2>1. LoseMember(f, a, n, c) = g \/ LoseMember(f, a, n, c) = Hears(g, "agentLost", n, c)
    BY <1>3, Zenon DEF LoseMember
  <2>2. Housed(f, k) /\ Worked(f) /\ Ledger(f) /\ f.agents[a].known = "yes" /\ f.agents[a].shard = s
    BY <1>3 DEF Sound, Placed, Registered
  <2>3. /\ Housed(h, k) /\ Ledger(h) /\ h.agents[a].status = "recovering" /\ h.agents[a].shard = 0
        /\ h.turns = f.turns /\ h.queue = f.queue /\ h.shards = f.shards /\ h.recoveries = f.recoveries
        /\ \A b \in Agents : /\ b # a => h.agents[b] = f.agents[b]
                             /\ h.agents[b].known = f.agents[b].known
    <3>1. f.shards[s].members = <<>>
      OBVIOUS
    <3> QED BY <2>2, <3>1, LeftHoused, Zenon
  <2> HIDE DEF h, m, g
  <2>4. Fine(h)
    BY <2>3 DEF Dead
  <2>5. Grows(h, m, k)
    BY <2>3, HearsHoused, Zenon DEF m
  <2>6. Housed(m, k) /\ Ledger(m) /\ Fills(h, m)
    BY <2>5 DEF Grows
  <2> HIDE DEF Fine
  <2>7. Fine(m)
    BY <1>a, <2>4, <2>6
  <2>8. m.agents[a].known = "yes"
    BY <2>2, <2>3, <2>6 DEF Fills
  <2>9. ASSUME NEW b \in Agents \ {a}, m.agents[b].status = "recovering"
        PROVE  /\ m.agents[b].known # "no"
               /\ m.agents[b].known = "yes" => \E r \in m.recoveries : r.agent = b
    <3>1. h.agents[b].status = "recovering" /\ m.agents[b].known = h.agents[b].known /\ m.recoveries = f.recoveries
      BY <2>3, <2>6, <2>9 DEF Fills
    <3>2. h.agents[b] = f.agents[b]
      BY <2>3
    <3> QED BY <2>2, <3>1, <3>2 DEF Worked
  <2>10. /\ Placed(g, k)
         /\ \A b \in Agents : /\ b # a => g.agents[b] = m.agents[b]
                              /\ g.agents[b].known = m.agents[b].known
         /\ \A r \in Dead(m) : r \in Dead(g) /\ g.shards[r].members = m.shards[r].members
    BY <2>6, <2>8, <2>9, RecoverAgentPlaced, Zenon DEF g
  <2>11. Sound(g, k)
    <3>1. FleetShape(m) /\ a \in Ids
      BY <2>6 DEF Ledger, Shapes, Ids
    <3>2. FleetShape(g) /\ SameBooks(m, g)
      BY <3>1, RecoverAgentKeepsBooks DEF g
    <3> QED BY <2>6, <2>10, <3>2, BooksKeepLedger DEF Sound
  <2>12. Fine(g)
    BY <2>7, <2>10 DEF Fine
  <2>13. Sound(Hears(g, "agentLost", n, c), k) /\ Fine(Hears(g, "agentLost", n, c))
    BY <1>a, <2>11, <2>12, HearsSound, Zenon
  <2> QED BY <2>1, <2>11, <2>12, <2>13 DEF Fine
<1> QED BY <1>1, <1>2, <1>3

(* The members are visited in turn. Those not visited yet are still where   *)
(* they were, for an agent that is not retired is a member only once.       *)
LEMMA LoseMembersPlaced ==
    ASSUME NEW f, NEW k, Sound(f, k), NEW s \in Shards, s \in Dead(f), f.shards[s].members = <<>>,
           NEW list \in Seq(Agents),
           \A i \in 1..Len(list) : f.agents[list[i]].known = "yes" =>
               f.agents[list[i]].shard = s /\ Once(list, list[i]),
           NEW c, Ranked(c)
    PROVE  Sound(LoseMembers(f, list, c), k)
<1> DEFINE N == Len(list)
<1>1. N \in Nat /\ \A i \in 1..N : list[i] \in Agents
  OBVIOUS
<1>2. PICK h : LoseLoop(f, list, c, h, N) /\ LoseMembers(f, list, c) = h[N]
  BY <1>1, LoseMembersUnfold
<1> HIDE DEF N
<1> DEFINE Good(g, n) ==
               /\ Sound(g, k) /\ s \in Dead(g) /\ g.shards[s].members = <<>>
               /\ \A b \in Agents : g.agents[b].known = f.agents[b].known
               /\ \A j \in 1..N : j > n /\ f.agents[list[j]].known = "yes" => g.agents[list[j]].shard = s
           T == {n \in 0..N : ~Good(h[n], n)}
<1>3. ASSUME T # {} PROVE FALSE
  <2>1. PICK n \in T : \A m \in T : n <= m
    BY <1>1, <1>3, Least, Zenon
  <2>2. n \in Nat /\ n <= N
    BY <1>1, <2>1
  <2>3. CASE n = 0
    <3>1. h[n] = f
      BY <1>1, <1>2, <2>3 DEF LoseLoop
    <3>2. Good(f, n)
      BY DEF N
    <3> QED BY <2>1, <3>1, <3>2
  <2>4. CASE n # 0
    <3>1. n - 1 \in 0..N /\ n - 1 \notin T /\ n \in 1..N
      <4>1. n - 1 \in 0..N /\ n \in 1..N
        BY <1>1, <2>2, <2>4
      <4>2. \A m \in T : n <= m
        BY <2>1
      <4> HIDE DEF T
      <4>3. n - 1 \notin T
        BY <2>2, <4>2
      <4> QED BY <4>1, <4>3
    <3>2. Good(h[n - 1], n - 1)
      BY <3>1, Zenon
    <3> DEFINE a == list[n]
               g == h[n - 1]
               m == h[n]
    <3>3. m = LoseMember(g, a, n, c)
      BY <1>2, <2>1, <2>2, <2>4, Zenon DEF LoseLoop
    <3>4. a \in Agents
      BY <1>1, <3>1
    <3> HIDE DEF m, g
    <3>5. g.agents[a].known = "yes" => g.agents[a].shard = s
      <4>1. n > n - 1
        BY <2>2
      <4> QED BY <3>1, <3>2, <3>4, <4>1 DEF g
    <3>6. /\ Sound(m, k) /\ s \in Dead(m) /\ m.shards[s].members = <<>>
          /\ \A b \in Agents : /\ m.agents[b].known = g.agents[b].known
                               /\ b # a /\ g.agents[b].shard # 0 => m.agents[b].shard = g.agents[b].shard
      <4>1. Sound(g, k) /\ s \in Dead(g) /\ g.shards[s].members = <<>>
        BY <3>2 DEF g
      <4> HIDE DEF Good, T, a
      <4>2. m = LoseMember(g, a, n, c)
        BY <3>3
      <4> QED BY <3>4, <3>5, <4>1, <4>2, LoseMemberPlaced
    <3>7. ASSUME NEW j \in 1..N, j > n, f.agents[list[j]].known = "yes" PROVE m.agents[list[j]].shard = s
      <4>1. list[j] \in Agents /\ j > n - 1
        BY <1>1, <2>2, <3>7
      <4>2. g.agents[list[j]].shard = s /\ s # 0
        BY <3>2, <3>7, <4>1, ShardsFinite DEF g
      <4>3. list[j] # a
        <5>1. Once(list, list[j])
          BY <3>7 DEF N
        <5>2. list[j] = list[n] => j = n
          BY <3>1, <5>1 DEF Once, N
        <5> QED BY <2>2, <3>7, <5>2
      <4> QED BY <3>6, <4>1, <4>2, <4>3
    <3>8. \A b \in Agents : m.agents[b].known = f.agents[b].known
      BY <3>2, <3>6 DEF g
    <3>9. Good(m, n)
      BY <3>6, <3>7, <3>8
    <3> QED BY <2>1, <3>9 DEF m
  <2> QED BY <2>3, <2>4
<1>4. Good(h[N], N)
  <2>1. N \in 0..N
    BY <1>1
  <2> QED BY <1>3, <2>1
<1> QED BY <1>2, <1>4
-----------------------------------------------------------------------------
(* A turn starts to run, on its agent's session or on one it has opened.    *)
LEMMA OpenSound ==
    ASSUME NEW f, NEW k, Sound(f, k), NEW t \in Turns, NEW x \in Turns, f.turns[t].phase = "opening",
           x = t \/ Owns(f, f.turns[t].agent, x),
           \A u \in Turns : u # t /\ f.turns[u].phase = "running" =>
               f.turns[u].shard # f.turns[t].shard \/ f.turns[u].session # x
    PROVE  Sound(Open(f, t, x), k)
<1> DEFINE v == f.turns[t]
           s == v.shard
           a == v.agent
           y == [f.agents[a] EXCEPT !.session = x,
                                    !.status = IF Registered(f, a) THEN "ready" ELSE @]
           w == [f.shards[s] EXCEPT !.sess[x] = "open", !.mapped = @ \union {x}]
           z == [v EXCEPT !.phase = "running", !.session = x]
           g == Open(f, t, x)
<1>1. /\ IsFleet(f) /\ f.agents \in [Agents -> AgentRecords] /\ f.shards \in [Shards -> ShardRecords]
      /\ f.turns \in [Turns -> TurnRecords] /\ f.queue \in Seq(Turns)
      /\ f.exceeded \in BOOLEAN /\ f.recoveries \subseteq Recoveries
      /\ \A u \in Turns : f.turns[u].phase \in Sharded => f.turns[u].shard # 0
  BY PlacedIsTyped DEF Sound
<1>2. v \in TurnRecords /\ s \in Shards /\ a \in Agents /\ s # 0
  <2>1. f.turns[t].phase \in Sharded
    BY DEF Sharded, InFlightPhases
  <2> QED BY <2>1, TurnIsTyped DEF Sound
<1>3. /\ IsFleet(g) /\ g.queue = f.queue /\ g.active = f.active /\ g.exceeded = f.exceeded
      /\ g.recoveries = f.recoveries
      /\ g.agents = [f.agents EXCEPT ![a] = y]
      /\ g.shards = [f.shards EXCEPT ![s] = w]
      /\ g.turns = [f.turns EXCEPT ![t] = z]
  BY <1>1, <1>2, ZenonT(60) DEF Open, IsFleet
<1>4. x \in Sessions /\ x # 0
  BY LimitsAssumption DEF Sessions, Turns
<1>5. /\ f.agents[a] \in AgentRecords /\ f.shards[s] \in ShardRecords
  BY <1>1, <1>2
<1> HIDE DEF g
<1>6. /\ y \in AgentRecords /\ y.known = f.agents[a].known /\ y.shard = f.agents[a].shard
      /\ y.session = x /\ y.status \in {f.agents[a].status, "ready"}
  BY <1>4, <1>5, Zenon DEF AgentRecords
<1>7. /\ w \in ShardRecords /\ w.backend = f.shards[s].backend /\ w.tracked = f.shards[s].tracked
      /\ w.members = f.shards[s].members /\ w.mapped = f.shards[s].mapped \union {x}
  BY <1>4, <1>5, Zenon DEF ShardRecords
<1>8. z \in TurnRecords /\ z.agent = a /\ z.phase = "running" /\ z.session = x /\ z.shard = s
  BY <1>2, <1>4, Zenon DEF TurnRecords, Phases, Sharded, InFlightPhases
<1> HIDE DEF y, w, z
<1>9. /\ g.agents \in [Agents -> AgentRecords] /\ g.agents[a] = y
      /\ \A c \in Agents : c # a => g.agents[c] = f.agents[c]
  BY <1>1, <1>2, <1>3, <1>6
<1>10. /\ g.shards \in [Shards -> ShardRecords] /\ g.shards[s] = w
       /\ \A r \in Shards : r # s => g.shards[r] = f.shards[r]
  BY <1>1, <1>2, <1>3, <1>7
<1>11. /\ g.turns \in [Turns -> TurnRecords] /\ g.turns[t] = z
       /\ \A u \in Turns : u # t => g.turns[u] = f.turns[u]
  BY <1>1, <1>3, <1>8
<1>12. Typed(g)
  <2>1. ASSUME NEW u \in Turns, g.turns[u].phase \in Sharded PROVE g.turns[u].shard # 0
    BY <1>1, <1>2, <1>8, <1>11, <2>1
  <2> QED BY <1>1, <1>3, <1>9, <1>10, <1>11, <2>1, TypedAgain, Zenon
<1>13. Seats(f) /\ Numbered(f, k) /\ Names(f) /\ Mapped(f) /\ Apart(f) /\ Worked(f)
  BY DEF Sound, Placed, Housed
<1>14. Seats(g) /\ Numbered(g, k)
  <2>1. KeepsSeats(f, g)
    BY <1>3, <1>6, <1>7, <1>9, <1>10, Zenon DEF KeepsSeats
  <2> QED BY <1>13, <2>1, SeatsKept, Zenon
<1>15. Worked(g)
  <2>1. KeepsWorked(f, g)
    BY <1>3, <1>6, <1>9 DEF KeepsWorked
  <2> QED BY <1>13, <2>1, WorkedKept
<1>16. Names(g)
  <2>1. ASSUME NEW c, NEW q \in Sessions, Owns(f, c, q) PROVE Owns(g, c, q)
    <3>1. CASE q = 0
      BY <3>1 DEF Owns
    <3>2. CASE q # 0
      <4>1. q \in Turns
        BY <3>2, LimitsAssumption DEF Sessions, Turns
      <4>2. f.turns[q].agent = c /\ f.turns[q].phase \notin Unopened
        BY <2>1, <3>2 DEF Owns
      <4>3. q # t
        BY <4>2 DEF Unopened
      <4> QED BY <1>11, <4>1, <4>2, <4>3 DEF Owns
    <3> QED BY <3>1, <3>2
  <2>2. Owns(g, a, x)
    <3>1. CASE x = t
      BY <1>8, <1>11, <3>1 DEF Owns, Unopened
    <3>2. CASE x # t
      BY <1>4, <2>1, <3>2
    <3> QED BY <3>1, <3>2
  <2>3. /\ \A c \in Agents : f.agents[c].session \in Sessions
        /\ \A u \in Turns : f.turns[u].session \in Sessions
        /\ \A r \in f.recoveries : r.session \in Sessions
    BY <1>1 DEF AgentRecords, TurnRecords, Recoveries
  <2>4. ASSUME NEW c \in Agents PROVE Owns(g, c, g.agents[c].session)
    BY <1>6, <1>9, <1>13, <2>1, <2>2, <2>3 DEF Names
  <2>5. ASSUME NEW u \in Turns PROVE Owns(g, g.turns[u].agent, g.turns[u].session)
    BY <1>8, <1>11, <1>13, <2>1, <2>2, <2>3 DEF Names
  <2>6. ASSUME NEW r \in g.recoveries PROVE Owns(g, r.agent, r.session)
    BY <1>3, <1>13, <2>1, <2>3 DEF Names
  <2>7. ASSUME NEW u \in Turns PROVE g.turns[u].agent = f.turns[u].agent
    BY <1>8, <1>11
  <2>8. ASSUME NEW u \in Turns, g.turns[u].phase # "new" PROVE g.turns[u].agent \in Agents
    BY <1>2, <1>8, <1>11, <1>13, <2>8 DEF Names
  <2>9. ASSUME NEW i \in 1..Len(g.queue) PROVE g.turns[g.queue[i]].agent \in Agents
    <3>1. f.queue[i] \in Turns /\ f.turns[f.queue[i]].agent \in Agents
      BY <1>1, <1>3, <1>13 DEF Names
    <3> QED BY <1>3, <2>7, <3>1
  <2> QED BY <2>4, <2>5, <2>6, <2>8, <2>9 DEF Names
<1>17. Mapped(g)
  <2>1. \A r \in Shards : f.shards[r].mapped \subseteq g.shards[r].mapped
    BY <1>7, <1>10
  <2>2. \A c \in Agents : g.agents[c].known = f.agents[c].known
    BY <1>6, <1>9
  <2>3. ASSUME NEW u \in Turns, g.turns[u].phase = "running"
        PROVE  /\ g.turns[u].session # 0
               /\ g.agents[g.turns[u].agent].known # "gone" =>
                     g.turns[u].session \in g.shards[g.turns[u].shard].mapped
    <3>1. CASE u = t
      BY <1>4, <1>7, <1>8, <1>10, <1>11, <3>1
    <3>2. CASE u # t
      <4>1. g.turns[u] = f.turns[u] /\ f.turns[u].phase = "running"
        BY <1>11, <2>3, <3>2
      <4>2. f.turns[u].phase \in Sharded
        BY <4>1 DEF Sharded, InFlightPhases
      <4>3. f.turns[u].agent \in Agents /\ f.turns[u].shard \in Shards
        BY <4>2, TurnIsTyped DEF Sound
      <4> QED BY <1>13, <2>1, <2>2, <4>1, <4>3 DEF Mapped
    <3> QED BY <3>1, <3>2
  <2>4. ASSUME NEW r \in g.recoveries, r.phase = "resuming", r.session # 0, g.agents[r.agent].known # "gone"
        PROVE  r.session \in g.shards[r.shard].mapped
    <3>1. r \in f.recoveries /\ r.agent \in Agents /\ r.shard \in Shards
      BY <1>1, <1>3 DEF Recoveries
    <3> QED BY <1>13, <2>1, <2>2, <2>4, <3>1 DEF Mapped
  <2> QED BY <2>3, <2>4 DEF Mapped
<1>18. Apart(g)
  <2>1. ASSUME NEW u \in Turns, NEW m \in Turns, u # m, g.turns[u].phase = "running", g.turns[m].phase = "running"
        PROVE  g.turns[u].shard # g.turns[m].shard \/ g.turns[u].session # g.turns[m].session
    <3>1. CASE u = t
      BY <1>8, <1>11, <2>1, <3>1
    <3>2. CASE m = t
      BY <1>8, <1>11, <2>1, <3>2
    <3>3. CASE u # t /\ m # t
      BY <1>11, <1>13, <2>1, <3>3 DEF Apart
    <3> QED BY <3>1, <3>2, <3>3
  <2> QED BY <2>1 DEF Apart
<1>19. Placed(g, k)
  BY <1>12, <1>14, <1>15, <1>16, <1>17, <1>18 DEF Placed, Housed
<1>20. SameStanding(f, g)
  <2>1. \A u \in Turns : g.turns[u] = IF u = t THEN z ELSE f.turns[u]
    BY <1>11
  <2> QED BY <1>3, <1>8, <2>1 DEF SameStanding, Sharded, InFlightPhases
<1> QED BY <1>19, <1>20, StandingSound DEF g
-----------------------------------------------------------------------------
(* Shards that die, or that close() forgets: they are tracked no more.      *)
LEMMA UntrackedSound ==
    ASSUME NEW f, NEW g, NEW k, NEW l, Sound(f, k), IsFleet(g), g.shards \in [Shards -> ShardRecords],
           g.agents = f.agents, g.turns = f.turns, g.queue = f.queue, g.active = f.active,
           g.exceeded = f.exceeded, g.recoveries = f.recoveries,
           \A r \in Shards :
               /\ g.shards[r].backend = f.shards[r].backend /\ g.shards[r].mapped = f.shards[r].mapped
               /\ g.shards[r].tracked => f.shards[r].tracked
               /\ \/ g.shards[r].members = f.shards[r].members
                  \/ g.shards[r].members = <<>> /\ ~g.shards[r].tracked,
           Numbered(g, l)
    PROVE  Sound(g, l)
<1>1. Placed(f, k) /\ Typed(f) /\ Seats(f) /\ Names(f) /\ Mapped(f) /\ Apart(f) /\ Worked(f)
  BY DEF Sound, Placed, Housed
<1>2. Typed(g)
  BY <1>1, PlacedIsTyped, TypedAgain
<1>3. Seats(g)
  <2>1. ASSUME NEW b \in Backends PROVE Cardinality(ShardList(g, b)) <= maxProcesses
    <3>1. ShardList(g, b) \subseteq ShardList(f, b) /\ ShardList(f, b) \subseteq Shards
      BY DEF ShardList
    <3>2. ShardList(g, b) \in SUBSET Shards /\ ShardList(f, b) \in SUBSET Shards
      BY <3>1
    <3>3. IsFiniteSet(ShardList(f, b)) /\ Cardinality(ShardList(f, b)) \in Nat /\ Cardinality(ShardList(g, b)) \in Nat
      BY <3>2, ShardsFinite
    <3>4. Cardinality(ShardList(g, b)) <= Cardinality(ShardList(f, b))
      BY <3>1, <3>3, FS_Subset
    <3>5. Cardinality(ShardList(f, b)) <= maxProcesses
      BY <1>1 DEF Seats
    <3> QED BY <3>3, <3>4, <3>5, Limits
  <2>2. ASSUME NEW r \in Shards PROVE ShardFits(g, r)
    BY <1>1 DEF Seats, ShardFits
  <2>3. \A a \in Agents : g.agents[a].known = "no" => g.agents[a].shard = 0
    BY <1>1 DEF Seats
  <2>4. ASSUME NEW a \in Agents, NEW r \in Shards, g.agents[a].known # "gone" PROVE SeatOf(g, a, r)
    <3>1. SeatOf(f, a, r)
      BY <1>1, <2>4 DEF Seats
    <3>2. CASE g.shards[r].members = f.shards[r].members
      BY <3>1, <3>2 DEF SeatOf
    <3>3. CASE g.shards[r].members = <<>> /\ ~g.shards[r].tracked
      <4>1. Len(g.shards[r].members) = 0
        BY <3>3
      <4>2. ~Holds(g.shards[r].members, a) /\ Once(g.shards[r].members, a)
        BY <4>1 DEF Holds, Once
      <4> QED BY <3>1, <3>3, <4>2 DEF SeatOf
    <3> QED BY <3>2, <3>3
  <2> QED BY <2>1, <2>2, <2>3, <2>4 DEF Seats
<1>4. \A a \in Agents : Owns(f, a, g.agents[a].session)
  BY <1>1 DEF Names
<1>5. KeepsNames(f, g) /\ KeepsRunning(f, g)
  BY <1>1, <1>4, SameNames
<1>6. KeepsMapped(f, g)
  BY DEF KeepsMapped
<1>7. Worked(g)
  BY <1>1 DEF Worked
<1>8. Placed(g, l)
  BY <1>1, <1>2, <1>3, <1>5, <1>6, <1>7, NamesKept, MappedKept, ApartKept DEF Placed, Housed
<1>9. SameStanding(f, g)
  BY DEF SameStanding
<1> QED BY <1>8, <1>9, StandingSound

(* The dead shard, whose members are about to be visited.                   *)
Buried(f, s) == [f EXCEPT !.shards[s].tracked = FALSE, !.shards[s].members = <<>>]

LEMMA BuriedSound ==
    ASSUME NEW f, NEW k, Sound(f, k), k < Room, NEW s \in Shards, f.shards[s].backend # "none"
    PROVE  LET h == Buried(f, s)
               list == f.shards[s].members
           IN /\ Sound(h, k + 1) /\ s \in Dead(h) /\ h.shards[s].members = <<>>
              /\ h.agents = f.agents /\ h.turns = f.turns /\ h.queue = f.queue
              /\ h.recoveries = f.recoveries /\ list \in Seq(Agents)
              /\ \A i \in 1..Len(list) : h.agents[list[i]].known = "yes" =>
                    h.agents[list[i]].shard = s /\ Once(list, list[i])
<1> DEFINE x == f.shards[s]
           list == x.members
           z == [x EXCEPT !.tracked = FALSE, !.members = <<>>]
           h == [f EXCEPT !.shards[s].tracked = FALSE, !.shards[s].members = <<>>]
<1>1. /\ IsFleet(f) /\ f.shards \in [Shards -> ShardRecords] /\ x \in ShardRecords
      /\ Seats(f) /\ Numbered(f, k)
  BY PlacedIsTyped DEF Sound, Placed, Housed
<1>2. Buried(f, s) = h
  BY DEF Buried
<1>3. /\ IsFleet(h) /\ h.shards = [f.shards EXCEPT ![s] = z] /\ h.agents = f.agents /\ h.turns = f.turns
      /\ h.queue = f.queue /\ h.active = f.active /\ h.exceeded = f.exceeded /\ h.recoveries = f.recoveries
  BY <1>1, Zenon DEF IsFleet
<1> HIDE DEF x, h
<1>4. /\ z \in ShardRecords /\ z.backend = x.backend /\ z.tracked = FALSE /\ z.members = <<>>
      /\ z.mapped = x.mapped
  <2>1. <<>> \in Seq(Agents)
    OBVIOUS
  <2> QED BY <1>1, <2>1, Zenon DEF ShardRecords
<1> HIDE DEF z
<1>5. /\ h.shards \in [Shards -> ShardRecords] /\ h.shards[s] = z
      /\ \A r \in Shards : r # s => h.shards[r] = f.shards[r]
  BY <1>1, <1>3, <1>4
<1>6. Numbered(h, k + 1)
  <2>1. Dead(h) \subseteq Dead(f) \union {s} /\ Dead(f) \subseteq Shards
    BY <1>5 DEF Dead
  <2>2. Dead(f) \in SUBSET Shards /\ Dead(h) \in SUBSET Shards /\ Dead(f) \union {s} \in SUBSET Shards
    BY <2>1
  <2>3. /\ IsFiniteSet(Dead(f)) /\ Cardinality(Dead(f)) \in Nat /\ Cardinality(Dead(h)) \in Nat
        /\ IsFiniteSet(Dead(f) \union {s}) /\ Cardinality(Dead(f) \union {s}) \in Nat
    BY <2>2, ShardsFinite
  <2>4. Cardinality(Dead(f) \union {s}) <= Cardinality(Dead(f)) + 1
    BY <2>3, FS_AddElement
  <2>5. Cardinality(Dead(h)) <= Cardinality(Dead(f) \union {s})
    BY <2>1, <2>3, FS_Subset
  <2>6. k \in 0..Room /\ Cardinality(Dead(f)) <= k /\ Room \in Nat
    BY <1>1, Limits DEF Numbered
  <2> QED BY <2>3, <2>4, <2>5, <2>6 DEF Numbered
<1>7. Sound(h, k + 1)
  <2>1. \A r \in Shards :
            /\ h.shards[r].backend = f.shards[r].backend /\ h.shards[r].mapped = f.shards[r].mapped
            /\ h.shards[r].tracked => f.shards[r].tracked
            /\ \/ h.shards[r].members = f.shards[r].members
               \/ h.shards[r].members = <<>> /\ ~h.shards[r].tracked
    BY <1>4, <1>5 DEF x
  <2> QED BY <1>3, <1>5, <1>6, <2>1, UntrackedSound
<1>8. list \in Seq(Agents)
  BY <1>1 DEF ShardRecords
<1>9. ASSUME NEW i \in 1..Len(list), h.agents[list[i]].known = "yes"
      PROVE  h.agents[list[i]].shard = s /\ Once(list, list[i])
  <2>1. list[i] \in Agents /\ Holds(list, list[i])
    BY <1>8 DEF Holds
  <2>2. SeatOf(f, list[i], s)
    BY <1>1, <1>3, <1>9, <2>1 DEF Seats
  <2> QED BY <1>3, <2>1, <2>2 DEF SeatOf, x
<1>10. s \in Dead(h) /\ h.shards[s].members = <<>>
  BY <1>4, <1>5 DEF Dead, x
<1> QED BY <1>2, <1>3, <1>7, <1>8, <1>9, <1>10 DEF x

LEMMA LostSound ==
    ASSUME NEW f, NEW k, Sound(f, k), k < Room, NEW s \in Shards, f.shards[s].backend # "none",
           NEW c, Ranked(c)
    PROVE  Sound(LoseMembers(Hears(Buried(f, s), "shardLost", 0, c), f.shards[s].members, c), k + 1)
<1> DEFINE h == Buried(f, s)
           m == Hears(h, "shardLost", 0, c)
           list == f.shards[s].members
<1>1. /\ Sound(h, k + 1) /\ s \in Dead(h) /\ h.shards[s].members = <<>> /\ list \in Seq(Agents)
      /\ \A i \in 1..Len(list) : h.agents[list[i]].known = "yes" =>
            h.agents[list[i]].shard = s /\ Once(list, list[i])
  BY BuriedSound
<1> HIDE DEF h, list
<1>2. Sound(m, k + 1) /\ Fills(h, m)
  BY <1>1, HearsSound, Zenon
<1> HIDE DEF m
<1>3. s \in Dead(m) /\ m.shards[s].members = <<>>
  BY <1>1, <1>2 DEF Fills
<1>4. ASSUME NEW i \in 1..Len(list), m.agents[list[i]].known = "yes"
      PROVE  m.agents[list[i]].shard = s /\ Once(list, list[i])
  <2>1. list[i] \in Agents /\ s # 0
    BY <1>1, ShardsFinite
  <2> QED BY <1>1, <1>2, <1>4, <2>1 DEF Fills
<1>5. Sound(LoseMembers(m, list, c), k + 1)
  BY <1>1, <1>2, <1>3, <1>4, LoseMembersPlaced, Zenon
<1> QED BY <1>5 DEF m, h, list

LEMMA HandleShardLostSound ==
    ASSUME NEW f, NEW k, Sound(f, k), k < Room, NEW s \in Shards, f.shards[s].backend # "none",
           NEW c, Ranked(c)
    PROVE  Sound(HandleShardLost(f, s, c), k + 1)
<1>1. HandleShardLost(f, s, c)
         = DrainHeard(LoseMembers(Hears(Buried(f, s), "shardLost", 0, c), f.shards[s].members, c), c)
  BY DEF HandleShardLost, Buried
<1> QED BY <1>1, LostSound, DrainHeardSound
-----------------------------------------------------------------------------
(* An agent leaves its shard and the map.                                   *)
LEMMA OthersStay ==
    ASSUME NEW q \in Seq(Agents), NEW a
    PROVE  LET n == RemoveFirst(q, a)
           IN /\ n \in Seq(Agents) /\ Len(n) \in Nat /\ Len(n) <= Len(q)
              /\ \A c : c # a => /\ Holds(n, c) <=> Holds(q, c)
                                 /\ Once(q, c) => Once(n, c)
<1> DEFINE I == {i \in 1..Len(q) : q[i] = a}
           m == Min(I)
           n == RemoveFirst(q, a)
<1>1. CASE I = {}
  <2>1. n = q
    BY <1>1 DEF RemoveFirst
  <2>2. Len(q) \in Nat
    OBVIOUS
  <2> HIDE DEF n
  <2>3. Len(q) <= Len(q)
    BY <2>2
  <2> QED BY <2>1, <2>2, <2>3 DEF n
<1>2. CASE I # {}
  <2>1. Len(q) \in Nat /\ I \subseteq 0..Len(q)
    OBVIOUS
  <2>2. \E x \in I : \A y \in I : x <= y
    BY <1>2, <2>1, Least, Zenon
  <2>3. m \in 1..Len(q) /\ q[m] = a
    BY <2>2 DEF Min
  <2>4. n = RemoveAt(q, m)
    BY <1>2 DEF RemoveFirst, SelectInSeq
  <2> HIDE DEF m, n
  <2>5. /\ n \in Seq(Agents) /\ Len(n) = Len(q) - 1
        /\ \A j \in 1..(Len(q) - 1) : n[j] = IF j < m THEN q[j] ELSE q[j + 1]
    BY <2>3, <2>4, RemovedAt, Zenon
  <2>6. m \in Nat /\ m >= 1 /\ m <= Len(q)
    BY <2>1, <2>3
  <2>7. /\ \A j \in 1..Len(n) : j < m => j \in 1..Len(q) /\ n[j] = q[j]
        /\ \A j \in 1..Len(n) : ~(j < m) => j + 1 \in 1..Len(q) /\ n[j] = q[j + 1]
        /\ \A i \in 1..Len(q) : i < m => i \in 1..Len(n) /\ n[i] = q[i]
        /\ \A i \in 1..Len(q) : i > m => i - 1 \in 1..Len(n) /\ n[i - 1] = q[i]
    BY <2>1, <2>5, <2>6
  <2>8. ASSUME NEW c, c # a PROVE (Holds(n, c) <=> Holds(q, c)) /\ (Once(q, c) => Once(n, c))
    <3>1. ASSUME Holds(n, c) PROVE Holds(q, c)
      BY <2>7, <3>1 DEF Holds
    <3>2. ASSUME Holds(q, c) PROVE Holds(n, c)
      <4>1. PICK i \in 1..Len(q) : q[i] = c
        BY <3>2 DEF Holds
      <4>2. i < m \/ i > m
        BY <2>1, <2>3, <2>6, <2>8, <4>1
      <4> QED BY <2>7, <4>1, <4>2 DEF Holds
    <3>3. ASSUME Once(q, c), NEW i \in 1..Len(n), NEW j \in 1..Len(n), n[i] = c, n[j] = c PROVE i = j
      <4>1. \A x, y \in 1..Len(q) : q[x] = c /\ q[y] = c => x = y
        BY <3>3 DEF Once
      <4>2. CASE i < m /\ j < m
        BY <2>7, <3>3, <4>1, <4>2
      <4>3. CASE ~(i < m) /\ ~(j < m)
        <5>1. i + 1 = j + 1
          BY <2>7, <3>3, <4>1, <4>3
        <5> QED BY <2>5, <5>1
      <4>4. CASE i < m /\ ~(j < m)
        <5>1. i = j + 1
          BY <2>7, <3>3, <4>1, <4>4
        <5> QED BY <2>5, <2>6, <4>4, <5>1
      <4>5. CASE ~(i < m) /\ j < m
        <5>1. j = i + 1
          BY <2>7, <3>3, <4>1, <4>5
        <5> QED BY <2>5, <2>6, <4>5, <5>1
      <4> QED BY <4>2, <4>3, <4>4, <4>5
    <3> QED BY <3>1, <3>2, <3>3 DEF Once
  <2>9. Len(n) \in Nat /\ Len(n) <= Len(q)
    BY <2>1, <2>5, <2>6
  <2> QED BY <2>5, <2>8, <2>9 DEF n
<1> QED BY <1>1, <1>2

(* With the agent goes the mapping of its session, which is of no other.    *)
Vacates(f, h, a) ==
    \A r \in Shards :
        /\ h.shards[r].backend = f.shards[r].backend /\ h.shards[r].tracked = f.shards[r].tracked
        /\ f.shards[r].mapped \ {f.agents[a].session} \subseteq h.shards[r].mapped
        /\ \/ h.shards[r].members = f.shards[r].members
           \/ h.shards[r].members = RemoveFirst(f.shards[r].members, a)

LEMMA GonePlaced ==
    ASSUME NEW f, NEW h, NEW k, NEW a \in Agents, NEW y \in AgentRecords, Placed(f, k), IsFleet(h),
           h.shards \in [Shards -> ShardRecords],
           h.agents = [f.agents EXCEPT ![a] = y], h.turns = f.turns, h.queue = f.queue,
           h.exceeded = f.exceeded, h.recoveries = f.recoveries,
           y.known = "gone" /\ y.status = "retired" /\ y.session = f.agents[a].session,
           Vacates(f, h, a)
    PROVE  Placed(h, k)
<1>1. /\ h.agents \in [Agents -> AgentRecords] /\ h.agents[a] = y
      /\ \A c \in Agents : c # a => h.agents[c] = f.agents[c]
  BY PlacedIsTyped
<1>2. Typed(f) /\ Seats(f) /\ Numbered(f, k) /\ Names(f) /\ Mapped(f) /\ Apart(f) /\ Worked(f)
  BY DEF Placed, Housed
<1>3. Typed(h)
  BY <1>1, PlacedIsTyped, TypedAgain
<1>4. ASSUME NEW r \in Shards
      PROVE  /\ h.shards[r].members \in Seq(Agents) /\ Len(h.shards[r].members) \in Nat
             /\ Len(f.shards[r].members) \in Nat
             /\ Len(h.shards[r].members) <= Len(f.shards[r].members)
             /\ \A c : c # a => /\ Holds(h.shards[r].members, c) <=> Holds(f.shards[r].members, c)
                                /\ Once(f.shards[r].members, c) => Once(h.shards[r].members, c)
  <2>1. f.shards[r].members \in Seq(Agents) /\ Len(f.shards[r].members) \in Nat
    <3>1. f.shards[r] \in ShardRecords
      BY PlacedIsTyped
    <3>2. f.shards[r].members \in Seq(Agents)
      BY <3>1 DEF ShardRecords
    <3> QED BY <3>2
  <2>2. CASE h.shards[r].members = f.shards[r].members
    BY <2>1, <2>2
  <2>3. CASE h.shards[r].members = RemoveFirst(f.shards[r].members, a)
    BY <2>1, <2>3, OthersStay
  <2> QED BY <2>2, <2>3 DEF Vacates
<1>5. Seats(h)
  <2>1. \A b : ShardList(h, b) = ShardList(f, b)
    BY DEF ShardList, Vacates
  <2>2. ASSUME NEW r \in Shards PROVE ShardFits(h, r)
    <3>1. ASSUME f.shards[r].members = <<>> PROVE h.shards[r].members = <<>>
      BY <1>4, <3>1
    <3>2. ASSUME Len(f.shards[r].members) <= maxSessionsPerProcess
          PROVE  Len(h.shards[r].members) <= maxSessionsPerProcess
      BY <1>4, <3>2, Limits
    <3> QED BY <1>2, <3>1, <3>2 DEF Seats, ShardFits, Vacates
  <2>3. \A c \in Agents : h.agents[c].known = "no" => h.agents[c].shard = 0
    BY <1>1, <1>2 DEF Seats
  <2>4. ASSUME NEW c \in Agents, NEW r \in Shards, h.agents[c].known # "gone" PROVE SeatOf(h, c, r)
    <3>1. c # a /\ h.agents[c] = f.agents[c]
      BY <1>1, <2>4
    <3>2. SeatOf(f, c, r)
      BY <1>2, <2>4, <3>1 DEF Seats
    <3> QED BY <1>4, <3>1, <3>2, Zenon DEF SeatOf, Vacates
  <2> QED BY <1>2, <2>1, <2>2, <2>3, <2>4 DEF Seats
<1>6. Numbered(h, k)
  BY <1>2, Zenon DEF Numbered, Dead, Vacates
<1>7. ASSUME NEW c \in Agents PROVE Owns(f, c, h.agents[c].session)
  BY <1>1, <1>2 DEF Names
<1>8. KeepsNames(f, h) /\ KeepsRunning(f, h)
  BY <1>2, <1>7, SameNames, Zenon
<1>9. ASSUME NEW c, NEW x, c # a, x # 0, Owns(f, c, x), NEW r \in Shards, x \in f.shards[r].mapped
      PROVE  x \in h.shards[r].mapped
  <2>1. x # f.agents[a].session
    BY <1>2, <1>9 DEF Names, Owns
  <2> QED BY <1>9, <2>1 DEF Vacates
<1>10. Mapped(h)
  <2>1. ASSUME NEW t \in Turns, h.turns[t].phase = "running"
        PROVE  /\ h.turns[t].session # 0
               /\ h.agents[h.turns[t].agent].known # "gone" =>
                     h.turns[t].session \in h.shards[h.turns[t].shard].mapped
    <3>1. f.turns[t].phase = "running" /\ f.turns[t].session # 0 /\ f.turns[t].phase \in Sharded
      BY <1>2, <2>1 DEF Mapped, Sharded, InFlightPhases
    <3>2. /\ f.turns[t].agent \in Agents /\ f.turns[t].shard \in Shards
          /\ Owns(f, f.turns[t].agent, f.turns[t].session)
      BY <3>1, TurnIsTyped
    <3>3. ASSUME h.agents[f.turns[t].agent].known # "gone"
          PROVE  f.turns[t].session \in h.shards[f.turns[t].shard].mapped
      <4>1. f.turns[t].agent # a /\ f.agents[f.turns[t].agent].known # "gone"
        BY <1>1, <3>2, <3>3
      <4>2. f.turns[t].session \in f.shards[f.turns[t].shard].mapped
        BY <1>2, <3>1, <4>1 DEF Mapped
      <4> QED BY <1>9, <3>1, <3>2, <4>1, <4>2
    <3> QED BY <3>1, <3>3
  <2>2. ASSUME NEW r \in h.recoveries, r.phase = "resuming", r.session # 0, h.agents[r.agent].known # "gone"
        PROVE  r.session \in h.shards[r.shard].mapped
    <3>1. r \in f.recoveries /\ r.agent \in Agents /\ r.shard \in Shards /\ Owns(f, r.agent, r.session)
      BY <1>2, PlacedIsTyped DEF Recoveries, Names
    <3>2. r.agent # a /\ f.agents[r.agent].known # "gone"
      BY <1>1, <2>2, <3>1
    <3>3. r.session \in f.shards[r.shard].mapped
      BY <1>2, <2>2, <3>1, <3>2 DEF Mapped
    <3> QED BY <1>9, <2>2, <3>1, <3>2, <3>3
  <2> QED BY <2>1, <2>2 DEF Mapped
<1>11. Worked(h)
  BY <1>1, <1>2 DEF Worked
<1> QED BY <1>2, <1>3, <1>5, <1>6, <1>8, <1>10, <1>11, NamesKept, ApartKept DEF Placed, Housed

(* What #forgetAgent leaves, before who waits is admitted.                  *)
LEMMA ForgottenSound ==
    ASSUME NEW f, NEW k, Sound(f, k), NEW a \in Agents, NEW s \in Shards \union {0}
    PROVE  LET h == Forgotten(f, a, s)
           IN /\ Sound(h, k) /\ h.agents[a].known = "gone"
              /\ h.turns = f.turns /\ h.queue = f.queue /\ h.recoveries = f.recoveries
              /\ \A c \in Agents : c # a => h.agents[c] = f.agents[c]
<1> DEFINE x == f.agents[a]
           y == [x EXCEPT !.known = "gone", !.status = "retired"]
           z == [f.shards[s] EXCEPT !.members = RemoveFirst(@, a), !.mapped = @ \ {x.session}]
           g == IF s = 0 THEN f
                ELSE [f EXCEPT !.shards[s].members = RemoveFirst(@, a),
                               !.shards[s].mapped = @ \ {f.agents[a].session}]
           h == [g EXCEPT !.agents[a].known = "gone", !.agents[a].status = "retired"]
<1>1. Forgotten(f, a, s) = h
  BY DEF Forgotten
<1>2. /\ IsFleet(f) /\ f.agents \in [Agents -> AgentRecords] /\ f.shards \in [Shards -> ShardRecords]
      /\ x \in AgentRecords /\ 0 \notin Shards
  BY PlacedIsTyped, ShardsFinite DEF Sound
<1>3. /\ IsFleet(g) /\ g.agents = f.agents /\ g.turns = f.turns /\ g.queue = f.queue /\ g.active = f.active
      /\ g.exceeded = f.exceeded /\ g.recoveries = f.recoveries
      /\ g.shards = IF s = 0 THEN f.shards ELSE [f.shards EXCEPT ![s] = z]
  BY <1>2, Zenon DEF IsFleet
<1> HIDE DEF g
<1>4. /\ IsFleet(h) /\ h.agents = [f.agents EXCEPT ![a] = y] /\ h.turns = f.turns /\ h.queue = f.queue
      /\ h.active = f.active /\ h.exceeded = f.exceeded /\ h.recoveries = f.recoveries
      /\ h.shards = IF s = 0 THEN f.shards ELSE [f.shards EXCEPT ![s] = z]
  BY <1>2, <1>3, Zenon DEF IsFleet
<1> HIDE DEF h
<1>5. y \in AgentRecords /\ y.known = "gone" /\ y.status = "retired" /\ y.session = x.session
  BY <1>2, Zenon DEF AgentRecords
<1> HIDE DEF y
<1>6. ASSUME s # 0
      PROVE  /\ z \in ShardRecords /\ z.backend = f.shards[s].backend /\ z.tracked = f.shards[s].tracked
             /\ z.members = RemoveFirst(f.shards[s].members, a) /\ z.mapped = f.shards[s].mapped \ {x.session}
  <2> DEFINE v == f.shards[s]
             n == RemoveFirst(v.members, a)
  <2>1. v \in ShardRecords
    BY <1>2, <1>6
  <2>2. n \in Seq(Agents)
    <3>1. v.members \in Seq(Agents)
      BY <2>1 DEF ShardRecords
    <3> QED BY <3>1, OthersStay
  <2>3. z = [v EXCEPT !.members = n, !.mapped = @ \ {x.session}]
    OBVIOUS
  <2> HIDE DEF n, v, z, x
  <2>4. z \in ShardRecords /\ z.backend = v.backend /\ z.tracked = v.tracked /\ z.members = n /\ z.mapped = v.mapped \ {x.session}
    BY <2>1, <2>2, <2>3, Zenon DEF ShardRecords
  <2> QED BY <2>4 DEF n, v
<1> HIDE DEF z
<1>7. /\ h.shards \in [Shards -> ShardRecords]
      /\ \A r \in Shards : r # s => h.shards[r] = f.shards[r]
      /\ s # 0 => h.shards[s] = z
  BY <1>2, <1>4, <1>6
<1>8. Vacates(f, h, a)
  <2> SUFFICES ASSUME NEW r \in Shards
               PROVE  /\ h.shards[r].backend = f.shards[r].backend /\ h.shards[r].tracked = f.shards[r].tracked
                      /\ f.shards[r].mapped \ {f.agents[a].session} \subseteq h.shards[r].mapped
                      /\ \/ h.shards[r].members = f.shards[r].members
                         \/ h.shards[r].members = RemoveFirst(f.shards[r].members, a)
    BY DEF Vacates
  <2>1. CASE r # s
    BY <1>7, <2>1
  <2>2. CASE r = s
    BY <1>2, <1>6, <1>7, <2>2
  <2> QED BY <2>1, <2>2
<1>9. Placed(h, k)
  <2>1. y \in AgentRecords /\ y.known = "gone" /\ y.status = "retired" /\ y.session = f.agents[a].session
    BY <1>5
  <2>2. Placed(f, k)
    BY DEF Sound
  <2>3. /\ IsFleet(h) /\ h.agents = [f.agents EXCEPT ![a] = y] /\ h.turns = f.turns /\ h.queue = f.queue
        /\ h.exceeded = f.exceeded /\ h.recoveries = f.recoveries /\ h.shards \in [Shards -> ShardRecords]
    BY <1>4, <1>7
  <2> HIDE DEF x
  <2> QED BY <1>8, <2>1, <2>2, <2>3, GonePlaced
<1>10. SameStanding(f, h)
  BY <1>4 DEF SameStanding
<1>11. Sound(h, k)
  BY <1>9, <1>10, StandingSound
<1>12. h.agents[a] = y /\ \A c \in Agents : c # a => h.agents[c] = f.agents[c]
  BY <1>2, <1>4
<1> QED BY <1>1, <1>4, <1>5, <1>11, <1>12

LEMMA ForgetSound ==
    ASSUME NEW f, NEW k, Sound(f, k), NEW a \in Agents, NEW s \in Shards \union {0}, NEW c, Ranked(c)
    PROVE  Sound(Forget(f, a, s, c), k)
<1>1. Forget(f, a, s, c) = DrainHeard(Forgotten(f, a, s), c)
  BY DEF Forget, Forgotten
<1> QED BY <1>1, ForgottenSound, DrainHeardSound
-----------------------------------------------------------------------------
(* A recovery goes on, or ends.                                             *)
LEMMA RecoveryPlaced ==
    ASSUME NEW f, NEW g, NEW k, NEW r \in f.recoveries, NEW q \in Recoveries,
           NEW y \in AgentRecords, NEW z \in ShardRecords, Placed(f, k), IsFleet(g),
           g.turns = f.turns, g.queue = f.queue, g.exceeded = f.exceeded,
           g.agents = [f.agents EXCEPT ![r.agent] = y], y.known = f.agents[r.agent].known,
           y.shard = f.agents[r.agent].shard, Owns(f, r.agent, y.session),
           y.status = "recovering" /\ y.known = "yes" => q \in g.recoveries,
           y.status = "recovering" => y.known # "no",
           g.shards = [f.shards EXCEPT ![r.shard] = z], z.backend = f.shards[r.shard].backend,
           z.tracked = f.shards[r.shard].tracked, z.members = f.shards[r.shard].members,
           f.shards[r.shard].mapped \subseteq z.mapped,
           f.recoveries \ {r} \subseteq g.recoveries, g.recoveries \subseteq (f.recoveries \ {r}) \union {q},
           q.agent = r.agent, q.shard = r.shard, Owns(f, q.agent, q.session),
           q \in g.recoveries /\ q.phase = "resuming" => q.session \in z.mapped
    PROVE  Placed(g, k)
<1>1. r.agent \in Agents /\ r.shard \in Shards /\ f.recoveries \subseteq Recoveries
  BY PlacedIsTyped DEF Recoveries
<1>2. /\ g.agents \in [Agents -> AgentRecords] /\ g.agents[r.agent] = y
      /\ \A c \in Agents : c # r.agent => g.agents[c] = f.agents[c]
  BY <1>1, PlacedIsTyped
<1>3. /\ g.shards \in [Shards -> ShardRecords] /\ g.shards[r.shard] = z
      /\ \A s \in Shards : s # r.shard => g.shards[s] = f.shards[s]
  BY <1>1, PlacedIsTyped
<1>4. Typed(f) /\ Seats(f) /\ Numbered(f, k) /\ Names(f) /\ Mapped(f) /\ Apart(f) /\ Worked(f)
  BY DEF Placed, Housed
<1>5. Typed(g)
  <2>1. g.recoveries \subseteq Recoveries
    BY <1>1
  <2>2. /\ g.turns \in [Turns -> TurnRecords] /\ g.queue \in Seq(Turns) /\ g.exceeded \in BOOLEAN
        /\ \A t \in Turns : g.turns[t].phase \in Sharded => g.turns[t].shard # 0
    BY PlacedIsTyped
  <2> QED BY <1>2, <1>3, <2>1, <2>2, TypedAgain, Zenon
<1>6. Seats(g) /\ Numbered(g, k)
  <2>1. KeepsSeats(f, g)
    BY <1>2, <1>3 DEF KeepsSeats
  <2> QED BY <1>4, <2>1, SeatsKept
<1>7. KeepsNames(f, g) /\ KeepsRunning(f, g)
  <2>1. ASSUME NEW c \in Agents PROVE Owns(f, c, g.agents[c].session)
    BY <1>2, <1>4 DEF Names
  <2>2. ASSUME NEW p \in g.recoveries PROVE Owns(f, p.agent, p.session)
    BY <1>4 DEF Names
  <2>3. \A t \in Turns : Owns(f, f.turns[t].agent, g.turns[t].session)
    BY <1>4 DEF Names
  <2> QED BY <2>1, <2>2, <2>3 DEF KeepsNames, KeepsRunning
<1>8. Mapped(g)
  <2>1. \A s \in Shards : f.shards[s].mapped \subseteq g.shards[s].mapped
    BY <1>3
  <2>2. \A c \in Agents : g.agents[c].known = f.agents[c].known
    BY <1>2
  <2>3. ASSUME NEW t \in Turns, g.turns[t].phase = "running"
        PROVE  /\ g.turns[t].session # 0
               /\ g.agents[g.turns[t].agent].known # "gone" =>
                     g.turns[t].session \in g.shards[g.turns[t].shard].mapped
    <3>1. f.turns[t].phase \in Sharded
      BY <2>3 DEF Sharded, InFlightPhases
    <3>2. f.turns[t].agent \in Agents /\ f.turns[t].shard \in Shards
      BY <3>1, TurnIsTyped
    <3> QED BY <1>4, <2>1, <2>2, <2>3, <3>2, ZenonT(60) DEF Mapped
  <2>4. ASSUME NEW p \in g.recoveries, p.phase = "resuming", p.session # 0, g.agents[p.agent].known # "gone"
        PROVE  p.session \in g.shards[p.shard].mapped
    <3>1. CASE p = q
      BY <1>3, <2>4, <3>1
    <3>2. CASE p \in f.recoveries
      <4>1. p.agent \in Agents /\ p.shard \in Shards
        BY <1>1, <3>2 DEF Recoveries
      <4> QED BY <1>4, <2>1, <2>2, <2>4, <3>2, <4>1 DEF Mapped
    <3> QED BY <3>1, <3>2
  <2> QED BY <2>3, <2>4 DEF Mapped
<1>9. Worked(g)
  <2>1. ASSUME NEW c \in Agents, g.agents[c].status = "recovering"
        PROVE  /\ g.agents[c].known # "no"
               /\ g.agents[c].known = "yes" => \E p \in g.recoveries : p.agent = c
    <3>1. CASE c = r.agent
      BY <1>2, <2>1, <3>1
    <3>2. CASE c # r.agent
      <4>1. /\ g.agents[c].known # "no"
            /\ g.agents[c].known = "yes" => \E p \in f.recoveries : p.agent = c
        BY <1>2, <1>4, <2>1, <3>2 DEF Worked
      <4> QED BY <3>2, <4>1
    <3> QED BY <3>1, <3>2
  <2> QED BY <2>1 DEF Worked
<1> QED BY <1>4, <1>5, <1>6, <1>7, <1>8, <1>9, NamesKept, ApartKept DEF Placed, Housed
-----------------------------------------------------------------------------
(* The steps of a turn.                                                     *)
LEMMA Fields ==
    /\ fleet.agents = agents /\ fleet.shards = shards /\ fleet.turns = turns /\ fleet.queue = queue
    /\ fleet.active = activeTurns /\ fleet.exceeded = exceeded /\ fleet.recoveries = recoveries
    /\ IsFleet(fleet)
BY DEF fleet, IsFleet

LEMMA SoundBecomes ==
    ASSUME NEW f, NEW k, Sound(f, k), Becomes(f)
    PROVE  Sound(fleet', k)
BY BecomesSound

LEMMA TurnStartSound ==
    ASSUME NEW k, Sound(fleet, k), NEW t \in Turns, TurnStart(t)
    PROVE  Sound(fleet', k)
<1> DEFINE a == turns[t].agent
           opening(y) == [fleet EXCEPT !.turns[t].phase = "opening", !.turns[t].session = y]
<1>1. turns[t].phase = "starting" /\ turns[t].phase \in Sharded
  BY DEF TurnStart, Sharded, InFlightPhases
<1>2. /\ turns[t] \in TurnRecords /\ turns[t].agent \in Agents /\ turns[t].shard # 0
      /\ agents[a] \in AgentRecords /\ Owns(fleet, a, agents[a].session)
      /\ turns \in [Turns -> TurnRecords]
  <2>1. /\ turns[t] \in TurnRecords /\ turns[t].agent \in Agents /\ turns[t].shard # 0
    BY <1>1, Fields, TurnIsTyped DEF Sound
  <2>2. agents \in [Agents -> AgentRecords] /\ turns \in [Turns -> TurnRecords]
    BY Fields, PlacedIsTyped DEF Sound
  <2>3. Owns(fleet, a, agents[a].session)
    BY <2>1, Fields DEF Sound, Placed, Housed, Names
  <2> QED BY <2>1, <2>2, <2>3
<1>3. ASSUME NEW y \in {0, agents[a].session} PROVE Sound(opening(y), k)
  <2> DEFINE x == turns[t]
             z == [x EXCEPT !.phase = "opening", !.session = y]
             g == opening(y)
  <2>1. y \in Sessions /\ Owns(fleet, a, y)
    <3>1. 0 \in Sessions /\ agents[a].session \in Sessions
      BY <1>2, LimitsAssumption DEF Sessions, AgentRecords
    <3> QED BY <1>2, <3>1 DEF Owns
  <2>2. /\ IsFleet(g) /\ g.turns = [turns EXCEPT ![t] = z] /\ g.agents = agents /\ g.shards = shards
        /\ g.queue = queue /\ g.active = activeTurns /\ g.exceeded = exceeded /\ g.recoveries = recoveries
    BY <1>2, Zenon DEF fleet, IsFleet
  <2> HIDE DEF g, x
  <2>3. z \in TurnRecords /\ z.agent = x.agent /\ z.phase = "opening" /\ z.shard = x.shard /\ z.session = y
    BY <1>2, <2>1, Zenon DEF x, TurnRecords, Phases, Sharded, InFlightPhases
  <2> HIDE DEF z
  <2>4. "opening" \in Sharded \ {"running"} /\ "starting" \in Unopened
    BY DEF Sharded, InFlightPhases, Unopened
  <2>5. z.agent = turns[t].agent /\ z.shard # 0 /\ Owns(fleet, z.agent, z.session)
    BY <1>2, <2>1, <2>3 DEF x
  <2>6. Sound(g, k)
    <3>1. /\ IsFleet(g) /\ g.turns = [fleet.turns EXCEPT ![t] = z] /\ g.agents = fleet.agents
          /\ g.shards = fleet.shards /\ g.queue = fleet.queue /\ g.active = fleet.active
          /\ g.exceeded = fleet.exceeded /\ g.recoveries = fleet.recoveries
      BY <2>2, Fields
    <3>2. /\ fleet.turns[t].phase \in Sharded /\ z.phase \in Sharded \ {"running"}
          /\ z.agent = fleet.turns[t].agent /\ fleet.turns[t].phase \in Unopened
      BY <1>1, <2>3, <2>4, <2>5, Fields
    <3> QED BY <2>3, <2>5, <3>1, <3>2, TurnSound, Zenon
  <2> QED BY <2>6 DEF g
<1>4. Sound(Failing(fleet, t), k)
  BY <1>1, Fields, FailingSound
<1>5. Becomes(Failing(fleet, t)) \/ \E y \in {0, agents[a].session} : Becomes(opening(y))
  BY Zenon DEF TurnStart
<1> HIDE DEF opening
<1> QED BY <1>3, <1>4, <1>5, SoundBecomes

LEMMA TurnReusesSound ==
    ASSUME NEW k, Sound(fleet, k), NEW t \in Turns, TurnReuses(t)
    PROVE  Sound(fleet', k)
<1> DEFINE x == turns[t].session
<1>1. /\ fleet.turns[t].phase = "opening" /\ x # 0 /\ fleet.turns[t].phase \in Sharded
      /\ Becomes(Failing(fleet, t)) \/ (~Busy(turns[t].shard, x) /\ Becomes(Open(fleet, t, x)))
  BY Fields DEF TurnReuses, Sharded, InFlightPhases, ShardOf
<1>2. Sound(Failing(fleet, t), k)
  BY <1>1, FailingSound
<1>3. ASSUME ~Busy(turns[t].shard, x) PROVE Sound(Open(fleet, t, x), k)
  <2>1. x \in Sessions /\ Owns(fleet, fleet.turns[t].agent, x)
    BY Fields, TurnIsTyped DEF Sound
  <2>2. x \in Turns
    BY <1>1, <2>1, LimitsAssumption DEF Sessions, Turns
  <2>3. \A u \in Turns : u # t /\ fleet.turns[u].phase = "running" =>
            fleet.turns[u].shard # fleet.turns[t].shard \/ fleet.turns[u].session # x
    BY <1>3, Fields DEF Busy
  <2> HIDE DEF x
  <2> QED BY <1>1, <2>1, <2>2, <2>3, OpenSound
<1> QED BY <1>1, <1>2, <1>3, SoundBecomes

LEMMA TurnOpensFreshSound ==
    ASSUME NEW k, Sound(fleet, k), NEW t \in Turns, TurnOpensFresh(t)
    PROVE  Sound(fleet', k)
<1> DEFINE s == ShardOf(t)
           x == turns[t].session
           f == [fleet EXCEPT !.shards[s].sess[x] = "none"]
<1>1. /\ fleet.turns[t].phase = "opening" /\ fleet.turns[t].phase \in Sharded
      /\ Becomes(Failing(fleet, t)) \/ Becomes(Open(f, t, t))
  BY Fields DEF TurnOpensFresh, Sharded, InFlightPhases
<1>2. Sound(Failing(fleet, t), k)
  BY <1>1, FailingSound
<1>3. Sound(f, k) /\ f.turns = fleet.turns
  <2>1. s \in Shards
    BY <1>1, Fields, TurnIsTyped DEF Sound, ShardOf
  <2> HIDE DEF s, x
  <2> QED BY <2>1, SessSound, Zenon
<1> HIDE DEF f
<1>4. \A u \in Turns : u # t /\ f.turns[u].phase = "running" => f.turns[u].session # t
  <2> SUFFICES ASSUME NEW u \in Turns, f.turns[u].session = t, f.turns[u].phase = "running" PROVE FALSE
    OBVIOUS
  <2>1. Owns(f, f.turns[u].agent, t) /\ t # 0
    BY <1>3, TurnIsTyped DEF Sound, Turns
  <2> QED BY <1>1, <1>3, <2>1 DEF Owns, Unopened
<1>5. Sound(Open(f, t, t), k)
  BY <1>1, <1>3, <1>4, OpenSound
<1> QED BY <1>1, <1>2, <1>5, SoundBecomes

LEMMA TurnCompletesSound ==
    ASSUME NEW k, Sound(fleet, k), NEW t \in Turns, TurnCompletes(t)
    PROVE  Sound(fleet', k)
<1> DEFINE s == ShardOf(t)
           x == turns[t].session
           a == turns[t].agent
           d == [fleet EXCEPT !.turns[t].phase = "confirming"]
           v == IF shards[s].backend = "codex" \/ shards[s].sess[x] = "none" THEN shards[s].sess[x] ELSE "stopped"
           f == [fleet EXCEPT !.turns[t].phase = "confirming",
                              !.shards[s].sess[x] = IF shards[s].backend = "codex" \/ @ = "none" THEN @ ELSE "stopped"]
<1>0. PICK c \in Calls(0) : Becomes([OnTurnEvent(f, t, c) EXCEPT !.agents[a].session = x])
  BY Zenon DEF TurnCompletes
<1> DEFINE g == OnTurnEvent(f, t, c)
           h == [g EXCEPT !.agents[a].session = x]
<1>1. Becomes(h) /\ turns[t].phase = "running" /\ turns[t].phase \in Sharded /\ Ranked(c)
  <2>1. turns[t].phase = "running" /\ turns[t].phase \in Sharded
    BY Zenon DEF TurnCompletes, Sharded, InFlightPhases
  <2>2. Ranked(c)
    BY CallsRank
  <2> QED BY <1>0, <2>1, <2>2, Zenon
<1>2. /\ s \in Shards /\ a \in Agents /\ x \in Sessions /\ v \in {"none", "open", "stopped"}
      /\ Owns(fleet, a, x) /\ turns \in [Turns -> TurnRecords]
  <2>1. s \in Shards /\ a \in Agents /\ x \in Sessions /\ Owns(fleet, a, x)
    BY <1>1, Fields, TurnIsTyped, Zenon DEF Sound, ShardOf
  <2>2. shards \in [Shards -> ShardRecords] /\ turns \in [Turns -> TurnRecords]
    BY Fields, PlacedIsTyped DEF Sound
  <2>3. shards[s].sess[x] \in {"none", "open", "stopped"}
    BY <2>1, <2>2, Zenon DEF ShardRecords
  <2> QED BY <2>1, <2>2, <2>3, Zenon
<1>3. Sound(d, k)
  BY <1>1, Fields, MovesSound, Zenon
<1>4. /\ f = [d EXCEPT !.shards[s].sess[x] = v]
      /\ f.turns = [turns EXCEPT ![t].phase = "confirming"]
  BY DEF fleet
<1> HIDE DEF d, f, v
<1>5. Sound(f, k)
  <2> HIDE DEF s, x
  <2> QED BY <1>2, <1>3, <1>4, SessSound, Zenon
<1>6. f.turns[t].phase = "confirming" /\ f.turns[t].agent = a /\ f.turns[t].session = x
  <2> DEFINE w == turns[t]
  <2>1. w \in TurnRecords
    BY <1>2
  <2>2. f.turns[t] = [w EXCEPT !.phase = "confirming"]
    BY <1>2, <1>4, Zenon
  <2> HIDE DEF w
  <2>3. /\ f.turns[t].phase = "confirming" /\ f.turns[t].agent = w.agent
        /\ f.turns[t].session = w.session
    BY <2>1, <2>2 DEF TurnRecords
  <2> QED BY <2>3 DEF w
<1>7. Sound(g, k) /\ g.turns[t] = f.turns[t]
  BY <1>1, <1>5, <1>6, OnTurnEventSound DEF Fills
<1> HIDE DEF g, x, a
<1>8. Owns(g, a, x) /\ g.agents \in [Agents -> AgentRecords] /\ IsFleet(g)
  BY <1>6, <1>7, TurnIsTyped, PlacedIsTyped DEF Sound
<1>9. Sound(h, k)
  <2> DEFINE w == g.agents[a]
             y == [w EXCEPT !.session = x]
  <2>1. /\ IsFleet(h) /\ h.agents = [g.agents EXCEPT ![a] = y] /\ h.turns = g.turns /\ h.shards = g.shards
        /\ h.queue = g.queue /\ h.active = g.active /\ h.exceeded = g.exceeded /\ h.recoveries = g.recoveries
    BY <1>8 DEF IsFleet
  <2>2. w \in AgentRecords
    BY <1>2, <1>8
  <2> HIDE DEF h, w
  <2>3. /\ y \in AgentRecords /\ y.known = w.known /\ y.shard = w.shard /\ y.status = w.status /\ y.session = x
    BY <1>2, <2>2 DEF AgentRecords
  <2> HIDE DEF y
  <2>4. y.known = g.agents[a].known /\ y.shard = g.agents[a].shard /\ y.status = g.agents[a].status
    BY <2>3 DEF w
  <2> QED BY <1>2, <1>7, <1>8, <2>1, <2>3, <2>4, AgentSound, Zenon
<1> QED BY <1>1, <1>9, SoundBecomes, Zenon

LEMMA TurnFailsSound ==
    ASSUME NEW k, Sound(fleet, k), NEW t \in Turns, TurnFails(t)
    PROVE  Sound(fleet', k)
<1> DEFINE s == ShardOf(t)
           x == turns[t].session
           f == Failing(fleet, t)
           put(v) == [f EXCEPT !.shards[s].sess[x] = v]
           States == {"none", "open", "stopped"}
<1>1. turns[t].phase \in Sharded
  BY DEF TurnFails, Sharded, InFlightPhases
<1>2. s \in Shards /\ shards[s].sess[x] \in States /\ f.shards = shards
  <2>1. s \in Shards /\ x \in Sessions
    BY <1>1, Fields, TurnIsTyped DEF Sound, ShardOf
  <2>2. shards \in [Shards -> ShardRecords]
    BY Fields, PlacedIsTyped DEF Sound
  <2> QED BY <2>1, <2>2, Fields DEF ShardRecords, Failing
<1>3. Sound(f, k)
  BY <1>1, Fields, FailingSound
<1>4. \E c \in Calls(0), v \in States :
         Becomes(OnTurnEvent(f, t, c)) \/ Becomes(put(v)) \/ Becomes(OnTurnEvent(put(v), t, c))
  <2>1. \/ \E c \in Calls(0) : Becomes(OnTurnEvent(f, t, c))
        \/ Becomes([f EXCEPT !.shards[s].sess[x] = IF @ = "none" THEN @ ELSE "open"])
        \/ \E left \in {"none", shards[s].sess[x]}, c \in Calls(0) :
              Becomes(OnTurnEvent([f EXCEPT !.shards[s].sess[x] = left], t, c))
    BY DEF TurnFails
  <2>2. [f EXCEPT !.shards[s].sess[x] = IF @ = "none" THEN @ ELSE "open"]
          = put(IF f.shards[s].sess[x] = "none" THEN f.shards[s].sess[x] ELSE "open")
    OBVIOUS
  <2>3. NoCall \in Calls(0)
    BY DEF Calls
  <2> QED BY <1>2, <2>1, <2>2, <2>3, Zenon
<1> HIDE DEF f, s, x
<1>5. ASSUME NEW v \in States PROVE Sound(put(v), k)
  BY <1>2, <1>3, SessSound, Zenon
<1> HIDE DEF put
<1>6. PICK c \in Calls(0), v \in States :
         Becomes(OnTurnEvent(f, t, c)) \/ Becomes(put(v)) \/ Becomes(OnTurnEvent(put(v), t, c))
  BY <1>4, Zenon
<1>7. Ranked(c)
  BY CallsRank
<1>8. Sound(put(v), k) /\ Sound(OnTurnEvent(f, t, c), k) /\ Sound(OnTurnEvent(put(v), t, c), k)
  BY <1>3, <1>5, <1>7, OnTurnEventSound
<1> QED BY <1>6, <1>8, SoundBecomes

LEMMA TurnEndsSound ==
    ASSUME NEW k, Sound(fleet, k), NEW t \in Turns, TurnResolves(t) \/ TurnRejects(t)
    PROVE  Sound(fleet', k)
<1> DEFINE s == ShardOf(t)
           x == turns[t].session
           f == [fleet EXCEPT !.shards[s].sess[x] = "stopped"]
<1>1. turns[t].phase \in Sharded
  BY Zenon DEF TurnResolves, TurnRejects, Sharded, InFlightPhases
<1>2. PICK c \in Calls(0) : \/ Becomes(Finally(fleet, t, "failed", c)) \/ Becomes(Finally(fleet, t, "done", c))
                           \/ Becomes(Finally(f, t, "done", c))
  BY Zenon DEF TurnResolves, TurnRejects
<1>3. s \in Shards
  BY <1>1, Fields, TurnIsTyped DEF Sound, ShardOf
<1> HIDE DEF s, x
<1>4. Sound(f, k) /\ f.turns = fleet.turns
  BY <1>3, SessSound, Zenon
<1> HIDE DEF f
<1>5. fleet.turns[t].phase \in Sharded /\ f.turns[t].phase \in Sharded
  BY <1>1, <1>4, Fields
<1>6. /\ Sound(Finally(fleet, t, "failed", c), k) /\ Sound(Finally(fleet, t, "done", c), k)
      /\ Sound(Finally(f, t, "done", c), k)
  <2>1. Ranked(c)
    BY CallsRank
  <2> QED BY <1>4, <1>5, <2>1, FinallySound
<1> QED BY <1>2, <1>6, SoundBecomes

LEMMA BackendCeilingSound ==
    ASSUME NEW k, Sound(fleet, k), NEW t \in Turns, BackendCeiling(t)
    PROVE  Sound(fleet', k)
<1>0. PICK c \in Calls(0) : LET f == OnTurnEvent(Failing(fleet, t), t, c)
                            IN Becomes(IF Attributable(t) THEN Trip(f) ELSE f)
  BY Zenon DEF BackendCeiling
<1> DEFINE f == OnTurnEvent(Failing(fleet, t), t, c)
<1>1. fleet.turns[t].phase \in Sharded
  BY Fields DEF BackendCeiling, Sharded, InFlightPhases
<1>2. Becomes(f) \/ Becomes(Trip(f))
  BY <1>0
<1>3. Sound(f, k)
  <2>1. Ranked(c)
    BY CallsRank
  <2> QED BY <1>1, <2>1, FailingSound, OnTurnEventSound
<1> HIDE DEF f
<1>4. Sound(Trip(f), k)
  BY <1>3, TripSound
<1> QED BY <1>2, <1>3, <1>4, SoundBecomes

LEMMA UsageCosts ==
    ASSUME NEW k, Sound(fleet, k), NEW t \in Turns, NEW cost \in Costs, Usage(t, cost)
    PROVE  Sound([fleet EXCEPT !.agents[turns[t].agent].cost = cost], k)
<1> DEFINE a == turns[t].agent
           w == agents[a]
           y == [w EXCEPT !.cost = cost]
           f == [fleet EXCEPT !.agents[a].cost = cost]
<1>1. a \in Agents /\ agents \in [Agents -> AgentRecords] /\ w \in AgentRecords /\ Owns(fleet, a, w.session)
  <2>1. fleet.turns[t].phase \in Sharded
    BY Fields DEF Usage, Sharded, InFlightPhases
  <2>2. a \in Agents
    BY <2>1, Fields, TurnIsTyped DEF Sound
  <2>3. agents \in [Agents -> AgentRecords]
    BY Fields, PlacedIsTyped DEF Sound
  <2>4. Owns(fleet, a, agents[a].session)
    BY <2>2, Fields DEF Sound, Placed, Housed, Names
  <2> QED BY <2>2, <2>3, <2>4
<1>2. /\ IsFleet(f) /\ f.agents = [fleet.agents EXCEPT ![a] = y] /\ f.turns = fleet.turns
      /\ f.shards = fleet.shards /\ f.queue = fleet.queue /\ f.active = fleet.active
      /\ f.exceeded = fleet.exceeded /\ f.recoveries = fleet.recoveries
  BY <1>1, Zenon DEF fleet, IsFleet
<1> HIDE DEF f, w
<1>3. /\ y \in AgentRecords /\ y.known = w.known /\ y.shard = w.shard /\ y.status = w.status
      /\ y.session = w.session
  BY <1>1 DEF AgentRecords
<1> HIDE DEF y
<1>4. /\ y.known = fleet.agents[a].known /\ y.shard = fleet.agents[a].shard
      /\ y.status = fleet.agents[a].status /\ Owns(fleet, a, y.session)
  BY <1>1, <1>3, Fields DEF w
<1>5. Sound(f, k)
  BY <1>1, <1>2, <1>3, <1>4, AgentSound, Zenon
<1> QED BY <1>5 DEF f

LEMMA UsageSound ==
    ASSUME NEW k, Sound(fleet, k), NEW t \in Turns, NEW cost \in Costs, Usage(t, cost)
    PROVE  Sound(fleet', k)
<1> DEFINE f == [fleet EXCEPT !.agents[turns[t].agent].cost = cost]
<1>1. Becomes(f) \/ Becomes(Trip(f))
  BY DEF Usage, Recalculated
<1>2. Sound(f, k)
  BY UsageCosts
<1> HIDE DEF f
<1> QED BY <1>1, <1>2, TripSound, SoundBecomes
-----------------------------------------------------------------------------
(* Calls of the application, shards and recoveries.                         *)
LEMMA RunSound ==
    ASSUME NEW k, Sound(fleet, k), NEW t \in Turns, NEW a \in Agents, NEW p \in Priorities, Run(t, a, p)
    PROVE  Sound(fleet', k)
<1> DEFINE f == Refused(fleet, t, a, p)
           g == Pushed(fleet, t, a, p)
<1>1. /\ fleet.turns[t].phase = "new"
      /\ Becomes(f) \/ (~fleet.exceeded /\ \E c \in Calls(0) : Becomes(DrainHeard(g, c)))
  BY Fields DEF Run, Refuses
<1>2. Grows(fleet, f, k) /\ (~fleet.exceeded => Grows(fleet, g, k))
  BY <1>1, RefusedHoused DEF Sound, Placed
<1> HIDE DEF f, g
<1>3. CASE Becomes(f)
  BY <1>2, <1>3, GrowsSound, SoundBecomes
<1>4. CASE ~fleet.exceeded /\ \E c \in Calls(0) : Becomes(DrainHeard(g, c))
  <2>1. PICK c \in Calls(0) : Becomes(DrainHeard(g, c))
    BY <1>4
  <2>2. Ranked(c)
    BY CallsRank
  <2>3. Sound(DrainHeard(g, c), k)
    BY <1>2, <1>4, <2>2, GrowsSound, DrainHeardSound
  <2> QED BY <2>1, <2>3, SoundBecomes
<1> QED BY <1>1, <1>3, <1>4

(* A shard's runtime changes what it is doing.                              *)
LEMMA RuntimeSound ==
    ASSUME NEW k, Sound(fleet, k), NEW s \in Shards, NEW z \in ShardRecords, NEW f,
           f = [fleet EXCEPT !.shards[s] = z], z.backend = shards[s].backend,
           z.tracked = shards[s].tracked, z.members = shards[s].members, z.mapped = shards[s].mapped
    PROVE  Sound(f, k) /\ f.shards[s].backend = shards[s].backend
<1>1. /\ IsFleet(f) /\ f.shards = [fleet.shards EXCEPT ![s] = z] /\ f.turns = fleet.turns
      /\ f.agents = fleet.agents /\ f.queue = fleet.queue /\ f.active = fleet.active
      /\ f.exceeded = fleet.exceeded /\ f.recoveries = fleet.recoveries
  BY Zenon DEF fleet, IsFleet
<1>2. /\ z.backend = fleet.shards[s].backend /\ z.tracked = fleet.shards[s].tracked
      /\ z.members = fleet.shards[s].members /\ fleet.shards[s].mapped \subseteq z.mapped
  BY Fields
<1>3. Sound(f, k)
  BY <1>1, <1>2, ShardSound, Zenon
<1>4. f.shards[s] = z
  BY <1>1, PlacedIsTyped DEF Sound
<1> QED BY <1>3, <1>4

LEMMA ShardIsTyped ==
    ASSUME NEW k, Sound(fleet, k), NEW s \in Shards
    PROVE  shards[s] \in ShardRecords
BY Fields, PlacedIsTyped DEF Sound

LEMMA ShardStepSound ==
    ASSUME NEW k, Sound(fleet, k), NEW s \in Shards, ShardStartUp(s) \/ StartFails(s) \/ CloseShard(s)
    PROVE  Sound(fleet', k)
<1> DEFINE x == shards[s]
           empty == [q \in Sessions |-> "none"]
<1>1. x \in ShardRecords
  BY ShardIsTyped
<1>2. CASE ShardStartUp(s)
  <2> DEFINE z == [x EXCEPT !.proc = "up"]
             f == [fleet EXCEPT !.shards[s] = z]
  <2>1. fleet' = f
    BY <1>2 DEF ShardStartUp, fleet
  <2> HIDE DEF x
  <2>2. /\ z \in ShardRecords /\ z.backend = x.backend /\ z.tracked = x.tracked
        /\ z.members = x.members /\ z.mapped = x.mapped
    BY <1>1 DEF ShardRecords
  <2> HIDE DEF z
  <2>3. Sound(f, k)
    BY <2>2, RuntimeSound DEF x
  <2> QED BY <2>1, <2>3
<1>3. CASE StartFails(s)
  <2> DEFINE z == [x EXCEPT !.proc = "idle"]
             f == [fleet EXCEPT !.shards[s].proc = "idle"]
  <2>1. f = [fleet EXCEPT !.shards[s] = z] /\ Becomes(Rejected(f, s))
    BY <1>3 DEF StartFails, fleet
  <2> HIDE DEF x, f
  <2>2. /\ z \in ShardRecords /\ z.backend = x.backend /\ z.tracked = x.tracked
        /\ z.members = x.members /\ z.mapped = x.mapped
    BY <1>1 DEF ShardRecords
  <2> HIDE DEF z
  <2>3. Sound(f, k)
    BY <2>1, <2>2, RuntimeSound DEF x
  <2> QED BY <2>1, <2>3, RejectedSound, SoundBecomes
<1>4. CASE CloseShard(s)
  <2> DEFINE z == [x EXCEPT !.proc = "idle", !.sess = empty]
             f == [fleet EXCEPT !.shards[s].proc = "idle", !.shards[s].sess = empty]
  <2>1. f = [fleet EXCEPT !.shards[s] = z] /\ Becomes(Rejected(f, s))
    BY <1>4, Zenon DEF CloseShard, fleet
  <2> HIDE DEF x, f
  <2>2. /\ z \in ShardRecords /\ z.backend = x.backend /\ z.tracked = x.tracked
        /\ z.members = x.members /\ z.mapped = x.mapped
    BY <1>1, Zenon DEF ShardRecords
  <2> HIDE DEF z
  <2>3. Sound(f, k)
    BY <2>1, <2>2, RuntimeSound DEF x
  <2> QED BY <2>1, <2>3, RejectedSound, SoundBecomes
<1> QED BY <1>2, <1>3, <1>4

LEMMA ShardLostSound ==
    ASSUME NEW k, Sound(fleet, k), k < Room, NEW s \in Shards, ShardLost(s)
    PROVE  Sound(fleet', k + 1)
<1> DEFINE x == shards[s]
           z == [x EXCEPT !.proc = "down", !.sess = [q \in Sessions |-> "none"]]
           f == [fleet EXCEPT !.shards[s].proc = "down", !.shards[s].sess = [q \in Sessions |-> "none"]]
           g == Rejected(f, s)
<1>1. x \in ShardRecords
  BY ShardIsTyped
<1>0. PICK c \in Calls(1) : Becomes(HandleShardLost(g, s, c))
  BY Zenon DEF ShardLost
<1>2. f = [fleet EXCEPT !.shards[s] = z] /\ x.backend = "codex"
  BY Zenon DEF ShardLost, fleet
<1> HIDE DEF x, f
<1>3. /\ z \in ShardRecords /\ z.backend = x.backend /\ z.tracked = x.tracked
      /\ z.members = x.members /\ z.mapped = x.mapped
  BY <1>1, Zenon DEF ShardRecords
<1> HIDE DEF z
<1>4. Sound(f, k) /\ f.shards[s].backend = x.backend
  BY <1>2, <1>3, RuntimeSound, Zenon DEF x
<1>5. Sound(g, k) /\ g.shards[s].backend # "none"
  BY <1>2, <1>4, RejectedSound, Zenon
<1> HIDE DEF g
<1>6. Ranked(c)
  BY CallsRank
<1>7. Sound(HandleShardLost(g, s, c), k + 1)
  BY <1>5, <1>6, HandleShardLostSound
<1> QED BY <1>0, <1>7, SoundBecomes

LEMMA RecoveredSound ==
    ASSUME NEW k, Sound(fleet, k), NEW r \in recoveries, r.session # 0
    PROVE  Sound(Recovered(r), k)
<1> DEFINE a == r.agent
           s == r.shard
           w == agents[a]
           x == shards[s]
<1>1. /\ r \in Recoveries /\ a \in Agents /\ s \in Shards /\ r.session \in Sessions
      /\ w \in AgentRecords /\ x \in ShardRecords
      /\ agents \in [Agents -> AgentRecords] /\ shards \in [Shards -> ShardRecords]
      /\ Owns(fleet, a, w.session) /\ Owns(fleet, a, r.session)
      /\ w.status = "recovering" => w.known # "no"
  <2>1. r \in Recoveries /\ r.agent \in Agents /\ r.shard \in Shards /\ r.session \in Sessions
    BY Fields, PlacedIsTyped DEF Sound, Recoveries
  <2>2. agents \in [Agents -> AgentRecords] /\ shards \in [Shards -> ShardRecords]
    BY Fields, PlacedIsTyped DEF Sound
  <2>3. /\ Owns(fleet, a, w.session) /\ Owns(fleet, a, r.session)
        /\ w.status = "recovering" => w.known # "no"
    BY <2>1, Fields, Zenon DEF Sound, Placed, Housed, Names, Worked
  <2> QED BY <2>1, <2>2, <2>3
<1> DEFINE y == [w EXCEPT !.session = r.session, !.status = IF Registered(fleet, a) THEN "ready" ELSE @]
           z == [x EXCEPT !.sess[r.session] = "stopped", !.mapped = @ \union {r.session}]
           f == [fleet EXCEPT !.recoveries = @ \ {r},
                              !.shards[s].sess[r.session] = "stopped",
                              !.shards[s].mapped = @ \union {r.session},
                              !.agents[a].session = r.session,
                              !.agents[a].status = IF Registered(fleet, a) THEN "ready" ELSE @]
<1>2. /\ IsFleet(f) /\ f.turns = fleet.turns /\ f.queue = fleet.queue /\ f.active = fleet.active
      /\ f.exceeded = fleet.exceeded /\ f.agents = [fleet.agents EXCEPT ![a] = y]
      /\ f.shards = [fleet.shards EXCEPT ![s] = z]
      /\ f.recoveries = fleet.recoveries \ {r}
  <2> DEFINE v == Registered(fleet, a)
  <2>1. f = [fleet EXCEPT !.recoveries = @ \ {r},
                          !.shards[s].sess[r.session] = "stopped",
                          !.shards[s].mapped = @ \union {r.session},
                          !.agents[a].session = r.session,
                          !.agents[a].status = IF v THEN "ready" ELSE @]
    OBVIOUS
  <2>2. y = [w EXCEPT !.session = r.session, !.status = IF v THEN "ready" ELSE @]
    OBVIOUS
  <2> HIDE DEF f, y, v
  <2>3. f.shards = [fleet.shards EXCEPT ![s] = z]
    BY <1>1, <2>1, Zenon DEF fleet
  <2>4. f.agents = [fleet.agents EXCEPT ![a] = y]
    <3>1. w \in [known : {w.known}, status : {w.status}, shard : {w.shard}, session : {w.session}, cost : {w.cost}]
      BY <1>1 DEF AgentRecords
    <3> QED BY <1>1, <2>1, <2>2, <3>1, Zenon DEF fleet
  <2> QED BY <2>1, <2>3, <2>4, ZenonT(60) DEF fleet, IsFleet
<1>3. Registered(fleet, a) <=> w.known = "yes"
  BY Fields DEF Registered
<1> HIDE DEF f, w, x
<1>4. /\ z \in ShardRecords /\ z.backend = x.backend /\ z.tracked = x.tracked
      /\ z.members = x.members /\ z.mapped = x.mapped \union {r.session}
  BY <1>1, Zenon DEF ShardRecords
<1>5. /\ y \in AgentRecords /\ y.known = w.known /\ y.shard = w.shard /\ y.session = r.session
      /\ y.status = IF w.known = "yes" THEN "ready" ELSE w.status
  BY <1>1, <1>3, Zenon DEF AgentRecords
<1> HIDE DEF z, y
<1>6. Placed(f, k)
  <2>1. /\ y.known = fleet.agents[a].known /\ y.shard = fleet.agents[a].shard
        /\ z.backend = fleet.shards[s].backend /\ z.tracked = fleet.shards[s].tracked
        /\ z.members = fleet.shards[s].members /\ fleet.shards[s].mapped \subseteq z.mapped
    BY <1>4, <1>5, Fields DEF w, x
  <2>2. /\ r \notin f.recoveries /\ Owns(fleet, a, y.session)
        /\ fleet.recoveries \ {r} \subseteq f.recoveries
        /\ f.recoveries \subseteq (fleet.recoveries \ {r}) \union {r} /\ r \in fleet.recoveries
        /\ y.status = "recovering" => y.known # "no" /\ y.known # "yes"
    BY <1>1, <1>2, <1>5, Fields
  <2> QED BY <1>1, <1>2, <1>4, <1>5, <2>1, <2>2, RecoveryPlaced, ZenonT(60) DEF Sound
<1>7. SameStanding(fleet, f)
  BY <1>2 DEF SameStanding
<1>8. Sound(f, k)
  BY <1>6, <1>7, StandingSound
<1> QED BY <1>8 DEF f, Recovered

LEMMA RecoveryStepSound ==
    ASSUME NEW k, Sound(fleet, k), NEW r \in recoveries, RecoveryStep(r)
    PROVE  Sound(fleet', k)
<1> DEFINE a == r.agent
           s == r.shard
           w == agents[a]
           x == shards[s]
<1>1. /\ r \in Recoveries /\ a \in Agents /\ s \in Shards /\ r.session \in Sessions
      /\ w \in AgentRecords /\ x \in ShardRecords
      /\ agents \in [Agents -> AgentRecords] /\ shards \in [Shards -> ShardRecords]
      /\ Owns(fleet, a, w.session) /\ Owns(fleet, a, r.session)
      /\ w.status = "recovering" => w.known # "no"
  <2>1. r \in Recoveries /\ r.agent \in Agents /\ r.shard \in Shards /\ r.session \in Sessions
    BY Fields, PlacedIsTyped DEF Sound, Recoveries
  <2>2. agents \in [Agents -> AgentRecords] /\ shards \in [Shards -> ShardRecords]
    BY Fields, PlacedIsTyped DEF Sound
  <2>3. /\ Owns(fleet, a, w.session) /\ Owns(fleet, a, r.session)
        /\ w.status = "recovering" => w.known # "no"
    BY <2>1, Fields DEF Sound, Placed, Housed, Names, Worked
  <2> QED BY <2>1, <2>2, <2>3
<1>2. CASE RecoveryResumes(r)
  <2> DEFINE y == w.session
             q == [r EXCEPT !.phase = "resuming", !.session = y]
             z == [x EXCEPT !.mapped = @ \union {y}]
             f == [fleet EXCEPT !.recoveries = (@ \ {r}) \union {q}, !.shards[s].mapped = @ \union {y}]
  <2>1. Becomes(f)
    BY <1>2 DEF RecoveryResumes
  <2>2. /\ IsFleet(f) /\ f.turns = fleet.turns /\ f.queue = fleet.queue /\ f.active = fleet.active
        /\ f.exceeded = fleet.exceeded /\ f.agents = fleet.agents
        /\ f.shards = [fleet.shards EXCEPT ![s] = z]
        /\ f.recoveries = (fleet.recoveries \ {r}) \union {q}
    BY <1>1, Zenon DEF fleet, IsFleet
  <2>3. y \in Sessions
    BY <1>1 DEF AgentRecords
  <2>4. q \in Recoveries /\ q.agent = a /\ q.shard = s /\ q.session = y /\ q.phase = "resuming"
    BY <1>1, <2>3, Zenon DEF Recoveries
  <2> HIDE DEF f, w, x, q
  <2>5. /\ z \in ShardRecords /\ z.backend = x.backend /\ z.tracked = x.tracked
        /\ z.members = x.members /\ z.mapped = x.mapped \union {y}
    BY <1>1, <2>3, Zenon DEF ShardRecords
  <2> HIDE DEF z
  <2>6. f.agents = [fleet.agents EXCEPT ![a] = w]
    BY <1>1, <2>2, Fields DEF w
  <2>7. Placed(f, k)
    <3>1. /\ w.known = fleet.agents[a].known /\ w.shard = fleet.agents[a].shard
          /\ z.backend = fleet.shards[s].backend /\ z.tracked = fleet.shards[s].tracked
          /\ z.members = fleet.shards[s].members /\ fleet.shards[s].mapped \subseteq z.mapped
      BY <2>5, Fields DEF w, x
    <3>2. /\ q \in f.recoveries /\ q.session \in z.mapped /\ Owns(fleet, q.agent, q.session)
          /\ fleet.recoveries \ {r} \subseteq f.recoveries
          /\ f.recoveries \subseteq (fleet.recoveries \ {r}) \union {q} /\ r \in fleet.recoveries
      BY <1>1, <2>2, <2>4, <2>5, Fields
    <3>3. /\ IsFleet(f) /\ f.turns = fleet.turns /\ f.queue = fleet.queue /\ f.exceeded = fleet.exceeded
          /\ f.agents = [fleet.agents EXCEPT ![a] = w] /\ f.shards = [fleet.shards EXCEPT ![s] = z]
          /\ q.agent = a /\ q.shard = s /\ q \in Recoveries /\ z \in ShardRecords /\ w \in AgentRecords
      BY <1>1, <2>2, <2>4, <2>5, <2>6
    <3>4. /\ w.status = "recovering" => w.known # "no"
          /\ Owns(fleet, a, w.session)
      BY <1>1
    <3>5. Placed(fleet, k)
      BY DEF Sound
    <3> HIDE DEF y
    <3> QED BY <3>1, <3>2, <3>3, <3>4, <3>5, RecoveryPlaced, SMTT(200)
  <2>8. SameStanding(fleet, f)
    BY <2>2 DEF SameStanding
  <2> QED BY <2>1, <2>7, <2>8, StandingSound, SoundBecomes
<1>3. CASE RecoverySucceeds(r)
  <2>1. r.session # 0 /\ \E c \in Calls(0) : Becomes(DrainHeard(Recovered(r), c))
    BY <1>3 DEF RecoverySucceeds, Recovered
  <2>2. PICK c \in Calls(0) : Becomes(DrainHeard(Recovered(r), c))
    BY <2>1
  <2>3. Ranked(c)
    BY CallsRank
  <2>4. Sound(DrainHeard(Recovered(r), c), k)
    BY <2>1, <2>3, RecoveredSound, DrainHeardSound
  <2> QED BY <2>2, <2>4, SoundBecomes
<1>4. CASE RecoveryFails(r)
  <2> DEFINE y == [w EXCEPT !.status = IF Registered(fleet, a) THEN "lost" ELSE @]
             f == [fleet EXCEPT !.recoveries = @ \ {r},
                                !.agents[a].status = IF Registered(fleet, a) THEN "lost" ELSE @]
  <2>1. Becomes(f)
    BY <1>4 DEF RecoveryFails
  <2>2. /\ IsFleet(f) /\ f.turns = fleet.turns /\ f.queue = fleet.queue /\ f.active = fleet.active
        /\ f.exceeded = fleet.exceeded /\ f.agents = [fleet.agents EXCEPT ![a] = y]
        /\ f.shards = fleet.shards
        /\ f.recoveries = fleet.recoveries \ {r}
    BY <1>1, Zenon DEF fleet, IsFleet
  <2>3. Registered(fleet, a) <=> w.known = "yes"
    BY Fields DEF Registered
  <2>4. f.shards = [fleet.shards EXCEPT ![s] = x]
    BY <1>1, <2>2, Fields, Zenon
  <2> HIDE DEF f, w, x
  <2>5. /\ y \in AgentRecords /\ y.known = w.known /\ y.shard = w.shard /\ y.session = w.session
        /\ y.status = IF w.known = "yes" THEN "lost" ELSE w.status
    BY <1>1, <2>3 DEF AgentRecords
  <2> HIDE DEF y
  <2>6. Placed(f, k)
    <3>1. /\ y.known = fleet.agents[a].known /\ y.shard = fleet.agents[a].shard
          /\ x.backend = fleet.shards[s].backend /\ x.tracked = fleet.shards[s].tracked
          /\ x.members = fleet.shards[s].members /\ fleet.shards[s].mapped \subseteq x.mapped
      BY <2>5, Fields DEF w, x
    <3>2. /\ r \notin f.recoveries /\ Owns(fleet, a, y.session)
          /\ fleet.recoveries \ {r} \subseteq f.recoveries
          /\ f.recoveries \subseteq (fleet.recoveries \ {r}) \union {r} /\ r \in fleet.recoveries
          /\ y.status = "recovering" => y.known # "no" /\ y.known # "yes"
      BY <1>1, <2>2, <2>5, Fields
    <3> QED BY <1>1, <2>2, <2>4, <2>5, <3>1, <3>2, RecoveryPlaced, ZenonT(60) DEF Sound
  <2>7. SameStanding(fleet, f)
    BY <2>2 DEF SameStanding
  <2> QED BY <2>1, <2>6, <2>7, StandingSound, SoundBecomes
<1> QED BY <1>2, <1>3, <1>4 DEF RecoveryStep
-----------------------------------------------------------------------------
(* retireAgent(), quiesce() and close(). Where their calls are:             *)
Pending ==
    /\ retiring \in [Agents -> [phase : {"no", "stopping", "releasing"},
                                shard : Shards \union {0}, session : Sessions]]
    /\ \A a \in Agents : retiring[a].phase # "no" => retiring[a].shard # 0
    /\ closing \in 0..Closed /\ crashes \in 0..MaxCrashes

LEMMA RequestSound ==
    ASSUME NEW k, Sound(fleet, k), NEW a \in Agents, RequestAgent(a)
    PROVE  Sound(fleet', k)
<1> DEFINE f == fleet
           g == fleet'
           w == agents[a]
           y == [w EXCEPT !.known = "yes"]
<1>1. /\ IsFleet(g) /\ g.turns = f.turns /\ g.queue = f.queue /\ g.active = f.active /\ g.shards = f.shards
      /\ g.exceeded = f.exceeded /\ g.recoveries = f.recoveries
      /\ g.agents = [agents EXCEPT ![a].known = "yes"]
      /\ f.agents = agents /\ w.known = "no"
  BY DEF RequestAgent, fleet, IsFleet
<1>2. agents \in [Agents -> AgentRecords]
  BY Fields, PlacedIsTyped DEF Sound
<1>3. g.agents = [agents EXCEPT ![a] = y] /\ w \in AgentRecords
  BY <1>1, <1>2
<1> HIDE DEF w
<1>4. y \in AgentRecords /\ y.known = "yes" /\ y.shard = w.shard /\ y.session = w.session /\ y.status = w.status
  BY <1>3 DEF AgentRecords
<1> HIDE DEF y, f, g
<1>5. /\ g.agents \in [Agents -> AgentRecords] /\ g.agents[a] = y /\ f.agents[a] = w
      /\ \A c \in Agents : c # a => g.agents[c] = f.agents[c]
  BY <1>1, <1>2, <1>3, <1>4 DEF w
<1>6. /\ Placed(f, k) /\ Typed(f) /\ Seats(f) /\ Numbered(f, k) /\ Names(f) /\ Mapped(f) /\ Apart(f) /\ Worked(f)
  BY DEF Sound, Placed, Housed, f
<1>7. Typed(g)
  <2>1. /\ f.shards \in [Shards -> ShardRecords] /\ f.turns \in [Turns -> TurnRecords] /\ f.queue \in Seq(Turns)
        /\ f.exceeded \in BOOLEAN /\ f.recoveries \subseteq Recoveries
        /\ \A t \in Turns : f.turns[t].phase \in Sharded => f.turns[t].shard # 0
    BY <1>6, PlacedIsTyped
  <2>2. /\ g.shards \in [Shards -> ShardRecords] /\ g.turns \in [Turns -> TurnRecords] /\ g.queue \in Seq(Turns)
        /\ g.exceeded \in BOOLEAN /\ g.recoveries \subseteq Recoveries
        /\ \A t \in Turns : g.turns[t].phase \in Sharded => g.turns[t].shard # 0
    BY <1>1, <2>1
  <2> QED BY <1>1, <1>5, <2>2, TypedAgain, Zenon
<1>8. Seats(g)
  <2>1. \A b : ShardList(g, b) = ShardList(f, b)
    BY <1>1 DEF ShardList
  <2>2. \A s \in Shards : ShardFits(g, s)
    BY <1>1, <1>6 DEF Seats, ShardFits
  <2>3. \A c \in Agents : g.agents[c].known = "no" => g.agents[c].shard = 0
    BY <1>4, <1>5, <1>6 DEF Seats
  <2>4. ASSUME NEW c \in Agents, NEW s \in Shards, g.agents[c].known # "gone" PROVE SeatOf(g, c, s)
    <3>1. f.agents[c].known # "gone" /\ g.agents[c].shard = f.agents[c].shard
      BY <1>1, <1>4, <1>5, <2>4
    <3>2. SeatOf(f, c, s)
      BY <1>6, <3>1 DEF Seats
    <3> QED BY <1>1, <3>1, <3>2 DEF SeatOf
  <2> QED BY <1>6, <2>1, <2>2, <2>3, <2>4 DEF Seats
<1>9. Numbered(g, k)
  BY <1>1, <1>6 DEF Numbered, Dead
<1>10. ASSUME NEW c \in Agents PROVE Owns(f, c, g.agents[c].session)
  BY <1>4, <1>5, <1>6 DEF Names
<1>11. KeepsNames(f, g) /\ KeepsRunning(f, g)
  BY <1>1, <1>6, <1>10, SameNames, Zenon
<1>12. KeepsMapped(f, g)
  <2>1. ASSUME NEW c \in Agents, g.agents[c].known # "gone" PROVE f.agents[c].known # "gone"
    BY <1>1, <1>5, <2>1
  <2> QED BY <1>1, <2>1 DEF KeepsMapped
<1>13. Worked(g)
  BY <1>1, <1>4, <1>5, <1>6 DEF Worked
<1>14. Placed(g, k)
  BY <1>6, <1>7, <1>8, <1>9, <1>11, <1>12, <1>13, NamesKept, MappedKept, ApartKept DEF Placed, Housed
<1>15. SameStanding(f, g)
  BY <1>1 DEF SameStanding
<1> QED BY <1>14, <1>15, StandingSound DEF f, g

LEMMA AgentStepSound ==
    ASSUME NEW k, Sound(fleet, k), Pending, NEW a \in Agents,
           RequestAgent(a) \/ RetireBegins(a) \/ RetireStep(a) \/ Quiesce(a)
    PROVE  Sound(fleet', k) /\ Pending'
<1> DEFINE CallRecords == [phase : {"no", "stopping", "releasing"}, shard : Shards \union {0}, session : Sessions]
           States == {"none", "open", "stopped"}
<1>1. agents \in [Agents -> AgentRecords] /\ shards \in [Shards -> ShardRecords]
  BY Fields, PlacedIsTyped DEF Sound
<1>2. /\ agents[a] \in AgentRecords /\ agents[a].session \in Sessions /\ agents[a].shard \in Shards \union {0}
      /\ 0 \in Sessions /\ 0 \notin Shards
  BY <1>1, LimitsAssumption, ShardsFinite DEF AgentRecords, Sessions
<1>3. /\ retiring \in [Agents -> CallRecords] /\ retiring[a] \in CallRecords
      /\ retiring[a].shard \in Shards \union {0} /\ retiring[a].session \in Sessions
      /\ retiring[a].phase # "no" => retiring[a].shard \in Shards
  BY DEF Pending
<1>4. ASSUME NEW c \in CallRecords, c.phase # "no" => c.shard # 0,
             retiring' = [retiring EXCEPT ![a] = c], UNCHANGED <<closing, crashes>>
      PROVE  Pending'
  BY <1>3, <1>4 DEF Pending
<1>5. NotRetiring \in CallRecords /\ NotRetiring.phase = "no"
  BY <1>2 DEF NotRetiring
<1>6. ASSUME UNCHANGED <<retiring, closing, crashes>> PROVE Pending'
  BY <1>6 DEF Pending
<1>7. ASSUME UNCHANGED fleetVars PROVE Sound(fleet', k)
  <2>1. fleet' = fleet
    BY <1>7 DEF fleetVars, fleet
  <2> QED BY <2>1
<1>8. CASE RequestAgent(a)
  BY <1>6, <1>8, RequestSound, Zenon DEF RequestAgent
<1>9. CASE RetireBegins(a)
  <2> DEFINE s == agents[a].shard
             q == [phase |-> "stopping", shard |-> s, session |-> agents[a].session]
  <2>1. UNCHANGED <<closing, crashes>> /\
        (\/ s # 0 /\ retiring' = [retiring EXCEPT ![a] = q] /\ UNCHANGED fleetVars
         \/ \E c \in Calls(1) : (Becomes(Forget(fleet, a, s, c)) \/ Becomes(Forget(fleet, a, 0, c))) /\ UNCHANGED retiring)
    BY <1>9 DEF RetireBegins
  <2>2. CASE s # 0 /\ retiring' = [retiring EXCEPT ![a] = q] /\ UNCHANGED fleetVars
    <3>1. q \in CallRecords /\ q.shard # 0
      BY <1>2, <2>2
    <3> HIDE DEF q, CallRecords
    <3> QED BY <1>4, <1>7, <2>1, <2>2, <3>1, Zenon
  <2>3. CASE \E c \in Calls(1) : (Becomes(Forget(fleet, a, s, c)) \/ Becomes(Forget(fleet, a, 0, c))) /\ UNCHANGED retiring
    <3>1. PICK c \in Calls(1) : (Becomes(Forget(fleet, a, s, c)) \/ Becomes(Forget(fleet, a, 0, c))) /\ UNCHANGED retiring
      BY <2>3
    <3>2. Ranked(c)
      BY CallsRank
    <3>3. Sound(Forget(fleet, a, s, c), k) /\ Sound(Forget(fleet, a, 0, c), k)
      BY <1>2, <3>2, ForgetSound
    <3> QED BY <1>6, <2>1, <3>1, <3>3, SoundBecomes
  <2> QED BY <2>1, <2>2, <2>3
<1>10. CASE RetireQuiesced(a)
  <2> DEFINE s == retiring[a].shard
             x == shards[s]
             y == agents[a].session
             c == [phase |-> "releasing", shard |-> s, session |-> y]
  <2>1. /\ retiring[a].phase # "no" /\ UNCHANGED <<closing, crashes>>
        /\ UNCHANGED <<agents, turns, queue, activeTurns, exceeded, recoveries>>
        /\ retiring' = [retiring EXCEPT ![a] = NotRetiring] \/ retiring' = [retiring EXCEPT ![a] = c]
    BY <1>10, Zenon DEF RetireQuiesced
  <2>2. s \in Shards /\ x \in ShardRecords /\ x.sess \in [Sessions -> States]
    BY <1>1, <1>3, <2>1 DEF ShardRecords
  <2>3. \E e \in [Sessions -> States] : shards' = [shards EXCEPT ![s].sess = e]
    <3> DEFINE codex == shards[s].backend = "codex"
               sess == [x.sess EXCEPT ![retiring[a].session] = IF @ = "none" THEN @ ELSE "stopped"]
               refused == sess[y] # "none" /\ (Busy(s, y) \/ (codex /\ sess[y] = "open"))
               e == [sess EXCEPT ![y] = IF codex /\ ~refused THEN "none" ELSE @]
    <3>1. shards' = [shards EXCEPT ![s].sess = e]
      BY <1>10 DEF RetireQuiesced
    <3>2. sess \in [Sessions -> States]
      BY <1>3, <2>2
    <3> HIDE DEF sess, codex
    <3>3. e \in [Sessions -> States]
      <4> HIDE DEF refused
      <4> QED BY <1>2, <3>2
    <3> QED BY <3>1, <3>3, Zenon
  <2>4. PICK e \in [Sessions -> States] : shards' = [shards EXCEPT ![s].sess = e]
    BY <2>3, Zenon
  <2> DEFINE z == [x EXCEPT !.sess = e]
             f == [fleet EXCEPT !.shards[s] = z]
  <2>5. fleet' = f
    BY <2>1, <2>4 DEF fleet
  <2> HIDE DEF x
  <2>6. /\ z \in ShardRecords /\ z.backend = x.backend /\ z.tracked = x.tracked
        /\ z.members = x.members /\ z.mapped = x.mapped
    BY <2>2 DEF ShardRecords
  <2> HIDE DEF z
  <2>7. Sound(f, k)
    BY <2>2, <2>6, RuntimeSound DEF x
  <2>8. c \in CallRecords /\ c.shard # 0
    BY <1>2, <2>2
  <2> HIDE DEF c, CallRecords
  <2>9. Pending'
    BY <1>4, <1>5, <2>1, <2>8
  <2> QED BY <2>5, <2>7, <2>9, Zenon
<1>11. CASE RetireFails(a)
  <2>1. retiring' = [retiring EXCEPT ![a] = NotRetiring] /\ UNCHANGED fleetVars /\ UNCHANGED <<closing, crashes>>
    BY <1>11 DEF RetireFails
  <2> HIDE DEF CallRecords
  <2> QED BY <1>4, <1>5, <1>7, <2>1, Zenon
<1>12. CASE Released(a)
  <2> DEFINE s == retiring[a].shard
             y == retiring[a].session
             v == IF shards[s].backend = "codex" THEN shards[s].sess[y] ELSE "none"
             f == [fleet EXCEPT !.shards[s].sess[y] = IF shards[s].backend = "codex" THEN @ ELSE "none"]
  <2>0. PICK c \in Calls(1) : Becomes(Forget(f, a, s, c))
    BY <1>12 DEF Released
  <2>1. /\ retiring[a].phase # "no" /\ Becomes(Forget(f, a, s, c))
        /\ retiring' = [retiring EXCEPT ![a] = NotRetiring] /\ UNCHANGED <<closing, crashes>>
    BY <1>12, <2>0 DEF Released
  <2>2. s \in Shards /\ v \in States
    BY <1>1, <1>3, <2>1 DEF ShardRecords
  <2>3. f = [fleet EXCEPT !.shards[s].sess[y] = v]
    BY DEF fleet
  <2> HIDE DEF f, v, s, y
  <2>4. Sound(f, k)
    BY <2>2, <2>3, SessSound, Zenon
  <2>5. Sound(Forget(f, a, s, c), k)
    <3>1. Ranked(c)
      BY CallsRank
    <3> QED BY <2>2, <2>4, <3>1, ForgetSound
  <2> HIDE DEF CallRecords
  <2> QED BY <1>4, <1>5, <2>1, <2>5, SoundBecomes, Zenon
<1>13. CASE Quiesce(a)
  <2> DEFINE s == agents[a].shard
             x == shards[s]
             z == [x EXCEPT !.sess[agents[a].session] = "stopped"]
             f == [fleet EXCEPT !.shards[s] = z]
  <2>1. s \in Shards /\ fleet' = f /\ UNCHANGED <<retiring, closing, crashes>>
    BY <1>2, <1>13 DEF Quiesce, fleet
  <2>2. x \in ShardRecords
    BY <1>1, <2>1
  <2> HIDE DEF x
  <2>3. /\ z \in ShardRecords /\ z.backend = x.backend /\ z.tracked = x.tracked
        /\ z.members = x.members /\ z.mapped = x.mapped
    BY <2>2 DEF ShardRecords
  <2> HIDE DEF z
  <2>4. Sound(f, k)
    BY <2>1, <2>3, RuntimeSound DEF x
  <2> QED BY <1>6, <2>1, <2>4
<1> QED BY <1>8, <1>9, <1>10, <1>11, <1>12, <1>13 DEF RetireStep

LEMMA CloseSound ==
    ASSUME NEW k, Sound(fleet, k)
    PROVE  /\ CloseBegins => Sound(fleet', k)
           /\ CloseEnds /\ k + 2 * maxProcesses \in 0..Room => Sound(fleet', k + 2 * maxProcesses)
<1>1. IsFleet(fleet) /\ fleet.exceeded \in BOOLEAN /\ shards \in [Shards -> ShardRecords]
  BY Fields, PlacedIsTyped DEF Sound
<1>2. ASSUME CloseBegins PROVE Sound(fleet', k)
  <2> DEFINE f == [fleet EXCEPT !.queue = <<>>,
                     !.turns = [t \in Turns |-> IF turns[t].phase = "queued"
                                                THEN [NewTurn(turns[t].agent) EXCEPT !.phase = "refused"]
                                                ELSE turns[t]]]
  <2>1. Becomes(f)
    BY <1>2 DEF CloseBegins
  <2>2. /\ IsFleet(f) /\ f.queue = <<>> /\ f.active = fleet.active /\ f.exceeded = fleet.exceeded
        /\ f.agents = fleet.agents /\ f.shards = fleet.shards /\ f.recoveries = fleet.recoveries
        /\ f.turns = [t \in Turns |-> IF fleet.turns[t].phase = "queued"
                                      THEN [NewTurn(fleet.turns[t].agent) EXCEPT !.phase = "refused"]
                                      ELSE fleet.turns[t]]
    BY Zenon DEF fleet, IsFleet
  <2> HIDE DEF f
  <2>3. Sound(f, k)
    BY <1>1, <2>2, EmptiedSound
  <2> QED BY <2>1, <2>3, SoundBecomes
<1>3. ASSUME CloseEnds, k + 2 * maxProcesses \in 0..Room PROVE Sound(fleet', k + 2 * maxProcesses)
  <2> DEFINE f == fleet
             g == fleet'
             l == k + 2 * maxProcesses
  <2>1. /\ IsFleet(g) /\ g.turns = f.turns /\ g.queue = f.queue /\ g.active = f.active /\ g.agents = f.agents
        /\ g.exceeded = f.exceeded /\ g.recoveries = f.recoveries
        /\ g.shards = [s \in Shards |-> [shards[s] EXCEPT !.tracked = FALSE]]
        /\ f.shards = shards
    BY <1>3 DEF CloseEnds, fleet, IsFleet
  <2> HIDE DEF f, g
  <2>2. ASSUME NEW s \in Shards
        PROVE  /\ g.shards[s] \in ShardRecords
               /\ g.shards[s].backend = f.shards[s].backend /\ g.shards[s].mapped = f.shards[s].mapped
               /\ g.shards[s].tracked = FALSE /\ g.shards[s].members = f.shards[s].members
    <3> DEFINE x == shards[s]
    <3>1. x \in ShardRecords /\ g.shards[s] = [x EXCEPT !.tracked = FALSE] /\ f.shards[s] = x
      BY <1>1, <2>1
    <3> HIDE DEF x
    <3> QED BY <3>1, Zenon DEF ShardRecords
  <2>3. g.shards \in [Shards -> ShardRecords]
    BY <2>1, <2>2, Zenon
  <2>4. Numbered(g, l)
    <3> DEFINE L == ShardList(f, "codex")
               M == ShardList(f, "copilot")
               D == Dead(f)
    <3>1. Dead(g) \subseteq (L \union M) \union D
      <4>1. \A s \in Shards : f.shards[s].backend \in {"codex", "copilot", "none"} /\ f.shards[s].tracked \in BOOLEAN
        BY <1>1, <2>1 DEF ShardRecords, Backends
      <4> QED BY <2>2, <4>1, Zenon DEF ShardList, Dead
    <3>2. L \in SUBSET Shards /\ M \in SUBSET Shards /\ D \in SUBSET Shards /\ Dead(g) \in SUBSET Shards
      BY DEF ShardList, Dead
    <3>3. /\ Cardinality(L) \in Nat /\ Cardinality(M) \in Nat /\ Cardinality(D) \in Nat
          /\ Cardinality(L) <= maxProcesses /\ Cardinality(M) <= maxProcesses
          /\ Cardinality(D) <= k /\ k \in 0..Room
      <4>1. Seats(f) /\ Numbered(f, k)
        BY DEF Sound, Placed, Housed, f
      <4> QED BY <3>2, <4>1, ShardsFinite DEF Seats, Numbered, Backends
    <3> HIDE DEF L, M, D
    <3>4. /\ IsFiniteSet(L) /\ IsFiniteSet(M) /\ IsFiniteSet(D) /\ IsFiniteSet(L \union M)
          /\ IsFiniteSet((L \union M) \union D)
          /\ Cardinality(L \union M) \in Nat /\ Cardinality((L \union M) \union D) \in Nat
          /\ Cardinality(Dead(g)) \in Nat
      <4>1. L \union M \in SUBSET Shards /\ (L \union M) \union D \in SUBSET Shards
        BY <3>2
      <4> QED BY <3>2, <4>1, ShardsFinite
    <3>5. /\ Cardinality(L \union M) <= Cardinality(L) + Cardinality(M)
          /\ Cardinality((L \union M) \union D) <= Cardinality(L \union M) + Cardinality(D)
      <4>1. /\ Cardinality(L \union M) = Cardinality(L) + Cardinality(M) - Cardinality(L \cap M)
            /\ Cardinality((L \union M) \union D)
                 = Cardinality(L \union M) + Cardinality(D) - Cardinality((L \union M) \cap D)
        BY <3>4, FS_Union
      <4>2. L \cap M \in SUBSET Shards /\ (L \union M) \cap D \in SUBSET Shards
        BY <3>2
      <4>3. Cardinality(L \cap M) \in Nat /\ Cardinality((L \union M) \cap D) \in Nat
        BY <4>2, ShardsFinite
      <4> QED BY <3>3, <3>4, <4>1, <4>3
    <3>6. Cardinality(Dead(g)) <= Cardinality((L \union M) \union D)
      BY <3>1, <3>4, FS_Subset
    <3>7. Cardinality(Dead(g)) <= l
      BY <3>3, <3>4, <3>5, <3>6, Limits
    <3> QED BY <1>3, <3>7 DEF Numbered
  <2>5. Sound(f, k)
    BY DEF f
  <2> HIDE DEF l
  <2>6. \A r \in Shards :
           /\ g.shards[r].backend = f.shards[r].backend /\ g.shards[r].mapped = f.shards[r].mapped
           /\ g.shards[r].tracked => f.shards[r].tracked
           /\ \/ g.shards[r].members = f.shards[r].members
              \/ g.shards[r].members = <<>> /\ ~g.shards[r].tracked
    BY <2>2, Zenon
  <2>7. Sound(g, l)
    BY <2>1, <2>3, <2>4, <2>5, <2>6, UntrackedSound
  <2> QED BY <2>7 DEF g, l
<1> QED BY <1>2, <1>3
-----------------------------------------------------------------------------
(* The inductive invariant. A crash uses up one number of a shard for good, *)
(* and the end of close() those of the shards that were in use.             *)
Gone == crashes + (IF closing = Closed THEN 2 * maxProcesses ELSE 0)
InPlace == Sound(fleet, Gone) /\ Pending

LEMMA MoreGone ==
    ASSUME NEW f, NEW k, NEW l \in 0..Room, Sound(f, k), k <= l
    PROVE  Sound(f, l)
<1>1. Numbered(f, l)
  <2>1. Dead(f) \in SUBSET Shards
    BY DEF Dead
  <2>2. Cardinality(Dead(f)) \in Nat
    BY <2>1, ShardsFinite
  <2>3. Cardinality(Dead(f)) <= k /\ k \in Nat /\ l \in Nat /\ Room \in Nat
    BY Limits DEF Sound, Placed, Housed, Numbered
  <2>4. Cardinality(Dead(f)) <= l
    BY <2>2, <2>3
  <2> QED BY <2>4 DEF Numbered
<1> QED BY <1>1 DEF Sound, Placed, Housed

LEMMA GoneBounds ==
    ASSUME Pending
    PROVE  /\ crashes \in Nat /\ crashes <= MaxCrashes /\ Gone \in 0..Room
           /\ closing # Closed => Gone = crashes /\ crashes + 2 * maxProcesses \in 0..Room
           /\ Closed > 1 /\ Closed \in Nat
BY Limits DEF Pending, Gone, Closed, Room

LEMMA InitialPlaces == Init => InPlace
<1> SUFFICES ASSUME Init PROVE InPlace
  OBVIOUS
<1>1. /\ 0 \in Sessions /\ 0 \notin Turns /\ 0 \notin Shards
  BY LimitsAssumption, ShardsFinite DEF Sessions, Turns
<1>2. NewAgent \in AgentRecords /\ NewAgent.known = "no" /\ NewAgent.shard = 0 /\ NewAgent.session = 0 /\ NewAgent.status = "unassigned"
  BY <1>1 DEF NewAgent, AgentRecords
<1>3. /\ NewShard \in ShardRecords /\ NewShard.backend = "none" /\ NewShard.tracked = FALSE
      /\ NewShard.members = <<>>
  BY DEF NewShard, ShardRecords
<1>4. /\ NewTurn("none") \in TurnRecords /\ NewTurn("none").phase = "new"
      /\ NewTurn("none").session = 0
  BY <1>1 DEF NewTurn, TurnRecords, Phases
<1>5. /\ agents = [a \in Agents |-> NewAgent] /\ shards = [s \in Shards |-> NewShard]
      /\ turns = [t \in Turns |-> NewTurn("none")] /\ queue = <<>> /\ exceeded = FALSE /\ recoveries = {}
      /\ retiring = [a \in Agents |-> NotRetiring] /\ closing = 0 /\ crashes = 0
  BY DEF Init
<1>6. /\ agents \in [Agents -> AgentRecords] /\ shards \in [Shards -> ShardRecords]
      /\ turns \in [Turns -> TurnRecords] /\ queue \in Seq(Turns) /\ exceeded \in BOOLEAN
      /\ recoveries \subseteq Recoveries /\ Len(queue) = 0
      /\ \A a \in Agents : agents[a].known = "no" /\ agents[a].shard = 0 /\ agents[a].session = 0
                           /\ agents[a].status = "unassigned"
      /\ \A s \in Shards : shards[s].backend = "none" /\ shards[s].tracked = FALSE /\ shards[s].members = <<>>
      /\ \A t \in Turns : turns[t].phase = "new" /\ turns[t].session = 0
  <2> HIDE DEF NewAgent, NewShard, NewTurn
  <2>1. /\ agents \in [Agents -> AgentRecords]
        /\ \A a \in Agents : agents[a] = NewAgent
    BY <1>2, <1>5
  <2>2. /\ shards \in [Shards -> ShardRecords]
        /\ \A s \in Shards : shards[s] = NewShard
    BY <1>3, <1>5
  <2>3. /\ turns \in [Turns -> TurnRecords]
        /\ \A t \in Turns : turns[t] = NewTurn("none")
    BY <1>4, <1>5
  <2>4. queue \in Seq(Turns) /\ exceeded \in BOOLEAN /\ recoveries \subseteq Recoveries /\ Len(queue) = 0
    <3>1. queue = <<>> /\ recoveries = {}
      BY DEF Init
    <3>2. exceeded = FALSE
      BY DEF Init
    <3>3. exceeded \in BOOLEAN
      BY <3>2, Zenon
    <3> QED BY <3>1, <3>3
  <2>5. \A a \in Agents : agents[a].known = "no" /\ agents[a].shard = 0 /\ agents[a].session = 0
                           /\ agents[a].status = "unassigned"
    BY <1>2, <2>1
  <2>6. \A s \in Shards : shards[s].backend = "none" /\ shards[s].tracked = FALSE /\ shards[s].members = <<>>
    BY <1>3, <2>2
  <2>7. \A t \in Turns : turns[t].phase = "new" /\ turns[t].session = 0
    BY <1>4, <2>3
  <2> QED BY <2>1, <2>2, <2>3, <2>4, <2>5, <2>6, <2>7
<1>7. Typed(fleet)
  <2>1. \A t \in Turns : turns[t].phase \notin Sharded
    BY <1>6 DEF Sharded, InFlightPhases
  <2> QED BY <1>6, <2>1, Fields, TypedAgain, Zenon
<1>8. Seats(fleet)
  <2>1. \A b : ShardList(fleet, b) = {}
    BY <1>6, Fields DEF ShardList
  <2>2. \A b : Cardinality(ShardList(fleet, b)) <= maxProcesses
    BY <2>1, FS_EmptySet, Limits
  <2>3. \A s \in Shards : ShardFits(fleet, s)
    BY <1>6, Fields DEF ShardFits
  <2>4. ASSUME NEW a \in Agents, NEW s \in Shards PROVE SeatOf(fleet, a, s)
    <3>1. shards[s].members = <<>> /\ Len(shards[s].members) = 0 /\ agents[a].shard # s
      BY <1>1, <1>6
    <3> QED BY <3>1, Fields DEF SeatOf, Holds, Once
  <2> QED BY <1>6, <2>2, <2>3, <2>4, Fields DEF Seats
<1>9. Gone = 0 /\ Numbered(fleet, 0)
  <2>1. Dead(fleet) = {}
    BY <1>6, Fields DEF Dead
  <2>2. Closed # 0
    BY Limits DEF Closed
  <2> QED BY <1>5, <2>1, <2>2, FS_EmptySet, Limits DEF Gone, Numbered
<1>10. Names(fleet) /\ Mapped(fleet) /\ Apart(fleet) /\ Worked(fleet)
  <2>1. Names(fleet)
    BY <1>5, <1>6, Fields DEF Names, Owns
  <2>2. Mapped(fleet) /\ Apart(fleet) /\ Worked(fleet)
    BY <1>5, <1>6, Fields DEF Mapped, Apart, Worked
  <2> QED BY <2>1, <2>2
<1>11. Pending
  <2>1. /\ NotRetiring \in [phase : {"no", "stopping", "releasing"}, shard : Shards \union {0}, session : Sessions]
        /\ NotRetiring.phase = "no"
    BY <1>1 DEF NotRetiring
  <2>2. 0 \in 0..Closed /\ 0 \in 0..MaxCrashes
    BY Limits DEF Closed
  <2> HIDE DEF NotRetiring
  <2> QED BY <1>5, <2>1, <2>2 DEF Pending
<1> QED BY <1>7, <1>8, <1>9, <1>10, <1>11, InitialLedger DEF InPlace, Sound, Placed, Housed

LEMMA PlacesAreKept == InPlace /\ [Next]_vars => InPlace'
<1> SUFFICES ASSUME InPlace, [Next]_vars PROVE InPlace'
  OBVIOUS
<1> DEFINE k == Gone
<1>1. Sound(fleet, k) /\ Pending
  BY DEF InPlace
<1>2. ASSUME Sound(fleet', k), UNCHANGED <<retiring, closing, crashes>> PROVE InPlace'
  BY <1>1, <1>2 DEF InPlace, Pending, Gone
<1> HIDE DEF k
<1>3. ASSUME NEW t \in Turns, TurnStep(t) PROVE InPlace'
  <2>1. Sound(fleet', k)
    BY <1>1, <1>3, TurnStartSound, TurnReusesSound, TurnOpensFreshSound, TurnCompletesSound,
       TurnFailsSound, TurnEndsSound, BackendCeilingSound, Zenon DEF TurnStep
  <2>2. UNCHANGED <<retiring, closing, crashes>>
    BY <1>3, Zenon DEF TurnStep, TurnStart, TurnReuses, TurnOpensFresh, TurnCompletes, TurnFails, TurnResolves,
                TurnRejects, BackendCeiling
  <2> QED BY <1>2, <2>1, <2>2
<1>4. ASSUME NEW s \in Shards, ShardStep(s) PROVE InPlace'
  <2>1. Sound(fleet', k)
    BY <1>1, <1>4, ShardStepSound DEF ShardStep
  <2>2. UNCHANGED <<retiring, closing, crashes>>
    BY <1>4 DEF ShardStep, ShardStartUp, StartFails
  <2> QED BY <1>2, <2>1, <2>2
<1>5. ASSUME NEW r \in recoveries, RecoveryStep(r) PROVE InPlace'
  <2>1. Sound(fleet', k)
    BY <1>1, <1>5, RecoveryStepSound
  <2>2. UNCHANGED <<retiring, closing, crashes>>
    BY <1>5 DEF RecoveryStep, RecoveryResumes, RecoverySucceeds, RecoveryFails
  <2> QED BY <1>2, <2>1, <2>2
<1>6. ASSUME NEW a \in Agents, RequestAgent(a) \/ RetireBegins(a) \/ RetireStep(a) \/ Quiesce(a) PROVE InPlace'
  <2>1. Sound(fleet', k) /\ Pending'
    BY <1>1, <1>6, AgentStepSound, Zenon
  <2>2. UNCHANGED <<closing, crashes>>
    BY <1>6, Zenon DEF RequestAgent, RetireBegins, RetireStep, RetireQuiesced, RetireFails, Released, Quiesce
  <2>3. Gone' = k
    BY <2>2 DEF Gone, k
  <2> QED BY <2>1, <2>3 DEF InPlace
<1>7. ASSUME NEW t \in Turns, NEW a \in Agents, NEW p \in Priorities, Run(t, a, p) PROVE InPlace'
  <2>1. Sound(fleet', k)
    BY <1>1, <1>7, RunSound
  <2>2. UNCHANGED <<retiring, closing, crashes>>
    BY <1>7 DEF Run
  <2> QED BY <1>2, <2>1, <2>2
<1>8. ASSUME NEW t \in Turns, NEW cost \in Costs, Usage(t, cost) PROVE InPlace'
  <2>1. Sound(fleet', k)
    BY <1>1, <1>8, UsageSound
  <2>2. UNCHANGED <<retiring, closing, crashes>>
    BY <1>8 DEF Usage
  <2> QED BY <1>2, <2>1, <2>2
<1>9. ASSUME NEW s \in Shards, ShardLost(s) PROVE InPlace'
  <2>1. crashes < MaxCrashes /\ crashes' = crashes + 1 /\ UNCHANGED <<retiring, closing>>
    BY <1>9 DEF ShardLost
  <2>2. k < Room /\ Gone' = k + 1
    BY <1>1, <2>1, Limits, GoneBounds DEF Gone, k, Room
  <2>3. Sound(fleet', k + 1)
    BY <1>1, <1>9, <2>2, ShardLostSound
  <2>4. Pending'
    BY <1>1, <2>1, Limits DEF Pending
  <2> QED BY <2>2, <2>3, <2>4 DEF InPlace
<1>10. ASSUME NEW s \in Shards, CloseShard(s) PROVE InPlace'
  <2>1. closing' = s + 1 /\ closing \in Shards /\ UNCHANGED <<retiring, crashes>>
    BY <1>10 DEF CloseShard
  <2>2. Pending'
    BY <1>1, <2>1, Limits DEF Pending, Closed, Shards
  <2>3. closing # Closed
    BY <2>1, Limits DEF Shards, Closed
  <2>4. k = crashes /\ Gone' \in {crashes, crashes + 2 * maxProcesses}
    BY <1>1, <2>1, <2>3, GoneBounds DEF Gone, k
  <2>5. k <= Gone' /\ Gone' \in 0..Room
    BY <1>1, <2>3, <2>4, GoneBounds, Limits
  <2>6. Sound(fleet', k)
    BY <1>1, <1>10, ShardStepSound
  <2>7. Sound(fleet', Gone')
    BY <2>5, <2>6, MoreGone
  <2> QED BY <2>2, <2>7 DEF InPlace
<1>11. CASE CloseBegins
  <2>1. closing = 0 /\ closing' = 1 /\ UNCHANGED <<retiring, crashes>>
    BY <1>11 DEF CloseBegins
  <2>2. Pending' /\ Gone' = k
    BY <1>1, <2>1, GoneBounds DEF Pending, Gone, k
  <2> QED BY <1>1, <1>11, <2>2, CloseSound DEF InPlace
<1>12. CASE CloseEnds
  <2>1. closing \in 1..MaxShards /\ closing' = Closed /\ UNCHANGED <<retiring, crashes>>
    BY <1>12 DEF CloseEnds
  <2>2. closing # Closed
    BY <2>1, Limits DEF Closed
  <2>3. Pending' /\ Gone' = k + 2 * maxProcesses /\ k + 2 * maxProcesses \in 0..Room
    BY <1>1, <2>1, <2>2, GoneBounds DEF Pending, Gone, k
  <2> QED BY <1>1, <1>12, <2>3, CloseSound DEF InPlace
<1>13. CASE UNCHANGED vars
  <2>1. fleet' = fleet /\ UNCHANGED <<retiring, closing, crashes>>
    BY <1>13 DEF vars, fleetVars, fleet
  <2> QED BY <1>1, <1>2, <2>1
<1> QED BY <1>3, <1>4, <1>5, <1>6, <1>7, <1>8, <1>9, <1>10, <1>11, <1>12, <1>13 DEF Next, Answer

LEMMA AlwaysInPlace == Spec => []InPlace
BY InitialPlaces, PlacesAreKept, PTL DEF Spec
-----------------------------------------------------------------------------
LEMMA InPlaceFacts ==
    ASSUME InPlace
    PROVE  /\ agents \in [Agents -> AgentRecords] /\ shards \in [Shards -> ShardRecords]
           /\ turns \in [Turns -> TurnRecords] /\ queue \in Seq(Turns)
           /\ exceeded \in BOOLEAN /\ recoveries \subseteq Recoveries
           /\ \A t \in Turns : turns[t].phase \in Sharded => turns[t].shard # 0
           /\ Seats(fleet) /\ Names(fleet) /\ Mapped(fleet) /\ Apart(fleet) /\ Worked(fleet)
<1>1. Placed(fleet, Gone)
  BY DEF InPlace, Sound
<1>2. Seats(fleet) /\ Names(fleet) /\ Mapped(fleet) /\ Apart(fleet) /\ Worked(fleet)
  BY <1>1 DEF Placed, Housed
<1> QED BY <1>1, <1>2, PlacedIsTyped, Fields

(* Whatever the order of calls, answers and crashes, the tables of the      *)
(* fleet keep their types, and what is admitted names the shard it runs on  *)
(* (fleet.mjs:116-126 and 447-481).                                         *)
THEOREM TypesCorrect == Spec => []TypeOK
<1>1. InPlace => TypeOK
  <2> SUFFICES ASSUME InPlace PROVE TypeOK
    OBVIOUS
  <2>1. activeTurns \in 0..MaxTurns
    <3>1. activeTurns = Cardinality(InFlight)
      <4>1. Books
        BY DEF InPlace, Sound, Books
      <4> QED BY <4>1, BooksGiveAccounting DEF Accounting
    <3>2. InFlight \subseteq Turns
      BY DEF InFlight
    <3>3. Cardinality(InFlight) \in Nat /\ Cardinality(InFlight) <= Cardinality(Turns)
      BY <3>2, TurnsFinite, FS_Subset, FS_CardinalityType, Zenon
    <3>4. Cardinality(Turns) = MaxTurns
      BY Limits, FS_Interval DEF Turns
    <3> QED BY <3>1, <3>3, <3>4, Limits
  <2>2. \A t \in InFlight : turns[t].phase # "stranded" => turns[t].shard # 0
    BY InPlaceFacts DEF InFlight, Sharded
  <2>3. Pending
    BY DEF InPlace
  <2> QED BY <2>1, <2>2, <2>3, InPlaceFacts DEF TypeOK, Pending
<1> QED BY <1>1, AlwaysInPlace, PTL

(* An agent's shardId and the agentIds of the shards agree, and no limit on *)
(* processes or on their agents is exceeded, across admissions, crashes,    *)
(* recoveries, retirements and close() (fleet.mjs:262-293 and 362-417).     *)
THEOREM PlacementCorrect == Spec => []Placement
<1>1. InPlace => Placement
  <2> SUFFICES ASSUME InPlace PROVE Placement
    OBVIOUS
  <2>1. Seats(fleet)
    BY InPlaceFacts
  <2>2. \A b \in Backends : Cardinality(ShardList(fleet, b)) <= maxProcesses
    BY <2>1 DEF Seats
  <2>3. ASSUME NEW s \in Shards, shards[s].tracked PROVE Len(shards[s].members) <= maxSessionsPerProcess
    BY <2>1, <2>3, Fields DEF Seats, ShardFits
  <2>4. ASSUME NEW a \in AgentsOf(fleet), NEW s \in Shards, shards[s].tracked
        PROVE  /\ (\E i \in 1..Len(shards[s].members) : shards[s].members[i] = a) <=> agents[a].shard = s
               /\ agents[a].shard = s => shards[s].backend = BackendOf(a)
    <3>1. a \in Agents /\ fleet.agents[a].known # "gone"
      BY DEF AgentsOf, Registered
    <3>2. SeatOf(fleet, a, s)
      BY <2>1, <3>1 DEF Seats
    <3> QED BY <2>4, <3>2, Fields DEF SeatOf, Holds
  <2> QED BY <2>2, <2>3, <2>4 DEF Placement
<1> QED BY <1>1, AlwaysInPlace, PTL

(* No agent is left recovering with nobody at work on it, also when the     *)
(* shard it recovers on dies, or another recovery of it ends, in its turn   *)
(* (fleet.mjs:362-417).                                                     *)
THEOREM RecoveryCorrect == Spec => []RecoveringIsWorkedOn
<1>1. InPlace => RecoveringIsWorkedOn
  <2> SUFFICES ASSUME InPlace, NEW a \in AgentsOf(fleet), agents[a].status = "recovering"
               PROVE  \E r \in recoveries : r.agent = a
    BY DEF RecoveringIsWorkedOn
  <2>1. a \in Agents /\ fleet.agents[a].known = "yes"
    BY DEF AgentsOf, Registered
  <2> QED BY <2>1, InPlaceFacts, Fields DEF Worked
<1> QED BY <1>1, AlwaysInPlace, PTL

(* The session of a running turn, and one that resume() is awaited for, is  *)
(* a key of sessionToAgent on its shard while its agent is in the fleet, so *)
(* its events reach the agent (fleet.mjs:295-313, 394-417 and 447-472).     *)
THEOREM AttributionCorrect == Spec => []Attributed
<1>1. InPlace => Attributed
  <2> SUFFICES ASSUME InPlace PROVE Attributed
    OBVIOUS
  <2>1. Mapped(fleet)
    BY InPlaceFacts
  <2>2. ASSUME NEW t \in Turns, turns[t].phase = "running", Registered(fleet, turns[t].agent)
        PROVE  turns[t].session \in shards[turns[t].shard].mapped
    BY <2>1, <2>2, Fields DEF Mapped, Registered
  <2>3. ASSUME NEW r \in recoveries, r.phase = "resuming", r.session # 0, Registered(fleet, r.agent)
        PROVE  r.session \in shards[r.shard].mapped
    BY <2>1, <2>3, Fields DEF Mapped, Registered
  <2> QED BY <2>2, <2>3 DEF Attributed
<1> QED BY <1>1, AlwaysInPlace, PTL

(* Two runs of one agent, or of an agent and the one it inherited a session *)
(* from, never have a turn at once on one session of one process            *)
(* (fleet.mjs:447-472 with the refusals of the adapters' run()).            *)
THEOREM ExclusionCorrect == Spec => []ExclusiveSession
<1>1. InPlace => ExclusiveSession
  <2> SUFFICES ASSUME InPlace PROVE ExclusiveSession
    OBVIOUS
  <2> QED BY InPlaceFacts, Fields DEF Apart, ExclusiveSession
<1> QED BY <1>1, AlwaysInPlace, PTL
-----------------------------------------------------------------------------
(***************************************************************************)
(* Who waits. A turn that waits for its runtime waits on the shard of its   *)
(* agent, which is neither lost nor recovering; a recovery that may still   *)
(* succeed is the only one of its agent, which its end makes ready on the   *)
(* shard it was put on. Who is queued has been requested.                   *)
(***************************************************************************)
Waiting == {"starting", "opening", "running"}
HomeOf(f, t) ==
    f.agents[f.turns[t].agent].known # "gone" =>
        /\ f.agents[f.turns[t].agent].shard = f.turns[t].shard
        /\ f.agents[f.turns[t].agent].status \notin {"lost", "recovering"}
AtHome(f) == \A t \in Turns : f.turns[t].phase \in Waiting => HomeOf(f, t)
Marked(f) ==
    \A r \in f.recoveries : f.agents[r.agent].known # "gone" =>
        /\ f.agents[r.agent].status \in {"lost", "recovering"}
        /\ r.phase # "failing" => f.agents[r.agent].shard = r.shard
Single(f) ==
    \A r, p \in f.recoveries :
        /\ r.agent = p.agent /\ f.agents[r.agent].known # "gone"
        /\ r.phase # "failing" /\ p.phase # "failing"
        => r = p
Asked(f) ==
    \A t \in Turns : f.turns[t].phase = "queued" => f.agents[f.turns[t].agent].known # "no"
Steady(f) == AtHome(f) /\ Marked(f) /\ Single(f) /\ Asked(f)

(* The queue is in the order of the calls, and calls are made in order.     *)
InOrder(f) ==
    /\ \A i, j \in 1..Len(f.queue) : i < j => f.queue[i] < f.queue[j]
    /\ \A t, u \in Turns : f.turns[u].phase = "new" /\ u <= t => f.turns[t].phase = "new"

(* The latter hold in the middle of a handler too.                          *)
Lined(f, k) == Housed(f, k) /\ Ledger(f) /\ Steady(f) /\ InOrder(f)
Orderly(f, k) == Sound(f, k) /\ Steady(f) /\ InOrder(f)

LEMMA OrderlyIsLined ==
    ASSUME NEW f, NEW k
    PROVE  Orderly(f, k) <=> Lined(f, k) /\ Worked(f)
BY DEF Orderly, Lined, Sound, Placed

(* Nothing that could be admitted waits.                                    *)
Full(f) == f.exceeded \/ f.active >= maxConcurrentTurns
Idle(f) == ~Full(f) => \A i \in 1..Len(f.queue) : ~Admissible(f, f.queue[i])

(* From f to g turns were admitted, and in the order that is promised, on   *)
(* shards in use; where listeners call, new ones were queued meanwhile.     *)
Outranks(f, u, t) ==
    f.turns[u].prio > f.turns[t].prio \/ (f.turns[u].prio = f.turns[t].prio /\ u < t)
MovesOn(f, g, u) ==
    \/ g.turns[u].phase = f.turns[u].phase
    \/ f.turns[u].phase = "queued" /\ g.turns[u].phase \in {"taken", "starting", "stranded"}
    \/ f.turns[u].phase = "taken" /\ g.turns[u].phase \in {"starting", "stranded"}
SameCalls(f, g) ==
    \A u \in Turns :
        /\ f.turns[u].phase = "new" => g.turns[u].phase = "new" \/ ListenersCall
        /\ f.turns[u].phase # "new" =>
              /\ g.turns[u].agent = f.turns[u].agent /\ g.turns[u].prio = f.turns[u].prio
              /\ MovesOn(f, g, u)
Waits(f, g, u) == f.turns[u].phase = "queued" /\ g.turns[u].phase = "queued"
Narrows(f, g) ==
    \A u \in Turns : Waits(f, g, u) /\ Admissible(g, u) => Admissible(f, u)
InTurn(f, g) ==
    \A t, u \in Turns :
        /\ f.turns[t].phase # "starting" /\ g.turns[t].phase = "starting"
        /\ Waits(f, g, u) /\ Outranks(g, u, t)
        => ~Admissible(g, u)
Passing(f, g) == SameCalls(f, g) /\ Narrows(f, g) /\ InTurn(f, g)
Quit(f, s) == \A t \in Turns : f.turns[t].phase \in Waiting => f.turns[t].shard # s
Spares(f, g) == \A s \in Dead(f) : Quit(f, s) => Quit(g, s)
Admits(f, g) == Fills(f, g) /\ Spares(f, g) /\ Passing(f, g)

LEMMA AdmitsSame == ASSUME NEW f PROVE Admits(f, f) /\ Passing(f, f)
BY FillsSame DEF Admits, Spares, Passing, SameCalls, MovesOn, Narrows, InTurn

LEMMA CallsOn ==
    ASSUME NEW f, NEW g, NEW h, SameCalls(f, g), SameCalls(g, h)
    PROVE  SameCalls(f, h) /\ \A u \in Turns : Waits(f, h, u) => Waits(f, g, u) /\ Waits(g, h, u)
<1>1. ASSUME NEW u \in Turns
      PROVE  /\ f.turns[u].phase = "new" => h.turns[u].phase = "new" \/ ListenersCall
             /\ f.turns[u].phase # "new" =>
                   /\ h.turns[u].agent = f.turns[u].agent /\ h.turns[u].prio = f.turns[u].prio
                   /\ MovesOn(f, h, u)
             /\ Waits(f, h, u) => Waits(f, g, u) /\ Waits(g, h, u)
  BY DEF SameCalls, MovesOn, Waits
<1> QED BY <1>1 DEF SameCalls

LEMMA PassingOn ==
    ASSUME NEW f, NEW g, NEW h, Passing(f, g), Passing(g, h)
    PROVE  Passing(f, h)
<1>1. SameCalls(f, h) /\ \A u \in Turns : Waits(f, h, u) => Waits(f, g, u) /\ Waits(g, h, u)
  BY CallsOn DEF Passing
<1>2. Narrows(f, h)
  BY <1>1 DEF Passing, Narrows
<1>3. ASSUME NEW t \in Turns, NEW u \in Turns, f.turns[t].phase # "starting", h.turns[t].phase = "starting",
             Waits(f, h, u), Outranks(h, u, t), Admissible(h, u)
      PROVE  FALSE
  <2>1. Waits(f, g, u) /\ Waits(g, h, u) /\ Admissible(g, u)
    BY <1>1, <1>3 DEF Passing, Narrows
  <2>2. CASE g.turns[t].phase = "starting"
    <3>1. Outranks(g, u, t)
      BY <1>3, <2>1, <2>2 DEF Outranks, Passing, SameCalls, Waits
    <3> QED BY <1>3, <2>1, <2>2, <3>1 DEF Passing, InTurn
  <2>3. CASE g.turns[t].phase # "starting"
    BY <1>3, <2>1, <2>3 DEF Passing, InTurn
  <2> QED BY <2>2, <2>3
<1> QED BY <1>1, <1>2, <1>3 DEF Passing, InTurn

LEMMA AdmitsOn ==
    ASSUME NEW f, NEW g, NEW h, Admits(f, g), Admits(g, h)
    PROVE  Admits(f, h)
<1>1. Fills(f, h) /\ Passing(f, h)
  BY FillsOn, PassingOn DEF Admits
<1>2. Spares(f, h)
  BY DEF Admits, Spares, Fills
<1> QED BY <1>1, <1>2 DEF Admits

(* Who keeps the seats keeps the room there is.                             *)
LEMMA SameRoom ==
    ASSUME NEW f, NEW g, KeepsSeats(f, g), NEW c \in Agents
    PROVE  CanAssign(g, c) <=> CanAssign(f, c)
<1> DEFINE b == BackendOf(c)
<1>1. ShardList(g, b) = ShardList(f, b)
  BY DEF KeepsSeats, ShardList
<1>2. WithRoom(g, b) = WithRoom(f, b)
  BY <1>1, Zenon DEF KeepsSeats, WithRoom, ShardList
<1> QED BY <1>1, <1>2 DEF KeepsSeats, CanAssign

LEMMA CrowdsNarrows ==
    ASSUME NEW f, NEW g, NEW k, Housed(f, k), Fills(f, g), SameCalls(f, g), Crowds(f, g)
    PROVE  Narrows(f, g)
<1> SUFFICES ASSUME NEW u \in Turns, Waits(f, g, u), Admissible(g, u) PROVE Admissible(f, u)
  BY DEF Narrows
<1> DEFINE c == f.turns[u].agent
<1>1. f.turns[u].phase # "new" /\ g.turns[u].agent = c
  BY DEF Waits, SameCalls
<1>2. c \in Agents
  BY <1>1 DEF Housed, Names
<1> HIDE DEF c
<1>3. g.agents[c].known = f.agents[c].known /\ g.agents[c].status = f.agents[c].status
      /\ (CanAssign(g, c) => CanAssign(f, c))
  BY <1>2 DEF Fills, Crowds
<1> QED BY <1>1, <1>3, Zenon DEF Admissible, Registered, c

(* Filling places keeps everybody steady, if who starts is at home.         *)
LEMMA SteadyFills ==
    ASSUME NEW f, NEW g, NEW k, Housed(f, k), Steady(f), Fills(f, g), Asked(g),
           \A u \in Turns : f.turns[u].phase \in {"new", "queued", "taken"} /\ g.turns[u].phase \in Waiting
              => HomeOf(g, u)
    PROVE  Steady(g)
<1>1. ASSUME NEW u \in Turns, g.turns[u].phase \in Waiting PROVE HomeOf(g, u)
  <2>1. CASE f.turns[u].phase \notin {"new", "queued", "taken"}
    <3> DEFINE c == f.turns[u].agent
    <3>1. g.turns[u] = f.turns[u]
      BY <2>1 DEF Fills
    <3>2. c \in Agents /\ f.turns[u].shard # 0
      <4>1. f.turns[u].phase \in Sharded
        BY <1>1, <3>1 DEF Waiting, Sharded, InFlightPhases
      <4> QED BY <2>1, <4>1, HousedIsTyped DEF Housed, Names
    <3>3. HomeOf(f, u)
      BY <1>1, <3>1 DEF Steady, AtHome
    <3> HIDE DEF c
    <3>4. /\ g.agents[c].known = f.agents[c].known /\ g.agents[c].status = f.agents[c].status
          /\ f.agents[c].shard # 0 => g.agents[c].shard = f.agents[c].shard
      BY <3>2 DEF Fills
    <3> QED BY <3>1, <3>2, <3>3, <3>4 DEF HomeOf, c
  <2> QED BY <1>1, <2>1
<1>2. \A r \in f.recoveries : r.agent \in Agents
  BY HousedIsTyped DEF Recoveries
<1>3. Marked(g)
  <2> SUFFICES ASSUME NEW r \in g.recoveries, g.agents[r.agent].known # "gone"
               PROVE  /\ g.agents[r.agent].status \in {"lost", "recovering"}
                      /\ r.phase # "failing" => g.agents[r.agent].shard = r.shard
    BY DEF Marked
  <2>1. r \in f.recoveries /\ r.agent \in Agents
    BY <1>2 DEF Fills
  <2>2. f.agents[r.agent].known # "gone"
    BY <2>1 DEF Fills
  <2>3. /\ f.agents[r.agent].status \in {"lost", "recovering"}
        /\ r.phase # "failing" => f.agents[r.agent].shard = r.shard
    BY <2>1, <2>2 DEF Steady, Marked
  <2> QED BY <2>1, <2>3 DEF Fills
<1>4. Single(g)
  BY <1>2 DEF Steady, Single, Fills
<1> QED BY <1>1, <1>3, <1>4 DEF Steady, AtHome

(* Who is given a shard is given one in use.                                *)
LEMMA AcquiredAlive ==
    ASSUME NEW f, NEW k, Housed(f, k), NEW a \in Agents, f.agents[a].known = "yes",
           f.agents[a].shard = 0, CanAssign(f, a)
    PROVE  Acquire(f, a).agents[a].shard \in Shards \ Dead(f)
<1> DEFINE s == IF WithRoom(f, BackendOf(a)) # {} THEN Min(WithRoom(f, BackendOf(a))) ELSE Min(Uncreated(f))
           g == Acquire(f, a)
<1>1. /\ IsFleet(f) /\ f.agents \in [Agents -> AgentRecords] /\ f.shards \in [Shards -> ShardRecords]
  BY HousedIsTyped
<1>2. g = [f EXCEPT !.agents[a].shard = s, !.shards[s].backend = BackendOf(a), !.shards[s].tracked = TRUE,
                    !.shards[s].members = Append(@, a)]
  BY DEF Acquire
<1>3. g.agents[a].shard \in Shards /\ \A r \in Dead(f) : g.shards[r] = f.shards[r]
  BY AcquireHoused, ZenonT(60)
<1> HIDE DEF s, g
<1>4. f.agents[a] \in AgentRecords
  BY <1>1
<1>5. g.agents[a].shard = s
  BY <1>1, <1>2, <1>4 DEF IsFleet, AgentRecords
<1>6. s \in Shards /\ f.shards[s] \in ShardRecords
  BY <1>1, <1>3, <1>5
<1>7. g.shards[s].tracked = TRUE
  BY <1>1, <1>2, <1>6 DEF IsFleet, ShardRecords
<1>8. s \notin Dead(f)
  BY <1>3, <1>7 DEF Dead
<1> QED BY <1>5, <1>6, <1>8 DEF g

(* What #admit() leaves of the fleet record.                                *)
LEMMA AdmitView ==
    ASSUME NEW f, NEW k, Housed(f, k), NEW t \in Turns, f.turns[t].phase = "taken", f.turns[t].agent \in Agents,
           f.agents[f.turns[t].agent].known = "yes"
    PROVE  LET a == f.turns[t].agent
               g == Admit(f, t)
           IN /\ \A u \in Turns : u # t => g.turns[u] = f.turns[u]
              /\ g.turns[t].agent = a /\ g.turns[t].prio = f.turns[t].prio
              /\ \/ g.turns[t].phase = "stranded"
                 \/ g.turns[t].phase = "starting" /\ g.turns[t].shard = g.agents[a].shard
                    /\ g.turns[t].shard \notin Dead(f)
              /\ g.queue = f.queue /\ Crowds(f, g)
<1> DEFINE a == f.turns[t].agent
           e == Acquire(f, a)
           s == e.agents[a].shard
           z == [f.turns[t] EXCEPT !.phase = "starting", !.shard = s]
           y == [f.turns[t] EXCEPT !.phase = "stranded"]
           h == [e EXCEPT !.active = @ + 1, !.turns[t].phase = "starting", !.turns[t].shard = s]
           l == [f EXCEPT !.active = @ + 1, !.turns[t].phase = "stranded"]
           g == Start(h, s)
<1>1. IsFleet(f) /\ f.turns \in [Turns -> TurnRecords] /\ f.turns[t] \in TurnRecords
  BY HousedIsTyped
<1>2. /\ z.phase = "starting" /\ z.shard = s /\ z.agent = f.turns[t].agent /\ z.prio = f.turns[t].prio
      /\ y.phase = "stranded" /\ y.agent = f.turns[t].agent /\ y.prio = f.turns[t].prio
  BY <1>1 DEF TurnRecords
<1>3. CASE ~HasShard(f, a)
  <2>1. Admit(f, t) = l
    BY <1>3, Zenon DEF Admit
  <2>2. /\ l.turns = [f.turns EXCEPT ![t] = y] /\ l.queue = f.queue /\ l.agents = f.agents /\ l.shards = f.shards
    BY <1>1, Zenon DEF IsFleet
  <2> HIDE DEF l, y
  <2>3. \A u \in Turns : l.turns[u] = IF u = t THEN y ELSE f.turns[u]
    BY <1>1, <2>2
  <2>4. Crowds(f, l)
    <3>1. KeepsSeats(f, l)
      BY <2>2 DEF KeepsSeats
    <3> QED BY <3>1, SameRoom DEF Crowds
  <2> QED BY <1>2, <2>1, <2>2, <2>3, <2>4
<1>4. CASE HasShard(f, a)
  <2>1. CanAssign(f, a)
    BY <1>4 DEF HasShard, CanAssign
  <2>2. /\ Housed(e, k) /\ s \in Shards /\ e.turns = f.turns /\ e.queue = f.queue /\ Crowds(f, e)
    BY <2>1, AcquireHoused, ZenonT(60)
  <2>3. s \notin Dead(f)
    <3>1. CASE f.agents[a].shard = 0
      BY <2>1, <3>1, AcquiredAlive
    <3>2. CASE f.agents[a].shard # 0
      BY <1>4, <3>2 DEF HasShard, Acquire, Dead
    <3> QED BY <3>1, <3>2
  <2>4. Admit(f, t) = g
    BY <1>4, <2>2, Zenon DEF Admit
  <2> HIDE DEF e
  <2>5. IsFleet(e) /\ e.shards \in [Shards -> ShardRecords]
    BY <2>2, HousedIsTyped
  <2> HIDE DEF s
  <2>6. /\ IsFleet(h) /\ h.queue = f.queue /\ h.agents = e.agents /\ h.shards = e.shards
        /\ h.turns = [f.turns EXCEPT ![t] = z]
    BY <1>1, <2>2, <2>5, Zenon DEF IsFleet
  <2> HIDE DEF h, z
  <2>7. /\ g.agents = h.agents /\ g.turns = h.turns /\ g.queue = h.queue
        /\ \E x \in ShardRecords :
              /\ g.shards = [h.shards EXCEPT ![s] = x]
              /\ x.backend = h.shards[s].backend /\ x.tracked = h.shards[s].tracked
              /\ x.members = h.shards[s].members /\ x.mapped = h.shards[s].mapped
    BY <2>2, <2>5, <2>6, StartEffect, ZenonT(60)
  <2> HIDE DEF g
  <2>8. Crowds(f, g)
    <3>1. KeepsSeats(e, g)
      BY <2>2, <2>5, <2>6, <2>7 DEF KeepsSeats
    <3> QED BY <2>2, <3>1, SameRoom DEF Crowds
  <2>9. \A u \in Turns : g.turns[u] = IF u = t THEN z ELSE f.turns[u]
    BY <1>1, <2>6, <2>7
  <2>10. g.agents[a].shard = s
    BY <2>6, <2>7 DEF s
  <2> QED BY <1>2, <2>3, <2>4, <2>6, <2>7, <2>8, <2>9, <2>10
<1> QED BY <1>3, <1>4

(* Who starts is at home, and everybody else stays there.                   *)
LEMMA AdmitLined ==
    ASSUME NEW f, NEW k, Lined(f, k), ~f.exceeded, f.active < Limit,
           NEW t \in Turns, f.turns[t].phase = "taken", f.turns[t].agent \in Agents,
           f.agents[f.turns[t].agent].known = "yes",
           f.agents[f.turns[t].agent].status \notin {"lost", "recovering"}
    PROVE  LET g == Admit(f, t)
           IN Lined(g, k) /\ Fills(f, g) /\ Spares(f, g) /\ SameCalls(f, g) /\ Narrows(f, g)
<1> DEFINE g == Admit(f, t)
           a == f.turns[t].agent
<1>1. /\ \A u \in Turns : u # t => g.turns[u] = f.turns[u]
      /\ g.turns[t].agent = a /\ g.turns[t].prio = f.turns[t].prio
      /\ \/ g.turns[t].phase = "stranded"
         \/ g.turns[t].phase = "starting" /\ g.turns[t].shard = g.agents[a].shard /\ g.turns[t].shard \notin Dead(f)
      /\ g.queue = f.queue /\ Crowds(f, g)
  BY AdmitView DEF Lined
<1>2. Housed(f, k) /\ Steady(f) /\ Housed(g, k) /\ Fills(f, g) /\ Ledger(g)
  BY AdmitHoused, AdmitAdvances DEF Lined, Advances
<1> HIDE DEF g
<1>3. SameCalls(f, g)
  BY <1>1, Zenon DEF SameCalls, MovesOn
<1>4. Narrows(f, g)
  BY <1>1, <1>2, <1>3, CrowdsNarrows
<1>5. Spares(f, g)
  <2> SUFFICES ASSUME NEW s \in Dead(f), Quit(f, s), NEW u \in Turns, g.turns[u].phase \in Waiting
               PROVE  g.turns[u].shard # s
    BY DEF Spares, Quit
  <2>1. CASE u = t
    BY <1>1, <2>1 DEF Waiting
  <2>2. CASE u # t
    BY <1>1, <2>2 DEF Quit
  <2> QED BY <2>1, <2>2
<1>6. Asked(g)
  <2> SUFFICES ASSUME NEW u \in Turns, g.turns[u].phase = "queued" PROVE g.agents[g.turns[u].agent].known # "no"
    BY DEF Asked
  <2>1. g.turns[u] = f.turns[u] /\ f.turns[u].phase # "new"
    BY <1>1
  <2>2. f.turns[u].agent \in Agents /\ f.agents[f.turns[u].agent].known # "no"
    BY <1>2, <2>1 DEF Housed, Names, Steady, Asked
  <2> QED BY <1>2, <2>1, <2>2 DEF Fills
<1>7. HomeOf(g, t) \/ g.turns[t].phase \notin Waiting
  <2>1. g.agents[a].status = f.agents[a].status
    BY <1>2 DEF Fills
  <2> QED BY <1>1, <2>1 DEF HomeOf, Waiting
<1>8. Steady(g)
  <2>1. ASSUME NEW u \in Turns, f.turns[u].phase \in {"new", "queued", "taken"}, g.turns[u].phase \in Waiting
        PROVE  HomeOf(g, u)
    <3>1. u = t
      BY <1>1, <2>1 DEF Waiting
    <3> QED BY <1>7, <2>1, <3>1
  <2> QED BY <1>2, <1>6, <2>1, SteadyFills
<1>9. InOrder(g)
  <2>1. \A u \in Turns : g.turns[u].phase = "new" <=> f.turns[u].phase = "new"
    BY <1>1
  <2>2. InOrder(f)
    BY DEF Lined
  <2> QED BY <1>1, <2>1, <2>2 DEF InOrder
<1> QED BY <1>2, <1>3, <1>4, <1>5, <1>8, <1>9 DEF Lined, g

(* An entry that leaves the queue.                                          *)
LEMMA TakeLined ==
    ASSUME NEW f, NEW k, Lined(f, k), NEW i \in 1..Len(f.queue)
    PROVE  LET g == Take(f, i)
               t == f.queue[i]
           IN /\ Lined(g, k) /\ Admits(f, g) /\ Len(g.queue) = Len(f.queue) - 1
              /\ t \in Turns /\ f.turns[t].phase = "queued" /\ g.turns[t].phase = "taken"
              /\ f.turns[t].agent \in Agents /\ g.turns[t].agent = f.turns[t].agent
              /\ g.turns[t].prio = f.turns[t].prio
              /\ \A u \in Turns : u # t => g.turns[u] = f.turns[u]
<1> DEFINE g == Take(f, i)
           t == f.queue[i]
           q == f.queue
           z == [f.turns[t] EXCEPT !.phase = "taken"]
<1>1. Ledger(f) /\ Shapes(f) /\ Housed(f, k) /\ Steady(f) /\ q \in Seq(Turns) /\ IsFleet(f)
      /\ f.turns \in [Turns -> TurnRecords]
  BY HousedIsTyped DEF Lined, Ledger
<1>2. Ledger(g) /\ t \in Turns /\ f.turns[t].phase = "queued" /\ f.turns[t].agent \in Agents
  BY <1>1, TakeKeepsLedger DEF Housed, Names
<1>3. Housed(g, k) /\ Fills(f, g)
  BY <1>1, TakeHoused DEF Grows
<1> HIDE DEF t
<1>4. /\ g.queue = RemoveAt(q, i) /\ g.turns = [f.turns EXCEPT ![t] = z]
      /\ g.agents = f.agents /\ g.shards = f.shards
  BY <1>1, Zenon DEF Take, IsFleet, t
<1>5. z.phase = "taken" /\ z.agent = f.turns[t].agent /\ z.prio = f.turns[t].prio
  <2>1. f.turns[t] \in TurnRecords
    BY <1>1, <1>2
  <2> QED BY <2>1 DEF TurnRecords
<1>6. /\ RemoveAt(q, i) \in Seq(Turns) /\ Len(RemoveAt(q, i)) = Len(q) - 1
      /\ \A j \in 1..(Len(q) - 1) : RemoveAt(q, i)[j] = IF j < i THEN q[j] ELSE q[j + 1]
  BY <1>1, RemovedAt
<1> HIDE DEF g, z
<1>7. g.turns[t] = z /\ \A u \in Turns : u # t => g.turns[u] = f.turns[u]
  BY <1>1, <1>2, <1>4
<1>8. SameCalls(f, g)
  BY <1>2, <1>5, <1>7, Zenon DEF SameCalls, MovesOn
<1>9. Crowds(f, g)
  <2>1. KeepsSeats(f, g)
    BY <1>4 DEF KeepsSeats
  <2> QED BY <2>1, SameRoom DEF Crowds
<1>10. Narrows(f, g)
  BY <1>1, <1>3, <1>8, <1>9, CrowdsNarrows
<1>11. InTurn(f, g) /\ Spares(f, g)
  <2>1. ASSUME NEW u \in Turns, g.turns[u].phase \in Waiting PROVE g.turns[u] = f.turns[u]
    BY <1>5, <1>7, <2>1 DEF Waiting
  <2>2. InTurn(f, g)
    BY <2>1 DEF InTurn, Waiting
  <2>3. Spares(f, g)
    BY <2>1 DEF Spares, Quit
  <2> QED BY <2>2, <2>3
<1>12. Asked(g)
  BY <1>1, <1>4, <1>5, <1>7 DEF Asked, Steady
<1>13. Steady(g)
  BY <1>1, <1>3, <1>5, <1>7, <1>12, SteadyFills DEF Waiting
<1>14. InOrder(g)
  <2>1. /\ \A j, l \in 1..Len(q) : j < l => q[j] < q[l]
        /\ \A v, u \in Turns : f.turns[u].phase = "new" /\ u <= v => f.turns[v].phase = "new"
    BY DEF Lined, InOrder
  <2>2. Len(g.queue) = Len(q) - 1 /\ \A j \in 1..Len(g.queue) : g.queue[j] = IF j < i THEN q[j] ELSE q[j + 1]
    BY <1>4, <1>6
  <2>3. ASSUME NEW j \in 1..Len(g.queue), NEW l \in 1..Len(g.queue), j < l PROVE g.queue[j] < g.queue[l]
    <3> DEFINE m == IF j < i THEN j ELSE j + 1
               n == IF l < i THEN l ELSE l + 1
    <3>1. Len(q) \in Nat /\ i \in Nat
      BY <1>1
    <3>2. m \in 1..Len(q) /\ n \in 1..Len(q) /\ m < n
      BY <2>2, <2>3, <3>1
    <3>3. g.queue[j] = q[m] /\ g.queue[l] = q[n]
      BY <2>2
    <3> HIDE DEF m, n
    <3> QED BY <2>1, <3>2, <3>3
  <2>4. \A u \in Turns : g.turns[u].phase = "new" <=> f.turns[u].phase = "new"
    BY <1>2, <1>5, <1>7
  <2> QED BY <2>1, <2>3, <2>4 DEF InOrder
<1>15. Admits(f, g)
  BY <1>3, <1>8, <1>10, <1>11 DEF Admits, Passing
<1> QED BY <1>2, <1>3, <1>4, <1>5, <1>6, <1>7, <1>13, <1>14, <1>15 DEF Lined, g, t

(* Of the entries that can be admitted one comes first.                     *)
LEMMA BestExists ==
    ASSUME NEW f, Len(f.queue) \in Nat, \A i \in 1..Len(f.queue) : f.turns[f.queue[i]].prio \in Nat,
           NEW j \in 1..Len(f.queue), Admissible(f, f.queue[j])
    PROVE  Best(f) # {}
<1> DEFINE N == Len(f.queue)
           ready == {i \in 1..N : Admissible(f, f.queue[i])}
           prio(i) == f.turns[f.queue[i]].prio
           First(i, n) == \A l \in ready : l <= n /\ l # i => prio(i) > prio(l) \/ (prio(i) = prio(l) /\ i < l)
           T == {n \in 0..N : (\E i \in ready : i <= n) /\ ~(\E i \in ready : i <= n /\ First(i, n))}
<1>1. N \in Nat /\ ready \subseteq 1..N /\ \A i \in ready : prio(i) \in Nat /\ i \in Nat
  OBVIOUS
<1>2. ASSUME T # {} PROVE FALSE
  <2>1. PICK n \in T : \A m \in T : n <= m
    BY <1>1, <1>2, Least, Zenon
  <2>2. n \in Nat /\ n <= N
    BY <1>1, <2>1
  <2>3. PICK i \in ready : i <= n
    BY <2>1
  <2>4. n # 0 /\ n - 1 \in 0..N /\ n - 1 \notin T
    <3>1. n # 0 /\ n - 1 \in 0..N /\ ~(n <= n - 1)
      <4>1. i \in 1..N
        BY <1>1
      <4> HIDE DEF N
      <4> QED BY <1>1, <2>2, <2>3, <4>1
    <3>2. \A m \in T : n <= m
      BY <2>1, Zenon
    <3> HIDE DEF T
    <3> QED BY <3>1, <3>2
  <2> HIDE DEF ready, prio, N
  <2>5. CASE n \notin ready
    <3>1. ASSUME NEW l \in ready PROVE l <= n <=> l <= n - 1
      <4>1. l # n /\ l \in Nat
        BY <1>1, <2>5
      <4> QED BY <2>2, <4>1
    <3>2. PICK b \in ready : b <= n - 1 /\ First(b, n - 1)
      BY <2>3, <2>4, <3>1
    <3> QED BY <2>1, <3>1, <3>2
  <2>6. CASE n \in ready /\ ~\E l \in ready : l <= n - 1
    <3>1. First(n, n)
      BY <1>1, <2>2, <2>6
    <3> QED BY <2>1, <2>2, <2>6, <3>1
  <2>7. CASE n \in ready /\ \E l \in ready : l <= n - 1
    <3>1. PICK b \in ready : b <= n - 1 /\ First(b, n - 1)
      BY <2>4, <2>7, Zenon
    <3>2. b \in Nat /\ prio(b) \in Nat /\ prio(n) \in Nat /\ b < n
      BY <1>1, <2>2, <2>7, <3>1
    <3>3. CASE prio(b) >= prio(n)
      <4>1. ASSUME NEW l \in ready, l <= n, l # b PROVE prio(b) > prio(l) \/ (prio(b) = prio(l) /\ b < l)
        <5>1. CASE l = n
          BY <3>2, <3>3, <5>1
        <5>2. CASE l # n
          BY <1>1, <2>2, <3>1, <4>1, <5>2
        <5> QED BY <5>1, <5>2
      <4> QED BY <2>1, <2>2, <3>1, <3>2, <4>1
    <3>4. CASE prio(n) > prio(b)
      <4>1. ASSUME NEW l \in ready, l <= n, l # n PROVE prio(n) > prio(l)
        <5>1. l <= n - 1 /\ l \in Nat /\ prio(l) \in Nat
          BY <1>1, <2>2, <4>1
        <5>2. prio(b) >= prio(l)
          <6>1. CASE l = b
            BY <3>2, <6>1
          <6>2. CASE l # b
            <7>1. prio(b) > prio(l) \/ (prio(b) = prio(l) /\ b < l)
              BY <3>1, <5>1, <6>2
            <7> HIDE DEF First, T
            <7>2. CASE prio(b) > prio(l)
              BY <3>2, <5>1, <7>2
            <7>3. CASE prio(b) = prio(l)
              BY <3>2, <5>1, <7>3
            <7> QED BY <7>1, <7>2, <7>3
          <6> QED BY <6>1, <6>2
        <5> QED BY <3>2, <3>4, <5>1, <5>2
      <4> QED BY <2>1, <2>2, <2>7, <4>1
    <3> QED BY <3>2, <3>3, <3>4
  <2> QED BY <2>5, <2>6, <2>7
<1>3. N \in 0..N /\ j \in ready /\ j <= N
  BY <1>1
<1>4. PICK b \in ready : First(b, N)
  BY <1>2, <1>3, Zenon
<1>5. b \in Best(f)
  BY <1>1, <1>4 DEF Best
<1> QED BY <1>5

LEMMA PriorityIsNumber ==
    ASSUME NEW f, f.turns \in [Turns -> TurnRecords], NEW t \in Turns
    PROVE  f.turns[t].prio \in Nat
<1>1. f.turns[t] \in TurnRecords
  OBVIOUS
<1>2. f.turns[t].prio \in Priorities \union {0}
  BY <1>1 DEF TurnRecords
<1>3. \A p \in Priorities : p \in Nat
  BY LimitsAssumption
<1>4. CASE f.turns[t].prio = 0
  BY <1>4
<1>5. CASE f.turns[t].prio \in Priorities
  BY <1>3, <1>5
<1> QED BY <1>2, <1>4, <1>5

(* One round of #drain(): who comes first is taken, something may nest in   *)
(* the round, and who was taken is admitted.                                *)
LEMMA RoundAdmits ==
    ASSUME NEW f, NEW k, Lined(f, k), ~Stuck(f), NEW h, Lined(h, k), Admits(Take(f, Chosen(f)), h),
           h.turns[f.queue[Chosen(f)]] = Take(f, Chosen(f)).turns[f.queue[Chosen(f)]],
           ~h.exceeded, h.active < Limit
    PROVE  LET m == Admit(h, f.queue[Chosen(f)]) IN Lined(m, k) /\ Admits(f, m)
<1> DEFINE i == Chosen(f)
           t == f.queue[i]
           g == Take(f, i)
           m == Admit(h, t)
<1>1. i \in Best(f) /\ i \in 1..Len(f.queue) /\ Admissible(f, t)
  BY ChosenIsReady DEF Stuck, Chosen
<1> HIDE DEF i
<1>2. /\ Lined(g, k) /\ Admits(f, g) /\ t \in Turns /\ f.turns[t].phase = "queued" /\ g.turns[t].phase = "taken"
      /\ f.turns[t].agent \in Agents /\ g.turns[t].agent = f.turns[t].agent /\ g.turns[t].prio = f.turns[t].prio
  BY <1>1, TakeLined
<1>3. Admits(g, h) /\ h.turns[t] = g.turns[t]
  BY DEF g, i
<1> HIDE DEF g
<1>4. Admits(f, h)
  BY <1>2, <1>3, AdmitsOn
<1>5. /\ h.agents[f.turns[t].agent].known = "yes"
      /\ h.agents[f.turns[t].agent].status \notin {"lost", "recovering"}
  BY <1>1, <1>2, <1>4 DEF Admits, Fills, Admissible, Registered
<1> HIDE DEF t
<1>6. Lined(m, k) /\ Fills(h, m) /\ Spares(h, m) /\ SameCalls(h, m) /\ Narrows(h, m)
  BY <1>2, <1>3, <1>5, AdmitLined
<1>7. \A u \in Turns : u # t => m.turns[u] = h.turns[u]
  BY <1>2, AdmitEffect DEF Lined, Ledger
<1> HIDE DEF m
<1>8. SameCalls(f, m) /\ \A u \in Turns : Waits(f, m, u) => Waits(f, h, u) /\ Waits(h, m, u)
  BY <1>4, <1>6, CallsOn DEF Admits, Passing
<1>9. Narrows(f, m)
  BY <1>4, <1>6, <1>8 DEF Admits, Passing, Narrows
<1>10. InTurn(f, m)
  <2> SUFFICES ASSUME NEW v \in Turns, NEW u \in Turns, f.turns[v].phase # "starting",
                      m.turns[v].phase = "starting", Waits(f, m, u), Outranks(m, u, v), Admissible(m, u)
               PROVE  FALSE
    BY DEF InTurn
  <2>1. Waits(f, h, u) /\ Waits(h, m, u) /\ Admissible(h, u) /\ Admissible(f, u)
    BY <1>6, <1>8, <1>9 DEF Narrows
  <2>2. CASE v # t
    <3>1. h.turns[v].phase = "starting" /\ Outranks(h, u, v)
      <4>1. m.turns[v] = h.turns[v]
        BY <1>7, <2>2
      <4>2. h.turns[v].phase = "starting"
        BY <4>1
      <4>3. m.turns[u].prio = h.turns[u].prio
        BY <1>6, <2>1 DEF SameCalls, Waits
      <4> QED BY <4>1, <4>2, <4>3 DEF Outranks
    <3> QED BY <1>4, <2>1, <3>1 DEF Admits, Passing, InTurn
  <2>3. CASE v = t
    <3>1. m.turns[t].prio = f.turns[t].prio /\ m.turns[u].prio = f.turns[u].prio
      BY <1>2, <1>8 DEF SameCalls, Waits
    <3>2. PICK j \in 1..Len(f.queue) : f.queue[j] = u
      BY <2>1 DEF Lined, Ledger, QueueIsExact, Waits
    <3>3. u # t
      BY <1>2, <1>3, <2>1 DEF Waits
    <3>4. \/ f.turns[t].prio > f.turns[u].prio
          \/ f.turns[t].prio = f.turns[u].prio /\ i < j
      <4>1. j # i
        BY <3>2, <3>3 DEF t
      <4> QED BY <1>1, <2>1, <3>2, <4>1 DEF Best, t
    <3>5. i < j => t < u
      BY <1>1, <3>2 DEF Lined, InOrder, t
    <3>6. f.turns[t].prio \in Nat /\ f.turns[u].prio \in Nat /\ t \in Nat /\ u \in Nat
      <4>1. f.turns \in [Turns -> TurnRecords]
        BY HousedIsTyped DEF Lined
      <4>2. t \in Nat /\ u \in Nat
        BY <1>2, TurnsFinite
      <4> QED BY <1>2, <4>1, <4>2, PriorityIsNumber
    <3>7. Outranks(m, u, t)
      BY <2>3
    <3> QED BY <3>1, <3>4, <3>5, <3>6, <3>7 DEF Outranks
  <2> QED BY <2>2, <2>3
<1>11. Fills(f, m)
  BY <1>4, <1>6, FillsOn DEF Admits
<1>12. Spares(f, m)
  BY <1>4, <1>6 DEF Admits, Spares, Fills
<1> QED BY <1>6, <1>8, <1>9, <1>10, <1>11, <1>12 DEF Admits, Passing, m, t, i

LEMMA DrainOneLined ==
    ASSUME NEW f, NEW k, Lined(f, k)
    PROVE  LET g == DrainOne(f)
           IN /\ Lined(g, k) /\ Admits(f, g)
              /\ Stuck(f) => g = f
              /\ ~Stuck(f) => Len(g.queue) = Len(f.queue) - 1
<1>1. CASE Stuck(f)
  BY <1>1, AdmitsSame DEF DrainOne
<1>2. CASE ~Stuck(f)
  <2> DEFINE i == Chosen(f)
             t == f.queue[i]
             g == Take(f, i)
             m == Admit(g, t)
  <2>1. DrainOne(f) = m
    BY <1>2 DEF DrainOne
  <2>2. i \in 1..Len(f.queue)
    BY <1>2, ChosenIsReady DEF Stuck
  <2>3. Lined(g, k) /\ Admits(g, g) /\ Len(g.queue) = Len(f.queue) - 1 /\ t \in Turns
    BY <2>2, TakeLined, AdmitsSame
  <2>4. ~g.exceeded /\ g.active < maxConcurrentTurns
    BY <1>2, TakenNests DEF Lined
  <2>5. g.active < Limit
    BY <2>3, <2>4, LimitIs, Counts DEF Lined, Ledger, Counted
  <2>6. Lined(m, k) /\ Admits(f, m)
    BY <1>2, <2>3, <2>4, <2>5, RoundAdmits
  <2>7. m.queue = g.queue
    <3>1. Shapes(g)
      BY <2>3 DEF Lined, Ledger
    <3> HIDE DEF g, t
    <3> QED BY <2>3, <3>1, AdmitEffect
  <2> HIDE DEF m, g
  <2> QED BY <1>2, <2>1, <2>3, <2>6, <2>7
<1> QED BY <1>1, <1>2

(* The loop ends where nothing that could be admitted is left.              *)
LEMMA StuckIsIdle ==
    ASSUME NEW f, NEW k, Lined(f, k), Stuck(f)
    PROVE  Idle(f)
<1>1. CASE Full(f)
  BY <1>1 DEF Idle
<1>2. CASE ~Full(f)
  <2>1. Best(f) = {}
    BY <1>2 DEF Stuck, Full
  <2>2. /\ Len(f.queue) \in Nat
        /\ \A i \in 1..Len(f.queue) : f.turns[f.queue[i]].prio \in Nat
    <3>1. f.queue \in Seq(Turns) /\ f.turns \in [Turns -> TurnRecords]
      BY HousedIsTyped DEF Lined
    <3> QED BY <3>1, PriorityIsNumber
  <2> QED BY <2>1, <2>2, BestExists DEF Idle
<1> QED BY <1>1, <1>2

LEMMA RoundsAdmit ==
    ASSUME NEW f, NEW k, Lined(f, k), NEW N \in Nat
    PROVE  LET g == Rounds(f, N)
           IN /\ Lined(g, k) /\ Admits(f, g)
              /\ Stuck(g) \/ Len(g.queue) = Len(f.queue) - N
<1>1. PICK h : DrainLoop(f, h, N) /\ Rounds(f, N) = h[N]
  BY RoundsUnfold
<1> DEFINE Good(n) == /\ Lined(h[n], k) /\ Admits(f, h[n])
                      /\ Stuck(h[n]) \/ Len(h[n].queue) = Len(f.queue) - n
           T == {n \in 0..N : ~Good(n)}
<1>0. Len(f.queue) \in Nat
  BY DEF Lined, Ledger, QueueIsExact
<1>2. ASSUME T # {} PROVE FALSE
  <2>1. PICK n \in T : \A m \in T : n <= m
    BY <1>2, Least, Zenon
  <2>2. n \in Nat /\ n <= N
    BY <2>1
  <2>3. CASE n = 0
    <3>1. h[n] = f
      BY <1>1, <2>3 DEF DrainLoop
    <3> QED BY <1>0, <2>1, <2>3, <3>1, AdmitsSame
  <2>4. CASE n # 0
    <3>1. n - 1 \in 0..N /\ n - 1 \notin T
      BY <2>1, <2>2, <2>4
    <3>2. Good(n - 1)
      BY <3>1
    <3>3. h[n] = DrainOne(h[n - 1])
      BY <1>1, <2>1, <2>2, <2>4, Zenon DEF DrainLoop
    <3>4. /\ Lined(h[n], k) /\ Admits(h[n - 1], h[n])
          /\ Stuck(h[n - 1]) => h[n] = h[n - 1]
          /\ ~Stuck(h[n - 1]) => Len(h[n].queue) = Len(h[n - 1].queue) - 1
      BY <3>2, <3>3, DrainOneLined
    <3>5. Admits(f, h[n])
      BY <3>2, <3>4, AdmitsOn
    <3>6. Stuck(h[n]) \/ Len(h[n].queue) = Len(f.queue) - n
      <4>1. CASE Stuck(h[n - 1])
        <5>1. h[n] = h[n - 1]
          BY <3>4, <4>1
        <5> QED BY <4>1, <5>1
      <4>2. CASE ~Stuck(h[n - 1])
        <5>1. Len(h[n - 1].queue) = Len(f.queue) - (n - 1)
          BY <3>2, <4>2
        <5>2. Len(h[n].queue) = Len(h[n - 1].queue) - 1
          BY <3>4, <4>2
        <5> QED BY <1>0, <2>2, <5>1, <5>2
      <4> QED BY <4>1, <4>2
    <3> QED BY <2>1, <3>4, <3>5, <3>6
  <2> QED BY <2>3, <2>4
<1>3. N \in 0..N
  OBVIOUS
<1> QED BY <1>1, <1>2, <1>3

LEMMA DrainAdmits ==
    ASSUME NEW f, NEW k, Lined(f, k)
    PROVE  LET g == Drain(f) IN Lined(g, k) /\ Admits(f, g) /\ Idle(g)
<1> DEFINE N == Len(f.queue)
           g == Rounds(f, N)
<1>1. N \in Nat
  BY DEF Lined, Ledger, QueueIsExact
<1>2. /\ Lined(g, k) /\ Admits(f, g)
      /\ Stuck(g) \/ Len(g.queue) = N - N
  BY <1>1, RoundsAdmit
<1> HIDE DEF g
<1>3. Stuck(g)
  <2>1. CASE Len(g.queue) = N - N
    <3>1. Len(g.queue) = 0
      BY <1>1, <2>1
    <3> QED BY <3>1 DEF Stuck, Best
  <2> QED BY <1>2, <2>1
<1> QED BY <1>2, <1>3, StuckIsIdle DEF g, Drain

(* A run that is called while nothing is overtaken: it is queued at the end,*)
(* or refused.                                                              *)
NextCall(f, t) == f.turns[t].phase = "new" /\ \A u \in Turns : f.turns[u].phase = "new" => t <= u
Arrives(f, g, t, z) ==
    /\ g.turns = [f.turns EXCEPT ![t] = z] /\ g.agents = f.agents /\ g.shards = f.shards
    /\ z.phase \in {"queued", "refused"} /\ f.agents[z.agent].known = "yes"
    /\ g.queue = f.queue \/ g.queue = Append(f.queue, t)

LEMMA NewLined ==
    ASSUME NEW f, NEW g, NEW k, NEW t \in Turns, NEW z, Lined(f, k), Grows(f, g, k),
           NextCall(f, t), Arrives(f, g, t, z)
    PROVE  Lined(g, k) /\ (ListenersCall => Admits(f, g)) /\ \A u \in Turns : u # t => g.turns[u] = f.turns[u]
<1> DEFINE q == f.queue
<1>0. /\ Housed(g, k) /\ Ledger(g) /\ Fills(f, g)
      /\ f.turns[t].phase = "new" /\ \A u \in Turns : f.turns[u].phase = "new" => t <= u
      /\ g.turns = [f.turns EXCEPT ![t] = z] /\ g.agents = f.agents /\ g.shards = f.shards
      /\ z.phase \in {"queued", "refused"} /\ f.agents[z.agent].known = "yes"
      /\ g.queue = f.queue \/ g.queue = Append(f.queue, t)
  BY DEF Grows, NextCall, Arrives
<1>1. /\ f.turns \in [Turns -> TurnRecords] /\ q \in Seq(Turns)
      /\ \A i \in 1..Len(q) : f.turns[q[i]].phase = "queued"
  BY HousedIsTyped DEF Lined, Ledger, QueueIsExact
<1>2. Housed(f, k) /\ Steady(f) /\ Asked(f) /\ InOrder(f)
  BY DEF Lined, Steady
<1>3. g.turns[t] = z /\ \A u \in Turns : u # t => g.turns[u] = f.turns[u]
  BY <1>0, <1>1
<1>4. Asked(g)
  BY <1>0, <1>2, <1>3 DEF Asked
<1>5. Steady(g)
  <2>1. \A u \in Turns : f.turns[u].phase \in {"new", "queued", "taken"} => g.turns[u].phase \notin Waiting
    BY <1>0, <1>3 DEF Waiting
  <2> QED BY <1>0, <1>2, <1>4, <2>1, SteadyFills
<1>6. \A v, u \in Turns : g.turns[u].phase = "new" /\ u <= v => g.turns[v].phase = "new"
  <2> SUFFICES ASSUME NEW v \in Turns, NEW u \in Turns, g.turns[u].phase = "new", u <= v
               PROVE  g.turns[v].phase = "new"
    OBVIOUS
  <2>1. u # t /\ f.turns[u].phase = "new" /\ t <= u
    BY <1>0, <1>3
  <2>2. f.turns[v].phase = "new"
    BY <1>2, <2>1 DEF InOrder
  <2>3. v # t
    BY <1>0, <2>1, TurnsFinite
  <2> QED BY <1>3, <2>2, <2>3
<1>7. ASSUME NEW i \in 1..Len(q) PROVE q[i] \in Turns /\ q[i] < t
  <2>1. q[i] \in Turns /\ f.turns[q[i]].phase = "queued"
    BY <1>1
  <2>2. ~(t <= q[i])
    BY <1>0, <1>2, <2>1 DEF InOrder
  <2>3. \A u, v \in Turns : ~(v <= u) => u < v
    BY TurnsFinite
  <2> HIDE DEF q
  <2> QED BY <2>1, <2>2, <2>3
<1>8. \A i, j \in 1..Len(g.queue) : i < j => g.queue[i] < g.queue[j]
  <2>1. CASE g.queue = q
    BY <1>2, <2>1 DEF InOrder
  <2>2. CASE g.queue = Append(q, t)
    <3>1. /\ Len(q) \in Nat /\ Len(g.queue) = Len(q) + 1 /\ g.queue[Len(q) + 1] = t
          /\ \A i \in 1..Len(q) : g.queue[i] = q[i]
      BY <1>1, <2>2
    <3> SUFFICES ASSUME NEW i \in 1..Len(g.queue), NEW j \in 1..Len(g.queue), i < j
                 PROVE  g.queue[i] < g.queue[j]
      OBVIOUS
    <3>2. i \in 1..Len(q) /\ g.queue[i] = q[i]
      BY <3>1
    <3>3. CASE j = Len(q) + 1
      BY <1>7, <3>1, <3>2, <3>3
    <3>4. CASE j # Len(q) + 1
      <4>1. j \in 1..Len(q) /\ g.queue[j] = q[j]
        BY <3>1, <3>4
      <4> QED BY <1>2, <3>2, <4>1 DEF InOrder
    <3> QED BY <3>3, <3>4
  <2> QED BY <1>0, <2>1, <2>2
<1>9. Lined(g, k)
  BY <1>0, <1>5, <1>6, <1>8 DEF Lined, InOrder
<1>10. ASSUME ListenersCall PROVE Admits(f, g)
  <2>1. SameCalls(f, g)
    BY <1>0, <1>3, <1>10, Zenon DEF SameCalls, MovesOn
  <2>2. Crowds(f, g)
    <3>1. KeepsSeats(f, g)
      BY <1>0 DEF KeepsSeats
    <3> QED BY <3>1, SameRoom DEF Crowds
  <2>3. Narrows(f, g)
    BY <1>0, <1>2, <2>1, <2>2, CrowdsNarrows
  <2>4. \A u \in Turns : g.turns[u].phase \in Waiting => g.turns[u] = f.turns[u]
    BY <1>0, <1>3 DEF Waiting
  <2>5. InTurn(f, g) /\ Spares(f, g)
    BY <2>4 DEF InTurn, Spares, Quit, Waiting
  <2> QED BY <1>0, <2>1, <2>3, <2>5 DEF Admits, Passing
<1> QED BY <1>3, <1>9, <1>10

LEMMA CallLined ==
    ASSUME NEW f, NEW k, Lined(f, k), NEW t \in Turns, NextCall(f, t),
           NEW a \in Agents, f.agents[a].known = "yes", NEW p \in Priorities \union {0}
    PROVE  LET r == Refused(f, t, a, p)
               g == Pushed(f, t, a, p)
           IN /\ Lined(r, k) /\ (ListenersCall => Admits(f, r))
              /\ r.turns[t].phase = "refused" /\ \A u \in Turns : u # t => r.turns[u] = f.turns[u]
              /\ ~f.exceeded => /\ Lined(g, k) /\ (ListenersCall => Admits(f, g))
                                /\ g.turns[t].phase = "queued" /\ \A u \in Turns : u # t => g.turns[u] = f.turns[u]
<1> DEFINE z(phase) == [NewTurn(a) EXCEPT !.phase = phase, !.prio = p]
           r == Refused(f, t, a, p)
           g == Pushed(f, t, a, p)
<1>1. Housed(f, k) /\ Ledger(f) /\ IsFleet(f) /\ f.turns \in [Turns -> TurnRecords]
  BY HousedIsTyped DEF Lined
<1>2. \A phase : z(phase).agent = a /\ z(phase).phase = phase
  BY DEF NewTurn
<1>3. Grows(f, r, k) /\ (~f.exceeded => Grows(f, g, k))
  BY <1>1, RefusedHoused, Zenon DEF NextCall
<1>4. /\ r.turns = [f.turns EXCEPT ![t] = z("refused")] /\ r.queue = f.queue
      /\ r.agents = f.agents /\ r.shards = f.shards
  BY <1>1, Zenon DEF Refused, IsFleet
<1>5. /\ g.turns = [f.turns EXCEPT ![t] = z("queued")] /\ g.queue = Append(f.queue, t)
      /\ g.agents = f.agents /\ g.shards = f.shards
  BY <1>1, Zenon DEF Pushed, IsFleet
<1> HIDE DEF z, r, g
<1>6. Lined(r, k) /\ (ListenersCall => Admits(f, r)) /\ \A u \in Turns : u # t => r.turns[u] = f.turns[u]
  <2> DEFINE y == z("refused")
  <2>1. Arrives(f, r, t, y)
    BY <1>2, <1>4 DEF Arrives
  <2> HIDE DEF y
  <2> QED BY <1>3, <2>1, NewLined
<1>7. ASSUME ~f.exceeded
      PROVE  Lined(g, k) /\ (ListenersCall => Admits(f, g)) /\ \A u \in Turns : u # t => g.turns[u] = f.turns[u]
  <2> DEFINE y == z("queued")
  <2>1. Arrives(f, g, t, y)
    BY <1>2, <1>5 DEF Arrives
  <2> HIDE DEF y
  <2> QED BY <1>3, <1>7, <2>1, NewLined
<1>8. r.turns[t].phase = "refused" /\ g.turns[t].phase = "queued"
  BY <1>1, <1>2, <1>4, <1>5
<1> QED BY <1>6, <1>7, <1>8 DEF r, g

LEMMA LeastUnused ==
    ASSUME NEW f, Unused(f) # {}
    PROVE  \A u \in Turns : f.turns[u].phase = "new" => Min(Unused(f)) <= u
<1>1. MaxTurns \in Nat /\ Unused(f) \subseteq 0..MaxTurns
  BY LimitsAssumption DEF Unused, Turns
<1>2. \E x \in Unused(f) : \A y \in Unused(f) : x <= y
  BY <1>1, Least
<1>3. \A y \in Unused(f) : Min(Unused(f)) <= y
  BY <1>2 DEF Min
<1> QED BY <1>3 DEF Unused

(* What listeners call in the middle of a handler is in order too.          *)
LEMMA CalledAdmits ==
    ASSUME NEW f, NEW k, Lined(f, k), NEW c, Ranked(c), ListenersCall
    PROVE  Lined(Called(f, c), k) /\ Admits(f, Called(f, c))
<1>1. CASE Unused(f) = {} \/ c.agent \notin AgentsOf(f)
  BY <1>1, AdmitsSame DEF Called
<1>2. CASE ~(Unused(f) = {} \/ c.agent \notin AgentsOf(f))
  <2> DEFINE t == Min(Unused(f))
             r == Refused(f, t, c.agent, c.prio)
             g == Pushed(f, t, c.agent, c.prio)
  <2>1. t \in Turns /\ NextCall(f, t)
    BY <1>2, MinUnused, LeastUnused DEF NextCall
  <2>2. c.agent \in Agents /\ f.agents[c.agent].known = "yes" /\ c.prio \in Priorities \union {0}
    BY <1>2 DEF AgentsOf, Registered, Ranked
  <2>3. Called(f, c) = r \/ (~f.exceeded /\ Called(f, c) = Drain(g))
    BY <1>2 DEF Called, Refuses
  <2> HIDE DEF t
  <2>4. /\ Lined(r, k) /\ Admits(f, r)
        /\ ~f.exceeded => Lined(g, k) /\ Admits(f, g)
    BY <2>1, <2>2, CallLined
  <2> HIDE DEF r, g
  <2>5. ~f.exceeded => Lined(Drain(g), k) /\ Admits(f, Drain(g))
    BY <2>4, DrainAdmits, AdmitsOn
  <2> QED BY <2>3, <2>4, <2>5
<1> QED BY <1>1, <1>2

(* A call, if there is one, that a listener may make.                       *)
Heard(c) == Ranked(c) /\ (c.event # "none" => ListenersCall)

LEMMA CallsHeard ==
    ASSUME NEW first \in Nat, NEW c \in Calls(first)
    PROVE  Heard(c)
<1>1. NoCall.event = "none"
  BY DEF NoCall
<1> QED BY <1>1, CallsRank DEF Calls, Heard

LEMMA HearsAdmits ==
    ASSUME NEW f, NEW k, Lined(f, k), NEW event, event # "none", NEW n, NEW c, Heard(c)
    PROVE  Lined(Hears(f, event, n, c), k) /\ Admits(f, Hears(f, event, n, c))
BY CalledAdmits, AdmitsSame DEF Hears, Heard

LEMMA HeardRoundAdmits ==
    ASSUME NEW f, NEW k, Lined(f, k), ~Stuck(f), NEW c, Ranked(c), ListenersCall
    PROVE  Lined(HeardRound(f, c), k) /\ Admits(f, HeardRound(f, c))
<1> DEFINE i == Chosen(f)
           t == f.queue[i]
           g == Take(f, i)
           h == Called(g, c)
<1>1. Lined(g, k)
  <2>1. i \in 1..Len(f.queue)
    BY ChosenIsReady DEF Stuck
  <2> QED BY <2>1, TakeLined
<1>2. /\ t \in Turns /\ g.turns[t].phase = "taken" /\ ~g.exceeded /\ g.active < maxConcurrentTurns
  BY TakenNests DEF Lined
<1>3. Lined(h, k) /\ Admits(g, h)
  BY <1>1, CalledAdmits
<1>4. Nests(g, h)
  BY <1>1, CalledNests DEF Lined
<1>5. h.turns[t] = g.turns[t] /\ ~h.exceeded
  BY <1>2, <1>4 DEF Nests
<1>6. h.active < Limit
  <2>1. h.active \in Nat /\ g.active \in Nat
    BY <1>1, <1>3, Counts DEF Lined, Ledger, Counted
  <2>2. h.active <= maxConcurrentTurns
    BY <1>2, <1>4, <2>1, LimitIs DEF Nests
  <2> QED BY <2>1, <2>2, LimitIs
<1> QED BY <1>3, <1>5, <1>6, RoundAdmits DEF HeardRound

LEMMA DrainHeardAdmits ==
    ASSUME NEW f, NEW k, Orderly(f, k), NEW c, Heard(c)
    PROVE  LET g == DrainHeard(f, c) IN Orderly(g, k) /\ Admits(f, g) /\ Idle(g)
<1> DEFINE g == Rounds(f, c.at)
           m == DrainHeard(f, c)
<1>1. Lined(f, k) /\ Worked(f)
  BY OrderlyIsLined
<1>2. Lined(g, k) /\ Admits(f, g)
  BY <1>1, RoundsAdmit DEF Heard, Ranked, IsCall
<1>3. ASSUME NEW h, Lined(h, k), Admits(f, h) PROVE Lined(Drain(h), k) /\ Admits(f, Drain(h)) /\ Idle(Drain(h))
  BY <1>3, DrainAdmits, AdmitsOn
<1>4. ListenersCall => Lined(Called(g, c), k) /\ Admits(f, Called(g, c))
  BY <1>2, CalledAdmits, AdmitsOn DEF Heard
<1>5. ListenersCall /\ ~Stuck(g) => Lined(HeardRound(g, c), k) /\ Admits(f, HeardRound(g, c))
  BY <1>2, HeardRoundAdmits, AdmitsOn DEF Heard
<1>6. \/ m = Drain(f) \/ (ListenersCall /\ m = Drain(Called(g, c)))
      \/ ListenersCall /\ ~Stuck(g) /\ m = Drain(HeardRound(g, c))
  BY DEF DrainHeard, HeardRound, Heard
<1>7. Lined(f, k) /\ Admits(f, f)
  BY <1>1, AdmitsSame
<1> HIDE DEF m, g
<1>8. Lined(m, k) /\ Admits(f, m) /\ Idle(m)
  BY <1>3, <1>4, <1>5, <1>6, <1>7
<1>9. Worked(m)
  BY <1>1, <1>8, FilledWorks DEF Admits
<1> QED BY <1>8, <1>9, OrderlyIsLined DEF m
-----------------------------------------------------------------------------
(* What the handlers do to that. A calm change lets who waits stay where it *)
(* is, and keeps the order of the queue, unless it empties it.              *)
Calm(f, g) ==
    /\ \A t \in Turns :
          /\ g.turns[t].phase \in Waiting =>
                /\ f.turns[t].phase \in Waiting
                /\ g.turns[t].agent = f.turns[t].agent /\ g.turns[t].shard = f.turns[t].shard
          /\ g.turns[t].phase = "queued" => f.turns[t].phase = "queued" /\ g.turns[t].agent = f.turns[t].agent
          /\ g.turns[t].phase = "new" <=> f.turns[t].phase = "new"
    /\ \A a \in Agents :
          /\ g.agents[a].known = "no" => f.agents[a].known = "no"
          /\ g.agents[a].known # "gone" =>
                /\ f.agents[a].known # "gone" /\ g.agents[a].shard = f.agents[a].shard
                /\ g.agents[a].status \in {"lost", "recovering"} <=> f.agents[a].status \in {"lost", "recovering"}
    /\ \A r \in g.recoveries : \E p \in f.recoveries :
          /\ p.agent = r.agent
          /\ r.phase # "failing" => p.phase # "failing" /\ p.shard = r.shard
    /\ Single(g)
    /\ g.queue = f.queue \/ g.queue = <<>>

LEMMA CalmOrderly ==
    ASSUME NEW f, NEW g, NEW k, NEW l, Orderly(f, k), Sound(g, l), Calm(f, g)
    PROVE  Orderly(g, l)
<1>1. /\ \A t \in Turns : f.turns[t].phase # "new" => f.turns[t].agent \in Agents
      /\ f.recoveries \subseteq Recoveries
  BY PlacedIsTyped DEF Orderly, Sound, Placed, Housed, Names
<1>2. AtHome(f) /\ Marked(f) /\ Asked(f) /\ InOrder(f)
  BY DEF Orderly, Steady
<1>3. AtHome(g)
  <2> SUFFICES ASSUME NEW t \in Turns, g.turns[t].phase \in Waiting, g.agents[g.turns[t].agent].known # "gone"
               PROVE  /\ g.agents[g.turns[t].agent].shard = g.turns[t].shard
                      /\ g.agents[g.turns[t].agent].status \notin {"lost", "recovering"}
    BY DEF AtHome, HomeOf
  <2> DEFINE a == f.turns[t].agent
  <2>1. f.turns[t].phase \in Waiting /\ g.turns[t].agent = a /\ g.turns[t].shard = f.turns[t].shard
    BY DEF Calm
  <2>2. a \in Agents
    BY <1>1, <2>1 DEF Waiting
  <2>3. f.agents[a].known # "gone" /\ g.agents[a].shard = f.agents[a].shard
    BY <2>1, <2>2 DEF Calm
  <2>4. f.agents[a].shard = f.turns[t].shard /\ f.agents[a].status \notin {"lost", "recovering"}
    BY <1>2, <2>1, <2>3 DEF AtHome, HomeOf
  <2>5. g.agents[a].status \notin {"lost", "recovering"}
    BY <2>1, <2>2, <2>4 DEF Calm
  <2> HIDE DEF a
  <2> QED BY <2>1, <2>3, <2>4, <2>5
<1>4. Marked(g)
  <2> SUFFICES ASSUME NEW r \in g.recoveries, g.agents[r.agent].known # "gone"
               PROVE  /\ g.agents[r.agent].status \in {"lost", "recovering"}
                      /\ r.phase # "failing" => g.agents[r.agent].shard = r.shard
    BY DEF Marked
  <2>1. PICK p \in f.recoveries : /\ p.agent = r.agent
                                  /\ r.phase # "failing" => p.phase # "failing" /\ p.shard = r.shard
    BY DEF Calm
  <2>2. r.agent \in Agents
    BY <1>1, <2>1 DEF Recoveries
  <2>3. /\ f.agents[r.agent].known # "gone" /\ g.agents[r.agent].shard = f.agents[r.agent].shard
        /\ g.agents[r.agent].status \in {"lost", "recovering"} <=> f.agents[r.agent].status \in {"lost", "recovering"}
    BY <2>2 DEF Calm
  <2>4. /\ f.agents[r.agent].status \in {"lost", "recovering"}
        /\ p.phase # "failing" => f.agents[r.agent].shard = p.shard
    BY <1>2, <2>1, <2>3 DEF Marked
  <2> QED BY <2>1, <2>3, <2>4
<1>5. Asked(g)
  <2> SUFFICES ASSUME NEW t \in Turns, g.turns[t].phase = "queued" PROVE g.agents[g.turns[t].agent].known # "no"
    BY DEF Asked
  <2>1. f.turns[t].phase = "queued" /\ g.turns[t].agent = f.turns[t].agent
    BY DEF Calm
  <2>2. f.turns[t].agent \in Agents /\ f.agents[f.turns[t].agent].known # "no"
    BY <1>1, <1>2, <2>1 DEF Asked
  <2> QED BY <2>1, <2>2 DEF Calm
<1>6. InOrder(g)
  <2>1. \A v, u \in Turns : g.turns[u].phase = "new" /\ u <= v => g.turns[v].phase = "new"
    BY <1>2 DEF InOrder, Calm
  <2>2. CASE g.queue = f.queue
    BY <1>2, <2>1, <2>2 DEF InOrder
  <2>3. CASE g.queue = <<>>
    <3>1. Len(g.queue) = 0
      BY <2>3
    <3>2. \A i, j \in 1..Len(g.queue) : i < j => g.queue[i] < g.queue[j]
      BY <3>1
    <3> QED BY <2>1, <3>2 DEF InOrder
  <2> QED BY <2>2, <2>3 DEF Calm
<1> QED BY <1>3, <1>4, <1>5, <1>6 DEF Orderly, Steady, Calm

(* Who is calm, when the recoveries are among those there were.             *)
LEMMA FewerSingle ==
    ASSUME NEW f, NEW g, NEW k, Orderly(f, k),
           \A a \in Agents : g.agents[a].known # "gone" => f.agents[a].known # "gone",
           \A r \in g.recoveries : r.phase # "failing" => r \in f.recoveries
    PROVE  Single(g)
<1>1. Single(f) /\ f.recoveries \subseteq Recoveries
  BY PlacedIsTyped DEF Orderly, Steady, Sound
<1> SUFFICES ASSUME NEW r \in g.recoveries, NEW p \in g.recoveries, r.agent = p.agent,
                    g.agents[r.agent].known # "gone", r.phase # "failing", p.phase # "failing"
             PROVE  r = p
  BY DEF Single
<1>2. r \in f.recoveries /\ p \in f.recoveries /\ r.agent \in Agents
  BY <1>1 DEF Recoveries
<1> QED BY <1>1, <1>2 DEF Single

(* Nobody's chances of being admitted grow.                                 *)
KeepsChances(f, g) ==
    \A c \in Agents :
        /\ g.agents[c].known = "yes" => f.agents[c].known = "yes"
        /\ g.agents[c].status \notin {"lost", "recovering"} => f.agents[c].status \notin {"lost", "recovering"}
        /\ CanAssign(g, c) => CanAssign(f, c)

LEMMA SeatsKeepChances ==
    ASSUME NEW f, NEW g, KeepsSeats(f, g),
           \A c \in Agents : g.agents[c].status \notin {"lost", "recovering"}
                                => f.agents[c].status \notin {"lost", "recovering"}
    PROVE  KeepsChances(f, g)
BY SameRoom, Zenon DEF KeepsChances, KeepsSeats

LEMMA SameChance ==
    ASSUME NEW f, NEW g, KeepsChances(f, g), NEW t, f.turns[t].agent \in Agents,
           g.turns[t].agent = f.turns[t].agent, Admissible(g, t)
    PROVE  Admissible(f, t)
BY DEF Admissible, KeepsChances, Registered

(* A handler serves the queue: after it nothing that could be admitted      *)
(* waits, and nobody was overtaken.                                         *)
Fair(f, g) ==
    \A t, u \in Turns :
        /\ f.turns[t].phase \in {"new", "queued"} /\ g.turns[t].phase = "starting"
        /\ g.turns[u].phase = "queued" /\ Outranks(g, u, t)
        /\ ListenersCall => f.turns[u].phase = "queued"
        => ~Admissible(g, u)
Served(f, g, k) == Orderly(g, k) /\ (Idle(f) => Idle(g)) /\ Fair(f, g)
Unstarted(f, g) ==
    \A t \in Turns :
        /\ f.turns[t].phase \in {"new", "queued"} => g.turns[t].phase # "starting"
        /\ f.turns[t].phase = "queued" => g.turns[t].phase # "new"

LEMMA PassesServe ==
    ASSUME NEW f, NEW h, NEW g, Unstarted(f, h), Passing(h, g)
    PROVE  Fair(f, g)
<1> SUFFICES ASSUME NEW t \in Turns, NEW u \in Turns, f.turns[t].phase \in {"new", "queued"},
                    g.turns[t].phase = "starting", g.turns[u].phase = "queued", Outranks(g, u, t),
                    ListenersCall => f.turns[u].phase = "queued"
             PROVE  ~Admissible(g, u)
  BY DEF Fair
<1>1. h.turns[t].phase # "starting"
  BY DEF Unstarted
<1>2. Waits(h, g, u)
  BY DEF Unstarted, Passing, SameCalls, MovesOn, Waits
<1> QED BY <1>1, <1>2 DEF Passing, InTurn

LEMMA DrainServes ==
    ASSUME NEW f, NEW h, NEW k, Orderly(h, k), Unstarted(f, h), NEW c, Heard(c)
    PROVE  Served(f, DrainHeard(h, c), k)
<1> DEFINE g == DrainHeard(h, c)
<1>1. Orderly(g, k) /\ Idle(g) /\ Passing(h, g)
  BY DrainHeardAdmits DEF Admits
<1> HIDE DEF g
<1>2. Fair(f, g)
  BY <1>1, PassesServe
<1> QED BY <1>1, <1>2 DEF Served, g

LEMMA EmptyServes ==
    ASSUME NEW f, NEW g, NEW k, Orderly(g, k), g.queue = <<>>
    PROVE  Served(f, g, k)
<1>1. Len(g.queue) = 0
  OBVIOUS
<1>2. \A t \in Turns : g.turns[t].phase # "queued"
  BY <1>1 DEF Orderly, Sound, Ledger, QueueIsExact
<1>3. Idle(g)
  BY <1>1 DEF Idle
<1> QED BY <1>2, <1>3 DEF Served, Fair

(* Where the queue stays as it is and nobody gets a chance, nobody waits    *)
(* for longer than before.                                                  *)
Tends(f, g) ==
    \A t \in Turns : g.turns[t].phase \in {"new", "queued", "starting"} => g.turns[t] = f.turns[t]
Still(f, g) ==
    /\ KeepsChances(f, g) /\ Tends(f, g)
    /\ g.queue = f.queue /\ g.active = f.active /\ (f.exceeded => g.exceeded)

LEMMA StillIdle ==
    ASSUME NEW f, NEW g, NEW k, NEW l, Orderly(f, k), Idle(f), Still(f, g), Orderly(g, l)
    PROVE  Idle(g)
<1> SUFFICES ASSUME ~Full(g), NEW i \in 1..Len(g.queue), Admissible(g, g.queue[i]) PROVE FALSE
  BY DEF Idle
<1>1. ~Full(f) /\ i \in 1..Len(f.queue)
  BY DEF Full, Still
<1> DEFINE t == g.queue[i]
<1>2. t \in Turns /\ g.turns[t].phase = "queued"
  BY DEF Orderly, Sound, Ledger, QueueIsExact
<1>3. g.turns[t] = f.turns[t]
  BY <1>2 DEF Still, Tends
<1>4. f.turns[t].agent \in Agents
  BY <1>2, <1>3 DEF Orderly, Sound, Placed, Housed, Names
<1>5. Admissible(f, t)
  BY <1>3, <1>4, SameChance DEF Still
<1> QED BY <1>1, <1>5 DEF Idle, Still

LEMMA StillServes ==
    ASSUME NEW f, NEW g, NEW k, NEW l, Orderly(f, k), Orderly(g, l), Still(f, g)
    PROVE  Served(f, g, l)
<1>1. Idle(f) => Idle(g)
  BY StillIdle
<1> QED BY <1>1 DEF Served, Fair, Still, Tends

(* What a handler does after it has served the queue.                       *)
LEMMA ThenServes ==
    ASSUME NEW f, NEW g, NEW h, NEW k, Served(f, g, k), Orderly(h, k), Still(g, h)
    PROVE  Served(f, h, k)
<1>1. Idle(f) => Idle(h)
  BY StillIdle DEF Served
<1>2. \A t \in Turns : g.turns[t].phase = "queued" => g.turns[t].agent \in Agents
  BY DEF Served, Orderly, Sound, Placed, Housed, Names
<1>3. Fair(f, h)
  <2> SUFFICES ASSUME NEW t \in Turns, NEW u \in Turns, f.turns[t].phase \in {"new", "queued"},
                      h.turns[t].phase = "starting", h.turns[u].phase = "queued", Outranks(h, u, t),
                      ListenersCall => f.turns[u].phase = "queued", Admissible(h, u)
               PROVE  FALSE
    BY DEF Fair
  <2>1. h.turns[t] = g.turns[t] /\ h.turns[u] = g.turns[u]
    BY DEF Still, Tends
  <2>2. Admissible(g, u)
    BY <1>2, <2>1, SameChance DEF Still
  <2>3. Outranks(g, u, t)
    BY <2>1 DEF Outranks
  <2> QED BY <2>1, <2>2, <2>3 DEF Served, Fair
<1> QED BY <1>1, <1>3 DEF Served

(* The rule for all steps that seat nobody and queue nobody: a turn moves   *)
(* on, but not into the queue or out of it by admission; agents stay        *)
(* available or unavailable; recoveries end or are going to fail.           *)
Moved(y, z) ==
    /\ y.phase # "new" /\ z.phase \notin {"new", "queued", "starting"} /\ z.agent = y.agent
    /\ z.phase \in Waiting => y.phase \in Waiting /\ z.shard = y.shard
SameAgents(f, g) ==
    \A c \in Agents :
        /\ g.agents[c].known = f.agents[c].known /\ g.agents[c].shard = f.agents[c].shard
        /\ g.agents[c].status \in {"lost", "recovering"} <=> f.agents[c].status \in {"lost", "recovering"}
Wanes(f, g) ==
    \A r \in g.recoveries :
        r \in f.recoveries \/ (r.phase = "failing" /\ \E p \in f.recoveries : p.agent = r.agent)
Eases(f, g) ==
    /\ \A t \in Turns : g.turns[t] = f.turns[t] \/ Moved(f.turns[t], g.turns[t])
    /\ SameAgents(f, g) /\ Wanes(f, g)
    /\ g.queue = f.queue \/ g.queue = <<>>

LEMMA EasyStep ==
    ASSUME NEW f, NEW g, NEW k, NEW l, Orderly(f, k), Sound(g, l), Eases(f, g)
    PROVE  /\ Orderly(g, l) /\ Tends(f, g)
           /\ KeepsSeats(f, g) => KeepsChances(f, g)
<1>1. /\ \A t \in Turns : g.turns[t] = f.turns[t] \/ Moved(f.turns[t], g.turns[t])
      /\ SameAgents(f, g) /\ Wanes(f, g) /\ (g.queue = f.queue \/ g.queue = <<>>)
  BY DEF Eases
<1>2. Single(g)
  BY <1>1, FewerSingle DEF SameAgents, Wanes
<1>3. Calm(f, g)
  <2>1. ASSUME NEW t \in Turns
        PROVE  /\ g.turns[t].phase \in Waiting =>
                     /\ f.turns[t].phase \in Waiting
                     /\ g.turns[t].agent = f.turns[t].agent /\ g.turns[t].shard = f.turns[t].shard
               /\ g.turns[t].phase = "queued" => f.turns[t].phase = "queued" /\ g.turns[t].agent = f.turns[t].agent
               /\ g.turns[t].phase = "new" <=> f.turns[t].phase = "new"
    <3>1. CASE g.turns[t] = f.turns[t]
      BY <3>1
    <3>2. CASE Moved(f.turns[t], g.turns[t])
      BY <3>2 DEF Moved
    <3> QED BY <1>1, <3>1, <3>2
  <2>2. ASSUME NEW r \in g.recoveries
        PROVE  \E p \in f.recoveries : /\ p.agent = r.agent
                                       /\ r.phase # "failing" => p.phase # "failing" /\ p.shard = r.shard
    BY <1>1 DEF Wanes
  <2> QED BY <1>1, <1>2, <2>1, <2>2 DEF Calm, SameAgents
<1>4. Orderly(g, l)
  BY <1>3, CalmOrderly
<1>5. Tends(f, g)
  BY <1>1 DEF Tends, Moved
<1>6. KeepsSeats(f, g) => KeepsChances(f, g)
  BY <1>1, SeatsKeepChances DEF SameAgents
<1> QED BY <1>4, <1>5, <1>6

LEMMA TurnRests ==
    ASSUME NEW f, NEW g, NEW k, NEW t \in Turns, NEW z, Orderly(f, k), Sound(g, k),
           g.turns = [f.turns EXCEPT ![t] = z], Moved(f.turns[t], z), g.agents = f.agents,
           g.shards = f.shards, g.queue = f.queue, g.recoveries = f.recoveries
    PROVE  Orderly(g, k) /\ Tends(f, g) /\ KeepsChances(f, g)
<1>1. f.turns \in [Turns -> TurnRecords]
  BY PlacedIsTyped DEF Orderly, Sound
<1>2. \A u \in Turns : g.turns[u] = f.turns[u] \/ Moved(f.turns[u], g.turns[u])
  BY <1>1
<1>3. SameAgents(f, g) /\ Wanes(f, g) /\ KeepsSeats(f, g)
  BY DEF SameAgents, Wanes, KeepsSeats
<1>4. Eases(f, g)
  BY <1>2, <1>3 DEF Eases
<1> QED BY <1>3, <1>4, EasyStep

LEMMA AsideRests ==
    ASSUME NEW f, NEW g, NEW k, Orderly(f, k), Sound(g, k), g.turns = f.turns, g.queue = f.queue,
           KeepsSeats(f, g), SameAgents(f, g), g.recoveries \subseteq f.recoveries
    PROVE  Orderly(g, k) /\ Tends(f, g) /\ KeepsChances(f, g)
<1>1. Eases(f, g)
  BY DEF Eases, Wanes
<1> QED BY <1>1, EasyStep

LEMMA StillOn ==
    ASSUME NEW f, NEW g, NEW h, Still(f, g), Still(g, h)
    PROVE  Still(f, h)
<1>1. Tends(f, h)
  BY DEF Still, Tends
<1>2. KeepsChances(f, h)
  BY DEF Still, KeepsChances
<1> QED BY <1>1, <1>2 DEF Still

LEMMA MovesRests ==
    ASSUME NEW f, NEW k, Orderly(f, k), NEW t \in Turns, f.turns[t].phase \in Sharded,
           NEW p \in {"failing", "confirming"}
    PROVE  LET g == [f EXCEPT !.turns[t].phase = p]
           IN Orderly(g, k) /\ Still(f, g)
<1> DEFINE g == [f EXCEPT !.turns[t].phase = p]
           x == f.turns[t]
           z == [x EXCEPT !.phase = p]
<1>1. x \in TurnRecords /\ IsFleet(f) /\ f.turns \in [Turns -> TurnRecords] /\ Sound(g, k)
  BY TurnIsTyped, PlacedIsTyped, MovesSound, Zenon DEF Orderly, Sound
<1>2. /\ g.turns = [f.turns EXCEPT ![t] = z] /\ g.agents = f.agents /\ g.shards = f.shards
      /\ g.queue = f.queue /\ g.active = f.active /\ g.exceeded = f.exceeded /\ g.recoveries = f.recoveries
  BY <1>1 DEF IsFleet
<1> HIDE DEF g, x
<1>3. z.phase = p /\ z.agent = x.agent
  BY <1>1 DEF TurnRecords
<1>4. Moved(x, z)
  BY <1>3 DEF Moved, Waiting, Sharded, InFlightPhases, x
<1>5. Orderly(g, k) /\ Tends(f, g) /\ KeepsChances(f, g)
  BY <1>1, <1>2, <1>4, TurnRests, Zenon DEF x
<1> QED BY <1>2, <1>5 DEF Still, g

LEMMA SessRests ==
    ASSUME NEW f, NEW k, Orderly(f, k), NEW s \in Shards, NEW x, NEW v \in {"none", "open", "stopped"}
    PROVE  LET g == [f EXCEPT !.shards[s].sess[x] = v]
           IN Orderly(g, k) /\ Still(f, g) /\ g.turns = f.turns
<1> DEFINE g == [f EXCEPT !.shards[s].sess[x] = v]
           y == f.shards[s]
           z == [y EXCEPT !.sess[x] = v]
<1>1. IsFleet(f) /\ f.shards \in [Shards -> ShardRecords] /\ Sound(g, k)
  BY PlacedIsTyped, SessSound, Zenon DEF Orderly, Sound
<1>2. /\ g.shards = [f.shards EXCEPT ![s] = z] /\ g.turns = f.turns /\ g.agents = f.agents
      /\ g.queue = f.queue /\ g.active = f.active /\ g.exceeded = f.exceeded /\ g.recoveries = f.recoveries
  BY <1>1 DEF IsFleet
<1>3. y \in ShardRecords
  BY <1>1
<1> HIDE DEF g, y
<1>4. z.backend = y.backend /\ z.tracked = y.tracked /\ z.members = y.members
  BY <1>3 DEF ShardRecords
<1> HIDE DEF z
<1>5. KeepsSeats(f, g) /\ SameAgents(f, g)
  BY <1>1, <1>2, <1>4 DEF KeepsSeats, SameAgents, y
<1>6. Orderly(g, k) /\ Tends(f, g) /\ KeepsChances(f, g)
  BY <1>1, <1>2, <1>5, AsideRests
<1> QED BY <1>2, <1>6 DEF Still, g

LEMMA OpenRests ==
    ASSUME NEW f, NEW k, Orderly(f, k), NEW t \in Turns, f.turns[t].phase = "opening", NEW x \in Turns,
           Sound(Open(f, t, x), k)
    PROVE  Orderly(Open(f, t, x), k) /\ Still(f, Open(f, t, x))
<1> DEFINE v == f.turns[t]
           s == v.shard
           a == v.agent
           o == f.agents[a]
           q == f.shards[s]
           y == [o EXCEPT !.session = x, !.status = IF Registered(f, a) THEN "ready" ELSE @]
           w == [q EXCEPT !.sess[x] = "open", !.mapped = @ \union {x}]
           z == [v EXCEPT !.phase = "running", !.session = x]
           g == Open(f, t, x)
<1>1. /\ IsFleet(f) /\ f.agents \in [Agents -> AgentRecords] /\ f.shards \in [Shards -> ShardRecords]
      /\ f.turns \in [Turns -> TurnRecords] /\ f.recoveries \subseteq Recoveries
  BY PlacedIsTyped DEF Orderly, Sound
<1>2. v \in TurnRecords /\ s \in Shards /\ a \in Agents /\ v.phase \in Waiting
  <2>1. f.turns[t].phase \in Sharded
    BY DEF Sharded, InFlightPhases
  <2> QED BY <2>1, TurnIsTyped DEF Orderly, Sound, Waiting
<1>3. /\ IsFleet(g) /\ g.queue = f.queue /\ g.active = f.active /\ g.exceeded = f.exceeded
      /\ g.recoveries = f.recoveries
      /\ g.agents = [f.agents EXCEPT ![a] = y]
      /\ g.shards = [f.shards EXCEPT ![s] = w]
      /\ g.turns = [f.turns EXCEPT ![t] = z]
  BY <1>1, <1>2, ZenonT(60) DEF Open, IsFleet
<1>4. o \in AgentRecords /\ q \in ShardRecords
  BY <1>1, <1>2
<1>5. o.known # "gone" => o.status \notin {"lost", "recovering"}
  BY <1>2 DEF Orderly, Steady, AtHome, HomeOf
<1>6. Registered(f, a) <=> o.known = "yes"
  BY DEF Registered
<1> HIDE DEF g, o, q
<1>7. /\ y.known = o.known /\ y.shard = o.shard
      /\ y.status \in {"lost", "recovering"} <=> o.status \in {"lost", "recovering"}
  <2>1. y.known = o.known /\ y.shard = o.shard /\ y.status = IF Registered(f, a) THEN "ready" ELSE o.status
    BY <1>4 DEF AgentRecords
  <2> HIDE DEF y
  <2> QED BY <1>5, <1>6, <2>1
<1>8. w.backend = q.backend /\ w.tracked = q.tracked /\ w.members = q.members
  BY <1>4 DEF ShardRecords
<1>9. z.agent = v.agent /\ z.phase = "running" /\ z.shard = v.shard
  BY <1>2 DEF TurnRecords
<1> HIDE DEF y, w, z
<1>10. SameAgents(f, g)
  BY <1>1, <1>3, <1>7 DEF SameAgents, o
<1>11. KeepsSeats(f, g)
  BY <1>1, <1>3, <1>8, <1>10 DEF KeepsSeats, SameAgents, q
<1>12. ASSUME NEW u \in Turns PROVE g.turns[u] = f.turns[u] \/ Moved(f.turns[u], g.turns[u])
  <2>1. Moved(v, z)
    BY <1>2, <1>9 DEF Moved, Waiting
  <2> QED BY <1>1, <1>3, <2>1
<1>13. Eases(f, g)
  BY <1>3, <1>10, <1>12 DEF Eases, Wanes
<1> QED BY <1>3, <1>11, <1>13, EasyStep DEF Still, g

(* The handler of a settled turn's event, and the end of #admit.            *)
LEMMA EventServes ==
    ASSUME NEW f, NEW h, NEW k, Orderly(f, k), Orderly(h, k), Still(f, h), NEW t, NEW c, Heard(c)
    PROVE  Served(f, OnTurnEvent(h, t, c), k)
<1>1. Unstarted(f, h)
  BY DEF Still, Tends, Unstarted
<1> QED BY <1>1, DrainServes, StillServes DEF OnTurnEvent

LEMMA FinallyServes ==
    ASSUME NEW f, NEW h, NEW k, Orderly(h, k), Still(f, h), NEW t \in Turns,
           h.turns[t].phase \in Sharded, NEW phase \in {"done", "failed"}, NEW c, Heard(c)
    PROVE  Served(f, Finally(h, t, phase, c), k)
<1> DEFINE g == [Settle(h, t, phase) EXCEPT !.active = @ - 1]
           a == h.turns[t].agent
           z == [NewTurn(a) EXCEPT !.phase = phase]
<1>1. IsFleet(h) /\ h.turns \in [Turns -> TurnRecords]
  BY PlacedIsTyped, Zenon DEF Orderly, Sound
<1>2. /\ g.turns = [h.turns EXCEPT ![t] = z] /\ g.agents = h.agents /\ g.shards = h.shards
      /\ g.queue = h.queue /\ g.recoveries = h.recoveries
  BY <1>1, Zenon DEF Settle, IsFleet
<1>3. Finally(h, t, phase, c) = DrainHeard(g, c)
  BY DEF Finally
<1>4. Sound(g, k)
  BY SettledSound, Zenon DEF Orderly
<1> HIDE DEF g
<1>5. z.agent = a /\ z.phase = phase
  BY DEF NewTurn
<1> HIDE DEF z
<1>6. Moved(h.turns[t], z)
  BY <1>5 DEF Moved, Sharded, InFlightPhases, Waiting
<1>7. Orderly(g, k) /\ Tends(h, g)
  BY <1>2, <1>4, <1>6, TurnRests, Zenon
<1>8. Unstarted(f, g)
  BY <1>7 DEF Still, Tends, Unstarted
<1> QED BY <1>3, <1>7, <1>8, DrainServes

(* Whoever is rejected waits no more.                                       *)
LEMMA EmptiedServes ==
    ASSUME NEW f, NEW e, NEW g, NEW k, Orderly(f, k), Sound(g, k), g.queue = <<>>,
           g.agents = f.agents, g.recoveries = f.recoveries,
           g.turns = [t \in Turns |-> IF f.turns[t].phase = "queued"
                                       THEN [NewTurn(f.turns[t].agent) EXCEPT !.phase = "refused"]
                                       ELSE f.turns[t]]
    PROVE  Served(e, g, k)
<1>1. ASSUME NEW t \in Turns PROVE g.turns[t] = f.turns[t] \/ Moved(f.turns[t], g.turns[t])
  <2>1. CASE f.turns[t].phase # "queued"
    BY <2>1
  <2>2. CASE f.turns[t].phase = "queued"
    <3>1. g.turns[t] = [NewTurn(f.turns[t].agent) EXCEPT !.phase = "refused"]
      BY <2>2
    <3>2. g.turns[t].phase = "refused" /\ g.turns[t].agent = f.turns[t].agent
      BY <3>1 DEF NewTurn
    <3> QED BY <2>2, <3>2 DEF Moved, Waiting
  <2> QED BY <2>1, <2>2
<1>2. Eases(f, g)
  BY <1>1 DEF Eases, SameAgents, Wanes
<1>3. Orderly(g, k)
  BY <1>2, EasyStep
<1> QED BY <1>3, EmptyServes

LEMMA TripServes ==
    ASSUME NEW f, NEW g, NEW k, Served(f, g, k)
    PROVE  Served(f, Trip(g), k)
<1>1. CASE g.exceeded
  BY <1>1 DEF Trip
<1>2. CASE ~g.exceeded
  <2> DEFINE h == Trip(g)
  <2>1. IsFleet(g) /\ Sound(h, k)
    BY PlacedIsTyped, TripSound DEF Served, Orderly, Sound
  <2>2. /\ h.queue = <<>> /\ h.agents = g.agents /\ h.recoveries = g.recoveries
        /\ h.turns = [t \in Turns |-> IF g.turns[t].phase = "queued"
                                       THEN [NewTurn(g.turns[t].agent) EXCEPT !.phase = "refused"]
                                       ELSE g.turns[t]]
    BY <1>2, <2>1 DEF Trip, IsFleet
  <2> HIDE DEF h
  <2>3. Served(f, h, k)
    BY <2>1, <2>2, EmptiedServes DEF Served
  <2> QED BY <2>3 DEF h
<1> QED BY <1>1, <1>2

(* What waits for a runtime is going to reject: then nobody does.           *)
LEMMA RejectedRests ==
    ASSUME NEW f, NEW k, Orderly(f, k), NEW s
    PROVE  LET g == Rejected(f, s)
           IN /\ Orderly(g, k) /\ Still(f, g) /\ g.shards = f.shards /\ g.agents = f.agents
              /\ \A t \in Turns : g.turns[t].phase \in Waiting => g.turns[t].shard # s
              /\ \A r \in g.recoveries : r.phase # "failing" => r.shard # s
<1> DEFINE g == Rejected(f, s)
<1>1. /\ IsFleet(f) /\ f.recoveries \subseteq Recoveries /\ f.turns \in [Turns -> TurnRecords]
      /\ Sound(g, k) /\ g.shards = f.shards /\ g.agents = f.agents
  BY PlacedIsTyped, RejectedSound DEF Orderly, Sound
<1>2. /\ g.queue = f.queue /\ g.active = f.active /\ g.exceeded = f.exceeded
      /\ g.turns = [t \in Turns |->
            IF f.turns[t].shard = s /\ f.turns[t].phase \in {"starting", "opening", "running"}
              THEN [f.turns[t] EXCEPT !.phase = "failing"] ELSE f.turns[t]]
      /\ g.recoveries = {IF r.shard = s THEN [r EXCEPT !.phase = "failing"] ELSE r : r \in f.recoveries}
  BY <1>1 DEF Rejected, IsFleet
<1> HIDE DEF g
<1>3. ASSUME NEW t \in Turns
      PROVE  /\ g.turns[t] = f.turns[t] \/ Moved(f.turns[t], g.turns[t])
             /\ g.turns[t].phase \in Waiting => g.turns[t].shard # s
  <2>1. CASE f.turns[t].shard = s /\ f.turns[t].phase \in Waiting
    <3>1. f.turns[t] \in TurnRecords
      BY <1>1
    <3>2. g.turns[t] = [f.turns[t] EXCEPT !.phase = "failing"]
      BY <1>2, <2>1 DEF Waiting
    <3>3. g.turns[t].phase = "failing" /\ g.turns[t].agent = f.turns[t].agent
      BY <3>1, <3>2 DEF TurnRecords
    <3> QED BY <2>1, <3>3 DEF Moved, Waiting
  <2>2. CASE ~(f.turns[t].shard = s /\ f.turns[t].phase \in Waiting)
    <3>1. g.turns[t] = f.turns[t]
      BY <1>2, <2>2 DEF Waiting
    <3> QED BY <2>2, <3>1
  <2> QED BY <2>1, <2>2
<1>4. ASSUME NEW r \in g.recoveries
      PROVE  /\ r \in f.recoveries \/ (r.phase = "failing" /\ \E p \in f.recoveries : p.agent = r.agent)
             /\ r.phase # "failing" => r.shard # s
  <2>1. PICK p \in f.recoveries : r = IF p.shard = s THEN [p EXCEPT !.phase = "failing"] ELSE p
    BY <1>2
  <2>2. p \in Recoveries
    BY <1>1
  <2>3. CASE p.shard = s
    <3>1. r.phase = "failing" /\ r.agent = p.agent
      BY <2>1, <2>2, <2>3 DEF Recoveries
    <3> QED BY <3>1
  <2>4. CASE p.shard # s
    BY <2>1, <2>4
  <2> QED BY <2>3, <2>4
<1>5. Eases(f, g) /\ KeepsSeats(f, g)
  BY <1>1, <1>2, <1>3, <1>4 DEF Eases, SameAgents, Wanes, KeepsSeats
<1>6. Orderly(g, k) /\ Still(f, g)
  BY <1>1, <1>2, <1>5, EasyStep DEF Still
<1> QED BY <1>1, <1>3, <1>4, <1>6 DEF g
-----------------------------------------------------------------------------
(* The steps of a turn serve the queue.                                     *)
LEMMA ServesBecomes ==
    ASSUME NEW f, NEW g, NEW k, Served(f, g, k), Becomes(g)
    PROVE  Served(f, fleet', k)
<1>1. fleet' = g
  BY BecomesSound DEF Served, Orderly
<1> QED BY <1>1

LEMMA FleetBecomes ==
    ASSUME NEW g, IsFleet(g), Becomes(g)
    PROVE  fleet' = g
BY DEF Becomes, fleet, IsFleet

LEMMA SameIsStill == ASSUME NEW f PROVE Still(f, f)
BY DEF Still, KeepsChances, Tends

LEMMA TurnStartServes ==
    ASSUME NEW k, Orderly(fleet, k), NEW t \in Turns, TurnStart(t)
    PROVE  Served(fleet, fleet', k)
<1> DEFINE x == turns[t]
           opening(y) == [fleet EXCEPT !.turns[t].phase = "opening", !.turns[t].session = y]
<1>1. /\ turns[t].phase = "starting" /\ turns[t].phase \in Sharded
      /\ Becomes(Failing(fleet, t)) \/ \E y : Becomes(opening(y))
  BY Zenon DEF TurnStart, Sharded, InFlightPhases
<1>2. turns \in [Turns -> TurnRecords] /\ x \in TurnRecords
  BY Fields, PlacedIsTyped DEF Orderly, Sound
<1>3. CASE Becomes(Failing(fleet, t))
  <2>1. Orderly(Failing(fleet, t), k) /\ Still(fleet, Failing(fleet, t))
    BY <1>1, Fields, MovesRests, Zenon DEF Failing
  <2> QED BY <1>3, <2>1, StillServes, ServesBecomes
<1>4. CASE \E y : Becomes(opening(y))
  <2>1. PICK y : Becomes(opening(y))
    BY <1>4, Zenon
  <2> DEFINE z == [x EXCEPT !.phase = "opening", !.session = y]
             g == opening(y)
  <2>2. /\ g.turns = [fleet.turns EXCEPT ![t] = z] /\ g.agents = fleet.agents /\ g.shards = fleet.shards
        /\ g.queue = fleet.queue /\ g.active = fleet.active /\ g.exceeded = fleet.exceeded
        /\ g.recoveries = fleet.recoveries /\ IsFleet(g)
    BY <1>2, Zenon DEF IsFleet, fleet
  <2>3. fleet' = g /\ Sound(g, k)
    <3>1. fleet' = g
      BY <2>1, <2>2, FleetBecomes
    <3>2. Sound(fleet', k)
      BY TurnStartSound DEF Orderly
    <3> HIDE DEF g
    <3> QED BY <3>1, <3>2
  <2> HIDE DEF g, x
  <2>4. z.agent = x.agent /\ z.phase = "opening" /\ z.shard = x.shard
    BY <1>2 DEF TurnRecords
  <2> HIDE DEF z
  <2>5. Moved(fleet.turns[t], z)
    BY <1>1, <2>4, Fields, Zenon DEF Moved, Waiting, x
  <2>6. Orderly(g, k) /\ Tends(fleet, g) /\ KeepsChances(fleet, g)
    BY <2>2, <2>3, <2>5, TurnRests, Zenon
  <2>7. Served(fleet, g, k)
    BY <2>2, <2>6, StillServes DEF Still
  <2> QED BY <2>3, <2>7
<1> QED BY <1>1, <1>3, <1>4, Zenon

LEMMA TurnOpensServes ==
    ASSUME NEW k, Orderly(fleet, k), NEW t \in Turns, TurnReuses(t) \/ TurnOpensFresh(t)
    PROVE  Served(fleet, fleet', k)
<1> DEFINE s == ShardOf(t)
           x == turns[t].session
           f == [fleet EXCEPT !.shards[s].sess[x] = "none"]
<1>1. /\ fleet.turns[t].phase = "opening" /\ fleet.turns[t].phase \in Sharded
      /\ \/ Becomes(Failing(fleet, t))
         \/ x # 0 /\ Becomes(Open(fleet, t, x))
         \/ Becomes(Open(f, t, t))
  BY Fields DEF TurnReuses, TurnOpensFresh, Sharded, InFlightPhases
<1>2. x \in Sessions /\ s \in Shards
  BY <1>1, Fields, TurnIsTyped DEF Orderly, Sound, ShardOf
<1>3. Sound(fleet', k)
  BY TurnReusesSound, TurnOpensFreshSound DEF Orderly
<1> HIDE DEF x, s
<1>4. ASSUME NEW h, NEW y \in Turns, Orderly(h, k), Still(fleet, h), h.turns = fleet.turns, Becomes(Open(h, t, y))
      PROVE  Served(fleet, fleet', k)
  <2>1. IsFleet(h)
    BY <1>4, PlacedIsTyped, Zenon DEF Orderly, Sound
  <2>2. IsFleet(Open(h, t, y))
    BY <2>1, Zenon DEF Open, IsFleet
  <2>3. fleet' = Open(h, t, y)
    BY <1>4, <2>2, FleetBecomes
  <2>4. Orderly(Open(h, t, y), k) /\ Still(h, Open(h, t, y))
    BY <1>1, <1>3, <1>4, <2>3, OpenRests
  <2>5. Still(fleet, Open(h, t, y))
    BY <1>4, <2>4, StillOn
  <2> QED BY <2>3, <2>4, <2>5, StillServes
<1>5. CASE Becomes(Failing(fleet, t))
  <2>1. Orderly(Failing(fleet, t), k) /\ Still(fleet, Failing(fleet, t))
    BY <1>1, MovesRests, Zenon DEF Failing
  <2> QED BY <1>5, <2>1, StillServes, ServesBecomes
<1>6. CASE x # 0 /\ Becomes(Open(fleet, t, x))
  <2>1. x \in Turns
    BY <1>2, <1>6, LimitsAssumption DEF Sessions, Turns
  <2> QED BY <1>4, <1>6, <2>1, SameIsStill
<1>7. CASE Becomes(Open(f, t, t))
  <2>1. Orderly(f, k) /\ Still(fleet, f) /\ f.turns = fleet.turns
    BY <1>2, SessRests, ZenonT(60)
  <2> HIDE DEF f
  <2> QED BY <1>4, <1>7, <2>1
<1> QED BY <1>1, <1>5, <1>6, <1>7

LEMMA TurnCompletesServes ==
    ASSUME NEW k, Orderly(fleet, k), NEW t \in Turns, TurnCompletes(t)
    PROVE  Served(fleet, fleet', k)
<1> DEFINE s == ShardOf(t)
           x == turns[t].session
           a == turns[t].agent
           d == [fleet EXCEPT !.turns[t].phase = "confirming"]
           v == IF shards[s].backend = "codex" \/ shards[s].sess[x] = "none" THEN shards[s].sess[x] ELSE "stopped"
           f == [fleet EXCEPT !.turns[t].phase = "confirming",
                              !.shards[s].sess[x] = IF shards[s].backend = "codex" \/ @ = "none" THEN @ ELSE "stopped"]
<1>0. PICK c \in Calls(0) : Becomes([OnTurnEvent(f, t, c) EXCEPT !.agents[a].session = x])
  BY Zenon DEF TurnCompletes
<1> DEFINE g == OnTurnEvent(f, t, c)
           h == [g EXCEPT !.agents[a].session = x]
<1>1. Becomes(h) /\ turns[t].phase = "running" /\ turns[t].phase \in Sharded /\ Heard(c)
  <2>1. turns[t].phase = "running" /\ turns[t].phase \in Sharded
    BY Zenon DEF TurnCompletes, Sharded, InFlightPhases
  <2>2. Heard(c)
    BY CallsHeard
  <2> QED BY <1>0, <2>1, <2>2, Zenon
<1>2. s \in Shards /\ v \in {"none", "open", "stopped"} /\ a \in Agents
  <2>1. s \in Shards /\ x \in Sessions /\ a \in Agents
    BY <1>1, Fields, TurnIsTyped, Zenon DEF Orderly, Sound, ShardOf
  <2>2. shards \in [Shards -> ShardRecords]
    BY Fields, PlacedIsTyped DEF Orderly, Sound
  <2>3. shards[s].sess[x] \in {"none", "open", "stopped"}
    BY <2>1, <2>2, Zenon DEF ShardRecords
  <2> QED BY <2>1, <2>3, Zenon
<1>3. Sound(fleet', k)
  BY TurnCompletesSound DEF Orderly
<1>4. Orderly(d, k) /\ Still(fleet, d)
  BY <1>1, Fields, MovesRests, Zenon
<1>5. f = [d EXCEPT !.shards[s].sess[x] = v]
  BY DEF fleet
<1> HIDE DEF d, f, v, s, x, a
<1>6. Orderly(f, k) /\ Still(d, f)
  BY <1>2, <1>4, <1>5, SessRests, Zenon
<1>7. Served(fleet, g, k)
  BY <1>1, <1>4, <1>6, StillOn, EventServes
<1>8. IsFleet(g) /\ g.agents \in [Agents -> AgentRecords]
  BY <1>7, PlacedIsTyped DEF Served, Orderly, Sound
<1> HIDE DEF g
<1> DEFINE w == g.agents[a]
           y == [w EXCEPT !.session = x]
<1>9. /\ IsFleet(h) /\ h.agents = [g.agents EXCEPT ![a] = y] /\ h.turns = g.turns /\ h.shards = g.shards
      /\ h.queue = g.queue /\ h.active = g.active /\ h.exceeded = g.exceeded /\ h.recoveries = g.recoveries
  BY <1>8 DEF IsFleet
<1>10. w \in AgentRecords
  BY <1>2, <1>8
<1> HIDE DEF h, w
<1>11. y.known = w.known /\ y.shard = w.shard /\ y.status = w.status
  BY <1>10 DEF AgentRecords
<1> HIDE DEF y
<1>12. SameAgents(g, h) /\ KeepsSeats(g, h)
  BY <1>2, <1>8, <1>9, <1>11 DEF SameAgents, KeepsSeats, w
<1>13. fleet' = h
  BY <1>1, <1>9, FleetBecomes
<1>14. Orderly(h, k) /\ Still(g, h)
  BY <1>3, <1>7, <1>9, <1>12, <1>13, AsideRests DEF Served, Still
<1> QED BY <1>7, <1>13, <1>14, ThenServes

LEMMA TurnFailsServes ==
    ASSUME NEW k, Orderly(fleet, k), NEW t \in Turns, TurnFails(t)
    PROVE  Served(fleet, fleet', k)
<1> DEFINE s == ShardOf(t)
           x == turns[t].session
           f == Failing(fleet, t)
           put(v) == [f EXCEPT !.shards[s].sess[x] = v]
           States == {"none", "open", "stopped"}
<1>1. turns[t].phase \in Sharded
  BY DEF TurnFails, Sharded, InFlightPhases
<1>2. s \in Shards /\ shards[s].sess[x] \in States /\ f.shards = shards
  <2>1. s \in Shards /\ x \in Sessions
    BY <1>1, Fields, TurnIsTyped DEF Orderly, Sound, ShardOf
  <2>2. shards \in [Shards -> ShardRecords]
    BY Fields, PlacedIsTyped DEF Orderly, Sound
  <2> QED BY <2>1, <2>2, Fields DEF ShardRecords, Failing
<1>3. Orderly(f, k) /\ Still(fleet, f)
  BY <1>1, Fields, MovesRests, Zenon DEF Failing
<1>4. \E c \in Calls(0), v \in States :
         Becomes(OnTurnEvent(f, t, c)) \/ Becomes(put(v)) \/ Becomes(OnTurnEvent(put(v), t, c))
  <2>1. \/ \E c \in Calls(0) : Becomes(OnTurnEvent(f, t, c))
        \/ Becomes([f EXCEPT !.shards[s].sess[x] = IF @ = "none" THEN @ ELSE "open"])
        \/ \E left \in {"none", shards[s].sess[x]}, c \in Calls(0) :
              Becomes(OnTurnEvent([f EXCEPT !.shards[s].sess[x] = left], t, c))
    BY DEF TurnFails
  <2>2. [f EXCEPT !.shards[s].sess[x] = IF @ = "none" THEN @ ELSE "open"]
          = put(IF f.shards[s].sess[x] = "none" THEN f.shards[s].sess[x] ELSE "open")
    OBVIOUS
  <2>3. NoCall \in Calls(0)
    BY DEF Calls
  <2> QED BY <1>2, <2>1, <2>2, <2>3, Zenon
<1> HIDE DEF f, s, x
<1>5. ASSUME NEW v \in States PROVE Orderly(put(v), k) /\ Still(fleet, put(v))
  <2>1. Orderly(put(v), k) /\ Still(f, put(v))
    BY <1>2, <1>3, SessRests, Zenon
  <2> HIDE DEF put
  <2> QED BY <1>3, <2>1, StillOn
<1> HIDE DEF put
<1>6. PICK c \in Calls(0), v \in States :
         Becomes(OnTurnEvent(f, t, c)) \/ Becomes(put(v)) \/ Becomes(OnTurnEvent(put(v), t, c))
  BY <1>4, Zenon
<1>7. Heard(c)
  BY CallsHeard
<1>8. /\ Served(fleet, put(v), k) /\ Served(fleet, OnTurnEvent(f, t, c), k)
      /\ Served(fleet, OnTurnEvent(put(v), t, c), k)
  BY <1>3, <1>5, <1>7, EventServes, StillServes
<1> QED BY <1>6, <1>8, ServesBecomes

LEMMA TurnEndsServes ==
    ASSUME NEW k, Orderly(fleet, k), NEW t \in Turns, TurnResolves(t) \/ TurnRejects(t)
    PROVE  Served(fleet, fleet', k)
<1> DEFINE s == ShardOf(t)
           x == turns[t].session
           f == [fleet EXCEPT !.shards[s].sess[x] = "stopped"]
<1>1. turns[t].phase \in Sharded
  BY Zenon DEF TurnResolves, TurnRejects, Sharded, InFlightPhases
<1>2. PICK c \in Calls(0) : \/ Becomes(Finally(fleet, t, "failed", c)) \/ Becomes(Finally(fleet, t, "done", c))
                           \/ Becomes(Finally(f, t, "done", c))
  BY Zenon DEF TurnResolves, TurnRejects
<1>3. s \in Shards
  BY <1>1, Fields, TurnIsTyped DEF Orderly, Sound, ShardOf
<1> HIDE DEF s, x
<1>4. Orderly(f, k) /\ Still(fleet, f) /\ f.turns = fleet.turns
  BY <1>3, SessRests, Zenon
<1> HIDE DEF f
<1>5. fleet.turns[t].phase \in Sharded /\ f.turns[t].phase \in Sharded
  BY <1>1, <1>4, Fields
<1>6. /\ Served(fleet, Finally(fleet, t, "failed", c), k) /\ Served(fleet, Finally(fleet, t, "done", c), k)
      /\ Served(fleet, Finally(f, t, "done", c), k)
  <2>1. Heard(c)
    BY CallsHeard
  <2> QED BY <1>4, <1>5, <2>1, SameIsStill, FinallyServes
<1> QED BY <1>2, <1>6, ServesBecomes

LEMMA BackendCeilingServes ==
    ASSUME NEW k, Orderly(fleet, k), NEW t \in Turns, BackendCeiling(t)
    PROVE  Served(fleet, fleet', k)
<1>0. PICK c \in Calls(0) : LET f == OnTurnEvent(Failing(fleet, t), t, c)
                            IN Becomes(IF Attributable(t) THEN Trip(f) ELSE f)
  BY Zenon DEF BackendCeiling
<1> DEFINE f == OnTurnEvent(Failing(fleet, t), t, c)
<1>1. fleet.turns[t].phase \in Sharded
  BY Fields DEF BackendCeiling, Sharded, InFlightPhases
<1>2. Becomes(f) \/ Becomes(Trip(f))
  BY <1>0
<1>3. Orderly(Failing(fleet, t), k) /\ Still(fleet, Failing(fleet, t))
  BY <1>1, MovesRests, Zenon DEF Failing
<1>4. Served(fleet, f, k)
  <2>1. Heard(c)
    BY CallsHeard
  <2> QED BY <1>3, <2>1, EventServes
<1> HIDE DEF f
<1> QED BY <1>2, <1>4, TripServes, ServesBecomes

LEMMA UsageServes ==
    ASSUME NEW k, Orderly(fleet, k), NEW t \in Turns, NEW cost \in Costs, Usage(t, cost)
    PROVE  Served(fleet, fleet', k)
<1> DEFINE a == turns[t].agent
           w == agents[a]
           y == [w EXCEPT !.cost = cost]
           f == [fleet EXCEPT !.agents[a].cost = cost]
<1>1. Becomes(f) \/ Becomes(Trip(f))
  BY DEF Usage, Recalculated
<1>2. a \in Agents /\ agents \in [Agents -> AgentRecords] /\ w \in AgentRecords
  <2>1. fleet.turns[t].phase \in Sharded
    BY Fields DEF Usage, Sharded, InFlightPhases
  <2>2. a \in Agents
    BY <2>1, Fields, TurnIsTyped DEF Orderly, Sound
  <2>3. agents \in [Agents -> AgentRecords]
    BY Fields, PlacedIsTyped DEF Orderly, Sound
  <2> QED BY <2>2, <2>3
<1>3. /\ IsFleet(f) /\ f.agents = [fleet.agents EXCEPT ![a] = y] /\ f.turns = fleet.turns
      /\ f.shards = fleet.shards /\ f.queue = fleet.queue /\ f.active = fleet.active
      /\ f.exceeded = fleet.exceeded /\ f.recoveries = fleet.recoveries
  BY <1>2, Zenon DEF fleet, IsFleet
<1>4. Sound(f, k)
  BY UsageCosts DEF Orderly
<1> HIDE DEF f, w
<1>5. y.known = w.known /\ y.shard = w.shard /\ y.status = w.status
  BY <1>2 DEF AgentRecords
<1> HIDE DEF y
<1>6. SameAgents(fleet, f) /\ KeepsSeats(fleet, f)
  BY <1>2, <1>3, <1>5, Fields DEF SameAgents, KeepsSeats, w
<1> HIDE DEF a
<1>7. Orderly(f, k) /\ Still(fleet, f)
  BY <1>3, <1>4, <1>6, AsideRests DEF Still
<1>8. Served(fleet, f, k)
  BY <1>7, StillServes
<1> QED BY <1>1, <1>8, TripServes, ServesBecomes
-----------------------------------------------------------------------------
(* Calls, shards and recoveries serve the queue.                            *)
LEMMA RunServes ==
    ASSUME NEW k, Orderly(fleet, k), NEW t \in Turns, NEW a \in Agents, NEW p \in Priorities, Run(t, a, p)
    PROVE  Served(fleet, fleet', k)
<1> DEFINE f == Refused(fleet, t, a, p)
           g == Pushed(fleet, t, a, p)
           z == [NewTurn(a) EXCEPT !.phase = "refused", !.prio = p]
<1>1. /\ fleet.turns[t].phase = "new" /\ NextCall(fleet, t) /\ fleet.agents[a].known = "yes"
      /\ Becomes(f) \/ (~fleet.exceeded /\ \E c \in Calls(0) : Becomes(DrainHeard(g, c)))
  BY Fields DEF Run, Refuses, NextCall, Registered
<1>2. Lined(fleet, k) /\ Sound(fleet, k)
  BY OrderlyIsLined DEF Orderly
<1>3. /\ Lined(f, k) /\ \A u \in Turns : u # t => f.turns[u] = fleet.turns[u]
      /\ f.turns[t].phase = "refused"
      /\ ~fleet.exceeded => /\ Lined(g, k) /\ g.turns[t].phase = "queued"
                            /\ \A u \in Turns : u # t => g.turns[u] = fleet.turns[u]
  BY <1>1, <1>2, CallLined
<1>4. Sound(f, k) /\ (~fleet.exceeded => Sound(g, k))
  <2>1. Grows(fleet, f, k) /\ (~fleet.exceeded => Grows(fleet, g, k))
    BY <1>1, <1>2, RefusedHoused DEF Sound, Placed
  <2> QED BY <1>2, <2>1, GrowsSound
<1>5. /\ f.agents = fleet.agents /\ f.shards = fleet.shards /\ f.queue = fleet.queue
      /\ f.exceeded = fleet.exceeded /\ f.active = fleet.active
  BY DEF Refused, fleet
<1> HIDE DEF f, g
<1>6. Orderly(f, k) /\ (~fleet.exceeded => Orderly(g, k))
  BY <1>3, <1>4 DEF Orderly, Lined
<1>7. CASE Becomes(f)
  <2>1. Still(fleet, f)
    <3>1. KeepsSeats(fleet, f) /\ KeepsChances(fleet, f)
      BY <1>5, SeatsKeepChances DEF KeepsSeats
    <3>2. Tends(fleet, f)
      BY <1>3 DEF Tends
    <3> QED BY <1>5, <3>1, <3>2 DEF Still
  <2> QED BY <1>6, <1>7, <2>1, StillServes, ServesBecomes
<1>8. CASE ~fleet.exceeded /\ \E c \in Calls(0) : Becomes(DrainHeard(g, c))
  <2>1. PICK c \in Calls(0) : Becomes(DrainHeard(g, c))
    BY <1>8
  <2>2. Heard(c)
    BY CallsHeard
  <2>3. Unstarted(fleet, g)
    BY <1>3, <1>8 DEF Unstarted
  <2>4. Served(fleet, DrainHeard(g, c), k)
    BY <1>6, <1>8, <2>2, <2>3, DrainServes
  <2> QED BY <2>1, <2>4, ServesBecomes
<1> QED BY <1>1, <1>7, <1>8

LEMMA RuntimeRests ==
    ASSUME NEW k, Orderly(fleet, k), NEW s \in Shards, NEW z \in ShardRecords, NEW f,
           f = [fleet EXCEPT !.shards[s] = z], z.backend = shards[s].backend,
           z.tracked = shards[s].tracked, z.members = shards[s].members, z.mapped = shards[s].mapped
    PROVE  Orderly(f, k) /\ Still(fleet, f)
<1>1. /\ f.shards = [fleet.shards EXCEPT ![s] = z] /\ f.turns = fleet.turns
      /\ f.agents = fleet.agents /\ f.queue = fleet.queue /\ f.active = fleet.active
      /\ f.exceeded = fleet.exceeded /\ f.recoveries = fleet.recoveries
  BY DEF fleet
<1>2. Sound(f, k)
  BY RuntimeSound DEF Orderly
<1>3. fleet.shards \in [Shards -> ShardRecords]
  BY PlacedIsTyped DEF Orderly, Sound
<1>4. KeepsSeats(fleet, f) /\ SameAgents(fleet, f)
  BY <1>1, <1>3, Fields DEF KeepsSeats, SameAgents
<1> QED BY <1>1, <1>2, <1>4, AsideRests, Zenon DEF Still

LEMMA ShardStepServes ==
    ASSUME NEW k, Orderly(fleet, k), NEW s \in Shards,
           ShardStartUp(s) \/ StartFails(s) \/ CloseShard(s)
    PROVE  Served(fleet, fleet', k)
<1> DEFINE x == shards[s]
           empty == [q \in Sessions |-> "none"]
<1>1. x \in ShardRecords
  BY ShardIsTyped DEF Orderly
<1>2. ASSUME NEW f, Orderly(f, k), Still(fleet, f), Becomes(Rejected(f, s)) PROVE Served(fleet, fleet', k)
  <2>1. Orderly(Rejected(f, s), k) /\ Still(f, Rejected(f, s))
    BY <1>2, RejectedRests
  <2>2. Still(fleet, Rejected(f, s))
    BY <1>2, <2>1, StillOn
  <2> QED BY <1>2, <2>1, <2>2, StillServes, ServesBecomes
<1>3. CASE ShardStartUp(s)
  <2> DEFINE z == [x EXCEPT !.proc = "up"]
             f == [fleet EXCEPT !.shards[s] = z]
  <2>1. fleet' = f
    BY <1>3 DEF ShardStartUp, fleet
  <2> HIDE DEF x
  <2>2. /\ z \in ShardRecords /\ z.backend = x.backend /\ z.tracked = x.tracked
        /\ z.members = x.members /\ z.mapped = x.mapped
    BY <1>1 DEF ShardRecords
  <2> HIDE DEF z
  <2>3. Orderly(f, k) /\ Still(fleet, f)
    BY <2>2, RuntimeRests DEF x
  <2> QED BY <2>1, <2>3, StillServes
<1>4. CASE StartFails(s)
  <2> DEFINE z == [x EXCEPT !.proc = "idle"]
             f == [fleet EXCEPT !.shards[s].proc = "idle"]
  <2>1. f = [fleet EXCEPT !.shards[s] = z] /\ Becomes(Rejected(f, s))
    BY <1>4 DEF StartFails, fleet
  <2> HIDE DEF x, f
  <2>2. /\ z \in ShardRecords /\ z.backend = x.backend /\ z.tracked = x.tracked
        /\ z.members = x.members /\ z.mapped = x.mapped
    BY <1>1 DEF ShardRecords
  <2> HIDE DEF z
  <2>3. Orderly(f, k) /\ Still(fleet, f)
    BY <2>1, <2>2, RuntimeRests DEF x
  <2> QED BY <1>2, <2>1, <2>3
<1>5. CASE CloseShard(s)
  <2> DEFINE z == [x EXCEPT !.proc = "idle", !.sess = empty]
             f == [fleet EXCEPT !.shards[s].proc = "idle", !.shards[s].sess = empty]
  <2>1. f = [fleet EXCEPT !.shards[s] = z] /\ Becomes(Rejected(f, s))
    BY <1>5, Zenon DEF CloseShard, fleet
  <2> HIDE DEF x, f
  <2>2. /\ z \in ShardRecords /\ z.backend = x.backend /\ z.tracked = x.tracked
        /\ z.members = x.members /\ z.mapped = x.mapped
    BY <1>1, Zenon DEF ShardRecords
  <2> HIDE DEF z
  <2>3. Orderly(f, k) /\ Still(fleet, f)
    BY <2>1, <2>2, RuntimeRests DEF x
  <2> QED BY <1>2, <2>1, <2>3
<1> QED BY <1>3, <1>4, <1>5

LEMMA RecoveryStepServes ==
    ASSUME NEW k, Orderly(fleet, k), NEW r \in recoveries, RecoveryStep(r)
    PROVE  Served(fleet, fleet', k)
<1> DEFINE a == r.agent
           s == r.shard
           w == agents[a]
           x == shards[s]
<1>1. /\ r \in Recoveries /\ a \in Agents /\ s \in Shards /\ r.session \in Sessions
      /\ w \in AgentRecords /\ x \in ShardRecords
      /\ agents \in [Agents -> AgentRecords] /\ shards \in [Shards -> ShardRecords]
      /\ fleet.recoveries = recoveries /\ fleet.agents = agents /\ fleet.shards = shards
      /\ recoveries \subseteq Recoveries
  <2>1. /\ r \in Recoveries /\ r.agent \in Agents /\ r.shard \in Shards /\ r.session \in Sessions
        /\ recoveries \subseteq Recoveries
    BY Fields, PlacedIsTyped DEF Orderly, Sound, Recoveries
  <2>2. agents \in [Agents -> AgentRecords] /\ shards \in [Shards -> ShardRecords]
    BY Fields, PlacedIsTyped DEF Orderly, Sound
  <2> QED BY <2>1, <2>2, Fields
<1>2. Sound(fleet', k)
  BY RecoveryStepSound DEF Orderly
<1>3. AtHome(fleet) /\ Marked(fleet) /\ Single(fleet) /\ Asked(fleet) /\ InOrder(fleet)
  BY DEF Orderly, Steady
<1>4. CASE RecoveryResumes(r)
  <2> DEFINE y == w.session
             q == [r EXCEPT !.phase = "resuming", !.session = y]
             z == [x EXCEPT !.mapped = @ \union {y}]
             f == [fleet EXCEPT !.recoveries = (@ \ {r}) \union {q}, !.shards[s].mapped = @ \union {y}]
  <2>1. Becomes(f) /\ r.phase = "starting"
    BY <1>4 DEF RecoveryResumes
  <2>2. /\ IsFleet(f) /\ f.turns = fleet.turns /\ f.queue = fleet.queue /\ f.active = fleet.active
        /\ f.exceeded = fleet.exceeded /\ f.agents = fleet.agents
        /\ f.shards = [fleet.shards EXCEPT ![s] = z]
        /\ f.recoveries = (fleet.recoveries \ {r}) \union {q}
    BY <1>1, Zenon DEF fleet, IsFleet
  <2>3. q.agent = a /\ q.shard = s /\ q.phase = "resuming"
    BY <1>1 DEF Recoveries
  <2>4. fleet' = f
    BY <2>1, <2>2, FleetBecomes
  <2> HIDE DEF f, w, x, q
  <2>5. z.backend = x.backend /\ z.tracked = x.tracked /\ z.members = x.members
    BY <1>1 DEF ShardRecords
  <2> HIDE DEF z
  <2>6. KeepsSeats(fleet, f)
    BY <1>1, <2>2, <2>5 DEF KeepsSeats, x
  <2>7. Single(f)
    <3> SUFFICES ASSUME NEW u \in f.recoveries, NEW v \in f.recoveries, u.agent = v.agent,
                        fleet.agents[u.agent].known # "gone", u.phase # "failing", v.phase # "failing"
                 PROVE  u = v
      BY <2>2 DEF Single
    <3>1. CASE u # q /\ v # q
      BY <1>3, <2>2, <3>1 DEF Single
    <3>2. ASSUME NEW o \in fleet.recoveries \ {r}, o.agent = a, o.phase # "failing",
                 fleet.agents[a].known # "gone"
          PROVE  FALSE
      BY <1>1, <1>3, <2>1, <3>2 DEF Single
    <3> QED BY <2>2, <2>3, <3>1, <3>2
  <2>8. \A u \in f.recoveries : \E v \in fleet.recoveries :
            v.agent = u.agent /\ (u.phase # "failing" => v.phase # "failing" /\ v.shard = u.shard)
    <3> SUFFICES ASSUME NEW u \in f.recoveries
                 PROVE  \E v \in fleet.recoveries :
                            v.agent = u.agent /\ (u.phase # "failing" => v.phase # "failing" /\ v.shard = u.shard)
      OBVIOUS
    <3>1. CASE u = q
      BY <1>1, <2>1, <2>3, <3>1
    <3>2. CASE u # q
      BY <2>2, <3>2
    <3> QED BY <3>1, <3>2
  <2>9. Calm(fleet, f)
    BY <2>2, <2>7, <2>8 DEF Calm
  <2>10. Orderly(f, k)
    BY <1>2, <2>4, <2>9, CalmOrderly
  <2>11. Still(fleet, f)
    <3>1. KeepsChances(fleet, f)
      BY <2>2, <2>6, SeatsKeepChances
    <3> QED BY <2>2, <3>1 DEF Still, Tends
  <2> QED BY <2>4, <2>10, <2>11, StillServes
<1>5. CASE RecoverySucceeds(r)
  <2> DEFINE f == Recovered(r)
             y == f.agents[a]
  <2>1. /\ \E c \in Calls(0) : Becomes(DrainHeard(f, c))
        /\ r.session # 0 /\ r.phase = "resuming"
        /\ \A p \in recoveries : p.phase # "failing"
    BY <1>5 DEF RecoverySucceeds, Recovered, Quiet, RecoveryDue
  <2>2. Sound(f, k)
    BY <2>1, RecoveredSound DEF Orderly
  <2>3. /\ f.turns = fleet.turns /\ f.queue = fleet.queue /\ f.recoveries = fleet.recoveries \ {r}
        /\ \A c \in Agents : c # a => f.agents[c] = fleet.agents[c]
        /\ y.known = w.known /\ y.shard = w.shard
        /\ y.status = IF w.known = "yes" THEN "ready" ELSE w.status
    <3>1. w \in [known : {w.known}, status : {w.status}, shard : {w.shard}, session : {w.session}, cost : {w.cost}]
      BY <1>1 DEF AgentRecords
    <3>2. Registered(fleet, a) <=> w.known = "yes"
      BY <1>1 DEF Registered
    <3> DEFINE v == Registered(fleet, a)
               e == [w EXCEPT !.session = r.session, !.status = IF v THEN "ready" ELSE @]
    <3>3. f = [fleet EXCEPT !.recoveries = @ \ {r},
                            !.shards[s].sess[r.session] = "stopped",
                            !.shards[s].mapped = @ \union {r.session},
                            !.agents[a].session = r.session,
                            !.agents[a].status = IF v THEN "ready" ELSE @]
      BY DEF Recovered
    <3>4. e = [w EXCEPT !.session = r.session, !.status = IF v THEN "ready" ELSE @]
      OBVIOUS
    <3> HIDE DEF f, e, v
    <3>5. f.agents = [agents EXCEPT ![a] = e]
      BY <1>1, <3>1, <3>3, <3>4, Zenon DEF fleet
    <3>6. f.turns = fleet.turns /\ f.queue = fleet.queue /\ f.recoveries = fleet.recoveries \ {r}
      BY <3>3 DEF fleet
    <3> HIDE DEF w
    <3>7. e.known = w.known /\ e.shard = w.shard /\ e.status = IF v THEN "ready" ELSE w.status
      BY <3>1, <3>4
    <3>8. f.agents[a] = e /\ \A c \in Agents : c # a => f.agents[c] = fleet.agents[c]
      BY <1>1, <3>5
    <3> QED BY <3>2, <3>6, <3>7, <3>8 DEF v
  <2> HIDE DEF f
  <2>4. ASSUME NEW c \in Agents
        PROVE  /\ f.agents[c].known = fleet.agents[c].known /\ f.agents[c].shard = fleet.agents[c].shard
               /\ f.agents[c].status \in {fleet.agents[c].status, "ready"}
               /\ c # a \/ w.known # "yes" => f.agents[c].status = fleet.agents[c].status
    BY <1>1, <2>3
  <2>5. \A t \in Turns : fleet.turns[t].phase # "new" => fleet.turns[t].agent \in Agents
    BY DEF Orderly, Sound, Placed, Housed, Names
  <2>6. AtHome(f)
    <3> SUFFICES ASSUME NEW t \in Turns, fleet.turns[t].phase \in Waiting,
                        f.agents[fleet.turns[t].agent].known # "gone"
                 PROVE  /\ f.agents[fleet.turns[t].agent].shard = fleet.turns[t].shard
                        /\ f.agents[fleet.turns[t].agent].status \notin {"lost", "recovering"}
      BY <2>3 DEF AtHome, HomeOf
    <3>1. fleet.turns[t].agent \in Agents
      BY <2>5 DEF Waiting
    <3> QED BY <1>3, <2>4, <3>1 DEF AtHome, HomeOf
  <2>7. Marked(f)
    <3> SUFFICES ASSUME NEW p \in f.recoveries, f.agents[p.agent].known # "gone"
                 PROVE  /\ f.agents[p.agent].status \in {"lost", "recovering"}
                        /\ p.phase # "failing" => f.agents[p.agent].shard = p.shard
      BY DEF Marked
    <3>1. p \in fleet.recoveries /\ p # r /\ p.phase # "failing" /\ p.agent \in Agents
      BY <1>1, <2>1, <2>3 DEF Recoveries
    <3>2. fleet.agents[p.agent].known # "gone"
      BY <2>4, <3>1
    <3>3. p.agent # a
      BY <1>1, <1>3, <2>1, <3>1, <3>2 DEF Single
    <3>4. /\ fleet.agents[p.agent].status \in {"lost", "recovering"}
          /\ p.phase # "failing" => fleet.agents[p.agent].shard = p.shard
      BY <1>3, <3>1, <3>2 DEF Marked
    <3> QED BY <2>4, <3>1, <3>3, <3>4
  <2>8. Single(f)
    <3>1. \A c \in Agents : f.agents[c].known # "gone" => fleet.agents[c].known # "gone"
      BY <2>4
    <3> QED BY <2>3, <3>1, FewerSingle
  <2>9. Asked(f) /\ InOrder(f)
    <3>1. \A t \in Turns : fleet.turns[t].phase = "queued" => fleet.turns[t].agent \in Agents
      BY <2>5
    <3> QED BY <1>3, <2>3, <2>4, <3>1 DEF Asked, InOrder
  <2>10. Orderly(f, k)
    BY <2>2, <2>6, <2>7, <2>8, <2>9 DEF Orderly, Steady
  <2>11. Unstarted(fleet, f)
    BY <2>3 DEF Unstarted
  <2>12. PICK c \in Calls(0) : Becomes(DrainHeard(f, c))
    BY <2>1
  <2>13. Served(fleet, DrainHeard(f, c), k)
    <3>1. Heard(c)
      BY CallsHeard
    <3> QED BY <2>10, <2>11, <3>1, DrainServes
  <2> QED BY <2>12, <2>13, ServesBecomes
<1>6. CASE RecoveryFails(r)
  <2> DEFINE y == [w EXCEPT !.status = IF Registered(fleet, a) THEN "lost" ELSE @]
             f == [fleet EXCEPT !.recoveries = @ \ {r},
                                !.agents[a].status = IF Registered(fleet, a) THEN "lost" ELSE @]
  <2>1. Becomes(f)
    BY <1>6 DEF RecoveryFails
  <2>2. /\ IsFleet(f) /\ f.turns = fleet.turns /\ f.queue = fleet.queue /\ f.active = fleet.active
        /\ f.exceeded = fleet.exceeded /\ f.agents = [fleet.agents EXCEPT ![a] = y]
        /\ f.shards = fleet.shards /\ f.recoveries = fleet.recoveries \ {r}
    BY <1>1, Zenon DEF fleet, IsFleet
  <2>3. Registered(fleet, a) <=> w.known = "yes"
    BY Fields DEF Registered
  <2>4. fleet' = f
    BY <2>1, <2>2, FleetBecomes
  <2>5. w.known = "yes" => w.status \in {"lost", "recovering"}
    BY <1>1, <1>3 DEF Marked
  <2> HIDE DEF f, w
  <2>6. /\ y.known = w.known /\ y.shard = w.shard
        /\ y.status = IF w.known = "yes" THEN "lost" ELSE w.status
    BY <1>1, <2>3 DEF AgentRecords
  <2> HIDE DEF y
  <2>7. SameAgents(fleet, f) /\ KeepsSeats(fleet, f)
    BY <1>1, <2>2, <2>5, <2>6 DEF SameAgents, KeepsSeats, w
  <2>8. Orderly(f, k) /\ Still(fleet, f)
    BY <1>2, <2>2, <2>4, <2>7, AsideRests DEF Still
  <2> QED BY <2>4, <2>8, StillServes
<1> QED BY <1>4, <1>5, <1>6 DEF RecoveryStep
-----------------------------------------------------------------------------
(* Calls about an agent serve the queue.                                    *)
LEMMA RequestServes ==
    ASSUME NEW k, Orderly(fleet, k), NEW a \in Agents, RequestAgent(a)
    PROVE  Served(fleet, fleet', k)
<1> DEFINE f == fleet
           g == fleet'
           w == agents[a]
           y == [w EXCEPT !.known = "yes"]
<1>1. /\ g.turns = f.turns /\ g.queue = f.queue /\ g.active = f.active /\ g.shards = f.shards
      /\ g.exceeded = f.exceeded /\ g.recoveries = f.recoveries
      /\ g.agents = [agents EXCEPT ![a].known = "yes"]
      /\ f.agents = agents /\ w.known = "no"
  BY DEF RequestAgent, fleet
<1>2. agents \in [Agents -> AgentRecords]
  BY Fields, PlacedIsTyped DEF Orderly, Sound
<1>3. g.agents = [agents EXCEPT ![a] = y] /\ w \in AgentRecords
  BY <1>1, <1>2
<1> HIDE DEF w
<1>4. y.known = "yes" /\ y.shard = w.shard /\ y.status = w.status
  BY <1>3 DEF AgentRecords
<1> HIDE DEF y
<1>5. Sound(g, k)
  BY RequestSound DEF Orderly
<1>6. /\ AtHome(f) /\ Marked(f) /\ Single(f) /\ Asked(f) /\ InOrder(f)
      /\ \A t \in Turns : f.turns[t].phase # "new" => f.turns[t].agent \in Agents
      /\ \A i \in 1..Len(f.queue) : f.queue[i] \in Turns /\ f.turns[f.queue[i]].phase = "queued"
      /\ f.recoveries \subseteq Recoveries
  BY PlacedIsTyped DEF Orderly, Steady, Sound, Placed, Housed, Names, Ledger, QueueIsExact
<1> HIDE DEF f, g
<1>7. ASSUME NEW c \in Agents
      PROVE  /\ g.agents[c].shard = f.agents[c].shard /\ g.agents[c].status = f.agents[c].status
             /\ g.agents[c].known = "gone" <=> f.agents[c].known = "gone"
             /\ f.agents[c].known # "no" => g.agents[c].known = f.agents[c].known
  BY <1>1, <1>2, <1>3, <1>4 DEF w
<1>8. AtHome(g)
  BY <1>1, <1>6, <1>7 DEF AtHome, HomeOf, Waiting
<1>9. Marked(g) /\ Single(g)
  <2>1. \A r \in f.recoveries : r.agent \in Agents
    BY <1>6 DEF Recoveries
  <2> QED BY <1>1, <1>6, <1>7, <2>1 DEF Marked, Single
<1>10. Asked(g) /\ InOrder(g)
  BY <1>1, <1>6, <1>7 DEF Asked, InOrder
<1>11. Orderly(g, k)
  BY <1>5, <1>8, <1>9, <1>10 DEF Orderly, Steady
<1>12. ASSUME NEW t \in Turns, f.turns[t].phase = "queued", Admissible(g, t) PROVE Admissible(f, t)
  <2> DEFINE c == f.turns[t].agent
  <2>1. c \in Agents /\ f.agents[c].known # "no"
    BY <1>6, <1>12 DEF Asked
  <2>2. CanAssign(g, c) <=> CanAssign(f, c)
    <3>1. \A b : ShardList(g, b) = ShardList(f, b) /\ WithRoom(g, b) = WithRoom(f, b)
      BY <1>1 DEF ShardList, WithRoom
    <3> QED BY <1>7, <2>1, <3>1 DEF CanAssign
  <2> QED BY <1>1, <1>7, <1>12, <2>1, <2>2 DEF Admissible, Registered
<1>13. Idle(f) => Idle(g)
  <2>1. Full(g) <=> Full(f)
    BY <1>1 DEF Full
  <2>2. ASSUME Idle(f), ~Full(f), NEW i \in 1..Len(f.queue) PROVE ~Admissible(g, f.queue[i])
    BY <1>6, <1>12, <2>2 DEF Idle
  <2> QED BY <1>1, <2>1, <2>2 DEF Idle
<1>14. Fair(f, g)
  BY <1>1 DEF Fair
<1> QED BY <1>11, <1>13, <1>14 DEF Served, f, g

LEMMA ForgetServes ==
    ASSUME NEW e, NEW f, NEW k, Orderly(f, k), f.turns = e.turns, NEW a \in Agents, NEW s \in Shards \union {0},
           NEW c, Heard(c)
    PROVE  Served(e, Forget(f, a, s, c), k)
<1> DEFINE h == Forgotten(f, a, s)
<1>1. Forget(f, a, s, c) = DrainHeard(h, c)
  BY DEF Forget, Forgotten
<1>2. /\ Sound(h, k) /\ h.agents[a].known = "gone"
      /\ h.turns = f.turns /\ h.queue = f.queue /\ h.recoveries = f.recoveries
      /\ \A o \in Agents : o # a => h.agents[o] = f.agents[o]
  BY ForgottenSound DEF Orderly
<1>3. /\ AtHome(f) /\ Marked(f) /\ Single(f) /\ Asked(f) /\ InOrder(f)
      /\ \A t \in Turns : f.turns[t].phase # "new" => f.turns[t].agent \in Agents
      /\ \A r \in f.recoveries : r.agent \in Agents
  BY PlacedIsTyped DEF Orderly, Steady, Sound, Placed, Housed, Names, Recoveries
<1> HIDE DEF h
<1>4. AtHome(h)
  BY <1>2, <1>3 DEF AtHome, HomeOf, Waiting
<1>5. Marked(h) /\ Single(h)
  BY <1>2, <1>3 DEF Marked, Single
<1>6. Asked(h) /\ InOrder(h)
  BY <1>2, <1>3 DEF Asked, InOrder
<1>7. Orderly(h, k)
  BY <1>2, <1>4, <1>5, <1>6 DEF Orderly, Steady
<1>8. Unstarted(e, h)
  BY <1>2 DEF Unstarted
<1> QED BY <1>1, <1>7, <1>8, DrainServes

LEMMA AgentStepServes ==
    ASSUME NEW k, Orderly(fleet, k), Pending, NEW a \in Agents,
           RequestAgent(a) \/ RetireBegins(a) \/ RetireStep(a) \/ Quiesce(a)
    PROVE  Served(fleet, fleet', k)
<1> DEFINE States == {"none", "open", "stopped"}
<1>1. agents \in [Agents -> AgentRecords] /\ shards \in [Shards -> ShardRecords]
  BY Fields, PlacedIsTyped DEF Orderly, Sound
<1>2. /\ agents[a].session \in Sessions /\ agents[a].shard \in Shards \union {0}
      /\ 0 \in Sessions /\ 0 \notin Shards
  BY <1>1, LimitsAssumption, ShardsFinite DEF AgentRecords, Sessions
<1>3. /\ retiring[a].session \in Sessions
      /\ retiring[a].phase # "no" => retiring[a].shard \in Shards
  BY DEF Pending
<1>4. ASSUME UNCHANGED fleetVars PROVE Served(fleet, fleet', k)
  <2>1. fleet' = fleet
    BY <1>4 DEF fleetVars, fleet
  <2> QED BY <2>1, SameIsStill, StillServes
<1>5. ASSUME NEW s \in Shards, NEW e \in [Sessions -> States],
             fleet' = [fleet EXCEPT !.shards[s] = [shards[s] EXCEPT !.sess = e]]
      PROVE  Served(fleet, fleet', k)
  <2> DEFINE x == shards[s]
             z == [x EXCEPT !.sess = e]
             f == [fleet EXCEPT !.shards[s] = z]
  <2>1. x \in ShardRecords
    BY <1>1
  <2> HIDE DEF x
  <2>2. /\ z \in ShardRecords /\ z.backend = x.backend /\ z.tracked = x.tracked
        /\ z.members = x.members /\ z.mapped = x.mapped
    BY <2>1 DEF ShardRecords
  <2>3. fleet' = f
    BY <1>5 DEF x
  <2> HIDE DEF z
  <2>4. Orderly(f, k) /\ Still(fleet, f)
    BY <2>2, RuntimeRests DEF x
  <2> QED BY <2>3, <2>4, StillServes
<1>6. CASE RequestAgent(a)
  BY <1>6, RequestServes
<1>7. CASE RetireBegins(a)
  <2> DEFINE s == agents[a].shard
  <2>1. \/ UNCHANGED fleetVars
        \/ \E c \in Calls(1) : Becomes(Forget(fleet, a, s, c)) \/ Becomes(Forget(fleet, a, 0, c))
    BY <1>7 DEF RetireBegins
  <2>2. ASSUME NEW c \in Calls(1), Becomes(Forget(fleet, a, s, c)) \/ Becomes(Forget(fleet, a, 0, c))
        PROVE  Served(fleet, fleet', k)
    <3>1. Heard(c)
      BY CallsHeard
    <3>2. Served(fleet, Forget(fleet, a, s, c), k) /\ Served(fleet, Forget(fleet, a, 0, c), k)
      BY <1>2, <3>1, ForgetServes
    <3> HIDE DEF s
    <3> QED BY <2>2, <3>2, ServesBecomes
  <2> QED BY <1>4, <2>1, <2>2
<1>8. CASE RetireQuiesced(a)
  <2> DEFINE s == retiring[a].shard
             x == shards[s]
             y == agents[a].session
  <2>1. /\ retiring[a].phase # "no"
        /\ UNCHANGED <<agents, turns, queue, activeTurns, exceeded, recoveries>>
    BY <1>8, Zenon DEF RetireQuiesced
  <2>2. s \in Shards /\ x \in ShardRecords /\ x.sess \in [Sessions -> States]
    BY <1>1, <1>3, <2>1 DEF ShardRecords
  <2>3. \E e \in [Sessions -> States] : shards' = [shards EXCEPT ![s].sess = e]
    <3> DEFINE codex == shards[s].backend = "codex"
               sess == [x.sess EXCEPT ![retiring[a].session] = IF @ = "none" THEN @ ELSE "stopped"]
               refused == sess[y] # "none" /\ (Busy(s, y) \/ (codex /\ sess[y] = "open"))
               e == [sess EXCEPT ![y] = IF codex /\ ~refused THEN "none" ELSE @]
    <3>1. shards' = [shards EXCEPT ![s].sess = e]
      BY <1>8, Zenon DEF RetireQuiesced
    <3>2. sess \in [Sessions -> States]
      BY <1>3, <2>2
    <3> HIDE DEF sess, codex
    <3>3. e \in [Sessions -> States]
      <4> HIDE DEF refused
      <4> QED BY <1>2, <3>2
    <3> QED BY <3>1, <3>3, Zenon
  <2>4. PICK e \in [Sessions -> States] : shards' = [shards EXCEPT ![s].sess = e]
    BY <2>3, Zenon
  <2>5. fleet' = [fleet EXCEPT !.shards[s] = [shards[s] EXCEPT !.sess = e]]
    BY <2>1, <2>4 DEF fleet
  <2> QED BY <1>5, <2>2, <2>5, Zenon
<1>9. CASE RetireFails(a)
  BY <1>4, <1>9 DEF RetireFails
<1>10. CASE Released(a)
  <2> DEFINE s == retiring[a].shard
             y == retiring[a].session
             v == IF shards[s].backend = "codex" THEN shards[s].sess[y] ELSE "none"
             f == [fleet EXCEPT !.shards[s].sess[y] = IF shards[s].backend = "codex" THEN @ ELSE "none"]
  <2>0. PICK c \in Calls(1) : Becomes(Forget(f, a, s, c))
    BY <1>10 DEF Released
  <2>1. retiring[a].phase # "no" /\ Becomes(Forget(f, a, s, c))
    BY <1>10, <2>0 DEF Released
  <2>2. s \in Shards /\ v \in States
    BY <1>1, <1>3, <2>1 DEF ShardRecords
  <2>3. f = [fleet EXCEPT !.shards[s].sess[y] = v]
    BY DEF fleet
  <2> HIDE DEF f, v, s, y
  <2>4. Orderly(f, k) /\ f.turns = fleet.turns
    <3> DEFINE g == [fleet EXCEPT !.shards[s].sess[y] = v]
    <3>1. Orderly(g, k) /\ g.turns = fleet.turns
      <4>1. s \in Shards /\ v \in {"none", "open", "stopped"}
        BY <2>2
      <4>2. Orderly(g, k)
        BY <4>1, SessRests, Zenon
      <4>3. g.turns = fleet.turns
        BY DEF fleet
      <4> QED BY <4>2, <4>3
    <3> HIDE DEF g
    <3> QED BY <2>3, <3>1 DEF g
  <2>5. Served(fleet, Forget(f, a, s, c), k)
    <3>1. Heard(c)
      BY CallsHeard
    <3> QED BY <2>2, <2>4, <3>1, ForgetServes
  <2> QED BY <2>1, <2>5, ServesBecomes, Zenon
<1>11. CASE Quiesce(a)
  <2> DEFINE s == agents[a].shard
             e == [shards[s].sess EXCEPT ![agents[a].session] = "stopped"]
  <2>1. s \in Shards /\ fleet' = [fleet EXCEPT !.shards[s] = [shards[s] EXCEPT !.sess = e]]
    BY <1>2, <1>11 DEF Quiesce, fleet
  <2>2. e \in [Sessions -> States]
    <3>1. shards[s].sess \in [Sessions -> States]
      BY <1>1, <2>1 DEF ShardRecords
    <3> QED BY <1>2, <3>1
  <2> HIDE DEF e
  <2> QED BY <1>5, <2>1, <2>2
<1> QED BY <1>6, <1>7, <1>8, <1>9, <1>10, <1>11 DEF RetireStep
-----------------------------------------------------------------------------
(* The death of a shard serves the queue. Nothing of a member that has not  *)
(* been visited yet waits any more, for it waited for the dead shard, and   *)
(* who is admitted meanwhile waits for one in use.                          *)
Free(f, a) ==
    /\ \A t \in Turns : f.turns[t].phase \in Waiting => f.turns[t].agent # a
    /\ \A r \in f.recoveries : r.phase # "failing" => r.agent # a
Grave(f, s) ==
    /\ s \in Dead(f) /\ f.shards[s].members = <<>> /\ Quit(f, s)
    /\ \A r \in f.recoveries : r.phase # "failing" => r.shard # s

LEMMA GraveFills ==
    ASSUME NEW f, NEW g, NEW s, Grave(f, s), Admits(f, g)
    PROVE  Grave(g, s)
BY DEF Grave, Admits, Fills, Spares

LEMMA GraveFrees ==
    ASSUME NEW f, NEW s, Grave(f, s), Steady(f), NEW a, f.agents[a].known = "yes", f.agents[a].shard = s
    PROVE  Free(f, a)
<1>1. ASSUME NEW t \in Turns, f.turns[t].phase \in Waiting, f.turns[t].agent = a PROVE FALSE
  BY <1>1 DEF Grave, Quit, Steady, AtHome, HomeOf
<1>2. ASSUME NEW r \in f.recoveries, r.phase # "failing", r.agent = a PROVE FALSE
  BY <1>2 DEF Grave, Steady, Marked
<1> QED BY <1>1, <1>2 DEF Free

(* One agent, of which nothing waits, is lost or recovers.                  *)
Alone(f, g, a) ==
    /\ \A c \in Agents : /\ c # a => /\ g.agents[c] = f.agents[c]
                                     /\ CanAssign(g, c) => CanAssign(f, c)
                         /\ g.agents[c].known = f.agents[c].known
    /\ g.agents[a].status \in {"lost", "recovering"} /\ Relocates(f, g, a) /\ g.queue = f.queue

LEMMA AloneSteady ==
    ASSUME NEW f, NEW g, NEW k, Housed(f, k), Steady(f), NEW a \in Agents, Alone(f, g, a), Free(f, a)
    PROVE  Steady(g)
<1>1. /\ AtHome(f) /\ Marked(f) /\ Single(f) /\ Asked(f)
      /\ \A t \in Turns : f.turns[t].phase # "new" => f.turns[t].agent \in Agents
      /\ \A r \in f.recoveries : r.agent \in Agents
  BY HousedIsTyped DEF Steady, Housed, Names, Recoveries
<1>2. PICK q : q.agent = a /\ q.shard = g.agents[a].shard /\ g.recoveries \subseteq f.recoveries \union {q}
  BY DEF Alone, Relocates
<1>3. /\ g.turns = f.turns /\ g.agents[a].status \in {"lost", "recovering"}
      /\ \A c \in Agents : /\ c # a => g.agents[c] = f.agents[c]
                           /\ g.agents[c].known = f.agents[c].known
  BY DEF Alone, Relocates
<1>4. /\ \A t \in Turns : f.turns[t].phase \in Waiting => f.turns[t].agent # a
      /\ \A r \in f.recoveries : r.phase # "failing" => r.agent # a
  BY DEF Free
<1>5. AtHome(g)
  BY <1>1, <1>3, <1>4 DEF AtHome, HomeOf, Waiting
<1>6. Marked(g)
  <2> SUFFICES ASSUME NEW r \in g.recoveries, g.agents[r.agent].known # "gone"
               PROVE  /\ g.agents[r.agent].status \in {"lost", "recovering"}
                      /\ r.phase # "failing" => g.agents[r.agent].shard = r.shard
    BY DEF Marked
  <2>1. CASE r = q
    BY <1>2, <1>3, <2>1
  <2>2. CASE r # q
    <3>1. r \in f.recoveries /\ r.agent \in Agents /\ f.agents[r.agent].known # "gone"
      BY <1>1, <1>2, <1>3, <2>2
    <3>2. /\ f.agents[r.agent].status \in {"lost", "recovering"}
          /\ r.phase # "failing" => f.agents[r.agent].shard = r.shard
      BY <1>1, <3>1 DEF Marked
    <3> QED BY <1>3, <1>4, <3>1, <3>2
  <2> QED BY <2>1, <2>2
<1>7. Single(g)
  <2> SUFFICES ASSUME NEW r \in g.recoveries, NEW p \in g.recoveries, r.agent = p.agent,
                      g.agents[r.agent].known # "gone", r.phase # "failing", p.phase # "failing"
               PROVE  r = p
    BY DEF Single
  <2>1. CASE r.agent = a
    BY <1>2, <1>4, <2>1, Zenon
  <2>2. CASE r.agent # a
    <3>1. r \in f.recoveries /\ p \in f.recoveries
      BY <1>2, <2>2
    <3>2. f.agents[r.agent].known # "gone"
      BY <1>1, <1>3, <3>1
    <3> QED BY <1>1, <3>1, <3>2 DEF Single
  <2> QED BY <2>1, <2>2
<1>8. Asked(g)
  BY <1>1, <1>3 DEF Asked
<1> QED BY <1>5, <1>6, <1>7, <1>8 DEF Steady

LEMMA AlonePasses ==
    ASSUME NEW f, NEW g, NEW k, Housed(f, k), NEW a \in Agents, Alone(f, g, a)
    PROVE  Passing(f, g)
<1>1. g.turns = f.turns
  BY DEF Alone, Relocates
<1>2. SameCalls(f, g) /\ InTurn(f, g)
  BY <1>1 DEF SameCalls, MovesOn, InTurn
<1>3. Narrows(f, g)
  <2> SUFFICES ASSUME NEW u \in Turns, f.turns[u].phase = "queued", Admissible(g, u) PROVE Admissible(f, u)
    BY DEF Narrows, Waits
  <2> DEFINE c == f.turns[u].agent
  <2>1. c \in Agents
    BY DEF Housed, Names
  <2>2. c # a
    BY <1>1 DEF Admissible, Alone
  <2>3. g.agents[c] = f.agents[c] /\ (CanAssign(g, c) => CanAssign(f, c))
    BY <2>1, <2>2 DEF Alone
  <2> QED BY <1>1, <2>3, Zenon DEF Admissible, Registered
<1> QED BY <1>2, <1>3 DEF Passing

LEMMA AloneLined ==
    ASSUME NEW f, NEW g, NEW k, Lined(f, k), NEW s \in Shards, Grave(f, s), NEW a \in Agents, Alone(f, g, a),
           Free(f, a), Housed(g, k), Ledger(g), s \in Dead(g), g.shards[s].members = <<>>,
           \A r \in g.recoveries : r \notin f.recoveries => r.shard # s
    PROVE  Lined(g, k) /\ Grave(g, s) /\ Passing(f, g)
<1>1. g.turns = f.turns /\ g.queue = f.queue
  BY DEF Alone, Relocates
<1>2. Steady(g) /\ Passing(f, g)
  BY AloneSteady, AlonePasses DEF Lined
<1>3. InOrder(g)
  BY <1>1 DEF Lined, InOrder
<1>4. Grave(g, s)
  BY <1>1 DEF Grave, Quit
<1> QED BY <1>2, <1>3, <1>4 DEF Lined
LEMMA RecoverAgentView ==
    ASSUME NEW f, NEW k, Housed(f, k), Ledger(f), NEW a \in Agents, f.agents[a].known = "yes", f.agents[a].shard = 0
    PROVE  LET g == RecoverAgent(f, a)
           IN /\ g.queue = f.queue /\ Crowds(f, g) /\ Ledger(g)
              /\ \A r \in g.recoveries : r \notin f.recoveries => r.shard \notin Dead(f)
<1> DEFINE e == Acquire(f, a)
           s == e.agents[a].shard
           q == [agent |-> a, shard |-> s, phase |-> "starting", session |-> 0]
           h == [e EXCEPT !.recoveries = @ \union {q}]
           l == [f EXCEPT !.agents[a].status = "lost"]
           o == Start(h, s)
           g == RecoverAgent(f, a)
<1>1. IsFleet(f) /\ f.agents \in [Agents -> AgentRecords] /\ f.agents[a] \in AgentRecords
  BY HousedIsTyped
<1>2. Ledger(g)
  <2>1. FleetShape(f) /\ a \in Ids
    BY DEF Ledger, Shapes, Ids
  <2>2. FleetShape(g) /\ SameBooks(f, g)
    BY <2>1, RecoverAgentKeepsBooks
  <2> HIDE DEF g
  <2> QED BY <2>2, BooksKeepLedger
<1>3. CASE ~CanAssign(f, a)
  <2>1. g = l
    BY <1>3, Zenon DEF RecoverAgent
  <2>2. /\ l.queue = f.queue /\ l.shards = f.shards /\ l.recoveries = f.recoveries
        /\ l.agents = [f.agents EXCEPT ![a] = [@ EXCEPT !.status = "lost"]]
    BY <1>1, ZenonT(60) DEF IsFleet
  <2> HIDE DEF l, g
  <2>3. \A c \in Agents : l.agents[c].known = f.agents[c].known /\ l.agents[c].shard = f.agents[c].shard
    BY <1>1, <2>2 DEF AgentRecords
  <2>4. Crowds(f, l)
    <3>1. KeepsSeats(f, l)
      BY <2>2, <2>3 DEF KeepsSeats
    <3> QED BY <3>1, SameRoom DEF Crowds
  <2> QED BY <1>2, <2>1, <2>2, <2>4 DEF g
<1>4. CASE CanAssign(f, a)
  <2>1. Housed(e, k) /\ e.queue = f.queue /\ e.recoveries = f.recoveries /\ Crowds(f, e)
    BY <1>4, AcquireHoused, ZenonT(60)
  <2>2. s \in Shards /\ s \notin Dead(f)
    BY <1>4, AcquiredAlive
  <2>3. g = o
    BY <1>4, Zenon DEF RecoverAgent
  <2> HIDE DEF e
  <2>4. IsFleet(e) /\ e.shards \in [Shards -> ShardRecords]
    BY <2>1, HousedIsTyped
  <2> HIDE DEF s
  <2>5. q.shard = s
    OBVIOUS
  <2>6. /\ IsFleet(h) /\ h.queue = f.queue /\ h.agents = e.agents /\ h.shards = e.shards
        /\ h.recoveries = f.recoveries \union {q}
    BY <2>1, <2>4, Zenon DEF IsFleet
  <2> HIDE DEF h, q
  <2>7. /\ o.agents = h.agents /\ o.queue = h.queue /\ o.recoveries = h.recoveries
        /\ \E x \in ShardRecords :
              /\ o.shards = [h.shards EXCEPT ![s] = x]
              /\ x.backend = h.shards[s].backend /\ x.tracked = h.shards[s].tracked
              /\ x.members = h.shards[s].members /\ x.mapped = h.shards[s].mapped
    BY <2>2, <2>4, <2>6, StartEffect, ZenonT(60)
  <2> HIDE DEF o, g
  <2>8. Crowds(f, g)
    <3>1. KeepsSeats(e, g)
      BY <2>2, <2>3, <2>4, <2>6, <2>7 DEF KeepsSeats
    <3> QED BY <2>1, <3>1, SameRoom DEF Crowds
  <2> QED BY <1>2, <2>2, <2>3, <2>5, <2>6, <2>7, <2>8 DEF g
<1> QED BY <1>3, <1>4

(* What #handleShardLost does to one member serves the queue.               *)
LEMMA LoseMemberServes ==
    ASSUME NEW f, NEW k, Orderly(f, k), NEW a \in Agents, NEW s \in Shards, Grave(f, s),
           f.agents[a].known = "yes" => f.agents[a].shard = s, NEW n, NEW c, Heard(c)
    PROVE  LET g == LoseMember(f, a, n, c)
           IN /\ Orderly(g, k) /\ Grave(g, s) /\ Passing(f, g)
              /\ \A b \in Agents : /\ g.agents[b].known = f.agents[b].known
                                   /\ b # a /\ f.agents[b].shard # 0 => g.agents[b].shard = f.agents[b].shard
<1> DEFINE Fine(g) == Lined(g, k) /\ Grave(g, s) /\ Passing(f, g)
<1>a. ASSUME NEW g, NEW event, event # "none", Fine(g) PROVE Fine(Hears(g, event, n, c))
  <2> DEFINE h == Hears(g, event, n, c)
  <2>1. Lined(h, k) /\ Admits(g, h)
    BY <1>a, HearsAdmits
  <2> HIDE DEF h
  <2>2. Grave(h, s) /\ Passing(g, h)
    BY <1>a, <2>1, GraveFills DEF Admits
  <2> QED BY <1>a, <2>1, <2>2, PassingOn DEF h
<1>1. Lined(f, k) /\ Housed(f, k) /\ Ledger(f) /\ Worked(f) /\ Sound(f, k) /\ Fine(f)
  BY OrderlyIsLined, AdmitsSame DEF Lined, Orderly
<1>2. /\ Sound(LoseMember(f, a, n, c), k)
      /\ \A b \in Agents : /\ LoseMember(f, a, n, c).agents[b].known = f.agents[b].known
                           /\ b # a /\ f.agents[b].shard # 0
                                 => LoseMember(f, a, n, c).agents[b].shard = f.agents[b].shard
  BY <1>1, LoseMemberPlaced DEF Grave, Heard
<1>3. Fine(LoseMember(f, a, n, c))
  <2>1. CASE ~Registered(f, a)
    BY <1>1, <2>1 DEF LoseMember, Registered
  <2>2. CASE Registered(f, a) /\ (a \in Ephemeral \/ ~autoRecover)
    <3> DEFINE g == [f EXCEPT !.agents[a].status = "lost"]
    <3>1. LoseMember(f, a, n, c) = Hears(g, "shardLost", n, c)
      BY <2>2, Zenon DEF LoseMember
    <3>2. IsFleet(f) /\ f.agents \in [Agents -> AgentRecords]
      BY <1>1, HousedIsTyped
    <3>3. /\ IsFleet(g) /\ g.turns = f.turns /\ g.shards = f.shards /\ g.queue = f.queue /\ g.active = f.active
          /\ g.exceeded = f.exceeded /\ g.recoveries = f.recoveries
          /\ g.agents = [f.agents EXCEPT ![a] = [@ EXCEPT !.status = "lost"]]
      BY <3>2, Zenon DEF IsFleet
    <3> HIDE DEF g
    <3>4. Lined(g, k) /\ Grave(g, s) /\ Passing(f, g)
      <4> DEFINE y == [f.agents[a] EXCEPT !.status = "lost"]
      <4>1. /\ y \in AgentRecords /\ y.known = f.agents[a].known /\ y.session = f.agents[a].session
            /\ y.shard = f.agents[a].shard /\ y.status = "lost"
        BY <3>2, Zenon DEF AgentRecords
      <4>2. g.agents = [f.agents EXCEPT ![a] = y]
        BY <3>3
      <4> HIDE DEF y
      <4>3. Housed(g, k)
        BY <1>1, <3>3, <4>1, <4>2, AgentHoused, Zenon
      <4>4. Ledger(g)
        <5>1. Shapes(g) /\ SameStanding(f, g)
          BY <3>3, <4>3, SoundShape DEF Housed, SameStanding
        <5> QED BY <1>1, <5>1, StandingKeepsLedger
      <4>5. g.agents[a] = y /\ \A b \in Agents : b # a => g.agents[b] = f.agents[b]
        BY <3>2, <4>2
      <4>6. KeepsSeats(f, g)
        BY <3>3, <4>1, <4>5 DEF KeepsSeats
      <4>7. Relocates(f, g, a)
        <5> DEFINE q == [agent |-> a, shard |-> g.agents[a].shard]
        <5>1. q.agent = a /\ q.shard = g.agents[a].shard
          OBVIOUS
        <5> HIDE DEF q
        <5> QED BY <3>3, <5>1 DEF Relocates
      <4>8. Alone(f, g, a)
        BY <3>3, <4>1, <4>5, <4>6, <4>7, SameRoom DEF Alone, KeepsSeats
      <4>9. Free(f, a)
        <5>1. Steady(f) /\ f.agents[a].known = "yes" /\ f.agents[a].shard = s
          BY <1>1, <2>2 DEF Registered, Lined
        <5> QED BY <5>1, GraveFrees
      <4>10. s \in Dead(g) /\ g.shards[s].members = <<>>
        BY <3>3 DEF Grave, Dead
      <4> QED BY <1>1, <3>3, <4>3, <4>4, <4>8, <4>9, <4>10, AloneLined
    <3> QED BY <1>a, <3>1, <3>4
  <2>3. CASE Registered(f, a) /\ ~(a \in Ephemeral \/ ~autoRecover)
    <3> DEFINE h == [f EXCEPT !.agents[a].status = "recovering", !.agents[a].shard = 0]
               m == Hears(h, "shardLost", n, c)
               g == RecoverAgent(m, a)
    <3>1. LoseMember(f, a, n, c) = g \/ LoseMember(f, a, n, c) = Hears(g, "agentLost", n, c)
      BY <2>3, Zenon DEF LoseMember
    <3>2. f.agents[a].known = "yes" /\ f.agents[a].shard = s /\ Free(f, a)
      <4>1. Steady(f) /\ f.agents[a].known = "yes" /\ f.agents[a].shard = s
        BY <1>1, <2>3 DEF Registered, Lined
      <4> QED BY <4>1, GraveFrees
    <3>3. /\ Housed(h, k) /\ Ledger(h) /\ h.agents[a].status = "recovering" /\ h.agents[a].shard = 0
          /\ h.turns = f.turns /\ h.queue = f.queue /\ h.shards = f.shards /\ h.recoveries = f.recoveries
          /\ \A b \in Agents : /\ b # a => h.agents[b] = f.agents[b]
                               /\ h.agents[b].known = f.agents[b].known
      <4>1. f.shards[s].members = <<>>
        BY DEF Grave
      <4> QED BY <1>1, <3>2, <4>1, LeftHoused, Zenon
    <3> HIDE DEF h
    <3>4. Fine(h) /\ Free(h, a)
      <4>1. \A b \in Agents \ {a} : CanAssign(h, b) => CanAssign(f, b)
        BY <3>3 DEF CanAssign, WithRoom, ShardList
      <4>2. Relocates(f, h, a)
        <5> DEFINE q == [agent |-> a, shard |-> h.agents[a].shard]
        <5>1. q.agent = a /\ q.shard = h.agents[a].shard
          OBVIOUS
        <5> HIDE DEF q
        <5> QED BY <3>3, <5>1 DEF Relocates
      <4>3. Alone(f, h, a)
        BY <3>3, <4>1, <4>2 DEF Alone
      <4>4. s \in Dead(h) /\ h.shards[s].members = <<>>
        BY <3>3 DEF Grave, Dead
      <4>5. Free(h, a)
        BY <3>2, <3>3 DEF Free
      <4> QED BY <1>1, <3>2, <3>3, <4>3, <4>4, <4>5, AloneLined
    <3>5. Fine(m) /\ Fills(h, m)
      <4>1. Fine(m)
        BY <1>a, <3>4
      <4>2. Admits(h, m)
        BY <3>4, HearsAdmits
      <4> QED BY <4>1, <4>2 DEF Admits
    <3> HIDE DEF m
    <3>6. /\ Housed(m, k) /\ Ledger(m) /\ Steady(m) /\ m.agents[a].known = "yes"
          /\ m.agents[a].status = "recovering" /\ m.agents[a].shard = 0 /\ m.recoveries = f.recoveries
      BY <3>2, <3>3, <3>5 DEF Lined, Fills
    <3>7. Free(m, a)
      <4>1. ASSUME NEW t \in Turns, m.turns[t].phase \in Waiting, m.turns[t].agent = a PROVE FALSE
        BY <3>6, <4>1 DEF Steady, AtHome, HomeOf
      <4> QED BY <3>2, <3>6, <4>1 DEF Free
    <3>8. ASSUME NEW b \in Agents \ {a}, m.agents[b].status = "recovering"
          PROVE  /\ m.agents[b].known # "no"
                 /\ m.agents[b].known = "yes" => \E r \in m.recoveries : r.agent = b
      <4>1. f.agents[b].status = "recovering" /\ m.agents[b].known = f.agents[b].known
        BY <3>3, <3>5, <3>8 DEF Fills
      <4> QED BY <1>1, <3>6, <4>1 DEF Worked
    <3>9. /\ Placed(g, k)
          /\ \A b \in Agents : /\ b # a => g.agents[b] = m.agents[b]
                               /\ g.agents[b].known = m.agents[b].known
          /\ \A r \in Dead(m) : r \in Dead(g) /\ g.shards[r].members = m.shards[r].members
          /\ Relocates(m, g, a) /\ g.agents[a].status \in {"lost", m.agents[a].status}
      BY <3>6, <3>8, RecoverAgentPlaced, Zenon
    <3>10. /\ g.queue = m.queue /\ Crowds(m, g) /\ Ledger(g)
           /\ \A r \in g.recoveries : r \notin m.recoveries => r.shard \notin Dead(m)
      BY <3>6, RecoverAgentView
    <3> HIDE DEF g
    <3>11. Alone(m, g, a)
      BY <3>6, <3>9, <3>10 DEF Alone, Crowds
    <3>12. s \in Dead(m) /\ m.shards[s].members = <<>>
      BY <3>5 DEF Grave
    <3>13. Lined(g, k) /\ Grave(g, s) /\ Passing(m, g)
      BY <3>5, <3>7, <3>9, <3>10, <3>11, <3>12, AloneLined DEF Placed
    <3>14. Fine(g)
      BY <3>5, <3>13, PassingOn
    <3> QED BY <1>a, <3>1, <3>14
  <2> QED BY <2>1, <2>2, <2>3
<1> QED BY <1>2, <1>3, OrderlyIsLined DEF Sound, Placed

LEMMA LoseMembersServes ==
    ASSUME NEW f, NEW k, Orderly(f, k), NEW s \in Shards, Grave(f, s), NEW list \in Seq(Agents),
           \A i \in 1..Len(list) : f.agents[list[i]].known = "yes" =>
               f.agents[list[i]].shard = s /\ Once(list, list[i]),
           NEW c, Heard(c)
    PROVE  Orderly(LoseMembers(f, list, c), k) /\ Passing(f, LoseMembers(f, list, c))
<1> DEFINE N == Len(list)
<1>1. N \in Nat /\ \A i \in 1..N : list[i] \in Agents
  OBVIOUS
<1>2. PICK h : LoseLoop(f, list, c, h, N) /\ LoseMembers(f, list, c) = h[N]
  BY <1>1, LoseMembersUnfold
<1> HIDE DEF N
<1> DEFINE Good(g, n) ==
               /\ Orderly(g, k) /\ Grave(g, s) /\ Passing(f, g)
               /\ \A b \in Agents : g.agents[b].known = f.agents[b].known
               /\ \A j \in 1..N : j > n /\ f.agents[list[j]].known = "yes" => g.agents[list[j]].shard = s
           T == {n \in 0..N : ~Good(h[n], n)}
<1>3. ASSUME T # {} PROVE FALSE
  <2>1. PICK n \in T : \A m \in T : n <= m
    BY <1>1, <1>3, Least, Zenon
  <2>2. n \in Nat /\ n <= N
    BY <1>1, <2>1
  <2>3. CASE n = 0
    <3>1. h[n] = f
      BY <1>1, <1>2, <2>3 DEF LoseLoop
    <3>2. Good(f, n)
      BY AdmitsSame DEF N
    <3> QED BY <2>1, <3>1, <3>2
  <2>4. CASE n # 0
    <3>1. n - 1 \in 0..N /\ n - 1 \notin T /\ n \in 1..N
      <4>1. n - 1 \in 0..N /\ n \in 1..N
        BY <1>1, <2>2, <2>4
      <4>2. \A m \in T : n <= m
        BY <2>1
      <4> HIDE DEF T
      <4>3. n - 1 \notin T
        BY <2>2, <4>2
      <4> QED BY <4>1, <4>3
    <3>2. Good(h[n - 1], n - 1)
      BY <3>1, Zenon
    <3> DEFINE a == list[n]
               g == h[n - 1]
               m == h[n]
    <3>3. m = LoseMember(g, a, n, c)
      BY <1>2, <2>1, <2>2, <2>4, Zenon DEF LoseLoop
    <3>4. a \in Agents
      BY <1>1, <3>1
    <3> HIDE DEF m, g
    <3>5. g.agents[a].known = "yes" => g.agents[a].shard = s
      <4>1. n > n - 1
        BY <2>2
      <4> QED BY <3>1, <3>2, <3>4, <4>1 DEF g
    <3>6. /\ Orderly(m, k) /\ Grave(m, s) /\ Passing(g, m)
          /\ \A b \in Agents : /\ m.agents[b].known = g.agents[b].known
                               /\ b # a /\ g.agents[b].shard # 0 => m.agents[b].shard = g.agents[b].shard
      <4>1. Orderly(g, k) /\ Grave(g, s)
        BY <3>2 DEF g
      <4> HIDE DEF Good, T, a
      <4>2. m = LoseMember(g, a, n, c)
        BY <3>3
      <4> QED BY <3>4, <3>5, <4>1, <4>2, LoseMemberServes
    <3>7. ASSUME NEW j \in 1..N, j > n, f.agents[list[j]].known = "yes" PROVE m.agents[list[j]].shard = s
      <4>1. list[j] \in Agents /\ j > n - 1
        BY <1>1, <2>2, <3>7
      <4>2. g.agents[list[j]].shard = s /\ s # 0
        BY <3>2, <3>7, <4>1, ShardsFinite DEF g
      <4>3. list[j] # a
        <5>1. Once(list, list[j])
          BY <3>7 DEF N
        <5>2. list[j] = list[n] => j = n
          BY <3>1, <5>1 DEF Once, N
        <5> QED BY <2>2, <3>7, <5>2
      <4> QED BY <3>6, <4>1, <4>2, <4>3
    <3>8. \A b \in Agents : m.agents[b].known = f.agents[b].known
      BY <3>2, <3>6 DEF g
    <3>9. Passing(f, m)
      BY <3>2, <3>6, PassingOn DEF g
    <3>10. Good(m, n)
      BY <3>6, <3>7, <3>8, <3>9
    <3> QED BY <2>1, <3>10 DEF m
  <2> QED BY <2>3, <2>4
<1>4. Good(h[N], N)
  <2>1. N \in 0..N
    BY <1>1
  <2> QED BY <1>3, <2>1
<1> QED BY <1>2, <1>4

LEMMA HandleShardLostServes ==
    ASSUME NEW e, NEW f, NEW k, Orderly(f, k), k < Room, NEW s \in Shards, f.shards[s].backend # "none",
           Quit(f, s), \A r \in f.recoveries : r.phase # "failing" => r.shard # s, Unstarted(e, f),
           NEW c, Heard(c)
    PROVE  Served(e, HandleShardLost(f, s, c), k + 1)
<1> DEFINE h == Buried(f, s)
           m == Hears(h, "shardLost", 0, c)
           list == f.shards[s].members
           g == LoseMembers(m, list, c)
           d == DrainHeard(g, c)
<1>1. HandleShardLost(f, s, c) = d
  BY DEF HandleShardLost, Buried
<1>2. /\ Sound(h, k + 1) /\ s \in Dead(h) /\ h.shards[s].members = <<>>
      /\ h.agents = f.agents /\ h.turns = f.turns /\ h.queue = f.queue
      /\ h.recoveries = f.recoveries /\ list \in Seq(Agents)
      /\ \A i \in 1..Len(list) : h.agents[list[i]].known = "yes" =>
            h.agents[list[i]].shard = s /\ Once(list, list[i])
  BY BuriedSound DEF Orderly
<1> HIDE DEF h, list
<1>3. /\ AtHome(f) /\ Marked(f) /\ Single(f) /\ Asked(f) /\ InOrder(f)
  BY DEF Orderly, Steady
<1>4. Orderly(h, k + 1) /\ Grave(h, s) /\ Unstarted(e, h)
  <2>1. Steady(h) /\ InOrder(h)
    BY <1>2, <1>3 DEF Steady, AtHome, HomeOf, Marked, Single, Asked, InOrder
  <2>2. Grave(h, s)
    BY <1>2 DEF Grave, Quit
  <2> QED BY <1>2, <2>1, <2>2 DEF Orderly, Unstarted
<1>5. Lined(h, k + 1) /\ Worked(h)
  BY <1>4, OrderlyIsLined
<1>6. Lined(m, k + 1) /\ Admits(h, m)
  BY <1>5, HearsAdmits
<1> HIDE DEF m
<1>7. Fills(h, m) /\ Passing(h, m) /\ Grave(m, s)
  BY <1>4, <1>6, GraveFills DEF Admits
<1>8. Orderly(m, k + 1)
  BY <1>5, <1>6, <1>7, FilledWorks, OrderlyIsLined
<1>9. ASSUME NEW i \in 1..Len(list), m.agents[list[i]].known = "yes"
      PROVE  m.agents[list[i]].shard = s /\ Once(list, list[i])
  <2>1. list[i] \in Agents /\ s # 0
    BY <1>2, ShardsFinite
  <2> QED BY <1>2, <1>7, <1>9, <2>1 DEF Fills
<1>10. Orderly(g, k + 1) /\ Passing(m, g)
  BY <1>2, <1>7, <1>8, <1>9, LoseMembersServes
<1> HIDE DEF g
<1>11. Orderly(d, k + 1) /\ Passing(g, d) /\ Idle(d)
  BY <1>10, DrainHeardAdmits DEF Admits
<1> HIDE DEF d
<1>12. Fair(e, d)
  BY <1>4, <1>7, <1>10, <1>11, PassingOn, PassesServe
<1> QED BY <1>1, <1>11, <1>12 DEF Served

LEMMA ShardLostServes ==
    ASSUME NEW k, Orderly(fleet, k), k < Room, NEW s \in Shards, ShardLost(s)
    PROVE  Served(fleet, fleet', k + 1)
<1> DEFINE x == shards[s]
           z == [x EXCEPT !.proc = "down", !.sess = [q \in Sessions |-> "none"]]
           f == [fleet EXCEPT !.shards[s].proc = "down", !.shards[s].sess = [q \in Sessions |-> "none"]]
           g == Rejected(f, s)
<1>1. x \in ShardRecords
  BY ShardIsTyped DEF Orderly
<1>0. PICK c \in Calls(1) : Becomes(HandleShardLost(g, s, c))
  BY Zenon DEF ShardLost
<1>2. f = [fleet EXCEPT !.shards[s] = z] /\ x.backend = "codex"
  BY Zenon DEF ShardLost, fleet
<1> HIDE DEF x, f
<1>3. /\ z \in ShardRecords /\ z.backend = x.backend /\ z.tracked = x.tracked
      /\ z.members = x.members /\ z.mapped = x.mapped
  BY <1>1, Zenon DEF ShardRecords
<1> HIDE DEF z
<1>4. Orderly(f, k) /\ Still(fleet, f) /\ f.shards[s].backend = x.backend
  <2>1. Orderly(f, k) /\ Still(fleet, f)
    BY <1>2, <1>3, RuntimeRests DEF x
  <2>2. f.shards[s].backend = x.backend
    BY <1>2, <1>3, RuntimeSound, Zenon DEF x, Orderly
  <2> QED BY <2>1, <2>2
<1>5. /\ Orderly(g, k) /\ Still(f, g) /\ g.shards = f.shards /\ Quit(g, s)
      /\ \A r \in g.recoveries : r.phase # "failing" => r.shard # s
  BY <1>4, RejectedRests DEF Quit
<1>6. Unstarted(fleet, g)
  <2>1. Still(fleet, g)
    BY <1>4, <1>5, StillOn
  <2> QED BY <2>1 DEF Still, Tends, Unstarted
<1>7. g.shards[s].backend # "none"
  BY <1>2, <1>4, <1>5, Zenon
<1> HIDE DEF g
<1>8. Heard(c)
  BY CallsHeard
<1>9. Served(fleet, HandleShardLost(g, s, c), k + 1)
  BY <1>5, <1>6, <1>7, <1>8, HandleShardLostServes
<1> QED BY <1>0, <1>9, ServesBecomes
-----------------------------------------------------------------------------
(* close(): it rejects who waits. Its end forgets the shards, and with them *)
(* what kept who was queued since then waiting.                             *)
LEMMA CloseServes ==
    ASSUME NEW k, Orderly(fleet, k)
    PROVE  /\ CloseBegins => Served(fleet, fleet', k)
           /\ CloseEnds /\ k + 2 * maxProcesses \in 0..Room
                 => Orderly(fleet', k + 2 * maxProcesses) /\ Fair(fleet, fleet')
<1>1. ASSUME CloseBegins PROVE Served(fleet, fleet', k)
  <2> DEFINE f == [fleet EXCEPT !.queue = <<>>,
                     !.turns = [t \in Turns |-> IF turns[t].phase = "queued"
                                                THEN [NewTurn(turns[t].agent) EXCEPT !.phase = "refused"]
                                                ELSE turns[t]]]
  <2>1. Becomes(f)
    BY <1>1 DEF CloseBegins
  <2>2. /\ IsFleet(f) /\ f.queue = <<>> /\ f.agents = fleet.agents /\ f.recoveries = fleet.recoveries
        /\ f.turns = [t \in Turns |-> IF fleet.turns[t].phase = "queued"
                                      THEN [NewTurn(fleet.turns[t].agent) EXCEPT !.phase = "refused"]
                                      ELSE fleet.turns[t]]
    BY Zenon DEF fleet, IsFleet
  <2> HIDE DEF f
  <2>3. fleet' = f
    BY <2>1, <2>2, FleetBecomes
  <2>4. Sound(fleet', k)
    BY <1>1, CloseSound DEF Orderly
  <2>5. Sound(f, k)
    BY <2>3, <2>4
  <2>6. Served(fleet, f, k)
    BY <2>2, <2>5, EmptiedServes
  <2> QED BY <2>3, <2>6
<1>2. ASSUME CloseEnds, k + 2 * maxProcesses \in 0..Room
      PROVE  Orderly(fleet', k + 2 * maxProcesses) /\ Fair(fleet, fleet')
  <2> DEFINE l == k + 2 * maxProcesses
  <2>1. UNCHANGED <<agents, turns, queue, recoveries>>
    BY <1>2 DEF CloseEnds
  <2>2. /\ fleet'.turns = fleet.turns /\ fleet'.agents = fleet.agents /\ fleet'.queue = fleet.queue
        /\ fleet'.recoveries = fleet.recoveries
    BY <2>1 DEF fleet
  <2>3. Sound(fleet', l)
    BY <1>2, CloseSound DEF Orderly
  <2> HIDE DEF l
  <2>4. Eases(fleet, fleet')
    BY <2>2 DEF Eases, SameAgents, Wanes
  <2>5. Orderly(fleet', l)
    BY <2>3, <2>4, EasyStep
  <2>6. Fair(fleet, fleet')
    BY <2>2 DEF Fair
  <2> QED BY <2>5, <2>6 DEF l
<1> QED BY <1>1, <1>2
-----------------------------------------------------------------------------
(* The inductive invariant of admission, and what each step keeps of it.    *)
InLine == InPlace /\ Orderly(fleet, Gone) /\ (closing # Closed => Idle(fleet))

LEMMA MoreGoneServes ==
    ASSUME NEW f, NEW g, NEW k, NEW l \in 0..Room, Served(f, g, k), k <= l
    PROVE  Served(f, g, l)
BY MoreGone DEF Served, Orderly

LEMMA InitialLine == Init => InLine
<1> SUFFICES ASSUME Init PROVE InLine
  OBVIOUS
<1>1. InPlace /\ Sound(fleet, Gone)
  BY InitialPlaces DEF InPlace
<1>2. /\ turns = [t \in Turns |-> NewTurn("none")] /\ queue = <<>> /\ recoveries = {}
      /\ exceeded = FALSE /\ closing = 0
  BY DEF Init
<1>3. \A t \in Turns : turns[t].phase = "new"
  BY <1>2 DEF NewTurn
<1>4. Len(queue) = 0 /\ 1..Len(queue) = {}
  BY <1>2
<1>5. AtHome(fleet) /\ Asked(fleet)
  BY <1>3, Fields DEF AtHome, HomeOf, Asked, Waiting
<1>6. Marked(fleet) /\ Single(fleet)
  BY <1>2, Fields DEF Marked, Single
<1>7. InOrder(fleet) /\ Idle(fleet)
  BY <1>3, <1>4, Fields DEF InOrder, Idle
<1> QED BY <1>1, <1>5, <1>6, <1>7 DEF InLine, Orderly, Steady

LEMMA StepsServe ==
    ASSUME InLine, Next
    PROVE  Served(fleet, fleet', Gone') \/ (CloseEnds /\ Orderly(fleet', Gone') /\ Fair(fleet, fleet'))
<1> DEFINE k == Gone
<1>1. Orderly(fleet, k) /\ Pending
  BY DEF InLine, InPlace
<1>2. ASSUME Served(fleet, fleet', k), UNCHANGED <<closing, crashes>> PROVE Served(fleet, fleet', Gone')
  <2>1. Gone' = k
    BY <1>2 DEF Gone
  <2> QED BY <1>2, <2>1
<1> HIDE DEF k
<1>3. ASSUME NEW t \in Turns, TurnStep(t) PROVE Served(fleet, fleet', Gone')
  <2>1. Served(fleet, fleet', k)
    BY <1>1, <1>3, TurnStartServes, TurnOpensServes, TurnCompletesServes, TurnFailsServes, TurnEndsServes,
       BackendCeilingServes, Zenon DEF TurnStep
  <2>2. UNCHANGED <<closing, crashes>>
    BY <1>3, Zenon DEF TurnStep, TurnStart, TurnReuses, TurnOpensFresh, TurnCompletes, TurnFails, TurnResolves,
                TurnRejects, BackendCeiling
  <2> QED BY <1>2, <2>1, <2>2
<1>4. ASSUME NEW s \in Shards, ShardStep(s) PROVE Served(fleet, fleet', Gone')
  <2>1. Served(fleet, fleet', k)
    BY <1>1, <1>4, ShardStepServes DEF ShardStep
  <2>2. UNCHANGED <<closing, crashes>>
    BY <1>4 DEF ShardStep, ShardStartUp, StartFails
  <2> QED BY <1>2, <2>1, <2>2
<1>5. ASSUME NEW r \in recoveries, RecoveryStep(r) PROVE Served(fleet, fleet', Gone')
  <2>1. Served(fleet, fleet', k)
    BY <1>1, <1>5, RecoveryStepServes
  <2>2. UNCHANGED <<closing, crashes>>
    BY <1>5 DEF RecoveryStep, RecoveryResumes, RecoverySucceeds, RecoveryFails
  <2> QED BY <1>2, <2>1, <2>2
<1>6. ASSUME NEW a \in Agents, RequestAgent(a) \/ RetireBegins(a) \/ RetireStep(a) \/ Quiesce(a)
      PROVE  Served(fleet, fleet', Gone')
  <2>1. Served(fleet, fleet', k)
    BY <1>1, <1>6, AgentStepServes, Zenon
  <2>2. UNCHANGED <<closing, crashes>>
    BY <1>6, Zenon DEF RequestAgent, RetireBegins, RetireStep, RetireQuiesced, RetireFails, Released, Quiesce
  <2> QED BY <1>2, <2>1, <2>2
<1>7. ASSUME NEW t \in Turns, NEW a \in Agents, NEW p \in Priorities, Run(t, a, p)
      PROVE  Served(fleet, fleet', Gone')
  <2>1. Served(fleet, fleet', k)
    BY <1>1, <1>7, RunServes
  <2>2. UNCHANGED <<closing, crashes>>
    BY <1>7 DEF Run
  <2> QED BY <1>2, <2>1, <2>2
<1>8. ASSUME NEW t \in Turns, NEW cost \in Costs, Usage(t, cost) PROVE Served(fleet, fleet', Gone')
  <2>1. Served(fleet, fleet', k)
    BY <1>1, <1>8, UsageServes
  <2>2. UNCHANGED <<closing, crashes>>
    BY <1>8 DEF Usage
  <2> QED BY <1>2, <2>1, <2>2
<1>9. ASSUME NEW s \in Shards, ShardLost(s) PROVE Served(fleet, fleet', Gone')
  <2>1. crashes < MaxCrashes /\ crashes' = crashes + 1 /\ UNCHANGED closing
    BY <1>9 DEF ShardLost
  <2>2. k < Room /\ Gone' = k + 1
    BY <1>1, <2>1, Limits, GoneBounds DEF Gone, k, Room
  <2>3. Served(fleet, fleet', k + 1)
    BY <1>1, <1>9, <2>2, ShardLostServes
  <2> QED BY <2>2, <2>3
<1>10. ASSUME NEW s \in Shards, CloseShard(s) PROVE Served(fleet, fleet', Gone')
  <2>1. closing' = s + 1 /\ closing \in Shards /\ UNCHANGED crashes
    BY <1>10 DEF CloseShard
  <2>2. closing # Closed
    BY <2>1, Limits DEF Shards, Closed
  <2>3. k = crashes /\ Gone' \in {crashes, crashes + 2 * maxProcesses}
    BY <1>1, <2>1, <2>2, GoneBounds DEF Gone, k
  <2>4. k <= Gone' /\ Gone' \in 0..Room
    BY <1>1, <2>2, <2>3, GoneBounds, Limits
  <2>5. Served(fleet, fleet', k)
    BY <1>1, <1>10, ShardStepServes
  <2> QED BY <2>4, <2>5, MoreGoneServes
<1>11. CASE CloseBegins
  <2>1. closing = 0 /\ closing' = 1 /\ UNCHANGED crashes
    BY <1>11 DEF CloseBegins
  <2>2. Gone' = k
    BY <1>1, <2>1, GoneBounds DEF Gone, k
  <2>3. Served(fleet, fleet', k)
    BY <1>1, <1>11, CloseServes
  <2> QED BY <2>2, <2>3
<1>12. CASE CloseEnds
  <2>1. closing \in 1..MaxShards /\ closing' = Closed /\ UNCHANGED crashes
    BY <1>12 DEF CloseEnds
  <2>2. closing # Closed
    BY <2>1, Limits DEF Closed
  <2>3. Gone' = k + 2 * maxProcesses /\ k + 2 * maxProcesses \in 0..Room
    BY <1>1, <2>1, <2>2, GoneBounds DEF Gone, k
  <2>4. Orderly(fleet', k + 2 * maxProcesses) /\ Fair(fleet, fleet')
    BY <1>1, <1>12, <2>3, CloseServes
  <2> QED BY <1>12, <2>3, <2>4
<1> QED BY <1>3, <1>4, <1>5, <1>6, <1>7, <1>8, <1>9, <1>10, <1>11, <1>12 DEF Next, Answer

LEMMA ClosedStays ==
    ASSUME Next, Pending, closing = Closed
    PROVE  closing' = Closed
<1>1. closing # 0 /\ closing \notin Shards /\ closing \notin 1..MaxShards
  BY Limits DEF Closed, Shards
<1>2. ~CloseBegins /\ ~CloseEnds /\ \A s \in Shards : ~CloseShard(s)
  BY <1>1 DEF CloseBegins, CloseEnds, CloseShard
<1>3. UNCHANGED closing
  BY <1>2, ZenonT(60) DEF Next, Answer, TurnStep, ShardStep, RecoveryStep, RetireStep, TurnStart, TurnReuses,
     TurnOpensFresh, TurnCompletes, TurnFails, TurnResolves, TurnRejects, BackendCeiling, ShardStartUp,
     StartFails, RecoveryResumes, RecoverySucceeds, RecoveryFails, RequestAgent, RetireBegins, RetireQuiesced,
     RetireFails, Released, Quiesce, Run, Usage, ShardLost
<1> QED BY <1>3

LEMMA LineIsKept == InLine /\ [Next]_vars => InLine' /\ Fair(fleet, fleet')
<1> SUFFICES ASSUME InLine, [Next]_vars PROVE InLine' /\ Fair(fleet, fleet')
  OBVIOUS
<1>1. InPlace'
  BY PlacesAreKept DEF InLine
<1>2. CASE Next
  <2>1. CASE Served(fleet, fleet', Gone')
    <3>1. Orderly(fleet', Gone') /\ (Idle(fleet) => Idle(fleet')) /\ Fair(fleet, fleet')
      BY <2>1 DEF Served
    <3>2. closing' # Closed => closing # Closed
      BY <1>2, ClosedStays DEF InLine, InPlace
    <3> QED BY <1>1, <3>1, <3>2 DEF InLine
  <2>2. CASE CloseEnds /\ Orderly(fleet', Gone') /\ Fair(fleet, fleet')
    <3>1. closing' = Closed
      BY <2>2 DEF CloseEnds
    <3> QED BY <1>1, <2>2, <3>1 DEF InLine
  <2> QED BY <1>2, <2>1, <2>2, StepsServe
<1>3. CASE UNCHANGED vars
  <2>1. fleet' = fleet /\ Gone' = Gone /\ closing' = closing
    BY <1>3 DEF vars, fleetVars, fleet, Gone
  <2>2. Orderly(fleet', Gone') /\ (closing' # Closed => Idle(fleet'))
    BY <2>1 DEF InLine
  <2>3. Fair(fleet, fleet')
    BY <2>1 DEF Fair
  <2> QED BY <1>1, <2>2, <2>3 DEF InLine
<1> QED BY <1>2, <1>3

(* Wherever something happens that an entry of the queue waits for, a room  *)
(* in flight, a shard, a recovered agent, #drain() is called before the     *)
(* handler ends, so that no entry stays queued that could be admitted,      *)
(* although no timer retries (fleet.mjs:426-481 and its callers). Only the  *)
(* end of close(), which forgets the shards, calls nothing.                 *)
THEOREM IdleCorrect == Spec => []NoIdleWaiter
<1>1. InLine => NoIdleWaiter
  <2>1. fleet.queue = queue /\ fleet.active = activeTurns /\ fleet.exceeded = exceeded
    BY DEF fleet
  <2>2. activeTurns \in Nat /\ maxConcurrentTurns \in Nat
        => (activeTurns < maxConcurrentTurns => ~(activeTurns >= maxConcurrentTurns))
    OBVIOUS
  <2>3. InLine => activeTurns \in Nat
    <3>1. InLine => Counted(fleet)
      BY DEF InLine, InPlace, Sound, Ledger
    <3> QED BY <2>1, <3>1, Counts DEF Counted
  <2>4. maxConcurrentTurns \in Nat
    BY LimitsAssumption
  <2>5. InLine => (closing # Closed => Idle(fleet))
    BY DEF InLine
  <2> QED BY <2>1, <2>2, <2>3, <2>4, <2>5 DEF Idle, Full, NoIdleWaiter
<1>2. Init => InLine
  BY InitialLine
<1>3. InLine /\ [Next]_vars => InLine'
  BY LineIsKept
<1> QED BY <1>1, <1>2, <1>3, PTL DEF Spec

(* An admission never passes over an entry of higher priority, or of the    *)
(* same priority and an earlier call, that could still be admitted in its   *)
(* place, however many admissions one drain makes (fleet.mjs:426-445) and   *)
(* whatever its listeners call meanwhile.                                   *)
THEOREM OrderCorrect == Spec => NoOvertaking
<1> DEFINE Passes == \A t, u \in Turns :
                        /\ turns[t].phase \in {"new", "queued"} /\ turns'[t].phase = "starting"
                        /\ turns'[u].phase = "queued" /\ Precedes(u, t)
                        /\ ListenersCall => turns[u].phase = "queued"
                        => ~Admissible(fleet', u)
<1>1. InLine /\ [Next]_vars => [Passes]_vars
  <2> SUFFICES ASSUME InLine, [Next]_vars PROVE Passes
    OBVIOUS
  <2>1. Fair(fleet, fleet')
    BY LineIsKept
  <2>2. fleet.turns = turns /\ fleet'.turns = turns'
    BY DEF fleet
  <2>3. \A t, u \in Turns : Precedes(u, t) <=> Outranks(fleet', u, t)
    BY <2>2 DEF Precedes, Outranks
  <2> QED BY <2>1, <2>2, <2>3 DEF Fair
<1>2. Init => InLine
  BY InitialLine
<1>3. InLine /\ [Next]_vars => InLine'
  BY LineIsKept
<1> QED BY <1>1, <1>2, <1>3, PTL DEF Spec, NoOvertaking
=============================================================================
