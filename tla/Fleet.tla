-------------------------------- MODULE Fleet --------------------------------
(***************************************************************************)
(* src/src/fleet.mjs: many agents on a bounded number of backend processes *)
(* (shards), a bounded number of turns in flight, a spend ceiling, and the *)
(* recovery of the agents of a process that died.                          *)
(*                                                                         *)
(* JavaScript runs a handler to its next await without interruption, so an *)
(* action is what happens between two awaits, nested calls included: a     *)
(* #drain() at the end of a handler is part of its action. A promise that  *)
(* is settled runs its continuations before the next event of the outside  *)
(* world is handled, so those events wait until the model is Quiet; the    *)
(* application may call at any time, after close() too.                    *)
(*                                                                         *)
(* The fleet calls the application's listeners in the middle of a handler. *)
(* Where ListenersCall, a listener may call run() there, and its #drain()  *)
(* nests in the handler: once in each step, at any event the step emits    *)
(* (Calls). A call from an event that stands at either end of a handler is *)
(* a call of its own, before or after it.                                  *)
(*                                                                         *)
(* The runtimes under the fleet appear through the answers they can give   *)
(* it: only the Codex adapter reports a dead process ('lost'), insists on  *)
(* a confirmed stop before it reuses a session and reports a spend wall of *)
(* its own; only the Copilot adapter reports a cost.                       *)
(***************************************************************************)
EXTENDS Naturals, SequencesExt

CONSTANTS
    Agents,                 \* the ids requestAgent() may hand out
    Codex,                  \* those whose backend is codex; the others are copilot's
    Ephemeral,              \* those requested with ephemeral: true
    maxSessionsPerProcess, maxProcesses, maxConcurrentTurns, autoRecover,
    ceiling,                \* budget.ceiling; 0: none configured
    Priorities,             \* options.priority of run()
    Costs,                  \* costs a usage event may report
    StopsAreConfirmed,      \* quiesce() after a settled turn succeeds whenever it can
    ListenersCall,          \* the application's listeners call run()
    MayRetire, MayClose,    \* the application calls retireAgent(), close()
    MaxTurns,               \* bound: run() calls
    MaxCrashes              \* bound: processes that die

ASSUME AgentsAssumption == Codex \subseteq Agents /\ Ephemeral \subseteq Agents
ASSUME LimitsAssumption ==
    /\ {maxSessionsPerProcess, maxProcesses, maxConcurrentTurns} \subseteq Nat \ {0}
    /\ {ceiling, MaxTurns, MaxCrashes} \subseteq Nat
    /\ Priorities \subseteq Nat /\ Costs \subseteq Nat
    /\ {autoRecover, StopsAreConfirmed, ListenersCall, MayRetire, MayClose} \subseteq BOOLEAN

(* A session is named by the turn that opened it, so 0 is the null id of an *)
(* agent that has none; 0 is also the null shardId. There are numbers for   *)
(* all shards in use, those that close() has forgotten and those that died. *)
Turns == 1..MaxTurns
Sessions == 0..MaxTurns
MaxShards == 4 * maxProcesses + MaxCrashes
Shards == 1..MaxShards
Closed == MaxShards + 1
Backends == {"codex", "copilot"}
BackendOf(a) == IF a \in Codex THEN "codex" ELSE "copilot"

VARIABLES
    agents,       \* AgentRecord of each id; "known": is it in the agents map
    shards,       \* Shard records in creation order, with their runtime's state
    turns,        \* the run() calls in call order, and where each one is
    queue,        \* run() calls waiting for admission
    activeTurns,
    exceeded,     \* budget.exceeded
    recoveries,   \* #recoverAgent() calls that have not returned
    retiring,     \* retiring[a]: where the retireAgent(a) call is, if any
    closing,      \* where close() is: 0 not called, else the next shard it visits, Closed at its end
    crashes

fleetVars == <<agents, shards, turns, queue, activeTurns, exceeded, recoveries>>
vars == <<fleetVars, retiring, closing, crashes>>

(* The synchronous code below reads and writes one fleet record f. *)
fleet == [agents |-> agents, shards |-> shards, turns |-> turns, queue |-> queue,
          active |-> activeTurns, exceeded |-> exceeded, recoveries |-> recoveries]

Becomes(f) ==
    \E g \in {f} :
        /\ agents' = g.agents /\ shards' = g.shards /\ turns' = g.turns /\ queue' = g.queue
        /\ activeTurns' = g.active /\ exceeded' = g.exceeded /\ recoveries' = g.recoveries

(* A turn is "stranded" whose #admit() threw before its try block: it was   *)
(* counted, and nothing settles it.                                        *)
InFlightPhases == {"starting", "opening", "running", "confirming", "failing", "stranded"}
InFlight == {t \in Turns : turns[t].phase \in InFlightPhases}
Registered(f, a) == f.agents[a].known = "yes"

NewAgent == [known |-> "no", status |-> "unassigned", shard |-> 0, session |-> 0, cost |-> 0]
(* proc is the runtime of the shard: "idle" until start() is called, then  *)
(* "starting", "up" or "down". sess is its session registry, mapped the    *)
(* keys of sessionToAgent: a session maps to the agent of its first turn.  *)
NewShard == [backend |-> "none", tracked |-> FALSE, proc |-> "idle", members |-> <<>>,
             mapped |-> {}, sess |-> [x \in Sessions |-> "none"]]
NotRetiring == [phase |-> "no", shard |-> 0, session |-> 0]
NewTurn(a) == [phase |-> "new", agent |-> a, prio |-> 0, shard |-> 0, session |-> 0]

Init ==
    /\ agents = [a \in Agents |-> NewAgent]
    /\ shards = [s \in Shards |-> NewShard]
    /\ turns = [t \in Turns |-> NewTurn("none")]
    /\ queue = <<>> /\ activeTurns = 0 /\ exceeded = FALSE /\ recoveries = {}
    /\ retiring = [a \in Agents |-> NotRetiring]
    /\ closing = 0 /\ crashes = 0

-----------------------------------------------------------------------------
(* Continuations that are due: what they await is settled.                 *)

Asks(s) == shards[s].backend = "codex" /\ shards[s].proc = "up"
Busy(s, x) == \E u \in Turns : turns[u].phase = "running" /\ turns[u].shard = s /\ turns[u].session = x

TurnDue(t) ==
    \/ turns[t].phase = "failing"
    \/ turns[t].phase = "starting" /\ shards[turns[t].shard].proc = "up"
    \/ turns[t].phase = "confirming" /\ ~Asks(turns[t].shard)
RecoveryDue(r) == r.phase = "failing" \/ (r.phase = "starting" /\ shards[r.shard].proc = "up")
RetireDue(a) ==
    /\ retiring[a].phase # "no"
    /\ IF shards[retiring[a].shard].backend = "codex"
       THEN shards[retiring[a].shard].proc \in {"idle", "down"}
       ELSE retiring[a].phase = "stopping" /\ ~Busy(retiring[a].shard, retiring[a].session)
Quiet ==
    /\ \A t \in Turns : ~TurnDue(t)
    /\ \A r \in recoveries : ~RecoveryDue(r)
    /\ \A a \in Agents : ~RetireDue(a)

-----------------------------------------------------------------------------
(* Shard capacity: #shardList, #canAssign, #acquireShard, #createShard.    *)

ShardList(f, b) == {s \in Shards : f.shards[s].tracked /\ f.shards[s].backend = b}
WithRoom(f, b) == {s \in ShardList(f, b) : Len(f.shards[s].members) < maxSessionsPerProcess}
Uncreated(f) == {r \in Shards : f.shards[r].backend = "none"}

CanAssign(f, a) ==
    \/ f.agents[a].shard # 0
    \/ WithRoom(f, BackendOf(a)) # {}
    \/ Cardinality(ShardList(f, BackendOf(a))) < maxProcesses

(* #acquireShard where it does not answer null. start() of the shard's     *)
(* runtime is called next in both of its callers, with no await between.   *)
AcquireCrowded(f, a) ==
    IF f.agents[a].shard # 0 THEN f
    ELSE LET list == ShardList(f, BackendOf(a))
             s == IF list # {} THEN Min(list)
                  ELSE Min(Uncreated(f))
         IN [f EXCEPT !.agents[a].shard = s,
                      !.shards[s].backend = BackendOf(a), !.shards[s].tracked = TRUE,
                      !.shards[s].members = Append(@, a)]
Acquire(f, a) ==
    IF f.agents[a].shard # 0 THEN f
    ELSE LET room == WithRoom(f, BackendOf(a))
             s == IF room # {} THEN Min(room)
                  ELSE Min(Uncreated(f))
         IN [f EXCEPT !.agents[a].shard = s,
                      !.shards[s].backend = BackendOf(a), !.shards[s].tracked = TRUE,
                      !.shards[s].members = Append(@, a)]

Start(f, s) == [f EXCEPT !.shards[s].proc = IF @ = "idle" THEN "starting" ELSE @]

-----------------------------------------------------------------------------
(* Admission: #drain and the synchronous start of #admit.                  *)

Admissible(f, t) ==
    LET a == f.turns[t].agent
    IN /\ Registered(f, a) /\ f.agents[a].status \notin {"lost", "recovering"}
       /\ CanAssign(f, a)

(* The i-th entry leaves the queue: until #admit() has it, nobody counts it. *)
Take(f, i) == [f EXCEPT !.queue = RemoveAt(@, i), !.turns[f.queue[i]].phase = "taken"]

(* #acquireShard answers a shard, unless a nested drain has used the last   *)
(* place, or the shard of the agent has left the tables.                    *)
HasShard(f, a) ==
    IF f.agents[a].shard # 0 THEN f.shards[f.agents[a].shard].tracked ELSE CanAssign(f, a)

AdmitUnplaced(f, t) ==
    LET g == Acquire(f, f.turns[t].agent)
        s == g.agents[f.turns[t].agent].shard
    IN IF HasShard(f, f.turns[t].agent)
       THEN Start([g EXCEPT !.active = @ + 1, !.turns[t].phase = "starting"], s)
       ELSE [f EXCEPT !.active = @ + 1, !.turns[t].phase = "stranded"]
Admit(f, t) ==
    LET g == Acquire(f, f.turns[t].agent)
        s == g.agents[f.turns[t].agent].shard
    IN IF HasShard(f, f.turns[t].agent)
       THEN Start([g EXCEPT !.active = @ + 1, !.turns[t].phase = "starting", !.turns[t].shard = s], s)
       ELSE [f EXCEPT !.active = @ + 1, !.turns[t].phase = "stranded"]

(* The entry of highest priority, the oldest of those. *)
LastIn(f) ==
    LET ready == {i \in 1..Len(f.queue) : Admissible(f, f.queue[i])}
        prio(i) == f.turns[f.queue[i]].prio
    IN {i \in ready : \A j \in ready \ {i} : prio(i) > prio(j) \/ (prio(i) = prio(j) /\ i > j)}
Best(f) ==
    LET ready == {i \in 1..Len(f.queue) : Admissible(f, f.queue[i])}
        prio(i) == f.turns[f.queue[i]].prio
    IN {i \in ready : \A j \in ready \ {i} : prio(i) > prio(j) \/ (prio(i) = prio(j) /\ i < j)}

StuckUncapped(f) == f.exceeded \/ f.active > maxConcurrentTurns \/ Best(f) = {}
Stuck(f) == f.exceeded \/ f.active >= maxConcurrentTurns \/ Best(f) = {}
Chosen(f) == CHOOSE i \in Best(f) : TRUE
DrainOne(f) == IF Stuck(f) THEN f ELSE Admit(Take(f, Chosen(f)), f.queue[Chosen(f)])

(* The loop admits at most every entry of the queue. *)
Rounds(f, n) ==
    LET after[k \in 0..n] == IF k = 0 THEN f ELSE DrainOne(after[k - 1])
    IN after[n]
Drain(f) == Rounds(f, Len(f.queue))

(* The body of run() for a registered agent, up to its #drain().           *)
Refuses(f, a) == f.agents[a].status = "lost" \/ f.exceeded
Refused(f, t, a, p) == [f EXCEPT !.turns[t] = [NewTurn(a) EXCEPT !.phase = "refused", !.prio = p]]
Pushed(f, t, a, p) ==
    [f EXCEPT !.turns[t] = [NewTurn(a) EXCEPT !.phase = "queued", !.prio = p], !.queue = Append(@, t)]

-----------------------------------------------------------------------------
(* The calls that listeners make: run(agent) with a priority, while the     *)
(* event is emitted. In a drain: at queueDepth, with one entry taken and    *)
(* `at` admitted before; or between two rounds, at the admission event of   *)
(* the last one, or before the first, where the handler emitted something.  *)
(* In #handleShardLost: at shardLost (0) or the event of the at-th member,  *)
(* and at the agentLost of a member that found no place.                    *)
Unused(f) == {t \in Turns : f.turns[t].phase = "new"}
NoCall == [event |-> "none", at |-> 0, agent |-> "none", prio |-> 0]
Calls(first) ==
    {NoCall} \union IF ~ListenersCall \/ Unused(fleet) = {} THEN {} ELSE
        [event : {"queueDepth"}, at : 0..MaxTurns, agent : Agents, prio : Priorities]
        \union [event : {"admission"}, at : first..MaxTurns, agent : Agents, prio : Priorities]
        \union [event : {"shardLost", "agentLost"}, at : 0..maxSessionsPerProcess, agent : Agents, prio : Priorities]

AgentsOf(f) == {a \in Agents : Registered(f, a)}
Called(f, c) ==
    IF Unused(f) = {} \/ c.agent \notin AgentsOf(f) THEN f
    ELSE IF Refuses(f, c.agent) THEN Refused(f, Min(Unused(f)), c.agent, c.prio)
    ELSE Drain(Pushed(f, Min(Unused(f)), c.agent, c.prio))
Hears(f, event, n, c) == IF c.event = event /\ c.at = n THEN Called(f, c) ELSE f

(* #drain(), one of whose listeners may make call c. *)
DrainHeard(f, c) ==
    LET g == Rounds(f, c.at)
    IN IF c.event = "queueDepth" /\ ~Stuck(g)
       THEN Drain(Admit(Called(Take(g, Chosen(g)), c), g.queue[Chosen(g)]))
       ELSE IF c.event = "admission" THEN Drain(Called(g, c))
       ELSE Drain(f)

RequestAgent(a) ==
    /\ agents[a].known = "no"
    /\ agents' = [agents EXCEPT ![a].known = "yes"]
    /\ UNCHANGED <<shards, turns, queue, activeTurns, exceeded, recoveries, retiring, closing, crashes>>

(* run(): rejected at once, or queued and drained. *)
Run(t, a, p) ==
    /\ Registered(fleet, a)
    /\ turns[t].phase = "new" /\ \A u \in Turns : turns[u].phase = "new" => t <= u
    /\ IF Refuses(fleet, a) THEN Becomes(Refused(fleet, t, a, p))
       ELSE \E c \in Calls(0) : Becomes(DrainHeard(Pushed(fleet, t, a, p), c))
    /\ UNCHANGED <<retiring, closing, crashes>>

-----------------------------------------------------------------------------
(* #admit after its first await, with what the adapter's run() does.       *)

ShardOf(t) == turns[t].shard
SessionsOn(s) == shards[s].sess

(* The promise of t is going to reject; #admit has not resumed yet. *)
Failing(f, t) == [f EXCEPT !.turns[t].phase = "failing"]

(* start() has resolved: the continuation names the agent's session, which *)
(* the adapter looks up in its registry. A Codex session without confirmed *)
(* stop is refused; one the registry does not know is replaced, whereas    *)
(* Copilot resumes it.                                                     *)
TurnStart(t) ==
    LET s == ShardOf(t)
        x == agents[turns[t].agent].session
        known == SessionsOn(s)[x]
        opening(y) == [fleet EXCEPT !.turns[t].phase = "opening", !.turns[t].session = y]
    IN /\ turns[t].phase = "starting" /\ shards[s].proc = "up"
       /\ IF shards[s].backend = "codex"
          THEN Becomes(IF known = "open" THEN Failing(fleet, t)
                       ELSE opening(IF known = "stopped" THEN x ELSE 0))
          ELSE Becomes(IF known # "none" /\ Busy(s, x) THEN Failing(fleet, t) ELSE opening(x))
       /\ UNCHANGED <<retiring, closing, crashes>>

(* The turn is registered with the runtime and onStart is called. *)
Open(f, t, x) ==
    LET s == f.turns[t].shard
    IN [f EXCEPT !.turns[t].phase = "running", !.turns[t].session = x,
                 !.agents[f.turns[t].agent].session = x,
                 !.agents[f.turns[t].agent].status = IF Registered(f, f.turns[t].agent) THEN "ready" ELSE @,
                 !.shards[s].sess[x] = "open", !.shards[s].mapped = @ \union {x}]

TurnReusesBlindly(t) ==
    /\ Quiet /\ turns[t].phase = "opening" /\ turns[t].session # 0
    /\ Becomes(Open(fleet, t, turns[t].session))
    /\ UNCHANGED <<retiring, closing, crashes>>
(* The session of the continuation is available: idle, live or resumed. *)
TurnReuses(t) ==
    LET s == ShardOf(t)
        x == turns[t].session
    IN /\ Quiet /\ turns[t].phase = "opening" /\ x # 0
       /\ Becomes(IF Busy(s, x) THEN Failing(fleet, t) ELSE Open(fleet, t, x))
       /\ UNCHANGED <<retiring, closing, crashes>>

(* There was none, or it turned out to be unavailable: Codex retires what  *)
(* its registry still knows, which a session reopened meanwhile refuses.   *)
TurnOpensFresh(t) ==
    LET s == ShardOf(t)
        x == turns[t].session
        codex == shards[s].backend = "codex"
    IN /\ Quiet /\ turns[t].phase = "opening"
       /\ codex \/ x = 0 \/ SessionsOn(s)[x] = "none"
       /\ Becomes(IF codex /\ x # 0 /\ (SessionsOn(s)[x] = "open" \/ Busy(s, x)) THEN Failing(fleet, t)
                  ELSE Open([fleet EXCEPT !.shards[s].sess[x] = "none"], t, t))
       /\ UNCHANGED <<retiring, closing, crashes>>

(* The settled 'turn' event reaches the fleet before #admit resumes. *)
OnTurnEvent(f, t, c) ==
    IF Registered(f, f.turns[t].agent) /\ f.turns[t].session \in f.shards[f.turns[t].shard].mapped
    THEN DrainHeard(f, c) ELSE f

(* The turn completes. Copilot's session is stopped by that; a Codex one   *)
(* when quiesce(), which #admit calls next, has confirmed it.              *)
TurnCompletes(t) ==
    LET s == ShardOf(t)
        x == turns[t].session
        f == [fleet EXCEPT !.turns[t].phase = "confirming",
                           !.shards[s].sess[x] = IF shards[s].backend = "codex" \/ @ = "none" THEN @ ELSE "stopped"]
    IN /\ Quiet /\ turns[t].phase = "running"
       /\ \E c \in Calls(0) : Becomes([OnTurnEvent(f, t, c) EXCEPT !.agents[turns[t].agent].session = x])
       /\ UNCHANGED <<retiring, closing, crashes>>

(* The turn fails, is interrupted or times out, which leaves its session   *)
(* open on Codex; so does a thread found active before it was reused.      *)
(* Copilot drops its session when the turn stalled.                        *)
TurnFails(t) ==
    LET s == ShardOf(t)
        x == turns[t].session
    IN /\ Quiet /\ turns[t].phase \in {"opening", "running"}
       /\ \/ /\ turns[t].phase = "opening" \/ shards[s].backend = "codex"
             /\ \E c \in Calls(0) : Becomes(OnTurnEvent(Failing(fleet, t), t, c))
          \/ /\ turns[t].phase = "opening" /\ shards[s].backend = "codex" /\ x # 0
             /\ Becomes([Failing(fleet, t) EXCEPT !.shards[s].sess[x] = IF @ = "none" THEN @ ELSE "open"])
          \/ /\ turns[t].phase = "running" /\ shards[s].backend = "copilot"
             /\ \E left \in {"none", shards[s].sess[x]}, c \in Calls(0) :
                   Becomes(OnTurnEvent([Failing(fleet, t) EXCEPT !.shards[s].sess[x] = left], t, c))
       /\ UNCHANGED <<retiring, closing, crashes>>

(* The finally clause of #admit. *)
Settle(f, t, phase) == [f EXCEPT !.turns[t] = [NewTurn(f.turns[t].agent) EXCEPT !.phase = phase]]
FinallyForgetful(f, t, phase, c) ==
    DrainHeard([Settle(f, t, phase) EXCEPT !.active = IF phase = "failed" THEN @ ELSE @ - 1], c)
FinallyIdle(f, t, phase, c) == [Settle(f, t, phase) EXCEPT !.active = @ - 1]
Finally(f, t, phase, c) == DrainHeard([Settle(f, t, phase) EXCEPT !.active = @ - 1], c)

(* quiesce() has answered, and its refusal is swallowed. *)
TurnResolves(t) ==
    LET s == ShardOf(t)
        x == turns[t].session
        canConfirm == Asks(s) /\ SessionsOn(s)[x] # "none"
    IN /\ turns[t].phase = "confirming" /\ (Quiet \/ TurnDue(t))
       /\ \E confirmed \in IF StopsAreConfirmed /\ canConfirm THEN {TRUE} ELSE {FALSE, canConfirm}, c \in Calls(0) :
             Becomes(Finally(IF confirmed THEN [fleet EXCEPT !.shards[s].sess[x] = "stopped"] ELSE fleet,
                             t, "done", c))
       /\ UNCHANGED <<retiring, closing, crashes>>

TurnRejects(t) ==
    /\ turns[t].phase = "failing"
    /\ \E c \in Calls(0) : Becomes(Finally(fleet, t, "failed", c))
    /\ UNCHANGED <<retiring, closing, crashes>>

-----------------------------------------------------------------------------
(* Spend: #recordUsage, #recalculateBudget, #handleBackendCeiling.         *)

Spent(f) == MapThenSumSet(LAMBDA a : f.agents[a].cost, AgentsOf(f))

(* The ceiling is reached, for the first time: what is queued is rejected. *)
TripLeavingQueue(f) == [f EXCEPT !.exceeded = TRUE]
Trip(f) ==
    IF f.exceeded THEN f
    ELSE [f EXCEPT !.exceeded = TRUE, !.queue = <<>>,
                   !.turns = [t \in Turns |-> IF f.turns[t].phase = "queued"
                                              THEN [NewTurn(f.turns[t].agent) EXCEPT !.phase = "refused"]
                                              ELSE f.turns[t]]]

(* A usage event of a Copilot session the fleet has attributed: the latest *)
(* cost of its agent replaces the one before.                              *)
Attributable(t) ==
    Registered(fleet, turns[t].agent) /\ turns[t].session \in shards[ShardOf(t)].mapped
RecalculatedUnsticky(f) ==
    IF Spent(f) >= ceiling THEN Trip(f) ELSE [f EXCEPT !.exceeded = FALSE]
Recalculated(f) == IF Spent(f) >= ceiling THEN Trip(f) ELSE f
Usage(t, cost) ==
    /\ Quiet /\ turns[t].phase = "running" /\ shards[ShardOf(t)].backend = "copilot" /\ Attributable(t)
    /\ LET f == [fleet EXCEPT !.agents[turns[t].agent].cost = cost]
       IN Becomes(IF ceiling = 0 THEN f ELSE Recalculated(f))
    /\ UNCHANGED <<retiring, closing, crashes>>

(* A Codex turn ended by the spend wall of the backend: its 'turn' event,  *)
(* then 'budgetCeilingReached', then the rejection of its promise.         *)
BackendCeiling(t) ==
    /\ Quiet /\ turns[t].phase = "running" /\ shards[ShardOf(t)].backend = "codex"
    /\ \E c \in Calls(0) :
          LET f == OnTurnEvent(Failing(fleet, t), t, c)
          IN Becomes(IF Attributable(t) THEN Trip(f) ELSE f)
    /\ UNCHANGED <<retiring, closing, crashes>>

-----------------------------------------------------------------------------
(* Shards start, fail to start and die; #handleShardLost, #recoverAgent.   *)

ShardStartUp(s) ==
    /\ Quiet /\ shards[s].proc = "starting"
    /\ shards' = [shards EXCEPT ![s].proc = "up"]
    /\ UNCHANGED <<agents, turns, queue, activeTurns, exceeded, recoveries, retiring, closing, crashes>>

(* Everything that awaits an answer of the runtime of s is going to reject. *)
(* A quiesce() is no exception, but #admit swallows its refusal.            *)
RejectedRecoveries(f, s) ==
    [f EXCEPT !.recoveries = {IF r.shard = s THEN [r EXCEPT !.phase = "failing"] ELSE r : r \in @}]
Rejected(f, s) ==
    LET waits(t) == f.turns[t].shard = s /\ f.turns[t].phase \in {"starting", "opening", "running"}
    IN [f EXCEPT !.turns = [t \in Turns |-> IF waits(t) THEN [f.turns[t] EXCEPT !.phase = "failing"]
                                            ELSE f.turns[t]],
                 !.recoveries = {IF r.shard = s THEN [r EXCEPT !.phase = "failing"] ELSE r : r \in @}]

(* start() rejects and nothing is reported lost: a handshake that is       *)
(* refused or times out, a Copilot client that does not come up.           *)
StartFails(s) ==
    /\ Quiet /\ shards[s].proc = "starting"
    /\ Becomes(Rejected([fleet EXCEPT !.shards[s].proc = "idle"], s))
    /\ UNCHANGED <<retiring, closing, crashes>>

(* #recoverAgent until its first await. *)
RecoverAgent(f, a) ==
    IF CanAssign(f, a)
    THEN LET g == Acquire(f, a)
             s == g.agents[a].shard
         IN Start([g EXCEPT !.recoveries = @ \union {[agent |-> a, shard |-> s, phase |-> "starting", session |-> 0]}], s)
    ELSE [f EXCEPT !.agents[a].status = "lost"]

(* What #handleShardLost does to the n-th member of the dead shard. *)
LoseMember(f, a, n, c) ==
    IF ~Registered(f, a) THEN f
    ELSE IF a \in Ephemeral \/ ~autoRecover THEN Hears([f EXCEPT !.agents[a].status = "lost"], "shardLost", n, c)
    ELSE LET g == Hears([f EXCEPT !.agents[a].status = "recovering", !.agents[a].shard = 0], "shardLost", n, c)
         IN IF CanAssign(g, a) THEN RecoverAgent(g, a) ELSE Hears(RecoverAgent(g, a), "agentLost", n, c)
LoseMembers(f, list, c) ==
    LET after[n \in 0..Len(list)] == IF n = 0 THEN f ELSE LoseMember(after[n - 1], list[n], n, c)
    IN after[Len(list)]

(* The dead shard is untracked before its agents are recovered. *)
HandleShardLostTracked(f, s, c) ==
    DrainHeard(LoseMembers(Hears([f EXCEPT !.shards[s].members = <<>>], "shardLost", 0, c), f.shards[s].members, c), c)
HandleShardLost(f, s, c) ==
    LET g == [f EXCEPT !.shards[s].tracked = FALSE, !.shards[s].members = <<>>]
    IN DrainHeard(LoseMembers(Hears(g, "shardLost", 0, c), f.shards[s].members, c), c)

(* The process of a Codex shard exits: its pending requests and turns are  *)
(* rejected and its registry forgotten before the fleet hears of it.       *)
ShardLost(s) ==
    /\ Quiet /\ shards[s].backend = "codex" /\ shards[s].proc \in {"starting", "up"} /\ crashes < MaxCrashes
    /\ crashes' = crashes + 1
    /\ \E c \in Calls(1) :
          Becomes(HandleShardLost(Rejected([fleet EXCEPT !.shards[s].proc = "down",
                                                         !.shards[s].sess = [x \in Sessions |-> "none"]], s), s, c))
    /\ UNCHANGED <<retiring, closing>>

(* The new shard is up: the session is mapped before resume() is awaited. *)
RecoveryResumesUnmapped(r) ==
    /\ r.phase = "starting" /\ shards[r.shard].proc = "up"
    /\ Becomes([fleet EXCEPT !.recoveries = (@ \ {r})
                   \union {[r EXCEPT !.phase = "resuming", !.session = agents[r.agent].session]}])
    /\ UNCHANGED <<retiring, closing, crashes>>
RecoveryResumes(r) ==
    LET x == agents[r.agent].session
    IN /\ r.phase = "starting" /\ shards[r.shard].proc = "up"
       /\ Becomes([fleet EXCEPT !.recoveries = (@ \ {r}) \union {[r EXCEPT !.phase = "resuming", !.session = x]},
                                !.shards[r.shard].mapped = @ \union {x}])
       /\ UNCHANGED <<retiring, closing, crashes>>

RecoverySucceeds(r) ==
    /\ Quiet /\ r.phase = "resuming" /\ r.session # 0
    /\ \E c \in Calls(0) :
          Becomes(DrainHeard([fleet EXCEPT !.recoveries = @ \ {r},
                                           !.shards[r.shard].sess[r.session] = "stopped",
                                           !.shards[r.shard].mapped = @ \union {r.session},
                                           !.agents[r.agent].session = r.session,
                                           !.agents[r.agent].status = IF Registered(fleet, r.agent) THEN "ready" ELSE @], c))
    /\ UNCHANGED <<retiring, closing, crashes>>

(* The catch clause: the agent stays on its new shard, and nothing drains. *)
RecoveryFailsSilently(r) ==
    /\ r.phase = "failing" \/ (Quiet /\ r.phase = "resuming")
    /\ Becomes([fleet EXCEPT !.recoveries = @ \ {r}])
    /\ UNCHANGED <<retiring, closing, crashes>>
RecoveryFails(r) ==
    /\ r.phase = "failing" \/ (Quiet /\ r.phase = "resuming")
    /\ Becomes([fleet EXCEPT !.recoveries = @ \ {r},
                             !.agents[r.agent].status = IF Registered(fleet, r.agent) THEN "lost" ELSE @])
    /\ UNCHANGED <<retiring, closing, crashes>>

-----------------------------------------------------------------------------
(* retireAgent, quiesce and close.                                         *)

(* The end of retireAgent: the agent leaves the shard captured when it was *)
(* called (0: none was tracked), and the map.                              *)
Forget(f, a, s, c) ==
    LET g == IF s = 0 THEN f
             ELSE [f EXCEPT !.shards[s].members = RemoveFirst(@, a),
                            !.shards[s].mapped = @ \ {f.agents[a].session}]
    IN DrainHeard([g EXCEPT !.agents[a].known = "gone", !.agents[a].status = "retired"], c)

RetireBegins(a) ==
    LET s == agents[a].shard
        located == s # 0 /\ shards[s].tracked
    IN /\ MayRetire /\ Registered(fleet, a) /\ retiring[a].phase = "no"
       /\ IF located /\ agents[a].session # 0
          THEN /\ retiring' = [retiring EXCEPT ![a] = [phase |-> "stopping", shard |-> s, session |-> agents[a].session]]
               /\ UNCHANGED fleetVars
          ELSE \E c \in Calls(1) : Becomes(Forget(fleet, a, IF located THEN s ELSE 0, c)) /\ UNCHANGED retiring
       /\ UNCHANGED <<closing, crashes>>

(* quiesce() has confirmed the stop of the session it was given; retire()  *)
(* is called with the session of that moment and refuses an active one.    *)
RetireQuiesced(a) ==
    LET s == retiring[a].shard
        x == retiring[a].session
        y == agents[a].session
        codex == shards[s].backend = "codex"
        sess == [shards[s].sess EXCEPT ![x] = IF @ = "none" THEN @ ELSE "stopped"]
        refused == sess[y] # "none" /\ (Busy(s, y) \/ (codex /\ sess[y] = "open"))
    IN /\ retiring[a].phase = "stopping" /\ (Quiet \/ RetireDue(a))
       /\ ~Busy(s, x) /\ (codex => shards[s].proc = "up")
       /\ shards' = [shards EXCEPT ![s].sess = [sess EXCEPT ![y] = IF codex /\ ~refused THEN "none" ELSE @]]
       /\ retiring' = [retiring EXCEPT ![a] = IF refused THEN NotRetiring ELSE [phase |-> "releasing", shard |-> s, session |-> y]]
       /\ UNCHANGED <<agents, turns, queue, activeTurns, exceeded, recoveries, closing, crashes>>

(* Either call was refused, or Copilot could not disconnect. *)
RetireFails(a) ==
    /\ Quiet \/ RetireDue(a)
    /\ \/ retiring[a].phase = "stopping"
       \/ retiring[a].phase = "releasing" /\ shards[retiring[a].shard].backend = "copilot"
    /\ retiring' = [retiring EXCEPT ![a] = NotRetiring]
    /\ UNCHANGED <<fleetVars, closing, crashes>>

Released(a) ==
    LET s == retiring[a].shard
        y == retiring[a].session
    IN /\ retiring[a].phase = "releasing" /\ (Quiet \/ RetireDue(a))
       /\ \E c \in Calls(1) :
             Becomes(Forget([fleet EXCEPT !.shards[s].sess[y] = IF shards[s].backend = "codex" THEN @ ELSE "none"], a, s, c))
       /\ retiring' = [retiring EXCEPT ![a] = NotRetiring]
       /\ UNCHANGED <<closing, crashes>>

(* quiesce(agentId) succeeds between two turns. *)
Quiesce(a) ==
    LET s == agents[a].shard
        x == agents[a].session
    IN /\ Registered(fleet, a) /\ x # 0 /\ s # 0 /\ shards[s].tracked
       /\ shards[s].backend = "codex" /\ shards[s].proc = "up" /\ shards[s].sess[x] = "open" /\ ~Busy(s, x)
       /\ shards' = [shards EXCEPT ![s].sess[x] = "stopped"]
       /\ UNCHANGED <<agents, turns, queue, activeTurns, exceeded, recoveries, retiring, closing, crashes>>

(* close(): the queue is rejected, every tracked shard is closed in turn,  *)
(* also one created meanwhile, and the tables are cleared.                 *)
CloseBegins ==
    /\ MayClose /\ closing = 0 /\ closing' = 1
    /\ Becomes([fleet EXCEPT !.queue = <<>>,
                   !.turns = [t \in Turns |-> IF turns[t].phase = "queued"
                                              THEN [NewTurn(turns[t].agent) EXCEPT !.phase = "refused"]
                                              ELSE turns[t]]])
    /\ UNCHANGED <<retiring, crashes>>

CloseShard(s) ==
    /\ Quiet /\ closing \in Shards /\ s >= closing /\ shards[s].tracked
    /\ \A r \in closing..(s - 1) : ~shards[r].tracked
    /\ closing' = s + 1
    /\ Becomes(Rejected([fleet EXCEPT !.shards[s].proc = "idle",
                                      !.shards[s].sess = [x \in Sessions |-> "none"]], s))
    /\ UNCHANGED <<retiring, crashes>>

CloseEnds ==
    /\ Quiet /\ closing \in 1..MaxShards /\ \A s \in closing..MaxShards : ~shards[s].tracked
    /\ closing' = Closed
    /\ shards' = [s \in Shards |-> [shards[s] EXCEPT !.tracked = FALSE]]
    /\ UNCHANGED <<agents, turns, queue, activeTurns, exceeded, recoveries, retiring, crashes>>

-----------------------------------------------------------------------------
TurnStep(t) ==
    \/ TurnStart(t) \/ TurnReuses(t) \/ TurnOpensFresh(t) \/ TurnCompletes(t) \/ TurnFails(t)
    \/ TurnResolves(t) \/ TurnRejects(t) \/ BackendCeiling(t)
ShardStep(s) == ShardStartUp(s) \/ StartFails(s)
RecoveryStep(r) == RecoveryResumes(r) \/ RecoverySucceeds(r) \/ RecoveryFails(r)
RetireStep(a) == RetireQuiesced(a) \/ RetireFails(a) \/ Released(a)

(* What answers a call or runs a continuation, not the application. *)
Answer ==
    \/ \E t \in Turns : TurnStep(t)
    \/ \E s \in Shards : ShardStep(s)
    \/ \E r \in recoveries : RecoveryStep(r)

Next ==
    \/ Answer
    \/ \E a \in Agents : RequestAgent(a) \/ RetireBegins(a) \/ RetireStep(a) \/ Quiesce(a)
    \/ \E t \in Turns, a \in Agents, p \in Priorities : Run(t, a, p)
    \/ \E t \in Turns, cost \in Costs : Usage(t, cost)
    \/ \E s \in Shards : ShardLost(s) \/ CloseShard(s)
    \/ CloseBegins \/ CloseEnds

Spec == Init /\ [][Next]_vars

(* Every call of the fleet on a runtime is answered sooner or later: each   *)
(* has a timeout (requests 30 s, turns and their quiescence bounds of their *)
(* own), and its continuation runs. Nothing obliges the application to call *)
(* or a process to die, and an answer may always be a failure. A run causes *)
(* finitely many answers, so one fairness condition serves them all.        *)
FairSpec == Spec /\ WF_vars(Answer)

-----------------------------------------------------------------------------
Phases == {"new", "queued", "taken", "refused", "done", "failed"} \union InFlightPhases
AgentRecords == [known : {"no", "yes", "gone"},
                 status : {"unassigned", "ready", "recovering", "lost", "retired"},
                 shard : Shards \union {0}, session : Sessions, cost : Costs \union {0}]
ShardRecords == [backend : Backends \union {"none"}, tracked : BOOLEAN,
                 proc : {"idle", "starting", "up", "down"}, members : Seq(Agents),
                 mapped : SUBSET Sessions, sess : [Sessions -> {"none", "open", "stopped"}]]
TurnRecords == [phase : Phases, agent : Agents \union {"none"}, prio : Priorities \union {0},
                shard : Shards \union {0}, session : Sessions]
Recoveries == [agent : Agents, shard : Shards, phase : {"starting", "resuming", "failing"},
               session : Sessions]

(* Types; and whatever waits for a shard names one.                        *)
TypeOK ==
    /\ agents \in [Agents -> AgentRecords]
    /\ shards \in [Shards -> ShardRecords]
    /\ turns \in [Turns -> TurnRecords]
    /\ queue \in Seq(Turns)
    /\ activeTurns \in 0..MaxTurns /\ exceeded \in BOOLEAN
    /\ recoveries \subseteq Recoveries
    /\ retiring \in [Agents -> [phase : {"no", "stopping", "releasing"},
                                shard : Shards \union {0}, session : Sessions]]
    /\ closing \in 0..Closed /\ crashes \in 0..MaxCrashes
    /\ \A t \in InFlight : turns[t].phase # "stranded" => turns[t].shard # 0

(* However a turn ends, it is counted exactly while it is in flight; each  *)
(* waiting run is in the queue once, also when a drain nests in another;   *)
(* and the fleet-wide limit holds whatever admissions race in one drain,   *)
(* up to the one entry a drain has taken and not yet counted when a        *)
(* listener of queueDepth calls run() (fleet.mjs:429-450).                 *)
Accounting ==
    /\ activeTurns = Cardinality(InFlight)
    /\ activeTurns <= maxConcurrentTurns + (IF ListenersCall THEN 1 ELSE 0)
    /\ \A t \in Turns : Cardinality({i \in 1..Len(queue) : queue[i] = t})
                           = IF turns[t].phase = "queued" THEN 1 ELSE 0

(* Sharding: an agent's shardId and the agentIds of the shards tell the    *)
(* same story across crashes, recoveries and retirements, no process is    *)
(* shared by more agents than allowed and no backend has more processes.   *)
Placement ==
    /\ \A b \in Backends : Cardinality(ShardList(fleet, b)) <= maxProcesses
    /\ \A s \in Shards : shards[s].tracked =>
          Len(shards[s].members) <= maxSessionsPerProcess
    /\ \A a \in AgentsOf(fleet), s \in Shards : shards[s].tracked =>
          /\ (\E i \in 1..Len(shards[s].members) : shards[s].members[i] = a) <=> agents[a].shard = s
          /\ agents[a].shard = s => shards[s].backend = BackendOf(a)

(* #drain() is called wherever something it waits for happens: no entry    *)
(* stays queued that could have been admitted, although no timer retries.  *)
(* The end of close() is excepted: it clears the tables, which makes room  *)
(* for what was called meanwhile, and drains nothing (fleet.mjs:232).      *)
NoIdleWaiter ==
    (closing # Closed /\ ~exceeded /\ activeTurns < maxConcurrentTurns)
        => \A i \in 1..Len(queue) : ~Admissible(fleet, queue[i])

(* The spend ceiling trips no later than the spend of the fleet's agents   *)
(* reaches it, and from then on nothing waits for admission.               *)
SpendGate ==
    /\ (ceiling # 0 /\ Spent(fleet) >= ceiling) => exceeded
    /\ exceeded => queue = <<>>

(* Once the ceiling was reached no turn starts, even after agents whose    *)
(* spend made it are retired.                                              *)
AdmissionStops ==
    [][exceeded => exceeded' /\ \A t \in Turns : turns[t].phase # "starting" => turns'[t].phase # "starting"]_vars

(* Priority, then FIFO: an admission never passes over an entry that was   *)
(* there before, ranks higher and could still be admitted in its place.    *)
Precedes(u, t) == turns'[u].prio > turns'[t].prio \/ (turns'[u].prio = turns'[t].prio /\ u < t)
NoOvertaking ==
    [][\A t, u \in Turns :
          /\ turns[t].phase \in {"new", "queued"} /\ turns'[t].phase = "starting"
          /\ turns'[u].phase = "queued" /\ Precedes(u, t)
          /\ ListenersCall => turns[u].phase = "queued"
          => ~Admissible(fleet', u)]_vars

(* An agent marked recovering has a recovery under way that will settle    *)
(* its fate, also when the shard it recovers on dies in its turn.          *)
RecoveringIsWorkedOn ==
    \A a \in AgentsOf(fleet) :
        agents[a].status = "recovering" => \E r \in recoveries : r.agent = a

(* The events of a running turn, and those that resume() publishes while   *)
(* it is awaited, can be attributed to the agent: its session is mapped.   *)
Attributed ==
    /\ \A t \in Turns : turns[t].phase = "running" /\ Registered(fleet, turns[t].agent)
          => turns[t].session \in shards[turns[t].shard].mapped
    /\ \A r \in recoveries : r.phase = "resuming" /\ r.session # 0 /\ Registered(fleet, r.agent)
          => r.session \in shards[r.shard].mapped

(* The runs of one agent never put two turns on its session at once.       *)
ExclusiveSession ==
    \A t, u \in Turns : t # u /\ turns[t].phase = "running" /\ turns[u].phase = "running"
        => turns[t].shard # turns[u].shard \/ turns[t].session # turns[u].session

(* A turn that was admitted settles, whatever happens to its process, and  *)
(* a recovery ends: the agent is ready, lost, or was retired meanwhile. As *)
(* long as no listener calls run() and the fleet has not been closed, an   *)
(* admitted turn has a shard, so it is not stranded (fleet.mjs:449-451).   *)
EverythingSettles ==
    /\ \A t \in Turns : turns[t].phase \in {"starting", "stranded"}
          ~> \/ turns[t].phase \in {"done", "failed"}
             \/ turns[t].phase = "stranded" /\ (ListenersCall \/ closing = Closed)
    /\ \A a \in Agents : agents[a].status = "recovering" ~> agents[a].status # "recovering"

(* Where the shards have room for every agent, a queued run is admitted or *)
(* rejected, unless its agent is lost or retired while it waits. After     *)
(* close() nothing is promised: a stranded turn keeps its slot.            *)
QueuedProgress ==
    \A t \in Turns : turns[t].phase = "queued"
        ~> \/ turns[t].phase # "queued"
           \/ agents[turns[t].agent].status \in {"lost", "retired"}
           \/ closing = Closed

-----------------------------------------------------------------------------
(* What the texts of the repository promise and the code does not keep: to *)
(* be checked again when it is mended.                                     *)

(* A queued run() is admitted or rejected in the end: nothing else tells   *)
(* its caller. (run()'s contract: queues, or resolves to a rejection.)     *)
QueuedSettles == \A t \in Turns : turns[t].phase = "queued" ~> turns[t].phase # "queued"

(* maxConcurrentTurns is the "fleet-wide in-flight turn cap" (line 34).    *)
(* A listener of queueDepth that calls run() nests a drain that counts on  *)
(* the slot of the entry already taken.                                    *)
TurnCap == activeTurns <= maxConcurrentTurns

(* run() "queues, or resolves immediately to a rejection" (lines 111-114). *)
(* Line 451 throws, before the try block and after the turn was counted,   *)
(* when the agent's shard is not in the tables: after close(), or when a   *)
(* listener of shardLost calls run() before its agent is marked.           *)
NoneStranded == \A t \in Turns : turns[t].phase # "stranded"

(* When no turn of a Codex agent is in flight, its session can be reused:  *)
(* the fleet has confirmed its stop on every settled turn.                 *)
SettledIsReusable ==
    \A a \in AgentsOf(fleet) \intersect Codex :
        (\A t \in InFlight : turns[t].agent # a) /\ agents[a].shard # 0
            => shards[agents[a].shard].sess[agents[a].session] # "open"

(* A retired agent frees its slot: the members of the shards in use are    *)
(* agents of the fleet.                                                    *)
NoGhosts ==
    \A s \in Shards : shards[s].tracked =>
        \A i \in 1..Len(shards[s].members) : Registered(fleet, shards[s].members[i])

(* When close() has returned no process of the fleet is left.              *)
ClosedIsDown ==
    closing = Closed => \A s \in Shards : shards[s].proc \notin {"starting", "up"}
=============================================================================
