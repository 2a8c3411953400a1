# A formal model of floe-runtime

floe-runtime drives coding agents of two backends, `codex app-server` (a child
process that speaks JSON-RPC) and the Copilot SDK, behind one interface: it runs
turns, answers permission prompts, reuses and resumes conversations, publishes
events that can be replayed, and spreads many agents over a bounded number of
processes with a limit on turns in flight and on money.

This directory models that control in TLA+, checks it with TLC on small
instances, and proves part of it with TLAPS for all instances. Line numbers
below are those of `src/src/`. `PROJECT.json` maps each definition to the lines
it stands for, and lists the runs, the mutants (a plausible bug in one
definition, which the named property must catch), the findings and the hazards.

## 1. The system

JavaScript runs a handler to its next `await` without interruption. What is hard
here is therefore never a data race, but what may happen *between two awaits*: a
process dies, a notification arrives, a timer fires, the application calls again.
When a promise is settled its continuations (microtasks) run before the next event
of the outside world.

| Component (source) | State | Operations | What makes it correct |
|---|---|---|---|
| **Fleet** (`fleet.mjs`) | agents, shards (a runtime with the agents placed on it), queue of runs, `activeTurns`, budget, `sessionToAgent` | `requestAgent`, `run`, `#drain`/`#admit`, `#handleShardLost`/`#recoverAgent`, usage events, `retireAgent`, `quiesce`, `close` | limits are kept whatever ends a turn; nothing is left waiting that could run; agents and shards agree across crashes; every admitted turn and recovery ends; a reached ceiling stays reached |
| **EventLog, watchEvents** (`events.mjs`) | `seqs`, bounded `buffers`; per feed a backlog, a queue and a waiter | `publish`, `since`, `clear`; subscribe, pull, leave | a consumer sees each event once, in order, or is told how many it missed |
| **CodexRuntime** (`adapters/codex.mjs`) | `turns`, `serverRequests`, sessions, overrides, goals | `run`, `interrupt`, `quiesce`, `retire`, `resume`, `respond`, notes and prompts of the server | one turn per thread; a run is told its own outcome; a confirmed stop is one; a turn is limited in time, the time a human takes not counted |
| **Runtime** (`runtime.mjs`) | `peer`, `ready`, `starting`, `losing`, prompt timers | `start`, `close`, `#lost`, permission policy, unhandled-request timeout | one process at a time; every prompt is answered; a loss is reported once |
| **JsonRpcPeer** (`jsonrpc.mjs`) | `pending`, `awaitingResponse`, frame buffer | `request`, `respond`, `#dispatch`, `reset`, `terminate` | a promise settles once, by its own reply, its timeout or the loss |
| **SessionRegistry** (`session-reuse.mjs`) | entry per session: key, `stopped`, result | `set`, `markStopped`, `isReusable`, `delete` | reuse only of a session confirmed stopped, under the same key |
| **CopilotRuntime** (`adapters/copilot.mjs`) | per session id: the SDK's session object, a record with its model, the live turn with a limit and a progress timer, a compaction | `run`, `setModel`, `#handleEvent`, `#finishTask`, `#failStalledTask`, `interrupt`, `quiesce`, `retire`, `resume`, `compact`, `close` | a turn settles once although idle, stall, abort, limit and a failed send race; a completion is the run's own; a run starts on the model it names; a stop is not confirmed while a shell may survive |
| **Tool gate** (`copilot-tools.mjs`) | the selection of tools a session was opened, continued or switched with; the hook | selection, preparation of a session, `permissionPolicy`, `beforeToolUse` | no prompt goes to a session with other tools than selected; no tool runs that the callbacks did not let through as it runs |
| **Account, login sources** (`copilot-account.mjs`, `copilot-login-sources.mjs`, `github-user.mjs`) | a saved choice of login, the published state, the running check, sign-ins with their child, client, session and pending question | `check`, `useExistingLogin`, `forgetExistingLogin`, `startSignIn`, `continueSignIn`, `cancelSignIn`, `close` | the published state is that of the saved choice; a sign-in ends once and leaves nothing running; an answer reaches the step it was given for |
| **Pure parts** (`schema.mjs`, `system-message.mjs`, `compaction.mjs`, `activity.mjs`, `permissions.mjs`, `capabilities.mjs`, `errors.mjs`) | none | functions | |

Interactions: the application calls the Fleet or a runtime; the Fleet owns runtimes
and hears their events (`turn`, `usage`, `budgetCeilingReached`, `lost`)
synchronously; a runtime owns one peer at a time, whose two pipes are FIFO; both
publish into an EventLog. There is no shared memory and no locking.

What is hard, in the order the hazards of `PROJECT.json` are grouped:
*interleavings over an await* with state read before it (retirement against a
crash, overlapping runs, a stop confirmed for an entry that was replaced, a model
switched while a run prepares the session, a sign-in cancelled while it starts);
*crash and recovery* (a process that dies while agents are recovered on it, while
the fleet closes, while `onStart` is pending); *ordering* (notes of an earlier
turn, events before their session is mapped, priority and FIFO); *timeouts*
racing late answers (requests, prompts, the limit and the stall of a turn, the
callbacks that decide on a tool call); *limits* (slots,
processes, turns, replay buffer, money); *progress without timers* (the queue
advances only if whatever frees a place drains it).

## 2. Modules

| Module | Models | Kind |
|---|---|---|
| `EventFeed` | what the stream of one conversation promises a consumer | abstract specification |
| `EventLog` | `events.mjs` | detailed; implements `EventFeed` |
| `EventLogProofs` | theorems on `EventLog` | proofs |
| `EventFeedProofs` | `EventLog` implements `EventFeed`, for every instance | proofs |
| `Fleet` | `fleet.mjs`, with the runtimes below it as the answers they can give | detailed |
| `FleetProofs` | theorems on the limits of `Fleet` | proofs |
| `FleetPlacementProofs` | theorems on where `Fleet` puts its agents, what it knows of their sessions, and whom it admits | proofs |
| `CodexTurn` | the turns of one thread: `codex.mjs` on `runtime.mjs` and `jsonrpc.mjs`, with the app-server as environment | detailed |
| `CodexTurnProofs` | theorems on `CodexTurn` | proofs |
| `RuntimeTurn` | what a runtime promises about the turns of one session | abstract specification |
| `CopilotTurn` | one session of `copilot.mjs`, with the SDK and its process as environment | detailed; implements `RuntimeTurn` |
| `CopilotTurnProofs` | the refinement and the safety invariants, for every instance | proofs |
| `ToolGate` | `copilot-tools.mjs` with its callers in `copilot.mjs`: what stands between a tool call and its effects | detailed |
| `ToolGateProofs` | theorems on `ToolGate` | proofs |
| `CopilotAccount` | `copilot-account.mjs` with `copilot-login-sources.mjs` | detailed |
| `CopilotAccountProofs` | theorems on `CopilotAccount` | proofs |
| `MCEventLog`, `MCFleet`, `MCCodexTurn`, `MCCopilotTurn`, `MCToolGate`, `MCCopilotAccount` | names, constants and symmetries for TLC | instances |

Beside some definitions stands a mutant, the same definition with a plausible bug
(`MissedOffByOne` beside `Missed`, `ClaimsUnchecked` beside `Claims`). No
specification uses them; `PROJECT.json` says which property each of them breaks.

How the modules meet. The Fleet sees a runtime only through the answers of
`TurnStep`, `ShardStep` and `RecoveryStep`: a run settles or is rejected, a session
is reused, refused or replaced, a process is lost. `CodexTurn` and `CopilotTurn`
are the two sides that give these answers; `RuntimeTurn` is the part of their
contract that both state about one session, shown here for `CopilotTurn`.
`CopilotTurn` takes the preparation of a session as one answer (it succeeds, or
the session is disconnected and forgotten); `ToolGate` opens that step up, and
`CopilotAccount` stands behind the account check that precedes it.

### 2.1 EventLog

`seqs` and `buffers` are the two maps of the class. A feed is an async generator:
`pc[w]` is where it is suspended, `backlog` what it took from the buffer when
`events()` was called, `queue` what `push` added since, `closed` the flag `lost`
sets. `Publish` is the whole of `publish` with the `push` of every registered
feed, which runs in the same step; `Watch` the body up to the generator; `Pull*`
one `next()`, which may find an envelope, wait, or end; `Break` the consumer's
`return()`, and `Lost` the event. `cursor` and `told` are the consumer's side: the
last envelope it was handed and what gap envelopes told it. Envelopes carry their
conversation and number; their payload does not matter here.

`EventFeed` says the same without buffers or generators: events are appended, and a
consumer that has a position is handed the next one, or is first told that it
missed what it will skip. `FeedContract` is the refinement (for conversations that
are never cleared, as the text of the source promises nothing across `clear`).

### 2.2 Fleet

State as in the class, plus the state of each shard's runtime (`proc`: not
started, starting, up, down), the session registry of it (`sess`) and the
`sessionToAgent` keys (`mapped`). A run is a record in `turns` with a phase:

    new -> queued -> taken -> starting -> opening -> running -> confirming -> done
       \-> refused        \       \__________\__________\-> failing -> failed
                           \-> stranded

`starting` awaits `shard.runtime.start()` (line 453), `opening` is inside the
adapter's `run()` before `onStart`, `running` after it, `confirming` awaits the
`quiesce()` of line 472, `failing` is a rejected promise whose `catch` has not
run. A queued run can be refused as well, by a ceiling or by `close()`. `#drain` and
`#admit` up to its first await are synchronous, so `Drain` is a function of the fleet
record and part of every action that calls it. `Quiet` is the microtask rule: while a
continuation is due, no event of the outside world happens; the application may call,
from a continuation of its own, and also after `close()`.

The fleet emits events in the middle of a handler, and a listener that calls `run()`
nests a whole `#drain` there. `Calls` are the places where that matters: `queueDepth`
(442), when an entry has left the queue and is not counted yet (phase `taken`);
`admission` (451), between two rounds of the loop; `shardLost` (371) and the events of
the members of a lost shard, when some of its agents still have their old status and
`shardId`. `DrainHeard` and `HandleShardLost` take such a call as an argument, and an
action chooses one, or none. An entry whose agent has no shard, because the nested
drain took its place or the shard has left the tables (`HasShard`), is counted at line
450 and thrown out at 451, before the `try`: it is `stranded`.

One such call is made in each step; a listener called inside a nested drain that calls
again would nest deeper, and each level can raise the number of turns by one more.
Other calls from inside a handler (`retireAgent`, `close`) are not modelled. A call from
an event at either end of a handler is the same as a call before or after it.

The adapters appear through what they can answer: which session is reused, refused
or replaced, how a turn ends, what it costs, whether a stop is confirmed. Sessions
are named by the turn that opened them. Crash recovery follows lines 362-417
exactly, including the order in which `#handleShardLost` forgets the shard, marks
its agents and starts their recoveries. `resume()` is taken to answer the id it was
given, as both adapters do (of Codex, for a thread the server names by the same id): the
other branch of line 407 is left out.

### 2.3 CodexTurn

Two FIFO pipes. A request is a line in `toServer` and an entry of `pending`, and
its reply is matched by caller; a reply to nobody is dropped. `got` holds an answer
whose continuation has not run: a chunk of output may hold several lines, which are
dispatched before the continuation, so `Dispatch` is possible while `got` is not
empty and nothing else is. Once the first continuation runs, the chunk is dispatched,
and the other continuations that are due follow before the next chunk (`draining`). A
reply takes its entry out of `pending` and leaves the others in the order in which
they were sent, which is the order in which they time out. `task` is the entry of `turns` for the thread; `call[r]`
is where `run()` is suspended and `settled[r]` the outcome of its task;
`session` is the registry entry with the owner that set it; `stop[q]` is where
`quiesce()` is. `prompts` is `serverRequests` and `awaiting` is the peer's
`awaitingResponse`: the code answers a prompt in two ways, which touch different
ones of them. `dropped` is history: a run went on after its task was taken from it,
by a run whose late or rejected request ends in the `catch` of line 638, or by the
loss of the process while its `onStart` was pending. The adapter keeps one task per
thread, so nothing it could promise of turns holds after that; section 5 says how it
happens.

The app-server (external) serves lines in order, has one turn at a time, resolves
a turn's prompts before it reports its end, and ends an interrupted turn. It may
hang in any other turn, refuse an idle thread it has unloaded, and send its
`turn/started` before or after the reply to `turn/start`.

Simplifications: one thread (a fresh thread is another one, and a run that gets
one leaves the model as `fresh`); the pages of `thread/backgroundTerminals/*` are
one request that may fail; `turn/completed` and `thread/status/changed` are one
note (the only listener treats them alike); the server's failures of a request are
two, "gone" and "rejected", as `run()` tells them apart (an interrupt is answered "gone"
only to a run, the one caller that looks at it); the spawn and handshake of a new process
are one step. `thread/closed`, which deletes the registry entry (line 154), is left out:
the server of the model answers "gone" instead when it has unloaded a thread.
`Resume` may be called at any time, also while the session has an entry. A turn that
completes may fail its schema, and is settled as failed (`Reported`).

### 2.4 CopilotTurn

One session id. What the adapter keeps of it are the entries of three maps:
`object` (`sessionObjects`; the SDK's session objects are numbered as they are
opened, 0 is no entry), `record` (the model in `sessions`), `turn` (`turns`: the
run whose task it is). Several objects may be connected at a time, because a
`resume()` replaces an entry without disconnecting the old one.

`call[c]` is where a `run()` or `setModel()` is suspended, with the model it asks
for and the object it works on:

    idle -> switching -> validating -\
         -> preparing ----------------+-> opening -> sending -> sent
         -> resuming ----------------/          (any of them) -> over

Up to `opening` the call prepares the session and reads state that other calls
change between its awaits; `Claims` is the second check of line 677, after
`#getSession` has returned, with the installation of the task. `task[r]` carries what
`#handleEvent` changes and what the timers need: the tools that run, whether the
process reported an error, whether a shell may have survived (`unverified`), the
progress timer, the limit (`clock`) and the stall. `Finish` is `#finishTask` with
the other places that settle a task: the timers are cleared and the `quiesce()`
calls that await it go on, in the same step.

Requests of the client travel in order (`wire`), and `Takes` is the process taking
one, with the continuation of whoever awaited the acknowledgement of an abort.
`waits` are the waits of `quiesceTimeoutMs` that run. They last equally long, so
they end in the order in which they began. `agent` is the process: prompts it has
accepted, the one it works on first, the tool it runs. Its events name no turn: they
reach the task that is live when they arrive (`Hears`), which is what
`CompletedIsOwn` is about. `ended`, `cut` and `contested` are history.

`RuntimeTurn` has two variables and two steps: a run takes a session nobody holds,
and the run that holds it is settled, once, by the step that gives it up.
`TurnContract` maps its `turn` and `settled` to those of `CopilotTurn`.

Simplifications: a fresh session is another one, and a run that gets one leaves the
model; effort and context tier are switched with the model and so are part of it; a
`PrepareFails` stands for every failure of the preparation; one tool runs at a time;
the check for a compaction (672) and the lookup of the session object are one step,
although `#assertModelChoice` is awaited between them when there is no object.

### 2.5 ToolGate

The session goes through the awaits of `prepareCopilotToolSession`, each with its
own step, because each establishes one thing and any of them may fail:

    none -> configuring -> mode -> resetting -> listing -> ready
    ready -> configuring (continued)     ready -> switched -> updating -> configuring

`session.sel` is the selection the preparation is for, `hook` that of the closure
the SDK calls, `sdk.allowed` the allowlist of the session: three copies that a
continued or switched session may hold different values of. `sdk` is what the SDK
has (external): the catalog of its model, the tools it lists, its permission mode and
stored approvals, of which a resumed session may have kept anything.

`call[c]` is the hook's evaluation of a tool call, `asked` the callbacks that have
not returned. A callback that is no longer awaited stays in `asked` and may return
at any time (`TooLate`). `granted` and `said` are history: the arguments for which
the policy, and `beforeToolUse`, let the call pass in time. Tools and arguments are
names; arguments are well formed for built-ins or not. A request that gives
`excludedTools`, names a foreign tool or registers one twice is refused; one that gives an empty
`availableTools` selects nothing.

Preparations are taken one at a time: `Continue` and `Switch` wait until the session is
ready. The adapter lets a `run()` and a `setModel()` of one session overlap in the awaits
of their preparations (`copilot.mjs:449-477` and `747-750`), and `ReadyIsExact` says
nothing of that: after it, the session may have the tools of the one and the hook of the
other. `CopilotTurn` has such overlaps (`contested`), without the tools.

### 2.6 CopilotAccount

`check` is the running `#check()`, await by await, with the choice it has read, and
`current` the published state with the choice it was found with. `Ends` is the end
of a check: those who share it go on, those who wait start the next one in the same
step, as the continuations of one promise do. `use[u]` is a change of the saved
login. `op[o]` is a sign-in: `phase` is where its start is (for a device code, the
child that runs), `ending` where its end is:

    no -> releasing -> [clearing ->] waiting or joined -> gone

and `flow[o]` is the step the SDK's login is at (external), `sent[o]` the answers on
their way to it. The files, the stored login, the tokens of other logins and
the person are the environment; `World` lets logins come and go at any moment. The
release of a sign-in (cancel the flow, disconnect, stop the client, awaited one after the
other) is one step: whoever could come between them finds the sign-in ended already.

## 3. What is checked

| Run | Instance | Question, and what it shows |
|---|---|---|
| `event_log` | 2 conversations, 1 consumer, buffer of 2, 4 events, 1 clear | Buffer, gap counts, feeds and the refinement of `EventFeed` hold; a consumer that pulls gets there. |
| `fleet_admission` | 2 Copilot agents, 1 slot, 1 turn in flight, ceiling 2, costs 1 and 2, 3 runs, 2 priorities, retirement, listeners that call `run()` | The count is right however turns end and drains nest, and passes the limit by one at most; nothing admissible is left waiting, priority then FIFO, a session never has two turns, and from the moment the ceiling is reached no run is admitted or waits. |
| `fleet_recovery` | 2 Codex agents, 2 processes of 1 slot, 2 runs, 2 crashes, retirement, close, listeners that call `run()` | Agents and shards agree; an agent marked recovering has somebody who works on it; events can be attributed. |
| `fleet_liveness` | one agent of each backend, 2 runs, 2 crashes, close | Every admitted turn settles unless it was admitted after `close()`, every recovery ends, the queue advances. |
| `codex_turn` | 2 runs, 1 quiesce, 1 interrupt, 1 request timeout, 1 crash, 1 resume, a slow `onStart` | One turn per thread and own outcomes, unless a run had its task taken from it; a quiesce that returns has stopped every turn whose `turn/start` was sent. |
| `codex_prompts` | 1 run with 2 prompts, 1 quiesce, a slow `onStart` | The limit does not run while a prompt is open; everything returns. |
| `copilot_turn` | 2 runs that name a second model, 1 quiesce or interrupt, close, a shell, errors, 1 session object | The contract of `RuntimeTurn`; no progress timer against a running tool; a completion is the run's own; a shell that may have survived is reported. |
| `copilot_session` | 1 run and 1 `setModel` with different models, 1 quiesce or retire, compaction, resume, 2 session objects | A run that names a model starts on it unless two calls prepared the session at once; every run and quiesce returns. |
| `copilot_account` | 1 sign-in of either mode, 1 change of the choice, 1 other accepted login, 1 stale choice | The published state is fresh; a sign-in ends once and leaves nothing; the person's answers arrive where they belong; a cancelled sign-in ends. |
| `tool_gate` | 1 call, built-ins of one and of both catalogs, a tool of the app, a foreign one, 6 selections of which 3 are refused and one is empty, 2 sessions, 2 repetitions of the preparation | A ready session is exact; nothing runs unasked; a call is answered once, and in the end. |
| `failed_turn_blocks_session`, `copilot_quiesce` | the smallest instance | The findings of section 5. |

Why these bounds. Each hazard needs few actors: two agents to compete for a slot,
two runs to overlap on a session, a third to be overtaken, a second crash to hit
the recovery of the first, a buffer of two to evict while a feed holds older
events, two runs and one quiesce for a stop confirmed for the wrong entry, two
prompts for one to be open when the other is answered, one slot and three runs for a
drain that nests to take the place of the entry before it, two runs for one to be told
the other's `session.idle`, two objects for one to be replaced while it is used, two
preparations for a hook and an allowlist to be those of different selections. The
first run of `copilot_turn` continues an open session, so the second is the one that
finds what the first left; the calls that replace objects are in `copilot_session`
instead, with one run. Numbers that only count (crashes, runs, events, timeouts,
objects, `resume` and `interrupt` calls) are bounded by the constants named
`Max...`. That the bounds are not too small is what the mutants show: each property
is violated, under its own run's bounds, by a plausible bug.

Deadlock is not checked outside `event_log`: the other systems may come to rest,
when the calls are used up and everything has returned.

### Fairness

* `EventLog`: weak fairness of `Pull(w)`: a consumer in a `for await` loop asks
  again, and a resolved waiter resumes. Publishers need none.
* `Fleet`: weak fairness of `Answer`, the disjunction of what a runtime or the
  event loop owes: `start()` settles (the handshake has a 30 s timeout), a turn
  ends (it has a limit), `quiesce`, `retire` and `resume` return (their requests
  time out), due continuations run. Crashes and application calls are not fair.
* `CodexTurn`: weak fairness of `System`, one disjunction: continuations, dispatch,
  the server's handling of lines and ends of turns, and the unhandled-request
  timeout. All other steps are bounded in number, so the disjunction suffices. It
  includes the return of the application's `onStart`. A
  server that ends its turns is an assumption: the code's own protection against
  one that does not is the limit of a turn, which section 5 says where it fails.
* `CopilotTurn`: weak fairness of each continuation of a run (the SDK answers the
  requests of a preparation and `send()`), of `Takes` (the process acknowledges what
  it is sent, `abort()` included: the adapter puts no limit on that await), and of
  the timers (the limit of a turn, `quiesceTimeoutMs` after it, after a stall and in
  `quiesce()`). The work of the process is *not* fair: it may be silent or busy for
  ever, and it is the limit of the turn that ends the run. The progress timer is not
  fair either, as events re-arm it.
* `CopilotAccount`: weak fairness of the continuations of a check, a change of the
  choice, and the start and end of a sign-in: files and the SDK answer. A child that
  was killed exits. The person and the SDK's login steps are not fair.
* `ToolGate`: weak fairness of `TimesOut(c)` alone: the timers fire.

## 4. What is proved

All theorems hold for every value of the constants that meets the named assumptions
of the modules.

**`EventLogProofs`**, from `ConvAssumption` and `SizeAssumption` (each consumer
follows one conversation; sizes are naturals):

| Theorem | Statement |
|---|---|
| `TypeCorrect` | `Spec => []TypeOK` |
| `BufferCorrect` | `Spec => []BufferIsSuffix`: the buffer is the end of the conversation |
| `SinceCorrect` | `Spec => []SinceIsExact`: what `since` returns and what it counts as missed is all there is |
| `FeedCorrect` | `Spec => []FeedIsComplete`: what races a subscription, its backlog or a resumption is neither lost nor doubled |
| `WaitingCorrect` | `Spec => []WaitingMeansIdle`: no wake-up is lost |

The inductive invariant is

    IInv == TypeOK /\ BufferIsSuffix /\ FeedShape /\ FeedIsComplete

`FeedIsComplete` speaks of open feeds of uncleared conversations. It is preserved by
a subscription only because the buffer is a suffix of the conversation
(`RetainedIsSuffix`, `BoundedBuffer`: what `since` returns is the last events, and
what it counts as missed is the rest; `Subscription` puts them together); by a
publication because the new event extends what the feed holds (`FeedPublish`); and
by a pull because the event handed over is the first (`FeedTakes`, used by
`FeedPullBacklog` and `FeedPullLive`). `FeedShape` adds what these need of an
individual feed: a gap envelope stands only at the head of the backlog, and a feed
past its backlog has none. `LogStep`, `TypeStep`, `FeedStep` and `WaitingStep` each
go through the actions.

**`EventFeedProofs`**, on top of it: `FeedKept`, `Spec => FeedContract`, the
refinement of `EventFeed`. The invariant is `FeedInv == IInv /\ GapsAreHonest`: what
a gap envelope announces, and what a consumer was told it missed, has left the
buffer and is not in the feed (`Dropped`), so an event is never announced as missed
and then delivered. With it `HonestTakes` shows that a pull which hands over an
envelope is `Announce` or `Deliver` of the abstract feed, a publication is its
append, and all other steps leave what it speaks of alone (`ConversationStep`).

**`FleetProofs`**, from `LimitsAssumption` (limits are positive numbers, the bounds
naturals), for any number of agents, processes, crashes and turns:

| Theorem | Statement |
|---|---|
| `AccountingCorrect` | `Spec => []Accounting`: the slots in use are the turns in flight, no more than the limit, or one more where listeners call `run()`; a waiting run is in the queue, once |
| `AdmissionCorrect` | `Spec => AdmissionStops`: after the ceiling was reached no step starts a turn |
| `SpendCorrect` | `Spec => []SpendGate`: a ceiling the agents' costs add up to is marked as reached; once it is, nothing waits |

The invariant of the first two is `Ledger(fleet)`: the shapes of the records (`Shapes`), the queue
without repetition and with exactly the queued turns (`QueueIsExact`), the counter
(`Counted`, with the `Limit` that listeners leave of `maxConcurrentTurns`). It says
nothing of where agents are placed, and need not. A drain that nests in another leaves
the entry which the outer one has taken alone, and does not itself reach beyond
`maxConcurrentTurns` (`Nests`); so the outer one exceeds it by its own entry at most
(`HeardRoundAdvances`). One handler
makes several passes over the fleet record (a turn ends, its agent is lost, the
ceiling trips, the queue is drained), so the proof follows the code and not the
formula: `Advances(f, g)` says that `g` still has its books in order and that, if
the ceiling was reached in `f`, it is in `g` and no turn has started; each piece
of a handler advances the record (`PhaseAdvances`, `FinallyAdvances`,
`TripAdvances`, `RejectedAdvances`, ...), `AdvancesOn` chains them, and
`FleetAdvances` collects the actions. Two pieces are loops: `#drain` (`Drain`), and
the loop of `#handleShardLost` over the agents of a shard (`LoseMembers`). They are
recursive functions; what they preserve is proved from their least counterexample
(`Least`: a nonempty set of numbers up to N has a least one, from the library's
theorem that strict inclusion of finite sets is well-founded), which needs no
induction rule with an operator parameter.

`SpendCorrect` needs a theory of sums first. `Spent` is a fold over the set of the
registered agents, which the library defines by choice: `Total` restates it
(`SpentIsTotal`), its loop exists (`SumsExist`), and the sum neither depends on more
than the costs of its agents (`SameTotal`) nor on the order the loop takes them in
(`TotalOfOne`: any agent's cost can be split off), and grows with the set
(`TotalGrows`); each from a smallest set that would refute it (`SmallestSet`). The
invariant is `Billed == Books /\ Account(fleet) /\ Noticed(fleet)`: finitely many agents
were requested and one that was not has cost nothing (`Account`), so a new agent adds
nothing to the sum; and a sum at the ceiling has been noticed (`Noticed`). Only three
actions touch the sum: a request adds a zero, a usage event sums up anew in its own
step, and a retirement takes the agent's cost out of it. `Bills(f, g)` says of each
other piece of a handler that it changes no cost and registers nobody. `AlwaysShut` is
the second half: nothing is queued once the ceiling is reached.

**`FleetPlacementProofs`**, from `LimitsAssumption` as well:

| Theorem | Statement |
|---|---|
| `TypesCorrect` | `Spec => []TypeOK` |
| `PlacementCorrect` | `Spec => []Placement`: agents and shards agree about who is where; the limits on processes and on their agents are kept |
| `RecoveryCorrect` | `Spec => []RecoveringIsWorkedOn` |
| `AttributionCorrect` | `Spec => []Attributed`: the session of a running turn, and one being resumed, is mapped on its shard |
| `ExclusionCorrect` | `Spec => []ExclusiveSession` |
| `IdleCorrect` | `Spec => []NoIdleWaiter`: nobody waits in the queue who could be admitted, until `close()` has cleared the tables |
| `OrderCorrect` | `Spec => NoOvertaking`: priority, then the order of the calls; where listeners call `run()`, among the runs queued before the step |

The invariant is `InPlace == Sound(fleet, Gone) /\ Pending`, and `Sound` adds to the
`Ledger` of `FleetProofs` the parts that depend on one another: `Typed`; `Seats`
(an agent that is not retired is a member of at most one shard, once, the one its
`shardId` names); `Numbered`; `Names` (a session belongs to the agent whose turn
opened it); `Mapped` (what runs or resumes is a key of `sessionToAgent`); `Apart` (no
two turns run on one session of one process); `Worked` (who is recovering has a
recovery under way). `ExclusiveSession` needs the whole of it: that a run is refused
a session in use is known to the adapter of one process, so it must be known that
the agents that may ask for the session are on that process. `Numbered` is why the
types are not obvious: a new shard takes a number that was never used, so the numbers
must not run out. Every crash retires one number for good, and `close()` those of the
processes that are up (`Gone`); with what the limits allow to be up, `MaxShards`
numbers suffice (`NumberLeft`). As in `FleetProofs` each piece of a handler is shown to
keep `Sound`, with its own bound on the numbers, and the loops over the members of a
lost shard and over the queue by their least counterexample. All parts but `Worked` hold
in the middle of a handler as well (`Housed`), where a listener's drain runs: it only
fills places (`Fills`: it gives agents without one a shard, and touches no turn that was
admitted and no recovery), and what keeps `Housed` and fills places (`Grows`) keeps the
rest (`GrowsSound`).

The two on admission have the invariant

    InLine == InPlace /\ Orderly(fleet, Gone) /\ (closing # Closed => Idle(fleet))

`Idle` is `NoIdleWaiter`; by itself it is not inductive, for a handler that calls no
`#drain()` must be known to change nothing that a waiter waits for. The start of
a turn, for one, marks its agent `ready` when its session is open, and no drain
follows. That gives nobody a chance because the agent was not lost (`AtHome`: a turn
that waits for its runtime waits on the shard of its agent, which is neither lost nor
recovering). `AtHome` in turn needs to know who makes a recovering agent ready: a
recovery that may still succeed is the only one of its agent and was put where the
agent is (`Marked`, `Single`). `Asked` says that a queued agent was registered.
`Lined` is what of `Orderly` holds in the middle of a handler. `Drain` leaves nobody who
could be admitted, and admits in order (`DrainAdmits`): an admission gives nobody a
chance he did not have (`Narrows`), so whoever was passed over could not be admitted at
the end either (`Passing`); with a listener's call in it the same holds of those that
waited before (`DrainHeardAdmits`). The loop over the members of a lost shard needs that
nothing admitted meanwhile waits for the dead one (`Grave`), so a member not visited yet
has no turn that does (`Free`, `Alone`). `Still` collects what the handlers without a
drain may do, and `Served(f, g, k)`, idle after a fair step, is what every action of the
fleet establishes.

**`CopilotTurnProofs`**, from `TurnConstants`:

| Theorem | Statement |
|---|---|
| `ContractKept` | `Spec => TurnContract`: the refinement of `RuntimeTurn` |
| `TypesCorrect` | `Spec => []TypeOK` |
| `ToolTimeCorrect` | `Spec => []ToolTimeIsFree` |
| `ShellReportCorrect` | `Spec => []ShellIsReported` |
| `CompletionCorrect` | `Spec => []CompletedIsOwn` |
| `ModelCorrect` | `Spec => ModelHonoured`: a run that prepared its session alone starts on the model it asked for |

For the refinement, every step either leaves
`turn` and `settled` alone, or gives the session to a run that has not claimed it
before, or takes it from the run that has it together with one outcome
(`TurnsMove`). That is not inductive by itself, for two reasons. A run may be
settled by a wait that was begun long before, so the invariant says that a wait made
by a limit or a stall belongs to the turn that is live (`Queues`; whatever settles a
turn empties `waits`). And a run may claim the session only if it is not settled,
so a run that is still preparing is not (`Turns`), which rests on no call becoming
fresh again (`CallsStep`). `QueuesMove` goes through what the steps add to the
queues.

The invariants of the session rest on `SessionInv == Typed /\ Pending /\ Work /\
Asked /\ Own`. `Pending` says where every prompt is: on the wire, in the process, or
ended, never two of them, and only for a run that has sent it; so a prompt is never
run twice. `Work` relates the adapter to the process: while the process works on the
prompt of the live turn, the tool it runs is among the tools of that turn, whose
progress timer is off, and an error it met is known to the turn. It holds because the
events of a tool arrive in the step that starts or ends it, and because a turn goes
live before its prompt is on the wire. `Asked` says what the stops may rest on: a run
whose shell was cut is marked for good, and a confirmed stop is one of a settled,
unmarked run. `Own` says that, until a run was given up with its prompt in the process
(`GivenUp`), every prompt that is under way belongs to the live turn, so
`session.idle` speaks of it. `disconnect()` takes the prompts of an object out of the
process (`Without`, a recursive function; that it keeps the order of the rest and
their being distinct is proved from the shortest counterexample).

`ModelCorrect` adds `ModelKnown`, which speaks of the time before two calls first
prepared the session together (`contested`). Until then at most one call is preparing
(`Alone`). The record the adapter compares with is the model the session is set to,
except while a switch waits for its validation (`Recalls`). And a call that has gone
past the comparison wants no model or has the one it wants, on the session object it
began with or on none (`Matches`). `ModelSteps` takes the actions one by one. Where it
could fail is a switch that the SDK refuses, which must leave the record alone, and a
preparation that fails, which must forget the session with its record.

**`CodexTurnProofs`**, from `TurnConstants`:

| Theorem | Statement |
|---|---|
| `TypesCorrect` | `Spec => []TypeOK`: with it, that no caller has two requests in flight |
| `OneTurnCorrect` | `Spec => []OneTurnPerThread` |
| `OutcomeCorrect` | `Spec => []OwnOutcome` |
| `HumanTimeCorrect` | `Spec => []HumanTimeIsFree` |
| `StopCorrect` | `Spec => QuiesceStops`: a confirmed `quiesce()` has left no turn that was asked for before it |

`NextMoves` first sums up what each of the adapter's thirty actions does to the parts
that matter (`Moves`: a step of a run, a step aside from the runs, a time-out, a line
taken, a line served, a prompt, an end, a loss); the rest of the proof goes through
these eight. The invariant is
`Typed /\ Correlated /\ Wire /\ Open /\ (dropped \/ Own)`. `Correlated`: who has a
request in flight, or an answer to it, waits for it. `Wire`: a run has at most one
line in the two pipes, the line says where the run is, a turn has begun only for a
run that asked for it and that goes on from there, to a fresh thread perhaps (`Begun`),
and a run whose `turn/start` was refused has none (`Faults`). `Open`: an open prompt
belongs to the turn in progress, or the server has told that it is resolved, and it
tells so before the turn's end.

`Own` contains `Turns`, which is the argument for one turn per thread. A turn is live
from the moment its run holds the thread until its end is heard. There is one live
turn; as long as its run is the task of the thread, no other run can begin. A run may
lose its task with its turn alive when its request times out: then whoever reads the
thread must not find it idle (`NotIdle`). That is so because the answer to such a
reader follows the turn's begin on the pipe to the server, or finds it in progress, or
comes after the note of its end (`Follows`); and those whose answer could come *before*
the begin have timed out already, since requests time out in the order they were sent
(`InOrder`, `LateBehind`). So the property depends on all requests having the same
30 s: a shorter limit for `turn/start` would break the proof and the code.

`StopCorrect` adds `StopsKnow` to the invariant. For each `quiesce()`: the runs it is to
stop are past their `turn/start` (`SentBefore`: none of them sends another); it has one
request under way (`OneAsk`); while it reads the thread, every `turn/start` of those
runs that is still on the pipe stands before its `thread/read`, and an answer that says
idle, on its way or received, means that they are over (`Looks`); and from the
answer on they remain over (`Sees`), because a turn that was asked for once does not
begin again. It needs neither the interrupt nor the settled task that `quiesce()` awaits
before: those make it return soon, the last `thread/read` makes it true.

**`ToolGateProofs`**, from `GateConstants`:

| Theorem | Statement |
|---|---|
| `TypeCorrect` | `Spec => []TypeOK` |
| `PreparationCorrect` | `Spec => []ReadyIsExact` |
| `GateCorrect` | `Spec => []NothingRunsUnasked` |
| `AnswersCorrect` | `Spec => AnsweredOnce` |

Two inductive invariants. `Opening` says what each await of the preparation has
established so far: selections are sound (`SelectionSound`: what
`resolveCopilotToolSelection` returns contains governed built-ins and registered
tools only, and no tool of the app bears the name of a built-in), and from
`configuring` on the tools of the SDK's session are known to the hook, or foreign.
`Deciding` says what a call has passed at each stage (`Passes`), and that a
callback which is awaited was asked about the call as it is (`Asked`): a late
answer is therefore one to a stage the call has left for good.

**`CopilotAccountProofs`**, from `AccountConstants`:

| Theorem | Statement |
|---|---|
| `ViewFresh` | `Spec => []ViewIsFresh` |
| `EndedOnce` | `Spec => []EndsOnce` |
| `AnswersPlaced` | `Spec => []PersonAnswersAsked` |

The invariant is `AccountInv == Typed /\ Views /\ Endings /\ Answering`. `Views`: a
check that has read the choice is up to date, or somebody waits for another one, and
nobody waits when none runs. That is what `#recheck` is for: a change of the choice
during a check makes its caller a waiter. `Endings`: a sign-in is told its outcome
exactly when it is gone, and holds no client and no session from the step that
releases them (each step of the start that would add one asks whether the sign-in
has ended). `Answering`: one answer at a time is on its way, and the question that
is published is the step the login is at.

Only model-checked, and why: liveness (`Delivered`, `EverythingSettles`,
`QueuedProgress`, both `EverythingReturns`, `CancelEnds`, `CallsAreAnswered`). It needs
ENABLED, which the prover does not support. Every invariant and every action property
that a passing run checks is the subject of a theorem.

## 5. Findings

Two are runs that TLC ends with a trace of the code's own steps:

1. **A Codex turn that fails blocks its agent** (`SettledIsReusable`,
   `fleet.mjs:472`): the stop is confirmed only after turns that complete, and a
   session without confirmation is refused from then on.
2. **A confirmed `quiesce()` of Copilot need not have stopped anything**
   (`QuiesceStops` of `CopilotTurn`, `copilot.mjs:805`): it confirms when the task
   is settled, whoever settled it, and the limit of the run, the stall handler and a
   failed `send()` settle it with the prompt still in the process.

Eleven more formulas are in the modules, under a heading of their own, because a text of
the repository promises them and TLC finds them violated by the model of the code.
No run checks them; they are kept to be checked again when the code changes.

* `QueuedSettles` (`Fleet`, `fleet.mjs:434`): a queued run of an agent that is lost
  never settles: `#drain` skips it and nothing else removes it.
* `NoGhosts` (`Fleet`, `fleet.mjs:153`): a retirement that races a crash leaks a
  slot: `retireAgent` goes on with the shard it read before its awaits.
* `TurnCap` (`Fleet`, `fleet.mjs:442`): `maxConcurrentTurns` is the "fleet-wide in-flight
  turn cap". `queueDepth` is emitted between the check of the cap and the count, so a
  listener that calls `run()` there admits into the slot of the entry already taken.
* `NoneStranded` (`Fleet`, `fleet.mjs:451`): `run()` "queues [...] or resolves immediately
  to a rejection". An entry admitted without a shard is counted, and then throws before
  the `try` that would settle it and give the slot back: a `run()` after `close()` of an
  agent that had a shard, or from a `shardLost` listener of an agent of the dead shard,
  and an entry whose place on a shard a nested drain has taken.
* `ClosedIsDown` (`Fleet`, `fleet.mjs:231`): an agent of a shard that dies during
  `close()` is recovered on a shard already closed, whose process survives.
* `ClockComesBack` (`CodexTurn`, `runtime.mjs:227`): a prompt declined by the
  timeout stops its turn's clock for good: only `respond()` restarts it, the timeout
  uses `respondError()`.
* `TasksAreOwn` (`CodexTurn`, `codex.mjs:636`): line 131 says that "old turn events
  must not finish or contaminate a later assignment". A run that was interrupted
  before its turn had an id sends its `turn/interrupt` when the id is known. If the
  turn has ended meanwhile the server rejects it, and the `catch` then drops and
  rejects whatever task the thread has, which may be that of a later run, whose turn
  goes on. A third run that had read the thread before starts another one.
* `NothingBeginsLater` (`CodexTurn`, `codex.mjs:702`): a confirmed `quiesce()` is said
  to have found "no in-progress turns", but a turn may begin after it. The run it
  waits for may be in a slow `onStart`; its limit settles it, the thread is read as
  idle, the stop is confirmed, and the run goes on to send its `turn/start`.
* `NothingReplays` (`CodexTurn`, `codex.mjs:640`): an "explicit missing-thread response
  means no turn was accepted", so that the run may begin again on a fresh thread. The
  response may be to the `turn/interrupt` of a turn that was accepted and has ended,
  when the task has been removed by that end and with it its turn id.
* `CompactionExclusive` (`CopilotTurn`, `copilot.mjs:672`): a run and a compaction
  each ask for the other only before their awaits.
* `AnswersAreAsked` (`CopilotAccount`, `copilot-account.mjs:559`): the browser that
  was opened for one step of a login answers whatever step the login is at when
  `openUrl()` returns, if the person has continued meanwhile.

`NoIdleWaiter` excepts the end of `close()`, which makes room and drains nothing (line
232): what was called while it ran waits until something else drains; `Accounting`,
`EverythingSettles` and `QueuedProgress` except what the items above describe.
`ModelHonoured` holds only of runs that prepared their session alone: the model is
compared with the record before the awaits, and two calls that prepare one session
at a time may each end on the other's model. `CompletedIsOwn` excuses a run after
one that was given up, as `session.idle` names no turn.

## 6. What is not modelled, and the plan

Not modelled, because nothing in them interacts with the state above: win32 command
resolution, framing and decoding, payloads of events, formatting of prompts and
messages, how a token is read from the environment or the `gh` CLI, GitHub requests,
file handling, the type declarations, tests and examples.
`architecture.map.yaml` and the documentation were read for intent only; nothing is
modelled from them.

Not modelled, and worth it:

1. `Runtime` proper: a second `start()` after a handshake that timed out, `close()`
   during `start()`, oversized frames; `start()` of the Copilot adapter, which
   several callers share.
2. `setGoal` of the Fleet and the goal a recovery applies again; goals, overrides
   and compaction of the Codex adapter.
3. `schema.mjs` and `system-message.mjs`: pure functions, as operators against
   reference definitions, over all values of a few symbols to depth two.
4. `RuntimeTurn` as an abstraction of `CodexTurn` too, where `settled` is a variable
   of the same name and the turn is `task.call`; and a Fleet over `RuntimeTurn`.

Next, the proofs: of the seven liveness properties what does not need ENABLED, namely
that the steps an answer takes lead towards it (a rank that each of them lowers).
