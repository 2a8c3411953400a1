----------------------------- MODULE CopilotTurn -----------------------------
(***************************************************************************)
(* src/src/adapters/copilot.mjs: one Copilot session as CopilotRuntime     *)
(* keeps it. run() opens the live session again or resumes the stored one, *)
(* sends the prompt and waits for session.idle; setModel(), retire(),      *)
(* resume(), compact(), interrupt(), quiesce() and close() act on the same *)
(* tables between its awaits, and two timers limit a turn.                 *)
(*                                                                         *)
(* An await is a step of its own: what follows it runs when the SDK has    *)
(* answered, in the state of that moment. Requests of one client reach the *)
(* Copilot process in order (wire). The SDK and the process are external,  *)
(* modelled from how the adapter and its test double use them.             *)
(***************************************************************************)
EXTENDS Naturals, FiniteSets, SequencesExt

CONSTANTS
    Calls,          \* run() calls that continue the session
    Stops,          \* quiesce(), interrupt() and retire() calls
    Setters,        \* setModel() calls
    Models, Default,\* the models there are; the runtime's own
    Wishes, Switches,\* what a run, and setModel(), may ask for
    Tools,          \* kinds of tools the process may run, "shell" among them
    Errors,         \* whether the process may report an error
    OnStartWaits,   \* onStart may return a promise that takes its time
    Applications,   \* which other calls the application makes
    MaxOpens        \* bound: session objects opened, the first included

ASSUME TurnConstants ==
    /\ IsFiniteSet(Calls) /\ IsFiniteSet(Stops) /\ IsFiniteSet(Setters) /\ Default \in Models
    /\ Wishes \subseteq Models \cup {"none"} /\ Switches \subseteq Models
    /\ "none" \notin Tools \cup Calls \cup Models /\ {Errors, OnStartWaits} \subseteq BOOLEAN /\ Applications \subseteq {"interrupt", "retire", "resume", "compact", "close"}
    /\ MaxOpens \in Nat \ {0}

VARIABLES
    object, record,     \* sessionObjects.get(id), sessions.get(id).currentModelId
    opened, connected,  \* objects opened so far; those not disconnected
    turn,               \* turns.get(id): the run whose task it is
    call,               \* call[c]: where run() or setModel() c is
    task, settled,      \* task[r], and how its promise was settled
    stop,               \* stop[q]: where quiesce() q is; "other" for another call
    waits,              \* the waits of quiesceTimeoutMs that run, in the order they end
    compaction, retiring, closing,
    wire,               \* requests on their way to the process
    agent,              \* the process: prompts accepted, the tool that runs
    ended, cut,         \* history: how the process ended the prompt of r; the
                        \* runs whose shell was running at an interrupt
    contested           \* history: two calls have prepared the session at a time

tables == <<object, record, opened, connected>>
turns == <<turn, task, settled, stop, waits>>
others == <<compaction, retiring, closing>>
history == <<ended, cut, contested>>
vars == <<tables, turns, call, others, wire, agent, history>>

None == "none"
Starters == Calls \cup Setters
Call(p, m, o) == [phase |-> p, wants |-> m, obj |-> o]
NoTask == [tools |-> {}, error |-> FALSE, unverified |-> FALSE, progress |-> "off", clock |-> "off", stall |-> "no", doomed |-> {}]
Request(op, by) == [op |-> op, by |-> by]

Init ==
    /\ object = 1 /\ record = Default /\ opened = 1 /\ connected = {1}
    /\ turn = None
    /\ call = [c \in Starters |-> Call("idle", None, 0)]
    /\ task = [r \in Calls |-> NoTask] /\ settled = [r \in Calls |-> "no"]
    /\ stop = [q \in Stops |-> [phase |-> "idle", awaits |-> None]] /\ waits = <<>>
    /\ compaction = "no" /\ retiring = 0 /\ closing = "no"
    /\ wire = <<>>
    /\ agent = [prompts |-> <<>>, tool |-> None, failed |-> FALSE, aborting |-> FALSE, model |-> Default]
    /\ ended = [r \in Calls |-> "no"] /\ cut = {} /\ contested = FALSE

Becomes(c, p) == call' = [call EXCEPT ![c].phase = p]
Over(c) == call' = [call EXCEPT ![c] = Call("over", None, 0)]
Quiet == OnStartWaits \/ \A r \in Calls : call[r].phase # "opening"
Working == agent.prompts # <<>>
(* disconnect() ends the work that was sent through the objects O. *)
Idle(a) == [a EXCEPT !.tool = None, !.failed = FALSE, !.aborting = FALSE]
Without(s, P) ==
    LET left[n \in 0..Len(s)] == IF n = 0 THEN <<>>
                                 ELSE IF s[n] \in P THEN left[n - 1] ELSE Append(left[n - 1], s[n])
    IN  left[Len(s)]
WithoutPrompts(P) ==
    LET left == Without(agent.prompts, P)
    IN  IF left = agent.prompts THEN agent
        ELSE IF left # <<>> /\ Head(left) = Head(agent.prompts) THEN [agent EXCEPT !.prompts = left]
        ELSE [Idle(agent) EXCEPT !.prompts = left]
Disconnected(O) ==
    /\ connected' = connected \ O
    /\ agent' = WithoutPrompts({r \in Calls : call[r].obj \in O})
(* Mutant: the object is kept, only its record is dropped. *)
ForgottenHalf == record' = None /\ UNCHANGED object
Forgotten == object' = 0 /\ record' = None
-----------------------------------------------------------------------------
(* #finishTask() and the other places that settle a task: it leaves turns,   *)
(* its timers are cleared, and the quiesce() calls that await it go on. What *)
(* nothing asks for any more is dropped.                                     *)
StopOutcome(r) == IF task[r].unverified THEN "unknown" ELSE "confirmed"
Cleared(t) == [NoTask EXCEPT !.unverified = t.unverified, !.stall = t.stall, !.doomed = t.doomed]
Finish(r, outcome) ==
    /\ settled' = [settled EXCEPT ![r] = outcome]
    /\ turn' = None /\ waits' = <<>>
    /\ task' = [task EXCEPT ![r] = Cleared(@)]
    /\ stop' = [q \in Stops |-> IF stop[q] = [phase |-> "waiting", awaits |-> r]
                                  THEN [stop[q] EXCEPT !.phase = StopOutcome(r)] ELSE stop[q]]
Live(r) == turn = r
FinishIfLive(r, outcome) == IF Live(r) THEN Finish(r, outcome) ELSE UNCHANGED turns

(* #armProgressTimer(): never while a tool of the turn is running. *)
(* Mutant: a running tool does not matter. *)
ArmedAlways(t) == [t EXCEPT !.progress = "armed"]
Armed(t) == [t EXCEPT !.progress = IF t.tools = {} THEN "armed" ELSE "off"]
ArmIfLive(r) ==
    /\ task' = IF Live(r) THEN [task EXCEPT ![r] = Armed(@)] ELSE task
    /\ UNCHANGED <<turn, settled, stop, waits>>

(* interrupt(): shells that run are recorded, and the session is aborted. *)
(* Mutant: the shells are recorded when the abort is acknowledged. *)
InterruptedLate(t) == t
Interrupted(t) == [t EXCEPT !.unverified = @ \/ "shell" \in t.tools]
Waits(m) == waits' = IF m \in Range(waits) THEN waits ELSE Append(waits, m)
Aborts(op, by) ==
    /\ wire' = IF object = 0 THEN wire ELSE Append(wire, Request(op, by))
    /\ cut' = IF op # "stall" /\ Working /\ agent.tool = "shell" THEN cut \cup ({turn} \cap {Head(agent.prompts)}) ELSE cut
-----------------------------------------------------------------------------
(* run() up to the SDK's first answer. A live session is prepared again, and *)
(* its model is switched when the call asks for another than the recorded    *)
(* one; any other session is resumed.                                        *)
Preparing == {"switching", "validating", "preparing", "resuming"}
Contends == contested' = (contested \/ \E c \in Starters : call[c].phase \in Preparing)
Run(r) ==
    /\ call[r].phase = "idle" /\ Quiet
    /\ \E m \in Wishes :
         \/ /\ compaction # "no" \/ (object # 0 /\ turn # None)
            /\ Over(r) /\ UNCHANGED contested
         \/ /\ compaction = "no" /\ (object = 0 \/ turn = None)
            /\ call' = [call EXCEPT ![r] =
                 IF object = 0 THEN Call("resuming", m, 0)
                 ELSE Call(IF m \in {None, record} THEN "preparing" ELSE "switching", m, object)]
            /\ Contends
    /\ UNCHANGED <<tables, turns, others, wire, agent, ended, cut>>
SetModel(c) ==
    /\ call[c].phase = "idle" /\ Quiet /\ object # 0
    /\ \E m \in Switches : call' = [call EXCEPT ![c] = Call("switching", m, object)]
    /\ Contends
    /\ UNCHANGED <<tables, turns, others, wire, agent, ended, cut>>

(* session.setModel() succeeds, or the switch is refused and nothing changed *)
(* (also by #assertModelChoice, before the SDK is asked).                    *)
Switched(c) ==
    /\ call[c].phase = "switching" /\ Quiet
    /\ \/ /\ call[c].obj \in connected
          /\ agent' = [agent EXCEPT !.model = call[c].wants]
          /\ Becomes(c, "validating")
       \/ Over(c) /\ UNCHANGED agent
    /\ UNCHANGED <<tables, turns, others, wire, history>>

(* The session is ready: run() claims the turn, or is refused with turn_busy *)
(* by the check that follows the awaits.                                     *)
(* Mutant: only the check before the awaits. *)
ClaimsUnchecked(r) ==
    /\ turn' = r
    /\ task' = [task EXCEPT ![r] = [NoTask EXCEPT !.clock = "armed"]]
    /\ UNCHANGED <<settled, stop, waits>>
Claims(r) ==
    /\ turn = None
    /\ turn' = r
    /\ task' = [task EXCEPT ![r] = [NoTask EXCEPT !.clock = "armed"]]
    /\ UNCHANGED <<settled, stop, waits>>
Begins(r, o) ==
    \/ Claims(r) /\ call' = [call EXCEPT ![r].phase = "opening", ![r].obj = o]
    \/ turn # None /\ UNCHANGED turns /\ Over(r)
Chosen(m) == IF m = None THEN Default ELSE m
(* Mutant: the record keeps the model of the refused or earlier switch. *)
RecordedLate(c) == IF record = None THEN Chosen(call[c].wants) ELSE record
Recorded(c) ==
    IF call[c].phase = "validating" /\ object = call[c].obj THEN call[c].wants
    ELSE IF record = None /\ c \in Calls THEN Chosen(call[c].wants) ELSE record
Prepared(c) ==
    /\ call[c].phase \in {"preparing", "validating"} /\ Quiet
    /\ call[c].obj \in connected
    /\ record' = Recorded(c)
    /\ IF c \in Calls THEN Begins(c, call[c].obj) ELSE Over(c) /\ UNCHANGED turns
    /\ UNCHANGED <<object, opened, connected, others, wire, agent, history>>
(* #prepareSession() disconnects what it could not prepare and forgets the   *)
(* session, whoever uses it by now.                                          *)
PrepareFails(c) ==
    /\ call[c].phase \in {"preparing", "validating"} /\ Quiet
    /\ Forgotten /\ Disconnected({call[c].obj}) /\ Over(c)
    /\ UNCHANGED <<opened, turns, others, wire, history>>

Opens(m) ==
    /\ opened < MaxOpens
    /\ opened' = opened + 1 /\ object' = opened' /\ connected' = connected \cup {opened'}
    /\ record' = m /\ agent' = [agent EXCEPT !.model = m]
CannotOpen == Forgotten /\ UNCHANGED <<opened, connected, agent>>
Resumed(r) ==
    /\ call[r].phase = "resuming" /\ Quiet
    /\ \/ Opens(Chosen(call[r].wants)) /\ Begins(r, opened')
       \/ CannotOpen /\ Over(r) /\ UNCHANGED turns
       \/ Over(r) /\ UNCHANGED <<tables, turns, agent>>  \* a fresh session instead
    /\ UNCHANGED <<others, wire, history>>

(* onStart returns and the prompt is sent, or throws. Nothing between the    *)
(* two asks whether the turn is still there.                                 *)
Opened(r) ==
    /\ call[r].phase = "opening"
    /\ \/ /\ call[r].obj \in connected
          /\ ArmIfLive(r) /\ wire' = Append(wire, Request("send", r))
          /\ Becomes(r, "sending")
       \/ FinishIfLive(r, "failed") /\ Over(r) /\ UNCHANGED wire
    /\ UNCHANGED <<tables, others, agent, history>>
SendAnswered(r) ==
    /\ call[r].phase = "sending" /\ Request("send", r) \notin Range(wire) /\ Quiet
    /\ \/ r \in Range(agent.prompts) \/ ended[r] # "no"
       \/ call[r].obj \notin connected
    /\ \/ ArmIfLive(r) /\ Becomes(r, "sent") /\ UNCHANGED agent
       \/ /\ ended[r] = "no"
          /\ FinishIfLive(r, "failed") /\ Over(r)
          /\ agent' = WithoutPrompts({r})
    /\ UNCHANGED <<tables, others, wire, history>>
-----------------------------------------------------------------------------
(* The calls of the application that change the tables of the session.       *)
Interrupt(q) ==
    /\ "interrupt" \in Applications /\ stop[q].phase = "idle" /\ Quiet
    /\ turn # None
    /\ stop' = [stop EXCEPT ![q].phase = "other"]
    /\ task' = [task EXCEPT ![turn] = Interrupted(@)]
    /\ Aborts("interrupt", q)
    /\ UNCHANGED <<tables, turn, settled, waits, call, others, agent, ended, contested>>
Quiesce(q) ==
    /\ stop[q].phase = "idle" /\ Quiet
    /\ IF turn = None
         THEN stop' = [stop EXCEPT ![q].phase = "confirmed"] /\ UNCHANGED <<task, waits, wire, cut>>
         ELSE /\ stop' = [stop EXCEPT ![q] = [phase |-> IF object = 0 THEN "waiting" ELSE "aborting", awaits |-> turn]]
              /\ task' = [task EXCEPT ![turn] = Interrupted(@)]
              /\ Aborts("quiesce", q)
              /\ IF object = 0 THEN Waits(Request("quiesce", q)) ELSE UNCHANGED waits
    /\ UNCHANGED <<tables, turn, settled, call, others, agent, ended, contested>>
StopTimesOut(q) ==
    /\ waits # <<>> /\ Head(waits) = Request("quiesce", q) /\ Quiet
    /\ stop' = [stop EXCEPT ![q].phase = "unknown"] /\ waits' = Tail(waits)
    /\ UNCHANGED <<tables, turn, task, settled, call, others, wire, agent, history>>
Retire(q) ==
    /\ "retire" \in Applications /\ stop[q].phase = "idle" /\ Quiet
    /\ object # 0 /\ turn = None /\ retiring = 0
    /\ stop' = [stop EXCEPT ![q].phase = "other"]
    /\ retiring' = object
    /\ UNCHANGED <<tables, turn, task, settled, waits, call, compaction, closing, wire, agent, history>>
Retired ==
    /\ retiring # 0 /\ Quiet
    /\ \/ Forgotten /\ Disconnected({retiring}) /\ UNCHANGED opened
       \/ UNCHANGED <<tables, agent>>   \* disconnect() fails
    /\ retiring' = 0
    /\ UNCHANGED <<turns, call, compaction, closing, wire, history>>
Resume ==
    /\ "resume" \in Applications /\ Quiet
    /\ Opens(Default) \/ CannotOpen
    /\ Contends
    /\ UNCHANGED <<turns, call, others, wire, ended, cut>>
Compact ==
    /\ "compact" \in Applications /\ Quiet
    /\ turn = None /\ compaction = "no"
    /\ compaction' = IF object = 0 THEN "resuming" ELSE "running"
    /\ UNCHANGED <<tables, turns, call, retiring, closing, wire, agent, history>>
CompactResumes ==
    /\ compaction = "resuming" /\ Quiet
    /\ \/ Opens(Default) /\ compaction' = "running"
       \/ CannotOpen /\ compaction' = "no"
    /\ Contends
    /\ UNCHANGED <<turns, call, retiring, closing, wire, ended, cut>>
CompactEnds ==
    /\ compaction = "running" /\ Quiet
    /\ compaction' = "no"
    /\ UNCHANGED <<tables, turns, call, retiring, closing, wire, agent, history>>
(* close() interrupts the turn, disconnects and stops the client. The turn   *)
(* itself is left to its timers.                                             *)
Close ==
    /\ "close" \in Applications /\ Quiet /\ closing = "no"
    /\ closing' = IF turn # None /\ object # 0 THEN "aborting" ELSE "stopping"
    /\ IF turn # None
         THEN Aborts("close", None) /\ task' = [task EXCEPT ![turn] = Interrupted(@)]
         ELSE UNCHANGED <<wire, task, cut>>
    /\ UNCHANGED <<tables, turn, settled, stop, waits, call, compaction, retiring, agent, ended, contested>>
Closed ==
    /\ closing = "stopping" /\ Quiet
    /\ Forgotten /\ Disconnected(connected) /\ closing' = "closed"
    /\ UNCHANGED <<opened, turns, call, compaction, retiring, wire, history>>
-----------------------------------------------------------------------------
(* The overall limit of a turn: interrupt, and reject with quiescence_unknown*)
(* if the turn does not end.                                                 *)
Expire(r) ==
    /\ task[r].clock = "armed" /\ Live(r) /\ Quiet
    /\ task' = [task EXCEPT ![r] = [Interrupted(@) EXCEPT !.clock = IF object = 0 THEN "waiting" ELSE "aborting"]]
    /\ Aborts("expire", r)
    /\ IF object = 0 THEN Waits(Request("expire", r)) ELSE UNCHANGED waits
    /\ UNCHANGED <<tables, turn, settled, stop, call, others, agent, ended, contested>>
(* Mutant: the limit waits for the turn's own end. *)
ExpiredPatient(r) == FALSE /\ UNCHANGED vars
Expired(r) ==
    /\ waits # <<>> /\ Head(waits) = Request("expire", r) /\ Quiet
    /\ Finish(r, "unknown")
    /\ UNCHANGED <<tables, call, others, wire, agent, history>>

(* #failStalledTask(): the session is forgotten at once, aborted, given time *)
(* to settle the turn, and disconnected. An event re-arms the timer even     *)
(* then, and it fires once more.                                             *)
Stalled(t) ==
    [t EXCEPT !.progress = "off", !.doomed = @ \cup ({object} \ {0}),
              !.stall = IF object # 0 THEN "aborting" ELSE IF @ = "no" THEN "waiting" ELSE @]
Stall(r) ==
    /\ task[r].progress = "armed" /\ Live(r) /\ Quiet
    /\ Forgotten /\ UNCHANGED <<opened, connected>>
    /\ task' = [task EXCEPT ![r] = Stalled(@)]
    /\ Aborts("stall", r)
    /\ IF object = 0 THEN Waits(Request("stall", r)) ELSE UNCHANGED waits
    /\ UNCHANGED <<turn, settled, stop, call, others, agent, ended, contested>>
StallTimesOut(r) ==
    /\ waits # <<>> /\ Head(waits) = Request("stall", r) /\ Quiet
    /\ Finish(r, "stalled")
    /\ UNCHANGED <<tables, call, others, wire, agent, history>>
StallRetires(r) ==
    /\ task[r].stall = "waiting" /\ ~Live(r) /\ Quiet
    /\ Disconnected(task[r].doomed)
    /\ task' = [task EXCEPT ![r].stall = "over"]
    /\ UNCHANGED <<object, record, opened, turn, settled, stop, waits, call, others, wire, history>>
-----------------------------------------------------------------------------
(* The Copilot process takes a request. An abort that was acknowledged ends  *)
(* the prompt it works on; whoever awaited the acknowledgement goes on.      *)
Acknowledged(m) ==
    \/ /\ m.op = "quiesce"
       /\ LET r == stop[m.by].awaits IN
            /\ stop' = [stop EXCEPT ![m.by].phase = IF Live(r) THEN "waiting" ELSE StopOutcome(r)]
            /\ IF Live(r) THEN Waits(m) ELSE UNCHANGED waits
       /\ UNCHANGED <<turn, task, settled, closing>>
    \/ /\ m.op \in {"expire", "stall"}
       /\ task' = [task EXCEPT ![m.by] = IF m.op = "stall" THEN [@ EXCEPT !.stall = "waiting"]
                                         ELSE IF Live(m.by) THEN [@ EXCEPT !.clock = "waiting"] ELSE @]
       /\ IF Live(m.by) THEN Waits(m) ELSE UNCHANGED waits
       /\ UNCHANGED <<turn, settled, stop, closing>>
    \/ m.op = "close" /\ closing' = "stopping" /\ UNCHANGED turns
    \/ m.op = "interrupt" /\ UNCHANGED <<turns, closing>>
(* The session object is gone: abort() rejects. *)
Rejected(m) ==
    \/ /\ m.op = "quiesce"
       /\ stop' = [stop EXCEPT ![m.by].phase = "unknown"]
       /\ UNCHANGED <<turn, task, settled, waits, closing>>
    \/ m.op = "expire" /\ FinishIfLive(m.by, "failed") /\ UNCHANGED closing
    \/ m.op \notin {"quiesce", "expire"} /\ Acknowledged(m)
Takes ==
    /\ wire # <<>> /\ Quiet /\ wire' = Tail(wire)
    /\ LET m == Head(wire) IN
         \/ /\ m.op = "send" /\ UNCHANGED <<turns, closing>>
            /\ agent' = IF call[m.by].obj \in connected THEN [agent EXCEPT !.prompts = Append(@, m.by)] ELSE agent
         \/ /\ m.op # "send"
            /\ IF connected # {} THEN Acknowledged(m) ELSE Rejected(m)
            /\ agent' = [agent EXCEPT !.aborting = @ \/ (Working /\ connected # {})]
    /\ UNCHANGED <<tables, call, compaction, retiring, history>>

(* Its events reach #handleEvent() of the task attached to the session, if   *)
(* there is one; any of them re-arms the progress timer.                     *)
Hears == turn # None /\ call[turn].obj \in connected
Handles(becomes) ==
    /\ task' = IF Hears THEN [task EXCEPT ![turn] = Armed(becomes)] ELSE task
    /\ UNCHANGED <<turn, settled, stop, waits>>
ToolStarts(k) ==
    /\ Working /\ agent.tool = None /\ Quiet
    /\ agent' = [agent EXCEPT !.tool = k]
    /\ Handles([task[turn] EXCEPT !.tools = @ \cup {k}])
    /\ UNCHANGED <<tables, call, others, wire, history>>
ToolEnds ==
    /\ Working /\ agent.tool # None /\ Quiet
    /\ agent' = [agent EXCEPT !.tool = None]
    /\ Handles([task[turn] EXCEPT !.tools = @ \ {agent.tool}])
    /\ UNCHANGED <<tables, call, others, wire, history>>
(* session.error or model.call_failure. *)
Errs ==
    /\ Errors /\ Working /\ ~agent.failed /\ Quiet
    /\ agent' = [agent EXCEPT !.failed = TRUE]
    /\ Handles([task[turn] EXCEPT !.error = TRUE])
    /\ UNCHANGED <<tables, call, others, wire, history>>
Streams ==
    /\ Working /\ Quiet
    /\ Handles(task[turn])
    /\ UNCHANGED <<tables, call, others, wire, agent, history>>

(* session.idle, and #finishTask() with its order of causes. A finish reason *)
(* or a report that does not match its schema makes an error as well.        *)
(* Mutant: the abort that session.idle reports is not looked at. *)
CausesBlind(t, aborted) == IF t.error THEN {"error"} ELSE {"completed", "error"}
Causes(t, aborted) ==
    IF t.stall # "no" THEN {"stalled"}
    ELSE IF aborted THEN {"interrupted"}
    ELSE IF t.error THEN {"error"} ELSE {"completed", "error"}
Idles ==
    /\ Working /\ Quiet
    /\ agent.aborting \/ agent.tool = None
    /\ agent' = [Idle(agent) EXCEPT !.prompts = Tail(@)]
    /\ ended' = [ended EXCEPT ![Head(agent.prompts)] =
                   IF agent.aborting THEN "interrupted" ELSE IF agent.failed THEN "error" ELSE "completed"]
    /\ IF Hears THEN \E o \in Causes(task[turn], agent.aborting) : Finish(turn, o) ELSE UNCHANGED turns
    /\ UNCHANGED <<tables, call, others, wire, cut, contested>>
-----------------------------------------------------------------------------
Starts(c) == Switched(c) \/ Prepared(c) \/ PrepareFails(c)
Advances(r) == Starts(r) \/ Resumed(r) \/ Opened(r) \/ SendAnswered(r)
Timers(r) == Expire(r) \/ Expired(r) \/ Stall(r) \/ StallTimesOut(r) \/ StallRetires(r)
Application ==
    \/ \E r \in Calls : Run(r)
    \/ \E c \in Setters : SetModel(c)
    \/ \E q \in Stops : Quiesce(q) \/ Interrupt(q) \/ Retire(q)
    \/ Resume \/ Compact \/ Close
Continues == Retired \/ CompactResumes \/ CompactEnds \/ Closed
Agent == ToolEnds \/ Errs \/ Streams \/ Idles \/ \E k \in Tools : ToolStarts(k)
Next ==
    \/ Application \/ Continues \/ Takes \/ Agent
    \/ \E r \in Calls : Advances(r) \/ Timers(r)
    \/ \E c \in Setters : Starts(c)
    \/ \E q \in Stops : StopTimesOut(q)

Spec == Init /\ [][Next]_vars
(* The SDK answers every request, abort() included, the work of the process  *)
(* ends, and timers fire. Nobody has to call anything.                       *)
Fairness ==
    /\ WF_vars(Takes)
    /\ \A r \in Calls :
         /\ WF_vars(Starts(r) \/ Resumed(r)) /\ WF_vars(Opened(r)) /\ WF_vars(SendAnswered(r))
         /\ WF_vars(Expire(r)) /\ WF_vars(Expired(r) \/ StallTimesOut(r))
    /\ \A q \in Stops : WF_vars(StopTimesOut(q))
FairSpec == Spec /\ Fairness
-----------------------------------------------------------------------------
Phases == Preparing \cup {"idle", "opening", "sending", "sent", "over"}
TypeOK ==
    /\ object \in 0..MaxOpens /\ opened \in 1..MaxOpens /\ connected \subseteq 1..opened
    /\ record \in Models \cup {None} /\ (object # 0 => record # None)
    /\ turn \in Calls \cup {None}
    /\ call \in [Starters -> [phase : Phases, wants : Models \cup {None}, obj : 0..MaxOpens]]
    /\ task \in [Calls -> [tools : SUBSET Tools, error : BOOLEAN, unverified : BOOLEAN,
                          progress : {"off", "armed"}, clock : {"off", "armed", "aborting", "waiting"},
                          stall : {"no", "aborting", "waiting", "over"}, doomed : SUBSET (1..MaxOpens)]]
    /\ settled \in [Calls -> {"no", "completed", "interrupted", "error", "stalled", "unknown", "failed"}]
    /\ stop \in [Stops -> [phase : {"idle", "other", "aborting", "waiting", "confirmed", "unknown"}, awaits : Calls \cup {None}]]
    /\ compaction \in {"no", "resuming", "running"} /\ retiring \in 0..MaxOpens
    /\ closing \in {"no", "aborting", "stopping", "closed"}
    /\ waits \in Seq([op : {"quiesce", "expire", "stall"}, by : Calls \cup Stops])
    /\ wire \in Seq([op : {"send", "interrupt", "quiesce", "expire", "stall", "close"}, by : Calls \cup Stops \cup {None}])
    /\ agent \in [prompts : Seq(Calls), tool : Tools \cup {None}, failed : BOOLEAN, aborting : BOOLEAN, model : Models]
    /\ ended \in [Calls -> {"no", "completed", "interrupted", "error"}] /\ cut \subseteq Calls /\ contested \in BOOLEAN

(* The contract of RuntimeTurn: only the run that holds the session is       *)
(* settled, once, whoever settles it (its events, its timers, a failed send).*)
Contract == INSTANCE RuntimeTurn WITH
    Outcomes <- {"completed", "interrupted", "error", "stalled", "unknown", "failed"}, No <- "no"
TurnContract == Contract!TurnSpec

(* While the tool of a turn runs, no progress timer runs against the turn:   *)
(* #armProgressTimer() is called by every event and around send(), and a     *)
(* stall would abort the session under the tool.                             *)
ToolTimeIsFree ==
    Working /\ Head(agent.prompts) = turn /\ agent.tool # None => task[turn].progress = "off"

(* A run answers completed only when the process ended its prompt unharmed,  *)
(* unless an earlier run of the session was given up with its prompt still   *)
(* in the process: session.idle names no turn.                               *)
GivenUp == \E r \in Calls : settled[r] \in {"unknown", "stalled", "failed"}
CompletedIsOwn == \A r \in Calls : settled[r] = "completed" => GivenUp \/ ended[r] = "completed"

(* quiesce() never confirms a turn whose shell was running when it asked.    *)
ShellIsReported == \A q \in Stops : stop[q].phase = "confirmed" => stop[q].awaits \notin cut

(* A run that names a model starts on that model, as long as no two calls    *)
(* have prepared the session at the same time.                               *)
ModelHonoured ==
    [][\A r \in Calls :
         ~contested /\ call[r].phase # "opening" /\ call'[r].phase = "opening" /\ call[r].wants # None
             => agent'.model = call[r].wants]_vars

(* Every run() returns, and every quiesce(), though the agent may stay busy, *)
(* fall silent or lose its session (copilot.mjs:523-570, 698-815).           *)
EverythingReturns ==
    /\ \A r \in Calls : call[r].phase # "idle" ~> (call[r].phase = "over" \/ settled[r] # "no")
    /\ \A q \in Stops : stop[q].phase # "idle" ~> stop[q].phase \in {"confirmed", "unknown", "other"}

-----------------------------------------------------------------------------
(* What README.md promises and the code does not keep: to be checked again   *)
(* when it is mended.                                                        *)

(* A confirmed quiesce() leaves nothing of its turn in the process or on the *)
(* way to it (README.md:50).                                                 *)
QuiesceStops ==
    \A q \in Stops : stop[q].phase = "confirmed" =>
        stop[q].awaits \notin Range(agent.prompts) /\ Request("send", stop[q].awaits) \notin Range(wire)
(* No turn is live while the session is compacted (README.md:473-475).       *)
CompactionExclusive == compaction = "no" \/ turn = None
=============================================================================
