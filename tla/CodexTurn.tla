------------------------------ MODULE CodexTurn ------------------------------
(***************************************************************************)
(* src/src/adapters/codex.mjs on src/src/runtime.mjs and                   *)
(* src/src/jsonrpc.mjs: the turns of one thread of `codex app-server`, the *)
(* prompts the server sends during them, the clock that limits a turn, and *)
(* quiesce(), which confirms that a turn has stopped.                      *)
(*                                                                         *)
(* Both directions of the child's stdio are FIFO. One chunk of the child's *)
(* output may hold several messages, which are dispatched in one go: the   *)
(* continuation of an answered request runs after the messages that shared *)
(* its chunk, and before any timer or application call (Quiet). Once the   *)
(* first continuation runs, the others that are due follow it, in any      *)
(* order, before the next chunk (draining).                                *)
(*                                                                         *)
(* The app-server is external and modelled from how the adapter uses it.   *)
(***************************************************************************)
EXTENDS Naturals, FiniteSets, SequencesExt

CONSTANTS
    Calls,          \* run() calls that continue the thread; each names the turn it starts
    Stops,          \* quiesce() calls
    Asks,           \* prompts (server-initiated requests) the server may send
    OnStartWaits,   \* onStart may return a promise that takes its time
    MaxInterrupts,  \* bound: interrupt() calls of the application
    MaxResumes,     \* bound: resume() calls
    MaxTimeouts,    \* bound: requests and waits of quiesce() that time out
    MaxLosses       \* bound: processes that die

ASSUME TurnConstants ==
    /\ IsFiniteSet(Calls) /\ IsFiniteSet(Stops) /\ IsFiniteSet(Asks)
    /\ Calls \cap Stops = {} /\ {"none", "resume"} \cap (Calls \cup Stops) = {}
    /\ OnStartWaits \in BOOLEAN /\ {MaxInterrupts, MaxResumes, MaxTimeouts, MaxLosses} \subseteq Nat

VARIABLES
    toServer, toClient, \* lines in the pipes
    server,             \* the thread on the server
    ended,              \* ended[r]: how the server ended the turn of r, "no" before
    pending,            \* callers of the requests in flight, oldest first
    got,                \* got[c]: the answer whose continuation has not run
    task,               \* turns.get(threadId)
    session,            \* sessions.get(threadId)
    prompts,            \* serverRequests
    awaiting,           \* awaitingResponse of the peer
    armed,              \* prompts whose unhandledRequestTimeoutMs has not elapsed
    call,               \* call[r]: where run() r is
    settled,            \* settled[r]: the settlement of r's task, "no" before
    stop,               \* stop[q]: where quiesce() q is
    up,                 \* a process is running
    draining,           \* continuations run, and others are due
    dropped,            \* history: a run goes on whose task was taken from it
    asked, interrupts, resumes, timeouts, losses

pipes == <<toServer, toClient, pending>>
prompting == <<prompts, awaiting, armed>>
counters == <<asked, interrupts, resumes, timeouts, losses>>
bounds == <<up, dropped, counters>>
vars == <<pipes, server, ended, got, task, session, prompting, call, settled, stop, draining, bounds>>

None == "none"
Resumed == "resume"                 \* caller of thread/resume, owner of its entry
Callers == Calls \cup Stops \cup {Resumed}

Task(r) == [call |-> r, turnId |-> None, clock |-> "running", waitingHuman |-> FALSE, interruptRequested |-> FALSE]
NoTask == [call |-> None, turnId |-> None, clock |-> "off", waitingHuman |-> FALSE, interruptRequested |-> FALSE]
Session(o, s) == [owner |-> o, stopped |-> s]
NoSession == Session(None, FALSE)
Idle == [turn |-> None, cut |-> FALSE, asks |-> {}]

Request(m, c, t) == [method |-> m, caller |-> c, turn |-> t]
Answer(m, a) == [method |-> m, ask |-> a]
Reply(c, t) == [method |-> "reply", caller |-> c, error |-> None, turn |-> t]
Fault(c, e) == [method |-> "reply", caller |-> c, error |-> e, turn |-> None]
NoReply == Fault(None, "gone")
Ok(c) == got[c].error = None
Note(m, t) == [method |-> m, turn |-> t]
Prompt(m, a) == [method |-> m, ask |-> a]

Init ==
    /\ toServer = <<>> /\ toClient = <<>> /\ pending = <<>>
    /\ server = Idle
    /\ ended = [r \in Calls |-> "no"]
    /\ got = [c \in Callers |-> NoReply]
    /\ task = NoTask /\ session = NoSession
    /\ prompts = {} /\ awaiting = {} /\ armed = {}
    /\ call = [r \in Calls |-> [phase |-> "idle", previous |-> None]]
    /\ settled = [r \in Calls |-> "no"]
    /\ stop = [q \in Stops |-> [phase |-> "idle", awaits |-> None, heard |-> FALSE, before |-> {}]]
    /\ draining = FALSE /\ dropped = FALSE
    /\ up = TRUE /\ asked = {} /\ interrupts = 0 /\ resumes = 0 /\ timeouts = 0 /\ losses = 0

-----------------------------------------------------------------------------
(* JsonRpcPeer.request(): a line on the pipe and an entry of `pending`. A    *)
(* request whose promise nobody reads (interrupts of expire() and of the     *)
(* application, thread/unsubscribe) is only the line.                        *)
Sends(m, c, t) ==
    /\ toServer' = Append(toServer, Request(m, c, t))
    /\ pending' = Append(pending, c)
    /\ UNCHANGED toClient
Posts(m) == toServer' = Append(toServer, m) /\ UNCHANGED <<toClient, pending>>

Settle(r, o) == settled' = [settled EXCEPT ![r] = IF @ = "no" THEN o ELSE @]
CallBecomes(r, p) == call' = [call EXCEPT ![r].phase = p]
StopBecomes(q, p) == stop' = [stop EXCEPT ![q].phase = p, ![q].heard = FALSE]

(* What runs before the next event of the outside world. *)
StopReleased(q) == stop[q].phase = "settling" /\ settled[stop[q].awaits] # "no"
Quiet ==
    /\ \A c \in Callers : got[c] = NoReply
    /\ \A q \in Stops : ~StopReleased(q) /\ ~(stop[q].phase = "listening" /\ stop[q].heard)
    /\ OnStartWaits \/ \A r \in Calls : call[r].phase # "opening"

(* What settles a promise outside of a chunk is followed by its              *)
(* continuations, and those by the next chunk.                               *)
Drains == draining' = ~Quiet'

(* interrupt(): the turn/interrupt of a turn whose id is known. *)
Cuts == task # NoTask /\ task.turnId # None
Interrupting == IF task = NoTask THEN NoTask ELSE [task EXCEPT !.interruptRequested = TRUE]
PostsInterrupt ==
    IF Cuts THEN Posts(Request("turn/interrupt", None, task.turnId)) ELSE UNCHANGED pipes
-----------------------------------------------------------------------------
(* run() with the threadId of this thread as its continuation. An unknown    *)
(* session opens a fresh thread, and so does a stopped one whose key no      *)
(* longer matches, once retire() has released it; one that is not confirmed  *)
(* stopped is refused.                                                       *)
Retirable == session # NoSession /\ session.stopped /\ task = NoTask
RetireOr(r, refusal) ==
    IF Retirable
      THEN /\ session' = NoSession
           /\ Posts(Request("thread/unsubscribe", None, None))
           /\ CallBecomes(r, "fresh")
      ELSE /\ CallBecomes(r, IF session = NoSession THEN "fresh" ELSE refusal)
           /\ UNCHANGED <<pipes, session>>

Run(r) ==
    /\ call[r].phase = "idle" /\ Quiet
    /\ \/ /\ session # NoSession /\ session.stopped
          /\ Sends("thread/read", r, None)
          /\ call' = [call EXCEPT ![r] = [phase |-> "reading", previous |-> session.owner]]
          /\ UNCHANGED session
       \/ RetireOr(r, "refused")
    /\ up' = TRUE
    /\ UNCHANGED <<server, ended, got, task, prompting, settled, stop, dropped, asked, interrupts, resumes, timeouts, losses, draining>>

(* The continuation of thread/read: reuse the idle thread, or refuse. *)

(* Mutant: without the turn_busy check. *)
ReusesBusy(r) ==
    /\ task' = Task(r)
    /\ session' = Session(r, FALSE)
    /\ CallBecomes(r, "opening")
    /\ UNCHANGED pipes
Reuses(r) ==
    /\ task = NoTask
    /\ task' = Task(r)
    /\ session' = Session(r, FALSE)
    /\ CallBecomes(r, "opening")
    /\ UNCHANGED pipes
Unstops(r) ==
    /\ session' = [session EXCEPT !.stopped = @ /\ session.owner # call[r].previous]
    /\ CallBecomes(r, "refused")
    /\ UNCHANGED <<task, pipes>>
(* Mutant: the status thread/read reports is not looked at. *)
RunReadBlind(r) ==
    /\ call[r].phase = "reading" /\ Ok(r) /\ got[r] # NoReply
    /\ got' = [got EXCEPT ![r] = NoReply]
    /\ Reuses(r)
    /\ UNCHANGED <<server, ended, prompting, settled, stop, bounds>>
RunRead(r) ==
    /\ call[r].phase = "reading" /\ got[r] # NoReply
    /\ got' = [got EXCEPT ![r] = NoReply]
    /\ \/ Ok(r) /\ got[r].turn = None /\ Reuses(r)
       \/ /\ Ok(r) /\ got[r].turn = None /\ task # NoTask
          /\ CallBecomes(r, "refused") /\ UNCHANGED <<task, session, pipes>>
       \/ Ok(r) /\ got[r].turn # None /\ Unstops(r)
       \/ got[r].error = "gone" /\ RetireOr(r, "refused") /\ UNCHANGED task
       \/ /\ got[r].error = "late"
          /\ CallBecomes(r, "failed") /\ UNCHANGED <<task, session, pipes>>
    /\ UNCHANGED <<server, ended, prompting, settled, stop, bounds>>

(* The catch clause: whatever task the thread has is dropped and rejected. A *)
(* thread the server no longer knows is retired and the run begins afresh.   *)
Abandons(r, gone) ==
    /\ IF task # NoTask THEN Settle(task.call, "failed") ELSE UNCHANGED settled
    /\ dropped' = (dropped \/ (task # NoTask /\ task.call # r))
    /\ task' = NoTask
    /\ IF gone /\ task.turnId = None
         THEN /\ CallBecomes(r, "fresh")
              /\ session' = NoSession
              /\ IF session # NoSession THEN Posts(Request("thread/unsubscribe", None, None)) ELSE UNCHANGED pipes
         ELSE CallBecomes(r, "failed") /\ UNCHANGED <<session, pipes>>

(* onStart returns, and turn/start is sent, or throws.                       *)
Opened(r) ==
    /\ call[r].phase = "opening"
    /\ OnStartWaits => Quiet
    /\ \/ /\ up /\ Sends("turn/start", r, None)
          /\ CallBecomes(r, "starting")
          /\ UNCHANGED <<task, session, settled, dropped>>
       \/ Abandons(r, FALSE)
    /\ UNCHANGED <<server, ended, got, prompting, stop, up, counters>>

RunStarted(r) ==
    /\ call[r].phase = "starting" /\ got[r] # NoReply
    /\ got' = [got EXCEPT ![r] = NoReply]
    /\ \/ /\ Ok(r) /\ task # NoTask
          /\ task' = [task EXCEPT !.turnId = r]
          /\ IF task.interruptRequested
               THEN Sends("turn/interrupt", r, r) /\ CallBecomes(r, "cutting")
               ELSE CallBecomes(r, "awaiting") /\ UNCHANGED pipes
          /\ UNCHANGED <<session, settled, dropped>>
       \/ /\ Ok(r) /\ task = NoTask
          /\ CallBecomes(r, "awaiting") /\ UNCHANGED <<pipes, task, session, settled, dropped>>
       \/ ~Ok(r) /\ Abandons(r, got[r].error = "gone")
    /\ UNCHANGED <<server, ended, prompting, stop, up, counters>>
RunCut(r) ==
    /\ call[r].phase = "cutting" /\ got[r] # NoReply
    /\ got' = [got EXCEPT ![r] = NoReply]
    /\ IF Ok(r)
         THEN CallBecomes(r, "awaiting") /\ UNCHANGED <<pipes, task, session, settled, dropped>>
         ELSE Abandons(r, got[r].error = "gone")
    /\ UNCHANGED <<server, ended, prompting, stop, up, counters>>
-----------------------------------------------------------------------------
(* quiesce(): interrupt the turn and await its settlement, read the thread,  *)
(* interrupt what is still in progress and await a push that it ended, read  *)
(* again, and end the background terminals. The requests about terminals     *)
(* change nothing here: they are one request that may fail.                  *)
StartedCalls == {r \in Calls : call[r].phase \in {"starting", "cutting", "awaiting", "failed"}}
Quiesce(q) ==
    /\ stop[q].phase = "idle" /\ Quiet
    /\ task' = Interrupting
    /\ stop' = [stop EXCEPT ![q] =
         [phase |-> IF ~up THEN "failed" ELSE IF Cuts THEN "interrupting" ELSE IF task # NoTask THEN "settling" ELSE "reading",
          awaits |-> task.call, heard |-> FALSE, before |-> StartedCalls]]
    /\ IF ~up \/ (task # NoTask /\ ~Cuts) THEN UNCHANGED pipes
       ELSE IF Cuts THEN Sends("turn/interrupt", q, task.turnId)
       ELSE Sends("thread/read", q, None)
    /\ UNCHANGED <<server, ended, got, session, prompting, call, settled, bounds>>
    /\ Drains

StopAnswered(q, phase) == stop[q].phase = phase /\ got[q] # NoReply /\ got' = [got EXCEPT ![q] = NoReply]
Fails(q) == StopBecomes(q, "failed") /\ UNCHANGED pipes

StopInterrupted(q) ==
    /\ StopAnswered(q, "interrupting")
    /\ StopBecomes(q, IF Ok(q) THEN "settling" ELSE "failed")
    /\ UNCHANGED <<pipes, session>>
StopSettled(q) ==
    /\ StopReleased(q)
    /\ Sends("thread/read", q, None) /\ StopBecomes(q, "reading")
    /\ UNCHANGED <<got, session>>
(* Mutant: a turn in progress is not interrupted. *)
StopReadBlind(q) ==
    /\ StopAnswered(q, "reading")
    /\ \/ ~Ok(q) /\ Fails(q)
       \/ Ok(q) /\ Sends("thread/backgroundTerminals", q, None) /\ StopBecomes(q, "terminals")
    /\ UNCHANGED session
StopRead(q) ==
    /\ StopAnswered(q, "reading")
    /\ \/ ~Ok(q) /\ Fails(q)
       \/ Ok(q) /\ got[q].turn # None /\ Sends("turn/interrupt", q, got[q].turn) /\ StopBecomes(q, "cutting")
       \/ Ok(q) /\ got[q].turn = None /\ Sends("thread/backgroundTerminals", q, None) /\ StopBecomes(q, "terminals")
    /\ UNCHANGED session
(* The idle signal is listened for from here on. *)
Listening(q) == stop[q].phase \in {"cutting", "listening"}
Hears == [q \in Stops |-> [stop[q] EXCEPT !.heard = @ \/ Listening(q)]]
StopCut(q) ==
    /\ StopAnswered(q, "cutting")
    /\ \/ ~Ok(q) /\ Fails(q)
       \/ Ok(q) /\ stop[q].heard /\ Sends("thread/read", q, None) /\ StopBecomes(q, "confirming")
       \/ Ok(q) /\ ~stop[q].heard /\ StopBecomes(q, "listening") /\ UNCHANGED pipes
    /\ UNCHANGED session
StopHeard(q) ==
    /\ stop[q].phase = "listening" /\ stop[q].heard
    /\ Sends("thread/read", q, None) /\ StopBecomes(q, "confirming")
    /\ UNCHANGED <<got, session>>
StopConfirmed(q) ==
    /\ StopAnswered(q, "confirming")
    /\ \/ ~(Ok(q) /\ got[q].turn = None) /\ Fails(q)
       \/ Ok(q) /\ got[q].turn = None /\ Sends("thread/backgroundTerminals", q, None) /\ StopBecomes(q, "terminals")
    /\ UNCHANGED session
StopTerminals(q) ==
    /\ StopAnswered(q, "terminals")
    /\ \/ ~Ok(q) /\ Fails(q) /\ UNCHANGED session
       \/ /\ Ok(q) /\ StopBecomes(q, "done") /\ UNCHANGED pipes
          /\ session' = [session EXCEPT !.stopped = session # NoSession]  \* markStopped()
StopStep(q) ==
    /\ StopInterrupted(q) \/ StopSettled(q) \/ StopRead(q) \/ StopCut(q)
       \/ StopHeard(q) \/ StopConfirmed(q) \/ StopTerminals(q)
    /\ UNCHANGED <<server, ended, task, prompting, call, settled, bounds>>
Elapses == timeouts < MaxTimeouts /\ timeouts' = timeouts + 1
(* The ten-second limits of the race and of the idle signal. *)
StopTimesOut(q) ==
    /\ stop[q].phase \in {"settling", "listening"} /\ Quiet /\ Elapses
    /\ StopBecomes(q, "failed")
    /\ UNCHANGED <<pipes, server, ended, got, task, session, prompting, call, settled, up, dropped, asked, interrupts, resumes, losses, draining>>
-----------------------------------------------------------------------------
(* The other calls of the application, and the timers.                       *)
Interrupt ==
    /\ Quiet /\ interrupts < MaxInterrupts /\ task # NoTask
    /\ task' = Interrupting /\ PostsInterrupt
    /\ interrupts' = interrupts + 1
    /\ UNCHANGED <<server, ended, got, session, prompting, call, settled, stop, up, dropped, asked, resumes, timeouts, losses, draining>>
Retire ==
    /\ Quiet /\ Retirable
    /\ session' = NoSession /\ Posts(Request("thread/unsubscribe", None, None))
    /\ UNCHANGED <<server, ended, got, task, prompting, call, settled, stop, bounds, draining>>
(* resume(): one call of it at a time. *)
Resume ==
    /\ Quiet /\ resumes < MaxResumes
    /\ Resumed \notin Range(pending)
    /\ Sends("thread/resume", Resumed, None)
    /\ up' = TRUE /\ resumes' = resumes + 1
    /\ UNCHANGED <<server, ended, got, task, session, prompting, call, settled, stop, dropped, asked, interrupts, timeouts, losses, draining>>
ResumeAnswered ==
    /\ got[Resumed] # NoReply
    /\ got' = [got EXCEPT ![Resumed] = NoReply]
    /\ session' = IF Ok(Resumed) THEN Session(Resumed, TRUE) ELSE session
    /\ UNCHANGED <<pipes, server, ended, task, prompting, call, settled, stop, bounds>>

(* expire(): the task stays in `turns` until its turn is reported complete. *)
Expire ==
    /\ Quiet /\ task.clock = "running"
    /\ task' = [Interrupting EXCEPT !.clock = "expired"]
    /\ Settle(task.call, "timeout") /\ PostsInterrupt
    /\ UNCHANGED <<server, ended, got, session, prompting, call, stop, bounds>>
    /\ Drains

(* Every request has the same 30 s: the oldest in flight times out first. *)
TimeOut ==
    /\ Quiet /\ pending # <<>> /\ Elapses
    /\ pending' = Tail(pending)
    /\ got' = [got EXCEPT ![Head(pending)] = Fault(Head(pending), "late")]
    /\ UNCHANGED <<toServer, toClient, server, ended, task, session, prompting, call, settled, stop, up, dropped, asked, interrupts, resumes, losses>>
    /\ Drains

(* Mutant: any answer restarts the clock. *)
RespondHasty(a) ==
    /\ Quiet /\ a \in prompts
    /\ prompts' = prompts \ {a} /\ awaiting' = awaiting \ {a} /\ UNCHANGED armed
    /\ Posts(Answer("answer", a))
    /\ task' = IF task.waitingHuman THEN [task EXCEPT !.waitingHuman = FALSE, !.clock = "running"] ELSE task
    /\ UNCHANGED <<server, ended, got, session, call, settled, stop, bounds, draining>>
(* respond(), by the 'request' listener, the permission policy or the        *)
(* default decision: the clock restarts unless another prompt is open.       *)
Respond(a) ==
    /\ Quiet /\ a \in prompts
    /\ prompts' = prompts \ {a} /\ awaiting' = awaiting \ {a} /\ UNCHANGED armed
    /\ Posts(Answer("answer", a))
    /\ task' = IF task.waitingHuman /\ prompts = {a}
                 THEN [task EXCEPT !.waitingHuman = FALSE, !.clock = "running"] ELSE task
    /\ UNCHANGED <<server, ended, got, session, call, settled, stop, bounds, draining>>

(* Mutant: the timeout forgets to answer. *)
AutoDeclineSilently(a) ==
    /\ Quiet /\ a \in armed
    /\ armed' = armed \ {a} /\ awaiting' = awaiting \ {a}
    /\ UNCHANGED <<pipes, server, ended, got, task, session, prompts, call, settled, stop, bounds, draining>>
(* The unhandled-request timeout declines what is still unanswered. *)
AutoDecline(a) ==
    /\ Quiet /\ a \in armed
    /\ armed' = armed \ {a} /\ awaiting' = awaiting \ {a} /\ UNCHANGED prompts
    /\ IF a \in awaiting THEN Posts(Answer("decline", a)) ELSE UNCHANGED pipes
    /\ UNCHANGED <<server, ended, got, task, session, call, settled, stop, bounds, draining>>
-----------------------------------------------------------------------------
(* One line of the child's output. A reply is correlated by its caller; one  *)
(* whose request timed out finds nobody. A note of another turn than the     *)
(* task's is ignored, but listeners of the idle signal hear every note.      *)
(* Mutant: the request stays in `pending`. *)
AnsweredKept(m) ==
    /\ got' = IF m.caller \in Range(pending) THEN [got EXCEPT ![m.caller] = m] ELSE got
    /\ UNCHANGED pending
Answered(m) ==
    IF m.caller \in Range(pending)
      THEN /\ got' = [got EXCEPT ![m.caller] = m]
           /\ \E i \in DOMAIN pending : pending[i] = m.caller /\ pending' = RemoveAt(pending, i)
      ELSE UNCHANGED <<got, pending>>
OwnTurn(t) == task # NoTask /\ task.turnId \in {None, t}
TurnStarted(t) == task' = IF task # NoTask /\ task.turnId = None THEN [task EXCEPT !.turnId = t] ELSE task
Reported(o) == IF o = "completed" THEN {"completed", "failed"} ELSE {o}    \* the report may not meet its schema
CompleteTurn(t, o) ==
    IF OwnTurn(t) THEN task' = NoTask /\ \E outcome \in Reported(o) : Settle(task.call, outcome)
    ELSE UNCHANGED <<task, settled>>
OnRequest(a) ==
    /\ prompts' = prompts \cup {a} /\ awaiting' = awaiting \cup {a} /\ armed' = armed \cup {a}
    /\ task' = IF task # NoTask /\ ~task.waitingHuman
                 THEN [task EXCEPT !.waitingHuman = TRUE, !.clock = "stopped"] ELSE task

OnReply(m) == Answered(m) /\ UNCHANGED <<task, prompting, settled, stop>>
OnNotification(m) ==
    /\ \/ m.method = "turn/started" /\ TurnStarted(m.turn) /\ UNCHANGED <<prompting, settled, stop>>
       \/ /\ m.method \in {"completed", "failed", "interrupted"}
          /\ CompleteTurn(m.turn, m.method) /\ stop' = Hears /\ UNCHANGED prompting
       \/ m.method = "request" /\ OnRequest(m.ask) /\ UNCHANGED <<settled, stop>>
       \/ /\ m.method = "serverRequest/resolved"
          /\ prompts' = prompts \ {m.ask} /\ UNCHANGED <<awaiting, armed, task, settled, stop>>
    /\ UNCHANGED <<got, pending>>
Dispatch ==
    /\ ~draining /\ toClient # <<>> /\ toClient' = Tail(toClient)
    /\ LET m == Head(toClient) IN IF m.method = "reply" THEN OnReply(m) ELSE OnNotification(m)
    /\ UNCHANGED <<toServer, server, ended, session, call, bounds, draining>>

(* #lost(): the pipes and every promise go with the process. A run() whose   *)
(* onStart has not returned goes on.                                         *)
Lost ==
    /\ up /\ Quiet /\ losses < MaxLosses
    /\ up' = FALSE /\ losses' = losses + 1 /\ UNCHANGED <<asked, interrupts, resumes, timeouts, draining>>
    /\ toServer' = <<>> /\ toClient' = <<>> /\ pending' = <<>>
    /\ server' = Idle /\ UNCHANGED <<ended, got>>
    /\ IF task # NoTask THEN Settle(task.call, "failed") ELSE UNCHANGED settled
    /\ task' = NoTask /\ session' = NoSession
    /\ dropped' = (dropped \/ \E r \in Calls : call[r].phase = "opening")
    /\ prompts' = {} /\ awaiting' = {} /\ UNCHANGED armed
    /\ call' = [r \in Calls |-> [call[r] EXCEPT !.phase = IF @ \in {"reading", "starting", "cutting"} THEN "failed" ELSE @]]
    /\ stop' = [q \in Stops |-> [stop[q] EXCEPT !.phase = IF @ \in {"idle", "done"} THEN @ ELSE "failed"]]
-----------------------------------------------------------------------------
(* The app-server: it handles one line at a time, runs one turn per thread,  *)
(* and resolves the prompts of a turn before it reports the turn's end       *)
(* (turn/completed and thread/status/changed are one note, with the status   *)
(* as its method). A thread it has unloaded is "gone"; it was an idle one.   *)
Resolved(A) == [i \in 1..Cardinality(A) |-> Prompt("serverRequest/resolved", SetToSeq(A)[i])]
Says(s) == toClient' = toClient \o s
Starts(m) ==
    \/ /\ server.turn = None
       /\ server' = [Idle EXCEPT !.turn = m.caller]
       /\ \E order \in {<<Reply(m.caller, m.caller), Note("turn/started", m.caller)>>,
                        <<Note("turn/started", m.caller), Reply(m.caller, m.caller)>>} : Says(order)
    \/ /\ server.turn = None /\ Says(<<Fault(m.caller, "gone")>>) /\ UNCHANGED server
    \/ /\ server.turn # None /\ Says(<<Fault(m.caller, "rejected")>>) /\ UNCHANGED server
Reads(m) ==
    /\ \/ Says(<<Reply(m.caller, server.turn)>>)
       \/ server.turn = None /\ Says(<<Fault(m.caller, "gone")>>)
    /\ UNCHANGED server
InterruptsTurn(m) ==
    /\ server' = [server EXCEPT !.cut = @ \/ server.turn = m.turn]
    /\ \/ server.turn = m.turn /\ Says(<<Reply(m.caller, None)>>)
       \/ server.turn # m.turn /\ Says(<<Fault(m.caller, "rejected")>>)
       \/ /\ server.turn # m.turn /\ server.turn = None
          /\ m.caller \in Calls        \* nobody else asks which of the two it is
          /\ Says(<<Fault(m.caller, "gone")>>)
TakesAnswer(m) ==
    /\ server' = [server EXCEPT !.asks = @ \ {m.ask}]
    /\ Says(IF m.ask \in server.asks THEN Resolved({m.ask}) ELSE <<>>)
Serve ==
    /\ toServer # <<>> /\ toServer' = Tail(toServer)
    /\ LET m == Head(toServer) IN
         \/ m.method = "turn/start" /\ Starts(m)
         \/ m.method \in {"thread/read", "thread/resume", "thread/backgroundTerminals"} /\ Reads(m)
         \/ m.method = "turn/interrupt" /\ InterruptsTurn(m)
         \/ m.method \in {"answer", "decline"} /\ TakesAnswer(m)
         \/ m.method = "thread/unsubscribe" /\ UNCHANGED <<server, toClient>>
    /\ UNCHANGED <<pending, ended, got, task, session, prompting, call, settled, stop, bounds, draining>>

Ask(a) ==
    /\ server.turn # None /\ ~server.cut /\ a \notin asked
    /\ asked' = asked \cup {a}
    /\ server' = [server EXCEPT !.asks = @ \cup {a}]
    /\ Says(<<Prompt("request", a)>>)
    /\ UNCHANGED <<toServer, pending, ended, got, task, session, prompting, call, settled, stop, up, dropped, interrupts, resumes, timeouts, losses, draining>>
EndTurn ==
    /\ server.turn # None
    /\ server.cut \/ server.asks = {}
    /\ server' = Idle
    /\ \E o \in IF server.cut THEN {"interrupted"} ELSE {"completed", "failed"} :
         /\ ended' = [ended EXCEPT ![server.turn] = o]
         /\ Says(Resolved(server.asks) \o <<Note(o, server.turn)>>)
    /\ UNCHANGED <<toServer, pending, got, task, session, prompting, call, settled, stop, bounds, draining>>
-----------------------------------------------------------------------------
Continue ==
    /\ \/ \E r \in Calls : RunRead(r) \/ Opened(r) \/ RunStarted(r) \/ RunCut(r)
       \/ \E q \in Stops : StopStep(q)
       \/ ResumeAnswered
    /\ Drains
Application ==
    \/ \E r \in Calls : Run(r)
    \/ \E q \in Stops : Quiesce(q)
    \/ \E a \in Asks : Respond(a)
    \/ Interrupt \/ Retire \/ Resume
Timers ==
    \/ Expire \/ TimeOut
    \/ \E q \in Stops : StopTimesOut(q)
    \/ \E a \in Asks : AutoDecline(a)
Server == Serve \/ EndTurn \/ \E a \in Asks : Ask(a)
Next == Continue \/ Dispatch \/ Application \/ Timers \/ Server \/ Lost

Spec == Init /\ [][Next]_vars

-----------------------------------------------------------------------------
Lines ==
    [method : {"turn/start", "thread/read", "thread/resume", "thread/backgroundTerminals", "thread/unsubscribe", "turn/interrupt"},
     caller : Callers \cup {None}, turn : Calls \cup {None}]
    \cup [method : {"answer", "decline"}, ask : Asks]
Replies == [method : {"reply"}, caller : Callers \cup {None}, error : {None, "gone", "rejected", "late"}, turn : Calls \cup {None}]
Notes ==
    [method : {"turn/started", "completed", "failed", "interrupted"}, turn : Calls \cup {None}]
    \cup [method : {"request", "serverRequest/resolved"}, ask : Asks]

(* The state is well-formed: the task, the session entry and the calls are   *)
(* what codex.mjs keeps of them, no caller has two requests in flight, and   *)
(* a task's clock is stopped exactly while it is waiting for a human.        *)
TypeOK ==
    /\ toServer \in Seq(Lines) /\ toClient \in Seq(Replies \cup Notes)
    /\ pending \in Seq(Callers) /\ IsInjective(pending)
    /\ server \in [turn : Calls \cup {None}, cut : BOOLEAN, asks : SUBSET Asks]
    /\ ended \in [Calls -> {"no", "completed", "failed", "interrupted"}]
    /\ got \in [Callers -> Replies]
    /\ task \in [call : Calls \cup {None}, turnId : Calls \cup {None}, waitingHuman : BOOLEAN, interruptRequested : BOOLEAN,
                 clock : {"off", "running", "stopped", "expired"}]
    /\ task.call = None <=> task = NoTask
    /\ task.waitingHuman <=> task.clock = "stopped"
    /\ session \in [owner : Calls \cup {Resumed, None}, stopped : BOOLEAN]
    /\ prompts \subseteq Asks /\ awaiting \subseteq Asks /\ armed \subseteq Asks /\ asked \subseteq Asks
    /\ call \in [Calls -> [phase : {"idle", "reading", "opening", "starting", "cutting", "awaiting", "refused", "fresh", "failed"},
                           previous : Calls \cup {Resumed, None}]]
    /\ settled \in [Calls -> {"no", "completed", "failed", "interrupted", "timeout"}]
    /\ stop \in [Stops -> [phase : {"idle", "interrupting", "settling", "reading", "cutting", "listening", "confirming",
                                    "terminals", "done", "failed"},
                           awaits : Calls \cup {None}, heard : BOOLEAN, before : SUBSET Calls]]
    /\ draining \in BOOLEAN /\ dropped \in BOOLEAN /\ up \in BOOLEAN
    /\ interrupts \in 0..MaxInterrupts /\ resumes \in 0..MaxResumes /\ timeouts \in 0..MaxTimeouts /\ losses \in 0..MaxLosses

(* The server is never asked to start a turn while one is in progress: a run *)
(* that would do so is refused with turn_busy or quiescence_unknown, however *)
(* earlier runs ended (codex.mjs:574-604), unless a run had its task taken   *)
(* from it and went on (dropped).                                            *)
StartsInFlight == {i \in DOMAIN toServer : toServer[i].method = "turn/start"}
OneTurnPerThread ==
    dropped \/ Cardinality(StartsInFlight) + (IF server.turn = None THEN 0 ELSE 1) <= 1

(* A run is told an outcome only if the server ended that run's own turn so: *)
(* notes of an earlier turn never finish a later assignment                  *)
(* (codex.mjs:131), unless a run had its task taken from it.                 *)
OwnOutcome == dropped \/ \A r \in Calls : settled[r] \in {"completed", "interrupted"} => ended[r] = settled[r]

(* The limit of a turn does not run while a human is being asked something,  *)
(* several prompts at once included (onRequest(), respond()), and prompts of *)
(* an earlier turn never run into it.                                        *)
HumanTimeIsFree == task # NoTask /\ prompts # {} => dropped \/ task.clock # "running"

(* When quiesce() returns, no turn whose turn/start had been sent when it    *)
(* was called is in progress or can still begin: what the caller does next   *)
(* to the workspace races with none of them (codex.mjs:694-737).             *)
QuiesceStops == [][\A q \in Stops : stop[q].phase # "done" /\ stop'[q].phase = "done" =>
    /\ server.turn \notin stop[q].before
    /\ \A i \in StartsInFlight : toServer[i].caller \notin stop[q].before]_vars

(* If the server serves its requests and ends its turns, and the unhandled-  *)
(* request timeout fires, every run() that continues the thread settles and  *)
(* every quiesce() returns.                                                  *)
System == Continue \/ Dispatch \/ Serve \/ EndTurn \/ \E a \in Asks : AutoDecline(a)
FairSpec == Spec /\ WF_vars(System)
RunOver(r) == call[r].phase \in {"refused", "fresh", "failed"} \/ (call[r].phase = "awaiting" /\ settled[r] # "no")
EverythingReturns ==
    /\ \A r \in Calls : call[r].phase # "idle" ~> RunOver(r)
    /\ \A q \in Stops : stop[q].phase # "idle" ~> stop[q].phase \in {"done", "failed"}

-----------------------------------------------------------------------------
(* What README.md:109-114 promises and the code does not keep: to be checked *)
(* again when it is mended. A turn whose clock is stopped is waiting for an  *)
(* answer that somebody can still give; an auto-declined prompt leaves it    *)
(* stopped (runtime.mjs:222-231).                                            *)
ClockComesBack == task.clock = "stopped" => awaiting # {}

(* codex.mjs:131: "Old turn events must not finish or contaminate a later    *)
(* assignment." A run whose turn/interrupt is rejected, because its turn is  *)
(* over, rejects the task that a later run has installed meanwhile, and the  *)
(* turn of that run goes on (codex.mjs:636-640); a third run, which has read *)
(* the thread before that turn began, then starts another one.               *)
TasksAreOwn == ~dropped

(* codex.mjs:643-644: "An explicit missing-thread response means no turn was *)
(* accepted", so the run begins afresh. The response may be to the interrupt *)
(* of a turn that was accepted and has ended, which is then run again.       *)
NothingReplays == \A r \in Calls : call[r].phase = "fresh" => ended[r] = "no"

(* codex.mjs:694: a confirmed quiesce() found "no in-progress turns". The   *)
(* run whose settlement it awaited may still be in a slow onStart: its limit *)
(* settles it, quiesce() reads an idle thread, and the turn begins later.    *)
NothingBeginsLater == [][\A q \in Stops : stop[q].phase # "done" /\ stop'[q].phase = "done" =>
    \A r \in Calls : stop[q].awaits = r => call[r].phase # "opening"]_vars
=============================================================================
