--------------------------- MODULE CodexTurnProofs ---------------------------
(***************************************************************************)
(* Proofs about CodexTurn, for any number of runs, quiesce() calls and     *)
(* prompts: its types, that the server is never asked for two turns at a   *)
(* time, that a run is told its own outcome, that the limit of a turn does *)
(* not run while a prompt is open, and that what quiesce() confirms is so. *)
(***************************************************************************)
EXTENDS CodexTurn, FiniteSetTheorems, TLAPS

Methods == {"turn/start", "thread/read", "thread/resume", "thread/backgroundTerminals", "thread/unsubscribe", "turn/interrupt"}
Ends == {"completed", "failed", "interrupted"}
Results == {"no", "completed", "failed", "interrupted", "timeout"}
CallPhases == {"idle", "reading", "opening", "starting", "cutting", "awaiting", "refused", "fresh", "failed"}
StopPhases == {"idle", "interrupting", "settling", "reading", "cutting", "listening", "confirming", "terminals", "done", "failed"}

(* Lines to the server: only a run asks for a turn.                          *)
Sent ==
    {m \in [method : Methods, caller : Callers \cup {None}, turn : Calls \cup {None}] : m.method = "turn/start" => m.caller \in Calls}
    \cup [method : {"answer", "decline"}, ask : Asks]
(* Lines to the client: a note of a turn names it, and no reply is late.     *)
Told ==
    [method : {"reply"}, caller : Callers \cup {None}, error : {None, "gone", "rejected"}, turn : Calls \cup {None}]
    \cup [method : {"turn/started"} \cup Ends, turn : Calls]
    \cup [method : {"request", "serverRequest/resolved"}, ask : Asks]

CallRecords == [phase : CallPhases, previous : Calls \cup {Resumed, None}]
StopRecords == [phase : StopPhases, awaits : Calls \cup {None}, heard : BOOLEAN, before : SUBSET Calls]
TaskRecords == [call : Calls \cup {None}, turnId : Calls \cup {None}, waitingHuman : BOOLEAN, interruptRequested : BOOLEAN,
                clock : {"off", "running", "stopped", "expired"}]
Sessions == [owner : Calls \cup {Resumed, None}, stopped : BOOLEAN]
Servers == [turn : Calls \cup {None}, cut : BOOLEAN, asks : SUBSET Asks]

IsTask(t) == /\ t \in TaskRecords
             /\ t.call = None <=> t = NoTask
             /\ t.waitingHuman <=> t.clock = "stopped"

Pipes == toServer \in Seq(Sent) /\ toClient \in Seq(Told) /\ pending \in Seq(Callers)
Thread == server \in Servers /\ ended \in [Calls -> Ends \cup {"no"}] /\ asked \subseteq Asks
Runs == call \in [Calls -> CallRecords] /\ settled \in [Calls -> Results]
Prompts == prompts \subseteq Asks /\ awaiting \subseteq Asks /\ armed \subseteq Asks
Bounds == /\ draining \in BOOLEAN /\ dropped \in BOOLEAN /\ up \in BOOLEAN
          /\ interrupts \in 0..MaxInterrupts /\ resumes \in 0..MaxResumes
          /\ timeouts \in 0..MaxTimeouts /\ losses \in 0..MaxLosses
Rest == /\ got \in [Callers -> Replies] /\ IsTask(task) /\ session \in Sessions
        /\ stop \in [Stops -> StopRecords]
Typed == Pipes /\ Thread /\ Runs /\ Prompts /\ Bounds /\ Rest

(* Who has a request in flight, or an answer to it, is waiting for it.       *)
Waiting(c) ==
    /\ c \in Calls => call[c].phase \in {"reading", "starting", "cutting"}
    /\ c \in Stops => stop[c].phase \in {"interrupting", "reading", "cutting", "confirming", "terminals"}
InFlight(c) == \E i \in DOMAIN pending : pending[i] = c
Correlated ==
    /\ \A i, j \in DOMAIN pending : pending[i] = pending[j] => i = j
    /\ \A c \in Callers : /\ InFlight(c) => got[c] = NoReply /\ Waiting(c)
                          /\ got[c] # NoReply => Waiting(c)

LEMMA Names ==
    /\ None \notin Callers /\ Resumed \notin Calls /\ Resumed \notin Stops /\ Calls \cap Stops = {}
    /\ None \notin Calls /\ None # Resumed /\ Callers = Calls \cup Stops \cup {Resumed}
BY TurnConstants DEF Callers, None, Resumed

LEMMA Constants ==
    /\ MaxInterrupts \in Nat /\ MaxResumes \in Nat /\ MaxTimeouts \in Nat /\ MaxLosses \in Nat
    /\ IsFiniteSet(Asks) /\ IsFiniteSet(Calls)
BY TurnConstants
-----------------------------------------------------------------------------
(* Sequences.                                                                *)
LEMMA Appended ==
    ASSUME NEW S, NEW s \in Seq(S), NEW m \in S
    PROVE  /\ Append(s, m) \in Seq(S) /\ Len(Append(s, m)) = Len(s) + 1 /\ DOMAIN Append(s, m) = 1..Len(s)+1
           /\ \A i \in DOMAIN s : Append(s, m)[i] = s[i]
           /\ Append(s, m)[Len(s) + 1] = m
           /\ DOMAIN s = 1..Len(s) /\ Len(s) \in Nat
OBVIOUS

LEMMA Tailed ==
    ASSUME NEW S, NEW s \in Seq(S), s # <<>>
    PROVE  /\ Tail(s) \in Seq(S) /\ Len(Tail(s)) = Len(s) - 1 /\ DOMAIN Tail(s) = 1..Len(s)-1
           /\ \A i \in 1..Len(s)-1 : Tail(s)[i] = s[i + 1]
           /\ Head(s) = s[1] /\ s[1] \in S /\ 1 \in DOMAIN s
           /\ DOMAIN s = 1..Len(s) /\ Len(s) \in Nat /\ Len(s) > 0
OBVIOUS

LEMMA Joined ==
    ASSUME NEW S, NEW s \in Seq(S), NEW t \in Seq(S)
    PROVE  /\ s \o t \in Seq(S) /\ Len(s \o t) = Len(s) + Len(t) /\ DOMAIN (s \o t) = 1..Len(s)+Len(t)
           /\ \A i \in DOMAIN s : (s \o t)[i] = s[i]
           /\ \A i \in 1..Len(t) : (s \o t)[Len(s) + i] = t[i]
           /\ DOMAIN s = 1..Len(s) /\ Len(s) \in Nat /\ DOMAIN t = 1..Len(t) /\ Len(t) \in Nat
OBVIOUS

LEMMA Removed ==
    ASSUME NEW S, NEW s \in Seq(S), NEW i \in DOMAIN s
    PROVE  /\ RemoveAt(s, i) \in Seq(S) /\ Len(RemoveAt(s, i)) = Len(s) - 1
           /\ DOMAIN RemoveAt(s, i) = 1..Len(s)-1
           /\ \A k \in 1..Len(s)-1 : RemoveAt(s, i)[k] = IF k < i THEN s[k] ELSE s[k + 1]
           /\ DOMAIN s = 1..Len(s) /\ Len(s) \in Nat
<1>1. Len(s) \in Nat /\ DOMAIN s = 1..Len(s) /\ i \in 1..Len(s)
  OBVIOUS
<1> DEFINE a == SubSeq(s, 1, i - 1)
           b == SubSeq(s, i + 1, Len(s))
<1>2. a \in Seq(S) /\ Len(a) = i - 1 /\ \A k \in 1..i-1 : a[k] = s[k]
  BY <1>1
<1>3. b \in Seq(S) /\ Len(b) = Len(s) - i /\ \A k \in 1..Len(s)-i : b[k] = s[i + k]
  BY <1>1
<1>4. RemoveAt(s, i) = a \o b
  BY DEF RemoveAt
<1> HIDE DEF a, b
<1>5. /\ a \o b \in Seq(S) /\ Len(a \o b) = Len(a) + Len(b) /\ DOMAIN (a \o b) = 1..Len(a)+Len(b)
      /\ \A k \in DOMAIN a : (a \o b)[k] = a[k]
      /\ \A k \in 1..Len(b) : (a \o b)[Len(a) + k] = b[k]
      /\ DOMAIN a = 1..Len(a)
  <2>1. a \in Seq(S) /\ b \in Seq(S)
    BY <1>2, <1>3
  <2> QED BY <2>1, Joined
<1>6. /\ a \o b \in Seq(S) /\ Len(a \o b) = Len(s) - 1 /\ DOMAIN (a \o b) = 1..Len(s)-1
  <2>1. Len(a) + Len(b) = Len(s) - 1
    BY <1>1, <1>2, <1>3
  <2> QED BY <1>5, <2>1
<1>7. \A k \in 1..Len(s)-1 : (a \o b)[k] = IF k < i THEN s[k] ELSE s[k + 1]
  <2> TAKE k \in 1..Len(s)-1
  <2>1. CASE k < i
    BY <1>1, <1>2, <1>3, <2>1, <1>5
  <2>2. CASE ~(k < i)
    <3>1. (k - (i - 1)) \in 1..Len(b) /\ k = Len(a) + (k - (i - 1)) /\ i + (k - (i - 1)) = k + 1
      BY <1>1, <1>2, <1>3, <2>2
    <3>2. (a \o b)[Len(a) + (k - (i - 1))] = b[k - (i - 1)]
      BY <1>5, <3>1
    <3>3. b[k - (i - 1)] = s[i + (k - (i - 1))]
      BY <1>1, <1>3, <3>1
    <3> QED BY <2>2, <3>1, <3>2, <3>3
  <2> QED BY <2>1, <2>2
<1> QED BY <1>1, <1>4, <1>6, <1>7
-----------------------------------------------------------------------------
(* What the updates of the handlers do to the types.                         *)
LEMMA TaskUpdates ==
    /\ IsTask(NoTask) /\ NoTask.call = None /\ NoTask.clock = "off" /\ ~NoTask.interruptRequested
    /\ \A r \in Calls : IsTask(Task(r)) /\ Task(r).call = r /\ Task(r) # NoTask
<1>1. NoTask \in TaskRecords /\ NoTask.call = None /\ NoTask.clock = "off" /\ ~NoTask.waitingHuman /\ ~NoTask.interruptRequested
  BY DEF NoTask, TaskRecords
<1>2. IsTask(NoTask)
  BY <1>1 DEF IsTask
<1>3. ASSUME NEW r \in Calls PROVE IsTask(Task(r)) /\ Task(r).call = r /\ Task(r) # NoTask
  <2>1. Task(r) \in TaskRecords /\ Task(r).call = r /\ ~Task(r).waitingHuman /\ Task(r).clock = "running"
    BY DEF Task, TaskRecords
  <2>2. Task(r) # NoTask
    BY <1>1, <2>1
  <2> QED BY <2>1, <2>2, Names DEF IsTask
<1> QED BY <1>1, <1>2, <1>3

(* A task that keeps its run keeps its shape.                                *)
LEMMA TaskKept ==
    ASSUME IsTask(task), task # NoTask,
           NEW t \in TaskRecords, t.call = task.call, t.waitingHuman <=> t.clock = "stopped"
    PROVE  IsTask(t) /\ t # NoTask
BY TaskUpdates DEF IsTask

LEMMA InterruptingTyped ==
    ASSUME IsTask(task)
    PROVE  /\ IsTask(Interrupting) /\ Interrupting.call = task.call /\ Interrupting.clock = task.clock
           /\ (Interrupting = NoTask <=> task = NoTask)
           /\ Interrupting.turnId = task.turnId /\ Interrupting.waitingHuman = task.waitingHuman
<1>1. task \in TaskRecords
  BY DEF IsTask
<1>2. CASE task = NoTask
  BY <1>2 DEF Interrupting
<1>3. CASE task # NoTask
  <2>1. Interrupting = [task EXCEPT !.interruptRequested = TRUE]
    BY <1>3 DEF Interrupting
  <2>2. /\ Interrupting \in TaskRecords /\ Interrupting.call = task.call /\ Interrupting.clock = task.clock
        /\ Interrupting.turnId = task.turnId /\ Interrupting.waitingHuman = task.waitingHuman
    BY <1>1, <2>1 DEF TaskRecords
  <2> QED BY <1>3, <2>2, TaskKept DEF IsTask
<1> QED BY <1>2, <1>3

LEMMA SettleTyped ==
    ASSUME settled \in [Calls -> Results], NEW r \in Calls, NEW o \in Results, Settle(r, o)
    PROVE  settled' \in [Calls -> Results]
BY DEF Settle

LEMMA CallBecomesTyped ==
    ASSUME call \in [Calls -> CallRecords], NEW r \in Calls, NEW p \in CallPhases, CallBecomes(r, p)
    PROVE  /\ call' \in [Calls -> CallRecords] /\ call'[r].phase = p
           /\ \A x \in Calls \ {r} : call'[x] = call[x]
BY DEF CallBecomes, CallRecords

LEMMA StopBecomesTyped ==
    ASSUME stop \in [Stops -> StopRecords], NEW q \in Stops, NEW p \in StopPhases, StopBecomes(q, p)
    PROVE  /\ stop' \in [Stops -> StopRecords] /\ stop'[q].phase = p
           /\ \A x \in Stops \ {q} : stop'[x] = stop[x]
<1>1. stop[q] \in StopRecords
  OBVIOUS
<1> DEFINE v == [stop[q] EXCEPT !.phase = p, !.heard = FALSE]
<1>2. v \in StopRecords /\ v.phase = p
  BY <1>1 DEF StopRecords
<1>3. stop' = [stop EXCEPT ![q] = v]
  BY DEF StopBecomes
<1> HIDE DEF v
<1> QED BY <1>2, <1>3

LEMMA AnswersTyped ==
    /\ NoReply \in Replies /\ NoReply.error = "gone" /\ NoReply.caller = None
    /\ \A c \in Callers : /\ Fault(c, "late") \in Replies /\ Fault(c, "late").error = "late"
                          /\ Fault(c, "late").caller = c /\ Fault(c, "late") # NoReply
BY Names DEF NoReply, Fault, Replies

LEMMA GotTyped ==
    ASSUME got \in [Callers -> Replies], NEW c \in Callers, NEW m \in Replies, got' = [got EXCEPT ![c] = m]
    PROVE  got' \in [Callers -> Replies] /\ got'[c] = m /\ \A d \in Callers \ {c} : got'[d] = got[d]
OBVIOUS

LEMMA SessionsTyped ==
    /\ NoSession \in Sessions
    /\ \A o \in Calls \cup {Resumed}, b \in BOOLEAN : Session(o, b) \in Sessions
BY DEF NoSession, Session, Sessions
-----------------------------------------------------------------------------
(* Requests in flight: what the step of one caller does to them.             *)
LEMMA CorrelatedKept ==
    ASSUME Correlated, pending \in Seq(Callers), NEW c \in Callers,
           \A d \in Callers \ {c} : got'[d] = got[d] /\ (Waiting(d) => Waiting(d)'),
           got[c] # NoReply \/ ~Waiting(c) \/ ~InFlight(c), got'[c] = NoReply,
           pending' = pending \/ (pending' = Append(pending, c) /\ Waiting(c)')
    PROVE  Correlated' /\ ~InFlight(c) /\ pending' \in Seq(Callers)
<1>1. ~InFlight(c)
  BY DEF Correlated
<1>2. CASE pending' = pending
  <2>1. \A d \in Callers : InFlight(d)' => InFlight(d)
    BY <1>2 DEF InFlight
  <2>2. \A d \in Callers : InFlight(d)' => d # c
    BY <1>1, <2>1
  <2> QED BY <1>1, <1>2, <2>1, <2>2 DEF Correlated
<1>3. CASE pending' = Append(pending, c) /\ Waiting(c)'
  <2>1. /\ pending' \in Seq(Callers) /\ DOMAIN pending' = 1..Len(pending) + 1 /\ DOMAIN pending = 1..Len(pending)
        /\ \A i \in DOMAIN pending : pending'[i] = pending[i]
        /\ pending'[Len(pending) + 1] = c /\ Len(pending) \in Nat
    BY <1>3, Appended
  <2>2. \A i \in DOMAIN pending' : i \in DOMAIN pending \/ i = Len(pending) + 1
    BY <2>1
  <2>3. \A d \in Callers : InFlight(d)' => InFlight(d) \/ d = c
    BY <2>1, <2>2 DEF InFlight
  <2>4. \A i \in DOMAIN pending : pending[i] # c
    BY <1>1 DEF InFlight
  <2>5. \A i, j \in DOMAIN pending' : pending'[i] = pending'[j] => i = j
    BY <2>1, <2>2, <2>4 DEF Correlated
  <2>6. \A d \in Callers : (InFlight(d)' => got'[d] = NoReply /\ Waiting(d)') /\ (got'[d] # NoReply => Waiting(d)')
    BY <1>1, <1>3, <2>3 DEF Correlated
  <2> QED BY <1>1, <2>1, <2>5, <2>6 DEF Correlated
<1> QED BY <1>2, <1>3

LEMMA CorrelatedSame ==
    ASSUME Correlated, pending' = pending, \A d \in Callers : got'[d] = got[d] /\ (Waiting(d) => Waiting(d)')
    PROVE  Correlated'
BY DEF Correlated, InFlight
-----------------------------------------------------------------------------
(* The lines of the pipes.                                                   *)
LEMMA LinesTyped ==
    /\ \A m \in Methods, c \in Callers \cup {None}, t \in Calls \cup {None} :
         (m = "turn/start" => c \in Calls) =>
           /\ Request(m, c, t) \in Sent
           /\ Request(m, c, t).method = m /\ Request(m, c, t).caller = c /\ Request(m, c, t).turn = t
    /\ \A m \in {"answer", "decline"}, a \in Asks : Answer(m, a) \in Sent /\ Answer(m, a).method = m
    /\ \A c \in Callers \cup {None}, t \in Calls \cup {None} :
         /\ Reply(c, t) \in Told /\ Reply(c, t).method = "reply" /\ Reply(c, t).caller = c
         /\ Reply(c, t).error = None /\ Reply(c, t).turn = t
    /\ \A c \in Callers \cup {None}, e \in {"gone", "rejected"} :
         /\ Fault(c, e) \in Told /\ Fault(c, e).method = "reply" /\ Fault(c, e).caller = c
         /\ Fault(c, e).error = e
    /\ \A m \in {"turn/started"} \cup Ends, r \in Calls : Note(m, r) \in Told /\ Note(m, r).method = m /\ Note(m, r).turn = r
    /\ \A m \in {"request", "serverRequest/resolved"}, a \in Asks : Prompt(m, a) \in Told /\ Prompt(m, a).method = m /\ Prompt(m, a).ask = a
<1>1. \A m \in Methods, c \in Callers \cup {None}, t \in Calls \cup {None} :
         (m = "turn/start" => c \in Calls) =>
           /\ Request(m, c, t) \in Sent
           /\ Request(m, c, t).method = m /\ Request(m, c, t).caller = c /\ Request(m, c, t).turn = t
  BY DEF Request, Sent
<1>2. \A m \in {"answer", "decline"}, a \in Asks : Answer(m, a) \in Sent /\ Answer(m, a).method = m
  BY DEF Answer, Sent
<1>3. \A c \in Callers \cup {None}, t \in Calls \cup {None} :
         /\ Reply(c, t) \in Told /\ Reply(c, t).method = "reply" /\ Reply(c, t).caller = c
         /\ Reply(c, t).error = None /\ Reply(c, t).turn = t
  BY DEF Reply, Told
<1>4. \A c \in Callers \cup {None}, e \in {"gone", "rejected"} :
         /\ Fault(c, e) \in Told /\ Fault(c, e).method = "reply" /\ Fault(c, e).caller = c
         /\ Fault(c, e).error = e
  BY DEF Fault, Told
<1>5. \A m \in {"turn/started"} \cup Ends, r \in Calls : Note(m, r) \in Told /\ Note(m, r).method = m /\ Note(m, r).turn = r
  BY DEF Note, Told
<1>6. \A m \in {"request", "serverRequest/resolved"}, a \in Asks : Prompt(m, a) \in Told /\ Prompt(m, a).method = m /\ Prompt(m, a).ask = a
  BY DEF Prompt, Told
<1> QED BY <1>1, <1>2, <1>3, <1>4, <1>5, <1>6

LEMMA SendsTyped ==
    ASSUME Pipes, NEW m \in Methods, NEW c \in Callers, NEW t \in Calls \cup {None},
           m = "turn/start" => c \in Calls, Sends(m, c, t)
    PROVE  /\ Pipes' /\ toServer' = Append(toServer, Request(m, c, t)) /\ toClient' = toClient
           /\ pending' = Append(pending, c)
<1>1. Request(m, c, t) \in Sent
  BY LinesTyped
<1> QED BY <1>1 DEF Sends, Pipes

LEMMA PostsTyped ==
    ASSUME Pipes, NEW m \in Sent, Posts(m)
    PROVE  Pipes' /\ toServer' = Append(toServer, m) /\ toClient' = toClient /\ pending' = pending
BY DEF Posts, Pipes

(* A line no run waits for.                                                  *)
From(m, r) == m.method \notin {"answer", "decline"} /\ m.caller = r
Foreign(m) == m \in Sent /\ \A r \in Calls : ~From(m, r)
Silent == /\ toServer' = toServer \/ \E m \in Sent : Foreign(m) /\ toServer' = Append(toServer, m)
          /\ toClient' = toClient

LEMMA ForeignLines ==
    /\ \A m \in Methods \ {"turn/start"}, c \in Stops \cup {Resumed, None}, t \in Calls \cup {None} : Foreign(Request(m, c, t))
    /\ \A m \in {"answer", "decline"}, a \in Asks : Foreign(Answer(m, a))
<1>1. ASSUME NEW m \in Methods \ {"turn/start"}, NEW c \in Stops \cup {Resumed, None}, NEW t \in Calls \cup {None}
      PROVE Foreign(Request(m, c, t))
  <2>1. c \in Callers \cup {None} /\ c \notin Calls
    BY Names
  <2> QED BY <2>1, LinesTyped DEF Foreign, From
<1>2. ASSUME NEW m \in {"answer", "decline"}, NEW a \in Asks PROVE Foreign(Answer(m, a))
  BY LinesTyped DEF Foreign, From
<1> QED BY <1>1, <1>2

(* A step of run r, which has heard what it waited for.                      *)
Stays(r) ==
    /\ UNCHANGED <<server, ended, prompting, stop, asked, toClient>>
    /\ call' \in [Calls -> CallRecords] /\ got' \in [Callers -> Replies]
    /\ \A x \in Calls \ {r} : call'[x] = call[x]
    /\ \A d \in Callers \ {r} : got'[d] = got[d]
    /\ got'[r] = NoReply
    /\ got[r] # NoReply \/ ~Waiting(r)
    /\ pending' = pending \/ (pending' = Append(pending, r) /\ call'[r].phase \in {"reading", "starting", "cutting"})
Says1(r, m, t) == toServer' = Append(toServer, Request(m, r, t)) /\ pending' = Append(pending, r)
Mute == /\ Silent /\ pending' = pending
        /\ toServer' = toServer \/ toServer' = Append(toServer, Request("thread/unsubscribe", None, None))
HoldsOn == task' = task /\ UNCHANGED <<settled, dropped>>
Heard(r) == got[r] # NoReply /\ got[r].error # "late"
RunReads(r) ==
    /\ call[r].phase = "idle" /\ call'[r].phase = "reading"
    /\ Says1(r, "thread/read", None) /\ HoldsOn
RunOpens(r) ==
    /\ call[r].phase = "reading" /\ call'[r].phase = "opening"
    /\ got[r] # NoReply /\ Ok(r) /\ got[r].turn = None
    /\ task = NoTask /\ task' = Task(r) /\ UNCHANGED <<settled, dropped>>
    /\ Mute
RunStarts(r) ==
    /\ call[r].phase = "opening" /\ call'[r].phase = "starting"
    /\ Says1(r, "turn/start", None) /\ HoldsOn
RunCuts(r) ==
    /\ call[r].phase = "starting" /\ call'[r].phase = "cutting"
    /\ got[r] # NoReply /\ Ok(r)
    /\ task # NoTask /\ task' = [task EXCEPT !.turnId = r] /\ UNCHANGED <<settled, dropped>>
    /\ Says1(r, "turn/interrupt", r)
RunRests(r) ==
    /\ \/ call[r].phase = "idle" /\ call'[r].phase \in {"fresh", "refused"} /\ task' = task
       \/ call[r].phase = "reading" /\ Heard(r) /\ call'[r].phase \in {"fresh", "refused"} /\ task' = task
       \/ call[r].phase = "reading" /\ got[r].error = "late" /\ call'[r].phase = "failed" /\ task' = task
       \/ /\ call[r].phase = "starting" /\ Heard(r) /\ Ok(r) /\ call'[r].phase = "awaiting"
          /\ task' = task \/ (task # NoTask /\ task' = [task EXCEPT !.turnId = r])
       \/ call[r].phase = "cutting" /\ Heard(r) /\ Ok(r) /\ call'[r].phase = "awaiting" /\ task' = task
    /\ Mute /\ UNCHANGED <<settled, dropped>>
RunAbandons(r) ==
    /\ call[r].phase \in {"opening", "starting", "cutting"}
    /\ call[r].phase # "opening" => got[r] # NoReply /\ ~Ok(r)
    /\ call'[r].phase \in {"failed", "fresh"}
    /\ call'[r].phase = "fresh" => call[r].phase \in {"starting", "cutting"} /\ Heard(r)
    /\ Mute /\ task' = NoTask
    /\ dropped' = (dropped \/ (task # NoTask /\ task.call # r))
    /\ \A x \in Calls : settled'[x] = settled[x] \/ settled'[x] = "failed"
RunMoves(r) ==
    /\ Stays(r)
    /\ RunReads(r) \/ RunOpens(r) \/ RunStarts(r) \/ RunCuts(r) \/ RunRests(r) \/ RunAbandons(r)

(* What such a step leaves of the types and of the requests in flight.       *)
LEMMA StaysTyped ==
    ASSUME Typed, Correlated, NEW r \in Calls, Stays(r), Pipes', IsTask(task'), session' \in Sessions,
           settled' \in [Calls -> Results], Bounds'
    PROVE  Typed' /\ Correlated'
<1>1. Thread' /\ Runs' /\ Prompts' /\ Rest'
  BY DEF Typed, Stays, Thread, Runs, Prompts, Rest, prompting
<1>2. Correlated'
  <2>1. \A d \in Callers \ {r} : got'[d] = got[d] /\ (Waiting(d) => Waiting(d)')
    BY Names DEF Stays, Waiting
  <2>2. r \in Callers /\ pending \in Seq(Callers) /\ got'[r] = NoReply /\ (got[r] # NoReply \/ ~Waiting(r))
    BY Names DEF Stays, Typed, Pipes
  <2>3. pending' = pending \/ (pending' = Append(pending, r) /\ Waiting(r)')
    BY Names DEF Stays, Waiting
  <2> HIDE DEF Correlated, Waiting
  <2> QED BY <2>1, <2>2, <2>3, CorrelatedKept
<1> QED BY <1>1, <1>2 DEF Typed

(* The steps of a run are such steps.                                        *)
LEMMA StaysIntro ==
    ASSUME Typed, Correlated, NEW r \in Calls, NEW p \in CallPhases, CallBecomes(r, p),
           UNCHANGED <<server, ended, prompting, stop, asked, toClient>>,
           \/ got' = [got EXCEPT ![r] = NoReply] /\ got[r] # NoReply
           \/ got' = got /\ ~Waiting(r),
           pending' = pending \/ (pending' = Append(pending, r) /\ p \in {"reading", "starting", "cutting"})
    PROVE  Stays(r) /\ call'[r].phase = p
<1>1. r \in Callers /\ NoReply \in Replies /\ got \in [Callers -> Replies] /\ call \in [Calls -> CallRecords]
  BY Names, AnswersTyped DEF Typed, Rest, Runs
<1>2. /\ got' \in [Callers -> Replies] /\ got'[r] = NoReply /\ \A d \in Callers \ {r} : got'[d] = got[d]
      /\ got[r] # NoReply \/ ~Waiting(r)
  BY <1>1 DEF Correlated
<1>3. call' \in [Calls -> CallRecords] /\ call'[r].phase = p /\ \A x \in Calls \ {r} : call'[x] = call[x]
  BY <1>1, CallBecomesTyped
<1> QED BY <1>2, <1>3 DEF Stays

LEMMA RetireOrMute ==
    ASSUME Typed, NEW r \in Calls, NEW p \in CallPhases, RetireOr(r, p)
    PROVE  /\ Mute /\ Pipes' /\ session' \in Sessions
           /\ CallBecomes(r, "fresh") \/ CallBecomes(r, p)
<1>1. CASE Retirable
  <2>1. Foreign(Request("thread/unsubscribe", None, None))
    BY ForeignLines DEF Methods
  <2>2. Posts(Request("thread/unsubscribe", None, None)) /\ session' = NoSession /\ CallBecomes(r, "fresh")
    BY <1>1 DEF RetireOr
  <2>3. Request("thread/unsubscribe", None, None) \in Sent /\ Pipes
    BY <2>1 DEF Foreign, Typed
  <2>4. Pipes' /\ toServer' = Append(toServer, Request("thread/unsubscribe", None, None)) /\ toClient' = toClient /\ pending' = pending
    BY <2>2, <2>3, PostsTyped
  <2> QED BY <2>1, <2>2, <2>3, <2>4, SessionsTyped DEF Mute, Silent
<1>2. CASE ~Retirable
  BY <1>2 DEF RetireOr, pipes, Mute, Silent, Pipes, Typed, Rest
<1> QED BY <1>1, <1>2

LEMMA RunTyped ==
    ASSUME Typed, Correlated, NEW r \in Calls, Run(r)
    PROVE  RunMoves(r) /\ Typed' /\ Correlated'
<1>1. /\ call[r].phase = "idle" /\ ~Waiting(r) /\ r \in Callers
      /\ UNCHANGED <<server, ended, prompting, stop, asked, got, task, settled, dropped>>
  BY Names DEF Run, Waiting
<1>2. Bounds' /\ settled' \in [Calls -> Results] /\ IsTask(task')
  BY DEF Run, Typed, Bounds, Runs, Rest
<1>3. CASE /\ session # NoSession /\ session.stopped
           /\ Sends("thread/read", r, None)
           /\ call' = [call EXCEPT ![r] = [phase |-> "reading", previous |-> session.owner]]
           /\ UNCHANGED session
  <2>1. Pipes' /\ toServer' = Append(toServer, Request("thread/read", r, None)) /\ toClient' = toClient /\ pending' = Append(pending, r)
    BY <1>1, <1>3, SendsTyped DEF Typed, Methods
  <2>2. session \in Sessions /\ call \in [Calls -> CallRecords] /\ got \in [Callers -> Replies]
    BY DEF Typed, Rest, Runs
  <2>3. [phase |-> "reading", previous |-> session.owner] \in CallRecords
    BY <2>2 DEF CallRecords, Sessions, CallPhases
  <2>4. call' \in [Calls -> CallRecords] /\ call'[r].phase = "reading" /\ \A x \in Calls \ {r} : call'[x] = call[x]
    BY <2>2, <2>3, <1>3
  <2>5. got[r] = NoReply
    BY <1>1 DEF Correlated
  <2>6. Stays(r)
    BY <1>1, <2>1, <2>2, <2>4, <2>5 DEF Stays
  <2>7. RunReads(r)
    BY <1>1, <2>1, <2>4 DEF RunReads, Says1, HoldsOn
  <2>8. session' \in Sessions
    BY <1>3, <2>2
  <2> QED BY <1>2, <2>1, <2>6, <2>7, <2>8, StaysTyped DEF RunMoves
<1>4. CASE RetireOr(r, "refused")
  <2>1. /\ Mute /\ Pipes' /\ session' \in Sessions
        /\ CallBecomes(r, "fresh") \/ CallBecomes(r, "refused")
    BY <1>4, RetireOrMute DEF CallPhases
  <2>2. Stays(r) /\ call'[r].phase \in {"fresh", "refused"}
    <3>1. toClient' = toClient /\ pending' = pending
      BY <2>1 DEF Mute, Silent
    <3> QED BY <1>1, <2>1, <3>1, StaysIntro DEF CallPhases
  <2>3. RunRests(r)
    BY <1>1, <2>1, <2>2 DEF RunRests
  <2> QED BY <1>2, <2>1, <2>2, <2>3, StaysTyped DEF RunMoves
<1> QED BY <1>3, <1>4 DEF Run

LEMMA ReadTyped ==
    ASSUME Typed, Correlated, NEW r \in Calls, RunRead(r), draining' \in BOOLEAN
    PROVE  RunMoves(r) /\ Typed' /\ Correlated'
<1>1. /\ call[r].phase = "reading" /\ got[r] # NoReply /\ r \in Callers
      /\ got' = [got EXCEPT ![r] = NoReply]
      /\ UNCHANGED <<server, ended, prompting, stop, asked, settled, dropped>>
  BY Names DEF RunRead, bounds, counters
<1>2. Bounds' /\ settled' \in [Calls -> Results]
  BY DEF RunRead, Typed, Bounds, Runs, bounds, counters
<1>3. session \in Sessions /\ IsTask(task) /\ Pipes /\ got[r] \in Replies
  BY <1>1 DEF Typed, Rest
<1>4. ASSUME NEW p \in CallPhases, CallBecomes(r, p), UNCHANGED toClient, UNCHANGED pending
      PROVE  Stays(r) /\ call'[r].phase = p
  BY <1>1, <1>4, StaysIntro
<1>5. CASE Ok(r) /\ got[r].turn = None /\ Reuses(r)
  <2>1. /\ task = NoTask /\ task' = Task(r) /\ session' = Session(r, FALSE) /\ CallBecomes(r, "opening") /\ UNCHANGED pipes
    BY <1>5 DEF Reuses
  <2>2. Mute /\ Pipes' /\ session' \in Sessions /\ IsTask(task')
    BY <1>3, <2>1, SessionsTyped, TaskUpdates DEF Mute, Silent, pipes, Pipes
  <2>3. Stays(r) /\ call'[r].phase = "opening"
    BY <1>4, <2>1 DEF pipes, CallPhases
  <2>4. RunOpens(r)
    BY <1>1, <1>5, <2>1, <2>2, <2>3 DEF RunOpens
  <2> QED BY <1>2, <2>2, <2>3, <2>4, StaysTyped DEF RunMoves
<1>6. CASE \/ Ok(r) /\ got[r].turn = None /\ task # NoTask /\ CallBecomes(r, "refused") /\ UNCHANGED <<task, session, pipes>>
           \/ Ok(r) /\ got[r].turn # None /\ Unstops(r)
           \/ got[r].error = "gone" /\ RetireOr(r, "refused") /\ UNCHANGED task
  <2>1. Heard(r) /\ UNCHANGED task
    BY <1>1, <1>6 DEF Heard, Ok, None, Unstops
  <2>2. /\ Mute /\ Pipes' /\ session' \in Sessions
        /\ CallBecomes(r, "fresh") \/ CallBecomes(r, "refused")
    <3>1. CASE Ok(r) /\ got[r].turn = None /\ task # NoTask /\ CallBecomes(r, "refused") /\ UNCHANGED <<task, session, pipes>>
      BY <1>3, <3>1 DEF Mute, Silent, pipes, Pipes
    <3>2. CASE Ok(r) /\ got[r].turn # None /\ Unstops(r)
      <4>1. session' = [session EXCEPT !.stopped = @ /\ session.owner # call[r].previous]
        BY <3>2 DEF Unstops
      <4>2. session' \in Sessions
        BY <1>3, <4>1 DEF Sessions
      <4> QED BY <1>3, <3>2, <4>2 DEF Unstops, Mute, Silent, pipes, Pipes
    <3>3. CASE got[r].error = "gone" /\ RetireOr(r, "refused") /\ UNCHANGED task
      BY <3>3, RetireOrMute DEF CallPhases
    <3> QED BY <1>6, <3>1, <3>2, <3>3
  <2>3. Stays(r) /\ call'[r].phase \in {"fresh", "refused"}
    BY <1>4, <2>2 DEF Mute, Silent, CallPhases
  <2>4. RunRests(r)
    BY <1>1, <2>1, <2>2, <2>3 DEF RunRests
  <2>5. IsTask(task')
    BY <1>3, <2>1
  <2> QED BY <1>2, <2>2, <2>3, <2>4, <2>5, StaysTyped DEF RunMoves
<1>7. CASE got[r].error = "late" /\ CallBecomes(r, "failed") /\ UNCHANGED <<task, session, pipes>>
  <2>1. Mute /\ Pipes' /\ session' \in Sessions /\ IsTask(task')
    BY <1>3, <1>7 DEF Mute, Silent, pipes, Pipes
  <2>2. Stays(r) /\ call'[r].phase = "failed"
    BY <1>4, <1>7 DEF pipes, CallPhases
  <2>3. RunRests(r)
    BY <1>1, <1>7, <2>1, <2>2 DEF RunRests
  <2> QED BY <1>2, <2>1, <2>2, <2>3, StaysTyped DEF RunMoves
<1> QED BY <1>5, <1>6, <1>7 DEF RunRead

LEMMA AbandonsTyped ==
    ASSUME Typed, Correlated, NEW r \in Calls, NEW gone \in BOOLEAN, Abandons(r, gone),
           call[r].phase \in {"opening", "starting", "cutting"},
           call[r].phase # "opening" => got[r] # NoReply /\ ~Ok(r),
           gone => got[r].error = "gone" /\ call[r].phase \in {"starting", "cutting"},
           UNCHANGED <<server, ended, prompting, stop, up, counters>>,
           got' = [got EXCEPT ![r] = NoReply] \/ (got' = got /\ call[r].phase = "opening"),
           got[r] # NoReply \/ call[r].phase = "opening",
           draining' \in BOOLEAN
    PROVE  RunMoves(r) /\ Typed' /\ Correlated'
<1>1. IsTask(task) /\ settled \in [Calls -> Results] /\ Pipes /\ session \in Sessions /\ r \in Callers /\ got \in [Callers -> Replies]
  BY Names DEF Typed, Rest, Runs
<1>2. /\ settled' \in [Calls -> Results]
      /\ \A x \in Calls : settled'[x] = settled[x] \/ settled'[x] = "failed"
  <2>1. CASE task # NoTask
    <3>1. task.call \in Calls
      BY <1>1, <2>1 DEF IsTask, TaskRecords
    <3>2. Settle(task.call, "failed")
      BY <2>1 DEF Abandons
    <3> QED BY <1>1, <3>1, <3>2 DEF Settle, Results
  <2>2. CASE task = NoTask
    BY <1>1, <2>2 DEF Abandons
  <2> QED BY <2>1, <2>2
<1>3. /\ dropped' = (dropped \/ (task # NoTask /\ task.call # r)) /\ task' = NoTask /\ IsTask(task')
  BY TaskUpdates DEF Abandons
<1>4. /\ Mute /\ Pipes' /\ session' \in Sessions
      /\ (CallBecomes(r, "fresh") /\ gone) \/ CallBecomes(r, "failed")
  <2>1. CASE gone /\ task.turnId = None
    <3>1. CallBecomes(r, "fresh") /\ session' = NoSession
      BY <2>1 DEF Abandons
    <3>2. CASE session # NoSession
      <4>1. Posts(Request("thread/unsubscribe", None, None)) /\ Foreign(Request("thread/unsubscribe", None, None))
        BY <2>1, <3>2, ForeignLines DEF Abandons, Methods
      <4>2. Request("thread/unsubscribe", None, None) \in Sent
        BY <4>1 DEF Foreign
      <4>3. Pipes' /\ toServer' = Append(toServer, Request("thread/unsubscribe", None, None)) /\ toClient' = toClient /\ pending' = pending
        BY <1>1, <4>1, <4>2, PostsTyped
      <4> QED BY <2>1, <3>1, <4>1, <4>2, <4>3, SessionsTyped DEF Mute, Silent
    <3>3. CASE session = NoSession
      BY <1>1, <2>1, <3>1, <3>3, SessionsTyped DEF Abandons, pipes, Pipes, Mute, Silent
    <3> QED BY <3>2, <3>3
  <2>2. CASE ~(gone /\ task.turnId = None)
    <3>1. CallBecomes(r, "failed") /\ UNCHANGED <<session, pipes>>
      BY <2>2 DEF Abandons
    <3> QED BY <1>1, <3>1 DEF pipes, Pipes, Mute, Silent
  <2> QED BY <2>1, <2>2
<1>5. Stays(r) /\ call'[r].phase \in {"failed", "fresh"} /\ (call'[r].phase = "fresh" => gone)
  <2>1. UNCHANGED <<server, ended, prompting, stop, asked, toClient>> /\ pending' = pending
    BY <1>4 DEF counters, Mute, Silent
  <2>2. \/ got' = [got EXCEPT ![r] = NoReply] /\ got[r] # NoReply
        \/ got' = got /\ ~Waiting(r)
    <3>1. CASE call[r].phase = "opening"
      <4>1. ~Waiting(r)
        BY <3>1 DEF Waiting
      <4>2. got[r] = NoReply
        BY <1>1, <4>1 DEF Correlated
      <4>3. [got EXCEPT ![r] = NoReply] = got
        BY <1>1, <4>2
      <4> QED BY <4>1, <4>3
    <3>2. CASE call[r].phase # "opening"
      BY <3>2
    <3> QED BY <3>1, <3>2
  <2>3. CASE CallBecomes(r, "fresh") /\ gone
    BY <2>1, <2>2, <2>3, StaysIntro DEF CallPhases
  <2>4. CASE CallBecomes(r, "failed")
    BY <2>1, <2>2, <2>4, StaysIntro DEF CallPhases
  <2> QED BY <1>4, <2>3, <2>4
<1>6. RunAbandons(r)
  <2>1. call'[r].phase = "fresh" => call[r].phase \in {"starting", "cutting"} /\ Heard(r)
    BY <1>5 DEF Heard
  <2> QED BY <1>2, <1>3, <1>4, <1>5, <2>1 DEF RunAbandons
<1>7. Bounds'
  BY <1>3 DEF Typed, Bounds, counters
<1> QED BY <1>2, <1>3, <1>4, <1>5, <1>6, <1>7, StaysTyped DEF RunMoves

LEMMA OpenedTyped ==
    ASSUME Typed, Correlated, NEW r \in Calls, Opened(r), draining' \in BOOLEAN
    PROVE  RunMoves(r) /\ Typed' /\ Correlated'
<1>1. /\ call[r].phase = "opening" /\ ~Waiting(r) /\ r \in Callers
      /\ UNCHANGED <<server, ended, prompting, stop, got, up, counters>>
  BY Names DEF Opened, Waiting
<1>2. CASE Sends("turn/start", r, None) /\ CallBecomes(r, "starting") /\ UNCHANGED <<task, session, settled, dropped>>
  <2>1. Pipes' /\ toServer' = Append(toServer, Request("turn/start", r, None)) /\ toClient' = toClient /\ pending' = Append(pending, r)
    BY <1>1, <1>2, SendsTyped DEF Typed, Methods
  <2>2. Stays(r) /\ call'[r].phase = "starting"
    BY <1>1, <1>2, <2>1, StaysIntro DEF CallPhases, counters
  <2>3. RunStarts(r)
    BY <1>1, <1>2, <2>1, <2>2 DEF RunStarts, Says1, HoldsOn
  <2>4. IsTask(task') /\ session' \in Sessions /\ settled' \in [Calls -> Results] /\ Bounds'
    BY <1>1, <1>2 DEF Typed, Rest, Runs, Bounds, counters
  <2> QED BY <2>1, <2>2, <2>3, <2>4, StaysTyped DEF RunMoves
<1>3. CASE Abandons(r, FALSE)
  BY <1>1, <1>3, AbandonsTyped
<1> QED BY <1>2, <1>3 DEF Opened

LEMMA StartedTyped ==
    ASSUME Typed, Correlated, NEW r \in Calls, RunStarted(r), draining' \in BOOLEAN
    PROVE  RunMoves(r) /\ Typed' /\ Correlated'
<1>1. /\ call[r].phase = "starting" /\ got[r] # NoReply /\ r \in Callers
      /\ got' = [got EXCEPT ![r] = NoReply]
      /\ UNCHANGED <<server, ended, prompting, stop, up, counters>>
  BY Names DEF RunStarted
<1>2. IsTask(task) /\ session \in Sessions /\ settled \in [Calls -> Results] /\ Pipes
  BY DEF Typed, Rest, Runs
<1>3. ASSUME UNCHANGED <<session, settled, dropped>> PROVE session' \in Sessions /\ settled' \in [Calls -> Results] /\ Bounds'
  BY <1>1, <1>2, <1>3 DEF Typed, Bounds, counters
<1>4. CASE Ok(r) /\ task # NoTask /\ task' = [task EXCEPT !.turnId = r] /\ UNCHANGED <<session, settled, dropped>>
  <2>1. IsTask(task')
    <3>1. [task EXCEPT !.turnId = r] \in TaskRecords /\ [task EXCEPT !.turnId = r].call = task.call
          /\ [task EXCEPT !.turnId = r].waitingHuman = task.waitingHuman /\ [task EXCEPT !.turnId = r].clock = task.clock
      BY <1>2 DEF IsTask, TaskRecords
    <3> QED BY <1>2, <1>4, <3>1, TaskKept DEF IsTask
  <2>2. CASE Sends("turn/interrupt", r, r) /\ CallBecomes(r, "cutting")
    <3>1. Pipes' /\ toServer' = Append(toServer, Request("turn/interrupt", r, r)) /\ toClient' = toClient /\ pending' = Append(pending, r)
      BY <1>1, <1>2, <2>2, SendsTyped DEF Methods
    <3>2. Stays(r) /\ call'[r].phase = "cutting"
      BY <1>1, <2>2, <3>1, StaysIntro DEF CallPhases, counters
    <3>3. RunCuts(r)
      BY <1>1, <1>4, <3>1, <3>2 DEF RunCuts, Says1
    <3> QED BY <1>3, <1>4, <2>1, <3>1, <3>2, <3>3, StaysTyped DEF RunMoves
  <2>3. CASE CallBecomes(r, "awaiting") /\ UNCHANGED pipes
    <3>1. Mute /\ Pipes'
      BY <1>2, <2>3 DEF Mute, Silent, pipes, Pipes
    <3>2. Stays(r) /\ call'[r].phase = "awaiting"
      BY <1>1, <2>3, StaysIntro DEF CallPhases, counters, pipes
    <3>3. RunRests(r)
      BY <1>1, <1>4, <3>1, <3>2 DEF RunRests, Heard, Ok, None
    <3> QED BY <1>3, <1>4, <2>1, <3>1, <3>2, <3>3, StaysTyped DEF RunMoves
  <2>4. \/ Sends("turn/interrupt", r, r) /\ CallBecomes(r, "cutting")
        \/ CallBecomes(r, "awaiting") /\ UNCHANGED pipes
    BY <1>4 DEF RunStarted
  <2> QED BY <2>2, <2>3, <2>4
<1>5. CASE Ok(r) /\ task = NoTask /\ CallBecomes(r, "awaiting") /\ UNCHANGED <<pipes, task, session, settled, dropped>>
  <2>1. Mute /\ Pipes' /\ IsTask(task')
    BY <1>2, <1>5 DEF Mute, Silent, pipes, Pipes
  <2>2. Stays(r) /\ call'[r].phase = "awaiting"
    BY <1>1, <1>5, StaysIntro DEF CallPhases, counters, pipes
  <2>3. RunRests(r)
    BY <1>1, <1>5, <2>1, <2>2 DEF RunRests, Heard, Ok, None
  <2> QED BY <1>3, <1>5, <2>1, <2>2, <2>3, StaysTyped DEF RunMoves
<1>6. CASE ~Ok(r) /\ Abandons(r, got[r].error = "gone")
  BY <1>1, <1>6, AbandonsTyped
<1> QED BY <1>4, <1>5, <1>6 DEF RunStarted

LEMMA CutTyped ==
    ASSUME Typed, Correlated, NEW r \in Calls, RunCut(r), draining' \in BOOLEAN
    PROVE  RunMoves(r) /\ Typed' /\ Correlated'
<1>1. /\ call[r].phase = "cutting" /\ got[r] # NoReply /\ r \in Callers
      /\ got' = [got EXCEPT ![r] = NoReply]
      /\ UNCHANGED <<server, ended, prompting, stop, up, counters>>
  BY Names DEF RunCut
<1>2. CASE Ok(r) /\ CallBecomes(r, "awaiting") /\ UNCHANGED <<pipes, task, session, settled, dropped>>
  <2>1. Mute /\ Pipes' /\ IsTask(task')
    BY <1>2 DEF Mute, Silent, pipes, Pipes, Typed, Rest
  <2>2. Stays(r) /\ call'[r].phase = "awaiting"
    BY <1>1, <1>2, StaysIntro DEF CallPhases, counters, pipes
  <2>3. RunRests(r)
    BY <1>1, <1>2, <2>1, <2>2 DEF RunRests, Heard, Ok, None
  <2>4. session' \in Sessions /\ settled' \in [Calls -> Results] /\ Bounds'
    BY <1>1, <1>2 DEF Typed, Rest, Runs, Bounds, counters
  <2> QED BY <2>1, <2>2, <2>3, <2>4, StaysTyped DEF RunMoves
<1>3. CASE ~Ok(r) /\ Abandons(r, got[r].error = "gone")
  BY <1>1, <1>3, AbandonsTyped
<1> QED BY <1>2, <1>3 DEF RunCut
-----------------------------------------------------------------------------
(* A step that no run takes part in: of the application, of quiesce() or of  *)
(* a timer.                                                                  *)
Aside ==
    /\ UNCHANGED <<server, ended, asked, call, dropped>> /\ Silent
    /\ pending' = pending \/ \E c \in Callers \ Calls : pending' = Append(pending, c)
    /\ \A x \in Calls : got'[x] = got[x]
    /\ task'.call = task.call /\ (task' = NoTask <=> task = NoTask)
    /\ \A x \in Calls : settled'[x] = settled[x] \/ settled'[x] = "timeout"
    /\ prompts' \subseteq prompts
    /\ prompts' # {} => (task'.waitingHuman <=> task.waitingHuman)

(* Steps of quiesce().                                                       *)
StopStays(q) ==
    /\ UNCHANGED <<server, ended, prompting, call, settled, bounds>>
    /\ stop' \in [Stops -> StopRecords] /\ got' \in [Callers -> Replies] /\ session' \in Sessions
    /\ \A x \in Stops \ {q} : stop'[x] = stop[x]
    /\ \A d \in Callers \ {q} : got'[d] = got[d]
    /\ got'[q] = NoReply
    /\ got[q] # NoReply \/ ~Waiting(q)
    /\ draining' \in BOOLEAN

LEMMA StopStaysTyped ==
    ASSUME Typed, Correlated, NEW q \in Stops, StopStays(q), IsTask(task'),
           task'.call = task.call, task' = NoTask <=> task = NoTask, task'.waitingHuman <=> task.waitingHuman,
           \/ UNCHANGED pipes
           \/ \E m \in Methods \ {"turn/start"}, t \in Calls \cup {None} : Sends(m, q, t) /\ Waiting(q)'
    PROVE  Aside /\ Typed' /\ Correlated'
<1>1. q \in Callers \ Calls
  BY Names
<1>2. Thread' /\ Runs' /\ Prompts' /\ Rest' /\ Bounds'
  BY DEF Typed, StopStays, Thread, Runs, Prompts, Rest, Bounds, prompting, bounds, counters
<1>3. Pipes' /\ Silent /\ (pending' = pending \/ (pending' = Append(pending, q) /\ Waiting(q)'))
  <2>1. CASE UNCHANGED pipes
    BY <2>1 DEF pipes, Typed, Pipes, Silent
  <2>2. ASSUME NEW m \in Methods \ {"turn/start"}, NEW t \in Calls \cup {None}, Sends(m, q, t), Waiting(q)'
        PROVE  Pipes' /\ Silent /\ pending' = Append(pending, q) /\ Waiting(q)'
    <3>1. /\ Pipes' /\ toServer' = Append(toServer, Request(m, q, t)) /\ toClient' = toClient
          /\ pending' = Append(pending, q)
      BY <1>1, <2>2, SendsTyped DEF Typed
    <3>2. Foreign(Request(m, q, t))
      BY <2>2, ForeignLines
    <3> QED BY <2>2, <3>1, <3>2 DEF Silent, Foreign
  <2> QED BY <2>1, <2>2
<1>4. Correlated'
  <2>1. \A d \in Callers \ {q} : got'[d] = got[d] /\ (Waiting(d) => Waiting(d)')
    BY Names DEF StopStays, Waiting
  <2>2. q \in Callers /\ pending \in Seq(Callers) /\ got'[q] = NoReply /\ (got[q] # NoReply \/ ~Waiting(q))
    BY <1>1 DEF StopStays, Typed, Pipes
  <2> HIDE DEF Correlated, Waiting
  <2> QED BY <1>3, <2>1, <2>2, CorrelatedKept
<1>5. Aside
  <2>1. \A x \in Calls : got'[x] = got[x]
    BY <1>1, Names DEF StopStays
  <2> QED BY <1>1, <1>3, <2>1 DEF Aside, StopStays, prompting, bounds, counters
<1> QED BY <1>2, <1>3, <1>4, <1>5 DEF Typed

LEMMA QuiesceTyped ==
    ASSUME Typed, Correlated, NEW q \in Stops, Quiesce(q)
    PROVE  Aside /\ Typed' /\ Correlated'
<1>1. /\ IsTask(task) /\ stop \in [Stops -> StopRecords] /\ session \in Sessions /\ got \in [Callers -> Replies]
      /\ stop[q].phase = "idle"
  BY DEF Typed, Rest, Quiesce
<1>2. /\ IsTask(task') /\ task'.call = task.call /\ (task' = NoTask <=> task = NoTask)
      /\ task'.waitingHuman <=> task.waitingHuman
  BY <1>1, InterruptingTyped DEF Quiesce
<1>3. PICK p \in StopPhases :
        /\ p = IF ~up THEN "failed" ELSE IF Cuts THEN "interrupting" ELSE IF task # NoTask THEN "settling" ELSE "reading"
        /\ stop' = [stop EXCEPT ![q] = [phase |-> p, awaits |-> task.call, heard |-> FALSE, before |-> StartedCalls]]
  BY DEF Quiesce, StopPhases
<1>4. [phase |-> p, awaits |-> task.call, heard |-> FALSE, before |-> StartedCalls] \in StopRecords
  BY <1>1 DEF StopRecords, IsTask, TaskRecords, StartedCalls
<1>5. stop' \in [Stops -> StopRecords] /\ stop'[q].phase = p /\ \A x \in Stops \ {q} : stop'[x] = stop[x]
  BY <1>1, <1>3, <1>4
<1>6. StopStays(q)
  <2>1. ~Waiting(q) /\ q \in Callers
    BY <1>1, Names DEF Waiting
  <2>2. got[q] = NoReply
    BY <2>1 DEF Correlated
  <2>3. draining' \in BOOLEAN
    BY DEF Quiesce, Drains
  <2> QED BY <1>1, <1>5, <2>1, <2>2, <2>3 DEF StopStays, Quiesce
<1>7. \/ UNCHANGED pipes
      \/ \E m \in Methods \ {"turn/start"}, t \in Calls \cup {None} : Sends(m, q, t) /\ Waiting(q)'
  <2>1. CASE ~up \/ (task # NoTask /\ ~Cuts)
    BY <2>1 DEF Quiesce
  <2>2. CASE ~(~up \/ (task # NoTask /\ ~Cuts)) /\ Cuts
    <3>1. Sends("turn/interrupt", q, task.turnId) /\ task.turnId \in Calls \cup {None}
      BY <1>1, <2>2 DEF Quiesce, IsTask, TaskRecords
    <3>2. Waiting(q)'
      BY <1>3, <1>5, <2>2, Names DEF Waiting
    <3> QED BY <3>1, <3>2 DEF Methods
  <2>3. CASE ~(~up \/ (task # NoTask /\ ~Cuts)) /\ ~Cuts
    <3>1. Sends("thread/read", q, None)
      BY <2>3 DEF Quiesce
    <3>2. Waiting(q)'
      BY <1>3, <1>5, <2>3, Names DEF Waiting
    <3> QED BY <3>1, <3>2 DEF Methods
  <2> QED BY <2>1, <2>2, <2>3
<1> QED BY <1>2, <1>6, <1>7, StopStaysTyped

LEMMA StopStepTyped ==
    ASSUME Typed, Correlated, NEW q \in Stops, StopStep(q), draining' \in BOOLEAN
    PROVE  Aside /\ Typed' /\ Correlated'
<1>1. /\ IsTask(task) /\ stop \in [Stops -> StopRecords] /\ session \in Sessions /\ got \in [Callers -> Replies]
      /\ q \in Callers
  BY Names DEF Typed, Rest
<1>2. UNCHANGED <<server, ended, task, prompting, call, settled, bounds>>
  BY DEF StopStep
<1>3. ASSUME NEW p \in StopPhases, StopBecomes(q, p), session' \in Sessions,
             \/ got' = [got EXCEPT ![q] = NoReply] /\ got[q] # NoReply
             \/ got' = got /\ ~Waiting(q),
             \/ UNCHANGED pipes
             \/ /\ \E m \in Methods \ {"turn/start"}, t \in Calls \cup {None} : Sends(m, q, t)
                /\ p \in {"interrupting", "reading", "cutting", "confirming", "terminals"}
      PROVE  Aside /\ Typed' /\ Correlated'
  <2>1. stop' \in [Stops -> StopRecords] /\ stop'[q].phase = p /\ \A x \in Stops \ {q} : stop'[x] = stop[x]
    BY <1>1, <1>3, StopBecomesTyped
  <2>2. StopStays(q)
    <3>1. got' \in [Callers -> Replies] /\ got'[q] = NoReply /\ (\A d \in Callers \ {q} : got'[d] = got[d])
          /\ (got[q] # NoReply \/ ~Waiting(q))
      BY <1>1, <1>3, AnswersTyped DEF Correlated
    <3> QED BY <1>2, <1>3, <2>1, <3>1 DEF StopStays
  <2>3. \/ UNCHANGED pipes
        \/ \E m \in Methods \ {"turn/start"}, t \in Calls \cup {None} : Sends(m, q, t) /\ Waiting(q)'
    BY <1>3, <2>1, Names DEF Waiting
  <2> QED BY <1>1, <1>2, <2>2, <2>3, StopStaysTyped
<1>4. CASE StopInterrupted(q)
  BY <1>1, <1>3, <1>4 DEF StopInterrupted, StopAnswered, StopPhases
<1>5. CASE StopSettled(q)
  <2>1. ~Waiting(q)
    BY <1>5 DEF StopSettled, StopReleased, Waiting
  <2> QED BY <1>1, <1>3, <1>5, <2>1 DEF StopSettled, StopPhases, Methods
<1>6. CASE StopRead(q)
  <2>1. got[q].turn \in Calls \cup {None}
    BY <1>1 DEF Replies
  <2> QED BY <1>1, <1>3, <1>6, <2>1 DEF StopRead, StopAnswered, Fails, StopPhases, Methods
<1>7. CASE StopCut(q)
  BY <1>1, <1>3, <1>7 DEF StopCut, StopAnswered, Fails, StopPhases, Methods
<1>8. CASE StopHeard(q)
  <2>1. ~Waiting(q)
    BY <1>8 DEF StopHeard, Waiting
  <2> QED BY <1>1, <1>3, <1>8, <2>1 DEF StopHeard, StopPhases, Methods
<1>9. CASE StopConfirmed(q)
  BY <1>1, <1>3, <1>9 DEF StopConfirmed, StopAnswered, Fails, StopPhases, Methods
<1>10. CASE StopTerminals(q)
  <2>1. [session EXCEPT !.stopped = session # NoSession] \in Sessions
    BY <1>1 DEF Sessions
  <2> QED BY <1>1, <1>3, <1>10, <2>1 DEF StopTerminals, StopAnswered, Fails, StopPhases
<1> QED BY <1>4, <1>5, <1>6, <1>7, <1>8, <1>9, <1>10 DEF StopStep

LEMMA StopTimesOutTyped ==
    ASSUME Typed, Correlated, NEW q \in Stops, StopTimesOut(q)
    PROVE  Aside /\ Typed' /\ Correlated'
<1>1. /\ IsTask(task) /\ stop \in [Stops -> StopRecords] /\ session \in Sessions /\ got \in [Callers -> Replies]
      /\ q \in Callers /\ ~Waiting(q) /\ stop[q].phase \in {"settling", "listening"}
  BY Names DEF Typed, Rest, StopTimesOut, Waiting
<1>2. stop' \in [Stops -> StopRecords] /\ stop'[q].phase = "failed" /\ \A x \in Stops \ {q} : stop'[x] = stop[x]
  BY <1>1, StopBecomesTyped DEF StopTimesOut, StopPhases
<1>3. Pipes' /\ Silent /\ pending' = pending
  BY DEF StopTimesOut, pipes, Typed, Pipes, Silent
<1>4. Bounds'
  BY Constants DEF StopTimesOut, Elapses, Typed, Bounds
<1>5. Thread' /\ Runs' /\ Prompts' /\ Rest'
  BY <1>2 DEF StopTimesOut, Typed, Thread, Runs, Prompts, Rest, prompting
<1>6. Correlated'
  <2>1. \A d \in Callers : got'[d] = got[d] /\ (Waiting(d) => Waiting(d)')
    BY <1>1, <1>2, Names DEF StopTimesOut, Waiting
  <2> HIDE DEF Correlated
  <2> QED BY <1>3, <2>1, CorrelatedSame
<1>7. Aside
  BY <1>3 DEF Aside, StopTimesOut, prompting
<1> QED BY <1>3, <1>4, <1>5, <1>6, <1>7 DEF Typed

(* The other calls of the application, and the timers.                       *)
LEMMA PostsInterruptTyped ==
    ASSUME Typed, PostsInterrupt
    PROVE  Pipes' /\ Silent /\ pending' = pending
<1>1. Pipes /\ task.turnId \in Calls \cup {None}
  BY DEF Typed, Rest, IsTask, TaskRecords
<1>2. CASE Cuts
  <2>1. Foreign(Request("turn/interrupt", None, task.turnId)) /\ Posts(Request("turn/interrupt", None, task.turnId))
    BY <1>1, <1>2, ForeignLines DEF PostsInterrupt, Methods
  <2>2. Request("turn/interrupt", None, task.turnId) \in Sent
    BY <2>1 DEF Foreign
  <2>3. Pipes' /\ toServer' = Append(toServer, Request("turn/interrupt", None, task.turnId)) /\ toClient' = toClient /\ pending' = pending
    BY <1>1, <2>1, <2>2, PostsTyped
  <2> QED BY <2>1, <2>2, <2>3 DEF Silent
<1>3. CASE ~Cuts
  BY <1>1, <1>3 DEF PostsInterrupt, pipes, Pipes, Silent
<1> QED BY <1>2, <1>3

LEMMA InterruptTyped ==
    ASSUME Typed, Correlated, Interrupt
    PROVE  Aside /\ Typed' /\ Correlated'
<1>1. /\ IsTask(task') /\ task'.call = task.call /\ (task' = NoTask <=> task = NoTask)
      /\ task'.waitingHuman <=> task.waitingHuman
  BY InterruptingTyped DEF Interrupt, Typed, Rest
<1>2. Pipes' /\ Silent /\ pending' = pending
  BY PostsInterruptTyped DEF Interrupt
<1>3. Bounds'
  BY Constants DEF Interrupt, Typed, Bounds
<1>4. Thread' /\ Runs' /\ Prompts' /\ Rest'
  BY <1>1 DEF Interrupt, Typed, Thread, Runs, Prompts, Rest, prompting
<1>5. Correlated'
  <2>1. \A d \in Callers : got'[d] = got[d] /\ (Waiting(d) => Waiting(d)')
    BY DEF Interrupt, Waiting
  <2> HIDE DEF Correlated
  <2> QED BY <1>2, <2>1, CorrelatedSame
<1>6. Aside
  BY <1>1, <1>2 DEF Aside, Interrupt, prompting
<1> QED BY <1>2, <1>3, <1>4, <1>5, <1>6 DEF Typed

LEMMA RetireTyped ==
    ASSUME Typed, Correlated, Retire
    PROVE  Aside /\ Typed' /\ Correlated'
<1>1. Pipes' /\ Silent /\ pending' = pending
  <2>1. Foreign(Request("thread/unsubscribe", None, None)) /\ Posts(Request("thread/unsubscribe", None, None)) /\ Pipes
    BY ForeignLines DEF Retire, Methods, Typed
  <2>2. Request("thread/unsubscribe", None, None) \in Sent
    BY <2>1 DEF Foreign
  <2>3. Pipes' /\ toServer' = Append(toServer, Request("thread/unsubscribe", None, None)) /\ toClient' = toClient /\ pending' = pending
    BY <2>1, <2>2, PostsTyped
  <2> QED BY <2>1, <2>2, <2>3 DEF Silent
<1>2. Thread' /\ Runs' /\ Prompts' /\ Rest' /\ Bounds'
  BY SessionsTyped DEF Retire, Typed, Thread, Runs, Prompts, Rest, Bounds, prompting, bounds, counters
<1>3. Correlated'
  <2>1. \A d \in Callers : got'[d] = got[d] /\ (Waiting(d) => Waiting(d)')
    BY DEF Retire, Waiting
  <2> HIDE DEF Correlated
  <2> QED BY <1>1, <2>1, CorrelatedSame
<1>4. Aside
  BY <1>1 DEF Aside, Retire, prompting, bounds, counters
<1> QED BY <1>1, <1>2, <1>3, <1>4 DEF Typed

LEMMA ResumeTyped ==
    ASSUME Typed, Correlated, Resume
    PROVE  Aside /\ Typed' /\ Correlated'
<1>1. Resumed \in Callers \ Calls /\ pending \in Seq(Callers)
  BY Names DEF Typed, Pipes
<1>2. /\ Pipes' /\ toServer' = Append(toServer, Request("thread/resume", Resumed, None)) /\ toClient' = toClient
      /\ pending' = Append(pending, Resumed)
  BY <1>1, SendsTyped DEF Resume, Typed, Methods
<1>3. Silent
  <2>1. Foreign(Request("thread/resume", Resumed, None))
    BY ForeignLines DEF Methods
  <2> QED BY <1>2, <2>1 DEF Silent, Foreign
<1>4. Bounds'
  BY Constants DEF Resume, Typed, Bounds
<1>5. Thread' /\ Runs' /\ Prompts' /\ Rest'
  BY DEF Resume, Typed, Thread, Runs, Prompts, Rest, prompting
<1>6. Correlated'
  <2>1. got'[Resumed] = NoReply /\ \A d \in Callers : got'[d] = got[d] /\ (Waiting(d) => Waiting(d)')
    BY <1>1 DEF Resume, Waiting, Quiet
  <2>2. ~InFlight(Resumed)
    BY DEF Resume, InFlight, Range
  <2>3. Waiting(Resumed)'
    BY Names DEF Waiting
  <2> HIDE DEF Correlated
  <2> QED BY <1>1, <1>2, <2>1, <2>2, <2>3, CorrelatedKept
<1>7. Aside
  BY <1>1, <1>2, <1>3 DEF Aside, Resume, prompting
<1> QED BY <1>2, <1>4, <1>5, <1>6, <1>7 DEF Typed

LEMMA ResumeAnsweredTyped ==
    ASSUME Typed, Correlated, ResumeAnswered, draining' \in BOOLEAN
    PROVE  Aside /\ Typed' /\ Correlated'
<1>1. Resumed \in Callers \ Calls /\ pending \in Seq(Callers) /\ got \in [Callers -> Replies]
  BY Names DEF Typed, Pipes, Rest
<1>2. Pipes' /\ Silent /\ pending' = pending
  BY DEF ResumeAnswered, pipes, Typed, Pipes, Silent
<1>3. got' \in [Callers -> Replies] /\ got'[Resumed] = NoReply /\ \A d \in Callers \ {Resumed} : got'[d] = got[d]
  BY <1>1, AnswersTyped DEF ResumeAnswered
<1>4. session' \in Sessions
  BY SessionsTyped DEF ResumeAnswered, Typed, Rest
<1>5. Thread' /\ Runs' /\ Prompts' /\ Rest' /\ Bounds'
  BY <1>3, <1>4 DEF ResumeAnswered, Typed, Thread, Runs, Prompts, Rest, Bounds, prompting, bounds, counters
<1>6. Correlated'
  <2>1. \A d \in Callers \ {Resumed} : got'[d] = got[d] /\ (Waiting(d) => Waiting(d)')
    BY <1>3 DEF ResumeAnswered, Waiting
  <2>2. got[Resumed] # NoReply
    BY DEF ResumeAnswered
  <2> HIDE DEF Correlated, Waiting
  <2> QED BY <1>1, <1>2, <1>3, <2>1, <2>2, CorrelatedKept
<1>7. Aside
  BY <1>2, <1>3, Names DEF Aside, ResumeAnswered, prompting, bounds, counters
<1> QED BY <1>2, <1>5, <1>6, <1>7 DEF Typed

LEMMA ExpireTyped ==
    ASSUME Typed, Correlated, Expire
    PROVE  Aside /\ Typed' /\ Correlated'
<1>1. IsTask(task) /\ task # NoTask /\ task \in TaskRecords /\ task.call \in Calls /\ ~task.waitingHuman
  BY TaskUpdates DEF Typed, Rest, Expire, IsTask, TaskRecords
<1>2. IsTask(task') /\ task'.call = task.call /\ task' # NoTask /\ (task'.waitingHuman <=> task.waitingHuman)
  <2>1. /\ Interrupting \in TaskRecords /\ Interrupting.call = task.call
        /\ ~Interrupting.waitingHuman
    BY <1>1, InterruptingTyped DEF IsTask
  <2>2. PICK i \in TaskRecords : i = Interrupting
    BY <2>1
  <2>3. task' = [i EXCEPT !.clock = "expired"]
    BY <2>2 DEF Expire
  <2>4. task' \in TaskRecords /\ task'.call = i.call /\ task'.waitingHuman = i.waitingHuman /\ task'.clock = "expired"
    BY <2>3 DEF TaskRecords
  <2>5. task'.call = task.call /\ ~task'.waitingHuman
    BY <2>1, <2>2, <2>4
  <2> QED BY <1>1, <2>4, <2>5, TaskKept
<1>3. Pipes' /\ Silent /\ pending' = pending
  BY PostsInterruptTyped DEF Expire
<1>4. settled' \in [Calls -> Results] /\ \A x \in Calls : settled'[x] = settled[x] \/ settled'[x] = "timeout"
  BY <1>1 DEF Expire, Settle, Typed, Runs, Results
<1>5. draining' \in BOOLEAN
  BY DEF Expire, Drains
<1>6. Thread' /\ Runs' /\ Prompts' /\ Rest' /\ Bounds'
  BY <1>2, <1>4, <1>5 DEF Expire, Typed, Thread, Runs, Prompts, Rest, Bounds, prompting, bounds, counters
<1>7. Correlated'
  <2>1. \A d \in Callers : got'[d] = got[d] /\ (Waiting(d) => Waiting(d)')
    BY DEF Expire, Waiting
  <2> HIDE DEF Correlated
  <2> QED BY <1>3, <2>1, CorrelatedSame
<1>8. Aside
  BY <1>1, <1>2, <1>3, <1>4 DEF Aside, Expire, prompting, bounds, counters
<1> QED BY <1>3, <1>6, <1>7, <1>8 DEF Typed

LEMMA RespondTyped ==
    ASSUME Typed, Correlated, NEW a \in Asks, Respond(a)
    PROVE  Aside /\ Typed' /\ Correlated'
<1>1. IsTask(task) /\ a \in prompts
  BY DEF Typed, Rest, Respond
<1>2. /\ IsTask(task') /\ task'.call = task.call /\ (task' = NoTask <=> task = NoTask)
      /\ prompts' # {} => (task'.waitingHuman <=> task.waitingHuman)
  <2>1. CASE task.waitingHuman /\ prompts = {a}
    <3>1. task \in TaskRecords /\ task # NoTask
      BY <1>1, <2>1, TaskUpdates DEF IsTask
    <3>2. task' = [task EXCEPT !.waitingHuman = FALSE, !.clock = "running"]
      BY <2>1 DEF Respond
    <3>3. task' \in TaskRecords /\ task'.call = task.call /\ task'.clock = "running" /\ ~task'.waitingHuman
      BY <3>1, <3>2 DEF TaskRecords
    <3>4. IsTask(task') /\ task' # NoTask
      BY <1>1, <3>1, <3>3, TaskKept
    <3>5. prompts' = {}
      BY <2>1 DEF Respond
    <3> QED BY <3>1, <3>3, <3>4, <3>5
  <2>2. CASE ~(task.waitingHuman /\ prompts = {a})
    BY <1>1, <2>2 DEF Respond
  <2> QED BY <2>1, <2>2
<1>3. Pipes' /\ Silent /\ pending' = pending
  <2>1. Foreign(Answer("answer", a)) /\ Posts(Answer("answer", a)) /\ Pipes
    BY ForeignLines DEF Respond, Typed
  <2>2. Answer("answer", a) \in Sent
    BY <2>1 DEF Foreign
  <2>3. Pipes' /\ toServer' = Append(toServer, Answer("answer", a)) /\ toClient' = toClient /\ pending' = pending
    BY <2>1, <2>2, PostsTyped
  <2> QED BY <2>1, <2>2, <2>3 DEF Silent
<1>4. Thread' /\ Runs' /\ Prompts' /\ Rest' /\ Bounds'
  BY <1>2 DEF Respond, Typed, Thread, Runs, Prompts, Rest, Bounds, bounds, counters
<1>5. Correlated'
  <2>1. \A d \in Callers : got'[d] = got[d] /\ (Waiting(d) => Waiting(d)')
    BY DEF Respond, Waiting
  <2> HIDE DEF Correlated
  <2> QED BY <1>3, <2>1, CorrelatedSame
<1>6. Aside
  BY <1>2, <1>3 DEF Aside, Respond, bounds, counters
<1> QED BY <1>3, <1>4, <1>5, <1>6 DEF Typed

LEMMA AutoDeclineTyped ==
    ASSUME Typed, Correlated, NEW a \in Asks, AutoDecline(a)
    PROVE  Aside /\ Typed' /\ Correlated'
<1>1. Pipes' /\ Silent /\ pending' = pending
  <2>1. CASE a \in awaiting
    <3>1. Foreign(Answer("decline", a)) /\ Posts(Answer("decline", a)) /\ Pipes
      BY <2>1, ForeignLines DEF AutoDecline, Typed
    <3>2. Answer("decline", a) \in Sent
      BY <3>1 DEF Foreign
    <3>3. Pipes' /\ toServer' = Append(toServer, Answer("decline", a)) /\ toClient' = toClient /\ pending' = pending
      BY <3>1, <3>2, PostsTyped
    <3> QED BY <3>1, <3>2, <3>3 DEF Silent
  <2>2. CASE a \notin awaiting
    BY <2>2 DEF AutoDecline, pipes, Typed, Pipes, Silent
  <2> QED BY <2>1, <2>2
<1>2. Thread' /\ Runs' /\ Prompts' /\ Rest' /\ Bounds'
  BY DEF AutoDecline, Typed, Thread, Runs, Prompts, Rest, Bounds, bounds, counters
<1>3. Correlated'
  <2>1. \A d \in Callers : got'[d] = got[d] /\ (Waiting(d) => Waiting(d)')
    BY DEF AutoDecline, Waiting
  <2> HIDE DEF Correlated
  <2> QED BY <1>1, <2>1, CorrelatedSame
<1>4. Aside
  BY <1>1 DEF Aside, AutoDecline, bounds, counters
<1> QED BY <1>1, <1>2, <1>3, <1>4 DEF Typed
-----------------------------------------------------------------------------
(* The oldest request in flight times out.                                   *)
LEMMA TimeOutTyped ==
    ASSUME Typed, Correlated, TimeOut
    PROVE  Typed' /\ Correlated'
<1>1. /\ pending \in Seq(Callers) /\ pending # <<>> /\ got \in [Callers -> Replies] /\ pending' = Tail(pending)
      /\ \A c \in Callers : got[c] = NoReply
  BY DEF Typed, Pipes, Rest, TimeOut, Quiet
<1>2. /\ Tail(pending) \in Seq(Callers) /\ DOMAIN Tail(pending) = 1..Len(pending)-1
      /\ \A i \in 1..Len(pending)-1 : Tail(pending)[i] = pending[i + 1]
      /\ Head(pending) = pending[1] /\ pending[1] \in Callers /\ 1 \in DOMAIN pending
      /\ DOMAIN pending = 1..Len(pending) /\ Len(pending) \in Nat
  BY <1>1, Tailed
<1>3. PICK c \in Callers : c = pending[1] /\ got' = [got EXCEPT ![c] = Fault(c, "late")]
  BY <1>2 DEF TimeOut
<1>4. /\ got' \in [Callers -> Replies] /\ got'[c] # NoReply /\ \A d \in Callers \ {c} : got'[d] = NoReply
  BY <1>1, <1>3, AnswersTyped
<1>5. Thread' /\ Runs' /\ Prompts' /\ Rest' /\ Bounds' /\ Pipes'
  <2>1. draining' \in BOOLEAN
    BY DEF TimeOut, Drains
  <2>2. timeouts' \in 0..MaxTimeouts
    BY Constants DEF TimeOut, Elapses, Typed, Bounds
  <2> QED BY <1>1, <1>2, <1>4, <2>1, <2>2 DEF TimeOut, Typed, Thread, Runs, Prompts, Rest, Bounds, Pipes, prompting
<1>6. Correlated'
  <2>1. \A d \in Callers : Waiting(d) <=> Waiting(d)'
    BY DEF TimeOut, Waiting
  <2>2. \A i \in DOMAIN pending' : i + 1 \in DOMAIN pending /\ pending'[i] = pending[i + 1] /\ i + 1 # 1
    BY <1>1, <1>2
  <2>3. \A d \in Callers : InFlight(d)' => InFlight(d) /\ d # c
    <3> TAKE d \in Callers
    <3> HAVE InFlight(d)'
    <3>1. PICK i \in DOMAIN pending' : pending'[i] = d
      BY DEF InFlight
    <3>2. pending[i + 1] = d /\ i + 1 \in DOMAIN pending /\ i + 1 # 1
      BY <2>2, <3>1
    <3> QED BY <1>2, <1>3, <3>2 DEF InFlight, Correlated
  <2>4. InFlight(c)
    BY <1>2, <1>3 DEF InFlight
  <2>5. \A i, j \in DOMAIN pending' : pending'[i] = pending'[j] => i = j
    <3> TAKE i, j \in DOMAIN pending'
    <3>1. pending[i + 1] = pending[j + 1] => i + 1 = j + 1
      BY <2>2 DEF Correlated
    <3> QED BY <1>1, <1>2, <2>2, <3>1
  <2> QED BY <1>4, <2>1, <2>3, <2>4, <2>5 DEF Correlated
<1> QED BY <1>5, <1>6 DEF Typed
-----------------------------------------------------------------------------
(* A line of the child's output.                                             *)
LEMMA ToldKinds ==
    ASSUME NEW m \in Told
    PROVE  /\ m.method \in {"reply", "turn/started", "request", "serverRequest/resolved"} \cup Ends
           /\ m.method = "reply" => m \in Replies /\ m.caller \in Callers \cup {None} /\ m.error # "late" /\ m.turn \in Calls \cup {None}
           /\ m.method \in {"turn/started"} \cup Ends => m.turn \in Calls
           /\ m.method \in {"request", "serverRequest/resolved"} => m.ask \in Asks
<1>1. CASE m \in [method : {"reply"}, caller : Callers \cup {None}, error : {None, "gone", "rejected"}, turn : Calls \cup {None}]
  BY <1>1 DEF Replies, Ends, None
<1>2. CASE m \in [method : {"turn/started"} \cup Ends, turn : Calls]
  BY <1>2 DEF Ends
<1>3. CASE m \in [method : {"request", "serverRequest/resolved"}, ask : Asks]
  BY <1>3 DEF Ends
<1> QED BY <1>1, <1>2, <1>3 DEF Told

Takes(m) ==
    /\ toClient # <<>> /\ m = Head(toClient) /\ toClient' = Tail(toClient)
    /\ UNCHANGED <<toServer, server, ended, session, call, bounds, draining>>
TakesReply(m) ==
    /\ m.method = "reply" /\ UNCHANGED <<task, prompting, settled, stop>>
    /\ \/ ~InFlight(m.caller) /\ UNCHANGED <<got, pending>>
       \/ /\ got' = [got EXCEPT ![m.caller] = m]
          /\ \E i \in DOMAIN pending : pending[i] = m.caller /\ pending' = RemoveAt(pending, i)
TakesEnd(m) ==
    /\ m.method \in Ends /\ UNCHANGED <<prompting, got, pending>>
    /\ \/ UNCHANGED <<task, settled>>
       \/ /\ task # NoTask /\ task' = NoTask
          /\ \A x \in Calls : settled'[x] = settled[x] \/ (x = task.call /\ settled'[x] \in {m.method, "failed"})
    /\ UNCHANGED task => task = NoTask \/ task.turnId \notin {None, m.turn}
TakesOther(m) ==
    /\ m.method \in {"turn/started", "request", "serverRequest/resolved"} /\ UNCHANGED <<settled, stop, got, pending>>
    /\ task'.call = task.call /\ (task' = NoTask <=> task = NoTask)
    /\ m.method = "turn/started" => UNCHANGED prompting /\ task'.waitingHuman = task.waitingHuman
    /\ m.method = "request" => prompts' = prompts \cup {m.ask} /\ (task # NoTask => task'.waitingHuman)
    /\ m.method = "serverRequest/resolved" => prompts' = prompts \ {m.ask} /\ task' = task

LEMMA DispatchTyped ==
    ASSUME Typed, Correlated, Dispatch
    PROVE  /\ Typed' /\ Correlated'
           /\ \E m \in Told : Takes(m) /\ (TakesReply(m) \/ TakesEnd(m) \/ TakesOther(m))
<1>1. /\ toClient \in Seq(Told) /\ toClient # <<>> /\ pending \in Seq(Callers) /\ got \in [Callers -> Replies]
      /\ IsTask(task) /\ stop \in [Stops -> StopRecords] /\ settled \in [Calls -> Results]
  BY DEF Typed, Pipes, Rest, Runs, Dispatch
<1>2. toClient' \in Seq(Told) /\ Head(toClient) \in Told
  BY <1>1, Tailed DEF Dispatch
<1>3. PICK m \in Told : /\ m = Head(toClient) /\ Takes(m)
                        /\ IF m.method = "reply" THEN OnReply(m) ELSE OnNotification(m)
  BY <1>2 DEF Dispatch, Takes
<1>4. Thread' /\ Bounds' /\ session' \in Sessions /\ toServer' \in Seq(Sent) /\ call' \in [Calls -> CallRecords]
  BY <1>3 DEF Takes, Typed, Thread, Bounds, Rest, Pipes, Runs, bounds, counters
<1>5. /\ m.method \in {"reply", "turn/started", "request", "serverRequest/resolved"} \cup Ends
      /\ m.method = "reply" => m \in Replies /\ m.caller \in Callers \cup {None} /\ m.error # "late" /\ m.turn \in Calls \cup {None}
      /\ m.method \in {"turn/started"} \cup Ends => m.turn \in Calls
      /\ m.method \in {"request", "serverRequest/resolved"} => m.ask \in Asks
  BY ToldKinds
<1>6. CASE m.method = "reply" /\ OnReply(m)
  <2>1. UNCHANGED <<task, prompting, settled, stop>> /\ Answered(m) /\ m \in Replies
    BY <1>5, <1>6 DEF OnReply
  <2>2. CASE m.caller \notin Range(pending)
    <3>1. UNCHANGED <<got, pending>> /\ ~InFlight(m.caller)
      BY <2>1, <2>2 DEF Answered, InFlight, Range
    <3>2. TakesReply(m)
      BY <1>6, <2>1, <3>1 DEF TakesReply
    <3>3. Correlated'
      <4>1. \A d \in Callers : got'[d] = got[d] /\ (Waiting(d) => Waiting(d)')
        BY <1>3, <2>1, <3>1 DEF Takes, Waiting
      <4> HIDE DEF Correlated
      <4> QED BY <3>1, <4>1, CorrelatedSame
    <3>4. Typed'
      BY <1>1, <1>2, <1>4, <2>1, <3>1 DEF Typed, Pipes, Runs, Prompts, Rest, prompting
    <3> QED BY <1>3, <3>2, <3>3, <3>4
  <2>3. CASE m.caller \in Range(pending)
    <3>1. PICK i \in DOMAIN pending : pending[i] = m.caller /\ pending' = RemoveAt(pending, i)
      BY <2>1, <2>3 DEF Answered
    <3>2. got' = [got EXCEPT ![m.caller] = m] /\ m.caller \in Callers
      BY <1>1, <2>1, <2>3, <3>1 DEF Answered
    <3>3. TakesReply(m)
      BY <1>6, <2>1, <3>1, <3>2 DEF TakesReply
    <3>4. got' \in [Callers -> Replies] /\ got'[m.caller] = m /\ \A d \in Callers \ {m.caller} : got'[d] = got[d]
      BY <1>1, <2>1, <3>2
    <3>5. /\ RemoveAt(pending, i) \in Seq(Callers)
          /\ DOMAIN RemoveAt(pending, i) = 1..Len(pending)-1
          /\ \A k \in 1..Len(pending)-1 : RemoveAt(pending, i)[k] = IF k < i THEN pending[k] ELSE pending[k + 1]
          /\ DOMAIN pending = 1..Len(pending) /\ Len(pending) \in Nat
      BY <1>1, Removed
    <3>6. Typed'
      BY <1>1, <1>2, <1>4, <2>1, <3>1, <3>4, <3>5 DEF Typed, Pipes, Runs, Prompts, Rest, prompting
    <3>7. Correlated'
      <4> DEFINE o(k) == IF k < i THEN k ELSE k + 1
      <4>1. \A k \in DOMAIN pending' : o(k) \in DOMAIN pending /\ pending'[k] = pending[o(k)] /\ o(k) # i
        BY <3>1, <3>5
      <4>2. \A j, k \in DOMAIN pending' : o(j) = o(k) => j = k
        BY <3>1, <3>5
      <4> HIDE DEF o
      <4>3. \A j, k \in DOMAIN pending' : pending'[j] = pending'[k] => j = k
        BY <4>1, <4>2 DEF Correlated
      <4>4. \A d \in Callers : InFlight(d)' => InFlight(d) /\ d # m.caller
        BY <3>1, <4>1 DEF InFlight, Correlated
      <4>5. InFlight(m.caller)
        BY <3>1 DEF InFlight
      <4>6. \A d \in Callers : Waiting(d) <=> Waiting(d)'
        BY <1>3, <2>1 DEF Takes, Waiting
      <4> QED BY <3>2, <3>4, <4>3, <4>4, <4>5, <4>6 DEF Correlated
    <3> QED BY <1>3, <3>3, <3>6, <3>7
  <2> QED BY <2>2, <2>3
<1>7. CASE m.method # "reply" /\ OnNotification(m)
  <2>1. UNCHANGED <<got, pending>>
    BY <1>7 DEF OnNotification
  <2>2. ASSUME IsTask(task'), settled' \in [Calls -> Results], stop' \in [Stops -> StopRecords], Prompts',
               \A q \in Stops : stop'[q].phase = stop[q].phase
        PROVE  Typed' /\ Correlated'
    <3>1. Typed'
      BY <1>1, <1>2, <1>4, <2>1, <2>2 DEF Typed, Pipes, Runs, Rest
    <3>2. \A d \in Callers : got'[d] = got[d] /\ (Waiting(d) => Waiting(d)')
      BY <1>3, <2>1, <2>2 DEF Takes, Waiting
    <3>3. Correlated'
      <4> HIDE DEF Correlated
      <4> QED BY <2>1, <3>2, CorrelatedSame
    <3> QED BY <3>1, <3>3
  <2>3. CASE m.method = "turn/started" /\ TurnStarted(m.turn) /\ UNCHANGED <<prompting, settled, stop>>
    <3>1. /\ IsTask(task') /\ task'.call = task.call /\ (task' = NoTask <=> task = NoTask)
          /\ task'.waitingHuman = task.waitingHuman
      <4>1. CASE task # NoTask /\ task.turnId = None
        <5>1. task' = [task EXCEPT !.turnId = m.turn] /\ m.turn \in Calls /\ task \in TaskRecords
          BY <1>1, <1>5, <2>3, <4>1 DEF TurnStarted, IsTask
        <5>2. task' \in TaskRecords /\ task'.call = task.call /\ task'.waitingHuman = task.waitingHuman /\ task'.clock = task.clock
          BY <5>1 DEF TaskRecords
        <5> QED BY <1>1, <4>1, <5>2, TaskKept DEF IsTask
      <4>2. CASE ~(task # NoTask /\ task.turnId = None)
        BY <1>1, <2>3, <4>2 DEF TurnStarted
      <4> QED BY <4>1, <4>2
    <3>2. Prompts'
      BY <2>3 DEF Typed, Prompts, prompting
    <3>3. TakesOther(m)
      BY <2>1, <2>3, <3>1 DEF TakesOther
    <3> QED BY <1>1, <1>3, <2>2, <2>3, <3>1, <3>2, <3>3
  <2>4. CASE m.method \in Ends /\ CompleteTurn(m.turn, m.method) /\ stop' = Hears /\ UNCHANGED prompting
    <3>1. stop' \in [Stops -> StopRecords] /\ \A q \in Stops : stop'[q].phase = stop[q].phase
      <4>1. ASSUME NEW q \in Stops PROVE stop'[q] \in StopRecords /\ stop'[q].phase = stop[q].phase
        <5>1. stop'[q] = [stop[q] EXCEPT !.heard = @ \/ Listening(q)] /\ stop[q] \in StopRecords
          BY <1>1, <2>4 DEF Hears
        <5> QED BY <5>1 DEF StopRecords
      <4> QED BY <2>4, <4>1 DEF Hears
    <3>2. IsTask(task') /\ settled' \in [Calls -> Results] /\ TakesEnd(m)
      <4>1. CASE OwnTurn(m.turn)
        <5>1. PICK o \in {m.method, "failed"} : task # NoTask /\ task' = NoTask /\ Settle(task.call, o)
          BY <2>4, <4>1 DEF CompleteTurn, OwnTurn, Reported
        <5>2. task.call \in Calls /\ o \in Results
          BY <1>1, <2>4, <5>1 DEF IsTask, TaskRecords, Ends, Results
        <5>3. settled' \in [Calls -> Results]
          BY <1>1, <5>1, <5>2, SettleTyped
        <5>4. \A x \in Calls : settled'[x] = settled[x] \/ (x = task.call /\ settled'[x] = o)
          BY <1>1, <5>1, <5>2 DEF Settle
        <5> QED BY <2>1, <2>4, <5>1, <5>3, <5>4, TaskUpdates DEF TakesEnd
      <4>2. CASE ~OwnTurn(m.turn)
        BY <1>1, <2>1, <2>4, <4>2 DEF CompleteTurn, OwnTurn, TakesEnd
      <4> QED BY <4>1, <4>2
    <3>3. Prompts'
      BY <2>4 DEF Typed, Prompts, prompting
    <3> QED BY <1>3, <2>2, <3>1, <3>2, <3>3
  <2>5. CASE m.method = "request" /\ OnRequest(m.ask) /\ UNCHANGED <<settled, stop>>
    <3>1. /\ IsTask(task') /\ task'.call = task.call /\ (task' = NoTask <=> task = NoTask)
          /\ task # NoTask => task'.waitingHuman
      <4>1. CASE task # NoTask /\ ~task.waitingHuman
        <5>1. task' = [task EXCEPT !.waitingHuman = TRUE, !.clock = "stopped"] /\ task \in TaskRecords
          BY <1>1, <2>5, <4>1 DEF OnRequest, IsTask
        <5>2. task' \in TaskRecords /\ task'.call = task.call /\ task'.waitingHuman /\ task'.clock = "stopped"
          BY <5>1 DEF TaskRecords
        <5> QED BY <1>1, <4>1, <5>2, TaskKept DEF IsTask
      <4>2. CASE ~(task # NoTask /\ ~task.waitingHuman)
        BY <1>1, <2>5, <4>2 DEF OnRequest
      <4> QED BY <4>1, <4>2
    <3>2. Prompts' /\ prompts' = prompts \cup {m.ask}
      BY <1>5, <2>5 DEF Typed, Prompts, OnRequest
    <3>3. TakesOther(m)
      BY <2>1, <2>5, <3>1, <3>2 DEF TakesOther
    <3> QED BY <1>1, <1>3, <2>2, <2>5, <3>1, <3>2, <3>3
  <2>6. CASE m.method = "serverRequest/resolved" /\ prompts' = prompts \ {m.ask} /\ UNCHANGED <<awaiting, armed, task, settled, stop>>
    <3>1. Prompts' /\ IsTask(task')
      BY <1>1, <2>6 DEF Typed, Prompts
    <3>2. TakesOther(m)
      BY <2>1, <2>6 DEF TakesOther
    <3> QED BY <1>1, <1>3, <2>2, <2>6, <3>1, <3>2
  <2> QED BY <1>7, <2>3, <2>4, <2>5, <2>6 DEF OnNotification, Ends
<1> QED BY <1>3, <1>6, <1>7
-----------------------------------------------------------------------------
(* The app-server.                                                           *)
LEMMA SentKinds ==
    ASSUME NEW m \in Sent
    PROVE  /\ m.method \in Methods \cup {"answer", "decline"}
           /\ m.method \in Methods => m.caller \in Callers \cup {None} /\ m.turn \in Calls \cup {None}
           /\ m.method = "turn/start" => m.caller \in Calls
           /\ m.method \in {"answer", "decline"} => m.ask \in Asks
<1>1. CASE m \in [method : Methods, caller : Callers \cup {None}, turn : Calls \cup {None}] /\ (m.method = "turn/start" => m.caller \in Calls)
  BY <1>1 DEF Methods
<1>2. CASE m \in [method : {"answer", "decline"}, ask : Asks]
  BY <1>2 DEF Methods
<1> QED BY <1>1, <1>2 DEF Sent

(* A set as a sequence: every element is there.                              *)
LEMMA SequenceOfSet ==
    ASSUME NEW S, IsFiniteSet(S)
    PROVE  /\ Cardinality(S) \in Nat /\ SetToSeq(S) \in [1..Cardinality(S) -> S]
           /\ \A a \in S : \E i \in 1..Cardinality(S) : SetToSeq(S)[i] = a
<1>1. Cardinality(S) \in Nat /\ ExistsBijection(1..Cardinality(S), S)
  BY FS_CardinalityType
<1>2. \E f \in [1..Cardinality(S) -> S] : IsInjective(f)
  BY <1>1 DEF ExistsBijection, Bijection, Injection
<1>3. SetToSeq(S) \in [1..Cardinality(S) -> S] /\ IsInjective(SetToSeq(S))
  BY <1>2 DEF SetToSeq
<1>4. SetToSeq(S) \in Injection(1..Cardinality(S), S)
  BY <1>3 DEF Injection
<1>5. Cardinality(1..Cardinality(S)) = Cardinality(S)
  BY <1>1, FS_Interval
<1>6. SetToSeq(S) \in Surjection(1..Cardinality(S), S)
  BY <1>4, <1>5, FS_Injection
<1> QED BY <1>1, <1>3, <1>6 DEF Surjection

LEMMA ResolvedTyped ==
    ASSUME NEW A \in SUBSET Asks
    PROVE  /\ Resolved(A) \in Seq(Told)
           /\ \A i \in DOMAIN Resolved(A) : Resolved(A)[i].method = "serverRequest/resolved" /\ Resolved(A)[i].ask \in A
           /\ \A a \in A : \E i \in DOMAIN Resolved(A) : Resolved(A)[i].ask = a
<1>1. IsFiniteSet(A)
  BY Constants, FS_Subset
<1>2. /\ Cardinality(A) \in Nat /\ SetToSeq(A) \in [1..Cardinality(A) -> A]
      /\ \A a \in A : \E i \in 1..Cardinality(A) : SetToSeq(A)[i] = a
  BY <1>1, SequenceOfSet
<1>3. /\ DOMAIN Resolved(A) = 1..Cardinality(A)
      /\ \A i \in 1..Cardinality(A) : Resolved(A)[i] = Prompt("serverRequest/resolved", SetToSeq(A)[i])
  BY DEF Resolved
<1>4. \A i \in 1..Cardinality(A) : /\ Resolved(A)[i] \in Told /\ Resolved(A)[i].method = "serverRequest/resolved"
                                   /\ Resolved(A)[i].ask = SetToSeq(A)[i] /\ SetToSeq(A)[i] \in A
  BY <1>2, <1>3, LinesTyped
<1>5. Resolved(A) \in Seq(Told)
  <2>1. Resolved(A) = [i \in 1..Cardinality(A) |-> Resolved(A)[i]]
    BY DEF Resolved
  <2> QED BY <1>2, <1>4, <2>1
<1> QED BY <1>2, <1>3, <1>4, <1>5

(* What the server does with a line, and what it says then.                  *)
Serves(m, s) ==
    /\ toServer # <<>> /\ m = Head(toServer) /\ toServer' = Tail(toServer)
    /\ toClient' = toClient \o s
    /\ UNCHANGED <<pending, ended, got, task, session, prompting, call, settled, stop, bounds, draining>>
ServesStart(m, s) ==
    /\ m.method = "turn/start" /\ server.turn = None /\ server' = [turn |-> m.caller, cut |-> FALSE, asks |-> {}]
    /\ \/ s = <<Reply(m.caller, m.caller), Note("turn/started", m.caller)>>
       \/ s = <<Note("turn/started", m.caller), Reply(m.caller, m.caller)>>
ServesReply(m, s) ==
    /\ m.method \in Methods /\ server'.turn = server.turn /\ server'.asks = server.asks
    /\ \E p \in Told :
         /\ s = <<p>> /\ p.method = "reply" /\ p.caller = m.caller
         /\ m.method = "turn/start" => p.error # None
         /\ m.method = "thread/read" => (p.error = None => p.turn = server.turn)
         /\ m.method = "turn/interrupt" => (p.error # None => server.turn # m.turn)
ServesAnswer(m, s) ==
    /\ m.method \in {"answer", "decline"} /\ server'.turn = server.turn
    /\ server'.asks = server.asks \ {m.ask}
    /\ s = IF m.ask \in server.asks THEN Resolved({m.ask}) ELSE <<>>
ServesNothing(m, s) == m.method = "thread/unsubscribe" /\ s = <<>> /\ server' = server

LEMMA ServeTyped ==
    ASSUME Typed, Correlated, Serve
    PROVE  /\ Typed' /\ Correlated'
           /\ \E m \in Sent, s \in Seq(Told) :
                Serves(m, s) /\ (ServesStart(m, s) \/ ServesReply(m, s) \/ ServesAnswer(m, s) \/ ServesNothing(m, s))
<1>1. toServer \in Seq(Sent) /\ toClient \in Seq(Told) /\ toServer # <<>> /\ server \in Servers
  BY DEF Typed, Pipes, Thread, Serve
<1>2. toServer' \in Seq(Sent) /\ Head(toServer) \in Sent
  BY <1>1, Tailed DEF Serve
<1>3. PICK m \in Sent : /\ m = Head(toServer)
                        /\ \/ m.method = "turn/start" /\ Starts(m)
                           \/ m.method \in {"thread/read", "thread/resume", "thread/backgroundTerminals"} /\ Reads(m)
                           \/ m.method = "turn/interrupt" /\ InterruptsTurn(m)
                           \/ m.method \in {"answer", "decline"} /\ TakesAnswer(m)
                           \/ m.method = "thread/unsubscribe" /\ UNCHANGED <<server, toClient>>
  BY <1>2 DEF Serve
<1>4. /\ m.method \in Methods => m.caller \in Callers \cup {None} /\ m.turn \in Calls \cup {None}
      /\ m.method = "turn/start" => m.caller \in Calls
      /\ m.method \in {"answer", "decline"} => m.ask \in Asks
  BY SentKinds
<1>5. /\ toServer' = Tail(toServer)
      /\ UNCHANGED <<pending, ended, got, task, session, prompting, call, settled, stop, bounds, draining>>
  BY DEF Serve
<1>6. ASSUME NEW s \in Seq(Told), toClient' = toClient \o s, server' \in Servers,
             ServesStart(m, s) \/ ServesReply(m, s) \/ ServesAnswer(m, s) \/ ServesNothing(m, s)
      PROVE  /\ Typed' /\ Correlated'
             /\ \E s1 \in Seq(Told) :
                  Serves(m, s1) /\ (ServesStart(m, s1) \/ ServesReply(m, s1) \/ ServesAnswer(m, s1) \/ ServesNothing(m, s1))
  <2>1. toClient \o s \in Seq(Told)
    BY <1>1, Joined
  <2>2. Thread' /\ Runs' /\ Prompts' /\ Rest' /\ Bounds' /\ Pipes'
    BY <1>2, <1>5, <1>6, <2>1 DEF Typed, Thread, Runs, Prompts, Rest, Bounds, Pipes, prompting, bounds, counters
  <2>3. \A d \in Callers : got'[d] = got[d] /\ (Waiting(d) => Waiting(d)')
    BY <1>5 DEF Waiting
  <2>4. Correlated'
    <3> HIDE DEF Correlated
    <3> QED BY <1>5, <2>3, CorrelatedSame
  <2>5. Serves(m, s)
    BY <1>1, <1>3, <1>5, <1>6 DEF Serves
  <2> QED BY <1>6, <2>2, <2>4, <2>5 DEF Typed
<1>7. CASE m.method = "turn/start" /\ Starts(m)
  <2>1. m.caller \in Calls /\ m.caller \in Callers \cup {None}
    BY <1>4, <1>7, Names
  <2>2. CASE /\ server.turn = None /\ server' = [Idle EXCEPT !.turn = m.caller]
             /\ \E order \in {<<Reply(m.caller, m.caller), Note("turn/started", m.caller)>>,
                              <<Note("turn/started", m.caller), Reply(m.caller, m.caller)>>} : Says(order)
    <3>1. PICK s \in {<<Reply(m.caller, m.caller), Note("turn/started", m.caller)>>,
                      <<Note("turn/started", m.caller), Reply(m.caller, m.caller)>>} : toClient' = toClient \o s
      BY <2>2 DEF Says
    <3>2. Reply(m.caller, m.caller) \in Told /\ Note("turn/started", m.caller) \in Told
      BY <2>1, LinesTyped
    <3>3. s \in Seq(Told)
      BY <3>1, <3>2
    <3>4. server' = [turn |-> m.caller, cut |-> FALSE, asks |-> {}] /\ server' \in Servers
      BY <2>1, <2>2 DEF Idle, Servers
    <3>5. ServesStart(m, s)
      BY <1>7, <2>2, <3>1, <3>4 DEF ServesStart
    <3> QED BY <1>6, <3>1, <3>3, <3>4, <3>5
  <2>3. ASSUME NEW e \in {"gone", "rejected"}, Says(<<Fault(m.caller, e)>>), UNCHANGED server
        PROVE  Typed' /\ Correlated' /\ \E s1 \in Seq(Told) :
                  Serves(m, s1) /\ (ServesStart(m, s1) \/ ServesReply(m, s1) \/ ServesAnswer(m, s1) \/ ServesNothing(m, s1))
    <3>1. PICK p \in Told : p = Fault(m.caller, e) /\ p.method = "reply" /\ p.caller = m.caller /\ p.error # None
      BY <2>1, LinesTyped DEF None
    <3>2. <<p>> \in Seq(Told) /\ toClient' = toClient \o <<p>>
      BY <2>3, <3>1 DEF Says
    <3>3. ServesReply(m, <<p>>)
      BY <1>7, <2>3, <3>1 DEF ServesReply, Methods
    <3> QED BY <1>1, <1>6, <2>3, <3>2, <3>3
  <2> QED BY <1>7, <2>2, <2>3 DEF Starts
<1>8. CASE m.method \in {"thread/read", "thread/resume", "thread/backgroundTerminals"} /\ Reads(m)
  <2>1. m.caller \in Callers \cup {None} /\ server.turn \in Calls \cup {None}
    BY <1>1, <1>4, <1>8 DEF Methods, Servers
  <2>2. PICK p \in Told : /\ toClient' = toClient \o <<p>> /\ p.method = "reply" /\ p.caller = m.caller
                          /\ p.error = None => p.turn = server.turn
    <3>1. CASE Says(<<Reply(m.caller, server.turn)>>)
      <4>1. /\ Reply(m.caller, server.turn) \in Told /\ Reply(m.caller, server.turn).method = "reply"
            /\ Reply(m.caller, server.turn).caller = m.caller /\ Reply(m.caller, server.turn).turn = server.turn
        BY <2>1, LinesTyped
      <4> QED BY <3>1, <4>1 DEF Says
    <3>2. CASE Says(<<Fault(m.caller, "gone")>>)
      <4>1. Fault(m.caller, "gone") \in Told /\ Fault(m.caller, "gone").error # None
            /\ Fault(m.caller, "gone").method = "reply" /\ Fault(m.caller, "gone").caller = m.caller
        BY <2>1, LinesTyped DEF None
      <4> QED BY <3>2, <4>1 DEF Says
    <3> QED BY <1>8, <3>1, <3>2 DEF Reads
  <2>3. ServesReply(m, <<p>>) /\ <<p>> \in Seq(Told)
    BY <1>8, <2>2 DEF ServesReply, Methods, Reads
  <2>4. server' \in Servers
    BY <1>1, <1>8 DEF Reads
  <2> QED BY <1>6, <2>2, <2>3, <2>4
<1>9. CASE m.method = "turn/interrupt" /\ InterruptsTurn(m)
  <2>1. m.caller \in Callers \cup {None}
    BY <1>4, <1>9 DEF Methods
  <2>2. PICK p \in Told : /\ toClient' = toClient \o <<p>> /\ p.method = "reply" /\ p.caller = m.caller
                          /\ p.error # None => server.turn # m.turn
    <3>1. CASE server.turn = m.turn
      <4>1. Reply(m.caller, None) \in Told /\ Reply(m.caller, None).method = "reply" /\ Reply(m.caller, None).caller = m.caller /\ Reply(m.caller, None).error = None
        BY <2>1, LinesTyped
      <4>2. toClient' = toClient \o <<Reply(m.caller, None)>>
        BY <1>9, <3>1 DEF InterruptsTurn, Says
      <4> QED BY <4>1, <4>2
    <3>2. CASE server.turn # m.turn
      <4>1. PICK e \in {"rejected", "gone"} : toClient' = toClient \o <<Fault(m.caller, e)>>
        BY <1>9, <3>2 DEF InterruptsTurn, Says
      <4>2. Fault(m.caller, e) \in Told /\ Fault(m.caller, e).method = "reply" /\ Fault(m.caller, e).caller = m.caller
        BY <2>1, <4>1, LinesTyped
      <4> QED BY <3>2, <4>1, <4>2
    <3> QED BY <3>1, <3>2
  <2>3. server' \in Servers /\ server'.turn = server.turn /\ server'.asks = server.asks
    <3>1. server' = [server EXCEPT !.cut = @ \/ server.turn = m.turn]
      BY <1>9 DEF InterruptsTurn
    <3>2. (server.cut \/ server.turn = m.turn) \in BOOLEAN
      BY <1>1 DEF Servers
    <3> QED BY <1>1, <3>1, <3>2 DEF Servers
  <2>4. ServesReply(m, <<p>>) /\ <<p>> \in Seq(Told)
    BY <1>9, <2>2, <2>3 DEF ServesReply, Methods
  <2> QED BY <1>6, <2>2, <2>3, <2>4
<1>10. CASE m.method \in {"answer", "decline"} /\ TakesAnswer(m)
  <2>1. server' \in Servers /\ server'.turn = server.turn /\ server'.asks = server.asks \ {m.ask}
    <3>1. server' = [server EXCEPT !.asks = @ \ {m.ask}] /\ server.asks \ {m.ask} \in SUBSET Asks
      BY <1>1, <1>10 DEF TakesAnswer, Servers
    <3> QED BY <1>1, <3>1 DEF Servers
  <2>2. PICK s : s = (IF m.ask \in server.asks THEN Resolved({m.ask}) ELSE <<>>) /\ toClient' = toClient \o s
    BY <1>10 DEF TakesAnswer, Says
  <2>3. s \in Seq(Told)
    <3>1. {m.ask} \in SUBSET Asks
      BY <1>4, <1>10
    <3>2. Resolved({m.ask}) \in Seq(Told) /\ <<>> \in Seq(Told)
      BY <3>1, ResolvedTyped
    <3> QED BY <2>2, <3>2
  <2>4. ServesAnswer(m, s)
    BY <1>10, <2>1, <2>2 DEF ServesAnswer
  <2> QED BY <1>6, <2>1, <2>2, <2>3, <2>4
<1>11. CASE m.method = "thread/unsubscribe" /\ UNCHANGED <<server, toClient>>
  <2>1. toClient' = toClient \o <<>> /\ <<>> \in Seq(Told)
    BY <1>1, <1>11
  <2>2. ServesNothing(m, <<>>) /\ server' \in Servers
    BY <1>1, <1>11 DEF ServesNothing
  <2> QED BY <1>6, <2>1, <2>2
<1> QED BY <1>3, <1>7, <1>8, <1>9, <1>10, <1>11

(* What the server says of its own accord.                                   *)
LEMMA AskTyped ==
    ASSUME Typed, Correlated, NEW a \in Asks, Ask(a)
    PROVE  Typed' /\ Correlated'
<1>1. Prompt("request", a) \in Told
  BY LinesTyped
<1>2. toClient' \in Seq(Told)
  <2>1. <<Prompt("request", a)>> \in Seq(Told) /\ toClient \in Seq(Told)
    BY <1>1 DEF Typed, Pipes
  <2> QED BY <2>1, Joined DEF Ask, Says
<1>3. server' \in Servers
  <2>1. server \in Servers /\ server' = [server EXCEPT !.asks = @ \cup {a}]
    BY DEF Ask, Typed, Thread
  <2>2. server.asks \cup {a} \in SUBSET Asks
    BY <2>1 DEF Servers
  <2> QED BY <2>1, <2>2 DEF Servers
<1>4. Thread' /\ Runs' /\ Prompts' /\ Rest' /\ Bounds' /\ Pipes'
  BY <1>2, <1>3 DEF Ask, Typed, Thread, Runs, Prompts, Rest, Bounds, Pipes, prompting
<1>5. Correlated'
  <2>1. \A d \in Callers : got'[d] = got[d] /\ (Waiting(d) => Waiting(d)')
    BY DEF Ask, Waiting
  <2>2. pending' = pending
    BY DEF Ask
  <2> HIDE DEF Correlated
  <2> QED BY <2>1, <2>2, CorrelatedSame
<1> QED BY <1>4, <1>5 DEF Typed

EndsTurn(u, o) ==
    /\ u \in Calls /\ server.turn = u /\ o \in Ends /\ server' = Idle
    /\ ended' = [ended EXCEPT ![u] = o]
    /\ toClient' = toClient \o (Resolved(server.asks) \o <<Note(o, u)>>)
    /\ UNCHANGED <<toServer, pending, got, task, session, prompting, call, settled, stop, bounds, draining>>

LEMMA EndTurnTyped ==
    ASSUME Typed, Correlated, EndTurn
    PROVE  Typed' /\ Correlated' /\ \E u \in Calls, o \in Ends : EndsTurn(u, o)
<1>1. server \in Servers /\ ended \in [Calls -> Ends \cup {"no"}] /\ toClient \in Seq(Told)
  BY DEF Typed, Pipes, Thread
<1>2. server.turn \in Calls /\ server.asks \in SUBSET Asks
  BY <1>1 DEF EndTurn, Servers
<1>3. PICK u \in Calls, o \in Ends : EndsTurn(u, o)
  BY <1>2 DEF EndTurn, EndsTurn, Ends, Says
<1>4. toClient' \in Seq(Told)
  <2>1. Resolved(server.asks) \in Seq(Told) /\ <<Note(o, u)>> \in Seq(Told)
    <3>1. Note(o, u) \in Told
      BY LinesTyped
    <3> QED BY <1>2, <3>1, ResolvedTyped
  <2>2. Resolved(server.asks) \o <<Note(o, u)>> \in Seq(Told)
    BY <2>1, Joined
  <2> QED BY <1>1, <1>3, <2>2, Joined DEF EndsTurn
<1>5. server' \in Servers /\ ended' \in [Calls -> Ends \cup {"no"}]
  BY <1>1, <1>3 DEF EndsTurn, Idle, Servers
<1>6. Thread' /\ Runs' /\ Prompts' /\ Rest' /\ Bounds' /\ Pipes'
  BY <1>3, <1>4, <1>5 DEF EndsTurn, Typed, Thread, Runs, Prompts, Rest, Bounds, Pipes, prompting, bounds, counters
<1>7. Correlated'
  <2>1. \A d \in Callers : got'[d] = got[d] /\ (Waiting(d) => Waiting(d)')
    BY <1>3 DEF EndsTurn, Waiting
  <2>2. pending' = pending
    BY <1>3 DEF EndsTurn
  <2> HIDE DEF Correlated
  <2> QED BY <2>1, <2>2, CorrelatedSame
<1> QED BY <1>3, <1>6, <1>7 DEF Typed

LEMMA LostTyped ==
    ASSUME Typed, Correlated, Lost
    PROVE  Typed' /\ Correlated'
<1>1. /\ IsTask(task) /\ settled \in [Calls -> Results] /\ stop \in [Stops -> StopRecords] /\ call \in [Calls -> CallRecords]
      /\ server \in Servers
  BY DEF Typed, Rest, Runs, Thread
<1>2. Pipes'
  BY DEF Lost, Pipes
<1>3. Thread' /\ Prompts' /\ Bounds'
  <2>1. losses \in 0..MaxLosses /\ losses < MaxLosses /\ losses' = losses + 1
    BY DEF Lost, Typed, Bounds
  <2>2. losses' \in 0..MaxLosses
    BY <2>1, Constants
  <2>3. dropped' \in BOOLEAN /\ up' \in BOOLEAN /\ draining' \in BOOLEAN
    BY DEF Lost, Typed, Bounds
  <2>4. Bounds'
    BY <2>2, <2>3 DEF Lost, Typed, Bounds
  <2>5. Thread' /\ Prompts'
    BY DEF Lost, Typed, Thread, Prompts, Servers, Idle
  <2> QED BY <2>4, <2>5
<1>4. call' \in [Calls -> CallRecords]
  <2>1. ASSUME NEW r \in Calls PROVE call'[r] \in CallRecords
    <3>1. call[r] \in CallRecords
      BY <1>1
    <3>2. PICK p \in CallPhases : p = IF call[r].phase \in {"reading", "starting", "cutting"} THEN "failed" ELSE call[r].phase
      BY <3>1 DEF CallRecords, CallPhases
    <3>3. call'[r] = [call[r] EXCEPT !.phase = p]
      BY <3>1, <3>2 DEF Lost
    <3> QED BY <3>1, <3>3 DEF CallRecords
  <2> QED BY <2>1 DEF Lost
<1>5. stop' \in [Stops -> StopRecords]
  <2>1. ASSUME NEW q \in Stops PROVE stop'[q] \in StopRecords
    <3>1. stop[q] \in StopRecords
      BY <1>1
    <3>2. PICK p \in StopPhases : p = IF stop[q].phase \in {"idle", "done"} THEN stop[q].phase ELSE "failed"
      BY <3>1 DEF StopRecords, StopPhases
    <3>3. stop'[q] = [stop[q] EXCEPT !.phase = p]
      BY <3>1, <3>2 DEF Lost
    <3> QED BY <3>1, <3>3 DEF StopRecords
  <2> QED BY <2>1 DEF Lost
<1>6. settled' \in [Calls -> Results]
  <2>1. CASE task # NoTask
    <3>1. task.call \in Calls /\ Settle(task.call, "failed")
      BY <1>1, <2>1 DEF Lost, IsTask, TaskRecords
    <3> QED BY <1>1, <3>1, SettleTyped DEF Results
  <2>2. CASE task = NoTask
    BY <1>1, <2>2 DEF Lost
  <2> QED BY <2>1, <2>2
<1>7. Runs' /\ Rest'
  BY <1>4, <1>5, <1>6, TaskUpdates, SessionsTyped DEF Lost, Typed, Runs, Rest
<1>8. Correlated'
  <2>1. \A c \in Callers : got'[c] = NoReply
    BY DEF Lost, Quiet
  <2>2. pending' = <<>>
    BY DEF Lost
  <2> QED BY <2>1, <2>2 DEF Correlated, InFlight
<1> QED BY <1>2, <1>3, <1>7, <1>8 DEF Typed
-----------------------------------------------------------------------------
LEMMA TypedInit ==
    ASSUME Init
    PROVE  Typed /\ Correlated
<1>1. Pipes
  BY DEF Init, Pipes
<1>2. Thread
  BY DEF Init, Thread, Servers, Idle
<1>3. Runs
  BY DEF Init, Runs, CallRecords, CallPhases, Results
<1>4. Prompts
  BY DEF Init, Prompts
<1>5. Bounds
  <2>1. interrupts \in 0..MaxInterrupts /\ resumes \in 0..MaxResumes /\ timeouts \in 0..MaxTimeouts /\ losses \in 0..MaxLosses
    BY Constants DEF Init
  <2>2. draining \in BOOLEAN /\ dropped \in BOOLEAN /\ up \in BOOLEAN
    BY DEF Init
  <2> QED BY <2>1, <2>2 DEF Bounds
<1>6. Rest
  BY AnswersTyped, TaskUpdates, SessionsTyped DEF Init, Rest, StopRecords, StopPhases
<1>7. Correlated
  BY DEF Init, Correlated, InFlight
<1> QED BY <1>1, <1>2, <1>3, <1>4, <1>5, <1>6, <1>7 DEF Typed

(* A step is one of these.                                                   *)
Moves ==
    \/ \E r \in Calls : RunMoves(r)
    \/ Aside
    \/ TimeOut
    \/ \E m \in Told : Takes(m) /\ (TakesReply(m) \/ TakesEnd(m) \/ TakesOther(m))
    \/ \E m \in Sent, s \in Seq(Told) :
         Serves(m, s) /\ (ServesStart(m, s) \/ ServesReply(m, s) \/ ServesAnswer(m, s) \/ ServesNothing(m, s))
    \/ \E a \in Asks : Ask(a)
    \/ \E u \in Calls, o \in Ends : EndsTurn(u, o)
    \/ Lost

LEMMA NextMoves ==
    ASSUME Typed, Correlated, Next
    PROVE  Typed' /\ Correlated' /\ Moves
<1>1. CASE Continue
  <2>1. draining' \in BOOLEAN
    BY <1>1 DEF Continue, Drains
  <2>2. ASSUME NEW r \in Calls, RunRead(r) \/ Opened(r) \/ RunStarted(r) \/ RunCut(r)
        PROVE  Typed' /\ Correlated' /\ RunMoves(r)
    BY <2>1, <2>2, ReadTyped, OpenedTyped, StartedTyped, CutTyped
  <2>3. ASSUME NEW q \in Stops, StopStep(q) PROVE Typed' /\ Correlated' /\ Aside
    BY <2>1, <2>3, StopStepTyped
  <2>4. CASE ResumeAnswered
    BY <2>1, <2>4, ResumeAnsweredTyped DEF Moves
  <2> QED BY <1>1, <2>2, <2>3, <2>4 DEF Continue, Moves
<1>2. CASE Dispatch
  BY <1>2, DispatchTyped DEF Moves
<1>3. CASE Application
  <2>1. ASSUME NEW r \in Calls, Run(r) PROVE Typed' /\ Correlated' /\ RunMoves(r)
    BY <2>1, RunTyped
  <2>2. ASSUME NEW q \in Stops, Quiesce(q) PROVE Typed' /\ Correlated' /\ Aside
    BY <2>2, QuiesceTyped
  <2>3. ASSUME NEW a \in Asks, Respond(a) PROVE Typed' /\ Correlated' /\ Aside
    BY <2>3, RespondTyped
  <2>4. CASE Interrupt \/ Retire \/ Resume
    BY <2>4, InterruptTyped, RetireTyped, ResumeTyped DEF Moves
  <2> QED BY <1>3, <2>1, <2>2, <2>3, <2>4 DEF Application, Moves
<1>4. CASE Timers
  <2>1. CASE Expire
    BY <2>1, ExpireTyped DEF Moves
  <2>2. CASE TimeOut
    BY <2>2, TimeOutTyped DEF Moves
  <2>3. ASSUME NEW q \in Stops, StopTimesOut(q) PROVE Typed' /\ Correlated' /\ Aside
    BY <2>3, StopTimesOutTyped
  <2>4. ASSUME NEW a \in Asks, AutoDecline(a) PROVE Typed' /\ Correlated' /\ Aside
    BY <2>4, AutoDeclineTyped
  <2> QED BY <1>4, <2>1, <2>2, <2>3, <2>4 DEF Timers, Moves
<1>5. CASE Server
  <2>1. CASE Serve
    BY <2>1, ServeTyped DEF Moves
  <2>2. CASE EndTurn
    BY <2>2, EndTurnTyped DEF Moves
  <2>3. ASSUME NEW a \in Asks, Ask(a) PROVE Typed' /\ Correlated'
    BY <2>3, AskTyped
  <2> QED BY <1>5, <2>1, <2>2, <2>3 DEF Server, Moves
<1>6. CASE Lost
  BY <1>6, LostTyped DEF Moves
<1> QED BY <1>1, <1>2, <1>3, <1>4, <1>5, <1>6 DEF Next

LEMMA StutterTyped ==
    ASSUME Typed, Correlated, UNCHANGED vars
    PROVE  Typed' /\ Correlated'
<1>1. Typed'
  BY DEF vars, Typed, Thread, Runs, Prompts, Rest, Bounds, Pipes, pipes, prompting, bounds, counters
<1>2. Correlated'
  BY DEF vars, pipes, Correlated, InFlight, Waiting
<1> QED BY <1>1, <1>2

LEMMA WiderSeq ==
    ASSUME NEW S, NEW T, S \subseteq T, NEW s \in Seq(S)
    PROVE  s \in Seq(T)
OBVIOUS

(* The state is well-formed, whatever the number of runs, quiesce() calls    *)
(* and prompts (codex.mjs, runtime.mjs): no caller has two requests in       *)
(* flight, and the clock of a turn is stopped exactly while it is waiting    *)
(* for a human.                                                              *)
THEOREM TypesCorrect == Spec => []TypeOK
<1>1. Init => Typed /\ Correlated
  BY TypedInit
<1>2. Typed /\ Correlated /\ [Next]_vars => (Typed /\ Correlated)'
  BY NextMoves, StutterTyped
<1>3. Typed /\ Correlated => TypeOK
  <2> HAVE Typed /\ Correlated
  <2>1. Sent \subseteq Lines
    <3> SUFFICES ASSUME NEW m \in Sent PROVE m \in Lines
      OBVIOUS
    <3>1. m \in [method : Methods, caller : Callers \cup {None}, turn : Calls \cup {None}] \/ m \in [method : {"answer", "decline"}, ask : Asks]
      BY DEF Sent
    <3> QED BY <3>1 DEF Lines, Methods
  <2>2. Told \subseteq Replies \cup Notes
    <3> SUFFICES ASSUME NEW m \in Told PROVE m \in Replies \cup Notes
      OBVIOUS
    <3>1. CASE m \in [method : {"reply"}, caller : Callers \cup {None}, error : {None, "gone", "rejected"}, turn : Calls \cup {None}]
      BY <3>1 DEF Replies
    <3>2. CASE m \in [method : {"turn/started"} \cup Ends, turn : Calls]
      BY <3>2 DEF Notes, Ends
    <3>3. CASE m \in [method : {"request", "serverRequest/resolved"}, ask : Asks]
      BY <3>3 DEF Notes
    <3> QED BY <3>1, <3>2, <3>3 DEF Told
  <2>3. toServer \in Seq(Lines) /\ toClient \in Seq(Replies \cup Notes) /\ pending \in Seq(Callers)
    <3>1. toServer \in Seq(Sent) /\ toClient \in Seq(Told) /\ pending \in Seq(Callers)
      BY DEF Typed, Pipes
    <3>2. toServer \in Seq(Lines)
      BY <2>1, <3>1, WiderSeq
    <3>3. toClient \in Seq(Replies \cup Notes)
      BY <2>2, <3>1, WiderSeq
    <3> QED BY <3>1, <3>2, <3>3
  <2>4. IsInjective(pending)
    BY DEF Correlated, IsInjective
  <2> QED BY <2>3, <2>4 DEF TypeOK, Typed, Thread, Runs, Prompts, Rest, Bounds, Servers, Ends, IsTask, TaskRecords,
                            Sessions, CallRecords, CallPhases, Results, StopRecords, StopPhases
<1> QED BY <1>1, <1>2, <1>3, PTL DEF Spec
-----------------------------------------------------------------------------
(* What is on the wire. A run has at most one line in the two pipes, and     *)
(* none unless it awaits it or has given it up (OneLine); the line says      *)
(* where the run is (Matches); a turn has begun only for a run that asked    *)
(* for it (Begun); and a run that is refused has no turn (Faults).           *)
IsStart(m, r) == m.method = "turn/start" /\ m.caller = r
IsRead(m, r) == m.method = "thread/read" /\ m.caller = r
IsCut(m, r) == m.method = "turn/interrupt" /\ m.caller = r
IsReply(m, r) == m.method = "reply" /\ m.caller = r
IsEnd(m, r) == m.method \in Ends /\ m.turn = r
Resolves(m, a) == m.method = "serverRequest/resolved" /\ m.ask = a
Asking(r) == \E i \in DOMAIN toServer : From(toServer[i], r)
Replied(r) == \E j \in DOMAIN toClient : IsReply(toClient[j], r)
EndNoted(r) == \E k \in DOMAIN toClient : IsEnd(toClient[k], r)
Refused(m) == m.error \notin {None, "late"}

OneLine(r) ==
    /\ \A i, j \in DOMAIN toServer : From(toServer[i], r) /\ From(toServer[j], r) => i = j
    /\ \A i, j \in DOMAIN toClient : IsReply(toClient[i], r) /\ IsReply(toClient[j], r) => i = j
    /\ ~(Asking(r) /\ Replied(r))
    /\ Asking(r) \/ Replied(r) => call[r].phase \in {"reading", "starting", "cutting", "failed"} /\ ~Heard(r)
Matches(r) == \A i \in DOMAIN toServer : From(toServer[i], r) =>
    \/ IsRead(toServer[i], r) /\ call[r].phase \in {"reading", "failed"}
    \/ IsStart(toServer[i], r) /\ call[r].phase \in {"starting", "failed"} /\ server.turn # r /\ ended[r] = "no"
    \/ IsCut(toServer[i], r) /\ call[r].phase \in {"cutting", "failed"} /\ toServer[i].turn = r
Begun(r) ==
    /\ server.turn = r \/ EndNoted(r) => call[r].phase \in {"starting", "cutting", "awaiting", "failed"}
    /\ ended[r] # "no" => call[r].phase \in {"starting", "cutting", "awaiting", "failed", "fresh"}
    /\ server.turn = r => ended[r] = "no"
    /\ \A k \in DOMAIN toClient : IsEnd(toClient[k], r) => ended[r] = toClient[k].method
    /\ \A j, k \in DOMAIN toClient : IsEnd(toClient[j], r) /\ IsEnd(toClient[k], r) => j = k
Faults(r) ==
    /\ call[r].phase = "starting" =>
         /\ \A j \in DOMAIN toClient : IsReply(toClient[j], r) /\ toClient[j].error # None => server.turn # r /\ ended[r] = "no"
         /\ got[r] # NoReply /\ Refused(got[r]) => server.turn # r /\ ended[r] = "no"
    /\ call[r].phase = "cutting" =>
         /\ \A j \in DOMAIN toClient : IsReply(toClient[j], r) /\ toClient[j].error # None =>
              server.turn # r /\ \A k \in DOMAIN toClient : IsEnd(toClient[k], r) => k < j
         /\ got[r] # NoReply /\ Refused(got[r]) => server.turn # r /\ ~EndNoted(r)
WireOf(r) == OneLine(r) /\ Matches(r) /\ Begun(r) /\ Faults(r)
Wire == \A r \in Calls : WireOf(r)

(* Pipes that shrink and grow.                                               *)
LEMMA Shifted ==
    ASSUME NEW S, NEW s \in Seq(S), s # <<>>, NEW t, t = Tail(s)
    PROVE  /\ Head(s) = s[1] /\ 1 \in DOMAIN s /\ DOMAIN s \subseteq Nat \ {0} /\ DOMAIN t \subseteq Nat \ {0}
           /\ \A i \in DOMAIN t : i + 1 \in DOMAIN s /\ t[i] = s[i + 1] /\ i + 1 # 1
           /\ \A i \in DOMAIN s : i = 1 \/ (i - 1 \in DOMAIN t /\ t[i - 1] = s[i])
OBVIOUS

LEMMA Grown ==
    ASSUME NEW S, NEW s \in Seq(S), NEW t \in Seq(S), NEW u, u = s \o t
    PROVE  /\ DOMAIN u \subseteq Nat /\ DOMAIN s \subseteq DOMAIN u /\ Len(s) \in Nat /\ DOMAIN t \subseteq Nat \ {0}
           /\ \A i \in DOMAIN s : u[i] = s[i] /\ i <= Len(s)
           /\ \A i \in DOMAIN u : \/ i \in DOMAIN s
                                  \/ i > Len(s) /\ i - Len(s) \in DOMAIN t /\ u[i] = t[i - Len(s)]
           /\ \A i \in DOMAIN t : Len(s) + i \in DOMAIN u /\ u[Len(s) + i] = t[i]
<1>1. /\ s \o t \in Seq(S) /\ Len(s \o t) = Len(s) + Len(t) /\ DOMAIN (s \o t) = 1..Len(s)+Len(t)
      /\ \A i \in DOMAIN s : (s \o t)[i] = s[i]
      /\ \A i \in 1..Len(t) : (s \o t)[Len(s) + i] = t[i]
      /\ DOMAIN s = 1..Len(s) /\ Len(s) \in Nat /\ DOMAIN t = 1..Len(t) /\ Len(t) \in Nat
  BY Joined
<1>2. ASSUME NEW i \in DOMAIN u PROVE \/ i \in DOMAIN s
                                      \/ i > Len(s) /\ i - Len(s) \in DOMAIN t /\ u[i] = t[i - Len(s)]
  <2>1. i \in 1..Len(s)+Len(t)
    BY <1>1
  <2>2. CASE i > Len(s)
    <3>1. i - Len(s) \in 1..Len(t) /\ Len(s) + (i - Len(s)) = i
      BY <1>1, <2>1, <2>2
    <3>2. (s \o t)[Len(s) + (i - Len(s))] = t[i - Len(s)]
      BY <1>1, <3>1
    <3> QED BY <1>1, <2>2, <3>1, <3>2
  <2>3. CASE ~(i > Len(s))
    BY <1>1, <2>1, <2>3
  <2> QED BY <2>2, <2>3
<1> QED BY <1>1, <1>2

LEMMA SilentLines ==
    ASSUME Typed, Silent
    PROVE  /\ toClient' = toClient
           /\ \A i \in DOMAIN toServer : i \in DOMAIN toServer' /\ toServer'[i] = toServer[i]
           /\ \A i \in DOMAIN toServer' : \/ i \in DOMAIN toServer /\ toServer'[i] = toServer[i]
                                          \/ \A r \in Calls : ~From(toServer'[i], r)
<1>1. CASE toServer' = toServer
  BY <1>1 DEF Silent
<1>2. ASSUME NEW m \in Sent, Foreign(m), toServer' = Append(toServer, m)
      PROVE  /\ \A i \in DOMAIN toServer : i \in DOMAIN toServer' /\ toServer'[i] = toServer[i]
             /\ \A i \in DOMAIN toServer' : \/ i \in DOMAIN toServer /\ toServer'[i] = toServer[i]
                                            \/ \A r \in Calls : ~From(toServer'[i], r)
  <2>1. toServer \in Seq(Sent)
    BY DEF Typed, Pipes
  <2>2. /\ DOMAIN Append(toServer, m) = 1..Len(toServer)+1
        /\ \A i \in DOMAIN toServer : Append(toServer, m)[i] = toServer[i]
        /\ Append(toServer, m)[Len(toServer) + 1] = m
        /\ DOMAIN toServer = 1..Len(toServer) /\ Len(toServer) \in Nat
    BY <2>1, Appended
  <2>3. \A i \in DOMAIN toServer' : i \in DOMAIN toServer \/ i = Len(toServer) + 1
    BY <1>2, <2>2
  <2>4. \A i \in DOMAIN toServer : i \in DOMAIN toServer'
    BY <1>2, <2>2
  <2> QED BY <1>2, <2>2, <2>3, <2>4 DEF Foreign
<1> QED BY <1>1, <1>2 DEF Silent

(* A run that does not move, and whose lines and turn stay as they are.      *)
LEMMA WireSame ==
    ASSUME NEW r \in Calls, WireOf(r), toClient' = toClient,
           \A i \in DOMAIN toServer' : From(toServer'[i], r) => i \in DOMAIN toServer /\ toServer'[i] = toServer[i],
           UNCHANGED <<server, ended>>, call'[r] = call[r],
           got'[r] = got[r] \/ (got[r] = NoReply /\ got'[r].error = "late")
    PROVE  WireOf(r)'
<1>1. Asking(r)' => Asking(r)
  BY DEF Asking
<1>2. (Replied(r)' <=> Replied(r)) /\ (EndNoted(r)' <=> EndNoted(r))
  BY DEF Replied, EndNoted
<1>3. Heard(r)' => Heard(r)
  BY DEF Heard
<1>4. OneLine(r)'
  BY <1>1, <1>2, <1>3 DEF WireOf, OneLine
<1>5. Matches(r)'
  BY DEF WireOf, Matches
<1>6. Begun(r)'
  BY <1>2 DEF WireOf, Begun
<1>7. got'[r] # NoReply /\ Refused(got'[r]) => got[r] # NoReply /\ got[r] = got'[r]
  BY DEF Refused
<1>8. Faults(r)'
  BY <1>2, <1>7 DEF WireOf, Faults
<1> QED BY <1>4, <1>5, <1>6, <1>8 DEF WireOf

LEMMA CallPhaseTyped ==
    ASSUME Typed, NEW r \in Calls
    PROVE  call[r].phase \in CallPhases /\ r \in Callers /\ ended[r] \in Ends \cup {"no"}
BY Names DEF Typed, Runs, CallRecords, Thread

(* The run that moves without asking the server anything.                    *)
LEMMA WireMute ==
    ASSUME Typed, Wire, NEW r \in Calls, Stays(r), Mute, RunOpens(r) \/ RunRests(r) \/ RunAbandons(r)
    PROVE  Wire'
<1>1. /\ UNCHANGED <<server, ended, toClient>> /\ got'[r] = NoReply
      /\ \A x \in Calls \ {r} : call'[x] = call[x] /\ got'[x] = got[x]
  BY Names DEF Stays
<1>2. \A i \in DOMAIN toServer' : \/ i \in DOMAIN toServer /\ toServer'[i] = toServer[i]
                                  \/ \A x \in Calls : ~From(toServer'[i], x)
  BY SilentLines DEF Mute
<1>3. ASSUME NEW x \in Calls \ {r} PROVE WireOf(x)'
  <2>1. WireOf(x) /\ call'[x] = call[x] /\ got'[x] = got[x]
    BY <1>1 DEF Wire
  <2>2. \A i \in DOMAIN toServer' : From(toServer'[i], x) => i \in DOMAIN toServer /\ toServer'[i] = toServer[i]
    BY <1>2
  <2> QED BY <1>1, <2>1, <2>2, WireSame
<1>4. WireOf(r)'
  <2>1. WireOf(r)
    BY DEF Wire
  <2>2. (Asking(r)' => Asking(r)) /\ (Replied(r)' <=> Replied(r))
    BY <1>1, <1>2 DEF Asking, Replied
  <2>3. ~Heard(r)'
    BY <1>1 DEF Heard
  <2>4. Asking(r) \/ Replied(r) => call'[r].phase = "failed"
    <3> SUFFICES ASSUME Asking(r) \/ Replied(r) PROVE call'[r].phase = "failed"
      OBVIOUS
    <3>1. call[r].phase \in {"reading", "starting", "cutting", "failed"} /\ ~Heard(r)
      BY <2>1 DEF WireOf, OneLine
    <3>2. ~RunOpens(r)
      BY <3>1 DEF RunOpens, Heard, Ok, None
    <3> QED BY <3>1, <3>2 DEF RunRests, RunAbandons
  <2>5. OneLine(r)'
    BY <1>1, <1>2, <2>1, <2>2, <2>3, <2>4 DEF WireOf, OneLine
  <2>6. Matches(r)'
    <3> SUFFICES ASSUME NEW i \in DOMAIN toServer', From(toServer'[i], r)
                 PROVE  \/ IsRead(toServer'[i], r) /\ call'[r].phase \in {"reading", "failed"}
                        \/ IsStart(toServer'[i], r) /\ call'[r].phase \in {"starting", "failed"} /\ server'.turn # r /\ ended'[r] = "no"
                        \/ IsCut(toServer'[i], r) /\ call'[r].phase \in {"cutting", "failed"} /\ toServer'[i].turn = r
      BY DEF Matches
    <3>1. i \in DOMAIN toServer /\ toServer'[i] = toServer[i]
      BY <1>2
    <3>2. call'[r].phase = "failed"
      BY <2>4, <3>1 DEF Asking
    <3> QED BY <1>1, <2>1, <3>1, <3>2 DEF WireOf, Matches
  <2>7. Begun(r)'
    <3>1. ended'[r] # "no" => call'[r].phase \in {"starting", "cutting", "awaiting", "failed", "fresh"}
      <4> SUFFICES ASSUME ended[r] # "no" PROVE call'[r].phase \in {"starting", "cutting", "awaiting", "failed", "fresh"}
        BY <1>1
      <4>1. call[r].phase \in {"starting", "cutting", "awaiting", "failed", "fresh"}
        BY <2>1 DEF WireOf, Begun
      <4>2. CASE RunOpens(r)
        BY <4>1, <4>2 DEF RunOpens
      <4>3. CASE RunRests(r)
        BY <4>1, <4>3 DEF RunRests
      <4>4. CASE RunAbandons(r)
        BY <4>4 DEF RunAbandons
      <4> QED BY <4>2, <4>3, <4>4
    <3>2. server'.turn = r \/ EndNoted(r)' => call'[r].phase \in {"starting", "cutting", "awaiting", "failed"}
      <4> SUFFICES ASSUME server.turn = r \/ EndNoted(r) PROVE call'[r].phase \in {"starting", "cutting", "awaiting", "failed"}
        BY <1>1 DEF EndNoted
      <4>1. call[r].phase \in {"starting", "cutting", "awaiting", "failed"} /\ (server.turn = r => ended[r] = "no") /\ (EndNoted(r) => ended[r] # "no")
        BY <2>1 DEF WireOf, Begun, EndNoted, IsEnd, Ends
      <4>2. CASE RunOpens(r)
        BY <4>1, <4>2 DEF RunOpens
      <4>3. CASE RunRests(r)
        BY <4>1, <4>3 DEF RunRests
      <4>4. CASE RunAbandons(r)
        <5>1. ~(call[r].phase \in {"starting", "cutting"} /\ Heard(r))
          <6> SUFFICES ASSUME call[r].phase \in {"starting", "cutting"}, Heard(r) PROVE FALSE
            OBVIOUS
          <6>1. got[r] # NoReply /\ Refused(got[r])
            BY <4>4 DEF RunAbandons, Heard, Refused, Ok
          <6> QED BY <2>1, <4>1, <6>1 DEF WireOf, Faults
        <5> QED BY <4>4, <5>1 DEF RunAbandons
      <4> QED BY <4>2, <4>3, <4>4
    <3> QED BY <1>1, <2>1, <3>1, <3>2 DEF WireOf, Begun
  <2>8. Faults(r)'
    <3>1. call'[r].phase \notin {"starting", "cutting"}
      BY DEF RunOpens, RunRests, RunAbandons
    <3> QED BY <3>1 DEF Faults
  <2> QED BY <2>5, <2>6, <2>7, <2>8 DEF WireOf
<1> QED BY <1>3, <1>4 DEF Wire

(* The run that sends a request.                                             *)
LEMMA WireSpeaks ==
    ASSUME Typed, Correlated, Wire, NEW r \in Calls, Stays(r), RunReads(r) \/ RunStarts(r) \/ RunCuts(r)
    PROVE  Wire'
<1>1. /\ UNCHANGED <<server, ended, toClient>> /\ got'[r] = NoReply
      /\ \A x \in Calls \ {r} : call'[x] = call[x] /\ got'[x] = got[x]
  BY Names DEF Stays
<1>2. PICK m \in Sent : /\ toServer' = Append(toServer, m) /\ m.caller = r /\ m.method \notin {"answer", "decline"}
                        /\ \/ RunReads(r) /\ m.method = "thread/read"
                           \/ RunStarts(r) /\ m.method = "turn/start"
                           \/ RunCuts(r) /\ m.method = "turn/interrupt" /\ m.turn = r
  <2>1. r \in Callers
    BY Names
  <2>2. CASE RunReads(r)
    <3>1. /\ Request("thread/read", r, None) \in Sent /\ Request("thread/read", r, None).method = "thread/read"
          /\ Request("thread/read", r, None).caller = r
      BY <2>1, LinesTyped DEF Methods
    <3> QED BY <2>2, <3>1 DEF RunReads, Says1
  <2>3. CASE RunStarts(r)
    <3>1. /\ Request("turn/start", r, None) \in Sent /\ Request("turn/start", r, None).method = "turn/start"
          /\ Request("turn/start", r, None).caller = r
      BY <2>1, LinesTyped DEF Methods
    <3> QED BY <2>3, <3>1 DEF RunStarts, Says1
  <2>4. CASE RunCuts(r)
    <3>1. /\ Request("turn/interrupt", r, r) \in Sent /\ Request("turn/interrupt", r, r).method = "turn/interrupt"
          /\ Request("turn/interrupt", r, r).caller = r /\ Request("turn/interrupt", r, r).turn = r
      BY <2>1, LinesTyped DEF Methods
    <3> QED BY <2>4, <3>1 DEF RunCuts, Says1
  <2> QED BY <2>2, <2>3, <2>4
<1>3. /\ \A i \in DOMAIN toServer : toServer'[i] = toServer[i]
      /\ \A i \in DOMAIN toServer' : i \in DOMAIN toServer \/ i = Len(toServer) + 1
      /\ toServer'[Len(toServer) + 1] = m /\ Len(toServer) + 1 \in DOMAIN toServer'
  <2>1. toServer \in Seq(Sent)
    BY DEF Typed, Pipes
  <2>2. /\ Len(Append(toServer, m)) = Len(toServer) + 1 /\ DOMAIN Append(toServer, m) = 1..Len(toServer)+1
        /\ \A i \in DOMAIN toServer : Append(toServer, m)[i] = toServer[i]
        /\ Append(toServer, m)[Len(toServer) + 1] = m
        /\ DOMAIN toServer = 1..Len(toServer) /\ Len(toServer) \in Nat
    BY <2>1, Appended
  <2> QED BY <1>2, <2>2
<1>4. ASSUME NEW x \in Calls \ {r} PROVE WireOf(x)'
  <2>1. WireOf(x) /\ call'[x] = call[x] /\ got'[x] = got[x]
    BY <1>1 DEF Wire
  <2>2. \A i \in DOMAIN toServer' : From(toServer'[i], x) => i \in DOMAIN toServer /\ toServer'[i] = toServer[i]
    BY <1>2, <1>3 DEF From
  <2> QED BY <1>1, <2>1, <2>2, WireSame
<1>5. WireOf(r)'
  <2>1. WireOf(r)
    BY DEF Wire
  <2>2. ~Asking(r) /\ ~Replied(r)
    BY <2>1 DEF WireOf, OneLine, RunReads, RunStarts, RunCuts, Heard, Ok, None
  <2>3. ~Replied(r)' /\ ~Heard(r)'
    BY <1>1, <2>2 DEF Replied, Heard
  <2>4. \A i \in DOMAIN toServer' : From(toServer'[i], r) => i = Len(toServer) + 1 /\ toServer'[i] = m
    BY <1>3, <2>2 DEF Asking
  <2>5. call'[r].phase \in {"reading", "starting", "cutting"}
    BY DEF RunReads, RunStarts, RunCuts
  <2>6. OneLine(r)'
    <3>1. \A i, j \in DOMAIN toServer' : From(toServer'[i], r) /\ From(toServer'[j], r) => i = j
      BY <2>4
    <3>2. \A i, j \in DOMAIN toClient' : IsReply(toClient'[i], r) /\ IsReply(toClient'[j], r) => i = j
      BY <2>3 DEF Replied
    <3> QED BY <2>3, <2>5, <3>1, <3>2 DEF OneLine
  <2>7. call[r].phase \notin {"starting", "cutting", "awaiting", "failed", "fresh"} => server.turn # r /\ ended[r] = "no"
    BY <2>1 DEF WireOf, Begun
  <2>8. Matches(r)'
    <3>1. \/ IsRead(m, r) /\ call'[r].phase = "reading"
          \/ IsStart(m, r) /\ call'[r].phase = "starting" /\ server.turn # r /\ ended[r] = "no"
          \/ IsCut(m, r) /\ call'[r].phase = "cutting" /\ m.turn = r
      BY <1>2, <2>7 DEF RunReads, RunStarts, RunCuts, IsRead, IsStart, IsCut
    <3> QED BY <1>1, <2>4, <3>1 DEF Matches
  <2>9. Begun(r)'
    <3>1. server.turn = r \/ EndNoted(r) \/ ended[r] # "no" => call'[r].phase \in {"starting", "cutting", "awaiting", "failed"}
      BY <2>1, <2>7 DEF RunReads, RunStarts, RunCuts, WireOf, Begun
    <3> QED BY <1>1, <2>1, <3>1 DEF WireOf, Begun, EndNoted
  <2>10. Faults(r)'
    BY <1>1, <2>3 DEF Faults, Replied
  <2> QED BY <2>6, <2>8, <2>9, <2>10 DEF WireOf
<1> QED BY <1>4, <1>5 DEF Wire

LEMMA WireRun ==
    ASSUME Typed, Correlated, Wire, NEW r \in Calls, RunMoves(r)
    PROVE  Wire'
<1>1. RunOpens(r) \/ RunRests(r) \/ RunAbandons(r) => Mute
  BY DEF RunOpens, RunRests, RunAbandons
<1> QED BY <1>1, WireMute, WireSpeaks DEF RunMoves

LEMMA WireAside ==
    ASSUME Typed, Wire, Aside
    PROVE  Wire'
<1>1. /\ UNCHANGED <<server, ended, toClient, call>> /\ \A x \in Calls : got'[x] = got[x]
  BY DEF Aside, Silent
<1>2. \A i \in DOMAIN toServer' : \/ i \in DOMAIN toServer /\ toServer'[i] = toServer[i]
                                  \/ \A x \in Calls : ~From(toServer'[i], x)
  BY SilentLines DEF Aside
<1>3. ASSUME NEW x \in Calls PROVE WireOf(x)'
  <2>1. WireOf(x) /\ call'[x] = call[x] /\ got'[x] = got[x]
    BY <1>1 DEF Wire
  <2>2. \A i \in DOMAIN toServer' : From(toServer'[i], x) => i \in DOMAIN toServer /\ toServer'[i] = toServer[i]
    BY <1>2
  <2> QED BY <1>1, <2>1, <2>2, WireSame
<1> QED BY <1>3 DEF Wire

(* What is left when the oldest request times out.                           *)
LEMMA TimeOutMoves ==
    ASSUME Typed, Correlated, TimeOut
    PROVE  /\ UNCHANGED <<toServer, toClient, server, ended, task, call, settled, prompts, dropped>>
           /\ \A c \in Callers : got[c] = NoReply
           /\ 1 \in DOMAIN pending /\ pending[1] \in Callers
           /\ got'[pending[1]].error = "late" /\ \A c \in Callers : c # pending[1] => got'[c] = NoReply
           /\ \A i \in DOMAIN pending' : i \in Nat /\ i + 1 \in DOMAIN pending /\ i + 1 > 1 /\ pending'[i] = pending[i + 1]
<1>1. /\ pending \in Seq(Callers) /\ pending # <<>> /\ got \in [Callers -> Replies] /\ pending' = Tail(pending)
      /\ \A c \in Callers : got[c] = NoReply
      /\ UNCHANGED <<toServer, toClient, server, ended, task, call, settled, prompts, dropped>>
  BY DEF Typed, Pipes, Rest, TimeOut, Quiet, prompting
<1>2. /\ Tail(pending) \in Seq(Callers) /\ DOMAIN Tail(pending) = 1..Len(pending)-1
      /\ \A i \in 1..Len(pending)-1 : Tail(pending)[i] = pending[i + 1]
      /\ Head(pending) = pending[1] /\ pending[1] \in Callers /\ 1 \in DOMAIN pending
      /\ DOMAIN pending = 1..Len(pending) /\ Len(pending) \in Nat
  BY <1>1, Tailed
<1>3. PICK c \in Callers : c = pending[1] /\ got' = [got EXCEPT ![c] = Fault(c, "late")]
  BY <1>2 DEF TimeOut
<1>4. got'[c].error = "late" /\ \A d \in Callers : d # c => got'[d] = NoReply
  BY <1>1, <1>3, AnswersTyped
<1>5. \A i \in DOMAIN pending' : i \in Nat /\ i + 1 \in DOMAIN pending /\ i + 1 > 1 /\ pending'[i] = pending[i + 1]
  BY <1>1, <1>2
<1> QED BY <1>1, <1>2, <1>3, <1>4, <1>5

LEMMA WireTimeOut ==
    ASSUME Typed, Correlated, Wire, TimeOut
    PROVE  Wire'
<1>1. /\ UNCHANGED <<toServer, toClient, server, ended, call>>
      /\ \A x \in Calls : got[x] = NoReply /\ (got'[x] = NoReply \/ got'[x].error = "late")
  BY TimeOutMoves, Names
<1>2. ASSUME NEW x \in Calls PROVE WireOf(x)'
  <2>1. WireOf(x) /\ call'[x] = call[x] /\ (got'[x] = got[x] \/ (got[x] = NoReply /\ got'[x].error = "late"))
    BY <1>1 DEF Wire
  <2> QED BY <1>1, <2>1, WireSame
<1> QED BY <1>2 DEF Wire

(* A line of the output is taken.                                            *)
LEMMA TakenLines ==
    ASSUME Typed, NEW m \in Told, Takes(m)
    PROVE  /\ UNCHANGED <<toServer, server, ended, call, dropped>>
           /\ toClient[1] = m /\ 1 \in DOMAIN toClient /\ DOMAIN toClient \subseteq Nat \ {0} /\ DOMAIN toClient' \subseteq Nat \ {0}
           /\ \A i \in DOMAIN toClient' : i + 1 \in DOMAIN toClient /\ toClient'[i] = toClient[i + 1] /\ i + 1 # 1
           /\ \A i \in DOMAIN toClient : i = 1 \/ (i - 1 \in DOMAIN toClient' /\ toClient'[i - 1] = toClient[i])
<1>1. toClient \in Seq(Told) /\ toClient # <<>> /\ toClient' = Tail(toClient)
  BY DEF Typed, Pipes, Takes
<1>2. /\ Head(toClient) = toClient[1] /\ 1 \in DOMAIN toClient /\ DOMAIN toClient \subseteq Nat \ {0} /\ DOMAIN toClient' \subseteq Nat \ {0}
      /\ \A i \in DOMAIN toClient' : i + 1 \in DOMAIN toClient /\ toClient'[i] = toClient[i + 1] /\ i + 1 # 1
      /\ \A i \in DOMAIN toClient : i = 1 \/ (i - 1 \in DOMAIN toClient' /\ toClient'[i - 1] = toClient[i])
  BY <1>1, Shifted
<1> QED BY <1>2 DEF Takes, bounds

(* The answer a run holds after that is the one it held, or the line.        *)
LEMMA TakenAnswers ==
    ASSUME Typed, Correlated, NEW m \in Told, Takes(m), TakesReply(m) \/ TakesEnd(m) \/ TakesOther(m), NEW x \in Callers
    PROVE  \/ got'[x] = got[x]
           \/ IsReply(m, x) /\ got'[x] = m /\ got[x] = NoReply /\ InFlight(x) /\ m.error # "late"
<1>1. got \in [Callers -> Replies]
  BY DEF Typed, Rest
<1>2. CASE UNCHANGED got
  BY <1>2
<1>3. CASE /\ m.method = "reply" /\ got' = [got EXCEPT ![m.caller] = m]
           /\ \E i \in DOMAIN pending : pending[i] = m.caller /\ pending' = RemoveAt(pending, i)
  <2>1. CASE x = m.caller
    <3>1. InFlight(x)
      BY <1>3, <2>1 DEF InFlight
    <3>2. got[x] = NoReply /\ got'[x] = m /\ m.error # "late"
      BY <1>1, <1>3, <2>1, <3>1, ToldKinds DEF Correlated
    <3> QED BY <1>3, <2>1, <3>1, <3>2 DEF IsReply
  <2>2. CASE x # m.caller
    BY <1>1, <1>3, <2>2
  <2> QED BY <2>1, <2>2
<1> QED BY <1>2, <1>3 DEF TakesReply, TakesEnd, TakesOther

LEMMA WireTakes ==
    ASSUME Typed, Correlated, Wire, NEW m \in Told, Takes(m), TakesReply(m) \/ TakesEnd(m) \/ TakesOther(m)
    PROVE  Wire'
<1>1. /\ UNCHANGED <<toServer, server, ended, call>>
      /\ toClient[1] = m /\ 1 \in DOMAIN toClient /\ DOMAIN toClient \subseteq Nat \ {0} /\ DOMAIN toClient' \subseteq Nat \ {0}
      /\ \A i \in DOMAIN toClient' : i + 1 \in DOMAIN toClient /\ toClient'[i] = toClient[i + 1] /\ i + 1 # 1
  BY TakenLines
<1>2. SUFFICES ASSUME NEW r \in Calls PROVE WireOf(r)'
  BY DEF Wire
<1>3. WireOf(r) /\ r \in Callers
  BY Names DEF Wire
<1>4. \/ got'[r] = got[r]
      \/ IsReply(m, r) /\ got'[r] = m /\ got[r] = NoReply /\ m.error # "late"
  BY <1>3, TakenAnswers
<1>5. (Asking(r)' <=> Asking(r)) /\ (Replied(r)' => Replied(r)) /\ (EndNoted(r)' => EndNoted(r))
  BY <1>1 DEF Asking, Replied, EndNoted
<1>6. IsReply(m, r) => ~Asking(r) /\ ~Replied(r)'
  <2> SUFFICES ASSUME IsReply(m, r) PROVE ~Asking(r) /\ ~Replied(r)'
    OBVIOUS
  <2>1. Replied(r)
    BY <1>1 DEF Replied
  <2>2. ~Asking(r)
    BY <1>3, <2>1 DEF WireOf, OneLine
  <2>3. ASSUME NEW j \in DOMAIN toClient', IsReply(toClient'[j], r) PROVE FALSE
    <3>1. j + 1 \in DOMAIN toClient /\ IsReply(toClient[j + 1], r) /\ j + 1 # 1
      BY <1>1, <2>3
    <3> QED BY <1>1, <1>3, <3>1 DEF WireOf, OneLine
  <2> QED BY <2>2, <2>3 DEF Replied
<1>7. OneLine(r)'
  <2>1. \A i, j \in DOMAIN toServer' : From(toServer'[i], r) /\ From(toServer'[j], r) => i = j
    BY <1>1, <1>3 DEF WireOf, OneLine
  <2>2. \A i, j \in DOMAIN toClient' : IsReply(toClient'[i], r) /\ IsReply(toClient'[j], r) => i = j
    <3> TAKE i, j \in DOMAIN toClient'
    <3> HAVE IsReply(toClient'[i], r) /\ IsReply(toClient'[j], r)
    <3>1. i + 1 = j + 1
      BY <1>1, <1>3 DEF WireOf, OneLine
    <3> QED BY <1>1, <3>1
  <2>3. ~(Asking(r)' /\ Replied(r)')
    BY <1>3, <1>5 DEF WireOf, OneLine
  <2>4. Asking(r)' \/ Replied(r)' => call'[r].phase \in {"reading", "starting", "cutting", "failed"} /\ ~Heard(r)'
    <3> SUFFICES ASSUME Asking(r)' \/ Replied(r)' PROVE call'[r].phase \in {"reading", "starting", "cutting", "failed"} /\ ~Heard(r)'
      OBVIOUS
    <3>1. call[r].phase \in {"reading", "starting", "cutting", "failed"} /\ ~Heard(r)
      BY <1>3, <1>5 DEF WireOf, OneLine
    <3>2. got'[r] = got[r]
      BY <1>4, <1>5, <1>6
    <3> QED BY <1>1, <3>1, <3>2 DEF Heard
  <2> QED BY <2>1, <2>2, <2>3, <2>4 DEF OneLine
<1>8. Matches(r)'
  BY <1>1, <1>3 DEF WireOf, Matches
<1>9. Begun(r)'
  <2>1. \A k \in DOMAIN toClient' : IsEnd(toClient'[k], r) => ended'[r] = toClient'[k].method
    BY <1>1, <1>3 DEF WireOf, Begun
  <2>2. \A j, k \in DOMAIN toClient' : IsEnd(toClient'[j], r) /\ IsEnd(toClient'[k], r) => j = k
    <3> TAKE j, k \in DOMAIN toClient'
    <3> HAVE IsEnd(toClient'[j], r) /\ IsEnd(toClient'[k], r)
    <3>1. j + 1 = k + 1
      BY <1>1, <1>3 DEF WireOf, Begun
    <3> QED BY <1>1, <3>1
  <2>3. EndNoted(r)' => EndNoted(r)
    BY <1>1 DEF EndNoted
  <2> QED BY <1>1, <1>3, <2>1, <2>2, <2>3 DEF WireOf, Begun
<1>10. Faults(r)'
  <2>1. ASSUME call[r].phase = "starting"
        PROVE  /\ \A j \in DOMAIN toClient' : IsReply(toClient'[j], r) /\ toClient'[j].error # None => server.turn # r /\ ended[r] = "no"
               /\ got'[r] # NoReply /\ Refused(got'[r]) => server.turn # r /\ ended[r] = "no"
    <3>1. \A j \in DOMAIN toClient : IsReply(toClient[j], r) /\ toClient[j].error # None => server.turn # r /\ ended[r] = "no"
      BY <1>3, <2>1 DEF WireOf, Faults
    <3>2. got'[r] # NoReply /\ Refused(got'[r]) => server.turn # r /\ ended[r] = "no"
      <4>1. CASE got'[r] = got[r]
        BY <1>3, <2>1, <4>1 DEF WireOf, Faults
      <4>2. CASE IsReply(m, r) /\ got'[r] = m
        BY <1>1, <3>1, <4>2 DEF Refused
      <4> QED BY <1>4, <4>1, <4>2
    <3> QED BY <1>1, <3>1, <3>2
  <2>2. ASSUME call[r].phase = "cutting"
        PROVE  /\ \A j \in DOMAIN toClient' : IsReply(toClient'[j], r) /\ toClient'[j].error # None =>
                    server.turn # r /\ \A k \in DOMAIN toClient' : IsEnd(toClient'[k], r) => k < j
               /\ got'[r] # NoReply /\ Refused(got'[r]) => server.turn # r /\ ~EndNoted(r)'
    <3>1. \A j \in DOMAIN toClient : IsReply(toClient[j], r) /\ toClient[j].error # None =>
            server.turn # r /\ \A k \in DOMAIN toClient : IsEnd(toClient[k], r) => k < j
      BY <1>3, <2>2 DEF WireOf, Faults
    <3>2. \A j \in DOMAIN toClient' : IsReply(toClient'[j], r) /\ toClient'[j].error # None =>
            server.turn # r /\ \A k \in DOMAIN toClient' : IsEnd(toClient'[k], r) => k < j
      <4> TAKE j \in DOMAIN toClient'
      <4> HAVE IsReply(toClient'[j], r) /\ toClient'[j].error # None
      <4>1. server.turn # r /\ \A k \in DOMAIN toClient : IsEnd(toClient[k], r) => k < j + 1
        BY <1>1, <3>1
      <4>2. ASSUME NEW k \in DOMAIN toClient', IsEnd(toClient'[k], r) PROVE k < j
        <5>1. k + 1 < j + 1 /\ k \in Nat /\ j \in Nat
          BY <1>1, <4>1, <4>2
        <5> QED BY <5>1
      <4> QED BY <4>1, <4>2
    <3>3. got'[r] # NoReply /\ Refused(got'[r]) => server.turn # r /\ ~EndNoted(r)'
      <4>1. CASE got'[r] = got[r]
        BY <1>3, <1>5, <2>2, <4>1 DEF WireOf, Faults
      <4>2. CASE IsReply(m, r) /\ got'[r] = m
        <5> SUFFICES ASSUME Refused(m) PROVE server.turn # r /\ ~EndNoted(r)
          BY <1>5, <4>2
        <5>1. server.turn # r /\ \A k \in DOMAIN toClient : IsEnd(toClient[k], r) => k < 1
          BY <1>1, <3>1, <4>2 DEF Refused
        <5>2. \A k \in DOMAIN toClient : ~(k < 1)
          BY <1>1
        <5> QED BY <5>1, <5>2 DEF EndNoted
      <4> QED BY <1>4, <4>1, <4>2
    <3> QED BY <1>1, <3>2, <3>3
  <2> QED BY <1>1, <2>1, <2>2 DEF Faults
<1> QED BY <1>7, <1>8, <1>9, <1>10 DEF WireOf

(* The server reads a line and says some.                                    *)
LEMMA ServedLines ==
    ASSUME Typed, NEW m \in Sent, NEW s \in Seq(Told), Serves(m, s)
    PROVE  /\ UNCHANGED <<pending, ended, got, task, call, settled, prompts, dropped>>
           /\ toServer[1] = m /\ 1 \in DOMAIN toServer /\ DOMAIN toServer \subseteq Nat \ {0} /\ DOMAIN toServer' \subseteq Nat \ {0}
           /\ \A i \in DOMAIN toServer' : i + 1 \in DOMAIN toServer /\ toServer'[i] = toServer[i + 1] /\ i + 1 # 1
           /\ \A i \in DOMAIN toServer : i = 1 \/ (i - 1 \in DOMAIN toServer' /\ toServer'[i - 1] = toServer[i])
<1>1. toServer \in Seq(Sent) /\ toServer # <<>> /\ toServer' = Tail(toServer) /\ m = Head(toServer)
  BY DEF Typed, Pipes, Serves
<1>2. /\ Head(toServer) = toServer[1] /\ 1 \in DOMAIN toServer /\ DOMAIN toServer \subseteq Nat \ {0} /\ DOMAIN toServer' \subseteq Nat \ {0}
      /\ \A i \in DOMAIN toServer' : i + 1 \in DOMAIN toServer /\ toServer'[i] = toServer[i + 1] /\ i + 1 # 1
      /\ \A i \in DOMAIN toServer : i = 1 \/ (i - 1 \in DOMAIN toServer' /\ toServer'[i - 1] = toServer[i])
  BY <1>1, Shifted
<1> QED BY <1>1, <1>2 DEF Serves, bounds, prompting

LEMMA SaidLines ==
    ASSUME Typed, NEW s \in Seq(Told), toClient' = toClient \o s
    PROVE  /\ DOMAIN toClient' \subseteq Nat /\ DOMAIN toClient \subseteq DOMAIN toClient' /\ Len(toClient) \in Nat /\ DOMAIN s \subseteq Nat \ {0}
           /\ \A i \in DOMAIN toClient : toClient'[i] = toClient[i] /\ i <= Len(toClient)
           /\ \A i \in DOMAIN toClient' : \/ i \in DOMAIN toClient
                                          \/ i > Len(toClient) /\ i - Len(toClient) \in DOMAIN s /\ toClient'[i] = s[i - Len(toClient)]
           /\ \A i \in DOMAIN s : Len(toClient) + i \in DOMAIN toClient' /\ toClient'[Len(toClient) + i] = s[i]
<1>1. toClient \in Seq(Told)
  BY DEF Typed, Pipes
<1> QED BY <1>1, Grown

(* What the server says, to whom and of whom.                                *)
LEMMA Sayings ==
    ASSUME Typed, NEW m \in Sent, NEW s \in Seq(Told),
           ServesStart(m, s) \/ ServesReply(m, s) \/ ServesAnswer(m, s) \/ ServesNothing(m, s)
    PROVE  /\ \A i \in DOMAIN s : s[i].method \notin Ends /\ s[i].method # "request"
           /\ \A r \in Calls, i \in DOMAIN s : IsReply(s[i], r) => From(m, r) /\ (ServesStart(m, s) => s[i].error = None)
           /\ \A i, j \in DOMAIN s : s[i].method = "reply" /\ s[j].method = "reply" => i = j
           /\ server'.turn = server.turn \/ (ServesStart(m, s) /\ server.turn = None /\ IsStart(m, server'.turn))
<1>1. CASE ServesStart(m, s)
  <2>1. m.caller \in Calls /\ m.caller \in Callers \cup {None}
    BY <1>1, SentKinds, Names DEF ServesStart
  <2>2. PICK p, n \in Told : p = Reply(m.caller, m.caller) /\ n = Note("turn/started", m.caller)
                             /\ p.method = "reply" /\ p.caller = m.caller /\ p.error = None /\ n.method = "turn/started"
    BY <2>1, LinesTyped
  <2>3. s = <<p, n>> \/ s = <<n, p>>
    BY <1>1, <2>2 DEF ServesStart
  <2>4. /\ DOMAIN s = {1, 2}
        /\ (s[1] = p /\ s[2] = n) \/ (s[1] = n /\ s[2] = p)
    BY <2>3
  <2>5. \A i \in DOMAIN s : s[i].method \notin Ends /\ s[i].method # "request"
    BY <2>2, <2>4 DEF Ends
  <2>6. \A r \in Calls, i \in DOMAIN s : IsReply(s[i], r) => From(m, r) /\ s[i].error = None
    BY <1>1, <2>2, <2>4 DEF IsReply, From, ServesStart
  <2>7. \A i, j \in DOMAIN s : s[i].method = "reply" /\ s[j].method = "reply" => i = j
    BY <2>2, <2>4
  <2>8. server.turn = None /\ IsStart(m, server'.turn)
    BY <1>1 DEF ServesStart, IsStart
  <2> QED BY <1>1, <2>5, <2>6, <2>7, <2>8
<1>2. CASE ServesReply(m, s)
  <2>1. PICK p \in Told : s = <<p>> /\ p.method = "reply" /\ p.caller = m.caller
    BY <1>2 DEF ServesReply
  <2>2. DOMAIN s = {1} /\ s[1] = p
    BY <2>1
  <2>3. ~ServesStart(m, s)
    <3>1. \A x, y : <<p>> # <<x, y>>
      OBVIOUS
    <3> QED BY <2>1, <3>1 DEF ServesStart
  <2>4. m.method \notin {"answer", "decline"} /\ server'.turn = server.turn
    BY <1>2 DEF ServesReply, Methods
  <2> QED BY <2>1, <2>2, <2>3, <2>4 DEF Ends, IsReply, From
<1>3. CASE ServesAnswer(m, s)
  <2>1. \A i \in DOMAIN s : s[i].method = "serverRequest/resolved"
    <3>1. {m.ask} \in SUBSET Asks
      BY <1>3, SentKinds DEF ServesAnswer
    <3>2. \A i \in DOMAIN Resolved({m.ask}) : Resolved({m.ask})[i].method = "serverRequest/resolved"
      BY <3>1, ResolvedTyped
    <3>3. s = Resolved({m.ask}) \/ s = <<>>
      BY <1>3 DEF ServesAnswer
    <3>4. DOMAIN <<>> = {}
      OBVIOUS
    <3>5. CASE s = <<>>
      BY <3>4, <3>5
    <3>6. CASE s = Resolved({m.ask})
      BY <3>2, <3>6
    <3> QED BY <3>3, <3>5, <3>6
  <2> QED BY <1>3, <2>1 DEF Ends, IsReply, ServesAnswer
<1>4. CASE ServesNothing(m, s)
  <2>1. DOMAIN s = {}
    BY <1>4 DEF ServesNothing
  <2> QED BY <1>4, <2>1 DEF ServesNothing
<1> QED BY <1>1, <1>2, <1>3, <1>4

LEMMA WireServes ==
    ASSUME Typed, Correlated, Wire, NEW m \in Sent, NEW s \in Seq(Told), Serves(m, s),
           ServesStart(m, s) \/ ServesReply(m, s) \/ ServesAnswer(m, s) \/ ServesNothing(m, s)
    PROVE  Wire'
<1>1. /\ UNCHANGED <<ended, got, call>>
      /\ toServer[1] = m /\ 1 \in DOMAIN toServer /\ DOMAIN toServer \subseteq Nat \ {0} /\ DOMAIN toServer' \subseteq Nat \ {0}
      /\ \A i \in DOMAIN toServer' : i + 1 \in DOMAIN toServer /\ toServer'[i] = toServer[i + 1] /\ i + 1 # 1
  BY ServedLines
<1>2. /\ DOMAIN toClient' \subseteq Nat /\ DOMAIN toClient \subseteq DOMAIN toClient' /\ Len(toClient) \in Nat /\ DOMAIN s \subseteq Nat \ {0}
      /\ \A i \in DOMAIN toClient : toClient'[i] = toClient[i] /\ i <= Len(toClient)
      /\ \A i \in DOMAIN toClient' : \/ i \in DOMAIN toClient
                                     \/ i > Len(toClient) /\ i - Len(toClient) \in DOMAIN s /\ toClient'[i] = s[i - Len(toClient)]
      /\ \A i \in DOMAIN s : Len(toClient) + i \in DOMAIN toClient' /\ toClient'[Len(toClient) + i] = s[i]
  BY SaidLines DEF Serves
<1>3. /\ \A i \in DOMAIN s : s[i].method \notin Ends /\ s[i].method # "request"
      /\ \A r \in Calls, i \in DOMAIN s : IsReply(s[i], r) => From(m, r) /\ (ServesStart(m, s) => s[i].error = None)
      /\ \A i, j \in DOMAIN s : s[i].method = "reply" /\ s[j].method = "reply" => i = j
      /\ server'.turn = server.turn \/ (ServesStart(m, s) /\ server.turn = None /\ IsStart(m, server'.turn))
  BY Sayings
<1>4. SUFFICES ASSUME NEW r \in Calls PROVE WireOf(r)'
  BY DEF Wire
<1>5. WireOf(r) /\ r # None
  BY Names DEF Wire
<1>6. From(m, r) => Asking(r) /\ ~Asking(r)' /\ ~Replied(r)
  <2> SUFFICES ASSUME From(m, r) PROVE Asking(r) /\ ~Asking(r)' /\ ~Replied(r)
    OBVIOUS
  <2>1. Asking(r)
    BY <1>1 DEF Asking
  <2>2. ASSUME NEW i \in DOMAIN toServer', From(toServer'[i], r) PROVE FALSE
    <3>1. i + 1 \in DOMAIN toServer /\ From(toServer[i + 1], r) /\ i + 1 # 1
      BY <1>1, <2>2
    <3> QED BY <1>1, <1>5, <3>1 DEF WireOf, OneLine
  <2> QED BY <1>5, <2>1, <2>2 DEF WireOf, OneLine, Asking
<1>7. Asking(r)' => Asking(r)
  BY <1>1 DEF Asking
<1>8. \A j \in DOMAIN toClient' : IsReply(toClient'[j], r) => (j \in DOMAIN toClient /\ ~From(m, r)) \/ (j \notin DOMAIN toClient /\ From(m, r))
  BY <1>2, <1>3, <1>6 DEF Replied
<1>9. \A k \in DOMAIN toClient' : IsEnd(toClient'[k], r) => k \in DOMAIN toClient /\ toClient'[k] = toClient[k]
  BY <1>2, <1>3 DEF IsEnd
<1>10. OneLine(r)'
  <2>1. \A i, j \in DOMAIN toServer' : From(toServer'[i], r) /\ From(toServer'[j], r) => i = j
    <3> TAKE i, j \in DOMAIN toServer'
    <3> HAVE From(toServer'[i], r) /\ From(toServer'[j], r)
    <3>1. i + 1 = j + 1
      BY <1>1, <1>5 DEF WireOf, OneLine
    <3> QED BY <1>1, <3>1
  <2>2. \A i, j \in DOMAIN toClient' : IsReply(toClient'[i], r) /\ IsReply(toClient'[j], r) => i = j
    <3> TAKE i, j \in DOMAIN toClient'
    <3> HAVE IsReply(toClient'[i], r) /\ IsReply(toClient'[j], r)
    <3>1. CASE ~From(m, r)
      BY <1>2, <1>5, <1>8, <3>1 DEF WireOf, OneLine
    <3>2. CASE From(m, r)
      <4>1. /\ i - Len(toClient) \in DOMAIN s /\ toClient'[i] = s[i - Len(toClient)]
            /\ j - Len(toClient) \in DOMAIN s /\ toClient'[j] = s[j - Len(toClient)]
        BY <1>2, <1>8, <3>2
      <4>2. i - Len(toClient) = j - Len(toClient)
        BY <1>3, <4>1 DEF IsReply
      <4> QED BY <1>2, <4>2
    <3> QED BY <3>1, <3>2
  <2>3. Replied(r)' => Replied(r) \/ From(m, r)
    BY <1>2, <1>8 DEF Replied
  <2>4. ~(Asking(r)' /\ Replied(r)')
    BY <1>5, <1>6, <1>7, <2>3 DEF WireOf, OneLine
  <2>5. Asking(r)' \/ Replied(r)' => call'[r].phase \in {"reading", "starting", "cutting", "failed"} /\ ~Heard(r)'
    BY <1>1, <1>5, <1>6, <1>7, <2>3 DEF WireOf, OneLine, Heard
  <2> QED BY <2>1, <2>2, <2>4, <2>5 DEF OneLine
<1>11. Matches(r)'
  <2> SUFFICES ASSUME NEW i \in DOMAIN toServer', From(toServer'[i], r)
               PROVE  \/ IsRead(toServer'[i], r) /\ call'[r].phase \in {"reading", "failed"}
                      \/ IsStart(toServer'[i], r) /\ call'[r].phase \in {"starting", "failed"} /\ server'.turn # r /\ ended'[r] = "no"
                      \/ IsCut(toServer'[i], r) /\ call'[r].phase \in {"cutting", "failed"} /\ toServer'[i].turn = r
    BY DEF Matches
  <2>1. i + 1 \in DOMAIN toServer /\ toServer'[i] = toServer[i + 1]
    BY <1>1
  <2>2. ~From(m, r)
    BY <1>6 DEF Asking
  <2>3. server'.turn = r => server.turn = r
    BY <1>3, <2>2 DEF IsStart, From
  <2> QED BY <1>1, <1>5, <2>1, <2>3 DEF WireOf, Matches
<1>12. Begun(r)'
  <2>1. server'.turn = r => server.turn = r \/ (call[r].phase \in {"starting", "failed"} /\ ended[r] = "no")
    <3> SUFFICES ASSUME server'.turn = r, server.turn # r PROVE call[r].phase \in {"starting", "failed"} /\ ended[r] = "no"
      OBVIOUS
    <3>1. IsStart(m, r) /\ From(m, r)
      BY <1>3 DEF IsStart, From
    <3> QED BY <1>1, <1>5, <3>1 DEF WireOf, Matches, IsRead, IsCut, IsStart
  <2>2. EndNoted(r)' => EndNoted(r)
    BY <1>9 DEF EndNoted
  <2> QED BY <1>1, <1>2, <1>5, <1>9, <2>1, <2>2 DEF WireOf, Begun
<1>13. Faults(r)'
  <2>1. ServesStart(m, s) => ~From(m, r) \/ call[r].phase \in {"starting", "failed"}
    <3> SUFFICES ASSUME ServesStart(m, s), From(m, r) PROVE call[r].phase \in {"starting", "failed"}
      OBVIOUS
    <3>1. m.method = "turn/start"
      BY DEF ServesStart
    <3> QED BY <1>1, <1>5, <3>1 DEF WireOf, Matches, IsRead, IsCut
  <2>2. From(m, r) => ~(got[r] # NoReply /\ Refused(got[r]))
    <3> SUFFICES ASSUME From(m, r) PROVE ~(got[r] # NoReply /\ Refused(got[r]))
      OBVIOUS
    <3>1. ~Heard(r)
      BY <1>5, <1>6 DEF WireOf, OneLine
    <3> QED BY <3>1 DEF Heard, Refused
  <2>3. server'.turn = r => server.turn = r \/ (IsStart(m, r) /\ From(m, r) /\ ServesStart(m, s))
    BY <1>3 DEF IsStart, From
  <2>4. ASSUME call[r].phase = "starting"
        PROVE  /\ \A j \in DOMAIN toClient' : IsReply(toClient'[j], r) /\ toClient'[j].error # None => server'.turn # r /\ ended'[r] = "no"
               /\ got'[r] # NoReply /\ Refused(got'[r]) => server'.turn # r /\ ended'[r] = "no"
    <3>1. ASSUME NEW j \in DOMAIN toClient', IsReply(toClient'[j], r), toClient'[j].error # None
          PROVE  server'.turn # r /\ ended'[r] = "no"
      <4>1. CASE j \in DOMAIN toClient /\ ~From(m, r)
        BY <1>1, <1>2, <1>5, <2>3, <2>4, <3>1, <4>1 DEF WireOf, Faults
      <4>2. CASE j \notin DOMAIN toClient /\ From(m, r)
        <5>1. j - Len(toClient) \in DOMAIN s /\ toClient'[j] = s[j - Len(toClient)]
          BY <1>2, <4>2
        <5>2. ~ServesStart(m, s)
          BY <1>3, <3>1, <5>1
        <5>3. server.turn # r /\ ended[r] = "no"
          BY <1>1, <1>5, <2>4, <4>2 DEF WireOf, Matches
        <5> QED BY <1>1, <2>3, <5>2, <5>3
      <4> QED BY <1>8, <3>1, <4>1, <4>2
    <3>2. got'[r] # NoReply /\ Refused(got'[r]) => server'.turn # r /\ ended'[r] = "no"
      BY <1>1, <1>5, <2>2, <2>3, <2>4 DEF WireOf, Faults
    <3> QED BY <3>1, <3>2
  <2>5. ASSUME call[r].phase = "cutting"
        PROVE  /\ \A j \in DOMAIN toClient' : IsReply(toClient'[j], r) /\ toClient'[j].error # None =>
                    server'.turn # r /\ \A k \in DOMAIN toClient' : IsEnd(toClient'[k], r) => k < j
               /\ got'[r] # NoReply /\ Refused(got'[r]) => server'.turn # r /\ ~EndNoted(r)'
    <3>1. server'.turn = r => server.turn = r
      BY <2>1, <2>3, <2>5
    <3>2. ASSUME NEW j \in DOMAIN toClient', IsReply(toClient'[j], r), toClient'[j].error # None
          PROVE  server'.turn # r /\ \A k \in DOMAIN toClient' : IsEnd(toClient'[k], r) => k < j
      <4>1. CASE j \in DOMAIN toClient /\ ~From(m, r)
        <5>1. server.turn # r /\ \A k \in DOMAIN toClient : IsEnd(toClient[k], r) => k < j
          BY <1>2, <1>5, <2>5, <3>2, <4>1 DEF WireOf, Faults
        <5> QED BY <1>9, <3>1, <5>1
      <4>2. CASE j \notin DOMAIN toClient /\ From(m, r)
        <5>1. j - Len(toClient) \in DOMAIN s /\ toClient'[j] = s[j - Len(toClient)] /\ j > Len(toClient)
          BY <1>2, <4>2
        <5>2. IsCut(m, r) /\ m.turn = r
          BY <1>1, <1>5, <2>5, <4>2 DEF WireOf, Matches
        <5>3. ServesReply(m, s)
          <6>1. m.method = "turn/interrupt"
            BY <5>2 DEF IsCut
          <6> QED BY <6>1 DEF ServesStart, ServesAnswer, ServesNothing
        <5>4. PICK p \in Told : s = <<p>> /\ (p.error # None => server.turn # m.turn)
          BY <5>2, <5>3 DEF ServesReply, IsCut
        <5>5. toClient'[j] = p
          <6>1. DOMAIN s = {1} /\ s[1] = p
            BY <5>4
          <6> QED BY <5>1, <6>1
        <5>6. server.turn # r
          BY <3>2, <5>2, <5>4, <5>5
        <5>7. \A k \in DOMAIN toClient' : IsEnd(toClient'[k], r) => k < j
          BY <1>2, <1>9, <5>1
        <5> QED BY <3>1, <5>6, <5>7
      <4> QED BY <1>8, <3>2, <4>1, <4>2
    <3>3. EndNoted(r)' => EndNoted(r)
      BY <1>9 DEF EndNoted
    <3>4. got'[r] # NoReply /\ Refused(got'[r]) => server'.turn # r /\ ~EndNoted(r)'
      BY <1>1, <1>5, <2>5, <3>1, <3>3 DEF WireOf, Faults
    <3> QED BY <3>2, <3>4
  <2> QED BY <1>1, <2>4, <2>5 DEF Faults
<1> QED BY <1>10, <1>11, <1>12, <1>13 DEF WireOf

LEMMA WireAsk ==
    ASSUME Typed, Wire, NEW a \in Asks, Ask(a)
    PROVE  Wire'
<1>1. /\ UNCHANGED <<toServer, ended, got, call>> /\ server'.turn = server.turn
  BY DEF Ask, Typed, Thread, Servers
<1>2. PICK p \in Told : p.method = "request" /\ toClient' = toClient \o <<p>>
  BY LinesTyped DEF Ask, Says
<1>3. /\ DOMAIN toClient \subseteq DOMAIN toClient'
      /\ \A i \in DOMAIN toClient : toClient'[i] = toClient[i]
      /\ \A i \in DOMAIN toClient' : i \in DOMAIN toClient \/ toClient'[i] = p
  <2>1. <<p>> \in Seq(Told) /\ \A i \in DOMAIN <<p>> : <<p>>[i] = p
    OBVIOUS
  <2>2. PICK s \in Seq(Told) : s = <<p>> /\ toClient' = toClient \o s /\ \A i \in DOMAIN s : s[i] = p
    BY <1>2, <2>1
  <2>3. /\ DOMAIN toClient' \subseteq Nat /\ DOMAIN toClient \subseteq DOMAIN toClient' /\ Len(toClient) \in Nat /\ DOMAIN s \subseteq Nat \ {0}
        /\ \A i \in DOMAIN toClient : toClient'[i] = toClient[i] /\ i <= Len(toClient)
        /\ \A i \in DOMAIN toClient' : \/ i \in DOMAIN toClient
                                       \/ i > Len(toClient) /\ i - Len(toClient) \in DOMAIN s /\ toClient'[i] = s[i - Len(toClient)]
    BY <2>2, SaidLines
  <2> QED BY <2>2, <2>3
<1>4. SUFFICES ASSUME NEW r \in Calls PROVE WireOf(r)'
  BY DEF Wire
<1>5. WireOf(r)
  BY DEF Wire
<1>6. \A j \in DOMAIN toClient' : IsReply(toClient'[j], r) \/ IsEnd(toClient'[j], r) => j \in DOMAIN toClient /\ toClient'[j] = toClient[j]
  BY <1>2, <1>3 DEF IsReply, IsEnd, Ends
<1>7. (Asking(r)' <=> Asking(r)) /\ (Replied(r)' => Replied(r)) /\ (EndNoted(r)' => EndNoted(r)) /\ (Heard(r)' <=> Heard(r))
  BY <1>1, <1>6 DEF Asking, Replied, EndNoted, Heard
<1>8. OneLine(r)'
  BY <1>1, <1>5, <1>6, <1>7 DEF WireOf, OneLine
<1>9. Matches(r)'
  BY <1>1, <1>5 DEF WireOf, Matches
<1>10. Begun(r)'
  BY <1>1, <1>5, <1>6, <1>7 DEF WireOf, Begun
<1>11. Faults(r)'
  BY <1>1, <1>5, <1>6, <1>7 DEF WireOf, Faults
<1> QED BY <1>8, <1>9, <1>10, <1>11 DEF WireOf

(* The end of a turn is told after the prompts that it takes with it.        *)
LEMMA EndLines ==
    ASSUME Typed, NEW u \in Calls, NEW o \in Ends, EndsTurn(u, o)
    PROVE  /\ DOMAIN toClient' \subseteq Nat /\ DOMAIN toClient \subseteq DOMAIN toClient'
           /\ \A i \in DOMAIN toClient : toClient'[i] = toClient[i]
           /\ \E n \in DOMAIN toClient' :
                /\ IsEnd(toClient'[n], u) /\ toClient'[n].method = o
                /\ \A i \in DOMAIN toClient' : i # n => i < n
                /\ \A i \in DOMAIN toClient' : i = n \/ i \in DOMAIN toClient \/ toClient'[i].method = "serverRequest/resolved"
                /\ \A i \in DOMAIN toClient, a \in server.asks : \E l \in DOMAIN toClient' : i < l /\ Resolves(toClient'[l], a)
                /\ \A a \in server.asks : \E l \in DOMAIN toClient' : Resolves(toClient'[l], a)
                /\ n \notin DOMAIN toClient
<1>1. server.asks \in SUBSET Asks /\ toClient \in Seq(Told)
  BY DEF Typed, Thread, Servers, Pipes
<1>2. PICK p \in Told : p = Note(o, u) /\ p.method = o /\ p.turn = u
  <2>1. Note(o, u) \in Told /\ Note(o, u).method = o /\ Note(o, u).turn = u
    <3>1. o \in {"turn/started"} \cup Ends
      OBVIOUS
    <3> QED BY <3>1, LinesTyped
  <2> QED BY <2>1
<1>3. PICK R : R = Resolved(server.asks)
  OBVIOUS
<1>4. /\ R \in Seq(Told)
      /\ \A i \in DOMAIN R : R[i].method = "serverRequest/resolved" /\ R[i].ask \in server.asks
      /\ \A a \in server.asks : \E i \in DOMAIN R : R[i].ask = a
  BY <1>1, <1>3, ResolvedTyped
<1>5. PICK s : s = R \o <<p>>
  OBVIOUS
<1>6. /\ s \in Seq(Told) /\ Len(R) \in Nat /\ DOMAIN R = 1..Len(R) /\ DOMAIN s = 1..Len(R)+1
      /\ \A i \in DOMAIN R : s[i] = R[i]
      /\ s[Len(R) + 1] = p
  <2>1. PICK t : t = <<p>> /\ t \in Seq(Told) /\ Len(t) = 1 /\ t[1] = p
    <3>1. <<p>> \in Seq(Told) /\ Len(<<p>>) = 1 /\ <<p>>[1] = p
      OBVIOUS
    <3> QED BY <3>1
  <2>2. /\ R \o t \in Seq(Told) /\ DOMAIN (R \o t) = 1..Len(R)+Len(t)
        /\ \A i \in DOMAIN R : (R \o t)[i] = R[i]
        /\ \A i \in 1..Len(t) : (R \o t)[Len(R) + i] = t[i]
        /\ DOMAIN R = 1..Len(R) /\ Len(R) \in Nat
    BY <1>4, <2>1, Joined
  <2> QED BY <1>5, <2>1, <2>2
<1>7. toClient' = toClient \o s
  BY <1>2, <1>3, <1>5 DEF EndsTurn
<1>8. /\ toClient \o s \in Seq(Told) /\ DOMAIN (toClient \o s) = 1..Len(toClient)+Len(s)
      /\ \A i \in DOMAIN toClient : (toClient \o s)[i] = toClient[i]
      /\ \A i \in 1..Len(s) : (toClient \o s)[Len(toClient) + i] = s[i]
      /\ DOMAIN toClient = 1..Len(toClient) /\ Len(toClient) \in Nat /\ DOMAIN s = 1..Len(s) /\ Len(s) \in Nat
  BY <1>1, <1>6, Joined
<1>9. Len(s) = Len(R) + 1
  BY <1>6, <1>8
<1> DEFINE n == Len(toClient) + Len(R) + 1
<1>10. n \in DOMAIN toClient' /\ toClient'[n] = p /\ n \notin DOMAIN toClient
  BY <1>6, <1>7, <1>8, <1>9
<1>11. \A i \in DOMAIN toClient' : i # n => i < n
  <2>1. DOMAIN toClient' = 1..n /\ n \in Nat
    BY <1>6, <1>7, <1>8, <1>9
  <2> HIDE DEF n
  <2> QED BY <2>1
<1>12. ASSUME NEW a \in server.asks PROVE \E l \in DOMAIN toClient' : l > Len(toClient) /\ Resolves(toClient'[l], a)
  <2>1. PICK i \in DOMAIN R : R[i].ask = a /\ R[i].method = "serverRequest/resolved"
    BY <1>4
  <2>2. Len(toClient) + i \in DOMAIN toClient' /\ toClient'[Len(toClient) + i] = R[i] /\ Len(toClient) + i > Len(toClient)
    BY <1>6, <1>7, <1>8, <1>9
  <2> QED BY <2>1, <2>2 DEF Resolves
<1>13. \A i \in DOMAIN toClient' : i = n \/ i \in DOMAIN toClient \/ toClient'[i].method = "serverRequest/resolved"
  <2> SUFFICES ASSUME NEW i \in DOMAIN toClient', i # n, i \notin DOMAIN toClient PROVE toClient'[i].method = "serverRequest/resolved"
    OBVIOUS
  <2>1. i - Len(toClient) \in DOMAIN R /\ i = Len(toClient) + (i - Len(toClient)) /\ i - Len(toClient) \in 1..Len(s)
    BY <1>6, <1>7, <1>8, <1>9
  <2>2. toClient'[Len(toClient) + (i - Len(toClient))] = s[i - Len(toClient)]
    BY <1>7, <1>8, <2>1
  <2> QED BY <1>4, <1>6, <2>1, <2>2
<1>14. \A i \in DOMAIN toClient : i <= Len(toClient) /\ i \in Nat
  BY <1>8
<1>15. \A i \in DOMAIN toClient, a \in server.asks : \E l \in DOMAIN toClient' : i < l /\ Resolves(toClient'[l], a)
  <2> TAKE i \in DOMAIN toClient, a \in server.asks
  <2>1. PICK l \in DOMAIN toClient' : l > Len(toClient) /\ Resolves(toClient'[l], a)
    BY <1>12
  <2>2. i < l
    BY <1>7, <1>8, <1>14, <2>1
  <2> QED BY <2>1, <2>2
<1>16. \A a \in server.asks : \E l \in DOMAIN toClient' : Resolves(toClient'[l], a)
  BY <1>12
<1>17. IsEnd(toClient'[n], u) /\ toClient'[n].method = o
  BY <1>2, <1>10 DEF IsEnd
<1>18. /\ DOMAIN toClient' \subseteq Nat /\ DOMAIN toClient \subseteq DOMAIN toClient'
       /\ \A i \in DOMAIN toClient : toClient'[i] = toClient[i]
  BY <1>7, <1>8
<1> HIDE DEF n
<1> QED BY <1>10, <1>11, <1>13, <1>15, <1>16, <1>17, <1>18

LEMMA WireEnds ==
    ASSUME Typed, Wire, NEW u \in Calls, NEW o \in Ends, EndsTurn(u, o)
    PROVE  Wire'
<1>1. /\ UNCHANGED <<toServer, got, call>> /\ server.turn = u /\ server'.turn = None
      /\ ended'[u] = o /\ \A r \in Calls \ {u} : ended'[r] = ended[r]
  BY DEF EndsTurn, Typed, Thread, Idle
<1>2. /\ DOMAIN toClient' \subseteq Nat /\ DOMAIN toClient \subseteq DOMAIN toClient'
      /\ \A i \in DOMAIN toClient : toClient'[i] = toClient[i]
  BY EndLines
<1>3. PICK n \in DOMAIN toClient' :
        /\ IsEnd(toClient'[n], u) /\ toClient'[n].method = o
        /\ \A i \in DOMAIN toClient' : i = n \/ i \in DOMAIN toClient \/ toClient'[i].method = "serverRequest/resolved"
        /\ n \notin DOMAIN toClient
  BY EndLines
<1>4. SUFFICES ASSUME NEW r \in Calls PROVE WireOf(r)'
  BY DEF Wire
<1>5. WireOf(r) /\ r # None
  BY Names DEF Wire
<1>6. \A j \in DOMAIN toClient' : IsReply(toClient'[j], r) => j \in DOMAIN toClient /\ toClient'[j] = toClient[j]
  BY <1>2, <1>3 DEF IsReply, IsEnd, Ends
<1>7. \A k \in DOMAIN toClient' : IsEnd(toClient'[k], r) => (r = u /\ k = n) \/ (k \in DOMAIN toClient /\ toClient'[k] = toClient[k])
  BY <1>2, <1>3 DEF IsEnd, Ends
<1>8. (Asking(r)' <=> Asking(r)) /\ (Replied(r)' => Replied(r)) /\ (Heard(r)' <=> Heard(r))
  BY <1>1, <1>6 DEF Asking, Replied, Heard
<1>9. OneLine(r)'
  BY <1>1, <1>5, <1>6, <1>8 DEF WireOf, OneLine
<1>10. CASE r = u
  <2>1. /\ call[r].phase \in {"starting", "cutting", "awaiting", "failed"} /\ ended[r] = "no"
        /\ ~EndNoted(r)
    <3>1. call[r].phase \in {"starting", "cutting", "awaiting", "failed"} /\ ended[r] = "no"
      BY <1>1, <1>5, <1>10 DEF WireOf, Begun
    <3>2. ASSUME NEW k \in DOMAIN toClient, IsEnd(toClient[k], r) PROVE FALSE
      <4>1. ended[r] = toClient[k].method /\ toClient[k].method \in Ends
        BY <1>5, <3>2 DEF WireOf, Begun, IsEnd
      <4> QED BY <3>1, <4>1 DEF Ends
    <3> QED BY <3>1, <3>2 DEF EndNoted
  <2>2. \A k \in DOMAIN toClient' : IsEnd(toClient'[k], r) => k = n
    BY <1>7, <2>1 DEF EndNoted
  <2>3. Matches(r)'
    BY <1>1, <1>5, <1>10 DEF WireOf, Matches
  <2>4. Begun(r)'
    BY <1>1, <1>3, <1>5, <1>10, <2>1, <2>2 DEF Begun
  <2>5. Faults(r)'
    <3>1. \A j \in DOMAIN toClient : IsReply(toClient[j], r) /\ toClient[j].error # None => call[r].phase \notin {"starting", "cutting"}
      BY <1>1, <1>5, <1>10 DEF WireOf, Faults
    <3>2. got[r] # NoReply /\ Refused(got[r]) => call[r].phase \notin {"starting", "cutting"}
      BY <1>1, <1>5, <1>10 DEF WireOf, Faults
    <3> QED BY <1>1, <1>6, <3>1, <3>2 DEF Faults
  <2> QED BY <1>9, <2>3, <2>4, <2>5 DEF WireOf
<1>11. CASE r # u
  <2>1. \A k \in DOMAIN toClient' : IsEnd(toClient'[k], r) => k \in DOMAIN toClient /\ toClient'[k] = toClient[k]
    BY <1>7, <1>11
  <2>2. EndNoted(r)' => EndNoted(r)
    BY <2>1 DEF EndNoted
  <2>3. Matches(r)'
    BY <1>1, <1>5, <1>11 DEF WireOf, Matches
  <2>4. Begun(r)'
    BY <1>1, <1>5, <1>11, <2>1, <2>2 DEF WireOf, Begun
  <2>5. Faults(r)'
    BY <1>1, <1>5, <1>6, <1>11, <2>1, <2>2 DEF WireOf, Faults
  <2> QED BY <1>9, <2>3, <2>4, <2>5 DEF WireOf
<1> QED BY <1>10, <1>11

LEMMA LostMoves ==
    ASSUME Typed, Lost
    PROVE  /\ toServer' = <<>> /\ toClient' = <<>> /\ pending' = <<>> /\ server' = Idle /\ ended' = ended
           /\ \A c \in Callers : got'[c] = NoReply
           /\ \A r \in Calls : call'[r].phase = IF call[r].phase \in {"reading", "starting", "cutting"} THEN "failed" ELSE call[r].phase
           /\ task' = NoTask /\ prompts' = {}
           /\ dropped' = (dropped \/ \E r \in Calls : call[r].phase = "opening")
           /\ \A r \in Calls : settled'[r] = settled[r] \/ settled'[r] = "failed"
<1>1. \A c \in Callers : got'[c] = NoReply
  BY DEF Lost, Quiet
<1>2. \A r \in Calls : call'[r].phase = IF call[r].phase \in {"reading", "starting", "cutting"} THEN "failed" ELSE call[r].phase
  <2> TAKE r \in Calls
  <2>1. call[r] \in CallRecords
    BY DEF Typed, Runs
  <2>2. call'[r] = [call[r] EXCEPT !.phase = IF @ \in {"reading", "starting", "cutting"} THEN "failed" ELSE @]
    BY DEF Lost
  <2> QED BY <2>1, <2>2 DEF CallRecords
<1>3. \A r \in Calls : settled'[r] = settled[r] \/ settled'[r] = "failed"
  <2>1. settled \in [Calls -> Results]
    BY DEF Typed, Runs
  <2>2. CASE task # NoTask
    BY <2>1, <2>2 DEF Lost, Settle
  <2>3. CASE task = NoTask
    BY <2>3 DEF Lost
  <2> QED BY <2>2, <2>3
<1> QED BY <1>1, <1>2, <1>3 DEF Lost

LEMMA WireLost ==
    ASSUME Typed, Wire, Lost
    PROVE  Wire'
<1>1. /\ toServer' = <<>> /\ toClient' = <<>> /\ server' = Idle /\ ended' = ended
      /\ \A c \in Callers : got'[c] = NoReply
      /\ \A r \in Calls : call'[r].phase = IF call[r].phase \in {"reading", "starting", "cutting"} THEN "failed" ELSE call[r].phase
  BY LostMoves
<1>2. DOMAIN toServer' = {} /\ DOMAIN toClient' = {} /\ server'.turn = None
  BY <1>1 DEF Idle
<1>3. SUFFICES ASSUME NEW r \in Calls PROVE WireOf(r)'
  BY DEF Wire
<1>4. WireOf(r) /\ r # None /\ r \in Callers
  BY Names DEF Wire
<1>5. OneLine(r)' /\ Matches(r)'
  BY <1>2 DEF OneLine, Matches, Asking, Replied
<1>6. Begun(r)'
  <2>1. ~EndNoted(r)' /\ server'.turn # r
    BY <1>2, <1>4 DEF EndNoted
  <2>2. ended'[r] # "no" => call'[r].phase \in {"starting", "cutting", "awaiting", "failed", "fresh"}
    BY <1>1, <1>4 DEF WireOf, Begun
  <2> QED BY <1>2, <2>1, <2>2 DEF Begun
<1>7. Faults(r)'
  BY <1>1, <1>2, <1>4 DEF Faults
<1> QED BY <1>5, <1>6, <1>7 DEF WireOf

LEMMA WireInit ==
    ASSUME Init
    PROVE  Wire
<1>1. DOMAIN toServer = {} /\ DOMAIN toClient = {} /\ server.turn = None
  BY DEF Init, Idle
<1>2. SUFFICES ASSUME NEW r \in Calls PROVE WireOf(r)
  BY DEF Wire
<1>3. /\ call[r].phase = "idle" /\ ended[r] = "no" /\ got[r] = NoReply /\ r # None
  BY Names DEF Init
<1> QED BY <1>1, <1>3 DEF WireOf, OneLine, Matches, Begun, Faults, Asking, Replied, EndNoted

(* What the runs and the server can tell of each other holds after any step. *)
LEMMA WireKept ==
    ASSUME Typed, Correlated, Wire, Next
    PROVE  Wire'
<1>1. Moves
  BY NextMoves
<1> QED BY <1>1, WireRun, WireAside, WireTimeOut, WireTakes, WireServes, WireAsk, WireEnds, WireLost DEF Moves
-----------------------------------------------------------------------------
(* Whose turn it is. A turn is live from the moment its run holds the thread *)
(* until its end is heard.                                                   *)
Starting(u) == \E i \in DOMAIN toServer : IsStart(toServer[i], u)
Live(u) == call[u].phase = "opening" \/ Starting(u) \/ server.turn = u \/ EndNoted(u)
Reader(r) == InFlight(r) /\ call[r].phase = "reading"
SaysIdle(m, r) == IsReply(m, r) /\ m.error = None /\ m.turn = None
HoldsIdle(r) == call[r].phase = "reading" /\ got[r] # NoReply /\ Ok(r) /\ got[r].turn = None

(* The thread is read for r after the turn of u has begun, and found idle    *)
(* only after it was told that this turn is over.                            *)
Follows(r, u) == call[r].phase = "reading" /\ Live(u) =>
    /\ \A i \in DOMAIN toServer : IsRead(toServer[i], r) =>
         server.turn = u \/ EndNoted(u) \/ \E k \in DOMAIN toServer : k < i /\ IsStart(toServer[k], u)
    /\ \A j \in DOMAIN toClient : SaysIdle(toClient[j], r) => \E k \in DOMAIN toClient : k < j /\ IsEnd(toClient[k], u)
Behind(u) == \A r \in Calls : (Reader(r) => Follows(r, u)) /\ ~HoldsIdle(r)

(* The run of a live turn has the task of the thread (Held, OpenerHolds), or *)
(* whoever reads the thread meanwhile will not find it idle (NotIdle). While *)
(* the answer to that run is awaited this is so because requests time out in *)
(* the order they were sent (InOrder, LateBehind).                           *)
Cutting(u) == call[u].phase \in {"starting", "cutting"}
Held == \A u \in Calls : Live(u) => task.call \in {None, u}
OneLive == \A u, v \in Calls : Live(u) /\ Live(v) => u = v
OpenerHolds == \A u \in Calls : call[u].phase = "opening" => task.call = u
NotIdle == \A u \in Calls : Live(u) /\ task.call # u => Behind(u)
Before(u, r) == \E i, j \in DOMAIN pending : i < j /\ pending[i] = u /\ pending[j] = r
InOrder == \A u, r \in Calls : Before(u, r) /\ Cutting(u) /\ call[r].phase = "reading" => Follows(r, u)
LateBehind == \A u \in Calls : got[u].error = "late" /\ Cutting(u) /\ Live(u) => Behind(u)
Turns == Held /\ OneLive /\ OpenerHolds /\ NotIdle /\ InOrder /\ LateBehind

(* Whom a run hears of.                                                      *)
Outcomes == \A r \in Calls : settled[r] \in {"completed", "interrupted"} => ended[r] = settled[r]

(* Which prompts are open.                                                   *)
Open ==
    /\ server.turn = None => server.asks = {}
    /\ \A a \in prompts : a \in server.asks \/ \E k \in DOMAIN toClient : Resolves(toClient[k], a)
    /\ \A k \in DOMAIN toClient : toClient[k].method = "request" =>
         toClient[k].ask \in server.asks \/ \E l \in DOMAIN toClient : k < l /\ Resolves(toClient[l], toClient[k].ask)
    /\ \A k \in DOMAIN toClient : toClient[k].method = "serverRequest/resolved" =>
         server.turn # None \/ \E l \in DOMAIN toClient : k < l /\ toClient[l].method \in Ends
Human == task # NoTask /\ prompts # {} => task.waitingHuman
Own == Turns /\ Outcomes /\ Human
Kept == Wire /\ Open /\ (dropped \/ Own)

(* Where the run of a live turn can be.                                      *)
LEMMA LiveRuns ==
    ASSUME Wire, NEW u \in Calls
    PROVE  /\ Live(u) => call[u].phase \in {"opening", "starting", "cutting", "awaiting", "failed"}
           /\ Starting(u) => call[u].phase \in {"starting", "failed"} /\ server.turn # u /\ ~EndNoted(u)
           /\ server.turn = u => ~EndNoted(u)
           /\ EndNoted(u) => ended[u] # "no"
           /\ server.turn = u \/ EndNoted(u) => call[u].phase \in {"starting", "cutting", "awaiting", "failed"}
<1>1. WireOf(u)
  BY DEF Wire
<1>2. EndNoted(u) => ended[u] # "no"
  BY <1>1 DEF WireOf, Begun, EndNoted, IsEnd, Ends
<1>3. Starting(u) => call[u].phase \in {"starting", "failed"} /\ server.turn # u /\ ended[u] = "no"
  <2> SUFFICES ASSUME NEW i \in DOMAIN toServer, IsStart(toServer[i], u)
               PROVE  call[u].phase \in {"starting", "failed"} /\ server.turn # u /\ ended[u] = "no"
    BY DEF Starting
  <2>1. From(toServer[i], u) /\ ~IsRead(toServer[i], u) /\ ~IsCut(toServer[i], u)
    BY DEF IsStart, IsRead, IsCut, From
  <2> QED BY <1>1, <2>1 DEF WireOf, Matches
<1>4. /\ server.turn = u => ended[u] = "no"
      /\ server.turn = u \/ EndNoted(u) => call[u].phase \in {"starting", "cutting", "awaiting", "failed"}
  BY <1>1, <1>2 DEF WireOf, Begun
<1> QED BY <1>2, <1>3, <1>4 DEF Live

(* No turn becomes live, no reader appears.                                  *)
LEMMA TurnsKept ==
    ASSUME Turns, task'.call = task.call,
           \A u \in Calls : Live(u)' => Live(u),
           \A r, u \in Calls : call'[r].phase = "reading" /\ Follows(r, u) => Follows(r, u)',
           \A r \in Calls : Reader(r)' => Reader(r),
           \A r \in Calls : HoldsIdle(r)' => HoldsIdle(r) \/ (Reader(r) /\ \A u \in Calls : Live(u) => ~Follows(r, u)),
           \A u \in Calls : call'[u].phase = "opening" => call[u].phase = "opening",
           \A u, r \in Calls : Before(u, r)' /\ Cutting(u)' /\ call'[r].phase = "reading" => Before(u, r) /\ Cutting(u) /\ call[r].phase = "reading",
           \A u \in Calls : got'[u].error = "late" /\ Cutting(u)' => got[u].error = "late" /\ Cutting(u)
    PROVE  Turns'
<1>1. ASSUME NEW u \in Calls, Behind(u), Live(u) PROVE Behind(u)'
  <2>1. ASSUME NEW r \in Calls, Reader(r)' PROVE Follows(r, u)'
    <3>1. Follows(r, u)
      BY <1>1, <2>1 DEF Behind
    <3>2. call'[r].phase = "reading"
      BY <2>1 DEF Reader
    <3> QED BY <3>1, <3>2
  <2>2. ASSUME NEW r \in Calls, HoldsIdle(r)' PROVE FALSE
    BY <1>1, <2>2 DEF Behind
  <2> QED BY <2>1, <2>2 DEF Behind
<1>2. Held' /\ OneLive' /\ OpenerHolds'
  BY DEF Turns, Held, OneLive, OpenerHolds
<1>3. NotIdle' /\ LateBehind'
  BY <1>1 DEF Turns, NotIdle, LateBehind
<1>4. InOrder'
  BY DEF Turns, InOrder
<1> QED BY <1>2, <1>3, <1>4 DEF Turns

(* The lines of others leave the order of a reader as it is.                 *)
LEMMA FollowsSame ==
    ASSUME NEW r \in Calls, NEW u \in Calls, Follows(r, u),
           call'[r].phase = "reading" => call[r].phase = "reading", Live(u)' => Live(u),
           toClient' = toClient, server' = server,
           \A i \in DOMAIN toServer : i \in DOMAIN toServer' /\ toServer'[i] = toServer[i],
           \A i \in DOMAIN toServer' : From(toServer'[i], r) => i \in DOMAIN toServer
    PROVE  Follows(r, u)'
<1> SUFFICES ASSUME call'[r].phase = "reading", Live(u)'
             PROVE  /\ \A i \in DOMAIN toServer' : IsRead(toServer'[i], r) =>
                         server'.turn = u \/ EndNoted(u)' \/ \E k \in DOMAIN toServer' : k < i /\ IsStart(toServer'[k], u)
                    /\ \A j \in DOMAIN toClient' : SaysIdle(toClient'[j], r) => \E k \in DOMAIN toClient' : k < j /\ IsEnd(toClient'[k], u)
  BY DEF Follows
<1>1. ASSUME NEW i \in DOMAIN toServer', IsRead(toServer'[i], r)
      PROVE  server'.turn = u \/ EndNoted(u)' \/ \E k \in DOMAIN toServer' : k < i /\ IsStart(toServer'[k], u)
  <2>1. i \in DOMAIN toServer /\ IsRead(toServer[i], r)
    BY <1>1 DEF IsRead, From
  <2>2. server.turn = u \/ EndNoted(u) \/ \E k \in DOMAIN toServer : k < i /\ IsStart(toServer[k], u)
    BY <2>1 DEF Follows
  <2> QED BY <2>2 DEF EndNoted
<1>2. \A j \in DOMAIN toClient' : SaysIdle(toClient'[j], r) => \E k \in DOMAIN toClient' : k < j /\ IsEnd(toClient'[k], u)
  BY DEF Follows
<1> QED BY <1>1, <1>2

(* Steps of nobody's turn.                                                   *)
LEMMA TurnsAside ==
    ASSUME Typed, Correlated, Turns, Aside
    PROVE  Turns'
<1>1. /\ UNCHANGED <<server, call, toClient>> /\ task'.call = task.call
      /\ \A x \in Calls : got'[x] = got[x]
  BY DEF Aside, Silent
<1>2. /\ \A i \in DOMAIN toServer : i \in DOMAIN toServer' /\ toServer'[i] = toServer[i]
      /\ \A i \in DOMAIN toServer' : \/ i \in DOMAIN toServer /\ toServer'[i] = toServer[i]
                                     \/ \A r \in Calls : ~From(toServer'[i], r)
  BY SilentLines DEF Aside
<1>3. \A u \in Calls : Live(u)' => Live(u)
  <2> TAKE u \in Calls
  <2>1. Starting(u)' => Starting(u)
    BY <1>2 DEF Starting, IsStart, From
  <2>2. EndNoted(u)' => EndNoted(u)
    BY <1>1 DEF EndNoted
  <2> QED BY <1>1, <2>1, <2>2 DEF Live
<1>4. \A r, u \in Calls : Follows(r, u) => Follows(r, u)'
  <2> TAKE r, u \in Calls
  <2> HAVE Follows(r, u)
  <2>1. \A i \in DOMAIN toServer' : From(toServer'[i], r) => i \in DOMAIN toServer
    BY <1>2
  <2> QED BY <1>1, <1>2, <1>3, <2>1, FollowsSame
<1>5. /\ \A r \in Calls : InFlight(r)' => InFlight(r)
      /\ \A u, r \in Calls : Before(u, r)' => Before(u, r)
  <2>1. CASE pending' = pending
    BY <2>1 DEF InFlight, Before
  <2>2. ASSUME NEW c \in Callers \ Calls, pending' = Append(pending, c)
        PROVE  /\ \A r \in Calls : InFlight(r)' => InFlight(r)
               /\ \A u, r \in Calls : Before(u, r)' => Before(u, r)
    <3>1. pending \in Seq(Callers)
      BY DEF Typed, Pipes
    <3>2. /\ DOMAIN Append(pending, c) = 1..Len(pending)+1
          /\ \A i \in DOMAIN pending : Append(pending, c)[i] = pending[i]
          /\ Append(pending, c)[Len(pending) + 1] = c
          /\ DOMAIN pending = 1..Len(pending) /\ Len(pending) \in Nat
      BY <2>2, <3>1, Appended
    <3>3. \A i \in DOMAIN pending' : pending'[i] \in Calls => i \in DOMAIN pending /\ pending'[i] = pending[i]
      <4> TAKE i \in DOMAIN pending'
      <4>1. i \in DOMAIN pending \/ i = Len(pending) + 1
        BY <2>2, <3>2
      <4> QED BY <2>2, <3>2, <4>1
    <3> QED BY <3>3 DEF InFlight, Before
  <2> QED BY <2>1, <2>2 DEF Aside
<1>6. /\ \A r \in Calls : Reader(r)' => Reader(r)
      /\ \A r \in Calls : HoldsIdle(r)' => HoldsIdle(r)
      /\ \A u \in Calls : Cutting(u)' => Cutting(u)
  BY <1>1, <1>5 DEF Reader, HoldsIdle, Cutting, Ok
<1> QED BY <1>1, <1>3, <1>4, <1>5, <1>6, TurnsKept

(* A request of the oldest run times out: the readers come after it.         *)
LEMMA TurnsTimeOut ==
    ASSUME Typed, Correlated, Turns, TimeOut
    PROVE  Turns'
<1>1. /\ UNCHANGED <<toServer, toClient, server, ended, task, call>>
      /\ \A c \in Callers : got[c] = NoReply
      /\ 1 \in DOMAIN pending /\ pending[1] \in Callers
      /\ got'[pending[1]].error = "late" /\ \A c \in Callers : c # pending[1] => got'[c] = NoReply
      /\ \A i \in DOMAIN pending' : i \in Nat /\ i + 1 \in DOMAIN pending /\ i + 1 > 1 /\ pending'[i] = pending[i + 1]
  BY TimeOutMoves
<1>2. /\ \A u \in Calls : (Live(u)' <=> Live(u)) /\ (Cutting(u)' <=> Cutting(u))
      /\ \A r, u \in Calls : Follows(r, u)' <=> Follows(r, u)
  <2>1. \A u \in Calls : (Live(u)' <=> Live(u)) /\ (Cutting(u)' <=> Cutting(u)) /\ (EndNoted(u)' <=> EndNoted(u))
    BY <1>1 DEF Live, Starting, EndNoted, Cutting
  <2> QED BY <1>1, <2>1 DEF Follows
<1>3. \A r \in Calls : (Reader(r)' => Reader(r) /\ \E j \in DOMAIN pending : j > 1 /\ pending[j] = r)
  <2> TAKE r \in Calls
  <2> HAVE Reader(r)'
  <2>1. PICK i \in DOMAIN pending' : pending'[i] = r
    BY DEF Reader, InFlight
  <2>2. i + 1 \in DOMAIN pending /\ pending[i + 1] = r /\ i + 1 > 1
    BY <1>1, <2>1
  <2> QED BY <1>1, <2>2 DEF Reader, InFlight
<1>4. \A r \in Calls : ~HoldsIdle(r)'
  <2> TAKE r \in Calls
  <2>1. r \in Callers /\ NoReply.error = "gone"
    BY Names, AnswersTyped
  <2>2. got'[r].error # None
    BY <1>1, <2>1 DEF None
  <2> QED BY <2>2 DEF HoldsIdle, Ok
<1>5. ASSUME NEW u \in Calls, Behind(u) PROVE Behind(u)'
  BY <1>2, <1>3, <1>4, <1>5 DEF Behind
<1>6. Held' /\ OneLive' /\ OpenerHolds'
  BY <1>1, <1>2 DEF Turns, Held, OneLive, OpenerHolds
<1>7. NotIdle'
  BY <1>1, <1>2, <1>5 DEF Turns, NotIdle
<1>8. InOrder'
  <2>1. \A u, r \in Calls : Before(u, r)' => Before(u, r)
    <3> TAKE u, r \in Calls
    <3> HAVE Before(u, r)'
    <3>1. PICK i, j \in DOMAIN pending' : i < j /\ pending'[i] = u /\ pending'[j] = r
      BY DEF Before
    <3>2. i + 1 \in DOMAIN pending /\ j + 1 \in DOMAIN pending /\ i + 1 < j + 1 /\ pending[i + 1] = u /\ pending[j + 1] = r
      BY <1>1, <3>1
    <3> QED BY <3>2 DEF Before
  <2> QED BY <1>1, <1>2, <2>1 DEF Turns, InOrder
<1>9. LateBehind'
  <2> SUFFICES ASSUME NEW u \in Calls, got'[u].error = "late", Cutting(u)' PROVE Behind(u)'
    BY DEF LateBehind
  <2>1. u = pending[1]
    <3>1. u \in Callers /\ NoReply.error = "gone"
      BY Names, AnswersTyped
    <3> QED BY <1>1, <3>1
  <2>2. ASSUME NEW r \in Calls, Reader(r)' PROVE Follows(r, u)'
    <3>1. Before(u, r)
      BY <1>1, <1>3, <2>1, <2>2 DEF Before
    <3>2. call[r].phase = "reading" /\ Cutting(u)
      BY <1>1, <1>2, <2>2 DEF Reader
    <3> QED BY <1>2, <3>1, <3>2 DEF Turns, InOrder
  <2> QED BY <1>4, <2>2 DEF Behind
<1> QED BY <1>6, <1>7, <1>8, <1>9 DEF Turns

(* What a step of run r leaves of the lines and of the requests in flight.   *)
LEMMA RunLines ==
    ASSUME Typed, NEW r \in Calls, RunMoves(r)
    PROVE  /\ \A i \in DOMAIN toServer : i \in DOMAIN toServer' /\ toServer'[i] = toServer[i]
           /\ \A i \in DOMAIN toServer' :
                \/ i \in DOMAIN toServer /\ toServer'[i] = toServer[i]
                \/ /\ \A k \in DOMAIN toServer : k < i
                   /\ \A x \in Calls : From(toServer'[i], x) => x = r
                   /\ From(toServer'[i], r) => \/ RunReads(r) /\ IsRead(toServer'[i], r)
                                               \/ RunStarts(r) /\ IsStart(toServer'[i], r)
                                               \/ RunCuts(r) /\ IsCut(toServer'[i], r)
<1>1. CASE RunOpens(r) \/ RunRests(r) \/ RunAbandons(r)
  <2>1. Mute
    BY <1>1 DEF RunOpens, RunRests, RunAbandons
  <2>2. /\ \A i \in DOMAIN toServer : i \in DOMAIN toServer' /\ toServer'[i] = toServer[i]
        /\ \A i \in DOMAIN toServer' : \/ i \in DOMAIN toServer /\ toServer'[i] = toServer[i]
                                       \/ \A x \in Calls : ~From(toServer'[i], x)
    BY <2>1, SilentLines DEF Mute
  <2>3. ASSUME NEW i \in DOMAIN toServer', i \notin DOMAIN toServer PROVE \A k \in DOMAIN toServer : k < i
    <3>1. toServer \in Seq(Sent)
      BY DEF Typed, Pipes
    <3>2. PICK m \in Sent : toServer' = Append(toServer, m)
      BY <2>1, <2>3 DEF Mute, Silent
    <3>3. DOMAIN Append(toServer, m) = 1..Len(toServer)+1 /\ DOMAIN toServer = 1..Len(toServer) /\ Len(toServer) \in Nat
      BY <3>1, Appended
    <3> QED BY <2>3, <3>2, <3>3
  <2> QED BY <2>2, <2>3
<1>2. CASE RunReads(r) \/ RunStarts(r) \/ RunCuts(r)
  <2>1. PICK m \in Sent : /\ toServer' = Append(toServer, m) /\ m.caller = r
                          /\ \/ RunReads(r) /\ IsRead(m, r)
                             \/ RunStarts(r) /\ IsStart(m, r)
                             \/ RunCuts(r) /\ IsCut(m, r)
    <3>1. r \in Callers
      BY Names
    <3>2. CASE RunReads(r)
      <4>1. /\ Request("thread/read", r, None) \in Sent /\ Request("thread/read", r, None).method = "thread/read"
            /\ Request("thread/read", r, None).caller = r
        BY <3>1, LinesTyped DEF Methods
      <4> QED BY <3>2, <4>1 DEF RunReads, Says1, IsRead
    <3>3. CASE RunStarts(r)
      <4>1. /\ Request("turn/start", r, None) \in Sent /\ Request("turn/start", r, None).method = "turn/start"
            /\ Request("turn/start", r, None).caller = r
        BY <3>1, LinesTyped DEF Methods
      <4> QED BY <3>3, <4>1 DEF RunStarts, Says1, IsStart
    <3>4. CASE RunCuts(r)
      <4>1. /\ Request("turn/interrupt", r, r) \in Sent /\ Request("turn/interrupt", r, r).method = "turn/interrupt"
            /\ Request("turn/interrupt", r, r).caller = r
        BY <3>1, LinesTyped DEF Methods
      <4> QED BY <3>4, <4>1 DEF RunCuts, Says1, IsCut
    <3> QED BY <1>2, <3>2, <3>3, <3>4
  <2>2. toServer \in Seq(Sent)
    BY DEF Typed, Pipes
  <2>3. /\ DOMAIN Append(toServer, m) = 1..Len(toServer)+1
        /\ \A i \in DOMAIN toServer : Append(toServer, m)[i] = toServer[i]
        /\ Append(toServer, m)[Len(toServer) + 1] = m
        /\ DOMAIN toServer = 1..Len(toServer) /\ Len(toServer) \in Nat
    BY <2>2, Appended
  <2>4. \A i \in DOMAIN toServer : i \in DOMAIN toServer' /\ toServer'[i] = toServer[i]
    BY <2>1, <2>3
  <2>5. ASSUME NEW i \in DOMAIN toServer', i \notin DOMAIN toServer
        PROVE  toServer'[i] = m /\ \A k \in DOMAIN toServer : k < i
    <3>1. i = Len(toServer) + 1
      BY <2>1, <2>3, <2>5
    <3> QED BY <2>1, <2>3, <3>1
  <2> QED BY <2>1, <2>4, <2>5 DEF From
<1> QED BY <1>1, <1>2 DEF RunMoves

(* And of the turns of the others.                                           *)
LEMMA RunOthers ==
    ASSUME Typed, Correlated, NEW r \in Calls, RunMoves(r)
    PROVE  /\ UNCHANGED <<server, toClient>> /\ got'[r].error = "gone" /\ got'[r] = NoReply
           /\ \A x \in Calls \ {r} : call'[x] = call[x] /\ got'[x] = got[x]
           /\ \A x \in Calls \ {r} : (InFlight(x)' => InFlight(x)) /\ (Live(x)' <=> Live(x))
           /\ \A u, x \in Calls : Before(u, x)' /\ x # r => Before(u, x) /\ u # r
           /\ Live(r)' => call'[r].phase = "opening" \/ RunStarts(r) \/ Starting(r) \/ server.turn = r \/ EndNoted(r)
           /\ \A x \in Calls \ {r}, u \in Calls : Follows(x, u) /\ (Live(u)' => Live(u)) => Follows(x, u)'
<1>1. /\ \A i \in DOMAIN toServer : i \in DOMAIN toServer' /\ toServer'[i] = toServer[i]
      /\ \A i \in DOMAIN toServer' :
                \/ i \in DOMAIN toServer /\ toServer'[i] = toServer[i]
                \/ /\ \A x \in Calls : From(toServer'[i], x) => x = r
                   /\ From(toServer'[i], r) => \/ RunReads(r) /\ IsRead(toServer'[i], r)
                                               \/ RunStarts(r) /\ IsStart(toServer'[i], r)
                                               \/ RunCuts(r) /\ IsCut(toServer'[i], r)
  BY RunLines
<1>2. /\ UNCHANGED <<server, toClient>> /\ got'[r].error = "gone" /\ got'[r] = NoReply
      /\ \A x \in Calls \ {r} : call'[x] = call[x] /\ got'[x] = got[x]
  BY Names, AnswersTyped DEF RunMoves, Stays
<1>3. ~InFlight(r)
  BY Names DEF RunMoves, Stays, Correlated
<1>4. /\ \A x \in Calls \ {r} : InFlight(x)' => InFlight(x)
      /\ \A u, x \in Calls : Before(u, x)' /\ x # r => Before(u, x) /\ u # r
  <2>1. \A u, x \in Calls : Before(u, x) => u # r
    BY <1>3 DEF Before, InFlight
  <2>2. CASE pending' = pending
    BY <2>1, <2>2 DEF InFlight, Before
  <2>3. CASE pending' = Append(pending, r)
    <3>1. pending \in Seq(Callers) /\ r \in Callers
      BY Names DEF Typed, Pipes
    <3>2. /\ DOMAIN Append(pending, r) = 1..Len(pending)+1
          /\ \A i \in DOMAIN pending : Append(pending, r)[i] = pending[i]
          /\ Append(pending, r)[Len(pending) + 1] = r
          /\ DOMAIN pending = 1..Len(pending) /\ Len(pending) \in Nat
      BY <3>1, Appended
    <3>3. \A i \in DOMAIN pending' : pending'[i] # r => i \in DOMAIN pending /\ pending'[i] = pending[i]
      BY <2>3, <3>2
    <3>4. \A x \in Calls \ {r} : InFlight(x)' => InFlight(x)
      BY <3>3 DEF InFlight
    <3>5. ASSUME NEW u \in Calls, NEW x \in Calls, Before(u, x)', x # r PROVE Before(u, x)
      <4>1. PICK i, j \in DOMAIN pending' : i < j /\ pending'[i] = u /\ pending'[j] = x
        BY <3>5 DEF Before
      <4>2. j \in DOMAIN pending /\ pending[j] = x
        BY <3>3, <3>5, <4>1
      <4>3. i \in DOMAIN pending /\ pending[i] = u
        BY <2>3, <3>2, <4>1, <4>2
      <4> QED BY <4>1, <4>2, <4>3 DEF Before
    <3> QED BY <2>1, <3>4, <3>5
  <2> QED BY <2>2, <2>3 DEF RunMoves, Stays
<1>5. /\ \A x \in Calls \ {r} : Starting(x)' <=> Starting(x)
      /\ Starting(r)' => Starting(r) \/ RunStarts(r)
  <2>1. \A x \in Calls \ {r} : Starting(x)' => Starting(x)
    BY <1>1 DEF Starting, IsStart, From
  <2>2. \A x \in Calls \ {r} : Starting(x) => Starting(x)'
    BY <1>1 DEF Starting
  <2>3. Starting(r)' => Starting(r) \/ RunStarts(r)
    <3> SUFFICES ASSUME NEW i \in DOMAIN toServer', IsStart(toServer'[i], r) PROVE Starting(r) \/ RunStarts(r)
      BY DEF Starting
    <3>1. From(toServer'[i], r) /\ ~IsRead(toServer'[i], r) /\ ~IsCut(toServer'[i], r)
      BY DEF IsStart, IsRead, IsCut, From
    <3> QED BY <1>1, <3>1 DEF Starting
  <2> QED BY <2>1, <2>2, <2>3
<1>6. \A x \in Calls : EndNoted(x)' <=> EndNoted(x)
  BY <1>2 DEF EndNoted
<1>7. /\ \A x \in Calls \ {r} : Live(x)' <=> Live(x)
      /\ Live(r)' => call'[r].phase = "opening" \/ RunStarts(r) \/ Starting(r) \/ server.turn = r \/ EndNoted(r)
  BY <1>2, <1>5, <1>6 DEF Live
<1>8. ASSUME NEW x \in Calls \ {r}, NEW u \in Calls, Follows(x, u), Live(u)' => Live(u) PROVE Follows(x, u)'
  <2>1. \A i \in DOMAIN toServer' : From(toServer'[i], x) => i \in DOMAIN toServer
    BY <1>1
  <2>2. call'[x].phase = "reading" => call[x].phase = "reading"
    BY <1>2
  <2> QED BY <1>1, <1>2, <1>8, <2>1, <2>2, FollowsSame
<1> QED BY <1>2, <1>4, <1>7, <1>8

(* A run that holds the thread already, or rests.                            *)
LEMMA TurnsRun ==
    ASSUME Typed, Correlated, Turns, NEW r \in Calls, RunMoves(r), RunStarts(r) \/ RunCuts(r) \/ RunRests(r)
    PROVE  Turns'
<1>1. /\ got'[r].error = "gone" /\ \A x \in Calls \ {r} : call'[x] = call[x] /\ got'[x] = got[x]
      /\ \A x \in Calls \ {r} : (InFlight(x)' => InFlight(x)) /\ (Live(x)' <=> Live(x))
      /\ \A u, x \in Calls : Before(u, x)' /\ x # r => Before(u, x) /\ u # r
      /\ Live(r)' => call'[r].phase = "opening" \/ RunStarts(r) \/ Starting(r) \/ server.turn = r \/ EndNoted(r)
      /\ \A x \in Calls \ {r}, u \in Calls : Follows(x, u) /\ (Live(u)' => Live(u)) => Follows(x, u)'
  BY RunOthers
<1>2. call'[r].phase \notin {"reading", "opening"}
  BY DEF RunStarts, RunCuts, RunRests
<1>3. \A u \in Calls : Live(u)' => Live(u)
  <2>1. RunStarts(r) => Live(r)
    BY DEF RunStarts, Live
  <2> QED BY <1>1, <1>2, <2>1 DEF Live
<1>4. task'.call = task.call
  <2>1. \A t : [task EXCEPT !.turnId = t].call = task.call
    BY DEF Typed, Rest, IsTask, TaskRecords
  <2> QED BY <2>1 DEF RunStarts, RunCuts, RunRests, HoldsOn
<1>5. \A x, u \in Calls : call'[x].phase = "reading" /\ Follows(x, u) => Follows(x, u)'
  BY <1>1, <1>2, <1>3
<1>6. \A x \in Calls : Reader(x)' => Reader(x)
  BY <1>1, <1>2 DEF Reader
<1>7. \A x \in Calls : HoldsIdle(x)' => HoldsIdle(x)
  BY <1>1, <1>2 DEF HoldsIdle, Ok
<1>8. \A u \in Calls : call'[u].phase = "opening" => call[u].phase = "opening"
  BY <1>1, <1>2
<1>9. \A u, x \in Calls : Before(u, x)' /\ Cutting(u)' /\ call'[x].phase = "reading" => Before(u, x) /\ Cutting(u) /\ call[x].phase = "reading"
  BY <1>1, <1>2 DEF Cutting
<1>10. \A u \in Calls : got'[u].error = "late" /\ Cutting(u)' => got[u].error = "late" /\ Cutting(u)
  BY <1>1 DEF Cutting
<1> QED BY <1>3, <1>4, <1>5, <1>6, <1>7, <1>8, <1>9, <1>10, TurnsKept

(* A run that reads the thread comes after the turn that is live.            *)
LEMMA TurnsReads ==
    ASSUME Typed, Correlated, Wire, Turns, NEW r \in Calls, RunMoves(r), RunReads(r)
    PROVE  Turns'
<1>1. /\ UNCHANGED <<server, toClient>> /\ got'[r].error = "gone" /\ got'[r] = NoReply
      /\ \A x \in Calls \ {r} : call'[x] = call[x] /\ got'[x] = got[x]
      /\ \A x \in Calls \ {r} : (InFlight(x)' => InFlight(x)) /\ (Live(x)' <=> Live(x))
      /\ \A u, x \in Calls : Before(u, x)' /\ x # r => Before(u, x) /\ u # r
      /\ Live(r)' => call'[r].phase = "opening" \/ RunStarts(r) \/ Starting(r) \/ server.turn = r \/ EndNoted(r)
      /\ \A x \in Calls \ {r}, u \in Calls : Follows(x, u) /\ (Live(u)' => Live(u)) => Follows(x, u)'
  BY RunOthers
<1>2. call[r].phase = "idle" /\ call'[r].phase = "reading" /\ task' = task
  BY DEF RunReads, HoldsOn
<1>3. ~Live(r) /\ ~Live(r)'
  <2>1. ~Live(r)
    BY <1>2, LiveRuns
  <2>2. ~RunStarts(r)
    BY <1>2 DEF RunStarts
  <2> QED BY <1>1, <1>2, <2>1, <2>2 DEF Live
<1>4. \A u \in Calls : Live(u)' <=> Live(u)
  BY <1>1, <1>3
<1>5. ASSUME NEW u \in Calls, call[u].phase # "opening" PROVE Follows(r, u)'
  <2> SUFFICES ASSUME Live(u)
               PROVE  /\ \A i \in DOMAIN toServer' : IsRead(toServer'[i], r) =>
                           server'.turn = u \/ EndNoted(u)' \/ \E k \in DOMAIN toServer' : k < i /\ IsStart(toServer'[k], u)
                      /\ \A j \in DOMAIN toClient' : SaysIdle(toClient'[j], r) => \E k \in DOMAIN toClient' : k < j /\ IsEnd(toClient'[k], u)
    BY <1>4 DEF Follows
  <2>1. WireOf(r)
    BY DEF Wire
  <2>2. ~Asking(r) /\ ~Replied(r)
    BY <1>2, <2>1 DEF WireOf, OneLine
  <2>3. ASSUME NEW i \in DOMAIN toServer', IsRead(toServer'[i], r)
        PROVE  server'.turn = u \/ EndNoted(u)' \/ \E k \in DOMAIN toServer' : k < i /\ IsStart(toServer'[k], u)
    <3>1. From(toServer'[i], r)
      BY <2>3 DEF IsRead, From
    <3>2. /\ \A k \in DOMAIN toServer : k \in DOMAIN toServer' /\ toServer'[k] = toServer[k]
          /\ (i \in DOMAIN toServer /\ toServer'[i] = toServer[i]) \/ \A k \in DOMAIN toServer : k < i
      BY RunLines
    <3>3. \A k \in DOMAIN toServer : k < i
      BY <2>2, <3>1, <3>2 DEF Asking
    <3>4. CASE Starting(u)
      BY <3>2, <3>3, <3>4 DEF Starting
    <3>5. CASE server.turn = u \/ EndNoted(u)
      BY <1>1, <3>5 DEF EndNoted
    <3> QED BY <1>5, <3>4, <3>5 DEF Live
  <2>4. \A j \in DOMAIN toClient' : ~SaysIdle(toClient'[j], r)
    BY <1>1, <2>2 DEF SaysIdle, Replied
  <2> QED BY <2>3, <2>4
<1>6. ASSUME NEW u \in Calls, call[u].phase # "opening", Behind(u) PROVE Behind(u)'
  <2>1. ASSUME NEW x \in Calls PROVE Reader(x)' => Follows(x, u)'
    <3>1. CASE x = r
      BY <1>5, <1>6, <3>1
    <3>2. CASE x # r
      BY <1>1, <1>4, <1>6, <3>2 DEF Behind, Reader
    <3> QED BY <3>1, <3>2
  <2>2. ASSUME NEW x \in Calls PROVE ~HoldsIdle(x)'
    BY <1>1, <1>6 DEF Behind, HoldsIdle, Ok
  <2> QED BY <2>1, <2>2 DEF Behind
<1>7. Held' /\ OneLive' /\ OpenerHolds'
  BY <1>1, <1>2, <1>4 DEF Turns, Held, OneLive, OpenerHolds
<1>8. NotIdle'
  BY <1>2, <1>4, <1>6 DEF Turns, NotIdle, OpenerHolds
<1>9. InOrder'
  <2> SUFFICES ASSUME NEW u \in Calls, NEW x \in Calls, Before(u, x)', Cutting(u)', call'[x].phase = "reading"
               PROVE  Follows(x, u)'
    BY DEF InOrder
  <2>1. u # r /\ Cutting(u) /\ call[u].phase # "opening"
    BY <1>1, <1>2 DEF Cutting
  <2>2. CASE x = r
    BY <1>5, <2>1, <2>2
  <2>3. CASE x # r
    BY <1>1, <1>4, <2>1, <2>3 DEF Turns, InOrder
  <2> QED BY <2>2, <2>3
<1>10. LateBehind'
  <2> SUFFICES ASSUME NEW u \in Calls, got'[u].error = "late", Cutting(u)', Live(u)' PROVE Behind(u)'
    BY DEF LateBehind
  <2>1. u # r /\ Cutting(u) /\ call[u].phase # "opening" /\ got[u].error = "late"
    BY <1>1 DEF Cutting
  <2> QED BY <1>4, <1>6, <2>1 DEF Turns, LateBehind
<1> QED BY <1>7, <1>8, <1>9, <1>10 DEF Turns

(* A run that finds the thread idle, and no task, finds no live turn.        *)
LEMMA NoneLive ==
    ASSUME Typed, Turns, NEW r \in Calls, RunOpens(r)
    PROVE  \A u \in Calls : ~Live(u)
<1>1. HoldsIdle(r) /\ task.call = None
  BY TaskUpdates DEF RunOpens, HoldsIdle
<1> QED BY <1>1, Names DEF Turns, NotIdle, Behind

LEMMA TurnsOpens ==
    ASSUME Typed, Correlated, Turns, NEW r \in Calls, RunMoves(r), RunOpens(r)
    PROVE  Turns'
<1>1. \A u \in Calls : ~Live(u)
  BY NoneLive
<1>2. \A u \in Calls : Live(u)' => u = r
  BY <1>1, RunOthers
<1>3. call'[r].phase = "opening" /\ task'.call = r
  BY TaskUpdates DEF RunOpens
<1>4. \A u \in Calls : call'[u].phase = "opening" => u = r
  BY <1>2 DEF Live
<1>5. \A u \in Calls : Cutting(u)' => ~Live(u)'
  BY <1>2, <1>3 DEF Cutting
<1>6. InOrder'
  BY <1>5 DEF InOrder, Follows
<1> QED BY <1>2, <1>3, <1>4, <1>5, <1>6 DEF Turns, Held, OneLive, OpenerHolds, NotIdle, LateBehind

(* A run that gives up its task has no turn, or has been timed out.          *)
LEMMA TurnsAbandons ==
    ASSUME Typed, Correlated, Wire, Turns, NEW r \in Calls, RunMoves(r), RunAbandons(r), ~dropped'
    PROVE  Turns'
<1>1. /\ UNCHANGED <<server, toClient>> /\ got'[r].error = "gone" /\ got'[r] = NoReply
      /\ \A x \in Calls \ {r} : call'[x] = call[x] /\ got'[x] = got[x]
      /\ \A x \in Calls \ {r} : (InFlight(x)' => InFlight(x)) /\ (Live(x)' <=> Live(x))
      /\ \A u, x \in Calls : Before(u, x)' /\ x # r => Before(u, x) /\ u # r
      /\ Live(r)' => call'[r].phase = "opening" \/ RunStarts(r) \/ Starting(r) \/ server.turn = r \/ EndNoted(r)
      /\ \A x \in Calls \ {r}, u \in Calls : Follows(x, u) /\ (Live(u)' => Live(u)) => Follows(x, u)'
  BY RunOthers
<1>2. /\ call[r].phase \in {"opening", "starting", "cutting"} /\ call'[r].phase \in {"failed", "fresh"}
      /\ call[r].phase # "opening" => got[r] # NoReply /\ ~Ok(r)
      /\ task'.call = None /\ (task = NoTask \/ task.call = r)
  BY TaskUpdates DEF RunAbandons
<1>3. Live(r)' => (Starting(r) \/ server.turn = r \/ EndNoted(r)) /\ Live(r)
  <2>1. ~RunStarts(r)
    BY <1>2 DEF RunStarts
  <2> QED BY <1>1, <1>2, <2>1 DEF Live
<1>4. \A u \in Calls : Live(u)' => Live(u)
  BY <1>1, <1>3
<1>5. ASSUME NEW u \in Calls, Behind(u) PROVE Behind(u)'
  <2>1. \A x \in Calls : Reader(x)' => Follows(x, u)'
    BY <1>1, <1>2, <1>4, <1>5 DEF Behind, Reader
  <2>2. \A x \in Calls : ~HoldsIdle(x)'
    BY <1>1, <1>5 DEF Behind, HoldsIdle, Ok
  <2> QED BY <2>1, <2>2 DEF Behind
<1>6. Live(r)' => Behind(r)
  <2> SUFFICES ASSUME Live(r)' PROVE Behind(r)
    OBVIOUS
  <2>1. call[r].phase # "opening"
    BY <1>3, LiveRuns
  <2>2. CASE got[r].error = "late"
    BY <1>2, <1>3, <2>1, <2>2 DEF Turns, LateBehind, Cutting
  <2>3. CASE got[r].error # "late"
    <3>1. WireOf(r) /\ got[r] # NoReply /\ Refused(got[r]) /\ Heard(r)
      BY <1>2, <2>1, <2>3 DEF Wire, Refused, Ok, Heard
    <3>2. ~Asking(r)
      BY <3>1 DEF WireOf, OneLine
    <3>3. ~Starting(r)
      BY <3>2 DEF Starting, Asking, IsStart, From
    <3>4. server.turn # r /\ (ended[r] = "no" \/ ~EndNoted(r))
      BY <1>2, <2>1, <3>1 DEF WireOf, Faults
    <3> QED BY <1>3, <3>3, <3>4, LiveRuns
  <2> QED BY <2>2, <2>3
<1>7. Held' /\ OneLive'
  BY <1>2, <1>4 DEF Turns, Held, OneLive
<1>8. OpenerHolds'
  <2> SUFFICES ASSUME NEW u \in Calls, call'[u].phase = "opening" PROVE FALSE
    BY DEF OpenerHolds
  <2>1. u # r /\ call[u].phase = "opening"
    BY <1>1, <1>2
  <2>2. task.call = u /\ u # None
    BY <2>1, Names DEF Turns, OpenerHolds
  <2> QED BY <1>2, <2>1, <2>2, TaskUpdates
<1>9. NotIdle'
  <2> SUFFICES ASSUME NEW u \in Calls, Live(u)' PROVE Behind(u)'
    BY DEF NotIdle
  <2>1. CASE task.call # u
    BY <1>4, <1>5, <2>1 DEF Turns, NotIdle
  <2>2. CASE task.call = u
    <3>1. u = r
      BY <1>2, <2>2, TaskUpdates, Names
    <3> QED BY <1>5, <1>6, <3>1
  <2> QED BY <2>1, <2>2
<1>10. InOrder'
  <2> SUFFICES ASSUME NEW u \in Calls, NEW x \in Calls, Before(u, x)', Cutting(u)', call'[x].phase = "reading"
               PROVE  Follows(x, u)'
    BY DEF InOrder
  <2>1. x # r
    BY <1>2
  <2>2. Before(u, x) /\ Cutting(u) /\ call[x].phase = "reading"
    BY <1>1, <2>1 DEF Cutting
  <2> QED BY <1>1, <1>4, <2>1, <2>2 DEF Turns, InOrder
<1>11. LateBehind'
  <2> SUFFICES ASSUME NEW u \in Calls, got'[u].error = "late", Cutting(u)', Live(u)' PROVE Behind(u)'
    BY DEF LateBehind
  <2>1. u # r /\ Cutting(u) /\ got[u].error = "late"
    BY <1>1 DEF Cutting
  <2> QED BY <1>4, <1>5, <2>1 DEF Turns, LateBehind
<1> QED BY <1>7, <1>8, <1>9, <1>10, <1>11 DEF Turns

(* The runs stay where they are, and hear nothing.                           *)
LEMMA TurnsStill ==
    ASSUME Turns, task'.call = task.call, UNCHANGED <<pending, got, call>>,
           \A u \in Calls : Live(u)' => Live(u),
           \A r, u \in Calls : call[r].phase = "reading" /\ Live(u)' /\ Follows(r, u) => Follows(r, u)'
    PROVE  Turns'
<1>1. \A r, u \in Calls : call'[r].phase = "reading" /\ Follows(r, u) => Follows(r, u)'
  BY DEF Follows
<1>2. /\ \A r \in Calls : (Reader(r)' => Reader(r)) /\ (HoldsIdle(r)' => HoldsIdle(r))
      /\ \A u \in Calls : Cutting(u)' <=> Cutting(u)
      /\ \A u, r \in Calls : Before(u, r)' => Before(u, r)
  BY DEF Reader, InFlight, HoldsIdle, Ok, Cutting, Before
<1> QED BY <1>1, <1>2, TurnsKept

(* No turn is left.                                                          *)
LEMMA TurnsNone ==
    ASSUME \A u \in Calls : ~Live(u)'
    PROVE  Turns'
<1>1. \A u \in Calls : call'[u].phase # "opening"
  BY DEF Live
<1>2. \A r, u \in Calls : Follows(r, u)'
  BY DEF Follows
<1> QED BY <1>1, <1>2 DEF Turns, Held, OneLive, OpenerHolds, NotIdle, InOrder, LateBehind

LEMMA TurnsTakes ==
    ASSUME Typed, Correlated, Wire, Turns, NEW m \in Told, Takes(m), TakesReply(m) \/ TakesEnd(m) \/ TakesOther(m)
    PROVE  Turns'
<1>1. /\ UNCHANGED <<toServer, server, call>>
      /\ toClient[1] = m /\ 1 \in DOMAIN toClient /\ DOMAIN toClient \subseteq Nat \ {0} /\ DOMAIN toClient' \subseteq Nat \ {0}
      /\ \A i \in DOMAIN toClient' : i + 1 \in DOMAIN toClient /\ toClient'[i] = toClient[i + 1] /\ i + 1 # 1
      /\ \A i \in DOMAIN toClient : i = 1 \/ (i - 1 \in DOMAIN toClient' /\ toClient'[i - 1] = toClient[i])
  BY TakenLines
<1>2. \A u \in Calls : (EndNoted(u)' => EndNoted(u)) /\ (Live(u)' => Live(u))
  <2>1. \A u \in Calls : EndNoted(u)' => EndNoted(u)
    BY <1>1 DEF EndNoted
  <2> QED BY <1>1, <2>1 DEF Live, Starting
<1>3. CASE m.method \in Ends
  <2>1. PICK v \in Calls : v = m.turn
    BY <1>3, ToldKinds
  <2>2. IsEnd(m, v) /\ EndNoted(v)
    BY <1>1, <1>3, <2>1 DEF IsEnd, EndNoted
  <2>3. ~Live(v)'
    <3>1. ~EndNoted(v)'
      <4> SUFFICES ASSUME NEW i \in DOMAIN toClient', IsEnd(toClient'[i], v) PROVE FALSE
        BY DEF EndNoted
      <4>1. i + 1 \in DOMAIN toClient /\ IsEnd(toClient[i + 1], v) /\ i + 1 # 1
        BY <1>1
      <4> QED BY <1>1, <2>2, <4>1 DEF Wire, WireOf, Begun
    <3>2. ~Starting(v) /\ server.turn # v /\ call[v].phase # "opening"
      BY <2>2, LiveRuns
    <3>3. ~Starting(v)'
      BY <1>1, <3>2 DEF Starting
    <3> QED BY <1>1, <3>1, <3>2, <3>3 DEF Live
  <2>4. \A u \in Calls : ~Live(u)'
    BY <1>2, <2>2, <2>3 DEF Turns, OneLive, Live
  <2> QED BY <2>4, TurnsNone
<1>4. CASE m.method \notin Ends
  <2>1. task'.call = task.call
    BY <1>4 DEF TakesReply, TakesEnd, TakesOther
  <2>2. \A u \in Calls : EndNoted(u) => EndNoted(u)'
    <3> TAKE u \in Calls
    <3> HAVE EndNoted(u)
    <3>1. PICK k \in DOMAIN toClient : IsEnd(toClient[k], u)
      BY DEF EndNoted
    <3>2. k # 1
      BY <1>1, <1>4, <3>1 DEF IsEnd
    <3> QED BY <1>1, <3>1, <3>2 DEF EndNoted
  <2>3. ASSUME NEW r \in Calls, NEW u \in Calls, call[r].phase = "reading", Live(u)', Follows(r, u) PROVE Follows(r, u)'
    <3>1. /\ \A i \in DOMAIN toServer : IsRead(toServer[i], r) =>
               server.turn = u \/ EndNoted(u) \/ \E k \in DOMAIN toServer : k < i /\ IsStart(toServer[k], u)
          /\ \A j \in DOMAIN toClient : SaysIdle(toClient[j], r) => \E k \in DOMAIN toClient : k < j /\ IsEnd(toClient[k], u)
      BY <1>2, <2>3 DEF Follows
    <3>2. ASSUME NEW j \in DOMAIN toClient', SaysIdle(toClient'[j], r) PROVE \E k \in DOMAIN toClient' : k < j /\ IsEnd(toClient'[k], u)
      <4>1. PICK k \in DOMAIN toClient : k < j + 1 /\ IsEnd(toClient[k], u)
        BY <1>1, <3>1, <3>2
      <4>2. k # 1
        BY <1>1, <1>4, <4>1 DEF IsEnd
      <4>3. k - 1 \in DOMAIN toClient' /\ toClient'[k - 1] = toClient[k] /\ k - 1 < j
        BY <1>1, <4>1, <4>2
      <4> QED BY <4>1, <4>3
    <3> QED BY <1>1, <2>2, <3>1, <3>2 DEF Follows
  <2>4. /\ \A r \in Calls : InFlight(r)' => InFlight(r)
        /\ \A u, r \in Calls : Before(u, r)' => Before(u, r)
    <3>1. CASE UNCHANGED pending
      BY <3>1 DEF InFlight, Before
    <3>2. ASSUME NEW n \in DOMAIN pending, pending' = RemoveAt(pending, n)
          PROVE  /\ \A r \in Calls : InFlight(r)' => InFlight(r)
                 /\ \A u, r \in Calls : Before(u, r)' => Before(u, r)
      <4>1. pending \in Seq(Callers)
        BY DEF Typed, Pipes
      <4>2. /\ DOMAIN pending' = 1..Len(pending)-1 /\ DOMAIN pending = 1..Len(pending) /\ Len(pending) \in Nat
            /\ \A k \in 1..Len(pending)-1 : pending'[k] = IF k < n THEN pending[k] ELSE pending[k + 1]
        BY <3>2, <4>1, Removed
      <4>3. \A r \in Calls : InFlight(r)' => InFlight(r)
        <5> TAKE r \in Calls
        <5> HAVE InFlight(r)'
        <5>1. PICK k \in DOMAIN pending' : pending'[k] = r
          BY DEF InFlight
        <5>2. k \in DOMAIN pending /\ k + 1 \in DOMAIN pending /\ pending'[k] \in {pending[k], pending[k + 1]}
          BY <4>2, <5>1
        <5> QED BY <5>1, <5>2 DEF InFlight
      <4>4. \A u, r \in Calls : Before(u, r)' => Before(u, r)
        <5> TAKE u, r \in Calls
        <5> HAVE Before(u, r)'
        <5>1. PICK i, j \in DOMAIN pending' : i < j /\ pending'[i] = u /\ pending'[j] = r
          BY DEF Before
        <5>2. CASE j < n
          BY <3>2, <4>2, <5>1, <5>2 DEF Before
        <5>3. CASE i < n /\ ~(j < n)
          <6>1. pending[i] = u /\ pending[j + 1] = r /\ i \in DOMAIN pending /\ j + 1 \in DOMAIN pending /\ i < j + 1
            BY <3>2, <4>2, <5>1, <5>3
          <6> QED BY <6>1 DEF Before
        <5>4. CASE ~(i < n)
          <6>1. pending[i + 1] = u /\ pending[j + 1] = r /\ i + 1 \in DOMAIN pending /\ j + 1 \in DOMAIN pending /\ i + 1 < j + 1
            BY <3>2, <4>2, <5>1, <5>4
          <6> QED BY <6>1 DEF Before
        <5> QED BY <5>2, <5>3, <5>4
      <4> QED BY <4>3, <4>4
    <3> QED BY <3>1, <3>2 DEF TakesReply, TakesEnd, TakesOther
  <2>5. ASSUME NEW r \in Calls, HoldsIdle(r)' PROVE HoldsIdle(r) \/ (Reader(r) /\ \A u \in Calls : Live(u) => ~Follows(r, u))
    <3>1. \/ got'[r] = got[r]
          \/ IsReply(m, r) /\ got'[r] = m /\ InFlight(r)
      BY TakenAnswers, Names
    <3>2. CASE got'[r] = got[r]
      BY <1>1, <2>5, <3>2 DEF HoldsIdle, Ok
    <3>3. CASE IsReply(m, r) /\ got'[r] = m /\ InFlight(r)
      <4>1. call[r].phase = "reading" /\ SaysIdle(toClient[1], r)
        BY <1>1, <2>5, <3>3 DEF HoldsIdle, Ok, SaysIdle
      <4>2. \A k \in DOMAIN toClient : ~(k < 1)
        BY <1>1
      <4> QED BY <1>1, <3>3, <4>1, <4>2 DEF Reader, Follows
    <3> QED BY <3>1, <3>2, <3>3
  <2>6. \A r \in Calls : Reader(r)' => Reader(r)
    BY <1>1, <2>4 DEF Reader
  <2>7. \A u \in Calls : Cutting(u)' <=> Cutting(u)
    BY <1>1 DEF Cutting
  <2>8. \A u \in Calls : got'[u].error = "late" => got[u].error = "late"
    BY TakenAnswers, Names
  <2>9. \A r, u \in Calls : call'[r].phase = "reading" /\ Follows(r, u) => Follows(r, u)'
    BY <1>1, <2>3 DEF Follows
  <2> QED BY <1>1, <1>2, <2>1, <2>4, <2>5, <2>6, <2>7, <2>8, <2>9, TurnsKept
<1> QED BY <1>3, <1>4

LEMMA TurnsServes ==
    ASSUME Typed, Correlated, Wire, Turns, NEW m \in Sent, NEW s \in Seq(Told), Serves(m, s),
           ServesStart(m, s) \/ ServesReply(m, s) \/ ServesAnswer(m, s) \/ ServesNothing(m, s)
    PROVE  Turns'
<1>1. /\ UNCHANGED <<pending, got, call, task>>
      /\ toServer[1] = m /\ 1 \in DOMAIN toServer /\ DOMAIN toServer \subseteq Nat \ {0} /\ DOMAIN toServer' \subseteq Nat \ {0}
      /\ \A i \in DOMAIN toServer' : i + 1 \in DOMAIN toServer /\ toServer'[i] = toServer[i + 1] /\ i + 1 # 1
      /\ \A i \in DOMAIN toServer : i = 1 \/ (i - 1 \in DOMAIN toServer' /\ toServer'[i - 1] = toServer[i])
  BY ServedLines
<1>2. /\ DOMAIN toClient' \subseteq Nat /\ DOMAIN toClient \subseteq DOMAIN toClient' /\ Len(toClient) \in Nat /\ DOMAIN s \subseteq Nat \ {0}
      /\ \A i \in DOMAIN toClient : toClient'[i] = toClient[i] /\ i <= Len(toClient)
      /\ \A i \in DOMAIN toClient' : \/ i \in DOMAIN toClient
                                     \/ i > Len(toClient) /\ i - Len(toClient) \in DOMAIN s /\ toClient'[i] = s[i - Len(toClient)]
  BY SaidLines DEF Serves
<1>3. /\ \A i \in DOMAIN s : s[i].method \notin Ends
      /\ \A r \in Calls, i \in DOMAIN s : IsReply(s[i], r) => From(m, r)
      /\ server'.turn = server.turn \/ (ServesStart(m, s) /\ server.turn = None /\ IsStart(m, server'.turn))
  BY Sayings
<1>4. \A u \in Calls : EndNoted(u)' <=> EndNoted(u)
  <2>1. \A u \in Calls : EndNoted(u)' => EndNoted(u)
    BY <1>2, <1>3 DEF EndNoted, IsEnd
  <2>2. \A u \in Calls : EndNoted(u) => EndNoted(u)'
    BY <1>2 DEF EndNoted
  <2> QED BY <2>1, <2>2
<1>5. \A u \in Calls : Live(u)' => Live(u)
  <2> TAKE u \in Calls
  <2>1. Starting(u)' => Starting(u)
    BY <1>1 DEF Starting
  <2>2. server'.turn = u => server.turn = u \/ Starting(u)
    BY <1>1, <1>3 DEF Starting
  <2> QED BY <1>1, <1>4, <2>1, <2>2 DEF Live
<1>6. ASSUME NEW r \in Calls, NEW u \in Calls, call[r].phase = "reading", Live(u)', Follows(r, u) PROVE Follows(r, u)'
  <2>1. /\ \A i \in DOMAIN toServer : IsRead(toServer[i], r) =>
             server.turn = u \/ EndNoted(u) \/ \E k \in DOMAIN toServer : k < i /\ IsStart(toServer[k], u)
        /\ \A j \in DOMAIN toClient : SaysIdle(toClient[j], r) => \E k \in DOMAIN toClient : k < j /\ IsEnd(toClient[k], u)
    BY <1>5, <1>6 DEF Follows
  <2>2. server.turn = u => server'.turn = u
    BY <1>3, Names
  <2>3. IsStart(m, u) => server'.turn = u
    <3> SUFFICES ASSUME IsStart(m, u) PROVE server'.turn = u
      OBVIOUS
    <3>1. CASE ServesStart(m, s)
      BY <3>1 DEF ServesStart, IsStart
    <3>2. CASE ~ServesStart(m, s)
      <4>1. Starting(u) /\ WireOf(u)
        BY <1>1 DEF Starting, Wire
      <4>2. server.turn # u /\ ~EndNoted(u) /\ call[u].phase # "opening"
        BY <4>1, LiveRuns
      <4>3. ~Starting(u)'
        <5> SUFFICES ASSUME NEW i \in DOMAIN toServer', IsStart(toServer'[i], u) PROVE FALSE
          BY DEF Starting
        <5>1. i + 1 \in DOMAIN toServer /\ From(toServer[i + 1], u) /\ i + 1 # 1 /\ From(toServer[1], u)
          BY <1>1 DEF IsStart, From
        <5> QED BY <1>1, <4>1, <5>1 DEF WireOf, OneLine
      <4> QED BY <1>1, <1>3, <1>4, <1>6, <3>2, <4>2, <4>3 DEF Live
    <3> QED BY <3>1, <3>2
  <2>4. ASSUME NEW i \in DOMAIN toServer', IsRead(toServer'[i], r)
        PROVE  server'.turn = u \/ EndNoted(u)' \/ \E k \in DOMAIN toServer' : k < i /\ IsStart(toServer'[k], u)
    <3>1. i + 1 \in DOMAIN toServer /\ IsRead(toServer[i + 1], r)
      BY <1>1, <2>4
    <3>2. CASE server.turn = u \/ EndNoted(u)
      BY <1>4, <2>2, <3>2
    <3>3. ASSUME NEW k \in DOMAIN toServer, k < i + 1, IsStart(toServer[k], u)
          PROVE  server'.turn = u \/ \E l \in DOMAIN toServer' : l < i /\ IsStart(toServer'[l], u)
      <4>1. CASE k = 1
        BY <1>1, <2>3, <3>3, <4>1
      <4>2. CASE k # 1
        <5>1. k - 1 \in DOMAIN toServer' /\ toServer'[k - 1] = toServer[k] /\ k - 1 < i
          BY <1>1, <3>3, <4>2
        <5> QED BY <3>3, <5>1
      <4> QED BY <4>1, <4>2
    <3> QED BY <2>1, <3>1, <3>2, <3>3
  <2>5. ASSUME NEW j \in DOMAIN toClient', SaysIdle(toClient'[j], r) PROVE \E k \in DOMAIN toClient' : k < j /\ IsEnd(toClient'[k], u)
    <3>1. CASE j \in DOMAIN toClient
      BY <1>2, <2>1, <2>5, <3>1
    <3>2. CASE j \notin DOMAIN toClient
      <4>1. j > Len(toClient) /\ j - Len(toClient) \in DOMAIN s /\ toClient'[j] = s[j - Len(toClient)]
        BY <1>2, <3>2
      <4>2. From(m, r) /\ IsReply(s[j - Len(toClient)], r) /\ s[j - Len(toClient)].error = None /\ s[j - Len(toClient)].turn = None
        BY <1>3, <2>5, <4>1 DEF SaysIdle, IsReply
      <4>3. IsRead(m, r)
        <5>1. WireOf(r)
          BY DEF Wire
        <5> QED BY <1>1, <1>6, <4>2, <5>1 DEF WireOf, Matches
      <4>4. server.turn = None
        <5>1. ServesReply(m, s)
          BY <4>3 DEF IsRead, ServesStart, ServesAnswer, ServesNothing
        <5>2. PICK p \in Told : s = <<p>> /\ (p.error = None => p.turn = server.turn)
          BY <4>3, <5>1 DEF ServesReply, IsRead
        <5>3. \A i \in DOMAIN <<p>> : <<p>>[i] = p
          OBVIOUS
        <5> QED BY <4>1, <4>2, <5>2, <5>3
      <4>5. EndNoted(u)
        <5>1. \A k \in DOMAIN toServer : ~(k < 1)
          BY <1>1
        <5> QED BY <1>1, <2>1, <4>3, <4>4, <5>1, Names
      <4>6. PICK k \in DOMAIN toClient : IsEnd(toClient[k], u)
        BY <4>5 DEF EndNoted
      <4> QED BY <1>2, <4>1, <4>6
    <3> QED BY <3>1, <3>2
  <2> QED BY <2>4, <2>5 DEF Follows
<1> QED BY <1>1, <1>5, <1>6, TurnsStill

(* The server says something, and answers nobody.                            *)
LEMMA TurnsTold ==
    ASSUME Turns, UNCHANGED <<toServer, pending, got, task, call>>, DOMAIN toClient \subseteq DOMAIN toClient',
           \A i \in DOMAIN toClient : toClient'[i] = toClient[i],
           \A i \in DOMAIN toClient', r \in Calls : IsReply(toClient'[i], r) => i \in DOMAIN toClient,
           \A u \in Calls : Live(u)' => Live(u),
           \A u \in Calls : server.turn = u => server'.turn = u \/ EndNoted(u)'
    PROVE  Turns'
<1>1. \A u \in Calls : EndNoted(u) => EndNoted(u)'
  BY DEF EndNoted
<1>2. ASSUME NEW r \in Calls, NEW u \in Calls, call[r].phase = "reading", Live(u)', Follows(r, u) PROVE Follows(r, u)'
  <2>1. /\ \A i \in DOMAIN toServer : IsRead(toServer[i], r) =>
             server.turn = u \/ EndNoted(u) \/ \E k \in DOMAIN toServer : k < i /\ IsStart(toServer[k], u)
        /\ \A j \in DOMAIN toClient : SaysIdle(toClient[j], r) => \E k \in DOMAIN toClient : k < j /\ IsEnd(toClient[k], u)
    BY <1>2 DEF Follows
  <2>2. \A j \in DOMAIN toClient' : SaysIdle(toClient'[j], r) => \E k \in DOMAIN toClient' : k < j /\ IsEnd(toClient'[k], u)
    BY <2>1 DEF SaysIdle
  <2>3. \A i \in DOMAIN toServer' : IsRead(toServer'[i], r) =>
             server'.turn = u \/ EndNoted(u)' \/ \E k \in DOMAIN toServer' : k < i /\ IsStart(toServer'[k], u)
    BY <1>1, <2>1
  <2> QED BY <2>2, <2>3 DEF Follows
<1> QED BY <1>2, TurnsStill

LEMMA AskLines ==
    ASSUME Typed, NEW a \in Asks, Ask(a)
    PROVE  /\ UNCHANGED <<toServer, pending, ended, got, call, task, settled, prompts, dropped>>
           /\ server'.turn = server.turn /\ server'.asks = server.asks \cup {a} /\ server.turn # None
           /\ DOMAIN toClient \subseteq DOMAIN toClient' /\ \A i \in DOMAIN toClient : toClient'[i] = toClient[i]
           /\ \A i \in DOMAIN toClient' : i \in DOMAIN toClient \/ (toClient'[i].method = "request" /\ toClient'[i].ask = a)
<1>1. /\ UNCHANGED <<toServer, pending, ended, got, call, task, settled, prompts, dropped>>
      /\ server'.turn = server.turn /\ server'.asks = server.asks \cup {a} /\ server.turn # None
  BY DEF Ask, Typed, Thread, Servers, prompting
<1>2. PICK p \in Told : p.method = "request" /\ p.ask = a /\ toClient' = toClient \o <<p>>
  BY LinesTyped, ZenonT(60) DEF Ask, Says
<1>3. <<p>> \in Seq(Told) /\ \A i \in DOMAIN <<p>> : <<p>>[i] = p
  OBVIOUS
<1>4. PICK s \in Seq(Told) : s = <<p>> /\ toClient' = toClient \o s /\ \A i \in DOMAIN s : s[i] = p
  BY <1>2, <1>3
<1>5. /\ DOMAIN toClient \subseteq DOMAIN toClient'
      /\ \A i \in DOMAIN toClient : toClient'[i] = toClient[i]
      /\ \A i \in DOMAIN toClient' : \/ i \in DOMAIN toClient
                                     \/ i - Len(toClient) \in DOMAIN s /\ toClient'[i] = s[i - Len(toClient)]
  BY <1>4, SaidLines
<1> QED BY <1>1, <1>2, <1>4, <1>5

LEMMA TurnsAsk ==
    ASSUME Typed, Turns, NEW a \in Asks, Ask(a)
    PROVE  Turns'
<1>1. /\ UNCHANGED <<toServer, pending, got, call, task>> /\ server'.turn = server.turn
      /\ DOMAIN toClient \subseteq DOMAIN toClient' /\ \A i \in DOMAIN toClient : toClient'[i] = toClient[i]
      /\ \A i \in DOMAIN toClient' : i \in DOMAIN toClient \/ toClient'[i].method = "request"
  BY AskLines
<1>2. \A i \in DOMAIN toClient', r \in Calls : IsReply(toClient'[i], r) \/ IsEnd(toClient'[i], r) => i \in DOMAIN toClient
  BY <1>1 DEF IsReply, IsEnd, Ends
<1>3. \A u \in Calls : EndNoted(u)' => EndNoted(u)
  BY <1>1, <1>2 DEF EndNoted
<1>4. \A u \in Calls : Live(u)' => Live(u)
  BY <1>1, <1>3 DEF Live, Starting
<1> QED BY <1>1, <1>2, <1>4, TurnsTold

LEMMA TurnsEnds ==
    ASSUME Typed, Turns, NEW u \in Calls, NEW o \in Ends, EndsTurn(u, o)
    PROVE  Turns'
<1>1. UNCHANGED <<toServer, pending, got, call, task>> /\ server.turn = u /\ server'.turn = None
  BY DEF EndsTurn, Idle
<1>2. /\ DOMAIN toClient \subseteq DOMAIN toClient' /\ \A i \in DOMAIN toClient : toClient'[i] = toClient[i]
      /\ \E n \in DOMAIN toClient' :
           /\ IsEnd(toClient'[n], u)
           /\ \A i \in DOMAIN toClient' : i = n \/ i \in DOMAIN toClient \/ toClient'[i].method = "serverRequest/resolved"
  BY EndLines
<1>3. PICK n \in DOMAIN toClient' :
           /\ IsEnd(toClient'[n], u)
           /\ \A i \in DOMAIN toClient' : i = n \/ i \in DOMAIN toClient \/ toClient'[i].method = "serverRequest/resolved"
  BY <1>2
<1>4. EndNoted(u)'
  BY <1>3 DEF EndNoted
<1>5. \A i \in DOMAIN toClient', r \in Calls : IsReply(toClient'[i], r) => i \in DOMAIN toClient
  BY <1>3 DEF IsReply, IsEnd, Ends
<1>6. \A i \in DOMAIN toClient', r \in Calls \ {u} : IsEnd(toClient'[i], r) => i \in DOMAIN toClient
  BY <1>3 DEF IsEnd, Ends
<1>7. \A r \in Calls \ {u} : EndNoted(r)' => EndNoted(r)
  BY <1>2, <1>6 DEF EndNoted
<1>8. \A r \in Calls : Live(r)' => Live(r)
  <2> TAKE r \in Calls
  <2>1. Live(u)
    BY <1>1 DEF Live
  <2>2. r # u => (Live(r)' => Live(r))
    BY <1>1, <1>7, Names DEF Live, Starting
  <2> QED BY <2>1, <2>2
<1> QED BY <1>1, <1>2, <1>4, <1>5, <1>8, TurnsTold

LEMMA TurnsLost ==
    ASSUME Typed, Lost, ~dropped'
    PROVE  Turns'
<1>1. /\ toServer' = <<>> /\ toClient' = <<>> /\ server'.turn = None
      /\ \A r \in Calls : call'[r].phase # "opening"
  <2>1. /\ toServer' = <<>> /\ toClient' = <<>> /\ server' = Idle
        /\ \A r \in Calls : call'[r].phase = IF call[r].phase \in {"reading", "starting", "cutting"} THEN "failed" ELSE call[r].phase
        /\ \A r \in Calls : call[r].phase # "opening"
    BY LostMoves
  <2> QED BY <2>1 DEF Idle
<1>2. DOMAIN toServer' = {} /\ DOMAIN toClient' = {}
  BY <1>1
<1> QED BY <1>1, <1>2, TurnsNone, Names DEF Live, Starting, EndNoted

(* The threads' turns stay in order as long as no run loses its task.        *)
LEMMA TurnsMove ==
    ASSUME Typed, Correlated, Wire, Turns, Moves, ~dropped'
    PROVE  Turns'
<1>1. ASSUME NEW r \in Calls, RunMoves(r) PROVE Turns'
  BY <1>1, TurnsReads, TurnsOpens, TurnsRun, TurnsAbandons DEF RunMoves
<1> QED BY <1>1, TurnsAside, TurnsTimeOut, TurnsTakes, TurnsServes, TurnsAsk, TurnsEnds, TurnsLost DEF Moves
-----------------------------------------------------------------------------
(* A run hears of the end of its own turn only.                              *)
LEMMA OutcomesMove ==
    ASSUME Typed, Wire, Turns, Outcomes, Moves
    PROVE  Outcomes'
<1>1. CASE ended' = ended /\ \A r \in Calls : settled'[r] = settled[r] \/ settled'[r] \in {"failed", "timeout"}
  BY <1>1 DEF Outcomes
<1>2. ASSUME NEW r \in Calls, RunMoves(r) PROVE Outcomes'
  <2>1. ended' = ended
    BY <1>2 DEF RunMoves, Stays
  <2>2. settled' = settled \/ \A x \in Calls : settled'[x] = settled[x] \/ settled'[x] = "failed"
    BY <1>2 DEF RunMoves, RunReads, RunOpens, RunStarts, RunCuts, RunRests, RunAbandons, HoldsOn
  <2> QED BY <1>1, <2>1, <2>2
<1>3. CASE Aside
  BY <1>1, <1>3 DEF Aside
<1>4. CASE TimeOut
  BY <1>1, <1>4 DEF TimeOut
<1>5. ASSUME NEW m \in Told, Takes(m), TakesReply(m) \/ TakesEnd(m) \/ TakesOther(m) PROVE Outcomes'
  <2>1. ended' = ended /\ toClient[1] = m /\ 1 \in DOMAIN toClient
    BY <1>5, TakenLines
  <2>2. CASE UNCHANGED settled
    BY <1>1, <2>1, <2>2
  <2>3. CASE m.method \in Ends /\ \A x \in Calls : settled'[x] = settled[x] \/ (x = task.call /\ settled'[x] \in {m.method, "failed"})
    <3>1. m.turn \in Calls
      BY <2>3, ToldKinds
    <3>2. IsEnd(toClient[1], m.turn) /\ Live(m.turn)
      BY <2>1, <2>3 DEF IsEnd, Live, EndNoted
    <3>3. task.call \in {None, m.turn} /\ ended[m.turn] = m.method
      BY <2>1, <3>1, <3>2 DEF Turns, Held, Wire, WireOf, Begun
    <3>4. \A x \in Calls : settled'[x] = settled[x] \/ (x = m.turn /\ settled'[x] \in {ended[x], "failed"})
      BY <2>3, <3>3, Names
    <3> QED BY <2>1, <3>4 DEF Outcomes
  <2> QED BY <1>5, <2>2, <2>3 DEF TakesReply, TakesEnd, TakesOther
<1>6. ASSUME NEW m \in Sent, NEW s \in Seq(Told), Serves(m, s) PROVE Outcomes'
  BY <1>1, <1>6 DEF Serves
<1>7. ASSUME NEW a \in Asks, Ask(a) PROVE Outcomes'
  BY <1>1, <1>7 DEF Ask
<1>8. ASSUME NEW u \in Calls, NEW o \in Ends, EndsTurn(u, o) PROVE Outcomes'
  <2>1. ended[u] = "no"
    BY <1>8 DEF EndsTurn, Wire, WireOf, Begun
  <2>2. settled' = settled /\ \A r \in Calls \ {u} : ended'[r] = ended[r]
    BY <1>8 DEF EndsTurn, Typed, Thread
  <2>3. settled[u] \notin {"completed", "interrupted"}
    BY <2>1 DEF Outcomes
  <2> QED BY <2>2, <2>3 DEF Outcomes
<1>9. CASE Lost
  BY <1>1, <1>9, LostMoves
<1> QED BY <1>2, <1>3, <1>4, <1>5, <1>6, <1>7, <1>8, <1>9 DEF Moves
-----------------------------------------------------------------------------
(* An open prompt belongs to the turn in progress, or the server has told    *)
(* that it is resolved; and it tells so before the end of the turn.          *)
LEMMA OpenSame ==
    ASSUME Open, UNCHANGED <<server, toClient>>, prompts' \subseteq prompts
    PROVE  Open'
BY DEF Open

LEMMA OpenTakes ==
    ASSUME Typed, Open, NEW m \in Told, Takes(m), TakesReply(m) \/ TakesEnd(m) \/ TakesOther(m)
    PROVE  Open'
<1>1. /\ server' = server
      /\ toClient[1] = m /\ 1 \in DOMAIN toClient /\ DOMAIN toClient \subseteq Nat \ {0} /\ DOMAIN toClient' \subseteq Nat \ {0}
      /\ \A i \in DOMAIN toClient' : i + 1 \in DOMAIN toClient /\ toClient'[i] = toClient[i + 1] /\ i + 1 # 1
      /\ \A i \in DOMAIN toClient : i = 1 \/ (i - 1 \in DOMAIN toClient' /\ toClient'[i - 1] = toClient[i])
  BY TakenLines
<1>2. \/ prompts' = prompts /\ m.method # "serverRequest/resolved"
      \/ prompts' = prompts \cup {m.ask} /\ m.method = "request"
      \/ prompts' = prompts \ {m.ask} /\ m.method = "serverRequest/resolved"
  BY DEF TakesReply, TakesEnd, TakesOther, Ends, prompting
<1>3. \A a \in prompts' : a \in server'.asks \/ \E k \in DOMAIN toClient' : Resolves(toClient'[k], a)
  <2> SUFFICES ASSUME NEW a \in prompts', a \notin server.asks PROVE \E k \in DOMAIN toClient' : Resolves(toClient'[k], a)
    BY <1>1
  <2>1. CASE a \in prompts
    <3>1. PICK k \in DOMAIN toClient : Resolves(toClient[k], a)
      BY <2>1 DEF Open
    <3>2. k # 1
      BY <1>1, <1>2, <3>1 DEF Resolves
    <3> QED BY <1>1, <3>1, <3>2
  <2>2. CASE a \notin prompts
    <3>1. m.method = "request" /\ m.ask = a
      BY <1>2, <2>2
    <3>2. PICK l \in DOMAIN toClient : 1 < l /\ Resolves(toClient[l], a)
      BY <1>1, <3>1 DEF Open
    <3> QED BY <1>1, <3>2
  <2> QED BY <2>1, <2>2
<1>4. \A k \in DOMAIN toClient' : toClient'[k].method = "request" =>
        toClient'[k].ask \in server'.asks \/ \E l \in DOMAIN toClient' : k < l /\ Resolves(toClient'[l], toClient'[k].ask)
  <2> SUFFICES ASSUME NEW k \in DOMAIN toClient', toClient'[k].method = "request", toClient'[k].ask \notin server.asks
               PROVE  \E l \in DOMAIN toClient' : k < l /\ Resolves(toClient'[l], toClient'[k].ask)
    BY <1>1
  <2>1. PICK l \in DOMAIN toClient : k + 1 < l /\ Resolves(toClient[l], toClient[k + 1].ask)
    BY <1>1 DEF Open
  <2>2. l - 1 \in DOMAIN toClient' /\ toClient'[l - 1] = toClient[l] /\ k < l - 1
    BY <1>1, <2>1
  <2> QED BY <1>1, <2>1, <2>2
<1>5. \A k \in DOMAIN toClient' : toClient'[k].method = "serverRequest/resolved" =>
        server'.turn # None \/ \E l \in DOMAIN toClient' : k < l /\ toClient'[l].method \in Ends
  <2> SUFFICES ASSUME NEW k \in DOMAIN toClient', toClient'[k].method = "serverRequest/resolved", server.turn = None
               PROVE  \E l \in DOMAIN toClient' : k < l /\ toClient'[l].method \in Ends
    BY <1>1
  <2>1. PICK l \in DOMAIN toClient : k + 1 < l /\ toClient[l].method \in Ends
    BY <1>1 DEF Open
  <2>2. l - 1 \in DOMAIN toClient' /\ toClient'[l - 1] = toClient[l] /\ k < l - 1
    BY <1>1, <2>1
  <2> QED BY <2>1, <2>2
<1> QED BY <1>1, <1>3, <1>4, <1>5 DEF Open

(* The server says more, about prompts it keeps.                             *)
LEMMA OpenTold ==
    ASSUME Open, prompts' = prompts, DOMAIN toClient \subseteq DOMAIN toClient',
           \A i \in DOMAIN toClient : toClient'[i] = toClient[i],
           \A i \in DOMAIN toClient' : i \in DOMAIN toClient \/ toClient'[i].method \notin {"request", "serverRequest/resolved"}
                                         \/ (toClient'[i].method = "request" /\ toClient'[i].ask \in server'.asks),
           server.asks \subseteq server'.asks, server.turn # None => server'.turn # None,
           server'.turn = None => server'.asks = {}
    PROVE  Open'
<1>1. \A a \in prompts' : a \in server'.asks \/ \E k \in DOMAIN toClient' : Resolves(toClient'[k], a)
  <2> SUFFICES ASSUME NEW a \in prompts, a \notin server.asks PROVE \E k \in DOMAIN toClient' : Resolves(toClient'[k], a)
    OBVIOUS
  <2>1. PICK k \in DOMAIN toClient : Resolves(toClient[k], a)
    BY DEF Open
  <2> QED BY <2>1
<1>2. \A k \in DOMAIN toClient' : toClient'[k].method = "request" =>
        toClient'[k].ask \in server'.asks \/ \E l \in DOMAIN toClient' : k < l /\ Resolves(toClient'[l], toClient'[k].ask)
  <2> SUFFICES ASSUME NEW k \in DOMAIN toClient, toClient[k].method = "request", toClient[k].ask \notin server.asks
               PROVE  \E l \in DOMAIN toClient' : k < l /\ Resolves(toClient'[l], toClient[k].ask)
    OBVIOUS
  <2>1. PICK l \in DOMAIN toClient : k < l /\ Resolves(toClient[l], toClient[k].ask)
    BY DEF Open
  <2> QED BY <2>1
<1>3. \A k \in DOMAIN toClient' : toClient'[k].method = "serverRequest/resolved" =>
        server'.turn # None \/ \E l \in DOMAIN toClient' : k < l /\ toClient'[l].method \in Ends
  <2> SUFFICES ASSUME NEW k \in DOMAIN toClient, toClient[k].method = "serverRequest/resolved", server.turn = None
               PROVE  \E l \in DOMAIN toClient' : k < l /\ toClient'[l].method \in Ends
    OBVIOUS
  <2>1. PICK l \in DOMAIN toClient : k < l /\ toClient[l].method \in Ends
    BY DEF Open
  <2> QED BY <2>1
<1> QED BY <1>1, <1>2, <1>3 DEF Open

LEMMA OpenServes ==
    ASSUME Typed, Open, NEW m \in Sent, NEW s \in Seq(Told), Serves(m, s),
           ServesStart(m, s) \/ ServesReply(m, s) \/ ServesAnswer(m, s) \/ ServesNothing(m, s)
    PROVE  Open'
<1>1. prompts' = prompts
  BY ServedLines
<1>2. /\ DOMAIN toClient' \subseteq Nat /\ DOMAIN toClient \subseteq DOMAIN toClient' /\ Len(toClient) \in Nat /\ DOMAIN s \subseteq Nat \ {0}
      /\ \A i \in DOMAIN toClient : toClient'[i] = toClient[i] /\ i <= Len(toClient)
      /\ \A i \in DOMAIN toClient' : \/ i \in DOMAIN toClient
                                     \/ i > Len(toClient) /\ i - Len(toClient) \in DOMAIN s /\ toClient'[i] = s[i - Len(toClient)]
      /\ \A i \in DOMAIN s : Len(toClient) + i \in DOMAIN toClient' /\ toClient'[Len(toClient) + i] = s[i]
  BY SaidLines DEF Serves
<1>3. \A i \in DOMAIN s : s[i].method # "request"
  BY Sayings
<1>4. CASE ServesStart(m, s)
  <2>1. server.asks = {} /\ server'.asks = {} /\ server.turn = None /\ server'.turn # None
    BY <1>4, SentKinds, Names DEF Open, ServesStart
  <2>2. \A i \in DOMAIN s : s[i].method # "serverRequest/resolved"
    <3>1. PICK c \in Calls : c = m.caller
      BY <1>4, SentKinds DEF ServesStart
    <3>2. Reply(c, c) \in Told /\ Reply(c, c).method = "reply" /\ Note("turn/started", c) \in Told /\ Note("turn/started", c).method = "turn/started"
      <4>1. c \in Callers /\ "turn/started" \in {"turn/started"} \cup Ends
        BY Names
      <4> QED BY <4>1, LinesTyped
    <3>3. PICK p \in Told, n \in Told : p.method = "reply" /\ n.method = "turn/started" /\ (s = <<p, n>> \/ s = <<n, p>>)
      BY <1>4, <3>1, <3>2 DEF ServesStart
    <3>4. /\ \A i \in DOMAIN <<p, n>> : <<p, n>>[i] \in {p, n}
          /\ \A i \in DOMAIN <<n, p>> : <<n, p>>[i] \in {p, n}
      OBVIOUS
    <3> QED BY <3>3, <3>4
  <2> QED BY <1>1, <1>2, <1>3, <2>1, <2>2, OpenTold
<1>5. CASE ServesReply(m, s) \/ ServesNothing(m, s)
  <2>1. server'.turn = server.turn /\ server'.asks = server.asks
    BY <1>5 DEF ServesReply, ServesNothing
  <2>2. \A i \in DOMAIN s : s[i].method # "serverRequest/resolved"
    <3>1. CASE ServesNothing(m, s)
      BY <3>1 DEF ServesNothing
    <3>2. CASE ServesReply(m, s)
      <4>1. PICK p \in Told : s = <<p>> /\ p.method = "reply"
        BY <3>2 DEF ServesReply
      <4>2. \A i \in DOMAIN <<p>> : <<p>>[i] = p
        OBVIOUS
      <4> QED BY <4>1, <4>2
    <3> QED BY <1>5, <3>1, <3>2
  <2>3. server.turn = None => server.asks = {}
    BY DEF Open
  <2> QED BY <1>1, <1>2, <1>3, <2>1, <2>2, <2>3, OpenTold
<1>6. CASE ServesAnswer(m, s)
  <2>1. m.ask \in Asks /\ server'.turn = server.turn /\ server'.asks = server.asks \ {m.ask}
    BY <1>6, SentKinds DEF ServesAnswer
  <2>2. CASE m.ask \notin server.asks
    <3>1. s = <<>> /\ server'.asks = server.asks
      BY <1>6, <2>1, <2>2 DEF ServesAnswer
    <3>2. \A i \in DOMAIN s : FALSE
      BY <3>1
    <3>3. server.turn = None => server.asks = {}
      BY DEF Open
    <3> QED BY <1>1, <1>2, <2>1, <3>1, <3>2, <3>3, OpenTold
  <2>3. CASE m.ask \in server.asks
    <3>1. /\ \A i \in DOMAIN s : s[i].method = "serverRequest/resolved" /\ s[i].ask = m.ask
          /\ \E i \in DOMAIN s : s[i].ask = m.ask
      <4>1. /\ \A i \in DOMAIN Resolved({m.ask}) : Resolved({m.ask})[i].method = "serverRequest/resolved" /\ Resolved({m.ask})[i].ask \in {m.ask}
            /\ \A a \in {m.ask} : \E i \in DOMAIN Resolved({m.ask}) : Resolved({m.ask})[i].ask = a
        BY <2>1, ResolvedTyped
      <4>2. s = Resolved({m.ask})
        BY <1>6, <2>3 DEF ServesAnswer
      <4> QED BY <4>1, <4>2
    <3>2. PICK n \in DOMAIN s : Resolves(s[n], m.ask)
      BY <3>1 DEF Resolves
    <3>3. PICK l \in DOMAIN toClient' : Resolves(toClient'[l], m.ask) /\ \A i \in DOMAIN toClient : i < l
      <4>1. Len(toClient) + n \in DOMAIN toClient' /\ toClient'[Len(toClient) + n] = s[n] /\ \A i \in DOMAIN toClient : i < Len(toClient) + n
        BY <1>2, <3>2
      <4> QED BY <3>2, <4>1
    <3>4. server.turn # None
      BY <2>3 DEF Open
    <3>5. \A a \in prompts' : a \in server'.asks \/ \E k \in DOMAIN toClient' : Resolves(toClient'[k], a)
      <4> SUFFICES ASSUME NEW a \in prompts, a \notin server.asks \/ a = m.ask
                   PROVE  \E k \in DOMAIN toClient' : Resolves(toClient'[k], a)
        BY <1>1, <2>1
      <4>1. CASE a = m.ask
        BY <3>3, <4>1
      <4>2. CASE a \notin server.asks
        BY <1>2, <4>2 DEF Open
      <4> QED BY <4>1, <4>2
    <3>6. \A k \in DOMAIN toClient' : toClient'[k].method = "request" =>
            toClient'[k].ask \in server'.asks \/ \E i \in DOMAIN toClient' : k < i /\ Resolves(toClient'[i], toClient'[k].ask)
      <4> SUFFICES ASSUME NEW k \in DOMAIN toClient', toClient'[k].method = "request", toClient'[k].ask \notin server'.asks
                   PROVE  \E i \in DOMAIN toClient' : k < i /\ Resolves(toClient'[i], toClient'[k].ask)
        OBVIOUS
      <4>1. k \in DOMAIN toClient /\ toClient'[k] = toClient[k]
        BY <1>2, <1>3
      <4>2. CASE toClient[k].ask = m.ask
        BY <3>3, <4>1, <4>2
      <4>3. CASE toClient[k].ask # m.ask
        <5>1. PICK i \in DOMAIN toClient : k < i /\ Resolves(toClient[i], toClient[k].ask)
          BY <2>1, <4>1, <4>3 DEF Open
        <5> QED BY <1>2, <4>1, <5>1
      <4> QED BY <4>2, <4>3
    <3> QED BY <2>1, <3>4, <3>5, <3>6 DEF Open
  <2> QED BY <2>2, <2>3
<1> QED BY <1>4, <1>5, <1>6

LEMMA OpenEnds ==
    ASSUME Typed, Open, NEW u \in Calls, NEW o \in Ends, EndsTurn(u, o)
    PROVE  Open'
<1>1. prompts' = prompts /\ server'.turn = None /\ server'.asks = {}
  BY DEF EndsTurn, prompting, Idle
<1>2. /\ DOMAIN toClient \subseteq DOMAIN toClient' /\ \A i \in DOMAIN toClient : toClient'[i] = toClient[i]
      /\ \E n \in DOMAIN toClient' :
           /\ IsEnd(toClient'[n], u)
           /\ \A i \in DOMAIN toClient' : i # n => i < n
           /\ \A i \in DOMAIN toClient' : i = n \/ i \in DOMAIN toClient \/ toClient'[i].method = "serverRequest/resolved"
           /\ \A i \in DOMAIN toClient, a \in server.asks : \E l \in DOMAIN toClient' : i < l /\ Resolves(toClient'[l], a)
           /\ \A a \in server.asks : \E l \in DOMAIN toClient' : Resolves(toClient'[l], a)
  BY EndLines
<1>3. PICK n \in DOMAIN toClient' :
           /\ IsEnd(toClient'[n], u)
           /\ \A i \in DOMAIN toClient' : i # n => i < n
           /\ \A i \in DOMAIN toClient' : i = n \/ i \in DOMAIN toClient \/ toClient'[i].method = "serverRequest/resolved"
           /\ \A i \in DOMAIN toClient, a \in server.asks : \E l \in DOMAIN toClient' : i < l /\ Resolves(toClient'[l], a)
           /\ \A a \in server.asks : \E l \in DOMAIN toClient' : Resolves(toClient'[l], a)
  BY <1>2
<1>4. toClient'[n].method \in Ends
  BY <1>3 DEF IsEnd
<1>5. \A a \in prompts' : \E k \in DOMAIN toClient' : Resolves(toClient'[k], a)
  <2> SUFFICES ASSUME NEW a \in prompts PROVE \E k \in DOMAIN toClient' : Resolves(toClient'[k], a)
    BY <1>1
  <2>1. CASE a \in server.asks
    BY <1>3, <2>1
  <2>2. CASE a \notin server.asks
    BY <1>2, <2>2 DEF Open
  <2> QED BY <2>1, <2>2
<1>6. ASSUME NEW k \in DOMAIN toClient', toClient'[k].method = "request"
      PROVE  \E l \in DOMAIN toClient' : k < l /\ Resolves(toClient'[l], toClient'[k].ask)
  <2>1. k \in DOMAIN toClient /\ toClient'[k] = toClient[k]
    BY <1>2, <1>3, <1>4, <1>6 DEF Ends
  <2>2. CASE toClient[k].ask \in server.asks
    BY <1>3, <2>1, <2>2
  <2>3. CASE toClient[k].ask \notin server.asks
    <3>1. PICK l \in DOMAIN toClient : k < l /\ Resolves(toClient[l], toClient[k].ask)
      BY <1>6, <2>1, <2>3 DEF Open
    <3> QED BY <1>2, <2>1, <3>1
  <2> QED BY <2>2, <2>3
<1>7. \A k \in DOMAIN toClient' : toClient'[k].method = "serverRequest/resolved" => \E l \in DOMAIN toClient' : k < l /\ toClient'[l].method \in Ends
  BY <1>3, <1>4 DEF Ends
<1> QED BY <1>1, <1>5, <1>6, <1>7 DEF Open

LEMMA OpenMoves ==
    ASSUME Typed, Open, Moves
    PROVE  Open'
<1>1. ASSUME NEW r \in Calls, RunMoves(r) PROVE Open'
  BY <1>1, OpenSame DEF RunMoves, Stays, prompting
<1>2. CASE Aside
  BY <1>2, OpenSame DEF Aside, Silent
<1>3. CASE TimeOut
  BY <1>3, OpenSame DEF TimeOut, prompting
<1>4. ASSUME NEW a \in Asks, Ask(a) PROVE Open'
  <2>1. /\ prompts' = prompts /\ server'.turn = server.turn /\ server'.asks = server.asks \cup {a} /\ server.turn # None
        /\ DOMAIN toClient \subseteq DOMAIN toClient' /\ \A i \in DOMAIN toClient : toClient'[i] = toClient[i]
        /\ \A i \in DOMAIN toClient' : i \in DOMAIN toClient \/ (toClient'[i].method = "request" /\ toClient'[i].ask = a)
    BY <1>4, AskLines
  <2> QED BY <2>1, OpenTold
<1>5. CASE Lost
  <2>1. toClient' = <<>> /\ server' = Idle /\ prompts' = {}
    BY <1>5, LostMoves
  <2>2. DOMAIN toClient' = {} /\ server'.asks = {}
    BY <2>1 DEF Idle
  <2> QED BY <2>1, <2>2 DEF Open
<1> QED BY <1>1, <1>2, <1>3, <1>4, <1>5, OpenTakes, OpenServes, OpenEnds DEF Moves
-----------------------------------------------------------------------------
(* No prompt is open when the thread has no live turn.                       *)
LEMMA NoPrompts ==
    ASSUME Typed, Open, \A u \in Calls : ~Live(u)
    PROVE  prompts = {}
<1>1. server.turn = None /\ server.asks = {}
  <2>1. server.turn \in Calls \cup {None}
    BY DEF Typed, Thread, Servers
  <2> QED BY <2>1 DEF Live, Open
<1>2. \A k \in DOMAIN toClient : toClient[k].method \notin Ends
  <2> TAKE k \in DOMAIN toClient
  <2>1. toClient[k] \in Told
    BY DEF Typed, Pipes
  <2>2. toClient[k].method \in Ends => toClient[k].turn \in Calls
    BY <2>1, ToldKinds
  <2> QED BY <2>2 DEF Live, EndNoted, IsEnd
<1>3. ASSUME NEW a \in prompts PROVE FALSE
  <2>1. PICK k \in DOMAIN toClient : Resolves(toClient[k], a)
    BY <1>1 DEF Open
  <2> QED BY <1>1, <1>2, <2>1 DEF Open, Resolves
<1> QED BY <1>3

(* The task that has a prompt open waits for a human.                        *)
LEMMA HumanMoves ==
    ASSUME Typed, Open, Turns, Human, Moves
    PROVE  Human'
<1>1. \A t : [task EXCEPT !.turnId = t].waitingHuman = task.waitingHuman
  BY DEF Typed, Rest, IsTask, TaskRecords
<1>2. ASSUME NEW r \in Calls, RunMoves(r) PROVE Human'
  <2>1. prompts' = prompts
    BY <1>2 DEF RunMoves, Stays, prompting
  <2>2. CASE RunOpens(r)
    <3>1. prompts = {}
      BY <2>2, NoneLive, NoPrompts
    <3> QED BY <2>1, <3>1 DEF Human
  <2>3. CASE RunReads(r) \/ RunStarts(r)
    BY <2>1, <2>3 DEF RunReads, RunStarts, HoldsOn, Human
  <2>4. CASE RunCuts(r)
    <3>1. task # NoTask /\ task' = [task EXCEPT !.turnId = r]
      BY <2>4 DEF RunCuts
    <3>2. task'.waitingHuman = task.waitingHuman
      BY <1>1, <3>1
    <3> QED BY <2>1, <3>1, <3>2 DEF Human
  <2>5. CASE RunRests(r)
    <3>1. task' = task \/ (task # NoTask /\ task' = [task EXCEPT !.turnId = r])
      BY <2>5 DEF RunRests
    <3>2. task'.waitingHuman = task.waitingHuman /\ (task' # NoTask => task # NoTask)
      BY <1>1, <3>1
    <3> QED BY <2>1, <3>2 DEF Human
  <2>6. CASE RunAbandons(r)
    BY <2>6 DEF RunAbandons, Human
  <2> QED BY <1>2, <2>2, <2>3, <2>4, <2>5, <2>6 DEF RunMoves
<1>3. CASE Aside
  BY <1>3 DEF Aside, Human
<1>4. CASE TimeOut
  BY <1>4 DEF TimeOut, prompting, Human
<1>5. ASSUME NEW m \in Told, Takes(m), TakesReply(m) \/ TakesEnd(m) \/ TakesOther(m) PROVE Human'
  <2>1. CASE TakesReply(m)
    BY <2>1 DEF TakesReply, prompting, Human
  <2>2. CASE TakesEnd(m)
    BY <2>2 DEF TakesEnd, prompting, Human
  <2>3. CASE TakesOther(m)
    <3>1. task' # NoTask => task # NoTask
      BY <2>3 DEF TakesOther
    <3>2. CASE m.method = "turn/started"
      BY <2>3, <3>1, <3>2 DEF TakesOther, prompting, Human
    <3>3. CASE m.method = "request"
      BY <2>3, <3>1, <3>3 DEF TakesOther, Human
    <3>4. CASE m.method = "serverRequest/resolved"
      <4>1. prompts' \subseteq prompts /\ task' = task
        BY <2>3, <3>4 DEF TakesOther
      <4> QED BY <4>1 DEF Human
    <3> QED BY <2>3, <3>2, <3>3, <3>4 DEF TakesOther
  <2> QED BY <1>5, <2>1, <2>2, <2>3
<1>6. ASSUME NEW m \in Sent, NEW s \in Seq(Told), Serves(m, s) PROVE Human'
  BY <1>6 DEF Serves, prompting, Human
<1>7. ASSUME NEW a \in Asks, Ask(a) PROVE Human'
  BY <1>7 DEF Ask, prompting, Human
<1>8. ASSUME NEW u \in Calls, NEW o \in Ends, EndsTurn(u, o) PROVE Human'
  BY <1>8 DEF EndsTurn, prompting, Human
<1>9. CASE Lost
  BY <1>9, LostMoves DEF Human
<1> QED BY <1>2, <1>3, <1>4, <1>5, <1>6, <1>7, <1>8, <1>9 DEF Moves
-----------------------------------------------------------------------------
(* A task taken from a run stays taken.                                      *)
LEMMA DroppedStays ==
    ASSUME Typed, Moves, dropped
    PROVE  dropped'
<1>1. ASSUME NEW r \in Calls, RunMoves(r) PROVE dropped'
  BY <1>1 DEF RunMoves, RunReads, RunOpens, RunStarts, RunCuts, RunRests, RunAbandons, HoldsOn
<1>2. ASSUME NEW m \in Told, Takes(m) PROVE dropped'
  BY <1>2, TakenLines
<1>3. ASSUME NEW m \in Sent, NEW s \in Seq(Told), Serves(m, s) PROVE dropped'
  BY <1>3, ServedLines
<1>4. ASSUME NEW a \in Asks, Ask(a) PROVE dropped'
  BY <1>4 DEF Ask
<1>5. ASSUME NEW u \in Calls, NEW o \in Ends, EndsTurn(u, o) PROVE dropped'
  BY <1>5 DEF EndsTurn, bounds
<1>6. CASE Aside \/ TimeOut
  BY <1>6 DEF Aside, TimeOut
<1>7. CASE Lost
  BY <1>7, LostMoves
<1> QED BY <1>1, <1>2, <1>3, <1>4, <1>5, <1>6, <1>7 DEF Moves

LEMMA KeptInit ==
    ASSUME Init
    PROVE  Kept
<1>1. Wire
  BY WireInit
<1>2. DOMAIN toServer = {} /\ DOMAIN toClient = {} /\ DOMAIN pending = {} /\ server.turn = None /\ server.asks = {} /\ prompts = {}
  BY DEF Init, Idle
<1>3. \A u \in Calls : ~Live(u) /\ call[u].phase = "idle" /\ settled[u] = "no"
  BY <1>2, Names DEF Live, Starting, EndNoted, Init
<1>4. Open /\ Outcomes /\ Human
  BY <1>2, <1>3 DEF Open, Outcomes, Human
<1>5. Turns
  BY <1>2, <1>3 DEF Turns, Held, OneLive, OpenerHolds, NotIdle, InOrder, LateBehind, Before, Cutting
<1> QED BY <1>1, <1>4, <1>5 DEF Kept, Own

LEMMA KeptMoves ==
    ASSUME Typed, Correlated, Kept, Next
    PROVE  Kept'
<1>1. Moves
  BY NextMoves
<1>2. Wire' /\ Open'
  BY <1>1, WireKept, OpenMoves DEF Kept
<1>3. dropped' \/ Own'
  <2> SUFFICES ASSUME ~dropped' PROVE Own'
    OBVIOUS
  <2>1. Own
    BY <1>1, DroppedStays DEF Kept
  <2> QED BY <1>1, <2>1, TurnsMove, OutcomesMove, HumanMoves DEF Kept, Own
<1> QED BY <1>2, <1>3 DEF Kept

LEMMA KeptStutters ==
    ASSUME Kept, UNCHANGED vars
    PROVE  Kept'
<1>1. /\ UNCHANGED <<toServer, toClient, pending, server, ended, got, task, prompts, call, settled, dropped>>
  BY DEF vars, pipes, prompting, bounds
<1>2. \A r \in Calls : WireOf(r)' <=> WireOf(r)
  BY <1>1 DEF WireOf, OneLine, Matches, Begun, Faults, Asking, Replied, Heard, EndNoted
<1>3. Open' <=> Open
  BY <1>1 DEF Open
<1>4. (Outcomes' <=> Outcomes) /\ (Human' <=> Human)
  BY <1>1 DEF Outcomes, Human
<1>5. Turns => Turns'
  <2>1. /\ \A u \in Calls : Live(u)' <=> Live(u)
        /\ \A r, u \in Calls : Follows(r, u) => Follows(r, u)'
    BY <1>1 DEF Live, Starting, EndNoted, Follows
  <2> QED BY <1>1, <2>1, TurnsStill
<1> QED BY <1>1, <1>2, <1>3, <1>4, <1>5 DEF Kept, Own, Wire

LEMMA KeptAlways == Spec => [](Typed /\ Correlated /\ Kept)
<1>1. Init => Typed /\ Correlated /\ Kept
  BY TypedInit, KeptInit
<1>2. Typed /\ Correlated /\ Kept /\ [Next]_vars => Typed' /\ Correlated' /\ Kept'
  BY NextMoves, StutterTyped, KeptMoves, KeptStutters
<1> QED BY <1>1, <1>2, PTL DEF Spec

(* The app-server is never asked to start a turn on a thread that has one:   *)
(* whoever continues the thread holds its task from the moment thread/read   *)
(* has found it idle (codex.mjs:574-604), and a reader that comes while the  *)
(* turn of another run is live finds it so, since a request times out only   *)
(* after those that were sent before it.                                     *)
THEOREM OneTurnCorrect == Spec => []OneTurnPerThread
<1>1. Typed /\ Kept => OneTurnPerThread
  <2> SUFFICES ASSUME Typed, Wire, OneLive
               PROVE  Cardinality(StartsInFlight) + (IF server.turn = None THEN 0 ELSE 1) <= 1
    BY DEF OneTurnPerThread, Kept, Own, Turns
  <2>1. \A i \in StartsInFlight : toServer[i].caller \in Calls /\ IsStart(toServer[i], toServer[i].caller)
                                  /\ i \in DOMAIN toServer
    <3> TAKE i \in StartsInFlight
    <3>1. i \in DOMAIN toServer /\ toServer[i].method = "turn/start" /\ toServer[i] \in Sent
      BY DEF StartsInFlight, Typed, Pipes
    <3> QED BY <3>1, SentKinds DEF IsStart
  <2>2. \A i \in StartsInFlight : Live(toServer[i].caller) /\ Starting(toServer[i].caller)
    BY <2>1 DEF Live, Starting
  <2>3. \A i, j \in StartsInFlight : i = j
    <3> TAKE i, j \in StartsInFlight
    <3>1. PICK u \in Calls : u = toServer[i].caller /\ u = toServer[j].caller
      BY <2>1, <2>2 DEF OneLive
    <3>2. WireOf(u) /\ From(toServer[i], u) /\ From(toServer[j], u)
      BY <2>1, <3>1 DEF Wire, From, IsStart
    <3> QED BY <2>1, <3>2 DEF WireOf, OneLine
  <2>4. CASE StartsInFlight = {}
    <3>1. Cardinality(StartsInFlight) = 0
      BY <2>4, FS_EmptySet
    <3> QED BY <3>1
  <2>5. ASSUME NEW i \in StartsInFlight
        PROVE  Cardinality(StartsInFlight) + (IF server.turn = None THEN 0 ELSE 1) <= 1
    <3>1. StartsInFlight = {i}
      BY <2>3, <2>5
    <3>2. Cardinality(StartsInFlight) = 1
      BY <3>1, FS_Singleton
    <3>3. server.turn = None
      <4>1. server.turn \in Calls => Live(server.turn)
        BY DEF Live
      <4>2. server.turn \in Calls => server.turn = toServer[i].caller
        BY <2>1, <2>2, <2>5, <4>1 DEF OneLive
      <4>3. server.turn # toServer[i].caller
        BY <2>1, <2>2, <2>5, LiveRuns
      <4>4. server.turn \in Calls \cup {None}
        BY DEF Typed, Thread, Servers
      <4> QED BY <4>2, <4>3, <4>4
    <3> QED BY <3>2, <3>3
  <2> QED BY <2>4, <2>5
<1> QED BY <1>1, KeptAlways, PTL

(* A run is told that its turn completed, or was interrupted, only if the    *)
(* server ended that very turn so: the end of an earlier turn never finishes *)
(* a later assignment (codex.mjs:131).                                       *)
THEOREM OutcomeCorrect == Spec => []OwnOutcome
<1>1. Kept => OwnOutcome
  BY DEF Kept, Own, Outcomes, OwnOutcome
<1> QED BY <1>1, KeptAlways, PTL

(* While a prompt is open the clock of the thread's task does not run        *)
(* (onRequest() and respond()): a run that takes the thread over finds no    *)
(* prompt of an earlier turn, because the server resolves those before it    *)
(* tells of that turn's end.                                                 *)
THEOREM HumanTimeCorrect == Spec => []HumanTimeIsFree
<1>1. Typed /\ Kept => HumanTimeIsFree
  <2> SUFFICES ASSUME Typed, Human, task # NoTask, prompts # {} PROVE task.clock # "running"
    BY DEF HumanTimeIsFree, Kept, Own
  <2>1. task.waitingHuman
    BY DEF Human
  <2>2. task.waitingHuman <=> task.clock = "stopped"
    BY DEF Typed, Rest, IsTask
  <2>3. task.clock = "stopped"
    BY <2>1, <2>2
  <2> QED BY <2>3
<1> QED BY <1>1, KeptAlways, PTL
-----------------------------------------------------------------------------
(* What quiesce() knows when it returns. The runs whose turn/start was sent  *)
(* when it was called send no other (SentBefore). Its own requests go one at *)
(* a time (OneAsk). A thread/read of it is behind those turn/starts in the   *)
(* pipe, so an answer that finds the thread idle finds the turns over        *)
(* (Looks), and over they stay (Sees).                                       *)
Past(r) == call[r].phase \in {"starting", "cutting", "awaiting", "failed", "fresh"}
InRequest(q) == stop[q].phase \in {"interrupting", "reading", "cutting", "confirming", "terminals"}
Over(q) == /\ server.turn \notin stop[q].before
           /\ \A i \in DOMAIN toServer, r \in stop[q].before : ~IsStart(toServer[i], r)
ReadsIdle(q) == got[q] # NoReply /\ Ok(q) /\ got[q].turn = None
SentBefore(q) == \A r \in stop[q].before : r \in Calls /\ Past(r)
OneAsk(q) ==
    /\ \A i, j \in DOMAIN toServer : From(toServer[i], q) /\ From(toServer[j], q) => i = j
    /\ \A i, j \in DOMAIN toClient : IsReply(toClient[i], q) /\ IsReply(toClient[j], q) => i = j
    /\ ~(Asking(q) /\ Replied(q))
    /\ Asking(q) \/ Replied(q) => (stop[q].phase = "failed" \/ InRequest(q)) /\ ~Heard(q)
Looks(q) == stop[q].phase \in {"reading", "confirming"} =>
    /\ \A i \in DOMAIN toServer : From(toServer[i], q) =>
         /\ IsRead(toServer[i], q)
         /\ \A k \in DOMAIN toServer, r \in stop[q].before : IsStart(toServer[k], r) => k < i
    /\ \A j \in DOMAIN toClient : SaysIdle(toClient[j], q) => Over(q)
    /\ ReadsIdle(q) => Over(q)
Sees(q) == stop[q].phase \in {"terminals", "done"} => Over(q)
StopOf(q) == SentBefore(q) /\ OneAsk(q) /\ Looks(q) /\ Sees(q)
StopsKnow == \A q \in Stops : StopOf(q)

(* What a step does to a quiesce(): it is a step of its own, or leaves it.   *)
Elsewhere ==
    /\ UNCHANGED <<server, toClient, call, stop>>
    /\ \A q \in Stops : got'[q] = got[q]
    /\ \/ toServer' = toServer
       \/ \E m \in Sent : (\A c \in Calls \cup Stops : ~From(m, c)) /\ toServer' = Append(toServer, m)
Free(q) == Heard(q) \/ (~InRequest(q) /\ stop[q].phase # "failed")
StopAsks(q) ==
    /\ Free(q) /\ got'[q] = NoReply /\ InRequest(q)'
    /\ \E m \in Methods \ {"turn/start"}, t \in Calls \cup {None} :
         /\ toServer' = Append(toServer, Request(m, q, t))
         /\ stop'[q].phase \in {"reading", "confirming"} => m = "thread/read"
    /\ stop'[q].phase = "terminals" => stop[q].phase \in {"reading", "confirming"} /\ ReadsIdle(q)
StopRests(q) ==
    /\ toServer' = toServer
    /\ \/ stop'[q].phase = "failed" /\ (got'[q] = got[q] \/ got'[q] = NoReply)
       \/ /\ Free(q) /\ got'[q] = NoReply /\ stop'[q].phase \in {"settling", "listening", "done"}
          /\ stop'[q].phase = "done" => stop[q].phase = "terminals"
Quiescing(q) ==
    /\ UNCHANGED <<server, toClient, call>>
    /\ \A x \in Stops \ {q} : stop'[x] = stop[x] /\ got'[x] = got[x]
    /\ stop'[q].before = IF stop[q].phase = "idle" THEN StartedCalls ELSE stop[q].before
    /\ StopAsks(q) \/ StopRests(q)
Unmoved == \A q \in Stops : stop'[q].phase = stop[q].phase /\ stop'[q].before = stop[q].before
Scenes ==
    \/ \E r \in Calls : RunMoves(r)
    \/ Elsewhere
    \/ \E q \in Stops : Quiescing(q)
    \/ TimeOut
    \/ Unmoved /\ \E m \in Told : Takes(m) /\ (TakesReply(m) \/ TakesEnd(m) \/ TakesOther(m))
    \/ \E m \in Sent, s \in Seq(Told) :
         Serves(m, s) /\ (ServesStart(m, s) \/ ServesReply(m, s) \/ ServesAnswer(m, s) \/ ServesNothing(m, s))
    \/ \E a \in Asks : Ask(a)
    \/ \E u \in Calls, o \in Ends : EndsTurn(u, o)
    \/ Lost

(* The steps that no quiesce() takes part in.                                *)
LEMMA SilentRequests ==
    /\ \A t \in Calls \cup {None} : LET m == Request("turn/interrupt", None, t) IN m \in Sent /\ \A c \in Calls \cup Stops : ~From(m, c)
    /\ LET m == Request("thread/unsubscribe", None, None) IN m \in Sent /\ \A c \in Calls \cup Stops : ~From(m, c)
    /\ LET m == Request("thread/resume", Resumed, None) IN m \in Sent /\ \A c \in Calls \cup Stops : ~From(m, c)
    /\ \A m \in {"answer", "decline"}, a \in Asks : Answer(m, a) \in Sent /\ \A c \in Calls \cup Stops : ~From(Answer(m, a), c)
<1>1. ASSUME NEW m \in Methods \ {"turn/start"}, NEW c \in {None, Resumed}, NEW t \in Calls \cup {None}
      PROVE  Request(m, c, t) \in Sent /\ \A d \in Calls \cup Stops : ~From(Request(m, c, t), d)
  <2>1. Request(m, c, t) \in Sent /\ Request(m, c, t).caller = c
    BY LinesTyped, Names
  <2> QED BY <2>1, Names DEF From
<1>2. "turn/interrupt" \in Methods \ {"turn/start"} /\ "thread/unsubscribe" \in Methods \ {"turn/start"} /\ "thread/resume" \in Methods \ {"turn/start"}
  BY DEF Methods
<1>3. ASSUME NEW m \in {"answer", "decline"}, NEW a \in Asks
      PROVE  Answer(m, a) \in Sent /\ \A c \in Calls \cup Stops : ~From(Answer(m, a), c)
  BY LinesTyped DEF From
<1> QED BY <1>1, <1>2, <1>3

LEMMA AsideElsewhere ==
    ASSUME Typed,
           Interrupt \/ Retire \/ Resume \/ ResumeAnswered \/ Expire \/ \E a \in Asks : Respond(a) \/ AutoDecline(a)
    PROVE  Elsewhere
<1>1. \A q \in Stops : q \in Callers /\ q # Resumed
  BY Names
<1>2. got \in [Callers -> Replies] /\ IsTask(task)
  BY DEF Typed, Rest
<1>3. ASSUME PostsInterrupt, UNCHANGED <<server, got, call, stop>> PROVE Elsewhere
  <2>1. CASE Cuts
    <3>1. task.turnId \in Calls \cup {None}
      BY <1>2 DEF IsTask, TaskRecords
    <3> DEFINE m == Request("turn/interrupt", None, task.turnId)
    <3>2. m \in Sent /\ (\A c \in Calls \cup Stops : ~From(m, c)) /\ toServer' = Append(toServer, m) /\ toClient' = toClient
      BY <1>3, <2>1, <3>1, SilentRequests DEF PostsInterrupt, Posts
    <3> QED BY <1>3, <3>2 DEF Elsewhere
  <2>2. CASE ~Cuts
    BY <1>3, <2>2 DEF PostsInterrupt, Elsewhere, pipes
  <2> QED BY <2>1, <2>2
<1>4. CASE Interrupt
  BY <1>3, <1>4 DEF Interrupt
<1>5. CASE Expire
  BY <1>3, <1>5 DEF Expire
<1>6. CASE Retire
  BY <1>6, SilentRequests DEF Retire, Posts, Elsewhere
<1>7. CASE Resume
  BY <1>7, SilentRequests DEF Resume, Sends, Elsewhere
<1>8. CASE ResumeAnswered
  BY <1>1, <1>2, <1>8 DEF ResumeAnswered, pipes, Elsewhere
<1>9. ASSUME NEW a \in Asks, Respond(a) PROVE Elsewhere
  BY <1>9, SilentRequests DEF Respond, Posts, Elsewhere
<1>10. ASSUME NEW a \in Asks, AutoDecline(a) PROVE Elsewhere
  BY <1>10, SilentRequests DEF AutoDecline, Posts, pipes, Elsewhere
<1> QED BY <1>4, <1>5, <1>6, <1>7, <1>8, <1>9, <1>10
LEMMA QuiesceAsks ==
    ASSUME Typed, Correlated, NEW q \in Stops, Quiesce(q)
    PROVE  Quiescing(q)
<1>1. /\ stop \in [Stops -> StopRecords] /\ stop[q].phase = "idle" /\ IsTask(task)
      /\ UNCHANGED <<server, got, call>>
  BY DEF Typed, Rest, Quiesce
<1>2. PICK p \in StopPhases :
        /\ p = IF ~up THEN "failed" ELSE IF Cuts THEN "interrupting" ELSE IF task # NoTask THEN "settling" ELSE "reading"
        /\ stop' = [stop EXCEPT ![q] = [phase |-> p, awaits |-> task.call, heard |-> FALSE, before |-> StartedCalls]]
  BY DEF Quiesce, StopPhases
<1>3. /\ stop'[q].phase = p /\ stop'[q].before = StartedCalls
      /\ \A x \in Stops \ {q} : stop'[x] = stop[x] /\ got'[x] = got[x]
  BY <1>1, <1>2
<1>4. Free(q) /\ got'[q] = NoReply
  <2>1. ~Waiting(q) /\ q \in Callers
    BY <1>1, Names DEF Waiting
  <2>2. got[q] = NoReply
    BY <2>1 DEF Correlated
  <2> QED BY <1>1, <2>2 DEF Free, InRequest
<1>5. CASE p \in {"failed", "settling"}
  <2>1. UNCHANGED pipes
    BY <1>2, <1>5 DEF Quiesce
  <2>2. StopRests(q)
    BY <1>1, <1>3, <1>4, <1>5, <2>1 DEF StopRests, pipes
  <2> QED BY <1>1, <1>3, <2>1, <2>2 DEF Quiescing, pipes
<1>6. CASE p = "interrupting"
  <2>1. Sends("turn/interrupt", q, task.turnId) /\ task.turnId \in Calls \cup {None}
    BY <1>1, <1>2, <1>6 DEF Quiesce, IsTask, TaskRecords
  <2>2. StopAsks(q)
    BY <1>3, <1>4, <1>6, <2>1 DEF StopAsks, InRequest, Sends, Methods
  <2> QED BY <1>1, <1>3, <2>1, <2>2 DEF Quiescing, Sends
<1>7. CASE p = "reading"
  <2>1. Sends("thread/read", q, None)
    BY <1>2, <1>7 DEF Quiesce
  <2>2. StopAsks(q)
    BY <1>3, <1>4, <1>7, <2>1 DEF StopAsks, InRequest, Sends, Methods
  <2> QED BY <1>1, <1>3, <2>1, <2>2 DEF Quiescing, Sends
<1> QED BY <1>2, <1>5, <1>6, <1>7

LEMMA StopStepAsks ==
    ASSUME Typed, Correlated, NEW q \in Stops, StopStep(q)
    PROVE  Quiescing(q)
<1>1. stop \in [Stops -> StopRecords] /\ got \in [Callers -> Replies] /\ q \in Callers /\ Stops \subseteq Callers
  BY Names DEF Typed, Rest
<1>2. UNCHANGED <<server, call>>
  BY DEF StopStep
<1>3. ASSUME NEW p \in StopPhases, StopBecomes(q, p), stop[q].phase # "idle", toClient' = toClient,
             got' = [got EXCEPT ![q] = NoReply] \/ (got' = got /\ ~InRequest(q))
      PROVE  /\ stop'[q].phase = p /\ stop'[q].before = stop[q].before /\ got'[q] = NoReply
             /\ StopAsks(q) \/ StopRests(q) => Quiescing(q)
  <2>1. stop'[q].phase = p /\ stop'[q].before = stop[q].before /\ \A x \in Stops \ {q} : stop'[x] = stop[x]
    <3>1. stop' = [stop EXCEPT ![q] = [stop[q] EXCEPT !.phase = p, !.heard = FALSE]]
      BY <1>1, <1>3 DEF StopBecomes
    <3>2. stop'[q] = [stop[q] EXCEPT !.phase = p, !.heard = FALSE] /\ stop[q] \in StopRecords
      BY <1>1, <3>1
    <3>3. stop'[q].phase = p /\ stop'[q].before = stop[q].before
      BY <3>2 DEF StopRecords
    <3> QED BY <1>1, <3>1, <3>3
  <2>2. got'[q] = NoReply /\ \A x \in Stops \ {q} : got'[x] = got[x]
    <3>1. CASE got' = [got EXCEPT ![q] = NoReply]
      BY <1>1, <3>1
    <3>2. CASE got' = got /\ ~InRequest(q)
      <4>1. ~Waiting(q)
        BY <3>2 DEF Waiting, InRequest
      <4> QED BY <1>1, <3>2, <4>1 DEF Correlated
    <3> QED BY <1>3, <3>1, <3>2
  <2> QED BY <1>2, <1>3, <2>1, <2>2 DEF Quiescing
<1>4. ASSUME NEW m \in Methods \ {"turn/start"}, NEW t \in Calls \cup {None}, Sends(m, q, t),
             NEW p \in {"interrupting", "reading", "cutting", "confirming", "terminals"}, StopBecomes(q, p),
             stop[q].phase # "idle", Free(q),
             got' = [got EXCEPT ![q] = NoReply] \/ (got' = got /\ ~InRequest(q)),
             p \in {"reading", "confirming"} => m = "thread/read",
             p = "terminals" => stop[q].phase \in {"reading", "confirming"} /\ ReadsIdle(q)
      PROVE  Quiescing(q)
  <2>1. toServer' = Append(toServer, Request(m, q, t)) /\ toClient' = toClient
    BY <1>4 DEF Sends
  <2>2. /\ stop'[q].phase = p /\ got'[q] = NoReply
        /\ StopAsks(q) \/ StopRests(q) => Quiescing(q)
    BY <1>3, <1>4, <2>1 DEF StopPhases
  <2>3. StopAsks(q)
    BY <1>4, <2>1, <2>2 DEF StopAsks, InRequest
  <2> QED BY <2>2, <2>3
<1>5. ASSUME UNCHANGED pipes, NEW p \in {"failed", "settling", "listening", "done"}, StopBecomes(q, p), stop[q].phase # "idle",
             got' = [got EXCEPT ![q] = NoReply], p = "failed" \/ Free(q),
             p = "done" => stop[q].phase = "terminals"
      PROVE  Quiescing(q)
  <2>1. toServer' = toServer /\ toClient' = toClient
    BY <1>5 DEF pipes
  <2>2. /\ stop'[q].phase = p /\ got'[q] = NoReply
        /\ StopAsks(q) \/ StopRests(q) => Quiescing(q)
    BY <1>3, <1>5, <2>1 DEF StopPhases
  <2>3. StopRests(q)
    BY <1>5, <2>1, <2>2 DEF StopRests
  <2> QED BY <2>2, <2>3
<1>6. ASSUME NEW phase, StopAnswered(q, phase)
      PROVE  stop[q].phase = phase /\ got' = [got EXCEPT ![q] = NoReply] /\ (Ok(q) => Free(q))
  BY <1>6 DEF StopAnswered, Free, Heard, Ok, None
<1>7. CASE StopInterrupted(q)
  BY <1>5, <1>6, <1>7 DEF StopInterrupted
<1>8. CASE StopSettled(q)
  BY <1>4, <1>8 DEF StopSettled, StopReleased, Free, InRequest, Methods
<1>9. CASE StopRead(q)
  <2>1. got[q].turn \in Calls \cup {None}
    BY <1>1 DEF Replies
  <2>2. CASE ~Ok(q) /\ Fails(q)
    BY <1>5, <1>6, <1>9, <2>2 DEF StopRead, Fails
  <2>3. CASE Ok(q) /\ got[q].turn # None /\ Sends("turn/interrupt", q, got[q].turn) /\ StopBecomes(q, "cutting")
    BY <1>4, <1>6, <1>9, <2>1, <2>3 DEF StopRead, Methods
  <2>4. CASE Ok(q) /\ got[q].turn = None /\ Sends("thread/backgroundTerminals", q, None) /\ StopBecomes(q, "terminals")
    BY <1>4, <1>6, <1>9, <2>4 DEF StopRead, StopAnswered, ReadsIdle, Methods
  <2> QED BY <1>9, <2>2, <2>3, <2>4 DEF StopRead
<1>10. CASE StopCut(q)
  <2>1. CASE ~Ok(q) /\ Fails(q)
    BY <1>5, <1>6, <1>10, <2>1 DEF StopCut, Fails
  <2>2. CASE Ok(q) /\ Sends("thread/read", q, None) /\ StopBecomes(q, "confirming")
    BY <1>4, <1>6, <1>10, <2>2 DEF StopCut, Methods
  <2>3. CASE Ok(q) /\ StopBecomes(q, "listening") /\ UNCHANGED pipes
    BY <1>5, <1>6, <1>10, <2>3 DEF StopCut
  <2> QED BY <1>10, <2>1, <2>2, <2>3 DEF StopCut
<1>11. CASE StopHeard(q)
  BY <1>4, <1>11 DEF StopHeard, Free, InRequest, Methods
<1>12. CASE StopConfirmed(q)
  <2>1. CASE Fails(q)
    BY <1>5, <1>6, <1>12, <2>1 DEF StopConfirmed, Fails
  <2>2. CASE Ok(q) /\ got[q].turn = None /\ Sends("thread/backgroundTerminals", q, None) /\ StopBecomes(q, "terminals")
    BY <1>4, <1>6, <1>12, <2>2 DEF StopConfirmed, StopAnswered, ReadsIdle, Methods
  <2> QED BY <1>12, <2>1, <2>2 DEF StopConfirmed
<1>13. CASE StopTerminals(q)
  <2>1. CASE ~Ok(q) /\ Fails(q)
    BY <1>5, <1>6, <1>13, <2>1 DEF StopTerminals, Fails
  <2>2. CASE Ok(q) /\ StopBecomes(q, "done") /\ UNCHANGED pipes
    BY <1>5, <1>6, <1>13, <2>2 DEF StopTerminals
  <2> QED BY <1>13, <2>1, <2>2 DEF StopTerminals
<1> QED BY <1>7, <1>8, <1>9, <1>10, <1>11, <1>12, <1>13 DEF StopStep

LEMMA StopTimeOutRests ==
    ASSUME Typed, NEW q \in Stops, StopTimesOut(q)
    PROVE  Quiescing(q)
<1>1. /\ stop \in [Stops -> StopRecords] /\ UNCHANGED <<server, call, got, toServer, toClient>>
      /\ stop[q].phase \in {"settling", "listening"}
  BY DEF Typed, Rest, StopTimesOut, pipes
<1>2. stop' = [stop EXCEPT ![q] = [stop[q] EXCEPT !.phase = "failed", !.heard = FALSE]] /\ stop[q] \in StopRecords
  BY <1>1 DEF StopTimesOut, StopBecomes
<1>3. stop'[q].phase = "failed" /\ stop'[q].before = stop[q].before /\ \A x \in Stops \ {q} : stop'[x] = stop[x]
  BY <1>1, <1>2 DEF StopRecords
<1> QED BY <1>1, <1>3 DEF Quiescing, StopRests

LEMMA NextScenes ==
    ASSUME Typed, Correlated, Next
    PROVE  Scenes
<1>1. CASE Continue
  <2>1. draining' \in BOOLEAN
    BY <1>1 DEF Continue, Drains
  <2>2. ASSUME NEW r \in Calls, RunRead(r) \/ Opened(r) \/ RunStarted(r) \/ RunCut(r) PROVE RunMoves(r)
    BY <2>1, <2>2, ReadTyped, OpenedTyped, StartedTyped, CutTyped
  <2> QED BY <1>1, <2>2, StopStepAsks, AsideElsewhere DEF Continue, Scenes
<1>2. CASE Dispatch
  <2>1. \E m \in Told : Takes(m) /\ (TakesReply(m) \/ TakesEnd(m) \/ TakesOther(m))
    BY <1>2, DispatchTyped
  <2>2. stop' = stop \/ stop' = Hears
    BY <1>2 DEF Dispatch, OnReply, OnNotification
  <2>3. Unmoved
    <3>1. stop \in [Stops -> StopRecords]
      BY DEF Typed, Rest
    <3>2. ASSUME NEW q \in Stops, stop' = Hears PROVE stop'[q].phase = stop[q].phase /\ stop'[q].before = stop[q].before
      <4>1. stop'[q] = [stop[q] EXCEPT !.heard = @ \/ Listening(q)] /\ stop[q] \in StopRecords
        BY <3>1, <3>2 DEF Hears
      <4> QED BY <4>1 DEF StopRecords
    <3> QED BY <2>2, <3>2 DEF Unmoved
  <2> QED BY <2>1, <2>3 DEF Scenes
<1>3. CASE Application
  <2>1. ASSUME NEW r \in Calls, Run(r) PROVE RunMoves(r)
    BY <2>1, RunTyped
  <2> QED BY <1>3, <2>1, QuiesceAsks, AsideElsewhere DEF Application, Scenes
<1>4. CASE Timers
  BY <1>4, StopTimeOutRests, AsideElsewhere DEF Timers, Scenes
<1>5. CASE Server
  <2>1. CASE Serve
    BY <2>1, ServeTyped DEF Scenes
  <2>2. CASE EndTurn
    BY <2>2, EndTurnTyped DEF Scenes
  <2> QED BY <1>5, <2>1, <2>2 DEF Server, Scenes
<1>6. CASE Lost
  BY <1>6 DEF Scenes
<1> QED BY <1>1, <1>2, <1>3, <1>4, <1>5, <1>6 DEF Next
(* A step that keeps the phase of quiesce() q, adds no line of it and begins *)
(* no turn of a run it asks about.                                           *)
LEMMA StopSame ==
    ASSUME NEW q \in Stops, StopOf(q),
           stop'[q].phase = stop[q].phase, stop'[q].before = stop[q].before, SentBefore(q)',
           got'[q] = got[q] \/ (got[q] = NoReply /\ got'[q].error = "late"),
           server'.turn = server.turn \/ server'.turn \notin Calls,
           \A i \in DOMAIN toServer' :
             From(toServer'[i], q) \/ (\E r \in stop[q].before : IsStart(toServer'[i], r)) =>
               i \in DOMAIN toServer /\ toServer'[i] = toServer[i],
           \A j \in DOMAIN toClient' : IsReply(toClient'[j], q) => j \in DOMAIN toClient /\ toClient'[j] = toClient[j]
    PROVE  StopOf(q)'
<1>1. stop[q].before \subseteq Calls
  BY DEF StopOf, SentBefore
<1>2. (Asking(q)' => Asking(q)) /\ (Replied(q)' => Replied(q)) /\ (Heard(q)' => Heard(q)) /\ (InRequest(q)' <=> InRequest(q))
  <2>1. Heard(q)' => Heard(q)
    BY DEF Heard
  <2>2. InRequest(q)' <=> InRequest(q)
    BY DEF InRequest
  <2> QED BY <2>1, <2>2 DEF Asking, Replied
<1>3. OneAsk(q)'
  <2>1. /\ \A i, j \in DOMAIN toServer' : From(toServer'[i], q) /\ From(toServer'[j], q) => i = j
        /\ \A i, j \in DOMAIN toClient' : IsReply(toClient'[i], q) /\ IsReply(toClient'[j], q) => i = j
    BY DEF StopOf, OneAsk
  <2> QED BY <1>2, <2>1 DEF StopOf, OneAsk
<1>4. Over(q) => Over(q)'
  BY <1>1 DEF Over
<1>5. ReadsIdle(q)' => ReadsIdle(q)
  BY DEF ReadsIdle, Ok, None
<1>6. Looks(q)'
  <2> SUFFICES ASSUME stop[q].phase \in {"reading", "confirming"} PROVE Looks(q)'
    BY DEF Looks
  <2>1. Looks(q)
    BY DEF StopOf
  <2>2. ASSUME NEW i \in DOMAIN toServer', From(toServer'[i], q)
        PROVE  /\ IsRead(toServer'[i], q)
               /\ \A k \in DOMAIN toServer', r \in stop[q].before : IsStart(toServer'[k], r) => k < i
    BY <2>1, <2>2 DEF Looks
  <2>3. ASSUME NEW j \in DOMAIN toClient', SaysIdle(toClient'[j], q) PROVE Over(q)
    BY <2>1, <2>3 DEF Looks, SaysIdle
  <2>4. ReadsIdle(q)' => Over(q)
    BY <1>5, <2>1 DEF Looks
  <2> QED BY <1>4, <2>2, <2>3, <2>4 DEF Looks
<1>7. Sees(q)'
  BY <1>4 DEF StopOf, Sees
<1> QED BY <1>3, <1>6, <1>7 DEF StopOf

(* Runs that have sent their turn/start do not send it again.                *)
LEMMA PastStays ==
    ASSUME Typed, NEW q \in Stops, SentBefore(q), stop'[q].before = stop[q].before,
           UNCHANGED call \/ (\E r \in Calls : RunMoves(r)) \/ Lost
    PROVE  SentBefore(q)'
<1>1. SUFFICES ASSUME NEW r \in Calls, Past(r) PROVE Past(r)'
  BY DEF SentBefore
<1>2. CASE UNCHANGED call
  BY <1>1, <1>2 DEF Past
<1>3. ASSUME NEW x \in Calls, RunMoves(x) PROVE Past(r)'
  <2>1. CASE x = r
    BY <1>1, <1>3, <2>1 DEF Past, RunMoves, RunReads, RunOpens, RunStarts, RunCuts, RunRests, RunAbandons
  <2>2. CASE x # r
    BY <1>1, <1>3, <2>2 DEF Past, RunMoves, Stays
  <2> QED BY <2>1, <2>2
<1>4. CASE Lost
  BY <1>1, <1>4, LostMoves DEF Past
<1> QED BY <1>2, <1>3, <1>4

(* The steps of the runs, of the timers and of the server's own accord.      *)
LEMMA StopRuns ==
    ASSUME Typed, NEW q \in Stops, StopOf(q), NEW r \in Calls, RunMoves(r)
    PROVE  StopOf(q)'
<1>1. q # r /\ q \in Callers
  BY Names
<1>2. /\ UNCHANGED <<server, toClient, stop>> /\ got'[q] = got[q]
  BY <1>1 DEF RunMoves, Stays
<1>3. SentBefore(q)'
  BY <1>2, PastStays DEF StopOf
<1>4. ASSUME NEW i \in DOMAIN toServer', ~(i \in DOMAIN toServer /\ toServer'[i] = toServer[i])
      PROVE  ~From(toServer'[i], q) /\ \A x \in stop[q].before : ~IsStart(toServer'[i], x)
  <2>1. toServer \in Seq(Sent)
    BY DEF Typed, Pipes
  <2>2. PICK m \in Sent : toServer' = Append(toServer, m) /\ m.caller # q /\ (IsStart(m, r) => RunStarts(r)) /\ (IsStart(m, m.caller) => m.caller = r)
    <3>1. CASE Mute
      <4> DEFINE m == Request("thread/unsubscribe", None, None)
      <4>1. m \in Sent /\ m.method = "thread/unsubscribe" /\ m.caller = None /\ None # q
        BY <1>1, LinesTyped, Names DEF Methods
      <4>2. toServer' = Append(toServer, m)
        BY <1>4, <3>1 DEF Mute
      <4> QED BY <4>1, <4>2 DEF IsStart
    <3>2. ASSUME NEW M \in Methods, NEW t \in Calls \cup {None}, Says1(r, M, t), M = "turn/start" => RunStarts(r)
          PROVE  \E m \in Sent : toServer' = Append(toServer, m) /\ m.caller # q /\ (IsStart(m, r) => RunStarts(r)) /\ (IsStart(m, m.caller) => m.caller = r)
      <4>1. r \in Callers
        BY Names
      <4>2. Request(M, r, t) \in Sent /\ Request(M, r, t).method = M /\ Request(M, r, t).caller = r
        BY <4>1, LinesTyped
      <4> QED BY <1>1, <3>2, <4>2 DEF Says1, IsStart
    <3> QED BY <3>1, <3>2 DEF RunMoves, RunReads, RunOpens, RunStarts, RunCuts, RunRests, RunAbandons, Methods
  <2>3. /\ DOMAIN Append(toServer, m) = 1..Len(toServer)+1
        /\ \A k \in DOMAIN toServer : Append(toServer, m)[k] = toServer[k]
        /\ Append(toServer, m)[Len(toServer) + 1] = m
        /\ DOMAIN toServer = 1..Len(toServer) /\ Len(toServer) \in Nat
    BY <2>1, Appended
  <2>4. toServer'[i] = m
    BY <1>4, <2>2, <2>3
  <2>5. ASSUME NEW x \in stop[q].before, IsStart(m, x) PROVE FALSE
    <3>1. x = r /\ RunStarts(r)
      BY <2>2, <2>5 DEF IsStart
    <3> QED BY <2>5, <3>1 DEF StopOf, SentBefore, Past, RunStarts
  <2> QED BY <2>2, <2>4, <2>5 DEF From
<1> QED BY <1>2, <1>3, <1>4, StopSame

LEMMA StopElsewhere ==
    ASSUME Typed, NEW q \in Stops, StopOf(q), Elsewhere
    PROVE  StopOf(q)'
<1>1. UNCHANGED <<server, toClient, call, stop>> /\ got'[q] = got[q]
  BY DEF Elsewhere
<1>2. SentBefore(q)'
  BY <1>1, PastStays DEF StopOf
<1>3. ASSUME NEW i \in DOMAIN toServer', ~(i \in DOMAIN toServer /\ toServer'[i] = toServer[i])
      PROVE  \A c \in Calls \cup Stops : ~From(toServer'[i], c)
  <2>1. PICK m \in Sent : (\A c \in Calls \cup Stops : ~From(m, c)) /\ toServer' = Append(toServer, m)
    BY <1>3 DEF Elsewhere
  <2>2. toServer \in Seq(Sent)
    BY DEF Typed, Pipes
  <2>3. /\ DOMAIN Append(toServer, m) = 1..Len(toServer)+1
        /\ \A k \in DOMAIN toServer : Append(toServer, m)[k] = toServer[k]
        /\ Append(toServer, m)[Len(toServer) + 1] = m
        /\ DOMAIN toServer = 1..Len(toServer) /\ Len(toServer) \in Nat
    BY <2>2, Appended
  <2>4. toServer'[i] = m
    BY <1>3, <2>1, <2>3
  <2> QED BY <2>1, <2>4
<1>4. stop[q].before \subseteq Calls
  BY DEF StopOf, SentBefore
<1>5. ASSUME NEW i \in DOMAIN toServer', From(toServer'[i], q) \/ \E r \in stop[q].before : IsStart(toServer'[i], r)
      PROVE  i \in DOMAIN toServer /\ toServer'[i] = toServer[i]
  BY <1>3, <1>4, <1>5 DEF IsStart, From
<1> QED BY <1>1, <1>2, <1>5, StopSame

LEMMA StopTimeOut ==
    ASSUME Typed, Correlated, NEW q \in Stops, StopOf(q), TimeOut
    PROVE  StopOf(q)'
<1>1. /\ UNCHANGED <<toServer, toClient, server, call, stop>>
      /\ got[q] = NoReply /\ (got'[q] = NoReply \/ got'[q].error = "late")
  BY TimeOutMoves, Names DEF TimeOut
<1>2. SentBefore(q)'
  BY <1>1, PastStays DEF StopOf
<1> QED BY <1>1, <1>2, StopSame

LEMMA StopAsk ==
    ASSUME Typed, NEW q \in Stops, StopOf(q), NEW a \in Asks, Ask(a)
    PROVE  StopOf(q)'
<1>1. UNCHANGED <<toServer, got, call, stop>> /\ server'.turn = server.turn
  BY DEF Ask, Typed, Thread, Servers
<1>2. PICK p \in Told : p.method = "request" /\ toClient' = toClient \o <<p>>
  BY LinesTyped DEF Ask, Says
<1>3. \A j \in DOMAIN toClient' : IsReply(toClient'[j], q) => j \in DOMAIN toClient /\ toClient'[j] = toClient[j]
  <2>1. <<p>> \in Seq(Told) /\ \A i \in DOMAIN <<p>> : <<p>>[i] = p
    OBVIOUS
  <2>2. PICK s \in Seq(Told) : s = <<p>> /\ toClient' = toClient \o s /\ \A i \in DOMAIN s : s[i] = p
    BY <1>2, <2>1
  <2>3. /\ \A i \in DOMAIN toClient : toClient'[i] = toClient[i] /\ i <= Len(toClient)
        /\ \A i \in DOMAIN toClient' : \/ i \in DOMAIN toClient
                                       \/ i > Len(toClient) /\ i - Len(toClient) \in DOMAIN s /\ toClient'[i] = s[i - Len(toClient)]
    BY <2>2, SaidLines
  <2> QED BY <1>2, <2>2, <2>3 DEF IsReply
<1>4. SentBefore(q)'
  BY <1>1, PastStays DEF StopOf
<1> QED BY <1>1, <1>3, <1>4, StopSame

LEMMA StopEnds ==
    ASSUME Typed, NEW q \in Stops, StopOf(q), NEW u \in Calls, NEW o \in Ends, EndsTurn(u, o)
    PROVE  StopOf(q)'
<1>1. UNCHANGED <<toServer, got, call, stop>> /\ server'.turn = None
  BY DEF EndsTurn, Idle
<1>2. \A j \in DOMAIN toClient' : IsReply(toClient'[j], q) => j \in DOMAIN toClient /\ toClient'[j] = toClient[j]
  BY EndLines DEF IsReply, IsEnd, Ends
<1>3. SentBefore(q)'
  BY <1>1, PastStays DEF StopOf
<1> QED BY <1>1, <1>2, <1>3, StopSame, Names

LEMMA StopLost ==
    ASSUME Typed, Correlated, NEW q \in Stops, StopOf(q), Lost
    PROVE  StopOf(q)'
<1>1. toServer' = <<>> /\ toClient' = <<>> /\ server'.turn = None
  BY LostMoves DEF Idle
<1>2. stop \in [Stops -> StopRecords]
  BY DEF Typed, Rest
<1>3. stop'[q].phase \in {"idle", "done", "failed"} /\ stop'[q].before = stop[q].before
  <2>1. stop'[q] = [stop[q] EXCEPT !.phase = IF @ \in {"idle", "done"} THEN @ ELSE "failed"] /\ stop[q] \in StopRecords
    BY <1>2 DEF Lost
  <2> QED BY <2>1 DEF StopRecords
<1>4. SentBefore(q)'
  BY <1>3, PastStays DEF StopOf
<1>5. OneAsk(q)'
  BY <1>1 DEF OneAsk, Asking, Replied
<1>6. Over(q)'
  BY <1>1, <1>4, Names DEF Over, SentBefore
<1> QED BY <1>3, <1>4, <1>5, <1>6 DEF StopOf, Looks, Sees
(* A step of quiesce() q itself. Nothing of it is in the pipes when it asks. *)
LEMMA StopOwn ==
    ASSUME Typed, NEW q \in Stops, StopOf(q), Quiescing(q)
    PROVE  StopOf(q)'
<1>1. UNCHANGED <<server, toClient, call>> /\ q \in Stops /\ q \in Callers /\ q \notin Calls
  BY Names DEF Quiescing
<1>2. SentBefore(q)'
  BY <1>1 DEF Quiescing, StopOf, SentBefore, StartedCalls, Past
<1>3. Free(q) => ~Asking(q) /\ ~Replied(q)
  BY DEF Free, StopOf, OneAsk
<1>4. CASE StopAsks(q)
  <2>1. PICK m \in Sent :
          /\ toServer' = Append(toServer, m) /\ From(m, q) /\ m.method # "turn/start"
          /\ stop'[q].phase \in {"reading", "confirming"} => IsRead(m, q)
    <3>1. PICK M \in Methods \ {"turn/start"}, t \in Calls \cup {None} :
            /\ toServer' = Append(toServer, Request(M, q, t))
            /\ stop'[q].phase \in {"reading", "confirming"} => M = "thread/read"
      BY <1>4 DEF StopAsks
    <3>2. Request(M, q, t) \in Sent /\ Request(M, q, t).method = M /\ Request(M, q, t).caller = q
      BY <1>1, LinesTyped
    <3> QED BY <3>1, <3>2 DEF From, IsRead, Methods
  <2>2. toServer \in Seq(Sent)
    BY DEF Typed, Pipes
  <2>3. /\ DOMAIN Append(toServer, m) = 1..Len(toServer)+1
        /\ \A k \in DOMAIN toServer : Append(toServer, m)[k] = toServer[k]
        /\ Append(toServer, m)[Len(toServer) + 1] = m
        /\ DOMAIN toServer = 1..Len(toServer) /\ Len(toServer) \in Nat
    BY <2>2, Appended
  <2> DEFINE n == Len(toServer) + 1
  <2>4. /\ n \in DOMAIN toServer' /\ toServer'[n] = m
        /\ \A i \in DOMAIN toServer' : i = n \/ (i \in DOMAIN toServer /\ toServer'[i] = toServer[i] /\ i < n)
    BY <2>1, <2>3
  <2> HIDE DEF n
  <2>5. ~Asking(q) /\ ~Replied(q) /\ ~Replied(q)' /\ got'[q] = NoReply
    BY <1>1, <1>3, <1>4 DEF StopAsks, Replied
  <2>6. \A i \in DOMAIN toServer' : From(toServer'[i], q) => i = n
    BY <2>4, <2>5 DEF Asking
  <2>7. OneAsk(q)'
    <3>1. InRequest(q)' /\ ~Heard(q)'
      BY <1>4, <2>5 DEF StopAsks, Heard
    <3>2. \A i, j \in DOMAIN toServer' : From(toServer'[i], q) /\ From(toServer'[j], q) => i = j
      BY <2>6
    <3>3. \A i, j \in DOMAIN toClient' : IsReply(toClient'[i], q) /\ IsReply(toClient'[j], q) => i = j
      BY <2>5 DEF Replied
    <3> QED BY <2>5, <3>1, <3>2, <3>3 DEF OneAsk
  <2>8. Looks(q)'
    <3>1. ASSUME stop'[q].phase \in {"reading", "confirming"}, NEW i \in DOMAIN toServer', From(toServer'[i], q)
          PROVE  /\ IsRead(toServer'[i], q)
                 /\ \A k \in DOMAIN toServer', r \in stop'[q].before : IsStart(toServer'[k], r) => k < i
      <4>1. i = n /\ IsRead(toServer'[i], q)
        BY <2>1, <2>4, <2>6, <3>1
      <4>2. ASSUME NEW k \in DOMAIN toServer', NEW r \in stop'[q].before, IsStart(toServer'[k], r) PROVE k < i
        BY <2>1, <2>4, <4>1, <4>2 DEF IsStart
      <4> QED BY <4>1, <4>2
    <3>2. \A j \in DOMAIN toClient' : ~SaysIdle(toClient'[j], q)
      BY <2>5 DEF Replied, SaysIdle
    <3>3. ~ReadsIdle(q)'
      BY <2>5 DEF ReadsIdle
    <3> QED BY <3>1, <3>2, <3>3 DEF Looks
  <2>9. Sees(q)'
    <3> SUFFICES ASSUME stop'[q].phase \in {"terminals", "done"} PROVE Over(q)'
      BY DEF Sees
    <3>1. stop'[q].phase = "terminals"
      BY <1>4 DEF StopAsks, InRequest
    <3>2. stop[q].phase \in {"reading", "confirming"} /\ ReadsIdle(q)
      BY <1>4, <3>1 DEF StopAsks
    <3>3. Over(q) /\ stop'[q].before = stop[q].before
      BY <3>2 DEF StopOf, Looks, Quiescing
    <3>4. ASSUME NEW i \in DOMAIN toServer', NEW r \in stop[q].before PROVE ~IsStart(toServer'[i], r)
      BY <2>1, <2>4, <3>3, <3>4 DEF Over, IsStart
    <3> QED BY <1>1, <3>3, <3>4 DEF Over
  <2> QED BY <1>2, <2>7, <2>8, <2>9 DEF StopOf
<1>5. CASE StopRests(q)
  <2>1. toServer' = toServer /\ stop'[q].phase \in {"failed", "settling", "listening", "done"}
    BY <1>5 DEF StopRests
  <2>2. (Asking(q)' <=> Asking(q)) /\ (Replied(q)' <=> Replied(q)) /\ (Heard(q)' => Heard(q))
    <3>1. Heard(q)' => Heard(q)
      BY <1>5 DEF StopRests, Heard
    <3> QED BY <1>1, <2>1, <3>1 DEF Asking, Replied
  <2>3. OneAsk(q)'
    <3>1. stop'[q].phase = "failed" \/ (~Asking(q) /\ ~Replied(q))
      BY <1>3, <1>5 DEF StopRests
    <3> QED BY <1>1, <2>1, <2>2, <3>1 DEF StopOf, OneAsk
  <2>4. Looks(q)'
    BY <2>1 DEF Looks
  <2>5. Sees(q)'
    <3> SUFFICES ASSUME stop'[q].phase \in {"terminals", "done"} PROVE Over(q)'
      BY DEF Sees
    <3>1. stop[q].phase = "terminals"
      BY <1>5, <2>1 DEF StopRests
    <3>2. Over(q) /\ stop'[q].before = stop[q].before
      BY <3>1 DEF StopOf, Sees, Quiescing
    <3> QED BY <1>1, <2>1, <3>2 DEF Over
  <2> QED BY <1>2, <2>3, <2>4, <2>5 DEF StopOf
<1> QED BY <1>4, <1>5 DEF Quiescing

(* And what it does to another one.                                          *)
LEMMA StopOther ==
    ASSUME Typed, NEW q \in Stops, StopOf(q), NEW x \in Stops \ {q}, Quiescing(x)
    PROVE  StopOf(q)'
<1>1. UNCHANGED <<server, toClient, call>> /\ stop'[q] = stop[q] /\ got'[q] = got[q] /\ x \in Callers
  BY Names DEF Quiescing
<1>2. SentBefore(q)'
  BY <1>1, PastStays DEF StopOf
<1>3. ASSUME NEW i \in DOMAIN toServer', ~(i \in DOMAIN toServer /\ toServer'[i] = toServer[i])
      PROVE  ~From(toServer'[i], q) /\ toServer'[i].method # "turn/start"
  <2>1. PICK M \in Methods \ {"turn/start"}, t \in Calls \cup {None} : toServer' = Append(toServer, Request(M, x, t))
    BY <1>3 DEF Quiescing, StopAsks, StopRests
  <2>2. Request(M, x, t) \in Sent /\ Request(M, x, t).method = M /\ Request(M, x, t).caller = x
    BY <1>1, LinesTyped
  <2>3. PICK m \in Sent : toServer' = Append(toServer, m) /\ m.method # "turn/start" /\ m.caller = x
    BY <2>1, <2>2
  <2>4. toServer \in Seq(Sent)
    BY DEF Typed, Pipes
  <2>5. /\ DOMAIN Append(toServer, m) = 1..Len(toServer)+1
        /\ \A k \in DOMAIN toServer : Append(toServer, m)[k] = toServer[k]
        /\ Append(toServer, m)[Len(toServer) + 1] = m
        /\ DOMAIN toServer = 1..Len(toServer) /\ Len(toServer) \in Nat
    BY <2>4, Appended
  <2>6. toServer'[i] = m
    BY <1>3, <2>3, <2>5
  <2> QED BY <2>3, <2>6 DEF From
<1>4. ASSUME NEW i \in DOMAIN toServer', From(toServer'[i], q) \/ \E r \in stop[q].before : IsStart(toServer'[i], r)
      PROVE  i \in DOMAIN toServer /\ toServer'[i] = toServer[i]
  BY <1>3, <1>4 DEF IsStart
<1> QED BY <1>1, <1>2, <1>4, StopSame

(* A line of the output is taken: perhaps the answer q waits for.            *)
LEMMA StopTakes ==
    ASSUME Typed, Correlated, NEW q \in Stops, StopOf(q), Unmoved,
           NEW m \in Told, Takes(m), TakesReply(m) \/ TakesEnd(m) \/ TakesOther(m)
    PROVE  StopOf(q)'
<1>1. /\ UNCHANGED <<toServer, server, call>> /\ q \in Callers
      /\ toClient[1] = m /\ 1 \in DOMAIN toClient
      /\ \A i \in DOMAIN toClient' : i + 1 \in DOMAIN toClient /\ toClient'[i] = toClient[i + 1] /\ i + 1 # 1
      /\ DOMAIN toClient' \subseteq Nat
  BY TakenLines, Names
<1>2. stop'[q].phase = stop[q].phase /\ stop'[q].before = stop[q].before
  BY DEF Unmoved
<1>3. SentBefore(q)'
  BY <1>1, <1>2, PastStays DEF StopOf
<1>4. \/ got'[q] = got[q]
      \/ IsReply(m, q) /\ got'[q] = m /\ got[q] = NoReply
  BY <1>1, TakenAnswers
<1>5. (Asking(q)' <=> Asking(q)) /\ (Replied(q)' => Replied(q)) /\ (InRequest(q)' <=> InRequest(q))
  BY <1>1, <1>2 DEF Asking, Replied, InRequest
<1>6. ASSUME got'[q] # got[q] PROVE ~Asking(q) /\ ~Replied(q)'
  <2>1. IsReply(toClient[1], q) /\ Replied(q)
    BY <1>1, <1>4, <1>6 DEF Replied
  <2>2. \A i \in DOMAIN toClient' : ~IsReply(toClient'[i], q)
    BY <1>1, <2>1 DEF StopOf, OneAsk
  <2> QED BY <2>1, <2>2 DEF StopOf, OneAsk, Replied
<1>7. OneAsk(q)'
  <2>1. ASSUME NEW i \in DOMAIN toClient', NEW j \in DOMAIN toClient', IsReply(toClient'[i], q), IsReply(toClient'[j], q) PROVE i = j
    <3>1. i + 1 = j + 1 /\ i \in Nat /\ j \in Nat
      BY <1>1, <2>1 DEF StopOf, OneAsk
    <3> QED BY <3>1
  <2>2. \A i, j \in DOMAIN toServer' : From(toServer'[i], q) /\ From(toServer'[j], q) => i = j
    BY <1>1 DEF StopOf, OneAsk
  <2>3. Asking(q)' \/ Replied(q)' => got'[q] = got[q]
    BY <1>5, <1>6
  <2> QED BY <1>2, <1>5, <2>1, <2>2, <2>3 DEF StopOf, OneAsk, Heard
<1>8. Over(q)' <=> Over(q)
  BY <1>1, <1>2 DEF Over
<1>9. Looks(q)'
  <2> SUFFICES ASSUME stop[q].phase \in {"reading", "confirming"} PROVE Looks(q)'
    BY <1>2 DEF Looks
  <2>1. Looks(q)
    BY DEF StopOf
  <2>2. \A j \in DOMAIN toClient' : SaysIdle(toClient'[j], q) => Over(q)
    BY <1>1, <2>1 DEF Looks
  <2>3. ReadsIdle(q)' => Over(q)
    <3>1. CASE got'[q] = got[q]
      BY <2>1, <3>1 DEF Looks, ReadsIdle, Ok
    <3>2. CASE IsReply(m, q) /\ got'[q] = m
      <4>1. ReadsIdle(q)' => SaysIdle(toClient[1], q)
        BY <1>1, <3>2 DEF ReadsIdle, Ok, SaysIdle
      <4> QED BY <1>1, <2>1, <4>1 DEF Looks
    <3> QED BY <1>4, <3>1, <3>2
  <2>4. \A i \in DOMAIN toServer' : From(toServer'[i], q) =>
          /\ IsRead(toServer'[i], q)
          /\ \A k \in DOMAIN toServer', r \in stop'[q].before : IsStart(toServer'[k], r) => k < i
    BY <1>1, <1>2, <2>1 DEF Looks
  <2> QED BY <1>8, <2>2, <2>3, <2>4 DEF Looks
<1>10. Sees(q)'
  BY <1>2, <1>8 DEF StopOf, Sees
<1> QED BY <1>3, <1>7, <1>9, <1>10 DEF StopOf
(* The server takes a line. A thread/read of q that finds the thread idle    *)
(* has no turn/start before it that q asks about, nor, being first, after.   *)
LEMMA StopServes ==
    ASSUME Typed, NEW q \in Stops, StopOf(q), NEW m \in Sent, NEW s \in Seq(Told), Serves(m, s),
           ServesStart(m, s) \/ ServesReply(m, s) \/ ServesAnswer(m, s) \/ ServesNothing(m, s)
    PROVE  StopOf(q)'
<1>1. /\ UNCHANGED <<got, call, stop>> /\ toClient' = toClient \o s /\ q \in Callers /\ q \notin Calls
      /\ toServer[1] = m /\ 1 \in DOMAIN toServer /\ DOMAIN toServer \subseteq Nat \ {0} /\ DOMAIN toServer' \subseteq Nat \ {0}
      /\ \A i \in DOMAIN toServer' : i + 1 \in DOMAIN toServer /\ toServer'[i] = toServer[i + 1] /\ i + 1 # 1
  BY ServedLines, Names DEF Serves
<1>2. SentBefore(q)' /\ SentBefore(q)
  BY <1>1, PastStays DEF StopOf
<1>3. ASSUME NEW i \in DOMAIN s, IsReply(s[i], q)
      PROVE  /\ From(m, q) /\ server'.turn = server.turn
             /\ IsRead(m, q) /\ SaysIdle(s[i], q) => server.turn = None
  <2>1. CASE ServesStart(m, s)
    <3>1. m.caller \in Calls
      BY <2>1, SentKinds DEF ServesStart
    <3>2. m.caller \in Callers \cup {None}
      BY <3>1, Names
    <3>3. /\ Reply(m.caller, m.caller).caller = m.caller /\ Note("turn/started", m.caller).method = "turn/started"
      BY <3>1, <3>2, LinesTyped
    <3>4. s[i] \in {Reply(m.caller, m.caller), Note("turn/started", m.caller)}
      BY <2>1 DEF ServesStart
    <3> QED BY <1>1, <1>3, <3>1, <3>3, <3>4 DEF IsReply
  <2>2. CASE ServesReply(m, s)
    <3>1. PICK p \in Told : /\ s = <<p>> /\ p.method = "reply" /\ p.caller = m.caller
                            /\ m.method = "thread/read" => (p.error = None => p.turn = server.turn)
      BY <2>2 DEF ServesReply
    <3>2. s[i] = p
      BY <3>1
    <3>3. m.method \notin {"answer", "decline"}
      BY <2>2 DEF ServesReply, Methods
    <3> QED BY <1>3, <2>2, <3>1, <3>2, <3>3 DEF ServesReply, IsReply, From, IsRead, SaysIdle
  <2>3. CASE ServesAnswer(m, s)
    <3>1. s[i].method = "serverRequest/resolved"
      <4>1. CASE m.ask \in server.asks
        <5>1. {m.ask} \in SUBSET Asks /\ s = Resolved({m.ask})
          BY <2>3, <4>1 DEF ServesAnswer, Typed, Thread, Servers
        <5> QED BY <5>1, ResolvedTyped
      <4>2. CASE m.ask \notin server.asks
        BY <2>3, <4>2 DEF ServesAnswer
      <4> QED BY <4>1, <4>2
    <3> QED BY <1>3, <3>1 DEF IsReply
  <2>4. CASE ServesNothing(m, s)
    BY <2>4 DEF ServesNothing
  <2> QED BY <2>1, <2>2, <2>3, <2>4
<1>4. /\ \A i, j \in DOMAIN s : s[i].method = "reply" /\ s[j].method = "reply" => i = j
      /\ server'.turn = server.turn \/ IsStart(m, server'.turn)
  BY Sayings
<1>5. /\ DOMAIN toClient' \subseteq Nat /\ Len(toClient) \in Nat /\ DOMAIN s \subseteq Nat \ {0}
      /\ \A i \in DOMAIN toClient : toClient'[i] = toClient[i] /\ i <= Len(toClient)
      /\ \A i \in DOMAIN toClient' : \/ i \in DOMAIN toClient
                                     \/ i > Len(toClient) /\ i - Len(toClient) \in DOMAIN s /\ toClient'[i] = s[i - Len(toClient)]
  BY <1>1, SaidLines
<1>6. ASSUME NEW i \in DOMAIN toClient', IsReply(toClient'[i], q)
      PROVE  \/ i \in DOMAIN toClient /\ toClient'[i] = toClient[i] /\ Replied(q)
             \/ i \notin DOMAIN toClient /\ i - Len(toClient) \in DOMAIN s /\ toClient'[i] = s[i - Len(toClient)] /\ From(m, q)
  <2>1. CASE i \in DOMAIN toClient
    BY <1>5, <1>6, <2>1 DEF Replied
  <2>2. CASE i \notin DOMAIN toClient
    BY <1>3, <1>5, <1>6, <2>2
  <2> QED BY <2>1, <2>2
<1>7. From(m, q) => Asking(q) /\ ~Replied(q) /\ \A i \in DOMAIN toServer' : ~From(toServer'[i], q)
  BY <1>1 DEF Asking, StopOf, OneAsk
<1>8. Asking(q)' => Asking(q)
  BY <1>1 DEF Asking
<1>9. OneAsk(q)'
  <2>1. ASSUME NEW i \in DOMAIN toClient', NEW j \in DOMAIN toClient', IsReply(toClient'[i], q), IsReply(toClient'[j], q) PROVE i = j
    <3>1. CASE From(m, q)
      <4>1. i - Len(toClient) = j - Len(toClient)
        BY <1>4, <1>6, <1>7, <2>1, <3>1 DEF IsReply
      <4> QED BY <1>5, <4>1
    <3>2. CASE ~From(m, q)
      BY <1>6, <2>1, <3>2 DEF StopOf, OneAsk
    <3> QED BY <3>1, <3>2
  <2>2. ASSUME NEW i \in DOMAIN toServer', NEW j \in DOMAIN toServer', From(toServer'[i], q), From(toServer'[j], q) PROVE i = j
    <3>1. i + 1 = j + 1 /\ i \in Nat /\ j \in Nat
      BY <1>1, <2>2 DEF StopOf, OneAsk
    <3> QED BY <3>1
  <2>3. Replied(q)' => Replied(q) \/ From(m, q)
    BY <1>6 DEF Replied
  <2>4. ~(Asking(q)' /\ Replied(q)')
    <3>1. Asking(q)' => ~From(m, q)
      BY <1>7 DEF Asking
    <3> QED BY <1>8, <2>3, <3>1 DEF StopOf, OneAsk
  <2>5. (InRequest(q)' <=> InRequest(q)) /\ (Heard(q)' <=> Heard(q)) /\ stop'[q].phase = stop[q].phase
    BY <1>1 DEF InRequest, Heard
  <2>6. Asking(q)' \/ Replied(q)' => Asking(q) \/ Replied(q)
    BY <1>7, <1>8, <2>3
  <2> QED BY <2>1, <2>2, <2>4, <2>5, <2>6 DEF StopOf, OneAsk
<1>10. (\A i \in DOMAIN toServer, r \in stop[q].before : ~IsStart(toServer[i], r)) =>
       (\A i \in DOMAIN toServer', r \in stop'[q].before : ~IsStart(toServer'[i], r))
  BY <1>1
<1>11. Over(q) => Over(q)'
  BY <1>1, <1>4, <1>10 DEF Over
<1>12. Looks(q)'
  <2> SUFFICES ASSUME stop[q].phase \in {"reading", "confirming"} PROVE Looks(q)'
    BY <1>1 DEF Looks
  <2>1. Looks(q)
    BY DEF StopOf
  <2>2. ASSUME NEW i \in DOMAIN toServer', From(toServer'[i], q)
        PROVE  /\ IsRead(toServer'[i], q)
               /\ \A k \in DOMAIN toServer', r \in stop'[q].before : IsStart(toServer'[k], r) => k < i
    <3>1. /\ IsRead(toServer[i + 1], q)
          /\ \A k \in DOMAIN toServer', r \in stop[q].before : IsStart(toServer'[k], r) => k + 1 < i + 1
      BY <1>1, <2>1, <2>2 DEF Looks
    <3> QED BY <1>1, <2>2, <3>1
  <2>3. ASSUME NEW j \in DOMAIN toClient', SaysIdle(toClient'[j], q) PROVE Over(q)'
    <3>1. IsReply(toClient'[j], q)
      BY <2>3 DEF SaysIdle
    <3>2. CASE j \in DOMAIN toClient
      BY <1>5, <1>11, <2>1, <2>3, <3>2 DEF Looks
    <3>3. CASE j \notin DOMAIN toClient
      <4>1. j - Len(toClient) \in DOMAIN s /\ toClient'[j] = s[j - Len(toClient)] /\ From(m, q)
        BY <1>6, <3>1, <3>3
      <4>2. IsRead(m, q) /\ \A k \in DOMAIN toServer, r \in stop[q].before : IsStart(toServer[k], r) => k < 1
        BY <1>1, <2>1, <4>1 DEF Looks
      <4>3. server'.turn = None
        BY <1>3, <2>3, <3>1, <4>1, <4>2
      <4>4. \A k \in DOMAIN toServer, r \in stop[q].before : ~IsStart(toServer[k], r)
        BY <1>1, <4>2
      <4>5. None \notin stop'[q].before
        BY <1>1, <1>2, Names DEF SentBefore
      <4> QED BY <1>10, <4>3, <4>4, <4>5 DEF Over
    <3> QED BY <3>2, <3>3
  <2>4. ReadsIdle(q)' => Over(q)'
    BY <1>1, <1>11, <2>1 DEF Looks, ReadsIdle, Ok
  <2> QED BY <2>2, <2>3, <2>4 DEF Looks
<1>13. Sees(q)'
  BY <1>1, <1>11 DEF StopOf, Sees
<1> QED BY <1>2, <1>9, <1>12, <1>13 DEF StopOf

LEMMA StopsKept ==
    ASSUME Typed, Correlated, StopsKnow, Next
    PROVE  StopsKnow'
<1>1. SUFFICES ASSUME NEW q \in Stops, StopOf(q) PROVE StopOf(q)'
  BY DEF StopsKnow
<1>2. Scenes
  BY NextScenes
<1>3. ASSUME NEW x \in Stops, Quiescing(x) PROVE StopOf(q)'
  BY <1>1, <1>3, StopOwn, StopOther
<1>4. ASSUME NEW r \in Calls, RunMoves(r) PROVE StopOf(q)'
  BY <1>1, <1>4, StopRuns
<1>5. ASSUME Unmoved, NEW m \in Told, Takes(m), TakesReply(m) \/ TakesEnd(m) \/ TakesOther(m) PROVE StopOf(q)'
  BY <1>1, <1>5, StopTakes
<1>6. ASSUME NEW m \in Sent, NEW s \in Seq(Told), Serves(m, s),
             ServesStart(m, s) \/ ServesReply(m, s) \/ ServesAnswer(m, s) \/ ServesNothing(m, s)
      PROVE  StopOf(q)'
  BY <1>1, <1>6, StopServes
<1>7. ASSUME NEW a \in Asks, Ask(a) PROVE StopOf(q)'
  BY <1>1, <1>7, StopAsk
<1>8. ASSUME NEW u \in Calls, NEW o \in Ends, EndsTurn(u, o) PROVE StopOf(q)'
  BY <1>1, <1>8, StopEnds
<1> QED BY <1>1, <1>2, <1>3, <1>4, <1>5, <1>6, <1>7, <1>8, StopElsewhere, StopTimeOut, StopLost DEF Scenes

LEMMA StopsInit == ASSUME Init PROVE StopsKnow
<1>1. SUFFICES ASSUME NEW q \in Stops PROVE StopOf(q)
  BY DEF StopsKnow
<1>2. toServer = <<>> /\ toClient = <<>> /\ stop[q].phase = "idle" /\ stop[q].before = {}
  BY DEF Init
<1> QED BY <1>2 DEF StopOf, SentBefore, OneAsk, Asking, Replied, Looks, Sees

LEMMA StopsStutter ==
    ASSUME StopsKnow, UNCHANGED vars
    PROVE  StopsKnow'
BY DEF StopsKnow, StopOf, SentBefore, Past, OneAsk, Asking, Replied, Heard, InRequest, Looks, Sees, Over, ReadsIdle, Ok, vars, pipes

(* What quiesce() returns for is true: no turn whose turn/start had been     *)
(* sent when it was called is in progress or can still begin, even if that   *)
(* request timed out and its line is still on the way (codex.mjs:694-737).   *)
(* The thread/read that finds the thread idle is behind it in the pipe.      *)
THEOREM StopCorrect == Spec => QuiesceStops
<1>1. Spec => [](Typed /\ Correlated /\ StopsKnow)
  <2>1. Init => Typed /\ Correlated /\ StopsKnow
    BY TypedInit, StopsInit
  <2>2. Typed /\ Correlated /\ StopsKnow /\ [Next]_vars => Typed' /\ Correlated' /\ StopsKnow'
    BY NextMoves, StutterTyped, StopsKept, StopsStutter
  <2> QED BY <2>1, <2>2, PTL DEF Spec
<1>2. Typed /\ Correlated /\ StopsKnow /\ [Next]_vars =>
              [\A q \in Stops : stop[q].phase # "done" /\ stop'[q].phase = "done" =>
                /\ server.turn \notin stop[q].before
                /\ \A i \in StartsInFlight : toServer[i].caller \notin stop[q].before]_vars
  <2> SUFFICES ASSUME Typed, Correlated, StopsKnow, Next, NEW q \in Stops, stop[q].phase # "done", stop'[q].phase = "done"
               PROVE  /\ server.turn \notin stop[q].before
                      /\ \A i \in StartsInFlight : toServer[i].caller \notin stop[q].before
    OBVIOUS
  <2>1. Quiescing(q)
    <3>1. Scenes
      BY NextScenes
    <3>2. stop'[q] # stop[q]
      OBVIOUS
    <3>3. ASSUME Lost PROVE FALSE
      <4>1. stop'[q] = [stop[q] EXCEPT !.phase = IF @ \in {"idle", "done"} THEN @ ELSE "failed"] /\ stop[q] \in StopRecords
        BY <3>3 DEF Lost, Typed, Rest
      <4> QED BY <4>1 DEF StopRecords
    <3> QED BY <3>1, <3>2, <3>3 DEF Scenes, RunMoves, Stays, Elsewhere, Quiescing, TimeOut, Unmoved, Serves, Ask, EndsTurn
  <2>2. stop[q].phase = "terminals"
    BY <2>1 DEF Quiescing, StopAsks, StopRests, InRequest
  <2>3. Over(q)
    BY <2>2 DEF StopsKnow, StopOf, Sees
  <2> QED BY <2>3 DEF Over, IsStart, StartsInFlight
<1> QED BY <1>1, <1>2, PTL DEF Spec, QuiesceStops
=============================================================================
