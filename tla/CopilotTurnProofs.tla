-------------------------- MODULE CopilotTurnProofs --------------------------
(***************************************************************************)
(* Proofs about CopilotTurn, for any number of calls, models and session   *)
(* objects. Its turns keep the contract of RuntimeTurn: TurnInv says who   *)
(* may still claim the session, and that a limit which is waiting for its  *)
(* turn belongs to the turn that is live. Its safety invariants hold:      *)
(* SessionInv says where the prompt of each run is (Pending), that the     *)
(* live turn knows what the process does for it (Work), what an interrupt  *)
(* has recorded (Asked), and whose session.idle may arrive (Own).          *)
(* ModelKnown says what a call knows of the model of the session.          *)
(***************************************************************************)
EXTENDS CopilotTurn, FiniteSetTheorems, SequenceTheorems, WellFoundedInduction, TLAPS

Results == {"completed", "interrupted", "error", "stalled", "unknown", "failed"}

(* Requests to the process: a prompt and the limits of a turn name its run.  *)
Messages == {m \in [op : {"send", "interrupt", "quiesce", "expire", "stall", "close"}, by : Calls \cup Stops \cup {None}] :
                /\ m.op \in {"send", "expire", "stall"} => m.by \in Calls
                /\ m.op = "quiesce" => m.by \in Stops}
(* Waits: those of a limit are waits for the turn that is live.              *)
Awaitable == {m \in Messages : /\ m.op \in {"quiesce", "expire", "stall"}
                               /\ m.op \in {"expire", "stall"} => m.by = turn}
(* A run that has not claimed the session yet.                               *)
Fresh(r) == call[r].phase \in Preparing \cup {"idle"}

Starting ==
    /\ object \in Nat /\ opened \in Nat
    /\ call \in [Starters -> [phase : Phases, wants : Models \cup {None}, obj : Nat]]
Queues == wire \in Seq(Messages) /\ waits \in Seq(Awaitable)
Turns ==
    /\ turn \in Calls \cup {None}
    /\ settled \in [Calls -> Results \cup {"no"}]
    /\ turn # None => settled[turn] = "no" /\ ~Fresh(turn)
    /\ \A r \in Calls : Fresh(r) => settled[r] = "no"
TurnInv == Starting /\ Queues /\ Turns

LEMMA NoneIsNoCall == None \notin Calls
BY TurnConstants DEF None
-----------------------------------------------------------------------------
LEMMA TurnInvInit == Init => TurnInv
<1> SUFFICES ASSUME Init PROVE TurnInv
  OBVIOUS
<1>1. Starting
  BY DEF Init, Starting, Call, Phases
<1>2. Queues
  BY EmptySeq DEF Init, Queues
<1>3. Turns
  BY DEF Init, Turns, Fresh, Call, Starters
<1> QED BY <1>1, <1>2, <1>3 DEF TurnInv

(* What a step may do to the calls: no call becomes fresh again.             *)
CallStep ==
    /\ Starting'
    /\ \A r \in Calls : Fresh(r)' => Fresh(r)

LEMMA OneCall ==
    ASSUME Starting, object' \in Nat, opened' \in Nat, NEW c \in Starters,
           NEW v \in [phase : Phases, wants : Models \cup {None}, obj : Nat],
           call' = [call EXCEPT ![c] = v],
           v.phase \in Preparing \cup {"idle"} => Fresh(c)
    PROVE  CallStep
BY DEF Starting, CallStep, Fresh, Starters

LEMMA SameCalls == Starting /\ object' \in Nat /\ opened' \in Nat /\ call' = call => CallStep
BY DEF Starting, CallStep, Fresh

LEMMA CallsStep == TurnInv /\ [Next]_vars => CallStep
<1> SUFFICES ASSUME TurnInv, [Next]_vars PROVE CallStep
  OBVIOUS
<1> DEFINE Value == [phase : Phases, wants : Models \cup {None}, obj : Nat]
<1>1. Starting /\ Default \in Models /\ Wishes \subseteq Models \cup {None} /\ Switches \subseteq Models
      /\ Calls \subseteq Starters /\ Setters \subseteq Starters
  BY TurnConstants DEF TurnInv, None, Starters
<1>2. \A c \in Starters : call[c] \in Value /\ [call[c] EXCEPT !.phase = "over"] \in Value /\ Call("over", None, 0) \in Value
  BY <1>1 DEF Starting, Call, Phases
<1>3. ASSUME NEW c \in Starters, Over(c), object' \in Nat, opened' \in Nat PROVE CallStep
  <2>1. Call("over", None, 0) \in Value /\ Call("over", None, 0).phase \notin Preparing \cup {"idle"}
    BY <1>2 DEF Call, Preparing
  <2> QED BY <1>1, <1>3, <2>1, OneCall DEF Over
<1>4. ASSUME NEW c \in Starters, NEW p \in Phases, Becomes(c, p), object' \in Nat, opened' \in Nat,
             p \in Preparing \cup {"idle"} => Fresh(c)
      PROVE  CallStep
  <2>1. [call[c] EXCEPT !.phase = p] \in Value /\ [call[c] EXCEPT !.phase = p].phase = p
    BY <1>1, <1>2 DEF Starting
  <2>2. call' = [call EXCEPT ![c] = [call[c] EXCEPT !.phase = p]]
    BY <1>4 DEF Becomes
  <2> HIDE DEF Value
  <2> QED BY <1>1, <1>4, <2>1, <2>2, OneCall DEF Value
<1>5. ASSUME NEW r \in Calls, NEW o \in Nat, Begins(r, o), object' \in Nat, opened' \in Nat PROVE CallStep
  <2>1. CASE Over(r)
    BY <1>1, <1>3, <1>5, <2>1
  <2>2. CASE call' = [call EXCEPT ![r].phase = "opening", ![r].obj = o]
    <3> DEFINE v == [call[r] EXCEPT !.phase = "opening", !.obj = o]
    <3>1. v \in Value /\ v.phase = "opening"
      BY <1>1, <1>2 DEF Phases
    <3>2. call' = [call EXCEPT ![r] = v]
      BY <1>1, <2>2 DEF Starting
    <3> HIDE DEF v
    <3> QED BY <1>1, <1>5, <3>1, <3>2, OneCall DEF Preparing
  <2> QED BY <1>5, <2>1, <2>2 DEF Begins
<1>6. ASSUME NEW r \in Calls, Run(r) PROVE CallStep
  <2>1. object' = object /\ opened' = opened /\ call[r].phase = "idle"
    BY <1>6 DEF Run, tables
  <2>2. CASE Over(r)
    BY <1>1, <1>3, <2>1, <2>2 DEF Starting
  <2>3. CASE ~Over(r)
    <3>1. PICK m \in Wishes : call' = [call EXCEPT ![r] =
                 IF object = 0 THEN Call("resuming", m, 0)
                 ELSE Call(IF m \in {None, record} THEN "preparing" ELSE "switching", m, object)]
      BY <1>6, <2>3 DEF Run
    <3> DEFINE v == IF object = 0 THEN Call("resuming", m, 0)
                    ELSE Call(IF m \in {None, record} THEN "preparing" ELSE "switching", m, object)
    <3>2. v \in Value
      BY <1>1 DEF Call, Phases, Preparing, Starting
    <3> HIDE DEF v
    <3>3. Fresh(r) /\ call' = [call EXCEPT ![r] = v]
      BY <2>1, <3>1 DEF Fresh, v
    <3> QED BY <1>1, <2>1, <3>2, <3>3, OneCall DEF Starting
  <2> QED BY <2>2, <2>3
<1>7. ASSUME NEW c \in Setters, SetModel(c) PROVE CallStep
  <2>1. object' = object /\ opened' = opened /\ call[c].phase = "idle"
    BY <1>7 DEF SetModel, tables
  <2>2. PICK m \in Switches : call' = [call EXCEPT ![c] = Call("switching", m, object)]
    BY <1>7 DEF SetModel
  <2>3. Call("switching", m, object) \in Value /\ Fresh(c)
    BY <1>1, <2>1 DEF Call, Phases, Preparing, Starting, Fresh
  <2> QED BY <1>1, <2>1, <2>2, <2>3, OneCall DEF Starting
<1>8. ASSUME NEW c \in Starters, Switched(c) PROVE CallStep
  <2>1. object' = object /\ opened' = opened /\ Fresh(c) /\ (Becomes(c, "validating") \/ Over(c)) /\ "validating" \in Phases
    BY <1>8 DEF Switched, tables, Fresh, Preparing, Phases
  <2> QED BY <1>1, <1>3, <1>4, <2>1 DEF Starting
<1>9. ASSUME NEW c \in Starters, Prepared(c) PROVE CallStep
  <2>1. object' = object /\ opened' = opened /\ call[c].obj \in Nat
        /\ ((c \in Calls /\ Begins(c, call[c].obj)) \/ Over(c))
    BY <1>1, <1>2, <1>9 DEF Prepared
  <2> QED BY <1>1, <1>3, <1>5, <2>1 DEF Starting
<1>10. ASSUME NEW c \in Starters, PrepareFails(c) PROVE CallStep
  <2>1. object' = 0 /\ opened' = opened /\ Over(c)
    BY <1>10 DEF PrepareFails, Forgotten
  <2> QED BY <1>1, <1>3, <2>1 DEF Starting
<1>11. ASSUME NEW m, Opens(m) PROVE object' \in Nat /\ opened' \in Nat
  BY <1>1, <1>11 DEF Opens, Starting
<1>12. ASSUME CannotOpen PROVE object' \in Nat /\ opened' \in Nat
  BY <1>1, <1>12 DEF CannotOpen, Forgotten, Starting
<1>13. ASSUME NEW r \in Calls, Resumed(r) PROVE CallStep
  <2>1. CASE Opens(Chosen(call[r].wants)) /\ Begins(r, opened')
    BY <1>5, <1>11, <2>1
  <2>2. CASE Over(r) /\ (CannotOpen \/ UNCHANGED tables)
    BY <1>1, <1>3, <1>12, <2>2 DEF tables, Starting
  <2> QED BY <1>13, <2>1, <2>2 DEF Resumed
<1>14. ASSUME NEW r \in Calls, Opened(r) \/ SendAnswered(r) PROVE CallStep
  <2>1. object' = object /\ opened' = opened /\ (Becomes(r, "sending") \/ Becomes(r, "sent") \/ Over(r))
        /\ {"sending", "sent"} \subseteq Phases \ (Preparing \cup {"idle"})
    BY <1>14 DEF Opened, SendAnswered, tables, Phases, Preparing
  <2> QED BY <1>1, <1>3, <1>4, <2>1 DEF Starting
<1>15. ASSUME NEW q \in Stops, Quiesce(q) \/ Interrupt(q) \/ Retire(q) \/ StopTimesOut(q) PROVE CallStep
  BY <1>1, <1>15, SameCalls DEF Quiesce, Interrupt, Retire, StopTimesOut, tables, Starting
<1>16. CASE Resume \/ CompactResumes
  BY <1>1, <1>11, <1>12, <1>16, SameCalls DEF Resume, CompactResumes, tables, Starting
<1>17. CASE Compact \/ CompactEnds \/ Close \/ Takes
  BY <1>1, <1>17, SameCalls DEF Compact, CompactEnds, Close, Takes, tables, Starting
<1>18. CASE Retired \/ Closed
  BY <1>1, <1>18, SameCalls DEF Retired, Closed, Forgotten, tables, Starting
<1>19. ASSUME NEW r \in Calls, Timers(r) PROVE CallStep
  BY <1>1, <1>19, SameCalls DEF Timers, Expire, Expired, Stall, StallTimesOut, StallRetires, Forgotten, tables, Starting
<1>20. CASE Agent
  BY <1>1, <1>20, SameCalls DEF Agent, ToolStarts, ToolEnds, Errs, Streams, Idles, tables, Starting
<1>21. CASE UNCHANGED vars
  BY <1>1, <1>21, SameCalls DEF vars, tables, Starting
<1> QED
  BY <1>1, <1>6, <1>7, <1>8, <1>9, <1>10, <1>13, <1>14, <1>15, <1>16, <1>17, <1>18, <1>19, <1>20, <1>21
  DEF Next, Application, Continues, Advances, Starts
-----------------------------------------------------------------------------
(* What a step may do to the session: nothing, give it to a run that is      *)
(* fresh, or take it from the run that has it, with one outcome.             *)
Claimed(r) == turn = None /\ Fresh(r) /\ turn' = r /\ UNCHANGED <<settled, waits>>
Finished(r) ==
    /\ turn = r /\ turn' = None /\ waits' = <<>>
    /\ \E o \in Results : settled' = [settled EXCEPT ![r] = o]
TurnStep ==
    \/ UNCHANGED <<turn, settled>>
    \/ \E r \in Calls : Claimed(r) /\ ~Fresh(r)'
    \/ \E r \in Calls : Finished(r)

LEMMA TurnsMove == TurnInv /\ [Next]_vars => TurnStep
<1> SUFFICES ASSUME TurnInv, [Next]_vars PROVE TurnStep
  OBVIOUS
<1>1. Starting /\ Turns /\ Queues
  BY DEF TurnInv
<1>2. ASSUME UNCHANGED turns PROVE TurnStep
  BY <1>2 DEF turns, TurnStep
<1>3. ASSUME NEW r \in Calls, turn = r, NEW o \in Results, Finish(r, o) PROVE TurnStep
  BY <1>3 DEF Finish, TurnStep, Finished
<1>4. ASSUME NEW r \in Calls, NEW o \in Results, FinishIfLive(r, o) PROVE TurnStep
  BY <1>2, <1>3, <1>4 DEF FinishIfLive, Live
<1>5. ASSUME NEW r \in Calls, NEW o, Begins(r, o), Fresh(r) PROVE TurnStep
  <2>1. CASE UNCHANGED turns
    BY <1>2, <2>1
  <2>2. CASE Claims(r) /\ call' = [call EXCEPT ![r].phase = "opening", ![r].obj = o]
    <3>1. call'[r].phase = "opening"
      BY <1>1, <2>2 DEF Starting, Starters
    <3> QED BY <1>5, <2>2, <3>1 DEF Claims, Claimed, TurnStep, Fresh, Preparing
  <2> QED BY <1>5, <2>1, <2>2 DEF Begins
<1>6. ASSUME NEW r \in Calls, Run(r) PROVE TurnStep
  BY <1>2, <1>6 DEF Run
<1>7. ASSUME NEW c, SetModel(c) \/ Switched(c) \/ PrepareFails(c) PROVE TurnStep
  BY <1>2, <1>7 DEF SetModel, Switched, PrepareFails
<1>8. ASSUME NEW c \in Starters, Prepared(c) PROVE TurnStep
  BY <1>2, <1>5, <1>8 DEF Prepared, Fresh, Preparing
<1>9. ASSUME NEW r \in Calls, Resumed(r) PROVE TurnStep
  <2>1. Fresh(r)
    BY <1>9 DEF Resumed, Fresh, Preparing
  <2> QED BY <1>2, <1>5, <1>9, <2>1 DEF Resumed
<1>10. ASSUME NEW r \in Calls, Opened(r) PROVE TurnStep
  <2>1. CASE ArmIfLive(r)
    BY <2>1 DEF ArmIfLive, TurnStep
  <2>2. CASE FinishIfLive(r, "failed")
    BY <1>4, <2>2 DEF Results
  <2> QED BY <1>10, <2>1, <2>2 DEF Opened
<1>11. ASSUME NEW r \in Calls, SendAnswered(r) PROVE TurnStep
  <2>1. CASE ArmIfLive(r)
    BY <2>1 DEF ArmIfLive, TurnStep
  <2>2. CASE FinishIfLive(r, "failed")
    BY <1>4, <2>2 DEF Results
  <2> QED BY <1>11, <2>1, <2>2 DEF SendAnswered
<1>12. ASSUME NEW q \in Stops, Quiesce(q) \/ Interrupt(q) \/ Retire(q) \/ StopTimesOut(q) PROVE TurnStep
  BY <1>12 DEF Quiesce, Interrupt, Retire, StopTimesOut, TurnStep
<1>13. CASE Resume \/ Compact \/ Continues
  BY <1>2, <1>13 DEF Resume, Compact, Continues, Retired, CompactResumes, CompactEnds, Closed
<1>14. CASE Close
  BY <1>14 DEF Close, TurnStep
<1>15. ASSUME NEW r \in Calls, Expire(r) \/ Stall(r) \/ StallRetires(r) PROVE TurnStep
  BY <1>15 DEF Expire, Stall, StallRetires, TurnStep
<1>16. ASSUME NEW r \in Calls, Expired(r) \/ StallTimesOut(r) PROVE TurnStep
  <2>1. PICK m : waits # <<>> /\ m = Head(waits) /\ m.op \in {"expire", "stall"} /\ m.by = r
    BY <1>16 DEF Expired, StallTimesOut, Request
  <2>2. m \in Awaitable
    BY <1>1, <2>1, HeadTailProperties DEF Queues
  <2>3. turn = r
    BY <2>1, <2>2 DEF Awaitable
  <2> QED BY <1>3, <1>16, <2>3 DEF Expired, StallTimesOut, Results
<1>17. CASE Takes
  <2>1. PICK m : m = Head(wire) /\ m \in Messages /\ (UNCHANGED turns \/ Acknowledged(m) \/ Rejected(m))
    BY <1>1, <1>17, HeadTailProperties DEF Takes, Queues
  <2>2. CASE Acknowledged(m)
    BY <1>2, <2>2 DEF Acknowledged, TurnStep
  <2>3. CASE Rejected(m) /\ ~Acknowledged(m)
    <3>1. CASE m.op = "expire" /\ FinishIfLive(m.by, "failed")
      BY <1>4, <2>1, <3>1 DEF Messages, Results
    <3>2. CASE UNCHANGED <<turn, settled>>
      BY <3>2 DEF TurnStep
    <3> QED BY <2>3, <3>1, <3>2 DEF Rejected
  <2> QED BY <1>2, <2>1, <2>2, <2>3
<1>18. CASE Agent /\ ~Idles
  BY <1>18 DEF Agent, ToolStarts, ToolEnds, Errs, Streams, Handles, TurnStep
<1>19. CASE Idles
  <2>1. CASE UNCHANGED turns
    BY <1>2, <2>1
  <2>2. CASE ~UNCHANGED turns
    <3>1. turn # None /\ \E o \in Causes(task[turn], agent.aborting) : Finish(turn, o)
      BY <1>19, <2>2 DEF Idles, Hears
    <3>2. turn \in Calls /\ Causes(task[turn], agent.aborting) \subseteq Results
      BY <1>1, <3>1 DEF Turns, Causes, Results
    <3> QED BY <1>3, <3>1, <3>2
  <2> QED BY <2>1, <2>2
<1>20. CASE UNCHANGED vars
  BY <1>2, <1>20 DEF vars
<1> QED
  BY <1>6, <1>7, <1>8, <1>9, <1>10, <1>11, <1>12, <1>13, <1>14, <1>15, <1>16, <1>17, <1>18, <1>19, <1>20
  DEF Next, Application, Advances, Starts, Timers, Starters
-----------------------------------------------------------------------------
(* What a step may do to the queues: requests stay well formed, and a wait   *)
(* is added only by what the live turn, or quiesce(), asked for.             *)
QueueStep ==
    /\ wire' \in Seq(Messages)
    /\ \/ waits' = waits \/ waits' = <<>>
       \/ turn' = turn /\ waits' \in Seq(Awaitable)

LEMMA QueuesMove == TurnInv /\ [Next]_vars => QueueStep
<1> SUFFICES ASSUME TurnInv, [Next]_vars PROVE QueueStep
  OBVIOUS
<1> USE DEF QueueStep
<1>1. wire \in Seq(Messages) /\ waits \in Seq(Awaitable) /\ turn \in Calls \cup {None}
  BY DEF TurnInv, Queues, Turns
<1>2. ASSUME NEW by \in Calls \cup Stops \cup {None},
             NEW op \in {"send", "interrupt", "quiesce", "expire", "stall", "close"},
             op \in {"send", "expire", "stall"} => by \in Calls, op = "quiesce" => by \in Stops
      PROVE  Append(wire, Request(op, by)) \in Seq(Messages)
  <2>1. Request(op, by) \in Messages
    BY <1>2 DEF Request, Messages
  <2> QED BY <1>1, <2>1, AppendProperties
<1>3. ASSUME NEW by \in Calls \cup Stops \cup {None},
             NEW op \in {"send", "interrupt", "quiesce", "expire", "stall", "close"},
             op \in {"send", "expire", "stall"} => by \in Calls, op = "quiesce" => by \in Stops,
             Aborts(op, by)
      PROVE  wire' \in Seq(Messages)
  BY <1>1, <1>2, <1>3 DEF Aborts
<1>4. ASSUME NEW m \in Awaitable, Waits(m) PROVE waits' \in Seq(Awaitable)
  BY <1>1, <1>4, AppendProperties DEF Waits
<1>5. ASSUME NEW r, NEW o, Finish(r, o) \/ FinishIfLive(r, o) \/ UNCHANGED turns PROVE waits' = waits \/ waits' = <<>>
  BY <1>5 DEF Finish, FinishIfLive, turns
<1>6. ASSUME NEW r \in Calls, Run(r) PROVE QueueStep
  BY <1>1, <1>6 DEF Run, turns
<1>7. ASSUME NEW c, SetModel(c) \/ Switched(c) \/ PrepareFails(c) PROVE QueueStep
  BY <1>1, <1>7 DEF SetModel, Switched, PrepareFails, turns
<1>8. ASSUME NEW c, Prepared(c) \/ Resumed(c) PROVE QueueStep
  BY <1>1, <1>8 DEF Prepared, Resumed, Begins, Claims, turns
<1>9. ASSUME NEW r \in Calls, Opened(r) PROVE QueueStep
  <2>1. waits' = waits \/ waits' = <<>>
    BY <1>5, <1>9 DEF Opened, ArmIfLive
  <2> QED BY <1>1, <1>2, <1>9, <2>1 DEF Opened
<1>10. ASSUME NEW r \in Calls, SendAnswered(r) PROVE QueueStep
  <2>1. waits' = waits \/ waits' = <<>>
    BY <1>5, <1>10 DEF SendAnswered, ArmIfLive
  <2> QED BY <1>1, <1>10, <2>1 DEF SendAnswered
<1>11. ASSUME NEW q \in Stops, Interrupt(q) \/ Retire(q) PROVE QueueStep
  BY <1>1, <1>3, <1>11 DEF Interrupt, Retire
<1>12. ASSUME NEW q \in Stops, Quiesce(q) PROVE QueueStep
  <2>1. wire' \in Seq(Messages) /\ turn' = turn
    BY <1>1, <1>3, <1>12 DEF Quiesce
  <2>2. Request("quiesce", q) \in Awaitable
    BY DEF Request, Messages, Awaitable
  <2>3. UNCHANGED waits \/ Waits(Request("quiesce", q))
    BY <1>12 DEF Quiesce
  <2> QED BY <1>4, <2>1, <2>2, <2>3
<1>13. ASSUME NEW q \in Stops, StopTimesOut(q) PROVE QueueStep
  BY <1>1, <1>13, HeadTailProperties DEF StopTimesOut
<1>14. CASE Resume \/ Compact \/ Continues
  BY <1>1, <1>14 DEF Resume, Compact, Continues, Retired, CompactResumes, CompactEnds, Closed, turns
<1>15. CASE Close
  BY <1>1, <1>3, <1>15 DEF Close
<1>16. ASSUME NEW r \in Calls, Expire(r) PROVE QueueStep
  <2>1. wire' \in Seq(Messages) /\ turn' = turn /\ turn = r
    BY <1>3, <1>16 DEF Expire, Live
  <2>2. Request("expire", r) \in Awaitable
    BY <2>1 DEF Request, Messages, Awaitable
  <2>3. UNCHANGED waits \/ Waits(Request("expire", r))
    BY <1>16 DEF Expire
  <2> QED BY <1>4, <2>1, <2>2, <2>3
<1>17. ASSUME NEW r \in Calls, Stall(r) PROVE QueueStep
  <2>1. wire' \in Seq(Messages) /\ turn' = turn /\ turn = r
    BY <1>3, <1>17 DEF Stall, Live
  <2>2. Request("stall", r) \in Awaitable
    BY <2>1 DEF Request, Messages, Awaitable
  <2>3. UNCHANGED waits \/ Waits(Request("stall", r))
    BY <1>17 DEF Stall
  <2> QED BY <1>4, <2>1, <2>2, <2>3
<1>18. ASSUME NEW r \in Calls, Expired(r) \/ StallTimesOut(r) \/ StallRetires(r) PROVE QueueStep
  BY <1>1, <1>5, <1>18 DEF Expired, StallTimesOut, StallRetires
<1>19. CASE Takes
  <2>1. PICK m : m = Head(wire) /\ m \in Messages /\ wire' \in Seq(Messages)
                /\ (UNCHANGED turns \/ Acknowledged(m) \/ Rejected(m))
    BY <1>1, <1>19, HeadTailProperties DEF Takes
  <2>2. CASE UNCHANGED turns
    BY <2>1, <2>2 DEF turns
  <2>3. CASE Acknowledged(m)
    <3>1. CASE UNCHANGED waits
      BY <2>1, <3>1
    <3>2. CASE ~UNCHANGED waits
      <4>1. Waits(m) /\ turn' = turn /\ m.op \in {"quiesce", "expire", "stall"} /\ (m.op \in {"expire", "stall"} => m.by = turn)
        BY <2>3, <3>2 DEF Acknowledged, Live, turns
      <4>2. m \in Awaitable
        BY <2>1, <4>1 DEF Awaitable
      <4> QED BY <1>4, <2>1, <4>1, <4>2
    <3> QED BY <3>1, <3>2
  <2>4. CASE Rejected(m) /\ ~Acknowledged(m)
    <3>1. waits' = waits \/ waits' = <<>>
      BY <1>5, <2>4 DEF Rejected
    <3> QED BY <2>1, <3>1
  <2> QED BY <2>1, <2>2, <2>3, <2>4
<1>20. CASE Agent /\ ~Idles
  BY <1>1, <1>20 DEF Agent, ToolStarts, ToolEnds, Errs, Streams, Handles
<1>21. CASE Idles
  <2>1. waits' = waits \/ waits' = <<>>
    BY <1>5, <1>21 DEF Idles
  <2> QED BY <1>1, <1>21, <2>1 DEF Idles
<1>22. CASE UNCHANGED vars
  BY <1>1, <1>22 DEF vars, turns
<1> QED
  BY <1>6, <1>7, <1>8, <1>9, <1>10, <1>11, <1>12, <1>13, <1>14, <1>15, <1>16, <1>17, <1>18, <1>19, <1>20, <1>21, <1>22
  DEF Next, Application, Advances, Starts, Timers
-----------------------------------------------------------------------------
LEMMA TurnInvStep == TurnInv /\ [Next]_vars => TurnInv'
<1> SUFFICES ASSUME TurnInv, [Next]_vars PROVE TurnInv'
  OBVIOUS
<1>1. CallStep /\ TurnStep /\ QueueStep
  BY CallsStep, TurnsMove, QueuesMove
<1>2. Turns /\ Queues
  BY DEF TurnInv
<1>3. Turns'
  <2>1. CASE UNCHANGED <<turn, settled>>
    BY <1>1, <1>2, <2>1, NoneIsNoCall DEF Turns, CallStep
  <2>2. ASSUME NEW r \in Calls, Claimed(r), ~Fresh(r)' PROVE Turns'
    BY <1>1, <1>2, <2>2, NoneIsNoCall DEF Turns, CallStep, Claimed
  <2>3. ASSUME NEW r \in Calls, Finished(r) PROVE Turns'
    BY <1>1, <1>2, <2>3, NoneIsNoCall DEF Turns, CallStep, Finished
  <2> QED BY <1>1, <2>1, <2>2, <2>3 DEF TurnStep
<1>4. Queues'
  <2>1. waits' \in Seq(Awaitable)
    BY <1>1, <1>2, EmptySeq DEF QueueStep, Queues
  <2>2. CASE turn' = turn
    BY <1>1, <2>1, <2>2 DEF QueueStep, Queues, Awaitable
  <2>3. ASSUME NEW r \in Calls, Claimed(r) PROVE Queues'
    <3>1. Awaitable \subseteq Awaitable'
      BY <2>3, NoneIsNoCall DEF Claimed, Awaitable, Messages
    <3>2. waits' \in Seq(Awaitable')
      BY <2>1, <3>1
    <3> QED BY <1>1, <3>2 DEF QueueStep, Queues
  <2>4. ASSUME NEW r \in Calls, Finished(r) PROVE Queues'
    BY <1>1, <2>4, EmptySeq DEF QueueStep, Queues, Finished
  <2> QED BY <1>1, <2>2, <2>3, <2>4 DEF TurnStep
<1> QED BY <1>1, <1>3, <1>4 DEF TurnInv, CallStep

LEMMA Invariant == Spec => []TurnInv
<1> QED BY TurnInvInit, TurnInvStep, PTL DEF Spec

(* The turns of a Copilot session keep the contract of a runtime: one run    *)
(* has the session at a time, and whatever ends it (its events, its two      *)
(* limits, a failed send, a rejected abort) settles it once.                 *)
THEOREM ContractKept == Spec => TurnContract
<1>1. Init => Contract!TurnInit
  BY DEF Init, Contract!TurnInit
<1>2. TurnInv /\ [Next]_vars => [Contract!TurnNext]_<<turn, settled>>
  <2> SUFFICES ASSUME TurnInv, [Next]_vars PROVE [Contract!TurnNext]_<<turn, settled>>
    OBVIOUS
  <2>1. TurnStep /\ Turns
    BY TurnsMove DEF TurnInv
  <2>2. ASSUME NEW r \in Calls, Claimed(r) PROVE Contract!Begin(r)
    BY <2>1, <2>2 DEF Turns, Claimed, Contract!Begin
  <2>3. ASSUME NEW r \in Calls, Finished(r) PROVE Contract!Settle(r)
    BY <2>1, <2>3, NoneIsNoCall DEF Turns, Finished, Results, Contract!Settle
  <2> QED BY <2>1, <2>2, <2>3 DEF TurnStep, Contract!TurnNext
<1> QED BY <1>1, <1>2, Invariant, PTL DEF Spec, TurnContract, Contract!TurnSpec, Contract!turnVars
-----------------------------------------------------------------------------
(* The prompts that are left when some are taken out, in their order.        *)
LEMMA Smallest ==
    ASSUME NEW N \in Nat, NEW T, T \subseteq 0..N, T # {}
    PROVE  \E x \in T : \A y \in T : x <= y
<1> DEFINE R == StrictSubsetOrdering(0..N)
           U == {0..n : n \in T}
<1>1. IsWellFoundedOn(R, SUBSET (0..N))
  <2>1. IsFiniteSet(0..N)
    BY FS_Interval
  <2>2. FiniteSubsetsOf(0..N) = SUBSET (0..N)
    BY <2>1, FS_FiniteSubsetsOfFinite
  <2> QED BY <2>2, FS_StrictSubsetOrderingWellFounded
<1>2. U \subseteq SUBSET (0..N)
  <2>1. ASSUME NEW n \in T PROVE 0..n \subseteq 0..N
    <3>1. n \in Nat /\ n <= N
      OBVIOUS
    <3> QED BY <3>1
  <2>2. ASSUME NEW X \in U PROVE X \in SUBSET (0..N)
    <3>1. PICK n \in T : X = 0..n
      BY DEF U
    <3> QED BY <2>1, <3>1
  <2> QED BY <2>2
<1>3. U # {}
  OBVIOUS
<1>4. \E X \in U : \A Y \in U : <<Y, X>> \notin R
  <2> HIDE DEF R, U
  <2> QED BY <1>1, <1>2, <1>3, WFMin
<1>5. PICK n \in T : \A Y \in U : <<Y, 0..n>> \notin R
  BY <1>4
<1>6. ASSUME NEW m \in T PROVE n <= m
  <2>1. 0..m \in U /\ n \in 0..N /\ m \in 0..N
    OBVIOUS
  <2>2. <<0..m, 0..n>> \notin R
    BY <1>5, <2>1
  <2>3. ASSUME m < n PROVE FALSE
    <3>1. 0..m \subseteq 0..n /\ n \in 0..n /\ n \notin 0..m
      BY <2>1, <2>3
    <3>2. 0..m \subseteq 0..N /\ 0..n \subseteq 0..N
      BY <2>1
    <3> QED BY <2>2, <3>1, <3>2 DEF StrictSubsetOrdering
  <2> QED BY <2>1, <2>3
<1> QED BY <1>5, <1>6

LeftLoop(s, P, h, n) ==
    h = [k \in 0..n |-> IF k = 0 THEN <<>> ELSE IF s[k] \in P THEN h[k - 1] ELSE Append(h[k - 1], s[k])]

LEMMA LeftLoopExists ==
    ASSUME NEW s, NEW P, NEW N \in Nat
    PROVE  \E h : LeftLoop(s, P, h, N)
<1> DEFINE T == {n \in 0..N : ~\E h : LeftLoop(s, P, h, n)}
           Take(e, n) == IF s[n] \in P THEN e ELSE Append(e, s[n])
<1>1. ASSUME T # {} PROVE FALSE
  <2>1. PICK n \in T : \A m \in T : n <= m
    BY <1>1, Smallest
  <2>2. n \in Nat /\ n <= N /\ ~\E h : LeftLoop(s, P, h, n)
    BY <2>1
  <2> HIDE DEF Take
  <2>3. CASE n = 0
    <3> DEFINE g == [k \in 0..0 |-> <<>>]
    <3>1. g = [k \in 0..0 |-> IF k = 0 THEN <<>> ELSE IF s[k] \in P THEN g[k - 1] ELSE Append(g[k - 1], s[k])]
      OBVIOUS
    <3> HIDE DEF g
    <3> QED BY <2>2, <2>3, <3>1 DEF LeftLoop
  <2>4. CASE n # 0
    <3>1. n - 1 \in Nat /\ n - 1 \in 0..N /\ n - 1 \notin T
      BY <2>1, <2>2, <2>4
    <3>2. PICK h : LeftLoop(s, P, h, n - 1)
      BY <3>1
    <3>3. \A k \in 0..(n - 1) : h[k] = IF k = 0 THEN <<>> ELSE Take(h[k - 1], k)
      BY <3>2 DEF LeftLoop, Take
    <3> DEFINE g == [k \in 0..n |-> IF k = n THEN Take(h[n - 1], n) ELSE h[k]]
    <3>4. ASSUME NEW k \in 0..n PROVE g[k] = IF k = 0 THEN <<>> ELSE Take(g[k - 1], k)
      <4>1. CASE k = 0
        BY <2>4, <3>1, <3>3, <4>1
      <4>2. CASE k # 0 /\ k # n
        <5>1. k \in 0..(n - 1) /\ k - 1 \in 0..n /\ k - 1 # n
          BY <2>2, <4>2
        <5> QED BY <3>3, <4>2, <5>1
      <4>3. CASE k = n
        <5>1. n - 1 \in 0..n /\ n - 1 # n
          BY <2>2, <2>4
        <5> QED BY <2>4, <4>3, <5>1
      <4> QED BY <4>1, <4>2, <4>3
    <3>5. g = [k \in 0..n |-> g[k]]
      OBVIOUS
    <3> HIDE DEF g
    <3>6. g = [k \in 0..n |-> IF k = 0 THEN <<>> ELSE Take(g[k - 1], k)]
      BY <3>4, <3>5
    <3>7. LeftLoop(s, P, g, n)
      BY <3>6 DEF LeftLoop, Take
    <3> QED BY <2>2, <3>7
  <2> QED BY <2>3, <2>4
<1>2. N \in 0..N
  OBVIOUS
<1> QED BY <1>1, <1>2

LEMMA WithoutUnfolds ==
    ASSUME NEW s, NEW P, Len(s) \in Nat
    PROVE  \E h : LeftLoop(s, P, h, Len(s)) /\ Without(s, P) = h[Len(s)]
<1> DEFINE g == CHOOSE h : h = [k \in 0..Len(s) |-> IF k = 0 THEN <<>>
                                  ELSE IF s[k] \in P THEN h[k - 1] ELSE Append(h[k - 1], s[k])]
<1>1. \E h : h = [k \in 0..Len(s) |-> IF k = 0 THEN <<>>
                                  ELSE IF s[k] \in P THEN h[k - 1] ELSE Append(h[k - 1], s[k])]
  <2>1. \E h : LeftLoop(s, P, h, Len(s))
    BY LeftLoopExists
  <2> QED BY <2>1, Zenon DEF LeftLoop
<1>2. g = [k \in 0..Len(s) |-> IF k = 0 THEN <<>>
                                  ELSE IF s[k] \in P THEN g[k - 1] ELSE Append(g[k - 1], s[k])]
  BY <1>1, Zenon
<1>3. Without(s, P) = g[Len(s)]
  BY Zenon DEF Without
<1> HIDE DEF g
<1> QED BY <1>2, <1>3 DEF LeftLoop

(* What is left is in order: entry i of it was entry at(i) of s.             *)
Distinct(s) == \A i, j \in 1..Len(s) : s[i] = s[j] => i = j
LEMMA WithoutLeaves ==
    ASSUME NEW C, NEW s \in Seq(C), NEW P
    PROVE  /\ Without(s, P) \in Seq(C)
           /\ \A i \in 1..Len(Without(s, P)) :
                 Without(s, P)[i] \notin P /\ \E j \in 1..Len(s) : Without(s, P)[i] = s[j]
           /\ Distinct(s) => Distinct(Without(s, P))
<1> DEFINE N == Len(s)
<1>1. N \in Nat /\ \A i \in 1..N : s[i] \in C
  OBVIOUS
<1>2. PICK h : LeftLoop(s, P, h, N) /\ Without(s, P) = h[N]
  BY <1>1, WithoutUnfolds
<1>3. \A k \in 0..N : h[k] = IF k = 0 THEN <<>> ELSE IF s[k] \in P THEN h[k - 1] ELSE Append(h[k - 1], s[k])
  BY <1>2 DEF LeftLoop
<1> DEFINE Good(e, n) == /\ e \in Seq(C)
                         /\ \A i \in 1..Len(e) : e[i] \notin P /\ \E j \in 1..n : e[i] = s[j]
                         /\ Distinct(s) => Distinct(e)
           T == {n \in 0..N : ~Good(h[n], n)}
<1> HIDE DEF N
<1>4. ASSUME T # {} PROVE FALSE
  <2>1. PICK n \in T : \A m \in T : n <= m
    BY <1>1, <1>4, Smallest
  <2>2. n \in Nat /\ n <= N /\ n \in 0..N /\ ~Good(h[n], n)
    BY <1>1, <2>1
  <2>3. CASE n = 0
    <3>1. h[n] = <<>> /\ Len(h[n]) = 0
      BY <1>3, <2>2, <2>3
    <3>2. Good(h[n], n)
      BY <3>1 DEF Distinct
    <3> QED BY <2>2, <3>2
  <2>4. CASE n # 0
    <3> DEFINE e == h[n - 1]
    <3>1. n - 1 \in 0..N /\ n - 1 \notin T /\ n - 1 \in Nat /\ n \in 1..N
      BY <1>1, <2>1, <2>2, <2>4
    <3>2. Good(e, n - 1)
      BY <3>1
    <3>3. h[n] = IF s[n] \in P THEN e ELSE Append(e, s[n])
      BY <1>3, <2>2, <2>4
    <3> HIDE DEF e
    <3>4. \A i \in 1..Len(e) : \E j \in 1..n : e[i] = s[j]
      BY <2>2, <3>1, <3>2
    <3>5. CASE s[n] \in P
      <4>1. Good(e, n)
        BY <3>2, <3>4
      <4> QED BY <2>2, <3>3, <3>5, <4>1
    <3>6. CASE s[n] \notin P
      <4> DEFINE w == Append(e, s[n])
      <4>1. /\ w \in Seq(C) /\ Len(e) \in Nat /\ Len(w) = Len(e) + 1
            /\ \A i \in 1..Len(e) : w[i] = e[i]
            /\ w[Len(e) + 1] = s[n]
        BY <1>1, <3>1, <3>2
      <4> HIDE DEF w
      <4>2. \A i \in 1..Len(w) : i \in 1..Len(e) \/ i = Len(e) + 1
        BY <4>1
      <4>3. \A i \in 1..Len(w) : w[i] \notin P /\ \E j \in 1..n : w[i] = s[j]
        BY <2>2, <2>4, <3>2, <3>4, <3>6, <4>1, <4>2, SMTT(30)
      <4>4. ASSUME Distinct(s) PROVE Distinct(w)
        <5>1. ASSUME NEW i \in 1..Len(e) PROVE e[i] # s[n]
          <6>1. PICK j \in 1..(n - 1) : e[i] = s[j]
            BY <3>2
          <6>2. j \in 1..N /\ j # n
            BY <1>1, <3>1
          <6> QED BY <3>1, <4>4, <6>1, <6>2 DEF Distinct, N
        <5>2. Distinct(e)
          BY <3>2, <4>4
        <5> QED BY <4>1, <4>2, <5>1, <5>2 DEF Distinct
      <4>5. Good(w, n)
        BY <4>1, <4>3, <4>4
      <4> QED BY <2>2, <3>3, <3>6, <4>5 DEF w
    <3> QED BY <3>5, <3>6
  <2> QED BY <2>3, <2>4
<1>5. Good(h[N], N)
  <2>1. N \in 0..N /\ N \notin T
    BY <1>1, <1>4
  <2> QED BY <2>1
<1> QED BY <1>2, <1>5 DEF N
-----------------------------------------------------------------------------
(* Types. The records of the application's calls are those of Starting, and  *)
(* a switch names the model it is for.                                       *)
AgentRecords == [prompts : Seq(Calls), tool : Tools \cup {None}, failed : BOOLEAN, aborting : BOOLEAN, model : Models]
TaskRecords == [tools : SUBSET Tools, error : BOOLEAN, unverified : BOOLEAN,
                progress : {"off", "armed"}, clock : {"off", "armed", "aborting", "waiting"},
                stall : {"no", "aborting", "waiting", "over"}, doomed : SUBSET (1..MaxOpens)]
StopRecords == [phase : {"idle", "other", "aborting", "waiting", "confirmed", "unknown"}, awaits : Calls \cup {None}]
Objects ==
    /\ opened \in 1..MaxOpens /\ object \in 0..opened /\ connected \subseteq 1..opened
    /\ record \in Models \cup {None} /\ (object # 0 => record # None)
    /\ \A c \in Starters : /\ call[c].obj \in 0..MaxOpens
                           /\ call[c].phase \in {"switching", "validating"} => call[c].wants \in Models
    /\ retiring \in 0..MaxOpens

LEMMA Facts ==
    /\ None \notin Tools /\ None \notin Calls /\ None \notin Models /\ Default \in Models
    /\ Wishes \subseteq Models \cup {None} /\ Switches \subseteq Models
    /\ Calls \subseteq Starters /\ Setters \subseteq Starters
    /\ MaxOpens \in Nat /\ MaxOpens > 0
BY TurnConstants DEF None, Starters

LEMMA CallValues ==
    ASSUME Starting, NEW c \in Starters
    PROVE  /\ call[c].phase \in Phases /\ call[c].wants \in Models \cup {None} /\ call[c].obj \in Nat
           /\ \A p : [call EXCEPT ![c].phase = p][c] = [call[c] EXCEPT !.phase = p]
BY DEF Starting

(* What a step does to one call, or to none.                                 *)
LEMMA ObjectsOfOne ==
    ASSUME Starting, Objects, NEW c \in Starters, NEW v, call' = [call EXCEPT ![c] = v],
           v.obj \in 0..MaxOpens, v.phase \in {"switching", "validating"} => v.wants \in Models,
           opened' \in 1..MaxOpens, object' \in 0..opened', connected' \subseteq 1..opened',
           record' \in Models \cup {None}, object' # 0 => record' # None, retiring' \in 0..MaxOpens
    PROVE  Objects'
BY DEF Starting, Objects

LEMMA ObjectsOfNone ==
    ASSUME Objects, call' = call,
           opened' \in 1..MaxOpens, object' \in 0..opened', connected' \subseteq 1..opened',
           record' \in Models \cup {None}, object' # 0 => record' # None, retiring' \in 0..MaxOpens
    PROVE  Objects'
BY DEF Objects

LEMMA ObjectsStep == TurnInv /\ Objects /\ [Next]_vars => Objects'
<1> SUFFICES ASSUME TurnInv, Objects, [Next]_vars PROVE Objects'
  OBVIOUS
<1>1. Starting /\ (turn \in Calls \cup {None})
  BY DEF TurnInv, Turns
<1>2. /\ opened \in 1..MaxOpens /\ object \in 0..opened /\ connected \subseteq 1..opened
      /\ record \in Models \cup {None} /\ (object # 0 => record # None) /\ retiring \in 0..MaxOpens
      /\ opened \in Nat /\ object \in 0..MaxOpens /\ 0 \in 0..opened
  BY Facts DEF Objects
<1> DEFINE Fits == /\ opened' \in 1..MaxOpens /\ object' \in 0..opened' /\ connected' \subseteq 1..opened'
                   /\ record' \in Models \cup {None} /\ (object' # 0 => record' # None)
           Over0 == Call("over", None, 0)
<1>3. Over0.obj = 0 /\ Over0.phase = "over" /\ 0 \in 0..MaxOpens
  BY Facts DEF Call
<1>4. ASSUME UNCHANGED tables PROVE Fits
  BY <1>2, <1>4 DEF tables
<1>5. ASSUME Forgotten, opened' = opened, connected' \subseteq connected PROVE Fits
  BY <1>2, <1>5 DEF Forgotten
<1>6. ASSUME NEW m \in Models, Opens(m) PROVE Fits /\ opened' \in 0..MaxOpens
  BY <1>2, <1>6, Facts DEF Opens
<1>7. ASSUME CannotOpen PROVE Fits
  BY <1>5, <1>7 DEF CannotOpen
<1>8. ASSUME NEW O, Disconnected(O) PROVE connected' \subseteq connected
  BY <1>8 DEF Disconnected
<1> HIDE DEF Fits
<1>9. ASSUME NEW c \in Starters, Over(c), Fits, retiring' = retiring PROVE Objects'
  <2> HIDE DEF Over0
  <2>1. call' = [call EXCEPT ![c] = Over0]
    BY <1>9 DEF Over, Over0
  <2> QED BY <1>1, <1>2, <1>3, <1>9, <2>1, ObjectsOfOne DEF Fits
<1>10. ASSUME call' = call, Fits, retiring' \in 0..MaxOpens PROVE Objects'
  BY <1>10, ObjectsOfNone DEF Fits
<1>11. ASSUME NEW c \in Starters, NEW p, Becomes(c, p), Fits, retiring' = retiring,
              p \in {"switching", "validating"} => call[c].wants \in Models
       PROVE  Objects'
  <2> DEFINE v == [call[c] EXCEPT !.phase = p]
  <2>1. call' = [call EXCEPT ![c] = v]
    BY <1>11 DEF Becomes
  <2>2. v.obj = call[c].obj /\ v.phase = p /\ v.wants = call[c].wants /\ call[c].obj \in 0..MaxOpens
    BY <1>1 DEF Starting, Objects
  <2> HIDE DEF v
  <2> QED BY <1>1, <1>2, <1>11, <2>1, <2>2, ObjectsOfOne DEF Fits
<1>12. ASSUME NEW r \in Calls, NEW o \in 0..MaxOpens, Begins(r, o), Fits, retiring' = retiring PROVE Objects'
  <2>1. CASE Over(r)
    BY <1>9, <1>12, <2>1, Facts
  <2>2. CASE call' = [call EXCEPT ![r].phase = "opening", ![r].obj = o]
    <3> DEFINE v == [call[r] EXCEPT !.phase = "opening", !.obj = o]
    <3>1. call' = [call EXCEPT ![r] = v] /\ v.obj = o /\ v.phase = "opening"
      BY <1>1, <2>2, Facts DEF Starting
    <3> HIDE DEF v
    <3> QED BY <1>1, <1>2, <1>12, <3>1, Facts, ObjectsOfOne DEF Fits
  <2> QED BY <1>12, <2>1, <2>2 DEF Begins
<1>13. ASSUME NEW r \in Calls, Run(r) PROVE Objects'
  <2>1. UNCHANGED tables /\ retiring' = retiring
    BY <1>13 DEF Run, others
  <2>2. CASE Over(r)
    BY <1>4, <1>9, <2>1, <2>2, Facts
  <2>3. CASE ~Over(r)
    <3>1. PICK m \in Wishes : call' = [call EXCEPT ![r] =
                 IF object = 0 THEN Call("resuming", m, 0)
                 ELSE Call(IF m \in {None, record} THEN "preparing" ELSE "switching", m, object)]
      BY <1>13, <2>3 DEF Run
    <3> DEFINE v == IF object = 0 THEN Call("resuming", m, 0)
                    ELSE Call(IF m \in {None, record} THEN "preparing" ELSE "switching", m, object)
    <3>2. v.obj \in 0..MaxOpens /\ (v.phase \in {"switching", "validating"} => v.wants \in Models)
      BY <1>2, <1>3, Facts DEF Call
    <3>3. call' = [call EXCEPT ![r] = v]
      BY <3>1
    <3> HIDE DEF v
    <3> QED BY <1>1, <1>2, <1>4, <2>1, <3>2, <3>3, Facts, ObjectsOfOne DEF Fits
  <2> QED BY <2>2, <2>3
<1>14. ASSUME NEW c \in Setters, SetModel(c) PROVE Objects'
  <2>1. UNCHANGED tables /\ retiring' = retiring
    BY <1>14 DEF SetModel, others
  <2>2. PICK m \in Switches : call' = [call EXCEPT ![c] = Call("switching", m, object)]
    BY <1>14 DEF SetModel
  <2> DEFINE v == Call("switching", m, object)
  <2>3. v.obj \in 0..MaxOpens /\ v.wants \in Models
    BY <1>2, Facts DEF Call
  <2>4. call' = [call EXCEPT ![c] = v]
    BY <2>2
  <2> HIDE DEF v
  <2> QED BY <1>1, <1>2, <1>4, <2>1, <2>3, <2>4, Facts, ObjectsOfOne DEF Fits
<1>15. ASSUME NEW c \in Starters, Switched(c) PROVE Objects'
  <2>1. /\ UNCHANGED tables /\ retiring' = retiring /\ call[c].wants \in Models
        /\ Becomes(c, "validating") \/ Over(c)
    BY <1>15 DEF Switched, others, Objects
  <2> QED BY <1>4, <1>9, <1>11, <2>1
<1>16. ASSUME NEW c \in Starters, Prepared(c) PROVE Objects'
  <2>1. /\ call[c].obj \in 0..MaxOpens /\ UNCHANGED <<object, opened, connected>> /\ retiring' = retiring
        /\ record' = Recorded(c) /\ call[c].wants \in Models \cup {None}
        /\ call[c].phase = "validating" => call[c].wants \in Models
        /\ (c \in Calls /\ Begins(c, call[c].obj)) \/ Over(c)
    BY <1>1, <1>16, CallValues DEF Prepared, others, Objects
  <2>2. record' \in Models \cup {None} /\ (object # 0 => record' # None)
    BY <1>2, <2>1, Facts DEF Recorded, Chosen
  <2>3. Fits
    BY <1>2, <2>1, <2>2 DEF Fits
  <2> QED BY <1>9, <1>12, <2>1, <2>3
<1>17. ASSUME NEW c \in Starters, PrepareFails(c) PROVE Objects'
  <2>1. Forgotten /\ Disconnected({call[c].obj}) /\ Over(c) /\ opened' = opened /\ retiring' = retiring
    BY <1>17 DEF PrepareFails, others
  <2> QED BY <1>5, <1>8, <1>9, <2>1
<1>18. ASSUME NEW r \in Calls, Resumed(r) PROVE Objects'
  <2>1. retiring' = retiring /\ Chosen(call[r].wants) \in Models
    BY <1>1, <1>18, CallValues, Facts DEF Resumed, others, Chosen
  <2>2. CASE Opens(Chosen(call[r].wants)) /\ Begins(r, opened')
    BY <1>6, <1>12, <2>1, <2>2
  <2>3. CASE Over(r) /\ (CannotOpen \/ UNCHANGED tables)
    BY <1>4, <1>7, <1>9, <2>1, <2>3, Facts
  <2> QED BY <1>18, <2>2, <2>3 DEF Resumed
<1>19. ASSUME NEW r \in Calls, Opened(r) \/ SendAnswered(r) PROVE Objects'
  <2>1. /\ UNCHANGED tables /\ retiring' = retiring
        /\ Becomes(r, "sending") \/ Becomes(r, "sent") \/ Over(r)
    BY <1>19 DEF Opened, SendAnswered, others
  <2> QED BY <1>4, <1>9, <1>11, <2>1, Facts
<1>20. ASSUME UNCHANGED <<tables, call, retiring>> PROVE Objects'
  BY <1>2, <1>4, <1>10, <1>20
<1>21. ASSUME NEW q \in Stops, Quiesce(q) \/ Interrupt(q) \/ StopTimesOut(q) PROVE Objects'
  BY <1>20, <1>21 DEF Quiesce, Interrupt, StopTimesOut, others
<1>22. ASSUME NEW q \in Stops, Retire(q) PROVE Objects'
  BY <1>2, <1>4, <1>10, <1>22 DEF Retire
<1>23. CASE Retired
  <2>1. call' = call /\ retiring' = 0 /\ (UNCHANGED tables \/ (Forgotten /\ Disconnected({retiring}) /\ opened' = opened))
    BY <1>23 DEF Retired
  <2> QED BY <1>3, <1>4, <1>5, <1>8, <1>10, <2>1
<1>24. CASE Resume \/ CompactResumes
  <2>1. call' = call /\ retiring' = retiring /\ (Opens(Default) \/ CannotOpen)
    BY <1>24 DEF Resume, CompactResumes, others
  <2> QED BY <1>2, <1>6, <1>7, <1>10, <2>1, Facts
<1>25. CASE Compact \/ CompactEnds \/ Close \/ Takes
  BY <1>20, <1>25 DEF Compact, CompactEnds, Close, Takes
<1>26. CASE Closed
  <2>1. Forgotten /\ Disconnected(connected) /\ opened' = opened /\ call' = call /\ retiring' = retiring
    BY <1>26 DEF Closed
  <2> QED BY <1>2, <1>5, <1>8, <1>10, <2>1
<1>27. ASSUME NEW r \in Calls, Expire(r) \/ Expired(r) \/ StallTimesOut(r) PROVE Objects'
  BY <1>20, <1>27 DEF Expire, Expired, StallTimesOut, others
<1>28. ASSUME NEW r \in Calls, Stall(r) PROVE Objects'
  <2>1. Forgotten /\ UNCHANGED <<opened, connected>> /\ call' = call /\ retiring' = retiring
    BY <1>28 DEF Stall, others
  <2> QED BY <1>2, <1>5, <1>10, <2>1
<1>29. ASSUME NEW r \in Calls, StallRetires(r) PROVE Objects'
  <2>1. UNCHANGED <<object, record, opened>> /\ Disconnected(task[r].doomed) /\ call' = call /\ retiring' = retiring
    BY <1>29 DEF StallRetires, others
  <2>2. Fits
    BY <1>2, <1>8, <2>1 DEF Fits
  <2> QED BY <1>2, <1>10, <2>1, <2>2
<1>30. CASE Agent
  BY <1>20, <1>30 DEF Agent, ToolStarts, ToolEnds, Errs, Streams, Idles, others
<1>31. CASE UNCHANGED vars
  BY <1>20, <1>31 DEF vars, others
<1> QED
  BY <1>13, <1>14, <1>15, <1>16, <1>17, <1>18, <1>19, <1>21, <1>22, <1>23, <1>24, <1>25, <1>26, <1>27, <1>28,
     <1>29, <1>30, <1>31, Facts
  DEF Next, Application, Continues, Advances, Starts, Timers
-----------------------------------------------------------------------------
(* The process loses the prompts of P: what it works on goes on, or else it  *)
(* is idle.                                                                  *)
GoesOn(b) ==
    b.tool # None \/ b.failed =>
        /\ b.tool = agent.tool /\ b.failed = agent.failed
        /\ \/ b.prompts = agent.prompts
           \/ b.prompts # <<>> /\ agent.prompts # <<>> /\ Head(b.prompts) = Head(agent.prompts)
Thinned(b, P) ==
    /\ b \in AgentRecords /\ b.model = agent.model
    /\ \A i \in 1..Len(b.prompts) :
          b.prompts[i] \notin P /\ \E j \in 1..Len(agent.prompts) : b.prompts[i] = agent.prompts[j]
    /\ Distinct(agent.prompts) => Distinct(b.prompts)
    /\ GoesOn(b)

LEMMA PromptsThinned ==
    ASSUME agent \in AgentRecords, NEW P
    PROVE  Thinned(WithoutPrompts(P), P)
<1> DEFINE left == Without(agent.prompts, P)
           b == WithoutPrompts(P)
           i0 == [Idle(agent) EXCEPT !.prompts = left]
<1>1. agent.prompts \in Seq(Calls)
  BY DEF AgentRecords
<1>2. /\ left \in Seq(Calls)
      /\ \A i \in 1..Len(left) : left[i] \notin P /\ \E j \in 1..Len(agent.prompts) : left[i] = agent.prompts[j]
      /\ Distinct(agent.prompts) => Distinct(left)
  BY <1>1, WithoutLeaves
<1>3. b = IF left = agent.prompts THEN agent
          ELSE IF left # <<>> /\ Head(left) = Head(agent.prompts) THEN [agent EXCEPT !.prompts = left]
          ELSE [Idle(agent) EXCEPT !.prompts = left]
  BY DEF WithoutPrompts
<1> HIDE DEF left, b
<1>4. i0 \in AgentRecords /\ i0.prompts = left /\ i0.tool = None /\ i0.failed = FALSE /\ i0.model = agent.model
  BY <1>2 DEF AgentRecords, Idle
<1> HIDE DEF i0
<1>5. ASSUME b \in AgentRecords, b.model = agent.model, b.prompts = left, GoesOn(b) PROVE Thinned(b, P)
  BY <1>2, <1>5 DEF Thinned
<1>6. CASE left = agent.prompts
  <2>1. b = agent
    BY <1>3, <1>6
  <2>2. GoesOn(b)
    BY <2>1 DEF GoesOn
  <2> QED BY <1>5, <1>6, <2>1, <2>2 DEF b
<1>7. CASE left # agent.prompts /\ left # <<>> /\ Head(left) = Head(agent.prompts)
  <2> DEFINE e == [agent EXCEPT !.prompts = left]
  <2>1. e \in AgentRecords /\ e.prompts = left /\ e.tool = agent.tool /\ e.failed = agent.failed /\ e.model = agent.model
    BY <1>2 DEF AgentRecords
  <2>2. b = e
    BY <1>3, <1>7
  <2> HIDE DEF e
  <2>3. agent.prompts # <<>>
    <3>1. Len(left) \in Nat /\ Len(left) # 0
      BY <1>2, <1>7
    <3>2. 1 \in 1..Len(left)
      BY <3>1
    <3>3. PICK j \in 1..Len(agent.prompts) : left[1] = agent.prompts[j]
      BY <1>2, <3>2
    <3> QED BY <1>1, <3>3
  <2>4. GoesOn(b)
    BY <1>7, <2>1, <2>2, <2>3 DEF GoesOn
  <2> QED BY <1>5, <2>1, <2>2, <2>4 DEF b
<1>8. CASE left # agent.prompts /\ ~(left # <<>> /\ Head(left) = Head(agent.prompts))
  <2>1. b = i0
    BY <1>3, <1>8 DEF i0
  <2>2. ~i0.failed
    BY <1>4, Zenon
  <2>3. GoesOn(b)
    BY <1>4, <2>1, <2>2 DEF GoesOn
  <2> QED BY <1>4, <1>5, <2>1, <2>3 DEF b
<1> QED BY <1>6, <1>7, <1>8

LEMMA DisconnectedThins ==
    ASSUME agent \in AgentRecords, NEW O, Disconnected(O)
    PROVE  connected' = connected \ O /\ Thinned(agent', {r \in Calls : call[r].obj \in O})
BY PromptsThinned DEF Disconnected

(* What a step does to the process: prompts come and go, a tool or an error  *)
(* of the prompt it works on is heard of by the turn that is live.           *)
TypesOfAgent ==
    /\ agent \in AgentRecords /\ cut \subseteq Calls /\ contested \in BOOLEAN
    /\ ended \in [Calls -> {"no", "completed", "interrupted", "error"}]

LEMMA AgentEdits ==
    ASSUME agent \in AgentRecords
    PROVE  /\ \A m \in Models : [agent EXCEPT !.model = m] \in AgentRecords
           /\ \A k \in Tools \cup {None} : [agent EXCEPT !.tool = k] \in AgentRecords
           /\ [agent EXCEPT !.failed = TRUE] \in AgentRecords
           /\ \A r \in Calls : [agent EXCEPT !.prompts = Append(@, r)] \in AgentRecords
           /\ Idle(agent) \in AgentRecords
           /\ agent.prompts \in Seq(Calls) /\ Idle(agent).prompts = agent.prompts
           /\ Idle(agent).tool = None /\ Idle(agent).failed = FALSE
<1>1. agent.prompts \in Seq(Calls)
  BY DEF AgentRecords
<1>2. \A r \in Calls : Append(agent.prompts, r) \in Seq(Calls)
  BY <1>1
<1> QED BY <1>1, <1>2 DEF AgentRecords, Idle

LEMMA AgentTyped == TurnInv /\ Objects /\ TypesOfAgent /\ [Next]_vars => TypesOfAgent'
<1> SUFFICES ASSUME TurnInv, Objects, TypesOfAgent, [Next]_vars PROVE TypesOfAgent'
  OBVIOUS
<1> USE DEF TypesOfAgent
<1>1. Starting /\ (turn \in Calls \cup {None}) /\ wire \in Seq(Messages) /\ agent \in AgentRecords
  BY DEF TurnInv, Turns, Queues
<1>2. ASSUME NEW O, Disconnected(O) PROVE agent' \in AgentRecords
  BY <1>1, <1>2, DisconnectedThins DEF Thinned
<1>3. ASSUME NEW m \in Models, Opens(m) PROVE agent' \in AgentRecords
  BY <1>1, <1>3, AgentEdits DEF Opens
<1>4. ASSUME NEW op, NEW by, Aborts(op, by) PROVE cut' \subseteq Calls
  BY <1>1, <1>4 DEF Aborts
<1>5. ASSUME Contends PROVE contested' \in BOOLEAN
  BY <1>5, Zenon DEF Contends
<1>6. ASSUME UNCHANGED <<agent, cut, contested, ended>> PROVE TypesOfAgent'
  BY <1>6
<1>7. ASSUME agent' \in AgentRecords, UNCHANGED <<cut, contested, ended>> PROVE TypesOfAgent'
  BY <1>7
<1>8. ASSUME UNCHANGED <<agent, contested, ended>>, cut' \subseteq Calls PROVE TypesOfAgent'
  BY <1>8
<1>9. ASSUME agent' \in AgentRecords, Contends, UNCHANGED <<cut, ended>> PROVE TypesOfAgent'
  BY <1>5, <1>9
<1> HIDE DEF TypesOfAgent
<1>10. ASSUME NEW r \in Calls, Run(r) PROVE TypesOfAgent'
  <2>1. UNCHANGED <<agent, cut, ended>> /\ (UNCHANGED contested \/ Contends)
    BY <1>10 DEF Run
  <2> QED BY <1>1, <1>6, <1>9, <2>1
<1>11. ASSUME NEW c \in Setters, SetModel(c) PROVE TypesOfAgent'
  BY <1>1, <1>9, <1>11 DEF SetModel
<1>12. ASSUME NEW c \in Starters, Switched(c) PROVE TypesOfAgent'
  <2>1. call[c].wants \in Models /\ UNCHANGED <<cut, contested, ended>>
    BY <1>12 DEF Switched, Objects, history
  <2>2. agent' = [agent EXCEPT !.model = call[c].wants] \/ agent' = agent
    BY <1>12 DEF Switched
  <2>3. agent' \in AgentRecords
    BY <1>1, <2>1, <2>2, AgentEdits
  <2> QED BY <1>7, <2>1, <2>3
<1>13. ASSUME NEW c, Prepared(c) PROVE TypesOfAgent'
  BY <1>6, <1>13 DEF Prepared, history
<1>14. ASSUME NEW c, PrepareFails(c) PROVE TypesOfAgent'
  BY <1>2, <1>7, <1>14 DEF PrepareFails, history
<1>15. ASSUME NEW r \in Calls, Resumed(r) PROVE TypesOfAgent'
  <2>1. Chosen(call[r].wants) \in Models /\ UNCHANGED <<cut, contested, ended>>
    BY <1>1, <1>15, CallValues, Facts DEF Resumed, history, Chosen
  <2>2. Opens(Chosen(call[r].wants)) \/ agent' = agent
    BY <1>15 DEF Resumed, CannotOpen
  <2> QED BY <1>1, <1>3, <1>7, <2>1, <2>2
<1>16. ASSUME NEW r \in Calls, Opened(r) PROVE TypesOfAgent'
  BY <1>6, <1>16 DEF Opened, history
<1>17. ASSUME NEW r \in Calls, SendAnswered(r) PROVE TypesOfAgent'
  <2>1. UNCHANGED <<cut, contested, ended>> /\ (agent' = agent \/ agent' = WithoutPrompts({r}))
    BY <1>17 DEF SendAnswered, history
  <2>2. agent' \in AgentRecords
    BY <1>1, <2>1, PromptsThinned DEF Thinned
  <2> QED BY <1>7, <2>1, <2>2
<1>18. ASSUME NEW q \in Stops, Quiesce(q) \/ Interrupt(q) PROVE TypesOfAgent'
  <2>1. UNCHANGED <<agent, contested, ended>> /\ (cut' = cut \/ \E op : Aborts(op, q))
    BY <1>18 DEF Quiesce, Interrupt
  <2>2. cut' \subseteq Calls
    BY <1>4, <2>1 DEF TypesOfAgent
  <2> QED BY <1>8, <2>1, <2>2
<1>19. ASSUME NEW q \in Stops, StopTimesOut(q) \/ Retire(q) PROVE TypesOfAgent'
  BY <1>6, <1>19 DEF StopTimesOut, Retire, history
<1>20. CASE Retired \/ Closed
  BY <1>1, <1>2, <1>7, <1>20 DEF Retired, Closed, history
<1>21. CASE Resume \/ CompactResumes
  <2>1. UNCHANGED <<cut, ended>> /\ Contends /\ (Opens(Default) \/ agent' = agent)
    BY <1>21 DEF Resume, CompactResumes, CannotOpen
  <2> QED BY <1>1, <1>3, <1>9, <2>1, Facts
<1>22. CASE Compact \/ CompactEnds
  BY <1>6, <1>22 DEF Compact, CompactEnds, history
<1>23. CASE Close
  <2>1. UNCHANGED <<agent, contested, ended>> /\ (cut' = cut \/ \E op : Aborts(op, None))
    BY <1>23 DEF Close
  <2>2. cut' \subseteq Calls
    BY <1>4, <2>1 DEF TypesOfAgent
  <2> QED BY <1>8, <2>1, <2>2
<1>24. ASSUME NEW r \in Calls, Expire(r) \/ Stall(r) PROVE TypesOfAgent'
  <2>1. UNCHANGED <<agent, contested, ended>> /\ \E op : Aborts(op, r)
    BY <1>24 DEF Expire, Stall
  <2> QED BY <1>4, <1>8, <2>1
<1>25. ASSUME NEW r \in Calls, Expired(r) \/ StallTimesOut(r) PROVE TypesOfAgent'
  BY <1>6, <1>25 DEF Expired, StallTimesOut, history
<1>26. ASSUME NEW r \in Calls, StallRetires(r) PROVE TypesOfAgent'
  BY <1>2, <1>7, <1>26 DEF StallRetires, history
<1>27. CASE Takes
  <2>1. Head(wire) \in Messages /\ UNCHANGED <<cut, contested, ended>>
    BY <1>1, <1>27, HeadTailProperties DEF Takes, history
  <2> DEFINE m == Head(wire)
  <2>2. CASE m.op = "send"
    <3>1. agent' = IF call[m.by].obj \in connected THEN [agent EXCEPT !.prompts = Append(@, m.by)] ELSE agent
      BY <1>27, <2>2 DEF Takes
    <3>2. call[m.by].obj \in connected => m.by \in Calls
      BY <2>1, <2>2 DEF Messages
    <3>3. agent' \in AgentRecords
      BY <1>1, <3>1, <3>2, AgentEdits
    <3> QED BY <1>7, <2>1, <3>3
  <2>3. CASE m.op # "send"
    <3>1. agent' = [agent EXCEPT !.aborting = @ \/ (Working /\ connected # {})]
      BY <1>27, <2>3 DEF Takes
    <3>2. agent' \in AgentRecords
      BY <1>1, <3>1 DEF AgentRecords
    <3> QED BY <1>7, <2>1, <3>2
  <2> QED BY <2>2, <2>3
<1>28. CASE Agent /\ ~Idles
  <2>1. UNCHANGED <<cut, contested, ended>>
    BY <1>28 DEF Agent, ToolStarts, ToolEnds, Errs, Streams, history
  <2>2. agent' \in AgentRecords
    BY <1>1, <1>28, AgentEdits DEF Agent, ToolStarts, ToolEnds, Errs, Streams
  <2> QED BY <1>7, <2>1, <2>2
<1>29. CASE Idles
  <2> DEFINE e == [Idle(agent) EXCEPT !.prompts = Tail(@)]
  <2>1. agent.prompts # <<>> /\ agent' = e /\ UNCHANGED <<cut, contested>>
    BY <1>29 DEF Idles, Working
  <2>2. Tail(agent.prompts) \in Seq(Calls) /\ Head(agent.prompts) \in Calls
    BY <1>1, <2>1, AgentEdits, HeadTailProperties
  <2>3. e \in AgentRecords
    BY <1>1, <2>2, AgentEdits DEF AgentRecords
  <2>4. ended' \in [Calls -> {"no", "completed", "interrupted", "error"}]
    BY <1>29, <2>2 DEF Idles, TypesOfAgent
  <2> QED BY <2>1, <2>3, <2>4 DEF TypesOfAgent
<1>30. CASE UNCHANGED vars
  BY <1>6, <1>30 DEF vars, history
<1> QED
  BY <1>10, <1>11, <1>12, <1>13, <1>14, <1>15, <1>16, <1>17, <1>18, <1>19, <1>20, <1>21, <1>22, <1>23, <1>24,
     <1>25, <1>26, <1>27, <1>28, <1>29, <1>30, Facts
  DEF Next, Application, Continues, Advances, Starts, Timers
-----------------------------------------------------------------------------
(* What a step does to the tasks: that a stop could not be verified is noted *)
(* of the turn that is live, and forgotten of none that ever was.            *)
TasksTyped == task \in [Calls -> TaskRecords]
Noted(r, u) ==
    \/ u.unverified = task[r].unverified
    \/ turn = r /\ (task[r].unverified => u.unverified)
    \/ Claimed(r)
(* A task that goes on forgets no tool and no error, and is not timed while  *)
(* a tool of it runs.                                                        *)
Kept(t, u) ==
    /\ t.tools \subseteq u.tools /\ (t.error => u.error)
    /\ t.tools # {} /\ t.progress = "off" => u.progress = "off"
GoesOnAs(r, u) == Kept(task[r], u) \/ turn' = None \/ Claimed(r) \/ ToolEnds
TaskStep == TasksTyped' /\ \A r \in Calls : Noted(r, task'[r]) /\ GoesOnAs(r, task'[r])

LEMMA TaskEdits ==
    ASSUME NEW t \in TaskRecords
    PROVE  /\ Cleared(t) \in TaskRecords /\ Cleared(t).unverified = t.unverified
           /\ Armed(t) \in TaskRecords /\ Armed(t).unverified = t.unverified /\ Armed(t).tools = t.tools
           /\ Armed(t).error = t.error /\ (t.tools # {} => Armed(t).progress = "off")
           /\ Interrupted(t) \in TaskRecords /\ (t.unverified => Interrupted(t).unverified)
           /\ ("shell" \in t.tools => Interrupted(t).unverified)
           /\ Interrupted(t).tools = t.tools /\ Interrupted(t).error = t.error /\ Interrupted(t).progress = t.progress
           /\ NoTask \in TaskRecords
BY DEF TaskRecords, Cleared, Armed, Interrupted, NoTask

LEMMA KeptEdits ==
    ASSUME NEW t \in TaskRecords
    PROVE  Kept(t, t) /\ Kept(t, Armed(t)) /\ Kept(t, Interrupted(t))
BY DEF TaskRecords, Armed, Interrupted, Kept

LEMMA KeptOn ==
    ASSUME NEW t \in TaskRecords, NEW e \in TaskRecords, t.tools \subseteq e.tools, t.error => e.error,
           e.progress = t.progress \/ e.progress = "off"
    PROVE  Kept(t, e)
BY DEF Kept

LEMMA KeptThen ==
    ASSUME NEW t \in TaskRecords, NEW u \in TaskRecords, NEW v \in TaskRecords, Kept(t, u), Kept(u, v)
    PROVE  Kept(t, v)
BY DEF Kept, TaskRecords

LEMMA ClockEdit ==
    ASSUME NEW t \in TaskRecords, NEW c \in {"armed", "aborting", "waiting"}, NEW e, e = [t EXCEPT !.clock = c]
    PROVE  /\ e \in TaskRecords /\ e.unverified = t.unverified
           /\ e.tools = t.tools /\ e.error = t.error /\ e.progress = t.progress
BY DEF TaskRecords

LEMMA StallEdit ==
    ASSUME NEW t \in TaskRecords, NEW c \in {"no", "aborting", "waiting", "over"}, NEW e, e = [t EXCEPT !.stall = c]
    PROVE  /\ e \in TaskRecords /\ e.unverified = t.unverified
           /\ e.tools = t.tools /\ e.error = t.error /\ e.progress = t.progress
BY DEF TaskRecords

LEMMA ToolsEdit ==
    ASSUME NEW t \in TaskRecords, NEW T \in SUBSET Tools, NEW e, e = [t EXCEPT !.tools = T]
    PROVE  /\ e \in TaskRecords /\ e.unverified = t.unverified
           /\ e.tools = T /\ e.error = t.error /\ e.progress = t.progress
BY DEF TaskRecords

LEMMA ErrorEdit ==
    ASSUME NEW t \in TaskRecords, NEW e, e = [t EXCEPT !.error = TRUE]
    PROVE  /\ e \in TaskRecords /\ e.unverified = t.unverified
           /\ e.tools = t.tools /\ e.error = TRUE /\ e.progress = t.progress
BY DEF TaskRecords

LEMMA DoomEdit ==
    ASSUME object \in 0..MaxOpens, NEW t \in TaskRecords
    PROVE  /\ Stalled(t) \in TaskRecords /\ Stalled(t).unverified = t.unverified
           /\ Stalled(t).tools = t.tools /\ Stalled(t).error = t.error /\ Stalled(t).progress = "off"
<1> DEFINE D == t.doomed \cup ({object} \ {0})
           c == IF object # 0 THEN "aborting" ELSE IF t.stall = "no" THEN "waiting" ELSE t.stall
<1>1. D \in SUBSET (1..MaxOpens) /\ c \in {"no", "aborting", "waiting", "over"}
  BY Facts DEF TaskRecords
<1>2. Stalled(t) = [t EXCEPT !.progress = "off", !.doomed = D, !.stall = c]
  BY DEF TaskRecords, Stalled
<1> HIDE DEF D, c
<1> QED BY <1>1, <1>2 DEF TaskRecords

LEMMA OneTask ==
    ASSUME TasksTyped, NEW r \in Calls, NEW t \in TaskRecords, task' = [task EXCEPT ![r] = t],
           Noted(r, t), GoesOnAs(r, t)
    PROVE  TaskStep
<1>1. TasksTyped' /\ task'[r] = t /\ task[r] \in TaskRecords
  BY DEF TasksTyped
<1>2. ASSUME NEW s \in Calls, s # r PROVE Noted(s, task'[s]) /\ GoesOnAs(s, task'[s])
  <2>1. task'[s] = task[s] /\ task[s] \in TaskRecords
    BY <1>2 DEF TasksTyped
  <2>2. Kept(task[s], task'[s])
    BY <2>1, KeptEdits
  <2> QED BY <2>1, <2>2 DEF Noted, GoesOnAs
<1> QED BY <1>1, <1>2 DEF TaskStep

LEMMA NoTaskMoves == TasksTyped /\ task' = task => TaskStep
BY KeptEdits DEF TasksTyped, TaskStep, Noted, GoesOnAs

LEMMA TasksMove == TurnInv /\ Objects /\ TypesOfAgent /\ TasksTyped /\ [Next]_vars => TaskStep
<1> SUFFICES ASSUME TurnInv, Objects, TypesOfAgent, TasksTyped, [Next]_vars PROVE TaskStep
  OBVIOUS
<1>1. Starting /\ (turn \in Calls \cup {None}) /\ wire \in Seq(Messages) /\ object \in 0..MaxOpens
  BY Facts DEF TurnInv, Turns, Queues, Objects
<1>2. \A r \in Calls : task[r] \in TaskRecords
  BY DEF TasksTyped
<1>3. ASSUME NEW r \in Calls, NEW o, Finish(r, o) PROVE TaskStep
  <2>1. task' = [task EXCEPT ![r] = Cleared(task[r])]
    BY <1>3 DEF Finish
  <2>2. turn' = None
    BY <1>3 DEF Finish
  <2> DEFINE t == Cleared(task[r])
  <2>3. t \in TaskRecords /\ Noted(r, t) /\ GoesOnAs(r, t)
    BY <1>2, <2>2, TaskEdits DEF Noted, GoesOnAs
  <2> HIDE DEF t
  <2> QED BY <2>1, <2>3, OneTask DEF t
<1>4. ASSUME NEW r \in Calls, NEW o, FinishIfLive(r, o) PROVE TaskStep
  BY <1>3, <1>4, NoTaskMoves DEF FinishIfLive, turns
<1>5. ASSUME NEW r \in Calls, ArmIfLive(r) PROVE TaskStep
  <2> DEFINE t == Armed(task[r])
  <2>1. task' = [task EXCEPT ![r] = t] \/ task' = task
    BY <1>5 DEF ArmIfLive
  <2>2. t \in TaskRecords /\ Noted(r, t) /\ GoesOnAs(r, t)
    BY <1>2, TaskEdits, KeptEdits DEF Noted, GoesOnAs
  <2> HIDE DEF t
  <2> QED BY <2>1, <2>2, OneTask, NoTaskMoves
<1>6. ASSUME NEW r \in Calls, NEW o, Begins(r, o), Fresh(r) PROVE TaskStep
  <2> DEFINE t == [NoTask EXCEPT !.clock = "armed"]
  <2>1. CASE UNCHANGED turns
    BY <2>1, NoTaskMoves DEF turns
  <2>2. CASE Claims(r)
    <3>1. task' = [task EXCEPT ![r] = t] /\ Claimed(r)
      BY <1>6, <2>2 DEF Claims, Claimed
    <3>2. t \in TaskRecords
      BY ClockEdit, TaskEdits, <1>2
    <3> HIDE DEF t
    <3> QED BY <3>1, <3>2, OneTask DEF Noted, GoesOnAs
  <2> QED BY <1>6, <2>1, <2>2 DEF Begins
<1>7. ASSUME turn \in Calls, task' = [task EXCEPT ![turn] = Interrupted(task[turn])] PROVE TaskStep
  <2> DEFINE t == Interrupted(task[turn])
  <2>1. t \in TaskRecords /\ Noted(turn, t) /\ GoesOnAs(turn, t)
    BY <1>2, <1>7, TaskEdits, KeptEdits DEF Noted, GoesOnAs
  <2> HIDE DEF t
  <2> QED BY <1>7, <2>1, OneTask DEF t
<1>8. ASSUME task' = task PROVE TaskStep
  BY <1>8, NoTaskMoves
<1>9. ASSUME NEW r \in Calls, Run(r) PROVE TaskStep
  BY <1>8, <1>9 DEF Run, turns
<1>10. ASSUME NEW c, SetModel(c) \/ Switched(c) \/ PrepareFails(c) PROVE TaskStep
  BY <1>8, <1>10 DEF SetModel, Switched, PrepareFails, turns
<1>11. ASSUME NEW c \in Starters, Prepared(c) PROVE TaskStep
  <2>1. (c \in Calls /\ Begins(c, call[c].obj) /\ Fresh(c)) \/ task' = task
    BY <1>11 DEF Prepared, Fresh, Preparing, turns
  <2> QED BY <1>6, <1>8, <2>1
<1>12. ASSUME NEW r \in Calls, Resumed(r) PROVE TaskStep
  <2>1. Fresh(r) /\ (Begins(r, opened') \/ task' = task)
    BY <1>12 DEF Resumed, Fresh, Preparing, turns
  <2> QED BY <1>6, <1>8, <2>1
<1>13. ASSUME NEW r \in Calls, Opened(r) \/ SendAnswered(r) PROVE TaskStep
  <2>1. ArmIfLive(r) \/ FinishIfLive(r, "failed")
    BY <1>13 DEF Opened, SendAnswered
  <2> QED BY <1>4, <1>5, <2>1
<1>14. ASSUME NEW q \in Stops, Quiesce(q) \/ Interrupt(q) PROVE TaskStep
  <2>1. task' = task \/ (turn # None /\ task' = [task EXCEPT ![turn] = Interrupted(task[turn])])
    BY <1>14 DEF Quiesce, Interrupt
  <2> QED BY <1>1, <1>7, <1>8, <2>1
<1>15. ASSUME NEW q \in Stops, StopTimesOut(q) \/ Retire(q) PROVE TaskStep
  BY <1>8, <1>15 DEF StopTimesOut, Retire
<1>16. CASE Retired \/ Closed \/ Resume \/ CompactResumes \/ Compact \/ CompactEnds
  BY <1>8, <1>16 DEF Retired, Closed, Resume, CompactResumes, Compact, CompactEnds, turns
<1>17. CASE Close
  <2>1. task' = task \/ (turn # None /\ task' = [task EXCEPT ![turn] = Interrupted(task[turn])])
    BY <1>17 DEF Close
  <2> QED BY <1>1, <1>7, <1>8, <2>1
<1>18. ASSUME NEW r \in Calls, Expire(r) PROVE TaskStep
  <2> DEFINE t == [Interrupted(task[r]) EXCEPT !.clock = IF object = 0 THEN "waiting" ELSE "aborting"]
  <2>1. task' = [task EXCEPT ![r] = t] /\ turn = r
    BY <1>18 DEF Expire, Live
  <2>2. t \in TaskRecords /\ (task[r].unverified => t.unverified) /\ Kept(task[r], t)
    <3>1. /\ Interrupted(task[r]) \in TaskRecords /\ (task[r].unverified => Interrupted(task[r]).unverified)
          /\ Kept(task[r], Interrupted(task[r])) /\ task[r] \in TaskRecords
      BY <1>2, TaskEdits, KeptEdits
    <3> DEFINE i == Interrupted(task[r])
               c == IF object = 0 THEN "waiting" ELSE "aborting"
    <3>2. c \in {"armed", "aborting", "waiting"} /\ t = [i EXCEPT !.clock = c]
      OBVIOUS
    <3> HIDE DEF i, c, t
    <3>3. i \in TaskRecords
      BY <3>1 DEF i
    <3>4. /\ t \in TaskRecords /\ t.unverified = i.unverified
          /\ t.tools = i.tools /\ t.error = i.error /\ t.progress = i.progress
      BY <3>2, <3>3, ClockEdit
    <3>5. Kept(i, t)
      BY <3>3, <3>4, KeptOn
    <3> QED BY <3>1, <3>3, <3>4, <3>5, KeptThen DEF i
  <2> HIDE DEF t
  <2> QED BY <2>1, <2>2, OneTask DEF Noted, GoesOnAs
<1>19. ASSUME NEW r \in Calls, Expired(r) \/ StallTimesOut(r) PROVE TaskStep
  BY <1>3, <1>19 DEF Expired, StallTimesOut
<1>20. ASSUME NEW r \in Calls, Stall(r) PROVE TaskStep
  <2> DEFINE t == Stalled(task[r])
  <2>1. task' = [task EXCEPT ![r] = t]
    BY <1>20 DEF Stall
  <2>2. /\ task[r] \in TaskRecords /\ t \in TaskRecords /\ t.unverified = task[r].unverified
        /\ t.tools = task[r].tools /\ t.error = task[r].error /\ t.progress = "off"
    BY <1>1, <1>2, DoomEdit
  <2> HIDE DEF t
  <2>3. Kept(task[r], t)
    BY <2>2, KeptOn
  <2> QED BY <2>1, <2>2, <2>3, OneTask DEF Noted, GoesOnAs
<1>21. ASSUME NEW r \in Calls, StallRetires(r) PROVE TaskStep
  <2> DEFINE t == [task[r] EXCEPT !.stall = "over"]
  <2>1. task' = [task EXCEPT ![r] = t]
    BY <1>21 DEF StallRetires
  <2>2. /\ task[r] \in TaskRecords /\ t \in TaskRecords /\ t.unverified = task[r].unverified
        /\ t.tools = task[r].tools /\ t.error = task[r].error /\ t.progress = task[r].progress
    BY <1>2, StallEdit
  <2> HIDE DEF t
  <2>3. Kept(task[r], t)
    BY <2>2, KeptOn
  <2> QED BY <2>1, <2>2, <2>3, OneTask DEF Noted, GoesOnAs
<1>22. CASE Takes
  <2>1. PICK m : m = Head(wire) /\ m \in Messages /\ (UNCHANGED turns \/ Acknowledged(m) \/ Rejected(m))
    BY <1>1, <1>22, HeadTailProperties DEF Takes
  <2>2. CASE UNCHANGED turns
    BY <1>8, <2>2 DEF turns
  <2>3. CASE Acknowledged(m)
    <3>1. CASE m.op \in {"expire", "stall"}
      <4> DEFINE t == IF m.op = "stall" THEN [task[m.by] EXCEPT !.stall = "waiting"]
                      ELSE IF Live(m.by) THEN [task[m.by] EXCEPT !.clock = "waiting"] ELSE task[m.by]
      <4>1. m.by \in Calls
        BY <2>1, <3>1 DEF Messages
      <4>2. task' = [task EXCEPT ![m.by] = t]
        BY <2>3, <3>1 DEF Acknowledged
      <4>3. /\ task[m.by] \in TaskRecords /\ t \in TaskRecords /\ t.unverified = task[m.by].unverified
            /\ t.tools = task[m.by].tools /\ t.error = task[m.by].error /\ t.progress = task[m.by].progress
        BY <1>2, <4>1, StallEdit, ClockEdit
      <4> HIDE DEF t
      <4>4. Kept(task[m.by], t)
        BY <4>3, KeptOn
      <4> QED BY <4>1, <4>2, <4>3, <4>4, OneTask DEF Noted, GoesOnAs
    <3>2. CASE m.op \notin {"expire", "stall"}
      BY <1>8, <2>3, <3>2 DEF Acknowledged, turns
    <3> QED BY <3>1, <3>2
  <2>4. CASE Rejected(m) /\ ~Acknowledged(m)
    <3>1. task' = task \/ (m.op = "expire" /\ FinishIfLive(m.by, "failed"))
      BY <2>4 DEF Rejected
    <3>2. m.op = "expire" => m.by \in Calls
      BY <2>1 DEF Messages
    <3> QED BY <1>4, <1>8, <3>1, <3>2
  <2> QED BY <2>1, <2>2, <2>3, <2>4
<1>23. ASSUME NEW t, Handles(t), Hears => t \in TaskRecords /\ t.unverified = task[turn].unverified,
              Hears => Kept(task[turn], t) \/ ToolEnds
       PROVE  TaskStep
  <2>1. CASE Hears
    <3>1. task' = [task EXCEPT ![turn] = Armed(t)] /\ turn \in Calls
      BY <1>1, <1>23, <2>1 DEF Handles, Hears
    <3>2. Armed(t) \in TaskRecords /\ Armed(t).unverified = task[turn].unverified /\ Kept(t, Armed(t))
      BY <1>23, <2>1, TaskEdits, KeptEdits
    <3>3. Kept(task[turn], Armed(t)) \/ ToolEnds
      BY <1>2, <1>23, <2>1, <3>1, <3>2, KeptThen
    <3> QED BY <3>1, <3>2, <3>3, OneTask DEF Noted, GoesOnAs
  <2>2. CASE ~Hears
    BY <1>8, <1>23, <2>2 DEF Handles
  <2> QED BY <2>1, <2>2
<1>24. ASSUME Hears PROVE task[turn] \in TaskRecords /\ task[turn].tools \subseteq Tools /\ Kept(task[turn], task[turn])
  BY <1>1, <1>2, <1>24, KeptEdits DEF Hears, TaskRecords
<1>25. ASSUME NEW k \in Tools, ToolStarts(k) PROVE TaskStep
  <2> DEFINE T == task[turn].tools \cup {k}
             t == [task[turn] EXCEPT !.tools = T]
  <2>1. Handles(t)
    BY <1>25 DEF ToolStarts
  <2>2. Hears => T \in SUBSET Tools
    BY <1>24
  <2>3. Hears => task[turn].tools \subseteq T
    OBVIOUS
  <2> HIDE DEF T
  <2>4. Hears => /\ t \in TaskRecords /\ t.unverified = task[turn].unverified
                 /\ t.tools = T /\ t.error = task[turn].error /\ t.progress = task[turn].progress
    BY <1>24, <2>2, ToolsEdit
  <2> HIDE DEF t
  <2>5. Hears => Kept(task[turn], t)
    BY <1>24, <2>3, <2>4, KeptOn
  <2> QED BY <1>23, <2>1, <2>4, <2>5
<1>26. CASE ToolEnds
  <2> DEFINE T == task[turn].tools \ {agent.tool}
             t == [task[turn] EXCEPT !.tools = T]
  <2>1. Handles(t)
    BY <1>26 DEF ToolEnds
  <2>2. Hears => T \in SUBSET Tools
    BY <1>24
  <2> HIDE DEF T
  <2>3. Hears => t \in TaskRecords /\ t.unverified = task[turn].unverified
    BY <1>24, <2>2, ToolsEdit
  <2> HIDE DEF t
  <2> QED BY <1>23, <1>26, <2>1, <2>3
<1>27. CASE Errs
  <2> DEFINE t == [task[turn] EXCEPT !.error = TRUE]
  <2>1. Handles(t)
    BY <1>27 DEF Errs
  <2>2. Hears => /\ t \in TaskRecords /\ t.unverified = task[turn].unverified
                 /\ t.tools = task[turn].tools /\ t.error = TRUE /\ t.progress = task[turn].progress
    BY <1>24, ErrorEdit
  <2> HIDE DEF t
  <2>3. Hears => Kept(task[turn], t)
    <3>1. Hears => t.error
      BY <2>2, Zenon
    <3> QED BY <1>24, <2>2, <3>1, KeptOn
  <2> QED BY <1>23, <2>1, <2>2, <2>3
<1>28. CASE Streams
  BY <1>23, <1>24, <1>28 DEF Streams
<1>29. CASE Idles
  <2>1. UNCHANGED turns \/ (turn # None /\ \E o : Finish(turn, o))
    BY <1>29 DEF Idles, Hears
  <2> QED BY <1>1, <1>3, <1>8, <2>1 DEF turns
<1>30. CASE UNCHANGED vars
  BY <1>8, <1>30 DEF vars, turns
<1> QED
  BY <1>9, <1>10, <1>11, <1>12, <1>13, <1>14, <1>15, <1>16, <1>17, <1>18, <1>19, <1>20, <1>21, <1>22, <1>25,
     <1>26, <1>27, <1>28, <1>29, <1>30, Facts
  DEF Next, Application, Continues, Advances, Starts, Timers, Agent
-----------------------------------------------------------------------------
(* What a step does to the stops: one that starts waits for the turn that is *)
(* live, and one is confirmed only by what the task it waits for says.       *)
StopsTyped ==
    /\ stop \in [Stops -> StopRecords]
    /\ compaction \in {"no", "resuming", "running"} /\ closing \in {"no", "aborting", "stopping", "closed"}
Asks(q, s) ==
    /\ stop[q].phase = "idle" /\ turn # None /\ UNCHANGED <<turn, settled>>
    /\ s.awaits = turn /\ s.phase \in {"waiting", "aborting"}
GivesUp(q, s) ==
    /\ s.awaits = stop[q].awaits
    /\ \/ stop[q].phase = "idle" /\ s.phase \in {"other", "confirmed"}
       \/ s.phase \in {"unknown", "waiting"}
HearsEnd(q, s) ==
    LET r == stop[q].awaits IN
        /\ s.awaits = r /\ r \in Calls /\ s.phase = StopOutcome(r)
        /\ settled'[r] # "no" /\ task'[r].unverified = task[r].unverified
HearsAck(q, s) ==
    /\ s.awaits = stop[q].awaits /\ s.awaits # turn /\ s.phase = StopOutcome(s.awaits)
    /\ UNCHANGED <<turn, settled, task>>
    /\ wire # <<>> /\ Head(wire) = Request("quiesce", q)
StopMove(q, s) == s = stop[q] \/ Asks(q, s) \/ GivesUp(q, s) \/ HearsEnd(q, s) \/ HearsAck(q, s)
StopStep == StopsTyped' /\ \A q \in Stops : StopMove(q, stop'[q])

LEMMA OneStop ==
    ASSUME StopsTyped, NEW q \in Stops, NEW s \in StopRecords, stop' = [stop EXCEPT ![q] = s], StopMove(q, s),
           UNCHANGED <<compaction, closing>>
    PROVE  StopStep
BY DEF StopsTyped, StopStep, StopMove

LEMMA SameStops ==
    ASSUME StopsTyped, stop' = stop,
           compaction' \in {"no", "resuming", "running"}, closing' \in {"no", "aborting", "stopping", "closed"}
    PROVE  StopStep
BY DEF StopsTyped, StopStep, StopMove

LEMMA PhaseEdit ==
    ASSUME NEW t \in StopRecords, NEW p \in {"idle", "other", "aborting", "waiting", "confirmed", "unknown"},
           NEW s, s = [t EXCEPT !.phase = p]
    PROVE  s \in StopRecords /\ s.phase = p /\ s.awaits = t.awaits
BY DEF StopRecords

LEMMA StopsMove == TurnInv /\ TasksTyped /\ StopsTyped /\ [Next]_vars => StopStep
<1> SUFFICES ASSUME TurnInv, TasksTyped, StopsTyped, [Next]_vars PROVE StopStep
  OBVIOUS
<1>1. /\ turn \in Calls \cup {None} /\ wire \in Seq(Messages) /\ settled \in [Calls -> Results \cup {"no"}]
      /\ task \in [Calls -> TaskRecords] /\ \A q \in Stops : stop[q] \in StopRecords
      /\ compaction \in {"no", "resuming", "running"} /\ closing \in {"no", "aborting", "stopping", "closed"}
  BY DEF TurnInv, Turns, Queues, TasksTyped, StopsTyped
<1>2. ASSUME NEW q \in Stops, NEW p \in {"other", "confirmed", "unknown", "waiting"}, stop' = [stop EXCEPT ![q].phase = p],
             p \in {"other", "confirmed"} => stop[q].phase = "idle", UNCHANGED <<compaction, closing>>
      PROVE  StopStep
  <2> DEFINE s == [stop[q] EXCEPT !.phase = p]
  <2>1. s \in StopRecords /\ s.phase = p /\ s.awaits = stop[q].awaits
    BY <1>1, PhaseEdit
  <2>2. stop' = [stop EXCEPT ![q] = s]
    BY <1>2
  <2> HIDE DEF s
  <2>3. StopMove(q, s)
    BY <1>2, <2>1 DEF StopMove, GivesUp
  <2> QED BY <1>2, <2>1, <2>2, <2>3, OneStop
<1>3. ASSUME NEW r \in Calls, NEW o \in Results, Finish(r, o), UNCHANGED <<compaction, closing>> PROVE StopStep
  <2>1. settled'[r] # "no" /\ task'[r].unverified = task[r].unverified
    BY <1>1, <1>3 DEF Finish, Results, Cleared, NoTask
  <2>2. ASSUME NEW q \in Stops PROVE stop'[q] \in StopRecords /\ StopMove(q, stop'[q])
    <3>1. CASE stop[q] = [phase |-> "waiting", awaits |-> r]
      <4>1. stop'[q] = [stop[q] EXCEPT !.phase = StopOutcome(r)]
        BY <1>3, <3>1 DEF Finish
      <4>2. stop'[q] \in StopRecords /\ stop'[q].phase = StopOutcome(r) /\ stop'[q].awaits = stop[q].awaits
        BY <1>1, <4>1, PhaseEdit DEF StopOutcome
      <4>3. stop[q].awaits = r
        BY <3>1
      <4> QED BY <2>1, <4>2, <4>3 DEF StopMove, HearsEnd
    <3>2. CASE stop[q] # [phase |-> "waiting", awaits |-> r]
      BY <1>1, <1>3, <3>2 DEF Finish, StopMove
    <3> QED BY <3>1, <3>2
  <2>3. stop' = [q \in Stops |-> stop'[q]]
    BY <1>3 DEF Finish
  <2>4. stop' \in [Stops -> StopRecords]
    BY <2>2, <2>3
  <2> QED BY <1>1, <1>3, <2>2, <2>4 DEF StopStep, StopsTyped
<1>4. ASSUME UNCHANGED <<stop, compaction, closing>> PROVE StopStep
  BY <1>1, <1>4, SameStops
<1>5. ASSUME NEW r \in Calls, NEW o \in Results, FinishIfLive(r, o), UNCHANGED <<compaction, closing>> PROVE StopStep
  BY <1>3, <1>4, <1>5 DEF FinishIfLive, turns
<1>6. ASSUME NEW r \in Calls, Run(r) PROVE StopStep
  BY <1>4, <1>6 DEF Run, turns, others
<1>7. ASSUME NEW c, SetModel(c) \/ Switched(c) \/ PrepareFails(c) PROVE StopStep
  BY <1>4, <1>7 DEF SetModel, Switched, PrepareFails, turns, others
<1>8. ASSUME NEW c, Prepared(c) \/ Resumed(c) PROVE StopStep
  BY <1>4, <1>8 DEF Prepared, Resumed, Begins, Claims, turns, others
<1>9. ASSUME NEW r \in Calls, Opened(r) \/ SendAnswered(r) PROVE StopStep
  <2>1. UNCHANGED <<compaction, closing>> /\ (ArmIfLive(r) \/ FinishIfLive(r, "failed"))
    BY <1>9 DEF Opened, SendAnswered, others
  <2>2. "failed" \in Results
    BY DEF Results
  <2> QED BY <1>4, <1>5, <2>1, <2>2 DEF ArmIfLive
<1>10. ASSUME NEW q \in Stops, Interrupt(q) \/ Retire(q) PROVE StopStep
  BY <1>2, <1>10 DEF Interrupt, Retire, others
<1>11. ASSUME NEW q \in Stops, Quiesce(q) PROVE StopStep
  <2>1. UNCHANGED <<turn, settled, compaction, closing>> /\ stop[q].phase = "idle"
    BY <1>11 DEF Quiesce, others
  <2>2. CASE turn = None
    BY <1>2, <1>11, <2>1, <2>2 DEF Quiesce
  <2>3. CASE turn # None
    <3> DEFINE s == [phase |-> IF object = 0 THEN "waiting" ELSE "aborting", awaits |-> turn]
    <3>1. stop' = [stop EXCEPT ![q] = s]
      BY <1>11, <2>3 DEF Quiesce
    <3>2. s \in StopRecords /\ s.awaits = turn /\ s.phase \in {"waiting", "aborting"}
      BY <1>1 DEF StopRecords
    <3> HIDE DEF s
    <3> QED BY <2>1, <2>3, <3>1, <3>2, OneStop DEF StopMove, Asks
  <2> QED BY <2>2, <2>3
<1>12. ASSUME NEW q \in Stops, StopTimesOut(q) PROVE StopStep
  BY <1>2, <1>12 DEF StopTimesOut, others
<1>13. CASE Retired \/ Resume
  BY <1>4, <1>13 DEF Retired, Resume, turns, others
<1>14. CASE Compact \/ CompactResumes \/ CompactEnds \/ Close \/ Closed
  BY <1>1, <1>14, SameStops DEF Compact, CompactResumes, CompactEnds, Close, Closed, turns
<1>15. ASSUME NEW r \in Calls, Expire(r) \/ Stall(r) \/ StallRetires(r) PROVE StopStep
  BY <1>4, <1>15 DEF Expire, Stall, StallRetires, others
<1>16. ASSUME NEW r \in Calls, Expired(r) \/ StallTimesOut(r) PROVE StopStep
  <2>1. UNCHANGED <<compaction, closing>> /\ \E o \in Results : Finish(r, o)
    BY <1>16 DEF Expired, StallTimesOut, others, Results
  <2> QED BY <1>3, <2>1
<1>17. CASE Takes
  <2>1. PICK m : /\ wire # <<>> /\ m = Head(wire) /\ m \in Messages /\ compaction' = compaction
                 /\ \/ UNCHANGED <<turns, closing>>
                    \/ Acknowledged(m)
                    \/ Rejected(m)
    BY <1>1, <1>17, HeadTailProperties DEF Takes
  <2>2. CASE UNCHANGED <<turns, closing>>
    BY <1>4, <2>1, <2>2 DEF turns
  <2>3. CASE m.op = "quiesce" /\ m.by \in Stops /\ Acknowledged(m)
    <3> DEFINE q == m.by
               r == stop[q].awaits
               p == IF Live(r) THEN "waiting" ELSE StopOutcome(r)
               s == [stop[q] EXCEPT !.phase = p]
    <3>1. stop' = [stop EXCEPT ![q] = s] /\ UNCHANGED <<turn, task, settled, closing>>
      BY <2>3 DEF Acknowledged
    <3>2. s \in StopRecords /\ s.phase = p /\ s.awaits = r
      BY <1>1, <2>3, PhaseEdit DEF StopOutcome
    <3>3. m = Request("quiesce", q)
      BY <2>1, <2>3 DEF Messages, Request
    <3> HIDE DEF s
    <3>4. StopMove(q, s)
      <4>1. CASE Live(r)
        BY <3>2, <4>1 DEF StopMove, GivesUp
      <4>2. CASE ~Live(r)
        BY <2>1, <3>1, <3>2, <3>3, <4>2 DEF StopMove, HearsAck, Live
      <4> QED BY <4>1, <4>2
    <3> QED BY <2>1, <2>3, <3>1, <3>2, <3>4, OneStop
  <2>4. CASE m.op # "quiesce" /\ Acknowledged(m)
    BY <1>1, <2>1, <2>4, SameStops DEF Acknowledged, turns
  <2>5. CASE m.op = "quiesce" /\ m.by \in Stops /\ Rejected(m) /\ ~Acknowledged(m)
    <3>1. stop' = [stop EXCEPT ![m.by].phase = "unknown"] /\ closing' = closing
      BY <2>5 DEF Rejected
    <3> QED BY <1>2, <2>1, <2>5, <3>1
  <2>6. CASE m.op # "quiesce" /\ Rejected(m) /\ ~Acknowledged(m)
    <3>1. m.by \in Calls /\ FinishIfLive(m.by, "failed") /\ closing' = closing /\ "failed" \in Results
      BY <2>1, <2>6 DEF Rejected, Messages, Results
    <3> QED BY <1>5, <2>1, <3>1
  <2>7. m.op = "quiesce" => m.by \in Stops
    BY <2>1 DEF Messages
  <2> QED BY <2>1, <2>2, <2>3, <2>4, <2>5, <2>6, <2>7
<1>18. CASE Agent /\ ~Idles
  BY <1>4, <1>18 DEF Agent, ToolStarts, ToolEnds, Errs, Streams, Handles, others
<1>19. CASE Idles
  <2>1. UNCHANGED <<compaction, closing>> /\ (UNCHANGED turns \/ (turn # None /\ \E o \in Causes(task[turn], agent.aborting) : Finish(turn, o)))
    BY <1>19 DEF Idles, Hears, others
  <2>2. Causes(task[turn], agent.aborting) \subseteq Results
    BY DEF Causes, Results
  <2> QED BY <1>1, <1>3, <1>4, <2>1, <2>2 DEF turns
<1>20. CASE UNCHANGED vars
  BY <1>4, <1>20 DEF vars, turns, others
<1> QED
  BY <1>6, <1>7, <1>8, <1>9, <1>10, <1>11, <1>12, <1>13, <1>14, <1>15, <1>16, <1>17, <1>18, <1>19, <1>20
  DEF Next, Application, Continues, Advances, Starts, Timers
-----------------------------------------------------------------------------
(* What a step does to the requests under way: the first is taken, or one is *)
(* added, which is the prompt of a run that has opened, or of no run.        *)
Adds(m) ==
    /\ m \in Messages /\ wire' = Append(wire, m)
    /\ m.op = "send" => call[m.by].phase = "opening" /\ call'[m.by].phase = "sending" /\ Opened(m.by)
    /\ m.op = "quiesce" => stop'[m.by].awaits # None
WireStep ==
    \/ wire' = wire /\ ~Takes
    \/ Takes /\ wire # <<>> /\ wire' = Tail(wire)
    \/ \E m : Adds(m)

LEMMA Added ==
    ASSUME NEW op \in {"interrupt", "quiesce", "expire", "stall", "close"}, NEW by \in Calls \cup Stops \cup {None},
           op \in {"expire", "stall"} => by \in Calls,
           op = "quiesce" => by \in Stops /\ stop'[by].awaits # None,
           Aborts(op, by), ~Takes
    PROVE  WireStep
<1> DEFINE m == Request(op, by)
<1>1. m.op = op /\ m.by = by /\ m \in Messages
  BY DEF Request, Messages
<1>2. wire' = wire \/ wire' = Append(wire, m)
  BY DEF Aborts
<1> HIDE DEF m
<1> QED BY <1>1, <1>2 DEF WireStep, Adds

LEMMA NotTaken ==
    ASSUME wire \in Seq(Messages), \/ wire' = wire
                                   \/ \E m : wire' = Append(wire, m)
    PROVE  ~Takes
<1> SUFFICES ASSUME Takes PROVE FALSE
  OBVIOUS
<1>1. wire # <<>> /\ wire' = Tail(wire)
  BY DEF Takes
<1>2. Len(wire') = Len(wire) - 1 /\ Len(wire) \in Nat
  BY <1>1
<1>3. ASSUME NEW m, wire' = Append(wire, m) PROVE FALSE
  <2>1. Len(wire') = Len(wire) + 1
    BY <1>3
  <2> QED BY <1>2, <2>1
<1> QED BY <1>2, <1>3

LEMMA WireMoves == TurnInv /\ StopsTyped /\ [Next]_vars => WireStep
<1> SUFFICES ASSUME TurnInv, StopsTyped, [Next]_vars PROVE WireStep
  OBVIOUS
<1>1. Starting /\ turn \in Calls \cup {None} /\ wire \in Seq(Messages) /\ stop \in [Stops -> StopRecords]
  BY DEF TurnInv, Turns, Queues, StopsTyped
<1>2. ASSUME wire' = wire PROVE WireStep
  BY <1>1, <1>2, NotTaken DEF WireStep
<1>3. ASSUME NEW op, NEW by, Aborts(op, by) PROVE ~Takes
  BY <1>1, <1>3, NotTaken DEF Aborts
<1>4. ASSUME NEW r \in Calls, Run(r) PROVE WireStep
  BY <1>2, <1>4 DEF Run
<1>5. ASSUME NEW c, SetModel(c) \/ Switched(c) \/ PrepareFails(c) \/ Prepared(c) \/ Resumed(c) \/ SendAnswered(c) PROVE WireStep
  BY <1>2, <1>5 DEF SetModel, Switched, PrepareFails, Prepared, Resumed, SendAnswered
<1>6. ASSUME NEW r \in Calls, Opened(r) PROVE WireStep
  <2>1. CASE wire' = wire
    BY <1>2, <2>1
  <2>2. CASE wire' # wire
    <3> DEFINE m == Request("send", r)
    <3>1. wire' = Append(wire, m) /\ Becomes(r, "sending") /\ call[r].phase = "opening"
      BY <1>6, <2>2 DEF Opened
    <3>2. m.op = "send" /\ m.by = r /\ m \in Messages
      BY DEF Request, Messages
    <3>3. call'[r].phase = "sending"
      BY <1>1, <3>1, Facts DEF Starting, Becomes
    <3> HIDE DEF m
    <3>4. Adds(m)
      BY <1>6, <3>1, <3>2, <3>3 DEF Adds
    <3> QED BY <3>4 DEF WireStep
  <2> QED BY <2>1, <2>2
<1>7. ASSUME NEW q \in Stops, Interrupt(q) PROVE WireStep
  <2>1. Aborts("interrupt", q)
    BY <1>7 DEF Interrupt
  <2> QED BY <1>3, <2>1, Added
<1>8. ASSUME NEW q \in Stops, Quiesce(q) PROVE WireStep
  <2>1. CASE wire' = wire
    BY <1>2, <2>1
  <2>2. CASE wire' # wire
    <3>1. turn # None /\ Aborts("quiesce", q)
      BY <1>8, <2>2 DEF Quiesce
    <3> DEFINE s == [phase |-> IF object = 0 THEN "waiting" ELSE "aborting", awaits |-> turn]
    <3>2. stop' = [stop EXCEPT ![q] = s]
      BY <1>8, <3>1 DEF Quiesce
    <3>3. s.awaits = turn
      OBVIOUS
    <3> HIDE DEF s
    <3>4. stop'[q].awaits # None
      BY <1>1, <3>1, <3>2, <3>3
    <3> QED BY <1>3, <3>1, <3>4, Added
  <2> QED BY <2>1, <2>2
<1>9. ASSUME NEW q \in Stops, StopTimesOut(q) \/ Retire(q) PROVE WireStep
  BY <1>2, <1>9 DEF StopTimesOut, Retire
<1>10. CASE Resume \/ Compact \/ Continues
  BY <1>2, <1>10 DEF Resume, Compact, Continues, Retired, CompactResumes, CompactEnds, Closed
<1>11. CASE Close
  <2>1. wire' = wire \/ Aborts("close", None)
    BY <1>11 DEF Close
  <2> QED BY <1>2, <1>3, <2>1, Added
<1>12. ASSUME NEW r \in Calls, Expire(r) PROVE WireStep
  <2>1. Aborts("expire", r)
    BY <1>12 DEF Expire
  <2> QED BY <1>3, <2>1, Added
<1>13. ASSUME NEW r \in Calls, Stall(r) PROVE WireStep
  <2>1. Aborts("stall", r)
    BY <1>13 DEF Stall
  <2> QED BY <1>3, <2>1, Added
<1>14. ASSUME NEW r \in Calls, Expired(r) \/ StallTimesOut(r) \/ StallRetires(r) PROVE WireStep
  BY <1>2, <1>14 DEF Expired, StallTimesOut, StallRetires
<1>15. CASE Takes
  BY <1>15 DEF Takes, WireStep
<1>16. CASE Agent
  BY <1>2, <1>16 DEF Agent, ToolStarts, ToolEnds, Errs, Streams, Idles
<1>17. CASE UNCHANGED vars
  BY <1>2, <1>17 DEF vars
<1> QED
  BY <1>4, <1>5, <1>6, <1>7, <1>8, <1>9, <1>10, <1>11, <1>12, <1>13, <1>14, <1>15, <1>16, <1>17
  DEF Next, Application, Advances, Starts, Timers

(* What a step does to a run that holds its session, or has held it: only    *)
(* its own answers move it on; no other run opens but by taking the session. *)
Underway(r) == call[r].phase \in {"opening", "sending", "sent"}
RunStep == \A r \in Calls : Underway(r) => call'[r] = call[r] \/ Opened(r) \/ SendAnswered(r)
Opening == \A r \in Calls : call'[r].phase = "opening" => call[r].phase = "opening" \/ turn' = r

LEMMA RunOfOne ==
    ASSUME Starting, NEW c \in Starters, NEW v, call' = [call EXCEPT ![c] = v],
           Fresh(c), v.phase = "opening" => turn' = c
    PROVE  RunStep /\ Opening
BY Facts DEF Starting, RunStep, Opening, Fresh, Preparing, Underway

LEMMA RunOfNone == call' = call => RunStep /\ Opening
BY DEF RunStep, Opening

LEMMA RunsMove == TurnInv /\ [Next]_vars => RunStep /\ Opening
<1> SUFFICES ASSUME TurnInv, [Next]_vars PROVE RunStep /\ Opening
  OBVIOUS
<1>1. Starting
  BY DEF TurnInv
<1> DEFINE Over0 == Call("over", None, 0)
<1>2. Over0.phase = "over"
  BY DEF Call
<1>3. ASSUME NEW c \in Starters, Over(c), Fresh(c) PROVE RunStep /\ Opening
  <2>1. call' = [call EXCEPT ![c] = Over0]
    BY <1>3 DEF Over
  <2> HIDE DEF Over0
  <2> QED BY <1>1, <1>2, <1>3, <2>1, RunOfOne
<1>4. ASSUME NEW r \in Calls, NEW o, Begins(r, o), Fresh(r) PROVE RunStep /\ Opening
  <2>1. CASE Over(r)
    BY <1>3, <1>4, <2>1, Facts
  <2>2. CASE Claims(r) /\ call' = [call EXCEPT ![r].phase = "opening", ![r].obj = o]
    <3> DEFINE v == [call[r] EXCEPT !.phase = "opening", !.obj = o]
    <3>1. call' = [call EXCEPT ![r] = v] /\ turn' = r
      BY <1>1, <2>2, Facts DEF Starting, Claims
    <3> HIDE DEF v
    <3> QED BY <1>1, <1>4, <3>1, Facts, RunOfOne
  <2> QED BY <1>4, <2>1, <2>2 DEF Begins
<1>5. ASSUME NEW r \in Calls, Run(r) PROVE RunStep /\ Opening
  <2>1. Fresh(r)
    BY <1>5 DEF Run, Fresh
  <2>2. CASE Over(r)
    BY <1>3, <2>1, <2>2, Facts
  <2>3. CASE ~Over(r)
    <3>1. PICK m \in Wishes : call' = [call EXCEPT ![r] =
                 IF object = 0 THEN Call("resuming", m, 0)
                 ELSE Call(IF m \in {None, record} THEN "preparing" ELSE "switching", m, object)]
      BY <1>5, <2>3 DEF Run
    <3> DEFINE v == IF object = 0 THEN Call("resuming", m, 0)
                    ELSE Call(IF m \in {None, record} THEN "preparing" ELSE "switching", m, object)
    <3>2. v.phase # "opening" /\ call' = [call EXCEPT ![r] = v]
      BY <3>1 DEF Call
    <3> HIDE DEF v
    <3> QED BY <1>1, <2>1, <3>2, Facts, RunOfOne
  <2> QED BY <2>2, <2>3
<1>6. ASSUME NEW c \in Setters, SetModel(c) PROVE RunStep /\ Opening
  <2>1. PICK m : call' = [call EXCEPT ![c] = Call("switching", m, object)]
    BY <1>6 DEF SetModel
  <2> DEFINE v == Call("switching", m, object)
  <2>2. v.phase # "opening" /\ call' = [call EXCEPT ![c] = v] /\ Fresh(c)
    BY <1>6, <2>1 DEF Call, SetModel, Fresh
  <2> HIDE DEF v
  <2> QED BY <1>1, <2>2, Facts, RunOfOne
<1>7. ASSUME NEW c \in Starters, Switched(c) PROVE RunStep /\ Opening
  <2>1. Fresh(c) /\ (Over(c) \/ Becomes(c, "validating"))
    BY <1>7 DEF Switched, Fresh, Preparing
  <2>2. CASE Becomes(c, "validating")
    <3> DEFINE v == [call[c] EXCEPT !.phase = "validating"]
    <3>1. v.phase # "opening" /\ call' = [call EXCEPT ![c] = v]
      BY <1>1, <2>2 DEF Becomes, Starting
    <3> HIDE DEF v
    <3> QED BY <1>1, <2>1, <3>1, RunOfOne
  <2> QED BY <1>3, <2>1, <2>2
<1>8. ASSUME NEW c \in Starters, Prepared(c) \/ PrepareFails(c) PROVE RunStep /\ Opening
  <2>1. Fresh(c) /\ (Over(c) \/ (c \in Calls /\ Begins(c, call[c].obj)))
    BY <1>8 DEF Prepared, PrepareFails, Fresh, Preparing
  <2> QED BY <1>3, <1>4, <2>1
<1>9. ASSUME NEW r \in Calls, Resumed(r) PROVE RunStep /\ Opening
  <2>1. Fresh(r) /\ (Over(r) \/ Begins(r, opened'))
    BY <1>9 DEF Resumed, Fresh, Preparing
  <2> QED BY <1>3, <1>4, <2>1, Facts
<1>10. ASSUME NEW r \in Calls, Opened(r) \/ SendAnswered(r) PROVE RunStep /\ Opening
  <2>1. \E v : call' = [call EXCEPT ![r] = v] /\ v.phase # "opening"
    <3>1. CASE Over(r)
      BY <1>2, <3>1 DEF Over
    <3>2. ASSUME NEW p \in {"sending", "sent"}, Becomes(r, p) PROVE \E v : call' = [call EXCEPT ![r] = v] /\ v.phase # "opening"
      <4> DEFINE v == [call[r] EXCEPT !.phase = p]
      <4>1. v.phase = p /\ call' = [call EXCEPT ![r] = v]
        BY <1>1, <3>2, Facts DEF Becomes, Starting
      <4> HIDE DEF v
      <4> QED BY <4>1
    <3> QED BY <1>10, <3>1, <3>2 DEF Opened, SendAnswered
  <2> QED BY <1>1, <1>10, <2>1, Facts DEF Starting, RunStep, Opening
<1>11. ASSUME call' = call PROVE RunStep /\ Opening
  BY <1>11, RunOfNone
<1>12. ASSUME NEW q \in Stops, Quiesce(q) \/ Interrupt(q) \/ StopTimesOut(q) \/ Retire(q) PROVE RunStep /\ Opening
  BY <1>11, <1>12 DEF Quiesce, Interrupt, StopTimesOut, Retire
<1>13. CASE Resume \/ Compact \/ Close \/ Continues \/ Takes
  BY <1>11, <1>13 DEF Resume, Compact, Close, Continues, Retired, CompactResumes, CompactEnds, Closed, Takes
<1>14. ASSUME NEW r \in Calls, Timers(r) PROVE RunStep /\ Opening
  BY <1>11, <1>14 DEF Timers, Expire, Expired, Stall, StallTimesOut, StallRetires
<1>15. CASE Agent
  BY <1>11, <1>15 DEF Agent, ToolStarts, ToolEnds, Errs, Streams, Idles
<1>16. CASE UNCHANGED vars
  BY <1>11, <1>16 DEF vars
<1> QED
  BY <1>5, <1>6, <1>7, <1>8, <1>9, <1>10, <1>12, <1>13, <1>14, <1>15, <1>16, Facts
  DEF Next, Application, Advances, Starts
-----------------------------------------------------------------------------
(* Where the prompt of a run is: on its way, in the process, or ended there. *)
Entry(s, x) == \E i \in 1..Len(s) : s[i] = x
Once(s, x) == \A i, j \in 1..Len(s) : s[i] = x /\ s[j] = x => i = j

LEMMA AppendEntries ==
    ASSUME NEW C, NEW s \in Seq(C), NEW x \in C
    PROVE  /\ \A y : Entry(Append(s, x), y) => Entry(s, y) \/ y = x
           /\ Distinct(s) /\ ~Entry(s, x) => Distinct(Append(s, x))
           /\ \A y : Once(s, y) /\ (y # x \/ ~Entry(s, y)) => Once(Append(s, x), y)
<1> DEFINE w == Append(s, x)
<1>1. /\ Len(s) \in Nat /\ Len(w) = Len(s) + 1
      /\ \A i \in 1..Len(s) : w[i] = s[i]
      /\ w[Len(s) + 1] = x
  OBVIOUS
<1> HIDE DEF w
<1>2. \A i \in 1..Len(w) : i \in 1..Len(s) \/ i = Len(s) + 1
  BY <1>1
<1>3. \A y : Entry(w, y) => Entry(s, y) \/ y = x
  BY <1>1, <1>2 DEF Entry
<1>4. Distinct(s) /\ ~Entry(s, x) => Distinct(w)
  BY <1>1, <1>2 DEF Entry, Distinct
<1>5. \A y : Once(s, y) /\ (y # x \/ ~Entry(s, y)) => Once(w, y)
  BY <1>1, <1>2 DEF Entry, Once
<1> QED BY <1>3, <1>4, <1>5 DEF w

LEMMA TailEntries ==
    ASSUME NEW C, NEW s \in Seq(C), s # <<>>
    PROVE  /\ Entry(s, Head(s)) /\ Head(s) = s[1]
           /\ \A y : Entry(Tail(s), y) => Entry(s, y)
           /\ Distinct(s) => Distinct(Tail(s)) /\ ~Entry(Tail(s), Head(s))
           /\ \A y : Once(s, y) => Once(Tail(s), y) /\ (Head(s) = y => ~Entry(Tail(s), y))
<1> DEFINE w == Tail(s)
<1>1. /\ Len(s) \in Nat /\ Len(s) > 0 /\ Len(w) = Len(s) - 1 /\ Head(s) = s[1]
      /\ \A i \in 1..Len(w) : w[i] = s[i + 1]
  OBVIOUS
<1> HIDE DEF w
<1>2. \A i \in 1..Len(w) : i + 1 \in 1..Len(s) /\ i + 1 # 1
  BY <1>1
<1>3. 1 \in 1..Len(s) /\ Entry(s, Head(s))
  BY <1>1 DEF Entry
<1>4. \A y : Entry(w, y) => Entry(s, y)
  BY <1>1, <1>2 DEF Entry
<1>5. ASSUME Distinct(s) PROVE Distinct(w) /\ ~Entry(w, Head(s))
  <2>1. ASSUME NEW i \in 1..Len(w), NEW j \in 1..Len(w), w[i] = w[j] PROVE i = j
    <3>1. i + 1 = j + 1
      BY <1>1, <1>2, <1>5, <2>1 DEF Distinct
    <3> QED BY <1>1, <3>1
  <2>2. ASSUME NEW i \in 1..Len(w), w[i] = Head(s) PROVE FALSE
    BY <1>1, <1>2, <1>3, <1>5, <2>2 DEF Distinct
  <2> QED BY <2>1, <2>2 DEF Distinct, Entry
<1>6. ASSUME NEW y, Once(s, y) PROVE Once(w, y) /\ (Head(s) = y => ~Entry(w, y))
  <2>1. ASSUME NEW i \in 1..Len(w), NEW j \in 1..Len(w), w[i] = y, w[j] = y PROVE i = j
    <3>1. i + 1 = j + 1
      BY <1>1, <1>2, <1>6, <2>1 DEF Once
    <3> QED BY <1>1, <3>1
  <2>2. ASSUME NEW i \in 1..Len(w), w[i] = y, Head(s) = y PROVE FALSE
    BY <1>1, <1>2, <1>3, <1>6, <2>2 DEF Once
  <2> QED BY <2>1, <2>2 DEF Once, Entry
<1> QED BY <1>1, <1>3, <1>4, <1>5, <1>6 DEF w

OnWire(r) == Entry(wire, Request("send", r))
Prompted(r) == Entry(agent.prompts, r)
Arrives(r) == Takes /\ wire # <<>> /\ Head(wire) = Request("send", r) /\ call[r].obj \in connected
Pending ==
    /\ \A r \in Calls : OnWire(r) \/ Prompted(r) \/ ended[r] # "no" => call[r].phase \in {"sending", "sent"}
    /\ \A r \in Calls : Prompted(r) => ~OnWire(r) /\ ended[r] = "no" /\ call[r].obj \in connected
    /\ \A r \in Calls : ended[r] # "no" => ~OnWire(r)
    /\ \A r \in Calls : Once(wire, Request("send", r))
    /\ Distinct(agent.prompts)

(* A prompt gets on its way when its run has opened, and only once.          *)
Sends ==
    \A r \in Calls :
        /\ OnWire(r)' => OnWire(r) \/ (call[r].phase = "opening" /\ call'[r].phase = "sending")
        /\ Once(wire, Request("send", r))'
        /\ Arrives(r) => OnWire(r) /\ ~OnWire(r)'

LEMMA SendsStep == TurnInv /\ StopsTyped /\ Pending /\ [Next]_vars => Sends
<1> SUFFICES ASSUME TurnInv, StopsTyped, Pending, [Next]_vars, NEW r \in Calls
             PROVE  /\ OnWire(r)' => OnWire(r) \/ (call[r].phase = "opening" /\ call'[r].phase = "sending")
                    /\ Once(wire, Request("send", r))'
                    /\ Arrives(r) => OnWire(r) /\ ~OnWire(r)'
  BY DEF Sends
<1> DEFINE x == Request("send", r)
<1>1. WireStep /\ wire \in Seq(Messages)
  BY WireMoves DEF TurnInv, Queues
<1>2. Once(wire, x) /\ (call[r].phase = "opening" => ~Entry(wire, x))
  BY DEF Pending, OnWire
<1>3. x.op = "send" /\ x.by = r
  BY DEF Request
<1> HIDE DEF x
<1>4. CASE wire' = wire /\ ~Takes
  BY <1>2, <1>4 DEF OnWire, Arrives, x
<1>5. CASE Takes /\ wire # <<>> /\ wire' = Tail(wire)
  <2>1. /\ Entry(wire, Head(wire)) /\ (Entry(wire', x) => Entry(wire, x))
        /\ Once(wire', x) /\ (Head(wire) = x => ~Entry(wire', x))
    BY <1>1, <1>2, <1>5, TailEntries
  <2> QED BY <2>1 DEF OnWire, Arrives, x
<1>6. ASSUME NEW m, Adds(m) PROVE /\ Entry(wire', x) => Entry(wire, x) \/ (call[r].phase = "opening" /\ call'[r].phase = "sending")
                                  /\ Once(wire', x) /\ ~Takes
  <2>1. m \in Messages /\ wire' = Append(wire, m)
        /\ (m = x => call[r].phase = "opening" /\ call'[r].phase = "sending")
    BY <1>3, <1>6 DEF Adds
  <2>2. (Entry(wire', x) => Entry(wire, x) \/ x = m) /\ (x # m \/ ~Entry(wire, x) => Once(wire', x))
    BY <1>1, <1>2, <2>1, AppendEntries
  <2>3. ~Takes
    BY <1>1, <2>1, NotTaken
  <2> QED BY <1>2, <2>1, <2>2, <2>3
<1> QED BY <1>1, <1>4, <1>5, <1>6 DEF WireStep, OnWire, Arrives, x

(* A prompt is in the process from its arrival until it ends there, or the   *)
(* object it was sent through is disconnected, or its run takes it back.     *)
PromptStep ==
    /\ \A r \in Calls : Prompted(r)' => /\ Prompted(r) \/ Arrives(r)
                                        /\ call[r].obj \in connected => call[r].obj \in connected'
    /\ Distinct(agent.prompts)'
    /\ \A r \in Calls : ended'[r] = ended[r] \/ (Prompted(r) /\ ~Prompted(r)')

LEMMA PromptsStay ==
    ASSUME Pending, agent'.prompts = agent.prompts, connected \subseteq connected', ended' = ended
    PROVE  PromptStep
BY DEF Pending, PromptStep, Prompted

LEMMA PromptsLeave ==
    ASSUME agent \in AgentRecords, Pending, NEW P, Thinned(agent', P), ended' = ended,
           \A r \in Calls : r \notin P => (call[r].obj \in connected => call[r].obj \in connected')
    PROVE  PromptStep /\ \A r \in P : ~Prompted(r)'
<1>1. ASSUME NEW r, Prompted(r)' PROVE Prompted(r) /\ r \notin P
  BY <1>1 DEF Thinned, Prompted, Entry
<1>2. Distinct(agent.prompts)'
  BY DEF Thinned, Pending
<1> QED BY <1>1, <1>2 DEF PromptStep

LEMMA PromptsDisconnected ==
    ASSUME agent \in AgentRecords, Pending, NEW O, Disconnected(O), ended' = ended
    PROVE  PromptStep
<1>1. connected' = connected \ O /\ Thinned(agent', {r \in Calls : call[r].obj \in O})
  BY DisconnectedThins
<1> QED BY <1>1, PromptsLeave

LEMMA SendFails ==
    ASSUME agent \in AgentRecords, Starting, wire \in Seq(Messages), NEW r \in Calls, SendAnswered(r)
    PROVE  /\ ~OnWire(r) /\ ended' = ended
           /\ \/ call'[r].phase = "sent" /\ call'[r].obj = call[r].obj
              \/ ended[r] = "no" /\ ~Prompted(r)'
<1>1. ended' = ended
  BY DEF SendAnswered, history
<1>2. ~OnWire(r)
  <2>1. Request("send", r) \notin Range(wire)
    BY DEF SendAnswered
  <2> QED BY <2>1 DEF OnWire, Entry, Range
<1>3. CASE Becomes(r, "sent")
  BY <1>1, <1>2, <1>3, Facts DEF Becomes, Starting
<1>4. CASE ~Becomes(r, "sent")
  <2>1. ended[r] = "no" /\ agent' = WithoutPrompts({r})
    BY <1>4 DEF SendAnswered
  <2>2. Thinned(agent', {r})
    BY <2>1, PromptsThinned
  <2>3. ~Prompted(r)'
    BY <2>2 DEF Thinned, Prompted, Entry
  <2> QED BY <1>1, <1>2, <2>1, <2>3
<1> QED BY <1>3, <1>4

LEMMA PromptsMove == TurnInv /\ Objects /\ TypesOfAgent /\ Pending /\ [Next]_vars => PromptStep
<1> SUFFICES ASSUME TurnInv, Objects, TypesOfAgent, Pending, [Next]_vars PROVE PromptStep
  OBVIOUS
<1>1. Starting /\ wire \in Seq(Messages) /\ agent \in AgentRecords /\ agent.prompts \in Seq(Calls)
      /\ connected \subseteq 1..opened /\ opened \in Nat
  BY DEF TurnInv, Queues, TypesOfAgent, AgentRecords, Objects, Starting
<1>2. ASSUME agent' = agent, connected' = connected, ended' = ended PROVE PromptStep
  BY <1>2, PromptsStay
<1>3. ASSUME NEW m, Opens(m), ended' = ended PROVE PromptStep
  <2>1. agent' = [agent EXCEPT !.model = m] /\ connected \subseteq connected'
    BY <1>3 DEF Opens
  <2>2. agent'.prompts = agent.prompts
    BY <1>1, <2>1 DEF AgentRecords
  <2> QED BY <1>3, <2>1, <2>2, PromptsStay
<1>4. ASSUME NEW O, Disconnected(O), ended' = ended PROVE PromptStep
  BY <1>1, <1>4, PromptsDisconnected
<1>5. ASSUME NEW r \in Calls, Run(r) PROVE PromptStep
  BY <1>2, <1>5 DEF Run, tables
<1>6. ASSUME NEW c \in Setters, SetModel(c) PROVE PromptStep
  BY <1>2, <1>6 DEF SetModel, tables
<1>7. ASSUME NEW c, Switched(c) PROVE PromptStep
  <2>1. connected' = connected /\ ended' = ended
    BY <1>7 DEF Switched, tables, history
  <2>2. agent'.prompts = agent.prompts
    BY <1>1, <1>7 DEF Switched, AgentRecords
  <2> QED BY <2>1, <2>2, PromptsStay
<1>8. ASSUME NEW c, Prepared(c) PROVE PromptStep
  BY <1>2, <1>8 DEF Prepared, history
<1>9. ASSUME NEW c, PrepareFails(c) PROVE PromptStep
  BY <1>4, <1>9 DEF PrepareFails, history
<1>10. ASSUME NEW r, Resumed(r) PROVE PromptStep
  BY <1>2, <1>3, <1>10 DEF Resumed, CannotOpen, tables, history
<1>11. ASSUME NEW r, Opened(r) PROVE PromptStep
  BY <1>2, <1>11 DEF Opened, tables, history
<1>12. ASSUME NEW r \in Calls, SendAnswered(r) PROVE PromptStep
  <2>1. connected' = connected /\ ended' = ended /\ (agent' = agent \/ agent' = WithoutPrompts({r}))
    BY <1>12 DEF SendAnswered, tables, history
  <2>2. CASE agent' = WithoutPrompts({r})
    <3>1. Thinned(agent', {r})
      BY <1>1, <2>2, PromptsThinned
    <3> QED BY <1>1, <2>1, <3>1, PromptsLeave
  <2> QED BY <1>2, <2>1, <2>2
<1>13. ASSUME NEW q \in Stops, Quiesce(q) \/ Interrupt(q) \/ StopTimesOut(q) \/ Retire(q) PROVE PromptStep
  BY <1>2, <1>13 DEF Quiesce, Interrupt, StopTimesOut, Retire, tables, history
<1>14. CASE Retired
  BY <1>2, <1>4, <1>14 DEF Retired, tables, history
<1>15. CASE Resume \/ CompactResumes
  BY <1>2, <1>3, <1>15 DEF Resume, CompactResumes, CannotOpen
<1>16. CASE Compact \/ CompactEnds \/ Close
  BY <1>2, <1>16 DEF Compact, CompactEnds, Close, tables, history
<1>17. CASE Closed
  BY <1>4, <1>17 DEF Closed, history
<1>18. ASSUME NEW r \in Calls, Expire(r) \/ Expired(r) \/ Stall(r) \/ StallTimesOut(r) PROVE PromptStep
  BY <1>2, <1>18 DEF Expire, Expired, Stall, StallTimesOut, tables, history
<1>19. ASSUME NEW r \in Calls, StallRetires(r) PROVE PromptStep
  BY <1>4, <1>19 DEF StallRetires, history
<1>20. CASE Takes
  <2>1. connected' = connected /\ ended' = ended /\ wire # <<>> /\ Head(wire) \in Messages
    BY <1>1, <1>20, HeadTailProperties DEF Takes, tables, history
  <2> DEFINE m == Head(wire)
  <2>2. CASE m.op = "send" /\ call[m.by].obj \in connected
    <3>1. agent' = [agent EXCEPT !.prompts = Append(@, m.by)] /\ m.by \in Calls /\ m = Request("send", m.by)
      BY <1>20, <2>1, <2>2 DEF Takes, Messages, Request
    <3>2. agent'.prompts = Append(agent.prompts, m.by)
      BY <1>1, <3>1 DEF AgentRecords
    <3>3. Arrives(m.by) /\ OnWire(m.by)
      <4>1. Entry(wire, m)
        BY <1>1, <2>1, TailEntries
      <4> QED BY <1>20, <2>1, <2>2, <3>1, <4>1 DEF Arrives, OnWire
    <3>4. ~Prompted(m.by)
      BY <3>1, <3>3 DEF Pending
    <3>5. Distinct(agent.prompts)'
      BY <1>1, <3>1, <3>2, <3>4, AppendEntries DEF Pending, Prompted
    <3>6. \A y : Prompted(y)' => Prompted(y) \/ y = m.by
      BY <1>1, <3>1, <3>2, AppendEntries DEF Prompted
    <3> QED BY <2>1, <3>3, <3>5, <3>6 DEF PromptStep
  <2>3. CASE ~(m.op = "send" /\ call[m.by].obj \in connected)
    <3>1. agent' = agent \/ agent' = [agent EXCEPT !.aborting = @ \/ (Working /\ connected # {})]
      BY <1>20, <2>3 DEF Takes
    <3>2. agent'.prompts = agent.prompts
      BY <1>1, <3>1 DEF AgentRecords
    <3> QED BY <2>1, <3>2, PromptsStay
  <2> QED BY <2>2, <2>3
<1>21. CASE Agent /\ ~Idles
  <2>1. connected' = connected /\ ended' = ended
    BY <1>21 DEF Agent, ToolStarts, ToolEnds, Errs, Streams, tables, history
  <2>2. agent'.prompts = agent.prompts
    BY <1>1, <1>21 DEF Agent, ToolStarts, ToolEnds, Errs, Streams, AgentRecords
  <2> QED BY <2>1, <2>2, PromptsStay
<1>22. CASE Idles
  <2>1. connected' = connected /\ agent.prompts # <<>> /\ agent' = [Idle(agent) EXCEPT !.prompts = Tail(@)]
    BY <1>22 DEF Idles, Working, tables
  <2>2. agent'.prompts = Tail(agent.prompts)
    BY <1>1, <2>1 DEF AgentRecords, Idle
  <2> PICK h : h = Head(agent.prompts)
    OBVIOUS
  <2>3. /\ Prompted(h) /\ (\A y : Prompted(y)' => Prompted(y))
        /\ Distinct(agent.prompts)' /\ ~Prompted(h)'
    BY <1>1, <2>1, <2>2, TailEntries DEF Prompted, Pending
  <2>4. ended' = [ended EXCEPT ![h] =
                   IF agent.aborting THEN "interrupted" ELSE IF agent.failed THEN "error" ELSE "completed"]
    BY <1>22 DEF Idles
  <2>5. \A r \in Calls : r # h => ended'[r] = ended[r]
    BY <2>4 DEF TypesOfAgent
  <2> QED BY <2>1, <2>3, <2>5 DEF PromptStep
<1>23. CASE UNCHANGED vars
  BY <1>2, <1>23 DEF vars, tables, history
<1> QED
  BY <1>5, <1>6, <1>7, <1>8, <1>9, <1>10, <1>11, <1>12, <1>13, <1>14, <1>15, <1>16, <1>17, <1>18, <1>19, <1>20,
     <1>21, <1>22, <1>23
  DEF Next, Application, Continues, Advances, Starts, Timers

LEMMA PendingStep == TurnInv /\ Objects /\ TypesOfAgent /\ StopsTyped /\ Pending /\ [Next]_vars => Pending'
<1> SUFFICES ASSUME TurnInv, Objects, TypesOfAgent, StopsTyped, Pending, [Next]_vars PROVE Pending'
  OBVIOUS
<1>1. Sends /\ PromptStep /\ RunStep /\ Starting /\ agent \in AgentRecords /\ wire \in Seq(Messages)
  BY SendsStep, PromptsMove, RunsMove DEF TurnInv, TypesOfAgent, Queues
<1>2. ASSUME NEW r \in Calls
      PROVE  /\ OnWire(r)' \/ Prompted(r)' \/ ended'[r] # "no" => call'[r].phase \in {"sending", "sent"}
             /\ Prompted(r)' => ~OnWire(r)' /\ ended'[r] = "no" /\ call'[r].obj \in connected'
             /\ ended'[r] # "no" => ~OnWire(r)'
  <2>1. /\ OnWire(r) \/ Prompted(r) \/ ended[r] # "no" => call[r].phase \in {"sending", "sent"}
        /\ Prompted(r) => ~OnWire(r) /\ ended[r] = "no" /\ call[r].obj \in connected
        /\ ended[r] # "no" => ~OnWire(r)
    BY DEF Pending
  <2>2. /\ OnWire(r)' => OnWire(r) \/ (call[r].phase = "opening" /\ call'[r].phase = "sending")
        /\ Arrives(r) => OnWire(r) /\ ~OnWire(r)' /\ call[r].obj \in connected
    BY <1>1 DEF Sends, Arrives
  <2>3. /\ Prompted(r)' => Prompted(r) \/ Arrives(r)
        /\ Prompted(r)' /\ call[r].obj \in connected => call[r].obj \in connected'
        /\ ended'[r] = ended[r] \/ (Prompted(r) /\ ~Prompted(r)')
    BY <1>1 DEF PromptStep
  <2>4. call[r].phase \in {"sending", "sent"} =>
            \/ call'[r] = call[r]
            \/ call'[r].phase = "sent" /\ call'[r].obj = call[r].obj /\ ~OnWire(r)
            \/ ended[r] = "no" /\ ended' = ended /\ ~Prompted(r)' /\ ~OnWire(r)
    <3>1. CASE SendAnswered(r)
      BY <1>1, <3>1, SendFails
    <3>2. CASE call[r].phase \in {"sending", "sent"} /\ ~SendAnswered(r)
      <4>1. ~Opened(r)
        BY <3>2 DEF Opened
      <4> QED BY <1>1, <3>2, <4>1 DEF RunStep, Underway
    <3> QED BY <3>1, <3>2
  <2> QED BY <2>1, <2>2, <2>3, <2>4
<1>3. (\A r \in Calls : Once(wire, Request("send", r))') /\ Distinct(agent.prompts)'
  BY <1>1 DEF Sends, PromptStep
<1> QED BY <1>2, <1>3 DEF Pending
-----------------------------------------------------------------------------
(* The turn that is live knows of the tool that runs for it, and of what     *)
(* went wrong with its prompt.                                               *)
Work ==
    /\ agent.prompts = <<>> => agent.tool = None /\ ~agent.failed
    /\ agent.prompts # <<>> /\ Head(agent.prompts) = turn =>
          /\ agent.tool # None => agent.tool \in task[turn].tools /\ task[turn].progress = "off"
          /\ agent.failed => task[turn].error

LEMMA AgentGoesOn ==
    TurnInv /\ TypesOfAgent /\ Work /\ [Next]_vars => GoesOn(agent') \/ ToolEnds \/ Errs \/ \E k \in Tools : ToolStarts(k)
<1> SUFFICES ASSUME TurnInv, TypesOfAgent, Work, [Next]_vars
             PROVE  GoesOn(agent') \/ ToolEnds \/ Errs \/ \E k \in Tools : ToolStarts(k)
  OBVIOUS
<1>1. agent \in AgentRecords /\ wire \in Seq(Messages) /\ agent.prompts \in Seq(Calls)
  BY DEF TurnInv, Queues, TypesOfAgent, AgentRecords
<1>2. ASSUME agent' = agent PROVE GoesOn(agent')
  BY <1>2 DEF GoesOn
<1>3. ASSUME NEW m, Opens(m) PROVE GoesOn(agent')
  BY <1>1, <1>3 DEF Opens, GoesOn, AgentRecords
<1>4. ASSUME NEW O, Disconnected(O) PROVE GoesOn(agent')
  BY <1>1, <1>4, DisconnectedThins DEF Thinned
<1>5. ASSUME NEW r \in Calls, Run(r) PROVE GoesOn(agent')
  BY <1>2, <1>5 DEF Run
<1>6. ASSUME NEW c, SetModel(c) \/ Prepared(c) \/ Opened(c) PROVE GoesOn(agent')
  BY <1>2, <1>6 DEF SetModel, Prepared, Opened
<1>7. ASSUME NEW c, Switched(c) PROVE GoesOn(agent')
  BY <1>1, <1>7 DEF Switched, GoesOn, AgentRecords
<1>8. ASSUME NEW c, PrepareFails(c) PROVE GoesOn(agent')
  BY <1>4, <1>8 DEF PrepareFails
<1>9. ASSUME NEW r, Resumed(r) PROVE GoesOn(agent')
  BY <1>2, <1>3, <1>9 DEF Resumed, CannotOpen
<1>10. ASSUME NEW r, SendAnswered(r) PROVE GoesOn(agent')
  <2>1. agent' = agent \/ agent' = WithoutPrompts({r})
    BY <1>10 DEF SendAnswered
  <2> QED BY <1>1, <1>2, <2>1, PromptsThinned DEF Thinned
<1>11. ASSUME NEW q \in Stops, Quiesce(q) \/ Interrupt(q) \/ StopTimesOut(q) \/ Retire(q) PROVE GoesOn(agent')
  BY <1>2, <1>11 DEF Quiesce, Interrupt, StopTimesOut, Retire
<1>12. CASE Retired \/ Closed
  BY <1>2, <1>4, <1>12 DEF Retired, Closed
<1>13. CASE Resume \/ CompactResumes
  BY <1>2, <1>3, <1>13 DEF Resume, CompactResumes, CannotOpen
<1>14. CASE Compact \/ CompactEnds \/ Close
  BY <1>2, <1>14 DEF Compact, CompactEnds, Close
<1>15. ASSUME NEW r \in Calls, Expire(r) \/ Expired(r) \/ Stall(r) \/ StallTimesOut(r) PROVE GoesOn(agent')
  BY <1>2, <1>15 DEF Expire, Expired, Stall, StallTimesOut
<1>16. ASSUME NEW r \in Calls, StallRetires(r) PROVE GoesOn(agent')
  BY <1>4, <1>16 DEF StallRetires
<1>17. CASE Takes
  <2>1. wire # <<>> /\ Head(wire) \in Messages
    BY <1>1, <1>17, HeadTailProperties DEF Takes
  <2> DEFINE m == Head(wire)
  <2>2. CASE m.op = "send" /\ call[m.by].obj \in connected
    <3>1. agent' = [agent EXCEPT !.prompts = Append(@, m.by)] /\ m.by \in Calls
      BY <1>17, <2>1, <2>2 DEF Takes, Messages
    <3>2. agent'.prompts = Append(agent.prompts, m.by) /\ agent'.tool = agent.tool /\ agent'.failed = agent.failed
      BY <1>1, <3>1 DEF AgentRecords
    <3>3. CASE agent.prompts = <<>>
      BY <3>2, <3>3 DEF Work, GoesOn
    <3>4. CASE agent.prompts # <<>>
      <4>1. agent'.prompts # <<>> /\ Head(agent'.prompts) = Head(agent.prompts)
        BY <1>1, <3>1, <3>2, <3>4
      <4> QED BY <3>2, <3>4, <4>1 DEF GoesOn
    <3> QED BY <3>3, <3>4
  <2>3. CASE ~(m.op = "send" /\ call[m.by].obj \in connected)
    <3>1. agent' = agent \/ agent' = [agent EXCEPT !.aborting = @ \/ (Working /\ connected # {})]
      BY <1>17, <2>3 DEF Takes
    <3> QED BY <1>1, <3>1 DEF AgentRecords, GoesOn
  <2> QED BY <2>2, <2>3
<1>18. CASE Streams
  BY <1>2, <1>18 DEF Streams
<1>19. CASE Idles
  <2>1. agent' = [Idle(agent) EXCEPT !.prompts = Tail(@)]
    BY <1>19 DEF Idles
  <2>2. agent'.tool = None /\ agent'.failed = FALSE
    BY <1>1, <2>1 DEF AgentRecords, Idle
  <2>3. ~agent'.failed
    BY <2>2, Zenon
  <2> QED BY <2>2, <2>3 DEF GoesOn
<1>20. CASE UNCHANGED vars
  BY <1>2, <1>20 DEF vars
<1> QED
  BY <1>5, <1>6, <1>7, <1>8, <1>9, <1>10, <1>11, <1>12, <1>13, <1>14, <1>15, <1>16, <1>17, <1>18, <1>19, <1>20
  DEF Next, Application, Continues, Advances, Starts, Timers, Agent

LEMMA WorkStep ==
    TurnInv /\ Objects /\ TypesOfAgent /\ TasksTyped /\ Pending /\ Work /\ [Next]_vars => Work'
<1> SUFFICES ASSUME TurnInv, Objects, TypesOfAgent, TasksTyped, Pending, Work, [Next]_vars PROVE Work'
  OBVIOUS
<1>1. /\ agent \in AgentRecords /\ agent' \in AgentRecords /\ agent.prompts \in Seq(Calls)
      /\ TurnStep /\ TaskStep /\ turn \in Calls \cup {None}
      /\ task \in [Calls -> TaskRecords] /\ None \notin Calls /\ None \notin Tools
  BY AgentTyped, TurnsMove, TasksMove, Facts DEF TurnInv, TypesOfAgent, AgentRecords, Turns, TasksTyped
<1>2. ASSUME agent.prompts # <<>>
      PROVE  /\ Head(agent.prompts) \in Calls /\ ~Fresh(Head(agent.prompts))
             /\ call[Head(agent.prompts)].obj \in connected
  <2>1. Head(agent.prompts) \in Calls /\ Prompted(Head(agent.prompts))
    BY <1>1, <1>2, TailEntries, HeadTailProperties DEF Prompted
  <2> QED BY <2>1 DEF Pending, Fresh, Preparing
<1>3. CASE GoesOn(agent') /\ ~ToolEnds
  <2>1. CASE agent'.tool = None /\ ~agent'.failed
    BY <2>1 DEF Work
  <2>2. CASE agent'.tool # None \/ agent'.failed
    <3>1. agent'.tool = agent.tool /\ agent'.failed = agent.failed /\ agent.prompts # <<>>
      BY <1>3, <2>2 DEF GoesOn, Work
    <3>2. agent'.prompts # <<>> /\ Head(agent'.prompts) = Head(agent.prompts)
      BY <1>3, <2>2, <3>1 DEF GoesOn
    <3>3. ASSUME Head(agent.prompts) = turn' PROVE turn' = turn /\ Kept(task[turn], task'[turn])
      <4>1. turn' = turn
        <5>1. turn' \in Calls /\ ~Fresh(turn')
          BY <1>2, <3>1, <3>3
        <5> QED BY <1>1, <5>1 DEF TurnStep, Claimed, Finished
      <4>2. turn \in Calls
        BY <1>2, <3>1, <3>3, <4>1
      <4> QED BY <1>1, <1>3, <4>1, <4>2 DEF TaskStep, GoesOnAs, Claimed
    <3>4. ASSUME Head(agent.prompts) = turn'
          PROVE  /\ agent.tool # None => agent.tool \in task'[turn'].tools /\ task'[turn'].progress = "off"
                 /\ agent.failed => task'[turn'].error
      <4>1. /\ agent.tool # None => agent.tool \in task[turn].tools /\ task[turn].progress = "off"
            /\ agent.failed => task[turn].error
        BY <3>1, <3>3, <3>4 DEF Work
      <4> QED BY <3>3, <3>4, <4>1 DEF Kept
    <3> QED BY <3>1, <3>2, <3>4 DEF Work
  <2> QED BY <2>1, <2>2
<1>4. ASSUME NEW t, Handles(t), agent.prompts # <<>>, agent'.prompts = agent.prompts, Head(agent'.prompts) = turn'
      PROVE  /\ turn' = turn /\ turn \in Calls /\ task'[turn'] = Armed(t) /\ task[turn] \in TaskRecords
             /\ agent.tool # None => agent.tool \in task[turn].tools
             /\ agent.failed => task[turn].error
  <2>1. turn' = turn /\ turn \in Calls
    BY <1>2, <1>4 DEF Handles
  <2>2. Hears
    BY <1>1, <1>2, <1>4, <2>1 DEF Hears
  <2>3. task'[turn'] = Armed(t)
    BY <1>1, <1>4, <2>1, <2>2 DEF Handles
  <2> QED BY <1>1, <1>4, <2>1, <2>3 DEF Work
<1>5. ASSUME NEW k \in Tools, ToolStarts(k) PROVE Work'
  <2> DEFINE T == task[turn].tools \cup {k}
             t == [task[turn] EXCEPT !.tools = T]
  <2>1. agent.prompts # <<>> /\ agent' = [agent EXCEPT !.tool = k] /\ Handles(t)
    BY <1>5 DEF ToolStarts, Working
  <2>2. agent'.prompts = agent.prompts /\ agent'.tool = k /\ agent'.failed = agent.failed
    BY <1>1, <2>1 DEF AgentRecords
  <2>3. ASSUME task[turn] \in TaskRecords
        PROVE  k \in Armed(t).tools /\ Armed(t).progress = "off" /\ Armed(t).error = task[turn].error
    <3>1. T \in SUBSET Tools /\ k \in T
      BY <2>3 DEF TaskRecords
    <3> HIDE DEF T
    <3>2. t \in TaskRecords /\ t.tools = T /\ t.error = task[turn].error
      BY <2>3, <3>1, ToolsEdit
    <3> HIDE DEF t
    <3> QED BY <3>1, <3>2, TaskEdits
  <2> HIDE DEF t
  <2>4. ASSUME Head(agent'.prompts) = turn'
        PROVE  k \in task'[turn'].tools /\ task'[turn'].progress = "off" /\ (agent.failed => task'[turn'].error)
    <3>1. /\ task'[turn'] = Armed(t) /\ task[turn] \in TaskRecords
          /\ agent.failed => task[turn].error
      BY <1>4, <2>1, <2>2, <2>4
    <3> QED BY <2>3, <3>1
  <2> QED BY <2>1, <2>2, <2>4 DEF Work
<1>6. CASE Errs
  <2> DEFINE t == [task[turn] EXCEPT !.error = TRUE]
  <2>1. agent.prompts # <<>> /\ agent' = [agent EXCEPT !.failed = TRUE] /\ Handles(t)
    BY <1>6 DEF Errs, Working
  <2>2. agent'.prompts = agent.prompts /\ agent'.tool = agent.tool
    BY <1>1, <2>1 DEF AgentRecords
  <2>3. ASSUME task[turn] \in TaskRecords
        PROVE  /\ Armed(t).tools = task[turn].tools /\ (task[turn].tools # {} => Armed(t).progress = "off")
               /\ Armed(t).error
    <3>1. t \in TaskRecords /\ t.tools = task[turn].tools /\ t.error = TRUE
      BY <2>3, ErrorEdit
    <3> HIDE DEF t
    <3>2. Armed(t).tools = t.tools /\ (t.tools # {} => Armed(t).progress = "off") /\ Armed(t).error = TRUE
      BY <3>1, TaskEdits
    <3>3. Armed(t).error
      BY <3>2, Zenon
    <3> QED BY <3>1, <3>2, <3>3
  <2> HIDE DEF t
  <2>4. ASSUME Head(agent'.prompts) = turn'
        PROVE  /\ agent.tool # None => agent.tool \in task'[turn'].tools /\ task'[turn'].progress = "off"
               /\ task'[turn'].error
    <3>1. /\ task'[turn'] = Armed(t) /\ task[turn] \in TaskRecords
          /\ agent.tool # None => agent.tool \in task[turn].tools
      BY <1>4, <2>1, <2>2, <2>4
    <3> QED BY <2>3, <3>1
  <2> QED BY <2>1, <2>2, <2>4 DEF Work
<1>7. CASE ToolEnds
  <2> DEFINE T == task[turn].tools \ {agent.tool}
             t == [task[turn] EXCEPT !.tools = T]
  <2>1. agent.prompts # <<>> /\ agent' = [agent EXCEPT !.tool = None] /\ Handles(t)
    BY <1>7 DEF ToolEnds, Working
  <2>2. agent'.prompts = agent.prompts /\ agent'.tool = None /\ agent'.failed = agent.failed
    BY <1>1, <2>1 DEF AgentRecords
  <2>3. ASSUME task[turn] \in TaskRecords PROVE Armed(t).error = task[turn].error
    <3>1. T \in SUBSET Tools
      BY <2>3 DEF TaskRecords
    <3> HIDE DEF T
    <3>2. t \in TaskRecords /\ t.error = task[turn].error
      BY <2>3, <3>1 DEF TaskRecords
    <3> HIDE DEF t
    <3> QED BY <3>2, TaskEdits
  <2> HIDE DEF t
  <2>4. ASSUME Head(agent'.prompts) = turn' PROVE agent.failed => task'[turn'].error
    <3>1. /\ task'[turn'] = Armed(t) /\ task[turn] \in TaskRecords
          /\ agent.failed => task[turn].error
      BY <1>4, <2>1, <2>2, <2>4
    <3> QED BY <2>3, <3>1
  <2> QED BY <2>1, <2>2, <2>4 DEF Work
<1> QED BY <1>3, <1>5, <1>6, <1>7, AgentGoesOn
-----------------------------------------------------------------------------
(* What the stops rest on: a run whose shell was cut is marked for good, and *)
(* a stop that asked about a run is confirmed only when that run is settled  *)
(* and not marked.                                                           *)
Asked ==
    /\ \A r \in cut : task[r].unverified /\ ~Fresh(r)
    /\ \A q \in Stops : stop[q].phase = "idle" => stop[q].awaits = None
    /\ \A q \in Stops : LET r == stop[q].awaits IN
          r # None => /\ ~Fresh(r) /\ (r = turn \/ settled[r] # "no")
                      /\ stop[q].phase = "confirmed" => settled[r] # "no" /\ ~task[r].unverified
    /\ \A q \in Stops : Entry(wire, Request("quiesce", q)) => stop[q].awaits # None

LEMMA SettledStays ==
    ASSUME TurnInv, TurnStep, NEW r \in Calls
    PROVE  /\ settled[r] # "no" => settled'[r] = settled[r]
           /\ turn = r => turn' = r \/ settled'[r] # "no"
           /\ settled'[r] # settled[r] => turn = r /\ Finished(r)
BY NoneIsNoCall DEF TurnInv, Turns, TurnStep, Claimed, Finished, Results

(* An interrupt records the shell the live turn runs.                        *)
CutStep == \A r \in cut' : r \in cut \/ (r = turn /\ r \in Calls /\ task'[r].unverified)

LEMMA CutsMove == TurnInv /\ TypesOfAgent /\ TasksTyped /\ Work /\ [Next]_vars => CutStep
<1> SUFFICES ASSUME TurnInv, TypesOfAgent, TasksTyped, Work, [Next]_vars PROVE CutStep
  OBVIOUS
<1>1. turn \in Calls \cup {None} /\ agent.prompts \in Seq(Calls) /\ task \in [Calls -> TaskRecords] /\ None \notin Calls /\ None # "shell"
  BY Facts DEF TurnInv, Turns, TypesOfAgent, AgentRecords, TasksTyped, None
<1>2. ASSUME cut' = cut PROVE CutStep
  BY <1>2 DEF CutStep
<1>3. ASSUME NEW op, NEW by, Aborts(op, by), NEW r \in cut', r \notin cut
      PROVE  r = turn /\ r \in Calls /\ "shell" \in task[r].tools /\ op # "stall"
  <2>1. op # "stall" /\ agent.prompts # <<>> /\ agent.tool = "shell" /\ r = turn /\ r = Head(agent.prompts)
    BY <1>3 DEF Aborts, Working
  <2>2. r \in Calls
    BY <1>1, <2>1, HeadTailProperties
  <2> QED BY <1>1, <2>1, <2>2 DEF Work
<1>4. ASSUME NEW op, NEW by, Aborts(op, by), NEW u, u = Interrupted(task[turn]), task' = [task EXCEPT ![turn] = u] PROVE CutStep
  <2>1. ASSUME NEW r \in cut', r \notin cut PROVE r = turn /\ r \in Calls /\ task'[r].unverified
    <3>1. r = turn /\ r \in Calls /\ "shell" \in task[r].tools
      BY <1>3, <1>4, <2>1
    <3>2. Interrupted(task[r]).unverified /\ task'[r] = Interrupted(task[r])
      BY <1>1, <1>4, <3>1, TaskEdits
    <3> QED BY <3>1, <3>2
  <2> QED BY <2>1 DEF CutStep
<1>5. ASSUME NEW r \in Calls, Run(r) PROVE CutStep
  BY <1>2, <1>5 DEF Run
<1>6. ASSUME NEW c, SetModel(c) \/ Switched(c) \/ Prepared(c) \/ PrepareFails(c) \/ Resumed(c) \/ Opened(c) \/ SendAnswered(c) PROVE CutStep
  BY <1>2, <1>6 DEF SetModel, Switched, Prepared, PrepareFails, Resumed, Opened, SendAnswered, history
<1>7. ASSUME NEW q \in Stops, Quiesce(q) \/ Interrupt(q) PROVE CutStep
  <2>1. cut' = cut \/ (task' = [task EXCEPT ![turn] = Interrupted(task[turn])] /\ \E op : Aborts(op, q))
    BY <1>7 DEF Quiesce, Interrupt
  <2> QED BY <1>2, <1>4, <2>1
<1>8. ASSUME NEW q \in Stops, StopTimesOut(q) \/ Retire(q) PROVE CutStep
  BY <1>2, <1>8 DEF StopTimesOut, Retire, history
<1>9. CASE Resume \/ Compact \/ Continues \/ Takes
  BY <1>2, <1>9 DEF Resume, Compact, Continues, Retired, CompactResumes, CompactEnds, Closed, Takes, history
<1>10. CASE Close
  <2>1. cut' = cut \/ (task' = [task EXCEPT ![turn] = Interrupted(task[turn])] /\ \E op : Aborts(op, None))
    BY <1>10 DEF Close
  <2> QED BY <1>2, <1>4, <2>1
<1>11. ASSUME NEW r \in Calls, Expire(r) PROVE CutStep
  <2> DEFINE c == IF object = 0 THEN "waiting" ELSE "aborting"
             i == Interrupted(task[r])
             e == [i EXCEPT !.clock = c]
  <2>1. task' = [task EXCEPT ![r] = e] /\ Aborts("expire", r) /\ turn = r
    BY <1>11 DEF Expire, Live
  <2>2. ASSUME NEW x \in cut', x \notin cut PROVE x = turn /\ x \in Calls /\ task'[x].unverified
    <3>1. x = r /\ "shell" \in task[r].tools
      BY <1>3, <2>1, <2>2
    <3>2. i \in TaskRecords /\ i.unverified
      BY <1>1, <3>1, TaskEdits
    <3>3. c \in {"armed", "aborting", "waiting"}
      OBVIOUS
    <3> HIDE DEF i, c
    <3>4. e \in TaskRecords /\ e.unverified = i.unverified
      BY <3>2, <3>3, ClockEdit
    <3> HIDE DEF e
    <3>5. task'[r] = e
      BY <1>1, <2>1
    <3> QED BY <2>1, <3>1, <3>2, <3>4, <3>5
  <2> QED BY <2>2 DEF CutStep
<1>12. ASSUME NEW r \in Calls, Stall(r) PROVE CutStep
  <2>1. Aborts("stall", r)
    BY <1>12 DEF Stall
  <2> QED BY <1>2, <2>1 DEF Aborts
<1>13. ASSUME NEW r \in Calls, Expired(r) \/ StallTimesOut(r) \/ StallRetires(r) PROVE CutStep
  BY <1>2, <1>13 DEF Expired, StallTimesOut, StallRetires, history
<1>14. CASE Agent
  BY <1>2, <1>14 DEF Agent, ToolStarts, ToolEnds, Errs, Streams, Idles, history
<1>15. CASE UNCHANGED vars
  BY <1>2, <1>15 DEF vars, history
<1> QED
  BY <1>5, <1>6, <1>7, <1>8, <1>9, <1>10, <1>11, <1>12, <1>13, <1>14, <1>15
  DEF Next, Application, Advances, Starts, Timers

LEMMA AskedStep ==
    TurnInv /\ Objects /\ TypesOfAgent /\ TasksTyped /\ StopsTyped /\ Work /\ Asked /\ [Next]_vars => Asked'
<1> SUFFICES ASSUME TurnInv, Objects, TypesOfAgent, TasksTyped, StopsTyped, Work, Asked, [Next]_vars PROVE Asked'
  OBVIOUS
<1>1. CallStep /\ TurnStep /\ TaskStep /\ StopStep /\ WireStep /\ CutStep
  BY CallsStep, TurnsMove, TasksMove, StopsMove, WireMoves, CutsMove
<1>2. /\ Turns /\ wire \in Seq(Messages) /\ cut \subseteq Calls /\ None \notin Calls
      /\ \A q \in Stops : stop[q] \in StopRecords /\ stop'[q] \in StopRecords
  BY <1>1, Facts DEF TurnInv, Queues, TypesOfAgent, StopsTyped, StopStep
<1>3. ASSUME NEW r \in Calls, ~Fresh(r)
      PROVE  /\ ~Fresh(r)' /\ ~Claimed(r)
             /\ turn # r => task'[r].unverified = task[r].unverified
             /\ task[r].unverified => task'[r].unverified
  BY <1>1, <1>3 DEF CallStep, TaskStep, Noted, Claimed
<1>4. ASSUME NEW r \in cut' PROVE task'[r].unverified /\ ~Fresh(r)'
  <2>1. CASE r \in cut
    BY <1>2, <1>3, <2>1 DEF Asked
  <2>2. CASE r \notin cut
    <3>1. r = turn /\ r \in Calls /\ task'[r].unverified
      BY <1>1, <1>4, <2>2 DEF CutStep
    <3>2. ~Fresh(r)
      BY <1>2, <3>1 DEF Turns
    <3> QED BY <1>3, <3>1, <3>2
  <2> QED BY <2>1, <2>2
<1>5. ASSUME NEW q \in Stops, NEW s, s = stop'[q], NEW b, b = s.awaits
      PROVE  /\ s.phase = "idle" => b = None
             /\ stop[q].awaits # None => b # None
             /\ b # None => /\ ~Fresh(b)' /\ (b = turn' \/ settled'[b] # "no")
                            /\ s.phase = "confirmed" => settled'[b] # "no" /\ ~task'[b].unverified
  <2> PICK a : a = stop[q].awaits
    OBVIOUS
  <2>1. /\ s \in StopRecords /\ a \in Calls \cup {None} /\ StopMove(q, s)
        /\ stop[q].phase = "idle" => a = None
        /\ a # None => /\ ~Fresh(a) /\ (a = turn \/ settled[a] # "no")
                       /\ stop[q].phase = "confirmed" => settled[a] # "no" /\ ~task[a].unverified
    <3>1. StopMove(q, s)
      BY <1>1, <1>5 DEF StopStep
    <3>2. s \in StopRecords /\ a \in Calls \cup {None}
      BY <1>2, <1>5 DEF StopRecords
    <3> QED BY <3>1, <3>2 DEF Asked
  <2>2. ASSUME a \in Calls
        PROVE  /\ ~Fresh(a)' /\ (a = turn' \/ settled'[a] # "no")
               /\ settled[a] # "no" => settled'[a] # "no" /\ (task'[a].unverified = task[a].unverified)
    <3>1. ~Fresh(a) /\ (a = turn \/ settled[a] # "no")
      BY <1>2, <2>1, <2>2
    <3>2. settled[a] # "no" => turn # a
      BY <1>2, <2>2 DEF Turns
    <3> QED BY <1>1, <1>3, <2>2, <3>1, <3>2, SettledStays
  <2> HIDE DEF Fresh
  <2>3. CASE s = stop[q]
    <3>1. a = b
      BY <1>5, <2>3
    <3> QED BY <2>1, <2>2, <2>3, <3>1
  <2>4. CASE Asks(q, s)
    <3>1. b = turn /\ turn' = turn /\ turn \in Calls /\ s.phase \in {"waiting", "aborting"} /\ ~Fresh(turn)
      BY <1>2, <1>5, <2>4 DEF Asks, Turns
    <3>2. ~Fresh(b)'
      BY <1>3, <3>1
    <3> QED BY <1>2, <3>1, <3>2
  <2>5. CASE GivesUp(q, s)
    <3>1. b = a /\ s.phase # "idle" /\ (s.phase = "confirmed" => a = None)
      BY <1>5, <2>1, <2>5 DEF GivesUp
    <3> QED BY <2>1, <2>2, <3>1
  <2>6. CASE HearsEnd(q, s)
    <3>1. /\ b = a /\ a \in Calls /\ s.phase = StopOutcome(a)
          /\ settled'[a] # "no" /\ (task'[a].unverified = task[a].unverified)
      BY <1>5, <2>6 DEF HearsEnd
    <3>2. s.phase # "idle" /\ (s.phase = "confirmed" => ~task[a].unverified)
      BY <3>1 DEF StopOutcome
    <3> QED BY <1>2, <2>2, <3>1, <3>2
  <2>7. CASE HearsAck(q, s)
    <3>1. /\ b = a /\ a # turn /\ s.phase = StopOutcome(a)
          /\ UNCHANGED <<settled, task>> /\ wire # <<>> /\ Head(wire) = Request("quiesce", q)
      BY <1>5, <2>7 DEF HearsAck
    <3>2. Entry(wire, Request("quiesce", q))
      BY <1>2, <3>1, TailEntries
    <3>3. a # None /\ a \in Calls
      BY <2>1, <3>2 DEF Asked
    <3>4. s.phase # "idle" /\ (s.phase = "confirmed" => ~task[a].unverified)
      BY <3>1 DEF StopOutcome
    <3> QED BY <2>1, <2>2, <3>1, <3>3, <3>4
  <2> QED BY <2>1, <2>3, <2>4, <2>5, <2>6, <2>7 DEF StopMove
<1>6. ASSUME NEW q \in Stops, Entry(wire, Request("quiesce", q))' PROVE stop'[q].awaits # None
  <2> DEFINE x == Request("quiesce", q)
  <2>1. x.op = "quiesce" /\ x.by = q
    BY DEF Request
  <2> HIDE DEF x
  <2>2. Entry(wire', x)
    BY <1>6 DEF x
  <2>3. CASE Entry(wire, x)
    BY <1>5, <2>3 DEF Asked, x
  <2>4. CASE ~Entry(wire, x)
    <3>1. ~(wire # <<>> /\ wire' = Tail(wire))
      BY <1>2, <2>2, <2>4, TailEntries
    <3>2. PICK m : Adds(m)
      BY <1>1, <2>2, <2>4, <3>1 DEF WireStep
    <3>3. m = x
      BY <1>2, <2>2, <2>4, <3>2, AppendEntries DEF Adds
    <3> QED BY <2>1, <3>2, <3>3 DEF Adds
  <2> QED BY <2>3, <2>4
<1>7. \A q \in Stops :
          /\ stop'[q].phase = "idle" => stop'[q].awaits = None
          /\ stop'[q].awaits # None =>
                /\ call'[stop'[q].awaits].phase \notin Preparing \cup {"idle"}
                /\ stop'[q].awaits = turn' \/ settled'[stop'[q].awaits] # "no"
                /\ stop'[q].phase = "confirmed" =>
                      settled'[stop'[q].awaits] # "no" /\ ~task'[stop'[q].awaits].unverified
  BY <1>5 DEF Fresh
<1> QED BY <1>4, <1>6, <1>7 DEF Asked, Fresh
-----------------------------------------------------------------------------
(* Whose prompt the process works on: as long as no run was given up, all    *)
(* that is under way belongs to the turn that is live.                       *)
Own ==
    /\ GivenUp \/ \A r \in Calls : OnWire(r) \/ Prompted(r) \/ call[r].phase = "opening" => turn = r
    /\ CompletedIsOwn

(* A turn ends because its run is given up, or by session.idle.              *)
EndStep ==
    turn # None /\ turn' = None =>
        \/ \E r \in Calls : settled'[r] \in {"unknown", "stalled", "failed"}
        \/ /\ Idles /\ Hears
           /\ settled'[turn] = "completed" => ~agent.aborting /\ ~task[turn].error

LEMMA TurnsEnd == TurnInv /\ [Next]_vars => EndStep
<1> SUFFICES ASSUME TurnInv, [Next]_vars, turn # None, turn' = None
             PROVE  \/ \E r \in Calls : settled'[r] \in {"unknown", "stalled", "failed"}
                    \/ /\ Idles /\ Hears
                       /\ settled'[turn] = "completed" => ~agent.aborting /\ ~task[turn].error
  BY DEF EndStep
<1> DEFINE Lost == \E r \in Calls : settled'[r] \in {"unknown", "stalled", "failed"}
<1>1. turn \in Calls /\ settled \in [Calls -> Results \cup {"no"}] /\ wire \in Seq(Messages)
  BY DEF TurnInv, Turns, Queues
<1>2. ASSUME UNCHANGED turns PROVE FALSE
  BY <1>2 DEF turns
<1>3. ASSUME NEW r \in Calls, NEW o \in {"unknown", "stalled", "failed"}, Finish(r, o) PROVE Lost
  BY <1>1, <1>3 DEF Finish
<1>4. ASSUME NEW r \in Calls, FinishIfLive(r, "failed") PROVE Lost
  BY <1>2, <1>3, <1>4 DEF FinishIfLive
<1>5. ASSUME turn' = turn PROVE FALSE
  BY <1>5
<1> HIDE DEF Lost
<1>6. ASSUME NEW r \in Calls, Run(r) PROVE FALSE
  BY <1>2, <1>6 DEF Run
<1>7. ASSUME NEW c, SetModel(c) \/ Switched(c) \/ PrepareFails(c) PROVE FALSE
  BY <1>2, <1>7 DEF SetModel, Switched, PrepareFails
<1>8. ASSUME NEW c, Prepared(c) \/ Resumed(c) PROVE FALSE
  <2>1. UNCHANGED turns \/ Claims(c)
    BY <1>8 DEF Prepared, Resumed, Begins
  <2> QED BY <1>2, <2>1 DEF Claims
<1>9. ASSUME NEW r \in Calls, Opened(r) \/ SendAnswered(r) PROVE Lost
  <2>1. ArmIfLive(r) \/ FinishIfLive(r, "failed")
    BY <1>9 DEF Opened, SendAnswered
  <2> QED BY <1>4, <1>5, <2>1 DEF ArmIfLive
<1>10. ASSUME NEW q \in Stops, Quiesce(q) \/ Interrupt(q) \/ StopTimesOut(q) \/ Retire(q) PROVE FALSE
  BY <1>5, <1>10 DEF Quiesce, Interrupt, StopTimesOut, Retire
<1>11. CASE Resume \/ Compact \/ Close \/ Continues
  BY <1>2, <1>5, <1>11 DEF Resume, Compact, Close, Continues, Retired, CompactResumes, CompactEnds, Closed
<1>12. ASSUME NEW r \in Calls, Expire(r) \/ Stall(r) \/ StallRetires(r) PROVE FALSE
  BY <1>5, <1>12 DEF Expire, Stall, StallRetires
<1>13. ASSUME NEW r \in Calls, Expired(r) \/ StallTimesOut(r) PROVE Lost
  BY <1>3, <1>13 DEF Expired, StallTimesOut
<1>14. CASE Takes
  <2>1. PICK m : m \in Messages /\ (UNCHANGED turns \/ Acknowledged(m) \/ Rejected(m))
    BY <1>1, <1>14, HeadTailProperties DEF Takes
  <2>2. CASE Acknowledged(m)
    BY <1>2, <1>5, <2>2 DEF Acknowledged
  <2>3. CASE Rejected(m) /\ ~Acknowledged(m)
    <3>1. turn' = turn \/ (m.op = "expire" /\ FinishIfLive(m.by, "failed"))
      BY <2>3 DEF Rejected
    <3>2. m.op = "expire" => m.by \in Calls
      BY <2>1 DEF Messages
    <3> QED BY <1>4, <1>5, <3>1, <3>2 DEF Lost
  <2> QED BY <1>2, <2>1, <2>2, <2>3
<1>15. CASE Agent /\ ~Idles
  BY <1>5, <1>15 DEF Agent, ToolStarts, ToolEnds, Errs, Streams, Handles
<1>16. CASE Idles
  <2>1. CASE ~Hears
    BY <1>2, <1>16, <2>1 DEF Idles
  <2>2. CASE Hears
    <3>1. PICK o \in Causes(task[turn], agent.aborting) : Finish(turn, o)
      BY <1>16, <2>2 DEF Idles
    <3>2. settled'[turn] = o
      BY <1>1, <3>1 DEF Finish
    <3>3. o = "completed" => ~agent.aborting /\ ~task[turn].error
      BY <3>1 DEF Causes
    <3> QED BY <1>16, <2>2, <3>2, <3>3
  <2> QED BY <2>1, <2>2
<1>17. CASE UNCHANGED vars
  BY <1>2, <1>17 DEF vars
<1> QED
  BY <1>6, <1>7, <1>8, <1>9, <1>10, <1>11, <1>12, <1>13, <1>14, <1>15, <1>16, <1>17
  DEF Next, Application, Advances, Starts, Timers, Lost

LEMMA OwnStep ==
    TurnInv /\ Objects /\ TypesOfAgent /\ TasksTyped /\ StopsTyped /\ Pending /\ Work /\ Own /\ [Next]_vars => Own'
<1> SUFFICES ASSUME TurnInv, Objects, TypesOfAgent, TasksTyped, StopsTyped, Pending, Work, Own, [Next]_vars PROVE Own'
  OBVIOUS
<1>1. TurnStep /\ Sends /\ PromptStep /\ RunStep /\ Opening /\ EndStep
  BY TurnsMove, SendsStep, PromptsMove, RunsMove, TurnsEnd
<1>2. /\ Turns /\ agent \in AgentRecords /\ agent.prompts \in Seq(Calls) /\ None \notin Calls
      /\ ended \in [Calls -> {"no", "completed", "interrupted", "error"}]
  BY Facts DEF TurnInv, TypesOfAgent, AgentRecords
<1>3. ASSUME GivenUp PROVE GivenUp'
  <2>1. PICK r \in Calls : settled[r] \in {"unknown", "stalled", "failed"}
    BY <1>3 DEF GivenUp
  <2>2. settled'[r] = settled[r]
    BY <1>1, <2>1, SettledStays
  <2> QED BY <2>1, <2>2 DEF GivenUp
<1>4. ASSUME Idles
      PROVE  /\ agent.prompts # <<>> /\ Prompted(Head(agent.prompts)) /\ Head(agent.prompts) \in Calls
             /\ ended' = [ended EXCEPT ![Head(agent.prompts)] =
                   IF agent.aborting THEN "interrupted" ELSE IF agent.failed THEN "error" ELSE "completed"]
             /\ call' = call /\ wire' = wire
             /\ \A h : h = Head(agent.prompts) => ~Prompted(h)'
  <2>1. agent.prompts # <<>> /\ agent' = [Idle(agent) EXCEPT !.prompts = Tail(@)]
    BY <1>4 DEF Idles, Working
  <2>2. agent'.prompts = Tail(agent.prompts)
    BY <1>2, <2>1 DEF AgentRecords, Idle
  <2>3. Prompted(Head(agent.prompts)) /\ ~Entry(agent'.prompts, Head(agent.prompts))
    BY <1>2, <2>1, <2>2, TailEntries DEF Prompted, Pending
  <2>4. Head(agent.prompts) \in Calls
    BY <1>2, <2>1, HeadTailProperties
  <2> QED BY <1>4, <2>1, <2>3, <2>4 DEF Idles, Prompted
<1>5. ASSUME NEW r \in Calls, turn = r, turn' # r, ~GivenUp' PROVE Idles /\ Hears /\ Head(agent.prompts) = r
  <2>1. turn # None /\ turn' = None
    BY <1>1, <1>2, <1>5 DEF TurnStep, Claimed, Finished
  <2>2. Idles /\ Hears
    BY <1>1, <1>5, <2>1 DEF EndStep, GivenUp
  <2>3. ~GivenUp /\ Prompted(Head(agent.prompts)) /\ Head(agent.prompts) \in Calls
    BY <1>3, <1>4, <1>5, <2>2
  <2>4. turn = Head(agent.prompts)
    BY <2>3 DEF Own
  <2> QED BY <1>5, <2>2, <2>4
<1>6. ASSUME ~GivenUp', NEW r \in Calls, OnWire(r)' \/ Prompted(r)' \/ call'[r].phase = "opening" PROVE turn' = r
  <2>1. ~GivenUp /\ (OnWire(r) \/ Prompted(r) \/ call[r].phase = "opening" => turn = r)
    BY <1>3, <1>6 DEF Own
  <2>2. /\ OnWire(r)' => OnWire(r) \/ call[r].phase = "opening"
        /\ Prompted(r)' => Prompted(r) \/ OnWire(r)
        /\ call'[r].phase = "opening" => call[r].phase = "opening" \/ turn' = r
    BY <1>1 DEF Sends, PromptStep, Opening
  <2>3. SUFFICES ASSUME turn = r, turn' # r PROVE FALSE
    BY <1>6, <2>1, <2>2
  <2>4. Idles /\ Head(agent.prompts) = r
    BY <1>5, <1>6, <2>3
  <2>5. Prompted(r) /\ ~Prompted(r)' /\ call' = call /\ wire' = wire
    BY <1>4, <2>4
  <2>6. ~OnWire(r) /\ call[r].phase # "opening"
    BY <2>5 DEF Pending
  <2> QED BY <1>6, <2>5, <2>6 DEF OnWire
<1>7. ASSUME NEW r \in Calls, settled'[r] = "completed", ~GivenUp' PROVE ended'[r] = "completed"
  <2>1. ~GivenUp
    BY <1>3, <1>7
  <2>2. CASE settled'[r] = settled[r]
    <3>1. ended[r] = "completed"
      BY <1>7, <2>1, <2>2 DEF Own, CompletedIsOwn
    <3>2. ended'[r] = ended[r] \/ Prompted(r)
      BY <1>1 DEF PromptStep
    <3> QED BY <3>1, <3>2 DEF Pending
  <2>3. CASE settled'[r] # settled[r]
    <3>1. turn = r /\ turn' # r
      BY <1>1, <1>2, <2>3, SettledStays DEF Finished
    <3>2. Idles /\ Hears /\ Head(agent.prompts) = r
      BY <1>5, <1>7, <3>1
    <3>3. turn # None /\ turn' = None
      BY <1>1, <1>2, <3>1 DEF TurnStep, Claimed, Finished
    <3>4. ~agent.aborting /\ ~task[turn].error
      BY <1>1, <1>7, <3>1, <3>3 DEF EndStep, GivenUp
    <3>5. ~agent.failed
      BY <1>4, <3>1, <3>2, <3>4 DEF Work
    <3> QED BY <1>2, <1>4, <3>2, <3>4, <3>5
  <2> QED BY <2>2, <2>3
<1> QED BY <1>6, <1>7 DEF Own, CompletedIsOwn
-----------------------------------------------------------------------------
(* The inductive invariant: the types, where every prompt is, what the live  *)
(* turn knows of the work of the process, and what the stops rest on.        *)
Typed == TurnInv /\ Objects /\ TypesOfAgent /\ TasksTyped /\ StopsTyped
SessionInv == Typed /\ Pending /\ Work /\ Asked /\ Own

LEMMA SessionInit == Init => SessionInv
<1> SUFFICES ASSUME Init PROVE SessionInv
  OBVIOUS
<1>1. TurnInv
  BY TurnInvInit
<1>2. Objects
  BY Facts DEF Init, Objects, Call
<1>3. agent.prompts = <<>> /\ agent.tool = None /\ ~agent.failed /\ wire = <<>>
  BY DEF Init
<1>4. TypesOfAgent
  BY Facts, EmptySeq DEF Init, TypesOfAgent, AgentRecords
<1>5. TasksTyped
  <2>1. NoTask \in TaskRecords
    BY DEF NoTask, TaskRecords
  <2> HIDE DEF NoTask
  <2> QED BY <2>1 DEF Init, TasksTyped
<1>6. StopsTyped /\ \A q \in Stops : stop[q].phase = "idle" /\ stop[q].awaits = None
  BY DEF Init, StopsTyped, StopRecords
<1>7. \A i : ~(i \in 1..Len(<<>>))
  OBVIOUS
<1>8. Pending
  BY <1>3, <1>7 DEF Init, Pending, OnWire, Prompted, Entry, Once, Distinct
<1>9. Work
  BY <1>3 DEF Work
<1>10. Asked
  BY <1>3, <1>6, <1>7 DEF Init, Asked, Entry
<1>11. Own
  BY <1>3, <1>7, Facts DEF Init, Own, OnWire, Prompted, Entry, CompletedIsOwn, Call
<1> QED BY <1>1, <1>2, <1>4, <1>5, <1>6, <1>8, <1>9, <1>10, <1>11 DEF SessionInv, Typed

LEMMA SessionStep == SessionInv /\ [Next]_vars => SessionInv'
<1> SUFFICES ASSUME SessionInv, [Next]_vars PROVE SessionInv'
  OBVIOUS
<1>1. TurnInv' /\ Objects' /\ TypesOfAgent'
  BY TurnInvStep, ObjectsStep, AgentTyped DEF SessionInv, Typed
<1>2. TasksTyped' /\ StopsTyped'
  BY TasksMove, StopsMove DEF SessionInv, Typed, TaskStep, StopStep
<1>3. Pending' /\ Work' /\ Asked' /\ Own'
  BY PendingStep, WorkStep, AskedStep, OwnStep DEF SessionInv, Typed
<1> QED BY <1>1, <1>2, <1>3 DEF SessionInv, Typed

LEMMA SessionInvariant == Spec => []SessionInv
<1> QED BY SessionInit, SessionStep, PTL DEF Spec

LEMMA WiderSeq == ASSUME NEW A, NEW B, A \subseteq B, NEW s \in Seq(A) PROVE s \in Seq(B)
OBVIOUS

(* The tables of a session, the requests to its process and the process keep *)
(* their types: a call names a model that exists, a wait a turn or a stop    *)
(* (copilot.mjs:182-192, the maps of the adapter, and 686-695, a task).       *)
THEOREM TypesCorrect == Spec => []TypeOK
<1>1. SessionInv => TypeOK
  <2> SUFFICES ASSUME SessionInv PROVE TypeOK
    OBVIOUS
  <2>1. TurnInv /\ Objects /\ TypesOfAgent /\ TasksTyped /\ StopsTyped
    BY DEF SessionInv, Typed
  <2>2. /\ object \in 0..MaxOpens /\ opened \in 1..MaxOpens /\ connected \subseteq 1..opened
        /\ record \in Models \cup {None} /\ (object # 0 => record # None) /\ retiring \in 0..MaxOpens
    BY <2>1, Facts DEF Objects
  <2>3. call \in [Starters -> [phase : Phases, wants : Models \cup {None}, obj : 0..MaxOpens]]
    <3>1. ASSUME NEW c \in Starters PROVE call[c] \in [phase : Phases, wants : Models \cup {None}, obj : 0..MaxOpens]
      BY <2>1 DEF TurnInv, Starting, Objects
    <3> QED BY <2>1, <3>1 DEF TurnInv, Starting
  <2>4. turn \in Calls \cup {None} /\ settled \in [Calls -> {"no", "completed", "interrupted", "error", "stalled", "unknown", "failed"}]
    BY <2>1 DEF TurnInv, Turns, Results
  <2>5. waits \in Seq([op : {"quiesce", "expire", "stall"}, by : Calls \cup Stops])
    <3>1. Awaitable \subseteq [op : {"quiesce", "expire", "stall"}, by : Calls \cup Stops]
      BY DEF Awaitable, Messages
    <3>2. waits \in Seq(Awaitable)
      BY <2>1 DEF TurnInv, Queues
    <3> QED BY <3>1, <3>2, WiderSeq
  <2>6. wire \in Seq([op : {"send", "interrupt", "quiesce", "expire", "stall", "close"}, by : Calls \cup Stops \cup {None}])
    <3>1. Messages \subseteq [op : {"send", "interrupt", "quiesce", "expire", "stall", "close"}, by : Calls \cup Stops \cup {None}]
      BY DEF Messages
    <3>2. wire \in Seq(Messages)
      BY <2>1 DEF TurnInv, Queues
    <3> QED BY <3>1, <3>2, WiderSeq
  <2> QED BY <2>1, <2>2, <2>3, <2>4, <2>5, <2>6
          DEF TypeOK, TypesOfAgent, AgentRecords, TasksTyped, TaskRecords, StopsTyped, StopRecords
<1> QED BY <1>1, SessionInvariant, PTL

(* While the process works on the prompt of the live turn and runs a tool,   *)
(* no progress timer runs against that turn: it knows of the tool, and       *)
(* #armProgressTimer() arms nothing then (copilot.mjs:515-523, 592-610).      *)
THEOREM ToolTimeCorrect == Spec => []ToolTimeIsFree
<1>1. SessionInv => ToolTimeIsFree
  BY DEF SessionInv, Work, ToolTimeIsFree, Working
<1> QED BY <1>1, SessionInvariant, PTL

(* quiesce() does not confirm a turn whose shell ran when it, or another     *)
(* interrupt, asked for the end of it: the mark that interrupt() leaves      *)
(* outlives the turn (copilot.mjs:790-814).                                  *)
THEOREM ShellReportCorrect == Spec => []ShellIsReported
<1>1. SessionInv => ShellIsReported
  BY Facts DEF SessionInv, Typed, TypesOfAgent, Asked, ShellIsReported
<1> QED BY <1>1, SessionInvariant, PTL

(* run() answers completed only when the process ended that very prompt, and *)
(* unharmed, as long as no run of the session was given up with its prompt   *)
(* in the process: session.idle names no turn (copilot.mjs:613-660).         *)
THEOREM CompletionCorrect == Spec => []CompletedIsOwn
<1>1. SessionInv => CompletedIsOwn
  BY DEF SessionInv, Own
<1> QED BY <1>1, SessionInvariant, PTL
-----------------------------------------------------------------------------
(* Who prepares the session does so alone, and the record says which model   *)
(* it has, but while a switch is validated; so a call that found the record  *)
(* to be what it wants, or has switched, has the model it wants.             *)
Alone == \A c, d \in Starters : call[c].phase \in Preparing /\ call[d].phase \in Preparing => c = d
Recalls == object # 0 => record = agent.model \/ \E c \in Starters : call[c].phase = "validating"
Matches(c) ==
    /\ call[c].phase \in {"switching", "validating", "preparing"} => object \in {0, call[c].obj}
    /\ call[c].phase = "preparing" => call[c].wants \in {None, agent.model}
    /\ call[c].phase = "validating" => call[c].wants = agent.model
ModelKnown == contested \/ (Alone /\ Recalls /\ \A c \in Starters : Matches(c))
Honours(r) ==
    ~contested /\ call[r].phase # "opening" /\ call'[r].phase = "opening" /\ call[r].wants # None
        => agent'.model = call[r].wants
ModelStep == ModelKnown' /\ \A r \in Calls : Honours(r)

(* Nobody begins to prepare the session, and nobody is done with it.         *)
Rests ==
    /\ contested' = contested /\ agent'.model = agent.model
    /\ object' = 0 \/ UNCHANGED <<object, record>>
    /\ \A c \in Starters :
          \/ call'[c] = call[c]
          \/ call'[c].phase \notin Preparing \cup {"opening"} /\ (call[c].phase = "validating" => object' = 0)

LEMMA RestsKeeps == ModelKnown /\ Rests => ModelStep
<1> SUFFICES ASSUME ModelKnown, Rests PROVE ModelStep
  OBVIOUS
<1>1. \A c \in Starters : call'[c].phase \in Preparing => call'[c] = call[c]
  BY DEF Rests
<1>2. \A c \in Starters : call[c].phase = "validating" => call'[c] = call[c] \/ object' = 0
  BY DEF Rests
<1>3. ASSUME NEW r \in Calls PROVE Honours(r)
  BY <1>3, Facts DEF Rests, Honours
<1>4. ASSUME ~contested PROVE Alone' /\ Recalls' /\ \A c \in Starters : Matches(c)'
  <2>1. Alone /\ Recalls /\ \A c \in Starters : Matches(c)
    BY <1>4 DEF ModelKnown
  <2>2. Alone'
    BY <1>1, <2>1 DEF Alone
  <2>3. Recalls'
    BY <1>2, <2>1 DEF Recalls, Rests
  <2>4. ASSUME NEW c \in Starters PROVE Matches(c)'
    <3>1. CASE call'[c].phase \in Preparing
      <4>1. call'[c] = call[c] /\ agent'.model = agent.model /\ (object' = 0 \/ object' = object)
        BY <1>1, <3>1 DEF Rests
      <4> QED BY <2>1, <4>1 DEF Matches
    <3>2. CASE call'[c].phase \notin Preparing
      BY <3>2 DEF Matches, Preparing
    <3> QED BY <3>1, <3>2
  <2> QED BY <2>2, <2>3, <2>4
<1>5. contested' = contested
  BY DEF Rests
<1> QED BY <1>3, <1>4, <1>5 DEF ModelStep, ModelKnown

(* A call begins to prepare the session, or resumes it.                      *)
LEMMA EntersKeeps ==
    ASSUME Starting, TypesOfAgent, ModelKnown, Contends, UNCHANGED <<object, record, agent>>,
           NEW c \in Starters, NEW v, call' = [call EXCEPT ![c] = v],
           v.phase \in {"resuming", "switching", "preparing"},
           v.phase # "resuming" => object # 0 /\ v.obj = object,
           v.phase = "preparing" => v.wants \in {None, record}
    PROVE  ModelStep
<1>1. \A d \in Starters : call'[d] = IF d = c THEN v ELSE call[d]
  BY DEF Starting
<1>2. ASSUME NEW r \in Calls PROVE Honours(r)
  BY <1>1, <1>2, Facts DEF Honours
<1>3. ASSUME ~contested' PROVE Alone' /\ Recalls' /\ \A d \in Starters : Matches(d)'
  <2>1. ~contested /\ \A d \in Starters : call[d].phase \notin Preparing
    BY <1>3, Zenon DEF Contends
  <2>2. Alone'
    <3>1. \A d \in Starters : call'[d].phase \in Preparing => d = c
      BY <1>1, <2>1
    <3> QED BY <3>1 DEF Alone
  <2>3. object # 0 => record = agent.model
    BY <2>1 DEF ModelKnown, Recalls, Preparing
  <2>4. Recalls'
    BY <2>3 DEF Recalls
  <2>5. ASSUME NEW d \in Starters PROVE Matches(d)'
    <3>1. CASE d = c
      BY <1>1, <2>3, <3>1 DEF Matches
    <3>2. CASE d # c
      BY <1>1, <2>1, <3>2 DEF Matches, Preparing
    <3> QED BY <3>1, <3>2
  <2> QED BY <2>2, <2>4, <2>5
<1> QED BY <1>2, <1>3 DEF ModelStep, ModelKnown

(* The one who prepares it has the model he wants, or a refusal.             *)
LEMMA LeavesKeeps ==
    ASSUME Starting, ModelKnown, contested' = contested,
           NEW c \in Starters, NEW v, call' = [call EXCEPT ![c] = v],
           call[c].phase \in Preparing, v.phase \notin Preparing,
           ~contested => /\ object' # 0 => record' = agent'.model
                         /\ v.phase = "opening" => call[c].wants \in {None, agent'.model}
    PROVE  ModelStep
<1>1. \A d \in Starters : call'[d] = IF d = c THEN v ELSE call[d]
  BY DEF Starting
<1>2. ASSUME NEW r \in Calls PROVE Honours(r)
  BY <1>1, <1>2, Facts DEF Honours
<1>3. ASSUME ~contested PROVE Alone' /\ Recalls' /\ \A d \in Starters : Matches(d)'
  <2>1. \A d \in Starters : call'[d].phase \notin Preparing
    BY <1>1, <1>3, Zenon DEF ModelKnown, Alone
  <2> QED BY <1>3, <2>1 DEF Alone, Recalls, Matches, Preparing
<1> QED BY <1>2, <1>3 DEF ModelStep, ModelKnown

(* The session is resumed for somebody else.                                 *)
LEMMA OthersKeep ==
    ASSUME ModelKnown, Contends, call' = call, object' # 0 => record' = agent'.model
    PROVE  ModelStep
<1>1. ASSUME ~contested' PROVE \A d \in Starters : call'[d].phase \notin Preparing
  BY <1>1, Zenon DEF Contends
<1> QED BY <1>1 DEF ModelStep, ModelKnown, Honours, Alone, Recalls, Matches, Preparing

LEMMA ModelSteps == Typed /\ ModelKnown /\ [Next]_vars => ModelStep
<1> SUFFICES ASSUME Typed, ModelKnown, [Next]_vars PROVE ModelStep
  OBVIOUS
<1>1. /\ Starting /\ Objects /\ TypesOfAgent /\ agent \in AgentRecords
      /\ wire \in Seq(Messages)
  BY DEF Typed, TurnInv, Queues, TypesOfAgent
<1> DEFINE Over0 == Call("over", None, 0)
<1>2. Over0.phase = "over"
  BY DEF Call
<1>3. ASSUME NEW O, Disconnected(O) PROVE agent'.model = agent.model
  BY <1>1, <1>3, DisconnectedThins DEF Thinned
<1>4. ASSUME NEW c \in Starters, Over(c), contested' = contested, agent'.model = agent.model,
             object' = 0 \/ (UNCHANGED <<object, record>> /\ call[c].phase # "validating")
      PROVE  ModelStep
  <2>1. call' = [call EXCEPT ![c] = Over0]
    BY <1>4 DEF Over
  <2> HIDE DEF Over0
  <2>2. \A d \in Starters : call'[d] = IF d = c THEN Over0 ELSE call[d]
    BY <1>1, <2>1 DEF Starting
  <2>3. Rests
    BY <1>2, <1>4, <2>2 DEF Rests, Preparing
  <2> QED BY <2>3, RestsKeeps
<1>5. ASSUME UNCHANGED <<call, contested>>, agent'.model = agent.model,
             object' = 0 \/ UNCHANGED <<object, record>>
      PROVE  ModelStep
  BY <1>5, RestsKeeps DEF Rests
<1>6. ASSUME NEW m, Opens(m), m \in Models PROVE record' = agent'.model
  BY <1>1, <1>6 DEF Opens, AgentRecords
<1>7. ASSUME NEW r \in Calls, Run(r) PROVE ModelStep
  <2>1. call[r].phase = "idle" /\ r \in Starters /\ UNCHANGED <<object, record, agent>>
    BY <1>7, Facts DEF Run, tables
  <2>2. CASE Over(r) /\ UNCHANGED contested
    BY <1>4, <2>1, <2>2
  <2>3. CASE ~(Over(r) /\ UNCHANGED contested)
    <3>1. PICK m \in Wishes :
            /\ Contends
            /\ call' = [call EXCEPT ![r] =
                 IF object = 0 THEN Call("resuming", m, 0)
                 ELSE Call(IF m \in {None, record} THEN "preparing" ELSE "switching", m, object)]
      BY <1>7, <2>3 DEF Run
    <3> DEFINE v == IF object = 0 THEN Call("resuming", m, 0)
                    ELSE Call(IF m \in {None, record} THEN "preparing" ELSE "switching", m, object)
    <3>2. /\ v.phase \in {"resuming", "switching", "preparing"}
          /\ v.phase # "resuming" => object # 0 /\ v.obj = object
          /\ v.phase = "preparing" => v.wants \in {None, record}
          /\ call' = [call EXCEPT ![r] = v]
      BY <3>1 DEF Call
    <3> HIDE DEF v
    <3> QED BY <1>1, <2>1, <3>1, <3>2, EntersKeeps
  <2> QED BY <2>2, <2>3
<1>8. ASSUME NEW c \in Setters, SetModel(c) PROVE ModelStep
  <2>1. c \in Starters /\ UNCHANGED <<object, record, agent>> /\ Contends /\ object # 0
    BY <1>8, Facts DEF SetModel, tables
  <2>2. PICK m : call' = [call EXCEPT ![c] = Call("switching", m, object)]
    BY <1>8 DEF SetModel
  <2> DEFINE v == Call("switching", m, object)
  <2>3. v.phase = "switching" /\ v.obj = object /\ call' = [call EXCEPT ![c] = v]
    BY <2>2 DEF Call
  <2> HIDE DEF v
  <2> QED BY <1>1, <2>1, <2>3, EntersKeeps
<1>9. ASSUME NEW c \in Starters, Switched(c) PROVE ModelStep
  <2>1. call[c].phase = "switching" /\ UNCHANGED <<object, record>> /\ contested' = contested
    BY <1>9 DEF Switched, tables, history
  <2>2. CASE Over(c) /\ UNCHANGED agent
    BY <1>4, <2>1, <2>2
  <2>3. CASE agent' = [agent EXCEPT !.model = call[c].wants] /\ Becomes(c, "validating")
    <3>1. agent'.model = call[c].wants
      BY <1>1, <2>3 DEF AgentRecords
    <3> DEFINE v == [call[c] EXCEPT !.phase = "validating"]
    <3>2. v.phase = "validating" /\ v.wants = call[c].wants /\ v.obj = call[c].obj
      BY <1>1 DEF Starting
    <3>3. \A d \in Starters : call'[d] = IF d = c THEN v ELSE call[d]
      BY <1>1, <2>3 DEF Becomes, Starting
    <3> HIDE DEF v
    <3>4. ASSUME NEW r \in Calls PROVE Honours(r)
      BY <3>2, <3>3, <3>4, Facts DEF Honours
    <3>5. ASSUME ~contested PROVE Alone' /\ Recalls' /\ \A d \in Starters : Matches(d)'
      <4>1. Alone /\ Recalls /\ \A d \in Starters : Matches(d)
        BY <3>5 DEF ModelKnown
      <4>2. \A d \in Starters : call'[d].phase \in Preparing => d = c
        BY <2>1, <3>3, <4>1 DEF Alone, Preparing
      <4>3. Matches(c)'
        BY <2>1, <3>1, <3>2, <3>3, <4>1 DEF Matches
      <4>4. Recalls'
        BY <3>2, <3>3 DEF Recalls
      <4>5. Alone'
        BY <4>2 DEF Alone
      <4>6. ASSUME NEW d \in Starters, d # c PROVE Matches(d)'
        BY <4>2, <4>6 DEF Matches, Preparing
      <4> QED BY <4>3, <4>4, <4>5, <4>6
    <3> QED BY <2>1, <3>4, <3>5 DEF ModelStep, ModelKnown
  <2> QED BY <1>9, <2>2, <2>3 DEF Switched
<1>10. ASSUME NEW r \in Calls, NEW o, Begins(r, o)
       PROVE  \E v : /\ call' = [call EXCEPT ![r] = v] /\ v.phase \in {"opening", "over"}
  <2>1. CASE Over(r)
    BY <1>2, <2>1 DEF Over
  <2>2. CASE call' = [call EXCEPT ![r].phase = "opening", ![r].obj = o]
    <3> DEFINE v == [call[r] EXCEPT !.phase = "opening", !.obj = o]
    <3>1. call' = [call EXCEPT ![r] = v] /\ v.phase = "opening"
      BY <1>1, <2>2, Facts DEF Starting
    <3> HIDE DEF v
    <3> QED BY <3>1
  <2> QED BY <1>10, <2>1, <2>2 DEF Begins
<1>11. ASSUME NEW c \in Starters, Prepared(c) PROVE ModelStep
  <2>1. /\ call[c].phase \in {"preparing", "validating"} /\ record' = Recorded(c)
        /\ UNCHANGED <<object, agent, contested>>
    BY <1>11 DEF Prepared, history
  <2>2. PICK v : call' = [call EXCEPT ![c] = v] /\ v.phase \in {"opening", "over"}
    BY <1>2, <1>10, <1>11 DEF Prepared, Over
  <2>3. ASSUME ~contested
        PROVE  /\ object' # 0 => record' = agent'.model
               /\ v.phase = "opening" => call[c].wants \in {None, agent'.model}
    <3>1. Alone /\ Recalls /\ Matches(c)
      BY <2>3 DEF ModelKnown
    <3>2. CASE call[c].phase = "validating"
      BY <2>1, <3>1, <3>2 DEF Matches, Recorded
    <3>3. CASE call[c].phase = "preparing"
      <4>1. object # 0 => record = agent.model
        BY <3>1, <3>3 DEF Recalls, Alone, Preparing
      <4>2. object # 0 => record # None
        BY <1>1 DEF Objects
      <4> QED BY <2>1, <3>1, <3>3, <4>1, <4>2 DEF Matches, Recorded
    <3> QED BY <2>1, <3>2, <3>3
  <2>4. call[c].phase \in Preparing /\ v.phase \notin Preparing
    BY <2>1, <2>2 DEF Preparing
  <2> QED BY <1>1, <2>1, <2>2, <2>3, <2>4, LeavesKeeps
<1>12. ASSUME NEW c \in Starters, PrepareFails(c) PROVE ModelStep
  <2>1. Over(c) /\ object' = 0 /\ contested' = contested /\ agent'.model = agent.model
    BY <1>3, <1>12 DEF PrepareFails, Forgotten, history
  <2> QED BY <1>4, <2>1
<1>13. ASSUME NEW r \in Calls, Resumed(r) PROVE ModelStep
  <2>1. r \in Starters /\ call[r].phase = "resuming" /\ contested' = contested
    BY <1>13, Facts DEF Resumed, history
  <2>2. CASE Opens(Chosen(call[r].wants)) /\ Begins(r, opened')
    <3> DEFINE m == Chosen(call[r].wants)
    <3>1. PICK v : call' = [call EXCEPT ![r] = v] /\ v.phase \in {"opening", "over"}
      BY <1>10, <2>2
    <3>2. m \in Models /\ call[r].wants \in {None, m}
      BY <1>1, <2>1, CallValues, Facts DEF Chosen
    <3>3. agent'.model = m
      BY <1>1, <2>2 DEF Opens, AgentRecords
    <3>4. record' = m
      BY <2>2 DEF Opens
    <3>5. call[r].phase \in Preparing /\ v.phase \notin Preparing
      BY <2>1, <3>1 DEF Preparing
    <3> HIDE DEF m
    <3> QED BY <1>1, <2>1, <3>1, <3>2, <3>3, <3>4, <3>5, LeavesKeeps
  <2>3. CASE Over(r) /\ agent' = agent /\ (object' = 0 \/ UNCHANGED <<object, record>>)
    BY <1>4, <2>1, <2>3
  <2> QED BY <1>13, <2>2, <2>3 DEF Resumed, CannotOpen, Forgotten, tables
<1>14. ASSUME NEW r \in Calls, Opened(r) \/ SendAnswered(r) PROVE ModelStep
  <2>1. /\ call[r].phase \in {"opening", "sending"} /\ r \in Starters
        /\ UNCHANGED <<object, record>> /\ contested' = contested
    BY <1>14, Facts DEF Opened, SendAnswered, tables, history
  <2>2. agent'.model = agent.model
    BY <1>1, <1>14, PromptsThinned DEF Opened, SendAnswered, Thinned
  <2>3. CASE Over(r)
    BY <1>4, <2>1, <2>2, <2>3
  <2>4. ASSUME NEW p \in {"sending", "sent"}, Becomes(r, p) PROVE ModelStep
    <3>1. call'[r].phase = p /\ \A d \in Starters \ {r} : call'[d] = call[d]
      BY <1>1, <2>1, <2>4 DEF Becomes, Starting
    <3>2. Rests
      BY <2>1, <2>2, <3>1 DEF Rests, Preparing
    <3> QED BY <3>2, RestsKeeps
  <2> QED BY <1>14, <2>3, <2>4 DEF Opened, SendAnswered
<1>15. ASSUME NEW q \in Stops, Quiesce(q) \/ Interrupt(q) \/ StopTimesOut(q) \/ Retire(q) PROVE ModelStep
  BY <1>5, <1>15 DEF Quiesce, Interrupt, StopTimesOut, Retire, tables, history
<1>16. CASE Retired \/ Closed
  <2>1. UNCHANGED <<call, contested>> /\ (object' = 0 \/ UNCHANGED <<object, record>>)
    BY <1>16 DEF Retired, Closed, Forgotten, tables, history
  <2>2. agent'.model = agent.model
    BY <1>3, <1>16 DEF Retired, Closed
  <2> QED BY <1>5, <2>1, <2>2
<1>17. CASE Resume \/ CompactResumes
  <2>1. call' = call /\ Contends /\ (Opens(Default) \/ object' = 0)
    BY <1>17 DEF Resume, CompactResumes, CannotOpen, Forgotten
  <2> QED BY <1>6, <2>1, Facts, OthersKeep
<1>18. CASE Compact \/ CompactEnds \/ Close
  BY <1>5, <1>18 DEF Compact, CompactEnds, Close, tables, history
<1>19. ASSUME NEW r \in Calls, Timers(r) PROVE ModelStep
  <2>1. UNCHANGED <<call, contested>> /\ (object' = 0 \/ UNCHANGED <<object, record>>)
    BY <1>19 DEF Timers, Expire, Expired, Stall, StallTimesOut, StallRetires, Forgotten, tables, history
  <2>2. agent'.model = agent.model
    BY <1>3, <1>19 DEF Timers, Expire, Expired, Stall, StallTimesOut, StallRetires
  <2> QED BY <1>5, <2>1, <2>2
<1>20. CASE Takes
  <2>1. UNCHANGED <<call, contested, object, record>>
    BY <1>20 DEF Takes, tables, history
  <2>2. agent'.model = agent.model
    BY <1>1, <1>20 DEF Takes, AgentRecords
  <2> QED BY <1>5, <2>1, <2>2
<1>21. CASE Agent
  <2>1. UNCHANGED <<call, contested, object, record>>
    BY <1>21 DEF Agent, ToolStarts, ToolEnds, Errs, Streams, Idles, tables, history
  <2>2. CASE ~Idles
    <3>1. agent'.model = agent.model
      BY <1>1, <1>21, <2>2 DEF Agent, ToolStarts, ToolEnds, Errs, Streams, AgentRecords
    <3> QED BY <1>5, <2>1, <3>1
  <2>3. CASE Idles
    <3>1. agent' = [Idle(agent) EXCEPT !.prompts = Tail(@)]
      BY <2>3 DEF Idles
    <3>2. agent'.model = agent.model
      BY <1>1, <3>1 DEF Idle, AgentRecords
    <3> QED BY <1>5, <2>1, <3>2
  <2> QED BY <2>2, <2>3
<1>22. CASE UNCHANGED vars
  BY <1>5, <1>22 DEF vars, tables, history
<1> QED
  BY <1>7, <1>8, <1>9, <1>11, <1>12, <1>13, <1>14, <1>15, <1>16, <1>17, <1>18, <1>19, <1>20, <1>21, <1>22, Facts
  DEF Next, Application, Continues, Advances, Starts

(* A run that names a model starts on it, unless two calls have prepared the *)
(* session at a time: what is asked is compared with the record before the   *)
(* awaits, and the record is written after them (copilot.mjs:464-478, 765-780). *)
THEOREM ModelCorrect == Spec => ModelHonoured
<1> DEFINE Honour == \A r \in Calls :
                        ~contested /\ call[r].phase # "opening" /\ call'[r].phase = "opening" /\ call[r].wants # None
                            => agent'.model = call[r].wants
<1>1. Typed /\ ModelKnown /\ [Next]_vars => [Honour]_vars
  BY ModelSteps DEF ModelStep, Honours
<1>2. Init => ModelKnown
  <2> SUFFICES ASSUME Init PROVE ModelKnown
    OBVIOUS
  <2>1. record = agent.model /\ \A c \in Starters : call[c].phase = "idle"
    BY DEF Init, Call
  <2> QED BY <2>1 DEF ModelKnown, Alone, Recalls, Matches, Preparing
<1>3. Typed /\ ModelKnown /\ [Next]_vars => ModelKnown'
  BY ModelSteps DEF ModelStep
<1>4. SessionInv => Typed
  BY DEF SessionInv
<1> QED BY <1>1, <1>2, <1>3, <1>4, SessionInvariant, PTL DEF Spec, ModelHonoured
=============================================================================
