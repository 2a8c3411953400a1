---------------------------- MODULE ToolGateProofs ----------------------------
(***************************************************************************)
(* Proofs about ToolGate, for every set of calls and tools, every manifest *)
(* of built-ins and every selection, however often a session is opened,    *)
(* continued and switched. Two inductive invariants: Opening of the        *)
(* preparation of the session, Deciding of the calls, which rests on it.   *)
(***************************************************************************)
EXTENDS ToolGate, TLAPS

(* The names a selection may contain: governed built-ins and the app's own   *)
(* tools, which are neither governed nor the vendor's.                       *)
Sound(s) ==
    /\ s \in Selections
    /\ s.customs \subseteq s.registered
    /\ s.registered \cap (Builtins \cup Foreign) = {}

(* What each await of the preparation has established so far.                *)
Opening ==
    /\ app \in [policy : BOOLEAN, before : BOOLEAN]
    /\ session \in [phase : {"none", "configuring", "mode", "resetting", "listing", "switched", "updating", "ready"},
                    sel : Selections, reported : SUBSET Names, used : BOOLEAN]
    /\ sdk \in [catalog : Catalogs, allowed : Selections, tools : SUBSET Names,
             manual : BOOLEAN, approveAll : BOOLEAN, approved : BOOLEAN]
    /\ Sound(hook) /\ Sound(session.sel) /\ Sound(sdk.allowed)
    /\ session.phase = "updating" => hook = session.sel
    /\ session.phase \in {"mode", "resetting", "listing", "ready"} => ~sdk.approveAll
    /\ session.phase \in {"resetting", "listing", "ready"} => sdk.manual
    /\ session.phase \in {"listing", "ready"} => ~sdk.approved
    /\ session.phase \in {"configuring", "mode", "resetting", "listing", "ready"} =>
         sdk.tools \subseteq hook.builtins \cup hook.registered \cup Foreign
    /\ session.phase = "ready" =>
         /\ session.reported \subseteq hook.builtins \cup hook.registered
         /\ \E c \in Catalogs : session.reported = Expected(session.sel, c)

(* What a call that may still run, or runs, has passed.                      *)
Passes(c) ==
    LET r == call[c] IN
    r.phase \in {"policy", "before", "again", "allowed"} =>
        /\ r.args \in Args
        /\ r.custom => r.tool \notin Builtins \cup Foreign
        /\ ~r.custom => r.tool \in Builtins /\ r.args \notin Malformed
        /\ r.phase \in {"policy", "again"} => app.policy /\ ~r.custom
        /\ r.phase \in {"before", "allowed"} /\ ~r.custom /\ app.policy => r.args \in granted[c]
        /\ r.phase = "before" => app.before
        /\ r.phase \in {"again", "allowed"} /\ app.before => r.args \in said[c]

(* A question that is awaited is about the call as it is; those of a call    *)
(* that were given up belong to stages it has left.                          *)
Asked(q) ==
    /\ call[q.call].phase = q.stage => q.args = call[q.call].args
    /\ call[q.call].phase # "idle"
    /\ call[q.call].phase = "policy" => q.stage = "policy"
    /\ call[q.call].phase = "before" => q.stage # "again"

Deciding ==
    /\ call \in [Calls -> [phase : {"idle", "policy", "before", "again", "allowed", "denied"},
                           tool : Names \cup {"none"}, custom : BOOLEAN, args : Args \cup {"none"}]]
    /\ asked \subseteq [call : Calls, stage : {"policy", "before", "again"}, args : Args]
    /\ granted \in [Calls -> SUBSET Args] /\ said \in [Calls -> SUBSET Args]
    /\ \A c \in Calls : Passes(c)
    /\ \A q \in asked : Asked(q)
-----------------------------------------------------------------------------
(* resolveCopilotToolSelection() returns sound selections only.              *)
LEMMA SelectionSound ==
    ASSUME NEW r \in Requests, Resolves(r)
    PROVE  Sound(Selection(r))
<1>1. Range(r.tools) \subseteq Names
  BY DEF Names
<1>2. Named(r, "builtin") \subseteq Builtins
  BY DEF Named, Resolves, Exact
<1>3. Named(r, "custom") \subseteq Range(r.tools)
  BY DEF Named, Resolves, Exact
<1>4. Range(r.tools) \cap (Builtins \cup Foreign) = {}
  BY GateConstants DEF Resolves
<1> QED BY <1>1, <1>2, <1>3, <1>4 DEF Sound, Selection, Selections

(* The tools a session reports are those of its selection, and perhaps some  *)
(* of the vendor's.                                                          *)
LEMMA ListsBounds ==
    ASSUME NEW s, Sound(s), NEW c \in Catalogs, NEW tools \in Lists(s, c)
    PROVE  /\ tools \subseteq Names
           /\ tools \subseteq s.builtins \cup s.registered \cup Foreign
<1>1. Expected(s, c) \subseteq s.builtins \cup s.registered
  BY DEF Expected, Sound
<1>2. s.builtins \cup s.registered \cup Foreign \subseteq Names
  BY DEF Sound, Selections, Names
<1> QED BY <1>1, <1>2 DEF Lists

LEMMA ExpectedBounds ==
    ASSUME NEW s, Sound(s), NEW c
    PROVE  /\ Expected(s, c) \subseteq Names
           /\ Expected(s, c) \cap Foreign = {}
<1>1. Expected(s, c) \subseteq s.builtins \cup s.registered
  BY DEF Expected, Sound
<1>2. s.builtins \cup s.registered \subseteq Names /\ s.registered \cap Foreign = {} /\ s.builtins \subseteq Builtins
  BY DEF Sound, Selections, Names
<1> QED BY <1>1, <1>2, GateConstants

LEMMA NothingSound == Sound(Nothing)
BY DEF Sound, Nothing, Selections
-----------------------------------------------------------------------------
LEMMA OpeningInit == Init => Opening
BY NothingSound DEF Init, Opening, NoSession, Nothing, Selections, Catalogs

LEMMA OpeningStep == Opening /\ [Next]_vars => Opening'
<1> SUFFICES ASSUME Opening, [Next]_vars PROVE Opening'
  OBVIOUS
<1> USE DEF Opening
<1>1. ASSUME NEW r \in Requests, Open(r) PROVE Opening'
  <2> DEFINE s == Selection(r)
  <2>1. Sound(s)
    BY <1>1, SelectionSound DEF Open
  <2>2. PICK c \in Catalogs : \E tools \in Lists(s, c), m, a, b \in BOOLEAN :
          sdk' = [catalog |-> c, allowed |-> s, tools |-> tools, manual |-> m, approveAll |-> a, approved |-> b]
    BY <1>1 DEF Open
  <2>3. PICK tools \in Lists(s, c), m \in BOOLEAN, a \in BOOLEAN, b \in BOOLEAN :
          sdk' = [catalog |-> c, allowed |-> s, tools |-> tools, manual |-> m, approveAll |-> a, approved |-> b]
    BY <2>2
  <2>4. tools \subseteq Names /\ tools \subseteq s.builtins \cup s.registered \cup Foreign
    BY <2>1, ListsBounds
  <2>5. hook' = s /\ app' = app /\ session' = [session EXCEPT !.phase = "configuring", !.sel = s]
    BY <1>1 DEF Open, Prepares
  <2>6. s \in Selections
    BY <2>1 DEF Sound
  <2> HIDE DEF s
  <2> QED BY <2>1, <2>3, <2>4, <2>5, <2>6
<1>2. ASSUME NEW r \in Requests, Continue(r) PROVE Opening'
  <2>1. Sound(Selection(r)) /\ Selection(r) \in Selections
    BY <1>2, SelectionSound DEF Continue, Sound
  <2> QED BY <1>2, <2>1 DEF Continue, Again, Prepares
<1>3. ASSUME NEW r \in Requests, Switch(r) PROVE Opening'
  <2>1. Sound(Selection(r)) /\ Selection(r) \in Selections
    BY <1>3, SelectionSound DEF Switch, Sound
  <2>2. PICK c \in Catalogs : \E tools \in Lists(sdk.allowed, c) : sdk' = [sdk EXCEPT !.catalog = c, !.tools = tools]
    BY <1>3 DEF Switch
  <2>3. PICK tools \in Lists(sdk.allowed, c) : sdk' = [sdk EXCEPT !.catalog = c, !.tools = tools]
    BY <2>2
  <2>5. tools \subseteq Names
    BY ListsBounds
  <2>4. session' = [session EXCEPT !.phase = "switched", !.sel = Selection(r)] /\ hook' = hook /\ app' = app
    BY <1>3 DEF Switch
  <2> QED BY <2>1, <2>3, <2>4, <2>5
<1>4. CASE Rehook
  BY <1>4 DEF Rehook
<1>5. CASE Update
  <2>1. PICK tools \in Lists(session.sel, sdk.catalog) : sdk' = [sdk EXCEPT !.allowed = session.sel, !.tools = tools]
    BY <1>5 DEF Update
  <2>2. tools \subseteq Names /\ tools \subseteq hook.builtins \cup hook.registered \cup Foreign
    BY <1>5, ListsBounds DEF Update
  <2>3. session' = [session EXCEPT !.phase = "configuring", !.sel = session.sel] /\ hook' = hook /\ app' = app
    BY <1>5 DEF Update, Prepares
  <2> QED BY <2>1, <2>2, <2>3
<1>6. CASE Configure
  BY <1>6 DEF Configure, Goes
<1>7. CASE SetMode
  BY <1>7 DEF SetMode, Goes
<1>8. CASE ResetApprovals
  BY <1>8 DEF ResetApprovals, Goes
<1>9. CASE Verify
  <2>1. PICK c \in Catalogs : sdk.tools = Expected(session.sel, c)
    BY <1>9 DEF Verify, Verified
  <2>2. sdk.tools \subseteq hook.builtins \cup hook.registered
    BY <1>9, <2>1, ExpectedBounds DEF Verify
  <2>3. /\ session' = [session EXCEPT !.phase = "ready", !.reported = sdk.tools, !.used = TRUE]
        /\ hook' = hook /\ app' = app /\ sdk' = sdk
    BY <1>9 DEF Verify
  <2>4. session'.reported = Expected(session'.sel, c) /\ session'.phase = "ready"
    BY <2>1, <2>3
  <2> QED BY <1>9, <2>2, <2>3, <2>4 DEF Verify
<1>10. CASE PrepareFails \/ Retire
  <2>1. session' = NoSession /\ hook' = hook /\ sdk' = sdk /\ app' = app
    BY <1>10 DEF PrepareFails, Retire
  <2>2. Nothing \in Selections
    BY DEF Nothing, Selections
  <2> QED BY <2>1, <2>2, NothingSound DEF NoSession
<1>11. ASSUME NEW c \in Calls, TimesOut(c) PROVE Opening'
  BY <1>11 DEF TimesOut, opening
<1>12. ASSUME NEW c \in Calls, NEW n \in Names, NEW a \in Args, Call(c, n, a) PROVE Opening'
  BY <1>12 DEF Call, opening
<1>13. ASSUME NEW q \in asked, App(q) PROVE Opening'
  BY <1>13 DEF App, TooLate, PolicyAllows, Refuses, BeforeAllows, BeforeChanges, opening
<1>14. CASE UNCHANGED vars
  BY <1>14 DEF vars, opening
<1> QED
  BY <1>1, <1>2, <1>3, <1>4, <1>5, <1>6, <1>7, <1>8, <1>9, <1>10, <1>11, <1>12, <1>13, <1>14 DEF Next, Preparation
-----------------------------------------------------------------------------
Phases == {"idle", "policy", "before", "again", "allowed", "denied"}
Typed(r) == r \in [phase : Phases, tool : Names \cup {"none"}, custom : BOOLEAN, args : Args \cup {"none"}]

LEMMA DecidingInit == Init => Deciding
BY DEF Init, Deciding, NoCall, Passes

(* A step that changes the evaluation of one call c, and adds at most the    *)
(* question it now asks, has to be looked at for c only.                     *)
LEMMA Changed ==
    ASSUME Deciding, NEW c \in Calls, NEW r, Typed(r),
           call' = [call EXCEPT ![c] = r], app' = app,
           granted' \in [Calls -> SUBSET Args], said' \in [Calls -> SUBSET Args],
           \A d \in Calls : granted[d] \subseteq granted'[d] /\ said[d] \subseteq said'[d],
           \A q \in asked' : q \in asked \/ q = Question(c, r.phase, r),
           r.phase \in {"policy", "before", "again"} \/ asked' \subseteq asked,
           r.phase \in {"policy", "before", "again", "allowed"} => r.args \in Args,
           Passes(c)',
           \A q \in asked' : q.call = c => Asked(q)'
    PROVE  Deciding'
<1>1. call' \in [Calls -> [phase : Phases, tool : Names \cup {"none"}, custom : BOOLEAN, args : Args \cup {"none"}]]
  BY DEF Deciding, Typed, Phases
<1>2. asked' \subseteq [call : Calls, stage : {"policy", "before", "again"}, args : Args]
  BY DEF Deciding, Question
<1>3. ASSUME NEW d \in Calls PROVE Passes(d)'
  <2>1. CASE d = c
    BY <2>1
  <2>2. CASE d # c
    <3>1. call'[d] = call[d] /\ Passes(d)
      BY <2>2 DEF Deciding
    <3> QED BY <3>1 DEF Passes
  <2> QED BY <2>1, <2>2
<1>4. ASSUME NEW q \in asked' PROVE Asked(q)'
  <2>1. CASE q.call = c
    BY <2>1
  <2>2. CASE q.call # c
    <3>1. q \in asked
      BY <2>2 DEF Question
    <3>2. q.call \in Calls /\ call'[q.call] = call[q.call] /\ Asked(q)
      BY <2>2, <3>1 DEF Deciding
    <3> QED BY <3>2 DEF Asked
  <2> QED BY <2>1, <2>2
<1> QED BY <1>1, <1>2, <1>3, <1>4 DEF Deciding, Phases

(* A call that was answered asks nothing, and what it had asked does not     *)
(* matter any more.                                                          *)
LEMMA Over ==
    ASSUME Deciding, NEW c \in Calls, NEW r, Typed(r), r.phase \in {"allowed", "denied"},
           call' = [call EXCEPT ![c] = r], app' = app, asked' \subseteq asked,
           granted' \in [Calls -> SUBSET Args], said' \in [Calls -> SUBSET Args],
           \A d \in Calls : granted[d] \subseteq granted'[d] /\ said[d] \subseteq said'[d],
           r.phase = "allowed" => r.args \in Args,
           Passes(c)'
    PROVE  Deciding'
<1>1. ASSUME NEW q \in asked', q.call = c PROVE Asked(q)'
  <2>1. q.stage \in {"policy", "before", "again"} /\ call'[c] = r
    BY DEF Deciding
  <2> QED BY <1>1, <2>1 DEF Asked
<1> QED BY <1>1, Changed

(* A call that goes on to the next stage asks about itself as it is then.    *)
LEMMA Proceeds ==
    ASSUME Deciding, NEW c \in Calls, NEW r, Typed(r), r.phase \in {"policy", "before", "again"}, r.args \in Args,
           call' = [call EXCEPT ![c] = r], app' = app,
           \A q \in asked' : q \in asked \/ q = Question(c, r.phase, r),
           granted' \in [Calls -> SUBSET Args], said' \in [Calls -> SUBSET Args],
           \A d \in Calls : granted[d] \subseteq granted'[d] /\ said[d] \subseteq said'[d],
           r.phase = "policy" => call[c].phase = "idle",
           r.phase = "before" => call[c].phase \in {"idle", "policy"},
           r.phase = "again" => call[c].phase = "before",
           Passes(c)'
    PROVE  Deciding'
<1>1. ASSUME NEW q \in asked', q.call = c PROVE Asked(q)'
  <2>1. call'[c] = r
    BY DEF Deciding
  <2>2. CASE q = Question(c, r.phase, r)
    BY <2>1, <2>2 DEF Asked, Question
  <2>3. CASE q \in asked
    <3>1. Asked(q) /\ q.stage \in {"policy", "before", "again"}
      BY <2>3 DEF Deciding
    <3> QED BY <1>1, <2>1, <3>1 DEF Asked
  <2> QED BY <2>2, <2>3
<1> QED BY <1>1, Changed
-----------------------------------------------------------------------------
(* The questions of an awaited answer, as the steps below use them.          *)
LEMMA AwaitedFacts ==
    ASSUME Deciding, NEW q \in asked
    PROVE  /\ q.call \in Calls /\ q.args \in Args /\ q.stage \in {"policy", "before", "again"}
           /\ Typed(call[q.call]) /\ Passes(q.call) /\ Asked(q)
BY DEF Deciding, Typed, Phases

LEMMA DecidingStep == Opening /\ Deciding /\ [Next]_vars => Deciding'
<1> SUFFICES ASSUME Opening, Deciding, [Next]_vars PROVE Deciding'
  OBVIOUS
<1>1. ASSUME UNCHANGED <<app, deciding>> PROVE Deciding'
  BY <1>1 DEF Deciding, deciding, Passes, Asked
<1>2. ASSUME NEW r \in Requests, Open(r) \/ Continue(r) \/ Switch(r) PROVE Deciding'
  BY <1>1, <1>2 DEF Open, Continue, Switch
<1>3. CASE Preparation \/ Retire
  BY <1>1, <1>3 DEF Preparation, Rehook, Update, Configure, SetMode, ResetApprovals, Verify, PrepareFails, Retire
<1>4. ASSUME NEW c \in Calls, TimesOut(c) PROVE Deciding'
  <2> DEFINE r == Denied(call[c])
  <2>1. Typed(r) /\ r.phase = "denied"
    BY DEF Deciding, Denied, Typed, Phases
  <2>2. /\ call' = [call EXCEPT ![c] = r] /\ asked' = asked /\ app' = app
        /\ granted' = granted /\ said' = said
    BY <1>4 DEF TimesOut, Answers, Becomes, opening
  <2> HIDE DEF r
  <2>3. Passes(c)'
    BY <2>1, <2>2 DEF Passes, Deciding
  <2> QED BY <2>1, <2>2, <2>3, Over DEF Deciding
<1>5. ASSUME NEW c \in Calls, NEW n \in Names, NEW a \in Args, Call(c, n, a) PROVE Deciding'
  <2> DEFINE r == [phase |-> "idle", tool |-> n, custom |-> n \in hook.registered, args |-> a]
             At(p) == [phase |-> p, tool |-> n, custom |-> n \in hook.registered, args |-> a]
  <2>1. /\ app' = app /\ granted' = granted /\ said' = said /\ call[c].phase = "idle"
        /\ IF r.custom THEN Passed(c, r)
           ELSE IF n \notin hook.builtins \/ a \in Malformed THEN Answers(c, Denied(r))
           ELSE IF app.policy THEN Asks(c, "policy", r)
           ELSE Passed(c, r)
    BY <1>5 DEF Call, WellFormed, opening
  <2>2. \A p \in Phases : Typed(At(p))
    BY DEF Typed
  <2>3. granted \in [Calls -> SUBSET Args] /\ said \in [Calls -> SUBSET Args]
    BY DEF Deciding
  <2>4. hook.builtins \subseteq Builtins /\ hook.registered \cap (Builtins \cup Foreign) = {}
    BY DEF Opening, Sound, Selections
  <2>5. app.policy \in BOOLEAN /\ app.before \in BOOLEAN
    BY DEF Opening
  <2>9. \A p \in Phases : [r EXCEPT !.phase = p] = At(p) /\ At(p).phase = p
    OBVIOUS
  <2>10. \A p \in Phases : At(p).tool = n /\ At(p).custom = r.custom /\ At(p).args = a /\ Question(c, p, r) = Question(c, p, At(p))
    BY DEF Question
  <2>11. r.custom = (n \in hook.registered)
    OBVIOUS
  <2> HIDE DEF r, At
  <2>6. CASE Answers(c, Denied(r))
    <3>1. call' = [call EXCEPT ![c] = At("denied")] /\ asked' = asked
      BY <2>6, <2>9 DEF Answers, Becomes, Denied, Phases
    <3>4. call'[c] = At("denied")
      BY <3>1 DEF Deciding
    <3>2. Passes(c)'
      BY <2>9, <3>4 DEF Passes, Phases
    <3> QED BY <2>1, <2>2, <2>3, <3>1, <3>2, Over, <2>9, <2>10 DEF Phases
  <2>7. CASE Asks(c, "policy", r) /\ ~r.custom /\ n \in hook.builtins /\ a \notin Malformed /\ app.policy
    <3>1. call' = [call EXCEPT ![c] = At("policy")] /\ asked' = asked \cup {Question(c, "policy", At("policy"))}
      BY <2>7, <2>9, <2>10 DEF Asks, Becomes, Phases
    <3>2. call'[c] = At("policy")
      BY <3>1 DEF Deciding
    <3>3. Passes(c)'
      BY <2>1, <2>4, <2>7, <2>9, <2>10, <2>11, <3>2 DEF Passes, Phases
    <3> QED BY <2>1, <2>2, <2>3, <3>1, <3>3, Proceeds, <2>9, <2>10 DEF Phases
  <2>8. CASE Passed(c, r) /\ (r.custom \/ (n \in hook.builtins /\ a \notin Malformed /\ ~app.policy))
    <3>1. CASE app.before
      <4>4. Asks(c, "before", r)
        BY <2>8, <3>1 DEF Passed
      <4>1. call' = [call EXCEPT ![c] = At("before")] /\ asked' = asked \cup {Question(c, "before", At("before"))}
        BY <4>4, <2>9, <2>10 DEF Asks, Becomes, Phases
      <4>2. call'[c] = At("before")
        BY <4>1 DEF Deciding
      <4>3. Passes(c)'
        <5>1. At("before").phase = "before" /\ At("before").tool = n /\ At("before").custom = (n \in hook.registered) /\ At("before").args = a
          BY <2>9, <2>10, <2>11 DEF Phases
        <5>2. n \in hook.registered \/ (n \in hook.builtins /\ a \notin Malformed /\ ~app.policy)
          BY <2>8, <2>11
        <5>3. app' = app
          BY <2>1
        <5> QED BY <2>4, <3>1, <4>2, <5>1, <5>2, <5>3 DEF Passes
      <4> QED BY <2>1, <2>2, <2>3, <4>1, <4>3, Proceeds, <2>9, <2>10 DEF Phases
    <3>2. CASE ~app.before
      <4>4. Answers(c, Allowed(r))
        BY <2>8, <3>2 DEF Passed
      <4>1. call' = [call EXCEPT ![c] = At("allowed")] /\ asked' = asked
        BY <4>4, <2>9 DEF Answers, Allowed, Becomes, Phases
      <4>2. call'[c] = At("allowed")
        BY <4>1 DEF Deciding
      <4>3. Passes(c)'
        <5>1. At("allowed").phase = "allowed" /\ At("allowed").tool = n /\ At("allowed").custom = (n \in hook.registered) /\ At("allowed").args = a
          BY <2>9, <2>10, <2>11 DEF Phases
        <5>2. n \in hook.registered \/ (n \in hook.builtins /\ a \notin Malformed /\ ~app.policy)
          BY <2>8, <2>11
        <5>3. app' = app
          BY <2>1
        <5> QED BY <2>4, <3>2, <4>2, <5>1, <5>2, <5>3 DEF Passes
      <4> QED BY <2>1, <2>2, <2>3, <4>1, <4>3, Over, <2>9, <2>10 DEF Phases
    <3> QED BY <3>1, <3>2
  <2> QED BY <2>1, <2>5, <2>6, <2>7, <2>8
<1>6. ASSUME NEW q \in asked, App(q) PROVE Deciding'
  <2> DEFINE c == q.call
  <2>1. /\ c \in Calls /\ q.args \in Args /\ q.stage \in {"policy", "before", "again"}
        /\ Typed(call[c]) /\ Passes(c) /\ Asked(q)
        /\ granted \in [Calls -> SUBSET Args] /\ said \in [Calls -> SUBSET Args]
    BY AwaitedFacts DEF Deciding
  <2>2. app.policy \in BOOLEAN /\ app.before \in BOOLEAN
    BY DEF Opening
  <2>3. CASE TooLate(q)
    <3>1. call' = call /\ asked' \subseteq asked /\ app' = app /\ granted' = granted /\ said' = said
      BY <2>3 DEF TooLate, Returns, opening
    <3> QED BY <3>1 DEF Deciding, Passes, Asked
  <2>4. CASE PolicyAllows(q)
    <3> DEFINE r == [call[c] EXCEPT !.args = q.args]
               b == [r EXCEPT !.phase = "before"]
               w == [r EXCEPT !.phase = "allowed"]
    <3>1. /\ q.stage \in {"policy", "again"} /\ call[c].phase = q.stage /\ q.args = call[c].args
          /\ granted' = [granted EXCEPT ![c] = @ \cup {q.args}] /\ said' = said /\ app' = app
          /\ IF q.stage = "policy" /\ app.before
               THEN /\ call' = [call EXCEPT ![c] = b]
                    /\ asked' = (asked \ {q}) \cup {Question(c, "before", r)}
               ELSE call' = [call EXCEPT ![c] = w] /\ asked' = asked \ {q}
      BY <2>1, <2>4 DEF PolicyAllows, Awaited, Returns, Becomes, Allowed, Asked, opening
    <3>2. /\ granted' \in [Calls -> SUBSET Args] /\ said' \in [Calls -> SUBSET Args] /\ q.args \in granted'[c]
          /\ \A d \in Calls : granted[d] \subseteq granted'[d] /\ said[d] \subseteq said'[d]
      BY <2>1, <3>1
    <3>3. /\ Typed(b) /\ b.phase = "before" /\ Typed(w) /\ w.phase = "allowed"
          /\ b.args = q.args /\ w.args = q.args /\ b.tool = call[c].tool /\ w.tool = call[c].tool
          /\ b.custom = call[c].custom /\ w.custom = call[c].custom
          /\ Question(c, "before", r) = Question(c, b.phase, b)
      BY <2>1 DEF Typed, Phases, Question
    <3> HIDE DEF r, b, w
    <3>4. CASE q.stage = "policy" /\ app.before
      <4>1. call'[c] = b
        BY <2>1, <3>1, <3>4 DEF Deciding
      <4>2. Passes(c)'
        BY <2>1, <3>1, <3>2, <3>3, <3>4, <4>1 DEF Passes
      <4> QED BY <2>1, <3>1, <3>2, <3>3, <3>4, <4>2, Proceeds
    <3>5. CASE ~(q.stage = "policy" /\ app.before)
      <4>1. call'[c] = w
        BY <2>1, <3>1, <3>5 DEF Deciding
      <4>2. Passes(c)'
        BY <2>1, <3>1, <3>2, <3>3, <3>5, <4>1 DEF Passes
      <4> QED BY <2>1, <3>1, <3>2, <3>3, <3>5, <4>2, Over
    <3> QED BY <3>4, <3>5
  <2>5. CASE Refuses(q)
    <3> DEFINE r == Denied(call[c])
    <3>1. Typed(r) /\ r.phase = "denied"
      BY <2>1 DEF Denied, Typed, Phases
    <3>2. /\ call' = [call EXCEPT ![c] = r] /\ asked' = asked \ {q} /\ app' = app
          /\ granted' = granted /\ said' = said
      BY <2>5 DEF Refuses, Returns, Becomes, opening
    <3> HIDE DEF r
    <3>3. Passes(c)'
      BY <2>1, <3>1, <3>2 DEF Passes, Deciding
    <3> QED BY <2>1, <3>1, <3>2, <3>3, Over
  <2>6. CASE BeforeAllows(q)
    <3> DEFINE w == Allowed(call[c])
    <3>1. /\ Typed(w) /\ w.phase = "allowed"
          /\ w.args = call[c].args /\ w.tool = call[c].tool /\ w.custom = call[c].custom
      BY <2>1 DEF Allowed, Typed, Phases
    <3>2. /\ q.stage = "before" /\ call[c].phase = "before" /\ q.args = call[c].args
          /\ call' = [call EXCEPT ![c] = w] /\ asked' = asked \ {q} /\ app' = app
          /\ granted' = granted /\ said' = [said EXCEPT ![c] = @ \cup {q.args}]
      BY <2>1, <2>6 DEF BeforeAllows, Awaited, Returns, Becomes, Says, Asked, opening
    <3> HIDE DEF w
    <3>3. /\ said' \in [Calls -> SUBSET Args] /\ q.args \in said'[c]
          /\ \A d \in Calls : said[d] \subseteq said'[d]
      BY <2>1, <3>2
    <3>4. call'[c] = w
      BY <2>1, <3>2 DEF Deciding
    <3>5. Passes(c)'
      BY <2>1, <3>1, <3>2, <3>3, <3>4 DEF Passes
    <3> QED BY <2>1, <3>1, <3>2, <3>3, <3>5, Over
  <2>7. ASSUME NEW a \in Args, BeforeChanges(q, a) PROVE Deciding'
    <3> DEFINE r == [call[c] EXCEPT !.args = a]
               w == [r EXCEPT !.phase = "allowed"]
               x == [r EXCEPT !.phase = "denied"]
               g == [r EXCEPT !.phase = "again"]
    <3>1. /\ Typed(w) /\ Typed(x) /\ Typed(g)
          /\ w.phase = "allowed" /\ x.phase = "denied" /\ g.phase = "again"
          /\ w.args = a /\ g.args = a /\ w.tool = call[c].tool /\ g.tool = call[c].tool
          /\ w.custom = call[c].custom /\ g.custom = call[c].custom /\ r.custom = call[c].custom
          /\ Question(c, "again", r) = Question(c, g.phase, g)
      BY <2>1 DEF Typed, Phases, Question
    <3>2. /\ q.stage = "before" /\ call[c].phase = "before" /\ app' = app
          /\ granted' = granted /\ said' = [said EXCEPT ![c] = @ \cup {a}]
          /\ IF r.custom \/ (~app.policy /\ a \notin Malformed)
               THEN call' = [call EXCEPT ![c] = w] /\ asked' = asked \ {q}
             ELSE IF a \in Malformed
               THEN call' = [call EXCEPT ![c] = x] /\ asked' = asked \ {q}
             ELSE /\ call' = [call EXCEPT ![c] = g]
                  /\ asked' = (asked \ {q}) \cup {Question(c, "again", r)}
      BY <2>1, <2>7 DEF BeforeChanges, WellFormed, Awaited, Returns, Becomes, Says, Allowed, Denied, opening
    <3>3. /\ said' \in [Calls -> SUBSET Args] /\ a \in said'[c]
          /\ \A d \in Calls : said[d] \subseteq said'[d]
      BY <2>1, <3>2
    <3> HIDE DEF r, w, x, g
    <3>4. CASE call[c].custom \/ (~app.policy /\ a \notin Malformed)
      <4>1. call'[c] = w
        BY <2>1, <3>1, <3>2, <3>4 DEF Deciding
      <4>2. Passes(c)'
        BY <2>1, <3>1, <3>2, <3>3, <3>4, <4>1 DEF Passes
      <4> QED BY <2>1, <3>1, <3>2, <3>3, <3>4, <4>2, Over
    <3>5. CASE ~call[c].custom /\ a \in Malformed
      <4>1. call'[c] = x /\ call' = [call EXCEPT ![c] = x] /\ asked' = asked \ {q}
        BY <2>1, <3>1, <3>2, <3>5 DEF Deciding
      <4>2. Passes(c)'
        BY <2>1, <3>1, <4>1 DEF Passes
      <4> QED BY <2>1, <3>1, <3>2, <3>3, <4>1, <4>2, Over
    <3>6. CASE ~call[c].custom /\ app.policy /\ a \notin Malformed
      <4>1. call'[c] = g
        BY <2>1, <3>1, <3>2, <3>6 DEF Deciding
      <4>2. Passes(c)'
        BY <2>1, <3>1, <3>2, <3>3, <3>6, <4>1 DEF Passes
      <4> QED BY <2>1, <3>1, <3>2, <3>3, <3>6, <4>2, Proceeds
    <3>7. call[c].custom \in BOOLEAN
      BY <2>1 DEF Typed
    <3> QED BY <2>2, <3>4, <3>5, <3>6, <3>7
  <2> QED BY <1>6, <2>3, <2>4, <2>5, <2>6, <2>7 DEF App
<1>7. CASE UNCHANGED vars
  BY <1>1, <1>7 DEF vars, opening
<1> QED BY <1>2, <1>3, <1>4, <1>5, <1>6, <1>7 DEF Next
-----------------------------------------------------------------------------
LEMMA Invariants == Spec => [](Opening /\ Deciding)
<1>1. Init => Opening /\ Deciding
  BY OpeningInit, DecidingInit
<1>2. Opening /\ Deciding /\ [Next]_vars => (Opening /\ Deciding)'
  BY OpeningStep, DecidingStep
<1> QED BY <1>1, <1>2, PTL DEF Spec

(* Every variable of the gate keeps its type.                                *)
THEOREM TypeCorrect == Spec => []TypeOK
<1>1. Opening /\ Deciding => TypeOK
  BY DEF Opening, Deciding, TypeOK, Sound
<1> QED BY <1>1, Invariants, PTL

(* A prompt is sent only to a session that asks before it acts and whose     *)
(* tools are exactly those of a catalog, all of them known to its hook.      *)
THEOREM PreparationCorrect == Spec => []ReadyIsExact
<1>1. Opening => ReadyIsExact
  BY DEF Opening, ReadyIsExact
<1> QED BY <1>1, Invariants, PTL

(* No tool call runs with arguments which the policy and beforeToolUse have  *)
(* not let through.                                                          *)
THEOREM GateCorrect == Spec => []NothingRunsUnasked
<1>1. Opening /\ Deciding => NothingRunsUnasked
  <2> SUFFICES ASSUME Opening, Deciding, NEW c \in Calls, call[c].phase = "allowed"
               PROVE  /\ call[c].tool \notin Foreign
                      /\ call[c].tool \in Builtins => /\ call[c].args \notin Malformed
                                                      /\ app.policy => call[c].args \in granted[c]
                      /\ app.before => call[c].args \in said[c]
    BY DEF NothingRunsUnasked
  <2>1. Passes(c) /\ call[c].custom \in BOOLEAN
    BY DEF Deciding
  <2> QED BY <2>1, GateConstants DEF Passes
<1> QED BY <1>1, Invariants, PTL

(* Nothing the app answers, and no timer, changes a call that was answered.  *)
THEOREM AnswersCorrect == Spec => AnsweredOnce
<1>1. ASSUME Deciding, [Next]_vars, NEW c \in Calls, call[c].phase \in {"allowed", "denied"}
      PROVE  call'[c] = call[c]
  <2>1. CASE UNCHANGED call
    BY <2>1
  <2>2. ASSUME NEW d \in Calls, call[d].phase \notin {"allowed", "denied"}, NEW r, call' = [call EXCEPT ![d] = r]
        PROVE  call'[c] = call[c]
    BY <1>1, <2>2 DEF Deciding
  <2>3. ASSUME NEW r \in Requests, Open(r) \/ Continue(r) \/ Switch(r) PROVE UNCHANGED call
    BY <2>3 DEF Open, Continue, Switch, deciding
  <2>4. CASE Preparation \/ Retire
    BY <2>1, <2>4 DEF Preparation, Rehook, Update, Configure, SetMode, ResetApprovals, Verify, PrepareFails, Retire, deciding
  <2>5. ASSUME NEW d \in Calls, TimesOut(d) PROVE call'[c] = call[c]
    BY <2>2, <2>5 DEF TimesOut, Answers, Becomes
  <2>6. ASSUME NEW d \in Calls, NEW n \in Names, NEW a \in Args, Call(d, n, a) PROVE call'[c] = call[c]
    <3>1. call[d].phase = "idle" /\ \E r : call' = [call EXCEPT ![d] = r]
      BY <2>6 DEF Call, Passed, Asks, Answers, Becomes
    <3> QED BY <2>2, <3>1
  <2>7. ASSUME NEW q \in asked, App(q) PROVE call'[c] = call[c]
    <3>1. q.call \in Calls /\ q.stage \in {"policy", "before", "again"}
      BY <1>1, AwaitedFacts
    <3>2. CASE TooLate(q)
      BY <2>1, <3>2 DEF TooLate
    <3>3. CASE ~TooLate(q)
      <4>1. call[q.call].phase = q.stage
        BY <2>7, <3>3 DEF App, PolicyAllows, Refuses, BeforeAllows, BeforeChanges, Awaited
      <4>2. \E r : call' = [call EXCEPT ![q.call] = r]
        <5>1. CASE PolicyAllows(q)
          BY <5>1 DEF PolicyAllows, Becomes
        <5>2. CASE Refuses(q) \/ BeforeAllows(q)
          BY <5>2 DEF Refuses, BeforeAllows, Becomes
        <5>3. ASSUME NEW a \in Args, BeforeChanges(q, a) PROVE \E r : call' = [call EXCEPT ![q.call] = r]
          BY <5>3 DEF BeforeChanges, Becomes
        <5> QED BY <2>7, <3>3, <5>1, <5>2, <5>3 DEF App
      <4> QED BY <2>2, <3>1, <4>1, <4>2
    <3> QED BY <3>2, <3>3
  <2>8. CASE UNCHANGED vars
    BY <2>1, <2>8 DEF vars, deciding
  <2> QED BY <1>1, <2>1, <2>3, <2>4, <2>5, <2>6, <2>7, <2>8 DEF Next
<1>2. Deciding /\ [Next]_vars => [\A c \in Calls : call[c].phase \in {"allowed", "denied"} => call'[c] = call[c]]_vars
  BY <1>1
<1> QED BY <1>2, Invariants, PTL DEF Spec, AnsweredOnce
=============================================================================
