------------------------------- MODULE ToolGate -------------------------------
(***************************************************************************)
(* src/src/adapters/copilot-tools.mjs with its callers in copilot.mjs: what*)
(* stands between the tool calls of a Copilot session and their effects.   *)
(* A session is opened with an exact selection of tools, and prepared (its *)
(* permissions reset, its list of tools verified) before a prompt is sent; *)
(* it is prepared again for every continued run and change of the model.   *)
(* A tool call goes through the hook the session was given: the app's      *)
(* permissionPolicy, then its beforeToolUse, then, for a call which that   *)
(* changed, the policy again. Each of these may answer late or never.      *)
(***************************************************************************)
EXTENDS Naturals, Sequences, FiniteSets, Functions

CONSTANTS
    Calls,          \* tool calls the model makes
    Manifest,       \* Manifest[b]: the catalogs of the governed built-in b
    Foreign,        \* names of tools that are neither governed nor the app's
    Requests,       \* tool selections: [tools, available, excluded]
    Args,           \* arguments of calls
    Malformed,      \* those no built-in accepts
    MaxOpens, MaxPreparations   \* bounds: sessions opened, and prepared again

Builtins == DOMAIN Manifest
Catalogs == {"default", "codex"}

ASSUME GateConstants ==
    /\ \A b \in Builtins : Manifest[b] \subseteq Catalogs
    /\ Foreign \cap Builtins = {} /\ \A r \in Requests : Range(r.tools) \cap Foreign = {}
    /\ Malformed \subseteq Args
    /\ {MaxOpens, MaxPreparations} \subseteq Nat

VARIABLES
    app,            \* what the app configured: permissionPolicy, beforeToolUse
    session,        \* our session: its phase, the selection it is prepared for, the tools it reported
    hook,           \* the selection of the hook that the SDK calls
    sdk,            \* the SDK's session: catalog of its model, allowlist, tools, permissions
    counts,         \* sessions opened and preparations repeated
    call,           \* call[c]: the hook's evaluation of c
    asked,          \* callbacks of the app that have not returned
    granted,        \* history: the arguments for which the policy allowed c in time
    said            \* history: the arguments with which beforeToolUse let c pass in time

opening == <<app, session, hook, sdk, counts>>
deciding == <<call, asked, granted, said>>
vars == <<opening, deciding>>
-----------------------------------------------------------------------------
(* resolveCopilotToolSelection(). `tools` are the names of the app's tools;  *)
(* `available` holds availableTools, a set of pairs of a source and a name,  *)
(* if it is given, also an empty one; `excluded`: is excludedTools given?    *)
Entries(r) ==
    IF r.available # {} THEN UNION r.available
    ELSE ({"builtin"} \X Builtins) \cup ({"custom"} \X Range(r.tools))
Exact(r, e) == (e[1] = "builtin" /\ e[2] \in Builtins) \/ (e[1] = "custom" /\ e[2] \in Range(r.tools))
Resolves(r) ==
    /\ ~r.excluded
    /\ IsInjective(r.tools) /\ Range(r.tools) \cap Builtins = {}
    /\ \A e \in Entries(r) : Exact(r, e)
Named(r, source) == {e[2] : e \in {f \in Entries(r) : f[1] = source}}
Selection(r) == [builtins |-> Named(r, "builtin"), customs |-> Named(r, "custom"), registered |-> Range(r.tools)]
Expected(sel, catalog) == {b \in sel.builtins : catalog \in Manifest[b]} \cup sel.customs
Nothing == [builtins |-> {}, customs |-> {}, registered |-> {}]

Lists(sel, catalog) == {Expected(sel, catalog), Expected(sel, catalog) \cup Foreign}
NoSession == [phase |-> "none", sel |-> Nothing, reported |-> {}, used |-> FALSE]
NoCall == [phase |-> "idle", tool |-> "none", custom |-> FALSE, args |-> "none"]

Init ==
    /\ app \in [policy : BOOLEAN, before : BOOLEAN]
    /\ session = NoSession /\ hook = Nothing
    /\ sdk = [catalog |-> "default", allowed |-> Nothing, tools |-> {}, manual |-> FALSE,
            approveAll |-> FALSE, approved |-> FALSE]
    /\ counts = [opens |-> 0, again |-> 0]
    /\ call = [c \in Calls |-> NoCall] /\ asked = {}
    /\ granted = [c \in Calls |-> {}] /\ said = [c \in Calls |-> {}]
-----------------------------------------------------------------------------
(* #getSession(): createSession() or resumeSession(). A session that was     *)
(* kept may still approve what it was once told to, in another mode.         *)
Prepares(sel) == session' = [session EXCEPT !.phase = "configuring", !.sel = sel]
Open(r) ==
    /\ session.phase = "none" /\ counts.opens < MaxOpens /\ Resolves(r)
    /\ Prepares(Selection(r)) /\ hook' = Selection(r)
    /\ \E c \in Catalogs : \E tools \in Lists(Selection(r), c), m, a, b \in BOOLEAN :
         sdk' = [catalog |-> c, allowed |-> Selection(r), tools |-> tools, manual |-> m,
                 approveAll |-> a, approved |-> b]
    /\ counts' = [counts EXCEPT !.opens = @ + 1]
    /\ UNCHANGED <<app, deciding>>
(* A continued run prepares its session again, for its own settings; the     *)
(* hook and the allowlist of the session stay as they are. Preparations are  *)
(* taken one at a time, which the adapter does not enforce.                  *)
Again == session.phase = "ready" /\ counts.again < MaxPreparations /\ counts' = [counts EXCEPT !.again = @ + 1]
Continue(r) ==
    /\ Again /\ Resolves(r)
    /\ Prepares(Selection(r))
    /\ UNCHANGED <<app, hook, sdk, deciding>>
(* #switchModel(): the SDK changes the model, and with it perhaps the catalog *)
(* and the tools; then the hook and the allowlist are set anew.               *)
Switch(r) ==
    /\ Again /\ Resolves(r)
    /\ session' = [session EXCEPT !.phase = "switched", !.sel = Selection(r)]
    /\ \E c \in Catalogs : \E tools \in Lists(sdk.allowed, c) : sdk' = [sdk EXCEPT !.catalog = c, !.tools = tools]
    /\ UNCHANGED <<app, hook, deciding>>
(* Mutant: the session keeps the hook it was opened with. *)
RehookKept ==
    /\ session.phase = "switched"
    /\ session' = [session EXCEPT !.phase = "updating"]
    /\ UNCHANGED <<app, hook, sdk, counts, deciding>>
Rehook ==
    /\ session.phase = "switched"
    /\ session' = [session EXCEPT !.phase = "updating"] /\ hook' = session.sel
    /\ UNCHANGED <<app, sdk, counts, deciding>>
Update ==
    /\ session.phase = "updating"
    /\ Prepares(session.sel)
    /\ \E tools \in Lists(session.sel, sdk.catalog) : sdk' = [sdk EXCEPT !.allowed = session.sel, !.tools = tools]
    /\ UNCHANGED <<app, hook, counts, deciding>>

(* prepareCopilotToolSession(), await by await. *)
Goes(from, to) == session.phase = from /\ session' = [session EXCEPT !.phase = to]
Configure ==
    /\ Goes("configuring", "mode") /\ sdk' = [sdk EXCEPT !.approveAll = FALSE]
    /\ UNCHANGED <<app, hook, counts, deciding>>
SetMode ==
    /\ Goes("mode", "resetting") /\ sdk' = [sdk EXCEPT !.manual = TRUE]
    /\ UNCHANGED <<app, hook, counts, deciding>>
ResetApprovals ==
    /\ Goes("resetting", "listing") /\ sdk' = [sdk EXCEPT !.approved = FALSE]
    /\ UNCHANGED <<app, hook, counts, deciding>>
Verified(tools, sel) == \E c \in Catalogs : tools = Expected(sel, c)
Verify ==
    /\ session.phase = "listing" /\ Verified(sdk.tools, session.sel)
    /\ session' = [session EXCEPT !.phase = "ready", !.reported = sdk.tools, !.used = TRUE]
    /\ UNCHANGED <<app, hook, sdk, counts, deciding>>
(* Whatever fails on the way, a refused mode and an unexpected list of tools *)
(* included, disconnects the session.                                        *)
PrepareFails ==
    /\ session.phase \notin {"none", "ready"} /\ session' = NoSession
    /\ UNCHANGED <<app, hook, sdk, counts, deciding>>
Retire ==
    /\ session.phase = "ready" /\ session' = NoSession
    /\ UNCHANGED <<app, hook, sdk, counts, deciding>>
-----------------------------------------------------------------------------
(* The hook of createCopilotToolHook(). Whatever throws in it denies.        *)
(* toolFacts(): a built-in takes the arguments it is called with. *)
WellFormed(args) == args \notin Malformed
Becomes(c, r) == call' = [call EXCEPT ![c] = r]
Denied(r) == [r EXCEPT !.phase = "denied"]
Allowed(r) == [r EXCEPT !.phase = "allowed"]
Question(c, stage, r) == [call |-> c, stage |-> stage, args |-> r.args]
Asks(c, stage, r) == Becomes(c, [r EXCEPT !.phase = stage]) /\ asked' = asked \cup {Question(c, stage, r)}
Answers(c, r) == Becomes(c, r) /\ UNCHANGED asked
Passed(c, r) == IF app.before THEN Asks(c, "before", r) ELSE Answers(c, Allowed(r))

Call(c, tool, args) ==
    /\ call[c].phase = "idle" /\ session.used
    /\ LET r == [phase |-> "idle", tool |-> tool, custom |-> tool \in hook.registered, args |-> args] IN
         IF r.custom THEN Passed(c, r)
         ELSE IF tool \notin hook.builtins \/ ~WellFormed(args) THEN Answers(c, Denied(r))
         ELSE IF app.policy THEN Asks(c, "policy", r)
         ELSE Passed(c, r)
    /\ UNCHANGED <<opening, granted, said>>

(* withTimeout(): an answer counts while the hook still waits for it. *)
(* Mutant: a late answer decides as well. *)
AwaitedStill(q) == q \in asked
Awaited(q) == q \in asked /\ call[q.call].phase = q.stage
Returns(q) == asked' = asked \ {q}
TooLate(q) ==
    /\ q \in asked /\ ~Awaited(q) /\ Returns(q)
    /\ UNCHANGED <<opening, call, granted, said>>
(* decidePolicy(): only allow_once allows; reject_once, cancel, any other    *)
(* answer and an error deny.                                                 *)
PolicyAllows(q) ==
    /\ q.stage \in {"policy", "again"} /\ Awaited(q)
    /\ granted' = [granted EXCEPT ![q.call] = @ \cup {q.args}]
    /\ LET r == [call[q.call] EXCEPT !.args = q.args] IN
         IF q.stage = "policy" /\ app.before
           THEN /\ Becomes(q.call, [r EXCEPT !.phase = "before"])
                /\ asked' = (asked \ {q}) \cup {Question(q.call, "before", r)}
           ELSE Becomes(q.call, Allowed(r)) /\ Returns(q)
    /\ UNCHANGED <<opening, said>>
Refuses(q) ==
    /\ Awaited(q) /\ Returns(q) /\ Becomes(q.call, Denied(call[q.call]))
    /\ UNCHANGED <<opening, granted, said>>
(* decideBeforeToolUse(): it allows the call as it is or with other arguments; *)
(* those of a built-in must be well formed and are put to the policy.          *)
Says(q, args) == said' = [said EXCEPT ![q.call] = @ \cup {args}]
BeforeAllows(q) ==
    /\ q.stage = "before" /\ Awaited(q) /\ Says(q, q.args)
    /\ Becomes(q.call, Allowed(call[q.call])) /\ Returns(q)
    /\ UNCHANGED <<opening, granted>>
(* Mutant: the policy has decided on this call already. *)
BeforeChangesOnce(q, args) ==
    /\ q.stage = "before" /\ Awaited(q) /\ Says(q, args)
    /\ LET r == [call[q.call] EXCEPT !.args = args] IN
         Becomes(q.call, IF r.custom \/ WellFormed(args) THEN Allowed(r) ELSE Denied(r)) /\ Returns(q)
    /\ UNCHANGED <<opening, granted>>
BeforeChanges(q, args) ==
    /\ q.stage = "before" /\ Awaited(q) /\ Says(q, args)
    /\ LET r == [call[q.call] EXCEPT !.args = args] IN
         IF r.custom \/ (~app.policy /\ WellFormed(args)) THEN Becomes(q.call, Allowed(r)) /\ Returns(q)
         ELSE IF ~WellFormed(args) THEN Becomes(q.call, Denied(r)) /\ Returns(q)
         ELSE /\ Becomes(q.call, [r EXCEPT !.phase = "again"])
              /\ asked' = (asked \ {q}) \cup {Question(q.call, "again", r)}
    /\ UNCHANGED <<opening, granted>>
(* Mutant: only the first answers are waited for with a limit. *)
TimesOutTwice(c) ==
    /\ call[c].phase \in {"policy", "before"} /\ Answers(c, Denied(call[c]))
    /\ UNCHANGED <<opening, granted, said>>
TimesOut(c) ==
    /\ call[c].phase \in {"policy", "before", "again"} /\ Answers(c, Denied(call[c]))
    /\ UNCHANGED <<opening, granted, said>>
-----------------------------------------------------------------------------
Names == Builtins \cup Foreign \cup UNION {Range(r.tools) : r \in Requests}
Preparation == Rehook \/ Update \/ Configure \/ SetMode \/ ResetApprovals \/ Verify \/ PrepareFails
App(q) ==
    \/ TooLate(q) \/ PolicyAllows(q) \/ Refuses(q) \/ BeforeAllows(q)
    \/ \E a \in Args : BeforeChanges(q, a)
Next ==
    \/ \E r \in Requests : Open(r) \/ Continue(r) \/ Switch(r)
    \/ Preparation \/ Retire
    \/ \E c \in Calls : TimesOut(c) \/ \E n \in Names, a \in Args : Call(c, n, a)
    \/ \E q \in asked : App(q)

Spec == Init /\ [][Next]_vars
(* Timers fire; the app need not answer. *)
FairSpec == Spec /\ \A c \in Calls : WF_vars(TimesOut(c))
-----------------------------------------------------------------------------
Selections == [builtins : SUBSET Builtins, customs : SUBSET Names, registered : SUBSET Names]
TypeOK ==
    /\ app \in [policy : BOOLEAN, before : BOOLEAN]
    /\ session \in [phase : {"none", "configuring", "mode", "resetting", "listing", "switched", "updating", "ready"},
                    sel : Selections, reported : SUBSET Names, used : BOOLEAN]
    /\ hook \in Selections
    /\ sdk \in [catalog : Catalogs, allowed : Selections, tools : SUBSET Names,
             manual : BOOLEAN, approveAll : BOOLEAN, approved : BOOLEAN]
    /\ call \in [Calls -> [phase : {"idle", "policy", "before", "again", "allowed", "denied"},
                           tool : Names \cup {"none"}, custom : BOOLEAN, args : Args \cup {"none"}]]
    /\ asked \subseteq [call : Calls, stage : {"policy", "before", "again"}, args : Args]
    /\ granted \in [Calls -> SUBSET Args] /\ said \in [Calls -> SUBSET Args]

(* A prompt is sent only to a session that approves nothing by itself and    *)
(* whose tools are those of one catalog, each of which the hook it calls     *)
(* knows, whatever selections the session was continued or switched with     *)
(* (README.md:258-262, 286-287).                                             *)
ReadyIsExact ==
    session.phase = "ready" =>
        /\ sdk.manual /\ ~sdk.approveAll /\ ~sdk.approved
        /\ \E c \in Catalogs : session.reported = Expected(session.sel, c)
        /\ session.reported \subseteq hook.builtins \cup hook.registered

(* What runs was let through with the very arguments it runs with: those of  *)
(* a built-in are well formed and the policy allowed them, and beforeToolUse *)
(* those of any tool, whatever the app answered late, twice or not at all    *)
(* (copilot-tools.mjs:1-6, README.md:267-276, 307-312).                      *)
NothingRunsUnasked ==
    \A c \in Calls : call[c].phase = "allowed" =>
        /\ call[c].tool \notin Foreign
        /\ call[c].tool \in Builtins => /\ call[c].args \notin Malformed
                                        /\ app.policy => call[c].args \in granted[c]
        /\ app.before => call[c].args \in said[c]

(* A call is answered once: what the app answers after a refusal or a        *)
(* time-out changes nothing.                                                 *)
AnsweredOnce ==
    [][\A c \in Calls : call[c].phase \in {"allowed", "denied"} => call'[c] = call[c]]_vars

(* Every call is answered, also when the app never answers.                  *)
CallsAreAnswered == \A c \in Calls : call[c].phase # "idle" ~> call[c].phase \in {"allowed", "denied"}
=============================================================================
