---------------------------- MODULE CopilotAccount ----------------------------
(***************************************************************************)
(* src/src/adapters/copilot-account.mjs with copilot-login-sources.mjs:    *)
(* the account adapter of Copilot. check() finds out whether Copilot can   *)
(* be used and publishes the answer; useExistingLogin(), forgetExistingLogin() *)
(* and a completed sign-in change the saved choice of a login and check    *)
(* again; one sign-in at a time goes through the SDK's login steps or      *)
(* through the CLI's device code.                                          *)
(*                                                                         *)
(* Every await is a step. The choice file, the stored login of the app, the*)
(* tokens of other logins, the SDK and the person are the environment.     *)
(***************************************************************************)
EXTENDS Naturals, Sequences, FiniteSets

CONSTANTS
    Ops,            \* sign-in operations
    Uses,           \* calls of useExistingLogin() and forgetExistingLogin()
    Existing,       \* the accepted logins other than the app's own
    Stale,          \* choices an earlier version of the app may have saved
    Modes,          \* ways to sign in: "sdk", "device"
    OpensBrowser    \* the value of openBrowser

ASSUME AccountConstants ==
    /\ IsFiniteSet(Ops) /\ IsFiniteSet(Uses) /\ IsFiniteSet(Existing)
    /\ "app" \notin Existing \cup Stale /\ Existing \cap Stale = {} /\ "check" \notin Ops
    /\ Modes \subseteq {"sdk", "device"} /\ OpensBrowser \in BOOLEAN

VARIABLES
    choice,         \* the saved choice, "app" when there is none
    world,          \* whether the app's login is stored; which others have a token
    check,          \* the running #check()
    current,        \* the published state, with the choice it was found with
    use,            \* use[u]: where call u is
    op,             \* op[o]: the operation, with its end
    flow,           \* flow[o]: the step the SDK's login is at
    sent,           \* sent[o]: answers on their way to the SDK
    clients, sessions   \* SDK clients and sessions that are running, by owner

view == <<check, current>>
signing == <<op, flow, sent, clients, sessions>>
vars == <<choice, world, view, use, signing>>

None == "none"
Choices == {"app"} \cup Existing \cup Stale
NoCheck == [phase |-> "none", read |-> None]
Steps == {"url", "go", "input", "account", "consent"}
Terminal == {"succeeded", "failed", "cancelled", "declined"}
NoOp == [mode |-> None, phase |-> "idle", ending |-> "no", outcome |-> None, action |-> None,
         advancing |-> FALSE, cancel |-> FALSE, opener |-> FALSE, terminals |-> 0]

Init ==
    /\ choice \in Choices
    /\ world \in [app : BOOLEAN, tokens : SUBSET Existing]
    /\ check = NoCheck /\ current = [phase |-> "initial", read |-> None]
    /\ use = [u \in Uses |-> [phase |-> "idle", wants |-> None]]
    /\ op = [o \in Ops |-> NoOp]
    /\ flow = [o \in Ops |-> None] /\ sent = [o \in Ops |-> <<>>]
    /\ clients = {} /\ sessions = {}

Finished(o) == op[o].ending # "no"
Active == {o \in Ops : op[o].phase # "idle" /\ op[o].ending # "gone"}   \* operations
-----------------------------------------------------------------------------
(* check(): callers that come while one runs share it. #recheck() waits for  *)
(* the running one and then starts another, which it shares with the others  *)
(* that waited.                                                              *)
Begins == check' = [phase |-> "resolving", read |-> None] /\ current' = [phase |-> "checking", read |-> None]
Recheck == IF check.phase = "none" THEN Begins ELSE UNCHANGED view
(* Mutant: a recheck shares the check that is already running. *)
PlaceJoined == "joined"
Place == IF check.phase = "none" THEN "joined" ELSE "waiting"

(* The end of a check: who shares it goes on, who waits starts the next one. *)
Status(o, found) ==
    IF op[o].outcome \in {"cancelled", "declined"} THEN op[o].outcome
    ELSE IF op[o].outcome = "completed" /\ found \in {"ready", "limited"} THEN "succeeded" ELSE "failed"
Waiting == {u \in Uses : use[u].phase = "waiting"} \cup {o \in Ops : op[o].ending = "waiting"}
Ends(found, read) ==
    /\ IF Waiting # {} THEN Begins ELSE check' = NoCheck /\ current' = [phase |-> found, read |-> read]
    /\ use' = [u \in Uses |-> IF use[u].phase = "joined" THEN [use[u] EXCEPT !.phase = "over"]
                              ELSE IF use[u].phase = "waiting" THEN [use[u] EXCEPT !.phase = "joined"] ELSE use[u]]
    /\ op' = [o \in Ops |-> IF op[o].ending = "joined"
                              THEN [op[o] EXCEPT !.ending = "gone", !.outcome = Status(o, found), !.terminals = @ + 1]
                            ELSE IF op[o].ending = "waiting" THEN [op[o] EXCEPT !.ending = "joined"] ELSE op[o]]

Check ==
    /\ check.phase = "none" /\ Begins
    /\ UNCHANGED <<choice, world, use, signing>>

(* resolveSavedLogin(): a choice that is not accepted is deleted; any other  *)
(* is used or reported missing, never replaced.                              *)
Resolve ==
    /\ check.phase = "resolving"
    /\ check' = [phase |-> IF choice \in Stale THEN "clearing" ELSE IF choice = "app" THEN "connecting" ELSE "token",
                 read |-> choice]
    /\ UNCHANGED <<choice, world, current, use, signing>>
ClearStale ==
    /\ check.phase = "clearing"
    /\ \/ choice' = "app" /\ check' = [phase |-> "connecting", read |-> "app"] /\ UNCHANGED <<current, use, op>>
       \/ Ends("unavailable", check.read) /\ UNCHANGED choice
    /\ UNCHANGED <<world, flow, sent, clients, sessions>>
Token ==
    /\ check.phase = "token"
    /\ check' = [check EXCEPT !.phase = IF check.read \in world.tokens THEN "connecting" ELSE "discovering"]
    /\ UNCHANGED <<choice, world, current, use, signing>>
Connect ==
    /\ check.phase = "connecting"
    /\ \/ check' = [check EXCEPT !.phase = "asking"] /\ clients' = clients \cup {"check"} /\ UNCHANGED <<current, use, op>>
       \/ Ends("unavailable", check.read) /\ UNCHANGED clients
    /\ UNCHANGED <<choice, world, flow, sent, sessions>>
(* getAuthStatus(): it fails, or there is no login or not the chosen one, or *)
(* the login is accepted.                                                    *)
Ask ==
    /\ check.phase = "asking"
    /\ \/ check' = [check EXCEPT !.phase = "stopping"] /\ current' = [phase |-> "unavailable", read |-> check.read] /\ UNCHANGED clients
       \/ /\ check' = [check EXCEPT !.phase = "discovering"] /\ clients' = clients \ {"check"}
          /\ check.read = "app" => ~world.app
          /\ UNCHANGED current
       \/ /\ check' = [check EXCEPT !.phase = "listing"]
          /\ IF check.read = "app" THEN world.app ELSE check.read \in world.tokens
          /\ UNCHANGED <<current, clients>>
    /\ UNCHANGED <<choice, world, use, op, flow, sent, sessions>>
List ==
    /\ check.phase = "listing"
    /\ \E found \in {"ready", "limited"} : current' = [phase |-> found, read |-> check.read]
    /\ check' = [check EXCEPT !.phase = "stopping"]
    /\ UNCHANGED <<choice, world, use, signing>>
StopChecked ==
    /\ check.phase = "stopping"
    /\ clients' = clients \ {"check"}
    /\ Ends(current.phase, current.read)
    /\ UNCHANGED <<choice, world, flow, sent, sessions>>
(* #publishSignedOut() looks for other logins first. *)
Discover ==
    /\ check.phase = "discovering"
    /\ Ends("signed_out", check.read)
    /\ UNCHANGED <<choice, world, flow, sent, clients, sessions>>
-----------------------------------------------------------------------------
(* useExistingLogin() and forgetExistingLogin(). *)
UseBecomes(u, p) == use' = [use EXCEPT ![u].phase = p]
UseExisting(u) ==
    /\ use[u].phase = "idle"
    /\ \E s \in Existing \cup {"app"} : use' = [use EXCEPT ![u] = [phase |-> IF s = "app" THEN "saving" ELSE "finding", wants |-> s]]
    /\ UNCHANGED <<choice, world, view, signing>>
Found(u) ==
    /\ use[u].phase = "finding"
    /\ UseBecomes(u, IF use[u].wants \in world.tokens THEN "saving" ELSE "over")
    /\ UNCHANGED <<choice, world, view, signing>>
Saved(u) ==
    /\ use[u].phase = "saving"
    /\ \/ choice' = use[u].wants /\ UseBecomes(u, Place) /\ Recheck
       \/ UseBecomes(u, "over") /\ UNCHANGED <<choice, view>>
    /\ UNCHANGED <<world, signing>>
-----------------------------------------------------------------------------
(* The end of a sign-in. The first cause counts.                             *)
Becomes(o, r) == op' = [op EXCEPT ![o] = r]
Ending(r, e) == [r EXCEPT !.ending = e, !.action = None]
(* Mutant: a later cause ends it again. *)
FinishAgain(o, r, outcome) ==
    /\ Becomes(o, [Ending(r, "releasing") EXCEPT !.outcome = outcome])
    /\ flow' = [flow EXCEPT ![o] = None] /\ sent' = [sent EXCEPT ![o] = <<>>]
Finish(o, r, outcome) ==
    IF Finished(o) THEN Becomes(o, r) /\ UNCHANGED <<flow, sent>>
    ELSE /\ Becomes(o, [Ending(r, "releasing") EXCEPT !.outcome = outcome])
         /\ flow' = [flow EXCEPT ![o] = None] /\ sent' = [sent EXCEPT ![o] = <<>>]

(* Cancelling the flow, disconnecting its session and stopping its client;   *)
(* a device sign-in has none of them and goes on at once.                    *)
(* Mutant: only a session that was opened can be disconnected. *)
ReleasedWithSession(o) ==
    /\ op[o].ending = "releasing" /\ o \in sessions
    /\ sessions' = sessions \ {o} /\ clients' = clients \ {o}
    /\ Becomes(o, Ending(op[o], Place)) /\ Recheck
    /\ UNCHANGED <<choice, world, use, flow, sent>>
Released(o) ==
    /\ op[o].ending = "releasing"
    /\ sessions' = sessions \ {o} /\ clients' = clients \ {o}
    /\ IF op[o].outcome = "completed" THEN Becomes(o, Ending(op[o], "clearing")) /\ UNCHANGED view
       ELSE Becomes(o, Ending(op[o], Place)) /\ Recheck
    /\ UNCHANGED <<choice, world, use, flow, sent>>
Cleared(o) ==
    /\ op[o].ending = "clearing"
    /\ choice' \in {"app", choice}      \* the choice may fail to be deleted
    /\ Becomes(o, Ending(op[o], Place)) /\ Recheck
    /\ UNCHANGED <<world, use, flow, sent, clients, sessions>>
-----------------------------------------------------------------------------
SignIn(o) ==
    /\ op[o].phase = "idle" /\ Active = {}
    /\ \E m \in Modes : Becomes(o, [NoOp EXCEPT !.mode = m, !.phase = IF m = "sdk" THEN "creating" ELSE "running"])
    /\ UNCHANGED <<choice, world, view, use, flow, sent, clients, sessions>>

(* #startSdkSignIn(): after each of its awaits the operation may have been   *)
(* cancelled.                                                                *)
Goes(o, p) == Becomes(o, [op[o] EXCEPT !.phase = p])
Fails(o) == Finish(o, [op[o] EXCEPT !.phase = "over"], "failed") /\ UNCHANGED <<clients, sessions>>
(* Mutant: the client is not stopped when the sign-in ended meanwhile. *)
CreatedUnchecked(o) ==
    /\ op[o].phase = "creating"
    /\ \/ clients' = clients \cup {o} /\ Goes(o, "starting") /\ UNCHANGED <<flow, sent, sessions>>
       \/ Fails(o)
    /\ UNCHANGED <<choice, world, view, use>>
Created(o) ==
    /\ op[o].phase = "creating"
    /\ \/ Finished(o) /\ Goes(o, "over") /\ UNCHANGED <<flow, sent, clients, sessions>>
       \/ ~Finished(o) /\ clients' = clients \cup {o} /\ Goes(o, "starting") /\ UNCHANGED <<flow, sent, sessions>>
       \/ Fails(o)
    /\ UNCHANGED <<choice, world, view, use>>
Started(o) ==
    /\ op[o].phase = "starting"
    /\ \/ Goes(o, IF Finished(o) THEN "over" ELSE "opening") /\ UNCHANGED <<flow, sent, clients, sessions>>
       \/ Fails(o)
    /\ UNCHANGED <<choice, world, view, use>>
SessionOpened(o) ==
    /\ op[o].phase = "opening"
    /\ \/ /\ Goes(o, IF Finished(o) THEN "over" ELSE "beginning")
          /\ sessions' = IF Finished(o) THEN sessions ELSE sessions \cup {o}
          /\ UNCHANGED <<flow, sent, clients>>
       \/ Fails(o)
    /\ UNCHANGED <<choice, world, view, use>>

(* #handleSdkStep(): a step that asks is published and remembered as the     *)
(* pending action; the others end the sign-in.                               *)
Handle(o, r, k, open) ==
    IF Finished(o) \/ r.cancel THEN Becomes(o, r) /\ UNCHANGED <<flow, sent>>
    ELSE \/ /\ k \in Steps
            /\ Becomes(o, [r EXCEPT !.action = k, !.opener = @ \/ (k = "url" /\ open)])
            /\ flow' = [flow EXCEPT ![o] = k] /\ sent' = [sent EXCEPT ![o] = IF @ = <<>> THEN @ ELSE Tail(@)]
         \/ k \notin Steps /\ Finish(o, r, k)
Answers == Steps \cup {"completed", "declined", "failed"}
StoresLogin(o, k) == world' = IF k = "completed" /\ ~Finished(o) THEN [world EXCEPT !.app = TRUE] ELSE world
Begun(o) ==
    /\ op[o].phase = "beginning"
    /\ \E k \in Answers : Handle(o, [op[o] EXCEPT !.phase = "over"], k, OpensBrowser) /\ StoresLogin(o, k)
    /\ UNCHANGED <<choice, view, use, clients, sessions>>

(* continueSignIn() answers the pending action; the opening of the browser   *)
(* answers the step it was for when it succeeds.                             *)
Answer(by, to) == [by |-> by, to |-> to]
Answered(o, r, a) == Becomes(o, [r EXCEPT !.advancing = TRUE]) /\ sent' = [sent EXCEPT ![o] = Append(@, a)]
(* Mutant: the answer before is not waited for, nor the action used up. *)
ContinuedEager(o) ==
    /\ ~Finished(o) /\ op[o].action \in Steps \ {"consent"} /\ Len(sent[o]) < 2
    /\ Answered(o, op[o], Answer("person", op[o].action))
    /\ UNCHANGED <<choice, world, view, use, flow, clients, sessions>>
Continued(o) ==
    /\ ~Finished(o) /\ ~op[o].advancing /\ op[o].action \in Steps \ {"consent"}
    /\ Answered(o, [op[o] EXCEPT !.action = None], Answer("person", op[o].action))
    /\ UNCHANGED <<choice, world, view, use, flow, clients, sessions>>
BrowserOpened(o) ==
    /\ op[o].opener
    /\ LET r == [op[o] EXCEPT !.opener = FALSE] IN
         \/ IF Finished(o) \/ r.advancing THEN Becomes(o, r) /\ UNCHANGED sent ELSE Answered(o, r, Answer("opener", "url"))
         \/ Becomes(o, r) /\ UNCHANGED sent    \* it failed: the person is asked to open the page
    /\ UNCHANGED <<choice, world, view, use, flow, clients, sessions>>
Advanced(o) ==
    /\ sent[o] # <<>>
    /\ \E k \in Answers : Handle(o, [op[o] EXCEPT !.advancing = FALSE], k, FALSE) /\ StoresLogin(o, k)
    /\ UNCHANGED <<choice, view, use, clients, sessions>>

(* The device-code child exits or reports an error, which may come before    *)
(* its exit.                                                                 *)
Exits(o) ==
    /\ op[o].mode = "device" /\ op[o].phase = "running"
    /\ \E code \in {"completed", "failed"} :
         /\ Finish(o, [op[o] EXCEPT !.phase = "over"], IF op[o].cancel THEN "cancelled" ELSE code)
         /\ world' = IF code = "completed" THEN [world EXCEPT !.app = TRUE] ELSE world
    /\ UNCHANGED <<choice, view, use, clients, sessions>>
ChildErrs(o) ==
    /\ op[o].mode = "device" /\ op[o].phase = "running" /\ ~Finished(o)
    /\ \E left \in {"running", "over"} : Finish(o, [op[o] EXCEPT !.phase = left], "failed")
    /\ UNCHANGED <<choice, world, view, use, clients, sessions>>

(* cancelSignIn() and close(). A child is killed and its exit awaited.       *)
Cancel(o) ==
    /\ o \in Active /\ ~Finished(o) /\ ~op[o].cancel
    /\ LET r == [op[o] EXCEPT !.cancel = TRUE] IN
         \/ r.mode = "sdk" /\ Finish(o, r, "cancelled")
         \/ r.mode = "device" /\ Becomes(o, r) /\ UNCHANGED <<flow, sent>>
    /\ UNCHANGED <<choice, world, view, use, clients, sessions>>
-----------------------------------------------------------------------------
(* Logins come and go outside. *)
World ==
    /\ world' \in [app : BOOLEAN, tokens : SUBSET Existing]
    /\ UNCHANGED <<choice, view, use, signing>>

CheckGoes == Resolve \/ ClearStale \/ Token \/ Connect \/ Ask \/ List \/ StopChecked \/ Discover
UseGoes(u) == Found(u) \/ Saved(u)
EndGoes(o) == Released(o) \/ Cleared(o)
StartGoes(o) == Created(o) \/ Started(o) \/ SessionOpened(o) \/ Begun(o)
Next ==
    \/ Check \/ CheckGoes \/ World
    \/ \E u \in Uses : UseExisting(u) \/ UseGoes(u)
    \/ \E o \in Ops : \/ SignIn(o) \/ StartGoes(o) \/ EndGoes(o) \/ Continued(o) \/ BrowserOpened(o)
                      \/ Advanced(o) \/ Exits(o) \/ ChildErrs(o) \/ Cancel(o)

Spec == Init /\ [][Next]_vars
(* The SDK, the files and a child that was killed answer. *)
Fairness ==
    /\ WF_vars(CheckGoes)
    /\ \A u \in Uses : WF_vars(UseGoes(u))
    /\ \A o \in Ops : WF_vars(EndGoes(o)) /\ WF_vars(StartGoes(o)) /\ WF_vars(op[o].cancel /\ Exits(o))
FairSpec == Spec /\ Fairness
-----------------------------------------------------------------------------
Operation == [mode : {None, "sdk", "device"},
              phase : {"idle", "creating", "starting", "opening", "beginning", "running", "over"},
              ending : {"no", "releasing", "clearing", "waiting", "joined", "gone"},
              outcome : Terminal \cup {None, "completed"}, action : Steps \cup {None},
              advancing : BOOLEAN, cancel : BOOLEAN, opener : BOOLEAN, terminals : Nat]
TypeOK ==
    /\ choice \in Choices /\ world \in [app : BOOLEAN, tokens : SUBSET Existing]
    /\ check \in [phase : {"none", "resolving", "clearing", "token", "connecting", "asking", "listing", "stopping", "discovering"},
                  read : Choices \cup {None}]
    /\ current \in [phase : {"initial", "checking", "unavailable", "signed_out", "limited", "ready"}, read : Choices \cup {None}]
    /\ use \in [Uses -> [phase : {"idle", "finding", "saving", "waiting", "joined", "over"}, wants : Existing \cup {"app", None}]]
    /\ op \in [Ops -> Operation]
    /\ flow \in [Ops -> Steps \cup {None}]
    /\ sent \in [Ops -> Seq([by : {"person", "opener"}, to : Steps])]
    /\ clients \subseteq {"check"} \cup Ops /\ sessions \subseteq Ops

(* Between two changes of the choice the published state is that of a check  *)
(* which read the choice as it is now: no recheck is answered by a check     *)
(* that ran before the change (copilot-account.mjs:716-719).                 *)
Settled ==
    /\ check.phase = "none"
    /\ \A u \in Uses : use[u].phase \notin {"waiting", "joined"}
    /\ \A o \in Ops : op[o].ending \notin {"waiting", "joined"}
ViewIsFresh == Settled => current.phase = "initial" \/ current.read = choice

(* However many of cancel, exit, error and the last step of the login come   *)
(* together, a sign-in is told once how it ended; and when no step of it is  *)
(* left its client is stopped and its session disconnected, whichever await  *)
(* it was cancelled in (copilot-account.mjs:430-449, 757-785).               *)
EndsOnce ==
    \A o \in Ops : /\ op[o].terminals <= 1
                   /\ op[o].ending = "gone" /\ op[o].phase = "over" => o \notin clients \cup sessions

(* An answer reaches the SDK at the step the person was asked about.         *)
PersonAnswersAsked ==
    \A o \in Ops : \A i \in DOMAIN sent[o] : sent[o][i].by = "person" => sent[o][i].to = flow[o]

(* A sign-in that was cancelled ends, and the next one can start. *)
CancelEnds == \A o \in Ops : op[o].cancel ~> op[o].ending = "gone"
-----------------------------------------------------------------------------
(* What the header of copilot-account.mjs promises and the code does not     *)
(* keep: every answer reaches the step it was given for, also the adapter's  *)
(* own after it opened the browser; nothing is guessed (lines 4-6, 541-572). *)
AnswersAreAsked == \A o \in Ops : \A i \in DOMAIN sent[o] : sent[o][i].to = flow[o]
=============================================================================
