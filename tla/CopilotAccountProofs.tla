------------------------- MODULE CopilotAccountProofs -------------------------
(***************************************************************************)
(* Proofs about CopilotAccount, for any number of sign-ins and of changes  *)
(* of the saved login. The invariant has one part per promise: what the    *)
(* published state was found with (Views), what a sign-in that ended still *)
(* holds (Endings), and which step an answer is on its way to (Answering). *)
(***************************************************************************)
EXTENDS CopilotAccount, SequenceTheorems, TLAPS

Replies == [by : {"person", "opener"}, to : Steps]
Typed ==
    /\ use \in [Uses -> [phase : {"idle", "finding", "saving", "waiting", "joined", "over"}, wants : Existing \cup {"app", None}]]
    /\ op \in [Ops -> Operation]
    /\ flow \in [Ops -> Steps \cup {None}]
    /\ sent \in [Ops -> Seq(Replies)]

(* A check that has read the choice is up to date, or somebody waits for     *)
(* another; nobody waits for a check when none is running.                   *)
Views ==
    /\ check.phase = "none" => Settled /\ (current.phase = "initial" \/ current.read = choice)
    /\ check.phase \notin {"none", "resolving"} => check.read = choice \/ Waiting # {}
    /\ check.phase = "stopping" => current.read = check.read
(* From the moment its client was stopped a sign-in holds nothing.           *)
Endings ==
    \A o \in Ops :
        /\ op[o].terminals = IF op[o].ending = "gone" THEN 1 ELSE 0
        /\ op[o].ending \notin {"no", "releasing"} => o \notin clients \cup sessions
(* One answer at a time is on its way, and none when the sign-in ended; the  *)
(* pending action is the step the login is at.                               *)
Shaped(r) ==
    /\ r.phase # "over" \/ r.mode = "device" => r.action = None /\ ~r.opener /\ ~r.advancing
    /\ r.phase = "idle" => r.ending = "no"
    /\ r.phase # "idle" => r.mode \in {"sdk", "device"}
    /\ r.phase \in {"creating", "starting", "opening", "beginning"} => r.mode = "sdk"
Consistent(r, f, s) ==
    /\ Shaped(r)
    /\ s = <<>> \/ \E a \in Replies : s = <<a>> /\ (a.by = "person" => a.to = f)
    /\ r.ending # "no" \/ ~r.advancing => s = <<>>
    /\ r.cancel /\ r.ending = "no" => r.mode = "device"
    /\ r.ending = "no" /\ r.action # None => r.action = f
Answering == \A o \in Ops : Consistent(op[o], flow[o], sent[o])

AccountInv == Typed /\ Views /\ Endings /\ Answering
-----------------------------------------------------------------------------
LEMMA AccountInit == Init => AccountInv
<1> SUFFICES ASSUME Init PROVE AccountInv
  OBVIOUS
<1>1. NoOp \in Operation
  BY DEF NoOp, Operation
<1>2. Typed
  BY <1>1, EmptySeq DEF Init, Typed
<1>3. Views
  BY DEF Init, Views, Settled, NoCheck, NoOp
<1>4. Endings
  BY DEF Init, Endings, NoOp
<1>5. Answering
  BY DEF Init, Answering, Consistent, Shaped, NoOp
<1> QED BY <1>2, <1>3, <1>4, <1>5 DEF AccountInv

(* A step of one sign-in that ends it at most.                               *)
Calm(o, r, f, s) ==
    /\ r \in Operation /\ f \in Steps \cup {None} /\ s \in Seq(Replies)
    /\ op' = [op EXCEPT ![o] = r] /\ flow' = [flow EXCEPT ![o] = f] /\ sent' = [sent EXCEPT ![o] = s]
    /\ r.terminals = op[o].terminals
    /\ r.ending = op[o].ending \/ (op[o].ending = "no" /\ r.ending = "releasing")
    /\ Consistent(r, f, s)
    /\ UNCHANGED <<choice, view, use>>
    /\ \A e \in Ops : e \in clients' \cup sessions' => e \in clients \cup sessions \/ (e = o /\ op[o].ending = "no")

LEMMA CalmStep ==
    ASSUME AccountInv, NEW o \in Ops, NEW r, NEW f, NEW s, Calm(o, r, f, s)
    PROVE  AccountInv'
<1>1. Typed'
  BY DEF AccountInv, Typed, Calm
<1>2. \A e \in Ops \ {o} : op'[e] = op[e] /\ flow'[e] = flow[e] /\ sent'[e] = sent[e]
  BY DEF AccountInv, Typed, Calm
<1>3. op'[o] = r /\ flow'[o] = f /\ sent'[o] = s
  BY DEF AccountInv, Typed, Calm
<1>4. \A e \in Ops : op'[e].ending \in {"waiting", "joined"} <=> op[e].ending \in {"waiting", "joined"}
  BY <1>2, <1>3 DEF Calm
<1>5. \A e \in Ops : op'[e].ending = "waiting" <=> op[e].ending = "waiting"
  BY <1>2, <1>3 DEF Calm
<1>6. Waiting' = Waiting /\ Settled' = Settled
  BY <1>4, <1>5 DEF Calm, view, Waiting, Settled
<1>7. Views'
  BY <1>6 DEF AccountInv, Views, Calm, view
<1>8. Endings'
  BY <1>2, <1>3 DEF AccountInv, Endings, Calm
<1>9. Answering'
  BY <1>2, <1>3 DEF AccountInv, Answering, Calm
<1> QED BY <1>1, <1>7, <1>8, <1>9 DEF AccountInv
-----------------------------------------------------------------------------
(* A sign-in that is over asks for a check, or clears the choice first.      *)
LEMMA EndingStep ==
    ASSUME AccountInv, NEW o \in Ops, op[o].ending \in {"releasing", "clearing"},
           NEW e \in {"clearing", "waiting", "joined"}, op' = [op EXCEPT ![o] = Ending(op[o], e)],
           e = "clearing" => UNCHANGED <<choice, view>>,
           e # "clearing" => e = Place /\ Recheck,
           UNCHANGED <<use, flow, sent>>,
           clients' \subseteq clients, sessions' \subseteq sessions, o \notin clients' \cup sessions'
    PROVE  AccountInv'
<1> DEFINE r == Ending(op[o], e)
<1>1. r \in Operation /\ r.ending = e /\ r.terminals = op[o].terminals /\ r.action = None
      /\ r.phase = op[o].phase /\ r.advancing = op[o].advancing /\ r.mode = op[o].mode
      /\ r.opener = op[o].opener /\ r.cancel = op[o].cancel
  BY ZenonT(60) DEF AccountInv, Typed, Operation, Ending
<1>2. op'[o] = r /\ \A d \in Ops \ {o} : op'[d] = op[d]
  BY DEF AccountInv, Typed
<1> HIDE DEF r
<1>3. Typed'
  BY <1>1, <1>2 DEF AccountInv, Typed, r, view
<1>4. Endings'
  BY <1>1, <1>2 DEF AccountInv, Endings
<1>5. Answering'
  BY <1>1, <1>2 DEF AccountInv, Answering, Consistent, Shaped
<1>6. Views'
  <2>1. CASE e = "clearing"
    <3>1. \A d \in Ops : op[d].ending \in {"waiting", "joined"} <=> op'[d].ending \in {"waiting", "joined"}
      BY <1>1, <1>2, <2>1
    <3>2. \A d \in Ops : op[d].ending = "waiting" <=> op'[d].ending = "waiting"
      BY <1>1, <1>2, <2>1
    <3>3. Waiting' = Waiting /\ Settled' = Settled
      BY <2>1, <3>1, <3>2 DEF Waiting, Settled, view
    <3> QED BY <2>1, <3>3 DEF AccountInv, Views, view
  <2>2. CASE e # "clearing" /\ check.phase = "none"
    BY <2>2 DEF Recheck, Begins, Views
  <2>3. CASE e # "clearing" /\ check.phase # "none"
    <3>1. o \in Waiting' /\ UNCHANGED view
      BY <1>1, <1>2, <2>3 DEF Place, Recheck, Waiting
    <3> QED BY <2>3, <3>1 DEF AccountInv, Views, view
  <2> QED BY <2>1, <2>2, <2>3
<1> QED BY <1>3, <1>4, <1>5, <1>6 DEF AccountInv

(* The end of a check.                                                       *)
LEMMA EndsStep ==
    ASSUME AccountInv, NEW found, check.phase \notin {"none", "resolving"}, Ends(found, check.read),
           UNCHANGED <<choice, flow, sent, sessions>>, clients' \subseteq clients
    PROVE  AccountInv'
<1> DEFINE next(o) == IF op[o].ending = "joined"
                        THEN [op[o] EXCEPT !.ending = "gone", !.outcome = Status(o, found), !.terminals = @ + 1]
                      ELSE IF op[o].ending = "waiting" THEN [op[o] EXCEPT !.ending = "joined"] ELSE op[o]
<1>1. op' = [o \in Ops |-> next(o)]
  BY DEF Ends
<1>2. ASSUME NEW o \in Ops
      PROVE  /\ op'[o] \in Operation
             /\ op'[o].phase = op[o].phase /\ op'[o].mode = op[o].mode /\ op'[o].action = op[o].action
             /\ op'[o].advancing = op[o].advancing /\ op'[o].opener = op[o].opener /\ op'[o].cancel = op[o].cancel
             /\ op[o].ending \notin {"joined", "waiting"} => op'[o] = op[o]
             /\ op[o].ending = "joined" => op'[o].ending = "gone" /\ op'[o].terminals = op[o].terminals + 1
             /\ op[o].ending = "waiting" => op'[o].ending = "joined" /\ op'[o].terminals = op[o].terminals
  <2>1. op[o] \in Operation
    BY DEF AccountInv, Typed
  <2>2. Status(o, found) \in Terminal \cup {None, "completed"}
    BY DEF Status, Terminal
  <2>3. op'[o] = next(o)
    BY <1>1
  <2>4. CASE op[o].ending = "joined"
    <3>1. op'[o] = [op[o] EXCEPT !.ending = "gone", !.outcome = Status(o, found), !.terminals = op[o].terminals + 1]
      BY <2>3, <2>4
    <3>2. op[o].terminals + 1 \in Nat
      BY <2>1 DEF Operation
    <3> QED BY <2>1, <2>2, <2>4, <3>1, <3>2 DEF Operation
  <2>5. CASE op[o].ending = "waiting"
    BY <2>1, <2>3, <2>5 DEF Operation
  <2>6. CASE op[o].ending \notin {"joined", "waiting"}
    BY <2>1, <2>3, <2>6
  <2> QED BY <2>4, <2>5, <2>6
<1> HIDE DEF next
<1>7. IF Waiting # {} THEN Begins ELSE check' = NoCheck /\ current' = [phase |-> found, read |-> check.read]
  BY DEF Ends
<1>3. Typed'
  <2>1. op' \in [Ops -> Operation]
    BY <1>1, <1>2
  <2>2. use' \in [Uses -> [phase : {"idle", "finding", "saving", "waiting", "joined", "over"}, wants : Existing \cup {"app", None}]]
    BY ZenonT(60) DEF Ends, AccountInv, Typed
  <2> QED BY <2>1, <2>2 DEF AccountInv, Typed
<1>4. Endings'
  BY <1>2 DEF AccountInv, Endings
<1>5. Answering'
  BY <1>2 DEF AccountInv, Answering, Consistent, Shaped
<1>6. Views'
  <2>1. CASE Waiting # {}
    BY <1>7, <2>1 DEF Begins, Views
  <2>2. CASE Waiting = {}
    <3>1. check'.phase = "none" /\ current'.read = check.read /\ check.read = choice
      BY <1>7, <2>2 DEF NoCheck, AccountInv, Views
    <3>2. ASSUME NEW o \in Ops PROVE op'[o].ending \notin {"waiting", "joined"}
      BY <1>2, <2>2 DEF Waiting
    <3>3. ASSUME NEW u \in Uses PROVE use'[u].phase \notin {"waiting", "joined"}
      BY <2>2 DEF Waiting, Ends, AccountInv, Typed
    <3> QED BY <3>1, <3>2, <3>3 DEF Views, Settled
  <2> QED BY <2>1, <2>2
<1> QED BY <1>3, <1>4, <1>5, <1>6 DEF AccountInv

(* A step of the running check.                                              *)
LEMMA CheckingStep ==
    ASSUME AccountInv, check.phase # "none", check'.phase \notin {"none", "resolving"},
           check'.read = choice' \/ (check'.read = check.read /\ choice' = choice /\ check.phase # "resolving"),
           check'.phase = "stopping" => current'.read = check'.read,
           UNCHANGED <<use, op, flow, sent, sessions>>, clients' \subseteq clients \cup {"check"}
    PROVE  AccountInv'
<1>1. Typed' /\ Answering'
  BY DEF AccountInv, Typed, Answering
<1>2. Endings'
  BY AccountConstants DEF AccountInv, Endings
<1>3. Waiting' = Waiting
  BY DEF Waiting
<1>4. Views'
  BY <1>3 DEF AccountInv, Views
<1> QED BY <1>1, <1>2, <1>4 DEF AccountInv

LEMMA CheckGoesStep == AccountInv /\ CheckGoes => AccountInv'
<1> SUFFICES ASSUME AccountInv, CheckGoes PROVE AccountInv'
  OBVIOUS
<1>2. CASE Resolve
  BY <1>2, CheckingStep DEF Resolve, signing
<1>3. CASE ClearStale
  <2>1. CASE choice' = "app" /\ check' = [phase |-> "connecting", read |-> "app"] /\ UNCHANGED <<current, use, op>>
    BY <1>3, <2>1, CheckingStep DEF ClearStale
  <2>2. CASE Ends("unavailable", check.read) /\ UNCHANGED choice
    BY <1>3, <2>2, EndsStep DEF ClearStale
  <2> QED BY <1>3, <2>1, <2>2 DEF ClearStale
<1>4. CASE Token
  BY <1>4, CheckingStep DEF Token, signing, AccountInv, Views
<1>5. CASE Connect
  <2>1. CASE check' = [check EXCEPT !.phase = "asking"] /\ clients' = clients \cup {"check"} /\ UNCHANGED <<current, use, op>>
    BY <1>5, <2>1, CheckingStep DEF Connect
  <2>2. CASE Ends("unavailable", check.read) /\ UNCHANGED clients
    BY <1>5, <2>2, EndsStep DEF Connect
  <2> QED BY <1>5, <2>1, <2>2 DEF Connect
<1>6. CASE Ask
  <2>1. \E p \in {"stopping", "discovering", "listing"} :
          check' = [check EXCEPT !.phase = p] /\ (p = "stopping" => current'.read = check.read)
    BY <1>6 DEF Ask
  <2>2. clients' \subseteq clients /\ UNCHANGED <<choice, use, op, flow, sent, sessions>> /\ check.phase = "asking"
    BY <1>6 DEF Ask
  <2> QED BY <2>1, <2>2, CheckingStep
<1>7. CASE List
  BY <1>7, CheckingStep DEF List, signing
<1>8. CASE StopChecked
  <2>1. check.phase = "stopping" /\ Ends(current.phase, check.read) /\ clients' \subseteq clients
        /\ UNCHANGED <<choice, flow, sent, sessions>>
    BY <1>8 DEF StopChecked, AccountInv, Views
  <2> QED BY <2>1, EndsStep
<1>9. CASE Discover
  BY <1>9, EndsStep DEF Discover
<1> QED BY <1>2, <1>3, <1>4, <1>5, <1>6, <1>7, <1>8, <1>9 DEF CheckGoes

(* useExistingLogin(): a choice that was saved is followed by a check.       *)
LEMMA UseStep ==
    ASSUME AccountInv, NEW u \in Uses, UseExisting(u) \/ UseGoes(u)
    PROVE  AccountInv'
<1>1. UNCHANGED <<op, flow, sent, clients, sessions>>
  BY DEF UseExisting, UseGoes, Found, Saved, signing
<1>2. Endings' /\ Answering'
  BY <1>1 DEF AccountInv, Endings, Answering
<1>3. Typed'
  <2> DEFINE P == {"idle", "finding", "saving", "waiting", "joined", "over"}
             T == [phase : P, wants : Existing \cup {"app", None}]
  <2>1. use \in [Uses -> T]
    BY DEF AccountInv, Typed
  <2>3. ASSUME NEW p \in P, UseBecomes(u, p) PROVE use' \in [Uses -> T]
    BY <2>1, <2>3 DEF UseBecomes
  <2>2. use' \in [Uses -> T]
    <3>1. CASE UseExisting(u)
      <4>1. PICK s \in Existing \cup {"app"} : use' = [use EXCEPT ![u] = [phase |-> IF s = "app" THEN "saving" ELSE "finding", wants |-> s]]
        BY <3>1 DEF UseExisting
      <4> QED BY <2>1, <4>1
    <3>2. CASE UseGoes(u)
      <4>1. UseBecomes(u, "over") \/ UseBecomes(u, "saving") \/ UseBecomes(u, "waiting") \/ UseBecomes(u, "joined")
        BY <3>2 DEF UseGoes, Found, Saved, Place
      <4> QED BY <2>3, <4>1
    <3> QED BY <3>1, <3>2
  <2> QED BY <1>1, <2>2 DEF AccountInv, Typed
<1>4. Views'
  <2>1. ASSUME NEW p \in {"idle", "finding", "saving", "over"}, use'[u].phase = p, use[u].phase \notin {"waiting", "joined"},
               \A v \in Uses \ {u} : use'[v] = use[v], UNCHANGED <<choice, view>>
        PROVE  Views'
    <3>1. Waiting' = Waiting /\ Settled' = Settled
      BY <1>1, <2>1 DEF Waiting, Settled, view
    <3> QED BY <2>1, <3>1 DEF AccountInv, Views, view
  <2>2. CASE UseExisting(u)
    <3>1. use'[u].phase \in {"saving", "finding"} /\ use[u].phase = "idle" /\ UNCHANGED <<choice, view>>
          /\ \A v \in Uses \ {u} : use'[v] = use[v]
      BY <2>2 DEF UseExisting, AccountInv, Typed
    <3> QED BY <2>1, <3>1
  <2>3. CASE Found(u)
    <3>1. use'[u].phase \in {"saving", "over"} /\ use[u].phase = "finding" /\ UNCHANGED <<choice, view>>
          /\ \A v \in Uses \ {u} : use'[v] = use[v]
      BY <2>3 DEF Found, UseBecomes, AccountInv, Typed
    <3> QED BY <2>1, <3>1
  <2>4. CASE Saved(u) /\ UseBecomes(u, "over") /\ UNCHANGED <<choice, view>>
    <3>1. use'[u].phase = "over" /\ use[u].phase = "saving" /\ \A v \in Uses \ {u} : use'[v] = use[v]
      BY <2>4 DEF Saved, UseBecomes, AccountInv, Typed
    <3> QED BY <2>1, <2>4, <3>1
  <2>5. CASE Saved(u) /\ UseBecomes(u, Place) /\ Recheck
    <3>1. CASE check.phase = "none"
      BY <2>5, <3>1 DEF Recheck, Begins, Views
    <3>2. CASE check.phase # "none"
      <4>1. use'[u].phase = "waiting" /\ UNCHANGED view
        BY <2>5, <3>2 DEF UseBecomes, Place, Recheck, AccountInv, Typed
      <4>2. Waiting' # {}
        BY <4>1 DEF Waiting
      <4> QED BY <3>2, <4>1, <4>2 DEF AccountInv, Views, view
    <3> QED BY <3>1, <3>2
  <2> QED BY <2>2, <2>3, <2>4, <2>5 DEF UseGoes, Saved
<1> QED BY <1>2, <1>3, <1>4 DEF AccountInv
-----------------------------------------------------------------------------
(* The facts about one sign-in the steps below start from.                   *)
LEMMA OpFacts ==
    ASSUME AccountInv, NEW o \in Ops
    PROVE  /\ op[o] \in Operation /\ flow[o] \in Steps \cup {None} /\ sent[o] \in Seq(Replies)
           /\ Consistent(op[o], flow[o], sent[o])
           /\ flow = [flow EXCEPT ![o] = flow[o]] /\ sent = [sent EXCEPT ![o] = sent[o]]
           /\ op[o].ending = "no" => op[o].terminals = 0
BY DEF AccountInv, Typed, Answering, Endings

(* #finishDeviceSignIn(), #finishSdkSignIn(): a sign-in ends once.           *)
LEMMA FinishStep ==
    ASSUME AccountInv, NEW o \in Ops, NEW r \in Operation, NEW outcome \in Terminal \cup {"completed"},
           Finish(o, r, outcome), op[o].phase # "idle",
           r.ending = op[o].ending, r.terminals = op[o].terminals, r.phase # "idle",
           Finished(o) => Consistent(r, flow[o], sent[o]),
           Shaped(r),
           UNCHANGED <<choice, view, use, clients, sessions>>
    PROVE  AccountInv'
<1>1. CASE Finished(o)
  <2>1. Calm(o, r, flow[o], sent[o])
    BY <1>1, OpFacts DEF Finish, Becomes, Calm
  <2> QED BY <2>1, CalmStep
<1>2. CASE ~Finished(o)
  <2> DEFINE e == [Ending(r, "releasing") EXCEPT !.outcome = outcome]
  <2>1. e \in Operation /\ e.ending = "releasing" /\ e.terminals = r.terminals /\ e.action = None
        /\ e.phase = r.phase /\ e.mode = r.mode /\ e.opener = r.opener /\ e.advancing = r.advancing
    BY DEF Operation, Ending
  <2>2. op' = [op EXCEPT ![o] = e] /\ flow' = [flow EXCEPT ![o] = None] /\ sent' = [sent EXCEPT ![o] = <<>>]
    BY <1>2 DEF Finish, Becomes
  <2>3. op[o].ending = "no"
    BY <1>2 DEF Finished
  <2> HIDE DEF e
  <2>4. Consistent(e, None, <<>>)
    BY <2>1 DEF Consistent, Shaped
  <2>5. Calm(o, e, None, <<>>)
    BY <2>1, <2>2, <2>3, <2>4, EmptySeq DEF Calm
  <2> QED BY <2>5, CalmStep
<1> QED BY <1>1, <1>2

LEMMA SignInStep ==
    ASSUME AccountInv, NEW o \in Ops, SignIn(o)
    PROVE  AccountInv'
<1>1. PICK m \in Modes : op' = [op EXCEPT ![o] = [NoOp EXCEPT !.mode = m, !.phase = IF m = "sdk" THEN "creating" ELSE "running"]]
  BY DEF SignIn, Becomes
<1> DEFINE r == [NoOp EXCEPT !.mode = m, !.phase = IF m = "sdk" THEN "creating" ELSE "running"]
<1>2. m \in {"sdk", "device"}
  BY AccountConstants
<1>3. r \in Operation /\ r.terminals = 0 /\ r.ending = "no" /\ r.action = None /\ ~r.opener /\ ~r.cancel /\ r.phase # "idle"
      /\ ~r.advancing /\ r.mode = m /\ (r.phase # "running" => m = "sdk")
  BY <1>2 DEF NoOp, Operation
<1>4. op[o].ending = "no" /\ sent[o] = <<>> /\ op[o].terminals = 0
  BY OpFacts DEF SignIn, Consistent, Shaped
<1>5. op' = [op EXCEPT ![o] = r]
  BY <1>1
<1> HIDE DEF r
<1>6. Consistent(r, flow[o], sent[o])
  BY <1>2, <1>3, <1>4 DEF Consistent, Shaped
<1>7. Calm(o, r, flow[o], sent[o])
  BY <1>3, <1>4, <1>5, <1>6, OpFacts DEF Calm, SignIn
<1> QED BY <1>7, CalmStep

(* A step of the sign-in that leaves its end and its answers alone.          *)
LEMMA PlainStep ==
    ASSUME AccountInv, NEW o \in Ops, NEW r \in Operation, op' = [op EXCEPT ![o] = r],
           r.ending = op[o].ending, r.terminals = op[o].terminals, Consistent(r, flow[o], sent[o]),
           UNCHANGED <<choice, view, use, flow, sent>>,
           \A e \in Ops : e \in clients' \cup sessions' => e \in clients \cup sessions \/ (e = o /\ op[o].ending = "no")
    PROVE  AccountInv'
<1>1. Calm(o, r, flow[o], sent[o])
  BY OpFacts DEF Calm
<1> QED BY <1>1, CalmStep

LEMMA StartStep ==
    ASSUME AccountInv, NEW o \in Ops, Created(o) \/ Started(o) \/ SessionOpened(o)
    PROVE  AccountInv'
<1>1. op[o].phase \in {"creating", "starting", "opening"} /\ UNCHANGED <<choice, view, use>>
  BY DEF Created, Started, SessionOpened
<1>2. ASSUME Fails(o) PROVE AccountInv'
  <2> DEFINE r == [op[o] EXCEPT !.phase = "over"]
  <2>1. r \in Operation /\ r.ending = op[o].ending /\ r.terminals = op[o].terminals /\ r.phase = "over"
        /\ r.mode = op[o].mode /\ r.opener = op[o].opener /\ r.action = op[o].action /\ r.advancing = op[o].advancing
        /\ r.cancel = op[o].cancel
    BY OpFacts DEF Operation
  <2>2. Finish(o, r, "failed") /\ UNCHANGED <<clients, sessions>>
    BY <1>2 DEF Fails
  <2> HIDE DEF r
  <2>3. Finished(o) => Consistent(r, flow[o], sent[o])
    BY <1>1, <2>1, OpFacts DEF Consistent, Shaped, Finished
  <2>4. Shaped(r)
    BY <1>1, <2>1, OpFacts DEF Consistent, Shaped
  <2> QED BY <1>1, <2>1, <2>2, <2>3, <2>4, FinishStep DEF Terminal
<1>3. ASSUME NEW p \in {"over", "starting", "opening", "beginning"}, Goes(o, p), UNCHANGED <<flow, sent>>,
             \A e \in Ops : e \in clients' \cup sessions' => e \in clients \cup sessions \/ (e = o /\ ~Finished(o))
      PROVE  AccountInv'
  <2> DEFINE r == [op[o] EXCEPT !.phase = p]
  <2>1. r \in Operation /\ r.ending = op[o].ending /\ r.terminals = op[o].terminals /\ r.phase = p
        /\ r.mode = op[o].mode /\ r.opener = op[o].opener /\ r.action = op[o].action
        /\ r.cancel = op[o].cancel /\ r.advancing = op[o].advancing
    BY OpFacts DEF Operation
  <2>2. op' = [op EXCEPT ![o] = r]
    BY <1>3 DEF Goes, Becomes
  <2> HIDE DEF r
  <2>3. Consistent(r, flow[o], sent[o])
    BY <1>1, <2>1, OpFacts DEF Consistent, Shaped
  <2> QED BY <1>1, <1>3, <2>1, <2>2, <2>3, PlainStep DEF Finished
<1>4. CASE Created(o)
  BY <1>2, <1>3, <1>4 DEF Created
<1>5. CASE Started(o)
  BY <1>2, <1>3, <1>5 DEF Started
<1>6. CASE SessionOpened(o)
  BY <1>2, <1>3, <1>6 DEF SessionOpened
<1> QED BY <1>4, <1>5, <1>6
-----------------------------------------------------------------------------
(* #handleSdkStep(): the step becomes the pending action, or the end.        *)
LEMMA HandleStep ==
    ASSUME AccountInv, NEW o \in Ops, NEW r \in Operation, NEW k \in Answers, NEW open \in BOOLEAN, Handle(o, r, k, open),
           op[o].phase # "idle", r.phase = "over", r.mode = "sdk", ~r.advancing, r.cancel => Finished(o),
           r.ending = op[o].ending, r.terminals = op[o].terminals,
           Finished(o) => Consistent(r, flow[o], sent[o]), Shaped(r),
           UNCHANGED <<choice, view, use, clients, sessions>>
    PROVE  AccountInv'
<1>1. CASE Finished(o)
  <2>1. op' = [op EXCEPT ![o] = r] /\ UNCHANGED <<flow, sent>>
    BY <1>1 DEF Handle, Becomes
  <2> QED BY <1>1, <2>1, PlainStep
<1>2. CASE ~Finished(o) /\ k \in Steps
  <2> DEFINE e == [r EXCEPT !.action = k, !.opener = r.opener \/ (k = "url" /\ open)]
  <2>1. e \in Operation /\ e.ending = r.ending /\ e.terminals = r.terminals /\ e.action = k
        /\ e.phase = "over" /\ e.mode = "sdk" /\ e.cancel = r.cancel /\ e.advancing = r.advancing
    BY <1>2 DEF Operation
  <2>2. op' = [op EXCEPT ![o] = e] /\ flow' = [flow EXCEPT ![o] = k]
        /\ sent' = [sent EXCEPT ![o] = IF sent[o] = <<>> THEN sent[o] ELSE Tail(sent[o])]
    BY <1>2 DEF Handle, Becomes
  <2>3. (IF sent[o] = <<>> THEN sent[o] ELSE Tail(sent[o])) = <<>>
    <3>1. \A a : Tail(<<a>>) = <<>>
      OBVIOUS
    <3>2. CASE sent[o] # <<>>
      <4>1. PICK a \in Replies : sent[o] = <<a>>
        BY <3>2, OpFacts DEF Consistent
      <4>2. Tail(sent[o]) = <<>>
        BY <3>1, <4>1
      <4> QED BY <3>2, <4>2
    <3> QED BY <3>2
  <2> HIDE DEF e
  <2>4. Consistent(e, k, <<>>)
    BY <1>2, <2>1 DEF Consistent, Shaped, Finished
  <2>5. Calm(o, e, k, <<>>)
    BY <1>2, <2>1, <2>2, <2>3, <2>4, EmptySeq DEF Calm
  <2> QED BY <2>5, CalmStep
<1>3. CASE ~Finished(o) /\ k \notin Steps
  <2>1. Finish(o, r, k)
    BY <1>3 DEF Handle
  <2>2. k \in Terminal \cup {"completed"}
    BY <1>3 DEF Answers, Terminal
  <2> QED BY <1>3, <2>1, <2>2, FinishStep
<1> QED BY <1>1, <1>2, <1>3

LEMMA StepsStep ==
    ASSUME AccountInv, NEW o \in Ops, Begun(o) \/ Advanced(o)
    PROVE  AccountInv'
<1>1. UNCHANGED <<choice, view, use, clients, sessions>>
  BY DEF Begun, Advanced
<1>2. CASE Begun(o)
  <2> DEFINE r == [op[o] EXCEPT !.phase = "over"]
  <2>1. r \in Operation /\ r.ending = op[o].ending /\ r.terminals = op[o].terminals /\ r.phase = "over"
        /\ r.mode = op[o].mode /\ r.opener = op[o].opener /\ r.action = op[o].action
        /\ r.cancel = op[o].cancel /\ r.advancing = op[o].advancing
    BY OpFacts DEF Operation
  <2>2. PICK k \in Answers : Handle(o, r, k, OpensBrowser)
    BY <1>2 DEF Begun
  <2> HIDE DEF r
  <2>3. op[o].phase = "beginning" /\ op[o].mode = "sdk" /\ ~op[o].opener /\ op[o].action = None /\ sent[o] = <<>>
    BY <1>2, OpFacts DEF Begun, Consistent, Shaped
  <2>4. Consistent(r, flow[o], sent[o])
    BY <2>1, <2>3, OpFacts DEF Consistent, Shaped
  <2>5. r.cancel => Finished(o)
    BY <2>1, <2>3, OpFacts DEF Consistent, Shaped, Finished
  <2>6. ~r.advancing /\ Shaped(r)
    BY <2>1, <2>3, OpFacts DEF Consistent, Shaped
  <2> QED BY <1>1, <2>1, <2>2, <2>3, <2>4, <2>5, <2>6, AccountConstants, HandleStep
<1>3. CASE Advanced(o)
  <2> DEFINE r == [op[o] EXCEPT !.advancing = FALSE]
  <2>1. r \in Operation /\ r.ending = op[o].ending /\ r.terminals = op[o].terminals /\ r.phase = op[o].phase
        /\ r.mode = op[o].mode /\ r.opener = op[o].opener /\ r.action = op[o].action
        /\ r.cancel = op[o].cancel /\ ~r.advancing
    BY OpFacts DEF Operation
  <2>2. PICK k \in Answers : Handle(o, r, k, FALSE)
    BY <1>3 DEF Advanced
  <2> HIDE DEF r
  <2>3. op[o].phase = "over" /\ op[o].mode # "device" /\ op[o].ending = "no"
    BY <1>3, OpFacts DEF Advanced, Consistent, Shaped
  <2>4. ~r.cancel
    BY <2>1, <2>3, OpFacts DEF Consistent, Shaped
  <2>5. r.mode = "sdk" /\ Shaped(r)
    BY <2>1, <2>3, OpFacts DEF Consistent, Shaped
  <2> QED BY <1>1, <2>1, <2>2, <2>3, <2>4, <2>5, HandleStep DEF Finished
<1> QED BY <1>2, <1>3

(* continueSignIn(), and the opening of the browser: an answer is sent only  *)
(* when none is on its way.                                                  *)
LEMMA AnswerStep ==
    ASSUME AccountInv, NEW o \in Ops, NEW r \in Operation, NEW a \in Replies, Answered(o, r, a),
           op[o].ending = "no", ~op[o].advancing, r.phase = op[o].phase, r.mode = op[o].mode, r.cancel = op[o].cancel,
           r.ending = "no", r.terminals = op[o].terminals, Shaped(r), r.phase = "over", r.mode = "sdk",
           r.action # None => r.action = flow[o], a.by = "person" => a.to = flow[o],
           UNCHANGED <<choice, view, use, flow, clients, sessions>>
    PROVE  AccountInv'
<1> DEFINE e == [r EXCEPT !.advancing = TRUE]
<1>1. e \in Operation /\ e.ending = "no" /\ e.terminals = op[o].terminals /\ e.action = r.action
      /\ e.phase = "over" /\ e.mode = "sdk" /\ e.opener = r.opener /\ e.cancel = r.cancel /\ e.advancing
  BY DEF Operation
<1>2. op' = [op EXCEPT ![o] = e] /\ sent' = [sent EXCEPT ![o] = Append(sent[o], a)]
  BY DEF Answered, Becomes
<1>3. Append(sent[o], a) = <<a>>
  <2>1. sent[o] = <<>>
    BY OpFacts DEF Consistent
  <2> QED BY <2>1
<1> HIDE DEF e
<1>4. Consistent(e, flow[o], <<a>>)
  BY <1>1, OpFacts DEF Consistent, Shaped
<1>5. Calm(o, e, flow[o], <<a>>)
  BY <1>1, <1>2, <1>3, <1>4, OpFacts DEF Calm
<1> QED BY <1>5, CalmStep

LEMMA AnswersStep ==
    ASSUME AccountInv, NEW o \in Ops, Continued(o) \/ BrowserOpened(o)
    PROVE  AccountInv'
<1>1. CASE Continued(o)
  <2> DEFINE r == [op[o] EXCEPT !.action = None]
             a == Answer("person", op[o].action)
  <2>1. ~Finished(o) /\ ~op[o].advancing /\ op[o].action \in Steps \ {"consent"} /\ Answered(o, r, a)
        /\ UNCHANGED <<choice, view, use, flow, clients, sessions>>
    BY <1>1 DEF Continued
  <2>2. r \in Operation /\ r.phase = op[o].phase /\ r.mode = op[o].mode /\ r.cancel = op[o].cancel
        /\ r.ending = op[o].ending /\ r.terminals = op[o].terminals /\ r.action = None
        /\ r.opener = op[o].opener /\ r.advancing = op[o].advancing
    BY OpFacts DEF Operation
  <2>3. a \in Replies /\ a.by = "person" /\ a.to = op[o].action
    BY <2>1 DEF Answer, Replies
  <2>4. op[o].action # None /\ op[o].ending = "no"
    BY <2>1 DEF Finished, None, Steps
  <2> HIDE DEF r, a
  <2>5. op[o].phase = "over" /\ op[o].mode = "sdk" /\ flow[o] = op[o].action
    BY <2>4, OpFacts DEF Consistent, Shaped
  <2>6. Shaped(r)
    BY <2>2, <2>5 DEF Shaped
  <2> QED BY <2>1, <2>2, <2>3, <2>4, <2>5, <2>6, AnswerStep
<1>2. CASE BrowserOpened(o)
  <2> DEFINE r == [op[o] EXCEPT !.opener = FALSE]
             a == Answer("opener", "url")
  <2>1. op[o].opener /\ UNCHANGED <<choice, view, use, flow, clients, sessions>>
        /\ ((Becomes(o, r) /\ UNCHANGED sent) \/ (~Finished(o) /\ ~r.advancing /\ Answered(o, r, a)))
    BY <1>2 DEF BrowserOpened
  <2>2. r \in Operation /\ r.phase = op[o].phase /\ r.mode = op[o].mode /\ r.cancel = op[o].cancel
        /\ r.ending = op[o].ending /\ r.terminals = op[o].terminals /\ r.action = op[o].action
        /\ ~r.opener /\ r.advancing = op[o].advancing
    BY OpFacts DEF Operation
  <2>3. a \in Replies /\ a.by = "opener"
    BY DEF Answer, Replies, Steps
  <2> HIDE DEF r, a
  <2>4. op[o].phase = "over" /\ op[o].mode = "sdk"
    BY <2>1, OpFacts DEF Consistent, Shaped
  <2>5. Shaped(r) /\ Consistent(r, flow[o], sent[o])
    BY <2>2, <2>4, OpFacts DEF Consistent, Shaped
  <2>6. CASE Becomes(o, r) /\ UNCHANGED sent
    BY <2>1, <2>2, <2>5, <2>6, PlainStep DEF Becomes
  <2>7. CASE ~Finished(o) /\ ~r.advancing /\ Answered(o, r, a)
    <3>1. op[o].ending = "no"
      BY <2>7 DEF Finished
    <3>2. r.action # None => r.action = flow[o]
      BY <2>2, <3>1, OpFacts DEF Consistent
    <3> QED BY <2>1, <2>2, <2>3, <2>4, <2>5, <2>7, <3>1, <3>2, AnswerStep
  <2> QED BY <2>1, <2>6, <2>7
<1> QED BY <1>1, <1>2

(* The exit of a device-code child, and a cancellation.                      *)
LEMMA DeviceStep ==
    ASSUME AccountInv, NEW o \in Ops, Exits(o) \/ ChildErrs(o) \/ Cancel(o)
    PROVE  AccountInv'
<1>1. UNCHANGED <<choice, view, use, clients, sessions>>
  BY DEF Exits, ChildErrs, Cancel
<1>2. ASSUME NEW p \in {"running", "over"}, NEW outcome \in Terminal \cup {"completed"},
             op[o].mode = "device", op[o].phase = "running", Finish(o, [op[o] EXCEPT !.phase = p], outcome)
      PROVE  AccountInv'
  <2> DEFINE r == [op[o] EXCEPT !.phase = p]
  <2>1. r \in Operation /\ r.ending = op[o].ending /\ r.terminals = op[o].terminals /\ r.phase = p
        /\ r.mode = op[o].mode /\ r.opener = op[o].opener /\ r.action = op[o].action
        /\ r.cancel = op[o].cancel /\ r.advancing = op[o].advancing
    BY OpFacts DEF Operation
  <2>2. Finish(o, r, outcome)
    BY <1>2
  <2> HIDE DEF r
  <2>3. Shaped(r) /\ Consistent(r, flow[o], sent[o])
    BY <1>2, <2>1, OpFacts DEF Consistent, Shaped
  <2> QED BY <1>1, <1>2, <2>1, <2>2, <2>3, FinishStep
<1>3. CASE Exits(o)
  <2>1. PICK code \in {"completed", "failed"} :
          Finish(o, [op[o] EXCEPT !.phase = "over"], IF op[o].cancel THEN "cancelled" ELSE code)
    BY <1>3 DEF Exits
  <2>2. (IF op[o].cancel THEN "cancelled" ELSE code) \in Terminal \cup {"completed"}
    BY DEF Terminal
  <2>3. op[o].mode = "device" /\ op[o].phase = "running"
    BY <1>3 DEF Exits
  <2> QED BY <1>2, <2>1, <2>2, <2>3
<1>4. CASE ChildErrs(o)
  BY <1>2, <1>4 DEF ChildErrs, Terminal
<1>5. CASE Cancel(o)
  <2> DEFINE r == [op[o] EXCEPT !.cancel = TRUE]
  <2>1. r \in Operation /\ r.ending = op[o].ending /\ r.terminals = op[o].terminals /\ r.phase = op[o].phase
        /\ r.mode = op[o].mode /\ r.opener = op[o].opener /\ r.action = op[o].action
        /\ r.cancel /\ r.advancing = op[o].advancing
    BY OpFacts DEF Operation
  <2>2. op[o].phase # "idle" /\ op[o].ending = "no"
        /\ ((r.mode = "sdk" /\ Finish(o, r, "cancelled")) \/ (r.mode = "device" /\ Becomes(o, r) /\ UNCHANGED <<flow, sent>>))
    BY <1>5 DEF Cancel, Active, Finished
  <2> HIDE DEF r
  <2>3. Shaped(r)
    BY <2>1, OpFacts DEF Consistent, Shaped
  <2>4. CASE r.mode = "sdk" /\ Finish(o, r, "cancelled")
    BY <1>1, <2>1, <2>2, <2>3, <2>4, FinishStep DEF Finished, Terminal
  <2>5. CASE r.mode = "device" /\ Becomes(o, r) /\ UNCHANGED <<flow, sent>>
    <3>1. Consistent(r, flow[o], sent[o])
      BY <2>1, <2>3, <2>5, OpFacts DEF Consistent
    <3> QED BY <1>1, <2>1, <2>5, <3>1, PlainStep DEF Becomes
  <2> QED BY <2>2, <2>4, <2>5
<1> QED BY <1>3, <1>4, <1>5

LEMMA EndGoesStep ==
    ASSUME AccountInv, NEW o \in Ops, EndGoes(o)
    PROVE  AccountInv'
<1>1. {"clearing", Place} \subseteq {"clearing", "waiting", "joined"} /\ Place # "clearing"
  BY DEF Place
<1>2. CASE Released(o)
  <2>1. o \notin clients' \cup sessions' /\ clients' \subseteq clients /\ sessions' \subseteq sessions
        /\ op[o].ending = "releasing" /\ UNCHANGED <<choice, use, flow, sent>>
    BY <1>2 DEF Released
  <2>2. CASE op[o].outcome = "completed"
    BY <1>2, <2>1, <2>2, EndingStep DEF Released, Becomes
  <2>3. CASE op[o].outcome # "completed"
    BY <1>1, <1>2, <2>1, <2>3, EndingStep DEF Released, Becomes
  <2> QED BY <2>2, <2>3
<1>3. CASE Cleared(o)
  <2>1. o \notin clients \cup sessions
    BY <1>3 DEF Cleared, AccountInv, Endings
  <2> QED BY <1>1, <1>3, <2>1, EndingStep DEF Cleared, Becomes
<1> QED BY <1>2, <1>3 DEF EndGoes

LEMMA AccountStep == AccountInv /\ [Next]_vars => AccountInv'
<1> SUFFICES ASSUME AccountInv, [Next]_vars PROVE AccountInv'
  OBVIOUS
<1>1. ASSUME UNCHANGED <<choice, view, use, signing>> PROVE AccountInv'
  <2>1. Waiting' = Waiting /\ Settled' = Settled
    BY <1>1 DEF Waiting, Settled, view, signing
  <2> QED BY <1>1, <2>1 DEF AccountInv, Typed, Views, Endings, Answering, view, signing
<1>2. CASE World \/ UNCHANGED vars
  BY <1>1, <1>2 DEF World, vars
<1>3. CASE Check
  <2>1. check'.phase = "resolving" /\ UNCHANGED <<choice, use, signing>>
    BY <1>3 DEF Check, Begins
  <2> QED BY <2>1 DEF AccountInv, Typed, Views, Endings, Answering, signing
<1>4. CASE CheckGoes
  BY <1>4, CheckGoesStep
<1>5. ASSUME NEW u \in Uses, UseExisting(u) \/ UseGoes(u) PROVE AccountInv'
  BY <1>5, UseStep
<1>6. ASSUME NEW o \in Ops, SignIn(o) PROVE AccountInv'
  BY <1>6, SignInStep
<1>7. ASSUME NEW o \in Ops, StartGoes(o) PROVE AccountInv'
  BY <1>7, StartStep, StepsStep DEF StartGoes
<1>8. ASSUME NEW o \in Ops, EndGoes(o) PROVE AccountInv'
  BY <1>8, EndGoesStep
<1>9. ASSUME NEW o \in Ops, Continued(o) \/ BrowserOpened(o) PROVE AccountInv'
  BY <1>9, AnswersStep
<1>10. ASSUME NEW o \in Ops, Advanced(o) PROVE AccountInv'
  BY <1>10, StepsStep
<1>11. ASSUME NEW o \in Ops, Exits(o) \/ ChildErrs(o) \/ Cancel(o) PROVE AccountInv'
  BY <1>11, DeviceStep
<1> QED BY <1>2, <1>3, <1>4, <1>5, <1>6, <1>7, <1>8, <1>9, <1>10, <1>11 DEF Next

LEMMA Invariant == Spec => []AccountInv
BY AccountInit, AccountStep, PTL DEF Spec
-----------------------------------------------------------------------------
(* When no check runs, the published state is that of the saved choice.      *)
THEOREM ViewFresh == Spec => []ViewIsFresh
<1>1. AccountInv => ViewIsFresh
  BY DEF AccountInv, Views, ViewIsFresh, Settled
<1> QED BY <1>1, Invariant, PTL

(* A sign-in is told once how it ended, and nothing it started is left.      *)
THEOREM EndedOnce == Spec => []EndsOnce
<1>1. AccountInv => EndsOnce
  BY DEF AccountInv, Endings, EndsOnce
<1> QED BY <1>1, Invariant, PTL

(* What the person answers goes to the step it answers.                      *)
THEOREM AnswersPlaced == Spec => []PersonAnswersAsked
<1>1. AccountInv => PersonAnswersAsked
  <2> SUFFICES ASSUME AccountInv, NEW o \in Ops, NEW i \in DOMAIN sent[o], sent[o][i].by = "person"
               PROVE  sent[o][i].to = flow[o]
    BY DEF PersonAnswersAsked
  <2>1. sent[o] # <<>>
    OBVIOUS
  <2>2. PICK a \in Replies : sent[o] = <<a>> /\ (a.by = "person" => a.to = flow[o])
    BY <2>1, OpFacts DEF Consistent
  <2>3. sent[o][i] = a
    BY <2>2
  <2> QED BY <2>2, <2>3
<1> QED BY <1>1, Invariant, PTL
=============================================================================
