------------------------------- MODULE EventLog -------------------------------
(***************************************************************************)
(* src/src/events.mjs: the bounded per-conversation replay buffer          *)
(* (EventLog) and the async-iterable feeds on top of it (watchEvents).     *)
(*                                                                         *)
(* A feed is a JavaScript async generator: it runs only when its consumer  *)
(* asks for the next envelope, so a publication or a loss of the           *)
(* connection can fall between any two envelopes the consumer takes.       *)
(***************************************************************************)
EXTENDS Naturals, Sequences, FiniteSets

CONSTANTS
    Conversations,  \* conversation ids (a threadId, a sessionId, a Fleet agentId)
    Watchers,       \* consumers; each follows one conversation, maybe several times
    ConvOf,         \* ConvOf[w]: the conversation w follows
    bufferSize,     \* replayBufferSize
    MaxSeq,         \* bound: publications per conversation between two clears
    MaxClears       \* bound: clear() calls per conversation

ASSUME ConvAssumption == ConvOf \in [Watchers -> Conversations]
ASSUME SizeAssumption == bufferSize \in Nat /\ MaxSeq \in Nat /\ MaxClears \in Nat

VARIABLES
    seqs,       \* seqs[c]: last seq issued, 0 when the map has no entry
    buffers,    \* buffers[c]: retained envelopes, oldest first
    clears,     \* clears[c]: number of clear(c) calls so far
    pc,         \* pc[w]: where the generator of w is suspended
    backlog,    \* backlog[w]: what it still yields before it reaches its loop
    queue,      \* queue[w]: live envelopes pushed and not yet yielded
    closed,     \* closed[w]: 'lost' has been observed
    cursor,     \* cursor[w]: seq of the last envelope the consumer was handed
    told        \* told[w]: the seqs gap envelopes told the consumer it missed

logVars == <<seqs, buffers, clears>>
feedVars == <<pc, backlog, queue, closed>>
consumerVars == <<cursor, told>>
vars == <<logVars, feedVars, consumerVars>>

(* "off": no generator. "backlog": not started, or suspended at a yield of  *)
(* line 89 or 90. "live": suspended at the yield of line 93. "waiting":     *)
(* next() is pending on the waiter of line 92. "woken": the waiter has been *)
(* resolved and the continuation has not run. "ended": the loop was left.   *)
PCs == {"off", "backlog", "live", "waiting", "woken", "ended"}

(* push and onLost stay registered until the generator's finally clause. *)
Listening(w) == pc[w] \in {"backlog", "live", "waiting", "woken"}

EnvelopeMistyped(c, n) == [conversationId |-> c, type |-> "gap", seq |-> n, missed |-> 0]
Envelope(c, n) == [conversationId |-> c, type |-> "event", seq |-> n, missed |-> 0]
(* The synthetic envelope of line 89; m counts what was missed after seq n. *)
Gap(c, n, m) == [conversationId |-> c, type |-> "gap", seq |-> n, missed |-> m]

Init ==
    /\ seqs = [c \in Conversations |-> 0]
    /\ buffers = [c \in Conversations |-> <<>>]
    /\ clears = [c \in Conversations |-> 0]
    /\ pc = [w \in Watchers |-> "off"]
    /\ backlog = [w \in Watchers |-> <<>>]
    /\ queue = [w \in Watchers |-> <<>>]
    /\ closed = [w \in Watchers |-> FALSE]
    /\ cursor = [w \in Watchers |-> 0]
    /\ told = [w \in Watchers |-> {}]

-----------------------------------------------------------------------------
(* EventLog *)

UnboundedBuffer(buffer) == IF Len(buffer) > bufferSize + 1 THEN Tail(buffer) ELSE buffer
Bounded(buffer) == IF Len(buffer) > bufferSize THEN Tail(buffer) ELSE buffer

OldestSeq(c) == IF buffers[c] = <<>> THEN seqs[c] + 1 ELSE buffers[c][1].seq

MissedOffByOne(c, afterSeq) ==
    IF afterSeq > 0 /\ afterSeq < OldestSeq(c) - 1 THEN OldestSeq(c) - 2 - afterSeq ELSE 0
Missed(c, afterSeq) ==
    IF afterSeq > 0 /\ afterSeq < OldestSeq(c) - 1 THEN OldestSeq(c) - 1 - afterSeq ELSE 0

(* `buffer.filter(e => e.seq > afterSeq)`: the buffer is in seq order, so    *)
(* what the filter keeps is the part that starts at the first such envelope. *)
FromFirst(buffer, kept) ==
    IF kept = {} THEN <<>>
    ELSE SubSeq(buffer, CHOOSE i \in kept : \A j \in kept : i <= j, Len(buffer))

RetainedInclusive(c, afterSeq) ==
    FromFirst(buffers[c], {i \in 1..Len(buffers[c]) : buffers[c][i].seq >= afterSeq})
Retained(c, afterSeq) ==
    FromFirst(buffers[c], {i \in 1..Len(buffers[c]) : buffers[c][i].seq > afterSeq})

-----------------------------------------------------------------------------
(* watchEvents *)

(* `push`: an envelope of the watched conversation is queued and the       *)
(* pending next() of that feed, if any, is released.                       *)
PushOnlyLooping(e) ==
    LET hears(w) == Listening(w) /\ pc[w] # "backlog" /\ ConvOf[w] = e.conversationId
    IN /\ queue' = [w \in Watchers |-> IF hears(w) THEN Append(queue[w], e) ELSE queue[w]]
       /\ pc' = [w \in Watchers |-> IF hears(w) /\ pc[w] = "waiting" THEN "woken" ELSE pc[w]]
PushWithoutWaking(e) ==
    LET hears(w) == Listening(w) /\ ConvOf[w] = e.conversationId
    IN /\ queue' = [w \in Watchers |-> IF hears(w) THEN Append(queue[w], e) ELSE queue[w]]
       /\ UNCHANGED pc
Push(e) ==
    LET hears(w) == Listening(w) /\ ConvOf[w] = e.conversationId
    IN /\ queue' = [w \in Watchers |-> IF hears(w) THEN Append(queue[w], e) ELSE queue[w]]
       /\ pc' = [w \in Watchers |-> IF hears(w) /\ pc[w] = "waiting" THEN "woken" ELSE pc[w]]

(* EventLog#publish, then the owner's synchronous 'event' emission. *)
Publish(c) ==
    /\ seqs[c] < MaxSeq
    /\ seqs' = [seqs EXCEPT ![c] = @ + 1]
    /\ buffers' = [buffers EXCEPT ![c] = Bounded(Append(@, Envelope(c, seqs[c] + 1)))]
    /\ Push(Envelope(c, seqs[c] + 1))
    /\ UNCHANGED <<clears, backlog, closed, consumerVars>>

Clear(c) ==
    /\ clears[c] < MaxClears
    /\ clears' = [clears EXCEPT ![c] = @ + 1]
    /\ seqs' = [seqs EXCEPT ![c] = 0]
    /\ buffers' = [buffers EXCEPT ![c] = <<>>]
    /\ UNCHANGED <<feedVars, consumerVars>>

(* The consumer subscribes from the last seq it was handed: 0, the default *)
(* of `since`, the first time. The listener is registered and the backlog  *)
(* is taken in one synchronous call.                                       *)
Watch(w) ==
    LET c == ConvOf[w]
        missed == Missed(c, cursor[w])
        gap == IF missed > 0 THEN <<Gap(c, cursor[w], missed)>> ELSE <<>>
    IN /\ ~Listening(w)
       /\ pc' = [pc EXCEPT ![w] = "backlog"]
       /\ backlog' = [backlog EXCEPT ![w] = gap \o Retained(c, cursor[w])]
       /\ queue' = [queue EXCEPT ![w] = <<>>]
       /\ closed' = [closed EXCEPT ![w] = FALSE]
       /\ UNCHANGED <<logVars, consumerVars>>

(* The consumer is handed e. *)
Hand(w, e) ==
    IF e.type = "gap"
    THEN /\ told' = [told EXCEPT ![w] = @ \union ((e.seq + 1)..(e.seq + e.missed))]
         /\ UNCHANGED cursor
    ELSE /\ cursor' = [cursor EXCEPT ![w] = e.seq]
         /\ UNCHANGED told

(* next() while the generator has backlog left (lines 89-90). *)
PullBacklog(w) ==
    /\ pc[w] = "backlog" /\ backlog[w] # <<>>
    /\ Hand(w, Head(backlog[w]))
    /\ backlog' = [backlog EXCEPT ![w] = Tail(@)]
    /\ UNCHANGED <<logVars, pc, queue, closed>>

(* The generator is about to look at its queue: it has passed the test of  *)
(* `closed` of line 91, or is inside the loop of line 93.                  *)
AtQueue(w) ==
    \/ pc[w] = "backlog" /\ backlog[w] = <<>> /\ ~closed[w]
    \/ pc[w] \in {"live", "woken"}

PullLive(w) ==
    /\ AtQueue(w) /\ queue[w] # <<>>
    /\ Hand(w, Head(queue[w]))
    /\ queue' = [queue EXCEPT ![w] = Tail(@)]
    /\ pc' = [pc EXCEPT ![w] = "live"]
    /\ UNCHANGED <<logVars, backlog, closed>>

(* Nothing to yield: wait (line 92) unless the connection was lost. *)
PullWait(w) ==
    /\ AtQueue(w) /\ queue[w] = <<>> /\ ~closed[w]
    /\ pc' = [pc EXCEPT ![w] = "waiting"]
    /\ UNCHANGED <<logVars, backlog, queue, closed, consumerVars>>

(* The loop is left; the finally clause unregisters the listeners. *)
PullEnd(w) ==
    /\ closed[w]
    /\ \/ pc[w] = "backlog" /\ backlog[w] = <<>>
       \/ pc[w] \in {"live", "woken"} /\ queue[w] = <<>>
    /\ pc' = [pc EXCEPT ![w] = "ended"]
    /\ UNCHANGED <<logVars, backlog, queue, closed, consumerVars>>

Pull(w) == PullBacklog(w) \/ PullLive(w) \/ PullWait(w) \/ PullEnd(w)

(* `break`: the generator is suspended at a yield and is returned. *)
Break(w) ==
    /\ pc[w] \in {"backlog", "live"}
    /\ pc' = [pc EXCEPT ![w] = "off"]
    /\ backlog' = [backlog EXCEPT ![w] = <<>>]
    /\ queue' = [queue EXCEPT ![w] = <<>>]
    /\ UNCHANGED <<logVars, closed, consumerVars>>

(* The owner emits 'lost': every feed observes it once (line 83). *)
LostSilently ==
    /\ closed' = [w \in Watchers |-> closed[w] \/ Listening(w)]
    /\ UNCHANGED <<logVars, pc, backlog, queue, consumerVars>>
Lost ==
    /\ closed' = [w \in Watchers |-> closed[w] \/ Listening(w)]
    /\ pc' = [w \in Watchers |-> IF pc[w] = "waiting" THEN "woken" ELSE pc[w]]
    /\ UNCHANGED <<logVars, backlog, queue, consumerVars>>

Next ==
    \/ \E c \in Conversations : Publish(c) \/ Clear(c)
    \/ \E w \in Watchers : Watch(w) \/ Pull(w) \/ Break(w)
    \/ Lost

Spec == Init /\ [][Next]_vars

(* A consumer that iterates asks again whenever next() has answered, and   *)
(* the continuation of a resolved waiter runs.                             *)
FairSpec == Spec /\ \A w \in Watchers : WF_vars(Pull(w))

-----------------------------------------------------------------------------
(* Properties *)

Envelopes == [conversationId : Conversations, type : {"event"}, seq : Nat, missed : {0}]
Gaps == [conversationId : Conversations, type : {"gap"}, seq : Nat, missed : Nat]

(* Types; a gap envelope is only ever the first thing a feed yields. *)
TypeOK ==
    /\ seqs \in [Conversations -> Nat]
    /\ clears \in [Conversations -> Nat]
    /\ buffers \in [Conversations -> Seq(Envelopes)]
    /\ pc \in [Watchers -> PCs]
    /\ backlog \in [Watchers -> Seq(Envelopes \union Gaps)]
    /\ \A w \in Watchers : \A i \in 2..Len(backlog[w]) : backlog[w][i] \in Envelopes
    /\ queue \in [Watchers -> Seq(Envelopes)]
    /\ closed \in [Watchers -> BOOLEAN]
    /\ cursor \in [Watchers -> Nat]
    /\ told \in [Watchers -> SUBSET Nat]

(* The replay buffer is exactly the end of the conversation: its last      *)
(* min(bufferSize, seq) envelopes, in order, with no hole (publish).       *)
BufferIsSuffix ==
    \A c \in Conversations :
       /\ Len(buffers[c]) = IF seqs[c] < bufferSize THEN seqs[c] ELSE bufferSize
       /\ \A i \in 1..Len(buffers[c]) :
             buffers[c][i] = Envelope(c, seqs[c] - Len(buffers[c]) + i)

(* since(c, n) accounts for everything after n: it returns the buffered    *)
(* envelopes that come after n and no others, in order and once each, and  *)
(* these and what it reports missed add up, for every n that a consumer    *)
(* can have been handed (lines 48-53).                                     *)
SinceIsExact ==
    \A c \in Conversations : \A n \in 0..seqs[c] :
       LET since == Retained(c, n)
       IN /\ {since[i] : i \in 1..Len(since)} =
                {buffers[c][i] : i \in {j \in 1..Len(buffers[c]) : buffers[c][j].seq > n}}
          /\ \A i, j \in 1..Len(since) : i < j => since[i].seq < since[j].seq
          /\ n > 0 => Len(since) + Missed(c, n) = seqs[c] - n

(* What the feed of w holds for its consumer, gap envelope aside. *)
GapIsFirst(w) == backlog[w] # <<>> /\ backlog[w][1].type = "gap"
GapAhead(w) == IF GapIsFirst(w) THEN backlog[w][1].missed ELSE 0
Pending(w) == (IF GapIsFirst(w) THEN Tail(backlog[w]) ELSE backlog[w]) \o queue[w]

(* The feed of w holds, in order and once, everything from some point      *)
(* after its consumer's cursor to the last publication, and what lies      *)
(* between the cursor and that point the consumer has been told, or is     *)
(* about to be told, that it missed.                                       *)
Complete(w) ==
    LET p == Pending(w)
        first == seqs[ConvOf[w]] - Len(p) + 1
    IN /\ \A i \in 1..Len(p) : p[i] = Envelope(ConvOf[w], first - 1 + i)
       /\ cursor[w] < first
       /\ cursor[w] > 0 =>
             \A n \in (cursor[w] + 1)..(first - 1) :
                n \in told[w] \/ n <= cursor[w] + GapAhead(w)

(* Publications that race a subscription, its backlog or a resumption are  *)
(* neither lost nor doubled: every open feed of a conversation that was    *)
(* never cleared is complete (watchEvents, lines 72-101).                  *)
FeedIsComplete ==
    \A w \in Watchers : Listening(w) /\ clears[ConvOf[w]] = 0 => Complete(w)

(* A consumer waiting on its feed has nothing to read: it was woken by     *)
(* whatever was pushed and by the loss of the connection (lines 79, 81).   *)
WaitingMeansIdle ==
    \A w \in Watchers : pc[w] = "waiting" => queue[w] = <<>> /\ ~closed[w]

(* A conversation that is never cleared is delivered as EventFeed says.    *)
(* Cleared conversations restart at seq 1 and are outside the promise.     *)
Feed(c) == INSTANCE EventFeed WITH
    Watchers <- {w \in Watchers : ConvOf[w] = c},
    appended <- seqs[c],
    position <- [w \in {v \in Watchers : ConvOf[v] = c} |-> cursor[w]],
    announced <- [w \in {v \in Watchers : ConvOf[v] = c} |-> told[w]]

FeedContract ==
    /\ \A c \in Conversations : Feed(c)!FeedInit
    /\ [][\A c \in Conversations :
             clears'[c] = 0 => Feed(c)!FeedNext \/ UNCHANGED Feed(c)!feedVars]_vars

(* Under a consumer that keeps pulling, what was published while its feed  *)
(* was open reaches it, or the feed ends or is left.                       *)
Delivered ==
    \A w \in Watchers : \A n \in 1..MaxSeq :
       (Listening(w) /\ clears[ConvOf[w]] = 0 /\ seqs[ConvOf[w]] >= n)
          ~> (cursor[w] >= n \/ ~Listening(w) \/ clears[ConvOf[w]] > 0)
=============================================================================
