--------------------------- MODULE EventFeedProofs ---------------------------
(***************************************************************************)
(* EventLog implements EventFeed, for every replayBufferSize and every set *)
(* of conversations and consumers. The invariant adds to that of           *)
(* EventLogProofs what gap envelopes may announce: only events that the    *)
(* buffer has dropped and that the feed does not hold.                     *)
(***************************************************************************)
EXTENDS EventLogProofs

(* No feed holds what its consumer was, or is about to be, told it missed.  *)
Dropped(w, n) ==
    /\ n + Len(buffers[ConvOf[w]]) <= seqs[ConvOf[w]]
    /\ Listening(w) => n + Len(Pending(w)) <= seqs[ConvOf[w]]
Honest(w) ==
    clears[ConvOf[w]] = 0 =>
        /\ \A n \in told[w] : Dropped(w, n)
        /\ Listening(w) /\ GapIsFirst(w) =>
             cursor[w] > 0 /\ GapAhead(w) > 0 /\ Dropped(w, cursor[w] + GapAhead(w))
GapsAreHonest == \A w \in Watchers : Honest(w)
FeedInv == IInv /\ GapsAreHonest
-----------------------------------------------------------------------------
LEMMA HonestInit == Init => GapsAreHonest
BY ConvAssumption DEF Init, GapsAreHonest, Honest, Listening

(* What the invariants say of one consumer's numbers.                       *)
LEMMA Numbers ==
    ASSUME IInv, NEW w \in Watchers
    PROVE  /\ ConvOf[w] \in Conversations /\ seqs[ConvOf[w]] \in Nat /\ clears[ConvOf[w]] \in Nat
           /\ Len(buffers[ConvOf[w]]) \in Nat /\ Len(buffers[ConvOf[w]]) <= seqs[ConvOf[w]]
           /\ cursor[w] \in Nat /\ told[w] \subseteq Nat
           /\ Len(Pending(w)) \in Nat /\ GapAhead(w) \in Nat
<1>1. /\ ConvOf[w] \in Conversations /\ seqs[ConvOf[w]] \in Nat /\ clears[ConvOf[w]] \in Nat
      /\ buffers[ConvOf[w]] \in Seq(Envelopes) /\ bufferSize \in Nat
      /\ cursor[w] \in Nat /\ told[w] \subseteq Nat
      /\ backlog[w] \in Seq(Envelopes \union Gaps)
  BY ConvAssumption, SizeAssumption DEF IInv, TypeOK
<1>2. Len(buffers[ConvOf[w]]) \in Nat /\ Len(buffers[ConvOf[w]]) <= seqs[ConvOf[w]]
  BY <1>1 DEF IInv, BufferIsSuffix
<1>3. Len(Pending(w)) \in Nat
  BY PendingParts DEF IInv
<1>4. GapAhead(w) \in Nat
  <2>1. CASE GapIsFirst(w)
    <3>1. backlog[w][1] \in Envelopes \union Gaps
      BY <1>1, <2>1, HeadTailProperties DEF GapIsFirst
    <3> QED BY <2>1, <3>1 DEF GapIsFirst, GapAhead, Envelopes, Gaps
  <2> QED BY <2>1 DEF GapAhead
<1> QED BY <1>1, <1>2, <1>3, <1>4

(* A step that leaves the conversation, the consumer and its feed alone, or *)
(* ends the feed.                                                           *)
LEMMA HonestFrame ==
    ASSUME NEW w \in Watchers, Honest(w),
           seqs'[ConvOf[w]] = seqs[ConvOf[w]], buffers'[ConvOf[w]] = buffers[ConvOf[w]],
           clears'[ConvOf[w]] = clears[ConvOf[w]], cursor'[w] = cursor[w], told'[w] = told[w],
           Listening(w)' => Listening(w) /\ backlog'[w] = backlog[w] /\ queue'[w] = queue[w]
    PROVE  Honest(w)'
<1>1. Listening(w)' => Pending(w)' = Pending(w) /\ GapAhead(w)' = GapAhead(w) /\ GapIsFirst(w)' = GapIsFirst(w)
  BY DEF Pending, GapAhead, GapIsFirst
<1> QED BY <1>1 DEF Honest, Dropped

(* What is published is added to the feed, and one event at most leaves the *)
(* buffer.                                                                  *)
LEMMA HonestPublish ==
    ASSUME IInv, NEW w \in Watchers, Honest(w), Publish(ConvOf[w])
    PROVE  Honest(w)'
<1> DEFINE c == ConvOf[w]
           e == Envelope(c, seqs[c] + 1)
<1>1. /\ c \in Conversations /\ seqs[c] \in Nat /\ Len(buffers[c]) \in Nat /\ Len(Pending(w)) \in Nat
      /\ cursor[w] \in Nat /\ told[w] \subseteq Nat /\ GapAhead(w) \in Nat
  BY Numbers
<1>2. /\ seqs'[c] = seqs[c] + 1 /\ clears' = clears /\ backlog' = backlog /\ cursor' = cursor /\ told' = told
      /\ buffers'[c] = Bounded(Append(buffers[c], e))
  BY <1>1 DEF IInv, TypeOK, Publish, consumerVars
<1>3. Listening(w)' = Listening(w) /\ (Listening(w) => queue'[w] = Append(queue[w], e))
  BY <1>1, EnvelopeFields DEF Publish, Push, Listening, IInv, TypeOK
<1>4. Len(buffers'[c]) <= Len(buffers[c]) + 1 /\ Len(buffers'[c]) \in Nat
  <2>1. /\ Len(buffers'[c]) = IF seqs[c] + 1 < bufferSize THEN seqs[c] + 1 ELSE bufferSize
        /\ Len(buffers[c]) = IF seqs[c] < bufferSize THEN seqs[c] ELSE bufferSize
    BY <1>1, <1>2, BoundedBuffer DEF IInv, BufferIsSuffix
  <2> QED BY <2>1, <1>1, SizeAssumption
<1>5. ASSUME Listening(w) PROVE Len(Pending(w)') = Len(Pending(w)) + 1
  <2>1. /\ Pending(w) = Rest(w) \o queue[w] /\ Pending(w)' = Rest(w) \o Append(queue[w], e)
        /\ Rest(w) \in Seq(Envelopes \union Gaps) /\ queue[w] \in Seq(Envelopes \union Gaps)
    BY <1>2, <1>3, <1>5, PendingParts DEF IInv, Pending, Rest, GapIsFirst
  <2>2. e \in Envelopes \union Gaps
    BY <1>1, EnvelopeFields
  <2> HIDE DEF e
  <2>3. Append(queue[w], e) \in Seq(Envelopes \union Gaps) /\ Len(Append(queue[w], e)) = Len(queue[w]) + 1
    BY <2>1, <2>2, AppendProperties
  <2>4. Len(Rest(w)) \in Nat /\ Len(queue[w]) \in Nat
    BY <2>1
  <2>5. /\ Len(Rest(w) \o queue[w]) = Len(Rest(w)) + Len(queue[w])
        /\ Len(Rest(w) \o Append(queue[w], e)) = Len(Rest(w)) + Len(Append(queue[w], e))
    BY <2>1, <2>3, ConcatProperties
  <2> QED BY <2>1, <2>3, <2>4, <2>5
<1>6. GapIsFirst(w)' = GapIsFirst(w) /\ GapAhead(w)' = GapAhead(w)
  BY <1>2 DEF GapIsFirst, GapAhead
<1>7. ASSUME NEW n \in Nat, Dropped(w, n) PROVE Dropped(w, n)'
  <2>1. n + Len(buffers'[c]) <= seqs'[c]
    BY <1>1, <1>2, <1>4, <1>7 DEF Dropped
  <2>2. Listening(w) => n + Len(Pending(w)') <= seqs'[c]
    BY <1>1, <1>2, <1>5, <1>7 DEF Dropped
  <2> QED BY <2>1, <2>2, <1>3 DEF Dropped
<1> QED BY <1>1, <1>2, <1>3, <1>6, <1>7 DEF Honest

(* since() counts as missed exactly what is older than the buffer.          *)
LEMMA HonestWatch ==
    ASSUME IInv, NEW w \in Watchers, Honest(w), Watch(w)
    PROVE  Honest(w)'
<1> DEFINE c == ConvOf[w]
           n == cursor[w]
           m == Missed(c, n)
           r == Retained(c, n)
           L == Len(buffers[c])
<1>1. /\ c \in Conversations /\ seqs[c] \in Nat /\ L \in Nat /\ L <= seqs[c] /\ n \in Nat /\ told[w] \subseteq Nat
  BY Numbers
<1>2. /\ seqs' = seqs /\ buffers' = buffers /\ clears' = clears /\ cursor' = cursor /\ told' = told
      /\ queue'[w] = <<>> /\ ~Listening(w)
  BY DEF Watch, logVars, consumerVars, IInv, TypeOK
<1>3. r \in Seq(Envelopes) /\ Len(r) \in 0..L /\ \A i \in 1..Len(r) : r[i] \in Envelopes
  <2>1. r \in Seq(Envelopes) /\ Len(r) \in 0..L
    BY <1>1, RetainedIsSuffix DEF IInv
  <2> HIDE DEF r
  <2> QED BY <2>1, ElementOfSeq
<1>4. /\ m = IF n > 0 /\ n + L < seqs[c] THEN seqs[c] - L - n ELSE 0
      /\ m > 0 => backlog'[w] # <<>> /\ backlog'[w][1] = Gap(c, n, m) /\ Tail(backlog'[w]) = r
      /\ m = 0 => backlog'[w] = r
  BY Subscription DEF IInv
<1> HIDE DEF m, r, L
<1>5. m \in Nat
  BY <1>1, <1>4
<1>6. /\ GapIsFirst(w)' <=> m > 0
      /\ GapAhead(w)' = m /\ Pending(w)' = r
  <2>1. r \o <<>> = r
    BY <1>3, ConcatEmptySeq
  <2>2. CASE m > 0
    <3>1. GapIsFirst(w)' /\ GapAhead(w)' = m
      BY <1>4, <2>2 DEF GapIsFirst, GapAhead, Gap
    <3> QED BY <1>2, <1>4, <2>1, <2>2, <3>1 DEF Pending
  <2>3. CASE m = 0
    <3>1. r # <<>> => r[1] \in Envelopes
      <4>1. r # <<>> => 1 \in 1..Len(r)
        BY <1>3, EmptySeq
      <4> QED BY <4>1, <1>3
    <3>2. ~GapIsFirst(w)'
      BY <1>4, <2>3, <3>1 DEF GapIsFirst, Envelopes
    <3> QED BY <1>2, <1>4, <2>1, <2>3, <3>2 DEF Pending, GapAhead
  <2> QED BY <1>5, <2>2, <2>3
<1>7. ASSUME NEW k \in Nat, k + L <= seqs[c] PROVE Dropped(w, k)'
  <2>1. k + Len(r) <= seqs[c]
    BY <1>1, <1>3, <1>7
  <2> QED BY <2>1, <1>2, <1>6, <1>7 DEF Dropped, L
<1>8. clears[c] = 0 => \A k \in told[w] : k + L <= seqs[c]
  BY DEF Honest, Dropped, L
<1>9. m > 0 => n > 0 /\ n + m + L <= seqs[c] /\ n + m \in Nat
  BY <1>1, <1>4, <1>5
<1> QED BY <1>1, <1>2, <1>6, <1>7, <1>8, <1>9 DEF Honest
-----------------------------------------------------------------------------
(* A consumer that is handed something hears of a gap or sees an event.      *)
Hears(w) ==
    /\ GapIsFirst(w) /\ UNCHANGED cursor /\ Pending(w)' = Pending(w)
    /\ told' = [told EXCEPT ![w] = @ \union ((cursor[w] + 1)..(cursor[w] + GapAhead(w)))]
Sees(w) ==
    /\ ~GapIsFirst(w) /\ UNCHANGED told
    /\ Pending(w) # <<>> /\ Pending(w)' = Tail(Pending(w))
    /\ cursor' = [cursor EXCEPT ![w] = Pending(w)[1].seq]
Takes(w) == Listening(w) /\ ~GapIsFirst(w)' /\ UNCHANGED logVars /\ (Hears(w) \/ Sees(w))

LEMMA TakesBacklog ==
    ASSUME IInv, NEW w \in Watchers, PullBacklog(w)
    PROVE  Takes(w)
<1> DEFINE b == backlog[w]
<1>1. /\ b \in Seq(Envelopes \union Gaps) /\ b # <<>> /\ \A i \in 2..Len(b) : b[i] \in Envelopes
      /\ queue[w] \in Seq(Envelopes \union Gaps)
  BY SeqMonotonic DEF IInv, TypeOK, PullBacklog
<1>2. /\ Listening(w) /\ queue' = queue /\ UNCHANGED logVars
      /\ backlog'[w] = Tail(b) /\ Hand(w, b[1])
  BY <1>1, HeadTailProperties DEF PullBacklog, Listening, IInv, TypeOK
<1>3. GapIsFirst(w) => b[1].seq = cursor[w]
  BY <1>2 DEF IInv, FeedShape, Shape
<1> HIDE DEF b
<1>4. /\ Tail(b) \in Seq(Envelopes \union Gaps) /\ Len(Tail(b)) = Len(b) - 1 /\ Len(b) \in Nat
      /\ \A i \in 1..Len(Tail(b)) : Tail(b)[i] = b[i + 1]
  BY <1>1, HeadTailProperties
<1>5. ~GapIsFirst(w)'
  <2>1. Tail(b) # <<>> => 1 \in 1..Len(Tail(b))
    BY <1>4, EmptySeq
  <2>2. Tail(b) # <<>> => Tail(b)[1] = b[2] /\ 2 \in 2..Len(b)
    BY <2>1, <1>4
  <2> QED BY <2>2, <1>1, <1>2 DEF GapIsFirst, Envelopes
<1>6. Pending(w)' = Tail(b) \o queue[w]
  BY <1>2, <1>5 DEF Pending
<1>7. CASE GapIsFirst(w)
  <2>1. b[1].type = "gap" /\ GapAhead(w) = b[1].missed /\ Pending(w) = Tail(b) \o queue[w]
    BY <1>7 DEF GapIsFirst, GapAhead, Pending, b
  <2>2. Hears(w)
    BY <1>2, <1>3, <1>6, <1>7, <2>1 DEF Hand, Hears
  <2> QED BY <1>2, <1>5, <2>2 DEF Takes
<1>8. CASE ~GapIsFirst(w)
  <2>1. b[1].type # "gap" /\ Pending(w) = b \o queue[w]
    BY <1>1, <1>8 DEF GapIsFirst, Pending, b
  <2>2. /\ b \o queue[w] # <<>> /\ (b \o queue[w])[1] = b[1]
        /\ Tail(b \o queue[w]) = Tail(b) \o queue[w]
    BY <1>1, HeadTailProperties
  <2>3. Sees(w)
    BY <1>2, <1>6, <1>8, <2>1, <2>2 DEF Hand, Sees
  <2> QED BY <1>2, <1>5, <2>3 DEF Takes
<1> QED BY <1>7, <1>8

LEMMA TakesLive ==
    ASSUME IInv, NEW w \in Watchers, PullLive(w)
    PROVE  Takes(w)
<1> DEFINE q == queue[w]
<1>1. Listening(w) /\ backlog[w] = <<>> /\ backlog' = backlog /\ UNCHANGED logVars
  BY DEF PullLive, AtQueue, Listening, IInv, FeedShape, Shape
<1>2. q \in Seq(Envelopes) /\ q # <<>>
  BY DEF PullLive, IInv, TypeOK
<1>3. queue'[w] = Tail(q) /\ Hand(w, q[1])
  BY <1>2, HeadTailProperties DEF PullLive, IInv, TypeOK
<1> HIDE DEF q
<1>4. Tail(q) \in Seq(Envelopes) /\ q[1] \in Envelopes
  BY <1>2, HeadTailProperties
<1>5. ~GapIsFirst(w) /\ ~GapIsFirst(w)'
  BY <1>1 DEF GapIsFirst
<1>6. Pending(w) = q /\ Pending(w)' = Tail(q)
  <2>1. Pending(w) = <<>> \o q /\ Pending(w)' = <<>> \o Tail(q)
    BY <1>1, <1>3, <1>5 DEF Pending, q
  <2> QED BY <2>1, <1>2, <1>4, ConcatEmptySeq
<1>7. cursor' = [cursor EXCEPT ![w] = q[1].seq] /\ told' = told
  BY <1>3, <1>4 DEF Hand, Envelopes
<1> QED BY <1>1, <1>2, <1>5, <1>6, <1>7 DEF Takes, Sees

LEMMA HonestTakes ==
    ASSUME IInv, NEW w \in Watchers, Honest(w), Takes(w)
    PROVE  Honest(w)'
<1> DEFINE c == ConvOf[w]
<1>1. /\ c \in Conversations /\ seqs[c] \in Nat /\ Len(buffers[c]) \in Nat /\ Len(Pending(w)) \in Nat
      /\ cursor[w] \in Nat /\ told[w] \subseteq Nat /\ GapAhead(w) \in Nat
  BY Numbers
<1>2. /\ seqs' = seqs /\ buffers' = buffers /\ clears' = clears /\ Listening(w) /\ ~GapIsFirst(w)'
  BY DEF Takes, logVars
<1>3. Len(Pending(w)') \in Nat /\ Len(Pending(w)') <= Len(Pending(w))
  <2>1. CASE Hears(w)
    BY <1>1, <2>1 DEF Hears
  <2>2. CASE Sees(w)
    <3> DEFINE p == Pending(w)
    <3>1. p \in Seq(Envelopes \union Gaps) /\ p # <<>> /\ Pending(w)' = Tail(p)
      BY <2>2, PendingParts DEF Sees, IInv
    <3> HIDE DEF p
    <3>2. Len(Tail(p)) = Len(p) - 1 /\ Len(Tail(p)) \in Nat /\ Len(p) \in Nat
      BY <3>1, HeadTailProperties, LenProperties
    <3> QED BY <3>1, <3>2 DEF p
  <2> QED BY <2>1, <2>2 DEF Takes
<1>4. ASSUME NEW n \in Nat, Dropped(w, n) PROVE Dropped(w, n)'
  BY <1>1, <1>2, <1>3, <1>4 DEF Dropped
<1>5. ASSUME clears[c] = 0, NEW n \in told'[w] PROVE Dropped(w, n)'
  <2>1. CASE n \in told[w]
    BY <1>1, <1>4, <1>5, <2>1 DEF Honest
  <2>2. CASE n \notin told[w]
    <3>1. Hears(w) /\ n \in (cursor[w] + 1)..(cursor[w] + GapAhead(w))
      BY <1>5, <2>2 DEF Takes, Hears, Sees, IInv, TypeOK
    <3>2. Dropped(w, cursor[w] + GapAhead(w))
      BY <1>2, <1>5, <3>1 DEF Hears, Honest
    <3>3. n \in Nat /\ n <= cursor[w] + GapAhead(w) /\ cursor[w] + GapAhead(w) \in Nat
      BY <1>1, <3>1
    <3>4. Dropped(w, n)
      BY <1>1, <3>2, <3>3, SMTT(30) DEF Dropped
    <3> QED BY <1>4, <3>3, <3>4
  <2> QED BY <2>1, <2>2
<1> QED BY <1>2, <1>5 DEF Honest

LEMMA HonestStep == FeedInv /\ [Next]_vars => GapsAreHonest'
<1> SUFFICES ASSUME FeedInv, [Next]_vars, NEW w \in Watchers PROVE Honest(w)'
  BY DEF GapsAreHonest
<1>0. IInv /\ Honest(w) /\ ConvOf[w] \in Conversations /\ clears \in [Conversations -> Nat]
  BY ConvAssumption DEF FeedInv, GapsAreHonest, IInv, TypeOK
<1>1. ASSUME NEW c \in Conversations, Publish(c) PROVE Honest(w)'
  <2>1. CASE c = ConvOf[w]
    BY <2>1, <1>0, <1>1, HonestPublish
  <2>2. CASE c # ConvOf[w]
    <3>1. /\ seqs'[ConvOf[w]] = seqs[ConvOf[w]] /\ buffers'[ConvOf[w]] = buffers[ConvOf[w]]
          /\ clears' = clears /\ backlog' = backlog /\ cursor' = cursor /\ told' = told
      BY <2>2, <1>0, <1>1 DEF Publish, IInv, TypeOK, consumerVars
    <3>2. queue'[w] = queue[w] /\ pc'[w] = pc[w]
      BY <2>2, <1>0, <1>1, EnvelopeFields DEF Publish, Push, Listening, IInv, TypeOK
    <3> QED BY <3>1, <3>2, <1>0, HonestFrame DEF Listening
  <2> QED BY <2>1, <2>2
<1>2. ASSUME NEW c \in Conversations, Clear(c) PROVE Honest(w)'
  <2>1. CASE c = ConvOf[w]
    <3>1. clears'[ConvOf[w]] # 0
      BY <2>1, <1>0, <1>2 DEF Clear
    <3> QED BY <3>1 DEF Honest
  <2>2. CASE c # ConvOf[w]
    <3>1. /\ seqs'[ConvOf[w]] = seqs[ConvOf[w]] /\ buffers'[ConvOf[w]] = buffers[ConvOf[w]]
          /\ clears'[ConvOf[w]] = clears[ConvOf[w]] /\ UNCHANGED <<pc, backlog, queue, cursor, told>>
      BY <2>2, <1>0, <1>2 DEF Clear, IInv, TypeOK, feedVars, consumerVars
    <3> QED BY <3>1, <1>0, HonestFrame DEF Listening
  <2> QED BY <2>1, <2>2
<1>3. ASSUME NEW v \in Watchers \ {w}, Watch(v) \/ Pull(v) \/ Break(v) PROVE Honest(w)'
  <2>1. /\ UNCHANGED logVars
        /\ backlog'[w] = backlog[w] /\ queue'[w] = queue[w] /\ pc'[w] = pc[w]
        /\ cursor'[w] = cursor[w] /\ told'[w] = told[w]
    BY <1>0, <1>3 DEF Watch, Pull, PullBacklog, PullLive, PullWait, PullEnd, Break, Hand,
                      IInv, TypeOK, consumerVars
  <2> QED BY <2>1, <1>0, HonestFrame DEF Listening, logVars
<1>4. CASE Watch(w)
  BY <1>4, <1>0, HonestWatch
<1>5. CASE PullBacklog(w) \/ PullLive(w)
  BY <1>5, <1>0, TakesBacklog, TakesLive, HonestTakes
<1>6. CASE PullWait(w) \/ PullEnd(w) \/ Break(w) \/ Lost \/ UNCHANGED vars
  <2>1. /\ UNCHANGED <<logVars, cursor, told>>
        /\ Listening(w)' => Listening(w) /\ backlog'[w] = backlog[w] /\ queue'[w] = queue[w]
    BY <1>0, <1>6 DEF PullWait, PullEnd, AtQueue, Break, Lost, Listening, IInv, TypeOK, feedVars, consumerVars, vars
  <2> QED BY <2>1, <1>0, HonestFrame DEF logVars
<1> QED BY <1>1, <1>2, <1>3, <1>4, <1>5, <1>6 DEF Next, Pull

LEMMA FeedInvariant == Spec => []FeedInv
<1>1. Init => FeedInv
  BY InitIInv, HonestInit DEF FeedInv
<1>2. FeedInv /\ [Next]_vars => FeedInv'
  BY IInvStep, HonestStep DEF FeedInv
<1> QED BY <1>1, <1>2, PTL DEF Spec
-----------------------------------------------------------------------------
(* Every step is one of EventFeed, of each conversation that was not cleared. *)
LEMMA ConversationStep ==
    ASSUME FeedInv, [Next]_vars, NEW c \in Conversations, clears'[c] = 0
    PROVE  Feed(c)!FeedNext \/ UNCHANGED Feed(c)!feedVars
<1> DEFINE W == {w \in Watchers : ConvOf[w] = c}
<1>0. IInv /\ clears \in [Conversations -> Nat] /\ seqs \in [Conversations -> Nat]
      /\ cursor \in [Watchers -> Nat] /\ told \in [Watchers -> SUBSET Nat]
  BY DEF FeedInv, IInv, TypeOK
<1>1. ASSUME seqs'[c] = seqs[c], UNCHANGED <<cursor, told>> PROVE UNCHANGED Feed(c)!feedVars
  BY <1>1 DEF Feed!feedVars
<1>2. ASSUME NEW d \in Conversations, Publish(d) PROVE Feed(c)!FeedNext \/ UNCHANGED Feed(c)!feedVars
  <2>1. UNCHANGED <<cursor, told>> /\ seqs' = [seqs EXCEPT ![d] = @ + 1]
    BY <1>2 DEF Publish, consumerVars
  <2>2. CASE d = c
    <3>1. Feed(c)!Append1
      BY <1>0, <2>1, <2>2 DEF Feed!Append1
    <3> QED BY <3>1 DEF Feed!FeedNext
  <2>3. CASE d # c
    BY <1>0, <1>1, <2>1, <2>3
  <2> QED BY <2>2, <2>3
<1>3. ASSUME NEW d \in Conversations, Clear(d) PROVE UNCHANGED Feed(c)!feedVars
  <2>1. d # c
    BY <1>0, <1>3 DEF Clear
  <2> QED BY <1>0, <1>1, <1>3, <2>1 DEF Clear, consumerVars
<1>4. ASSUME NEW w \in Watchers, PullBacklog(w) \/ PullLive(w)
      PROVE  Feed(c)!FeedNext \/ UNCHANGED Feed(c)!feedVars
  <2> DEFINE n == Pending(w)[1].seq
             upTo == cursor[w] + GapAhead(w)
  <2>1. Takes(w) /\ seqs' = seqs /\ clears' = clears
    BY <1>0, <1>4, TakesBacklog, TakesLive DEF Takes, logVars
  <2>2. \/ UNCHANGED told /\ cursor' = [cursor EXCEPT ![w] = n]
        \/ UNCHANGED cursor /\ told' = [told EXCEPT ![w] = @ \union ((cursor[w] + 1)..upTo)]
    BY <2>1 DEF Takes, Hears, Sees
  <2>3. CASE ConvOf[w] # c
    BY <1>0, <2>1, <2>2, <2>3 DEF Feed!feedVars
  <2>4. CASE ConvOf[w] = c
    <3>1. /\ w \in W /\ clears[c] = 0 /\ Honest(w) /\ Complete(w) /\ Listening(w)
      BY <2>1, <2>4 DEF FeedInv, GapsAreHonest, IInv, FeedIsComplete, Takes
    <3>2. /\ seqs[c] \in Nat /\ Len(buffers[c]) \in Nat /\ cursor[w] \in Nat /\ told[w] \subseteq Nat
          /\ Len(Pending(w)) \in Nat /\ GapAhead(w) \in Nat
      BY <1>0, <2>4, Numbers
    <3>3. CASE Hears(w)
      <4>1. cursor[w] > 0 /\ GapAhead(w) > 0 /\ upTo + Len(buffers[c]) <= seqs[c]
        BY <2>4, <3>1, <3>3 DEF Honest, Dropped, Hears
      <4>2. upTo \in (cursor[w] + 1)..seqs[c]
        BY <3>2, <4>1
      <4>3. UNCHANGED cursor /\ told' = [told EXCEPT ![w] = @ \union ((cursor[w] + 1)..upTo)]
        BY <3>3 DEF Hears
      <4> HIDE DEF upTo
      <4>4. Feed(c)!Announce(w)
        BY <1>0, <2>1, <3>1, <4>1, <4>2, <4>3 DEF Feed!Announce
      <4> QED BY <3>1, <4>4 DEF Feed!FeedNext
    <3>4. CASE Sees(w)
      <4> DEFINE p == Pending(w)
                 first == seqs[c] - Len(p) + 1
      <4>1. Len(p) \in Nat \ {0} /\ 1 \in 1..Len(p)
        <5>1. p \in Seq(Envelopes \union Gaps) /\ p # <<>>
          BY <1>0, <3>4, PendingParts DEF Sees, IInv
        <5> QED BY <5>1, <3>2, EmptySeq
      <4>2. n = first
        <5>1. p[1] = Envelope(c, first - 1 + 1)
          BY <2>4, <3>1, <4>1 DEF Complete
        <5>2. first - 1 + 1 = first
          BY <3>2
        <5> QED BY <5>1, <5>2, EnvelopeFields
      <4>3. GapAhead(w) = 0
        BY <3>4 DEF Sees, GapAhead
      <4>4. /\ cursor[w] < first
            /\ cursor[w] > 0 => \A k \in (cursor[w] + 1)..(first - 1) : k \in told[w] \/ k <= cursor[w]
        BY <2>4, <3>1, <3>2, <4>3 DEF Complete
      <4>5. first \notin told[w]
        BY <2>4, <3>1, <3>2 DEF Honest, Dropped
      <4> HIDE DEF p
      <4>6. first \in (cursor[w] + 1)..seqs[c]
        BY <3>2, <4>1, <4>4 DEF p
      <4>7. cursor[w] = 0 \/ (cursor[w] + 1)..(first - 1) \subseteq told[w]
        BY <3>2, <4>4, <4>6, SMTT(30)
      <4>8. UNCHANGED told /\ cursor' = [cursor EXCEPT ![w] = first]
        BY <3>4, <4>2 DEF Sees
      <4> HIDE DEF first
      <4>9. Feed(c)!Deliver(w)
        BY <1>0, <2>1, <3>1, <4>5, <4>6, <4>7, <4>8 DEF Feed!Deliver
      <4> QED BY <3>1, <4>9 DEF Feed!FeedNext
    <3> QED BY <2>1, <3>3, <3>4 DEF Takes
  <2> QED BY <2>3, <2>4
<1>5. ASSUME NEW w \in Watchers, Watch(w) \/ PullWait(w) \/ PullEnd(w) \/ Break(w)
      PROVE  UNCHANGED Feed(c)!feedVars
  BY <1>1, <1>5 DEF Watch, PullWait, PullEnd, Break, logVars, consumerVars
<1>6. CASE Lost \/ UNCHANGED vars
  BY <1>1, <1>6 DEF Lost, vars, logVars, consumerVars
<1> QED BY <1>2, <1>3, <1>4, <1>5, <1>6 DEF Next, Pull

(* What consumers of a conversation that is never cleared see of it is a    *)
(* behaviour of EventFeed: events in order and once, and skipped only after *)
(* they were announced as missed (events.mjs, lines 11-15, 48-101).         *)
THEOREM FeedKept == Spec => FeedContract
<1>1. Init => \A c \in Conversations : Feed(c)!FeedInit
  BY ConvAssumption DEF Init, Feed!FeedInit
<1>2. FeedInv /\ [Next]_vars =>
        [\A c \in Conversations : clears'[c] = 0 => Feed(c)!FeedNext \/ UNCHANGED Feed(c)!feedVars]_vars
  BY ConversationStep
<1> QED BY <1>1, <1>2, FeedInvariant, PTL DEF Spec, FeedContract
=============================================================================
